-------------------------- MODULE EventLoopProofs --------------------------
(***************************************************************************)
(* ez::event_loop on both systems (epoll.cpp, kqueue.cpp) for every number *)
(* of workers, of callers of stop() and of descriptor numbers: whom a stop *)
(* descriptor belongs to, and what follows for the threads that write to   *)
(* it.                                                                     *)
(***************************************************************************)
EXTENDS Kqueue, TLAPS

Places == {"idle", "spawning", "loop", "closing", "closed", "sweep", "sleep",
           "deleting", "returned"}
ThreadPlaces == {"none", "launched", "marked", "epoll", "piped", "loop", "left",
                 "halfclosed", "closed", "done"}
MaybeFds == EventFds \cup {NoFd}
WorkerRec == [stop_fd : MaybeFds, epoll_fd : BOOLEAN, running : BOOLEAN, stopping : BOOLEAN]

TypeOK ==
    /\ main \in Places
    /\ i \in Nat /\ m_workers \in 0..MaxWorkers
    /\ m_stop_fd \in MaybeFds
    /\ worker \in [Workers -> WorkerRec]
    /\ thread \in [Workers -> ThreadPlaces]
    /\ stopfd \in [Workers -> MaybeFds]
    /\ counter \in [EventFds -> Nat \cup {Closed}]
    /\ stopper \in [Stoppers -> {"idle", "writing", "done"}]
    /\ target \in [Stoppers -> MaybeFds]
    /\ watched \in [Workers -> SUBSET Clients]
    /\ signalled \subseteq Workers
    /\ stray \in BOOLEAN /\ sigpipe \in BOOLEAN
    /\ broken \subseteq EventFds

-----------------------------------------------------------------------------
(* The thread inside start() has an open stop descriptor; the main loop    *)
(* has come to its end; a worker has made its stop descriptor and has not  *)
(* closed it.                                                              *)
MainOwns == main \in {"spawning", "loop", "closing"}
MainEnded == main \in {"closing", "closed", "sweep", "sleep", "deleting", "returned"}
WorkerOwns(w) == thread[w] \in {"piped", "loop", "left", "halfclosed"}
BeforeStopFd(w) == thread[w] \in {"none", "launched", "marked", "epoll"}

(* Every loop that has a stop descriptor has an open one of its own.  The  *)
(* array holds the number that the worker's thread uses, also when it is   *)
(* stale.                                                                  *)
DescriptorsOwned ==
    /\ MainOwns => Open(m_stop_fd)
    /\ m_stop_fd # NoFd => MainOwns \/ main = "closed"
    /\ \A w \in Workers : worker[w].stop_fd = stopfd[w]
    /\ \A w \in Workers : BeforeStopFd(w) => stopfd[w] = NoFd
    /\ \A w \in Workers : WorkerOwns(w) => Open(stopfd[w])
    /\ \A w \in Workers : WorkerOwns(w) /\ MainOwns => stopfd[w] # m_stop_fd
    /\ \A v, w \in Workers : WorkerOwns(v) /\ WorkerOwns(w) /\ v # w => stopfd[v] # stopfd[w]

(* A pipe without a reader is one whose owner is about to close it.  An    *)
(* eventfd has only one end.                                               *)
BrokenOwned ==
    /\ os = "epoll" => broken = {} /\ main # "closed"
    /\ \A f \in broken :
          \/ main = "closing" /\ f = m_stop_fd
          \/ \E w \in Workers : thread[w] = "halfclosed" /\ stopfd[w] = f

(* A stop() under way holds the main descriptor, or a number that was. *)
TargetsKnown ==
    \A s \in Stoppers :
        /\ stopper[s] = "idle" => target[s] = NoFd
        /\ stopper[s] = "writing" => /\ target[s] \in EventFds
                                     /\ target[s] = m_stop_fd \/ MainEnded

(* Some stop() has come to its write. *)
Stopped == \E s \in Stoppers : stopper[s] = "done" /\ target[s] \in EventFds

TwoStops ==
    \E s1, s2 \in Stoppers : s1 # s2 /\ {target[s1], target[s2]} \subseteq EventFds

(* Only a stop() ends the main loop, and what goes wrong takes two. *)
EndsByStop ==
    /\ MainOwns /\ counter[m_stop_fd] > 0 => Stopped
    /\ MainEnded => Stopped
    /\ stray => MainEnded
    /\ stray \/ sigpipe => TwoStops

(* The sweep writes to a worker once, after the main loop, and nothing     *)
(* else makes its descriptor readable.                                     *)
SignalsKnown ==
    /\ \A w \in signalled : worker[w].stopping
    /\ signalled # {} => MainEnded
    /\ ~stray => \A w \in Workers :
                    (WorkerOwns(w) /\ counter[stopfd[w]] > 0) \/ Left(w) => w \in signalled

(* A client is handed to a worker that has an epoll, and threads exist     *)
(* from start_workers() on.                                                *)
ClientsKnown ==
    /\ \A w \in Workers : watched[w] # {} => worker[w].epoll_fd
    /\ \A w \in Workers : worker[w].epoll_fd => thread[w] \notin {"none", "launched", "marked"}
    /\ main \in {"idle", "spawning"} => \A w \in Workers : thread[w] = "none"

LoopInv ==
    /\ TypeOK /\ DescriptorsOwned /\ BrokenOwned /\ TargetsKnown
    /\ EndsByStop /\ SignalsKnown /\ ClientsKnown


(* What a write and a close do, and the small predicates of the model. *)
USE FdsAssumption, MaxWorkersAssumption
    DEF Workers, NoFd, Closed, MaybeFds, Places, ThreadPlaces, MainOwns, MainEnded,
        WorkerOwns, BeforeStopFd, Left, Stopped, Open, FreeFds, AfterClose, Touch,
        Signals, EndsLoop, ReturnsOnEvent, KqWorkerMoves, kqVars, vars

-----------------------------------------------------------------------------
(* write() changes no other descriptor, and opens and closes none. *)
LEMMA WrittenFds ==
    ASSUME TypeOK, NEW f
    PROVE  /\ Written(f) \in [EventFds -> Nat \cup {Closed}]
           /\ \A g \in EventFds : /\ Written(f)[g] # Closed <=> Open(g)
                                  /\ g # f => Written(f)[g] = counter[g]
<1>1. CASE Open(f)
  <2>1. counter[f] + 1 \in Nat
    BY <1>1 DEF TypeOK
  <2>2. Written(f) = [counter EXCEPT ![f] = counter[f] + 1]
    BY <1>1 DEF Written
  <2>3. QED
    BY <1>1, <2>1, <2>2 DEF TypeOK
<1>2. CASE ~Open(f)
  BY <1>2 DEF TypeOK, Written
<1>3. QED
  BY <1>1, <1>2

(* The assignments to one member of an element of the array. *)
LEMMA WorkerTyped ==
    ASSUME TypeOK, NEW w \in Workers, NEW f \in MaybeFds, NEW b \in BOOLEAN
    PROVE  /\ [worker EXCEPT ![w].running = b] \in [Workers -> WorkerRec]
           /\ [worker EXCEPT ![w].epoll_fd = b] \in [Workers -> WorkerRec]
           /\ [worker EXCEPT ![w].stopping = b] \in [Workers -> WorkerRec]
           /\ [worker EXCEPT ![w].stop_fd = f] \in [Workers -> WorkerRec]
<1>1. worker[w] \in WorkerRec
  BY DEF TypeOK
<1>2. [worker EXCEPT ![w].running = b] \in [Workers -> WorkerRec]
  BY <1>1 DEF TypeOK, WorkerRec
<1>3. [worker EXCEPT ![w].epoll_fd = b] \in [Workers -> WorkerRec]
  BY <1>1 DEF TypeOK, WorkerRec
<1>4. [worker EXCEPT ![w].stopping = b] \in [Workers -> WorkerRec]
  BY <1>1 DEF TypeOK, WorkerRec
<1>5. [worker EXCEPT ![w].stop_fd = f] \in [Workers -> WorkerRec]
  BY <1>1 DEF TypeOK, WorkerRec
<1>6. QED
  BY <1>2, <1>3, <1>4, <1>5

-----------------------------------------------------------------------------
(* stop() on either system: the descriptor is read, and later written to.  *)
(* The write reaches the main loop's own descriptor, or one whose loop is  *)
(* over; then another stop() has ended it.                                 *)
LEMMA StopCheckStep ==
    ASSUME LoopInv, NEW s \in Stoppers, StopCheck(s), UNCHANGED kqVars
    PROVE  LoopInv'
<1>1. TypeOK'
  BY DEF LoopInv, TypeOK, StopCheck
<1>2. QED
  BY <1>1 DEF LoopInv, TypeOK, DescriptorsOwned, BrokenOwned, TargetsKnown, EndsByStop,
              SignalsKnown, ClientsKnown, TwoStops, StopCheck

(* stop(), behind its test: the write. *)
LEMMA StopWriteStep ==
    ASSUME LoopInv, NEW s \in Stoppers, stopper[s] = "writing",
           stopper' = [stopper EXCEPT ![s] = "done"],
           counter' = Written(target[s]),
           stray' \in BOOLEAN, sigpipe' \in BOOLEAN,
           stray' <=> stray \/ (Open(target[s]) /\ (target[s] # m_stop_fd \/ main = "closed")),
           sigpipe' => sigpipe \/ target[s] \in broken,
           UNCHANGED <<main, i, found, m_workers, m_stop_fd, array, worker, thread, stopfd,
                       target, watched, signalled, os, broken>>
    PROVE  LoopInv'
<1>1. TypeOK'
  BY WrittenFds DEF LoopInv, TypeOK
<1>2. ASSUME NEW g \in EventFds
      PROVE  /\ Open(g)' <=> Open(g)
             /\ g # target[s] => counter'[g] = counter[g]
  BY WrittenFds DEF LoopInv
<1>3. DescriptorsOwned' /\ BrokenOwned' /\ TargetsKnown' /\ ClientsKnown'
  <2>1. DescriptorsOwned'
    BY ZenonT(30), <1>1, <1>2 DEF LoopInv, TypeOK, DescriptorsOwned
  <2>2. BrokenOwned' /\ TargetsKnown' /\ ClientsKnown'
    BY DEF LoopInv, TypeOK, BrokenOwned, TargetsKnown, ClientsKnown
  <2>3. QED
    BY <2>1, <2>2
<1>4. ASSUME MainEnded PROVE TwoStops
  <2>1. PICK r \in Stoppers : stopper[r] = "done" /\ target[r] \in EventFds
    BY <1>4 DEF LoopInv, EndsByStop
  <2>2. r # s /\ target[s] \in EventFds
    BY <2>1 DEF LoopInv, TargetsKnown
  <2>3. QED
    BY <2>1, <2>2 DEF TwoStops
<1>5. ASSUME target[s] \in broken PROVE MainEnded
  BY <1>5 DEF LoopInv, BrokenOwned, SignalsKnown, EndsByStop
<1>6. stray' => MainEnded
  BY DEF LoopInv, TypeOK, EndsByStop, TargetsKnown
<1>7. EndsByStop'
  <2>1. Stopped'
    BY DEF LoopInv, TypeOK, TargetsKnown
  <2>2. stray' \/ sigpipe' => TwoStops
    BY <1>4, <1>5, <1>6 DEF LoopInv, EndsByStop
  <2>3. QED
    BY <1>6, <2>1, <2>2 DEF EndsByStop, TwoStops
<1>8. SignalsKnown'
  <2>1. ASSUME ~stray', NEW w \in Workers, WorkerOwns(w)
        PROVE  counter'[stopfd[w]] = counter[stopfd[w]]
    <3>1. Open(stopfd[w])
      BY <2>1 DEF LoopInv, DescriptorsOwned
    <3>2. stopfd[w] # target[s]
      BY <2>1, <3>1 DEF LoopInv, DescriptorsOwned
    <3>3. QED
      BY <1>2, <3>1, <3>2
  <2>2. QED
    BY <2>1 DEF LoopInv, SignalsKnown
<1>9. QED
  BY <1>1, <1>3, <1>7, <1>8 DEF LoopInv

-----------------------------------------------------------------------------
(* The thread inside start(), up to the end of its loop. *)
LEMMA StartStep ==
    ASSUME LoopInv, Start, UNCHANGED kqVars
    PROVE  LoopInv'
<1>1. TypeOK'
  BY DEF LoopInv, TypeOK, Start
<1>2. QED
  BY <1>1 DEF LoopInv, TypeOK, DescriptorsOwned, BrokenOwned, TargetsKnown, EndsByStop,
              SignalsKnown, ClientsKnown, TwoStops, Start

(* start_workers() makes the threads, *)
LEMMA StartWorkersStep ==
    ASSUME LoopInv, NEW n \in 0..MaxWorkers, StartWorkers(n), UNCHANGED kqVars
    PROVE  LoopInv'
<1>1. TypeOK'
  BY DEF LoopInv, TypeOK, StartWorkers
<1>2. QED
  BY <1>1 DEF LoopInv, TypeOK, DescriptorsOwned, BrokenOwned, TargetsKnown, EndsByStop,
              SignalsKnown, ClientsKnown, TwoStops, StartWorkers

(* in kqueue.cpp too. *)
LEMMA KqStartWorkersStep ==
    ASSUME LoopInv, NEW n \in 0..MaxWorkers, KqStartWorkers(n), os = "kqueue"
    PROVE  LoopInv'
<1>1. TypeOK'
  BY DEF LoopInv, TypeOK, KqStartWorkers
<1>2. QED
  BY <1>1 DEF LoopInv, TypeOK, DescriptorsOwned, BrokenOwned, TargetsKnown, EndsByStop,
              SignalsKnown, ClientsKnown, TwoStops, KqStartWorkers

(* The main loop finds its stop descriptor readable. *)
LEMMA MainStopEventStep ==
    ASSUME LoopInv, MainStopEvent, os = "epoll", UNCHANGED kqVars
    PROVE  LoopInv'
<1>1. TypeOK'
  BY DEF LoopInv, TypeOK, MainStopEvent
<1>2. QED
  BY <1>1 DEF LoopInv, TypeOK, DescriptorsOwned, BrokenOwned, TargetsKnown, EndsByStop,
              SignalsKnown, ClientsKnown, TwoStops, MainStopEvent

(* The same with kqueue, where any event ends the loop. *)
LEMMA KqMainStopEventStep ==
    ASSUME LoopInv, KqMainStopEvent, os = "kqueue"
    PROVE  LoopInv'
<1>1. TypeOK'
  BY DEF LoopInv, TypeOK, KqMainStopEvent
<1>2. QED
  BY <1>1 DEF LoopInv, TypeOK, DescriptorsOwned, BrokenOwned, TargetsKnown, EndsByStop,
              SignalsKnown, ClientsKnown, TwoStops, KqMainStopEvent

(* add_fd(): only a worker that has an epoll gets a client. *)
LEMMA AddFdStep ==
    ASSUME LoopInv, NEW c \in Clients, NEW w \in Workers, AddFd(c, w), UNCHANGED kqVars
    PROVE  LoopInv'
<1>1. TypeOK'
  BY DEF LoopInv, TypeOK, AddFd
<1>2. ClientsKnown'
  BY DEF LoopInv, TypeOK, ClientsKnown, AddFd
<1>3. QED
  BY <1>1, <1>2 DEF LoopInv, DescriptorsOwned, BrokenOwned, TargetsKnown, EndsByStop,
                    SignalsKnown, TwoStops, AddFd

(* The descriptor of the main loop is closed: at once, or in two steps and *)
(* forgotten in a third.                                                   *)
LEMMA MainCloseStep ==
    ASSUME LoopInv, MainClose, os = "epoll", UNCHANGED kqVars
    PROVE  LoopInv'
<1>1. TypeOK'
  BY DEF LoopInv, TypeOK, MainClose
<1>2. QED
  BY <1>1 DEF LoopInv, TypeOK, DescriptorsOwned, BrokenOwned, TargetsKnown, EndsByStop,
              SignalsKnown, ClientsKnown, TwoStops, MainClose

(* The main pipe loses its reader, *)
LEMMA KqCloseReadEndStep ==
    ASSUME LoopInv, KqCloseReadEnd, os = "kqueue"
    PROVE  LoopInv'
<1>1. TypeOK'
  BY DEF LoopInv, TypeOK, DescriptorsOwned, KqCloseReadEnd
<1>2. QED
  BY <1>1 DEF LoopInv, TypeOK, DescriptorsOwned, BrokenOwned, TargetsKnown, EndsByStop,
              SignalsKnown, ClientsKnown, TwoStops, KqCloseReadEnd

(* then its number is free, *)
LEMMA KqCloseWriteEndStep ==
    ASSUME LoopInv, KqCloseWriteEnd, os = "kqueue"
    PROVE  LoopInv'
<1>1. TypeOK'
  BY DEF LoopInv, TypeOK, KqCloseWriteEnd
<1>2. QED
  BY <1>1 DEF LoopInv, TypeOK, DescriptorsOwned, BrokenOwned, TargetsKnown, EndsByStop,
              SignalsKnown, ClientsKnown, TwoStops, KqCloseWriteEnd

(* then the object forgets it. *)
LEMMA KqForgetStep ==
    ASSUME LoopInv, KqForget, os = "kqueue"
    PROVE  LoopInv'
<1>1. TypeOK'
  BY DEF LoopInv, TypeOK, KqForget
<1>2. QED
  BY <1>1 DEF LoopInv, TypeOK, DescriptorsOwned, BrokenOwned, TargetsKnown, EndsByStop,
              SignalsKnown, ClientsKnown, TwoStops, KqForget

(* One element of the sweep, on either system.  A worker that is told to   *)
(* stop has not left its loop, so the number in the array is its own       *)
(* descriptor or none: no other worker, and no broken pipe, is written to. *)
LEMMA SweepStep ==
    ASSUME LoopInv, Sweep, UNCHANGED <<os, broken>>, sigpipe' \in BOOLEAN,
           sigpipe' => sigpipe \/ (Signals(i) /\ worker[i].stop_fd \in broken)
    PROVE  LoopInv'
<1>1. i \in Workers
  BY DEF LoopInv, TypeOK, Sweep
<1>2. TypeOK'
  <2>1. worker' \in [Workers -> WorkerRec]
    BY <1>1, WorkerTyped DEF LoopInv, TypeOK, Sweep
  <2>2. counter' \in [EventFds -> Nat \cup {Closed}]
    BY <1>1, WrittenFds DEF LoopInv, TypeOK, Sweep
  <2>3. signalled' \subseteq Workers
    BY <1>1 DEF LoopInv, TypeOK, Sweep
  <2>4. QED
    BY <1>1, <2>1, <2>2, <2>3 DEF LoopInv, TypeOK, Sweep
<1>3. ASSUME NEW g \in EventFds
      PROVE  /\ Open(g)' <=> Open(g)
             /\ g # worker[i].stop_fd => counter'[g] = counter[g]
  BY WrittenFds DEF LoopInv, Sweep
<1>4. /\ \A w \in Workers : /\ worker'[w].stop_fd = worker[w].stop_fd
                             /\ worker'[w].epoll_fd = worker[w].epoll_fd
                             /\ worker[w].stopping => worker'[w].stopping
      /\ Signals(i) => worker'[i].stopping
  BY <1>1 DEF LoopInv, TypeOK, WorkerRec, Sweep
<1>5. DescriptorsOwned'
  BY <1>2, <1>3, <1>4 DEF LoopInv, TypeOK, DescriptorsOwned, Sweep
<1>6. BrokenOwned' /\ TargetsKnown' /\ ClientsKnown'
  BY <1>4 DEF LoopInv, TypeOK, BrokenOwned, TargetsKnown, ClientsKnown, Sweep
<1>7. ASSUME ~stray, Signals(i), stopfd[i] \in EventFds
      PROVE  WorkerOwns(i) /\ ~Left(i)
  <2>1. ~Left(i)
    BY <1>1, <1>7 DEF LoopInv, SignalsKnown
  <2>2. ~BeforeStopFd(i)
    BY <1>1, <1>7 DEF LoopInv, DescriptorsOwned
  <2>3. thread[i] \in ThreadPlaces
    BY <1>1 DEF LoopInv, TypeOK
  <2>4. QED
    BY <2>1, <2>2, <2>3
<1>8. EndsByStop'
  <2>1. ASSUME ~stray, Signals(i) PROVE worker[i].stop_fd \notin broken
    <3>1. SUFFICES ASSUME stopfd[i] \in broken PROVE FALSE
      BY <1>1 DEF LoopInv, DescriptorsOwned
    <3>2. PICK w \in Workers : thread[w] = "halfclosed" /\ stopfd[w] = stopfd[i]
      BY <3>1 DEF LoopInv, BrokenOwned, Sweep
    <3>3. WorkerOwns(i) /\ ~Left(i)
      BY <1>7, <2>1, <3>1 DEF LoopInv, TypeOK
    <3>4. QED
      BY <1>1, <3>2, <3>3 DEF LoopInv, DescriptorsOwned
  <2>2. QED
    BY <2>1 DEF LoopInv, EndsByStop, TwoStops, Sweep
<1>9. SignalsKnown'
  <2>1. ASSUME ~stray, NEW w \in Workers, WorkerOwns(w), counter'[stopfd[w]] > 0
        PROVE  w \in signalled'
    <3>1. Open(stopfd[w])
      BY <2>1 DEF LoopInv, DescriptorsOwned
    <3>2. CASE counter'[stopfd[w]] = counter[stopfd[w]]
      BY <2>1, <3>2 DEF LoopInv, SignalsKnown, Sweep
    <3>3. CASE counter'[stopfd[w]] # counter[stopfd[w]]
      <4>1. stopfd[w] = stopfd[i] /\ Signals(i)
        BY <1>1, <1>3, <3>1, <3>3 DEF LoopInv, DescriptorsOwned, Sweep
      <4>2. WorkerOwns(i)
        BY <1>7, <2>1, <3>1, <4>1
      <4>3. w = i
        BY <1>1, <2>1, <4>1, <4>2 DEF LoopInv, DescriptorsOwned
      <4>4. QED
        BY <1>1, <3>1, <4>1, <4>3 DEF LoopInv, DescriptorsOwned, Sweep
    <3>4. QED
      BY <3>2, <3>3
  <2>2. QED
    BY <1>1, <1>4, <2>1 DEF LoopInv, SignalsKnown, Sweep
<1>10. QED
  BY <1>2, <1>5, <1>6, <1>8, <1>9 DEF LoopInv

(* The sweep is over. *)
LEMMA AfterSweepStep ==
    ASSUME LoopInv, SweepEnd \/ SleepEnd \/ DeleteWorkers, UNCHANGED kqVars
    PROVE  LoopInv'
<1>1. TypeOK'
  <2>1. CASE SweepEnd
    BY <2>1 DEF LoopInv, TypeOK, SweepEnd
  <2>2. CASE SleepEnd
    BY <2>2 DEF LoopInv, TypeOK, SleepEnd
  <2>3. CASE DeleteWorkers
    BY <2>3 DEF LoopInv, TypeOK, DeleteWorkers
  <2>4. QED
    BY <2>1, <2>2, <2>3
<1>2. QED
  BY <1>1 DEF LoopInv, TypeOK, DescriptorsOwned, BrokenOwned, TargetsKnown, EndsByStop,
              SignalsKnown, ClientsKnown, TwoStops, SweepEnd, SleepEnd, DeleteWorkers

-----------------------------------------------------------------------------
(* A worker thread of epoll.cpp. *)
LEMMA MarkRunningStep ==
    ASSUME LoopInv, NEW w \in Workers, MarkRunning(w), UNCHANGED kqVars
    PROVE  LoopInv'
<1>1. TypeOK'
  BY WorkerTyped DEF LoopInv, TypeOK, MarkRunning
<1>2. QED
  BY SMTT(30), <1>1 DEF LoopInv, TypeOK, DescriptorsOwned, BrokenOwned, TargetsKnown, EndsByStop,
              SignalsKnown, ClientsKnown, TwoStops, MarkRunning

(* A worker has its epoll. *)
LEMMA CreateEpollStep ==
    ASSUME LoopInv, NEW w \in Workers, CreateEpoll(w), UNCHANGED kqVars
    PROVE  LoopInv'
<1>1. TypeOK'
  BY WorkerTyped DEF LoopInv, TypeOK, CreateEpoll
<1>2. DescriptorsOwned' /\ BrokenOwned' /\ TargetsKnown' /\ EndsByStop'
  BY <1>1 DEF LoopInv, TypeOK, WorkerRec, DescriptorsOwned, BrokenOwned, TargetsKnown,
              EndsByStop, TwoStops, CreateEpoll
<1>3. SignalsKnown' /\ ClientsKnown'
  BY <1>1 DEF LoopInv, TypeOK, WorkerRec, SignalsKnown, ClientsKnown, CreateEpoll
<1>4. QED
  BY <1>1, <1>2, <1>3 DEF LoopInv

(* A new descriptor is one that nobody has open. *)
LEMMA NewDescriptorStep ==
    ASSUME LoopInv, NEW w \in Workers, NEW f \in FreeFds, thread[w] = "epoll",
           thread' = [thread EXCEPT ![w] = "piped"] \/ thread' = [thread EXCEPT ![w] = "loop"],
           worker' = [worker EXCEPT ![w].stop_fd = f],
           stopfd' = [stopfd EXCEPT ![w] = f],
           counter' = [counter EXCEPT ![f] = 0],
           UNCHANGED <<main, i, m_workers, m_stop_fd, array, stopper, target, watched,
                       signalled, stray, kqVars>>
    PROVE  LoopInv'
<1>1. TypeOK'
  <2>1. worker' \in [Workers -> WorkerRec]
    BY WorkerTyped DEF LoopInv, TypeOK
  <2>2. QED
    BY <2>1 DEF LoopInv, TypeOK
<1>2. \A v \in Workers : v # w => stopfd'[v] = stopfd[v] /\ thread'[v] = thread[v]
  BY DEF LoopInv, TypeOK
<1>3. DescriptorsOwned'
  BY SMTT(30), <1>1 DEF LoopInv, TypeOK, WorkerRec, DescriptorsOwned
<1>4. BrokenOwned' /\ TargetsKnown' /\ EndsByStop'
  <2>1. BrokenOwned' /\ TargetsKnown'
    BY <1>2 DEF LoopInv, BrokenOwned, TargetsKnown
  <2>2. MainOwns => counter'[m_stop_fd] = counter[m_stop_fd]
    BY DEF LoopInv, TypeOK, DescriptorsOwned
  <2>3. EndsByStop'
    BY <2>2 DEF LoopInv, EndsByStop, TwoStops
  <2>4. QED
    BY <2>1, <2>3
<1>5. SignalsKnown' /\ ClientsKnown'
  BY <1>1 DEF LoopInv, TypeOK, WorkerRec, DescriptorsOwned, SignalsKnown, ClientsKnown
<1>6. QED
  BY <1>1, <1>3, <1>4, <1>5 DEF LoopInv

(* The event of its stop descriptor: it has been signalled. *)
LEMMA WorkerStopEventStep ==
    ASSUME LoopInv, NEW w \in Workers, WorkerStopEvent(w), UNCHANGED kqVars
    PROVE  LoopInv'
<1>1. TypeOK'
  BY DEF LoopInv, TypeOK, WorkerStopEvent
<1>2. DescriptorsOwned' /\ BrokenOwned' /\ TargetsKnown' /\ EndsByStop'
  BY <1>1 DEF LoopInv, TypeOK, DescriptorsOwned, BrokenOwned, TargetsKnown, EndsByStop,
              TwoStops, WorkerStopEvent
<1>3. SignalsKnown' /\ ClientsKnown'
  BY <1>1 DEF LoopInv, TypeOK, DescriptorsOwned, SignalsKnown, ClientsKnown, WorkerStopEvent
<1>4. QED
  BY <1>1, <1>2, <1>3 DEF LoopInv

(* A worker that left closes its descriptors, *)
LEMMA CloseFdsStep ==
    ASSUME LoopInv, NEW w \in Workers, CloseFds(w), os = "epoll", UNCHANGED kqVars
    PROVE  LoopInv'
<1>1. TypeOK'
  BY DEF LoopInv, TypeOK, CloseFds
<1>2. QED
  BY SMTT(30), <1>1 DEF LoopInv, TypeOK, DescriptorsOwned, BrokenOwned, TargetsKnown, EndsByStop,
              SignalsKnown, ClientsKnown, TwoStops, CloseFds

(* and says so. *)
LEMMA MarkStoppedStep ==
    ASSUME LoopInv, NEW w \in Workers, MarkStopped(w), UNCHANGED kqVars
    PROVE  LoopInv'
<1>1. TypeOK'
  BY WorkerTyped DEF LoopInv, TypeOK, MarkStopped
<1>2. QED
  BY SMTT(30), <1>1 DEF LoopInv, TypeOK, DescriptorsOwned, BrokenOwned, TargetsKnown, EndsByStop,
              SignalsKnown, ClientsKnown, TwoStops, MarkStopped

(* A worker thread of kqueue.cpp. *)
LEMMA KqCreateKqueueStep ==
    ASSUME LoopInv, NEW w \in Workers, KqCreateKqueue(w)
    PROVE  LoopInv'
<1>1. TypeOK'
  BY WorkerTyped DEF LoopInv, TypeOK, KqCreateKqueue
<1>2. DescriptorsOwned' /\ BrokenOwned' /\ TargetsKnown' /\ EndsByStop'
  BY <1>1 DEF LoopInv, TypeOK, WorkerRec, DescriptorsOwned, BrokenOwned, TargetsKnown,
              EndsByStop, TwoStops, KqCreateKqueue
<1>3. SignalsKnown' /\ ClientsKnown'
  BY <1>1 DEF LoopInv, TypeOK, WorkerRec, SignalsKnown, ClientsKnown, KqCreateKqueue
<1>4. QED
  BY <1>1, <1>2, <1>3 DEF LoopInv

(* A worker of kqueue.cpp is marked running when its pipe exists. *)
LEMMA KqMarkRunningStep ==
    ASSUME LoopInv, NEW w \in Workers, KqMarkRunning(w)
    PROVE  LoopInv'
<1>1. TypeOK'
  BY WorkerTyped DEF LoopInv, TypeOK, KqMarkRunning
<1>2. DescriptorsOwned' /\ BrokenOwned' /\ TargetsKnown' /\ EndsByStop'
  BY SMTT(30), <1>1 DEF LoopInv, TypeOK, WorkerRec, DescriptorsOwned, BrokenOwned, TargetsKnown,
              EndsByStop, TwoStops, KqMarkRunning
<1>3. SignalsKnown' /\ ClientsKnown'
  BY <1>1 DEF LoopInv, TypeOK, WorkerRec, SignalsKnown, ClientsKnown, KqMarkRunning
<1>4. QED
  BY <1>1, <1>2, <1>3 DEF LoopInv

(* Any event on its pipe makes it leave. *)
LEMMA KqWorkerStopEventStep ==
    ASSUME LoopInv, NEW w \in Workers, KqWorkerStopEvent(w)
    PROVE  LoopInv'
<1>1. TypeOK'
  BY DEF LoopInv, TypeOK, KqWorkerStopEvent
<1>2. QED
  BY <1>1 DEF LoopInv, TypeOK, DescriptorsOwned, BrokenOwned, TargetsKnown, EndsByStop,
              SignalsKnown, ClientsKnown, TwoStops, KqWorkerStopEvent

(* It closes the read end, *)
LEMMA KqWorkerClosesStep ==
    ASSUME LoopInv, NEW w \in Workers, KqWorkerCloses(w), os = "kqueue"
    PROVE  LoopInv'
<1>1. TypeOK'
  <2>1. worker[w].stop_fd \in EventFds
    BY DEF LoopInv, DescriptorsOwned, KqWorkerCloses
  <2>2. QED
    BY <2>1 DEF LoopInv, TypeOK, KqWorkerCloses
<1>2. QED
  BY <1>1 DEF LoopInv, TypeOK, DescriptorsOwned, BrokenOwned, TargetsKnown, EndsByStop,
              SignalsKnown, ClientsKnown, TwoStops, KqWorkerCloses

(* then the write end. *)
LEMMA KqWorkerClosesPipeStep ==
    ASSUME LoopInv, NEW w \in Workers, KqWorkerClosesPipe(w), os = "kqueue"
    PROVE  LoopInv'
<1>1. TypeOK'
  BY DEF LoopInv, TypeOK, KqWorkerClosesPipe
<1>2. QED
  BY <1>1 DEF LoopInv, TypeOK, DescriptorsOwned, BrokenOwned, TargetsKnown, EndsByStop,
              SignalsKnown, ClientsKnown, TwoStops, KqWorkerClosesPipe

-----------------------------------------------------------------------------
(* Init: no thread, no open descriptor. *)
LEMMA InitLoopInv == LoopInit => LoopInv
<1> SUFFICES ASSUME LoopInit PROVE LoopInv
  OBVIOUS
<1>1. TypeOK
  <2>1. worker \in [Workers -> WorkerRec]
    BY DEF LoopInit, Init, NewWorker, WorkerRec
  <2>2. /\ thread \in [Workers -> ThreadPlaces]
        /\ stopper \in [Stoppers -> {"idle", "writing", "done"}]
    BY DEF LoopInit, Init
  <2>3. m_workers \in 0..MaxWorkers /\ counter \in [EventFds -> Nat \cup {Closed}]
    BY DEF LoopInit, Init
  <2>4. QED
    BY <2>1, <2>2, <2>3 DEF LoopInit, Init, TypeOK
<1>2. DescriptorsOwned /\ BrokenOwned /\ TargetsKnown
  BY DEF LoopInit, Init, NewWorker, DescriptorsOwned, BrokenOwned, TargetsKnown
<1>3. EndsByStop /\ SignalsKnown /\ ClientsKnown
  BY DEF LoopInit, Init, NewWorker, EndsByStop, SignalsKnown, ClientsKnown
<1>4. QED
  BY <1>1, <1>2, <1>3 DEF LoopInv

(* Every step of epoll.cpp. *)
LEMMA EpollStep ==
    ASSUME LoopInv, os = "epoll", EpollNext
    PROVE  LoopInv'
<1>1. UNCHANGED kqVars /\ Next
  BY DEF EpollNext
<1>2. CASE Start
  BY <1>1, <1>2, StartStep
<1>3. CASE \E n \in 0..MaxWorkers : StartWorkers(n)
  BY <1>1, <1>3, StartWorkersStep
<1>4. CASE MainStep
  <2>1. CASE MainStopEvent
    BY <1>1, <2>1, MainStopEventStep
  <2>2. CASE MainClose
    BY <1>1, <2>2, MainCloseStep
  <2>3. CASE Sweep
    BY <1>1, <2>3, SweepStep DEF LoopInv, TypeOK
  <2>4. CASE SweepEnd \/ SleepEnd \/ DeleteWorkers
    BY <1>1, <2>4, AfterSweepStep
  <2>5. QED
    BY <1>4, <2>1, <2>2, <2>3, <2>4 DEF MainStep
<1>5. ASSUME NEW w \in Workers, WorkerStep(w) PROVE LoopInv'
  <2>1. CASE CreateStopFd(w)
    <3>1. PICK f \in FreeFds : /\ worker' = [worker EXCEPT ![w].stop_fd = f]
                              /\ stopfd' = [stopfd EXCEPT ![w] = f]
                              /\ counter' = [counter EXCEPT ![f] = 0]
      BY <2>1 DEF CreateStopFd
    <3>2. QED
      BY <1>1, <2>1, <3>1, NewDescriptorStep DEF CreateStopFd
  <2>2. QED
    BY <1>1, <1>5, <2>1, MarkRunningStep, CreateEpollStep, WorkerStopEventStep, CloseFdsStep,
       MarkStoppedStep DEF WorkerStep
<1>6. ASSUME NEW s \in Stoppers, StopCheck(s) \/ StopWrite(s) PROVE LoopInv'
  <2>1. CASE StopCheck(s)
    BY <1>1, <2>1, StopCheckStep
  <2>2. CASE StopWrite(s)
    <3>1. main # "closed"
      BY DEF LoopInv, BrokenOwned
    <3>2. QED
      BY <1>1, <2>2, <3>1, StopWriteStep DEF LoopInv, TypeOK, StopWrite
  <2>3. QED
    BY <1>6, <2>1, <2>2
<1>7. CASE \E c \in Clients, w \in Workers : AddFd(c, w)
  BY <1>1, <1>7, AddFdStep
<1>8. QED
  BY <1>1, <1>2, <1>3, <1>4, <1>5, <1>6, <1>7 DEF Next

(* Every step of kqueue.cpp. *)
LEMMA KqStep ==
    ASSUME LoopInv, os = "kqueue", KqNext
    PROVE  LoopInv'
<1>1. CASE KqStart
  BY <1>1, StartStep DEF KqStart
<1>2. CASE \E n \in 0..MaxWorkers : KqStartWorkers(n)
  BY <1>2, KqStartWorkersStep
<1>3. CASE KqMainStep
  <2>1. CASE KqSweep
    BY <2>1, SweepStep DEF LoopInv, TypeOK, KqSweep
  <2>2. CASE KqAfterSweep
    BY <2>2, AfterSweepStep DEF KqAfterSweep
  <2>3. QED
    BY <1>3, <2>1, <2>2, KqMainStopEventStep, KqCloseReadEndStep, KqCloseWriteEndStep,
       KqForgetStep DEF KqMainStep
<1>4. ASSUME NEW w \in Workers, KqWorkerStep(w) PROVE LoopInv'
  <2>1. CASE KqCreatePipe(w)
    <3>1. PICK f \in FreeFds : /\ worker' = [worker EXCEPT ![w].stop_fd = f]
                              /\ stopfd' = [stopfd EXCEPT ![w] = f]
                              /\ counter' = [counter EXCEPT ![f] = 0]
      BY <2>1 DEF KqCreatePipe
    <3>2. QED
      BY <2>1, <3>1, NewDescriptorStep DEF KqCreatePipe
  <2>2. CASE KqMarkStopped(w)
    BY <2>2, MarkStoppedStep DEF KqMarkStopped
  <2>3. QED
    BY <1>4, <2>1, <2>2, KqCreateKqueueStep, KqMarkRunningStep, KqWorkerStopEventStep,
       KqWorkerClosesStep, KqWorkerClosesPipeStep DEF KqWorkerStep
<1>5. ASSUME NEW s \in Stoppers, KqStopCheck(s) \/ KqStopWrite(s) PROVE LoopInv'
  <2>1. CASE KqStopCheck(s)
    BY <2>1, StopCheckStep DEF KqStopCheck
  <2>2. CASE KqStopWrite(s)
    BY <2>2, StopWriteStep DEF LoopInv, TypeOK, KqStopWrite, PipeWritten
  <2>3. QED
    BY <1>5, <2>1, <2>2
<1>6. CASE \E c \in Clients, w \in Workers : KqAddFd(c, w)
  BY <1>6, AddFdStep DEF KqAddFd
<1>7. QED
  BY <1>1, <1>2, <1>3, <1>4, <1>5, <1>6 DEF KqNext

(* The invariant of the event loop, on both systems. *)
LEMMA LoopInvariant == LoopSpec => []LoopInv
<1>1. LoopInv /\ [LoopNext]_allVars => LoopInv'
  <2> SUFFICES ASSUME LoopInv, [LoopNext]_allVars PROVE LoopInv'
    OBVIOUS
  <2>1. CASE UNCHANGED allVars
    BY <2>1 DEF allVars, LoopInv, TypeOK, DescriptorsOwned, BrokenOwned, TargetsKnown,
                EndsByStop, SignalsKnown, ClientsKnown, TwoStops
  <2>2. QED
    BY <2>1, EpollStep, KqStep DEF LoopNext
<1>2. QED
  BY <1>1, InitLoopInv, PTL DEF LoopSpec

-----------------------------------------------------------------------------
(* Whatever the order in which loops begin, end and reuse numbers, each    *)
(* loop that has a stop descriptor has an open one that no other loop      *)
(* uses, and only its owner closes it; a pipe has lost its reader only     *)
(* between the two close() calls of its owner.                             *)
THEOREM StopDescriptors == LoopSpec => [](DescriptorsOwned /\ BrokenOwned)
<1>1. LoopInv => DescriptorsOwned /\ BrokenOwned
  BY DEF LoopInv
<1>2. QED
  BY <1>1, LoopInvariant, PTL

(* A worker leaves process_events() only because the sweep of start()      *)
(* wrote to its own stop descriptor, unless a stop() wrote to a reused     *)
(* number.                                                                 *)
THEOREM WorkersLeaveWhenSignalled == LoopSpec => []LeavesOnlyWhenSignalled
<1>1. LoopInv => LeavesOnlyWhenSignalled
  BY DEF LoopInv, SignalsKnown, LeavesOnlyWhenSignalled
<1>2. QED
  BY <1>1, LoopInvariant, PTL

(* While the main loop runs, every client given to a worker by add_fd() is *)
(* in the epoll or kqueue of a worker that has not left its loop.          *)
THEOREM ClientsServed == LoopSpec => []ClientsAreServed
<1>1. LoopInv => ClientsAreServed
  <2> SUFFICES ASSUME LoopInv, main = "loop", NEW w \in Workers, watched[w] # {}
               PROVE  thread[w] \in {"epoll", "piped", "loop"}
    BY DEF ClientsAreServed
  <2>1. ~Left(w)
    BY DEF LoopInv, SignalsKnown, EndsByStop
  <2>2. thread[w] \in ThreadPlaces \ {"none", "launched", "marked"}
    BY DEF LoopInv, TypeOK, ClientsKnown
  <2>3. QED
    BY <2>1, <2>2
<1>2. QED
  BY <1>1, LoopInvariant, PTL

(* A write() raises SIGPIPE only when two calls of stop() overlap the end  *)
(* of the loop: one call alone, and the sweep of start(), always find a    *)
(* reader.                                                                 *)
THEOREM StopFindsReader == LoopSpec => []OneStopFindsReader
<1>1. LoopInv => OneStopFindsReader
  BY DEF LoopInv, EndsByStop, TwoStops, OneStopFindsReader
<1>2. QED
  BY <1>1, LoopInvariant, PTL
=============================================================================
