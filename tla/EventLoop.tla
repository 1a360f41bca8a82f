------------------------------ MODULE EventLoop ------------------------------
(***************************************************************************)
(* ez::event_loop on Linux (source/epoll.cpp): the life of one start().    *)
(*                                                                         *)
(* The thread that calls start() runs the main loop; start_workers() has   *)
(* launched one detached thread per worker, each with its own epoll and    *)
(* its own eventfd.  Any other thread may call stop(), which writes to the *)
(* main eventfd.  When the main loop returns, start() sweeps the array of  *)
(* workers, writes to the eventfds of the running ones, sleeps, deletes    *)
(* the array and returns.                                                  *)
(*                                                                         *)
(* Descriptors are small numbers that the kernel reuses after close().     *)
(* The dispatch of client events by kind (process_fd) is in EventDispatch. *)
(***************************************************************************)
EXTENDS Integers, FiniteSets

CONSTANTS
    MaxWorkers,   \* the largest worker count given to start()
    Stoppers,     \* the threads that call stop(), each once
    Clients,      \* descriptors that the main callback hands to workers
    EventFds      \* the descriptor numbers eventfd() may return

ASSUME MaxWorkersAssumption == MaxWorkers \in Nat
ASSUME FdsAssumption == EventFds \subseteq Nat

Workers == 0 .. MaxWorkers - 1
NoFd == -1
Closed == -1        \* the counter of a descriptor that is not open

VARIABLES
    main,           \* where the thread inside start() is: "idle", "spawning", in
                    \* its "loop", "closing" and (kqueue) "closed", "sweep",
                    \* "sleep", "deleting", "returned"
    i, found,       \* the sweep's index and its local `found'
    m_workers, m_stop_fd,
    array,          \* m_worker: "none", "live" or "deleted"
    worker,         \* the elements of the array
    thread,         \* where each worker thread is: "none", "launched", "marked",
                    \* "epoll", (kqueue) "piped", "loop", "left", (kqueue)
                    \* "halfclosed", "closed", "done"
    stopfd,         \* _stopfd, each worker's local copy inside process_events
    counter,        \* the kernel's eventfd counters
    stopper,        \* where each caller of stop() is: "idle", "writing", "done"
    target,         \* the descriptor it is about to write to
    watched,        \* clients registered with each worker's epoll
    fault,          \* a thread touched the array after it was deleted
    signalled,      \* workers whose open eventfd the sweep wrote to
    merged,         \* a loop read a count other than 1 from its eventfd
    stray           \* a stop() wrote to a descriptor reused by a worker

vars == <<main, i, found, m_workers, m_stop_fd, array, worker, thread, stopfd,
          counter, stopper, target, watched, fault, signalled, merged, stray>>

(* struct worker's default member initialisers; epoll_fd is kept as "the   *)
(* epoll exists": nothing here depends on its number.                      *)
NewWorker == [stop_fd |-> NoFd, epoll_fd |-> FALSE, running |-> FALSE, stopping |-> FALSE]

(* After init(): the main epoll exists, start() has not been called. *)
Init ==
    /\ main = "idle"
    /\ i = 0 /\ found = FALSE
    /\ m_workers = 0 /\ m_stop_fd = NoFd
    /\ array = "none"
    /\ worker = [w \in Workers |-> NewWorker]
    /\ thread = [w \in Workers |-> "none"]
    /\ stopfd = [w \in Workers |-> NoFd]
    /\ counter = [f \in EventFds |-> Closed]
    /\ stopper = [s \in Stoppers |-> "idle"]
    /\ target = [s \in Stoppers |-> NoFd]
    /\ watched = [w \in Workers |-> {}]
    /\ fault = FALSE /\ merged = FALSE /\ stray = FALSE
    /\ signalled = {}

-----------------------------------------------------------------------------
(* The kernel: eventfd() returns the lowest number not in use, counter 0,  *)
(* write() adds 1 to an open one and fails on any other, read() returns    *)
(* the counter and clears it.                                              *)
Open(f) == f \in EventFds /\ counter[f] # Closed
FreeFds == {f \in EventFds : ~Open(f) /\ \A g \in EventFds : g < f => Open(g)}
Written(f) == IF Open(f) THEN [counter EXCEPT ![f] = @ + 1] ELSE counter
AfterClose(f) == IF Open(f) THEN [counter EXCEPT ![f] = Closed] ELSE counter

(* Mutant: the test is off by one. *)
EndsLoopAboveOne(f) == counter[f] > 1

(* The event of a stop descriptor ends the loop only when the count is 1.  *)
EndsLoop(f) == counter[f] = 1

-----------------------------------------------------------------------------
(* stop(): returns when m_stop_fd is -1; otherwise writes to the           *)
(* descriptor it read, which start() may have closed in between.           *)
StopCheck(s) ==
    /\ stopper[s] = "idle"
    /\ stopper' = [stopper EXCEPT ![s] = IF m_stop_fd = NoFd THEN "done" ELSE "writing"]
    /\ target' = [target EXCEPT ![s] = m_stop_fd]
    /\ UNCHANGED <<main, i, found, m_workers, m_stop_fd, array, worker, thread, stopfd,
                   counter, watched, fault, signalled, merged, stray>>

StopWrite(s) ==
    /\ stopper[s] = "writing"
    /\ stopper' = [stopper EXCEPT ![s] = "done"]
    /\ counter' = Written(target[s])
    /\ stray' = (stray \/ (Open(target[s]) /\ target[s] # m_stop_fd))
    /\ UNCHANGED <<main, i, found, m_workers, m_stop_fd, array, worker, thread, stopfd,
                   target, watched, fault, signalled, merged>>

-----------------------------------------------------------------------------
(* start(): the main eventfd, then start_workers() makes the array and     *)
(* launches a detached thread for each element.                            *)
Start ==
    /\ main = "idle"
    /\ main' = "spawning"
    /\ \E f \in FreeFds :
        /\ m_stop_fd' = f
        /\ counter' = [counter EXCEPT ![f] = 0]
    /\ UNCHANGED <<i, found, m_workers, array, worker, thread, stopfd, stopper, target,
                   watched, fault, signalled, merged, stray>>

StartWorkers(n) ==
    /\ main = "spawning"
    /\ main' = "loop"
    /\ m_workers' = n
    /\ array' = "live"
    /\ thread' = [w \in Workers |-> IF w < n THEN "launched" ELSE "none"]
    /\ UNCHANGED <<i, found, m_stop_fd, worker, stopfd, counter, stopper, target,
                   watched, fault, signalled, merged, stray>>

(* process_events() on the main epoll, its stop descriptor is readable.    *)
(* A count other than 1 is consumed and handed to the event callback.      *)
MainStopEvent ==
    /\ main = "loop"
    /\ counter[m_stop_fd] > 0
    /\ main' = IF EndsLoop(m_stop_fd) THEN "closing" ELSE "loop"
    /\ merged' = (merged \/ counter[m_stop_fd] # 1)
    /\ counter' = [counter EXCEPT ![m_stop_fd] = 0]
    /\ UNCHANGED <<i, found, m_workers, m_stop_fd, array, worker, thread, stopfd,
                   stopper, target, watched, fault, signalled, stray>>

(* Mutant: a client is taken as watched when there is no epoll yet. *)
AddFdUnchecked(c, w) ==
    /\ main = "loop"
    /\ w < m_workers
    /\ \A v \in Workers : c \notin watched[v]
    /\ watched' = [watched EXCEPT ![w] = @ \cup {c}]
    /\ UNCHANGED <<main, i, found, m_workers, m_stop_fd, array, worker, thread, stopfd,
                   counter, stopper, target, fault, signalled, merged, stray>>

(* add_fd(fd, worker), called by the main loop's callback: the worker's    *)
(* epoll must exist, otherwise epoll_ctl fails and add_fd throws.          *)
AddFd(c, w) ==
    /\ main = "loop"
    /\ w < m_workers
    /\ \A v \in Workers : c \notin watched[v]
    /\ watched' = IF worker[w].epoll_fd THEN [watched EXCEPT ![w] = @ \cup {c}] ELSE watched
    /\ UNCHANGED <<main, i, found, m_workers, m_stop_fd, array, worker, thread, stopfd,
                   counter, stopper, target, fault, signalled, merged, stray>>

(* The main loop has returned: close the eventfd; without workers start()  *)
(* is over.                                                                *)
MainClose ==
    /\ main = "closing"
    /\ counter' = AfterClose(m_stop_fd)
    /\ m_stop_fd' = NoFd
    /\ main' = IF m_workers = 0 THEN "returned" ELSE "sweep"
    /\ i' = 0 /\ found' = FALSE
    /\ UNCHANGED <<m_workers, array, worker, thread, stopfd, stopper, target,
                   watched, fault, signalled, merged, stray>>

(* One element of the `for' loop: a running worker that is not stopping    *)
(* gets `stopping' and a write to the stop_fd read from the array.         *)
Signals(w) == worker[w].running /\ ~worker[w].stopping

Sweep ==
    /\ main = "sweep" /\ i < m_workers
    /\ i' = i + 1
    /\ found' = (found \/ worker[i].running)
    /\ worker' = IF Signals(i) THEN [worker EXCEPT ![i].stopping = TRUE] ELSE worker
    /\ counter' = IF Signals(i) THEN Written(worker[i].stop_fd) ELSE counter
    /\ signalled' = IF Signals(i) /\ Open(worker[i].stop_fd)
                    THEN signalled \cup {i} ELSE signalled
    /\ UNCHANGED <<main, m_workers, m_stop_fd, array, thread, stopfd, stopper, target,
                   watched, fault, merged, stray>>

SweepEnd ==
    /\ main = "sweep" /\ i = m_workers
    /\ main' = "sleep"
    /\ UNCHANGED <<i, found, m_workers, m_stop_fd, array, worker, thread, stopfd, counter,
                   stopper, target, watched, fault, signalled, merged, stray>>

(* sleep_for(100ms), then the `while(!found)' test. *)
SleepEnd ==
    /\ main = "sleep"
    /\ main' = IF found THEN "deleting" ELSE "sweep"
    /\ i' = 0
    /\ UNCHANGED <<found, m_workers, m_stop_fd, array, worker, thread, stopfd, counter,
                   stopper, target, watched, fault, signalled, merged, stray>>

DeleteWorkers ==
    /\ main = "deleting"
    /\ m_workers' = 0
    /\ array' = "deleted"
    /\ main' = "returned"
    /\ UNCHANGED <<i, found, m_stop_fd, worker, thread, stopfd, counter, stopper, target,
                   watched, fault, signalled, merged, stray>>

-----------------------------------------------------------------------------
(* A worker thread (the lambda wrk).  Every step reads or writes its       *)
(* element of the array; the contents of deleted memory are whatever they  *)
(* were, and `fault' records the access.                                   *)
Touch == fault' = (fault \/ array = "deleted")

(* Mutant: `running' is never set. *)
MarkRunningNot(w) ==
    /\ thread[w] = "launched"
    /\ thread' = [thread EXCEPT ![w] = "marked"]
    /\ Touch
    /\ UNCHANGED <<main, i, found, m_workers, m_stop_fd, array, worker, stopfd, counter,
                   stopper, target, watched, signalled, merged, stray>>

MarkRunning(w) ==
    /\ thread[w] = "launched"
    /\ thread' = [thread EXCEPT ![w] = "marked"]
    /\ worker' = [worker EXCEPT ![w].running = TRUE]
    /\ Touch
    /\ UNCHANGED <<main, i, found, m_workers, m_stop_fd, array, stopfd, counter, stopper,
                   target, watched, signalled, merged, stray>>

CreateEpoll(w) ==
    /\ thread[w] = "marked"
    /\ thread' = [thread EXCEPT ![w] = "epoll"]
    /\ worker' = [worker EXCEPT ![w].epoll_fd = TRUE]
    /\ Touch
    /\ UNCHANGED <<main, i, found, m_workers, m_stop_fd, array, stopfd, counter, stopper,
                   target, watched, signalled, merged, stray>>

(* Mutant: eventfd(1, ...): the worker's eventfd starts readable. *)
CreateStopFdReadable(w) ==
    /\ thread[w] = "epoll"
    /\ thread' = [thread EXCEPT ![w] = "loop"]
    /\ \E f \in FreeFds :
        /\ worker' = [worker EXCEPT ![w].stop_fd = f]
        /\ stopfd' = [stopfd EXCEPT ![w] = f]
        /\ counter' = [counter EXCEPT ![f] = 1]
    /\ Touch
    /\ UNCHANGED <<main, i, found, m_workers, m_stop_fd, array, stopper, target, watched,
                   signalled, merged, stray>>

CreateStopFd(w) ==
    /\ thread[w] = "epoll"
    /\ thread' = [thread EXCEPT ![w] = "loop"]
    /\ \E f \in FreeFds :
        /\ worker' = [worker EXCEPT ![w].stop_fd = f]
        /\ stopfd' = [stopfd EXCEPT ![w] = f]
        /\ counter' = [counter EXCEPT ![f] = 0]
    /\ Touch
    /\ UNCHANGED <<main, i, found, m_workers, m_stop_fd, array, stopper, target, watched,
                   signalled, merged, stray>>

(* process_events() on the worker's epoll: as MainStopEvent. *)
WorkerStopEvent(w) ==
    /\ thread[w] = "loop"
    /\ counter[stopfd[w]] > 0
    /\ thread' = [thread EXCEPT ![w] = IF EndsLoop(stopfd[w]) THEN "left" ELSE "loop"]
    /\ merged' = (merged \/ counter[stopfd[w]] # 1)
    /\ counter' = [counter EXCEPT ![stopfd[w]] = 0]
    /\ UNCHANGED <<main, i, found, m_workers, m_stop_fd, array, worker, stopfd, stopper,
                   target, watched, fault, signalled, stray>>

(* close(epoll_fd), close(stop_fd): the epoll takes its registrations      *)
(* with it.  The array keeps the stale numbers.                            *)
CloseFds(w) ==
    /\ thread[w] = "left"
    /\ thread' = [thread EXCEPT ![w] = "closed"]
    /\ counter' = AfterClose(worker[w].stop_fd)
    /\ watched' = [watched EXCEPT ![w] = {}]
    /\ Touch
    /\ UNCHANGED <<main, i, found, m_workers, m_stop_fd, array, worker, stopfd, stopper,
                   target, signalled, merged, stray>>

MarkStopped(w) ==
    /\ thread[w] = "closed"
    /\ thread' = [thread EXCEPT ![w] = "done"]
    /\ worker' = [worker EXCEPT ![w].running = FALSE]
    /\ Touch
    /\ UNCHANGED <<main, i, found, m_workers, m_stop_fd, array, stopfd, counter, stopper,
                   target, watched, signalled, merged, stray>>

-----------------------------------------------------------------------------
MainStep == MainStopEvent \/ MainClose \/ Sweep \/ SweepEnd \/ SleepEnd \/ DeleteWorkers

WorkerStep(w) ==
    \/ MarkRunning(w) \/ CreateEpoll(w) \/ CreateStopFd(w)
    \/ WorkerStopEvent(w) \/ CloseFds(w) \/ MarkStopped(w)

Next ==
    \/ Start
    \/ \E n \in 0..MaxWorkers : StartWorkers(n)
    \/ MainStep
    \/ \E w \in Workers : WorkerStep(w)
    \/ \E s \in Stoppers : StopCheck(s) \/ StopWrite(s)
    \/ \E c \in Clients, w \in Workers : AddFd(c, w)

Spec == Init /\ [][Next]_vars

-----------------------------------------------------------------------------
Left(w) == thread[w] \in {"left", "halfclosed", "closed", "done"}

(* While the main loop runs, a client that add_fd() handed to a worker is  *)
(* watched by a worker whose loop runs or is about to: no worker has       *)
(* closed its epoll under it.                                              *)
ClientsAreServed ==
    main = "loop" =>
        \A w \in Workers : watched[w] # {} => thread[w] \in {"epoll", "piped", "loop"}

(* A worker leaves its loop only because the sweep of start() wrote to its *)
(* eventfd, unless a late stop() hit a descriptor number that was reused.  *)
LeavesOnlyWhenSignalled ==
    ~stray => \A w \in Workers : Left(w) => w \in signalled

(* No worker touches its element of the array after start() deleted it.    *)
WorkersStopBeforeDelete == ~fault

(* One stop() that reached the open main eventfd ends the main loop, unless *)
(* a second one merged with it before the loop read the counter.           *)
StopEndsMainLoop ==
    (main = "loop" /\ counter[m_stop_fd] > 0) ~> (main # "loop" \/ merged)

(* Once the main loop has ended, start() returns: some worker is found     *)
(* running, whatever the launch and shutdown interleaving.                 *)
StartReturns == (main = "closing") ~> (main = "returned" \/ stray)
=============================================================================
