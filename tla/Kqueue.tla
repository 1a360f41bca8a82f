------------------------------- MODULE Kqueue -------------------------------
(***************************************************************************)
(* ez::event_loop where the repository builds source/kqueue.cpp instead of *)
(* source/epoll.cpp: the same class, the same array of workers and the     *)
(* same sweep, but                                                         *)
(*   - a loop is stopped through a pipe, closed in two steps, and any      *)
(*     event on its read end ends the loop, whatever was written;          *)
(*   - a worker is marked running only when its pipe exists;               *)
(*   - no array is made for no workers.                                    *)
(*                                                                         *)
(* A pipe goes by the number of its write end, the only one that is ever   *)
(* used after a close().  Its entry in `counter' is the number of writes,  *)
(* which nobody reads, and `broken' holds the pipes whose read end is      *)
(* closed.  A write to one raises SIGPIPE, which nothing in the repository *)
(* blocks: `sigpipe' records it, and the steps that follow are those of an *)
(* application that ignores the signal.                                    *)
(*                                                                         *)
(* The variable os says which of the two files a behaviour is about.       *)
(***************************************************************************)
EXTENDS EventLoop

VARIABLES os, broken, sigpipe

kqVars == <<os, broken, sigpipe>>
allVars == <<vars, kqVars>>

PipeWritten(f) ==
    /\ counter' = Written(f)
    /\ sigpipe' = (sigpipe \/ f \in broken)

-----------------------------------------------------------------------------
(* stop(): the test of both ends, then the write. *)
KqStopCheck(s) ==
    /\ StopCheck(s)
    /\ UNCHANGED kqVars

KqStopWrite(s) ==
    /\ stopper[s] = "writing"
    /\ stopper' = [stopper EXCEPT ![s] = "done"]
    /\ PipeWritten(target[s])
    /\ stray' = (stray \/ (Open(target[s]) /\ (target[s] # m_stop_fd \/ main = "closed")))
    /\ UNCHANGED <<main, i, found, m_workers, m_stop_fd, array, worker, thread, stopfd,
                   target, watched, fault, signalled, merged, os, broken>>

-----------------------------------------------------------------------------
(* start(): the pipe, and start_workers(), which returns early when there  *)
(* are none.                                                               *)
KqStart ==
    /\ Start
    /\ UNCHANGED kqVars

KqStartWorkers(n) ==
    /\ main = "spawning"
    /\ main' = "loop"
    /\ m_workers' = n
    /\ array' = IF n = 0 THEN array ELSE "live"
    /\ thread' = [w \in Workers |-> IF w < n THEN "launched" ELSE "none"]
    /\ UNCHANGED <<i, found, m_stop_fd, worker, stopfd, counter, stopper, target,
                   watched, fault, signalled, merged, stray, kqVars>>

(* Mutant: the event that the pipe can be written counts too. *)
ReturnsOnAnyEvent(f) == Open(f)

(* process_events(): an event of the stop descriptor, no read(). *)
ReturnsOnEvent(f) == counter[f] > 0

KqMainStopEvent ==
    /\ main = "loop"
    /\ ReturnsOnEvent(m_stop_fd)
    /\ main' = "closing"
    /\ UNCHANGED <<i, found, m_workers, m_stop_fd, array, worker, thread, stopfd, counter,
                   stopper, target, watched, fault, signalled, merged, stray, kqVars>>

(* close(m_stop_fd[0]), close(m_stop_fd[1]), and both become -1: a stop()  *)
(* may come between any two of these.                                      *)
KqCloseReadEnd ==
    /\ main = "closing" /\ m_stop_fd \notin broken
    /\ broken' = broken \cup {m_stop_fd}
    /\ UNCHANGED <<vars, os, sigpipe>>

KqCloseWriteEnd ==
    /\ main = "closing" /\ m_stop_fd \in broken
    /\ main' = "closed"
    /\ counter' = AfterClose(m_stop_fd)
    /\ broken' = broken \ {m_stop_fd}
    /\ UNCHANGED <<i, found, m_workers, m_stop_fd, array, worker, thread, stopfd, stopper,
                   target, watched, fault, signalled, merged, stray, os, sigpipe>>

KqForget ==
    /\ main = "closed"
    /\ m_stop_fd' = NoFd
    /\ main' = IF m_workers = 0 THEN "returned" ELSE "sweep"
    /\ i' = 0 /\ found' = FALSE
    /\ UNCHANGED <<m_workers, array, worker, thread, stopfd, counter, stopper, target,
                   watched, fault, signalled, merged, stray, kqVars>>

(* add_fd(fd, worker), the sweep and the delete are those of epoll.cpp. *)
KqAddFd(c, w) ==
    /\ AddFd(c, w)
    /\ UNCHANGED kqVars

KqSweep ==
    /\ Sweep
    /\ sigpipe' = (sigpipe \/ (Signals(i) /\ worker[i].stop_fd \in broken))
    /\ UNCHANGED <<os, broken>>

KqAfterSweep ==
    /\ SweepEnd \/ SleepEnd \/ DeleteWorkers
    /\ UNCHANGED kqVars

-----------------------------------------------------------------------------
(* A worker thread. *)
KqWorkerMoves(w, from, to) ==
    /\ thread[w] = from
    /\ thread' = [thread EXCEPT ![w] = to]
    /\ UNCHANGED <<main, i, found, m_workers, m_stop_fd, array, stopper, target, signalled,
                   merged, stray, os, sigpipe>>

(* Mutant: marked running at once, as in epoll.cpp. *)
KqCreateKqueueRunning(w) ==
    /\ KqWorkerMoves(w, "launched", "epoll")
    /\ worker' = [worker EXCEPT ![w].epoll_fd = TRUE, ![w].running = TRUE]
    /\ Touch
    /\ UNCHANGED <<stopfd, counter, watched, broken>>

KqCreateKqueue(w) ==
    /\ KqWorkerMoves(w, "launched", "epoll")
    /\ worker' = [worker EXCEPT ![w].epoll_fd = TRUE]
    /\ Touch
    /\ UNCHANGED <<stopfd, counter, watched, broken>>

KqCreatePipe(w) ==
    /\ KqWorkerMoves(w, "epoll", "piped")
    /\ \E f \in FreeFds :
        /\ worker' = [worker EXCEPT ![w].stop_fd = f]
        /\ stopfd' = [stopfd EXCEPT ![w] = f]
        /\ counter' = [counter EXCEPT ![f] = 0]
    /\ Touch
    /\ UNCHANGED <<watched, broken>>

KqMarkRunning(w) ==
    /\ KqWorkerMoves(w, "piped", "loop")
    /\ worker' = [worker EXCEPT ![w].running = TRUE]
    /\ Touch
    /\ UNCHANGED <<stopfd, counter, watched, broken>>

KqWorkerStopEvent(w) ==
    /\ KqWorkerMoves(w, "loop", "left")
    /\ ReturnsOnEvent(stopfd[w])
    /\ UNCHANGED <<worker, stopfd, counter, watched, fault, broken>>

(* close(kqueue_fd), close(stop_fd[0]); then close(stop_fd[1]). *)
KqWorkerCloses(w) ==
    /\ KqWorkerMoves(w, "left", "halfclosed")
    /\ watched' = [watched EXCEPT ![w] = {}]
    /\ broken' = broken \cup {worker[w].stop_fd}
    /\ Touch
    /\ UNCHANGED <<worker, stopfd, counter>>

KqWorkerClosesPipe(w) ==
    /\ KqWorkerMoves(w, "halfclosed", "closed")
    /\ counter' = AfterClose(worker[w].stop_fd)
    /\ broken' = broken \ {worker[w].stop_fd}
    /\ Touch
    /\ UNCHANGED <<worker, stopfd, watched>>

KqMarkStopped(w) ==
    /\ MarkStopped(w)
    /\ UNCHANGED kqVars

-----------------------------------------------------------------------------
KqMainStep ==
    \/ KqMainStopEvent \/ KqCloseReadEnd \/ KqCloseWriteEnd \/ KqForget
    \/ KqSweep \/ KqAfterSweep

KqWorkerStep(w) ==
    \/ KqCreateKqueue(w) \/ KqCreatePipe(w) \/ KqMarkRunning(w) \/ KqWorkerStopEvent(w)
    \/ KqWorkerCloses(w) \/ KqWorkerClosesPipe(w) \/ KqMarkStopped(w)

KqNext ==
    \/ KqStart
    \/ \E n \in 0..MaxWorkers : KqStartWorkers(n)
    \/ KqMainStep
    \/ \E w \in Workers : KqWorkerStep(w)
    \/ \E s \in Stoppers : KqStopCheck(s) \/ KqStopWrite(s)
    \/ \E c \in Clients, w \in Workers : KqAddFd(c, w)

EpollNext == Next /\ UNCHANGED kqVars

(* Both files: each behaviour is one of epoll.cpp or one of kqueue.cpp.    *)
(* Threads are scheduled: the thread inside start(), once called, every    *)
(* launched worker and every stop() under way make progress.  Nothing      *)
(* makes anyone call start(), stop() or add_fd().                          *)
LoopInit == Init /\ os \in {"epoll", "kqueue"} /\ broken = {} /\ sigpipe = FALSE

LoopNext == (os = "epoll" /\ EpollNext) \/ (os = "kqueue" /\ KqNext)

OneOf(epoll, kqueue) == (os = "epoll" /\ epoll /\ UNCHANGED kqVars) \/ (os = "kqueue" /\ kqueue)

LoopFairness ==
    /\ WF_allVars(\E n \in 0..MaxWorkers : OneOf(StartWorkers(n), KqStartWorkers(n)))
    /\ WF_allVars(OneOf(MainStep, KqMainStep))
    /\ \A w \in Workers : WF_allVars(OneOf(WorkerStep(w), KqWorkerStep(w)))
    /\ \A s \in Stoppers : WF_allVars(OneOf(StopWrite(s), KqStopWrite(s)))

LoopSpec == LoopInit /\ [][LoopNext]_allVars /\ LoopFairness

-----------------------------------------------------------------------------
(* A worker whose stop descriptor the sweep wrote to leaves its loop and   *)
(* reaches its end.  With kqueue no worker is forgotten: `stopping' is set *)
(* once and for all, so every worker that has it must have been reached by *)
(* the write that goes with it.                                            *)
SignalledWorkersEnd ==
    \A w \in Workers :
        (w \in signalled \/ (os = "kqueue" /\ worker[w].stopping))
            ~> (thread[w] = "done" \/ stray)

(* A write meets a pipe without a reader only when two calls of stop()     *)
(* overlap the end of the loop: the one that ended it, and one that tested *)
(* the descriptors before start() set them to -1.  One call alone, and the *)
(* sweep, always find a reader.                                            *)
OneStopFindsReader ==
    sigpipe => \E s1, s2 \in Stoppers :
                    s1 # s2 /\ {target[s1], target[s2]} \subseteq EventFds
=============================================================================
