------------------------------- MODULE Daemon -------------------------------
(***************************************************************************)
(* source/daemon.cpp: switch_to_daemon() leaves the work to a child        *)
(* process, and self_restart_loop() keeps a child running: the parent      *)
(* waits for it and, by its status, returns, replaces itself or forks      *)
(* another one after five seconds.                                         *)
(*                                                                         *)
(* waitpid() may be interrupted by a signal.  Its result is not looked at, *)
(* so the status is then an uninitialised variable, that is anything.      *)
(***************************************************************************)
EXTENDS Naturals, FiniteSets

CONSTANT MaxChildren    \* bound: children forked by the loop

ASSUME MaxChildrenAssumption == MaxChildren \in Nat

VARIABLES
    parent,         \* where the process inside self_restart_loop() is
    forked,         \* the children forked so far; the last is `pid'
    child,          \* what each child does
    status,         \* what waitpid() has stored
    interrupted,    \* some waitpid() was interrupted
    foreground      \* the process that called switch_to_daemon()

daemonVars == <<parent, forked, child, status, interrupted, foreground>>

Children == 1..MaxChildren
Endings == {"exit0", "exit1", "exit2", "killed"}

DaemonInit ==
    /\ parent \in {"switching", "forking"}
    /\ forked = 0 /\ child = [c \in Children |-> "none"]
    /\ status = "exit0" /\ interrupted = FALSE /\ foreground = "running"

(* switch_to_daemon(): the caller returns true and the child goes on here, *)
(* with its standard descriptors closed, or fork() fails.                  *)
SwitchToDaemon ==
    /\ parent = "switching"
    /\ \/ parent' = "forking" /\ foreground' = "returned"
       \/ parent' = "threw" /\ UNCHANGED foreground
    /\ UNCHANGED <<forked, child, status, interrupted>>

(* fork(): a child that returns false to run the program, or an exception. *)
Fork ==
    /\ parent = "forking"
    /\ \/ /\ forked < MaxChildren
          /\ forked' = forked + 1
          /\ child' = [child EXCEPT ![forked + 1] = "running"]
          /\ parent' = "waiting"
       \/ parent' = "threw" /\ UNCHANGED <<forked, child>>
    /\ UNCHANGED <<status, interrupted, foreground>>

ChildEnds(c, how) ==
    /\ child[c] = "running"
    /\ child' = [child EXCEPT ![c] = how]
    /\ UNCHANGED <<parent, forked, status, interrupted, foreground>>

(* Mutant: waitpid() does not block. *)
WaitpidPolls ==
    /\ parent = "waiting"
    /\ parent' = "checking"
    /\ status' = IF child[forked] = "running" THEN "exit2" ELSE child[forked]
    /\ UNCHANGED <<forked, child, interrupted, foreground>>

Waitpid ==
    /\ parent = "waiting" /\ child[forked] # "running"
    /\ parent' = "checking"
    /\ status' = child[forked]
    /\ UNCHANGED <<forked, child, interrupted, foreground>>

WaitpidInterrupted ==
    /\ parent = "waiting"
    /\ parent' = "checking"
    /\ status' \in Endings
    /\ interrupted' = TRUE
    /\ UNCHANGED <<forked, child, foreground>>

(* Mutant: WIFEXITED() is not asked, a signal counts as exit status 0. *)
AfterStatusUnasked(s) ==
    CASE s \in {"exit0", "killed"} -> {"returned"}
      [] s = "exit1" -> {"replaced", "sleeping"}
      [] OTHER -> {"sleeping"}

(* Status 0: return true.  Status 1: execlp(), which replaces the process  *)
(* or fails.  Otherwise, and when it failed: sleep.                        *)
AfterStatus(s) ==
    CASE s = "exit0" -> {"returned"}
      [] s = "exit1" -> {"replaced", "sleeping"}
      [] OTHER -> {"sleeping"}

CheckStatus ==
    /\ parent = "checking"
    /\ parent' \in AfterStatus(status)
    /\ UNCHANGED <<forked, child, status, interrupted, foreground>>

SleepEnds ==
    /\ parent = "sleeping"
    /\ parent' = "forking"
    /\ UNCHANGED <<forked, child, status, interrupted, foreground>>

ParentStep ==
    SwitchToDaemon \/ Fork \/ Waitpid \/ WaitpidInterrupted \/ CheckStatus \/ SleepEnds

DaemonNext ==
    \/ ParentStep
    \/ \E c \in Children, how \in Endings : ChildEnds(c, how)

-----------------------------------------------------------------------------
(* As long as no waitpid() is interrupted one child runs at a time, and    *)
(* none is left running when the loop returns or the parent is replaced.   *)
OneChild ==
    ~interrupted =>
        /\ Cardinality({c \in Children : child[c] = "running"}) <= 1
        /\ parent \in {"returned", "replaced"} => \A c \in Children : child[c] # "running"

(* A child that crashes is replaced by another, unless fork() fails or an  *)
(* interrupted waitpid() made the parent believe something else.           *)
CrashedChildIsReplaced ==
    \A c \in Children :
        (child[c] \in {"exit2", "killed"})
            ~> (forked > c \/ parent = "threw" \/ interrupted)
=============================================================================
