------------------------------ MODULE SpinLock ------------------------------
(* ez::spin_lock (include/ez/spin_lock.hpp): a lock on one atomic flag.    *)
EXTENDS Naturals, FiniteSets

CONSTANT Threads

VARIABLES locked, holder   \* the flag; each thread: "out", "spinning", "in"

lockVars == <<locked, holder>>

LockInit == locked = FALSE /\ holder = [t \in Threads |-> "out"]

(* test_and_set() returns the old value. *)
TestAndSet == locked' = TRUE

(* lock(): the call, and each round of its loop. *)
Lock(t) ==
    /\ holder[t] = "out"
    /\ holder' = [holder EXCEPT ![t] = "spinning"]
    /\ UNCHANGED locked

Spin(t) ==
    /\ holder[t] = "spinning"
    /\ TestAndSet
    /\ holder' = [holder EXCEPT ![t] = IF locked THEN "spinning" ELSE "in"]

(* Mutant: a try that fails takes its mark on the flag back. *)
TryLockClears(t) ==
    /\ holder[t] = "out"
    /\ locked' = ~locked
    /\ holder' = [holder EXCEPT ![t] = IF locked THEN "out" ELSE "in"]

TryLock(t) ==
    /\ holder[t] = "out"
    /\ TestAndSet
    /\ holder' = [holder EXCEPT ![t] = IF locked THEN "out" ELSE "in"]

Unlock(t) ==
    /\ holder[t] = "in"
    /\ locked' = FALSE
    /\ holder' = [holder EXCEPT ![t] = "out"]

LockNext == \E t \in Threads : Lock(t) \/ Spin(t) \/ TryLock(t) \/ Unlock(t)

(* The flag is set exactly while one thread is between lock() or a         *)
(* successful try_lock() and unlock(): two threads never are, and a failed *)
(* try_lock() neither releases the lock nor leaves it set for good.        *)
OneHolder == Cardinality({t \in Threads : holder[t] = "in"}) = IF locked THEN 1 ELSE 0
=============================================================================
