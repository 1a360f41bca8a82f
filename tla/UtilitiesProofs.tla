-------------------------- MODULE UtilitiesProofs --------------------------
(***************************************************************************)
(* The spin lock for every set of threads, the restart loop for every      *)
(* number of children, and the text conversions for every source and every *)
(* text.                                                                   *)
(***************************************************************************)
EXTENDS Utilities, SequenceFacts, FiniteSetTheorems

(* The flag stands for the one thread that is inside. *)
LockInv ==
    /\ locked \in BOOLEAN
    /\ holder \in [Threads -> {"out", "spinning", "in"}]
    /\ locked <=> \E t \in Threads : holder[t] = "in"
    /\ \A t, u \in Threads : holder[t] = "in" /\ holder[u] = "in" => t = u

(* The children are forked in order; as long as no waitpid() has been      *)
(* interrupted only the last one may run, and only under a waiting parent. *)
DaemonType ==
    /\ parent \in {"switching", "forking", "waiting", "checking", "sleeping",
                   "returned", "replaced", "threw"}
    /\ forked \in 0..MaxChildren
    /\ child \in [Children -> {"none", "running"} \cup Endings]
    /\ interrupted \in BOOLEAN

OnlyTheLast ==
    ~interrupted => \A c \in Children : child[c] = "running" => c = forked /\ parent = "waiting"

DaemonInv == DaemonType /\ OnlyTheLast

-----------------------------------------------------------------------------
(* A set of which any two members are equal has at most one. *)
LEMMA AtMostOne ==
    ASSUME NEW S, \A x, y \in S : x = y
    PROVE  Cardinality(S) = IF S = {} THEN 0 ELSE 1
<1>1. CASE S = {}
  BY <1>1, FS_EmptySet
<1>2. CASE S # {}
  <2>1. PICK x \in S : TRUE
    BY <1>2
  <2>2. S = {x}
    BY <2>1
  <2>3. QED
    BY <1>2, <2>2, FS_Singleton
<1>3. QED
  BY <1>1, <1>2

-----------------------------------------------------------------------------
(* lock(), a round of its loop, try_lock() and unlock(): whoever finds the *)
(* flag clear is the only one inside, and unlock() is the holder's.        *)
LEMMA LockStep ==
    ASSUME LockInv, LockNext
    PROVE  LockInv'
<1>1. PICK t \in Threads : Lock(t) \/ Spin(t) \/ TryLock(t) \/ Unlock(t)
  BY DEF LockNext
<1>2. CASE Lock(t)
  BY <1>2 DEF Lock, LockInv
<1>3. CASE Spin(t)
  BY <1>3 DEF Spin, TestAndSet, LockInv
<1>4. CASE TryLock(t)
  BY <1>4 DEF TryLock, TestAndSet, LockInv
<1>5. CASE Unlock(t)
  BY <1>5 DEF Unlock, LockInv
<1>6. QED
  BY <1>1, <1>2, <1>3, <1>4, <1>5

(* The invariant counts the threads inside. *)
LEMMA LockInvCounts == LockInv => OneHolder
<1> SUFFICES ASSUME LockInv PROVE OneHolder
  OBVIOUS
<1> DEFINE Inside == {t \in Threads : holder[t] = "in"}
<1>1. \A t, u \in Inside : t = u
  BY DEF LockInv
<1>2. Cardinality(Inside) = IF Inside = {} THEN 0 ELSE 1
  BY <1>1, AtMostOne
<1>3. locked <=> Inside # {}
  BY DEF LockInv
<1>4. QED
  BY <1>2, <1>3 DEF OneHolder

(* spin_lock.hpp, for every set of threads, finite or not: the flag is set *)
(* exactly while one thread is between lock() or a successful try_lock()   *)
(* and unlock(), and two never are.                                        *)
THEOREM MutualExclusion == UtilitiesSpec => []OneHolder
<1>1. UtilitiesInit => LockInv
  BY DEF UtilitiesInit, LockInit, LockInv
<1>2. LockInv /\ [UtilitiesNext]_utilityVars => LockInv'
  <2> SUFFICES ASSUME LockInv, [UtilitiesNext]_utilityVars PROVE LockInv'
    OBVIOUS
  <2>1. LockNext \/ UNCHANGED lockVars
    BY DEF UtilitiesNext, utilityVars, Only
  <2>2. CASE LockNext
    BY <2>2, LockStep
  <2>3. CASE UNCHANGED lockVars
    BY <2>3 DEF LockInv, lockVars
  <2>4. QED
    BY <2>1, <2>2, <2>3
<1>3. QED
  BY <1>1, <1>2, LockInvCounts, PTL DEF UtilitiesSpec

-----------------------------------------------------------------------------
(* The steps of the process inside self_restart_loop() and of its          *)
(* children.  Only fork() makes one run, and the parent then waits; only a *)
(* waitpid() that saw the child end, or was interrupted, lets it go on.    *)
LEMMA DaemonStep ==
    ASSUME DaemonInv, DaemonNext
    PROVE  DaemonInv'
<1> USE DEF DaemonInv, DaemonType, OnlyTheLast
<1>1. CASE SwitchToDaemon
  BY <1>1 DEF SwitchToDaemon
<1>2. CASE Fork
  BY <1>2, MaxChildrenAssumption DEF Fork, Children
<1>3. CASE Waitpid
  BY <1>3 DEF Waitpid
<1>4. CASE WaitpidInterrupted
  BY <1>4 DEF WaitpidInterrupted
<1>5. CASE CheckStatus
  BY <1>5 DEF CheckStatus, AfterStatus
<1>6. CASE SleepEnds
  BY <1>6 DEF SleepEnds
<1>7. ASSUME NEW c \in Children, NEW how \in Endings, ChildEnds(c, how)
      PROVE  DaemonInv'
  BY <1>7 DEF ChildEnds, Endings
<1>8. QED
  BY <1>1, <1>2, <1>3, <1>4, <1>5, <1>6, <1>7 DEF DaemonNext, ParentStep

(* The invariant states the property of the run. *)
LEMMA DaemonInvIsOneChild == DaemonInv => OneChild
<1> SUFFICES ASSUME DaemonInv, ~interrupted
             PROVE  /\ Cardinality({c \in Children : child[c] = "running"}) <= 1
                    /\ parent \in {"returned", "replaced"}
                           => \A c \in Children : child[c] # "running"
  BY DEF OneChild
<1> DEFINE Running == {c \in Children : child[c] = "running"}
<1>1. \A c, d \in Running : c = d
  BY DEF DaemonInv, OnlyTheLast
<1>2. Cardinality(Running) = IF Running = {} THEN 0 ELSE 1
  BY <1>1, AtMostOne
<1>3. Cardinality(Running) <= 1
  BY <1>2
<1>4. QED
  BY <1>3 DEF DaemonInv, OnlyTheLast

(* daemon.cpp, for every number of children: as long as no waitpid() is    *)
(* interrupted, at most one child runs, and none is left running when the  *)
(* loop returns or the parent is replaced by execlp().                     *)
THEOREM RestartLoop == UtilitiesSpec => []OneChild
<1>1. UtilitiesInit => DaemonInv
  <2>1. DaemonInit => DaemonType
    <3> SUFFICES ASSUME DaemonInit PROVE DaemonType
      OBVIOUS
    <3>1. forked \in 0..MaxChildren
      BY MaxChildrenAssumption DEF DaemonInit
    <3>2. child \in [Children -> {"none", "running"} \cup Endings]
      BY DEF DaemonInit
    <3>3. QED
      BY <3>1, <3>2 DEF DaemonInit, DaemonType
  <2>2. DaemonInit => OnlyTheLast
    BY DEF DaemonInit, OnlyTheLast
  <2>3. QED
    BY <2>1, <2>2 DEF UtilitiesInit, DaemonInv
<1>2. DaemonInv /\ [UtilitiesNext]_utilityVars => DaemonInv'
  <2> SUFFICES ASSUME DaemonInv, [UtilitiesNext]_utilityVars PROVE DaemonInv'
    OBVIOUS
  <2>1. DaemonNext \/ UNCHANGED daemonVars
    BY DEF UtilitiesNext, utilityVars, Only
  <2>2. CASE DaemonNext
    BY <2>2, DaemonStep
  <2>3. CASE UNCHANGED daemonVars
    BY <2>3 DEF DaemonInv, DaemonType, OnlyTheLast, daemonVars
  <2>4. QED
    BY <2>1, <2>2, <2>3
<1>3. QED
  BY <1>1, <1>2, DaemonInvIsOneChild, PTL DEF UtilitiesSpec

-----------------------------------------------------------------------------
(* The sequences of a sequence one behind the other, from the first on. *)
AllSeqs(ss) == IsSeq(ss) /\ \A i \in 1..Len(ss) : IsSeq(ss[i])
Flat(f, ss) == f = [i \in 0..Len(ss) |-> IF i = 0 THEN <<>> ELSE f[i - 1] \o ss[i]]

(* FlattenSeq() is the last of them. *)
LEMMA FlatExists ==
    ASSUME NEW ss, AllSeqs(ss)
    PROVE  \E f : Flat(f, ss) /\ FlattenSeq(ss) = f[Len(ss)]
<1> DEFINE N == Len(ss)
           Upto(g, m) == g = [i \in 1..m |-> IF i = 1 THEN ss[i] ELSE g[i - 1] \o ss[i]]
           S == {m \in Nat : \E g : Upto(g, m)}
<1>1. N \in Nat
  BY SeqIsFunction DEF AllSeqs
<1>2. 0 \in S
  <2> DEFINE g == [i \in 1..0 |-> 0]
  <2>1. Upto(g, 0)
    OBVIOUS
  <2>2. QED
    BY <2>1
<1>3. ASSUME NEW m \in Nat, m \in S PROVE m + 1 \in S
  <2>1. PICK g : Upto(g, m)
    BY <1>3
  <2> DEFINE h == [i \in 1..(m + 1) |-> IF i <= m THEN g[i] ELSE IF m = 0 THEN ss[1] ELSE g[m] \o ss[m + 1]]
  <2>2. \A i \in 1..m : g[i] = IF i = 1 THEN ss[i] ELSE g[i - 1] \o ss[i]
    BY <2>1
  <2>3. ASSUME NEW i \in 1..(m + 1) PROVE h[i] = IF i = 1 THEN ss[i] ELSE h[i - 1] \o ss[i]
    <3>1. CASE i <= m
      <4>1. i \in 1..m /\ (i # 1 => i - 1 \in 1..(m + 1) /\ i - 1 <= m)
        BY <3>1
      <4>2. h[i] = g[i] /\ (i # 1 => h[i - 1] = g[i - 1])
        BY <3>1, <4>1
      <4> HIDE DEF h
      <4>3. QED
        BY <2>2, <4>1, <4>2
    <3>2. CASE ~(i <= m)
      <4>1. i = m + 1 /\ (i = 1 <=> m = 0) /\ i - 1 = m
        BY <3>2
      <4>2. h[i] = IF m = 0 THEN ss[1] ELSE g[m] \o ss[m + 1]
        BY <3>2, <4>1
      <4>3. m # 0 => h[m] = g[m]
        OBVIOUS
      <4> HIDE DEF h
      <4>4. QED
        BY <4>1, <4>2, <4>3
    <3>3. QED
      BY <3>1, <3>2
  <2>4. Upto(h, m + 1)
    <3>1. h = [i \in 1..(m + 1) |-> h[i]]
      OBVIOUS
    <3> HIDE DEF h
    <3>2. QED
      BY <2>3, <3>1
  <2> HIDE DEF h, Upto
  <2>5. m + 1 \in Nat /\ \E x : Upto(x, m + 1)
    BY <2>4
  <2>6. QED
    BY <2>5
<1>4. N \in S
  <2> HIDE DEF S
  <2>1. QED
    BY <1>1, <1>2, <1>3, NatSets
<1> DEFINE g == CHOOSE x : Upto(x, N)
           f == [i \in 0..N |-> IF i = 0 THEN <<>> ELSE g[i]]
<1>5. Upto(g, N)
  BY <1>4
<1>6. FlattenSeq(ss) = IF N = 0 THEN ss ELSE g[N]
  BY DEF FlattenSeq
<1>7. \A i \in 1..N : g[i] = IF i = 1 THEN ss[i] ELSE g[i - 1] \o ss[i]
  BY <1>5
<1> HIDE DEF g, Upto, S
<1>8. ASSUME NEW i \in 0..N PROVE f[i] = IF i = 0 THEN <<>> ELSE f[i - 1] \o ss[i]
  <2>1. CASE i = 0
    BY <2>1
  <2>2. CASE i = 1
    <3>1. i \in 1..N /\ i - 1 = 0 /\ 0 \in 0..N
      BY <1>1, <2>2
    <3>2. f[i] = ss[i] /\ f[i - 1] = <<>>
      BY <1>7, <2>2, <3>1
    <3>3. <<>> \o ss[i] = ss[i]
      <4>1. IsSeq(ss[i])
        BY <3>1 DEF AllSeqs
      <4>2. QED
        BY <4>1, NothingBefore
    <3> HIDE DEF f
    <3>4. QED
      BY <2>2, <3>2, <3>3
  <2>3. CASE i > 1
    <3>1. i \in 1..N /\ i - 1 \in 0..N /\ i - 1 # 0 /\ i # 0 /\ i # 1
      BY <1>1, <2>3
    <3>2. f[i] = g[i] /\ f[i - 1] = g[i - 1]
      BY <3>1
    <3> HIDE DEF f
    <3>3. QED
      BY <1>7, <3>1, <3>2
  <2>4. QED
    BY <1>1, <2>1, <2>2, <2>3
<1>9. Flat(f, ss)
  <2>1. f = [i \in 0..N |-> f[i]]
    OBVIOUS
  <2> HIDE DEF f
  <2>2. QED
    BY <1>8, <2>1 DEF Flat
<1>10. FlattenSeq(ss) = f[N]
  <2>1. CASE N = 0
    <3>1. ss = <<>>
      BY <2>1, NoElements DEF AllSeqs
    <3>2. QED
      BY <1>6, <2>1, <3>1
  <2>2. CASE N # 0
    BY <1>1, <1>6, <2>2
  <2>3. QED
    BY <2>1, <2>2
<1> HIDE DEF f
<1>11. QED
  BY <1>9, <1>10

GrowsBy(old, new, s) ==
    /\ Len(new) = Len(old) + Len(s)
    /\ \A j \in 1..Len(old) : new[j] = old[j]
    /\ \A j \in 1..Len(s) : new[Len(old) + j] = s[j]

(* They grow, and keep what they have. *)
LEMMA FlatGrows ==
    ASSUME NEW ss, AllSeqs(ss), NEW f, Flat(f, ss)
    PROVE  /\ f[0] = <<>>
           /\ \A n \in 0..Len(ss) : IsSeq(f[n]) /\ Len(f[n]) \in Nat
           /\ \A n \in 1..Len(ss) : GrowsBy(f[n - 1], f[n], ss[n])
<1> DEFINE N == Len(ss)
           S == {n \in Nat : n <= N => IsSeq(f[n])}
<1>1. N \in Nat
  BY SeqIsFunction DEF AllSeqs
<1>2. f[0] = <<>> /\ \A n \in 1..N : f[n] = f[n - 1] \o ss[n]
  BY <1>1 DEF Flat
<1>3. 0 \in S
  BY <1>2, NoElements
<1>4. ASSUME NEW n \in Nat, n \in S PROVE n + 1 \in S
  <2>1. SUFFICES ASSUME n + 1 <= N PROVE IsSeq(f[n + 1])
    OBVIOUS
  <2>2. IsSeq(f[n]) /\ n + 1 \in 1..N /\ (n + 1) - 1 = n
    BY <1>1, <1>4, <2>1
  <2>3. f[n + 1] = f[n] \o ss[n + 1] /\ IsSeq(ss[n + 1])
    BY <1>2, <2>2 DEF AllSeqs
  <2>4. QED
    BY <2>2, <2>3, JoinedSeqs
<1>5. ASSUME NEW n \in 0..N PROVE IsSeq(f[n]) /\ Len(f[n]) \in Nat
  <2>1. n \in Nat /\ n <= N
    BY <1>1
  <2>2. n \in S
    <3> HIDE DEF S
    <3>1. QED
      BY <1>3, <1>4, <2>1, NatSets
  <2>3. IsSeq(f[n])
    BY <2>1, <2>2
  <2>4. QED
    BY <2>3, SeqIsFunction
<1>6. ASSUME NEW n \in 1..N PROVE GrowsBy(f[n - 1], f[n], ss[n])
  <2>1. n - 1 \in 0..N
    BY <1>1
  <2>2. IsSeq(f[n - 1]) /\ IsSeq(ss[n]) /\ f[n] = f[n - 1] \o ss[n]
    BY <1>2, <1>5, <2>1 DEF AllSeqs
  <2> DEFINE a == f[n - 1]
             b == ss[n]
  <2>3. IsSeq(a) /\ IsSeq(b) /\ f[n] = a \o b
    BY <2>2
  <2> HIDE DEF a, b
  <2>4. GrowsBy(a, a \o b, b)
    BY <2>3, JoinedSeqs DEF GrowsBy
  <2>5. QED
    BY <2>3, <2>4 DEF a, b
<1>7. QED
  BY <1>2, <1>5, <1>6

(* Sequences of three elements at most. *)
LEMMA FlatBound ==
    ASSUME NEW ss, AllSeqs(ss), NEW f, Flat(f, ss), \A i \in 1..Len(ss) : Len(ss[i]) <= 3
    PROVE  IsSeq(f[Len(ss)]) /\ Len(f[Len(ss)]) <= 3 * Len(ss)
<1> DEFINE N == Len(ss)
           S == {m \in Nat : m <= N => Len(f[m]) <= 3 * m}
<1>1. N \in Nat
  BY SeqIsFunction DEF AllSeqs
<1>2. /\ f[0] = <<>>
      /\ \A m \in 0..N : IsSeq(f[m]) /\ Len(f[m]) \in Nat
      /\ \A m \in 1..N : GrowsBy(f[m - 1], f[m], ss[m])
  BY FlatGrows
<1>3. \A i \in 1..N : Len(ss[i]) \in Nat /\ Len(ss[i]) <= 3
  BY SeqIsFunction DEF AllSeqs
<1> HIDE DEF N
<1>4. 0 \in S
  BY <1>2, NoElements
<1>5. ASSUME NEW m \in Nat, m \in S PROVE m + 1 \in S
  <2>1. SUFFICES ASSUME m + 1 <= N PROVE Len(f[m + 1]) <= 3 * (m + 1)
    OBVIOUS
  <2>2. m + 1 \in 1..N /\ (m + 1) - 1 = m /\ m <= N /\ m \in 0..N
    BY <1>1, <2>1
  <2>3. GrowsBy(f[m], f[m + 1], ss[m + 1])
    BY <1>2, <2>2
  <2> DEFINE l == Len(f[m])
             e == Len(ss[m + 1])
             z == Len(f[m + 1])
  <2>4. z = l + e
    BY <2>3 DEF GrowsBy
  <2>5. l <= 3 * m /\ l \in Nat /\ e \in Nat /\ e <= 3
    BY <1>2, <1>3, <1>5, <2>2
  <2> HIDE DEF l, e, z
  <2>6. z <= 3 * (m + 1)
    BY <2>4, <2>5
  <2>7. QED
    BY <2>6 DEF z
<1>6. N \in S
  <2> HIDE DEF S
  <2>1. QED
    BY <1>1, <1>4, <1>5, NatSets
<1>7. N \in 0..N
  BY <1>1
<1>8. IsSeq(f[N]) /\ Len(f[N]) <= 3 * N
  BY <1>2, <1>6, <1>7
<1>9. QED
  BY <1>8 DEF N

StandsAt(s, l, t) == l + Len(s) <= Len(t) /\ \A j \in 1..Len(s) : t[l + j] = s[j]

(* Where each of them stands in the whole. *)
LEMMA FlatPlace ==
    ASSUME NEW ss, AllSeqs(ss), NEW f, Flat(f, ss), NEW n \in 1..Len(ss)
    PROVE  StandsAt(ss[n], Len(f[n - 1]), f[Len(ss)])
<1> DEFINE N == Len(ss)
           P(m) == Len(f[n]) <= Len(f[m]) /\ \A j \in 1..Len(f[n]) : f[m][j] = f[n][j]
           S == {m \in Nat : n + m <= N => P(n + m)}
<1>1. N \in Nat /\ n \in 1..N /\ IsSeq(ss[n])
  BY SeqIsFunction DEF AllSeqs
<1>2. /\ \A m \in 0..N : IsSeq(f[m]) /\ Len(f[m]) \in Nat
      /\ \A m \in 1..N : GrowsBy(f[m - 1], f[m], ss[m])
  BY FlatGrows
<1>3. ASSUME NEW m \in 1..N PROVE Len(ss[m]) \in Nat
  BY SeqIsFunction DEF AllSeqs
<1> HIDE DEF N
<1>4. n \in 0..N /\ n - 1 \in 0..N /\ n + 0 = n /\ n \in Nat
  BY <1>1
<1>5. 0 \in S
  BY <1>2, <1>4
<1>6. ASSUME NEW m \in Nat, m \in S PROVE m + 1 \in S
  <2> DEFINE q == n + m
  <2>1. n + (m + 1) = q + 1 /\ q \in Nat
    BY <1>4
  <2>2. SUFFICES ASSUME q + 1 <= N PROVE P(q + 1)
    BY <2>1
  <2>3. q + 1 \in 1..N /\ (q + 1) - 1 = q /\ q <= N /\ q \in 0..N
    BY <1>1, <2>1, <2>2
  <2>4. P(q)
    BY <1>6, <2>3
  <2> HIDE DEF q
  <2>5. GrowsBy(f[q], f[q + 1], ss[q + 1]) /\ Len(ss[q + 1]) \in Nat
    BY <1>2, <1>3, <2>3
  <2>6. Len(f[q + 1]) = Len(f[q]) + Len(ss[q + 1]) /\ \A j \in 1..Len(f[q]) : f[q + 1][j] = f[q][j]
    BY <2>5 DEF GrowsBy
  <2>7. Len(f[n]) \in Nat /\ Len(f[q]) \in Nat
    BY <1>2, <1>4, <2>3
  <2>8. Len(f[n]) <= Len(f[q + 1])
    <3> DEFINE a == Len(f[n])
               b == Len(f[q])
               c == Len(ss[q + 1])
               e == Len(f[q + 1])
    <3>1. a \in Nat /\ b \in Nat /\ c \in Nat /\ a <= b /\ e = b + c
      BY <2>4, <2>5, <2>6, <2>7
    <3> HIDE DEF a, b, c, e
    <3>2. a <= e
      BY <3>1
    <3>3. QED
      BY <3>2 DEF a, e
  <2>9. ASSUME NEW j \in 1..Len(f[n]) PROVE f[q + 1][j] = f[n][j]
    <3>1. j \in 1..Len(f[q])
      BY <2>4, <2>7
    <3>2. QED
      BY <2>4, <2>6, <3>1
  <2>10. QED
    BY <2>8, <2>9
<1>7. P(N)
  <2> DEFINE m == N - n
  <2>1. m \in Nat /\ n + m = N
    BY <1>1
  <2>2. m \in S
    <3> HIDE DEF S, m
    <3>1. QED
      BY <1>5, <1>6, <2>1, NatSets
  <2>3. n + m <= N
    BY <1>1, <2>1
  <2>4. P(n + m)
    BY <2>2, <2>3
  <2> HIDE DEF P, m
  <2>5. QED
    BY <2>1, <2>4
<1>8. /\ Len(f[n]) = Len(f[n - 1]) + Len(ss[n])
      /\ \A j \in 1..Len(ss[n]) : f[n][Len(f[n - 1]) + j] = ss[n][j]
  <2>1. GrowsBy(f[n - 1], f[n], ss[n])
    BY <1>1, <1>2
  <2>2. QED
    BY <2>1 DEF GrowsBy
<1>9. Len(f[n - 1]) + Len(ss[n]) <= Len(f[N])
  BY <1>7, <1>8
<1>10. ASSUME NEW j \in 1..Len(ss[n]) PROVE f[N][Len(f[n - 1]) + j] = ss[n][j]
  <2> DEFINE l == Len(f[n - 1])
             e == Len(ss[n])
             z == Len(f[n])
  <2>1. l \in Nat /\ e \in Nat /\ z = l + e /\ j \in 1..e
    BY <1>1, <1>2, <1>3, <1>4, <1>8
  <2> HIDE DEF l, e, z
  <2>2. l + j \in 1..z
    BY <2>1
  <2>3. f[N][l + j] = f[n][l + j]
    BY <1>7, <2>2 DEF z
  <2>4. QED
    BY <1>8, <2>3 DEF l, e
<1>11. QED
  BY <1>9, <1>10 DEF N, StandsAt

-----------------------------------------------------------------------------
(* base64: the sextets of three bytes, and what decode() puts together     *)
(* again.                                                                  *)
SextetsIn(a, b, c) ==
    /\ a \div 4 \in 0..63 /\ (a % 4) * 16 + b \div 16 \in 0..63
    /\ (b % 16) * 4 + c \div 64 \in 0..63 /\ c % 64 \in 0..63
BytesAgain(a, b, c) ==
    LET s0 == a \div 4
        s1 == (a % 4) * 16 + b \div 16
        s2 == (b % 16) * 4 + c \div 64
        s3 == c % 64
    IN /\ (s0 % 64) * 4 + (s1 % 64) \div 16 = a
       /\ (s1 % 16) * 16 + (s2 % 64) \div 4 = b
       /\ (s2 % 4) * 64 + (s3 % 64) = c

(* The sextets of three bytes are below 64. *)
LEMMA SextetsOfBytes ==
    ASSUME NEW a \in 0..255, NEW b \in 0..255, NEW c \in 0..255
    PROVE  SextetsIn(a, b, c)
<1>1. a \div 4 \in 0..63 /\ a % 4 \in 0..3 /\ b \div 16 \in 0..15 /\ b % 16 \in 0..15
      /\ c \div 64 \in 0..3 /\ c % 64 \in 0..63
  OBVIOUS
<1>2. QED
  BY <1>1 DEF SextetsIn

(* Four sextets give the bytes again. *)
LEMMA BytesOfSextets ==
    ASSUME NEW a \in 0..255, NEW b \in 0..255, NEW c \in 0..255
    PROVE  BytesAgain(a, b, c)
<1> DEFINE a4 == a \div 4
           a0 == a % 4
           b16 == b \div 16
           b0 == b % 16
           c64 == c \div 64
           c0 == c % 64
<1>1. /\ a4 \in 0..63 /\ a0 \in 0..3 /\ a = 4 * a4 + a0
      /\ b16 \in 0..15 /\ b0 \in 0..15 /\ b = 16 * b16 + b0
      /\ c64 \in 0..3 /\ c0 \in 0..63 /\ c = 64 * c64 + c0
  OBVIOUS
<1> HIDE DEF a4, a0, b16, b0, c64, c0
<1>2. a4 % 64 = a4 /\ c0 % 64 = c0
  BY <1>1
<1>3. /\ (a0 * 16 + b16) % 64 = a0 * 16 + b16 /\ (a0 * 16 + b16) \div 16 = a0
      /\ (a0 * 16 + b16) % 16 = b16
  BY <1>1
<1>4. /\ (b0 * 4 + c64) % 64 = b0 * 4 + c64 /\ (b0 * 4 + c64) \div 4 = b0
      /\ (b0 * 4 + c64) % 4 = c64
  BY <1>1
<1>5. QED
  BY <1>1, <1>2, <1>3, <1>4 DEF a4, a0, b16, b0, c64, c0, BytesAgain

(* The table is the inverse of the alphabet. *)
LEMMA TableInverse ==
    ASSUME NEW v \in 0..63, NEW wild
    PROVE  Lookup(ToBase64(v), wild) = v /\ ToBase64(v) \in 0..127
<1>1. CASE v < 26
  <2>1. ToBase64(v) = 65 + v
    BY <1>1 DEF ToBase64
  <2>2. FromBase64(65 + v) = (65 + v) - 65
    BY <1>1 DEF FromBase64
  <2>3. QED
    BY <1>1, <2>1, <2>2 DEF Lookup
<1>2. CASE v \in 26..51
  <2>1. ToBase64(v) = 97 + v - 26
    BY <1>2 DEF ToBase64
  <2>2. FromBase64(97 + v - 26) = (97 + v - 26) - 97 + 26
    BY <1>2 DEF FromBase64
  <2>3. QED
    BY <1>2, <2>1, <2>2 DEF Lookup
<1>3. CASE v \in 52..61
  <2>1. ToBase64(v) = 48 + v - 52
    BY <1>3 DEF ToBase64
  <2>2. FromBase64(48 + v - 52) = (48 + v - 52) - 48 + 52
    BY <1>3 DEF FromBase64
  <2>3. QED
    BY <1>3, <2>1, <2>2 DEF Lookup
<1>4. CASE v = 62
  BY <1>4 DEF ToBase64, FromBase64, Lookup
<1>5. CASE v = 63
  BY <1>5 DEF ToBase64, FromBase64, Lookup
<1>6. QED
  BY <1>1, <1>2, <1>3, <1>4, <1>5

(* The groups of three bytes and the bytes the last one is short of. *)
Groups(n) == RoundUp(n, 3) \div 3
LEMMA GroupsOf ==
    ASSUME NEW n \in Nat
    PROVE  /\ Groups(n) \in Nat /\ RoundUp(n, 3) = 3 * Groups(n)
           /\ n <= 3 * Groups(n) /\ 3 * Groups(n) <= n + 2 /\ Missing(n) = 3 * Groups(n) - n
<1> DEFINE g == (n + 2) \div 3
<1>1. g \in Nat /\ n <= 3 * g /\ 3 * g <= n + 2 /\ n + 3 - 1 = n + 2
  OBVIOUS
<1>2. RoundUp(n, 3) = 3 * g
  BY <1>1 DEF RoundUp
<1> HIDE DEF g
<1>3. (3 * g) \div 3 = g
  BY <1>1
<1>4. QED
  BY <1>1, <1>2, <1>3 DEF Groups, Missing

(* And the groups of four chars. *)
LEMMA FoursOf ==
    ASSUME NEW n \in Nat
    PROVE  /\ RoundUp(n, 4) \div 4 \in Nat /\ (3 * RoundUp(n, 4)) \div 4 = 3 * (RoundUp(n, 4) \div 4)
           /\ \A g \in Nat : n = 4 * g => RoundUp(n, 4) \div 4 = g
<1> DEFINE k == (n + 3) \div 4
<1>1. k \in Nat /\ n + 4 - 1 = n + 3 /\ \A g \in Nat : n = 4 * g => k = g
  OBVIOUS
<1>2. RoundUp(n, 4) = 4 * k
  BY <1>1 DEF RoundUp
<1> HIDE DEF k
<1>3. (4 * k) \div 4 = k /\ (3 * (4 * k)) \div 4 = 3 * k
  BY <1>1
<1>4. QED
  BY <1>1, <1>2, <1>3

(* The bytes of a source, 0 behind its end. *)
ByteSeq(s) == IsSeq(s) /\ \A k \in 1..Len(s) : s[k] \in 0..255
ByteAt(src, k) == IF k < Len(src) THEN src[k + 1] ELSE 0
Sextet64(a, b, c, j) ==
    CASE j = 0 -> a \div 4
      [] j = 1 -> (a % 4) * 16 + b \div 16
      [] j = 2 -> (b % 16) * 4 + c \div 64
      [] j = 3 -> c % 64

CharOf(t, src, G, i, j) ==
    /\ 4 * i + j < Len(t)
    /\ t[4 * i + j + 1] = IF 4 * i + j + 1 > 4 * G - Missing(Len(src)) THEN 61
                          ELSE ToBase64(Sextet64(ByteAt(src, 3 * i), ByteAt(src, 3 * i + 1),
                                                 ByteAt(src, 3 * i + 2), j))

(* The chars that encode() makes of a group. *)
LEMMA EncodedChars ==
    ASSUME NEW src, IsSeq(src), NEW i \in Nat, i < Groups(Len(src)), NEW j \in 0..3
    PROVE  CharOf(Base64Encode(src), src, Groups(Len(src)), i, j)
<1> DEFINE t == Base64Encode(src)
           G == Groups(Len(src))
           M == Missing(Len(src))
           Sx(p, q) == Sextet64(ByteAt(src, 3 * p), ByteAt(src, 3 * p + 1), ByteAt(src, 3 * p + 2), q)
<1>1. Len(src) \in Nat /\ G \in Nat
  BY SeqIsFunction, GroupsOf
<1>2. t = [k \in 1..(4 * G) |-> IF k > 4 * G - M THEN 61 ELSE ToBase64(Sx((k - 1) \div 4, (k - 1) % 4))]
  BY DEF Base64Encode, Groups, Sextet64, ByteAt
<1> HIDE DEF t, G, M, Sx
<1>3. 4 * G \in Nat /\ t = [k \in 1..(4 * G) |-> t[k]]
  BY <1>1, <1>2
<1>4. IsSeq(t) /\ Len(t) = 4 * G
  BY <1>3, FunctionIsSeq
<1>5. i < G
  BY DEF G
<1>6. 4 * i + j < 4 * G /\ 4 * i + j + 1 \in 1..(4 * G)
  BY <1>1, <1>5
<1>7. (4 * i + j + 1) - 1 = 4 * i + j /\ (4 * i + j) \div 4 = i /\ (4 * i + j) % 4 = j
  OBVIOUS
<1>8. t[4 * i + j + 1] = IF 4 * i + j + 1 > 4 * G - M THEN 61 ELSE ToBase64(Sx(i, j))
  BY <1>2, <1>6, <1>7
<1>9. QED
  BY <1>4, <1>6, <1>8 DEF t, G, M, Sx, CharOf

(* A sextet is below 64. *)
LEMMA SextetsRange ==
    ASSUME NEW a \in 0..255, NEW b \in 0..255, NEW c \in 0..255, NEW j \in 0..3
    PROVE  Sextet64(a, b, c, j) \in 0..63
<1>1. j = 0 \/ j = 1 \/ j = 2 \/ j = 3
  OBVIOUS
<1>2. /\ a \div 4 \in 0..63 /\ (a % 4) * 16 + b \div 16 \in 0..63
      /\ (b % 16) * 4 + c \div 64 \in 0..63 /\ c % 64 \in 0..63
  <2>1. SextetsIn(a, b, c)
    BY SextetsOfBytes
  <2>2. QED
    BY <2>1 DEF SextetsIn
<1>3. CASE j = 0
  BY <1>2, <1>3 DEF Sextet64
<1>4. CASE j = 1
  BY <1>2, <1>4 DEF Sextet64
<1>5. CASE j = 2
  BY <1>2, <1>5 DEF Sextet64
<1>6. CASE j = 3
  BY <1>2, <1>6 DEF Sextet64
<1>7. QED
  BY <1>1, <1>3, <1>4, <1>5, <1>6

(* What decode() looks up for the chars of a group. *)
LEMMA GroupChars ==
    ASSUME NEW src, ByteSeq(src), NEW i \in Nat, i < Groups(Len(src)), NEW wild
    PROVE  LET t == Base64Encode(src)
               a == ByteAt(src, 3 * i)
               b == ByteAt(src, 3 * i + 1)
               c == ByteAt(src, 3 * i + 2)
           IN /\ a \in 0..255 /\ b \in 0..255 /\ c \in 0..255 /\ 3 * i < Len(src)
              /\ CharAt(t, 4 * i, wild) = a \div 4
              /\ CharAt(t, 4 * i + 1, wild) = (a % 4) * 16 + b \div 16
              /\ CharAt(t, 4 * i + 2, wild) = IF 3 * i + 1 < Len(src) THEN (b % 16) * 4 + c \div 64 ELSE 255
              /\ CharAt(t, 4 * i + 3, wild) = IF 3 * i + 2 < Len(src) THEN c % 64 ELSE 255
<1> DEFINE t == Base64Encode(src)
           n == Len(src)
           G == Groups(n)
           a == ByteAt(src, 3 * i)
           b == ByteAt(src, 3 * i + 1)
           c == ByteAt(src, 3 * i + 2)
<1>1. /\ n \in Nat /\ G \in Nat /\ n <= 3 * G /\ 3 * G <= n + 2 /\ Missing(n) = 3 * G - n /\ i < G
  BY SeqIsFunction, GroupsOf DEF ByteSeq
<1>2. a \in 0..255 /\ b \in 0..255 /\ c \in 0..255
  <2>1. ASSUME NEW k \in Nat PROVE ByteAt(src, k) \in 0..255
    <3>1. k < n => k + 1 \in 1..n
      BY <1>1
    <3>2. QED
      BY <3>1 DEF ByteAt, ByteSeq
  <2>2. 3 * i \in Nat /\ 3 * i + 1 \in Nat /\ 3 * i + 2 \in Nat
    OBVIOUS
  <2>3. QED
    BY <2>1, <2>2
<1>3. ASSUME NEW j \in 0..3
      PROVE  /\ 4 * i + j < Len(t)
             /\ t[4 * i + j + 1] = IF 4 * i + j + 1 > 4 * G - Missing(n) THEN 61 ELSE ToBase64(Sextet64(a, b, c, j))
  <2>1. IsSeq(src)
    BY DEF ByteSeq
  <2>2. CharOf(t, src, G, i, j)
    BY <2>1, EncodedChars
  <2> HIDE DEF t, G
  <2>3. QED
    BY <2>2 DEF CharOf
<1> HIDE DEF a, b, c, t, G
<1>4. /\ Sextet64(a, b, c, 0) = a \div 4 /\ Sextet64(a, b, c, 1) = (a % 4) * 16 + b \div 16
      /\ Sextet64(a, b, c, 2) = (b % 16) * 4 + c \div 64 /\ Sextet64(a, b, c, 3) = c % 64
  BY DEF Sextet64
<1>5. ASSUME NEW j \in 0..3 PROVE Sextet64(a, b, c, j) \in 0..63
  BY <1>2, SextetsRange
<1>6. /\ 3 * i < n
      /\ \A j \in 0..3 : 4 * i + j + 1 > 4 * G - Missing(n) <=> ~(j < 2 \/ 3 * i + (j - 1) < n)
  BY <1>1
<1>7. ASSUME NEW j \in 0..3
      PROVE  CharAt(t, 4 * i + j, wild) = IF j < 2 \/ 3 * i + (j - 1) < n THEN Sextet64(a, b, c, j) ELSE 255
  <2>1. CharAt(t, 4 * i + j, wild) = Lookup(t[4 * i + j + 1], wild)
    BY <1>3 DEF CharAt
  <2>2. Lookup(61, wild) = 255
    BY DEF Lookup, FromBase64
  <2>3. Lookup(ToBase64(Sextet64(a, b, c, j)), wild) = Sextet64(a, b, c, j)
    BY <1>5, TableInverse
  <2> DEFINE A == 4 * i + j + 1 > 4 * G - Missing(n)
             B == j < 2 \/ 3 * i + (j - 1) < n
             v == t[4 * i + j + 1]
             e == ToBase64(Sextet64(a, b, c, j))
             L == CharAt(t, 4 * i + j, wild)
             s == Sextet64(a, b, c, j)
  <2>4. v = IF A THEN 61 ELSE e
    BY <1>3
  <2>5. A <=> ~B
    BY <1>6
  <2>6. L = Lookup(v, wild) /\ Lookup(61, wild) = 255 /\ Lookup(e, wild) = s
    BY <2>1, <2>2, <2>3
  <2> HIDE DEF A, B, v, e, L, s
  <2>7. L = IF B THEN s ELSE 255
    BY <2>4, <2>5, <2>6
  <2>8. QED
    BY <2>7 DEF B, L, s
<1>8. CharAt(t, 4 * i + 0, wild) = Sextet64(a, b, c, 0) /\ CharAt(t, 4 * i + 1, wild) = Sextet64(a, b, c, 1)
  BY <1>7
<1>9. /\ CharAt(t, 4 * i + 2, wild) = IF 3 * i + 1 < n THEN Sextet64(a, b, c, 2) ELSE 255
      /\ CharAt(t, 4 * i + 3, wild) = IF 3 * i + 2 < n THEN Sextet64(a, b, c, 3) ELSE 255
  <2>1. 2 - 1 = 1 /\ 3 - 1 = 2 /\ ~(2 < 2) /\ ~(3 < 2)
    OBVIOUS
  <2>2. QED
    BY <1>7, <2>1
<1>10. 4 * i + 0 = 4 * i
  OBVIOUS
<1>11. QED
  BY <1>2, <1>4, <1>6, <1>8, <1>9, <1>10 DEF a, b, c, t

(* What decode() writes for a group of chars. *)
Written64(c0, c1, c2, c3) ==
    (IF c1 = 255 THEN <<>> ELSE <<(c0 % 64) * 4 + (c1 % 64) \div 16>>)
    \o (IF c2 = 255 THEN <<>> ELSE <<(c1 % 16) * 16 + (c2 % 64) \div 4>>)
    \o (IF c3 = 255 THEN <<>> ELSE <<(c2 % 4) * 64 + (c3 % 64)>>)
Decoded64(t, wild) ==
    [i \in 1..(RoundUp(Len(t), 4) \div 4) |->
        Written64(CharAt(t, 4 * (i - 1), wild), CharAt(t, 4 * (i - 1) + 1, wild),
                  CharAt(t, 4 * (i - 1) + 2, wild), CharAt(t, 4 * (i - 1) + 3, wild))]

(* A sequence of one element. *)
LEMMA OneElement ==
    ASSUME NEW e
    PROVE  IsSeq(<<e>>) /\ Len(<<e>>) = 1 /\ <<e>>[1] = e
<1>1. <<e>> \in Seq({e})
  OBVIOUS
<1>2. QED
  BY <1>1 DEF IsSeq

(* A group gives three bytes at most. *)
LEMMA WrittenParts ==
    ASSUME NEW c0, NEW c1, NEW c2, NEW c3
    PROVE  LET w == Written64(c0, c1, c2, c3) IN
           /\ IsSeq(w)
           /\ Len(w) = (IF c1 = 255 THEN 0 ELSE 1) + (IF c2 = 255 THEN 0 ELSE 1) + (IF c3 = 255 THEN 0 ELSE 1)
           /\ c1 # 255 =>
                /\ w[1] = (c0 % 64) * 4 + (c1 % 64) \div 16
                /\ c2 # 255 =>
                    /\ w[2] = (c1 % 16) * 16 + (c2 % 64) \div 4
                    /\ c3 # 255 => w[3] = (c2 % 4) * 64 + (c3 % 64)
<1> DEFINE x == (c0 % 64) * 4 + (c1 % 64) \div 16
           y == (c1 % 16) * 16 + (c2 % 64) \div 4
           z == (c2 % 4) * 64 + (c3 % 64)
           p == IF c1 = 255 THEN <<>> ELSE <<x>>
           q == IF c2 = 255 THEN <<>> ELSE <<y>>
           r == IF c3 = 255 THEN <<>> ELSE <<z>>
           s == p \o q
           w == s \o r
           lp == IF c1 = 255 THEN 0 ELSE 1
           lq == IF c2 = 255 THEN 0 ELSE 1
           lr == IF c3 = 255 THEN 0 ELSE 1
<1>1. Written64(c0, c1, c2, c3) = w
  BY DEF Written64
<1> HIDE DEF x, y, z
<1>2. IsSeq(p) /\ Len(p) = lp /\ (c1 # 255 => p[1] = x)
  BY OneElement, NoElements
<1>3. IsSeq(q) /\ Len(q) = lq /\ (c2 # 255 => q[1] = y)
  BY OneElement, NoElements
<1>4. IsSeq(r) /\ Len(r) = lr /\ (c3 # 255 => r[1] = z)
  BY OneElement, NoElements
<1> HIDE DEF p, q, r
<1>5. IsSeq(p) /\ IsSeq(q) /\ IsSeq(r)
  BY <1>2, <1>3, <1>4
<1>6. /\ IsSeq(s) /\ Len(s) = Len(p) + Len(q)
      /\ \A j \in 1..Len(p) : s[j] = p[j]
      /\ \A j \in 1..Len(q) : s[Len(p) + j] = q[j]
  BY <1>5, JoinedSeqs
<1> HIDE DEF s
<1>7. IsSeq(s)
  BY <1>6
<1>8. /\ IsSeq(w) /\ Len(w) = Len(s) + Len(r)
      /\ \A j \in 1..Len(s) : w[j] = s[j]
      /\ \A j \in 1..Len(r) : w[Len(s) + j] = r[j]
  BY <1>5, <1>7, JoinedSeqs
<1> HIDE DEF w
<1>9. Len(w) = lp + lq + lr /\ Len(s) = lp + lq
  BY <1>2, <1>3, <1>4, <1>6, <1>8
<1>10. ASSUME c1 # 255 PROVE w[1] = x
  <2>1. 1 \in 1..Len(p) /\ 1 \in 1..Len(s)
    BY <1>2, <1>9, <1>10
  <2>2. QED
    BY <1>2, <1>6, <1>8, <1>10, <2>1
<1>11. ASSUME c1 # 255, c2 # 255 PROVE w[2] = y
  <2>1. 1 \in 1..Len(q) /\ 2 \in 1..Len(s) /\ Len(p) + 1 = 2
    BY <1>2, <1>3, <1>9, <1>11
  <2>2. QED
    BY <1>3, <1>6, <1>8, <1>11, <2>1
<1>12. ASSUME c1 # 255, c2 # 255, c3 # 255 PROVE w[3] = z
  <2>1. 1 \in 1..Len(r) /\ Len(s) + 1 = 3
    BY <1>4, <1>9, <1>12
  <2>2. QED
    BY <1>4, <1>8, <1>12, <2>1
<1>13. QED
  BY <1>1, <1>8, <1>9, <1>10, <1>11, <1>12 DEF x, y, z

(* decode() is the groups one behind the other. *)
LEMMA DecodedGroups ==
    ASSUME NEW t, IsSeq(t), NEW wild
    PROVE  LET d == Decoded64(t, wild)
               k == RoundUp(Len(t), 4) \div 4 IN
           /\ AllSeqs(d) /\ k \in Nat /\ Len(d) = k
           /\ Base64Decode(t, wild) = FlattenSeq(d)
           /\ \A i \in 1..k :
                d[i] = Written64(CharAt(t, 4 * (i - 1), wild), CharAt(t, 4 * (i - 1) + 1, wild),
                                 CharAt(t, 4 * (i - 1) + 2, wild), CharAt(t, 4 * (i - 1) + 3, wild))
<1> DEFINE d == Decoded64(t, wild)
           k == RoundUp(Len(t), 4) \div 4
<1>1. Len(t) \in Nat /\ k \in Nat
  BY SeqIsFunction, FoursOf
<1>2. Base64Decode(t, wild) = FlattenSeq(d)
  BY DEF Base64Decode, Decoded64, Written64
<1>3. d = [i \in 1..k |->
            Written64(CharAt(t, 4 * (i - 1), wild), CharAt(t, 4 * (i - 1) + 1, wild),
                      CharAt(t, 4 * (i - 1) + 2, wild), CharAt(t, 4 * (i - 1) + 3, wild))]
  BY DEF Decoded64
<1> HIDE DEF d, k
<1>4. \A i \in 1..k :
        d[i] = Written64(CharAt(t, 4 * (i - 1), wild), CharAt(t, 4 * (i - 1) + 1, wild),
                         CharAt(t, 4 * (i - 1) + 2, wild), CharAt(t, 4 * (i - 1) + 3, wild))
  BY <1>3
<1>5. d = [i \in 1..k |-> d[i]]
  BY <1>3
<1>6. IsSeq(d) /\ Len(d) = k
  BY <1>1, <1>5, FunctionIsSeq
<1>7. AllSeqs(d)
  BY <1>4, <1>6, WrittenParts DEF AllSeqs
<1>8. QED
  BY <1>1, <1>2, <1>4, <1>6, <1>7 DEF d, k

(* The chars that encode() makes. *)
LEMMA EncodedLength ==
    ASSUME NEW src, IsSeq(src)
    PROVE  IsSeq(Base64Encode(src)) /\ Len(Base64Encode(src)) = 4 * Groups(Len(src))
<1> DEFINE t == Base64Encode(src)
           G == Groups(Len(src))
           S == 4 * G
<1>1. Len(src) \in Nat /\ G \in Nat
  BY SeqIsFunction, GroupsOf
<1>2. S \in Nat
  BY <1>1
<1>3. t = [k \in 1..S |-> t[k]]
  BY DEF Base64Encode, Groups
<1> HIDE DEF t, S, G
<1>4. IsSeq(t) /\ Len(t) = S
  BY <1>2, <1>3, FunctionIsSeq
<1>5. QED
  BY <1>4 DEF t, S, G

(* What decode() writes for a group that encode() made: its bytes. *)
LEMMA GroupBack ==
    ASSUME NEW src, ByteSeq(src), NEW i \in Nat, i < Groups(Len(src)), NEW wild
    PROVE  LET t == Base64Encode(src)
               w == Written64(CharAt(t, 4 * i, wild), CharAt(t, 4 * i + 1, wild),
                              CharAt(t, 4 * i + 2, wild), CharAt(t, 4 * i + 3, wild))
           IN /\ IsSeq(w) /\ Len(w) = IF 3 * i + 3 <= Len(src) THEN 3 ELSE Len(src) - 3 * i
              /\ \A j \in 1..Len(w) : w[j] = src[3 * i + j]
<1> DEFINE t == Base64Encode(src)
           n == Len(src)
           a == ByteAt(src, 3 * i)
           b == ByteAt(src, 3 * i + 1)
           c == ByteAt(src, 3 * i + 2)
           s0 == a \div 4
           s1 == (a % 4) * 16 + b \div 16
           s2 == (b % 16) * 4 + c \div 64
           s3 == c % 64
           c0 == CharAt(t, 4 * i, wild)
           c1 == CharAt(t, 4 * i + 1, wild)
           c2 == CharAt(t, 4 * i + 2, wild)
           c3 == CharAt(t, 4 * i + 3, wild)
           w == Written64(c0, c1, c2, c3)
<1>1. /\ a \in 0..255 /\ b \in 0..255 /\ c \in 0..255 /\ 3 * i < n
      /\ c0 = s0 /\ c1 = s1
      /\ c2 = IF 3 * i + 1 < n THEN s2 ELSE 255
      /\ c3 = IF 3 * i + 2 < n THEN s3 ELSE 255
  BY GroupChars
<1>2. n \in Nat
  BY SeqIsFunction DEF ByteSeq
<1>3. /\ a = src[3 * i + 1]
      /\ 3 * i + 1 < n => b = src[3 * i + 2]
      /\ 3 * i + 2 < n => c = src[3 * i + 3]
  BY <1>1, <1>2 DEF ByteAt
<1> HIDE DEF a, b, c, n
<1>4. s0 \in 0..63 /\ s1 \in 0..63 /\ s2 \in 0..63 /\ s3 \in 0..63
  <2>1. a \in 0..255 /\ b \in 0..255 /\ c \in 0..255
    BY <1>1
  <2>2. SextetsIn(a, b, c)
    BY <2>1, SextetsOfBytes
  <2>3. QED
    BY <2>2 DEF SextetsIn
<1>5. /\ (s0 % 64) * 4 + (s1 % 64) \div 16 = a
      /\ (s1 % 16) * 16 + (s2 % 64) \div 4 = b
      /\ (s2 % 4) * 64 + (s3 % 64) = c
  <2>1. a \in 0..255 /\ b \in 0..255 /\ c \in 0..255
    BY <1>1
  <2>2. BytesAgain(a, b, c)
    BY <2>1, BytesOfSextets
  <2>3. QED
    BY <2>2 DEF BytesAgain
<1> HIDE DEF s0, s1, s2, s3, c0, c1, c2, c3
<1>6. /\ c1 # 255 /\ (c2 # 255 <=> 3 * i + 1 < n) /\ (c3 # 255 <=> 3 * i + 2 < n)
  BY <1>1, <1>4
<1>7. /\ IsSeq(w)
      /\ Len(w) = (IF c1 = 255 THEN 0 ELSE 1) + (IF c2 = 255 THEN 0 ELSE 1) + (IF c3 = 255 THEN 0 ELSE 1)
      /\ c1 # 255 =>
            /\ w[1] = (c0 % 64) * 4 + (c1 % 64) \div 16
            /\ c2 # 255 =>
                /\ w[2] = (c1 % 16) * 16 + (c2 % 64) \div 4
                /\ c3 # 255 => w[3] = (c2 % 4) * 64 + (c3 % 64)
  BY WrittenParts
<1> HIDE DEF w
<1>8. Len(w) = IF 3 * i + 3 <= n THEN 3 ELSE n - 3 * i
  <2>1. Len(w) = 1 + (IF 3 * i + 1 < n THEN 1 ELSE 0) + (IF 3 * i + 2 < n THEN 1 ELSE 0)
    BY <1>6, <1>7
  <2>2. QED
    BY <1>1, <1>2, <2>1
<1>9. w[1] = a
  BY <1>1, <1>5, <1>6, <1>7
<1>10. 3 * i + 1 < n => w[2] = b
  BY <1>1, <1>5, <1>6, <1>7
<1>11. 3 * i + 2 < n => w[3] = c
  <2>1. 3 * i + 2 < n => 3 * i + 1 < n
    BY <1>2
  <2>2. QED
    BY <1>1, <1>5, <1>6, <1>7, <2>1
<1>12. ASSUME NEW j \in 1..Len(w) PROVE w[j] = src[3 * i + j]
  <2>1. j = 1 \/ (j = 2 /\ 3 * i + 1 < n) \/ (j = 3 /\ 3 * i + 2 < n)
    <3> DEFINE l == Len(w)
    <3>1. l = (IF 3 * i + 3 <= n THEN 3 ELSE n - 3 * i) /\ j \in 1..l /\ 3 * i < n
      BY <1>1, <1>8
    <3> HIDE DEF l
    <3>2. CASE 3 * i + 3 <= n
      BY <1>2, <3>1, <3>2
    <3>3. CASE ~(3 * i + 3 <= n)
      <4> DEFINE q == 3 * i
      <4>1. q \in Nat /\ q < n /\ ~(q + 3 <= n) /\ l = n - q
        BY <3>1, <3>3
      <4> HIDE DEF q
      <4>2. j = 1 \/ (j = 2 /\ q + 1 < n)
        BY <1>2, <3>1, <4>1
      <4>3. QED
        BY <4>2 DEF q
    <3>4. QED
      BY <3>2, <3>3
  <2>2. CASE j = 1
    BY <1>3, <1>9, <2>2
  <2>3. CASE j = 2 /\ 3 * i + 1 < n
    BY <1>3, <1>10, <2>3
  <2>4. CASE j = 3 /\ 3 * i + 2 < n
    BY <1>3, <1>11, <2>4
  <2>5. QED
    BY <2>1, <2>2, <2>3, <2>4
<1>13. QED
  BY <1>7, <1>8, <1>12 DEF w, n, c0, c1, c2, c3

(* decode() of what encode() made of some bytes gives the bytes, whatever  *)
(* lies outside of the text and of the table.                              *)
LEMMA Base64Back ==
    ASSUME NEW src, ByteSeq(src), NEW wild
    PROVE  Base64Decode(Base64Encode(src), wild) = src
<1> DEFINE t == Base64Encode(src)
           n == Len(src)
           G == Groups(n)
           d == Decoded64(t, wild)
<1>1. IsSeq(src) /\ n \in Nat
  BY SeqIsFunction DEF ByteSeq
<1>2. G \in Nat /\ n <= 3 * G /\ 3 * G <= n + 2
  BY <1>1, GroupsOf
<1>3. IsSeq(t) /\ Len(t) = 4 * G
  BY <1>1, EncodedLength
<1>4. RoundUp(Len(t), 4) \div 4 = G
  <2>1. Len(t) \in Nat
    BY <1>2, <1>3
  <2>2. QED
    BY <1>2, <1>3, <2>1, FoursOf
<1>5. /\ AllSeqs(d) /\ Len(d) = G
      /\ Base64Decode(t, wild) = FlattenSeq(d)
      /\ \A i \in 1..G :
            d[i] = Written64(CharAt(t, 4 * (i - 1), wild), CharAt(t, 4 * (i - 1) + 1, wild),
                             CharAt(t, 4 * (i - 1) + 2, wild), CharAt(t, 4 * (i - 1) + 3, wild))
  BY <1>3, <1>4, DecodedGroups
<1>6. ASSUME NEW m \in Nat, m < G
      PROVE  /\ IsSeq(d[m + 1]) /\ Len(d[m + 1]) = IF 3 * m + 3 <= n THEN 3 ELSE n - 3 * m
             /\ \A j \in 1..Len(d[m + 1]) : d[m + 1][j] = src[3 * m + j]
  <2>1. m + 1 \in 1..G /\ (m + 1) - 1 = m
    BY <1>2, <1>6
  <2>2. d[m + 1] = Written64(CharAt(t, 4 * m, wild), CharAt(t, 4 * m + 1, wild),
                             CharAt(t, 4 * m + 2, wild), CharAt(t, 4 * m + 3, wild))
    BY <1>5, <2>1
  <2> HIDE DEF d
  <2>3. QED
    BY <1>6, <2>2, GroupBack
<1> HIDE DEF d, t
<1>7. PICK f : Flat(f, d) /\ FlattenSeq(d) = f[Len(d)]
  BY <1>5, FlatExists
<1>8. /\ f[0] = <<>>
      /\ \A m \in 0..G : IsSeq(f[m]) /\ Len(f[m]) \in Nat
      /\ \A m \in 1..G : GrowsBy(f[m - 1], f[m], d[m])
  <2>1. AllSeqs(d) /\ Flat(f, d) /\ G = Len(d)
    BY <1>5, <1>7
  <2> HIDE DEF G
  <2>2. QED
    BY <2>1, FlatGrows
<1> DEFINE M(m) == IF 3 * m <= n THEN 3 * m ELSE n
           P(m) == Len(f[m]) = M(m) /\ \A j \in 1..M(m) : f[m][j] = src[j]
           S == {m \in Nat : m <= G => P(m)}
<1> HIDE DEF G, n
<1>9. 0 \in S
  BY <1>1, <1>8, NoElements
<1>10. ASSUME NEW m \in Nat, m \in S PROVE m + 1 \in S
  <2>1. SUFFICES ASSUME m + 1 <= G PROVE P(m + 1)
    OBVIOUS
  <2>2. m < G /\ m + 1 \in 1..G /\ (m + 1) - 1 = m /\ 3 * m < n /\ 3 * (m + 1) = 3 * m + 3
    BY <1>1, <1>2, <2>1
  <2>3. P(m) /\ M(m) = 3 * m
    <3>1. m <= G
      BY <1>2, <2>2
    <3>2. P(m)
      BY <1>10, <3>1
    <3> HIDE DEF P
    <3>3. M(m) = 3 * m
      BY <1>1, <2>2
    <3>4. QED
      BY <3>2, <3>3
  <2> DEFINE L == Len(d[m + 1])
  <2>4. /\ L = IF 3 * m + 3 <= n THEN 3 ELSE n - 3 * m
        /\ \A j \in 1..L : d[m + 1][j] = src[3 * m + j]
    BY <1>6, <2>2
  <2>5. /\ Len(f[m + 1]) = 3 * m + L
        /\ \A j \in 1..(3 * m) : f[m + 1][j] = f[m][j]
        /\ \A j \in 1..L : f[m + 1][3 * m + j] = d[m + 1][j]
    <3>1. Len(f[m]) = 3 * m
      BY <2>3
    <3>2. /\ Len(f[m + 1]) = Len(f[m]) + Len(d[m + 1])
          /\ \A j \in 1..Len(f[m]) : f[m + 1][j] = f[m][j]
          /\ \A j \in 1..Len(d[m + 1]) : f[m + 1][Len(f[m]) + j] = d[m + 1][j]
      <4>1. m + 1 \in 1..G /\ (m + 1) - 1 = m
        BY <2>2
      <4> HIDE DEF M, P
      <4>2. GrowsBy(f[m], f[m + 1], d[m + 1])
        BY <1>8, <4>1
      <4>3. QED
        BY <4>2 DEF GrowsBy
    <3> HIDE DEF M, P
    <3>3. QED
      BY <3>1, <3>2
  <2> HIDE DEF L
  <2>6. L \in Nat /\ M(m + 1) = 3 * m + L
    BY <1>1, <2>2, <2>4
  <2>7. ASSUME NEW j \in 1..(3 * m + L) PROVE f[m + 1][j] = src[j]
    <3>1. CASE j <= 3 * m
      <4>1. j \in 1..(3 * m)
        BY <2>6, <3>1
      <4>2. QED
        BY <2>3, <2>5, <4>1
    <3>2. CASE j > 3 * m
      <4> DEFINE k == j - 3 * m
      <4>1. k \in 1..L /\ j = 3 * m + k
        BY <2>6, <3>2
      <4> HIDE DEF k
      <4>2. QED
        BY <2>4, <2>5, <4>1
    <3>3. QED
      BY <2>6, <3>1, <3>2
  <2> HIDE DEF M
  <2>8. QED
    BY <2>5, <2>6, <2>7
<1>11. P(G) /\ M(G) = n
  <2>1. G \in S
    <3> HIDE DEF S
    <3>1. QED
      BY <1>2, <1>9, <1>10, NatSets
  <2>2. P(G)
    BY <1>2, <2>1
  <2>3. M(G) = n
    BY <1>1, <1>2
  <2>4. QED
    BY <2>2, <2>3
<1>12. IsSeq(f[G]) /\ Len(f[G]) = n /\ \A j \in 1..n : f[G][j] = src[j]
  BY <1>2, <1>8, <1>11
<1>13. f[G] = src
  BY <1>1, <1>12, SameSeqs DEF n
<1>14. QED
  BY <1>5, <1>7, <1>13 DEF t

(* A group of four chars gives three bytes at most. *)
LEMMA Base64Size ==
    ASSUME NEW t, IsSeq(t), NEW wild
    PROVE  LET b == Base64Decode(t, wild) IN
           IsSeq(b) /\ Len(b) <= (3 * RoundUp(Len(t), 4)) \div 4
<1> DEFINE d == Decoded64(t, wild)
           G == RoundUp(Len(t), 4) \div 4
<1>1. Len(t) \in Nat
  BY SeqIsFunction
<1>2. G \in Nat /\ (3 * RoundUp(Len(t), 4)) \div 4 = 3 * G
  BY <1>1, FoursOf
<1>3. /\ AllSeqs(d) /\ Len(d) = G
      /\ Base64Decode(t, wild) = FlattenSeq(d)
      /\ \A i \in 1..G :
            d[i] = Written64(CharAt(t, 4 * (i - 1), wild), CharAt(t, 4 * (i - 1) + 1, wild),
                             CharAt(t, 4 * (i - 1) + 2, wild), CharAt(t, 4 * (i - 1) + 3, wild))
  BY DecodedGroups
<1>4. ASSUME NEW i \in 1..G PROVE Len(d[i]) <= 3
  <2> DEFINE c0 == CharAt(t, 4 * (i - 1), wild)
             c1 == CharAt(t, 4 * (i - 1) + 1, wild)
             c2 == CharAt(t, 4 * (i - 1) + 2, wild)
             c3 == CharAt(t, 4 * (i - 1) + 3, wild)
  <2>1. d[i] = Written64(c0, c1, c2, c3)
    BY <1>3
  <2> HIDE DEF c0, c1, c2, c3, d
  <2>2. Len(d[i]) = (IF c1 = 255 THEN 0 ELSE 1) + (IF c2 = 255 THEN 0 ELSE 1) + (IF c3 = 255 THEN 0 ELSE 1)
    BY <2>1, WrittenParts
  <2>3. QED
    BY <2>2
<1> HIDE DEF d
<1>5. PICK f : Flat(f, d) /\ FlattenSeq(d) = f[Len(d)]
  BY <1>3, FlatExists
<1>6. \A i \in 1..Len(d) : Len(d[i]) <= 3
  BY <1>3, <1>4
<1>7. IsSeq(f[Len(d)]) /\ Len(f[Len(d)]) <= 3 * Len(d)
  BY <1>3, <1>5, <1>6, FlatBound
<1>8. QED
  BY <1>2, <1>3, <1>5, <1>7

(* What a text of chars below 128 decodes to does not depend on what lies  *)
(* outside of it or of the table.                                          *)
LEMMA Base64Reads ==
    ASSUME NEW t, IsSeq(t), \A k \in 1..Len(t) : ~(t[k] >= 128), NEW w1, NEW w2
    PROVE  Base64Decode(t, w1) = Base64Decode(t, w2)
<1> DEFINE G == RoundUp(Len(t), 4) \div 4
<1>1. Len(t) \in Nat
  BY SeqIsFunction
<1>2. ASSUME NEW k \in Nat PROVE CharAt(t, k, w1) = CharAt(t, k, w2)
  <2>1. CASE k < Len(t)
    <3>1. k + 1 \in 1..Len(t)
      BY <1>1, <2>1
    <3>2. ~(t[k + 1] >= 128)
      BY <3>1
    <3>3. QED
      BY <2>1, <3>2 DEF CharAt, Lookup
  <2>2. CASE ~(k < Len(t))
    BY <2>2 DEF CharAt
  <2>3. QED
    BY <2>1, <2>2
<1>3. /\ Decoded64(t, w1) = [i \in 1..G |->
            Written64(CharAt(t, 4 * (i - 1), w1), CharAt(t, 4 * (i - 1) + 1, w1),
                      CharAt(t, 4 * (i - 1) + 2, w1), CharAt(t, 4 * (i - 1) + 3, w1))]
      /\ Decoded64(t, w2) = [i \in 1..G |->
            Written64(CharAt(t, 4 * (i - 1), w2), CharAt(t, 4 * (i - 1) + 1, w2),
                      CharAt(t, 4 * (i - 1) + 2, w2), CharAt(t, 4 * (i - 1) + 3, w2))]
  BY DEF Decoded64
<1>4. G \in Nat
  BY <1>1, FoursOf
<1> HIDE DEF G
<1>5. ASSUME NEW i \in 1..G
      PROVE  Written64(CharAt(t, 4 * (i - 1), w1), CharAt(t, 4 * (i - 1) + 1, w1),
                       CharAt(t, 4 * (i - 1) + 2, w1), CharAt(t, 4 * (i - 1) + 3, w1))
             = Written64(CharAt(t, 4 * (i - 1), w2), CharAt(t, 4 * (i - 1) + 1, w2),
                         CharAt(t, 4 * (i - 1) + 2, w2), CharAt(t, 4 * (i - 1) + 3, w2))
  <2> DEFINE k == 4 * (i - 1)
  <2>1. k \in Nat /\ k + 1 \in Nat /\ k + 2 \in Nat /\ k + 3 \in Nat
    BY <1>4
  <2> HIDE DEF k
  <2>2. /\ CharAt(t, k, w1) = CharAt(t, k, w2) /\ CharAt(t, k + 1, w1) = CharAt(t, k + 1, w2)
        /\ CharAt(t, k + 2, w1) = CharAt(t, k + 2, w2) /\ CharAt(t, k + 3, w1) = CharAt(t, k + 3, w2)
    BY <1>2, <2>1
  <2>3. QED
    BY <2>2 DEF k
<1>6. Decoded64(t, w1) = Decoded64(t, w2)
  BY <1>3, <1>5
<1>7. Base64Decode(t, w1) = FlattenSeq(Decoded64(t, w1)) /\ Base64Decode(t, w2) = FlattenSeq(Decoded64(t, w2))
  BY DecodedGroups
<1>8. QED
  BY <1>6, <1>7

-----------------------------------------------------------------------------
(* hex: the value of a digit. *)
LEMMA DigitBack ==
    ASSUME NEW v \in 0..15, NEW upper
    PROVE  HexValue(HexDigit(v, upper)) = v
<1>1. CASE v < 10
  <2>1. HexDigit(v, upper) = 48 + v
    BY <1>1 DEF HexDigit
  <2>2. HexValue(48 + v) = (48 + v) - 48
    BY <1>1 DEF HexValue
  <2>3. QED
    BY <2>1, <2>2
<1>2. CASE ~(v < 10) /\ upper
  <2>1. HexDigit(v, upper) = 65 + v - 10
    BY <1>2 DEF HexDigit
  <2>2. HexValue(65 + v - 10) = (65 + v - 10) - 65 + 10
    BY <1>2 DEF HexValue
  <2>3. QED
    BY <2>1, <2>2
<1>3. CASE ~(v < 10) /\ ~upper
  <2>1. HexDigit(v, upper) = 97 + v - 10
    BY <1>3 DEF HexDigit
  <2>2. HexValue(97 + v - 10) = (97 + v - 10) - 97 + 10
    BY <1>3 DEF HexValue
  <2>3. QED
    BY <2>1, <2>2
<1>4. QED
  BY <1>1, <1>2, <1>3

(* Two digits are the byte they were made of. *)
LEMMA DigitsBack ==
    ASSUME NEW b \in 0..255, NEW upper
    PROVE  HexByte(HexDigit(b \div 16, upper), HexDigit(b % 16, upper)) = b
<1> DEFINE h == b \div 16
           l == b % 16
<1>1. h \in 0..15 /\ l \in 0..15 /\ h * 16 + l = b
  OBVIOUS
<1> HIDE DEF h, l
<1>2. HexValue(HexDigit(h, upper)) = h /\ HexValue(HexDigit(l, upper)) = l
  BY <1>1, DigitBack
<1>3. HexByte(HexDigit(h, upper), HexDigit(l, upper)) = b
  BY <1>1, <1>2 DEF HexByte
<1>4. QED
  BY <1>3 DEF h, l

(* The digits that encode() makes. *)
LEMMA HexChars ==
    ASSUME NEW src, IsSeq(src), NEW upper
    PROVE  LET t == HexEncode(src, upper) IN
           /\ IsSeq(t) /\ Len(t) = 2 * Len(src)
           /\ \A k \in 1..Len(src) : /\ t[2 * k - 1] = HexDigit(src[k] \div 16, upper)
                                     /\ t[2 * k] = HexDigit(src[k] % 16, upper)
<1> DEFINE n == Len(src)
           t == HexEncode(src, upper)
           S == 2 * n
           D(k) == HexDigit(IF k % 2 = 1 THEN src[(k + 1) \div 2] \div 16 ELSE src[(k + 1) \div 2] % 16, upper)
<1>1. n \in Nat /\ S \in Nat
  BY SeqIsFunction
<1>2. t = [k \in 1..S |-> D(k)]
  BY DEF HexEncode
<1> HIDE DEF t, D, n
<1>3. t = [k \in 1..S |-> t[k]] /\ \A k \in 1..S : t[k] = D(k)
  BY <1>2
<1>4. IsSeq(t) /\ Len(t) = S
  <2> HIDE DEF S
  <2>1. QED
    BY <1>1, <1>3, FunctionIsSeq
<1>5. ASSUME NEW k \in 1..n PROVE t[2 * k - 1] = HexDigit(src[k] \div 16, upper) /\ t[2 * k] = HexDigit(src[k] % 16, upper)
  <2>1. k \in Nat /\ 2 * k - 1 \in 1..S /\ 2 * k \in 1..S
    BY <1>1
  <2>2. (2 * k - 1) % 2 = 1 /\ ((2 * k - 1) + 1) \div 2 = k /\ (2 * k) % 2 = 0 /\ (2 * k + 1) \div 2 = k
    BY <2>1
  <2>3. D(2 * k - 1) = HexDigit(src[k] \div 16, upper)
    BY <2>2 DEF D
  <2>4. D(2 * k) = HexDigit(src[k] % 16, upper)
    BY <2>2 DEF D
  <2>5. QED
    BY <1>3, <2>1, <2>3, <2>4
<1>6. QED
  BY <1>4, <1>5 DEF t, n

(* decode() of what encode() made of some bytes gives the bytes. *)
LEMMA HexBack ==
    ASSUME NEW src, ByteSeq(src), NEW upper
    PROVE  HexDecode(HexEncode(src, upper)) = src
<1> DEFINE n == Len(src)
           t == HexEncode(src, upper)
           d == HexDecode(t)
<1>1. IsSeq(src) /\ n \in Nat
  BY SeqIsFunction DEF ByteSeq
<1>2. /\ Len(t) = 2 * n
      /\ \A k \in 1..n : /\ t[2 * k - 1] = HexDigit(src[k] \div 16, upper)
                         /\ t[2 * k] = HexDigit(src[k] % 16, upper)
  BY <1>1, HexChars
<1>3. Len(t) \div 2 = n
  BY <1>1, <1>2
<1> HIDE DEF t
<1>4. d = [k \in 1..n |-> HexByte(t[2 * k - 1], t[2 * k])]
  BY <1>3 DEF HexDecode
<1> HIDE DEF d
<1>5. \A k \in 1..n : d[k] = HexByte(t[2 * k - 1], t[2 * k])
  BY <1>4
<1>6. d = [k \in 1..n |-> d[k]]
  BY <1>4
<1>7. IsSeq(d) /\ Len(d) = n
  <2> HIDE DEF n
  <2>1. QED
    BY <1>1, <1>6, FunctionIsSeq
<1>8. ASSUME NEW k \in 1..n PROVE d[k] = src[k]
  <2>1. src[k] \in 0..255
    BY DEF ByteSeq
  <2>2. d[k] = HexByte(HexDigit(src[k] \div 16, upper), HexDigit(src[k] % 16, upper))
    BY <1>2, <1>5
  <2>3. QED
    BY <2>1, <2>2, DigitsBack
<1>9. d = src
  BY <1>1, <1>7, <1>8, SameSeqs
<1>10. QED
  BY <1>9 DEF d, t

(* Two chars give one byte. *)
LEMMA HexSize ==
    ASSUME NEW t, IsSeq(t)
    PROVE  IsSeq(HexDecode(t)) /\ Len(HexDecode(t)) = Len(t) \div 2
<1> DEFINE h == Len(t) \div 2
           d == HexDecode(t)
<1>1. h \in Nat
  <2>1. Len(t) \in Nat
    BY SeqIsFunction
  <2>2. QED
    BY <2>1
<1>2. d = [k \in 1..h |-> d[k]]
  BY DEF HexDecode
<1> HIDE DEF d, h
<1>3. IsSeq(d) /\ Len(d) = h
  BY <1>1, <1>2, FunctionIsSeq
<1>4. QED
  BY <1>3 DEF d, h

-----------------------------------------------------------------------------
(* url: what decode() has after each char. *)
UrlAcc(t, wild, acc, k) ==
    LET Char(j) == IF j <= Len(t) THEN t[j] ELSE wild IN
    IF acc.skip > 0 THEN [skip |-> acc.skip - 1, out |-> acc.out]
    ELSE CASE t[k] = 37 -> [skip |-> 2, out |-> Append(acc.out, HexByte(Char(k + 1), Char(k + 2)))]
           [] t[k] = 43 -> [skip |-> 0, out |-> Append(acc.out, 32)]
           [] OTHER -> [skip |-> 0, out |-> Append(acc.out, t[k])]
Nought == [skip |-> 0, out |-> <<>>]
UrlRead(r, t, wild, m) == r = [k \in 0..m |-> IF k = 0 THEN Nought ELSE UrlAcc(t, wild, r[k - 1], k)]

(* decode() ends with the last of them. *)
LEMMA ReadExists ==
    ASSUME NEW t, IsSeq(t), NEW wild
    PROVE  \E r : UrlRead(r, t, wild, Len(t)) /\ UrlDecode(t, wild) = r[Len(t)]
<1> DEFINE N == Len(t)
           A(acc, k) == UrlAcc(t, wild, acc, k)
           S == {m \in Nat : \E g : UrlRead(g, t, wild, m)}
<1>1. N \in Nat
  BY SeqIsFunction
<1>2. 0 \in S
  <2> DEFINE g == [k \in 0..0 |-> Nought]
  <2>1. UrlRead(g, t, wild, 0)
    BY DEF UrlRead
  <2>2. QED
    BY <2>1
<1>3. ASSUME NEW m \in Nat, m \in S PROVE m + 1 \in S
  <2>1. PICK g : UrlRead(g, t, wild, m)
    BY <1>3
  <2> HIDE DEF A
  <2> DEFINE h == [k \in 0..(m + 1) |-> IF k <= m THEN g[k] ELSE A(g[m], m + 1)]
  <2>2. \A k \in 0..m : g[k] = IF k = 0 THEN Nought ELSE A(g[k - 1], k)
    BY <2>1 DEF UrlRead, A
  <2>3. ASSUME NEW k \in 0..(m + 1) PROVE h[k] = IF k = 0 THEN Nought ELSE A(h[k - 1], k)
    <3>1. CASE k <= m
      <4>1. k \in 0..m /\ (k # 0 => k - 1 \in 0..(m + 1) /\ k - 1 <= m)
        BY <3>1
      <4>2. h[k] = g[k] /\ (k # 0 => h[k - 1] = g[k - 1])
        BY <3>1, <4>1
      <4> HIDE DEF h
      <4>3. QED
        BY <2>2, <4>1, <4>2
    <3>2. CASE ~(k <= m)
      <4>1. k = m + 1 /\ k # 0 /\ k - 1 = m /\ m \in 0..(m + 1)
        BY <3>2
      <4>2. h[k] = A(g[m], m + 1)
        BY <3>2, <4>1
      <4>3. h[m] = g[m]
        BY <4>1
      <4> HIDE DEF h
      <4>4. QED
        BY <4>1, <4>2, <4>3
    <3>3. QED
      BY <3>1, <3>2
  <2>4. UrlRead(h, t, wild, m + 1)
    <3>1. h = [k \in 0..(m + 1) |-> h[k]]
      OBVIOUS
    <3> HIDE DEF h
    <3>2. h = [k \in 0..(m + 1) |-> IF k = 0 THEN Nought ELSE A(h[k - 1], k)]
      BY <2>3, <3>1
    <3>3. QED
      BY <3>2 DEF UrlRead, A
  <2> HIDE DEF h
  <2>5. m + 1 \in Nat /\ \E x : UrlRead(x, t, wild, m + 1)
    BY <2>4
  <2>6. QED
    BY <2>5
<1>4. N \in S
  <2> HIDE DEF S
  <2>1. QED
    BY <1>1, <1>2, <1>3, NatSets
<1> DEFINE r == CHOOSE x : UrlRead(x, t, wild, N)
<1>5. UrlRead(r, t, wild, N)
  BY <1>4
<1>6. UrlDecode(t, wild) = r[N]
  BY DEF UrlDecode, UrlRead, UrlAcc, Nought
<1> HIDE DEF r
<1>7. QED
  BY <1>5, <1>6

(* The steps of it. *)
LEMMA ReadSteps ==
    ASSUME NEW t, IsSeq(t), NEW wild, NEW r, UrlRead(r, t, wild, Len(t))
    PROVE  r[0] = Nought /\ \A k \in 1..Len(t) : r[k] = UrlAcc(t, wild, r[k - 1], k)
<1> DEFINE A(k) == UrlAcc(t, wild, r[k - 1], k)
<1>1. Len(t) \in Nat
  BY SeqIsFunction
<1>2. r = [k \in 0..Len(t) |-> IF k = 0 THEN Nought ELSE A(k)]
  BY DEF UrlRead
<1> HIDE DEF A
<1>3. r[0] = Nought /\ \A k \in 1..Len(t) : r[k] = A(k)
  BY <1>1, <1>2
<1>4. QED
  BY <1>3 DEF A

(* No more bytes than chars, and what is still to be skipped stands behind *)
(* a % that was one of the last two.                                       *)
ReadOk(x, t, k) ==
    /\ IsSeq(x.out) /\ Len(x.out) <= k /\ x.skip \in 0..2
    /\ x.skip = 2 => k >= 1 /\ t[k] = 37
    /\ x.skip = 1 => k >= 2 /\ t[k - 1] = 37

(* A step of decode(). *)
LEMMA ReadOkStep ==
    ASSUME NEW t, NEW wild, NEW x, NEW k \in Nat, ReadOk(x, t, k)
    PROVE  ReadOk(UrlAcc(t, wild, x, k + 1), t, k + 1)
<1> DEFINE y == UrlAcc(t, wild, x, k + 1)
           Char(j) == IF j <= Len(t) THEN t[j] ELSE wild
           b == HexByte(Char((k + 1) + 1), Char((k + 1) + 2))
<1>1. IsSeq(x.out) /\ Len(x.out) \in Nat /\ Len(x.out) <= k /\ x.skip \in 0..2
  BY SeqIsFunction DEF ReadOk
<1>2. \A e : IsSeq(Append(x.out, e)) /\ Len(Append(x.out, e)) = Len(x.out) + 1
  BY <1>1, Appended
<1>3. CASE x.skip > 0
  <2>1. y = [skip |-> x.skip - 1, out |-> x.out]
    BY <1>3 DEF UrlAcc
  <2>2. y.skip = x.skip - 1 /\ y.out = x.out
    BY <2>1
  <2> HIDE DEF y
  <2>3. x.skip = 2 \/ x.skip = 1
    BY <1>1, <1>3
  <2>4. CASE x.skip = 2
    <3>1. k >= 1 /\ t[k] = 37
      BY <2>4 DEF ReadOk
    <3>2. y.skip = 1 /\ (k + 1) - 1 = k
      BY <2>2, <2>4
    <3>3. QED
      BY <1>1, <2>2, <3>1, <3>2 DEF ReadOk, y
  <2>5. CASE x.skip = 1
    <3>1. y.skip = 0
      BY <2>2, <2>5
    <3>2. QED
      BY <1>1, <2>2, <3>1 DEF ReadOk, y
  <2>6. QED
    BY <2>3, <2>4, <2>5
<1>4. CASE ~(x.skip > 0)
  <2>1. CASE t[k + 1] = 37
    <3>1. y = [skip |-> 2, out |-> Append(x.out, b)]
      BY <1>4, <2>1 DEF UrlAcc
    <3> HIDE DEF b
    <3>2. y.skip = 2 /\ y.out = Append(x.out, b)
      BY <3>1
    <3> HIDE DEF y
    <3>3. IsSeq(Append(x.out, b)) /\ Len(Append(x.out, b)) = Len(x.out) + 1
      BY <1>2
    <3>4. IsSeq(y.out) /\ Len(y.out) <= k + 1
      BY <1>1, <3>2, <3>3
    <3>5. ReadOk(y, t, k + 1)
      BY <2>1, <3>2, <3>4 DEF ReadOk
    <3>6. QED
      BY <3>5 DEF y
  <2>2. CASE t[k + 1] # 37
    <3> DEFINE e == IF t[k + 1] = 43 THEN 32 ELSE t[k + 1]
    <3>1. y = [skip |-> 0, out |-> Append(x.out, e)]
      BY <1>4, <2>2 DEF UrlAcc
    <3> HIDE DEF e
    <3>2. y.skip = 0 /\ y.out = Append(x.out, e)
      BY <3>1
    <3> HIDE DEF y
    <3>3. IsSeq(Append(x.out, e)) /\ Len(Append(x.out, e)) = Len(x.out) + 1
      BY <1>2
    <3>4. IsSeq(y.out) /\ Len(y.out) <= k + 1
      BY <1>1, <3>2, <3>3
    <3>5. ReadOk(y, t, k + 1)
      BY <3>2, <3>4 DEF ReadOk
    <3>6. QED
      BY <3>5 DEF y
  <2>3. QED
    BY <2>1, <2>2
<1>5. QED
  BY <1>3, <1>4

(* So at the end of the text. *)
LEMMA UrlReads ==
    ASSUME NEW t, IsSeq(t), NEW wild
    PROVE  ReadOk(UrlDecode(t, wild), t, Len(t))
<1>1. Len(t) \in Nat
  BY SeqIsFunction
<1>2. PICK r : UrlRead(r, t, wild, Len(t)) /\ UrlDecode(t, wild) = r[Len(t)]
  BY ReadExists
<1>3. r[0] = Nought /\ \A k \in 1..Len(t) : r[k] = UrlAcc(t, wild, r[k - 1], k)
  BY <1>2, ReadSteps
<1> DEFINE S == {k \in Nat : k <= Len(t) => ReadOk(r[k], t, k)}
<1>4. 0 \in S
  BY <1>3, NoElements DEF ReadOk, Nought
<1>5. ASSUME NEW k \in Nat, k \in S PROVE k + 1 \in S
  <2>1. SUFFICES ASSUME k + 1 <= Len(t) PROVE ReadOk(r[k + 1], t, k + 1)
    OBVIOUS
  <2>2. k + 1 \in 1..Len(t) /\ (k + 1) - 1 = k /\ k <= Len(t)
    BY <1>1, <2>1
  <2>3. r[k + 1] = UrlAcc(t, wild, r[k], k + 1)
    BY <1>3, <2>2
  <2>4. ReadOk(r[k], t, k)
    BY <1>5, <2>2
  <2>5. QED
    BY <2>3, <2>4, ReadOkStep
<1>6. Len(t) \in S
  <2> HIDE DEF S
  <2>1. QED
    BY <1>1, <1>4, <1>5, NatSets
<1>7. QED
  BY <1>1, <1>2, <1>6

(* What encode() makes of a byte: a char that stands for it, or a % and    *)
(* two digits.                                                             *)
Piece(b) ==
    CASE b \in Unreserved -> <<b>>
      [] b = 32 -> <<43>>
      [] OTHER -> <<37>> \o HexEncode(<<b>>, TRUE)
PieceOf(p, b) ==
    \/ Len(p) = 1 /\ p[1] # 37 /\ b = (IF p[1] = 43 THEN 32 ELSE p[1])
    \/ Len(p) = 3 /\ p[1] = 37 /\ b = HexByte(p[2], p[3])

(* A piece gives its byte again. *)
LEMMA PieceIs ==
    ASSUME NEW b \in 0..255
    PROVE  IsSeq(Piece(b)) /\ PieceOf(Piece(b), b)
<1>1. CASE b \in Unreserved
  <2>1. b # 37 /\ b # 43 /\ b # 32
    BY <1>1 DEF Unreserved
  <2>2. Piece(b) = <<b>>
    BY <1>1, <2>1 DEF Piece
  <2>3. QED
    BY <2>1, <2>2, OneElement DEF PieceOf
<1>2. CASE b \notin Unreserved /\ b = 32
  <2>1. Piece(b) = <<43>>
    BY <1>2 DEF Piece
  <2>2. QED
    BY <1>2, <2>1, OneElement DEF PieceOf
<1>3. CASE b \notin Unreserved /\ b # 32
  <2> DEFINE x == <<37>>
             o == <<b>>
             y == HexEncode(o, TRUE)
             p == x \o y
  <2>1. Piece(b) = p
    BY <1>3 DEF Piece
  <2>2. IsSeq(x) /\ Len(x) = 1 /\ x[1] = 37
    BY OneElement
  <2>3. IsSeq(o) /\ Len(o) = 1 /\ o[1] = b
    BY OneElement
  <2> HIDE DEF x, o
  <2>4. /\ IsSeq(y) /\ Len(y) = 2 * Len(o)
        /\ \A k \in 1..Len(o) : y[2 * k - 1] = HexDigit(o[k] \div 16, TRUE) /\ y[2 * k] = HexDigit(o[k] % 16, TRUE)
    BY <2>3, HexChars
  <2>5. Len(y) = 2 /\ y[1] = HexDigit(b \div 16, TRUE) /\ y[2] = HexDigit(b % 16, TRUE)
    <3>1. 1 \in 1..Len(o) /\ 2 * 1 - 1 = 1 /\ 2 * 1 = 2
      BY <2>3
    <3>2. y[2 * 1 - 1] = HexDigit(o[1] \div 16, TRUE) /\ y[2 * 1] = HexDigit(o[1] % 16, TRUE)
      BY <2>4, <3>1
    <3>3. QED
      BY <2>3, <2>4, <3>1, <3>2
  <2>6. IsSeq(y)
    BY <2>4
  <2> HIDE DEF y
  <2>7. /\ IsSeq(p) /\ Len(p) = Len(x) + Len(y)
        /\ \A j \in 1..Len(x) : p[j] = x[j]
        /\ \A j \in 1..Len(y) : p[Len(x) + j] = y[j]
    <3>1. IsSeq(x)
      BY <2>2
    <3>2. QED
      BY <2>6, <3>1, JoinedSeqs
  <2> HIDE DEF p
  <2>8. 1 \in 1..Len(x) /\ 1 \in 1..Len(y) /\ 2 \in 1..Len(y) /\ Len(x) + 1 = 2 /\ Len(x) + 2 = 3
    BY <2>2, <2>5
  <2>9. Len(p) = 3 /\ p[1] = 37 /\ p[2] = y[1] /\ p[3] = y[2]
    BY <2>2, <2>5, <2>7, <2>8
  <2>10. HexByte(p[2], p[3]) = b
    BY <2>5, <2>9, DigitsBack
  <2>11. QED
    BY <2>1, <2>7, <2>9, <2>10 DEF PieceOf
<1>4. QED
  BY <1>1, <1>2, <1>3

(* The pieces of a source. *)
LEMMA UrlPieces ==
    ASSUME NEW src, ByteSeq(src)
    PROVE  LET ps == [k \in DOMAIN src |-> Piece(src[k])] IN
           /\ AllSeqs(ps) /\ Len(ps) = Len(src) /\ UrlEncode(src) = FlattenSeq(ps)
           /\ \A k \in 1..Len(src) : PieceOf(ps[k], src[k])
<1> DEFINE ps == [k \in DOMAIN src |-> Piece(src[k])]
           n == Len(src)
<1>1. n \in Nat /\ DOMAIN src = 1..n
  BY SeqIsFunction DEF ByteSeq
<1>2. UrlEncode(src) = FlattenSeq(ps)
  BY DEF UrlEncode, Piece
<1>3. ps = [k \in 1..n |-> ps[k]] /\ \A k \in 1..n : ps[k] = Piece(src[k])
  BY <1>1
<1> HIDE DEF ps
<1>4. IsSeq(ps) /\ Len(ps) = n
  <2> HIDE DEF n
  <2>1. QED
    BY <1>1, <1>3, FunctionIsSeq
<1>5. ASSUME NEW k \in 1..n PROVE IsSeq(ps[k]) /\ PieceOf(ps[k], src[k])
  <2>1. src[k] \in 0..255
    BY DEF ByteSeq
  <2>2. QED
    BY <1>3, <2>1, PieceIs
<1>6. AllSeqs(ps)
  BY <1>4, <1>5 DEF AllSeqs
<1>7. QED
  BY <1>2, <1>4, <1>5, <1>6 DEF ps

(* encode() makes three chars of a byte at most. *)
LEMMA UrlSize ==
    ASSUME NEW src, ByteSeq(src)
    PROVE  IsSeq(UrlEncode(src)) /\ Len(UrlEncode(src)) <= 3 * Len(src)
<1> DEFINE ps == [k \in DOMAIN src |-> Piece(src[k])]
<1>1. /\ AllSeqs(ps) /\ Len(ps) = Len(src) /\ UrlEncode(src) = FlattenSeq(ps)
      /\ \A k \in 1..Len(src) : PieceOf(ps[k], src[k])
  BY UrlPieces
<1> HIDE DEF ps
<1>2. PICK f : Flat(f, ps) /\ FlattenSeq(ps) = f[Len(ps)]
  BY <1>1, FlatExists
<1>3. \A i \in 1..Len(ps) : Len(ps[i]) <= 3
  <2>1. ASSUME NEW i \in 1..Len(ps) PROVE Len(ps[i]) <= 3
    <3>1. PieceOf(ps[i], src[i])
      BY <1>1
    <3> DEFINE l == Len(ps[i])
    <3>2. l = 1 \/ l = 3
      BY <3>1 DEF PieceOf
    <3> HIDE DEF l
    <3>3. l <= 3
      BY <3>2
    <3>4. QED
      BY <3>3 DEF l
  <2>2. QED
    BY <2>1
<1>4. IsSeq(f[Len(ps)]) /\ Len(f[Len(ps)]) <= 3 * Len(ps)
  BY <1>1, <1>2, <1>3, FlatBound
<1>5. QED
  BY <1>1, <1>2, <1>4

(* What decode() has when it has read the first n pieces. *)
Done(x, src, n) ==
    /\ x.skip = 0 /\ IsSeq(x.out) /\ Len(x.out) = n
    /\ \A j \in 1..n : x.out[j] = src[j]

(* One more byte. *)
LEMMA DoneAppend ==
    ASSUME NEW x, NEW src, NEW n \in Nat, Done(x, src, n), NEW y, y.skip = 0,
           y.out = Append(x.out, src[n + 1])
    PROVE  Done(y, src, n + 1)
<1> DEFINE a == x.out
           e == src[n + 1]
           b == Append(a, e)
<1>1. IsSeq(a) /\ Len(a) = n
  BY DEF Done
<1> HIDE DEF a, e
<1>2. IsSeq(b) /\ Len(b) = Len(a) + 1 /\ b[Len(a) + 1] = e /\ \A i \in 1..Len(a) : b[i] = a[i]
  BY <1>1, Appended
<1>3. y.out = b
  BY DEF a, e
<1> HIDE DEF b
<1>4. ASSUME NEW j \in 1..(n + 1) PROVE b[j] = src[j]
  <2>1. CASE j = n + 1
    BY <1>1, <1>2, <2>1 DEF e
  <2>2. CASE j # n + 1
    <3>1. j \in 1..n
      BY <2>2
    <3>2. a[j] = src[j]
      BY <3>1 DEF Done, a
    <3>3. QED
      BY <1>1, <1>2, <3>1, <3>2
  <2>3. QED
    BY <2>1, <2>2
<1>5. QED
  BY <1>1, <1>2, <1>3, <1>4 DEF Done

(* A char that is skipped. *)
LEMMA SkipStep ==
    ASSUME NEW t, NEW wild, NEW acc, NEW k, acc.skip > 0
    PROVE  LET y == UrlAcc(t, wild, acc, k) IN y.skip = acc.skip - 1 /\ y.out = acc.out
<1>1. UrlAcc(t, wild, acc, k) = [skip |-> acc.skip - 1, out |-> acc.out]
  BY DEF UrlAcc
<1>2. QED
  BY <1>1

Percent(t, k) == t[k] = 37 /\ k + 1 <= Len(t) /\ k + 2 <= Len(t)
TwoRead(y, acc, t, k) == y.skip = 2 /\ y.out = Append(acc.out, HexByte(t[k + 1], t[k + 2]))

(* A % with two chars behind it. *)
LEMMA PercentStep ==
    ASSUME NEW t, NEW wild, NEW acc, NEW k, ~(acc.skip > 0), Percent(t, k)
    PROVE  TwoRead(UrlAcc(t, wild, acc, k), acc, t, k)
<1> USE DEF Percent
<1> DEFINE Char(j) == IF j <= Len(t) THEN t[j] ELSE wild
           b == HexByte(Char(k + 1), Char(k + 2))
<1>1. Char(k + 1) = t[k + 1] /\ Char(k + 2) = t[k + 2]
  OBVIOUS
<1>2. b = HexByte(t[k + 1], t[k + 2])
  BY <1>1
<1>3. UrlAcc(t, wild, acc, k) = [skip |-> 2, out |-> Append(acc.out, b)]
  BY DEF UrlAcc
<1> HIDE DEF b
<1>4. QED
  BY <1>2, <1>3 DEF TwoRead

(* decode() reads a piece. *)
LEMMA ReadPiece ==
    ASSUME NEW t, IsSeq(t), NEW wild, NEW r, UrlRead(r, t, wild, Len(t)),
           NEW src, NEW n \in Nat, NEW p \in Nat, Done(r[p], src, n),
           NEW c, PieceOf(c, src[n + 1]), p + Len(c) <= Len(t),
           \A j \in 1..Len(c) : t[p + j] = c[j]
    PROVE  Done(r[p + Len(c)], src, n + 1)
<1>1. Len(t) \in Nat
  BY SeqIsFunction
<1>2. \A k \in 1..Len(t) : r[k] = UrlAcc(t, wild, r[k - 1], k)
  BY ReadSteps
<1>3. r[p].skip = 0 /\ ~(r[p].skip > 0)
  BY DEF Done
<1>4. CASE Len(c) = 1 /\ c[1] # 37 /\ src[n + 1] = (IF c[1] = 43 THEN 32 ELSE c[1])
  <2> DEFINE e == src[n + 1]
  <2>1. p + 1 \in 1..Len(t) /\ (p + 1) - 1 = p /\ t[p + 1] = c[1]
    BY <1>1, <1>4
  <2>2. r[p + 1] = UrlAcc(t, wild, r[p], p + 1)
    BY <1>2, <2>1
  <2>3. t[p + 1] # 37 /\ e = IF t[p + 1] = 43 THEN 32 ELSE t[p + 1]
    BY <1>4, <2>1
  <2> HIDE DEF e
  <2>4. r[p + 1] = [skip |-> 0, out |-> Append(r[p].out, e)]
    BY <1>3, <2>2, <2>3 DEF UrlAcc
  <2>5. r[p + 1].skip = 0 /\ r[p + 1].out = Append(r[p].out, src[n + 1])
    BY <2>4 DEF e
  <2>6. Done(r[p + 1], src, n + 1)
    BY <2>5, DoneAppend
  <2>7. QED
    BY <1>4, <2>6
<1>5. CASE Len(c) = 3 /\ c[1] = 37 /\ src[n + 1] = HexByte(c[2], c[3])
  <2> DEFINE e == src[n + 1]
  <2>1. /\ p + 1 \in 1..Len(t) /\ (p + 1) - 1 = p
        /\ p + 2 \in 1..Len(t) /\ (p + 2) - 1 = p + 1 /\ (p + 1) + 1 = p + 2
        /\ p + 3 \in 1..Len(t) /\ (p + 3) - 1 = p + 2 /\ (p + 1) + 2 = p + 3
        /\ p + 2 <= Len(t) /\ p + 3 <= Len(t)
    BY <1>1, <1>5
  <2>2. t[p + 1] = 37 /\ t[p + 2] = c[2] /\ t[p + 3] = c[3]
    BY <1>5
  <2>3. /\ r[p + 1] = UrlAcc(t, wild, r[p], p + 1)
        /\ r[p + 2] = UrlAcc(t, wild, r[p + 1], p + 2)
        /\ r[p + 3] = UrlAcc(t, wild, r[p + 2], p + 3)
    BY <1>2, <2>1
  <2>4. e = HexByte(t[p + 2], t[p + 3])
    BY <1>5, <2>2
  <2> HIDE DEF e
  <2> DEFINE a == Append(r[p].out, e)
  <2>5. r[p + 1].skip = 2 /\ r[p + 1].out = a
    <3> DEFINE k == p + 1
    <3>1. t[k] = 37 /\ k + 1 <= Len(t) /\ k + 2 <= Len(t) /\ t[k + 1] = t[p + 2] /\ t[k + 2] = t[p + 3]
      BY <2>1, <2>2
    <3>2. r[k] = UrlAcc(t, wild, r[p], k)
      BY <2>3
    <3> HIDE DEF k
    <3>3. Percent(t, k)
      BY <3>1 DEF Percent
    <3>4. TwoRead(r[k], r[p], t, k)
      BY <1>3, <3>2, <3>3, PercentStep
    <3>5. QED
      BY <2>4, <3>1, <3>4 DEF k, TwoRead
  <2> HIDE DEF a
  <2>6. r[p + 2].skip = 1 /\ r[p + 2].out = a
    <3>1. r[p + 1].skip > 0
      BY <2>5
    <3>2. r[p + 2].skip = r[p + 1].skip - 1 /\ r[p + 2].out = r[p + 1].out
      BY <2>3, <3>1, SkipStep
    <3>3. QED
      BY <2>5, <3>2
  <2>7. r[p + 3].skip = 0 /\ r[p + 3].out = a
    <3>1. r[p + 2].skip > 0
      BY <2>6
    <3>2. r[p + 3].skip = r[p + 2].skip - 1 /\ r[p + 3].out = r[p + 2].out
      BY <2>3, <3>1, SkipStep
    <3>3. QED
      BY <2>6, <3>2
  <2>8. r[p + 3].skip = 0 /\ r[p + 3].out = Append(r[p].out, src[n + 1])
    BY <2>7 DEF a, e
  <2>9. Done(r[p + 3], src, n + 1)
    BY <2>8, DoneAppend
  <2>10. QED
    BY <1>5, <2>9
<1>6. QED
  BY <1>4, <1>5 DEF PieceOf

(* decode() of what encode() made of some bytes gives the bytes, whatever  *)
(* lies behind the text.                                                   *)
LEMMA UrlBack ==
    ASSUME NEW src, ByteSeq(src), NEW wild
    PROVE  UrlDecode(UrlEncode(src), wild).out = src
<1> DEFINE ps == [k \in DOMAIN src |-> Piece(src[k])]
           t == UrlEncode(src)
           N == Len(src)
<1>1. /\ AllSeqs(ps) /\ Len(ps) = N /\ t = FlattenSeq(ps)
      /\ \A k \in 1..N : PieceOf(ps[k], src[k])
  BY UrlPieces
<1>2. IsSeq(t) /\ IsSeq(src) /\ N \in Nat
  BY UrlSize, SeqIsFunction DEF ByteSeq
<1> HIDE DEF ps, t
<1>3. PICK f : Flat(f, ps) /\ t = f[N]
  BY <1>1, FlatExists
<1>4. /\ f[0] = <<>> /\ \A n \in 0..N : IsSeq(f[n]) /\ Len(f[n]) \in Nat
      /\ \A n \in 1..N : GrowsBy(f[n - 1], f[n], ps[n])
  <2>1. AllSeqs(ps) /\ Flat(f, ps) /\ N = Len(ps)
    BY <1>1, <1>3
  <2> HIDE DEF N
  <2>2. QED
    BY <2>1, FlatGrows
<1>5. ASSUME NEW n \in 1..N PROVE StandsAt(ps[n], Len(f[n - 1]), t)
  <2>1. AllSeqs(ps) /\ Flat(f, ps) /\ N = Len(ps) /\ t = f[N]
    BY <1>1, <1>3
  <2> HIDE DEF N
  <2>2. QED
    BY <2>1, FlatPlace
<1>6. PICK r : UrlRead(r, t, wild, Len(t)) /\ UrlDecode(t, wild) = r[Len(t)]
  BY <1>2, ReadExists
<1> DEFINE S == {n \in Nat : n <= N => Done(r[Len(f[n])], src, n)}
<1> HIDE DEF N
<1>7. 0 \in S
  <2>1. r[0] = Nought
    BY <1>2, <1>6, ReadSteps
  <2>2. Len(f[0]) = 0
    BY <1>4, NoElements
  <2>3. Done(Nought, src, 0)
    BY NoElements DEF Nought, Done
  <2>4. QED
    BY <2>1, <2>2, <2>3
<1>8. ASSUME NEW n \in Nat, n \in S PROVE n + 1 \in S
  <2>1. SUFFICES ASSUME n + 1 <= N PROVE Done(r[Len(f[n + 1])], src, n + 1)
    OBVIOUS
  <2>2. n + 1 \in 1..N /\ (n + 1) - 1 = n /\ n <= N /\ n \in 0..N
    BY <1>2, <2>1
  <2> DEFINE p == Len(f[n])
             c == ps[n + 1]
  <2>3. Done(r[p], src, n) /\ p \in Nat /\ PieceOf(c, src[n + 1])
    BY <1>1, <1>4, <1>8, <2>2 DEF N
  <2>4. p + Len(c) <= Len(t) /\ \A j \in 1..Len(c) : t[p + j] = c[j]
    <3>1. StandsAt(c, p, t)
      BY <1>5, <2>2
    <3> HIDE DEF c, p
    <3>2. QED
      BY <3>1 DEF StandsAt
  <2>5. Len(f[n + 1]) = p + Len(c)
    <3>1. GrowsBy(f[n], f[n + 1], ps[n + 1])
      BY <1>4, <2>2
    <3>2. QED
      BY <3>1 DEF GrowsBy
  <2> HIDE DEF p, c
  <2>6. Done(r[p + Len(c)], src, n + 1)
    BY <1>2, <1>6, <2>3, <2>4, ReadPiece
  <2>7. QED
    BY <2>5, <2>6
<1>9. N \in S
  <2> HIDE DEF S
  <2>1. QED
    BY <1>2, <1>7, <1>8, NatSets
<1>10. Done(r[Len(t)], src, N)
  BY <1>2, <1>3, <1>9
<1> DEFINE o == UrlDecode(t, wild).out
<1>11. IsSeq(o) /\ Len(o) = N /\ \A j \in 1..N : o[j] = src[j]
  BY <1>6, <1>10 DEF Done
<1> HIDE DEF o
<1>12. o = src
  BY <1>2, <1>11, SameSeqs DEF N
<1>13. QED
  BY <1>12 DEF o, t

-----------------------------------------------------------------------------
(* A text is what encode() made of the source, or a foreign one; decode()  *)
(* has not written before it is called.                                    *)
TextInv ==
    /\ codec \in Codecs /\ IsSeq(text)
    /\ textPhase = "idle" => ~foreign
    /\ textPhase \in {"idle", "text"} => decoded = <<>> /\ ~overread
    /\ textPhase # "idle" /\ ~foreign => ByteSeq(source) /\ text = Encoded(codec, source)
    /\ RoundTrip /\ DecodeInBounds

(* The members of SeqOf() are sequences. *)
LEMMA BoundedText ==
    ASSUME NEW B, NEW m \in Nat, NEW s \in SeqOf(B, m)
    PROVE  IsSeq(s) /\ \A k \in 1..Len(s) : s[k] \in B
<1>1. PICK n \in 0..m : s \in [1..n -> B]
  BY DEF SeqOf
<1>2. n \in Nat /\ s = [k \in 1..n |-> s[k]] /\ \A k \in 1..n : s[k] \in B
  BY <1>1
<1>3. IsSeq(s) /\ Len(s) = n
  BY <1>2, FunctionIsSeq
<1>4. QED
  BY <1>2, <1>3

(* The vector that is made for decode(). *)
LEMMA DecodedSizeNat ==
    ASSUME NEW c \in Codecs, NEW n \in Nat
    PROVE  DecodedSize(c, n) \in Nat
<1>1. (3 * RoundUp(n, 4)) \div 4 \in Nat
  BY FoursOf
<1>2. n \div 2 \in Nat
  OBVIOUS
<1>3. QED
  BY <1>1, <1>2 DEF Codecs, DecodedSize

(* encode() makes a text that fits the string that was made for it. *)
LEMMA EncodedFits ==
    ASSUME NEW c \in Codecs, NEW src, ByteSeq(src)
    PROVE  IsSeq(Encoded(c, src)) /\ Len(Encoded(c, src)) <= EncodedSize(c, Len(src))
<1> DEFINE n == Len(src)
<1>1. IsSeq(src) /\ n \in Nat
  BY SeqIsFunction DEF ByteSeq
<1>2. CASE c = "base64"
  <2> DEFINE G == Groups(n)
  <2>1. Encoded(c, src) = Base64Encode(src) /\ EncodedSize(c, n) = (4 * RoundUp(n, 3)) \div 3
    BY <1>2 DEF Encoded, EncodedSize
  <2>2. G \in Nat /\ RoundUp(n, 3) = 3 * G
    BY <1>1, GroupsOf
  <2>3. IsSeq(Base64Encode(src)) /\ Len(Base64Encode(src)) = 4 * G
    BY <1>1, EncodedLength
  <2> HIDE DEF G
  <2>4. (4 * (3 * G)) \div 3 = 4 * G /\ 4 * G \in Nat
    BY <2>2
  <2>5. QED
    BY <2>1, <2>2, <2>3, <2>4
<1>3. CASE c \in {"hex", "HEX"}
  <2>1. Encoded(c, src) = HexEncode(src, c = "HEX") /\ EncodedSize(c, n) = 2 * n
    BY <1>3 DEF Encoded, EncodedSize
  <2>2. IsSeq(HexEncode(src, c = "HEX")) /\ Len(HexEncode(src, c = "HEX")) = 2 * n
    BY <1>1, HexChars
  <2>3. QED
    BY <1>1, <2>1, <2>2
<1>4. CASE c = "url"
  <2>1. Encoded(c, src) = UrlEncode(src) /\ EncodedSize(c, n) = 3 * n
    BY <1>4 DEF Encoded, EncodedSize
  <2>2. QED
    BY <2>1, UrlSize
<1>5. QED
  BY <1>2, <1>3, <1>4 DEF Codecs

(* encode() and a text from elsewhere. *)
LEMMA TextArrives ==
    ASSUME TextInv, NEW c \in Codecs, NEW src, NEW t, Encode(c, src) \/ ForeignText(c, t),
           ByteSeq(src), IsSeq(t)
    PROVE  TextInv'
<1>1. /\ codec' = c /\ textPhase' = "text" /\ textPhase = "idle"
      /\ decoded' = decoded /\ overread' = overread
  BY DEF Encode, ForeignText
<1>2. decoded' = <<>> /\ ~overread'
  BY <1>1 DEF TextInv
<1>3. /\ IsSeq(text')
      /\ ~foreign' => /\ ByteSeq(source') /\ text' = Encoded(codec', source')
                      /\ Len(text') <= EncodedSize(codec', Len(source'))
  <2>1. CASE Encode(c, src)
    <3>1. text' = Encoded(c, src) /\ source' = src /\ codec' = c
      BY <2>1 DEF Encode
    <3>2. QED
      BY <3>1, EncodedFits
  <2>2. CASE ForeignText(c, t)
    BY <2>2 DEF ForeignText
  <2>3. QED
    BY <2>1, <2>2
<1>4. RoundTrip'
  BY <1>1, <1>3 DEF RoundTrip
<1>5. DecodeInBounds'
  <2>1. Len(text') \in Nat
    BY <1>3, SeqIsFunction
  <2>2. DecodedSize(c, Len(text')) \in Nat
    BY <2>1, DecodedSizeNat
  <2>3. Len(decoded') <= DecodedSize(codec', Len(text'))
    BY <1>1, <1>2, <2>2, NoElements
  <2>4. QED
    BY <1>2, <2>3 DEF DecodeInBounds
<1>6. QED
  BY <1>1, <1>2, <1>3, <1>4, <1>5 DEF TextInv

(* What decode() writes, and when it looks outside. *)
DecodeRight(c, t, d, over) ==
    /\ Len(d) <= DecodedSize(c, Len(t))
    /\ over =>
        \/ c = "base64" /\ \E k \in DOMAIN t : t[k] >= 128
        \/ c = "url" /\ \E k \in DOMAIN t : t[k] = 37 /\ k > Len(t) - 2

(* base64::decode(). *)
LEMMA DecodesBase64 ==
    ASSUME NEW t, IsSeq(t), NEW wild
    PROVE  DecodeRight("base64", t, Base64Decode(t, wild), Base64Decode(t, 0) # Base64Decode(t, 255))
<1>1. Len(Base64Decode(t, wild)) <= DecodedSize("base64", Len(t))
  BY Base64Size DEF DecodedSize
<1>2. ASSUME Base64Decode(t, 0) # Base64Decode(t, 255) PROVE \E k \in DOMAIN t : t[k] >= 128
  <2>1. SUFFICES ASSUME ~(\E k \in DOMAIN t : t[k] >= 128) PROVE FALSE
    OBVIOUS
  <2>2. DOMAIN t = 1..Len(t)
    BY SeqIsFunction
  <2>3. \A k \in 1..Len(t) : ~(t[k] >= 128)
    BY <2>1, <2>2
  <2>4. QED
    BY <1>2, <2>3, Base64Reads
<1>3. QED
  BY <1>1, <1>2 DEF DecodeRight

(* url::decode(). *)
LEMMA DecodesUrl ==
    ASSUME NEW t, IsSeq(t), NEW wild
    PROVE  DecodeRight("url", t, UrlDecode(t, wild).out, UrlDecode(t, wild).skip > 0)
<1> DEFINE x == UrlDecode(t, wild)
           n == Len(t)
<1>1. ReadOk(x, t, n)
  BY UrlReads
<1>2. n \in Nat /\ DOMAIN t = 1..n
  BY SeqIsFunction
<1> HIDE DEF x, n
<1>3. Len(x.out) <= n /\ DecodedSize("url", n) = n
  BY <1>1 DEF ReadOk, DecodedSize
<1>4. ASSUME x.skip > 0 PROVE \E k \in DOMAIN t : t[k] = 37 /\ k > n - 2
  <2>1. x.skip = 1 \/ x.skip = 2
    BY <1>1, <1>4 DEF ReadOk
  <2>2. CASE x.skip = 2
    <3>1. n >= 1 /\ t[n] = 37
      BY <1>1, <2>2 DEF ReadOk
    <3>2. n \in DOMAIN t /\ n > n - 2
      BY <1>2, <3>1
    <3>3. QED
      BY <3>1, <3>2
  <2>3. CASE x.skip = 1
    <3>1. n >= 2 /\ t[n - 1] = 37
      BY <1>1, <2>3 DEF ReadOk
    <3>2. n - 1 \in DOMAIN t /\ n - 1 > n - 2
      BY <1>2, <3>1
    <3>3. QED
      BY <3>1, <3>2
  <2>4. QED
    BY <2>1, <2>2, <2>3
<1>5. QED
  BY <1>3, <1>4 DEF DecodeRight, x, n

(* decode(). *)
LEMMA TextDecoded ==
    ASSUME TextInv, Decode
    PROVE  TextInv'
<1>1. /\ codec' = codec /\ source' = source /\ foreign' = foreign /\ text' = text
      /\ textPhase = "text" /\ textPhase' \in {"decoded", "threw"}
  BY DEF Decode
<1>2. codec \in Codecs /\ IsSeq(text) /\ ~overread
  BY <1>1 DEF TextInv
<1>3. ~foreign => /\ ByteSeq(source) /\ text = Encoded(codec, source)
                  /\ Len(text) <= EncodedSize(codec, Len(source))
  BY <1>1 DEF TextInv, RoundTrip
<1>4. PICK wild \in {0, 65, 255} :
        CASE codec = "base64" ->
               /\ decoded' = Base64Decode(text, wild)
               /\ overread' = (Base64Decode(text, 0) # Base64Decode(text, 255))
          [] codec = "url" ->
               /\ decoded' = UrlDecode(text, wild).out
               /\ overread' = (UrlDecode(text, wild).skip > 0)
          [] OTHER ->
               /\ decoded' = IF textPhase' = "threw" THEN <<>> ELSE HexDecode(text)
               /\ UNCHANGED overread
  BY DEF Decode
<1>5. /\ DecodeRight(codec, text, decoded', overread')
      /\ ~foreign /\ textPhase' = "decoded" => decoded' = source
  <2>1. CASE codec = "base64"
    <3>1. decoded' = Base64Decode(text, wild) /\ overread' = (Base64Decode(text, 0) # Base64Decode(text, 255))
      BY <1>4, <2>1
    <3>2. DecodeRight("base64", text, Base64Decode(text, wild), Base64Decode(text, 0) # Base64Decode(text, 255))
      BY <1>2, DecodesBase64
    <3>3. ~foreign => text = Base64Encode(source) /\ ByteSeq(source)
      BY <1>3, <2>1 DEF Encoded
    <3>4. ~foreign => Base64Decode(text, wild) = source
      BY <3>3, Base64Back
    <3>5. QED
      BY <2>1, <3>1, <3>2, <3>4
  <2>2. CASE codec = "url"
    <3>1. decoded' = UrlDecode(text, wild).out /\ overread' = (UrlDecode(text, wild).skip > 0)
      BY <1>4, <2>2
    <3>2. DecodeRight("url", text, UrlDecode(text, wild).out, UrlDecode(text, wild).skip > 0)
      BY <1>2, DecodesUrl
    <3>3. ~foreign => text = UrlEncode(source) /\ ByteSeq(source)
      BY <1>3, <2>2 DEF Encoded
    <3>4. ~foreign => UrlDecode(text, wild).out = source
      BY <3>3, UrlBack
    <3>5. QED
      BY <2>2, <3>1, <3>2, <3>4
  <2>3. CASE codec \in {"hex", "HEX"}
    <3>1. decoded' = (IF textPhase' = "threw" THEN <<>> ELSE HexDecode(text)) /\ overread' = overread
      BY <1>4, <2>3
    <3>2. IsSeq(HexDecode(text)) /\ Len(HexDecode(text)) = Len(text) \div 2 /\ Len(text) \div 2 \in Nat
      <4>1. Len(text) \in Nat
        BY <1>2, SeqIsFunction
      <4>2. QED
        BY <1>2, <4>1, HexSize
    <3>3. DecodedSize(codec, Len(text)) = Len(text) \div 2
      BY <2>3 DEF DecodedSize
    <3>4. Len(decoded') <= Len(text) \div 2
      <4> DEFINE h == Len(text) \div 2
      <4>1. h \in Nat /\ Len(HexDecode(text)) = h
        BY <3>2
      <4> HIDE DEF h
      <4>2. Len(decoded') <= h
        BY <3>1, <4>1, NoElements
      <4>3. QED
        BY <4>2 DEF h
    <3>5. DecodeRight(codec, text, decoded', overread')
      BY <1>2, <3>1, <3>3, <3>4 DEF DecodeRight
    <3>6. ~foreign => text = HexEncode(source, codec = "HEX") /\ ByteSeq(source)
      BY <1>3, <2>3 DEF Encoded
    <3>7. ~foreign => HexDecode(text) = source
      BY <3>6, HexBack
    <3>8. QED
      BY <3>1, <3>5, <3>7
  <2>4. QED
    BY <1>2, <2>1, <2>2, <2>3 DEF Codecs
<1>6. DecodeInBounds'
  BY <1>1, <1>5 DEF DecodeRight, DecodeInBounds
<1>7. RoundTrip'
  BY <1>1, <1>3, <1>5 DEF RoundTrip
<1>8. QED
  BY <1>1, <1>2, <1>3, <1>6, <1>7 DEF TextInv

(* The invariant holds at first, and every step of the part in use keeps   *)
(* it.                                                                     *)
LEMMA TextHolds == UtilitiesSpec => []TextInv
<1>1. UtilitiesInit => TextInv
  <2> SUFFICES ASSUME UtilitiesInit PROVE TextInv
    OBVIOUS
  <2>1. /\ codec = "base64" /\ ~foreign /\ textPhase = "idle"
        /\ text = <<>> /\ decoded = <<>> /\ ~overread
    BY DEF UtilitiesInit, TextInit
  <2>2. DecodedSize("base64", 0) \in Nat /\ "base64" \in Codecs
    BY DecodedSizeNat DEF Codecs
  <2>3. DecodeInBounds
    BY <2>1, <2>2, NoElements DEF DecodeInBounds
  <2>4. QED
    BY <2>1, <2>2, <2>3, NoElements DEF TextInv, RoundTrip
<1>2. TextInv /\ [UtilitiesNext]_utilityVars => TextInv'
  <2> SUFFICES ASSUME TextInv, [UtilitiesNext]_utilityVars PROVE TextInv'
    OBVIOUS
  <2>1. TextNext \/ UNCHANGED textVars
    BY DEF UtilitiesNext, utilityVars, Only
  <2>2. CASE \E c \in Codecs, src \in SeqOf(SourceBytes, MaxSource) : Encode(c, src)
    <3>1. PICK c \in Codecs, src \in SeqOf(SourceBytes, MaxSource) : Encode(c, src)
      BY <2>2
    <3>2. IsSeq(src) /\ \A k \in 1..Len(src) : src[k] \in SourceBytes
      BY BoundedText, TextAssumption
    <3>3. ByteSeq(src) /\ IsSeq(<<>>)
      BY <3>2, TextAssumption, NoElements DEF ByteSeq
    <3>4. QED
      BY <3>1, <3>3, TextArrives
  <2>3. CASE \E c \in Codecs \ {"HEX"}, t \in SeqOf(TextChars, MaxText) : ForeignText(c, t)
    <3>1. PICK c \in Codecs \ {"HEX"}, t \in SeqOf(TextChars, MaxText) : ForeignText(c, t)
      BY <2>3
    <3>2. IsSeq(t) /\ c \in Codecs
      BY BoundedText, TextAssumption
    <3>3. ByteSeq(<<>>)
      BY NoElements DEF ByteSeq
    <3>4. QED
      BY <3>1, <3>2, <3>3, TextArrives
  <2>4. CASE Decode
    BY <2>4, TextDecoded
  <2>5. CASE UNCHANGED textVars
    BY <2>5 DEF textVars, TextInv, RoundTrip, DecodeInBounds
  <2>6. QED
    BY <2>1, <2>2, <2>3, <2>4, <2>5 DEF TextNext
<1>3. QED
  BY <1>1, <1>2, PTL DEF UtilitiesSpec

(* base64, hex and url, for every source: decode() undoes encode(), byte   *)
(* for byte and whatever lies behind the text, and encode() fits the       *)
(* string that was made for it.                                            *)
THEOREM TextRoundTrip == UtilitiesSpec => []RoundTrip
<1>1. TextInv => RoundTrip
  BY DEF TextInv
<1>2. QED
  BY <1>1, TextHolds, PTL

(* And for every text, whoever made it: decode() writes no more than the   *)
(* vector holds, and reads outside only where a char of 128 and above      *)
(* (base64) or a % among the last two chars (url) makes it.                *)
THEOREM TextInBounds == UtilitiesSpec => []DecodeInBounds
<1>1. TextInv => DecodeInBounds
  BY DEF TextInv
<1>2. QED
  BY <1>1, TextHolds, PTL

(* The buffers of a program are those of Buffer whatever the other parts   *)
(* do, so what is proved of Spec holds of UtilitiesSpec.                   *)
LEMMA BuffersOfUtilities == UtilitiesSpec => Spec
<1>1. UtilitiesInit => Init
  BY DEF UtilitiesInit
<1>2. [UtilitiesNext]_utilityVars => [Next]_vars
  <2>1. UNCHANGED utilityVars => UNCHANGED vars
    BY DEF utilityVars
  <2>2. UtilitiesNext => Next \/ UNCHANGED vars
    BY DEF UtilitiesNext, Only
  <2>3. QED
    BY <2>1, <2>2
<1>3. QED
  BY <1>1, <1>2, PTL DEF UtilitiesSpec, Spec
=============================================================================
