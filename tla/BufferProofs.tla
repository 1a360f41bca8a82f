---------------------------- MODULE BufferProofs ----------------------------
(***************************************************************************)
(* The reference counting of ez::buffer is right for every set of handles, *)
(* every set of addresses and every size.  The invariant is inductive as a *)
(* conjunction: use-after-free freedom needs the counts, and the counts    *)
(* need that no handle dangles.  The window needs that position and size   *)
(* are within the array, each by itself, and that the impls whose position *)
(* is behind their size are those that were shrunk.                        *)
(***************************************************************************)
EXTENDS Buffer, FiniteSetTheorems, TLAPS

WindowLimits ==
    \A i \in alloc :
        /\ m_position[i] <= m_orig_size[i] /\ m_size[i] <= m_orig_size[i]
        /\ i \in shrunk <=> m_size[i] < m_position[i]

IInv ==
    /\ TypeOK
    /\ RefsCountHandles
    /\ NoUseAfterFree
    /\ ArraysFollowImpls
    /\ WindowLimits

-----------------------------------------------------------------------------
(* Sharers(i) is a finite set: its cardinality is a number, and it is zero  *)
(* only when no handle points to i.                                        *)
LEMMA SharersFinite ==
    ASSUME NEW i
    PROVE  /\ IsFiniteSet(Sharers(i))
           /\ Cardinality(Sharers(i)) \in Nat
           /\ Cardinality(Sharers(i)) = 0 <=> Sharers(i) = {}
           /\ Cardinality(Sharers(i)) = 1 <=> \E h : Sharers(i) = {h}
<1>1. Sharers(i) \in SUBSET Handles
  BY DEF Sharers
<1>2. IsFiniteSet(Sharers(i))
  BY <1>1, HandlesAssumption, FS_Subset
<1>3. QED
  BY <1>2, FS_CardinalityType, FS_EmptySet, FS_Singleton

(* Pointing handle h at x moves it from one set of sharers to another:     *)
(* what every copy, assignment and destruction does to the counts.         *)
LEMMA SharersMove ==
    ASSUME TypeOK, NEW h \in Handles, NEW x,
           m_impl' = [m_impl EXCEPT ![h] = x],
           NEW i
    PROVE  /\ IsFiniteSet(Sharers(i)') /\ Cardinality(Sharers(i)') \in Nat
           /\ Cardinality(Sharers(i)') = 0 <=> Sharers(i)' = {}
           /\ Cardinality(Sharers(i)') =
                IF i = x
                THEN IF m_impl[h] = i THEN Cardinality(Sharers(i))
                                      ELSE Cardinality(Sharers(i)) + 1
                ELSE IF m_impl[h] = i THEN Cardinality(Sharers(i)) - 1
                                      ELSE Cardinality(Sharers(i))
<1>1. IsFiniteSet(Sharers(i))
  BY SharersFinite
<1>2. h \in Sharers(i) <=> m_impl[h] = i
  BY DEF Sharers
<1>3. Sharers(i)' = IF i = x THEN Sharers(i) \cup {h} ELSE Sharers(i) \ {h}
  BY DEF Sharers, TypeOK
<1>4. CASE i = x
  BY <1>1, <1>2, <1>3, <1>4, FS_AddElement, FS_CardinalityType, FS_EmptySet
<1>5. CASE i # x
  BY <1>1, <1>2, <1>3, <1>5, FS_RemoveElement, FS_CardinalityType, FS_EmptySet
<1>6. QED
  BY <1>4, <1>5

(* When the counts are right, the impl behind a constructed handle is      *)
(* allocated and deleted by its own last reference only.                   *)
LEMMA CountsAt ==
    ASSUME TypeOK, RefsCountHandles, NEW h \in Handles, Constructed(h)
    PROVE  /\ m_impl[h] \in alloc
           /\ m_impl[h] \in Impls
           /\ m_refs[m_impl[h]] \in Nat
           /\ m_refs[m_impl[h]] = Cardinality(Sharers(m_impl[h]))
           /\ m_refs[m_impl[h]] > 0
  BY SharersFinite DEF TypeOK, RefsCountHandles, Constructed

-----------------------------------------------------------------------------
(* Before any constructor has run there is nothing to count. *)
LEMMA InitInv == Init => IInv
<1> SUFFICES ASSUME Init PROVE IInv
  OBVIOUS
<1>1. TypeOK
  <2>1. 0 \in Sizes
    BY MaxSizeAssumption DEF Sizes
  <2>2. m_own_data \in [Impls -> BOOLEAN] /\ fault \in BOOLEAN
    BY Zenon DEF Init
  <2>3. QED
    BY <2>1, <2>2 DEF Init, TypeOK
<1>2. RefsCountHandles /\ ArraysFollowImpls /\ WindowLimits
  BY DEF Init, RefsCountHandles, ArraysFollowImpls, WindowLimits, Constructed
<1>3. NoUseAfterFree
  BY DEF Init, NoUseAfterFree
<1>4. QED
  BY <1>1, <1>2, <1>3 DEF IInv

(* A constructor takes an address no handle can still point to. *)
LEMMA NewImplInv ==
    ASSUME IInv, NEW h \in Handles, ~Constructed(h), NEW n \in Sizes,
           NEW data \in BOOLEAN, NEW own \in BOOLEAN,
           data => own, own /\ ~data => n = 0,
           NewImpl(h, n, data, own)
    PROVE  IInv'
<1>0. PICK i \in Impls \ alloc :
        /\ m_impl' = [m_impl EXCEPT ![h] = i]
        /\ alloc' = alloc \cup {i}
        /\ owned' = IF data THEN owned \cup {i} ELSE owned
        /\ m_refs' = [m_refs EXCEPT ![i] = 1]
        /\ m_size' = [m_size EXCEPT ![i] = n]
        /\ m_orig_size' = [m_orig_size EXCEPT ![i] = n]
        /\ m_position' = [m_position EXCEPT ![i] = 0]
        /\ m_own_data' = [m_own_data EXCEPT ![i] = own]
        /\ shrunk' = shrunk \ {i}
        /\ fault' = fault
  BY DEF NewImpl
<1>1. TypeOK'
  BY <1>0, MaxSizeAssumption DEF IInv, TypeOK, Sizes
<1>2. RefsCountHandles'
  <2>1. \A g \in Handles : Constructed(g)' => m_impl'[g] \in alloc'
    BY <1>0 DEF IInv, TypeOK, RefsCountHandles, Constructed
  <2>2. ASSUME NEW j \in alloc'
        PROVE  m_refs'[j] = Cardinality(Sharers(j)') /\ m_refs'[j] > 0
    <3>1. CASE j = i
      <4>1. m_impl[h] # i /\ Sharers(i) = {}
        BY NoneAssumption DEF IInv, RefsCountHandles, Constructed, Sharers
      <4>2. Cardinality(Sharers(i)) = 0
        BY <4>1, SharersFinite
      <4>3. Cardinality(Sharers(i)') = Cardinality(Sharers(i)) + 1
        BY <1>0, <4>1, SharersMove DEF IInv
      <4>4. QED
        BY <1>0, <3>1, <4>2, <4>3 DEF IInv, TypeOK
    <3>2. CASE j # i
      <4>1. j \in alloc /\ m_impl[h] # j
        BY <1>0, <3>2, NoneAssumption DEF IInv, TypeOK, Constructed
      <4>2. Cardinality(Sharers(j)') = Cardinality(Sharers(j))
        BY <1>0, <3>2, <4>1, SharersMove DEF IInv
      <4>3. QED
        BY <1>0, <3>2, <4>1, <4>2 DEF IInv, TypeOK, RefsCountHandles
    <3>3. QED
      BY <3>1, <3>2
  <2>3. QED
    BY <2>1, <2>2 DEF RefsCountHandles
<1>3. NoUseAfterFree'
  BY <1>0 DEF IInv, NoUseAfterFree
<1>4. ArraysFollowImpls'
  BY <1>0 DEF IInv, TypeOK, ArraysFollowImpls, Sizes
<1>5. WindowLimits'
  BY <1>0, MaxSizeAssumption DEF IInv, TypeOK, WindowLimits, Sizes
<1>6. QED
  BY <1>1, <1>2, <1>3, <1>4, <1>5 DEF IInv

(* The copy constructor adds one sharer and one reference to one impl. *)
LEMMA CopyConstructInv ==
    ASSUME IInv, NEW h \in Handles, NEW src \in Handles, CopyConstruct(h, src)
    PROVE  IInv'
<1> DEFINE r == m_impl[src]
<1>1. r \in alloc /\ r \in Impls /\ m_refs[r] \in Nat /\ m_impl[h] = None
  BY CountsAt DEF IInv, CopyConstruct, Constructed
<1>2. TypeOK'
  BY <1>1 DEF IInv, TypeOK, CopyConstruct, meta
<1>3. RefsCountHandles'
  <2>1. \A g \in Handles : Constructed(g)' => m_impl'[g] \in alloc'
    BY <1>1 DEF IInv, TypeOK, RefsCountHandles, Constructed, CopyConstruct
  <2>2. ASSUME NEW j \in alloc'
        PROVE  m_refs'[j] = Cardinality(Sharers(j)') /\ m_refs'[j] > 0
    <3>1. j \in alloc /\ j \in Impls /\ m_impl[h] # j
      BY <1>1, NoneAssumption DEF IInv, TypeOK, CopyConstruct
    <3>2. Cardinality(Sharers(j)') = IF j = r THEN Cardinality(Sharers(j)) + 1
                                              ELSE Cardinality(Sharers(j))
      BY <3>1, SharersMove DEF IInv, CopyConstruct
    <3>3. m_refs'[j] = IF j = r THEN m_refs[j] + 1 ELSE m_refs[j]
      BY <3>1, <1>1 DEF IInv, TypeOK, CopyConstruct
    <3>4. m_refs[j] = Cardinality(Sharers(j)) /\ m_refs[j] > 0 /\ m_refs[j] \in Int
      BY <3>1 DEF IInv, TypeOK, RefsCountHandles
    <3>5. QED
      BY <3>2, <3>3, <3>4
  <2>3. QED
    BY <2>1, <2>2 DEF RefsCountHandles
<1>4. NoUseAfterFree'
  BY <1>1 DEF IInv, NoUseAfterFree, CopyConstruct
<1>5. ArraysFollowImpls' /\ WindowLimits'
  BY DEF IInv, ArraysFollowImpls, WindowLimits, CopyConstruct, meta
<1>6. QED
  BY <1>2, <1>3, <1>4, <1>5 DEF IInv

(* Releasing the left-hand side cannot delete the impl that the right-hand *)
(* side holds: if both sides share it, it has at least two references.     *)
LEMMA AssignInv ==
    ASSUME IInv, NEW h \in Handles, NEW src \in Handles, Assign(h, src)
    PROVE  IInv'
<1> DEFINE l == m_impl[h]
           r == m_impl[src]
<1>1. /\ l \in alloc /\ l \in Impls /\ m_refs[l] \in Nat /\ m_refs[l] > 0
      /\ r \in alloc /\ r \in Impls /\ m_refs[r] \in Nat /\ m_refs[r] > 0
      /\ m_refs[l] = Cardinality(Sharers(l))
  BY CountsAt DEF IInv, Assign
<1>2. Deletes(l) => Sharers(l) = {h}
  <2>1. h \in Sharers(l)
    BY DEF Sharers
  <2>2. QED
    BY <1>1, <2>1, SharersFinite DEF Deletes
<1>3. Deletes(l) => l # r
  <2>1. src \in Sharers(r) /\ h # src
    BY DEF Sharers, Assign
  <2>2. QED
    BY <1>2, <2>1
<1>4. r \in alloc' /\ alloc' = AllocAfterDec(l)
  BY <1>1, <1>3 DEF Assign, AllocAfterDec
<1>5. TypeOK'
  BY <1>1 DEF IInv, TypeOK, Assign, AllocAfterDec, OwnedAfterDec, RefsAfterDec, meta
<1>6. RefsCountHandles'
  <2>1. ASSUME NEW g \in Handles, Constructed(g)'
        PROVE  m_impl'[g] \in alloc'
    <3>1. CASE g = h
      BY <1>4, <3>1 DEF IInv, TypeOK, Assign
    <3>2. CASE g # h
      <4>1. m_impl'[g] = m_impl[g] /\ m_impl[g] \in alloc
        BY <2>1, <3>2 DEF IInv, TypeOK, Assign, RefsCountHandles, Constructed
      <4>2. Deletes(l) => m_impl[g] # l
        BY <1>2, <3>2 DEF Sharers
      <4>3. QED
        BY <4>1, <4>2, <1>4 DEF AllocAfterDec
    <3>3. QED
      BY <3>1, <3>2
  <2>2. ASSUME NEW j \in alloc'
        PROVE  m_refs'[j] = Cardinality(Sharers(j)') /\ m_refs'[j] > 0
    <3>1. j \in alloc /\ j \in Impls
      BY <1>4 DEF AllocAfterDec, IInv, TypeOK
    <3>2. /\ m_refs[j] = Cardinality(Sharers(j))
          /\ m_refs[j] > 0 /\ m_refs[j] \in Int
      BY <3>1 DEF IInv, TypeOK, RefsCountHandles
    <3>3. Cardinality(Sharers(j)') =
            IF j = r THEN IF l = j THEN Cardinality(Sharers(j))
                                   ELSE Cardinality(Sharers(j)) + 1
                     ELSE IF l = j THEN Cardinality(Sharers(j)) - 1
                                   ELSE Cardinality(Sharers(j))
      BY SharersMove DEF IInv, Assign
    <3>4. m_refs'[j] = IF j = r THEN IF l = j THEN m_refs[j] ELSE m_refs[j] + 1
                                ELSE IF l = j THEN m_refs[j] - 1 ELSE m_refs[j]
      BY <1>1, <3>1 DEF IInv, TypeOK, Assign, RefsAfterDec
    <3>5. j = l => ~Deletes(l)
      BY <1>4 DEF AllocAfterDec
    <3>6. QED
      BY <3>2, <3>3, <3>4, <3>5, <1>1 DEF Deletes
  <2>3. QED
    BY <2>1, <2>2 DEF RefsCountHandles
<1>7. NoUseAfterFree'
  BY <1>1, <1>4 DEF IInv, NoUseAfterFree, Assign
<1>8. ArraysFollowImpls'
  BY <1>1, <1>4 DEF IInv, TypeOK, ArraysFollowImpls, Assign, AllocAfterDec, OwnedAfterDec, meta
<1>9. WindowLimits'
  BY <1>4 DEF IInv, WindowLimits, Assign, AllocAfterDec, meta
<1>10. QED
  BY <1>5, <1>6, <1>7, <1>8, <1>9 DEF IInv

(* The destructor takes away one sharer and one reference, and the impl    *)
(* with the last of them.                                                  *)
LEMMA DestroyInv ==
    ASSUME IInv, NEW h \in Handles, Destroy(h)
    PROVE  IInv'
<1> DEFINE i == m_impl[h]
<1>1. /\ i \in alloc /\ i \in Impls /\ m_refs[i] \in Nat /\ m_refs[i] > 0
      /\ m_refs[i] = Cardinality(Sharers(i))
      /\ i # None
  BY CountsAt, NoneAssumption DEF IInv, Destroy
<1>2. Deletes(i) => Sharers(i) = {h}
  <2>1. h \in Sharers(i)
    BY DEF Sharers
  <2>2. QED
    BY <1>1, <2>1, SharersFinite DEF Deletes
<1>3. TypeOK'
  BY <1>1 DEF IInv, TypeOK, Destroy, AllocAfterDec, OwnedAfterDec, RefsAfterDec, meta
<1>4. RefsCountHandles'
  <2>1. ASSUME NEW g \in Handles, Constructed(g)'
        PROVE  m_impl'[g] \in alloc'
    <3>1. g # h
      BY <2>1 DEF IInv, TypeOK, Destroy, Constructed
    <3>2. m_impl'[g] = m_impl[g] /\ m_impl[g] \in alloc
      BY <2>1, <3>1 DEF IInv, TypeOK, Destroy, RefsCountHandles, Constructed
    <3>3. Deletes(i) => m_impl[g] # i
      BY <1>2, <3>1 DEF Sharers
    <3>4. QED
      BY <3>2, <3>3 DEF Destroy, AllocAfterDec
  <2>2. ASSUME NEW j \in alloc'
        PROVE  m_refs'[j] = Cardinality(Sharers(j)') /\ m_refs'[j] > 0
    <3>1. j \in alloc /\ j \in Impls /\ j # None
      BY NoneAssumption DEF AllocAfterDec, IInv, TypeOK, Destroy
    <3>2. /\ m_refs[j] = Cardinality(Sharers(j))
          /\ m_refs[j] > 0 /\ m_refs[j] \in Int
      BY <3>1 DEF IInv, TypeOK, RefsCountHandles
    <3>3. Cardinality(Sharers(j)') = IF i = j THEN Cardinality(Sharers(j)) - 1
                                              ELSE Cardinality(Sharers(j))
      BY <3>1, SharersMove DEF IInv, Destroy
    <3>4. m_refs'[j] = IF i = j THEN m_refs[j] - 1 ELSE m_refs[j]
      BY <1>1, <3>1 DEF IInv, TypeOK, Destroy, RefsAfterDec
    <3>5. j = i => ~Deletes(i)
      BY DEF Destroy, AllocAfterDec
    <3>6. QED
      BY <3>2, <3>3, <3>4, <3>5, <1>1 DEF Deletes
  <2>3. QED
    BY <2>1, <2>2 DEF RefsCountHandles
<1>5. NoUseAfterFree'
  BY <1>1 DEF IInv, NoUseAfterFree, Destroy
<1>6. ArraysFollowImpls'
  BY <1>1 DEF IInv, TypeOK, ArraysFollowImpls, Destroy, AllocAfterDec, OwnedAfterDec, meta
<1>7. WindowLimits'
  BY DEF IInv, WindowLimits, Destroy, AllocAfterDec, meta
<1>8. QED
  BY <1>3, <1>4, <1>5, <1>6, <1>7 DEF IInv

(* set_size() and set_position() touch one impl's window only. *)
LEMMA WindowInv ==
    ASSUME IInv, NEW h \in Handles, NEW n \in Sizes,
           SetSize(h, n) \/ SetPosition(h, n)
    PROVE  IInv'
<1>1. m_impl[h] \in alloc /\ m_impl[h] \in Impls
  BY CountsAt DEF IInv, SetSize, SetPosition
<1>2. TypeOK'
  BY <1>1 DEF IInv, TypeOK, SetSize, SetPosition, Clamped, Accepted
<1>3. RefsCountHandles'
  BY DEF IInv, RefsCountHandles, Sharers, Constructed, SetSize, SetPosition
<1>4. NoUseAfterFree'
  BY <1>1 DEF IInv, NoUseAfterFree, SetSize, SetPosition
<1>5. ArraysFollowImpls'
  BY DEF IInv, ArraysFollowImpls, SetSize, SetPosition
<1>6. WindowLimits'
  <2>1. \A i \in alloc : m_size[i] \in Nat /\ m_position[i] \in Nat /\ m_orig_size[i] \in Nat
    BY MaxSizeAssumption DEF IInv, TypeOK, Sizes
  <2>2. n \in Nat
    BY MaxSizeAssumption DEF Sizes
  <2>3. CASE SetSize(h, n)
    BY <1>1, <2>1, <2>2, <2>3 DEF IInv, TypeOK, WindowLimits, SetSize, Accepted
  <2>4. CASE SetPosition(h, n)
    BY <1>1, <2>1, <2>2, <2>4 DEF IInv, TypeOK, WindowLimits, SetPosition, Clamped
  <2>5. QED
    BY <2>3, <2>4
<1>7. QED
  BY <1>2, <1>3, <1>4, <1>5, <1>6 DEF IInv

(* Every operation of the class keeps the invariant. *)
LEMMA NextInv == IInv /\ [Next]_vars => IInv'
<1> SUFFICES ASSUME IInv, [Next]_vars PROVE IInv'
  OBVIOUS
<1>1. CASE UNCHANGED vars
  BY <1>1 DEF vars, IInv, TypeOK, RefsCountHandles, NoUseAfterFree,
              ArraysFollowImpls, WindowLimits, Sharers, Constructed
<1>2. ASSUME NEW h \in Handles, ConstructEmpty(h) PROVE IInv'
  <2>1. 0 \in Sizes
    BY MaxSizeAssumption DEF Sizes
  <2>2. QED
    BY <1>2, <2>1, NewImplInv DEF ConstructEmpty
<1>3. ASSUME NEW h \in Handles, NEW n \in Sizes, ConstructCopying(h, n) PROVE IInv'
  BY <1>3, NewImplInv DEF ConstructCopying
<1>4. ASSUME NEW h \in Handles, NEW n \in Sizes, ConstructBorrowing(h, n) PROVE IInv'
  BY <1>4, NewImplInv DEF ConstructBorrowing
<1>5. QED
  BY <1>1, <1>2, <1>3, <1>4, CopyConstructInv, AssignInv, DestroyInv, WindowInv DEF Next

-----------------------------------------------------------------------------
(* Every reachable state of the buffer class counts its handles exactly,   *)
(* for any number of handles and impls (dec_ref, operator=).               *)
THEOREM RefCounting == Spec => []RefsCountHandles
<1>1. IInv => RefsCountHandles
  BY DEF IInv
<1>2. QED
  BY <1>1, InitInv, NextInv, PTL DEF Spec

(* No operation of the class touches a deleted impl. *)
THEOREM MemorySafety == Spec => []NoUseAfterFree
<1>1. IInv => NoUseAfterFree
  BY DEF IInv
<1>2. QED
  BY <1>1, InitInv, NextInv, PTL DEF Spec

(* Arrays the class allocated live as long as their impl and borrowed      *)
(* arrays are never deleted.                                               *)
THEOREM NoArrayLeak == Spec => []ArraysFollowImpls
<1>1. IInv => ArraysFollowImpls
  BY DEF IInv
<1>2. QED
  BY <1>1, InitInv, NextInv, PTL DEF Spec

(* Readers of ptr() and size() stay in the array of a buffer except, and   *)
(* exactly, while its size was last set to less than its position.         *)
THEOREM WindowSafety == Spec => [](TypeOK /\ WindowInArray)
<1>1. IInv => TypeOK /\ WindowInArray
  <2> SUFFICES ASSUME IInv, NEW i \in alloc
               PROVE  m_position[i] + Size(i) <= m_orig_size[i] <=> i \notin shrunk
    BY DEF IInv, WindowInArray
  <2>1. /\ m_size[i] \in Nat /\ m_position[i] \in Nat /\ m_orig_size[i] \in Nat
        /\ m_orig_size[i] <= MaxSize
    BY MaxSizeAssumption DEF IInv, TypeOK, Sizes
  <2>2. QED
    BY <2>1, MaxSizeAssumption, SizeRangeAssumption DEF IInv, WindowLimits, Size
<1>2. QED
  BY <1>1, InitInv, NextInv, PTL DEF Spec

(* A step deletes an impl only when it takes away its last handle. *)
THEOREM LastHandleDeletes == Spec => DeletedByLastHandle
<1> DEFINE A == \A i \in alloc \ alloc' :
                    \E h \in Handles : Sharers(i) = {h} /\ m_impl'[h] # i
<1>1. IInv /\ [Next]_vars => [A]_vars
  <2> SUFFICES ASSUME IInv, Next, NEW i \in alloc, i \notin alloc'
               PROVE  \E h \in Handles : Sharers(i) = {h} /\ m_impl'[h] # i
    OBVIOUS
  <2>1. PICK h \in Handles :
          \/ Destroy(h)
          \/ \E src \in Handles : Assign(h, src)
    BY DEF Next, ConstructEmpty, ConstructCopying, ConstructBorrowing, NewImpl,
           SetSize, SetPosition, CopyConstruct
  <2>2. Constructed(h) /\ i = m_impl[h] /\ Deletes(i)
    BY <2>1 DEF Destroy, Assign, AllocAfterDec
  <2>3. Sharers(i) = {h}
    <3>1. h \in Sharers(i)
      BY <2>2 DEF Sharers
    <3>2. Cardinality(Sharers(i)) = 1
      BY <2>2, CountsAt DEF IInv, Deletes
    <3>3. QED
      BY <3>1, <3>2, SharersFinite
  <2>4. m_impl'[h] # i
    <3>1. CASE Destroy(h)
      BY <3>1, <2>2, NoneAssumption DEF Destroy, IInv, TypeOK
    <3>2. ASSUME NEW src \in Handles, Assign(h, src) PROVE m_impl'[h] # i
      <4>1. m_impl'[h] = m_impl[src] /\ src # h
        BY <3>2 DEF Assign, IInv, TypeOK
      <4>2. QED
        BY <4>1, <2>3 DEF Sharers
    <3>3. QED
      BY <2>1, <3>1, <3>2
  <2>5. QED
    BY <2>3, <2>4
<1>2. QED
  BY <1>1, InitInv, NextInv, PTL DEF Spec, DeletedByLastHandle
=============================================================================
