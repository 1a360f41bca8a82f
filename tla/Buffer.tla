------------------------------- MODULE Buffer -------------------------------
(***************************************************************************)
(* ez::buffer (source/buffer.cpp): a handle class over a heap allocated,   *)
(* reference counted `impl'.  Copies share the impl, so they share the     *)
(* bytes AND the size and position that set_size()/set_position() change.  *)
(*                                                                         *)
(* A C++ object of type buffer is a handle h.  The program may construct,  *)
(* copy, assign and destroy handles in any order; the memory the impls     *)
(* live in is finite and an address is reused once it has been deleted.    *)
(* The constructor from std::string_view (lines 91-98) is left out: it     *)
(* writes through an uninitialised pointer, so no successor state means    *)
(* anything.  m_refs is a plain integer: the model is of one thread.       *)
(***************************************************************************)
EXTENDS Integers, FiniteSets

CONSTANTS
    Handles,    \* the C++ variables of type buffer
    Impls,      \* the addresses `new impl' can return
    None,       \* the handle is not a constructed object
    MaxSize,    \* bound on the sizes the program asks for
    SizeRange   \* values of size_t, in which size() is computed

ASSUME HandlesAssumption == IsFiniteSet(Handles)
ASSUME NoneAssumption == None \notin Impls
ASSUME MaxSizeAssumption == MaxSize \in Nat
ASSUME SizeRangeAssumption == SizeRange \in Nat /\ SizeRange > MaxSize

VARIABLES
    m_impl,     \* h :> address of its impl, or None when h is not constructed
    alloc,      \* addresses whose impl is allocated
    owned,      \* addresses whose m_data array was allocated by the impl
    m_refs, m_size, m_orig_size, m_position, m_own_data,
    fault,      \* an operation has touched an impl that was already deleted
    shrunk      \* impls whose window was last set by a set_size() to less
                \* than the position, through whichever handle

vars == <<m_impl, alloc, owned, m_refs, m_size, m_orig_size, m_position,
          m_own_data, fault, shrunk>>

meta == <<m_size, m_orig_size, m_position, m_own_data, shrunk>>

Sizes == 0..MaxSize

TypeOK ==
    /\ m_impl \in [Handles -> Impls \cup {None}]
    /\ alloc \subseteq Impls
    /\ owned \subseteq Impls
    /\ m_refs \in [Impls -> Int]
    /\ m_size \in [Impls -> Sizes]
    /\ m_orig_size \in [Impls -> Sizes]
    /\ m_position \in [Impls -> Sizes]
    /\ m_own_data \in [Impls -> BOOLEAN]
    /\ fault \in BOOLEAN
    /\ shrunk \subseteq Impls

Init ==
    /\ m_impl = [h \in Handles |-> None]
    /\ alloc = {}
    /\ owned = {}
    /\ m_refs = [i \in Impls |-> 0]
    /\ m_size = [i \in Impls |-> 0]
    /\ m_orig_size = [i \in Impls |-> 0]
    /\ m_position = [i \in Impls |-> 0]
    /\ m_own_data = [i \in Impls |-> TRUE]
    /\ fault = FALSE
    /\ shrunk = {}

Constructed(h) == m_impl[h] # None

-----------------------------------------------------------------------------
(* What a constructor leaves in a new impl: `data' says that it allocated  *)
(* an array of its own, `own' is m_own_data (the default constructor owns  *)
(* a null array).                                                          *)
NewImpl(h, n, data, own) ==
    \E i \in Impls \ alloc :
        /\ m_impl' = [m_impl EXCEPT ![h] = i]
        /\ alloc' = alloc \cup {i}
        /\ owned' = IF data THEN owned \cup {i} ELSE owned
        /\ m_refs' = [m_refs EXCEPT ![i] = 1]
        /\ m_size' = [m_size EXCEPT ![i] = n]
        /\ m_orig_size' = [m_orig_size EXCEPT ![i] = n]
        /\ m_position' = [m_position EXCEPT ![i] = 0]
        /\ m_own_data' = [m_own_data EXCEPT ![i] = own]
        /\ shrunk' = shrunk \ {i}
        /\ UNCHANGED fault

(* buffer(): no array, m_own_data keeps its default.                       *)
ConstructEmpty(h) ==
    /\ ~Constructed(h)
    /\ NewImpl(h, 0, FALSE, TRUE)

(* The constructors that copy: from a size, vector, string, char*, and     *)
(* (data, size, copy = true).                                              *)
ConstructCopying(h, n) ==
    /\ ~Constructed(h)
    /\ NewImpl(h, n, TRUE, TRUE)

(* buffer(data, size, false): borrows the caller's array.                  *)
ConstructBorrowing(h, n) ==
    /\ ~Constructed(h)
    /\ NewImpl(h, n, FALSE, FALSE)

-----------------------------------------------------------------------------
(* Mutant: deletes when one other reference is left. *)
DeletesEarly(i) == m_refs[i] - 1 <= 1

(* dec_ref(): the last reference deletes the array, if owned, and the impl. *)
Deletes(i) == m_refs[i] - 1 = 0
AllocAfterDec(i) == IF Deletes(i) THEN alloc \ {i} ELSE alloc
(* Mutant: the impl is deleted without its array. *)
OwnedAfterDecLeak(i) == owned

OwnedAfterDec(i) == IF Deletes(i) /\ m_own_data[i] THEN owned \ {i} ELSE owned
RefsAfterDec(i) == [m_refs EXCEPT ![i] = @ - 1]

(* Mutant: the copy does not take a reference. *)
CopyConstructNoRef(h, src) ==
    /\ ~Constructed(h) /\ Constructed(src)
    /\ m_impl' = [m_impl EXCEPT ![h] = m_impl[src]]
    /\ fault' = (fault \/ m_impl[src] \notin alloc)
    /\ UNCHANGED <<alloc, owned, m_refs, meta>>

(* buffer(const buffer&): m_impl is null, then operator= finds nothing to  *)
(* release and shares the source's impl.                                   *)
CopyConstruct(h, src) ==
    LET r == m_impl[src] IN
    /\ ~Constructed(h) /\ Constructed(src)
    /\ m_impl' = [m_impl EXCEPT ![h] = r]
    /\ m_refs' = [m_refs EXCEPT ![r] = @ + 1]
    /\ fault' = (fault \/ r \notin alloc)
    /\ UNCHANGED <<alloc, owned, meta>>

(* operator=: release the old impl first, then take a reference on the     *)
(* right-hand side's, which must have survived that release.               *)
Assign(h, src) ==
    LET l == m_impl[h]
        r == m_impl[src] IN
    /\ Constructed(h) /\ Constructed(src) /\ h # src
    /\ alloc' = AllocAfterDec(l)
    /\ owned' = OwnedAfterDec(l)
    /\ m_refs' = [RefsAfterDec(l) EXCEPT ![r] = @ + 1]
    /\ m_impl' = [m_impl EXCEPT ![h] = r]
    /\ fault' = (fault \/ l \notin alloc \/ r \notin AllocAfterDec(l))
    /\ UNCHANGED meta

(* ~buffer() *)
Destroy(h) ==
    LET i == m_impl[h] IN
    /\ Constructed(h)
    /\ alloc' = AllocAfterDec(i)
    /\ owned' = OwnedAfterDec(i)
    /\ m_refs' = RefsAfterDec(i)
    /\ m_impl' = [m_impl EXCEPT ![h] = None]
    /\ fault' = (fault \/ i \notin alloc)
    /\ UNCHANGED meta

(* size() subtracts in size_t: with the position behind the size it wraps. *)
Size(i) == IF m_position[i] <= m_size[i] THEN m_size[i] - m_position[i]
           ELSE SizeRange + m_size[i] - m_position[i]

(* Mutant: any size is accepted. *)
AcceptedAny(i, n) == TRUE

(* set_size() ignores a size above the one the buffer was made with.  It   *)
(* does not look at the position.                                          *)
Accepted(i, n) == n <= m_orig_size[i]

SetSize(h, n) ==
    LET i == m_impl[h] IN
    /\ Constructed(h)
    /\ m_size' = IF Accepted(i, n) THEN [m_size EXCEPT ![i] = n] ELSE m_size
    /\ shrunk' = CASE ~Accepted(i, n) -> shrunk
                   [] Accepted(i, n) /\ n < m_position[i] -> shrunk \cup {i}
                   [] OTHER -> shrunk \ {i}
    /\ fault' = (fault \/ i \notin alloc)
    /\ UNCHANGED <<m_impl, alloc, owned, m_refs, m_orig_size, m_position, m_own_data>>

(* Mutant: the limit is the array. *)
ClampedToArray(i, n) == IF n > m_orig_size[i] THEN m_orig_size[i] ELSE n

(* set_position() clamps to the current size, from wherever it was. *)
Clamped(i, n) == IF n > m_size[i] THEN m_size[i] ELSE n

SetPosition(h, n) ==
    LET i == m_impl[h] IN
    /\ Constructed(h)
    /\ m_position' = [m_position EXCEPT ![i] = Clamped(i, n)]
    /\ shrunk' = shrunk \ {i}
    /\ fault' = (fault \/ i \notin alloc)
    /\ UNCHANGED <<m_impl, alloc, owned, m_refs, m_size, m_orig_size, m_own_data>>

Next ==
    \E h \in Handles :
        \/ ConstructEmpty(h)
        \/ Destroy(h)
        \/ \E n \in Sizes :
              \/ ConstructCopying(h, n)
              \/ ConstructBorrowing(h, n)
              \/ SetSize(h, n)
              \/ SetPosition(h, n)
        \/ \E src \in Handles : CopyConstruct(h, src) \/ Assign(h, src)

Spec == Init /\ [][Next]_vars

-----------------------------------------------------------------------------
Sharers(i) == {h \in Handles : m_impl[h] = i}

(* The reference count of every allocated impl is the number of handles    *)
(* that share it, and no handle points to a deleted impl, so dec_ref()     *)
(* neither deletes early nor leaks.                                        *)
RefsCountHandles ==
    /\ \A h \in Handles : Constructed(h) => m_impl[h] \in alloc
    /\ \A i \in alloc : m_refs[i] = Cardinality(Sharers(i)) /\ m_refs[i] > 0

(* No operation ever touched a deleted impl: in particular operator= may   *)
(* release before it takes the new reference, even when both sides share.  *)
NoUseAfterFree == ~fault

(* The arrays the class allocated are exactly those of allocated impls: a  *)
(* borrowed array is never deleted and an owned one never outlives its     *)
(* impl (dec_ref's m_own_data test).                                       *)
ArraysFollowImpls ==
    /\ owned \subseteq {i \in alloc : m_own_data[i]}
    /\ \A i \in alloc : m_own_data[i] /\ m_orig_size[i] > 0 => i \in owned

(* Readers of a buffer touch size() bytes from ptr() on.  They stay in the *)
(* array the buffer was made with, in every order in which sizes and       *)
(* positions are set through handles that share it, except between a       *)
(* set_size() to less than the position and the next call that sets the    *)
(* position, or a size that reaches it: then, and only then, size() has    *)
(* wrapped and they run out of it.                                         *)
WindowInArray ==
    \A i \in alloc : m_position[i] + Size(i) <= m_orig_size[i] <=> i \notin shrunk

(* An impl is deleted only by the step that takes away its last handle.    *)
DeletedByLastHandle ==
    [][\A i \in alloc \ alloc' : \E h \in Handles : Sharers(i) = {h} /\ m_impl'[h] # i]_vars
=============================================================================
