--------------------------- MODULE SequenceFacts ---------------------------
(***************************************************************************)
(* Facts about sequences and about quotients that the proofs of several    *)
(* components rest on.                                                     *)
(***************************************************************************)
EXTENDS Integers, Sequences, SequenceTheorems, WellFoundedInduction, TLAPS

(* Induction over the naturals, for the set of those that have a property. *)
LEMMA NatSets ==
    ASSUME NEW S, 0 \in S, \A n \in Nat : n \in S => n + 1 \in S
    PROVE  Nat \subseteq S
<1> DEFINE R == {p \in Nat \X Nat : p[1] < p[2]}
           T == Nat \ S
<1>1. SUFFICES ASSUME T # {} PROVE FALSE
  OBVIOUS
<1>2. IsWellFoundedOn(R, Nat) /\ T \subseteq Nat
  BY NatLessThanWellFounded DEF OpToRel
<1> HIDE DEF R, T
<1>3. PICK x \in T : \A y \in T : ~(<<y, x>> \in R)
  BY <1>1, <1>2, WFMin
<1>4. x \in Nat /\ x # 0 /\ x - 1 \in Nat /\ x - 1 < x /\ (x - 1) + 1 = x /\ x \notin S
  BY DEF T
<1>5. <<x - 1, x>> \in R
  BY <1>4 DEF R
<1>6. x - 1 \in S
  BY <1>3, <1>4, <1>5 DEF T
<1>7. QED
  BY <1>4, <1>6

IsSeq(s) == s \in Seq({s[j] : j \in DOMAIN s})

(* A function on 1..N is a sequence of length N. *)
LEMMA FunctionIsSeq ==
    ASSUME NEW N \in Nat, NEW f, f = [k \in 1..N |-> f[k]]
    PROVE  IsSeq(f) /\ Len(f) = N
<1> DEFINE A == {f[j] : j \in DOMAIN f}
<1>1. f \in [1..N -> A] /\ DOMAIN f = 1..N
  <2>1. DOMAIN f = 1..N
    BY Zenon
  <2>2. QED
    BY <2>1
<1> HIDE DEF A
<1>2. f \in Seq(A)
  BY <1>1, SeqDef
<1>3. Len(f) = N
  <2>1. DOMAIN f = 1..Len(f) /\ Len(f) \in Nat
    BY <1>2, LenProperties
  <2>2. QED
    BY <1>1, <2>1
<1>4. QED
  BY <1>2, <1>3 DEF IsSeq, A

(* The elements of a concatenation. *)
LEMMA Joined ==
    ASSUME NEW V, NEW s \in Seq(V), NEW t \in Seq(V)
    PROVE  /\ s \o t \in Seq(V) /\ Len(s \o t) = Len(s) + Len(t)
           /\ Len(s) \in Nat /\ Len(t) \in Nat
           /\ \A j \in 1..Len(s) : (s \o t)[j] = s[j]
           /\ \A j \in 1..Len(t) : (s \o t)[Len(s) + j] = t[j]
<1>1. Len(s) \in Nat /\ Len(t) \in Nat
  BY LenProperties
<1>2. /\ s \o t \in Seq(V) /\ Len(s \o t) = Len(s) + Len(t)
      /\ \A j \in 1..(Len(s) + Len(t)) : (s \o t)[j] = IF j <= Len(s) THEN s[j] ELSE t[j - Len(s)]
  BY ConcatProperties
<1>3. \A j \in 1..Len(s) : (s \o t)[j] = s[j]
  BY <1>1, <1>2
<1>4. ASSUME NEW j \in 1..Len(t) PROVE (s \o t)[Len(s) + j] = t[j]
  <2>1. /\ Len(s) + j \in 1..(Len(s) + Len(t)) /\ ~(Len(s) + j <= Len(s))
        /\ (Len(s) + j) - Len(s) = j
    BY <1>1
  <2>2. QED
    BY <1>2, <2>1
<1>5. QED
  BY <1>1, <1>2, <1>3, <1>4

(* A sequence with one more element. *)
LEMMA Appended ==
    ASSUME NEW s, IsSeq(s), NEW m
    PROVE  /\ IsSeq(Append(s, m)) /\ Len(Append(s, m)) = Len(s) + 1
           /\ Len(s) \in Nat /\ Append(s, m)[Len(s) + 1] = m
           /\ \A i \in 1..Len(s) : Append(s, m)[i] = s[i]
<1> DEFINE A == {s[j] : j \in DOMAIN s}
           S == A \cup {m}
           t == Append(s, m)
<1>1. s \in Seq(S) /\ m \in S
  <2>1. s \in Seq(A) /\ A \subseteq S /\ m \in S
    BY DEF IsSeq
  <2> HIDE DEF S, A
  <2>2. QED
    BY <2>1, SeqMonotonic
<1> HIDE DEF S
<1>2. /\ t \in Seq(S) /\ Len(t) = Len(s) + 1 /\ t[Len(s) + 1] = m /\ Len(s) \in Nat
      /\ \A i \in 1..Len(s) : t[i] = s[i]
  BY <1>1, AppendProperties, LenProperties
<1> HIDE DEF t
<1>3. Len(t) \in Nat /\ t = [j \in 1..Len(t) |-> t[j]]
  <2>1. Len(t) \in Nat /\ DOMAIN t = 1..Len(t) /\ t \in [1..Len(t) -> S]
    BY <1>2, LenProperties
  <2>2. QED
    BY <2>1
<1>4. IsSeq(t)
  BY <1>3, FunctionIsSeq
<1>5. QED
  BY <1>2, <1>4 DEF t

(* Two sequences joined, whatever they hold. *)
LEMMA JoinedSeqs ==
    ASSUME NEW s, IsSeq(s), NEW t, IsSeq(t)
    PROVE  /\ IsSeq(s \o t) /\ Len(s \o t) = Len(s) + Len(t)
           /\ \A j \in 1..Len(s) : (s \o t)[j] = s[j]
           /\ \A j \in 1..Len(t) : (s \o t)[Len(s) + j] = t[j]
<1> DEFINE A == {s[j] : j \in DOMAIN s} \cup {t[j] : j \in DOMAIN t}
           w == s \o t
<1>1. s \in Seq(A) /\ t \in Seq(A)
  <2>1. ASSUME NEW D, NEW u \in Seq(D), D \subseteq A PROVE u \in Seq(A)
    <3> HIDE DEF A
    <3>1. QED
      BY <2>1, SeqMonotonic
  <2>2. QED
    BY <2>1 DEF IsSeq
<1> HIDE DEF A
<1>2. /\ w \in Seq(A) /\ Len(w) = Len(s) + Len(t)
      /\ \A j \in 1..Len(s) : w[j] = s[j]
      /\ \A j \in 1..Len(t) : w[Len(s) + j] = t[j]
  BY <1>1, Joined
<1> HIDE DEF w
<1>3. Len(w) \in Nat /\ w = [j \in 1..Len(w) |-> w[j]]
  <2>1. Len(w) \in Nat /\ DOMAIN w = 1..Len(w) /\ w \in [1..Len(w) -> A]
    BY <1>2, LenProperties
  <2>2. QED
    BY <2>1
<1>4. IsSeq(w)
  BY <1>3, FunctionIsSeq
<1>5. QED
  BY <1>2, <1>4 DEF w

(* A sequence is a function on the numbers up to its length. *)
LEMMA SeqIsFunction ==
    ASSUME NEW s, IsSeq(s)
    PROVE  Len(s) \in Nat /\ DOMAIN s = 1..Len(s) /\ s = [j \in 1..Len(s) |-> s[j]]
<1> DEFINE A == {s[j] : j \in DOMAIN s}
<1>1. s \in Seq(A)
  BY DEF IsSeq
<1> HIDE DEF A
<1>2. Len(s) \in Nat /\ DOMAIN s = 1..Len(s) /\ s \in [1..Len(s) -> A]
  BY <1>1, LenProperties
<1>3. QED
  BY <1>2

(* Two sequences with the same elements are the same. *)
LEMMA SameSeqs ==
    ASSUME NEW s, IsSeq(s), NEW t, IsSeq(t), Len(s) = Len(t),
           \A j \in 1..Len(s) : s[j] = t[j]
    PROVE  s = t
<1>1. s = [j \in 1..Len(s) |-> s[j]] /\ t = [j \in 1..Len(t) |-> t[j]]
  BY SeqIsFunction
<1>2. QED
  BY <1>1

(* The elements of a part of a sequence. *)
LEMMA Sliced ==
    ASSUME NEW s, NEW m \in Int, NEW n \in Int
    PROVE  /\ IsSeq(SubSeq(s, m, n))
           /\ Len(SubSeq(s, m, n)) = IF m <= n THEN (n - m) + 1 ELSE 0
           /\ \A i \in 1..((n - m) + 1) : SubSeq(s, m, n)[i] = s[m + i - 1]
<1> DEFINE A == {s[i] : i \in m..n}
           t == SubSeq(s, m, n)
<1>1. \A i \in m..n : s[i] \in A
  OBVIOUS
<1> HIDE DEF A
<1>2. /\ t \in Seq(A) /\ Len(t) = IF m <= n THEN (n - m) + 1 ELSE 0
      /\ \A i \in 1..((n - m) + 1) : t[i] = s[m + i - 1]
  BY <1>1, SubSeqProperties
<1> HIDE DEF t
<1>3. Len(t) \in Nat /\ t = [j \in 1..Len(t) |-> t[j]]
  <2>1. Len(t) \in Nat /\ DOMAIN t = 1..Len(t) /\ t \in [1..Len(t) -> A]
    BY <1>2, LenProperties
  <2>2. QED
    BY <2>1
<1>4. IsSeq(t)
  BY <1>3, FunctionIsSeq
<1>5. QED
  BY <1>2, <1>4 DEF t

(* The empty sequence. *)
LEMMA NoElements == IsSeq(<<>>) /\ Len(<<>>) = 0 /\ \A s : IsSeq(s) /\ Len(s) = 0 => s = <<>>
<1>1. IsSeq(<<>>) /\ Len(<<>>) = 0
  BY EmptySeq DEF IsSeq
<1>2. ASSUME NEW s, IsSeq(s), Len(s) = 0 PROVE s = <<>>
  BY <1>1, <1>2, SameSeqs
<1>3. QED
  BY <1>1, <1>2

(* It does not matter in which order three sequences are joined. *)
LEMMA JoinedAgain ==
    ASSUME NEW a, IsSeq(a), NEW b, IsSeq(b), NEW c, IsSeq(c)
    PROVE  (a \o b) \o c = a \o (b \o c)
<1> DEFINE V == {a[j] : j \in DOMAIN a} \cup {b[j] : j \in DOMAIN b} \cup {c[j] : j \in DOMAIN c}
<1>1. a \in Seq(V) /\ b \in Seq(V) /\ c \in Seq(V)
  <2>1. ASSUME NEW D, NEW s \in Seq(D), D \subseteq V PROVE s \in Seq(V)
    <3> HIDE DEF V
    <3>1. QED
      BY <2>1, SeqMonotonic
  <2>2. QED
    BY <2>1 DEF IsSeq
<1> HIDE DEF V
<1>2. QED
  BY <1>1, ConcatAssociative

(* Nothing in front of a sequence. *)
LEMMA NothingBefore ==
    ASSUME NEW s, IsSeq(s)
    PROVE  <<>> \o s = s
<1>1. s \in Seq({s[j] : j \in DOMAIN s})
  BY DEF IsSeq
<1>2. QED
  BY <1>1, ConcatEmptySeq

(* A sequence is what its two parts make. *)
LEMMA CutInTwo ==
    ASSUME NEW s, IsSeq(s), NEW n \in 0..Len(s)
    PROVE  s = SubSeq(s, 1, n) \o SubSeq(s, n + 1, Len(s))
<1> DEFINE a == SubSeq(s, 1, n)
           b == SubSeq(s, n + 1, Len(s))
<1>1. Len(s) \in Nat /\ n \in Nat /\ n <= Len(s)
  BY SeqIsFunction
<1>2. IsSeq(a) /\ Len(a) = n /\ \A i \in 1..n : a[i] = s[i]
  <2>1. IsSeq(a) /\ Len(a) = (IF 1 <= n THEN (n - 1) + 1 ELSE 0)
        /\ \A i \in 1..((n - 1) + 1) : a[i] = s[1 + i - 1]
    BY <1>1, Sliced
  <2> HIDE DEF a
  <2>2. QED
    BY <1>1, <2>1
<1>3. IsSeq(b) /\ Len(b) = Len(s) - n /\ \A i \in 1..(Len(s) - n) : b[i] = s[n + i]
  <2> DEFINE from == n + 1
             to == Len(s)
  <2>1. from \in Int /\ to \in Int
    BY <1>1
  <2> HIDE DEF from, to
  <2>2. /\ IsSeq(SubSeq(s, from, to))
        /\ Len(SubSeq(s, from, to)) = (IF from <= to THEN (to - from) + 1 ELSE 0)
        /\ \A i \in 1..((to - from) + 1) : SubSeq(s, from, to)[i] = s[from + i - 1]
    BY <2>1, Sliced
  <2> USE DEF from, to
  <2> HIDE DEF b
  <2>3. IsSeq(b) /\ Len(b) = Len(s) - n
    BY <1>1, <2>2 DEF b
  <2>4. ASSUME NEW i \in 1..(Len(s) - n) PROVE b[i] = s[n + i]
    <3>1. i \in 1..((to - from) + 1) /\ from + i - 1 = n + i
      BY <1>1
    <3>2. QED
      BY <2>2, <3>1 DEF b
  <2>5. QED
    BY <2>3, <2>4
<1> HIDE DEF a, b
<1>4. /\ IsSeq(a \o b) /\ Len(a \o b) = Len(a) + Len(b)
      /\ \A j \in 1..Len(a) : (a \o b)[j] = a[j]
      /\ \A j \in 1..Len(b) : (a \o b)[Len(a) + j] = b[j]
  <2>1. IsSeq(a) /\ IsSeq(b)
    BY <1>2, <1>3
  <2>2. QED
    BY <2>1, JoinedSeqs
<1>5. ASSUME NEW j \in 1..Len(s) PROVE (a \o b)[j] = s[j]
  <2>1. ASSUME j <= n PROVE (a \o b)[j] = s[j]
    <3>1. j \in 1..n /\ j \in 1..Len(a)
      BY <1>1, <1>2, <2>1
    <3>2. QED
      BY <1>2, <1>4, <3>1
  <2>2. ASSUME j > n PROVE (a \o b)[j] = s[j]
    <3>1. j - n \in 1..(Len(s) - n) /\ n + (j - n) = j
      BY <1>1, <2>2
    <3>2. (a \o b)[Len(a) + (j - n)] = b[j - n] /\ b[j - n] = s[n + (j - n)]
      BY <1>3, <1>4, <3>1
    <3>3. QED
      BY <1>2, <3>1, <3>2
  <2>3. j <= n \/ j > n
    BY <1>1
  <2>4. QED
    BY <2>1, <2>2, <2>3
<1>6. Len(a \o b) = Len(s)
  BY <1>1, <1>2, <1>3, <1>4
<1>7. a \o b = s
  BY <1>4, <1>5, <1>6, SameSeqs
<1>8. QED
  BY <1>7 DEF a, b

-----------------------------------------------------------------------------

(* One block more. *)
LEMMA OneMore ==
    ASSUME NEW B \in Nat, NEW q \in Nat
    PROVE  q * B \in Nat /\ (q + 1) * B = q * B + B
  OBVIOUS

Divided(x, B, q, r) == B \in Nat \ {0} /\ q \in Nat /\ r \in 0..(B - 1) /\ x = q * B + r

(* Quotient and remainder are determined. *)
LEMMA Quotient ==
    ASSUME NEW z, NEW B, NEW q, NEW r, NEW p, NEW t, Divided(z, B, q, r), Divided(z, B, p, t)
    PROVE  q = p /\ r = t
<1> USE DEF Divided
<1>1. ASSUME NEW x \in Nat, NEW y \in Nat, x < y PROVE x * B + B <= y * B
  <2>1. (x + 1) * B <= y * B
    <3>1. PICK d \in Nat : y = (x + 1) + d
      <4>1. y - (x + 1) \in Nat /\ y = (x + 1) + (y - (x + 1))
        BY <1>1
      <4>2. QED
        BY <4>1
    <3>2. y * B = (x + 1) * B + d * B
      BY <3>1
    <3>3. d * B \in Nat
      OBVIOUS
    <3>4. (x + 1) * B \in Nat
      OBVIOUS
    <3>5. QED
      BY <3>2, <3>3, <3>4
  <2>2. (x + 1) * B = x * B + B
    OBVIOUS
  <2>3. QED
    BY <2>1, <2>2
<1>2. q * B \in Nat /\ p * B \in Nat
  OBVIOUS
<1>3. ~(q < p) /\ ~(p < q)
  BY <1>1, <1>2
<1>4. q = p
  BY <1>3
<1>5. QED
  BY <1>4, <1>2

(* The blocks of a message lie one behind the other. *)
LEMMA BlockPlace ==
    ASSUME NEW B \in Nat \ {0}, NEW q \in Nat, NEW b \in 1..q
    PROVE  (b - 1) * B \in Nat /\ b * B = (b - 1) * B + B /\ b * B <= q * B /\ q * B \in Nat
<1>1. PICK d \in Nat : q = b + d
  <2>1. q - b \in Nat /\ q = b + (q - b)
    OBVIOUS
  <2>2. QED
    BY <2>1
<1>2. q * B = b * B + d * B /\ d * B \in Nat
  BY <1>1
<1>3. b * B \in Nat /\ (b - 1) * B \in Nat /\ q * B \in Nat
  <2>1. b \in Nat /\ b - 1 \in Nat
    OBVIOUS
  <2>2. QED
    BY <2>1
<1>4. b * B = (b - 1) * B + B
  OBVIOUS
<1>5. QED
  BY <1>2, <1>3, <1>4

(* Whole blocks, and nothing but whole blocks, leave no remainder. *)
LEMMA WholeBlocks ==
    ASSUME NEW B \in Nat \ {0}, NEW x \in Nat
    PROVE  /\ x % B = 0 => \E k \in Nat : x = k * B
           /\ \A k \in Nat : x = k * B => x % B = 0 /\ x \div B = k
<1> DEFINE q == x \div B
           r == x % B
<1>1. q \in Nat /\ r \in 0..(B - 1) /\ x = B * q + r
  OBVIOUS
<1>2. ASSUME NEW k \in Nat PROVE (B * k + 0) % B = 0 /\ (B * k + 0) \div B = k
  OBVIOUS
<1>3. ASSUME r = 0 PROVE \E k \in Nat : x = k * B
  <2> HIDE DEF q, r
  <2>1. x = q * B
    BY <1>1, <1>3
  <2>2. QED
    BY <1>1, <2>1
<1>4. ASSUME NEW k \in Nat, x = k * B PROVE x = B * k + 0
  BY <1>4
<1>5. QED
  BY <1>2, <1>3, <1>4

(* One more, modulo b. *)
LEMMA SuccMod ==
    ASSUME NEW b \in Nat \ {0}, NEW z \in Nat
    PROVE  (z + 1) % b = IF z % b = b - 1 THEN 0 ELSE (z % b) + 1
<1> DEFINE q == z \div b
           m == z % b
<1>1. q \in Nat /\ m \in 0..(b - 1) /\ z = b * q + m
  OBVIOUS
<1>2. ASSUME NEW k \in Nat, NEW r \in 0..(b - 1) PROVE (b * k + r) % b = r
  OBVIOUS
<1> HIDE DEF q, m
<1>3. CASE m = b - 1
  <2>1. z + 1 = b * (q + 1) + 0 /\ q + 1 \in Nat /\ 0 \in 0..(b - 1)
    BY <1>1, <1>3
  <2>2. QED
    BY <1>2, <1>3, <2>1 DEF m
<1>4. CASE m # b - 1
  <2>1. z + 1 = b * q + (m + 1) /\ m + 1 \in 0..(b - 1)
    BY <1>1, <1>4
  <2>2. QED
    BY <1>1, <1>2, <1>4, <2>1 DEF m
<1>5. QED
  BY <1>3, <1>4

(* One more on both sides of an equality modulo b. *)
LEMMA NextMod ==
    ASSUME NEW b \in Nat \ {0}, NEW x \in Nat, NEW y \in Nat, x % b = y % b
    PROVE  (x + 1) % b = (y + 1) % b
  BY SuccMod

(* A whole block more changes nothing modulo the block. *)
LEMMA BlockMore ==
    ASSUME NEW b \in Nat \ {0}, NEW z \in Nat
    PROVE  (z + b) % b = z % b
<1> DEFINE q == z \div b
           m == z % b
<1>1. q \in Nat /\ m \in 0..(b - 1) /\ z = b * q + m
  OBVIOUS
<1>2. ASSUME NEW k \in Nat, NEW r \in 0..(b - 1) PROVE (b * k + r) % b = r
  OBVIOUS
<1> HIDE DEF q, m
<1>3. z + b = b * (q + 1) + m /\ q + 1 \in Nat
  BY <1>1
<1>4. QED
  BY <1>1, <1>2, <1>3 DEF m

(* Numbers equal modulo b stay so when a block and s bytes are added. *)
LEMMA AddMod ==
    ASSUME NEW b \in Nat \ {0}, NEW x \in Nat, NEW y \in Nat, x % b = y % b, NEW s \in Nat
    PROVE  (x + b + s) % b = (y + s) % b
<1> DEFINE S == {n \in Nat : (x + b + n) % b = (y + n) % b}
<1>1. 0 \in S
  <2>1. (x + b) % b = x % b
    BY BlockMore
  <2>2. x + b + 0 = x + b /\ y + 0 = y
    OBVIOUS
  <2>3. QED
    BY <2>1, <2>2
<1>2. ASSUME NEW n \in Nat, n \in S PROVE n + 1 \in S
  <2> DEFINE v == x + b + n
             w == y + n
  <2>1. v \in Nat /\ w \in Nat /\ x + b + (n + 1) = v + 1 /\ y + (n + 1) = w + 1
    OBVIOUS
  <2>2. v % b = w % b
    BY <1>2
  <2> HIDE DEF v, w
  <2>3. (v + 1) % b = (w + 1) % b
    BY <2>1, <2>2, NextMod
  <2>4. QED
    BY <2>1, <2>3
<1> HIDE DEF S
<1>3. s \in S
  BY <1>1, <1>2, NatSets
<1>4. QED
  BY <1>3 DEF S

(* One more, divided by b. *)
LEMMA SuccDiv ==
    ASSUME NEW b \in Nat \ {0}, NEW z \in Nat
    PROVE  (z + 1) \div b = IF z % b = b - 1 THEN (z \div b) + 1 ELSE z \div b
<1> DEFINE q == z \div b
           m == z % b
<1>1. q \in Nat /\ m \in 0..(b - 1) /\ z = b * q + m
  OBVIOUS
<1>2. ASSUME NEW k \in Nat, NEW r \in 0..(b - 1) PROVE (b * k + r) \div b = k
  OBVIOUS
<1> HIDE DEF q, m
<1>3. CASE m = b - 1
  <2>1. z + 1 = b * (q + 1) + 0 /\ q + 1 \in Nat /\ 0 \in 0..(b - 1)
    BY <1>1, <1>3
  <2>2. (z + 1) \div b = q + 1
    BY <1>2, <2>1
  <2>3. QED
    BY <1>3, <2>2 DEF q, m
<1>4. CASE m # b - 1
  <2>1. z + 1 = b * q + (m + 1) /\ m + 1 \in 0..(b - 1)
    BY <1>1, <1>4
  <2>2. (z + 1) \div b = q
    BY <1>1, <1>2, <2>1
  <2>3. QED
    BY <1>4, <2>2 DEF q, m
<1>5. QED
  BY <1>3, <1>4

(* A remainder is its own remainder. *)
LEMMA ModMod ==
    ASSUME NEW b \in Nat \ {0}, NEW z \in Nat
    PROVE  z % b \in 0..(b - 1) /\ (z % b) % b = z % b
<1>1. z % b \in 0..(b - 1)
  OBVIOUS
<1>2. ASSUME NEW r \in 0..(b - 1) PROVE r % b = r
  OBVIOUS
<1>3. QED
  BY <1>1, <1>2

(* A whole block more is one more divided by the block. *)
LEMMA BlockMoreDiv ==
    ASSUME NEW b \in Nat \ {0}, NEW z \in Nat
    PROVE  (z + b) \div b = (z \div b) + 1
<1> DEFINE q == z \div b
           m == z % b
<1>1. q \in Nat /\ m \in 0..(b - 1) /\ z = b * q + m
  OBVIOUS
<1>2. ASSUME NEW k \in Nat, NEW r \in 0..(b - 1) PROVE (b * k + r) \div b = k
  OBVIOUS
<1> HIDE DEF q, m
<1>3. z + b = b * (q + 1) + m /\ q + 1 \in Nat
  BY <1>1
<1>4. (z + b) \div b = q + 1
  BY <1>1, <1>2, <1>3
<1>5. QED
  BY <1>4 DEF q

-----------------------------------------------------------------------------
(* Nothing after a sequence leaves it as it is. *)
LEMMA NothingAfter ==
    ASSUME NEW s, IsSeq(s)
    PROVE  s \o <<>> = s
<1>1. s \in Seq({s[j] : j \in DOMAIN s})
  BY DEF IsSeq
<1>2. QED
  BY <1>1, ConcatEmptySeq

(* A sequence that is not empty ends in an element. *)
LEMMA LastApart ==
    ASSUME NEW s, IsSeq(s), NEW n \in Nat, Len(s) = n + 1
    PROVE  /\ IsSeq(SubSeq(s, 1, n)) /\ Len(SubSeq(s, 1, n)) = n
           /\ s = Append(SubSeq(s, 1, n), s[n + 1])
<1> DEFINE t == SubSeq(s, 1, n)
           u == Append(t, s[n + 1])
<1>1. IsSeq(t) /\ Len(t) = n /\ \A j \in 1..n : t[j] = s[j]
  <2>1. IsSeq(t) /\ Len(t) = (IF 1 <= n + 1 THEN n ELSE 0) /\ \A j \in 1..n : t[j] = s[1 + j - 1]
    <3>1. 1 \in Int /\ n \in Int /\ 1 + n - 1 = n
      OBVIOUS
    <3>2. QED
      BY <3>1, Sliced
  <2> HIDE DEF t
  <2>2. QED
    BY <2>1
<1> HIDE DEF t
<1>2. IsSeq(u) /\ Len(u) = n + 1 /\ u[n + 1] = s[n + 1] /\ \A j \in 1..n : u[j] = t[j]
  BY <1>1, Appended
<1> HIDE DEF u
<1>3. ASSUME NEW j \in 1..Len(u) PROVE u[j] = s[j]
  <2>1. j \in 1..n \/ j = n + 1
    BY <1>2
  <2>2. QED
    BY <1>1, <1>2, <2>1
<1>4. u = s
  BY <1>2, <1>3, SameSeqs
<1>5. QED
  BY <1>1, <1>4 DEF t, u

(* An element after two sequences. *)
LEMMA AppendJoined ==
    ASSUME NEW a, IsSeq(a), NEW b, IsSeq(b), NEW x
    PROVE  a \o Append(b, x) = Append(a \o b, x)
<1> DEFINE e == <<x>>
<1>1. ASSUME NEW s, IsSeq(s) PROVE Append(s, x) = s \o e
  <2> DEFINE S == {s[j] : j \in DOMAIN s} \cup {x}
  <2>1. s \in Seq(S) /\ x \in S
    <3>1. s \in Seq({s[j] : j \in DOMAIN s}) /\ {s[j] : j \in DOMAIN s} \subseteq S
      BY <1>1 DEF IsSeq
    <3>2. ASSUME NEW D, D \subseteq S, s \in Seq(D) PROVE s \in Seq(S)
      <4> HIDE DEF S
      <4>1. QED
        BY <3>2, SeqMonotonic
    <3>3. QED
      BY <3>1, <3>2
  <2> HIDE DEF S
  <2>2. QED
    BY <2>1, AppendIsConcat
<1>2. IsSeq(e)
  <2>1. e = [k \in 1..1 |-> e[k]] /\ 1 \in Nat
    OBVIOUS
  <2> HIDE DEF e
  <2>2. QED
    BY <2>1, FunctionIsSeq
<1> HIDE DEF e
<1>3. IsSeq(a \o b)
  BY JoinedSeqs
<1>4. Append(b, x) = b \o e /\ Append(a \o b, x) = (a \o b) \o e
  BY <1>1, <1>3
<1>5. (a \o b) \o e = a \o (b \o e)
  BY <1>2, JoinedAgain
<1>6. QED
  BY <1>4, <1>5
=============================================================================
