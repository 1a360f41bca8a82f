---------------------------- MODULE CryptoProofs ----------------------------
(***************************************************************************)
(* The cryptographic classes for every size of their blocks, counters and  *)
(* keys, however the data is cut into calls.  ez::sha1, ez::sha2_256 and   *)
(* ez::hmac: the digest and the HMAC are those of the standards'           *)
(* definitions.  ez::chacha20_poly1305: what decrypt() accepts, for any    *)
(* number of packets.  ez::chacha20: what the bytes of the key stream are. *)
(***************************************************************************)
EXTENDS Crypto, SequenceFacts

(* The objects of one class. *)
ShaSpec == ShaInit /\ [][ShaNext]_shaVars
HmacSpec == HmacInit /\ [][HmacNext]_hmacVars
ChaChaSpec == ChaChaInit /\ [][ChaChaNext]_chachaVars
AeadSpec == AeadInit /\ [][AeadNext]_aeadVars

(* A program that uses one class leaves the others as they were. *)
LEMMA ClassesApart == CryptoSpec => ShaSpec /\ HmacSpec /\ ChaChaSpec /\ AeadSpec
<1>1. CryptoInit => ShaInit /\ HmacInit /\ ChaChaInit /\ AeadInit
  BY DEF CryptoInit
<1>2. [CryptoNext]_cryptoVars =>
        /\ [ShaNext]_shaVars /\ [HmacNext]_hmacVars
        /\ [ChaChaNext]_chachaVars /\ [AeadNext]_aeadVars
  BY DEF CryptoNext, cryptoVars
<1>3. QED
  BY <1>1, <1>2, PTL DEF CryptoSpec, ShaSpec, HmacSpec, ChaChaSpec, AeadSpec

-----------------------------------------------------------------------------
(* An object of a hash class, whatever it was used for. *)
HashShape(h) ==
    /\ h = [buffer |-> h.buffer, size |-> h.size, total_size |-> h.total_size,
            digest |-> h.digest]
    /\ IsSeq(h.buffer) /\ Len(h.buffer) = Block
    /\ h.size \in 0..(Block - 1)
    /\ IsSeq(h.digest)

(* The object has absorbed m since the last reset(): its whole blocks went *)
(* into the digest, the rest is at the front of m_buffer.                  *)
Holds(h, m) ==
    /\ h.total_size = Len(m) /\ Len(m) = Len(h.digest) * Block + h.size
    /\ \A b \in 1..Len(h.digest) : h.digest[b] = SubSeq(m, (b - 1) * Block + 1, b * Block)
    /\ \A k \in 1..h.size : h.buffer[k] = m[Len(h.digest) * Block + k]

(* A block is not empty. *)
LEMMA BlockSize == Block \in Nat \ {0} /\ Block - Field \in 1..(Block - 1) /\ Field \in 1..Block
  BY BlockAssumption

(* memcpy() into the buffer. *)
LEMMA Overwritten ==
    ASSUME NEW buffer, IsSeq(buffer), NEW at \in Nat, NEW data, IsSeq(data)
    PROVE  /\ IsSeq(Overwrite(buffer, at, data)) /\ Len(Overwrite(buffer, at, data)) = Len(buffer)
           /\ \A k \in 1..Len(buffer) :
                Overwrite(buffer, at, data)[k] =
                    IF k > at /\ k <= at + Len(data) THEN data[k - at] ELSE buffer[k]
<1> DEFINE w == Overwrite(buffer, at, data)
<1>1. Len(buffer) \in Nat
  BY SeqIsFunction
<1>2. \A k \in 1..Len(buffer) :
        w[k] = IF k > at /\ k <= at + Len(data) THEN data[k - at] ELSE buffer[k]
  BY DEF Overwrite
<1>3. w = [k \in 1..Len(buffer) |-> w[k]]
  BY DEF Overwrite
<1> HIDE DEF w
<1>4. IsSeq(w) /\ Len(w) = Len(buffer)
  BY <1>1, <1>3, FunctionIsSeq
<1>5. QED
  BY <1>2, <1>4 DEF w

(* What transform() leaves in the buffer. *)
LEMMA ScrambledRight == IsSeq(Scrambled) /\ Len(Scrambled) = Block
<1>1. Scrambled = [k \in 1..Block |-> Scrambled[k]]
  BY DEF Scrambled
<1>2. QED
  BY <1>1, BlockSize, FunctionIsSeq

SameBlock(m, w, b) == SubSeq(w, (b - 1) * Block + 1, b * Block) = SubSeq(m, (b - 1) * Block + 1, b * Block)
HasBlocks(m, q) == q \in Nat /\ q * Block <= Len(m)

(* A message that goes on has the same blocks. *)
LEMMA BlocksStay ==
    ASSUME NEW m, IsSeq(m), NEW t, IsSeq(t), NEW q, HasBlocks(m, q), NEW b \in 1..q
    PROVE  SameBlock(m, m \o t, b)
<1>0. q \in Nat /\ q * Block <= Len(m)
  BY DEF HasBlocks
<1>1. /\ (b - 1) * Block \in Nat /\ b * Block = (b - 1) * Block + Block /\ b * Block <= q * Block
      /\ q * Block \in Nat /\ Block \in Nat \ {0}
  BY <1>0, BlockPlace, BlockSize
<1> DEFINE from == (b - 1) * Block + 1
           to == b * Block
<1>2. from \in Nat /\ to \in Nat /\ from <= to /\ from >= 1 /\ to <= Len(m) /\ Len(m) \in Nat
  BY <1>0, <1>1, SeqIsFunction
<1> HIDE DEF from, to
<1>3. \A j \in 1..Len(m) : (m \o t)[j] = m[j]
  BY JoinedSeqs
<1> DEFINE u == SubSeq(m \o t, from, to)
           v == SubSeq(m, from, to)
<1>4. /\ IsSeq(u) /\ Len(u) = (to - from) + 1
      /\ \A i \in 1..((to - from) + 1) : u[i] = (m \o t)[from + i - 1]
  BY <1>2, Sliced
<1>5. /\ IsSeq(v) /\ Len(v) = (to - from) + 1
      /\ \A i \in 1..((to - from) + 1) : v[i] = m[from + i - 1]
  BY <1>2, Sliced
<1>6. \A i \in 1..((to - from) + 1) : from + i - 1 \in 1..Len(m)
  BY <1>2
<1> HIDE DEF u, v
<1>7. \A i \in 1..Len(u) : u[i] = v[i]
  BY <1>3, <1>4, <1>5, <1>6
<1>8. u = v
  BY <1>4, <1>5, <1>7, SameSeqs
<1>9. QED
  BY <1>8 DEF u, v, from, to, SameBlock

(* The bytes that an iteration of update() takes. *)
Taken(x) == IF Len(x.data) < Block - x.hash.size THEN Len(x.data) ELSE Block - x.hash.size
Filled(x) ==
    [x.hash EXCEPT !.buffer = Overwrite(@, x.hash.size, SubSeq(x.data, 1, Taken(x))),
                   !.size = @ + Taken(x), !.total_size = @ + Taken(x)]

(* The buffer behind memcpy() holds what the message has behind its last   *)
(* whole block.                                                            *)
LEMMA FilledRight ==
    ASSUME NEW x, HashShape(x.hash), IsSeq(x.data), x.data # <<>>
    PROVE  /\ Taken(x) \in 1..Len(x.data) /\ x.hash.size + Taken(x) \in 1..Block
           /\ Filled(x) = [buffer |-> Filled(x).buffer, size |-> x.hash.size + Taken(x),
                           total_size |-> x.hash.total_size + Taken(x),
                           digest |-> x.hash.digest]
           /\ IsSeq(Filled(x).buffer) /\ Len(Filled(x).buffer) = Block
           /\ \A k \in 1..x.hash.size : Filled(x).buffer[k] = x.hash.buffer[k]
           /\ \A k \in 1..Taken(x) : Filled(x).buffer[x.hash.size + k] = x.data[k]
<1> DEFINE h == x.hash
           n == Taken(x)
           w == Overwrite(h.buffer, h.size, SubSeq(x.data, 1, n))
<1>1. /\ h = [buffer |-> h.buffer, size |-> h.size, total_size |-> h.total_size,
              digest |-> h.digest]
      /\ IsSeq(h.buffer) /\ Len(h.buffer) = Block /\ h.size \in 0..(Block - 1)
  BY DEF HashShape
<1>2. Len(x.data) \in Nat /\ Len(x.data) # 0 /\ Block \in Nat \ {0}
  BY SeqIsFunction, NoElements, BlockSize
<1>3. n \in 1..Len(x.data) /\ h.size + n \in 1..Block
  BY <1>1, <1>2 DEF Taken
<1>4. /\ IsSeq(SubSeq(x.data, 1, n)) /\ Len(SubSeq(x.data, 1, n)) = n
      /\ \A k \in 1..n : SubSeq(x.data, 1, n)[k] = x.data[k]
  <2>1. 1 \in Int /\ n \in Int /\ 1 <= n /\ (n - 1) + 1 = n
    BY <1>3
  <2>2. /\ IsSeq(SubSeq(x.data, 1, n)) /\ Len(SubSeq(x.data, 1, n)) = n
        /\ \A k \in 1..n : SubSeq(x.data, 1, n)[k] = x.data[1 + k - 1]
    BY <2>1, Sliced
  <2>3. \A k \in 1..n : 1 + k - 1 = k
    BY <2>1
  <2>4. QED
    BY <2>2, <2>3
<1>5. Filled(x) = [buffer |-> w, size |-> h.size + n, total_size |-> h.total_size + n,
                   digest |-> h.digest]
  <2>1. DOMAIN h = {"buffer", "size", "total_size", "digest"}
    <3> HIDE DEF h
    <3>1. QED
      BY <1>1, Zenon
  <2>2. Filled(x) = [h EXCEPT !.buffer = w, !.size = h.size + n, !.total_size = h.total_size + n]
    BY DEF Filled
  <2> HIDE DEF h, n, w
  <2>3. QED
    BY <1>1, <2>1, <2>2
<1>6. /\ IsSeq(w) /\ Len(w) = Block
      /\ \A k \in 1..Block : w[k] = IF k > h.size /\ k <= h.size + n
                                    THEN SubSeq(x.data, 1, n)[k - h.size] ELSE h.buffer[k]
  <2>1. h.size \in Nat
    BY <1>1, <1>2
  <2> DEFINE d == SubSeq(x.data, 1, n)
  <2>2. IsSeq(d) /\ Len(d) = n
    BY <1>4
  <2> HIDE DEF d, h, n
  <2>3. /\ IsSeq(Overwrite(h.buffer, h.size, d)) /\ Len(Overwrite(h.buffer, h.size, d)) = Block
        /\ \A k \in 1..Block : Overwrite(h.buffer, h.size, d)[k] =
              IF k > h.size /\ k <= h.size + n THEN d[k - h.size] ELSE h.buffer[k]
    BY <1>1, <2>1, <2>2, Overwritten
  <2>4. QED
    BY <2>3 DEF d
<1> HIDE DEF w
<1>7. \A k \in 1..h.size : w[k] = h.buffer[k]
  <2>1. \A k \in 1..h.size : k \in 1..Block /\ ~(k > h.size)
    BY <1>1, <1>2
  <2>2. QED
    BY <1>6, <2>1
<1>8. ASSUME NEW k \in 1..n PROVE w[h.size + k] = x.data[k]
  <2>1. h.size + k \in 1..Block /\ h.size + k > h.size /\ h.size + k <= h.size + n
        /\ (h.size + k) - h.size = k
    BY <1>1, <1>2, <1>3
  <2>2. QED
    BY <1>4, <1>6, <2>1
<1>9. QED
  BY <1>3, <1>5, <1>6, <1>7, <1>8

(* An object of the class, field by field. *)
Fields(h) ==
    h = [buffer |-> h.buffer, size |-> h.size, total_size |-> h.total_size, digest |-> h.digest]

(* transform() changes the digest and the buffer. *)
LEMMA TransformFields ==
    ASSUME NEW h, Fields(h)
    PROVE  /\ Fields(Transform(h)) /\ Transform(h).buffer = Scrambled
           /\ Transform(h).size = h.size /\ Transform(h).total_size = h.total_size
           /\ Transform(h).digest = Append(h.digest, h.buffer)
<1> DEFINE F == {"buffer", "size", "total_size", "digest"}
           e == Append(h.digest, h.buffer)
           w == Scrambled
           g == [h EXCEPT !.digest = e, !.buffer = w]
<1>1. DOMAIN h = F
  BY Zenon DEF Fields
<1>2. Transform(h) = g
  BY DEF Transform
<1> HIDE DEF e, w
<1>3. g = [x \in F |-> IF x = "buffer" THEN w ELSE IF x = "digest" THEN e ELSE h[x]]
  BY <1>1
<1> HIDE DEF g
<1>4. /\ g.buffer = w /\ g.size = h.size /\ g.total_size = h.total_size /\ g.digest = e
      /\ g = [buffer |-> g.buffer, size |-> g.size, total_size |-> g.total_size, digest |-> g.digest]
  BY <1>3
<1>5. QED
  BY <1>2, <1>4 DEF Fields, e, w

(* m_size = 0 at the end of an iteration. *)
LEMMA SizeSet ==
    ASSUME NEW h, Fields(h), NEW n
    PROVE  /\ Fields([h EXCEPT !.size = n]) /\ [h EXCEPT !.size = n].buffer = h.buffer
           /\ [h EXCEPT !.size = n].size = n
           /\ [h EXCEPT !.size = n].total_size = h.total_size
           /\ [h EXCEPT !.size = n].digest = h.digest
<1> DEFINE F == {"buffer", "size", "total_size", "digest"}
           g == [h EXCEPT !.size = n]
<1>1. DOMAIN h = F
  BY Zenon DEF Fields
<1>2. g = [x \in F |-> IF x = "size" THEN n ELSE h[x]]
  BY <1>1
<1> HIDE DEF g
<1>3. /\ g.buffer = h.buffer /\ g.size = n /\ g.total_size = h.total_size /\ g.digest = h.digest
      /\ g = [buffer |-> g.buffer, size |-> g.size, total_size |-> g.total_size, digest |-> g.digest]
  BY <1>2
<1>4. QED
  BY <1>3 DEF Fields, g

(* An iteration of update(): the object stays an object, data gets shorter *)
(* and no block is lost.                                                   *)
LEMMA FillShape ==
    ASSUME NEW x, HashShape(x.hash), IsSeq(x.data), x.data # <<>>
    PROVE  /\ HashShape(Fill(x).hash)
           /\ Fill(x).hash = IF Filled(x).size = Block
                             THEN [buffer |-> Scrambled, size |-> 0,
                                   total_size |-> Filled(x).total_size,
                                   digest |-> Append(x.hash.digest, Filled(x).buffer)]
                             ELSE Filled(x)
           /\ Fill(x).data = SubSeq(x.data, Taken(x) + 1, Len(x.data))
           /\ IsSeq(Fill(x).data) /\ Len(Fill(x).data) = Len(x.data) - Taken(x)
           /\ Len(Fill(x).hash.digest) \in Nat
           /\ Len(Fill(x).hash.digest) >= Len(x.hash.digest)
<1> DEFINE f == Filled(x)
           y == Fill(x)
<1>1. /\ Taken(x) \in 1..Len(x.data) /\ x.hash.size + Taken(x) \in 1..Block
      /\ f = [buffer |-> f.buffer, size |-> x.hash.size + Taken(x),
              total_size |-> x.hash.total_size + Taken(x), digest |-> x.hash.digest]
      /\ IsSeq(f.buffer) /\ Len(f.buffer) = Block
  BY FilledRight
<1>2. y = [hash |-> IF f.size = Block THEN [Transform(f) EXCEPT !.size = 0] ELSE f,
           data |-> SubSeq(x.data, Taken(x) + 1, Len(x.data))]
  BY DEF Fill, Filled, Taken
<1>3. IsSeq(x.hash.digest) /\ Len(x.hash.digest) \in Nat /\ Len(x.data) \in Nat
  BY SeqIsFunction DEF HashShape
<1> HIDE DEF f, y
<1>4. /\ y.data = SubSeq(x.data, Taken(x) + 1, Len(x.data))
      /\ y.hash = IF f.size = Block THEN [Transform(f) EXCEPT !.size = 0] ELSE f
  BY <1>2, Zenon
<1>5. IsSeq(y.data) /\ Len(y.data) = Len(x.data) - Taken(x)
  <2>1. Taken(x) + 1 \in Int /\ Len(x.data) \in Int /\ Taken(x) \in Int /\ Taken(x) <= Len(x.data)
    BY <1>1, <1>3
  <2> DEFINE from == Taken(x) + 1
             to == Len(x.data)
  <2>2. from \in Int /\ to \in Int /\ y.data = SubSeq(x.data, from, to)
    BY <1>4, <2>1
  <2> HIDE DEF from, to
  <2>3. IsSeq(y.data) /\ Len(y.data) = IF from <= to THEN (to - from) + 1 ELSE 0
    BY <2>2, Sliced
  <2>4. QED
    BY <2>1, <2>3 DEF from, to
<1> DEFINE Right ==
              /\ HashShape(y.hash)
              /\ y.hash = IF f.size = Block
                          THEN [buffer |-> Scrambled, size |-> 0, total_size |-> f.total_size,
                                digest |-> Append(x.hash.digest, f.buffer)]
                          ELSE f
              /\ Len(y.hash.digest) \in Nat /\ Len(y.hash.digest) >= Len(x.hash.digest)
<1>6. ASSUME f.size = Block PROVE Right
  <2>1. y.hash = [buffer |-> Scrambled, size |-> 0, total_size |-> f.total_size,
                  digest |-> Append(x.hash.digest, f.buffer)]
    <3> DEFINE g == Transform(f)
    <3>1. /\ Fields(g) /\ g.buffer = Scrambled /\ g.total_size = f.total_size
          /\ g.digest = Append(f.digest, f.buffer) /\ f.digest = x.hash.digest
      <4>1. Fields(f) /\ f.digest = x.hash.digest
        BY <1>1 DEF Fields
      <4>2. QED
        BY <4>1, TransformFields
    <3>2. y.hash = [g EXCEPT !.size = 0]
      BY <1>4, <1>6
    <3> HIDE DEF g
    <3> DEFINE z == [g EXCEPT !.size = 0]
    <3>3. /\ Fields(z) /\ z.buffer = g.buffer /\ z.size = 0 /\ z.total_size = g.total_size
          /\ z.digest = g.digest
      BY <3>1, SizeSet
    <3> HIDE DEF z
    <3>4. z = [buffer |-> Scrambled, size |-> 0, total_size |-> f.total_size,
               digest |-> Append(x.hash.digest, f.buffer)]
      BY <3>1, <3>3 DEF Fields
    <3>5. QED
      BY <3>2, <3>4 DEF z
  <2>2. IsSeq(y.hash.digest) /\ Len(y.hash.digest) = Len(x.hash.digest) + 1
    BY <1>3, <2>1, Appended
  <2>3. HashShape(y.hash)
    <3>1. IsSeq(y.hash.buffer) /\ Len(y.hash.buffer) = Block
      BY <2>1, ScrambledRight
    <3>2. y.hash.size \in 0..(Block - 1)
      BY <2>1, BlockSize
    <3>3. QED
      BY <2>1, <2>2, <3>1, <3>2 DEF HashShape
  <2>4. Len(y.hash.digest) \in Nat /\ Len(y.hash.digest) >= Len(x.hash.digest)
    BY <1>3, <2>2
  <2>5. QED
    BY <1>6, <2>1, <2>3, <2>4
<1>7. ASSUME f.size # Block PROVE Right
  <2>1. y.hash = f
    BY <1>4, <1>7
  <2>2. HashShape(f)
    <3>1. f.size \in 0..(Block - 1)
      BY <1>1, <1>7, BlockSize
    <3>2. QED
      BY <1>1, <1>3, <3>1 DEF HashShape
  <2>3. y.hash.digest = x.hash.digest
    BY <1>1, <2>1
  <2>4. Len(y.hash.digest) \in Nat /\ Len(y.hash.digest) >= Len(x.hash.digest)
    BY <1>3, <2>3
  <2>5. QED
    BY <1>7, <2>1, <2>2, <2>4
<1>8. QED
  BY <1>4, <1>5, <1>6, <1>7 DEF f, y

(* An iteration of update() absorbs the bytes it takes. *)
LEMMA FillHolds ==
    ASSUME NEW x, HashShape(x.hash), IsSeq(x.data), x.data # <<>>,
           NEW m, IsSeq(m), Holds(x.hash, m)
    PROVE  \E t : /\ IsSeq(t) /\ x.data = t \o Fill(x).data
                  /\ Holds(Fill(x).hash, m \o t)
<1> DEFINE n == Taken(x)
           t == SubSeq(x.data, 1, n)
           M == m \o t
           q == Len(x.hash.digest)
           L == Len(m)
           f == Filled(x)
           y == Fill(x)
           D == x.hash.digest
           z == x.hash.size
<1>1. /\ n \in 1..Len(x.data) /\ z + n \in 1..Block
      /\ f.size = z + n /\ f.total_size = x.hash.total_size + n
      /\ f.digest = D /\ IsSeq(f.buffer) /\ Len(f.buffer) = Block
      /\ \A k \in 1..z : f.buffer[k] = x.hash.buffer[k]
      /\ \A k \in 1..n : f.buffer[z + k] = x.data[k]
  BY FilledRight
<1>2. /\ q \in Nat /\ IsSeq(D) /\ L \in Nat /\ Len(x.data) \in Nat
      /\ z \in 0..(Block - 1) /\ Block \in Nat \ {0}
  BY SeqIsFunction, BlockSize DEF HashShape
<1>3. /\ x.hash.total_size = L /\ L = q * Block + z
      /\ \A b \in 1..q : D[b] = SubSeq(m, (b - 1) * Block + 1, b * Block)
      /\ \A k \in 1..z : x.hash.buffer[k] = m[q * Block + k]
  BY DEF Holds
<1>4. q * Block \in Nat /\ (q + 1) * Block = q * Block + Block
  <2>1. q \in Nat /\ Block \in Nat
    BY <1>2
  <2> HIDE DEF q
  <2>2. QED
    BY <2>1, OneMore
<1>5. IsSeq(t) /\ Len(t) = n /\ \A k \in 1..n : t[k] = x.data[k]
  <2>1. 1 \in Int /\ n \in Int /\ 1 <= n /\ (n - 1) + 1 = n
    BY <1>1
  <2> HIDE DEF n
  <2>2. /\ IsSeq(t) /\ Len(t) = n /\ \A k \in 1..n : t[k] = x.data[1 + k - 1]
    BY <2>1, Sliced
  <2>3. \A k \in 1..n : 1 + k - 1 = k
    BY <2>1
  <2>4. QED
    BY <2>2, <2>3
<1>6. x.data = t \o y.data
  <2>1. y.data = SubSeq(x.data, n + 1, Len(x.data))
    BY FillShape
  <2>2. n \in 0..Len(x.data)
    BY <1>1
  <2>3. x.data = SubSeq(x.data, 1, n) \o SubSeq(x.data, n + 1, Len(x.data))
    BY <2>2, CutInTwo
  <2>4. QED
    BY <2>1, <2>3
<1>7. y.hash = IF f.size = Block
               THEN [buffer |-> Scrambled, size |-> 0, total_size |-> f.total_size,
                     digest |-> Append(D, f.buffer)]
               ELSE f
  BY FillShape
<1> HIDE DEF n, t, q, L, f, y, D, z
<1>8. /\ IsSeq(M) /\ Len(M) = L + n
      /\ \A j \in 1..L : M[j] = m[j]
      /\ \A k \in 1..n : M[L + k] = x.data[k]
  <2>1. IsSeq(t)
    BY <1>5
  <2>2. /\ IsSeq(M) /\ Len(M) = L + Len(t)
        /\ \A j \in 1..L : M[j] = m[j]
        /\ \A k \in 1..Len(t) : M[L + k] = t[k]
    BY <2>1, JoinedSeqs DEF L
  <2>3. QED
    BY <1>5, <2>2
<1> HIDE DEF M
<1>9. ASSUME NEW k \in 1..(z + n) PROVE f.buffer[k] = M[q * Block + k]
  <2>1. CASE k <= z
    <3>1. k \in 1..z /\ q * Block + k \in 1..L
      BY <1>1, <1>2, <1>3, <1>4, <2>1, SMTT(30)
    <3>2. QED
      BY <1>1, <1>3, <1>8, <3>1
  <2>2. CASE k > z
    <3>1. k - z \in 1..n /\ z + (k - z) = k /\ q * Block + k = L + (k - z)
      BY <1>1, <1>2, <1>3, <1>4, <2>2
    <3>2. QED
      BY <1>1, <1>8, <3>1
  <2>3. QED
    BY <1>1, <1>2, <2>1, <2>2
<1>10. ASSUME NEW b \in 1..q PROVE D[b] = SubSeq(M, (b - 1) * Block + 1, b * Block)
  <2>1. q * Block <= Len(m)
    BY <1>2, <1>3, <1>4 DEF L
  <2>2. IsSeq(t) /\ HasBlocks(m, q)
    BY <1>2, <1>5, <2>1 DEF HasBlocks
  <2>3. SameBlock(m, M, b)
    BY <2>2, BlocksStay DEF M
  <2>4. D[b] = SubSeq(m, (b - 1) * Block + 1, b * Block)
    BY <1>3
  <2>5. QED
    BY <2>3, <2>4 DEF SameBlock
<1>11. CASE f.size = Block
  <2>1. z + n = Block /\ Len(M) = (q + 1) * Block
    BY <1>1, <1>2, <1>3, <1>4, <1>8, <1>11
  <2> DEFINE E == Append(D, f.buffer)
  <2>2. IsSeq(E) /\ Len(E) = q + 1 /\ E[q + 1] = f.buffer /\ \A b \in 1..q : E[b] = D[b]
    BY <1>2, Appended DEF q, D
  <2> HIDE DEF E
  <2>3. f.buffer = SubSeq(M, q * Block + 1, (q + 1) * Block)
    <3> DEFINE from == q * Block + 1
               to == (q + 1) * Block
               u == SubSeq(M, from, to)
    <3>1. from \in Int /\ to \in Int /\ from <= to /\ (to - from) + 1 = Block
      BY <1>2, <1>4
    <3> HIDE DEF to
    <3>2. IsSeq(u) /\ Len(u) = Block /\ \A i \in 1..Block : u[i] = M[from + i - 1]
      <4> HIDE DEF from
      <4>1. QED
        BY <3>1, Sliced
    <3>3. \A i \in 1..Block : from + i - 1 = q * Block + i
      BY <1>2, <1>4
    <3> HIDE DEF from, u
    <3>4. \A i \in 1..Block : u[i] = f.buffer[i]
      BY <1>9, <2>1, <3>2, <3>3
    <3>5. u = f.buffer
      BY <1>1, <3>2, <3>4, SameSeqs
    <3>6. QED
      BY <3>5 DEF u, from, to
  <2>4. ASSUME NEW b \in 1..(q + 1) PROVE E[b] = SubSeq(M, (b - 1) * Block + 1, b * Block)
    <3>1. CASE b = q + 1
      <4>1. b - 1 = q
        BY <1>2, <3>1
      <4>2. QED
        BY <2>2, <2>3, <3>1, <4>1
    <3>2. CASE b # q + 1
      <4>1. b \in 1..q
        BY <1>2, <3>2
      <4>2. QED
        BY <1>10, <2>2, <4>1
    <3>3. QED
      BY <3>1, <3>2
  <2>5. /\ y.hash.digest = E /\ y.hash.size = 0 /\ y.hash.total_size = Len(M)
    BY <1>1, <1>3, <1>7, <1>8, <1>11 DEF E
  <2>6. Len(M) = (q + 1) * Block + 0
    BY <1>2, <1>4, <2>1
  <2>7. Holds(y.hash, M)
    BY <2>2, <2>4, <2>5, <2>6 DEF Holds
  <2>8. QED
    BY <1>5, <1>6, <2>7 DEF M, y
<1>12. CASE f.size # Block
  <2>1. /\ y.hash.digest = D /\ y.hash.size = z + n /\ y.hash.total_size = Len(M)
        /\ y.hash.buffer = f.buffer
    BY <1>1, <1>3, <1>7, <1>8, <1>12
  <2>2. Len(M) = q * Block + (z + n) /\ Len(D) = q
    <3> DEFINE Q == q * Block
    <3>1. Q \in Nat /\ L = Q + z /\ Len(M) = L + n /\ z \in Nat /\ n \in Nat
      BY <1>1, <1>2, <1>3, <1>4, <1>8
    <3> HIDE DEF Q, L, M, z, n
    <3>2. Len(M) = Q + (z + n)
      BY <3>1
    <3>3. QED
      BY <3>2 DEF Q, q, D
  <2>3. Holds(y.hash, M)
    BY <1>9, <1>10, <2>1, <2>2 DEF Holds
  <2>4. QED
    BY <1>5, <1>6, <2>3 DEF M, y
<1>13. QED
  BY <1>11, <1>12

-----------------------------------------------------------------------------
(* The loop of update(), an iteration at a time. *)
Iterate(x) == IF x.data = <<>> THEN x ELSE Fill(x)
Loop(f, x, n) == f = [i \in 0..n |-> IF i = 0 THEN x ELSE Iterate(f[i - 1])]

(* The recursive function of update() exists. *)
LEMMA LoopExists ==
    ASSUME NEW x, NEW N \in Nat
    PROVE  \E f : Loop(f, x, N)
<1> DEFINE S == {m \in Nat : \E f : Loop(f, x, m)}
<1>1. 0 \in S
  <2> DEFINE f == [i \in 0..0 |-> x]
  <2>1. Loop(f, x, 0)
    BY DEF Loop
  <2>2. QED
    BY <2>1
<1>2. ASSUME NEW m \in Nat, m \in S PROVE m + 1 \in S
  <2>1. PICK f : Loop(f, x, m)
    BY <1>2
  <2> DEFINE g == [i \in 0..(m + 1) |-> IF i <= m THEN f[i] ELSE Iterate(f[m])]
  <2>2. \A i \in 0..m : f[i] = IF i = 0 THEN x ELSE Iterate(f[i - 1])
    BY <2>1 DEF Loop
  <2>3. ASSUME NEW i \in 0..(m + 1) PROVE g[i] = IF i = 0 THEN x ELSE Iterate(g[i - 1])
    <3>1. CASE i <= m
      <4>1. i \in 0..m /\ (i # 0 => i - 1 \in 0..(m + 1) /\ i - 1 <= m)
        BY <3>1
      <4>2. QED
        BY <2>2, <3>1, <4>1
    <3>2. CASE ~(i <= m)
      <4>1. i = m + 1 /\ i # 0 /\ i - 1 = m /\ m \in 0..(m + 1) /\ m <= m
        BY <3>2
      <4>2. g[m] = f[m] /\ g[i] = Iterate(f[m])
        BY <3>2, <4>1
      <4> HIDE DEF g
      <4>3. QED
        BY <4>1, <4>2
    <3>3. QED
      BY <3>1, <3>2
  <2>4. Loop(g, x, m + 1)
    <3>1. g = [i \in 0..(m + 1) |-> g[i]]
      OBVIOUS
    <3> HIDE DEF g
    <3>2. QED
      BY <2>3, <3>1 DEF Loop
  <2> HIDE DEF g
  <2>5. QED
    BY <2>4
<1> HIDE DEF S
<1>3. N \in S
  BY <1>1, <1>2, NatSets
<1>4. QED
  BY <1>3 DEF S

(* update() is the end of that loop. *)
LEMMA UpdateIsLoop ==
    ASSUME NEW h, NEW data, Len(data) \in Nat
    PROVE  \E f : /\ Loop(f, [hash |-> h, data |-> data], Len(data))
                  /\ Update(h, data) = f[Len(data)].hash
<1> DEFINE x == [hash |-> h, data |-> data]
           f == CHOOSE g : Loop(g, x, Len(data))
<1>1. Loop(f, x, Len(data))
  BY LoopExists
<1>2. Update(h, data) = f[Len(data)].hash
  BY DEF Update, Loop, Iterate
<1>3. QED
  BY <1>1, <1>2

(* update(): the object stays an object and absorbs all of the data. *)
LEMMA UpdateRight ==
    ASSUME NEW h, HashShape(h), NEW data, IsSeq(data)
    PROVE  /\ HashShape(Update(h, data))
           /\ Len(Update(h, data).digest) \in Nat
           /\ Len(Update(h, data).digest) >= Len(h.digest)
           /\ \A m : IsSeq(m) /\ Holds(h, m) => Holds(Update(h, data), m \o data)
<1> DEFINE x == [hash |-> h, data |-> data]
           N == Len(data)
<1>1. N \in Nat /\ Len(h.digest) \in Nat
  BY SeqIsFunction DEF HashShape
<1>2. PICK f : Loop(f, x, N) /\ Update(h, data) = f[N].hash
  BY <1>1, UpdateIsLoop
<1>3. f[0] = x /\ \A i \in Nat : i + 1 <= N => f[i + 1] = Iterate(f[i])
  <2> HIDE DEF x, N
  <2>1. f[0] = x
    BY <1>1, <1>2 DEF Loop
  <2>2. ASSUME NEW i \in Nat, i + 1 <= N PROVE f[i + 1] = Iterate(f[i])
    <3>1. i + 1 \in 0..N /\ i + 1 # 0 /\ (i + 1) - 1 = i
      BY <1>1, <2>2
    <3>2. f[i + 1] = Iterate(f[(i + 1) - 1])
      BY <1>2, <3>1 DEF Loop
    <3>3. QED
      BY <3>1, <3>2
  <2>3. QED
    BY <2>1, <2>2
<1> DEFINE Absorbed(y) == \A m : IsSeq(m) /\ Holds(h, m) =>
                              \E t : IsSeq(t) /\ data = t \o y.data /\ Holds(y.hash, m \o t)
           Good(i) == /\ HashShape(f[i].hash) /\ IsSeq(f[i].data)
                      /\ f[i].data = <<>> \/ Len(f[i].data) <= N - i
                      /\ Len(f[i].hash.digest) \in Nat
                      /\ Len(f[i].hash.digest) >= Len(h.digest)
                      /\ Absorbed(f[i])
           S == {i \in Nat : i <= N => Good(i)}
<1>4. 0 \in S
  <2>1. x.hash = h /\ x.data = data
    OBVIOUS
  <2>2. Absorbed(x)
    <3>1. ASSUME NEW m, IsSeq(m), Holds(h, m)
          PROVE  \E t : IsSeq(t) /\ data = t \o x.data /\ Holds(x.hash, m \o t)
      <4>1. m \o <<>> = m /\ data = <<>> \o data
        <5>1. ASSUME NEW s, IsSeq(s) PROVE s \o <<>> = s /\ <<>> \o s = s
          <6>1. s \in Seq({s[j] : j \in DOMAIN s})
            BY <5>1 DEF IsSeq
          <6>2. QED
            BY <6>1, ConcatEmptySeq
        <5>2. QED
          BY <3>1, <5>1
      <4>2. QED
        BY <2>1, <3>1, <4>1, NoElements
    <3>2. QED
      BY <3>1
  <2> HIDE DEF x, Absorbed
  <2>3. QED
    BY <1>1, <1>3, <2>1, <2>2
<1>5. ASSUME NEW i \in Nat, i \in S, i + 1 <= N PROVE Good(i + 1)
  <2> DEFINE y == f[i]
             w == f[i + 1]
  <2>1. Good(i) /\ w = Iterate(y)
    <3> HIDE DEF Good, N
    <3>1. i <= N
      BY <1>1, <1>5
    <3>2. Good(i)
      BY <1>5, <3>1
    <3>3. w = Iterate(y)
      BY <1>3, <1>5
    <3>4. QED
      BY <3>2, <3>3
  <2>2. CASE y.data = <<>>
    <3>1. w = y
      BY <2>1, <2>2 DEF Iterate
    <3> HIDE DEF Absorbed
    <3>2. QED
      BY <2>1, <2>2, <3>1
  <2>3. CASE y.data # <<>>
    <3>1. w = Fill(y)
      BY <2>1, <2>3 DEF Iterate
    <3>2. /\ HashShape(y.hash) /\ IsSeq(y.data) /\ Len(y.data) <= N - i
          /\ Len(y.hash.digest) \in Nat /\ Len(y.hash.digest) >= Len(h.digest)
      BY <2>1, <2>3
    <3>3. Absorbed(y)
      BY <2>1
    <3> HIDE DEF y, w
    <3>4. /\ HashShape(w.hash) /\ IsSeq(w.data) /\ Len(w.data) = Len(y.data) - Taken(y)
          /\ Len(w.hash.digest) \in Nat /\ Len(w.hash.digest) >= Len(y.hash.digest)
          /\ Taken(y) \in 1..Len(y.data)
      BY <2>3, <3>1, <3>2, FillShape, FilledRight
    <3>5. ASSUME NEW m, IsSeq(m), Holds(h, m)
          PROVE  \E t : IsSeq(t) /\ data = t \o w.data /\ Holds(w.hash, m \o t)
      <4>1. PICK t : IsSeq(t) /\ data = t \o y.data /\ Holds(y.hash, m \o t)
        BY <3>3, <3>5
      <4>2. IsSeq(m \o t)
        BY <3>5, <4>1, JoinedSeqs
      <4>3. PICK u : IsSeq(u) /\ y.data = u \o w.data /\ Holds(w.hash, (m \o t) \o u)
        BY <2>3, <3>1, <3>2, <4>1, <4>2, FillHolds
      <4>5. (m \o t) \o u = m \o (t \o u) /\ data = (t \o u) \o w.data /\ IsSeq(t \o u)
        <5>1. IsSeq(m) /\ IsSeq(t) /\ IsSeq(u) /\ IsSeq(w.data)
          BY <3>4, <3>5, <4>1, <4>3
        <5>2. (m \o t) \o u = m \o (t \o u) /\ (t \o u) \o w.data = t \o (u \o w.data)
          <6> DEFINE v == w.data
          <6>1. IsSeq(v)
            BY <5>1
          <6> HIDE DEF v
          <6>2. (m \o t) \o u = m \o (t \o u)
            BY <5>1, JoinedAgain, SMTT(30)
          <6>3. (t \o u) \o v = t \o (u \o v)
            BY <5>1, <6>1, JoinedAgain, SMTT(30)
          <6>4. QED
            BY <6>2, <6>3 DEF v
        <5>3. IsSeq(t \o u)
          BY <5>1, JoinedSeqs
        <5>4. data = t \o (u \o w.data)
          BY <4>1, <4>3
        <5>5. QED
          BY <5>2, <5>3, <5>4
      <4>6. QED
        BY <4>3, <4>5
    <3>6. Len(w.data) <= N - (i + 1)
      <4>1. Len(y.data) \in Nat
        BY <3>2, SeqIsFunction
      <4>2. QED
        BY <1>1, <3>2, <3>4, <4>1
    <3>7. Len(w.hash.digest) >= Len(h.digest)
      <4> DEFINE a == Len(h.digest)
                 b == Len(y.hash.digest)
                 c == Len(w.hash.digest)
      <4>1. a \in Nat /\ b \in Nat /\ c \in Nat /\ b >= a /\ c >= b
        BY <1>1, <3>2, <3>4
      <4> HIDE DEF a, b, c
      <4>2. c >= a
        BY <4>1
      <4>3. QED
        BY <4>2 DEF a, c
    <3>8. QED
      BY <3>4, <3>5, <3>6, <3>7 DEF w
  <2>4. QED
    BY <2>2, <2>3
<1>6. ASSUME NEW i \in Nat, i \in S PROVE i + 1 \in S
  <2> HIDE DEF Good
  <2>1. QED
    BY <1>5, <1>6
<1> HIDE DEF S
<1>7. N \in S
  BY <1>1, <1>4, <1>6, NatSets
<1>8. Good(N)
  BY <1>1, <1>7 DEF S
<1>9. f[N].data = <<>>
  <2>1. Len(f[N].data) <= N - N => f[N].data = <<>>
    <3>1. IsSeq(f[N].data)
      BY <1>8
    <3>2. Len(f[N].data) \in Nat
      BY <3>1, SeqIsFunction
    <3>3. QED
      BY <1>1, <3>1, <3>2, NoElements
  <2>2. QED
    BY <1>8, <2>1
<1>10. ASSUME NEW m, IsSeq(m), Holds(h, m) PROVE Holds(f[N].hash, m \o data)
  <2>1. PICK t : IsSeq(t) /\ data = t \o <<>> /\ Holds(f[N].hash, m \o t)
    BY <1>8, <1>9, <1>10
  <2>2. t \o <<>> = t
    <3>1. t \in Seq({t[j] : j \in DOMAIN t})
      BY <2>1 DEF IsSeq
    <3>2. QED
      BY <3>1, ConcatEmptySeq
  <2>3. QED
    BY <2>1, <2>2
<1>11. QED
  BY <1>2, <1>8, <1>10

-----------------------------------------------------------------------------
(* complete(): how much padding there is, and where it leaves the buffer.  *)
PaddingSize(h) ==
    LET room == Block - Field
    IN IF h.size < room THEN room - h.size ELSE Block + room - h.size
PaddingOf(h) == SubSeq(Padding, 1, PaddingSize(h))
PaddedHash(h) == Update(h, PaddingOf(h))
LastBlock(h) == Overwrite(PaddedHash(h).buffer, Block - Field, LengthField(h.total_size))

(* The padding is a part of the table, from its start on. *)
LEMMA PaddingRight ==
    ASSUME NEW h, HashShape(h)
    PROVE  /\ PaddingSize(h) \in 1..Block
           /\ IsSeq(PaddingOf(h)) /\ Len(PaddingOf(h)) = PaddingSize(h)
<1>1. h.size \in 0..(Block - 1) /\ Block \in Nat \ {0} /\ Block - Field \in 1..(Block - 1)
      /\ Field \in Nat
  BY BlockSize, BlockAssumption DEF HashShape
<1>2. PaddingSize(h) \in 1..Block
  BY <1>1 DEF PaddingSize
<1> DEFINE n == PaddingSize(h)
<1>3. n \in Int /\ 1 \in Int /\ 1 <= n /\ (n - 1) + 1 = n
  BY <1>1, <1>2
<1> HIDE DEF n
<1>4. IsSeq(SubSeq(Padding, 1, n)) /\ Len(SubSeq(Padding, 1, n)) = n
  BY <1>3, Sliced
<1>5. QED
  BY <1>2, <1>4 DEF n, PaddingOf

(* The length at the end of a message. *)
LEMMA LengthFieldRight ==
    ASSUME NEW n
    PROVE  IsSeq(LengthField(n)) /\ Len(LengthField(n)) = Field
<1>1. LengthField(n) = [k \in 1..Field |-> LengthField(n)[k]] /\ Field \in Nat
  BY BlockAssumption DEF LengthField
<1>2. QED
  BY <1>1, FunctionIsSeq

(* complete(), field by field. *)
LEMMA CompleteFields ==
    ASSUME NEW h, HashShape(h)
    PROVE  /\ HashShape(Complete(h))
           /\ Complete(h).digest = Append(Append(PaddedHash(h).digest, LastBlock(h)), Swapped)
           /\ Complete(h).digest # <<>>
<1> DEFINE p == PaddedHash(h)
           w == LastBlock(h)
           g == [p EXCEPT !.buffer = w]
           l == Transform(g)
           y == Complete(h)
           F == {"buffer", "size", "total_size", "digest"}
<1>1. HashShape(p)
  BY PaddingRight, UpdateRight DEF PaddedHash
<1>2. /\ Fields(p) /\ IsSeq(p.buffer) /\ Len(p.buffer) = Block /\ p.size \in 0..(Block - 1)
      /\ IsSeq(p.digest)
  BY <1>1 DEF HashShape, Fields
<1>3. y = [l EXCEPT !.digest = Append(@, Swapped)]
  BY DEF Complete, PaddedHash, PaddingOf, PaddingSize, LastBlock
<1> HIDE DEF p, w, y
<1>4. Fields(g) /\ g.buffer = w /\ g.size = p.size /\ g.digest = p.digest
  <2>1. DOMAIN p = F
    BY <1>2, Zenon DEF Fields
  <2>2. g = [x \in F |-> IF x = "buffer" THEN w ELSE p[x]]
    BY <2>1
  <2> HIDE DEF g
  <2>3. /\ g.buffer = w /\ g.size = p.size /\ g.digest = p.digest
        /\ g = [buffer |-> g.buffer, size |-> g.size, total_size |-> g.total_size, digest |-> g.digest]
    BY <2>2
  <2>4. QED
    BY <2>3 DEF Fields
<1> HIDE DEF g
<1>5. /\ Fields(l) /\ l.buffer = Scrambled /\ l.size = p.size
      /\ l.digest = Append(p.digest, w)
  BY <1>4, TransformFields
<1> HIDE DEF l
<1>6. /\ Fields(y) /\ y.buffer = Scrambled /\ y.size = p.size
      /\ y.digest = Append(l.digest, Swapped)
  <2> DEFINE e == Append(l.digest, Swapped)
  <2>1. DOMAIN l = F
    BY <1>5, Zenon DEF Fields
  <2>2. y = [l EXCEPT !.digest = e]
    BY <1>3
  <2> HIDE DEF e
  <2>3. y = [x \in F |-> IF x = "digest" THEN e ELSE l[x]]
    BY <2>1, <2>2
  <2>4. /\ y.buffer = l.buffer /\ y.size = l.size /\ y.digest = e
        /\ y = [buffer |-> y.buffer, size |-> y.size, total_size |-> y.total_size, digest |-> y.digest]
    BY <2>3
  <2>5. QED
    BY <1>5, <2>4 DEF Fields, e
<1>7. IsSeq(l.digest)
  BY <1>2, <1>5, Appended
<1>8. IsSeq(y.digest) /\ Len(y.digest) = Len(l.digest) + 1 /\ Len(l.digest) \in Nat
  BY <1>6, <1>7, Appended
<1>9. HashShape(y)
  BY <1>2, <1>6, <1>8, ScrambledRight DEF HashShape, Fields
<1>10. y.digest # <<>>
  BY <1>8, NoElements
<1>11. QED
  BY <1>5, <1>6, <1>9, <1>10 DEF p, w, y

-----------------------------------------------------------------------------
(* complete()'s padding ends a block short of the length field, where the  *)
(* standard's does: there is one number of zeros below a block that does.  *)
LEMMA PaddingEnds ==
    ASSUME NEW h, HashShape(h), NEW m, IsSeq(m), Holds(h, m)
    PROVE  /\ Len(PaddedHash(h).digest) \in Nat
           /\ Holds(PaddedHash(h), m \o PaddingOf(h))
           /\ PaddedHash(h).size = Block - Field
           /\ Len(m) + PaddingSize(h) = Len(PaddedHash(h).digest) * Block + (Block - Field)
           /\ 1 + Zeros(Len(m)) = PaddingSize(h)
<1> DEFINE p == PaddedHash(h)
           n == PaddingSize(h)
           q == Len(p.digest)
           d == Len(h.digest)
           N == Len(m)
<1>1. /\ HashShape(p) /\ q \in Nat /\ Holds(p, m \o PaddingOf(h))
      /\ n \in 1..Block /\ Len(m \o PaddingOf(h)) = N + n
  BY PaddingRight, UpdateRight, JoinedSeqs DEF PaddedHash
<1>2. /\ N \in Nat /\ d \in Nat /\ h.size \in 0..(Block - 1) /\ p.size \in 0..(Block - 1)
      /\ N = d * Block + h.size /\ N + n = q * Block + p.size
  BY <1>1, SeqIsFunction DEF HashShape, Holds
<1>3. /\ Block \in Nat \ {0} /\ Block - Field \in 0..(Block - 1) /\ Field \in Nat
  BY BlockSize
<1>4. n = (Block - Field) - h.size \/ n = Block + (Block - Field) - h.size
  BY <1>2, <1>3 DEF PaddingSize
<1> HIDE DEF p, n, q, d, N
<1>5. \E e \in Nat : N + n = e * Block + (Block - Field)
  <2>1. CASE n = (Block - Field) - h.size
    <3> DEFINE a == d * Block
    <3>1. a \in Nat /\ N = a + h.size
      BY <1>2, <1>3
    <3> HIDE DEF a
    <3>2. N + n = a + (Block - Field)
      BY <1>2, <1>3, <2>1, <3>1
    <3>3. QED
      BY <1>2, <3>2 DEF a
  <2>2. CASE n = Block + (Block - Field) - h.size
    <3> DEFINE a == d * Block
               b == (d + 1) * Block
    <3>1. a \in Nat /\ N = a + h.size /\ b = a + Block /\ d + 1 \in Nat
      BY <1>2, <1>3
    <3> HIDE DEF a, b
    <3>2. N + n = b + (Block - Field)
      BY <1>2, <1>3, <2>2, <3>1
    <3>3. QED
      BY <3>1, <3>2 DEF b
  <2>3. QED
    BY <1>4, <2>1, <2>2
<1>6. p.size = Block - Field
  <2>1. PICK e \in Nat : N + n = e * Block + (Block - Field)
    BY <1>5
  <2> DEFINE r == p.size
             t == Block - Field
  <2>2. q * Block + r = e * Block + t /\ r \in 0..(Block - 1) /\ t \in 0..(Block - 1)
    BY <1>2, <1>3, <2>1
  <2> HIDE DEF r, t
  <2>3. r = t
    <3>1. Divided(q * Block + r, Block, q, r) /\ Divided(q * Block + r, Block, e, t)
      BY <1>1, <1>3, <2>2 DEF Divided
    <3>2. QED
      BY <3>1, Quotient
  <2>4. QED
    BY <2>3 DEF r, t
<1>7. N + n + Field = (q + 1) * Block /\ q + 1 \in Nat /\ N + n + Field \in Nat
  <2>1. q * Block \in Nat /\ (q + 1) * Block = q * Block + Block
    BY <1>1, <1>3
  <2>2. QED
    BY <1>1, <1>2, <1>3, <1>6, <2>1
<1>8. n - 1 \in 0..(Block - 1) /\ (N + 1 + (n - 1) + Field) % Block = 0
  <2>1. N + 1 + (n - 1) + Field = N + n + Field
    BY <1>1, <1>2, <1>3
  <2>2. (N + n + Field) % Block = 0
    BY <1>3, <1>7, WholeBlocks
  <2>3. QED
    BY <1>1, <1>3, <2>1, <2>2
<1>9. ASSUME NEW z \in 0..(Block - 1), (N + 1 + z + Field) % Block = 0 PROVE z = n - 1
  <2> DEFINE x == N + 1 + z + Field
  <2>1. x \in Nat /\ x % Block = 0
    BY <1>2, <1>3, <1>9
  <2>2. PICK k \in Nat : x = k * Block
    BY <1>3, <2>1, WholeBlocks
  <2>3. k * Block + 0 = x /\ (q + 1) * Block + 0 = N + n + Field
    BY <1>3, <1>7, <2>1, <2>2
  <2>4. CASE z >= n - 1
    <3> DEFINE u == z + 1 - n
    <3>1. x = (N + n + Field) + u
      BY <1>1, <1>2, <1>3
    <3>2. 0 \in 0..(Block - 1) /\ u \in 0..(Block - 1) /\ k * Block + 0 = (q + 1) * Block + u
      <4>1. 0 \in 0..(Block - 1) /\ u \in 0..(Block - 1)
        BY <1>1, <1>3, <2>4
      <4> HIDE DEF x, u
      <4>2. k * Block + 0 = (q + 1) * Block + u
        BY <1>7, <2>1, <2>2, <2>3, <3>1
      <4>3. QED
        BY <4>1, <4>2
    <3> HIDE DEF u
    <3>3. Divided(x, Block, k, 0) /\ Divided(x, Block, q + 1, u)
      <4> HIDE DEF x
      <4>1. QED
        BY <1>3, <1>7, <2>3, <3>2 DEF Divided
    <3>4. 0 = u
      BY <3>3, Quotient
    <3>5. QED
      BY <1>1, <3>4 DEF u
  <2>5. CASE z < n - 1
    <3> DEFINE u == n - 1 - z
    <3>1. /\ 0 \in 0..(Block - 1) /\ u \in 0..(Block - 1) /\ u # 0
          /\ (q + 1) * Block + 0 = k * Block + u
      <4>1. 0 \in 0..(Block - 1) /\ u \in 0..(Block - 1) /\ u # 0
        BY <1>1, <1>3, <2>5
      <4>2. N + n + Field = x + u
        BY <1>1, <1>2, <1>3, SMTT(30)
      <4> HIDE DEF x, u
      <4>3. (q + 1) * Block + 0 = k * Block + u
        BY <1>7, <2>1, <2>2, <2>3, <4>2
      <4>4. QED
        BY <4>1, <4>3
    <3> HIDE DEF u
    <3>2. Divided(k * Block + u, Block, q + 1, 0) /\ Divided(k * Block + u, Block, k, u)
      BY <1>3, <1>7, <3>1 DEF Divided
    <3>3. u = 0
      BY <3>2, Quotient
    <3>4. QED
      BY <3>1, <3>3
  <2>6. QED
    BY <1>1, <2>4, <2>5
<1>10. Zeros(N) = n - 1
  <2>1. \E z \in 0..(Block - 1) : (N + 1 + z + Field) % Block = 0
    BY <1>8
  <2>2. Zeros(N) \in 0..(Block - 1) /\ (N + 1 + Zeros(N) + Field) % Block = 0
    BY <2>1 DEF Zeros
  <2>3. QED
    BY <1>9, <2>2
<1>11. N + n = q * Block + (Block - Field) /\ 1 + Zeros(N) = n
  BY <1>1, <1>2, <1>6, <1>10
<1>12. QED
  BY <1>1, <1>6, <1>11 DEF p, n, q, N

(* The last block: the rest of the padded message and the length behind it. *)
LEMMA LastBlockRight ==
    ASSUME NEW p, HashShape(p), NEW M, IsSeq(M), Holds(p, M), p.size = Block - Field, NEW n
    PROVE  Overwrite(p.buffer, Block - Field, LengthField(n)) =
             SubSeq(M \o LengthField(n), Len(p.digest) * Block + 1, (Len(p.digest) + 1) * Block)
<1> DEFINE R == Block - Field
           L == LengthField(n)
           q == Len(p.digest)
           w == Overwrite(p.buffer, R, L)
           from == q * Block + 1
           to == (q + 1) * Block
           s == M \o L
           v == SubSeq(s, from, to)
<1>1. /\ Block \in Nat \ {0} /\ R \in 1..(Block - 1) /\ Field \in Nat /\ R + Field = Block
  BY BlockSize
<1>2. IsSeq(L) /\ Len(L) = Field
  BY LengthFieldRight
<1>3. /\ IsSeq(p.buffer) /\ Len(p.buffer) = Block /\ q \in Nat /\ Len(M) \in Nat
      /\ Len(M) = q * Block + R /\ \A k \in 1..R : p.buffer[k] = M[q * Block + k]
  BY SeqIsFunction DEF HashShape, Holds
<1>4. q * Block \in Nat /\ to = q * Block + Block
  <2>1. q \in Nat /\ Block \in Nat
    BY <1>1, <1>3
  <2> HIDE DEF q
  <2>2. QED
    BY <2>1, OneMore
<1>5. /\ \A j \in 1..Len(M) : s[j] = M[j]
      /\ \A j \in 1..Field : s[Len(M) + j] = L[j]
  <2> HIDE DEF L
  <2>1. QED
    BY <1>2, JoinedSeqs
<1> HIDE DEF L, s
<1>6. /\ IsSeq(w) /\ Len(w) = Block
      /\ \A k \in 1..Block : w[k] = IF k > R /\ k <= R + Field THEN L[k - R] ELSE p.buffer[k]
  <2> DEFINE b == p.buffer
  <2> HIDE DEF b, R
  <2>1. IsSeq(b) /\ Len(b) = Block /\ R \in Nat
    BY <1>1, <1>3 DEF b
  <2>2. /\ IsSeq(Overwrite(b, R, L)) /\ Len(Overwrite(b, R, L)) = Len(b)
        /\ \A k \in 1..Len(b) : Overwrite(b, R, L)[k] =
                IF k > R /\ k <= R + Len(L) THEN L[k - R] ELSE b[k]
    BY <1>2, <2>1, Overwritten
  <2>3. QED
    BY <1>2, <2>1, <2>2 DEF b
<1>7. IsSeq(v) /\ Len(v) = Block /\ \A k \in 1..Block : v[k] = s[q * Block + k]
  <2>1. from \in Int /\ to \in Int /\ from <= to /\ (to - from) + 1 = Block
    BY <1>1, <1>4
  <2> HIDE DEF from, to
  <2>2. /\ IsSeq(v) /\ Len(v) = (to - from) + 1
        /\ \A k \in 1..((to - from) + 1) : v[k] = s[from + k - 1]
    BY <2>1, Sliced
  <2> HIDE DEF v
  <2>3. \A k \in 1..Block : from + k - 1 = q * Block + k
    BY <1>1, <1>4 DEF from
  <2>4. QED
    BY <2>1, <2>2, <2>3
<1> HIDE DEF R, w, v, from, to
<1>8. ASSUME NEW k \in 1..Block PROVE w[k] = v[k]
  <2>1. CASE k <= R
    <3>1. k \in 1..R /\ ~(k > R) /\ q * Block + k \in 1..Len(M)
      BY <1>1, <1>3, <1>4, <2>1
    <3>2. w[k] = p.buffer[k] /\ v[k] = s[q * Block + k] /\ s[q * Block + k] = M[q * Block + k]
      BY <1>5, <1>6, <1>7, <3>1
    <3>3. QED
      BY <1>3, <3>1, <3>2
  <2>2. CASE k > R
    <3>1. k - R \in 1..Field /\ k <= R + Field /\ q * Block + k = Len(M) + (k - R)
      BY <1>1, <1>3, <1>4, <2>2
    <3>2. w[k] = L[k - R] /\ v[k] = s[q * Block + k] /\ s[Len(M) + (k - R)] = L[k - R]
      BY <1>5, <1>6, <1>7, <2>2, <3>1
    <3>3. QED
      BY <3>1, <3>2
  <2>3. QED
    BY <1>1, <2>1, <2>2
<1>9. w = v
  BY <1>6, <1>7, <1>8, SameSeqs
<1>10. QED
  BY <1>9 DEF R, L, q, w, v, s, from, to

(* complete() gives the digest of what the object has absorbed. *)
LEMMA CompleteRight ==
    ASSUME NEW h, HashShape(h), NEW m, IsSeq(m), Holds(h, m)
    PROVE  Complete(h).digest = Digest(m)
<1> DEFINE p == PaddedHash(h)
           P == PaddingOf(h)
           M == m \o P
           L == LengthField(Len(m))
           s == M \o L
           q == Len(p.digest)
           e == Append(p.digest, LastBlock(h))
           c == [b \in 1..(q + 1) |-> SubSeq(s, (b - 1) * Block + 1, b * Block)]
<1>1. /\ HashShape(p) /\ Holds(p, M) /\ p.size = Block - Field /\ q \in Nat
      /\ Len(m) + PaddingSize(h) = q * Block + (Block - Field)
      /\ 1 + Zeros(Len(m)) = PaddingSize(h)
  BY PaddingEnds, PaddingRight, UpdateRight DEF PaddedHash
<1>2. /\ IsSeq(P) /\ Len(P) = PaddingSize(h) /\ IsSeq(M) /\ Len(M) = Len(m) + Len(P)
      /\ IsSeq(L) /\ Len(L) = Field /\ Len(s) = Len(M) + Len(L)
  <2>1. IsSeq(P) /\ Len(P) = PaddingSize(h)
    BY PaddingRight
  <2>2. IsSeq(L) /\ Len(L) = Field
    BY LengthFieldRight
  <2> HIDE DEF P, L
  <2>3. IsSeq(M) /\ Len(M) = Len(m) + Len(P)
    BY <2>1, JoinedSeqs
  <2> HIDE DEF M
  <2>4. Len(s) = Len(M) + Len(L)
    BY <2>2, <2>3, JoinedSeqs
  <2>5. QED
    BY <2>1, <2>2, <2>3, <2>4
<1>3. Padded(m) = s
  BY <1>1 DEF Padded, PaddingOf
<1>4. Len(s) = (q + 1) * Block /\ Len(s) \in Nat /\ q + 1 \in Nat /\ q * Block <= Len(M)
  <2>1. /\ q * Block \in Nat /\ (q + 1) * Block = q * Block + Block /\ Field \in Nat
        /\ Block \in Nat /\ Block - Field \in Nat
    BY <1>1, BlockSize
  <2> HIDE DEF s, M, L, P, q
  <2>2. Len(M) = q * Block + (Block - Field) /\ Len(s) = Len(M) + Field
    BY <1>1, <1>2
  <2>3. QED
    BY <1>1, <2>1, <2>2
<1>5. Len(s) \div Block = q + 1
  <2> HIDE DEF s, q
  <2>1. QED
    BY <1>4, BlockSize, WholeBlocks
<1>6. Digest(m) = Append(c, Swapped)
  BY <1>3, <1>5 DEF Digest
<1>7. IsSeq(e) /\ Len(e) = q + 1 /\ e[q + 1] = LastBlock(h) /\ \A b \in 1..q : e[b] = p.digest[b]
  <2>1. IsSeq(p.digest)
    BY <1>1 DEF HashShape
  <2>2. QED
    BY <2>1, Appended
<1>8. IsSeq(c) /\ Len(c) = q + 1 /\ \A b \in 1..(q + 1) :
                                        c[b] = SubSeq(s, (b - 1) * Block + 1, b * Block)
  <2>1. c = [b \in 1..(q + 1) |-> c[b]] /\ \A b \in 1..(q + 1) :
                                            c[b] = SubSeq(s, (b - 1) * Block + 1, b * Block)
    OBVIOUS
  <2> HIDE DEF c
  <2>2. QED
    BY <1>4, <2>1, FunctionIsSeq
<1>9. ASSUME NEW b \in 1..q PROVE e[b] = c[b]
  <2>1. p.digest[b] = SubSeq(M, (b - 1) * Block + 1, b * Block)
    BY <1>1 DEF Holds
  <2>2. SubSeq(s, (b - 1) * Block + 1, b * Block) = SubSeq(M, (b - 1) * Block + 1, b * Block)
    <3> HIDE DEF M, L, q
    <3>1. HasBlocks(M, q)
      BY <1>1, <1>2, <1>4 DEF HasBlocks
    <3>2. SameBlock(M, s, b)
      BY <1>1, <1>2, <1>4, <3>1, BlocksStay
    <3>3. QED
      BY <3>2 DEF SameBlock
  <2>3. b \in 1..(q + 1)
    BY <1>1
  <2> HIDE DEF e, c, s, M, q
  <2>4. QED
    BY <1>7, <1>8, <2>1, <2>2, <2>3
<1>10. e[q + 1] = c[q + 1]
  <2>1. h.total_size = Len(m)
    BY DEF Holds
  <2>2. LastBlock(h) = Overwrite(p.buffer, Block - Field, L)
    BY <2>1 DEF LastBlock
  <2>3. Overwrite(p.buffer, Block - Field, L) = SubSeq(s, q * Block + 1, (q + 1) * Block)
    <3> HIDE DEF M, p
    <3>1. QED
      BY <1>1, <1>2, LastBlockRight
  <2>4. q + 1 \in 1..(q + 1) /\ (q + 1) - 1 = q
    BY <1>1
  <2> HIDE DEF e, c, s, L, q, p
  <2>5. QED
    BY <1>7, <1>8, <2>2, <2>3, <2>4
<1> HIDE DEF e, c
<1>11. e = c
  <2>1. \A b \in 1..(q + 1) : b \in 1..q \/ b = q + 1
    BY <1>1
  <2>2. \A b \in 1..Len(e) : e[b] = c[b]
    BY <1>7, <1>9, <1>10, <2>1
  <2>3. QED
    BY <1>7, <1>8, <2>2, SameSeqs
<1>12. Complete(h).digest = Append(e, Swapped)
  BY CompleteFields DEF e
<1>13. QED
  BY <1>6, <1>11, <1>12

-----------------------------------------------------------------------------
(* A new object has absorbed nothing. *)
LEMMA FreshHolds == HashShape(NewHash) /\ Holds(NewHash, <<>>)
<1>1. HashShape(NewHash)
  BY ScrambledRight, NoElements, BlockSize DEF HashShape, NewHash
<1>2. Holds(NewHash, <<>>)
  BY NoElements, BlockSize DEF Holds, NewHash
<1>3. QED
  BY <1>1, <1>2

(* Neither has one after reset(), whatever it was used for. *)
LEMMA ResetHolds ==
    ASSUME NEW h, HashShape(h)
    PROVE  HashShape(ResetHash(h)) /\ Holds(ResetHash(h), <<>>)
<1> DEFINE F == {"buffer", "size", "total_size", "digest"}
           g == ResetHash(h)
<1>1. DOMAIN h = F
  BY Zenon DEF HashShape
<1>2. g = [x \in F |-> IF x = "size" THEN 0 ELSE IF x = "total_size" THEN 0
                       ELSE IF x = "digest" THEN <<>> ELSE h[x]]
  BY <1>1 DEF ResetHash
<1> HIDE DEF g
<1>3. /\ g.buffer = h.buffer /\ g.size = 0 /\ g.total_size = 0 /\ g.digest = <<>>
      /\ g = [buffer |-> g.buffer, size |-> g.size, total_size |-> g.total_size, digest |-> g.digest]
  BY <1>2
<1>4. HashShape(g)
  BY <1>3, NoElements, BlockSize DEF HashShape
<1>5. Holds(g, <<>>)
  BY <1>3, NoElements, BlockSize DEF Holds
<1>6. QED
  BY <1>4, <1>5 DEF g

(* The first update() behind a reset() leaves the object with that data. *)
LEMMA UpdateFresh ==
    ASSUME NEW h, HashShape(h), Holds(h, <<>>), NEW data, IsSeq(data)
    PROVE  HashShape(Update(h, data)) /\ Holds(Update(h, data), data)
<1> DEFINE g == Update(h, data)
           e == <<>>
<1>1. e \o data = data
  BY NothingBefore
<1>2. IsSeq(e) /\ Holds(h, e)
  BY NoElements
<1> HIDE DEF e
<1>3. HashShape(g) /\ Holds(g, e \o data)
  BY <1>2, UpdateRight
<1> HIDE DEF g
<1>4. QED
  BY <1>1, <1>3 DEF g

-----------------------------------------------------------------------------
(* The hash object in use. *)
ShaInv ==
    /\ HashShape(hash) /\ IsSeq(shaMessage)
    /\ shaPhase = "open" => Holds(hash, shaMessage)
    /\ DigestIsOfMessage

(* What the program gives to update() is a sequence. *)
LEMMA DataIsSeq == ASSUME NEW data \in Data PROVE IsSeq(data)
<1>1. PICK n \in 0..MaxUpdate : data \in [1..n -> {<<"data", b, 0>> : b \in Bytes}]
  BY DEF Data
<1>2. n \in Nat /\ data = [k \in 1..n |-> data[k]]
  BY <1>1, UpdateAssumption
<1>3. QED
  BY <1>2, FunctionIsSeq

(* Every step of the object keeps the invariant. *)
LEMMA ShaStep == ASSUME ShaInv, [ShaNext]_shaVars PROVE ShaInv'
<1> USE DEF ShaInv
<1>1. ASSUME NEW data \in Data, ShaUpdate(data) PROVE ShaInv'
  <2>1. IsSeq(data)
    BY DataIsSeq
  <2>2. HashShape(hash') /\ (Holds(hash, shaMessage) => Holds(hash', shaMessage \o data))
    BY <1>1, <2>1, UpdateRight DEF ShaUpdate
  <2>3. IsSeq(shaMessage')
    BY <1>1, <2>1, JoinedSeqs DEF ShaUpdate
  <2>4. shaPhase' # "complete" /\ (shaPhase' = "open" => shaPhase = "open")
    BY <1>1 DEF ShaUpdate, ShaAgain
  <2>5. shaMessage' = shaMessage \o data
    BY <1>1 DEF ShaUpdate
  <2>6. QED
    BY <2>2, <2>3, <2>4, <2>5 DEF DigestIsOfMessage
<1>2. ASSUME ShaComplete PROVE ShaInv'
  <2>1. HashShape(hash') /\ (Holds(hash, shaMessage) => hash'.digest = Digest(shaMessage))
    BY <1>2, CompleteFields, CompleteRight DEF ShaComplete
  <2>2. /\ shaMessage' = shaMessage /\ shaPhase' # "open"
        /\ (shaPhase' = "complete" => shaPhase = "open")
    BY <1>2 DEF ShaComplete
  <2>3. QED
    BY <2>1, <2>2 DEF DigestIsOfMessage
<1>3. ASSUME NEW data \in Data, ShaCalculate(data) PROVE ShaInv'
  <2> DEFINE u == Update(hash, data)
             M == shaMessage \o data
  <2>1. IsSeq(data)
    BY DataIsSeq
  <2>2. HashShape(u) /\ (Holds(hash, shaMessage) => Holds(u, M)) /\ IsSeq(M)
    BY <2>1, UpdateRight, JoinedSeqs
  <2>3. hash' = Complete(u) /\ shaMessage' = M
    BY <1>3 DEF ShaCalculate
  <2> HIDE DEF u, M
  <2>4. HashShape(hash') /\ (Holds(hash, shaMessage) => hash'.digest = Digest(M))
    BY <2>2, <2>3, CompleteFields, CompleteRight
  <2>5. shaPhase' # "open" /\ (shaPhase' = "complete" => shaPhase = "open")
    BY <1>3 DEF ShaCalculate
  <2>6. QED
    BY <2>2, <2>3, <2>4, <2>5 DEF DigestIsOfMessage
<1>4. ASSUME ShaReset PROVE ShaInv'
  <2>1. HashShape(hash') /\ Holds(hash', <<>>)
    BY <1>4, ResetHolds DEF ShaReset
  <2>2. QED
    BY <1>4, <2>1, NoElements DEF ShaReset, DigestIsOfMessage
<1>5. ASSUME UNCHANGED shaVars PROVE ShaInv'
  BY <1>5 DEF shaVars, DigestIsOfMessage
<1>6. QED
  BY <1>1, <1>2, <1>3, <1>4, <1>5 DEF ShaNext

(* DigestIsOfMessage: for every size of the blocks and of the length       *)
(* field, complete() of ez::sha1 and ez::sha2_256 gives the digest of all  *)
(* the data since the last reset(), however it was cut into calls.         *)
THEOREM DigestCorrect == CryptoSpec => []DigestIsOfMessage
<1>1. ShaInit => ShaInv
  BY FreshHolds, NoElements DEF ShaInit, ShaInv, DigestIsOfMessage
<1>2. ShaInv /\ [ShaNext]_shaVars => ShaInv'
  BY ShaStep
<1>3. ShaInv => DigestIsOfMessage
  BY DEF ShaInv
<1>4. QED
  BY <1>1, <1>2, <1>3, ClassesApart, PTL DEF ShaSpec

-----------------------------------------------------------------------------
(* The HMAC object in use: m_hash is untouched before the first set_key()  *)
(* and never empty behind it, and between set_key() and complete() it has  *)
(* absorbed the inner key and the data.                                    *)
HmacInv ==
    /\ HashShape(m_hash) /\ IsSeq(hmacKey) /\ IsSeq(hmacMessage)
    /\ IF hmacPhase = "none" THEN m_hash = NewHash ELSE m_hash.digest # <<>>
    /\ hmacPhase = "keyed" /\ ~hmacDirty =>
         m_key = Xor(Key0, "ipad") /\ Holds(m_hash, Xor(Key0, "ipad") \o hmacMessage)
    /\ ResultIsHmac

(* A digest as bytes. *)
LEMMA DigestBytesRight ==
    ASSUME NEW d
    PROVE  IsSeq(DigestBytes(d)) /\ Len(DigestBytes(d)) = DigestSize
<1>1. DigestBytes(d) = [k \in 1..DigestSize |-> DigestBytes(d)[k]] /\ DigestSize \in Nat
  BY DigestAssumption DEF DigestBytes
<1>2. QED
  BY <1>1, FunctionIsSeq

(* A key of at most a block, filled up to a block. *)
LEMMA FillUpRight ==
    ASSUME NEW s, IsSeq(s), Len(s) <= Block
    PROVE  IsSeq(FillUp(s)) /\ Len(FillUp(s)) = Block
<1> DEFINE n == Block - Len(s)
           z == [k \in 1..n |-> <<"0x00", 0, 0>>]
<1>1. n \in Nat /\ Len(s) \in Nat /\ Block \in Nat /\ Len(s) + n = Block
  BY SeqIsFunction, BlockSize
<1>2. z = [k \in 1..n |-> z[k]]
  OBVIOUS
<1>3. FillUp(s) = s \o z
  BY DEF FillUp
<1> HIDE DEF n, z
<1>4. IsSeq(z) /\ Len(z) = n
  BY <1>1, <1>2, FunctionIsSeq
<1>5. QED
  BY <1>1, <1>3, <1>4, JoinedSeqs

(* m_key ^= pad. *)
LEMMA XorRight ==
    ASSUME NEW s, IsSeq(s), NEW pad
    PROVE  /\ IsSeq(Xor(s, pad)) /\ Len(Xor(s, pad)) = Len(s)
           /\ \A k \in 1..Len(s) : Xor(s, pad)[k] = <<pad, s[k], 0>>
<1>1. /\ Xor(s, pad) = [k \in 1..Len(s) |-> Xor(s, pad)[k]] /\ Len(s) \in Nat
      /\ \A k \in 1..Len(s) : Xor(s, pad)[k] = <<pad, s[k], 0>>
  BY SeqIsFunction DEF Xor
<1>2. IsSeq(Xor(s, pad)) /\ Len(Xor(s, pad)) = Len(s)
  BY <1>1, FunctionIsSeq
<1>3. QED
  BY <1>1, <1>2

(* The key of a block that the standard makes of a key. *)
BlockKey(k) == FillUp(IF Len(k) > Block THEN DigestBytes(Digest(k)) ELSE k)

(* It is a block long. *)
LEMMA BlockKeyRight ==
    ASSUME NEW k, IsSeq(k), NEW d
    PROVE  /\ IsSeq(FillUp(IF Len(k) > Block THEN DigestBytes(d) ELSE k))
           /\ Len(FillUp(IF Len(k) > Block THEN DigestBytes(d) ELSE k)) = Block
<1> DEFINE b == IF Len(k) > Block THEN DigestBytes(d) ELSE k
<1>1. Len(k) \in Nat /\ Block \in Nat /\ DigestSize \in Nat /\ DigestSize <= Block
  BY SeqIsFunction, BlockSize, DigestAssumption
<1>2. IsSeq(b) /\ Len(b) <= Block
  BY <1>1, DigestBytesRight
<1> HIDE DEF b
<1>3. IsSeq(FillUp(b)) /\ Len(FillUp(b)) = Block
  BY <1>2, FillUpRight
<1>4. QED
  BY <1>3 DEF b

(* The keys of the program are sequences. *)
LEMMA HmacKeyIsSeq == ASSUME NEW k \in HmacKeys PROVE IsSeq(k)
<1>1. PICK n \in KeySizes : k = [j \in 1..n |-> <<"key", n, j>>]
  BY DEF HmacKeys
<1>2. n \in Nat /\ k = [j \in 1..n |-> k[j]]
  BY <1>1, DigestAssumption
<1>3. QED
  BY <1>2, FunctionIsSeq

(* An object that has absorbed a whole block has a digest. *)
LEMMA BlockAbsorbed ==
    ASSUME NEW h, HashShape(h), NEW m, IsSeq(m), Holds(h, m), Len(m) = Block
    PROVE  h.digest # <<>>
<1>1. SUFFICES ASSUME h.digest = <<>> PROVE FALSE
  OBVIOUS
<1>2. Block = 0 * Block + h.size /\ h.size \in 0..(Block - 1) /\ Block \in Nat
  BY <1>1, NoElements, BlockSize DEF Holds, HashShape
<1>3. QED
  BY <1>2

(* set_key(): the key of the standard, and m_hash has absorbed its inner   *)
(* key, unless a long key met an m_hash in use.                            *)
LEMMA HmacSetKeyStep ==
    ASSUME HmacInv, NEW k \in HmacKeys, HmacSetKey(k)
    PROVE  HmacInv'
<1> DEFINE long == Len(k) > Block
           used == IF long THEN Complete(Update(m_hash, k)) ELSE m_hash
           key0 == FillUp(IF long THEN DigestBytes(used.digest) ELSE k)
<1>1. /\ m_key' = Xor(key0, "ipad") /\ m_hash' = Update(ResetHash(used), m_key')
      /\ hmacDirty' = (long /\ (m_hash.size # 0 \/ m_hash.digest # <<>>))
      /\ hmacKey' = k /\ hmacMessage' = <<>> /\ hmacPhase' = "keyed"
  BY DEF HmacSetKey
<1>2. IsSeq(k) /\ HashShape(m_hash)
  BY HmacKeyIsSeq DEF HmacInv
<1>3. HashShape(used)
  <2>1. HashShape(Update(m_hash, k))
    BY <1>2, UpdateRight
  <2>2. QED
    BY <1>2, <2>1, CompleteFields
<1>4. IsSeq(key0) /\ Len(key0) = Block
  BY <1>2, BlockKeyRight
<1>5. ASSUME ~hmacDirty' PROVE key0 = BlockKey(k)
  <2>1. CASE ~long
    BY <2>1 DEF BlockKey
  <2>2. CASE long
    <3>1. m_hash = NewHash
      BY <1>1, <1>5, <2>2 DEF HmacInv
    <3>2. used.digest = Digest(k)
      <4> DEFINE u == Update(NewHash, k)
      <4>1. HashShape(u) /\ Holds(u, k)
        BY <1>2, FreshHolds, UpdateFresh
      <4> HIDE DEF u
      <4>2. Complete(u).digest = Digest(k)
        BY <1>2, <4>1, CompleteRight
      <4>3. QED
        BY <2>2, <3>1, <4>2 DEF u
    <3>3. QED
      BY <2>2, <3>2 DEF BlockKey
  <2>3. QED
    BY <2>1, <2>2
<1> HIDE DEF long, used, key0
<1>6. IsSeq(m_key') /\ Len(m_key') = Block
  BY <1>1, <1>4, XorRight
<1>7. HashShape(m_hash') /\ Holds(m_hash', m_key')
  <2> DEFINE r == ResetHash(used)
  <2>1. HashShape(r) /\ Holds(r, <<>>)
    BY <1>3, ResetHolds
  <2>2. m_hash' = Update(r, m_key')
    BY <1>1
  <2> HIDE DEF r
  <2>3. QED
    BY <1>6, <2>1, <2>2, UpdateFresh
<1>8. m_hash'.digest # <<>>
  BY <1>6, <1>7, BlockAbsorbed
<1>9. m_key' \o <<>> = m_key'
  <2>1. m_key' \in Seq({m_key'[j] : j \in DOMAIN m_key'})
    BY <1>6 DEF IsSeq
  <2>2. QED
    BY <2>1, ConcatEmptySeq
<1>10. Key0' = BlockKey(k)
  BY <1>1 DEF Key0, BlockKey
<1>11. ASSUME ~hmacDirty' PROVE m_key' = Xor(Key0', "ipad")
  BY <1>1, <1>5, <1>10, <1>11
<1>12. ASSUME ~hmacDirty'
       PROVE  Holds(m_hash', Xor(Key0', "ipad") \o hmacMessage')
  BY <1>1, <1>7, <1>9, <1>11, <1>12
<1>13. IsSeq(hmacKey') /\ IsSeq(hmacMessage')
  BY <1>1, <1>2, NoElements
<1>14. ResultIsHmac' /\ hmacPhase' = "keyed"
  BY <1>1 DEF ResultIsHmac
<1>15. QED
  BY <1>7, <1>8, <1>11, <1>12, <1>13, <1>14 DEF HmacInv

(* update() goes on with the inner hash. *)
LEMMA HmacUpdateStep ==
    ASSUME HmacInv, NEW b \in Bytes, HmacUpdate(b)
    PROVE  HmacInv'
<1> DEFINE x == <<"data", b, 0>>
           d == <<x>>
           K == Xor(Key0, "ipad")
<1>1. /\ hmacMessage' = Append(hmacMessage, x) /\ m_hash' = Update(m_hash, d)
      /\ m_key' = m_key /\ hmacKey' = hmacKey /\ hmacDirty' = hmacDirty
      /\ hmacPhase # "none" /\ hmacPhase' \in {"keyed", "spent"}
      /\ (hmacPhase' = "keyed" => hmacPhase = "keyed")
  BY DEF HmacUpdate
<1> HIDE DEF x
<1>2. IsSeq(d)
  <2>1. d = [k \in 1..1 |-> d[k]]
    OBVIOUS
  <2> HIDE DEF d
  <2>2. QED
    BY <2>1, FunctionIsSeq
<1>3. IsSeq(hmacMessage) /\ IsSeq(hmacMessage') /\ hmacMessage' = hmacMessage \o d
  <2>1. IsSeq(hmacMessage)
    BY DEF HmacInv
  <2>2. IsSeq(hmacMessage')
    BY <1>1, <2>1, Appended
  <2> DEFINE V == {hmacMessage[j] : j \in DOMAIN hmacMessage} \cup {x}
  <2>3. hmacMessage \in Seq(V) /\ x \in V
    <3>1. ASSUME NEW D, NEW s \in Seq(D), D \subseteq V PROVE s \in Seq(V)
      <4> HIDE DEF V
      <4>1. QED
        BY <3>1, SeqMonotonic
    <3>2. QED
      BY <2>1, <3>1 DEF IsSeq
  <2> HIDE DEF V
  <2>4. Append(hmacMessage, x) = hmacMessage \o <<x>>
    BY <2>3, AppendIsConcat
  <2>5. QED
    BY <1>1, <2>1, <2>2, <2>4
<1> HIDE DEF d
<1>4. /\ HashShape(m_hash') /\ Len(m_hash'.digest) \in Nat
      /\ Len(m_hash'.digest) >= Len(m_hash.digest)
      /\ \A m : IsSeq(m) /\ Holds(m_hash, m) => Holds(m_hash', m \o d)
  BY <1>1, <1>2, UpdateRight DEF HmacInv
<1>5. m_hash'.digest # <<>>
  <2>1. m_hash.digest # <<>> /\ IsSeq(m_hash.digest)
    BY <1>1 DEF HmacInv, HashShape
  <2>2. Len(m_hash.digest) # 0 /\ Len(m_hash.digest) \in Nat
    BY <2>1, NoElements, SeqIsFunction
  <2>3. Len(m_hash'.digest) # 0
    BY <1>4, <2>2
  <2>4. QED
    BY <2>3, NoElements
<1>6. ASSUME hmacPhase' = "keyed", ~hmacDirty'
      PROVE  m_key' = Xor(Key0', "ipad") /\ Holds(m_hash', Xor(Key0', "ipad") \o hmacMessage')
  <2>1. Key0' = Key0
    BY <1>1 DEF Key0
  <2>2. m_key = K /\ Holds(m_hash, K \o hmacMessage)
    BY <1>1, <1>6 DEF HmacInv
  <2>3. IsSeq(K)
    <3>1. IsSeq(Key0)
      <4>1. IsSeq(hmacKey)
        BY DEF HmacInv
      <4>2. QED
        BY <4>1, BlockKeyRight DEF Key0
    <3>2. QED
      BY <3>1, XorRight
  <2> HIDE DEF K
  <2>4. IsSeq(K \o hmacMessage)
    BY <1>3, <2>3, JoinedSeqs
  <2>5. (K \o hmacMessage) \o d = K \o (hmacMessage \o d)
    <3>1. IsSeq(hmacMessage)
      BY <1>3
    <3>2. QED
      BY <1>2, <2>3, <3>1, JoinedAgain
  <2>6. Holds(m_hash', K \o hmacMessage')
    BY <1>3, <1>4, <2>2, <2>4, <2>5
  <2>7. QED
    BY <1>1, <2>1, <2>2, <2>6 DEF K
<1>7. ResultIsHmac' /\ hmacPhase' # "none" /\ IsSeq(hmacKey')
  BY <1>1 DEF ResultIsHmac, HmacInv
<1>8. QED
  BY <1>3, <1>4, <1>5, <1>6, <1>7 DEF HmacInv

(* complete(): the inner digest, then the outer key, which the xor with    *)
(* both pads makes of the inner one, and the inner digest behind it.       *)
LEMMA HmacCompleteStep == ASSUME HmacInv, HmacComplete PROVE HmacInv'
<1> DEFINE inner == Complete(m_hash)
           bare == [k \in 1..Block |-> m_key[k][2]]
           outer_key == Xor(bare, IF m_key[1][1] = "ipad" THEN "opad" ELSE "ipad")
           D == DigestBytes(inner.digest)
           r == ResetHash(inner)
           u == Update(r, outer_key)
           v == Update(u, D)
           outer == Complete(v)
<1>1. /\ m_hash' = outer /\ m_digest' = DigestBytes(outer.digest)
      /\ hmacKey' = hmacKey /\ hmacMessage' = hmacMessage /\ hmacDirty' = hmacDirty
      /\ hmacPhase' \in {"complete", "spent"}
      /\ (hmacPhase' = "complete" => hmacPhase = "keyed")
  BY DEF HmacComplete
<1>2. IsSeq(bare) /\ Len(bare) = Block /\ \A k \in 1..Block : bare[k] = m_key[k][2]
  <2>1. bare = [k \in 1..Block |-> bare[k]] /\ \A k \in 1..Block : bare[k] = m_key[k][2]
    OBVIOUS
  <2> HIDE DEF bare
  <2>2. QED
    BY <2>1, BlockSize, FunctionIsSeq
<1>3. IsSeq(outer_key)
  <2> HIDE DEF bare
  <2>1. QED
    BY <1>2, XorRight
<1>4. HashShape(r) /\ Holds(r, <<>>) /\ IsSeq(D)
  <2>1. HashShape(inner)
    BY CompleteFields DEF HmacInv
  <2> HIDE DEF inner
  <2>2. QED
    BY <2>1, ResetHolds, DigestBytesRight
<1> HIDE DEF r, D
<1>5. HashShape(u) /\ Holds(u, outer_key)
  <2> HIDE DEF outer_key
  <2>1. QED
    BY <1>3, <1>4, UpdateFresh
<1> HIDE DEF u
<1>6. HashShape(v) /\ Holds(v, outer_key \o D) /\ IsSeq(outer_key \o D)
  <2> HIDE DEF outer_key
  <2>1. QED
    BY <1>3, <1>4, <1>5, UpdateRight, JoinedSeqs
<1>7. HashShape(outer) /\ outer.digest = Digest(outer_key \o D) /\ outer.digest # <<>>
  <2> HIDE DEF v, outer_key
  <2>1. QED
    BY <1>6, CompleteFields, CompleteRight
<1> HIDE DEF outer
<1>8. ASSUME hmacPhase = "keyed", ~hmacDirty PROVE m_digest' = HmacOf
  <2>1. m_key = Xor(Key0, "ipad") /\ Holds(m_hash, Xor(Key0, "ipad") \o hmacMessage)
    BY <1>8 DEF HmacInv
  <2>2. IsSeq(Key0) /\ Len(Key0) = Block
    <3>1. IsSeq(hmacKey)
      BY DEF HmacInv
    <3>2. QED
      BY <3>1, BlockKeyRight DEF Key0
  <2> DEFINE K == Xor(Key0, "ipad")
  <2>3. IsSeq(K) /\ Len(K) = Block /\ \A k \in 1..Block : K[k] = <<"ipad", Key0[k], 0>>
    BY <2>2, XorRight
  <2>4. outer_key = Xor(Key0, "opad")
    <3>1. \A k \in 1..Block : bare[k] = Key0[k]
      BY <1>2, <2>1, <2>3
    <3> HIDE DEF bare
    <3>2. bare = Key0
      BY <1>2, <2>2, <3>1, SameSeqs
    <3>3. m_key[1][1] = "ipad"
      BY <2>1, <2>3, BlockSize
    <3>4. QED
      BY <3>2, <3>3
  <2>5. inner.digest = Digest(K \o hmacMessage)
    <3>1. IsSeq(K \o hmacMessage)
      <4> HIDE DEF K
      <4>1. QED
        BY <2>3, JoinedSeqs DEF HmacInv
    <3> DEFINE M == K \o hmacMessage
    <3>2. Holds(m_hash, M) /\ IsSeq(M)
      BY <2>1, <3>1
    <3> HIDE DEF M
    <3>3. Complete(m_hash).digest = Digest(M)
      BY <3>2, CompleteRight DEF HmacInv
    <3>4. QED
      BY <3>3 DEF M
  <2>6. QED
    BY <1>1, <1>7, <2>4, <2>5 DEF HmacOf, D
<1>9. ResultIsHmac'
  <2>1. HmacOf' = HmacOf
    BY <1>1 DEF HmacOf, Key0
  <2>2. QED
    BY <1>1, <1>8, <2>1 DEF ResultIsHmac
<1>10. IsSeq(hmacKey') /\ IsSeq(hmacMessage') /\ hmacPhase' # "none" /\ hmacPhase' # "keyed"
  BY <1>1 DEF HmacInv
<1>11. QED
  BY <1>1, <1>7, <1>9, <1>10 DEF HmacInv

(* ResultIsHmac: for every size of the blocks, the digest and the keys,    *)
(* complete() of ez::hmac gives the HMAC of the data since set_key() under *)
(* its key, whatever the object was used for before, unless a long key     *)
(* was set on an object that was in use.                                   *)
THEOREM HmacCorrect == CryptoSpec => []ResultIsHmac
<1>1. HmacInit => HmacInv
  BY FreshHolds, NoElements DEF HmacInit, HmacInv, ResultIsHmac
<1>2. HmacInv /\ [HmacNext]_hmacVars => HmacInv'
  <2> SUFFICES ASSUME HmacInv, [HmacNext]_hmacVars PROVE HmacInv'
    OBVIOUS
  <2>1. ASSUME NEW k \in HmacKeys, HmacSetKey(k) PROVE HmacInv'
    BY <2>1, HmacSetKeyStep
  <2>2. ASSUME NEW b \in Bytes, HmacUpdate(b) PROVE HmacInv'
    BY <2>2, HmacUpdateStep
  <2>3. ASSUME HmacComplete PROVE HmacInv'
    BY <2>3, HmacCompleteStep
  <2>4. ASSUME UNCHANGED hmacVars PROVE HmacInv'
    BY <2>4 DEF hmacVars, HmacInv, ResultIsHmac, HmacOf, Key0
  <2>5. QED
    BY <2>1, <2>2, <2>3, <2>4 DEF HmacNext
<1>3. HmacInv => ResultIsHmac
  BY DEF HmacInv
<1>4. QED
  BY <1>1, <1>2, <1>3, ClassesApart, PTL DEF HmacSpec

-----------------------------------------------------------------------------
-----------------------------------------------------------------------------
(* One byte of crypt(). *)
Step(c) == LET x == AtByte(c) IN [x EXCEPT !.pos = @ + 1]
Steps(f, c, size) == f = [n \in 0..size |-> IF n = 0 THEN c ELSE Step(f[n - 1])]

(* The recursive function of crypt() exists: Run goes byte by byte. *)
LEMMA RunSteps ==
    ASSUME NEW c, NEW size \in Nat
    PROVE  Steps(Run(c, size), c, size)
<1> DEFINE S == {m \in Nat : \E f : Steps(f, c, m)}
<1>1. 0 \in S
  <2> DEFINE f == [n \in 0..0 |-> c]
  <2>1. Steps(f, c, 0)
    BY DEF Steps
  <2>2. QED
    BY <2>1
<1>2. ASSUME NEW m \in Nat, m \in S PROVE m + 1 \in S
  <2>1. PICK f : Steps(f, c, m)
    BY <1>2
  <2> DEFINE g == [n \in 0..(m + 1) |-> IF n <= m THEN f[n] ELSE Step(f[m])]
  <2>2. /\ \A n \in 0..m : f[n] = IF n = 0 THEN c ELSE Step(f[n - 1])
    BY <2>1 DEF Steps
  <2>3. ASSUME NEW n \in 0..(m + 1) PROVE g[n] = IF n = 0 THEN c ELSE Step(g[n - 1])
    <3>1. CASE n <= m
      <4>1. n \in 0..m /\ (n # 0 => n - 1 \in 0..(m + 1) /\ n - 1 <= m)
        BY <3>1
      <4>2. QED
        BY <2>2, <3>1, <4>1
    <3>2. CASE ~(n <= m)
      <4>1. n = m + 1 /\ n # 0 /\ n - 1 = m /\ m \in 0..(m + 1) /\ m <= m
        BY <3>2
      <4>2. g[m] = f[m] /\ g[n] = Step(f[m])
        BY <3>2, <4>1
      <4> HIDE DEF g
      <4>3. QED
        BY <4>1, <4>2
    <3>3. QED
      BY <3>1, <3>2
  <2>4. Steps(g, c, m + 1)
    <3>1. g = [n \in 0..(m + 1) |-> g[n]]
      OBVIOUS
    <3> HIDE DEF g
    <3>2. QED
      BY <2>3, <3>1 DEF Steps
  <2> HIDE DEF g
  <2>5. QED
    BY <2>4
<1> HIDE DEF S
<1>3. size \in S
  BY <1>1, <1>2, NatSets
<1>4. \E f : Steps(f, c, size)
  BY <1>3 DEF S
<1>5. Run(c, size) = CHOOSE f : Steps(f, c, size)
  BY DEF Run, Steps, Step
<1>6. QED
  BY <1>4, <1>5

(* The object after n bytes, whatever call they were part of. *)
At(c, n) == Run(c, n)[n]

(* Step by step, and independent of how far the call goes on. *)
LEMMA RunIsAt ==
    ASSUME NEW c
    PROVE  /\ At(c, 0) = c
           /\ \A n \in Nat : At(c, n + 1) = Step(At(c, n))
           /\ \A size \in Nat : \A n \in 0..size : Run(c, size)[n] = At(c, n)
<1>1. ASSUME NEW s \in Nat
      PROVE  /\ Run(c, s)[0] = c
             /\ \A n \in Nat : n + 1 <= s => Run(c, s)[n + 1] = Step(Run(c, s)[n])
  <2> DEFINE f == Run(c, s)
  <2>1. f = [n \in 0..s |-> IF n = 0 THEN c ELSE Step(f[n - 1])]
    BY RunSteps DEF Steps
  <2> HIDE DEF f
  <2>2. f[0] = c
    BY <2>1
  <2>3. ASSUME NEW n \in Nat, n + 1 <= s PROVE f[n + 1] = Step(f[n])
    <3>1. n + 1 \in 0..s /\ n + 1 # 0 /\ (n + 1) - 1 = n
      BY <2>3
    <3>2. f[n + 1] = Step(f[(n + 1) - 1])
      BY <2>1, <3>1
    <3>3. QED
      BY <3>1, <3>2
  <2>4. QED
    BY <2>2, <2>3 DEF f
<1> DEFINE S == {n \in Nat : \A s \in Nat : n <= s => Run(c, s)[n] = At(c, n)}
<1>2. 0 \in S
  BY <1>1 DEF At
<1>3. ASSUME NEW n \in Nat, n \in S
      PROVE  n + 1 \in S /\ At(c, n + 1) = Step(At(c, n))
  <2>1. ASSUME NEW s \in Nat, n + 1 <= s PROVE Run(c, s)[n + 1] = Step(At(c, n))
    <3>1. n <= s
      BY <2>1
    <3>2. Run(c, s)[n] = At(c, n)
      BY <1>3, <3>1
    <3>3. QED
      BY <1>1, <2>1, <3>2
  <2>2. n + 1 \in Nat /\ n + 1 <= n + 1
    OBVIOUS
  <2>3. At(c, n + 1) = Step(At(c, n))
    BY <2>1, <2>2 DEF At
  <2>4. QED
    BY <2>1, <2>2, <2>3
<1> HIDE DEF S
<1>4. Nat \subseteq S
  BY <1>2, <1>3, NatSets
<1>5. \A n \in Nat : At(c, n + 1) = Step(At(c, n))
  BY <1>3, <1>4
<1>6. \A size \in Nat : \A n \in 0..size : Run(c, size)[n] = At(c, n)
  BY <1>4 DEF S
<1>7. At(c, 0) = c
  BY <1>1 DEF At
<1>8. QED
  BY <1>5, <1>6, <1>7

(* Two objects that agree on the next byte agree from there on. *)
LEMMA SameFrom ==
    ASSUME NEW c, NEW d, Step(c) = Step(d)
    PROVE  \A n \in Nat : At(c, n + 1) = At(d, n + 1)
<1> DEFINE S == {n \in Nat : At(c, n + 1) = At(d, n + 1)}
<1>1. 0 \in S
  <2>1. ASSUME NEW e PROVE At(e, 0 + 1) = Step(e)
    <3>1. 0 \in Nat /\ At(e, 0) = e /\ \A n \in Nat : At(e, n + 1) = Step(At(e, n))
      BY RunIsAt
    <3>2. QED
      BY <3>1
  <2>2. QED
    BY <2>1
<1>2. ASSUME NEW n \in Nat, n \in S PROVE n + 1 \in S
  <2>1. n + 1 \in Nat
    OBVIOUS
  <2>2. At(c, (n + 1) + 1) = Step(At(c, n + 1)) /\ At(d, (n + 1) + 1) = Step(At(d, n + 1))
    BY <2>1, RunIsAt
  <2>3. QED
    BY <1>2, <2>1, <2>2
<1> HIDE DEF S
<1>3. Nat \subseteq S
  BY <1>1, <1>2, NatSets
<1>4. QED
  BY <1>3 DEF S

Out(c) == [block |-> c.block, at |-> c.pos]

(* The key stream, byte by byte. *)
LEMMA StreamBytes ==
    ASSUME NEW c, NEW size \in Nat
    PROVE  KeyStream(c, size) = [n \in 1..size |-> Out(At(c, n))]
<1>1. \A n \in 1..size : Run(c, size)[n] = At(c, n)
  <2>1. \A n \in 1..size : n \in 0..size
    OBVIOUS
  <2>2. \A n \in 0..size : Run(c, size)[n] = At(c, n)
    BY RunIsAt
  <2>3. QED
    BY <2>1, <2>2
<1>2. KeyStream(c, size) = [n \in 1..size |-> Out(Run(c, size)[n])]
  BY DEF KeyStream, Out
<1>3. QED
  BY <1>1, <1>2

(* The part of it that meets the text, and the object behind it. *)
LEMMA TextBytes ==
    ASSUME NEW c, NEW size \in Nat
    PROVE  /\ TextStream(c, size) = [k \in 1..size |-> Out(At(c, StreamBlock + k))]
           /\ After(c, size) = At(c, StreamBlock + size)
<1> DEFINE N == StreamBlock + size
           u == KeyStream(c, N)
           A == {Out(At(c, n)) : n \in 1..N}
           t == SubSeq(u, StreamBlock + 1, N)
<1>1. N \in Nat /\ StreamBlock \in Nat \ {0} /\ N \in 0..N
  BY StreamAssumption
<1>2. u = [n \in 1..N |-> Out(At(c, n))]
  <2> HIDE DEF N
  <2>1. QED
    BY <1>1, StreamBytes
<1> HIDE DEF u
<1>3. u \in [1..N -> A]
  BY <1>2
<1>4. \A n \in 1..N : u[n] = Out(At(c, n)) /\ u[n] \in A
  BY <1>2
<1> HIDE DEF A
<1>5. u \in Seq(A)
  BY <1>1, <1>3, SeqDef
<1>6. Len(u) = N
  <2>1. DOMAIN u = 1..Len(u) /\ Len(u) \in Nat /\ DOMAIN u = 1..N
    BY <1>3, <1>5, LenProperties
  <2>2. ASSUME NEW a \in Nat, NEW b \in Nat, 1..a = 1..b PROVE a = b
    BY <2>2
  <2> HIDE DEF N
  <2>3. QED
    BY <1>1, <2>1, <2>2
<1>7. /\ t \in Seq(A) /\ Len(t) = size
      /\ \A k \in 1..size : t[k] = Out(At(c, StreamBlock + k))
  <2> DEFINE lo == StreamBlock + 1
  <2>1. lo \in Int /\ N \in Int /\ \A n \in lo..N : n \in 1..N
    BY <1>1
  <2>2. \A n \in lo..N : u[n] \in A
    BY <1>4, <2>1
  <2>3. /\ t \in Seq(A)
        /\ Len(t) = IF lo <= N THEN N - lo + 1 ELSE 0
        /\ \A k \in 1..(N - lo + 1) : t[k] = u[lo + k - 1]
    <3> HIDE DEF lo, N
    <3>1. QED
      BY <2>1, <2>2, SubSeqProperties DEF lo
  <2> HIDE DEF t
  <2>4. N - lo + 1 = size /\ (~(lo <= N) => size = 0)
    BY <1>1
  <2>5. ASSUME NEW k \in 1..size PROVE t[k] = Out(At(c, StreamBlock + k))
    <3>1. lo + k - 1 = StreamBlock + k /\ StreamBlock + k \in 1..N
      BY <1>1
    <3>2. QED
      BY <1>4, <2>3, <2>4, <2>5, <3>1
  <2>6. QED
    BY <2>3, <2>4, <2>5
<1>8. t = [k \in 1..size |-> Out(At(c, StreamBlock + k))]
  <2>1. DOMAIN t = 1..Len(t) /\ t = [k \in DOMAIN t |-> t[k]]
    <3> HIDE DEF t
    <3>1. QED
      BY <1>7, LenProperties, SeqDef
  <2> HIDE DEF t
  <2>2. t = [k \in 1..size |-> t[k]]
    BY <1>7, <2>1
  <2>3. QED
    BY <1>7, <2>2
<1>9. After(c, size) = At(c, N)
  BY <1>1, RunIsAt DEF After
<1>10. QED
  BY <1>8, <1>9 DEF TextStream, t, u

-----------------------------------------------------------------------------
(* m_cipher under the key of the packets. *)
CipherFields == {"rounds", "pos", "key", "low", "high", "rest", "block"}
Cipher(c) ==
    /\ c = [f \in CipherFields |-> c[f]]
    /\ c.pos \in 0..StreamBlock /\ c.key = "key" /\ c.rounds = 20

(* The next byte is the first of a block. *)
AtEnd(c) == c.pos = 0 \/ c.pos = StreamBlock

(* What a byte does to the position and the block. *)
LEMMA StepRight ==
    ASSUME NEW c, Cipher(c)
    PROVE  /\ Cipher(Step(c))
           /\ AtEnd(c) => Step(c).pos = 1 /\ Step(c).block = BlockName(c)
           /\ ~AtEnd(c) => Step(c) = [c EXCEPT !.pos = @ + 1]
           /\ ~AtEnd(c) => Step(c).pos = c.pos + 1 /\ Step(c).block = c.block
           /\ Step(c).pos % StreamBlock = (c.pos + 1) % StreamBlock
<1>1. c.pos \in Nat /\ c.pos <= StreamBlock /\ StreamBlock \in Nat \ {0}
  BY StreamAssumption DEF Cipher
<1>2. CASE AtEnd(c)
  <2> DEFINE d == NextBlock(c)
             x == [d EXCEPT !.pos = @ + 1]
  <2>1. Step(c) = x
    BY <1>1, <1>2 DEF Step, AtByte, AtEnd
  <2>2. /\ d = [f \in CipherFields |-> d[f]] /\ d.pos = 0 /\ d.block = BlockName(c)
        /\ d.key = c.key /\ d.rounds = c.rounds
    BY DEF NextBlock, Cipher, CipherFields
  <2> HIDE DEF d
  <2>3. /\ x = [f \in CipherFields |-> x[f]] /\ x.pos = d.pos + 1 /\ x.block = d.block
        /\ x.key = d.key /\ x.rounds = d.rounds
    BY <2>2 DEF CipherFields
  <2>4. d.pos + 1 = 1 /\ 1 \in 0..StreamBlock
    BY <1>1, <2>2
  <2> HIDE DEF x
  <2>5. Cipher(x) /\ x.pos = 1
    BY <2>2, <2>3, <2>4 DEF Cipher
  <2>6. 1 % StreamBlock = (c.pos + 1) % StreamBlock
    BY <1>1, <1>2 DEF AtEnd
  <2>7. QED
    BY <1>2, <2>1, <2>2, <2>3, <2>5, <2>6
<1>3. CASE ~AtEnd(c)
  <2> DEFINE x == [c EXCEPT !.pos = @ + 1]
  <2>1. ~(c.pos = 0 \/ c.pos >= StreamBlock)
    BY <1>1, <1>3 DEF AtEnd
  <2>2. Step(c) = x
    BY <2>1 DEF Step, AtByte
  <2>3. /\ x = [f \in CipherFields |-> x[f]] /\ x.pos = c.pos + 1 /\ x.block = c.block
        /\ x.key = c.key /\ x.rounds = c.rounds
    BY DEF Cipher, CipherFields
  <2>4. c.pos + 1 \in 0..StreamBlock
    BY <1>1, <2>1
  <2>5. Cipher(x)
    <3> HIDE DEF x
    <3>1. QED
      BY <2>3, <2>4 DEF Cipher
  <2>6. QED
    BY <1>3, <2>2, <2>3, <2>5
<1>4. QED
  BY <1>2, <1>3

(* The position tells how many bytes were made, up to whole blocks. *)
LEMMA AtRight ==
    ASSUME NEW c, Cipher(c)
    PROVE  \A n \in Nat : /\ Cipher(At(c, n))
                          /\ At(c, n).pos % StreamBlock = (c.pos + n) % StreamBlock
<1> DEFINE S == {n \in Nat : /\ Cipher(At(c, n))
                             /\ At(c, n).pos % StreamBlock = (c.pos + n) % StreamBlock}
<1>1. At(c, 0) = c /\ \A n \in Nat : At(c, n + 1) = Step(At(c, n))
  BY RunIsAt
<1>2. c.pos \in Nat /\ StreamBlock \in Nat \ {0} /\ c.pos + 0 = c.pos
  BY StreamAssumption DEF Cipher
<1>3. 0 \in S
  BY <1>1, <1>2
<1>4. ASSUME NEW n \in Nat, n \in S PROVE n + 1 \in S
  <2> DEFINE d == At(c, n)
             a == c.pos + n
  <2>1. Cipher(d) /\ d.pos % StreamBlock = a % StreamBlock
    BY <1>4
  <2>2. At(c, n + 1) = Step(d)
    BY <1>1
  <2>3. d.pos \in Nat /\ a \in Nat /\ c.pos + (n + 1) = a + 1
    BY <1>2, <2>1 DEF Cipher
  <2> HIDE DEF d, a
  <2>5. Cipher(Step(d)) /\ Step(d).pos % StreamBlock = (d.pos + 1) % StreamBlock
    BY <2>1, StepRight
  <2>6. (d.pos + 1) % StreamBlock = (a + 1) % StreamBlock
    BY <1>2, <2>1, <2>3, NextMod
  <2>7. QED
    BY <2>2, <2>3, <2>5, <2>6
<1> HIDE DEF S
<1>5. Nat \subseteq S
  BY <1>3, <1>4, NatSets
<1>6. QED
  BY <1>5 DEF S

(* set_iv() for packet n. *)
Started(c, n) == WithIv(c, PacketIv(n))

(* It sets the counter and the iv; the position and the block stay. *)
LEMMA StartedRight ==
    ASSUME NEW c, Cipher(c), NEW n
    PROVE  /\ Cipher(Started(c, n)) /\ Started(c, n).pos = c.pos /\ Started(c, n).block = c.block
           /\ Started(c, n) = [rounds |-> 20, pos |-> c.pos, key |-> "key", low |-> 0, high |-> 0,
                               rest |-> n, block |-> c.block]
<1> DEFINE x == Started(c, n)
<1>1. PacketIv(n).size # 8 /\ PacketIv(n).first = 0 /\ PacketIv(n).rest = n
  BY DEF PacketIv
<1>2. /\ x = [f \in CipherFields |-> x[f]] /\ x.pos = c.pos /\ x.key = c.key
      /\ x.rounds = c.rounds /\ x.block = c.block /\ x.low = 0 /\ x.high = 0 /\ x.rest = n
  BY <1>1 DEF Started, WithIv, Cipher, CipherFields
<1> HIDE DEF x
<1>3. Cipher(x)
  BY <1>2 DEF Cipher
<1>4. x = [rounds |-> 20, pos |-> c.pos, key |-> "key", low |-> 0, high |-> 0,
           rest |-> n, block |-> c.block]
  BY <1>2 DEF CipherFields, Cipher
<1>5. QED
  BY <1>2, <1>3, <1>4 DEF x

(* Two objects that set_iv() was called on for the same packet: what makes *)
(* them agree on the next byte, and what the next byte tells of them.      *)
LEMMA NextByte ==
    ASSUME NEW c, Cipher(c), NEW d, Cipher(d), NEW n
    PROVE  /\ AtEnd(c) /\ AtEnd(d) => Step(Started(c, n)) = Step(Started(d, n))
           /\ c.pos = d.pos /\ c.block = d.block => Started(c, n) = Started(d, n)
           /\ Out(Step(Started(c, n))) = Out(Step(Started(d, n)))
                 => Step(Started(c, n)) = Step(Started(d, n))
<1> DEFINE x == Started(c, n)
           y == Started(d, n)
<1>1. /\ Cipher(x) /\ x.pos = c.pos /\ x.block = c.block
      /\ x = [rounds |-> 20, pos |-> c.pos, key |-> "key", low |-> 0, high |-> 0,
              rest |-> n, block |-> c.block]
  BY StartedRight
<1>2. /\ Cipher(y) /\ y.pos = d.pos /\ y.block = d.block
      /\ y = [rounds |-> 20, pos |-> d.pos, key |-> "key", low |-> 0, high |-> 0,
              rest |-> n, block |-> d.block]
  BY StartedRight
<1> HIDE DEF x, y
<1>3. c.pos = d.pos /\ c.block = d.block => x = y
  BY <1>1, <1>2
<1>4. AtEnd(x) /\ AtEnd(y) => Step(x) = Step(y)
  <2> HAVE AtEnd(x) /\ AtEnd(y)
  <2>2. NextBlock(x) = NextBlock(y)
    <3>1. BlockName(x) = BlockName(y)
      BY <1>1, <1>2 DEF BlockName
    <3> DEFINE b == BlockName(x)
               low == (0 + 1) % CounterSize
               next(z) == [z EXCEPT !.block = b, !.low = low, !.pos = 0,
                                    !.high = IF low = 0 THEN (@ + 1) % CounterSize ELSE @]
    <3>2. NextBlock(x) = next(x) /\ NextBlock(y) = next(y)
      BY <1>1, <1>2, <3>1 DEF NextBlock
    <3> DEFINE high == IF low = 0 THEN (0 + 1) % CounterSize ELSE 0
               same == [rounds |-> 20, pos |-> 0, key |-> "key", low |-> low, high |-> high,
                        rest |-> n, block |-> b]
    <3>3. ASSUME NEW p, NEW a,
                 NEW z, z = [rounds |-> 20, pos |-> p, key |-> "key", low |-> 0, high |-> 0,
                             rest |-> n, block |-> a]
          PROVE  next(z) = same
      <4>1. next(z) = [z EXCEPT !.block = b, !.low = low, !.pos = 0, !.high = high]
        BY <3>3
      <4> HIDE DEF b, low, high, next
      <4>2. QED
        BY <3>3, <4>1
    <3> HIDE DEF b, low, high, next, same
    <3>4. next(x) = same /\ next(y) = same
      BY <1>1, <1>2, <3>3
    <3>5. QED
      BY <3>2, <3>4
  <2>3. Step(x) = [NextBlock(x) EXCEPT !.pos = @ + 1]
    BY StreamAssumption DEF Step, AtByte, AtEnd
  <2>4. Step(y) = [NextBlock(y) EXCEPT !.pos = @ + 1]
    BY StreamAssumption DEF Step, AtByte, AtEnd
  <2>5. QED
    BY <2>2, <2>3, <2>4
<1>5. Out(Step(x)) = Out(Step(y)) => Step(x) = Step(y)
  <2> HAVE Out(Step(x)) = Out(Step(y))
  <2>1. Step(x).pos = Step(y).pos /\ Step(x).block = Step(y).block
    BY DEF Out
  <2>2. /\ AtEnd(x) => Step(x).pos = 1
        /\ ~AtEnd(x) => Step(x).pos = x.pos + 1 /\ Step(x).block = x.block
        /\ AtEnd(y) => Step(y).pos = 1
        /\ ~AtEnd(y) => Step(y).pos = y.pos + 1 /\ Step(y).block = y.block
    BY <1>1, <1>2, StepRight
  <2>3. x.pos \in Nat /\ y.pos \in Nat
    BY <1>1, <1>2, StreamAssumption DEF Cipher
  <2>4. ~AtEnd(x) => x.pos > 0
    BY <2>3 DEF AtEnd
  <2>5. ~AtEnd(y) => y.pos > 0
    BY <2>3 DEF AtEnd
  <2>6. (AtEnd(x) /\ AtEnd(y)) \/ (~AtEnd(x) /\ ~AtEnd(y))
    BY <2>1, <2>2, <2>3, <2>4, <2>5
  <2>7. ~AtEnd(x) /\ ~AtEnd(y) => x.pos = y.pos /\ x.block = y.block
    BY <2>1, <2>2, <2>3
  <2>8. QED
    BY <1>1, <1>2, <1>3, <1>4, <2>6, <2>7
<1>6. AtEnd(c) /\ AtEnd(d) => AtEnd(x) /\ AtEnd(y)
  BY <1>1, <1>2 DEF AtEnd
<1>7. QED
  BY <1>3, <1>4, <1>5, <1>6 DEF x, y

-----------------------------------------------------------------------------
(* What the tag covers ends with the two sizes, and they tell where aad    *)
(* and the text are.                                                       *)
Laid(d, aad, text) ==
    LET a == Len(aad)
        t == Len(text)
        pa == Len(Pad(a))
        pt == Len(Pad(t))
    IN /\ a \in Nat /\ t \in Nat /\ pa \in Nat /\ pt \in Nat
       /\ Len(d) = a + pa + t + pt + 2
       /\ d[a + pa + t + pt + 1] = SizeField(a) /\ d[a + pa + t + pt + 2] = SizeField(t)
       /\ \A j \in 1..a : d[j] = aad[j]
       /\ \A j \in 1..t : d[a + pa + j] = text[j]

(* Where the parts of the data under a tag lie. *)
LEMMA TagDataLaid ==
    ASSUME NEW A, NEW aad \in Seq(A), NEW text \in Seq(A)
    PROVE  Laid(TagData(aad, text), aad, text)
<1> DEFINE a == Len(aad)
           t == Len(text)
           zero == Clear(<<"0x00", 0, 0>>)
           V == A \cup {zero, SizeField(a), SizeField(t)}
           P == Pad(a)
           Q == Pad(t)
           z == <<SizeField(a), SizeField(t)>>
           u1 == aad \o P
           u2 == u1 \o text
           u3 == u2 \o Q
           d == u3 \o z
<1>1. a \in Nat /\ t \in Nat
  BY LenProperties
<1>2. aad \in Seq(V) /\ text \in Seq(V)
  <2>1. A \subseteq V
    OBVIOUS
  <2> HIDE DEF V
  <2>2. QED
    BY <2>1, SeqMonotonic
<1>3. ASSUME NEW s \in Nat PROVE Pad(s) \in Seq(V)
  <2> DEFINE N == (MacPad - (s % MacPad)) % MacPad
  <2>1. N \in Nat
    <3>1. s % MacPad \in 0..(MacPad - 1) /\ MacPad \in Nat \ {0}
      BY PadAssumption
    <3> DEFINE y == s % MacPad
    <3> HIDE DEF y
    <3>2. MacPad - y \in Nat
      BY <3>1 DEF y
    <3>3. \A x \in Nat : x % MacPad \in Nat
      BY <3>1
    <3>4. QED
      BY <3>2, <3>3 DEF y
  <2>2. Pad(s) = [k \in 1..N |-> zero]
    BY DEF Pad
  <2> HIDE DEF N
  <2>3. Pad(s) \in [1..N -> V]
    BY <2>2
  <2> HIDE DEF V
  <2>4. QED
    BY <2>1, <2>3, SeqDef
<1>4. P \in Seq(V) /\ Q \in Seq(V)
  BY <1>1, <1>3
<1>5. z \in Seq(V) /\ Len(z) = 2 /\ z[1] = SizeField(a) /\ z[2] = SizeField(t)
  OBVIOUS
<1> HIDE DEF V, P, Q, z, a, t
<1>5a. ASSUME NEW s \in Seq(V), NEW w \in Seq(V)
       PROVE  /\ s \o w \in Seq(V) /\ Len(s \o w) = Len(s) + Len(w)
              /\ Len(s) \in Nat /\ Len(w) \in Nat
              /\ \A j \in 1..Len(s) : (s \o w)[j] = s[j]
              /\ \A j \in 1..Len(w) : (s \o w)[Len(s) + j] = w[j]
  BY Joined
<1>6. /\ u1 \in Seq(V) /\ Len(u1) = a + Len(P) /\ Len(P) \in Nat
      /\ \A j \in 1..a : u1[j] = aad[j]
  BY <1>2, <1>4, Joined DEF a
<1> HIDE DEF u1
<1>7. /\ u2 \in Seq(V) /\ Len(u2) = Len(u1) + t
      /\ \A j \in 1..Len(u1) : u2[j] = u1[j]
      /\ \A j \in 1..t : u2[Len(u1) + j] = text[j]
  <2>1. /\ u1 \o text \in Seq(V) /\ Len(u1 \o text) = Len(u1) + Len(text)
        /\ \A j \in 1..Len(u1) : (u1 \o text)[j] = u1[j]
        /\ \A j \in 1..Len(text) : (u1 \o text)[Len(u1) + j] = text[j]
    BY <1>2, <1>5a, <1>6
  <2>2. QED
    BY <2>1 DEF t
<1> HIDE DEF u2
<1>8. /\ u3 \in Seq(V) /\ Len(u3) = Len(u2) + Len(Q) /\ Len(Q) \in Nat
      /\ \A j \in 1..Len(u2) : u3[j] = u2[j]
  BY ZenonT(30), <1>4, <1>7, Joined
<1> HIDE DEF u3
<1>9. /\ Len(d) = Len(u3) + 2 /\ Len(u3) \in Nat
      /\ \A j \in 1..Len(u3) : d[j] = u3[j]
      /\ d[Len(u3) + 1] = SizeField(a) /\ d[Len(u3) + 2] = SizeField(t)
  <2>1. /\ Len(d) = Len(u3) + Len(z) /\ Len(u3) \in Nat
        /\ \A j \in 1..Len(u3) : d[j] = u3[j]
        /\ \A j \in 1..Len(z) : d[Len(u3) + j] = z[j]
    BY <1>5, <1>5a, <1>8
  <2> HIDE DEF d
  <2>2. 1 \in 1..Len(z) /\ 2 \in 1..Len(z)
    BY <1>5
  <2>3. QED
    BY <1>5, <2>1, <2>2
<1> HIDE DEF d
<1>10. Len(u3) = a + Len(P) + t + Len(Q)
  BY <1>1, <1>6, <1>7, <1>8
<1>11. Len(d) = a + Len(P) + t + Len(Q) + 2
  BY <1>9, <1>10
<1>12. \A j \in 1..a : d[j] = aad[j]
  <2> TAKE j \in 1..a
  <2>1. j \in 1..Len(u1) /\ j \in 1..Len(u2) /\ j \in 1..Len(u3)
    BY <1>1, <1>6, <1>7, <1>8
  <2>2. QED
    BY <1>6, <1>7, <1>8, <1>9, <2>1
<1>13. \A j \in 1..t : d[a + Len(P) + j] = text[j]
  <2> TAKE j \in 1..t
  <2>1. Len(u1) + j \in 1..Len(u2) /\ Len(u1) + j \in 1..Len(u3)
    BY <1>1, <1>6, <1>7, <1>8
  <2>2. d[Len(u1) + j] = text[j]
    BY <1>7, <1>8, <1>9, <2>1
  <2>3. QED
    BY <1>6, <2>2
<1>14. d = TagData(aad, text)
  BY DEF TagData, d, u3, u2, u1, P, Q, z, a, t
<1>15. QED
  BY <1>1, <1>6, <1>8, <1>9, <1>10, <1>11, <1>12, <1>13, <1>14 DEF Laid, P, Q, a, t

(* Two packets with the same data under the tag are the same. *)
LEMMA TagDataInjective ==
    ASSUME NEW aad1, IsSeq(aad1), NEW text1, IsSeq(text1),
           NEW aad2, IsSeq(aad2), NEW text2, IsSeq(text2),
           TagData(aad1, text1) = TagData(aad2, text2)
    PROVE  aad1 = aad2 /\ text1 = text2
<1> DEFINE Parts(s) == {s[j] : j \in DOMAIN s}
           A == Parts(aad1) \cup Parts(text1) \cup Parts(aad2) \cup Parts(text2)
<1>1. aad1 \in Seq(A) /\ text1 \in Seq(A) /\ aad2 \in Seq(A) /\ text2 \in Seq(A)
  <2>1. ASSUME NEW s, IsSeq(s), Parts(s) \subseteq A PROVE s \in Seq(A)
    <3>1. s \in Seq(Parts(s))
      BY <2>1 DEF IsSeq
    <3> HIDE DEF Parts, A
    <3>2. QED
      BY <2>1, <3>1, SeqMonotonic
  <2>2. QED
    BY <2>1
<1> HIDE DEF A
<1> DEFINE a1 == Len(aad1)
           t1 == Len(text1)
           a2 == Len(aad2)
           t2 == Len(text2)
           d == TagData(aad1, text1)
           p1 == Len(Pad(a1))
           q1 == Len(Pad(t1))
           p2 == Len(Pad(a2))
           q2 == Len(Pad(t2))
<1>2. /\ a1 \in Nat /\ t1 \in Nat /\ p1 \in Nat /\ q1 \in Nat
      /\ Len(d) = a1 + p1 + t1 + q1 + 2
      /\ d[a1 + p1 + t1 + q1 + 1] = SizeField(a1) /\ d[a1 + p1 + t1 + q1 + 2] = SizeField(t1)
      /\ \A j \in 1..a1 : d[j] = aad1[j]
      /\ \A j \in 1..t1 : d[a1 + p1 + j] = text1[j]
  <2>1. Laid(d, aad1, text1)
    BY <1>1, TagDataLaid
  <2> HIDE DEF d
  <2>2. QED
    BY <2>1 DEF Laid
<1>3. /\ a2 \in Nat /\ t2 \in Nat /\ p2 \in Nat /\ q2 \in Nat
      /\ Len(d) = a2 + p2 + t2 + q2 + 2
      /\ d[a2 + p2 + t2 + q2 + 1] = SizeField(a2) /\ d[a2 + p2 + t2 + q2 + 2] = SizeField(t2)
      /\ \A j \in 1..a2 : d[j] = aad2[j]
      /\ \A j \in 1..t2 : d[a2 + p2 + j] = text2[j]
  <2>1. Laid(d, aad2, text2)
    BY <1>1, TagDataLaid
  <2> HIDE DEF d
  <2>2. QED
    BY <2>1 DEF Laid
<1>4. a1 = a2 /\ t1 = t2
  <2> HIDE DEF d, a1, t1, a2, t2, p1, p2, q1, q2
  <2>1. a1 + p1 + t1 + q1 + 1 = a2 + p2 + t2 + q2 + 1
        /\ a1 + p1 + t1 + q1 + 2 = a2 + p2 + t2 + q2 + 2
    BY <1>2, <1>3
  <2>2. SizeField(a1) = SizeField(a2) /\ SizeField(t1) = SizeField(t2)
    BY <1>2, <1>3, <2>1
  <2>3. ASSUME NEW m, NEW n, SizeField(m) = SizeField(n) PROVE m = n
    BY <2>3 DEF SizeField, Clear
  <2>4. QED
    BY <2>2, <2>3
<1>5. p1 = p2
  BY <1>4
<1> HIDE DEF d, p1, p2, q1, q2
<1>6. \A j \in 1..a1 : aad1[j] = aad2[j]
  BY <1>2, <1>3, <1>4
<1>7. \A j \in 1..t1 : text1[j] = text2[j]
  BY <1>2, <1>3, <1>4, <1>5
<1>8. QED
  BY <1>1, <1>4, <1>6, <1>7, SeqEqual

-----------------------------------------------------------------------------
(* Two objects that agree on the next byte make the same tag key and the   *)
(* same key stream for the text; the tag key tells whether they agree.     *)
LEMMA HalfBlock == Half \in Nat \ {0} /\ 1 \in 1..Half
  BY StreamAssumption, PadAssumption DEF Half

(* Agreeing on the next byte is enough for the whole packet. *)
LEMMA SameStreams ==
    ASSUME NEW x, NEW y, Step(x) = Step(y), NEW size \in Nat
    PROVE  TagKey(x) = TagKey(y) /\ TextStream(x, size) = TextStream(y, size)
<1>1. \A n \in Nat : At(x, n + 1) = At(y, n + 1)
  BY SameFrom
<1>2. ASSUME NEW n \in Nat, n > 0 PROVE At(x, n) = At(y, n)
  <2>1. n - 1 \in Nat /\ (n - 1) + 1 = n
    BY <1>2
  <2>2. QED
    BY <1>1, <2>1
<1>3. TagKey(x) = TagKey(y)
  <2>1. \A n \in 1..Half : At(x, n) = At(y, n)
    BY <1>2, HalfBlock
  <2>2. /\ TagKey(x) = [n \in 1..Half |-> Out(At(x, n))]
        /\ TagKey(y) = [n \in 1..Half |-> Out(At(y, n))]
    BY HalfBlock, StreamBytes DEF TagKey
  <2>3. QED
    BY <2>1, <2>2
<1>4. TextStream(x, size) = TextStream(y, size)
  <2>1. \A k \in 1..size : At(x, StreamBlock + k) = At(y, StreamBlock + k)
    <3> TAKE k \in 1..size
    <3>1. StreamBlock + k \in Nat /\ StreamBlock + k > 0
      BY StreamAssumption
    <3>2. QED
      BY <1>2, <3>1
  <2>2. /\ TextStream(x, size) = [k \in 1..size |-> Out(At(x, StreamBlock + k))]
        /\ TextStream(y, size) = [k \in 1..size |-> Out(At(y, StreamBlock + k))]
    BY TextBytes
  <2>3. QED
    BY <2>1, <2>2
<1>5. QED
  BY <1>3, <1>4

(* Equal tag keys show that the two objects agree on the next byte. *)
LEMMA KeyTells ==
    ASSUME NEW c, Cipher(c), NEW d, Cipher(d), NEW n,
           TagKey(Started(c, n)) = TagKey(Started(d, n))
    PROVE  Step(Started(c, n)) = Step(Started(d, n))
<1>1. ASSUME NEW x PROVE TagKey(x)[1] = Out(Step(x))
  <2>1. TagKey(x) = [m \in 1..Half |-> Out(At(x, m))]
    BY HalfBlock, StreamBytes DEF TagKey
  <2>2. At(x, 1) = Step(x)
    <3>1. At(x, 0) = x /\ At(x, 0 + 1) = Step(At(x, 0)) /\ 0 + 1 = 1
      BY RunIsAt
    <3>2. QED
      BY <3>1
  <2>3. QED
    BY <2>1, <2>2, HalfBlock
<1>2. Out(Step(Started(c, n))) = Out(Step(Started(d, n)))
  BY <1>1
<1>3. QED
  BY <1>2, NextByte

-----------------------------------------------------------------------------
(* Packet n, sealed by an object in state c. *)
Plain(n, size) == [k \in 1..size |-> <<"text", n, k>>]
Aad(n, size) == [k \in 1..size |-> Clear(<<"aad", n, k>>)]
Sealed(c, n, ts, as) ==
    LET x == Started(c, n)
        text == Xored(Plain(n, ts), TextStream(x, ts))
    IN [plain |-> Plain(n, ts), aad |-> Aad(n, as), text |-> text,
        tag |-> Tag(x, Aad(n, as), text), sealedAt |-> c.pos]

SealedRight(p, c, n, ts) ==
    LET s == TextStream(Started(c, n), ts) IN
    /\ IsSeq(p.aad) /\ IsSeq(p.text) /\ Len(p.text) = ts
    /\ p.text = [k \in 1..ts |-> [byte |-> p.plain[k], with |-> <<s[k]>>]]
    /\ p.plain = [k \in 1..ts |-> p.plain[k]]
    /\ p.tag = Tag(Started(c, n), p.aad, p.text) /\ p.sealedAt = c.pos

(* The parts of a sealed packet. *)
LEMMA SealedParts ==
    ASSUME NEW c, NEW n, NEW ts \in Nat, NEW as \in Nat
    PROVE  SealedRight(Sealed(c, n, ts, as), c, n, ts)
<1> DEFINE p == Sealed(c, n, ts, as)
           s == TextStream(Started(c, n), ts)
<1>1. /\ p.plain = Plain(n, ts) /\ p.aad = Aad(n, as) /\ p.text = Xored(Plain(n, ts), s)
      /\ p.tag = Tag(Started(c, n), p.aad, p.text) /\ p.sealedAt = c.pos
  BY DEF Sealed
<1> HIDE DEF p, s
<1>2. p.plain = [k \in 1..ts |-> p.plain[k]] /\ p.aad = [k \in 1..as |-> p.aad[k]]
  BY <1>1 DEF Plain, Aad
<1>3. IsSeq(p.aad) /\ Len(p.plain) = ts
  BY <1>2, FunctionIsSeq
<1>4. p.text = [k \in 1..ts |-> [byte |-> p.plain[k], with |-> <<s[k]>>]]
  BY <1>1, <1>3 DEF Xored
<1>5. p.text = [k \in 1..ts |-> p.text[k]]
  BY <1>4
<1>6. IsSeq(p.text) /\ Len(p.text) = ts
  BY <1>5, FunctionIsSeq
<1>7. QED
  <2>1. SealedRight(p, c, n, ts)
    BY <1>1, <1>2, <1>3, <1>4, <1>6 DEF SealedRight, s
  <2>2. QED
    BY <2>1 DEF p

(* A part of a sequence, and two joined. *)
LEMMA PartsAreSeqs ==
    ASSUME NEW s, IsSeq(s), NEW t, IsSeq(t), NEW k \in Nat, k <= Len(t)
    PROVE  /\ Len(s) \in Nat /\ Len(t) \in Nat
           /\ IsSeq(s \o SubSeq(t, 1, k)) /\ IsSeq(SubSeq(t, k + 1, Len(t)))
<1> DEFINE A == {s[j] : j \in DOMAIN s} \cup {t[j] : j \in DOMAIN t}
<1>1. s \in Seq(A) /\ t \in Seq(A)
  <2>1. ASSUME NEW B, NEW u \in Seq(B), B \subseteq A PROVE u \in Seq(A)
    <3> HIDE DEF A
    <3>1. QED
      BY <2>1, SeqMonotonic
  <2>2. QED
    BY <2>1 DEF IsSeq
<1> HIDE DEF A
<1>2. ASSUME NEW u \in Seq(A) PROVE IsSeq(u)
  <2>1. Len(u) \in Nat /\ u = [j \in 1..Len(u) |-> u[j]]
    <3>1. Len(u) \in Nat /\ DOMAIN u = 1..Len(u) /\ u \in [1..Len(u) -> A]
      BY LenProperties
    <3>2. QED
      BY <3>1
  <2>2. QED
    BY <2>1, FunctionIsSeq
<1>3. Len(s) \in Nat /\ Len(t) \in Nat /\ \A j \in 1..Len(t) : t[j] \in A
  BY <1>1, LenProperties, ElementOfSeq
<1>4. SubSeq(t, 1, k) \in Seq(A)
  <2>1. \A j \in 1..k : t[j] \in A
    BY <1>3
  <2>2. QED
    BY <1>1, <2>1, SubSeqProperties
<1>5. SubSeq(t, k + 1, Len(t)) \in Seq(A)
  <2>1. \A j \in (k + 1)..Len(t) : t[j] \in A
    BY <1>3
  <2>2. QED
    BY <1>1, <1>3, <2>1, SubSeqProperties
<1>6. s \o SubSeq(t, 1, k) \in Seq(A)
  BY <1>1, <1>4, ConcatProperties
<1>7. QED
  BY <1>2, <1>3, <1>5, <1>6

(* What arrives of a packet, whatever the network made of it. *)
LEMMA Arrived ==
    ASSUME NEW q, NEW p \in Arrivals(q), IsSeq(q.aad), IsSeq(q.text)
    PROVE  /\ IsSeq(p.aad) /\ IsSeq(p.text) /\ p.size \in Nat
           /\ (p.tag = q.tag \/ p.tag = StrangeTag)
<1> DEFINE D == {[aad |-> q.aad, text |-> q.text]}
                \cup {e \in Damaged(q.aad, q.text) : IsBytes(e.aad) /\ IsBytes(e.text)}
<1>1. PICK d \in D, t \in {q.tag, StrangeTag}, n \in TagSizes :
         p = [aad |-> d.aad, text |-> d.text, tag |-> t, size |-> n]
  BY DEF Arrivals
<1>2. IsSeq(d.aad) /\ IsSeq(d.text)
  BY <1>1 DEF IsBytes, IsSeq
<1> HIDE DEF D
<1>3. p.aad = d.aad /\ p.text = d.text /\ p.tag = t /\ p.size = n
  BY <1>1
<1>4. p.size \in Nat
  BY <1>1, <1>3, PadAssumption
<1>5. QED
  BY <1>1, <1>2, <1>3, <1>4

(* A tag that matches as a whole is the right one, and so does the right   *)
(* tag, cut or not.                                                        *)
LEMMA Compared ==
    ASSUME NEW t, NEW own, NEW size \in Nat, NEW found \in Comparisons(t, size, own)
    PROVE  /\ found.ok /\ ~found.chance => t = own
           /\ t = own /\ size <= TagSize => found.ok
<1>1. PICK same \in SamePlaces(t, own), behind \in BOOLEAN :
         found = [ok |-> TagMatches(size, same, behind), chance |-> size < TagSize /\ t # own]
  BY DEF Comparisons
<1>2. /\ found.ok <=> TagMatches(size, same, behind)
      /\ found.chance <=> size < TagSize /\ t # own
  BY <1>1, Zenon
<1>3. TagSize \in Nat
  BY PadAssumption
<1>4. ASSUME found.ok, ~found.chance, t # own PROVE FALSE
  <2>1. ~(size < TagSize) /\ same \in SUBSET (1..TagSize) /\ same # 1..TagSize
    BY <1>2, <1>4 DEF SamePlaces
  <2>2. \A i \in 1..size : i <= TagSize => i \in same
    BY <1>2, <1>4 DEF TagMatches
  <2>3. \A i \in 1..TagSize : i \in same
    BY <1>3, <2>1, <2>2
  <2>4. QED
    BY <2>1, <2>3
<1>5. ASSUME t = own, size <= TagSize PROVE found.ok
  <2>1. same = 1..TagSize
    BY <1>5 DEF SamePlaces
  <2>2. \A i \in 1..size : i <= TagSize /\ i \in same
    BY <1>3, <1>5, <2>1
  <2>3. QED
    BY <1>2, <2>2 DEF TagMatches
<1>6. QED
  BY <1>4, <1>5

(* No packet has the strange tag. *)
LEMMA TagNotStrange ==
    ASSUME NEW c, NEW aad, NEW text
    PROVE  Tag(c, aad, text) # StrangeTag
<1> SUFFICES ASSUME Tag(c, aad, text) = StrangeTag PROVE FALSE
  OBVIOUS
<1>1. Tag(c, aad, text).key = TagKey(c) /\ StrangeTag.key = <<>>
  BY DEF Tag, StrangeTag
<1>2. TagKey(c) = <<>>
  BY <1>1
<1>3. DOMAIN TagKey(c) = 1..Half
  BY DEF TagKey, KeyStream
<1>4. DOMAIN << >> = {}
  OBVIOUS
<1>5. QED
  BY <1>2, <1>3, <1>4, HalfBlock

(* decrypt() of what arrived of packet q, in state x; q was sealed in      *)
(* state y.                                                                *)
OpenedRight(p, q, x, y) ==
    /\ p.tag = Tag(x, p.aad, p.text)
         => /\ p.aad = q.aad /\ p.text = q.text
            /\ Unxored(p.text, TextStream(x, Len(p.text))) = q.plain
    /\ p.aad = q.aad /\ p.text = q.text /\ p.tag = q.tag /\ Step(x) = Step(y)
         => p.tag = Tag(x, p.aad, p.text)

(* Equal tags mean equal packets, and objects that agree make equal tags. *)
LEMMA Opened ==
    ASSUME NEW c, Cipher(c), NEW d, Cipher(d), NEW n, NEW ts \in Nat, NEW as \in Nat,
           NEW p \in Arrivals(Sealed(d, n, ts, as))
    PROVE  OpenedRight(p, Sealed(d, n, ts, as), Started(c, n), Started(d, n))
<1> DEFINE q == Sealed(d, n, ts, as)
           x == Started(c, n)
           y == Started(d, n)
           s == TextStream(y, ts)
<1>2. /\ IsSeq(q.aad) /\ IsSeq(q.text) /\ Len(q.text) = ts
      /\ q.text = [k \in 1..ts |-> [byte |-> q.plain[k], with |-> <<s[k]>>]]
      /\ q.plain = [k \in 1..ts |-> q.plain[k]]
      /\ q.tag = Tag(y, q.aad, q.text)
  <2>1. SealedRight(q, d, n, ts)
    BY SealedParts
  <2> HIDE DEF q
  <2>2. QED
    BY <2>1 DEF SealedRight
<1>1. IsSeq(p.aad) /\ IsSeq(p.text) /\ (p.tag = q.tag \/ p.tag = StrangeTag)
  BY <1>2, Arrived
<1> HIDE DEF q, s
<1>3. ASSUME p.tag = Tag(x, p.aad, p.text)
      PROVE  /\ p.aad = q.aad /\ p.text = q.text
             /\ Unxored(p.text, TextStream(x, Len(p.text))) = q.plain
  <2>1. TagKey(x) = TagKey(y) /\ TagData(p.aad, p.text) = TagData(q.aad, q.text)
    <3>1. Tag(x, p.aad, p.text) = Tag(y, q.aad, q.text)
      BY <1>1, <1>2, <1>3, TagNotStrange
    <3>2. ASSUME NEW a, NEW b, NEW e, NEW f, [key |-> a, data |-> b] = [key |-> e, data |-> f]
          PROVE  a = e /\ b = f
      BY <3>2
    <3>3. /\ Tag(x, p.aad, p.text) = [key |-> TagKey(x), data |-> TagData(p.aad, p.text)]
          /\ Tag(y, q.aad, q.text) = [key |-> TagKey(y), data |-> TagData(q.aad, q.text)]
      BY DEF Tag
    <3> DEFINE a == TagKey(x)
               b == TagData(p.aad, p.text)
               e == TagKey(y)
               f == TagData(q.aad, q.text)
    <3> HIDE DEF x, y, a, b, e, f
    <3>4. [key |-> a, data |-> b] = [key |-> e, data |-> f]
      BY <3>1, <3>3 DEF a, b, e, f
    <3>5. a = e /\ b = f
      BY <3>2, <3>4
    <3>6. QED
      BY <3>5 DEF a, b, e, f
  <2>2. p.aad = q.aad /\ p.text = q.text
    BY <1>1, <1>2, <2>1, TagDataInjective
  <2>3. Step(x) = Step(y)
    BY <2>1, KeyTells
  <2>4. TextStream(x, Len(p.text)) = s
    <3>1. Len(p.text) = ts
      BY <1>2, <2>2
    <3>2. TextStream(x, ts) = TextStream(y, ts)
      BY <2>3, SameStreams
    <3>3. QED
      BY <3>1, <3>2 DEF s
  <2> HIDE DEF x
  <2>5. Unxored(q.text, s) = [k \in 1..ts |-> q.plain[k]]
    <3>1. \A k \in 1..ts : q.text[k].with = <<s[k]>> /\ q.text[k].byte = q.plain[k]
      BY <1>2
    <3>2. QED
      BY <1>2, <3>1 DEF Unxored
  <2>6. QED
    BY <1>2, <2>2, <2>4, <2>5
<1>4. ASSUME p.aad = q.aad, p.text = q.text, p.tag = q.tag, Step(x) = Step(y)
      PROVE  p.tag = Tag(x, p.aad, p.text)
  <2>1. TagKey(x) = TagKey(y)
    BY <1>4, SameStreams
  <2>2. QED
    BY <1>1, <1>2, <1>4, <2>1 DEF Tag
<1>5. OpenedRight(p, q, x, y)
  BY <1>3, <1>4 DEF OpenedRight
<1>6. QED
  BY <1>5 DEF q

-----------------------------------------------------------------------------
(* The packets from the first on, each once. *)
UpTo(m) == [k \in 1..m |-> k]

(* Its length and its elements. *)
LEMMA UpToRight ==
    ASSUME NEW m \in Nat
    PROVE  Len(UpTo(m)) = m /\ UpTo(m) \in Seq(Nat) /\ \A k \in 1..m : UpTo(m)[k] = k
<1> DEFINE u == UpTo(m)
<1>1. u = [k \in 1..m |-> u[k]] /\ u \in [1..m -> Nat] /\ \A k \in 1..m : u[k] = k
  BY DEF UpTo
<1> HIDE DEF u
<1>2. Len(u) = m
  BY <1>1, FunctionIsSeq
<1>3. u \in Seq(Nat)
  BY <1>1, SeqDef
<1>4. QED
  BY <1>1, <1>2, <1>3 DEF u

(* What was taken before the last packet of such a run. *)
LEMMA UpToAppend ==
    ASSUME NEW s \in Seq(Nat), NEW v \in Nat, NEW m \in Nat, Append(s, v) = UpTo(m)
    PROVE  m > 0 /\ v = m /\ s = UpTo(m - 1)
<1>1. /\ Len(Append(s, v)) = Len(s) + 1 /\ Append(s, v)[Len(s) + 1] = v /\ Len(s) \in Nat
      /\ \A i \in 1..Len(s) : Append(s, v)[i] = s[i]
  BY SMTT(30), AppendProperties, LenProperties
<1>2. Len(s) + 1 = m /\ \A k \in 1..m : Append(s, v)[k] = k
  BY <1>1, UpToRight
<1>3. m > 0 /\ m \in 1..m /\ m - 1 \in Nat /\ Len(s) = m - 1 /\ \A i \in 1..(m - 1) : i \in 1..m
  BY <1>1, <1>2
<1>4. v = m
  BY <1>1, <1>2, <1>3
<1>5. \A i \in 1..(m - 1) : s[i] = i
  BY <1>1, <1>2, <1>3
<1>6. s = UpTo(m - 1)
  <2> DEFINE w == UpTo(m - 1)
  <2>1. Len(w) = m - 1 /\ w \in Seq(Nat) /\ \A k \in 1..(m - 1) : w[k] = k
    BY <1>3, UpToRight
  <2> HIDE DEF w
  <2>2. s = w
    BY <1>3, <1>5, <2>1, SeqEqual
  <2>3. QED
    BY <2>2 DEF w
<1>7. QED
  BY <1>3, <1>4, <1>6

(* At a multiple of the block the next byte is the first of one. *)
LEMMA EndOfBlock ==
    ASSUME NEW c, Cipher(c), c.pos % StreamBlock = 0
    PROVE  AtEnd(c)
<1>1. ASSUME NEW b \in Nat \ {0}, NEW z \in 0..b, z % b = 0 PROVE z = 0 \/ z = b
  BY <1>1
<1>2. c.pos \in 0..StreamBlock /\ StreamBlock \in Nat \ {0}
  BY StreamAssumption DEF Cipher
<1>3. QED
  BY <1>1, <1>2 DEF AtEnd

(* A packet gone through: the object stays one under the key, and its      *)
(* position moves by the text and whole blocks.                            *)
LEMMA GoneThrough ==
    ASSUME NEW c, Cipher(c), NEW n, NEW size \in Nat, NEW b \in Nat,
           b % StreamBlock = c.pos % StreamBlock
    PROVE  /\ Cipher(After(Started(c, n), size))
           /\ (b + size) % StreamBlock = After(Started(c, n), size).pos % StreamBlock
<1> DEFINE x == Started(c, n)
           N == StreamBlock + size
<1>1. Cipher(x) /\ x.pos = c.pos
  BY StartedRight
<1>2. StreamBlock \in Nat \ {0} /\ N \in Nat /\ c.pos \in Nat
  BY StreamAssumption DEF Cipher
<1>3. After(x, size) = At(x, N)
  BY TextBytes
<1> HIDE DEF x
<1>4. Cipher(At(x, N)) /\ At(x, N).pos % StreamBlock = (x.pos + N) % StreamBlock
  <2> HIDE DEF N
  <2>1. QED
    BY <1>1, <1>2, AtRight
<1>5. (c.pos + StreamBlock + size) % StreamBlock = (b + size) % StreamBlock
  <2> DEFINE z == c.pos
             B == StreamBlock
  <2>1. z \in Nat /\ B \in Nat \ {0} /\ z % B = b % B
    BY <1>2
  <2> HIDE DEF z, B
  <2>2. (z + B + size) % B = (b + size) % B
    BY ZenonT(30), <2>1, AddMod
  <2>3. QED
    BY <2>2 DEF z, B
<1>6. x.pos + N = c.pos + StreamBlock + size
  BY <1>1, <1>2
<1>7. QED
  BY <1>3, <1>4, <1>5, <1>6 DEF x

-----------------------------------------------------------------------------
(* The inductive invariant.  st[i] is the sealing object before packet i,  *)
(* so that each packet is what Seal makes of it.                           *)
PacketRight(st, i) ==
    \E ts, as \in Nat :
        packets[i] = Sealed(st[i], i, ts, as) /\ st[i + 1] = After(Started(st[i], i), ts)
History(st) ==
    /\ \A i \in 1..(Len(packets) + 1) : Cipher(st[i])
    /\ sealer = st[Len(packets) + 1]
    /\ \A i \in 1..Len(packets) : PacketRight(st, i)

(* The opening object: where it stands in a block follows from the bytes   *)
(* it went through, and after the packets up to m it stands where the      *)
(* sealing one stood.                                                      *)
OpenerRight(st) ==
    /\ Cipher(opener) /\ takenBytes \in Nat
    /\ takenBytes % StreamBlock = opener.pos % StreamBlock
    /\ \A j \in 1..Len(taken) : taken[j] \in 0..Len(packets)
    /\ \A m \in 0..Len(packets) :
          taken = UpTo(m) => opener.pos = st[m + 1].pos /\ opener.block = st[m + 1].block

AeadInv ==
    /\ IsSeq(packets) /\ taken \in Seq(Nat)
    /\ \E st : History(st) /\ OpenerRight(st)
    /\ result.ok => result.of \in 1..Len(packets)
    /\ AcceptsOnlySealed
    /\ OpensInStep

(* Init: nothing sealed, both objects are fresh. *)
LEMMA InitAeadInv == AeadInit => AeadInv
<1> HAVE AeadInit
<1> DEFINE st == [i \in 1..1 |-> Fresh]
<1>1. /\ sealer = Fresh /\ opener = Fresh /\ packets = <<>> /\ taken = <<>> /\ takenBytes = 0
      /\ result.ok = FALSE /\ result.expected = FALSE
  BY DEF AeadInit
<1>2. /\ Cipher(Fresh) /\ Fresh.pos = 0
  <2>1. /\ Fresh = [f \in CipherFields |-> Fresh[f]] /\ Fresh.pos = 0 /\ Fresh.key = "key"
        /\ Fresh.rounds = 20
    BY DEF Fresh, NewCipher, CipherFields
  <2>2. 0 \in 0..StreamBlock
    BY StreamAssumption
  <2>3. QED
    BY <2>1, <2>2 DEF Cipher
<1>3. IsSeq(packets) /\ taken \in Seq(Nat) /\ Len(packets) = 0 /\ Len(taken) = 0
  BY <1>1 DEF IsSeq
<1>4. 0 + 1 = 1 /\ 1 \in 1..1 /\ 1..0 = {} /\ 0..0 = {0}
  OBVIOUS
<1>5. st[1] = Fresh /\ \A i \in 1..1 : st[i] = Fresh
  BY <1>4
<1> HIDE DEF st
<1>6. History(st)
  <2>1. \A i \in 1..(Len(packets) + 1) : Cipher(st[i])
    BY <1>2, <1>3, <1>4, <1>5
  <2>2. sealer = st[Len(packets) + 1]
    BY <1>1, <1>3, <1>4, <1>5
  <2>3. \A i \in 1..Len(packets) : FALSE
    BY <1>3
  <2>4. QED
    BY <2>1, <2>2, <2>3 DEF History
<1>7. OpenerRight(st)
  <2>1. opener.pos = 0 /\ Cipher(opener) /\ opener = st[1]
    BY <1>1, <1>2, <1>5
  <2>2. \A m \in 0..Len(packets) : m + 1 = 1
    BY <1>3
  <2>3. \A j \in 1..Len(taken) : FALSE
    BY <1>3
  <2>4. \A m \in 0..Len(packets) : opener.pos = st[m + 1].pos /\ opener.block = st[m + 1].block
    BY <2>1, <2>2
  <2>5. takenBytes \in Nat /\ takenBytes % StreamBlock = opener.pos % StreamBlock
    BY <1>1, <2>1
  <2>6. QED
    BY <2>1, <2>3, <2>4, <2>5 DEF OpenerRight
<1>8. QED
  BY <1>1, <1>3, <1>6, <1>7 DEF AeadInv, AcceptsOnlySealed, OpensInStep

(* Seal: the new state of the sealing object is added to the history. *)
LEMMA SealKeepsInv ==
    ASSUME AeadInv, NEW textSize \in TextSizes, NEW aadSize \in AadSizes, Seal(textSize, aadSize)
    PROVE  AeadInv'
<1> DEFINE n == Len(packets) + 1
           e == After(Started(sealer, n), textSize)
           q == Sealed(sealer, n, textSize, aadSize)
<1>1. textSize \in Nat /\ aadSize \in Nat
  BY PadAssumption
<1>2. /\ sealer' = e /\ packets' = Append(packets, q)
      /\ UNCHANGED <<opener, taken, takenBytes, result>>
  BY DEF Seal, Started, Sealed, Plain, Aad
<1>3. PICK st : History(st) /\ OpenerRight(st)
  BY DEF AeadInv
<1>4. /\ IsSeq(packets') /\ Len(packets') = n /\ Len(packets) \in Nat /\ packets'[n] = q
      /\ \A i \in 1..Len(packets) : packets'[i] = packets[i]
  <2>1. IsSeq(packets)
    BY DEF AeadInv
  <2> HIDE DEF q
  <2>2. QED
    BY <1>2, <2>1, Appended
<1>4a. PICK su : su = [i \in 1..(n + 1) |-> IF i = n + 1 THEN e ELSE st[i]]
  OBVIOUS
<1>5. /\ su[n + 1] = e /\ n \in Nat /\ n \in 1..n
      /\ \A i \in 1..n : su[i] = st[i] /\ i \in 1..(n + 1)
  <2>1. Len(packets) \in Nat
    BY <1>4
  <2> HIDE DEF e
  <2>2. n \in Nat /\ n \in 1..n /\ n + 1 \in 1..(n + 1)
        /\ \A i \in 1..n : i \in 1..(n + 1) /\ i # n + 1
    BY <2>1
  <2>3. QED
    BY <1>4a, <2>2
<1>6. sealer = st[n] /\ Cipher(sealer)
  BY <1>3, <1>5 DEF History
<1>7. Cipher(e)
  <2> DEFINE b == sealer.pos
  <2>1. b \in Nat /\ b % StreamBlock = sealer.pos % StreamBlock
    BY <1>6 DEF Cipher
  <2> HIDE DEF b, n
  <2>2. QED
    BY <1>1, <1>6, <2>1, GoneThrough
<1>8. History(su)'
  <2>1. ASSUME NEW i \in 1..(n + 1) PROVE Cipher(su[i])
    <3>1. CASE i = n + 1
      BY <1>5, <1>7, <3>1
    <3>2. CASE i # n + 1
      <4>1. i \in 1..n
        BY <1>5, <3>2
      <4>2. Cipher(st[i])
        BY <1>3, <4>1 DEF History
      <4>3. QED
        BY <1>5, <4>1, <4>2
    <3>3. QED
      BY <3>1, <3>2
  <2>2. ASSUME NEW i \in 1..n PROVE PacketRight(su, i)'
    <3>1. CASE i = n
      <4>1. packets'[i] = Sealed(su[i], i, textSize, aadSize)
        BY <1>4, <1>5, <1>6, <3>1
      <4>2. su[i + 1] = After(Started(su[i], i), textSize)
        BY <1>5, <1>6, <3>1
      <4>3. QED
        BY <1>1, <4>1, <4>2 DEF PacketRight
    <3>2. CASE i # n
      <4>1. i \in 1..Len(packets) /\ i + 1 \in 1..n /\ i \in 1..n
        BY <1>4, <3>2
      <4>2. PICK ts, as \in Nat : /\ packets[i] = Sealed(st[i], i, ts, as)
                                  /\ st[i + 1] = After(Started(st[i], i), ts)
        BY <1>3, <4>1 DEF History, PacketRight
      <4>3. packets'[i] = packets[i] /\ su[i] = st[i] /\ su[i + 1] = st[i + 1]
        BY <1>4, <1>5, <4>1
      <4>4. /\ packets'[i] = Sealed(su[i], i, ts, as)
            /\ su[i + 1] = After(Started(su[i], i), ts)
        BY <4>2, <4>3
      <4>5. QED
        BY <4>4 DEF PacketRight
    <3>3. QED
      BY <3>1, <3>2
  <2> HIDE DEF e, n
  <2>3. QED
    BY <1>2, <1>4, <1>5, <2>1, <2>2 DEF History
<1>9. OpenerRight(su)'
  <2>1. /\ Cipher(opener) /\ takenBytes \in Nat
        /\ takenBytes % StreamBlock = opener.pos % StreamBlock
        /\ \A j \in 1..Len(taken) : taken[j] \in 0..Len(packets)
        /\ \A m \in 0..Len(packets) :
              taken = UpTo(m) => opener.pos = st[m + 1].pos /\ opener.block = st[m + 1].block
    BY <1>3 DEF OpenerRight
  <2>2. ASSUME NEW m \in 0..n, taken = UpTo(m)
        PROVE  opener.pos = su[m + 1].pos /\ opener.block = su[m + 1].block
    <3>1. m # n
      <4> SUFFICES ASSUME m = n PROVE FALSE
        OBVIOUS
      <4>1. m \in Nat /\ m \in 1..m /\ m \notin 0..Len(packets)
        BY <1>4
      <4>2. Len(taken) = m /\ taken[m] = m
        BY <2>2, <4>1, UpToRight
      <4>3. QED
        BY <2>1, <4>1, <4>2
    <3>2. m \in 0..Len(packets) /\ m + 1 \in 1..n
      BY <1>4, <3>1
    <3>3. QED
      BY <1>5, <2>1, <2>2, <3>2
  <2>3. \A j \in 1..Len(taken) : taken[j] \in 0..n
    <3>1. \A k \in 0..Len(packets) : k \in 0..n
      BY <1>4
    <3>2. QED
      BY <2>1, <3>1
  <2> HIDE DEF n
  <2>4. QED
    BY <1>2, <1>4, <2>1, <2>2, <2>3 DEF OpenerRight
<1>10. result.ok => result.of \in 1..Len(packets') /\ packets'[result.of] = packets[result.of]
  <2>1. \A i \in 1..Len(packets) : i \in 1..Len(packets')
    BY <1>4
  <2>2. result.ok => result.of \in 1..Len(packets)
    BY DEF AeadInv
  <2>3. QED
    BY <1>4, <2>1, <2>2
<1>11. AcceptsOnlySealed' /\ OpensInStep'
  BY <1>2, <1>10 DEF AeadInv, AcceptsOnlySealed, OpensInStep
<1>12. (taken \in Seq(Nat))' /\ (result.ok => result.of \in 1..Len(packets))'
  BY <1>2, <1>10 DEF AeadInv
<1>13. QED
  BY <1>4, <1>8, <1>9, <1>11, <1>12 DEF AeadInv

(* decrypt() moves the opening object as the invariant says. *)
LEMMA OpenMoves ==
    ASSUME NEW st, History(st), OpenerRight(st), taken \in Seq(Nat), Len(packets) \in Nat,
           NEW n \in 1..Len(packets), NEW p, IsSeq(p.text), Open(n, p)
    PROVE  OpenerRight(st)' /\ (taken \in Seq(Nat))'
<1> DEFINE x == Started(opener, n)
           size == Len(p.text)
           v == IF size = Len(packets[n].text) THEN n ELSE 0
<1>1. /\ Cipher(opener) /\ takenBytes \in Nat
      /\ takenBytes % StreamBlock = opener.pos % StreamBlock
      /\ \A j \in 1..Len(taken) : taken[j] \in 0..Len(packets)
      /\ \A m \in 0..Len(packets) :
            taken = UpTo(m) => opener.pos = st[m + 1].pos /\ opener.block = st[m + 1].block
  BY DEF OpenerRight
<1>2. packets' = packets /\ size \in Nat
  <2>1. p.text \in Seq({p.text[j] : j \in DOMAIN p.text})
    BY DEF IsSeq
  <2>2. ASSUME NEW A, NEW s \in Seq(A) PROVE Len(s) \in Nat
    BY LenProperties
  <2>3. QED
    BY <2>1, <2>2 DEF Open
<1>3. Cipher(x) /\ x.pos = opener.pos /\ x.block = opener.block
  BY <1>1, StartedRight
<1>4. CASE p.size = 0
  <2>1. opener' = x /\ taken' = taken /\ takenBytes' = takenBytes
    BY <1>4 DEF Open, Started
  <2> HIDE DEF x
  <2>2. QED
    BY <1>1, <1>2, <1>3, <2>1 DEF OpenerRight
<1>5. CASE p.size # 0
  <2> DEFINE y == After(x, size)
  <2>1. opener' = y /\ taken' = Append(taken, v) /\ takenBytes' = takenBytes + size
    BY <1>5 DEF Open, Started
  <2>2. Cipher(y) /\ (takenBytes + size) % StreamBlock = y.pos % StreamBlock
    <3>1. \A z \in Nat : z % StreamBlock = opener.pos % StreamBlock
             => /\ Cipher(After(Started(opener, n), size))
                /\ (z + size) % StreamBlock = After(Started(opener, n), size).pos % StreamBlock
      <4> HIDE DEF size
      <4>1. QED
        BY <1>1, <1>2, GoneThrough
    <3>2. QED
      BY <1>1, <3>1
  <2>3. v \in Nat /\ v \in 0..Len(packets) /\ takenBytes + size \in Nat
    BY <1>1, <1>2
  <2>4. /\ Append(taken, v) \in Seq(Nat)
        /\ \A j \in 1..Len(Append(taken, v)) : Append(taken, v)[j] \in 0..Len(packets)
    <3> HIDE DEF v
    <3>1. /\ Append(taken, v) \in Seq(Nat) /\ Len(Append(taken, v)) = Len(taken) + 1
          /\ Append(taken, v)[Len(taken) + 1] = v /\ Len(taken) \in Nat
          /\ \A j \in 1..Len(taken) : Append(taken, v)[j] = taken[j]
      BY <2>3, AppendProperties, LenProperties
    <3>2. \A j \in 1..(Len(taken) + 1) : j \in 1..Len(taken) \/ j = Len(taken) + 1
      BY <3>1
    <3>3. QED
      BY <1>1, <2>3, <3>1, <3>2
  <2>5. ASSUME NEW m \in 0..Len(packets), Append(taken, v) = UpTo(m)
        PROVE  y.pos = st[m + 1].pos /\ y.block = st[m + 1].block
    <3>1. m > 0 /\ v = m /\ taken = UpTo(m - 1)
      <4>1. m \in Nat
        BY <2>5
      <4> HIDE DEF v
      <4>2. QED
        BY <2>3, <2>5, <4>1, UpToAppend
    <3>2. m = n /\ size = Len(packets[n].text)
      BY <3>1
    <3>3. n - 1 \in 0..Len(packets) /\ (n - 1) + 1 = n /\ n \in 1..(Len(packets) + 1)
      OBVIOUS
    <3>4. opener.pos = st[n].pos /\ opener.block = st[n].block /\ Cipher(st[n])
      BY <1>1, <3>1, <3>2, <3>3 DEF History
    <3>5. x = Started(st[n], n)
      BY <1>1, <3>4, NextByte
    <3>6. PICK ts, as \in Nat : /\ packets[n] = Sealed(st[n], n, ts, as)
                                /\ st[n + 1] = After(Started(st[n], n), ts)
      BY DEF History, PacketRight
    <3>7. Len(packets[n].text) = ts
      <4>1. SealedRight(packets[n], st[n], n, ts)
        BY <3>6, SealedParts
      <4>2. QED
        BY <4>1 DEF SealedRight
    <3> HIDE DEF x, size
    <3>8. y = st[m + 1]
      BY <3>2, <3>5, <3>6, <3>7
    <3>9. QED
      BY <3>8
  <2> HIDE DEF y, v, size
  <2>6. QED
    BY <1>2, <2>1, <2>2, <2>3, <2>4, <2>5 DEF OpenerRight
<1>6. QED
  BY <1>4, <1>5

(* Two objects in step over a packet agree on the next byte. *)
LEMMA InStepAgrees ==
    ASSUME NEW st, History(st), OpenerRight(st), Len(packets) \in Nat,
           NEW n \in 1..Len(packets), packets[n].sealedAt = st[n].pos, InStep(n)
    PROVE  Step(Started(opener, n)) = Step(Started(st[n], n))
<1>1. /\ Cipher(opener) /\ takenBytes \in Nat
      /\ takenBytes % StreamBlock = opener.pos % StreamBlock
      /\ \A m \in 0..Len(packets) :
            taken = UpTo(m) => opener.pos = st[m + 1].pos /\ opener.block = st[m + 1].block
  BY DEF OpenerRight
<1>2. n - 1 \in 0..Len(packets) /\ (n - 1) + 1 = n /\ n \in 1..(Len(packets) + 1)
  OBVIOUS
<1>3. Cipher(st[n])
  BY <1>2 DEF History
<1>4. CASE taken = UpTo(n - 1)
  <2>1. opener.pos = st[n].pos /\ opener.block = st[n].block
    BY <1>1, <1>2, <1>4
  <2>2. Started(opener, n) = Started(st[n], n)
    BY <1>1, <1>3, <2>1, NextByte
  <2>3. QED
    BY <2>2
<1>5. CASE packets[n].sealedAt % StreamBlock = 0 /\ takenBytes % StreamBlock = 0
  <2>1. AtEnd(opener) /\ AtEnd(st[n])
    BY <1>1, <1>3, <1>5, EndOfBlock
  <2>2. QED
    BY <1>1, <1>3, <2>1, NextByte
<1>6. QED
  BY <1>4, <1>5 DEF InStep, UpTo

(* Open: accepted is what was sealed, and all of it when in step. *)
LEMMA OpenKeepsInv ==
    ASSUME AeadInv, NEW n \in 1..Len(packets), NEW p \in Arrivals(packets[n]), Open(n, p)
    PROVE  AeadInv'
<1>1. PICK st : History(st) /\ OpenerRight(st)
  BY DEF AeadInv
<1>2. IsSeq(packets) /\ taken \in Seq(Nat) /\ Len(packets) \in Nat
  BY Appended DEF AeadInv
<1>3. PICK ts, as \in Nat : packets[n] = Sealed(st[n], n, ts, as)
  BY <1>1 DEF History, PacketRight
<1>4. /\ Cipher(opener) /\ Cipher(st[n]) /\ packets[n].sealedAt = st[n].pos
      /\ IsSeq(packets[n].aad) /\ IsSeq(packets[n].text)
  <2>1. n \in 1..(Len(packets) + 1)
    BY <1>2
  <2>2. SealedRight(packets[n], st[n], n, ts)
    BY <1>3, SealedParts
  <2>3. QED
    BY <1>1, <2>1, <2>2 DEF History, OpenerRight, SealedRight
<1>5. IsSeq(p.aad) /\ IsSeq(p.text) /\ p.size \in Nat
  BY <1>4, Arrived
<1> DEFINE q == packets[n]
           x == Started(opener, n)
           early == p.size = 0
           own == Tag(x, p.aad, p.text)
<1>6. OpenedRight(p, q, x, Started(st[n], n))
  <2>1. p \in Arrivals(Sealed(st[n], n, ts, as))
    BY <1>3
  <2>2. OpenedRight(p, Sealed(st[n], n, ts, as), Started(opener, n), Started(st[n], n))
    BY <1>4, <2>1, Opened
  <2>3. QED
    BY <1>3, <2>2
<1>7. packets' = packets /\ sealer' = sealer
  BY DEF Open
<1> DEFINE out == IF early THEN <<>> ELSE Unxored(p.text, TextStream(x, Len(p.text)))
           whole == p.aad = q.aad /\ p.text = q.text
           step == InStep(n) /\ p.tag = q.tag /\ p.size \in 1..TagSize
<1>8. PICK found \in Comparisons(p.tag, p.size, own) :
         result' = [of |-> n, whole |-> whole, expected |-> step,
                    ok |-> ~early /\ found.ok, chance |-> ~early /\ found.chance,
                    output |-> out]
  BY DEF Open, Started
<1>9. /\ result'.of = n /\ (result'.whole <=> p.aad = q.aad /\ p.text = q.text)
      /\ (result'.expected <=> InStep(n) /\ p.tag = q.tag /\ p.size \in 1..TagSize)
      /\ (result'.ok <=> ~early /\ found.ok) /\ (result'.chance <=> ~early /\ found.chance)
      /\ ~early => result'.output = Unxored(p.text, TextStream(x, Len(p.text)))
  <2> DEFINE good == ~early /\ found.ok
             luck == ~early /\ found.chance
  <2>1. result' = [of |-> n, whole |-> whole, expected |-> step, ok |-> good, chance |-> luck,
                   output |-> out]
    BY <1>8
  <2> HIDE DEF good, luck, whole, step, out
  <2>2. /\ result'.of = n /\ result'.whole = whole /\ result'.expected = step
        /\ result'.ok = good /\ result'.chance = luck /\ result'.output = out
    BY <2>1, Zenon
  <2>3. QED
    BY <2>2, Zenon DEF good, luck, whole, step, out
<1>10. OpenerRight(st)' /\ (taken \in Seq(Nat))'
  BY <1>1, <1>2, <1>5, OpenMoves
<1>11. History(st)'
  BY <1>1, <1>7 DEF History, PacketRight
<1>12. InStep(n) => Step(x) = Step(Started(st[n], n))
  BY <1>1, <1>2, <1>4, InStepAgrees
<1>13. /\ found.ok /\ ~found.chance => p.tag = own
       /\ p.tag = own /\ p.size \in 1..TagSize => found.ok /\ ~early
  <2> HIDE DEF own
  <2>1. /\ found.ok /\ ~found.chance => p.tag = own
        /\ p.tag = own /\ p.size <= TagSize => found.ok
    BY <1>5, <1>9, Compared
  <2>2. p.size \in 1..TagSize => p.size <= TagSize /\ p.size # 0
    BY PadAssumption
  <2>3. QED
    BY <2>1, <2>2
<1> HIDE DEF x, early
<1>14. AcceptsOnlySealed'
  BY <1>6, <1>7, <1>9, <1>13 DEF AcceptsOnlySealed, OpenedRight
<1>15. OpensInStep'
  BY <1>6, <1>9, <1>12, <1>13 DEF OpensInStep, OpenedRight
<1>16. QED
  BY <1>2, <1>7, <1>9, <1>10, <1>11, <1>14, <1>15 DEF AeadInv

(* Every step. *)
LEMMA StepKeepsAeadInv == AeadInv /\ [AeadNext]_aeadVars => AeadInv'
<1> SUFFICES ASSUME AeadInv, [AeadNext]_aeadVars PROVE AeadInv'
  OBVIOUS
<1>1. CASE \E textSize \in TextSizes, aadSize \in AadSizes : Seal(textSize, aadSize)
  BY <1>1, SealKeepsInv
<1>2. CASE \E n \in 1..Len(packets) : \E p \in Arrivals(packets[n]) : Open(n, p)
  BY <1>2, OpenKeepsInv
<1>3. CASE UNCHANGED aeadVars
  BY <1>3 DEF aeadVars, AeadInv, History, OpenerRight, PacketRight, AcceptsOnlySealed, OpensInStep
<1>4. QED
  BY <1>1, <1>2, <1>3 DEF AeadNext

-----------------------------------------------------------------------------
(* For packets of any size and in any number, in any order, whatever the   *)
(* network makes of the additional data and the text and however many      *)
(* bytes of a tag are given: what decrypt() accepts is what encrypt()      *)
(* sealed, and its output is the plain text, although the position in the  *)
(* key stream outlives set_iv().  The exception is a wrong tag shorter     *)
(* than a whole one: its bytes can match by chance.                        *)
THEOREM AeadAccepts == CryptoSpec => []AcceptsOnlySealed
<1>1. AeadInv => AcceptsOnlySealed
  BY DEF AeadInv
<1>2. QED
  BY InitAeadInv, StepKeepsAeadInv, <1>1, ClassesApart, PTL DEF AeadSpec

(* decrypt() accepts every packet that arrives as it was sealed when the   *)
(* two objects went through the same packets before it, or when both stand *)
(* at the end of a block.                                                  *)
THEOREM AeadInStep == CryptoSpec => []OpensInStep
<1>1. AeadInv => OpensInStep
  BY DEF AeadInv
<1>2. QED
  BY InitAeadInv, StepKeepsAeadInv, <1>1, ClassesApart, PTL DEF AeadSpec

-----------------------------------------------------------------------------
Object(c) == c = [f \in CipherFields |-> c[f]] /\ c.pos \in 0..StreamBlock

(* The state words 12 and 13 after N blocks under iv v. *)
Base(v) == IF v.size = 8 THEN 0 ELSE v.first
Counted(c, v, N) ==
    c.low = N % CounterSize /\ c.high = (Base(v) + N \div CounterSize) % CounterSize

(* transform() names the next block of the iv and moves the counter on,    *)
(* with its carry.                                                         *)
LEMMA BlockCounted ==
    ASSUME NEW c, Object(c), NEW v, Base(v) \in Nat, NEW N \in Nat, Counted(c, v, N)
    PROVE  /\ Counted(NextBlock(c), v, N + 1)
           /\ c.rest = v.rest => BlockName(c) = BlockOf(c, v, N)
<1> DEFINE K == CounterSize
           d == NextBlock(c)
           A == Base(v) + (N \div K)
           low == (c.low + 1) % K
<1>1. K \in Nat \ {0} /\ A \in Nat
  <2>1. K \in Nat \ {0}
    BY StreamAssumption
  <2>2. N \div K \in Nat
    BY <2>1
  <2>3. QED
    BY <2>1, <2>2
<1>2. c.low = N % K /\ c.high = A % K
  BY DEF Counted
<1>3. d.low = low /\ d.high = IF low = 0 THEN (c.high + 1) % K ELSE c.high
  BY DEF NextBlock, Object, CipherFields
<1>4. c.rest = v.rest => BlockName(c) = BlockOf(c, v, N)
  BY <1>2 DEF BlockName, BlockOf, Base
<1>5. low = (N + 1) % K
  <2>1. N % K \in 0..(K - 1) /\ (N % K) % K = N % K
    <3> HIDE DEF K
    <3>1. QED
      BY <1>1, ModMod
  <2>2. c.low \in Nat /\ c.low % K = N % K
    BY <1>1, <1>2, <2>1
  <2> HIDE DEF K
  <2>3. (c.low + 1) % K = (N + 1) % K
    BY <1>1, <2>2, NextMod
  <2>4. QED
    BY <2>3
<1>6. (c.high + 1) % K = (A + 1) % K
  <2>1. A % K \in 0..(K - 1) /\ (A % K) % K = A % K
    <3> HIDE DEF A, K
    <3>1. QED
      BY <1>1, ModMod
  <2>2. c.high \in Nat /\ c.high % K = A % K
    BY <1>1, <1>2, <2>1
  <2> HIDE DEF A, K
  <2>3. QED
    BY <1>1, <2>2, NextMod
<1>7. low = 0 <=> N % K = K - 1
  <2>1. (N + 1) % K = IF N % K = K - 1 THEN 0 ELSE (N % K) + 1
    BY <1>1, SuccMod
  <2>2. N % K \in 0..(K - 1)
    BY <1>1, ModMod
  <2> HIDE DEF K, low
  <2>3. QED
    BY <1>1, <1>5, <2>1, <2>2
<1>8. (N + 1) \div K = IF N % K = K - 1 THEN (N \div K) + 1 ELSE N \div K
  BY <1>1, SuccDiv
<1>9. d.high = (Base(v) + ((N + 1) \div K)) % K
  <2> DEFINE q == N \div K
  <2>1. q \in Nat /\ A = Base(v) + q /\ A + 1 = Base(v) + (q + 1)
    BY <1>1
  <2>2. (N + 1) \div K = IF low = 0 THEN q + 1 ELSE q
    BY <1>7, <1>8
  <2>3. d.high = IF low = 0 THEN (A + 1) % K ELSE A % K
    BY <1>2, <1>3, <1>6
  <2> HIDE DEF A, K, low, d, q
  <2>4. QED
    BY <2>1, <2>2, <2>3
<1>10. QED
  BY <1>3, <1>4, <1>5, <1>9 DEF Counted

(* The blocks made when L bytes were handed out, T of them from before. *)
Made(L, T) == IF L > T THEN (L - T + StreamBlock - 1) \div StreamBlock ELSE 0

(* L bytes begin a block when the ones before it are used up. *)
LEMMA MadeIs ==
    ASSUME NEW L \in Nat, NEW T \in Nat
    PROVE  /\ L <= T => Made(L, T) = 0
           /\ L > T => /\ L - T - 1 \in Nat
                       /\ (L - T - 1) \div StreamBlock \in Nat
                       /\ (L - T - 1) % StreamBlock \in 0..(StreamBlock - 1)
                       /\ Made(L, T) = ((L - T - 1) \div StreamBlock) + 1
           /\ Made(L, T) \in Nat
<1>1. ASSUME L > T
      PROVE  /\ L - T - 1 \in Nat
             /\ (L - T - 1) \div StreamBlock \in Nat
             /\ (L - T - 1) % StreamBlock \in 0..(StreamBlock - 1)
             /\ Made(L, T) = ((L - T - 1) \div StreamBlock) + 1
  <2> DEFINE m == L - T - 1
             B == StreamBlock
  <2>1. m \in Nat /\ B \in Nat \ {0} /\ L - T + B - 1 = m + B
    BY <1>1, StreamAssumption
  <2>2. Made(L, T) = (m + B) \div B
    BY <1>1, <2>1 DEF Made
  <2> HIDE DEF m, B
  <2>3. m \div B \in Nat /\ m % B \in 0..(B - 1)
    BY <2>1
  <2>4. (m + B) \div B = (m \div B) + 1
    BY <2>1, BlockMoreDiv
  <2>5. QED
    BY <2>1, <2>2, <2>3, <2>4 DEF m, B
<1>2. L <= T => Made(L, T) = 0
  BY DEF Made
<1>3. Made(L, T) \in Nat
  <2>1. CASE L > T
    BY <1>1, <2>1
  <2>2. CASE L <= T
    BY <1>2, <2>2
  <2>3. QED
    BY <2>1, <2>2
<1>4. QED
  BY <1>1, <1>2, <1>3

(* The object when L bytes were handed out since the last setting; tl are  *)
(* the bytes that were left of a block then, T of them, and s the blocks   *)
(* that iv v had made.                                                     *)
Positioned(c, L, T, tl, v, s) ==
    /\ L <= T => /\ (c.pos = StreamBlock - T + L \/ (c.pos = 0 /\ T = 0))
                 /\ \A n \in 1..T : tl[n] = [block |-> c.block, at |-> StreamBlock - T + n]
    /\ L > T => /\ c.pos = ((L - T - 1) % StreamBlock) + 1
                /\ c.block = BlockOf(c, v, s + ((L - T - 1) \div StreamBlock))
Handed(c, L, T, tl, v, s) ==
    /\ Object(c) /\ L \in Nat /\ T \in Nat /\ T < StreamBlock /\ s \in Nat
    /\ Base(v) \in Nat
    /\ Counted(c, v, s + Made(L, T))
    /\ Positioned(c, L, T, tl, v, s)

(* Byte n since the last setting, as StreamIsOfIv has it. *)
ByteOf(c, T, tl, v, s, n) ==
    IF n <= T THEN tl[n]
    ELSE [block |-> BlockOf(c, v, s + ((n - T - 1) \div StreamBlock)),
          at |-> ((n - T - 1) % StreamBlock) + 1]

(* A byte of crypt() for an object with any setting. *)
LEMMA ObjectStep ==
    ASSUME NEW c, Object(c)
    PROVE  /\ Object(Step(c)) /\ Step(c).key = c.key /\ Step(c).rounds = c.rounds
           /\ Step(c).rest = c.rest
           /\ AtEnd(c) => /\ Step(c).pos = 1 /\ Step(c).block = BlockName(c)
                          /\ Step(c).low = NextBlock(c).low /\ Step(c).high = NextBlock(c).high
           /\ ~AtEnd(c) => /\ Step(c).pos = c.pos + 1 /\ Step(c).block = c.block
                           /\ Step(c).low = c.low /\ Step(c).high = c.high
<1>1. c.pos \in Nat /\ c.pos <= StreamBlock /\ StreamBlock \in Nat \ {0}
  BY StreamAssumption DEF Object
<1>2. ASSUME NEW d, d = [f \in CipherFields |-> d[f]]
      PROVE  LET x == [d EXCEPT !.pos = @ + 1]
             IN /\ x = [f \in CipherFields |-> x[f]] /\ x.pos = d.pos + 1 /\ x.block = d.block
                /\ x.key = d.key /\ x.rounds = d.rounds /\ x.rest = d.rest
                /\ x.low = d.low /\ x.high = d.high
  BY <1>2 DEF CipherFields
<1>3. CASE AtEnd(c)
  <2> DEFINE d == NextBlock(c)
             x == Step(c)
  <2>1. x = [d EXCEPT !.pos = @ + 1]
    BY <1>1, <1>3 DEF Step, AtByte, AtEnd
  <2>2. /\ d = [f \in CipherFields |-> d[f]] /\ d.pos = 0 /\ d.block = BlockName(c)
        /\ d.key = c.key /\ d.rounds = c.rounds /\ d.rest = c.rest
    BY DEF NextBlock, Object, CipherFields
  <2> HIDE DEF d, x
  <2>3. /\ x = [f \in CipherFields |-> x[f]] /\ x.pos = d.pos + 1 /\ x.block = d.block
        /\ x.key = d.key /\ x.rounds = d.rounds /\ x.rest = d.rest
        /\ x.low = d.low /\ x.high = d.high
    BY <1>2, <2>1, <2>2
  <2>4. d.pos + 1 = 1 /\ 1 \in 0..StreamBlock
    BY <1>1, <2>2
  <2>5. Object(x)
    BY <2>3, <2>4 DEF Object
  <2>6. QED
    BY <1>3, <2>2, <2>3, <2>4, <2>5 DEF x, d
<1>4. CASE ~AtEnd(c)
  <2> DEFINE x == Step(c)
  <2>1. ~(c.pos = 0 \/ c.pos >= StreamBlock)
    BY <1>1, <1>4 DEF AtEnd
  <2>2. x = [c EXCEPT !.pos = @ + 1]
    BY <2>1 DEF Step, AtByte
  <2> HIDE DEF x
  <2>3. /\ x = [f \in CipherFields |-> x[f]] /\ x.pos = c.pos + 1 /\ x.block = c.block
        /\ x.key = c.key /\ x.rounds = c.rounds /\ x.rest = c.rest
        /\ x.low = c.low /\ x.high = c.high
    BY <1>2, <2>2 DEF Object
  <2>4. c.pos + 1 \in 0..StreamBlock
    BY <1>1, <2>1
  <2>5. Object(x)
    BY <2>3, <2>4 DEF Object
  <2>6. QED
    BY <1>4, <2>3, <2>5 DEF x
<1>5. QED
  BY <1>3, <1>4

(* A byte of crypt() is the next one of the setting. *)
LEMMA ByteHanded ==
    ASSUME NEW c, NEW L, NEW T, NEW tl, NEW v, NEW s, Handed(c, L, T, tl, v, s), c.rest = v.rest
    PROVE  /\ Handed(Step(c), L + 1, T, tl, v, s)
           /\ Step(c).rest = v.rest /\ Step(c).key = c.key /\ Step(c).rounds = c.rounds
           /\ Out(Step(c)) = ByteOf(c, T, tl, v, s, L + 1)
<1> DEFINE x == Step(c)
           B == StreamBlock
<1>1. /\ Object(c) /\ L \in Nat /\ T \in Nat /\ T < B /\ s \in Nat /\ Base(v) \in Nat
      /\ Counted(c, v, s + Made(L, T)) /\ B \in Nat \ {0} /\ L + 1 \in Nat
      /\ c.pos \in Nat
  BY StreamAssumption DEF Handed, Object
<1>2. /\ Object(x) /\ x.key = c.key /\ x.rounds = c.rounds /\ x.rest = c.rest
      /\ AtEnd(c) => /\ x.pos = 1 /\ x.block = BlockName(c)
                     /\ x.low = NextBlock(c).low /\ x.high = NextBlock(c).high
      /\ ~AtEnd(c) => /\ x.pos = c.pos + 1 /\ x.block = c.block
                      /\ x.low = c.low /\ x.high = c.high
  BY <1>1, ObjectStep
<1>3. \A N : BlockOf(x, v, N) = BlockOf(c, v, N)
  BY <1>2 DEF BlockOf
<1> HIDE DEF x
<1>4. \A N \in Nat : Counted(c, v, N) /\ AtEnd(c) =>
                        Counted(x, v, N + 1) /\ x.block = BlockOf(c, v, N)
  BY <1>1, <1>2, BlockCounted DEF Counted
<1>5. \A N \in Nat : Counted(c, v, N) /\ ~AtEnd(c) => Counted(x, v, N)
  BY <1>2 DEF Counted
<1>6. Out(x) = [block |-> x.block, at |-> x.pos]
  BY DEF Out
<1>6a. L <= T => /\ c.pos = B - T + L \/ (c.pos = 0 /\ T = 0)
                 /\ \A n \in 1..T : tl[n] = [block |-> c.block, at |-> B - T + n]
  BY DEF Handed, Positioned
<1>7. CASE L < T
  <2>0. L <= T /\ T # 0
    BY <1>1, <1>7
  <2>1. /\ c.pos = B - T + L
        /\ \A n \in 1..T : tl[n] = [block |-> c.block, at |-> B - T + n]
    BY <1>6a, <2>0
  <2>2. c.pos # 0 /\ c.pos # B /\ L + 1 <= T /\ L + 1 \in 1..T /\ L <= T
    <3>1. ASSUME NEW a \in Nat \ {0}, NEW b \in Nat, NEW d \in Nat, b < a, d < b
          PROVE  a - b + d # 0 /\ a - b + d # a /\ d + 1 <= b /\ d + 1 \in 1..b /\ d <= b
      BY <3>1
    <3> HIDE DEF B
    <3>2. QED
      BY <1>1, <1>7, <2>1, <3>1
  <2>3. Made(L, T) = 0 /\ Made(L + 1, T) = 0
    BY <1>1, <2>2, MadeIs
  <2>4. ~AtEnd(c)
    BY <2>2 DEF AtEnd
  <2>5. s + 0 \in Nat
    BY <1>1
  <2>6. Counted(x, v, s + Made(L + 1, T))
    BY <1>1, <1>5, <2>3, <2>4, <2>5
  <2>7. x.pos = B - T + (L + 1) /\ x.block = c.block
    <3>1. ASSUME NEW a \in Nat, NEW b \in Nat, NEW d \in Nat
          PROVE  (a - b + d) + 1 = a - b + (d + 1)
      OBVIOUS
    <3>2. (B - T + L) + 1 = B - T + (L + 1)
      <4> HIDE DEF B
      <4>1. QED
        BY <1>1, <3>1
    <3>3. QED
      BY <1>2, <2>1, <2>4, <3>2
  <2>8. Positioned(x, L + 1, T, tl, v, s)
    <3>1. ~(L + 1 > T)
      BY <1>1, <2>2
    <3>2. QED
      BY <2>1, <2>7, <3>1 DEF Positioned
  <2>9. Out(x) = ByteOf(c, T, tl, v, s, L + 1)
    BY <1>6, <2>1, <2>2, <2>7 DEF ByteOf
  <2>10. QED
    BY <1>1, <1>2, <2>6, <2>8, <2>9 DEF Handed, x
<1>8. CASE L = T
  <2>1. c.pos = B - T + L \/ c.pos = 0
    <3>1. L <= T
      BY <1>1, <1>8
    <3>2. QED
      BY <1>6a, <3>1
  <2>2. AtEnd(c)
    <3>1. B - T + L = B
      BY <1>1, <1>8
    <3>2. QED
      BY <2>1, <3>1 DEF AtEnd
  <2> DEFINE M == (L + 1) - T - 1
  <2>3. /\ M = 0 /\ L + 1 > T /\ ~(L + 1 <= T) /\ L <= T
    BY <1>1, <1>8
  <2>4. M \div B = 0 /\ M % B = 0 /\ 0 + 1 = 1 /\ s + 0 = s /\ s \in Nat
    <3>1. ASSUME NEW b \in Nat \ {0} PROVE 0 \div b = 0 /\ 0 % b = 0
      OBVIOUS
    <3> HIDE DEF M
    <3>2. QED
      BY <1>1, <2>3, <3>1
  <2>5. Made(L, T) = 0 /\ Made(L + 1, T) = 1
    <3>1. Made(L + 1, T) = (M \div B) + 1
      BY <1>1, <2>3, MadeIs
    <3>2. Made(L, T) = 0
      BY <1>1, <2>3, MadeIs
    <3> HIDE DEF M
    <3>3. QED
      BY <2>4, <3>1, <3>2
  <2>6. Counted(x, v, s + Made(L + 1, T)) /\ x.block = BlockOf(c, v, s)
    BY <1>1, <1>4, <2>2, <2>4, <2>5
  <2>7. x.pos = (M % B) + 1 /\ x.block = BlockOf(c, v, s + (M \div B))
    <3> HIDE DEF M
    <3>1. QED
      BY <1>2, <2>2, <2>4, <2>6
  <2>8. Positioned(x, L + 1, T, tl, v, s)
    BY <1>3, <2>3, <2>7 DEF Positioned
  <2>9. Out(x) = ByteOf(c, T, tl, v, s, L + 1)
    BY <1>6, <2>3, <2>7 DEF ByteOf
  <2>10. QED
    BY <1>1, <1>2, <2>6, <2>8, <2>9 DEF Handed, x
<1>9. CASE L > T
  <2> DEFINE m == L - T - 1
             M == (L + 1) - T - 1
  <2>1. /\ m \in Nat /\ M = m + 1 /\ L + 1 > T /\ ~(L + 1 <= T)
    BY <1>1, <1>9
  <2>2. c.pos = (m % B) + 1 /\ c.block = BlockOf(c, v, s + (m \div B))
    BY <1>9 DEF Handed, Positioned
  <2>3. /\ m \div B \in Nat /\ m % B \in 0..(B - 1) /\ Made(L, T) = (m \div B) + 1
        /\ Made(L + 1, T) = (M \div B) + 1
    <3>1. m \div B \in Nat /\ m % B \in 0..(B - 1) /\ Made(L, T) = (m \div B) + 1
      BY <1>1, <1>9, MadeIs
    <3>2. Made(L + 1, T) = (M \div B) + 1
      BY <1>1, <2>1, MadeIs
    <3>3. QED
      BY <3>1, <3>2
  <2>4. /\ M % B = IF m % B = B - 1 THEN 0 ELSE (m % B) + 1
        /\ M \div B = IF m % B = B - 1 THEN (m \div B) + 1 ELSE m \div B
    <3> HIDE DEF m, M, B
    <3>1. QED
      BY <1>1, <2>1, SuccMod, SuccDiv
  <2> DEFINE q == m \div B
             r == m % B
  <2>5. q \in Nat /\ r \in 0..(B - 1) /\ s + (q + 1) \in Nat /\ 0 + 1 = 1
    BY <1>1, <2>3
  <2>6. /\ c.pos = r + 1 /\ c.block = BlockOf(c, v, s + q) /\ Made(L, T) = q + 1
        /\ Made(L + 1, T) = (M \div B) + 1
        /\ M % B = IF r = B - 1 THEN 0 ELSE r + 1
        /\ M \div B = IF r = B - 1 THEN q + 1 ELSE q
    BY <2>2, <2>3, <2>4
  <2> HIDE DEF m, M, q, r
  <2>7. /\ Counted(x, v, s + Made(L + 1, T))
        /\ x.pos = (M % B) + 1 /\ x.block = BlockOf(c, v, s + (M \div B))
    <3>1. CASE r = B - 1
      <4>1. AtEnd(c)
        BY <1>1, <2>5, <2>6, <3>1 DEF AtEnd
      <4>2. (s + (q + 1)) + 1 = s + ((q + 1) + 1)
        BY <1>1, <2>5
      <4>3. Counted(x, v, s + ((q + 1) + 1)) /\ x.block = BlockOf(c, v, s + (q + 1))
        BY <1>1, <1>4, <2>5, <2>6, <4>1, <4>2
      <4>4. QED
        BY <1>2, <2>5, <2>6, <3>1, <4>1, <4>3
    <3>2. CASE r # B - 1
      <4>1. ~AtEnd(c)
        BY <1>1, <2>5, <2>6, <3>2 DEF AtEnd
      <4>2. Counted(x, v, s + (q + 1))
        BY <1>1, <1>5, <2>5, <2>6, <4>1
      <4>3. QED
        BY <1>2, <2>6, <3>2, <4>1, <4>2
    <3>3. QED
      BY <3>1, <3>2
  <2>8. Positioned(x, L + 1, T, tl, v, s)
    BY <1>3, <2>1, <2>7 DEF Positioned, M
  <2>9. Out(x) = ByteOf(c, T, tl, v, s, L + 1)
    BY <1>6, <2>1, <2>7 DEF ByteOf, M
  <2>10. QED
    BY <1>1, <1>2, <2>7, <2>8, <2>9 DEF Handed, x
<1>10. QED
  BY <1>1, <1>7, <1>8, <1>9

(* And so is every byte of a call. *)
LEMMA CallHanded ==
    ASSUME NEW c, NEW L, NEW T, NEW tl, NEW v, NEW s, Handed(c, L, T, tl, v, s), c.rest = v.rest
    PROVE  \A n \in Nat : /\ Handed(At(c, n), L + n, T, tl, v, s)
                          /\ At(c, n).rest = v.rest
                          /\ At(c, n).key = c.key /\ At(c, n).rounds = c.rounds
                          /\ n > 0 => Out(At(c, n)) = ByteOf(c, T, tl, v, s, L + n)
<1> DEFINE P(n) == /\ Handed(At(c, n), L + n, T, tl, v, s)
                   /\ At(c, n).rest = v.rest
                   /\ At(c, n).key = c.key /\ At(c, n).rounds = c.rounds
                   /\ n > 0 => Out(At(c, n)) = ByteOf(c, T, tl, v, s, L + n)
           S == {n \in Nat : P(n)}
<1>1. At(c, 0) = c /\ \A n \in Nat : At(c, n + 1) = Step(At(c, n))
  BY RunIsAt
<1>2. L \in Nat /\ L + 0 = L /\ ~(0 > 0)
  BY DEF Handed
<1>3. 0 \in S
  BY <1>1, <1>2
<1>4. ASSUME NEW n \in Nat, n \in S PROVE n + 1 \in S
  <2> DEFINE d == At(c, n)
             a == L + n
  <2>1. /\ Handed(d, a, T, tl, v, s) /\ d.rest = v.rest /\ d.key = c.key /\ d.rounds = c.rounds
    BY <1>4
  <2>2. At(c, n + 1) = Step(d) /\ L + (n + 1) = a + 1 /\ n + 1 \in Nat
    BY <1>1, <1>2
  <2> HIDE DEF d, a
  <2>3. /\ Handed(Step(d), a + 1, T, tl, v, s)
        /\ Step(d).rest = v.rest /\ Step(d).key = d.key /\ Step(d).rounds = d.rounds
        /\ Out(Step(d)) = ByteOf(d, T, tl, v, s, a + 1)
    BY <2>1, ByteHanded
  <2>4. ByteOf(d, T, tl, v, s, a + 1) = ByteOf(c, T, tl, v, s, a + 1)
    BY <2>1 DEF ByteOf, BlockOf
  <2>5. P(n + 1)
    BY <2>1, <2>2, <2>3, <2>4
  <2> HIDE DEF P
  <2>6. QED
    BY <2>2, <2>5
<1> HIDE DEF P
<1>5. \A n \in Nat : n \in S => P(n)
  OBVIOUS
<1> HIDE DEF S
<1>6. Nat \subseteq S
  BY <1>3, <1>4, NatSets
<1>7. \A n \in Nat : P(n)
  BY <1>5, <1>6
<1>8. QED
  BY <1>7 DEF P

(* What is left of a block, when a setting interrupts it. *)
LEMMA LeftRight ==
    ASSUME NEW c, Object(c)
    PROVE  /\ IsSeq(Left(c)) /\ Len(Left(c)) \in Nat /\ Len(Left(c)) < StreamBlock
           /\ c.pos = StreamBlock - Len(Left(c)) \/ (c.pos = 0 /\ Len(Left(c)) = 0)
           /\ \A n \in 1..Len(Left(c)) :
                 Left(c)[n] = [block |-> c.block, at |-> StreamBlock - Len(Left(c)) + n]
<1> DEFINE t == Left(c)
<1>1. c.pos \in Nat /\ c.pos <= StreamBlock /\ StreamBlock \in Nat \ {0}
  BY StreamAssumption DEF Object
<1>2. CASE c.pos = 0
  <2>1. t = <<>>
    BY <1>2 DEF Left
  <2>2. IsSeq(<<>>) /\ Len(<<>>) = 0
    BY DEF IsSeq
  <2> HIDE DEF t
  <2>3. IsSeq(t) /\ Len(t) = 0 /\ 0 < StreamBlock /\ \A n \in 1..0 : FALSE
    BY <1>1, <2>1, <2>2
  <2>4. QED
    BY <1>2, <2>3 DEF t
<1>3. CASE c.pos # 0
  <2> DEFINE N == StreamBlock - c.pos
  <2>1. N \in Nat /\ N < StreamBlock /\ StreamBlock - N = c.pos
    BY <1>1, <1>3
  <2>2. t = [n \in 1..N |-> [block |-> c.block, at |-> c.pos + n]]
    BY <1>3 DEF Left
  <2> HIDE DEF t, N
  <2>3. t = [n \in 1..N |-> t[n]]
    BY <2>2
  <2>4. IsSeq(t) /\ Len(t) = N
    BY <2>1, <2>3, FunctionIsSeq
  <2>5. \A n \in 1..N : t[n] = [block |-> c.block, at |-> StreamBlock - N + n]
    BY <2>1, <2>2
  <2>6. QED
    BY <2>1, <2>4, <2>5 DEF t
<1>4. QED
  BY <1>2, <1>3

(* Behind a setting nothing was handed out yet. *)
LEMMA Restart ==
    ASSUME NEW c, Object(c), NEW d, Object(d), d.pos = c.pos, d.block = c.block,
           NEW v, Base(v) \in Nat, NEW s \in Nat, Counted(d, v, s)
    PROVE  Handed(d, 0, Len(Left(c)), Left(c), v, s)
<1> DEFINE t == Left(c)
           T == Len(t)
<1>1. /\ T \in Nat /\ T < StreamBlock
      /\ c.pos = StreamBlock - T \/ (c.pos = 0 /\ T = 0)
      /\ \A n \in 1..T : t[n] = [block |-> c.block, at |-> StreamBlock - T + n]
  BY LeftRight
<1> HIDE DEF t, T
<1>1a. T \in Nat
  BY <1>1
<1>2. Made(0, T) = 0 /\ s + 0 = s
  <2>1. 0 \in Nat /\ 0 <= T /\ s + 0 = s
    BY <1>1a
  <2>2. QED
    BY <1>1a, <2>1, MadeIs
<1>3. ~(0 > T) /\ StreamBlock - T + 0 = StreamBlock - T
  BY <1>1a, StreamAssumption
<1>4. Positioned(d, 0, T, t, v, s)
  BY <1>1, <1>3 DEF Positioned
<1>5. Handed(d, 0, T, t, v, s)
  BY <1>1, <1>2, <1>4 DEF Handed
<1>6. QED
  BY <1>5 DEF t, T

(* The inductive invariant. *)
StreamOf(u, c, T, tl, v, s) == \A n \in 1..Len(u) : u[n] = ByteOf(c, T, tl, v, s, n)
StreamInv ==
    /\ IsSeq(stream)
    /\ Handed(cipher, Len(stream), Len(tail), tail, iv, start)
    /\ ivsSet # {} => cipher.rest = iv.rest
    /\ StreamOf(stream, cipher, Len(tail), tail, iv, start)

(* Init: a constructed object. *)
LEMMA InitStream == ChaChaInit => StreamInv
<1> HAVE ChaChaInit
<1>1. /\ cipher = NewCipher /\ iv.size = 0 /\ iv.first = 0 /\ start = 0
      /\ tail = <<>> /\ stream = <<>> /\ ivsSet = {}
  BY DEF ChaChaInit
<1>2. /\ NewCipher = [f \in CipherFields |-> NewCipher[f]] /\ NewCipher.pos = 0
      /\ NewCipher.low = 0 /\ NewCipher.high = 0
  BY DEF NewCipher, CipherFields
<1>3. Object(cipher) /\ cipher.pos = 0
  BY <1>1, <1>2, StreamAssumption DEF Object
<1>4. Base(iv) = 0 /\ Base(iv) \in Nat
  BY <1>1 DEF Base
<1>5. Counted(cipher, iv, 0)
  <2>1. ASSUME NEW b \in Nat \ {0} PROVE 0 \div b = 0 /\ 0 % b = 0
    OBVIOUS
  <2>2. 0 \div CounterSize = 0 /\ 0 % CounterSize = 0 /\ 0 + 0 = 0
    BY <2>1, StreamAssumption
  <2>3. QED
    BY <1>1, <1>2, <1>4, <2>2 DEF Counted
<1>6. Handed(cipher, 0, Len(Left(cipher)), Left(cipher), iv, 0)
  BY <1>3, <1>4, <1>5, Restart
<1>7. Left(cipher) = tail /\ Len(stream) = 0 /\ IsSeq(stream)
  BY <1>1, <1>3 DEF Left, IsSeq
<1>8. StreamOf(stream, cipher, Len(tail), tail, iv, start)
  <2>1. \A n \in 1..Len(stream) : FALSE
    BY <1>7
  <2>2. QED
    BY <2>1 DEF StreamOf
<1>9. QED
  BY <1>1, <1>6, <1>7, <1>8 DEF StreamInv

(* set_key(), set_iv() and set_rounds() begin a new stream. *)
LEMMA SettingKeepsStream ==
    ASSUME StreamInv, Restarted, Object(cipher'), cipher'.pos = cipher.pos,
           cipher'.block = cipher.block, Base(iv') \in Nat, start' \in Nat,
           Counted(cipher', iv', start'), ivsSet' # {} => cipher'.rest = iv'.rest
    PROVE  StreamInv'
<1>1. tail' = Left(cipher) /\ stream' = <<>>
  BY DEF Restarted
<1>2. Len(<<>>) = 0 /\ IsSeq(<<>>) /\ \A n \in 1..0 : FALSE
  BY DEF IsSeq
<1>3. Object(cipher)
  BY DEF StreamInv, Handed
<1>4. Handed(cipher', 0, Len(Left(cipher)), Left(cipher), iv', start')
  BY <1>3, Restart
<1>5. (IsSeq(stream))' /\ StreamOf(stream, cipher, Len(tail), tail, iv, start)'
  BY <1>1, <1>2 DEF StreamOf, IsSeq
<1>6. Handed(cipher, Len(stream), Len(tail), tail, iv, start)'
  BY <1>1, <1>2, <1>4
<1>7. QED
  BY <1>5, <1>6 DEF StreamInv

(* The key or the number of rounds changes, the counter goes on. *)
LEMMA CounterGoesOn ==
    ASSUME StreamInv, Restarted, iv' = iv, UNCHANGED ivsSet, Object(cipher'),
           cipher'.pos = cipher.pos, cipher'.block = cipher.block, cipher'.low = cipher.low,
           cipher'.high = cipher.high, cipher'.rest = cipher.rest,
           start' = start + (IF Len(stream) > Len(tail) THEN Blocks ELSE 0)
    PROVE  StreamInv'
<1> DEFINE M == Made(Len(stream), Len(tail))
<1>1. start' = start + M
  BY DEF Made, Blocks
<1>2. /\ Len(stream) \in Nat /\ Len(tail) \in Nat /\ start \in Nat /\ Base(iv) \in Nat
      /\ Counted(cipher, iv, start + M)
  BY DEF StreamInv, Handed
<1>3. M \in Nat
  BY <1>2, MadeIs
<1> HIDE DEF M
<1>4. start' \in Nat /\ Counted(cipher', iv', start') /\ Base(iv') \in Nat
  BY <1>1, <1>2, <1>3 DEF Counted
<1>5. ivsSet' # {} => cipher'.rest = iv'.rest
  BY DEF StreamInv
<1>6. QED
  BY <1>4, <1>5, SettingKeepsStream

(* crypt(): the bytes of the call follow those before it. *)
LEMMA CryptKeepsStream ==
    ASSUME StreamInv, NEW size \in CryptSizes, NEW output, Crypt(size, output)
    PROVE  StreamInv'
<1> DEFINE L == Len(stream)
           T == Len(tail)
           k == KeyStream(cipher, size)
           c == At(cipher, size)
<1>1. size \in Nat /\ size \in 0..size
  BY IvAssumption
<1>2. /\ ivsSet # {} /\ cipher' = c /\ stream' = stream \o k
      /\ UNCHANGED <<iv, start, tail, ivsSet>>
  <2>1. Run(cipher, size)[size] = c
    BY DEF At
  <2>2. QED
    BY <2>1 DEF Crypt
<1>3. Handed(cipher, L, T, tail, iv, start) /\ cipher.rest = iv.rest /\ L \in Nat
  BY <1>2 DEF StreamInv, Handed
<1>4. ASSUME NEW n \in Nat
      PROVE  /\ Handed(At(cipher, n), L + n, T, tail, iv, start)
             /\ At(cipher, n).rest = iv.rest
             /\ At(cipher, n).key = cipher.key /\ At(cipher, n).rounds = cipher.rounds
             /\ n > 0 => Out(At(cipher, n)) = ByteOf(cipher, T, tail, iv, start, L + n)
  BY <1>3, CallHanded
<1>5. k = [n \in 1..size |-> Out(At(cipher, n))]
  BY <1>1, StreamBytes
<1> HIDE DEF k
<1>6. IsSeq(k) /\ Len(k) = size
  <2>1. k = [n \in 1..size |-> k[n]]
    BY <1>5
  <2>2. QED
    BY <1>1, <2>1, FunctionIsSeq
<1>7. /\ IsSeq(stream \o k) /\ Len(stream \o k) = L + size
      /\ \A n \in 1..L : (stream \o k)[n] = stream[n]
      /\ \A n \in 1..size : (stream \o k)[L + n] = k[n]
  <2>1. IsSeq(stream)
    BY DEF StreamInv
  <2>2. /\ IsSeq(stream \o k) /\ Len(stream \o k) = Len(stream) + Len(k)
        /\ \A n \in 1..Len(stream) : (stream \o k)[n] = stream[n]
        /\ \A n \in 1..Len(k) : (stream \o k)[Len(stream) + n] = k[n]
    <3>1. ASSUME NEW u, IsSeq(u), NEW w, IsSeq(w)
          PROVE  /\ IsSeq(u \o w) /\ Len(u \o w) = Len(u) + Len(w)
                 /\ \A n \in 1..Len(u) : (u \o w)[n] = u[n]
                 /\ \A n \in 1..Len(w) : (u \o w)[Len(u) + n] = w[n]
      BY <3>1, JoinedSeqs
    <3>2. IsSeq(k)
      BY <1>6
    <3> HIDE DEF L, T, c
    <3>3. QED
      BY <2>1, <3>1, <3>2
  <2>3. QED
    BY <1>6, <2>2
<1>8. c.key = cipher.key /\ c.rounds = cipher.rounds /\ c.rest = iv.rest
      /\ Handed(c, L + size, T, tail, iv, start)
  BY <1>1, <1>4
<1>9. \A n : ByteOf(c, T, tail, iv, start, n) = ByteOf(cipher, T, tail, iv, start, n)
  BY <1>8 DEF ByteOf, BlockOf
<1> HIDE DEF c
<1>10. ASSUME NEW n \in 1..(L + size)
       PROVE  (stream \o k)[n] = ByteOf(cipher, T, tail, iv, start, n)
  <2>1. CASE n <= L
    <3>1. n \in 1..L
      BY <1>3, <2>1
    <3>2. stream[n] = ByteOf(cipher, T, tail, iv, start, n)
      BY <3>1 DEF StreamInv, StreamOf
    <3>3. QED
      BY <1>7, <3>1, <3>2
  <2>2. CASE ~(n <= L)
    <3> DEFINE j == n - L
    <3>1. j \in 1..size /\ j \in Nat /\ j > 0 /\ L + j = n
      BY <1>1, <1>3, <2>2
    <3> HIDE DEF j
    <3>2. k[j] = ByteOf(cipher, T, tail, iv, start, L + j)
      BY <1>4, <1>5, <3>1
    <3>3. (stream \o k)[L + j] = k[j]
      BY <1>7, <3>1
    <3>4. QED
      BY <3>1, <3>2, <3>3
  <2>3. QED
    BY <2>1, <2>2
<1>11. StreamOf(stream, cipher, Len(tail), tail, iv, start)'
  <2>1. \A n \in 1..Len(stream \o k) : (stream \o k)[n] = ByteOf(c, T, tail, iv, start, n)
    BY <1>7, <1>9, <1>10
  <2>2. StreamOf(stream \o k, c, T, tail, iv, start)
    BY <2>1 DEF StreamOf
  <2>3. QED
    BY <1>2, <2>2
<1>12. (IsSeq(stream))' /\ Handed(cipher, Len(stream), Len(tail), tail, iv, start)'
  BY <1>2, <1>7, <1>8 DEF IsSeq
<1>13. QED
  BY <1>2, <1>8, <1>11, <1>12 DEF StreamInv

(* Every step. *)
LEMMA StepKeepsStream == StreamInv /\ [ChaChaNext]_chachaVars => StreamInv'
<1> SUFFICES ASSUME StreamInv, [ChaChaNext]_chachaVars PROVE StreamInv'
  OBVIOUS
<1>0. cipher = [f \in CipherFields |-> cipher[f]] /\ cipher.pos \in 0..StreamBlock
  BY DEF StreamInv, Handed, Object
<1>1. ASSUME NEW k \in CipherKeys, SetCipherKey(k) PROVE StreamInv'
  <2>1. cipher' = [cipher EXCEPT !.key = k]
    BY <1>1 DEF SetCipherKey
  <2>2. /\ cipher' = [f \in CipherFields |-> cipher'[f]] /\ cipher'.pos = cipher.pos
        /\ cipher'.block = cipher.block /\ cipher'.low = cipher.low
        /\ cipher'.high = cipher.high /\ cipher'.rest = cipher.rest
    BY <1>0, <2>1 DEF CipherFields
  <2>3. Object(cipher')
    BY <1>0, <2>2 DEF Object
  <2>4. QED
    BY <1>1, <2>2, <2>3, CounterGoesOn DEF SetCipherKey
<1>2. ASSUME NEW v \in Ivs, SetIv(v) PROVE StreamInv'
  <2>1. cipher' = WithIv(cipher, v) /\ iv' = v /\ start' = 0 /\ Restarted
    BY <1>2 DEF SetIv
  <2>2. /\ cipher' = [f \in CipherFields |-> cipher'[f]] /\ cipher'.pos = cipher.pos
        /\ cipher'.block = cipher.block /\ cipher'.low = 0
        /\ cipher'.high = Base(v) /\ cipher'.rest = v.rest
    BY <1>0, <2>1 DEF CipherFields, WithIv, Base
  <2>3. Object(cipher')
    BY <1>0, <2>2 DEF Object
  <2>4. Base(v) \in 0..(CounterSize - 1) /\ CounterSize \in Nat \ {0}
    BY IvAssumption, StreamAssumption DEF Base
  <2>5. Counted(cipher', iv', start')
    <3>1. ASSUME NEW b \in Nat \ {0}, NEW z \in 0..(b - 1)
          PROVE  0 % b = 0 /\ (z + (0 \div b)) % b = z
      <4>1. 0 % b = 0 /\ 0 \div b = 0 /\ z + 0 = z /\ z % b = z
        OBVIOUS
      <4>2. QED
        BY <4>1
    <3>2. 0 % CounterSize = 0 /\ (Base(v) + (0 \div CounterSize)) % CounterSize = Base(v)
      BY <2>4, <3>1
    <3>3. QED
      BY <2>1, <2>2, <3>2 DEF Counted
  <2>6. Base(iv') \in Nat /\ start' \in Nat
    BY <2>1, <2>4
  <2>7. QED
    BY <2>1, <2>2, <2>3, <2>5, <2>6, SettingKeepsStream
<1>3. ASSUME NEW r \in RoundCounts, SetRounds(r) PROVE StreamInv'
  <2>1. cipher' = [cipher EXCEPT !.rounds = r]
    BY <1>3 DEF SetRounds
  <2>2. /\ cipher' = [f \in CipherFields |-> cipher'[f]] /\ cipher'.pos = cipher.pos
        /\ cipher'.block = cipher.block /\ cipher'.low = cipher.low
        /\ cipher'.high = cipher.high /\ cipher'.rest = cipher.rest
    BY <1>0, <2>1 DEF CipherFields
  <2>3. Object(cipher')
    BY <1>0, <2>2 DEF Object
  <2>4. QED
    BY <1>3, <2>2, <2>3, CounterGoesOn DEF SetRounds
<1>4. CASE UNCHANGED chachaVars
  BY <1>4 DEF chachaVars, StreamInv, IsSeq
<1>5. QED
  BY <1>1, <1>2, <1>3, <1>4, CryptKeepsStream DEF ChaChaNext

(* For every size of the blocks and of the counter, every iv and however   *)
(* the data is cut into calls: the bytes of key stream after a set_key(),  *)
(* set_iv() or set_rounds() are what was left of the block before it and   *)
(* then the blocks of the setting in order, the carry from state[12] to    *)
(* state[13] included.                                                     *)
THEOREM KeyStreamOfIv == CryptoSpec => []StreamIsOfIv
<1>1. StreamInv => StreamIsOfIv
  BY DEF StreamInv, StreamOf, ByteOf, StreamIsOfIv
<1>2. QED
  BY InitStream, StepKeepsStream, <1>1, ClassesApart, PTL DEF ChaChaSpec

-----------------------------------------------------------------------------
(* The blocks that an iv has names for, and block n of iv w. *)
Limit(w) == IF w.size = 12 THEN CounterSize ELSE CounterSize * CounterSize
Names(b, w, n) ==
    /\ b.rest = w.rest /\ b.low = n % CounterSize
    /\ b.high = (Base(w) + n \div CounterSize) % CounterSize
SameName(a, b) == a.low = b.low /\ a.high = b.high /\ a.rest = b.rest

(* The ivs that the program has set are all of one size. *)
Alike(vs) == vs \subseteq Ivs /\ \A w \in vs, x \in vs : w.size = x.size

(* Block b was made under an iv of vs, and under the present one, v, when  *)
(* fewer than N blocks were.                                               *)
MadeUnder(b, v, N, vs) ==
    \E w \in vs, n \in Nat : Names(b, w, n) /\ n < Limit(w) /\ (w = v => n < N)

(* The bytes u were handed out, each once, and the rest of the block in    *)
(* use was not.                                                            *)
Handable(g, c, v, N, vs) ==
    /\ g.at \in 1..StreamBlock /\ MadeUnder(g.block, v, N, vs)
    /\ c.pos # 0 /\ SameName(g.block, c.block) => g.at <= c.pos
Once(u) ==
    \A i \in 1..Len(u), j \in 1..Len(u) :
        SameName(u[i].block, u[j].block) /\ u[i].at = u[j].at => i = j
Unused(c, v, N, vs, u) ==
    /\ c.pos # 0 => MadeUnder(c.block, v, N, vs)
    /\ \A i \in 1..Len(u) : Handable(u[i], c, v, N, vs)
    /\ Once(u)

(* d bytes were drawn, N of the blocks for them under the present iv. *)
Tally(c, d, N) ==
    \E T \in Nat : /\ N <= T
                   /\ IF T = 0 THEN c.pos = 0 /\ d = 0
                      ELSE c.pos # 0 /\ d = (T - 1) * StreamBlock + c.pos

(* Quotients of small numbers. *)
LEMMA SmallDiv ==
    ASSUME NEW b \in Nat \ {0}, NEW n \in Nat
    PROVE  /\ n < b => n \div b = 0 /\ n % b = n
           /\ n < b * b => n \div b \in 0..(b - 1)
           /\ n = b * (n \div b) + (n % b)
<1> DEFINE q == n \div b
           r == n % b
<1>1. q \in Nat /\ r \in 0..(b - 1) /\ n = b * q + r
  OBVIOUS
<1>2. ASSUME n < b PROVE q = 0 /\ r = n
  BY <1>2
<1>3. ASSUME n < b * b PROVE q \in 0..(b - 1)
  <2> HIDE DEF q, r
  <2>1. SUFFICES ASSUME q >= b PROVE FALSE
    BY <1>1
  <2>2. PICK d \in Nat : q = b + d
    <3>1. q - b \in Nat /\ q = b + (q - b)
      BY <1>1, <2>1
    <3>2. QED
      BY <3>1
  <2>3. b * q = b * b + b * d /\ b * d \in Nat /\ b * b \in Nat
    BY <2>2
  <2>4. QED
    BY <1>1, <1>3, <2>3
<1>4. QED
  BY <1>1, <1>2, <1>3

(* The two words of the counter and the rest of the iv tell which block of *)
(* which iv it is.                                                         *)
LEMMA NamesTell ==
    ASSUME NEW w \in Ivs, NEW x \in Ivs, w.size = x.size, NEW n \in Nat, NEW m \in Nat,
           n < Limit(w), m < Limit(x), NEW a, NEW b, Names(a, w, n), Names(b, x, m),
           SameName(a, b)
    PROVE  w = x /\ n = m
<1> DEFINE K == CounterSize
<1>1. /\ K \in Nat \ {0} /\ w.rest = x.rest /\ n % K = m % K
      /\ (Base(w) + n \div K) % K = (Base(x) + m \div K) % K
  BY StreamAssumption DEF Names, SameName
<1>2. /\ w = [size |-> w.size, first |-> w.first, rest |-> w.rest]
      /\ x = [size |-> x.size, first |-> x.first, rest |-> x.rest]
      /\ w.size \in {8, 12} /\ w.first \in 0..(K - 1) /\ x.first \in 0..(K - 1)
      /\ w.size = 8 => w.first = 0 /\ x.first = 0
  BY IvAssumption
<1>3. ASSUME NEW z \in 0..(K - 1) PROVE z % K = z /\ z + 0 = z /\ 0 + z = z
  BY <1>1
<1>4. CASE w.size = 12
  <2>1. n < K /\ m < K /\ Base(w) = w.first /\ Base(x) = x.first
    BY <1>4 DEF Limit, Base
  <2> HIDE DEF K
  <2>2. n \div K = 0 /\ n % K = n /\ m \div K = 0 /\ m % K = m
    BY <1>1, <2>1, SmallDiv
  <2>3. w.first = x.first
    <3>1. (w.first + 0) % K = (x.first + 0) % K
      BY <1>1, <2>1, <2>2
    <3>2. QED
      BY <1>2, <1>3, <3>1
  <2>4. QED
    BY <1>1, <1>2, <2>2, <2>3
<1>5. CASE w.size = 8
  <2>1. n < K * K /\ m < K * K /\ Base(w) = 0 /\ Base(x) = 0 /\ w.first = x.first
    BY <1>2, <1>5 DEF Limit, Base
  <2> HIDE DEF K
  <2>2. n \div K \in 0..(K - 1) /\ m \div K \in 0..(K - 1)
    BY <1>1, <2>1, SmallDiv
  <2>3. n \div K = m \div K
    <3> DEFINE p == n \div K
               q == m \div K
    <3>1. (0 + p) % K = (0 + q) % K /\ p \in 0..(K - 1) /\ q \in 0..(K - 1)
      BY <1>1, <2>1, <2>2
    <3> HIDE DEF p, q
    <3>2. p = q
      BY <1>3, <3>1
    <3>3. QED
      BY <3>2 DEF p, q
  <2>4. n = K * (n \div K) + (n % K) /\ m = K * (m \div K) + (m % K)
    BY <1>1, SmallDiv
  <2>5. n = m
    BY <1>1, <2>3, <2>4
  <2>6. QED
    BY <1>1, <1>2, <2>1, <2>5
<1>6. QED
  BY <1>2, <1>4, <1>5

(* A byte of crypt(), counted. *)
LEMMA TallyStep ==
    ASSUME NEW c, Object(c), NEW d \in Nat, NEW N \in Nat, Tally(c, d, N)
    PROVE  Tally(Step(c), d + 1, IF AtEnd(c) THEN N + 1 ELSE N)
<1> DEFINE B == StreamBlock
           x == Step(c)
<1>1. PICK T \in Nat : /\ N <= T
                       /\ IF T = 0 THEN c.pos = 0 /\ d = 0 ELSE c.pos # 0 /\ d = (T - 1) * B + c.pos
  BY DEF Tally
<1>2. /\ c.pos \in 0..B /\ B \in Nat \ {0}
      /\ AtEnd(c) => x.pos = 1
      /\ ~AtEnd(c) => x.pos = c.pos + 1
  BY StreamAssumption, ObjectStep DEF Object
<1> HIDE DEF x
<1>3. CASE AtEnd(c)
  <2>1. d = T * B
    <3>1. CASE T = 0
      BY <1>1, <1>2, <3>1
    <3>2. CASE T # 0
      <4> DEFINE t == T - 1
      <4>1. t \in Nat /\ T = t + 1 /\ d = t * B + B
        BY <1>1, <1>2, <1>3, <3>2 DEF AtEnd
      <4> HIDE DEF t
      <4>2. (t + 1) * B = t * B + B
        BY <1>2, <4>1, OneMore
      <4>3. QED
        BY <4>1, <4>2
    <3>3. QED
      BY <3>1, <3>2
  <2>2. /\ T + 1 \in Nat /\ T + 1 # 0 /\ (T + 1) - 1 = T /\ N + 1 <= T + 1 /\ x.pos # 0
        /\ d + 1 = T * B + x.pos
    BY <1>1, <1>2, <1>3, <2>1
  <2>3. Tally(x, d + 1, N + 1)
    BY <2>2 DEF Tally
  <2>4. QED
    BY <1>3, <2>3 DEF x
<1>4. CASE ~AtEnd(c)
  <2>1. T # 0 /\ x.pos # 0 /\ x.pos = c.pos + 1
    BY <1>1, <1>2, <1>4 DEF AtEnd
  <2>2. d + 1 = (T - 1) * B + x.pos
    <3> DEFINE p == (T - 1) * B
    <3>1. p \in Nat
      <4>1. T - 1 \in Nat /\ B \in Nat
        BY <1>2, <2>1
      <4>2. QED
        BY <4>1
    <3>2. d = p + c.pos
      BY <1>1, <2>1
    <3> HIDE DEF p
    <3>3. d + 1 = p + x.pos
      BY <1>2, <2>1, <3>1, <3>2
    <3>4. QED
      BY <3>3 DEF p
  <2>3. Tally(x, d + 1, N)
    BY <1>1, <2>1, <2>2 DEF Tally
  <2>4. QED
    BY <1>4, <2>3 DEF x
<1>5. QED
  BY <1>3, <1>4

(* The bound keeps the counter of two words from coming around. *)
LEMMA TallyBound ==
    ASSUME NEW c, Object(c), NEW d \in Nat, NEW N \in Nat, Tally(c, d, N), d <= MaxDrawn
    PROVE  N < CounterSize * CounterSize
<1> DEFINE B == StreamBlock
           K == CounterSize * CounterSize
<1>1. PICK T \in Nat : /\ N <= T
                       /\ IF T = 0 THEN c.pos = 0 /\ d = 0 ELSE c.pos # 0 /\ d = (T - 1) * B + c.pos
  BY DEF Tally
<1>2. /\ c.pos \in 0..B /\ B \in Nat \ {0} /\ MaxDrawn \in Nat /\ MaxDrawn <= B * (K - 1)
  BY StreamAssumption, DrawnAssumption DEF Object
<1>3. K \in Nat /\ K >= 1
  <2>1. ASSUME NEW k \in Nat \ {0} PROVE k * k \in Nat /\ k * k >= 1
    <3>1. PICK j \in Nat : k = j + 1
      <4>1. k - 1 \in Nat /\ k = (k - 1) + 1
        OBVIOUS
      <4>2. QED
        BY <4>1
    <3>2. k * k = j * j + j + j + 1 /\ j * j \in Nat
      BY <3>1
    <3>3. QED
      BY <3>2
  <2>2. QED
    BY <2>1, StreamAssumption
<1> SUFFICES N < K
  OBVIOUS
<1> HIDE DEF K
<1>4. CASE T = 0
  BY <1>1, <1>3, <1>4
<1>5. CASE T # 0
  <2>1. SUFFICES ASSUME T >= K PROVE FALSE
    BY <1>1, <1>3
  <2>2. PICK e \in Nat : T - 1 = (K - 1) + e
    <3>1. T - K \in Nat /\ T - 1 = (K - 1) + (T - K)
      BY <1>3, <2>1
    <3>2. QED
      BY <3>1
  <2>3. (T - 1) * B = B * (K - 1) + B * e /\ B * e \in Nat /\ B * (K - 1) \in Nat
    <3> DEFINE k == K - 1
    <3>1. k \in Nat
      BY <1>3
    <3> HIDE DEF k
    <3>2. (k + e) * B = B * k + B * e /\ B * e \in Nat /\ B * k \in Nat
      BY <1>2, <3>1
    <3>3. QED
      BY <2>2, <3>2 DEF k
  <2> DEFINE p == B * (K - 1)
             q == B * e
  <2>4. d = (p + q) + c.pos /\ p \in Nat /\ q \in Nat /\ c.pos # 0 /\ MaxDrawn <= p
    BY <1>1, <1>2, <1>5, <2>3
  <2> HIDE DEF p, q
  <2>5. QED
    BY <1>2, <2>4
<1>6. QED
  BY <1>4, <1>5

(* More blocks made under the present iv. *)
LEMMA MadeUnderGrows ==
    ASSUME NEW b, NEW v, NEW N \in Nat, NEW M \in Nat, N <= M, NEW vs, MadeUnder(b, v, N, vs)
    PROVE  MadeUnder(b, v, M, vs)
<1>1. PICK w \in vs, n \in Nat : Names(b, w, n) /\ n < Limit(w) /\ (w = v => n < N)
  BY DEF MadeUnder
<1>2. w = v => n < M
  BY <1>1
<1>3. QED
  BY <1>1, <1>2 DEF MadeUnder

(* A byte of crypt() was not handed out before, whether it meets data or   *)
(* is dropped.                                                             *)
LEMMA ByteIsFresh ==
    ASSUME NEW c, Object(c), NEW vs, Alike(vs), NEW v \in vs, Base(v) \in Nat,
           NEW N \in Nat, Counted(c, v, N), c.rest = v.rest,
           NEW u, IsSeq(u), Unused(c, v, N, vs, u),
           NEW M, M = IF AtEnd(c) THEN N + 1 ELSE N, M <= Limit(v)
    PROVE  /\ Unused(Step(c), v, M, vs, u)
           /\ Unused(Step(c), v, M, vs, Append(u, Out(Step(c))))
<1> DEFINE x == Step(c)
           g == Out(x)
           t == Append(u, g)
<1>1. /\ Object(x)
      /\ AtEnd(c) => x.pos = 1 /\ x.block = BlockName(c)
      /\ ~AtEnd(c) => x.pos = c.pos + 1 /\ x.block = c.block
  BY ObjectStep
<1>2. /\ c.pos \in 0..StreamBlock /\ StreamBlock \in Nat \ {0} /\ x.pos \in 0..StreamBlock
      /\ M \in Nat /\ N <= M
  BY <1>1, StreamAssumption DEF Object
<1>3. g.block = x.block /\ g.at = x.pos
  BY DEF Out
<1> HIDE DEF x, g
<1>4. x.pos # 0 /\ x.pos \in 1..StreamBlock
  BY <1>1, <1>2
<1>5. MadeUnder(x.block, v, M, vs)
  <2>1. CASE AtEnd(c)
    <3>1. /\ BlockName(c).rest = v.rest /\ BlockName(c).low = c.low /\ BlockName(c).high = c.high
      BY DEF BlockName
    <3>2. Names(x.block, v, N)
      BY <1>1, <2>1, <3>1 DEF Names, Counted
    <3>3. N < Limit(v) /\ N < M
      <4>1. M = N + 1
        BY <2>1
      <4>2. Limit(v) \in Nat
        BY StreamAssumption DEF Limit
      <4>3. QED
        BY <4>1, <4>2
    <3>4. QED
      BY <3>2, <3>3 DEF MadeUnder
  <2>2. CASE ~AtEnd(c)
    BY <1>1, <1>2, <2>2 DEF Unused, AtEnd
  <2>3. QED
    BY <2>1, <2>2
<1>6. ASSUME NEW i \in 1..Len(u)
      PROVE  /\ Handable(u[i], x, v, M, vs)
             /\ SameName(u[i].block, x.block) => u[i].at < x.pos
  <2>1. Handable(u[i], c, v, N, vs)
    BY DEF Unused
  <2> DEFINE p == u[i]
  <2> HIDE DEF p
  <2>2. /\ p.at \in 1..StreamBlock /\ MadeUnder(p.block, v, N, vs)
        /\ c.pos # 0 /\ SameName(p.block, c.block) => p.at <= c.pos
    BY <2>1 DEF Handable, p
  <2>3. MadeUnder(p.block, v, M, vs)
    BY <1>2, <2>2, MadeUnderGrows
  <2>4. CASE AtEnd(c)
    <3>1. ~SameName(p.block, x.block)
      <4>1. SUFFICES ASSUME SameName(p.block, x.block) PROVE FALSE
        OBVIOUS
      <4>2. PICK w \in vs, n \in Nat : Names(p.block, w, n) /\ n < Limit(w) /\ (w = v => n < N)
        BY <2>2 DEF MadeUnder
      <4>3. Names(x.block, v, N) /\ N < Limit(v)
        <5>1. /\ BlockName(c).rest = v.rest /\ BlockName(c).low = c.low
              /\ BlockName(c).high = c.high
          BY DEF BlockName
        <5>2. Names(x.block, v, N)
          BY <1>1, <2>4, <5>1 DEF Names, Counted
        <5>3. M = N + 1 /\ Limit(v) \in Nat
          BY <2>4, StreamAssumption DEF Limit
        <5>4. QED
          BY <5>2, <5>3
      <4>4. w \in Ivs /\ v \in Ivs /\ w.size = v.size
        BY DEF Alike
      <4> DEFINE a == p.block
                 b == x.block
      <4>5. Names(a, w, n) /\ Names(b, v, N) /\ SameName(a, b)
        BY <4>1, <4>2, <4>3
      <4> HIDE DEF a, b
      <4>6. w = v /\ n = N
        BY <4>2, <4>3, <4>4, <4>5, NamesTell
      <4>7. QED
        BY <4>2, <4>6
    <3>2. QED
      BY <2>2, <2>3, <3>1 DEF Handable, p
  <2>5. CASE ~AtEnd(c)
    <3>1. c.pos # 0 /\ x.block = c.block /\ x.pos = c.pos + 1
      BY <1>1, <2>5 DEF AtEnd
    <3>2. SameName(p.block, x.block) => p.at < x.pos /\ p.at <= x.pos
      BY <1>2, <2>2, <3>1
    <3>3. QED
      BY <2>2, <2>3, <3>2 DEF Handable, p
  <2>6. QED
    BY <2>4, <2>5
<1>7. Unused(x, v, M, vs, u)
  BY <1>5, <1>6 DEF Unused
<1>8. /\ Len(u) \in Nat /\ Len(t) = Len(u) + 1 /\ t[Len(u) + 1] = g
      /\ \A i \in 1..Len(u) : t[i] = u[i]
  BY Appended
<1> HIDE DEF t
<1>9. Handable(g, x, v, M, vs)
  BY <1>2, <1>3, <1>4, <1>5 DEF Handable
<1>10. ASSUME NEW i \in 1..Len(t) PROVE Handable(t[i], x, v, M, vs)
  <2>1. i \in 1..Len(u) \/ i = Len(u) + 1
    BY <1>8
  <2>2. QED
    BY <1>6, <1>8, <1>9, <2>1
<1>11. ASSUME NEW i \in 1..Len(t), NEW j \in 1..Len(t),
              SameName(t[i].block, t[j].block), t[i].at = t[j].at
       PROVE  i = j
  <2>1. (i \in 1..Len(u) \/ i = Len(u) + 1) /\ (j \in 1..Len(u) \/ j = Len(u) + 1)
    BY <1>8
  <2>2. ASSUME NEW k \in 1..Len(u), SameName(u[k].block, x.block), u[k].at = x.pos PROVE FALSE
    <3>1. Handable(u[k], x, v, M, vs) /\ u[k].at < x.pos
      BY <1>6, <2>2
    <3>2. u[k].at \in 1..StreamBlock
      BY <3>1 DEF Handable
    <3>3. QED
      BY <1>2, <2>2, <3>1, <3>2
  <2>3. CASE i \in 1..Len(u) /\ j \in 1..Len(u)
    BY <1>8, <1>11, <2>3 DEF Unused, Once
  <2>4. CASE i \in 1..Len(u) /\ j = Len(u) + 1
    <3>1. SameName(u[i].block, x.block) /\ u[i].at = x.pos
      BY <1>3, <1>8, <1>11, <2>4
    <3>2. QED
      BY <2>2, <2>4, <3>1
  <2>5. CASE i = Len(u) + 1 /\ j \in 1..Len(u)
    <3>1. SameName(u[j].block, x.block) /\ u[j].at = x.pos
      BY <1>3, <1>8, <1>11, <2>5 DEF SameName
    <3>2. QED
      BY <2>2, <2>5, <3>1
  <2>6. QED
    BY <2>1, <2>3, <2>4, <2>5
<1>12. Unused(x, v, M, vs, t)
  BY <1>5, <1>10, <1>11 DEF Unused, Once
<1>13. QED
  BY <1>7, <1>12 DEF x, g, t

(* The inductive invariant: N blocks were made under the present iv.       *)
BytesInv ==
    /\ Object(cipher) /\ Base(iv) \in Nat /\ IsSeq(given) /\ drawn \in Nat
    /\ ivsSet \subseteq Ivs
    /\ ivsSet # {} => iv \in ivsSet /\ cipher.rest = iv.rest
    /\ \E N \in Nat :
         /\ Counted(cipher, iv, N) /\ Tally(cipher, drawn, N)
         /\ ~repeated => /\ Alike(ivsSet) /\ N <= Limit(iv)
                         /\ Unused(cipher, iv, N, ivsSet, given)

(* The counter after a byte. *)
LEMMA CountStep ==
    ASSUME NEW c, Object(c), NEW v, Base(v) \in Nat, NEW N \in Nat, Counted(c, v, N)
    PROVE  Counted(Step(c), v, IF AtEnd(c) THEN N + 1 ELSE N)
<1>1. /\ AtEnd(c) => Step(c).low = NextBlock(c).low /\ Step(c).high = NextBlock(c).high
      /\ ~AtEnd(c) => Step(c).low = c.low /\ Step(c).high = c.high
  BY ObjectStep
<1>2. Counted(NextBlock(c), v, N + 1)
  BY BlockCounted
<1>3. CASE AtEnd(c)
  BY <1>1, <1>2, <1>3 DEF Counted
<1>4. CASE ~AtEnd(c)
  BY <1>1, <1>4 DEF Counted
<1>5. QED
  BY <1>3, <1>4

(* crypt(): byte after byte, every one is fresh as long as the iv has      *)
(* names for the blocks.                                                   *)
LEMMA CallIsFresh ==
    ASSUME BytesInv, ivsSet # {}, NEW size \in Nat, NEW output \in BOOLEAN
    PROVE  LET c == At(cipher, size)
               u == IF output THEN given \o KeyStream(cipher, size) ELSE given
           IN /\ Object(c) /\ c.rest = iv.rest /\ IsSeq(u)
              /\ \E N \in Nat :
                   /\ Counted(c, iv, N) /\ Tally(c, drawn + size, N)
                   /\ ~repeated /\ N <= Limit(iv) => Unused(c, iv, N, ivsSet, u)
<1> DEFINE k(n) == [j \in 1..n |-> Out(At(cipher, j))]
           u(n) == IF output THEN given \o k(n) ELSE given
           Q(n, N) == /\ Counted(At(cipher, n), iv, N) /\ Tally(At(cipher, n), drawn + n, N)
                      /\ ~repeated /\ N <= Limit(iv) =>
                            Unused(At(cipher, n), iv, N, ivsSet, u(n))
           P(n) == /\ Object(At(cipher, n)) /\ At(cipher, n).rest = iv.rest
                   /\ \E N \in Nat : Q(n, N)
           S == {n \in Nat : P(n)}
<1>1. At(cipher, 0) = cipher /\ \A n \in Nat : At(cipher, n + 1) = Step(At(cipher, n))
  BY RunIsAt
<1>2. /\ Object(cipher) /\ Base(iv) \in Nat /\ IsSeq(given) /\ drawn \in Nat
      /\ iv \in ivsSet /\ cipher.rest = iv.rest
  BY DEF BytesInv
<1>3. ASSUME NEW n \in Nat PROVE IsSeq(k(n)) /\ Len(k(n)) = n /\ \A j \in 1..n : k(n)[j] = Out(At(cipher, j))
  <2> DEFINE f == k(n)
  <2>1. f = [j \in 1..n |-> f[j]] /\ \A j \in 1..n : f[j] = Out(At(cipher, j))
    OBVIOUS
  <2> HIDE DEF f
  <2>2. IsSeq(f) /\ Len(f) = n
    BY <2>1, FunctionIsSeq
  <2>3. QED
    BY <2>1, <2>2 DEF f
<1>4. ASSUME NEW n \in Nat PROVE IsSeq(u(n))
  <2> DEFINE f == k(n)
  <2>1. IsSeq(f)
    BY <1>3
  <2> HIDE DEF f
  <2>2. IsSeq(given \o f)
    BY <1>2, <2>1, JoinedSeqs
  <2>3. QED
    BY <1>2, <2>2 DEF f
<1>5. u(0) = given
  <2> DEFINE f == k(0)
  <2>1. IsSeq(f) /\ Len(f) = 0
    BY <1>3
  <2> HIDE DEF f
  <2>2. f = <<>>
    BY <2>1, NoElements
  <2>3. given \o <<>> = given
    <3>1. given \in Seq({given[j] : j \in DOMAIN given})
      BY <1>2 DEF IsSeq
    <3>2. QED
      BY <3>1, ConcatEmptySeq
  <2>4. QED
    BY <2>2, <2>3 DEF f
<1>6. ASSUME NEW n \in Nat
      PROVE  u(n + 1) = IF output THEN Append(u(n), Out(At(cipher, n + 1))) ELSE u(n)
  <2>1. given \o k(n + 1) = Append(given \o k(n), Out(At(cipher, n + 1)))
    <3> DEFINE f == k(n)
               h == k(n + 1)
               o == Out(At(cipher, n + 1))
               a == given \o f
               b == given \o h
               t == Append(a, o)
    <3>1. /\ IsSeq(f) /\ Len(f) = n /\ IsSeq(h) /\ Len(h) = n + 1 /\ h[n + 1] = o
          /\ \A j \in 1..n : h[j] = f[j]
      <4>1. \A j \in 1..n : j \in 1..(n + 1)
        OBVIOUS
      <4>2. n + 1 \in Nat /\ n + 1 \in 1..(n + 1)
        OBVIOUS
      <4>3. IsSeq(f) /\ Len(f) = n /\ \A j \in 1..n : f[j] = Out(At(cipher, j))
        BY <1>3
      <4>4. IsSeq(h) /\ Len(h) = n + 1 /\ \A j \in 1..(n + 1) : h[j] = Out(At(cipher, j))
        BY <1>3, <4>2
      <4> HIDE DEF f, h
      <4>5. QED
        BY <4>1, <4>2, <4>3, <4>4
    <3> HIDE DEF f, h, o
    <3>2. /\ IsSeq(a) /\ Len(a) = Len(given) + n
          /\ \A j \in 1..Len(given) : a[j] = given[j]
          /\ \A j \in 1..n : a[Len(given) + j] = f[j]
      <4>1. IsSeq(given) /\ IsSeq(f)
        BY <1>2, <3>1
      <4>2. /\ IsSeq(a) /\ Len(a) = Len(given) + Len(f)
            /\ \A j \in 1..Len(given) : a[j] = given[j]
            /\ \A j \in 1..Len(f) : a[Len(given) + j] = f[j]
        BY <4>1, JoinedSeqs
      <4> HIDE DEF a
      <4>3. QED
        BY <3>1, <4>2
    <3>3. /\ IsSeq(b) /\ Len(b) = Len(given) + (n + 1)
          /\ \A j \in 1..Len(given) : b[j] = given[j]
          /\ \A j \in 1..(n + 1) : b[Len(given) + j] = h[j]
      <4>1. IsSeq(given) /\ IsSeq(h)
        BY <1>2, <3>1
      <4>2. /\ IsSeq(b) /\ Len(b) = Len(given) + Len(h)
            /\ \A j \in 1..Len(given) : b[j] = given[j]
            /\ \A j \in 1..Len(h) : b[Len(given) + j] = h[j]
        BY <4>1, JoinedSeqs
      <4> HIDE DEF b
      <4>3. QED
        BY <3>1, <4>2
    <3> HIDE DEF a, b
    <3>4. /\ IsSeq(t) /\ Len(t) = Len(a) + 1 /\ t[Len(a) + 1] = o
          /\ \A j \in 1..Len(a) : t[j] = a[j]
      BY <3>2, Appended
    <3> HIDE DEF t
    <3>5. Len(given) \in Nat
      BY <1>2, SeqIsFunction
    <3>6. ASSUME NEW j \in 1..Len(t) PROVE t[j] = b[j]
      <4>1. CASE j <= Len(given)
        <5>1. j \in 1..Len(given) /\ j \in 1..Len(a)
          BY <3>2, <3>5, <4>1
        <5>2. QED
          BY <3>2, <3>3, <3>4, <5>1
      <4>2. CASE j > Len(given) /\ j <= Len(a)
        <5> DEFINE i == j - Len(given)
        <5>1. i \in 1..n /\ i \in 1..(n + 1) /\ j = Len(given) + i /\ j \in 1..Len(a)
          BY <3>2, <3>5, <4>2
        <5> HIDE DEF i
        <5>2. t[j] = f[i] /\ b[j] = h[i]
          BY <3>2, <3>3, <3>4, <5>1
        <5>3. QED
          BY <3>1, <5>1, <5>2
      <4>3. CASE j > Len(a)
        <5>1. j = Len(a) + 1 /\ j = Len(given) + (n + 1) /\ n + 1 \in 1..(n + 1)
          BY <3>2, <3>4, <3>5, <4>3
        <5>2. QED
          BY <3>1, <3>3, <3>4, <5>1
      <4>4. QED
        BY <3>2, <3>5, <4>1, <4>2, <4>3
    <3>7. Len(t) = Len(b)
      BY <3>2, <3>3, <3>4, <3>5
    <3>8. t = b
      BY <3>3, <3>4, <3>6, <3>7, SameSeqs
    <3>9. QED
      BY <3>8 DEF t, a, b, o, f, h
  <2>2. QED
    BY <2>1
<1> HIDE DEF u
<1>7. 0 \in S
  <2>1. PICK N \in Nat : /\ Counted(cipher, iv, N) /\ Tally(cipher, drawn, N)
                         /\ ~repeated => Unused(cipher, iv, N, ivsSet, given)
    BY DEF BytesInv
  <2>2. drawn + 0 = drawn
    BY <1>2
  <2>3. Q(0, N)
    BY <1>1, <1>5, <2>1, <2>2
  <2>4. QED
    BY <1>1, <1>2, <2>3
<1>8. ASSUME NEW n \in Nat, n \in S PROVE n + 1 \in S
  <2> DEFINE c == At(cipher, n)
             x == Step(c)
  <2>1. Object(c) /\ c.rest = iv.rest /\ At(cipher, n + 1) = x
    BY <1>1, <1>8
  <2>2. PICK N \in Nat : Q(n, N)
    BY <1>8
  <2>3. /\ Counted(c, iv, N) /\ Tally(c, drawn + n, N)
        /\ ~repeated /\ N <= Limit(iv) => Unused(c, iv, N, ivsSet, u(n))
    BY <2>2
  <2> HIDE DEF c
  <2>4. Object(x) /\ x.rest = iv.rest
    BY <2>1, ObjectStep
  <2> DEFINE M == IF AtEnd(c) THEN N + 1 ELSE N
             d == drawn + n
  <2>5. Counted(x, iv, M)
    BY <1>2, <2>1, <2>3, CountStep
  <2>6. d \in Nat /\ d + 1 = drawn + (n + 1) /\ M \in Nat /\ N <= M
    BY <1>2
  <2>7. Tally(x, d + 1, M)
    <3> HIDE DEF d
    <3>1. Tally(c, d, N)
      BY <2>3 DEF d
    <3>2. QED
      BY <2>1, <2>6, <3>1, TallyStep
  <2>8. ASSUME ~repeated, M <= Limit(iv) PROVE Unused(x, iv, M, ivsSet, u(n + 1))
    <3>1. Limit(iv) \in Nat
      BY StreamAssumption DEF Limit
    <3>2. N <= Limit(iv)
      BY <2>6, <2>8, <3>1
    <3>3. Unused(c, iv, N, ivsSet, u(n)) /\ IsSeq(u(n)) /\ Alike(ivsSet)
      BY <1>4, <2>3, <2>8, <3>2 DEF BytesInv
    <3> DEFINE w == u(n)
    <3> HIDE DEF w
    <3>4. IsSeq(w) /\ Unused(c, iv, N, ivsSet, w)
      BY <3>3 DEF w
    <3>5. Unused(x, iv, M, ivsSet, w) /\ Unused(x, iv, M, ivsSet, Append(w, Out(x)))
      <4>1. M = IF AtEnd(c) THEN N + 1 ELSE N
        OBVIOUS
      <4> HIDE DEF M
      <4>2. QED
        BY <1>2, <2>1, <2>3, <2>8, <3>3, <3>4, <4>1, ByteIsFresh
    <3>6. QED
      BY <1>6, <2>1, <3>5 DEF w
  <2>9. Q(n + 1, M)
    BY <2>1, <2>5, <2>6, <2>7, <2>8
  <2> HIDE DEF Q, M
  <2>10. P(n + 1)
    BY <2>1, <2>4, <2>6, <2>9
  <2> HIDE DEF P
  <2>11. QED
    BY <2>10
<1>9. P(size)
  <2> HIDE DEF P
  <2>1. \A n \in Nat : n \in S => P(n)
    OBVIOUS
  <2> HIDE DEF S
  <2>2. size \in S
    BY <1>7, <1>8, NatSets
  <2>3. QED
    BY <2>1, <2>2
<1>10. KeyStream(cipher, size) = k(size)
  BY StreamBytes
<1>11. u(size) = IF output THEN given \o KeyStream(cipher, size) ELSE given
  BY <1>10 DEF u
<1>12. QED
  BY <1>4, <1>9, <1>11

(* An iv of 12 bytes whose first word is still in state[13] has not used   *)
(* up state[12].                                                           *)
LEMMA FirstWordStays ==
    ASSUME NEW c, NEW v \in Ivs, NEW N \in Nat, Counted(c, v, N),
           N < CounterSize * CounterSize, v.size = 12 => c.high = v.first
    PROVE  N <= Limit(v)
<1> DEFINE K == CounterSize
           q == N \div K
<1>1. K \in Nat \ {0} /\ v.first \in 0..(K - 1)
  BY StreamAssumption, IvAssumption
<1>2. q \in 0..(K - 1) /\ N = K * q + (N % K) /\ N % K \in 0..(K - 1)
  <2>1. K \in Nat \ {0} /\ N \in Nat /\ N < K * K
    BY <1>1
  <2> HIDE DEF K
  <2>2. N \div K \in 0..(K - 1) /\ N = K * (N \div K) + (N % K)
    BY <2>1, SmallDiv
  <2>3. N % K \in 0..(K - 1)
    BY <2>1
  <2>4. QED
    BY <2>2, <2>3
<1>3. CASE v.size # 12
  <2>1. K * K \in Nat /\ N < K * K
    BY <1>1
  <2>2. QED
    BY <1>3, <2>1 DEF Limit
<1>4. CASE v.size = 12
  <2>1. (v.first + q) % K = v.first
    BY <1>4 DEF Counted, Base
  <2> DEFINE a == v.first
  <2> HIDE DEF K, q, a
  <2>2. a \in 0..(K - 1) /\ (a + q) % K = a
    BY <1>1, <2>1 DEF a
  <2>3. q = 0
    <3>1. ASSUME NEW b \in Nat \ {0}, NEW z \in 0..(b - 1), NEW y \in 0..(b - 1),
                 (z + y) % b = z
          PROVE  y = 0
      <4>1. CASE z + y < b
        <5>1. (z + y) % b = z + y
          BY <4>1
        <5>2. QED
          BY <3>1, <5>1
      <4>2. CASE z + y >= b
        <5>1. z + y - b \in 0..(b - 1) /\ z + y = b * 1 + (z + y - b)
          BY <4>2
        <5>2. (z + y) % b = z + y - b
          BY <5>1
        <5>3. QED
          BY <3>1, <5>1, <5>2
      <4>3. QED
        BY <4>1, <4>2
    <3>2. QED
      BY <1>1, <1>2, <2>2, <3>1
  <2>4. N = N % K
    BY <1>1, <1>2, <2>3
  <2>5. N < K
    BY <1>1, <1>2, <2>4
  <2>6. QED
    BY <1>1, <1>4, <2>5 DEF Limit, K
<1>5. QED
  BY <1>3, <1>4

(* A setting that leaves the counter, the block and the place in it alone. *)
LEMMA SettingKeepsBytes ==
    ASSUME BytesInv, Object(cipher'), cipher'.pos = cipher.pos, cipher'.block = cipher.block,
           cipher'.low = cipher.low, cipher'.high = cipher.high, cipher'.rest = cipher.rest,
           UNCHANGED <<iv, ivsSet, drawn>>, repeated => repeated',
           ~repeated' => given' = given, IsSeq(given')
    PROVE  BytesInv'
<1>1. PICK N \in Nat :
         /\ Counted(cipher, iv, N) /\ Tally(cipher, drawn, N)
         /\ ~repeated => Alike(ivsSet) /\ N <= Limit(iv) /\ Unused(cipher, iv, N, ivsSet, given)
  BY DEF BytesInv
<1>2. Counted(cipher', iv, N) /\ Tally(cipher', drawn, N)
  BY <1>1 DEF Counted, Tally
<1>3. ASSUME ~repeated' PROVE Alike(ivsSet) /\ N <= Limit(iv) /\ Unused(cipher', iv, N, ivsSet, given')
  <2>1. Unused(cipher, iv, N, ivsSet, given) /\ Alike(ivsSet) /\ N <= Limit(iv) /\ given' = given
    BY <1>1, <1>3
  <2>2. QED
    BY <2>1 DEF Unused, Handable
<1>4. IsSeq(given')
  OBVIOUS
<1>5. /\ Base(iv)' \in Nat /\ drawn' \in Nat /\ ivsSet' \subseteq Ivs
      /\ ivsSet' # {} => iv' \in ivsSet' /\ cipher'.rest = iv'.rest
  BY DEF BytesInv, Base
<1>6. \E n \in Nat :
         /\ Counted(cipher', iv', n) /\ Tally(cipher', drawn', n)
         /\ ~repeated' => Alike(ivsSet') /\ n <= Limit(iv') /\ Unused(cipher', iv', n, ivsSet', given')
  BY <1>2, <1>3
<1>7. QED
  BY <1>4, <1>5, <1>6 DEF BytesInv

(* set_iv(): the counter begins again, under an iv that was not set before.*)
LEMMA IvKeepsBytes ==
    ASSUME BytesInv, NEW v \in Ivs, SetIv(v)
    PROVE  BytesInv'
<1>1. /\ cipher' = WithIv(cipher, v) /\ iv' = v /\ ivsSet' = ivsSet \cup {v}
      /\ repeated' = (repeated \/ v \in ivsSet \/ \E w \in ivsSet : w.size # v.size)
      /\ given' = IF repeated' THEN <<>> ELSE given
      /\ drawn' = drawn
  BY DEF SetIv, Restarted
<1>2. Object(cipher) /\ IsSeq(given) /\ drawn \in Nat /\ ivsSet \subseteq Ivs
  BY DEF BytesInv
<1>3. /\ cipher' = [f \in CipherFields |-> cipher'[f]] /\ cipher'.pos = cipher.pos
      /\ cipher'.block = cipher.block /\ cipher'.low = 0
      /\ cipher'.high = Base(v) /\ cipher'.rest = v.rest
  BY <1>1, <1>2 DEF CipherFields, WithIv, Base, Object
<1>4. Object(cipher')
  BY <1>2, <1>3 DEF Object
<1>5. Base(v) \in 0..(CounterSize - 1) /\ CounterSize \in Nat \ {0}
  BY IvAssumption, StreamAssumption DEF Base
<1>6. Counted(cipher', v, 0)
  <2>1. ASSUME NEW b \in Nat \ {0}, NEW z \in 0..(b - 1)
        PROVE  0 % b = 0 /\ (z + (0 \div b)) % b = z
    <3>1. 0 % b = 0 /\ 0 \div b = 0 /\ z + 0 = z /\ z % b = z
      OBVIOUS
    <3>2. QED
      BY <3>1
  <2>2. 0 % CounterSize = 0 /\ (Base(v) + (0 \div CounterSize)) % CounterSize = Base(v)
    BY <1>5, <2>1
  <2>3. QED
    BY <1>3, <2>2 DEF Counted
<1>7. PICK N \in Nat :
         /\ Tally(cipher, drawn, N)
         /\ ~repeated => Alike(ivsSet) /\ Unused(cipher, iv, N, ivsSet, given)
  BY DEF BytesInv
<1>8. Tally(cipher', drawn, 0)
  <2>1. PICK T \in Nat : /\ N <= T
                         /\ IF T = 0 THEN cipher.pos = 0 /\ drawn = 0
                            ELSE cipher.pos # 0 /\ drawn = (T - 1) * StreamBlock + cipher.pos
    BY <1>7 DEF Tally
  <2>2. 0 <= T
    OBVIOUS
  <2>3. QED
    BY <1>3, <2>1, <2>2 DEF Tally
<1>9. 0 <= Limit(v)
  <2>1. Limit(v) \in Nat
    BY StreamAssumption DEF Limit
  <2>2. QED
    BY <2>1
<1>10. ASSUME ~repeated' PROVE Alike(ivsSet') /\ Unused(cipher', v, 0, ivsSet', given')
  <2>1. /\ ~repeated /\ v \notin ivsSet /\ \A w \in ivsSet : w.size = v.size
        /\ Alike(ivsSet) /\ Unused(cipher, iv, N, ivsSet, given) /\ given' = given
    BY <1>1, <1>7, <1>10
  <2>2. Alike(ivsSet')
    BY <1>1, <2>1 DEF Alike
  <2>3. ASSUME NEW b, MadeUnder(b, iv, N, ivsSet) PROVE MadeUnder(b, v, 0, ivsSet')
    <3>1. PICK w \in ivsSet, n \in Nat : Names(b, w, n) /\ n < Limit(w)
      BY <2>3 DEF MadeUnder
    <3>2. w \in ivsSet' /\ w # v
      BY <1>1, <2>1
    <3>3. QED
      BY <3>1, <3>2 DEF MadeUnder
  <2>4. \A i \in 1..Len(given) : Handable(given[i], cipher', v, 0, ivsSet')
    BY <1>3, <2>1, <2>3 DEF Unused, Handable
  <2>5. Unused(cipher', v, 0, ivsSet', given)
    BY <1>3, <2>1, <2>3, <2>4 DEF Unused
  <2>6. QED
    BY <2>1, <2>2, <2>5
<1>11. /\ IsSeq(given') /\ Base(iv)' \in Nat /\ drawn' \in Nat /\ ivsSet' \subseteq Ivs
       /\ ivsSet' # {} => iv' \in ivsSet' /\ cipher'.rest = iv'.rest
  BY <1>1, <1>2, <1>3, <1>5, NoElements DEF Base
<1>12. QED
  BY <1>1, <1>4, <1>6, <1>8, <1>9, <1>10, <1>11 DEF BytesInv

(* encrypt() and decrypt(). *)
LEMMA CryptKeepsBytes ==
    ASSUME BytesInv, NEW size \in CryptSizes, NEW output \in BOOLEAN, Crypt(size, output)
    PROVE  BytesInv'
<1> DEFINE c == At(cipher, size)
           k == KeyStream(cipher, size)
           u == IF output THEN given \o k ELSE given
<1>1. size \in Nat
  BY IvAssumption
<1>2. /\ ivsSet # {} /\ cipher' = c /\ drawn' = drawn + size /\ drawn + size <= MaxDrawn
      /\ repeated' = (repeated \/ (iv.size = 12 /\ c.high # iv.first))
      /\ given' = IF repeated' THEN <<>> ELSE u
      /\ UNCHANGED <<iv, ivsSet>>
  BY DEF Crypt, At
<1>3. /\ Object(c) /\ c.rest = iv.rest /\ IsSeq(u)
      /\ \E N \in Nat : /\ Counted(c, iv, N) /\ Tally(c, drawn + size, N)
                        /\ ~repeated /\ N <= Limit(iv) => Unused(c, iv, N, ivsSet, u)
  BY <1>1, <1>2, CallIsFresh
<1>4. PICK N \in Nat : /\ Counted(c, iv, N) /\ Tally(c, drawn + size, N)
                       /\ ~repeated /\ N <= Limit(iv) => Unused(c, iv, N, ivsSet, u)
  BY <1>3
<1> HIDE DEF c, u
<1>5. /\ Base(iv) \in Nat /\ drawn + size \in Nat /\ iv \in ivsSet /\ ivsSet \subseteq Ivs
      /\ iv \in Ivs
  BY <1>1, <1>2 DEF BytesInv
<1>6. N < CounterSize * CounterSize
  <2> DEFINE d == drawn + size
  <2>1. d \in Nat /\ Tally(c, d, N) /\ d <= MaxDrawn
    BY <1>2, <1>4, <1>5
  <2> HIDE DEF d
  <2>2. QED
    BY <1>3, <2>1, TallyBound
<1>7. ASSUME ~repeated' PROVE Alike(ivsSet) /\ N <= Limit(iv) /\ Unused(c, iv, N, ivsSet, u)
  <2>1. ~repeated /\ (iv.size = 12 => c.high = iv.first)
    BY <1>2, <1>7
  <2>2. N <= Limit(iv)
    BY <1>4, <1>5, <1>6, <2>1, FirstWordStays
  <2>3. Alike(ivsSet)
    BY <2>1 DEF BytesInv
  <2>4. QED
    BY <1>4, <2>1, <2>2, <2>3
<1>8. IsSeq(given')
  BY <1>2, <1>3, NoElements
<1>9. \E n \in Nat :
         /\ Counted(cipher', iv', n) /\ Tally(cipher', drawn', n)
         /\ ~repeated' => Alike(ivsSet') /\ n <= Limit(iv') /\ Unused(cipher', iv', n, ivsSet', given')
  BY <1>2, <1>4, <1>7
<1>10. QED
  BY <1>2, <1>3, <1>5, <1>8, <1>9 DEF BytesInv, Base

(* Every step. *)
LEMMA StepKeepsBytes == BytesInv /\ [ChaChaNext]_chachaVars => BytesInv'
<1> SUFFICES ASSUME BytesInv, [ChaChaNext]_chachaVars PROVE BytesInv'
  OBVIOUS
<1>0. cipher = [f \in CipherFields |-> cipher[f]] /\ cipher.pos \in 0..StreamBlock
  BY DEF BytesInv, Object
<1>1. ASSUME NEW k \in CipherKeys, SetCipherKey(k) PROVE BytesInv'
  <2>1. /\ cipher' = [cipher EXCEPT !.key = k] /\ UNCHANGED <<iv, ivsSet, drawn>>
        /\ repeated' = (repeated \/ k \in keysSet) /\ given' = IF repeated' THEN <<>> ELSE given
    BY <1>1 DEF SetCipherKey, Restarted
  <2>2. /\ cipher' = [f \in CipherFields |-> cipher'[f]] /\ cipher'.pos = cipher.pos
        /\ cipher'.block = cipher.block /\ cipher'.low = cipher.low
        /\ cipher'.high = cipher.high /\ cipher'.rest = cipher.rest
    BY <1>0, <2>1 DEF CipherFields
  <2>3. Object(cipher')
    BY <1>0, <2>2 DEF Object
  <2>4. IsSeq(given') /\ (~repeated' => given' = given)
    BY <2>1, NoElements DEF BytesInv
  <2>5. QED
    BY <2>1, <2>2, <2>3, <2>4, SettingKeepsBytes
<1>2. ASSUME NEW v \in Ivs, SetIv(v) PROVE BytesInv'
  BY <1>2, IvKeepsBytes
<1>3. ASSUME NEW r \in RoundCounts, SetRounds(r) PROVE BytesInv'
  <2>1. /\ cipher' = [cipher EXCEPT !.rounds = r] /\ UNCHANGED <<iv, ivsSet, drawn, repeated, given>>
    BY <1>3 DEF SetRounds, Restarted
  <2>2. /\ cipher' = [f \in CipherFields |-> cipher'[f]] /\ cipher'.pos = cipher.pos
        /\ cipher'.block = cipher.block /\ cipher'.low = cipher.low
        /\ cipher'.high = cipher.high /\ cipher'.rest = cipher.rest
    BY <1>0, <2>1 DEF CipherFields
  <2>3. Object(cipher')
    BY <1>0, <2>2 DEF Object
  <2>4. IsSeq(given') /\ given' = given
    BY <2>1 DEF BytesInv
  <2>5. QED
    BY <2>1, <2>2, <2>3, <2>4, SettingKeepsBytes
<1>4. ASSUME NEW size \in CryptSizes, NEW output \in BOOLEAN, Crypt(size, output) PROVE BytesInv'
  BY <1>4, CryptKeepsBytes
<1>5. CASE UNCHANGED chachaVars
  BY <1>5 DEF chachaVars, BytesInv, Base, Alike, Limit
<1>6. QED
  BY <1>1, <1>2, <1>3, <1>4, <1>5 DEF ChaChaNext

(* NoByteTwice: for every size of the blocks and of the counter and any    *)
(* keys and ivs, no byte of the key stream of a chacha20 object meets data *)
(* twice in its life, unless the program repeats a key or an iv.           *)
THEOREM KeyStreamOnce == CryptoSpec => []NoByteTwice
<1>1. ChaChaInit => BytesInv
  <2> HAVE ChaChaInit
  <2>1. /\ cipher = NewCipher /\ iv.size = 0 /\ given = <<>> /\ drawn = 0 /\ ivsSet = {}
        /\ Base(iv) = 0 /\ iv.first = 0
    BY DEF ChaChaInit, Base
  <2>2. StreamInv
    BY InitStream
  <2>3. Object(cipher) /\ cipher.pos = 0
    BY <2>1, <2>2 DEF StreamInv, Handed, NewCipher
  <2>4. Counted(cipher, iv, 0)
    <3>1. ASSUME NEW b \in Nat \ {0} PROVE 0 \div b = 0 /\ 0 % b = 0
      OBVIOUS
    <3>2. 0 \div CounterSize = 0 /\ 0 % CounterSize = 0 /\ 0 + 0 = 0
      BY <3>1, StreamAssumption
    <3>3. QED
      BY <2>1, <3>2 DEF Counted, NewCipher
  <2>5. Tally(cipher, drawn, 0)
    BY <2>1, <2>3 DEF Tally
  <2>6. Alike(ivsSet) /\ 0 <= Limit(iv) /\ Unused(cipher, iv, 0, ivsSet, given)
    <3>1. Limit(iv) \in Nat
      BY StreamAssumption DEF Limit
    <3>2. Len(<<>>) = 0 /\ \A i \in 1..0 : FALSE
      BY NoElements
    <3>3. QED
      BY <2>1, <2>3, <3>1, <3>2 DEF Alike, Unused, Once
  <2>7. QED
    BY <2>1, <2>3, <2>4, <2>5, <2>6, NoElements DEF BytesInv
<1>2. BytesInv => NoByteTwice
  <2> SUFFICES ASSUME BytesInv, ~repeated PROVE IsInjective(given)
    BY DEF NoByteTwice
  <2>1. IsSeq(given) /\ Once(given)
    BY DEF BytesInv, Unused
  <2>2. DOMAIN given = 1..Len(given)
    BY <2>1, SeqIsFunction
  <2>3. ASSUME NEW i \in 1..Len(given), NEW j \in 1..Len(given), given[i] = given[j]
        PROVE  i = j
    BY <2>1, <2>3 DEF Once, SameName
  <2>4. QED
    BY <2>2, <2>3 DEF IsInjective
<1>3. QED
  BY <1>1, <1>2, StepKeepsBytes, ClassesApart, PTL DEF ChaChaSpec
=============================================================================
