------------------------------ MODULE Poly1305 ------------------------------
(***************************************************************************)
(* An object of class ez::poly1305 (source/poly1305.cpp) in use, with its  *)
(* arithmetic on limbs.  The code has limbs of 32 bits in words of 64 and  *)
(* blocks of four limbs; here a limb has LimbBytes bytes of ByteBits bits. *)
(* Every shift and mask of the code is scaled accordingly, words wrap      *)
(* around at twice the width of a limb.                                    *)
(***************************************************************************)
EXTENDS Integers, Sequences

CONSTANTS
    ByteBits, LimbBytes,
    ClampedBits,    \* high bits that set_key() clears in every limb of r
    MacKeys,        \* the keys in use: records of r and s, four limbs of bytes each
    MacChunks,      \* what update() is given
    MaxMacBytes,    \* bound: bytes between two set_key()s
    MaxMacKeys      \* bound: calls of set_key()

(* Three clamped bits keep the product in eight limbs; the code has four.  *)
ASSUME LimbAssumption ==
    /\ ByteBits \in Nat \ {0} /\ LimbBytes \in Nat \ {0}
    /\ ClampedBits \in 3..(ByteBits * LimbBytes)

ByteSize == 2 ^ ByteBits
Width == ByteBits * LimbBytes
Limb == 2 ^ Width
Word == Limb * Limb
MacBlock == 4 * LimbBytes       \* block_size

VARIABLES
    mac,        \* poly1305::impl
    macKey,     \* the key last set, <<>> before the first
    macData,    \* what update() was given since
    macPhase,   \* "raw": constructed, "keyed", "complete", "spent": used
                \* again after complete() without set_key()
    macSets     \* how often set_key() was called

macVars == <<mac, macKey, macData, macPhase, macSets>>

(* op over the elements of seq from the first on. *)
Along(op(_, _), base, seq) ==
    LET upTo[n \in 0..Len(seq)] == IF n = 0 THEN base ELSE op(upTo[n - 1], seq[n])
    IN upTo[Len(seq)]

(* The number with the given digits, the lowest first. *)
Number(digits, radix) ==
    Along(LAMBDA n, j : n * radix + digits[Len(digits) + 1 - j], 0,
          [j \in 1..Len(digits) |-> j])

-----------------------------------------------------------------------------
(* LOAD32LE, for the k-th limb of a sequence of bytes. *)
LoadLE(bytes, k) == Number(SubSeq(bytes, (k - 1) * LimbBytes + 1, k * LimbBytes), ByteSize)

(* "Propagate the carry": each word takes what the one below has above the *)
(* width of a limb, and keeps its own.                                     *)
Carry(a) ==
    LET c[k \in 1..Len(a)] ==
            (a[k] + (IF k = 1 THEN 0 ELSE c[k - 1] \div Limb)) % Word
    IN [k \in 1..Len(a) |-> c[k]]

(* "We only consider the least significant bits" of the accumulator: whole *)
(* limbs and the two bits above them.                                      *)
LowBits(a) == [k \in 1..5 |-> IF k = 5 THEN a[k] % 4 ELSE a[k] % Limb]

(* What is above those two bits in the fifth word, at the width of a limb. *)
HighBits(a5) == (a5 % Limb) - (a5 % 4)

(* Multiply the accumulator by r. *)
Times(a, r) ==
    LET part(i, j) == IF i \in 1..5 /\ j \in 1..4 THEN a[i] * r[j] ELSE 0
    IN [k \in 1..8 |-> (part(k, 1) + part(k - 1, 2) + part(k - 2, 3) + part(k - 3, 4)) % Word]

(* First pass of the "fast modular reduction": 2^130 is 5, so the part     *)
(* above 130 bits comes back times 5, as four times itself (the bits where *)
(* they stand) and itself (the bits two lower).                            *)
FirstPass(q) ==
    LET high == <<HighBits(q[5]), q[6] % Limb, q[7] % Limb, q[8] % Limb, 0>>
        lower(k) == (high[k] \div 4) + (high[k + 1] % 4) * (Limb \div 4)
    IN Carry([k \in 1..5 |-> IF k = 5 THEN q[5] % 4
                             ELSE ((q[k] % Limb) + high[k] + lower(k)) % Word])

(* Mutant: what the first pass carries above 130 bits is dropped. *)
ReduceOnce(q) == LowBits(FirstPass(q))

(* The second pass brings back what the first carried above 130 bits.      *)
Reduce(q) ==
    LET first == FirstPass(q)
        top == HighBits(first[5])
        low == LowBits(first)
    IN LowBits(Carry([low EXCEPT ![1] = @ + top + (top \div 4)]))

(* transform(): the block with a 1 behind its bytes and zeros to its end   *)
(* is added to the accumulator, which is multiplied by r and reduced.      *)
MacTransform(m) ==
    LET block == [j \in 1..(MacBlock + 1) |->
                    IF j <= m.size THEN m.buffer[j] ELSE IF j = m.size + 1 THEN 1 ELSE 0]
        number == [k \in 1..5 |-> IF k = 5 THEN block[MacBlock + 1] ELSE LoadLE(block, k)]
        sum == Carry([k \in 1..5 |-> m.a[k] + number[k]])
        product == Carry(Times([k \in 1..5 |-> sum[k] % Limb], m.r))
    IN [m EXCEPT !.a = Reduce(product), !.buffer = block]

(* set_key(): the high bits of r are cleared, in all limbs but the first   *)
(* the two lowest as well.                                                 *)
Clamped(x, i) ==
    LET low == x % 2 ^ (Width - ClampedBits) IN IF i = 1 THEN low ELSE low - (low % 4)
Keyed(m, k) ==
    [m EXCEPT !.r = [i \in 1..4 |-> Clamped(LoadLE(k.r, i), i)],
              !.s = [i \in 1..4 |-> LoadLE(k.s, i)],
              !.a = <<0, 0, 0, 0, 0>>, !.size = 0]

(* update(): fill the block, transform it when it is full. *)
Absorb(m, byte) ==
    LET filled == [m EXCEPT !.buffer[m.size + 1] = byte, !.size = @ + 1]
    IN IF filled.size = MacBlock THEN [MacTransform(filled) EXCEPT !.size = 0] ELSE filled
Updated(m, bytes) == Along(Absorb, m, bytes)

(* complete(): the last block, the choice between a and a + 5 - 2^130,     *)
(* the sum with s, without what is above 128 bits.  It clears a, r and s,  *)
(* but not m_size.                                                         *)
Completed(m) ==
    LET last == IF m.size # 0 THEN MacTransform(m) ELSE m
        plus5 == Carry([last.a EXCEPT ![1] = @ + 5])
        chosen == IF (plus5[5] \div 4) % 2 = 1 THEN plus5 ELSE last.a
        sum == Carry([k \in 1..4 |-> (chosen[k] % Limb) + last.s[k]])
    IN [last EXCEPT !.digest = [k \in 1..4 |-> sum[k] % Limb],
                    !.a = <<0, 0, 0, 0, 0>>, !.r = <<0, 0, 0, 0>>, !.s = <<0, 0, 0, 0>>]

-----------------------------------------------------------------------------
(* The fields are not initialised before set_key(); nothing reads them. *)
MacInit ==
    /\ mac = [r |-> <<0, 0, 0, 0>>, s |-> <<0, 0, 0, 0>>, a |-> <<0, 0, 0, 0, 0>>,
              buffer |-> [j \in 1..(MacBlock + 1) |-> 0], size |-> 0,
              digest |-> <<0, 0, 0, 0>>]
    /\ macKey = <<>> /\ macData = <<>> /\ macPhase = "raw"
    /\ macSets = 0

MacSetKey(k) ==
    /\ macSets < MaxMacKeys /\ macSets' = macSets + 1
    /\ mac' = Keyed(mac, k)
    /\ macKey' = k /\ macData' = <<>> /\ macPhase' = "keyed"

(* Bound: a spent object is only keyed again. *)
MacUpdate(chunk) ==
    /\ macPhase \in {"keyed", "complete"} /\ Len(macData) + Len(chunk) <= MaxMacBytes
    /\ mac' = Updated(mac, chunk)
    /\ macData' = macData \o chunk
    /\ macPhase' = IF macPhase = "keyed" THEN "keyed" ELSE "spent"
    /\ UNCHANGED <<macKey, macSets>>

MacComplete ==
    /\ macPhase \in {"keyed", "complete"}
    /\ mac' = Completed(mac)
    /\ macPhase' = IF macPhase = "keyed" THEN "complete" ELSE "spent"
    /\ UNCHANGED <<macKey, macData, macSets>>

(* calculate(): update() and complete(). *)
MacCalculate(chunk) ==
    /\ macPhase \in {"keyed", "complete"} /\ Len(macData) + Len(chunk) <= MaxMacBytes
    /\ mac' = Completed(Updated(mac, chunk))
    /\ macData' = macData \o chunk
    /\ macPhase' = IF macPhase = "keyed" THEN "complete" ELSE "spent"
    /\ UNCHANGED <<macKey, macSets>>

MacNext ==
    \/ \E k \in MacKeys : MacSetKey(k)
    \/ \E chunk \in MacChunks : MacUpdate(chunk) \/ MacCalculate(chunk)
    \/ MacComplete

-----------------------------------------------------------------------------
(* The definition of the tag: a polynomial in r over the numbers that the  *)
(* blocks stand for, modulo the prime, plus s.  Products are taken limb by *)
(* limb so that they stay small.                                           *)
Prime == 4 * Word * Word - 5
Shifted(x) == Along(LAMBDA y, i : (2 * y) % Prime, x, [i \in 1..Width |-> i])
ModTimes(x, r) ==
    Along(LAMBDA y, k : (Shifted(y) + x * r[5 - k]) % Prime, 0, <<1, 2, 3, 4>>)
BlocksOf(data) ==
    [b \in 1..((Len(data) + MacBlock - 1) \div MacBlock) |->
        SubSeq(data, (b - 1) * MacBlock + 1,
               IF b * MacBlock < Len(data) THEN b * MacBlock ELSE Len(data))]
TagOf(k, data) ==
    LET r == [i \in 1..4 |-> Clamped(LoadLE(k.r, i), i)]
        step(h, block) == ModTimes((h + Number(Append(block, 1), ByteSize)) % Prime, r)
    IN (Along(step, 0, BlocksOf(data)) + Number(k.s, ByteSize)) % (Word * Word)

(* However the data is cut into update()s and whatever the object was used *)
(* for before set_key(), complete() gives the tag of the definition: no    *)
(* carry is lost between limbs, in the two passes of the reduction or in   *)
(* the last subtraction.                                                   *)
TagIsPoly1305 ==
    macPhase = "complete" => Number(mac.digest, Limb) = TagOf(macKey, macData)
=============================================================================
