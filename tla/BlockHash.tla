----------------------------- MODULE BlockHash -----------------------------
(***************************************************************************)
(* The block buffering and padding of ez::sha1 and ez::sha2_256            *)
(* (source/sha1.cpp, source/sha2.cpp), which are the same code around two  *)
(* compression functions.  The compression function is left abstract: the  *)
(* digest is the sequence of what it was applied to.  A byte is a triple   *)
(* whose first component says where it comes from.                         *)
(***************************************************************************)
EXTENDS Integers, Sequences, SequencesExt

CONSTANTS
    Block,      \* block_size, 64
    Field,      \* bytes of the length at the end of the last block, 8
    Bytes       \* byte values of the data

ASSUME BlockAssumption == Block \in Nat /\ Field \in Nat \ {0} /\ Field < Block

(* transform() works in place: what it leaves in m_buffer is no longer     *)
(* the data.                                                               *)
Scrambled == [k \in 1..Block |-> <<"scrambled", 0, k>>]
Transform(h) == [h EXCEPT !.digest = Append(@, h.buffer), !.buffer = Scrambled]

(* A constructed or reset() object; m_buffer is not cleared by reset().    *)
ResetHash(h) == [h EXCEPT !.size = 0, !.total_size = 0, !.digest = <<>>]
NewHash == [buffer |-> Scrambled, size |-> 0, total_size |-> 0, digest |-> <<>>]

Overwrite(buffer, at, data) ==
    [k \in 1..Len(buffer) |-> IF k > at /\ k <= at + Len(data) THEN data[k - at] ELSE buffer[k]]

(* update(): an iteration of its loop fills the block, with n bytes, and   *)
(* transforms it when it is full; the loop ends when no data is left.      *)
Fill(x) ==
    LET h == x.hash
        n == IF Len(x.data) < Block - h.size THEN Len(x.data) ELSE Block - h.size
        filled == [h EXCEPT !.buffer = Overwrite(@, h.size, SubSeq(x.data, 1, n)),
                            !.size = @ + n, !.total_size = @ + n]
    IN [hash |-> IF filled.size = Block THEN [Transform(filled) EXCEPT !.size = 0] ELSE filled,
        data |-> SubSeq(x.data, n + 1, Len(x.data))]
Update(h, data) ==
    LET loop[i \in 0..Len(data)] ==
            IF i = 0 THEN [hash |-> h, data |-> data]
            ELSE IF loop[i - 1].data = <<>> THEN loop[i - 1] ELSE Fill(loop[i - 1])
    IN loop[Len(data)].hash

Swapped == <<<<"swapped", 0, 0>>>>
Padding == [k \in 1..Block |-> IF k = 1 THEN <<"0x80", 0, 0>> ELSE <<"0x00", 0, 0>>]
LengthField(n) == [k \in 1..Field |-> <<"length", n, k>>]

(* Mutant: a block filled up to the length field gets no padding. *)
CompleteOffByOne(h) ==
    LET room == Block - Field
        padding_size == IF h.size <= room THEN room - h.size ELSE Block + room - h.size
        padded == Update(h, SubSeq(Padding, 1, padding_size))
        last == Transform([padded EXCEPT !.buffer = Overwrite(@, room, LengthField(h.total_size))])
    IN [last EXCEPT !.digest = Append(@, Swapped)]

(* complete(): pad up to the length field, write the length behind, which  *)
(* is the total before the padding, transform, and swap the digest's bytes *)
(* in place.                                                               *)
Complete(h) ==
    LET room == Block - Field
        padding_size == IF h.size < room THEN room - h.size ELSE Block + room - h.size
        padded == Update(h, SubSeq(Padding, 1, padding_size))
        last == Transform([padded EXCEPT !.buffer = Overwrite(@, room, LengthField(h.total_size))])
    IN [last EXCEPT !.digest = Append(@, Swapped)]

-----------------------------------------------------------------------------
(* The standard's definition: pad the whole message, cut it into blocks.   *)
Zeros(n) == CHOOSE z \in 0..(Block - 1) : (n + 1 + z + Field) % Block = 0
Padded(message) ==
    message \o SubSeq(Padding, 1, 1 + Zeros(Len(message))) \o LengthField(Len(message))

Digest(message) ==
    LET p == Padded(message) IN
    Append([b \in 1..(Len(p) \div Block) |-> SubSeq(p, (b - 1) * Block + 1, b * Block)],
           Swapped)
=============================================================================
