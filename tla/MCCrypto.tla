------------------------------ MODULE MCCrypto ------------------------------
(* Blocks of 4 bytes for the hashes, of 2 for the key stream, limbs of 6    *)
(* bits for the tags: keys of r with all bits set, with the value 1, which *)
(* brings the accumulator between the prime and 2^130, and one between.    *)
EXTENDS Crypto

Repeat(byte, n) == [j \in 1..n |-> byte]
MCMacKeys == {
    [r |-> Repeat(7, 8), s |-> Repeat(7, 8)],
    [r |-> <<1, 0, 0, 0, 0, 0, 0, 0>>, s |-> Repeat(7, 8)],
    [r |-> <<7, 0, 0, 0, 7, 4, 4, 0>>, s |-> Repeat(0, 8)]}
MCMacChunks == {Repeat(7, 8), <<0, 7, 0, 1, 5>>}
MCIvs == {[size |-> 8, first |-> 0, rest |-> 1], [size |-> 8, first |-> 0, rest |-> 2],
          [size |-> 12, first |-> 0, rest |-> 1], [size |-> 12, first |-> 1, rest |-> 1]}

(* A byte of the text changed, or the end of aad moved by a block of the   *)
(* tag.                                                                    *)
MCDamaged(aad, text) ==
    {[aad |-> aad, text |-> [text EXCEPT ![k].byte = <<"changed", 0, 0>>]] : k \in DOMAIN text}
    \cup {[aad |-> aad \o SubSeq(text, 1, MacPad), text |-> SubSeq(text, MacPad + 1, Len(text))] :
            k \in {j \in {0} : Len(text) >= MacPad}}
=============================================================================
