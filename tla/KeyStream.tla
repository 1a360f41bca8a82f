----------------------------- MODULE KeyStream -----------------------------
(***************************************************************************)
(* The state of ez::chacha20 (source/chacha20.cpp) and how it makes its    *)
(* key stream.  The rounds are left abstract: a block of the key stream is *)
(* named by the state words it is made from, a byte of it by the block and *)
(* its place.                                                              *)
(***************************************************************************)
EXTENDS Integers, Sequences

CONSTANTS
    StreamBlock,    \* bytes of a block, 64
    CounterSize     \* values of state[12] and of state[13], 2^32

ASSUME StreamAssumption == StreamBlock \in Nat \ {0} /\ CounterSize \in Nat \ {0}

(* A constructed object: state[] is not initialised. *)
NewCipher ==
    [rounds |-> 20, pos |-> 0, key |-> "unset", low |-> 0, high |-> 0, rest |-> "unset",
     block |-> "unset"]

(* Mutant: set_iv() leaves the counter alone. *)
WithIvKeepsCounter(c, iv) ==
    [c EXCEPT !.high = IF iv.size = 8 THEN 0 ELSE iv.first, !.rest = iv.rest]

(* set_iv(): state[12] counts the blocks, state[13] is the upper half of   *)
(* the counter or the first word of the iv.  pos stays.                    *)
WithIv(c, iv) ==
    [c EXCEPT !.low = 0, !.high = IF iv.size = 8 THEN 0 ELSE iv.first, !.rest = iv.rest]

BlockName(c) ==
    [key |-> c.key, rounds |-> c.rounds, low |-> c.low, high |-> c.high, rest |-> c.rest]

(* Mutant: state[12] wraps around alone. *)
NextBlockNoCarry(c) ==
    [c EXCEPT !.block = BlockName(c), !.low = (@ + 1) % CounterSize, !.pos = 0]

(* transform() and the counter behind it. *)
NextBlock(c) ==
    LET low == (c.low + 1) % CounterSize IN
    [c EXCEPT !.block = BlockName(c), !.low = low, !.pos = 0,
              !.high = IF low = 0 THEN (@ + 1) % CounterSize ELSE @]

(* Mutant: a block that is used up is only noticed a byte later. *)
AtByteLate(c) == IF c.pos = 0 \/ c.pos > StreamBlock THEN NextBlock(c) ELSE c

(* crypt(): before a byte, a new block when there is none or it is used    *)
(* up.  Run[n] is the object after n bytes.                                *)
AtByte(c) == IF c.pos = 0 \/ c.pos >= StreamBlock THEN NextBlock(c) ELSE c
Run(c0, size) ==
    LET after[n \in 0..size] ==
            IF n = 0 THEN c0
            ELSE LET c == AtByte(after[n - 1]) IN [c EXCEPT !.pos = @ + 1]
    IN after
KeyStream(c0, size) ==
    LET after == Run(c0, size) IN
    [n \in 1..size |-> [block |-> after[n].block, at |-> after[n].pos]]
=============================================================================
