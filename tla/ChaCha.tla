------------------------------- MODULE ChaCha -------------------------------
(***************************************************************************)
(* An object of class ez::chacha20 (source/chacha20.cpp) in use: calls of  *)
(* encrypt(), decrypt(), set_key(), set_iv() and set_rounds() in any order.*)
(***************************************************************************)
EXTENDS KeyStream, Functions

CONSTANTS
    CipherKeys,     \* keys, of 16 or 32 bytes
    Ivs,            \* records: size 8 or 12, first: the first word of an iv
                    \* of 12 bytes, rest: the other two words
    RoundCounts,    \* what set_rounds() is given
    CryptSizes,     \* sizes given to one call
    MaxSettings,    \* bound: calls of set_key(), set_iv() and set_rounds()
    MaxDrawn        \* bound: bytes of key stream in the life of the object

ASSUME IvAssumption ==
    /\ \A v \in Ivs : /\ v = [size |-> v.size, first |-> v.first, rest |-> v.rest]
                      /\ v.size \in {8, 12} /\ v.first \in 0..(CounterSize - 1)
                      /\ v.size = 8 => v.first = 0
    /\ CryptSizes \subseteq Nat

(* Nobody draws as many blocks as the counter of two words has values. *)
ASSUME DrawnAssumption ==
    MaxDrawn \in Nat /\ MaxDrawn <= StreamBlock * (CounterSize * CounterSize - 1)

VARIABLES
    cipher,     \* chacha20::impl
    iv,         \* the iv last set
    start,      \* blocks made under this iv when key, iv or rounds were last set
    tail,       \* the bytes of a block that were left then
    stream,     \* the key stream since then
    drawn,      \* bytes of key stream made so far
    given,      \* the key stream bytes that met data, as long as ~repeated
    settings, keysSet, ivsSet,
    repeated    \* the program set a key or an iv again, mixed sizes of ivs
                \* or went on beyond the counter of an iv of 12 bytes

chachaVars == <<cipher, iv, start, tail, stream, drawn, given, settings,
                keysSet, ivsSet, repeated>>

ChaChaInit ==
    /\ cipher = NewCipher
    /\ iv = [size |-> 0, first |-> 0, rest |-> 0] /\ start = 0
    /\ tail = <<>> /\ stream = <<>> /\ drawn = 0 /\ given = <<>>
    /\ settings = 0 /\ keysSet = {} /\ ivsSet = {} /\ repeated = FALSE

Left(c) ==
    IF c.pos = 0 THEN <<>>
    ELSE [n \in 1..(StreamBlock - c.pos) |-> [block |-> c.block, at |-> c.pos + n]]
Blocks == (Len(stream) - Len(tail) + StreamBlock - 1) \div StreamBlock

Restarted ==
    /\ settings < MaxSettings /\ settings' = settings + 1
    /\ tail' = Left(cipher) /\ stream' = <<>>
    /\ UNCHANGED drawn

SetCipherKey(k) ==
    /\ cipher' = [cipher EXCEPT !.key = k]
    /\ start' = start + (IF Len(stream) > Len(tail) THEN Blocks ELSE 0)
    /\ Restarted
    /\ keysSet' = keysSet \cup {k} /\ repeated' = (repeated \/ k \in keysSet)
    /\ given' = IF repeated' THEN <<>> ELSE given
    /\ UNCHANGED <<iv, ivsSet>>

SetIv(v) ==
    /\ cipher' = WithIv(cipher, v) /\ iv' = v /\ start' = 0
    /\ Restarted
    /\ ivsSet' = ivsSet \cup {v}
    /\ repeated' = (repeated \/ v \in ivsSet \/ \E w \in ivsSet : w.size # v.size)
    /\ given' = IF repeated' THEN <<>> ELSE given
    /\ UNCHANGED keysSet

(* set_rounds() throws on any other number. *)
SetRounds(r) ==
    /\ r \in {8, 12, 20}
    /\ cipher' = [cipher EXCEPT !.rounds = r]
    /\ start' = start + (IF Len(stream) > Len(tail) THEN Blocks ELSE 0)
    /\ Restarted
    /\ UNCHANGED <<iv, given, keysSet, ivsSet, repeated>>

(* encrypt(), decrypt(); without an output the key stream is dropped.  A   *)
(* program sets a key and an iv first.                                     *)
Crypt(size, output) ==
    /\ keysSet # {} /\ ivsSet # {}
    /\ drawn + size <= MaxDrawn /\ drawn' = drawn + size
    /\ cipher' = Run(cipher, size)[size]
    /\ stream' = stream \o KeyStream(cipher, size)
    /\ repeated' = (repeated \/ (iv.size = 12 /\ cipher'.high # iv.first))
    /\ given' = IF repeated' THEN <<>> ELSE IF output THEN given \o KeyStream(cipher, size) ELSE given
    /\ UNCHANGED <<iv, start, tail, settings, keysSet, ivsSet>>

ChaChaNext ==
    \/ \E k \in CipherKeys : SetCipherKey(k)
    \/ \E v \in Ivs : SetIv(v)
    \/ \E r \in RoundCounts : SetRounds(r)
    \/ \E size \in CryptSizes, output \in BOOLEAN : Crypt(size, output)

-----------------------------------------------------------------------------
(* The key stream of an iv: block number n of it, where the two words of   *)
(* the counter are one number.                                             *)
BlockOf(c, v, n) ==
    [key |-> c.key, rounds |-> c.rounds, rest |-> v.rest,
     low |-> n % CounterSize,
     high |-> ((IF v.size = 8 THEN 0 ELSE v.first) + n \div CounterSize) % CounterSize]

(* However the data is cut into calls, and with or without an output, the  *)
(* bytes handed out after a set_key(), set_iv() or set_rounds() are what   *)
(* was left of the block made before it and then the blocks of the setting *)
(* in order, from the counter's value on.                                  *)
StreamIsOfIv ==
    \A n \in 1..Len(stream) :
        LET m == n - Len(tail) - 1 IN
        stream[n] = IF n <= Len(tail) THEN tail[n]
                    ELSE [block |-> BlockOf(cipher, iv, start + m \div StreamBlock),
                          at |-> (m % StreamBlock) + 1]

(* No byte of the key stream meets data twice, in the life of an object    *)
(* whose program never repeats a key or an iv: the counter's carry, blocks *)
(* that a new setting interrupts and bytes that are dropped included.      *)
NoByteTwice == ~repeated => IsInjective(given)
=============================================================================
