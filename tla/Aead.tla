-------------------------------- MODULE Aead --------------------------------
(***************************************************************************)
(* Two objects of class ez::chacha20_poly1305                              *)
(* (source/chacha20_poly1305.cpp) under one key: one seals packets, each   *)
(* with an iv of its own, the other opens what the network brings, which   *)
(* loses, repeats, reorders and damages packets.  The tag is symbolic: two *)
(* tags are equal when the key and the data under them are, and different  *)
(* ones have some of their bytes in common, any but all.                   *)
(***************************************************************************)
EXTENDS KeyStream

CONSTANTS
    MacPad,         \* block of the tag's data, 16
    TagSize,        \* bytes of a tag, 16
    TagSizes,       \* sizes that set_tag() is given
    Damaged(_, _),  \* what the network makes of aad and text: a set of [aad, text]
    TextSizes, AadSizes,
    MaxPackets,     \* bound: packets sealed
    MaxOpens        \* bound: calls of decrypt() with a tag

ASSUME PadAssumption ==
    /\ MacPad \in Nat \ {0} /\ StreamBlock % 2 = 0
    /\ TagSize \in Nat /\ TagSizes \subseteq Nat
    /\ TextSizes \subseteq Nat /\ AadSizes \subseteq Nat

VARIABLES
    sealer, opener,     \* m_cipher of the two objects
    packets,            \* what was sealed, in order
    taken,              \* the numbers of the packets decrypt() went through, in
                        \* order; 0 for one of another size than was sealed
    takenBytes,         \* their sizes added up
    result              \* of the last decrypt()

aeadVars == <<sealer, opener, packets, taken, takenBytes, result>>

-----------------------------------------------------------------------------
(* What encrypt() and decrypt() draw from the cipher: 32 bytes of key for  *)
(* the tag, 32 bytes that are dropped, the key stream for the text.        *)
Half == StreamBlock \div 2
TagKey(c) == KeyStream(c, Half)
TextStream(c, size) == SubSeq(KeyStream(c, StreamBlock + size), StreamBlock + 1, StreamBlock + size)
After(c, size) == Run(c, StreamBlock + size)[StreamBlock + size]

(* A byte in clear, the zeros that pad, STORE64LE of a size. *)
Clear(byte) == [byte |-> byte, with |-> <<>>]
Pad(size) == [k \in 1..((MacPad - (size % MacPad)) % MacPad) |-> Clear(<<"0x00", 0, 0>>)]
SizeField(size) == Clear(<<"size", size, 0>>)

(* Mutant: the sizes are left out of the tag. *)
TagDataNoSizes(aad, text) == aad \o Pad(Len(aad)) \o text \o Pad(Len(text))

(* What the tag covers. *)
TagData(aad, text) ==
    aad \o Pad(Len(aad)) \o text \o Pad(Len(text)) \o <<SizeField(Len(aad)), SizeField(Len(text))>>

Tag(c, aad, text) == [key |-> TagKey(c), data |-> TagData(aad, text)]
StrangeTag == [key |-> <<>>, data |-> <<>>]

(* The places at which two tags have the same byte. *)
SamePlaces(t, mac) ==
    IF t = mac THEN {1..TagSize} ELSE {same \in SUBSET (1..TagSize) : same # 1..TagSize}

(* decrypt() compares the bytes of m_tag, however many it was given.       *)
(* `behind': behind the end of the computed tag mac[i] reads the same.     *)
TagMatches(size, same, behind) ==
    \A i \in 1..size : IF i <= TagSize THEN i \in same ELSE behind

(* How the comparison of m_tag, size bytes of t, can end.  `chance': it is *)
(* a wrong tag, and too short to show it for certain.                      *)
Comparisons(t, size, mac) ==
    {[ok |-> TagMatches(size, same, behind), chance |-> size < TagSize /\ t # mac] :
        same \in SamePlaces(t, mac), behind \in BOOLEAN}

(* A byte xored with the key stream, and back. *)
Xored(bytes, stream) == [k \in 1..Len(bytes) |-> [byte |-> bytes[k], with |-> <<stream[k]>>]]
Unxored(text, stream) ==
    [k \in 1..Len(text) |-> IF text[k].with = <<stream[k]>> THEN text[k].byte ELSE <<"garbled", 0, 0>>]

-----------------------------------------------------------------------------
PacketIv(n) == [size |-> 12, first |-> 0, rest |-> n]
Fresh == [NewCipher EXCEPT !.key = "key"]

AeadInit ==
    /\ sealer = Fresh /\ opener = Fresh
    /\ packets = <<>> /\ taken = <<>> /\ takenBytes = 0
    /\ result = [of |-> 0, whole |-> FALSE, expected |-> FALSE, ok |-> FALSE,
                 chance |-> FALSE, output |-> <<>>]

(* set_iv(), set_aad(), encrypt(), get_tag(). *)
Seal(textSize, aadSize) ==
    LET n == Len(packets) + 1
        c == WithIv(sealer, PacketIv(n))
        plain == [k \in 1..textSize |-> <<"text", n, k>>]
        aad == [k \in 1..aadSize |-> Clear(<<"aad", n, k>>)]
        text == Xored(plain, TextStream(c, textSize))
    IN /\ n <= MaxPackets
       /\ sealer' = After(c, textSize)
       /\ packets' = Append(packets, [plain |-> plain, aad |-> aad, text |-> text,
                                      tag |-> Tag(c, aad, text), sealedAt |-> sealer.pos])
       /\ UNCHANGED <<opener, taken, takenBytes, result>>

(* What can arrive of a packet: itself or what the network made of it,     *)
(* with its tag or another one, of which the caller takes any number of    *)
(* bytes.                                                                  *)
IsBytes(bytes) == bytes \in Seq({bytes[k] : k \in DOMAIN bytes})
Arrivals(p) ==
    {[aad |-> d.aad, text |-> d.text, tag |-> t, size |-> n] :
        d \in {[aad |-> p.aad, text |-> p.text]}
              \cup {e \in Damaged(p.aad, p.text) : IsBytes(e.aad) /\ IsBytes(e.text)},
        t \in {p.tag, StrangeTag}, n \in TagSizes}

(* The objects are in step over packet n: every packet before it was gone  *)
(* through, or both stand at the end of a block.                           *)
InStep(n) ==
    \/ taken = [k \in 1..(n - 1) |-> k]
    \/ packets[n].sealedAt % StreamBlock = 0 /\ takenBytes % StreamBlock = 0

(* set_iv(), set_aad(), set_tag(), decrypt(): without a tag it returns     *)
(* before it touches the cipher; otherwise it writes the output whatever   *)
(* the tags say.  Nothing checks the size of the tag.                      *)
Open(n, p) ==
    LET c == WithIv(opener, PacketIv(n))
        early == p.size = 0
        size == Len(p.text)
    IN /\ Len(taken) < MaxOpens
       /\ opener' = IF early THEN c ELSE After(c, size)
       /\ taken' = IF early THEN taken
                   ELSE Append(taken, IF size = Len(packets[n].text) THEN n ELSE 0)
       /\ takenBytes' = IF early THEN takenBytes ELSE takenBytes + size
       /\ \E found \in Comparisons(p.tag, p.size, Tag(c, p.aad, p.text)) :
             result' = [of |-> n,
                        whole |-> p.aad = packets[n].aad /\ p.text = packets[n].text,
                        expected |-> /\ InStep(n) /\ p.tag = packets[n].tag
                                     /\ p.size \in 1..TagSize,
                        ok |-> ~early /\ found.ok, chance |-> ~early /\ found.chance,
                        output |-> IF early THEN <<>>
                                   ELSE Unxored(p.text, TextStream(c, size))]
       /\ UNCHANGED <<sealer, packets>>

AeadNext ==
    \/ \E textSize \in TextSizes, aadSize \in AadSizes : Seal(textSize, aadSize)
    \/ \E n \in 1..Len(packets) : \E p \in Arrivals(packets[n]) : Open(n, p)

-----------------------------------------------------------------------------
(* decrypt() accepts a packet only as it was sealed, and then gives back   *)
(* the text: whatever came before, and although the position in the key    *)
(* stream outlives set_iv().  The exception is a wrong tag given short of  *)
(* its end, whose bytes can be those of the right one by chance.           *)
AcceptsOnlySealed ==
    result.ok /\ ~result.chance => result.whole /\ result.output = packets[result.of].plain

(* decrypt() accepts every packet that arrives as it was sealed, with its  *)
(* tag or the beginning of it, when the two objects went through the same  *)
(* packets before, damaged ones included, or when both stand at the end of *)
(* a block.                                                                *)
OpensInStep == result.expected /\ result.whole => result.ok
=============================================================================
