-------------------------------- MODULE Text --------------------------------
(***************************************************************************)
(* The conversions between bytes and text: ez::base64, ez::hex and         *)
(* ez::url.  A byte and a char are numbers below 256; a char of 128 and    *)
(* above is negative in the code, so it is smaller than 'z'.               *)
(*                                                                         *)
(* A caller encodes some bytes and decodes the text, or decodes a text     *)
(* that came from elsewhere.                                               *)
(***************************************************************************)
EXTENDS Integers, Sequences, SequencesExt

CONSTANTS
    SourceBytes, MaxSource,   \* the bytes that are encoded, and how many
    TextChars, MaxText        \* the chars of other texts, and how many

ASSUME TextAssumption ==
    /\ SourceBytes \subseteq 0..255 /\ TextChars \subseteq 0..255
    /\ MaxSource \in Nat /\ MaxText \in Nat

VARIABLES
    codec,      \* "base64", "hex", "HEX" (upper case) or "url"
    source,     \* the bytes that were encoded
    foreign,    \* the text is not the result of encode()
    text,
    decoded,    \* what decode() wrote
    overread,   \* decode() read outside the text or the table
    textPhase   \* "idle", "text", "decoded" or "threw"

textVars == <<codec, source, foreign, text, decoded, overread, textPhase>>

Codecs == {"base64", "hex", "HEX", "url"}
RoundUp(n, k) == k * ((n + k - 1) \div k)

-----------------------------------------------------------------------------
(* base64: three bytes become four sextets; missing bytes count as 0 and   *)
(* the last chars are overwritten by one '=' for each of them.             *)
ToBase64(v) ==
    CASE v < 26 -> 65 + v
      [] v \in 26..51 -> 97 + v - 26
      [] v \in 52..61 -> 48 + v - 52
      [] v = 62 -> 43
      [] v = 63 -> 47

(* The table has entries for '-', '_' and '<' too.  255 is no sextet. *)
FromBase64(c) ==
    CASE c \in 65..90 -> c - 65
      [] c \in 97..122 -> c - 97 + 26
      [] c \in 48..57 -> c - 48 + 52
      [] c \in {43, 45} -> 62
      [] c \in {47, 95} -> 63
      [] c = 60 -> 0
      [] OTHER -> 255

(* Mutant: one '=' whatever is missing. *)
MissingOne(n) == IF n % 3 = 0 THEN 0 ELSE 1

Missing(n) == RoundUp(n, 3) - n

Base64Encode(src) ==
    LET size == 4 * (RoundUp(Len(src), 3) \div 3)
        B(k) == IF k < Len(src) THEN src[k + 1] ELSE 0
        Sextet(i, j) ==
            CASE j = 0 -> B(3 * i) \div 4
              [] j = 1 -> (B(3 * i) % 4) * 16 + B(3 * i + 1) \div 16
              [] j = 2 -> (B(3 * i + 1) % 16) * 4 + B(3 * i + 2) \div 64
              [] j = 3 -> B(3 * i + 2) % 64
    IN [k \in 1..size |-> IF k > size - Missing(Len(src)) THEN 61
                          ELSE ToBase64(Sextet((k - 1) \div 4, (k - 1) % 4))]

(* The table lookup of a char, `wild' when it falls outside the table. *)
Lookup(c, wild) == IF c >= 128 THEN wild ELSE IF c > 122 THEN 255 ELSE FromBase64(c)

(* Mutant: chars behind the text are looked at. *)
CharAtUnchecked(t, k, wild) == IF k < Len(t) THEN Lookup(t[k + 1], wild) ELSE wild

CharAt(t, k, wild) == IF k < Len(t) THEN Lookup(t[k + 1], wild) ELSE 255

(* decode(): of a group, byte j is written when char j + 1 is a sextet.    *)
Base64Decode(t, wild) ==
    LET C(k) == CharAt(t, k, wild)
        Group(i) == LET c0 == C(4 * i) c1 == C(4 * i + 1)
                        c2 == C(4 * i + 2) c3 == C(4 * i + 3) IN
            (IF c1 = 255 THEN <<>> ELSE <<(c0 % 64) * 4 + (c1 % 64) \div 16>>)
            \o (IF c2 = 255 THEN <<>> ELSE <<(c1 % 16) * 16 + (c2 % 64) \div 4>>)
            \o (IF c3 = 255 THEN <<>> ELSE <<(c2 % 4) * 64 + (c3 % 64)>>)
    IN FlattenSeq([i \in 1..(RoundUp(Len(t), 4) \div 4) |-> Group(i - 1)])

-----------------------------------------------------------------------------
(* hex: two digits per byte.  A char that is no digit leaves its half of   *)
(* the byte as it was, 0 in a new vector.                                  *)
HexDigit(v, upper) == IF v < 10 THEN 48 + v ELSE (IF upper THEN 65 ELSE 97) + v - 10
HexEncode(src, upper) ==
    [k \in 1..(2 * Len(src)) |->
        LET byte == src[(k + 1) \div 2]
        IN HexDigit(IF k % 2 = 1 THEN byte \div 16 ELSE byte % 16, upper)]
HexValue(c) ==
    CASE c \in 48..57 -> c - 48
      [] c \in 97..102 -> c - 97 + 10
      [] c \in 65..70 -> c - 65 + 10
      [] OTHER -> 0
HexByte(c1, c2) == HexValue(c1) * 16 + HexValue(c2)
HexDecode(t) == [k \in 1..(Len(t) \div 2) |-> HexByte(t[2 * k - 1], t[2 * k])]

-----------------------------------------------------------------------------
(* url: what encode() leaves as it is, '+' for a space, % and two digits   *)
(* for the rest.                                                           *)
Unreserved ==
    (48..57) \cup (97..122) \cup (65..90) \cup {45, 95, 46, 33, 126, 42, 39, 40, 41}

UrlEncode(src) ==
    FlattenSeq([k \in DOMAIN src |->
        CASE src[k] \in Unreserved -> <<src[k]>>
          [] src[k] = 32 -> <<43>>
          [] OTHER -> <<37>> \o HexEncode(<<src[k]>>, TRUE)])

(* decode(): behind a % two chars are read, whether the text has them or   *)
(* not.                                                                    *)
UrlDecode(t, wild) ==
    LET Char(k) == IF k <= Len(t) THEN t[k] ELSE wild
        Step(acc, k) ==
            IF acc.skip > 0 THEN [skip |-> acc.skip - 1, out |-> acc.out]
            ELSE CASE t[k] = 37 -> [skip |-> 2, out |-> Append(acc.out, HexByte(Char(k + 1), Char(k + 2)))]
                   [] t[k] = 43 -> [skip |-> 0, out |-> Append(acc.out, 32)]
                   [] OTHER -> [skip |-> 0, out |-> Append(acc.out, t[k])]
        read[k \in 0..Len(t)] ==
            IF k = 0 THEN [skip |-> 0, out |-> <<>>] ELSE Step(read[k - 1], k)
    IN read[Len(t)]

-----------------------------------------------------------------------------
Encoded(c, src) ==
    CASE c = "base64" -> Base64Encode(src)
      [] c \in {"hex", "HEX"} -> HexEncode(src, c = "HEX")
      [] c = "url" -> UrlEncode(src)

(* The size of the string or vector that the convenience functions make.   *)
EncodedSize(c, n) ==
    CASE c = "base64" -> (4 * RoundUp(n, 3)) \div 3
      [] c \in {"hex", "HEX"} -> 2 * n
      [] c = "url" -> 3 * n
DecodedSize(c, n) ==
    CASE c = "base64" -> (3 * RoundUp(n, 4)) \div 4
      [] c \in {"hex", "HEX"} -> n \div 2
      [] c = "url" -> n

TextInit ==
    /\ codec = "base64" /\ foreign = FALSE /\ textPhase = "idle"
    /\ source = <<>> /\ text = <<>> /\ decoded = <<>> /\ overread = FALSE

Encode(c, src) ==
    /\ textPhase = "idle"
    /\ textPhase' = "text"
    /\ codec' = c /\ source' = src /\ text' = Encoded(c, src)
    /\ UNCHANGED <<foreign, decoded, overread>>

ForeignText(c, t) ==
    /\ textPhase = "idle"
    /\ textPhase' = "text"
    /\ codec' = c /\ text' = t /\ foreign' = TRUE
    /\ UNCHANGED <<source, decoded, overread>>

(* What lies outside the text or the table is anything. *)
Decode ==
    /\ textPhase = "text"
    /\ \E wild \in {0, 65, 255} :
       /\ textPhase' = IF codec \in {"hex", "HEX"} /\ Len(text) % 2 # 0 THEN "threw" ELSE "decoded"
       /\ CASE codec = "base64" ->
                 /\ decoded' = Base64Decode(text, wild)
                 /\ overread' = (Base64Decode(text, 0) # Base64Decode(text, 255))
            [] codec = "url" ->
                 /\ decoded' = UrlDecode(text, wild).out
                 /\ overread' = (UrlDecode(text, wild).skip > 0)
            [] OTHER ->
                 /\ decoded' = IF textPhase' = "threw" THEN <<>> ELSE HexDecode(text)
                 /\ UNCHANGED overread
    /\ UNCHANGED <<codec, source, foreign, text>>

TextNext ==
    \/ \E c \in Codecs, src \in SeqOf(SourceBytes, MaxSource) : Encode(c, src)
    \/ \E c \in Codecs \ {"HEX"}, t \in SeqOf(TextChars, MaxText) : ForeignText(c, t)
    \/ Decode

-----------------------------------------------------------------------------
(* decode() undoes encode(), byte for byte, for every codec and every      *)
(* number of bytes that a last group is short of, and encode() fits the    *)
(* string that was made for it.                                            *)
RoundTrip ==
    textPhase # "idle" /\ ~foreign =>
        /\ Len(text) <= EncodedSize(codec, Len(source))
        /\ textPhase = "decoded" => decoded = source

(* Whatever the text is, decode() writes no more than the vector that was  *)
(* made for it holds, and reads outside only for a base64 char of 128 and  *)
(* above (base64.cpp:109) or a % among the last two chars of a url         *)
(* (url.cpp:66).                                                           *)
DecodeInBounds ==
    /\ Len(decoded) <= DecodedSize(codec, Len(text))
    /\ overread =>
        \/ codec = "base64" /\ \E k \in DOMAIN text : text[k] >= 128
        \/ codec = "url" /\ \E k \in DOMAIN text : text[k] = 37 /\ k > Len(text) - 2
=============================================================================
