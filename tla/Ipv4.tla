-------------------------------- MODULE Ipv4 --------------------------------
(***************************************************************************)
(* The constructor of ez::ipv4_t from a string (source/ip.cpp), one step   *)
(* per symbol.  The string is read through a uint8_t index, so the index   *)
(* wraps before it reaches the end of a string of 256 symbols or more and  *)
(* the parser starts again at its beginning.                               *)
(*                                                                         *)
(* The string is made up as it is read.  Digits have a small base, octets  *)
(* a small limit and the index a small range.                              *)
(***************************************************************************)
EXTENDS Integers, Sequences, SequencesExt

CONSTANTS
    Base,        \* 10
    OctetMax,    \* UINT8_MAX as the limit of an octet
    IndexRange   \* UINT8_MAX + 1 as the range of string_index

ASSUME Ipv4Assumption == Base \in Nat \ {0, 1} /\ OctetMax \in Nat /\ IndexRange \in Nat \ {0}

VARIABLES
    string,         \* the symbols read so far
    ended,          \* that is all of the string
    string_index, data, at_least_one_symbol,
    result,         \* the octets stored so far; result_index is their number
    ipState         \* "parsing", "parsed" or "threw"

ipVars == <<string, ended, string_index, data, at_least_one_symbol, result, ipState>>

Digits == 0..(Base - 1)
Point == Base            \* the symbol '.'
Letter == Base + 1       \* any other symbol

Ipv4Init ==
    /\ string = <<>> /\ ended = FALSE
    /\ string_index = 0 /\ data = 0 /\ at_least_one_symbol = FALSE
    /\ result = <<>> /\ ipState = "parsing"

-----------------------------------------------------------------------------
(* string[string_index]: a symbol read before, or a new one. *)
Symbol(s) ==
    /\ ipState = "parsing" /\ ~ended
    /\ IF string_index < Len(string)
       THEN s = string[string_index + 1] /\ UNCHANGED string
       ELSE string' = Append(string, s)
    /\ UNCHANGED ended

Throw ==
    /\ ipState' = "threw"
    /\ UNCHANGED <<string_index, data, at_least_one_symbol, result>>

NextIndex == string_index' = (string_index + 1) % IndexRange

Digit(s) ==
    /\ s \in Digits
    /\ Symbol(s)
    /\ IF data * Base + s > OctetMax THEN Throw
       ELSE /\ data' = data * Base + s
            /\ at_least_one_symbol' = TRUE
            /\ NextIndex
            /\ UNCHANGED <<result, ipState>>

Dot ==
    /\ Symbol(Point)
    /\ IF Len(result) < 3 /\ at_least_one_symbol
       THEN /\ result' = Append(result, data)
            /\ data' = 0
            /\ at_least_one_symbol' = FALSE
            /\ NextIndex
            /\ UNCHANGED ipState
       ELSE Throw

Other ==
    /\ Symbol(Letter)
    /\ Throw

(* Mutant: an address may end with a dot. *)
EndOfStringLax ==
    /\ ipState = "parsing" /\ string_index = Len(string)
    /\ ended' = TRUE
    /\ IF Len(result) = 3
       THEN /\ result' = Append(result, data)
            /\ ipState' = "parsed"
            /\ UNCHANGED <<string_index, data, at_least_one_symbol>>
       ELSE Throw
    /\ UNCHANGED string

(* The index is not below the length any more. *)
EndOfString ==
    /\ ipState = "parsing" /\ string_index = Len(string)
    /\ ended' = TRUE
    /\ IF Len(result) = 3 /\ at_least_one_symbol
       THEN /\ result' = Append(result, data)
            /\ ipState' = "parsed"
            /\ UNCHANGED <<string_index, data, at_least_one_symbol>>
       ELSE Throw
    /\ UNCHANGED string

Ipv4Next == (\E s \in Digits : Digit(s)) \/ Dot \/ Other \/ EndOfString

-----------------------------------------------------------------------------
(* The fields between the dots of a string, and what they stand for. *)
Fields(s) ==
    LET dots == SetToSortSeq({k \in DOMAIN s : s[k] = Point}, <)
        Start(n) == IF n = 1 THEN 1 ELSE dots[n - 1] + 1
        Stop(n) == IF n > Len(dots) THEN Len(s) ELSE dots[n] - 1
    IN [n \in 1..(Len(dots) + 1) |-> SubSeq(s, Start(n), Stop(n))]

IsOctet(f) ==
    /\ f # <<>> /\ \A k \in DOMAIN f : f[k] \in Digits
    /\ FoldLeft(LAMBDA v, d : v * Base + d, 0, f) <= OctetMax

IsAddress(s) == Len(Fields(s)) = 4 /\ \A n \in 1..4 : IsOctet(Fields(s)[n])

Octets(s) == [n \in 1..4 |-> FoldLeft(LAMBDA v, d : v * Base + d, 0, Fields(s)[n])]

(* No address starts this way. *)
StartsNoAddress(s) ==
    LET f == Fields(s) IN
    \/ Len(f) > 4
    \/ \E n \in 1..(Len(f) - 1) : ~IsOctet(f[n])
    \/ Last(f) # <<>> /\ ~IsOctet(Last(f))

(* The constructor has ended as it should: with the octets of an address,  *)
(* or by throwing on anything else.                                        *)
RightVerdict ==
    \/ ipState = "parsed" /\ IsAddress(string) /\ result = Octets(string)
    \/ ipState = "threw" /\ (StartsNoAddress(string) \/ (ended /\ ~IsAddress(string)))
=============================================================================
