------------------------------- MODULE MCHttp -------------------------------
(* A receive buffer of 4 bytes: a body of 2 fits behind a header of 2, a   *)
(* body of 3 does not, one of 7 is too big; a header of 4 fills the buffer *)
(* alone, one of 5 is too big; a chunked body of two chunks behind a       *)
(* header that leaves room for a part of it, and one behind a header that  *)
(* leaves none.                                                            *)
EXTENDS Http

MCMessages ==
    {Sized(2, n) : n \in {0, 2, 3, 7, Unparsable}} \cup {Sized(4, n) : n \in {0, 3}}
    \cup {Sized(5, 0), Chunked(2, <<1, 1>>), Chunked(4, <<2>>)}

MCPlainMessages == {Sized(2, 0)}
MCChunkedMessages == {Sized(2, 0), Chunked(2, <<1, 1>>)}
=============================================================================
