---------------------------- MODULE MCUtilities ----------------------------
(* Three handles over two addresses: every pair of handles that share an   *)
(* impl or do not, with a third one that may share with either.            *)
(* Bytes that need every branch of the encoders, in groups of every size;  *)
(* texts with a letter, '%', '=', '{' and a negative char.  Addresses in   *)
(* base 2 with octets up to 2 and an index that wraps at 9 symbols: the    *)
(* shortest address has 7.                                                 *)
EXTENDS Utilities
=============================================================================
