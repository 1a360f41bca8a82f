----------------------------- MODULE MCChannels -----------------------------
(* Two objects and two descriptors: numbers are reused, and an object can  *)
(* be moved from, accepted into and closed under every state.  TLS over a  *)
(* channel of two bytes, with records that do not fit.                     *)
EXTENDS Channels
=============================================================================
