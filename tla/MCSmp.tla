------------------------------- MODULE MCSmp -------------------------------
(* A session with a meta and a header buffer of 2 bytes.  Headers: refused *)
(* as empty, below the meta (the buffer is shrunk, then replaced) and      *)
(* above the buffer (enlarged, then replaced).  A body of 3 is too big.    *)
EXTENDS Smp
=============================================================================
