---------------------------- MODULE MCEventLoop ----------------------------
(* Up to two workers and as many descriptor numbers as eventfds or pipes   *)
(* at a time, so that numbers are reused.                                  *)
EXTENDS Kqueue
=============================================================================
