--------------------------- MODULE MessageChannel ---------------------------
(***************************************************************************)
(* What ez::smp and ez::http promise the application at the receiving end: *)
(* the messages the peer sent are returned in order, each once and whole.  *)
(* A channel may break, and then promises nothing more; `broken' is        *)
(* instantiated with the ways of cutting up a message that the             *)
(* implementations do not survive.  Smp and Http are shown to implement    *)
(* this specification.                                                     *)
(***************************************************************************)
EXTENDS Naturals, Sequences

VARIABLES sent, delivered, broken

Init == sent = <<>> /\ delivered = <<>> /\ broken = FALSE

(* The peer sends a message, whatever it is. *)
Send ==
    /\ Len(sent') = Len(sent) + 1
    /\ SubSeq(sent', 1, Len(sent)) = sent
    /\ UNCHANGED <<delivered, broken>>

(* The receiving method returns the oldest message not yet returned. *)
Deliver ==
    /\ ~broken /\ Len(delivered) < Len(sent)
    /\ delivered' = Append(delivered, sent[Len(delivered) + 1])
    /\ UNCHANGED <<sent, broken>>

(* The channel breaks, or is broken and stays so. *)
Break == broken'

Next == Send \/ Deliver \/ Break

Spec == Init /\ [][Next]_<<sent, delivered, broken>>
=============================================================================
