-------------------------------- MODULE Smp --------------------------------
(***************************************************************************)
(* ez::smp (source/smp.cpp): messages of a header and a body, framed as    *)
(* meta (magic, header size, body size), header, body, over a channel that *)
(* may take or deliver a part of what it is asked for (channel::send/recv  *)
(* on a non-blocking socket).                                              *)
(*                                                                         *)
(* Two endpoints talk in turns, as the class expects (recv() resets itself *)
(* only in send_complete): the client sends a request and receives the     *)
(* response, the server receives and then sends.  Each application calls   *)
(* send_more() until state() is send_complete, calls recv() again after an *)
(* empty result, and also after an exception that left bytes behind.       *)
(*                                                                         *)
(* A byte is <<n, k>>: byte k of the frame of the sender's n-th message.   *)
(* The magic is recognised only at the start of a frame.                   *)
(***************************************************************************)
EXTENDS Integers, Sequences, SequencesExt

CONSTANTS
    Meta,          \* sizeof(m_meta)
    HeaderBuffer,  \* size of the header buffer reset() allocates
    MAX_HEADER, MAX_DATA,
    HeaderSizes, BodySizes,   \* the sizes the applications try to send
    MaxMessages    \* bound: messages each endpoint sends

ASSUME SizesAssumption ==
    /\ Meta \in Nat \ {0} /\ HeaderBuffer \in Nat /\ Meta <= HeaderBuffer
    /\ MAX_HEADER \in Nat /\ MAX_DATA \in Nat /\ MaxMessages \in Nat
    /\ HeaderSizes \subseteq Nat /\ BodySizes \subseteq Nat

Endpoints == {"client", "server"}
Peer(ep) == IF ep = "client" THEN "server" ELSE "client"

VARIABLES
    smp,        \* each endpoint's smp::impl, its receiving half
    sendbuf,    \* m_send_buffer from its position on
    chan,       \* bytes on their way to an endpoint
    app,        \* what the application does next: "send", "sending", "recv"
    sent,       \* the sizes of the messages an endpoint has sent
    delivered,  \* the messages recv() returned
    outcome     \* what the last recv() did

vars == <<smp, sendbuf, chan, app, sent, delivered, outcome>>

Zeros(n) == [k \in 1..n |-> <<0, 0>>]     \* buffer(n) is zero filled
Empty == [header |-> <<>>, body |-> <<>>] \* message_t()

(* m_header is the memory `header', its m_size is `size' and its           *)
(* m_position `pos'; m_body is `body' with position `bpos'.  The history   *)
(* `split' records that some header arrived in more than one piece.        *)
NewSmp ==
    [state |-> "waiting_meta", header |-> Zeros(HeaderBuffer), size |-> HeaderBuffer,
     pos |-> 0, new_header |-> FALSE, header_size |-> 0, body_size |-> 0,
     body |-> <<>>, bpos |-> 0, split |-> FALSE]

(* reset(): a header buffer that was enlarged for a message, or shrunk     *)
(* below the meta, is replaced; the others keep their shrunk size.         *)
Reset(e) ==
    LET fresh == e.new_header \/ e.size - e.pos < Meta
    IN [NewSmp EXCEPT !.header = IF fresh THEN Zeros(HeaderBuffer) ELSE e.header,
                      !.size   = IF fresh THEN HeaderBuffer ELSE e.size,
                      !.split  = e.split]

-----------------------------------------------------------------------------
(* recv(), as the set of ways one call can end.  An ending is the new      *)
(* endpoint, the bytes left in the channel, the message and what happened; *)
(* "next_case" is the switch's fall through to the next case.              *)
Ending(e, ch, msg, what) == [e |-> e, ch |-> ch, msg |-> msg, what |-> what]

(* channel.recv() refuses a buffer without room for the bytes needed (an   *)
(* underflowing `need' is huge); otherwise it takes 1..need bytes.         *)
Refuses(room, need) == need < 0 \/ room = 0 \/ room < need
Pieces(ch, need) == {k \in 1..need : k <= Len(ch)}
Store(mem, pos, ch, k) ==
    [j \in 1..Len(mem) |-> IF j > pos /\ j <= pos + k THEN ch[j - pos] ELSE mem[j]]
Rest(ch, k) == SubSeq(ch, k + 1, Len(ch))
HeaderWindow(e) == SubSeq(e.header, e.pos + 1, e.size)

(* The meta is complete: check the magic and the header size, make room.   *)
(* `from' is the sequence of sizes the peer has sent.                      *)
ParseMeta(e, ch, from) ==
    LET first == e.header[1]
        magic == first[1] > 0 /\ first[2] = 0
        h == from[first[1]].h
        e1 == [e EXCEPT !.header_size = h, !.body_size = from[first[1]].b]
        e2 == [e1 EXCEPT !.state = "waiting_header"] IN
    IF ~magic THEN Ending(e, ch, Empty, "wrong_format")
    ELSE IF h = 0 \/ h > MAX_HEADER THEN Ending(e1, ch, Empty, "wrong_format")
    ELSE IF h <= e.size THEN Ending(e2, ch, Empty, "next_case")
    ELSE Ending([e2 EXCEPT !.new_header = TRUE, !.header = Zeros(h), !.size = h],
                ch, Empty, "next_case")

(* Mutant: a short read does not advance the position. *)
MetaCaseRewound(e, ch, from) ==
    LET need == Meta - e.pos IN
    IF Refuses(e.size - e.pos, need) THEN {Ending(e, ch, Empty, "buffer_too_small")}
    ELSE IF Len(ch) = 0 THEN {Ending(e, ch, Empty, "would_block")}
    ELSE {LET e1 == [e EXCEPT !.header = Store(@, e.pos, ch, k)] IN
          IF k = need THEN ParseMeta([e1 EXCEPT !.pos = 0], Rest(ch, k), from)
          ELSE Ending(e1, Rest(ch, k), Empty, "next_case")
          : k \in Pieces(ch, need)}

(* case waiting_meta: a short read falls through to the header as well. *)
MetaCase(e, ch, from) ==
    LET need == Meta - e.pos IN
    IF Refuses(e.size - e.pos, need) THEN {Ending(e, ch, Empty, "buffer_too_small")}
    ELSE IF Len(ch) = 0 THEN {Ending(e, ch, Empty, "would_block")}
    ELSE {LET header == Store(e.header, e.pos, ch, k) IN
          IF k = need
          THEN ParseMeta([e EXCEPT !.header = header, !.pos = 0], Rest(ch, k), from)
          ELSE Ending([e EXCEPT !.header = header, !.pos = @ + k], Rest(ch, k), Empty,
                      "next_case")
          : k \in Pieces(ch, need)}

(* Behind the header, read in full or not: allocate the body and go on, or *)
(* return a message without one (the state stays waiting_header).          *)
AfterHeader(e, ch) ==
    IF e.body_size = 0
    THEN Ending(e, ch, [header |-> HeaderWindow(e), body |-> <<>>], "message")
    ELSE IF e.body_size > MAX_DATA
    THEN Ending(e, ch, Empty, "body_too_big")
    ELSE Ending([e EXCEPT !.body = Zeros(e.body_size), !.bpos = 0, !.state = "waiting_body"],
                ch, Empty, "next_case")

(* case waiting_header *)
HeaderCase(e, ch) ==
    LET need == e.header_size - e.pos IN
    IF Refuses(e.size - e.pos, need) THEN {Ending(e, ch, Empty, "buffer_too_small")}
    ELSE IF Len(ch) = 0 THEN {Ending(e, ch, Empty, "would_block")}
    ELSE {LET header == Store(e.header, e.pos, ch, k) IN
          AfterHeader(IF k = need
                      THEN [e EXCEPT !.header = header, !.pos = 0, !.size = e.header_size]
                      ELSE [e EXCEPT !.header = header, !.pos = @ + k, !.split = TRUE],
                      Rest(ch, k))
          : k \in Pieces(ch, need)}

(* Mutants: any read completes the body; a short read does not advance. *)
BodyCaseAnyRead(e, ch) ==
    IF Len(ch) = 0 THEN {Ending(e, ch, Empty, "would_block")}
    ELSE {LET body == Store(e.body, e.bpos, ch, k) IN
          Ending([e EXCEPT !.body = body, !.bpos = 0, !.state = "waiting_meta"],
                 Rest(ch, k), [header |-> HeaderWindow(e), body |-> body], "message")
          : k \in Pieces(ch, e.body_size - e.bpos)}

BodyCaseRewound(e, ch) ==
    IF Len(ch) = 0 THEN {Ending(e, ch, Empty, "would_block")}
    ELSE {LET body == Store(e.body, e.bpos, ch, k) IN
          IF k = e.body_size - e.bpos
          THEN Ending([e EXCEPT !.body = body, !.bpos = 0, !.state = "waiting_meta"],
                      Rest(ch, k), [header |-> HeaderWindow(e), body |-> body], "message")
          ELSE Ending([e EXCEPT !.body = body], Rest(ch, k), Empty, "should_never_come_here")
          : k \in Pieces(ch, e.body_size - e.bpos)}

(* case waiting_body: a short read leaves the switch and reaches the throw *)
(* behind it.                                                              *)
BodyCase(e, ch) ==
    LET need == e.body_size - e.bpos IN
    IF Len(ch) = 0 THEN {Ending(e, ch, Empty, "would_block")}
    ELSE {LET body == Store(e.body, e.bpos, ch, k) IN
          IF k = need
          THEN Ending([e EXCEPT !.body = body, !.bpos = 0, !.state = "waiting_meta"],
                      Rest(ch, k), [header |-> HeaderWindow(e), body |-> body], "message")
          ELSE Ending([e EXCEPT !.body = body, !.bpos = @ + k], Rest(ch, k), Empty,
                      "should_never_come_here")
          : k \in Pieces(ch, need)}

(* The fall through from one case of the switch to the next. *)
FromHeader(e, ch) ==
    UNION {IF x.what = "next_case" THEN BodyCase(x.e, x.ch) ELSE {x} : x \in HeaderCase(e, ch)}
FromMeta(e, ch, from) ==
    UNION {IF x.what = "next_case" THEN FromHeader(x.e, x.ch) ELSE {x}
           : x \in MetaCase(e, ch, from)}

RecvEndings(e, ch, from) ==
    CASE e.state = "sending_data"   -> {Ending(e, ch, Empty, "sending")}
      [] e.state = "send_complete"  -> FromMeta(Reset(e), ch, from)
      [] e.state = "waiting_meta"   -> FromMeta(e, ch, from)
      [] e.state = "waiting_header" -> FromHeader(e, ch)
      [] e.state = "waiting_body"   -> BodyCase(e, ch)

-----------------------------------------------------------------------------
Init ==
    /\ smp = [ep \in Endpoints |-> NewSmp]
    /\ sendbuf = [ep \in Endpoints |-> <<>>]
    /\ chan = [ep \in Endpoints |-> <<>>]
    /\ app = [ep \in Endpoints |-> IF ep = "client" THEN "send" ELSE "recv"]
    /\ sent = [ep \in Endpoints |-> <<>>]
    /\ delivered = [ep \in Endpoints |-> <<>>]
    /\ outcome = [ep \in Endpoints |-> "none"]

Frame(n, h, b) == [k \in 1..(Meta + h + b) |-> <<n, k - 1>>]

(* Mutant: the buffers are reset as soon as the message is sent. *)
TransmitResets(ep, bytes, k) ==
    /\ chan' = [chan EXCEPT ![Peer(ep)] = @ \o SubSeq(bytes, 1, k)]
    /\ sendbuf' = [sendbuf EXCEPT ![ep] = Rest(bytes, k)]
    /\ smp' = [smp EXCEPT ![ep] = IF k = Len(bytes)
                                  THEN [Reset(@) EXCEPT !.state = "send_complete"]
                                  ELSE [@ EXCEPT !.state = "sending_data"]]

(* channel.send() takes the first k of the bytes given (none: it would     *)
(* block); all of them complete the message.                               *)
Transmit(ep, bytes, k) ==
    /\ chan' = [chan EXCEPT ![Peer(ep)] = @ \o SubSeq(bytes, 1, k)]
    /\ sendbuf' = [sendbuf EXCEPT ![ep] = Rest(bytes, k)]
    /\ smp' = [smp EXCEPT ![ep].state = IF k = Len(bytes) THEN "send_complete"
                                                          ELSE "sending_data"]

(* send(): the state is set before the sizes are checked, so a refused     *)
(* message leaves sending_data behind with nothing to send.                *)
SendRefused(h, b) == h = 0 \/ h > MAX_HEADER \/ b > MAX_DATA

Send(ep, h, b) ==
    /\ app[ep] = "send" /\ Len(sent[ep]) < MaxMessages
    /\ IF SendRefused(h, b)
       THEN /\ smp' = [smp EXCEPT ![ep].state = "sending_data"]
            /\ UNCHANGED <<sendbuf, chan, app, sent>>
       ELSE \E k \in 0..(Meta + h + b) :
            /\ Transmit(ep, Frame(Len(sent[ep]) + 1, h, b), k)
            /\ sent' = [sent EXCEPT ![ep] = Append(@, [h |-> h, b |-> b])]
            /\ app' = [app EXCEPT ![ep] = IF k = Meta + h + b THEN "recv" ELSE "sending"]
    /\ UNCHANGED <<delivered, outcome>>

(* send_more(), when the channel is writable.  After a refused send() the  *)
(* buffer is empty and the call only completes the state.                  *)
SendMore(ep) ==
    /\ smp[ep].state = "sending_data"
    /\ \E k \in 0..Len(sendbuf[ep]) :
        /\ Transmit(ep, sendbuf[ep], k)
        /\ app' = [app EXCEPT ![ep] = IF @ = "sending" /\ k = Len(sendbuf[ep])
                                      THEN "recv" ELSE @]
    /\ UNCHANGED <<sent, delivered, outcome>>

(* recv().  A message hands the turn to the application. *)
Recv(ep) ==
    /\ app[ep] = "recv"
    /\ \E end \in RecvEndings(smp[ep], chan[ep], sent[Peer(ep)]) :
        /\ smp' = [smp EXCEPT ![ep] = end.e]
        /\ chan' = [chan EXCEPT ![ep] = end.ch]
        /\ outcome' = [outcome EXCEPT ![ep] = end.what]
        /\ delivered' = [delivered EXCEPT ![ep] =
                IF end.what = "message" THEN Append(@, end.msg) ELSE @]
        /\ app' = [app EXCEPT ![ep] = IF end.what = "message" THEN "send" ELSE @]
    /\ UNCHANGED <<sendbuf, sent>>

Next == \E ep \in Endpoints :
    \/ \E h \in HeaderSizes, b \in BodySizes : Send(ep, h, b)
    \/ SendMore(ep)
    \/ Recv(ep)

(* The channel moves bytes and the applications go on: the server answers, *)
(* both keep calling send_more() and recv().                               *)
Fairness ==
    /\ WF_vars(\E h \in HeaderSizes, b \in BodySizes :
                  ~SendRefused(h, b) /\ Send("server", h, b))
    /\ \A ep \in Endpoints : WF_vars(SendMore(ep)) /\ WF_vars(Recv(ep))

Spec == Init /\ [][Next]_vars
FairSpec == Spec /\ Fairness

-----------------------------------------------------------------------------
(* Message n of an endpoint, as its peer must see it: the header and body  *)
(* bytes of its frame.                                                     *)
MessageOf(ep, n) ==
    LET frame == Frame(n, sent[ep][n].h, sent[ep][n].b) IN
    [header |-> SubSeq(frame, Meta + 1, Meta + sent[ep][n].h),
     body   |-> SubSeq(frame, Meta + sent[ep][n].h + 1, Len(frame))]

(* What one endpoint sends and the other receives is a message channel     *)
(* that breaks when a header arrives in pieces: until then recv() returns  *)
(* exactly the messages the peer sent, in order and byte for byte, however *)
(* the meta and the body are cut up and whatever sizes earlier messages    *)
(* had.                                                                    *)
ToServer ==
    INSTANCE MessageChannel WITH
        sent <- [n \in DOMAIN sent["client"] |-> MessageOf("client", n)],
        delivered <- delivered["server"],
        broken <- smp["server"].split

ToClient ==
    INSTANCE MessageChannel WITH
        sent <- [n \in DOMAIN sent["server"] |-> MessageOf("server", n)],
        delivered <- delivered["client"],
        broken <- smp["client"].split

DeliversWhatWasSent == ToServer!Spec /\ ToClient!Spec

(* The header that recv() returned shares m_header with the endpoint       *)
(* (smp.cpp:207): it stays as it was while the application answers, by     *)
(* refused sends, partial sends and send_more(), until it calls recv().    *)
HeaderIsTheApplications ==
    \A ep \in Endpoints :
        app[ep] # "recv" /\ delivered[ep] # <<>>
            => HeaderWindow(smp[ep]) = Last(delivered[ep]).header

(* While no header is split, recv() never fails for good: the only         *)
(* exceptions are the two that leave it where calling it again continues.  *)
OnlyResumableErrors ==
    \A ep \in Endpoints : ~smp[ep].split =>
        outcome[ep] \notin {"wrong_format", "body_too_big", "sending"}

(* The throw at the end of recv() is not reached. *)
NeverComesThere == \A ep \in Endpoints : outcome[ep] # "should_never_come_here"

(* Every request is answered, through would-block results, short reads     *)
(* and the exceptions they cause, unless a header arrived in pieces.       *)
RequestsAreAnswered ==
    \A n \in 1..MaxMessages :
        (Len(sent["client"]) >= n)
            ~> (Len(delivered["client"]) >= n \/ \E ep \in Endpoints : smp[ep].split)
=============================================================================
