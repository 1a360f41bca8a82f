-------------------------------- MODULE Http --------------------------------
(***************************************************************************)
(* ez::http (source/http.cpp) at one end of a connection: a server calls   *)
(* recv_request() and then send_response(), a client send_request() and    *)
(* then recv_response().  The two receiving methods share their structure  *)
(* and differ in which buffer a short body read advances.                  *)
(*                                                                         *)
(* The channel is a non-blocking socket: bytes of the peer's message       *)
(* arrive in pieces, at any time between and during the calls.  One        *)
(* iteration of the loops around channel.recv() is one step; `call' says   *)
(* which loop the current call is in.  The application calls again after   *)
(* an empty result (http.cpp:185).                                         *)
(*                                                                         *)
(* A byte is a token <<m, kind, k>> of message m: "hdr" for the header     *)
(* block, "data" for the body; in a chunked body also the size line of a   *)
(* chunk ("size"), the line end behind its data ("crlf"), the last size    *)
(* line ("zero") and the two bytes of the final empty line ("cr", "lf").   *)
(* A piece of a header block is long enough for the parser to look at it.  *)
(***************************************************************************)
EXTENDS Integers, Sequences, SequencesExt

CONSTANTS
    RecvBuffer,      \* m_recv_buffer_size
    MaxBody,         \* m_max_request_body_size
    Messages,        \* messages that the peer may send, see MessageAssumption
    ReplySize,       \* bytes of what this end sends
    MaxMessages      \* bound: messages of the peer

(* A message has a header block of h bytes and a body: with a              *)
(* Content-Length of n, 0 for none, or one that std::from_chars() cannot   *)
(* parse; or with Transfer-Encoding: chunked, in chunks of these sizes.    *)
Unparsable == -1
Sized(h, n) == [h |-> h, body |-> [chunked |-> FALSE, n |-> n, chunks |-> <<>>]]
Chunked(h, chunks) == [h |-> h, body |-> [chunked |-> TRUE, n |-> 0, chunks |-> chunks]]

ASSUME HttpAssumption ==
    /\ RecvBuffer \in Nat /\ MaxBody \in Nat /\ ReplySize \in Nat /\ MaxMessages \in Nat
    /\ RecvBuffer < MaxBody
ASSUME MessageAssumption ==
    \A msg \in Messages :
        /\ msg.h \in Nat \ {0}
        /\ msg \in {Sized(msg.h, msg.body.n), Chunked(msg.h, msg.body.chunks)}

VARIABLES
    http,       \* http::impl
    call,       \* "none", or the loop of the receiving call: "header", "body"
    data_size,  \* that call's local variable
    app,        \* what the application does next: "send", "sending", "recv"
    sendbuf,    \* bytes of m_send_buffer still to send
    inflight,   \* bytes of the peer's message not yet arrived
    chan,       \* bytes arrived and not yet received
    sent,       \* the messages of the peer
    delivered,  \* the bodies returned, with their header sizes
    outcome,    \* how the last call ended
    cut         \* the ways in which a message was cut up that the code does
                \* not survive

vars == <<http, call, data_size, app, sendbuf, inflight, chan, sent, delivered, outcome, cut>>

Nul == <<0, "nul", 0>>
Nuls(n) == [k \in 1..n |-> Nul]
Tokens(m, kind, n) == [k \in 1..n |-> <<m, kind, k>>]

SumBefore(chunks, c) == FoldLeft(LAMBDA a, x : a + x, 0, SubSeq(chunks, 1, c - 1))
ChunkWire(m, chunks) ==
    FlattenSeq([c \in DOMAIN chunks |->
        <<<<m, "size", chunks[c]>>>>
        \o [k \in 1..chunks[c] |-> <<m, "data", SumBefore(chunks, c) + k>>]
        \o <<<<m, "crlf", 0>>>>])
    \o <<<<m, "zero", 0>>, <<m, "cr", 0>>, <<m, "lf", 0>>>>

Wire(m, msg) ==
    Tokens(m, "hdr", msg.h)
    \o (IF msg.body.chunked THEN ChunkWire(m, msg.body.chunks)
                            ELSE Tokens(m, "data", msg.body.n))

(* The body the application must get. *)
BodyOf(m, msg) ==
    Tokens(m, "data", IF msg.body.chunked
                      THEN SumBefore(msg.body.chunks, Len(msg.body.chunks) + 1)
                      ELSE msg.body.n)

-----------------------------------------------------------------------------
(* m_buffer is buf/size/pos, m_body is body/bsize/bpos; dec and left are   *)
(* the chunked decoder.  set_position() clamps to the size.  `side' is how *)
(* the object is used: "request" for a server, "response" for a client.    *)
NewHttp(side) ==
    [side |-> side, state |-> "waiting_header", buf |-> Nuls(RecvBuffer), size |-> RecvBuffer, pos |-> 0,
     header_size |-> 0, body_size |-> 0, body |-> <<>>, bsize |-> 0, bpos |-> 0,
     new_body_buffer |-> FALSE, chunked |-> FALSE, dec |-> "size", left |-> 0]

(* Mutants: reset() forgets the position, or the body size. *)
ResetKeepsPosition(e) ==
    [NewHttp(e.side) EXCEPT !.buf = e.buf, !.header_size = e.header_size, !.pos = e.pos]
ResetKeepsBodySize(e) ==
    [NewHttp(e.side) EXCEPT !.buf = e.buf, !.header_size = e.header_size, !.body_size = e.body_size]

Reset(e) == [NewHttp(e.side) EXCEPT !.buf = e.buf, !.header_size = e.header_size]

Clamp(p, size) == IF p > size THEN size ELSE p

(* channel.recv(buffer) fills the room behind the position as far as the   *)
(* bytes that have arrived go.                                             *)
Got(room) == IF Len(chan) < room THEN Len(chan) ELSE room
Store(mem, pos, k) ==
    [j \in 1..Len(mem) |-> IF j > pos /\ j <= pos + k THEN chan[j - pos] ELSE mem[j]]
Rest(seq, k) == SubSeq(seq, k + 1, Len(seq))

(* The line feed that may be left of the message before. *)
LineFeed(buf) == IF buf[1][2] = "lf" THEN SubSeq(buf, 1, 1) ELSE <<>>

(* Mutant: an incomplete header block is taken for a wrong one. *)
ParseStrict(side, buf, last, n) ==
    LET bytes == SubSeq(buf, 1, n)
        m == buf[n][1] IN
    IF m # 0 /\ IsPrefix(Tokens(m, "hdr", sent[m].h), bytes) THEN sent[m].h ELSE -1

(* phr_parse_request/response() on the first n bytes of the buffer, of     *)
(* which an earlier iteration has seen `last': the size of a complete      *)
(* header block, -2 for a proper prefix of one, -1 for anything else.      *)
(* phr_parse_request() skips a line feed in front.  phr_parse_response()   *)
(* fails on it when it first looks, or, having once found too little to    *)
(* look at, when the block is complete.                                    *)
Parse(side, buf, last, n) ==
    LET lead == LineFeed(buf)
        m == buf[Len(lead) + 1][1]
        block == lead \o Tokens(m, "hdr", sent[m].h)
        bytes == SubSeq(buf, 1, n)
        strange == side = "response" /\ lead # <<>> IN
    IF n = Len(lead) THEN -2
    ELSE IF m = 0 THEN -1
    ELSE IF IsPrefix(block, bytes) THEN IF strange THEN -1 ELSE Len(block)
    ELSE IF IsPrefix(bytes, block) THEN IF strange /\ last = 0 THEN -1 ELSE -2
    ELSE -1

(* phr_decode_chunked() on a window of bytes.  The decoder stops in "ext"  *)
(* behind the last size line; called again there it skips to the next line *)
(* end and reports completion once more.                                   *)
DecodeToken(a, t) ==
    IF a.ret # "incomplete" THEN a
    ELSE CASE a.dec = "size" /\ t[2] = "size" ->
                [a EXCEPT !.dec = "data", !.left = t[3], !.src = @ + 1]
           [] a.dec = "size" /\ t[2] = "zero" ->
                [a EXCEPT !.dec = "ext", !.ret = "complete", !.src = @ + 1]
           [] a.dec = "data" ->
                [a EXCEPT !.out = Append(@, t), !.left = @ - 1, !.src = @ + 1,
                          !.dec = IF a.left = 1 THEN "crlf" ELSE "data"]
           [] a.dec = "crlf" /\ t[2] = "crlf" ->
                [a EXCEPT !.dec = "size", !.src = @ + 1]
           [] a.dec = "ext" ->
                [a EXCEPT !.src = @ + 1,
                          !.ret = IF t[2] \in {"data", "nul", "hdr", "cr"} THEN @ ELSE "complete"]
           [] OTHER -> [a EXCEPT !.ret = "error"]

(* What a call of the decoder leaves: one result, in a set so that TLC     *)
(* evaluates each token once.  The bytes decoded are moved to the front.   *)
Decode(e) ==
    LET window == SubSeq(e.body, e.bpos + 1, e.bsize)
        start == [dec |-> e.dec, left |-> e.left, out |-> <<>>, src |-> 0, ret |-> "incomplete"]
        Result(a) ==
            LET moved == a.out \o Rest(window, a.src) IN
            [dec |-> a.dec, left |-> a.left, dst |-> Len(a.out),
             ret |-> CASE a.ret = "complete" -> Len(window) - a.src
                       [] a.ret = "incomplete" -> -2
                       [] a.ret = "error" -> -1,
             body |-> [j \in 1..Len(e.body) |->
                         IF j > e.bpos /\ j <= e.bpos + Len(moved) THEN moved[j - e.bpos]
                         ELSE e.body[j]]]
    IN {Result(a) : a \in FoldLeft(LAMBDA as, t : {DecodeToken(a, t) : a \in as},
                                   {start}, window)}

-----------------------------------------------------------------------------
Init ==
    /\ \E side \in {"request", "response"} : http = NewHttp(side)
    /\ call = "none" /\ data_size = 0
    /\ app = IF http.side = "request" THEN "recv" ELSE "send"
    /\ sendbuf = 0
    /\ inflight = <<>> /\ chan = <<>>
    /\ sent = <<>> /\ delivered = <<>>
    /\ outcome = "none" /\ cut = {}

(* The peer: one message per turn of this end, arriving in pieces. *)
PeerSends(msg) ==
    /\ app = "recv" /\ Len(sent) = Len(delivered) /\ Len(sent) < MaxMessages
    /\ outcome \notin {"error"}
    /\ sent' = Append(sent, msg)
    /\ inflight' = inflight \o Wire(Len(sent) + 1, msg)
    /\ UNCHANGED <<http, call, data_size, app, sendbuf, chan, delivered, outcome, cut>>

Arrive ==
    \E k \in 1..Len(inflight) :
        /\ chan' = chan \o SubSeq(inflight, 1, k)
        /\ inflight' = Rest(inflight, k)
        /\ UNCHANGED <<http, call, data_size, app, sendbuf, sent, delivered, outcome, cut>>

(* send_request(), send_response(): n bytes, of which the channel takes k. *)
Transmit(n, k) ==
    /\ sendbuf' = n - k
    /\ http' = [http EXCEPT !.state = IF k = n THEN "send_complete" ELSE "sending_body"]
    /\ app' = IF k = n THEN "recv" ELSE "sending"
    /\ UNCHANGED <<call, data_size, inflight, chan, sent, delivered, outcome, cut>>

Send ==
    /\ app = "send"
    /\ \E k \in 0..ReplySize : Transmit(ReplySize, k)

SendMore ==
    /\ http.state = "sending_body"
    /\ \E k \in 0..sendbuf : Transmit(sendbuf, k)

-----------------------------------------------------------------------------
(* The ways a call ends: empty (would block), with a message, by throw. *)
WouldBlock(e) ==
    /\ http' = e
    /\ call' = "none" /\ outcome' = "would_block"
    /\ UNCHANGED <<app, delivered, chan>>

Returns(e, body, rest) ==
    /\ http' = e
    /\ call' = "none" /\ outcome' = "message"
    /\ app' = "send"
    /\ delivered' = Append(delivered, body)
    /\ chan' = rest

Throws(e, rest) ==
    /\ http' = e
    /\ call' = "none" /\ outcome' = "error"
    /\ chan' = rest
    /\ UNCHANGED <<app, delivered>>

Continues(e, loop, rest) ==
    /\ http' = e
    /\ call' = loop
    /\ chan' = rest
    /\ UNCHANGED <<app, delivered, outcome>>

(* The call: after a send, reset() first; data_size starts at 0 even when  *)
(* m_buffer's position remembers an earlier call.                          *)
RecvCall ==
    /\ call = "none" /\ app = "recv" /\ outcome # "error"
    /\ http' = IF http.state = "send_complete" THEN Reset(http) ELSE http
    /\ call' = IF http'.state = "waiting_body" THEN "body" ELSE "header"
    /\ data_size' = 0
    /\ UNCHANGED <<app, sendbuf, inflight, chan, sent, delivered, outcome, cut>>

(* All headers are parsed: e has the new bytes, n is data_size, h the size *)
(* of the header block.  Its Content-Length may be wrong; the body is here *)
(* already, or there is none, or it is too big, or it goes to a new buffer *)
(* or behind the header in m_buffer.                                       *)
AfterHeader(e0, n, h, rest) ==
    LET msg == sent[e0.buf[h][1]]
        size == CASE msg.body.chunked -> MaxBody
                  [] msg.body.n > 0 -> msg.body.n
                  [] OTHER -> e0.body_size
        e == [e0 EXCEPT !.header_size = h, !.pos = h, !.body_size = size,
                        !.chunked = @ \/ msg.body.chunked]
        tail == n - h
        copied == SubSeq(e.buf, h + 1, n) \o Nuls(size - tail)
    IN /\ cut' = IF e.chunked /\ tail = 0 THEN cut \cup {"bare_chunked_header"} ELSE cut
       /\ IF msg.body.n = Unparsable THEN Throws([e0 EXCEPT !.header_size = h, !.pos = h], rest)
          ELSE IF size = 0 THEN Returns(e, <<>>, rest)
          ELSE IF size <= tail
          THEN Returns([e EXCEPT !.size = h + size], SubSeq(e.buf, h + 1, h + size), rest)
          ELSE IF size > MaxBody THEN Throws(e, rest)
          ELSE IF e.size - e.pos < size
          THEN Continues([e EXCEPT !.state = "waiting_body", !.new_body_buffer = TRUE,
                                   !.body = copied,
                                   !.bsize = IF e.chunked /\ tail > 0 THEN tail ELSE size,
                                   !.bpos = IF e.chunked THEN 0 ELSE tail],
                         "body", rest)
          ELSE Continues([e EXCEPT !.state = "waiting_body", !.pos = n], "body", rest)

(* One iteration of the header loop.  Each received block is parsed with   *)
(* what this call has received before it.                                  *)
HeaderLoop ==
    /\ call = "header"
    /\ IF chan = <<>>
       THEN /\ WouldBlock(http)
            /\ cut' = IF http.pos > 0 THEN cut \cup {"header_in_several_calls"} ELSE cut
            /\ UNCHANGED data_size
       ELSE LET k == Got(http.size - http.pos)
                e == [http EXCEPT !.buf = Store(@, http.pos, k), !.pos = 0]
                n == data_size + k
                ret == Parse(e.side, e.buf, data_size, n) IN
            /\ data_size' = n
            /\ IF ret > 0 THEN AfterHeader(e, n, ret, Rest(chan, k))
               ELSE /\ UNCHANGED cut
                    /\ IF ret = -1 \/ n = e.size THEN Throws(e, Rest(chan, k))
                       ELSE Continues([e EXCEPT !.pos = n], "header", Rest(chan, k))
    /\ UNCHANGED <<sendbuf, inflight, sent>>

(* One iteration of the body loop, chunked: decode what is there, then     *)
(* receive more behind it.  A return value of 0 (complete, nothing left)   *)
(* is not handled: the loop decodes the same bytes again.  With one byte   *)
(* of the final empty line left, the other one is still to come.           *)
ChunkedLoop ==
    /\ call = "body" /\ http.chunked
    /\ \E d \in Decode(http) :
       LET e == [http EXCEPT !.body = d.body, !.dec = d.dec, !.left = d.left]
           pos == Clamp(e.bpos + d.dst, MaxBody)
           k == Got(MaxBody - pos)
           e1 == [e EXCEPT !.bpos = pos, !.bsize = MaxBody]
       IN CASE d.ret = -2 /\ pos = MaxBody ->            \* recv() finds no room
                 Throws(e1, chan) /\ UNCHANGED cut
            [] d.ret = -2 /\ pos < MaxBody /\ k = 0 ->
                 WouldBlock([e1 EXCEPT !.bsize = pos]) /\ UNCHANGED cut
            [] d.ret = -2 /\ k > 0 ->
                 /\ Continues([e1 EXCEPT !.body = Store(@, pos, k), !.bsize = pos + k],
                              "body", Rest(chan, k))
                 /\ UNCHANGED cut
            [] d.ret > 0 ->
                 /\ Returns([e EXCEPT !.bsize = pos, !.bpos = 0], SubSeq(e.body, 1, pos), chan)
                 /\ cut' = IF e.side = "response" /\ d.ret = 1
                           THEN cut \cup {"chunked_end_in_pieces"} ELSE cut
            [] d.ret = -1 -> Throws(e, chan) /\ UNCHANGED cut
            [] d.ret = 0 ->
                 /\ Continues(e, "body", chan)
                 /\ cut' = cut \cup {"late_chunked_end"}
    /\ UNCHANGED <<data_size, sendbuf, inflight, sent>>

(* ... into the buffer allocated for it.  recv_response() advances the     *)
(* other buffer after a short read.                                        *)
NewBufferLoop ==
    /\ call = "body" /\ ~http.chunked /\ http.new_body_buffer
    /\ IF chan = <<>> THEN WouldBlock(http) /\ UNCHANGED cut
       ELSE LET need == http.body_size - http.bpos
                k == Got(need)
                e == [http EXCEPT !.body = Store(@, http.bpos, k)] IN
            IF k = need
            THEN Returns([e EXCEPT !.bpos = 0], e.body, Rest(chan, k)) /\ UNCHANGED cut
            ELSE IF http.side = "request"
            THEN Continues([e EXCEPT !.bpos = @ + k], "body", Rest(chan, k)) /\ UNCHANGED cut
            ELSE /\ Continues([e EXCEPT !.pos = Clamp(@ + k, e.size)], "body", Rest(chan, k))
                 /\ cut' = cut \cup {"body_in_pieces"}
    /\ UNCHANGED <<data_size, sendbuf, inflight, sent>>

(* ... or behind the header in m_buffer.  recv_request() advances the      *)
(* other buffer, which is empty, after a short read.                       *)
SameBufferLoop ==
    /\ call = "body" /\ ~http.chunked /\ ~http.new_body_buffer
    /\ IF chan = <<>> THEN WouldBlock(http) /\ UNCHANGED cut
       ELSE LET need == http.body_size + http.header_size - http.pos
                k == Got(http.size - http.pos)
                e == [http EXCEPT !.buf = Store(@, http.pos, k)] IN
            IF k = need
            THEN /\ Returns([e EXCEPT !.pos = e.header_size, !.size = e.header_size + e.body_size],
                            SubSeq(e.buf, e.header_size + 1, e.header_size + e.body_size),
                            Rest(chan, k))
                 /\ UNCHANGED cut
            ELSE IF http.side = "response"
            THEN Continues([e EXCEPT !.pos = Clamp(@ + k, e.size)], "body", Rest(chan, k))
                 /\ UNCHANGED cut
            ELSE /\ Continues([e EXCEPT !.bpos = Clamp(@ + k, e.bsize)], "body", Rest(chan, k))
                 /\ cut' = cut \cup {"body_in_pieces"}
    /\ UNCHANGED <<data_size, sendbuf, inflight, sent>>

BodyLoop == ChunkedLoop \/ NewBufferLoop \/ SameBufferLoop

Next ==
    \/ \E msg \in Messages : PeerSends(msg)
    \/ Arrive
    \/ Send \/ SendMore
    \/ RecvCall \/ HeaderLoop \/ BodyLoop

(* The bytes of a message that was sent arrive; the application calls and  *)
(* the calls go on.  Nothing makes this end or the peer send.              *)
Fairness ==
    /\ WF_vars(Arrive)
    /\ WF_vars(RecvCall) /\ WF_vars(HeaderLoop) /\ WF_vars(BodyLoop)

Spec == Init /\ [][Next]_vars
FairSpec == Spec /\ Fairness

-----------------------------------------------------------------------------
(* One end of the connection is a message channel that breaks when a       *)
(* message is cut up in one of the ways the code does not survive: until   *)
(* then each message is returned once, in order and with exactly its body, *)
(* whichever of the three body loops it took and whatever the buffers held *)
(* before.                                                                 *)
Channel ==
    INSTANCE MessageChannel WITH
        sent <- [m \in DOMAIN sent |-> BodyOf(m, sent[m])],
        broken <- cut # {}

DeliversWhatWasSent == Channel!Spec

(* A message the code may refuse: its body is bigger than allowed, its     *)
(* Content-Length is no number, or its header block, with what is left in  *)
(* front of it, does not fit the buffer.                                   *)
Refusable(msg) ==
    \/ msg.body.n > MaxBody \/ msg.body.n = Unparsable
    \/ msg.h + Len(LineFeed(http.buf)) > RecvBuffer

(* Until then only such a message is refused, wherever the network cuts a  *)
(* message and whatever the one before left in the channel: a request is   *)
(* parsed behind a line feed that a chunked body left.                     *)
RefusesOnlyBadMessages ==
    cut = {} /\ outcome = "error" => Refusable(sent[Len(sent)])

(* "error parsing http headers" (http.cpp:476) is thrown for messages      *)
(* whose headers are wrong, also when the end of a chunked body before     *)
(* them has arrived in pieces.                                             *)
HeaderErrorsAreErrors ==
    cut \subseteq {"chunked_end_in_pieces"} /\ outcome = "error" => Refusable(sent[Len(sent)])

(* Every message that was sent is returned by some later call, or refused, *)
(* or was cut in one of those ways.                                        *)
MessagesAreReturned ==
    \A n \in 1..MaxMessages :
        (Len(sent) >= n) ~> (Len(delivered) >= n \/ outcome = "error" \/ cut # {})

(* "This method can be called several times before it returns with result" *)
(* (http.cpp:185): a message that arrives is returned or refused, however  *)
(* many calls it takes.                                                    *)
ReturnsAfterSeveralCalls ==
    \A n \in 1..MaxMessages :
        (Len(sent) >= n) ~> (Len(delivered) >= n \/ outcome = "error")
=============================================================================
