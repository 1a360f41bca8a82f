-------------------------------- MODULE Tls --------------------------------
(***************************************************************************)
(* ez::tls (source/tls.cpp) between a client that sends and a server that  *)
(* receives: handshake(), send(), recv() and close() on top of a channel   *)
(* that takes and gives any part of what it is asked for, with the         *)
(* callbacks in which libtls asks for it.  libtls itself is external: it   *)
(* exchanges three flights, cuts the data into records, keeps the rest of  *)
(* a record the channel did not take, and does the handshake first inside  *)
(* a tls_write() or tls_read() that comes early.                           *)
(*                                                                         *)
(* An element of the wire is the first byte of a record, which tells its   *)
(* kind and length, or a later byte of it.                                 *)
(***************************************************************************)
EXTENDS Integers, Sequences, SequencesExt

CONSTANTS
    WireRoom,       \* bytes the channel holds in one direction
    MaxRecord,      \* bytes of data in one record
    SendSize,       \* bytes of one call of send()
    RecvSize,       \* bytes that recv() asks tls_read() for: the desired size
                    \* or, without one, the size of the buffer
    TlsData         \* bytes the client has to send

ASSUME TlsAssumption ==
    WireRoom \in Nat \ {0} /\ MaxRecord \in Nat \ {0} /\ SendSize \in Nat \ {0}
        /\ RecvSize \in Nat \ {0} /\ TlsData \in Nat

Sides == {"client", "server"}
Opposite(ep) == IF ep = "client" THEN "server" ELSE "client"

VARIABLES
    tls,        \* each end: ez::impl and what libtls keeps behind m_context
    wire,       \* bytes on their way to an end
    nonblocking,\* m_channel.is_nonblocking()
    reply,      \* what the last call of an end gave
    accepted,   \* bytes that send() has said it took
    received    \* what recv() has given

tlsVars == <<tls, wire, nonblocking, reply, accepted, received>>

-----------------------------------------------------------------------------
(* libtls: records, and what a call needs next. *)
Record(kind, data) ==
    [kind |-> kind, size |-> Len(data),
     bytes |-> <<[kind |-> kind, size |-> Len(data), byte |-> 0]>>
                \o [k \in 1..Len(data) |-> [kind |-> "more", size |-> 0, byte |-> data[k]]]]
Nothing == [kind |-> "none", size |-> 0, bytes |-> <<>>]

NewTls == [context |-> FALSE, flights |-> 0, out |-> Nothing, in |-> <<>>, plain |-> <<>>,
           ended |-> FALSE, call |-> "none"]

Complete(s) == s.flights = 3
MyTurn(ep, s) == IF ep = "client" THEN s.flights \in {0, 2} ELSE s.flights = 1

(* The record to write next: the one that was begun, a flight, the data of *)
(* send(), the alert of close().  Data that is left from a send() is only  *)
(* written by the next send(), which the application gives the same bytes. *)
Offered == IF TlsData - accepted < SendSize THEN TlsData - accepted ELSE SendSize
DataSize == IF Offered < MaxRecord THEN Offered ELSE MaxRecord
ToWrite(ep) ==
    LET s == tls[ep] IN
    CASE s.out.kind = "flight" -> s.out
      [] s.out.kind # "flight" /\ ~Complete(s) ->
            IF MyTurn(ep, s) THEN Record("flight", <<0>>) ELSE Nothing
      [] Complete(s) /\ s.call = "send" ->
            IF s.out = Nothing THEN Record("data", [k \in 1..DataSize |-> accepted + k]) ELSE s.out
      [] Complete(s) /\ s.call = "close" ->
            IF s.out = Nothing THEN Record("alert", <<0>>) ELSE s.out
      [] OTHER -> Nothing

NeedsRead(ep) ==
    LET s == tls[ep] IN
    /\ ToWrite(ep) = Nothing
    /\ ~Complete(s) \/ (s.call = "recv" /\ s.plain = <<>> /\ ~s.ended)

Room(ep) == WireRoom - Len(wire[Opposite(ep)])

TlsInit ==
    /\ tls = [ep \in Sides |-> NewTls]
    /\ wire = [ep \in Sides |-> <<>>]
    /\ nonblocking \in [Sides -> BOOLEAN]
    /\ reply = [ep \in Sides |-> "none"]
    /\ accepted = 0 /\ received = <<>>

-----------------------------------------------------------------------------
(* The application: connect() or listen(), handshake() until it is         *)
(* complete, then send() with what is left to send, or recv().  It may     *)
(* also call those early, and gives up after an exception that is not due  *)
(* to that.                                                                *)
Begins(ep, call) ==
    /\ tls[ep].call = "none" /\ reply[ep] \notin {"error", "closed"}
    /\ tls' = [tls EXCEPT ![ep].call = call]
    /\ UNCHANGED <<wire, nonblocking, reply, accepted, received>>

TlsConnect(ep) ==
    /\ ~tls[ep].context
    /\ tls' = [tls EXCEPT ![ep].context = TRUE]
    /\ UNCHANGED <<wire, nonblocking, reply, accepted, received>>

(* handshake() without a context returns false. *)
TlsHandshake(ep) ==
    \/ /\ ~tls[ep].context /\ tls[ep].call = "none"
       /\ reply' = [reply EXCEPT ![ep] = "false"]
       /\ UNCHANGED <<tls, wire, nonblocking, accepted, received>>
    \/ tls[ep].context /\ ~Complete(tls[ep]) /\ Begins(ep, "handshake")

TlsSend(ep) == ep = "client" /\ tls[ep].context /\ accepted < TlsData /\ Begins(ep, "send")
TlsRecv(ep) == ep = "server" /\ tls[ep].context /\ Begins(ep, "recv")
TlsClose(ep) ==
    ep = "client" /\ Complete(tls[ep]) /\ accepted = TlsData /\ Begins(ep, "close")

-----------------------------------------------------------------------------
(* How a call ends when libtls wants to poll: handshake() is false, send() *)
(* gives -3 for POLLOUT and recv() -2 for POLLIN, everything else throws;  *)
(* close() ignores the result.                                             *)
Returned(ep, want) ==
    LET s == tls[ep] IN
    CASE s.call = "handshake" -> "false"
      [] s.call = "close" -> "closed"
      [] s.call = "send" /\ want = "POLLOUT" -> "-3"
      [] s.call = "recv" /\ want = "POLLIN" -> "-2"
      [] OTHER -> IF Complete(s) THEN "error" ELSE "early"

(* Mutant: every failure of the channel is an error to libtls. *)
WriteCbFails(sent) == IF sent >= 0 THEN "ok" ELSE "-1"

(* write_cb(), read_cb(): what the channel's result means to libtls. *)
WriteCb(sent) == IF sent >= 0 THEN "ok" ELSE IF sent = -3 THEN "POLLOUT" ELSE "-1"
ReadCb(recvd) == IF recvd >= 0 THEN "ok" ELSE IF recvd = -2 THEN "POLLIN" ELSE "-1"

(* Mutant: send() says it took all it was given. *)
SendResultAll(res) == Offered

(* send() returns what tls_write() took, which is one record at most. *)
SendResult(res) == res

(* The channel takes k bytes of a record; with the last one a flight is    *)
(* done, send() returns the size of the record, close() returns.           *)
TlsWrite(ep) ==
    LET record == ToWrite(ep) IN
    /\ tls[ep].call # "none" /\ record # Nothing
    /\ \E k \in 1..Len(record.bytes) :
        LET last == k = Len(record.bytes)
            returns == last /\ record.kind # "flight"
        IN /\ k <= Room(ep)
           /\ wire' = [wire EXCEPT ![Opposite(ep)] = @ \o SubSeq(record.bytes, 1, k)]
           /\ tls' = [tls EXCEPT
                ![ep].out = IF last THEN Nothing
                            ELSE [record EXCEPT !.bytes = SubSeq(@, k + 1, Len(@))],
                ![ep].flights = IF last /\ record.kind = "flight" THEN @ + 1 ELSE @,
                ![ep].call = IF returns THEN "none" ELSE @]
           /\ accepted' = IF returns /\ record.kind = "data"
                          THEN accepted + SendResult(record.size) ELSE accepted
           /\ reply' = IF ~returns THEN reply
                       ELSE [reply EXCEPT ![ep] = IF record.kind = "data" THEN "ok" ELSE "closed"]
    /\ UNCHANGED <<nonblocking, received>>

(* The channel is full: a non-blocking one gives -3, another waits. *)
TlsWriteBlocks(ep) ==
    /\ tls[ep].call # "none" /\ ToWrite(ep) # Nothing
    /\ Room(ep) = 0 /\ nonblocking[ep]
    /\ tls' = [tls EXCEPT ![ep].out = ToWrite(ep), ![ep].call = "none"]
    /\ reply' = [reply EXCEPT ![ep] = Returned(ep, WriteCb(-3))]
    /\ UNCHANGED <<wire, nonblocking, accepted, received>>

(* libtls reads the start of a record and then no further than its end.    *)
TlsRead(ep) ==
    LET s == tls[ep]
        need == IF s.in = <<>> THEN 1 ELSE 1 + s.in[1].size - Len(s.in)
    IN /\ s.call # "none" /\ NeedsRead(ep)
       /\ \E k \in 1..need :
            /\ k <= Len(wire[ep])
            /\ wire' = [wire EXCEPT ![ep] = SubSeq(@, k + 1, Len(@))]
            /\ LET got == s.in \o SubSeq(wire[ep], 1, k)
                   whole == Len(got) = 1 + got[1].size
                   data == [n \in 1..got[1].size |-> got[n + 1].byte]
               IN tls' = [tls EXCEPT
                    ![ep].in = IF whole THEN <<>> ELSE got,
                    ![ep].flights = IF whole /\ got[1].kind = "flight" THEN @ + 1 ELSE @,
                    ![ep].plain = IF whole /\ got[1].kind = "data" THEN data ELSE @,
                    ![ep].ended = @ \/ (whole /\ got[1].kind = "alert")]
       /\ UNCHANGED <<nonblocking, reply, accepted, received>>

TlsReadBlocks(ep) ==
    /\ tls[ep].call # "none" /\ NeedsRead(ep)
    /\ wire[ep] = <<>> /\ nonblocking[ep]
    /\ tls' = [tls EXCEPT ![ep].call = "none"]
    /\ reply' = [reply EXCEPT ![ep] = Returned(ep, ReadCb(-2))]
    /\ UNCHANGED <<wire, nonblocking, accepted, received>>

(* handshake() is true; recv() gives data, or 0 at the end. *)
TlsReturns(ep) ==
    LET s == tls[ep]
        k == IF Len(s.plain) < RecvSize THEN Len(s.plain) ELSE RecvSize
    IN /\ Complete(s) /\ s.out.kind # "flight"
       /\ \/ /\ s.call = "handshake"
             /\ tls' = [tls EXCEPT ![ep].call = "none"]
             /\ reply' = [reply EXCEPT ![ep] = "true"]
             /\ UNCHANGED received
          \/ /\ s.call = "recv" /\ (s.plain # <<>> \/ s.ended)
             /\ tls' = [tls EXCEPT ![ep].call = "none", ![ep].plain = SubSeq(@, k + 1, Len(@))]
             /\ reply' = [reply EXCEPT ![ep] = IF k > 0 THEN "ok" ELSE "closed"]
             /\ received' = received \o SubSeq(s.plain, 1, k)
    /\ UNCHANGED <<wire, nonblocking, accepted>>

TlsStep(ep) ==
    \/ TlsConnect(ep) \/ TlsHandshake(ep) \/ TlsSend(ep) \/ TlsRecv(ep) \/ TlsClose(ep)
    \/ TlsWrite(ep) \/ TlsWriteBlocks(ep) \/ TlsRead(ep) \/ TlsReadBlocks(ep) \/ TlsReturns(ep)

-----------------------------------------------------------------------------
(* The data bytes in what libtls reads or writes. *)
DataIn(bytes) ==
    LET data[n \in 0..Len(bytes)] ==
            IF n = 0 THEN <<>>
            ELSE IF bytes[n].kind = "more" /\ bytes[n].byte > 0
                 THEN Append(data[n - 1], bytes[n].byte)
                 ELSE data[n - 1]
    IN data[Len(bytes)]

(* Every byte that send() took is received, on its way or kept by libtls,  *)
(* in order and once; besides those there is only the record that send()   *)
(* answered with -3, whose bytes the application still has to send.  recv()*)
(* gives 0 only when everything was received.                              *)
TlsKeepsBytes ==
    LET rest == tls["client"].out
        begun == IF rest.kind = "data" THEN rest.size ELSE 0
    IN /\ received \o tls["server"].plain \o DataIn(tls["server"].in \o wire["server"] \o rest.bytes)
            = [k \in 1..(accepted + begun) |-> k]
       /\ reply["server"] = "closed" => Len(received) = accepted
=============================================================================
