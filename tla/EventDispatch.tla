---------------------------- MODULE EventDispatch ----------------------------
(***************************************************************************)
(* A worker's loop of ez::event_loop (process_events and process_fd of     *)
(* source/epoll.cpp or of source/kqueue.cpp, the variable os says which),  *)
(* the non-blocking ez::sockets registered with it (source/socket.cpp:     *)
(* recv, send, close) and the application's callback.                      *)
(*                                                                         *)
(* An event names a descriptor number, the flags are those at the time of  *)
(* the wait (epoll: one event per descriptor, kqueue: one per filter), and *)
(* registrations are edge triggered: an event is due again only after      *)
(* something new happened.  Another thread accepts connections and         *)
(* registers them, so a number is reused as soon as it is closed.          *)
(*                                                                         *)
(* The application keeps a table from descriptors to its connections.  Its *)
(* callback reads until recv() returns -2, 0 or throws, answers what it    *)
(* reads, resumes the answer on a write event, and closes and forgets the  *)
(* connection on a closed or error event.  Where recv() or send() returns  *)
(* 0 it leaves that to the event (socket.cpp:305 and 243).                 *)
(***************************************************************************)
EXTENDS Integers, Sequences, FiniteSets

CONSTANTS
    Conns,      \* connections that peers may open
    Fds,        \* descriptor numbers
    None,       \* no descriptor, no connection
    MaxBytes    \* bound: bytes that the peers send

ASSUME NoneAssumption == None \notin Conns /\ None \notin Fds
ASSUME MaxBytesAssumption == MaxBytes \in Nat

VARIABLES
    os,         \* "epoll" or "kqueue"
    conn,       \* "new", "open", "quiet": recv() met the end, or send() a
                \* reset, and closed the socket, "reported": ended by a closed
                \* or error event
    fd,         \* m_fd of the connection's socket
    table,      \* the application's table
    inq, left,  \* bytes arrived and not received; bytes the peers may send
    fin, err,   \* the peer closed; the kernel has an error to report
    room, out,  \* the kernel takes bytes; an answer waits to be sent
    ready,      \* connections with an event due, and the filter it is for
    batch,      \* the events of the last wait still to process
    event,      \* the one being processed
    todo,       \* the callbacks it still causes
    misled      \* kinds of callback that found another connection in the
                \* table than the one the event was about

kernel == <<left, fin, err, room>>
vars == <<os, conn, fd, table, inq, out, kernel, ready, batch, event, todo, misled>>

NoEvent == [fd |-> None, conn |-> None, flags |-> {}]
Kinds == {"closed", "error", "read", "write"}
Filters == {"in", "out"}

Init ==
    /\ os \in {"epoll", "kqueue"}
    /\ conn = [c \in Conns |-> "new"]
    /\ fd = [c \in Conns |-> None]
    /\ table = [f \in Fds |-> None]
    /\ inq = [c \in Conns |-> 0] /\ left = MaxBytes
    /\ fin = [c \in Conns |-> FALSE] /\ err = [c \in Conns |-> FALSE]
    /\ room = [c \in Conns |-> TRUE] /\ out = [c \in Conns |-> FALSE]
    /\ ready = {} /\ batch = {} /\ event = NoEvent /\ todo = <<>>
    /\ misled = {}

Open(c) == conn[c] = "open"
FreeFds == {f \in Fds : \A c \in Conns : fd[c] # f}

(* Mutants: readable, or writable, sockets are not asked for. *)
InterestNoIn == {"out", "rdhup"}
InterestNoOut == {"in", "rdhup"}

(* epoll_add(), kqueue_add(): what is asked for; errors are reported in    *)
(* any case.                                                               *)
Interest == {"in", "out", "rdhup"}

(* epoll has one entry per descriptor, kqueue one per filter; the end of   *)
(* the stream belongs to the read filter, an error to both.                *)
FiltersOf(flag) ==
    CASE os = "epoll" -> {"in"}
      [] os = "kqueue" /\ flag = "err" -> Filters
      [] os = "kqueue" /\ flag = "rdhup" -> {"in"}
      [] OTHER -> {flag}

Due(c, flag) ==
    IF flag \in Interest \cup {"err"} THEN ready \cup ({c} \X FiltersOf(flag)) ELSE ready

-----------------------------------------------------------------------------
(* Another thread: accept(), set_nonblocking(true), add_fd(fd, worker).    *)
(* A new registration is due at once, the socket is writable.              *)
AddFd(c) ==
    /\ conn[c] = "new"
    /\ \E f \in FreeFds :
        /\ fd' = [fd EXCEPT ![c] = f]
        /\ table' = [table EXCEPT ![f] = c]
    /\ conn' = [conn EXCEPT ![c] = "open"]
    /\ ready' = Due(c, "out")
    /\ UNCHANGED <<os, inq, out, kernel, batch, event, todo, misled>>

(* The peer and the network. *)
PeerSends(c) ==
    /\ Open(c) /\ left > 0 /\ ~fin[c]
    /\ inq' = [inq EXCEPT ![c] = @ + 1]
    /\ left' = left - 1
    /\ ready' = Due(c, "in")
    /\ UNCHANGED <<os, conn, fd, table, out, fin, err, room, batch, event, todo, misled>>

PeerCloses(c) ==
    /\ Open(c) /\ ~fin[c]
    /\ fin' = [fin EXCEPT ![c] = TRUE]
    /\ ready' = Due(c, "rdhup")
    /\ UNCHANGED <<os, conn, fd, table, inq, out, left, err, room, batch, event, todo, misled>>

Fault(c) ==
    /\ Open(c) /\ ~err[c]
    /\ err' = [err EXCEPT ![c] = TRUE]
    /\ ready' = Due(c, "err")
    /\ UNCHANGED <<os, conn, fd, table, inq, out, left, fin, room, batch, event, todo, misled>>

RoomAgain(c) ==
    /\ Open(c) /\ ~room[c]
    /\ room' = [room EXCEPT ![c] = TRUE]
    /\ ready' = Due(c, "out")
    /\ UNCHANGED <<os, conn, fd, table, inq, out, left, fin, err, batch, event, todo, misled>>

-----------------------------------------------------------------------------
(* epoll_wait(): every event due, with the flags of this moment. *)
FlagsOf(c) ==
    {flag \in Interest \cup {"err"} :
        \/ flag = "in" /\ (inq[c] > 0 \/ fin[c])
        \/ flag = "out" /\ room[c]
        \/ flag = "rdhup" /\ fin[c]
        \/ flag = "err" /\ err[c]}

EpollWait ==
    /\ os = "epoll"
    /\ batch = {} /\ todo = <<>> /\ ready # {}
    /\ batch' = {[fd |-> fd[r[1]], conn |-> r[1], flags |-> FlagsOf(r[1])] : r \in ready}
    /\ ready' = {}
    /\ UNCHANGED <<os, conn, fd, table, inq, out, kernel, event, todo, misled>>

(* kevent(): an event for every filter that is due and still true. *)
Holds(c, filter) ==
    \/ err[c]
    \/ filter = "in" /\ (inq[c] > 0 \/ fin[c])
    \/ filter = "out" /\ room[c]

KqFlags(c, filter) ==
    {filter} \cup (IF err[c] \/ (filter = "in" /\ fin[c]) THEN {"eof"} ELSE {})

KeventWait ==
    /\ os = "kqueue"
    /\ batch = {} /\ todo = <<>> /\ ready # {}
    /\ batch' = {[fd |-> fd[r[1]], conn |-> r[1], flags |-> KqFlags(r[1], r[2])] :
                    r \in {d \in ready : Holds(d[1], d[2])}}
    /\ ready' = {}
    /\ UNCHANGED <<os, conn, fd, table, inq, out, kernel, event, todo, misled>>

(* Mutant: the `return's are missing. *)
CallbacksNoReturn(flags) ==
    (IF "rdhup" \in flags THEN <<"closed">> ELSE <<>>)
    \o (IF "err" \in flags THEN <<"error">> ELSE <<>>)
    \o (IF "in" \in flags THEN <<"read">> ELSE <<>>)
    \o (IF "out" \in flags THEN <<"write">> ELSE <<>>)

(* process_fd(): the end of the stream hides everything else, data that    *)
(* arrived before it included; an error hides data and room.               *)
Callbacks(flags) ==
    CASE "rdhup" \in flags -> <<"closed">>
      [] "rdhup" \notin flags /\ "err" \in flags -> <<"error">>
      [] OTHER -> (IF "in" \in flags THEN <<"read">> ELSE <<>>)
                  \o (IF "out" \in flags THEN <<"write">> ELSE <<>>)

(* Mutant: the end first, as in epoll.cpp. *)
KqCallbacksEndFirst(flags) ==
    IF "eof" \in flags THEN <<"closed">>
    ELSE IF "in" \in flags THEN <<"read">> ELSE <<"write">>

(* process_fd() of kqueue.cpp: the filter's callback, then that of the     *)
(* end.  EV_ERROR marks a failed registration; no wait returns it.         *)
KqCallbacks(flags) ==
    (IF "in" \in flags THEN <<"read">> ELSE <<"write">>)
    \o (IF "eof" \in flags THEN <<"closed">> ELSE <<>>)

(* One round of the loop over the events, then the callbacks. *)
ProcessFd ==
    /\ todo = <<>>
    /\ \E ev \in batch :
        /\ batch' = batch \ {ev}
        /\ event' = ev
        /\ todo' = IF os = "epoll" THEN Callbacks(ev.flags) ELSE KqCallbacks(ev.flags)
    /\ UNCHANGED <<os, conn, fd, table, inq, out, kernel, ready, misled>>

-----------------------------------------------------------------------------
(* The callbacks.  The application finds its connection by the number.     *)
Found == table[event.fd]
Called(kind) == todo # <<>> /\ Head(todo) = kind
Returns ==
    /\ todo' = Tail(todo)
    /\ event' = IF Len(todo) = 1 THEN NoEvent ELSE event
Finds(kind) ==
    misled' = IF Found \in Conns /\ Found # event.conn THEN misled \cup {kind} ELSE misled

(* socket::close(): the epoll or kqueue forgets the descriptor, and the    *)
(* kernel's buffer is gone with the answer that waited for it.             *)
Closed(c, how) ==
    /\ room' = [room EXCEPT ![c] = FALSE]
    /\ out' = [out EXCEPT ![c] = FALSE]
    /\ conn' = [conn EXCEPT ![c] = how]
    /\ fd' = [fd EXCEPT ![c] = None]
    /\ ready' = ready \ ({c} \X Filters)

OnEnd(kind) ==
    /\ Called(kind)
    /\ Finds(kind)
    /\ Returns
    /\ IF Found = None THEN UNCHANGED <<conn, fd, ready, table, room, out>>
       ELSE /\ Closed(Found, "reported")
            /\ table' = [table EXCEPT ![event.fd] = None]
    /\ UNCHANGED <<os, inq, left, fin, err, batch>>

OnClosed == OnEnd("closed")
OnError == OnEnd("error")

HasByte == Found # None /\ Open(Found) /\ ~err[Found] /\ inq[Found] > 0

(* Mutant: the application reads once and returns. *)
ReadByteOnce ==
    /\ Called("read") /\ HasByte
    /\ Finds("read")
    /\ Returns
    /\ inq' = [inq EXCEPT ![Found] = @ - 1]
    /\ UNCHANGED <<os, conn, fd, table, out, kernel, ready, batch>>

(* One recv() that returns a byte, and a send() of an answer, unless an    *)
(* earlier one waits: the kernel takes it, or takes a part of it and is    *)
(* full, or refuses it (-3).  The callback goes on.                        *)
ReadByte ==
    /\ Called("read") /\ HasByte
    /\ Finds("read")
    /\ inq' = [inq EXCEPT ![Found] = @ - 1]
    /\ \/ (out[Found] \/ room[Found]) /\ UNCHANGED <<room, out>>
       \/ /\ ~out[Found]
          /\ room' = [room EXCEPT ![Found] = FALSE]
          /\ out' = [out EXCEPT ![Found] = TRUE]
    /\ UNCHANGED <<os, conn, fd, table, left, fin, err, ready, batch, event, todo>>

(* The peer resets the connection between that recv() and the send(),      *)
(* which finds it reset, closes the socket and returns 0.                  *)
ReadResets ==
    /\ Called("read") /\ HasByte /\ ~out[Found]
    /\ Finds("read")
    /\ Returns
    /\ inq' = [inq EXCEPT ![Found] = @ - 1]
    /\ err' = [err EXCEPT ![Found] = TRUE]
    /\ Closed(Found, "quiet")
    /\ UNCHANGED <<os, table, left, fin, batch>>

(* recv() returns -2, or throws because of an error or a closed socket. *)
ReadStops ==
    /\ Called("read")
    /\ Found # None /\ Open(Found) => err[Found] \/ (inq[Found] = 0 /\ ~fin[Found])
    /\ Finds("read")
    /\ Returns
    /\ UNCHANGED <<os, conn, fd, table, inq, out, kernel, ready, batch>>

(* recv() returns 0: it has closed the socket. *)
ReadEnds ==
    /\ Called("read")
    /\ Found # None /\ Open(Found) /\ ~err[Found] /\ inq[Found] = 0 /\ fin[Found]
    /\ Finds("read")
    /\ Returns
    /\ Closed(Found, "quiet")
    /\ UNCHANGED <<os, table, inq, left, fin, err, batch>>

(* send() of what is left, if anything is.  The kernel takes all of it, or *)
(* a part, or nothing, or the call throws because of an error.             *)
OnWrite ==
    /\ Called("write")
    /\ Finds("write")
    /\ Returns
    /\ IF Found # None /\ Open(Found) /\ out[Found] /\ room[Found] /\ ~err[Found]
       THEN \/ out' = [out EXCEPT ![Found] = FALSE] /\ UNCHANGED room
            \/ room' = [room EXCEPT ![Found] = FALSE] /\ UNCHANGED out
       ELSE UNCHANGED <<out, room>>
    /\ UNCHANGED <<os, conn, fd, table, inq, left, fin, err, ready, batch>>

(* The error is a reset: send() closes the socket and returns 0. *)
WriteResets ==
    /\ Called("write")
    /\ Found # None /\ Open(Found) /\ out[Found] /\ err[Found]
    /\ Finds("write")
    /\ Returns
    /\ Closed(Found, "quiet")
    /\ UNCHANGED <<os, table, inq, left, fin, err, batch>>

Callback ==
    \/ OnClosed \/ OnError
    \/ ReadByte \/ ReadResets \/ ReadStops \/ ReadEnds
    \/ OnWrite \/ WriteResets

Next ==
    \/ \E c \in Conns : AddFd(c) \/ PeerSends(c) \/ PeerCloses(c) \/ Fault(c) \/ RoomAgain(c)
    \/ EpollWait \/ KeventWait \/ ProcessFd \/ Callback

(* The worker thread runs and the network drains what was sent.  It takes  *)
(* a whole answer in the end.                                              *)
Fairness ==
    /\ WF_vars(EpollWait \/ KeventWait) /\ WF_vars(ProcessFd) /\ WF_vars(Callback)
    /\ \A c \in Conns :
        /\ WF_vars(RoomAgain(c))
        /\ SF_vars(OnWrite /\ Found = c /\ ~out'[c])

Spec == Init /\ [][Next]_vars
FairSpec == Spec /\ Fairness

-----------------------------------------------------------------------------
(* Descriptor numbers are reused while a batch is processed, yet with      *)
(* epoll every closed, error and read callback reaches the connection its  *)
(* event was about; only the write callback behind a read that closed the  *)
(* socket can reach another.  With kqueue the closed callback comes behind *)
(* the read too, and a read callback misses only once there was an error.  *)
CallbacksReachTheirConnection ==
    misled \subseteq
        CASE os = "epoll" -> {"write"}
          [] os = "kqueue" /\ (\A c \in Conns : ~err[c]) -> {"write", "closed"}
          [] OTHER -> Kinds

(* With kqueue the end of the stream hides no data: whatever a peer sent   *)
(* before it closed has been read when the closed callback ends the        *)
(* connection, unless there was an error or the callback was misled.       *)
EndFollowsData ==
    \A c \in Conns :
        os = "kqueue" /\ conn[c] = "reported" /\ "closed" \notin misled
            => inq[c] = 0 \/ err[c]

(* No wake-up is lost: what arrived on an open connection is read, or the  *)
(* connection ends.                                                        *)
DataIsRead == \A c \in Conns : (Open(c) /\ inq[c] > 0) ~> (inq[c] = 0 \/ ~Open(c))

(* An answer that did not fit is resumed and completed, or the connection  *)
(* ends.                                                                   *)
AnswersAreSent == \A c \in Conns : (Open(c) /\ out[c]) ~> (~out[c] \/ ~Open(c))

(* "event_loop will report about close" (socket.cpp:305): a connection     *)
(* whose recv() or send() returned 0 gets a closed event.                  *)
CloseIsReported == \A c \in Conns : (conn[c] = "quiet") ~> (conn[c] = "reported")
=============================================================================
