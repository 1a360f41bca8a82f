------------------------ MODULE EventDispatchProofs ------------------------
(***************************************************************************)
(* Events and the connections they are for (process_events and process_fd  *)
(* of epoll.cpp and kqueue.cpp), for every set of connections and of       *)
(* descriptor numbers and every amount of data.                            *)
(***************************************************************************)
EXTENDS EventDispatch, SequenceTheorems, TLAPS

Event == [fd : Fds, conn : Conns, flags : SUBSET {"in", "out", "rdhup", "err", "eof"}]

(* What process_fd() of each file may still have to call. *)
EpollTodos == {<<>>, <<"closed">>, <<"error">>, <<"read">>, <<"write">>, <<"read", "write">>}
KqTodos == {<<>>, <<"closed">>, <<"read">>, <<"write">>, <<"read", "closed">>,
            <<"write", "closed">>}

TypeOK ==
    /\ os \in {"epoll", "kqueue"}
    /\ conn \in [Conns -> {"new", "open", "quiet", "reported"}]
    /\ fd \in [Conns -> Fds \cup {None}]
    /\ table \in [Fds -> Conns \cup {None}]
    /\ inq \in [Conns -> Nat] /\ left \in Nat
    /\ fin \in [Conns -> BOOLEAN] /\ err \in [Conns -> BOOLEAN]
    /\ ready \subseteq Conns \X Filters
    /\ batch \subseteq Event
    /\ todo \in IF os = "epoll" THEN EpollTodos ELSE KqTodos
    /\ todo # <<>> => event \in Event
    /\ misled \subseteq Kinds

-----------------------------------------------------------------------------
(* The table leads from the number of an open socket to its connection; a  *)
(* connection that recv() closed stays in it, at one place, until it is    *)
(* reported or its number is taken.                                        *)
TableRight ==
    /\ \A c \in Conns : IF Open(c) THEN fd[c] \in Fds /\ table[fd[c]] = c ELSE fd[c] = None
    /\ \A f \in Fds : table[f] # None => conn[table[f]] \in {"open", "quiet"}
    /\ \A f, g \in Fds : table[f] # None /\ table[f] = table[g] => f = g

(* Only open sockets have an event due; epoll has one entry for each. *)
ReadyOpen ==
    \A c \in Conns, k \in Filters : <<c, k>> \in ready => Open(c) /\ (os = "epoll" => k = "in")

(* An end that kqueue reports is the peer's or an error's. *)
BatchKnown ==
    /\ \A ev \in batch : conn[ev.conn] # "new"
    /\ os = "kqueue" => \A ev \in batch :
           "eof" \in ev.flags => err[ev.conn] \/ ("in" \in ev.flags /\ fin[ev.conn])

(* Why a callback of the end is pending, and that nothing is left to read  *)
(* once the read callback before it has returned.                          *)
CallsKnown ==
    /\ todo # <<>> => conn[event.conn] # "new"
    /\ os = "kqueue" /\ todo \in {<<"read", "closed">>, <<"closed">>}
           => fin[event.conn] \/ err[event.conn]
    /\ os = "kqueue" /\ todo = <<"write", "closed">> => err[event.conn]
    /\ os = "kqueue" /\ todo = <<"closed">> /\ table[event.fd] = event.conn
           => inq[event.conn] = 0 \/ err[event.conn]

(* recv() returns 0 when everything has been read, send() after an error. *)
QuietRead == \A c \in Conns : conn[c] = "quiet" => inq[c] = 0 \/ err[c]

(* The event's descriptor still is its connection's. *)
Live(ev) == fd[ev.conn] = ev.fd

(* epoll has one event per connection in a batch, kqueue one per filter.   *)
(* With kqueue the ones that matter are those of the read filter.          *)
Main(ev) == os = "epoll" \/ "in" \in ev.flags

(* The callback that comes first for such an event, and all of them. *)
FirstCall ==
    todo # <<>> /\ Head(todo) \in IF os = "epoll" THEN {"read", "error", "closed"} ELSE {"read"}
MainCall == todo # <<>> /\ (os = "epoll" \/ Head(todo) \in {"read", "closed"})

(* As long as kqueue has met no error, a connection is closed only by      *)
(* callbacks of its own main event, so the others in the batch are live.   *)
Calm == os = "epoll" \/ \A c \in Conns : ~err[c]

AllLive ==
    /\ \A ev \in batch : Main(ev) => Live(ev)
    /\ \A e1, e2 \in batch : Main(e1) /\ Main(e2) /\ e1.conn = e2.conn => e1 = e2
    /\ FirstCall => Live(event)
    /\ MainCall => \A ev \in batch : Main(ev) => ev.fd # event.fd

EventsLive == Calm => AllLive

DispatchInv ==
    /\ TypeOK /\ TableRight /\ ReadyOpen /\ BatchKnown /\ CallsKnown /\ QuietRead
    /\ EventsLive
    /\ CallbacksReachTheirConnection /\ EndFollowsData

-----------------------------------------------------------------------------
(* Sequences of one and of two callbacks. *)
LEMMA Single ==
    ASSUME NEW a
    PROVE  <<a>> # <<>> /\ Head(<<a>>) = a /\ Tail(<<a>>) = <<>> /\ Len(<<a>>) = 1
  OBVIOUS

(* The callbacks of a pair. *)
LEMMA Pair ==
    ASSUME NEW a, NEW b
    PROVE  /\ <<a, b>> # <<>> /\ Head(<<a, b>>) = a /\ Tail(<<a, b>>) = <<b>>
           /\ Len(<<a, b>>) = 2
           /\ \A c : <<a, b>> # <<c>>
           /\ \A c, d : <<a, b>> = <<c, d>> => a = c /\ b = d
  OBVIOUS

(* One callback behind another. *)
LEMMA SingleThenSingle ==
    ASSUME NEW S, NEW a \in S, NEW b \in S
    PROVE  <<a>> \o <<b>> = <<a, b>>
<1>1. <<a>> \in Seq(S)
  OBVIOUS
<1>2. Append(<<a>>, b) = <<a>> \o <<b>>
  BY <1>1, AppendIsConcat
<1>3. <<a, b>> \in Seq(S) /\ Len(<<a, b>>) = 2 /\ <<a, b>>[1] = a /\ <<a, b>>[2] = b
  OBVIOUS
<1>4. /\ Append(<<a>>, b) \in Seq(S) /\ Len(Append(<<a>>, b)) = 2
      /\ Append(<<a>>, b)[1] = a /\ Append(<<a>>, b)[2] = b
  BY <1>1, AppendProperties
<1>5. \A n \in 1..2 : Append(<<a>>, b)[n] = <<a, b>>[n]
  BY <1>3, <1>4
<1>6. Append(<<a>>, b) = <<a, b>>
  BY <1>3, <1>4, <1>5, SeqEqual
<1>7. QED
  BY <1>2, <1>6

(* What process_fd() calls, in epoll.cpp and in kqueue.cpp. *)
LEMMA CallbacksTyped ==
    ASSUME NEW flags
    PROVE  Callbacks(flags) \in EpollTodos
<1> DEFINE R == IF "in" \in flags THEN <<"read">> ELSE <<>>
           W == IF "out" \in flags THEN <<"write">> ELSE <<>>
<1>1. <<"read">> \o <<"write">> = <<"read", "write">>
  BY SingleThenSingle, "read" \in Kinds, "write" \in Kinds DEF Kinds
<1>2. /\ <<"read">> \o <<>> = <<"read">> /\ <<>> \o <<"write">> = <<"write">>
      /\ <<>> \o <<>> = <<>>
  OBVIOUS
<1>3. R \o W \in EpollTodos
  BY <1>1, <1>2 DEF EpollTodos
<1>4. QED
  BY <1>3 DEF Callbacks, EpollTodos

(* The callbacks kqueue.cpp makes of an event. *)
LEMMA KqCallbacksAre ==
    ASSUME NEW flags
    PROVE  KqCallbacks(flags) =
             IF "in" \in flags
             THEN IF "eof" \in flags THEN <<"read", "closed">> ELSE <<"read">>
             ELSE IF "eof" \in flags THEN <<"write", "closed">> ELSE <<"write">>
<1>1. /\ <<"read">> \o <<"closed">> = <<"read", "closed">>
      /\ <<"write">> \o <<"closed">> = <<"write", "closed">>
  BY SingleThenSingle, "read" \in Kinds, "write" \in Kinds, "closed" \in Kinds DEF Kinds
<1>2. <<"read">> \o <<>> = <<"read">> /\ <<"write">> \o <<>> = <<"write">>
  OBVIOUS
<1>3. QED
  BY <1>1, <1>2 DEF KqCallbacks

(* A callback has returned: what is left of its event. *)
LEMMA AfterReturn ==
    ASSUME TypeOK, NEW k, Called(k), Returns
    PROVE  /\ todo' \in {<<>>, <<"write">>, <<"closed">>}
           /\ todo' # <<>> => event' = event
           /\ todo' = <<"write">> => os = "epoll"
           /\ todo' = <<"closed">> => /\ os = "kqueue"
                                      /\ \/ k = "read" /\ todo = <<"read", "closed">>
                                         \/ k = "write" /\ todo = <<"write", "closed">>
<1>1. CASE todo \in {<<"closed">>, <<"error">>, <<"read">>, <<"write">>}
  BY <1>1, Single DEF Called, Returns
<1>2. CASE todo = <<"read", "write">>
  <2>1. todo' = <<"write">> /\ event' = event
    BY <1>2, Pair DEF Called, Returns
  <2>2. todo \notin KqTodos
    BY <1>2, Pair DEF KqTodos
  <2>3. os = "epoll"
    BY <2>2 DEF TypeOK
  <2>4. QED
    BY <2>1, <2>3, Single
<1>3. CASE todo \in {<<"read", "closed">>, <<"write", "closed">>}
  <2>1. PICK a : todo = <<a, "closed">> /\ a \in {"read", "write"}
    BY <1>3
  <2>2. todo' = <<"closed">> /\ event' = event /\ k = a
    BY <2>1, Pair DEF Called, Returns
  <2>3. todo \notin EpollTodos
    BY <2>1, Pair DEF EpollTodos
  <2>4. os = "kqueue"
    BY <2>3 DEF TypeOK
  <2>5. QED
    BY <2>1, <2>2, <2>4, Single
<1>4. QED
  BY <1>1, <1>2, <1>3 DEF TypeOK, EpollTodos, KqTodos, Called

(* The entries a change of a connection makes due. *)
LEMMA DueKnown ==
    ASSUME TypeOK, NEW c \in Conns, NEW flag \in {"in", "out", "rdhup", "err"}
    PROVE  /\ Due(c, flag) \subseteq Conns \X Filters
           /\ \A d \in Conns, k \in Filters :
                <<d, k>> \in Due(c, flag)
                    => <<d, k>> \in ready \/ (d = c /\ (os = "epoll" => k = "in"))
<1>1. Due(c, flag) \subseteq ready \cup ({c} \X FiltersOf(flag))
  BY DEF Due
<1>2. FiltersOf(flag) \subseteq Filters /\ (os = "epoll" => FiltersOf(flag) = {"in"})
  BY DEF TypeOK, FiltersOf, Filters
<1>3. {c} \X FiltersOf(flag) \subseteq Conns \X Filters
  BY <1>2
<1>4. \A d, k : <<d, k>> \in {c} \X FiltersOf(flag) => d = c /\ k \in FiltersOf(flag)
  OBVIOUS
<1>5. QED
  BY <1>1, <1>2, <1>3, <1>4 DEF TypeOK

-----------------------------------------------------------------------------
USE NoneAssumption, MaxBytesAssumption DEF Open, Live, Main, Calm, kernel

(* A new connection takes a number that nobody has; events of the batch    *)
(* and the table keep what they say of the others.                         *)
LEMMA AddFdStep ==
    ASSUME DispatchInv, NEW c \in Conns, AddFd(c)
    PROVE  DispatchInv'
<1>1. PICK f \in FreeFds : fd' = [fd EXCEPT ![c] = f] /\ table' = [table EXCEPT ![f] = c]
  BY DEF AddFd
<1>2. f \in Fds /\ \A d \in Conns : fd[d] # f
  BY <1>1 DEF FreeFds
<1>3. TypeOK'
  <2>1. ready' \subseteq Conns \X Filters
    BY DueKnown DEF DispatchInv, AddFd
  <2>2. QED
    BY <1>1, <1>2, <2>1 DEF DispatchInv, TypeOK, AddFd
<1>4. TableRight'
  BY <1>1, <1>2 DEF DispatchInv, TypeOK, TableRight, AddFd
<1>5. ReadyOpen'
  <2>1. \A d \in Conns : Open(d)' <=> Open(d) \/ d = c
    BY DEF DispatchInv, TypeOK, AddFd
  <2>2. \A d \in Conns, k \in Filters :
            <<d, k>> \in ready' => <<d, k>> \in ready \/ (d = c /\ (os = "epoll" => k = "in"))
    BY DueKnown DEF DispatchInv, AddFd
  <2>3. QED
    BY <2>1, <2>2 DEF DispatchInv, ReadyOpen, AddFd
<1>6. BatchKnown' /\ QuietRead'
  BY DEF DispatchInv, TypeOK, Event, BatchKnown, QuietRead, AddFd
<1>7. CallsKnown'
  <2>1. ASSUME todo # <<>>
        PROVE  /\ event.conn # c /\ conn'[event.conn] # "new"
               /\ table'[event.fd] = event.conn => table[event.fd] = event.conn
    BY <1>1, <1>2, <2>1 DEF DispatchInv, TypeOK, Event, CallsKnown, AddFd
  <2>2. QED
    BY <2>1, Single, Pair DEF DispatchInv, CallsKnown, AddFd
<1>8. EventsLive'
  BY <1>1, <1>2 DEF DispatchInv, TypeOK, Event, BatchKnown, CallsKnown, EventsLive, AllLive, FirstCall,
                    MainCall, AddFd
<1>9. CallbacksReachTheirConnection' /\ EndFollowsData'
  BY DEF DispatchInv, TypeOK, CallbacksReachTheirConnection, EndFollowsData, AddFd
<1>10. QED
  BY <1>3, <1>4, <1>5, <1>6, <1>7, <1>8, <1>9 DEF DispatchInv

(* The peer and the network change no number.  A peer that has closed      *)
(* sends nothing more, and errors stay.                                    *)
LEMMA PeerStep ==
    ASSUME DispatchInv, NEW c \in Conns, Open(c),
           NEW flag \in {"in", "out", "rdhup", "err"}, ready' = Due(c, flag),
           inq' \in [Conns -> Nat], left' \in Nat,
           fin' \in [Conns -> BOOLEAN], err' \in [Conns -> BOOLEAN],
           \A d \in Conns : inq'[d] = inq[d] \/ (Open(d) /\ ~fin[d]),
           \A d \in Conns : (fin[d] => fin'[d]) /\ (err[d] => err'[d]),
           UNCHANGED <<os, conn, fd, table, batch, event, todo, misled>>
    PROVE  DispatchInv'
<1>1. TypeOK'
  BY DueKnown DEF DispatchInv, TypeOK
<1>2. ReadyOpen'
  BY DueKnown DEF DispatchInv, ReadyOpen
<1>3. TableRight' /\ QuietRead'
  BY DEF DispatchInv, TableRight, QuietRead
<1>4. BatchKnown'
  BY DEF DispatchInv, TypeOK, Event, BatchKnown
<1>5. CallsKnown'
  <2>1. CASE todo = <<>>
    BY <2>1, Single, Pair DEF CallsKnown
  <2>2. CASE todo # <<>>
    <3>1. /\ event.conn \in Conns
          /\ inq'[event.conn] = inq[event.conn] \/ ~fin[event.conn]
          /\ fin[event.conn] => fin'[event.conn]
          /\ err[event.conn] => err'[event.conn]
      BY <2>2 DEF DispatchInv, TypeOK, Event
    <3>2. QED
      BY <3>1 DEF DispatchInv, CallsKnown
  <2>3. QED
    BY <2>1, <2>2
<1>6. EventsLive'
  BY DEF DispatchInv, EventsLive, AllLive, FirstCall, MainCall
<1>7. CallbacksReachTheirConnection'
  BY DEF DispatchInv, TypeOK, CallbacksReachTheirConnection
<1>8. EndFollowsData'
  BY DEF DispatchInv, EndFollowsData
<1>9. QED
  BY <1>1, <1>2, <1>3, <1>4, <1>5, <1>6, <1>7, <1>8 DEF DispatchInv

(* The peers: they change what is ready, no descriptor. *)
LEMMA PeerSteps ==
    ASSUME DispatchInv, NEW c \in Conns,
           PeerSends(c) \/ PeerCloses(c) \/ Fault(c) \/ RoomAgain(c)
    PROVE  DispatchInv'
<1>1. CASE PeerSends(c)
  <2>1. inq' \in [Conns -> Nat] /\ left' \in Nat
    BY <1>1 DEF DispatchInv, TypeOK, PeerSends
  <2>2. \A d \in Conns : inq'[d] = inq[d] \/ (Open(d) /\ ~fin[d])
    BY <1>1 DEF DispatchInv, TypeOK, PeerSends
  <2>3. QED
    BY <1>1, <2>1, <2>2, PeerStep DEF DispatchInv, TypeOK, PeerSends
<1>2. CASE PeerCloses(c)
  BY <1>2, PeerStep DEF DispatchInv, TypeOK, PeerCloses
<1>3. CASE Fault(c)
  BY <1>3, PeerStep DEF DispatchInv, TypeOK, Fault
<1>4. CASE RoomAgain(c)
  BY <1>4, PeerStep DEF DispatchInv, TypeOK, RoomAgain
<1>5. QED
  BY <1>1, <1>2, <1>3, <1>4

-----------------------------------------------------------------------------
(* epoll_wait() and kevent(): every event is for an open connection and    *)
(* its own number, one for each connection or one for each filter.         *)
LEMMA WaitStep ==
    ASSUME DispatchInv, todo = <<>>,
           batch' \subseteq Event,
           \A ev \in batch' : Open(ev.conn) /\ Live(ev),
           \A e1, e2 \in batch' : Main(e1) /\ Main(e2) /\ e1.conn = e2.conn => e1 = e2,
           os = "kqueue" => \A ev \in batch' :
               "eof" \in ev.flags => err[ev.conn] \/ ("in" \in ev.flags /\ fin[ev.conn]),
           ready' = {},
           UNCHANGED <<os, conn, fd, table, inq, out, kernel, event, todo, misled>>
    PROVE  DispatchInv'
<1>1. TypeOK' /\ TableRight' /\ ReadyOpen' /\ QuietRead'
  BY DEF DispatchInv, TypeOK, TableRight, ReadyOpen, QuietRead
<1>2. BatchKnown' /\ CallsKnown'
  BY Single, Pair DEF DispatchInv, BatchKnown, CallsKnown
<1>3. EventsLive'
  BY DEF EventsLive, AllLive, FirstCall, MainCall
<1>4. CallbacksReachTheirConnection' /\ EndFollowsData'
  BY DEF DispatchInv, CallbacksReachTheirConnection, EndFollowsData
<1>5. QED
  BY <1>1, <1>2, <1>3, <1>4 DEF DispatchInv

(* epoll_wait() fills the batch with live events. *)
LEMMA EpollWaitStep ==
    ASSUME DispatchInv, EpollWait
    PROVE  DispatchInv'
<1>1. ASSUME NEW ev \in batch'
      PROVE  \E c \in Conns : Open(c) /\ ev = [fd |-> fd[c], conn |-> c, flags |-> FlagsOf(c)]
  <2>1. PICK r \in ready : ev = [fd |-> fd[r[1]], conn |-> r[1], flags |-> FlagsOf(r[1])]
    BY DEF EpollWait
  <2>2. r[1] \in Conns /\ r[2] \in Filters /\ r = <<r[1], r[2]>>
    BY DEF DispatchInv, TypeOK
  <2>3. Open(r[1])
    BY <2>2 DEF DispatchInv, ReadyOpen
  <2>4. QED
    BY <2>1, <2>2, <2>3
<1>2. \A c \in Conns : FlagsOf(c) \subseteq {"in", "out", "rdhup", "err", "eof"}
  BY DEF FlagsOf, Interest
<1>3. \A ev \in batch' : ev \in Event /\ Open(ev.conn) /\ Live(ev)
  BY <1>1, <1>2 DEF DispatchInv, TableRight, Event
<1>4. \A e1, e2 \in batch' : e1.conn = e2.conn => e1 = e2
  BY <1>1
<1>5. QED
  BY <1>3, <1>4, WaitStep DEF EpollWait

(* So does kevent(), with one per filter. *)
LEMMA KeventWaitStep ==
    ASSUME DispatchInv, KeventWait
    PROVE  DispatchInv'
<1>1. ASSUME NEW ev \in batch'
      PROVE  \E c \in Conns, k \in Filters :
                Open(c) /\ ev = [fd |-> fd[c], conn |-> c, flags |-> KqFlags(c, k)]
  <2>1. PICK r \in ready : ev = [fd |-> fd[r[1]], conn |-> r[1], flags |-> KqFlags(r[1], r[2])]
    BY DEF KeventWait
  <2>2. r[1] \in Conns /\ r[2] \in Filters /\ r = <<r[1], r[2]>>
    BY DEF DispatchInv, TypeOK
  <2>3. Open(r[1])
    BY <2>2 DEF DispatchInv, ReadyOpen
  <2>4. QED
    BY <2>1, <2>2, <2>3
<1>2. ASSUME NEW c \in Conns, NEW k \in Filters
      PROVE  /\ KqFlags(c, k) \subseteq {"in", "out", "rdhup", "err", "eof"}
             /\ "in" \in KqFlags(c, k) <=> k = "in"
             /\ "eof" \in KqFlags(c, k) => err[c] \/ (k = "in" /\ fin[c])
  BY DEF KqFlags, Filters
<1>3. \A ev \in batch' : ev \in Event /\ Open(ev.conn) /\ Live(ev)
  BY <1>1, <1>2 DEF DispatchInv, TableRight, Event
<1>4. \A e1, e2 \in batch' : Main(e1) /\ Main(e2) /\ e1.conn = e2.conn => e1 = e2
  BY <1>1, <1>2 DEF KeventWait
<1>5. \A ev \in batch' :
          "eof" \in ev.flags => err[ev.conn] \/ ("in" \in ev.flags /\ fin[ev.conn])
  BY <1>1, <1>2
<1>6. QED
  BY <1>3, <1>4, <1>5, WaitStep DEF KeventWait

(* The event taken up is for a connection that no other main event of the  *)
(* batch is for, so no other has its number.                               *)
LEMMA ProcessFdStep ==
    ASSUME DispatchInv, ProcessFd
    PROVE  DispatchInv'
<1>1. PICK ev \in batch :
          /\ batch' = batch \ {ev}
          /\ event' = ev
          /\ todo' = IF os = "epoll" THEN Callbacks(ev.flags) ELSE KqCallbacks(ev.flags)
  BY DEF ProcessFd
<1>2. UNCHANGED <<os, conn, fd, table, inq, out, kernel, ready, misled>>
  BY DEF ProcessFd
<1>3. ev \in Event
  BY DEF DispatchInv, TypeOK
<1>4. os = "epoll" => todo' \in EpollTodos
  BY <1>1, CallbacksTyped
<1>5. os = "kqueue" => todo' = IF "in" \in ev.flags
                               THEN IF "eof" \in ev.flags THEN <<"read", "closed">> ELSE <<"read">>
                               ELSE IF "eof" \in ev.flags THEN <<"write", "closed">> ELSE <<"write">>
  BY <1>1, KqCallbacksAre
<1>6. TypeOK'
  <2>1. todo' \in IF os = "epoll" THEN EpollTodos ELSE KqTodos
    BY <1>4, <1>5 DEF DispatchInv, TypeOK, KqTodos
  <2>2. QED
    BY <1>1, <1>2, <1>3, <2>1 DEF DispatchInv, TypeOK
<1>7. TableRight' /\ ReadyOpen' /\ QuietRead' /\ BatchKnown'
  BY <1>1, <1>2 DEF DispatchInv, TableRight, ReadyOpen, QuietRead, BatchKnown
<1>8. CallsKnown'
  <2>1. os = "kqueue" /\ "eof" \in ev.flags
            => err[ev.conn] \/ ("in" \in ev.flags /\ fin[ev.conn])
    BY DEF DispatchInv, BatchKnown
  <2>2. conn[ev.conn] # "new"
    BY DEF DispatchInv, BatchKnown
  <2>3. os = "kqueue" => /\ todo' # <<"closed">>
                         /\ todo' = <<"read", "closed">> => "in" \in ev.flags /\ "eof" \in ev.flags
                         /\ todo' = <<"write", "closed">> => "in" \notin ev.flags /\ "eof" \in ev.flags
    BY <1>5, Single, Pair
  <2>4. QED
    BY <1>1, <1>2, <2>1, <2>2, <2>3 DEF CallsKnown
<1>9. EventsLive'
  <2> SUFFICES ASSUME Calm PROVE AllLive'
    BY <1>2 DEF EventsLive
  <2>1. MainCall' => Main(ev)
    <3>1. os = "kqueue" /\ "in" \notin ev.flags => todo' = <<"write">>
      BY <1>3, <1>5 DEF DispatchInv, BatchKnown, Event
    <3>2. QED
      BY <1>2, <3>1, Single DEF MainCall, DispatchInv, TypeOK
  <2>2. Main(ev) => Live(ev)
    BY DEF DispatchInv, EventsLive, AllLive
  <2>3. ASSUME Main(ev), NEW e \in batch', Main(e) PROVE e.fd # ev.fd
    <3>1. e \in Event /\ Live(e) /\ Live(ev) /\ e.conn # ev.conn
      BY <1>1, <2>3 DEF DispatchInv, TypeOK, EventsLive, AllLive
    <3>2. QED
      BY <1>3, <3>1 DEF DispatchInv, TableRight, Event
  <2>4. FirstCall' => MainCall'
    BY <1>2 DEF FirstCall, MainCall
  <2>5. QED
    BY <1>1, <1>2, <2>1, <2>2, <2>3, <2>4 DEF DispatchInv, EventsLive, AllLive
<1>10. CallbacksReachTheirConnection' /\ EndFollowsData'
  BY <1>2 DEF DispatchInv, CallbacksReachTheirConnection, EndFollowsData
<1>11. QED
  BY <1>6, <1>7, <1>8, <1>9, <1>10 DEF DispatchInv

-----------------------------------------------------------------------------
(* The first callback of a main event finds the event's connection, open:  *)
(* nothing came between.                                                   *)
LEMMA FirstFinds ==
    ASSUME DispatchInv, Calm, FirstCall
    PROVE  Found = event.conn /\ Open(event.conn)
<1>1. event \in Event /\ Live(event)
  BY DEF DispatchInv, TypeOK, EventsLive, AllLive, FirstCall
<1>2. QED
  BY <1>1 DEF DispatchInv, TableRight, Event, Found

(* Which calls are first, and which are a main event's; kqueue.cpp has no  *)
(* error callback here.                                                    *)
LEMMA CalledKind ==
    ASSUME TypeOK, NEW k, Called(k)
    PROVE  /\ event \in Event
           /\ k = "error" => os = "epoll"
           /\ k = "read" \/ (os = "epoll" /\ k \in {"error", "closed"}) => FirstCall
           /\ k \in {"read", "error", "closed"} => MainCall
<1>1. k = "error" => os = "epoll"
  <2> SUFFICES ASSUME k = "error", todo \in KqTodos PROVE FALSE
    BY DEF TypeOK
  <2>1. Head(todo) \in {"closed", "read", "write"}
    BY Single, Pair DEF KqTodos, Called
  <2>2. QED
    BY <2>1 DEF Called
<1>2. QED
  BY <1>1 DEF TypeOK, Called, FirstCall, MainCall

(* An error that was met is not forgotten. *)
ErrKept == err' \in [Conns -> BOOLEAN] /\ \A c \in Conns : err[c] => err'[c]

(* What a callback finds is noted; a first callback is never misled. *)
LEMMA FindsRight ==
    ASSUME DispatchInv, NEW k \in Kinds, Called(k), Finds(k), UNCHANGED os, ErrKept
    PROVE  /\ CallbacksReachTheirConnection'
           /\ misled \subseteq misled' /\ misled' \subseteq Kinds
           /\ Found \in Conns /\ Found # event.conn => k \in misled'
<1>1. /\ misled \subseteq misled' /\ misled' \subseteq misled \cup {k}
      /\ Found \in Conns /\ Found # event.conn => k \in misled'
      /\ Found = event.conn => misled' = misled
  BY DEF Finds
<1>2. misled' \subseteq Kinds
  BY <1>1 DEF DispatchInv, TypeOK
<1>3. CASE os = "epoll"
  <2>1. k # "write" => misled' = misled
    BY <1>1, <1>3, FirstFinds, CalledKind DEF DispatchInv, Kinds
  <2>2. QED
    BY <1>1, <1>2, <1>3, <2>1 DEF DispatchInv, CallbacksReachTheirConnection
<1>4. CASE os = "kqueue"
  <2>1. k = "read" /\ Calm => misled' = misled
    BY <1>1, FirstFinds, CalledKind DEF DispatchInv
  <2>2. k # "error"
    BY <1>4, CalledKind DEF DispatchInv
  <2>3. Calm' => Calm
    BY <1>4 DEF ErrKept
  <2>4. CASE k = "read"
    BY <1>1, <1>2, <1>4, <2>1, <2>3, <2>4 DEF DispatchInv, CallbacksReachTheirConnection, Kinds
  <2>5. CASE k \in {"write", "closed"}
    BY <1>1, <1>2, <1>4, <2>3, <2>5 DEF DispatchInv, CallbacksReachTheirConnection, Kinds
  <2>6. QED
    BY <2>2, <2>4, <2>5 DEF Kinds
<1>5. QED
  BY <1>1, <1>2, <1>3, <1>4 DEF DispatchInv, TypeOK

(* What is left to call when a callback returns.  The callback of the end  *)
(* that follows a read callback finds nothing left to read.                *)
LEMMA ReturnCalls ==
    ASSUME DispatchInv, NEW k, Called(k), Returns,
           UNCHANGED <<os, fin>>, ErrKept,
           \A c \in Conns : conn[c] # "new" => conn'[c] # "new",
           k = "read" /\ table'[event.fd] = event.conn /\ fin[event.conn]
               => inq'[event.conn] = 0 \/ err'[event.conn]
    PROVE  CallsKnown' /\ (todo' \in IF os = "epoll" THEN EpollTodos ELSE KqTodos)
                       /\ (todo' # <<>> => event' \in Event)
<1>1. TypeOK /\ event \in Event
  BY CalledKind DEF DispatchInv
<1>2. todo # <<>>
  BY DEF Called
<1>3. conn'[event.conn] # "new"
  BY <1>1, <1>2 DEF DispatchInv, CallsKnown, Event
<1>4. CASE todo' = <<"closed">>
  <2>1. os = "kqueue" /\ event' = event
    BY <1>1, <1>4, AfterReturn, Single
  <2>2. \/ k = "read" /\ todo = <<"read", "closed">>
        \/ todo = <<"write", "closed">>
    BY <1>1, <1>4, AfterReturn
  <2>3. /\ fin[event.conn] \/ err'[event.conn]
        /\ table'[event.fd] = event.conn => inq'[event.conn] = 0 \/ err'[event.conn]
    BY <1>1, <2>1, <2>2 DEF DispatchInv, CallsKnown, ErrKept, Event
  <2>4. CallsKnown'
    <3>1. <<"closed">> # <<"write", "closed">>
      BY Pair
    <3>2. QED
      BY <1>3, <1>4, <2>1, <2>3, <3>1 DEF CallsKnown
  <2>5. QED
    BY <1>1, <1>4, <2>1, <2>4 DEF KqTodos
<1>5. CASE todo' = <<"write">>
  <2>1. os = "epoll" /\ event' = event
    BY <1>1, <1>5, AfterReturn, Single
  <2>2. QED
    BY <1>1, <1>3, <1>5, <2>1 DEF CallsKnown, EpollTodos
<1>6. CASE todo' = <<>>
  BY <1>6, Single, Pair DEF CallsKnown, EpollTodos, KqTodos
<1>7. QED
  BY <1>1, <1>4, <1>5, <1>6, AfterReturn

(* A main event stays the only one for its number while its callbacks run. *)
LEMMA ReturnLive ==
    ASSUME DispatchInv, NEW k, Called(k), Returns, UNCHANGED <<os, batch>>, ErrKept,
           Calm' => \A ev \in batch : Main(ev) => Live(ev)'
    PROVE  EventsLive'
<1> SUFFICES ASSUME Calm' PROVE AllLive'
  BY DEF EventsLive
<1>0. Calm
  BY DEF ErrKept
<1>1. TypeOK
  BY DEF DispatchInv
<1>2. ~FirstCall'
  BY <1>1, AfterReturn, Single DEF FirstCall
<1>3. ASSUME MainCall' PROVE MainCall /\ event' = event
  <2>1. event' = event /\ todo' # <<>>
    BY <1>1, <1>3, AfterReturn DEF MainCall
  <2>2. CASE os = "epoll"
    BY <2>1, <2>2 DEF MainCall, Called
  <2>3. CASE os = "kqueue"
    <3>1. todo' = <<"closed">>
      BY <1>1, <1>3, <2>1, <2>3, AfterReturn DEF MainCall
    <3>2. todo # <<"write", "closed">>
      BY <1>0, <2>3, CalledKind DEF DispatchInv, CallsKnown, Event
    <3>3. k = "read"
      BY <1>1, <3>1, <3>2, AfterReturn
    <3>4. QED
      BY <1>1, <2>1, <3>3, CalledKind
  <2>4. QED
    BY <1>1, <2>2, <2>3 DEF TypeOK
<1>4. QED
  BY <1>0, <1>2, <1>3 DEF DispatchInv, EventsLive, AllLive

-----------------------------------------------------------------------------
(* A callback that neither closes a socket nor reads. *)
LEMMA QuietReturnStep ==
    ASSUME DispatchInv, NEW k \in Kinds, Called(k), Finds(k), Returns,
           UNCHANGED <<os, conn, fd, table, inq, left, fin, err, ready, batch>>,
           k = "read" => (Found # None /\ Open(Found)
                              => err[Found] \/ (inq[Found] = 0 /\ ~fin[Found]))
    PROVE  DispatchInv'
<1>1. TypeOK /\ event \in Event /\ ErrKept
  BY CalledKind DEF DispatchInv, TypeOK, ErrKept
<1>2. ASSUME k = "read", table[event.fd] = event.conn, fin[event.conn]
      PROVE  inq[event.conn] = 0 \/ err[event.conn]
  <2>1. conn[event.conn] \in {"open", "quiet"}
    BY <1>1, <1>2 DEF DispatchInv, TableRight, Event
  <2>2. QED
    BY <1>1, <1>2, <2>1 DEF DispatchInv, QuietRead, Found, Event
<1>3. CallsKnown' /\ (todo' \in IF os = "epoll" THEN EpollTodos ELSE KqTodos)
                  /\ (todo' # <<>> => event' \in Event)
  BY <1>1, <1>2, ReturnCalls
<1>4. EventsLive'
  BY <1>1, ReturnLive DEF DispatchInv, EventsLive, AllLive
<1>5. CallbacksReachTheirConnection' /\ misled \subseteq misled' /\ misled' \subseteq Kinds
  BY <1>1, FindsRight
<1>6. TypeOK'
  BY <1>1, <1>3, <1>5 DEF TypeOK
<1>7. TableRight' /\ ReadyOpen' /\ BatchKnown' /\ QuietRead'
  BY DEF DispatchInv, TableRight, ReadyOpen, BatchKnown, QuietRead
<1>8. EndFollowsData'
  BY <1>5 DEF DispatchInv, EndFollowsData
<1>9. QED
  BY <1>3, <1>4, <1>5, <1>6, <1>7, <1>8 DEF DispatchInv

(* One recv() that returns a byte. *)
LEMMA ReadByteStep ==
    ASSUME DispatchInv, ReadByte
    PROVE  DispatchInv'
<1>1. TypeOK /\ event \in Event /\ ErrKept
  BY CalledKind DEF DispatchInv, TypeOK, ReadByte, ErrKept
<1>2. Found \in Conns /\ Open(Found) /\ inq[Found] \in Nat \ {0}
  BY <1>1 DEF TypeOK, Event, Found, ReadByte, HasByte
<1>3. /\ inq' \in [Conns -> Nat]
      /\ \A c \in Conns : inq'[c] = inq[c] \/ (Open(c) /\ inq[c] # 0)
  BY <1>1, <1>2 DEF TypeOK, ReadByte
<1>4. CallbacksReachTheirConnection' /\ misled \subseteq misled' /\ misled' \subseteq Kinds
  BY <1>1, FindsRight DEF ReadByte, Kinds
<1>5. TypeOK'
  BY <1>1, <1>3, <1>4 DEF TypeOK, ReadByte
<1>6. TableRight' /\ ReadyOpen' /\ BatchKnown' /\ EventsLive'
  BY DEF DispatchInv, TableRight, ReadyOpen, BatchKnown, EventsLive, AllLive, FirstCall,
         MainCall, ReadByte
<1>7. QuietRead' /\ EndFollowsData'
  BY <1>3, <1>4 DEF DispatchInv, QuietRead, EndFollowsData, ReadByte
<1>8. CallsKnown'
  <2>1. todo # <<"closed">>
    BY Single DEF ReadByte, Called
  <2>2. QED
    BY <2>1 DEF DispatchInv, CallsKnown, ReadByte
<1>9. QED
  BY <1>4, <1>5, <1>6, <1>7, <1>8 DEF DispatchInv

(* socket::close(): the number is free, and no event is due for it. *)
LEMMA ClosedSocket ==
    ASSUME DispatchInv, NEW x \in Conns, NEW how \in {"quiet", "reported"}, Closed(x, how)
    PROVE  /\ conn' \in [Conns -> {"new", "open", "quiet", "reported"}]
           /\ fd' \in [Conns -> Fds \cup {None}]
           /\ ready' \subseteq Conns \X Filters
           /\ conn'[x] = how /\ fd'[x] = None
           /\ \A c \in Conns : c # x => conn'[c] = conn[c] /\ fd'[c] = fd[c]
           /\ \A c \in Conns, k \in Filters :
                  <<c, k>> \in ready' => <<c, k>> \in ready /\ c # x
<1>1. \A k \in Filters : <<x, k>> \in {x} \X Filters
  OBVIOUS
<1>2. QED
  BY <1>1 DEF DispatchInv, TypeOK, Closed

(* recv() or send() returns 0 and has closed the socket it was called for: *)
(* that of the event's connection, unless kqueue met an error or it is     *)
(* epoll's write callback.                                                 *)
LEMMA QuietCloseStep ==
    ASSUME DispatchInv, NEW k \in {"read", "write"}, Called(k), Finds(k), Returns,
           Found # None, Open(Found), Closed(Found, "quiet"),
           UNCHANGED <<os, table, left, fin, batch>>, ErrKept,
           inq' \in [Conns -> Nat], \A c \in Conns : c # Found => inq'[c] = inq[c],
           inq'[Found] = 0 \/ err'[Found],
           k = "write" => err'[Found]
    PROVE  DispatchInv'
<1>1. TypeOK /\ event \in Event /\ (Calm' => Calm /\ MainCall)
  <2>1. TypeOK /\ event \in Event /\ Found \in Conns
    BY CalledKind DEF DispatchInv, TypeOK, Event, Found
  <2>2. k = "read" => MainCall
    BY <2>1, CalledKind
  <2>3. k = "write" /\ Calm' => MainCall
    BY <2>1 DEF MainCall, Called
  <2>4. QED
    BY <2>1, <2>2, <2>3 DEF ErrKept
<1> DEFINE x == Found
<1>2. /\ x \in Conns /\ Open(x) /\ table[event.fd] = x /\ event.fd \in Fds
      /\ inq'[x] = 0 \/ err'[x]
      /\ \A c \in Conns : c # x => inq'[c] = inq[c]
  BY <1>1 DEF TypeOK, Event, Found
<1>3. /\ conn' \in [Conns -> {"new", "open", "quiet", "reported"}]
      /\ fd' \in [Conns -> Fds \cup {None}]
      /\ ready' \subseteq Conns \X Filters
      /\ conn'[x] = "quiet" /\ fd'[x] = None
      /\ \A c \in Conns : c # x => conn'[c] = conn[c] /\ fd'[c] = fd[c]
      /\ \A c \in Conns, filter \in Filters :
             <<c, filter>> \in ready' => <<c, filter>> \in ready /\ c # x
  BY <1>2, ClosedSocket
<1> HIDE DEF x
<1>4. CallbacksReachTheirConnection' /\ misled \subseteq misled' /\ misled' \subseteq Kinds
  BY FindsRight DEF Kinds
<1>5. CallsKnown' /\ (todo' \in IF os = "epoll" THEN EpollTodos ELSE KqTodos)
                  /\ (todo' # <<>> => event' \in Event)
  <2>1. table'[event.fd] = event.conn => inq'[event.conn] = 0 \/ err'[event.conn]
    BY <1>2
  <2>2. \A c \in Conns : conn[c] # "new" => conn'[c] # "new"
    BY <1>3
  <2>3. QED
    BY <2>1, <2>2, ReturnCalls
<1>6. EventsLive'
  <2>1. ASSUME Calm', NEW ev \in batch, Main(ev) PROVE Live(ev)'
    <3>1. ev \in Event /\ Live(ev) /\ ev.fd # event.fd
      BY <1>1, <2>1 DEF DispatchInv, TypeOK, EventsLive, AllLive
    <3>2. ev.conn # x
      BY <1>2, <3>1 DEF DispatchInv, TableRight, Event
    <3>3. QED
      BY <1>3, <3>1, <3>2 DEF Event
  <2>2. QED
    BY <2>1, ReturnLive
<1>7. TypeOK'
  BY <1>1, <1>3, <1>4, <1>5 DEF TypeOK, ErrKept
<1>8. TableRight' /\ ReadyOpen'
  <2>1. UNCHANGED <<os, table>>
    OBVIOUS
  <2>2. TableRight'
    <3>1. ASSUME NEW c \in Conns
          PROVE  IF Open(c)' THEN fd'[c] \in Fds /\ table'[fd'[c]] = c ELSE fd'[c] = None
      BY <1>3, <2>1 DEF DispatchInv, TableRight
    <3>2. ASSUME NEW f \in Fds, table'[f] # None PROVE conn'[table'[f]] \in {"open", "quiet"}
      <4>1. table[f] # None /\ table'[f] = table[f] /\ table[f] \in Conns
        BY <1>1, <3>2 DEF TypeOK
      <4>2. conn[table[f]] \in {"open", "quiet"}
        BY <4>1 DEF DispatchInv, TableRight
      <4>3. QED
        BY <1>3, <4>1, <4>2
    <3>3. QED
      BY <2>1, <3>1, <3>2 DEF DispatchInv, TableRight
  <2>3. ReadyOpen'
    BY <1>3, <2>1 DEF DispatchInv, ReadyOpen
  <2>4. QED
    BY <2>2, <2>3
<1>9. BatchKnown' /\ QuietRead'
  <2>1. BatchKnown'
    BY <1>1, <1>3 DEF DispatchInv, TypeOK, Event, BatchKnown, ErrKept
  <2>2. ASSUME NEW c \in Conns, conn'[c] = "quiet" PROVE inq'[c] = 0 \/ err'[c]
    <3>1. CASE c = x
      BY <1>2, <3>1
    <3>2. CASE c # x
      BY <1>2, <1>3, <2>2, <3>2 DEF DispatchInv, QuietRead, ErrKept
    <3>3. QED
      BY <3>1, <3>2
  <2>3. QED
    BY <2>1, <2>2 DEF QuietRead
<1>10. EndFollowsData'
  BY <1>2, <1>3, <1>4 DEF DispatchInv, EndFollowsData, ErrKept
<1>11. QED
  BY <1>4, <1>5, <1>6, <1>7, <1>8, <1>9, <1>10 DEF DispatchInv

(* The three calls that do it. *)
LEMMA QuietCloses ==
    ASSUME DispatchInv, ReadEnds \/ ReadResets \/ WriteResets
    PROVE  DispatchInv'
<1>1. TypeOK
  BY DEF DispatchInv
<1>2. CASE ReadEnds
  BY <1>1, <1>2, QuietCloseStep DEF ReadEnds, TypeOK, ErrKept
<1>3. CASE ReadResets
  <2>1. event \in Event /\ Found \in Conns /\ inq[Found] \in Nat \ {0} /\ Open(Found)
    BY <1>1, <1>3, CalledKind DEF ReadResets, HasByte, TypeOK, Found, Event
  <2>2. /\ inq' \in [Conns -> Nat] /\ ErrKept /\ err'[Found]
        /\ \A c \in Conns : c # Found => inq'[c] = inq[c]
    BY <1>1, <1>3, <2>1 DEF ReadResets, TypeOK, ErrKept
  <2>3. QED
    BY <1>3, <2>1, <2>2, QuietCloseStep DEF ReadResets
<1>4. CASE WriteResets
  BY <1>1, <1>4, QuietCloseStep DEF WriteResets, TypeOK, ErrKept
<1>5. QED
  BY <1>2, <1>3, <1>4

(* The callback of the end closes the connection it finds and forgets it.  *)
(* No other main event of the batch is for that one.                       *)
LEMMA OnEndStep ==
    ASSUME DispatchInv, NEW kind \in {"closed", "error"}, OnEnd(kind)
    PROVE  DispatchInv'
<1>1. TypeOK /\ event \in Event /\ MainCall /\ (kind = "error" => os = "epoll")
  BY CalledKind DEF DispatchInv, OnEnd
<1>0. ErrKept /\ (Calm' => Calm)
  BY <1>1 DEF TypeOK, OnEnd, ErrKept
<1>2. CASE Found = None
  BY <1>2, QuietReturnStep DEF OnEnd, Kinds
<1>3. CASE Found # None
  <2> DEFINE x == Found
  <2>1. x \in Conns /\ table[event.fd] = x /\ event.fd \in Fds
    BY <1>1, <1>3 DEF TypeOK, Event, Found
  <2>2. /\ conn' \in [Conns -> {"new", "open", "quiet", "reported"}]
        /\ fd' \in [Conns -> Fds \cup {None}]
        /\ ready' \subseteq Conns \X Filters
        /\ conn'[x] = "reported" /\ fd'[x] = None
        /\ \A c \in Conns : c # x => conn'[c] = conn[c] /\ fd'[c] = fd[c]
        /\ \A c \in Conns, k \in Filters : <<c, k>> \in ready' => <<c, k>> \in ready /\ c # x
    BY <1>3, <2>1, ClosedSocket DEF OnEnd
  <2>3. /\ CallbacksReachTheirConnection' /\ misled \subseteq misled' /\ misled' \subseteq Kinds
        /\ x # event.conn => kind \in misled'
    BY <1>0, <2>1, FindsRight DEF OnEnd, Kinds
  <2>4. table' = [table EXCEPT ![event.fd] = None]
    BY <1>3 DEF OnEnd
  <2> HIDE DEF x
  <2>5. CallsKnown' /\ (todo' \in IF os = "epoll" THEN EpollTodos ELSE KqTodos)
                    /\ (todo' # <<>> => event' \in Event)
    <3>1. \A c \in Conns : conn[c] # "new" => conn'[c] # "new"
      BY <2>2
    <3>2. QED
      BY <1>0, <3>1, ReturnCalls DEF OnEnd
  <2>6. EventsLive'
    <3>1. ASSUME Calm, NEW ev \in batch, Main(ev) PROVE Live(ev)'
      <4>1. ev \in Event /\ Live(ev) /\ ev.fd # event.fd
        BY <1>1, <3>1 DEF DispatchInv, TypeOK, EventsLive, AllLive
      <4>2. ev.conn # x
        BY <2>1, <4>1 DEF DispatchInv, TableRight, Event
      <4>3. QED
        BY <2>2, <4>1, <4>2 DEF Event
    <3>2. QED
      BY <1>0, <3>1, ReturnLive DEF OnEnd
  <2>7. TypeOK'
    BY <1>1, <2>2, <2>3, <2>4, <2>5 DEF TypeOK, OnEnd
  <2>8. TableRight' /\ ReadyOpen'
    BY <1>1, <2>1, <2>2, <2>4 DEF DispatchInv, TypeOK, TableRight, ReadyOpen, OnEnd
  <2>9. BatchKnown' /\ QuietRead'
    BY <1>1, <2>2 DEF DispatchInv, TypeOK, Event, BatchKnown, QuietRead, OnEnd
  <2>10. EndFollowsData'
    <3>1. ASSUME os = "kqueue", "closed" \notin misled' PROVE inq[x] = 0 \/ err[x]
      <4>1. x = event.conn /\ kind = "closed"
        BY <1>1, <2>3, <3>1
      <4>2. todo = <<"closed">>
        <5>1. todo \in KqTodos /\ todo # <<>> /\ Head(todo) = "closed"
          BY <1>1, <3>1, <4>1 DEF TypeOK, OnEnd, Called
        <5>2. QED
          BY <5>1, Single, Pair DEF KqTodos
      <4>3. QED
        BY <2>1, <3>1, <4>1, <4>2 DEF DispatchInv, CallsKnown
    <3>2. QED
      BY <2>2, <2>3, <3>1 DEF DispatchInv, EndFollowsData, OnEnd
  <2>11. QED
    BY <2>3, <2>5, <2>6, <2>7, <2>8, <2>9, <2>10 DEF DispatchInv
<1>4. QED
  BY <1>2, <1>3

-----------------------------------------------------------------------------
(* Init: no connection has a descriptor. *)
LEMMA InitDispatchInv == Init => DispatchInv
<1> SUFFICES ASSUME Init PROVE DispatchInv
  OBVIOUS
<1>1. TypeOK
  BY DEF Init, TypeOK, EpollTodos, KqTodos
<1>2. TableRight /\ ReadyOpen /\ BatchKnown /\ QuietRead /\ EventsLive
  BY DEF Init, TableRight, ReadyOpen, BatchKnown, QuietRead, EventsLive, AllLive, FirstCall,
         MainCall
<1>3. CallsKnown
  BY Single, Pair DEF Init, CallsKnown
<1>4. CallbacksReachTheirConnection /\ EndFollowsData
  BY DEF Init, CallbacksReachTheirConnection, EndFollowsData
<1>5. QED
  BY <1>1, <1>2, <1>3, <1>4 DEF DispatchInv

(* The inductive invariant holds. *)
LEMMA DispatchInvariant == Spec => []DispatchInv
<1>1. DispatchInv /\ [Next]_vars => DispatchInv'
  <2> SUFFICES ASSUME DispatchInv, [Next]_vars PROVE DispatchInv'
    OBVIOUS
  <2>1. CASE Callback
    <3>1. CASE ReadStops
      BY <3>1, QuietReturnStep DEF ReadStops, Kinds
    <3>2. CASE OnWrite
      BY <3>2, QuietReturnStep DEF OnWrite, Kinds
    <3>3. QED
      BY <2>1, <3>1, <3>2, OnEndStep, ReadByteStep, QuietCloses DEF Callback, OnClosed, OnError
  <2>2. CASE UNCHANGED vars
    BY <2>2 DEF vars, DispatchInv, TypeOK, TableRight, ReadyOpen, BatchKnown, CallsKnown,
                QuietRead, EventsLive, AllLive, FirstCall, MainCall,
                CallbacksReachTheirConnection, EndFollowsData
  <2>3. QED
    BY <2>1, <2>2, AddFdStep, PeerSteps, EpollWaitStep, KeventWaitStep, ProcessFdStep DEF Next
<1>2. QED
  BY <1>1, InitDispatchInv, PTL DEF Spec

(* process_fd() of epoll.cpp: although descriptor numbers are reused while *)
(* a batch is processed, every closed, error and read callback reaches the *)
(* connection that its event was about; with kqueue.cpp every read         *)
(* callback does as long as there was no error.                            *)
THEOREM EventsReachConnections == Spec => []CallbacksReachTheirConnection
<1>1. DispatchInv => CallbacksReachTheirConnection
  BY DEF DispatchInv
<1>2. QED
  BY <1>1, DispatchInvariant, PTL

(* process_fd() of kqueue.cpp: whatever a peer sent before it closed has   *)
(* been read when the closed callback ends the connection, unless there    *)
(* was an error or the callback was misled.                                *)
THEOREM EndsFollowData == Spec => []EndFollowsData
<1>1. DispatchInv => EndFollowsData
  BY DEF DispatchInv
<1>2. QED
  BY <1>1, DispatchInvariant, PTL
=============================================================================
