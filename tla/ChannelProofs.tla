---------------------------- MODULE ChannelProofs ---------------------------
(***************************************************************************)
(* The two classes that are channels.  ez::socket, for every set of        *)
(* objects and of descriptor numbers: nothing is leaked, closed twice or   *)
(* closed under another object, and what an object believes of its         *)
(* descriptor, m_state and m_nonblocking, is what the kernel does with it. *)
(* ez::tls, for every size of the channel, of the records and of the       *)
(* calls: what send() took is what recv() gives.                           *)
(***************************************************************************)
EXTENDS Channels, SequenceFacts

ObjectRec == [alive : BOOLEAN, m_fd : Fds \cup {NoFd}, m_state : States,
              m_nonblocking : BOOLEAN]
FdRec == [conn : ConnStates, nonblock : BOOLEAN, inherited : BOOLEAN, so_error : BOOLEAN]

IInv == TypeOK /\ OneOwner

(* The sockets know nothing of ez::tls. *)
LEMMA SocketsApart == ChannelsSpec => Spec
<1>1. ChannelsInit => Init
  BY DEF ChannelsInit
<1>2. [ChannelsNext]_channelsVars => [Next]_vars
  BY DEF ChannelsNext, SocketsStep, TlsSideStep, channelsVars
<1>3. QED
  BY <1>1, <1>2, PTL DEF ChannelsSpec, Spec

-----------------------------------------------------------------------------
(* -1 is no descriptor. *)
LEMMA NoFdIsNone == NoFd \notin Fds
  BY FdsAssumption DEF NoFd

(* Calls that change neither who owns what nor what is open. *)
LEMMA SameOwners ==
    ASSUME OneOwner,
           \A f \in Fds : Owners(f)' = Owners(f),
           \A f \in Fds : kernel'[f].conn = "closed" <=> kernel[f].conn = "closed"
    PROVE  OneOwner'
  BY DEF OneOwner

(* listen(), the connects: the object keeps its open descriptor, or gets a *)
(* number that was closed and so belonged to nobody.                       *)
LEMMA Acquire ==
    ASSUME IInv, NEW s \in Objects, Alive(s), NEW f \in Descriptor(s),
           obj'[s].alive, obj'[s].m_fd = f,
           \A t \in Objects \ {s} : obj'[t] = obj[t],
           kernel'[f].conn # "closed",
           \A g \in Fds \ {f} : kernel'[g] = kernel[g]
    PROVE  OneOwner'
<1>1. f \in Fds
  BY DEF IInv, TypeOK, Descriptor, FreeFds
<1>2. Owners(f) \subseteq {s}
  <2>1. CASE obj[s].m_fd = NoFd
    BY <1>1, <2>1 DEF IInv, OneOwner, Descriptor, FreeFds
  <2>2. CASE obj[s].m_fd # NoFd
    <3>1. s \in Owners(f)
      BY <2>2 DEF Descriptor, Owners
    <3>2. QED
      BY <1>1, <3>1 DEF IInv, OneOwner
  <2>3. QED
    BY <2>1, <2>2
<1>3. Owners(f)' = {s}
  BY <1>2 DEF Owners, Alive
<1>4. ASSUME NEW g \in Fds, g # f PROVE Owners(g)' = Owners(g)
  <2>1. s \notin Owners(g)'
    BY <1>4 DEF Owners
  <2>2. s \notin Owners(g)
    BY <1>4, NoFdIsNone DEF Owners, Descriptor
  <2>3. QED
    BY <2>1, <2>2 DEF Owners, Alive
<1>5. ASSUME NEW g \in Fds
      PROVE  /\ \A t, u \in Owners(g)' : t = u
             /\ (kernel'[g].conn # "closed") <=> (Owners(g)' # {})
  <2>1. CASE g = f
    BY <1>3, <2>1
  <2>2. CASE g # f
    BY <1>4, <2>2 DEF IInv, OneOwner
  <2>3. QED
    BY <2>1, <2>2
<1>6. QED
  BY <1>5 DEF OneOwner

(* close(), the destructor and the transfers that close: the object gives  *)
(* up its descriptor, which the kernel closes.                             *)
LEMMA Release ==
    ASSUME IInv, NEW s \in Objects, Alive(s),
           obj'[s].m_fd = NoFd,
           \A t \in Objects \ {s} : obj'[t] = obj[t],
           kernel' = KernelClosed(obj[s].m_fd)
    PROVE  OneOwner'
<1>1. ASSUME NEW g \in Fds, g # obj[s].m_fd
      PROVE  Owners(g)' = Owners(g) /\ kernel'[g] = kernel[g]
  <2>1. s \notin Owners(g) /\ s \notin Owners(g)'
    BY <1>1, NoFdIsNone DEF Owners
  <2>2. Owners(g)' = Owners(g)
    BY <2>1 DEF Owners, Alive
  <2>3. kernel'[g] = kernel[g]
    BY <1>1 DEF KernelClosed, IInv, TypeOK
  <2>4. QED
    BY <2>2, <2>3
<1>2. ASSUME NEW g \in Fds, g = obj[s].m_fd
      PROVE  Owners(g)' = {} /\ kernel'[g].conn = "closed"
  <2>1. s \in Owners(g)
    BY <1>2 DEF Owners
  <2>2. Owners(g) = {s}
    BY <2>1 DEF IInv, OneOwner
  <2>3. Owners(g)' = {}
    BY <2>2, NoFdIsNone DEF Owners, Alive
  <2>4. kernel'[g].conn = "closed"
    BY <1>2, NoFdIsNone DEF KernelClosed, ClosedFd, IInv, TypeOK
  <2>5. QED
    BY <2>3, <2>4
<1>3. QED
  BY <1>1, <1>2 DEF IInv, OneOwner

-----------------------------------------------------------------------------
(* No object has been constructed and no descriptor is open. *)
LEMMA InitInv == Init => IInv
<1> SUFFICES ASSUME Init PROVE IInv
  OBVIOUS
<1>1. NoObject \in ObjectRec /\ ClosedFd \in FdRec
  BY DEF NoObject, NewObject, ClosedFd, ObjectRec, FdRec, States, ConnStates
<1>2. TypeOK
  BY <1>1 DEF Init, TypeOK, ObjectRec, FdRec
<1>3. OneOwner
  BY DEF Init, OneOwner, Owners, Alive, NoObject, NewObject, ClosedFd
<1>4. QED
  BY <1>2, <1>3 DEF IInv

(* Construction makes an object without a descriptor. *)
LEMMA ConstructInv ==
    ASSUME IInv, NEW s \in Objects, Construct(s)
    PROVE  IInv'
<1>1. NewObject \in ObjectRec
  BY DEF NewObject, ObjectRec, States
<1>2. TypeOK'
  BY <1>1 DEF IInv, TypeOK, Construct, Ends, ObjectRec
<1>3. \A f \in Fds : Owners(f)' = Owners(f)
  BY NoFdIsNone DEF IInv, TypeOK, Construct, Owners, Alive, NewObject
<1>4. QED
  BY <1>2, <1>3, SameOwners DEF IInv, Construct

(* A move hands the descriptor over: the target owns it and the source     *)
(* nothing.                                                                *)
LEMMA MoveInv ==
    ASSUME IInv, NEW s \in Objects, NEW t \in Objects, Move(s, t)
    PROVE  IInv'
<1>1. s # t
  BY DEF Move
<1>2. /\ obj'[t] = obj[s]
      /\ obj'[s].alive = obj[s].alive /\ obj'[s].m_fd = NoFd
      /\ \A u \in Objects \ {s, t} : obj'[u] = obj[u]
  BY <1>1 DEF IInv, TypeOK, Move
<1>3. TypeOK'
  BY DEF IInv, TypeOK, Move
<1>4. ASSUME NEW f \in Fds
      PROVE  Owners(f)' = IF s \in Owners(f) THEN {t} ELSE Owners(f)
  <2>1. t \notin Owners(f) /\ s \notin Owners(f)'
    BY <1>2, NoFdIsNone DEF Owners, Alive, Move
  <2>2. t \in Owners(f)' <=> s \in Owners(f)
    BY <1>2 DEF Owners, Alive
  <2>3. \A u \in Objects \ {s, t} : u \in Owners(f)' <=> u \in Owners(f)
    BY <1>2 DEF Owners, Alive
  <2>4. s \in Owners(f) => Owners(f) = {s}
    BY DEF IInv, OneOwner
  <2>5. Owners(f) \subseteq Objects /\ Owners(f)' \subseteq Objects
    BY DEF Owners
  <2>6. QED
    BY <2>1, <2>2, <2>3, <2>4, <2>5
<1>5. OneOwner'
  BY <1>4 DEF IInv, OneOwner, Move
<1>6. QED
  BY <1>3, <1>5 DEF IInv

(* close(), the destructor and a transfer on an ended connection. *)
LEMMA CloseInv ==
    ASSUME IInv, NEW s \in Objects, Close(s) \/ Destroy(s) \/ TransferCloses(s)
    PROVE  IInv'
<1>1. ClosedFd \in FdRec /\ NoObject \in ObjectRec /\ NoObject.m_fd = NoFd
  BY DEF NoObject, NewObject, ClosedFd, ObjectRec, FdRec, States, ConnStates
<1>2. ObjectClosed(obj[s]) \in ObjectRec /\ ObjectClosed(obj[s]).m_fd = NoFd
  BY DEF IInv, TypeOK, ObjectClosed, ObjectRec, States
<1>3. kernel' = KernelClosed(obj[s].m_fd) /\ Alive(s)
  BY DEF Close, Destroy, TransferCloses, Transfers
<1>4. PICK o \in ObjectRec : o.m_fd = NoFd /\ obj' = [obj EXCEPT ![s] = o]
  BY <1>1, <1>2 DEF Close, Destroy, TransferCloses
<1>5. TypeOK'
  <2>1. obj' \in [Objects -> ObjectRec]
    BY <1>4 DEF IInv, TypeOK, ObjectRec
  <2>2. kernel' \in [Fds -> FdRec]
    BY <1>1, <1>3 DEF IInv, TypeOK, KernelClosed, FdRec
  <2>3. /\ result' \in [Objects -> {"none", "ok", "again", "timeout", "closed", "error"}]
        /\ moved' \subseteq Objects /\ unsettled' \subseteq Objects
    BY DEF IInv, TypeOK, Close, Destroy, TransferCloses, Ends
  <2>4. QED
    BY <2>1, <2>2, <2>3 DEF TypeOK, ObjectRec, FdRec
<1>6. OneOwner'
  BY <1>3, <1>4, Release DEF IInv, TypeOK
<1>7. QED
  BY <1>5, <1>6 DEF IInv

(* set_nonblocking() and the transfers that do not close change flags and  *)
(* results only.                                                           *)
LEMMA FlagsInv ==
    ASSUME IInv, NEW s \in Objects,
           \/ \E flag \in BOOLEAN : SetNonblocking(s, flag)
           \/ TransferOk(s) \/ WouldBlock(s) \/ TransferFails(s)
    PROVE  IInv'
<1>1. CASE \E flag \in BOOLEAN : SetNonblocking(s, flag)
  <2>1. PICK flag \in BOOLEAN : SetNonblocking(s, flag)
    BY <1>1
  <2>2. obj[s].m_fd \in Fds
    BY <2>1 DEF SetNonblocking, IInv, TypeOK
  <2>3. TypeOK'
    BY <2>1, <2>2 DEF SetNonblocking, IInv, TypeOK, Ends
  <2>4. \A t \in Objects : obj'[t].alive = obj[t].alive /\ obj'[t].m_fd = obj[t].m_fd
    BY <2>1 DEF SetNonblocking, IInv, TypeOK
  <2>5. \A f \in Fds : kernel'[f].conn = kernel[f].conn
    BY <2>1, <2>2 DEF SetNonblocking, IInv, TypeOK
  <2>6. \A f \in Fds : Owners(f)' = Owners(f)
    BY <2>4 DEF Owners, Alive
  <2>7. QED
    BY <2>3, <2>5, <2>6, SameOwners DEF IInv
<1>2. CASE TransferOk(s) \/ WouldBlock(s) \/ TransferFails(s)
  <2>1. UNCHANGED <<obj, kernel, moved, unsettled>>
    BY <1>2 DEF TransferOk, WouldBlock, TransferFails
  <2>2. result' \in [Objects -> {"none", "ok", "again", "timeout", "closed", "error"}]
    BY <1>2 DEF TransferOk, WouldBlock, TransferFails, Ends, IInv, TypeOK
  <2>3. QED
    BY <2>1, <2>2 DEF IInv, TypeOK, OneOwner, Owners, Alive
<1>3. QED
  BY <1>1, <1>2

(* The network changes the state of connections, and closes no descriptor. *)
LEMMA NetworkInv ==
    ASSUME IInv, NEW f \in Fds, Network(f)
    PROVE  IInv'
<1> DEFINE Keeps == \E from \in ConnStates \ {"closed"}, to \in ConnStates \ {"closed"},
                       err \in BOOLEAN : NetworkStep(f, from, to, err)
<1>0. Keeps
  <2> USE DEF ConnStates
  <2>1. NetworkStep(f, "pending", "established", FALSE) => Keeps
    OBVIOUS
  <2>2. NetworkStep(f, "pending", "failed", TRUE) => Keeps
    OBVIOUS
  <2>3. NetworkStep(f, "established", "eof", FALSE) => Keeps
    OBVIOUS
  <2>4. NetworkStep(f, "established", "reset", TRUE) => Keeps
    OBVIOUS
  <2>5. NetworkStep(f, "eof", "reset", TRUE) => Keeps
    OBVIOUS
  <2>6. QED
    BY <2>1, <2>2, <2>3, <2>4, <2>5 DEF Network
<1>1. PICK from \in ConnStates \ {"closed"}, to \in ConnStates \ {"closed"}, err \in BOOLEAN :
        NetworkStep(f, from, to, err)
  BY <1>0
<1>2. TypeOK'
  <2>1. [[kernel[f] EXCEPT !.conn = to] EXCEPT !.so_error = err] \in FdRec
    <3>1. kernel[f] \in FdRec
      BY DEF IInv, TypeOK, FdRec
    <3>2. [kernel[f] EXCEPT !.conn = to] \in FdRec
      BY <3>1 DEF FdRec
    <3>3. QED
      BY <3>2 DEF FdRec
  <2>2. kernel' = [kernel EXCEPT ![f] = [[kernel[f] EXCEPT !.conn = to] EXCEPT !.so_error = err]]
    BY <1>1 DEF NetworkStep, IInv, TypeOK
  <2>3. QED
    BY <1>1, <2>1, <2>2 DEF IInv, TypeOK, NetworkStep, FdRec
<1>3. \A g \in Fds : kernel'[g].conn = "closed" <=> kernel[g].conn = "closed"
  BY <1>1 DEF IInv, TypeOK, NetworkStep
<1>4. \A g \in Fds : Owners(g)' = Owners(g)
  BY <1>1 DEF NetworkStep, Owners, Alive
<1>5. QED
  BY <1>2, <1>3, <1>4, SameOwners DEF IInv

(* The descriptor that accept() returns is open, and the object that gets  *)
(* it is right to believe it blocking unless it inherited the mode.        *)
LEMMA AcceptedOpen ==
    ASSUME IInv, NEW s \in Objects, obj[s].m_fd # NoFd
    PROVE  /\ AcceptedFd(s) \in FdRec /\ AcceptedFd(s).conn = "established"
           /\ AcceptedFd(s).nonblock => AcceptedFd(s).inherited
<1> DEFINE inherits == PlainAccept /\ kernel[obj[s].m_fd].nonblock
<1>1. inherits \in BOOLEAN
  BY SystemAssumption DEF IInv, TypeOK
<1>2. AcceptedFd(s) = [NewFd EXCEPT !.conn = "established", !.nonblock = inherits,
                                    !.inherited = inherits]
  BY DEF AcceptedFd
<1>3. NewFd \in FdRec /\ "established" \in ConnStates
  BY DEF NewFd, ClosedFd, FdRec, ConnStates
<1> HIDE DEF inherits
<1>4. CASE inherits
  <2>1. AcceptedFd(s) = [NewFd EXCEPT !.conn = "established", !.nonblock = TRUE, !.inherited = TRUE]
    <3>1. inherits = TRUE
      BY <1>4
    <3>2. QED
      BY <1>2, <3>1, Zenon
  <2>2. QED
    BY <1>3, <2>1 DEF FdRec
<1>5. CASE ~inherits
  <2>1. AcceptedFd(s) = [NewFd EXCEPT !.conn = "established", !.nonblock = FALSE, !.inherited = FALSE]
    <3>1. inherits = FALSE
      BY <1>1, <1>5
    <3>2. QED
      BY <1>2, <3>1, Zenon
  <2>2. QED
    BY <1>3, <2>1 DEF FdRec
<1>6. QED
  BY <1>4, <1>5

(* accept() gives a free number to the new object, or makes an object      *)
(* without one.                                                            *)
LEMMA AcceptInv ==
    ASSUME IInv, NEW s \in Objects, NEW t \in Objects, Accept(s, t)
    PROVE  IInv'
<1>1. NewObject \in ObjectRec /\ NewObject.alive /\ NewObject.m_fd = NoFd
      /\ obj[s].m_fd # NoFd
  BY DEF NewObject, ObjectRec, States, Accept
<1>2. /\ result' \in [Objects -> {"none", "ok", "again", "timeout", "closed", "error"}]
      /\ moved' \subseteq Objects /\ unsettled' \subseteq Objects
  BY DEF Accept, IInv, TypeOK
<1>3. ASSUME NEW f \in FreeFds,
             obj' = [obj EXCEPT ![t] = [NewObject EXCEPT !.m_fd = f, !.m_state = "connected"]],
             kernel' = [kernel EXCEPT ![f] = AcceptedFd(s)]
      PROVE  IInv'
  <2> DEFINE o == [NewObject EXCEPT !.m_fd = f, !.m_state = "connected"]
             k == AcceptedFd(s)
  <2>1. f \in Fds
    BY DEF FreeFds
  <2>2. o \in ObjectRec /\ o.alive /\ o.m_fd = f /\ k \in FdRec /\ k.conn = "established"
    BY <1>1, <2>1, AcceptedOpen DEF ObjectRec, States
  <2> HIDE DEF k
  <2>3. TypeOK'
    BY <1>2, <1>3, <2>1, <2>2 DEF IInv, TypeOK, ObjectRec, FdRec, k
  <2>4. /\ obj'[t].alive /\ obj'[t].m_fd = f
        /\ \A u \in Objects \ {t} : obj'[u] = obj[u]
        /\ kernel'[f].conn # "closed"
        /\ \A g \in Fds \ {f} : kernel'[g] = kernel[g]
    BY <1>3, <2>1, <2>2 DEF IInv, TypeOK, k
  <2>5. Owners(f) = {} /\ ~Alive(t)
    BY <2>1 DEF IInv, OneOwner, FreeFds, Accept
  <2>6. Owners(f)' = {t}
    BY <2>4, <2>5 DEF Owners, Alive
  <2>7. \A g \in Fds \ {f} : Owners(g)' = Owners(g)
    BY <2>4, <2>5 DEF Owners, Alive
  <2>8. ASSUME NEW g \in Fds
        PROVE  /\ \A u, v \in Owners(g)' : u = v
               /\ (kernel'[g].conn # "closed") <=> (Owners(g)' # {})
    BY <2>4, <2>6, <2>7 DEF IInv, OneOwner
  <2>9. QED
    BY <2>3, <2>8 DEF IInv, OneOwner
<1>4. ASSUME obj' = [obj EXCEPT ![t] = NewObject], UNCHANGED kernel
      PROVE  IInv'
  <2>1. TypeOK'
    BY <1>1, <1>2, <1>4 DEF IInv, TypeOK, ObjectRec
  <2>2. \A f \in Fds : Owners(f)' = Owners(f)
    BY <1>1, <1>4, NoFdIsNone DEF IInv, TypeOK, Owners, Alive, Accept
  <2>3. QED
    BY <1>4, <2>1, <2>2, SameOwners DEF IInv
<1>5. QED
  BY <1>3, <1>4 DEF Accept

-----------------------------------------------------------------------------
(* The common form of listen() and the connects: object s ends as o, its   *)
(* descriptor f as k.                                                      *)
LEMMA AcquireInv ==
    ASSUME IInv, NEW s \in Objects, Alive(s), NEW f \in Descriptor(s),
           NEW o \in ObjectRec, o.alive, o.m_fd = f,
           NEW k \in FdRec, k.conn # "closed",
           obj' = [obj EXCEPT ![s] = o], kernel' = [kernel EXCEPT ![f] = k],
           Ends(s, "none"), moved' \subseteq Objects, unsettled' \subseteq Objects
    PROVE  IInv'
<1>1. f \in Fds
  BY DEF IInv, TypeOK, Descriptor, FreeFds
<1>2. TypeOK'
  BY <1>1 DEF IInv, TypeOK, Ends, ObjectRec, FdRec
<1>3. /\ obj'[s].alive /\ obj'[s].m_fd = f
      /\ \A t \in Objects \ {s} : obj'[t] = obj[t]
      /\ kernel'[f].conn # "closed"
      /\ \A g \in Fds \ {f} : kernel'[g] = kernel[g]
  BY <1>1 DEF IInv, TypeOK
<1>4. OneOwner'
  BY <1>3, Acquire
<1>5. QED
  BY <1>2, <1>4 DEF IInv

(* What socket() and connect() do to a descriptor leaves it open. *)
LEMMA OpenAfterCall ==
    ASSUME IInv, NEW s \in Objects, NEW f \in Descriptor(s)
    PROVE  /\ f \in Fds
           /\ Kernel1(f) \in FdRec /\ Kernel1(f).conn # "closed"
           /\ KernelCalled(Kernel1(f)) \in FdRec
           /\ KernelCalled(Kernel1(f)).conn # "closed"
<1>1. f \in Fds
  BY DEF IInv, TypeOK, Descriptor, FreeFds
<1>2. NewFd \in FdRec /\ NewFd.conn # "closed"
  BY DEF NewFd, ClosedFd, FdRec, ConnStates
<1>3. Kernel1(f) \in FdRec /\ Kernel1(f).conn # "closed"
  BY <1>1, <1>2 DEF IInv, TypeOK, Kernel1, FdRec
<1>4. ASSUME NEW k \in FdRec, k.conn # "closed"
      PROVE  KernelCalled(k) \in FdRec /\ KernelCalled(k).conn # "closed"
  BY <1>4 DEF KernelCalled, FdRec
<1>5. QED
  BY <1>1, <1>3, <1>4

(* listen() *)
LEMMA ListenInv ==
    ASSUME IInv, NEW s \in Objects, Listen(s)
    PROVE  IInv'
<1>1. PICK f \in Descriptor(s), ok \in BOOLEAN :
        /\ obj' = [obj EXCEPT ![s].m_fd = f, ![s].m_state = IF ok THEN "listening" ELSE @]
        /\ kernel' = [kernel EXCEPT ![f] = IF ok THEN [Kernel1(f) EXCEPT !.conn = "listening"]
                                                ELSE Kernel1(f)]
  BY DEF Listen
<1> DEFINE o == [obj[s] EXCEPT !.m_fd = f, !.m_state = IF ok THEN "listening" ELSE @]
           k == IF ok THEN [Kernel1(f) EXCEPT !.conn = "listening"] ELSE Kernel1(f)
<1>2. f \in Fds /\ Alive(s)
  BY OpenAfterCall DEF Listen
<1>3. o \in ObjectRec /\ o.alive /\ o.m_fd = f
  BY <1>2 DEF IInv, TypeOK, ObjectRec, States, Alive
<1>4. k \in FdRec /\ k.conn # "closed"
  BY OpenAfterCall DEF FdRec, ConnStates
<1>5. obj' = [obj EXCEPT ![s] = o] /\ kernel' = [kernel EXCEPT ![f] = k]
  BY <1>1 DEF IInv, TypeOK
<1>6. QED
  BY <1>2, <1>3, <1>4, <1>5, AcquireInv DEF Listen, IInv, TypeOK

(* The connects set three fields of the object.  Which outcomes of the     *)
(* system calls lead to which values does not matter for ownership.        *)
LEMMA ConnectEnds ==
    ASSUME IInv, NEW s \in Objects, Alive(s), NEW f \in Descriptor(s),
           NEW st \in States, NEW nb \in BOOLEAN,
           NEW k \in FdRec, k.conn # "closed",
           obj' = [obj EXCEPT ![s] = [obj[s] EXCEPT !.m_fd = f, !.m_nonblocking = nb,
                                                    !.m_state = st]],
           kernel' = [kernel EXCEPT ![f] = k],
           Ends(s, "none"), moved' \subseteq Objects, unsettled' \subseteq Objects
    PROVE  IInv'
<1> DEFINE o == [obj[s] EXCEPT !.m_fd = f, !.m_nonblocking = nb, !.m_state = st]
<1>1. o \in ObjectRec /\ o.alive /\ o.m_fd = f
  BY OpenAfterCall DEF IInv, TypeOK, ObjectRec, Alive
<1>2. QED
  BY <1>1, AcquireInv

(* The records that connect() writes to the kernel side are well formed. *)
LEMMA KernelEnds ==
    ASSUME NEW k \in FdRec
    PROVE  /\ \A c \in ConnStates : /\ [k EXCEPT !.conn = c] \in FdRec
                                    /\ [k EXCEPT !.conn = c].conn = c
                                    /\ [k EXCEPT !.conn = c, !.nonblock = FALSE] \in FdRec
                                    /\ [k EXCEPT !.conn = c, !.nonblock = FALSE].conn = c
           /\ [k EXCEPT !.nonblock = FALSE] \in FdRec
           /\ [k EXCEPT !.nonblock = FALSE].conn = k.conn
  BY DEF FdRec

(* connect() *)
LEMMA ConnectInv ==
    ASSUME IInv, NEW s \in Objects, Connect(s)
    PROVE  IInv'
<1>0. Alive(s) /\ Ends(s, "none") /\ moved' \subseteq Objects /\ unsettled' \subseteq Objects
  BY DEF Connect, IInv, TypeOK
<1>1. {"connecting", "connected"} \subseteq States
      /\ {"established", "pending", "failed"} \subseteq ConnStates
  BY DEF States, ConnStates
<1>2. PICK f \in Descriptor(s) :
        LET k == KernelCalled(Kernel1(f))
            o == [obj[s] EXCEPT !.m_fd = f, !.m_nonblocking = TRUE, !.m_state = "connecting"]
        IN \/ /\ obj' = [obj EXCEPT ![s].m_fd = f]
              /\ kernel' = [kernel EXCEPT ![f] = Kernel1(f)]
           \/ /\ obj' = [obj EXCEPT ![s] = [o EXCEPT !.m_state = "connected"]]
              /\ kernel' = [kernel EXCEPT ![f] = [k EXCEPT !.conn = "established"]]
           \/ /\ obj' = [obj EXCEPT ![s] = o]
              /\ \/ kernel' = [kernel EXCEPT ![f] = k]
                 \/ kernel' = [kernel EXCEPT ![f] = [k EXCEPT !.conn = "pending"]]
                 \/ kernel' = [kernel EXCEPT ![f] = [k EXCEPT !.conn = "failed"]]
           \/ /\ obj' = [obj EXCEPT ![s] = [o EXCEPT !.m_state = "connected",
                                                     !.m_nonblocking = FALSE]]
              /\ kernel' = [kernel EXCEPT ![f] = [k EXCEPT !.conn = "established",
                                                           !.nonblock = FALSE]]
  BY Zenon DEF Connect
<1> DEFINE k == KernelCalled(Kernel1(f))
           o == [obj[s] EXCEPT !.m_fd = f, !.m_nonblocking = TRUE, !.m_state = "connecting"]
<1>3. k \in FdRec /\ k.conn # "closed"
  BY OpenAfterCall
<1>4. CASE obj' = [obj EXCEPT ![s].m_fd = f] /\ kernel' = [kernel EXCEPT ![f] = Kernel1(f)]
  <2> DEFINE p == [obj[s] EXCEPT !.m_fd = f]
  <2>1. p \in ObjectRec /\ p.alive /\ p.m_fd = f
    BY <1>0, OpenAfterCall DEF IInv, TypeOK, ObjectRec, Alive
  <2>2. obj' = [obj EXCEPT ![s] = p]
    BY <1>4 DEF IInv, TypeOK
  <2>3. QED
    BY <1>0, <1>4, <2>1, <2>2, OpenAfterCall, AcquireInv
<1>5. CASE /\ obj' = [obj EXCEPT ![s] = [o EXCEPT !.m_state = "connected"]]
           /\ kernel' = [kernel EXCEPT ![f] = [k EXCEPT !.conn = "established"]]
  <2>1. [o EXCEPT !.m_state = "connected"]
            = [obj[s] EXCEPT !.m_fd = f, !.m_nonblocking = TRUE, !.m_state = "connected"]
    BY DEF IInv, TypeOK
  <2>2. /\ [k EXCEPT !.conn = "established"] \in FdRec
        /\ [k EXCEPT !.conn = "established"].conn # "closed"
    BY <1>1, <1>3, KernelEnds
  <2> HIDE DEF k
  <2>3. QED
    BY <1>0, <1>1, <1>5, <2>1, <2>2, ConnectEnds
<1>6. ASSUME NEW l \in FdRec, l.conn # "closed",
             obj' = [obj EXCEPT ![s] = o], kernel' = [kernel EXCEPT ![f] = l]
      PROVE  IInv'
  BY <1>0, <1>1, <1>6, ConnectEnds
<1>7. CASE /\ obj' = [obj EXCEPT ![s] = [o EXCEPT !.m_state = "connected",
                                                 !.m_nonblocking = FALSE]]
           /\ kernel' = [kernel EXCEPT ![f] = [k EXCEPT !.conn = "established",
                                                       !.nonblock = FALSE]]
  <2>1. [o EXCEPT !.m_state = "connected", !.m_nonblocking = FALSE]
            = [obj[s] EXCEPT !.m_fd = f, !.m_nonblocking = FALSE, !.m_state = "connected"]
    BY DEF IInv, TypeOK
  <2>2. /\ [k EXCEPT !.conn = "established", !.nonblock = FALSE] \in FdRec
        /\ [k EXCEPT !.conn = "established", !.nonblock = FALSE].conn # "closed"
    BY ZenonT(30), <1>1, <1>3, KernelEnds
  <2> HIDE DEF k
  <2>3. QED
    BY <1>0, <1>1, <1>7, <2>1, <2>2, ConnectEnds
<1>8. \A c \in {"pending", "failed"} : /\ [k EXCEPT !.conn = c] \in FdRec
                                      /\ [k EXCEPT !.conn = c].conn # "closed"
  BY <1>1, <1>3, KernelEnds
<1>9. QED
  BY <1>2, <1>3, <1>4, <1>5, <1>6, <1>7, <1>8

(* connect() to a unix address *)
LEMMA ConnectUnixInv ==
    ASSUME IInv, NEW s \in Objects, ConnectUnix(s)
    PROVE  IInv'
<1>0. Alive(s) /\ Ends(s, "none") /\ moved' \subseteq Objects
  BY DEF ConnectUnix, IInv, TypeOK
<1>1. unsettled' \subseteq Objects
  BY DEF ConnectUnix, IInv, TypeOK
<1>2. "connected" \in States /\ "established" \in ConnStates /\ obj[s].m_state \in States
  BY DEF States, ConnStates, IInv, TypeOK
<1>3. PICK f \in Descriptor(s) :
        LET k == KernelCalled(Kernel1(f))
            o == [obj[s] EXCEPT !.m_fd = f, !.m_nonblocking = TRUE]
        IN \/ /\ obj' = [obj EXCEPT ![s] = [o EXCEPT !.m_state = "connected"]]
              /\ kernel' = [kernel EXCEPT ![f] = [k EXCEPT !.conn = "established"]]
           \/ /\ obj' = [obj EXCEPT ![s] = o]
              /\ kernel' = [kernel EXCEPT ![f] = k]
           \/ /\ obj' = [obj EXCEPT ![s] = [o EXCEPT !.m_state = "connected",
                                                     !.m_nonblocking = FALSE]]
              /\ kernel' = [kernel EXCEPT ![f] = [k EXCEPT !.nonblock = FALSE]]
  BY Zenon DEF ConnectUnix
<1> DEFINE k == KernelCalled(Kernel1(f))
           o == [obj[s] EXCEPT !.m_fd = f, !.m_nonblocking = TRUE]
<1>4. k \in FdRec /\ k.conn # "closed"
  BY OpenAfterCall
<1>5. /\ [k EXCEPT !.conn = "established"] \in FdRec
      /\ [k EXCEPT !.conn = "established"].conn # "closed"
      /\ [k EXCEPT !.nonblock = FALSE] \in FdRec
      /\ [k EXCEPT !.nonblock = FALSE].conn # "closed"
  BY <1>2, <1>4, KernelEnds
<1>6. /\ [o EXCEPT !.m_state = "connected"]
            = [obj[s] EXCEPT !.m_fd = f, !.m_nonblocking = TRUE, !.m_state = "connected"]
      /\ [o EXCEPT !.m_state = "connected", !.m_nonblocking = FALSE]
            = [obj[s] EXCEPT !.m_fd = f, !.m_nonblocking = FALSE, !.m_state = "connected"]
      /\ o = [obj[s] EXCEPT !.m_fd = f, !.m_nonblocking = TRUE, !.m_state = obj[s].m_state]
  BY DEF IInv, TypeOK
<1>7. CASE /\ obj' = [obj EXCEPT ![s] = [o EXCEPT !.m_state = "connected"]]
           /\ kernel' = [kernel EXCEPT ![f] = [k EXCEPT !.conn = "established"]]
  <2> HIDE DEF k
  <2>1. QED
    BY <1>0, <1>1, <1>2, <1>5, <1>6, <1>7, ConnectEnds
<1>8. CASE obj' = [obj EXCEPT ![s] = o] /\ kernel' = [kernel EXCEPT ![f] = k]
  <2> HIDE DEF k
  <2>1. QED
    BY <1>0, <1>1, <1>2, <1>4, <1>6, <1>8, ConnectEnds
<1>9. CASE /\ obj' = [obj EXCEPT ![s] = [o EXCEPT !.m_state = "connected",
                                                 !.m_nonblocking = FALSE]]
           /\ kernel' = [kernel EXCEPT ![f] = [k EXCEPT !.nonblock = FALSE]]
  <2> HIDE DEF k
  <2>1. QED
    BY <1>0, <1>1, <1>2, <1>5, <1>6, <1>9, ConnectEnds
<1>10. QED
  BY <1>3, <1>7, <1>8, <1>9

(* connect_async(), the first call *)
LEMMA AsyncStartInv ==
    ASSUME IInv, NEW s \in Objects, ConnectAsyncStart(s)
    PROVE  IInv'
<1>0. /\ Alive(s) /\ Ends(s, "none")
      /\ moved' \subseteq Objects /\ unsettled' \subseteq Objects
  BY DEF ConnectAsyncStart, IInv, TypeOK
<1> DEFINE o(f) == [obj[s] EXCEPT !.m_fd = f, !.m_nonblocking = TRUE, !.m_state = "connecting"]
           k(f) == KernelCalled(Kernel1(f))
<1>1. PICK f \in Descriptor(s) : \E call \in ConnectCalls(Kernel1(f)) :
        /\ obj' = [obj EXCEPT ![s] = IF call = "ok" THEN [o(f) EXCEPT !.m_state = "connected"]
                                                    ELSE o(f)]
        /\ kernel' = [kernel EXCEPT ![f] =
                [k(f) EXCEPT !.conn = CASE call = "ok" -> "established"
                                        [] call = "in_progress" -> "pending"
                                        [] call = "error" -> @]]
  BY DEF ConnectAsyncStart
<1>1a. PICK call \in ConnectCalls(Kernel1(f)) :
        /\ obj' = [obj EXCEPT ![s] = IF call = "ok" THEN [o(f) EXCEPT !.m_state = "connected"]
                                                    ELSE o(f)]
        /\ kernel' = [kernel EXCEPT ![f] =
                [k(f) EXCEPT !.conn = CASE call = "ok" -> "established"
                                        [] call = "in_progress" -> "pending"
                                        [] call = "error" -> @]]
  BY <1>1
<1>2. call \in {"ok", "in_progress", "error"}
  BY DEF ConnectCalls
<1>3. k(f) \in FdRec /\ k(f).conn # "closed"
  BY OpenAfterCall
<1> DEFINE c == CASE call = "ok" -> "established"
                  [] call = "in_progress" -> "pending"
                  [] call = "error" -> k(f).conn
           st == IF call = "ok" THEN "connected" ELSE "connecting"
<1>4. c \in ConnStates /\ c # "closed" /\ st \in States
  <2>1. k(f).conn \in ConnStates
    BY <1>3 DEF FdRec
  <2>2. QED
    BY <1>2, <1>3, <2>1 DEF ConnStates, States
<1>5. [k(f) EXCEPT !.conn = c] \in FdRec /\ [k(f) EXCEPT !.conn = c].conn # "closed"
  BY <1>3, <1>4, KernelEnds
<1>6. (IF call = "ok" THEN [o(f) EXCEPT !.m_state = "connected"] ELSE o(f))
        = [obj[s] EXCEPT !.m_fd = f, !.m_nonblocking = TRUE, !.m_state = st]
  BY DEF IInv, TypeOK
<1>7. /\ obj' = [obj EXCEPT ![s] = [obj[s] EXCEPT !.m_fd = f, !.m_nonblocking = TRUE,
                                                  !.m_state = st]]
      /\ kernel' = [kernel EXCEPT ![f] = [k(f) EXCEPT !.conn = c]]
  BY <1>1a, <1>6
<1> HIDE DEF k, c, st
<1>8. QED
  BY <1>0, <1>4, <1>5, <1>7, ConnectEnds

(* connect_async(), called again *)
LEMMA AsyncAgainInv ==
    ASSUME IInv, NEW s \in Objects, ConnectAsyncAgain(s)
    PROVE  IInv'
<1>0. /\ Alive(s) /\ Ends(s, "none")
      /\ moved' \subseteq Objects /\ unsettled' \subseteq Objects
  BY DEF ConnectAsyncAgain, IInv, TypeOK
<1>1. PICK f \in Descriptor(s) :
        /\ obj' = [obj EXCEPT ![s].m_fd = f,
                              ![s].m_state = IF Kernel1(f).so_error THEN "connecting"
                                                                    ELSE "connected"]
        /\ kernel' = [kernel EXCEPT ![f] = [Kernel1(f) EXCEPT !.so_error = FALSE]]
  BY DEF ConnectAsyncAgain
<1> DEFINE st == IF Kernel1(f).so_error THEN "connecting" ELSE "connected"
           o == [obj[s] EXCEPT !.m_fd = f, !.m_state = st]
           k == [Kernel1(f) EXCEPT !.so_error = FALSE]
<1>2. o \in ObjectRec /\ o.alive /\ o.m_fd = f
  <2>1. st \in States
    BY DEF States
  <2> HIDE DEF st
  <2>2. QED
    BY <1>0, <2>1, OpenAfterCall DEF IInv, TypeOK, ObjectRec, Alive
<1>3. k \in FdRec /\ k.conn # "closed"
  BY OpenAfterCall DEF FdRec
<1>4. obj' = [obj EXCEPT ![s] = o] /\ kernel' = [kernel EXCEPT ![f] = k]
  BY <1>1 DEF IInv, TypeOK
<1> HIDE DEF o, k
<1>5. QED
  BY <1>0, <1>2, <1>3, <1>4, AcquireInv

(* connect_async() on an object that was moved from: the new descriptor    *)
(* and nothing else.                                                       *)
LEMMA AsyncMovedInv ==
    ASSUME IInv, NEW s \in Objects, ConnectAsyncMoved(s)
    PROVE  IInv'
<1>1. /\ Alive(s) /\ Ends(s, "none") /\ obj[s].m_fd = NoFd
      /\ moved' \subseteq Objects /\ unsettled' \subseteq Objects
  BY DEF ConnectAsyncMoved, IInv, TypeOK
<1>2. PICK f \in FreeFds : /\ obj' = [obj EXCEPT ![s].m_fd = f]
                          /\ kernel' = [kernel EXCEPT ![f] = NewFd]
  BY DEF ConnectAsyncMoved
<1> DEFINE o == [obj[s] EXCEPT !.m_fd = f]
<1>3. f \in Descriptor(s) /\ f \in Fds
  BY <1>1 DEF Descriptor, FreeFds
<1>4. o \in ObjectRec /\ o.alive /\ o.m_fd = f
  BY <1>1, <1>3 DEF IInv, TypeOK, ObjectRec, Alive
<1>5. NewFd \in FdRec /\ NewFd.conn # "closed"
  BY DEF NewFd, ClosedFd, FdRec, ConnStates
<1>6. obj' = [obj EXCEPT ![s] = o]
  BY <1>2 DEF IInv, TypeOK
<1> HIDE DEF o
<1>7. QED
  BY <1>1, <1>2, <1>3, <1>4, <1>5, <1>6, AcquireInv

(* Every method and every step of the network keeps the invariant. *)
LEMMA NextInv == IInv /\ [Next]_vars => IInv'
<1> SUFFICES ASSUME IInv, [Next]_vars PROVE IInv'
  OBVIOUS
<1>1. CASE UNCHANGED vars
  BY <1>1 DEF vars, IInv, TypeOK, OneOwner, Owners, Alive
<1>2. CASE Next
  BY <1>2, ConstructInv, MoveInv, CloseInv, FlagsInv, NetworkInv, AcceptInv, ListenInv,
     ConnectInv, ConnectUnixInv, AsyncStartInv, AsyncAgainInv, AsyncMovedInv DEF Next
<1>3. QED
  BY <1>1, <1>2

-----------------------------------------------------------------------------
(* Through any sequence of constructions, moves, connects, accepts,        *)
(* transfers and closes, every open descriptor has exactly one living      *)
(* owner and no object holds a closed one.                                 *)
THEOREM Ownership == ChannelsSpec => [](TypeOK /\ OneOwner)
<1>1. IInv => TypeOK /\ OneOwner
  BY DEF IInv
<1>2. QED
  BY <1>1, InitInv, NextInv, SocketsApart, PTL DEF Spec

-----------------------------------------------------------------------------
(* The argument about the state of the objects rests on ownership: no      *)
(* other object can change the descriptor under one.                       *)
Real == {"established", "eof", "reset"}

(* The descriptor does not block, and does so because somebody said so to  *)
(* it: it did not come that way out of accept().                           *)
Aware(k) == k.nonblock /\ ~k.inherited

(* An object in state o whose descriptor is in state k: on the way to a    *)
(* connection and on one both sides agree on the blocking mode, and        *)
(* "connected" is true unless SO_ERROR was asked too early.                *)
Agree(o, k, doubtful) ==
    /\ o.m_state \in {"connecting", "connected"} => (o.m_nonblocking <=> Aware(k))
    /\ o.m_state = "connected" /\ ~doubtful => k.conn \in Real

(* What the last transfer told the caller is still true of the descriptor. *)
ResultTrue(r, k) ==
    /\ r = "again" => Aware(k)
    /\ r = "timeout" => ~Aware(k)

ObjectRight(s) ==
    /\ ~Alive(s) => obj[s].m_fd = NoFd
    /\ s \notin moved /\ obj[s].m_fd = NoFd => obj[s].m_state = "disconnected"
    /\ s \notin moved /\ obj[s].m_fd # NoFd =>
        /\ Agree(obj[s], kernel[obj[s].m_fd], s \in unsettled)
        /\ ResultTrue(result[s], kernel[obj[s].m_fd])

StateInv == IInv /\ \A s \in Objects : ObjectRight(s)

-----------------------------------------------------------------------------
(* Init: no object has a descriptor. *)
LEMMA InitState == Init => StateInv
  BY InitInv DEF Init, StateInv, ObjectRight, Alive, NoObject, NewObject

(* The invariant states both properties of the runs. *)
LEMMA StateInvIsEnough == StateInv => BlockingModeHonoured /\ ConnectedIsReal
  BY DEF StateInv, ObjectRight, Agree, ResultTrue, Aware, Real, BlockingModeHonoured, ConnectedIsReal

(* A call that leaves an object's fields and its descriptor alone leaves   *)
(* it right.                                                               *)
LEMMA Untouched ==
    ASSUME NEW t \in Objects, ObjectRight(t),
           obj'[t] = obj[t], result'[t] = result[t],
           t \in moved' <=> t \in moved, t \in unsettled' <=> t \in unsettled,
           obj[t].m_fd = NoFd \/ kernel'[obj[t].m_fd] = kernel[obj[t].m_fd]
    PROVE  ObjectRight(t)'
  BY DEF ObjectRight, Agree, ResultTrue, Alive

(* The descriptor an object has, or is about to get, is no other object's. *)
LEMMA OthersDescriptor ==
    ASSUME StateInv, NEW s \in Objects, Alive(s), NEW f \in Descriptor(s),
           NEW t \in Objects \ {s}
    PROVE  obj[t].m_fd # f
<1> SUFFICES ASSUME obj[t].m_fd = f PROVE FALSE
  OBVIOUS
<1>1. f \in Fds
  BY OpenAfterCall DEF StateInv
<1>2. t \in Owners(f)
  BY <1>1, NoFdIsNone DEF StateInv, ObjectRight, Owners
<1>3. CASE obj[s].m_fd = NoFd
  BY <1>1, <1>2, <1>3 DEF StateInv, IInv, OneOwner, Descriptor, FreeFds
<1>4. CASE obj[s].m_fd # NoFd
  <2>1. s \in Owners(f)
    BY <1>4 DEF Descriptor, Owners
  <2>2. QED
    BY <1>1, <1>2, <2>1 DEF StateInv, IInv, OneOwner
<1>5. QED
  BY <1>3, <1>4

(* A call on s that gives its object the state o and its descriptor f the  *)
(* state k keeps every object right if these two agree.                    *)
LEMMA CallRight ==
    ASSUME StateInv, NEW s \in Objects, Alive(s), NEW f \in Descriptor(s),
           NEW o, o.alive, o.m_fd = f, NEW k,
           obj' = [obj EXCEPT ![s] = o], kernel' = [kernel EXCEPT ![f] = k],
           Ends(s, "none"), moved' = moved,
           \A t \in Objects \ {s} : t \in unsettled' <=> t \in unsettled,
           s \notin moved => Agree(o, k, s \in unsettled')
    PROVE  \A t \in Objects : ObjectRight(t)'
<1>1. f \in Fds
  BY OpenAfterCall DEF StateInv
<1>2. /\ obj'[s] = o /\ kernel'[f] = k /\ result'[s] = "none"
      /\ \A t \in Objects \ {s} : obj'[t] = obj[t] /\ result'[t] = result[t]
      /\ \A g \in Fds \ {f} : kernel'[g] = kernel[g]
  BY <1>1 DEF StateInv, IInv, TypeOK, Ends
<1>3. ObjectRight(s)'
  <2>1. f # NoFd
    BY <1>1, NoFdIsNone
  <2>2. ResultTrue(result'[s], k)
    BY <1>2 DEF ResultTrue
  <2>3. QED
    BY <1>2, <2>1, <2>2 DEF ObjectRight, Alive, Agree, ResultTrue
<1>4. ASSUME NEW t \in Objects \ {s} PROVE ObjectRight(t)'
  <2>1. ObjectRight(t)
    BY DEF StateInv
  <2>2. obj[t].m_fd = NoFd \/ kernel'[obj[t].m_fd] = kernel[obj[t].m_fd]
    BY <1>2, OthersDescriptor DEF StateInv, IInv, TypeOK
  <2>3. QED
    BY <1>2, <2>1, <2>2, Untouched
<1>5. QED
  BY <1>3, <1>4

(* An object that speaks for itself and had no descriptor was              *)
(* disconnected; the others agreed with theirs before the call.            *)
LEMMA AgreedBefore ==
    ASSUME StateInv, NEW s \in Objects, s \notin moved, NEW f \in Descriptor(s)
    PROVE  Agree(obj[s], Kernel1(f), s \in unsettled)
<1>1. f \in Fds
  BY OpenAfterCall DEF StateInv
<1>2. ObjectRight(s)
  BY DEF StateInv
<1>3. CASE obj[s].m_fd = NoFd
  BY <1>2, <1>3 DEF ObjectRight, Agree
<1>4. CASE obj[s].m_fd # NoFd
  <2>1. f = obj[s].m_fd
    BY <1>4 DEF Descriptor
  <2>2. CASE Alive(s)
    <3>1. s \in Owners(f)
      BY <2>1, <2>2 DEF Owners
    <3>2. kernel[f].conn # "closed"
      BY <1>1, <3>1 DEF StateInv, IInv, OneOwner
    <3>3. QED
      BY <1>2, <1>4, <2>1, <3>2 DEF ObjectRight, Kernel1
  <2>3. CASE ~Alive(s)
    BY <1>2, <1>4, <2>3 DEF ObjectRight
  <2>4. QED
    BY <2>2, <2>3
<1>5. QED
  BY <1>3, <1>4

-----------------------------------------------------------------------------
(* Construction: an object without a descriptor. *)
LEMMA ConstructRight ==
    ASSUME StateInv, NEW s \in Objects, Construct(s)
    PROVE  \A t \in Objects : ObjectRight(t)'
<1>1. /\ obj'[s] = NewObject
      /\ \A t \in Objects \ {s} : obj'[t] = obj[t] /\ result'[t] = result[t]
      /\ kernel' = kernel /\ moved' = moved /\ unsettled' = unsettled
  BY DEF Construct, Ends, StateInv, IInv, TypeOK
<1>2. ObjectRight(s)'
  BY <1>1 DEF ObjectRight, Alive, NewObject
<1>3. \A t \in Objects \ {s} : ObjectRight(t)'
  BY <1>1, Untouched DEF StateInv
<1>4. QED
  BY <1>2, <1>3

(* A move: what was right of the source is right of the target, and the    *)
(* source is marked as moved from.                                         *)
LEMMA MoveRight ==
    ASSUME StateInv, NEW s \in Objects, NEW t \in Objects, Move(s, t)
    PROVE  \A u \in Objects : ObjectRight(u)'
<1>1. s # t
  BY DEF Move
<1>2. /\ obj'[t] = obj[s] /\ obj'[s].m_fd = NoFd /\ obj'[s].alive
      /\ result'[t] = "none"
      /\ \A u \in Objects \ {s, t} : obj'[u] = obj[u] /\ result'[u] = result[u]
      /\ kernel' = kernel
  BY <1>1 DEF Move, StateInv, IInv, TypeOK, Alive
<1>3. /\ s \in moved' /\ (s \in moved => t \in moved')
      /\ s \in unsettled => t \in unsettled'
      /\ \A u \in Objects \ {s, t} : /\ u \in moved' <=> u \in moved
                                     /\ u \in unsettled' <=> u \in unsettled
  BY DEF Move
<1>4. ObjectRight(s)'
  BY <1>2, <1>3 DEF ObjectRight, Alive
<1>5. ObjectRight(t)'
  <2>1. ObjectRight(s) /\ Alive(s)
    BY DEF StateInv, Move
  <2>2. QED
    BY <1>2, <1>3, <2>1 DEF ObjectRight, Alive, Agree, ResultTrue
<1>6. \A u \in Objects \ {s, t} : ObjectRight(u)'
  BY <1>2, <1>3, Untouched DEF StateInv
<1>7. QED
  BY <1>4, <1>5, <1>6

(* close(), the destructor and a transfer on an ended connection leave an  *)
(* object without descriptor that says it is disconnected.                 *)
LEMMA CloseRight ==
    ASSUME StateInv, NEW s \in Objects, Close(s) \/ Destroy(s) \/ TransferCloses(s)
    PROVE  \A t \in Objects : ObjectRight(t)'
<1>1. /\ obj'[s].m_fd = NoFd /\ obj'[s].m_state = "disconnected"
      /\ \A t \in Objects \ {s} : obj'[t] = obj[t]
  <2>1. ObjectClosed(obj[s]).m_fd = NoFd /\ ObjectClosed(obj[s]).m_state = "disconnected"
    BY DEF ObjectClosed, StateInv, IInv, TypeOK
  <2>2. NoObject.m_fd = NoFd /\ NoObject.m_state = "disconnected"
    BY DEF NoObject, NewObject
  <2>3. obj' = [obj EXCEPT ![s] = ObjectClosed(obj[s])] \/ obj' = [obj EXCEPT ![s] = NoObject]
    BY DEF Close, Destroy, TransferCloses
  <2>4. QED
    BY <2>1, <2>2, <2>3 DEF StateInv, IInv, TypeOK
<1>2. /\ Alive(s) /\ kernel' = KernelClosed(obj[s].m_fd)
      /\ \A t \in Objects \ {s} : /\ result'[t] = result[t]
                                  /\ t \in moved' <=> t \in moved
                                  /\ t \in unsettled' <=> t \in unsettled
  BY DEF Close, Destroy, TransferCloses, Transfers, Ends, StateInv, IInv, TypeOK
<1>3. ObjectRight(s)'
  BY <1>1 DEF ObjectRight
<1>4. ASSUME NEW t \in Objects \ {s} PROVE ObjectRight(t)'
  <2>1. CASE obj[s].m_fd = NoFd
    BY <1>1, <1>2, <2>1, Untouched DEF KernelClosed, StateInv
  <2>2. CASE obj[s].m_fd # NoFd
    <3>1. obj[s].m_fd \in Descriptor(s)
      BY <2>2 DEF Descriptor
    <3>2. obj[t].m_fd # obj[s].m_fd
      BY <1>2, <3>1, OthersDescriptor
    <3>3. obj[t].m_fd = NoFd \/ kernel'[obj[t].m_fd] = kernel[obj[t].m_fd]
      BY <1>2, <2>2, <3>2 DEF KernelClosed, StateInv, IInv, TypeOK
    <3>4. QED
      BY <1>1, <1>2, <3>3, Untouched DEF StateInv
  <2>3. QED
    BY <2>1, <2>2
<1>5. QED
  BY <1>3, <1>4

(* set_nonblocking() tells both sides. *)
LEMMA SetNonblockingRight ==
    ASSUME StateInv, NEW s \in Objects, NEW flag \in BOOLEAN, SetNonblocking(s, flag)
    PROVE  \A t \in Objects : ObjectRight(t)'
<1> DEFINE f == obj[s].m_fd
           o == [obj[s] EXCEPT !.m_nonblocking = flag]
           k == [kernel[f] EXCEPT !.nonblock = flag, !.inherited = FALSE]
<1>1. f \in Descriptor(s) /\ f \in Fds
  BY DEF SetNonblocking, Descriptor, StateInv, IInv, TypeOK
<1>2. /\ o.alive /\ o.m_fd = f /\ o.m_state = obj[s].m_state /\ o.m_nonblocking = flag
      /\ Aware(k) = flag /\ k.conn = kernel[f].conn
  BY <1>1 DEF SetNonblocking, Alive, Aware, StateInv, IInv, TypeOK
<1>3. s \notin moved => Agree(o, k, s \in unsettled)
  <2>1. ObjectRight(s) /\ f # NoFd
    BY DEF StateInv, SetNonblocking
  <2>2. QED
    BY <1>2, <2>1 DEF ObjectRight, Agree
<1>4. /\ obj' = [obj EXCEPT ![s] = o] /\ kernel' = [kernel EXCEPT ![f] = k]
      /\ Alive(s) /\ Ends(s, "none") /\ moved' = moved /\ unsettled' = unsettled
  BY <1>1 DEF SetNonblocking, StateInv, IInv, TypeOK
<1> HIDE DEF f, o, k
<1>5. QED
  BY <1>1, <1>2, <1>3, <1>4, CallRight

(* A transfer that would block reports the mode the object believes in,    *)
(* which is the kernel's; the others report neither.                       *)
LEMMA TransferRight ==
    ASSUME StateInv, NEW s \in Objects, TransferOk(s) \/ WouldBlock(s) \/ TransferFails(s)
    PROVE  \A t \in Objects : ObjectRight(t)'
<1>1. UNCHANGED <<obj, kernel, moved, unsettled>> /\ Transfers(s)
  BY DEF TransferOk, WouldBlock, TransferFails
<1>2. \A t \in Objects \ {s} : result'[t] = result[t]
  BY DEF TransferOk, WouldBlock, TransferFails, Ends, StateInv, IInv, TypeOK
<1>3. \/ result'[s] \in {"ok", "error"}
      \/ result'[s] = "again" /\ obj[s].m_nonblocking
      \/ result'[s] = "timeout" /\ ~obj[s].m_nonblocking
  BY DEF TransferOk, WouldBlock, TransferFails, Ends, StateInv, IInv, TypeOK
<1>4. ObjectRight(s)'
  <2>1. ObjectRight(s)
    BY DEF StateInv
  <2>2. s \notin moved => (obj[s].m_nonblocking <=> Aware(kernel[obj[s].m_fd]))
    BY <1>1, <2>1 DEF ObjectRight, Agree, Transfers
  <2>3. s \notin moved => ResultTrue(result'[s], kernel[obj[s].m_fd])
    BY <1>3, <2>2 DEF ResultTrue
  <2>4. QED
    BY <1>1, <2>1, <2>3 DEF ObjectRight, Alive, Agree, ResultTrue
<1>5. \A t \in Objects \ {s} : ObjectRight(t)'
  BY <1>1, <1>2, Untouched DEF StateInv
<1>6. QED
  BY <1>4, <1>5

(* The network changes no blocking mode, and a connection that was stays   *)
(* one that was.                                                           *)
LEMMA NetworkRight ==
    ASSUME StateInv, NEW f \in Fds, Network(f)
    PROVE  \A t \in Objects : ObjectRight(t)'
<1>1. UNCHANGED <<obj, result, moved, unsettled>>
  BY DEF Network, NetworkStep
<1>2. \A g \in Fds : /\ Aware(kernel'[g]) <=> Aware(kernel[g])
                     /\ kernel[g].conn \in Real => kernel'[g].conn \in Real
  <2>1. \A g \in Fds : /\ kernel'[g].nonblock = kernel[g].nonblock
                       /\ kernel'[g].inherited = kernel[g].inherited
    BY DEF Network, NetworkStep, StateInv, IInv, TypeOK
  <2> DEFINE Stays == \A g \in Fds : kernel[g].conn \in Real => kernel'[g].conn \in Real
  <2>2. ASSUME NEW from, NEW to, NEW err, NetworkStep(f, from, to, err),
               from \in Real => to \in Real
        PROVE  Stays
    BY <2>2 DEF NetworkStep, StateInv, IInv, TypeOK
  <2> HIDE DEF Stays
  <2>3. /\ NetworkStep(f, "pending", "established", FALSE) => Stays
        /\ NetworkStep(f, "pending", "failed", TRUE) => Stays
        /\ NetworkStep(f, "established", "eof", FALSE) => Stays
        /\ NetworkStep(f, "established", "reset", TRUE) => Stays
        /\ NetworkStep(f, "eof", "reset", TRUE) => Stays
    BY <2>2 DEF Real
  <2>4. Stays
    BY <2>3 DEF Network
  <2>5. QED
    BY <2>1, <2>4 DEF Aware, Stays
<1>3. ASSUME NEW t \in Objects PROVE ObjectRight(t)'
  <2>1. ObjectRight(t)
    BY DEF StateInv
  <2>2. CASE obj[t].m_fd = NoFd
    BY <1>1, <2>1, <2>2 DEF ObjectRight, Alive
  <2>3. CASE obj[t].m_fd # NoFd
    <3>1. obj[t].m_fd \in Fds
      BY <2>3 DEF StateInv, IInv, TypeOK
    <3>2. QED
      BY <1>1, <1>2, <2>1, <2>3, <3>1 DEF ObjectRight, Alive, Agree, ResultTrue
  <2>4. QED
    BY <2>2, <2>3
<1>4. QED
  BY <1>3

(* accept(): the new object is connected and blocking, and its descriptor  *)
(* is blocking or inherited the mode; or it has none.                      *)
LEMMA AcceptRight ==
    ASSUME StateInv, NEW s \in Objects, NEW t \in Objects, Accept(s, t)
    PROVE  \A u \in Objects : ObjectRight(u)'
<1>1. /\ moved' = moved /\ unsettled' = unsettled /\ result'[t] = "none"
      /\ \A u \in Objects \ {s, t} : result'[u] = result[u]
      /\ s # t /\ result'[s] = "none"
  BY DEF Accept, StateInv, IInv, TypeOK
<1>2. ASSUME NEW f \in FreeFds,
             obj' = [obj EXCEPT ![t] = [NewObject EXCEPT !.m_fd = f, !.m_state = "connected"]],
             kernel' = [kernel EXCEPT ![f] = AcceptedFd(s)]
      PROVE  \A u \in Objects : ObjectRight(u)'
  <2>1. f \in Fds /\ f # NoFd
    BY NoFdIsNone DEF FreeFds
  <2>2. /\ obj'[t].alive /\ obj'[t].m_fd = f /\ obj'[t].m_state = "connected"
        /\ ~obj'[t].m_nonblocking
        /\ kernel'[f].conn = "established" /\ ~Aware(kernel'[f])
        /\ \A u \in Objects \ {t} : obj'[u] = obj[u]
        /\ \A g \in Fds \ {f} : kernel'[g] = kernel[g]
    <3>1. /\ obj[s].m_fd # NoFd /\ AcceptedFd(s).conn = "established"
          /\ ~Aware(AcceptedFd(s))
      BY AcceptedOpen DEF Accept, Aware, StateInv
    <3>2. kernel'[f] = AcceptedFd(s) /\ \A g \in Fds \ {f} : kernel'[g] = kernel[g]
      BY <1>2, <2>1 DEF StateInv, IInv, TypeOK
    <3>3. QED
      BY <1>2, <2>1, <3>1, <3>2 DEF NewObject, StateInv, IInv, TypeOK
  <2>3. ObjectRight(t)'
    BY <1>1, <2>1, <2>2 DEF ObjectRight, Alive, Agree, ResultTrue, Real
  <2>4. ASSUME NEW u \in Objects \ {t} PROVE ObjectRight(u)'
    <3>1. obj[u].m_fd # f
      <4>1. Owners(f) = {}
        BY <2>1 DEF StateInv, IInv, OneOwner, FreeFds
      <4>2. ObjectRight(u)
        BY DEF StateInv
      <4>3. QED
        BY <2>1, <4>1, <4>2 DEF Owners, ObjectRight
    <3>2. obj[u].m_fd = NoFd \/ kernel'[obj[u].m_fd] = kernel[obj[u].m_fd]
      BY <2>2, <3>1 DEF StateInv, IInv, TypeOK
    <3>3. result'[u] = result[u] \/ result'[u] = "none"
      BY <1>1
    <3>4. ObjectRight(u)
      BY DEF StateInv
    <3>5. QED
      BY <1>1, <2>2, <3>2, <3>3, <3>4 DEF ObjectRight, Alive, Agree, ResultTrue
  <2>5. QED
    BY <2>3, <2>4
<1>3. ASSUME obj' = [obj EXCEPT ![t] = NewObject], UNCHANGED kernel
      PROVE  \A u \in Objects : ObjectRight(u)'
  <2>1. obj'[t] = NewObject /\ \A u \in Objects \ {t} : obj'[u] = obj[u]
    BY <1>3 DEF StateInv, IInv, TypeOK
  <2>2. ObjectRight(t)'
    BY <2>1 DEF ObjectRight, Alive, NewObject
  <2>3. ASSUME NEW u \in Objects \ {t} PROVE ObjectRight(u)'
    <3>1. ObjectRight(u) /\ (result'[u] = result[u] \/ result'[u] = "none")
      BY <1>1 DEF StateInv
    <3>2. QED
      BY <1>1, <1>3, <2>1, <3>1 DEF ObjectRight, Alive, Agree, ResultTrue
  <2>4. QED
    BY <2>2, <2>3
<1>4. QED
  BY <1>2, <1>3 DEF Accept

-----------------------------------------------------------------------------
(* listen(): a failure changes neither side, a success leaves the states   *)
(* the modes are compared in.                                              *)
LEMMA ListenRight ==
    ASSUME StateInv, NEW s \in Objects, Listen(s)
    PROVE  \A t \in Objects : ObjectRight(t)'
<1>1. PICK f \in Descriptor(s), ok \in BOOLEAN :
        /\ obj' = [obj EXCEPT ![s].m_fd = f, ![s].m_state = IF ok THEN "listening" ELSE @]
        /\ kernel' = [kernel EXCEPT ![f] = IF ok THEN [Kernel1(f) EXCEPT !.conn = "listening"]
                                                ELSE Kernel1(f)]
  BY DEF Listen
<1> DEFINE o == [obj[s] EXCEPT !.m_fd = f, !.m_state = IF ok THEN "listening" ELSE @]
           k == IF ok THEN [Kernel1(f) EXCEPT !.conn = "listening"] ELSE Kernel1(f)
<1>2. /\ Alive(s) /\ Ends(s, "none") /\ moved' = moved /\ unsettled' = unsettled
      /\ o.alive /\ o.m_fd = f
      /\ obj' = [obj EXCEPT ![s] = o] /\ kernel' = [kernel EXCEPT ![f] = k]
  <2>1. Alive(s) /\ Ends(s, "none") /\ moved' = moved /\ unsettled' = unsettled
    BY DEF Listen
  <2>2. o.alive /\ o.m_fd = f
    BY <2>1 DEF Alive, StateInv, IInv, TypeOK
  <2>3. obj' = [obj EXCEPT ![s] = o]
    BY <1>1 DEF StateInv, IInv, TypeOK
  <2>4. kernel' = [kernel EXCEPT ![f] = k]
    BY <1>1
  <2>5. QED
    BY <2>1, <2>2, <2>3, <2>4
<1>3. s \notin moved => Agree(o, k, s \in unsettled)
  <2>1. CASE ok
    BY <2>1 DEF Agree, StateInv, IInv, TypeOK
  <2>2. CASE ~ok
    BY <2>2, AgreedBefore DEF Agree, StateInv, IInv, TypeOK
  <2>3. QED
    BY <2>1, <2>2
<1> HIDE DEF o, k
<1>4. QED
  BY <1>2, <1>3, CallRight

(* The connects, as lemma ConnectEnds has them. *)
LEMMA ConnectRight ==
    ASSUME StateInv, NEW s \in Objects, Alive(s), NEW f \in Descriptor(s),
           NEW st \in States, NEW nb \in BOOLEAN, NEW k,
           obj' = [obj EXCEPT ![s] = [obj[s] EXCEPT !.m_fd = f, !.m_nonblocking = nb,
                                                    !.m_state = st]],
           kernel' = [kernel EXCEPT ![f] = k],
           Ends(s, "none"), moved' = moved,
           \A t \in Objects \ {s} : t \in unsettled' <=> t \in unsettled,
           nb <=> Aware(k),
           (s \notin moved /\ st = "connected" /\ s \notin unsettled') => k.conn \in Real
    PROVE  \A t \in Objects : ObjectRight(t)'
<1> DEFINE o == [obj[s] EXCEPT !.m_fd = f, !.m_nonblocking = nb, !.m_state = st]
<1>1. o.alive /\ o.m_fd = f /\ o.m_state = st /\ o.m_nonblocking = nb
  BY DEF Alive, StateInv, IInv, TypeOK
<1> HIDE DEF o
<1>2. s \notin moved => Agree(o, k, s \in unsettled')
  BY <1>1 DEF Agree
<1>3. QED
  BY <1>1, <1>2, CallRight DEF o

(* The descriptor after connect(): non-blocking until SO_ERROR has been    *)
(* read as 0, and connected when the object says so.                       *)
LEMMA DescriptorEnds ==
    ASSUME StateInv, NEW s \in Objects, NEW f \in Descriptor(s)
    PROVE  LET k == KernelCalled(Kernel1(f))
           IN /\ Aware(k) /\ k.conn = Kernel1(f).conn
              /\ \A c : Aware([k EXCEPT !.conn = c]) /\ [k EXCEPT !.conn = c].conn = c
              /\ ~Aware([k EXCEPT !.nonblock = FALSE])
              /\ \A c : /\ ~Aware([k EXCEPT !.conn = c, !.nonblock = FALSE])
                        /\ [k EXCEPT !.conn = c, !.nonblock = FALSE].conn = c
<1>1. Kernel1(f) \in FdRec
  BY OpenAfterCall DEF StateInv
<1>2. ASSUME NEW l \in FdRec
      PROVE  LET k == KernelCalled(l)
             IN /\ Aware(k) /\ k.conn = l.conn
                /\ \A c : Aware([k EXCEPT !.conn = c]) /\ [k EXCEPT !.conn = c].conn = c
                /\ ~Aware([k EXCEPT !.nonblock = FALSE])
                /\ \A c : /\ ~Aware([k EXCEPT !.conn = c, !.nonblock = FALSE])
                          /\ [k EXCEPT !.conn = c, !.nonblock = FALSE].conn = c
  BY DEF KernelCalled, FdRec, Aware
<1>3. QED
  BY <1>1, <1>2

(* connect() *)
LEMMA ConnectTcpRight ==
    ASSUME StateInv, NEW s \in Objects, Connect(s)
    PROVE  \A t \in Objects : ObjectRight(t)'
<1>0. Alive(s) /\ Ends(s, "none") /\ moved' = moved /\ unsettled' = unsettled
  BY DEF Connect
<1>1. "connecting" \in States /\ "connected" \in States /\ "established" \in Real
  BY DEF States, Real
<1>2. PICK f \in Descriptor(s) :
        LET k == KernelCalled(Kernel1(f))
            o == [obj[s] EXCEPT !.m_fd = f, !.m_nonblocking = TRUE, !.m_state = "connecting"]
        IN \/ /\ obj' = [obj EXCEPT ![s].m_fd = f]
              /\ kernel' = [kernel EXCEPT ![f] = Kernel1(f)]
           \/ /\ obj' = [obj EXCEPT ![s] = [o EXCEPT !.m_state = "connected"]]
              /\ kernel' = [kernel EXCEPT ![f] = [k EXCEPT !.conn = "established"]]
           \/ /\ obj' = [obj EXCEPT ![s] = o]
              /\ \/ kernel' = [kernel EXCEPT ![f] = k]
                 \/ kernel' = [kernel EXCEPT ![f] = [k EXCEPT !.conn = "pending"]]
                 \/ kernel' = [kernel EXCEPT ![f] = [k EXCEPT !.conn = "failed"]]
           \/ /\ obj' = [obj EXCEPT ![s] = [o EXCEPT !.m_state = "connected",
                                                     !.m_nonblocking = FALSE]]
              /\ kernel' = [kernel EXCEPT ![f] = [k EXCEPT !.conn = "established",
                                                           !.nonblock = FALSE]]
  BY Zenon DEF Connect
<1> DEFINE k == KernelCalled(Kernel1(f))
           o == [obj[s] EXCEPT !.m_fd = f, !.m_nonblocking = TRUE, !.m_state = "connecting"]
<1>2a. /\ Aware(k) /\ k.conn = Kernel1(f).conn
       /\ \A c : Aware([k EXCEPT !.conn = c]) /\ [k EXCEPT !.conn = c].conn = c
       /\ ~Aware([k EXCEPT !.nonblock = FALSE])
       /\ \A c : /\ ~Aware([k EXCEPT !.conn = c, !.nonblock = FALSE])
                 /\ [k EXCEPT !.conn = c, !.nonblock = FALSE].conn = c
  BY DescriptorEnds
<1>3. CASE obj' = [obj EXCEPT ![s].m_fd = f] /\ kernel' = [kernel EXCEPT ![f] = Kernel1(f)]
  <2> DEFINE p == [obj[s] EXCEPT !.m_fd = f]
  <2>1. /\ p.alive /\ p.m_fd = f /\ obj' = [obj EXCEPT ![s] = p]
        /\ p.m_state = obj[s].m_state /\ p.m_nonblocking = obj[s].m_nonblocking
    BY <1>0, <1>3 DEF Alive, StateInv, IInv, TypeOK
  <2> HIDE DEF p
  <2>2. s \notin moved => Agree(p, Kernel1(f), s \in unsettled)
    BY <2>1, AgreedBefore DEF Agree
  <2>3. QED
    BY <1>0, <1>3, <2>1, <2>2, CallRight
<1>4. CASE /\ obj' = [obj EXCEPT ![s] = [o EXCEPT !.m_state = "connected"]]
           /\ kernel' = [kernel EXCEPT ![f] = [k EXCEPT !.conn = "established"]]
  <2>1. [o EXCEPT !.m_state = "connected"]
            = [obj[s] EXCEPT !.m_fd = f, !.m_nonblocking = TRUE, !.m_state = "connected"]
    BY DEF StateInv, IInv, TypeOK
  <2>2. Aware([k EXCEPT !.conn = "established"]) /\ [k EXCEPT !.conn = "established"].conn \in Real
    <3> HIDE DEF k
    <3>1. QED
      BY <1>1, <1>2a
  <2> HIDE DEF k, o
  <2>3. QED
    BY <1>0, <1>1, <1>4, <2>1, <2>2, ConnectRight
<1>5. ASSUME NEW l, Aware(l),
             obj' = [obj EXCEPT ![s] = o], kernel' = [kernel EXCEPT ![f] = l]
      PROVE  \A t \in Objects : ObjectRight(t)'
  BY <1>0, <1>1, <1>5, ConnectRight
<1>6. CASE /\ obj' = [obj EXCEPT ![s] = [o EXCEPT !.m_state = "connected",
                                                 !.m_nonblocking = FALSE]]
           /\ kernel' = [kernel EXCEPT ![f] = [k EXCEPT !.conn = "established",
                                                       !.nonblock = FALSE]]
  <2>1. [o EXCEPT !.m_state = "connected", !.m_nonblocking = FALSE]
            = [obj[s] EXCEPT !.m_fd = f, !.m_nonblocking = FALSE, !.m_state = "connected"]
    BY DEF StateInv, IInv, TypeOK
  <2>2. /\ ~Aware([k EXCEPT !.conn = "established", !.nonblock = FALSE])
        /\ [k EXCEPT !.conn = "established", !.nonblock = FALSE].conn \in Real
    <3> HIDE DEF k
    <3>1. QED
      BY <1>1, <1>2a
  <2> HIDE DEF k, o
  <2>3. QED
    BY <1>0, <1>1, <1>6, <2>1, <2>2, ConnectRight
<1>7. Aware(k) /\ \A c : Aware([k EXCEPT !.conn = c])
  BY <1>2a
<1>8. QED
  BY <1>2, <1>3, <1>4, <1>5, <1>6, <1>7

(* connect() to a unix address: an error leaves m_state, and a connection  *)
(* that was there stays; a full backlog makes the object unsettled.        *)
LEMMA ConnectUnixRight ==
    ASSUME StateInv, NEW s \in Objects, ConnectUnix(s)
    PROVE  \A t \in Objects : ObjectRight(t)'
<1>0. Alive(s) /\ Ends(s, "none") /\ moved' = moved
  BY DEF ConnectUnix
<1>1. "connected" \in States /\ obj[s].m_state \in States /\ "established" \in Real
  BY DEF States, Real, StateInv, IInv, TypeOK
<1>2. PICK f \in Descriptor(s) :
        LET k == KernelCalled(Kernel1(f))
            o == [obj[s] EXCEPT !.m_fd = f, !.m_nonblocking = TRUE]
        IN \/ /\ obj' = [obj EXCEPT ![s] = [o EXCEPT !.m_state = "connected"]]
              /\ kernel' = [kernel EXCEPT ![f] = [k EXCEPT !.conn = "established"]]
              /\ UNCHANGED unsettled
           \/ /\ obj' = [obj EXCEPT ![s] = o]
              /\ kernel' = [kernel EXCEPT ![f] = k]
              /\ UNCHANGED unsettled
           \/ /\ obj' = [obj EXCEPT ![s] = [o EXCEPT !.m_state = "connected",
                                                     !.m_nonblocking = FALSE]]
              /\ kernel' = [kernel EXCEPT ![f] = [k EXCEPT !.nonblock = FALSE]]
              /\ unsettled' = unsettled \cup {s}
  BY Zenon DEF ConnectUnix
<1> DEFINE k == KernelCalled(Kernel1(f))
           o == [obj[s] EXCEPT !.m_fd = f, !.m_nonblocking = TRUE]
<1>3. /\ [o EXCEPT !.m_state = "connected"]
            = [obj[s] EXCEPT !.m_fd = f, !.m_nonblocking = TRUE, !.m_state = "connected"]
      /\ [o EXCEPT !.m_state = "connected", !.m_nonblocking = FALSE]
            = [obj[s] EXCEPT !.m_fd = f, !.m_nonblocking = FALSE, !.m_state = "connected"]
      /\ o = [obj[s] EXCEPT !.m_fd = f, !.m_nonblocking = TRUE, !.m_state = obj[s].m_state]
  BY DEF StateInv, IInv, TypeOK
<1>4. /\ Aware(k) /\ k.conn = Kernel1(f).conn
      /\ Aware([k EXCEPT !.conn = "established"])
      /\ [k EXCEPT !.conn = "established"].conn \in Real
      /\ ~Aware([k EXCEPT !.nonblock = FALSE])
  <2>1. /\ Aware(k) /\ k.conn = Kernel1(f).conn
        /\ \A c : Aware([k EXCEPT !.conn = c]) /\ [k EXCEPT !.conn = c].conn = c
        /\ ~Aware([k EXCEPT !.nonblock = FALSE])
        /\ \A c : /\ ~Aware([k EXCEPT !.conn = c, !.nonblock = FALSE])
                  /\ [k EXCEPT !.conn = c, !.nonblock = FALSE].conn = c
    BY DescriptorEnds
  <2> HIDE DEF k
  <2>2. QED
    BY <1>1, <2>1
<1>5. CASE /\ obj' = [obj EXCEPT ![s] = [o EXCEPT !.m_state = "connected"]]
           /\ kernel' = [kernel EXCEPT ![f] = [k EXCEPT !.conn = "established"]]
           /\ UNCHANGED unsettled
  <2> HIDE DEF k, o
  <2>1. QED
    BY <1>0, <1>1, <1>3, <1>4, <1>5, ConnectRight
<1>6. CASE /\ obj' = [obj EXCEPT ![s] = o] /\ kernel' = [kernel EXCEPT ![f] = k]
           /\ UNCHANGED unsettled
  <2>1. s \notin moved /\ obj[s].m_state = "connected" /\ s \notin unsettled' => k.conn \in Real
    BY <1>4, <1>6, AgreedBefore DEF Agree
  <2> HIDE DEF k, o
  <2>2. QED
    BY <1>0, <1>1, <1>3, <1>4, <1>6, <2>1, ConnectRight
<1>7. CASE /\ obj' = [obj EXCEPT ![s] = [o EXCEPT !.m_state = "connected",
                                                 !.m_nonblocking = FALSE]]
           /\ kernel' = [kernel EXCEPT ![f] = [k EXCEPT !.nonblock = FALSE]]
           /\ unsettled' = unsettled \cup {s}
  <2> HIDE DEF k, o
  <2>1. QED
    BY <1>0, <1>1, <1>3, <1>4, <1>7, ConnectRight
<1>8. QED
  BY <1>2, <1>5, <1>6, <1>7

(* connect_async(), the first call *)
LEMMA AsyncStartRight ==
    ASSUME StateInv, NEW s \in Objects, ConnectAsyncStart(s)
    PROVE  \A t \in Objects : ObjectRight(t)'
<1>0. Alive(s) /\ Ends(s, "none") /\ moved' = moved /\ unsettled' = unsettled
  BY DEF ConnectAsyncStart
<1> DEFINE o(f) == [obj[s] EXCEPT !.m_fd = f, !.m_nonblocking = TRUE, !.m_state = "connecting"]
           k(f) == KernelCalled(Kernel1(f))
           c(f, call) == CASE call = "ok" -> "established"
                           [] call = "in_progress" -> "pending"
                           [] call = "error" -> k(f).conn
<1>1. PICK f \in Descriptor(s) : \E call \in ConnectCalls(Kernel1(f)) :
        /\ obj' = [obj EXCEPT ![s] = IF call = "ok" THEN [o(f) EXCEPT !.m_state = "connected"]
                                                    ELSE o(f)]
        /\ kernel' = [kernel EXCEPT ![f] = [k(f) EXCEPT !.conn = c(f, call)]]
  BY DEF ConnectAsyncStart
<1>2. PICK call \in ConnectCalls(Kernel1(f)) :
        /\ obj' = [obj EXCEPT ![s] = IF call = "ok" THEN [o(f) EXCEPT !.m_state = "connected"]
                                                    ELSE o(f)]
        /\ kernel' = [kernel EXCEPT ![f] = [k(f) EXCEPT !.conn = c(f, call)]]
  BY <1>1
<1> DEFINE st == IF call = "ok" THEN "connected" ELSE "connecting"
           l == [k(f) EXCEPT !.conn = c(f, call)]
<1>3. (IF call = "ok" THEN [o(f) EXCEPT !.m_state = "connected"] ELSE o(f))
        = [obj[s] EXCEPT !.m_fd = f, !.m_nonblocking = TRUE, !.m_state = st]
  BY DEF StateInv, IInv, TypeOK
<1>4. st \in States /\ (st = "connected" => call = "ok")
  BY DEF States
<1>5. Aware(l) /\ l.conn = c(f, call)
  BY DescriptorEnds
<1>6. call = "ok" => c(f, call) \in Real
  BY DEF Real
<1> HIDE DEF k, c, st, l
<1>7. QED
  BY ZenonT(30), <1>0, <1>2, <1>3, <1>4, <1>5, <1>6, ConnectRight DEF l

(* connect_async(), called again: it trusts SO_ERROR, and an object whose  *)
(* descriptor had no verdict to give is unsettled.                         *)
LEMMA AsyncAgainRight ==
    ASSUME StateInv, NEW s \in Objects, ConnectAsyncAgain(s)
    PROVE  \A t \in Objects : ObjectRight(t)'
<1>0. Alive(s) /\ obj[s].m_state = "connecting" /\ Ends(s, "none") /\ moved' = moved
  BY DEF ConnectAsyncAgain
<1>1. PICK f \in Descriptor(s) :
        /\ obj' = [obj EXCEPT ![s].m_fd = f,
                              ![s].m_state = IF Kernel1(f).so_error THEN "connecting"
                                                                    ELSE "connected"]
        /\ kernel' = [kernel EXCEPT ![f] = [Kernel1(f) EXCEPT !.so_error = FALSE]]
        /\ unsettled' = IF Kernel1(f).so_error
                           \/ Kernel1(f).conn \in {"established", "eof", "reset"}
                        THEN unsettled ELSE unsettled \cup {s}
  BY DEF ConnectAsyncAgain
<1> DEFINE st == IF Kernel1(f).so_error THEN "connecting" ELSE "connected"
           o == [obj[s] EXCEPT !.m_fd = f, !.m_state = st]
           k == [Kernel1(f) EXCEPT !.so_error = FALSE]
<1>2. /\ o.alive /\ o.m_fd = f /\ o.m_state = st /\ o.m_nonblocking = obj[s].m_nonblocking
      /\ obj' = [obj EXCEPT ![s] = o] /\ kernel' = [kernel EXCEPT ![f] = k]
  BY <1>0, <1>1 DEF Alive, StateInv, IInv, TypeOK
<1>3. k.conn = Kernel1(f).conn /\ (Aware(k) <=> Aware(Kernel1(f)))
  BY OpenAfterCall DEF FdRec, Aware, StateInv
<1>4. st = "connected" /\ s \notin unsettled' => Kernel1(f).conn \in Real
  BY <1>1 DEF Real
<1>5. s \notin moved => (obj[s].m_nonblocking <=> Aware(Kernel1(f)))
  BY <1>0, AgreedBefore DEF Agree
<1>6. \A t \in Objects \ {s} : t \in unsettled' <=> t \in unsettled
  BY <1>1
<1> HIDE DEF o, k, st
<1>7. s \notin moved => Agree(o, k, s \in unsettled')
  BY <1>2, <1>3, <1>4, <1>5 DEF Agree
<1>8. QED
  BY <1>0, <1>2, <1>6, <1>7, CallRight

(* connect_async() on an object that was moved from: its state and its     *)
(* mode, which the new descriptor does not know, are not its own.          *)
LEMMA AsyncMovedRight ==
    ASSUME StateInv, NEW s \in Objects, ConnectAsyncMoved(s)
    PROVE  \A t \in Objects : ObjectRight(t)'
<1>1. /\ Alive(s) /\ Ends(s, "none") /\ obj[s].m_fd = NoFd
      /\ moved' = moved /\ unsettled' = unsettled
  BY DEF ConnectAsyncMoved
<1>2. PICK f \in FreeFds : /\ obj' = [obj EXCEPT ![s].m_fd = f]
                          /\ kernel' = [kernel EXCEPT ![f] = NewFd]
  BY DEF ConnectAsyncMoved
<1> DEFINE o == [obj[s] EXCEPT !.m_fd = f]
<1>3. f \in Descriptor(s)
  BY <1>1 DEF Descriptor
<1>4. o.alive /\ o.m_fd = f /\ obj' = [obj EXCEPT ![s] = o]
  BY <1>1, <1>2 DEF Alive, StateInv, IInv, TypeOK
<1>5. s \in moved
  <2>1. ObjectRight(s) /\ obj[s].m_state # "disconnected"
    BY DEF StateInv, ConnectAsyncMoved
  <2>2. QED
    BY <1>1, <2>1 DEF ObjectRight
<1> HIDE DEF o
<1>6. QED
  BY <1>1, <1>2, <1>3, <1>4, <1>5, CallRight

-----------------------------------------------------------------------------
(* Every method and every step of the network keeps the invariant. *)
LEMMA NextState == StateInv /\ [Next]_vars => StateInv'
<1> SUFFICES ASSUME StateInv, [Next]_vars PROVE StateInv'
  OBVIOUS
<1>1. IInv'
  BY NextInv DEF StateInv
<1>2. CASE UNCHANGED vars
  BY <1>1, <1>2 DEF vars, StateInv, ObjectRight, Alive
<1>3. CASE Next
  <2>1. \A t \in Objects : ObjectRight(t)'
    BY <1>3, ConstructRight, MoveRight, CloseRight, SetNonblockingRight, TransferRight,
       NetworkRight, AcceptRight, ListenRight, ConnectTcpRight, ConnectUnixRight,
       AsyncStartRight, AsyncAgainRight, AsyncMovedRight DEF Next
  <2>2. QED
    BY <1>1, <2>1 DEF StateInv
<1>4. QED
  BY <1>2, <1>3

(* send() and recv() tell the caller "try again" exactly on descriptors    *)
(* the kernel treats as non-blocking and time out on the others, those     *)
(* apart that accept() returned non-blocking and nobody set, although      *)
(* m_nonblocking survives close(), is lost sight of by a new descriptor    *)
(* and is switched behind the caller's back by the connects.               *)
THEOREM BlockingMode == ChannelsSpec => []BlockingModeHonoured
<1>1. StateInv => BlockingModeHonoured
  BY StateInvIsEnough
<1>2. QED
  BY <1>1, InitState, NextState, SocketsApart, PTL DEF Spec

(* An object that says it is connected on its descriptor has had a         *)
(* connection on it, however connect(), connect_async(), failures, closes  *)
(* and reused numbers follow each other, except where SO_ERROR was asked   *)
(* when the kernel had no verdict to give.                                 *)
THEOREM ConnectedObjects == ChannelsSpec => []ConnectedIsReal
<1>1. StateInv => ConnectedIsReal
  BY StateInvIsEnough
<1>2. QED
  BY <1>1, InitState, NextState, SocketsApart, PTL DEF Spec

-----------------------------------------------------------------------------
(* ez::tls.  The bytes between an end that writes and the other that       *)
(* reads: what libtls has of a record that it is reading, what is in the   *)
(* channel, what is left of the record that was begun.                     *)
Flow(ep) == tls[Opposite(ep)].in \o wire[Opposite(ep)] \o tls[ep].out.bytes

Begun(out) == IF out.kind = "data" THEN out.size ELSE 0

(* A flow is made of whole records: every start of a record is followed by *)
(* as many later bytes as it says, and these by the next start.  Only the  *)
(* bytes of data are not 0.                                                *)
Starts(s, p) == s[p].kind # "more"
Whole(s, p) ==
    /\ s[p].kind \in {"flight", "data", "alert"} /\ s[p].size \in Nat \ {0}
    /\ p + s[p].size <= Len(s)
    /\ \A j \in 1..s[p].size :
        /\ s[p + j].kind = "more" /\ s[p + j].byte \in Nat
        /\ s[p + j].byte > 0 <=> s[p].kind = "data"
    /\ p + s[p].size < Len(s) => Starts(s, p + s[p].size + 1)
Framed(s) ==
    /\ IsSeq(s)
    /\ Len(s) > 0 => Starts(s, 1)
    /\ \A p \in 1..Len(s) : Starts(s, p) => Whole(s, p)

(* What libtls keeps: a record is begun or there is none. *)
TlsFields == {"context", "flights", "out", "in", "plain", "ended", "call"}
OutOk(out) ==
    /\ out = [f \in {"kind", "size", "bytes"} |-> out[f]]
    /\ IsSeq(out.bytes) /\ out.size \in Nat
    /\ out = Nothing \/ (out.kind \in {"flight", "data", "alert"} /\ Len(out.bytes) > 0)
EndOk(s) == s = [f \in TlsFields |-> s[f]] /\ IsSeq(s.in)

TlsShape ==
    /\ tls = [ep \in Sides |-> tls[ep]] /\ wire = [ep \in Sides |-> wire[ep]]
    /\ reply = [ep \in Sides |-> reply[ep]]
    /\ \A ep \in Sides : EndOk(tls[ep]) /\ IsSeq(wire[ep])

(* How far both ends, c and v, of the handshake are, and the flights in    *)
(* the flows f from the client and g from the server.                      *)
Phase(c, v, i, j) == c.flights = i /\ v.flights = j
Handshakes(c, v, f, g) ==
    /\ \/ Phase(c, v, 0, 0) \/ Phase(c, v, 1, 0) \/ Phase(c, v, 1, 1) \/ Phase(c, v, 1, 2)
       \/ Phase(c, v, 2, 2) \/ Phase(c, v, 3, 2) \/ Phase(c, v, 3, 3)
    /\ \A p \in 1..Len(f) : f[p].kind = "flight" => p = 1
    /\ \A p \in 1..Len(f) : f[p].kind \in {"data", "alert"} => c.flights = 3
    /\ Phase(c, v, 0, 0) \/ Phase(c, v, 2, 2) => (Len(f) > 0 <=> c.out.kind = "flight")
    /\ Phase(c, v, 1, 0) \/ Phase(c, v, 3, 2) => Len(f) > 0 /\ f[1].kind = "flight"
    /\ Phase(c, v, 1, 1) \/ Phase(c, v, 1, 2) => Len(f) = 0
    /\ Phase(c, v, 3, 3) /\ Len(f) > 0 => f[1].kind # "flight"
    /\ \A p \in 1..Len(g) : g[p].kind \in {"flight", "more"} /\ (Starts(g, p) => p = 1)
    /\ Phase(c, v, 1, 1) => (Len(g) > 0 <=> v.out.kind = "flight")
    /\ Phase(c, v, 1, 2) => Len(g) > 0
    /\ Phase(c, v, 1, 1) \/ Phase(c, v, 1, 2) \/ Len(g) = 0
    /\ c.out.kind = "flight" => c.flights \in {0, 2}
    /\ c.out.kind \in {"data", "alert"} => c.flights = 3
    /\ v.out.kind \in {"none", "flight"} /\ (v.out.kind = "flight" => v.flights = 1)

(* The calls of the two programs and the end of the connection: after the  *)
(* alert the client does nothing any more.  rc and rs are the last replies,*)
(* acc what send() took.                                                   *)
AlertIn(f) == \E p \in 1..Len(f) : f[p].kind = "alert"
Calls(c, v, f, rc, rs, acc) ==
    /\ c.call \in {"none", "handshake", "send", "close"}
    /\ v.call \in {"none", "handshake", "recv"}
    /\ c.call # "none" \/ c.flights # 0 \/ rc = "closed" => c.context
    /\ c.call = "send" => acc < TlsData
    /\ c.call = "close" => c.flights = 3 /\ acc = TlsData
    /\ c.out.kind = "data" => acc + c.out.size <= TlsData /\ c.out.size > 0
    /\ c.out.kind = "alert" => AlertIn(f)
    /\ v.ended \/ AlertIn(f) =>
        /\ acc = TlsData /\ c.flights = 3
        /\ \/ c.call = "close" /\ c.out.kind = "alert"
           \/ c.call = "none" /\ rc = "closed"
    /\ \A p \in 1..Len(f) : f[p].kind = "alert" => p + f[p].size = Len(f)
    /\ v.ended => Len(f) = 0 /\ v.plain = <<>>
    /\ rs = "closed" => v.ended

(* All bytes are where TlsKeepsBytes says. *)
AllBytes(c, v, f, acc, got) ==
    (got \o v.plain) \o DataIn(f) = [k \in 1..(acc + Begun(c.out)) |-> k]

Linked(c, v, f, g, rc, rs, acc, got) ==
    /\ OutOk(c.out) /\ OutOk(v.out) /\ IsSeq(v.plain) /\ v.ended \in BOOLEAN
    /\ acc \in 0..TlsData /\ IsSeq(got)
    /\ Framed(f) /\ Framed(g)
    /\ Handshakes(c, v, f, g) /\ Calls(c, v, f, rc, rs, acc) /\ AllBytes(c, v, f, acc, got)

(* The inductive invariant. *)
TlsInv ==
    /\ TlsShape
    /\ Linked(tls["client"], tls["server"], Flow("client"), Flow("server"),
              reply["client"], reply["server"], accepted, received)

-----------------------------------------------------------------------------
(* The data bytes of a flow, byte by byte. *)
Kept(d, b) == IF b.kind = "more" /\ b.byte > 0 THEN Append(d, b.byte) ELSE d
Scan(f, s) == f = [n \in 0..Len(s) |-> IF n = 0 THEN <<>> ELSE Kept(f[n - 1], s[n])]

(* The recursive function of DataIn() exists. *)
LEMMA ScanExists ==
    ASSUME NEW s, IsSeq(s)
    PROVE  \E f : Scan(f, s) /\ DataIn(s) = f[Len(s)]
<1> DEFINE Upto(f, m) == f = [n \in 0..m |-> IF n = 0 THEN <<>> ELSE Kept(f[n - 1], s[n])]
           S == {m \in Nat : \E f : Upto(f, m)}
<1>1. 0 \in S
  <2> DEFINE f == [n \in 0..0 |-> <<>>]
  <2>1. Upto(f, 0)
    OBVIOUS
  <2>2. QED
    BY <2>1
<1>2. ASSUME NEW m \in Nat, m \in S PROVE m + 1 \in S
  <2>1. PICK f : Upto(f, m)
    BY <1>2
  <2> DEFINE g == [n \in 0..(m + 1) |-> IF n <= m THEN f[n] ELSE Kept(f[m], s[m + 1])]
  <2>2. \A n \in 0..m : f[n] = IF n = 0 THEN <<>> ELSE Kept(f[n - 1], s[n])
    BY <2>1
  <2>3. ASSUME NEW n \in 0..(m + 1) PROVE g[n] = IF n = 0 THEN <<>> ELSE Kept(g[n - 1], s[n])
    <3>1. CASE n <= m
      <4>1. n \in 0..m /\ (n # 0 => n - 1 \in 0..(m + 1) /\ n - 1 <= m)
        BY <3>1
      <4>2. QED
        BY <2>2, <3>1, <4>1
    <3>2. CASE ~(n <= m)
      <4>1. n = m + 1 /\ n # 0 /\ n - 1 = m /\ m \in 0..(m + 1) /\ m <= m
        BY <3>2
      <4>2. g[m] = f[m] /\ g[n] = Kept(f[m], s[n])
        BY <3>2, <4>1
      <4> HIDE DEF g
      <4>3. QED
        BY <4>1, <4>2
    <3>3. QED
      BY <3>1, <3>2
  <2>4. Upto(g, m + 1)
    <3>1. g = [n \in 0..(m + 1) |-> g[n]]
      OBVIOUS
    <3> HIDE DEF g
    <3>2. QED
      BY <2>3, <3>1
  <2> HIDE DEF g, Upto
  <2>5. m + 1 \in Nat /\ \E h : Upto(h, m + 1)
    BY <2>4
  <2>6. QED
    BY <2>5
<1>3. Len(s) \in S
  <2>1. Len(s) \in Nat
    BY SeqIsFunction
  <2> HIDE DEF S
  <2>2. QED
    BY <1>1, <1>2, <2>1, NatSets
<1>4. \E f : Scan(f, s)
  BY <1>3 DEF Scan
<1> DEFINE f == CHOOSE g : Scan(g, s)
<1>5. DataIn(s) = f[Len(s)]
  BY DEF DataIn, Scan, Kept
<1>6. Scan(f, s)
  BY <1>4
<1>7. QED
  BY <1>5, <1>6

(* There is no data in nothing; one more byte is one more byte of data, or *)
(* none.                                                                   *)
LEMMA DataAppend ==
    ASSUME NEW s, IsSeq(s), NEW b
    PROVE  DataIn(Append(s, b)) = Kept(DataIn(s), b)
<1> DEFINE t == Append(s, b)
           N == Len(s)
<1>1. IsSeq(t) /\ Len(t) = N + 1 /\ N \in Nat /\ t[N + 1] = b /\ \A i \in 1..N : t[i] = s[i]
  BY Appended
<1> HIDE DEF t
<1>2. PICK f : Scan(f, s) /\ DataIn(s) = f[N]
  BY ScanExists
<1>3. PICK g : Scan(g, t) /\ DataIn(t) = g[N + 1]
  BY <1>1, ScanExists
<1> HIDE DEF N
<1>4. /\ f[0] = <<>> /\ g[0] = <<>>
      /\ \A n \in Nat : n + 1 <= N => f[n + 1] = Kept(f[n], s[n + 1]) /\ g[n + 1] = Kept(g[n], t[n + 1])
      /\ g[N + 1] = Kept(g[N], b)
  <2>1. \A n \in 0..N : f[n] = IF n = 0 THEN <<>> ELSE Kept(f[n - 1], s[n])
    BY <1>1, <1>2 DEF Scan, N
  <2>2. \A n \in 0..(N + 1) : g[n] = IF n = 0 THEN <<>> ELSE Kept(g[n - 1], t[n])
    BY <1>1, <1>3 DEF Scan
  <2>3. ASSUME NEW n \in Nat, n + 1 <= N
        PROVE  f[n + 1] = Kept(f[n], s[n + 1]) /\ g[n + 1] = Kept(g[n], t[n + 1])
    <3>1. n + 1 \in 0..N /\ n + 1 \in 0..(N + 1) /\ n + 1 # 0 /\ (n + 1) - 1 = n
      BY <1>1, <2>3
    <3>2. f[n + 1] = Kept(f[(n + 1) - 1], s[n + 1]) /\ g[n + 1] = Kept(g[(n + 1) - 1], t[n + 1])
      BY <2>1, <2>2, <3>1
    <3>3. QED
      BY <3>1, <3>2
  <2>4. N + 1 \in 0..(N + 1) /\ N + 1 # 0 /\ (N + 1) - 1 = N /\ 0 \in 0..N /\ 0 \in 0..(N + 1)
    BY <1>1
  <2>5. g[N + 1] = Kept(g[(N + 1) - 1], t[N + 1])
    BY <2>2, <2>4
  <2>6. QED
    BY <1>1, <2>1, <2>2, <2>3, <2>4, <2>5
<1> DEFINE S == {n \in Nat : n <= N => f[n] = g[n]}
<1>5. 0 \in S
  BY <1>4
<1>6. ASSUME NEW n \in Nat, n \in S PROVE n + 1 \in S
  <2>1. ASSUME n + 1 <= N PROVE f[n + 1] = g[n + 1]
    <3>1. n <= N /\ n + 1 \in 1..N
      BY <1>1, <2>1
    <3>2. f[n] = g[n] /\ t[n + 1] = s[n + 1]
      BY <1>1, <1>6, <3>1
    <3>3. QED
      BY <1>4, <2>1, <3>2
  <2>2. QED
    BY <2>1
<1>7. f[N] = g[N]
  <2>1. \A n \in S : n <= N => f[n] = g[n]
    OBVIOUS
  <2> HIDE DEF S
  <2>2. N \in S
    BY <1>1, <1>5, <1>6, NatSets
  <2>3. QED
    BY <1>1, <2>1, <2>2
<1>8. QED
  BY <1>2, <1>3, <1>4, <1>7 DEF t

(* Nothing holds no data. *)
LEMMA NoData == DataIn(<<>>) = <<>>
<1> DEFINE e == <<>>
<1>1. IsSeq(e) /\ Len(e) = 0
  BY NoElements
<1> HIDE DEF e
<1>2. PICK f : Scan(f, e) /\ DataIn(e) = f[0]
  BY <1>1, ScanExists
<1>3. 0 \in 0..Len(e) /\ f[0] = <<>>
  BY <1>1, <1>2 DEF Scan
<1>4. QED
  BY <1>2, <1>3 DEF e

(* The data of two flows, one after the other. *)
LEMMA DataJoined ==
    ASSUME NEW a, IsSeq(a), NEW b, IsSeq(b)
    PROVE  DataIn(a \o b) = DataIn(a) \o DataIn(b) /\ IsSeq(DataIn(a))
<1> DEFINE P(n) == \A x : IsSeq(x) /\ Len(x) = n => IsSeq(DataIn(x))
           Q(n) == \A x : IsSeq(x) /\ Len(x) = n => DataIn(a \o x) = DataIn(a) \o DataIn(x)
           S == {n \in Nat : P(n)}
           T == {n \in Nat : Q(n)}
<1>1. ASSUME NEW x, IsSeq(x) PROVE Len(x) \in Nat
  BY <1>1, SeqIsFunction
<1>2. 0 \in S
  BY NoData, NoElements
<1>3. ASSUME NEW n \in Nat, n \in S PROVE n + 1 \in S
  <2>1. ASSUME NEW x, IsSeq(x), Len(x) = n + 1 PROVE IsSeq(DataIn(x))
    <3> DEFINE y == SubSeq(x, 1, n)
               e == x[n + 1]
    <3>1. IsSeq(y) /\ Len(y) = n /\ x = Append(y, e)
      BY <2>1, LastApart
    <3> HIDE DEF y, e
    <3>2. IsSeq(DataIn(y)) /\ DataIn(x) = Kept(DataIn(y), e)
      BY <1>3, <3>1, DataAppend
    <3>3. IsSeq(Append(DataIn(y), e.byte))
      BY <3>2, Appended
    <3>4. QED
      BY <3>2, <3>3 DEF Kept
  <2>2. QED
    BY <2>1
<1>4. \A x : IsSeq(x) => IsSeq(DataIn(x))
  <2>1. Nat \subseteq S
    <3> HIDE DEF S
    <3>1. QED
      BY <1>2, <1>3, NatSets
  <2>2. QED
    BY <1>1, <2>1
<1>5. 0 \in T
  <2>1. ASSUME NEW x, IsSeq(x), Len(x) = 0 PROVE DataIn(a \o x) = DataIn(a) \o DataIn(x)
    <3>1. x = <<>> /\ a \o <<>> = a /\ DataIn(a) \o <<>> = DataIn(a)
      BY <1>4, <2>1, NoElements, NothingAfter
    <3>2. QED
      BY <3>1, NoData
  <2>2. QED
    BY <2>1
<1>6. ASSUME NEW n \in Nat, n \in T PROVE n + 1 \in T
  <2>1. ASSUME NEW x, IsSeq(x), Len(x) = n + 1 PROVE DataIn(a \o x) = DataIn(a) \o DataIn(x)
    <3> DEFINE y == SubSeq(x, 1, n)
               e == x[n + 1]
    <3>1. IsSeq(y) /\ Len(y) = n /\ x = Append(y, e)
      BY <2>1, LastApart
    <3> HIDE DEF y, e
    <3>2. /\ DataIn(a \o y) = DataIn(a) \o DataIn(y)
          /\ DataIn(x) = Kept(DataIn(y), e) /\ IsSeq(DataIn(y)) /\ IsSeq(DataIn(a))
          /\ IsSeq(a \o y)
      BY <1>4, <1>6, <3>1, DataAppend, JoinedSeqs
    <3>3. a \o x = Append(a \o y, e)
      BY <3>1, AppendJoined
    <3>4. DataIn(a \o x) = Kept(DataIn(a) \o DataIn(y), e)
      BY <3>2, <3>3, DataAppend
    <3>5. DataIn(a) \o Append(DataIn(y), e.byte) = Append(DataIn(a) \o DataIn(y), e.byte)
      BY <3>2, AppendJoined
    <3>6. QED
      BY <3>2, <3>4, <3>5 DEF Kept
  <2>2. QED
    BY <2>1
<1>7. Q(Len(b))
  <2>1. \A n \in T : Q(n)
    OBVIOUS
  <2> HIDE DEF T, Q
  <2>2. Len(b) \in T
    BY <1>1, <1>5, <1>6, NatSets
  <2>3. QED
    BY <2>1, <2>2
<1>8. QED
  BY <1>4, <1>7

(* The data of bytes that are all data, and of bytes that are none. *)
LEMMA DataOfBytes ==
    ASSUME NEW s, IsSeq(s)
    PROVE  /\ (\A j \in 1..Len(s) : s[j].kind = "more" /\ s[j].byte > 0)
                => DataIn(s) = [j \in 1..Len(s) |-> s[j].byte]
           /\ (\A j \in 1..Len(s) : ~(s[j].kind = "more" /\ s[j].byte > 0)) => DataIn(s) = <<>>
<1> DEFINE All(x) == \A j \in 1..Len(x) : x[j].kind = "more" /\ x[j].byte > 0
           None(x) == \A j \in 1..Len(x) : ~(x[j].kind = "more" /\ x[j].byte > 0)
           R(x) == [j \in 1..Len(x) |-> x[j].byte]
           P(n) == \A x : IsSeq(x) /\ Len(x) = n =>
                        (All(x) => DataIn(x) = R(x)) /\ (None(x) => DataIn(x) = <<>>)
           S == {n \in Nat : P(n)}
<1>1. 0 \in S
  <2>1. ASSUME NEW x, IsSeq(x), Len(x) = 0 PROVE DataIn(x) = R(x) /\ DataIn(x) = <<>>
    <3>1. x = <<>> /\ DataIn(x) = <<>>
      BY <2>1, NoElements, NoData
    <3>2. R(x) = <<>>
      <4> DEFINE r == R(x)
      <4>1. r = [j \in 1..0 |-> r[j]] /\ 0 \in Nat
        BY <2>1
      <4> HIDE DEF r
      <4>2. IsSeq(r) /\ Len(r) = 0
        BY <4>1, FunctionIsSeq
      <4>3. r = <<>>
        BY <4>2, NoElements
      <4>4. QED
        BY <4>3 DEF r
    <3>3. QED
      BY <3>1, <3>2
  <2>2. QED
    BY <2>1
<1>2. ASSUME NEW n \in Nat, n \in S PROVE n + 1 \in S
  <2>1. ASSUME NEW x, IsSeq(x), Len(x) = n + 1
        PROVE  (All(x) => DataIn(x) = R(x)) /\ (None(x) => DataIn(x) = <<>>)
    <3> DEFINE y == SubSeq(x, 1, n)
               e == x[n + 1]
    <3>1. IsSeq(y) /\ Len(y) = n /\ x = Append(y, e)
      BY <2>1, LastApart
    <3> HIDE DEF y, e
    <3>2. \A j \in 1..n : x[j] = y[j] /\ x[n + 1] = e
      BY <3>1, Appended
    <3>3. e = x[n + 1]
      BY DEF e
    <3>4. DataIn(x) = Kept(DataIn(y), e)
      BY <3>1, DataAppend
    <3>5. (All(y) => DataIn(y) = R(y)) /\ (None(y) => DataIn(y) = <<>>)
      BY <1>2, <3>1
    <3>6. n + 1 \in 1..Len(x) /\ \A j \in 1..n : j \in 1..Len(x)
      BY <2>1
    <3>7. ASSUME None(x) PROVE DataIn(x) = <<>>
      BY <3>1, <3>2, <3>3, <3>4, <3>5, <3>6, <3>7 DEF Kept
    <3>8. ASSUME All(x) PROVE DataIn(x) = R(x)
      <4> DEFINE r == R(y)
                 q == R(x)
                 u == Append(r, e.byte)
      <4>1. DataIn(x) = u
        BY <3>1, <3>2, <3>3, <3>4, <3>5, <3>6, <3>8 DEF Kept
      <4>2. r = [j \in 1..n |-> r[j]] /\ \A j \in 1..n : r[j] = y[j].byte
        BY <3>1
      <4>3. q = [j \in 1..(n + 1) |-> q[j]] /\ \A j \in 1..(n + 1) : q[j] = x[j].byte
        BY <2>1
      <4> HIDE DEF r, q
      <4>4. IsSeq(r) /\ Len(r) = n /\ IsSeq(q) /\ Len(q) = n + 1
        <5>1. n + 1 \in Nat
          OBVIOUS
        <5>2. IsSeq(r) /\ Len(r) = n
          BY <4>2, FunctionIsSeq
        <5>3. QED
          BY <4>3, <5>1, <5>2, FunctionIsSeq
      <4>5. IsSeq(u) /\ Len(u) = n + 1 /\ u[n + 1] = e.byte /\ \A j \in 1..n : u[j] = r[j]
        BY <4>4, Appended
      <4> HIDE DEF u
      <4>6. ASSUME NEW j \in 1..Len(u) PROVE u[j] = q[j]
        <5>1. j \in 1..n \/ j = n + 1
          BY <4>5
        <5>2. j \in 1..(n + 1)
          BY <4>5
        <5>3. QED
          BY <3>2, <3>3, <4>2, <4>3, <4>5, <5>1, <5>2
      <4>7. u = q
        BY <4>4, <4>5, <4>6, SameSeqs
      <4>8. QED
        BY <4>1, <4>7 DEF q
    <3>9. QED
      BY <3>7, <3>8
  <2>2. QED
    BY <2>1
<1>3. P(Len(s))
  <2>1. \A n \in S : P(n)
    OBVIOUS
  <2>2. Len(s) \in Nat
    BY SeqIsFunction
  <2> HIDE DEF S, P
  <2>3. Len(s) \in S
    BY <1>1, <1>2, <2>2, NatSets
  <2>4. QED
    BY <2>1, <2>3
<1>4. QED
  BY <1>3
-----------------------------------------------------------------------------
(* The data of one record. *)
LEMMA DataOfRecord ==
    ASSUME NEW a, IsSeq(a), NEW n \in Nat, Len(a) = 1 + n, a[1].kind # "more",
           \A j \in 1..n : /\ a[1 + j].kind = "more" /\ a[1 + j].byte \in Nat
                           /\ a[1 + j].byte > 0 <=> a[1].kind = "data"
    PROVE  DataIn(a) = IF a[1].kind = "data" THEN [j \in 1..n |-> a[j + 1].byte] ELSE <<>>
<1> DEFINE x == SubSeq(a, 1, 1)
           y == SubSeq(a, 2, n + 1)
<1>1. IsSeq(x) /\ Len(x) = 1 /\ x[1] = a[1]
  <2>1. IsSeq(x) /\ Len(x) = 1 /\ \A i \in 1..((1 - 1) + 1) : x[i] = a[1 + i - 1]
    BY Sliced
  <2> HIDE DEF x
  <2>2. 1 \in 1..((1 - 1) + 1) /\ 1 + 1 - 1 = 1
    OBVIOUS
  <2>3. QED
    BY <2>1, <2>2
<1>2. IsSeq(y) /\ Len(y) = n /\ \A j \in 1..n : y[j] = a[1 + j]
  <2>1. /\ IsSeq(y) /\ Len(y) = IF 2 <= n + 1 THEN ((n + 1) - 2) + 1 ELSE 0
        /\ \A i \in 1..(((n + 1) - 2) + 1) : y[i] = a[2 + i - 1]
    <3>1. 2 \in Int /\ n + 1 \in Int
      OBVIOUS
    <3>2. QED
      BY <3>1, Sliced
  <2> HIDE DEF y
  <2>2. Len(y) = n
    BY <2>1
  <2>3. ASSUME NEW j \in 1..n PROVE y[j] = a[1 + j]
    <3>1. j \in 1..(((n + 1) - 2) + 1) /\ 2 + j - 1 = 1 + j
      OBVIOUS
    <3>2. QED
      BY <2>1, <3>1
  <2>4. QED
    BY <2>1, <2>2, <2>3
<1>3. a = x \o y
  <2>1. 1 \in 0..Len(a) /\ 1 + 1 = 2 /\ Len(a) = n + 1
    OBVIOUS
  <2>2. a = SubSeq(a, 1, 1) \o SubSeq(a, 1 + 1, Len(a))
    BY <2>1, CutInTwo
  <2>3. QED
    BY <2>1, <2>2
<1> HIDE DEF x, y
<1>4. DataIn(a) = DataIn(x) \o DataIn(y) /\ IsSeq(DataIn(y))
  BY <1>1, <1>2, <1>3, DataJoined
<1>5. DataIn(x) = <<>>
  <2>1. \A j \in 1..Len(x) : ~(x[j].kind = "more" /\ x[j].byte > 0)
    BY <1>1
  <2>2. QED
    BY <1>1, <2>1, DataOfBytes
<1>6. DataIn(a) = DataIn(y)
  BY <1>4, <1>5, NothingBefore
<1>7. CASE a[1].kind = "data"
  <2>1. \A j \in 1..Len(y) : y[j].kind = "more" /\ y[j].byte > 0
    BY <1>2, <1>7
  <2>2. DataIn(y) = [j \in 1..Len(y) |-> y[j].byte]
    BY <1>2, <2>1, DataOfBytes
  <2>3. \A j \in 1..n : y[j].byte = a[j + 1].byte
    <3>1. \A j \in 1..n : 1 + j = j + 1
      OBVIOUS
    <3>2. QED
      BY <1>2, <3>1
  <2>4. QED
    BY <1>2, <1>6, <1>7, <2>2, <2>3
<1>8. CASE a[1].kind # "data"
  <2>1. \A j \in 1..Len(y) : ~(y[j].kind = "more" /\ y[j].byte > 0)
    BY <1>2, <1>8
  <2>2. QED
    BY <1>2, <1>6, <1>8, <2>1, DataOfBytes
<1>9. QED
  BY <1>7, <1>8

(* Two flows of whole records, one after the other. *)
LEMMA FramedJoined ==
    ASSUME NEW a, Framed(a), NEW b, Framed(b)
    PROVE  Framed(a \o b)
<1> DEFINE w == a \o b
<1>1. /\ IsSeq(a) /\ IsSeq(b) /\ Len(a) \in Nat /\ Len(b) \in Nat
  BY SeqIsFunction DEF Framed
<1>2. /\ IsSeq(w) /\ Len(w) = Len(a) + Len(b)
      /\ \A j \in 1..Len(a) : w[j] = a[j]
      /\ \A j \in 1..Len(b) : w[Len(a) + j] = b[j]
  BY <1>1, JoinedSeqs
<1> HIDE DEF w
<1>3. Len(w) > 0 => Starts(w, 1)
  <2>1. CASE Len(a) > 0
    <3>1. 1 \in 1..Len(a) /\ Starts(a, 1)
      BY <1>1, <2>1 DEF Framed
    <3>2. QED
      BY <1>2, <3>1 DEF Starts
  <2>2. CASE Len(a) = 0 /\ Len(b) > 0
    <3>1. 1 \in 1..Len(b) /\ Len(a) + 1 = 1 /\ Starts(b, 1)
      BY <1>1, <2>2 DEF Framed
    <3>2. w[1] = b[1]
      BY <1>2, <3>1
    <3>3. QED
      BY <3>1, <3>2 DEF Starts
  <2>3. QED
    BY <1>1, <1>2, <2>1, <2>2
<1>4. ASSUME NEW p \in 1..Len(w), Starts(w, p) PROVE Whole(w, p)
  <2>1. CASE p <= Len(a)
    <3>1. p \in 1..Len(a) /\ w[p] = a[p] /\ Starts(a, p)
      BY <1>1, <1>2, <1>4, <2>1 DEF Starts
    <3>2. Whole(a, p)
      BY <3>1 DEF Framed
    <3> DEFINE z == a[p].size
    <3>3. z \in Nat \ {0} /\ p + z <= Len(a) /\ w[p].size = z
      BY <3>1, <3>2 DEF Whole
    <3> HIDE DEF z
    <3>4. ASSUME NEW j \in 1..z PROVE w[p + j] = a[p + j]
      <4>1. p + j \in 1..Len(a)
        BY <1>1, <3>3
      <4>2. QED
        BY <1>2, <4>1
    <3>5. ASSUME p + z < Len(w) PROVE Starts(w, p + z + 1)
      <4>1. CASE p + z < Len(a)
        <5>1. p + z + 1 \in 1..Len(a) /\ Starts(a, p + z + 1)
          BY <1>1, <3>2, <3>3, <4>1 DEF Whole, z
        <5>2. QED
          BY <1>2, <5>1 DEF Starts
      <4>2. CASE p + z = Len(a)
        <5>0. 1 \in 1..Len(b) /\ p + z + 1 = Len(a) + 1 /\ Len(b) > 0
          BY <1>1, <1>2, <3>3, <3>5, <4>2
        <5>1. 1 \in 1..Len(b) /\ p + z + 1 = Len(a) + 1 /\ Starts(b, 1)
          BY <5>0 DEF Framed
        <5>2. w[p + z + 1] = b[1]
          BY <1>2, <5>1
        <5>3. QED
          BY <5>1, <5>2 DEF Starts
      <4>3. QED
        BY <1>1, <3>3, <4>1, <4>2
    <3>6. p + z <= Len(w)
      BY <1>1, <1>2, <3>3
    <3>7. /\ a[p].kind \in {"flight", "data", "alert"}
          /\ \A j \in 1..z : /\ a[p + j].kind = "more" /\ a[p + j].byte \in Nat
                             /\ a[p + j].byte > 0 <=> a[p].kind = "data"
      BY <3>2 DEF Whole, z
    <3>8. QED
      BY <3>1, <3>3, <3>4, <3>5, <3>6, <3>7 DEF Whole
  <2>2. CASE p > Len(a)
    <3> DEFINE i == p - Len(a)
    <3>1. i \in 1..Len(b) /\ p = Len(a) + i
      BY <1>1, <1>2, <2>2
    <3> HIDE DEF i
    <3>2. w[p] = b[i] /\ Starts(b, i)
      BY <1>2, <1>4, <3>1 DEF Starts
    <3>3. Whole(b, i)
      BY <3>1, <3>2 DEF Framed
    <3> DEFINE z == b[i].size
    <3>4. z \in Nat \ {0} /\ i + z <= Len(b) /\ w[p].size = z
      BY <3>2, <3>3 DEF Whole
    <3> HIDE DEF z
    <3>5. ASSUME NEW j \in 1..z PROVE w[p + j] = b[i + j]
      <4>1. i + j \in 1..Len(b) /\ p + j = Len(a) + (i + j)
        BY <1>1, <3>1, <3>4
      <4>2. QED
        BY <1>2, <4>1
    <3>6. ASSUME p + z < Len(w) PROVE Starts(w, p + z + 1)
      <4>1. i + z + 1 \in 1..Len(b) /\ p + z + 1 = Len(a) + (i + z + 1) /\ i + z < Len(b)
        BY <1>1, <1>2, <3>1, <3>4, <3>6
      <4>2. w[p + z + 1] = b[i + z + 1] /\ Starts(b, i + z + 1)
        BY <1>2, <3>3, <4>1 DEF Whole, z
      <4>3. QED
        BY <4>2 DEF Starts
    <3>7. p + z <= Len(w)
      BY <1>1, <1>2, <3>1, <3>4
    <3>8. /\ b[i].kind \in {"flight", "data", "alert"}
          /\ \A j \in 1..z : /\ b[i + j].kind = "more" /\ b[i + j].byte \in Nat
                             /\ b[i + j].byte > 0 <=> b[i].kind = "data"
      BY <3>3 DEF Whole, z
    <3>9. QED
      BY <3>2, <3>4, <3>5, <3>6, <3>7, <3>8 DEF Whole
  <2>3. QED
    BY <1>1, <1>2, <2>1, <2>2
<1>5. QED
  BY <1>2, <1>3, <1>4 DEF Framed, w

(* What libtls reads first is one record, and what is left are records. *)
LEMMA FirstRecord ==
    ASSUME NEW a, IsSeq(a), NEW b, IsSeq(b)
    PROVE  Framed(a \o b) /\ Len(a) > 0 /\ Len(a) = 1 + a[1].size =>
           /\ Framed(b) /\ a[1].size \in Nat \ {0}
           /\ a[1].kind \in {"flight", "data", "alert"}
           /\ DataIn(a) = IF a[1].kind = "data" THEN [j \in 1..a[1].size |-> a[j + 1].byte] ELSE <<>>
<1> DEFINE w == a \o b
           z == a[1].size
<1>1. IsSeq(a) /\ IsSeq(b) /\ Len(a) \in Nat /\ Len(b) \in Nat
  BY SeqIsFunction
<1>2. /\ IsSeq(w) /\ Len(w) = Len(a) + Len(b)
      /\ \A j \in 1..Len(a) : w[j] = a[j]
      /\ \A j \in 1..Len(b) : w[Len(a) + j] = b[j]
  BY <1>1, JoinedSeqs
<1>0. SUFFICES ASSUME Framed(w), Len(a) > 0, Len(a) = 1 + z
               PROVE  /\ Framed(b) /\ z \in Nat \ {0}
                      /\ a[1].kind \in {"flight", "data", "alert"}
                      /\ DataIn(a) = IF a[1].kind = "data" THEN [j \in 1..z |-> a[j + 1].byte] ELSE <<>>
  OBVIOUS
<1> HIDE DEF w
<1>3. Framed(w)
  BY <1>0
<1>4. 1 \in 1..Len(a) /\ 1 \in 1..Len(w) /\ w[1] = a[1] /\ Starts(w, 1)
  BY <1>0, <1>1, <1>2, <1>3 DEF Framed
<1>5. Whole(w, 1)
  BY <1>3, <1>4 DEF Framed
<1>6. z \in Nat \ {0} /\ Len(a) = 1 + z /\ a[1].kind \in {"flight", "data", "alert"}
  BY <1>0, <1>4, <1>5 DEF Whole
<1>7. \A j \in 1..z : /\ a[1 + j].kind = "more" /\ a[1 + j].byte \in Nat
                      /\ a[1 + j].byte > 0 <=> a[1].kind = "data"
  <2>1. \A j \in 1..z : 1 + j \in 1..Len(a)
    BY <1>1, <1>6
  <2>2. QED
    BY <1>2, <1>4, <1>5, <2>1 DEF Whole
<1>8. DataIn(a) = IF a[1].kind = "data" THEN [j \in 1..z |-> a[j + 1].byte] ELSE <<>>
  <2>1. a[1].kind # "more"
    BY <1>6
  <2> HIDE DEF z
  <2>2. QED
    BY <1>6, <1>7, <2>1, DataOfRecord
<1> HIDE DEF z
<1>9. Len(b) > 0 => Starts(b, 1)
  <2> SUFFICES ASSUME Len(b) > 0 PROVE Starts(b, 1)
    OBVIOUS
  <2>1. 1 + z < Len(w) /\ 1 + z + 1 = Len(a) + 1 /\ 1 \in 1..Len(b)
    BY <1>1, <1>2, <1>6
  <2>2. Starts(w, 1 + z + 1) /\ w[Len(a) + 1] = b[1]
    BY <1>2, <1>4, <1>5, <2>1 DEF Whole, z
  <2>3. QED
    BY <2>1, <2>2 DEF Starts
<1>10. ASSUME NEW p \in 1..Len(b), Starts(b, p) PROVE Whole(b, p)
  <2> DEFINE q == Len(a) + p
             y == b[p].size
  <2>1. q \in 1..Len(w) /\ w[q] = b[p]
    BY <1>1, <1>2
  <2>2. Whole(w, q)
    BY <1>3, <1>10, <2>1 DEF Framed, Starts
  <2>3. y \in Nat \ {0} /\ q + y <= Len(w) /\ b[p].kind \in {"flight", "data", "alert"}
    BY <2>1, <2>2 DEF Whole
  <2> HIDE DEF q
  <2>4. \A j \in 1..y : /\ w[q + j].kind = "more" /\ w[q + j].byte \in Nat
                        /\ w[q + j].byte > 0 <=> b[p].kind = "data"
    BY <2>1, <2>2 DEF Whole
  <2>5. q + y < Len(w) => Starts(w, q + y + 1)
    BY <2>1, <2>2 DEF Whole
  <2> HIDE DEF y
  <2>6. p + y <= Len(b)
    BY <1>1, <1>2, <2>3 DEF q
  <2>7. ASSUME NEW j \in 1..y PROVE w[q + j] = b[p + j]
    <3>1. p + j \in 1..Len(b) /\ q + j = Len(a) + (p + j)
      BY <1>1, <2>3, <2>6 DEF q
    <3>2. QED
      BY <1>2, <3>1
  <2>8. ASSUME p + y < Len(b) PROVE Starts(b, p + y + 1)
    <3>1. p + y + 1 \in 1..Len(b) /\ q + y + 1 = Len(a) + (p + y + 1) /\ q + y < Len(w)
      BY <1>1, <1>2, <2>3, <2>8 DEF q
    <3>2. QED
      BY <1>2, <2>5, <3>1 DEF Starts
  <2>9. QED
    BY <2>3, <2>4, <2>6, <2>7, <2>8 DEF Whole, y
<1>11. Framed(b)
  BY <1>9, <1>10 DEF Framed
<1>12. QED
  BY <1>6, <1>8, <1>11 DEF z
-----------------------------------------------------------------------------
(* What a record may be made of, and what it then is. *)
MayRecord(kind, d) ==
    /\ kind \in {"flight", "data", "alert"} /\ IsSeq(d) /\ Len(d) > 0
    /\ \A k \in 1..Len(d) : d[k] \in Nat /\ (d[k] > 0 <=> kind = "data")
RightRecord(r, kind, d) ==
    /\ OutOk(r) /\ r # Nothing /\ r.kind = kind /\ r.size = Len(d) /\ Framed(r.bytes)
    /\ Len(r.bytes) = 1 + Len(d) /\ r.bytes[1].kind = kind /\ r.bytes[1].size = Len(d)
    /\ \A j \in 1..Len(d) : r.bytes[1 + j].kind = "more"
    /\ DataIn(r.bytes) = IF kind = "data" THEN d ELSE <<>>

(* A new record is one whole record, whose data is what it was made of. *)
LEMMA RecordRight ==
    ASSUME NEW kind, NEW d, MayRecord(kind, d)
    PROVE  RightRecord(Record(kind, d), kind, d)
<1> USE DEF MayRecord
<1> DEFINE n == Len(d)
           h == [kind |-> kind, size |-> n, byte |-> 0]
           x == <<h>>
           y == [k \in 1..n |-> [kind |-> "more", size |-> 0, byte |-> d[k]]]
           a == x \o y
           r == Record(kind, d)
<1>1. n \in Nat
  BY SeqIsFunction
<1>2. IsSeq(x) /\ Len(x) = 1 /\ x[1].kind = kind /\ x[1].size = n
  <2>1. x = [k \in 1..1 |-> x[k]] /\ 1 \in Nat /\ x[1] = h
    OBVIOUS
  <2>2. h.kind = kind /\ h.size = n
    OBVIOUS
  <2> HIDE DEF x, h
  <2>3. QED
    BY <2>1, <2>2, FunctionIsSeq
<1>3. IsSeq(y) /\ Len(y) = n /\ \A j \in 1..n : y[j].kind = "more" /\ y[j].byte = d[j]
  <2>1. y = [k \in 1..n |-> y[k]] /\ \A j \in 1..n : y[j].kind = "more" /\ y[j].byte = d[j]
    OBVIOUS
  <2> HIDE DEF y
  <2>2. QED
    BY <1>1, <2>1, FunctionIsSeq
<1>4. /\ r.kind = kind /\ r.size = n /\ r.bytes = a
      /\ r = [f \in {"kind", "size", "bytes"} |-> r[f]]
  BY DEF Record
<1> HIDE DEF x, y, h, r
<1>5. /\ IsSeq(a) /\ Len(a) = 1 + n /\ a[1] = x[1] /\ \A j \in 1..n : a[1 + j] = y[j]
  <2>0. IsSeq(x) /\ IsSeq(y)
    BY <1>1, <1>2, <1>3
  <2>1. /\ IsSeq(a) /\ Len(a) = Len(x) + Len(y)
        /\ \A j \in 1..Len(x) : a[j] = x[j]
        /\ \A j \in 1..Len(y) : a[Len(x) + j] = y[j]
    BY <2>0, JoinedSeqs
  <2> HIDE DEF a
  <2>2. 1 \in 1..Len(x)
    BY <1>2
  <2>3. QED
    BY <1>2, <1>3, <2>1, <2>2
<1> HIDE DEF a
<1>6. /\ a[1].kind = kind /\ a[1].kind # "more" /\ a[1].size = n
      /\ \A j \in 1..n : /\ a[1 + j].kind = "more" /\ a[1 + j].byte \in Nat
                         /\ a[1 + j].byte > 0 <=> a[1].kind = "data"
  BY <1>2, <1>3, <1>5
<1>7. DataIn(a) = IF kind = "data" THEN d ELSE <<>>
  <2>1. DataIn(a) = IF a[1].kind = "data" THEN [j \in 1..n |-> a[j + 1].byte] ELSE <<>>
    <3> HIDE DEF n
    <3>1. QED
      BY <1>1, <1>5, <1>6, DataOfRecord
  <2>2. d = [j \in 1..n |-> d[j]]
    BY SeqIsFunction
  <2>3. \A j \in 1..n : a[j + 1].byte = d[j]
    <3>1. \A j \in 1..n : j + 1 = 1 + j
      BY <1>1
    <3>2. QED
      BY <1>3, <1>5, <3>1
  <2> HIDE DEF n
  <2>4. [j \in 1..n |-> a[j + 1].byte] = [j \in 1..n |-> d[j]]
    BY <2>3
  <2>5. QED
    BY <1>6, <2>1, <2>2, <2>4
<1>8. Framed(a)
  <2>1. Len(a) > 0 => Starts(a, 1)
    BY <1>6 DEF Starts
  <2>2. ASSUME NEW p \in 1..Len(a), Starts(a, p) PROVE Whole(a, p)
    <3>1. p = 1 \/ \E j \in 1..n : p = 1 + j
      <4>1. p = 1 \/ (p - 1 \in 1..n /\ p = 1 + (p - 1))
        BY <1>1, <1>5
      <4>2. QED
        BY <4>1
    <3>2. p = 1
      BY <1>6, <2>2, <3>1 DEF Starts
    <3>3. n \in Nat \ {0} /\ 1 + n <= Len(a) /\ ~(1 + n < Len(a))
      BY <1>1, <1>5
    <3>4. QED
      BY <1>6, <3>2, <3>3 DEF Whole
  <2>3. QED
    BY <1>5, <2>1, <2>2 DEF Framed
<1>9. OutOk(r) /\ r # Nothing
  <2>1. Len(r.bytes) > 0 /\ IsSeq(r.bytes)
    BY <1>1, <1>4, <1>5
  <2>2. r # Nothing
    BY <1>4 DEF Nothing
  <2>3. QED
    BY <1>1, <1>4, <2>1, <2>2 DEF OutOk
<1>10. QED
  BY <1>4, <1>5, <1>6, <1>7, <1>8, <1>9 DEF r, RightRecord

(* The numbers up to m and those that follow. *)
LEMMA NumbersGoOn ==
    ASSUME NEW m \in Nat, NEW n \in Nat
    PROVE  [k \in 1..m |-> k] \o [k \in 1..n |-> m + k] = [k \in 1..(m + n) |-> k]
<1> DEFINE x == [k \in 1..m |-> k]
           y == [k \in 1..n |-> m + k]
           z == [k \in 1..(m + n) |-> k]
           w == x \o y
<1>1. IsSeq(x) /\ Len(x) = m /\ \A k \in 1..m : x[k] = k
  <2>1. x = [k \in 1..m |-> x[k]] /\ \A k \in 1..m : x[k] = k
    OBVIOUS
  <2> HIDE DEF x
  <2>2. QED
    BY <2>1, FunctionIsSeq
<1>2. IsSeq(y) /\ Len(y) = n /\ \A k \in 1..n : y[k] = m + k
  <2>1. y = [k \in 1..n |-> y[k]] /\ \A k \in 1..n : y[k] = m + k
    OBVIOUS
  <2> HIDE DEF y
  <2>2. QED
    BY <2>1, FunctionIsSeq
<1>3. IsSeq(z) /\ Len(z) = m + n /\ \A k \in 1..(m + n) : z[k] = k
  <2>1. z = [k \in 1..(m + n) |-> z[k]] /\ \A k \in 1..(m + n) : z[k] = k
    OBVIOUS
  <2>2. m + n \in Nat
    OBVIOUS
  <2> HIDE DEF z
  <2>3. QED
    BY <2>1, <2>2, FunctionIsSeq
<1> HIDE DEF x, y, z
<1>4. /\ IsSeq(w) /\ Len(w) = m + n
      /\ \A j \in 1..m : w[j] = x[j]
      /\ \A j \in 1..n : w[m + j] = y[j]
  <2>0. IsSeq(x) /\ IsSeq(y)
    BY <1>1, <1>2, <1>3
  <2>1. /\ IsSeq(w) /\ Len(w) = Len(x) + Len(y)
        /\ \A j \in 1..Len(x) : w[j] = x[j]
        /\ \A j \in 1..Len(y) : w[Len(x) + j] = y[j]
    BY <2>0, JoinedSeqs
  <2> HIDE DEF w
  <2>2. QED
    BY <1>1, <1>2, <2>1
<1> HIDE DEF w
<1>6. ASSUME NEW j \in 1..Len(w) PROVE w[j] = z[j]
  <2>1. j \in 1..(m + n)
    BY <1>4
  <2>2. CASE j <= m
    <3>1. j \in 1..m
      BY <2>1, <2>2
    <3>2. QED
      BY <1>1, <1>3, <1>4, <2>1, <3>1
  <2>3. CASE j > m
    <3>1. j - m \in 1..n /\ j = m + (j - m)
      BY <2>1, <2>3
    <3>2. w[j] = y[j - m] /\ y[j - m] = m + (j - m)
      BY <1>2, <1>4, <3>1
    <3>3. QED
      BY <1>3, <2>1, <3>1, <3>2
  <2>4. QED
    BY <2>1, <2>2, <2>3
<1>7. w = z
  BY <1>3, <1>4, <1>6, SameSeqs
<1>8. QED
  BY <1>7 DEF w, x, y, z

-----------------------------------------------------------------------------
(* The bytes b of one record of this kind and size; the flow f got longer  *)
(* by it and is now w.                                                     *)
OneRecord(b, kind, n) ==
    /\ Len(b) = 1 + n /\ b[1].kind = kind /\ b[1].size = n /\ kind # "more"
    /\ \A j \in 1..n : b[1 + j].kind = "more"
Longer(w, f, kind, n) ==
    /\ Len(w) = Len(f) + 1 + n /\ Len(f) \in Nat /\ n \in Nat
    /\ w[Len(f) + 1].kind = kind /\ w[Len(f) + 1].size = n
    /\ \A p \in 1..Len(f) : w[p] = f[p]
    /\ \A p \in 1..Len(w) : p > Len(f) + 1 => w[p].kind = "more"

(* The kinds in a flow that got longer by a record. *)
LEMMA KindsJoined ==
    ASSUME NEW f, IsSeq(f), NEW b, IsSeq(b), NEW w, w = f \o b, NEW kind, NEW n \in Nat
    PROVE  OneRecord(b, kind, n) => Longer(w, f, kind, n)
<1>1. Len(f) \in Nat
  BY SeqIsFunction
<1>2. /\ Len(w) = Len(f) + Len(b)
      /\ \A j \in 1..Len(f) : w[j] = f[j]
      /\ \A j \in 1..Len(b) : w[Len(f) + j] = b[j]
  BY JoinedSeqs
<1>3. ASSUME Len(b) = 1 + n, b[1].kind = kind, b[1].size = n,
             \A j \in 1..n : b[1 + j].kind = "more"
      PROVE  /\ Len(w) = Len(f) + 1 + n
             /\ w[Len(f) + 1].kind = kind /\ w[Len(f) + 1].size = n
             /\ \A p \in 1..Len(w) : p > Len(f) + 1 => w[p].kind = "more"
  <2>1. 1 \in 1..Len(b) /\ w[Len(f) + 1] = b[1]
    BY <1>1, <1>2, <1>3
  <2>2. ASSUME NEW p \in 1..Len(w), p > Len(f) + 1 PROVE w[p].kind = "more"
    <3> DEFINE j == p - Len(f) - 1
    <3>1. j \in 1..n /\ 1 + j \in 1..Len(b) /\ p = Len(f) + (1 + j)
      BY <1>1, <1>2, <1>3, <2>2
    <3> HIDE DEF j
    <3>2. w[p] = b[1 + j]
      BY <1>2, <3>1
    <3>3. QED
      BY <1>3, <3>1, <3>2
  <2>3. Len(w) = Len(f) + 1 + n
    BY <1>1, <1>2, <1>3
  <2>4. QED
    BY <1>3, <2>1, <2>2, <2>3
<1>4. QED
  BY <1>1, <1>2, <1>3 DEF OneRecord, Longer

(* What the client begins to write: a flight, the data of send(), or the   *)
(* alert of close().                                                       *)
ClientMayWrite(c, acc, kind, d) ==
    \/ kind = "flight" /\ d = <<0>> /\ c.flights \in {0, 2}
    \/ /\ kind = "data" /\ c.flights = 3 /\ c.call = "send"
       /\ d = [k \in 1..Len(d) |-> acc + k] /\ Len(d) \in Nat \ {0} /\ acc + Len(d) <= TlsData
    \/ kind = "alert" /\ d = <<0>> /\ c.flights = 3 /\ c.call = "close"

(* Such a record is right. *)
LEMMA ClientRecord ==
    ASSUME NEW c, NEW acc \in Nat, NEW kind, NEW d, ClientMayWrite(c, acc, kind, d)
    PROVE  /\ kind \in {"flight", "data", "alert"} /\ IsSeq(d) /\ Len(d) > 0
           /\ \A k \in 1..Len(d) : d[k] \in Nat /\ (d[k] > 0 <=> kind = "data")
<1>1. CASE d = <<0>> /\ kind \in {"flight", "alert"}
  <2> DEFINE z == <<0>>
  <2>1. z = [k \in 1..1 |-> z[k]] /\ z[1] = 0
    OBVIOUS
  <2> HIDE DEF z
  <2>2. IsSeq(z) /\ Len(z) = 1
    BY <2>1, FunctionIsSeq
  <2>3. d = z
    BY <1>1 DEF z
  <2>4. QED
    BY <1>1, <2>1, <2>2, <2>3
<1>2. CASE /\ kind = "data" /\ d = [k \in 1..Len(d) |-> acc + k] /\ Len(d) \in Nat \ {0}
  <2> DEFINE n == Len(d)
  <2>1. n \in Nat /\ n > 0 /\ d = [k \in 1..n |-> acc + k]
    BY <1>2
  <2> HIDE DEF n
  <2>2. d = [k \in 1..n |-> d[k]] /\ \A k \in 1..n : d[k] = acc + k
    BY <2>1
  <2>3. IsSeq(d)
    BY <2>1, <2>2, FunctionIsSeq
  <2>4. QED
    BY <1>2, <2>1, <2>2, <2>3 DEF n
<1>3. QED
  BY <1>1, <1>2 DEF ClientMayWrite

(* The client begins a record. *)
LEMMA ClientBegins ==
    ASSUME NEW c, NEW v, NEW f, NEW g, NEW rc, NEW rs, NEW acc, NEW got,
           Linked(c, v, f, g, rc, rs, acc, got), c.out = Nothing,
           NEW kind, NEW d, ClientMayWrite(c, acc, kind, d),
           NEW x, x.out = Record(kind, d), x.flights = c.flights, x.call = c.call,
           x.context = c.context
    PROVE  Linked(x, v, f \o Record(kind, d).bytes, g, rc, rs, acc, got)
<1> DEFINE r == Record(kind, d)
           b == r.bytes
           w == f \o b
           n == Len(d)
<1>1. /\ acc \in Nat /\ acc \in 0..TlsData /\ IsSeq(got) /\ IsSeq(v.plain) /\ Framed(f) /\ IsSeq(f)
  BY TlsAssumption DEF Linked, Framed
<1>2. /\ kind \in {"flight", "data", "alert"} /\ IsSeq(d) /\ n > 0
      /\ \A k \in 1..Len(d) : d[k] \in Nat /\ (d[k] > 0 <=> kind = "data")
  BY <1>1, ClientRecord
<1>3. /\ OutOk(r) /\ r # Nothing /\ r.kind = kind /\ r.size = n /\ Framed(b)
      /\ Len(b) = 1 + n /\ b[1].kind = kind /\ b[1].size = n
      /\ \A j \in 1..n : b[1 + j].kind = "more"
      /\ DataIn(b) = IF kind = "data" THEN d ELSE <<>>
  <2>1. MayRecord(kind, d)
    BY <1>2 DEF MayRecord
  <2>2. RightRecord(r, kind, d)
    BY <2>1, RecordRight
  <2> HIDE DEF r
  <2>3. QED
    BY <2>2 DEF RightRecord
<1>4. x.out = r
  OBVIOUS
<1> HIDE DEF r
<1>5. IsSeq(b) /\ kind # "more"
  BY <1>2, <1>3 DEF Framed
<1>0. n \in Nat
  BY <1>2, SeqIsFunction
<1> HIDE DEF b, n
<1>6. /\ Len(w) = Len(f) + 1 + n /\ Len(f) \in Nat /\ n \in Nat
      /\ w[Len(f) + 1].kind = kind /\ w[Len(f) + 1].size = n
      /\ \A p \in 1..Len(f) : w[p] = f[p]
      /\ \A p \in 1..Len(w) : p > Len(f) + 1 => w[p].kind = "more"
  <2>1. w = f \o b
    OBVIOUS
  <2> HIDE DEF w
  <2>2. IsSeq(f) /\ IsSeq(b) /\ n \in Nat
    BY <1>0, <1>1, <1>5
  <2>3. OneRecord(b, kind, n)
    BY <1>3, <1>5 DEF OneRecord
  <2>4. Longer(w, f, kind, n)
    BY <2>1, <2>2, <2>3, KindsJoined
  <2>5. QED
    BY <2>4 DEF Longer
<1>7. Framed(w)
  BY <1>1, <1>3, FramedJoined
<1>8. DataIn(w) = DataIn(f) \o DataIn(b) /\ IsSeq(DataIn(f)) /\ IsSeq(DataIn(b))
  BY <1>1, <1>5, DataJoined
<1> HIDE DEF w
<1>9. \A p \in 1..Len(w) : p \in 1..Len(f) \/ p = Len(f) + 1 \/ p > Len(f) + 1
  BY <1>6
<1>10. Nothing.kind = "none"
  BY DEF Nothing
<1>11. kind = "flight" => Len(f) = 0
  BY <1>2, <1>6, <1>10 DEF ClientMayWrite, Linked, Handshakes, Phase
<1>12. kind # "flight" => c.flights = 3
  BY DEF ClientMayWrite
<1>13. Handshakes(x, v, w, g)
  <2>1. Handshakes(c, v, f, g)
    BY DEF Linked
  <2>2. \A p \in 1..Len(w) : w[p].kind = "flight" => p = 1
    <3>1. ASSUME NEW p \in 1..Len(w), w[p].kind = "flight" PROVE p = 1
      <4>1. CASE p \in 1..Len(f)
        BY <1>6, <2>1, <3>1, <4>1 DEF Handshakes
      <4>2. CASE p = Len(f) + 1
        <5>1. Len(f) = 0
          BY <1>6, <1>11, <3>1, <4>2
        <5>2. QED
          BY <4>2, <5>1
      <4>3. CASE p > Len(f) + 1
        BY <1>6, <3>1, <4>3
      <4>4. QED
        BY <1>9, <4>1, <4>2, <4>3
    <3>2. QED
      BY <3>1
  <2>3. \A p \in 1..Len(w) : w[p].kind \in {"data", "alert"} => x.flights = 3
    <3>1. ASSUME NEW p \in 1..Len(w), w[p].kind \in {"data", "alert"} PROVE x.flights = 3
      <4>1. CASE p \in 1..Len(f)
        BY <1>6, <2>1, <3>1, <4>1 DEF Handshakes
      <4>2. CASE p = Len(f) + 1
        BY <1>6, <1>12, <3>1, <4>2
      <4>3. CASE p > Len(f) + 1
        BY <1>6, <3>1, <4>3
      <4>4. QED
        BY <1>9, <4>1, <4>2, <4>3
    <3>2. QED
      BY <3>1
  <2>4. Len(w) > 0
    BY <1>6
  <2>5. Len(f) > 0 => 1 \in 1..Len(f) /\ w[1] = f[1]
    BY <1>6
  <2>6. Len(f) = 0 => w[1].kind = kind
    BY <1>6
  <2>7. /\ Phase(x, v, 0, 0) \/ Phase(x, v, 2, 2) => (Len(w) > 0 <=> x.out.kind = "flight")
        /\ Phase(x, v, 1, 0) \/ Phase(x, v, 3, 2) => Len(w) > 0 /\ w[1].kind = "flight"
        /\ Phase(x, v, 1, 1) \/ Phase(x, v, 1, 2) => Len(w) = 0
        /\ Phase(x, v, 3, 3) /\ Len(w) > 0 => w[1].kind # "flight"
    <3>1. CASE kind = "flight"
      <4>1. c.flights \in {0, 2} /\ x.out.kind = "flight"
        BY <1>3, <1>4, <3>1 DEF ClientMayWrite
      <4>2. QED
        BY <2>4, <4>1 DEF Phase
    <3>2. CASE kind # "flight"
      <4>1. c.flights = 3
        BY <1>12, <3>2
      <4>2. Phase(c, v, 3, 2) => Len(f) > 0 /\ f[1].kind = "flight"
        BY <2>1 DEF Handshakes
      <4>3. Phase(c, v, 3, 3) /\ Len(f) > 0 => f[1].kind # "flight"
        BY <2>1 DEF Handshakes
      <4>4. Len(f) = 0 \/ Len(f) > 0
        BY <1>6
      <4>5. QED
        BY <2>4, <2>5, <2>6, <3>2, <4>1, <4>2, <4>3, <4>4 DEF Phase
    <3>3. QED
      BY <3>1, <3>2
  <2>8. /\ x.out.kind = "flight" => x.flights \in {0, 2}
        /\ x.out.kind \in {"data", "alert"} => x.flights = 3
    BY <1>3, <1>4, <1>12 DEF ClientMayWrite
  <2>9. QED
    BY <2>1, <2>2, <2>3, <2>7, <2>8 DEF Handshakes, Phase
<1>14. ~v.ended /\ ~AlertIn(f)
  <2>1. Calls(c, v, f, rc, rs, acc) /\ Handshakes(c, v, f, g)
    BY DEF Linked
  <2>2. c.flights = 3 => c.call \in {"send", "close"}
    BY DEF ClientMayWrite
  <2>3. QED
    BY <1>10, <2>1, <2>2 DEF Calls
<1>15. Calls(x, v, w, rc, rs, acc)
  <2>1. Calls(c, v, f, rc, rs, acc)
    BY DEF Linked
  <2>2. x.out.kind = "data" => acc + x.out.size <= TlsData /\ x.out.size > 0
    BY <1>2, <1>3, <1>4 DEF ClientMayWrite, n
  <2>3. ASSUME NEW p \in 1..Len(w), w[p].kind = "alert" PROVE p = Len(f) + 1 /\ kind = "alert"
    <3>1. CASE p \in 1..Len(f)
      BY <1>6, <1>14, <2>3, <3>1 DEF AlertIn
    <3>2. CASE p = Len(f) + 1
      BY <1>6, <2>3, <3>2
    <3>3. CASE p > Len(f) + 1
      BY <1>6, <2>3, <3>3
    <3>4. QED
      BY <1>9, <3>1, <3>2, <3>3
  <2>4. Len(f) + 1 \in 1..Len(w) /\ (Len(f) + 1) + n = Len(w)
    BY <1>6
  <2>5. AlertIn(w) <=> kind = "alert"
    BY <1>6, <2>3, <2>4 DEF AlertIn
  <2>6. \A p \in 1..Len(w) : w[p].kind = "alert" => p + w[p].size = Len(w)
    BY <1>6, <2>3, <2>4
  <2>7. kind = "alert" => x.call = "close" /\ x.flights = 3 /\ acc = TlsData /\ x.out.kind = "alert"
    BY <1>3, <1>4, <2>1 DEF ClientMayWrite, Calls
  <2>8. x.out.kind = "alert" => AlertIn(w)
    BY <1>3, <1>4, <2>5
  <2>9. QED
    BY <1>14, <2>1, <2>2, <2>5, <2>6, <2>7, <2>8 DEF Calls
<1>16. AllBytes(x, v, w, acc, got)
  <2> DEFINE a == got \o v.plain
             e == DataIn(f)
             h == DataIn(b)
  <2>1. IsSeq(a) /\ IsSeq(e) /\ IsSeq(h)
    BY <1>1, <1>8, JoinedSeqs
  <2>2. a \o e = [k \in 1..acc |-> k]
    <3>1. Begun(c.out) = 0 /\ acc + 0 = acc
      BY <1>1, <1>10 DEF Begun
    <3>2. QED
      BY <3>1 DEF Linked, AllBytes
  <2>3. DataIn(w) = e \o h
    BY <1>8
  <2>4. h = IF kind = "data" THEN d ELSE <<>>
    BY <1>3
  <2> HIDE DEF a, e, h
  <2>5. a \o (e \o h) = (a \o e) \o h
    BY <2>1, JoinedAgain
  <2>6. CASE kind = "data"
    <3>1. Begun(x.out) = n
      BY <1>3, <1>4, <2>6 DEF Begun
    <3>2. d = [k \in 1..n |-> acc + k]
      BY <2>6 DEF ClientMayWrite, n
    <3>3. [k \in 1..acc |-> k] \o d = [k \in 1..(acc + n) |-> k]
      BY <1>1, <1>6, <3>2, NumbersGoOn
    <3>4. QED
      BY <2>2, <2>3, <2>4, <2>5, <2>6, <3>1, <3>3 DEF AllBytes, a
  <2>7. CASE kind # "data"
    <3>1. Begun(x.out) = 0 /\ acc + 0 = acc
      BY <1>1, <1>3, <1>4, <2>7 DEF Begun
    <3>2. IsSeq(a \o e)
      BY <2>1, JoinedSeqs
    <3>3. (a \o e) \o <<>> = a \o e
      BY <3>2, NothingAfter
    <3>4. QED
      BY <2>2, <2>3, <2>4, <2>5, <2>7, <3>1, <3>3 DEF AllBytes, a
  <2>8. QED
    BY <2>6, <2>7
<1>17. Linked(x, v, w, g, rc, rs, acc, got)
  BY <1>3, <1>4, <1>7, <1>13, <1>15, <1>16 DEF Linked
<1>18. QED
  BY <1>17 DEF w, b, r

(* The server begins its flight. *)
LEMMA ServerBegins ==
    ASSUME NEW c, NEW v, NEW f, NEW g, NEW rc, NEW rs, NEW acc, NEW got,
           Linked(c, v, f, g, rc, rs, acc, got), v.out = Nothing, v.flights = 1,
           NEW r, r = Record("flight", << 0 >>),
           NEW y, y.out = r, y.flights = v.flights, y.call = v.call,
           y.plain = v.plain, y.ended = v.ended
    PROVE  Linked(c, y, f, g \o r.bytes, rc, rs, acc, got)
<1> DEFINE d == <<0>>
           b == r.bytes
           w == g \o b
<1>1. IsSeq(d) /\ Len(d) = 1 /\ d[1] = 0
  <2>1. d = [k \in 1..1 |-> d[k]] /\ d[1] = 0
    OBVIOUS
  <2> HIDE DEF d
  <2>2. QED
    BY <2>1, FunctionIsSeq
<1>2. r = Record("flight", d)
  OBVIOUS
<1> HIDE DEF d
<1>3. \A k \in 1..Len(d) : d[k] \in Nat /\ (d[k] > 0 <=> "flight" = "data")
  BY <1>1
<1>4. /\ OutOk(r) /\ r.kind = "flight" /\ Framed(b)
      /\ Len(b) = 1 + Len(d) /\ b[1].kind = "flight" /\ b[1].size = Len(d)
      /\ \A j \in 1..Len(d) : b[1 + j].kind = "more"
  <2> DEFINE k == "flight"
  <2>1. k \in {"flight", "data", "alert"} /\ IsSeq(d) /\ Len(d) > 0
    BY <1>1
  <2>2. \A j \in 1..Len(d) : d[j] \in Nat /\ (d[j] > 0 <=> k = "data")
    BY <1>3
  <2>3. r = Record(k, d)
    BY <1>2
  <2> HIDE DEF k
  <2>4. /\ OutOk(r) /\ r.kind = k /\ Framed(r.bytes)
        /\ Len(r.bytes) = 1 + Len(d) /\ r.bytes[1].kind = k /\ r.bytes[1].size = Len(d)
        /\ \A j \in 1..Len(d) : r.bytes[1 + j].kind = "more"
    <3>1. MayRecord(k, d)
      BY <2>1, <2>2 DEF MayRecord
    <3>2. RightRecord(r, k, d)
      BY <2>3, <3>1, RecordRight
    <3>3. QED
      BY <3>2 DEF RightRecord
  <2>5. QED
    BY <2>4 DEF k
<1> HIDE DEF b
<1>5. /\ Framed(g) /\ IsSeq(g) /\ IsSeq(b) /\ Handshakes(c, v, f, g)
  BY <1>4 DEF Linked, Framed
<1>6. OneRecord(b, "flight", 1)
  BY <1>1, <1>4 DEF OneRecord
<1>7. w = g \o b
  OBVIOUS
<1>8. Framed(w)
  BY <1>4, <1>5, FramedJoined
<1> HIDE DEF w
<1>9. Longer(w, g, "flight", 1)
  BY <1>5, <1>6, <1>7, KindsJoined
<1>10. Phase(c, v, 1, 1) /\ Len(g) = 0
  <2>1. Nothing.kind = "none" /\ Len(g) \in Nat
    BY <1>9 DEF Nothing, Longer
  <2>2. Phase(c, v, 1, 1)
    BY <1>5 DEF Handshakes, Phase
  <2>3. QED
    BY <1>5, <2>1, <2>2 DEF Handshakes
<1>11. /\ Len(w) = 2 /\ w[1].kind = "flight"
       /\ \A p \in 1..Len(w) : p > 1 => w[p].kind = "more"
  BY <1>9, <1>10 DEF Longer
<1>12. Handshakes(c, y, f, w)
  <2>1. \A p \in 1..Len(w) : w[p].kind \in {"flight", "more"} /\ (Starts(w, p) => p = 1)
    BY <1>11 DEF Starts
  <2>2. Phase(c, y, 1, 1) /\ Len(w) > 0 /\ y.out.kind = "flight"
    BY <1>4, <1>10, <1>11 DEF Phase
  <2>3. QED
    BY <1>5, <1>10, <2>1, <2>2 DEF Handshakes, Phase
<1>13. Calls(c, y, f, rc, rs, acc) /\ AllBytes(c, y, f, acc, got)
  BY DEF Linked, Calls, AllBytes
<1>14. OutOk(y.out)
  BY <1>4
<1>15. Linked(c, y, f, w, rc, rs, acc, got)
  BY <1>8, <1>12, <1>13, <1>14 DEF Linked
<1>16. QED
  BY <1>15 DEF w, b

(* An end has written a part of its record, or has a context now. *)
LEMMA PartWritten ==
    ASSUME NEW c, NEW v, NEW f, NEW g, NEW rc, NEW rs, NEW acc, NEW got,
           Linked(c, v, f, g, rc, rs, acc, got),
           NEW x, OutOk(x.out), x.out.kind = c.out.kind, x.out.size = c.out.size,
           x.flights = c.flights, x.call = c.call, c.context => x.context,
           NEW y, OutOk(y.out), y.out.kind = v.out.kind, y.flights = v.flights,
           y.call = v.call, y.plain = v.plain, y.ended = v.ended
    PROVE  Linked(x, y, f, g, rc, rs, acc, got)
<1>1. Handshakes(x, y, f, g)
  BY DEF Linked, Handshakes, Phase
<1>2. Calls(x, y, f, rc, rs, acc)
  BY DEF Linked, Calls
<1>3. AllBytes(x, y, f, acc, got)
  BY DEF Linked, AllBytes, Begun
<1>4. QED
  BY <1>1, <1>2, <1>3 DEF Linked

(* The client has written the last byte of a flight, of the data of        *)
(* send(), or of the alert.                                                *)
LEMMA FlightWritten ==
    ASSUME NEW c, NEW v, NEW f, NEW g, NEW rc, NEW rs, NEW acc, NEW got,
           Linked(c, v, f, g, rc, rs, acc, got), c.out.kind = "flight", c.call # "none",
           NEW x, x.out = Nothing, x.flights = c.flights + 1, x.call = c.call,
           x.context = c.context
    PROVE  Linked(x, v, f, g, rc, rs, acc, got)
<1>1. Handshakes(c, v, f, g) /\ Calls(c, v, f, rc, rs, acc) /\ Framed(f)
  BY DEF Linked
<1>2. Nothing.kind = "none" /\ OutOk(Nothing)
  BY NoElements DEF Nothing, OutOk
<1>3. \/ Phase(c, v, 0, 0) /\ Phase(x, v, 1, 0)
      \/ Phase(c, v, 2, 2) /\ Phase(x, v, 3, 2)
  BY <1>1 DEF Handshakes, Phase
<1>4. c.flights \in {0, 2} /\ Len(f) > 0 /\ Len(f) \in Nat /\ 1 \in 1..Len(f)
  <2>1. Len(f) > 0 /\ c.flights \in {0, 2}
    BY <1>1, <1>3 DEF Handshakes, Phase
  <2>2. Len(f) \in Nat
    BY <1>1, SeqIsFunction DEF Framed
  <2>3. QED
    BY <2>1, <2>2
<1>5. f[1].kind = "flight"
  <2>1. Starts(f, 1)
    BY <1>1, <1>4 DEF Framed
  <2>2. Whole(f, 1)
    BY <1>1, <1>4, <2>1 DEF Framed
  <2>3. f[1].kind \in {"flight", "data", "alert"}
    BY <2>2 DEF Whole
  <2>4. QED
    BY <1>1, <1>4, <2>3 DEF Handshakes
<1>6. \A p \in 1..Len(f) : ~(f[p].kind \in {"data", "alert"})
  BY <1>1, <1>4 DEF Handshakes
<1>7. Handshakes(x, v, f, g)
  BY <1>1, <1>2, <1>3, <1>4, <1>5, <1>6 DEF Handshakes, Phase
<1>8. ~AlertIn(f) /\ ~v.ended /\ c.call # "close" /\ c.context
  BY <1>1, <1>4, <1>6 DEF AlertIn, Calls
<1>9. Calls(x, v, f, rc, rs, acc)
  BY <1>1, <1>2, <1>8 DEF Calls
<1>10. AllBytes(x, v, f, acc, got)
  BY <1>2 DEF Linked, AllBytes, Begun
<1>11. QED
  BY <1>2, <1>7, <1>9, <1>10 DEF Linked

(* The data of send(). *)
LEMMA DataWritten ==
    ASSUME NEW c, NEW v, NEW f, NEW g, NEW rc, NEW rs, NEW acc, NEW got,
           Linked(c, v, f, g, rc, rs, acc, got), c.out.kind = "data", c.call = "send",
           NEW x, x.out = Nothing, x.flights = c.flights, x.call = "none",
           x.context = c.context
    PROVE  Linked(x, v, f, g, "ok", rs, acc + c.out.size, got)
<1>1. Handshakes(c, v, f, g) /\ Calls(c, v, f, rc, rs, acc) /\ OutOk(c.out) /\ acc \in 0..TlsData
  BY DEF Linked
<1>2. Nothing.kind = "none" /\ OutOk(Nothing)
  BY NoElements DEF Nothing, OutOk
<1>3. acc + c.out.size \in 0..TlsData /\ c.out.size \in Nat /\ (acc + c.out.size) + 0 = acc + c.out.size
  BY <1>1, TlsAssumption DEF Calls, OutOk
<1>4. Handshakes(x, v, f, g)
  BY <1>1, <1>2 DEF Handshakes, Phase
<1>5. ~AlertIn(f) /\ ~v.ended /\ c.context
  BY <1>1 DEF Calls
<1>6. Calls(x, v, f, "ok", rs, acc + c.out.size)
  BY <1>1, <1>2, <1>5 DEF Calls
<1>7. AllBytes(x, v, f, acc + c.out.size, got)
  <2>1. Begun(x.out) = 0 /\ Begun(c.out) = c.out.size
    BY <1>2 DEF Begun
  <2>2. QED
    BY <1>3, <2>1 DEF Linked, AllBytes
<1>8. QED
  BY <1>2, <1>3, <1>4, <1>6, <1>7 DEF Linked

(* The alert of close(). *)
LEMMA AlertWritten ==
    ASSUME NEW c, NEW v, NEW f, NEW g, NEW rc, NEW rs, NEW acc, NEW got,
           Linked(c, v, f, g, rc, rs, acc, got), c.out.kind = "alert", c.call = "close",
           NEW x, x.out = Nothing, x.flights = c.flights, x.call = "none",
           x.context = c.context
    PROVE  Linked(x, v, f, g, "closed", rs, acc, got)
<1>1. Handshakes(c, v, f, g) /\ Calls(c, v, f, rc, rs, acc)
  BY DEF Linked
<1>2. Nothing.kind = "none" /\ OutOk(Nothing)
  BY NoElements DEF Nothing, OutOk
<1>3. Handshakes(x, v, f, g)
  BY <1>1, <1>2 DEF Handshakes, Phase
<1>4. Calls(x, v, f, "closed", rs, acc)
  BY <1>1, <1>2 DEF Calls
<1>5. AllBytes(x, v, f, acc, got)
  BY <1>2 DEF Linked, AllBytes, Begun
<1>6. QED
  BY <1>2, <1>3, <1>4, <1>5 DEF Linked

(* The server has written its flight. *)
LEMMA AnswerWritten ==
    ASSUME NEW c, NEW v, NEW f, NEW g, NEW rc, NEW rs, NEW acc, NEW got,
           Linked(c, v, f, g, rc, rs, acc, got), v.out.kind = "flight",
           NEW y, y.out = Nothing, y.flights = v.flights + 1, y.call = v.call,
           y.plain = v.plain, y.ended = v.ended
    PROVE  Linked(c, y, f, g, rc, rs, acc, got)
<1>1. Handshakes(c, v, f, g)
  BY DEF Linked
<1>2. Nothing.kind = "none" /\ OutOk(Nothing)
  BY NoElements DEF Nothing, OutOk
<1>3. Phase(c, v, 1, 1) /\ Phase(c, y, 1, 2)
  BY <1>1 DEF Handshakes, Phase
<1>4. Handshakes(c, y, f, g)
  BY <1>1, <1>2, <1>3 DEF Handshakes, Phase
<1>5. Calls(c, y, f, rc, rs, acc) /\ AllBytes(c, y, f, acc, got)
  BY DEF Linked, Calls, AllBytes
<1>6. QED
  BY <1>2, <1>4, <1>5 DEF Linked

(* The client calls; it does not after close(). *)
LEMMA ClientCalls ==
    ASSUME NEW c, NEW v, NEW f, NEW g, NEW rc, NEW rs, NEW acc, NEW got,
           Linked(c, v, f, g, rc, rs, acc, got), c.call = "none", rc # "closed",
           NEW x, x.out = c.out, x.flights = c.flights, x.context = c.context,
           x.call \in {"handshake", "send", "close"},
           x.call # "close" => c.context,
           x.call = "send" => acc < TlsData,
           x.call = "close" => c.flights = 3 /\ acc = TlsData
    PROVE  Linked(x, v, f, g, rc, rs, acc, got)
<1>1. Calls(c, v, f, rc, rs, acc)
  BY DEF Linked
<1>2. ~AlertIn(f) /\ ~v.ended
  BY <1>1 DEF Calls
<1>3. x.context
  BY <1>1 DEF Calls
<1>4. Calls(x, v, f, rc, rs, acc)
  BY <1>1, <1>2, <1>3 DEF Calls
<1>5. Handshakes(x, v, f, g) /\ AllBytes(x, v, f, acc, got)
  BY DEF Linked, Handshakes, Phase, AllBytes
<1>6. QED
  BY <1>4, <1>5 DEF Linked

(* A call of the client returns, with the record it began. *)
LEMMA ClientReturns ==
    ASSUME NEW c, NEW v, NEW f, NEW g, NEW rc, NEW rs, NEW acc, NEW got,
           Linked(c, v, f, g, rc, rs, acc, got), c.call # "none",
           NEW x, x.out = c.out, x.flights = c.flights, x.context = c.context, x.call = "none",
           NEW reason, c.call = "close" => reason = "closed"
    PROVE  Linked(x, v, f, g, reason, rs, acc, got)
<1>1. Calls(c, v, f, rc, rs, acc)
  BY DEF Linked
<1>2. Calls(x, v, f, reason, rs, acc)
  BY <1>1 DEF Calls
<1>3. Handshakes(x, v, f, g) /\ AllBytes(x, v, f, acc, got)
  BY DEF Linked, Handshakes, Phase, AllBytes
<1>4. QED
  BY <1>2, <1>3 DEF Linked

(* The server calls, or its call returns without data. *)
LEMMA ServerCalls ==
    ASSUME NEW c, NEW v, NEW f, NEW g, NEW rc, NEW rs, NEW acc, NEW got,
           Linked(c, v, f, g, rc, rs, acc, got),
           NEW y, y.out = v.out, y.flights = v.flights, y.plain = v.plain, y.ended = v.ended,
           y.call \in {"none", "handshake", "recv"},
           NEW reason, reason = "closed" => rs = "closed"
    PROVE  Linked(c, y, f, g, rc, reason, acc, got)
<1>1. Calls(c, v, f, rc, rs, acc)
  BY DEF Linked
<1>2. Calls(c, y, f, rc, reason, acc)
  BY <1>1 DEF Calls
<1>3. Handshakes(c, y, f, g) /\ AllBytes(c, y, f, acc, got)
  BY DEF Linked, Handshakes, Phase, AllBytes
<1>4. QED
  BY <1>2, <1>3 DEF Linked

-----------------------------------------------------------------------------
(* The positions of a flow f of which one record, a, is read and b left. *)
Cut(f, a, b) ==
    /\ f = a \o b /\ IsSeq(a) /\ IsSeq(b) /\ Len(a) > 0 /\ Len(a) = 1 + a[1].size
Shifted(f, a, b) ==
    /\ Len(a) \in Nat /\ Len(b) \in Nat /\ Len(f) = Len(a) + Len(b) /\ f[1] = a[1]
    /\ \A p \in 1..Len(b) : Len(a) + p \in 1..Len(f) /\ f[Len(a) + p] = b[p]
    /\ \A p \in 1..Len(f) : p = 1 \/ f[p].kind = "more" \/ (p - Len(a) \in 1..Len(b) /\ b[p - Len(a)] = f[p])

(* What the rest has to do with the flow. *)
LEMMA CutShifts ==
    ASSUME NEW f, Framed(f), NEW a, NEW b, Cut(f, a, b)
    PROVE  Shifted(f, a, b) /\ Len(a) > 0 /\ Framed(b)
<1>1. /\ IsSeq(a) /\ IsSeq(b) /\ f = a \o b
  BY DEF Cut
<1>2. /\ Len(f) = Len(a) + Len(b)
      /\ \A j \in 1..Len(a) : f[j] = a[j]
      /\ \A j \in 1..Len(b) : f[Len(a) + j] = b[j]
  BY <1>1, JoinedSeqs
<1>3. Len(a) \in Nat /\ Len(b) \in Nat
  BY <1>1, SeqIsFunction
<1>4. Len(a) > 0 /\ Len(a) = 1 + a[1].size
  BY DEF Cut
<1>5. 1 \in 1..Len(a) /\ 1 \in 1..Len(f) /\ f[1] = a[1] /\ Len(f) > 0
  BY <1>2, <1>3, <1>4
<1>6. Whole(f, 1)
  BY <1>5 DEF Framed
<1>7. \A p \in 1..Len(b) : Len(a) + p \in 1..Len(f)
  BY <1>2, <1>3
<1>8. ASSUME NEW p \in 1..Len(f), p # 1, ~(p - Len(a) \in 1..Len(b))
      PROVE  f[p].kind = "more"
  <2>1. p - 1 \in 1..(Len(a) - 1) /\ 1 + (p - 1) = p
    BY <1>2, <1>3, <1>8
  <2>2. Len(a) - 1 = f[1].size
    <3>1. f[1].size \in Nat
      BY <1>6 DEF Whole
    <3>2. Len(a) = 1 + f[1].size
      BY <1>4, <1>5
    <3>3. QED
      BY <1>3, <3>1, <3>2
  <2>3. f[1 + (p - 1)].kind = "more"
    BY <1>6, <2>1, <2>2 DEF Whole
  <2>4. QED
    BY <2>1, <2>3
<1>9. ASSUME NEW p \in 1..Len(f), p - Len(a) \in 1..Len(b) PROVE b[p - Len(a)] = f[p]
  <2>1. Len(a) + (p - Len(a)) = p
    BY <1>3
  <2>2. QED
    BY <1>2, <1>9, <2>1
<1>10. Framed(b)
  BY <1>1, <1>4, FirstRecord
<1>11. QED
  BY <1>2, <1>3, <1>4, <1>5, <1>7, <1>8, <1>9, <1>10 DEF Shifted

(* The server reads the last byte of a record. *)
LEMMA RecordRead ==
    ASSUME NEW c, NEW v, NEW f, NEW g, NEW rc, NEW rs, NEW acc, NEW got,
           Linked(c, v, f, g, rc, rs, acc, got),
           \/ v.flights \in {0, 2}
           \/ v.flights = 3 /\ v.plain = <<>>,
           NEW a, NEW b, Cut(f, a, b), Len(c.out.bytes) <= Len(b),
           NEW y, y.out = v.out, y.call = v.call,
           y.flights = IF a[1].kind = "flight" THEN v.flights + 1 ELSE v.flights,
           y.plain = IF a[1].kind = "data" THEN [n \in 1..a[1].size |-> a[n + 1].byte] ELSE v.plain,
           y.ended = (v.ended \/ a[1].kind = "alert")
    PROVE  Linked(c, y, b, g, rc, rs, acc, got)
<1>1. /\ Framed(f) /\ Handshakes(c, v, f, g) /\ Calls(c, v, f, rc, rs, acc) /\ OutOk(c.out)
      /\ IsSeq(got) /\ IsSeq(v.plain) /\ v.ended \in BOOLEAN
  BY DEF Linked
<1>2. Shifted(f, a, b) /\ Len(a) > 0 /\ Framed(b)
  BY <1>1, CutShifts
<1>3. /\ a[1].size \in Nat \ {0} /\ a[1].kind \in {"flight", "data", "alert"}
      /\ DataIn(a) = IF a[1].kind = "data" THEN [j \in 1..a[1].size |-> a[j + 1].byte] ELSE <<>>
  BY <1>1, FirstRecord DEF Cut
<1>4. 1 \in 1..Len(f) /\ Len(f) > 0 /\ f[1] = a[1] /\ ~v.ended
  <2>1. 1 \in 1..Len(f) /\ Len(f) > 0 /\ f[1] = a[1]
    BY <1>2 DEF Shifted
  <2>2. QED
    BY <1>1, <2>1 DEF Calls
<1>5. \A p \in 1..Len(b) : b[p].kind # "flight"
  <2>1. ASSUME NEW p \in 1..Len(b), b[p].kind = "flight" PROVE FALSE
    <3>1. Len(a) + p \in 1..Len(f) /\ f[Len(a) + p] = b[p] /\ Len(a) + p # 1
      BY <1>2 DEF Shifted
    <3>2. QED
      BY <1>1, <2>1, <3>1 DEF Handshakes
  <2>2. QED
    BY <2>1
<1>6. c.flights # 3 => Len(b) = 0
  <2> SUFFICES ASSUME c.flights # 3, Len(b) # 0 PROVE FALSE
    OBVIOUS
  <2>1. 1 \in 1..Len(b) /\ Len(b) > 0
    BY <1>2 DEF Shifted
  <2>2. Whole(b, 1)
    BY <1>2, <2>1 DEF Framed
  <2>3. b[1].kind \in {"data", "alert"}
    BY <1>5, <2>1, <2>2 DEF Whole
  <2>4. Len(a) + 1 \in 1..Len(f) /\ f[Len(a) + 1] = b[1]
    BY <1>2, <2>1 DEF Shifted
  <2>5. QED
    BY <1>1, <2>3, <2>4 DEF Handshakes
<1>7. Len(b) = 0 => c.out = Nothing
  <2>1. Len(c.out.bytes) \in Nat
    BY <1>1, SeqIsFunction DEF OutOk
  <2>2. QED
    BY <1>1, <2>1 DEF OutOk
<1>8. Nothing.kind = "none"
  BY DEF Nothing
<1>9. \A p \in 1..Len(b) : b[p].kind \in {"data", "alert"} => c.flights = 3
  BY <1>1, <1>2 DEF Shifted, Handshakes
<1>10. \/ /\ a[1].kind = "flight"
          /\ \/ Phase(c, v, 1, 0) /\ Phase(c, y, 1, 1) /\ Len(b) = 0
             \/ Phase(c, v, 3, 2) /\ Phase(c, y, 3, 3)
       \/ /\ a[1].kind \in {"data", "alert"}
          /\ Phase(c, v, 3, 3) /\ Phase(c, y, 3, 3) /\ v.plain = <<>>
  <2>1. /\ Phase(c, v, 0, 0) \/ Phase(c, v, 2, 2) => (Len(f) > 0 <=> c.out.kind = "flight")
        /\ Phase(c, v, 1, 0) \/ Phase(c, v, 3, 2) => Len(f) > 0 /\ f[1].kind = "flight"
        /\ Phase(c, v, 1, 1) \/ Phase(c, v, 1, 2) => Len(f) = 0
        /\ Phase(c, v, 3, 3) /\ Len(f) > 0 => f[1].kind # "flight"
        /\ \/ Phase(c, v, 0, 0) \/ Phase(c, v, 1, 0) \/ Phase(c, v, 1, 1) \/ Phase(c, v, 1, 2)
           \/ Phase(c, v, 2, 2) \/ Phase(c, v, 3, 2) \/ Phase(c, v, 3, 3)
    BY <1>1 DEF Handshakes
  <2>2. ~(Phase(c, v, 0, 0) \/ Phase(c, v, 2, 2))
    BY <1>4, <1>6, <1>7, <1>8, <2>1 DEF Phase
  <2>3. ~(Phase(c, v, 1, 1) \/ Phase(c, v, 1, 2))
    BY <1>4, <2>1
  <2>4. CASE Phase(c, v, 1, 0)
    BY <1>4, <1>6, <2>1, <2>4 DEF Phase
  <2>5. CASE Phase(c, v, 3, 2)
    BY <1>4, <2>1, <2>5 DEF Phase
  <2>6. CASE Phase(c, v, 3, 3)
    <3>1. a[1].kind # "flight" /\ v.plain = <<>> /\ y.flights = 3
      BY <1>4, <2>1, <2>6 DEF Phase
    <3>2. QED
      BY <1>3, <2>6, <3>1 DEF Phase
  <2>7. QED
    BY <2>1, <2>2, <2>3, <2>4, <2>5, <2>6
<1>11. Handshakes(c, y, b, g)
  <2>1. Len(b) > 0 => b[1].kind # "flight"
    <3>1. Len(b) > 0 => 1 \in 1..Len(b)
      BY <1>2 DEF Shifted
    <3>2. QED
      BY <1>5, <3>1
  <2>2. \A p \in 1..Len(g) : g[p].kind \in {"flight", "more"} /\ (Starts(g, p) => p = 1)
    BY <1>1 DEF Handshakes
  <2>3. /\ c.out.kind = "flight" => c.flights \in {0, 2}
        /\ c.out.kind \in {"data", "alert"} => c.flights = 3
        /\ v.out.kind \in {"none", "flight"} /\ (v.out.kind = "flight" => v.flights = 1)
    BY <1>1 DEF Handshakes
  <2>4. Len(g) = 0 /\ y.out.kind # "flight"
    BY <1>1, <1>10, <2>3 DEF Handshakes, Phase
  <2>5. QED
    BY <1>5, <1>9, <1>10, <2>1, <2>2, <2>3, <2>4 DEF Handshakes, Phase
<1>12. AlertIn(b) => AlertIn(f)
  BY <1>2 DEF Shifted, AlertIn
<1>13. AlertIn(f) => a[1].kind = "alert" \/ AlertIn(b)
  BY <1>2, <1>4 DEF Shifted, AlertIn
<1>14. \A p \in 1..Len(b) : b[p].kind = "alert" => p + b[p].size = Len(b)
  <2>1. ASSUME NEW p \in 1..Len(b), b[p].kind = "alert" PROVE p + b[p].size = Len(b)
    <3>1. /\ Len(a) + p \in 1..Len(f) /\ f[Len(a) + p] = b[p] /\ Len(f) = Len(a) + Len(b)
          /\ Len(a) \in Nat /\ Len(b) \in Nat
      BY <1>2 DEF Shifted
    <3>2. (Len(a) + p) + b[p].size = Len(f)
      BY <1>1, <2>1, <3>1 DEF Calls
    <3>3. b[p].size \in Nat
      <4>1. Whole(b, p)
        BY <1>2, <2>1 DEF Framed, Starts
      <4>2. QED
        BY <4>1 DEF Whole
    <3>4. QED
      BY <3>1, <3>2, <3>3
  <2>2. QED
    BY <2>1
<1>15. a[1].kind = "alert" => Len(b) = 0 /\ AlertIn(f)
  <2> SUFFICES ASSUME a[1].kind = "alert" PROVE Len(b) = 0 /\ AlertIn(f)
    OBVIOUS
  <2>1. AlertIn(f) /\ 1 + f[1].size = Len(f)
    BY <1>1, <1>4 DEF Calls, AlertIn
  <2>2. Len(a) = 1 + f[1].size /\ Len(f) = Len(a) + Len(b) /\ Len(a) \in Nat /\ Len(b) \in Nat
    BY <1>2, <1>4 DEF Shifted, Cut
  <2>3. Len(a) = Len(f)
    BY <2>1, <2>2
  <2>4. QED
    BY <2>1, <2>2, <2>3
<1>16. Calls(c, y, b, rc, rs, acc)
  <2>1. c.out.kind = "alert" => AlertIn(b)
    BY <1>1, <1>7, <1>8, <1>13, <1>15 DEF Calls
  <2>2. y.ended \/ AlertIn(b) => AlertIn(f)
    BY <1>4, <1>12, <1>15
  <2>3. y.ended => Len(b) = 0 /\ y.plain = <<>>
    <3> SUFFICES ASSUME y.ended PROVE Len(b) = 0 /\ y.plain = <<>>
      OBVIOUS
    <3>1. a[1].kind = "alert"
      BY <1>4
    <3>2. QED
      BY <1>10, <1>15, <3>1
  <2>4. rs # "closed"
    BY <1>1, <1>4 DEF Calls
  <2>5. QED
    BY <1>1, <1>14, <2>1, <2>2, <2>3, <2>4 DEF Calls
<1>17. IsSeq(y.plain) /\ AllBytes(c, y, b, acc, got)
  <2> DEFINE e == DataIn(a)
             h == DataIn(b)
  <2>1. DataIn(f) = e \o h /\ IsSeq(e) /\ IsSeq(h)
    <3>1. IsSeq(a) /\ IsSeq(b) /\ f = a \o b
      BY DEF Cut
    <3>2. QED
      BY <3>1, DataJoined
  <2>2. (got \o v.plain) \o (e \o h) = [k \in 1..(acc + Begun(c.out)) |-> k]
    BY <2>1 DEF Linked, AllBytes
  <2>3. e = IF a[1].kind = "data" THEN y.plain ELSE <<>>
    BY <1>3
  <2> HIDE DEF e, h
  <2>4. CASE a[1].kind = "data"
    <3>1. v.plain = <<>> /\ y.plain = e
      BY <1>10, <2>3, <2>4
    <3>2. got \o <<>> = got
      BY <1>1, NothingAfter
    <3>3. got \o (e \o h) = (got \o e) \o h
      <4>1. IsSeq(got) /\ IsSeq(e) /\ IsSeq(h)
        BY <1>1, <2>1
      <4>2. (got \o e) \o h = got \o (e \o h)
        BY <4>1, JoinedAgain
      <4>3. QED
        BY <4>2
    <3>4. QED
      BY <2>1, <2>2, <3>1, <3>2, <3>3 DEF AllBytes, h
  <2>5. CASE a[1].kind # "data"
    <3>1. e = <<>> /\ y.plain = v.plain
      BY <2>3, <2>5
    <3>2. <<>> \o h = h
      BY <2>1, NothingBefore
    <3>3. QED
      BY <1>1, <2>2, <3>1, <3>2 DEF AllBytes, h
  <2>6. QED
    BY <2>4, <2>5
<1>18. y.ended \in BOOLEAN
  BY <1>4
<1>19. QED
  BY <1>2, <1>11, <1>16, <1>17, <1>18 DEF Linked

(* The client reads the last byte of the server's flight. *)
LEMMA AnswerRead ==
    ASSUME NEW c, NEW v, NEW f, NEW g, NEW rc, NEW rs, NEW acc, NEW got,
           Linked(c, v, f, g, rc, rs, acc, got), c.flights = 1,
           NEW a, NEW b, Cut(g, a, b), Len(v.out.bytes) <= Len(b),
           NEW x, x.out = c.out, x.call = c.call, x.context = c.context,
           x.flights = IF a[1].kind = "flight" THEN c.flights + 1 ELSE c.flights
    PROVE  Linked(x, v, f, b, rc, rs, acc, got)
<1>1. /\ Framed(g) /\ Handshakes(c, v, f, g) /\ Calls(c, v, f, rc, rs, acc) /\ OutOk(v.out)
  BY DEF Linked
<1>2. Shifted(g, a, b) /\ Len(a) > 0 /\ Framed(b)
  BY <1>1, CutShifts
<1>3. 1 \in 1..Len(g) /\ Len(g) > 0 /\ g[1] = a[1]
  BY <1>2 DEF Shifted
<1>4. a[1].kind = "flight"
  <2>1. a[1].kind # "more"
    BY <1>1, <1>3 DEF Framed, Starts
  <2>2. QED
    BY <1>1, <1>3, <2>1 DEF Handshakes
<1>5. Len(b) = 0
  <2> SUFFICES ASSUME Len(b) # 0 PROVE FALSE
    OBVIOUS
  <2>1. 1 \in 1..Len(b) /\ Len(b) > 0 /\ Len(a) + 1 # 1
    BY <1>2 DEF Shifted
  <2>2. Len(a) + 1 \in 1..Len(g) /\ g[Len(a) + 1] = b[1] /\ Starts(b, 1)
    BY <1>2, <2>1 DEF Shifted, Framed
  <2>3. QED
    BY <1>1, <2>1, <2>2 DEF Handshakes, Starts
<1>6. v.out = Nothing /\ Nothing.kind = "none"
  <2>1. Len(v.out.bytes) \in Nat
    BY <1>1, SeqIsFunction DEF OutOk
  <2>2. QED
    BY <1>1, <1>5, <2>1 DEF OutOk, Nothing
<1>7. Phase(c, v, 1, 2) /\ Phase(x, v, 2, 2)
  BY <1>1, <1>3, <1>4, <1>6 DEF Handshakes, Phase
<1>8. Handshakes(x, v, f, b)
  BY <1>1, <1>5, <1>6, <1>7 DEF Handshakes, Phase
<1>9. Calls(x, v, f, rc, rs, acc)
  BY <1>1, <1>7 DEF Calls, Phase
<1>10. AllBytes(x, v, f, acc, got)
  BY DEF Linked, AllBytes
<1>11. QED
  BY <1>2, <1>8, <1>9, <1>10 DEF Linked

(* recv() gives data, or 0 at the end. *)
LEMMA DataGiven ==
    ASSUME NEW c, NEW v, NEW f, NEW g, NEW rc, NEW rs, NEW acc, NEW got,
           Linked(c, v, f, g, rc, rs, acc, got), v.plain # <<>> \/ v.ended,
           NEW k, k = IF Len(v.plain) < RecvSize THEN Len(v.plain) ELSE RecvSize,
           NEW y, y.out = v.out, y.flights = v.flights, y.ended = v.ended, y.call = "none",
           y.plain = SubSeq(v.plain, k + 1, Len(v.plain))
    PROVE  Linked(c, y, f, g, rc, IF k > 0 THEN "ok" ELSE "closed", acc,
                  got \o SubSeq(v.plain, 1, k))
<1> DEFINE m == SubSeq(v.plain, 1, k)
           n == y.plain
           rs2 == IF k > 0 THEN "ok" ELSE "closed"
<1>1. /\ Handshakes(c, v, f, g) /\ Calls(c, v, f, rc, rs, acc) /\ IsSeq(got) /\ IsSeq(v.plain)
      /\ v.ended \in BOOLEAN
  BY DEF Linked
<1>2. Len(v.plain) \in Nat /\ RecvSize \in Nat \ {0}
  BY <1>1, SeqIsFunction, TlsAssumption
<1>3. k \in 0..Len(v.plain) /\ (k = 0 => Len(v.plain) = 0)
  BY <1>2
<1>4. v.plain = m \o n
  <2> DEFINE w == v.plain
  <2>1. IsSeq(w) /\ k \in 0..Len(w)
    BY <1>1, <1>3
  <2>2. m = SubSeq(w, 1, k) /\ n = SubSeq(w, k + 1, Len(w))
    OBVIOUS
  <2> HIDE DEF w, m, n
  <2>3. w = SubSeq(w, 1, k) \o SubSeq(w, k + 1, Len(w))
    BY <2>1, CutInTwo
  <2>4. QED
    BY <2>2, <2>3 DEF w
<1>5. IsSeq(m) /\ IsSeq(n)
  BY <1>2, <1>3, Sliced
<1>6. v.plain = <<>> => n = <<>>
  <2> SUFFICES ASSUME v.plain = <<>> PROVE n = <<>>
    OBVIOUS
  <2>1. Len(v.plain) = 0
    BY NoElements
  <2>2. k = 0
    BY <1>3, <2>1
  <2>3. n = SubSeq(v.plain, 1, 0)
    BY <2>1, <2>2
  <2>4. Len(SubSeq(v.plain, 1, 0)) = 0
    BY Sliced
  <2>5. QED
    BY <1>5, <2>3, <2>4, NoElements
<1>7. ~(k > 0) => v.ended
  <2> SUFFICES ASSUME ~(k > 0) PROVE v.ended
    OBVIOUS
  <2>1. Len(v.plain) = 0
    BY <1>3
  <2>2. QED
    BY <1>1, <2>1, NoElements
<1> HIDE DEF m, n
<1>8. y.plain = n
  BY DEF n
<1>9. Handshakes(c, y, f, g)
  BY <1>1 DEF Handshakes, Phase
<1>10. Calls(c, y, f, rc, rs2, acc)
  BY <1>1, <1>6, <1>7, <1>8 DEF Calls
<1>11. AllBytes(c, y, f, acc, got \o m)
  <2>1. IsSeq(got) /\ IsSeq(m) /\ IsSeq(n)
    BY <1>1, <1>5
  <2>2. (got \o m) \o n = got \o (m \o n)
    BY <2>1, JoinedAgain
  <2>3. QED
    BY <1>4, <1>8, <2>2 DEF Linked, AllBytes
<1>12. IsSeq(got \o m)
  BY <1>1, <1>5, JoinedSeqs
<1>13. Linked(c, y, f, g, rc, rs2, acc, got \o m)
  BY <1>5, <1>8, <1>9, <1>10, <1>11, <1>12 DEF Linked
<1>14. QED
  BY <1>13 DEF m

-----------------------------------------------------------------------------
(* The flow when a part s of the record s \o t has gone to the channel, and*)
(* when a part s of what was in the channel has been read.                 *)
LEMMA FlowMoves ==
    ASSUME NEW i, NEW w, NEW s, NEW t, NEW o
    PROVE  IsSeq(i) /\ IsSeq(w) /\ IsSeq(s) /\ IsSeq(t) /\ IsSeq(o) =>
           /\ (i \o (w \o s)) \o t = (i \o w) \o (s \o t)
           /\ ((i \o s) \o t) \o o = (i \o (s \o t)) \o o
           /\ ((i \o s) \o t) \o o = (i \o s) \o ((<<>> \o t) \o o)
           /\ IsSeq(i \o w) /\ IsSeq(w \o s) /\ IsSeq(i \o s) /\ IsSeq((i \o w) \o o)
<1>1. ASSUME NEW a, IsSeq(a), NEW b, IsSeq(b) PROVE IsSeq(a \o b)
  BY <1>1, JoinedSeqs
<1>2. ASSUME NEW a, IsSeq(a), NEW b, IsSeq(b), NEW c, IsSeq(c) PROVE (a \o b) \o c = a \o (b \o c)
  BY <1>2, JoinedAgain, SMTT(60)
<1>3. SUFFICES ASSUME IsSeq(i), IsSeq(w), IsSeq(s), IsSeq(t), IsSeq(o)
      PROVE  /\ (i \o (w \o s)) \o t = (i \o w) \o (s \o t)
             /\ ((i \o s) \o t) \o o = (i \o (s \o t)) \o o
             /\ ((i \o s) \o t) \o o = (i \o s) \o ((<<>> \o t) \o o)
             /\ IsSeq(i \o w) /\ IsSeq(w \o s) /\ IsSeq(i \o s) /\ IsSeq((i \o w) \o o)
  OBVIOUS
<1>4. IsSeq(i \o w) /\ IsSeq(w \o s) /\ IsSeq(i \o s) /\ IsSeq((i \o w) \o o)
  BY <1>1, <1>3
<1>5. (i \o (w \o s)) \o t = (i \o w) \o (s \o t)
  <2> DEFINE a == i \o w
  <2>1. IsSeq(i) /\ IsSeq(w) /\ IsSeq(s)
    BY <1>3
  <2>2. (i \o w) \o s = i \o (w \o s)
    BY <1>2, <2>1, SMTT(60)
  <2>3. IsSeq(a) /\ IsSeq(s) /\ IsSeq(t)
    BY <1>3, <1>4
  <2> HIDE DEF a
  <2>4. (a \o s) \o t = a \o (s \o t)
    BY <1>2, <2>3, SMTT(60)
  <2>5. QED
    BY <2>2, <2>4 DEF a
<1>6. (i \o s) \o t = i \o (s \o t)
  <2>1. IsSeq(i) /\ IsSeq(s) /\ IsSeq(t)
    BY <1>3
  <2>2. QED
    BY <1>2, <2>1, SMTT(60)
<1>7. ((i \o s) \o t) \o o = (i \o s) \o (t \o o)
  <2> DEFINE a == i \o s
  <2>1. IsSeq(a) /\ IsSeq(t) /\ IsSeq(o)
    BY <1>3, <1>4
  <2> HIDE DEF a
  <2>2. (a \o t) \o o = a \o (t \o o)
    BY <1>2, <2>1, SMTT(60)
  <2>3. QED
    BY <2>2 DEF a
<1>8. <<>> \o t = t
  BY <1>3, NothingBefore
<1>9. QED
  BY <1>4, <1>5, <1>6, <1>7, <1>8

(* What the client writes next. *)
LEMMA ClientWrites ==
    ASSUME TlsInv, tls["client"].call # "none", NEW r, r = ToWrite("client"), r # Nothing
    PROVE  LET c == tls["client"] IN
           \/ /\ r = c.out
              /\ \/ r.kind = "flight"
                 \/ r.kind = "data" /\ c.call = "send"
                 \/ r.kind = "alert" /\ c.call = "close"
           \/ c.out = Nothing /\ \E kind, d : ClientMayWrite(c, accepted, kind, d) /\ r = Record(kind, d)
<1> DEFINE c == tls["client"]
           v == tls["server"]
           f == Flow("client")
<1>1. /\ Handshakes(c, v, f, Flow("server")) /\ OutOk(c.out) /\ accepted \in 0..TlsData
      /\ Calls(c, v, f, reply["client"], reply["server"], accepted) /\ c.call # "none"
  BY DEF TlsInv, Linked
<1> HIDE DEF f
<1>2. /\ c.out.kind = "flight" => c.flights \in {0, 2}
      /\ c.out.kind \in {"data", "alert"} => c.flights = 3
      /\ c.out = Nothing \/ c.out.kind \in {"flight", "data", "alert"}
      /\ c.flights \in {0, 1, 2, 3} /\ Nothing.kind = "none"
  BY <1>1 DEF Handshakes, Phase, OutOk, Nothing
<1>3. CASE c.out.kind = "flight"
  <2>1. ~Complete(c)
    BY <1>2, <1>3 DEF Complete
  <2>2. r = c.out
    BY <1>3, <2>1 DEF ToWrite
  <2>3. QED
    BY <1>3, <2>2
<1>4. CASE c.out.kind # "flight" /\ c.flights # 3
  <2>1. ~Complete(c) /\ c.out = Nothing
    BY <1>2, <1>4 DEF Complete
  <2>2. r = IF MyTurn("client", c) THEN Record("flight", <<0>>) ELSE Nothing
    BY <1>4, <2>1 DEF ToWrite
  <2>3. MyTurn("client", c) /\ r = Record("flight", <<0>>)
    BY <2>2
  <2>4. c.flights \in {0, 2}
    BY <2>3 DEF MyTurn
  <2>5. ClientMayWrite(c, accepted, "flight", <<0>>)
    BY <2>4 DEF ClientMayWrite
  <2>6. QED
    BY <2>1, <2>3, <2>5
<1>5. CASE c.out.kind # "flight" /\ c.flights = 3 /\ c.call = "send"
  <2> DEFINE n == DataSize
             d == [k \in 1..n |-> accepted + k]
  <2>1. Complete(c)
    BY <1>5 DEF Complete
  <2>2. r = IF c.out = Nothing THEN Record("data", d) ELSE c.out
    BY <1>5, <2>1 DEF ToWrite
  <2>3. accepted < TlsData
    BY <1>1, <1>5 DEF Calls
  <2>4. n \in Nat \ {0} /\ accepted + n <= TlsData
    BY <1>1, <2>3, TlsAssumption DEF DataSize, Offered
  <2>5. CASE c.out = Nothing
    <3> HIDE DEF n
    <3>1. d = [k \in 1..n |-> d[k]]
      OBVIOUS
    <3>2. Len(d) = n
      <4> HIDE DEF d
      <4>1. QED
        BY <2>4, <3>1, FunctionIsSeq
    <3>3. d = [k \in 1..Len(d) |-> accepted + k]
      BY <3>2
    <3>4. ClientMayWrite(c, accepted, "data", d)
      BY <1>5, <2>4, <3>2, <3>3 DEF ClientMayWrite
    <3> HIDE DEF d
    <3>5. QED
      BY <2>2, <2>5, <3>4
  <2>6. CASE c.out # Nothing
    <3>1. c.out.kind \in {"data", "alert"} /\ r = c.out
      BY <1>2, <1>5, <2>2, <2>6
    <3>2. c.out.kind # "alert"
      BY <1>1, <1>5 DEF Calls
    <3>3. QED
      BY <1>5, <3>1, <3>2
  <2>7. QED
    BY <2>5, <2>6
<1>6. CASE c.out.kind # "flight" /\ c.flights = 3 /\ c.call = "close"
  <2>1. Complete(c)
    BY <1>6 DEF Complete
  <2>2. r = IF c.out = Nothing THEN Record("alert", <<0>>) ELSE c.out
    BY <1>6, <2>1 DEF ToWrite
  <2>3. CASE c.out = Nothing
    <3>1. ClientMayWrite(c, accepted, "alert", <<0>>)
      BY <1>6 DEF ClientMayWrite
    <3>2. QED
      BY <2>2, <2>3, <3>1
  <2>4. CASE c.out # Nothing
    <3>1. c.out.kind \in {"data", "alert"} /\ r = c.out
      BY <1>2, <1>6, <2>2, <2>4
    <3>2. c.out.kind # "data"
      <4>1. accepted = TlsData /\ (c.out.kind = "data" => accepted + c.out.size <= TlsData /\ c.out.size > 0)
        BY <1>1, <1>6 DEF Calls
      <4>2. c.out.size \in Nat /\ TlsData \in Nat
        BY <1>1, TlsAssumption DEF OutOk
      <4>3. QED
        BY <4>1, <4>2
    <3>3. QED
      BY <1>6, <3>1, <3>2
  <2>5. QED
    BY <2>3, <2>4
<1>7. CASE c.out.kind # "flight" /\ c.flights = 3 /\ c.call = "handshake"
  <2>1. Complete(c)
    BY <1>7 DEF Complete
  <2>2. r = Nothing
    BY <1>7, <2>1 DEF ToWrite
  <2>3. QED
    BY <2>2
<1>8. c.call \in {"handshake", "send", "close"}
  BY <1>1 DEF Calls
<1>9. QED
  BY <1>3, <1>4, <1>5, <1>6, <1>7, <1>8

(* What the server writes next. *)
LEMMA ServerWrites ==
    ASSUME TlsInv, NEW r, r = ToWrite("server"), r # Nothing
    PROVE  LET v == tls["server"] IN
           \/ r = v.out /\ r.kind = "flight"
           \/ v.out = Nothing /\ v.flights = 1 /\ r = Record("flight", <<0>>)
<1> DEFINE c == tls["client"]
           v == tls["server"]
           f == Flow("client")
<1>1. /\ Handshakes(c, v, f, Flow("server")) /\ OutOk(v.out)
      /\ Calls(c, v, f, reply["client"], reply["server"], accepted)
  BY DEF TlsInv, Linked
<1> HIDE DEF f
<1>2. /\ v.out.kind \in {"none", "flight"} /\ (v.out.kind = "flight" => v.flights = 1)
      /\ v.out = Nothing \/ v.out.kind = "flight"
      /\ v.flights \in {0, 1, 2, 3} /\ v.call \in {"none", "handshake", "recv"}
  BY <1>1 DEF Handshakes, Phase, OutOk, Calls
<1>3. CASE v.out.kind = "flight"
  <2>1. ~Complete(v)
    BY <1>2, <1>3 DEF Complete
  <2>2. r = v.out
    BY <1>3, <2>1 DEF ToWrite
  <2>3. QED
    BY <1>3, <2>2
<1>4. CASE v.out.kind # "flight" /\ v.flights # 3
  <2>1. ~Complete(v) /\ v.out = Nothing
    BY <1>2, <1>4 DEF Complete
  <2>2. r = IF MyTurn("server", v) THEN Record("flight", <<0>>) ELSE Nothing
    BY <1>4, <2>1 DEF ToWrite
  <2>3. QED
    BY <2>1, <2>2 DEF MyTurn
<1>5. CASE v.out.kind # "flight" /\ v.flights = 3
  <2>1. Complete(v) /\ v.call # "send" /\ v.call # "close"
    BY <1>2, <1>5 DEF Complete
  <2>2. r = Nothing
    BY <1>5, <2>1 DEF ToWrite
  <2>3. QED
    BY <2>2
<1>6. QED
  BY <1>3, <1>4, <1>5

(* The client with the record it writes. *)
LEMMA ClientHasRecord ==
    ASSUME TlsInv, tls["client"].call # "none", NEW r, r = ToWrite("client"), r # Nothing,
           NEW x, x.out = r, x.flights = tls["client"].flights, x.call = tls["client"].call,
           x.context = tls["client"].context
    PROVE  /\ Linked(x, tls["server"], (tls["server"].in \o wire["server"]) \o r.bytes, Flow("server"),
                     reply["client"], reply["server"], accepted, received)
           /\ OutOk(r)
           /\ \/ r.kind = "flight"
              \/ r.kind = "data" /\ x.call = "send"
              \/ r.kind = "alert" /\ x.call = "close"
<1> DEFINE c == tls["client"]
           v == tls["server"]
           f == Flow("client")
           g == Flow("server")
           h == tls["server"].in \o wire["server"]
<1>1. /\ Linked(c, v, f, g, reply["client"], reply["server"], accepted, received)
      /\ OutOk(c.out) /\ f = h \o c.out.bytes /\ IsSeq(h)
  <2>1. Opposite("client") = "server"
    BY DEF Opposite
  <2>2. IsSeq(tls["server"].in) /\ IsSeq(wire["server"])
    BY DEF TlsInv, TlsShape, EndOk, Sides
  <2>3. IsSeq(h)
    BY <2>2, JoinedSeqs
  <2>4. QED
    BY <2>1, <2>3 DEF TlsInv, Flow, Linked
<1> HIDE DEF f, g, h
<1>2. CASE /\ r = c.out
           /\ \/ r.kind = "flight"
              \/ r.kind = "data" /\ c.call = "send"
              \/ r.kind = "alert" /\ c.call = "close"
  <2>1. Linked(x, v, f, g, reply["client"], reply["server"], accepted, received)
    <3>1. OutOk(v.out)
      BY <1>1 DEF Linked
    <3>2. QED
      BY <1>1, <1>2, <3>1, PartWritten
  <2>2. QED
    BY <1>1, <1>2, <2>1 DEF h, g
<1>3. CASE c.out = Nothing /\ \E kind, d : ClientMayWrite(c, accepted, kind, d) /\ r = Record(kind, d)
  <2>1. PICK kind, d : ClientMayWrite(c, accepted, kind, d) /\ r = Record(kind, d)
    BY <1>3
  <2>2. Linked(x, v, f \o Record(kind, d).bytes, g, reply["client"], reply["server"], accepted, received)
    BY <1>1, <1>3, <2>1, ClientBegins
  <2>3. f = h
    <3>1. c.out.bytes = <<>>
      BY <1>3 DEF Nothing
    <3>2. QED
      BY <1>1, <3>1, NothingAfter
  <2>4. OutOk(r) /\ r.kind = kind
    <3>1. accepted \in Nat
      BY <1>1, TlsAssumption DEF Linked
    <3>2. /\ kind \in {"flight", "data", "alert"} /\ IsSeq(d) /\ Len(d) > 0
          /\ \A k \in 1..Len(d) : d[k] \in Nat /\ (d[k] > 0 <=> kind = "data")
      BY <2>1, <3>1, ClientRecord
    <3>3. MayRecord(kind, d)
      BY <3>2 DEF MayRecord
    <3>4. RightRecord(r, kind, d)
      BY <2>1, <3>3, RecordRight
    <3>5. QED
      BY <3>4 DEF RightRecord
  <2>5. \/ r.kind = "flight"
        \/ r.kind = "data" /\ c.call = "send"
        \/ r.kind = "alert" /\ c.call = "close"
    BY <2>1, <2>4 DEF ClientMayWrite
  <2>6. QED
    BY <2>1, <2>2, <2>3, <2>4, <2>5 DEF h, g
<1>4. QED
  BY <1>2, <1>3, ClientWrites

(* The server with its flight. *)
LEMMA ServerHasRecord ==
    ASSUME TlsInv, NEW r, r = ToWrite("server"), r # Nothing,
           NEW y, y.out = r, y.flights = tls["server"].flights, y.call = tls["server"].call,
           y.plain = tls["server"].plain, y.ended = tls["server"].ended
    PROVE  /\ Linked(tls["client"], y, Flow("client"), (tls["client"].in \o wire["client"]) \o r.bytes,
                     reply["client"], reply["server"], accepted, received)
           /\ OutOk(r) /\ r.kind = "flight"
<1> DEFINE c == tls["client"]
           v == tls["server"]
           f == Flow("client")
           g == Flow("server")
           h == tls["client"].in \o wire["client"]
<1>1. /\ Linked(c, v, f, g, reply["client"], reply["server"], accepted, received)
      /\ OutOk(v.out) /\ g = h \o v.out.bytes /\ IsSeq(h)
  <2>1. Opposite("server") = "client"
    BY DEF Opposite
  <2>2. IsSeq(tls["client"].in) /\ IsSeq(wire["client"])
    BY DEF TlsInv, TlsShape, EndOk, Sides
  <2>3. IsSeq(h)
    BY <2>2, JoinedSeqs
  <2>4. QED
    BY <2>1, <2>3 DEF TlsInv, Flow, Linked
<1> HIDE DEF f, g, h
<1>2. CASE r = v.out /\ r.kind = "flight"
  <2>1. Linked(c, y, f, g, reply["client"], reply["server"], accepted, received)
    <3>1. OutOk(c.out)
      BY <1>1 DEF Linked
    <3>2. QED
      BY <1>1, <1>2, <3>1, PartWritten
  <2>2. QED
    BY <1>1, <1>2, <2>1 DEF h, f
<1>3. CASE v.out = Nothing /\ v.flights = 1 /\ r = Record("flight", <<0>>)
  <2>1. Linked(c, y, f, g \o r.bytes, reply["client"], reply["server"], accepted, received)
    BY <1>1, <1>3, ServerBegins
  <2>2. g = h
    <3>1. v.out.bytes = <<>>
      BY <1>3 DEF Nothing
    <3>2. QED
      BY <1>1, <3>1, NothingAfter
  <2>3. OutOk(r)
    BY <2>1 DEF Linked
  <2>4. r.kind = "flight"
    BY <1>3 DEF Record
  <2>5. QED
    BY <2>1, <2>2, <2>3, <2>4 DEF h, f
<1>4. QED
  BY <1>2, <1>3, ServerWrites

(* When the client wants to read, and the server. *)
LEMMA ClientReads ==
    ASSUME TlsInv, NeedsRead("client")
    PROVE  tls["client"].flights = 1
<1> DEFINE c == tls["client"]
           f == Flow("client")
<1>1. /\ Handshakes(c, tls["server"], f, Flow("server")) /\ OutOk(c.out)
      /\ Calls(c, tls["server"], f, reply["client"], reply["server"], accepted)
  BY DEF TlsInv, Linked
<1> HIDE DEF f
<1>2. c.flights \in {0, 1, 2, 3} /\ c.call # "recv" /\ ToWrite("client") = Nothing /\ ~Complete(c)
  BY <1>1 DEF Handshakes, Phase, Calls, NeedsRead
<1>3. Nothing.kind = "none" /\ Record("flight", <<0>>).kind = "flight"
  BY DEF Nothing, Record
<1>4. CASE c.out.kind = "flight"
  <2>1. ToWrite("client") = c.out
    BY <1>2, <1>4 DEF ToWrite
  <2>2. QED
    BY <1>2, <1>3, <1>4, <2>1
<1>5. CASE c.out.kind # "flight"
  <2>1. ToWrite("client") = IF MyTurn("client", c) THEN Record("flight", <<0>>) ELSE Nothing
    BY <1>2, <1>5 DEF ToWrite
  <2>2. ~MyTurn("client", c)
    BY <1>2, <1>3, <2>1
  <2>3. QED
    BY <1>2, <2>2 DEF MyTurn, Complete
<1>6. QED
  BY <1>4, <1>5

(* The server waits for a flight of the client, or recv() for a record. *)
LEMMA ServerReads ==
    ASSUME TlsInv, NeedsRead("server")
    PROVE  LET v == tls["server"] IN
           v.flights \in {0, 2} \/ (v.flights = 3 /\ v.plain = <<>>)
<1> DEFINE v == tls["server"]
           f == Flow("client")
<1>1. /\ Handshakes(tls["client"], v, f, Flow("server")) /\ OutOk(v.out)
  BY DEF TlsInv, Linked
<1> HIDE DEF f
<1>2. v.flights \in {0, 1, 2, 3} /\ ToWrite("server") = Nothing
  BY <1>1 DEF Handshakes, Phase, NeedsRead
<1>3. Nothing.kind = "none" /\ Record("flight", <<0>>).kind = "flight"
  BY DEF Nothing, Record
<1>4. CASE v.flights = 3
  <2>1. Complete(v)
    BY <1>4 DEF Complete
  <2>2. v.plain = <<>>
    BY <2>1 DEF NeedsRead
  <2>3. QED
    BY <1>4, <2>2
<1>5. CASE v.flights = 1
  <2>0. ~Complete(v) /\ MyTurn("server", v)
    BY <1>5 DEF Complete, MyTurn
  <2>1. CASE v.out.kind = "flight"
    <3>1. ToWrite("server") = v.out
      BY <2>0, <2>1 DEF ToWrite
    <3>2. QED
      BY <1>2, <1>3, <2>1, <3>1
  <2>2. CASE v.out.kind # "flight"
    <3>1. ToWrite("server") = IF MyTurn("server", v) THEN Record("flight", <<0>>) ELSE Nothing
      BY <2>0, <2>2 DEF ToWrite
    <3>2. QED
      BY <1>2, <1>3, <2>0, <3>1
  <2>3. QED
    BY <2>1, <2>2
<1>6. QED
  BY <1>2, <1>4, <1>5

(* A client without a context gets nothing but false. *)
LEMMA ClientRefused ==
    ASSUME NEW c, NEW v, NEW f, NEW g, NEW rc, NEW rs, NEW acc, NEW got,
           Linked(c, v, f, g, rc, rs, acc, got), ~c.context
    PROVE  Linked(c, v, f, g, "false", rs, acc, got)
<1>1. Calls(c, v, f, rc, rs, acc)
  BY DEF Linked
<1>2. Calls(c, v, f, "false", rs, acc)
  BY <1>1 DEF Calls
<1>3. QED
  BY <1>2 DEF Linked

-----------------------------------------------------------------------------
(* The invariant, from the flows. *)
LEMMA Assembled ==
    ASSUME TlsShape',
           NEW f, f = (tls'["server"].in \o wire'["server"]) \o tls'["client"].out.bytes,
           NEW g, g = (tls'["client"].in \o wire'["client"]) \o tls'["server"].out.bytes,
           Linked(tls'["client"], tls'["server"], f, g, reply'["client"], reply'["server"],
                  accepted', received')
    PROVE  TlsInv'
<1>1. Opposite("client") = "server" /\ Opposite("server") = "client"
  BY DEF Opposite
<1>2. Flow("client")' = f /\ Flow("server")' = g
  BY <1>1 DEF Flow
<1>3. QED
  BY <1>2 DEF TlsInv

(* And the other way. *)
LEMMA Apart ==
    TlsInv => /\ TlsShape
              /\ Flow("client") = (tls["server"].in \o wire["server"]) \o tls["client"].out.bytes
              /\ Flow("server") = (tls["client"].in \o wire["client"]) \o tls["server"].out.bytes
              /\ Linked(tls["client"], tls["server"], Flow("client"), Flow("server"),
                        reply["client"], reply["server"], accepted, received)
<1>1. Opposite("client") = "server" /\ Opposite("server") = "client"
  BY DEF Opposite
<1>2. QED
  BY <1>1 DEF Flow, TlsInv

(* A step of one end that leaves the bytes alone. *)
Quiet(ep) ==
    /\ wire' = wire
    /\ tls' = [e \in Sides |-> tls'[e]] /\ tls'[Opposite(ep)] = tls[Opposite(ep)]
    /\ tls'[ep] = [f \in TlsFields |-> tls'[ep][f]]
    /\ tls'[ep].in = tls[ep].in /\ tls'[ep].out = tls[ep].out /\ tls'[ep].flights = tls[ep].flights
    /\ reply' = [e \in Sides |-> reply'[e]] /\ reply'[Opposite(ep)] = reply[Opposite(ep)]

(* Such a step keeps the invariant when it keeps the rest of it. *)
LEMMA QuietStep ==
    ASSUME TlsInv, NEW ep \in Sides, Quiet(ep),
           Linked(tls'["client"], tls'["server"], Flow("client"), Flow("server"),
                  reply'["client"], reply'["server"], accepted', received')
    PROVE  TlsInv'
<1>1. /\ TlsShape
      /\ Flow("client") = (tls["server"].in \o wire["server"]) \o tls["client"].out.bytes
      /\ Flow("server") = (tls["client"].in \o wire["client"]) \o tls["server"].out.bytes
  BY Apart
<1>2. /\ tls'["client"].in = tls["client"].in /\ tls'["client"].out = tls["client"].out
      /\ tls'["server"].in = tls["server"].in /\ tls'["server"].out = tls["server"].out
      /\ wire' = wire
  BY DEF Quiet, Sides, Opposite
<1>3. TlsShape'
  <2>1. ASSUME NEW e \in Sides PROVE EndOk(tls'[e]) /\ IsSeq(wire'[e])
    <3>1. EndOk(tls[e]) /\ IsSeq(wire[e])
      BY <1>1 DEF TlsShape
    <3>2. CASE e = ep
      BY <1>2, <3>1, <3>2 DEF Quiet, EndOk
    <3>3. CASE e # ep
      <4>1. e = Opposite(ep)
        BY <3>3 DEF Opposite, Sides
      <4>2. QED
        BY <1>2, <3>1, <4>1 DEF Quiet
    <3>4. QED
      BY <3>2, <3>3
  <2>2. QED
    BY <1>1, <1>2, <2>1 DEF TlsShape, Quiet
<1>4. QED
  BY <1>1, <1>2, <1>3, Assembled

(* Calls that begin, without anything written or read. *)
LEMMA CallBegins ==
    ASSUME TlsInv, NEW ep \in Sides, NEW call, Begins(ep, call)
    PROVE  /\ Quiet(ep) /\ tls'[ep].call = call /\ tls'[ep].context = tls[ep].context
           /\ tls'[ep].plain = tls[ep].plain /\ tls'[ep].ended = tls[ep].ended
           /\ reply' = reply /\ accepted' = accepted /\ received' = received
           /\ tls[ep].call = "none" /\ reply[ep] # "closed"
<1>1. /\ tls' = [tls EXCEPT ![ep].call = call]
      /\ UNCHANGED <<wire, nonblocking, reply, accepted, received>>
      /\ tls[ep].call = "none" /\ reply[ep] # "closed"
  BY DEF Begins
<1>2. /\ tls = [e \in Sides |-> tls[e]] /\ tls[ep] = [f \in TlsFields |-> tls[ep][f]]
      /\ reply = [e \in Sides |-> reply[e]]
  BY DEF TlsInv, TlsShape, EndOk
<1>3. Opposite(ep) \in Sides /\ Opposite(ep) # ep
  BY DEF Opposite, Sides
<1>4. /\ tls' = [e \in Sides |-> tls'[e]] /\ tls'[Opposite(ep)] = tls[Opposite(ep)]
      /\ tls'[ep] = [f \in TlsFields |-> tls'[ep][f]]
      /\ \A f \in TlsFields : tls'[ep][f] = IF f = "call" THEN call ELSE tls[ep][f]
  BY <1>1, <1>2, <1>3
<1>5. QED
  BY <1>1, <1>2, <1>4 DEF Quiet, TlsFields

(* connect() and listen() make the context. *)
LEMMA ConnectKeeps ==
    ASSUME TlsInv, NEW ep \in Sides, TlsConnect(ep)
    PROVE  TlsInv'
<1>1. /\ tls' = [tls EXCEPT ![ep].context = TRUE] /\ ~tls[ep].context
      /\ UNCHANGED <<wire, nonblocking, reply, accepted, received>>
  BY DEF TlsConnect
<1>2. /\ tls = [e \in Sides |-> tls[e]] /\ tls[ep] = [f \in TlsFields |-> tls[ep][f]]
      /\ reply = [e \in Sides |-> reply[e]]
  BY DEF TlsInv, TlsShape, EndOk
<1>3. Opposite(ep) \in Sides /\ Opposite(ep) # ep
  BY DEF Opposite, Sides
<1>4. /\ tls' = [e \in Sides |-> tls'[e]] /\ tls'[Opposite(ep)] = tls[Opposite(ep)]
      /\ tls'[ep] = [f \in TlsFields |-> tls'[ep][f]]
      /\ \A f \in TlsFields : tls'[ep][f] = IF f = "context" THEN TRUE ELSE tls[ep][f]
  BY <1>1, <1>2, <1>3
<1>5. /\ Quiet(ep) /\ tls'[ep].context = TRUE /\ tls'[ep].call = tls[ep].call
      /\ tls'[ep].plain = tls[ep].plain /\ tls'[ep].ended = tls[ep].ended
      /\ tls'[ep].out = tls[ep].out /\ tls'[ep].flights = tls[ep].flights
  BY <1>1, <1>2, <1>4 DEF Quiet, TlsFields
<1>6. /\ Linked(tls["client"], tls["server"], Flow("client"), Flow("server"),
                reply["client"], reply["server"], accepted, received)
      /\ OutOk(tls["client"].out) /\ OutOk(tls["server"].out)
  BY DEF TlsInv, Linked
<1>7. Linked(tls'["client"], tls'["server"], Flow("client"), Flow("server"),
             reply["client"], reply["server"], accepted, received)
  <2>1. CASE ep = "client"
    <3>1. tls'["server"] = tls["server"]
      BY <1>4, <2>1 DEF Opposite
    <3>2. QED
      BY <1>5, <1>6, <2>1, <3>1, PartWritten
  <2>2. CASE ep = "server"
    <3>1. tls'["client"] = tls["client"]
      BY <1>4, <2>2 DEF Opposite
    <3>2. QED
      BY <1>5, <1>6, <2>2, <3>1, PartWritten
  <2>3. QED
    BY <2>1, <2>2 DEF Sides
<1>8. QED
  BY <1>1, <1>5, <1>7, QuietStep

(* Every call that begins. *)
LEMMA CallKeeps ==
    ASSUME TlsInv, NEW ep \in Sides, NEW call, Begins(ep, call), tls[ep].context \/ call = "close",
           call \in IF ep = "client" THEN {"handshake", "send", "close"} ELSE {"handshake", "recv"},
           call = "send" => accepted < TlsData,
           call = "close" => tls[ep].flights = 3 /\ accepted = TlsData
    PROVE  TlsInv'
<1>1. /\ Quiet(ep) /\ tls'[ep].call = call /\ tls'[ep].context = tls[ep].context
      /\ tls'[ep].plain = tls[ep].plain /\ tls'[ep].ended = tls[ep].ended
      /\ reply' = reply /\ accepted' = accepted /\ received' = received
      /\ tls[ep].call = "none" /\ reply[ep] # "closed"
  BY CallBegins
<1>2. /\ tls'[ep].out = tls[ep].out /\ tls'[ep].flights = tls[ep].flights
      /\ tls'[Opposite(ep)] = tls[Opposite(ep)]
  BY <1>1 DEF Quiet
<1>3. Linked(tls["client"], tls["server"], Flow("client"), Flow("server"),
             reply["client"], reply["server"], accepted, received)
  BY DEF TlsInv
<1>4. CASE ep = "client"
  <2>1. tls'["server"] = tls["server"]
    BY <1>2, <1>4 DEF Opposite
  <2>2. Linked(tls'["client"], tls["server"], Flow("client"), Flow("server"),
               reply["client"], reply["server"], accepted, received)
    BY <1>1, <1>2, <1>3, <1>4, ClientCalls
  <2>3. QED
    BY <1>1, <2>1, <2>2, QuietStep
<1>5. CASE ep = "server"
  <2>1. tls'["client"] = tls["client"]
    BY <1>2, <1>5 DEF Opposite
  <2>2. Linked(tls["client"], tls'["server"], Flow("client"), Flow("server"),
               reply["client"], reply["server"], accepted, received)
    BY <1>1, <1>2, <1>3, <1>5, ServerCalls
  <2>3. QED
    BY <1>1, <2>1, <2>2, QuietStep
<1>6. QED
  BY <1>4, <1>5 DEF Sides

(* handshake() begins, or is refused without a context. *)
LEMMA HandshakeKeeps ==
    ASSUME TlsInv, NEW ep \in Sides, TlsHandshake(ep)
    PROVE  TlsInv'
<1>1. CASE tls[ep].context /\ ~Complete(tls[ep]) /\ Begins(ep, "handshake")
  BY <1>1, CallKeeps
<1>2. CASE /\ ~tls[ep].context /\ tls[ep].call = "none"
           /\ reply' = [reply EXCEPT ![ep] = "false"]
           /\ UNCHANGED <<tls, wire, nonblocking, accepted, received>>
  <2>1. /\ TlsShape /\ Linked(tls["client"], tls["server"], Flow("client"), Flow("server"),
                              reply["client"], reply["server"], accepted, received)
    BY DEF TlsInv
  <2>2. /\ reply' = [e \in Sides |-> reply'[e]] /\ reply'[ep] = "false"
        /\ reply'[Opposite(ep)] = reply[Opposite(ep)]
    BY <1>2, <2>1 DEF TlsShape, Opposite, Sides
  <2>3. Quiet(ep)
    BY <1>2, <2>1, <2>2 DEF Quiet, TlsShape, EndOk
  <2>4. Linked(tls["client"], tls["server"], Flow("client"), Flow("server"),
               reply'["client"], reply'["server"], accepted, received)
    <3>1. CASE ep = "client"
      <4>1. reply'["server"] = reply["server"] /\ reply'["client"] = "false"
        BY <2>2, <3>1 DEF Opposite
      <4>2. QED
        BY <1>2, <2>1, <3>1, <4>1, ClientRefused
    <3>2. CASE ep = "server"
      <4>1. reply'["client"] = reply["client"] /\ reply'["server"] = "false"
        BY <2>2, <3>2 DEF Opposite
      <4>2. tls["server"].call \in {"none", "handshake", "recv"}
        BY <1>2, <3>2
      <4>3. QED
        BY <2>1, <4>1, <4>2, ServerCalls
    <3>3. QED
      BY <3>1, <3>2 DEF Sides
  <2>5. QED
    BY <1>2, <2>3, <2>4, QuietStep
<1>3. QED
  BY <1>1, <1>2 DEF TlsHandshake

(* A call that ends without data: what it leaves is as it was. *)
CallEnds(ep, reason) ==
    /\ tls[ep].call # "none"
    /\ tls' = [tls EXCEPT ![ep].call = "none"]
    /\ reply' = [reply EXCEPT ![ep] = reason]
    /\ UNCHANGED <<wire, accepted, received>>

(* It keeps the invariant when only close() ends with "closed". *)
LEMMA EndKeeps ==
    ASSUME TlsInv, NEW ep \in Sides, NEW reason, CallEnds(ep, reason),
           ep = "client" /\ tls[ep].call = "close" => reason = "closed",
           ep = "server" => reason # "closed"
    PROVE  TlsInv'
<1>1. /\ tls' = [tls EXCEPT ![ep].call = "none"] /\ reply' = [reply EXCEPT ![ep] = reason]
      /\ UNCHANGED <<wire, accepted, received>> /\ tls[ep].call # "none"
  BY DEF CallEnds
<1>2. /\ tls = [e \in Sides |-> tls[e]] /\ tls[ep] = [f \in TlsFields |-> tls[ep][f]]
      /\ reply = [e \in Sides |-> reply[e]]
      /\ Linked(tls["client"], tls["server"], Flow("client"), Flow("server"),
                reply["client"], reply["server"], accepted, received)
  BY DEF TlsInv, TlsShape, EndOk
<1>3. Opposite(ep) \in Sides /\ Opposite(ep) # ep
  BY DEF Opposite, Sides
<1>4. /\ tls' = [e \in Sides |-> tls'[e]] /\ tls'[Opposite(ep)] = tls[Opposite(ep)]
      /\ tls'[ep] = [f \in TlsFields |-> tls'[ep][f]]
      /\ \A f \in TlsFields : tls'[ep][f] = IF f = "call" THEN "none" ELSE tls[ep][f]
      /\ reply' = [e \in Sides |-> reply'[e]] /\ reply'[Opposite(ep)] = reply[Opposite(ep)]
      /\ reply'[ep] = reason
  BY <1>1, <1>2, <1>3
<1>5. /\ Quiet(ep) /\ tls'[ep].context = tls[ep].context /\ tls'[ep].call = "none"
      /\ tls'[ep].plain = tls[ep].plain /\ tls'[ep].ended = tls[ep].ended
      /\ tls'[ep].out = tls[ep].out /\ tls'[ep].flights = tls[ep].flights
  BY <1>1, <1>2, <1>4 DEF Quiet, TlsFields
<1>6. Linked(tls'["client"], tls'["server"], Flow("client"), Flow("server"),
             reply'["client"], reply'["server"], accepted, received)
  <2>1. CASE ep = "client"
    <3>1. tls'["server"] = tls["server"] /\ reply'["server"] = reply["server"] /\ reply'["client"] = reason
      BY <1>4, <2>1 DEF Opposite
    <3>2. QED
      BY <1>1, <1>2, <1>5, <2>1, <3>1, ClientReturns
  <2>2. CASE ep = "server"
    <3>1. tls'["client"] = tls["client"] /\ reply'["client"] = reply["client"] /\ reply'["server"] = reason
      BY <1>4, <2>2 DEF Opposite
    <3>2. QED
      BY <1>2, <1>5, <2>2, <3>1, ServerCalls
  <2>3. QED
    BY <2>1, <2>2 DEF Sides
<1>7. QED
  BY <1>1, <1>5, <1>6, QuietStep

(* What a call returns when libtls wants to poll. *)
LEMMA PollResult ==
    ASSUME TlsInv, NEW ep \in Sides, NEW want
    PROVE  /\ ep = "client" /\ tls[ep].call = "close" => Returned(ep, want) = "closed"
           /\ ep = "server" => Returned(ep, want) # "closed"
<1>1. tls["server"].call \in {"none", "handshake", "recv"}
  BY DEF TlsInv, Linked, Calls
<1>2. QED
  BY <1>1 DEF Returned

(* The channel has nothing to read. *)
LEMMA ReadBlocksKeeps ==
    ASSUME TlsInv, NEW ep \in Sides, TlsReadBlocks(ep)
    PROVE  TlsInv'
<1> DEFINE reason == Returned(ep, ReadCb(-2))
<1>1. CallEnds(ep, reason)
  BY DEF TlsReadBlocks, CallEnds
<1>2. /\ ep = "client" /\ tls[ep].call = "close" => reason = "closed"
      /\ ep = "server" => reason # "closed"
  BY PollResult
<1> HIDE DEF reason
<1>3. QED
  BY <1>1, <1>2, EndKeeps

(* handshake() is true, recv() gives what is there. *)
LEMMA ReturnsKeeps ==
    ASSUME TlsInv, NEW ep \in Sides, TlsReturns(ep)
    PROVE  TlsInv'
<1> DEFINE s == tls[ep]
           k == IF Len(s.plain) < RecvSize THEN Len(s.plain) ELSE RecvSize
<1>1. CASE /\ s.call = "handshake" /\ tls' = [tls EXCEPT ![ep].call = "none"]
           /\ reply' = [reply EXCEPT ![ep] = "true"] /\ UNCHANGED received
  <2>1. CallEnds(ep, "true")
    BY <1>1 DEF TlsReturns, CallEnds
  <2>2. QED
    BY <1>1, <2>1, EndKeeps
<1>2. CASE /\ s.call = "recv" /\ (s.plain # <<>> \/ s.ended)
           /\ tls' = [tls EXCEPT ![ep].call = "none", ![ep].plain = SubSeq(@, k + 1, Len(@))]
           /\ reply' = [reply EXCEPT ![ep] = IF k > 0 THEN "ok" ELSE "closed"]
           /\ received' = received \o SubSeq(s.plain, 1, k)
  <2>1. UNCHANGED <<wire, accepted>>
    BY DEF TlsReturns
  <2>2. ep = "server"
    BY <1>2 DEF TlsInv, Linked, Calls, Sides
  <2>3. /\ tls = [e \in Sides |-> tls[e]] /\ s = [f \in TlsFields |-> s[f]]
        /\ reply = [e \in Sides |-> reply[e]]
        /\ Linked(tls["client"], s, Flow("client"), Flow("server"),
                  reply["client"], reply["server"], accepted, received)
    BY <2>2 DEF TlsInv, TlsShape, EndOk
  <2>4. Opposite(ep) = "client" /\ "client" \in Sides /\ "client" # ep
    BY <2>2 DEF Opposite, Sides
  <2> DEFINE rest == SubSeq(s.plain, k + 1, Len(s.plain))
             answer == IF k > 0 THEN "ok" ELSE "closed"
  <2>5. tls' = [tls EXCEPT ![ep].call = "none", ![ep].plain = rest] /\ reply' = [reply EXCEPT ![ep] = answer]
    BY <1>2, <2>3 DEF TlsFields
  <2> HIDE DEF rest, answer
  <2>6. /\ tls' = [e \in Sides |-> tls'[e]] /\ tls'["client"] = tls["client"]
        /\ tls'[ep] = [f \in TlsFields |-> tls'[ep][f]]
        /\ \A f \in TlsFields : tls'[ep][f] = IF f = "call" THEN "none" ELSE IF f = "plain" THEN rest ELSE s[f]
        /\ reply' = [e \in Sides |-> reply'[e]] /\ reply'["client"] = reply["client"]
        /\ reply'[ep] = answer
    BY <2>3, <2>4, <2>5
  <2>7. /\ Quiet(ep) /\ tls'[ep].call = "none" /\ tls'[ep].plain = rest /\ tls'[ep].ended = s.ended
        /\ tls'[ep].out = s.out /\ tls'[ep].flights = s.flights
    BY <2>1, <2>3, <2>4, <2>6 DEF Quiet, TlsFields
  <2>8. Linked(tls["client"], tls'[ep], Flow("client"), Flow("server"),
               reply["client"], IF k > 0 THEN "ok" ELSE "closed", accepted, received \o SubSeq(s.plain, 1, k))
    <3>1. s.plain # <<>> \/ s.ended
      BY <1>2
    <3>2. k = IF Len(s.plain) < RecvSize THEN Len(s.plain) ELSE RecvSize
      OBVIOUS
    <3>3. tls'[ep].plain = SubSeq(s.plain, k + 1, Len(s.plain))
      BY <2>7 DEF rest
    <3> DEFINE y == tls'[ep]
               v == s
    <3>4. /\ y.out = v.out /\ y.flights = v.flights /\ y.ended = v.ended /\ y.call = "none"
          /\ Linked(tls["client"], v, Flow("client"), Flow("server"),
                    reply["client"], reply["server"], accepted, received)
      BY <2>3, <2>7
    <3> HIDE DEF k, y, v
    <3>5. Linked(tls["client"], y, Flow("client"), Flow("server"),
                 reply["client"], IF k > 0 THEN "ok" ELSE "closed", accepted, received \o SubSeq(v.plain, 1, k))
      BY <3>1, <3>2, <3>3, <3>4, DataGiven DEF v, y
    <3>6. QED
      BY <3>5 DEF v, y
  <2>9. Linked(tls'["client"], tls'["server"], Flow("client"), Flow("server"),
               reply'["client"], reply'["server"], accepted', received')
    BY <1>2, <2>1, <2>2, <2>6, <2>8 DEF answer
  <2>10. QED
    BY <2>7, <2>9, QuietStep
<1>3. QED
  BY <1>1, <1>2 DEF TlsReturns

(* The shape of the state after a step of one end. *)
Reshaped(ep) ==
    /\ tls' = [e \in Sides |-> tls'[e]] /\ tls'[Opposite(ep)] = tls[Opposite(ep)]
    /\ tls'[ep] = [f \in TlsFields |-> tls'[ep][f]] /\ IsSeq(tls'[ep].in)
    /\ wire' = [e \in Sides |-> wire'[e]] /\ IsSeq(wire'["client"]) /\ IsSeq(wire'["server"])
    /\ reply' = [e \in Sides |-> reply'[e]] /\ reply'[Opposite(ep)] = reply[Opposite(ep)]

(* It is as before. *)
LEMMA ShapeKept ==
    ASSUME TlsShape, NEW ep \in Sides, Reshaped(ep)
    PROVE  TlsShape'
<1>1. ASSUME NEW e \in Sides PROVE EndOk(tls'[e]) /\ IsSeq(wire'[e])
  <2>1. EndOk(tls[e])
    BY DEF TlsShape
  <2>2. IsSeq(wire'[e])
    BY DEF Reshaped, Sides
  <2>3. CASE e = ep
    BY <2>2, <2>3 DEF Reshaped, EndOk
  <2>4. CASE e # ep
    <3>1. e = Opposite(ep)
      BY <2>4 DEF Opposite, Sides
    <3>2. QED
      BY <2>1, <2>2, <3>1 DEF Reshaped
  <2>5. QED
    BY <2>3, <2>4
<1>2. QED
  BY <1>1 DEF TlsShape, Reshaped

(* An end whose record to write is r, the rest as it is. *)
Holding(ep, r) == [f \in TlsFields |-> IF f = "out" THEN r ELSE tls[ep][f]]

(* That record is what its flow ends with. *)
LEMMA HeldByClient ==
    ASSUME TlsInv, tls["client"].call # "none", NEW r, r = ToWrite("client"), r # Nothing
    PROVE  /\ Linked(Holding("client", r), tls["server"],
                     (tls["server"].in \o wire["server"]) \o r.bytes, Flow("server"),
                     reply["client"], reply["server"], accepted, received)
           /\ OutOk(r)
           /\ \/ r.kind = "flight"
              \/ r.kind = "data" /\ tls["client"].call = "send"
              \/ r.kind = "alert" /\ tls["client"].call = "close"
<1> DEFINE x == Holding("client", r)
<1>1. /\ x.out = r /\ x.flights = tls["client"].flights /\ x.call = tls["client"].call
      /\ x.context = tls["client"].context
  BY DEF Holding, TlsFields
<1> HIDE DEF x
<1>2. QED
  BY <1>1, ClientHasRecord DEF x

(* The flight of the server. *)
LEMMA HeldByServer ==
    ASSUME TlsInv, NEW r, r = ToWrite("server"), r # Nothing
    PROVE  /\ Linked(tls["client"], Holding("server", r), Flow("client"),
                     (tls["client"].in \o wire["client"]) \o r.bytes,
                     reply["client"], reply["server"], accepted, received)
           /\ OutOk(r) /\ r.kind = "flight"
<1> DEFINE y == Holding("server", r)
<1>1. /\ y.out = r /\ y.flights = tls["server"].flights /\ y.call = tls["server"].call
      /\ y.plain = tls["server"].plain /\ y.ended = tls["server"].ended
  BY DEF Holding, TlsFields
<1> HIDE DEF y
<1>2. QED
  BY <1>1, ServerHasRecord DEF y

(* The channel is full: libtls keeps the record, the call returns. *)
LEMMA WriteBlocksKeeps ==
    ASSUME TlsInv, NEW ep \in Sides, TlsWriteBlocks(ep)
    PROVE  TlsInv'
<1> DEFINE r == ToWrite(ep)
           reason == Returned(ep, WriteCb(-3))
<1>1. /\ tls[ep].call # "none" /\ r # Nothing
      /\ tls' = [tls EXCEPT ![ep].out = r, ![ep].call = "none"]
      /\ reply' = [reply EXCEPT ![ep] = reason]
      /\ UNCHANGED <<wire, accepted, received>>
  BY DEF TlsWriteBlocks
<1>2. /\ ep = "client" /\ tls[ep].call = "close" => reason = "closed"
      /\ ep = "server" => reason # "closed"
  BY PollResult
<1>3. r = ToWrite(ep)
  OBVIOUS
<1> HIDE DEF r, reason
<1>4. TlsShape /\ EndOk(tls[ep])
  BY DEF TlsInv, TlsShape
<1>5. /\ tls = [e \in Sides |-> tls[e]] /\ tls[ep] = [f \in TlsFields |-> tls[ep][f]]
      /\ reply = [e \in Sides |-> reply[e]] /\ wire = [e \in Sides |-> wire[e]]
      /\ IsSeq(wire["client"]) /\ IsSeq(wire["server"]) /\ IsSeq(tls[ep].in)
  BY <1>4 DEF TlsShape, EndOk, Sides
<1>6. Opposite(ep) \in Sides /\ Opposite(ep) # ep
  BY DEF Opposite, Sides
<1>7. /\ tls' = [e \in Sides |-> tls'[e]] /\ tls'[Opposite(ep)] = tls[Opposite(ep)]
      /\ tls'[ep] = [f \in TlsFields |-> tls'[ep][f]]
      /\ \A f \in TlsFields : tls'[ep][f] = IF f = "call" THEN "none" ELSE IF f = "out" THEN r ELSE tls[ep][f]
      /\ reply' = [e \in Sides |-> reply'[e]] /\ reply'[Opposite(ep)] = reply[Opposite(ep)]
      /\ reply'[ep] = reason
  BY <1>1, <1>5, <1>6
<1>8. /\ tls'[ep].in = tls[ep].in /\ tls'[ep].out = r /\ tls'[ep].call = "none"
      /\ tls'[ep].flights = tls[ep].flights /\ tls'[ep].context = tls[ep].context
      /\ tls'[ep].plain = tls[ep].plain /\ tls'[ep].ended = tls[ep].ended
  BY <1>7 DEF TlsFields
<1> DEFINE h == Holding(ep, r)
<1>9. /\ h.out = r /\ h.flights = tls[ep].flights /\ h.call = tls[ep].call
      /\ h.context = tls[ep].context /\ h.plain = tls[ep].plain /\ h.ended = tls[ep].ended
  BY DEF Holding, TlsFields
<1> HIDE DEF h
<1>10. TlsShape'
  <2>1. Reshaped(ep)
    BY <1>1, <1>5, <1>7, <1>8 DEF Reshaped
  <2>2. QED
    BY <1>4, <2>1, ShapeKept
<1>11. CASE ep = "client"
  <2>1. tls'["server"] = tls["server"] /\ reply'["server"] = reply["server"] /\ reply'["client"] = reason
    BY <1>7, <1>11 DEF Opposite
  <2> DEFINE f == (tls["server"].in \o wire["server"]) \o r.bytes
             g == Flow("server")
  <2>2. Linked(h, tls["server"], f, g, reply["client"], reply["server"], accepted, received)
    BY <1>1, <1>3, <1>11, HeldByClient DEF h
  <2>3. g = (tls'["client"].in \o wire'["client"]) \o tls'["server"].out.bytes
    BY <1>1, <1>8, <1>11, <2>1, Apart
  <2>4. f = (tls'["server"].in \o wire'["server"]) \o tls'["client"].out.bytes
    BY <1>1, <1>8, <1>11, <2>1
  <2> HIDE DEF f, g
  <2>5. Linked(tls'["client"], tls["server"], f, g, reason, reply["server"], accepted, received)
    <3> DEFINE x == tls'["client"]
    <3>1. /\ x.out = h.out /\ x.flights = h.flights /\ x.context = h.context /\ x.call = "none"
          /\ h.call # "none" /\ (h.call = "close" => reason = "closed")
      BY <1>1, <1>2, <1>8, <1>9, <1>11
    <3> HIDE DEF x
    <3>2. Linked(x, tls["server"], f, g, reason, reply["server"], accepted, received)
      BY <2>2, <3>1, ClientReturns
    <3>3. QED
      BY <3>2 DEF x
  <2>6. QED
    BY <1>1, <1>10, <2>1, <2>3, <2>4, <2>5, Assembled
<1>12. CASE ep = "server"
  <2>1. tls'["client"] = tls["client"] /\ reply'["client"] = reply["client"] /\ reply'["server"] = reason
    BY <1>7, <1>12 DEF Opposite
  <2> DEFINE g == (tls["client"].in \o wire["client"]) \o r.bytes
             f == Flow("client")
  <2>2. Linked(tls["client"], h, f, g, reply["client"], reply["server"], accepted, received)
    BY <1>1, <1>3, <1>12, HeldByServer DEF h
  <2>3. f = (tls'["server"].in \o wire'["server"]) \o tls'["client"].out.bytes
    BY <1>1, <1>8, <1>12, <2>1, Apart
  <2>4. g = (tls'["client"].in \o wire'["client"]) \o tls'["server"].out.bytes
    BY <1>1, <1>8, <1>12, <2>1
  <2> HIDE DEF f, g
  <2>5. Linked(tls["client"], tls'["server"], f, g, reply["client"], reason, accepted, received)
    BY <1>2, <1>8, <1>9, <1>12, <2>2, ServerCalls
  <2>6. QED
    BY <1>1, <1>10, <2>1, <2>3, <2>4, <2>5, Assembled
<1>13. QED
  BY <1>11, <1>12 DEF Sides

(* The channel took k bytes of the record r. *)
Wrote(ep, r, k) ==
    LET last == k = Len(r.bytes)
        returns == last /\ r.kind # "flight"
    IN /\ Reshaped(ep)
       /\ wire'[ep] = wire[ep]
       /\ wire'[Opposite(ep)] = wire[Opposite(ep)] \o SubSeq(r.bytes, 1, k)
       /\ tls'[ep].context = tls[ep].context /\ tls'[ep].in = tls[ep].in
       /\ tls'[ep].plain = tls[ep].plain /\ tls'[ep].ended = tls[ep].ended
       /\ tls'[ep].flights = IF last /\ r.kind = "flight" THEN tls[ep].flights + 1 ELSE tls[ep].flights
       /\ tls'[ep].call = IF returns THEN "none" ELSE tls[ep].call
       /\ tls'[ep].out = IF last THEN Nothing
                         ELSE [r EXCEPT !.bytes = SubSeq(r.bytes, k + 1, Len(r.bytes))]
       /\ accepted' = IF returns /\ r.kind = "data" THEN accepted + r.size ELSE accepted
       /\ reply'[ep] = IF ~returns THEN reply[ep] ELSE IF r.kind = "data" THEN "ok" ELSE "closed"
       /\ received' = received

(* That is what a write does. *)
LEMMA WriteMoves ==
    ASSUME TlsInv, NEW ep \in Sides, TlsWrite(ep), NEW r, r = ToWrite(ep), OutOk(r)
    PROVE  \E k \in 1..Len(r.bytes) : Wrote(ep, r, k)
<1>1. PICK k \in 1..Len(r.bytes) :
        LET last == k = Len(r.bytes)
            returns == last /\ r.kind # "flight"
        IN /\ wire' = [wire EXCEPT ![Opposite(ep)] = @ \o SubSeq(r.bytes, 1, k)]
           /\ tls' = [tls EXCEPT
                ![ep].out = IF last THEN Nothing
                            ELSE [r EXCEPT !.bytes = SubSeq(@, k + 1, Len(@))],
                ![ep].flights = IF last /\ r.kind = "flight" THEN @ + 1 ELSE @,
                ![ep].call = IF returns THEN "none" ELSE @]
           /\ accepted' = IF returns /\ r.kind = "data"
                          THEN accepted + SendResult(r.size) ELSE accepted
           /\ reply' = IF ~returns THEN reply
                       ELSE [reply EXCEPT ![ep] = IF r.kind = "data" THEN "ok" ELSE "closed"]
  BY DEF TlsWrite
<1>2. received' = received
  BY DEF TlsWrite
<1> DEFINE last == k = Len(r.bytes)
           returns == last /\ r.kind # "flight"
           part == SubSeq(r.bytes, 1, k)
           out == IF last THEN Nothing ELSE [r EXCEPT !.bytes = SubSeq(r.bytes, k + 1, Len(r.bytes))]
           flights == IF last /\ r.kind = "flight" THEN tls[ep].flights + 1 ELSE tls[ep].flights
           call == IF returns THEN "none" ELSE tls[ep].call
           answer == IF ~returns THEN reply[ep] ELSE IF r.kind = "data" THEN "ok" ELSE "closed"
<1>3. /\ tls = [e \in Sides |-> tls[e]] /\ tls[ep] = [f \in TlsFields |-> tls[ep][f]]
      /\ reply = [e \in Sides |-> reply[e]] /\ wire = [e \in Sides |-> wire[e]]
      /\ IsSeq(wire["client"]) /\ IsSeq(wire["server"]) /\ IsSeq(tls[ep].in)
  BY DEF TlsInv, TlsShape, EndOk, Sides
<1>4. Opposite(ep) \in Sides /\ Opposite(ep) # ep /\ {"out", "flights", "call"} \subseteq TlsFields
  BY DEF Opposite, Sides, TlsFields
<1>5. r = [f \in {"kind", "size", "bytes"} |-> r[f]] /\ Len(r.bytes) \in Nat
  BY SeqIsFunction DEF OutOk
<1>6. /\ wire' = [wire EXCEPT ![Opposite(ep)] = wire[Opposite(ep)] \o part]
      /\ tls' = [tls EXCEPT ![ep].out = out, ![ep].flights = flights, ![ep].call = call]
  <2>1. [r EXCEPT !.bytes = SubSeq(@, k + 1, Len(@))] = [r EXCEPT !.bytes = SubSeq(r.bytes, k + 1, Len(r.bytes))]
    BY <1>5
  <2>2. QED
    BY <1>1, <1>3, <1>4, <2>1
<1>7. accepted' = IF returns /\ r.kind = "data" THEN accepted + r.size ELSE accepted
  BY <1>1 DEF SendResult
<1>8. reply' = [reply EXCEPT ![ep] = answer]
  <2>1. CASE returns
    BY <1>1, <2>1
  <2>2. CASE ~returns
    BY <1>1, <1>3, <2>2
  <2>3. QED
    BY <2>1, <2>2
<1> HIDE DEF part, out, flights, call, answer
<1>9. /\ tls' = [e \in Sides |-> tls'[e]] /\ tls'[Opposite(ep)] = tls[Opposite(ep)]
      /\ tls'[ep] = [f \in TlsFields |-> tls'[ep][f]]
      /\ \A f \in TlsFields : tls'[ep][f] = IF f = "call" THEN call ELSE IF f = "out" THEN out
                                            ELSE IF f = "flights" THEN flights ELSE tls[ep][f]
      /\ reply' = [e \in Sides |-> reply'[e]] /\ reply'[Opposite(ep)] = reply[Opposite(ep)]
      /\ reply'[ep] = answer
      /\ wire' = [e \in Sides |-> wire'[e]] /\ wire'[ep] = wire[ep]
      /\ wire'[Opposite(ep)] = wire[Opposite(ep)] \o part
  BY <1>3, <1>4, <1>6, <1>8
<1>10. /\ tls'[ep].in = tls[ep].in /\ tls'[ep].out = out /\ tls'[ep].call = call
       /\ tls'[ep].flights = flights /\ tls'[ep].context = tls[ep].context
       /\ tls'[ep].plain = tls[ep].plain /\ tls'[ep].ended = tls[ep].ended
  BY <1>9 DEF TlsFields
<1>11. IsSeq(wire'["client"]) /\ IsSeq(wire'["server"])
  <2>1. IsSeq(part)
    <3>1. 1 \in Int /\ k \in Int
      BY <1>5
    <3>2. QED
      BY <3>1, Sliced DEF part
  <2>2. IsSeq(wire[Opposite(ep)] \o part) /\ IsSeq(wire[ep])
    BY <1>3, <2>1, JoinedSeqs DEF Opposite, Sides
  <2>3. QED
    BY <1>9, <2>2 DEF Opposite, Sides
<1>12. Reshaped(ep)
  BY <1>3, <1>9, <1>10, <1>11 DEF Reshaped
<1>13. Wrote(ep, r, k)
  BY <1>2, <1>7, <1>9, <1>10, <1>12 DEF Wrote, part, out, flights, call, answer
<1>14. QED
  BY <1>13

(* The flow of the end that wrote, and of the other. *)
LEMMA WrittenFlow ==
    ASSUME TlsShape, NEW ep \in Sides, NEW r, OutOk(r), NEW k \in 1..Len(r.bytes), Wrote(ep, r, k)
    PROVE  /\ (tls'[Opposite(ep)].in \o wire'[Opposite(ep)]) \o tls'[ep].out.bytes
                = (tls[Opposite(ep)].in \o wire[Opposite(ep)]) \o r.bytes
           /\ (tls'[ep].in \o wire'[ep]) \o tls'[Opposite(ep)].out.bytes
                = (tls[ep].in \o wire[ep]) \o tls[Opposite(ep)].out.bytes
           /\ k # Len(r.bytes) =>
                OutOk(tls'[ep].out) /\ tls'[ep].out.kind = r.kind /\ tls'[ep].out.size = r.size
<1> DEFINE i == tls[Opposite(ep)].in
           w == wire[Opposite(ep)]
           s == SubSeq(r.bytes, 1, k)
           t == SubSeq(r.bytes, k + 1, Len(r.bytes))
<1>1. /\ tls'[Opposite(ep)] = tls[Opposite(ep)] /\ wire'[ep] = wire[ep] /\ tls'[ep].in = tls[ep].in
      /\ wire'[Opposite(ep)] = w \o s
      /\ tls'[ep].out = IF k = Len(r.bytes) THEN Nothing ELSE [r EXCEPT !.bytes = t]
  BY DEF Wrote, Reshaped
<1>2. IsSeq(i) /\ IsSeq(w)
  BY DEF TlsShape, EndOk, Opposite, Sides
<1>3. IsSeq(r.bytes) /\ Len(r.bytes) \in Nat /\ r = [f \in {"kind", "size", "bytes"} |-> r[f]]
  BY SeqIsFunction DEF OutOk
<1>4. IsSeq(s) /\ IsSeq(t) /\ Len(t) = Len(r.bytes) - k
  <2>1. k \in Int /\ k + 1 \in Int /\ Len(r.bytes) \in Int /\ 1 \in Int
    BY <1>3
  <2>2. IsSeq(s) /\ IsSeq(t) /\ Len(t) = IF k + 1 <= Len(r.bytes) THEN (Len(r.bytes) - (k + 1)) + 1 ELSE 0
    BY <2>1, Sliced
  <2>3. QED
    BY <1>3, <2>2
<1>5. r.bytes = s \o t
  <2>1. k \in 0..Len(r.bytes)
    BY <1>3
  <2>2. QED
    BY <1>3, <2>1, CutInTwo
<1>6. tls'[ep].out.bytes = t
  <2>1. CASE k = Len(r.bytes)
    <3>1. Len(t) = 0
      BY <1>3, <1>4, <2>1
    <3>2. t = <<>>
      BY <1>4, <3>1, NoElements
    <3>3. Nothing.bytes = <<>>
      BY DEF Nothing
    <3> HIDE DEF t
    <3>4. QED
      BY <1>1, <2>1, <3>2, <3>3
  <2>2. CASE k # Len(r.bytes)
    BY <1>1, <1>3, <2>2
  <2>3. QED
    BY <2>1, <2>2
<1>7. ASSUME k # Len(r.bytes)
      PROVE  OutOk(tls'[ep].out) /\ tls'[ep].out.kind = r.kind /\ tls'[ep].out.size = r.size
  <2> DEFINE o == tls'[ep].out
  <2>1. /\ o = [f \in {"kind", "size", "bytes"} |-> o[f]] /\ o.bytes = t
        /\ o.kind = r.kind /\ o.size = r.size
    BY <1>1, <1>3, <1>7
  <2>2. Len(t) > 0
    BY <1>3, <1>4, <1>7
  <2>3. r.kind \in {"flight", "data", "alert"} /\ r.size \in Nat
    <3>1. r # Nothing
      <4>1. Len(r.bytes) # 0
        BY <1>3
      <4>2. QED
        BY <4>1, NoElements DEF Nothing
    <3>2. QED
      BY <3>1 DEF OutOk
  <2> HIDE DEF o, t
  <2>4. OutOk(o)
    BY <1>4, <2>1, <2>2, <2>3 DEF OutOk
  <2>5. QED
    BY <2>1, <2>4 DEF o
<1> HIDE DEF i, w, s, t
<1>8. (i \o (w \o s)) \o t = (i \o w) \o (s \o t)
  <2>1. IsSeq(i) /\ IsSeq(w) /\ IsSeq(s) /\ IsSeq(t) /\ IsSeq(t)
    BY <1>2, <1>4
  <2>2. QED
    BY <2>1, FlowMoves
<1>9. QED
  BY <1>1, <1>5, <1>6, <1>7, <1>8 DEF i, w

(* A write of the client: of a part of the record, or of the last byte of  *)
(* a flight, of the data of send() or of the alert.                        *)
LEMMA ClientWriteLinks ==
    ASSUME NEW c, NEW f, NEW g, NEW v, NEW rc, NEW rs, NEW acc, NEW got,
           Linked(c, v, f, g, rc, rs, acc, got), c.call # "none", NEW r, r = c.out,
           \/ r.kind = "flight"
           \/ r.kind = "data" /\ c.call = "send"
           \/ r.kind = "alert" /\ c.call = "close",
           NEW last, last \in BOOLEAN, NEW x, x.context = c.context,
           x.flights = IF last /\ r.kind = "flight" THEN c.flights + 1 ELSE c.flights,
           x.call = IF last /\ r.kind # "flight" THEN "none" ELSE c.call,
           last => x.out = Nothing,
           ~last => OutOk(x.out) /\ x.out.kind = r.kind /\ x.out.size = r.size,
           NEW acc2, acc2 = IF last /\ r.kind = "data" THEN acc + r.size ELSE acc,
           NEW rc2, rc2 = IF ~last \/ r.kind = "flight" THEN rc ELSE IF r.kind = "data" THEN "ok" ELSE "closed"
    PROVE  Linked(x, v, f, g, rc2, rs, acc2, got)
<1>1. CASE ~last
  <2>1. OutOk(v.out)
    BY DEF Linked
  <2>2. /\ OutOk(x.out) /\ x.out.kind = c.out.kind /\ x.out.size = c.out.size
        /\ x.flights = c.flights /\ x.call = c.call /\ rc2 = rc /\ acc2 = acc
    BY <1>1
  <2>3. QED
    BY <2>1, <2>2, PartWritten
<1>2. CASE last /\ r.kind = "flight"
  <2>1. x.out = Nothing /\ x.flights = c.flights + 1 /\ x.call = c.call /\ rc2 = rc /\ acc2 = acc
    BY <1>2
  <2>2. QED
    BY <1>2, <2>1, FlightWritten
<1>3. CASE last /\ r.kind = "data"
  <2>1. /\ x.out = Nothing /\ x.flights = c.flights /\ x.call = "none" /\ rc2 = "ok"
        /\ acc2 = acc + c.out.size /\ c.call = "send"
    BY <1>3
  <2>2. QED
    BY <1>3, <2>1, DataWritten
<1>4. CASE last /\ r.kind = "alert"
  <2>1. /\ x.out = Nothing /\ x.flights = c.flights /\ x.call = "none" /\ rc2 = "closed"
        /\ acc2 = acc /\ c.call = "close"
    BY <1>4
  <2>2. QED
    BY <1>4, <2>1, AlertWritten
<1>5. QED
  BY <1>1, <1>2, <1>3, <1>4

(* A write of the server. *)
LEMMA ServerWriteLinks ==
    ASSUME NEW c, NEW f, NEW g, NEW v, NEW rc, NEW rs, NEW acc, NEW got,
           Linked(c, v, f, g, rc, rs, acc, got), v.out.kind = "flight",
           NEW last, last \in BOOLEAN, NEW y, y.plain = v.plain, y.ended = v.ended, y.call = v.call,
           y.flights = IF last THEN v.flights + 1 ELSE v.flights,
           last => y.out = Nothing,
           ~last => OutOk(y.out) /\ y.out.kind = v.out.kind
    PROVE  Linked(c, y, f, g, rc, rs, acc, got)
<1>1. CASE ~last
  <2>1. OutOk(c.out)
    BY DEF Linked
  <2>2. OutOk(y.out) /\ y.out.kind = v.out.kind /\ y.flights = v.flights
    BY <1>1
  <2>3. QED
    BY <2>1, <2>2, PartWritten
<1>2. CASE last
  BY <1>2, AnswerWritten
<1>3. QED
  BY <1>1, <1>2

(* The channel takes a part of the record of the client. *)
LEMMA ClientWriteKeeps ==
    ASSUME TlsInv, TlsWrite("client")
    PROVE  TlsInv'
<1> DEFINE r == ToWrite("client")
           c == Holding("client", r)
           v == tls["server"]
           f == (tls["server"].in \o wire["server"]) \o r.bytes
           g == Flow("server")
           x == tls'["client"]
<1>1. r = ToWrite("client") /\ r # Nothing /\ tls["client"].call # "none"
  BY DEF TlsWrite
<1> HIDE DEF r
<1>2. /\ Linked(c, v, f, g, reply["client"], reply["server"], accepted, received)
      /\ OutOk(r)
      /\ \/ r.kind = "flight"
         \/ r.kind = "data" /\ tls["client"].call = "send"
         \/ r.kind = "alert" /\ tls["client"].call = "close"
  BY <1>1, HeldByClient
<1>3. /\ c.out = r /\ c.flights = tls["client"].flights /\ c.call = tls["client"].call
      /\ c.context = tls["client"].context
  BY DEF Holding, TlsFields
<1>4. "client" \in Sides /\ Opposite("client") = "server" /\ Opposite("server") = "client"
  BY DEF Sides, Opposite
<1>5. PICK k \in 1..Len(r.bytes) : Wrote("client", r, k)
  BY <1>1, <1>2, <1>4, WriteMoves
<1> DEFINE last == k = Len(r.bytes)
<1>6. TlsShape /\ g = (tls["client"].in \o wire["client"]) \o v.out.bytes
  BY Apart
<1>7. TlsShape'
  BY <1>4, <1>5, <1>6, ShapeKept DEF Wrote
<1>8. /\ (tls'["server"].in \o wire'["server"]) \o x.out.bytes = f
      /\ (x.in \o wire'["client"]) \o tls'["server"].out.bytes = g
      /\ ~last => OutOk(x.out) /\ x.out.kind = r.kind /\ x.out.size = r.size
  BY <1>2, <1>4, <1>5, <1>6, WrittenFlow
<1>9. /\ x.context = c.context /\ tls'["server"] = v /\ reply'["server"] = reply["server"]
      /\ x.flights = (IF last /\ r.kind = "flight" THEN c.flights + 1 ELSE c.flights)
      /\ x.call = (IF last /\ r.kind # "flight" THEN "none" ELSE c.call)
      /\ (last => x.out = Nothing)
      /\ accepted' = (IF last /\ r.kind = "data" THEN accepted + r.size ELSE accepted)
      /\ reply'["client"] = (IF ~last \/ r.kind = "flight" THEN reply["client"]
                             ELSE IF r.kind = "data" THEN "ok" ELSE "closed")
      /\ received' = received /\ last \in BOOLEAN
  BY <1>3, <1>4, <1>5 DEF Wrote, Reshaped
<1>10. /\ c.call # "none" /\ r = c.out
       /\ \/ r.kind = "flight"
          \/ r.kind = "data" /\ c.call = "send"
          \/ r.kind = "alert" /\ c.call = "close"
  BY <1>1, <1>2, <1>3
<1> HIDE DEF c, v, f, g, x, last
<1>11. Linked(x, v, f, g, reply'["client"], reply["server"], accepted', received)
  BY <1>2, <1>8, <1>9, <1>10, ClientWriteLinks
<1>12. QED
  BY <1>7, <1>8, <1>9, <1>11, Assembled DEF x

(* And of the record of the server. *)
LEMMA ServerWriteKeeps ==
    ASSUME TlsInv, TlsWrite("server")
    PROVE  TlsInv'
<1> DEFINE r == ToWrite("server")
           v == Holding("server", r)
           c == tls["client"]
           g == (tls["client"].in \o wire["client"]) \o r.bytes
           f == Flow("client")
           y == tls'["server"]
<1>1. r = ToWrite("server") /\ r # Nothing
  BY DEF TlsWrite
<1> HIDE DEF r
<1>2. /\ Linked(c, v, f, g, reply["client"], reply["server"], accepted, received)
      /\ OutOk(r) /\ r.kind = "flight"
  BY <1>1, HeldByServer
<1>3. /\ v.out = r /\ v.flights = tls["server"].flights /\ v.call = tls["server"].call
      /\ v.plain = tls["server"].plain /\ v.ended = tls["server"].ended
  BY DEF Holding, TlsFields
<1>4. "server" \in Sides /\ Opposite("client") = "server" /\ Opposite("server") = "client"
  BY DEF Sides, Opposite
<1>5. PICK k \in 1..Len(r.bytes) : Wrote("server", r, k)
  BY <1>1, <1>2, <1>4, WriteMoves
<1> DEFINE last == k = Len(r.bytes)
<1>6. TlsShape /\ f = (tls["server"].in \o wire["server"]) \o c.out.bytes
  BY Apart
<1>7. TlsShape'
  BY <1>4, <1>5, <1>6, ShapeKept DEF Wrote
<1>8. /\ (tls'["client"].in \o wire'["client"]) \o y.out.bytes = g
      /\ (y.in \o wire'["server"]) \o tls'["client"].out.bytes = f
      /\ ~last => OutOk(y.out) /\ y.out.kind = r.kind /\ y.out.size = r.size
  BY <1>2, <1>4, <1>5, <1>6, WrittenFlow
<1>9. /\ y.plain = v.plain /\ y.ended = v.ended /\ y.call = v.call
      /\ tls'["client"] = c /\ reply'["client"] = reply["client"] /\ reply'["server"] = reply["server"]
      /\ y.flights = (IF last THEN v.flights + 1 ELSE v.flights)
      /\ (last => y.out = Nothing)
      /\ accepted' = accepted /\ received' = received /\ last \in BOOLEAN
  BY <1>2, <1>3, <1>4, <1>5 DEF Wrote, Reshaped
<1> HIDE DEF c, v, f, g, y, last
<1>10. Linked(c, y, f, g, reply["client"], reply["server"], accepted, received)
  BY <1>2, <1>3, <1>8, <1>9, ServerWriteLinks
<1>11. QED
  BY <1>7, <1>8, <1>9, <1>10, Assembled DEF y

(* libtls has the bytes a of a record, and t is left in the channel. *)
Gathered(ep, a, t) ==
    LET whole == Len(a) = 1 + a[1].size
        s == tls[ep]
    IN /\ Reshaped(ep)
       /\ IsSeq(a) /\ IsSeq(t) /\ Len(a) > 0 /\ s.in \o wire[ep] = a \o t
       /\ wire'[ep] = t /\ wire'[Opposite(ep)] = wire[Opposite(ep)]
       /\ tls'[ep].context = s.context /\ tls'[ep].out = s.out /\ tls'[ep].call = s.call
       /\ tls'[ep].in = IF whole THEN <<>> ELSE a
       /\ tls'[ep].flights = IF whole /\ a[1].kind = "flight" THEN s.flights + 1 ELSE s.flights
       /\ tls'[ep].plain = IF whole /\ a[1].kind = "data"
                           THEN [n \in 1..a[1].size |-> a[n + 1].byte] ELSE s.plain
       /\ tls'[ep].ended = (s.ended \/ (whole /\ a[1].kind = "alert"))
       /\ reply' = reply /\ accepted' = accepted /\ received' = received

(* The record that is being read tells its size. *)
LEMMA FirstSize ==
    ASSUME TlsInv, NEW ep \in Sides, tls[ep].in # <<>>
    PROVE  tls[ep].in[1].size \in Nat
<1> DEFINE i == tls[ep].in
           w == wire[ep]
           o == tls[Opposite(ep)].out.bytes
           f == (i \o w) \o o
<1>1. Framed(f) /\ IsSeq(o)
  BY Apart DEF Linked, OutOk, Opposite, Sides
<1>2. IsSeq(i) /\ IsSeq(w) /\ i # <<>>
  BY DEF TlsInv, TlsShape, EndOk
<1> HIDE DEF i, w, o
<1>3. Len(i) \in Nat /\ Len(w) \in Nat /\ Len(o) \in Nat /\ Len(i) > 0
  BY <1>1, <1>2, SeqIsFunction, NoElements
<1>4. IsSeq(i \o w) /\ Len(i \o w) = Len(i) + Len(w) /\ (i \o w)[1] = i[1]
  BY <1>2, <1>3, JoinedSeqs
<1>5. Len(f) = Len(i \o w) + Len(o) /\ f[1] = (i \o w)[1]
  <2> DEFINE b == i \o w
  <2>1. IsSeq(b) /\ 1 \in 1..Len(b)
    BY <1>3, <1>4
  <2> HIDE DEF b
  <2>2. Len(b \o o) = Len(b) + Len(o) /\ (b \o o)[1] = b[1]
    BY <1>1, <2>1, JoinedSeqs
  <2>3. QED
    BY <2>2 DEF b
<1>6. Len(f) \in Nat /\ Len(f) > 0 /\ f[1] = i[1]
  BY <1>3, <1>4, <1>5
<1> HIDE DEF f
<1>7. Starts(f, 1)
  BY <1>1, <1>6 DEF Framed
<1>8. Whole(f, 1)
  BY <1>1, <1>6, <1>7 DEF Framed
<1>9. QED
  BY <1>6, <1>8 DEF Whole, i

(* That is what a read does. *)
LEMMA ReadGathers ==
    ASSUME TlsInv, NEW ep \in Sides, TlsRead(ep)
    PROVE  \E a, t : Gathered(ep, a, t)
<1> DEFINE s == tls[ep]
           need == IF s.in = <<>> THEN 1 ELSE 1 + s.in[1].size - Len(s.in)
<1>1. PICK k \in 1..need :
            /\ k <= Len(wire[ep])
            /\ wire' = [wire EXCEPT ![ep] = SubSeq(@, k + 1, Len(@))]
            /\ LET got == s.in \o SubSeq(wire[ep], 1, k)
                   whole == Len(got) = 1 + got[1].size
                   data == [n \in 1..got[1].size |-> got[n + 1].byte]
               IN tls' = [tls EXCEPT
                    ![ep].in = IF whole THEN <<>> ELSE got,
                    ![ep].flights = IF whole /\ got[1].kind = "flight" THEN @ + 1 ELSE @,
                    ![ep].plain = IF whole /\ got[1].kind = "data" THEN data ELSE @,
                    ![ep].ended = @ \/ (whole /\ got[1].kind = "alert")]
  BY DEF TlsRead
<1>2. reply' = reply /\ accepted' = accepted /\ received' = received
  BY DEF TlsRead
<1> DEFINE part == SubSeq(wire[ep], 1, k)
           a == s.in \o part
           t == SubSeq(wire[ep], k + 1, Len(wire[ep]))
           whole == Len(a) = 1 + a[1].size
           in == IF whole THEN <<>> ELSE a
           flights == IF whole /\ a[1].kind = "flight" THEN s.flights + 1 ELSE s.flights
           plain == IF whole /\ a[1].kind = "data" THEN [n \in 1..a[1].size |-> a[n + 1].byte] ELSE s.plain
           ended == s.ended \/ (whole /\ a[1].kind = "alert")
<1>3. /\ tls = [e \in Sides |-> tls[e]] /\ s = [f \in TlsFields |-> s[f]]
      /\ reply = [e \in Sides |-> reply[e]] /\ wire = [e \in Sides |-> wire[e]]
      /\ IsSeq(wire["client"]) /\ IsSeq(wire["server"]) /\ IsSeq(s.in) /\ IsSeq(wire[ep])
  BY DEF TlsInv, TlsShape, EndOk, Sides
<1>4. Opposite(ep) \in Sides /\ Opposite(ep) # ep /\ {"in", "flights", "plain", "ended"} \subseteq TlsFields
  BY DEF Opposite, Sides, TlsFields
<1>5. Len(wire[ep]) \in Nat /\ k \in Int /\ k \in 0..Len(wire[ep]) /\ k + 1 \in Int /\ 1 <= k /\ Len(s.in) \in Nat
  <2>1. Len(wire[ep]) \in Nat /\ Len(s.in) \in Nat
    BY <1>3, SeqIsFunction
  <2>2. k \in Int /\ 1 <= k /\ k <= Len(wire[ep])
    <3>1. s.in # <<>> => s.in[1].size \in Nat
      BY FirstSize
    <3>2. need \in Int
      BY <2>1, <3>1
    <3>3. k \in 1..need /\ k <= Len(wire[ep])
      BY <1>1
    <3> HIDE DEF need
    <3>4. QED
      BY <3>2, <3>3
  <2>3. QED
    BY <2>1, <2>2
<1>6. /\ wire' = [wire EXCEPT ![ep] = t]
      /\ tls' = [tls EXCEPT ![ep].in = in, ![ep].flights = flights, ![ep].plain = plain, ![ep].ended = ended]
  BY <1>1, <1>3, <1>4
<1>7. IsSeq(part) /\ IsSeq(t) /\ Len(part) = k /\ wire[ep] = part \o t
  <2>1. IsSeq(part) /\ Len(part) = IF 1 <= k THEN (k - 1) + 1 ELSE 0
    BY <1>5, Sliced
  <2>2. Len(wire[ep]) \in Int
    BY <1>5
  <2>3. IsSeq(t)
    BY <1>5, <2>2, Sliced
  <2>4. wire[ep] = part \o t
    BY <1>3, <1>5, CutInTwo
  <2>5. QED
    BY <1>5, <2>1, <2>3, <2>4
<1> HIDE DEF part
<1>8. IsSeq(a) /\ Len(a) > 0
  <2>1. IsSeq(a) /\ Len(a) = Len(s.in) + Len(part)
    BY <1>3, <1>7, JoinedSeqs
  <2>2. QED
    BY <1>5, <1>7, <2>1
<1>9. s.in \o wire[ep] = a \o t
  <2> DEFINE i == s.in
  <2>1. IsSeq(i) /\ IsSeq(part) /\ IsSeq(t)
    BY <1>3, <1>7
  <2> HIDE DEF i, t
  <2>2. (i \o part) \o t = i \o (part \o t)
    BY <2>1, JoinedAgain
  <2>3. QED
    BY <1>7, <2>2 DEF i
<1> HIDE DEF t, in, flights, plain, ended
<1>10. /\ tls' = [e \in Sides |-> tls'[e]] /\ tls'[Opposite(ep)] = tls[Opposite(ep)]
       /\ tls'[ep] = [f \in TlsFields |-> tls'[ep][f]]
       /\ \A f \in TlsFields : tls'[ep][f] = IF f = "in" THEN in ELSE IF f = "flights" THEN flights
                                             ELSE IF f = "plain" THEN plain
                                             ELSE IF f = "ended" THEN ended ELSE s[f]
       /\ wire' = [e \in Sides |-> wire'[e]] /\ wire'[ep] = t
       /\ wire'[Opposite(ep)] = wire[Opposite(ep)]
  <2> HIDE DEF a
  <2>1. QED
    BY <1>3, <1>4, <1>6
<1>11. /\ tls'[ep].in = in /\ tls'[ep].out = s.out /\ tls'[ep].call = s.call
       /\ tls'[ep].flights = flights /\ tls'[ep].context = s.context
       /\ tls'[ep].plain = plain /\ tls'[ep].ended = ended
  BY <1>10 DEF TlsFields
<1>12. Reshaped(ep)
  <2>1. IsSeq(in)
    <3>1. IsSeq(<<>>)
      BY NoElements
    <3> HIDE DEF a
    <3>2. QED
      BY <1>8, <3>1 DEF in
  <2>2. IsSeq(wire'["client"]) /\ IsSeq(wire'["server"])
    BY <1>3, <1>7, <1>10 DEF Opposite, Sides
  <2>3. QED
    BY <1>2, <1>3, <1>10, <1>11, <2>1, <2>2 DEF Reshaped
<1>13. Gathered(ep, a, t)
  <2> HIDE DEF a
  <2>1. QED
    BY <1>2, <1>7, <1>8, <1>9, <1>10, <1>11, <1>12 DEF Gathered, in, flights, plain, ended
<1>14. QED
  BY <1>13

(* The server reads a part of a record of the client. *)
LEMMA ServerReadKeeps ==
    ASSUME TlsInv, TlsRead("server")
    PROVE  TlsInv'
<1> DEFINE c == tls["client"]
           v == tls["server"]
           f == Flow("client")
           g == Flow("server")
           y == tls'["server"]
           o == c.out.bytes
<1>1. "server" \in Sides /\ Opposite("client") = "server" /\ Opposite("server") = "client"
  BY DEF Sides, Opposite
<1>2. PICK a, t : Gathered("server", a, t)
  BY <1>1, ReadGathers
<1>3. /\ TlsShape
      /\ f = (v.in \o wire["server"]) \o o
      /\ g = (c.in \o wire["client"]) \o v.out.bytes
      /\ Linked(c, v, f, g, reply["client"], reply["server"], accepted, received)
  BY Apart
<1>4. OutOk(c.out) /\ OutOk(v.out) /\ IsSeq(o) /\ v.ended \in BOOLEAN
  BY <1>3 DEF Linked, OutOk
<1>5. TlsShape'
  BY <1>1, <1>2, <1>3, ShapeKept DEF Gathered
<1> DEFINE whole == Len(a) = 1 + a[1].size
<1>6. /\ IsSeq(a) /\ IsSeq(t) /\ Len(a) > 0 /\ v.in \o wire["server"] = a \o t
      /\ tls'["client"] = c /\ wire'["server"] = t /\ wire'["client"] = wire["client"]
      /\ y.out = v.out /\ y.call = v.call /\ y.in = (IF whole THEN <<>> ELSE a)
      /\ y.flights = (IF whole /\ a[1].kind = "flight" THEN v.flights + 1 ELSE v.flights)
      /\ y.plain = (IF whole /\ a[1].kind = "data" THEN [n \in 1..a[1].size |-> a[n + 1].byte] ELSE v.plain)
      /\ y.ended = (v.ended \/ (whole /\ a[1].kind = "alert"))
      /\ reply' = reply /\ accepted' = accepted /\ received' = received
  BY <1>1, <1>2 DEF Gathered, Reshaped
<1>7. g = (tls'["client"].in \o wire'["client"]) \o y.out.bytes
  BY <1>3, <1>6
<1>8. v.flights \in {0, 2} \/ (v.flights = 3 /\ v.plain = <<>>)
  BY ServerReads DEF TlsRead
<1>9. CASE whole
  <2> DEFINE b == (<<>> \o t) \o o
  <2>1. f = a \o b
    <3>1. (a \o t) \o o = a \o (t \o o)
      <4>1. IsSeq(a) /\ IsSeq(t) /\ IsSeq(o)
        BY <1>4, <1>6
      <4> HIDE DEF o
      <4>2. QED
        BY <4>1, JoinedAgain
    <3>2. <<>> \o t = t
      BY <1>6, NothingBefore
    <3>3. QED
      BY <1>3, <1>6, <3>1, <3>2
  <2>2. IsSeq(b) /\ Len(o) <= Len(b)
    <3>1. <<>> \o t = t
      BY <1>6, NothingBefore
    <3>2. Len(t) \in Nat /\ Len(o) \in Nat
      BY <1>4, <1>6, SeqIsFunction
    <3>3. IsSeq(t \o o) /\ Len(t \o o) = Len(t) + Len(o)
      BY <1>4, <1>6, JoinedSeqs
    <3>4. QED
      BY <3>1, <3>2, <3>3
  <2>3. b = (y.in \o wire'["server"]) \o tls'["client"].out.bytes
    BY <1>6, <1>9
  <2>4. /\ y.flights = IF a[1].kind = "flight" THEN v.flights + 1 ELSE v.flights
        /\ y.plain = IF a[1].kind = "data" THEN [n \in 1..a[1].size |-> a[n + 1].byte] ELSE v.plain
        /\ y.ended = (v.ended \/ a[1].kind = "alert")
    BY <1>6, <1>9
  <2> HIDE DEF b
  <2>5. Cut(f, a, b)
    BY <1>6, <1>9, <2>1, <2>2 DEF Cut
  <2> HIDE DEF f, g, y, c, v
  <2>6. Linked(c, y, b, g, reply["client"], reply["server"], accepted, received)
    <3>1. Len(c.out.bytes) <= Len(b)
      BY <2>2
    <3>2. y.out = v.out /\ y.call = v.call
      BY <1>6
    <3>3. QED
      BY <1>3, <1>8, <2>4, <2>5, <3>1, <3>2, RecordRead
  <2>7. QED
    BY <1>5, <1>6, <1>7, <2>3, <2>6, Assembled DEF y
<1>10. CASE ~whole
  <2>1. /\ y.in = a /\ y.flights = v.flights /\ y.plain = v.plain /\ y.ended = v.ended
        /\ y.out = v.out /\ y.call = v.call
    BY <1>4, <1>6, <1>10
  <2>2. f = (y.in \o wire'["server"]) \o tls'["client"].out.bytes
    BY <1>3, <1>6, <2>1
  <2> HIDE DEF f, g, y, c, v
  <2>3. Linked(c, y, f, g, reply["client"], reply["server"], accepted, received)
    BY <1>3, <1>4, <2>1, PartWritten
  <2>4. QED
    BY <1>5, <1>6, <1>7, <2>2, <2>3, Assembled DEF y
<1>11. QED
  BY <1>9, <1>10

(* The client reads a part of the flight of the server. *)
LEMMA ClientReadKeeps ==
    ASSUME TlsInv, TlsRead("client")
    PROVE  TlsInv'
<1> DEFINE c == tls["client"]
           v == tls["server"]
           f == Flow("client")
           g == Flow("server")
           x == tls'["client"]
           o == v.out.bytes
<1>1. "client" \in Sides /\ Opposite("client") = "server" /\ Opposite("server") = "client"
  BY DEF Sides, Opposite
<1>2. PICK a, t : Gathered("client", a, t)
  BY <1>1, ReadGathers
<1>3. /\ TlsShape
      /\ f = (v.in \o wire["server"]) \o c.out.bytes
      /\ g = (c.in \o wire["client"]) \o o
      /\ Linked(c, v, f, g, reply["client"], reply["server"], accepted, received)
  BY Apart
<1>4. OutOk(c.out) /\ OutOk(v.out) /\ IsSeq(o)
  BY <1>3 DEF Linked, OutOk
<1>5. TlsShape'
  BY <1>1, <1>2, <1>3, ShapeKept DEF Gathered
<1> DEFINE whole == Len(a) = 1 + a[1].size
<1>6. /\ IsSeq(a) /\ IsSeq(t) /\ Len(a) > 0 /\ c.in \o wire["client"] = a \o t
      /\ tls'["server"] = v /\ wire'["client"] = t /\ wire'["server"] = wire["server"]
      /\ x.out = c.out /\ x.call = c.call /\ x.context = c.context /\ x.in = (IF whole THEN <<>> ELSE a)
      /\ x.flights = (IF whole /\ a[1].kind = "flight" THEN c.flights + 1 ELSE c.flights)
      /\ reply' = reply /\ accepted' = accepted /\ received' = received
  BY <1>1, <1>2 DEF Gathered, Reshaped
<1>7. f = (tls'["server"].in \o wire'["server"]) \o x.out.bytes
  BY <1>3, <1>6
<1>8. c.flights = 1
  BY ClientReads DEF TlsRead
<1>9. CASE whole
  <2> DEFINE b == (<<>> \o t) \o o
  <2>1. g = a \o b
    <3>1. (a \o t) \o o = a \o (t \o o)
      <4>1. IsSeq(a) /\ IsSeq(t) /\ IsSeq(o)
        BY <1>4, <1>6
      <4> HIDE DEF o
      <4>2. QED
        BY <4>1, JoinedAgain
    <3>2. <<>> \o t = t
      BY <1>6, NothingBefore
    <3>3. QED
      BY <1>3, <1>6, <3>1, <3>2
  <2>2. IsSeq(b) /\ Len(o) <= Len(b)
    <3>1. <<>> \o t = t
      BY <1>6, NothingBefore
    <3>2. Len(t) \in Nat /\ Len(o) \in Nat
      BY <1>4, <1>6, SeqIsFunction
    <3>3. IsSeq(t \o o) /\ Len(t \o o) = Len(t) + Len(o)
      BY <1>4, <1>6, JoinedSeqs
    <3>4. QED
      BY <3>1, <3>2, <3>3
  <2>3. b = (x.in \o wire'["client"]) \o tls'["server"].out.bytes
    BY <1>6, <1>9
  <2>4. x.flights = IF a[1].kind = "flight" THEN c.flights + 1 ELSE c.flights
    BY <1>6, <1>9
  <2> HIDE DEF b
  <2>5. Cut(g, a, b)
    BY <1>6, <1>9, <2>1, <2>2 DEF Cut
  <2> HIDE DEF f, g, x, c, v
  <2>6. Linked(x, v, f, b, reply["client"], reply["server"], accepted, received)
    <3>1. Len(v.out.bytes) <= Len(b)
      BY <2>2
    <3>2. x.out = c.out /\ x.call = c.call /\ x.context = c.context
      BY <1>6
    <3>3. QED
      BY <1>3, <1>8, <2>4, <2>5, <3>1, <3>2, AnswerRead
  <2>7. QED
    BY <1>5, <1>6, <1>7, <2>3, <2>6, Assembled DEF x
<1>10. CASE ~whole
  <2>1. x.in = a /\ x.flights = c.flights /\ x.out = c.out /\ x.call = c.call /\ x.context = c.context
    BY <1>6, <1>10
  <2>2. g = (x.in \o wire'["client"]) \o tls'["server"].out.bytes
    BY <1>3, <1>6, <2>1
  <2> HIDE DEF f, g, x, c, v
  <2>3. Linked(x, v, f, g, reply["client"], reply["server"], accepted, received)
    BY <1>3, <1>4, <2>1, PartWritten
  <2>4. QED
    BY <1>5, <1>6, <1>7, <2>2, <2>3, Assembled DEF x
<1>11. QED
  BY <1>9, <1>10

(* Every step of ez::tls. *)
LEMMA TlsStepKeeps ==
    ASSUME TlsInv, NEW ep \in Sides, TlsStep(ep)
    PROVE  TlsInv'
<1>1. CASE TlsConnect(ep)
  BY <1>1, ConnectKeeps
<1>2. CASE TlsHandshake(ep)
  BY <1>2, HandshakeKeeps
<1>3. CASE TlsSend(ep)
  <2>1. ep = "client" /\ tls[ep].context /\ accepted < TlsData /\ Begins(ep, "send")
    BY <1>3 DEF TlsSend
  <2>2. QED
    BY <2>1, CallKeeps
<1>4. CASE TlsRecv(ep)
  <2>1. ep = "server" /\ tls[ep].context /\ Begins(ep, "recv")
    BY <1>4 DEF TlsRecv
  <2>2. QED
    BY <2>1, CallKeeps
<1>5. CASE TlsClose(ep)
  <2>1. ep = "client" /\ tls[ep].flights = 3 /\ accepted = TlsData /\ Begins(ep, "close")
    BY <1>5 DEF TlsClose, Complete
  <2>2. QED
    BY <2>1, CallKeeps
<1>6. CASE TlsWrite(ep)
  BY <1>6, ClientWriteKeeps, ServerWriteKeeps DEF Sides
<1>7. CASE TlsWriteBlocks(ep)
  BY <1>7, WriteBlocksKeeps
<1>8. CASE TlsRead(ep)
  BY <1>8, ClientReadKeeps, ServerReadKeeps DEF Sides
<1>9. CASE TlsReadBlocks(ep)
  BY <1>9, ReadBlocksKeeps
<1>10. CASE TlsReturns(ep)
  BY <1>10, ReturnsKeeps
<1>11. QED
  BY <1>1, <1>2, <1>3, <1>4, <1>5, <1>6, <1>7, <1>8, <1>9, <1>10 DEF TlsStep

(* Nothing is sent at first. *)
LEMMA TlsInitInv == TlsInit => TlsInv
<1>1. SUFFICES ASSUME TlsInit PROVE TlsInv
  OBVIOUS
<1>2. /\ tls = [ep \in Sides |-> NewTls] /\ wire = [ep \in Sides |-> <<>>]
      /\ reply = [ep \in Sides |-> "none"] /\ accepted = 0 /\ received = <<>>
  BY <1>1 DEF TlsInit
<1>3. IsSeq(<<>>) /\ Len(<<>>) = 0 /\ <<>> \o <<>> = <<>>
  BY NoElements, NothingBefore
<1> DEFINE n == NewTls
<1>4. /\ n = [f \in TlsFields |-> n[f]] /\ n.in = <<>> /\ n.plain = <<>> /\ n.ended = FALSE
      /\ n.context = FALSE /\ n.flights = 0 /\ n.out = Nothing /\ n.call = "none"
  BY DEF NewTls, TlsFields
<1>5. tls["client"] = n /\ tls["server"] = n /\ wire["client"] = <<>> /\ wire["server"] = <<>>
      /\ reply["client"] = "none" /\ reply["server"] = "none"
  BY <1>2 DEF Sides
<1> HIDE DEF n
<1>6. /\ OutOk(n.out) /\ n.out.bytes = <<>> /\ n.out.kind = "none"
  BY <1>3, <1>4 DEF OutOk, Nothing
<1>7. Flow("client") = <<>> /\ Flow("server") = <<>>
  <2>1. Opposite("client") = "server" /\ Opposite("server") = "client"
    BY DEF Opposite
  <2>2. QED
    BY <1>3, <1>4, <1>5, <1>6, <2>1 DEF Flow
<1>8. TlsShape
  BY <1>2, <1>3, <1>4 DEF TlsShape, EndOk, n
<1>9. Framed(<<>>) /\ ~AlertIn(<<>>) /\ 1..Len(<<>>) = {}
  BY <1>3 DEF Framed, AlertIn
<1>10. Handshakes(n, n, <<>>, <<>>)
  BY <1>3, <1>4, <1>6, <1>9 DEF Handshakes, Phase
<1>11. Calls(n, n, <<>>, "none", "none", 0)
  BY <1>3, <1>4, <1>6, <1>9 DEF Calls
<1>12. AllBytes(n, n, <<>>, 0, <<>>)
  <2>1. Begun(n.out) = 0
    BY <1>6 DEF Begun
  <2>2. DataIn(<<>>) = <<>>
    BY NoData
  <2>3. [k \in 1..(0 + 0) |-> k] = <<>>
    <3> DEFINE e == [k \in 1..0 |-> k]
    <3>1. e = [k \in 1..0 |-> e[k]]
      OBVIOUS
    <3> HIDE DEF e
    <3>2. IsSeq(e) /\ Len(e) = 0
      BY <3>1, FunctionIsSeq
    <3>3. e = <<>>
      BY <3>2, NoElements
    <3>4. QED
      BY <3>3 DEF e
  <2>4. QED
    BY <1>3, <1>4, <2>1, <2>2, <2>3 DEF AllBytes
<1>13. Linked(n, n, <<>>, <<>>, "none", "none", 0, <<>>)
  <2>1. 0 \in 0..TlsData
    BY TlsAssumption
  <2>2. OutOk(n.out) /\ IsSeq(n.plain) /\ n.ended \in BOOLEAN /\ IsSeq(<<>>)
    BY <1>3, <1>4, <1>6
  <2>3. QED
    BY <1>9, <1>10, <1>11, <1>12, <2>1, <2>2 DEF Linked
<1>14. QED
  BY <1>2, <1>5, <1>7, <1>8, <1>13 DEF TlsInv

(* What the invariant says of the bytes is the property. *)
LEMMA TlsInvIsEnough == TlsInv => TlsKeepsBytes
<1>1. SUFFICES ASSUME TlsInv PROVE TlsKeepsBytes
  OBVIOUS
<1> DEFINE c == tls["client"]
           v == tls["server"]
           f == (v.in \o wire["server"]) \o c.out.bytes
           all == accepted + Begun(c.out)
<1>2. /\ f = Flow("client")
      /\ Linked(c, v, Flow("client"), Flow("server"), reply["client"], reply["server"], accepted, received)
  BY <1>1, Apart
<1>3. /\ (received \o v.plain) \o DataIn(f) = [k \in 1..all |-> k]
      /\ Calls(c, v, f, reply["client"], reply["server"], accepted)
      /\ IsSeq(received) /\ accepted \in 0..TlsData /\ IsSeq(f)
      /\ OutOk(c.out)
  BY <1>2 DEF Linked, AllBytes, Framed
<1> HIDE DEF f
<1>4. ASSUME reply["server"] = "closed" PROVE Len(received) = accepted
  <2>1. v.ended /\ Len(f) = 0 /\ v.plain = <<>>
    BY <1>3, <1>4 DEF Calls
  <2>2. c.out.kind # "data"
    <3>1. /\ accepted = TlsData
          /\ c.out.kind = "data" => accepted + c.out.size <= TlsData /\ c.out.size > 0
      BY <1>3, <2>1 DEF Calls
    <3>2. c.out.size \in Nat /\ TlsData \in Nat
      BY <1>3, TlsAssumption DEF OutOk
    <3>3. QED
      BY <3>1, <3>2
  <2>3. accepted \in Nat /\ all = accepted
    BY <1>3, <2>2, TlsAssumption DEF Begun
  <2>4. f = <<>> /\ DataIn(f) = <<>>
    BY <1>3, <2>1, NoElements, NoData
  <2>5. received \o <<>> = received
    BY <1>3, NothingAfter
  <2>6. received = [k \in 1..accepted |-> k]
    BY <1>3, <2>1, <2>3, <2>4, <2>5
  <2>7. received = [k \in 1..accepted |-> received[k]]
    BY <2>6
  <2>8. QED
    BY <2>3, <2>7, FunctionIsSeq
<1>5. QED
  BY <1>3, <1>4 DEF TlsKeepsBytes, Begun, f

(* Every byte that ez::tls::send() took is received, on its way or kept by *)
(* libtls, in order and once, whatever part of each record the channel     *)
(* takes or gives and however often a call would block; recv() gives 0     *)
(* only when everything was received.                                      *)
THEOREM TlsBytes == ChannelsSpec => []TlsKeepsBytes
<1>1. ChannelsInit => TlsInv
  BY TlsInitInv DEF ChannelsInit
<1>2. TlsInv /\ [ChannelsNext]_channelsVars => TlsInv'
  <2>1. SUFFICES ASSUME TlsInv, [ChannelsNext]_channelsVars PROVE TlsInv'
    OBVIOUS
  <2>2. CASE UNCHANGED tlsVars
    <3>1. /\ tls' = tls /\ wire' = wire /\ reply' = reply
          /\ accepted' = accepted /\ received' = received
      BY <2>2 DEF tlsVars
    <3>2. QED
      BY <2>1, <3>1 DEF TlsInv, TlsShape, Flow
  <2>3. CASE \E side \in Sides : TlsStep(side)
    BY <2>1, <2>3, TlsStepKeeps
  <2>4. QED
    BY <2>1, <2>2, <2>3 DEF ChannelsNext, SocketsStep, TlsSideStep, channelsVars
<1>3. TlsInv => TlsKeepsBytes
  BY TlsInvIsEnough
<1>4. QED
  BY <1>1, <1>2, <1>3, PTL DEF ChannelsSpec
=============================================================================
