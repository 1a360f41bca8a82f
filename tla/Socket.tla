------------------------------- MODULE Socket -------------------------------
(***************************************************************************)
(* ez::socket (source/socket.cpp): C++ objects that each own at most one   *)
(* kernel descriptor, with the object's idea of its state and blocking     *)
(* mode beside the kernel's.  The program may call any method of any       *)
(* object at any time; peers and the network act on established and        *)
(* pending connections between the calls.                                  *)
(*                                                                         *)
(* Bytes, addresses and ports are left out, EINTR only repeats a call, and *)
(* the tcp and unix variants of listen() are one action.                   *)
(***************************************************************************)
EXTENDS Integers, FiniteSets

CONSTANTS
    Objects,    \* the C++ variables of type socket
    Fds,        \* descriptor numbers socket() and accept() may return
    PlainAccept \* a system without SOCK_CLOEXEC, on which a descriptor that
                \* accept() returns has the O_NONBLOCK of the listening one

ASSUME FdsAssumption == Fds \subseteq Nat
ASSUME SystemAssumption == PlainAccept \in BOOLEAN

NoFd == -1

VARIABLES
    obj,        \* the objects: alive, m_fd, m_state, m_nonblocking
    kernel,     \* the descriptors: connection state, O_NONBLOCK, whether it was
                \* inherited and not set since, SO_ERROR
    result,     \* how the last send() or recv() on an object ended
    moved,      \* objects moved from and not closed since: their m_state and
                \* m_nonblocking speak of a descriptor they no longer have
    unsettled   \* objects that asked for SO_ERROR when the kernel had no fresh
                \* verdict on a connection to give

vars == <<obj, kernel, result, moved, unsettled>>

States == {"disconnected", "connecting", "connected", "listening"}
ConnStates == {"closed", "new", "pending", "failed", "established", "eof", "reset", "listening"}

TypeOK ==
    /\ obj \in [Objects -> [alive : BOOLEAN, m_fd : Fds \cup {NoFd}, m_state : States,
                            m_nonblocking : BOOLEAN]]
    /\ kernel \in [Fds -> [conn : ConnStates, nonblock : BOOLEAN, inherited : BOOLEAN,
                        so_error : BOOLEAN]]
    /\ result \in [Objects -> {"none", "ok", "again", "timeout", "closed", "error"}]
    /\ moved \subseteq Objects /\ unsettled \subseteq Objects

(* socket::socket() and a descriptor nobody has. *)
NewObject == [alive |-> TRUE, m_fd |-> NoFd, m_state |-> "disconnected", m_nonblocking |-> FALSE]
NoObject == [NewObject EXCEPT !.alive = FALSE]
ClosedFd == [conn |-> "closed", nonblock |-> FALSE, inherited |-> FALSE, so_error |-> FALSE]
NewFd == [ClosedFd EXCEPT !.conn = "new"]

Init ==
    /\ obj = [s \in Objects |-> NoObject]
    /\ kernel = [f \in Fds |-> ClosedFd]
    /\ result = [s \in Objects |-> "none"]
    /\ moved = {} /\ unsettled = {}

Alive(s) == obj[s].alive
FreeFds == {f \in Fds : kernel[f].conn = "closed"}
Ends(s, how) == result' = [result EXCEPT ![s] = how]

-----------------------------------------------------------------------------
(* Construction, move, close and destruction. *)
Construct(s) ==
    /\ ~Alive(s)
    /\ obj' = [obj EXCEPT ![s] = NewObject]
    /\ Ends(s, "none")
    /\ UNCHANGED <<kernel, moved, unsettled>>

(* Mutant: the source keeps its descriptor. *)
MoveKeepsFd(s, t) ==
    /\ Alive(s) /\ ~Alive(t)
    /\ obj' = [obj EXCEPT ![t] = obj[s]]
    /\ result' = [result EXCEPT ![s] = "none", ![t] = "none"]
    /\ UNCHANGED <<kernel, moved, unsettled>>

(* socket(socket&&): the source loses its descriptor and keeps its state. *)
Move(s, t) ==
    /\ Alive(s) /\ ~Alive(t)
    /\ obj' = [obj EXCEPT ![t] = obj[s], ![s].m_fd = NoFd]
    /\ result' = [result EXCEPT ![s] = "none", ![t] = "none"]
    /\ moved' = IF s \in moved THEN moved \cup {t} ELSE moved \cup {s}
    /\ unsettled' = IF s \in unsettled THEN unsettled \cup {t} ELSE unsettled
    /\ UNCHANGED kernel

(* Mutant: close() leaves m_state. *)
ObjectClosedState(o) == [o EXCEPT !.m_fd = NoFd]

(* close(): m_nonblocking survives it. *)
ObjectClosed(o) == [o EXCEPT !.m_fd = NoFd, !.m_state = "disconnected"]
KernelClosed(f) == IF f = NoFd THEN kernel ELSE [kernel EXCEPT ![f] = ClosedFd]

Close(s) ==
    /\ Alive(s)
    /\ obj' = [obj EXCEPT ![s] = ObjectClosed(@)]
    /\ kernel' = KernelClosed(obj[s].m_fd)
    /\ Ends(s, "none")
    /\ moved' = moved \ {s} /\ unsettled' = unsettled \ {s}

Destroy(s) ==
    /\ Alive(s)
    /\ obj' = [obj EXCEPT ![s] = NoObject]
    /\ kernel' = KernelClosed(obj[s].m_fd)
    /\ Ends(s, "none")
    /\ moved' = moved \ {s} /\ unsettled' = unsettled \ {s}

(* Mutant: only the kernel is told. *)
SetNonblockingKernel(s, flag) ==
    /\ Alive(s) /\ obj[s].m_fd # NoFd
    /\ kernel' = [kernel EXCEPT ![obj[s].m_fd].nonblock = flag, ![obj[s].m_fd].inherited = FALSE]
    /\ Ends(s, "none")
    /\ UNCHANGED <<obj, moved, unsettled>>

SetNonblocking(s, flag) ==
    /\ Alive(s) /\ obj[s].m_fd # NoFd
    /\ obj' = [obj EXCEPT ![s].m_nonblocking = flag]
    /\ kernel' = [kernel EXCEPT ![obj[s].m_fd].nonblock = flag, ![obj[s].m_fd].inherited = FALSE]
    /\ Ends(s, "none")
    /\ UNCHANGED <<moved, unsettled>>

-----------------------------------------------------------------------------
(* listen() and the connects make a descriptor when the object has none.   *)
Descriptor(s) == IF obj[s].m_fd = NoFd THEN FreeFds ELSE {obj[s].m_fd}
Kernel1(f) == IF kernel[f].conn = "closed" THEN NewFd ELSE kernel[f]

(* listen(): bind() or ::listen() may fail, then only the descriptor is    *)
(* kept; a new one starts blocking whatever m_nonblocking says.            *)
Listen(s) ==
    /\ Alive(s)
    /\ \E f \in Descriptor(s), ok \in BOOLEAN :
        /\ ok => Kernel1(f).conn = "new"
        /\ obj' = [obj EXCEPT ![s].m_fd = f,
                              ![s].m_state = IF ok THEN "listening" ELSE @]
        /\ kernel' = [kernel EXCEPT ![f] = IF ok THEN [Kernel1(f) EXCEPT !.conn = "listening"]
                                                 ELSE Kernel1(f)]
    /\ Ends(s, "none")
    /\ UNCHANGED <<moved, unsettled>>

(* accept(): a new connected object that believes its descriptor blocking; *)
(* would-block on an object that believes itself non-blocking gives a      *)
(* default constructed one.                                                *)
AcceptedFd(s) ==
    LET inherits == PlainAccept /\ kernel[obj[s].m_fd].nonblock IN
    [NewFd EXCEPT !.conn = "established", !.nonblock = inherits, !.inherited = inherits]

Accept(s, t) ==
    /\ Alive(s) /\ ~Alive(t)
    /\ obj[s].m_state = "listening" /\ obj[s].m_fd # NoFd
    /\ kernel[obj[s].m_fd].conn = "listening"
    /\ \/ \E f \in FreeFds :
            /\ obj' = [obj EXCEPT ![t] = [NewObject EXCEPT !.m_fd = f, !.m_state = "connected"]]
            /\ kernel' = [kernel EXCEPT ![f] = AcceptedFd(s)]
       \/ /\ obj[s].m_nonblocking
          /\ obj' = [obj EXCEPT ![t] = NewObject]
          /\ UNCHANGED kernel
    /\ result' = [result EXCEPT ![s] = "none", ![t] = "none"]
    /\ UNCHANGED <<moved, unsettled>>

(* The connect() system call on a non-blocking descriptor: a new one, or   *)
(* one whose failure has been reported, tries; one whose attempt has       *)
(* succeeded since may say so.                                             *)
ConnectCalls(k) ==
    CASE k.conn = "new" \/ (k.conn = "failed" /\ ~k.so_error) -> {"ok", "in_progress", "error"}
      [] k.conn = "established" -> {"ok", "error"}
      [] OTHER -> {"error"}
KernelCalled(k) ==
    [k EXCEPT !.nonblock = TRUE, !.inherited = FALSE, !.so_error = @ /\ k.conn # "failed"]

(* connect(): bind() may fail first.  On immediate success the function    *)
(* returns before set_nonblocking(false); a timeout or an error leaves the *)
(* descriptor open and non-blocking.                                       *)
Connect(s) ==
    /\ Alive(s)
    /\ \E f \in Descriptor(s) :
        LET calls == ConnectCalls(Kernel1(f))
            k == KernelCalled(Kernel1(f))
            o == [obj[s] EXCEPT !.m_fd = f, !.m_nonblocking = TRUE, !.m_state = "connecting"]
        IN \/ /\ obj' = [obj EXCEPT ![s].m_fd = f]          \* can't bind
              /\ kernel' = [kernel EXCEPT ![f] = Kernel1(f)]
           \/ /\ "ok" \in calls
              /\ obj' = [obj EXCEPT ![s] = [o EXCEPT !.m_state = "connected"]]
              /\ kernel' = [kernel EXCEPT ![f] = [k EXCEPT !.conn = "established"]]
           \/ /\ obj' = [obj EXCEPT ![s] = o]               \* error
              /\ kernel' = [kernel EXCEPT ![f] = k]
           \/ /\ "in_progress" \in calls                    \* select() timed out
              /\ obj' = [obj EXCEPT ![s] = o]
              /\ kernel' = [kernel EXCEPT ![f] = [k EXCEPT !.conn = "pending"]]
           \/ /\ "in_progress" \in calls                    \* SO_ERROR read, not 0
              /\ obj' = [obj EXCEPT ![s] = o]
              /\ kernel' = [kernel EXCEPT ![f] = [k EXCEPT !.conn = "failed"]]
           \/ /\ "in_progress" \in calls                    \* SO_ERROR read, 0
              /\ obj' = [obj EXCEPT ![s] = [o EXCEPT !.m_state = "connected",
                                                     !.m_nonblocking = FALSE]]
              /\ kernel' = [kernel EXCEPT ![f] = [k EXCEPT !.conn = "established",
                                                           !.nonblock = FALSE]]
    /\ Ends(s, "none")
    /\ UNCHANGED <<moved, unsettled>>

(* connect() to a unix address: m_state does not pass through connecting.  *)
(* A full backlog is EAGAIN, would_block() takes it for an attempt under   *)
(* way, select() finds the descriptor writable and SO_ERROR is 0.          *)
ConnectUnix(s) ==
    /\ Alive(s)
    /\ \E f \in Descriptor(s) :
        LET calls == ConnectCalls(Kernel1(f))
            k == KernelCalled(Kernel1(f))
            o == [obj[s] EXCEPT !.m_fd = f, !.m_nonblocking = TRUE]
        IN \/ /\ "ok" \in calls
              /\ obj' = [obj EXCEPT ![s] = [o EXCEPT !.m_state = "connected"]]
              /\ kernel' = [kernel EXCEPT ![f] = [k EXCEPT !.conn = "established"]]
              /\ UNCHANGED unsettled
           \/ /\ obj' = [obj EXCEPT ![s] = o]               \* error
              /\ kernel' = [kernel EXCEPT ![f] = k]
              /\ UNCHANGED unsettled
           \/ /\ "in_progress" \in calls                    \* backlog full
              /\ obj' = [obj EXCEPT ![s] = [o EXCEPT !.m_state = "connected",
                                                     !.m_nonblocking = FALSE]]
              /\ kernel' = [kernel EXCEPT ![f] = [k EXCEPT !.nonblock = FALSE]]
              /\ unsettled' = unsettled \cup {s}
    /\ Ends(s, "none")
    /\ UNCHANGED moved

(* connect_async(), first call: starts the connection. *)
ConnectAsyncStart(s) ==
    /\ Alive(s) /\ obj[s].m_state = "disconnected"
    /\ \E f \in Descriptor(s) :
        LET k == KernelCalled(Kernel1(f))
            o == [obj[s] EXCEPT !.m_fd = f, !.m_nonblocking = TRUE, !.m_state = "connecting"]
        IN \E call \in ConnectCalls(Kernel1(f)) :
            /\ obj' = [obj EXCEPT ![s] = IF call = "ok" THEN [o EXCEPT !.m_state = "connected"]
                                                        ELSE o]
            /\ kernel' = [kernel EXCEPT ![f] =
                    [k EXCEPT !.conn = CASE call = "ok" -> "established"
                                         [] call = "in_progress" -> "pending"
                                         [] call = "error" -> @]]
    /\ Ends(s, "none")
    /\ UNCHANGED <<moved, unsettled>>

(* connect_async(), called again: SO_ERROR, which reading clears, decides. *)
ConnectAsyncAgain(s) ==
    /\ Alive(s) /\ obj[s].m_state = "connecting"
    /\ \E f \in Descriptor(s) :
        LET k == Kernel1(f) IN
        /\ obj' = [obj EXCEPT ![s].m_fd = f,
                              ![s].m_state = IF k.so_error THEN "connecting" ELSE "connected"]
        /\ kernel' = [kernel EXCEPT ![f] = [k EXCEPT !.so_error = FALSE]]
        /\ unsettled' = IF k.so_error \/ k.conn \in {"established", "eof", "reset"}
                        THEN unsettled ELSE unsettled \cup {s}
    /\ Ends(s, "none")
    /\ UNCHANGED moved

(* connect_async() on an object that was moved from when it was connected  *)
(* or listening: a new descriptor and nothing else.                        *)
ConnectAsyncMoved(s) ==
    /\ Alive(s) /\ obj[s].m_state \in {"connected", "listening"} /\ obj[s].m_fd = NoFd
    /\ \E f \in FreeFds :
        /\ obj' = [obj EXCEPT ![s].m_fd = f]
        /\ kernel' = [kernel EXCEPT ![f] = NewFd]
    /\ Ends(s, "none")
    /\ UNCHANGED <<moved, unsettled>>

-----------------------------------------------------------------------------
(* send() and recv() on a connected object; elsewhere they only throw.     *)
(* would_block() is EAGAIN: at once on a non-blocking descriptor, after    *)
(* SO_RCVTIMEO/SO_SNDTIMEO on a blocking one; the object's flag decides    *)
(* what the caller sees.                                                   *)
Transfers(s) == Alive(s) /\ obj[s].m_state = "connected" /\ obj[s].m_fd # NoFd
Conn(s) == kernel[obj[s].m_fd].conn

TransferOk(s) ==
    /\ Transfers(s) /\ Conn(s) \in {"established", "eof"}
    /\ Ends(s, "ok")
    /\ UNCHANGED <<obj, kernel, moved, unsettled>>

WouldBlock(s) ==
    /\ Transfers(s) /\ Conn(s) \in {"established", "pending", "eof"}
    /\ Ends(s, IF obj[s].m_nonblocking THEN "again" ELSE "timeout")
    /\ UNCHANGED <<obj, kernel, moved, unsettled>>

(* send() on a connection that was reset or never was, recv() at the end   *)
(* of the stream.                                                          *)
TransferCloses(s) ==
    /\ Transfers(s) /\ Conn(s) \in {"eof", "reset", "new", "failed", "listening"}
    /\ obj' = [obj EXCEPT ![s] = ObjectClosed(@)]
    /\ kernel' = KernelClosed(obj[s].m_fd)
    /\ Ends(s, IF obj[s].m_nonblocking THEN "closed" ELSE "error")
    /\ moved' = moved \ {s} /\ unsettled' = unsettled \ {s}

(* recv() on a reset connection, or either on one that never was: the      *)
(* object stays connected.                                                 *)
TransferFails(s) ==
    /\ Transfers(s) /\ Conn(s) \in {"reset", "new", "failed", "listening"}
    /\ Ends(s, "error")
    /\ UNCHANGED <<obj, kernel, moved, unsettled>>

-----------------------------------------------------------------------------
(* The network. *)
NetworkStep(f, from, to, err) ==
    /\ kernel[f].conn = from
    /\ kernel' = [kernel EXCEPT ![f].conn = to, ![f].so_error = err]
    /\ UNCHANGED <<obj, result, moved, unsettled>>

Network(f) ==
    \/ NetworkStep(f, "pending", "established", FALSE)
    \/ NetworkStep(f, "pending", "failed", TRUE)
    \/ NetworkStep(f, "established", "eof", FALSE)
    \/ NetworkStep(f, "established", "reset", TRUE)
    \/ NetworkStep(f, "eof", "reset", TRUE)

Next ==
    \/ \E s \in Objects :
        \/ Construct(s) \/ Close(s) \/ Destroy(s) \/ Listen(s)
        \/ \E flag \in BOOLEAN : SetNonblocking(s, flag)
        \/ Connect(s) \/ ConnectUnix(s)
        \/ ConnectAsyncStart(s) \/ ConnectAsyncAgain(s) \/ ConnectAsyncMoved(s)
        \/ TransferOk(s) \/ WouldBlock(s) \/ TransferCloses(s) \/ TransferFails(s)
        \/ \E t \in Objects : Move(s, t) \/ Accept(s, t)
    \/ \E f \in Fds : Network(f)

Spec == Init /\ [][Next]_vars

-----------------------------------------------------------------------------
Owners(f) == {s \in Objects : Alive(s) /\ obj[s].m_fd = f}

(* Every open descriptor belongs to exactly one living object and every    *)
(* object's descriptor is open: nothing is leaked, closed twice or closed  *)
(* under another object that was given the same number.                    *)
OneOwner ==
    \A f \in Fds :
        /\ \A s, t \in Owners(f) : s = t
        /\ (kernel[f].conn # "closed") <=> (Owners(f) # {})

(* A caller sees "try again" (-2, -3) exactly on descriptors that the      *)
(* kernel treats as non-blocking, and the timeout exception on the others. *)
(* On a descriptor that accept() returned non-blocking the exception comes *)
(* at once, until the mode is set.  An object that was moved from speaks   *)
(* for itself again after close().                                         *)
BlockingModeHonoured ==
    \A s \in Objects \ moved : obj[s].m_fd # NoFd =>
        /\ result[s] = "again" => kernel[obj[s].m_fd].nonblock
        /\ result[s] = "timeout" =>
                ~kernel[obj[s].m_fd].nonblock \/ kernel[obj[s].m_fd].inherited

(* An object that owns a descriptor and says it is connected has had a     *)
(* connection on it, unless SO_ERROR was asked when the kernel was still   *)
(* trying, was not even trying, or had already reported its error.         *)
ConnectedIsReal ==
    \A s \in Objects \ (moved \cup unsettled) :
        (obj[s].m_fd # NoFd /\ obj[s].m_state = "connected")
            => kernel[obj[s].m_fd].conn \in {"established", "eof", "reset"}
=============================================================================
