------------------------------ MODULE Channels ------------------------------
(***************************************************************************)
(* The two classes that are channels: a program of sockets, or a client    *)
(* and a server of ez::tls over some channel.  They share no state.        *)
(***************************************************************************)
EXTENDS Socket, Tls

VARIABLE channel    \* the class in use

channelsVars == <<vars, tlsVars, channel>>

ChannelsInit ==
    /\ channel \in {"socket", "tls"}
    /\ Init /\ TlsInit
    /\ channel = "socket" => nonblocking = [side \in Sides |-> FALSE]

SocketsStep == channel = "socket" /\ Next /\ UNCHANGED <<tlsVars, channel>>
TlsSideStep(side) == channel = "tls" /\ TlsStep(side) /\ UNCHANGED <<vars, channel>>

ChannelsNext == SocketsStep \/ \E side \in Sides : TlsSideStep(side)

(* Both applications of a TLS connection go on calling, and a call that    *)
(* can go on does.                                                         *)
ChannelsSpec ==
    ChannelsInit /\ [][ChannelsNext]_channelsVars
        /\ \A side \in Sides : WF_channelsVars(TlsSideStep(side))

(* The handshake ends and all the data of the client is received, through  *)
(* every would-block result of the channel and every call that comes too   *)
(* early.                                                                  *)
TlsDelivers == (channel = "tls") ~> (Len(received) = TlsData)
=============================================================================
