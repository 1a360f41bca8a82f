----------------------------- MODULE Utilities -----------------------------
(***************************************************************************)
(* The small parts of the library, which share no state: a behaviour is    *)
(* one of the buffers, of the text conversions, of the address parser, of  *)
(* the restart loop or of the spin lock, and the others stay as they were. *)
(***************************************************************************)
EXTENDS Buffer, Text, Ipv4, Daemon, SpinLock

VARIABLE utility     \* the part in use

utilityVars == <<vars, textVars, ipVars, daemonVars, lockVars, utility>>

UtilitiesInit ==
    /\ Init /\ TextInit /\ Ipv4Init /\ DaemonInit /\ LockInit
    /\ utility \in {"buffer", "text", "ipv4", "daemon", "spin_lock"}
    /\ utility # "daemon" => parent = "forking"

Only(name, step, others) == utility = name /\ step /\ UNCHANGED <<others, utility>>

UtilitiesNext ==
    \/ Only("buffer", Next, <<textVars, ipVars, daemonVars, lockVars>>)
    \/ Only("text", TextNext, <<vars, ipVars, daemonVars, lockVars>>)
    \/ Only("ipv4", Ipv4Next, <<vars, textVars, daemonVars, lockVars>>)
    \/ Only("daemon", DaemonNext, <<vars, textVars, ipVars, lockVars>>)
    \/ Only("spin_lock", LockNext, <<vars, textVars, ipVars, daemonVars>>)

(* The constructor runs on; so does the process inside the restart loop.   *)
UtilitiesSpec ==
    /\ UtilitiesInit /\ [][UtilitiesNext]_utilityVars
    /\ WF_utilityVars(Only("ipv4", Ipv4Next, <<vars, textVars, daemonVars, lockVars>>))
    /\ WF_utilityVars(Only("daemon", ParentStep, <<vars, textVars, ipVars, lockVars>>))

(* The constructor from a string (ip.cpp) comes to an end for every string *)
(* that is shorter than the range of its index, with the octets of an      *)
(* address or by throwing on anything else; a longer string may be read    *)
(* over and over.                                                          *)
Ipv4IsParsed ==
    (utility = "ipv4") ~> (RightVerdict \/ Len(string) = IndexRange)
=============================================================================
