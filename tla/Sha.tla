-------------------------------- MODULE Sha --------------------------------
(***************************************************************************)
(* An object of class ez::sha1 or ez::sha2_256 in use: the program calls   *)
(* update(), complete(), calculate() and reset() in any order.             *)
(***************************************************************************)
EXTENDS BlockHash

CONSTANTS MaxUpdate,    \* bound: bytes in one update()
          MaxMessage    \* bound: bytes between two reset()s

ASSUME UpdateAssumption == MaxUpdate \in Nat

VARIABLES
    hash,       \* sha1::impl, sha2_256::impl
    shaMessage, \* what update() was given since the last reset()
    shaPhase    \* "open", "complete" or "stale": used again after complete()
                \* without a reset()

shaVars == <<hash, shaMessage, shaPhase>>

Data == UNION {[1..n -> {<<"data", b, 0>> : b \in Bytes}] : n \in 0..MaxUpdate}

ShaInit == hash = NewHash /\ shaMessage = <<>> /\ shaPhase = "open"

ShaAgain == IF shaPhase = "open" THEN "open" ELSE "stale"

ShaUpdate(data) ==
    /\ Len(shaMessage) + Len(data) <= MaxMessage
    /\ hash' = Update(hash, data)
    /\ shaMessage' = shaMessage \o data
    /\ shaPhase' = ShaAgain

(* Bound: an object that is stale already is not completed again. *)
ShaComplete ==
    /\ shaPhase # "stale"
    /\ hash' = Complete(hash)
    /\ shaPhase' = IF shaPhase = "open" THEN "complete" ELSE "stale"
    /\ UNCHANGED shaMessage

(* calculate() is update() and complete(): it does not reset. *)
ShaCalculate(data) ==
    /\ shaPhase # "stale" /\ Len(shaMessage) + Len(data) <= MaxMessage
    /\ hash' = Complete(Update(hash, data))
    /\ shaMessage' = shaMessage \o data
    /\ shaPhase' = IF shaPhase = "open" THEN "complete" ELSE "stale"

ShaReset ==
    /\ hash' = ResetHash(hash)
    /\ shaMessage' = <<>>
    /\ shaPhase' = "open"

ShaNext ==
    \/ \E data \in Data : ShaUpdate(data) \/ ShaCalculate(data)
    \/ ShaComplete \/ ShaReset

-----------------------------------------------------------------------------
(* However the message is cut into update()s, and whatever the object was  *)
(* used for before the last reset(), complete() gives the digest of the    *)
(* whole message: every block boundary and every padding case.             *)
DigestIsOfMessage == shaPhase = "complete" => hash.digest = Digest(shaMessage)
=============================================================================
