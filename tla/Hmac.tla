-------------------------------- MODULE Hmac --------------------------------
(***************************************************************************)
(* ez::hmac<HashType> (include/ez/hmac.hpp) over the hash of BlockHash.    *)
(* The key schedule lives in m_key, which set_key() and complete() change  *)
(* in place, and one hash object serves the key, the inner and the outer   *)
(* hash in turn.                                                           *)
(***************************************************************************)
EXTENDS BlockHash

CONSTANTS DigestSize,   \* digest_size
          KeySizes,     \* sizes of the keys the program uses
          MaxHmacKeys,  \* bound: calls of set_key()
          MaxHmacMessage \* bound: bytes under one key

ASSUME DigestAssumption ==
    DigestSize \in Nat /\ DigestSize < Block /\ KeySizes \subseteq Nat

VARIABLES
    m_hash, m_key, m_digest,
    hmacKey, hmacMessage,   \* the key last set and the data given since
    hmacPhase,      \* "none": no key yet, "keyed", "complete" or "spent":
                    \* used again after complete() without set_key()
    hmacDirty,      \* set_key() hashed a long key with an m_hash in use
    hmacSets        \* how often set_key() was called

hmacVars == <<m_hash, m_key, m_digest, hmacKey, hmacMessage, hmacPhase, hmacDirty, hmacSets>>

HmacKeys == {[k \in 1..n |-> <<"key", n, k>>] : n \in KeySizes}
DigestBytes(digest) == [k \in 1..DigestSize |-> <<"digest", digest, k>>]
FillUp(bytes) == bytes \o [k \in 1..(Block - Len(bytes)) |-> <<"0x00", 0, 0>>]
Xor(bytes, pad) == [k \in 1..Len(bytes) |-> <<pad, bytes[k], 0>>]

HmacInit ==
    /\ m_hash = NewHash
    /\ m_key = FillUp(<<>>) /\ m_digest = <<>>
    /\ hmacKey = <<>> /\ hmacMessage = <<>>
    /\ hmacPhase = "none" /\ hmacDirty = FALSE /\ hmacSets = 0

(* Mutant: the hash is not reset behind the key. *)
HmacSetKeyNoReset(k) ==
    /\ hmacSets < MaxHmacKeys /\ hmacSets' = hmacSets + 1
    /\ LET key0 == FillUp(IF Len(k) > Block
                          THEN DigestBytes(Complete(Update(m_hash, k)).digest) ELSE k)
       IN /\ m_key' = Xor(key0, "ipad")
          /\ m_hash' = Update(m_hash, m_key')
    /\ hmacKey' = k /\ hmacMessage' = <<>> /\ hmacPhase' = "keyed"
    /\ hmacDirty' = (Len(k) > Block /\ (m_hash.size # 0 \/ m_hash.digest # <<>>))
    /\ UNCHANGED m_digest

(* set_key(): a key longer than a block is replaced by its digest, for     *)
(* which m_hash is not reset.                                              *)
HmacSetKey(k) ==
    /\ hmacSets < MaxHmacKeys /\ hmacSets' = hmacSets + 1
    /\ LET long == Len(k) > Block
           used == IF long THEN Complete(Update(m_hash, k)) ELSE m_hash
           key0 == FillUp(IF long THEN DigestBytes(used.digest) ELSE k)
       IN /\ m_key' = Xor(key0, "ipad")
          /\ m_hash' = Update(ResetHash(used), m_key')
          /\ hmacDirty' = (long /\ (m_hash.size # 0 \/ m_hash.digest # <<>>))
    /\ hmacKey' = k /\ hmacMessage' = <<>> /\ hmacPhase' = "keyed"
    /\ UNCHANGED m_digest

HmacUpdate(b) ==
    /\ hmacPhase # "none" /\ Len(hmacMessage) < MaxHmacMessage
    /\ hmacMessage' = Append(hmacMessage, <<"data", b, 0>>)
    /\ m_hash' = Update(m_hash, <<<<"data", b, 0>>>>)
    /\ hmacPhase' = IF hmacPhase = "keyed" THEN "keyed" ELSE "spent"
    /\ UNCHANGED <<m_key, m_digest, hmacKey, hmacDirty, hmacSets>>

(* complete(): m_key ^= ipad ^ opad turns the inner key into the outer,    *)
(* and when it is called again the outer into the inner.  Bound: not a     *)
(* third time.                                                             *)
HmacComplete ==
    /\ hmacPhase \in {"keyed", "complete"}
    /\ LET inner == Complete(m_hash)
           outer_key == Xor([k \in 1..Block |-> m_key[k][2]],
                            IF m_key[1][1] = "ipad" THEN "opad" ELSE "ipad")
           outer == Complete(Update(Update(ResetHash(inner), outer_key),
                                    DigestBytes(inner.digest)))
       IN /\ m_hash' = outer
          /\ m_key' = outer_key
          /\ m_digest' = DigestBytes(outer.digest)
    /\ hmacPhase' = IF hmacPhase = "keyed" THEN "complete" ELSE "spent"
    /\ UNCHANGED <<hmacKey, hmacMessage, hmacDirty, hmacSets>>

HmacNext ==
    \/ \E k \in HmacKeys : HmacSetKey(k)
    \/ \E b \in Bytes : HmacUpdate(b)
    \/ HmacComplete

-----------------------------------------------------------------------------
(* The definition of HMAC. *)
Key0 == FillUp(IF Len(hmacKey) > Block THEN DigestBytes(Digest(hmacKey)) ELSE hmacKey)
HmacOf ==
    DigestBytes(Digest(Xor(Key0, "opad")
                       \o DigestBytes(Digest(Xor(Key0, "ipad") \o hmacMessage))))

(* complete() gives the HMAC of the data under the key last set, whatever  *)
(* the object was used for before set_key(), rightly or after a complete() *)
(* that left the outer key, unless a long key was set on an object that    *)
(* was in use.                                                             *)
ResultIsHmac == hmacPhase = "complete" /\ ~hmacDirty => m_digest = HmacOf
=============================================================================
