------------------------------- MODULE Crypto -------------------------------
(***************************************************************************)
(* The cryptographic classes, which share no state: a program uses the     *)
(* objects of one of them, and the others stay as they were.               *)
(***************************************************************************)
EXTENDS Sha, Hmac, Poly1305, ChaCha, Aead

VARIABLE class      \* the class in use

cryptoVars == <<shaVars, hmacVars, macVars, chachaVars, aeadVars, class>>

CryptoInit ==
    /\ ShaInit /\ HmacInit /\ MacInit /\ ChaChaInit /\ AeadInit
    /\ class \in {"sha", "hmac", "poly1305", "chacha20", "chacha20_poly1305"}

CryptoNext ==
    /\ \/ /\ class = "sha" /\ ShaNext
          /\ UNCHANGED <<hmacVars, macVars, chachaVars, aeadVars>>
       \/ /\ class = "hmac" /\ HmacNext
          /\ UNCHANGED <<shaVars, macVars, chachaVars, aeadVars>>
       \/ /\ class = "poly1305" /\ MacNext
          /\ UNCHANGED <<shaVars, hmacVars, chachaVars, aeadVars>>
       \/ /\ class = "chacha20" /\ ChaChaNext
          /\ UNCHANGED <<shaVars, hmacVars, macVars, aeadVars>>
       \/ /\ class = "chacha20_poly1305" /\ AeadNext
          /\ UNCHANGED <<shaVars, hmacVars, macVars, chachaVars>>
    /\ UNCHANGED class

CryptoSpec == CryptoInit /\ [][CryptoNext]_cryptoVars
=============================================================================
