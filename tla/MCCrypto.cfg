SPECIFICATION CryptoSpec
CONSTANTS
    Block = 4
    Field = 1
    Bytes = {0, 1}
    MaxMessage = 8
    MaxUpdate = 5
    DigestSize = 2
    KeySizes = {0, 3, 4, 5}
    MaxHmacKeys = 2
    MaxHmacMessage = 3
    ByteBits = 3
    LimbBytes = 2
    ClampedBits = 3
    MacKeys <- MCMacKeys
    MacChunks <- MCMacChunks
    MaxMacBytes = 16
    MaxMacKeys = 2
    StreamBlock = 2
    CounterSize = 3
    CipherKeys = {"a", "b"}
    Ivs <- MCIvs
    RoundCounts = {8, 13}
    CryptSizes = {1, 3}
    MaxSettings = 4
    MaxDrawn = 8
    MacPad = 2
    TagSize = 2
    TagSizes = {0, 1, 2, 3}
    Damaged <- MCDamaged
    TextSizes = {1, 2}
    AadSizes = {0, 1}
    MaxPackets = 3
    MaxOpens = 3
INVARIANTS
    DigestIsOfMessage ResultIsHmac TagIsPoly1305 StreamIsOfIv NoByteTwice
     OpensInStep
CHECK_DEADLOCK FALSE
