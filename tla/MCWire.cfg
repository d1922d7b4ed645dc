SPECIFICATION WireFairSpec
CONSTANTS
    Kinds = {"publisher", "proxied", "direct", "browser"}
    MaxFrames = 3
    MaxPayload = 2
    MaxFirst = 1
    MaxTears = 2
    MaxLost = 2
    MaxExtras = 2
    MaxWsFrames = 2
INVARIANTS Undamaged DamageConfined PaddingInverse
PROPERTY AllDecoded
CHECK_DEADLOCK FALSE
