CONSTANTS
    B = 4
    LenBytes = 2
    Word = 16
    Texts = {"password", "salt"}
    MaxFed = 18
    MaxChunk = 9
SPECIFICATION Spec
INVARIANTS TypeOK
PROPERTIES ImplementsDigest
