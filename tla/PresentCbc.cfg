CONSTANTS
    S <- MCS
    invS <- MCInvS
    P <- MCP
    Texts <- MCTexts
    Keys <- MCKeys
SPECIFICATION Spec
INVARIANTS TypeOK OneRegister Retraced Survives
