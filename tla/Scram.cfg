CONSTANTS
    B = 3
    D = 2
    Sha <- MCSha
    Ipad <- MCIpad
    Opad <- MCOpad
    Passwords <- MCPasswords
    Challenges <- MCChallenges
    Lengths = {0, 2, 5}
    Dirt <- MCDirt
    JUNK <- MCJUNK
    Strays <- MCStrays
    ClientKeyText <- MCClientKeyText
    clientInit <- MCclientInit
    clientFinalBare <- MCclientFinalBare
SPECIFICATION Spec
INVARIANTS DerivedKey ProofVerifies
