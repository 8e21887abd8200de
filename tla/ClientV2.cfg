CONSTANTS
    Mechanisms <- MCMechanisms
    Supported <- MCMechanisms
    OneStep <- MCOneStep
    Insecure <- MCInsecure
    Disabled <- MCDisabled
    SecureAuthOnly = FALSE
    Users = {"killua"}
    BadNames = {}
    None = None
    MaxChallenges = 1
    Layers <- MCLayers
    MaxLayers = 1
    user = "killua"
    scram = "SCRAM"
    pls = "pls"
SPECIFICATION ClientSpec
INVARIANTS LayersInStep SuccessIsShared
PROPERTIES ScriptEnds PrintsSuccess
