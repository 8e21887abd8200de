CONSTANTS
    Mechanisms <- MCMechanisms
    Supported <- MCMechanisms
    OneStep <- MCOneStep
    Insecure <- MCInsecure
    Disabled <- MCDisabled
    SecureAuthOnly = FALSE
    Users = {"killua"}
    BadNames = {}
    None = None
    MaxChallenges = 2
    Methods = {"present"}
    MaxFilters = 2
    user = "killua"
    scram = "SCRAM"
SPECIFICATION ClientSpec
INVARIANTS ProceedEnciphers
