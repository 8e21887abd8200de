CONSTANTS
    Mechanisms <- MCMechanisms
    Supported <- MCMechanisms
    OneStep <- MCOneStep
    Insecure <- MCInsecure
    Disabled <- MCDisabled
    SecureAuthOnly = FALSE
    Users = {killua, gon}
    BadNames = {}
    None = None
    MaxChallenges = 2
    Methods = {"present", "zlib"}
    MaxFilters = 2
SPECIFICATION StreamSpec
\* a closed session does nothing more
CHECK_DEADLOCK FALSE
INVARIANTS PresentTypeOK FilteredIsBound
PROPERTIES StreamIsSasl
