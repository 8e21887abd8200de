CONSTANTS
    Mechanisms <- MCMechanisms
    Supported <- MCMechanisms
    OneStep <- MCOneStep
    Insecure <- MCInsecure
    Disabled <- MCDisabled
    SecureAuthOnly = FALSE
    Users = {killua}
    BadNames = {}
    None = None
    MaxChallenges = 2
    Layers <- MCLayers
    MaxLayers = 2
SPECIFICATION SessionSpec
\* a closed session does nothing more
CHECK_DEADLOCK FALSE
INVARIANTS LayerTypeOK SecureMeansEnciphered
PROPERTIES LoginUnderCipher AdvertisedIsAvailable ImplementsSaslAuth
