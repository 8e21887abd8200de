\* c2s_require_encryption = true: nothing is offered before a layer is up
CONSTANTS
    Mechanisms <- MCMechanisms
    Supported <- MCSupported
    OneStep <- MCOneStep
    Insecure <- MCInsecure
    Disabled <- MCDisabled
    SecureAuthOnly = TRUE
    Users = {killua, gon, ghost}
    BadNames = {ghost}
    None = None
    MaxChallenges = 3
SPECIFICATION Spec
\* a closed session does nothing more
CHECK_DEADLOCK FALSE
INVARIANTS TypeOK ExchangeAgreed OfferIsHonest SelectedIsPermitted
PROPERTIES AuthenticatedByProof IdentityFixed BoundAfterRestart
