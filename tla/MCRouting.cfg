CONSTANTS
    Model = {1, 2, 3}
    Refs <- MCRefs
    Modes = {"rules", "LOCAL_ONLY", "LOCAL_PREFERRED", "CLOUD_PREFERRED", "CLOUD_ONLY"}
    Contents = {{}, {"confidential"}}
    AllowInternalCloud = FALSE
    None = None
SPECIFICATION RSpec
INVARIANTS
    PrivacyKept
    NothingPaid
    LocalIsFit
    PolicyKept
