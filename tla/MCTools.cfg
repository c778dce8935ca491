SPECIFICATION ToolsSpec
CONSTANTS
    msid = msid
    owner = owner
    other = other
    psid = psid
    PINs <- MCPINs
    MSID = msid
    PSID = psid
    Ranges = {0, 1}
    Accounts <- MCAccounts
    UserPINs = {"old", "new"}
    Names <- MCNames
    CommandLines <- MCCommands
    Word = 16
INVARIANTS WipedMeansErased RepeatOrDone FailureHasReason AdminDoneMeansDone
INVARIANTS LocksAsAsked RangesTruthful WipesOneRange
PROPERTY OwnPinOnly
