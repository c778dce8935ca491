SPECIFICATION FairSpec
CONSTANTS
    SPs <- MCSPs
    Pids = {11}
    SessionNumbers <- MCNumbers
    MaxPolls = 2
    HasProtoReset = FALSE
    TpAdminRevert = TRUE
INVARIANT SessionAgreement
PROPERTIES OperationEnds CloseEnds
