SPECIFICATION Spec
CONSTANTS
    SPs <- MCSPs
    Pids <- MCPids
    SessionNumbers <- MCNumbers
    MaxPolls = 2
    HasProtoReset = TRUE
    TpAdminRevert = FALSE
INVARIANTS TypeOK ReplyMatchesCall SessionAgreement GettersTruthful
PROPERTIES BlankSlate KeepsPromise
