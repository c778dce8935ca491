SPECIFICATION Spec
CONSTANTS
    SPs = {1}
    Pids = {11}
    SessionNumbers = {1}
    MaxPolls = 2
    HasProtoReset = TRUE
    TpAdminRevert = TRUE
INVARIANT AuthMeansActive
