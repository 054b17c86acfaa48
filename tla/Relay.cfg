\* Two clients, four connections: a client can come back while the other, or its
\* own last thread, has yet to report.
CONSTANTS
    Clients = {c1, c2}
    HasSplash = TRUE
    MaxAccepts = 4
    Nobody = Nobody
SPECIFICATION RelaySpec
INVARIANTS RelayTypeOK SerialInputFollows OneFeeder
PROPERTY IdleInputStops
CHECK_DEADLOCK FALSE
