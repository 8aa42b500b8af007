SPECIFICATION Spec
CONSTANTS
    Rule <- MCRule
    Node = {"start", "request", "check", "approve"}
    Activity = {"request", "approve"}
    MaxTime = 10
    Proc = {p1, p2}
    OrgChanges <- MCOrgChanges
    LocalChanges <- MCLocalChanges
    Edits <- MCEdits
    MaxChanges = 2
    StartSchemas <- MCSchemas
    StartOrg <- MCOrg
    Flow <- MCFlow
    Away = {"ben"}
    Logins = {"ann", "ben"}
    Overseers = {"ann"}
    Timer = {t1, t2}
    MaxRounds = 2
SYMMETRY Interchangeable
CHECK_DEADLOCK FALSE
INVARIANTS
    EveryoneReachable
    UnstaffedIsReported
    StagesFiredOnce
PROPERTIES
    FourEyesKept
    OrgChangeKeepsReferencing
