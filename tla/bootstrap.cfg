SPECIFICATION MCSpec
CONSTANTS
    r1 = r1  r2 = r2
    c1 = c1  c2 = c2
    demo = demo  other = other
    NoOne = NoOne
    Runs = {r1, r2}
    Clients = {c1, c2}
    Emails = {demo, other}
    Demo = demo
    MaxAddresses = 2
    MaxPoints = 1
    MaxInterrupts = 2
    MaxDowngrades = 1
INVARIANTS
    TypeOK
    VersionIsTrue
    NothingLeftOver
    SeedFindsSchema
    OneCreator
    AccountIsTheirs
    PointsAreExact
    OneDefault
    OneHome
PROPERTIES
    AuditIsKept
    UpgradeReachesHead
CHECK_DEADLOCK FALSE
