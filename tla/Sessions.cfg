SPECIFICATION MCSpec
CONSTANTS
    s1 = s1
    j1 = j1
    j2 = j2
    j3 = j3
    c1 = c1
    c2 = c2
    jump = jump
    web = web
    k1 = k1
    k3 = k3
    Conn = {c1, c2}
    Host = {jump, web}
    Key = {k1, k3}
    Chain <- ThroughJump
    KindOf <- TwoTypes
    Auth <- PasswordFirst
    Saved = {}
    Prompts = 2
    MaxForgets = 1
    Session = {s1}
    Job = {j1, j2, j3}
    Deployments = {j3}
    Stalled = {}
    MaxJobs = 1
    MaxSize = 2
    MaxAsks = 1
CHECK_DEADLOCK FALSE
INVARIANTS ShellHandled ConnectBounded
PROPERTIES EndingTold NobodyWaits PinsAreConfirmed
