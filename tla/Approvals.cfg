SPECIFICATION MCSpec
CONSTANTS
    r1 = r1
    r2 = r2
    r3 = r3
    r4 = r4
    x1 = x1
    x2 = x2
    exec = exec
    create = create
    run = run
    web = web
    Request = {r1, r2, r3, r4}
    Context = {x1, x2}
    ContextOf <- Contexts
    Granted = {}
    HasPassphrase = FALSE
    Attempts = 1
    Keep = 1
    MaxTime = 1
    MaxPauses = 0
    Call = {exec, create, run}
    Host = {web}
    KindOf <- Kinds
    HostOf <- Hosts
    EarlyLimit = 4
    MaxSettings = 2
    MaxChanges = 1
INVARIANTS CallsHonoured
PROPERTIES ConsentHonoured RequestsAnswered
CHECK_DEADLOCK FALSE
