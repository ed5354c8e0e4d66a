SPECIFICATION FairSpec
CONSTANTS
    app = app
    svc = svc
    svc2 = svc2
    fw = fw
    demo = demo
    location = location
    power = power
    appName = appName
    svcName = svcName
    fwName = fwName
    Proc = {app, svc, svc2}
    Module = {demo, location}
    Name = {appName, svcName}
    NameOf <- SvcNameOf
    Load <- SvcLoad
    Provider <- SvcProvider
    Caller = {app}
    MaxCalls = 3
    MayTimeout = TRUE
    MayCrash = TRUE
    None = None
CHECK_DEADLOCK FALSE
INVARIANTS
    OkMeansRun
    LoneServer
    RunsAtMostOnce
    RunsInOrder
    NoForgottenCaller
PROPERTIES
    CallSpec
    Answered
    ServiceSettles
