SPECIFICATION Spec
CONSTANTS
    app = app
    svc = svc
    svc2 = svc2
    fw = fw
    demo = demo
    location = location
    power = power
    appName = appName
    svcName = svcName
    fwName = fwName
    Proc = {app, fw}
    Module = {demo, location, power}
    Name = {appName, fwName}
    NameOf <- FwNameOf
    Load <- FwLoad
    Provider <- FwProvider
    Caller = {app}
    MaxCalls = 2
    MayTimeout = FALSE
    MayCrash = FALSE
    None = None
CHECK_DEADLOCK FALSE
INVARIANT
    NoForgottenCaller
