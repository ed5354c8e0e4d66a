SPECIFICATION Spec
CONSTANTS
    service = service
    framework = framework
    installer = installer
    location = location
    tracker = tracker
    Loader = {service, framework}
    Forks = {service}
    Module = {installer, location, tracker}
    Conf <- BothConf
    Missing = {tracker}
    Returns = {}
    MaxPid = 3
    MaxInitd = 2
    MaxLoader = 1
    EarlyLoader = TRUE
    MayTerm = TRUE
    MayCrash = TRUE
CHECK_DEADLOCK FALSE
INVARIANTS
    TypeOK
    LostOnlyInRace
    HolesAreUnfilled
    SweepThorough
