SPECIFICATION FairSpec
CONSTANTS
    service = service
    framework = framework
    installer = installer
    location = location
    tracker = tracker
    Loader = {service}
    Forks = {service}
    Module = {installer, location}
    Conf <- BootConf
    Missing = {}
    Returns = {installer, location}
    MaxPid = 5
    MaxInitd = 1
    MaxLoader = 1
    EarlyLoader = FALSE
    MayTerm = FALSE
    MayCrash = FALSE
CHECK_DEADLOCK FALSE
PROPERTIES
    OneProcessPerModule
