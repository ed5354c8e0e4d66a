SPECIFICATION FairSpec
CONSTANTS
    demo_app = demo_app
    demo_new_app = demo_new_app
    sys_img = sys_img
    demo = demo
    v1 = v1
    v2 = v2
    v3 = v3
    i1 = i1
    so = so
    res = res
    None = None
    NoDir = NoDir
    Torn = Torn
    Package = {demo_app, demo_new_app}
    SysImg = sys_img
    App = {demo}
    Stem <- Stems
    Release = {v1, v2, v3, i1}
    NameOf <- Names
    Files <- Archives
    InPlace = TRUE
    IoFails = TRUE
    MaxCrash = 1
INVARIANTS
    TypeOK
    LatestKept
    InstalledWhole
    MixedOnlyAfterCrash
    ImageStarted
PROPERTIES
    EveryAppArrives
