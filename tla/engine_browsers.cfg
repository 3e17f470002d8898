SPECIFICATION Spec
CONSTANTS
    s1 = s1
    s2 = s2
    l1 = l1
    l2 = l2
    l3 = l3
    Shops = {s1, s2}
    Loops = {l1, l2, l3}
    Commands = commands
    ShopOf <- ShopOfLoops
    MaxBrowsers = 2
    MaxOpening = 1
INVARIANTS
    BrowsersAreReachable
    OneBrowserPerProfile
    RegisteredBrowsersRun
    OnlyLateClosesDisplace
    PermitsAddUp
SYMMETRY Alike
CHECK_DEADLOCK FALSE
