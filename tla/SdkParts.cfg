SPECIFICATION SdkSpec
CONSTANTS
    Tasks = {k1}
    Tabs = {a, b}
    Home = a
    Targets = {a, b}
    PageMoves = TRUE
    None = None
    MaxDoc = 1
    MaxControllers = 2
    MaxClients = 2
    MaxPages = 2
    Instances = {i1}
    Users = {u1, u2}
    Ids = {c1, c2, c3, c4}
    Nil = Nil
    Callers = {p1, p2}
    t1 = t1
    t2 = t2
    f1 = f1
    TargetIds = {t1, t2}
    FrameIds = {f1}
    FrameOf <- MCFrameOf
    Nobody = Nobody
    MaxCalls = 3
    MaxMoves = 1
    MaxSurprises = 1
    Starters = {s1, s2}
    LaunchSets <- MCLaunchSets
    Unset = Unset
    Threads = {r1, r2}
    Names = {n1, n2}
    Controllers = {b1, b2, b3}
    Absent = Absent
    h1 = h1
    h2 = h2
    h3 = h3
    Hosts = {h1, h2, h3}
    Below <- MCBelow
    Allowlists <- MCAllowlists
    NoHost = NoHost
SYMMETRY MCSymmetry
INVARIANTS
    SdkTypeOK CacheFollowsActiveTab HandlesExpire ClientsReleased
    StagesRunInOrder ErrorsAreTranslated LateFailuresAreStaged
    RefHitsItsSnapshot AnswersNameTheirTarget KnownIsCurrent
    ChromeBeforeLaunch ContainedStartsClean LaunchedIsKnown
    OpenIsReachable
    PassedIsAllowed
PROPERTIES
    EvidenceFromOneDocument NavigationsFindBrowser
CHECK_DEADLOCK FALSE
