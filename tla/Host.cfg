SPECIFICATION HostSpec
CONSTANTS
    AppRequests = {r1, r2}
    TokenBound = 3
    OfferBound = 1
    CallIds = {q1, q2}
    ReplayWindow = 1
    SeenLimit = 1
    ClockBound = 2
    Sockets = {c1, c2, c3}
    Sessions = {s1}
    SocketLimit = 2
    FrameBound = 2
    MaxRestarts = 2
    Askers = {h1, h2}
    PromptIds = {p1, p2}
    ListLimit = 1
    CrashBound = 2
    Approvals = {a1}
    Jobs = {j1}
    Devices = {d1, d2}
    RestartBound = 1
    Server <- MCServer
    McpNames = {"m1", "m2"}
    OwnServers = {"m1"}
    McpCalls = {k1, k2}
    McpBound = 3
    Adders = {w1, w2}
    Setups = {u1, u2}
    Chats = {x}
    Figures = {0, 1, 2}
    DedupWindow = 1
    RetryDelay = 1
    TickBound = 1
    ReportBound = 2
    RecordBound = 3
    RunBound = 1
CHECK_DEADLOCK FALSE
INVARIANTS
    HostTypeOK
    RevocationSurvives
    ClientKeepsKey
    HandledOnce
    RouterMatchesSockets
    WindowIsGenuine
    OneHarness
    NothingLeftBehind
    PromptOnce
    BridgeFollowsHarness
    LoaderFollowsFile
    ListedIsReadable
    StopReachesAll
    TunnelIsKnown
    RecountIsLate
    DeliveredIsWritten
    TotalCoversReports
