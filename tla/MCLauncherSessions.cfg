SPECIFICATION Spec
CONSTANTS
    l1 = l1
    l2 = l2
    p1 = p1
    c1 = c1
    c2 = c2
    c3 = c3
    workspace = workspace
    global = global
    Launchers <- MCLaunchers
    Pids <- MCPids
    Dirs <- MCDirs
    Clients <- MCClients
    Foreign <- MCForeign
    Visible <- MCVisible
    Nobody = Nobody
    Other = Other
INVARIANTS
    TypeOK
    NothingLeftBehind
PROPERTIES
    LivingSessionsAreKept
    LeftFilesStayDiscoverable
