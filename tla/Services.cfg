SPECIFICATION MCSpec
CONSTANTS
    Items = {1, 2, 3}
    Special = {3}
    Seed = {1}
    Records = {1, 2}
    Limits = {0, 3}
    DefaultMax = 2
    RetryEvery = 2
    RetryDivisor = 2
    SpecialDivisor = 3
    Workers = 2
    Changes = {}
    MaxDisturb = 1
    MaxFaults = 1
    MaxRestarts = 1
    Uid = {1, 2}
    Req = {1, 2}
    Kinds = {"online", "delete", "cleanup", "create"}
    ListMax = 2
    MaxReqs = 2
    Env = {"aged", "broken", "operator"}
    Charac = {1, 2}
    MaxMails <- Letters
    Limit = 2
    MaxPending = 1
    MaxPerPoll = 1
    Viewer = {"diag"}
    MaxLooks = 2
    MaxReleases = 1
    Patch = "party"
    Ranges = {1}
    DisableAfter = 1
    MaxEdits = 1
    MaxKills = 1
    MaxConns = 3
    Addr = {1, 2}
    IpOf <- Ips
    Loopback = {1, 2}
    MaxClients = 2
    MaxPendingIP = 1
    MaxTokens = 1
    Requests = {"unlock", "delete"}
    Service = {1, 2}
    MaxScripts = 3
    Channel = {1, 2, 3}
    Writer = {1}
    Value = {1, 2}
    Reader = {1, 2}
    Launcher = {1}
    MaxVersions = 2
    Keep = 2
    Attempts = 2
    MaxOps = 3
    Ini = {"1", "malformed"}
    File = {"script", "pvf"}
    Count = 3
    MaxVendor = 4
    Odd = {2}
    Patcher = {"loop"}
    Sites = {1, 2, 3}
CHECK_DEADLOCK FALSE
INVARIANTS
    QueuesKeepAll RobotsWhole ManagerSafe ConnectionsAccounted FilesRecoverable LogsWhole
    AllOrNothing StatusIsCurrent PassedIsKept BranchHasRoutine
PROPERTIES
    StableRetryRounds DeletesSafe SuccessIsTrue
