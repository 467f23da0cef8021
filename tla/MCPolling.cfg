SPECIFICATION PollingSpec
CONSTANTS
    Workers = {w1, w2}
    MaxLoop = 5
    JobTimeout = 7
    StaleAge = 10
    HeartbeatTtl = 2
    PassBound = 4
    MaxQueueWait = 4
    Idle = Idle
    Checks = 1
    MaxOpen = 2
    pve = pve
    pbs = pbs
    Servers = {pve, pbs}
    Pbs = {pbs}
    Guests = {}
    Stores = {}
    HostOf <- NoItems
    HostLevels = {"low", "crit"}
    NoServer = NoServer
INVARIANTS AtMostOnePoller DeletesOnlyDeadJobs HostIncidentsAreCurrent
PROPERTIES KeepsPolling StopsWhenDisabled DisabledAlertsClose
