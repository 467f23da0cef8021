SPECIFICATION Spec
CONSTANTS
    Checks = 2
    MaxOpen = 2
    pve = pve
    Servers = {pve}
    Pbs = {}
    Guests = {}
    Stores = {}
    HostOf <- NoItems
    HostLevels = {"low", "warn", "crit"}
    NoServer = NoServer
INVARIANTS OneRowPerResourceIncident
