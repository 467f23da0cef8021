SPECIFICATION GuestsSpec
CONSTANTS
    Checks = 2
    MaxOpen = 2
    pve = pve
    vm = vm
    Servers = {pve}
    Pbs = {}
    Guests = {vm}
    Stores = {}
    HostOf <- OneGuest
    HostLevels = {"low"}
    NoServer = NoServer
    Vmids = {1, 2}
    Shared = {2}
    Zones = {2, 5}
    TaskLimit = 1
    MaxTasks = 2
    MaxClock = 4
INVARIANTS TypeOK FlaggedWhenConfirmed SyncAnnouncesProblems RecoveriesArePaired
           HistoryIsExact FinishedBackupsAreRecorded
