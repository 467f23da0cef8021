SPECIFICATION EitherSpec
CONSTANTS
    Checks = 1
    MaxOpen = 2
    Hosts = {erp}
    Benches = {erp}
    None = None
    Kumas = {k1, k2}
    MaxMonitors = 2
    MaxRequests = 1
    Nowhere = Nowhere
INVARIANTS RecoveriesArePaired
PROPERTIES SilentIsAnnounced OrphansAreAdopted InstancesCatchUp
