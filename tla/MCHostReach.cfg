SPECIFICATION Spec
CONSTANTS
    Checks = 2
    MaxOpen = 2
    Hosts = {erp, db}
    Benches = {}
    None = None
SYMMETRY Interchangeable
INVARIANTS OfflineIsAnnounced
PROPERTIES BastionIncidentIsConfirmed
