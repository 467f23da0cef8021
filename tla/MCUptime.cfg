SPECIFICATION FairSpec
CONSTANTS
    Checks = 1
    MaxOpen = 2
    east = east
    west = west
    Instances = {east, west}
    Switchable = {east, west}
    Docs = {1, 2}
    InstanceOf <- OneEach
    Window = 1
INVARIANTS IncidentTracksSite
PROPERTIES ReconcileAnnounces DownIsAnnounced
