SPECIFICATION Spec
CONSTANTS
    Checks = 1
    MaxOpen = 2
    east = east
    west = west
    Instances = {east, west}
    Switchable = {west}
    Docs = {1, 2}
    InstanceOf <- OneEach
    Window = 2
PROPERTIES RecoveryMeansUp
