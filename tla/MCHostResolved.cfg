SPECIFICATION FairSpec
CONSTANTS
    Checks = 2
    MaxOpen = 2
    Hosts = {erp}
    Benches = {}
    None = None
PROPERTIES AnsweringIsResolved
