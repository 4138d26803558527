SPECIFICATION RegistrySpec
CONSTANTS
    Names = {"a", "b", "c"}
    FreshOwners = {}
    NoOwner = NoOwner
    MaxDiscoveries = 4
    MaxCorrections = 1
    MaxRegistryFaults = 0
PROPERTIES NoAutomaticRebinding
CHECK_DEADLOCK FALSE
