CONSTANTS Resources = {"pf", "tier"}  Aggregated = {"pf"}  TopologyAware = {"tier"}
    Calm = {"hotplug", "shutdown", "connect", "restart", "refuse"}
    MaxHotplugs = 1  MaxKubeletRestarts = 0  MaxNotifies = 1  MaxEvents = 3
SPECIFICATION Spec
PROPERTIES NotifyReturns
CHECK_DEADLOCK FALSE
