CONSTANTS Resources = {"pf", "tier"}  Aggregated = {"pf"}  TopologyAware = {"tier"}
    Calm = {"hotplug", "notify", "shutdown", "connect", "restart", "refuse"}
    MaxHotplugs = 2  MaxKubeletRestarts = 1  MaxNotifies = 2  MaxEvents = 3
SPECIFICATION Spec
INVARIANTS LifecycleTypeOK OneServerPerSocket NoPanic
PROPERTIES StreamsComeBack HotplugCompletes ShutdownCompletes NotifyReturns
CHECK_DEADLOCK FALSE
