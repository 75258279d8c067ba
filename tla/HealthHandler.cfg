CONSTANTS p = p  v = v  s = s
    Devices = {p, v, s}  Pfs = {p}  Vfs = {v, s}
    NoPf = NoPf  NoTopo = NoTopo
    PfOf <- MCPfOf  Reports <- MCReports  Original <- MCOriginal
    Attentive = TRUE  MaxChanges = 2  MaxMishaps = 1
SPECIFICATION Spec
INVARIANTS HandlerTypeOK NoLostWakeUp StatusMatchesSpec
PROPERTIES NodeStateConverges TopologyExcludesBroken HotplugOffered
CHECK_DEADLOCK FALSE
