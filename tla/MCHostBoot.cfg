\* The host directory and the gateway process, from the scripts to the plugins.
CONSTANTS
    Targets <- MCTargets
    Versions = {"beta.5", "6.1"}
    Pinned = "beta.5"
    Plugins = {"claw", "other"}
    Self = "claw"
    Nobody = "nobody"
    Order <- MCOrder
    Calls <- MCCalls
    Configs <- MCConfigs
    MaxLoads = 2
SPECIFICATION BootSpec
INVARIANT BootTypeOK
INVARIANT OriginalsRecoverable
INVARIANT TablesMatchActive
INVARIANT HostAsAdvised
