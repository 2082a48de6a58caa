\* Five objects and three environments.
CONSTANTS
    Objects <- MCObjects
    EnvPorts <- MCEnvPorts
    IntHalf <- MCIntHalf
SPECIFICATION Spec
INVARIANTS TypeOK StoredLoads ShownIsRunning 
