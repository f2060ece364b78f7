CONSTANTS
    MaxChanges = 1
SPECIFICATION Spec
INVARIANTS TypeOK RegistryReachable ProxyReaches LockdownCloses StaysOffline NeverOpen
