SPECIFICATION FairSpec
CONSTANTS
    MaxAttempts = 2
    Providers = {"docker", "firecracker"}
INVARIANTS
    LeakExplained
PROPERTIES
    Released
