SPECIFICATION FairSpec
CONSTANTS
    Protocols = {"cdp", "dap", "jdwp"}
    MaxSteps = 5
    MaxStops = 10
INVARIANTS
    HitsInOrder
    

    
