CONSTANTS
    Slots = 2
    Image <- MCImage
    Factory <- MCFactory
    Builds <- MCBuilds
    Refreshes = TRUE
    Blank = Blank
    Half = Half
    Torn = Torn
    Nowhere = Nowhere
    MaxFaults = 2
SPECIFICATION Spec
CONSTRAINT Unharmed
INVARIANT BootsVerified
PROPERTIES TrialOnce StoreAtomic
