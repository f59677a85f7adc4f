CONSTANTS
    Slots = 2
    Image <- MCImage
    Factory <- MCFactory
    Builds <- MCBuilds
    Refreshes = FALSE
    Blank = Blank
    Half = Half
    Torn = Torn
    Nowhere = Nowhere
    MaxFaults = 0
SPECIFICATION Spec
PROPERTY NoSelfErase
