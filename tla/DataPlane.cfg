CONSTANTS
    SPI = {x1, x2, x3}
    MaxSA = 5
SPECIFICATION RegistrySpec
INVARIANT NewestReceives
INVARIANT TimersAccounted
PROPERTY GraceKept
PROPERTY Forgotten
CHECK_DEADLOCK FALSE
