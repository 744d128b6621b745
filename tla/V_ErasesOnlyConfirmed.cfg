SPECIFICATION Spec
CONSTANTS
    Disks = {sd, usb}
    sd = sd
    usb = usb
    None = none
    none = none
    Installs <- MCInstalls
    MaxLoops = 3
    MaxRuns = 2
INVARIANT ErasesOnlyConfirmed
CHECK_DEADLOCK FALSE
