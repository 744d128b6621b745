SPECIFICATION Spec
CONSTANTS
    Disks = {sd, usb}
    sd = sd
    usb = usb
    None = none
    none = none
    Installs <- MCInstalls
    MaxLoops = 3
    MaxRuns = 3
INVARIANTS
    TypeOK
    FormatsTarget
    InstalledBoots
    
CHECK_DEADLOCK FALSE
