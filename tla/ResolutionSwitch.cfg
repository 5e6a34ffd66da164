SPECIFICATION Spec
CONSTANTS
    Res = {qvga, vga}
    Qvga = qvga
    Mixed = mixed
    None = none
INVARIANTS
    TypeOK
    SwitchForcesWarmup
    FrameFits
    StopSuffices
