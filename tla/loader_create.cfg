\* The two VFS tools on the kernels of older enterprise distributions, as the code
\* selects its programs there. The process exits, so the model may stop.
CONSTANTS
    Tools = {"iosnoop", "ioslower"}
    Kernels <- OldKernels
    Lines <- AllLines
    MaxCommands = 3
    MaxErrors = 2
    KnownErrors = {5, 7}
    Errors = {0, 5, 7}
    MaxSignals = 0
SPECIFICATION Spec
CHECK_DEADLOCK FALSE
INVARIANTS LegacyAbiCompatible
