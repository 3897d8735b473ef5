\* All six loaders, on the kernels and with the command lines of MCLoader. The
\* process exits, so the model may stop.
CONSTANTS
    Tools = {"iosnoop", "ioslower", "smbslower", "nfsslower", "nfsiosnoop", "smbiosnoop"}
    Kernels <- AllKernels
    Lines <- AllLines
    MaxCommands = 3
    MaxErrors = 2
    KnownErrors = {5, 7}
    Errors = {0, 5, 7}
    MaxSignals = 2
SPECIFICATION Spec
CHECK_DEADLOCK FALSE
INVARIANTS TypeOK OneProgramPerHook ReadsRightArguments SelectionLoads FilterExact ExitStatusHonest
PROPERTIES SignalStops
