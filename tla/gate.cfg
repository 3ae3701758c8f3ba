SPECIFICATION FairSpec
CONSTANTS
    f1 = f1
    f2 = f2
    f3 = f3
    Fd = {f1, f2, f3}
    RegisterMayFail = TRUE
INVARIANTS OpResourcesBehindGate IrqResources ContextPinned
PROPERTY TeardownCompletes
