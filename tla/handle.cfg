SPECIFICATION FairSpec
CONSTANTS
    g1 = g1
    g2 = g2
    g3 = g3
    None = None
    Procs <- MCProcs
    MaxItems = 2
INVARIANTS NoUseAfterClose ClosedForGood IInv
PROPERTIES ImplementsClosable MethodsReturn
