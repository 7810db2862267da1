CONSTANTS
    c1 = c1  c2 = c2  c3 = c3
    Cores <- MCCores
SPECIFICATION RuntimeSpec
INVARIANTS Inv GuardInv NotAllWait
PROPERTIES ImplementsOnceInit SpinnersProceed
