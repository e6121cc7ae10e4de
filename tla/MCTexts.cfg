SPECIFICATION Spec
CONSTANT Table <- MCTable
CHECK_DEADLOCK FALSE
INVARIANTS Honest HelperIn
PROPERTIES Settled
