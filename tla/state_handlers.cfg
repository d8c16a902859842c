SPECIFICATION Spec
INVARIANT SetupRunsBeforeTeardown
CHECK_DEADLOCK FALSE
