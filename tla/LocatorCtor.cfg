SPECIFICATION Spec
INVARIANT LocatorOrError
CHECK_DEADLOCK FALSE
