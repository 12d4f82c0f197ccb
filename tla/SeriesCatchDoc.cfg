CONSTANT MaxRunlists = 3
SPECIFICATION Spec
INVARIANT CatchFreesOnce
\* the call ends
CHECK_DEADLOCK FALSE
