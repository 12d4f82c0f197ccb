CONSTANT MaxRunlists = 6
SPECIFICATION Spec
INVARIANTS TypeOK SuccessOwnsAll FreesWhatItMade FaultOnlyAfterLateThrow
\* the call ends
CHECK_DEADLOCK FALSE
