SPECIFICATION NestedIfSpec
INVARIANTS RunsAsWritten
CHECK_DEADLOCK FALSE
