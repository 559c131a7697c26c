SPECIFICATION EnumReturnSpec
INVARIANTS ValuesIntact
CHECK_DEADLOCK FALSE
