SPECIFICATION Spec
INVARIANTS
  TokensTileText ParsedAsWritten ConstsAsWritten IndexSound ImageWired
   RunsAsWritten   ImageLinked
PROPERTIES EveryPassEnds
\* A pass stops at its end.
CHECK_DEADLOCK FALSE
