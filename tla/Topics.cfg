SPECIFICATION MCSpec
INVARIANTS FanInReliable NoWakeLost
PROPERTIES GapDeliverySound MessagesArrive
\* After the last publication every vCPU may be halted for good.
CHECK_DEADLOCK FALSE
