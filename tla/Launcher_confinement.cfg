\* Every request, every machine, every packet.
SPECIFICATION Spec
INVARIANT NetNSIsConfined
CHECK_DEADLOCK FALSE
