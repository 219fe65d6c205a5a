SPECIFICATION Spec
INVARIANT ChecksumIsByteSum
CHECK_DEADLOCK FALSE
