\* A second failed send leaves the connection in use.
SPECIFICATION Spec
CONSTANT MaxMessages = 2
CHECK_DEADLOCK FALSE
INVARIANT PartialMessageEndsStream
