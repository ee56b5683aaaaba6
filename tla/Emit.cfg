CONSTANT MaxSent = 10
SPECIFICATION Spec
CHECK_DEADLOCK FALSE
PROPERTIES
    Implements
