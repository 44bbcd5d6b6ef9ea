SPECIFICATION Spec
CONSTANT MaxDay = 2000
INVARIANT DateIsRight
CHECK_DEADLOCK FALSE
