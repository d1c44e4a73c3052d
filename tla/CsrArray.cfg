SPECIFICATION Spec
CONSTANTS
    MaxCount = 9
    ElementSizes = {1, 2, 4, 8}
CHECK_DEADLOCK FALSE
INVARIANT LeastSignificantFirst
