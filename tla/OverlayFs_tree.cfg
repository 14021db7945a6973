CONSTANTS
    a = a  b = b  x = x  y = y
    None = None
    Names = {a, b}
    Depth = 2
    Data = {x}
    BaseFs <- MCBaseFs
    ReadOnly = {}
SPECIFICATION Spec
PROPERTIES TreeSound ImplementsFileTree
CHECK_DEADLOCK FALSE
