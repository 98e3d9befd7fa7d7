SPECIFICATION Spec
CONSTANTS
    a = a
    b = b
    c = c
    Keys = {a, b, c}
    Vals = {1, 2}
    Hash <- CollidingHash
    MinSize = 2
    BigSize = 4
    Defaults = {dflt}
    dflt = dflt
    Null = Null
    Dummy = Dummy
    Sizes = {2, 8, 16}
    MaxFill = 6
    MaxMissing = 2
CHECK_DEADLOCK FALSE
INVARIANT NoHangWithoutDelete
PROPERTY MapSpec
PROPERTY NoNestedResize
