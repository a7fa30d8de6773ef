CONSTANTS
    Nil = Nil
    Full = Full
    str = str
    o1 = o1
    a1 = a1
    Ints <- MCInts
    Names = {str}
    Objects = {o1}
    Vals = {a1}
    Hash <- MCHash
    MaxInt = 3
    Growth <- MCGrowth
SPECIFICATION Spec
INVARIANTS
    TypeOK
    BrentInvariant
    GrowthSuffices
    LengthIsBorder
PROPERTIES
    IsDictionary
