SPECIFICATION Spec
CONSTANTS
    Order = o1
    User = u1
    Article = a1
    Items = {i1, i2}
    Handlers = {h1, h2}
    Prices = {1, 2}
    InexactTotals = {}
    NULL = NULL
SYMMETRY Symmetry
INVARIANT NoEmptyOrder
