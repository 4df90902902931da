SPECIFICATION Spec
CONSTANTS
    Orders = {o1}
    Items = {i1, i2}
    Users = {u1, u2}
    Articles = {a1}
    Periods = {p1, p2}
    Prices = {10, 20}
    TransportCosts = {0, 3}
    InexactTotals = {30}
    NULL = NULL
SYMMETRY MCSymmetry
PROPERTY
    EditKeepsFullPayment
