SPECIFICATION Spec
CONSTANTS
    Orders = {o1, o2}
    Items = {i1, i2}
    Users = {u1, u2}
    Articles = {a1}
    Periods = {p1, p2}
    Prices = {0, 2, 3}
    TransportCosts = {0, 3}
    InexactTotals = {5, 6}
    NULL = NULL
SYMMETRY MCSymmetry
PROPERTY
    PeriodPaymentIncludesTransport
