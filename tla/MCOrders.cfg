SPECIFICATION Spec
CONSTANTS
    Orders = {o1, o2}
    Items = {i1, i2}
    Users = {u1, u2}
    Articles = {a1, a2}
    Periods = {p1, p2}
    Prices = {0, 3}
    TransportCosts = {0, 3}
    InexactTotals = {6}
    NULL = NULL
SYMMETRY MCSymmetry
INVARIANTS
    TypeOK
    TotalIsItemSum
    PaidCoversLiveItems
    NoEmptyOrder
    ReferentialIntegrity
PROPERTIES
    NoOverpayment
    EditCapsPaid
CONSTRAINT MCBound
