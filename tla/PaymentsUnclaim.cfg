SPECIFICATION Spec
CONSTANTS
    Invoices = {i1, i2}
    Payments = {p1, p2, p3}
    Runs = {r1}
    Workers = {w1, w2}
    Users = {u1, u2}
    NoInvoice = NoInvoice
    NoPayment = NoPayment
    NoRun = NoRun
    NoUser = NoUser
    Mishaps = {"stale_rollup"}
SYMMETRY Symmetry
PROPERTIES
    ClaimsHold
CHECK_DEADLOCK FALSE
