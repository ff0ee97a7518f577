SPECIFICATION FairSpec
CONSTANTS
    Invoices = {i1}
    Payments = {p1, p2}
    Runs = {r1, r2}
    Workers = {w1}
    Users = {u1, u2}
    NoInvoice = NoInvoice
    NoPayment = NoPayment
    NoRun = NoRun
    NoUser = NoUser
    Mishaps = {}
INVARIANTS
    
    OneOrderPerInvoice
PROPERTIES
    PaymentsResolve
CHECK_DEADLOCK FALSE
