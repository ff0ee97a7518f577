SPECIFICATION Spec
CONSTANTS
    Invoices = {i1}
    Payments = {p1, p2}
    Runs = {r1}
    Workers = {w1}
    Users = {u1, u2}
    NoInvoice = NoInvoice
    NoPayment = NoPayment
    NoRun = NoRun
    NoUser = NoUser
    Mishaps = {"erp_push"}
SYMMETRY Symmetry
PROPERTIES
    WorkflowRespected
CHECK_DEADLOCK FALSE
