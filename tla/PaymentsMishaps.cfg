SPECIFICATION Spec
CONSTANTS
    Invoices = {i1}
    Payments = {p1, p2}
    Runs = {r1}
    Workers = {w1, w2}
    Users = {u1, u2}
    NoInvoice = NoInvoice
    NoPayment = NoPayment
    NoRun = NoRun
    NoUser = NoUser
    Mishaps = {"crash", "lost_reply", "deaf_void", "flag_lost", "careless_resolve", "stale_leg", "stale_rollup", "early_resume", "late_flag", "erp_push"}
SYMMETRY Symmetry
INVARIANTS
    
    ReconciliationBlocks
PROPERTIES
    AttemptsMoveForward
    OneAttemptAtATime
CHECK_DEADLOCK FALSE
