SPECIFICATION OperationsSpec
CONSTANTS
    Parts = {"workflow"}
    Jobs = {j1}
    Pushes = {p1}
    MAX_RETRIES = 3
    Configurations = {{"extraction", "approval", "erp_export"}, {}}
    manager = manager
    controller = controller
    director = director
    deputy = deputy
    Users = {manager, controller, director, deputy}
    NLevels = 2
    NamedApprovers <- MCNamedApprovers
    EscalateTo <- MCEscalateTo
    ParallelMode <- MCParallelMode
    Required <- MCRequired
    DelegateOf <- MCDelegateOf
    Sessions = {r1}
    Batches = {r2}
    Senders = {s1, s2, s3}
    MAX_ATTEMPTS = 5
    Issuers = {q1}
    Closers = {x1, x2}
    MAX_CARDS = 2
    Replicas = {t1, t2}
    Managers = {u1}
    MAX_CONSECUTIVE_SKIPS = 2
    LAST_PERIOD = 3
    Memos = {o1, o2}
    Invoices = {i1, i2}
    Clerks = {k1, k2}
    MAX_AMOUNT = 2
    Deciders = {d1, d2}
    Optimizers = {v1, v2}
    LAST_ROW = 3
    Adapters <- MCAdapters
    BATCH_SIZE = 2
    Poison <- MCPoison
    MAX_MISHAPS = 2
    Plans = {free, growth, scale}
    Changers = {c1, c2}
    Hooks = {h1}
    Collectors = {w1}
    Staff = {a1, a2}
    BankChanges = {b1, b2}
    wire = wire
    cheque = cheque
    Asks = {f1}
    Reqs = {g1}
    Buyers = {n1, n2}
    Desks = {l1, l2}
    Sends = {y1, y2}
    Deliveries = {y3, y4, y5}
    MAX_LOST = 2
    Charges = {g2, g3}
    Expenses = {e1, e2}
    Bookkeepers = {l3, l4}
    Runs = {v3, v4}
    Triagers = {l5}
    MAX_RUNS = 2
    Uploads = {m1, m2}
    Files = {"april", "may"}
    Candidates <- MCCandidates
    Payments = {wire, cheque}
    Matchers = {l7}
    ContractClerks = {l8}
    Renewers = {t3, t4}
    LAST_TERM = 3
    NOTICE_DAYS = 1
    eur = eur
    jpy = jpy
    kwd = kwd
    Currencies = {eur, jpy, kwd}
    NoCurrency = NoCurrency
    NoLeg = NoLeg
    Exponent <- MCExponent
    Instructions <- MCInstructions
    COLUMN_LIMIT = 4000
    Deviations <- MCDeviations
    Schedules = {z1, z2}
    Recipients = {"ann", "bob"}
    Poisoned = {z1}
    Mailers = {m5}
    CADENCE = 1
    MAX_STRIKES = 2
    LAST_TICK = 2
    MAX_UPSETS = 1
    SupplierOrder <- MCSupplierOrder
    Unscreenable = {"acme"}
    Bills = {i3}
    Rescreeners = {t5, t6}
    Stewards = {k3, k4}
    MAX_TURNS = 2
PROPERTIES RetryGetsFullBudget
CHECK_DEADLOCK FALSE
