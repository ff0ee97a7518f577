--------------------------- MODULE InvoiceStatuses ---------------------------
(* The status machine every writer of an invoice is screened against:        *)
(* VALID_TRANSITIONS and validate_transition of services/workflow_engine.py. *)

VALID_TRANSITIONS ==
  [ new               |-> {"pending", "ready_for_review", "approved", "done"},
    pending           |-> {"ready_for_review", "approved", "failed"},
    ready_for_review  |-> {"approved", "rejected"},
    approved          |-> {"sending_to_erp", "payment_scheduled", "done"},
    rejected          |-> {"ready_for_review", "new"},
    sending_to_erp    |-> {"sent_to_erp", "failed"},
    sent_to_erp       |-> {"posted_in_erp", "done"},
    posted_in_erp     |-> {"payment_scheduled", "done"},
    payment_scheduled |-> {"paid", "approved"},
    paid              |-> {"done", "approved"},
    done              |-> {},
    failed            |-> {"pending", "sending_to_erp"} ]

InvoiceStatus == DOMAIN VALID_TRANSITIONS

(* validate_transition: a move the table does not list is a 409. *)
Legal(current, target) == target \in VALID_TRANSITIONS[current]

(* What a bulk change leaves alone, and where it may move the rest. *)
IMMUTABLE_STATUSES == {"sending_to_erp", "sent_to_erp", "posted_in_erp",
                       "payment_scheduled", "paid", "done"}
BULK_STATUS_TARGETS == {"new", "pending", "ready_for_review", "approved",
                        "rejected", "done"}
=============================================================================
