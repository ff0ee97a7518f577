------------------------- MODULE BankReconciliation -------------------------
(***************************************************************************)
(* Bank statements and the payments their lines clear.  An upload claims   *)
(* its file's hash, matches its lines against the payments nobody had      *)
(* claimed when it looked, and flushes the matches; both flushes are       *)
(* decided by a unique index, and an upload that loses one starts again    *)
(* once.  A clerk who points a line at a payment locks the payment.        *)
(***************************************************************************)
EXTENDS Naturals, FiniteSets

CONSTANTS Uploads,      \* upload requests, each named by the statement it makes
          Files,        \* the files a bank sent, each for one account
          Candidates,   \* file -> line -> the payments it could clear
          Payments,     \* rows of payments
          Matchers      \* /resolve requests

VARIABLES statement,    \* upload -> the file of its committed statement
          clears,       \* <<statement, line>> -> matched_payment_id
          upload,       \* upload -> how far it got
          matcher       \* request -> how far it got

bankVars == <<statement, clears, upload, matcher>>

LineNos == {1, 2}
Lines == Uploads \X LineNos
NoFile == "none"
NoPayment == "null"

(* A line clears payments of the tenant, and null is none of them. *)
ASSUME BankAssumption == /\ NoFile \notin Files /\ NoPayment \notin Payments
                         /\ Candidates \in [Files -> [LineNos -> SUBSET Payments]]

Claim == Payments \union {NoPayment}
UploadState == [pc : {"idle"}]
  \union [pc : {"begin", "parsed", "importing"}, file : Files, try : {1, 2}]
  \union [pc : {"matched", "flushed"}, file : Files, try : {1, 2}, found : [LineNos -> Claim]]
MatcherState == [pc : {"idle"}]
  \union [pc : {"read", "locked"}, line : Lines, to : Claim, saw : Claim]
Unasked == [pc |-> "idle"]

BankInit == /\ statement = [u \in Uploads |-> NoFile]
            /\ clears = [l \in Lines |-> NoPayment]
            /\ upload = [u \in Uploads |-> Unasked]
            /\ matcher = [m \in Matchers |-> Unasked]

---------------------------------------------------------------------------
(* What the indexes and the row locks see. *)

Committed(u) == statement[u] # NoFile
Imported(f) == \E u \in Uploads : statement[u] = f
ClaimedBy(p) == {l \in Lines : Committed(l[1]) /\ clears[l] = p}
TakenPayments == {p \in Payments : ClaimedBy(p) # {}}

Found(u) == {upload[u].found[n] : n \in LineNos} \ {NoPayment}
Flushing(p) == \E u \in Uploads : upload[u].pc = "flushed" /\ p \in Found(u)
HoldsHash(u) == upload[u].pc \in {"importing", "matched", "flushed"}
Locked(p) == \E m \in Matchers : matcher[m].pc = "locked" /\ matcher[m].to = p

\* Mutation: uq_bank_transactions_matched_payment does not exist.
NeverConflicts(p) == FALSE

Conflicts(p) == p \in TakenPayments

---------------------------------------------------------------------------
(* POST /upload *)
Reaches(u, state) == upload' = [upload EXCEPT ![u] = state]

(* The first loss starts over, the second is answered with 409. *)
Lost(u) == IF upload[u].try = 1 THEN [pc |-> "begin", file |-> upload[u].file, try |-> 2]
           ELSE Unasked

BeginUpload(u, f) == /\ upload[u] = Unasked /\ ~Committed(u)
                     /\ Reaches(u, [pc |-> "begin", file |-> f, try |-> 1])
                     /\ UNCHANGED <<statement, clears, matcher>>

LookUpFile(u) == /\ upload[u].pc = "begin"
                 /\ Reaches(u, IF Imported(upload[u].file) THEN Unasked
                             ELSE [upload[u] EXCEPT !.pc = "parsed"])
                 /\ UNCHANGED <<statement, clears, matcher>>

(* The flush waits for an upload that holds the hash and has not committed. *)
ClaimHash(u) == /\ upload[u].pc = "parsed"
                /\ \A v \in Uploads : HoldsHash(v) => upload[v].file # upload[u].file
                /\ Reaches(u, IF Imported(upload[u].file) THEN Lost(u)
                            ELSE [upload[u] EXCEPT !.pc = "importing"])
                /\ UNCHANGED <<statement, clears, matcher>>

(* The one candidate that is left; of several, the one a reference or a     *)
(* name tells apart, or none.                                               *)
MatchesOf(candidates) == IF Cardinality(candidates) = 1 THEN candidates
                         ELSE candidates \union {NoPayment}

MatchLines(u) ==
  /\ upload[u].pc = "importing"
  /\ LET free(n) == Candidates[upload[u].file][n] \ TakenPayments
     IN \E p \in MatchesOf(free(1)) : \E q \in MatchesOf(free(2) \ {p}) :
          Reaches(u, [pc |-> "matched", file |-> upload[u].file, try |-> upload[u].try,
                    found |-> <<p, q>>])
  /\ UNCHANGED <<statement, clears, matcher>>

(* It waits for whoever holds one of its payments, by a flush or by a lock. *)
FlushMatches(u) == /\ upload[u].pc = "matched"
                   /\ \A p \in Found(u) : ~Flushing(p) /\ ~Locked(p)
                   /\ Reaches(u, IF \E p \in Found(u) : Conflicts(p) THEN Lost(u)
                               ELSE [upload[u] EXCEPT !.pc = "flushed"])
                   /\ UNCHANGED <<statement, clears, matcher>>

CommitImport(u) ==
  /\ upload[u].pc = "flushed"
  /\ statement' = [statement EXCEPT ![u] = upload[u].file]
  /\ clears' = [l \in Lines |-> IF l[1] = u THEN upload[u].found[l[2]] ELSE clears[l]]
  /\ Reaches(u, Unasked)
  /\ UNCHANGED matcher

UploadFails(u) == /\ upload[u] # Unasked
                  /\ Reaches(u, Unasked)
                  /\ UNCHANGED <<statement, clears, matcher>>

DeleteStatement(u) ==
  /\ Committed(u)
  /\ statement' = [statement EXCEPT ![u] = NoFile]
  /\ clears' = [l \in Lines |-> IF l[1] = u THEN NoPayment ELSE clears[l]]
  /\ UNCHANGED <<upload, matcher>>

---------------------------------------------------------------------------
(* POST /resolve: match a line by hand, or unmatch it. *)
Serve(m, state) == matcher' = [matcher EXCEPT ![m] = state]

ReadLine(m, l, p) == /\ matcher[m] = Unasked /\ Committed(l[1])
                     /\ Serve(m, [pc |-> "read", line |-> l, to |-> p, saw |-> clears[l]])
                     /\ UNCHANGED <<statement, clears, upload>>

LockPayment(m) ==
  /\ matcher[m].pc = "read"
  /\ LET p == matcher[m].to
     IN /\ p # NoPayment => ~Locked(p) /\ ~Flushing(p)
        /\ Serve(m, IF p # NoPayment /\ ClaimedBy(p) \ {matcher[m].line} # {} THEN Unasked
                    ELSE [matcher[m] EXCEPT !.pc = "locked"])
  /\ UNCHANGED <<statement, clears, upload>>

(* What does not differ from what was read is not written, and a line whose *)
(* statement is gone fails the request.                                     *)
CommitResolve(m) ==
  /\ matcher[m].pc = "locked"
  /\ LET l == matcher[m].line
         p == matcher[m].to
         refused == ~Committed(l[1]) \/ p = matcher[m].saw \/ (p # NoPayment /\ Conflicts(p))
     IN clears' = IF refused THEN clears ELSE [clears EXCEPT ![l] = p]
  /\ Serve(m, Unasked)
  /\ UNCHANGED <<statement, upload>>

ResolveFails(m) == /\ matcher[m] # Unasked
                   /\ Serve(m, Unasked)
                   /\ UNCHANGED <<statement, clears, upload>>

BankNext ==
  \/ \E u \in Uploads : \/ \E f \in Files : BeginUpload(u, f)
                        \/ LookUpFile(u) \/ ClaimHash(u) \/ MatchLines(u)
                        \/ FlushMatches(u) \/ CommitImport(u) \/ UploadFails(u)
                        \/ DeleteStatement(u)
  \/ \E m \in Matchers : \/ \E l \in Lines, p \in Claim : ReadLine(m, l, p)
                         \/ LockPayment(m) \/ CommitResolve(m) \/ ResolveFails(m)

BankSpec == BankInit /\ [][BankNext]_bankVars
---------------------------------------------------------------------------
(* The rows and the requests are of their kinds. *)
BankTypeOK == /\ statement \in [Uploads -> Files \union {NoFile}]
              /\ clears \in [Lines -> Claim]
              /\ upload \in [Uploads -> UploadState]
              /\ matcher \in [Matchers -> MatcherState]

(* A payment is cleared by one bank line and a file is one statement,       *)
(* however uploads and clerks overlap: "two bank lines cannot both be the   *)
(* clearing of a single payment without double-counting it".                *)
ClearedOnce ==
  /\ \A p \in Payments : Cardinality(ClaimedBy(p)) <= 1
  /\ \A u, v \in Uploads : Committed(u) /\ statement[u] = statement[v] => u = v

(* The inductive invariant behind ClearedOnce.  No two lines have one       *)
(* payment, and only lines of committed statements have any.                *)
LinesApart ==
  /\ \A k, l \in Lines : clears[k] = clears[l] /\ clears[k] # NoPayment => k = l
  /\ \A l \in Lines : ~Committed(l[1]) => clears[l] = NoPayment

(* An upload that holds a hash is the only one to bring its file. *)
HashesApart ==
  /\ \A u \in Uploads : upload[u] # Unasked => ~Committed(u)
  /\ \A u, v \in Uploads :
       HoldsHash(u) /\ HoldsHash(v) /\ upload[u].file = upload[v].file => u = v
  /\ \A u \in Uploads : HoldsHash(u) => ~Imported(upload[u].file)
  /\ \A u, v \in Uploads : Committed(u) /\ statement[u] = statement[v] => u = v

(* An upload matches a payment with one line, and what it has flushed is    *)
(* its own: nobody else has flushed it, holds its lock or has claimed it.   *)
FlushesApart ==
  /\ \A u \in Uploads : LET found == upload[u].found IN
       upload[u].pc \in {"matched", "flushed"} /\ found[1] = found[2] => found[1] = NoPayment
  /\ \A u \in Uploads : upload[u].pc = "flushed" => \A p \in Found(u) :
       /\ ~Locked(p) /\ ~Conflicts(p)
       /\ \A v \in Uploads : upload[v].pc = "flushed" /\ p \in Found(v) => u = v

BankInv == BankTypeOK /\ LinesApart /\ HashesApart /\ FlushesApart
=============================================================================
