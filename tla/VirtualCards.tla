---------------------------- MODULE VirtualCards ----------------------------
(***************************************************************************)
(* The virtual cards of one payable invoice.  A card exists twice: at the  *)
(* provider, where it can be charged, and as a row of virtual_cards, which *)
(* an index lets only one row that is not cancelled occupy.  Issuing reads *)
(* the rows, mints at the provider under a key made of the number of rows  *)
(* committed so far, and commits its row last; cancelling closes the card  *)
(* at the provider first and writes its row after.  Webhooks report        *)
(* charges and settlements at least once and in any order.  A provider     *)
(* that has seen a key answers with the card it made then.                 *)
(***************************************************************************)
EXTENDS Naturals, Sequences, FiniteSets

CONSTANTS Issuers,    \* POST /api/cards/generate, or a run's card leg
          Closers,    \* a cancel, or the card leg of a void
          MAX_CARDS   \* rows of the invoice: bounds the model only

ASSUME CardsAssumption == MAX_CARDS \in Nat \ {0}

VARIABLES cards,      \* committed rows, oldest first
          provider,   \* idempotency key -> the provider's card
          issuing,    \* issuer -> how far it is, under which key
          closing,    \* closer -> how far it is, with which row
          events,     \* what the provider has to report, forever repeatable
          claimed     \* webhook:event:* in Redis

cardVars == <<cards, provider, issuing, closing, events, claimed>>

Keys == 0 .. MAX_CARDS
Events == Keys \X {"authorization", "settlement"}
Card == [key : Keys, status : {"created", "charged", "completed", "cancelled"},
         charged : BOOLEAN, rebates : 0 .. 1]
NotIssuing == [pc |-> "idle", key |-> 0]
IssuerState == [pc : {"idle", "checked", "keyed", "minted", "persisted"}, key : Keys]
NotClosing == [pc |-> "idle", row |-> 0, locks |-> FALSE]
CloserState == [pc : {"idle", "read", "closed"}, row : 0 .. MAX_CARDS, locks : BOOLEAN]

CardsInit == /\ cards = << >>
             /\ provider = [k \in Keys |-> "none"]
             /\ issuing = [i \in Issuers |-> NotIssuing]
             /\ closing = [c \in Closers |-> NotClosing]
             /\ events = {}
             /\ claimed = {}

---------------------------------------------------------------------------
(* Issuing. *)
LiveRows == {n \in DOMAIN cards : cards[n].status # "cancelled"}
ReissueSequence == Len(cards)

Issuer(i, pc) == issuing' = [issuing EXCEPT ![i].pc = pc]
StopIssuing(i) == issuing' = [issuing EXCEPT ![i] = NotIssuing]

(* The pre-check: an invoice with a live card is not issued another. *)
OpenIssue(i) ==
  /\ issuing[i].pc = "idle"
  /\ LiveRows = {}
  /\ Issuer(i, "checked")
  /\ UNCHANGED <<cards, provider, closing, events, claimed>>

\* Mutation: the key counts only the cards that are still live.
KeyOfLiveCards(i) ==
  /\ issuing[i].pc = "checked"
  /\ ReissueSequence < MAX_CARDS
  /\ issuing' = [issuing EXCEPT ![i] = [pc |-> "keyed", key |-> Cardinality(LiveRows)]]
  /\ UNCHANGED <<cards, provider, closing, events, claimed>>

\* Mutation: every attempt has a key of its own.
KeyOfAttempt(i) ==
  /\ issuing[i].pc = "checked"
  /\ \E k \in Keys : /\ provider[k] = "none"
                     /\ issuing' = [issuing EXCEPT ![i] = [pc |-> "keyed", key |-> k]]
  /\ UNCHANGED <<cards, provider, closing, events, claimed>>

(* The key is computed after the screening, from the rows there are then. *)
ReadKey(i) ==
  /\ issuing[i].pc = "checked"
  /\ ReissueSequence < MAX_CARDS
  /\ issuing' = [issuing EXCEPT ![i] = [pc |-> "keyed", key |-> ReissueSequence]]
  /\ UNCHANGED <<cards, provider, closing, events, claimed>>

(* create_card: a new key makes a card, a known one returns its card.  The *)
(* answer may be lost, and the request may never arrive.                   *)
Provisioned(k) == provider' = [provider EXCEPT ![k] = IF @ = "none" THEN "open" ELSE @]

MintCard(i) ==
  /\ issuing[i].pc = "keyed"
  /\ \/ Provisioned(issuing[i].key) /\ Issuer(i, "minted")
     \/ Provisioned(issuing[i].key) /\ StopIssuing(i)
     \/ UNCHANGED provider /\ StopIssuing(i)
  /\ UNCHANGED <<cards, closing, events, claimed>>

(* persist_card waits for another uncommitted row and yields to a         *)
(* committed one: the card it minted then has no row.                     *)
PersistCard(i) ==
  /\ issuing[i].pc = "minted"
  /\ \A j \in Issuers : issuing[j].pc # "persisted"
  /\ IF LiveRows = {} THEN Issuer(i, "persisted") ELSE StopIssuing(i)
  /\ UNCHANGED <<cards, provider, closing, events, claimed>>

CommitCard(i) ==
  /\ issuing[i].pc = "persisted"
  /\ Len(cards) < MAX_CARDS
  /\ cards' = Append(cards, [key |-> issuing[i].key, status |-> "created",
                             charged |-> FALSE, rebates |-> 0])
  /\ StopIssuing(i)
  /\ UNCHANGED <<provider, closing, events, claimed>>

IssuerCrash(i) ==
  /\ issuing[i].pc # "idle"
  /\ StopIssuing(i)
  /\ UNCHANGED <<cards, provider, closing, events, claimed>>

---------------------------------------------------------------------------
(* Cancelling.  A void locks the row across the provider's answer; the    *)
(* cancel of api/cards.py does not.  Both refuse a spent card they see.   *)
Unheld(n) == \A c \in Closers : closing[c].locks => closing[c].row # n
StopClosing(c) == closing' = [closing EXCEPT ![c] = NotClosing]

ReadToClose(c, n, locks) ==
  /\ closing[c].pc = "idle"
  /\ cards[n].status = "created"
  /\ locks => Unheld(n)
  /\ closing' = [closing EXCEPT ![c] = [pc |-> "read", row |-> n, locks |-> locks]]
  /\ UNCHANGED <<cards, provider, issuing, events, claimed>>

ReadToCancel(c, n) == ReadToClose(c, n, FALSE)
ReadToVoid(c, n) == ReadToClose(c, n, TRUE)

CloseAtProvider(c) ==
  /\ closing[c].pc = "read"
  /\ provider' = [provider EXCEPT ![cards[closing[c].row].key] = "closed"]
  /\ closing' = [closing EXCEPT ![c].pc = "closed"]
  /\ UNCHANGED <<cards, issuing, events, claimed>>

\* Mutation: the row is cancelled whether or not the provider confirmed.
RecordUnconfirmed(c) ==
  /\ closing[c].pc \in {"read", "closed"}
  /\ closing[c].locks \/ Unheld(closing[c].row)
  /\ cards' = [cards EXCEPT ![closing[c].row].status = "cancelled"]
  /\ StopClosing(c)
  /\ UNCHANGED <<provider, issuing, events, claimed>>

RecordCancel(c) ==
  /\ closing[c].pc = "closed"
  /\ closing[c].locks \/ Unheld(closing[c].row)
  /\ cards' = [cards EXCEPT ![closing[c].row].status = "cancelled"]
  /\ StopClosing(c)
  /\ UNCHANGED <<provider, issuing, events, claimed>>

(* The provider refuses or does not answer, or the process stops. *)
GiveUpClosing(c) ==
  /\ closing[c].pc # "idle"
  /\ StopClosing(c)
  /\ UNCHANGED <<cards, provider, issuing, events, claimed>>

---------------------------------------------------------------------------
(* The network. *)
Authorize(k) ==
  /\ provider[k] = "open"
  /\ events' = events \union {<<k, "authorization">>}
  /\ UNCHANGED <<cards, provider, issuing, closing, claimed>>

Settle(k) ==
  /\ <<k, "authorization">> \in events
  /\ events' = events \union {<<k, "settlement">>}
  /\ UNCHANGED <<cards, provider, issuing, closing, claimed>>

\* Mutation: a settlement completes a card nobody has charged.
AfterAnySettlement(row, kind) ==
  CASE kind = "authorization" /\ row.status = "created" ->
         [row EXCEPT !.status = "charged", !.charged = TRUE]
    [] kind = "settlement" /\ row.status \in {"created", "charged"} ->
         [row EXCEPT !.status = "completed", !.rebates = 1]
    [] OTHER -> row

(* One rebate per card: a second one loses to the index, and the card     *)
(* completes all the same.                                                *)
AfterEvent(row, kind) ==
  CASE kind = "authorization" /\ row.status = "created" ->
         [row EXCEPT !.status = "charged", !.charged = TRUE]
    [] kind = "settlement" /\ row.status = "charged" ->
         [row EXCEPT !.status = "completed", !.rebates = 1]
    [] OTHER -> row

(* The event must find one row; its transaction waits for the row's lock. *)
Applied(e) ==
  \E n \in DOMAIN cards :
    /\ {m \in DOMAIN cards : cards[m].key = e[1]} = {n}
    /\ Unheld(n)
    /\ cards' = [cards EXCEPT ![n] = AfterEvent(@, e[2])]

(* An event is claimed and then applied; a failure between the two gives  *)
(* the claim back, a crash between them does not.                         *)
DeliverEvent(e) ==
  /\ e \in events \ claimed
  /\ \/ Applied(e)
     \/ UNCHANGED cards /\ \E n \in DOMAIN cards : cards[n].key = e[1]
  /\ claimed' = claimed \union {e}
  /\ UNCHANGED <<provider, issuing, closing, events>>

(* An event without an id is never claimed, and applied whenever it comes. *)
DeliverUnnumbered(e) ==
  /\ e \in events
  /\ Applied(e)
  /\ UNCHANGED <<provider, issuing, closing, events, claimed>>

---------------------------------------------------------------------------
Issue(i) == \/ OpenIssue(i) \/ ReadKey(i) \/ MintCard(i) \/ PersistCard(i)
            \/ CommitCard(i) \/ IssuerCrash(i)

Close(c) == \/ \E n \in DOMAIN cards : ReadToCancel(c, n) \/ ReadToVoid(c, n)
            \/ CloseAtProvider(c) \/ RecordCancel(c) \/ GiveUpClosing(c)

CardsNext == \/ \E i \in Issuers : Issue(i)
             \/ \E c \in Closers : Close(c)
             \/ \E k \in Keys : Authorize(k) \/ Settle(k)
             \/ \E e \in Events : DeliverEvent(e) \/ DeliverUnnumbered(e)

CardsSpec == CardsInit /\ [][CardsNext]_cardVars

---------------------------------------------------------------------------
(* The variables have the shape the rows, the provider and the requests   *)
(* have in the code.                                                      *)
CardsTypeOK == /\ cards \in Seq(Card) /\ Len(cards) <= MAX_CARDS
               /\ provider \in [Keys -> {"none", "open", "closed"}]
               /\ issuing \in [Issuers -> IssuerState]
               /\ closing \in [Closers -> CloserState]
               /\ \A c \in Closers : closing[c].row <= Len(cards)
               /\ events \subseteq Events
               /\ claimed \subseteq events

(* An invoice never has two cards that can be charged, whatever answers   *)
(* are lost and whatever crashes: build_card_idempotency_key promises it  *)
(* of a timeout, a double click and a run that is repeated.               *)
OneOpenCard == Cardinality({k \in Keys : provider[k] = "open"}) <= 1

(* A card the database calls cancelled is closed at the provider, under   *)
(* any race of two cancels, a void and a crash: "cancelled in our DB but  *)
(* still chargeable at the provider" is the case cancel_card_at_provider  *)
(* orders its writes to exclude.                                          *)
CancelledIsClosed ==
  \A n \in DOMAIN cards : cards[n].status = "cancelled" => provider[cards[n].key] = "closed"

(* The card a vendor is sent can be charged when its row appears: a       *)
(* reissue after a cancel does not get the closed card replayed.          *)
IssuedCardWorks ==
  [][Len(cards') > Len(cards) => provider[cards'[Len(cards')].key] = "open"]_cardVars

(* A rebate is earned once, by a card whose charge and settlement both    *)
(* happened and were recorded in that order, however often and in         *)
(* whatever order the webhook is called; and a completed card has one.    *)
RebateFollowsCharge ==
  \A n \in DOMAIN cards :
    /\ cards[n].rebates > 0 => /\ cards[n].rebates = 1
                               /\ cards[n].charged
                               /\ {cards[n].key} \X {"authorization", "settlement"} \subseteq events
    /\ cards[n].status = "completed" => cards[n].rebates = 1

(* What a row says of its card happened outside: a cancelled card is closed *)
(* at the provider and a completed one was charged, settled and rewarded.   *)
StatusIsEarned == CancelledIsClosed /\ RebateFollowsCharge

---------------------------------------------------------------------------
(* The inductive invariant.  Whoever closes a row holds one that exists; a *)
(* provider that confirmed has closed the card; what a row says was        *)
(* charged or rewarded was reported.                                       *)
ClosingHoldsARow ==
  \A c \in Closers : closing[c].pc # "idle" =>
    /\ closing[c].row \in DOMAIN cards
    /\ closing[c].pc = "closed" => provider[cards[closing[c].row].key] = "closed"

ChargesWereReported ==
  \A n \in DOMAIN cards :
    /\ cards[n].status = "charged" => cards[n].charged
    /\ cards[n].charged => <<cards[n].key, "authorization">> \in events

(* With one issuing request at a time a row's key is its place, only the   *)
(* last row can be live, and the card without a row that a lost request    *)
(* may have left has the next key, which the next request asks for again.  *)
OneIssuer == \A i, j \in Issuers : i = j
NoneLive == \A n \in DOMAIN cards : cards[n].status = "cancelled"

KeysFollowRows ==
  /\ \A n \in DOMAIN cards : /\ cards[n].key = n - 1
                             /\ n # Len(cards) => cards[n].status = "cancelled"
  /\ \A k \in Keys : /\ k > Len(cards) => provider[k] = "none"
                     /\ k = Len(cards) => provider[k] # "closed"
                     /\ k = Len(cards) /\ provider[k] = "open" => NoneLive

IssuersHoldTheNextKey ==
  \A i \in Issuers :
    /\ issuing[i].pc # "idle" => NoneLive
    /\ issuing[i].pc \in {"keyed", "minted", "persisted"} => issuing[i].key = Len(cards)
    /\ issuing[i].pc \in {"minted", "persisted"} => provider[issuing[i].key] = "open"

CardsInv == /\ CardsTypeOK
            /\ ClosingHoldsARow /\ ChargesWereReported /\ StatusIsEarned
            /\ OneIssuer => KeysFollowRows /\ IssuersHoldTheNextKey
=============================================================================
