------------------------------- MODULE Billing ------------------------------
(***************************************************************************)
(* The commercial surface: payments through YooKassa (routers/payments.py, *)
(* behind settings.billing_enabled) and the cap of a promo code            *)
(* (routers/promo.py).                                                     *)
(*                                                                         *)
(* A payment's status is written by two handlers that both read the row,   *)
(* ask YooKassa and write what they heard into the row they read: the      *)
(* status page and the webhook.  Each is three steps here.  Applying a     *)
(* promo code is a check on what was read, and one transaction of two      *)
(* statements, an INSERT and a guarded UPDATE.                             *)
(***************************************************************************)
EXTENDS Naturals, FiniteSets, TLC

CONSTANTS
  Payments,       \* attempts to pay, each with its own payment at YooKassa
  Calls,          \* status requests and webhooks that run at the same time
  Users,          \* sellers who apply the promo code
  Submits,        \* requests to apply it
  By,             \* request -> its user
  MaxActivations  \* promo_codes.max_activations; none is "no cap"

ASSUME BillingAssumption ==
  /\ IsFiniteSet(Users)
  /\ By \in [Submits -> Users]
  /\ MaxActivations \in Nat

VARIABLES
  provider,       \* payment -> its status at YooKassa
  create,         \* payment -> where POST /payments/create stands
  row,            \* payment -> status of its row
  activated,      \* history: the payments whose plan was given to the user
  call,           \* call -> a status request or webhook
  promo,          \* the row of promo_codes
  activations,    \* user -> committed rows of promo_code_activations
  submit          \* request -> where POST /promo/apply stands

payVars == <<provider, create, row, activated, call>>
promoVars == <<promo, activations, submit>>
billingVars == <<payVars, promoVars>>

Settled == {"succeeded", "canceled"}

BillingInit ==
  /\ provider = [p \in Payments |-> "none"]
  /\ create = [p \in Payments |-> "new"]
  /\ row = [p \in Payments |-> "none"]
  /\ activated = {}
  /\ call = [c \in Calls |-> [pc |-> "idle"]]
  /\ promo = [count |-> 0, active |-> TRUE]
  /\ activations = [u \in Users |-> 0]
  /\ submit = [s \in Submits |-> "new"]

(***************************************************************************)
(* POST /payments/create.                                                  *)
(***************************************************************************)
\* YooKassa makes the payment; its answer comes, or the handler ends there.
CreateAtProvider(p) ==
  /\ create[p] = "new"
  /\ provider' = [provider EXCEPT ![p] = "pending"]
  /\ \E pc \in {"created", "over"} : create' = [create EXCEPT ![p] = pc]
  /\ UNCHANGED <<row, activated, call, promoVars>>

\* Mutant: the seller is sent to pay while the row is being written.
InsertRowLate(p) ==
  /\ create[p] = "created"
  /\ create' = [create EXCEPT ![p] = "committed"]
  /\ UNCHANGED <<provider, row, activated, call, promoVars>>

InsertRow(p) ==
  /\ create[p] = "created"
  /\ row' = [row EXCEPT ![p] = "pending"]
  /\ create' = [create EXCEPT ![p] = "committed"]
  /\ UNCHANGED <<provider, activated, call, promoVars>>

\* The confirmation URL, without which nobody can pay.
ReturnUrl(p) ==
  /\ create[p] = "committed"
  /\ create' = [create EXCEPT ![p] = "offered"]
  /\ UNCHANGED <<provider, row, activated, call, promoVars>>

CreateDies(p) ==
  /\ create[p] \in {"created", "committed"}
  /\ create' = [create EXCEPT ![p] = "over"]
  /\ UNCHANGED <<provider, row, activated, call, promoVars>>

\* YooKassa: the seller pays, or the payment is canceled.
ProviderSettles(p) ==
  /\ provider[p] = "pending"
  /\ \E status \in (IF create[p] = "offered" THEN Settled ELSE {"canceled"}) :
       provider' = [provider EXCEPT ![p] = status]
  /\ UNCHANGED <<create, row, activated, call, promoVars>>

(***************************************************************************)
(* GET /payments/status and POST /payments/webhook.                        *)
(***************************************************************************)
CallGoes(c, state) == call' = [call EXCEPT ![c] = state]

\* The row, as the handler will remember it.  A webhook may come at any time,
\* more than once.
ReadPayment(c, p) ==
  /\ call[c].pc = "idle" /\ row[p] # "none"
  /\ \E kind \in {"status", "webhook"} :
       CallGoes(c, [pc |-> "read", kind |-> kind, payment |-> p, seen |-> row[p]])
  /\ UNCHANGED <<provider, create, row, activated, promoVars>>

AskProvider(c) ==
  /\ call[c].pc = "read"
  /\ LET q == call[c] IN
       CallGoes(c, [pc |-> "heard", kind |-> q.kind, payment |-> q.payment, seen |-> q.seen,
                answer |-> provider[q.payment]])
  /\ UNCHANGED <<provider, create, row, activated, promoVars>>

\* Mutant: the status page trusts the row at the moment of the write.
WritesFresh(q) == q.answer # row[q.payment]

\* The status page writes whatever differs from what it saw.
Writes(q) ==
  IF q.kind = "status" THEN q.answer # q.seen
  ELSE \/ q.answer = "succeeded" /\ q.seen # "succeeded"
       \/ q.answer = "canceled" /\ q.seen = "pending"

\* Status and plan are one commit.
WritePayment(c) ==
  LET q == call[c] IN
  /\ q.pc = "heard"
  /\ IF Writes(q)
     THEN /\ row' = [row EXCEPT ![q.payment] = q.answer]
          /\ activated' = IF q.answer = "succeeded" THEN activated \cup {q.payment}
                          ELSE activated
     ELSE UNCHANGED <<row, activated>>
  /\ CallGoes(c, [pc |-> "idle"])
  /\ UNCHANGED <<provider, create, promoVars>>

\* No answer, an answer but 200, a rollback, or the process dies.
CallDies(c) ==
  /\ call[c].pc # "idle"
  /\ CallGoes(c, [pc |-> "idle"])
  /\ UNCHANGED <<provider, create, row, activated, promoVars>>

(***************************************************************************)
(* POST /promo/apply and the administrator's switch.                       *)
(***************************************************************************)
Moves(s, pc) == submit' = [submit EXCEPT ![s] = pc]

\* _check_promo and the look for an earlier activation; neither holds a lock.
CheckPromo(s) ==
  /\ submit[s] = "new"
  /\ IF promo.active /\ promo.count < MaxActivations /\ activations[By[s]] = 0
     THEN Moves(s, "checked") ELSE Moves(s, "over")
  /\ UNCHANGED <<payVars, promo, activations>>

\* The INSERT waits for an uncommitted one of the same user, and fails on a
\* committed one.
InsertActivation(s) ==
  /\ submit[s] = "checked"
  /\ \A other \in Submits : By[other] = By[s] => submit[other] # "inserted"
  /\ Moves(s, IF activations[By[s]] = 0 THEN "inserted" ELSE "over")
  /\ UNCHANGED <<payVars, promo, activations>>

\* Mutant: the row is kept when no slot is left.
ReserveSlotKeeping(s) ==
  /\ submit[s] = "inserted"
  /\ activations' = [activations EXCEPT ![By[s]] = @ + 1]
  /\ promo' = IF promo.count < MaxActivations THEN [promo EXCEPT !.count = @ + 1] ELSE promo
  /\ Moves(s, "over")
  /\ UNCHANGED payVars

\* _CAP_RESERVE locks the promo's row to the commit, so guard, increment and
\* commit are one step; without a slot the INSERT is rolled back.
ReserveSlot(s) ==
  /\ submit[s] = "inserted"
  /\ IF promo.count < MaxActivations
     THEN /\ promo' = [promo EXCEPT !.count = @ + 1]
          /\ activations' = [activations EXCEPT ![By[s]] = @ + 1]
     ELSE UNCHANGED <<promo, activations>>
  /\ Moves(s, "over")
  /\ UNCHANGED payVars

ApplyDies(s) ==
  /\ submit[s] \in {"checked", "inserted"}
  /\ Moves(s, "over")
  /\ UNCHANGED <<payVars, promo, activations>>

TogglePromo ==
  /\ promo' = [promo EXCEPT !.active = ~@]
  /\ UNCHANGED <<payVars, activations, submit>>

BillingNext ==
  \/ \E p \in Payments : CreateAtProvider(p) \/ InsertRow(p) \/ ReturnUrl(p) \/ CreateDies(p)
                         \/ ProviderSettles(p)
  \/ \E c \in Calls : AskProvider(c) \/ WritePayment(c) \/ CallDies(c)
                      \/ \E p \in Payments : ReadPayment(c, p)
  \/ \E s \in Submits : CheckPromo(s) \/ InsertActivation(s) \/ ReserveSlot(s) \/ ApplyDies(s)
  \/ TogglePromo

BillingSpec == BillingInit /\ [][BillingNext]_billingVars

(***************************************************************************)
(* Properties.                                                             *)
(***************************************************************************)
\* A payment that was paid is one the status page and the webhook find, and
\* the plan was given with the status that says so (payments.py:113-124,
\* 150-156), wherever the handlers die.
PaidIsNotLost ==
  \A p \in Payments : provider[p] = "succeeded" =>
    /\ row[p] # "none"
    /\ row[p] = "succeeded" => p \in activated

\* Two handlers that overlap on one payment never take back a status that was
\* settled, although each writes over a row it read earlier.
SettledIsKept ==
  [][\A p \in Payments : row[p] \in Settled => row'[p] = row[p]]_billingVars

\* The counter is the number of activations, it stays under the cap and a user
\* counts once, however the requests overlap or die (promo.py:20-24, 208-240).
CapIsHonoured ==
  /\ promo.count <= MaxActivations
  /\ promo.count = Cardinality({u \in Users : activations[u] > 0})
  /\ \A u \in Users : activations[u] <= 1

=============================================================================
