------------------------------- MODULE Billing -------------------------------
(***************************************************************************)
(* The billing service: billing/services/billing.py, with its callers (the *)
(* heartbeat view, the payment webhooks and the manual top-up action, the  *)
(* daily bill_subscriptions command) and the vendor's edits of the same    *)
(* rows.  Requests of several workers interleave at every commit and at    *)
(* every unlocked read; a row lock is held to the end of its transaction,  *)
(* so a transaction that locks before it reads is one step.                *)
(***************************************************************************)
EXTENDS Integers, Sequences

CONSTANTS Tenants,       \* customer accounts
          NoTenant,      \* the tenant of a worker with no request
          Workers,       \* gunicorn workers, one request at a time each
          Crons,         \* runs of the bill_subscriptions command that may overlap
          Editors,       \* vendor sessions that save a whole row they read earlier
          ExternalIds,   \* provider transactions, (source, external_id) pairs
          NoExt,         \* external_id = ''
          Amounts,       \* amounts a top-up may carry
          MaxCredit,     \* MAX_CREDIT_AMOUNT
          MaxBalance,    \* the largest value of Decimal(14, 2)
          Policies,      \* [price, period_days, grace_days] the vendor may set
          MaxNow,        \* bound: the clock stops here
          MaxLedger      \* bound: no manual top-up once a ledger has this many rows

ASSUME BillingAssumption ==
  /\ NoTenant \notin Tenants
  /\ NoExt \notin ExternalIds
  /\ Crons \intersect Workers = {}
  /\ Amounts \subseteq Nat /\ MaxCredit \in Nat /\ MaxBalance \in Nat
  /\ Policies \subseteq [price: Int, period_days: Nat, grace_days: Nat]
  /\ MaxNow \in Nat /\ MaxLedger \in Nat

VARIABLES balance,       \* Tenant.balance
          ledger,        \* the Payment rows of each tenant, in commit order
          sub,           \* the Subscription row of each tenant
          paused,        \* the tenant's license key is SUSPENDED or REVOKED
          reported,      \* the status in the tenant's last heartbeat response
          now,           \* timezone.now()
          pc, req,       \* where each worker (or the command) is, and for whom
          todo,          \* the subscriptions each command run has yet to settle
          draft          \* the row each editor read and has not saved yet

db == <<balance, ledger, sub, paused, reported>>
vars == <<db, now, pc, req, todo, draft>>

Procs == Workers \union Crons
Exts == ExternalIds \union {NoExt}
Never == -1              \* paid_through IS NULL

Subscriptions ==
  [status: {"NONE", "ACTIVE", "CANCELED"}, price: Int,
   period_days: Nat, grace_days: Nat, paid_through: Nat \union {Never}]

NoSubscription == [status |-> "NONE", price |-> 0, period_days |-> 0,
                   grace_days |-> 0, paid_through |-> Never]

Terms(s, pol, st) ==     \* a row s whose policy and status were edited
  [status |-> st, price |-> pol.price, period_days |-> pol.period_days,
   grace_days |-> pol.grace_days, paid_through |-> s.paid_through]

(* A Payment row; for a charge, "at" is the instant it was judged at (the   *)
(* last_charged_at of the subscription) and "days" the period in its note.  *)
Rows == [kind: {"TOPUP", "CHARGE"}, amount: Nat, ext: Exts,
         balance_after: Int, at: Nat, days: Nat]

(* What a request keeps between its steps.  "suspended" is the key's state  *)
(* the heartbeat view read when it began (a top-up reads none); "paid",     *)
(* that its own settle() found the period paid or paid it, is history for   *)
(* PaidHeartbeatIsActive.                                                   *)
Requests == [kind: {"none", "heartbeat", "credit", "cron"},
             tenant: Tenants \union {NoTenant}, amount: Nat, ext: Exts,
             now: Nat, suspended: BOOLEAN, paid: BOOLEAN]

NoRequest == [kind |-> "none", tenant |-> NoTenant, amount |-> 0, ext |-> NoExt,
              now |-> 0, suspended |-> FALSE, paid |-> FALSE]

Drafts == [form: {"tenant", "subscription"}, tenant: Tenants,
           balance: Int, sub: Subscriptions]

NoDraft == [form |-> "none"]

Credited(e) == \E t \in Tenants : \E i \in 1..Len(ledger[t]) : ledger[t][i].ext = e

(* payment_unique_source_external_id, with the mutant that drops it. *)
NoConstraint(e) == FALSE
UniqueViolation(e) == e # NoExt /\ Credited(e)

Due(s, n) == s.paid_through = Never \/ s.paid_through <= n

Renewable(s) == s.status = "ACTIVE" /\ s.price > 0

(* What settle() checks under its locks.  The mutants forget the balance,   *)
(* the period already paid, and that a balance may equal the price.         *)
ChargeableUnfunded(s, funds, n) == Renewable(s) /\ Due(s, n)
ChargeableAgain(s, funds, n) == Renewable(s) /\ funds >= s.price
ChargeableAbove(s, funds, n) == Renewable(s) /\ Due(s, n) /\ funds > s.price
Chargeable(s, funds, n) == Renewable(s) /\ Due(s, n) /\ funds >= s.price

(* The period a charge buys starts at the charge; the mutant starts it      *)
(* where the last one ended, and so bills the downtime.                     *)
PaidFromLapse(s, n) == s.paid_through + s.period_days
PaidThrough(s, n) == n + s.period_days

(* resolve()'s verdict on a subscription row, as of the instant n. *)
Verdict(s, n) ==
  LET paidUp  == s.paid_through # Never /\ s.paid_through > n
      inGrace == s.paid_through # Never /\ s.paid_through + s.grace_days > n
  IN  IF \/ s.status = "NONE"
         \/ s.status = "CANCELED" /\ paidUp
         \/ s.status = "ACTIVE" /\ (s.price <= 0 \/ paidUp \/ inGrace)
      THEN "ACTIVE" ELSE "EXPIRED"

(* The answer of the heartbeat view: a suspension seen at the start wins    *)
(* over the verdict.  The mutant judges the row at the end of the request.  *)
AnswerLate(r) ==
  IF r.suspended THEN "SUSPENDED" ELSE Verdict(sub[r.tenant], now)
Answer(r) ==
  IF r.suspended THEN "SUSPENDED" ELSE Verdict(sub[r.tenant], r.now)

-----------------------------------------------------------------------------
Init ==
  /\ balance = [t \in Tenants |-> 0]
  /\ ledger = [t \in Tenants |-> <<>>]
  /\ sub = [t \in Tenants |-> NoSubscription]
  /\ paused = [t \in Tenants |-> FALSE]
  /\ reported = [t \in Tenants |-> "none"]
  /\ now = 0
  /\ pc = [p \in Procs |-> "idle"]
  /\ req = [p \in Procs |-> NoRequest]
  /\ todo = [c \in Crons |-> {}]
  /\ draft = [e \in Editors |-> NoDraft]

Goto(p, label, r) ==
  /\ pc' = [pc EXCEPT ![p] = label]
  /\ req' = [req EXCEPT ![p] = r]

Finish(p) == Goto(p, "idle", NoRequest)

(* Every movement of money: the wallet and its ledger row, in one           *)
(* transaction.  The mutant commits the wallet and loses the row.           *)
PostWithoutRow(t, row) ==
  balance' = [balance EXCEPT ![t] = row.balance_after] /\ UNCHANGED ledger
Post(t, row) ==
  /\ balance' = [balance EXCEPT ![t] = row.balance_after]
  /\ ledger' = [ledger EXCEPT ![t] = Append(@, row)]

(* settle() returns to its caller: resolve(), credit_balance() or the loop  *)
(* of the command.  The mutant forgets whose heartbeat it was.              *)
ReturnForgetful(p, paid) ==
  IF req[p].kind = "heartbeat" THEN Goto(p, "report", NoRequest) ELSE Finish(p)
Return(p, paid) ==
  CASE req[p].kind = "heartbeat" -> Goto(p, "report", [req[p] EXCEPT !.paid = paid])
    [] req[p].kind = "cron" -> Goto(p, "loop", NoRequest)
    [] OTHER -> Finish(p)

-----------------------------------------------------------------------------
(* The heartbeat view.  The key is read without a lock and its status kept  *)
(* for the rest of the request, as is the instant the request began.        *)

HeartbeatStart(p, t) ==
  /\ p \in Workers /\ pc[p] = "idle"
  /\ Goto(p, IF paused[t] THEN "report" ELSE "sub",      \* charge=not suspended
          [NoRequest EXCEPT !.kind = "heartbeat", !.tenant = t, !.now = now,
                            !.suspended = paused[t]])
  /\ UNCHANGED <<db, now, todo, draft>>

(* The subscription is read and settle() makes its cheap checks on what was *)
(* read.  A heartbeat of a tenant without a subscription answers at once.   *)
ReadSub(p) ==
  /\ pc[p] = "sub"
  /\ LET r == req[p]
         s == sub[r.tenant]
     IN  IF Renewable(s)
         THEN /\ Goto(p, "settle", IF r.kind = "credit" THEN [r EXCEPT !.now = now] ELSE r)
              /\ UNCHANGED reported
         ELSE IF r.kind = "heartbeat" /\ s.status = "NONE"
         THEN Finish(p) /\ reported' = [reported EXCEPT ![r.tenant] = "ACTIVE"]
         ELSE Return(p, FALSE) /\ UNCHANGED reported
  /\ UNCHANGED <<balance, ledger, sub, paused, now, todo, draft>>

(* The transaction of settle(): the subscription and then the tenant are    *)
(* locked, every check is made again, and the charge commits as a whole.    *)
SettleCharge(p) ==
  LET t == req[p].tenant
      s == sub[t]
      n == req[p].now
  IN  /\ pc[p] = "settle"
      /\ Chargeable(s, balance[t], n)
      /\ Post(t, [kind |-> "CHARGE", amount |-> s.price, ext |-> NoExt,
                  balance_after |-> balance[t] - s.price, at |-> n, days |-> s.period_days])
      /\ sub' = [sub EXCEPT ![t].paid_through = PaidThrough(s, n)]
      /\ Return(p, TRUE)
      /\ UNCHANGED <<paused, reported, now, todo, draft>>

SettleNothing(p) ==
  LET t == req[p].tenant
      s == sub[t]
      n == req[p].now
  IN  /\ pc[p] = "settle"
      /\ ~Chargeable(s, balance[t], n)
      /\ Return(p, Renewable(s) /\ ~Due(s, n))
      /\ UNCHANGED <<db, now, todo, draft>>

(* resolve() reads the row again and answers as of the request's instant.   *)
Report(p) ==
  LET r == req[p]
  IN  /\ pc[p] = "report"
      /\ reported' = [reported EXCEPT ![r.tenant] = Answer(r)]
      /\ Finish(p)
      /\ UNCHANGED <<balance, ledger, sub, paused, now, todo, draft>>

-----------------------------------------------------------------------------
(* credit_balance(): called by the Click and Payme webhooks with a provider *)
(* transaction, and by the manual top-up action with none.                  *)

CreditStart(p, t, a, e) ==
  /\ p \in Workers /\ pc[p] = "idle"
  /\ a > 0 /\ a <= MaxCredit                       \* else ValueError
  /\ e = NoExt => Len(ledger[t]) < MaxLedger
  /\ Goto(p, "check", [NoRequest EXCEPT !.kind = "credit", !.tenant = t, !.amount = a,
                                        !.ext = e])
  /\ UNCHANGED <<db, now, todo, draft>>

CreditReplayed(p) ==     \* the row exists: it is returned, nothing is settled
  /\ pc[p] = "check"
  /\ req[p].ext # NoExt /\ Credited(req[p].ext)
  /\ Finish(p)
  /\ UNCHANGED <<db, now, todo, draft>>

CreditUnseen(p) ==
  /\ pc[p] = "check"
  /\ ~(req[p].ext # NoExt /\ Credited(req[p].ext))
  /\ Goto(p, "credit", req[p])
  /\ UNCHANGED <<db, now, todo, draft>>

(* The tenant is locked, credited and the ledger row inserted; the unique   *)
(* constraint and the width of the column can each refuse the transaction.  *)
CreditCommit(p) ==
  LET r == req[p]
      t == r.tenant
  IN  /\ pc[p] = "credit"
      /\ ~UniqueViolation(r.ext)
      /\ balance[t] + r.amount <= MaxBalance
      /\ Post(t, [kind |-> "TOPUP", amount |-> r.amount, ext |-> r.ext,
                  balance_after |-> balance[t] + r.amount, at |-> now, days |-> 0])
      /\ Goto(p, "sub", r)
      /\ UNCHANGED <<sub, paused, reported, now, todo, draft>>

CreditRefused(p) ==
  LET r == req[p]
  IN  /\ pc[p] = "credit"
      /\ \/ UniqueViolation(r.ext)                 \* IntegrityError: the winner's row
         \/ balance[r.tenant] + r.amount > MaxBalance
      /\ Finish(p)
      /\ UNCHANGED <<db, now, todo, draft>>

-----------------------------------------------------------------------------
(* The bill_subscriptions command: the paused tenants and then the active   *)
(* subscriptions are read once; each settle() takes a fresh timezone.now(). *)

CronStart(c) ==
  /\ pc[c] = "idle"
  /\ Goto(c, "query", NoRequest)
  /\ todo' = [todo EXCEPT ![c] = {t \in Tenants : ~paused[t]}]
  /\ UNCHANGED <<db, now, draft>>

CronQuery(c) ==
  /\ pc[c] = "query"
  /\ Goto(c, "loop", NoRequest)
  /\ todo' = [todo EXCEPT ![c] = {t \in @ : Renewable(sub[t])}]
  /\ UNCHANGED <<db, now, draft>>

CronPick(c, t) ==
  /\ pc[c] = "loop" /\ t \in todo[c]
  /\ Goto(c, "settle", [NoRequest EXCEPT !.kind = "cron", !.tenant = t, !.now = now])
  /\ todo' = [todo EXCEPT ![c] = @ \ {t}]
  /\ UNCHANGED <<db, now, draft>>

CronEnd(c) ==
  /\ pc[c] = "loop" /\ todo[c] = {}
  /\ Finish(c)
  /\ UNCHANGED <<db, now, todo, draft>>

(* A worker is killed: its open transaction never was, its commits remain.  *)
Crash(p) ==
  /\ pc[p] # "idle"
  /\ Finish(p)
  /\ todo' = [c \in Crons |-> IF c = p THEN {} ELSE todo[c]]
  /\ UNCHANGED <<db, now, draft>>

-----------------------------------------------------------------------------
(* The vendor's edits that lock the row or write only their own column.     *)

Subscribe(t, pol) ==     \* the first registration creates the subscription
  /\ sub[t].status = "NONE"
  /\ sub' = [sub EXCEPT ![t] = Terms(@, pol, "ACTIVE")]
  /\ UNCHANGED <<balance, ledger, paused, reported, now, pc, req, todo, draft>>

UpdateSubscription(t, pol, st) ==
  /\ sub[t].status # "NONE"
  /\ sub' = [sub EXCEPT ![t] = Terms(@, pol, st)]
  /\ UNCHANGED <<balance, ledger, paused, reported, now, pc, req, todo, draft>>

SetPaused(t, on) ==      \* suspend and resume, judged on the row's status
  /\ paused[t] # on
  /\ paused' = [paused EXCEPT ![t] = on]
  /\ UNCHANGED <<balance, ledger, sub, reported, now, pc, req, todo, draft>>

(* PATCH of a tenant and the two Django admin forms read the row, edit it   *)
(* and save every column of it, the ones the form shows read-only included. *)

OpenForm(e, f, t) ==
  /\ draft[e] = NoDraft
  /\ f = "subscription" => sub[t].status # "NONE"
  /\ draft' = [draft EXCEPT ![e] =
       [form |-> f, tenant |-> t, balance |-> balance[t], sub |-> sub[t]]]
  /\ UNCHANGED <<db, now, pc, req, todo>>

SaveTenant(e) ==
  /\ draft[e].form = "tenant"
  /\ balance' = [balance EXCEPT ![draft[e].tenant] = draft[e].balance]
  /\ draft' = [draft EXCEPT ![e] = NoDraft]
  /\ UNCHANGED <<ledger, sub, paused, reported, now, pc, req, todo>>

SaveSubscription(e, pol, st) ==
  /\ draft[e].form = "subscription"
  /\ sub' = [sub EXCEPT ![draft[e].tenant] = Terms(draft[e].sub, pol, st)]
  /\ draft' = [draft EXCEPT ![e] = NoDraft]
  /\ UNCHANGED <<balance, ledger, paused, reported, now, pc, req, todo>>

Tick ==
  /\ now < MaxNow
  /\ now' = now + 1
  /\ UNCHANGED <<db, pc, req, todo, draft>>

-----------------------------------------------------------------------------
Heartbeat(p) == \E t \in Tenants : HeartbeatStart(p, t)

Settle(p) == SettleCharge(p) \/ SettleNothing(p)

Credit(p) ==
  \/ \E t \in Tenants, a \in Amounts, e \in Exts : CreditStart(p, t, a, e)
  \/ CreditReplayed(p) \/ CreditUnseen(p)
  \/ CreditCommit(p) \/ CreditRefused(p)

Command == \E c \in Crons :
  CronStart(c) \/ CronQuery(c) \/ CronEnd(c) \/ \E t \in Tenants : CronPick(c, t)

Vendor ==
  \/ \E t \in Tenants, pol \in Policies : Subscribe(t, pol)
  \/ \E t \in Tenants, pol \in Policies, st \in {"ACTIVE", "CANCELED"} :
       UpdateSubscription(t, pol, st)
  \/ \E t \in Tenants, on \in BOOLEAN : SetPaused(t, on)

Forms == \E e \in Editors :
  \/ \E t \in Tenants, f \in {"tenant", "subscription"} : OpenForm(e, f, t)
  \/ SaveTenant(e)
  \/ \E pol \in Policies, st \in {"ACTIVE", "CANCELED"} : SaveSubscription(e, pol, st)

Next ==
  \/ \E p \in Procs : \/ Heartbeat(p) \/ ReadSub(p) \/ Settle(p) \/ Report(p)
                      \/ Credit(p) \/ Crash(p)
  \/ Command \/ Vendor \/ Forms \/ Tick

Spec == Init /\ [][Next]_vars

(* The scheduling the deployment justifies: an installed POS phones home    *)
(* every five minutes, a worker runs the request it took, and a worker that *)
(* is killed now and then is not killed at the same step of every request.  *)
Fairness ==
  /\ \A t \in Tenants : SF_vars(\E p \in Workers : HeartbeatStart(p, t))
  /\ \A p \in Workers : /\ SF_vars(ReadSub(p)) /\ SF_vars(Settle(p)) /\ SF_vars(Report(p))
                        /\ WF_vars(CreditReplayed(p) \/ CreditUnseen(p))
                        /\ WF_vars(CreditCommit(p) \/ CreditRefused(p))

FairSpec == Spec /\ Fairness

-----------------------------------------------------------------------------
(* Properties                                                               *)

Labels == {"idle", "sub", "settle", "report", "check", "credit", "query", "loop"}
Serving == {"sub", "settle", "report", "check", "credit"}

ControlOK ==
  /\ pc \in [Procs -> Labels]
  /\ req \in [Procs -> Requests]
  /\ \A p \in Procs : pc[p] \in Serving => req[p].tenant \in Tenants

\* Every variable holds a value of its type, and a busy worker has a tenant.
TypeOK ==
  /\ balance \in [Tenants -> Int]
  /\ ledger \in [Tenants -> Seq(Rows)]
  /\ sub \in [Tenants -> Subscriptions]
  /\ paused \in [Tenants -> BOOLEAN]
  /\ reported \in [Tenants -> {"none", "ACTIVE", "EXPIRED", "SUSPENDED"}]
  /\ now \in 0..MaxNow
  /\ ControlOK
  /\ todo \in [Crons -> SUBSET Tenants]
  /\ draft \in [Editors -> Drafts \union {NoDraft}]

(* Each row of the Payment ledger continues the balance the row before it   *)
(* left, and the wallet holds what the last row says: "the Payment ledger   *)
(* and the wallet balance never drift apart" (billing.py:1-2).              *)
Opening(rows, i) == IF i = 1 THEN 0 ELSE rows[i - 1].balance_after

Signed(row) == IF row.kind = "TOPUP" THEN row.amount ELSE -row.amount

LedgerChain == \A t \in Tenants :
  /\ balance[t] = Opening(ledger[t], Len(ledger[t]) + 1)
  /\ \A i \in 1..Len(ledger[t]) :
       ledger[t][i].balance_after = Opening(ledger[t], i) + Signed(ledger[t][i])

(* No interleaving of heartbeats, command runs, top-ups and edits of the    *)
(* price lets settle() take a wallet below zero.                            *)
NoDebt == \A t \in Tenants : balance[t] >= 0

(* However often a webhook is retried, by however many workers at once and  *)
(* for whichever tenant, a provider transaction has at most one ledger row. *)
CreditedOnce == \A t, u \in Tenants :
  \A i \in 1..Len(ledger[t]), j \in 1..Len(ledger[u]) :
    ledger[t][i].ext # NoExt /\ ledger[t][i].ext = ledger[u][j].ext => t = u /\ i = j

(* settle() is "idempotent per period" (billing.py:6): a charge is never    *)
(* taken inside the period an earlier charge bought, even when heartbeats,  *)
(* webhooks and the command judge the renewal at different instants.        *)
ChargesDontOverlap == \A t \in Tenants : \A i, j \in 1..Len(ledger[t]) :
  i < j /\ ledger[t][i].kind = "CHARGE" /\ ledger[t][j].kind = "CHARGE" =>
    ledger[t][i].at + ledger[t][i].days <= ledger[t][j].at

(* A heartbeat whose own settle() found the period paid, or paid it, does   *)
(* not answer EXPIRED, whatever edits, ticks and charges come in between:   *)
(* the kill switch never fires on an install that is paid up.  A period of  *)
(* zero days, which only the Django form lets through, buys nothing.        *)
PaidHeartbeatIsActive == [][\A p \in Workers :
  /\ Report(p) /\ req[p].kind = "heartbeat" /\ req[p].paid
  /\ \A pol \in Policies : pol.period_days > 0
  => reported'[req[p].tenant] = "ACTIVE"]_vars

(* An install that from some point on is not suspended and can always pay   *)
(* is told ACTIVE from some point on, through crashes, retries and charges  *)
(* by other requests: "a cut-off install revives" (billing.py:12-13).       *)
Serviceable(t) ==
  /\ ~paused[t] /\ Renewable(sub[t])
  /\ ~Due(sub[t], now) \/ balance[t] >= sub[t].price

Revives == \A t \in Tenants : <>[]Serviceable(t) => <>[](reported[t] = "ACTIVE")

(* Forgetting workers, keys and forms, the service does what Wallet says.   *)
W == INSTANCE Wallet WITH
       wallet <- balance, contract <- sub, clock <- now,
       applied <- {e \in ExternalIds : Credited(e)}

RefinesWallet == W!Spec
=============================================================================
