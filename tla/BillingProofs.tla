---------------------------- MODULE BillingProofs ----------------------------
(***************************************************************************)
(* Proofs about Billing, for any tenants, workers, policies and amounts:   *)
(* its types, that the ledger and the wallet agree, that no wallet is      *)
(* negative, one credit per provider transaction, one charge per period,   *)
(* that it implements Wallet, and that a paid heartbeat is ACTIVE.         *)
(***************************************************************************)
EXTENDS Billing, SequenceTheorems, TLAPS

(***************************************************************************)
(* Type correctness.                                                       *)
(***************************************************************************)

(* Goto keeps the control state well typed when the label it goes to has    *)
(* the tenant it needs.                                                     *)
LEMMA GotoTyped ==
  ASSUME ControlOK, NEW p \in Procs, NEW label \in Labels, NEW r \in Requests,
         label \in Serving => r.tenant \in Tenants, Goto(p, label, r)
  PROVE  ControlOK'
BY DEF ControlOK, Goto

(* The empty request is a request. *)
LEMMA NoRequestTyped == NoRequest \in Requests
BY DEF NoRequest, Requests, Exts

(* So is the idle state a safe place to go to. *)
LEMMA FinishTyped ==
  ASSUME ControlOK, NEW p \in Procs, Finish(p)
  PROVE  ControlOK'
BY GotoTyped, NoRequestTyped DEF Finish, Labels, Serving

(* settle() hands every caller back a well-typed control state. *)
LEMMA ReturnTyped ==
  ASSUME ControlOK, NEW p \in Procs, NEW paid \in BOOLEAN,
         pc[p] \in Serving, Return(p, paid)
  PROVE  ControlOK'
<1>1. req[p] \in Requests /\ req[p].tenant \in Tenants
  BY DEF ControlOK
<1>2. [req[p] EXCEPT !.paid = paid] \in Requests
  BY <1>1 DEF Requests
<1>3. CASE req[p].kind = "heartbeat"
  BY <1>1, <1>2, <1>3, GotoTyped DEF Return, Labels, Requests
<1>4. CASE req[p].kind = "cron"
  BY <1>4, GotoTyped, NoRequestTyped DEF Return, Labels, Serving
<1>5. CASE req[p].kind \notin {"heartbeat", "cron"}
  BY <1>5, FinishTyped DEF Return
<1>6. QED  BY <1>3, <1>4, <1>5

(* A posted row keeps the wallet a number and the ledger a list of rows. *)
LEMMA PostTyped ==
  ASSUME TypeOK, NEW t \in Tenants, NEW row \in Rows, Post(t, row)
  PROVE  balance' \in [Tenants -> Int] /\ ledger' \in [Tenants -> Seq(Rows)]
<1>1. row.balance_after \in Int
  BY DEF Rows
<1>2. Append(ledger[t], row) \in Seq(Rows)
  BY AppendProperties DEF TypeOK
<1>3. QED  BY <1>1, <1>2 DEF TypeOK, Post

(* The types of what the actions build. *)
LEMMA TermsTyped ==
  ASSUME NEW s \in Subscriptions, NEW pol \in Policies, NEW st \in {"ACTIVE", "CANCELED"}
  PROVE  Terms(s, pol, st) \in Subscriptions
BY BillingAssumption DEF Terms, Subscriptions

LEMMA AnswerTyped ==
  ASSUME TypeOK, NEW r \in Requests
  PROVE  Answer(r) \in {"ACTIVE", "EXPIRED", "SUSPENDED"}
BY DEF Answer, Verdict

(* The clock is a natural number: it fits every field that keeps an instant. *)
LEMMA NowTyped == TypeOK => now \in Nat
BY BillingAssumption DEF TypeOK

(* Every variable keeps its type, whatever the constants. *)
THEOREM Typing == Spec => []TypeOK
<1>1. Init => TypeOK
  BY NoRequestTyped, BillingAssumption
     DEF Init, TypeOK, ControlOK, Subscriptions, NoSubscription, Labels, Serving, Never
<1>2. TypeOK /\ [Next]_vars => TypeOK'
  <2> SUFFICES ASSUME TypeOK, [Next]_vars PROVE TypeOK'
    OBVIOUS
  <2>0. ControlOK
    BY DEF TypeOK
  <2>1. ASSUME NEW p \in Procs, NEW t \in Tenants, HeartbeatStart(p, t) PROVE TypeOK'
    <3> DEFINE r == [NoRequest EXCEPT !.kind = "heartbeat", !.tenant = t, !.now = now,
                                      !.suspended = paused[t]]
    <3>1. r \in Requests /\ r.tenant = t
      BY NowTyped DEF Requests, NoRequest, TypeOK, Exts
    <3>2. ControlOK'
      BY <2>0, <2>1, <3>1, GotoTyped DEF HeartbeatStart, Labels
    <3>3. QED  BY <2>1, <3>2 DEF HeartbeatStart, TypeOK, db
  <2>2. ASSUME NEW p \in Procs, ReadSub(p) PROVE TypeOK'
    <3>1. pc[p] \in Serving /\ req[p] \in Requests /\ req[p].tenant \in Tenants
      BY <2>0, <2>2 DEF ReadSub, ControlOK, Serving
    <3>2. [req[p] EXCEPT !.now = now] \in Requests
      BY <3>1, NowTyped DEF Requests
    <3>3. ControlOK'
      <4>1. CASE Renewable(sub[req[p].tenant])
        BY <2>0, <2>2, <3>1, <3>2, <4>1, GotoTyped DEF ReadSub, Labels, Requests
      <4>2. CASE ~Renewable(sub[req[p].tenant])
        BY <2>0, <2>2, <3>1, <4>2, ReturnTyped, FinishTyped DEF ReadSub
      <4>3. QED  BY <4>1, <4>2
    <3>4. reported' \in [Tenants -> {"none", "ACTIVE", "EXPIRED", "SUSPENDED"}]
      BY <2>2 DEF ReadSub, TypeOK
    <3>5. QED  BY <2>2, <3>3, <3>4 DEF ReadSub, TypeOK
  <2>3. ASSUME NEW p \in Procs, SettleCharge(p) PROVE TypeOK'
    <3> DEFINE t == req[p].tenant
               s == sub[t]
               n == req[p].now
               row == [kind |-> "CHARGE", amount |-> s.price, ext |-> NoExt,
                       balance_after |-> balance[t] - s.price, at |-> n,
                       days |-> s.period_days]
    <3>1. pc[p] \in Serving /\ t \in Tenants /\ n \in Nat
      BY <2>0, <2>3 DEF SettleCharge, ControlOK, Serving, Requests
    <3>2. s \in Subscriptions /\ s.price \in Nat /\ balance[t] \in Int
      BY <2>3, <3>1 DEF SettleCharge, Chargeable, Renewable, TypeOK, Subscriptions
    <3>3. row \in Rows
      BY <3>1, <3>2 DEF Rows, Subscriptions, Exts
    <3>4. balance' \in [Tenants -> Int] /\ ledger' \in [Tenants -> Seq(Rows)]
      BY <2>3, <3>1, <3>3, PostTyped DEF SettleCharge
    <3>5. sub' \in [Tenants -> Subscriptions]
      <4>1. PaidThrough(s, n) \in Nat
        BY <3>1, <3>2 DEF PaidThrough, Subscriptions
      <4>2. [s EXCEPT !.paid_through = PaidThrough(s, n)] \in Subscriptions
        BY <3>2, <4>1 DEF Subscriptions
      <4>3. QED  BY <2>3, <4>2 DEF SettleCharge, TypeOK
    <3>6. ControlOK'
      BY <2>0, <2>3, <3>1, ReturnTyped DEF SettleCharge
    <3>7. QED  BY <2>3, <3>4, <3>5, <3>6 DEF SettleCharge, TypeOK
  <2>4. ASSUME NEW p \in Procs, SettleNothing(p) PROVE TypeOK'
    <3>1. ControlOK'
      BY <2>0, <2>4, ReturnTyped DEF SettleNothing, Serving
    <3>2. QED  BY <2>4, <3>1 DEF SettleNothing, TypeOK, db
  <2>5. ASSUME NEW p \in Procs, Report(p) PROVE TypeOK'
    <3>1. req[p] \in Requests
      BY <2>0 DEF ControlOK
    <3>2. reported' \in [Tenants -> {"none", "ACTIVE", "EXPIRED", "SUSPENDED"}]
      BY <2>5, <3>1, AnswerTyped DEF Report, TypeOK
    <3>3. ControlOK'
      BY <2>0, <2>5, FinishTyped DEF Report
    <3>4. QED  BY <2>5, <3>2, <3>3 DEF Report, TypeOK
  <2>6. ASSUME NEW p \in Procs, Credit(p) PROVE TypeOK'
    <3>0. req[p] \in Requests
      BY <2>0 DEF ControlOK
    <3>1. ASSUME NEW t \in Tenants, NEW a \in Amounts, NEW e \in Exts,
                 CreditStart(p, t, a, e)
          PROVE  TypeOK'
      <4> DEFINE r == [NoRequest EXCEPT !.kind = "credit", !.tenant = t, !.amount = a,
                                        !.ext = e]
      <4>1. r \in Requests /\ r.tenant = t
        BY NowTyped, BillingAssumption DEF Requests, NoRequest, TypeOK, Exts
      <4>2. ControlOK'
        BY <2>0, <3>1, <4>1, GotoTyped DEF CreditStart, Labels
      <4>3. QED  BY <3>1, <4>2 DEF CreditStart, TypeOK, db
    <3>2. CASE CreditReplayed(p) \/ CreditRefused(p)
      <4>1. ControlOK'
        BY <2>0, <3>2, FinishTyped DEF CreditReplayed, CreditRefused
      <4>2. QED  BY <3>2, <4>1 DEF CreditReplayed, CreditRefused, TypeOK, db
    <3>3. CASE CreditUnseen(p)
      <4>1. req[p].tenant \in Tenants
        BY <2>0, <3>3 DEF CreditUnseen, ControlOK, Serving
      <4>2. ControlOK'
        BY <2>0, <3>0, <3>3, <4>1, GotoTyped DEF CreditUnseen, Labels
      <4>3. QED  BY <3>3, <4>2 DEF CreditUnseen, TypeOK, db
    <3>4. CASE CreditCommit(p)
      <4> DEFINE r == req[p]
                 t == r.tenant
                 row == [kind |-> "TOPUP", amount |-> r.amount, ext |-> r.ext,
                         balance_after |-> balance[t] + r.amount, at |-> now, days |-> 0]
      <4>1. t \in Tenants /\ balance[t] \in Int /\ now \in Nat
        BY <2>0, <3>4, BillingAssumption DEF CreditCommit, ControlOK, Serving, TypeOK
      <4>2. row \in Rows
        BY <3>0, <4>1 DEF Rows, Requests
      <4>3. balance' \in [Tenants -> Int] /\ ledger' \in [Tenants -> Seq(Rows)]
        BY <3>4, <4>1, <4>2, PostTyped DEF CreditCommit
      <4>4. ControlOK'
        BY <2>0, <3>0, <3>4, <4>1, GotoTyped DEF CreditCommit, Labels
      <4>5. QED  BY <3>4, <4>3, <4>4 DEF CreditCommit, TypeOK
    <3>5. QED  BY <2>6, <3>1, <3>2, <3>3, <3>4 DEF Credit
  <2>7. ASSUME NEW c \in Crons,
               CronStart(c) \/ CronQuery(c) \/ CronEnd(c) \/ \E t \in Tenants : CronPick(c, t)
        PROVE  TypeOK'
    <3>0. c \in Procs
      BY DEF Procs
    <3>1. CASE CronStart(c)
      <4>1. ControlOK'
        BY <2>0, <3>0, <3>1, GotoTyped, NoRequestTyped DEF CronStart, Labels, Serving
      <4>2. QED  BY <3>1, <4>1 DEF CronStart, TypeOK, db
    <3>2. CASE CronQuery(c)
      <4>1. ControlOK'
        BY <2>0, <3>0, <3>2, GotoTyped, NoRequestTyped DEF CronQuery, Labels, Serving
      <4>2. QED  BY <3>2, <4>1 DEF CronQuery, TypeOK, db
    <3>3. CASE CronEnd(c)
      <4>1. ControlOK'
        BY <2>0, <3>0, <3>3, FinishTyped DEF CronEnd
      <4>2. QED  BY <3>3, <4>1 DEF CronEnd, TypeOK, db
    <3>4. ASSUME NEW t \in Tenants, CronPick(c, t) PROVE TypeOK'
      <4> DEFINE r == [NoRequest EXCEPT !.kind = "cron", !.tenant = t, !.now = now]
      <4>1. r \in Requests /\ r.tenant = t
        BY NowTyped, BillingAssumption DEF Requests, NoRequest, TypeOK, Exts
      <4>2. ControlOK'
        BY <2>0, <3>0, <3>4, <4>1, GotoTyped DEF CronPick, Labels
      <4>3. QED  BY <3>4, <4>2 DEF CronPick, TypeOK, db
    <3>5. QED  BY <2>7, <3>1, <3>2, <3>3, <3>4
  <2>8. ASSUME NEW p \in Procs, Crash(p) PROVE TypeOK'
    <3>1. ControlOK'
      BY <2>0, <2>8, FinishTyped DEF Crash
    <3>2. QED  BY <2>8, <3>1 DEF Crash, TypeOK, db
  <2>9. ASSUME Vendor PROVE TypeOK'
    <3>1. ASSUME NEW t \in Tenants, NEW pol \in Policies, NEW st \in {"ACTIVE", "CANCELED"},
                 Subscribe(t, pol) \/ UpdateSubscription(t, pol, st)
          PROVE  TypeOK'
      <4>1. sub' \in [Tenants -> Subscriptions]
        <5>1. /\ Terms(sub[t], pol, "ACTIVE") \in Subscriptions
              /\ Terms(sub[t], pol, st) \in Subscriptions
          BY TermsTyped DEF TypeOK
        <5>2. QED  BY <3>1, <5>1 DEF Subscribe, UpdateSubscription, TypeOK
      <4>2. QED
        BY <3>1, <4>1 DEF Subscribe, UpdateSubscription, TypeOK, ControlOK
    <3>2. ASSUME NEW t \in Tenants, NEW on \in BOOLEAN, SetPaused(t, on) PROVE TypeOK'
      BY <3>2 DEF SetPaused, TypeOK, ControlOK
    <3>3. QED  BY <2>9, <3>1, <3>2 DEF Vendor
  <2>10. ASSUME NEW e \in Editors,
                \/ \E t \in Tenants, f \in {"tenant", "subscription"} : OpenForm(e, f, t)
                \/ SaveTenant(e)
                \/ \E pol \in Policies, st \in {"ACTIVE", "CANCELED"} :
                     SaveSubscription(e, pol, st)
         PROVE  TypeOK'
    <3>1. ASSUME NEW t \in Tenants, NEW f \in {"tenant", "subscription"}, OpenForm(e, f, t)
          PROVE  TypeOK'
      <4>1. [form |-> f, tenant |-> t, balance |-> balance[t], sub |-> sub[t]] \in Drafts
        BY DEF Drafts, TypeOK
      <4>2. QED  BY <3>1, <4>1 DEF OpenForm, TypeOK, ControlOK, db
    <3>2. CASE SaveTenant(e)
      <4>1. draft[e] \in Drafts
        BY <3>2 DEF SaveTenant, TypeOK, NoDraft
      <4>2. QED  BY <3>2, <4>1 DEF SaveTenant, TypeOK, ControlOK, Drafts
    <3>3. ASSUME NEW pol \in Policies, NEW st \in {"ACTIVE", "CANCELED"},
                 SaveSubscription(e, pol, st)
          PROVE  TypeOK'
      <4>1. draft[e] \in Drafts
        BY <3>3 DEF SaveSubscription, TypeOK, NoDraft
      <4>2. Terms(draft[e].sub, pol, st) \in Subscriptions
        BY <4>1, TermsTyped DEF Drafts
      <4>3. QED  BY <3>3, <4>1, <4>2 DEF SaveSubscription, TypeOK, ControlOK
    <3>4. QED  BY <2>10, <3>1, <3>2, <3>3
  <2>11. CASE Tick
    BY <2>11, BillingAssumption DEF Tick, TypeOK, ControlOK, db
  <2>12. CASE UNCHANGED vars
    BY <2>12 DEF vars, db, TypeOK, ControlOK
  <2>13. QED
    BY <2>1, <2>2, <2>3, <2>4, <2>5, <2>6, <2>7, <2>8, <2>9, <2>10, <2>11, <2>12
       DEF Next, Heartbeat, Settle, Command, Forms
<1>3. QED  BY <1>1, <1>2, PTL DEF Spec

(***************************************************************************)
(* What a step may do to money.                                            *)
(***************************************************************************)

(* A step that moves neither money nor the time a subscription is paid to,  *)
(* and stores in a form only a balance some wallet holds.                   *)
Quiet ==
  /\ UNCHANGED <<balance, ledger>>
  /\ \A t \in Tenants : sub'[t].paid_through = sub[t].paid_through
  /\ \A e \in Editors : \/ draft'[e] = draft[e]
                        \/ \E t \in Tenants : draft'[e].balance = balance[t]

(* Every step charges, credits, saves a stale row, or is quiet. *)
LEMMA MoneyStep ==
  ASSUME TypeOK, [Next]_vars
  PROVE  \/ \E p \in Procs : SettleCharge(p) \/ CreditCommit(p)
         \/ \E e \in Editors : SaveTenant(e)
         \/ \E e \in Editors, pol \in Policies, st \in {"ACTIVE", "CANCELED"} :
              SaveSubscription(e, pol, st)
         \/ Quiet
<1>1. ASSUME NEW p \in Procs,
             \/ Heartbeat(p) \/ ReadSub(p) \/ SettleNothing(p) \/ Report(p) \/ Crash(p)
             \/ \E t \in Tenants, a \in Amounts, e \in Exts : CreditStart(p, t, a, e)
             \/ CreditReplayed(p) \/ CreditUnseen(p) \/ CreditRefused(p)
      PROVE  Quiet
  BY <1>1 DEF Heartbeat, HeartbeatStart, ReadSub, SettleNothing, Report, Crash,
              CreditStart, CreditReplayed, CreditUnseen, CreditRefused, Quiet, db
<1>2. CASE Command
  BY <1>2 DEF Command, CronStart, CronQuery, CronEnd, CronPick, Quiet, db
<1>3. CASE Vendor
  <2>1. ASSUME NEW t \in Tenants, NEW pol \in Policies, NEW st \in {"ACTIVE", "CANCELED"},
               Subscribe(t, pol) \/ UpdateSubscription(t, pol, st)
        PROVE  Quiet
    <3>1. PICK x \in {"ACTIVE", st} : sub' = [sub EXCEPT ![t] = Terms(sub[t], pol, x)]
      BY <2>1 DEF Subscribe, UpdateSubscription
    <3>2. Terms(sub[t], pol, x).paid_through = sub[t].paid_through
      BY DEF Terms
    <3>3. \A u \in Tenants : sub'[u].paid_through = sub[u].paid_through
      BY <3>1, <3>2 DEF TypeOK
    <3>4. QED  BY <2>1, <3>3 DEF Subscribe, UpdateSubscription, Quiet
  <2>2. ASSUME NEW t \in Tenants, NEW on \in BOOLEAN, SetPaused(t, on) PROVE Quiet
    BY <2>2 DEF SetPaused, Quiet
  <2>3. QED  BY <1>3, <2>1, <2>2 DEF Vendor
<1>4. ASSUME NEW e \in Editors, NEW t \in Tenants, NEW f \in {"tenant", "subscription"},
             OpenForm(e, f, t)
      PROVE  Quiet
  BY <1>4 DEF OpenForm, Quiet, TypeOK, db
<1>5. CASE Tick \/ UNCHANGED vars
  BY <1>5 DEF Tick, Quiet, vars, db
<1>6. QED  BY <1>1, <1>2, <1>3, <1>4, <1>5 DEF Next, Settle, Credit, Forms

(***************************************************************************)
(* The ledger and the wallet never drift apart, as long as no vendor       *)
(* session saves a whole row it read earlier.                              *)
(***************************************************************************)

(* A row that continues the last balance keeps a chained ledger chained. *)
LEMMA PostChains ==
  ASSUME TypeOK, LedgerChain, NEW t \in Tenants, NEW row \in Rows, Post(t, row),
         row.balance_after = balance[t] + Signed(row)
  PROVE  LedgerChain'
<1> DEFINE old == ledger[t]
           new == Append(old, row)
<1>1. old \in Seq(Rows) /\ ledger'[t] = new /\ balance'[t] = row.balance_after
  BY DEF TypeOK, Post
<1>2. /\ Len(new) = Len(old) + 1 /\ Len(old) \in Nat
      /\ \A i \in 1..Len(old) : new[i] = old[i]
      /\ new[Len(old) + 1] = row
  BY <1>1, AppendProperties
<1>3. balance'[t] = Opening(new, Len(new) + 1)
  BY <1>1, <1>2 DEF Opening
<1>4. ASSUME NEW i \in 1..Len(new)
      PROVE  new[i].balance_after = Opening(new, i) + Signed(new[i])
  <2>1. CASE i \in 1..Len(old)
    <3>1. new[i] = old[i] /\ Opening(new, i) = Opening(old, i)
      BY <1>2, <2>1 DEF Opening
    <3>2. QED  BY <2>1, <3>1 DEF LedgerChain
  <2>2. CASE i = Len(old) + 1
    <3>1. Opening(new, i) = Opening(old, i)
      BY <1>2, <2>2 DEF Opening
    <3>2. Opening(old, i) = balance[t]
      BY <2>2 DEF LedgerChain
    <3>3. QED  BY <1>2, <2>2, <3>1, <3>2
  <2>3. QED  BY <1>2, <2>1, <2>2
<1>5. ASSUME NEW u \in Tenants, u # t
      PROVE  balance'[u] = balance[u] /\ ledger'[u] = ledger[u]
  BY <1>5 DEF Post, TypeOK
<1>6. QED
  <2> SUFFICES ASSUME NEW u \in Tenants
               PROVE  /\ balance'[u] = Opening(ledger'[u], Len(ledger'[u]) + 1)
                      /\ \A i \in 1..Len(ledger'[u]) : ledger'[u][i].balance_after =
                           Opening(ledger'[u], i) + Signed(ledger'[u][i])
    BY DEF LedgerChain, Opening, Signed
  <2>1. CASE u = t
    BY <1>1, <1>3, <1>4, <2>1
  <2>2. CASE u # t
    BY <1>5, <2>2 DEF LedgerChain
  <2>3. QED  BY <2>1, <2>2

(* The row of a charge is a row, and continues the balance. *)
LEMMA ChargeRow ==
  ASSUME TypeOK, NEW p \in Procs, SettleCharge(p)
  PROVE  LET t == req[p].tenant
             s == sub[t]
             row == [kind |-> "CHARGE", amount |-> s.price, ext |-> NoExt,
                     balance_after |-> balance[t] - s.price, at |-> req[p].now,
                     days |-> s.period_days]
         IN  /\ t \in Tenants /\ req[p].now \in Nat /\ s \in Subscriptions
             /\ s.price \in Nat /\ balance[t] \in Int /\ s.price <= balance[t]
             /\ row \in Rows /\ row.balance_after = balance[t] + Signed(row)
             /\ Post(t, row)
<1> DEFINE t == req[p].tenant
           s == sub[t]
<1>1. t \in Tenants /\ req[p].now \in Nat
  BY DEF SettleCharge, TypeOK, ControlOK, Serving, Requests
<1>2. s \in Subscriptions /\ balance[t] \in Int
  BY <1>1 DEF TypeOK
<1>3. s.price \in Nat /\ s.price <= balance[t]
  BY <1>2 DEF SettleCharge, Chargeable, Renewable, Subscriptions
<1>4. QED  BY <1>1, <1>2, <1>3 DEF SettleCharge, Rows, Subscriptions, Exts, Signed

(* So is the row of a top-up. *)
LEMMA TopUpRow ==
  ASSUME TypeOK, NEW p \in Procs, CreditCommit(p)
  PROVE  LET r == req[p]
             t == r.tenant
             row == [kind |-> "TOPUP", amount |-> r.amount, ext |-> r.ext,
                     balance_after |-> balance[t] + r.amount, at |-> now, days |-> 0]
         IN  /\ t \in Tenants /\ r.amount \in Nat /\ r.ext \in Exts /\ balance[t] \in Int
             /\ row \in Rows /\ row.balance_after = balance[t] + Signed(row)
             /\ Post(t, row)
<1> DEFINE r == req[p]
           t == r.tenant
<1>1. t \in Tenants /\ r.amount \in Nat /\ r.ext \in Exts
  BY DEF CreditCommit, TypeOK, ControlOK, Serving, Requests
<1>2. balance[t] \in Int /\ now \in Nat
  BY <1>1, NowTyped DEF TypeOK
<1>3. QED  BY <1>1, <1>2 DEF CreditCommit, Rows, Signed

(* LedgerChain for every instance in which no stale row is saved. *)
THEOREM LedgerNeverDrifts ==
  ASSUME Editors = {}
  PROVE  Spec => []LedgerChain
<1>1. Init => LedgerChain
  <2> SUFFICES ASSUME Init, NEW t \in Tenants
               PROVE  /\ balance[t] = Opening(ledger[t], Len(ledger[t]) + 1)
                      /\ 1..Len(ledger[t]) = {}
    BY DEF LedgerChain
  <2>1. balance[t] = 0 /\ Len(ledger[t]) = 0
    BY DEF Init
  <2>2. QED  BY <2>1 DEF Opening
<1>2. TypeOK /\ LedgerChain /\ [Next]_vars => LedgerChain'
  <2> SUFFICES ASSUME TypeOK, LedgerChain, [Next]_vars PROVE LedgerChain'
    OBVIOUS
  <2>1. ASSUME NEW p \in Procs, SettleCharge(p) PROVE LedgerChain'
    BY <2>1, ChargeRow, PostChains
  <2>2. ASSUME NEW p \in Procs, CreditCommit(p) PROVE LedgerChain'
    BY <2>2, TopUpRow, PostChains
  <2>3. CASE Quiet
    BY <2>3 DEF Quiet, LedgerChain, Opening, Signed
  <2>4. QED  BY <2>1, <2>2, <2>3, MoneyStep
<1>3. QED  BY <1>1, <1>2, Typing, PTL DEF Spec

(* The rows a step posts: the old ones, or the new one at the end. *)
LEMMA PostedRows ==
  ASSUME TypeOK, NEW t \in Tenants, NEW row \in Rows, Post(t, row),
         NEW u \in Tenants, NEW i \in 1..Len(ledger'[u])
  PROVE  \/ i \in 1..Len(ledger[u]) /\ ledger'[u][i] = ledger[u][i]
         \/ u = t /\ i = Len(ledger[t]) + 1 /\ ledger'[u][i] = row
<1>1. ledger' = [ledger EXCEPT ![t] = Append(ledger[t], row)] /\ ledger[t] \in Seq(Rows)
  BY DEF Post, TypeOK
<1>2. CASE u # t
  BY <1>1, <1>2 DEF TypeOK
<1>3. CASE u = t
  <2>1. ledger'[t] = Append(ledger[t], row)
    BY <1>1 DEF TypeOK
  <2>2. QED  BY <1>1, <1>3, <2>1, AppendProperties
<1>4. QED  BY <1>2, <1>3

(***************************************************************************)
(* No wallet goes below zero, whoever saves what.                          *)
(***************************************************************************)

(* Inductive: a stale balance waiting in a form was a wallet's once. *)
FundsOK ==
  /\ NoDebt
  /\ \A e \in Editors : draft[e] # NoDraft => draft[e].balance >= 0

(* NoDebt, for every instance. *)
THEOREM WalletsStaySolvent == Spec => []NoDebt
<1>1. Init => FundsOK
  BY DEF Init, FundsOK, NoDebt
<1>2. TypeOK /\ FundsOK /\ [Next]_vars => FundsOK'
  <2> SUFFICES ASSUME TypeOK, FundsOK, [Next]_vars PROVE FundsOK'
    OBVIOUS
  <2>1. ASSUME NEW p \in Procs, SettleCharge(p) PROVE FundsOK'
    <3> DEFINE t == req[p].tenant
    <3>1. /\ t \in Tenants /\ balance[t] \in Int /\ sub[t].price \in Nat
          /\ sub[t].price <= balance[t]
      BY <2>1, ChargeRow
    <3>2. NoDebt'
      <4>1. balance' = [balance EXCEPT ![t] = balance[t] - sub[t].price]
        BY <2>1 DEF SettleCharge, Post
      <4>2. balance[t] - sub[t].price >= 0
        BY <3>1
      <4>3. QED  BY <3>1, <4>1, <4>2 DEF FundsOK, NoDebt, TypeOK
    <3>3. draft' = draft
      BY <2>1 DEF SettleCharge
    <3>4. QED  BY <3>2, <3>3 DEF FundsOK
  <2>2. ASSUME NEW p \in Procs, CreditCommit(p) PROVE FundsOK'
    <3> DEFINE t == req[p].tenant
    <3>1. t \in Tenants /\ balance[t] \in Int /\ req[p].amount \in Nat
      BY <2>2, TopUpRow
    <3>2. NoDebt'
      <4>1. balance' = [balance EXCEPT ![t] = balance[t] + req[p].amount]
        BY <2>2 DEF CreditCommit, Post
      <4>2. balance[t] + req[p].amount >= 0
        BY <3>1 DEF FundsOK, NoDebt
      <4>3. QED  BY <3>1, <4>1, <4>2 DEF FundsOK, NoDebt, TypeOK
    <3>3. draft' = draft
      BY <2>2 DEF CreditCommit
    <3>4. QED  BY <3>2, <3>3 DEF FundsOK
  <2>3. ASSUME NEW e \in Editors, SaveTenant(e) PROVE FundsOK'
    <3>1. draft[e] \in Drafts /\ draft[e].balance >= 0
      BY <2>3 DEF SaveTenant, TypeOK, NoDraft, FundsOK
    <3>2. NoDebt'
      BY <2>3, <3>1 DEF SaveTenant, FundsOK, NoDebt, TypeOK, Drafts
    <3>3. QED  BY <2>3, <3>2 DEF SaveTenant, FundsOK, TypeOK
  <2>4. ASSUME NEW e \in Editors, NEW pol \in Policies, NEW st \in {"ACTIVE", "CANCELED"},
               SaveSubscription(e, pol, st)
        PROVE  FundsOK'
    BY <2>4 DEF SaveSubscription, FundsOK, NoDebt, TypeOK
  <2>5. CASE Quiet
    BY <2>5 DEF Quiet, FundsOK, NoDebt, TypeOK
  <2>6. QED  BY <2>1, <2>2, <2>3, <2>4, <2>5, MoneyStep
<1>3. FundsOK => NoDebt
  BY DEF FundsOK
<1>4. QED  BY <1>1, <1>2, <1>3, Typing, PTL DEF Spec

(***************************************************************************)
(* A provider transaction is credited at most once, whatever the tenants   *)
(* and workers, the crashes and the retries.                               *)
(***************************************************************************)

(* A row with a new external_id, or with none, keeps the ids unique. *)
LEMMA PostUnique ==
  ASSUME TypeOK, CreditedOnce, NEW t \in Tenants, NEW row \in Rows, Post(t, row),
         row.ext = NoExt \/ ~Credited(row.ext)
  PROVE  CreditedOnce'
<1>2. ASSUME NEW u \in Tenants, NEW i \in 1..Len(ledger'[u])
      PROVE  \/ i \in 1..Len(ledger[u]) /\ ledger'[u][i] = ledger[u][i]
             \/ u = t /\ i = Len(ledger[t]) + 1 /\ ledger'[u][i] = row
  BY PostedRows
<1>3. ASSUME NEW u \in Tenants, NEW i \in 1..Len(ledger[u]), row.ext # NoExt
      PROVE  ledger[u][i].ext # row.ext
  BY <1>3 DEF Credited
<1>4. QED
  <2> SUFFICES ASSUME NEW u \in Tenants, NEW w \in Tenants,
                      NEW i \in 1..Len(ledger'[u]), NEW j \in 1..Len(ledger'[w]),
                      ledger'[u][i].ext # NoExt,
                      ledger'[u][i].ext = ledger'[w][j].ext
               PROVE  u = w /\ i = j
    BY DEF CreditedOnce
  <2>1. CASE i \in 1..Len(ledger[u]) /\ ledger'[u][i] = ledger[u][i]
    <3>1. CASE j \in 1..Len(ledger[w]) /\ ledger'[w][j] = ledger[w][j]
      BY <2>1, <3>1 DEF CreditedOnce
    <3>2. CASE w = t /\ ledger'[w][j] = row
      BY <2>1, <3>2, <1>3
    <3>3. QED  BY <1>2, <3>1, <3>2
  <2>2. CASE u = t /\ i = Len(ledger[t]) + 1 /\ ledger'[u][i] = row
    <3>1. CASE j \in 1..Len(ledger[w]) /\ ledger'[w][j] = ledger[w][j]
      BY <2>2, <3>1, <1>3
    <3>2. CASE w = t /\ j = Len(ledger[t]) + 1
      BY <2>2, <3>2
    <3>3. QED  BY <1>2, <3>1, <3>2
  <2>3. QED  BY <1>2, <2>1, <2>2

(* CreditedOnce, for every instance. *)
THEOREM ProviderCreditsOnce == Spec => []CreditedOnce
<1>1. Init => CreditedOnce
  <2> SUFFICES ASSUME Init, NEW t \in Tenants PROVE 1..Len(ledger[t]) = {}
    BY DEF CreditedOnce
  <2>1. Len(ledger[t]) = 0
    BY DEF Init
  <2>2. QED  BY <2>1
<1>2. TypeOK /\ CreditedOnce /\ [Next]_vars => CreditedOnce'
  <2> SUFFICES ASSUME TypeOK, CreditedOnce, [Next]_vars PROVE CreditedOnce'
    OBVIOUS
  <2>1. ASSUME NEW p \in Procs, SettleCharge(p) PROVE CreditedOnce'
    BY <2>1, ChargeRow, PostUnique
  <2>2. ASSUME NEW p \in Procs, CreditCommit(p) PROVE CreditedOnce'
    <3>1. req[p].ext = NoExt \/ ~Credited(req[p].ext)
      BY <2>2 DEF CreditCommit, UniqueViolation
    <3>2. QED  BY <2>2, <3>1, TopUpRow, PostUnique
  <2>3. CASE UNCHANGED ledger
    BY <2>3 DEF CreditedOnce
  <2>4. QED
    BY <2>1, <2>2, <2>3, MoneyStep DEF Quiet, SaveTenant, SaveSubscription
<1>3. QED  BY <1>1, <1>2, Typing, PTL DEF Spec

(***************************************************************************)
(* No period is charged twice, as long as no stale subscription is saved.  *)
(***************************************************************************)

(* Why: the subscription is paid at least to the end of every period its    *)
(* ledger shows, and a charge is taken only at or after that instant.       *)
PaidCoversCharges ==
  \A t \in Tenants : \A i \in 1..Len(ledger[t]) : ledger[t][i].kind = "CHARGE" =>
    /\ sub[t].paid_through # Never
    /\ ledger[t][i].at + ledger[t][i].days <= sub[t].paid_through

PeriodsOK == ChargesDontOverlap /\ PaidCoversCharges

(* The end of a period that lies before one instant lies before a later one. *)
LEMMA EndsBefore ==
  \A at, days, m, n \in Nat : at + days <= m /\ m <= n => at + days <= n
OBVIOUS

(* PeriodsOK and so ChargesDontOverlap, when no stale row is saved. *)
THEOREM OneChargePerPeriod ==
  ASSUME Editors = {}
  PROVE  Spec => []ChargesDontOverlap
<1>1. Init => PeriodsOK
  <2> SUFFICES ASSUME Init, NEW t \in Tenants PROVE 1..Len(ledger[t]) = {}
    BY DEF PeriodsOK, ChargesDontOverlap, PaidCoversCharges
  <2>1. Len(ledger[t]) = 0
    BY DEF Init
  <2>2. QED  BY <2>1
<1>2. TypeOK /\ PeriodsOK /\ [Next]_vars => PeriodsOK'
  <2> SUFFICES ASSUME TypeOK, PeriodsOK, [Next]_vars PROVE PeriodsOK'
    OBVIOUS
  <2>1. ASSUME NEW p \in Procs, SettleCharge(p) PROVE PeriodsOK'
    <3> DEFINE t == req[p].tenant
               s == sub[t]
               n == req[p].now
               row == [kind |-> "CHARGE", amount |-> s.price, ext |-> NoExt,
                       balance_after |-> balance[t] - s.price, at |-> n,
                       days |-> s.period_days]
    <3>1. t \in Tenants /\ n \in Nat /\ s \in Subscriptions /\ row \in Rows /\ Post(t, row)
      BY <2>1, ChargeRow
    <3>2. /\ s.paid_through = Never \/ s.paid_through <= n
          /\ sub' = [sub EXCEPT ![t].paid_through = n + s.period_days]
      BY <2>1 DEF SettleCharge, Chargeable, Due, PaidThrough
    <3>3. /\ sub'[t].paid_through = n + s.period_days
          /\ \A u \in Tenants \ {t} : sub'[u] = sub[u]
      BY <3>1, <3>2 DEF TypeOK, Subscriptions
    <3>4. /\ s.period_days \in Nat /\ n + s.period_days \in Nat
          /\ n + s.period_days # Never /\ n <= n + s.period_days
      BY <3>1 DEF Subscriptions, Never
    <3>5. ASSUME NEW i \in 1..Len(ledger[t]), ledger[t][i].kind = "CHARGE"
          PROVE  ledger[t][i].at + ledger[t][i].days <= n
      <4>1. ledger[t][i] \in Rows
        BY <3>1, ElementOfSeq DEF TypeOK
      <4>2. s.paid_through # Never /\ ledger[t][i].at + ledger[t][i].days <= s.paid_through
        BY <3>1, <3>5 DEF PeriodsOK, PaidCoversCharges
      <4>3. s.paid_through \in Nat /\ s.paid_through <= n
        BY <3>1, <3>2, <4>2 DEF Subscriptions
      <4>4. ledger[t][i].at \in Nat /\ ledger[t][i].days \in Nat
        BY <4>1 DEF Rows
      <4>5. n \in Nat
        BY <3>1
      <4>6. QED  BY <4>2, <4>3, <4>4, <4>5, EndsBefore
    <3>6. PaidCoversCharges'
      <4> SUFFICES ASSUME NEW u \in Tenants, NEW i \in 1..Len(ledger'[u]),
                          ledger'[u][i].kind = "CHARGE"
                   PROVE  /\ sub'[u].paid_through # Never
                          /\ ledger'[u][i].at + ledger'[u][i].days <= sub'[u].paid_through
        BY DEF PaidCoversCharges, Never
      <4>1. CASE u # t
        BY <3>1, <3>3, <4>1, PostedRows DEF PeriodsOK, PaidCoversCharges
      <4>2. CASE u = t /\ i \in 1..Len(ledger[t]) /\ ledger'[t][i] = ledger[t][i]
        <5>1. ledger[t][i] \in Rows
          BY <3>1, <4>2, ElementOfSeq DEF TypeOK
        <5>2. ledger[t][i].at \in Nat /\ ledger[t][i].days \in Nat
          BY <5>1 DEF Rows
        <5>3. ledger[t][i].at + ledger[t][i].days <= n
          BY <3>5, <4>2
        <5>4. ledger[t][i].at + ledger[t][i].days <= n + s.period_days
          BY <3>1, <3>4, <5>2, <5>3, EndsBefore
        <5>5. QED
          BY <3>3, <3>4, <4>2, <5>4
      <4>3. CASE u = t /\ ledger'[t][i] = row
        BY <3>1, <3>3, <3>4, <4>3
      <4>4. QED  BY <3>1, <4>1, <4>2, <4>3, PostedRows
    <3>7. ChargesDontOverlap'
      <4> SUFFICES ASSUME NEW u \in Tenants, NEW i \in 1..Len(ledger'[u]),
                          NEW j \in 1..Len(ledger'[u]), i < j,
                          ledger'[u][i].kind = "CHARGE", ledger'[u][j].kind = "CHARGE"
                   PROVE  ledger'[u][i].at + ledger'[u][i].days <= ledger'[u][j].at
        BY DEF ChargesDontOverlap
      <4>1. CASE i \in 1..Len(ledger[u]) /\ ledger'[u][i] = ledger[u][i]
        <5>1. CASE j \in 1..Len(ledger[u]) /\ ledger'[u][j] = ledger[u][j]
          BY <4>1, <5>1 DEF PeriodsOK, ChargesDontOverlap
        <5>2. CASE u = t /\ ledger'[u][j] = row
          BY <3>5, <4>1, <5>2
        <5>3. QED  BY <3>1, <5>1, <5>2, PostedRows
      <4>2. CASE u = t /\ i = Len(ledger[t]) + 1
        <5>1. Len(ledger[t]) \in Nat
          BY <3>1, LenProperties DEF TypeOK
        <5>2. j \in 1..Len(ledger[t]) \/ j = Len(ledger[t]) + 1
          BY <3>1, <4>2, PostedRows
        <5>3. QED  BY <4>2, <5>1, <5>2
      <4>3. QED  BY <3>1, <4>1, <4>2, PostedRows
    <3>8. QED  BY <3>6, <3>7 DEF PeriodsOK
  <2>2. ASSUME NEW p \in Procs, CreditCommit(p) PROVE PeriodsOK'
    <3> DEFINE r == req[p]
               t == r.tenant
               row == [kind |-> "TOPUP", amount |-> r.amount, ext |-> r.ext,
                       balance_after |-> balance[t] + r.amount, at |-> now, days |-> 0]
    <3>1. t \in Tenants /\ row \in Rows /\ Post(t, row) /\ sub' = sub
      BY <2>2, TopUpRow DEF CreditCommit
    <3>2. ASSUME NEW u \in Tenants, NEW i \in 1..Len(ledger'[u]), ledger'[u][i].kind = "CHARGE"
          PROVE  i \in 1..Len(ledger[u]) /\ ledger'[u][i] = ledger[u][i]
      BY <3>1, <3>2, PostedRows
    <3>3. PaidCoversCharges'
      BY <3>1, <3>2 DEF PeriodsOK, PaidCoversCharges, Never
    <3>4. ChargesDontOverlap'
      BY <3>2 DEF PeriodsOK, ChargesDontOverlap
    <3>5. QED  BY <3>3, <3>4 DEF PeriodsOK
  <2>3. CASE Quiet
    BY <2>3 DEF Quiet, PeriodsOK, PaidCoversCharges, ChargesDontOverlap, Never
  <2>4. QED  BY <2>1, <2>2, <2>3, MoneyStep
<1>3. PeriodsOK => ChargesDontOverlap
  BY DEF PeriodsOK
<1>4. QED  BY <1>1, <1>2, <1>3, Typing, PTL DEF Spec

(***************************************************************************)
(* What a request keeps of the moment it began.                            *)
(***************************************************************************)

(* A request judges by an instant that has come, and what it is about to    *)
(* credit passed the checks of the amount.                                  *)
InFlight == \A p \in Procs :
  /\ req[p].now <= now
  /\ pc[p] \in {"check", "credit"} => req[p].amount \in 1..MaxCredit

(* Going to a step with a request that keeps it so, keeps it so. *)
LEMMA GotoInFlight ==
  ASSUME InFlight, ControlOK, NEW p \in Procs, NEW label, NEW r, Goto(p, label, r),
         now' = now, r.now <= now,
         label \in {"check", "credit"} => r.amount \in 1..MaxCredit
  PROVE  InFlight'
BY DEF InFlight, ControlOK, Goto

LEMMA FinishInFlight ==
  ASSUME InFlight, TypeOK, NEW p \in Procs, Finish(p), now' = now
  PROVE  InFlight'
<1>1. ControlOK /\ NoRequest.now <= now
  BY NowTyped DEF NoRequest, TypeOK
<1>2. QED  BY <1>1, GotoInFlight DEF Finish

LEMMA ReturnInFlight ==
  ASSUME InFlight, TypeOK, NEW p \in Procs, NEW paid \in BOOLEAN, Return(p, paid), now' = now
  PROVE  InFlight'
<1>1. ControlOK /\ NoRequest.now <= now
  BY NowTyped DEF NoRequest, TypeOK
<1>2. CASE req[p].kind = "heartbeat"
  <2>1. [req[p] EXCEPT !.paid = paid].now <= now
    BY <1>1 DEF InFlight, ControlOK, Requests
  <2>2. QED  BY <1>1, <1>2, <2>1, GotoInFlight DEF Return
<1>3. CASE req[p].kind # "heartbeat"
  BY <1>1, <1>3, GotoInFlight, FinishInFlight DEF Return
<1>4. QED  BY <1>2, <1>3

(* Every request was judged, and every amount checked, before it counts. *)
THEOREM RequestsAreFromThePast == Spec => []InFlight
<1>1. Init => InFlight
  BY DEF Init, InFlight, NoRequest
<1>2. TypeOK /\ InFlight /\ [Next]_vars => InFlight'
  <2> SUFFICES ASSUME TypeOK, InFlight, [Next]_vars PROVE InFlight'
    OBVIOUS
  <2>0. ControlOK /\ now \in Nat /\ NoRequest.now <= now
    BY NowTyped DEF NoRequest, TypeOK
  <2>1. ASSUME NEW p \in Procs, NEW t \in Tenants, HeartbeatStart(p, t) PROVE InFlight'
    <3> DEFINE r == [NoRequest EXCEPT !.kind = "heartbeat", !.tenant = t, !.now = now,
                                      !.suspended = paused[t]]
    <3>1. r.now <= now
      BY <2>0 DEF NoRequest
    <3>2. QED  BY <2>0, <2>1, <3>1, GotoInFlight DEF HeartbeatStart
  <2>2. ASSUME NEW p \in Procs, ReadSub(p) PROVE InFlight'
    <3>1. now' = now /\ req[p].now <= now /\ [req[p] EXCEPT !.now = now].now <= now
      BY <2>0, <2>2 DEF ReadSub, InFlight, ControlOK, Requests
    <3>2. CASE Renewable(sub[req[p].tenant])
      <4>1. CASE req[p].kind = "credit"
        BY <2>0, <2>2, <3>1, <3>2, <4>1, GotoInFlight DEF ReadSub
      <4>2. CASE req[p].kind # "credit"
        BY <2>0, <2>2, <3>1, <3>2, <4>2, GotoInFlight DEF ReadSub
      <4>3. QED  BY <4>1, <4>2
    <3>3. CASE ~Renewable(sub[req[p].tenant])
      BY <2>2, <3>1, <3>3, FinishInFlight, ReturnInFlight DEF ReadSub
    <3>4. QED  BY <3>2, <3>3
  <2>3. ASSUME NEW p \in Procs, Settle(p) PROVE InFlight'
    <3>1. CASE SettleCharge(p)
      BY <3>1, ReturnInFlight DEF SettleCharge
    <3>2. CASE SettleNothing(p)
      BY <3>2, ReturnInFlight DEF SettleNothing
    <3>3. QED  BY <2>3, <3>1, <3>2 DEF Settle
  <2>4. ASSUME NEW p \in Procs, Report(p) \/ CreditReplayed(p) \/ CreditRefused(p)
        PROVE  InFlight'
    BY <2>4, FinishInFlight DEF Report, CreditReplayed, CreditRefused
  <2>5. ASSUME NEW p \in Procs, NEW t \in Tenants, NEW a \in Amounts, NEW e \in Exts,
               CreditStart(p, t, a, e)
        PROVE  InFlight'
    <3> DEFINE r == [NoRequest EXCEPT !.kind = "credit", !.tenant = t, !.amount = a,
                                      !.ext = e]
    <3>1. r.now <= now /\ r.amount = a
      BY <2>0 DEF NoRequest
    <3>2. a \in 1..MaxCredit
      BY <2>5, BillingAssumption DEF CreditStart
    <3>3. QED  BY <2>0, <2>5, <3>1, <3>2, GotoInFlight DEF CreditStart
  <2>6. ASSUME NEW p \in Procs, CreditUnseen(p) \/ CreditCommit(p) PROVE InFlight'
    <3>1. now' = now /\ req[p].now <= now /\ req[p].amount \in 1..MaxCredit
      BY <2>6 DEF CreditUnseen, CreditCommit, InFlight
    <3>2. QED  BY <2>0, <2>6, <3>1, GotoInFlight DEF CreditUnseen, CreditCommit
  <2>7. ASSUME NEW c \in Crons, CronStart(c) \/ CronQuery(c) PROVE InFlight'
    BY <2>0, <2>7, GotoInFlight DEF CronStart, CronQuery, Procs
  <2>8. ASSUME NEW c \in Crons, CronEnd(c) PROVE InFlight'
    BY <2>8, FinishInFlight DEF CronEnd, Procs
  <2>9. ASSUME NEW c \in Crons, NEW t \in Tenants, CronPick(c, t) PROVE InFlight'
    <3> DEFINE r == [NoRequest EXCEPT !.kind = "cron", !.tenant = t, !.now = now]
    <3>1. r.now <= now
      BY <2>0 DEF NoRequest
    <3>2. QED  BY <2>0, <2>9, <3>1, GotoInFlight DEF CronPick, Procs
  <2>10. ASSUME NEW p \in Procs, Crash(p) PROVE InFlight'
    BY <2>10, FinishInFlight DEF Crash
  <2>11. CASE Vendor \/ Forms
    BY <2>11 DEF Vendor, Subscribe, UpdateSubscription, SetPaused, Forms, OpenForm,
                 SaveTenant, SaveSubscription, InFlight
  <2>12. CASE Tick
    <3>1. \A p \in Procs : req[p].now \in Nat
      BY <2>0 DEF ControlOK, Requests
    <3>2. QED  BY <2>0, <2>12, <3>1 DEF Tick, InFlight
  <2>13. CASE UNCHANGED vars
    BY <2>13 DEF vars, InFlight
  <2>14. QED
    BY <2>1, <2>2, <2>3, <2>4, <2>5, <2>6, <2>7, <2>8, <2>9, <2>10, <2>11, <2>12, <2>13
       DEF Next, Heartbeat, Credit, Command
<1>3. QED  BY <1>1, <1>2, Typing, PTL DEF Spec

(***************************************************************************)
(* The refinement.                                                         *)
(***************************************************************************)

Applied == {e \in ExternalIds : Credited(e)}

(* Posting a row applies its provider transaction, if it has one. *)
LEMMA PostApplies ==
  ASSUME TypeOK, NEW t \in Tenants, NEW row \in Rows, Post(t, row)
  PROVE  Applied' = Applied \union ({row.ext} \intersect ExternalIds)
<1>1. ledger' = [ledger EXCEPT ![t] = Append(ledger[t], row)] /\ ledger[t] \in Seq(Rows)
  BY DEF Post, TypeOK
<1>2. /\ Len(ledger'[t]) = Len(ledger[t]) + 1
      /\ ledger'[t][Len(ledger[t]) + 1] = row
      /\ \A i \in 1..Len(ledger[t]) : ledger'[t][i] = ledger[t][i]
  BY <1>1, AppendProperties DEF TypeOK
<1>3. Len(ledger[t]) \in Nat
  BY <1>1, LenProperties
<1>4. \A u \in Tenants : u # t => ledger'[u] = ledger[u]
  BY <1>1 DEF TypeOK
<1>5. ASSUME NEW e \in ExternalIds PROVE Credited(e)' <=> Credited(e) \/ e = row.ext
  <2>1. ASSUME Credited(e)' PROVE Credited(e) \/ e = row.ext
    <3>1. PICK u \in Tenants : \E i \in 1..Len(ledger'[u]) : ledger'[u][i].ext = e
      BY <2>1 DEF Credited
    <3>2. PICK i \in 1..Len(ledger'[u]) : ledger'[u][i].ext = e
      BY <3>1
    <3>3. QED  BY <3>2, PostedRows DEF Credited
  <2>2. ASSUME Credited(e) PROVE Credited(e)'
    <3>1. PICK u \in Tenants : \E i \in 1..Len(ledger[u]) : ledger[u][i].ext = e
      BY <2>2 DEF Credited
    <3>2. PICK i \in 1..Len(ledger[u]) : ledger[u][i].ext = e
      BY <3>1
    <3>3. i \in 1..Len(ledger'[u]) /\ ledger'[u][i] = ledger[u][i]
      BY <1>2, <1>3, <1>4
    <3>4. QED  BY <3>2, <3>3 DEF Credited
  <2>3. ASSUME e = row.ext PROVE Credited(e)'
    <3>1. Len(ledger[t]) + 1 \in 1..Len(ledger'[t])
      BY <1>2, <1>3
    <3>2. QED  BY <1>2, <2>3, <3>1 DEF Credited
  <2>4. QED  BY <2>1, <2>2, <2>3
<1>6. QED  BY <1>5 DEF Applied

(* A step that leaves the ledger alone applies nothing. *)
LEMMA NothingApplied ==
  ASSUME UNCHANGED ledger
  PROVE  Applied' = Applied
BY DEF Applied, Credited

(* A charge of settle() is a charge of the contract. *)
LEMMA ChargeRefines ==
  ASSUME TypeOK, InFlight, NEW p \in Procs, SettleCharge(p)
  PROVE  W!Next
<1> DEFINE t == req[p].tenant
           s == sub[t]
           n == req[p].now
           row == [kind |-> "CHARGE", amount |-> s.price, ext |-> NoExt,
                   balance_after |-> balance[t] - s.price, at |-> n,
                   days |-> s.period_days]
<1>1. t \in Tenants /\ row \in Rows /\ Post(t, row)
  BY ChargeRow DEF SettleCharge
<1>2. n \in 0..now /\ now \in Nat
  BY NowTyped DEF InFlight, TypeOK, ControlOK, Requests
<1>3. W!Chargeable(s, balance[t], n)
  <2>1. s \in Subscriptions /\ balance[t] \in Int
    BY <1>1 DEF TypeOK
  <2>2. QED
    BY <2>1 DEF SettleCharge, Chargeable, Renewable, Due, Never, Subscriptions,
                W!Chargeable, W!Due, W!Never
<1>4. Applied' = Applied
  BY <1>1, PostApplies, BillingAssumption
<1>5. balance' = [balance EXCEPT ![t] = @ - s.price]
  BY <1>1 DEF Post
<1>6. sub' = [sub EXCEPT ![t].paid_through = n + s.period_days] /\ now' = now
  BY DEF SettleCharge, PaidThrough
<1>7. W!Charge(t)
  BY <1>2, <1>3, <1>4, <1>5, <1>6 DEF W!Charge, Applied
<1>8. QED  BY <1>1, <1>7 DEF W!Next

(* A credit is a credit of the contract. *)
LEMMA CreditRefines ==
  ASSUME TypeOK, InFlight, NEW p \in Procs, CreditCommit(p)
  PROVE  W!Next
<1> DEFINE r == req[p]
           t == r.tenant
           row == [kind |-> "TOPUP", amount |-> r.amount, ext |-> r.ext,
                   balance_after |-> balance[t] + r.amount, at |-> now, days |-> 0]
<1>1. t \in Tenants /\ r.ext \in Exts /\ row \in Rows /\ Post(t, row)
  BY TopUpRow DEF CreditCommit
<1>2. r.amount \in 1..MaxCredit
  BY DEF CreditCommit, InFlight
<1>3. r.ext \notin Applied
  BY BillingAssumption DEF CreditCommit, UniqueViolation, Applied
<1>4. Applied' = IF r.ext = NoExt THEN Applied ELSE Applied \union {r.ext}
  BY <1>1, PostApplies, BillingAssumption DEF Exts
<1>5. balance' = [balance EXCEPT ![t] = @ + r.amount]
  BY <1>1 DEF Post
<1>6. UNCHANGED <<sub, now>>
  BY DEF CreditCommit
<1>7. W!Credit(t, r.ext)
  BY <1>2, <1>3, <1>4, <1>5, <1>6 DEF W!Credit, Applied
<1>8. QED  BY <1>1, <1>7 DEF W!Next, Exts

(* An edit of the terms is a renegotiation. *)
LEMMA TermsRefine ==
  ASSUME TypeOK, NEW t \in Tenants, NEW pol \in Policies, NEW st \in {"ACTIVE", "CANCELED"},
         Subscribe(t, pol) \/ UpdateSubscription(t, pol, st)
  PROVE  W!Next
<1>1. PICK x \in {"ACTIVE", st} : sub' = [sub EXCEPT ![t] = Terms(sub[t], pol, x)]
  BY DEF Subscribe, UpdateSubscription
<1>2. /\ sub'[t].paid_through = sub[t].paid_through
      /\ sub' = [sub EXCEPT ![t] = sub'[t]]
  BY <1>1 DEF Terms, TypeOK
<1>3. UNCHANGED <<balance, ledger, now>>
  BY DEF Subscribe, UpdateSubscription
<1>4. W!Renegotiate(t)
  BY <1>2, <1>3, NothingApplied DEF W!Renegotiate, Applied
<1>5. QED  BY <1>4 DEF W!Next

(* Every other step but the clock's is invisible in the contract. *)
Invisible == UNCHANGED <<balance, ledger, sub, now>>

LEMMA InvisibleStep ==
  ASSUME Editors = {}, [Next]_vars
  PROVE  \/ \E p \in Procs : SettleCharge(p) \/ CreditCommit(p)
         \/ \E t \in Tenants, pol \in Policies, st \in {"ACTIVE", "CANCELED"} :
              Subscribe(t, pol) \/ UpdateSubscription(t, pol, st)
         \/ Tick
         \/ Invisible
<1>1. ASSUME NEW p \in Procs,
             \/ Heartbeat(p) \/ ReadSub(p) \/ SettleNothing(p) \/ Report(p) \/ Crash(p)
             \/ \E t \in Tenants, a \in Amounts, e \in Exts : CreditStart(p, t, a, e)
             \/ CreditReplayed(p) \/ CreditUnseen(p) \/ CreditRefused(p)
      PROVE  Invisible
  BY <1>1 DEF Heartbeat, HeartbeatStart, ReadSub, SettleNothing, Report, Crash,
              CreditStart, CreditReplayed, CreditUnseen, CreditRefused, Invisible, db
<1>2. CASE Command
  BY <1>2 DEF Command, CronStart, CronQuery, CronEnd, CronPick, Invisible, db
<1>3. ASSUME NEW t \in Tenants, NEW on \in BOOLEAN, SetPaused(t, on) PROVE Invisible
  BY <1>3 DEF SetPaused, Invisible
<1>4. ~Forms
  BY DEF Forms
<1>5. CASE UNCHANGED vars
  BY <1>5 DEF vars, db, Invisible
<1>6. QED  BY <1>1, <1>2, <1>3, <1>4, <1>5 DEF Next, Settle, Credit, Vendor

(* Without stale saves, every behaviour of the billing service is one the   *)
(* abstract wallet allows: what billing.py promises about money, it does.   *)
THEOREM BillingImplementsWallet ==
  ASSUME Editors = {}
  PROVE  Spec => RefinesWallet
<1>1. Init => W!Init
  <2> SUFFICES ASSUME Init PROVE W!Init
    OBVIOUS
  <2>1. \A t \in Tenants : Len(ledger[t]) = 0
    BY DEF Init
  <2>2. Applied = {}
    BY <2>1 DEF Applied, Credited
  <2>3. QED  BY <2>2 DEF Init, W!Init, W!Never, Never, NoSubscription, Applied
<1>2. TypeOK /\ InFlight /\ [Next]_vars => [W!Next]_(W!vars)
  <2> SUFFICES ASSUME TypeOK, InFlight, [Next]_vars PROVE [W!Next]_(W!vars)
    OBVIOUS
  <2>1. CASE \E p \in Procs : SettleCharge(p) \/ CreditCommit(p)
    BY <2>1, ChargeRefines, CreditRefines
  <2>2. CASE \E t \in Tenants, pol \in Policies, st \in {"ACTIVE", "CANCELED"} :
               Subscribe(t, pol) \/ UpdateSubscription(t, pol, st)
    BY <2>2, TermsRefine
  <2>3. CASE Tick
    BY <2>3, NothingApplied DEF Tick, db, W!Next, W!Tick, Applied
  <2>4. CASE Invisible
    BY <2>4, NothingApplied DEF Invisible, W!vars, Applied
  <2>5. QED  BY <2>1, <2>2, <2>3, <2>4, InvisibleStep
<1>3. QED  BY <1>1, <1>2, Typing, RequestsAreFromThePast, PTL DEF Spec, RefinesWallet, W!Spec

(***************************************************************************)
(* A heartbeat that found the period paid is answered ACTIVE, as long as   *)
(* no form puts an old subscription back.                                  *)
(***************************************************************************)

(* Going to a step with a request means that it is not suspended, and that  *)
(* when it comes back from settle() with the period paid, s is paid beyond  *)
(* the instant the request judges by.                                       *)
PaidBeyond(s, n) == s.status # "NONE" /\ s.paid_through # Never /\ n < s.paid_through

Answerable(label, r, subs) ==
  /\ label # "report" => ~r.suspended
  /\ label = "report" /\ r.kind = "heartbeat" /\ r.paid =>
       ~r.suspended /\ PaidBeyond(subs[r.tenant], r.now)

(* Why a charge pays beyond the instant it is judged at.                    *)
PeriodsBuyTime == \A t \in Tenants : sub[t].status # "NONE" => sub[t].period_days > 0

HeartbeatsOK == PeriodsBuyTime /\ \A p \in Procs : Answerable(pc[p], req[p], sub)

(* A step that leaves every subscription paid to where it was, or further.  *)
PaidOn == \A t \in Tenants, n \in Nat : PaidBeyond(sub[t], n) => PaidBeyond(sub'[t], n)

LEMMA GotoAnswerable ==
  ASSUME HeartbeatsOK, TypeOK, PaidOn, PeriodsBuyTime', NEW p \in Procs, NEW label, NEW r,
         Goto(p, label, r), Answerable(label, r, sub')
  PROVE  HeartbeatsOK'
<1>1. pc'[p] = label /\ req'[p] = r
  BY DEF Goto, TypeOK, ControlOK
<1>2. ASSUME NEW q \in Procs, q # p PROVE Answerable(pc'[q], req'[q], sub')
  <2>1. pc'[q] = pc[q] /\ req'[q] = req[q] /\ Answerable(pc[q], req[q], sub)
    BY <1>2 DEF Goto, HeartbeatsOK, TypeOK, ControlOK
  <2>2. req[q].now \in Nat /\ (pc[q] = "report" => req[q].tenant \in Tenants)
    BY DEF TypeOK, ControlOK, Serving, Requests
  <2>3. QED  BY <2>1, <2>2 DEF Answerable, PaidOn
<1>3. QED  BY <1>1, <1>2 DEF HeartbeatsOK

LEMMA FinishAnswerable ==
  ASSUME HeartbeatsOK, TypeOK, PaidOn, PeriodsBuyTime', NEW p \in Procs, Finish(p)
  PROVE  HeartbeatsOK'
<1>1. Answerable("idle", NoRequest, sub')
  BY DEF Answerable, NoRequest
<1>2. QED  BY <1>1, GotoAnswerable DEF Finish

(* settle() returns "paid" to a request only of a row paid beyond its       *)
(* instant.                                                                 *)
LEMMA ReturnAnswerable ==
  ASSUME HeartbeatsOK, TypeOK, PaidOn, PeriodsBuyTime', NEW p \in Procs, NEW paid \in BOOLEAN,
         pc[p] \in {"sub", "settle"}, Return(p, paid),
         paid => PaidBeyond(sub'[req[p].tenant], req[p].now)
  PROVE  HeartbeatsOK'
<1>1. CASE req[p].kind = "heartbeat"
  <2> DEFINE r == [req[p] EXCEPT !.paid = paid]
  <2>1. req[p] \in Requests /\ ~req[p].suspended
    BY DEF HeartbeatsOK, Answerable, TypeOK, ControlOK
  <2>2. r.paid = paid /\ ~r.suspended /\ r.tenant = req[p].tenant /\ r.now = req[p].now
    BY <2>1 DEF Requests
  <2>3. Answerable("report", r, sub')
    BY <2>2 DEF Answerable
  <2>4. Goto(p, "report", r)
    BY <1>1 DEF Return
  <2> HIDE DEF r
  <2>5. QED  BY <2>3, <2>4, GotoAnswerable
<1>2. CASE req[p].kind = "cron"
  <2>1. Answerable("loop", NoRequest, sub')
    BY DEF Answerable, NoRequest
  <2>2. QED  BY <1>2, <2>1, GotoAnswerable DEF Return
<1>3. CASE req[p].kind \notin {"heartbeat", "cron"}
  BY <1>3, FinishAnswerable DEF Return
<1>4. QED  BY <1>1, <1>2, <1>3

(* A charge pays for its period and takes nothing of what was paid; the     *)
(* others leave the subscription as it is.                                  *)
LEMMA ChargePaysOn ==
  ASSUME HeartbeatsOK, TypeOK, NEW p \in Procs, SettleCharge(p)
  PROVE  PaidOn /\ PeriodsBuyTime' /\ PaidBeyond(sub'[req[p].tenant], req[p].now)
<1> DEFINE t == req[p].tenant
           s == sub[t]
           n == req[p].now
<1>1. t \in Tenants /\ n \in Nat /\ s \in Subscriptions
  BY ChargeRow
<1>2. /\ s.status = "ACTIVE" /\ (s.paid_through = Never \/ s.paid_through <= n)
      /\ sub' = [sub EXCEPT ![t].paid_through = n + s.period_days]
  BY DEF SettleCharge, Chargeable, Due, Renewable, PaidThrough
<1>3. /\ sub'[t].paid_through = n + s.period_days /\ sub'[t].status = s.status
      /\ sub'[t].period_days = s.period_days
      /\ \A u \in Tenants \ {t} : sub'[u] = sub[u]
  BY <1>1, <1>2 DEF TypeOK, Subscriptions
<1>4. s.period_days \in Nat /\ s.period_days > 0
  BY <1>1, <1>2 DEF HeartbeatsOK, PeriodsBuyTime, Subscriptions
<1>5. PaidBeyond(sub'[t], n)
  BY <1>1, <1>2, <1>3, <1>4 DEF PaidBeyond, Never
<1>6. ASSUME NEW m \in Nat, PaidBeyond(s, m) PROVE PaidBeyond(sub'[t], m)
  <2>1. s.paid_through \in Nat /\ s.paid_through <= n /\ m < s.paid_through
    BY <1>1, <1>2, <1>6 DEF PaidBeyond, Subscriptions
  <2>2. QED  BY <1>1, <1>2, <1>3, <1>4, <2>1 DEF PaidBeyond, Never
<1>7. PaidOn
  BY <1>3, <1>6 DEF PaidOn
<1>8. PeriodsBuyTime'
  BY <1>3 DEF HeartbeatsOK, PeriodsBuyTime
<1>9. QED  BY <1>5, <1>7, <1>8

LEMMA SameSubPaidOn ==
  ASSUME HeartbeatsOK, UNCHANGED sub
  PROVE  PaidOn /\ PeriodsBuyTime'
BY DEF HeartbeatsOK, PaidOn, PeriodsBuyTime

(* New terms buy time when the policies do, and keep what was paid. *)
LEMMA TermsPayOn ==
  ASSUME HeartbeatsOK, TypeOK, \A pol \in Policies : pol.period_days > 0,
         NEW t \in Tenants, NEW pol \in Policies, NEW st \in {"ACTIVE", "CANCELED"},
         sub' = [sub EXCEPT ![t] = Terms(sub[t], pol, st)]
  PROVE  PaidOn /\ PeriodsBuyTime'
<1>1. sub'[t] = Terms(sub[t], pol, st) /\ \A u \in Tenants \ {t} : sub'[u] = sub[u]
  BY DEF TypeOK
<1>2. /\ Terms(sub[t], pol, st).paid_through = sub[t].paid_through
      /\ Terms(sub[t], pol, st).status # "NONE" /\ Terms(sub[t], pol, st).period_days > 0
  BY DEF Terms
<1>3. QED  BY <1>1, <1>2 DEF PaidOn, PaidBeyond, PeriodsBuyTime, HeartbeatsOK

(* The invariant of heartbeats is preserved, one case per action. *)
LEMMA HeartbeatsStep ==
  ASSUME Editors = {}, \A pol \in Policies : pol.period_days > 0,
         HeartbeatsOK, TypeOK, [Next]_vars
  PROVE  HeartbeatsOK'
<1>1. ASSUME NEW p \in Procs, NEW t \in Tenants, HeartbeatStart(p, t) PROVE HeartbeatsOK'
  <2> DEFINE r == [NoRequest EXCEPT !.kind = "heartbeat", !.tenant = t, !.now = now,
                                    !.suspended = paused[t]]
  <2>1. r.suspended = paused[t] /\ r.paid = FALSE
    BY DEF NoRequest
  <2>2. /\ paused[t] => Goto(p, "report", r)
        /\ ~paused[t] => Goto(p, "sub", r)
        /\ UNCHANGED sub
    BY <1>1 DEF HeartbeatStart, db
  <2>3. Answerable("report", r, sub') /\ (~paused[t] => Answerable("sub", r, sub'))
    BY <2>1 DEF Answerable
  <2> HIDE DEF r
  <2>4. QED  BY <2>2, <2>3, SameSubPaidOn, GotoAnswerable
<1>2. ASSUME NEW p \in Procs, ReadSub(p) PROVE HeartbeatsOK'
  <2> DEFINE r == [req[p] EXCEPT !.now = now]
             s == sub[req[p].tenant]
  <2>1. req[p] \in Requests /\ ~req[p].suspended
    BY <1>2 DEF ReadSub, HeartbeatsOK, Answerable, TypeOK, ControlOK
  <2>2. ~r.suspended /\ UNCHANGED sub
    BY <1>2, <2>1 DEF ReadSub, Requests
  <2>3. Answerable("settle", r, sub') /\ Answerable("settle", req[p], sub')
    BY <2>1, <2>2 DEF Answerable
  <2>4. CASE Renewable(s)
    <3>1. Goto(p, "settle", r) \/ Goto(p, "settle", req[p])
      BY <1>2, <2>4 DEF ReadSub
    <3> HIDE DEF r
    <3>2. QED  BY <2>2, <2>3, <3>1, SameSubPaidOn, GotoAnswerable
  <2>5. CASE ~Renewable(s)
    <3>1. pc[p] = "sub" /\ (Finish(p) \/ Return(p, FALSE))
      BY <1>2, <2>5 DEF ReadSub
    <3>2. QED  BY <2>2, <3>1, SameSubPaidOn, FinishAnswerable, ReturnAnswerable
  <2>6. QED  BY <2>4, <2>5
<1>3. ASSUME NEW p \in Procs, SettleCharge(p) PROVE HeartbeatsOK'
  BY <1>3, ChargePaysOn, ReturnAnswerable DEF SettleCharge
<1>4. ASSUME NEW p \in Procs, SettleNothing(p) PROVE HeartbeatsOK'
  <2> DEFINE s == sub[req[p].tenant]
             paid == Renewable(s) /\ ~Due(s, req[p].now)
  <2>1. pc[p] = "settle" /\ Return(p, paid) /\ UNCHANGED sub
    BY <1>4 DEF SettleNothing, db
  <2>2. req[p].tenant \in Tenants /\ req[p].now \in Nat /\ s \in Subscriptions
    BY <2>1 DEF TypeOK, ControlOK, Serving, Requests
  <2>3. paid \in BOOLEAN /\ (paid => PaidBeyond(s, req[p].now))
    BY <2>2 DEF Renewable, Due, PaidBeyond, Subscriptions, Never
  <2>4. paid => PaidBeyond(sub'[req[p].tenant], req[p].now)
    BY <2>1, <2>3
  <2> HIDE DEF paid
  <2>5. QED  BY <2>1, <2>3, <2>4, SameSubPaidOn, ReturnAnswerable
<1>5. ASSUME NEW p \in Procs, Report(p) \/ CreditReplayed(p) \/ CreditRefused(p) \/ Crash(p)
      PROVE  HeartbeatsOK'
  BY <1>5, SameSubPaidOn, FinishAnswerable DEF Report, CreditReplayed, CreditRefused, Crash, db
<1>6. ASSUME NEW p \in Procs, NEW t \in Tenants, NEW a \in Amounts, NEW e \in Exts,
             CreditStart(p, t, a, e)
      PROVE  HeartbeatsOK'
  <2> DEFINE r == [NoRequest EXCEPT !.kind = "credit", !.tenant = t, !.amount = a, !.ext = e]
  <2>1. ~r.suspended
    BY DEF NoRequest
  <2>2. Answerable("check", r, sub') /\ Goto(p, "check", r) /\ UNCHANGED sub
    BY <1>6, <2>1 DEF Answerable, CreditStart, db
  <2> HIDE DEF r
  <2>3. QED  BY <2>2, SameSubPaidOn, GotoAnswerable
<1>7. ASSUME NEW p \in Procs, CreditUnseen(p) \/ CreditCommit(p) PROVE HeartbeatsOK'
  <2>1. ~req[p].suspended /\ UNCHANGED sub /\ (Goto(p, "credit", req[p]) \/ Goto(p, "sub", req[p]))
    BY <1>7 DEF CreditUnseen, CreditCommit, HeartbeatsOK, Answerable, db
  <2>2. Answerable("credit", req[p], sub') /\ Answerable("sub", req[p], sub')
    BY <2>1 DEF Answerable
  <2>3. QED  BY <2>1, <2>2, SameSubPaidOn, GotoAnswerable
<1>8. ASSUME NEW c \in Crons, CronStart(c) \/ CronQuery(c) \/ CronEnd(c) PROVE HeartbeatsOK'
  <2>1. /\ UNCHANGED sub /\ c \in Procs
        /\ \E label \in {"query", "loop", "idle"} : Goto(c, label, NoRequest)
    BY <1>8 DEF CronStart, CronQuery, CronEnd, Finish, db, Procs
  <2>2. \A label \in {"query", "loop", "idle"} : Answerable(label, NoRequest, sub')
    BY DEF Answerable, NoRequest
  <2>3. QED  BY <2>1, <2>2, SameSubPaidOn, GotoAnswerable
<1>9. ASSUME NEW c \in Crons, NEW t \in Tenants, CronPick(c, t) PROVE HeartbeatsOK'
  <2> DEFINE r == [NoRequest EXCEPT !.kind = "cron", !.tenant = t, !.now = now]
  <2>1. ~r.suspended
    BY DEF NoRequest
  <2>2. Answerable("settle", r, sub') /\ Goto(c, "settle", r) /\ UNCHANGED sub /\ c \in Procs
    BY <1>9, <2>1 DEF Answerable, CronPick, db, Procs
  <2> HIDE DEF r
  <2>3. QED  BY <2>2, SameSubPaidOn, GotoAnswerable
<1>10. ASSUME UNCHANGED <<pc, req>>, PaidOn, PeriodsBuyTime' PROVE HeartbeatsOK'
  <2>1. \A p \in Procs : req[p].now \in Nat /\ (pc[p] = "report" => req[p].tenant \in Tenants)
    BY DEF TypeOK, ControlOK, Serving, Requests
  <2>2. QED  BY <1>10, <2>1 DEF HeartbeatsOK, Answerable, PaidOn
<1>11. ASSUME NEW t \in Tenants, NEW pol \in Policies, NEW st \in {"ACTIVE", "CANCELED"},
              Subscribe(t, pol) \/ UpdateSubscription(t, pol, st)
       PROVE  HeartbeatsOK'
  <2>1. PICK x \in {"ACTIVE", st} : sub' = [sub EXCEPT ![t] = Terms(sub[t], pol, x)]
    BY <1>11 DEF Subscribe, UpdateSubscription
  <2>2. UNCHANGED <<pc, req>>
    BY <1>11 DEF Subscribe, UpdateSubscription
  <2>3. QED  BY <1>10, <2>1, <2>2, TermsPayOn
<1>12. ASSUME NEW t \in Tenants, NEW on \in BOOLEAN, SetPaused(t, on) PROVE HeartbeatsOK'
  BY <1>12, <1>10, SameSubPaidOn DEF SetPaused
<1>13. CASE Tick \/ UNCHANGED vars
  BY <1>13, <1>10, SameSubPaidOn DEF Tick, vars, db
<1>14. CASE Vendor
  BY <1>14, <1>11, <1>12 DEF Vendor
<1>15. CASE Command
  BY <1>15, <1>8, <1>9 DEF Command
<1>16. ~Forms
  BY DEF Forms
<1>17. QED
  BY <1>1, <1>2, <1>3, <1>4, <1>5, <1>6, <1>7, <1>13, <1>14, <1>15, <1>16
     DEF Next, Heartbeat, Credit, Settle

(* A heartbeat that found its period paid, or paid it, answers ACTIVE, at   *)
(* whatever other requests, edits and charges come between its settle() and *)
(* its answer: resolve() in billing.py judges by the instant the request    *)
(* began.                                                                   *)
THEOREM PaidHeartbeatsAreActive ==
  ASSUME Editors = {}
  PROVE  Spec => PaidHeartbeatIsActive
<1> DEFINE Buys == \A pol \in Policies : pol.period_days > 0
           Watched == Buys => HeartbeatsOK
           Answered == \A p \in Workers :
             /\ Report(p) /\ req[p].kind = "heartbeat" /\ req[p].paid
             /\ Buys
             => reported'[req[p].tenant] = "ACTIVE"
<1>1. Init => Watched
  BY DEF Init, HeartbeatsOK, PeriodsBuyTime, Answerable, NoRequest, NoSubscription
<1>2. TypeOK /\ Watched /\ [Next]_vars => Watched'
  BY HeartbeatsStep
<1>3. TypeOK /\ Watched /\ [Next]_vars => [Answered]_vars
  <2> SUFFICES ASSUME TypeOK, Buys, HeartbeatsOK, NEW p \in Workers,
                      Report(p), req[p].kind = "heartbeat", req[p].paid
               PROVE  reported'[req[p].tenant] = "ACTIVE"
    OBVIOUS
  <2>4. pc[p] = "report"
    BY DEF Report
  <2>5. p \in Procs
    BY DEF Procs
  <2>6. req[p] \in Requests /\ req[p].tenant \in Tenants
    BY <2>4, <2>5 DEF TypeOK, ControlOK, Serving
  <2>7. ~req[p].suspended /\ PaidBeyond(sub[req[p].tenant], req[p].now)
    BY <2>4, <2>5 DEF HeartbeatsOK, Answerable
  <2>8. sub[req[p].tenant].status \in {"ACTIVE", "CANCELED"}
    BY <2>6, <2>7 DEF TypeOK, Subscriptions, PaidBeyond
  <2>9. Answer(req[p]) = "ACTIVE"
    BY <2>6, <2>7, <2>8 DEF Answer, Verdict, PaidBeyond, Requests, TypeOK, Subscriptions
  <2>10. QED  BY <2>6, <2>9 DEF Report, TypeOK
<1>4. PaidHeartbeatIsActive <=> [][Answered]_vars
  BY DEF PaidHeartbeatIsActive
<1> HIDE DEF Watched, Answered
<1>5. QED  BY <1>1, <1>2, <1>3, <1>4, Typing, PTL DEF Spec
=============================================================================
