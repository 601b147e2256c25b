----------------------------- MODULE PlanChange -----------------------------
(***************************************************************************)
(* Plan changes: a customer's install files a request (licenses/views.py,  *)
(* plan_change), staff approve or reject it through the API                *)
(* (vendor_api/views.py) or the Django admin (billing/admin.py), and an    *)
(* approval binds the requested plan to the subscription.  The catalog and *)
(* the subscription change underneath, by PATCH or by a Django form.       *)
(*                                                                         *)
(* Filing reads without locks and relies on a partial unique index.  A     *)
(* decision locks the request and the subscription.  The API's locks the   *)
(* requested plan with them and is one step; the admin's approval reads    *)
(* the plan without a lock, so the plan may be edited before it commits.   *)
(***************************************************************************)
EXTENDS Integers, Sequences, FiniteSets

CONSTANTS Tenants,       \* customer accounts
          Workers,       \* gunicorn workers filing requests
          Plans,         \* rows of the catalog
          NoPlan,        \* plan = NULL
          Terms,         \* [price, period_days, warn_days, grace_days] of a plan
          Admins,        \* Django sessions that approve requests
          Forms,         \* Django sessions that save a request they read earlier
          MaxRequests,   \* bound: no request is filed beyond this many rows
          MaxOverruled   \* bound: nor a form opened beyond this many overruled

ASSUME PlanChangeAssumption ==
  /\ NoPlan \notin Plans
  /\ MaxRequests \in Nat /\ MaxOverruled \in Nat

VARIABLES catalog,       \* the SubscriptionPlan row of each plan
          sub,           \* the Subscription row of each tenant
          requests,      \* the PlanChangeRequest rows, by id
          audit,         \* the ControlEvent rows of decisions, by request
          pc, call,      \* where each worker is, and what it read
          binding,       \* the request each admin has locked, and the terms it read
          draft,         \* the row each form read and has not saved
          overruled      \* history: the requests whose status a form has written

db == <<catalog, sub, requests, audit>>
form == <<draft, overruled>>
vars == <<db, pc, call, binding, form>>

Statuses == {"PENDING", "APPROVED", "REJECTED"}
Decisions == {"APPROVED", "REJECTED"}
CatalogRows == [terms: Terms, is_active: BOOLEAN]
Subscriptions == [plan: Plans \union {NoPlan}, terms: Terms, status: {"ACTIVE", "CANCELED"}]
Requests == [tenant: Tenants, plan: Plans, status: Statuses]
NoCall == [tenant |-> "none"]
NoBinding == [id |-> 0]
NoDraft == [id |-> 0]

Ids == DOMAIN requests

RowsOK ==
  /\ catalog \in [Plans -> CatalogRows]
  /\ sub \in [Tenants -> Subscriptions]
  /\ requests \in Seq(Requests)
  /\ DOMAIN audit = Ids /\ \A i \in Ids : audit[i] \in Seq(Decisions)

CallsOK ==
  /\ pc \in [Workers -> {"idle", "subscription", "existing", "create"}]
  /\ DOMAIN call = Workers
  /\ \A w \in Workers : IF pc[w] = "idle" THEN call[w] = NoCall
                        ELSE call[w] \in [tenant: Tenants, plan: Plans]

AdminsOK ==
  /\ DOMAIN binding = Admins
  /\ \A a \in Admins : binding[a] = NoBinding \/ binding[a] \in [id: Ids, terms: Terms]

FormsOK ==
  /\ DOMAIN draft = Forms
  /\ \A f \in Forms : draft[f] = NoDraft \/ draft[f] \in [id: Ids, row: Requests]
  /\ overruled \subseteq Ids

TypeOK == RowsOK /\ CallsOK /\ AdminsOK /\ FormsOK

Pending(i) == requests[i].status = "PENDING"

(* The PENDING rows of a tenant; the index on them admits one, and the      *)
(* mutant forgets the index.                                                *)
PendingOf(t) == {i \in Ids : requests[i].tenant = t /\ Pending(i)}

IndexMissing(t) == TRUE
IndexAdmits(t) == PendingOf(t) = {}

(* bind_plan_to_subscription() copies the policy of the plan, as its caller *)
(* read it, and activates the subscription.                                 *)
Bound(t, p, terms) == [plan |-> p, terms |-> terms, status |-> "ACTIVE"]

(* The requests an admin's transaction has locked, and with each the        *)
(* subscription of its customer.  The mutant reads them without the lock.   *)
HeldByNobody == {}
Held == {binding[a].id : a \in Admins}
SubHeld(t) == \E i \in Held \intersect Ids : requests[i].tenant = t

-----------------------------------------------------------------------------
Init ==
  /\ catalog \in [Plans -> [terms: Terms, is_active: {TRUE}]]
  /\ sub \in [Tenants -> [plan: {NoPlan}, terms: Terms, status: {"ACTIVE"}]]
  /\ requests = <<>>
  /\ audit = <<>>
  /\ pc = [w \in Workers |-> "idle"]
  /\ call = [w \in Workers |-> NoCall]
  /\ binding = [a \in Admins |-> NoBinding]
  /\ draft = [f \in Forms |-> NoDraft]
  /\ overruled = {}

Goto(w, label) == pc' = [pc EXCEPT ![w] = label] /\ UNCHANGED call

(* The worker has answered, or is killed.  The mutant forgets the call. *)
FinishForgetful(w) == Goto(w, "idle")
Finish(w) ==
  /\ pc' = [pc EXCEPT ![w] = "idle"]
  /\ call' = [call EXCEPT ![w] = NoCall]

(* plan_change(): the plan, the subscription and the existing request are   *)
(* three queries, the insert a fourth.                                      *)

FileStart(w, t, p) ==
  /\ pc[w] = "idle" /\ catalog[p].is_active
  /\ pc' = [pc EXCEPT ![w] = "subscription"]
  /\ call' = [call EXCEPT ![w] = [tenant |-> t, plan |-> p]]
  /\ UNCHANGED <<db, binding, form>>

FileReadSub(w) ==
  /\ pc[w] = "subscription"
  /\ IF sub[call[w].tenant].plan = call[w].plan
     THEN Finish(w)                            \* 409, already on this plan
     ELSE Goto(w, "existing")
  /\ UNCHANGED <<db, binding, form>>

FileReadExisting(w) ==
  /\ pc[w] = "existing"
  /\ IF PendingOf(call[w].tenant) = {}
     THEN Goto(w, "create")
     ELSE Finish(w)                            \* 200, the existing row
  /\ UNCHANGED <<db, binding, form>>

FileCreate(w) ==
  LET t == call[w].tenant
  IN  /\ pc[w] = "create" /\ IndexAdmits(t) /\ Len(requests) < MaxRequests
      /\ requests' = Append(requests, [tenant |-> t, plan |-> call[w].plan,
                                       status |-> "PENDING"])
      /\ audit' = Append(audit, <<>>)
      /\ Finish(w)
      /\ UNCHANGED <<catalog, sub, binding, form>>

(* IntegrityError: the answer is the winner's row, or 409 if it has been    *)
(* decided since.                                                           *)
FileConflict(w) ==
  /\ pc[w] = "create" /\ ~IndexAdmits(call[w].tenant)
  /\ Finish(w)
  /\ UNCHANGED <<db, binding, form>>

FileCrash(w) ==
  /\ pc[w] # "idle"
  /\ Finish(w)
  /\ UNCHANGED <<db, binding, form>>

(* Decisions, by the API or by the admin's actions, which list the pending  *)
(* rows first and check each again under its lock.  The mutant skips that   *)
(* check.                                                                   *)

DecidableAlways(i) == TRUE
Decidable(i) == Pending(i)

Recorded(is, decision) ==
  [i \in Ids |-> IF i \in is THEN Append(audit[i], decision) ELSE audit[i]]

Decide(is, decision) ==
  /\ requests' = [i \in Ids |->
       IF i \in is THEN [requests[i] EXCEPT !.status = decision] ELSE requests[i]]
  /\ audit' = Recorded(is, decision)
  /\ UNCHANGED <<catalog, pc, call, form>>

Approved(i, terms) ==
  LET t == requests[i].tenant
  IN  /\ sub' = [sub EXCEPT ![t] = Bound(t, requests[i].plan, terms)]
      /\ Decide({i}, "APPROVED")

(* The API's locks the request, its customer and its plan in one query.     *)
Approve(i) ==
  /\ i \notin Held /\ Decidable(i)
  /\ Approved(i, catalog[requests[i].plan].terms)
  /\ UNCHANGED binding

(* The admin's locks the request and the subscription, then reads the plan, *)
(* and holds both rows till it commits, or is killed and rolled back.       *)
ApproveRead(a, i) ==
  /\ binding[a] = NoBinding /\ i \notin Held /\ Decidable(i)
  /\ binding' = [binding EXCEPT ![a] =
                   [id |-> i, terms |-> catalog[requests[i].plan].terms]]
  /\ UNCHANGED <<db, pc, call, form>>

ApproveEnd(a) ==
  /\ binding[a] # NoBinding
  /\ binding' = [binding EXCEPT ![a] = NoBinding]

ApproveCommit(a) == ApproveEnd(a) /\ Approved(binding[a].id, binding[a].terms)

ApproveCrash(a) == ApproveEnd(a) /\ UNCHANGED <<db, pc, call, form>>

Reject(is) ==                                  \* one, or those selected
  /\ is # {} /\ \A i \in is : i \notin Held /\ Decidable(i)
  /\ Decide(is, "REJECTED")
  /\ UNCHANGED <<sub, binding>>

(* The vendor's PATCH of a subscription, under its lock, may bind any plan, *)
(* retired ones too, and then overrides single fields; its Django form      *)
(* writes every column, the plan the row had when it was opened included.   *)
UpdateSubscription(t) ==
  /\ ~SubHeld(t)
  /\ \E row \in Subscriptions : sub' = [sub EXCEPT ![t] = row]
  /\ UNCHANGED <<catalog, requests, audit, pc, call, binding, form>>

(* A plan is edited by PATCH or by its Django form, which write every       *)
(* column, stale ones included, or retired by DELETE, which writes one.     *)
EditPlan(p) ==
  /\ \E row \in CatalogRows : catalog' = [catalog EXCEPT ![p] = row]
  /\ UNCHANGED <<sub, requests, audit, pc, call, binding, form>>

(* The Django change form of a request leaves "status" editable and saves   *)
(* every column: the status it read, or another one that was picked.  Bound:*)
(* no form is opened once forms have overruled MaxOverruled requests.       *)
OpenRequest(f, i) ==
  /\ draft[f] = NoDraft /\ Cardinality(overruled) < MaxOverruled
  /\ draft' = [draft EXCEPT ![f] = [id |-> i, row |-> requests[i]]]
  /\ UNCHANGED <<db, pc, call, binding, overruled>>

SaveRequest(f) ==
  LET i == draft[f].id
  IN  /\ draft[f] # NoDraft /\ i \notin Held
      /\ \E status \in Statuses :
           /\ status = "PENDING" => PendingOf(draft[f].row.tenant) \subseteq {i}
           /\ requests' = [requests EXCEPT ![i] = [draft[f].row EXCEPT !.status = status]]
      /\ overruled' = IF requests'[i] = requests[i] THEN overruled
                      ELSE overruled \union {i}
      /\ draft' = [draft EXCEPT ![f] = NoDraft]
      /\ UNCHANGED <<catalog, sub, audit, pc, call, binding>>

-----------------------------------------------------------------------------
File(w) ==
  \/ \E t \in Tenants, p \in Plans : FileStart(w, t, p)
  \/ FileReadSub(w) \/ FileReadExisting(w)
  \/ FileCreate(w) \/ FileConflict(w) \/ FileCrash(w)

Staff ==
  \/ \E i \in Ids : Approve(i) \/ \E a \in Admins : ApproveRead(a, i)
  \/ \E a \in Admins : ApproveCommit(a) \/ ApproveCrash(a)
  \/ \E is \in SUBSET Ids : Reject(is)
  \/ \E t \in Tenants : UpdateSubscription(t)
  \/ \E p \in Plans : EditPlan(p)

Django == \E f \in Forms : SaveRequest(f) \/ \E i \in Ids : OpenRequest(f, i)

Next == (\E w \in Workers : File(w)) \/ Staff \/ Django

Spec == Init /\ [][Next]_vars

-----------------------------------------------------------------------------
(* Properties                                                               *)

(* One decision, and it is on record: a request has an audit event exactly  *)
(* when it is decided, only one, and of that decision, however the two      *)
(* staff surfaces race each other, unless a form wrote its status.          *)
OnRecord(i) == audit[i] = IF Pending(i) THEN <<>> ELSE <<requests[i].status>>

DecidedOnRecord == \A i \in Ids \ overruled : OnRecord(i)

(* A customer hammering the button through several workers, and staff       *)
(* deciding meanwhile, never leave two PENDING rows of a tenant, which two  *)
(* approvals would bind one over the other.                                 *)
OnePending == \A t \in Tenants : \A i, j \in PendingOf(t) : i = j

(* But for what forms write over a request, every step is a step of         *)
(* Approvals: a question is answered once, and a yes binds, in the same     *)
(* step, the plan that was asked for, at its terms of that moment or at     *)
(* those it had when an admin, who has answered nothing else since, read    *)
(* it with the question open.                                               *)
Question(r) == [tenant |-> r.tenant, plan |-> r.plan, answer |-> r.status]
Questions == [i \in Ids |-> Question(requests[i])]
Offer == [p \in Plans |-> catalog[p].terms]

Abstract == INSTANCE Approvals WITH
  questions <- Questions, offer <- Offer, quoted <- binding, NoQuote <- NoBinding, contract <- sub

RefinesApprovals ==
  /\ Abstract!Init
  /\ [][Abstract!Next \/ \E f \in Forms : SaveRequest(f)]_<<catalog, sub, requests, binding>>
=============================================================================
