------------------------------ MODULE LockOrder ------------------------------
(***************************************************************************)
(* The row locks of the transactions that meet on one account, in the      *)
(* order each takes them, and the deadlocks that PostgreSQL breaks by      *)
(* aborting one of those that wait in a circle.                            *)
(*                                                                         *)
(* select_for_update() locks the joined rows of select_related() too, the  *)
(* row of the query first.  Foreign keys are checked at the commit, which  *)
(* takes a key-share lock on each referenced row, in no promised order;    *)
(* nor is there one among the rows of a query.  A row that a transaction   *)
(* holds already is not listed again, and transactions of a single lock    *)
(* are represented by credit and heartbeat.                                *)
(***************************************************************************)
EXTENDS Integers, Sequences

CONSTANT Workers         \* gunicorn workers, and the runs of the command

VARIABLES job,           \* which transaction each worker is in
          locks,         \* the locks that it takes on its way
          taken          \* how many of them it holds

vars == <<job, locks, taken>>

Rows == {"request", "key1", "key2", "sub", "tenant", "plan"}

Update(row) == [row |-> row, mode |-> "update"]          \* SELECT ... FOR UPDATE
Write(row) == [row |-> row, mode |-> "write"]            \* UPDATE of other columns than keys
Share(row) == [row |-> row, mode |-> "share"]            \* a foreign key checked

Conflict(a, b) ==
  a.row = b.row /\ ({a.mode, b.mode} = {"write"} \/ "update" \in {a.mode, b.mode})

EitherOrder(a, b) == {<<a, b>>, <<b, a>>}

(* Each transaction as the set of orders in which it may take its locks.    *)
(* It may also end before the last of them, and take fewer.                 *)

(* settle(); the mutant locks the wallet first.                             *)
SettleTenantFirst == {<<Update("tenant"), Update("sub")>>}
Settle == {<<Update("sub"), Update("tenant")>>}

(* credit_balance(), whose settle() is a transaction of its own; the mutant *)
(* settles in the one that credits.                                         *)
CreditAndSettle == {<<Update("tenant"), Update("sub")>>}
Credit == {<<Update("tenant")>>}

(* _update_subscription() *)
PatchSubscription == {<<Update("sub"), Update("tenant"), Share("plan")>>}

(* _decide_plan_change() *)
ApproveByApi == {<<Update("request"), Update("tenant"), Update("plan"), Update("sub")>>}

(* approve_selected() of the Django admin *)
ApproveByAdmin ==
  {<<Update("request"), Update("sub")>> \o end : end \in EitherOrder(Share("tenant"), Share("plan"))}

(* reject_selected() *)
RejectByAdmin == {<<Update("request"), Update("tenant")>>}

(* plan_change(), which only inserts *)
FileRequest == EitherOrder(Share("tenant"), Share("plan"))

(* register() of an install that joins the account with a first plan *)
Join == {<<Update("tenant"), Write("sub"), Share("plan")>>}

(* _control_tenant() *)
ControlTenant ==
  {<<Update("tenant")>> \o keys : keys \in EitherOrder(Update("key1"), Update("key2"))}

(* _control_license(), license_message(); and the Django form of a key *)
ControlLicense == {<<Update("key1"), Update("tenant")>>}
LicenseForm == {<<Write("key1"), Share("tenant")>>}

(* license_bulk_action() *)
BulkAction ==
  {<<keys[1], Update("tenant"), keys[2]>> : keys \in EitherOrder(Update("key1"), Update("key2"))}

(* suspend_selected(), resume_selected() and their kind: one UPDATE *)
SelectKeys == EitherOrder(Write("key1"), Write("key2"))

(* heartbeat()'s event row *)
RecordHeartbeat == {<<Share("key1")>>}

Programs ==
  [settle |-> Settle, credit |-> Credit, patch |-> PatchSubscription,
   approve |-> ApproveByApi, adminApprove |-> ApproveByAdmin, adminReject |-> RejectByAdmin,
   file |-> FileRequest, join |-> Join, controlTenant |-> ControlTenant,
   controlLicense |-> ControlLicense, licenseForm |-> LicenseForm, bulk |-> BulkAction,
   selectKeys |-> SelectKeys, heartbeat |-> RecordHeartbeat]

Jobs == DOMAIN Programs

TypeOK ==
  /\ job \in [Workers -> Jobs \union {"none"}]
  /\ locks \in [Workers -> {<<>>} \union UNION {Programs[j] : j \in Jobs}]
  /\ taken \in [Workers -> Nat]
  /\ \A w \in Workers :
       /\ locks[w] \in IF job[w] = "none" THEN {<<>>} ELSE Programs[job[w]]
       /\ taken[w] \in 0..Len(locks[w])

-----------------------------------------------------------------------------
Init ==
  /\ job = [w \in Workers |-> "none"]
  /\ locks = [w \in Workers |-> <<>>]
  /\ taken = [w \in Workers |-> 0]

(* A worker wants its next lock, and one holding a lock in conflict blocks  *)
(* it.                                                                      *)
Wants(w) == taken[w] < Len(locks[w])
Blocks(v, w) ==
  /\ v # w /\ Wants(w)
  /\ \E i \in 1..taken[v] : Conflict(locks[v][i], locks[w][taken[w] + 1])

(* Workers that wait for each other in a circle. *)
Circle(ws) ==
  /\ ws # {}
  /\ \A w \in ws : (\E v \in ws : Blocks(v, w)) /\ (\E v \in ws : Blocks(w, v))

Begin(w) ==
  /\ job[w] = "none"
  /\ \E j \in Jobs : \E order \in Programs[j] :
       /\ job' = [job EXCEPT ![w] = j]
       /\ locks' = [locks EXCEPT ![w] = order]
  /\ UNCHANGED taken

Take(w) ==
  /\ Wants(w) /\ \A v \in Workers : ~Blocks(v, w)
  /\ taken' = [taken EXCEPT ![w] = @ + 1]
  /\ UNCHANGED <<job, locks>>

(* The mutant keeps the locks in a worker that goes on. *)
ReleaseForgetful(w) == job' = [job EXCEPT ![w] = "none"] /\ UNCHANGED <<locks, taken>>
Release(w) ==
  /\ job' = [job EXCEPT ![w] = "none"]
  /\ locks' = [locks EXCEPT ![w] = <<>>]
  /\ taken' = [taken EXCEPT ![w] = 0]

(* The commit, or a return on the way to it, or the worker's death.         *)
End(w) ==
  /\ job[w] # "none" /\ \A v \in Workers : ~Blocks(v, w)
  /\ Release(w)

(* PostgreSQL aborts one of a circle: the request fails, or the run of the  *)
(* command does.                                                            *)
Abort(w) ==
  /\ \E ws \in SUBSET Workers : w \in ws /\ Circle(ws)
  /\ Release(w)

Next == \E w \in Workers : Begin(w) \/ Take(w) \/ End(w) \/ Abort(w)

Spec == Init /\ [][Next]_vars

-----------------------------------------------------------------------------
(* Properties                                                               *)

(* Those that take a row before one that the others take first, the tenant  *)
(* before the subscription or before a key, or several keys in any order.   *)
Inverters == {"approve", "join", "controlTenant", "bulk", "selectKeys"}

(* The order is settle()'s: the subscription, then the wallet.  Heartbeats, *)
(* top-ups, the command, edits of a policy, new requests, the admin's       *)
(* decisions and the controls of one license never deadlock among           *)
(* themselves; every deadlock has an API approval, a registration, or a     *)
(* control of several keys in it.                                           *)
CirclesNeedAnInverter ==
  \A ws \in SUBSET Workers : Circle(ws) => \E w \in ws : job[w] \in Inverters

(* A provider's money is never the victim: credit_balance() holds one row,  *)
(* and settles after its commit.                                            *)
CreditsAreNeverVictims ==
  \A ws \in SUBSET Workers : Circle(ws) => \A w \in ws : job[w] # "credit"
=============================================================================
