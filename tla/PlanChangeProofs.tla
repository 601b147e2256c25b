-------------------------- MODULE PlanChangeProofs --------------------------
(***************************************************************************)
(* Proofs about PlanChange.tla: its types, the record of decisions, the    *)
(* single pending request, and the refinement of Approvals.tla, for any    *)
(* tenants, plans, terms, workers, admins and forms.  The types and        *)
(* OnePending are inductive as they stand.  The record of decisions and    *)
(* the refinement need Holding beside the types: a request an admin has    *)
(* locked stays undecided, and no other admin has it.                      *)
(***************************************************************************)
EXTENDS PlanChange, SequenceTheorems, TLAPS

(* A row more, and a field of one row changed, as functions. *)
LEMMA AppendIsFunction ==
  ASSUME NEW S, NEW s \in Seq(S), NEW e \in S, NEW f \in Seq(S), Len(f) = Len(s) + 1,
         \A i \in 1..Len(f) : f[i] = IF i = Len(f) THEN e ELSE s[i]
  PROVE  f = Append(s, e)
<1>1. Append(s, e) \in Seq(S) /\ Len(Append(s, e)) = Len(f)
      /\ \A i \in 1..Len(f) : Append(s, e)[i] = f[i]
  OBVIOUS
<1> QED BY <1>1, SeqEqual

LEMMA ExceptIsFunction ==
  ASSUME NEW D, NEW Q, Q = [k \in D |-> Q[k]], NEW i \in D, NEW v
  PROVE  [Q EXCEPT ![i].answer = v]
           = [k \in D |-> IF k = i THEN [Q[i] EXCEPT !.answer = v] ELSE Q[k]]
OBVIOUS

Row(t, p) == [tenant |-> t, plan |-> p, status |-> "PENDING"]

(* What a worker does to the rows: nothing, or one row more. *)
LEMMA FileSteps ==
  ASSUME NEW w \in Workers, File(w)
  PROVE  FileCreate(w) \/ UNCHANGED <<db, binding, form>>
BY DEF File, FileStart, FileReadSub, FileReadExisting, FileConflict, FileCrash

(* The request a worker inserts. *)
LEMMA CreatedRow ==
  ASSUME TypeOK, NEW w \in Workers, FileCreate(w)
  PROVE  /\ call[w].tenant \in Tenants /\ call[w].plan \in Plans
         /\ Row(call[w].tenant, call[w].plan) \in Requests
         /\ requests' = Append(requests, Row(call[w].tenant, call[w].plan))
         /\ Len(requests) \in Nat /\ Ids = 1..Len(requests)
         /\ Ids' = 1..(Len(requests) + 1)
         /\ \A i \in Ids : requests'[i] = requests[i] /\ audit'[i] = audit[i]
         /\ requests'[Len(requests) + 1] = Row(call[w].tenant, call[w].plan)
         /\ requests' \in Seq(Requests)
<1> DEFINE r == Row(call[w].tenant, call[w].plan)
<1>1. call[w].tenant \in Tenants /\ call[w].plan \in Plans
  BY DEF FileCreate, TypeOK, CallsOK
<1>2. r \in Requests
  BY <1>1 DEF Requests, Statuses, Row
<1>3. requests' = Append(requests, r) /\ audit' = Append(audit, <<>>)
  BY DEF FileCreate, Row
<1>4. requests \in Seq(Requests) /\ DOMAIN audit = Ids
  BY DEF TypeOK, RowsOK
<1> HIDE DEF r
<1>5. /\ Len(requests) \in Nat /\ Ids = 1..Len(requests)
      /\ Ids' = 1..(Len(requests) + 1)
      /\ \A i \in Ids : requests'[i] = requests[i]
      /\ requests'[Len(requests) + 1] = r
      /\ requests' \in Seq(Requests)
  BY <1>2, <1>3, <1>4 DEF Ids
<1> QED BY <1>1, <1>2, <1>3, <1>4, <1>5 DEF r

-----------------------------------------------------------------------------
(* Rows are only added, and what a worker or a form holds stays a row.      *)
LEMMA IdsGrow ==
  ASSUME TypeOK, [Next]_vars
  PROVE  /\ Ids \subseteq Ids'
         /\ (\E w \in Workers : FileCreate(w)) \/ Ids' = Ids
<1>1. Len(requests) \in Nat /\ Ids = 1..Len(requests)
  BY DEF TypeOK, RowsOK, Ids
<1>2. ASSUME NEW w \in Workers, FileCreate(w)
      PROVE  Ids \subseteq Ids'
  BY <1>2, CreatedRow
<1>3. ASSUME NEW w \in Workers, File(w), ~FileCreate(w)
      PROVE  Ids' = Ids
  BY <1>3, FileSteps DEF db, Ids
<1>4. CASE Staff
  <2>1. ASSUME NEW is, NEW decision, Decide(is, decision)
        PROVE  Ids' = Ids
    BY <2>1 DEF Decide, Ids
  <2> QED
    BY <1>4, <2>1 DEF Staff, Approve, ApproveRead, ApproveCommit, ApproveCrash, Approved,
                      Reject, UpdateSubscription, EditPlan, db, Ids
<1>5. CASE Django
  BY <1>5 DEF Django, OpenRequest, SaveRequest, db, Ids
<1>6. CASE UNCHANGED vars
  BY <1>6 DEF vars, db, Ids
<1> QED BY <1>2, <1>3, <1>4, <1>5, <1>6 DEF Next

LEMMA DecideRows ==
  ASSUME TypeOK, NEW is, NEW decision \in Decisions, Decide(is, decision)
  PROVE  /\ requests' \in Seq(Requests) /\ Ids' = Ids
         /\ DOMAIN audit' = Ids'
         /\ \A i \in Ids : /\ requests'[i] = IF i \in is
                                             THEN [requests[i] EXCEPT !.status = decision]
                                             ELSE requests[i]
                           /\ audit'[i] = IF i \in is THEN Append(audit[i], decision)
                                          ELSE audit[i]
                           /\ audit'[i] \in Seq(Decisions)
<1>1. /\ requests \in Seq(Requests) /\ Len(requests) \in Nat /\ Ids = 1..Len(requests)
      /\ \A i \in Ids : requests[i] \in Requests /\ audit[i] \in Seq(Decisions)
  BY DEF TypeOK, RowsOK, Ids
<1>2. /\ requests' = [i \in Ids |->
           IF i \in is THEN [requests[i] EXCEPT !.status = decision] ELSE requests[i]]
      /\ audit' = [i \in Ids |-> IF i \in is THEN Append(audit[i], decision) ELSE audit[i]]
  BY DEF Decide, Recorded
<1>3. Ids' = Ids /\ DOMAIN audit' = Ids
  BY <1>2 DEF Ids
<1>4. ASSUME NEW i \in Ids
      PROVE  requests'[i] \in Requests /\ audit'[i] \in Seq(Decisions)
  <2>1. requests[i] \in Requests /\ audit[i] \in Seq(Decisions) /\ decision \in Statuses
    BY <1>1 DEF Decisions, Statuses
  <2>2. [requests[i] EXCEPT !.status = decision] \in Requests
    BY <2>1 DEF Requests
  <2>3. Append(audit[i], decision) \in Seq(Decisions)
    BY <2>1
  <2> QED BY <1>2, <2>1, <2>2, <2>3
<1>5. requests' \in Seq(Requests)
  BY <1>1, <1>2, <1>4
<1> QED BY <1>2, <1>3, <1>4, <1>5

(* The row a form writes, or PENDING or decided by its user. *)
LEMMA SavedRow ==
  ASSUME TypeOK, NEW f \in Forms, SaveRequest(f)
  PROVE  /\ draft[f].id \in Ids /\ draft[f].row \in Requests
         /\ requests' \in Seq(Requests) /\ Ids' = Ids
         /\ \A i \in Ids \ {draft[f].id} : requests'[i] = requests[i]
         /\ requests'[draft[f].id] \in Requests
         /\ requests'[draft[f].id].tenant = draft[f].row.tenant
         /\ requests'[draft[f].id].status = "PENDING"
              => PendingOf(draft[f].row.tenant) \subseteq {draft[f].id}
<1> DEFINE i == draft[f].id
           r == draft[f].row
<1>1. i \in Ids /\ r \in Requests
  BY DEF SaveRequest, TypeOK, FormsOK
<1>2. requests \in Seq(Requests) /\ Len(requests) \in Nat /\ Ids = 1..Len(requests)
  BY DEF TypeOK, RowsOK, Ids
<1>3. PICK status \in Statuses :
        /\ status = "PENDING" => PendingOf(r.tenant) \subseteq {i}
        /\ requests' = [requests EXCEPT ![i] = [r EXCEPT !.status = status]]
  BY DEF SaveRequest
<1>4. /\ [r EXCEPT !.status = status] \in Requests
      /\ [r EXCEPT !.status = status].tenant = r.tenant
      /\ [r EXCEPT !.status = status].status = status
  BY <1>1 DEF Requests
<1> HIDE DEF i, r
<1>5. requests' \in Seq(Requests) /\ DOMAIN requests' = DOMAIN requests
  BY <1>1, <1>2, <1>3, <1>4
<1>6. requests'[i] = [r EXCEPT !.status = status] /\ \A k \in Ids \ {i} : requests'[k] = requests[k]
  BY <1>1, <1>2, <1>3 DEF Ids
<1> QED BY <1>1, <1>3, <1>4, <1>5, <1>6 DEF i, r, Ids

-----------------------------------------------------------------------------
(* Types, by the groups of TypeOK. *)

LEMMA RowsStayTyped ==
  ASSUME TypeOK, [Next]_vars
  PROVE  RowsOK'
<1>0. RowsOK
  BY DEF TypeOK
<1>1. ASSUME NEW w \in Workers, File(w)
      PROVE  RowsOK'
  <2>1. CASE FileCreate(w)
    <3>1. audit' = Append(audit, <<>>) /\ UNCHANGED <<catalog, sub>>
      BY <2>1 DEF FileCreate
    <3>2. DOMAIN audit = 1..Len(requests) /\ Len(requests) \in Nat /\ Len(audit) = Len(requests)
      BY <1>0, <2>1, CreatedRow DEF RowsOK
    <3> QED BY <1>0, <2>1, <3>1, <3>2, CreatedRow DEF RowsOK, Ids
  <2>2. CASE UNCHANGED <<db, binding, form>>
    BY <1>0, <2>2 DEF RowsOK, db, Ids
  <2> QED BY <1>1, <2>1, <2>2, FileSteps
<1>i. \A i \in Ids : catalog[requests[i].plan].terms \in Terms
  <2>1. ASSUME NEW i \in Ids
        PROVE  requests[i].plan \in Plans
    <3>1. requests[i] \in Requests
      BY <1>0 DEF RowsOK, Ids
    <3> QED BY <3>1 DEF Requests
  <2> QED BY <1>0, <2>1 DEF RowsOK, CatalogRows, Ids
<1>2. ASSUME NEW i \in Ids, NEW terms \in Terms, Approved(i, terms)
      PROVE  RowsOK'
  <2>0. requests[i] \in Requests
    BY <1>0 DEF RowsOK, Ids
  <2>1. requests[i].tenant \in Tenants /\ requests[i].plan \in Plans
    BY <2>0 DEF Requests
  <2>2. Bound(requests[i].tenant, requests[i].plan, terms) \in Subscriptions
    BY <2>1 DEF Bound, Subscriptions
  <2>3. sub' \in [Tenants -> Subscriptions]
    BY <1>0, <1>2, <2>1, <2>2 DEF Approved, RowsOK
  <2>4. Decide({i}, "APPROVED") /\ catalog' = catalog
    BY <1>2 DEF Approved, Decide
  <2> QED BY <1>0, <2>3, <2>4, DecideRows DEF RowsOK, Decisions
<1>3. ASSUME NEW is \in SUBSET Ids, Reject(is)
      PROVE  RowsOK'
  <2>1. Decide(is, "REJECTED") /\ sub' = sub /\ catalog' = catalog
    BY <1>3 DEF Reject, Decide
  <2> QED BY <1>0, <2>1, DecideRows DEF RowsOK, Decisions
<1>4. ASSUME NEW t \in Tenants, UpdateSubscription(t)
      PROVE  RowsOK'
  <2>1. sub' \in [Tenants -> Subscriptions]
    BY <1>0, <1>4 DEF RowsOK, UpdateSubscription
  <2> QED BY <1>0, <1>4, <2>1 DEF RowsOK, UpdateSubscription, Ids
<1>5. ASSUME NEW p \in Plans, EditPlan(p)
      PROVE  RowsOK'
  BY <1>0, <1>5 DEF RowsOK, EditPlan, Ids
<1>6. ASSUME NEW f \in Forms, SaveRequest(f)
      PROVE  RowsOK'
  <2>1. UNCHANGED <<catalog, sub, audit>>
    BY <1>6 DEF SaveRequest
  <2> QED BY <1>0, <1>6, <2>1, SavedRow DEF RowsOK
<1>7. ASSUME NEW f \in Forms, NEW i \in Ids, OpenRequest(f, i)
      PROVE  RowsOK'
  BY <1>0, <1>7 DEF OpenRequest, db, RowsOK, Ids
<1>8. CASE UNCHANGED vars
  BY <1>0, <1>8 DEF vars, db, RowsOK, Ids
<1>9. ASSUME NEW i \in Ids, Approve(i)
      PROVE  RowsOK'
  BY <1>i, <1>2, <1>9 DEF Approve
<1>10. ASSUME NEW a \in Admins, ApproveCommit(a)
       PROVE  RowsOK'
  <2>1. binding[a].id \in Ids /\ binding[a].terms \in Terms
    BY <1>10 DEF ApproveCommit, ApproveEnd, TypeOK, AdminsOK
  <2> QED BY <1>2, <1>10, <2>1 DEF ApproveCommit
<1>11. ASSUME UNCHANGED db
       PROVE  RowsOK'
  BY <1>0, <1>11 DEF db, RowsOK, Ids
<1> QED
  BY <1>1, <1>3, <1>4, <1>5, <1>6, <1>7, <1>8, <1>9, <1>10, <1>11
  DEF Next, Staff, Django, ApproveRead, ApproveCrash

LEMMA CallsStayTyped ==
  ASSUME TypeOK, [Next]_vars
  PROVE  CallsOK'
<1> DEFINE Fits(w) == IF pc[w] = "idle" THEN call[w] = NoCall
                      ELSE call[w] \in [tenant: Tenants, plan: Plans]
<1>0. /\ pc \in [Workers -> {"idle", "subscription", "existing", "create"}]
      /\ DOMAIN call = Workers /\ \A w \in Workers : Fits(w)
  BY DEF TypeOK, CallsOK
<1>1. ASSUME NEW w \in Workers, Finish(w)
      PROVE  CallsOK'
  BY <1>0, <1>1 DEF Finish, CallsOK
<1>2. ASSUME NEW w \in Workers, NEW label \in {"existing", "create"},
             pc[w] # "idle", Goto(w, label)
      PROVE  CallsOK'
  BY <1>0, <1>2 DEF Goto, CallsOK
<1>3. ASSUME NEW w \in Workers, NEW t \in Tenants, NEW p \in Plans, FileStart(w, t, p)
      PROVE  CallsOK'
  BY <1>0, <1>3 DEF FileStart, CallsOK
<1>4. CASE UNCHANGED <<pc, call>>
  BY <1>0, <1>4 DEF CallsOK
<1>5. ASSUME NEW w \in Workers, File(w)
      PROVE  CallsOK'
  <2>1. CASE FileReadSub(w)
    BY <1>1, <1>2, <2>1 DEF FileReadSub
  <2>2. CASE FileReadExisting(w)
    BY <1>1, <1>2, <2>2 DEF FileReadExisting
  <2>3. CASE FileCreate(w) \/ FileConflict(w) \/ FileCrash(w)
    BY <1>1, <2>3 DEF FileCreate, FileConflict, FileCrash
  <2> QED BY <1>3, <1>5, <2>1, <2>2, <2>3 DEF File
<1>6. CASE Staff \/ Django \/ UNCHANGED vars
  BY <1>4, <1>6 DEF Staff, Django, Approve, ApproveRead, ApproveCommit, ApproveCrash, Approved,
                    Reject, Decide, UpdateSubscription, EditPlan, OpenRequest, SaveRequest, vars
<1> QED BY <1>5, <1>6 DEF Next

LEMMA FormsStayTyped ==
  ASSUME TypeOK, [Next]_vars
  PROVE  FormsOK'
<1> DEFINE Fits(f) == draft[f] = NoDraft \/ draft[f] \in [id: Ids, row: Requests]
<1>0. /\ DOMAIN draft = Forms /\ \A f \in Forms : Fits(f)
      /\ overruled \subseteq Ids
  BY DEF TypeOK, FormsOK
<1>i. Ids \subseteq Ids'
  BY IdsGrow
<1>1. CASE UNCHANGED form
  BY <1>0, <1>i, <1>1 DEF FormsOK, form
<1>2. ASSUME NEW f \in Forms, NEW i \in Ids, OpenRequest(f, i)
      PROVE  FormsOK'
  <2>1. draft' = [draft EXCEPT ![f] = [id |-> i, row |-> requests[i]]]
        /\ overruled' = overruled
    BY <1>2 DEF OpenRequest
  <2>2. [id |-> i, row |-> requests[i]] \in [id: Ids, row: Requests]
    BY DEF TypeOK, RowsOK, Ids
  <2> QED BY <1>0, <1>i, <2>1, <2>2 DEF FormsOK
<1>3. ASSUME NEW f \in Forms, SaveRequest(f)
      PROVE  FormsOK'
  <2>1. draft' = [draft EXCEPT ![f] = NoDraft]
        /\ overruled' \subseteq overruled \union {draft[f].id}
    BY <1>3 DEF SaveRequest
  <2>2. draft[f].id \in Ids
    BY <1>3, SavedRow
  <2> QED BY <1>0, <1>i, <2>1, <2>2 DEF FormsOK
<1>4. ASSUME NEW w \in Workers, File(w)
      PROVE  UNCHANGED form
  BY <1>4, FileSteps DEF FileCreate
<1>5. CASE Staff \/ UNCHANGED vars
  BY <1>1, <1>5 DEF Staff, Approve, ApproveRead, ApproveCommit, ApproveCrash, Approved, Reject,
                    Decide, UpdateSubscription, EditPlan, vars, form
<1> QED BY <1>1, <1>2, <1>3, <1>4, <1>5 DEF Next, Django

LEMMA AdminsStayTyped ==
  ASSUME TypeOK, [Next]_vars
  PROVE  AdminsOK'
<1> DEFINE Fits(a) == binding[a] = NoBinding \/ binding[a] \in [id: Ids, terms: Terms]
<1>0. DOMAIN binding = Admins /\ \A a \in Admins : Fits(a)
  BY DEF TypeOK, AdminsOK
<1>i. Ids \subseteq Ids'
  BY IdsGrow
<1>1. CASE UNCHANGED binding
  BY <1>0, <1>i, <1>1 DEF AdminsOK
<1>2. ASSUME NEW a \in Admins, NEW i \in Ids, ApproveRead(a, i)
      PROVE  AdminsOK'
  <2>1. requests[i].plan \in Plans
    <3>1. requests[i] \in Requests
      BY DEF TypeOK, RowsOK, Ids
    <3> QED BY <3>1 DEF Requests
  <2>2. [id |-> i, terms |-> catalog[requests[i].plan].terms] \in [id: Ids, terms: Terms]
    BY <2>1 DEF TypeOK, RowsOK, CatalogRows
  <2> QED BY <1>0, <1>i, <1>2, <2>2 DEF ApproveRead, AdminsOK
<1>3. ASSUME NEW a \in Admins, ApproveEnd(a)
      PROVE  AdminsOK'
  BY <1>0, <1>i, <1>3 DEF ApproveEnd, AdminsOK
<1>4. ASSUME NEW w \in Workers, File(w)
      PROVE  UNCHANGED binding
  BY <1>4, FileSteps DEF FileCreate
<1>5. CASE Staff
  BY <1>1, <1>2, <1>3, <1>5 DEF Staff, Approve, ApproveCommit, ApproveCrash, Reject,
                                UpdateSubscription, EditPlan
<1>6. CASE Django \/ UNCHANGED vars
  BY <1>1, <1>6 DEF Django, OpenRequest, SaveRequest, vars
<1> QED BY <1>1, <1>4, <1>5, <1>6 DEF Next

LEMMA InitTyped ==
  ASSUME Init
  PROVE  TypeOK
<1>1. RowsOK
  <2>1. catalog \in [Plans -> CatalogRows]
    BY DEF Init, CatalogRows
  <2>2. sub \in [Tenants -> Subscriptions]
    BY DEF Init, Subscriptions
  <2>3. requests \in Seq(Requests) /\ DOMAIN audit = Ids /\ Ids = {}
    BY DEF Init, Ids
  <2> QED BY <2>1, <2>2, <2>3 DEF RowsOK
<1>2. CallsOK
  BY DEF Init, CallsOK
<1>3. AdminsOK /\ FormsOK
  BY DEF Init, AdminsOK, FormsOK
<1> QED BY <1>1, <1>2, <1>3 DEF TypeOK

(* Every reachable state is well typed: the audit has an entry for each     *)
(* request and no other, and what workers, admins and forms hold fits them. *)
THEOREM Typing == Spec => []TypeOK
<1>1. TypeOK /\ [Next]_vars => TypeOK'
  BY RowsStayTyped, CallsStayTyped, AdminsStayTyped, FormsStayTyped DEF TypeOK
<1> QED BY <1>1, InitTyped, PTL DEF Spec

-----------------------------------------------------------------------------
(* What an admin has locked stays undecided, and is locked by no other.     *)
Holding ==
  /\ \A a \in Admins : binding[a] # NoBinding => Pending(binding[a].id)
  /\ \A a, b \in Admins :
       binding[a] # NoBinding /\ binding[b] # NoBinding /\ binding[a].id = binding[b].id
         => a = b

(* An approval, by either surface, is of a pending request, at terms.       *)
LEMMA ApprovalSteps ==
  ASSUME TypeOK, Holding
  PROVE  /\ \A i \in Ids : Approve(i)
              => /\ Pending(i) /\ i \notin Held /\ binding' = binding
                 /\ Approved(i, catalog[requests[i].plan].terms)
                 /\ Decide({i}, "APPROVED")
         /\ \A a \in Admins : ApproveCommit(a)
              => /\ binding[a].id \in Ids /\ binding[a].terms \in Terms
                 /\ binding[a] # NoBinding /\ Pending(binding[a].id)
                 /\ binding' = [binding EXCEPT ![a] = NoBinding]
                 /\ Approved(binding[a].id, binding[a].terms)
                 /\ Decide({binding[a].id}, "APPROVED")
<1>1. ASSUME NEW a \in Admins, ApproveCommit(a)
      PROVE  binding[a] \in [id: Ids, terms: Terms] /\ Pending(binding[a].id)
  BY <1>1 DEF ApproveCommit, ApproveEnd, TypeOK, AdminsOK, Holding
<1> QED BY <1>1 DEF Approve, Decidable, ApproveCommit, ApproveEnd, Approved

(* Steps that leave the rows alone, or only worsen no one's record. *)
LEMMA OtherSteps ==
  ASSUME [Next]_vars
  PROVE  \/ \E w \in Workers : FileCreate(w)
         \/ \E i \in Ids : Approve(i)
         \/ \E a \in Admins : ApproveCommit(a)
         \/ \E is \in SUBSET Ids : Reject(is)
         \/ \E f \in Forms : SaveRequest(f)
         \/ UNCHANGED <<requests, audit, overruled>>
<1>1. ASSUME NEW w \in Workers, File(w)
      PROVE  FileCreate(w) \/ UNCHANGED <<requests, audit, overruled>>
  BY <1>1, FileSteps DEF db, form
<1>2. CASE UNCHANGED vars
  BY <1>2 DEF vars, db, form
<1>3. CASE Staff
  BY <1>3 DEF Staff, ApproveRead, ApproveCrash, UpdateSubscription, EditPlan, db, form
<1>4. CASE Django
  BY <1>4 DEF Django, OpenRequest, db
<1> QED BY <1>1, <1>2, <1>3, <1>4 DEF Next

LEMMA StaysHeld ==
  ASSUME TypeOK, Holding, [Next]_vars
  PROVE  Holding'
<1> DEFINE Has(a) == binding[a] # NoBinding
<1>0. /\ DOMAIN binding = Admins
      /\ \A a \in Admins : Has(a) => binding[a].id \in Ids /\ Pending(binding[a].id)
                                   /\ binding[a].id \in Held
      /\ \A a, b \in Admins : Has(a) /\ Has(b) /\ binding[a].id = binding[b].id => a = b
  BY DEF TypeOK, AdminsOK, Holding, Held
<1>1. ASSUME UNCHANGED binding, \A i \in Ids \intersect Held : requests'[i] = requests[i]
      PROVE  Holding'
  BY <1>0, <1>1 DEF Holding, Pending
<1>2. ASSUME NEW is \in SUBSET Ids, NEW decision \in Decisions, Decide(is, decision),
             NEW i \in Ids \ is
      PROVE  requests'[i] = requests[i]
  BY <1>2, DecideRows
<1>3. ASSUME NEW w \in Workers, File(w)
      PROVE  Holding'
  <2>1. CASE FileCreate(w)
    BY <1>1, <2>1, CreatedRow DEF FileCreate
  <2> QED BY <1>1, <1>3, <2>1, FileSteps DEF db
<1>4. ASSUME NEW i \in Ids, Approve(i)
      PROVE  Holding'
  <2>1. i \notin Held /\ binding' = binding /\ Decide({i}, "APPROVED")
    BY <1>4, ApprovalSteps
  <2> QED BY <1>1, <1>2, <2>1 DEF Decisions
<1>5. ASSUME NEW is \in SUBSET Ids, Reject(is)
      PROVE  Holding'
  <2>1. (\A i \in is : i \notin Held) /\ binding' = binding /\ Decide(is, "REJECTED")
    BY <1>5 DEF Reject
  <2> QED BY <1>1, <1>2, <2>1 DEF Decisions
<1>6. ASSUME NEW a \in Admins, NEW i \in Ids, ApproveRead(a, i)
      PROVE  Holding'
  <2>1. /\ binding' = [binding EXCEPT ![a] = [id |-> i, terms |-> catalog[requests[i].plan].terms]]
        /\ requests' = requests /\ Pending(i) /\ i \notin Held
    BY <1>6 DEF ApproveRead, Decidable, db
  <2>2. \A b \in Admins : binding'[b] = IF b = a
                                       THEN [id |-> i, terms |-> catalog[requests[i].plan].terms]
                                       ELSE binding[b]
    BY <1>0, <2>1
  <2>3. binding'[a].id = i /\ \A b \in Admins \ {a} : binding'[b] = binding[b]
    BY <2>2
  <2>4. \A b \in Admins \ {a} : Has(b) => binding[b].id # i /\ Pending(binding[b].id)
    BY <1>0, <2>1
  <2>5. Pending(i)' /\ \A b \in Admins \ {a} : Has(b) => Pending(binding[b].id)'
    <3>1. ASSUME NEW b \in Admins \ {a}, Has(b)
          PROVE  Pending(binding[b].id)'
      <4>1. requests[binding[b].id].status = "PENDING" /\ binding'[b] = binding[b]
        BY <2>3, <2>4, <3>1 DEF Pending
      <4>2. requests'[binding'[b].id].status = "PENDING"
        BY <2>1, <4>1
      <4> QED BY <4>2 DEF Pending
    <3> QED BY <2>1, <3>1 DEF Pending
  <2> HIDE DEF NoBinding
  <2>6. ASSUME NEW b \in Admins, binding'[b] # NoBinding
        PROVE  Pending(binding[b].id)'
    BY <2>3, <2>5, <2>6
  <2>7. ASSUME NEW b \in Admins, NEW c \in Admins, binding'[b] # NoBinding,
               binding'[c] # NoBinding, binding'[b].id = binding'[c].id
        PROVE  b = c
    BY <1>0, <2>3, <2>4, <2>7
  <2> QED BY <2>6, <2>7 DEF Holding
<1>7. ASSUME NEW a \in Admins, ApproveEnd(a),
             \A i \in Ids \ {binding[a].id} : requests'[i] = requests[i]
      PROVE  Holding'
  <2>1. \A b \in Admins : binding'[b] = IF b = a THEN NoBinding ELSE binding[b]
    BY <1>0, <1>7 DEF ApproveEnd
  <2>2. ASSUME NEW b \in Admins, binding'[b] # NoBinding
        PROVE  b # a /\ Has(b) /\ binding'[b] = binding[b] /\ requests'[binding[b].id] = requests[binding[b].id]
    BY <1>0, <1>7, <2>1, <2>2 DEF ApproveEnd
  <2> QED BY <1>0, <2>2 DEF Holding, Pending
<1>8. ASSUME NEW a \in Admins, ApproveCommit(a)
      PROVE  Holding'
  <2>1. binding[a].id \in Ids /\ Decide({binding[a].id}, "APPROVED") /\ ApproveEnd(a)
    BY <1>8, ApprovalSteps DEF ApproveCommit
  <2>2. \A i \in Ids \ {binding[a].id} : requests'[i] = requests[i]
    BY <1>2, <2>1 DEF Decisions
  <2> QED BY <1>7, <2>1, <2>2
<1>9. ASSUME NEW a \in Admins, ApproveCrash(a)
      PROVE  Holding'
  BY <1>7, <1>9 DEF ApproveCrash, db
<1>10. CASE Staff
  BY <1>1, <1>4, <1>5, <1>6, <1>8, <1>9, <1>10 DEF Staff, UpdateSubscription, EditPlan
<1>11. ASSUME NEW f \in Forms, SaveRequest(f)
       PROVE  Holding'
  <2>1. draft[f].id \notin Held /\ binding' = binding
    BY <1>11 DEF SaveRequest
  <2> QED BY <1>1, <1>11, <2>1, SavedRow
<1>12. CASE Django \/ UNCHANGED vars
  BY <1>1, <1>11, <1>12 DEF Django, OpenRequest, vars, db
<1> QED BY <1>3, <1>10, <1>12 DEF Next

LEMMA AlwaysHolding == Spec => []Holding
<1>1. Init => Holding
  BY DEF Init, Holding
<1>2. TypeOK /\ Holding /\ [Next]_vars => Holding'
  BY StaysHeld
<1> QED BY <1>1, <1>2, Typing, PTL DEF Spec

(* A decision answers requests that had no answer, and records it. *)
LEMMA DecisionsRecord ==
  ASSUME TypeOK, DecidedOnRecord, NEW is, NEW decision \in Decisions,
         Decide(is, decision), \A i \in is : Pending(i)
  PROVE  DecidedOnRecord'
<1>1. /\ Ids' = Ids /\ overruled' = overruled
      /\ \A i \in Ids : requests[i] \in Requests
  BY DecideRows DEF Decide, form, TypeOK, RowsOK, Ids
<1> SUFFICES ASSUME NEW i \in Ids \ overruled
             PROVE  OnRecord(i)'
  BY <1>1 DEF DecidedOnRecord
<1>2. OnRecord(i)
  BY DEF DecidedOnRecord
<1>3. CASE i \in is
  <2>1. audit[i] = <<>>
    BY <1>2, <1>3 DEF OnRecord
  <2>2. audit'[i] = <<decision>>
    <3>1. audit'[i] = Append(audit[i], decision)
      BY <1>3, DecideRows
    <3> QED BY <2>1, <3>1
  <2>3. requests'[i].status = decision
    <3>1. requests'[i] = [requests[i] EXCEPT !.status = decision] /\ requests[i] \in Requests
      BY <1>1, <1>3, DecideRows
    <3> QED BY <3>1 DEF Requests
  <2>4. decision # "PENDING"
    BY DEF Decisions
  <2> QED BY <2>2, <2>3, <2>4 DEF OnRecord, Pending
<1>4. CASE i \notin is
  BY <1>2, <1>4, DecideRows DEF OnRecord, Pending
<1> QED BY <1>3, <1>4

LEMMA RecordsKept ==
  ASSUME TypeOK, Holding, DecidedOnRecord, [Next]_vars
  PROVE  DecidedOnRecord'
<1>1. ASSUME NEW w \in Workers, FileCreate(w)
      PROVE  DecidedOnRecord'
  <2>0. overruled' = overruled /\ audit' = Append(audit, <<>>)
        /\ DOMAIN audit = 1..Len(requests) /\ Len(audit) = Len(requests)
    BY <1>1, CreatedRow DEF FileCreate, form, TypeOK, RowsOK
  <2> SUFFICES ASSUME NEW i \in Ids' \ overruled
               PROVE  OnRecord(i)'
    BY <2>0 DEF DecidedOnRecord
  <2>1. CASE i \in Ids
    BY <1>1, <2>1, CreatedRow DEF DecidedOnRecord, OnRecord, Pending
  <2>2. CASE i \notin Ids
    <3>1. i = Len(requests) + 1 /\ requests'[i] = Row(call[w].tenant, call[w].plan)
      BY <1>1, <2>2, CreatedRow
    <3>2. audit'[i] = <<>>
      BY <1>1, <2>0, <3>1, CreatedRow
    <3> QED BY <3>1, <3>2 DEF OnRecord, Pending, Row
  <2> QED BY <2>1, <2>2
<1>d. ASSUME NEW i \in Ids, Pending(i), Decide({i}, "APPROVED")
      PROVE  DecidedOnRecord'
  <2>1. "APPROVED" \in Decisions /\ \A k \in {i} : Pending(k)
    BY <1>d DEF Decisions
  <2> QED BY <1>d, <2>1, DecisionsRecord
<1>2. ASSUME NEW i \in Ids, Approve(i)
      PROVE  DecidedOnRecord'
  BY <1>2, <1>d, ApprovalSteps
<1>c. ASSUME NEW a \in Admins, ApproveCommit(a)
      PROVE  DecidedOnRecord'
  BY <1>c, <1>d, ApprovalSteps
<1>3. ASSUME NEW is \in SUBSET Ids, Reject(is)
      PROVE  DecidedOnRecord'
  BY <1>3, DecisionsRecord DEF Reject, Decidable, Decisions
<1>4. ASSUME NEW f \in Forms, SaveRequest(f)
      PROVE  DecidedOnRecord'
  <2>1. /\ audit' = audit
        /\ overruled' = IF requests'[draft[f].id] = requests[draft[f].id] THEN overruled
                        ELSE overruled \union {draft[f].id}
    BY <1>4 DEF SaveRequest
  <2> SUFFICES ASSUME NEW i \in Ids \ overruled'
               PROVE  OnRecord(i)'
    BY <1>4, SavedRow DEF DecidedOnRecord
  <2>2. requests'[i] = requests[i] /\ i \notin overruled
    BY <1>4, <2>1, SavedRow
  <2> QED BY <2>1, <2>2 DEF DecidedOnRecord, OnRecord, Pending
<1>5. CASE UNCHANGED <<requests, audit, overruled>>
  BY <1>5 DEF DecidedOnRecord, OnRecord, Pending, Ids
<1> QED BY <1>1, <1>2, <1>c, <1>3, <1>4, <1>5, OtherSteps

(* One decision, and it is on record: however the staff surfaces race each  *)
(* other, a request that no form has overruled has an audit event exactly   *)
(* when it is decided, one, and of that decision.                           *)
THEOREM EveryDecisionIsRecordedOnce == Spec => []DecidedOnRecord
<1>1. Init => DecidedOnRecord
  BY DEF Init, DecidedOnRecord, Ids
<1>2. TypeOK /\ Holding /\ DecidedOnRecord /\ [Next]_vars => DecidedOnRecord'
  BY RecordsKept
<1> QED BY <1>1, <1>2, Typing, AlwaysHolding, PTL DEF Spec

-----------------------------------------------------------------------------
(* Of two PENDING rows of one tenant neither can be the last one added or   *)
(* written, and decisions only take rows away.                              *)
LEMMA StaysSingle ==
  ASSUME TypeOK, OnePending, [Next]_vars
  PROVE  OnePending'
<1>1. ASSUME NEW w \in Workers, FileCreate(w)
      PROVE  OnePending'
  <2> SUFFICES ASSUME NEW t \in Tenants, NEW i \in PendingOf(t)', NEW k \in PendingOf(t)'
               PROVE  i = k
    BY DEF OnePending
  <2>1. ASSUME NEW x \in PendingOf(t)', x \in Ids
        PROVE  x \in PendingOf(t)
    BY <1>1, <2>1, CreatedRow DEF PendingOf, Pending
  <2>2. ASSUME NEW x \in PendingOf(t)', x \notin Ids
        PROVE  x = Len(requests) + 1 /\ PendingOf(t) = {}
    <3>1. x = Len(requests) + 1 /\ requests'[x] = Row(call[w].tenant, call[w].plan)
      BY <1>1, <2>2, CreatedRow DEF PendingOf
    <3>2. call[w].tenant = t
      BY <3>1 DEF PendingOf, Row
    <3> QED BY <1>1, <3>1, <3>2 DEF FileCreate, IndexAdmits
  <2> QED BY <2>1, <2>2 DEF OnePending
<1>2. ASSUME NEW is, NEW decision \in Decisions, Decide(is, decision)
      PROVE  OnePending'
  <2>1. ASSUME NEW t \in Tenants, NEW i \in PendingOf(t)'
        PROVE  i \in PendingOf(t)
    <3>1. i \in Ids /\ requests[i] \in Requests /\ decision # "PENDING"
      BY <1>2, <2>1, DecideRows DEF PendingOf, TypeOK, RowsOK, Ids, Decisions
    <3>2. i \notin is
      <4>1. requests'[i].status = "PENDING"
        BY <2>1 DEF PendingOf, Pending
      <4>2. [requests[i] EXCEPT !.status = decision].status = decision
        BY <3>1 DEF Requests
      <4> QED BY <1>2, <3>1, <4>1, <4>2, DecideRows
    <3> QED BY <1>2, <2>1, <3>1, <3>2, DecideRows DEF PendingOf, Pending
  <2> QED BY <2>1 DEF OnePending
<1>3. ASSUME NEW f \in Forms, SaveRequest(f)
      PROVE  OnePending'
  <2> DEFINE s == draft[f].id
  <2> SUFFICES ASSUME NEW t \in Tenants, NEW i \in PendingOf(t)', NEW k \in PendingOf(t)'
               PROVE  i = k
    BY DEF OnePending
  <2>1. ASSUME NEW x \in PendingOf(t)', x # s
        PROVE  x \in PendingOf(t)
    BY <1>3, <2>1, SavedRow DEF PendingOf, Pending
  <2>2. ASSUME s \in PendingOf(t)'
        PROVE  PendingOf(t) \subseteq {s}
    BY <1>3, <2>2, SavedRow DEF PendingOf, Pending
  <2> QED BY <2>1, <2>2 DEF OnePending
<1>4. CASE UNCHANGED <<requests, audit, overruled>>
  BY <1>4 DEF OnePending, PendingOf, Pending, Ids
<1>5. ASSUME NEW i \in Ids, Approve(i)
      PROVE  OnePending'
  BY <1>2, <1>5 DEF Approve, Approved, Decisions
<1>7. ASSUME NEW a \in Admins, ApproveCommit(a)
      PROVE  OnePending'
  BY <1>2, <1>7 DEF ApproveCommit, Approved, Decisions
<1>6. ASSUME NEW is \in SUBSET Ids, Reject(is)
      PROVE  OnePending'
  BY <1>2, <1>6 DEF Reject, Decisions
<1> QED BY <1>1, <1>3, <1>4, <1>5, <1>6, <1>7, OtherSteps

(* No race of installs, staff and forms leaves a tenant two PENDING rows.   *)
THEOREM AtMostOnePending == Spec => []OnePending
<1>1. Init => OnePending
  BY DEF Init, OnePending, PendingOf, Ids
<1>2. TypeOK /\ OnePending /\ [Next]_vars => OnePending'
  BY StaysSingle
<1> QED BY <1>1, <1>2, Typing, PTL DEF Spec

-----------------------------------------------------------------------------
(* The refinement: each step that changes rows is a step of Approvals. *)

LEMMA FilingAsks ==
  ASSUME TypeOK, NEW w \in Workers, FileCreate(w)
  PROVE  Abstract!Next
<1> DEFINE t == call[w].tenant
           p == call[w].plan
           n == Len(requests)
           q == [tenant |-> t, plan |-> p, answer |-> "PENDING"]
           Asked == [tenant: Tenants, plan: Plans, answer: Statuses]
<1>1. t \in Tenants /\ p \in Plans /\ n \in Nat /\ Ids = 1..n /\ Ids' = 1..(n + 1)
  BY CreatedRow
<1>2. Questions' = [i \in 1..(n + 1) |-> IF i = n + 1 THEN q ELSE Questions[i]]
  <2>1. ASSUME NEW i \in 1..(n + 1)
        PROVE  Question(requests[i])' = IF i = n + 1 THEN q ELSE Questions[i]
    <3>1. CASE i = n + 1
      <4>1. requests'[i] = Row(t, p)
        BY <3>1, CreatedRow
      <4>2. Question(Row(t, p)) = q
        BY DEF Question, Row
      <4> QED BY <3>1, <4>1, <4>2 DEF Question
    <3>2. CASE i # n + 1
      BY <1>1, <3>2, CreatedRow DEF Question, Questions
    <3> QED BY <3>1, <3>2
  <2> QED BY <1>1, <2>1 DEF Questions
<1>3. q \in Asked /\ Questions \in Seq(Asked) /\ Len(Questions) = n
  <2>1. q \in Asked
    BY <1>1 DEF Statuses
  <2>2. ASSUME NEW i \in 1..n
        PROVE  Question(requests[i]) \in Asked
    <3>1. requests[i] \in Requests
      BY <1>1, <2>2 DEF TypeOK, RowsOK
    <3> QED BY <3>1 DEF Question, Requests
  <2> QED BY <1>1, <2>1, <2>2 DEF Questions
<1>4. Questions' = Append(Questions, q)
  <2> HIDE DEF n, q, t, p, Asked
  <2>1. Questions' \in Seq(Asked) /\ Len(Questions') = n + 1
    BY <1>1, <1>2, <1>3
  <2> QED BY <1>1, <1>2, <1>3, <2>1, AppendIsFunction
<1>5. \A i \in DOMAIN Questions : Questions[i].tenant = t => ~Abstract!Open(i)
  BY <1>1 DEF FileCreate, IndexAdmits, PendingOf, Pending, Questions, Question, Abstract!Open
<1>6. UNCHANGED <<Offer, binding, sub>>
  BY DEF FileCreate, Offer
<1>7. Abstract!Ask(t, p)
  BY <1>4, <1>5, <1>6 DEF Abstract!Ask
<1> QED BY <1>1, <1>7 DEF Abstract!Next

LEMMA ApprovalBinds ==
  ASSUME TypeOK, NEW i \in Ids, NEW terms, Pending(i), Approved(i, terms)
  PROVE  Abstract!Yes(i, terms) /\ i \in DOMAIN Questions
<1>1. /\ Decide({i}, "APPROVED") /\ "APPROVED" \in Decisions
      /\ sub' = [sub EXCEPT ![requests[i].tenant]
                            = Bound(requests[i].tenant, requests[i].plan, terms)]
  BY DEF Approved, Decisions
<1>2. \A k \in Ids : requests[k] \in Requests
  BY DEF TypeOK, RowsOK, Ids
<1>3. /\ Questions = [k \in Ids |-> Question(requests[k])]
      /\ DOMAIN Questions = Ids /\ \A k \in Ids : Questions[k] = Question(requests[k])
  BY DEF Questions
<1>4. Questions' = [Questions EXCEPT ![i].answer = "APPROVED"]
  <2>1. Ids' = Ids /\ Questions' = [k \in Ids |-> Question(requests'[k])]
    BY <1>1, DecideRows DEF Questions, Question
  <2>2. [Questions EXCEPT ![i].answer = "APPROVED"]
          = [k \in Ids |-> IF k = i THEN [Questions[i] EXCEPT !.answer = "APPROVED"]
                           ELSE Questions[k]]
    BY <1>3, ExceptIsFunction
  <2>3. ASSUME NEW k \in Ids, k = i
        PROVE  Question(requests'[k]) = [Questions[i] EXCEPT !.answer = "APPROVED"]
    <3>1. requests'[k] = [requests[i] EXCEPT !.status = "APPROVED"]
      BY <1>1, <2>3, DecideRows
    <3>2. Questions[i] = Question(requests[i]) /\ requests[i] \in Requests
      BY <1>2, <1>3
    <3> QED BY <3>1, <3>2 DEF Question, Requests
  <2>4. ASSUME NEW k \in Ids, k # i
        PROVE  Question(requests'[k]) = Questions[k]
    <3>1. requests'[k] = requests[k]
      BY <1>1, <2>4, DecideRows
    <3> QED BY <1>3, <3>1 DEF Question
  <2> QED BY <2>1, <2>2, <2>3, <2>4
<1>5. /\ Questions[i].tenant = requests[i].tenant /\ Questions[i].plan = requests[i].plan
      /\ Questions[i].answer = "PENDING"
  BY <1>1, <1>3 DEF Question, Pending
<1>6. UNCHANGED Offer
  BY <1>1 DEF Decide, Offer
<1> QED BY <1>1, <1>3, <1>4, <1>5, <1>6 DEF Abstract!Yes, Abstract!Open, Bound

(* The API's binds the plan as it is, the admin's as it read it. *)
LEMMA ApiApprovalAnswers ==
  ASSUME TypeOK, Holding, NEW i \in Ids, Approve(i)
  PROVE  Abstract!Next
<1>1. /\ Pending(i) /\ binding' = binding
      /\ Approved(i, catalog[requests[i].plan].terms)
  BY ApprovalSteps
<1>2. Offer[Questions[i].plan] = catalog[requests[i].plan].terms
  <2>1. requests[i].plan \in Plans
    <3>1. requests[i] \in Requests
      BY DEF TypeOK, RowsOK, Ids
    <3> QED BY <3>1 DEF Requests
  <2>2. Questions[i].plan = requests[i].plan
    BY DEF Questions, Question
  <2> QED BY <2>1, <2>2 DEF Offer
<1>3. Abstract!YesAtOnce(i)
  BY <1>1, <1>2, ApprovalBinds DEF Abstract!YesAtOnce
<1> QED BY <1>1, <1>3, ApprovalBinds DEF Abstract!Next

LEMMA AdminReadTakesUp ==
  ASSUME TypeOK, NEW a \in Admins, NEW i \in Ids, ApproveRead(a, i)
  PROVE  Abstract!Next
<1>1. /\ Pending(i) /\ binding[a] = NoBinding
      /\ binding' = [binding EXCEPT ![a] = [id |-> i, terms |-> catalog[requests[i].plan].terms]]
      /\ UNCHANGED <<catalog, sub, requests>>
  BY DEF ApproveRead, Decidable, db
<1>2. requests[i].plan \in Plans
  <2>1. requests[i] \in Requests
    BY DEF TypeOK, RowsOK, Ids
  <2> QED BY <2>1 DEF Requests
<1>3. /\ Questions[i].plan = requests[i].plan /\ Questions[i].answer = "PENDING"
      /\ i \in DOMAIN Questions
  BY <1>1 DEF Questions, Question, Pending
<1>4. Offer[Questions[i].plan] = catalog[requests[i].plan].terms
  BY <1>2, <1>3 DEF Offer
<1>5. UNCHANGED <<Questions, Offer, sub>>
  BY <1>1 DEF Questions, Question, Offer, Ids
<1>6. Abstract!TakeUp(a, i)
  BY <1>1, <1>3, <1>4, <1>5 DEF Abstract!TakeUp, Abstract!Open
<1> QED BY <1>3, <1>6 DEF Abstract!Next

LEMMA AdminApprovalAnswers ==
  ASSUME TypeOK, Holding, NEW a \in Admins, ApproveCommit(a)
  PROVE  Abstract!Next
<1>1. /\ binding[a].id \in Ids /\ binding[a].terms \in Terms
      /\ binding[a] # NoBinding /\ Pending(binding[a].id)
      /\ binding' = [binding EXCEPT ![a] = NoBinding]
      /\ Approved(binding[a].id, binding[a].terms)
  BY ApprovalSteps
<1>2. Abstract!YesAsQuoted(a)
  BY <1>1, ApprovalBinds DEF Abstract!YesAsQuoted
<1> QED BY <1>2 DEF Abstract!Next

LEMMA AdminCrashPutsDown ==
  ASSUME NEW a \in Admins, ApproveCrash(a)
  PROVE  Abstract!Next
<1>1. UNCHANGED <<Questions, Offer, sub>> /\ binding' = [binding EXCEPT ![a] = NoBinding]
  BY DEF ApproveCrash, ApproveEnd, db, Questions, Question, Offer, Ids
<1> QED BY <1>1 DEF Abstract!Next, Abstract!PutDown

LEMMA RejectionAnswers ==
  ASSUME TypeOK, NEW is \in SUBSET Ids, Reject(is)
  PROVE  Abstract!Next
<1>1. /\ Decide(is, "REJECTED") /\ "REJECTED" \in Decisions /\ sub' = sub
      /\ \A i \in is : Pending(i)
  BY DEF Reject, Decidable, Decisions
<1>2. \A k \in Ids : requests[k] \in Requests
  BY DEF TypeOK, RowsOK, Ids
<1>3. DOMAIN Questions = Ids /\ \A k \in Ids : Questions[k] = Question(requests[k])
  BY DEF Questions
<1>4. Questions' = [k \in Ids |-> IF k \in is THEN [Questions[k] EXCEPT !.answer = "REJECTED"]
                                  ELSE Questions[k]]
  <2>1. Ids' = Ids /\ Questions' = [k \in Ids |-> Question(requests'[k])]
    BY <1>1, DecideRows DEF Questions, Question
  <2>2. ASSUME NEW k \in Ids
        PROVE  Question(requests'[k]) = IF k \in is
                                        THEN [Questions[k] EXCEPT !.answer = "REJECTED"]
                                        ELSE Questions[k]
    <3>1. CASE k \in is
      <4>1. requests'[k] = [requests[k] EXCEPT !.status = "REJECTED"]
        BY <1>1, <3>1, DecideRows
      <4>2. Question(requests'[k]) = [Question(requests[k]) EXCEPT !.answer = "REJECTED"]
        BY <1>2, <4>1 DEF Question, Requests
      <4> QED BY <1>3, <3>1, <4>2
    <3>2. CASE k \notin is
      BY <1>1, <1>3, <3>2, DecideRows
    <3> QED BY <3>1, <3>2
  <2> QED BY <2>1, <2>2
<1>5. \A i \in is : Questions[i].answer = "PENDING"
  BY <1>1, <1>3 DEF Question, Pending
<1>6. UNCHANGED <<Offer, binding, sub>>
  BY <1>1 DEF Reject, Decide, Offer
<1>7. Abstract!No(is)
  BY <1>3, <1>4, <1>5, <1>6 DEF Abstract!No, Abstract!Open
<1> QED BY <1>3, <1>7 DEF Abstract!Next

LEMMA ImpositionRefines ==
  ASSUME TypeOK, NEW t \in Tenants, UpdateSubscription(t)
  PROVE  Abstract!Next
<1>1. sub' = [sub EXCEPT ![t] = sub'[t]]
  BY DEF UpdateSubscription, TypeOK, RowsOK
<1>2. UNCHANGED <<Questions, Offer, binding>>
  BY DEF UpdateSubscription, Questions, Question, Offer, Ids
<1> QED BY <1>1, <1>2 DEF Abstract!Next, Abstract!Impose

LEMMA EditRefines ==
  ASSUME TypeOK, NEW p \in Plans, EditPlan(p)
  PROVE  Abstract!Next
<1>1. PICK row \in CatalogRows : catalog' = [catalog EXCEPT ![p] = row]
  BY DEF EditPlan
<1>2. Offer' = [Offer EXCEPT ![p] = Offer'[p]]
  BY <1>1 DEF Offer, TypeOK, RowsOK
<1>3. UNCHANGED <<Questions, binding, sub>>
  BY DEF EditPlan, Questions, Question, Ids
<1> QED BY <1>2, <1>3 DEF Abstract!Next, Abstract!Reprice

(* Plan changes implement Approvals: but for what forms write over a        *)
(* request, a question is answered once, and a yes binds, in the same step, *)
(* the plan that was asked for, at its terms of that moment or as an admin  *)
(* read them with the question open.                                        *)
THEOREM PlanChangesImplementApprovals == Spec => RefinesApprovals
<1>1. Init => Abstract!Init
  <2> SUFFICES ASSUME Init PROVE Abstract!Init
    OBVIOUS
  <2>1. Ids = {}
    BY DEF Init, Ids
  <2>2. Questions = <<>>
    BY <2>1 DEF Questions
  <2>3. Offer \in [Plans -> Terms]
    BY DEF Init, Offer
  <2>4. binding = [a \in Admins |-> NoBinding]
    BY DEF Init
  <2> QED BY <2>2, <2>3, <2>4 DEF Abstract!Init
<1>2. TypeOK /\ Holding /\ [Next]_vars
        => [Abstract!Next \/ \E f \in Forms : SaveRequest(f)]_<<catalog, sub, requests, binding>>
  <2> SUFFICES ASSUME TypeOK, Holding, [Next]_vars
               PROVE  \/ Abstract!Next \/ \E f \in Forms : SaveRequest(f)
                      \/ UNCHANGED <<catalog, sub, requests, binding>>
    OBVIOUS
  <2>1. ASSUME NEW w \in Workers, File(w)
        PROVE  Abstract!Next \/ UNCHANGED <<catalog, sub, requests, binding>>
    BY <2>1, FileSteps, FilingAsks DEF db
  <2>2. CASE Staff
    BY <2>2, ApiApprovalAnswers, AdminReadTakesUp, AdminApprovalAnswers, AdminCrashPutsDown,
       RejectionAnswers, ImpositionRefines, EditRefines DEF Staff
  <2>3. CASE Django
    BY <2>3 DEF Django, OpenRequest, db
  <2>4. CASE UNCHANGED vars
    BY <2>4 DEF vars, db
  <2> QED BY <2>1, <2>2, <2>3, <2>4 DEF Next
<1> QED BY <1>1, <1>2, Typing, AlwaysHolding, PTL DEF Spec, RefinesApprovals
=============================================================================
