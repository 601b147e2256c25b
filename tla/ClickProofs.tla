----------------------------- MODULE ClickProofs -----------------------------
(***************************************************************************)
(* Proofs about Click.tla, for any workers, payments, offers and cap: its  *)
(* types, that a confirmation comes after the credit, and that the wallet  *)
(* is credited with what was prepared.                                     *)
(***************************************************************************)
EXTENDS Click, TLAPS

Labels == {"idle", "credit", "flag"}
Requests == [id : Ids, row : Offers, done : BOOLEAN]

(* What is prepared, and what was credited, was reserved under the id; and  *)
(* nothing is completed or confirmed before it was credited.                *)
PaymentOK(id) ==
  /\ prepared[id] # Nothing => prepared[id] \in reserved[id]
  /\ payment[id] # Nothing => payment[id] \in reserved[id]
  /\ completed[id] \/ confirmed[id] # {} => payment[id] # Nothing

(* A Complete under way holds a row that was reserved, and about to set the *)
(* flag it has credited.                                                    *)
HeldOK(p) ==
  /\ pc[p] # "idle" => /\ req[p].row \in reserved[req[p].id]
                       /\ req[p].row.amount \in Claims
  /\ pc[p] = "flag" => payment[req[p].id] # Nothing

IInv ==
  /\ TypeOK /\ DOMAIN req = Workers
  /\ \A id \in Ids : PaymentOK(id)
  /\ \A p \in Workers : HeldOK(p)

LEMMA Known ==
  ASSUME IInv
  PROVE  /\ DOMAIN pc = Workers /\ DOMAIN req = Workers
         /\ DOMAIN prepared = Ids /\ DOMAIN completed = Ids /\ DOMAIN reserved = Ids
         /\ DOMAIN payment = Ids /\ DOMAIN confirmed = Ids
         /\ \A p \in Workers : pc[p] # "idle" => req[p] \in Requests
BY DEF IInv, TypeOK, Requests

(* An offer is worth something. *)
LEMMA OfferIsSomething ==
  ASSUME NEW o \in Offers
  PROVE  o # Nothing
<1>1. o.amount # 0
  BY ClickAssumption
<1> QED BY <1>1 DEF Nothing

LEMMA InitInv == Init => IInv
BY DEF Init, IInv, TypeOK, PaymentOK, HeldOK, NoRequest

(* A worker moves on: the others stay where they are. *)
Holding(label, r) == label \in Labels /\ (label # "idle" => r \in Requests)

LEMMA GotoTyped ==
  ASSUME IInv, NEW p \in Workers, NEW label, NEW r, Goto(p, label, r), Holding(label, r)
  PROVE  /\ pc' \in [Workers -> Labels] /\ DOMAIN req' = Workers
         /\ \A q \in Workers : pc'[q] # "idle" => req'[q] \in Requests
         /\ pc'[p] = label /\ req'[p] = r
         /\ \A q \in Workers : q # p => pc'[q] = pc[q] /\ req'[q] = req[q]
<1>1. pc \in [Workers -> Labels] /\ \A q \in Workers : pc[q] # "idle" => req[q] \in Requests
  BY DEF IInv, TypeOK, Labels, Requests
<1>2. pc'[p] = label /\ req'[p] = r
  BY Known DEF Goto
<1>3. \A q \in Workers : q # p => pc'[q] = pc[q] /\ req'[q] = req[q]
  BY Known DEF Goto
<1>4. pc' \in [Workers -> Labels] /\ DOMAIN req' = Workers
  BY <1>1, Known DEF Goto, Holding
<1> QED BY <1>1, <1>2, <1>3, <1>4 DEF Holding

TablesOK ==
  /\ prepared \in [Ids -> Offers \union {Nothing}]
  /\ completed \in [Ids -> BOOLEAN]
  /\ reserved \in [Ids -> SUBSET Offers]
  /\ payment \in [Ids -> Offers \union {Nothing}]
  /\ confirmed \in [Ids -> SUBSET Claims]

(* Nothing once reserved or paid is lost. *)
Kept == \A id \in Ids :
  /\ reserved[id] \subseteq reserved'[id]
  /\ payment[id] # Nothing => payment'[id] # Nothing

LEMMA MoveInv ==
  ASSUME IInv, NEW p \in Workers, NEW label, NEW r, Goto(p, label, r), Holding(label, r),
         TablesOK', Kept, HeldOK(p)', \A id \in Ids : PaymentOK(id)'
  PROVE  IInv'
<1>1. TypeOK' /\ DOMAIN req' = Workers
  BY GotoTyped DEF TypeOK, TablesOK, Labels, Requests
<1>2. ASSUME NEW q \in Workers, q # p PROVE HeldOK(q)'
  <2>1. pc'[q] = pc[q] /\ req'[q] = req[q]
    BY <1>2, GotoTyped
  <2>2. HeldOK(q) /\ (pc[q] # "idle" => req[q].id \in Ids) /\ (pc[q] = "flag" => pc[q] # "idle")
    BY Known DEF IInv, Requests
  <2> QED BY <2>1, <2>2 DEF HeldOK, Kept
<1> QED BY <1>1, <1>2 DEF IInv

LEMMA FinishInv ==
  ASSUME IInv, NEW p \in Workers, Finish(p), TablesOK', Kept, \A id \in Ids : PaymentOK(id)'
  PROVE  IInv'
<1>1. Goto(p, "idle", NoRequest) /\ Holding("idle", NoRequest)
  BY DEF Finish, Holding, Labels
<1>2. pc'[p] = "idle"
  BY <1>1, GotoTyped
<1>3. HeldOK(p)'
  BY <1>2 DEF HeldOK
<1> QED BY <1>1, <1>3, MoveInv

LEMMA Untouched ==
  ASSUME IInv, UNCHANGED <<prepared, completed, reserved, payment, confirmed>>
  PROVE  TablesOK' /\ Kept /\ \A id \in Ids : PaymentOK(id)'
BY DEF IInv, TypeOK, TablesOK, Kept, PaymentOK

LEMMA PrepareInv ==
  ASSUME IInv, NEW id \in Ids, NEW offer \in Offers, Prepare(id, offer)
  PROVE  IInv'
<1>1. /\ prepared' \in [Ids -> Offers \union {Nothing}]
      /\ prepared'[id] = offer /\ \A i \in Ids : i # id => prepared'[i] = prepared[i]
  BY DEF IInv, TypeOK, Prepare
<1>2. /\ reserved' \in [Ids -> SUBSET Offers]
      /\ reserved'[id] = reserved[id] \union {offer}
      /\ \A i \in Ids : i # id => reserved'[i] = reserved[i]
  BY DEF IInv, TypeOK, Prepare
<1>3. UNCHANGED <<completed, payment, confirmed, pc, req>>
  BY DEF Prepare
<1>4. TypeOK' /\ DOMAIN req' = Workers
  BY <1>1, <1>2, <1>3 DEF IInv, TypeOK
<1>5. \A i \in Ids : PaymentOK(i)'
  BY <1>1, <1>2, <1>3 DEF IInv, PaymentOK
<1>6. ASSUME NEW p \in Workers PROVE HeldOK(p)'
  <2>1. HeldOK(p) /\ (pc[p] # "idle" => req[p].id \in Ids)
    BY Known DEF IInv, Requests
  <2> QED BY <1>2, <1>3, <2>1 DEF HeldOK
<1> QED BY <1>4, <1>5, <1>6 DEF IInv

LEMMA CompleteReadInv ==
  ASSUME IInv, NEW p \in Workers, NEW id \in Ids, NEW a \in Claims, CompleteRead(p, id, a)
  PROVE  IInv'
<1> DEFINE row == [tenant |-> prepared[id].tenant, amount |-> a]
           r == [id |-> id, done |-> completed[id], row |-> row]
<1>1. /\ prepared[id] # Nothing /\ a = prepared[id].amount /\ Goto(p, "credit", r)
      /\ UNCHANGED <<prepared, completed, reserved, payment, confirmed>>
  BY DEF CompleteRead, Matches
<1>2. prepared[id] \in Offers /\ prepared[id] \in reserved[id] /\ completed[id] \in BOOLEAN
  BY <1>1 DEF IInv, TypeOK, PaymentOK
<1>3. row = prepared[id]
  BY <1>1, <1>2, ClickAssumption
<1>4. r \in Requests
  BY <1>2, <1>3 DEF Requests
<1>5. pc'[p] = "credit" /\ req'[p] = r
  BY <1>1, <1>4, GotoTyped DEF Holding, Labels
<1>6. HeldOK(p)'
  BY <1>1, <1>2, <1>3, <1>5 DEF HeldOK
<1> QED BY <1>1, <1>4, <1>6, Untouched, MoveInv DEF Holding, Labels

LEMMA CompleteCreditInv ==
  ASSUME IInv, NEW p \in Workers, CompleteCredit(p)
  PROVE  IInv'
<1> DEFINE id == req[p].id
           row == req[p].row
<1>1. /\ req[p] \in Requests /\ id \in Ids /\ row \in Offers
      /\ row \in reserved[id] /\ row.amount \in Claims
  BY Known DEF CompleteCredit, IInv, HeldOK, Requests
<1>2. CASE row.amount > MaxCredit
  BY <1>2, Untouched, FinishInv DEF CompleteCredit
<1>3. CASE ~(row.amount > MaxCredit)
  <2>1. /\ payment' = [payment EXCEPT ![id] = CreditOnce(id, row)]
        /\ Goto(p, "flag", req[p]) /\ UNCHANGED <<prepared, completed, reserved, confirmed>>
    BY <1>3 DEF CompleteCredit
  <2>2. /\ CreditOnce(id, row) \in Offers /\ CreditOnce(id, row) \in reserved[id]
        /\ CreditOnce(id, row) # Nothing
    BY <1>1, OfferIsSomething DEF CreditOnce, IInv, TypeOK, PaymentOK
  <2>3. /\ payment' \in [Ids -> Offers \union {Nothing}]
        /\ payment'[id] = CreditOnce(id, row)
        /\ \A i \in Ids : i # id => payment'[i] = payment[i]
    BY <1>1, <2>1, <2>2 DEF IInv, TypeOK
  <2>4. TablesOK' /\ Kept
    BY <2>1, <2>2, <2>3 DEF IInv, TypeOK, TablesOK, Kept
  <2>5. \A i \in Ids : PaymentOK(i)'
    BY <2>1, <2>2, <2>3 DEF IInv, PaymentOK
  <2>6. Holding("flag", req[p])
    BY <1>1 DEF Holding, Labels
  <2>7. pc'[p] = "flag" /\ req'[p] = req[p]
    BY <2>1, <2>6, GotoTyped
  <2>8. HeldOK(p)'
    BY <1>1, <2>1, <2>2, <2>3, <2>7 DEF HeldOK
  <2> QED BY <2>1, <2>4, <2>5, <2>6, <2>8, MoveInv
<1> QED BY <1>2, <1>3

LEMMA CompleteFlagInv ==
  ASSUME IInv, NEW p \in Workers, CompleteFlag(p)
  PROVE  IInv'
<1> DEFINE id == req[p].id
<1>1. /\ id \in Ids /\ req[p].row.amount \in Claims /\ payment[id] # Nothing
      /\ req[p].done \in BOOLEAN
  BY Known DEF CompleteFlag, IInv, HeldOK, Requests
<1>2. /\ completed' = [completed EXCEPT ![id] = FlagSaved(@, req[p].done)]
      /\ confirmed' = [confirmed EXCEPT ![id] = @ \union {req[p].row.amount}]
      /\ Finish(p) /\ UNCHANGED <<prepared, reserved, payment>>
  BY DEF CompleteFlag
<1>3. FlagSaved(completed[id], req[p].done) \in BOOLEAN
  BY <1>1 DEF FlagSaved, IInv, TypeOK
<1>4. /\ completed' \in [Ids -> BOOLEAN]
      /\ \A i \in Ids : i # id => completed'[i] = completed[i]
  BY <1>1, <1>2, <1>3 DEF IInv, TypeOK
<1>5. /\ confirmed' \in [Ids -> SUBSET Claims]
      /\ \A i \in Ids : i # id => confirmed'[i] = confirmed[i]
  BY <1>1, <1>2 DEF IInv, TypeOK
<1>6. TablesOK' /\ Kept
  BY <1>2, <1>4, <1>5 DEF IInv, TypeOK, TablesOK, Kept
<1>7. ASSUME NEW i \in Ids PROVE PaymentOK(i)'
  <2>1. CASE i = id
    BY <1>1, <1>2, <2>1 DEF IInv, PaymentOK
  <2>2. CASE i # id
    BY <1>2, <1>4, <1>5, <2>2 DEF IInv, PaymentOK
  <2> QED BY <2>1, <2>2
<1> QED BY <1>2, <1>6, <1>7, FinishInv

LEMMA StutterInv ==
  ASSUME IInv, UNCHANGED vars
  PROVE  IInv'
BY DEF vars, IInv, TypeOK, PaymentOK, HeldOK

(* Every step of the endpoint keeps the invariant. *)
LEMMA NextInv ==
  ASSUME IInv, [Next]_vars
  PROVE  IInv'
<1>1. ASSUME NEW id \in Ids, NEW offer \in Offers, Prepare(id, offer) PROVE IInv'
  BY <1>1, PrepareInv
<1>2. ASSUME NEW p \in Workers, NEW id \in Ids, Complete(p, id) PROVE IInv'
  BY <1>2, CompleteReadInv, StutterInv DEF Complete, CompleteRefused
<1>3. ASSUME NEW p \in Workers, CompleteCredit(p) \/ CompleteFlag(p) PROVE IInv'
  BY <1>3, CompleteCreditInv, CompleteFlagInv
<1>4. ASSUME NEW p \in Workers, Crash(p) PROVE IInv'
  BY <1>4, Untouched, FinishInv DEF Crash
<1> QED BY <1>1, <1>2, <1>3, <1>4, StutterInv DEF Next

(* The inductive invariant of the Click webhooks. *)
THEOREM Invariant == Spec => []IInv
BY InitInv, NextInv, PTL DEF Spec

(* The types: every table and what every Complete under way holds.          *)
THEOREM Typing == Spec => []TypeOK
<1>1. IInv => TypeOK
  BY DEF IInv
<1> QED BY <1>1, Invariant, PTL

(* Complete credits first, in a transaction of its own, and saves its flag  *)
(* and answers "Success" after it: whoever crashes in between, no           *)
(* confirmation is ahead of the wallet (click.py).                          *)
THEOREM ConfirmationFollowsCredit == Spec => []ConfirmedIsCredited
<1>1. IInv => ConfirmedIsCredited
  BY DEF IInv, PaymentOK, ConfirmedIsCredited
<1> QED BY <1>1, Invariant, PTL

(* The wallet is credited with a tenant and an amount that one Prepare of   *)
(* this id reserved, though Prepare may rewrite the row at any moment and   *)
(* Complete reads it without a lock (click.py).                             *)
THEOREM CreditIsOfTheReserved == Spec => []CreditWasReserved
<1>1. IInv => CreditWasReserved
  BY DEF IInv, PaymentOK, CreditWasReserved
<1> QED BY <1>1, Invariant, PTL
=============================================================================
