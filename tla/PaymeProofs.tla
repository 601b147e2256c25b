----------------------------- MODULE PaymeProofs -----------------------------
(***************************************************************************)
(* Proofs about Payme.tla, for any workers, transactions, amounts and cap: *)
(* its types, that Payme hears "performed" only of money in the wallet,    *)
(* and that a cancellation is final.                                       *)
(***************************************************************************)
EXTENDS Payme, TLAPS

Labels == {"idle", "create", "credit", "cancel"}

(* A transaction with a row has its amount for good; the wallet holds that  *)
(* amount or nothing, all of it once Payme heard "performed"; and Payme     *)
(* heard "cancelled" of cancelled transactions only.                        *)
RowOK(id) ==
  /\ txn[id].state # "none" => txn[id].amount \in Amounts
  /\ wallet[id] # 0 => txn[id].state # "none" /\ wallet[id] = txn[id].amount
  /\ "performed" \in told[id] => wallet[id] # 0
  /\ "cancelled" \in told[id] => txn[id].state \in Cancelled

(* What a worker is about to do with a transaction.                         *)
HeldOK(p) ==
  LET id == req[p].id
      row == req[p].row
  IN  /\ pc[p] = "create" => row.state = "CREATED" /\ row.amount \in Amounts
      /\ pc[p] = "credit" => txn[id].state # "none" /\ row.amount = txn[id].amount
      /\ pc[p] = "cancel" => txn[id].state # "none"

IInv ==
  /\ TypeOK /\ DOMAIN req = Workers
  /\ \A id \in Ids : RowOK(id)
  /\ \A p \in Workers : HeldOK(p)

(* The domains that EXCEPT asks for, and what a worker holds. *)
LEMMA Known ==
  ASSUME IInv
  PROVE  /\ DOMAIN pc = Workers /\ DOMAIN req = Workers
         /\ DOMAIN txn = Ids /\ DOMAIN wallet = Ids /\ DOMAIN told = Ids
         /\ \A p \in Workers : pc[p] # "idle" => req[p].id \in Ids /\ req[p].row \in Transactions
         /\ \A id \in Ids : txn[id] \in Transactions /\ wallet[id] \in Amounts \union {0}
                            /\ told[id] \subseteq Answers
BY DEF IInv, TypeOK

LEMMA InitInv == Init => IInv
BY PaymeAssumption DEF Init, IInv, TypeOK, RowOK, HeldOK, NoTransaction, NoRequest, Transactions,
   States, Answers

(***************************************************************************)
(* Two rules carry the invariant through a step: one for what the worker   *)
(* of the step holds afterwards, one for the transaction it touches.       *)
(***************************************************************************)

(* A step that moves one worker and leaves the rest of the rows alone. *)
Holding(p, label, r) ==
  /\ label \in Labels
  /\ IF label = "idle" THEN r = NoRequest ELSE r \in [id : Ids, row : Transactions]

LEMMA GotoTyped ==
  ASSUME IInv, NEW p \in Workers, NEW label, NEW r, Goto(p, label, r), Holding(p, label, r)
  PROVE  /\ pc' \in [Workers -> Labels] /\ DOMAIN req' = Workers
         /\ \A q \in Workers : IF pc'[q] = "idle" THEN req'[q] = NoRequest
                               ELSE req'[q] \in [id : Ids, row : Transactions]
         /\ pc'[p] = label /\ req'[p] = r
         /\ \A q \in Workers : q # p => pc'[q] = pc[q] /\ req'[q] = req[q]
<1>1. pc \in [Workers -> Labels]
  BY DEF IInv, TypeOK, Labels
<1>2. \A q \in Workers : q # p => pc'[q] = pc[q] /\ req'[q] = req[q]
  BY Known DEF Goto
<1>3. pc'[p] = label /\ req'[p] = r
  BY Known DEF Goto
<1>4. \A q \in Workers : IF pc[q] = "idle" THEN req[q] = NoRequest
                               ELSE req[q] \in [id : Ids, row : Transactions]
  BY DEF IInv, TypeOK
<1>5. pc' \in [Workers -> Labels] /\ DOMAIN req' = Workers
  BY <1>1, Known DEF Goto, Holding
<1> QED BY <1>2, <1>3, <1>4, <1>5 DEF Holding

(* What other workers hold stays true as long as a row once there is never  *)
(* lost and keeps its amount.                                               *)
RowsKept == \A id \in Ids : txn[id].state # "none" =>
  txn'[id].state # "none" /\ txn'[id].amount = txn[id].amount

LEMMA MoveInv ==
  ASSUME IInv, NEW p \in Workers, NEW label, NEW r, Goto(p, label, r), Holding(p, label, r),
         txn' \in [Ids -> Transactions], wallet' \in [Ids -> Amounts \union {0}],
         told' \in [Ids -> SUBSET Answers],
         RowsKept, HeldOK(p)', \A id \in Ids : RowOK(id)'
  PROVE  IInv'
<1>1. TypeOK' /\ DOMAIN req' = Workers
  BY GotoTyped DEF TypeOK, Labels
<1>2. ASSUME NEW q \in Workers, q # p PROVE HeldOK(q)'
  <2>1. pc'[q] = pc[q] /\ req'[q] = req[q]
    BY <1>2, GotoTyped
  <2>2. HeldOK(q) /\ (pc[q] # "idle" => req[q].id \in Ids)
    BY Known DEF IInv
  <2> QED BY <2>1, <2>2 DEF HeldOK, RowsKept
<1> QED BY <1>1, <1>2 DEF IInv

(* An answer adds to what Payme was told of one transaction. *)
LEMMA ReplyTells ==
  ASSUME IInv, NEW p \in Workers, NEW id \in Ids, NEW answer \in Answers, Reply(p, id, answer)
  PROVE  /\ told' \in [Ids -> SUBSET Answers]
         /\ told'[id] = told[id] \union {answer}
         /\ \A i \in Ids : i # id => told'[i] = told[i]
BY DEF IInv, TypeOK, Reply

(* A step that leaves every row, every credit and what Payme was told alone *)
(* or tells it of one transaction what is so.                               *)
LEMMA ReadInv ==
  ASSUME IInv, NEW p \in Workers, NEW label, NEW r, Goto(p, label, r), Holding(p, label, r),
         UNCHANGED <<txn, wallet>>, HeldOK(p)',
         told' \in [Ids -> SUBSET Answers],
         \A id \in Ids : RowOK(id)'
  PROVE  IInv'
<1>1. txn' \in [Ids -> Transactions] /\ wallet' \in [Ids -> Amounts \union {0}] /\ RowsKept
  BY DEF IInv, TypeOK, RowsKept
<1> QED BY <1>1, MoveInv

(* A worker that is done holds nothing. *)
LEMMA IdleHolds ==
  ASSUME IInv, NEW p \in Workers, Goto(p, "idle", NoRequest)
  PROVE  Holding(p, "idle", NoRequest) /\ HeldOK(p)'
<1>1. Holding(p, "idle", NoRequest)
  BY DEF Holding, Labels
<1>2. pc'[p] = "idle"
  BY <1>1, GotoTyped
<1> QED BY <1>1, <1>2 DEF HeldOK

LEMMA RefuseInv ==
  ASSUME IInv, NEW p \in Workers, Refuse(p), UNCHANGED <<txn, wallet>>
  PROVE  IInv'
<1>1. told' \in [Ids -> SUBSET Answers] /\ \A id \in Ids : RowOK(id)'
  BY DEF IInv, TypeOK, Refuse, RowOK
<1> QED BY <1>1, IdleHolds, ReadInv DEF Refuse

LEMMA CreateReplayedInv ==
  ASSUME IInv, NEW p \in Workers, NEW id \in Ids, CreateReplayed(p, id)
  PROVE  IInv'
<1>1. CASE Refuse(p)
  BY <1>1, RefuseInv DEF CreateReplayed
<1>2. CASE Reply(p, id, "created")
  <2>1. "created" \in Answers /\ UNCHANGED <<txn, wallet>>
    BY DEF Answers, CreateReplayed
  <2>2. \A i \in Ids : RowOK(i)'
    BY <1>2, <2>1, ReplyTells DEF IInv, RowOK
  <2> QED BY <1>2, <2>1, <2>2, ReplyTells, IdleHolds, ReadInv DEF Reply
<1> QED BY <1>1, <1>2 DEF CreateReplayed

LEMMA CreateUnseenInv ==
  ASSUME IInv, NEW p \in Workers, NEW id \in Ids, NEW a \in Amounts, CreateUnseen(p, id, a)
  PROVE  IInv'
<1> DEFINE row == [state |-> "CREATED", amount |-> a]
           r == [id |-> id, row |-> row]
<1>1. row \in Transactions /\ r \in [id : Ids, row : Transactions]
  BY DEF Transactions, States
<1>2. Goto(p, "create", r) /\ Holding(p, "create", r) /\ UNCHANGED <<txn, wallet, told>>
  BY <1>1 DEF CreateUnseen, Holding, Labels
<1>3. pc'[p] = "create" /\ req'[p] = r
  BY <1>2, GotoTyped
<1>4. HeldOK(p)'
  BY <1>3 DEF HeldOK
<1>5. told' \in [Ids -> SUBSET Answers] /\ \A i \in Ids : RowOK(i)'
  BY <1>2 DEF IInv, TypeOK, RowOK
<1> QED BY <1>2, <1>4, <1>5, ReadInv

LEMMA CreateInsertInv ==
  ASSUME IInv, NEW p \in Workers, CreateInsert(p)
  PROVE  IInv'
<1> DEFINE id == req[p].id
<1>1. id \in Ids /\ req[p].row \in Transactions /\ req[p].row.state = "CREATED"
      /\ req[p].row.amount \in Amounts
  BY Known DEF IInv, HeldOK, CreateInsert
<1>2. CASE txn[id].state = "none"
  <2>1. /\ txn' = [txn EXCEPT ![id] = req[p].row] /\ Reply(p, id, "created")
        /\ UNCHANGED wallet /\ "created" \in Answers
    BY <1>2 DEF CreateInsert, Answers
  <2>2. /\ txn' \in [Ids -> Transactions] /\ txn'[id] = req[p].row
        /\ \A i \in Ids : i # id => txn'[i] = txn[i]
    BY <1>1, <2>1 DEF IInv, TypeOK
  <2>3. RowsKept
    BY <1>2, <2>2 DEF RowsKept
  <2>4. ASSUME NEW i \in Ids PROVE RowOK(i)'
    <3>1. CASE i = id
      <4>1. RowOK(id) /\ wallet[id] = 0 /\ "performed" \notin told[id] /\ "cancelled" \notin told[id]
        BY <1>1, <1>2 DEF IInv, RowOK, Cancelled
      <4> QED BY <1>1, <2>1, <2>2, <3>1, <4>1, ReplyTells DEF RowOK
    <3>2. CASE i # id
      BY <1>1, <2>1, <2>2, <3>2, ReplyTells DEF RowOK, IInv
    <3> QED BY <3>1, <3>2
  <2>5. wallet' \in [Ids -> Amounts \union {0}] /\ told' \in [Ids -> SUBSET Answers]
    BY <1>1, <2>1, ReplyTells DEF IInv, TypeOK
  <2>6. Goto(p, "idle", NoRequest)
    BY <2>1 DEF Reply
  <2> QED BY <2>2, <2>3, <2>4, <2>5, <2>6, IdleHolds, MoveInv
<1>3. CASE txn[id].state # "none"
  BY <1>3, RefuseInv DEF CreateInsert
<1> QED BY <1>2, <1>3

(* Changing the state of a row that is there keeps the row and its amount. *)
LEMMA StateSaved ==
  ASSUME IInv, NEW id \in Ids, NEW s \in States, s # "none", txn[id].state # "none",
         txn' = [txn EXCEPT ![id].state = s]
  PROVE  /\ txn' \in [Ids -> Transactions] /\ RowsKept
         /\ txn'[id].state = s /\ txn'[id].amount = txn[id].amount
         /\ \A i \in Ids : i # id => txn'[i] = txn[i]
<1>1. txn \in [Ids -> Transactions]
  BY DEF IInv, TypeOK
<1>2. txn'[id] = [state |-> s, amount |-> txn[id].amount]
  BY <1>1 DEF Transactions
<1>3. \A i \in Ids : i # id => txn'[i] = txn[i]
  BY <1>1
<1>4. txn'[id] \in Transactions
  BY <1>1, <1>2 DEF Transactions
<1>5. txn' \in [Ids -> Transactions]
  <2>1. \A i \in Ids : txn'[i] \in Transactions
    BY <1>1, <1>3, <1>4
  <2> QED BY <1>1, <2>1
<1>6. RowsKept
  BY <1>2, <1>3 DEF RowsKept
<1> QED BY <1>2, <1>3, <1>5, <1>6

LEMMA PerformCompleteInv ==
  ASSUME IInv, NEW p \in Workers, NEW id \in Ids, PerformComplete(p, id)
  PROVE  IInv'
<1> DEFINE r == [id |-> id, row |-> txn'[id]]
<1>1. /\ txn[id].state \in {"CREATED", "COMPLETED"}
      /\ txn' = [txn EXCEPT ![id].state = "COMPLETED"]
      /\ Goto(p, "credit", r) /\ UNCHANGED <<wallet, told>>
  BY DEF PerformComplete, Performable
<1>2. /\ txn' \in [Ids -> Transactions] /\ RowsKept
      /\ txn'[id].state = "COMPLETED" /\ txn'[id].amount = txn[id].amount
      /\ \A i \in Ids : i # id => txn'[i] = txn[i]
  BY <1>1, StateSaved DEF States
<1>3. Holding(p, "credit", r)
  BY <1>2 DEF Holding, Labels
<1>4. pc'[p] = "credit" /\ req'[p] = r
  BY <1>1, <1>3, GotoTyped
<1>5. HeldOK(p)'
  BY <1>2, <1>4 DEF HeldOK
<1>6. ASSUME NEW i \in Ids PROVE RowOK(i)'
  <2>1. RowOK(i) /\ RowOK(id)
    BY DEF IInv
  <2>2. CASE i = id
    BY <1>1, <1>2, <2>1, <2>2 DEF RowOK, Cancelled
  <2>3. CASE i # id
    BY <1>1, <1>2, <2>1, <2>3 DEF RowOK
  <2> QED BY <2>2, <2>3
<1>7. wallet' \in [Ids -> Amounts \union {0}] /\ told' \in [Ids -> SUBSET Answers]
  BY <1>1 DEF IInv, TypeOK
<1> QED BY <1>1, <1>2, <1>3, <1>5, <1>6, <1>7, MoveInv

LEMMA PerformCreditInv ==
  ASSUME IInv, NEW p \in Workers, PerformCredit(p)
  PROVE  IInv'
<1> DEFINE id == req[p].id
           a == req[p].row.amount
<1>1. id \in Ids /\ txn[id].state # "none" /\ a = txn[id].amount /\ a \in Amounts
  BY Known DEF IInv, HeldOK, RowOK, PerformCredit
<1>2. CASE a > MaxCredit
  BY <1>2, RefuseInv DEF PerformCredit
<1>3. CASE ~(a > MaxCredit)
  <2>1. /\ wallet' = [wallet EXCEPT ![id] = CreditOnce(id, a)] /\ UNCHANGED txn
        /\ Reply(p, id, "performed") /\ "performed" \in Answers
    BY <1>3 DEF PerformCredit, Answers
  <2>2. CreditOnce(id, a) = a
    BY <1>1 DEF CreditOnce, IInv, RowOK
  <2>3. /\ wallet' \in [Ids -> Amounts \union {0}] /\ wallet'[id] = a
        /\ \A i \in Ids : i # id => wallet'[i] = wallet[i]
    BY <1>1, <2>1, <2>2 DEF IInv, TypeOK
  <2>4. txn' \in [Ids -> Transactions] /\ RowsKept
    BY <2>1 DEF IInv, TypeOK, RowsKept
  <2>5. ASSUME NEW i \in Ids PROVE RowOK(i)'
    <3>1. CASE i = id
      <4>1. a # 0
        BY <1>1, PaymeAssumption
      <4>2. RowOK(id)
        BY <1>1 DEF IInv
      <4> QED BY <1>1, <2>1, <2>3, <3>1, <4>1, <4>2, ReplyTells DEF RowOK
    <3>2. CASE i # id
      BY <1>1, <2>1, <2>3, <3>2, ReplyTells DEF IInv, RowOK
    <3> QED BY <3>1, <3>2
  <2>6. told' \in [Ids -> SUBSET Answers] /\ Goto(p, "idle", NoRequest)
    BY <1>1, <2>1, ReplyTells DEF Reply
  <2> QED BY <2>3, <2>4, <2>5, <2>6, IdleHolds, MoveInv
<1> QED BY <1>2, <1>3

LEMMA CancelReadInv ==
  ASSUME IInv, NEW p \in Workers, NEW id \in Ids, CancelRead(p, id)
  PROVE  IInv'
<1>1. CASE txn[id].state = "none"
  BY <1>1, RefuseInv DEF CancelRead
<1>2. CASE txn[id].state \in Cancelled
  <2>1. Reply(p, id, "cancelled") /\ UNCHANGED <<txn, wallet>> /\ "cancelled" \in Answers
    BY <1>2 DEF CancelRead, Answers, Cancelled
  <2>2. \A i \in Ids : RowOK(i)'
    BY <1>2, <2>1, ReplyTells DEF IInv, RowOK
  <2> QED BY <2>1, <2>2, ReplyTells, IdleHolds, ReadInv DEF Reply
<1>3. CASE txn[id].state # "none" /\ txn[id].state \notin Cancelled
  <2> DEFINE r == [id |-> id, row |-> txn[id]]
  <2>1. Goto(p, "cancel", r) /\ UNCHANGED <<txn, wallet, told>>
    BY <1>3 DEF CancelRead
  <2>2. Holding(p, "cancel", r)
    BY Known DEF Holding, Labels
  <2>3. pc'[p] = "cancel" /\ req'[p] = r
    BY <2>1, <2>2, GotoTyped
  <2>4. HeldOK(p)'
    BY <1>3, <2>1, <2>3 DEF HeldOK
  <2>5. told' \in [Ids -> SUBSET Answers] /\ \A i \in Ids : RowOK(i)'
    BY <2>1 DEF IInv, TypeOK, RowOK
  <2> QED BY <2>1, <2>2, <2>4, <2>5, ReadInv
<1> QED BY <1>1, <1>2, <1>3

LEMMA CancelSaveInv ==
  ASSUME IInv, NEW p \in Workers, CancelSave(p)
  PROVE  IInv'
<1> DEFINE id == req[p].id
           s == CancelledFrom(req[p].row.state)
<1>1. id \in Ids /\ txn[id].state # "none"
  BY Known DEF IInv, HeldOK, CancelSave
<1>2. /\ txn' = [txn EXCEPT ![id].state = s] /\ UNCHANGED wallet
      /\ Reply(p, id, "cancelled") /\ "cancelled" \in Answers
      /\ s \in Cancelled
  BY DEF CancelSave, CancelledFrom, Cancelled, Answers
<1>3. s \in States /\ s # "none"
  BY <1>2 DEF Cancelled, States
<1> HIDE DEF s
<1>4. /\ txn' \in [Ids -> Transactions] /\ RowsKept
      /\ txn'[id].state = s /\ txn'[id].amount = txn[id].amount
      /\ \A i \in Ids : i # id => txn'[i] = txn[i]
  BY <1>1, <1>2, <1>3, StateSaved
<1>5. ASSUME NEW i \in Ids PROVE RowOK(i)'
  <2>1. RowOK(i) /\ RowOK(id)
    BY <1>1 DEF IInv
  <2>2. CASE i = id
    BY <1>1, <1>2, <1>3, <1>4, <2>1, <2>2, ReplyTells DEF RowOK
  <2>3. CASE i # id
    BY <1>1, <1>2, <1>4, <2>1, <2>3, ReplyTells DEF RowOK
  <2> QED BY <2>2, <2>3
<1>6. wallet' \in [Ids -> Amounts \union {0}] /\ told' \in [Ids -> SUBSET Answers]
  BY <1>1, <1>2, ReplyTells DEF IInv, TypeOK
<1>7. Goto(p, "idle", NoRequest)
  BY <1>2 DEF Reply
<1> QED BY <1>4, <1>5, <1>6, <1>7, IdleHolds, MoveInv

LEMMA StutterInv ==
  ASSUME IInv, UNCHANGED vars
  PROVE  IInv'
BY DEF vars, IInv, TypeOK, RowOK, HeldOK

(* Every step of the endpoint keeps the invariant. *)
LEMMA NextInv ==
  ASSUME IInv, [Next]_vars
  PROVE  IInv'
<1>1. ASSUME NEW p \in Workers, NEW id \in Ids, Create(p, id) PROVE IInv'
  BY <1>1, CreateReplayedInv, CreateUnseenInv DEF Create
<1>2. ASSUME NEW p \in Workers, NEW id \in Ids, Perform(p, id) PROVE IInv'
  BY <1>2, RefuseInv, PerformCompleteInv DEF Perform, PerformRefused
<1>3. ASSUME NEW p \in Workers, NEW id \in Ids, CancelRead(p, id) PROVE IInv'
  BY <1>3, CancelReadInv
<1>4. ASSUME NEW p \in Workers, CreateInsert(p) \/ PerformCredit(p) \/ CancelSave(p) PROVE IInv'
  BY <1>4, CreateInsertInv, PerformCreditInv, CancelSaveInv
<1>5. ASSUME NEW p \in Workers, Crash(p) PROVE IInv'
  BY <1>5, RefuseInv DEF Crash
<1> QED BY <1>1, <1>2, <1>3, <1>4, <1>5, StutterInv DEF Next

(* The inductive invariant of the Payme endpoint. *)
THEOREM Invariant == Spec => []IInv
BY InitInv, NextInv, PTL DEF Spec

(* The types: every row, every credit and what every worker holds.          *)
THEOREM Typing == Spec => []TypeOK
<1>1. IInv => TypeOK
  BY DEF IInv
<1> QED BY <1>1, Invariant, PTL

(* Payme is never told that a transaction is performed before the wallet    *)
(* holds its amount: the credit that comes after the commit, in a step of   *)
(* its own, is what the answer of PerformTransaction reports (payme.py).    *)
THEOREM PerformedIsPaid == Spec => []PerformedIsCredited
<1>1. IInv => PerformedIsCredited
  <2> SUFFICES ASSUME IInv, NEW id \in Ids
               PROVE  /\ "performed" \in told[id] => wallet[id] > 0
                      /\ wallet[id] > 0 => wallet[id] = txn[id].amount
    BY DEF PerformedIsCredited
  <2>1. RowOK(id) /\ wallet[id] \in Amounts \union {0}
    BY Known DEF IInv
  <2>2. \A a \in Amounts : a \in Nat
    BY PaymeAssumption
  <2>3. wallet[id] \in Nat
    BY <2>1, <2>2
  <2> QED BY <2>1, <2>3 DEF RowOK
<1> QED BY <1>1, Invariant, PTL

(***************************************************************************)
(* A cancellation is final.                                                *)
(***************************************************************************)

(* No step takes a transaction out of the cancelled states. *)
LEMMA CancelledStays ==
  ASSUME IInv, [Next]_vars, NEW id \in Ids, txn[id].state \in Cancelled
  PROVE  txn'[id].state \in Cancelled
<1>0. txn[id].state \notin {"none", "CREATED", "COMPLETED"} /\ txn[id].state # "none"
  BY DEF Cancelled
<1>1. CASE UNCHANGED txn
  BY <1>1
<1>2. ASSUME NEW p \in Workers, CreateInsert(p) PROVE txn'[id].state \in Cancelled
  <2>1. CASE txn[req[p].id].state = "none"
    <3>1. id # req[p].id
      BY <1>0, <2>1
    <3>2. txn'[id] = txn[id]
      BY <1>2, <2>1, <3>1, Known DEF CreateInsert
    <3> QED BY <3>2
  <2>2. CASE txn[req[p].id].state # "none"
    BY <1>2, <2>2 DEF CreateInsert
  <2> QED BY <2>1, <2>2
<1>3. ASSUME NEW p \in Workers, NEW i \in Ids, PerformComplete(p, i)
      PROVE  txn'[id].state \in Cancelled
  <2>1. i # id /\ txn' = [txn EXCEPT ![i].state = "COMPLETED"] /\ txn[i].state # "none"
    BY <1>0, <1>3 DEF PerformComplete, Performable
  <2>2. txn'[id] = txn[id]
    BY <2>1, StateSaved DEF States
  <2> QED BY <2>2
<1>4. ASSUME NEW p \in Workers, CancelSave(p) PROVE txn'[id].state \in Cancelled
  <2> DEFINE s == CancelledFrom(req[p].row.state)
  <2>1. s \in Cancelled
    BY DEF CancelledFrom, Cancelled
  <2>2. s \in States /\ s # "none"
    BY <2>1 DEF Cancelled, States
  <2>3. /\ txn' = [txn EXCEPT ![req[p].id].state = s]
        /\ req[p].id \in Ids /\ txn[req[p].id].state # "none"
    BY <1>4, Known DEF CancelSave, IInv, HeldOK
  <2> HIDE DEF s
  <2>4. txn'[id].state = s \/ txn'[id] = txn[id]
    BY <2>2, <2>3, StateSaved
  <2> QED BY <2>1, <2>4
<1>5. UNCHANGED txn \/ \E p \in Workers : \/ CreateInsert(p) \/ CancelSave(p)
                                          \/ \E i \in Ids : PerformComplete(p, i)
  BY DEF Next, Create, Perform, CreateReplayed, CreateUnseen, PerformRefused, PerformCredit,
         CancelRead, Crash, vars
<1> QED BY <1>1, <1>2, <1>3, <1>4, <1>5

(* What Payme was told it was told for good. *)
LEMMA ToldStays ==
  ASSUME IInv, [Next]_vars, NEW id \in Ids
  PROVE  told[id] \subseteq told'[id]
<1>1. ASSUME NEW p \in Workers, NEW i \in Ids, NEW answer \in Answers, Reply(p, i, answer)
      PROVE  told[id] \subseteq told'[id]
  BY <1>1, ReplyTells
<1>2. CASE UNCHANGED told
  BY <1>2
<1>3. \/ UNCHANGED told
      \/ \E p \in Workers, i \in Ids, answer \in Answers : Reply(p, i, answer)
  <2>1. ASSUME NEW p \in Workers, CreateInsert(p) \/ PerformCredit(p) \/ CancelSave(p)
        PROVE  UNCHANGED told \/ \E i \in Ids, answer \in Answers : Reply(p, i, answer)
    BY <2>1, Known DEF CreateInsert, PerformCredit, CancelSave, Refuse, Answers
  <2>2. ASSUME NEW p \in Workers, NEW i \in Ids, Create(p, i) \/ Perform(p, i) \/ CancelRead(p, i)
        PROVE  UNCHANGED told \/ \E answer \in Answers : Reply(p, i, answer)
    BY <2>2 DEF Create, Perform, CreateReplayed, CreateUnseen, PerformRefused, PerformComplete,
                CancelRead, Refuse, Answers
  <2>3. ASSUME NEW p \in Workers, Crash(p) PROVE UNCHANGED told
    BY <2>3 DEF Crash, Refuse
  <2>4. CASE UNCHANGED vars
    BY <2>4 DEF vars
  <2> QED BY <2>1, <2>2, <2>3, <2>4 DEF Next
<1> QED BY <1>1, <1>2, <1>3

Crediting(p, id) == pc[p] = "credit" /\ req[p].id = id

(* Only a perform of a transaction that is not cancelled sets out to credit *)
(* it.                                                                      *)
LEMMA CreditsComeFromPerforms ==
  ASSUME IInv, [Next]_vars, NEW id \in Ids, NEW p \in Workers, Crediting(p, id)',
         txn[id].state \in Cancelled
  PROVE  Crediting(p, id)
<1>1. ASSUME NEW q \in Workers, NEW label, NEW r, Goto(q, label, r),
             label # "credit" \/ r.id # id
      PROVE  Crediting(p, id)
  <2>1. pc'[q] = label /\ req'[q] = r
        /\ \A w \in Workers : w # q => pc'[w] = pc[w] /\ req'[w] = req[w]
    BY <1>1, Known DEF Goto
  <2> QED BY <1>1, <2>1 DEF Crediting
<1>2. CASE UNCHANGED vars
  BY <1>2 DEF vars, Crediting
<1>3. ASSUME NEW q \in Workers, NEW i \in Ids, Create(q, i) \/ PerformRefused(q, i) \/ CancelRead(q, i)
      PROVE  Crediting(p, id)
  <2>1. \E label \in Labels \ {"credit"}, r \in {NoRequest} \union [id : Ids, row : Transactions] :
          Goto(q, label, r)
    <3>1. CASE Goto(q, "idle", NoRequest)
      BY <3>1 DEF Labels
    <3>2. ASSUME NEW a \in Amounts, CreateUnseen(q, i, a)
          PROVE  \E r \in [id : Ids, row : Transactions] : Goto(q, "create", r)
      <4>1. [id |-> i, row |-> [state |-> "CREATED", amount |-> a]] \in [id : Ids, row : Transactions]
        BY DEF Transactions, States
      <4> QED BY <3>2, <4>1 DEF CreateUnseen
    <3>3. ASSUME CancelRead(q, i), ~Goto(q, "idle", NoRequest)
          PROVE  \E r \in [id : Ids, row : Transactions] : Goto(q, "cancel", r)
      <4>1. [id |-> i, row |-> txn[i]] \in [id : Ids, row : Transactions]
        BY Known
      <4> QED BY <3>3, <4>1 DEF CancelRead, Refuse, Reply
    <3>4. CASE CreateReplayed(q, i) \/ PerformRefused(q, i)
      BY <3>1, <3>4 DEF CreateReplayed, PerformRefused, Refuse, Reply
    <3> QED BY <1>3, <3>1, <3>2, <3>3, <3>4 DEF Create, Labels
  <2> QED BY <1>1, <2>1
<1>4. ASSUME NEW q \in Workers, NEW i \in Ids, PerformComplete(q, i)
      PROVE  Crediting(p, id)
  <2>1. i # id /\ Goto(q, "credit", [id |-> i, row |-> txn'[i]])
    BY <1>4 DEF PerformComplete, Performable, Cancelled
  <2> QED BY <1>1, <2>1
<1>5. ASSUME NEW q \in Workers, CreateInsert(q) \/ PerformCredit(q) \/ CancelSave(q) \/ Crash(q)
      PROVE  Crediting(p, id)
  <2>1. Goto(q, "idle", NoRequest)
    BY <1>5 DEF CreateInsert, PerformCredit, CancelSave, Crash, Refuse, Reply
  <2> QED BY <1>1, <2>1
<1> QED BY <1>2, <1>3, <1>4, <1>5 DEF Next, Perform

(* A cancelled transaction stays cancelled; and once Payme has been told of *)
(* it and no perform is past its commit, none ever is again and the wallet  *)
(* moves no more: the retries of PerformTransaction, which credit on every  *)
(* call, and the unlocked save of CancelTransaction cannot undo it.         *)
THEOREM CancellationIsFinal == Spec => CancelIsFinal
<1>1. ASSUME IInv, [Next]_vars, NEW id \in Ids
      PROVE  /\ txn[id].state \in Cancelled => txn'[id].state \in Cancelled
             /\ Sealed(id) => Sealed(id)' /\ wallet'[id] = wallet[id]
  <2>1. ASSUME Sealed(id) PROVE Sealed(id)'
    <3>1. "cancelled" \in told'[id] /\ txn[id].state \in Cancelled
      BY <1>1, <2>1, ToldStays DEF Sealed, IInv, RowOK
    <3>2. ~\E p \in Workers : Crediting(p, id)'
      BY <1>1, <2>1, <3>1, CreditsComeFromPerforms DEF Sealed, Crediting
    <3> QED BY <3>1, <3>2 DEF Sealed, Crediting
  <2>2. ASSUME Sealed(id) PROVE wallet'[id] = wallet[id]
    <3>1. ASSUME NEW p \in Workers, PerformCredit(p) PROVE wallet'[id] = wallet[id]
      <4>1. req[p].id # id
        BY <2>2, <3>1 DEF Sealed, PerformCredit
      <4>2. UNCHANGED wallet \/ \E x : wallet' = [wallet EXCEPT ![req[p].id] = x]
        BY <3>1 DEF PerformCredit
      <4>3. DOMAIN wallet = Ids
        BY <1>1, Known
      <4> QED BY <4>1, <4>2, <4>3
    <3>2. UNCHANGED wallet \/ \E p \in Workers : PerformCredit(p)
      BY <1>1 DEF Next, Create, Perform, CreateReplayed, CreateUnseen, PerformRefused,
                  PerformComplete, CreateInsert, CancelRead, CancelSave, Crash, vars
    <3> QED BY <3>1, <3>2
  <2> QED BY <1>1, <2>1, <2>2, CancelledStays
<1>2. IInv /\ [Next]_vars =>
        [\A id \in Ids : /\ txn[id].state \in Cancelled => txn'[id].state \in Cancelled
                         /\ Sealed(id) => Sealed(id)' /\ wallet'[id] = wallet[id]]_vars
  BY <1>1
<1> QED BY <1>2, Invariant, PTL DEF Spec, CancelIsFinal
=============================================================================
