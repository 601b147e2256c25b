-------------------------------- MODULE Payme --------------------------------
(***************************************************************************)
(* The Payme endpoint: billing/services/payme.py and its transaction table,*)
(* served by several workers, with Payme calling any method at any time    *)
(* and repeating a call it got no answer to.  Crediting the wallet is one  *)
(* step here: Billing shows that credit_balance() applies an external_id   *)
(* once, and refuses an amount above the cap.                              *)
(***************************************************************************)
EXTENDS Integers

CONSTANTS Workers,       \* gunicorn workers
          Ids,           \* payme_id
          Amounts,       \* amounts Payme may send
          MaxCredit      \* MAX_CREDIT_AMOUNT

ASSUME PaymeAssumption == Amounts \subseteq Nat \ {0} /\ MaxCredit \in Nat

VARIABLES txn,           \* the PaymeTransaction row of each id
          wallet,        \* the amount the Payment row of each id credited, or 0
          told,          \* the answers Payme got about each id
          pc, req        \* where each worker is, and the row or call it holds

vars == <<txn, wallet, told, pc, req>>

States == {"none", "CREATED", "COMPLETED", "CANCELLED", "CANCELLED_AFTER_COMPLETE"}
Cancelled == {"CANCELLED", "CANCELLED_AFTER_COMPLETE"}
Transactions == [state: States, amount: Amounts \union {0}]
NoTransaction == [state |-> "none", amount |-> 0]
Answers == {"created", "performed", "cancelled"}

NoRequest == [id |-> "none", row |-> NoTransaction]

TypeOK ==
  /\ txn \in [Ids -> Transactions]
  /\ wallet \in [Ids -> Amounts \union {0}]
  /\ told \in [Ids -> SUBSET Answers]
  /\ pc \in [Workers -> {"idle", "create", "credit", "cancel"}]
  /\ \A p \in Workers : IF pc[p] = "idle" THEN req[p] = NoRequest
                        ELSE req[p] \in [id: Ids, row: Transactions]

Init ==
  /\ txn = [id \in Ids |-> NoTransaction]
  /\ wallet = [id \in Ids |-> 0]
  /\ told = [id \in Ids |-> {}]
  /\ pc = [p \in Workers |-> "idle"]
  /\ req = [p \in Workers |-> NoRequest]

Goto(p, label, r) ==
  /\ pc' = [pc EXCEPT ![p] = label]
  /\ req' = [req EXCEPT ![p] = r]

(* The worker is done: with an answer Payme takes for a success, or with an *)
(* error, after which Payme knows no more than before.                      *)
Reply(p, id, answer) ==
  /\ Goto(p, "idle", NoRequest)
  /\ told' = [told EXCEPT ![id] = @ \union {answer}]

Refuse(p) == Goto(p, "idle", NoRequest) /\ UNCHANGED told

-----------------------------------------------------------------------------
(* CreateTransaction looks the id up without a lock and then inserts.       *)

CreateReplayed(p, id) ==
  /\ pc[p] = "idle" /\ txn[id].state # "none"
  /\ IF txn[id].state = "CREATED" THEN Reply(p, id, "created")
     ELSE Refuse(p)                            \* not creatable
  /\ UNCHANGED <<txn, wallet>>

CreateUnseen(p, id, a) ==
  /\ pc[p] = "idle" /\ txn[id].state = "none"
  /\ Goto(p, "create", [id |-> id, row |-> [state |-> "CREATED", amount |-> a]])
  /\ UNCHANGED <<txn, wallet, told>>

CreateInsert(p) ==
  LET id == req[p].id
  IN  /\ pc[p] = "create"
      /\ IF txn[id].state = "none"
         THEN txn' = [txn EXCEPT ![id] = req[p].row] /\ Reply(p, id, "created")
         ELSE UNCHANGED txn /\ Refuse(p)       \* payme_id is unique
      /\ UNCHANGED wallet

(* PerformTransaction completes the row under its lock and credits after    *)
(* that transaction, on every call: a retry repairs a crash in between.     *)

(* The mutants perform a new transaction only, and a cancelled one too. *)
PerformableOnce(state) == state = "CREATED"
PerformableAlways(state) == state # "none"
Performable(state) == state \in {"CREATED", "COMPLETED"}

PerformRefused(p, id) ==
  /\ pc[p] = "idle" /\ ~Performable(txn[id].state)
  /\ Refuse(p)
  /\ UNCHANGED <<txn, wallet>>

PerformComplete(p, id) ==
  /\ pc[p] = "idle" /\ Performable(txn[id].state)
  /\ txn' = [txn EXCEPT ![id].state = "COMPLETED"]
  /\ Goto(p, "credit", [id |-> id, row |-> txn'[id]])
  /\ UNCHANGED <<wallet, told>>

(* What credit_balance() makes of a transaction; the mutant credits again   *)
(* on a retry.                                                              *)
CreditAgain(id, a) == wallet[id] + a
CreditOnce(id, a) == IF wallet[id] = 0 THEN a ELSE wallet[id]

PerformCredit(p) ==
  LET id == req[p].id
      a  == req[p].row.amount
  IN  /\ pc[p] = "credit"
      /\ IF a > MaxCredit
         THEN Refuse(p) /\ UNCHANGED wallet    \* ValueError, "Internal error"
         ELSE /\ wallet' = [wallet EXCEPT ![id] = CreditOnce(id, a)]
              /\ Reply(p, id, "performed")
      /\ UNCHANGED txn

(* CancelTransaction reads the row, decides, and saves: without a lock.     *)

CancelRead(p, id) ==
  /\ pc[p] = "idle"
  /\ IF txn[id].state = "none" THEN Refuse(p)
     ELSE IF txn[id].state \in Cancelled THEN Reply(p, id, "cancelled")
     ELSE /\ Goto(p, "cancel", [id |-> id, row |-> txn[id]])
          /\ UNCHANGED told
  /\ UNCHANGED <<txn, wallet>>

(* The state to save for the state that was read. *)
CancelledFrom(state) ==
  IF state = "COMPLETED" THEN "CANCELLED_AFTER_COMPLETE" ELSE "CANCELLED"

CancelSave(p) ==
  LET id == req[p].id
  IN  /\ pc[p] = "cancel"
      /\ txn' = [txn EXCEPT ![id].state = CancelledFrom(req[p].row.state)]
      /\ Reply(p, id, "cancelled")
      /\ UNCHANGED wallet

(* The worker dies, or Payme hangs up: no answer, and what is not saved is  *)
(* lost.                                                                    *)
Crash(p) ==
  /\ pc[p] # "idle"
  /\ Refuse(p)
  /\ UNCHANGED <<txn, wallet>>

-----------------------------------------------------------------------------
Create(p, id) == CreateReplayed(p, id) \/ \E a \in Amounts : CreateUnseen(p, id, a)
Perform(p, id) == PerformRefused(p, id) \/ PerformComplete(p, id)

Next == \E p \in Workers :
  \/ \E id \in Ids : Create(p, id) \/ Perform(p, id) \/ CancelRead(p, id)
  \/ CreateInsert(p) \/ PerformCredit(p) \/ CancelSave(p) \/ Crash(p)

Spec == Init /\ [][Next]_vars

(* Payme repeats a PerformTransaction until it is answered, workers run the *)
(* request they took, and not every retry dies at the same step.            *)
Fairness ==
  /\ \A id \in Ids : SF_vars(\E p \in Workers : PerformComplete(p, id))
  /\ \A p \in Workers : WF_vars(CreateInsert(p) \/ CancelSave(p))
  /\ \A p \in Workers, id \in Ids : SF_vars(req[p].id = id /\ PerformCredit(p))

FairSpec == Spec /\ Fairness

-----------------------------------------------------------------------------
(* Properties                                                               *)

(* Payme is never told that a transaction is performed before the wallet    *)
(* holds its amount, and exactly that amount, however often it was retried. *)
PerformedIsCredited == \A id \in Ids :
  /\ "performed" \in told[id] => wallet[id] > 0
  /\ wallet[id] > 0 => wallet[id] = txn[id].amount

Sealed(id) ==
  /\ "cancelled" \in told[id]
  /\ ~\E p \in Workers : pc[p] = "credit" /\ req[p].id = id

(* A cancellation is final: a perform that raced it, or comes later, never  *)
(* brings the transaction back; and once Payme has been told of it and the  *)
(* performs already past their commit are done, the money of the            *)
(* transaction moves no more, however many performs are delivered late.     *)
CancelIsFinal == [][\A id \in Ids :
  /\ txn[id].state \in Cancelled => txn'[id].state \in Cancelled
  /\ Sealed(id) => Sealed(id)' /\ wallet'[id] = wallet[id]]_vars

(* A completed transaction within the cap is credited in the end, or       *)
(* cancelled, through crashes between the commit and the credit: "the retry *)
(* recovers it: the wallet is credited exactly once, never lost"            *)
(* (payme.py:139-142).                                                      *)
WithinCapIsCredited == \A id \in Ids :
  txn[id].state = "COMPLETED" /\ txn[id].amount <= MaxCredit
    ~> (wallet[id] > 0 \/ txn[id].state \in Cancelled)
=============================================================================
