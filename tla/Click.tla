-------------------------------- MODULE Click --------------------------------
(***************************************************************************)
(* The two Click webhooks: billing/services/click.py and its table of      *)
(* prepared payments, served by several workers.  Click sends Prepare and  *)
(* Complete in any order and repeats them; requests whose signature or     *)
(* amount does not parse, and cancelled Completes, change nothing and are  *)
(* left out.  Crediting the wallet is one step, as in Payme.               *)
(***************************************************************************)
EXTENDS Integers

CONSTANTS Workers,       \* gunicorn workers
          Ids,           \* click_trans_id
          Offers,        \* what Click may prepare: [tenant, amount] records
          Claims,        \* amounts a Complete may name
          MaxCredit      \* MAX_CREDIT_AMOUNT

ASSUME ClickAssumption ==
  /\ \A o \in Offers : o = [tenant |-> o.tenant, amount |-> o.amount]
  /\ \A o \in Offers : o.amount \in Nat \ {0}
  /\ Claims \subseteq Int /\ MaxCredit \in Nat

VARIABLES prepared,      \* the ClickTransaction row of each id, its flag aside
          completed,     \* its completed flag
          reserved,      \* history: every offer prepared under the id
          payment,       \* what the Payment row of each id credited
          confirmed,     \* history: the amounts Complete answered "Success" for
          pc, req        \* where each worker is, and the row it read

vars == <<prepared, completed, reserved, payment, confirmed, pc, req>>

Nothing == [tenant |-> "none", amount |-> 0]

TypeOK ==
  /\ prepared \in [Ids -> Offers \union {Nothing}]
  /\ completed \in [Ids -> BOOLEAN]
  /\ reserved \in [Ids -> SUBSET Offers]
  /\ payment \in [Ids -> Offers \union {Nothing}]
  /\ confirmed \in [Ids -> SUBSET Claims]
  /\ pc \in [Workers -> {"idle", "credit", "flag"}]
  /\ \A p \in Workers : pc[p] # "idle" =>
       req[p] \in [id: Ids, row: Offers, done: BOOLEAN]

NoRequest == [id |-> "none", row |-> Nothing, done |-> FALSE]

Init ==
  /\ prepared = [id \in Ids |-> Nothing]
  /\ completed = [id \in Ids |-> FALSE]
  /\ reserved = [id \in Ids |-> {}]
  /\ payment = [id \in Ids |-> Nothing]
  /\ confirmed = [id \in Ids |-> {}]
  /\ pc = [p \in Workers |-> "idle"]
  /\ req = [p \in Workers |-> NoRequest]

Goto(p, label, r) ==
  /\ pc' = [pc EXCEPT ![p] = label]
  /\ req' = [req EXCEPT ![p] = r]

Finish(p) == Goto(p, "idle", NoRequest)

-----------------------------------------------------------------------------
(* Prepare upserts the row in one locked transaction, whatever it held.     *)
Prepare(id, offer) ==
  /\ prepared' = [prepared EXCEPT ![id] = offer]
  /\ reserved' = [reserved EXCEPT ![id] = @ \union {offer}]
  /\ UNCHANGED <<completed, payment, confirmed, pc, req>>

(* Complete reads the row without a lock and refuses another amount; the    *)
(* mutant takes any amount that is not larger.                              *)
MatchesLoosely(row, a) == row # Nothing /\ a <= row.amount
Matches(row, a) == row # Nothing /\ a = row.amount

CompleteRefused(p, id, a) ==
  /\ pc[p] = "idle" /\ ~Matches(prepared[id], a)
  /\ UNCHANGED vars

CompleteRead(p, id, a) ==
  /\ pc[p] = "idle" /\ Matches(prepared[id], a)
  /\ Goto(p, "credit", [id |-> id, done |-> completed[id],
                        row |-> [tenant |-> prepared[id].tenant, amount |-> a]])
  /\ UNCHANGED <<prepared, completed, reserved, payment, confirmed>>

(* credit_balance() with the id as external_id: the first call posts the    *)
(* payment, later ones find it, one above the cap raises out of the view.   *)
CreditOnce(id, row) == IF payment[id] = Nothing THEN row ELSE payment[id]

\* The mutant swallows the cap's ValueError and answers "Success".
CompleteCreditSwallowed(p) ==
  /\ pc[p] = "credit"
  /\ payment' = [payment EXCEPT ![req[p].id] =
       IF req[p].row.amount > MaxCredit THEN @ ELSE CreditOnce(req[p].id, req[p].row)]
  /\ Goto(p, "flag", req[p])
  /\ UNCHANGED <<prepared, completed, reserved, confirmed>>

CompleteCredit(p) ==
  LET id == req[p].id
      row == req[p].row
  IN  /\ pc[p] = "credit"
      /\ IF row.amount > MaxCredit
         THEN Finish(p) /\ UNCHANGED payment
         ELSE /\ payment' = [payment EXCEPT ![id] = CreditOnce(id, row)]
              /\ Goto(p, "flag", req[p])
      /\ UNCHANGED <<prepared, completed, reserved, confirmed>>

(* The flag is saved when the row that was read did not have it, and Click  *)
(* gets its answer.  The mutant saves the row without the flag.             *)
FlagForgotten(flag, done) == flag
FlagSaved(flag, done) == IF done THEN flag ELSE TRUE

CompleteFlag(p) ==
  LET id == req[p].id
  IN  /\ pc[p] = "flag"
      /\ completed' = [completed EXCEPT ![id] = FlagSaved(@, req[p].done)]
      /\ confirmed' = [confirmed EXCEPT ![id] = @ \union {req[p].row.amount}]
      /\ Finish(p)
      /\ UNCHANGED <<prepared, reserved, payment>>

Crash(p) ==
  /\ pc[p] # "idle"
  /\ Finish(p)
  /\ UNCHANGED <<prepared, completed, reserved, payment, confirmed>>

-----------------------------------------------------------------------------
Complete(p, id) == \E a \in Claims : CompleteRefused(p, id, a) \/ CompleteRead(p, id, a)

Next ==
  \/ \E id \in Ids, offer \in Offers : Prepare(id, offer)
  \/ \E p \in Workers : \/ \E id \in Ids : Complete(p, id)
                        \/ CompleteCredit(p) \/ CompleteFlag(p) \/ Crash(p)

Spec == Init /\ [][Next]_vars

(* Click repeats a Complete until it is confirmed, and not every repetition *)
(* dies at the same step.                                                   *)
Fairness == \A id \in Ids, a \in Claims :
  /\ SF_vars(\E p \in Workers : CompleteRead(p, id, a))
  /\ \A p \in Workers : /\ SF_vars(req[p].id = id /\ CompleteCredit(p))
                        /\ SF_vars(req[p].id = id /\ CompleteFlag(p))

FairSpec == Spec /\ Fairness

-----------------------------------------------------------------------------
(* Properties                                                               *)

(* Click is never told "Success", and the row never says completed, before  *)
(* the wallet was credited: a crash in between loses no money.              *)
ConfirmedIsCredited == \A id \in Ids :
  completed[id] \/ confirmed[id] # {} => payment[id] # Nothing

(* "never credit an amount we didn't prepare for this click_trans_id"       *)
(* (click.py:144-145): the tenant and the amount credited were reserved     *)
(* together, even when a new Prepare rewrites the row under a Complete.     *)
CreditWasReserved == \A id \in Ids :
  payment[id] # Nothing => payment[id] \in reserved[id]

(* A prepared payment that Click keeps completing is flagged in the end,    *)
(* unless it is over the cap or Click moved on to another amount.           *)
CompletedInTheEnd == \A id \in Ids :
  <>[](\E a \in Claims : Matches(prepared[id], a) /\ a <= MaxCredit) => <>completed[id]
=============================================================================
