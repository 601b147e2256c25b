------------------------------ MODULE Approvals ------------------------------
(***************************************************************************)
(* What the plan-change feature promises, with no request rows, no forms,  *)
(* no locks and no races in sight: a customer has at most one question     *)
(* open, the vendor answers each question once, the answer "yes" moves the *)
(* subscription onto the plan that was asked for in the same breath, and   *)
(* the subscription changes in no other way than that and by the vendor's  *)
(* own hand.  The plan is bound at its terms of that moment, or at those   *)
(* an admin noted when it took the open question up.  PlanChange.tla       *)
(* refines this module.                                                    *)
(***************************************************************************)
EXTENDS Integers, Sequences

CONSTANTS Tenants,       \* the customer accounts
          Plans,         \* the plans of the catalog
          Terms,         \* price, period, warn and grace days of a plan
          Admins,        \* those who may take their time over a "yes"
          NoQuote        \* an admin that has taken no question up

VARIABLES questions,     \* what was asked, in order: [tenant, plan, answer]
          offer,         \* the terms of each plan in the catalog
          quoted,        \* the question each admin took up, and the terms then
          contract       \* what each tenant has: [plan, terms, status]

vars == <<questions, offer, quoted, contract>>

Open(i) == questions[i].answer = "PENDING"

Init ==
  /\ questions = <<>>
  /\ offer \in [Plans -> Terms]
  /\ quoted = [a \in Admins |-> NoQuote]

Ask(t, p) ==
  /\ \A i \in DOMAIN questions : questions[i].tenant = t => ~Open(i)
  /\ questions' = Append(questions, [tenant |-> t, plan |-> p, answer |-> "PENDING"])
  /\ UNCHANGED <<offer, quoted, contract>>

Yes(i, terms) ==
  LET q == questions[i]
  IN  /\ Open(i)
      /\ questions' = [questions EXCEPT ![i].answer = "APPROVED"]
      /\ contract' = [contract EXCEPT ![q.tenant] =
                        [plan |-> q.plan, terms |-> terms, status |-> "ACTIVE"]]
      /\ UNCHANGED offer

YesAtOnce(i) == Yes(i, offer[questions[i].plan]) /\ UNCHANGED quoted

TakeUp(a, i) ==
  /\ quoted[a] = NoQuote /\ Open(i)
  /\ quoted' = [quoted EXCEPT ![a] = [id |-> i, terms |-> offer[questions[i].plan]]]
  /\ UNCHANGED <<questions, offer, contract>>

YesAsQuoted(a) ==
  /\ quoted[a] # NoQuote
  /\ Yes(quoted[a].id, quoted[a].terms)
  /\ quoted' = [quoted EXCEPT ![a] = NoQuote]

PutDown(a) ==
  /\ quoted' = [quoted EXCEPT ![a] = NoQuote]
  /\ UNCHANGED <<questions, offer, contract>>

No(is) ==
  /\ \A i \in is : Open(i)
  /\ questions' = [i \in DOMAIN questions |->
       IF i \in is THEN [questions[i] EXCEPT !.answer = "REJECTED"] ELSE questions[i]]
  /\ UNCHANGED <<offer, quoted, contract>>

\* The vendor's own hand, on one subscription or on one plan.
Impose(t) ==
  /\ contract' = [contract EXCEPT ![t] = contract'[t]]
  /\ UNCHANGED <<questions, offer, quoted>>

Reprice(p) ==
  /\ offer' = [offer EXCEPT ![p] = offer'[p]]
  /\ UNCHANGED <<questions, quoted, contract>>

Next ==
  \/ \E t \in Tenants : Impose(t) \/ \E p \in Plans : Ask(t, p)
  \/ \E i \in DOMAIN questions : YesAtOnce(i) \/ \E a \in Admins : TakeUp(a, i)
  \/ \E a \in Admins : YesAsQuoted(a) \/ PutDown(a)
  \/ \E is \in SUBSET DOMAIN questions : No(is)
  \/ \E p \in Plans : Reprice(p)

Spec == Init /\ [][Next]_vars
=============================================================================
