------------------------------- MODULE Wallet -------------------------------
(***************************************************************************)
(* What billing/services/billing.py promises about money, with no request, *)
(* no lock and no ledger in sight: a provider transaction is applied to a  *)
(* wallet once, a charge is taken only when a period is due and can be     *)
(* paid, buys exactly that period, and nothing else moves money or time.   *)
(* Billing.tla refines this module.                                        *)
(***************************************************************************)
EXTENDS Integers

CONSTANTS Tenants,       \* the customer accounts
          ExternalIds,   \* provider transactions: a pair (source, external_id)
          NoExt,         \* the empty external_id of a manual top-up
          MaxCredit      \* MAX_CREDIT_AMOUNT

VARIABLES wallet,        \* the money of each tenant
          applied,       \* the provider transactions already credited
          contract,      \* the subscription of each tenant
          clock

vars == <<wallet, applied, contract, clock>>

Never == -1              \* paid_through IS NULL

Due(c, n) == c.paid_through = Never \/ c.paid_through <= n

Chargeable(c, funds, n) ==
  c.status = "ACTIVE" /\ c.price > 0 /\ Due(c, n) /\ c.price <= funds

Init ==
  /\ wallet = [t \in Tenants |-> 0]
  /\ applied = {}
  /\ \A t \in Tenants : contract[t].paid_through = Never
  /\ clock = 0

Credit(t, e) ==
  /\ e \notin applied
  /\ \E a \in 1..MaxCredit : wallet' = [wallet EXCEPT ![t] = @ + a]
  /\ applied' = IF e = NoExt THEN applied ELSE applied \union {e}
  /\ UNCHANGED <<contract, clock>>

\* A charge is judged at the instant n its request began, which may be past.
Charge(t) == \E n \in 0..clock :
  /\ Chargeable(contract[t], wallet[t], n)
  /\ wallet' = [wallet EXCEPT ![t] = @ - contract[t].price]
  /\ contract' = [contract EXCEPT ![t].paid_through = n + contract[t].period_days]
  /\ UNCHANGED <<applied, clock>>

\* The vendor may change every term of the contract, but not the time bought.
Renegotiate(t) ==
  /\ contract' = [contract EXCEPT ![t] = contract'[t]]
  /\ contract'[t].paid_through = contract[t].paid_through
  /\ UNCHANGED <<wallet, applied, clock>>

Tick == clock' = clock + 1 /\ UNCHANGED <<wallet, applied, contract>>

Next ==
  \/ \E t \in Tenants : Charge(t) \/ Renegotiate(t)
  \/ \E t \in Tenants, e \in ExternalIds \union {NoExt} : Credit(t, e)
  \/ Tick

Spec == Init /\ [][Next]_vars
=============================================================================
