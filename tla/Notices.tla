------------------------------- MODULE Notices -------------------------------
(***************************************************************************)
(* Renewal e-mails: runs of bill_subscriptions settle each subscription    *)
(* and nudge its owner (billing/management/commands/bill_subscriptions.py, *)
(* billing/services/notifications.py).  A run judges everything at the     *)
(* instant it began, settles rows it listed then, throttles by a row it    *)
(* read later, and records an e-mail only after the mail server took it.   *)
(* Meanwhile the vendor edits the same rows, with the lock or without.     *)
(***************************************************************************)
EXTENDS Integers, FiniteSets

CONSTANTS Tenants,       \* customer accounts, each with a subscription
          Nobody,        \* the loop is between two subscriptions
          Muddled,       \* no telling which e-mails went out
          Runs,          \* processes of the command, started by cron
          Editors,       \* sessions that save a whole Subscription they read earlier
          Policies,      \* what the vendor may set: [price, period, warn_days, grace],
                         \* the period and the grace in ticks
          Amounts,       \* amounts of a top-up
          Day,           \* ticks of the clock in a day
          Throttle,      \* THROTTLE_HOURS, in ticks
          MaxNow,        \* bound: the clock stops here
          MaxTopUps,     \* bound: top-ups of a tenant
          MaxMishaps,    \* bound: runs that are killed and rows that editors open
          MaxBusy        \* bound: runs and editors at work at once

ASSUME NoticesAssumption ==
  /\ Nobody \notin Tenants
  /\ Policies \subseteq [price: Nat, period: Nat, warn_days: Nat, grace: Nat]
  /\ Amounts \subseteq Nat
  /\ {MaxNow, MaxTopUps, MaxMishaps, MaxBusy} \subseteq Nat
  /\ {Day, Throttle} \subseteq Nat \ {0}

VARIABLES sub,           \* paid_through, status and policy of each subscription
          sentAt,        \* last_warn_sent_at, last_grace_sent_at, last_lockout_sent_at
          funds,         \* Tenant.balance
          paused,        \* tenants whose newest key is SUSPENDED or REVOKED
          now,           \* timezone.now()
          pc, run,       \* where each run is, and what it holds; "unpaid" is history:
                         \* its settle() left no paid period, or a save took it back
          draft,         \* the row each editor read and has not saved yet
          topUps, mishaps,              \* how many there were, for the bounds
          mailed         \* history: the stamps of the latest e-mails, until two runs
                         \* handle the row at once, one goes out unrecorded, or a
                         \* save puts other stamps back

rows == <<sub, sentAt, funds, paused>>
vars == <<rows, now, pc, run, draft, topUps, mishaps, mailed>>

Kinds == {"warn", "grace", "lockout"}
Never == -1
Instants == 0..MaxNow

Statuses == {"ACTIVE", "CANCELED"}
Subscriptions == [paid: {Never} \union Nat, status: Statuses, policy: Policies]
Stamps == [Kinds -> {Never} \union Instants]

NoDraft == [tenant |-> Nobody]
Drafts == [tenant: Tenants, paid: {Never} \union Nat, sent: Stamps]

(* What a run holds between two subscriptions, and between two runs; "free" *)
(* are the listed ones whose price was 0 when they were listed, "dated"     *)
(* says that the row it read has a paid_through.                            *)
Looping(at, todo, free) ==
  [at |-> at, todo |-> todo, free |-> free, tenant |-> Nobody,
   throttled |-> {}, dated |-> FALSE, unpaid |-> FALSE, kind |-> "none"]
NoRun == Looping(0, {}, {})

TypeOK ==
  /\ sub \in [Tenants -> Subscriptions]
  /\ sentAt \in [Tenants -> Stamps]
  /\ funds \in [Tenants -> Nat] /\ topUps \in [Tenants -> 0..MaxTopUps]
  /\ paused \subseteq Tenants
  /\ now \in Instants /\ mishaps \in 0..MaxMishaps
  /\ \A t \in Tenants : mailed[t] = Muddled \/ mailed[t] \in Stamps
  /\ \A e \in Editors : draft[e] = NoDraft \/ draft[e] \in Drafts
  /\ pc \in [Runs -> {"idle", "settle", "refresh", "judge", "send", "mark"}]
  /\ run \in [Runs -> [at: Instants, todo: SUBSET Tenants, free: SUBSET Tenants,
                       tenant: Tenants \union {Nobody}, throttled: SUBSET Kinds,
                       dated: BOOLEAN, unpaid: BOOLEAN, kind: Kinds \union {"none"}]]
  /\ \A r \in Runs :
       /\ run[r].at <= now
       /\ pc[r] = "idle" => run[r] = NoRun
       /\ pc[r] = "settle" => run[r].tenant = Nobody /\ run[r].kind = "none"
       /\ pc[r] \in {"refresh", "judge"} => run[r].tenant \in Tenants /\ run[r].kind = "none"
       /\ pc[r] \in {"send", "mark"} => run[r].tenant \in Tenants /\ run[r].kind \in Kinds

-----------------------------------------------------------------------------
Init ==
  /\ sub \in [Tenants -> [paid: {Never}, status: {"ACTIVE"}, policy: Policies]]
  /\ sentAt = [t \in Tenants |-> [k \in Kinds |-> Never]]
  /\ funds = [t \in Tenants |-> 0]
  /\ paused = {}
  /\ now = 0
  /\ pc = [r \in Runs |-> "idle"]
  /\ run = [r \in Runs |-> NoRun]
  /\ draft = [e \in Editors |-> NoDraft]
  /\ topUps = [t \in Tenants |-> 0] /\ mishaps = 0
  /\ mailed = sentAt

Crowded ==
  Cardinality({r \in Runs : pc[r] # "idle"}) +
  Cardinality({e \in Editors : draft[e] # NoDraft}) >= MaxBusy

Goto(r, label, h) == pc' = [pc EXCEPT ![r] = label] /\ run' = [run EXCEPT ![r] = h]
Finish(r) == Goto(r, "idle", NoRun)

Free(t) == sub[t].policy.price = 0
Renewable(t) == sub[t].status = "ACTIVE" /\ ~Free(t)
Lapsed(t, n) == sub[t].paid <= n               \* NULL has lapsed, too

(* settle() at the instant n: due once paid_through is not after n; the new *)
(* period begins at n, and the mutant's where the old one ended.            *)
Funded(t) == funds[t] >= sub[t].policy.price
Charged(t, n) == Renewable(t) /\ Lapsed(t, n) /\ Funded(t)

PaidFromLapse(t, n) == sub[t].paid + sub[t].policy.period
PaidThrough(t, n) == n + sub[t].policy.period

Settled(t, n) ==
  IF Charged(t, n)
  THEN /\ sub' = [sub EXCEPT ![t].paid = PaidThrough(t, n)]
       /\ funds' = [funds EXCEPT ![t] = @ - sub[t].policy.price]
  ELSE UNCHANGED <<sub, funds>>

(* The e-mail that resolve(charge=False) calls for at an instant.           *)
DaysRemaining(t, n) == (sub[t].paid - n) \div Day
InGrace(t, n) == sub[t].paid # Never /\ sub[t].paid + sub[t].policy.grace > n

Verdict(t, n) ==
  CASE Lapsed(t, n) /\ (sub[t].status = "CANCELED" \/ (Renewable(t) /\ ~InGrace(t, n))) -> "lockout"
    [] Lapsed(t, n) /\ Renewable(t) /\ InGrace(t, n) -> "grace"
    [] ~Lapsed(t, n) /\ Renewable(t) /\ DaysRemaining(t, n) <= sub[t].policy.warn_days -> "warn"
    [] OTHER -> "none"

(* _throttled(); the mutants let a nudge through a tick too early, and let  *)
(* the first nudge be the last.                                             *)
ThrottledBriefly(last, n) == last # Never /\ n - last < Throttle - 1
ThrottledForever(last, n) == last # Never
Throttled(last, n) == last # Never /\ n - last < Throttle

-----------------------------------------------------------------------------
(* A run                                                                    *)

RunStart(r) ==           \* who is paused, what time it is, and who is ACTIVE
  LET listed == {t \in Tenants \ paused : sub[t].status = "ACTIVE"}
  IN  /\ pc[r] = "idle" /\ ~Crowded
      /\ Goto(r, "settle", Looping(now, listed, {t \in listed : Free(t)}))
      /\ UNCHANGED <<rows, now, draft, topUps, mishaps, mailed>>

(* settle(sub) at the time it is by now.  Its check before the lock judges  *)
(* the row that was listed: free then, it is not looked at again.           *)
RunSettle(r, t) ==
  LET free == t \in run[r].free
  IN  /\ pc[r] = "settle" /\ t \in run[r].todo
      /\ IF free THEN UNCHANGED <<sub, funds>> ELSE Settled(t, now)
      /\ Goto(r, "refresh",
           [at |-> run[r].at, todo |-> run[r].todo \ {t}, free |-> run[r].free \ {t},
            tenant |-> t, throttled |-> {}, dated |-> FALSE, kind |-> "none",
            unpaid |-> free \/ ~Renewable(t) \/ (Lapsed(t, now) /\ ~Funded(t))])
      /\ mailed' = IF \E q \in Runs \ {r} : run[q].tenant = t
                   THEN [mailed EXCEPT ![t] = Muddled] ELSE mailed
      /\ UNCHANGED <<sentAt, paused, now, draft, topUps, mishaps>>

(* The loop goes on to the next subscription.  The mutant forgets the kind. *)
DoneKeepingKind(r) == [run[r] EXCEPT !.tenant = Nobody]
Done(r) == Looping(run[r].at, run[r].todo, run[r].free)

(* sub.refresh_from_db(): a subscription that is free now is passed over;   *)
(* the throttle will go by the stamps of this read.                         *)
RunRefresh(r) ==
  LET t == run[r].tenant
  IN  /\ pc[r] = "refresh"
      /\ IF Free(t)
         THEN Goto(r, "settle", Done(r))
         ELSE Goto(r, "judge", [run[r] EXCEPT
                !.throttled = {k \in Kinds : Throttled(sentAt[t][k], run[r].at)},
                !.dated = sub[t].paid # Never])
      /\ UNCHANGED <<rows, now, draft, topUps, mishaps, mailed>>

(* resolve() reads the row once more.  A warning or a grace e-mail tells    *)
(* the date that the earlier read found; where it found none, formatting it *)
(* (or counting from it) is an error that ends the run.                     *)
RunJudge(r) ==
  LET k == Verdict(run[r].tenant, run[r].at)
      throttled == k \in run[r].throttled
  IN  /\ pc[r] = "judge"
      /\ \/ /\ ~run[r].dated /\ (k = "grace" \/ (k = "warn" /\ ~throttled))
            /\ Finish(r)
         \/ /\ k = "none" \/ (throttled /\ (k # "grace" \/ run[r].dated))
            /\ Goto(r, "settle", Done(r))
         \/ /\ k # "none" /\ ~throttled /\ (k = "lockout" \/ run[r].dated)
            /\ Goto(r, "send", [run[r] EXCEPT !.kind = k, !.throttled = {}, !.dated = FALSE])
      /\ UNCHANGED <<rows, now, draft, topUps, mishaps, mailed>>

RunSend(r) ==
  /\ pc[r] = "send"
  /\ mailed' = [mailed EXCEPT ![run[r].tenant] =
       IF @ = Muddled THEN Muddled ELSE [@ EXCEPT ![run[r].kind] = run[r].at]]
  /\ Goto(r, "mark", [run[r] EXCEPT !.unpaid = FALSE])
  /\ UNCHANGED <<rows, now, draft, topUps, mishaps>>

(* _send() swallows what the mail server raises, and it may raise after it  *)
(* took the e-mail.                                                         *)
RunSendFails(r) ==
  /\ pc[r] = "send"
  /\ \/ UNCHANGED mailed
     \/ mailed' = [mailed EXCEPT ![run[r].tenant] = Muddled]
  /\ Goto(r, "settle", Done(r))
  /\ UNCHANGED <<rows, now, draft, topUps, mishaps>>

RunMark(r) ==            \* _mark(): one column, with the time the run began
  /\ pc[r] = "mark"
  /\ sentAt' = [sentAt EXCEPT ![run[r].tenant] = [@ EXCEPT ![run[r].kind] = run[r].at]]
  /\ Goto(r, "settle", Done(r))
  /\ UNCHANGED <<sub, funds, paused, now, draft, topUps, mishaps, mailed>>

RunEnd(r) ==             \* the BillingRun row
  /\ pc[r] = "settle" /\ run[r].todo = {}
  /\ Finish(r)
  /\ UNCHANGED <<rows, now, draft, topUps, mishaps, mailed>>

(* Killed, or stopped by an error in one subscription's settle or resolve:  *)
(* the subscriptions after it wait for the next run.                        *)
RunDies(r) ==
  /\ pc[r] # "idle" /\ mishaps < MaxMishaps
  /\ mishaps' = mishaps + 1
  /\ mailed' = IF pc[r] = "mark" THEN [mailed EXCEPT ![run[r].tenant] = Muddled]
                                 ELSE mailed
  /\ Finish(r)
  /\ UNCHANGED <<rows, now, draft, topUps>>

-----------------------------------------------------------------------------
(* Meanwhile                                                                *)

TopUp(t, a) ==           \* credit_balance(); its settle() is a Settle of its own
  /\ topUps[t] < MaxTopUps
  /\ topUps' = [topUps EXCEPT ![t] = @ + 1]
  /\ funds' = [funds EXCEPT ![t] = @ + a]
  /\ UNCHANGED <<sub, sentAt, paused, now, pc, run, draft, mishaps, mailed>>

(* By a heartbeat, as of when it began, or at the end of a top-up.          *)
Settle(t, n) ==
  /\ n <= now /\ Charged(t, n)
  /\ Settled(t, n)
  /\ UNCHANGED <<sentAt, paused, now, pc, run, draft, topUps, mishaps, mailed>>

(* PATCH of the subscription, or an approved plan change, under its lock.   *)
UpdateSubscription(t, pol, st) ==
  /\ sub' = [sub EXCEPT ![t] = [paid |-> @.paid, status |-> st, policy |-> pol]]
  /\ UNCHANGED <<sentAt, funds, paused, now, pc, run, draft, topUps, mishaps, mailed>>

(* The Django form of a subscription, and register() when it binds a plan,  *)
(* save every column of a row they read without its lock: paid_through and  *)
(* the stamps go back to what they were then.                               *)
OpenRow(e, t) ==
  /\ draft[e] = NoDraft /\ mishaps < MaxMishaps /\ ~Crowded
  /\ draft' = [draft EXCEPT ![e] = [tenant |-> t, paid |-> sub[t].paid, sent |-> sentAt[t]]]
  /\ mishaps' = mishaps + 1
  /\ UNCHANGED <<rows, now, pc, run, topUps, mailed>>

SaveRow(e, pol, st) ==
  LET t == draft[e].tenant
  IN  /\ draft[e] # NoDraft
      /\ sub' = [sub EXCEPT ![t] = [paid |-> draft[e].paid, status |-> st, policy |-> pol]]
      /\ sentAt' = [sentAt EXCEPT ![t] = draft[e].sent]
      /\ mailed' = IF draft[e].sent = sentAt[t] THEN mailed
                   ELSE [mailed EXCEPT ![t] = Muddled]
      /\ run' = [r \in Runs |->
           IF run[r].tenant = t /\ pc[r] # "mark" /\ draft[e].paid # sub[t].paid
           THEN [run[r] EXCEPT !.unpaid = TRUE] ELSE run[r]]
      /\ draft' = [draft EXCEPT ![e] = NoDraft]
      /\ UNCHANGED <<funds, paused, now, pc, topUps, mishaps>>

SetPaused(t) ==          \* suspend and resume of the tenant
  /\ paused' \in {paused \union {t}, paused \ {t}}
  /\ UNCHANGED <<sub, sentAt, funds, now, pc, run, draft, topUps, mishaps, mailed>>

Tick ==
  /\ now < MaxNow
  /\ now' = now + 1
  /\ UNCHANGED <<rows, pc, run, draft, topUps, mishaps, mailed>>

-----------------------------------------------------------------------------
Run(r) ==
  \/ RunStart(r)
  \/ \E t \in Tenants : RunSettle(r, t)
  \/ RunRefresh(r) \/ RunJudge(r)
  \/ RunSend(r) \/ RunSendFails(r) \/ RunMark(r) \/ RunEnd(r)

Vendor ==
  \/ \E t \in Tenants, pol \in Policies, st \in Statuses : UpdateSubscription(t, pol, st)
  \/ \E t \in Tenants : SetPaused(t) \/ \E e \in Editors : OpenRow(e, t)
  \/ \E e \in Editors, pol \in Policies, st \in Statuses : SaveRow(e, pol, st)

Next ==
  \/ \E r \in Runs : Run(r) \/ RunDies(r)
  \/ \E t \in Tenants, a \in Amounts : TopUp(t, a)
  \/ \E t \in Tenants, n \in Instants : Settle(t, n)
  \/ Vendor \/ Tick

Spec == Init /\ [][Next]_vars

(* Cron starts the command again and again, a run goes on until it ends or  *)
(* dies, and the mail server does not refuse a customer each time.          *)
Fairness ==
  \A r \in Runs :
    /\ WF_vars(Run(r))
    /\ \A t \in Tenants : SF_vars(RunSend(r) /\ run[r].tenant = t)

FairSpec == Spec /\ Fairness

-----------------------------------------------------------------------------
(* Properties                                                               *)

Sending(r) == pc[r] = "send" /\ pc'[r] = "mark"

(* "nothing fires more than once per THROTTLE_HOURS" (notifications.py), by *)
(* the stamps of the runs that sent it: however runs overlap, pile up or    *)
(* die, unless two of them handled one row at once, an earlier e-mail went  *)
(* out and was not recorded, or a whole-row save has put other stamps back. *)
OncePerThrottle ==
  [][\A r \in Runs :
       LET last == mailed[run[r].tenant]
       IN  Sending(r) /\ last # Muddled =>
             last[run[r].kind] = Never \/ run[r].at >= last[run[r].kind] + Throttle]_vars

(* Nobody is told that a renewal failed when it did not: a grace or lockout *)
(* e-mail goes only where settle(), in the same run, neither charged nor    *)
(* found the period running, or where a save has taken the period back.     *)
(* resolve() judges at an earlier instant than settle() did, from a row     *)
(* read later.  A period of zero days, which only the Django form lets      *)
(* through, buys nothing.                                                   *)
OnlyTheUnpaidAreDunned ==
  [][\A r \in Runs :
       /\ Sending(r) /\ run[r].kind # "warn"
       /\ \A pol \in Policies : pol.period > 0
       => run[r].unpaid]_vars

(* A customer who is locked out and stays so is told, whatever e-mails the  *)
(* mail server refused and whatever runs died: the service is never paused  *)
(* in silence (notifications.py:1).                                         *)
LockedOut(t) ==
  t \notin paused /\ Renewable(t) /\ Verdict(t, now) = "lockout"

Told(t) ==
  LET at == sentAt[t]["lockout"]
      since == IF sub[t].paid = Never THEN 0 ELSE sub[t].paid + sub[t].policy.grace
  IN  at # Never /\ (at >= since \/ at + Throttle > now)

LockedOutIsTold == \A t \in Tenants : LockedOut(t) ~> (Told(t) \/ ~LockedOut(t))
=============================================================================
