---------------------------- MODULE NoticesProofs ----------------------------
(***************************************************************************)
(* Proofs about Notices.tla, for any tenants, runs, editors, policies and  *)
(* bounds: its types, that nothing recorded is sent again within the       *)
(* throttle, and that nobody whose wallet paid is dunned.                  *)
(***************************************************************************)
EXTENDS Notices, TLAPS

Labels == {"idle", "settle", "refresh", "judge", "send", "mark"}
Slots == [at : Instants, todo : SUBSET Tenants, free : SUBSET Tenants,
          tenant : Tenants \union {Nobody}, throttled : SUBSET Kinds,
          dated : BOOLEAN, unpaid : BOOLEAN, kind : Kinds \union {"none"}]

(* What a run holds at each step, and where its tenant is one.              *)
SlotOK(label, h) ==
  /\ h \in Slots
  /\ label = "idle" => h = NoRun
  /\ label = "settle" => h.tenant = Nobody /\ h.kind = "none"
  /\ label \in {"refresh", "judge"} => h.tenant \in Tenants /\ h.kind = "none"
  /\ label \in {"send", "mark"} => h.tenant \in Tenants /\ h.kind \in Kinds

RunsOK ==
  /\ now \in Instants
  /\ pc \in [Runs -> Labels] /\ run \in [Runs -> Slots]
  /\ \A r \in Runs : SlotOK(pc[r], run[r]) /\ run[r].at <= now

RowsOK ==
  /\ sub \in [Tenants -> Subscriptions]
  /\ sentAt \in [Tenants -> Stamps]
  /\ funds \in [Tenants -> Nat]
  /\ paused \subseteq Tenants

(* The editors, the bounds, and the history of the e-mails.                 *)
RestOK ==
  /\ DOMAIN draft = Editors
  /\ \A e \in Editors : draft[e] = NoDraft \/ draft[e] \in Drafts
  /\ topUps \in [Tenants -> 0..MaxTopUps] /\ mishaps \in 0..MaxMishaps
  /\ DOMAIN mailed = Tenants
  /\ \A t \in Tenants : mailed[t] = Muddled \/ mailed[t] \in Stamps

IInv == RunsOK /\ RowsOK /\ RestOK

(* Two runs hold one row only once there is no telling its e-mails.         *)
Alone == \A q, r \in Runs : q # r /\ run[q].tenant = run[r].tenant /\ run[r].tenant # Nobody
                              => mailed[run[r].tenant] = Muddled

Marks(r, t, k) == pc[r] = "mark" /\ run[r].tenant = t /\ run[r].kind = k

(* The stamps of a row are those of the e-mails that went out, but for one  *)
(* that a run is about to record.                                           *)
OnRecord(t) == mailed[t] # Muddled =>
  \A k \in Kinds : \/ mailed[t][k] = sentAt[t][k]
                   \/ \E r \in Runs : Marks(r, t, k)

(* What a run read of the throttle is what the row says, and what it is     *)
(* about to record is what went out.                                        *)
FreshOK(r) ==
  LET t == run[r].tenant
      k == run[r].kind
  IN  /\ pc[r] = "judge" /\ mailed[t] # Muddled =>
           \A j \in Kinds \ run[r].throttled : ~Throttled(sentAt[t][j], run[r].at)
      /\ pc[r] = "send" /\ mailed[t] # Muddled => ~Throttled(sentAt[t][k], run[r].at)
      /\ pc[r] = "mark" /\ mailed[t] # Muddled => mailed[t][k] = run[r].at

ThrottleOK ==
  /\ Alone
  /\ \A t \in Tenants : OnRecord(t)
  /\ \A r \in Runs : FreshOK(r)

(* What settle() left, and no save took back, is paid beyond the instant it *)
(* is judged at, and the e-mail, if any, is a warning.                      *)
PaidOK(r) ==
  /\ pc[r] \in {"refresh", "judge"} /\ ~run[r].unpaid =>
       run[r].at < sub[run[r].tenant].paid
  /\ pc[r] = "send" /\ ~run[r].unpaid => run[r].kind = "warn"

PeriodsPositive == \A pol \in Policies : pol.period > 0
UnpaidOK == \A r \in Runs : PaidOK(r)


-----------------------------------------------------------------------------
(* Types                                                                    *)

LEMMA Numbers ==
  /\ Instants \subseteq Nat /\ MaxNow \in Nat
  /\ MaxTopUps \in Nat /\ MaxMishaps \in Nat /\ Nobody \notin Tenants
  /\ Amounts \subseteq Nat
  /\ \A pol \in Policies : pol.price \in Nat /\ pol.period \in Nat
BY NoticesAssumption DEF Instants

(* Between two subscriptions a run may hold any instant and any lists. *)
LEMMA LoopingOK ==
  ASSUME NEW at \in Instants, NEW todo \in SUBSET Tenants, NEW free \in SUBSET Tenants
  PROVE  /\ SlotOK("settle", Looping(at, todo, free)) /\ Looping(at, todo, free).at = at
         /\ Looping(at, todo, free).tenant = Nobody
BY DEF SlotOK, Looping, Slots, Kinds

LEMMA NoRunOK ==
  ASSUME RunsOK
  PROVE  SlotOK("idle", NoRun) /\ NoRun.at <= now /\ NoRun.tenant = Nobody
<1>1. 0 \in Instants /\ 0 <= now
  BY NoticesAssumption DEF RunsOK, Instants
<1>2. QED  BY <1>1 DEF SlotOK, NoRun, Looping, Slots

(* A run that goes on leaves the others where they are. *)
LEMMA GotoRuns ==
  ASSUME RunsOK, NEW r \in Runs, NEW label \in Labels, NEW h, Goto(r, label, h),
         SlotOK(label, h), h.at <= now, UNCHANGED now
  PROVE  /\ RunsOK'
         /\ pc'[r] = label /\ run'[r] = h
         /\ \A q \in Runs \ {r} : pc'[q] = pc[q] /\ run'[q] = run[q]
<1>1. /\ pc'[r] = label /\ run'[r] = h
      /\ \A q \in Runs \ {r} : pc'[q] = pc[q] /\ run'[q] = run[q]
  BY DEF RunsOK, Goto
<1>2. h \in Slots
  BY DEF SlotOK
<1>3. pc' \in [Runs -> Labels] /\ run' \in [Runs -> Slots]
  BY <1>2 DEF RunsOK, Goto
<1>4. QED  BY <1>1, <1>3 DEF RunsOK

LEMMA FinishRuns ==
  ASSUME RunsOK, NEW r \in Runs, Finish(r), UNCHANGED now
  PROVE  /\ RunsOK'
         /\ pc'[r] = "idle" /\ run'[r] = NoRun /\ run'[r].tenant = Nobody
         /\ \A q \in Runs \ {r} : pc'[q] = pc[q] /\ run'[q] = run[q]
BY NoRunOK, GotoRuns DEF Finish, Labels

(* The loop goes on with the instant it began at. *)
LEMMA DoneRuns ==
  ASSUME RunsOK, NEW r \in Runs, Goto(r, "settle", Done(r)), UNCHANGED now
  PROVE  /\ RunsOK'
         /\ pc'[r] = "settle" /\ run'[r].tenant = Nobody
         /\ \A q \in Runs \ {r} : pc'[q] = pc[q] /\ run'[q] = run[q]
<1>1. /\ run[r].at \in Instants /\ run[r].at <= now
      /\ run[r].todo \in SUBSET Tenants /\ run[r].free \in SUBSET Tenants
  BY DEF RunsOK, Slots
<1>2. /\ SlotOK("settle", Done(r)) /\ Done(r).at = run[r].at
      /\ Done(r).tenant = Nobody
  BY <1>1, LoopingOK DEF Done
<1>3. QED  BY <1>1, <1>2, GotoRuns DEF Labels

LEMMA StartRuns ==
  ASSUME RunsOK, NEW r \in Runs, RunStart(r)
  PROVE  /\ RunsOK'
         /\ pc'[r] = "settle" /\ run'[r].tenant = Nobody
         /\ \A q \in Runs \ {r} : pc'[q] = pc[q] /\ run'[q] = run[q]
<1> DEFINE todo == {t \in Tenants \ paused : sub[t].status = "ACTIVE"}
           free == {t \in todo : Free(t)}
<1>1. now \in Instants /\ now <= now /\ todo \in SUBSET Tenants /\ free \in SUBSET Tenants
  BY Numbers DEF RunsOK
<1>2. /\ SlotOK("settle", Looping(now, todo, free)) /\ Looping(now, todo, free).at = now
      /\ Looping(now, todo, free).tenant = Nobody
  BY <1>1, LoopingOK
<1>3. Goto(r, "settle", Looping(now, todo, free)) /\ UNCHANGED now
  BY DEF RunStart
<1> HIDE DEF todo, free
<1>4. QED  BY <1>1, <1>2, <1>3, GotoRuns DEF Labels

(* What a run holds after the settle of a subscription, and after it read   *)
(* the row again.                                                           *)
Settling(r, t) ==
  [at |-> run[r].at, todo |-> run[r].todo \ {t}, free |-> run[r].free \ {t},
   tenant |-> t, throttled |-> {}, dated |-> FALSE, kind |-> "none",
   unpaid |-> t \in run[r].free \/ ~Renewable(t) \/ (Lapsed(t, now) /\ ~Funded(t))]

Refreshed(r) ==
  [run[r] EXCEPT
     !.throttled = {k \in Kinds : Throttled(sentAt[run[r].tenant][k], run[r].at)},
     !.dated = sub[run[r].tenant].paid # Never]

LEMMA SettleRuns ==
  ASSUME RunsOK, NEW r \in Runs, NEW t \in Tenants, RunSettle(r, t)
  PROVE  /\ RunsOK'
         /\ pc'[r] = "refresh" /\ run'[r] = Settling(r, t)
         /\ \A q \in Runs \ {r} : pc'[q] = pc[q] /\ run'[q] = run[q]
<1>1. run[r] \in Slots /\ run[r].at <= now
  BY DEF RunsOK
<1> DEFINE u == t \in run[r].free \/ ~Renewable(t) \/ (Lapsed(t, now) /\ ~Funded(t))
<1>2. u \in BOOLEAN
  OBVIOUS
<1>3. Settling(r, t) \in Slots
  <2> HIDE DEF u
  <2>1. Settling(r, t) =
          [at |-> run[r].at, todo |-> run[r].todo \ {t}, free |-> run[r].free \ {t},
           tenant |-> t, throttled |-> {}, dated |-> FALSE, kind |-> "none", unpaid |-> u]
    BY DEF Settling, u
  <2>2. QED  BY <1>1, <1>2, <2>1 DEF Slots
<1>4. SlotOK("refresh", Settling(r, t)) /\ Settling(r, t).at <= now
  BY <1>1, <1>3 DEF SlotOK, Settling
<1>5. Goto(r, "refresh", Settling(r, t)) /\ UNCHANGED now
  BY DEF RunSettle, Settling
<1>6. QED  BY <1>4, <1>5, GotoRuns DEF Labels

LEMMA RefreshRuns ==
  ASSUME RunsOK, NEW r \in Runs, RunRefresh(r)
  PROVE  /\ RunsOK'
         /\ \A q \in Runs \ {r} : pc'[q] = pc[q] /\ run'[q] = run[q]
         /\ \/ pc'[r] = "settle" /\ run'[r].tenant = Nobody
            \/ /\ pc'[r] = "judge" /\ run'[r].tenant = run[r].tenant
               /\ run'[r].at = run[r].at /\ run'[r].unpaid = run[r].unpaid
               /\ run'[r].throttled = {k \in Kinds :
                    Throttled(sentAt[run[r].tenant][k], run[r].at)}
<1>1. /\ run[r] \in Slots /\ run[r].at <= now
      /\ run[r].tenant \in Tenants /\ run[r].kind = "none"
  <2>1. SlotOK("refresh", run[r]) /\ run[r].at <= now
    BY DEF RunRefresh, RunsOK
  <2>2. QED  BY <2>1 DEF SlotOK
<1>2. UNCHANGED now
  BY DEF RunRefresh
<1>3. CASE Free(run[r].tenant)
  <2>1. Goto(r, "settle", Done(r))
    BY <1>3 DEF RunRefresh
  <2>2. QED  BY <1>2, <2>1, DoneRuns
<1>4. CASE ~Free(run[r].tenant)
  <2>1. Goto(r, "judge", Refreshed(r))
    BY <1>4 DEF RunRefresh, Refreshed
  <2>2. /\ Refreshed(r) \in Slots /\ Refreshed(r).kind = "none"
        /\ Refreshed(r).at = run[r].at /\ Refreshed(r).tenant = run[r].tenant
        /\ Refreshed(r).unpaid = run[r].unpaid
        /\ Refreshed(r).throttled = {k \in Kinds :
             Throttled(sentAt[run[r].tenant][k], run[r].at)}
    BY <1>1 DEF Refreshed, Slots
  <2>3. SlotOK("judge", Refreshed(r)) /\ Refreshed(r).at <= now
    BY <1>1, <2>2 DEF SlotOK
  <2>4. QED  BY <1>2, <2>1, <2>2, <2>3, GotoRuns DEF Labels
<1>5. QED  BY <1>3, <1>4

(* The kind of the e-mail a run decides to send. *)
Nudged(r) ==
  [run[r] EXCEPT !.kind = Verdict(run[r].tenant, run[r].at), !.throttled = {}, !.dated = FALSE]

LEMMA JudgeRuns ==
  ASSUME RunsOK, NEW r \in Runs, RunJudge(r)
  PROVE  /\ RunsOK'
         /\ \A q \in Runs \ {r} : pc'[q] = pc[q] /\ run'[q] = run[q]
         /\ \/ pc'[r] \in {"idle", "settle"} /\ run'[r].tenant = Nobody
            \/ /\ pc'[r] = "send" /\ run'[r].tenant = run[r].tenant
               /\ run'[r].at = run[r].at /\ run'[r].unpaid = run[r].unpaid
               /\ run'[r].kind = Verdict(run[r].tenant, run[r].at)
               /\ run'[r].kind \in Kinds \ run[r].throttled
<1> DEFINE k == Verdict(run[r].tenant, run[r].at)
<1>1. /\ run[r] \in Slots /\ run[r].at <= now
      /\ run[r].tenant \in Tenants
  <2>1. SlotOK("judge", run[r]) /\ run[r].at <= now
    BY DEF RunJudge, RunsOK
  <2>2. QED  BY <2>1 DEF SlotOK, Slots
<1>2. UNCHANGED now
  BY DEF RunJudge
<1>3. CASE Finish(r)
  BY <1>2, <1>3, FinishRuns
<1>4. CASE Goto(r, "settle", Done(r))
  BY <1>2, <1>4, DoneRuns
<1>5. CASE k # "none" /\ k \notin run[r].throttled /\ Goto(r, "send", Nudged(r))
  <2>1. k \in {"lockout", "grace", "warn", "none"}
    BY DEF Verdict
  <2>2. k \in Kinds \ run[r].throttled
    BY <1>5, <2>1 DEF Kinds
  <2>3. /\ Nudged(r) \in Slots /\ Nudged(r).kind = k
        /\ Nudged(r).at = run[r].at /\ Nudged(r).tenant = run[r].tenant
        /\ Nudged(r).unpaid = run[r].unpaid
    BY <1>1, <2>2 DEF Nudged, Slots
  <2>4. SlotOK("send", Nudged(r)) /\ Nudged(r).at <= now
    BY <1>1, <2>2, <2>3 DEF SlotOK
  <2>5. /\ RunsOK' /\ pc'[r] = "send" /\ run'[r] = Nudged(r)
        /\ \A q \in Runs \ {r} : pc'[q] = pc[q] /\ run'[q] = run[q]
    BY <1>2, <1>5, <2>4, GotoRuns DEF Labels
  <2> HIDE DEF k
  <2>6. QED  BY <2>2, <2>3, <2>5 DEF k
<1>6. QED  BY <1>3, <1>4, <1>5 DEF RunJudge, Nudged

LEMMA SendRuns ==
  ASSUME RunsOK, NEW r \in Runs, RunSend(r)
  PROVE  /\ RunsOK' /\ pc'[r] = "mark" /\ run'[r].tenant = run[r].tenant
         /\ run'[r].kind = run[r].kind /\ run'[r].at = run[r].at
         /\ \A q \in Runs \ {r} : pc'[q] = pc[q] /\ run'[q] = run[q]
         /\ run[r].tenant \in Tenants /\ run[r].kind \in Kinds /\ run[r].at \in Instants
<1> DEFINE h == [run[r] EXCEPT !.unpaid = FALSE]
<1>1. SlotOK("send", run[r]) /\ run[r].at <= now
  BY DEF RunSend, RunsOK
<1>2. /\ h \in Slots /\ h.tenant = run[r].tenant /\ h.kind = run[r].kind
      /\ h.at = run[r].at
  BY <1>1 DEF SlotOK, Slots
<1>3. Goto(r, "mark", h) /\ UNCHANGED now
  BY DEF RunSend
<1> HIDE DEF h
<1>4. SlotOK("mark", h) /\ h.at <= now
  BY <1>1, <1>2 DEF SlotOK
<1>5. /\ RunsOK' /\ pc'[r] = "mark" /\ run'[r] = h
      /\ \A q \in Runs \ {r} : pc'[q] = pc[q] /\ run'[q] = run[q]
  BY <1>3, <1>4, GotoRuns DEF Labels
<1>6. QED  BY <1>1, <1>2, <1>5 DEF SlotOK, Slots

(* A whole-row save leaves every run where it is; it may note that a period *)
(* was taken back.                                                          *)
LEMMA SaveRuns ==
  ASSUME RunsOK, RestOK, NEW e \in Editors, NEW pol, NEW st, SaveRow(e, pol, st)
  PROVE  /\ RunsOK' /\ pc' = pc /\ draft[e] \in Drafts
         /\ \A q \in Runs : run'[q] = run[q] \/ run'[q] = [run[q] EXCEPT !.unpaid = TRUE]
         /\ \A q \in Runs : /\ run[q].tenant = draft[e].tenant
                            /\ draft[e].paid # sub[draft[e].tenant].paid
                            => run'[q].unpaid \/ pc[q] = "mark"
<1> DEFINE taken(q) == /\ run[q].tenant = draft[e].tenant /\ pc[q] # "mark"
                       /\ draft[e].paid # sub[draft[e].tenant].paid
           noted(q) == [run[q] EXCEPT !.unpaid = TRUE]
<1>1. /\ run' = [q \in Runs |-> IF taken(q) THEN noted(q) ELSE run[q]]
      /\ pc' = pc /\ now' = now
  BY DEF SaveRow
<1>2. draft[e] \in Drafts
  BY DEF RestOK, SaveRow
<1>3. draft[e].tenant \in Tenants
  BY <1>2 DEF Drafts
<1>4. ASSUME NEW q \in Runs, taken(q)
      PROVE  /\ noted(q) \in Slots /\ noted(q).at = run[q].at /\ noted(q).unpaid
             /\ SlotOK(pc[q], noted(q))
  <2>1. SlotOK(pc[q], run[q]) /\ run[q].tenant # Nobody
    BY <1>3, <1>4, Numbers DEF RunsOK
  <2>2. /\ noted(q) \in Slots /\ noted(q).at = run[q].at /\ noted(q).unpaid
        /\ noted(q).tenant = run[q].tenant /\ noted(q).kind = run[q].kind
    BY <2>1 DEF SlotOK, Slots
  <2>3. pc[q] \notin {"idle", "settle"}
    BY <2>1 DEF SlotOK, NoRun, Looping
  <2>4. QED  BY <2>1, <2>2, <2>3 DEF SlotOK
<1> HIDE DEF noted, taken
<1>5. run' \in [Runs -> Slots] /\ \A q \in Runs : run'[q] = IF taken(q) THEN noted(q) ELSE run[q]
  BY <1>1, <1>4 DEF RunsOK
<1>6. RunsOK'
  BY <1>1, <1>4, <1>5 DEF RunsOK
<1>7. \A q \in Runs : run'[q] = run[q] \/ run'[q] = [run[q] EXCEPT !.unpaid = TRUE]
  BY <1>5 DEF noted
<1>8. ASSUME NEW q \in Runs, run[q].tenant = draft[e].tenant, pc[q] # "mark",
             draft[e].paid # sub[draft[e].tenant].paid
      PROVE  run'[q].unpaid
  BY <1>4, <1>5, <1>8 DEF taken
<1>9. QED  BY <1>1, <1>2, <1>6, <1>7, <1>8

(* What a save changes of a run is nothing but "unpaid".                    *)
LEMMA SaveKeeps ==
  ASSUME RunsOK, NEW q \in Runs,
         run'[q] = run[q] \/ run'[q] = [run[q] EXCEPT !.unpaid = TRUE]
  PROVE  /\ run'[q].tenant = run[q].tenant /\ run'[q].at = run[q].at
         /\ run'[q].kind = run[q].kind /\ run'[q].throttled = run[q].throttled
         /\ run'[q].unpaid \/ run'[q].unpaid = run[q].unpaid
BY DEF RunsOK, Slots

(* What runs hold. *)
LEMMA Holds ==
  ASSUME RunsOK, NEW q \in Runs
  PROVE  /\ pc[q] \in {"refresh", "judge", "send", "mark"} => run[q].tenant \in Tenants
         /\ pc[q] \in {"idle", "settle"} => run[q].tenant = Nobody
         /\ run[q].tenant \in Tenants \union {Nobody}
         /\ run[q].at \in Int /\ now \in Int
<1>1. SlotOK(pc[q], run[q]) /\ pc[q] \in Labels
  BY DEF RunsOK
<1>2. run[q].at \in Instants /\ now \in Instants
  BY <1>1 DEF SlotOK, Slots, RunsOK
<1>3. run[q].at \in Int /\ now \in Int
  BY <1>2, NoticesAssumption DEF Instants
<1>4. QED  BY <1>1, <1>3 DEF SlotOK, Slots, NoRun, Looping

(* The steps that are of no run. *)
Meanwhile ==
  \/ \E t \in Tenants, a \in Amounts : TopUp(t, a)
  \/ \E t \in Tenants, n \in Instants : Settle(t, n)
  \/ Vendor

(* Every step of a run, and of the rest. *)
LEMMA RunsTyped ==
  ASSUME RunsOK, RestOK, [Next]_vars
  PROVE  RunsOK'
<1>1. ASSUME NEW r \in Runs, Run(r) \/ RunDies(r) PROVE RunsOK'
  <2>1. CASE \/ RunStart(r) \/ RunRefresh(r) \/ RunJudge(r) \/ RunSend(r)
             \/ \E t \in Tenants : RunSettle(r, t)
    BY <2>1, StartRuns, RefreshRuns, JudgeRuns, SendRuns, SettleRuns
  <2>2. CASE RunSendFails(r) \/ RunMark(r)
    BY <2>2, DoneRuns DEF RunSendFails, RunMark
  <2>3. CASE RunEnd(r) \/ RunDies(r)
    BY <2>3, FinishRuns DEF RunEnd, RunDies
  <2>4. QED  BY <1>1, <2>1, <2>2, <2>3 DEF Run
<1>2. ASSUME NEW e \in Editors, NEW pol \in Policies, NEW st \in Statuses, SaveRow(e, pol, st)
      PROVE  RunsOK'
  BY <1>2, SaveRuns
<1>3. CASE Tick
  <2>1. now' \in Instants /\ \A r \in Runs : run[r].at \in Nat
    BY <1>3, Numbers DEF Tick, RunsOK, Slots, Instants
  <2>2. now \in Nat
    BY Numbers DEF RunsOK
  <2>3. QED  BY <1>3, <2>1, <2>2 DEF Tick, RunsOK
<1>4. CASE UNCHANGED <<now, pc, run>>
  BY <1>4 DEF RunsOK
<1>5. QED
  BY <1>1, <1>2, <1>3, <1>4
     DEF Next, Vendor, vars, TopUp, Settle, UpdateSubscription, SetPaused, OpenRow

(* settle() takes no more than the wallet has, never takes back what was    *)
(* paid at or before its own instant, and leaves what is renewable and      *)
(* affordable paid beyond it.                                               *)
LEMMA SettledRows ==
  ASSUME RowsOK, NEW t \in Tenants, NEW n \in Instants, Settled(t, n)
  PROVE  /\ sub' \in [Tenants -> Subscriptions] /\ funds' \in [Tenants -> Nat]
         /\ \A u \in Tenants : sub[u].paid <= sub'[u].paid
         /\ PeriodsPositive /\ Renewable(t) /\ (Lapsed(t, n) => Funded(t)) => n < sub'[t].paid
<1>1. /\ sub[t] \in Subscriptions /\ funds[t] \in Nat /\ n \in Nat
      /\ \A u \in Tenants : funds[u] \in Nat /\ sub[u].paid \in Int
      /\ sub[t].policy \in Policies
      /\ sub[t].policy.period \in Nat /\ sub[t].policy.price \in Nat
  BY Numbers DEF RowsOK, Subscriptions, Never
<1>2. CASE Charged(t, n)
  <2> DEFINE paid == n + sub[t].policy.period
             s == [sub[t] EXCEPT !.paid = paid]
             left == funds[t] - sub[t].policy.price
  <2>1. sub' = [sub EXCEPT ![t] = s] /\ funds' = [funds EXCEPT ![t] = left]
    BY <1>2 DEF Settled, PaidThrough
  <2>2. paid \in Nat /\ n <= paid /\ (sub[t].policy.period > 0 => n < paid)
    BY <1>1
  <2>3. s \in Subscriptions /\ s.paid = paid
    <3> HIDE DEF paid
    <3>1. QED  BY <1>1, <2>2 DEF Subscriptions
  <2>4. left \in Nat
    BY <1>1, <1>2 DEF Charged, Funded
  <2>5. sub[t].paid <= n
    BY <1>2 DEF Charged, Lapsed
  <2> HIDE DEF s, left, paid
  <2>6. /\ sub' \in [Tenants -> Subscriptions] /\ sub'[t].paid = paid
        /\ \A u \in Tenants \ {t} : sub'[u] = sub[u]
    BY <2>1, <2>3 DEF RowsOK
  <2>7. funds' \in [Tenants -> Nat]
    BY <2>1, <2>4 DEF RowsOK
  <2>8. sub[t].paid <= paid
    BY <1>1, <2>2, <2>5
  <2>9. PeriodsPositive => n < sub'[t].paid
    BY <1>1, <2>2, <2>6 DEF PeriodsPositive
  <2>10. QED  BY <1>1, <2>6, <2>7, <2>8, <2>9
<1>3. CASE ~Charged(t, n)
  <2>1. UNCHANGED <<sub, funds>>
    BY <1>3 DEF Settled
  <2>2. Renewable(t) /\ (Lapsed(t, n) => Funded(t)) => n < sub[t].paid
    BY <1>1, <1>3 DEF Charged, Lapsed
  <2>3. QED  BY <1>1, <2>1, <2>2 DEF RowsOK
<1>4. QED  BY <1>2, <1>3

LEMMA StampTyped ==
  ASSUME NEW stamps \in Stamps, NEW k \in Kinds, NEW n \in Instants
  PROVE  [stamps EXCEPT ![k] = n] \in Stamps
BY DEF Stamps

LEMMA RowsTyped ==
  ASSUME IInv, [Next]_vars
  PROVE  RowsOK'
<1>0. RunsOK /\ RowsOK /\ RestOK /\ now \in Instants
  BY DEF IInv, RunsOK
<1>1. ASSUME NEW t \in Tenants, NEW n \in Instants, Settled(t, n), UNCHANGED <<sentAt, paused>>
      PROVE  RowsOK'
  BY <1>0, <1>1, SettledRows DEF RowsOK
<1>2. ASSUME NEW r \in Runs, RunMark(r) PROVE RowsOK'
  <2> DEFINE t == run[r].tenant
             stamps == [sentAt[t] EXCEPT ![run[r].kind] = run[r].at]
  <2>1. SlotOK("mark", run[r])
    BY <1>0, <1>2 DEF RunsOK, RunMark
  <2>2. t \in Tenants /\ run[r].kind \in Kinds /\ run[r].at \in Instants
    BY <2>1 DEF SlotOK, Slots
  <2>3. stamps \in Stamps
    BY <1>0, <2>2, StampTyped DEF RowsOK
  <2>4. sentAt' = [sentAt EXCEPT ![t] = stamps] /\ UNCHANGED <<sub, funds, paused>>
    BY <1>2 DEF RunMark
  <2> HIDE DEF stamps
  <2>5. QED  BY <1>0, <2>3, <2>4 DEF RowsOK
<1>3. ASSUME NEW t \in Tenants, NEW a \in Amounts, TopUp(t, a) PROVE RowsOK'
  <2>1. funds[t] + a \in Nat
    BY <1>0, Numbers DEF RowsOK
  <2>2. funds' = [funds EXCEPT ![t] = funds[t] + a] /\ UNCHANGED <<sub, sentAt, paused>>
    BY <1>3 DEF TopUp
  <2>3. QED  BY <1>0, <2>1, <2>2 DEF RowsOK
<1>4. ASSUME NEW t \in Tenants, NEW pol \in Policies, NEW st \in Statuses,
             UpdateSubscription(t, pol, st)
      PROVE  RowsOK'
  <2>1. [paid |-> sub[t].paid, status |-> st, policy |-> pol] \in Subscriptions
    BY <1>0 DEF RowsOK, Subscriptions
  <2>2. QED  BY <1>0, <1>4, <2>1 DEF UpdateSubscription, RowsOK
<1>5. ASSUME NEW e \in Editors, NEW pol \in Policies, NEW st \in Statuses, SaveRow(e, pol, st)
      PROVE  RowsOK'
  <2>1. draft[e] \in Drafts
    BY <1>0, <1>5, SaveRuns
  <2>2. draft[e].tenant \in Tenants /\ draft[e].sent \in Stamps
    BY <2>1 DEF Drafts
  <2>3. [paid |-> draft[e].paid, status |-> st, policy |-> pol] \in Subscriptions
    BY <2>1 DEF Drafts, Subscriptions
  <2>4. QED  BY <1>0, <1>5, <2>2, <2>3 DEF SaveRow, RowsOK
<1>6. ASSUME NEW t \in Tenants, SetPaused(t) PROVE RowsOK'
  BY <1>0, <1>6 DEF SetPaused, RowsOK
<1>7. CASE UNCHANGED rows
  BY <1>0, <1>7 DEF rows, RowsOK
<1>8. ASSUME NEW r \in Runs, Run(r) \/ RunDies(r) PROVE RowsOK'
  <2>1. ASSUME NEW t \in Tenants, RunSettle(r, t) PROVE RowsOK'
    <3>1. CASE t \in run[r].free
      BY <1>7, <2>1, <3>1 DEF RunSettle, rows
    <3>2. CASE t \notin run[r].free
      BY <1>0, <1>1, <2>1, <3>2 DEF RunSettle
    <3>3. QED  BY <3>1, <3>2
  <2>2. QED
    BY <1>2, <1>7, <1>8, <2>1
       DEF Run, RunStart, RunRefresh, RunJudge, RunSend, RunSendFails, RunEnd, RunDies
<1>9. CASE Meanwhile
  BY <1>1, <1>3, <1>4, <1>5, <1>6, <1>7, <1>9 DEF Meanwhile, Settle, Vendor, OpenRow
<1>10. QED
  BY <1>7, <1>8, <1>9 DEF Next, Meanwhile, vars, Tick

(* Not knowing any more is always well typed. *)
LEMMA MuddleTyped ==
  ASSUME RestOK, NEW t, mailed' = [mailed EXCEPT ![t] = Muddled] \/ mailed' = mailed
  PROVE  /\ DOMAIN mailed' = Tenants
         /\ \A u \in Tenants : mailed'[u] = Muddled \/ mailed'[u] \in Stamps
BY DEF RestOK

LEMMA RestTyped ==
  ASSUME IInv, [Next]_vars
  PROVE  RestOK'
<1>0. RunsOK /\ RowsOK /\ RestOK
  BY DEF IInv
<1> DEFINE Mail == /\ DOMAIN mailed = Tenants
                   /\ \A t \in Tenants : mailed[t] = Muddled \/ mailed[t] \in Stamps
<1>1. CASE UNCHANGED <<draft, topUps, mishaps>> /\ Mail'
  BY <1>0, <1>1 DEF RestOK
<1>2. ASSUME NEW t, UNCHANGED <<draft, topUps, mishaps>>,
             mailed' = [mailed EXCEPT ![t] = Muddled] \/ mailed' = mailed
      PROVE  RestOK'
  BY <1>0, <1>1, <1>2, MuddleTyped
<1>3. ASSUME NEW r \in Runs, RunSend(r) PROVE RestOK'
  <2> DEFINE t == run[r].tenant
             k == run[r].kind
             last == mailed[t]
             stamps == IF last = Muddled THEN Muddled ELSE [last EXCEPT ![k] = run[r].at]
  <2>1. t \in Tenants /\ k \in Kinds /\ run[r].at \in Instants
    BY <1>0, <1>3, SendRuns
  <2>2. stamps = Muddled \/ stamps \in Stamps
    BY <1>0, <2>1, StampTyped DEF RestOK
  <2>3. mailed' = [mailed EXCEPT ![t] = stamps] /\ UNCHANGED <<draft, topUps, mishaps>>
    BY <1>3 DEF RunSend
  <2> HIDE DEF stamps
  <2>4. Mail'
    BY <1>0, <2>2, <2>3 DEF RestOK
  <2>5. QED  BY <1>1, <2>3, <2>4
<1>4. ASSUME NEW r \in Runs, RunDies(r) PROVE RestOK'
  <2>1. mishaps' \in 0..MaxMishaps /\ UNCHANGED <<draft, topUps>>
    BY <1>0, <1>4, Numbers DEF RunDies, RestOK
  <2>2. Mail'
    BY <1>0, <1>4, MuddleTyped DEF RunDies
  <2>3. QED  BY <1>0, <2>1, <2>2 DEF RestOK
<1>5. ASSUME NEW t \in Tenants, NEW a \in Amounts, TopUp(t, a) PROVE RestOK'
  <2>1. topUps[t] + 1 \in 0..MaxTopUps
    BY <1>0, <1>5, Numbers DEF RestOK, TopUp
  <2>2. /\ topUps' = [topUps EXCEPT ![t] = topUps[t] + 1]
        /\ UNCHANGED <<draft, mishaps, mailed>>
    BY <1>5 DEF TopUp
  <2>3. QED  BY <1>0, <2>1, <2>2 DEF RestOK
<1>6. ASSUME NEW e \in Editors, NEW t \in Tenants, OpenRow(e, t) PROVE RestOK'
  <2>1. [tenant |-> t, paid |-> sub[t].paid, sent |-> sentAt[t]] \in Drafts
    BY <1>0 DEF RowsOK, Subscriptions, Drafts
  <2>2. mishaps' \in 0..MaxMishaps
    BY <1>0, <1>6, Numbers DEF OpenRow, RestOK
  <2>3. QED  BY <1>0, <1>6, <2>1, <2>2 DEF OpenRow, RestOK
<1>7. ASSUME NEW e \in Editors, NEW pol \in Policies, NEW st \in Statuses, SaveRow(e, pol, st)
      PROVE  RestOK'
  <2>1. mailed' = mailed \/ mailed' = [mailed EXCEPT ![draft[e].tenant] = Muddled]
    BY <1>7 DEF SaveRow
  <2>2. Mail'
    BY <1>0, <2>1, MuddleTyped
  <2>3. draft' = [draft EXCEPT ![e] = NoDraft] /\ UNCHANGED <<topUps, mishaps>>
    BY <1>7 DEF SaveRow
  <2>4. QED  BY <1>0, <2>2, <2>3 DEF RestOK
<1>8. ASSUME NEW r \in Runs, Run(r) PROVE RestOK'
  <2>1. ASSUME NEW t \in Tenants, RunSettle(r, t) PROVE RestOK'
    <3>1. mailed' = [mailed EXCEPT ![t] = Muddled] \/ mailed' = mailed
      BY <2>1 DEF RunSettle
    <3>2. QED  BY <1>2, <2>1, <3>1 DEF RunSettle
  <2>2. CASE RunSendFails(r)
    BY <1>2, <2>2 DEF RunSendFails
  <2>3. CASE RunStart(r) \/ RunRefresh(r) \/ RunJudge(r) \/ RunMark(r) \/ RunEnd(r)
    BY <1>0, <2>3 DEF RunStart, RunRefresh, RunJudge, RunMark, RunEnd, RestOK
  <2>4. QED  BY <1>3, <1>8, <2>1, <2>2, <2>3 DEF Run
<1>9. CASE UNCHANGED <<draft, topUps, mishaps, mailed>>
  BY <1>0, <1>9 DEF RestOK
<1>10. CASE Meanwhile
  BY <1>5, <1>6, <1>7, <1>9, <1>10
     DEF Meanwhile, Settle, Vendor, UpdateSubscription, SetPaused
<1>11. QED
  BY <1>4, <1>8, <1>9, <1>10 DEF Next, Meanwhile, vars, Tick

LEMMA InitInv == Init => IInv
<1> SUFFICES ASSUME Init PROVE IInv
  OBVIOUS
<1>1. 0 \in Instants /\ 0 <= 0 /\ 0 \in 0..MaxTopUps /\ 0 \in 0..MaxMishaps
  BY Numbers DEF Instants
<1>2. SlotOK("idle", NoRun) /\ NoRun.at = 0
  BY <1>1 DEF SlotOK, NoRun, Looping, Slots
<1>3. NoRun \in Slots
  BY <1>2 DEF SlotOK
<1>4. RunsOK
  BY <1>1, <1>2, <1>3 DEF Init, RunsOK, Labels
<1>5. [k \in Kinds |-> Never] \in Stamps
  BY DEF Stamps
<1>6. [paid: {Never}, status: {"ACTIVE"}, policy: Policies] \subseteq Subscriptions
  BY DEF Subscriptions, Statuses
<1>7. sub \in [Tenants -> Subscriptions]
  BY <1>6 DEF Init
<1>8. sentAt \in [Tenants -> Stamps] /\ mailed = sentAt
  BY <1>5 DEF Init
<1>9. RowsOK
  BY <1>7, <1>8 DEF Init, RowsOK
<1>10. RestOK
  BY <1>1, <1>8 DEF Init, RestOK
<1>11. QED  BY <1>4, <1>9, <1>10 DEF IInv

(* The inductive invariant of runs, rows, editors and history. *)
THEOREM Invariant == Spec => []IInv
<1>1. ASSUME IInv, [Next]_vars PROVE IInv'
  BY <1>1, RunsTyped, RowsTyped, RestTyped DEF IInv
<1>2. QED  BY <1>1, InitInv, PTL DEF Spec

(* The types: rows, stamps, drafts, and what every run of the command holds. *)
THEOREM Typing == Spec => []TypeOK
<1>1. IInv => TypeOK
  BY DEF IInv, RunsOK, RowsOK, RestOK, SlotOK, TypeOK, Slots, Labels
<1>2. QED  BY <1>1, Invariant, PTL

-----------------------------------------------------------------------------
(* Nobody whose wallet paid is dunned                                       *)

(* Only a whole-row save takes back what was paid. *)
LEMMA PaidNeverFalls ==
  ASSUME IInv, [Next]_vars, NEW t \in Tenants,
         ~ \E e \in Editors, pol \in Policies, st \in Statuses : SaveRow(e, pol, st)
  PROVE  sub[t].paid <= sub'[t].paid
<1>0. RowsOK /\ now \in Instants /\ sub[t].paid \in Int
  BY Numbers DEF IInv, RunsOK, RowsOK, Subscriptions, Never
<1>1. CASE UNCHANGED sub
  BY <1>0, <1>1
<1>2. ASSUME NEW u \in Tenants, NEW n \in Instants, Settled(u, n)
      PROVE  sub[t].paid <= sub'[t].paid
  BY <1>0, <1>2, SettledRows
<1>3. ASSUME NEW u \in Tenants, NEW pol \in Policies, NEW st \in Statuses,
             UpdateSubscription(u, pol, st)
      PROVE  sub[t].paid <= sub'[t].paid
  <2>1. sub'[t].paid = sub[t].paid
    BY <1>0, <1>3 DEF UpdateSubscription, RowsOK
  <2>2. QED  BY <1>0, <2>1
<1>4. ASSUME NEW r \in Runs, Run(r) \/ RunDies(r) PROVE sub[t].paid <= sub'[t].paid
  BY <1>0, <1>1, <1>2, <1>4
     DEF rows, Run, RunStart, RunSettle, RunRefresh, RunJudge, RunSend, RunSendFails, RunMark,
         RunEnd, RunDies
<1>5. QED
  BY <1>1, <1>2, <1>3, <1>4
     DEF Next, Vendor, vars, rows, TopUp, Settle, SetPaused, OpenRow, Tick

(* A run that stays where it is knows what it knew. *)
LEMMA StaysPaid ==
  ASSUME IInv, IInv', NEW q \in Runs, PaidOK(q), pc'[q] = pc[q], run'[q] = run[q],
         \A t \in Tenants : sub[t].paid <= sub'[t].paid
  PROVE  PaidOK(q)'
<1>0. RunsOK /\ RowsOK /\ RowsOK'
  BY DEF IInv
<1>1. CASE pc[q] \in {"refresh", "judge"} /\ ~run[q].unpaid
  <2>1. /\ run[q].at \in Int /\ run[q].tenant \in Tenants
        /\ run[q].at < sub[run[q].tenant].paid
    BY <1>0, <1>1, Holds DEF PaidOK
  <2>2. /\ sub[run[q].tenant].paid <= sub'[run[q].tenant].paid
        /\ sub[run[q].tenant].paid \in Int /\ sub'[run[q].tenant].paid \in Int
    BY <1>0, <2>1 DEF RowsOK, Subscriptions, Never
  <2>3. run[q].at < sub'[run[q].tenant].paid
    BY <2>1, <2>2
  <2>4. QED  BY <1>1, <2>3 DEF PaidOK
<1>2. CASE ~(pc[q] \in {"refresh", "judge"} /\ ~run[q].unpaid)
  BY <1>2 DEF PaidOK
<1>3. QED  BY <1>1, <1>2

(* A save leaves the other rows alone, and what it takes back is noted. *)
LEMMA SavePaid ==
  ASSUME IInv, UnpaidOK, NEW e \in Editors, NEW pol \in Policies, NEW st \in Statuses,
         SaveRow(e, pol, st)
  PROVE  UnpaidOK'
<1>0. RunsOK /\ RowsOK /\ RestOK
  BY DEF IInv
<1>1. /\ pc' = pc /\ draft[e].tenant \in Tenants
      /\ \A q \in Runs : run'[q] = run[q] \/ run'[q] = [run[q] EXCEPT !.unpaid = TRUE]
      /\ \A q \in Runs : /\ run[q].tenant = draft[e].tenant
                         /\ draft[e].paid # sub[draft[e].tenant].paid
                         => run'[q].unpaid \/ pc[q] = "mark"
  BY <1>0, SaveRuns DEF Drafts
<1>2. /\ sub'[draft[e].tenant].paid = draft[e].paid
      /\ \A t \in Tenants \ {draft[e].tenant} : sub'[t] = sub[t]
  BY <1>0, <1>1 DEF SaveRow, RowsOK
<1>3. ASSUME NEW q \in Runs PROVE PaidOK(q)'
  <2>1. /\ run'[q].tenant = run[q].tenant /\ run'[q].at = run[q].at
        /\ run'[q].kind = run[q].kind
        /\ run'[q].unpaid \/ run'[q].unpaid = run[q].unpaid
    BY <1>0, <1>1, SaveKeeps
  <2>2. CASE run'[q].unpaid \/ pc[q] \notin {"refresh", "judge"}
    BY <1>1, <2>1, <2>2 DEF PaidOK, UnpaidOK
  <2>3. CASE ~run'[q].unpaid /\ pc[q] \in {"refresh", "judge"}
    <3>1. run[q].tenant \in Tenants /\ sub'[run[q].tenant].paid = sub[run[q].tenant].paid
      BY <1>0, <1>1, <1>2, <2>3, Holds
    <3>2. QED  BY <1>1, <2>1, <2>3, <3>1 DEF PaidOK, UnpaidOK
  <2>4. QED  BY <2>2, <2>3
<1>4. QED  BY <1>3 DEF UnpaidOK

LEMMA UnpaidStep ==
  ASSUME IInv, PeriodsPositive, UnpaidOK, [Next]_vars
  PROVE  UnpaidOK'
<1>0. RunsOK /\ RowsOK /\ now \in Instants /\ IInv'
  BY RunsTyped, RowsTyped, RestTyped DEF IInv, RunsOK
<1>1. CASE \E e \in Editors, pol \in Policies, st \in Statuses : SaveRow(e, pol, st)
  BY <1>1, SavePaid
<1>2. CASE ~ \E e \in Editors, pol \in Policies, st \in Statuses : SaveRow(e, pol, st)
  <2>1. \A t \in Tenants : sub[t].paid <= sub'[t].paid
    BY <1>2, PaidNeverFalls
  <2>2. ASSUME NEW q \in Runs, pc'[q] = pc[q], run'[q] = run[q] PROVE PaidOK(q)'
    BY <1>0, <2>1, <2>2, StaysPaid DEF UnpaidOK
  <2>3. ASSUME NEW r \in Runs, Run(r) \/ RunDies(r)
        PROVE  /\ PaidOK(r)'
               /\ \A q \in Runs \ {r} : pc'[q] = pc[q] /\ run'[q] = run[q]
    <3>1. CASE RunStart(r)
      BY <1>0, <3>1, StartRuns DEF PaidOK
    <3>2. CASE RunSendFails(r) \/ RunMark(r)
      BY <1>0, <3>2, DoneRuns DEF RunSendFails, RunMark, PaidOK
    <3>3. CASE RunEnd(r) \/ RunDies(r)
      BY <1>0, <3>3, FinishRuns DEF RunEnd, RunDies, PaidOK
    <3>4. CASE RunSend(r)
      BY <1>0, <3>4, SendRuns DEF PaidOK
    <3>5. ASSUME NEW t \in Tenants, RunSettle(r, t) PROVE PaidOK(r)'
      <4>1. pc'[r] = "refresh" /\ run'[r] = Settling(r, t)
        BY <1>0, <3>5, SettleRuns
      <4>2. /\ run'[r].at = run[r].at /\ run'[r].tenant = t
            /\ run'[r].unpaid =
                 (t \in run[r].free \/ ~Renewable(t) \/ (Lapsed(t, now) /\ ~Funded(t)))
        BY <4>1 DEF Settling
      <4>3. ASSUME ~run'[r].unpaid PROVE run[r].at < sub'[t].paid
        <5>1. ~(t \in run[r].free \/ ~Renewable(t) \/ (Lapsed(t, now) /\ ~Funded(t)))
          BY <4>2, <4>3
        <5>2. Settled(t, now)
          BY <3>5, <5>1 DEF RunSettle
        <5>3. now < sub'[t].paid
          BY <1>0, <5>1, <5>2, SettledRows
        <5>4. /\ run[r].at <= now /\ run[r].at \in Int /\ now \in Int
              /\ sub'[t].paid \in Int
          BY <1>0, Holds DEF IInv, RunsOK, RowsOK, Subscriptions, Never
        <5>5. QED  BY <5>3, <5>4
      <4>4. QED  BY <4>1, <4>2, <4>3 DEF PaidOK
    <3>6. ASSUME RunRefresh(r) PROVE PaidOK(r)'
      <4>1. CASE pc'[r] = "settle"
        BY <4>1 DEF PaidOK
      <4>2. CASE /\ pc'[r] = "judge" /\ run'[r].tenant = run[r].tenant
                 /\ run'[r].at = run[r].at /\ run'[r].unpaid = run[r].unpaid
        <5>1. sub' = sub /\ pc[r] = "refresh"
          BY <3>6 DEF RunRefresh, rows
        <5>2. QED  BY <4>2, <5>1 DEF PaidOK, UnpaidOK
      <4>3. QED  BY <1>0, <3>6, <4>1, <4>2, RefreshRuns
    <3>7. ASSUME RunJudge(r) PROVE PaidOK(r)'
      <4>1. CASE pc'[r] \in {"idle", "settle"}
        BY <4>1 DEF PaidOK
      <4>2. CASE pc'[r] = "send"
        <5>1. /\ run'[r].unpaid = run[r].unpaid /\ run'[r].kind \in Kinds
              /\ run'[r].kind = Verdict(run[r].tenant, run[r].at)
          BY <1>0, <3>7, <4>2, JudgeRuns
        <5>2. ASSUME ~run[r].unpaid PROVE run'[r].kind = "warn"
          <6>1. pc[r] = "judge" /\ run[r].at < sub[run[r].tenant].paid
            BY <3>7, <5>2 DEF RunJudge, UnpaidOK, PaidOK
          <6>2. /\ run[r].at \in Int /\ run[r].tenant \in Tenants
                /\ sub[run[r].tenant].paid \in Int
            BY <1>0, <6>1, Holds DEF RowsOK, Subscriptions, Never
          <6>3. ~Lapsed(run[r].tenant, run[r].at)
            BY <6>1, <6>2 DEF Lapsed
          <6>4. Verdict(run[r].tenant, run[r].at) \in {"warn", "none"}
            BY <6>3 DEF Verdict
          <6>5. QED  BY <5>1, <6>4 DEF Kinds
        <5>3. QED  BY <4>2, <5>1, <5>2 DEF PaidOK
      <4>3. QED  BY <1>0, <3>7, <4>1, <4>2, JudgeRuns
    <3>8. QED
      BY <1>0, <2>3, <3>1, <3>2, <3>3, <3>4, <3>5, <3>6, <3>7, JudgeRuns, RefreshRuns,
         SettleRuns DEF Run
  <2>4. ASSUME NEW r \in Runs, Run(r) \/ RunDies(r) PROVE UnpaidOK'
    BY <2>2, <2>3, <2>4 DEF UnpaidOK
  <2>5. CASE UNCHANGED <<pc, run>>
    BY <2>2, <2>5 DEF UnpaidOK
  <2>6. QED
    BY <1>2, <2>4, <2>5
       DEF Next, Vendor, vars, TopUp, Settle, UpdateSubscription, SetPaused, OpenRow, Tick
<1>3. QED  BY <1>1, <1>2

(* Only a run that sends goes from "send" to "mark". *)
LEMMA SendingSends ==
  ASSUME IInv, [Next]_vars, NEW r \in Runs, Sending(r)
  PROVE  RunSend(r)
<1>1. RunsOK /\ pc'[r] # pc[r]
  BY DEF IInv, Sending
<1>2. PICK q \in Runs : Run(q) \/ RunDies(q)
  BY <1>1
     DEF Next, Vendor, vars, TopUp, Settle, UpdateSubscription, SetPaused, OpenRow, SaveRow, Tick
<1>3. \E label, h : Goto(q, label, h)
  BY <1>2 DEF Run, RunStart, RunSettle, RunRefresh, RunJudge, RunSend, RunSendFails, RunMark,
              RunEnd, RunDies, Finish
<1>4. q = r
  BY <1>1, <1>3 DEF Goto, RunsOK
<1>5. QED
  BY <1>1, <1>2, <1>4 DEF Run, RunStart, RunSettle, RunRefresh, RunJudge, RunSendFails, RunMark,
     RunEnd, RunDies, Finish, Goto, Sending, RunsOK

(* A grace or lockout e-mail goes only where the same run's settle() left   *)
(* the subscription unpaid (its wallet short, or free when it was listed,   *)
(* or not renewable when it was locked), or where a whole-row save took the *)
(* period back: settle() takes the time anew, resolve() judges by the       *)
(* earlier instant the run began, and no other step takes back what was     *)
(* paid (bill_subscriptions.py:55-77).                                      *)
THEOREM NobodyPaidIsDunned == Spec => OnlyTheUnpaidAreDunned
<1>1. Init => (PeriodsPositive => UnpaidOK)
  BY DEF Init, UnpaidOK, PaidOK
<1>2. IInv /\ (PeriodsPositive => UnpaidOK) /\ [Next]_vars => (PeriodsPositive => UnpaidOK)'
  <2>1. ASSUME IInv, PeriodsPositive => UnpaidOK, [Next]_vars, PeriodsPositive
        PROVE  UnpaidOK'
    BY <2>1, UnpaidStep
  <2>2. PeriodsPositive' <=> PeriodsPositive
    BY DEF PeriodsPositive
  <2>3. QED  BY <2>1, <2>2
<1>3. IInv /\ (PeriodsPositive => UnpaidOK) /\ [Next]_vars =>
        [\A r \in Runs :
           /\ Sending(r) /\ run[r].kind # "warn"
           /\ \A pol \in Policies : pol.period > 0
           => run[r].unpaid]_vars
  BY DEF UnpaidOK, PaidOK, PeriodsPositive, Sending
<1>4. QED  BY <1>1, <1>2, <1>3, Invariant, PTL DEF Spec, OnlyTheUnpaidAreDunned

-----------------------------------------------------------------------------
(* One e-mail of a kind within the throttle                                 *)

(* A run that stays where it is and whose row is left alone, or no longer   *)
(* told apart, knows what it knew.                                          *)
LEMMA StaysFresh ==
  ASSUME NEW q \in Runs, FreshOK(q), pc'[q] = pc[q], run'[q] = run[q],
         LET t == run[q].tenant
         IN  pc[q] \in {"judge", "send", "mark"} =>
               mailed'[t] = Muddled \/ (mailed'[t] = mailed[t] /\ sentAt'[t] = sentAt[t])
  PROVE  FreshOK(q)'
BY DEF FreshOK

(* A run lets its subscription go; unless it is about to record an e-mail,  *)
(* nothing is lost, and then it is not known any more what went out.        *)
LEMMA LetGo ==
  ASSUME IInv, ThrottleOK, NEW r \in Runs,
         pc'[r] \in {"idle", "settle"}, run'[r].tenant = Nobody,
         \A q \in Runs \ {r} : pc'[q] = pc[q] /\ run'[q] = run[q],
         UNCHANGED sentAt,
         \/ mailed' = mailed /\ pc[r] # "mark"
         \/ mailed' = [mailed EXCEPT ![run[r].tenant] = Muddled]
  PROVE  ThrottleOK'
<1>0. RunsOK /\ RowsOK /\ DOMAIN mailed = Tenants
  BY DEF IInv, RestOK
<1>1. \A t \in Tenants : mailed'[t] = mailed[t] \/ mailed'[t] = Muddled
  BY <1>0
<1>2. Alone'
  <2> SUFFICES ASSUME NEW p \in Runs, NEW q \in Runs, p # q,
                      run'[p].tenant = run'[q].tenant, run'[q].tenant # Nobody
               PROVE  mailed'[run'[q].tenant] = Muddled
    BY DEF Alone
  <2>1. p # r /\ q # r
    OBVIOUS
  <2>2. run'[p] = run[p] /\ run'[q] = run[q] /\ run[q].tenant \in Tenants
    BY <1>0, <2>1, Holds
  <2>3. mailed[run[q].tenant] = Muddled
    BY <2>2 DEF ThrottleOK, Alone
  <2>4. QED  BY <1>1, <2>2, <2>3
<1>3. ASSUME NEW t \in Tenants PROVE OnRecord(t)'
  <2> SUFFICES ASSUME mailed'[t] # Muddled, NEW k \in Kinds, mailed'[t][k] # sentAt'[t][k]
               PROVE  \E q \in Runs : Marks(q, t, k)'
    BY DEF OnRecord
  <2>1. mailed'[t] = mailed[t] /\ mailed[t][k] # sentAt[t][k]
    BY <1>1
  <2>2. PICK q \in Runs : Marks(q, t, k)
    BY <2>1 DEF ThrottleOK, OnRecord
  <2>3. q # r
    BY <1>0, <2>2 DEF Marks
  <2>4. QED  BY <2>2, <2>3 DEF Marks
<1>4. ASSUME NEW q \in Runs PROVE FreshOK(q)'
  <2>1. CASE q = r
    BY <2>1 DEF FreshOK
  <2>2. CASE q # r
    BY <1>0, <1>1, <2>2, Holds, StaysFresh DEF ThrottleOK
  <2>3. QED  BY <2>1, <2>2
<1>5. QED  BY <1>2, <1>3, <1>4 DEF ThrottleOK

LEMMA SettleFresh ==
  ASSUME IInv, ThrottleOK, NEW r \in Runs, NEW t \in Tenants, RunSettle(r, t)
  PROVE  ThrottleOK'
<1>0. RunsOK /\ RowsOK /\ DOMAIN mailed = Tenants
  BY DEF IInv, RestOK
<1>1. /\ pc[r] = "settle" /\ pc'[r] = "refresh" /\ sentAt' = sentAt
      /\ \A q \in Runs \ {r} : pc'[q] = pc[q] /\ run'[q] = run[q]
      /\ run'[r].tenant = t
  <2>1. /\ pc'[r] = "refresh" /\ run'[r] = Settling(r, t)
        /\ \A q \in Runs \ {r} : pc'[q] = pc[q] /\ run'[q] = run[q]
    BY <1>0, SettleRuns
  <2>2. run'[r].tenant = t
    BY <2>1 DEF Settling
  <2>3. pc[r] = "settle" /\ sentAt' = sentAt
    BY DEF RunSettle
  <2>4. QED  BY <2>1, <2>2, <2>3
<1>2. /\ mailed' = mailed \/ mailed' = [mailed EXCEPT ![t] = Muddled]
      /\ (\E q \in Runs \ {r} : run[q].tenant = t) => mailed'[t] = Muddled
  BY <1>0 DEF RunSettle
<1>3. \A u \in Tenants : mailed'[u] = mailed[u] \/ mailed'[u] = Muddled
  BY <1>0, <1>2
<1>4. Alone'
  <2> SUFFICES ASSUME NEW p \in Runs, NEW q \in Runs, p # q,
                      run'[p].tenant = run'[q].tenant, run'[q].tenant # Nobody
               PROVE  mailed'[run'[q].tenant] = Muddled
    BY DEF Alone
  <2>1. CASE p = r \/ q = r
    BY <1>1, <1>2, <2>1
  <2>2. CASE p # r /\ q # r
    <3>1. run'[p] = run[p] /\ run'[q] = run[q] /\ run[q].tenant \in Tenants
      BY <1>0, <1>1, <2>2, Holds
    <3>2. mailed[run[q].tenant] = Muddled
      BY <3>1 DEF ThrottleOK, Alone
    <3>3. QED  BY <1>3, <3>1, <3>2
  <2>3. QED  BY <2>1, <2>2
<1>5. ASSUME NEW u \in Tenants PROVE OnRecord(u)'
  <2> SUFFICES ASSUME mailed'[u] # Muddled, NEW k \in Kinds, mailed'[u][k] # sentAt'[u][k]
               PROVE  \E q \in Runs : Marks(q, u, k)'
    BY DEF OnRecord
  <2>1. mailed[u] # Muddled /\ mailed[u][k] # sentAt[u][k]
    BY <1>1, <1>3
  <2>2. PICK q \in Runs : Marks(q, u, k)
    BY <2>1 DEF ThrottleOK, OnRecord
  <2>3. q # r
    BY <1>1, <2>2 DEF Marks
  <2>4. QED  BY <1>1, <2>2, <2>3 DEF Marks
<1>6. ASSUME NEW q \in Runs PROVE FreshOK(q)'
  <2>1. CASE q = r
    BY <1>1, <2>1 DEF FreshOK
  <2>2. CASE q # r
    BY <1>0, <1>1, <1>3, <2>2, Holds, StaysFresh DEF ThrottleOK
  <2>3. QED  BY <2>1, <2>2
<1>7. QED  BY <1>4, <1>5, <1>6 DEF ThrottleOK

(* A run that keeps its row, records nothing yet, and knows of the throttle *)
(* what it has to.                                                          *)
LEMMA KeepsRow ==
  ASSUME IInv, ThrottleOK, NEW r \in Runs, pc[r] # "mark", UNCHANGED <<sentAt, mailed>>,
         \A q \in Runs \ {r} : pc'[q] = pc[q] /\ run'[q] = run[q],
         run'[r].tenant = run[r].tenant, FreshOK(r)'
  PROVE  ThrottleOK'
<1>1. \A q \in Runs : run'[q].tenant = run[q].tenant
  OBVIOUS
<1>2. Alone'
  BY <1>1 DEF ThrottleOK, Alone
<1>3. ASSUME NEW t \in Tenants, NEW k \in Kinds, NEW q \in Runs, Marks(q, t, k)
      PROVE  Marks(q, t, k)'
  BY <1>3 DEF Marks
<1>4. \A t \in Tenants : OnRecord(t)'
  BY <1>3 DEF ThrottleOK, OnRecord
<1>5. \A q \in Runs \ {r} : FreshOK(q)'
  BY StaysFresh DEF ThrottleOK
<1>6. QED  BY <1>2, <1>4, <1>5 DEF ThrottleOK

LEMMA RefreshFresh ==
  ASSUME IInv, ThrottleOK, NEW r \in Runs, RunRefresh(r)
  PROVE  ThrottleOK'
<1>0. RunsOK
  BY DEF IInv
<1>1. /\ pc[r] = "refresh" /\ UNCHANGED <<sentAt, mailed>>
      /\ \A q \in Runs \ {r} : pc'[q] = pc[q] /\ run'[q] = run[q]
  BY <1>0, RefreshRuns DEF RunRefresh, rows
<1>2. CASE pc'[r] = "settle" /\ run'[r].tenant = Nobody
  BY <1>1, <1>2, LetGo
<1>3. CASE /\ pc'[r] = "judge" /\ run'[r].tenant = run[r].tenant
           /\ run'[r].at = run[r].at
           /\ run'[r].throttled = {k \in Kinds : Throttled(sentAt[run[r].tenant][k], run[r].at)}
  <2>1. FreshOK(r)'
    BY <1>1, <1>3 DEF FreshOK, Throttled
  <2>2. QED  BY <1>1, <1>3, <2>1, KeepsRow
<1>4. QED  BY <1>0, <1>2, <1>3, RefreshRuns

LEMMA JudgeFresh ==
  ASSUME IInv, ThrottleOK, NEW r \in Runs, RunJudge(r)
  PROVE  ThrottleOK'
<1>0. RunsOK
  BY DEF IInv
<1>1. /\ pc[r] = "judge" /\ UNCHANGED <<sentAt, mailed>>
      /\ \A q \in Runs \ {r} : pc'[q] = pc[q] /\ run'[q] = run[q]
  BY <1>0, JudgeRuns DEF RunJudge, rows
<1>2. CASE pc'[r] \in {"idle", "settle"} /\ run'[r].tenant = Nobody
  BY <1>1, <1>2, LetGo
<1>3. CASE /\ pc'[r] = "send" /\ run'[r].tenant = run[r].tenant
           /\ run'[r].at = run[r].at /\ run'[r].kind \in Kinds \ run[r].throttled
  <2>1. FreshOK(r)'
    BY <1>1, <1>3 DEF ThrottleOK, FreshOK, Throttled
  <2>2. QED  BY <1>1, <1>3, <2>1, KeepsRow
<1>4. QED  BY <1>0, <1>2, <1>3, JudgeRuns

LEMMA SendFresh ==
  ASSUME IInv, ThrottleOK, NEW r \in Runs, RunSend(r)
  PROVE  ThrottleOK'
<1> DEFINE t == run[r].tenant
           k == run[r].kind
           stamps == IF mailed[t] = Muddled THEN Muddled ELSE [mailed[t] EXCEPT ![k] = run[r].at]
<1>0. RunsOK /\ RowsOK /\ RestOK
  BY DEF IInv
<1>1. /\ pc[r] = "send" /\ pc'[r] = "mark" /\ sentAt' = sentAt
      /\ run'[r].tenant = t /\ run'[r].kind = k /\ run'[r].at = run[r].at
      /\ \A q \in Runs \ {r} : pc'[q] = pc[q] /\ run'[q] = run[q]
      /\ \A q \in Runs : run'[q].tenant = run[q].tenant
      /\ t \in Tenants /\ k \in Kinds
  BY <1>0, SendRuns DEF RunSend, rows
<1>2. mailed' = [mailed EXCEPT ![t] = stamps]
  BY DEF RunSend
<1>3. /\ mailed[t] = Muddled => stamps = Muddled
      /\ mailed[t] # Muddled => /\ stamps[k] = run[r].at
                                /\ \A j \in Kinds \ {k} : stamps[j] = mailed[t][j]
  BY <1>0, <1>1 DEF RestOK, Stamps
<1> HIDE DEF stamps
<1>4. mailed'[t] = stamps /\ \A u \in Tenants \ {t} : mailed'[u] = mailed[u]
  BY <1>0, <1>1, <1>2 DEF RestOK
<1>5. \A u \in Tenants : mailed[u] = Muddled => mailed'[u] = Muddled
  BY <1>3, <1>4
<1>6. Alone'
  <2> SUFFICES ASSUME NEW p \in Runs, NEW q \in Runs, p # q,
                      run[p].tenant = run[q].tenant, run[q].tenant # Nobody
               PROVE  mailed'[run[q].tenant] = Muddled
    BY <1>1 DEF Alone
  <2>1. run[q].tenant \in Tenants /\ mailed[run[q].tenant] = Muddled
    BY <1>0, Holds DEF ThrottleOK, Alone
  <2>2. QED  BY <1>5, <2>1
<1>7. ASSUME NEW u \in Tenants PROVE OnRecord(u)'
  <2> SUFFICES ASSUME mailed'[u] # Muddled, NEW j \in Kinds, mailed'[u][j] # sentAt'[u][j]
               PROVE  \E q \in Runs : Marks(q, u, j)'
    BY DEF OnRecord
  <2>1. CASE u = t /\ j = k
    BY <1>1, <2>1 DEF Marks
  <2>2. CASE u # t \/ j # k
    <3>1. mailed[u] # Muddled /\ mailed[u][j] # sentAt[u][j]
      BY <1>1, <1>3, <1>4, <1>5, <2>2
    <3>2. PICK q \in Runs : Marks(q, u, j)
      BY <3>1 DEF ThrottleOK, OnRecord
    <3>3. q # r
      BY <1>1, <3>2 DEF Marks
    <3>4. QED  BY <1>1, <3>2, <3>3 DEF Marks
  <2>3. QED  BY <2>1, <2>2
<1>8. FreshOK(r)'
  BY <1>1, <1>3, <1>4, <1>5 DEF FreshOK
<1>9. ASSUME NEW q \in Runs \ {r} PROVE FreshOK(q)'
  <2>1. CASE run[q].tenant = t
    <3>1. mailed[t] = Muddled
      BY <1>1, <2>1, Numbers DEF ThrottleOK, Alone
    <3>2. QED  BY <1>1, <1>5, <1>9, <2>1, <3>1, StaysFresh DEF ThrottleOK
  <2>2. CASE run[q].tenant # t
    BY <1>0, <1>1, <1>4, <1>9, <2>2, Holds, StaysFresh DEF ThrottleOK
  <2>3. QED  BY <2>1, <2>2
<1>10. QED  BY <1>6, <1>7, <1>8, <1>9 DEF ThrottleOK

LEMMA MarkFresh ==
  ASSUME IInv, ThrottleOK, NEW r \in Runs, RunMark(r)
  PROVE  ThrottleOK'
<1> DEFINE t == run[r].tenant
           k == run[r].kind
           stamps == [sentAt[t] EXCEPT ![k] = run[r].at]
<1>0. RunsOK /\ RowsOK
  BY DEF IInv
<1>1. /\ pc[r] = "mark" /\ pc'[r] = "settle" /\ run'[r].tenant = Nobody /\ mailed' = mailed
      /\ \A q \in Runs \ {r} : pc'[q] = pc[q] /\ run'[q] = run[q]
      /\ t \in Tenants
  BY <1>0, DoneRuns, Holds DEF RunMark
<1>2. k \in Kinds
  <2>1. SlotOK("mark", run[r])
    BY <1>0, <1>1 DEF RunsOK
  <2>2. QED  BY <2>1 DEF SlotOK
<1>3. sentAt' = [sentAt EXCEPT ![t] = stamps]
  BY DEF RunMark
<1>4. stamps[k] = run[r].at /\ \A j \in Kinds \ {k} : stamps[j] = sentAt[t][j]
  BY <1>0, <1>1, <1>2 DEF RowsOK, Stamps
<1> HIDE DEF stamps
<1>5. sentAt'[t] = stamps /\ \A u \in Tenants \ {t} : sentAt'[u] = sentAt[u]
  BY <1>0, <1>1, <1>3 DEF RowsOK
<1>6. ASSUME NEW q \in Runs \ {r}, run[q].tenant = t PROVE mailed[t] = Muddled
  BY <1>1, <1>6, Numbers DEF ThrottleOK, Alone
<1>7. Alone'
  <2> SUFFICES ASSUME NEW p \in Runs, NEW q \in Runs, p # q,
                      run'[p].tenant = run'[q].tenant, run'[q].tenant # Nobody
               PROVE  mailed'[run'[q].tenant] = Muddled
    BY DEF Alone
  <2>1. p # r /\ q # r
    BY <1>1
  <2>2. run'[p] = run[p] /\ run'[q] = run[q]
    BY <1>1, <2>1
  <2>3. QED  BY <1>1, <2>2 DEF ThrottleOK, Alone
<1>8. ASSUME NEW u \in Tenants PROVE OnRecord(u)'
  <2> SUFFICES ASSUME mailed[u] # Muddled, NEW j \in Kinds, mailed[u][j] # sentAt'[u][j]
               PROVE  \E q \in Runs : Marks(q, u, j)'
    BY <1>1 DEF OnRecord
  <2>1. CASE u = t
    <3>1. j # k
      BY <1>1, <1>4, <1>5, <2>1 DEF ThrottleOK, FreshOK
    <3>2. mailed[t][j] # sentAt[t][j]
      BY <1>4, <1>5, <2>1, <3>1
    <3>3. PICK q \in Runs : Marks(q, t, j)
      BY <1>1, <2>1, <3>2 DEF ThrottleOK, OnRecord
    <3>4. q # r /\ run[q].tenant = t
      BY <3>1, <3>3 DEF Marks
    <3>5. QED  BY <1>6, <2>1, <3>4
  <2>2. CASE u # t
    <3>1. mailed[u][j] # sentAt[u][j]
      BY <1>5, <2>2
    <3>2. PICK q \in Runs : Marks(q, u, j)
      BY <3>1 DEF ThrottleOK, OnRecord
    <3>3. q # r
      BY <2>2, <3>2 DEF Marks
    <3>4. QED  BY <1>1, <3>2, <3>3 DEF Marks
  <2>3. QED  BY <2>1, <2>2
<1>9. FreshOK(r)'
  BY <1>1 DEF FreshOK
<1>10. ASSUME NEW q \in Runs \ {r} PROVE FreshOK(q)'
  <2>1. CASE run[q].tenant = t
    BY <1>1, <1>6, <1>10, <2>1, StaysFresh DEF ThrottleOK
  <2>2. CASE run[q].tenant # t
    BY <1>0, <1>1, <1>5, <1>10, <2>2, Holds, StaysFresh DEF ThrottleOK
  <2>3. QED  BY <2>1, <2>2
<1>11. QED  BY <1>7, <1>8, <1>9, <1>10 DEF ThrottleOK

(* A save that puts other stamps back leaves no telling the row's e-mails. *)
LEMMA SaveFresh ==
  ASSUME IInv, ThrottleOK, NEW e \in Editors, NEW pol \in Policies, NEW st \in Statuses,
         SaveRow(e, pol, st)
  PROVE  ThrottleOK'
<1>0. RunsOK /\ RowsOK /\ RestOK
  BY DEF IInv
<1> DEFINE t == draft[e].tenant
<1>1. /\ pc' = pc /\ t \in Tenants
      /\ \A q \in Runs : run'[q] = run[q] \/ run'[q] = [run[q] EXCEPT !.unpaid = TRUE]
  BY <1>0, SaveRuns DEF Drafts
<1>2. \A q \in Runs : /\ run'[q].tenant = run[q].tenant /\ run'[q].at = run[q].at
                      /\ run'[q].kind = run[q].kind /\ run'[q].throttled = run[q].throttled
  BY <1>0, <1>1, SaveKeeps
<1>3. /\ \A u \in Tenants \ {t} : sentAt'[u] = sentAt[u] /\ mailed'[u] = mailed[u]
      /\ mailed'[t] = Muddled \/ (mailed'[t] = mailed[t] /\ sentAt'[t] = sentAt[t])
  BY <1>0, <1>1 DEF SaveRow, RowsOK, RestOK
<1> HIDE DEF t
<1>4. \A u \in Tenants : mailed'[u] = Muddled \/ (mailed'[u] = mailed[u] /\ sentAt'[u] = sentAt[u])
  BY <1>3
<1>5. Alone'
  <2> SUFFICES ASSUME NEW p \in Runs, NEW q \in Runs, p # q,
                      run[p].tenant = run[q].tenant, run[q].tenant # Nobody
               PROVE  mailed'[run[q].tenant] = Muddled
    BY <1>2 DEF Alone
  <2>1. run[q].tenant \in Tenants /\ mailed[run[q].tenant] = Muddled
    BY <1>0, Holds DEF ThrottleOK, Alone
  <2>2. QED  BY <1>4, <2>1
<1>6. ASSUME NEW u \in Tenants, NEW k \in Kinds, NEW q \in Runs, Marks(q, u, k)
      PROVE  Marks(q, u, k)'
  BY <1>1, <1>2, <1>6 DEF Marks
<1>7. \A u \in Tenants : OnRecord(u)'
  BY <1>4, <1>6 DEF ThrottleOK, OnRecord
<1>8. ASSUME NEW q \in Runs PROVE FreshOK(q)'
  <2>1. pc[q] \in {"judge", "send", "mark"} => run[q].tenant \in Tenants
    BY <1>0, Holds
  <2>2. QED  BY <1>1, <1>2, <1>4, <2>1 DEF ThrottleOK, FreshOK, Throttled
<1>9. QED  BY <1>5, <1>7, <1>8 DEF ThrottleOK

LEMMA ThrottleStep ==
  ASSUME IInv, ThrottleOK, [Next]_vars
  PROVE  ThrottleOK'
<1>0. RunsOK
  BY DEF IInv
<1>1. ASSUME NEW r \in Runs, Run(r) \/ RunDies(r) PROVE ThrottleOK'
  <2>1. CASE RunStart(r)
    BY <1>0, <2>1, StartRuns, LetGo DEF RunStart, rows
  <2>2. CASE RunEnd(r)
    BY <1>0, <2>2, FinishRuns, LetGo DEF RunEnd, rows
  <2>3. CASE RunDies(r)
    BY <1>0, <2>3, FinishRuns, LetGo DEF RunDies, rows
  <2>4. CASE RunSendFails(r)
    BY <1>0, <2>4, DoneRuns, LetGo DEF RunSendFails, rows
  <2>5. QED
    BY <1>1, <2>1, <2>2, <2>3, <2>4, SettleFresh, RefreshFresh, JudgeFresh, SendFresh, MarkFresh
       DEF Run
<1>2. CASE UNCHANGED <<pc, run, sentAt, mailed>>
  BY <1>2 DEF ThrottleOK, Alone, OnRecord, Marks, FreshOK
<1>3. QED
  BY <1>1, <1>2, SaveFresh
     DEF Next, Vendor, vars, rows, TopUp, Settle, UpdateSubscription, SetPaused, OpenRow, Tick

(* "nothing fires more than once per THROTTLE_HOURS": an e-mail of a kind   *)
(* that was recorded is not repeated within the throttle, by the stamps of  *)
(* the runs that sent them, however runs overlap, fail or die; what two     *)
(* runs handled at once, went out unrecorded, or lost its stamp to a        *)
(* whole-row save may be (notifications.py).                                *)
THEOREM EachNoticeOncePerThrottle == Spec => OncePerThrottle
<1>1. Init => ThrottleOK
  <2> SUFFICES ASSUME Init PROVE ThrottleOK
    OBVIOUS
  <2>1. \A r \in Runs : pc[r] = "idle" /\ run[r].tenant = Nobody
    BY DEF Init, NoRun, Looping
  <2>2. mailed = sentAt
    BY DEF Init
  <2>3. QED  BY <2>1, <2>2 DEF ThrottleOK, Alone, OnRecord, FreshOK
<1>2. ASSUME IInv, ThrottleOK, [Next]_vars, NEW r \in Runs, Sending(r),
             mailed[run[r].tenant] # Muddled,
             mailed[run[r].tenant][run[r].kind] # Never
      PROVE  run[r].at >= mailed[run[r].tenant][run[r].kind] + Throttle
  <2> DEFINE t == run[r].tenant
             k == run[r].kind
  <2>0. RunsOK /\ RowsOK /\ pc[r] = "send" /\ t # Nobody
    BY <1>2, Holds, Numbers DEF IInv, Sending
  <2>1. t \in Tenants /\ k \in Kinds /\ run[r].at \in Int
    BY <1>2, <2>0, SendingSends, SendRuns, Holds
  <2>2. \A q \in Runs : ~Marks(q, t, k)
    BY <1>2, <2>0 DEF ThrottleOK, Alone, Marks
  <2>3. mailed[t][k] = sentAt[t][k]
    BY <1>2, <2>1, <2>2 DEF ThrottleOK, OnRecord
  <2>4. ~Throttled(sentAt[t][k], run[r].at)
    BY <1>2, <2>0, <2>1 DEF ThrottleOK, FreshOK
  <2>5. sentAt[t][k] \in Int /\ Throttle \in Int
    BY <2>0, <2>1, NoticesAssumption DEF RowsOK, Stamps, Never, Instants
  <2>6. QED  BY <1>2, <2>1, <2>3, <2>4, <2>5 DEF Throttled
<1>3. IInv /\ ThrottleOK /\ [Next]_vars =>
        [\A r \in Runs :
           LET last == mailed[run[r].tenant]
           IN  Sending(r) /\ last # Muddled =>
                 last[run[r].kind] = Never \/ run[r].at >= last[run[r].kind] + Throttle]_vars
  BY <1>2
<1>4. QED  BY <1>1, <1>3, ThrottleStep, Invariant, PTL DEF Spec, OncePerThrottle
=============================================================================
