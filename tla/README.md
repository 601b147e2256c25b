# pos_control: a TLA+ model of the control centre

`pos_control` is the vendor's server for point-of-sale installs. Installs register with an invite,
hold a license key, and ask every five minutes whether they may run; the answer depends on a prepaid
wallet, a subscription that is charged from it, and a kill switch the vendor can pull. Money arrives
through the webhooks of Click and Payme, or by a manual top-up. Staff work through a JSON API and
through the Django admin.

The modules here model that server from its source, TLC checks them on small instances, and TLAPS
proves every safety property of a passing run for every instance; what TLC checks alone is liveness.
Paths below are relative to the repository.

## The system and its parts

Everything is a Django process: several gunicorn workers, one run of the `bill_subscriptions` command
a day, one database. In production the database is PostgreSQL (docker-compose.yaml) at READ COMMITTED:
a `select_for_update` holds its row to the end of the transaction, a plain read holds nothing, and a
`save()` without `update_fields` writes every column of the object, changed or not. There is no other
shared state and there are no background threads, so the hard behaviour is all of one kind: what two
requests, or a request and its own retry, do between a read and a commit.

| part | code | state | operations | hard behaviour | correct means |
|---|---|---|---|---|---|
| billing service | billing/services/billing.py | Tenant.balance, Payment rows, Subscription | settle, credit_balance, resolve, bind_plan | several callers race the same renewal and the same webhook; unlocked reads before the lock; crash between credit and settle | ledger and wallet agree, one charge per period, one credit per provider transaction, no debt, a paid install revives |
| heartbeat | licenses/views.py:344 | LicenseKey (read) | heartbeat | key, subscription and balance are read at different moments | a paid install is not answered EXPIRED, a suspended one is not billed |
| billing command | management/commands/bill_subscriptions.py | (same rows) | handle | runs may overlap; its lists of paused tenants and of subscriptions go stale | as above |
| renewal e-mails | billing/services/notifications.py | last_*_sent_at | send_warn/grace/lockout | send and mark are two steps; runs overlap, die and judge at an old instant | one e-mail of a kind per 20 hours, none that a renewal failed to whom the run charged, one at least to who is locked out |
| Payme | billing/services/payme.py | PaymeTransaction | Create, Perform, Cancel, Check | Payme retries; cancel is unlocked; crash between COMPLETED and the credit | performed means credited once; cancelled is final |
| Click | billing/services/click.py | ClickTransaction | Prepare, Complete | a Prepare may rewrite a row in use; crash between credit and flag | the credit is one that was reserved, and confirmed means credited |
| registration | licenses/views.py:160 | Tenant, InviteCode, LicenseKey | register | two first registrations have no row to lock | an invite opens one account; an invited customer gets a key |
| license and account controls | vendor_api/views.py, licenses/admin.py | LicenseKey.status | suspend, resume, revoke (one, many, account) | the Django admin lists keys and updates them without locks | revoked is final; an account whose keys were stopped stays dark |
| invites | tenants/models.py, tenants/admin.py | InviteCode | create, revoke, form, delete | forms save rows read earlier | spent or withdrawn, never both |
| subscription and tenant edits | vendor_api/views.py, billing/admin.py | Subscription, Tenant | PATCH, Django forms | the PATCH of a tenant and both forms write stale columns | they move no money and no time |
| plan changes and catalog | licenses/views.py:492, vendor_api/views.py:1137, billing/admin.py:57 | PlanChangeRequest, SubscriptionPlan | file, approve, reject, edit | filing reads without locks; two staff surfaces decide the same request; the catalog moves underneath | one request open per tenant, each decided once and on record; a yes binds the plan that was asked for, at terms it had while the request was open |
| idempotency, sessions, login | vendor_api/auth.py, auth_views.py | IdempotencyRecord, VendorSession, LoginAttempt | claim and replay, rotate, revoke | retries while the first request runs, logout during a refresh, parallel guesses | one effect per key; a spent token and a logged-out session are dead |
| row locks | all of the above | locks held by open transactions | | transactions take the same rows in different orders | which deadlocks there are, and who can be their victim |
| read-only API, audit log, unlock commands, settings | the rest | | | none of their own | |

Parts call each other directly: the webhooks and the top-up action call `credit_balance`, which calls
`settle`; the heartbeat calls `resolve`, which calls `settle`; the command calls `settle`. Everything
else is shared rows.

## Modules

| module | models | uses |
|---|---|---|
| `Wallet` | what the billing service promises about money, as an abstract contract | |
| `Billing` | the billing service, its three callers, the vendor's edits of the same rows | refines `Wallet` |
| `BillingProofs` | the invariants of `Billing`, its refinement of `Wallet` and its action property, proved | `Billing`, TLAPS |
| `Payme` | the Payme endpoint and its transaction table | the idempotent credit that `Billing` checks |
| `PaymeProofs` | performed is credited, cancelled is final, proved | `Payme`, TLAPS |
| `Click` | the two Click webhooks and their table | the idempotent credit that `Billing` checks |
| `ClickProofs` | confirmed is credited, and credited was reserved, proved | `Click`, TLAPS |
| `Licensing` | registration, invites, keys, controls by the API and by the Django admin | |
| `LicensingProofs` | revoked is final, the kill switch, one account per invite, proved | `Licensing`, TLAPS |
| `Approvals` | what the plan-change feature promises, without rows, races or forms | |
| `PlanChange` | plan-change requests, their deciders, the catalog and what a decision binds | refines `Approvals` |
| `PlanChangeProofs` | its invariants and the refinement, proved | `PlanChange`, TLAPS |
| `VendorApi` | how the vendor API admits a request: login, sessions, Idempotency-Keys | |
| `VendorApiProofs` | one effect per key, one pair per token, logout is final, guesses are limited, proved | `VendorApi`, TLAPS |
| `Notices` | runs of the billing command, the e-mails they send, and the edits of the same rows meanwhile | an abstract wallet of what `Billing` checks |
| `NoticesProofs` | one e-mail of a kind per throttle, nobody the run charged is dunned, proved | `Notices`, TLAPS |
| `LockOrder` | the row locks of every transaction on an account, in their order | |
| `LockProofs` | which deadlocks are impossible, proved | `LockOrder`, TLAPS |
| `MCBilling`, `MCClick`, `MCLicensing`, `MCPlanChange`, `MCNotices` | the constants of the TLC instances | |

### Steps and locks

One action is what a request does between two points where another request can change what it sees.
A transaction that locks a row before it reads it is one action, because nobody else can move in
between; an unlocked read whose result is used later is an action of its own, and what it read is kept
in the request's record (`req`), or in `draft` for an admin form. A worker that is killed loses its
request and its open transaction and keeps what it had committed (`Crash`).

Locks are therefore not state of these modules, except where holding one across steps is the point
(`VendorApi`: a refresh under way, a claimed key; `PlanChange`: an admin's approval). That leaves the
deadlocks the code's lock orders allow. PostgreSQL aborts one of the transactions, which is a crash to the other modules; which ones can
be aborted is the question of `LockOrder`.

### Billing

`balance`, `ledger`, `sub` and `paused` are Tenant.balance, the Payment rows, the Subscription and
"the key is suspended"; `reported` is the last answer to a heartbeat. A heartbeat is `HeartbeatStart`
(the key is read and the instant fixed), `ReadSub` (the cheap checks of settle on an unlocked row),
`SettleCharge` or `SettleNothing` (the locked transaction that checks again), and `Report` (the row is
read once more and judged as of the instant the request began). A credit is `CreditStart`,
`CreditReplayed` or `CreditUnseen` (the look for an existing row), `CreditCommit` or `CreditRefused`
(unique constraint, width of the balance column), and then the steps of settle with a fresh clock. The
command is `CronStart` (list of paused tenants), `CronQuery` (list of subscriptions), `CronPick` and
the same settle. `UpdateSubscription` and `SetPaused` are the vendor's locked edits; `OpenForm`,
`SaveTenant` and `SaveSubscription` are the edits that save a row read earlier.

A day is one unit of time. A price and a balance are small integers. Ledger rows of charges carry the
instant they were judged at and the period they bought, which the code keeps on the subscription and in
the note of the row. `suspended` and `paid` in a request record what it found; the first is the
heartbeat's own variable, the second is history.

### Payme and Click

Both abstract `credit_balance` to one step that applies an id once and refuses an amount above the cap
(for Payme as an error answer, for Click as an exception out of the view). Both have history variables:
what Payme was told (`told`), what Click reserved (`reserved`) and what it got a success for
(`confirmed`). Signatures, error codes and timestamps are left out, and so is a credit the database
refuses for the width of the balance column.

### Licensing

An account is an e-mail; its keys are a sequence of statuses. `Join` is a registration on an existing
account (its row stays locked), `Look` finds no account, which locks nothing, and `Redeem` or
`RedeemRefused` is the rest of that transaction: the unique e-mail decides the race, and the code's
attempt to join the winner's account runs in a transaction that is already broken, so it is a refusal.
The API's controls are one step each. The Django admin selects (`SelectKeys`, `SelectTenant`,
`OpenInvite`) and writes later (`UpdateKeys`, `SaveInvite`, `DeleteInvite`); `Admins = {}` switches it
off. `SuspendTenant` and `ResumeTenant` need an account and no more, as the API answers 200 with zero keys
affected. `opened` (accounts created by an invite) and `pulled` are history; `pulled` is "on" after an
account-wide suspension that left a key SUSPENDED, "vain" after one that found no key or revoked ones
only, and "off" once something was resumed. `KillSwitchHolds` speaks of "on" only, since a suspension in
vain leaves no SUSPENDED key for a new install to inherit from: that is the counterexample
`suspended_join`.

### Plan changes

`catalog`, `sub`, `requests` and `audit` are the SubscriptionPlan, Subscription and PlanChangeRequest
rows and the ControlEvent rows of decisions. Filing is four steps, as its queries are: `FileStart` (the
plan), `FileReadSub`, `FileReadExisting`, and `FileCreate` or `FileConflict`, where the partial unique
index decides. The API's `Approve` locks the request, its customer and its plan in one query and is one
step. The admin's action locks the request and the subscription but reads `requested_plan` without a lock
(billing/admin.py:62-71), so it is two: `ApproveRead`, which keeps the terms it read in `binding`, and
`ApproveCommit`, which binds them, or `ApproveCrash`. Between the two the rows it locked stop every other
decision and edit (`Held`, `SubHeld`), while `EditPlan` may move the plan, so older terms than the
catalog's may be bound. `Approvals` says just that: the terms of the moment, or those noted when the open
question was taken up. `Reject` locks what it reads on both surfaces, and takes a set because the admin's
action rejects a selection in one transaction. `UpdateSubscription`, `EditPlan` and the form of a request
(`OpenRequest`, `SaveRequest`) are the edits that happen meanwhile. `overruled` is history: the requests whose status a form has written. Every account has a
subscription here; the code creates a missing one at a decision.

### The vendor API

The module has one staff user behind one address. A token is the number of rotations its session had
when it was issued, and anyone presents any token at any time. `Locked` is the row lock that `RefreshRead`
takes and `RefreshRotate` releases; `Free` is the unique index on keys, which makes a second claim wait
for the transaction of the first. The view itself is a mutation that succeeds or refuses, and `logout`,
the one view that writes a row of this module. `effects`, `answers` and `guesses` are history.

### Notices

A policy is a price, a period, the days of warning and the grace; any edit may set any of the few the
instance has, a price of 0 among them. A run is `RunStart` (who is paused, what time it is, which
subscriptions are ACTIVE and which of these are free), then for each subscription `RunSettle`,
`RunRefresh`, `RunJudge`, `RunSend` or `RunSendFails`, and `RunMark`. `RunSettle` is settle() at the time
it is by then: its first check, before the lock, judges the row as it was listed (billing.py:80-83), so
one that was free then is left alone; under the lock it judges the row as it is. `RunRefresh` re-reads
the row, passes over a free one and keeps what the throttle will go by, and `RunJudge` reads it once
more, at the instant the run began. Meanwhile `UpdateSubscription` is any locked edit of the policy and
status (PATCH, an approval), and `OpenRow` and `SaveRow` are a save of the whole row as it was read
earlier: the Django form of a subscription (billing/admin.py:133), and register() when it binds a plan to
a subscription without one (licenses/views.py:291-294).

`mailed` is history: what really went out, which is not what `sentAt` says when a run dies between the
two. It is given up (`Muddled`) in the three cases that may repeat an e-mail, and the module says so
rather than hides it: two runs handle the row at once, an e-mail left without being recorded, or a
whole-row save put other stamps back. `unpaid` is history as well: settle() in this run neither charged
nor found the period running, or a save has taken the period back. Likewise a slow run may send a milder
e-mail after a harsher one and put an older stamp over a newer one.

### Lock order

Each transaction is the set of orders in which it may take its row locks, read off the code:
`select_for_update()` locks the joined rows of `select_related()` too, an UPDATE locks what it writes,
and a foreign key takes a key-share lock on the row it references when the transaction commits. Three
modes are enough to say which of them conflict. `Circle` is what PostgreSQL's detector looks for, and
`Abort` what it does.

## Checks

Each run instantiates one module with its `.cfg` and asks one question. Every property of a passing run
also has a mutant, an operator beside the one it replaces (`ChargeableAgain` for `Chargeable`, and so
on) that changes the model as a plausible bug would, and that the property rejects.

| run | shows |
|---|---|
| billing_workers | two workers, heartbeats, a retried credit, crashes and vendor edits on one tenant: `LedgerChain`, `NoDebt`, `CreditedOnce`, `ChargesDontOverlap`, `PaidHeartbeatIsActive`, every step is a step of `Wallet`, and an install that stays unsuspended and able to pay is answered ACTIVE from some point on (`Revives`) |
| billing_others | with a run of the command: `NoDebt` survives whole-row saves of stale rows, price changes, manual top-ups and credits refused at the width of the column |
| payme_workers | three workers on one transaction, some amounts over the cap: performed is credited once and exactly, cancelled is final for the row and, once Payme knows of it, for the money, and within the cap COMPLETED is credited in the end, through crashes |
| click_workers | success is never answered before the credit, the credit was reserved, and a payment Click keeps completing is flagged in the end |
| licensing_api | without the Django admin: an invite opens one account and none once withdrawn, an account whose keys the API suspended stays dark, a revoked key stays revoked |
| licensing_onboarding | an invited customer gets a key in the end, with the Django admin at work too |
| plan_changes | two workers file while the API decides in one step and an admin in two, the catalog changes in between and a form rewrites a request: one PENDING row, one decision each and on record, and every step but the form's is a step of `Approvals` |
| vendor_api | two workers log in, refresh, log out and repeat a mutation, with crashes: `OncePerKey`, `TokenSpentOnce`, `LoggedOutForGood`, the login limit is passed by no more than the workers there are, and a key whose claimant died settles in the end |
| notices | two runs overlap, die and meet a failing mail server while policies change and an old row is saved: no recorded e-mail is repeated within the throttle, nobody whose renewal the run charged or found paid is dunned, and who is locked out for good is told |
| locks | every deadlock has an API approval, a registration or a control of several keys in it, and no provider's credit is ever part of one |

### Where the code does not do what it says

These runs find a counterexample, one property each. The quotes are in PROJECT.json.

| run | what happens |
|---|---|
| tenant_form | a PATCH of a tenant that read the row before a top-up writes the old balance back |
| suspended_join | suspend an account that has no key yet, or revoke the suspended key it had: the next install comes up ACTIVE |

The stale saves have more consequences than `tenant_form`, each found by giving a passing
configuration one such session:

- `ChargesDontOverlap` fails with `Editors = {e1}`: a Django subscription form saved after a renewal
  puts the old `paid_through` back and the period is charged again.
- `RevokedIsFinal` fails with `Admins = {a1}`: a Django resume that listed a suspended key revives it
  after a revoke, because `QuerySet.update()` bypasses `LicenseKey.save()`.
- `KillSwitchHolds` fails with `Admins = {a1}`: the Django account-wide suspension misses a key issued
  between its listing and its update.
- `OneAccountPerInvite` and `WithdrawnOpensNothing` fail with `Admins = {a1}`: an invite form saved
  after a redemption clears `consumed_at`, and a deletion withdraws an invite already spent.

Others are plain in the code and need no run:

- A cancel of a Payme transaction reads it without a lock (payme.py:153-167). If a perform completes and
  credits it in between, the row says -1, "Cancelled (before perform)" (billing/models.py:316), while
  its money is in the wallet.
- The cancellation of a completed transaction changes its state only, so its money stays in the wallet
  although payme.py:9 calls it a roll-back.
- A Payme transaction above the credit cap is accepted and completed (payme.py:143), and every attempt to
  credit it is refused (billing.py:126-131), though payme.py:139-142 promises that a retry recovers it.
  `WithinCapIsCredited` is the promise that holds.
- The Django form of a plan-change request leaves `status` editable (billing/admin.py:43-46), so a
  request can be decided, or opened again, without the audit row that billing/models.py:152-153 promises
  either way. `DecidedOnRecord` holds for all other requests.
- A top-up of a suspended tenant settles, and so charges, at once: `credit_balance` does not look at the
  key.
- The command lists who is paused once, by the newest key, so it bills and e-mails a customer suspended
  after that, although bill_subscriptions.py:38-40 says "never bill or email a customer you've cut off".
- A subscription that was free when the command listed it, and costs something when its turn comes, is
  not charged however full its wallet is (billing.py:80-83). The refreshed row is then judged EXPIRED,
  and the customer gets the e-mail that the balance cannot cover it (notifications.py:119).
- A save of a whole subscription row puts its last_*_sent_at back (billing/admin.py:133,
  licenses/views.py:292-294), and the next run repeats an e-mail inside the 20 hours, although
  notifications.py:15 says that nothing fires more than once per THROTTLE_HOURS.
- A subscription charged for the first time between the command's refresh_from_db() and its resolve()
  may call for a warning whose date the refreshed row does not have: formatting None
  (notifications.py:78, or the subtraction at bill_subscriptions.py:81-83 for the grace) raises, and the
  run ends there, with those after it neither billed nor told. This is the first branch of `RunJudge`.
- The admin's approval of a plan change may bind terms the plan no longer has, as said above; the API's
  may not.

### Bounds

The races are between two requests, so two workers (three where TLC can afford them) and one or two ids
or e-mails are enough for each to happen; a third actor only repeats one. `MaxNow` is the number of
clock ticks: in `billing_workers` two ticks let a period of one day lapse into its day of grace and out
of it, or be renewed twice, so that a stale charge is judged before, at and after a boundary.
`billing_others` has one worker, one command run and one editor, two prices, one manual top-up (of three
amounts, one too large for the column), and no clock tick, since `NoDebt` does not speak of time: stale
saves alone make a renewal due again there. `MaxLedger` bounds manual top-ups only (provider credits are
bounded by their ids), and with it the money there is to charge. `MaxBalance` is small where the width
of the column is part of the question. `MaxInvites = 2` gives a customer an older and a newer invite,
`MaxKeys = 2` gives an account an install and one that joins. `licensing_api` has no clock
tick: invites expire in `licensing_onboarding`, whose property is about it; what `licensing_api` checks
does not depend on the time, and its theorems hold for any clock. What two tenants add (one provider
transaction offered to both wallets) is covered by the theorem `ProviderCreditsOnce`.

`plan_changes` has one tenant, two plans, two values of the terms, two workers, one admin, one form that
overrules at most one request (`MaxOverruled`), and two requests: enough for two filings to race, for a
plan to be repriced between the admin's read and its commit, for a form to open a request again beside a
newer one, and for an approval to meet a plan the subscription has left; the theorems cover any number of
each. `vendor_api` has two workers, one key, one session that can be rotated once, and two rows of failed
logins per instant; it checks no deadlock, because the bounds on these do stop it. `notices` has one tenant, two
runs, one editor and three policies (free, and priced with and without grace), and days, periods and
throttles of one tick, so that one tick leads from a renewal to its end, into the grace or the lockout,
and out of the throttle. `MaxTopUps = 1` lets the wallet fill at any moment, `MaxMishaps = 1` lets one
run die or one old row be saved at any moment, and `MaxBusy = 2` lets two of the runs and editors be at
work at once. The theorems cover any number of each.
`locks` has three workers, so that circles of three transactions exist as well as of two. Only one
account's rows are there: transactions of different accounts share plan rows alone, and of those only
what is in the module.

Plans, workers and keys that are interchangeable are declared so with SYMMETRY in `licensing_api` and
`plan_changes`; no run with a liveness property uses it.

### Fairness

`Billing` assumes that each install phones home again and again (its daemon does, every five minutes),
that a worker finishes the request it took, and that crashes do not strike the same step of every
request, which is strong fairness of the steps. Nothing is assumed of the vendor, of the command or of
the providers' first calls. `Payme` and `Click` assume that the provider repeats a call it got no
success for, which both protocols specify, and the same of crashes. `Licensing` assumes that a
customer in the wizard tries again by e-mail. `VendorApi` assumes that workers run the requests they
took and that not every request with a key dies at the same step; that clients repeat a request is a
premise of `KeySettles` and not assumed. `Notices` assumes that cron starts the command again and again
(OPERATIONS_GUIDE.md:111-118), that a run goes on until it ends or dies, and that the mail server does
not refuse a customer each time. `LockOrder` states no fairness and no liveness: PostgreSQL lets
transactions that share a row overtake one that waits to write it. No fairness is assumed of
administrators.

## Proofs

Every theorem below holds for any number of tenants, workers, keys, invites and so on, and for any
bounds; the assumption on the constants, named in each module, asks for distinct model values and natural
numbers and for little else. Each proof has the shape of an inductive invariant: the initial states
satisfy it, each action preserves it, one case per action, and it implies the property. Every invariant
was checked by TLC on the module's own run before it was proved. Where a theorem has a hypothesis beyond
the assumption, TLC has a counterexample without it.

### Billing

| theorem of `BillingProofs` | statement |
|---|---|
| `Typing` | `Spec => []TypeOK` |
| `WalletsStaySolvent` | `Spec => []NoDebt` |
| `ProviderCreditsOnce` | `Spec => []CreditedOnce` |
| `LedgerNeverDrifts` | `Editors = {} => (Spec => []LedgerChain)` |
| `OneChargePerPeriod` | `Editors = {} => (Spec => []ChargesDontOverlap)` |
| `RequestsAreFromThePast` | `Spec => []InFlight` |
| `BillingImplementsWallet` | `Editors = {} => (Spec => RefinesWallet)` |
| `PaidHeartbeatsAreActive` | `Editors = {} => (Spec => PaidHeartbeatIsActive)` |

`Editors = {}` is exactly what the counterexamples show to be needed: with a session that saves stale
rows, `LedgerChain`, `ChargesDontOverlap`, the refinement and `PaidHeartbeatIsActive` are false.
`LedgerChain` is inductive with the types. `NoDebt` needs that what an editor will write back was once a
balance and so not negative. `CreditedOnce` follows from the check of the unique constraint in the step
that posts. `ChargesDontOverlap` alone is not inductive, since nothing in it ties the ledger to the
subscription: the strengthening says that paid_through lies at or after the end of every period in the
ledger, so that a charge, which requires its instant to have reached paid_through, starts after all of
them.

The refinement maps the initial state to the initial state and each action to `Credit`, `Charge`,
`Renegotiate`, `Tick` or a stutter. Two steps need to know something of the request that takes them: a
charge is judged at an instant no later than the abstract clock, and a credit carries an amount between
one and the cap. That is `InFlight`, an invariant of its own; with it, one case per action.

`PaidHeartbeatIsActive` relates two steps of one request, settle() and the answer, with any steps of
others in between. Its invariant says of each heartbeat on its way from the one to the other that it is
not suspended and that the subscription, whatever its terms are by then, is paid beyond the instant the
request judges by; no step but a form takes that away.

### Payme and Click

| theorem of `PaymeProofs` | statement |
|---|---|
| `Typing` | `Spec => []TypeOK` |
| `PerformedIsPaid` | `Spec => []PerformedIsCredited` |
| `CancellationIsFinal` | `Spec => CancelIsFinal` |

| theorem of `ClickProofs` | statement |
|---|---|
| `Typing` | `Spec => []TypeOK` |
| `ConfirmationFollowsCredit` | `Spec => []ConfirmedIsCredited` |
| `CreditIsOfTheReserved` | `Spec => []CreditWasReserved` |

The invariant of Payme ties the row, the wallet and what Payme was told: a row keeps its amount, the
wallet holds that amount or nothing, "performed" was told of a credited transaction only and "cancelled"
of a cancelled one. A worker between two steps holds a row read earlier, so the invariant also says what
of it is still true (`HeldOK`): its amount is, its state may not be. For the cancellation, `CancelIsFinal`
follows step by step: the one save that could undo it writes a cancelled state itself, and a credit
comes only from a worker that was past its commit before.

In Click the row may be rewritten between the read and the credit. The invariant is that whatever is
prepared, held by a worker, or credited was reserved under the same id, and that a worker about to set
the flag has credited. `ClickAssumption` says that an offer is a tenant and an amount above zero.

### Licensing

| theorem of `LicensingProofs` | statement |
|---|---|
| `Typing` | `Spec => []TypeOK` |
| `RevokedLicenseIsFinal` | `Admins = {} => (Spec => RevokedIsFinal)` |
| `KillSwitch` | `Admins = {} => (Spec => []KillSwitchHolds)` |
| `OneInviteOneAccount` | `Admins = {} => (Spec => []OneAccountPerInvite)` |
| `WithdrawnInviteOpensNothing` | `Admins = {} => (Spec => []WithdrawnOpensNothing)` |

The Django admin writes what it read earlier without a lock, and with `Admins = {a1}` all four are false
(see above); the types hold with it. Two lemmas say what any step does: to the keys (`StepOfKeys`: a join,
a first key, a suspension, a control, an edit of the admin, or nothing) and to the invites
(`StepOfTickets`). The properties are then invariants of these kinds of step. The kill switch needs that
an account whose switch is "on" has a key, and that none is ACTIVE unless one was revoked: only then does
a key that joins find a SUSPENDED one to follow. One account per invite needs that an
unspent invite has opened none.

### Plan changes

| theorem of `PlanChangeProofs` | statement |
|---|---|
| `Typing` | `Spec => []TypeOK` |
| `EveryDecisionIsRecordedOnce` | `Spec => []DecidedOnRecord` |
| `AtMostOnePending` | `Spec => []OnePending` |
| `PlanChangesImplementApprovals` | `Spec => RefinesApprovals` |

The types and `OnePending` are inductive: an insert and a form meet the partial unique index. The record of
decisions and the refinement need one fact more, `Holding`: a request an admin has locked stays PENDING,
and no other admin has it, so the commit decides what the read found open. The refinement maps a request
to a question and an answer, and what an admin holds to the quote of the abstract vendor, and is one case
per action: an insert asks, the API answers at once, the admin takes a question up, answers it as quoted
or puts it down, a rejection of a selection answers several questions at once, and the rest stutters.

### Locks

| theorem of `LockProofs` | statement |
|---|---|
| `Typing` | `Spec => []TypeOK` |
| `DeadlocksNeedAnInverter` | `Spec => []CirclesNeedAnInverter` |
| `TopUpsAreNeverAborted` | `Spec => []CreditsAreNeverVictims` |

Every transaction but the inverters takes its rows upwards in one order (request, key, subscription,
tenant, plan) and takes a plan only in a mode that such transactions share. In a circle of them whoever
waits is blocked by one that waits for a higher row, and there are only five heights. A credit holds
nothing while it waits, so nobody waits for it.

### The vendor API

| theorem of `VendorApiProofs` | statement |
|---|---|
| `Typing` | `Spec => []TypeOK` |
| `OnePairPerToken` | `Spec => TokenSpentOnce` |
| `NoLoginComesBack` | `Spec => LoggedOutForGood` |
| `EachKeyTakesEffectOnce` | `Spec => []OncePerKey` |
| `GuessesStayLimited` | `Spec => []GuessesAreLimited` |

The invariant is the types, what each call carries at each step, and `RowsLocked`: a rotation under way is
alone with its row, and the row is still the one it read. The two action properties follow from it. For
the keys, `KeyOK` adds that at most one worker is inside the transaction that claimed a key, that no
record of the key is committed while it is, and that effect, record and answers agree ever after.

The login limit is about how many rows a window holds, so it is stated with cardinalities of sets of
rows, and the proof with how they grow by one row. In each window the vain guesses and the workers that
passed the check and have yet to fail are together no more than the limit and the other workers: a
worker passes only while the recorded failures are below the limit, and each guess is a recorded failure or
one under way. `VendorApiAssumption` asks for finitely many workers.

### Notices

| theorem of `NoticesProofs` | statement |
|---|---|
| `Typing` | `Spec => []TypeOK` |
| `EachNoticeOncePerThrottle` | `Spec => OncePerThrottle` |
| `NobodyPaidIsDunned` | `Spec => OnlyTheUnpaidAreDunned` |

The first needs three invariants together: two runs hold one row only once its e-mails are `Muddled`;
otherwise the stamps on the row are those of the e-mails that went out, but for the one a run is about to
record; and what a run read of the throttle still agrees with the row. The second follows from what
settle() leaves behind: if it charged or found the period running, the row is paid beyond the present and
so beyond the earlier instant the run judges by, and nothing but a whole-row save takes back what was
paid, which the run is then marked for. It supposes that no policy has a period of zero days, which only
the Django form lets through.

### What stays with TLC

Liveness: `Revives`, `WithinCapIsCredited`, `CompletedInTheEnd`, `Onboarded`, `KeySettles` and
`LockedOutIsTold`. They rest on fairness and so on ENABLED, which TLAPS does not reason about. And the two
counterexamples, which need no proof.

## What is left, in order

1. A contract of what a payment provider may rely on, between the endpoints and `Wallet`, with `Payme` and
   `Click` shown to implement it: today they share the credit step by construction.
2. Pure operators: the full verdict of resolve (days remaining, warn, grace), invite and heartbeat
   states, cursor pagination, each against a reference definition.
3. Changes of an e-mail or of an organization name, and a decision that creates a missing subscription.

Not modelled and not planned: the read-only views and serializers, the seed command of the catalog, the
audit rows of controls, key generation and the unlock commands, response signatures, settings and
deployment. They keep no state that another part decides by.
