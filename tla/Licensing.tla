------------------------------ MODULE Licensing ------------------------------
(***************************************************************************)
(* Accounts, invites and license keys: register() in licenses/views.py,    *)
(* the vendor API's controls of keys, accounts and invites, and the Django *)
(* admin, which edits the same rows without the locks the API takes.  An   *)
(* account is its e-mail; the plan, the organization name and the audit    *)
(* rows of each control are left out.                                      *)
(***************************************************************************)
EXTENDS Integers, Sequences, FiniteSets

CONSTANTS Emails,        \* customers' e-mail addresses
          Anyone,        \* intended_email = ''
          Clients,       \* registrations that may be in progress
          Admins,        \* Django admin requests that may be in progress
          Expiries,      \* values of expires_at an invite may have
          MaxNow,        \* bound: the clock stops here
          MaxInvites,    \* bound: invites ever issued
          MaxKeys        \* bound: keys an account may hold for more to be issued

ASSUME LicensingAssumption ==
  /\ Anyone \notin Emails
  /\ Expiries \subseteq Nat
  /\ MaxNow \in Nat /\ MaxInvites \in Nat /\ MaxKeys \in Nat \ {0}

VARIABLES accounts,      \* the e-mails that have a Tenant row
          keys,          \* the LicenseKey statuses of each account, oldest first
          invites,       \* the InviteCode rows, oldest first
          opened,        \* history: the accounts each invite created
          pulled,        \* history: the account was suspended ("on", or "vain" if it
                         \* had no key left to suspend), nothing resumed since ("off")
          now,           \* timezone.now()
          pc, req,       \* where each registration is, and what it asked for
          draft          \* what each admin request read and has not written yet

rows == <<accounts, keys, invites, opened, pulled>>
vars == <<rows, now, pc, req, draft>>

Status == {"ACTIVE", "SUSPENDED", "REVOKED"}
Invites == [to: Emails \union {Anyone}, expires: Expiries,
            consumed: BOOLEAN, revoked: BOOLEAN]
(* The row of an invite that was used, and of one that was withdrawn.       *)
Spent(inv) == [to |-> inv.to, expires |-> inv.expires, consumed |-> TRUE,
               revoked |-> inv.revoked]
Withdrawn(inv) == [to |-> inv.to, expires |-> inv.expires, consumed |-> inv.consumed,
                   revoked |-> TRUE]

KeyIds == Emails \X (1..MaxKeys)
Issued == {k \in KeyIds : k[2] <= Len(keys[k[1]])}

NoRequest == [email |-> Anyone, code |-> 0, now |-> 0]
NoDraft == [form |-> "none"]

TypeOK ==
  /\ accounts \in SUBSET Emails
  /\ \A e \in Emails : /\ keys[e] \in Seq(Status) /\ Len(keys[e]) <= MaxKeys
                       /\ e \notin accounts => keys[e] = <<>>
  /\ invites \in Seq(Invites) /\ Len(invites) <= MaxInvites
  /\ opened \in [1..MaxInvites -> SUBSET accounts]
  /\ pulled \in [Emails -> {"off", "vain", "on"}]
  /\ now \in 0..MaxNow
  /\ pc \in [Clients -> {"idle", "redeem"}]
  /\ \A c \in Clients : pc[c] = "redeem" =>
       req[c] \in [email: Emails, code: 0..MaxInvites, now: 0..MaxNow]
  /\ \A a \in Admins : draft[a] = NoDraft \/ draft[a].form \in {"keys", "invite"}

Init ==
  /\ accounts = {}
  /\ keys = [e \in Emails |-> <<>>]
  /\ invites = <<>>
  /\ opened = [i \in 1..MaxInvites |-> {}]
  /\ pulled = [e \in Emails |-> "off"]
  /\ now = 0
  /\ pc = [c \in Clients |-> "idle"]
  /\ req = [c \in Clients |-> NoRequest]
  /\ draft = [a \in Admins |-> NoDraft]

(* The same keys with every key of ks given the status st. *)
WithStatus(ks, st) ==
  [e \in Emails |-> [n \in DOMAIN keys[e] |-> IF <<e, n>> \in ks THEN st ELSE keys[e][n]]]

Owners(ks) == {k[1] : k \in ks}
KeysOf(e) == {k \in Issued : k[1] = e}
Having(ks, st) == {k \in ks : keys[k[1]][k[2]] = st}

(* Any key resumed ends the suspension of its account. *)
SetStatus(ks, st) ==
  /\ keys' = WithStatus(ks, st)
  /\ pulled' = [e \in Emails |-> IF st = "ACTIVE" /\ e \in Owners(ks) THEN "off" ELSE pulled[e]]

-----------------------------------------------------------------------------
(* register(): one transaction, entered by looking for the account.         *)

(* The request is answered; the mutant forgets what it asked for, and runs  *)
(* on.                                                                      *)
AnswerForgetful(c) == UNCHANGED pc /\ req' = [req EXCEPT ![c] = NoRequest]
Answer(c) ==
  /\ pc' = [pc EXCEPT ![c] = "idle"]
  /\ req' = [req EXCEPT ![c] = NoRequest]

(* The status of a key issued to an account that exists; the mutant forgets *)
(* the account's suspension.                                                *)
JoinsActive(e) == "ACTIVE"
JoinsAs(e) == IF Having(KeysOf(e), "SUSPENDED") # {} THEN "SUSPENDED" ELSE "ACTIVE"

Join(c, e) ==            \* the account exists and stays locked: no invite needed
  /\ pc[c] = "idle" /\ e \in accounts
  /\ Len(keys[e]) < MaxKeys
  /\ keys' = [keys EXCEPT ![e] = Append(@, JoinsAs(e))]
  /\ UNCHANGED <<accounts, invites, opened, pulled, now, pc, req, draft>>

Look(c, e, code) ==      \* no account yet: there is no row to lock
  /\ pc[c] = "idle" /\ e \notin accounts
  /\ pc' = [pc EXCEPT ![c] = "redeem"]
  /\ req' = [req EXCEPT ![c] = [email |-> e, code |-> code, now |-> now]]
  /\ UNCHANGED <<rows, now, draft>>

(* The invites that would let a request in.  The mutant forgets that an     *)
(* invite was spent.                                                        *)
OpenUnspent(i, r) == ~invites[i].revoked /\ r.now < invites[i].expires
Open(i, r) ==
  /\ ~invites[i].consumed /\ ~invites[i].revoked
  /\ r.now < invites[i].expires

(* The invite a code names must be open and addressed to nobody else.       *)
(* Without a code it is the oldest open one addressed to the e-mail; the    *)
(* mutant stops at the oldest, open or not.                                 *)
LocatedOldest(r) ==
  LET mine == {i \in DOMAIN invites : /\ ~invites[i].consumed /\ ~invites[i].revoked
                                      /\ invites[i].to = r.email}
  IN  IF r.code # 0
      THEN {i \in {r.code} \intersect DOMAIN invites :
              Open(i, r) /\ invites[i].to \in {Anyone, r.email}}
      ELSE {i \in mine : Open(i, r) /\ \A j \in mine : i <= j}

Located(r) ==
  LET mine == {i \in DOMAIN invites : Open(i, r) /\ invites[i].to = r.email}
  IN  IF r.code # 0
      THEN {i \in {r.code} \intersect DOMAIN invites :
              Open(i, r) /\ invites[i].to \in {Anyone, r.email}}
      ELSE {i \in mine : \A j \in mine : i <= j}

(* The invite is locked and, with the account, the first key and the        *)
(* subscription, spent in one commit.                                       *)
Redeem(c) == \E i \in Located(req[c]) :
  LET e == req[c].email
  IN  /\ pc[c] = "redeem"
      /\ e \notin accounts
      /\ accounts' = accounts \union {e}
      /\ keys' = [keys EXCEPT ![e] = <<"ACTIVE">>]
      /\ invites' = [invites EXCEPT ![i] = Spent(@)]
      /\ opened' = [opened EXCEPT ![i] = @ \union {e}]
      /\ Answer(c)
      /\ UNCHANGED <<pulled, now, draft>>

(* No open invite, or the account appeared since: the unique e-mail breaks  *)
(* the transaction, the query that should join the account fails with it,   *)
(* and everything is rolled back.                                           *)
RedeemRefused(c) ==
  /\ pc[c] = "redeem"
  /\ Located(req[c]) = {} \/ req[c].email \in accounts
  /\ Answer(c)
  /\ UNCHANGED <<rows, now, draft>>

Crash(c) ==              \* the worker dies inside the transaction
  /\ pc[c] = "redeem"
  /\ Answer(c)
  /\ UNCHANGED <<rows, now, draft>>

-----------------------------------------------------------------------------
(* The vendor API: every control locks the rows it judges, and a control of *)
(* keys the tenants they belong to.                                         *)

CreateTenant(e) ==
  /\ e \notin accounts
  /\ accounts' = accounts \union {e}
  /\ UNCHANGED <<keys, invites, opened, pulled, now, pc, req, draft>>

(* Answered 200 whatever keys there are to suspend or to resume. *)
SuspendTenant(e) ==
  /\ e \in accounts
  /\ keys' = WithStatus(Having(KeysOf(e), "ACTIVE"), "SUSPENDED")
  /\ pulled' = [pulled EXCEPT ![e] =
       IF Having(KeysOf(e), "REVOKED") = KeysOf(e) THEN "vain" ELSE "on"]
  /\ UNCHANGED <<accounts, invites, opened, now, pc, req, draft>>

ResumeTenant(e) ==
  /\ e \in accounts
  /\ keys' = WithStatus(Having(KeysOf(e), "SUSPENDED"), "ACTIVE")
  /\ pulled' = [pulled EXCEPT ![e] = "off"]
  /\ UNCHANGED <<accounts, invites, opened, now, pc, req, draft>>

(* Which change of status a control may make of a key; the mutant changes   *)
(* whatever is not there yet, retired keys included.                        *)
EligibleAlways(from, target) == from # target
Eligible(from, target) ==
  \/ target = "ACTIVE" /\ from = "SUSPENDED"
  \/ target = "SUSPENDED" /\ from = "ACTIVE"
  \/ target = "REVOKED" /\ from # "REVOKED"

ControlLicense(k, target) ==
  /\ Eligible(keys[k[1]][k[2]], target)
  /\ SetStatus({k}, target)
  /\ UNCHANGED <<accounts, invites, opened, now, pc, req, draft>>

ControlRefused(k, target) ==       \* 409, nothing changes
  /\ ~Eligible(keys[k[1]][k[2]], target)
  /\ UNCHANGED vars

BulkAction(ks, target) ==          \* every selected key is eligible, or none moves
  /\ target \in {"ACTIVE", "SUSPENDED"} /\ ks # {}
  /\ \A k \in ks : Eligible(keys[k[1]][k[2]], target)
  /\ SetStatus(ks, target)
  /\ UNCHANGED <<accounts, invites, opened, now, pc, req, draft>>

CreateInvite(to, expires) ==
  /\ Len(invites) < MaxInvites
  /\ now < expires
  /\ invites' = Append(invites,
       [to |-> to, expires |-> expires, consumed |-> FALSE, revoked |-> FALSE])
  /\ UNCHANGED <<accounts, keys, opened, pulled, now, pc, req, draft>>

(* The mutant does not look at the invite again under its lock. *)
RevocableAlways(inv) == ~inv.revoked
Revocable(inv) == ~inv.consumed /\ ~inv.revoked

RevokeInvite(i) ==
  /\ Revocable(invites[i])
  /\ invites' = [invites EXCEPT ![i] = Withdrawn(@)]
  /\ UNCHANGED <<accounts, keys, opened, pulled, now, pc, req, draft>>

-----------------------------------------------------------------------------
(* The Django admin reads first and writes later, with no lock in between.  *)

(* The keys a bulk action or the form of one key is about to change: those  *)
(* of a selection, or of a whole account, that had the status asked for.    *)
SelectKeys(a, ks, target) ==
  /\ draft[a] = NoDraft /\ ks # {}
  /\ \/ \A k \in ks : target # "REVOKED" /\ Eligible(keys[k[1]][k[2]], target)
     \/ Cardinality(ks) = 1 /\ \A k \in ks : keys[k[1]][k[2]] # "REVOKED"
  /\ draft' = [draft EXCEPT ![a] =
       [form |-> "keys", keys |-> ks, target |-> target, account |-> Anyone]]
  /\ UNCHANGED <<rows, now, pc, req>>

SelectTenant(a, e, target) ==
  LET ks == {k \in KeysOf(e) : Eligible(keys[e][k[2]], target)}
  IN  /\ draft[a] = NoDraft /\ ks # {} /\ target # "REVOKED"
      /\ draft' = [draft EXCEPT ![a] =
           [form |-> "keys", keys |-> ks, target |-> target, account |-> e]]
      /\ UNCHANGED <<rows, now, pc, req>>

UpdateKeys(a) ==
  LET d == draft[a]
  IN  /\ d.form = "keys"
      /\ keys' = WithStatus(d.keys, d.target)
      /\ pulled' = [e \in Emails |->
           IF d.target = "SUSPENDED" /\ e = d.account THEN "on"
           ELSE IF d.target = "ACTIVE" /\ e \in Owners(d.keys) THEN "off" ELSE pulled[e]]
      /\ draft' = [draft EXCEPT ![a] = NoDraft]
      /\ UNCHANGED <<accounts, invites, opened, now, pc, req>>

OpenInvite(a, i) ==
  /\ draft[a] = NoDraft
  /\ draft' = [draft EXCEPT ![a] = [form |-> "invite", invite |-> i, row |-> invites[i]]]
  /\ UNCHANGED <<rows, now, pc, req>>

SaveInvite(a, to, expires) ==      \* every column, consumed_at and revoked_at included
  /\ draft[a].form = "invite"
  /\ invites' = [invites EXCEPT ![draft[a].invite] =
       [to |-> to, expires |-> expires,
        consumed |-> draft[a].row.consumed, revoked |-> draft[a].row.revoked]]
  /\ draft' = [draft EXCEPT ![a] = NoDraft]
  /\ UNCHANGED <<accounts, keys, opened, pulled, now, pc, req>>

DeleteInvite(a) ==                 \* deleting an unused invite revokes it
  /\ draft[a].form = "invite"
  /\ Revocable(draft[a].row)
  /\ invites' = [invites EXCEPT ![draft[a].invite] = Withdrawn(@)]
  /\ draft' = [draft EXCEPT ![a] = NoDraft]
  /\ UNCHANGED <<accounts, keys, opened, pulled, now, pc, req>>

Tick ==
  /\ now < MaxNow
  /\ now' = now + 1
  /\ UNCHANGED <<rows, pc, req, draft>>

-----------------------------------------------------------------------------
Register(c, e) == Join(c, e) \/ \E code \in 0..MaxInvites : Look(c, e, code)

Finish(c) == Redeem(c) \/ RedeemRefused(c)

Vendor ==
  \/ \E e \in Emails : CreateTenant(e) \/ SuspendTenant(e) \/ ResumeTenant(e)
  \/ \E k \in Issued, target \in Status :
       ControlLicense(k, target) \/ ControlRefused(k, target)
  \/ \E ks \in SUBSET Issued, target \in Status : BulkAction(ks, target)
  \/ \E to \in Emails \union {Anyone}, expires \in Expiries : CreateInvite(to, expires)
  \/ \E i \in DOMAIN invites : RevokeInvite(i)

Django == \E a \in Admins :
  \/ \E ks \in SUBSET Issued, target \in Status : SelectKeys(a, ks, target)
  \/ \E e \in Emails, target \in Status : SelectTenant(a, e, target)
  \/ UpdateKeys(a)
  \/ \E i \in DOMAIN invites : OpenInvite(a, i)
  \/ \E to \in Emails \union {Anyone}, expires \in Expiries : SaveInvite(a, to, expires)
  \/ DeleteInvite(a)

Next ==
  \/ \E c \in Clients : Finish(c) \/ Crash(c) \/ \E e \in Emails : Register(c, e)
  \/ Vendor \/ Django \/ Tick

Spec == Init /\ [][Next]_vars

(* A customer in the setup wizard tries again after every refusal, by       *)
(* e-mail; a worker runs the registration it took, and not every one dies.  *)
Fairness ==
  /\ \A e \in Emails : SF_vars(\E c \in Clients : Join(c, e) \/ Look(c, e, 0))
  /\ \A c \in Clients, e \in Emails :
       SF_vars(req[c].email = e /\ req[c].code = 0 /\ Finish(c))
  /\ \A c \in Clients : WF_vars(Finish(c))

FairSpec == Spec /\ Fairness

-----------------------------------------------------------------------------
(* Properties                                                               *)

(* "A revoked license cannot be reactivated" (licenses/models.py:129): by   *)
(* no control of the key, of a selection or of its account.                 *)
RevokedIsFinal == [][\A k \in Issued :
  keys[k[1]][k[2]] = "REVOKED" => keys'[k[1]][k[2]] = "REVOKED"]_vars

(* Once a suspension stopped the keys an account had, none of its keys is   *)
(* ACTIVE, whatever installs register while the switch is pulled or         *)
(* afterwards, until something is resumed or a key is retired.              *)
Dark(e) == Having(KeysOf(e), "ACTIVE") = {}

KillSwitchHolds == \A e \in Emails :
  pulled[e] = "on" /\ Having(KeysOf(e), "REVOKED") = {} => Dark(e)

(* The same of every account the vendor suspended, its keys retired or not  *)
(* issued yet: "a new install joining an account that the vendor has        *)
(* SUSPENDED must NOT come up ACTIVE and dodge the kill switch"             *)
(* (licenses/views.py:274-276).                                             *)
SuspendedAccountStaysDark == \A e \in Emails : pulled[e] # "off" => Dark(e)

(* An invite is a "one-shot ticket" (tenants/models.py:60): it opens at     *)
(* most one account, whoever presents it by code or by e-mail at once.      *)
OneAccountPerInvite == \A i \in 1..MaxInvites : Cardinality(opened[i]) <= 1

(* An invite is spent or withdrawn, never both: the vendor who withdrew it  *)
(* knows that no account came of it.                                        *)
WithdrawnOpensNothing == \A i \in DOMAIN invites :
  invites[i].revoked => opened[i] = {}

(* A customer for whom some invite stays open holds a key in the end,       *)
(* through crashes, lost races for the e-mail and edits of the invites.     *)
Invited(e) == \E i \in DOMAIN invites :
  /\ invites[i].to = e /\ now < invites[i].expires
  /\ ~invites[i].consumed /\ ~invites[i].revoked

Onboarded == \A e \in Emails : <>[]Invited(e) => <>(keys[e] # <<>>)
=============================================================================
