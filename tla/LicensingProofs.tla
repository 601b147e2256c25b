--------------------------- MODULE LicensingProofs ---------------------------
(***************************************************************************)
(* Proofs about Licensing.tla, for any customers, clients, invites and     *)
(* bounds: its types, Django admin included; and, as long as the Django    *)
(* admin leaves the rows alone, that a revoked key stays revoked, that the *)
(* kill switch holds and that an invite opens one account, and none once   *)
(* it is withdrawn.                                                        *)
(***************************************************************************)
EXTENDS Licensing, SequenceTheorems, FiniteSetTheorems, TLAPS

Switch == {"off", "vain", "on"}
Requests == [email : Emails, code : 0..MaxInvites, now : 0..MaxNow]

KeysOK ==
  /\ accounts \subseteq Emails
  /\ keys \in [Emails -> Seq(Status)]
  /\ \A e \in Emails : Len(keys[e]) <= MaxKeys /\ (e \notin accounts => keys[e] = <<>>)
  /\ pulled \in [Emails -> Switch]

TicketsOK ==
  /\ invites \in Seq(Invites) /\ Len(invites) <= MaxInvites
  /\ opened \in [1..MaxInvites -> SUBSET accounts]

CallsOK ==
  /\ now \in 0..MaxNow
  /\ pc \in [Clients -> {"idle", "redeem"}] /\ DOMAIN req = Clients
  /\ \A c \in Clients : pc[c] = "redeem" => req[c] \in Requests

(* What an admin request read is still the key or the invite it names.      *)
DraftOK(d) ==
  \/ d = NoDraft
  \/ d.form = "keys" /\ d.target \in Status
  \/ d.form = "invite" /\ d.invite \in DOMAIN invites /\ d.row \in Invites

DraftsOK == DOMAIN draft = Admins /\ \A a \in Admins : DraftOK(draft[a])

IInv == KeysOK /\ TicketsOK /\ CallsOK /\ DraftsOK

LEMMA InvTypes == IInv => TypeOK
BY DEF IInv, TypeOK, KeysOK, Switch, TicketsOK, CallsOK, DraftsOK, DraftOK, Requests

LEMMA InitInv == Init => IInv
<1> SUFFICES ASSUME Init PROVE IInv
  OBVIOUS
<1>1. <<>> \in Seq(Status) /\ <<>> \in Seq(Invites) /\ Len(<<>>) = 0
  BY EmptySeq
<1>2. MaxInvites \in Nat /\ MaxKeys \in Nat /\ MaxNow \in Nat
  BY LicensingAssumption
<1>3. KeysOK
  BY <1>1, <1>2 DEF Init, KeysOK, Switch
<1>4. TicketsOK
  BY <1>1, <1>2 DEF Init, TicketsOK
<1>5. CallsOK
  BY <1>2 DEF Init, CallsOK
<1>6. DraftsOK
  BY DEF Init, DraftsOK, DraftOK
<1> QED BY <1>3, <1>4, <1>5, <1>6 DEF IInv

(***************************************************************************)
(* What the operations do to the keys.                                     *)
(***************************************************************************)

(* A change of status leaves every key where it is. *)
LEMMA StatusSet ==
  ASSUME KeysOK, NEW ks, NEW st \in Status, keys' = WithStatus(ks, st)
  PROVE  /\ keys' \in [Emails -> Seq(Status)]
         /\ \A e \in Emails : /\ Len(keys'[e]) = Len(keys[e])
                              /\ DOMAIN keys'[e] = DOMAIN keys[e]
                              /\ keys[e] = <<>> => keys'[e] = <<>>
         /\ \A e \in Emails : \A n \in DOMAIN keys[e] :
              keys'[e][n] = IF <<e, n>> \in ks THEN st ELSE keys[e][n]
<1>1. ASSUME NEW e \in Emails
      PROVE  /\ keys'[e] \in Seq(Status) /\ Len(keys'[e]) = Len(keys[e])
             /\ DOMAIN keys'[e] = DOMAIN keys[e]
             /\ keys[e] = <<>> => keys'[e] = <<>>
             /\ \A n \in DOMAIN keys[e] :
                  keys'[e][n] = IF <<e, n>> \in ks THEN st ELSE keys[e][n]
  <2>1. keys'[e] = [n \in DOMAIN keys[e] |-> IF <<e, n>> \in ks THEN st ELSE keys[e][n]]
    BY DEF WithStatus
  <2>2. keys[e] \in Seq(Status)
    BY DEF KeysOK
  <2>3. Len(keys[e]) \in Nat /\ keys[e] \in [1..Len(keys[e]) -> Status]
        /\ DOMAIN keys[e] = 1..Len(keys[e])
    BY <2>2, LenProperties
  <2>4. keys'[e] \in [1..Len(keys[e]) -> Status]
    BY <2>1, <2>3
  <2>5. keys'[e] \in Seq(Status)
    BY <2>3, <2>4, SeqDef
  <2>6. Len(keys'[e]) = Len(keys[e])
    BY <2>3, <2>4, <2>5, LenProperties
  <2>7. keys[e] = <<>> => keys'[e] = <<>>
    BY <2>5, <2>6, EmptySeq
  <2> QED BY <2>1, <2>3, <2>4, <2>5, <2>6, <2>7
<1>2. keys' = [e \in Emails |-> keys'[e]]
  BY DEF WithStatus
<1> QED BY <1>1, <1>2

LEMMA SetStatusKeys ==
  ASSUME KeysOK, NEW ks, NEW st \in Status, UNCHANGED accounts,
         keys' = WithStatus(ks, st), pulled' \in [Emails -> Switch]
  PROVE  KeysOK'
BY StatusSet DEF KeysOK

LEMMA SetStatusPulled ==
  ASSUME KeysOK, NEW ks, NEW st, SetStatus(ks, st)
  PROVE  /\ pulled' \in [Emails -> Switch]
         /\ \A e \in Emails : pulled'[e] = "on" => pulled[e] = "on"
         /\ st = "ACTIVE" => \A k \in ks : k[1] \in Emails => pulled'[k[1]] = "off"
BY DEF KeysOK, SetStatus, Owners, Switch

LEMMA IssuedKeys ==
  ASSUME KeysOK, NEW k \in Issued
  PROVE  /\ k[1] \in Emails /\ k[2] \in DOMAIN keys[k[1]] /\ k = <<k[1], k[2]>>
         /\ keys[k[1]][k[2]] \in Status
<1>1. k[1] \in Emails /\ k[2] \in 1..MaxKeys /\ k[2] <= Len(keys[k[1]]) /\ k = <<k[1], k[2]>>
  BY DEF Issued, KeyIds
<1>2. keys[k[1]] \in Seq(Status)
  BY <1>1 DEF KeysOK
<1>3. Len(keys[k[1]]) \in Nat /\ DOMAIN keys[k[1]] = 1..Len(keys[k[1]])
  BY <1>2, LenProperties
<1>4. k[2] \in 1..Len(keys[k[1]])
  BY <1>1, <1>3, LicensingAssumption
<1> QED BY <1>1, <1>2, <1>3, <1>4, ElementOfSeq

(***************************************************************************)
(* The steps, by what they do to the accounts and their keys.              *)
(***************************************************************************)

Joins(e) ==
  /\ e \in Emails /\ e \in accounts /\ Len(keys[e]) < MaxKeys
  /\ keys' = [keys EXCEPT ![e] = Append(@, JoinsAs(e))]
  /\ UNCHANGED <<accounts, pulled>>

Opens(e) ==
  /\ e \in Emails /\ e \notin accounts
  /\ accounts' = accounts \union {e}
  /\ keys' = [keys EXCEPT ![e] = <<"ACTIVE">>] \/ UNCHANGED keys
  /\ UNCHANGED pulled

Suspends(e) ==
  /\ e \in Emails
  /\ keys' = WithStatus(Having(KeysOf(e), "ACTIVE"), "SUSPENDED")
  /\ pulled' = [pulled EXCEPT ![e] =
       IF Having(KeysOf(e), "REVOKED") = KeysOf(e) THEN "vain" ELSE "on"]
  /\ UNCHANGED accounts

Resumes(e) ==
  /\ e \in Emails
  /\ keys' = WithStatus(Having(KeysOf(e), "SUSPENDED"), "ACTIVE")
  /\ pulled' = [pulled EXCEPT ![e] = "off"]
  /\ UNCHANGED accounts

Controls(ks, st) ==
  /\ ks \subseteq Issued /\ st \in Status
  /\ \A k \in ks : Eligible(keys[k[1]][k[2]], st)
  /\ SetStatus(ks, st)
  /\ UNCHANGED accounts

Edits(ks, st) ==
  /\ Admins # {}
  /\ st \in Status /\ keys' = WithStatus(ks, st)
  /\ pulled' \in [Emails -> Switch]
  /\ UNCHANGED accounts

KeyStep ==
  \/ \E e \in Emails : Joins(e) \/ Opens(e) \/ Suspends(e) \/ Resumes(e)
  \/ \E ks, st : Controls(ks, st) \/ Edits(ks, st)
  \/ UNCHANGED <<accounts, keys, pulled>>

LEMMA StepOfKeys ==
  ASSUME IInv, [Next]_vars
  PROVE  KeyStep
<1>1. ASSUME NEW c \in Clients, Finish(c) \/ Crash(c) PROVE KeyStep
  <2>1. CASE Redeem(c)
    <3>1. req[c].email \in Emails
      BY <2>1 DEF IInv, CallsOK, Redeem, Requests
    <3>2. Opens(req[c].email)
      BY <2>1, <3>1 DEF Redeem, Opens
    <3> QED BY <3>1, <3>2 DEF KeyStep
  <2>2. CASE RedeemRefused(c) \/ Crash(c)
    BY <2>2 DEF RedeemRefused, Crash, rows, KeyStep
  <2> QED BY <1>1, <2>1, <2>2 DEF Finish
<1>2. ASSUME NEW c \in Clients, NEW e \in Emails, Register(c, e) PROVE KeyStep
  BY <1>2 DEF Register, Join, Look, rows, KeyStep, Joins
<1>3. CASE Vendor
  <2>1. ASSUME NEW e \in Emails, CreateTenant(e) \/ SuspendTenant(e) PROVE KeyStep
    BY <2>1 DEF CreateTenant, SuspendTenant, KeyStep, Opens, Suspends
  <2>2. ASSUME NEW e \in Emails, ResumeTenant(e) PROVE KeyStep
    BY <2>2 DEF ResumeTenant, KeyStep, Resumes
  <2>3. ASSUME NEW k \in Issued, NEW target \in Status,
               ControlLicense(k, target) \/ ControlRefused(k, target)
        PROVE  KeyStep
    <3>1. CASE ControlLicense(k, target)
      <4>1. Controls({k}, target)
        BY <3>1 DEF ControlLicense, Controls
      <4> QED BY <4>1 DEF KeyStep
    <3>2. CASE ControlRefused(k, target)
      BY <3>2 DEF ControlRefused, vars, rows, KeyStep
    <3> QED BY <2>3, <3>1, <3>2
  <2>4. ASSUME NEW ks \in SUBSET Issued, NEW target \in Status, BulkAction(ks, target)
        PROVE  KeyStep
    <3>1. Controls(ks, target)
      BY <2>4 DEF BulkAction, Controls
    <3> QED BY <3>1 DEF KeyStep
  <2>5. ASSUME NEW to, NEW expires, CreateInvite(to, expires) PROVE KeyStep
    BY <2>5 DEF CreateInvite, KeyStep
  <2>6. ASSUME NEW i, RevokeInvite(i) PROVE KeyStep
    BY <2>6 DEF RevokeInvite, KeyStep
  <2> QED BY <1>3, <2>1, <2>2, <2>3, <2>4, <2>5, <2>6 DEF Vendor
<1>4. ASSUME NEW a \in Admins, UpdateKeys(a) PROVE KeyStep
  <2>1. draft[a].form = "keys" /\ DraftOK(draft[a])
    BY <1>4 DEF UpdateKeys, IInv, DraftsOK
  <2>2. draft[a].target \in Status
    BY <2>1 DEF DraftOK, NoDraft
  <2>3. Edits(draft[a].keys, draft[a].target)
    BY <1>4, <2>2 DEF UpdateKeys, Edits, IInv, KeysOK, Switch
  <2> QED BY <2>3 DEF KeyStep
<1>5. CASE Django
  BY <1>4, <1>5 DEF Django, SelectKeys, SelectTenant, OpenInvite, SaveInvite, DeleteInvite,
                    rows, KeyStep
<1>6. CASE Tick \/ UNCHANGED vars
  BY <1>6 DEF Tick, vars, rows, KeyStep
<1> QED BY <1>1, <1>2, <1>3, <1>5, <1>6 DEF Next

LEMMA JoinsKeys ==
  ASSUME KeysOK, NEW e \in Emails, Joins(e)
  PROVE  /\ keys'[e] \in Seq(Status) /\ Len(keys'[e]) = Len(keys[e]) + 1
         /\ keys'[e] # <<>>
         /\ DOMAIN keys[e] \subseteq DOMAIN keys'[e]
         /\ \A n \in DOMAIN keys'[e] :
              \/ n \in DOMAIN keys[e] /\ keys'[e][n] = keys[e][n]
              \/ keys'[e][n] = JoinsAs(e)
         /\ \A f \in Emails : f # e => keys'[f] = keys[f]
         /\ keys' \in [Emails -> Seq(Status)]
<1>1. keys[e] \in Seq(Status) /\ JoinsAs(e) \in Status
  BY DEF KeysOK, JoinsAs, Status
<1>2. keys'[e] = Append(keys[e], JoinsAs(e))
  BY DEF Joins, KeysOK
<1>3. /\ keys'[e] \in Seq(Status) /\ Len(keys'[e]) = Len(keys[e]) + 1
      /\ \A n \in 1..Len(keys[e]) : keys'[e][n] = keys[e][n]
      /\ keys'[e][Len(keys[e]) + 1] = JoinsAs(e)
  BY <1>1, <1>2, AppendProperties
<1>4. Len(keys[e]) \in Nat /\ DOMAIN keys[e] = 1..Len(keys[e])
      /\ DOMAIN keys'[e] = 1..(Len(keys[e]) + 1)
  BY <1>1, <1>3, LenProperties
<1>5. DOMAIN keys[e] \subseteq DOMAIN keys'[e]
  BY <1>4
<1>6. ASSUME NEW n \in DOMAIN keys'[e]
      PROVE  \/ n \in DOMAIN keys[e] /\ keys'[e][n] = keys[e][n]
             \/ keys'[e][n] = JoinsAs(e)
  BY <1>3, <1>4
<1>7. \A f \in Emails : f # e => keys'[f] = keys[f]
  BY DEF Joins, KeysOK
<1>8. keys' \in [Emails -> Seq(Status)]
  BY <1>2, <1>3 DEF Joins, KeysOK
<1>9. keys'[e] # <<>>
  BY <1>3, <1>4, EmptySeq
<1> QED BY <1>3, <1>5, <1>6, <1>7, <1>8, <1>9

LEMMA KeysTyped ==
  ASSUME IInv, [Next]_vars
  PROVE  KeysOK'
<1>0. KeysOK
  BY DEF IInv
<1>1. ASSUME NEW e \in Emails, Joins(e) PROVE KeysOK'
  <2>1. Len(keys[e]) \in Nat /\ Len(keys[e]) + 1 <= MaxKeys /\ e \in accounts /\ UNCHANGED <<accounts, pulled>>
    BY <1>0, <1>1, LenProperties, LicensingAssumption DEF Joins, KeysOK
  <2> QED BY <1>0, <1>1, <2>1, JoinsKeys DEF KeysOK
<1>2. ASSUME NEW e \in Emails, Opens(e) PROVE KeysOK'
  <2>1. <<"ACTIVE">> \in Seq(Status) /\ Len(<<"ACTIVE">>) = 1 /\ 1 <= MaxKeys
    BY LicensingAssumption DEF Status
  <2>2. /\ accounts' = accounts \union {e} /\ UNCHANGED pulled
        /\ keys' = [keys EXCEPT ![e] = <<"ACTIVE">>] \/ UNCHANGED keys
    BY <1>2 DEF Opens
  <2>3. CASE keys' = [keys EXCEPT ![e] = <<"ACTIVE">>]
    BY <1>0, <2>1, <2>2, <2>3 DEF KeysOK
  <2>4. CASE UNCHANGED keys
    BY <1>0, <2>2, <2>4 DEF KeysOK
  <2> QED BY <2>2, <2>3, <2>4
<1>3. ASSUME NEW e \in Emails, Suspends(e) \/ Resumes(e) PROVE KeysOK'
  <2>1. pulled' \in [Emails -> Switch]
    BY <1>0, <1>3 DEF Suspends, Resumes, KeysOK, Switch
  <2> QED BY <1>0, <1>3, <2>1, SetStatusKeys DEF Suspends, Resumes, Status
<1>4. ASSUME NEW ks, NEW st, Controls(ks, st) PROVE KeysOK'
  BY <1>0, <1>4, SetStatusKeys, SetStatusPulled DEF Controls, SetStatus
<1>5. ASSUME NEW ks, NEW st, Edits(ks, st) PROVE KeysOK'
  BY <1>0, <1>5, SetStatusKeys DEF Edits
<1>6. CASE UNCHANGED <<accounts, keys, pulled>>
  BY <1>0, <1>6 DEF KeysOK
<1> QED BY <1>1, <1>2, <1>3, <1>4, <1>5, <1>6, StepOfKeys DEF KeyStep

(***************************************************************************)
(* The steps, by what they do to the invites.                              *)
(***************************************************************************)

Spends(i, e) ==
  /\ i \in DOMAIN invites /\ ~invites[i].consumed /\ ~invites[i].revoked
  /\ e \in accounts'
  /\ invites' = [invites EXCEPT ![i] = Spent(@)]
  /\ opened' = [opened EXCEPT ![i] = @ \union {e}]

Issues(to, expires) ==
  /\ Len(invites) < MaxInvites /\ to \in Emails \union {Anyone} /\ expires \in Expiries
  /\ invites' = Append(invites,
       [to |-> to, expires |-> expires, consumed |-> FALSE, revoked |-> FALSE])
  /\ UNCHANGED opened

Withdraws(i) ==
  /\ i \in DOMAIN invites /\ (Revocable(invites[i]) \/ Admins # {})
  /\ invites' = [invites EXCEPT ![i] = Withdrawn(@)]
  /\ UNCHANGED opened

Overwrites(i, row) ==
  /\ Admins # {}
  /\ i \in DOMAIN invites /\ row \in Invites
  /\ invites' = [invites EXCEPT ![i] = row]
  /\ UNCHANGED opened

TicketStep ==
  \/ \E i \in DOMAIN invites : Withdraws(i) \/ \E e : Spends(i, e)
  \/ \E i, row : Overwrites(i, row)
  \/ \E to, expires : Issues(to, expires)
  \/ UNCHANGED <<invites, opened>>

LEMMA StepOfTickets ==
  ASSUME IInv, [Next]_vars
  PROVE  TicketStep
<1>1. ASSUME NEW c \in Clients, Finish(c) \/ Crash(c) PROVE TicketStep
  <2>1. CASE Redeem(c)
    <3>1. PICK i \in Located(req[c]) :
            /\ accounts' = accounts \union {req[c].email}
            /\ invites' = [invites EXCEPT ![i] = Spent(@)]
            /\ opened' = [opened EXCEPT ![i] = @ \union {req[c].email}]
      BY <2>1 DEF Redeem
    <3>2. i \in DOMAIN invites /\ Open(i, req[c])
      BY <3>1 DEF Located
    <3>3. Spends(i, req[c].email)
      BY <3>1, <3>2 DEF Spends, Open
    <3> QED BY <3>2, <3>3 DEF TicketStep
  <2>2. CASE RedeemRefused(c) \/ Crash(c)
    BY <2>2 DEF RedeemRefused, Crash, rows, TicketStep
  <2> QED BY <1>1, <2>1, <2>2 DEF Finish
<1>2. ASSUME NEW c \in Clients, NEW e \in Emails, Register(c, e) PROVE TicketStep
  BY <1>2 DEF Register, Join, Look, rows, TicketStep
<1>3. CASE Vendor
  <2>1. ASSUME NEW e \in Emails, CreateTenant(e) \/ SuspendTenant(e) \/ ResumeTenant(e)
        PROVE  TicketStep
    BY <2>1 DEF CreateTenant, SuspendTenant, ResumeTenant, TicketStep
  <2>2. ASSUME NEW k, NEW target, ControlLicense(k, target) \/ ControlRefused(k, target)
        PROVE  TicketStep
    BY <2>2 DEF ControlLicense, ControlRefused, vars, rows, TicketStep
  <2>3. ASSUME NEW ks, NEW target, BulkAction(ks, target) PROVE TicketStep
    BY <2>3 DEF BulkAction, TicketStep
  <2>4. ASSUME NEW to \in Emails \union {Anyone}, NEW expires \in Expiries,
               CreateInvite(to, expires)
        PROVE  TicketStep
    <3>1. Issues(to, expires)
      BY <2>4 DEF CreateInvite, Issues
    <3> QED BY <3>1 DEF TicketStep
  <2>5. ASSUME NEW i \in DOMAIN invites, RevokeInvite(i) PROVE TicketStep
    <3>1. Withdraws(i)
      BY <2>5 DEF RevokeInvite, Withdraws
    <3> QED BY <3>1 DEF TicketStep
  <2> QED BY <1>3, <2>1, <2>2, <2>3, <2>4, <2>5 DEF Vendor
<1>4. ASSUME NEW a \in Admins, draft[a].form = "invite"
      PROVE  draft[a].invite \in DOMAIN invites /\ draft[a].row \in Invites
  <2>1. DraftOK(draft[a])
    BY <1>4 DEF IInv, DraftsOK
  <2> QED BY <1>4, <2>1 DEF DraftOK, NoDraft
<1>5. ASSUME NEW a \in Admins, NEW to \in Emails \union {Anyone}, NEW expires \in Expiries,
             SaveInvite(a, to, expires)
      PROVE  TicketStep
  <2> DEFINE row == [to |-> to, expires |-> expires, consumed |-> draft[a].row.consumed,
                     revoked |-> draft[a].row.revoked]
  <2>1. draft[a].invite \in DOMAIN invites /\ draft[a].row \in Invites
    BY <1>4, <1>5 DEF SaveInvite
  <2>3. row \in Invites
    BY <2>1 DEF Invites
  <2>4. Overwrites(draft[a].invite, row)
    BY <1>5, <2>1, <2>3 DEF SaveInvite, Overwrites
  <2> QED BY <2>4 DEF TicketStep
<1>6. ASSUME NEW a \in Admins, DeleteInvite(a) PROVE TicketStep
  <2>1. draft[a].invite \in DOMAIN invites
    BY <1>4, <1>6 DEF DeleteInvite
  <2>2. Withdraws(draft[a].invite)
    BY <1>6, <2>1 DEF DeleteInvite, Withdraws
  <2> QED BY <2>1, <2>2 DEF TicketStep
<1>7. CASE Django
  BY <1>5, <1>6, <1>7 DEF Django, SelectKeys, SelectTenant, UpdateKeys, OpenInvite, rows, TicketStep
<1>8. CASE Tick \/ UNCHANGED vars
  BY <1>8 DEF Tick, vars, rows, TicketStep
<1> QED BY <1>1, <1>2, <1>3, <1>7, <1>8 DEF Next

(* An account once there stays. *)
LEMMA AccountsGrow ==
  ASSUME IInv, [Next]_vars
  PROVE  accounts \subseteq accounts'
BY StepOfKeys DEF KeyStep, Joins, Opens, Suspends, Resumes, Controls, Edits

(* Writing one invite leaves the others where they are. *)
LEMMA TicketWritten ==
  ASSUME TicketsOK, NEW i \in DOMAIN invites, NEW row \in Invites,
         invites' = [invites EXCEPT ![i] = row]
  PROVE  /\ invites' \in Seq(Invites) /\ Len(invites') = Len(invites)
         /\ DOMAIN invites' = DOMAIN invites /\ i \in 1..MaxInvites
         /\ invites'[i] = row
         /\ \A j \in DOMAIN invites : j # i => invites'[j] = invites[j]
<1>1. /\ invites \in Seq(Invites) /\ Len(invites) \in Nat /\ Len(invites) <= MaxInvites
      /\ DOMAIN invites = 1..Len(invites)
  BY LenProperties DEF TicketsOK
<1>2. i \in 1..Len(invites) /\ MaxInvites \in Nat
  BY <1>1, LicensingAssumption
<1>3. /\ invites' \in Seq(Invites) /\ Len(invites') = Len(invites)
      /\ \A j \in 1..Len(invites) : invites'[j] = IF j = i THEN row ELSE invites[j]
  BY <1>1, <1>2, ExceptSeq
<1> QED BY <1>1, <1>2, <1>3

LEMMA RowWritten ==
  ASSUME TicketsOK, NEW i \in DOMAIN invites
  PROVE  /\ invites[i] \in Invites
         /\ Spent(invites[i]) \in Invites /\ Withdrawn(invites[i]) \in Invites
<1>1. invites[i] \in Invites
  BY LenProperties, ElementOfSeq DEF TicketsOK
<1> QED BY <1>1 DEF Invites, Spent, Withdrawn

(* Where the invites and the accounts they opened stand after a step. *)
LEMMA SpendsTickets ==
  ASSUME TicketsOK, accounts \subseteq accounts', NEW i \in DOMAIN invites, NEW e, Spends(i, e)
  PROVE  /\ TicketsOK' /\ DOMAIN invites' = DOMAIN invites /\ i \in 1..MaxInvites
         /\ invites'[i] = Spent(invites[i]) /\ opened'[i] = opened[i] \union {e}
         /\ \A j \in DOMAIN invites : j # i => invites'[j] = invites[j]
         /\ \A j \in 1..MaxInvites : j # i => opened'[j] = opened[j]
<1>1. /\ invites' \in Seq(Invites) /\ Len(invites') = Len(invites)
      /\ DOMAIN invites' = DOMAIN invites /\ i \in 1..MaxInvites
      /\ invites'[i] = Spent(invites[i])
      /\ \A j \in DOMAIN invites : j # i => invites'[j] = invites[j]
  BY RowWritten, TicketWritten DEF Spends
<1>2. /\ opened'[i] = opened[i] \union {e}
      /\ \A j \in 1..MaxInvites : j # i => opened'[j] = opened[j]
      /\ opened' \in [1..MaxInvites -> SUBSET accounts']
  BY <1>1 DEF Spends, TicketsOK
<1> QED BY <1>1, <1>2 DEF TicketsOK

LEMMA WritesTickets ==
  ASSUME TicketsOK, accounts \subseteq accounts', NEW i \in DOMAIN invites, NEW row \in Invites,
         invites' = [invites EXCEPT ![i] = row], UNCHANGED opened
  PROVE  TicketsOK' /\ DOMAIN invites' = DOMAIN invites
<1>1. opened' \in [1..MaxInvites -> SUBSET accounts']
  BY DEF TicketsOK
<1> QED BY <1>1, TicketWritten DEF TicketsOK

LEMMA IssuesTickets ==
  ASSUME TicketsOK, accounts \subseteq accounts', NEW to, NEW expires, Issues(to, expires)
  PROVE  /\ TicketsOK' /\ DOMAIN invites \subseteq DOMAIN invites'
         /\ \A j \in DOMAIN invites' :
              \/ j \in DOMAIN invites /\ invites'[j] = invites[j]
              \/ j \notin DOMAIN invites /\ ~invites'[j].consumed /\ ~invites'[j].revoked
<1> DEFINE row == [to |-> to, expires |-> expires, consumed |-> FALSE, revoked |-> FALSE]
<1>1. row \in Invites /\ invites \in Seq(Invites) /\ invites' = Append(invites, row)
  BY DEF Issues, Invites, TicketsOK
<1>2. ~row.consumed /\ ~row.revoked
  OBVIOUS
<1> HIDE DEF row
<1>3. /\ invites' \in Seq(Invites) /\ Len(invites') = Len(invites) + 1
      /\ \A n \in 1..Len(invites) : invites'[n] = invites[n]
      /\ invites'[Len(invites) + 1] = row
  BY <1>1, AppendProperties
<1>4. /\ Len(invites) \in Nat /\ DOMAIN invites = 1..Len(invites)
      /\ DOMAIN invites' = 1..(Len(invites) + 1)
  BY <1>1, <1>3, LenProperties
<1>5. Len(invites') <= MaxInvites
  BY <1>3, <1>4, LicensingAssumption DEF Issues
<1>6. opened' \in [1..MaxInvites -> SUBSET accounts']
  BY DEF TicketsOK, Issues
<1>7. DOMAIN invites \subseteq DOMAIN invites'
  BY <1>4
<1>8. ASSUME NEW j \in DOMAIN invites'
      PROVE  \/ j \in DOMAIN invites /\ invites'[j] = invites[j]
             \/ j \notin DOMAIN invites /\ ~invites'[j].consumed /\ ~invites'[j].revoked
  <2>1. CASE j = Len(invites) + 1
    BY <1>2, <1>3, <1>4, <2>1
  <2>2. CASE j # Len(invites) + 1
    BY <1>3, <1>4, <2>2
  <2> QED BY <2>1, <2>2
<1> QED BY <1>3, <1>5, <1>6, <1>7, <1>8 DEF TicketsOK

LEMMA TicketsTyped ==
  ASSUME IInv, [Next]_vars
  PROVE  TicketsOK' /\ DOMAIN invites \subseteq DOMAIN invites'
<1>0. TicketsOK /\ accounts \subseteq accounts'
  BY AccountsGrow DEF IInv
<1>1. ASSUME NEW i \in DOMAIN invites, Withdraws(i)
      PROVE  TicketsOK' /\ DOMAIN invites \subseteq DOMAIN invites'
  BY <1>0, <1>1, RowWritten, WritesTickets DEF Withdraws
<1>2. ASSUME NEW i, NEW row, Overwrites(i, row)
      PROVE  TicketsOK' /\ DOMAIN invites \subseteq DOMAIN invites'
  BY <1>0, <1>2, WritesTickets DEF Overwrites
<1>3. CASE UNCHANGED <<invites, opened>>
  BY <1>0, <1>3 DEF TicketsOK
<1> QED BY <1>0, <1>1, <1>2, <1>3, SpendsTickets, IssuesTickets, StepOfTickets DEF TicketStep

LEMMA CallsTyped ==
  ASSUME IInv, [Next]_vars
  PROVE  CallsOK'
<1>0. CallsOK
  BY DEF IInv
<1>1. ASSUME NEW c \in Clients, NEW e \in Emails, NEW code \in 0..MaxInvites, Look(c, e, code)
      PROVE  CallsOK'
  <2> DEFINE r == [email |-> e, code |-> code, now |-> now]
  <2>1. r \in Requests
    BY <1>0 DEF Requests, CallsOK
  <2>2. /\ pc' = [pc EXCEPT ![c] = "redeem"] /\ req' = [req EXCEPT ![c] = r] /\ now' = now
    BY <1>1 DEF Look
  <2> HIDE DEF r
  <2> QED BY <1>0, <2>1, <2>2 DEF CallsOK
<1>2. ASSUME NEW c \in Clients, Answer(c), now' = now PROVE CallsOK'
  BY <1>0, <1>2 DEF CallsOK, Answer
<1>3. CASE UNCHANGED <<now, pc, req>>
  BY <1>0, <1>3 DEF CallsOK
<1>4. CASE Tick
  BY <1>0, <1>4, LicensingAssumption DEF CallsOK, Tick
<1>5. ASSUME NEW c \in Clients, Finish(c) \/ Crash(c) PROVE Answer(c) /\ now' = now
  BY <1>5 DEF Finish, Redeem, RedeemRefused, Crash
<1>6. ASSUME NEW c \in Clients, NEW e, Join(c, e) PROVE UNCHANGED <<now, pc, req>>
  BY <1>6 DEF Join
<1>7. CASE Vendor
  BY <1>7 DEF Vendor, CreateTenant, SuspendTenant, ResumeTenant, ControlLicense, ControlRefused,
              BulkAction, CreateInvite, RevokeInvite, vars, CallsOK, IInv
<1>8. CASE Django
  BY <1>8 DEF Django, SelectKeys, SelectTenant, UpdateKeys, OpenInvite, SaveInvite, DeleteInvite,
              CallsOK, IInv
<1>9. CASE UNCHANGED vars
  BY <1>3, <1>9 DEF vars
<1> QED BY <1>1, <1>2, <1>3, <1>4, <1>5, <1>6, <1>7, <1>8, <1>9 DEF Next, Register

LEMMA DraftsTyped ==
  ASSUME IInv, [Next]_vars
  PROVE  DraftsOK'
<1>0. DraftsOK /\ DOMAIN invites \subseteq DOMAIN invites'
  BY TicketsTyped DEF IInv
<1>1. ASSUME NEW d, DraftOK(d) PROVE DraftOK(d)'
  BY <1>0, <1>1 DEF DraftOK
<1>2. CASE UNCHANGED draft
  BY <1>0, <1>1, <1>2 DEF DraftsOK, DraftOK
<1>3. ASSUME NEW a \in Admins, NEW d, DraftOK(d), draft' = [draft EXCEPT ![a] = d]
      PROVE  DraftsOK'
  <2>1. \A b \in Admins : draft'[b] = d \/ draft'[b] = draft[b]
    BY <1>0, <1>3 DEF DraftsOK
  <2> QED BY <1>0, <1>3, <2>1 DEF DraftsOK, DraftOK
<1>4. DraftOK(NoDraft)
  BY DEF DraftOK
<1>5. CASE Django
  <2>1. ASSUME NEW a \in Admins, NEW ks, NEW target \in Status, SelectKeys(a, ks, target)
        PROVE  DraftsOK'
    <3> DEFINE d == [form |-> "keys", keys |-> ks, target |-> target, account |-> Anyone]
    <3>1. DraftOK(d)
      BY DEF DraftOK
    <3>2. draft' = [draft EXCEPT ![a] = d]
      BY <2>1 DEF SelectKeys
    <3> HIDE DEF d
    <3> QED BY <1>3, <3>1, <3>2
  <2>2. ASSUME NEW a \in Admins, NEW e, NEW target \in Status, SelectTenant(a, e, target)
        PROVE  DraftsOK'
    <3> DEFINE ks == {k \in KeysOf(e) : Eligible(keys[e][k[2]], target)}
               d == [form |-> "keys", keys |-> ks, target |-> target, account |-> e]
    <3>1. DraftOK(d)
      BY DEF DraftOK
    <3>2. draft' = [draft EXCEPT ![a] = d]
      BY <2>2 DEF SelectTenant
    <3> HIDE DEF d
    <3> QED BY <1>3, <3>1, <3>2
  <2>3. ASSUME NEW a \in Admins, NEW i \in DOMAIN invites, OpenInvite(a, i) PROVE DraftsOK'
    <3> DEFINE d == [form |-> "invite", invite |-> i, row |-> invites[i]]
    <3>1. DraftOK(d)
      BY RowWritten DEF DraftOK, IInv
    <3>2. draft' = [draft EXCEPT ![a] = d]
      BY <2>3 DEF OpenInvite
    <3> HIDE DEF d
    <3> QED BY <1>3, <3>1, <3>2
  <2>4. ASSUME NEW a \in Admins, draft' = [draft EXCEPT ![a] = NoDraft] PROVE DraftsOK'
    BY <1>3, <1>4, <2>4
  <2> QED BY <1>5, <2>1, <2>2, <2>3, <2>4 DEF Django, UpdateKeys, SaveInvite, DeleteInvite
<1>6. CASE Vendor
  BY <1>2, <1>6 DEF Vendor, CreateTenant, SuspendTenant, ResumeTenant, ControlLicense,
                    ControlRefused, BulkAction, CreateInvite, RevokeInvite, vars
<1>7. CASE Tick \/ UNCHANGED vars
  BY <1>2, <1>7 DEF Tick, vars
<1>8. ASSUME NEW c \in Clients, Finish(c) \/ Crash(c) \/ \E e \in Emails : Register(c, e)
      PROVE  UNCHANGED draft
  BY <1>8 DEF Finish, Redeem, RedeemRefused, Crash, Register, Join, Look
<1> QED BY <1>2, <1>5, <1>6, <1>7, <1>8 DEF Next

(* The inductive invariant of accounts, keys and invites. *)
THEOREM Invariant == Spec => []IInv
<1>1. ASSUME IInv, [Next]_vars PROVE IInv'
  BY <1>1, KeysTyped, TicketsTyped, CallsTyped, DraftsTyped DEF IInv
<1> QED BY <1>1, InitInv, PTL DEF Spec

(* The types: accounts, keys, invites, and what every registration and      *)
(* every request of the Django admin holds.                                 *)
THEOREM Typing == Spec => []TypeOK
BY Invariant, InvTypes, PTL

(***************************************************************************)
(* The controls of the vendor API, while no request of the Django admin    *)
(* writes what it read earlier.                                            *)
(***************************************************************************)

Retired(e) == \E n \in DOMAIN keys[e] : keys[e][n] = "REVOKED"
AllDark(e) == \A n \in DOMAIN keys[e] : keys[e][n] # "ACTIVE"

(* The keys of an account, as the properties speak of them.                 *)
LEMMA KeysOfAccount ==
  ASSUME KeysOK, NEW e \in Emails
  PROVE  /\ \A n : <<e, n>> \in Issued <=> n \in DOMAIN keys[e]
         /\ \A st : Having(KeysOf(e), st) = {} <=> \A n \in DOMAIN keys[e] : keys[e][n] # st
         /\ \A st : \A n \in DOMAIN keys[e] :
              <<e, n>> \in Having(KeysOf(e), st) <=> keys[e][n] = st
<1>1. Len(keys[e]) \in Nat /\ Len(keys[e]) <= MaxKeys /\ DOMAIN keys[e] = 1..Len(keys[e])
      /\ MaxKeys \in Nat
  BY LenProperties, LicensingAssumption DEF KeysOK
<1>2. ASSUME NEW n PROVE <<e, n>> \in Issued <=> n \in DOMAIN keys[e]
  <2>1. <<e, n>>[1] = e /\ <<e, n>>[2] = n
    OBVIOUS
  <2>2. n \in DOMAIN keys[e] <=> n \in 1..MaxKeys /\ n <= Len(keys[e])
    BY <1>1
  <2> QED BY <2>1, <2>2 DEF Issued, KeyIds
<1>3. ASSUME NEW k \in KeysOf(e) PROVE k = <<e, k[2]>> /\ k[2] \in DOMAIN keys[e]
  <2>1. k \in Issued /\ k[1] = e
    BY <1>3 DEF KeysOf
  <2> QED BY <2>1, IssuedKeys
<1>4. ASSUME NEW n \in DOMAIN keys[e], NEW st
      PROVE  <<e, n>> \in Having(KeysOf(e), st) <=> keys[e][n] = st
  BY <1>2 DEF Having, KeysOf
<1>5. ASSUME NEW st
      PROVE  Having(KeysOf(e), st) = {} <=> \A n \in DOMAIN keys[e] : keys[e][n] # st
  <2>1. ASSUME NEW k \in Having(KeysOf(e), st) PROVE \E n \in DOMAIN keys[e] : keys[e][n] = st
    BY <1>3 DEF Having
  <2> QED BY <1>4, <2>1
<1> QED BY <1>2, <1>4, <1>5

(* No control of the API touches a revoked key. *)
LEMMA RevokedStays ==
  ASSUME Admins = {}, IInv, [Next]_vars, NEW e \in Emails, NEW n \in DOMAIN keys[e],
         keys[e][n] = "REVOKED"
  PROVE  n \in DOMAIN keys'[e] /\ keys'[e][n] = "REVOKED"
<1>0. KeysOK
  BY DEF IInv
<1>1. ASSUME NEW f \in Emails, Joins(f) PROVE n \in DOMAIN keys'[e] /\ keys'[e][n] = "REVOKED"
  <2>1. CASE f # e
    BY <1>0, <1>1, <2>1, JoinsKeys
  <2>2. CASE f = e
    <3>1. keys[e] \in Seq(Status) /\ JoinsAs(e) \in Status /\ keys'[e] = Append(keys[e], JoinsAs(e))
      BY <1>0, <1>1, <2>2 DEF KeysOK, JoinsAs, Status, Joins
    <3>2. Len(keys[e]) \in Nat /\ n \in 1..Len(keys[e])
      BY <3>1, LenProperties
    <3> QED BY <3>1, <3>2, AppendProperties, <1>0, <1>1, <2>2, JoinsKeys
  <2> QED BY <2>1, <2>2
<1>2. ASSUME NEW f \in Emails, Opens(f) PROVE n \in DOMAIN keys'[e] /\ keys'[e][n] = "REVOKED"
  <2>1. e # f \/ UNCHANGED keys
    <3>1. ASSUME e = f PROVE FALSE
      <4>1. keys[e] = <<>> /\ DOMAIN keys[e] = {}
        BY <1>0, <1>2, <3>1 DEF Opens, KeysOK
      <4> QED BY <4>1
    <3> QED BY <3>1
  <2>2. keys'[e] = keys[e]
    BY <1>0, <1>2, <2>1 DEF Opens, KeysOK
  <2> QED BY <2>2
<1>3. ASSUME NEW f \in Emails, Suspends(f) \/ Resumes(f)
      PROVE  n \in DOMAIN keys'[e] /\ keys'[e][n] = "REVOKED"
  <2>1. /\ <<e, n>> \notin Having(KeysOf(f), "ACTIVE")
        /\ <<e, n>> \notin Having(KeysOf(f), "SUSPENDED")
    BY DEF Having
  <2> QED BY <1>0, <1>3, <2>1, StatusSet DEF Suspends, Resumes, Status
<1>4. ASSUME NEW ks, NEW st, Controls(ks, st)
      PROVE  n \in DOMAIN keys'[e] /\ keys'[e][n] = "REVOKED"
  <2>1. <<e, n>> \notin ks
    <3>1. ASSUME <<e, n>> \in ks PROVE FALSE
      <4>1. Eligible(keys[<<e, n>>[1]][<<e, n>>[2]], st)
        BY <1>4, <3>1 DEF Controls
      <4>2. Eligible("REVOKED", st)
        BY <4>1
      <4> QED BY <4>2 DEF Eligible
    <3> QED BY <3>1
  <2> QED BY <1>0, <1>4, <2>1, StatusSet DEF Controls, SetStatus
<1>5. CASE UNCHANGED <<accounts, keys, pulled>>
  BY <1>5
<1>6. ~\E ks, st : Edits(ks, st)
  BY DEF Edits
<1> QED BY <1>1, <1>2, <1>3, <1>4, <1>5, <1>6, StepOfKeys DEF KeyStep

(* "A revoked license cannot be reactivated": by no control of the vendor   *)
(* API, of one key, of a selection or of a whole account.                   *)
THEOREM RevokedLicenseIsFinal ==
  ASSUME Admins = {}
  PROVE  Spec => RevokedIsFinal
<1>1. ASSUME IInv, [Next]_vars
      PROVE  \A k \in Issued :
               keys[k[1]][k[2]] = "REVOKED" => keys'[k[1]][k[2]] = "REVOKED"
  BY <1>1, IssuedKeys, RevokedStays DEF IInv
<1>2. IInv /\ [Next]_vars =>
        [\A k \in Issued :
           keys[k[1]][k[2]] = "REVOKED" => keys'[k[1]][k[2]] = "REVOKED"]_vars
  BY <1>1
<1> QED BY <1>2, Invariant, PTL DEF Spec, RevokedIsFinal

(* The switch stopped keys of an account that has them still, and all its   *)
(* keys are dark unless one was retired, which lets a new install come up.  *)
SwitchOK == \A e \in Emails : pulled[e] = "on" => keys[e] # <<>> /\ (Retired(e) \/ AllDark(e))

LEMMA SwitchStep ==
  ASSUME Admins = {}, IInv, SwitchOK, [Next]_vars, NEW e \in Emails, pulled'[e] = "on"
  PROVE  keys'[e] # <<>> /\ (Retired(e)' \/ AllDark(e)')
<1>0. KeysOK /\ KeysOK'
  BY KeysTyped DEF IInv
<1>1. Retired(e) => Retired(e)'
  BY RevokedStays DEF Retired
<1>2. ASSUME UNCHANGED keys, UNCHANGED pulled
      PROVE  keys'[e] # <<>> /\ (Retired(e)' \/ AllDark(e)')
  BY <1>2 DEF SwitchOK, Retired, AllDark
<1>3. ASSUME NEW f \in Emails, Joins(f) PROVE keys'[e] # <<>> /\ (Retired(e)' \/ AllDark(e)')
  <2>0. pulled[e] = "on" /\ keys[e] # <<>> /\ (Retired(e) \/ AllDark(e))
    BY <1>3 DEF Joins, SwitchOK
  <2>1. CASE f # e
    BY <1>0, <1>1, <1>3, <2>0, <2>1, JoinsKeys DEF AllDark
  <2>2. CASE f = e /\ ~Retired(e)
    <3>1. DOMAIN keys[e] = 1..Len(keys[e]) /\ Len(keys[e]) \in Nat \ {0}
          /\ keys[e][1] \in Status
      BY <1>0, <2>0, LenProperties, EmptySeq, ElementOfSeq DEF KeysOK
    <3>2. keys[e][1] = "SUSPENDED" /\ 1 \in DOMAIN keys[e]
      BY <2>0, <2>2, <3>1 DEF Retired, AllDark, Status
    <3>3. <<e, 1>> \in Having(KeysOf(e), "SUSPENDED")
      BY <1>0, <3>2, KeysOfAccount
    <3>4. JoinsAs(e) = "SUSPENDED"
      BY <3>3 DEF JoinsAs
    <3> QED BY <1>0, <1>3, <2>0, <2>2, <3>4, JoinsKeys DEF AllDark
  <2>3. CASE f = e /\ Retired(e)
    BY <1>0, <1>1, <1>3, <2>3, JoinsKeys
  <2> QED BY <2>1, <2>2, <2>3
<1>4. ASSUME NEW f \in Emails, Opens(f) PROVE keys'[e] # <<>> /\ (Retired(e)' \/ AllDark(e)')
  <2>1. pulled[e] = "on" /\ keys[e] # <<>> /\ (Retired(e) \/ AllDark(e))
    BY <1>4 DEF Opens, SwitchOK
  <2>2. e # f
    BY <1>0, <1>4, <2>1 DEF Opens, KeysOK
  <2>3. keys'[e] = keys[e]
    BY <1>0, <1>4, <2>2 DEF Opens, KeysOK
  <2> QED BY <1>1, <2>1, <2>3 DEF AllDark
<1>5. ASSUME NEW f \in Emails, Suspends(f)
      PROVE  keys'[e] # <<>> /\ (Retired(e)' \/ AllDark(e)')
  <2> DEFINE on == Having(KeysOf(f), "ACTIVE")
  <2>1. /\ Len(keys'[e]) = Len(keys[e]) /\ DOMAIN keys'[e] = DOMAIN keys[e]
        /\ \A n \in DOMAIN keys[e] :
             keys'[e][n] = IF <<e, n>> \in on THEN "SUSPENDED" ELSE keys[e][n]
    BY <1>0, <1>5, StatusSet DEF Suspends, Status
  <2>2. keys'[e] # <<>> <=> keys[e] # <<>>
    BY <1>0, <2>1, EmptySeq DEF KeysOK
  <2>3. CASE e # f
    <3>1. pulled[e] = "on"
      BY <1>0, <1>5, <2>3 DEF Suspends, KeysOK
    <3>2. AllDark(e) => AllDark(e)'
      BY <2>1 DEF AllDark
    <3> QED BY <1>1, <2>2, <3>1, <3>2 DEF SwitchOK
  <2>4. CASE e = f
    <3>1. Having(KeysOf(e), "REVOKED") # KeysOf(e)
      BY <1>0, <1>5, <2>4 DEF Suspends, KeysOK
    <3>2. keys[e] # <<>>
      <4>1. PICK k \in KeysOf(e) : TRUE
        BY <3>1 DEF Having
      <4>2. k[1] = e /\ k[2] \in DOMAIN keys[k[1]]
        BY <1>0, <4>1, IssuedKeys DEF KeysOf
      <4> QED BY <4>2
    <3>3. AllDark(e)'
      <4>1. ASSUME NEW n \in DOMAIN keys[e] PROVE keys'[e][n] # "ACTIVE"
        <5>1. <<e, n>> \in on <=> keys[e][n] = "ACTIVE"
          BY <1>0, <2>4, KeysOfAccount
        <5> HIDE DEF on
        <5> QED BY <2>1, <5>1
      <4> QED BY <2>1, <4>1 DEF AllDark
    <3> QED BY <2>2, <3>2, <3>3
  <2> QED BY <2>3, <2>4
<1>6. ASSUME NEW ks, NEW st, Controls(ks, st)
      PROVE  keys'[e] # <<>> /\ (Retired(e)' \/ AllDark(e)')
  <2>1. /\ Len(keys'[e]) = Len(keys[e]) /\ DOMAIN keys'[e] = DOMAIN keys[e]
        /\ \A n \in DOMAIN keys[e] :
             keys'[e][n] = IF <<e, n>> \in ks THEN st ELSE keys[e][n]
    BY <1>0, <1>6, StatusSet DEF Controls, SetStatus
  <2>2. keys'[e] # <<>> <=> keys[e] # <<>>
    BY <1>0, <2>1, EmptySeq DEF KeysOK
  <2>3. pulled[e] = "on" /\ (st = "ACTIVE" => \A k \in ks : k[1] \in Emails => pulled'[k[1]] = "off")
    BY <1>0, <1>6, SetStatusPulled DEF Controls
  <2>4. ASSUME st = "ACTIVE", NEW n, <<e, n>> \in ks PROVE FALSE
    <3>1. <<e, n>>[1] = e
      OBVIOUS
    <3> QED BY <2>3, <2>4, <3>1
  <2>5. AllDark(e) => AllDark(e)'
    BY <2>1, <2>4 DEF AllDark
  <2> QED BY <1>1, <2>2, <2>3, <2>5 DEF SwitchOK
<1>8. ASSUME NEW f \in Emails, Resumes(f) PROVE keys'[e] # <<>> /\ (Retired(e)' \/ AllDark(e)')
  <2>1. f # e /\ pulled[e] = "on"
    BY <1>0, <1>8 DEF Resumes, KeysOK
  <2>2. /\ Len(keys'[e]) = Len(keys[e]) /\ DOMAIN keys'[e] = DOMAIN keys[e]
        /\ \A n \in DOMAIN keys[e] : keys'[e][n] =
             IF <<e, n>> \in Having(KeysOf(f), "SUSPENDED") THEN "ACTIVE" ELSE keys[e][n]
    BY <1>0, <1>8, StatusSet DEF Resumes, Status
  <2>3. \A n : <<e, n>> \notin Having(KeysOf(f), "SUSPENDED")
    BY <2>1 DEF Having, KeysOf
  <2>4. keys'[e] # <<>> <=> keys[e] # <<>>
    BY <1>0, <2>2, EmptySeq DEF KeysOK
  <2>5. AllDark(e) => AllDark(e)'
    BY <2>2, <2>3 DEF AllDark
  <2> QED BY <1>1, <2>1, <2>4, <2>5 DEF SwitchOK
<1>7. ~\E ks, st : Edits(ks, st)
  BY DEF Edits
<1> QED BY <1>2, <1>3, <1>4, <1>5, <1>6, <1>7, <1>8, StepOfKeys DEF KeyStep

(* Once a suspension stopped the keys of an account, and as long as none of *)
(* them is retired, none is active: an install that registers meanwhile     *)
(* joins suspended (register() in licenses/views.py), and only a resumption *)
(* ends it.                                                                 *)
THEOREM KillSwitch ==
  ASSUME Admins = {}
  PROVE  Spec => []KillSwitchHolds
<1>1. Init => SwitchOK
  BY DEF Init, SwitchOK
<1>2. IInv /\ SwitchOK /\ [Next]_vars => SwitchOK'
  BY SwitchStep DEF SwitchOK
<1>3. IInv /\ SwitchOK => KillSwitchHolds
  BY KeysOfAccount DEF IInv, SwitchOK, KillSwitchHolds, Retired, AllDark, Dark
<1> QED BY <1>1, <1>2, <1>3, Invariant, PTL DEF Spec

(* An invite that was not consumed opened nothing, one that was withdrawn   *)
(* was not consumed, and none opened two accounts.                          *)
TicketOK(i) ==
  /\ i \notin DOMAIN invites => opened[i] = {}
  /\ i \in DOMAIN invites => /\ ~invites[i].consumed => opened[i] = {}
                             /\ invites[i].revoked => opened[i] = {}
  /\ opened[i] = {} \/ \E e : opened[i] = {e}

OneShot == \A i \in 1..MaxInvites : TicketOK(i)

LEMMA OneShotStep ==
  ASSUME Admins = {}, IInv, OneShot, [Next]_vars
  PROVE  OneShot'
<1>0. TicketsOK /\ accounts \subseteq accounts'
  BY AccountsGrow DEF IInv
<1>1. ASSUME NEW i \in DOMAIN invites, NEW e, Spends(i, e) PROVE OneShot'
  <2>1. /\ DOMAIN invites' = DOMAIN invites /\ i \in 1..MaxInvites
        /\ invites'[i] = Spent(invites[i]) /\ opened'[i] = opened[i] \union {e}
        /\ \A j \in DOMAIN invites : j # i => invites'[j] = invites[j]
        /\ \A j \in 1..MaxInvites : j # i => opened'[j] = opened[j]
    BY <1>0, <1>1, SpendsTickets
  <2>2. opened'[i] = {e}
    BY <1>1, <2>1 DEF Spends, OneShot, TicketOK
  <2>3. invites'[i].consumed /\ ~invites'[i].revoked
    BY <1>1, <2>1 DEF Spends, Spent
  <2>4. ASSUME NEW j \in 1..MaxInvites PROVE TicketOK(j)'
    <3>1. CASE j = i
      BY <2>1, <2>2, <2>3, <3>1 DEF TicketOK
    <3>2. CASE j # i
      BY <2>1, <3>2 DEF OneShot, TicketOK
    <3> QED BY <3>1, <3>2
  <2> QED BY <2>4 DEF OneShot
<1>2. ASSUME NEW i \in DOMAIN invites, Withdraws(i) PROVE OneShot'
  <2>1. /\ Revocable(invites[i]) /\ UNCHANGED opened
        /\ DOMAIN invites' = DOMAIN invites /\ i \in 1..MaxInvites
        /\ invites'[i] = Withdrawn(invites[i])
        /\ \A j \in DOMAIN invites : j # i => invites'[j] = invites[j]
    BY <1>0, <1>2, RowWritten, TicketWritten DEF Withdraws
  <2>2. opened[i] = {}
    BY <2>1 DEF Revocable, OneShot, TicketOK
  <2>3. ASSUME NEW j \in 1..MaxInvites PROVE TicketOK(j)'
    <3>1. CASE j = i
      BY <2>1, <2>2, <3>1 DEF TicketOK
    <3>2. CASE j # i
      BY <2>1, <3>2 DEF OneShot, TicketOK
    <3> QED BY <3>1, <3>2
  <2> QED BY <2>3 DEF OneShot
<1>3. ASSUME NEW to, NEW expires, Issues(to, expires) PROVE OneShot'
  <2>1. /\ UNCHANGED opened /\ DOMAIN invites \subseteq DOMAIN invites'
        /\ \A j \in DOMAIN invites' :
             \/ j \in DOMAIN invites /\ invites'[j] = invites[j]
             \/ j \notin DOMAIN invites /\ ~invites'[j].consumed /\ ~invites'[j].revoked
    BY <1>0, <1>3, IssuesTickets DEF Issues
  <2> QED BY <2>1 DEF OneShot, TicketOK
<1>4. CASE UNCHANGED <<invites, opened>>
  BY <1>4 DEF OneShot, TicketOK
<1>5. ~\E i, row : Overwrites(i, row)
  BY DEF Overwrites
<1> QED BY <1>1, <1>2, <1>3, <1>4, <1>5, StepOfTickets DEF TicketStep

LEMMA OneShotAlways ==
  ASSUME Admins = {}
  PROVE  Spec => [](IInv /\ OneShot)
<1>1. Init => OneShot
  BY EmptySeq DEF Init, OneShot, TicketOK
<1>2. IInv /\ OneShot /\ [Next]_vars => OneShot'
  BY OneShotStep
<1> QED BY <1>1, <1>2, Invariant, PTL DEF Spec

(* An invite opens at most one account, however many clients present it by  *)
(* code or by e-mail at once: it is judged and spent under its row lock.    *)
THEOREM OneInviteOneAccount ==
  ASSUME Admins = {}
  PROVE  Spec => []OneAccountPerInvite
<1>1. OneShot => OneAccountPerInvite
  <2> SUFFICES ASSUME OneShot, NEW i \in 1..MaxInvites PROVE Cardinality(opened[i]) <= 1
    BY DEF OneAccountPerInvite
  <2>1. opened[i] = {} \/ \E e : opened[i] = {e}
    BY DEF OneShot, TicketOK
  <2>2. CASE opened[i] = {}
    BY <2>2, FS_EmptySet
  <2>3. ASSUME NEW e, opened[i] = {e} PROVE Cardinality(opened[i]) <= 1
    <3>1. Cardinality({e}) = 1
      BY FS_Singleton
    <3> QED BY <2>3, <3>1
  <2> QED BY <2>1, <2>2, <2>3
<1> QED BY <1>1, OneShotAlways, PTL

(* An invite the vendor withdrew opened no account and opens none: it is    *)
(* withdrawn and spent under the same lock, each after a look at the other. *)
THEOREM WithdrawnInviteOpensNothing ==
  ASSUME Admins = {}
  PROVE  Spec => []WithdrawnOpensNothing
<1>1. IInv /\ OneShot => WithdrawnOpensNothing
  <2> SUFFICES ASSUME IInv, OneShot, NEW i \in DOMAIN invites, invites[i].revoked
               PROVE  opened[i] = {}
    BY DEF WithdrawnOpensNothing
  <2>1. i \in 1..MaxInvites
    BY RowWritten, TicketWritten, LenProperties, LicensingAssumption DEF IInv, TicketsOK
  <2> QED BY <2>1 DEF OneShot, TicketOK
<1> QED BY <1>1, OneShotAlways, PTL
=============================================================================
