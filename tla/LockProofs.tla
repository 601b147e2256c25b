----------------------------- MODULE LockProofs -----------------------------
(***************************************************************************)
(* Proofs about LockOrder.tla: for any number of workers, which deadlocks  *)
(* are possible and which are not.  The argument is an order of the rows:  *)
(* but for the inverters, a transaction takes them upwards, so those that  *)
(* wait for each other would have to climb for ever.                       *)
(***************************************************************************)
EXTENDS LockOrder, TLAPS

Wanted(w) == locks[w][taken[w] + 1]

Height(row) ==
  CASE row = "request" -> 1
    [] row \in {"key1", "key2"} -> 2
    [] row = "sub" -> 3
    [] row = "tenant" -> 4
    [] OTHER -> 5

Locks == [row: Rows, mode: {"update", "write", "share"}]

-----------------------------------------------------------------------------
(* A transaction that is no inverter takes its rows upwards, but for plan   *)
(* rows, which it only shares.                                              *)
Upwards(s) ==
  /\ Len(s) \in Nat /\ \A i \in 1..Len(s) : s[i] \in Locks
  /\ \A i \in 1..Len(s) : s[i].row = "plan" => s[i].mode = "share"
  /\ \A i, k \in 1..Len(s) :
       i < k /\ s[i].row # "plan" /\ s[k].row # "plan" => Height(s[i].row) < Height(s[k].row)

(* The same of orders spelled out, by their length. *)
Shared(l) == l \in Locks /\ (l.row = "plan" => l.mode = "share")
Below(a, b) == a.row = "plan" \/ b.row = "plan" \/ Height(a.row) < Height(b.row)

LEMMA OneUpwards ==
  ASSUME NEW a, Shared(a)
  PROVE  Upwards(<<a>>)
BY DEF Upwards, Shared

LEMMA TwoUpwards ==
  ASSUME NEW a, NEW b, Shared(a), Shared(b), Below(a, b)
  PROVE  Upwards(<<a, b>>)
<1> DEFINE s == <<a, b>>
<1>1. Len(s) = 2 /\ s[1] = a /\ s[2] = b
  OBVIOUS
<1> HIDE DEF s
<1> QED BY <1>1 DEF Upwards, Shared, Below, s

LEMMA ThreeUpwards ==
  ASSUME NEW a, NEW b, NEW c, Shared(a), Shared(b), Shared(c),
         Below(a, b), Below(a, c), Below(b, c)
  PROVE  Upwards(<<a, b, c>>)
<1> DEFINE s == <<a, b, c>>
<1>1. Len(s) = 3 /\ s[1] = a /\ s[2] = b /\ s[3] = c
  OBVIOUS
<1> HIDE DEF s
<1> QED BY <1>1 DEF Upwards, Shared, Below, s

LEMMA FourUpwards ==
  ASSUME NEW a, NEW b, NEW c, NEW d, Shared(a), Shared(b), Shared(c), Shared(d),
         Below(a, b), Below(a, c), Below(a, d), Below(b, c), Below(b, d), Below(c, d)
  PROVE  Upwards(<<a, b, c, d>>)
<1> DEFINE s == <<a, b, c, d>>
<1>1. Len(s) = 4 /\ s[1] = a /\ s[2] = b /\ s[3] = c /\ s[4] = d
  OBVIOUS
<1> HIDE DEF s
<1> QED BY <1>1 DEF Upwards, Shared, Below, s

LEMMA ProgramsGoUpwards ==
  ASSUME NEW j \in Jobs \ Inverters, NEW s \in Programs[j]
  PROVE  Upwards(s)
<1>0. /\ \A r \in Rows \ {"plan"} : Shared(Update(r)) /\ Shared(Write(r))
      /\ \A r \in Rows : Shared(Share(r))
  BY DEF Shared, Update, Write, Share, Locks, Rows
<1>r. \A r \in Rows : Update(r).row = r /\ Write(r).row = r /\ Share(r).row = r
  BY DEF Update, Write, Share
<1>h. /\ {"request", "key1", "sub", "tenant", "plan"} \subseteq Rows
      /\ Height("request") = 1 /\ Height("key1") = 2 /\ Height("sub") = 3 /\ Height("tenant") = 4
  BY DEF Height, Rows
<1>1. CASE j = "settle"
  BY <1>1, <1>0, <1>r, <1>h, TwoUpwards DEF Programs, Settle, Below
<1>2. CASE j = "credit"
  BY <1>2, <1>0, <1>h, OneUpwards DEF Programs, Credit
<1>3. CASE j = "patch"
  BY <1>3, <1>0, <1>r, <1>h, ThreeUpwards DEF Programs, PatchSubscription, Below
<1>4. CASE j = "adminApprove"
  <2>1. \/ s = <<Update("request"), Update("sub"), Share("tenant"), Share("plan")>>
        \/ s = <<Update("request"), Update("sub"), Share("plan"), Share("tenant")>>
    BY <1>4 DEF Programs, ApproveByAdmin, EitherOrder
  <2> QED BY <2>1, <1>0, <1>r, <1>h, FourUpwards DEF Below
<1>5. CASE j = "adminReject"
  BY <1>5, <1>0, <1>r, <1>h, TwoUpwards DEF Programs, RejectByAdmin, Below
<1>6. CASE j = "file"
  BY <1>6, <1>0, <1>r, <1>h, TwoUpwards DEF Programs, FileRequest, EitherOrder, Below
<1>7. CASE j = "controlLicense"
  BY <1>7, <1>0, <1>r, <1>h, TwoUpwards DEF Programs, ControlLicense, Below
<1>8. CASE j = "licenseForm"
  BY <1>8, <1>0, <1>r, <1>h, TwoUpwards DEF Programs, LicenseForm, Below
<1>9. CASE j = "heartbeat"
  BY <1>9, <1>0, <1>h, OneUpwards DEF Programs, RecordHeartbeat
<1> QED
  BY <1>1, <1>2, <1>3, <1>4, <1>5, <1>6, <1>7, <1>8, <1>9 DEF Jobs, Programs, Inverters

-----------------------------------------------------------------------------
(* Every reachable state is well typed: a worker is in one transaction, on  *)
(* one of its orders, and holds a part of it.                               *)
LEMMA OrdersAreFinite ==
  ASSUME NEW j \in Jobs, NEW s \in Programs[j]
  PROVE  Len(s) \in Nat
BY DEF Jobs, Programs, Settle, Credit, PatchSubscription, ApproveByApi, ApproveByAdmin,
       RejectByAdmin, FileRequest, Join, ControlTenant, ControlLicense, LicenseForm,
       BulkAction, SelectKeys, RecordHeartbeat, EitherOrder

THEOREM Typing == Spec => []TypeOK
<1>1. Init => TypeOK
  BY DEF Init, TypeOK
<1>2. TypeOK /\ [Next]_vars => TypeOK'
  <2> SUFFICES ASSUME TypeOK, [Next]_vars
               PROVE  TypeOK'
    OBVIOUS
  <2> DEFINE Orders == {<<>>} \union UNION {Programs[j] : j \in Jobs}
             Inside(u) == /\ locks[u] \in IF job[u] = "none" THEN {<<>>} ELSE Programs[job[u]]
                          /\ taken[u] \in 0..Len(locks[u])
  <2>0. "none" \notin Jobs
    BY DEF Jobs, Programs
  <2>1. ASSUME NEW w \in Workers, Begin(w)
        PROVE  TypeOK'
    <3>1. taken[w] = 0
      BY <2>1 DEF TypeOK, Begin
    <3>2. PICK j \in Jobs : \E order \in Programs[j] :
            job' = [job EXCEPT ![w] = j] /\ locks' = [locks EXCEPT ![w] = order]
      BY <2>1 DEF Begin
    <3>3. PICK order \in Programs[j] :
            job' = [job EXCEPT ![w] = j] /\ locks' = [locks EXCEPT ![w] = order]
      BY <3>2
    <3>4. Len(order) \in Nat
      BY OrdersAreFinite
    <3>5. job' \in [Workers -> Jobs \union {"none"}] /\ locks' \in [Workers -> Orders]
      BY <3>3 DEF TypeOK
    <3>6. taken' = taken
      BY <2>1 DEF Begin
    <3>7. ASSUME NEW u \in Workers
          PROVE  Inside(u)'
      <4>1. CASE u = w
        BY <4>1, <3>1, <3>3, <3>4, <3>6, <2>0 DEF TypeOK
      <4>2. CASE u # w
        BY <4>2, <3>3, <3>6 DEF TypeOK
      <4> QED BY <4>1, <4>2
    <3> QED BY <3>5, <3>6, <3>7 DEF TypeOK
  <2>2. ASSUME NEW w \in Workers, Take(w)
        PROVE  TypeOK'
    <3>1. Len(locks[w]) \in Nat
      BY <2>2, OrdersAreFinite DEF TypeOK, Take, Wants
    <3>2. taken[w] + 1 \in 0..Len(locks[w])
      BY <2>2, <3>1 DEF TypeOK, Take, Wants
    <3>3. taken' \in [Workers -> Nat] /\ taken'[w] = taken[w] + 1
          /\ \A u \in Workers \ {w} : taken'[u] = taken[u]
      BY <2>2 DEF TypeOK, Take
    <3> QED BY <2>2, <3>2, <3>3 DEF TypeOK, Take
  <2>3. ASSUME NEW w \in Workers, Release(w)
        PROVE  TypeOK'
    <3>1. job' \in [Workers -> Jobs \union {"none"}] /\ locks' \in [Workers -> Orders]
          /\ taken' \in [Workers -> Nat]
      BY <2>3 DEF TypeOK, Release
    <3>2. ASSUME NEW u \in Workers
          PROVE  Inside(u)'
      <4>1. CASE u = w
        <5>1. job'[u] = "none" /\ locks'[u] = <<>> /\ taken'[u] = 0
          BY <4>1, <2>3 DEF TypeOK, Release
        <5>2. Len(<<>>) = 0
          OBVIOUS
        <5> QED BY <5>1, <5>2
      <4>2. CASE u # w
        <5>1. job'[u] = job[u] /\ locks'[u] = locks[u] /\ taken'[u] = taken[u]
          BY <4>2, <2>3 DEF TypeOK, Release
        <5> QED BY <5>1 DEF TypeOK
      <4> QED BY <4>1, <4>2
    <3> QED BY <3>1, <3>2 DEF TypeOK
  <2>4. CASE UNCHANGED vars
    BY <2>4 DEF TypeOK, vars
  <2> QED BY <2>1, <2>2, <2>3, <2>4 DEF Next, End, Abort
<1> QED BY <1>1, <1>2, PTL DEF Spec

-----------------------------------------------------------------------------
(* A top-up is never the victim of a deadlock, however many workers there   *)
(* are: credit_balance() holds nothing while it waits.                      *)
THEOREM TopUpsAreNeverAborted == Spec => []CreditsAreNeverVictims
<1>1. TypeOK => CreditsAreNeverVictims
  <2> SUFFICES ASSUME TypeOK, NEW ws \in SUBSET Workers, Circle(ws),
                      NEW w \in ws, job[w] = "credit"
               PROVE  FALSE
    BY DEF CreditsAreNeverVictims
  <2>1. Len(locks[w]) = 1
    BY DEF TypeOK, Programs, Jobs, Credit
  <2>2. taken[w] = 0
    <3>1. Wants(w)
      BY DEF Circle, Blocks
    <3> QED BY <2>1, <3>1 DEF TypeOK, Wants
  <2> QED BY <2>2 DEF Circle, Blocks
<1> QED BY <1>1, Typing, PTL

(* In a circle without inverters, whoever blocks another wants a row that   *)
(* lies higher than the one it is waited for.                               *)
LEMMA BlockersWantHigher ==
  ASSUME TypeOK, NEW v \in Workers, NEW w \in Workers,
         job[v] \notin Inverters, job[w] \notin Inverters,
         Blocks(v, w), Wants(v), Wanted(v).row # "plan"
  PROVE  Wanted(w).row = "plan" \/ Height(Wanted(w).row) < Height(Wanted(v).row)
<1>1. job[v] \in Jobs \ Inverters /\ Upwards(locks[v])
  <2>1. job[v] # "none"
    BY DEF TypeOK, Wants
  <2> QED BY <2>1, ProgramsGoUpwards DEF TypeOK
<1>2. PICK i \in 1..taken[v] : Conflict(locks[v][i], Wanted(w))
  BY DEF Blocks, Wanted
<1>3. i \in 1..Len(locks[v]) /\ taken[v] + 1 \in 1..Len(locks[v]) /\ i < taken[v] + 1
  BY <1>1 DEF TypeOK, Wants, Upwards
<1>4. locks[v][i].row = Wanted(w).row
  BY <1>2 DEF Conflict
<1> QED BY <1>1, <1>3, <1>4 DEF Upwards, Wanted

LEMMA PlansAreNotWaitedFor ==
  ASSUME TypeOK, NEW v \in Workers, NEW w \in Workers,
         job[v] \notin Inverters, job[w] \notin Inverters, Blocks(v, w)
  PROVE  Wanted(w).row # "plan"
<1>1. job[w] \in Jobs \ Inverters /\ Upwards(locks[w])
  <2>1. job[w] # "none"
    BY DEF TypeOK, Wants, Blocks
  <2> QED BY <2>1, ProgramsGoUpwards DEF TypeOK
<1>2. PICK i \in 1..taken[v] : Conflict(locks[v][i], Wanted(w))
  BY DEF Blocks, Wanted
<1>3. job[v] \in Jobs \ Inverters /\ Upwards(locks[v])
  <2>1. job[v] # "none"
    BY <1>2 DEF TypeOK
  <2> QED BY <2>1, ProgramsGoUpwards DEF TypeOK
<1>4. i \in 1..Len(locks[v]) /\ taken[w] + 1 \in 1..Len(locks[w])
  BY <1>1, <1>3 DEF TypeOK, Blocks, Wants, Upwards
<1> QED BY <1>1, <1>2, <1>3, <1>4 DEF Upwards, Wanted, Conflict

(* Every deadlock, among any number of workers, has an inverter in it.      *)
THEOREM DeadlocksNeedAnInverter == Spec => []CirclesNeedAnInverter
<1>1. TypeOK => CirclesNeedAnInverter
  <2> SUFFICES ASSUME TypeOK, NEW ws \in SUBSET Workers, Circle(ws),
                      \A w \in ws : job[w] \notin Inverters
               PROVE  FALSE
    BY DEF CirclesNeedAnInverter
  <2> DEFINE h(w) == Height(Wanted(w).row)
  <2>1. \A w \in ws : Wants(w) /\ Wanted(w).row # "plan" /\ h(w) \in 1..5
    <3> SUFFICES ASSUME NEW w \in ws
                 PROVE  Wants(w) /\ Wanted(w).row # "plan" /\ h(w) \in 1..5
      OBVIOUS
    <3>1. PICK v \in ws : Blocks(v, w)
      BY DEF Circle
    <3>2. Wanted(w).row # "plan"
      BY <3>1, PlansAreNotWaitedFor
    <3> QED BY <3>1, <3>2 DEF Blocks, Height
  <2>2. \A w \in ws : \E v \in ws : h(w) < h(v)
    <3> SUFFICES ASSUME NEW w \in ws
                 PROVE  \E v \in ws : h(w) < h(v)
      OBVIOUS
    <3>1. PICK v \in ws : Blocks(v, w)
      BY DEF Circle
    <3> QED BY <2>1, <3>1, BlockersWantHigher
  <2> HIDE DEF h
  <2>3. ~\E w \in ws : h(w) = 5
    BY <2>1, <2>2
  <2>4. ~\E w \in ws : h(w) = 4
    BY <2>1, <2>2, <2>3
  <2>5. ~\E w \in ws : h(w) = 3
    BY <2>1, <2>2, <2>3, <2>4
  <2>6. ~\E w \in ws : h(w) = 2
    BY <2>1, <2>2, <2>3, <2>4, <2>5
  <2>7. ~\E w \in ws : h(w) = 1
    BY <2>1, <2>2, <2>3, <2>4, <2>5, <2>6
  <2> QED BY <2>1, <2>3, <2>4, <2>5, <2>6, <2>7 DEF Circle
<1> QED BY <1>1, Typing, PTL
=============================================================================
