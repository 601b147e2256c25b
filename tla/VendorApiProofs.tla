--------------------------- MODULE VendorApiProofs ---------------------------
(***************************************************************************)
(* Proofs about VendorApi.tla, for any workers, keys, lifetimes and        *)
(* bounds: its types, what the row lock of a refresh protects, one effect  *)
(* per Idempotency-Key, and the limit of password guesses.                 *)
(***************************************************************************)
EXTENDS VendorApi, FiniteSetTheorems, TLAPS

Labels == {"idle", "password", "rotate", "lookup", "claim", "view"}

(* What a call carries, by where its worker is, over a table of these rows. *)
Carries(label, c, rows) ==
  /\ label \in {"idle", "password"} => c = NoCall
  /\ label \in {"rotate", "lookup", "claim", "view"} => c.row \in rows
  /\ label \in {"lookup", "claim", "view"} => c.body \in Bodies
  /\ label \in {"lookup", "claim"} => c.key \in Keys
  /\ label = "view" => c.key \in Keys \union {NoKey}

CallOK(w) == Carries(pc[w], call[w], DOMAIN sessions)

(* The worker that rotates a session holds its row: alone, and the row is   *)
(* what it was when it was read.                                            *)
Rotating(w, i) == pc[w] = "rotate" /\ call[w].row = i

Holds(w) ==
  pc[w] = "rotate" =>
    /\ sessions[call[w].row].gen = call[w].gen /\ call[w].gen \in 0..(MaxGen - 1)
    /\ ~sessions[call[w].row].revoked

RowsLocked ==
  /\ \A w \in Workers : Holds(w)
  /\ \A v, w \in Workers, i \in DOMAIN sessions : Rotating(v, i) /\ Rotating(w, i) => v = w

RecordRows == {NoRecord} \union [body: Bodies, outcome: Outcomes \union {"none"}]
AnswerRows == [body: Bodies, outcome: Outcomes \union {"conflict", "in_progress"}]

TablesOK ==
  /\ sessions \in Seq(Sessions)
  /\ records \in [Keys -> RecordRows]
  /\ failures \in [0..MaxNow -> Nat] /\ guesses \in [0..MaxNow -> Nat]
  /\ now \in 0..MaxNow
  /\ effects \in [Keys -> Nat]
  /\ answers \in [Keys -> SUBSET AnswerRows]

CallsOK ==
  /\ pc \in [Workers -> Labels] /\ DOMAIN call = Workers
  /\ \A w \in Workers : CallOK(w)

Inv == TablesOK /\ CallsOK /\ RowsLocked

LEMMA Bounds ==
  /\ AccessTime \in Nat /\ RefreshTime \in Nat /\ MaxGen \in Nat /\ MaxNow \in Nat
  /\ NoKey \notin Keys
BY VendorApiAssumption

LEMMA ExceptTyped ==
  ASSUME NEW S, NEW s \in Seq(S), NEW i \in DOMAIN s, NEW e \in S
  PROVE  [s EXCEPT ![i] = e] \in Seq(S)
OBVIOUS

(* A session with a new pair of tokens, and one that is logged out. *)
LEMMA SessionTyped ==
  ASSUME NEW r \in Sessions, now \in Nat
  PROVE  /\ r.gen \in 0..(MaxGen - 1) => Rotated(r) \in Sessions
         /\ Rotated(r).revoked = r.revoked
         /\ LoggedOut(r) \in Sessions /\ LoggedOut(r).revoked /\ LoggedOut(r).gen = r.gen
<1>1. ASSUME r.gen \in 0..(MaxGen - 1)
      PROVE  Rotated(r) \in Sessions
  <2>1. r.gen + 1 \in 0..MaxGen /\ now + AccessTime \in Nat /\ now + RefreshTime \in Nat
    BY <1>1, Bounds
  <2>2. r.revoked \in BOOLEAN
    BY DEF Sessions
  <2> QED BY <2>1, <2>2 DEF Sessions, Rotated
<1>2. Rotated(r).revoked = r.revoked
  BY Zenon DEF Rotated
<1>3. LoggedOut(r) \in Sessions
  BY DEF Sessions, LoggedOut
<1>4. LoggedOut(r).revoked /\ LoggedOut(r).gen = r.gen
  BY DEF Sessions, LoggedOut
<1> QED BY <1>1, <1>2, <1>3, <1>4

LEMMA Counted ==
  ASSUME NEW rows \in [0..MaxNow -> Nat], NEW n \in 0..MaxNow
  PROVE  [rows EXCEPT ![n] = rows[n] + 1] \in [0..MaxNow -> Nat]
OBVIOUS

LEMMA InvIsTyped == Inv => TypeOK
BY DEF Inv, TablesOK, CallsOK, CallOK, Carries, TypeOK, Labels, RecordRows, AnswerRows

LEMMA Moves ==
  ASSUME CallsOK, NEW w \in Workers, NEW label \in Labels, NEW c, Goto(w, label, c)
  PROVE  /\ pc' \in [Workers -> Labels] /\ DOMAIN call' = Workers
         /\ pc'[w] = label /\ call'[w] = c
         /\ \A u \in Workers \ {w} : pc'[u] = pc[u] /\ call'[u] = call[u]
BY DEF CallsOK, Goto

-----------------------------------------------------------------------------
(* Types of the tables *)
LEMMA TablesStayTyped ==
  ASSUME Inv, [Next]_vars
  PROVE  TablesOK'
<1>0. TablesOK
  BY DEF Inv
<1>1. CASE UNCHANGED <<sessions, records, failures, now, history>>
  BY <1>0, <1>1 DEF TablesOK, history
<1>2. ASSUME NEW w \in Workers, Login(w)
      PROVE  TablesOK'
  <2>1. CASE LoginRefused(w)
    <3>1. failures' = [failures EXCEPT ![now] = failures[now] + 1]
          /\ UNCHANGED <<sessions, records, guesses, now, effects, answers>>
      BY <2>1 DEF LoginRefused, history
    <3>2. failures' \in [0..MaxNow -> Nat]
      BY <1>0, <3>1, Counted DEF TablesOK
    <3> QED BY <1>0, <3>1, <3>2 DEF TablesOK
  <2>2. CASE LoginStart(w)
    BY <1>1, <2>2 DEF LoginStart, db, history
  <2>3. CASE LoginWrong(w)
    <3>1. /\ failures' = [failures EXCEPT ![now] = failures[now] + 1]
          /\ guesses' = [guesses EXCEPT ![now] = guesses[now] + 1]
          /\ UNCHANGED <<sessions, records, now, effects, answers>>
      BY <2>3 DEF LoginWrong
    <3>2. failures' \in [0..MaxNow -> Nat] /\ guesses' \in [0..MaxNow -> Nat]
      BY <1>0, <3>1, Counted DEF TablesOK
    <3> QED BY <1>0, <3>1, <3>2 DEF TablesOK
  <2>4. CASE LoginRight(w)
    <3> DEFINE s == [gen |-> 0, access |-> now + AccessTime,
                     refresh |-> now + RefreshTime, revoked |-> FALSE]
    <3>1. s \in Sessions
      BY <1>0, Bounds DEF TablesOK, Sessions
    <3>2. sessions' = Append(sessions, s)
      BY <2>4 DEF LoginRight
    <3>3. sessions' \in Seq(Sessions)
      <4> HIDE DEF s
      <4> QED BY <1>0, <3>1, <3>2 DEF TablesOK
    <3> QED BY <1>0, <2>4, <3>3 DEF LoginRight, TablesOK, history
  <2> QED BY <1>2, <2>1, <2>2, <2>3, <2>4 DEF Login
<1>3. ASSUME NEW w \in Workers, Present(w)
      PROVE  TablesOK'
  BY <1>1, <1>3 DEF Present, RefreshRead, Authenticate, db, history
<1>4. ASSUME NEW w \in Workers, Answer(w), pc[w] \in {"lookup", "claim"}
      PROVE  TablesOK'
  <2>1. call[w].key \in Keys /\ call[w].body \in Bodies
    BY <1>4 DEF Inv, CallsOK, CallOK, Carries
  <2>2. records[call[w].key] \in [body: Bodies, outcome: Outcomes \union {"none"}]
    BY <1>0, <1>4, <2>1 DEF Answer, Recorded, TablesOK, RecordRows
  <2>3. Replay(call[w].key, call[w].body) \in Outcomes \union {"conflict", "in_progress"}
    BY <2>2 DEF Replay
  <2>4. [body |-> call[w].body, outcome |-> Replay(call[w].key, call[w].body)] \in AnswerRows
    BY <2>1, <2>3 DEF AnswerRows
  <2>5. answers' \in [Keys -> SUBSET AnswerRows]
    BY <1>0, <1>4, <2>1, <2>4 DEF Answer, Sent, TablesOK
  <2> QED BY <1>0, <1>4, <2>5 DEF Answer, TablesOK, db
<1>5. ASSUME NEW w \in Workers, Lookup(w) \/ Claim(w)
      PROVE  TablesOK'
  BY <1>1, <1>4, <1>5 DEF Lookup, Claim, db, history
<1>6. ASSUME NEW w \in Workers, RefreshRotate(w)
      PROVE  TablesOK'
  <2> DEFINE i == call[w].row
             s == Rotated(sessions[i])
  <2>1. i \in DOMAIN sessions /\ sessions[i].gen \in 0..(MaxGen - 1) /\ sessions[i] \in Sessions
    <3>1. pc[w] = "rotate" /\ CallOK(w) /\ Holds(w)
      BY <1>6 DEF RefreshRotate, Inv, CallsOK, RowsLocked
    <3>2. i \in DOMAIN sessions
      BY <3>1 DEF CallOK, Carries
    <3>3. sessions[i].gen = call[w].gen /\ call[w].gen \in 0..(MaxGen - 1)
      BY <3>1, Zenon DEF Holds
    <3>4. sessions[i] \in Sessions
      BY <1>0, <3>2 DEF TablesOK
    <3> QED BY <3>2, <3>3, <3>4
  <2>2. s \in Sessions
    <3>1. now \in Nat
      BY <1>0, Bounds DEF TablesOK
    <3> QED BY <2>1, <3>1, SessionTyped
  <2>3. sessions' = [sessions EXCEPT ![i] = s]
    BY <1>6 DEF RefreshRotate
  <2>4. sessions' \in Seq(Sessions)
    <3> HIDE DEF s, i
    <3> QED BY <1>0, <2>1, <2>2, <2>3, ExceptTyped DEF TablesOK
  <2> QED BY <1>0, <1>6, <2>4 DEF RefreshRotate, TablesOK, history
<1>7. ASSUME NEW w \in Workers, NEW o \in Outcomes, Commit(w, o)
      PROVE  TablesOK'
  <2> DEFINE c == call[w]
  <2>1. c.row \in DOMAIN sessions /\ c.body \in Bodies /\ c.key \in Keys \union {NoKey}
    BY <1>7 DEF Commit, Inv, CallsOK, CallOK, Carries
  <2>2. sessions' \in Seq(Sessions)
    <3>1. sessions[c.row] \in Sessions
      BY <1>0, <2>1 DEF TablesOK
    <3>2. LoggedOut(sessions[c.row]) \in Sessions
      <4>1. now \in Nat
        BY <1>0, Bounds DEF TablesOK
      <4> QED BY <3>1, <4>1, SessionTyped
    <3>3. sessions' = sessions
          \/ sessions' = [sessions EXCEPT ![c.row] = LoggedOut(sessions[c.row])]
      BY <1>7, <2>1 DEF Commit
    <3>4. sessions \in Seq(Sessions)
      BY <1>0 DEF TablesOK
    <3> HIDE DEF c
    <3> QED BY <2>1, <3>2, <3>3, <3>4, ExceptTyped
  <2>3. CASE c.key = NoKey
    BY <1>0, <1>7, <2>2, <2>3 DEF Commit, TablesOK
  <2>4. CASE c.key # NoKey
    <3>1. /\ records' = [records EXCEPT ![c.key] = [body |-> c.body, outcome |-> o]]
          /\ effects' = [effects EXCEPT ![c.key] = IF o = "ok" THEN effects[c.key] + 1
                                                   ELSE effects[c.key]]
          /\ answers' = [answers EXCEPT ![c.key] =
                           answers[c.key] \union {[body |-> c.body, outcome |-> o]}]
      BY <1>7, <2>4 DEF Commit, Sent
    <3>2. [body |-> c.body, outcome |-> o] \in RecordRows
          /\ [body |-> c.body, outcome |-> o] \in AnswerRows
      BY <2>1 DEF RecordRows, AnswerRows
    <3>3. c.key \in Keys /\ effects[c.key] \in Nat /\ answers[c.key] \subseteq AnswerRows
      BY <1>0, <2>1, <2>4 DEF TablesOK
    <3>4. records' \in [Keys -> RecordRows] /\ effects' \in [Keys -> Nat]
          /\ answers' \in [Keys -> SUBSET AnswerRows]
      <4> HIDE DEF c
      <4> QED BY <1>0, <3>1, <3>2, <3>3 DEF TablesOK
    <3> QED BY <1>0, <1>7, <2>2, <3>4 DEF Commit, TablesOK
  <2> QED BY <2>3, <2>4
<1>8. ASSUME NEW w \in Workers, Crash(w)
      PROVE  TablesOK'
  BY <1>1, <1>8 DEF Crash, Undone
<1>9. CASE Tick
  BY <1>0, <1>9, Bounds DEF Tick, TablesOK, db, history
<1>10. CASE UNCHANGED vars
  BY <1>1, <1>10 DEF vars, db
<1> QED
  BY <1>2, <1>3, <1>5, <1>6, <1>7, <1>8, <1>9, <1>10 DEF Next, Serve

-----------------------------------------------------------------------------
(* What a step does to the workers and to the sessions *)

(* The only way to a rotation: a refresh finds its row unlocked. *)
Locks(w, i, g) ==
  /\ ~Locked(i) /\ Refreshable(i, g) /\ g \in 0..(MaxGen - 1)
  /\ pc'[w] = "rotate" /\ call'[w].row = i /\ call'[w].gen = g
  /\ UNCHANGED sessions

Turn(w) ==
  /\ pc' \in [Workers -> Labels] /\ DOMAIN call' = Workers
  /\ \A u \in Workers \ {w} : pc'[u] = pc[u] /\ call'[u] = call[u]
  /\ Carries(pc'[w], call'[w], DOMAIN sessions)
  /\ pc'[w] # "rotate" \/ \E i \in DOMAIN sessions, g \in Nat : Locks(w, i, g)

LEMMA TurnTo ==
  ASSUME CallsOK, NEW w \in Workers, NEW label \in Labels, NEW c, Goto(w, label, c),
         label # "rotate", Carries(label, c, DOMAIN sessions)
  PROVE  Turn(w)
BY Moves DEF Turn

LEMMA Turns ==
  ASSUME Inv, [Next]_vars
  PROVE  UNCHANGED <<pc, call>> \/ \E w \in Workers : Turn(w)
<1>0. CallsOK
  BY DEF Inv
<1>1. ASSUME NEW w \in Workers, Finish(w)
      PROVE  Turn(w)
  <2>1. Carries("idle", NoCall, DOMAIN sessions)
    BY DEF Carries
  <2> QED BY <1>0, <1>1, <2>1, TurnTo DEF Finish, Labels
<1>2. ASSUME NEW w \in Workers, Login(w)
      PROVE  UNCHANGED <<pc, call>> \/ Turn(w)
  <2>1. CASE LoginStart(w)
    <3>1. Carries("password", NoCall, DOMAIN sessions)
      BY DEF Carries
    <3> QED BY <1>0, <2>1, <3>1, TurnTo DEF LoginStart, Labels
  <2> QED BY <1>1, <1>2, <2>1 DEF Login, LoginRefused, LoginWrong, LoginRight
<1>3. ASSUME NEW w \in Workers, NEW i \in DOMAIN sessions, NEW g \in 0..MaxGen,
             RefreshRead(w, i, g)
      PROVE  Turn(w)
  <2> DEFINE c == [row |-> i, gen |-> g, key |-> NoKey, body |-> "none"]
  <2>2. c.row = i /\ c.gen = g
    OBVIOUS
  <2>3. Goto(w, "rotate", c)
    BY <1>3 DEF RefreshRead
  <2> HIDE DEF c
  <2>4. /\ pc' \in [Workers -> Labels] /\ DOMAIN call' = Workers
        /\ pc'[w] = "rotate" /\ call'[w] = c
        /\ \A u \in Workers \ {w} : pc'[u] = pc[u] /\ call'[u] = call[u]
    BY <1>0, <2>3, Moves DEF Labels
  <2>5. Locks(w, i, g)
    <3>1. g \in 0..(MaxGen - 1)
      BY <1>3, Bounds DEF RefreshRead
    <3> QED BY <1>3, <2>2, <2>4, <3>1 DEF RefreshRead, Locks, db
  <2>6. Carries("rotate", c, DOMAIN sessions)
    BY <2>2 DEF Carries
  <2>7. g \in Nat
    BY Bounds
  <2> QED BY <2>4, <2>5, <2>6, <2>7 DEF Turn
<1>4. ASSUME NEW w \in Workers, NEW i \in DOMAIN sessions, NEW g \in 0..MaxGen,
             NEW k \in Keys \union {NoKey}, NEW b \in Bodies, Authenticate(w, i, g, k, b)
      PROVE  Turn(w)
  <2> DEFINE label == IF k = NoKey THEN "view" ELSE "lookup"
             c == [row |-> i, gen |-> g, key |-> k, body |-> b]
  <2>1. Carries(label, c, DOMAIN sessions)
    BY DEF Carries
  <2>2. Goto(w, label, c) /\ label \in Labels /\ label # "rotate"
    BY <1>4 DEF Authenticate, Labels
  <2> HIDE DEF label, c
  <2> QED BY <1>0, <2>1, <2>2, TurnTo
<1>5. ASSUME NEW w \in Workers, Serve(w)
      PROVE  Turn(w)
  <2>1. CASE pc[w] = "lookup" /\ Goto(w, "claim", call[w])
    <3>1. Carries("claim", call[w], DOMAIN sessions)
      BY <1>0, <2>1 DEF CallsOK, CallOK, Carries
    <3> QED BY <1>0, <2>1, <3>1, TurnTo DEF Labels
  <2>2. CASE pc[w] = "claim" /\ Goto(w, "view", call[w])
    <3>1. Carries("view", call[w], DOMAIN sessions)
      BY <1>0, <2>2 DEF CallsOK, CallOK, Carries
    <3> QED BY <1>0, <2>2, <3>1, TurnTo DEF Labels
  <2> QED BY <1>1, <1>5, <2>1, <2>2
          DEF Serve, Lookup, Claim, Answer, RefreshRotate, Commit
<1>6. ASSUME NEW w \in Workers, Crash(w)
      PROVE  Turn(w)
  BY <1>1, <1>6 DEF Crash
<1>7. CASE Tick \/ UNCHANGED vars
  BY <1>7 DEF Tick, vars
<1> QED
  BY <1>2, <1>3, <1>4, <1>5, <1>6, <1>7 DEF Next, Present

LEMMA SessionsMove ==
  ASSUME Inv, [Next]_vars
  PROVE  /\ DOMAIN sessions \subseteq DOMAIN sessions'
         /\ \A i \in DOMAIN sessions :
              \/ sessions'[i] = sessions[i]
              \/ \E w \in Workers : RefreshRotate(w) /\ call[w].row = i
              \/ ~Locked(i) /\ sessions'[i] = LoggedOut(sessions[i])
<1>0. sessions \in Seq(Sessions)
  BY DEF Inv, TablesOK
<1>1. CASE UNCHANGED sessions
  BY <1>1
<1>2. ASSUME NEW w \in Workers, LoginRight(w)
      PROVE  /\ DOMAIN sessions \subseteq DOMAIN sessions'
             /\ \A i \in DOMAIN sessions : sessions'[i] = sessions[i]
  <2> DEFINE s == [gen |-> 0, access |-> now + AccessTime,
                   refresh |-> now + RefreshTime, revoked |-> FALSE]
  <2>1. sessions' = Append(sessions, s)
    BY <1>2 DEF LoginRight
  <2> HIDE DEF s
  <2> QED BY <1>0, <2>1
<1>3. ASSUME NEW w \in Workers, RefreshRotate(w)
      PROVE  /\ DOMAIN sessions \subseteq DOMAIN sessions'
             /\ \A i \in DOMAIN sessions : sessions'[i] = sessions[i] \/ call[w].row = i
  BY <1>0, <1>3 DEF RefreshRotate
<1>4. ASSUME NEW w \in Workers, NEW o \in Outcomes, Commit(w, o)
      PROVE  /\ DOMAIN sessions \subseteq DOMAIN sessions'
             /\ \A i \in DOMAIN sessions :
                    \/ sessions'[i] = sessions[i]
                    \/ ~Locked(i) /\ sessions'[i] = LoggedOut(sessions[i])
  <2> DEFINE r == call[w].row
  <2>1. ASSUME ~Locked(r), sessions' = [sessions EXCEPT ![r] = LoggedOut(sessions[r])]
        PROVE  /\ DOMAIN sessions' = DOMAIN sessions
               /\ \A i \in DOMAIN sessions :
                    \/ sessions'[i] = sessions[i]
                    \/ ~Locked(i) /\ sessions'[i] = LoggedOut(sessions[i])
    <3> HIDE DEF r
    <3>1. DOMAIN sessions' = DOMAIN sessions
          /\ \A i \in DOMAIN sessions :
                sessions'[i] = IF i = r THEN LoggedOut(sessions[r]) ELSE sessions[i]
      BY <2>1, Zenon
    <3> QED BY <2>1, <3>1
  <2>2. \/ sessions' = sessions
        \/ ~Locked(r) /\ sessions' = [sessions EXCEPT ![r] = LoggedOut(sessions[r])]
    BY <1>4, Zenon DEF Commit
  <2> HIDE DEF r
  <2> QED BY <1>1, <2>1, <2>2
<1> QED
  BY <1>1, <1>2, <1>3, <1>4
     DEF Next, Login, LoginRefused, LoginStart, LoginWrong, Present, RefreshRead, Authenticate,
         Serve, Lookup, Claim, Answer, Crash, Tick, vars, db

LEMMA CallsStayOK ==
  ASSUME Inv, [Next]_vars
  PROVE  CallsOK'
<1>0. CallsOK /\ DOMAIN sessions \subseteq DOMAIN sessions'
  BY SessionsMove DEF Inv
<1>1. CASE UNCHANGED <<pc, call>>
  BY <1>0, <1>1 DEF CallsOK, CallOK, Carries
<1>2. ASSUME NEW w \in Workers, Turn(w)
      PROVE  CallsOK'
  BY <1>0, <1>2 DEF Turn, CallsOK, CallOK, Carries
<1> QED BY <1>1, <1>2, Turns

(* A rotation under way keeps its row: no other refresh gets the lock, and a *)
(* logout waits for it.                                                      *)
LEMMA RowsStayLocked ==
  ASSUME Inv, [Next]_vars
  PROVE  RowsLocked'
<1>0. /\ \A w \in Workers : Holds(w) /\ CallOK(w)
      /\ \A v, w \in Workers, i \in DOMAIN sessions : Rotating(v, i) /\ Rotating(w, i) => v = w
  BY DEF Inv, RowsLocked, CallsOK
<1>1. ASSUME NEW v \in Workers, pc[v] = "rotate", pc'[v] = "rotate", call'[v] = call[v]
      PROVE  Holds(v)'
  <2> DEFINE i == call[v].row
  <2>1. i \in DOMAIN sessions
    BY <1>0, <1>1 DEF CallOK, Carries
  <2>2. CASE sessions'[i] = sessions[i]
    BY <1>0, <1>1, <2>2 DEF Holds
  <2>3. ASSUME NEW w \in Workers, RefreshRotate(w), call[w].row = i
        PROVE  FALSE
    <3>1. v = w
      BY <1>0, <1>1, <2>1, <2>3 DEF Rotating, RefreshRotate
    <3>2. pc'[w] = "idle"
      BY <2>3 DEF RefreshRotate, Finish, Goto, Inv, CallsOK
    <3> QED BY <1>1, <3>1, <3>2
  <2>4. ~(~Locked(i))
    BY <1>1 DEF Locked
  <2> HIDE DEF i
  <2> QED BY <2>1, <2>2, <2>3, <2>4, SessionsMove
<1>2. CASE UNCHANGED <<pc, call>>
  <2>1. \A v \in Workers : Holds(v)'
    BY <1>1, <1>2 DEF Holds
  <2>2. \A v, w \in Workers, i \in DOMAIN sessions' :
          (Rotating(v, i) /\ Rotating(w, i))' => v = w
    BY <1>0, <1>2 DEF Rotating, CallOK, Carries
  <2> QED BY <2>1, <2>2 DEF RowsLocked
<1>3. ASSUME NEW w \in Workers, Turn(w)
      PROVE  RowsLocked'
  <2>1. \A u \in Workers \ {w} : Holds(u)'
    BY <1>1, <1>3 DEF Turn, Holds
  <2>2. CASE pc'[w] # "rotate"
    <3>1. Holds(w)'
      BY <2>2 DEF Holds
    <3>2. \A u, v \in Workers, i \in DOMAIN sessions' :
            (Rotating(u, i) /\ Rotating(v, i))' => u = v
      BY <1>0, <1>3, <2>2 DEF Turn, Rotating, CallOK, Carries
    <3> QED BY <2>1, <3>1, <3>2 DEF RowsLocked
  <2>3. ASSUME NEW i \in DOMAIN sessions, NEW g \in Nat, Locks(w, i, g)
        PROVE  RowsLocked'
    <3>1. Holds(w)'
      BY <2>3 DEF Holds, Locks, Refreshable
    <3>2. \A u, v \in Workers, j \in DOMAIN sessions' :
            (Rotating(u, j) /\ Rotating(v, j))' => u = v
      BY <1>0, <1>3, <2>3 DEF Turn, Locks, Locked, Rotating, CallOK, Carries
    <3> QED BY <2>1, <3>1, <3>2 DEF RowsLocked
  <2> QED BY <1>3, <2>2, <2>3 DEF Turn
<1> QED BY <1>2, <1>3, Turns

-----------------------------------------------------------------------------
(* The invariant *)

LEMMA InvInit == Init => Inv
<1> SUFFICES ASSUME Init
             PROVE  Inv
  OBVIOUS
<1>1. TablesOK
  <2>1. sessions \in Seq(Sessions)
    BY DEF Init
  <2>2. now \in 0..MaxNow
    BY Bounds DEF Init
  <2> QED BY <2>1, <2>2 DEF Init, TablesOK, RecordRows
<1>2. CallsOK
  BY DEF Init, CallsOK, CallOK, Carries, Labels
<1>3. RowsLocked
  BY DEF Init, RowsLocked, Holds, Rotating
<1> QED BY <1>1, <1>2, <1>3 DEF Inv

LEMMA InvStep == Inv /\ [Next]_vars => Inv'
BY TablesStayTyped, CallsStayOK, RowsStayLocked DEF Inv

LEMMA Invariance == Spec => []Inv
BY InvInit, InvStep, PTL DEF Spec

(* Every reachable state of the API is well typed, for any number of        *)
(* workers, keys and sessions.                                              *)
THEOREM Typing == Spec => []TypeOK
BY Invariance, InvIsTyped, PTL

-----------------------------------------------------------------------------
(* Sessions *)

(* A refresh token buys one new pair: a worker that rotates a session still  *)
(* holds the token it read, whoever else presented it.                       *)
THEOREM OnePairPerToken == Spec => TokenSpentOnce
<1>1. ASSUME Inv
      PROVE  \A w \in Workers :
               pc[w] = "rotate" /\ sessions' # sessions /\ pc'[w] = "idle"
                 => sessions[call[w].row].gen = call[w].gen
  BY <1>1 DEF Inv, RowsLocked, Holds
<1> QED
  BY <1>1, Invariance, PTL DEF TokenSpentOnce

(* A session that was logged out stays as it is: the lock of a refresh keeps *)
(* a logout out, and no refresh starts after one.                            *)
THEOREM NoLoginComesBack == Spec => LoggedOutForGood
<1>1. ASSUME Inv, [Next]_vars
      PROVE  \A i \in DOMAIN sessions : sessions[i].revoked => sessions'[i] = sessions[i]
  <2>1. SUFFICES ASSUME NEW i \in DOMAIN sessions, sessions[i].revoked
                 PROVE  sessions'[i] = sessions[i]
    OBVIOUS
  <2>2. sessions[i] \in Sessions
    BY <1>1 DEF Inv, TablesOK
  <2>3. LoggedOut(sessions[i]) = sessions[i]
    BY <2>1, <2>2 DEF LoggedOut, Sessions
  <2>4. ASSUME NEW w \in Workers, RefreshRotate(w), call[w].row = i
        PROVE  FALSE
    BY <1>1, <2>1, <2>4 DEF RefreshRotate, Inv, RowsLocked, Holds
  <2> QED BY <1>1, <2>3, <2>4, SessionsMove
<1> QED
  BY <1>1, Invariance, PTL DEF Spec, LoggedOutForGood

-----------------------------------------------------------------------------
(* Keys *)

Viewing(w, k) == pc[w] = "view" /\ call[w].key = k

(* The transaction that claimed a key is alone with it, and what was         *)
(* answered under the key is what its record says, or a conflict.            *)
Settled(k) ==
  /\ records[k].outcome \in Outcomes
  /\ effects[k] = IF records[k].outcome = "ok" THEN 1 ELSE 0
  /\ \A a \in answers[k] : a.outcome = "conflict" \/ a = records[k]

KeyOK(k) ==
  /\ \A v, w \in Workers : Viewing(v, k) /\ Viewing(w, k) => v = w
  /\ \A w \in Workers : Viewing(w, k) => ~Recorded(k)
  /\ IF Recorded(k) THEN Settled(k) ELSE effects[k] = 0 /\ answers[k] = {}

KeysOK == \A k \in Keys : KeyOK(k)

SameRows(k) ==
  records'[k] = records[k] /\ effects'[k] = effects[k] /\ answers'[k] = answers[k]

NoNewViewer(k, S) == \A u \in S : Viewing(u, k)' => Viewing(u, k)

LEMMA KeysMove ==
  ASSUME Inv, [Next]_vars, NEW k \in Keys
  PROVE  \/ SameRows(k) /\ NoNewViewer(k, Workers)
         \/ \E w \in Workers : SameRows(k) /\ Free(k) /\ NoNewViewer(k, Workers \ {w})
         \/ \E w \in Workers : Answer(w) /\ call[w].key = k /\ NoNewViewer(k, Workers)
         \/ \E w \in Workers, o \in Outcomes :
              /\ Commit(w, o) /\ call[w].key = k
              /\ pc'[w] = "idle" /\ NoNewViewer(k, Workers)
<1>0. CallsOK /\ TablesOK
  BY DEF Inv
<1>1. ASSUME NEW w \in Workers, NEW label \in Labels \ {"view"}, NEW c, Goto(w, label, c)
      PROVE  pc'[w] = label /\ NoNewViewer(k, Workers)
  BY <1>0, <1>1, Moves DEF NoNewViewer, Viewing
<1>2. ASSUME NEW w \in Workers, Finish(w)
      PROVE  pc'[w] = "idle" /\ NoNewViewer(k, Workers)
  BY <1>1, <1>2 DEF Finish, Labels
<1>3. CASE UNCHANGED <<records, effects, answers, pc, call>>
  BY <1>3 DEF SameRows, NoNewViewer, Viewing
<1>4. ASSUME NEW w \in Workers, Login(w)
      PROVE  SameRows(k) /\ NoNewViewer(k, Workers)
  <2>1. CASE LoginRefused(w)
    BY <1>3, <2>1 DEF LoginRefused, SameRows, NoNewViewer, Viewing, history
  <2>2. CASE LoginStart(w)
    BY <1>1, <2>2 DEF LoginStart, SameRows, Labels, db, history
  <2>3. CASE LoginWrong(w) \/ LoginRight(w)
    BY <1>2, <2>3 DEF LoginWrong, LoginRight, SameRows, history
  <2> QED BY <1>4, <2>1, <2>2, <2>3 DEF Login
<1>5. ASSUME NEW w \in Workers, NEW i \in DOMAIN sessions, NEW g \in 0..MaxGen,
             RefreshRead(w, i, g)
      PROVE  SameRows(k) /\ NoNewViewer(k, Workers)
  BY <1>1, <1>5 DEF RefreshRead, SameRows, Labels, db, history
<1>6. ASSUME NEW w \in Workers, NEW i \in DOMAIN sessions, NEW g \in 0..MaxGen,
             NEW q \in Keys \union {NoKey}, NEW b \in Bodies, Authenticate(w, i, g, q, b)
      PROVE  SameRows(k) /\ NoNewViewer(k, Workers)
  <2> DEFINE label == IF q = NoKey THEN "view" ELSE "lookup"
             c == [row |-> i, gen |-> g, key |-> q, body |-> b]
  <2>1. Goto(w, label, c) /\ label \in Labels /\ (label = "view" => c.key # k)
    BY <1>6, Bounds DEF Authenticate, Labels
  <2>2. SameRows(k)
    BY <1>6 DEF Authenticate, SameRows, db, history
  <2> HIDE DEF label, c
  <2>3. NoNewViewer(k, Workers)
    BY <1>0, <2>1, Moves DEF NoNewViewer, Viewing
  <2> QED BY <2>2, <2>3
<1>7. ASSUME NEW w \in Workers, Answer(w), pc[w] \in {"lookup", "claim"}
      PROVE  \/ SameRows(k) /\ NoNewViewer(k, Workers)
             \/ Answer(w) /\ call[w].key = k /\ NoNewViewer(k, Workers)
  <2>1. NoNewViewer(k, Workers)
    BY <1>2, <1>7 DEF Answer
  <2>2. answers \in [Keys -> SUBSET AnswerRows] /\ UNCHANGED <<records, effects>>
    BY <1>0, <1>7 DEF Answer, TablesOK, db
  <2>3. PICK A : answers' = [answers EXCEPT ![call[w].key] = A]
    BY <1>7 DEF Answer, Sent
  <2>4. call[w].key # k => SameRows(k)
    BY <2>2, <2>3 DEF SameRows
  <2> QED BY <1>7, <2>1, <2>4
<1>8. ASSUME NEW w \in Workers, Lookup(w)
      PROVE  \/ SameRows(k) /\ NoNewViewer(k, Workers)
             \/ Answer(w) /\ call[w].key = k /\ NoNewViewer(k, Workers)
  BY <1>1, <1>7, <1>8 DEF Lookup, SameRows, Labels, db, history
<1>9. ASSUME NEW w \in Workers, Claim(w)
      PROVE  \/ SameRows(k) /\ NoNewViewer(k, Workers)
             \/ SameRows(k) /\ Free(k) /\ NoNewViewer(k, Workers \ {w})
             \/ Answer(w) /\ call[w].key = k /\ NoNewViewer(k, Workers)
  <2>1. CASE Free(call[w].key) /\ Goto(w, "view", call[w]) /\ UNCHANGED <<db, history>>
    <3>1. SameRows(k)
      BY <2>1 DEF SameRows, db, history
    <3>2. NoNewViewer(k, Workers \ {w}) /\ pc'[w] = "view" /\ call'[w] = call[w]
      BY <1>0, <2>1, Moves DEF NoNewViewer, Viewing, Labels
    <3>3. CASE call[w].key = k
      BY <2>1, <3>1, <3>2, <3>3
    <3>4. CASE call[w].key # k
      BY <3>1, <3>2, <3>4 DEF NoNewViewer, Viewing
    <3> QED BY <3>3, <3>4
  <2> QED BY <1>7, <1>9, <2>1 DEF Claim
<1>10. ASSUME NEW w \in Workers, RefreshRotate(w) \/ Crash(w)
       PROVE  SameRows(k) /\ NoNewViewer(k, Workers)
  BY <1>2, <1>10 DEF RefreshRotate, Crash, Undone, SameRows, history
<1>11. ASSUME NEW w \in Workers, NEW o \in Outcomes, Commit(w, o)
       PROVE  \/ SameRows(k) /\ NoNewViewer(k, Workers)
              \/ /\ Commit(w, o) /\ call[w].key = k
                 /\ pc'[w] = "idle" /\ NoNewViewer(k, Workers)
  <2>1. pc'[w] = "idle" /\ NoNewViewer(k, Workers)
    BY <1>2, <1>11 DEF Commit
  <2>2. CASE call[w].key = NoKey
    BY <1>11, <2>1, <2>2 DEF Commit, SameRows
  <2>3. ASSUME call[w].key # NoKey, call[w].key # k
        PROVE  SameRows(k)
    <3>1. PICK r, e, A : /\ records' = [records EXCEPT ![call[w].key] = r]
                         /\ effects' = [effects EXCEPT ![call[w].key] = e]
                         /\ answers' = [answers EXCEPT ![call[w].key] = A]
      BY <1>11, <2>3 DEF Commit, Sent
    <3>2. /\ records \in [Keys -> RecordRows] /\ effects \in [Keys -> Nat]
          /\ answers \in [Keys -> SUBSET AnswerRows]
      BY <1>0 DEF TablesOK
    <3> QED BY <2>3, <3>1, <3>2 DEF SameRows
  <2> QED BY <1>11, <2>1, <2>2, <2>3
<1>12. CASE Tick \/ UNCHANGED vars
  BY <1>3, <1>12 DEF Tick, vars, db, history
<1> QED
  BY <1>4, <1>5, <1>6, <1>8, <1>9, <1>10, <1>11, <1>12 DEF Next, Present, Serve

LEMMA KeysStayOK ==
  ASSUME Inv, KeysOK, [Next]_vars
  PROVE  KeysOK'
<1> SUFFICES ASSUME NEW k \in Keys
             PROVE  KeyOK(k)'
  BY DEF KeysOK
<1>0. KeyOK(k) /\ TablesOK
  BY DEF KeysOK, Inv
<1>1. ASSUME SameRows(k), NoNewViewer(k, Workers)
      PROVE  KeyOK(k)'
  BY <1>0, <1>1 DEF SameRows, NoNewViewer, KeyOK, Settled, Recorded
<1>2. ASSUME NEW w \in Workers, SameRows(k), Free(k), NoNewViewer(k, Workers \ {w})
      PROVE  KeyOK(k)'
  <2>1. \A v \in Workers : Viewing(v, k)' => v = w
    BY <1>2 DEF NoNewViewer, Free, Viewing
  <2>2. ~Recorded(k) /\ ~Recorded(k)'
    BY <1>2 DEF Free, Recorded, SameRows
  <2> QED BY <1>0, <1>2, <2>1, <2>2 DEF KeyOK, SameRows
<1>3. ASSUME NEW w \in Workers, Answer(w), call[w].key = k, NoNewViewer(k, Workers)
      PROVE  KeyOK(k)'
  <2> DEFINE a == [body |-> call[w].body, outcome |-> Replay(k, call[w].body)]
  <2>1. Recorded(k) /\ UNCHANGED <<records, effects>>
    BY <1>3 DEF Answer, db
  <2>2. answers'[k] = answers[k] \union {a}
    BY <1>0, <1>3 DEF Answer, Sent, TablesOK
  <2>3. Settled(k)
    BY <1>0, <2>1 DEF KeyOK
  <2>4. a.outcome = "conflict" \/ a = records[k]
    <3>1. records[k] \in [body: Bodies, outcome: Outcomes \union {"none"}]
      BY <1>0, <2>1 DEF TablesOK, Recorded, RecordRows
    <3>2. records[k].outcome # "none"
      BY <2>3 DEF Settled, Outcomes
    <3>3. a = records[k] \/ records[k].body # call[w].body
      BY <3>1, <3>2 DEF Replay
    <3> QED BY <3>3 DEF Replay
  <2> HIDE DEF a
  <2>5. Settled(k)' /\ Recorded(k)'
    BY <2>1, <2>2, <2>3, <2>4 DEF Settled, Recorded
  <2> QED BY <1>0, <1>3, <2>1, <2>5 DEF KeyOK, NoNewViewer
<1>4. ASSUME NEW w \in Workers, NEW o \in Outcomes, Commit(w, o), call[w].key = k,
             pc'[w] = "idle", NoNewViewer(k, Workers)
      PROVE  KeyOK(k)'
  <2> DEFINE a == [body |-> call[w].body, outcome |-> o]
  <2>1. Viewing(w, k) /\ k # NoKey
    BY <1>4, Bounds DEF Commit, Viewing
  <2>2. ~Recorded(k) /\ effects[k] = 0 /\ answers[k] = {}
    BY <1>0, <2>1 DEF KeyOK
  <2>3. /\ records'[k] = a /\ answers'[k] = {a}
        /\ effects'[k] = IF o = "ok" THEN 1 ELSE 0
    <3>1. /\ records' = [records EXCEPT ![k] = a]
          /\ effects' = [effects EXCEPT ![k] = IF o = "ok" THEN effects[k] + 1 ELSE effects[k]]
          /\ answers' = [answers EXCEPT ![k] = answers[k] \union {a}]
      BY <1>4, <2>1 DEF Commit, Sent
    <3> HIDE DEF a
    <3> QED BY <1>0, <2>2, <3>1 DEF TablesOK
  <2>4. \A v \in Workers : ~Viewing(v, k)'
    BY <1>0, <1>4, <2>1 DEF KeyOK, NoNewViewer, Viewing
  <2>5. a.outcome = o /\ a # NoRecord
    BY DEF NoRecord, Outcomes
  <2> HIDE DEF a
  <2>6. Settled(k)' /\ Recorded(k)'
    BY <2>3, <2>5 DEF Settled, Recorded
  <2> QED BY <2>4, <2>6 DEF KeyOK
<1> QED
  BY <1>1, <1>2, <1>3, <1>4, KeysMove

LEMMA KeysInit == Init => KeysOK
BY DEF Init, KeysOK, KeyOK, Viewing, Recorded

(* One key, one mutation and one answer: the claim of a key and the effect   *)
(* of its request commit together, and the next claim waits for that commit. *)
THEOREM EachKeyTakesEffectOnce == Spec => []OncePerKey
<1>1. Inv /\ KeysOK => OncePerKey
  <2> SUFFICES ASSUME Inv, KeysOK, NEW k \in Keys
               PROVE  /\ effects[k] <= 1
                      /\ \A a, b \in {x \in answers[k] : x.outcome # "conflict"} : a = b
                      /\ effects[k] = 1 => records[k].outcome = "ok"
    BY DEF OncePerKey
  <2> QED BY DEF KeysOK, KeyOK, Settled
<1>2. Inv /\ KeysOK /\ [Next]_vars => KeysOK'
  BY KeysStayOK
<1> QED
  BY <1>1, <1>2, KeysInit, Invariance, PTL DEF Spec

-----------------------------------------------------------------------------
(* Passwords *)

All(rows) == RowsBetween(rows, 0, MaxNow)
Counts == [0..MaxNow -> Nat]

LEMMA RowOf ==
  ASSUME NEW rows, NEW first, NEW last, NEW x
  PROVE  x \in RowsBetween(rows, first, last) <=>
           \E m \in 0..MaxNow : first <= m /\ m <= last /\ x \in {m} \X (1..rows[m])
BY DEF RowsBetween

(* A narrower window, or smaller counts, hold no other rows. *)
LEMMA FewerRows ==
  ASSUME NEW f \in Counts, NEW g \in Counts, NEW a, NEW b, NEW c, NEW d,
         \A m \in 0..MaxNow : a <= m /\ m <= b /\ f[m] # 0 => c <= m /\ m <= d /\ f[m] <= g[m]
  PROVE  RowsBetween(f, a, b) \subseteq RowsBetween(g, c, d)
<1> SUFFICES ASSUME NEW x, x \in RowsBetween(f, a, b) PROVE x \in RowsBetween(g, c, d)
  OBVIOUS
<1>1. PICK m \in 0..MaxNow : a <= m /\ m <= b /\ x \in {m} \X (1..f[m])
  BY RowOf
<1>2. f[m] \in Nat /\ g[m] \in Nat
  BY DEF Counts
<1>3. 1..f[m] # {}
  BY <1>1
<1>4. f[m] # 0
  BY <1>2, <1>3
<1>5. c <= m /\ m <= d /\ f[m] <= g[m]
  BY <1>1, <1>4
<1>6. 1..f[m] \subseteq 1..g[m]
  BY <1>2, <1>5
<1>7. x \in {m} \X (1..g[m])
  BY <1>1, <1>6
<1> QED BY <1>5, <1>7, RowOf

(* One more row at an instant is one more row in the windows around it. *)
LEMMA OneMoreRow ==
  ASSUME NEW f \in Counts, NEW n \in 0..MaxNow, NEW a, NEW b,
         IsFiniteSet(RowsBetween(f, a, b))
  PROVE  LET g == [f EXCEPT ![n] = f[n] + 1]
         IN  /\ IsFiniteSet(RowsBetween(g, a, b))
             /\ Cardinality(RowsBetween(g, a, b)) <= Cardinality(RowsBetween(f, a, b)) + 1
<1> DEFINE g == [f EXCEPT ![n] = f[n] + 1]
           R == RowsBetween(f, a, b)
           new == <<n, f[n] + 1>>
<1>1. RowsBetween(g, a, b) \subseteq R \union {new}
  <2> SUFFICES ASSUME NEW x, x \in RowsBetween(g, a, b), x # new PROVE x \in R
    OBVIOUS
  <2>1. PICK m \in 0..MaxNow : a <= m /\ m <= b /\ x \in {m} \X (1..g[m])
    BY RowOf
  <2>2. PICK j \in 1..g[m] : x = <<m, j>>
    BY <2>1
  <2>3. j \in 1..f[m]
    BY <2>1, <2>2 DEF Counts
  <2>4. x \in {m} \X (1..f[m])
    BY <2>2, <2>3
  <2> QED BY <2>1, <2>4, RowOf
<1>2. /\ IsFiniteSet(R \union {new})
      /\ Cardinality(R \union {new}) <= Cardinality(R) + 1
  <2>1. Cardinality(R) \in Nat
    BY FS_CardinalityType
  <2>2. /\ IsFiniteSet(R \union {new})
        /\ Cardinality(R \union {new}) = IF new \in R THEN Cardinality(R) ELSE Cardinality(R) + 1
    <3> HIDE DEF R, new
    <3> QED BY FS_AddElement DEF R
  <2> QED BY <2>1, <2>2
<1>3. /\ IsFiniteSet(RowsBetween(g, a, b))
      /\ Cardinality(RowsBetween(g, a, b)) <= Cardinality(R \union {new})
  <2> HIDE DEF R, new, g
  <2> QED BY <1>1, <1>2, FS_Subset
<1>4. Cardinality(R) \in Nat /\ Cardinality(R \union {new}) \in Nat
      /\ Cardinality(RowsBetween(g, a, b)) \in Nat
  BY <1>2, <1>3, FS_CardinalityType
<1> HIDE DEF R, new
<1>5. Cardinality(RowsBetween(g, a, b)) <= Cardinality(R) + 1
  <2> HIDE DEF g
  <2> QED BY <1>2, <1>3, <1>4
<1> QED BY <1>3, <1>5 DEF R

Trying == {w \in Workers : pc[w] = "password"}
Limit == MaxAttempts + Cardinality(Workers) - 1
Tried(n) == Cardinality(RowsBetween(guesses, n - Window, n))

(* Every wrong password is a failed attempt, of an instant that has come.   *)
Recording ==
  /\ IsFiniteSet(All(failures))
  /\ \A m \in 0..MaxNow : guesses[m] <= failures[m] /\ (m > now => failures[m] = 0)

(* The workers about to try a password have room for it in the window.      *)
Room == Tried(now) + Cardinality(Trying) <= Limit

GuessesOK ==
  /\ Recording /\ Room
  /\ \A n \in 0..MaxNow : n < now => Tried(n) <= Limit

LEMMA Numbers ==
  /\ IsFiniteSet(Workers) /\ Cardinality(Workers) \in Nat
  /\ MaxAttempts \in Nat \ {0} /\ Window \in Nat /\ Limit \in Nat
<1>1. IsFiniteSet(Workers) /\ MaxAttempts \in Nat \ {0} /\ Window \in Nat
  BY VendorApiAssumption
<1>2. Cardinality(Workers) \in Nat
  BY <1>1, FS_CardinalityType
<1> QED BY <1>1, <1>2 DEF Limit

LEMMA TryingCount ==
  /\ IsFiniteSet(Trying) /\ Cardinality(Trying) \in Nat
  /\ Cardinality(Trying) <= Cardinality(Workers)
<1>1. Trying \in SUBSET Workers
  BY DEF Trying
<1>2. IsFiniteSet(Trying) /\ Cardinality(Trying) <= Cardinality(Workers)
  BY <1>1, Numbers, FS_Subset
<1> QED BY <1>2, FS_CardinalityType

LEMMA WindowCount ==
  ASSUME TablesOK, Recording, NEW a, NEW b
  PROVE  /\ IsFiniteSet(RowsBetween(guesses, a, b)) /\ IsFiniteSet(RowsBetween(failures, a, b))
         /\ Cardinality(RowsBetween(guesses, a, b)) \in Nat
         /\ Cardinality(RowsBetween(failures, a, b)) \in Nat
         /\ Cardinality(RowsBetween(guesses, a, b)) <= Cardinality(RowsBetween(failures, a, b))
<1>0. guesses \in Counts /\ failures \in Counts
  BY DEF TablesOK, Counts
<1>1. \A m \in 0..MaxNow : 0 <= m /\ m <= MaxNow /\ failures[m] <= failures[m]
  BY <1>0, Bounds DEF Counts
<1>2. RowsBetween(failures, a, b) \in SUBSET All(failures)
  BY <1>0, <1>1, FewerRows DEF All
<1>3. IsFiniteSet(RowsBetween(failures, a, b))
  BY <1>2, FS_Subset DEF Recording
<1>4. RowsBetween(guesses, a, b) \in SUBSET RowsBetween(failures, a, b)
  BY <1>0, FewerRows DEF Recording
<1>5. IsFiniteSet(RowsBetween(guesses, a, b))
      /\ Cardinality(RowsBetween(guesses, a, b)) <= Cardinality(RowsBetween(failures, a, b))
  BY <1>3, <1>4, FS_Subset
<1> QED BY <1>3, <1>5, FS_CardinalityType

LEMMA Fewer ==
  ASSUME NEW S, NEW T, IsFiniteSet(T), S \subseteq T
  PROVE  Cardinality(S) \in Nat /\ Cardinality(T) \in Nat /\ Cardinality(S) <= Cardinality(T)
<1>1. S \in SUBSET T
  OBVIOUS
<1>2. IsFiniteSet(S) /\ Cardinality(S) <= Cardinality(T)
  BY <1>1, FS_Subset
<1> QED BY <1>2, FS_CardinalityType

(* A step of a login, or one that tries no other password. *)
Quiet == UNCHANGED <<failures, guesses>> /\ Trying' \subseteq Trying

LEMMA StepOfLogin ==
  ASSUME CallsOK, [Next]_vars
  PROVE  \/ Quiet /\ (now' = now \/ Tick)
         \/ \E w \in Workers : LoginRefused(w) \/ LoginStart(w) \/ LoginWrong(w)
<1>1. ASSUME NEW w \in Workers, NEW label \in Labels \ {"password"}, NEW c, Goto(w, label, c)
      PROVE  Trying' \subseteq Trying
  BY <1>1, Moves DEF Trying
<1>2. ASSUME NEW w \in Workers, Finish(w) PROVE Trying' \subseteq Trying
  BY <1>1, <1>2 DEF Finish, Labels
<1>3. ASSUME NEW w \in Workers, LoginRight(w) \/ RefreshRotate(w) \/ Crash(w)
             \/ Answer(w) \/ \E o \in Outcomes : Commit(w, o)
      PROVE  Quiet /\ now' = now
  BY <1>2, <1>3 DEF LoginRight, RefreshRotate, Crash, Commit, Answer, Quiet, history, db
<1>4. ASSUME NEW w \in Workers, Present(w) PROVE Quiet /\ now' = now
  <2>1. ASSUME NEW i, NEW g, RefreshRead(w, i, g) PROVE Quiet /\ now' = now
    BY <1>1, <2>1 DEF RefreshRead, Labels, Quiet, db, history
  <2>2. ASSUME NEW i, NEW g, NEW k, NEW b, Authenticate(w, i, g, k, b) PROVE Quiet /\ now' = now
    <3> DEFINE label == IF k = NoKey THEN "view" ELSE "lookup"
    <3>1. label \in Labels \ {"password"}
      BY DEF Labels
    <3>2. PICK c : Goto(w, label, c) /\ UNCHANGED <<db, now, history>>
      BY <2>2 DEF Authenticate
    <3> HIDE DEF label
    <3>3. Trying' \subseteq Trying
      BY <1>1, <3>1, <3>2
    <3> QED BY <3>2, <3>3 DEF Quiet, db, history
  <2> QED BY <1>4, <2>1, <2>2 DEF Present
<1>5. ASSUME NEW w \in Workers, Lookup(w) \/ Claim(w) PROVE Quiet /\ now' = now
  <2>1. CASE UNCHANGED <<db, now, history>> /\ (Goto(w, "claim", call[w]) \/ Goto(w, "view", call[w]))
    BY <1>1, <2>1 DEF Labels, Quiet, db, history
  <2> QED BY <1>3, <1>5, <2>1 DEF Lookup, Claim
<1>6. CASE Tick
  BY <1>6 DEF Tick, Quiet, db, history, Trying
<1>7. CASE UNCHANGED vars
  BY <1>7 DEF vars, Quiet, db, history, Trying
<1> QED BY <1>3, <1>4, <1>5, <1>6, <1>7 DEF Next, Login, Serve

LEMMA GuessesStep ==
  ASSUME Inv, GuessesOK, [Next]_vars
  PROVE  GuessesOK'
<1>0. TablesOK /\ TablesOK' /\ CallsOK /\ Recording /\ now \in 0..MaxNow /\ now \in Nat
      /\ guesses \in Counts /\ failures \in Counts
  <2>1. TablesOK /\ TablesOK' /\ CallsOK /\ Recording
    BY InvStep DEF Inv, GuessesOK
  <2>2. now \in 0..MaxNow /\ guesses \in Counts /\ failures \in Counts
    BY <2>1 DEF TablesOK, Counts
  <2> QED BY <2>1, <2>2, Bounds
<1>1. ASSUME Quiet, now' = now PROVE GuessesOK'
  <2>1. Recording'
    BY <1>0, <1>1 DEF Quiet, Recording, All
  <2>2. \A n : Tried(n)' = Tried(n)
    BY <1>1 DEF Quiet, Tried
  <2>3. Cardinality(Trying') \in Nat /\ Cardinality(Trying) \in Nat
        /\ Cardinality(Trying') <= Cardinality(Trying)
    BY <1>1, TryingCount, Fewer DEF Quiet
  <2>4. Tried(now) \in Nat
    BY <1>0, WindowCount DEF Tried
  <2>5. Room'
    <3>1. Tried(now)' = Tried(now) /\ Limit' = Limit
      BY <1>1, <2>2 DEF Limit
    <3> QED BY <2>3, <2>4, <3>1, Numbers DEF Room, GuessesOK
  <2> QED BY <1>1, <2>1, <2>2, <2>5 DEF GuessesOK, Limit
<1>2. ASSUME Quiet, Tick PROVE GuessesOK'
  <2>0. now' = now + 1 /\ UNCHANGED <<failures, guesses, pc>> /\ now' \in 0..MaxNow
    BY <1>0, <1>2 DEF Tick, db, history, TablesOK
  <2>1. Recording'
    BY <1>0, <2>0 DEF Recording, All
  <2>2. Tried(now) \in Nat /\ Cardinality(Trying) \in Nat
    BY <1>0, WindowCount, TryingCount DEF Tried
  <2>3. Tried(now + 1) \in Nat /\ Tried(now + 1) <= Tried(now)
    <3>1. \A m \in 0..MaxNow : (now + 1) - Window <= m /\ m <= now + 1 /\ guesses[m] # 0
             => now - Window <= m /\ m <= now /\ guesses[m] <= guesses[m]
      BY <1>0, Numbers DEF Recording, Counts
    <3>2. RowsBetween(guesses, (now + 1) - Window, now + 1)
            \subseteq RowsBetween(guesses, now - Window, now)
      BY <1>0, <3>1, FewerRows
    <3>3. IsFiniteSet(RowsBetween(guesses, now - Window, now))
      BY <1>0, WindowCount
    <3> QED BY <3>2, <3>3, Fewer DEF Tried
  <2>4. Room'
    <3>1. Tried(now)' = Tried(now + 1) /\ Trying' = Trying /\ Limit' = Limit
      BY <2>0 DEF Tried, Trying, Limit
    <3> QED BY <2>2, <2>3, <3>1, Numbers DEF Room, GuessesOK
  <2>5. ASSUME NEW n \in 0..MaxNow, n < now' PROVE Tried(n)' <= Limit'
    <3>1. Tried(n)' = Tried(n) /\ Limit' = Limit
      BY <2>0 DEF Tried, Limit
    <3>2. CASE n < now
      BY <3>1, <3>2 DEF GuessesOK
    <3>3. CASE n = now
      BY <2>2, <3>1, <3>3, Numbers DEF GuessesOK, Room
    <3> QED BY <1>0, <2>0, <2>5, <3>2, <3>3
  <2> QED BY <2>1, <2>4, <2>5 DEF GuessesOK
<1>3. ASSUME failures' = [failures EXCEPT ![now] = failures[now] + 1], now' = now,
             \/ guesses' = guesses
             \/ guesses' = [guesses EXCEPT ![now] = guesses[now] + 1]
      PROVE  Recording'
  <2>1. IsFiniteSet(All(failures)')
    BY <1>0, <1>3, OneMoreRow DEF Recording, All
  <2>2. ASSUME NEW m \in 0..MaxNow
        PROVE  guesses'[m] <= failures'[m] /\ (m > now => failures'[m] = 0)
    <3>1. guesses[m] <= failures[m] /\ guesses[m] \in Nat /\ failures[m] \in Nat
          /\ (m > now => failures[m] = 0)
      BY <1>0 DEF Recording, Counts
    <3>2. failures'[m] = IF m = now THEN failures[m] + 1 ELSE failures[m]
      BY <1>0, <1>3 DEF Counts
    <3>3. guesses'[m] = guesses[m] \/ (m = now /\ guesses'[m] = guesses[m] + 1)
      BY <1>0, <1>3 DEF Counts
    <3> QED BY <1>0, <3>1, <3>2, <3>3
  <2> QED BY <1>3, <2>1, <2>2 DEF Recording
<1>4. ASSUME NEW w \in Workers, LoginRefused(w) PROVE GuessesOK'
  <2>1. /\ failures' = [failures EXCEPT ![now] = failures[now] + 1]
        /\ UNCHANGED <<guesses, now, pc>>
    BY <1>4 DEF LoginRefused, history
  <2>2. Recording'
    BY <1>3, <2>1
  <2>3. Room' /\ \A n \in 0..MaxNow : n < now' => Tried(n)' <= Limit'
    BY <2>1 DEF GuessesOK, Room, Tried, Trying, Limit
  <2> QED BY <2>2, <2>3 DEF GuessesOK
<1>5. ASSUME NEW w \in Workers, LoginStart(w) PROVE GuessesOK'
  <2>1. UNCHANGED <<failures, guesses, now>>
    BY <1>5 DEF LoginStart, db, history
  <2>2. Tried(now) \in Nat /\ Tried(now) <= MaxAttempts - 1
    <3> DEFINE R == RowsBetween(guesses, now - Window, now)
               F == RowsBetween(failures, now - Window, now)
               G == RowsBetween(failures, now - Window, MaxNow)
    <3>1. Cardinality(R) \in Nat /\ Cardinality(F) \in Nat /\ Cardinality(R) <= Cardinality(F)
      BY <1>0, WindowCount
    <3>2. F \subseteq G
      <4>1. \A m \in 0..MaxNow : m <= MaxNow /\ failures[m] <= failures[m]
        BY <1>0, Bounds DEF Counts
      <4> QED BY <1>0, <4>1, FewerRows
    <3>3. Cardinality(G) \in Nat /\ Cardinality(F) <= Cardinality(G)
      <4>1. IsFiniteSet(G)
        BY <1>0, WindowCount
      <4> HIDE DEF F, G
      <4> QED BY <3>2, <4>1, Fewer
    <3>4. ~(Cardinality(G) >= MaxAttempts)
      BY <1>5 DEF LoginStart, LimitReached, RowsSince
    <3>5. Tried(now) = Cardinality(R)
      BY DEF Tried
    <3> HIDE DEF R, F, G
    <3> QED BY <3>1, <3>3, <3>4, <3>5, Numbers
  <2>3. Cardinality(Trying)' \in Nat /\ Cardinality(Trying)' <= Cardinality(Workers)
    <3>1. Trying' \subseteq Workers
      BY DEF Trying
    <3> QED BY <3>1, Numbers, Fewer
  <2>4. Room'
    <3>1. Tried(now)' = Tried(now) /\ Limit' = Limit
      BY <2>1 DEF Tried, Limit
    <3> QED BY <2>2, <2>3, <3>1, Numbers DEF Room, Limit
  <2>5. Recording' /\ \A n \in 0..MaxNow : n < now' => Tried(n)' <= Limit'
    BY <2>1 DEF GuessesOK, Recording, All, Tried, Limit
  <2> QED BY <2>4, <2>5 DEF GuessesOK
<1>6. ASSUME NEW w \in Workers, LoginWrong(w) PROVE GuessesOK'
  <2>1. /\ failures' = [failures EXCEPT ![now] = failures[now] + 1]
        /\ guesses' = [guesses EXCEPT ![now] = guesses[now] + 1]
        /\ now' = now /\ pc[w] = "password" /\ Finish(w)
    BY <1>6 DEF LoginWrong
  <2>2. Recording'
    BY <1>3, <2>1
  <2>3. /\ Cardinality(Trying)' = Cardinality(Trying) - 1
        /\ Cardinality(Trying) \in Nat
    <3>1. pc'[w] = "idle" /\ \A u \in Workers \ {w} : pc'[u] = pc[u]
      BY <1>0, <2>1, Moves DEF Finish, Labels
    <3>2. Trying' = Trying \ {w} /\ w \in Trying
      BY <2>1, <3>1 DEF Trying
    <3> QED BY <3>2, TryingCount, FS_RemoveElement
  <2>4. Tried(now)' \in Nat /\ Tried(now)' <= Tried(now) + 1 /\ Tried(now) \in Nat
    <3>1. IsFiniteSet(RowsBetween(guesses, now - Window, now)) /\ Tried(now) \in Nat
      BY <1>0, WindowCount DEF Tried
    <3>2. /\ IsFiniteSet(RowsBetween(guesses', now - Window, now))
          /\ Cardinality(RowsBetween(guesses', now - Window, now)) <= Tried(now) + 1
      BY <1>0, <2>1, <3>1, OneMoreRow DEF Tried
    <3>3. Tried(now)' = Cardinality(RowsBetween(guesses', now - Window, now))
      BY <2>1 DEF Tried
    <3> QED BY <3>1, <3>2, <3>3, FS_CardinalityType
  <2>5. Room'
    <3>1. Limit' = Limit
      BY DEF Limit
    <3> QED BY <2>3, <2>4, <3>1, Numbers DEF Room, GuessesOK
  <2>6. ASSUME NEW n \in 0..MaxNow, n < now' PROVE Tried(n)' <= Limit'
    <3>1. guesses' \in Counts
      BY <1>0 DEF TablesOK, Counts
    <3>2. \A m \in 0..MaxNow : n - Window <= m /\ m <= n /\ guesses'[m] # 0
             => n - Window <= m /\ m <= n /\ guesses'[m] <= guesses[m]
      <4> SUFFICES ASSUME NEW m \in 0..MaxNow, m <= n PROVE guesses'[m] <= guesses[m]
        OBVIOUS
      <4>1. m # now /\ guesses[m] \in Nat
        BY <1>0, <2>1, <2>6 DEF Counts
      <4>2. guesses'[m] = guesses[m]
        BY <1>0, <2>1, <4>1 DEF Counts
      <4> QED BY <4>1, <4>2
    <3>3. RowsBetween(guesses', n - Window, n) \subseteq RowsBetween(guesses, n - Window, n)
      BY <1>0, <3>1, <3>2, FewerRows
    <3>4. IsFiniteSet(RowsBetween(guesses, n - Window, n))
      BY <1>0, WindowCount
    <3>5. /\ Cardinality(RowsBetween(guesses', n - Window, n)) <= Tried(n)
          /\ Cardinality(RowsBetween(guesses', n - Window, n)) \in Nat /\ Tried(n) \in Nat
      BY <3>3, <3>4, Fewer DEF Tried
    <3>6. Tried(n)' = Cardinality(RowsBetween(guesses', n - Window, n)) /\ Limit' = Limit
      BY DEF Tried, Limit
    <3>7. Tried(n) <= Limit
      BY <2>1, <2>6 DEF GuessesOK
    <3> QED BY <3>5, <3>6, <3>7, Numbers
  <2> QED BY <2>2, <2>5, <2>6 DEF GuessesOK
<1> QED BY <1>0, <1>1, <1>2, <1>4, <1>5, <1>6, StepOfLogin

LEMMA GuessesInit == Init => GuessesOK
<1> SUFFICES ASSUME Init PROVE GuessesOK
  OBVIOUS
<1>1. \A a, b : RowsBetween(failures, a, b) = {} /\ RowsBetween(guesses, a, b) = {}
  <2>1. \A m \in 0..MaxNow : failures[m] = 0 /\ guesses[m] = 0
    BY DEF Init
  <2>2. 1..0 = {}
    OBVIOUS
  <2> QED BY <2>1, <2>2 DEF RowsBetween
<1>2. Trying = {} /\ now = 0
  BY DEF Init, Trying
<1>3. Recording
  <2>1. All(failures) = {}
    BY <1>1 DEF All
  <2>2. \A m \in 0..MaxNow : guesses[m] = 0 /\ failures[m] = 0
    BY DEF Init
  <2> QED BY <2>1, <2>2, FS_EmptySet DEF Recording
<1>4. Tried(now) = 0 /\ Cardinality(Trying) = 0
  BY <1>1, <1>2, FS_EmptySet DEF Tried
<1> QED BY <1>2, <1>3, <1>4, Numbers DEF GuessesOK, Room

(* In no window are more passwords tried in vain than the limit allows and   *)
(* the workers that passed its check at once: login() counts the failures of *)
(* the window, checks the password and records the attempt in three steps.   *)
THEOREM GuessesStayLimited == Spec => []GuessesAreLimited
<1>1. Inv /\ GuessesOK => GuessesAreLimited
  <2> SUFFICES ASSUME Inv, GuessesOK, NEW n \in 0..MaxNow PROVE Tried(n) <= Limit
    BY DEF GuessesAreLimited, Tried, Limit
  <2>0. /\ TablesOK /\ Recording /\ now \in 0..MaxNow
        /\ guesses \in Counts /\ failures \in Counts
    BY DEF Inv, GuessesOK, TablesOK, Counts
  <2>1. CASE n < now
    BY <2>1 DEF GuessesOK
  <2>2. CASE n >= now
    <3>1. \A m \in 0..MaxNow : n - Window <= m /\ m <= n /\ guesses[m] # 0
             => now - Window <= m /\ m <= now /\ guesses[m] <= guesses[m]
      BY <2>0, <2>2, Numbers, Bounds DEF Recording, Counts
    <3>2. RowsBetween(guesses, n - Window, n) \subseteq RowsBetween(guesses, now - Window, now)
      BY <2>0, <3>1, FewerRows
    <3>3. IsFiniteSet(RowsBetween(guesses, now - Window, now))
      BY <2>0, WindowCount
    <3>4. Tried(n) \in Nat /\ Tried(now) \in Nat /\ Tried(n) <= Tried(now)
      BY <3>2, <3>3, Fewer DEF Tried
    <3> QED BY <3>4, TryingCount, Numbers DEF GuessesOK, Room
  <2> QED BY <2>0, <2>1, <2>2, Bounds
<1>2. Inv /\ GuessesOK /\ [Next]_vars => GuessesOK'
  BY GuessesStep
<1> QED BY <1>1, <1>2, GuessesInit, Invariance, PTL DEF Spec
=============================================================================
