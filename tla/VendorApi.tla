------------------------------ MODULE VendorApi ------------------------------
(***************************************************************************)
(* How the vendor API admits a request, whatever the request does: login   *)
(* and its limit, rotation of refresh tokens, logout (vendor_api/          *)
(* auth_views.py), the bearer check and the Idempotency-Key wrapper        *)
(* (vendor_api/auth.py).                                                   *)
(*                                                                         *)
(* One staff user behind one address: the rows are those that count for    *)
(* that login.  A token is the number of rotations its session had when it *)
(* was issued; anyone may present any token ever issued, in any order.     *)
(***************************************************************************)
EXTENDS Integers, Sequences, FiniteSets

CONSTANTS Workers,       \* gunicorn workers
          Keys,          \* values of the Idempotency-Key header
          NoKey,         \* a request without the header
          Mutations,     \* requests: method, path and body
          AccessTime,    \* VENDOR_ACCESS_TOKEN_SECONDS
          RefreshTime,   \* VENDOR_REFRESH_TOKEN_SECONDS
          Window,        \* VENDOR_LOGIN_WINDOW_SECONDS
          MaxAttempts,   \* VENDOR_LOGIN_MAX_ATTEMPTS
          MaxNow,        \* bound: the clock stops here
          MaxSessions,   \* bound: no login succeeds beyond this many sessions
          MaxGen,        \* bound: no session is refreshed more often
          MaxRows        \* bound: no login is tried once an instant has this many rows

ASSUME VendorApiAssumption ==
  /\ IsFiniteSet(Workers)
  /\ NoKey \notin Keys /\ "logout" \notin Mutations
  /\ 0 < AccessTime /\ AccessTime <= RefreshTime          \* settings.py
  /\ 0 < Window /\ 0 < MaxAttempts
  /\ {AccessTime, RefreshTime, Window, MaxAttempts} \subseteq Nat
  /\ {MaxNow, MaxSessions, MaxGen, MaxRows} \subseteq Nat

VARIABLES sessions,      \* the VendorSession rows
          records,       \* the committed IdempotencyRecord of each key
          failures,      \* LoginAttempt rows with success=False, by created_at
          now,           \* timezone.now()
          pc, call,      \* where each worker is, and with what
          effects,       \* history: mutations committed under each key
          answers,       \* history: what was answered under each key
          guesses        \* history: passwords found wrong, by created_at

db == <<sessions, records, failures>>
history == <<effects, answers, guesses>>
vars == <<db, now, pc, call, history>>

Bodies == Mutations \union {"logout"}
Outcomes == {"ok", "refused"}                  \* 2xx, or a 4xx of the view
NoRecord == [body |-> "none", outcome |-> "none"]
NoCall == [row |-> 0, gen |-> 0, key |-> NoKey, body |-> "none"]

Sessions == [gen: 0..MaxGen, access: Nat, refresh: Nat, revoked: BOOLEAN]

TypeOK ==
  /\ sessions \in Seq(Sessions)
  /\ records \in [Keys -> {NoRecord} \union [body: Bodies, outcome: Outcomes \union {"none"}]]
  /\ failures \in [0..MaxNow -> Nat] /\ guesses \in [0..MaxNow -> Nat]
  /\ now \in 0..MaxNow
  /\ pc \in [Workers -> {"idle", "password", "rotate", "lookup", "claim", "view"}]
  /\ \A w \in Workers :
       CASE pc[w] \in {"idle", "password"} -> call[w] = NoCall
         [] pc[w] = "rotate" -> call[w].row \in DOMAIN sessions
         [] pc[w] \in {"lookup", "claim"} -> call[w].key \in Keys
         [] pc[w] = "view" -> call[w].body \in Bodies
  /\ effects \in [Keys -> Nat]
  /\ answers \in [Keys -> SUBSET [body: Bodies,
                                  outcome: Outcomes \union {"conflict", "in_progress"}]]

-----------------------------------------------------------------------------
Init ==
  /\ sessions = <<>>
  /\ records = [k \in Keys |-> NoRecord]
  /\ failures = [n \in 0..MaxNow |-> 0]
  /\ guesses = [n \in 0..MaxNow |-> 0]
  /\ now = 0
  /\ pc = [w \in Workers |-> "idle"]
  /\ call = [w \in Workers |-> NoCall]
  /\ effects = [k \in Keys |-> 0]
  /\ answers = [k \in Keys |-> {}]

Goto(w, label, c) ==
  /\ pc' = [pc EXCEPT ![w] = label]
  /\ call' = [call EXCEPT ![w] = c]

Finish(w) == Goto(w, "idle", NoCall)

(* login(): failures of the window are counted, the password is checked,    *)
(* and the attempt recorded: three statements without a transaction.        *)

(* The rows created from one instant to another, as pairs of the instant    *)
(* and the place of the row within it.                                      *)
RowsBetween(rows, first, last) ==
  UNION {{m} \X (1..rows[m]) : m \in {n \in 0..MaxNow : first <= n /\ n <= last}}

RowsSince(rows, first) == Cardinality(RowsBetween(rows, first, MaxNow))

(* The mutant lets one attempt too many through. *)
LimitPassed == RowsSince(failures, now - Window) > MaxAttempts
LimitReached == RowsSince(failures, now - Window) >= MaxAttempts

LoginRefused(w) ==       \* 429, recorded as a failure too
  /\ pc[w] = "idle" /\ LimitReached /\ failures[now] < MaxRows
  /\ failures' = [failures EXCEPT ![now] = @ + 1]
  /\ UNCHANGED <<sessions, records, now, pc, call, history>>

LoginStart(w) ==
  /\ pc[w] = "idle" /\ ~LimitReached /\ failures[now] < MaxRows
  /\ Goto(w, "password", NoCall)
  /\ UNCHANGED <<db, now, history>>

LoginWrong(w) ==
  /\ pc[w] = "password"
  /\ failures' = [failures EXCEPT ![now] = @ + 1]
  /\ guesses' = [guesses EXCEPT ![now] = @ + 1]
  /\ Finish(w)
  /\ UNCHANGED <<sessions, records, now, effects, answers>>

LoginRight(w) ==         \* issue_session()
  /\ pc[w] = "password" /\ Len(sessions) < MaxSessions
  /\ sessions' = Append(sessions, [gen |-> 0, access |-> now + AccessTime,
                                   refresh |-> now + RefreshTime, revoked |-> FALSE])
  /\ Finish(w)
  /\ UNCHANGED <<records, failures, now, history>>

(* refresh(): the row of the token is locked, or waited for and then        *)
(* filtered again, and rotate_session() writes the new pair.                *)

(* Who holds a row of VendorSession; the mutant forgets select_for_update. *)
NeverLocked(i) == FALSE
Locked(i) == \E v \in Workers : pc[v] = "rotate" /\ call[v].row = i

RefreshableRevoked(i, g) == sessions[i].gen = g /\ sessions[i].refresh > now
Refreshable(i, g) ==
  sessions[i].gen = g /\ sessions[i].refresh > now /\ ~sessions[i].revoked

RefreshRead(w, i, g) ==  \* else 401, and nothing changes
  /\ pc[w] = "idle" /\ ~Locked(i) /\ Refreshable(i, g) /\ g < MaxGen
  /\ Goto(w, "rotate", [row |-> i, gen |-> g, key |-> NoKey, body |-> "none"])
  /\ UNCHANGED <<db, now, history>>

Rotated(s) == [gen |-> s.gen + 1, access |-> now + AccessTime,
               refresh |-> now + RefreshTime, revoked |-> s.revoked]

RefreshRotate(w) ==
  LET i == call[w].row
  IN  /\ pc[w] = "rotate"
      /\ sessions' = [sessions EXCEPT ![i] = Rotated(sessions[i])]
      /\ Finish(w)
      /\ UNCHANGED <<records, failures, now, history>>

(* vendor_auth(): an unlocked read, and the request goes on with what it    *)
(* saw.  Without a key the wrapper calls the view at once.                  *)
Authenticate(w, i, g, k, b) ==
  /\ pc[w] = "idle"
  /\ sessions[i].gen = g /\ ~sessions[i].revoked /\ sessions[i].access > now
  /\ Goto(w, IF k = NoKey THEN "view" ELSE "lookup",
          [row |-> i, gen |-> g, key |-> k, body |-> b])
  /\ UNCHANGED <<db, now, history>>

(* idempotent(): look, claim the key in a transaction, run the view and     *)
(* record its response in the same transaction.                             *)

Recorded(k) == records[k] # NoRecord

(* What a record answers. *)
Replay(k, b) ==
  IF records[k].body # b THEN "conflict"
  ELSE IF records[k].outcome = "none" THEN "in_progress" ELSE records[k].outcome

Sent(k, b, outcome) ==
  answers' = [answers EXCEPT ![k] = @ \union {[body |-> b, outcome |-> outcome]}]

Answer(w) ==             \* from the record of the key
  /\ Recorded(call[w].key)
  /\ Sent(call[w].key, call[w].body, Replay(call[w].key, call[w].body))
  /\ Finish(w)
  /\ UNCHANGED <<db, now, effects, guesses>>

Lookup(w) ==
  /\ pc[w] = "lookup"
  /\ \/ Answer(w)
     \/ /\ ~Recorded(call[w].key)
        /\ Goto(w, "claim", call[w])
        /\ UNCHANGED <<db, now, history>>

(* The unique index makes a second claim wait for the transaction of the    *)
(* first, and fail if that one commits.  The mutant has no such index.      *)
FreeAlways(k) == TRUE
Free(k) == ~Recorded(k) /\ ~\E v \in Workers : pc[v] = "view" /\ call[v].key = k

Claim(w) ==
  /\ pc[w] = "claim"
  /\ \/ /\ Free(call[w].key)
        /\ Goto(w, "view", call[w])
        /\ UNCHANGED <<db, now, history>>
     \/ Answer(w)                              \* IntegrityError

LoggedOut(s) == [s EXCEPT !.revoked = TRUE]

(* The view succeeds or refuses, and all of it commits.  Logout is the one  *)
(* view modelled here: it writes revoked_at and no other column.            *)
Commit(w, outcome) ==
  LET c == call[w]
      logout == c.body = "logout" /\ outcome = "ok"
  IN  /\ pc[w] = "view"
      /\ c.body = "logout" => outcome = "ok" /\ ~Locked(c.row)
      /\ sessions' = IF logout THEN [sessions EXCEPT ![c.row] = LoggedOut(sessions[c.row])]
                     ELSE sessions
      /\ IF c.key = NoKey THEN UNCHANGED <<records, effects, answers>>
         ELSE /\ records' = [records EXCEPT ![c.key] = [body |-> c.body, outcome |-> outcome]]
              /\ effects' = [effects EXCEPT ![c.key] = IF outcome = "ok" THEN @ + 1 ELSE @]
              /\ Sent(c.key, c.body, outcome)
      /\ Finish(w)
      /\ UNCHANGED <<failures, now, guesses>>

(* A worker is killed, or its view raises: the open transaction is undone.  *)
(* The mutant commits the claim before the view runs.                       *)
ClaimSurvives(w) ==
  IF pc[w] = "view" /\ call[w].key # NoKey
  THEN [records EXCEPT ![call[w].key] = [body |-> call[w].body, outcome |-> "none"]]
  ELSE records
Undone(w) == records

Crash(w) ==
  /\ pc[w] # "idle"
  /\ records' = Undone(w)
  /\ Finish(w)
  /\ UNCHANGED <<sessions, failures, now, history>>

Tick ==
  /\ now < MaxNow
  /\ now' = now + 1
  /\ UNCHANGED <<db, pc, call, history>>

-----------------------------------------------------------------------------
Login(w) == LoginRefused(w) \/ LoginStart(w) \/ LoginWrong(w) \/ LoginRight(w)

Present(w) == \E i \in DOMAIN sessions, g \in 0..MaxGen :
  \/ RefreshRead(w, i, g)
  \/ \E k \in Keys \union {NoKey}, b \in Bodies : Authenticate(w, i, g, k, b)

Serve(w) ==
  Lookup(w) \/ Claim(w) \/ RefreshRotate(w) \/ \E o \in Outcomes : Commit(w, o)

Next == (\E w \in Workers : Login(w) \/ Present(w) \/ Serve(w) \/ Crash(w)) \/ Tick

Spec == Init /\ [][Next]_vars

(* Workers run the requests they took, and not every request with a key     *)
(* dies at the same step.  Nothing is assumed of the clients.               *)
Fairness ==
  /\ \A w \in Workers : SF_vars(RefreshRotate(w))
  /\ \A k \in Keys :
       /\ SF_vars(\E w \in Workers : call[w].key = k /\ Lookup(w))
       /\ SF_vars(\E w \in Workers : call[w].key = k /\ Claim(w))
       /\ SF_vars(\E w \in Workers, o \in Outcomes : call[w].key = k /\ Commit(w, o))

FairSpec == Spec /\ Fairness

-----------------------------------------------------------------------------
(* Properties                                                               *)

(* One key, one mutation: however often and from however many workers a     *)
(* request is repeated, before, while or after it runs and through crashes, *)
(* it takes effect at most once, and every answer that is not a conflict is *)
(* the same answer to the same request.                                     *)
OncePerKey == \A k \in Keys :
  /\ effects[k] <= 1
  /\ \A a, b \in {x \in answers[k] : x.outcome # "conflict"} : a = b
  /\ effects[k] = 1 => records[k].outcome = "ok"

(* A refresh token buys one new pair: of two refreshes that present it, the *)
(* second finds it replaced ("refresh tokens rotate on use",                *)
(* FRONTEND.md:53).                                                         *)
TokenSpentOnce == [][\A w \in Workers :
  pc[w] = "rotate" /\ sessions' # sessions /\ pc'[w] = "idle"
    => sessions[call[w].row].gen = call[w].gen]_vars

(* A session that was logged out is dead: no refresh under way, or begun    *)
(* later, and no other request changes it or brings it back.                *)
LoggedOutForGood == [][\A i \in DOMAIN sessions :
  sessions[i].revoked => sessions'[i] = sessions[i]]_vars

(* The limit counts before it records, so parallel attempts pass it, but    *)
(* only by the workers there are: in no window are more passwords tried     *)
(* in vain.                                                                 *)
GuessesAreLimited == \A n \in 0..MaxNow :
  Cardinality(RowsBetween(guesses, n - Window, n))
    <= MaxAttempts + Cardinality(Workers) - 1

(* A client that keeps sending a request with its key gets it settled: a    *)
(* claim whose worker died does not block the key.                          *)
KeySettles == \A k \in Keys :
  []<>(\E w \in Workers : pc[w] = "lookup" /\ call[w].key = k)
    => <>(records[k].outcome # "none")
=============================================================================
