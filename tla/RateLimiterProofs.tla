------------------------- MODULE RateLimiterProofs -------------------------
(* Proofs about RateLimiter, for every number of requests, addresses and   *)
(* server runs and every length of the window and of the lockout.          *)
EXTENDS RateLimiter, FiniteSetTheorems, TLAPS

\* A lockout never reaches further than LOCKOUT_DURATION from now, and a
\* stranger's request never gets to clear its record.
LimiterInv ==
  /\ \A a \in Address : attempts[a].until <= now + LOCKOUT_DURATION
  /\ \A h \in Handler : req[h].pc = "succeeded" => req[h].addr \notin Stranger

LEMMA NewRecord == NoAttempts \in AttemptRecord /\ NoAttempts.until = -1
BY DEF NoAttempts, AttemptRecord, Never

LEMMA RequestSteps ==
  ASSUME TypeOK, NEW h \in Handler,
         NEW pc \in {"idle", "check", "failed", "succeeded"},
         req' = [req EXCEPT ![h].pc = pc]
  PROVE  /\ req' \in [Handler -> RequestRecord]
         /\ req'[h].pc = pc /\ req'[h].addr = req[h].addr
         /\ \A k \in Handler : k # h => req'[k] = req[k]
BY DEF TypeOK, RequestRecord

LEMMA InitLimiter == Init => TypeOK /\ LimiterInv
<1> SUFFICES ASSUME Init PROVE TypeOK /\ LimiterInv
  OBVIOUS
<1>1. attempts \in [Address -> AttemptRecord]
  BY NewRecord DEF Init
<1>2. req \in [Handler -> RequestRecord] /\ \A h \in Handler : req[h].pc = "idle"
  BY DEF Init, RequestRecord
<1>3. guesses \in [Stranger -> Seq(Nat)]
  BY DEF Init
<1>4. TypeOK
  BY <1>1, <1>2, <1>3, LimiterAssumption DEF Init, TypeOK
<1>5. LimiterInv
  BY <1>2, NewRecord, LimiterAssumption DEF Init, LimiterInv
<1>. QED  BY <1>4, <1>5

\* The step that keeps a lockout alive: a late failure opens a new window
\* and leaves locked_until as it is.
LEMMA FailureStep ==
  ASSUME TypeOK, LimiterInv, NEW h \in Handler, RecordFailure(h)
  PROVE  /\ attempts' \in [Address -> AttemptRecord]
         /\ \A a \in Address : /\ attempts[a].until <= attempts'[a].until
                               /\ attempts'[a].until <= now + LOCKOUT_DURATION
<1>1. /\ now \in Nat /\ LOCKOUT_DURATION \in Nat
      /\ attempts \in [Address -> AttemptRecord] /\ req[h].addr \in Address
  BY LimiterAssumption DEF TypeOK, RequestRecord
<1>2. PICK r :
        /\ attempts' = [attempts EXCEPT ![req[h].addr] = r]
        /\ r \in AttemptRecord
        /\ r.until \in {now + LOCKOUT_DURATION, attempts[req[h].addr].until}
  <2> DEFINE old == attempts[req[h].addr]
             windowExpired == \/ old.window = Never
                              \/ now - old.window > FAILURE_WINDOW
             failures == IF windowExpired THEN 1 ELSE old.failures + 1
             window == IF windowExpired THEN now ELSE old.window
             until == IF failures >= MAX_FAILURES_PER_WINDOW
                      THEN now + LOCKOUT_DURATION ELSE old.until
             r == [failures |-> failures, window |-> window, until |-> until]
  <2>1. old.failures \in Nat /\ old.window \in Int /\ old.until \in Int
    BY <1>1 DEF AttemptRecord
  <2>2. failures \in Nat /\ window \in Int
    BY <1>1, <2>1
  <2>3. until \in Int /\ until \in {now + LOCKOUT_DURATION, old.until}
    BY <1>1, <2>1
  <2>4. attempts' = [attempts EXCEPT ![req[h].addr] = r]
    BY DEF RecordFailure
  <2> HIDE DEF failures, window, until
  <2>5. r \in AttemptRecord /\ r.until = until
    BY <2>2, <2>3 DEF AttemptRecord
  <2>. QED  BY <2>3, <2>4, <2>5
<1>3. attempts' \in [Address -> AttemptRecord]
  BY <1>1, <1>2
<1>4. \A a \in Address : attempts[a].until \in Int
  BY <1>1 DEF AttemptRecord
<1>. QED  BY <1>1, <1>2, <1>3, <1>4 DEF LimiterInv

StrangerStep ==
  \A a \in Stranger :
    attempts[a].until <= attempts'[a].until \/ server' # server

LEMMA NextLimiter ==
  ASSUME TypeOK, LimiterInv, [Next]_vars
  PROVE  TypeOK' /\ LimiterInv' /\ StrangerStep
<1>t. /\ now \in Nat /\ LOCKOUT_DURATION \in Nat /\ Stranger \subseteq Address
      /\ \A a \in Address : attempts[a].until \in Int
      /\ attempts \in [Address -> AttemptRecord]
      /\ req \in [Handler -> RequestRecord]
      /\ guesses \in [Stranger -> Seq(Nat)]
  BY LimiterAssumption DEF TypeOK, AttemptRecord
<1>1. CASE Tick \/ UNCHANGED vars
  <2>1. /\ now' \in 0..MAX_NOW /\ now <= now'
        /\ UNCHANGED <<attempts, req, guesses, server>>
    BY <1>1, LimiterAssumption DEF Tick, vars, TypeOK
  <2>2. \A a \in Address : attempts[a].until <= now' + LOCKOUT_DURATION
    BY <1>t, <2>1 DEF LimiterInv
  <2>. QED  BY <1>t, <2>1, <2>2 DEF TypeOK, LimiterInv, StrangerStep
<1>2. CASE RestartServer
  <2>1. /\ attempts' \in [Address -> AttemptRecord]
        /\ \A a \in Address : attempts'[a].until = -1
    BY <1>2, NewRecord DEF RestartServer
  <2>2. guesses' \in [Stranger -> Seq(Nat)] /\ server' \in 1..MAX_SERVERS
        /\ server' # server
    BY <1>2, LimiterAssumption DEF RestartServer, TypeOK
  <2>. QED
    BY <1>2, <1>t, <2>1, <2>2 DEF RestartServer, TypeOK, LimiterInv, StrangerStep
<1>3. ASSUME NEW h \in Handler, Arrive(h)
      PROVE  TypeOK' /\ LimiterInv' /\ StrangerStep
  <2>1. PICK a \in Address :
          req' = [req EXCEPT ![h] = [pc |-> "check", addr |-> a]]
    BY <1>3 DEF Arrive
  <2>2. [pc |-> "check", addr |-> a] \in RequestRecord
    BY DEF RequestRecord
  <2>3. req' \in [Handler -> RequestRecord]
    BY <1>t, <2>1, <2>2
  <2>4. \A k \in Handler : req'[k].pc = "succeeded" => req'[k] = req[k]
    BY <1>t, <2>1
  <2>. QED
    BY <1>3, <1>t, <2>3, <2>4 DEF Arrive, TypeOK, LimiterInv, StrangerStep
<1>4. ASSUME NEW h \in Handler, RefuseLockedOut(h)
      PROVE  TypeOK' /\ LimiterInv' /\ StrangerStep
  <2>1. /\ req' \in [Handler -> RequestRecord]
        /\ \A k \in Handler : req'[k].pc = "succeeded" => req'[k] = req[k]
    BY <1>4, RequestSteps DEF RefuseLockedOut
  <2>. QED
    BY <1>4, <1>t, <2>1 DEF RefuseLockedOut, TypeOK, LimiterInv, StrangerStep
<1>5. ASSUME NEW h \in Handler, CompareCredential(h)
      PROVE  TypeOK' /\ LimiterInv' /\ StrangerStep
  <2> DEFINE a == req[h].addr
             later == Append(guesses[a], now)
  <2>0. guesses' \in {guesses, IF a \in Stranger
                               THEN [guesses EXCEPT ![a] = later] ELSE guesses}
    BY <1>5 DEF CompareCredential
  <2>a. a \in Stranger => later \in Seq(Nat)
    BY <1>t
  <2> HIDE DEF later, a
  <2>1. guesses' \in [Stranger -> Seq(Nat)]
    BY <1>t, <2>0, <2>a
  <2> USE DEF a
  <2>2. UNCHANGED <<now, attempts, server>>
    BY <1>5 DEF CompareCredential
  <2>3. req' \in [Handler -> RequestRecord] /\ LimiterInv'
    <3>1. CASE /\ req[h].addr \notin Stranger
               /\ req' = [req EXCEPT ![h].pc = "succeeded"]
      BY <2>2, <3>1, RequestSteps DEF LimiterInv
    <3>2. CASE req' = [req EXCEPT ![h].pc = "failed"]
      BY <2>2, <3>2, RequestSteps DEF LimiterInv
    <3>. QED  BY <1>5, <3>1, <3>2 DEF CompareCredential
  <2>. QED  BY <1>t, <2>1, <2>2, <2>3 DEF TypeOK, StrangerStep
<1>6. ASSUME NEW h \in Handler, RecordFailure(h)
      PROVE  TypeOK' /\ LimiterInv' /\ StrangerStep
  <2>1. req' = [req EXCEPT ![h].pc = "idle"] /\ UNCHANGED <<now, guesses, server>>
    BY <1>6 DEF RecordFailure
  <2>2. /\ req' \in [Handler -> RequestRecord]
        /\ \A k \in Handler : req'[k].pc = "succeeded" => req'[k] = req[k]
    BY <2>1, RequestSteps
  <2>3. /\ attempts' \in [Address -> AttemptRecord]
        /\ \A a \in Address : /\ attempts[a].until <= attempts'[a].until
                              /\ attempts'[a].until <= now + LOCKOUT_DURATION
    BY <1>6, FailureStep
  <2>. QED
    BY <1>t, <2>1, <2>2, <2>3 DEF TypeOK, LimiterInv, StrangerStep
<1>7. ASSUME NEW h \in Handler, RecordSuccess(h)
      PROVE  TypeOK' /\ LimiterInv' /\ StrangerStep
  <2>1. /\ req[h].addr \in Address \ Stranger
        /\ attempts' = [attempts EXCEPT ![req[h].addr] = NoAttempts]
        /\ req' = [req EXCEPT ![h].pc = "idle"]
        /\ UNCHANGED <<now, guesses, server>>
    BY <1>7, <1>t DEF RecordSuccess, LimiterInv, RequestRecord
  <2>2. attempts' \in [Address -> AttemptRecord]
    BY <1>t, <2>1, NewRecord
  <2>3. \A a \in Address : attempts'[a].until <= now + LOCKOUT_DURATION
    BY <1>t, <2>1, NewRecord DEF LimiterInv
  <2>4. \A a \in Stranger : attempts'[a] = attempts[a]
    BY <1>t, <2>1
  <2>5. /\ req' \in [Handler -> RequestRecord]
        /\ \A k \in Handler : req'[k].pc = "succeeded" => req'[k] = req[k]
    BY <2>1, RequestSteps
  <2>. QED
    BY <1>t, <2>1, <2>2, <2>3, <2>4, <2>5 DEF TypeOK, LimiterInv, StrangerStep
<1>. QED
  BY <1>1, <1>2, <1>3, <1>4, <1>5, <1>6, <1>7 DEF Next

(* The limiter's records and its requests keep their types.                *)
THEOREM LimiterTypeCorrect == Spec => []TypeOK
BY InitLimiter, NextLimiter, PTL DEF Spec

(* However its requests overlap and however late their failures are        *)
(* recorded, an address that never presents a valid credential never has   *)
(* its lockout cut short while the server runs (record_failure).           *)
THEOREM LockoutSafety == Spec => LockoutOnlyGrows
<1>1. TypeOK /\ LimiterInv /\ [Next]_vars
        => TypeOK' /\ LimiterInv' /\ [StrangerStep]_vars
  BY NextLimiter
<1>2. LockoutOnlyGrows <=> [][StrangerStep]_vars
  BY DEF LockoutOnlyGrows, StrangerStep
<1>. QED  BY <1>1, <1>2, InitLimiter, PTL DEF Spec
---------------------------------------------------------------------------
(* The bound on guesses.  First the arithmetic of one guess, at time x and *)
(* with k guesses after it, under the record r with p guesses unrecorded.  *)

LEMMA Numbers ==
  /\ Cardinality(Handler) \in Nat /\ OneWindow \in Int
  /\ OneWindow = MAX_FAILURES_PER_WINDOW + Cardinality(Handler) - 2
  /\ MAX_FAILURES_PER_WINDOW \in Nat /\ MAX_FAILURES_PER_WINDOW >= 2
  /\ FAILURE_WINDOW \in Nat /\ LOCKOUT_DURATION \in Nat
  /\ LOCKOUT_DURATION > 0 /\ LOCKOUT_DURATION >= FAILURE_WINDOW
BY RationAssumption, LimiterAssumption, FS_CardinalityType DEF OneWindow

LEMMA RecordTypes ==
  \A r \in AttemptRecord :
    r.until \in Int /\ r.window \in Int /\ r.failures \in Nat
BY DEF AttemptRecord

LEMMA GuessTypes ==
  ASSUME NEW g \in Seq(Nat), NEW i \in DOMAIN g
  PROVE  g[i] \in Nat /\ Len(g) - i \in Nat /\ Len(g) \in Nat /\ i \in Nat
OBVIOUS

LEMMA LaterInLockout ==
  ASSUME NEW r \in AttemptRecord, NEW p \in Nat, NEW t \in Nat,
         NEW x \in Nat, NEW k \in Nat, InLockout(x, k, r, p, t)
  PROVE  InLockout(x, k, r, p, t + 1)
BY RecordTypes, Numbers DEF InLockout

\* One more guess, and what it says of itself.
LEMMA NextInWindow ==
  ASSUME NEW r \in AttemptRecord, NEW p \in Nat, NEW x \in Nat, NEW k \in Nat,
         InWindow(x, k, r, p)
  PROVE  InWindow(x, k + 1, r, p + 1)
BY RecordTypes, Numbers DEF InWindow

LEMMA NextInLockout ==
  ASSUME NEW r \in AttemptRecord, NEW p \in Nat, NEW t \in Nat,
         ~(r.until > t), NEW x \in Nat, NEW k \in Nat, InLockout(x, k, r, p, t)
  PROVE  InLockout(x, k + 1, r, p + 1, t)
BY RecordTypes, Numbers DEF InLockout

LEMMA NewGuess ==
  ASSUME NEW r \in AttemptRecord, NEW p \in Nat, NEW t \in Nat
  PROVE  /\ r.failures > 0 => InWindow(t, 0, r, p + 1)
         /\ ~(r.until > t) => InLockout(t, 0, r, p + 1, t)
BY RecordTypes, Numbers DEF InWindow, InLockout

---------------------------------------------------------------------------
(* What the steps make of the guesses g of one address.                    *)

LEMMA RationTick ==
  ASSUME NEW g \in Seq(Nat), NEW r \in AttemptRecord, NEW p \in Nat,
         NEW t \in Nat, Rationed(g, r, p, t)
  PROVE  Rationed(g, r, p, t + 1)
<1>1. ASSUME NEW i \in DOMAIN g PROVE g[i] <= t + 1
  <2>1. g[i] <= t /\ g[i] \in Nat
    BY GuessTypes DEF Rationed
  <2>. QED  BY <2>1
<1>2. r.until <= t + 1 + LOCKOUT_DURATION
  BY RecordTypes, Numbers DEF Rationed
<1>3. r.window \in 0..t => r.window \in 0..(t + 1)
  BY RecordTypes
<1>4. ASSUME NEW i \in DOMAIN g, InLockout(g[i], Len(g) - i, r, p, t)
      PROVE  InLockout(g[i], Len(g) - i, r, p, t + 1)
  BY <1>4, LaterInLockout, GuessTypes
<1>. QED  BY <1>1, <1>2, <1>3, <1>4 DEF Rationed

\* A guess is compared only while no lockout lasts.
LEMMA RationGuess ==
  ASSUME NEW g \in Seq(Nat), NEW r \in AttemptRecord, NEW p \in Nat,
         NEW t \in Nat, Rationed(g, r, p, t), ~(r.until > t)
  PROVE  Rationed(Append(g, t), r, p + 1, t)
<1> DEFINE e == Append(g, t)
<1>1. e \in Seq(Nat) /\ Len(e) = Len(g) + 1 /\ Len(g) \in Nat
  OBVIOUS
<1>2. ASSUME NEW i \in DOMAIN e
      PROVE  \/ i \in DOMAIN g /\ e[i] = g[i] /\ Len(e) - i = Len(g) - i + 1
             \/ e[i] = t /\ Len(e) - i = 0
  OBVIOUS
<1> HIDE DEF e
<1>3. ASSUME NEW i \in DOMAIN e PROVE e[i] <= t
  BY <1>2, <1>3 DEF Rationed
<1>4. ASSUME NEW i \in DOMAIN e, r.failures > 0,
             \A j \in DOMAIN g : InWindow(g[j], Len(g) - j, r, p)
      PROVE  InWindow(e[i], Len(e) - i, r, p + 1)
  BY <1>2, <1>4, NextInWindow, NewGuess, GuessTypes
<1>5. ASSUME NEW i \in DOMAIN e,
             \A j \in DOMAIN g : InLockout(g[j], Len(g) - j, r, p, t)
      PROVE  InLockout(e[i], Len(e) - i, r, p + 1, t)
  BY <1>2, <1>5, NextInLockout, NewGuess, GuessTypes
<1>. QED  BY <1>1, <1>3, <1>4, <1>5 DEF Rationed, e
---------------------------------------------------------------------------
(* The same for a failure that is recorded at time t, as the record s.     *)

\* In a new window only the guesses made after the old one count; of those
\* only the window before can have let more through than are unrecorded.
LEMMA OpenWindow ==
  ASSUME NEW r \in AttemptRecord, NEW s \in AttemptRecord, NEW p \in Nat,
         NEW t \in Nat, NEW x \in Nat, NEW k \in Nat, x <= t, p > 0,
         s.window = t, s.failures = 1,
         \/ k < p
         \/ /\ t - r.window > FAILURE_WINDOW
            /\ InWindow(x, k, r, p)
            /\ r.failures >= MAX_FAILURES_PER_WINDOW => InLockout(x, k, r, p, t)
  PROVE  InWindow(x, k, s, p - 1)
<1>1. CASE k < p
  BY <1>1, RecordTypes, Numbers DEF InWindow
<1>2. CASE /\ t - r.window > FAILURE_WINDOW
           /\ InWindow(x, k, r, p)
           /\ r.failures >= MAX_FAILURES_PER_WINDOW => InLockout(x, k, r, p, t)
  <2>1. x > r.window => k < OneWindow + p
    BY <1>2, RecordTypes, Numbers DEF InWindow, InLockout
  <2>2. x > r.window + FAILURE_WINDOW => k < p
    BY <1>2 DEF InWindow
  <2>. QED  BY <1>2, <2>1, <2>2, RecordTypes, Numbers DEF InWindow
<1>. QED  BY <1>1, <1>2

LEMMA SameWindow ==
  ASSUME NEW r \in AttemptRecord, NEW s \in AttemptRecord, NEW p \in Nat,
         NEW t \in Nat, NEW x \in Nat, NEW k \in Nat, x <= t, p > 0,
         t - r.window <= FAILURE_WINDOW,
         s.window = r.window, s.failures = r.failures + 1, InWindow(x, k, r, p)
  PROVE  InWindow(x, k, s, p - 1)
BY RecordTypes, Numbers DEF InWindow

\* A guess made right when the lockout of a window ends can find the window
\* still open only if everything in it was recorded in its first instant.
LEMMA LockWindow ==
  ASSUME NEW r \in AttemptRecord, NEW s \in AttemptRecord, NEW p \in Nat,
         NEW t \in Nat, NEW x \in Nat, NEW k \in Nat, x <= t,
         p > 0, p <= Cardinality(Handler),
         r.window <= t, t - r.window <= FAILURE_WINDOW,
         r.until <= t + LOCKOUT_DURATION,
         s.window = r.window, s.failures = r.failures + 1,
         s.failures >= MAX_FAILURES_PER_WINDOW,
         s.until = t + LOCKOUT_DURATION,
         InWindow(x, k, r, p),
         r.failures >= MAX_FAILURES_PER_WINDOW =>
           /\ r.until >= r.window + LOCKOUT_DURATION
           /\ InLockout(x, k, r, p, t)
  PROVE  InLockout(x, k, s, p - 1, t)
<1>1. ASSUME x > r.window PROVE k < OneWindow
  BY <1>1, RecordTypes, Numbers DEF InWindow, InLockout
<1>2. ASSUME x >= r.window, s.until <= r.window + FAILURE_WINDOW
      PROVE  x <= r.window /\ k < OneWindow + 1
  BY <1>2, RecordTypes, Numbers DEF InWindow, InLockout
<1>. QED  BY <1>1, <1>2, RecordTypes, Numbers DEF InLockout

LEMMA RationRecord ==
  ASSUME NEW g \in Seq(Nat), NEW r \in AttemptRecord, NEW s \in AttemptRecord,
         NEW p \in Nat, p > 0, p <= Cardinality(Handler), NEW t \in Nat,
         Rationed(g, r, p, t),
         \/ /\ r.window = Never \/ t - r.window > FAILURE_WINDOW
            /\ s.window = t /\ s.failures = 1 /\ s.until = r.until
         \/ /\ ~(r.window = Never \/ t - r.window > FAILURE_WINDOW)
            /\ s.window = r.window /\ s.failures = r.failures + 1
            /\ s.until = IF s.failures >= MAX_FAILURES_PER_WINDOW
                         THEN t + LOCKOUT_DURATION ELSE r.until
  PROVE  Rationed(g, s, p - 1, t)
<1>1. \A i \in DOMAIN g : g[i] <= t /\ g[i] \in Nat /\ Len(g) - i \in Nat
  BY GuessTypes DEF Rationed
<1>2. s.until <= t + LOCKOUT_DURATION
  BY RecordTypes, Numbers DEF Rationed
<1>3. CASE /\ r.window = Never \/ t - r.window > FAILURE_WINDOW
           /\ s.window = t /\ s.failures = 1
  <2>1. ASSUME NEW i \in DOMAIN g PROVE InWindow(g[i], Len(g) - i, s, p - 1)
    <3>1. CASE Len(g) = p
      <4>1. Len(g) - i < p
        BY <3>1
      <4>. QED  BY <1>1, <1>3, <4>1, OpenWindow
    <3>2. CASE r.window \in 0..t
      <4>1. /\ t - r.window > FAILURE_WINDOW
            /\ InWindow(g[i], Len(g) - i, r, p)
            /\ r.failures >= MAX_FAILURES_PER_WINDOW =>
                 InLockout(g[i], Len(g) - i, r, p, t)
        BY <1>3, <3>2 DEF Rationed, Never, NoAttempts
      <4>. QED  BY <1>1, <1>3, <4>1, OpenWindow
    <3>. QED  BY <3>1, <3>2 DEF Rationed
  <2>2. ~(s.failures >= MAX_FAILURES_PER_WINDOW) /\ s.failures > 0 /\ s.window \in 0..t
    BY <1>3, Numbers
  <2>. QED  BY <1>1, <1>2, <2>1, <2>2 DEF Rationed
<1>4. CASE /\ ~(r.window = Never \/ t - r.window > FAILURE_WINDOW)
           /\ s.window = r.window /\ s.failures = r.failures + 1
           /\ s.until = IF s.failures >= MAX_FAILURES_PER_WINDOW
                        THEN t + LOCKOUT_DURATION ELSE r.until
  <2>1. /\ r.until <= t + LOCKOUT_DURATION
        /\ r.window \in 0..t
        /\ \A i \in DOMAIN g : InWindow(g[i], Len(g) - i, r, p)
        /\ r.failures >= MAX_FAILURES_PER_WINDOW =>
             /\ r.until >= r.window + LOCKOUT_DURATION
             /\ \A i \in DOMAIN g : InLockout(g[i], Len(g) - i, r, p, t)
    BY <1>4 DEF Rationed, NoAttempts
  <2>2. r.window <= t /\ t - r.window <= FAILURE_WINDOW
    BY <1>4, <2>1, RecordTypes, Numbers
  <2>3. ASSUME NEW i \in DOMAIN g PROVE InWindow(g[i], Len(g) - i, s, p - 1)
    BY <1>1, <1>4, <2>1, <2>2, SameWindow
  <2>4. ASSUME s.failures >= MAX_FAILURES_PER_WINDOW, NEW i \in DOMAIN g
        PROVE  InLockout(g[i], Len(g) - i, s, p - 1, t)
    <3>1. s.until = t + LOCKOUT_DURATION
      BY <1>4, <2>4
    <3>. QED  BY <1>1, <1>4, <2>1, <2>2, <2>4, <3>1, LockWindow
  <2>5. s.failures > 0 /\ s.window \in 0..t
    BY <1>4, <2>1, RecordTypes
  <2>6. s.failures >= MAX_FAILURES_PER_WINDOW => s.until >= s.window + LOCKOUT_DURATION
    BY <1>4, <2>2, RecordTypes, Numbers
  <2>. QED  BY <1>1, <1>2, <2>3, <2>4, <2>5, <2>6 DEF Rationed
<1>. QED  BY <1>3, <1>4
---------------------------------------------------------------------------
(* The property, guess by guess.                                           *)

Spaced(g) ==
  \A i \in DOMAIN g :
    i + Budget \in DOMAIN g => g[i + Budget] - g[i] > FAILURE_WINDOW

LEMMA RoomForOne ==
  ASSUME NEW r \in AttemptRecord, NEW p \in Nat, p + 1 <= Cardinality(Handler),
         NEW t \in Nat, ~(r.until > t), NEW x \in Nat, NEW k \in Nat,
         x >= t - FAILURE_WINDOW,
         \/ k < p
         \/ /\ r.window \in 0..t
            /\ InWindow(x, k, r, p)
            /\ r.failures >= MAX_FAILURES_PER_WINDOW =>
                 /\ r.until >= r.window + LOCKOUT_DURATION
                 /\ InLockout(x, k, r, p, t)
  PROVE  k < Budget - 1
<1>1. Budget = 2 * OneWindow + 1 /\ Budget \in Int
  BY Numbers DEF Budget
<1>2. CASE k < p
  BY <1>1, <1>2, Numbers
<1>3. CASE /\ r.window \in 0..t /\ InWindow(x, k, r, p)
           /\ r.failures < MAX_FAILURES_PER_WINDOW
  BY <1>1, <1>3, RecordTypes, Numbers DEF InWindow
<1>4. CASE /\ r.window \in 0..t /\ InLockout(x, k, r, p, t)
           /\ r.until >= r.window + LOCKOUT_DURATION
  BY <1>1, <1>4, RecordTypes, Numbers DEF InLockout
<1>. QED  BY <1>2, <1>3, <1>4, RecordTypes, Numbers

LEMMA SpacedGuess ==
  ASSUME NEW g \in Seq(Nat), NEW r \in AttemptRecord, NEW p \in Nat,
         p + 1 <= Cardinality(Handler), NEW t \in Nat,
         Rationed(g, r, p, t), ~(r.until > t), Spaced(g)
  PROVE  Spaced(Append(g, t))
<1> DEFINE e == Append(g, t)
<1>1. Budget \in Nat /\ Budget > 0
  BY Numbers DEF Budget
<1>2. ASSUME NEW i \in DOMAIN g, g[i] >= t - FAILURE_WINDOW
      PROVE  Len(g) - i < Budget - 1
  <2>1. g[i] \in Nat /\ Len(g) - i \in Nat
    BY GuessTypes
  <2>2. CASE Len(g) = p
    <3>1. Len(g) - i < p
      BY <2>2, GuessTypes
    <3>. QED  BY <1>2, <2>1, <3>1, RoomForOne
  <2>3. CASE Len(g) # p
    <3>1. /\ r.window \in 0..t
          /\ InWindow(g[i], Len(g) - i, r, p)
          /\ r.failures >= MAX_FAILURES_PER_WINDOW =>
               /\ r.until >= r.window + LOCKOUT_DURATION
               /\ InLockout(g[i], Len(g) - i, r, p, t)
      BY <2>3 DEF Rationed
    <3>. QED  BY <1>2, <2>1, <3>1, RoomForOne
  <2>. QED  BY <2>2, <2>3
<1>3. ASSUME NEW i \in DOMAIN e, i + Budget \in DOMAIN e
      PROVE  e[i + Budget] - e[i] > FAILURE_WINDOW
  <2>1. Len(g) \in Nat /\ i \in 1..Len(g) /\ e[i] = g[i] /\ i \in DOMAIN g
    BY <1>1, <1>3
  <2>2. CASE i + Budget \in DOMAIN g
    <3>1. e[i + Budget] = g[i + Budget]
      BY <2>2
    <3>. QED  BY <2>1, <2>2, <3>1 DEF Spaced
  <2>3. CASE i + Budget = Len(g) + 1
    <3>1. e[i + Budget] = t /\ g[i] \in Nat
      BY <2>1, <2>3
    <3>2. ~(Len(g) - i < Budget - 1)
      BY <1>1, <2>1, <2>3
    <3>3. ~(g[i] >= t - FAILURE_WINDOW)
      BY <1>2, <2>1, <3>2
    <3>. QED  BY <2>1, <3>1, <3>3, Numbers
  <2>4. i + Budget \in 1..Len(g) \/ i + Budget = Len(g) + 1
    BY <1>1, <1>3, <2>1
  <2>5. i + Budget \in 1..Len(g) => i + Budget \in DOMAIN g
    OBVIOUS
  <2>. QED  BY <2>2, <2>3, <2>4, <2>5
<1>. QED  BY <1>3 DEF Spaced

---------------------------------------------------------------------------
(* How many guesses are unrecorded.                                        *)

LEMMA UnrecordedCounts ==
  \A a : /\ IsFiniteSet(Unrecorded(a))
         /\ Cardinality(Unrecorded(a)) \in Nat
         /\ Cardinality(Unrecorded(a)) <= Cardinality(Handler)
<1> SUFFICES ASSUME NEW a
             PROVE  /\ IsFiniteSet(Unrecorded(a))
                    /\ Cardinality(Unrecorded(a)) \in Nat
                    /\ Cardinality(Unrecorded(a)) <= Cardinality(Handler)
  OBVIOUS
<1>1. Unrecorded(a) \in SUBSET Handler
  BY DEF Unrecorded
<1>. QED  BY <1>1, RationAssumption, FS_Subset, FS_CardinalityType

LEMMA OneMore ==
  ASSUME NEW a, NEW h \in Handler, h \notin Unrecorded(a),
         Unrecorded(a)' = Unrecorded(a) \cup {h}
  PROVE  /\ Cardinality(Unrecorded(a))' = Cardinality(Unrecorded(a)) + 1
         /\ Cardinality(Unrecorded(a)) + 1 <= Cardinality(Handler)
<1>1. Cardinality(Unrecorded(a) \cup {h}) = Cardinality(Unrecorded(a)) + 1
  BY UnrecordedCounts, FS_AddElement
<1>2. Unrecorded(a) \cup {h} \in SUBSET Handler
  BY DEF Unrecorded
<1>3. Cardinality(Unrecorded(a) \cup {h}) <= Cardinality(Handler)
  BY <1>2, RationAssumption, FS_Subset
<1>. QED  BY <1>1, <1>3

LEMMA OneLess ==
  ASSUME NEW a, NEW h \in Unrecorded(a),
         Unrecorded(a)' = Unrecorded(a) \ {h}
  PROVE  /\ Cardinality(Unrecorded(a))' = Cardinality(Unrecorded(a)) - 1
         /\ Cardinality(Unrecorded(a)) > 0
<1>1. Cardinality(Unrecorded(a) \ {h}) = Cardinality(Unrecorded(a)) - 1
  BY UnrecordedCounts, FS_RemoveElement
<1>2. Cardinality(Unrecorded(a)) # 0
  BY UnrecordedCounts, FS_EmptySet
<1>. QED  BY <1>1, <1>2, UnrecordedCounts

\* The steps that touch neither the guesses nor the unrecorded ones.
LEMMA RationKept ==
  ASSUME RationInv, GuessesAreRationed, UNCHANGED <<now, attempts, guesses>>,
         \A a \in Stranger : Unrecorded(a)' = Unrecorded(a)
  PROVE  RationInv' /\ GuessesAreRationed'
BY DEF RationInv, GuessesAreRationed, Budget

LEMMA NextRationed ==
  ASSUME TypeOK, LimiterInv, RationInv, GuessesAreRationed, [Next]_vars
  PROVE  RationInv' /\ GuessesAreRationed'
<1>t. /\ now \in Nat /\ Stranger \subseteq Address
      /\ attempts \in [Address -> AttemptRecord]
      /\ req \in [Handler -> RequestRecord]
      /\ guesses \in [Stranger -> Seq(Nat)]
  BY LimiterAssumption DEF TypeOK
<1>p. \A a : Cardinality(Unrecorded(a)) \in Nat
  BY UnrecordedCounts
<1>s. /\ GuessesAreRationed <=> \A a \in Stranger : Spaced(guesses[a])
      /\ GuessesAreRationed' <=> \A a \in Stranger : Spaced(guesses'[a])
  BY DEF GuessesAreRationed, Spaced, Budget
<1>1. CASE Tick
  <2>1. UNCHANGED <<attempts, guesses, req>> /\ now' = now + 1
    BY <1>1 DEF Tick
  <2>2. \A a : Unrecorded(a)' = Unrecorded(a)
    BY <2>1 DEF Unrecorded
  <2>3. ASSUME NEW a \in Stranger
        PROVE  Rationed(guesses[a], attempts[a], Cardinality(Unrecorded(a)), now + 1)
    BY <1>t, <1>p, RationTick DEF RationInv
  <2>. QED  BY <1>s, <2>1, <2>2, <2>3 DEF RationInv
<1>2. CASE RestartServer
  <2>1. /\ \A a \in Stranger : attempts'[a] = NoAttempts /\ guesses'[a] = <<>>
        /\ now' = now
    BY <1>2, <1>t DEF RestartServer
  <2>2. \A a : Unrecorded(a)' = {}
    BY <1>2 DEF RestartServer, Unrecorded
  <2>3. Rationed(<<>>, NoAttempts, 0, now) /\ Spaced(<<>>)
    BY <1>t, NewRecord, Numbers DEF Rationed, Spaced
  <2>. QED  BY <1>s, <2>1, <2>2, <2>3, FS_EmptySet DEF RationInv
<1>3. ASSUME NEW h \in Handler,
             Arrive(h) \/ RefuseLockedOut(h) \/ RecordSuccess(h)
      PROVE  RationInv' /\ GuessesAreRationed'
  <2>1. PICK r : /\ req' = [req EXCEPT ![h] = r]
                 /\ req[h].pc # "failed" /\ r.pc # "failed"
    <3>1. CASE Arrive(h)
      <4>1. PICK a \in Address :
              req' = [req EXCEPT ![h] = [pc |-> "check", addr |-> a]]
        BY <3>1 DEF Arrive
      <4>. QED  BY <3>1, <4>1 DEF Arrive
    <3>2. ASSUME req[h].pc # "failed", req' = [req EXCEPT ![h].pc = "idle"]
          PROVE  \E r : /\ req' = [req EXCEPT ![h] = r]
                        /\ req[h].pc # "failed" /\ r.pc # "failed"
      <4>1. [req[h] EXCEPT !.pc = "idle"].pc # "failed"
        BY <1>t DEF RequestRecord
      <4>. QED  BY <3>2, <4>1
    <3>. QED  BY <1>3, <3>1, <3>2 DEF RefuseLockedOut, RecordSuccess
  <2>2. \A a : Unrecorded(a)' = Unrecorded(a)
    <3>1. \A k \in Handler : /\ k # h => req'[k] = req[k]
                             /\ k = h => req'[k].pc # "failed"
      BY <1>t, <2>1
    <3>. QED  BY <2>1, <3>1 DEF Unrecorded
  <2>3. UNCHANGED <<now, guesses>> /\ \A a \in Stranger : attempts'[a] = attempts[a]
    <3>1. CASE RecordSuccess(h)
      <4>1. req[h].addr \in Address \ Stranger
        BY <1>t, <3>1 DEF RecordSuccess, LimiterInv, RequestRecord
      <4>. QED  BY <1>t, <3>1, <4>1 DEF RecordSuccess
    <3>. QED  BY <1>3, <3>1 DEF Arrive, RefuseLockedOut
  <2>. QED  BY <1>s, <2>2, <2>3 DEF RationInv
<1>4. ASSUME NEW h \in Handler, CompareCredential(h)
      PROVE  RationInv' /\ GuessesAreRationed'
  <2>0. PICK a \in Address : a = req[h].addr
    BY <1>t DEF RequestRecord
  <2>1. UNCHANGED <<now, attempts>> /\ ~LockedOut(a) /\ req[h].pc = "check"
    BY <1>4, <2>0 DEF CompareCredential
  <2>2. CASE a \notin Stranger
    <3>1. guesses' = guesses
      BY <1>4, <2>0, <2>2 DEF CompareCredential
    <3>2. \A k \in Handler : req'[k].addr = req[k].addr /\ (k # h => req'[k] = req[k])
      BY <1>4, RequestSteps DEF CompareCredential
    <3>3. \A b \in Stranger : Unrecorded(b)' = Unrecorded(b)
      BY <2>0, <2>2, <3>2 DEF Unrecorded
    <3>. QED  BY <2>1, <3>1, <3>3, RationKept
  <2>3. CASE a \in Stranger
    <3>1. /\ req' = [req EXCEPT ![h].pc = "failed"]
          /\ guesses' = [guesses EXCEPT ![a] = Append(@, now)]
      BY <1>4, <2>0, <2>3 DEF CompareCredential
    <3>2. /\ req'[h].pc = "failed" /\ req'[h].addr = a
          /\ \A k \in Handler : k # h => req'[k] = req[k]
      BY <2>0, <3>1, RequestSteps
    <3>3. /\ Unrecorded(a)' = Unrecorded(a) \cup {h} /\ h \notin Unrecorded(a)
          /\ \A b : b # a => Unrecorded(b)' = Unrecorded(b)
      BY <2>0, <2>1, <3>2 DEF Unrecorded
    <3>4. /\ Cardinality(Unrecorded(a))' = Cardinality(Unrecorded(a)) + 1
          /\ Cardinality(Unrecorded(a)) + 1 <= Cardinality(Handler)
      BY <3>3, OneMore
    <3>5. Rationed(Append(guesses[a], now), attempts[a],
                   Cardinality(Unrecorded(a)) + 1, now)
      BY <1>t, <1>p, <2>1, <2>3, RationGuess DEF RationInv, LockedOut
    <3>6. Spaced(Append(guesses[a], now))
      BY <1>t, <1>p, <1>s, <2>1, <2>3, <3>4, SpacedGuess DEF RationInv, LockedOut
    <3>7. /\ guesses'[a] = Append(guesses[a], now)
          /\ \A b \in Stranger : b # a => guesses'[b] = guesses[b]
      BY <1>t, <2>3, <3>1
    <3>8. ASSUME NEW b \in Stranger
          PROVE  /\ Rationed(guesses'[b], attempts'[b], Cardinality(Unrecorded(b)'), now')
                 /\ Spaced(guesses'[b])
      BY <1>s, <2>1, <3>3, <3>4, <3>5, <3>6, <3>7 DEF RationInv
    <3>. QED  BY <1>s, <3>8 DEF RationInv
  <2>. QED  BY <2>2, <2>3
<1>5. ASSUME NEW h \in Handler, RecordFailure(h)
      PROVE  RationInv' /\ GuessesAreRationed'
  <2>0. PICK a \in Address : a = req[h].addr
    BY <1>t DEF RequestRecord
  <2> DEFINE old == attempts[a]
             new == attempts'[a]
             windowExpired == old.window = Never \/ now - old.window > FAILURE_WINDOW
  <2>1. /\ UNCHANGED <<now, guesses>> /\ req[h].pc = "failed"
        /\ req' = [req EXCEPT ![h].pc = "idle"]
    BY <1>5, <2>0 DEF RecordFailure
  <2>2. /\ \A b \in Address : b # a => attempts'[b] = attempts[b]
        /\ new \in AttemptRecord
        /\ \/ /\ windowExpired
              /\ new.window = now /\ new.failures = 1 /\ new.until = old.until
           \/ /\ ~windowExpired
              /\ new.window = old.window /\ new.failures = old.failures + 1
              /\ new.until = IF new.failures >= MAX_FAILURES_PER_WINDOW
                             THEN now + LOCKOUT_DURATION ELSE old.until
    <3> DEFINE failures == IF windowExpired THEN 1 ELSE old.failures + 1
               r == [failures |-> failures,
                     window |-> IF windowExpired THEN now ELSE old.window,
                     until |-> IF failures >= MAX_FAILURES_PER_WINDOW
                               THEN now + LOCKOUT_DURATION ELSE old.until]
    <3>1. attempts' = [attempts EXCEPT ![a] = r]
      BY <1>5, <2>0 DEF RecordFailure
    <3>2. new = r /\ \A b \in Address : b # a => attempts'[b] = attempts[b]
      BY <1>t, <2>1, <3>1
    <3>3. new \in AttemptRecord
      BY <1>5, <2>0, FailureStep
    <3>4. ~(1 >= MAX_FAILURES_PER_WINDOW)
      BY Numbers
    <3> HIDE DEF windowExpired, old, new
    <3>. QED  BY <3>2, <3>3, <3>4
  <2>3. /\ \A k \in Handler : k # h => req'[k] = req[k]
        /\ req'[h].pc = "idle"
    BY <2>1, RequestSteps
  <2>4. /\ Unrecorded(a)' = Unrecorded(a) \ {h} /\ h \in Unrecorded(a)
        /\ \A b : b # a => Unrecorded(b)' = Unrecorded(b)
    BY <2>0, <2>1, <2>3 DEF Unrecorded
  <2>5. /\ Cardinality(Unrecorded(a))' = Cardinality(Unrecorded(a)) - 1
        /\ Cardinality(Unrecorded(a)) > 0
        /\ Cardinality(Unrecorded(a)) <= Cardinality(Handler)
    BY <2>4, OneLess, UnrecordedCounts
  <2>6. ASSUME a \in Stranger
        PROVE  Rationed(guesses[a], new, Cardinality(Unrecorded(a)) - 1, now)
    <3>1. /\ guesses[a] \in Seq(Nat) /\ old \in AttemptRecord
          /\ Rationed(guesses[a], old, Cardinality(Unrecorded(a)), now)
      BY <1>t, <2>6 DEF RationInv
    <3> HIDE DEF old, new
    <3>. QED  BY <1>t, <1>p, <2>2, <2>5, <3>1, RationRecord DEF windowExpired
  <2>7. ASSUME NEW b \in Stranger
        PROVE  Rationed(guesses'[b], attempts'[b], Cardinality(Unrecorded(b)'), now')
    BY <1>t, <2>1, <2>2, <2>4, <2>5, <2>6 DEF RationInv
  <2>. QED  BY <1>s, <2>1, <2>7 DEF RationInv
<1>6. CASE UNCHANGED vars
  <2>1. \A a : Unrecorded(a)' = Unrecorded(a)
    BY <1>6 DEF vars, Unrecorded
  <2>. QED  BY <1>6, <2>1, RationKept DEF vars
<1>. QED  BY <1>1, <1>2, <1>3, <1>4, <1>5, <1>6 DEF Next

(* However requests overlap, each guess of a stranger in one server run has *)
(* been followed by no more of them than the window and the lockout it was  *)
(* made before allow (RationInv), so that one compared now keeps to the     *)
(* Budget (locked_out, record_failure).                                     *)
THEOREM RationInvariant == Spec => [](RationInv /\ GuessesAreRationed)
<1>1. Init => RationInv /\ GuessesAreRationed
  <2> SUFFICES ASSUME Init, NEW a \in Stranger
               PROVE  /\ Rationed(guesses[a], attempts[a], Cardinality(Unrecorded(a)), now)
                      /\ Spaced(guesses[a])
    BY DEF RationInv, GuessesAreRationed, Spaced
  <2>1. Stranger \subseteq Address
    BY LimiterAssumption
  <2>2. Unrecorded(a) = {}
    BY DEF Init, Unrecorded
  <2>3. guesses[a] = <<>> /\ attempts[a] = NoAttempts /\ now = 0
    BY <2>1 DEF Init
  <2>4. Rationed(<<>>, NoAttempts, 0, 0) /\ Spaced(<<>>)
    BY NewRecord, Numbers DEF Rationed, Spaced
  <2>. QED  BY <2>2, <2>3, <2>4, FS_EmptySet
<1>2. TypeOK /\ LimiterInv /\ RationInv /\ GuessesAreRationed /\ [Next]_vars
        => TypeOK' /\ LimiterInv' /\ RationInv' /\ GuessesAreRationed'
  BY NextLimiter, NextRationed
<1>. QED  BY <1>1, <1>2, InitLimiter, PTL DEF Spec

(* However many requests an address without a valid credential overlaps,   *)
(* and however late their failures are recorded, one server run, and its   *)
(* limiter, has no more than Budget of its guesses compared within a       *)
(* FAILURE_WINDOW, for every number of requests, limit and length of       *)
(* window and lockout that the assumptions on them allow (locked_out,      *)
(* record_failure, authenticate_inner).  Across a restart there is no such *)
(* bound: the next run starts with a budget of its own.                    *)
THEOREM GuessBudget == Spec => []GuessesAreRationed
BY RationInvariant, PTL
=============================================================================
