---------------------------- MODULE RateLimiter ----------------------------
(***************************************************************************)
(* The per-address lockout in front of every authenticated endpoint        *)
(* (RateLimiter in src/security.rs, authenticate_inner in src/app.rs).     *)
(*                                                                         *)
(* locked_out, record_failure and record_success each take the mutex on    *)
(* attempts for themselves.  A request checks the lockout first and        *)
(* records its outcome last; requests of one address run in parallel in    *)
(* between, and any of them may be overtaken by any number of the others.  *)
(***************************************************************************)
EXTENDS Integers, Sequences, FiniteSets

CONSTANTS
  Handler,        \* requests that may be in flight at one time
  Address,        \* peer addresses
  Stranger,       \* the addresses that never present a valid credential
  MAX_FAILURES_PER_WINDOW, FAILURE_WINDOW, LOCKOUT_DURATION,
  MAX_NOW,        \* bound on the clock
  MAX_SERVERS     \* bound on server runs: a limiter for each

ASSUME LimiterAssumption ==
  /\ Stranger \subseteq Address
  /\ MAX_FAILURES_PER_WINDOW \in Nat \ {0}
  /\ FAILURE_WINDOW \in Nat /\ LOCKOUT_DURATION \in Nat
  /\ MAX_NOW \in Nat /\ MAX_SERVERS \in Nat \ {0}

\* The bound on guesses needs that a lockout lasts for a window and that the
\* failure that opens a window does not lock; the code has 8, 60 s and 60 s.
ASSUME RationAssumption ==
  /\ IsFiniteSet(Handler)
  /\ MAX_FAILURES_PER_WINDOW >= 2
  /\ LOCKOUT_DURATION > 0 /\ LOCKOUT_DURATION >= FAILURE_WINDOW

VARIABLES
  now,        \* the monotonic clock behind Instant::now()
  attempts,   \* the AttemptRecord of each address
  req,        \* the requests in flight
  guesses,    \* history: when this server's limiter let each stranger have a
              \* bad credential compared
  server      \* the running server: it made the limiter

vars == <<now, attempts, req, guesses, server>>

Never == -1

\* AttemptRecord::default(): what an address without an entry amounts to.
NoAttempts == [failures |-> 0, window |-> Never, until |-> Never]
AttemptRecord == [failures: Nat, window: Int, until: Int]

RequestRecord ==
  [pc: {"idle", "check", "failed", "succeeded"}, addr: Address]

TypeOK ==
  /\ now \in 0..MAX_NOW /\ server \in 1..MAX_SERVERS
  /\ attempts \in [Address -> AttemptRecord]
  /\ req \in [Handler -> RequestRecord]
  /\ guesses \in [Stranger -> Seq(Nat)]

LockedOut(a) == attempts[a].until > now

Init ==
  /\ now = 0 /\ server = 1
  /\ attempts = [a \in Address |-> NoAttempts]
  /\ req \in [Handler -> [pc: {"idle"}, addr: Address]]
  /\ guesses = [a \in Stranger |-> <<>>]

Tick ==
  /\ now < MAX_NOW
  /\ now' = now + 1
  /\ UNCHANGED <<attempts, req, guesses, server>>

Arrive(h) ==
  /\ req[h].pc = "idle"
  /\ \E a \in Address : req' = [req EXCEPT ![h] = [pc |-> "check", addr |-> a]]
  /\ UNCHANGED <<now, attempts, guesses, server>>

\* 429 Too Many Requests: nothing is compared and nothing recorded.
RefuseLockedOut(h) ==
  /\ req[h].pc = "check"
  /\ LockedOut(req[h].addr)
  /\ req' = [req EXCEPT ![h].pc = "idle"]
  /\ UNCHANGED <<now, attempts, guesses, server>>

\* Past the lockout check, the credential is compared, whatever the other
\* requests of the address have recorded by then.
BugCompareCredential(h) ==
  LET a == req[h].addr
  IN /\ req[h].pc = "check"
     /\ \/ /\ a \notin Stranger
           /\ req' = [req EXCEPT ![h].pc = "succeeded"]
           /\ UNCHANGED guesses
        \/ /\ req' = [req EXCEPT ![h].pc = "failed"]
           /\ guesses' = IF a \in Stranger
                        THEN [guesses EXCEPT ![a] = Append(@, now)]
                        ELSE guesses
     /\ UNCHANGED <<now, attempts, server>>
CompareCredential(h) ==
  LET a == req[h].addr
  IN /\ req[h].pc = "check"
     /\ ~LockedOut(a)
     /\ \/ /\ a \notin Stranger
           /\ req' = [req EXCEPT ![h].pc = "succeeded"]
           /\ UNCHANGED guesses
        \/ /\ req' = [req EXCEPT ![h].pc = "failed"]
           /\ guesses' = IF a \in Stranger
                        THEN [guesses EXCEPT ![a] = Append(@, now)]
                        ELSE guesses
     /\ UNCHANGED <<now, attempts, server>>

BugRecordFailure(h) ==
  LET a == req[h].addr
      old == attempts[a]
      windowExpired == old.window = Never \/ now - old.window > FAILURE_WINDOW
      failures == IF windowExpired THEN 1 ELSE old.failures + 1
  IN /\ req[h].pc = "failed"
     /\ attempts' = [attempts EXCEPT ![a] =
          [failures |-> failures,
           window |-> IF windowExpired THEN now ELSE old.window,
           until |-> IF failures >= MAX_FAILURES_PER_WINDOW
                     THEN now + LOCKOUT_DURATION
                     ELSE IF windowExpired THEN Never ELSE old.until]]
     /\ req' = [req EXCEPT ![h].pc = "idle"]
     /\ UNCHANGED <<now, guesses, server>>

RecordFailure(h) ==
  LET a == req[h].addr
      old == attempts[a]
      windowExpired == old.window = Never \/ now - old.window > FAILURE_WINDOW
      failures == IF windowExpired THEN 1 ELSE old.failures + 1
  IN /\ req[h].pc = "failed"
     /\ attempts' = [attempts EXCEPT ![a] =
          [failures |-> failures,
           window |-> IF windowExpired THEN now ELSE old.window,
           until |-> IF failures >= MAX_FAILURES_PER_WINDOW
                     THEN now + LOCKOUT_DURATION ELSE old.until]]
     /\ req' = [req EXCEPT ![h].pc = "idle"]
     /\ UNCHANGED <<now, guesses, server>>

BugRecordSuccess(h) ==
  /\ req[h].pc = "succeeded"
  /\ attempts' = [attempts EXCEPT ![req[h].addr].failures = @ - 1]
  /\ req' = [req EXCEPT ![h].pc = "idle"]
  /\ UNCHANGED <<now, guesses, server>>

RecordSuccess(h) ==
  /\ req[h].pc = "succeeded"
  /\ attempts' = [attempts EXCEPT ![req[h].addr] = NoAttempts]
  /\ req' = [req EXCEPT ![h].pc = "idle"]
  /\ UNCHANGED <<now, guesses, server>>

\* Every server run builds its AppState, and its limiter, anew: it has forgotten
\* every failure and every lockout, and its count of guesses starts afresh.
RestartServer ==
  /\ server < MAX_SERVERS
  /\ \A h \in Handler : req[h].pc = "idle"
  /\ server' = server + 1
  /\ attempts' = [a \in Address |-> NoAttempts]
  /\ guesses' = [a \in Stranger |-> <<>>]
  /\ UNCHANGED <<now, req>>

Next ==
  \/ Tick \/ RestartServer
  \/ \E h \in Handler :
       \/ Arrive(h) \/ RefuseLockedOut(h) \/ CompareCredential(h)
       \/ RecordFailure(h) \/ RecordSuccess(h)

Spec == Init /\ [][Next]_vars

---------------------------------------------------------------------------
(* Properties *)

\* A FAILURE_WINDOW of the reader's choice may overlap two of the limiter's.
\* Each lets the failure that locks it be followed by those of the requests
\* that had passed the lockout check by then.
Budget == 2 * (MAX_FAILURES_PER_WINDOW + Cardinality(Handler)) - 3

(* Of one server run, an address with no valid credential never gets more  *)
(* than Budget bad credentials compared in a FAILURE_WINDOW, wherever in   *)
(* the run it starts, however its requests overlap and however late their  *)
(* failures are recorded (locked_out and record_failure).  A window that   *)
(* overlaps a restart is not bounded by it: the new limiter has a budget   *)
(* of its own.                                                             *)
GuessesAreRationed ==
  \A a \in Stranger :
    \A i \in DOMAIN guesses[a] :
      i + Budget \in DOMAIN guesses[a] =>
        guesses[a][i + Budget] - guesses[a][i] > FAILURE_WINDOW

\* The guesses of a stranger that are compared and not yet recorded.
Unrecorded(a) == {h \in Handler : req[h].pc = "failed" /\ req[h].addr = a}

\* An address with the attempt record r has made a guess at time x that k
\* others followed; p guesses are not yet recorded at time t.  The later it was
\* made, the fewer have followed: after the window, in it, or in the one before.
OneWindow == MAX_FAILURES_PER_WINDOW + Cardinality(Handler) - 2

InWindow(x, k, r, p) ==
  /\ x > r.window + FAILURE_WINDOW => k < p
  /\ x > r.window => k < r.failures - 1 + p
  /\ x >= r.window => k < r.failures + p
  /\ x >= r.window - FAILURE_WINDOW => k < OneWindow + r.failures + p

\* Once the window has locked the address, only those unrecorded guesses add
\* to the count that were made after the lockout.
InLockout(x, k, r, p, t) ==
  LET more == IF r.until > t THEN 0 ELSE p
  IN /\ x > r.window => k < OneWindow + more
     /\ r.until <= r.window + FAILURE_WINDOW =>
          /\ x > r.window => k < p
          /\ x >= r.window => k < OneWindow + 1 + more

Rationed(g, r, p, t) ==
  /\ r.until <= t + LOCKOUT_DURATION
  /\ \A i \in DOMAIN g : g[i] <= t
  /\ \/ r = NoAttempts /\ Len(g) = p
     \/ /\ r.window \in 0..t /\ r.failures > 0
        /\ \A i \in DOMAIN g : InWindow(g[i], Len(g) - i, r, p)
        /\ r.failures >= MAX_FAILURES_PER_WINDOW =>
             /\ r.until >= r.window + LOCKOUT_DURATION
             /\ \A i \in DOMAIN g : InLockout(g[i], Len(g) - i, r, p, t)

RationInv ==
  \A a \in Stranger :
    Rationed(guesses[a], attempts[a], Cardinality(Unrecorded(a)), now)

(* While its server runs, a lockout of such an address is never cut short, *)
(* not even by a failure recorded late, in a new window, while the lockout *)
(* lasts (record_failure).                                                 *)
LockoutOnlyGrows ==
  [][\A a \in Stranger :
       attempts[a].until <= attempts'[a].until \/ server' # server]_vars

(* What docs/TROUBLESHOOTING.md says of every address: there is no way to  *)
(* clear a lockout early short of restarting the companion.                *)
LockoutLasts ==
  [][\A a \in Address :
       LockedOut(a) /\ server' = server =>
         attempts[a].until <= attempts'[a].until]_vars
=============================================================================
