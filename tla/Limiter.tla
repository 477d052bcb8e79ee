--------------------------------- MODULE Limiter ---------------------------------
(***************************************************************************)
(* createRateLimiter of src/server.js, the limiter that POST /api/login    *)
(* and POST /api/register share: a window that begins with the first       *)
(* request of an address after the last one is over.  Requests of any      *)
(* address sweep what is over.  Time does not run backwards.  The names of *)
(* the specification are its own: SignInProofs extends it beside Accounts. *)
(***************************************************************************)
EXTENDS Integers, Sequences

CONSTANTS Addresses,   \* req.ip
          windowMs, maxAttempts,
          SecondMs,    \* milliseconds in the unit of Retry-After
          MaxNow,      \* bound: the end of time
          NoEntry

ASSUME LimiterAssumption ==
    /\ windowMs \in Nat /\ maxAttempts \in Nat \ {0} /\ SecondMs \in Nat \ {0}
    /\ MaxNow \in Nat
    /\ NoEntry \notin [start : Nat, count : Nat \ {0}]
    /\ NoEntry \notin [at : Nat, until : Int]

VARIABLES
    now,    \* Date.now()
    hits,   \* the map: the window of each address, or NoEntry
    passed, \* history: when the requests of each address got through
    told    \* history: the last refusal of each address, and the end it was told

limiterVars == <<now, hits, passed, told>>

Windows == [start : Nat, count : Nat \ {0}]

\* The window is over: a request at its very end still counts.
Over(entry) == now - entry.start > windowMs

\* Math.ceil(ms / 1000); the mutant rounds down.
WholeSeconds(ms) == ms \div SecondMs
Seconds(ms) == (ms + SecondMs - 1) \div SecondMs

\* The quota of the window is used up; the mutant lets one more through.
SpentLater(entry) == entry.count > maxAttempts
Spent(entry) == entry.count >= maxAttempts

Swept == [b \in Addresses |-> IF hits[b] # NoEntry /\ Over(hits[b]) THEN NoEntry ELSE hits[b]]

--------------------------------------------------------------------------------
LimiterInit ==
    /\ now = 0
    /\ hits = [a \in Addresses |-> NoEntry]
    /\ passed = [a \in Addresses |-> <<>>]
    /\ told = [a \in Addresses |-> NoEntry]

Tick ==
    /\ now' \in now + 1 .. MaxNow
    /\ UNCHANGED <<hits, passed, told>>

Pass(a) ==
    /\ passed' = [passed EXCEPT ![a] = Append(@, now)]
    /\ UNCHANGED told

\* The first request of a window.
Opens(a) ==
    /\ Swept[a] = NoEntry
    /\ hits' = [Swept EXCEPT ![a] = [start |-> now, count |-> 1]]
    /\ Pass(a)
    /\ UNCHANGED now

Counted(a) ==
    /\ Swept[a] # NoEntry
    /\ ~Spent(hits[a])
    /\ hits' = [Swept EXCEPT ![a].count = @ + 1]
    /\ Pass(a)
    /\ UNCHANGED now

\* 429, with Retry-After.  The count goes on; beyond maxAttempts it tells nothing more.
TooMany(a) ==
    /\ Swept[a] # NoEntry
    /\ Spent(hits[a])
    /\ hits' = [Swept EXCEPT ![a].count = maxAttempts + 1]
    /\ told' = [told EXCEPT ![a] =
           [at |-> now, until |-> now + SecondMs * Seconds(windowMs - (now - hits[a].start))]]
    /\ UNCHANGED <<now, passed>>

LimiterNext == Tick \/ \E a \in Addresses : Opens(a) \/ Counted(a) \/ TooMany(a)

LimiterSpec == LimiterInit /\ [][LimiterNext]_limiterVars

--------------------------------------------------------------------------------
\* The window of an address, its requests and its last refusal are what they are.
LimiterTypeOK ==
    /\ now \in Nat
    /\ hits \in [Addresses -> Windows \cup {NoEntry}]
    /\ passed \in [Addresses -> Seq(Nat)]
    /\ told \in [Addresses -> [at : Nat, until : Int] \cup {NoEntry}]

\* "Fixed-window rate limiter" (server.js:35): two quotas may fit around the boundary of
\* two windows, but never one request more, wherever a span of windowMs is laid.
SlidingQuota ==
    \A a \in Addresses : \A i \in 1..Len(passed[a]) :
        i + 2 * maxAttempts \in 1..Len(passed[a]) =>
            passed[a][i + 2 * maxAttempts] - passed[a][i] > windowMs

\* "Try again in N seconds" (server.js:63): an address that comes back any later is not
\* refused in the window it was told about.
RetryHonest ==
    \A a \in Addresses :
        told[a] # NoEntry /\ hits[a] # NoEntry =>
            hits[a].start > told[a].at \/ hits[a].start + windowMs <= told[a].until
================================================================================
