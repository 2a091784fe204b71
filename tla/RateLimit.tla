------------------------------ MODULE RateLimit ------------------------------
(***************************************************************************)
(* check_rate_limit (core/rate_limit.py): one token bucket in Redis, asked *)
(* by several API processes.  The script is atomic, but the time it is     *)
(* given was read before by the process that calls it: it may be late, or  *)
(* come from a clock that is behind.  Fractions of a token are counted in  *)
(* units, so that a tick refills a whole number of them.                   *)
(***************************************************************************)
EXTENDS Integers

CONSTANTS
    Capacity,    \* tokens of a full bucket
    Unit,        \* units of one token
    Rate,        \* units refilled per tick
    TTL,         \* ticks without a call after which Redis drops the key
    Lag,         \* how far a call's time may be behind the fastest clock
    Pause,       \* ticks that refill one token
    MaxTime, MaxBack, MaxFlushes    \* bounds for TLC

ASSUME BucketAssumption ==
    /\ Capacity \in Nat \ {0} /\ Unit \in Nat \ {0} /\ Rate \in Nat
    /\ TTL \in Nat /\ Lag \in Nat /\ Pause \in Nat
    /\ MaxTime \in Nat /\ MaxBack \in Nat /\ MaxFlushes \in Nat

Full == Capacity * Unit

\* The key outlives the time a bucket needs to fill up.
ASSUME TTLAssumption == TTL >= Lag /\ Rate * (TTL - Lag) >= Full
ASSUME PauseAssumption == Rate * Pause >= Unit

VARIABLES
    time,      \* the fastest clock
    stored,    \* does Redis have the key?
    tokens,    \* its field tokens, in units
    ts,        \* its field ts, the time of the last call
    used,      \* when the last call was made
    allowed,   \* history, since observation began: calls that were allowed,
    start,     \*   ts at its beginning,
    back,      \*   by how much ts has gone back in all,
    flushes    \*   how often Redis was flushed

vars == <<time, stored, tokens, ts, used, allowed, start, back, flushes>>

TypeOK ==
    /\ time \in Nat /\ stored \in BOOLEAN /\ tokens \in 0 .. Full
    /\ ts \in Nat /\ used \in Nat /\ ts <= used /\ used <= time
    /\ allowed \in Nat /\ start \in Nat /\ back \in Nat /\ flushes \in Nat

Init ==
    /\ time = 0 /\ stored = FALSE /\ tokens = 0 /\ ts = 0 /\ used = 0
    /\ allowed = 0 /\ start = 0 /\ back = 0 /\ flushes = 0

Elapsed(now) == IF now > ts THEN now - ts ELSE 0

\* Mutant: the bucket overflows.
RefilledPastFull(now) == IF stored THEN tokens + Elapsed(now) * Rate ELSE Full

Refilled(now) ==
    IF stored /\ tokens + Elapsed(now) * Rate < Full
    THEN tokens + Elapsed(now) * Rate ELSE Full

\* Mutant: the token is taken before the bucket is looked at.
TakeFirst(now) ==
    /\ tokens' = Refilled(now) - Unit
    /\ allowed' = IF Refilled(now) >= Unit THEN allowed + 1 ELSE allowed

Take(now) ==
    IF Refilled(now) >= Unit THEN tokens' = Refilled(now) - Unit /\ allowed' = allowed + 1
    ELSE tokens' = Refilled(now) /\ allowed' = allowed

\* ts becomes now even if that is earlier: the ticks in between are refilled again.
Check(now) ==
    /\ Take(now)
    /\ stored' = TRUE /\ ts' = now /\ used' = time
    /\ back' = IF now < ts THEN back + (ts - now) ELSE back
    /\ back' <= MaxBack
    /\ UNCHANGED <<time, start, flushes>>

Tick ==
    /\ time < MaxTime
    /\ time' = time + 1
    /\ UNCHANGED <<stored, tokens, ts, used, allowed, start, back, flushes>>

\* EXPIRE: nobody has called for TTL ticks.
Expire ==
    /\ stored /\ time >= used + TTL
    /\ stored' = FALSE
    /\ UNCHANGED <<time, tokens, ts, used, allowed, start, back, flushes>>

\* Redis is flushed or restarted without its data.
Flush ==
    /\ flushes < MaxFlushes
    /\ stored' = FALSE /\ flushes' = flushes + 1
    /\ UNCHANGED <<time, tokens, ts, used, allowed, start, back>>

\* Observation may begin at any time.
Observe ==
    /\ allowed' = 0 /\ start' = ts /\ back' = 0 /\ flushes' = 0
    /\ UNCHANGED <<time, stored, tokens, ts, used>>

Next ==
    \/ \E now \in 0 .. time : now >= time - Lag /\ Check(now)
    \/ Tick \/ Expire \/ Flush \/ Observe

Spec == Init /\ [][Next]_vars

-----------------------------------------------------------------------------

\* Whenever one begins to count, no more calls are allowed than a full bucket and the
\* refill of the time that passed, unless Redis is flushed (one more bucket each time)
\* or calls overtake each other (the ticks between them once more).
AllowedIsBounded ==
    Unit * allowed <= Full * (1 + flushes) + Rate * (ts - start + back)

\* A client that pauses for the time of one token is never refused, whoever's clock
\* is used: refused calls cost nothing.
PauseIsEnough ==
    time >= used + Pause + Lag => \A now \in time - Lag .. time : Refilled(now) >= Unit

=============================================================================
