--------------------------- MODULE RateLimitProofs ---------------------------
(***************************************************************************)
(* Theorems of RateLimit, for every capacity, rate, lag and expiry.        *)
(***************************************************************************)
EXTENDS RateLimit, TLAPS

Grant == Full * (1 + flushes) + Rate * (ts - start + back)

\* What is in the bucket and what was taken from it add up to no more than was
\* granted.  A key that is gone leaves room for a full bucket: it was flushed, or
\* nobody has called for so long that the time is granted to the next call.
GrantInv ==
    /\ stored => tokens + Unit * allowed <= Grant
    /\ ~stored => \/ Full + Unit * allowed <= Grant
                  \/ Unit * allowed <= Grant /\ time >= used + TTL

LimitInv == TypeOK /\ GrantInv

LEMMA FullIsNat == Full \in Nat /\ Unit <= Full /\ Unit \in Nat /\ Rate \in Nat
  <1>1. \A c, u \in Nat \ {0} : c * u \in Nat /\ u <= c * u
    <2> SUFFICES ASSUME NEW c \in Nat \ {0}, NEW u \in Nat \ {0} PROVE c * u \in Nat /\ u <= c * u
      OBVIOUS
    <2>1. c * u = u + (c - 1) * u
      OBVIOUS
    <2>2. (c - 1) * u >= 0 /\ (c - 1) * u \in Int
      OBVIOUS
    <2> QED BY <2>1, <2>2
  <1> QED BY <1>1, BucketAssumption DEF Full

LEMMA ElapsedIsNat ==
    ASSUME TypeOK, NEW now \in Nat
    PROVE  Elapsed(now) \in Nat /\ Elapsed(now) * Rate \in Nat
  <1>1. Elapsed(now) \in Nat
    BY DEF Elapsed, TypeOK
  <1>2. \A x, y \in Nat : x * y \in Nat
    OBVIOUS
  <1> QED BY <1>1, <1>2, FullIsNat

LEMMA RefilledIsTokens ==
    ASSUME TypeOK, NEW now \in Nat
    PROVE  /\ Refilled(now) \in 0 .. Full
           /\ stored => Refilled(now) <= tokens + Elapsed(now) * Rate
  BY ElapsedIsNat, FullIsNat DEF Refilled, TypeOK

LEMMA NextType == TypeOK /\ [Next]_vars => TypeOK'
  <1> SUFFICES ASSUME TypeOK, [Next]_vars PROVE TypeOK'
    OBVIOUS
  <1>1. ASSUME NEW now \in 0 .. time, now >= time - Lag, Check(now)
        PROVE  TypeOK'
    <2>1. now \in Nat /\ Refilled(now) \in 0 .. Full /\ Full \in Nat /\ Unit \in Nat
      BY <1>1, FullIsNat, RefilledIsTokens DEF TypeOK
    <2>2. tokens' \in 0 .. Full /\ allowed' \in Nat
      BY <1>1, <2>1 DEF Check, Take, TypeOK
    <2>3. back' \in Nat
      BY <1>1, <2>1 DEF Check, TypeOK
    <2> QED BY <1>1, <2>1, <2>2, <2>3 DEF Check, TypeOK
  <1>2. CASE Tick
    BY <1>2 DEF Tick, TypeOK
  <1>3. CASE Expire
    BY <1>3 DEF Expire, TypeOK
  <1>4. CASE Flush
    <2>1. stored' = FALSE /\ flushes' \in Nat
      BY <1>4 DEF Flush, TypeOK
    <2>2. stored' \in BOOLEAN
      BY <2>1, Zenon
    <2> QED BY <1>4, <2>1, <2>2 DEF Flush, TypeOK
  <1>5. CASE Observe
    BY <1>5 DEF Observe, TypeOK
  <1>6. CASE UNCHANGED vars
    BY <1>6 DEF vars, TypeOK
  <1> QED BY <1>1, <1>2, <1>3, <1>4, <1>5, <1>6 DEF Next

LEMMA GrantIsInt == TypeOK => Grant \in Int
  <1>1. \A x, y \in Int : x * y \in Int
    OBVIOUS
  <1> QED BY <1>1, FullIsNat DEF Grant, TypeOK

\* A call is granted the time since the last one, also if ts goes back.
LEMMA CheckGrants ==
    ASSUME TypeOK, NEW now \in Nat, Check(now)
    PROVE  Grant' = Grant + Elapsed(now) * Rate
  <1>1. Full' = Full
    BY DEF Full
  <1>2. (ts - start + back)' = (ts - start + back) + Elapsed(now)
    BY DEF Check, Elapsed, TypeOK
  <1>3. \A r, x, y \in Int : r * (x + y) = r * x + y * r
    OBVIOUS
  <1>4. Elapsed(now) \in Int /\ ts - start + back \in Int /\ Rate \in Int
    BY ElapsedIsNat, FullIsNat DEF TypeOK
  <1>5. Rate * (ts - start + back)' = Rate * (ts - start + back) + Elapsed(now) * Rate
    BY <1>2, <1>3, <1>4
  <1>6. flushes' = flushes /\ Full * (1 + flushes) \in Int
    BY FullIsNat DEF Check, TypeOK
  <1>7. Rate * (ts - start + back) \in Int /\ Elapsed(now) * Rate \in Int
    BY <1>4
  <1> QED BY <1>5, <1>6, <1>7 DEF Grant

LEMMA NextGrant == LimitInv /\ [Next]_vars => GrantInv'
  <1> SUFFICES ASSUME LimitInv, [Next]_vars PROVE GrantInv'
    OBVIOUS
  <1>1. TypeOK /\ Grant \in Int /\ Full \in Nat /\ Unit \in Nat /\ Rate \in Nat /\ Unit * allowed \in Nat
    <2>1. \A x, y \in Nat : x * y \in Nat
      OBVIOUS
    <2> QED BY <2>1, FullIsNat, GrantIsInt DEF LimitInv, TypeOK
  <1>2. ASSUME NEW now \in 0 .. time, now >= time - Lag, Check(now)
        PROVE  GrantInv'
    <2>1. Grant' = Grant + Elapsed(now) * Rate /\ Elapsed(now) * Rate \in Nat
      BY <1>1, <1>2, CheckGrants, ElapsedIsNat DEF TypeOK
    <2>2. Refilled(now) + Unit * allowed <= Grant + Elapsed(now) * Rate
      <3>1. CASE stored
        BY <1>1, <2>1, <3>1, RefilledIsTokens DEF LimitInv, GrantInv, TypeOK
      <3>2. CASE ~stored /\ Full + Unit * allowed <= Grant
        BY <1>1, <2>1, <3>2, RefilledIsTokens DEF TypeOK
      <3>3. CASE ~stored /\ Unit * allowed <= Grant /\ time >= used + TTL
        <4>1. Elapsed(now) >= TTL - Lag /\ TTL - Lag \in Nat
          BY <1>1, <1>2, <3>3, TTLAssumption, BucketAssumption DEF Elapsed, TypeOK
        <4>2. \A r, x, y \in Nat : x <= y => r * x <= y * r
          OBVIOUS
        <4>3. Rate * (TTL - Lag) <= Elapsed(now) * Rate
          BY <1>1, <1>2, <4>1, <4>2, ElapsedIsNat DEF TypeOK
        <4>4. Rate * (TTL - Lag) \in Nat /\ Full <= Rate * (TTL - Lag)
          BY <1>1, <4>1, TTLAssumption
        <4>5. Refilled(now) \in 0 .. Full
          BY <1>1, <1>2, RefilledIsTokens DEF TypeOK
        <4> QED BY <1>1, <2>1, <3>3, <4>3, <4>4, <4>5
      <3> QED BY <3>1, <3>2, <3>3 DEF LimitInv, GrantInv
    <2>3. tokens' + Unit * allowed' = Refilled(now) + Unit * allowed
      <3>1. Refilled(now) \in Int
        BY <1>1, <1>2, RefilledIsTokens DEF TypeOK
      <3>2. Unit * (allowed + 1) = Unit * allowed + Unit
        BY <1>1 DEF TypeOK
      <3> QED BY <1>1, <1>2, <3>1, <3>2 DEF Check, Take
    <2>4. stored'
      BY <1>2 DEF Check
    <2> QED BY <2>1, <2>2, <2>3, <2>4 DEF GrantInv
  <1>3. CASE Tick
    BY <1>1, <1>3, BucketAssumption DEF Tick, LimitInv, GrantInv, Grant, Full, TypeOK
  <1>4. CASE Expire
    <2>1. Grant' = Grant
      BY <1>4 DEF Expire, Grant, Full
    <2> QED BY <1>1, <1>4, <2>1 DEF Expire, LimitInv, GrantInv, TypeOK
  <1>5. CASE Flush
    <2>1. Grant' = Grant + Full
      <3>1. Full * (2 + flushes) = Full * (1 + flushes) + Full
        BY <1>1 DEF TypeOK
      <3>2. Full * (1 + flushes) \in Int /\ Rate * (ts - start + back) \in Int
        BY <1>1 DEF TypeOK
      <3>3. 1 + flushes' = 2 + flushes
        BY <1>1, <1>5 DEF Flush, TypeOK
      <3>4. Grant' = Full * (2 + flushes) + Rate * (ts - start + back)
        BY <1>5, <3>3 DEF Flush, Grant, Full
      <3> QED BY <1>1, <3>1, <3>2, <3>4 DEF Grant
    <2>2. Unit * allowed <= Grant
      BY <1>1 DEF LimitInv, GrantInv, TypeOK
    <2> QED BY <1>1, <1>5, <2>1, <2>2 DEF Flush, GrantInv
  <1>6. CASE Observe
    <2>1. Grant' = Full
      <3>1. (1 + flushes)' = 1 /\ (ts - start + back)' = 0
        BY <1>1, <1>6 DEF Observe, TypeOK
      <3>2. Full * 1 = Full /\ Rate * 0 = 0
        BY <1>1
      <3> QED BY <1>1, <3>1, <3>2 DEF Grant, Full
    <2>2. Unit * allowed' = 0
      BY <1>1, <1>6 DEF Observe
    <2> QED BY <1>1, <1>6, <2>1, <2>2 DEF Observe, GrantInv, TypeOK
  <1>7. CASE UNCHANGED vars
    BY <1>7 DEF vars, LimitInv, GrantInv, Grant, Full
  <1> QED BY <1>2, <1>3, <1>4, <1>5, <1>6, <1>7 DEF Next

LEMMA LimitInvInductive == Spec => []LimitInv
  <1>1. Init => LimitInv
    <2> SUFFICES ASSUME Init PROVE LimitInv
      OBVIOUS
    <2>1. TypeOK
      <3>1. stored = FALSE /\ 0 \in 0 .. Full
        BY FullIsNat DEF Init
      <3>2. stored \in BOOLEAN
        BY <3>1, Zenon
      <3> QED BY <3>1, <3>2 DEF Init, TypeOK
    <2>2. Full * (1 + 0) = Full /\ Rate * (0 - 0 + 0) = 0 /\ Unit * 0 = 0
      BY FullIsNat
    <2>3. Grant = Full /\ Unit * allowed = 0
      BY <2>2, FullIsNat DEF Init, Grant
    <2> QED BY <2>1, <2>3, FullIsNat DEF Init, LimitInv, GrantInv
  <1>2. LimitInv /\ [Next]_vars => LimitInv'
    BY NextType, NextGrant DEF LimitInv
  <1> QED BY <1>1, <1>2, PTL DEF Spec

\* The fields of the bucket keep their range, and the script never makes a token up.
THEOREM TypeCorrect == Spec => []TypeOK
  BY LimitInvInductive, PTL DEF LimitInv

\* For every interval, the calls check_rate_limit allows are bounded by a full bucket
\* and the time granted, whatever clocks the API processes have.
THEOREM AllowedIsBoundedCorrect == Spec => []AllowedIsBounded
  <1>1. LimitInv => AllowedIsBounded
    <2> SUFFICES ASSUME LimitInv PROVE Unit * allowed <= Grant
      BY DEF AllowedIsBounded, Grant
    <2>1. \A x, y \in Nat : x * y \in Nat
      OBVIOUS
    <2>2. Unit * allowed \in Nat /\ Grant \in Int /\ Full \in Nat
      BY <2>1, FullIsNat, GrantIsInt DEF LimitInv, TypeOK
    <2> QED BY <2>2 DEF LimitInv, GrantInv, TypeOK
  <1> QED BY <1>1, LimitInvInductive, PTL

\* A client that pauses for the time of one token is allowed its next call.
THEOREM PauseIsEnoughCorrect == Spec => []PauseIsEnough
  <1>1. TypeOK => PauseIsEnough
    <2> SUFFICES ASSUME TypeOK, time >= used + Pause + Lag, NEW now \in time - Lag .. time
                 PROVE  Refilled(now) >= Unit
      BY DEF PauseIsEnough
    <2>1. now \in Nat /\ Elapsed(now) >= Pause
      BY BucketAssumption DEF Elapsed, TypeOK
    <2>2. \A r, x, y \in Nat : x <= y => r * x <= y * r
      OBVIOUS
    <2>3. Rate * Pause <= Elapsed(now) * Rate /\ Rate * Pause \in Nat
      BY <2>1, <2>2, ElapsedIsNat, BucketAssumption
    <2>4. tokens + Elapsed(now) * Rate >= Unit
      BY <2>1, <2>3, ElapsedIsNat, FullIsNat, PauseAssumption DEF TypeOK
    <2> QED BY <2>4, FullIsNat DEF Refilled
  <1> QED BY <1>1, TypeCorrect, PTL
=============================================================================
