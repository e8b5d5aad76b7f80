-------------------------- MODULE KeyExpiryProofs --------------------------
(***************************************************************************)
(* Theorems about KeyExpiry, for every flush_interval and redis.ttl, and   *)
(* for outages and flushes of any number and length.                       *)
(***************************************************************************)
EXTENDS KeyExpiry, TLAPS

(* The expiry this process has given the key and the seconds since then    *)
(* add up to redis.ttl.                                                    *)
Countdown ==
    /\ busy = Bootstrap => ~touched
    /\ touched /\ left # Never => ttl > 0 /\ left + since = ttl

(* With a TTL every flush refreshes the expiry or fails; the seconds       *)
(* outside of a flush that are still to come up to the next tick are       *)
(* untilTick.                                                              *)
Waited ==
    touched /\ ttl > 0 =>
      /\ since <= missed * interval + interval + slow
      /\ busy = Idle /\ ~tick =>
           since <= missed * interval + (interval - untilTick) + slow

ExpiryInv == KeyExpiryTypeOK /\ Countdown /\ Waited

(* Run starts with no key or one it has not touched. *)
LEMMA ExpiryInit == Init => ExpiryInv
<1> SUFFICES ASSUME Init PROVE ExpiryInv
  OBVIOUS
<1> USE KeyExpiryAssumption DEF Init, Missing, Never, Idle, Bootstrap
<1>1. KeyExpiryTypeOK
  <2>1. /\ initialized \in BOOLEAN /\ tick \in BOOLEAN /\ up \in BOOLEAN
        /\ touched \in BOOLEAN
    OBVIOUS
  <2>2. /\ interval \in Nat \ {0} /\ ttl \in Nat
        /\ value \in Nat \cup {Missing} /\ left \in Nat \cup {Never}
        /\ buffer \in Nat /\ untilTick \in 1..interval
        /\ busy \in Nat \cup {Idle, Bootstrap}
    OBVIOUS
  <2>3. /\ now \in Nat /\ fails \in Nat /\ lines \in Nat
        /\ since \in Nat /\ slow \in Nat /\ missed \in Nat
    OBVIOUS
  <2> QED
    BY <2>1, <2>2, <2>3 DEF KeyExpiryTypeOK
<1>2. Countdown /\ Waited
  BY DEF Countdown, Waited
<1> QED
  BY <1>1, <1>2 DEF ExpiryInv

(* Every step keeps the types: the clock stops before a count falls below  *)
(* zero.                                                                   *)
LEMMA ExpiryTypeStep ==
  ASSUME KeyExpiryTypeOK, [Next]_vars
  PROVE  KeyExpiryTypeOK'
<1> USE KeyExpiryAssumption
    DEF KeyExpiryTypeOK, Missing, Never, Idle, Bootstrap, confVars, keyVars,
        loopVars, clockVars, histVars, Plus, Fresh
<1>1. CASE Line
  BY <1>1 DEF Line
<1>2. CASE BootstrapTouched
  BY <1>2 DEF BootstrapTouched, JustTouched
<1>3. CASE BootstrapUntouched
  BY <1>3 DEF BootstrapUntouched
<1>4. CASE BootstrapFails
  BY <1>4 DEF BootstrapFails
<1>5. CASE FlushBegins
  <2>1. busy' \in Nat
    BY <1>5 DEF FlushBegins
  <2>2. tick' \in BOOLEAN /\ initialized' \in BOOLEAN
    BY <1>5 DEF FlushBegins
  <2> QED
    BY <1>5, <2>1, <2>2 DEF FlushBegins
<1>6. CASE FlushSucceeds
  <2>1. Written \in Nat \cup {Missing} /\ Refreshed \in Nat \cup {Never}
    BY DEF Written, Refreshed
  <2>2. since' \in Nat /\ slow' \in Nat /\ missed' \in Nat
    BY <1>6 DEF FlushSucceeds, JustTouched
  <2>3. touched' \in BOOLEAN
    BY <1>6 DEF FlushSucceeds, JustTouched
  <2> QED
    BY <1>6, <2>1, <2>2, <2>3 DEF FlushSucceeds
<1>7. CASE FlushFails
  BY <1>7 DEF FlushFails
<1>8. CASE Expire
  BY <1>8 DEF Expire
<1>9. CASE Fails
  <2>1. fails' \in Nat
    BY <1>9 DEF Fails
  <2>2. up' \in BOOLEAN
    BY <1>9 DEF Fails
  <2> QED
    BY <1>9, <2>1, <2>2 DEF Fails
<1>10. CASE Recovers
  BY <1>10 DEF Recovers
<1>11. CASE Second
  <2>1. busy = Idle \/ busy \in Nat \ {0}
    BY <1>11 DEF Second, NothingDue
  <2>2. left = Never \/ left \in Nat \ {0}
    BY <1>11 DEF Second, NothingDue
  <2>3. busy' \in Nat \cup {Idle, Bootstrap} /\ left' \in Nat \cup {Never}
    BY <1>11, <2>1, <2>2 DEF Second
  <2>4. untilTick' \in 1..interval
    BY <1>11 DEF Second
  <2>5. tick' \in BOOLEAN
    BY <1>11 DEF Second
  <2> QED
    BY <1>11, <2>3, <2>4, <2>5 DEF Second
<1>12. CASE UNCHANGED vars
  BY <1>12 DEF vars
<1> QED
  BY <1>1, <1>2, <1>3, <1>4, <1>5, <1>6, <1>7, <1>8, <1>9, <1>10,
     <1>11, <1>12
  DEF Next, Terminated

(* EXPIRE starts the countdown, and only the clock moves it.               *)
LEMMA CountdownStep ==
  ASSUME ExpiryInv, [Next]_vars
  PROVE  Countdown'
<1> USE KeyExpiryAssumption
    DEF ExpiryInv, KeyExpiryTypeOK, Countdown, Missing, Never, Idle, Bootstrap,
        confVars, keyVars, loopVars, clockVars, histVars
<1>1. CASE Line \/ BootstrapFails \/ FlushBegins \/ FlushFails \/ Fails
             \/ Recovers
  BY <1>1 DEF Line, BootstrapFails, FlushBegins, FlushFails, Fails, Recovers
<1>2. CASE BootstrapTouched
  BY <1>2 DEF BootstrapTouched, JustTouched, Fresh
<1>3. CASE BootstrapUntouched
  BY <1>3 DEF BootstrapUntouched
<1>4. CASE FlushSucceeds
  <2>1. CASE initialized /\ ttl = 0
    BY <1>4, <2>1 DEF FlushSucceeds, Refreshed
  <2>2. CASE ~(initialized /\ ttl = 0)
    BY <1>4, <2>2 DEF FlushSucceeds, Refreshed, JustTouched, Fresh
  <2> QED
    BY <2>1, <2>2
<1>5. CASE Expire
  BY <1>5 DEF Expire
<1>6. CASE Second
  BY <1>6 DEF Second, NothingDue
<1>7. CASE UNCHANGED vars
  BY <1>7 DEF vars
<1> QED
  BY <1>1, <1>2, <1>3, <1>4, <1>5, <1>6, <1>7 DEF Next, Terminated

(* The wait for the next tick is bounded by the interval, and a flush that *)
(* fails adds one interval to the bound.                                   *)
LEMMA WaitedStep ==
  ASSUME ExpiryInv, [Next]_vars
  PROVE  Waited'
<1> USE KeyExpiryAssumption
    DEF ExpiryInv, KeyExpiryTypeOK, Countdown, Waited, Missing, Never, Idle,
        Bootstrap, confVars, keyVars, loopVars, clockVars, histVars
<1>1. missed * interval \in Nat
  OBVIOUS
<1>2. CASE Line \/ Fails \/ Recovers \/ Expire
  BY <1>2 DEF Line, Fails, Recovers, Expire
<1>3. CASE BootstrapFails \/ BootstrapUntouched
  BY <1>3 DEF BootstrapFails, BootstrapUntouched
<1>4. CASE FlushBegins
  BY <1>4 DEF FlushBegins
<1>5. ASSUME JustTouched, UNCHANGED <<confVars, clockVars>>
      PROVE  Waited'
  <2>1. missed' * interval' = 0
    BY <1>5 DEF JustTouched
  <2> QED
    BY <1>5, <2>1 DEF JustTouched
<1>6. CASE BootstrapTouched
  BY <1>5, <1>6 DEF BootstrapTouched
<1>7. CASE FlushSucceeds
  <2>1. CASE initialized /\ ttl = 0
    BY <1>7, <2>1 DEF FlushSucceeds
  <2>2. CASE ~(initialized /\ ttl = 0)
    BY <1>5, <1>7, <2>2 DEF FlushSucceeds
  <2> QED
    BY <2>1, <2>2
<1>8. CASE FlushFails
  <2>1. missed' * interval' = missed * interval + interval
    BY <1>8 DEF FlushFails
  <2> QED
    BY <1>1, <1>8, <2>1 DEF FlushFails
<1>9. CASE Second
  <2>1. missed' * interval' = missed * interval
    BY <1>9 DEF Second
  <2>2. CASE busy = Idle
    <3>1. ~tick /\ since' = since + 1 /\ slow' = slow /\ busy' = Idle
      BY <1>9, <2>2 DEF Second, NothingDue
    <3>2. CASE untilTick = 1
      <4>1. tick'
        BY <1>9, <3>2 DEF Second
      <4> QED
        BY <1>1, <1>9, <2>1, <2>2, <3>1, <3>2, <4>1 DEF Second
    <3>3. CASE untilTick # 1
      BY <1>1, <1>9, <2>1, <2>2, <3>1, <3>3 DEF Second
    <3> QED
      BY <3>2, <3>3
  <2>3. CASE busy # Idle
    BY <1>1, <1>9, <2>1, <2>3 DEF Second, NothingDue
  <2> QED
    BY <2>2, <2>3
<1>10. CASE UNCHANGED vars
  BY <1>10 DEF vars
<1> QED
  BY <1>2, <1>3, <1>4, <1>6, <1>7, <1>8, <1>9, <1>10 DEF Next, Terminated

(* The three parts of the invariant together. *)
LEMMA ExpiryStep == ExpiryInv /\ [Next]_vars => ExpiryInv'
BY ExpiryTypeStep, CountdownStep, WaitedStep DEF ExpiryInv

(* A key of a live daemon runs out only if redis.ttl is no longer than one *)
(* flush_interval, one more for every flush in a row that did not reach    *)
(* Redis, and the seconds these flushes took: refreshTTL in every flush    *)
(* keeps it alive otherwise.                                               *)
THEOREM ExpiresOnlyWhenStarvedCorrect == Spec => []ExpiresOnlyWhenStarved
<1>1. ExpiryInv => ExpiresOnlyWhenStarved
  <2> SUFFICES ASSUME ExpiryInv, touched, left = 0
               PROVE  ttl <= (missed + 1) * interval + slow
    BY DEF ExpiresOnlyWhenStarved
  <2>1. ttl > 0 /\ ttl = since
    BY DEF ExpiryInv, Countdown, KeyExpiryTypeOK, Never
  <2>2. since <= missed * interval + interval + slow
    BY <2>1 DEF ExpiryInv, Waited
  <2>3. (missed + 1) * interval = missed * interval + interval
    BY DEF ExpiryInv, KeyExpiryTypeOK
  <2> QED
    BY <2>1, <2>2, <2>3 DEF ExpiryInv, KeyExpiryTypeOK
<1> QED
  BY ExpiryInit, ExpiryStep, <1>1, PTL DEF Spec

(* Validate warns of every pair of options with which a key can run out    *)
(* although every flush succeeds at once.                                  *)
THEOREM WarnedOfExpiryCorrect == Spec => []WarnedOfExpiry
<1>1. ExpiryInv => WarnedOfExpiry
  <2> SUFFICES ASSUME ExpiryInv, touched, left = 0, missed = 0, slow = 0
               PROVE  Warned
    BY DEF WarnedOfExpiry
  <2>1. ttl > 0 /\ ttl = since
    BY DEF ExpiryInv, Countdown, KeyExpiryTypeOK, Never
  <2>2. since <= missed * interval + interval + slow
    BY <2>1 DEF ExpiryInv, Waited
  <2>3. missed * interval = 0
    BY DEF ExpiryInv, KeyExpiryTypeOK
  <2> QED
    BY <2>1, <2>2, <2>3 DEF ExpiryInv, KeyExpiryTypeOK, Warned
<1> QED
  BY ExpiryInit, ExpiryStep, <1>1, PTL DEF Spec
=============================================================================
