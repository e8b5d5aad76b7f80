----------------------------- MODULE KeyExpiry -----------------------------
(***************************************************************************)
(* The sliding expiry of a counter key in real time: redis.ttl against     *)
(* flush_interval, outages of Redis and slow calls.  Time advances one     *)
(* second per step of Second; what the code does without delay is done     *)
(* before (the clock waits for a tick that is due, a flush that is over, a *)
(* key whose time has come).                                               *)
(*                                                                         *)
(* One word is enough: every flush refreshes the keys of all words alike,  *)
(* those with an increment through Incr and all of them through Touch.  A  *)
(* flush takes effect in one step at its end; Daemon models its round      *)
(* trips, and Reset, which is a flush that also writes zeroes, is left out *)
(* here.                                                                   *)
(***************************************************************************)
EXTENDS Integers

CONSTANTS
    MaxInterval,            \* bound: flush_interval
    MaxTTL,                 \* bound: redis.ttl
    MaxSlow,                \* bound: seconds a flush takes
    MaxFails,               \* bound: outages
    MaxLines,               \* bound: lines that contain the word
    Horizon                 \* bound: seconds

ASSUME KeyExpiryAssumption ==
    /\ MaxInterval \in Nat \ {0} /\ MaxTTL \in Nat /\ MaxSlow \in Nat
    /\ MaxFails \in Nat /\ MaxLines \in Nat /\ Horizon \in Nat

VARIABLES
    interval, ttl,          \* flush_interval and redis.ttl
    value,                  \* the counter, or Missing
    left,                   \* seconds until the key expires, or Never
    buffer,                 \* increments not yet written
    initialized,
    untilTick,              \* seconds until the ticker fires
    tick,                   \* its channel holds a tick
    busy,                   \* seconds the flush in progress still takes,
                            \* Bootstrap before the first tick, or Idle
    up,                     \* whether Redis can be reached
    now, fails, lines,      \* how much of the bounds is used up
    \* history: whether this process has set the expiry; since it last did,
    \* the seconds, those of them spent in a flush, and the flushes that failed
    touched, since, slow, missed

confVars  == <<interval, ttl>>
keyVars   == <<value, left>>
loopVars  == <<initialized, tick, busy>>
clockVars == <<untilTick, now>>
histVars  == <<touched, since, slow, missed>>

vars == <<confVars, keyVars, buffer, loopVars, clockVars, up, fails, lines,
          histVars>>

Missing   == -1
Never     == -1
Idle      == -1
Bootstrap == -2

(* New, and Run up to the first ensureInit: an earlier process with an     *)
(* earlier configuration may have left a key.                              *)
Init ==
    /\ interval \in 1..MaxInterval
    /\ ttl \in 0..MaxTTL
    /\ \/ value = Missing /\ left = Never
       \/ value = 1 /\ left \in {Never} \cup 1..MaxTTL
    /\ buffer = 0
    /\ initialized = FALSE
    /\ untilTick = interval /\ tick = FALSE
    /\ busy = Bootstrap
    /\ up = TRUE
    /\ now = 0 /\ fails = 0 /\ lines = 0
    /\ touched = FALSE /\ since = 0 /\ slow = 0 /\ missed = 0
-----------------------------------------------------------------------------
(* Mutant of Warned: an expiry as long as the interval passes. *)
WarnedIfShorter == ttl > 0 /\ ttl < interval

(* Validate warns of the two options. *)
Warned == ttl > 0 /\ ttl <= interval

Plus(v, n) == IF v = Missing THEN n ELSE v + n

(* The expiry after EXPIRE or PERSIST of a key that exists. *)
Fresh == IF ttl > 0 THEN ttl ELSE Never

JustTouched ==
    touched' = TRUE /\ since' = 0 /\ slow' = 0 /\ missed' = 0

(* consume *)
Line ==
    /\ lines < MaxLines
    /\ lines' = lines + 1
    /\ buffer' = buffer + 1
    /\ UNCHANGED <<confVars, keyVars, loopVars, clockVars, up, fails, histVars>>

(* ensureInit before the ticker is created: SETNX with an expiry if the    *)
(* key is missing, then one Touch, whose failure is only noted.            *)
BootstrapTouched ==
    /\ busy = Bootstrap /\ up
    /\ value' = Plus(value, 0) /\ left' = Fresh
    /\ initialized' = TRUE /\ busy' = Idle
    /\ JustTouched
    /\ UNCHANGED <<confVars, buffer, tick, clockVars, up, fails, lines>>

BootstrapUntouched ==
    /\ busy = Bootstrap /\ up
    /\ value' = Plus(value, 0)
    /\ left' = IF value = Missing THEN Fresh ELSE left
    /\ initialized' = TRUE /\ busy' = Idle
    /\ UNCHANGED <<confVars, buffer, tick, clockVars, up, fails, lines,
                   histVars>>

BootstrapFails ==
    /\ busy = Bootstrap /\ ~up
    /\ busy' = Idle
    /\ UNCHANGED <<confVars, keyVars, buffer, initialized, tick, clockVars,
                   up, fails, lines, histVars>>

(* The select of Run takes the tick. *)
FlushBegins ==
    /\ tick /\ busy = Idle
    /\ tick' = FALSE
    /\ busy' \in 0..MaxSlow
    /\ UNCHANGED <<confVars, keyVars, buffer, initialized, clockVars, up,
                   fails, lines, histVars>>

(* INCRBY and SETNX create the key, Touch does not bring it back. *)
Written ==
    IF value = Missing /\ initialized /\ buffer = 0 THEN Missing
    ELSE Plus(value, buffer)

(* Mutant of Refreshed: an idle flush leaves the expiry alone. *)
RefreshedWhenWritten ==
    IF Written = Missing THEN Never
    ELSE IF initialized /\ (ttl = 0 \/ buffer = 0) THEN left
    ELSE Fresh

(* Touch at the end of every flush, also of one with nothing to write; a   *)
(* TTL of zero is applied by ensureInit only.                              *)
Refreshed ==
    IF Written = Missing THEN Never
    ELSE IF initialized /\ ttl = 0 THEN left
    ELSE Fresh

(* ensureInit until it has succeeded once, then the increments and Touch.  *)
FlushSucceeds ==
    /\ busy = 0 /\ up /\ left # 0
    /\ value' = Written /\ left' = Refreshed
    /\ buffer' = 0
    /\ initialized' = TRUE /\ busy' = Idle
    /\ IF initialized /\ ttl = 0 THEN UNCHANGED histVars ELSE JustTouched
    /\ UNCHANGED <<confVars, tick, clockVars, up, fails, lines>>

(* Restore puts the increments back. *)
FlushFails ==
    /\ busy = 0 /\ ~up
    /\ busy' = Idle
    /\ missed' = missed + 1
    /\ UNCHANGED <<confVars, keyVars, buffer, initialized, tick, clockVars,
                   up, fails, lines, touched, since, slow>>

(* Redis removes the key. *)
Expire ==
    /\ left = 0
    /\ value' = Missing /\ left' = Never
    /\ UNCHANGED <<confVars, buffer, loopVars, clockVars, up, fails, lines,
                   histVars>>

Fails ==
    /\ up /\ fails < MaxFails
    /\ up' = FALSE /\ fails' = fails + 1
    /\ UNCHANGED <<confVars, keyVars, buffer, loopVars, clockVars, lines,
                   histVars>>

Recovers ==
    /\ ~up
    /\ up' = TRUE
    /\ UNCHANGED <<confVars, keyVars, buffer, loopVars, clockVars, fails,
                   lines, histVars>>

NothingDue == left # 0 /\ busy \notin {0, Bootstrap} /\ ~(tick /\ busy = Idle)

(* The channel of time.Ticker holds one tick; one that finds it full is    *)
(* dropped.                                                                *)
Second ==
    /\ now < Horizon
    /\ NothingDue
    /\ now' = now + 1
    /\ left' = IF left = Never THEN Never ELSE left - 1
    /\ busy' = IF busy = Idle THEN Idle ELSE busy - 1
    /\ untilTick' = IF untilTick = 1 THEN interval ELSE untilTick - 1
    /\ tick' = (tick \/ untilTick = 1)
    /\ since' = since + 1
    /\ slow' = IF busy = Idle THEN slow ELSE slow + 1
    /\ UNCHANGED <<confVars, value, buffer, initialized, up, fails, lines,
                   touched, missed>>

Terminated == now = Horizon /\ NothingDue /\ UNCHANGED vars

Next ==
    \/ Line \/ BootstrapTouched \/ BootstrapUntouched \/ BootstrapFails
    \/ FlushBegins \/ FlushSucceeds \/ FlushFails
    \/ Expire \/ Fails \/ Recovers \/ Second \/ Terminated

Spec == Init /\ [][Next]_vars
-----------------------------------------------------------------------------
(* Properties.                                                             *)

KeyExpiryTypeOK ==
    /\ interval \in Nat \ {0} /\ ttl \in Nat
    /\ value \in Nat \cup {Missing}
    /\ left \in Nat \cup {Never}
    /\ buffer \in Nat
    /\ untilTick \in 1..interval
    /\ busy \in Nat \cup {Idle, Bootstrap}
    /\ initialized \in BOOLEAN /\ tick \in BOOLEAN /\ up \in BOOLEAN
    /\ touched \in BOOLEAN
    /\ now \in Nat /\ fails \in Nat /\ lines \in Nat
    /\ since \in Nat /\ slow \in Nat /\ missed \in Nat

(* "Keys of a live daemon must never expire" (refreshTTL), made precise: a *)
(* key whose expiry this process has set runs out only if redis.ttl is no  *)
(* longer than one flush_interval for the next flush, one more for every   *)
(* flush in a row that could not reach Redis, and the seconds these        *)
(* flushes took.                                                           *)
ExpiresOnlyWhenStarved ==
    touched /\ left = 0 => ttl <= (missed + 1) * interval + slow

(* In particular Validate warns of every configuration in which a key can  *)
(* run out although every flush succeeds at once.                          *)
WarnedOfExpiry == touched /\ left = 0 /\ missed = 0 /\ slow = 0 => Warned
=============================================================================
