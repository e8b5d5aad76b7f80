------------------------------- MODULE Store -------------------------------
(***************************************************************************)
(* The keys of one instance in Redis and the commands that                 *)
(* internal/store/store.go sends.  Each operator with a parameter `reply'  *)
(* is one round trip: what the server does to the keys and what the        *)
(* client is told, which an unreliable connection can tell apart.          *)
(*                                                                         *)
(* The heartbeat string is represented by the number in its `lines='       *)
(* field.  A key either carries an expiry or it does not; the seconds left *)
(* are not modelled here.                                                  *)
(***************************************************************************)
EXTENDS Config

CONSTANTS
    Leftover,               \* counter values an earlier process may have left
    FaultKinds,             \* which ambiguous failures can happen
    MaxFaults               \* bound: failures the environment may cause

ASSUME StoreAssumption ==
    /\ Leftover \subseteq Nat
    /\ FaultKinds \subseteq {"lost", "half", "resent"}
    /\ MaxFaults \in Nat

VARIABLES
    ctr, hb,                \* value of the two keys of every word, or Missing
    ctrExp, hbExp,          \* the words whose key carries an expiry
    mode,                   \* the condition the server is in
    faults                  \* failures so far

keyVars   == <<ctr, hb, ctrExp, hbExp>>
storeVars == <<ctr, hb, ctrExp, hbExp, mode, faults>>

Missing == -1

(* How a call can end: nil, an error the server answered with, or an error *)
(* for which IsUnavailable holds.                                          *)
Replies == {"ok", "refused", "unavailable"}

IsUnavailable(reply) == reply = "unavailable"

StoreTypeOK ==
    /\ ctr \in [Actions -> Nat \cup {Missing}]
    /\ hb \in [Actions -> Nat \cup {Missing}]
    /\ ctrExp \subseteq Actions
    /\ hbExp \subseteq Actions
    /\ mode \in {"up", "refusing", "down"}
    /\ faults \in Nat

Present(key) == {a \in Actions : key[a] # Missing}

(* Either nothing is there or an earlier process left its counters, with   *)
(* the heartbeats if its configuration had them switched on and with an    *)
(* expiry if it had a TTL.                                                 *)
StoreInit ==
    /\ ctr \in [Actions -> Leftover \cup {Missing}]
    /\ hb \in {ctr, [a \in Actions |-> Missing]}
    /\ \/ ctrExp = {} /\ hbExp = {}
       \/ ctrExp = Present(ctr) /\ hbExp = Present(hb)
    /\ mode = "up"
    /\ faults = 0

(* The condition of the server: "refusing" answers any command with an     *)
(* error it pleases (read-only replica, out of memory, ACL, wrong type).   *)
Degrade ==
    /\ faults < MaxFaults
    /\ faults' = faults + 1
    /\ mode' \in {"refusing", "down"} \ {mode}
    /\ UNCHANGED keyVars

Recover ==
    /\ mode # "up"
    /\ mode' = "up"
    /\ UNCHANGED <<keyVars, faults>>

(* The server runs the command: the client learns it, unless the reply is  *)
(* lost on the way back.  The call then ends with that error, or with the  *)
(* refusal of an attempt that the client makes on its own.                 *)
Executed(reply) ==
    \/ /\ mode \in {"up", "refusing"}
       /\ reply = "ok"
       /\ UNCHANGED <<mode, faults>>
    \/ /\ "lost" \in FaultKinds
       /\ mode \in {"up", "refusing"}
       /\ faults < MaxFaults
       /\ faults' = faults + 1
       /\ \/ reply = "unavailable" /\ mode' = "down"
          \/ "resent" \in FaultKinds /\ reply = "refused" /\ mode' = "refusing"

(* The server does not run it. *)
Rejected(reply) ==
    /\ \/ mode = "refusing" /\ reply = "refused"
       \/ mode = "down" /\ reply = "unavailable"
    /\ UNCHANGED storeVars

(* The expiry SET and SETNX give the key they write. *)
Expiring(exp, a) == IF TTL > 0 THEN exp \cup {a} ELSE exp \ {a}

(* Mutant of SetNXCounter: the counter is not created. *)
SetNXNothing(a, reply) ==
    \/ Executed(reply) /\ UNCHANGED keyVars
    \/ Rejected(reply)

(* Init, one word: SETNX of the counter, GET of its value, SETNX of the    *)
(* heartbeat.  An existing key keeps its value and its expiry.             *)
SetNXCounter(a, reply) ==
    \/ /\ Executed(reply)
       /\ ctr' = [ctr EXCEPT ![a] = IF @ = Missing THEN 0 ELSE @]
       /\ ctrExp' = IF ctr[a] = Missing THEN Expiring(ctrExp, a) ELSE ctrExp
       /\ UNCHANGED <<hb, hbExp>>
    \/ Rejected(reply)

GetCounter(a, reply) ==
    \/ Executed(reply) /\ UNCHANGED keyVars
    \/ Rejected(reply)

SetNXHeartbeat(a, n, reply) ==
    \/ /\ Executed(reply)
       /\ hb' = [hb EXCEPT ![a] = IF @ = Missing THEN n ELSE @]
       /\ hbExp' = IF hb[a] = Missing THEN Expiring(hbExp, a) ELSE hbExp
       /\ UNCHANGED <<ctr, ctrExp>>
    \/ Rejected(reply)

(* Touch: one pipeline of EXPIRE or PERSIST over every key of every word.  *)
(* A refusing server may answer some of the commands and refuse others.    *)
Touched(exp, key, S) ==
    IF TTL > 0 THEN exp \cup (S \cap Present(key)) ELSE exp \ S

TouchKeys(S, T) ==
    /\ ctrExp' = Touched(ctrExp, ctr, S)
    /\ hbExp' = IF Heartbeat THEN Touched(hbExp, hb, T) ELSE hbExp
    /\ UNCHANGED <<ctr, hb>>

Touch(reply) ==
    \/ Executed(reply) /\ TouchKeys(Actions, Actions)
    \/ /\ mode = "refusing" /\ reply = "refused"
       /\ \E S, T \in SUBSET Actions : TouchKeys(S, T)
       /\ UNCHANGED <<mode, faults>>
    \/ mode = "down" /\ Rejected(reply)

Value(n) == IF n = Missing THEN 0 ELSE n

(* INCRBY, which leaves the expiry of the key alone, and with a TTL an     *)
(* EXPIRE in the same pipeline.                                            *)
Incremented(a, delta) ==
    /\ ctr' = [ctr EXCEPT ![a] = Value(@) + delta]
    /\ ctrExp' = IF TTL > 0 THEN ctrExp \cup {a} ELSE ctrExp
    /\ UNCHANGED <<hb, hbExp>>

(* Incr.  "half" is the pipeline whose INCRBY was executed and whose       *)
(* EXPIRE was refused: Incr reports it as an error.  "again" does not end  *)
(* the call: the increment was executed, its reply did not come, and the   *)
(* client, which New leaves at its default of retrying, is about to send   *)
(* it once more.  Every other command has the same effect if it is sent    *)
(* twice, so that the outcomes of Executed are all there is to say.        *)
Incr(a, delta, reply) ==
    \/ Executed(reply) /\ Incremented(a, delta)
    \/ /\ "resent" \in FaultKinds
       /\ mode \in {"up", "refusing"}
       /\ faults < MaxFaults
       /\ faults' = faults + 1
       /\ reply = "again"
       /\ Incremented(a, delta)
       /\ UNCHANGED mode
    \/ /\ "half" \in FaultKinds
       /\ TTL > 0
       /\ mode = "refusing"
       /\ faults < MaxFaults
       /\ faults' = faults + 1
       /\ reply = "refused"
       /\ ctr' = [ctr EXCEPT ![a] = Value(@) + delta]
       /\ UNCHANGED <<hb, ctrExp, hbExp, mode>>
    \/ Rejected(reply)

(* SetHeartbeat succeeds without a round trip when the option is off. *)
SetHeartbeat(a, n, reply) ==
    \/ /\ Heartbeat
       /\ Executed(reply)
       /\ hb' = [hb EXCEPT ![a] = n]
       /\ hbExp' = Expiring(hbExp, a)
       /\ UNCHANGED <<ctr, ctrExp>>
    \/ Heartbeat /\ Rejected(reply)
    \/ ~Heartbeat /\ reply = "ok" /\ UNCHANGED storeVars

(* The first half of Reset; the second is SetHeartbeat(a, 0, reply). *)
SetCounterZero(a, reply) ==
    \/ /\ Executed(reply)
       /\ ctr' = [ctr EXCEPT ![a] = 0]
       /\ ctrExp' = Expiring(ctrExp, a)
       /\ UNCHANGED <<hb, hbExp>>
    \/ Rejected(reply)
=============================================================================
