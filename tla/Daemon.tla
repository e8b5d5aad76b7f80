------------------------------- MODULE Daemon -------------------------------
(***************************************************************************)
(* internal/daemon/daemon.go: the Run loop with Flush, Reset and the       *)
(* shutdown drain, the goroutine that feeds lines into the counter, and    *)
(* what surrounds them - the cron scheduler, the signal, the exporter that *)
(* may die, `logstat clear' run by an operator, the end and the restart of *)
(* the process.                                                            *)
(*                                                                         *)
(* The main goroutine runs from one round trip to Redis to the next in one *)
(* step: between two of them it only touches state of its own, except for  *)
(* the counter, whose operations are steps of their own.                   *)
(***************************************************************************)
EXTENDS Counter, Store

CONSTANTS                   \* bounds on what the environment does
    LogLines,               \* the lines of the log, as sets of words
    MaxLines,               \* lines read by one process
    MaxCron,                \* firings of the reset schedule
    MaxClears,              \* runs of `logstat clear'
    MaxSignals,             \* SIGTERM or SIGINT
    MaxExporterFailures,    \* exporters that stop on their own
    MaxCrashes,             \* processes killed without a shutdown
    MaxRestarts             \* processes started after the first one

ASSUME BoundsAssumption ==
    /\ LogLines \subseteq SUBSET Actions
    /\ MaxLines \in Nat /\ MaxCron \in Nat /\ MaxClears \in Nat
    /\ MaxSignals \in Nat /\ MaxExporterFailures \in Nat
    /\ MaxCrashes \in Nat /\ MaxRestarts \in Nat

VARIABLES
    \* the main goroutine: where it is and the locals of Flush and Reset
    \* (`total' is 0 again once it is out of scope)
    pc, caller, i, deltas, unwritten, errs, resetErrs, unreachable, total,
    \* fields of Daemon
    initialized, pendingHeartbeats, pendingResets, redisDown,
    \* the tailer and the consumer: a line received and not yet processed
    tailing, inHand,
    \* channels of the select in Run, and the result of Run
    ctxDone, resetCh, metricsErr, exit,
    \* `logstat clear': the writes it still has to make
    clearing,
    \* history: `matched' at the time the reset in progress was taken from
    \* resetCh
    mark,
    spent                   \* how much of each bound is used up

flushVars  == <<deltas, unwritten, errs, unreachable, total>>
fieldVars  == <<initialized, pendingHeartbeats, pendingResets, redisDown>>
tailVars   == <<tailing, inHand>>
selectVars == <<ctxDone, resetCh, metricsErr, exit>>
mainVars   == <<pc, caller, i, flushVars, resetErrs, fieldVars>>
envVars    == <<tailVars, selectVars, clearing, spent>>
histVars   == <<mark>>

vars == <<counterVars, storeVars, mainVars, envVars, histVars>>

None == -1                  \* no entry in pendingHeartbeats

Limit == [cron     |-> MaxCron,
          clear    |-> MaxClears,
          signal   |-> MaxSignals,
          exporter |-> MaxExporterFailures,
          crash    |-> MaxCrashes,
          restart  |-> MaxRestarts]

Spend(k) ==
    /\ spent[k] < Limit[k]
    /\ spent' = [spent EXCEPT ![k] = @ + 1]

Callers == {"startup", "tick", "reset", "shutdown"}

Locations ==
    {"init_counter", "init_get", "init_hb", "init_touch",     \* ensureInit
     "select", "stopping", "waiting",                         \* Run, drain
     "drain", "idle_touch", "act", "touch",                   \* Flush
     "act_reset_hb", "act_hb",                                \* flushAction
     "reset", "reset_hb",                                     \* Reset
     "exited", "crashed"}

Ended == pc \in {"exited", "crashed"}
Running == ~Ended

ControlTypeOK ==
    /\ pc \in Locations
    /\ caller \in Callers
    /\ i \in 1..(N + 1)

FlushTypeOK ==
    /\ deltas \in [Actions -> Nat]
    /\ unwritten \in [Actions -> Nat]
    /\ errs \in Nat
    /\ resetErrs \in Nat
    /\ total \in Nat

FieldTypeOK ==
    /\ pendingHeartbeats \in [Actions -> Nat \cup {None}]
    /\ pendingResets \subseteq Actions

EnvTypeOK ==
    /\ inHand \subseteq SUBSET Actions
    /\ exit \in {"none", "nil", "error"}
    /\ clearing \subseteq Actions \X {"counter", "heartbeat"}
    /\ mark \in [Actions -> Nat]
    /\ spent \in [DOMAIN Limit -> Nat]

FlagTypeOK ==
    /\ unreachable \in BOOLEAN
    /\ initialized \in BOOLEAN
    /\ redisDown \in BOOLEAN
    /\ tailing \in BOOLEAN
    /\ ctxDone \in BOOLEAN
    /\ resetCh \in BOOLEAN
    /\ metricsErr \in BOOLEAN

(* The types of all variables. *)
TypeOK ==
    /\ CounterTypeOK
    /\ StoreTypeOK
    /\ ControlTypeOK
    /\ FlushTypeOK
    /\ FieldTypeOK
    /\ EnvTypeOK
    /\ FlagTypeOK

(* New and Run up to the bootstrap: the tailer is attached, the first      *)
(* ensureInit is next.                                                     *)
Init ==
    /\ CounterInit
    /\ StoreInit
    /\ pc = "init_counter" /\ caller = "startup" /\ i = 1
    /\ deltas = Zero /\ unwritten = Zero
    /\ errs = 0 /\ resetErrs = 0 /\ unreachable = FALSE /\ total = 0
    /\ initialized = FALSE
    /\ pendingHeartbeats = [a \in Actions |-> None]
    /\ pendingResets = {}
    /\ redisDown = FALSE
    /\ tailing = TRUE /\ inHand = {}
    /\ ctxDone = FALSE /\ resetCh = FALSE /\ metricsErr = FALSE
    /\ exit = "none"
    /\ clearing = {}
    /\ mark = Zero
    /\ spent = [k \in DOMAIN Limit |-> 0]

-----------------------------------------------------------------------------
(* Control flow shared by the steps of the main goroutine. *)

Goto(l) == pc' = l /\ UNCHANGED <<caller, i>>

(* On to the next word of the loop at location l. *)
NextAction(l) == pc' = l /\ i' = i + 1 /\ UNCHANGED caller

(* Mutant of EnterFlush: Reset does without the flush. *)
EnterFlushUnlessReset(who) ==
    /\ caller' = who
    /\ i' = 1
    /\ pc' = CASE who = "reset" -> "reset"
              [] who # "reset" /\ initialized -> "drain"
              [] OTHER -> "init_counter"

(* Flush begins with ensureInit. *)
EnterFlush(who) ==
    /\ caller' = who
    /\ i' = 1
    /\ pc' = IF initialized THEN "drain" ELSE "init_counter"

(* Mutant of ReturnTo: a shutdown goes back to the loop. *)
ReturnToLoop == [startup  |-> "select",
                 tick     |-> "select",
                 reset    |-> "reset",
                 shutdown |-> "select"]

(* Where Flush, or the ensureInit of the start, returns to. *)
ReturnTo == [startup  |-> "select",
             tick     |-> "select",
             reset    |-> "reset",
             shutdown |-> "exited"]

(* Reset then starts on its own loop with locals of its own. *)
ReturnFromFlush ==
    /\ pc' = ReturnTo[caller]
    /\ i' = 1
    /\ resetErrs' = 0
    /\ unreachable' = FALSE
    /\ UNCHANGED caller

(* Mutant of ForgetHeartbeat: the entry stays. *)
KeepHeartbeat == UNCHANGED pendingHeartbeats

(* The heartbeat of word i agrees with its counter: nothing to retry. *)
ForgetHeartbeat ==
    pendingHeartbeats' = [pendingHeartbeats EXCEPT ![i] = None]

(* Every step with a round trip is the main goroutine's own. *)
RoundTrip == UNCHANGED <<envVars, histVars>>

-----------------------------------------------------------------------------
(* ensureInit, with store.Init and the unconditional Touch after it. *)

(* noteRedisError; initialized stays false and the caller carries on. *)
InitFailed ==
    /\ ReturnFromFlush
    /\ redisDown' = TRUE
    /\ total' = 0
    /\ UNCHANGED <<deltas, unwritten, errs, initialized, pendingHeartbeats,
                   pendingResets>>

InitNext ==
    /\ IF i < N
       THEN NextAction("init_counter") /\ UNCHANGED <<initialized, redisDown>>
       ELSE Goto("init_touch") /\ initialized' = TRUE /\ redisDown' = FALSE
    /\ total' = 0
    /\ UNCHANGED <<deltas, unwritten, errs, unreachable, resetErrs,
                   pendingHeartbeats, pendingResets>>

InitCounter ==
    /\ pc = "init_counter"
    /\ \E reply \in Replies :
         /\ SetNXCounter(i, reply)
         /\ RoundTrip
         /\ \/ /\ reply = "ok" /\ Heartbeat
               /\ Goto("init_get")
               /\ UNCHANGED <<flushVars, resetErrs, fieldVars>>
            \/ reply = "ok" /\ ~Heartbeat /\ InitNext
            \/ reply # "ok" /\ InitFailed
    /\ UNCHANGED counterVars

InitGet ==
    /\ pc = "init_get"
    /\ \E reply \in Replies :
         /\ GetCounter(i, reply)
         /\ RoundTrip
         /\ \/ /\ reply = "ok"
               /\ total' = ctr[i]
               /\ Goto("init_hb")
               /\ UNCHANGED <<deltas, unwritten, errs, unreachable, resetErrs,
                              fieldVars>>
            \/ reply # "ok" /\ InitFailed
    /\ UNCHANGED counterVars

InitHeartbeat ==
    /\ pc = "init_hb"
    /\ \E reply \in Replies :
         /\ SetNXHeartbeat(i, total, reply)
         /\ RoundTrip
         /\ \/ reply = "ok" /\ InitNext
            \/ reply # "ok" /\ InitFailed
    /\ UNCHANGED counterVars

InitTouch ==
    /\ pc = "init_touch"
    /\ \E reply \in Replies :
         /\ Touch(reply)
         /\ RoundTrip
         /\ redisDown' = (redisDown \/ reply # "ok")
    /\ Goto(IF caller = "startup" THEN "select" ELSE "drain")
    /\ UNCHANGED <<counterVars, flushVars, resetErrs, initialized,
                   pendingHeartbeats, pendingResets>>

-----------------------------------------------------------------------------
(* Flush *)

(* Mutant of NothingToDo: only the buffer is looked at. *)
BufferEmpty == pending = Zero

NothingToDo ==
    /\ pending = Zero
    /\ \A a \in Actions : pendingHeartbeats[a] = None
    /\ pendingResets = {}

(* Drain takes the buffer; with nothing at all to do only the expiry of    *)
(* the keys is refreshed, which with a TTL of 0 is not even a round trip.  *)
FlushDrain ==
    /\ pc = "drain"
    /\ Drain
    /\ deltas' = pending
    /\ errs' = 0
    /\ \/ /\ NothingToDo /\ TTL = 0
          /\ ReturnFromFlush
       \/ /\ \/ NothingToDo /\ TTL > 0 /\ pc' = "idle_touch"
             \/ ~NothingToDo /\ pc' = "act"
          /\ i' = 1
          /\ unreachable' = FALSE
          /\ UNCHANGED <<caller, resetErrs>>
    /\ UNCHANGED <<storeVars, unwritten, total, fieldVars, envVars, histVars>>

(* Mutant of NoteAnswer: the answer to an idle flush reports no recovery. *)
NoteErrorOnly(reply) == redisDown' = (redisDown \/ reply # "ok")

(* noteRedisOK or noteRedisError, after the refresh of an idle flush. *)
NoteAnswer(reply) == redisDown' = (reply # "ok")

IdleTouch ==
    /\ pc = "idle_touch"
    /\ \E reply \in Replies :
         /\ Touch(reply)
         /\ RoundTrip
         /\ NoteAnswer(reply)
    /\ ReturnFromFlush
    /\ UNCHANGED <<counterVars, deltas, unwritten, errs, total, initialized,
                   pendingHeartbeats, pendingResets>>

(* The loop over the words.  Whatever happens to word i, its delta leaves  *)
(* `deltas' with it: into Redis, or into `unwritten'.                      *)
Taken == [deltas EXCEPT ![i] = 0]

Kept == [unwritten EXCEPT ![i] = deltas[i]]

(* Mutant of PutAside: a delta that could not be written is dropped. *)
PutAsideNever(retryDelta) == unwritten

(* What flushAction says about the delta when it returns an error. *)
PutAside(retryDelta) == IF retryDelta THEN Kept ELSE unwritten

(* The connection is known to be down: no attempt for this word. *)
ActSkip ==
    /\ pc = "act" /\ i <= N
    /\ unreachable
    /\ unwritten' = Kept
    /\ deltas' = Taken
    /\ NextAction("act")
    /\ UNCHANGED <<counterVars, storeVars, errs, unreachable, total, resetErrs,
                   fieldVars, envVars, histVars>>

(* flushAction returned an error: retryDelta puts the delta aside. *)
ActFailed(reply, retryDelta) ==
    /\ errs' = errs + 1
    /\ unwritten' = PutAside(retryDelta)
    /\ deltas' = Taken
    /\ redisDown' = TRUE
    /\ unreachable' = IsUnavailable(reply)
    /\ NextAction("act")

(* A deferred reset comes before the increment: store.Reset, two writes. *)
ActReset ==
    /\ pc = "act" /\ i <= N
    /\ ~unreachable
    /\ i \in pendingResets
    /\ \E reply \in Replies :
         /\ SetCounterZero(i, reply)
         /\ RoundTrip
         /\ \/ /\ reply = "ok"
               /\ Goto("act_reset_hb")
               /\ UNCHANGED <<deltas, unwritten, errs, unreachable, redisDown>>
            \/ reply # "ok" /\ ActFailed(reply, TRUE)
    /\ UNCHANGED <<counterVars, total, resetErrs, initialized,
                   pendingHeartbeats, pendingResets>>

ActResetHeartbeat ==
    /\ pc = "act_reset_hb"
    /\ \E reply \in Replies :
         /\ SetHeartbeat(i, 0, reply)
         /\ RoundTrip
         /\ \/ /\ reply = "ok"
               /\ pendingResets' = pendingResets \ {i}
               /\ ForgetHeartbeat
               /\ Goto("act")
               /\ UNCHANGED <<deltas, unwritten, errs, unreachable, redisDown>>
            \/ /\ reply # "ok"
               /\ ActFailed(reply, TRUE)
               /\ UNCHANGED <<pendingResets, pendingHeartbeats>>
    /\ UNCHANGED <<counterVars, total, resetErrs, initialized>>

(* Mutant of NoDeferredReset: the increment does not wait for the reset. *)
NoWaitForReset == TRUE

(* Past the deferred reset, flushAction has nothing to write ... *)
NoDeferredReset == i \notin pendingResets

ActNothing ==
    /\ pc = "act" /\ i <= N
    /\ ~unreachable
    /\ NoDeferredReset
    /\ deltas[i] = 0 /\ pendingHeartbeats[i] = None
    /\ NextAction("act")
    /\ UNCHANGED <<counterVars, storeVars, flushVars, resetErrs, fieldVars,
                   envVars, histVars>>

(* ... or only a heartbeat that could not be written earlier ... *)
ActPending ==
    /\ pc = "act" /\ i <= N
    /\ ~unreachable
    /\ NoDeferredReset
    /\ deltas[i] = 0 /\ pendingHeartbeats[i] # None
    /\ total' = pendingHeartbeats[i]
    /\ Goto("act_hb")
    /\ UNCHANGED <<counterVars, storeVars, deltas, unwritten, errs,
                   unreachable, resetErrs, fieldVars, envVars, histVars>>

(* ... or an increment, whose reply is the total for the heartbeat.  While *)
(* the client library sends it again, flushAction waits for the call.      *)
ActIncr ==
    /\ pc = "act" /\ i <= N
    /\ ~unreachable
    /\ NoDeferredReset
    /\ deltas[i] > 0
    /\ \E reply \in Replies \cup {"again"} :
         /\ Incr(i, deltas[i], reply)
         /\ RoundTrip
         /\ \/ /\ reply = "ok"
               /\ total' = ctr'[i]
               /\ Goto("act_hb")
               /\ UNCHANGED <<deltas, unwritten, errs, unreachable, redisDown>>
            \/ /\ reply = "again"
               /\ UNCHANGED <<pc, caller, i, flushVars, redisDown>>
            \/ /\ reply \in Replies \ {"ok"}
               /\ ActFailed(reply, TRUE)
               /\ UNCHANGED total
    /\ UNCHANGED <<counterVars, resetErrs, initialized, pendingHeartbeats,
                   pendingResets>>

(* The increment is in Redis: only the heartbeat is retried if it fails. *)
ActHeartbeat ==
    /\ pc = "act_hb"
    /\ \E reply \in Replies :
         /\ SetHeartbeat(i, total, reply)
         /\ RoundTrip
         /\ \/ /\ reply = "ok"
               /\ ForgetHeartbeat
               /\ deltas' = Taken
               /\ NextAction("act")
               /\ UNCHANGED <<unwritten, errs, unreachable, redisDown>>
            \/ /\ reply # "ok"
               /\ pendingHeartbeats' = [pendingHeartbeats EXCEPT ![i] = total]
               /\ ActFailed(reply, FALSE)
    /\ total' = 0
    /\ UNCHANGED <<counterVars, resetErrs, initialized, pendingResets>>

(* A flush without errors reports Redis as back, whatever the refresh of   *)
(* the expiry met.                                                         *)
FlushEnd(down) ==
    /\ redisDown' = (down /\ errs # 0)
    /\ ReturnFromFlush

(* After the loop: what could not be written goes back into the buffer. *)
FlushRestore ==
    /\ pc = "act" /\ i = N + 1
    /\ Restore(unwritten)
    /\ unwritten' = Zero
    /\ \/ /\ ~unreachable /\ TTL > 0
          /\ Goto("touch")
          /\ UNCHANGED <<unreachable, redisDown, resetErrs>>
       \/ /\ unreachable \/ TTL = 0
          /\ FlushEnd(redisDown)
    /\ UNCHANGED <<storeVars, deltas, errs, total, initialized,
                   pendingHeartbeats, pendingResets, envVars, histVars>>

FlushTouch ==
    /\ pc = "touch"
    /\ \E reply \in Replies :
         /\ Touch(reply)
         /\ RoundTrip
         /\ FlushEnd(redisDown \/ reply # "ok")
    /\ UNCHANGED <<counterVars, deltas, unwritten, errs, total, initialized,
                   pendingHeartbeats, pendingResets>>

-----------------------------------------------------------------------------
(* Reset, after the Flush it begins with *)

(* Mutant of DeferReset: the failed reset is forgotten. *)
DropReset == UNCHANGED pendingResets

DeferReset == pendingResets' = pendingResets \cup {i}

ResetSkip ==
    /\ pc = "reset" /\ i <= N
    /\ unreachable
    /\ DeferReset
    /\ resetErrs' = resetErrs + 1
    /\ NextAction("reset")
    /\ UNCHANGED <<counterVars, storeVars, flushVars, initialized,
                   pendingHeartbeats, redisDown, envVars, histVars>>

ResetFailed(reply) ==
    /\ DeferReset
    /\ redisDown' = TRUE
    /\ resetErrs' = resetErrs + 1
    /\ unreachable' = IsUnavailable(reply)
    /\ NextAction("reset")

ResetCounter ==
    /\ pc = "reset" /\ i <= N
    /\ ~unreachable
    /\ \E reply \in Replies :
         /\ SetCounterZero(i, reply)
         /\ RoundTrip
         /\ \/ /\ reply = "ok"
               /\ Goto("reset_hb")
               /\ UNCHANGED <<unreachable, resetErrs, pendingResets, redisDown>>
            \/ reply # "ok" /\ ResetFailed(reply)
    /\ UNCHANGED <<counterVars, deltas, unwritten, errs, total, initialized,
                   pendingHeartbeats>>

ResetHeartbeat ==
    /\ pc = "reset_hb"
    /\ \E reply \in Replies :
         /\ SetHeartbeat(i, 0, reply)
         /\ RoundTrip
         /\ \/ /\ reply = "ok"
               /\ ForgetHeartbeat
               /\ pendingResets' = pendingResets \ {i}
               /\ NextAction("reset")
               /\ UNCHANGED <<unreachable, resetErrs, redisDown>>
            \/ /\ reply # "ok"
               /\ ResetFailed(reply)
               /\ UNCHANGED pendingHeartbeats
    /\ UNCHANGED <<counterVars, deltas, unwritten, errs, total, initialized>>

ResetEnd ==
    /\ pc = "reset" /\ i = N + 1
    /\ redisDown' = (redisDown /\ resetErrs # 0)
    /\ mark' = Zero
    /\ Goto("select")
    /\ UNCHANGED <<counterVars, storeVars, flushVars, resetErrs, initialized,
                   pendingHeartbeats, pendingResets, envVars>>

-----------------------------------------------------------------------------
(* The select of Run.  Which of the ready cases it takes is random. *)

SelectTick ==
    /\ pc = "select"
    /\ EnterFlush("tick")
    /\ UNCHANGED <<counterVars, storeVars, flushVars, resetErrs, fieldVars,
                   envVars, histVars>>

SelectReset ==
    /\ pc = "select"
    /\ resetCh
    /\ resetCh' = FALSE
    /\ mark' = matched
    /\ EnterFlush("reset")
    /\ UNCHANGED <<counterVars, storeVars, flushVars, resetErrs, fieldVars,
                   tailVars, ctxDone, metricsErr, exit, clearing, spent>>

SelectDone ==
    /\ pc = "select"
    /\ ctxDone
    /\ exit' = "nil"
    /\ Goto("stopping")
    /\ UNCHANGED <<counterVars, storeVars, flushVars, resetErrs, fieldVars,
                   tailVars, ctxDone, resetCh, metricsErr, clearing, spent,
                   histVars>>

(* Mutant of SelectMetricsErr: the failure is logged and forgotten. *)
IgnoreMetricsErr ==
    /\ pc = "select"
    /\ metricsErr
    /\ UNCHANGED vars

SelectMetricsErr ==
    /\ pc = "select"
    /\ metricsErr
    /\ metricsErr' = FALSE
    /\ exit' = "error"
    /\ Goto("stopping")
    /\ UNCHANGED <<counterVars, storeVars, flushVars, resetErrs, fieldVars,
                   tailVars, ctxDone, resetCh, clearing, spent, histVars>>

(* drain: t.Stop, then wg.Wait for the consumer, then the last Flush. *)
StopTail ==
    /\ pc = "stopping"
    /\ tailing' = FALSE
    /\ Goto("waiting")
    /\ UNCHANGED <<counterVars, storeVars, flushVars, resetErrs, fieldVars,
                   inHand, selectVars, clearing, spent, histVars>>

(* Mutant of WaitConsumer: no wg.Wait. *)
NoWait ==
    /\ pc = "waiting"
    /\ EnterFlush("shutdown")
    /\ UNCHANGED <<counterVars, storeVars, flushVars, resetErrs, fieldVars,
                   envVars, histVars>>

WaitConsumer ==
    /\ pc = "waiting"
    /\ inHand = {}
    /\ EnterFlush("shutdown")
    /\ UNCHANGED <<counterVars, storeVars, flushVars, resetErrs, fieldVars,
                   envVars, histVars>>

-----------------------------------------------------------------------------
(* The other goroutines of the process *)

(* The tailer hands a complete line to consume. *)
Receive ==
    /\ Running /\ tailing
    /\ inHand = {}
    /\ lines < MaxLines
    /\ \E S \in LogLines : inHand' = {S}
    /\ UNCHANGED <<counterVars, storeVars, mainVars, tailing, selectVars,
                   clearing, spent, histVars>>

Consume ==
    /\ Running
    /\ \E S \in inHand : ProcessLine(S)
    /\ inHand' = {}
    /\ UNCHANGED <<storeVars, mainVars, tailing, selectVars, clearing, spent,
                   histVars>>

(* The scheduler runs once Run has got past the bootstrap.  A reset that   *)
(* is already queued covers this firing too.                               *)
CronFires ==
    /\ Running
    /\ caller # "startup" \/ pc = "select"
    /\ Spend("cron")
    /\ resetCh' = TRUE
    /\ UNCHANGED <<counterVars, storeVars, mainVars, tailVars, ctxDone,
                   metricsErr, exit, clearing, histVars>>

Signal ==
    /\ Running /\ ~ctxDone
    /\ Spend("signal")
    /\ ctxDone' = TRUE
    /\ UNCHANGED <<counterVars, storeVars, mainVars, tailVars, resetCh,
                   metricsErr, exit, clearing, histVars>>

(* The HTTP goroutine ends on its own and reports it, once per process. *)
ExporterFails ==
    /\ Running /\ ~metricsErr /\ exit = "none"
    /\ Spend("exporter")
    /\ metricsErr' = TRUE
    /\ UNCHANGED <<counterVars, storeVars, mainVars, tailVars, ctxDone,
                   resetCh, exit, clearing, histVars>>

-----------------------------------------------------------------------------
(* `logstat clear', a process of its own that takes no lock: store.Reset   *)
(* for all words in order, or for one.  An error ends the work on its word *)
(* only.                                                                   *)

ClearStart ==
    /\ clearing = {}
    /\ Spend("clear")
    /\ \E S \in {Actions} \cup {{a} : a \in Actions} :
         clearing' = S \X {"counter", "heartbeat"}
    /\ UNCHANGED <<counterVars, storeVars, mainVars, tailVars, selectVars,
                   histVars>>

ClearTurn(a) ==
    /\ <<a, "heartbeat">> \in clearing
    /\ \A b \in Actions : <<b, "heartbeat">> \in clearing => a <= b

ClearCounter ==
    /\ \E a \in Actions, reply \in Replies :
         /\ ClearTurn(a) /\ <<a, "counter">> \in clearing
         /\ SetCounterZero(a, reply)
         /\ clearing' = clearing \
              IF reply = "ok" THEN {<<a, "counter">>}
                              ELSE {<<a, "counter">>, <<a, "heartbeat">>}
    /\ UNCHANGED <<counterVars, mainVars, tailVars, selectVars, spent, histVars>>

ClearHeartbeat ==
    /\ \E a \in Actions, reply \in Replies :
         /\ ClearTurn(a) /\ <<a, "counter">> \notin clearing
         /\ SetHeartbeat(a, 0, reply)
         /\ clearing' = clearing \ {<<a, "heartbeat">>}
    /\ UNCHANGED <<counterVars, mainVars, tailVars, selectVars, spent, histVars>>

-----------------------------------------------------------------------------
(* The environment of the process *)

RedisDegrades ==
    /\ Degrade
    /\ UNCHANGED <<counterVars, mainVars, envVars, histVars>>

RedisRecovers ==
    /\ Recover
    /\ UNCHANGED <<counterVars, mainVars, envVars, histVars>>

Crash ==
    /\ Running
    /\ Spend("crash")
    /\ pc' = "crashed"
    /\ UNCHANGED <<counterVars, storeVars, caller, i, flushVars, resetErrs,
                   fieldVars, tailVars, selectVars, clearing, histVars>>

(* A new process: New and Run again, with an empty buffer. *)
Restart ==
    /\ Ended
    /\ Spend("restart")
    /\ pending' = Zero /\ matched' = Zero /\ lines' = 0
    /\ pc' = "init_counter" /\ caller' = "startup" /\ i' = 1
    /\ deltas' = Zero /\ unwritten' = Zero
    /\ errs' = 0 /\ resetErrs' = 0 /\ unreachable' = FALSE /\ total' = 0
    /\ initialized' = FALSE
    /\ pendingHeartbeats' = [a \in Actions |-> None]
    /\ pendingResets' = {}
    /\ redisDown' = FALSE
    /\ tailing' = TRUE /\ inHand' = {}
    /\ ctxDone' = FALSE /\ resetCh' = FALSE /\ metricsErr' = FALSE
    /\ exit' = "none"
    /\ mark' = Zero
    /\ UNCHANGED <<storeVars, clearing>>

(* Nothing is left to do once the process has ended. *)
Terminated == Ended /\ UNCHANGED vars

MainStep ==
    \/ InitCounter \/ InitGet \/ InitHeartbeat \/ InitTouch
    \/ FlushDrain \/ IdleTouch \/ FlushRestore \/ FlushTouch
    \/ ActSkip \/ ActReset \/ ActResetHeartbeat \/ ActNothing \/ ActPending
    \/ ActIncr \/ ActHeartbeat
    \/ ResetSkip \/ ResetCounter \/ ResetHeartbeat \/ ResetEnd
    \/ StopTail \/ WaitConsumer

SelectStep == SelectTick \/ SelectReset \/ SelectDone \/ SelectMetricsErr

Environment ==
    \/ Receive \/ CronFires \/ Signal \/ ExporterFails
    \/ ClearStart \/ ClearCounter \/ ClearHeartbeat
    \/ RedisDegrades \/ RedisRecovers
    \/ Crash \/ Restart

Next == MainStep \/ SelectStep \/ Consume \/ Environment \/ Terminated

Spec == Init /\ [][Next]_vars

(* Goroutines that can run do run, and every round trip returns: opTimeout *)
(* bounds it.  The ticker keeps ticking and select chooses at random among *)
(* the ready cases, so none of them is passed over for ever.  Nothing is   *)
(* assumed of Redis, of the log, of signals or of the operator.            *)
Fairness ==
    /\ WF_vars(MainStep)
    /\ WF_vars(Consume)
    /\ SF_vars(SelectTick)
    /\ SF_vars(SelectReset)
    /\ SF_vars(SelectDone)
    /\ SF_vars(SelectMetricsErr)

FairSpec == Spec /\ Fairness
-----------------------------------------------------------------------------
(* The ledger that Daemon keeps.  A match is owed from ProcessLine until   *)
(* INCRBY was answered: in the buffer, in the deltas of the flush under    *)
(* way, or among those it could not write.                                 *)

Owed(a) ==
    pending[a] + unwritten[a]
      + (IF pc = "act_hb" /\ a = i THEN 0 ELSE deltas[a])

owedBar    == [a \in Actions |-> IF Ended THEN 0 ELSE Owed(a)]
countedBar == [a \in Actions |-> Value(ctr[a])]
aliveBar   == IF Ended THEN "no" ELSE "yes"

Once == INSTANCE Ledger WITH Duplicates <- FALSE,
            owed <- owedBar, counted <- countedBar, alive <- aliveBar

AtLeast == INSTANCE Ledger WITH Duplicates <- TRUE,
            owed <- owedBar, counted <- countedBar, alive <- aliveBar

(* Through outages, refusals, retried flushes, resets, clears, crashes and *)
(* restarts, Flush posts every match to its counter exactly once - if the  *)
(* reply of an executed INCRBY always comes, so that neither the daemon    *)
(* nor its client library sends an increment again that Redis has, and if  *)
(* EXPIRE does not fail where the INCRBY beside it succeeded.              *)
ExactlyOnce == Once!Spec

(* Without that - a lost reply, an increment the library has re-sent, half *)
(* a pipeline - a match may be posted twice, with or without an error of   *)
(* Incr, but flush and restore never lose one.                             *)
AtLeastOnce == AtLeast!Spec

(* No clear has been run and this is the first process. *)
Undisturbed == spent["clear"] = 0 /\ spent["restart"] = 0

(* Whenever the main loop is idle, the heartbeat of every word agrees with *)
(* its counter, or the daemon knows what to write: a deferred reset, a     *)
(* pending heartbeat that holds the current total, or - after an Incr of   *)
(* unknown outcome - an increment that will be retried.  A heartbeat kept  *)
(* from before a reset is never written after it.                          *)
HeartbeatSettled ==
    pc = "select" /\ initialized /\ Heartbeat /\ Undisturbed =>
      \A a \in Actions :
        \/ hb[a] = ctr[a]
        \/ a \in pendingResets
        \/ pendingHeartbeats[a] = ctr[a]
        \/ FaultKinds # {} /\ pending[a] > 0

(* While the reset of a word is deferred, no increment lands on its        *)
(* counter: flushAction zeroes it first.                                   *)
DeferredResetFirst ==
    [][\A a \in pendingResets : ctr'[a] <= Value(ctr[a])]_vars

(* Behind the loop of Reset every word is at zero, or its reset is         *)
(* deferred: a failure, of either write or of an earlier word, leaves no   *)
(* word out.                                                               *)
ResetComplete ==
    pc = "reset" /\ spent["clear"] = 0 =>
      \A a \in 1..(i - 1) :
        \/ a \in pendingResets
        \/ ctr[a] = 0 /\ (Heartbeat => hb[a] = 0)

(* Reset zeroes a counter only after the lines of the finishing interval   *)
(* are in it: unless the flush before it failed, what is still buffered    *)
(* was matched after the reset had been taken from the channel.            *)
ResetBoundary ==
    pc \in {"reset", "reset_hb"} /\ initialized /\ errs = 0 =>
      \A a \in Actions : Owed(a) <= matched[a] - mark[a]

(* A shutdown whose last flush met no error leaves nothing behind: neither *)
(* in the buffer nor in the hands of the consumer.                         *)
CleanShutdown ==
    pc = "exited" /\ initialized /\ errs = 0 =>
      inHand = {} /\ \A a \in Actions : Owed(a) = 0

(* If Redis stays up and the process alive, everything buffered or         *)
(* deferred ends up in Redis and heartbeat and counter agree for good.     *)
Settled ==
    /\ \A a \in Actions : Owed(a) = 0
    /\ pendingResets = {}
    /\ Heartbeat => hb = ctr

CatchesUp == <>[](mode = "up" /\ Running) => <>[]Settled

(* A signal ends the process whatever state Redis is in. *)
ShutdownEnds == (ctxDone /\ Running) ~> Ended

(* An exporter that dies takes the daemon with it. *)
ExporterFailureEnds == metricsErr ~> Ended

(* With a TTL the recovery is reported even when no line matches: the      *)
(* refresh of an idle flush is what notices it.                            *)
RecoveryReported == <>[](mode = "up" /\ Running) => <>[]~redisDown

-----------------------------------------------------------------------------
(* Statements of the documentation that the code does not keep. *)

(* "An increment that Redis already accepted must never be retried": with  *)
(* no counter left over from before, a counter and what is owed to it      *)
(* never exceed what was matched.                                          *)
NeverCountedTwice ==
    Leftover = {} /\ spent["restart"] = 0 =>
      \A a \in Actions : Running => Value(ctr[a]) + Owed(a) <= matched[a]

(* "clear works at any time and zeroes both the integer counter and the    *)
(* heartbeat value": with everything written and no clear under way, the   *)
(* two agree.                                                              *)
ClearZeroesBoth ==
    pc = "select" /\ initialized /\ Heartbeat /\ NothingToDo
      /\ clearing = {} /\ spent["restart"] = 0 => hb = ctr
=============================================================================
