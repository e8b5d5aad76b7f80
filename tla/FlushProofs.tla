---------------------------- MODULE FlushProofs ----------------------------
(***************************************************************************)
(* What Flush, Reset and the shutdown leave behind.                        *)
(***************************************************************************)
EXTENDS DaemonProofs

(* Where the main goroutine can be, what it knows there of the bootstrap,  *)
(* and that nobody reads the log any more once it waits for the consumer.  *)
LocationInv ==
    /\ pc \in {"init_counter", "init_get", "init_hb"} => ~initialized
    /\ pc \in {"init_touch", "drain", "idle_touch", "touch"} \/ InFlushLoop
          => initialized
    /\ pc \in {"reset", "reset_hb"} => caller = "reset"
    /\ pc = "exited" => caller = "shutdown"
    /\ pc = "waiting" \/ caller = "shutdown" => ~tailing
    /\ caller = "shutdown" => inHand = {}

(* New and Run begin with the bootstrap. *)
LEMMA LocationInit == Init => LocationInv
BY DEF Init, LocationInv, InFlushLoop

(* Where Flush and the ensureInit of the start return to. *)
LEMMA ReturnsTo ==
  ASSUME ReturnFromFlush
  PROVE  /\ caller' = caller
         /\ caller = "startup" => pc' = "select"
         /\ caller = "tick" => pc' = "select"
         /\ caller = "reset" => pc' = "reset"
         /\ caller = "shutdown" => pc' = "exited"
BY DEF ReturnFromFlush, ReturnTo

(* The round trips of flushAction end in its loop. *)
LEMMA ActFrame ==
  ASSUME ActReset \/ ActResetHeartbeat \/ ActIncr \/ ActHeartbeat
  PROVE  /\ InFlushLoop /\ pc' \in {"act", "act_reset_hb", "act_hb"}
         /\ caller' = caller /\ initialized' = initialized
         /\ tailing' = tailing /\ inHand' = inHand
         /\ pending' = pending /\ matched' = matched /\ mark' = mark
         /\ \/ errs' = errs + 1
            \/ UNCHANGED <<errs, deltas, unwritten, unreachable>>
            \/ ActHeartbeat /\ UNCHANGED <<errs, unwritten, unreachable>>
<1> USE DEF InFlushLoop, RoundTrip, Goto, NextAction, ActFailed, envVars,
        tailVars, counterVars, histVars, flushVars
<1>1. CASE ActReset
  BY <1>1 DEF ActReset
<1>2. CASE ActResetHeartbeat
  BY <1>2 DEF ActResetHeartbeat
<1>3. CASE ActIncr
  BY <1>3 DEF ActIncr
<1>4. CASE ActHeartbeat
  BY <1>4 DEF ActHeartbeat
<1> QED
  BY <1>1, <1>2, <1>3, <1>4

(* The loops of Init, Flush and Reset are entered from their callers only. *)
LEMMA LocationStep == TypeInv /\ LocationInv /\ [Next]_vars => LocationInv'
<1> SUFFICES ASSUME TypeInv, LocationInv, [Next]_vars PROVE LocationInv'
  OBVIOUS
<1> USE DEF TypeInv, DataOK, ControlTypeOK, Callers, Locations, LocationInv,
        InFlushLoop, RoundTrip, Goto, NextAction, ActFailed, ResetFailed,
        FlushEnd, EnterFlush, Ended, Running,
        counterVars, storeVars, flushVars, fieldVars, tailVars, selectVars,
        envVars, histVars, mainVars
<1>1. CASE InitCounter
  BY <1>1, ReturnsTo DEF InitCounter, InitNext, InitFailed
<1>2. CASE InitGet
  BY <1>2, ReturnsTo DEF InitGet, InitFailed
<1>3. CASE InitHeartbeat
  BY <1>3, ReturnsTo DEF InitHeartbeat, InitNext, InitFailed
<1>4. CASE InitTouch
  BY <1>4 DEF InitTouch
<1>5. CASE FlushDrain
  BY <1>5, ReturnsTo DEF FlushDrain
<1>6. CASE IdleTouch
  BY <1>6, ReturnsTo DEF IdleTouch
<1>7. CASE ActSkip
  BY <1>7 DEF ActSkip
<1>8. CASE ActReset
  BY <1>8, ActFrame
<1>9. CASE ActResetHeartbeat
  BY <1>9, ActFrame
<1>10. CASE ActNothing
  BY <1>10 DEF ActNothing
<1>11. CASE ActPending
  BY <1>11 DEF ActPending
<1>12. CASE ActIncr
  BY <1>12, ActFrame
<1>13. CASE ActHeartbeat
  BY <1>13, ActFrame
<1>14. CASE FlushRestore
  BY <1>14, ReturnsTo DEF FlushRestore
<1>15. CASE FlushTouch
  BY <1>15, ReturnsTo DEF FlushTouch
<1>16. CASE ResetSkip
  BY <1>16 DEF ResetSkip
<1>17. CASE ResetCounter
  BY <1>17 DEF ResetCounter
<1>18. CASE ResetHeartbeat
  BY <1>18 DEF ResetHeartbeat
<1>19. CASE ResetEnd
  BY <1>19 DEF ResetEnd
<1>20. CASE StopTail
  BY <1>20 DEF StopTail
<1>21. CASE WaitConsumer
  BY <1>21 DEF WaitConsumer
<1>22. CASE SelectTick
  BY <1>22 DEF SelectTick
<1>23. CASE SelectReset
  BY <1>23 DEF SelectReset
<1>24. CASE SelectDone
  BY <1>24 DEF SelectDone
<1>25. CASE SelectMetricsErr
  BY <1>25 DEF SelectMetricsErr
<1>26. CASE Receive
  BY <1>26 DEF Receive
<1>27. CASE Consume
  BY <1>27 DEF Consume
<1>28. CASE CronFires
  BY <1>28 DEF CronFires
<1>29. CASE Signal
  BY <1>29 DEF Signal
<1>30. CASE ExporterFails
  BY <1>30 DEF ExporterFails
<1>31. CASE ClearStart
  BY <1>31 DEF ClearStart
<1>32. CASE ClearCounter
  BY <1>32 DEF ClearCounter
<1>33. CASE ClearHeartbeat
  BY <1>33 DEF ClearHeartbeat
<1>34. CASE RedisDegrades
  BY <1>34 DEF RedisDegrades, Degrade, keyVars
<1>35. CASE RedisRecovers
  BY <1>35 DEF RedisRecovers, Recover, keyVars
<1>36. CASE Crash
  BY <1>36 DEF Crash
<1>37. CASE Restart
  BY <1>37 DEF Restart
<1>38. CASE Terminated
  BY <1>38 DEF Terminated, vars
<1>39. CASE UNCHANGED vars
  BY <1>39 DEF vars
<1> QED
  BY <1>1, <1>2, <1>3, <1>4, <1>5, <1>6, <1>7, <1>8, <1>9, <1>10, <1>11,
     <1>12, <1>13, <1>14, <1>15, <1>16, <1>17, <1>18, <1>19, <1>20, <1>21,
     <1>22, <1>23, <1>24, <1>25, <1>26, <1>27, <1>28, <1>29, <1>30, <1>31,
     <1>32, <1>33, <1>34, <1>35, <1>36, <1>37, <1>38, <1>39 DEF Next,
     MainStep, SelectStep, Environment

(* From Drain on: the flush, and what its caller does after it. *)
Drained ==
    \/ InFlushLoop
    \/ pc \in {"idle_touch", "touch"}
    \/ pc \in {"reset", "reset_hb", "exited"} /\ initialized

(* While no error has been met nothing is put aside, and what is in the    *)
(* buffer came after Drain: after a stop of the consumer that is nothing,  *)
(* and before a reset it is what matched since the reset was asked for.    *)
DrainInv ==
    /\ \A a \in Actions : mark[a] <= matched[a]
    /\ InFlushLoop /\ unreachable => errs # 0
    /\ InFlushLoop /\ errs = 0 => unwritten = Zero
    /\ Drained /\ errs = 0 =>
         \A a \in Actions :
            /\ caller = "shutdown" => pending[a] = 0
            /\ caller = "reset" => pending[a] <= matched[a] - mark[a]

(* At the start there is neither a buffer nor a mark. *)
LEMMA DrainInit == Init => DrainInv
BY DEF Init, CounterInit, Zero, DrainInv, Drained, InFlushLoop

(* A flush puts nothing aside without an error, and Drain takes everything. *)
LEMMA DrainStep ==
  TypeInv /\ FlushInv /\ LocationInv /\ DrainInv /\ [Next]_vars => DrainInv'
<1> SUFFICES ASSUME TypeInv, FlushInv, LocationInv, DrainInv, [Next]_vars
             PROVE  DrainInv'
  OBVIOUS
<1> USE DEF TypeInv, DataOK, CounterTypeOK, ControlTypeOK, FlushTypeOK,
        EnvTypeOK, FlushInv, LocationInv, DrainInv, Drained, InFlushLoop,
        Zero, Goto, NextAction, ActFailed, RoundTrip, EnterFlush, FlushEnd,
        counterVars, storeVars, flushVars, fieldVars, tailVars, selectVars,
        envVars, histVars, mainVars
<1>1. CASE InitCounter
  <2>1. \/ pc' \in {"init_counter", "init_get", "init_hb", "init_touch",
                    "select"}
        \/ pc' \in {"reset", "exited"} /\ ~initialized'
    BY <1>1, Returned, ReturnsTo DEF InitCounter, InitNext, InitFailed
  <2>2. mark' = mark /\ matched' = matched
    BY <1>1 DEF InitCounter
  <2> QED
    BY <2>1, <2>2
<1>2. CASE InitGet
  <2>1. \/ pc' \in {"init_counter", "init_get", "init_hb", "init_touch",
                    "select"}
        \/ pc' \in {"reset", "exited"} /\ ~initialized'
    BY <1>2, Returned, ReturnsTo DEF InitGet, InitFailed
  <2>2. mark' = mark /\ matched' = matched
    BY <1>2 DEF InitGet
  <2> QED
    BY <2>1, <2>2
<1>3. CASE InitHeartbeat
  <2>1. \/ pc' \in {"init_counter", "init_get", "init_hb", "init_touch",
                    "select"}
        \/ pc' \in {"reset", "exited"} /\ ~initialized'
    BY <1>3, Returned, ReturnsTo DEF InitHeartbeat, InitNext, InitFailed
  <2>2. mark' = mark /\ matched' = matched
    BY <1>3 DEF InitHeartbeat
  <2> QED
    BY <2>1, <2>2
<1>4. CASE InitTouch
  BY <1>4 DEF InitTouch
<1>5. CASE FlushDrain
  <2>1. /\ pending' = Zero /\ matched' = matched /\ mark' = mark
        /\ errs' = 0 /\ unwritten' = Zero
        /\ \A a \in Actions : 0 <= matched[a] - mark[a]
    BY <1>5 DEF FlushDrain, Drain
  <2>2. InFlushLoop' => ~unreachable'
    BY <1>5, Returned DEF FlushDrain
  <2> QED
    BY <2>1, <2>2
<1>6. CASE IdleTouch
  BY <1>6, Returned, ReturnsTo DEF IdleTouch
<1>7. CASE ActSkip
  BY <1>7 DEF ActSkip
<1>8. CASE ActReset
  <2>1. /\ InFlushLoop' /\ InFlushLoop /\ caller' = caller
        /\ pending' = pending /\ matched' = matched /\ mark' = mark
        /\ \/ errs' = errs + 1
           \/ UNCHANGED <<errs, unwritten, unreachable>>
    BY <1>8, ActFrame
  <2>2. CASE errs' = errs + 1
    BY <2>1, <2>2
  <2>3. CASE UNCHANGED <<errs, unwritten, unreachable>>
    BY <2>1, <2>3
  <2> QED
    BY <2>1, <2>2, <2>3
<1>9. CASE ActResetHeartbeat
  <2>1. /\ InFlushLoop' /\ InFlushLoop /\ caller' = caller
        /\ pending' = pending /\ matched' = matched /\ mark' = mark
        /\ \/ errs' = errs + 1
           \/ UNCHANGED <<errs, unwritten, unreachable>>
    BY <1>9, ActFrame
  <2>2. CASE errs' = errs + 1
    BY <2>1, <2>2
  <2>3. CASE UNCHANGED <<errs, unwritten, unreachable>>
    BY <2>1, <2>3
  <2> QED
    BY <2>1, <2>2, <2>3
<1>10. CASE ActNothing
  BY <1>10 DEF ActNothing
<1>11. CASE ActPending
  BY <1>11 DEF ActPending
<1>12. CASE ActIncr
  <2>1. /\ InFlushLoop' /\ InFlushLoop /\ caller' = caller
        /\ pending' = pending /\ matched' = matched /\ mark' = mark
        /\ \/ errs' = errs + 1
           \/ UNCHANGED <<errs, unwritten, unreachable>>
    BY <1>12, ActFrame
  <2>2. CASE errs' = errs + 1
    BY <2>1, <2>2
  <2>3. CASE UNCHANGED <<errs, unwritten, unreachable>>
    BY <2>1, <2>3
  <2> QED
    BY <2>1, <2>2, <2>3
<1>13. CASE ActHeartbeat
  <2>1. /\ InFlushLoop' /\ InFlushLoop /\ caller' = caller
        /\ pending' = pending /\ matched' = matched /\ mark' = mark
        /\ \/ errs' = errs + 1
           \/ UNCHANGED <<errs, unwritten, unreachable>>
    BY <1>13, ActFrame
  <2>2. CASE errs' = errs + 1
    BY <2>1, <2>2
  <2>3. CASE UNCHANGED <<errs, unwritten, unreachable>>
    BY <2>1, <2>3
  <2> QED
    BY <2>1, <2>2, <2>3
<1>14. CASE FlushRestore
  <2>1. /\ pc' \in {"touch", "select", "reset", "exited"} /\ caller' = caller
        /\ matched' = matched /\ mark' = mark /\ errs' = errs
        /\ pending' = [a \in Actions |-> pending[a] + unwritten[a]]
    BY <1>14, Returned DEF FlushRestore, Restore
  <2>2. errs = 0 => pending' = pending
    BY <1>14, <2>1 DEF FlushRestore
  <2> QED
    BY <1>14, <2>1, <2>2 DEF FlushRestore
<1>15. CASE FlushTouch
  BY <1>15, Returned, ReturnsTo DEF FlushTouch
<1>16. CASE ResetSkip
  BY <1>16 DEF ResetSkip
<1>17. CASE ResetCounter
  BY <1>17 DEF ResetCounter, ResetFailed
<1>18. CASE ResetHeartbeat
  BY <1>18 DEF ResetHeartbeat, ResetFailed
<1>19. CASE ResetEnd
  BY <1>19 DEF ResetEnd
<1>20. CASE StopTail
  BY <1>20 DEF StopTail
<1>21. CASE WaitConsumer
  BY <1>21 DEF WaitConsumer
<1>22. CASE SelectTick
  BY <1>22 DEF SelectTick
<1>23. CASE SelectReset
  BY <1>23 DEF SelectReset
<1>24. CASE SelectDone
  BY <1>24 DEF SelectDone
<1>25. CASE SelectMetricsErr
  BY <1>25 DEF SelectMetricsErr
<1>26. CASE Receive
  BY <1>26 DEF Receive
<1>27. CASE Consume
  BY <1>27 DEF Consume, ProcessLine, Plus
<1>28. CASE CronFires
  BY <1>28 DEF CronFires
<1>29. CASE Signal
  BY <1>29 DEF Signal
<1>30. CASE ExporterFails
  BY <1>30 DEF ExporterFails
<1>31. CASE ClearStart
  BY <1>31 DEF ClearStart
<1>32. CASE ClearCounter
  BY <1>32 DEF ClearCounter
<1>33. CASE ClearHeartbeat
  BY <1>33 DEF ClearHeartbeat
<1>34. CASE RedisDegrades
  BY <1>34 DEF RedisDegrades
<1>35. CASE RedisRecovers
  BY <1>35 DEF RedisRecovers
<1>36. CASE Crash
  BY <1>36 DEF Crash
<1>37. CASE Restart
  BY <1>37 DEF Restart
<1>38. CASE Terminated
  BY <1>38 DEF Terminated, vars
<1>39. CASE UNCHANGED vars
  BY <1>39 DEF vars
<1> QED
  BY <1>1, <1>2, <1>3, <1>4, <1>5, <1>6, <1>7, <1>8, <1>9, <1>10, <1>11,
     <1>12, <1>13, <1>14, <1>15, <1>16, <1>17, <1>18, <1>19, <1>20, <1>21,
     <1>22, <1>23, <1>24, <1>25, <1>26, <1>27, <1>28, <1>29, <1>30, <1>31,
     <1>32, <1>33, <1>34, <1>35, <1>36, <1>37, <1>38, <1>39 DEF Next,
     MainStep, SelectStep, Environment

(* All of it together. *)
FlushOK == TypeInv /\ FlushInv /\ LocationInv /\ DrainInv

(* Each part is kept, given the ones before it. *)
LEMMA FlushOKStep == FlushOK /\ [Next]_vars => FlushOK'
BY DataStep, FlagStep, FlushStep, LocationStep, DrainStep DEF FlushOK, TypeInv

(* What the theorems about the flush, the reset and the shutdown stand on. *)
LEMMA FlushOKCorrect == Spec => []FlushOK
<1>1. Init => FlushOK
  BY TypeInit, FlushInit, LocationInit, DrainInit DEF FlushOK
<1> QED
  BY <1>1, FlushOKStep, PTL DEF Spec

(* Outside the loop of a flush everything owed is in the buffer. *)
LEMMA OwedIsPending ==
  ASSUME FlushOK, ~InFlushLoop, Running \/ pc = "exited", NEW a \in Actions
  PROVE  Owed(a) = pending[a]
<1>1. deltas = Zero /\ unwritten = Zero /\ pc # "act_hb"
  BY DEF FlushOK, FlushInv, InFlushLoop, Running, Ended
<1> QED
  BY <1>1 DEF Owed, Zero, FlushOK, TypeInv, DataOK, CounterTypeOK

(* Whatever the order of lines, signals, failures and flushes: a shutdown  *)
(* whose last flush met no error leaves no line with the consumer and no   *)
(* match in the buffer.                                                    *)
THEOREM CleanShutdownCorrect == Spec => []CleanShutdown
<1>1. FlushOK => CleanShutdown
  <2> SUFFICES ASSUME FlushOK, pc = "exited", initialized, errs = 0
               PROVE  inHand = {} /\ \A a \in Actions : Owed(a) = 0
    BY DEF CleanShutdown
  <2>1. caller = "shutdown" /\ inHand = {} /\ ~InFlushLoop
    BY DEF FlushOK, LocationInv, InFlushLoop
  <2>2. \A a \in Actions : pending[a] = 0
    BY <2>1 DEF FlushOK, DrainInv, Drained
  <2> QED
    BY <2>1, <2>2, OwedIsPending
<1> QED
  BY <1>1, FlushOKCorrect, PTL

(* A reset never zeroes a counter before the matches of the interval it    *)
(* ends are in it, unless the flush before it failed: what is still owed   *)
(* was matched after the reset had been asked for.                         *)
THEOREM ResetBoundaryCorrect == Spec => []ResetBoundary
<1>1. FlushOK => ResetBoundary
  <2> SUFFICES ASSUME FlushOK, pc \in {"reset", "reset_hb"}, initialized,
                      errs = 0, NEW a \in Actions
               PROVE  Owed(a) <= matched[a] - mark[a]
    BY DEF ResetBoundary
  <2>1. caller = "reset" /\ ~InFlushLoop /\ Running
    BY DEF FlushOK, LocationInv, InFlushLoop, Running, Ended
  <2>2. pending[a] <= matched[a] - mark[a]
    BY <2>1 DEF FlushOK, DrainInv, Drained
  <2> QED
    BY <2>1, <2>2, OwedIsPending
<1> QED
  BY <1>1, FlushOKCorrect, PTL

-----------------------------------------------------------------------------
(* Reset.                                                                  *)

(* No write of `logstat clear' is under way before it was ever started. *)
ClearInv == spent["clear"] = 0 => clearing = {}

(* Only the environment spends what it may do, and it never gives back. *)
LEMMA SpentStep ==
  ASSUME TypeInv, [Next]_vars
  PROVE  /\ spent'["clear"] = 0 => spent["clear"] = 0 /\ ~ClearStart
         /\ spent'["restart"] = 0 => spent["restart"] = 0 /\ ~Restart
<1> USE DEF TypeInv, DataOK, EnvTypeOK, RoundTrip, Spend, Limit, envVars
<1>1. CASE MainStep \/ SelectStep
  <2>1. spent' = spent
    BY <1>1 DEF MainStep, SelectStep, InitCounter, InitGet, InitHeartbeat,
       InitTouch, FlushDrain, IdleTouch, ActSkip, ActReset,
       ActResetHeartbeat, ActNothing, ActPending, ActIncr, ActHeartbeat,
       FlushRestore, FlushTouch, ResetSkip, ResetCounter, ResetHeartbeat,
       ResetEnd, StopTail, WaitConsumer, SelectTick, SelectReset, SelectDone,
       SelectMetricsErr
  <2>2. ~ClearStart /\ ~Restart
    BY <2>1 DEF ClearStart, Restart
  <2> QED
    BY <2>1, <2>2
<1>2. CASE CronFires \/ Signal \/ ExporterFails \/ Crash
  <2>1. spent'["clear"] = spent["clear"] /\ spent'["restart"] = spent["restart"]
    BY <1>2 DEF CronFires, Signal, ExporterFails, Crash
  <2>2. ~ClearStart /\ ~Restart
    BY <2>1 DEF ClearStart, Restart
  <2> QED
    BY <2>1, <2>2
<1>3. CASE ClearStart
  BY <1>3 DEF ClearStart, Restart
<1>4. CASE Restart
  BY <1>4 DEF ClearStart, Restart
<1>5. CASE Receive \/ Consume \/ ClearCounter \/ ClearHeartbeat
             \/ RedisDegrades \/ RedisRecovers \/ Terminated \/ UNCHANGED vars
  <2>1. spent' = spent
    BY <1>5 DEF Receive, Consume, ClearCounter, ClearHeartbeat, RedisDegrades,
       RedisRecovers, Terminated, vars
  <2>2. ~ClearStart /\ ~Restart
    BY <2>1 DEF ClearStart, Restart
  <2> QED
    BY <2>1, <2>2
<1> QED
  BY <1>1, <1>2, <1>3, <1>4, <1>5 DEF Next, Environment

(* Only `logstat clear' has writes of its own to make. *)
LEMMA ClearStep == TypeInv /\ ClearInv /\ [Next]_vars => ClearInv'
<1> SUFFICES ASSUME TypeInv, ClearInv, [Next]_vars, spent'["clear"] = 0
             PROVE  clearing' = {}
  BY DEF ClearInv
<1>1. clearing = {} /\ ~ClearStart
  BY SpentStep DEF ClearInv
<1>2. CASE MainStep \/ SelectStep
  BY <1>1, <1>2 DEF RoundTrip, envVars, MainStep, SelectStep, InitCounter,
     InitGet, InitHeartbeat, InitTouch, FlushDrain, IdleTouch, ActSkip,
     ActReset, ActResetHeartbeat, ActNothing, ActPending, ActIncr,
     ActHeartbeat, FlushRestore, FlushTouch, ResetSkip, ResetCounter,
     ResetHeartbeat, ResetEnd, StopTail, WaitConsumer, SelectTick,
     SelectReset, SelectDone, SelectMetricsErr
<1>3. CASE ClearCounter \/ ClearHeartbeat
  BY <1>1, <1>3 DEF ClearCounter, ClearHeartbeat, ClearTurn
<1>4. CASE Consume \/ Terminated \/ UNCHANGED vars
            \/ (Environment /\ ~ClearStart /\ ~ClearCounter /\ ~ClearHeartbeat)
  BY <1>1, <1>4 DEF Environment, Receive, Consume, CronFires, Signal,
     ExporterFails, RedisDegrades, RedisRecovers, Crash, Restart, Terminated,
     vars, envVars
<1> QED
  BY <1>1, <1>2, <1>3, <1>4 DEF Next

(* What the rest of the process and the environment leave to the main      *)
(* goroutine and to Redis.                                                 *)
Bystander ==
    \/ Receive \/ Consume \/ CronFires \/ Signal \/ ExporterFails
    \/ RedisDegrades \/ RedisRecovers \/ Terminated \/ UNCHANGED vars

(* They change no key and none of its variables; the buffer only grows. *)
LEMMA BystanderFrame ==
  ASSUME TypeInv, Bystander
  PROVE  /\ UNCHANGED <<ctr, hb, pc, i, caller, deltas, unwritten, total,
                        initialized, pendingHeartbeats, pendingResets>>
         /\ \A a \in Actions : pending[a] > 0 => pending'[a] > 0
<1> USE DEF TypeInv, DataOK, CounterTypeOK, counterVars, storeVars, mainVars,
        flushVars, fieldVars
<1>1. CASE Consume
  BY <1>1 DEF Consume, ProcessLine, Plus
<1>2. CASE RedisDegrades \/ RedisRecovers
  BY <1>2 DEF RedisDegrades, RedisRecovers, Degrade, Recover, keyVars
<1>3. CASE Receive \/ CronFires \/ Signal \/ ExporterFails
  BY <1>3 DEF Receive, CronFires, Signal, ExporterFails
<1>4. CASE Terminated \/ UNCHANGED vars
  BY <1>4 DEF Terminated, vars
<1> QED
  BY <1>1, <1>2, <1>3, <1>4 DEF Bystander

(* What Reset has done behind the current word, and between its two writes. *)
ResetInv ==
    pc \in {"reset", "reset_hb"} /\ spent["clear"] = 0 =>
      /\ pc = "reset_hb" => ctr[i] = 0
      /\ \A a \in 1..(i - 1) :
           \/ a \in pendingResets
           \/ ctr[a] = 0 /\ (Heartbeat => hb[a] = 0)

(* Each word is left at zero or deferred, and what comes after it in the   *)
(* loop leaves it so.                                                      *)
LEMMA ResetStep ==
  TypeInv /\ ClearInv /\ ResetInv /\ [Next]_vars => ResetInv'
<1> SUFFICES ASSUME TypeInv, ClearInv, ResetInv, [Next]_vars,
                    pc' \in {"reset", "reset_hb"}, spent'["clear"] = 0
             PROVE  ResetInv'
  BY DEF ResetInv
<1> USE DEF TypeInv, DataOK, ControlTypeOK, StoreTypeOK, FieldTypeOK,
        IndexOK, ResetInv, Actions, Goto, NextAction
<1>1. spent["clear"] = 0 /\ ~ClearStart /\ ~ClearCounter /\ ~ClearHeartbeat
  <2>1. spent["clear"] = 0 /\ ~ClearStart /\ clearing = {}
    BY SpentStep DEF ClearInv
  <2> QED
    BY <2>1 DEF ClearCounter, ClearHeartbeat, ClearTurn
<1>2. i' = 1 /\ pc' = "reset" => ResetInv'
  OBVIOUS
<1>3. CASE InitCounter \/ InitGet \/ InitHeartbeat \/ FlushDrain \/ IdleTouch
             \/ FlushRestore \/ FlushTouch
  <2>1. ReturnFromFlush
    BY <1>3 DEF InitCounter, InitGet, InitHeartbeat, InitNext, InitFailed,
       FlushDrain, IdleTouch, FlushRestore, FlushTouch, FlushEnd
  <2> QED
    BY <1>2, <2>1, Returned
<1>4. CASE ResetSkip
  BY <1>1, <1>4 DEF ResetSkip, DeferReset, storeVars
<1>5. CASE ResetCounter
  <2>1. PICK reply \in Replies :
          /\ SetCounterZero(i, reply)
          /\ \/ /\ reply = "ok" /\ pc' = "reset_hb" /\ i' = i
                /\ pendingResets' = pendingResets
             \/ /\ reply # "ok" /\ pc' = "reset" /\ i' = i + 1
                /\ pendingResets' = pendingResets \cup {i}
    BY <1>5 DEF ResetCounter, ResetFailed, DeferReset
  <2>2. pc = "reset" /\ i \in Actions
    BY <1>5 DEF ResetCounter
  <2>3. /\ ctr' = ctr \/ ctr' = [ctr EXCEPT ![i] = 0]
        /\ reply = "ok" => ctr'[i] = 0
        /\ hb' = hb
    BY <2>1, <2>2, SetCounterZeroEffect
  <2>4. ASSUME NEW a \in 1..(i - 1)
        PROVE  ctr'[a] = ctr[a] /\ hb'[a] = hb[a]
    <3>1. a \in Actions /\ a # i
      BY <2>2, ConfigAssumption
    <3>2. ctr'[a] = ctr[a]
      BY <2>3, <3>1
    <3>3. hb'[a] = hb[a]
      BY <2>3, <3>1
    <3> QED
      BY <3>2, <3>3
  <2> QED
    BY <1>1, <2>1, <2>2, <2>3, <2>4
<1>6. CASE ResetHeartbeat
  <2>1. PICK reply \in Replies :
          /\ SetHeartbeat(i, 0, reply)
          /\ pc' = "reset" /\ i' = i + 1
          /\ \/ reply = "ok" /\ pendingResets' = pendingResets \ {i}
             \/ reply # "ok" /\ pendingResets' = pendingResets \cup {i}
    BY <1>6 DEF ResetHeartbeat, ResetFailed, DeferReset
  <2>2. pc = "reset_hb" /\ i \in Actions /\ ctr[i] = 0
    BY <1>1, <1>6 DEF ResetHeartbeat
  <2>3. /\ ctr' = ctr
        /\ hb' = hb \/ hb' = [hb EXCEPT ![i] = 0]
        /\ reply = "ok" => (Heartbeat => hb'[i] = 0)
    <3>1. /\ ctr' = ctr
          /\ hb' = hb \/ hb' = [hb EXCEPT ![i] = 0]
          /\ reply = "ok" /\ Heartbeat => hb' = [hb EXCEPT ![i] = 0]
      BY <2>1, <2>2, SetHeartbeatEffect
    <3>2. hb' = [hb EXCEPT ![i] = 0] => hb'[i] = 0
      BY <2>2
    <3> QED
      BY <3>1, <3>2
  <2>4. ASSUME NEW a \in 1..(i - 1)
        PROVE  ctr'[a] = ctr[a] /\ hb'[a] = hb[a]
    <3>1. a \in Actions /\ a # i
      BY <2>2, ConfigAssumption
    <3>2. ctr'[a] = ctr[a]
      BY <2>3, <3>1
    <3>3. hb'[a] = hb[a]
      BY <2>3, <3>1
    <3> QED
      BY <3>2, <3>3
  <2>5. ctr'[i] = 0
    BY <2>2, <2>3
  <2> QED
    BY <1>1, <2>1, <2>2, <2>3, <2>4, <2>5
<1>7. CASE Bystander
  BY <1>1, <1>7, BystanderFrame
<1>8. CASE InitTouch \/ ActSkip \/ ActReset \/ ActResetHeartbeat
             \/ ActNothing \/ ActPending \/ ActIncr \/ ActHeartbeat
             \/ ResetEnd \/ StopTail \/ WaitConsumer \/ SelectStep \/ Crash
             \/ Restart
  <2>1. pc' \notin {"reset", "reset_hb"}
    BY <1>8, ActFrame DEF InitTouch, ActSkip, ActNothing, ActPending,
       ResetEnd, StopTail, WaitConsumer, SelectStep, SelectTick, SelectReset,
       SelectDone, SelectMetricsErr, EnterFlush, Crash, Restart
  <2> QED
    BY <2>1
<1> QED
  BY <1>1, <1>3, <1>4, <1>5, <1>6, <1>7, <1>8
     DEF Next, MainStep, Environment, Bystander

(* Reset leaves no word out: whichever of its writes fail, and whatever    *)
(* deferred resets there were, every word behind it is at zero or its      *)
(* reset is known to be due.                                               *)
THEOREM ResetCompleteCorrect == Spec => []ResetComplete
<1>1. Init => TypeInv /\ ClearInv /\ ResetInv
  BY TypeInit DEF Init, ClearInv, ResetInv
<1>2. TypeInv /\ ClearInv /\ ResetInv /\ [Next]_vars
        => TypeInv' /\ ClearInv' /\ ResetInv'
  BY DataStep, FlagStep, ClearStep, ResetStep DEF TypeInv
<1>3. ResetInv => ResetComplete
  BY DEF ResetInv, ResetComplete
<1> QED
  BY <1>1, <1>2, <1>3, PTL DEF Spec

-----------------------------------------------------------------------------
(* Heartbeats.                                                             *)

(* An increment whose Incr may have been executed goes through the next    *)
(* flush again: until then it waits in the buffer, and in that flush it is *)
(* in the deltas or put aside.                                             *)
Retried(a) ==
    /\ FaultKinds # {}
    /\ IF InFlushLoop THEN deltas[a] + unwritten[a] > 0 ELSE pending[a] > 0

(* The word between the two writes of an increment or of a reset. *)
BetweenWrites(a) == a = i /\ pc \in {"act_hb", "reset_hb"}

(* The heartbeat is written already, or the daemon holds the value to      *)
(* write, and holds no other.                                              *)
WordOK(a) ==
    \/ BetweenWrites(a)
    \/ a \in pendingResets
    \/ Retried(a)
    \/ /\ hb[a] \in {Missing, ctr[a]} \/ pendingHeartbeats[a] = ctr[a]
       /\ pendingHeartbeats[a] \in {None, ctr[a]}

(* A counter is created before its heartbeat, and Init creates both.       *)
KeysInv ==
    /\ \A a \in Actions : ctr[a] = Missing => hb[a] = Missing
    /\ initialized => \A a \in Actions : hb[a] # Missing
    /\ pc \in {"init_counter", "init_get", "init_hb"} =>
         \A a \in 1..(i - 1) : hb[a] # Missing

(* What the main goroutine knows of the current word. *)
CurrentInv ==
    /\ pc \in {"init_hb", "act_hb"} => total = ctr[i]
    /\ pc = "act_reset_hb" => i \in pendingResets
    /\ pc \in {"act_reset_hb", "reset_hb"} => ctr[i] = 0

(* Every word is in order. *)
InOrder == KeysInv /\ CurrentInv /\ \A a \in Actions : WordOK(a)

(* As long as no other process writes the keys and this one is running.    *)
HeartbeatInv == Heartbeat /\ Undisturbed /\ Running => InOrder

(* A word that a step does not touch stays in order. *)
LEMMA WordKept ==
  ASSUME NEW a \in Actions, WordOK(a), ~BetweenWrites(a),
         hb'[a] = hb[a], ctr'[a] = ctr[a],
         pendingHeartbeats'[a] = pendingHeartbeats[a],
         a \in pendingResets => a \in pendingResets',
         Retried(a) => Retried(a)'
  PROVE  WordOK(a)'
BY DEF WordOK

(* Outside the init loop keys are only written, never removed. *)
LEMMA KeysKept ==
  ASSUME KeysInv, initialized' => initialized,
         pc' \in {"init_counter", "init_get", "init_hb"} => i' = 1,
         \A a \in Actions : ctr[a] # Missing => ctr'[a] # Missing,
         \A a \in Actions : \/ hb'[a] = hb[a]
                            \/ hb'[a] # Missing /\ ctr'[a] # Missing,
         \A a \in Actions : ctr'[a] = Missing => hb'[a] = Missing
  PROVE  KeysInv'
BY DEF KeysInv

(* What an unfinished flush owes for a word stays with it. *)
LEMMA RetryKept ==
  ASSUME TypeInv, FlushInv, i \in Actions, InFlushLoop, InFlushLoop',
         \/ UNCHANGED <<deltas, unwritten>>
         \/ deltas' = Taken /\ unwritten' = Kept,
         NEW a \in Actions
  PROVE  Retried(a) => Retried(a)'
<1>1. deltas'[a] + unwritten'[a] = deltas[a] + unwritten[a]
  <2>1. /\ deltas \in [Actions -> Nat] /\ unwritten \in [Actions -> Nat]
        /\ i \in Int /\ unwritten[i] = 0
    BY DEF TypeInv, DataOK, ControlTypeOK, FlushTypeOK, FlushInv, Actions
  <2> QED
    BY <2>1 DEF Taken, Kept
<1> QED
  BY <1>1 DEF Retried

(* Outside the flush loop it stays in the buffer. *)
LEMMA RetryStays ==
  ASSUME ~InFlushLoop, ~InFlushLoop', NEW a \in Actions,
         pending'[a] = pending[a]
  PROVE  Retried(a) => Retried(a)'
BY DEF Retried

(* The bootstrap creates the keys of one word after the other.             *)
LEMMA InitInOrder ==
  ASSUME TypeInv, LocationInv, InOrder, Heartbeat,
         InitCounter \/ InitGet \/ InitHeartbeat \/ InitTouch
  PROVE  InOrder'
<1> USE DEF TypeInv, DataOK, ControlTypeOK, StoreTypeOK, FlushTypeOK,
        FieldTypeOK, IndexOK, InOrder, Goto, NextAction
<1>1. /\ UNCHANGED <<pending, pendingHeartbeats, pendingResets>>
      /\ ~InFlushLoop /\ ~BetweenWrites(i)
      /\ \A a \in Actions : ~BetweenWrites(a)
  BY DEF InitCounter, InitGet, InitHeartbeat, InitTouch, InitNext, InitFailed,
     counterVars, fieldVars, InFlushLoop, BetweenWrites
<1>2. CASE InitCounter
  <2>1. PICK reply \in Replies :
          /\ SetNXCounter(i, reply)
          /\ \/ pc' = "init_get" /\ i' = i
             \/ ReturnFromFlush
    BY <1>2 DEF InitCounter, InitFailed
  <2>2. i \in Actions /\ pc = "init_counter" /\ initialized' = initialized
    BY <1>2 DEF InitCounter, InitFailed, fieldVars, Actions
  <2>3. /\ ctr' = ctr \/ ctr' = [ctr EXCEPT ![i] = IF @ = Missing THEN 0 ELSE @]
        /\ hb' = hb
    BY <2>1, <2>2, SetNXCounterEffect
  <2>4. pc' \in {"init_get", "select", "reset", "exited"}
    BY <2>1, Returned
  <2>5. ASSUME NEW a \in Actions PROVE WordOK(a)'
    <3>1. Retried(a) => Retried(a)'
      BY <1>1, <2>4, RetryStays DEF InFlushLoop
    <3>2. CASE ctr'[a] = ctr[a]
      BY <1>1, <2>3, <3>1, <3>2, WordKept
    <3>3. CASE ctr'[a] # ctr[a]
      <4>1. ctr[a] = Missing /\ hb[a] = Missing
        BY <2>2, <2>3, <3>3 DEF KeysInv
      <4> QED
        BY <1>1, <2>3, <3>1, <4>1 DEF WordOK, None, Missing
    <3> QED
      BY <3>2, <3>3
  <2>6. KeysInv'
    <3>1. \A a \in Actions : ctr[a] # Missing => ctr'[a] = ctr[a]
      BY <2>2, <2>3
    <3>2. \/ i' = i /\ pc' = "init_get"
          \/ pc' \in {"select", "reset", "exited"}
      BY <2>1, Returned
    <3> QED
      BY <2>2, <2>3, <3>1, <3>2 DEF KeysInv
  <2>7. CurrentInv'
    BY <2>4 DEF CurrentInv
  <2> QED
    BY <2>5, <2>6, <2>7
<1>3. CASE InitGet
  <2>1. PICK reply \in Replies :
          /\ GetCounter(i, reply)
          /\ \/ pc' = "init_hb" /\ i' = i /\ total' = ctr[i]
             \/ ReturnFromFlush
    BY <1>3 DEF InitGet, InitFailed
  <2>2. i \in Actions /\ pc = "init_get" /\ initialized' = initialized
    BY <1>3 DEF InitGet, InitFailed, fieldVars, Actions
  <2>3. ctr' = ctr /\ hb' = hb
    BY <2>1, <2>2, GetCounterEffect
  <2>4. \/ pc' = "init_hb" /\ i' = i
        \/ pc' \in {"select", "reset", "exited"}
    BY <2>1, Returned
  <2>5. ASSUME NEW a \in Actions PROVE WordOK(a)'
    <3>1. Retried(a) => Retried(a)'
      BY <1>1, <2>4, RetryStays DEF InFlushLoop
    <3> QED
      BY <1>1, <2>3, <3>1, WordKept
  <2>6. KeysInv'
    BY <2>2, <2>3, <2>4 DEF KeysInv
  <2>7. CurrentInv'
    <3>1. CASE pc' = "init_hb" /\ i' = i /\ total' = ctr[i]
      BY <2>3, <3>1 DEF CurrentInv
    <3>2. CASE pc' \in {"select", "reset", "exited"}
      BY <3>2 DEF CurrentInv
    <3> QED
      BY <2>1, <3>1, <3>2, Returned
  <2> QED
    BY <2>5, <2>6, <2>7
<1>4. CASE InitHeartbeat
  <2>1. PICK reply \in Replies :
          /\ SetNXHeartbeat(i, total, reply)
          /\ \/ reply = "ok" /\ InitNext
             \/ InitFailed
    BY <1>4 DEF InitHeartbeat
  <2>2. i \in Actions /\ pc = "init_hb" /\ total = ctr[i] /\ total \in Nat
    BY <1>4 DEF InitHeartbeat, Actions, CurrentInv
  <2>3. /\ ctr' = ctr
        /\ hb' = hb \/ (hb[i] = Missing /\ hb' = [hb EXCEPT ![i] = total])
        /\ reply = "ok" => hb'[i] # Missing
    BY <2>1, <2>2, SetNXHeartbeatEffect
  <2>4. pc' \in {"init_counter", "init_touch", "select", "reset", "exited"}
    BY <2>1, Returned DEF InitNext, InitFailed
  <2>5. ASSUME NEW a \in Actions PROVE WordOK(a)'
    <3>1. Retried(a) => Retried(a)'
      BY <1>1, <2>4, RetryStays DEF InFlushLoop
    <3>2. CASE hb'[a] = hb[a]
      BY <1>1, <2>3, <3>1, <3>2, WordKept
    <3>3. CASE hb'[a] # hb[a]
      <4>1. hb[a] = Missing /\ hb'[a] = ctr[a]
        BY <2>2, <2>3, <3>3
      <4> QED
        BY <1>1, <2>3, <3>1, <4>1 DEF WordOK
    <3> QED
      BY <3>2, <3>3
  <2>6. /\ \A a \in Actions : hb[a] # Missing => hb'[a] # Missing
        /\ \A a \in Actions : ctr'[a] = Missing => hb'[a] = Missing
    BY <2>2, <2>3 DEF KeysInv, Missing
  <2>7. KeysInv'
    <3>1. CASE InitFailed
      <4>1. initialized' = initialized /\ pc' \in {"select", "reset", "exited"}
        BY <3>1, Returned DEF InitFailed
      <4> QED
        BY <2>6, <4>1 DEF KeysInv
    <3>2. CASE reply = "ok" /\ InitNext
      <4>1. \A a \in Actions : a <= i => hb'[a] # Missing
        <5>1. \A a \in 1..(i - 1) : a \in Actions /\ hb[a] # Missing
          BY <2>2, ConfigAssumption DEF KeysInv, Actions
        <5> QED
          BY <2>2, <2>3, <2>6, <3>2, <5>1 DEF Actions
      <4>2. CASE i < N
        <5>1. pc' = "init_counter" /\ i' = i + 1 /\ initialized' = initialized
          BY <3>2, <4>2 DEF InitNext
        <5>2. \A a \in 1..(i' - 1) : hb'[a] # Missing
          BY <2>2, <4>1, <5>1, ConfigAssumption DEF Actions
        <5>3. ~initialized
          BY <2>2 DEF LocationInv
        <5> QED
          BY <2>6, <5>1, <5>2, <5>3 DEF KeysInv
      <4>3. CASE ~(i < N)
        <5>1. pc' = "init_touch"
          BY <3>2, <4>3 DEF InitNext
        <5>2. \A a \in Actions : hb'[a] # Missing
          BY <2>2, <4>1, <4>3, ConfigAssumption DEF Actions
        <5> QED
          BY <2>6, <5>1, <5>2 DEF KeysInv
      <4> QED
        BY <4>2, <4>3
    <3> QED
      BY <2>1, <3>1, <3>2
  <2>8. CurrentInv'
    BY <2>4 DEF CurrentInv
  <2> QED
    BY <2>5, <2>7, <2>8
<1>5. CASE InitTouch
  <2>1. PICK reply \in Replies : Touch(reply)
    BY <1>5 DEF InitTouch
  <2>2. /\ pc' \in {"select", "drain"} /\ initialized' = initialized
    BY <1>5 DEF InitTouch
  <2>3. ctr' = ctr /\ hb' = hb
    BY <2>1, TouchEffect
  <2>4. ASSUME NEW a \in Actions PROVE WordOK(a)'
    <3>1. Retried(a) => Retried(a)'
      BY <1>1, <2>2, RetryStays DEF InFlushLoop
    <3> QED
      BY <1>1, <2>3, <3>1, WordKept
  <2>5. KeysInv' /\ CurrentInv'
    BY <2>2, <2>3 DEF KeysInv, CurrentInv
  <2> QED
    BY <2>4, <2>5
<1> QED
  BY <1>2, <1>3, <1>4, <1>5

(* Entering and leaving the loop of a flush: the buffer is taken over as a *)
(* whole and given back as a whole.                                        *)
LEMMA FlushInOrder ==
  ASSUME TypeInv, FlushInv, LocationInv, InOrder,
         FlushDrain \/ IdleTouch \/ FlushRestore \/ FlushTouch
  PROVE  InOrder'
<1> USE DEF TypeInv, DataOK, CounterTypeOK, ControlTypeOK, FlushTypeOK,
        StoreTypeOK, InOrder, Goto
<1>1. /\ UNCHANGED <<ctr, hb, initialized, pendingHeartbeats, pendingResets>>
      /\ pc' \in {"idle_touch", "act", "touch", "select", "reset", "exited"}
      /\ \A a \in Actions : ~BetweenWrites(a)
  <2>1. CASE FlushDrain
    BY <2>1, Returned DEF FlushDrain, storeVars, fieldVars, BetweenWrites
  <2>2. CASE IdleTouch
    BY <2>2, Returned, TouchEffect DEF IdleTouch, fieldVars, BetweenWrites
  <2>3. CASE FlushRestore
    BY <2>3, Returned DEF FlushRestore, FlushEnd, storeVars, fieldVars,
       BetweenWrites
  <2>4. CASE FlushTouch
    BY <2>4, Returned, TouchEffect DEF FlushTouch, FlushEnd, fieldVars,
       BetweenWrites
  <2> QED
    BY <2>1, <2>2, <2>3, <2>4
<1>2. KeysInv' /\ CurrentInv'
  BY <1>1 DEF KeysInv, CurrentInv
<1>3. ASSUME NEW a \in Actions PROVE Retried(a) => Retried(a)'
  <2>1. CASE FlushDrain
    <3>1. /\ ~InFlushLoop /\ unwritten' = unwritten /\ unwritten = Zero
          /\ deltas' = pending /\ pending' = Zero
          /\ pc' = "act" \/ NothingToDo
      BY <2>1 DEF FlushDrain, Drain, InFlushLoop, FlushInv
    <3>2. CASE pc' = "act"
      BY <3>1, <3>2 DEF Retried, InFlushLoop, Zero
    <3>3. CASE NothingToDo
      <4>1. pending[a] = 0
        BY <3>3 DEF NothingToDo, Zero
      <4> QED
        BY <3>1, <4>1 DEF Retried
    <3> QED
      BY <3>1, <3>2, <3>3
  <2>2. CASE IdleTouch \/ FlushTouch
    <3>1. ~InFlushLoop /\ pending' = pending
      BY <2>2 DEF IdleTouch, FlushTouch, counterVars, InFlushLoop
    <3>2. ~InFlushLoop'
      BY <2>2, Returned DEF IdleTouch, FlushTouch, FlushEnd, InFlushLoop
    <3> QED
      BY <3>1, <3>2, RetryStays
  <2>3. CASE FlushRestore
    <3>1. /\ InFlushLoop /\ i = N + 1
          /\ pending' = [b \in Actions |-> pending[b] + unwritten[b]]
      BY <2>3 DEF FlushRestore, Restore, InFlushLoop
    <3>2. ~InFlushLoop'
      BY <2>3, Returned DEF FlushRestore, FlushEnd, InFlushLoop
    <3>3. deltas[a] = 0
      BY <3>1, ConfigAssumption DEF FlushInv, Actions
    <3> QED
      BY <3>1, <3>2, <3>3 DEF Retried
  <2> QED
    BY <2>1, <2>2, <2>3
<1> QED
  BY <1>1, <1>2, <1>3, WordKept

(* flushAction: a word is left with its heartbeat written, its value noted *)
(* or its increment put aside.                                             *)
LEMMA ActInOrder ==
  ASSUME TypeInv, FlushInv, LocationInv, InOrder, Heartbeat,
         ActSkip \/ ActReset \/ ActResetHeartbeat \/ ActNothing \/ ActPending
           \/ ActIncr \/ ActHeartbeat
  PROVE  InOrder'
<1> USE DEF TypeInv, DataOK, ControlTypeOK, StoreTypeOK, FlushTypeOK,
        FieldTypeOK, InOrder, Goto, NextAction
<1>1. /\ i \in Actions /\ InFlushLoop /\ InFlushLoop'
      /\ pc' \in {"act", "act_reset_hb", "act_hb"}
      /\ initialized' = initialized /\ initialized
  <2>1. /\ pc \in {"act", "act_reset_hb", "act_hb"}
        /\ i <= N \/ pc \in {"act_reset_hb", "act_hb"}
    BY DEF ActSkip, ActReset, ActResetHeartbeat, ActNothing, ActPending,
       ActIncr, ActHeartbeat
  <2>3. i \in Actions
    BY <2>1, ConfigAssumption DEF IndexOK, Actions
  <2>2. pc' \in {"act", "act_reset_hb", "act_hb"} /\ initialized' = initialized
    BY ActFrame DEF ActSkip, ActNothing, ActPending, fieldVars
  <2> QED
    BY <2>1, <2>2, <2>3 DEF InFlushLoop, LocationInv
<1>11. PICK w \in Actions : w = i
  BY <1>1
<1> USE <1>11
<1>2. \A a \in Actions : hb[a] # Missing /\ ctr[a] # Missing
  BY <1>1 DEF KeysInv
(* What each of the steps has to show: the keys stay and the other words   *)
(* are left alone; then it is about word w.                                *)
<1>3. ASSUME \A a \in Actions : hb'[a] # Missing,
             \A a \in Actions \ {w} :
                /\ hb'[a] = hb[a] /\ ctr'[a] = ctr[a]
                /\ pendingHeartbeats'[a] = pendingHeartbeats[a]
                /\ a \in pendingResets => a \in pendingResets'
                /\ Retried(a) => Retried(a)',
             ctr'[w] # Missing, WordOK(w)', CurrentInv'
      PROVE  InOrder'
  <2>1. \A a \in Actions \ {w} : WordOK(a)'
    BY <1>3, WordKept DEF BetweenWrites
  <2>2. KeysInv'
    BY <1>1, <1>2, <1>3 DEF KeysInv
  <2> QED
    BY <1>3, <2>1, <2>2
<1>4. CASE ActSkip
  <2>1. /\ pc = "act" /\ pc' = "act" /\ deltas' = Taken /\ unwritten' = Kept
        /\ UNCHANGED <<ctr, hb, pendingHeartbeats, pendingResets>>
    BY <1>4 DEF ActSkip, storeVars, fieldVars
  <2>2. \A a \in Actions : Retried(a) => Retried(a)'
    BY <1>1, <2>1, RetryKept
  <2>3. WordOK(w)' /\ CurrentInv'
    BY <1>1, <2>1, <2>2, WordKept DEF BetweenWrites, CurrentInv
  <2> QED
    BY <1>1, <1>2, <1>3, <2>1, <2>2, <2>3
<1>5. CASE ActReset
  <2>1. PICK reply \in Replies :
          /\ SetCounterZero(i, reply)
          /\ \/ /\ reply = "ok" /\ pc' = "act_reset_hb" /\ i' = i
                /\ UNCHANGED <<deltas, unwritten>>
             \/ pc' = "act" /\ deltas' = Taken /\ unwritten' = Kept
    BY <1>5 DEF ActReset, ActFailed, PutAside
  <2>2. /\ pc = "act" /\ i \in pendingResets
        /\ UNCHANGED <<pendingHeartbeats, pendingResets>>
    BY <1>5 DEF ActReset
  <2>3. /\ ctr' = ctr \/ ctr' = [ctr EXCEPT ![i] = 0]
        /\ reply = "ok" => ctr' = [ctr EXCEPT ![i] = 0]
        /\ hb' = hb
    BY <1>1, <2>1, SetCounterZeroEffect
  <2>4. \A a \in Actions : Retried(a) => Retried(a)'
    BY <1>1, <2>1, RetryKept
  <2>5. /\ \A a \in Actions \ {w} : ctr'[a] = ctr[a]
        /\ ctr'[w] # Missing
        /\ reply = "ok" => ctr'[i] = 0
    BY <1>1, <1>2, <2>3 DEF Missing
  <2>6. WordOK(w)'
    BY <2>2 DEF WordOK
  <2>7. CurrentInv'
    BY <2>1, <2>2, <2>5 DEF CurrentInv
  <2> QED
    BY <1>2, <1>3, <2>2, <2>3, <2>4, <2>5, <2>6, <2>7
<1>6. CASE ActResetHeartbeat
  <2>1. PICK reply \in Replies :
          /\ SetHeartbeat(i, 0, reply)
          /\ \/ /\ reply = "ok" /\ pendingResets' = pendingResets \ {i}
                /\ ForgetHeartbeat /\ UNCHANGED <<deltas, unwritten>>
             \/ /\ reply # "ok" /\ deltas' = Taken /\ unwritten' = Kept
                /\ UNCHANGED <<pendingHeartbeats, pendingResets>>
    BY <1>6 DEF ActResetHeartbeat, ActFailed, PutAside
  <2>2. pc = "act_reset_hb" /\ pc' = "act" /\ i \in pendingResets /\ ctr[i] = 0
    BY <1>6 DEF ActResetHeartbeat, ActFailed, CurrentInv
  <2>3. /\ ctr' = ctr
        /\ hb' = hb \/ hb' = [hb EXCEPT ![i] = 0]
        /\ reply = "ok" => hb' = [hb EXCEPT ![i] = 0]
    BY <1>1, <2>1, SetHeartbeatEffect
  <2>4. \A a \in Actions : Retried(a) => Retried(a)'
    BY <1>1, <2>1, RetryKept
  <2>5. /\ \A a \in Actions \ {w} : hb'[a] = hb[a]
        /\ \A a \in Actions : hb'[a] # Missing
        /\ reply = "ok" => hb'[i] = 0
    BY <1>1, <1>2, <2>3 DEF Missing
  <2>6. /\ \A a \in Actions \ {w} :
              /\ pendingHeartbeats'[a] = pendingHeartbeats[a]
              /\ a \in pendingResets => a \in pendingResets'
        /\ reply = "ok" => pendingHeartbeats'[i] = None
        /\ reply # "ok" => i \in pendingResets'
    BY <1>1, <2>1, <2>2 DEF ForgetHeartbeat
  <2>7. WordOK(w)'
    BY <2>2, <2>3, <2>5, <2>6 DEF WordOK
  <2>8. CurrentInv'
    BY <2>2 DEF CurrentInv
  <2> QED
    BY <1>2, <1>3, <2>3, <2>4, <2>5, <2>6, <2>7, <2>8
<1>7. CASE ActNothing
  <2>1. /\ pc = "act" /\ pc' = "act"
        /\ UNCHANGED <<ctr, hb, deltas, unwritten, pendingHeartbeats,
                       pendingResets>>
    BY <1>7 DEF ActNothing, storeVars, flushVars, fieldVars
  <2>2. \A a \in Actions : Retried(a) => Retried(a)'
    BY <1>1, <2>1, RetryKept
  <2>3. WordOK(w)' /\ CurrentInv'
    BY <1>1, <2>1, <2>2, WordKept DEF BetweenWrites, CurrentInv
  <2> QED
    BY <1>1, <1>2, <1>3, <2>1, <2>2, <2>3
<1>8. CASE ActPending
  <2>1. /\ pc = "act" /\ pc' = "act_hb" /\ i' = i
        /\ UNCHANGED <<ctr, hb, deltas, unwritten, pendingHeartbeats,
                       pendingResets>>
        /\ i \notin pendingResets /\ deltas[i] = 0
        /\ pendingHeartbeats[i] # None /\ total' = pendingHeartbeats[i]
    BY <1>8 DEF ActPending, NoDeferredReset, storeVars, fieldVars
  <2>2. \A a \in Actions : Retried(a) => Retried(a)'
    BY <1>1, <2>1, RetryKept
  <2>3. ~Retried(i)
    BY <1>1, <2>1 DEF Retried, FlushInv
  <2>4. total' = ctr[i]
    BY <1>1, <2>1, <2>3 DEF WordOK, BetweenWrites
  <2>5. WordOK(w)' /\ CurrentInv'
    BY <2>1, <2>4 DEF WordOK, BetweenWrites, CurrentInv
  <2> QED
    BY <1>1, <1>2, <1>3, <2>1, <2>2, <2>5
<1>9. CASE ActIncr
  <2>1. PICK reply \in Replies \cup {"again"} :
          /\ Incr(i, deltas[i], reply)
          /\ \/ /\ reply = "ok" /\ pc' = "act_hb" /\ i' = i
                /\ total' = ctr'[i] /\ UNCHANGED <<deltas, unwritten>>
             \/ /\ reply # "ok" /\ pc' = "act"
                /\ \/ UNCHANGED <<i, deltas, unwritten>>
                   \/ deltas' = Taken /\ unwritten' = Kept
    BY <1>1, <1>9 DEF ActIncr, ActFailed, PutAside, flushVars
  <2>2. /\ pc = "act" /\ deltas[i] > 0 /\ deltas[i] \in Nat
        /\ UNCHANGED <<pendingHeartbeats, pendingResets>>
    BY <1>1, <1>9 DEF ActIncr
  <2>3. /\ \/ ctr' = [ctr EXCEPT ![i] = Value(@) + deltas[i]]
           \/ reply # "ok" /\ ctr' = ctr
        /\ FaultKinds = {} /\ reply # "ok" => ctr' = ctr
        /\ hb' = hb
    BY <1>1, <2>1, <2>2, IncrEffect
  <2>4. \A a \in Actions : Retried(a) => Retried(a)'
    BY <1>1, <2>1, RetryKept
  <2>5. /\ \A a \in Actions \ {w} : ctr'[a] = ctr[a]
        /\ ctr'[w] # Missing
    BY <1>1, <1>2, <2>2, <2>3 DEF Value, Missing
  <2>6. CASE reply = "ok"
    <3>1. WordOK(w)' /\ CurrentInv'
      BY <2>1, <2>6 DEF WordOK, BetweenWrites, CurrentInv
    <3> QED
      BY <1>2, <1>3, <2>2, <2>3, <2>4, <2>5, <3>1
  <2>7. CASE reply # "ok"
    <3>1. CurrentInv'
      BY <2>1, <2>7 DEF CurrentInv
    <3>2. CASE ctr' = ctr
      <4>1. WordOK(w)'
        BY <1>1, <2>2, <2>3, <2>4, <3>2, WordKept DEF BetweenWrites
      <4> QED
        BY <1>2, <1>3, <2>2, <2>3, <2>4, <2>5, <3>1, <4>1
    <3>3. CASE ctr' # ctr
      <4>1. FaultKinds # {}
        BY <2>3, <2>7, <3>3
      <4>2. deltas'[i] + unwritten'[i] > 0
        BY <1>1, <2>1, <2>2, <2>7 DEF Taken, Kept
      <4>3. WordOK(w)'
        BY <1>1, <4>1, <4>2 DEF WordOK, Retried
      <4> QED
        BY <1>2, <1>3, <2>2, <2>3, <2>4, <2>5, <3>1, <4>3
    <3> QED
      BY <3>2, <3>3
  <2> QED
    BY <2>6, <2>7
<1>10. CASE ActHeartbeat
  <2>1. PICK reply \in Replies :
          /\ SetHeartbeat(i, total, reply)
          /\ \/ reply = "ok" /\ ForgetHeartbeat
             \/ /\ reply # "ok"
                /\ pendingHeartbeats' = [pendingHeartbeats EXCEPT ![i] = total]
    BY <1>10 DEF ActHeartbeat
  <2>2. /\ pc = "act_hb" /\ pc' = "act" /\ total = ctr[i] /\ total \in Nat
        /\ deltas' = Taken /\ unwritten' = unwritten
        /\ pendingResets' = pendingResets
    BY <1>10 DEF ActHeartbeat, ActFailed, PutAside, CurrentInv
  <2>3. /\ ctr' = ctr
        /\ hb' = hb \/ hb' = [hb EXCEPT ![i] = total]
        /\ reply = "ok" => hb' = [hb EXCEPT ![i] = total]
    BY <1>1, <2>1, <2>2, SetHeartbeatEffect
  <2>4. \A a \in Actions \ {w} : Retried(a) => Retried(a)'
    BY <1>1, <2>2 DEF Retried, Taken
  <2>5. /\ \A a \in Actions \ {w} : hb'[a] = hb[a]
        /\ \A a \in Actions : hb'[a] # Missing
        /\ reply = "ok" => hb'[i] = total
    BY <1>1, <1>2, <2>2, <2>3 DEF Missing
  <2>6. /\ \A a \in Actions \ {w} :
              pendingHeartbeats'[a] = pendingHeartbeats[a]
        /\ reply = "ok" => pendingHeartbeats'[i] = None
        /\ reply # "ok" => pendingHeartbeats'[i] = total
    BY <1>1, <2>1 DEF ForgetHeartbeat
  <2>7. WordOK(w)'
    BY <2>2, <2>3, <2>5, <2>6 DEF WordOK
  <2>8. CurrentInv'
    BY <2>2 DEF CurrentInv
  <2> QED
    BY <1>1, <1>2, <1>3, <2>2, <2>3, <2>4, <2>5, <2>6, <2>7, <2>8
<1> QED
  BY <1>4, <1>5, <1>6, <1>7, <1>8, <1>9, <1>10

(* Reset: a word is left with both keys at zero, or deferred. *)
LEMMA ResetInOrder ==
  ASSUME TypeInv, LocationInv, InOrder, Heartbeat,
         ResetSkip \/ ResetCounter \/ ResetHeartbeat \/ ResetEnd
  PROVE  InOrder'
<1> USE DEF TypeInv, DataOK, ControlTypeOK, StoreTypeOK, FieldTypeOK, InOrder,
        Goto, NextAction
<1>1. /\ ~InFlushLoop /\ ~InFlushLoop'
      /\ pc' \in {"reset", "reset_hb", "select"}
      /\ pending' = pending /\ initialized' = initialized
  BY DEF ResetSkip, ResetCounter, ResetHeartbeat, ResetEnd, ResetFailed,
     InFlushLoop, counterVars
<1>2. \A a \in Actions : Retried(a) => Retried(a)'
  BY <1>1, RetryStays
<1>3. CASE ResetEnd
  <2>1. /\ pc = "reset" /\ pc' = "select"
        /\ UNCHANGED <<ctr, hb, pendingHeartbeats, pendingResets>>
    BY <1>3 DEF ResetEnd, storeVars
  <2>2. KeysInv' /\ CurrentInv'
    BY <1>1, <2>1 DEF KeysInv, CurrentInv
  <2>3. \A a \in Actions : WordOK(a)'
    BY <1>2, <2>1, WordKept DEF BetweenWrites
  <2> QED
    BY <2>2, <2>3
<1>4. CASE ResetSkip \/ ResetCounter \/ ResetHeartbeat
  <2>1. /\ pc \in {"reset", "reset_hb"}
        /\ i <= N \/ pc = "reset_hb"
    BY <1>4 DEF ResetSkip, ResetCounter, ResetHeartbeat
  <2>2. i \in Actions
    BY <2>1, ConfigAssumption DEF IndexOK, Actions
  <2>3. PICK w \in Actions : w = i
    BY <2>2
  <2> USE <2>3
  (* The keys stay and the other words are left alone.                     *)
  <2>4. ASSUME \A a \in Actions \ {w} :
                  /\ hb'[a] = hb[a] /\ ctr'[a] = ctr[a]
                  /\ pendingHeartbeats'[a] = pendingHeartbeats[a]
                  /\ a \in pendingResets => a \in pendingResets',
               ctr[w] # Missing => ctr'[w] # Missing,
               \/ hb'[w] = hb[w]
               \/ hb'[w] # Missing /\ ctr'[w] # Missing,
               ctr'[w] = Missing => hb'[w] = Missing,
               WordOK(w)', CurrentInv'
        PROVE  InOrder'
    <3>1. \A a \in Actions \ {w} : WordOK(a)'
      BY <1>2, <2>4, WordKept DEF BetweenWrites
    <3>2. KeysInv'
      BY <1>1, <2>4, KeysKept DEF KeysInv
    <3> QED
      BY <2>4, <3>1, <3>2
  <2>8. ctr[w] = Missing => hb[w] = Missing
    BY DEF KeysInv
  <2>5. CASE ResetSkip
    <3>1. /\ pc' = "reset" /\ pendingResets' = pendingResets \cup {w}
          /\ UNCHANGED <<ctr, hb, pendingHeartbeats>>
      BY <2>5 DEF ResetSkip, DeferReset, storeVars
    <3>2. WordOK(w)' /\ CurrentInv'
      BY <3>1 DEF WordOK, CurrentInv
    <3> QED
      BY <2>4, <2>8, <3>1, <3>2
  <2>6. CASE ResetCounter
    <3>1. PICK reply \in Replies :
            /\ SetCounterZero(i, reply)
            /\ \/ /\ reply = "ok" /\ pc' = "reset_hb" /\ i' = i
                  /\ pendingResets' = pendingResets
               \/ /\ pc' = "reset"
                  /\ pendingResets' = pendingResets \cup {i}
      BY <2>6 DEF ResetCounter, ResetFailed, DeferReset
    <3>2. pendingHeartbeats' = pendingHeartbeats
      BY <2>6 DEF ResetCounter
    <3>3. /\ ctr' = ctr \/ ctr' = [ctr EXCEPT ![w] = 0]
          /\ reply = "ok" => ctr' = [ctr EXCEPT ![w] = 0]
          /\ hb' = hb
      BY <3>1, SetCounterZeroEffect
    <3>4. /\ \A a \in Actions \ {w} : ctr'[a] = ctr[a]
          /\ ctr'[w] \in {ctr[w], 0}
          /\ reply = "ok" => ctr'[w] = 0
      BY <3>3
    <3>5. WordOK(w)' /\ CurrentInv'
      BY <3>1, <3>4 DEF WordOK, BetweenWrites, CurrentInv
    <3> QED
      BY <2>4, <2>8, <3>1, <3>2, <3>3, <3>4, <3>5 DEF Missing
  <2>7. CASE ResetHeartbeat
    <3>1. PICK reply \in Replies :
            /\ SetHeartbeat(i, 0, reply)
            /\ \/ /\ reply = "ok" /\ pendingResets' = pendingResets \ {i}
                  /\ pendingHeartbeats' =
                       [pendingHeartbeats EXCEPT ![i] = None]
               \/ /\ reply # "ok" /\ pendingResets' = pendingResets \cup {i}
                  /\ pendingHeartbeats' = pendingHeartbeats
      BY <2>7 DEF ResetHeartbeat, ResetFailed, DeferReset, ForgetHeartbeat
    <3>2. pc = "reset_hb" /\ pc' = "reset" /\ ctr[w] = 0
      BY <2>7 DEF ResetHeartbeat, ResetFailed, CurrentInv
    <3>3. /\ ctr' = ctr
          /\ hb' = hb \/ hb' = [hb EXCEPT ![w] = 0]
          /\ reply = "ok" => hb' = [hb EXCEPT ![w] = 0]
      BY <3>1, SetHeartbeatEffect
    <3>4. /\ \A a \in Actions \ {w} : hb'[a] = hb[a]
          /\ hb'[w] \in {hb[w], 0}
          /\ reply = "ok" => hb'[w] = 0
      BY <3>3
    <3>5. /\ \A a \in Actions \ {w} :
                pendingHeartbeats'[a] = pendingHeartbeats[a]
          /\ reply = "ok" => pendingHeartbeats'[w] = None
      BY <3>1
    <3>6. WordOK(w)' /\ CurrentInv'
      BY <3>1, <3>2, <3>3, <3>4, <3>5 DEF WordOK, CurrentInv
    <3> QED
      BY <2>4, <3>1, <3>2, <3>3, <3>4, <3>5, <3>6 DEF Missing
  <2> QED
    BY <1>4, <2>5, <2>6, <2>7
<1> QED
  BY <1>3, <1>4

(* The select, and the two steps of a shutdown before the last flush: only *)
(* the place in the loop changes.                                          *)
LEMMA SelectInOrder ==
  ASSUME TypeInv, LocationInv, InOrder,
         SelectStep \/ StopTail \/ WaitConsumer
  PROVE  InOrder'
<1>1. /\ UNCHANGED <<ctr, hb, pending, initialized, pendingHeartbeats,
                     pendingResets>>
      /\ pc \in {"select", "stopping", "waiting"}
      /\ \/ pc' \in {"stopping", "waiting", "drain"}
         \/ pc' = "init_counter" /\ i' = 1
  BY DEF SelectStep, SelectTick, SelectReset, SelectDone, SelectMetricsErr,
     StopTail, WaitConsumer, EnterFlush, Goto, counterVars, storeVars,
     fieldVars
<1>2. KeysInv' /\ CurrentInv'
  BY <1>1 DEF InOrder, KeysInv, CurrentInv
<1>3. ASSUME NEW a \in Actions PROVE WordOK(a)'
  <2>1. Retried(a) => Retried(a)'
    BY <1>1, RetryStays DEF InFlushLoop
  <2> QED
    BY <1>1, <2>1, WordKept DEF InOrder, BetweenWrites
<1> QED
  BY <1>2, <1>3 DEF InOrder

(* Lines, failures and what else happens around the main goroutine. *)
LEMMA BystanderInOrder ==
  ASSUME TypeInv, InOrder, Bystander
  PROVE  InOrder'
<1> USE DEF TypeInv, DataOK, CounterTypeOK
<1>1. /\ UNCHANGED <<ctr, hb, pc, i, deltas, unwritten, total, initialized,
                     pendingHeartbeats, pendingResets>>
      /\ \A a \in Actions : pending[a] > 0 => pending'[a] > 0
  BY BystanderFrame
<1>2. KeysInv' /\ CurrentInv'
  BY <1>1 DEF InOrder, KeysInv, CurrentInv
<1>3. ASSUME NEW a \in Actions PROVE WordOK(a)'
  <2>1. Retried(a) => Retried(a)'
    BY <1>1 DEF Retried, InFlushLoop
  <2> QED
    BY <1>1, <2>1 DEF InOrder, WordOK, BetweenWrites
<1> QED
  BY <1>2, <1>3 DEF InOrder

(* Init: an earlier process left every heartbeat at its counter, or none.  *)
LEMMA HeartbeatInit == Init => HeartbeatInv
<1> SUFFICES ASSUME Init PROVE InOrder
  BY DEF HeartbeatInv
<1>1. /\ hb = ctr \/ hb = [a \in Actions |-> Missing]
      /\ \A a \in Actions : pendingHeartbeats[a] = None
      /\ pc = "init_counter" /\ i = 1 /\ ~initialized
  BY DEF Init, StoreInit
<1>2. KeysInv /\ CurrentInv
  BY <1>1 DEF KeysInv, CurrentInv
<1>3. \A a \in Actions : WordOK(a)
  BY <1>1 DEF WordOK
<1> QED
  BY <1>2, <1>3 DEF InOrder

(* A clear, a crash and a restart are excluded; every other step keeps the *)
(* words in order.                                                         *)
LEMMA HeartbeatStep ==
  ASSUME TypeInv, FlushInv, LocationInv, ClearInv, HeartbeatInv, [Next]_vars
  PROVE  HeartbeatInv'
<1> SUFFICES ASSUME Heartbeat, Undisturbed', Running' PROVE InOrder'
  BY DEF HeartbeatInv
<1>1. Undisturbed /\ ~ClearStart /\ ~Restart
  BY SpentStep DEF Undisturbed
<1>2. ~ClearCounter /\ ~ClearHeartbeat
  BY <1>1 DEF Undisturbed, ClearInv, ClearCounter, ClearHeartbeat, ClearTurn
<1>3. Running /\ ~Crash
  <2>1. CASE Running
    BY <2>1 DEF Crash, Running, Ended
  <2>2. CASE Ended
    <3>1. CASE MainStep \/ SelectStep
      BY <2>2, <3>1 DEF Ended, MainStep, SelectStep, InitCounter, InitGet,
         InitHeartbeat, InitTouch, FlushDrain, IdleTouch, ActSkip, ActReset,
         ActResetHeartbeat, ActNothing, ActPending, ActIncr, ActHeartbeat,
         FlushRestore, FlushTouch, ResetSkip, ResetCounter, ResetHeartbeat,
         ResetEnd, StopTail, WaitConsumer, SelectTick, SelectReset,
         SelectDone, SelectMetricsErr
    <3>2. CASE Bystander
      <4>1. pc' = pc
        BY <3>2, BystanderFrame
      <4> QED
        BY <2>2, <4>1 DEF Ended, Running
    <3>3. CASE Crash
      BY <3>3 DEF Crash, Ended, Running
    <3> QED
      BY <1>1, <1>2, <3>1, <3>2, <3>3 DEF Next, Environment, Bystander
  <2> QED
    BY <2>1, <2>2 DEF Running
<1>4. InOrder
  BY <1>1, <1>3 DEF HeartbeatInv
<1>5. CASE InitCounter \/ InitGet \/ InitHeartbeat \/ InitTouch
  BY <1>4, <1>5, InitInOrder
<1>6. CASE FlushDrain \/ IdleTouch \/ FlushRestore \/ FlushTouch
  BY <1>4, <1>6, FlushInOrder
<1>7. CASE ActSkip \/ ActReset \/ ActResetHeartbeat \/ ActNothing
             \/ ActPending \/ ActIncr \/ ActHeartbeat
  BY <1>4, <1>7, ActInOrder
<1>8. CASE ResetSkip \/ ResetCounter \/ ResetHeartbeat \/ ResetEnd
  BY <1>4, <1>8, ResetInOrder
<1>9. CASE SelectStep \/ StopTail \/ WaitConsumer
  BY <1>4, <1>9, SelectInOrder
<1>10. CASE Bystander
  BY <1>4, <1>10, BystanderInOrder
<1> QED
  BY <1>1, <1>2, <1>3, <1>5, <1>6, <1>7, <1>8, <1>9, <1>10 DEF Next,
     MainStep, Environment, Bystander

(* Whenever the main loop is idle, the heartbeat of every word shows its   *)
(* counter or the daemon knows what it still has to write: no failure of   *)
(* any of the writes, in any order of flushes and resets, makes it forget. *)
THEOREM HeartbeatSettledCorrect == Spec => []HeartbeatSettled
<1> DEFINE Inv == FlushOK /\ ClearInv /\ HeartbeatInv
<1>1. Init => Inv
  <2>1. Init => ClearInv
    BY DEF Init, ClearInv
  <2> QED
    BY <2>1, TypeInit, FlushInit, LocationInit, DrainInit, HeartbeatInit
       DEF FlushOK
<1>2. Inv /\ [Next]_vars => Inv'
  BY FlushOKStep, ClearStep, HeartbeatStep DEF FlushOK
<1>3. Inv => HeartbeatSettled
  <2> SUFFICES ASSUME HeartbeatInv, FlushOK, pc = "select", initialized,
                      Heartbeat, Undisturbed, NEW a \in Actions
               PROVE  \/ hb[a] = ctr[a]
                      \/ a \in pendingResets
                      \/ pendingHeartbeats[a] = ctr[a]
                      \/ FaultKinds # {} /\ pending[a] > 0
    BY DEF HeartbeatSettled
  <2>1. WordOK(a) /\ hb[a] # Missing
    BY DEF HeartbeatInv, InOrder, KeysInv, Running, Ended
  <2>2. ~BetweenWrites(a) /\ ~InFlushLoop
    BY DEF BetweenWrites, InFlushLoop
  <2> QED
    BY <2>1, <2>2 DEF WordOK, Retried
<1> QED
  BY <1>1, <1>2, <1>3, PTL DEF Spec
=============================================================================
