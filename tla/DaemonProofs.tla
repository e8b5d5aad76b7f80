---------------------------- MODULE DaemonProofs ----------------------------
(***************************************************************************)
(* Theorems about Daemon, for every number of words, every configuration,  *)
(* every kind of fault and every bound.                                    *)
(***************************************************************************)
EXTENDS Daemon, TLAPS

-----------------------------------------------------------------------------
(* What each round trip of Store can do to the keys, whatever the server   *)
(* and the connection make of it.                                          *)

(* Init's SETNX preserves the types and the value readers see, and once it *)
(* is answered the counter exists.                                         *)
LEMMA SetNXCounterEffect ==
  ASSUME StoreTypeOK, NEW a \in Actions, NEW reply \in Replies,
         SetNXCounter(a, reply)
  PROVE  /\ StoreTypeOK'
         /\ \A b \in Actions : Value(ctr'[b]) = Value(ctr[b])
         /\ \A b \in Actions : ctr'[b] <= Value(ctr[b])
         /\ \A b \in Actions : ctr[b] # Missing => ctr'[b] # Missing
         /\ reply = "ok" => ctr'[a] # Missing
         /\ \/ ctr' = ctr
            \/ ctr' = [ctr EXCEPT ![a] = IF @ = Missing THEN 0 ELSE @]
         /\ hb' = hb
<1>1. CASE Rejected(reply)
  BY <1>1 DEF Rejected, storeVars, StoreTypeOK, Value, Missing
<1>2. CASE Executed(reply) /\ ~Rejected(reply)
  <2>1. /\ ctr' = [ctr EXCEPT ![a] = IF @ = Missing THEN 0 ELSE @]
        /\ ctrExp' = IF ctr[a] = Missing THEN Expiring(ctrExp, a) ELSE ctrExp
        /\ UNCHANGED <<hb, hbExp>>
    BY <1>2 DEF SetNXCounter
  <2>2. mode' \in {"up", "refusing", "down"} /\ faults' \in Nat
    BY <1>2 DEF Executed, StoreTypeOK
  <2>3. ctrExp' \subseteq Actions
    BY <2>1 DEF Expiring, StoreTypeOK
  <2> QED
    BY <2>1, <2>2, <2>3 DEF StoreTypeOK, Value, Missing
<1> QED
  BY <1>1, <1>2 DEF SetNXCounter

(* GET changes no key. *)
LEMMA GetCounterEffect ==
  ASSUME StoreTypeOK, NEW a \in Actions, NEW reply \in Replies,
         GetCounter(a, reply)
  PROVE  StoreTypeOK' /\ ctr' = ctr /\ hb' = hb
BY DEF GetCounter, Executed, Rejected, storeVars, keyVars, StoreTypeOK

(* The SETNX of a heartbeat changes no counter. *)
LEMMA SetNXHeartbeatEffect ==
  ASSUME StoreTypeOK, NEW a \in Actions, NEW n \in Nat, NEW reply \in Replies,
         SetNXHeartbeat(a, n, reply)
  PROVE  /\ StoreTypeOK' /\ ctr' = ctr
         /\ hb' = hb \/ (hb[a] = Missing /\ hb' = [hb EXCEPT ![a] = n])
         /\ reply = "ok" => hb'[a] # Missing
<1>1. CASE Rejected(reply)
  BY <1>1 DEF Rejected, storeVars, StoreTypeOK, Missing
<1>2. CASE Executed(reply) /\ ~Rejected(reply)
  <2>1. /\ hb' = [hb EXCEPT ![a] = IF @ = Missing THEN n ELSE @]
        /\ hbExp' = IF hb[a] = Missing THEN Expiring(hbExp, a) ELSE hbExp
        /\ UNCHANGED <<ctr, ctrExp>>
    BY <1>2 DEF SetNXHeartbeat
  <2>2. mode' \in {"up", "refusing", "down"} /\ faults' \in Nat
    BY <1>2 DEF Executed, StoreTypeOK
  <2>3. hbExp' \subseteq Actions
    BY <2>1 DEF Expiring, StoreTypeOK
  <2>4. /\ hb[a] = Missing => hb' = [hb EXCEPT ![a] = n]
        /\ hb[a] # Missing => hb' = hb
    BY <2>1 DEF StoreTypeOK
  <2> QED
    BY <2>1, <2>2, <2>3, <2>4 DEF StoreTypeOK, Missing
<1> QED
  BY <1>1, <1>2 DEF SetNXHeartbeat, Rejected

(* The SET of a heartbeat, after an increment or a reset, changes no       *)
(* counter.                                                                *)
LEMMA SetHeartbeatEffect ==
  ASSUME StoreTypeOK, NEW a \in Actions, NEW n \in Nat, NEW reply \in Replies,
         SetHeartbeat(a, n, reply)
  PROVE  /\ StoreTypeOK' /\ ctr' = ctr
         /\ hb' = hb \/ hb' = [hb EXCEPT ![a] = n]
         /\ reply = "ok" /\ Heartbeat => hb' = [hb EXCEPT ![a] = n]
BY DEF SetHeartbeat, Executed, Rejected, storeVars, StoreTypeOK, Expiring,
       Missing

(* Touch changes no value, answered in full or in part. *)
LEMMA TouchEffect ==
  ASSUME StoreTypeOK, NEW reply \in Replies, Touch(reply)
  PROVE  StoreTypeOK' /\ ctr' = ctr /\ hb' = hb
<1>1. ASSUME NEW S \in SUBSET Actions, NEW T \in SUBSET Actions,
             TouchKeys(S, T)
      PROVE  /\ ctr' = ctr /\ hb' = hb
             /\ ctrExp' \subseteq Actions /\ hbExp' \subseteq Actions
  BY <1>1 DEF TouchKeys, Touched, StoreTypeOK
<1>2. CASE Executed(reply) /\ TouchKeys(Actions, Actions)
  BY <1>1, <1>2 DEF Executed, StoreTypeOK
<1>3. CASE /\ mode = "refusing" /\ reply = "refused"
           /\ \E S, T \in SUBSET Actions : TouchKeys(S, T)
           /\ UNCHANGED <<mode, faults>>
  BY <1>1, <1>3 DEF StoreTypeOK
<1>4. CASE Rejected(reply)
  BY <1>4 DEF Rejected, storeVars, StoreTypeOK
<1> QED
  BY <1>2, <1>3, <1>4 DEF Touch

(* Incr that is answered, or is sent again, has added delta.  One that     *)
(* ends in an error has not, and none is sent again, unless an ambiguous   *)
(* fault can happen.                                                       *)
LEMMA IncrEffect ==
  ASSUME StoreTypeOK, NEW a \in Actions, NEW delta \in Nat,
         NEW reply \in Replies \cup {"again"}, Incr(a, delta, reply)
  PROVE  /\ StoreTypeOK'
         /\ \/ ctr' = [ctr EXCEPT ![a] = Value(@) + delta]
            \/ reply \in Replies \ {"ok"} /\ ctr' = ctr
         /\ FaultKinds = {} => reply # "again" /\ (reply # "ok" => ctr' = ctr)
         /\ hb' = hb
<1>1. Value(ctr[a]) + delta \in Nat
  BY DEF StoreTypeOK, Value, Missing
<1>2. CASE Executed(reply) /\ Incremented(a, delta)
  BY <1>1, <1>2 DEF Executed, Incremented, StoreTypeOK, Replies
<1>3. CASE /\ "resent" \in FaultKinds
           /\ faults' = faults + 1
           /\ reply = "again"
           /\ Incremented(a, delta)
           /\ UNCHANGED mode
  BY <1>1, <1>3 DEF Incremented, StoreTypeOK, Replies
<1>4. CASE /\ "half" \in FaultKinds
           /\ faults' = faults + 1
           /\ reply = "refused"
           /\ ctr' = [ctr EXCEPT ![a] = Value(@) + delta]
           /\ UNCHANGED <<hb, ctrExp, hbExp, mode>>
  BY <1>1, <1>4 DEF StoreTypeOK, Replies
<1>5. CASE Rejected(reply)
  BY <1>5 DEF Rejected, storeVars, StoreTypeOK, Replies
<1> QED
  BY <1>2, <1>3, <1>4, <1>5 DEF Incr

(* The SET of a reset zeroes its counter or does nothing. *)
LEMMA SetCounterZeroEffect ==
  ASSUME StoreTypeOK, NEW a \in Actions, NEW reply \in Replies,
         SetCounterZero(a, reply)
  PROVE  /\ StoreTypeOK'
         /\ ctr' = ctr \/ ctr' = [ctr EXCEPT ![a] = 0]
         /\ reply = "ok" => ctr' = [ctr EXCEPT ![a] = 0]
         /\ hb' = hb
BY DEF SetCounterZero, Executed, Rejected, storeVars, StoreTypeOK, Expiring

-----------------------------------------------------------------------------
(* The types.                                                              *)

(* The locations inside a loop over the words have a current word, and the *)
(* counter that Init reads back exists.                                    *)
IndexOK ==
    /\ pc \in {"init_counter", "init_get", "init_hb", "act_reset_hb",
              "act_hb", "reset_hb"} => i <= N
    /\ pc = "init_get" => ctr[i] # Missing

(* TypeOK without the flags, strengthened by what makes it inductive. *)
DataOK ==
    /\ CounterTypeOK
    /\ StoreTypeOK
    /\ ControlTypeOK
    /\ FlushTypeOK
    /\ FieldTypeOK
    /\ EnvTypeOK
    /\ IndexOK

TypeInv == DataOK /\ FlagTypeOK

(* Flush returns to its caller, which then starts on its own loop. *)
LEMMA Returned ==
  ASSUME ControlTypeOK, ReturnFromFlush
  PROVE  /\ pc' \in {"select", "reset", "exited"} /\ i' = 1 /\ caller' = caller
         /\ resetErrs' = 0
BY DEF ControlTypeOK, ReturnFromFlush, ReturnTo, Callers

(* New and Run begin in a well-typed state. *)
LEMMA TypeInit == Init => TypeInv
<1> SUFFICES ASSUME Init PROVE TypeInv
  OBVIOUS
<1> USE ConfigAssumption, StoreAssumption DEF Init
<1>1. CounterTypeOK
  BY DEF CounterInit, CounterTypeOK, Zero
<1>2. StoreTypeOK
  BY DEF StoreInit, StoreTypeOK, Present, Missing
<1>3. ControlTypeOK /\ IndexOK
  BY DEF ControlTypeOK, IndexOK, Locations, Callers
<1>4. FlushTypeOK /\ FieldTypeOK /\ EnvTypeOK
  BY DEF FlushTypeOK, FieldTypeOK, EnvTypeOK, Zero, None, Limit, Replies
<1>5. FlagTypeOK
  BY DEF FlagTypeOK
<1> QED
  BY <1>1, <1>2, <1>3, <1>4, <1>5 DEF TypeInv, DataOK

(* The flags are changed together with everything else, but they are       *)
(* beyond the solver that does the arithmetic: they get a lemma of their    *)
(* own.                                                                     *)
LEMMA FlagStep == FlagTypeOK /\ [Next]_vars => FlagTypeOK'
<1> SUFFICES ASSUME FlagTypeOK, [Next]_vars PROVE FlagTypeOK'
  OBVIOUS
<1> USE DEF FlagTypeOK, RoundTrip, counterVars, storeVars, flushVars,
        fieldVars, tailVars, selectVars, envVars, histVars, mainVars
<1>1. CASE InitCounter
  BY <1>1 DEF InitCounter, InitNext, InitFailed, ReturnFromFlush
<1>2. CASE InitGet
  BY <1>2 DEF InitGet, InitFailed, ReturnFromFlush
<1>3. CASE InitHeartbeat
  BY <1>3 DEF InitHeartbeat, InitNext, InitFailed, ReturnFromFlush
<1>4. CASE InitTouch
  BY <1>4 DEF InitTouch
<1>5. CASE FlushDrain
  BY <1>5 DEF FlushDrain, ReturnFromFlush
<1>6. CASE IdleTouch
  BY <1>6 DEF IdleTouch, NoteAnswer, ReturnFromFlush
<1>7. CASE ActSkip
  BY <1>7 DEF ActSkip
<1>8. CASE ActReset
  BY <1>8 DEF ActReset, ActFailed, IsUnavailable
<1>9. CASE ActResetHeartbeat
  BY <1>9 DEF ActResetHeartbeat, ActFailed, IsUnavailable
<1>10. CASE ActNothing
  BY <1>10 DEF ActNothing
<1>11. CASE ActPending
  BY <1>11 DEF ActPending
<1>12. CASE ActIncr
  BY <1>12 DEF ActIncr, ActFailed, IsUnavailable
<1>13. CASE ActHeartbeat
  BY <1>13 DEF ActHeartbeat, ActFailed, IsUnavailable
<1>14. CASE FlushRestore
  BY <1>14 DEF FlushRestore, FlushEnd, ReturnFromFlush
<1>15. CASE FlushTouch
  BY <1>15 DEF FlushTouch, FlushEnd, ReturnFromFlush
<1>16. CASE ResetSkip
  BY <1>16 DEF ResetSkip
<1>17. CASE ResetCounter
  BY <1>17 DEF ResetCounter, ResetFailed, IsUnavailable
<1>18. CASE ResetHeartbeat
  BY <1>18 DEF ResetHeartbeat, ResetFailed, IsUnavailable
<1>19. CASE ResetEnd
  BY <1>19 DEF ResetEnd
<1>20. CASE StopTail
  BY <1>20 DEF StopTail
<1>21. CASE WaitConsumer
  BY <1>21 DEF WaitConsumer
<1>22. CASE SelectTick
  BY <1>22 DEF SelectTick
<1>23. CASE SelectReset
  BY <1>23 DEF SelectReset
<1>24. CASE SelectDone
  BY <1>24 DEF SelectDone
<1>25. CASE SelectMetricsErr
  BY <1>25 DEF SelectMetricsErr
<1>26. CASE Receive
  BY <1>26 DEF Receive
<1>27. CASE Consume
  BY <1>27 DEF Consume
<1>28. CASE CronFires
  BY <1>28 DEF CronFires
<1>29. CASE Signal
  BY <1>29 DEF Signal
<1>30. CASE ExporterFails
  BY <1>30 DEF ExporterFails
<1>31. CASE ClearStart
  BY <1>31 DEF ClearStart
<1>32. CASE ClearCounter
  BY <1>32 DEF ClearCounter
<1>33. CASE ClearHeartbeat
  BY <1>33 DEF ClearHeartbeat
<1>34. CASE RedisDegrades
  BY <1>34 DEF RedisDegrades, Degrade, keyVars
<1>35. CASE RedisRecovers
  BY <1>35 DEF RedisRecovers, Recover, keyVars
<1>36. CASE Crash
  BY <1>36 DEF Crash
<1>37. CASE Restart
  BY <1>37 DEF Restart
<1>38. CASE Terminated
  BY <1>38 DEF Terminated, vars
<1>39. CASE UNCHANGED vars
  BY <1>39 DEF vars
<1> QED
  BY <1>1, <1>2, <1>3, <1>4, <1>5, <1>6, <1>7, <1>8, <1>9, <1>10, <1>11,
     <1>12, <1>13, <1>14, <1>15, <1>16, <1>17, <1>18, <1>19, <1>20, <1>21,
     <1>22, <1>23, <1>24, <1>25, <1>26, <1>27, <1>28, <1>29, <1>30, <1>31,
     <1>32, <1>33, <1>34, <1>35, <1>36, <1>37, <1>38, <1>39 DEF Next,
     MainStep, SelectStep, Environment

(* Every step of the daemon keeps everything but the flags well typed, the *)
(* index of the loops over the words included.                             *)
LEMMA DataStep == DataOK /\ [Next]_vars => DataOK'
<1> SUFFICES ASSUME DataOK, [Next]_vars PROVE DataOK'
  OBVIOUS
<1> USE ConfigAssumption
        DEF DataOK, CounterTypeOK, StoreTypeOK, ControlTypeOK, FlushTypeOK,
            FieldTypeOK, EnvTypeOK, IndexOK, Locations, Callers,
            counterVars, storeVars, flushVars, fieldVars, tailVars,
            selectVars, envVars, histVars, mainVars,
            Goto, NextAction, ActFailed, PutAside, Kept, Taken,
            IsUnavailable, ForgetHeartbeat, ResetFailed, DeferReset,
            RoundTrip
<1>1. CASE InitCounter
  <2>1. i \in Actions
    BY <1>1 DEF InitCounter, Actions
  <2>2. StoreTypeOK' /\ IndexOK'
    BY <1>1, <2>1, Returned, SetNXCounterEffect DEF InitCounter, InitNext,
       InitFailed
  <2>3. CounterTypeOK' /\ FlushTypeOK'
    BY <1>1, <2>1, <2>2, Returned DEF InitCounter, InitNext, InitFailed
  <2>4. ControlTypeOK' /\ EnvTypeOK'
    BY <1>1, <2>1, <2>2, Returned DEF InitCounter, InitNext, InitFailed
  <2>5. FieldTypeOK'
    BY <1>1, <2>1, <2>2, Returned DEF InitCounter, InitNext, InitFailed
  <2> QED
    BY <2>2, <2>3, <2>4, <2>5
<1>2. CASE InitGet
  <2>1. i \in Actions
    BY <1>2 DEF InitGet, Actions
  <2>2. StoreTypeOK' /\ IndexOK'
    BY <1>2, <2>1, Returned, GetCounterEffect DEF InitGet, InitFailed
  <2>3. CounterTypeOK' /\ FlushTypeOK'
    BY <1>2, <2>1, <2>2, Returned DEF InitGet, InitFailed
  <2>4. ControlTypeOK' /\ EnvTypeOK'
    BY <1>2, <2>1, <2>2, Returned DEF InitGet, InitFailed
  <2>5. FieldTypeOK'
    BY <1>2, <2>1, <2>2, Returned DEF InitGet, InitFailed
  <2> QED
    BY <2>2, <2>3, <2>4, <2>5
<1>3. CASE InitHeartbeat
  <2>1. i \in Actions
    BY <1>3 DEF InitHeartbeat, Actions
  <2>2. StoreTypeOK' /\ IndexOK'
    BY <1>3, <2>1, Returned, SetNXHeartbeatEffect DEF InitHeartbeat,
       InitNext, InitFailed
  <2>3. CounterTypeOK' /\ FlushTypeOK'
    BY <1>3, <2>1, <2>2, Returned DEF InitHeartbeat, InitNext, InitFailed
  <2>4. ControlTypeOK' /\ EnvTypeOK'
    BY <1>3, <2>1, <2>2, Returned DEF InitHeartbeat, InitNext, InitFailed
  <2>5. FieldTypeOK'
    BY <1>3, <2>1, <2>2, Returned DEF InitHeartbeat, InitNext, InitFailed
  <2> QED
    BY <2>2, <2>3, <2>4, <2>5
<1>4. CASE InitTouch
  <2>1. StoreTypeOK' /\ IndexOK'
    BY <1>4, TouchEffect DEF InitTouch
  <2>2. CounterTypeOK' /\ ControlTypeOK' /\ FlushTypeOK'
          /\ FieldTypeOK' /\ EnvTypeOK'
    BY <1>4, <2>1 DEF InitTouch
  <2> QED
    BY <2>1, <2>2
<1>5. CASE FlushDrain
  BY <1>5, Returned DEF FlushDrain, Drain, Zero
<1>6. CASE IdleTouch
  <2>1. StoreTypeOK' /\ IndexOK'
    BY <1>6, Returned, TouchEffect DEF IdleTouch, NoteAnswer
  <2>2. CounterTypeOK' /\ ControlTypeOK' /\ FlushTypeOK'
          /\ FieldTypeOK' /\ EnvTypeOK'
    BY <1>6, <2>1, Returned DEF IdleTouch, NoteAnswer
  <2> QED
    BY <2>1, <2>2
<1>7. CASE ActSkip
  <2>1. i \in Actions
    BY <1>7 DEF ActSkip, Actions
  <2>2. FlushTypeOK'
    BY <1>7, <2>1 DEF ActSkip
  <2>3. CounterTypeOK' /\ StoreTypeOK' /\ ControlTypeOK' /\ FieldTypeOK'
          /\ EnvTypeOK' /\ IndexOK'
    BY <1>7 DEF ActSkip
  <2> QED
    BY <2>2, <2>3
<1>8. CASE ActReset
  <2>1. i \in Actions
    BY <1>8 DEF ActReset, Actions
  <2>2. StoreTypeOK'
    BY <1>8, <2>1, SetCounterZeroEffect DEF ActReset
  <2>3. CounterTypeOK' /\ EnvTypeOK'
    BY <1>8 DEF ActReset
  <2>4. ControlTypeOK' /\ IndexOK'
    BY <1>8 DEF ActReset
  <2>6. FlushTypeOK'
    BY <1>8, <2>1 DEF ActReset
  <2>7. FieldTypeOK'
    BY <1>8, <2>1 DEF ActReset
  <2> QED
    BY <2>2, <2>3, <2>4, <2>6, <2>7
<1>9. CASE ActResetHeartbeat
  <2>1. i \in Actions
    BY <1>9 DEF ActResetHeartbeat, Actions
  <2>2. StoreTypeOK'
    BY <1>9, <2>1, SetHeartbeatEffect DEF ActResetHeartbeat
  <2>3. CounterTypeOK' /\ EnvTypeOK'
    BY <1>9 DEF ActResetHeartbeat
  <2>4. ControlTypeOK' /\ IndexOK'
    BY <1>9 DEF ActResetHeartbeat
  <2>6. FlushTypeOK'
    BY <1>9, <2>1 DEF ActResetHeartbeat
  <2>7. FieldTypeOK'
    BY <1>9, <2>1 DEF ActResetHeartbeat, None
  <2> QED
    BY <2>2, <2>3, <2>4, <2>6, <2>7
<1>10. CASE ActNothing
  BY <1>10 DEF ActNothing
<1>11. CASE ActPending
  <2>1. i \in Actions
    BY <1>11 DEF ActPending, Actions
  <2>2. StoreTypeOK' /\ IndexOK' /\ CounterTypeOK' /\ ControlTypeOK'
          /\ FlushTypeOK' /\ FieldTypeOK' /\ EnvTypeOK'
    BY <1>11, <2>1 DEF ActPending, None
  <2> QED
    BY <2>1, <2>2
<1>12. CASE ActIncr
  <2>1. i \in Actions
    BY <1>12 DEF ActIncr, Actions
  <2>2. StoreTypeOK'
    BY <1>12, <2>1, IncrEffect DEF ActIncr
  <2>3. CounterTypeOK' /\ EnvTypeOK'
    BY <1>12 DEF ActIncr
  <2>4. ControlTypeOK' /\ IndexOK'
    BY <1>12 DEF ActIncr
  <2>5. total' \in Nat
    <3>1. ASSUME NEW reply \in Replies, reply = "ok",
                 Incr(i, deltas[i], reply)
          PROVE  ctr'[i] \in Nat
      BY <2>1, <3>1, IncrEffect DEF Value, Missing
    <3> QED
      BY <1>12, <3>1 DEF ActIncr
  <2>6. FlushTypeOK'
    <3>1. PICK reply \in Replies \cup {"again"} :
            \/ UNCHANGED <<deltas, unwritten, errs>>
            \/ ActFailed(reply, TRUE)
      BY <1>12 DEF ActIncr
    <3>2. /\ deltas' \in [Actions -> Nat]
          /\ unwritten' \in [Actions -> Nat]
          /\ errs' \in Nat
      BY <2>1, <3>1
    <3>3. resetErrs' = resetErrs
      BY <1>12 DEF ActIncr
    <3> QED
      BY <2>5, <3>2, <3>3
  <2>7. FieldTypeOK'
    BY <1>12, <2>1 DEF ActIncr
  <2> QED
    BY <2>2, <2>3, <2>4, <2>6, <2>7
<1>13. CASE ActHeartbeat
  <2>1. i \in Actions
    BY <1>13 DEF ActHeartbeat, Actions
  <2>2. StoreTypeOK'
    BY <1>13, <2>1, SetHeartbeatEffect DEF ActHeartbeat
  <2>3. CounterTypeOK' /\ EnvTypeOK'
    BY <1>13 DEF ActHeartbeat
  <2>4. ControlTypeOK' /\ IndexOK'
    BY <1>13 DEF ActHeartbeat
  <2>6. FlushTypeOK'
    BY <1>13, <2>1 DEF ActHeartbeat
  <2>7. FieldTypeOK'
    BY <1>13, <2>1 DEF ActHeartbeat, None
  <2> QED
    BY <2>2, <2>3, <2>4, <2>6, <2>7
<1>14. CASE FlushRestore
  BY <1>14, Returned DEF FlushRestore, Restore, FlushEnd, Zero
<1>15. CASE FlushTouch
  <2>1. StoreTypeOK' /\ IndexOK'
    BY <1>15, Returned, TouchEffect DEF FlushTouch, FlushEnd
  <2>2. CounterTypeOK' /\ ControlTypeOK' /\ FlushTypeOK'
          /\ FieldTypeOK' /\ EnvTypeOK'
    BY <1>15, <2>1, Returned DEF FlushTouch, FlushEnd
  <2> QED
    BY <2>1, <2>2
<1>16. CASE ResetSkip
  <2>1. i \in Actions
    BY <1>16 DEF ResetSkip, Actions
  <2>2. StoreTypeOK' /\ IndexOK' /\ CounterTypeOK' /\ FlushTypeOK'
    BY <1>16, <2>1 DEF ResetSkip
  <2>3. ControlTypeOK' /\ EnvTypeOK'
    BY <1>16, <2>1 DEF ResetSkip
  <2>4. FieldTypeOK'
    BY <1>16, <2>1 DEF ResetSkip
  <2> QED
    BY <2>1, <2>2, <2>3, <2>4
<1>17. CASE ResetCounter
  <2>1. i \in Actions
    BY <1>17 DEF ResetCounter, Actions
  <2>2. StoreTypeOK' /\ IndexOK'
    BY <1>17, <2>1, SetCounterZeroEffect DEF ResetCounter
  <2>3. CounterTypeOK' /\ FlushTypeOK'
    BY <1>17, <2>1, <2>2 DEF ResetCounter
  <2>4. ControlTypeOK' /\ EnvTypeOK'
    BY <1>17, <2>1, <2>2 DEF ResetCounter
  <2>5. FieldTypeOK'
    BY <1>17, <2>1, <2>2 DEF ResetCounter
  <2> QED
    BY <2>2, <2>3, <2>4, <2>5
<1>18. CASE ResetHeartbeat
  <2>1. i \in Actions
    BY <1>18 DEF ResetHeartbeat, Actions
  <2>2. StoreTypeOK' /\ IndexOK'
    BY <1>18, <2>1, SetHeartbeatEffect DEF ResetHeartbeat, None
  <2>3. CounterTypeOK' /\ FlushTypeOK'
    BY <1>18, <2>1, <2>2 DEF ResetHeartbeat, None
  <2>4. ControlTypeOK' /\ EnvTypeOK'
    BY <1>18, <2>1, <2>2 DEF ResetHeartbeat, None
  <2>5. FieldTypeOK'
    BY <1>18, <2>1, <2>2 DEF ResetHeartbeat, None
  <2> QED
    BY <2>2, <2>3, <2>4, <2>5
<1>19. CASE ResetEnd
  BY <1>19 DEF ResetEnd, Zero
<1>20. CASE StopTail
  BY <1>20 DEF StopTail
<1>21. CASE WaitConsumer
  BY <1>21 DEF WaitConsumer, EnterFlush
<1>22. CASE SelectTick
  BY <1>22 DEF SelectTick, EnterFlush
<1>23. CASE SelectReset
  BY <1>23 DEF SelectReset, EnterFlush
<1>24. CASE SelectDone
  BY <1>24 DEF SelectDone
<1>25. CASE SelectMetricsErr
  BY <1>25 DEF SelectMetricsErr
<1>26. CASE Receive
  BY <1>26, BoundsAssumption DEF Receive
<1>27. CASE Consume
  BY <1>27 DEF Consume, ProcessLine, Plus
<1>28. CASE CronFires
  BY <1>28 DEF CronFires, Spend, Limit
<1>29. CASE Signal
  BY <1>29 DEF Signal, Spend, Limit
<1>30. CASE ExporterFails
  BY <1>30 DEF ExporterFails, Spend, Limit
<1>31. CASE ClearStart
  BY <1>31 DEF ClearStart, Spend, Limit
<1>32. CASE ClearCounter
  <2>1. StoreTypeOK' /\ IndexOK'
    <3>1. PICK a \in Actions, reply \in Replies : SetCounterZero(a, reply)
      BY <1>32 DEF ClearCounter
    <3>2. StoreTypeOK' /\ (ctr' = ctr \/ ctr' = [ctr EXCEPT ![a] = 0])
      BY <3>1, SetCounterZeroEffect
    <3>3. pc' = pc /\ i' = i
      BY <1>32 DEF ClearCounter
    <3>4. CASE pc = "init_get"
      <4>1. i \in Actions /\ ctr[i] # Missing
        BY <3>4 DEF Actions
      <4>2. ctr'[i] # Missing
        BY <3>2, <4>1 DEF Missing
      <4> QED
        BY <3>2, <3>3, <4>2
    <3> QED
      BY <3>2, <3>3, <3>4
  <2>2. CounterTypeOK' /\ ControlTypeOK' /\ FlushTypeOK'
          /\ FieldTypeOK' /\ EnvTypeOK'
    BY <1>32, <2>1 DEF ClearCounter
  <2> QED
    BY <2>1, <2>2
<1>33. CASE ClearHeartbeat
  <2>1. StoreTypeOK' /\ IndexOK'
    BY <1>33, SetHeartbeatEffect DEF ClearHeartbeat
  <2>2. CounterTypeOK' /\ ControlTypeOK' /\ FlushTypeOK'
          /\ FieldTypeOK' /\ EnvTypeOK'
    BY <1>33, <2>1 DEF ClearHeartbeat
  <2> QED
    BY <2>1, <2>2
<1>34. CASE RedisDegrades
  BY <1>34 DEF RedisDegrades, Degrade, keyVars
<1>35. CASE RedisRecovers
  BY <1>35 DEF RedisRecovers, Recover, keyVars
<1>36. CASE Crash
  BY <1>36 DEF Crash, Spend, Limit
<1>37. CASE Restart
  BY <1>37 DEF Restart, Spend, Limit, Zero, None, Replies
<1>38. CASE Terminated
  BY <1>38 DEF Terminated, vars
<1>39. CASE UNCHANGED vars
  BY <1>39 DEF vars
<1> QED
  BY <1>1, <1>2, <1>3, <1>4, <1>5, <1>6, <1>7, <1>8, <1>9, <1>10, <1>11,
     <1>12, <1>13, <1>14, <1>15, <1>16, <1>17, <1>18, <1>19, <1>20, <1>21,
     <1>22, <1>23, <1>24, <1>25, <1>26, <1>27, <1>28, <1>29, <1>30, <1>31,
     <1>32, <1>33, <1>34, <1>35, <1>36, <1>37, <1>38, <1>39 DEF Next,
     MainStep, SelectStep, Environment

(* The state stays well typed, from the first SETNX to the last restart.   *)
THEOREM TypeCorrect == Spec => []TypeOK
<1>1. TypeInv /\ [Next]_vars => TypeInv'
  BY DataStep, FlagStep DEF TypeInv
<1>2. TypeInv => TypeOK
  BY DEF TypeInv, DataOK, TypeOK
<1> QED
  BY TypeInit, <1>1, <1>2, PTL DEF Spec

(* Only Init, Incr and the resets change a counter. *)
LEMMA CountersStep ==
  ASSUME TypeInv, [Next]_vars,
         ~InitCounter, ~ActIncr, ~ActReset, ~ResetCounter, ~ClearCounter
  PROVE  ctr' = ctr
<1> USE ConfigAssumption
        DEF TypeInv, DataOK, ControlTypeOK, FlushTypeOK, IndexOK, Actions,
            counterVars, storeVars, flushVars, fieldVars, tailVars,
            selectVars, envVars, histVars, mainVars
<1>1. CASE InitGet
  BY <1>1, GetCounterEffect DEF InitGet
<1>2. CASE InitHeartbeat
  BY <1>2, SetNXHeartbeatEffect DEF InitHeartbeat
<1>3. CASE InitTouch
  BY <1>3, TouchEffect DEF InitTouch
<1>4. CASE FlushDrain
  BY <1>4 DEF FlushDrain
<1>5. CASE IdleTouch
  BY <1>5, TouchEffect DEF IdleTouch
<1>6. CASE ActSkip
  BY <1>6 DEF ActSkip
<1>7. CASE ActResetHeartbeat
  BY <1>7, SetHeartbeatEffect DEF ActResetHeartbeat
<1>8. CASE ActNothing
  BY <1>8 DEF ActNothing
<1>9. CASE ActPending
  BY <1>9 DEF ActPending
<1>10. CASE ActHeartbeat
  BY <1>10, SetHeartbeatEffect DEF ActHeartbeat
<1>11. CASE FlushRestore
  BY <1>11 DEF FlushRestore
<1>12. CASE FlushTouch
  BY <1>12, TouchEffect DEF FlushTouch
<1>13. CASE ResetSkip
  BY <1>13 DEF ResetSkip
<1>14. CASE ResetHeartbeat
  BY <1>14, SetHeartbeatEffect DEF ResetHeartbeat
<1>15. CASE ResetEnd
  BY <1>15 DEF ResetEnd
<1>16. CASE StopTail
  BY <1>16 DEF StopTail
<1>17. CASE WaitConsumer
  BY <1>17 DEF WaitConsumer
<1>18. CASE SelectTick
  BY <1>18 DEF SelectTick
<1>19. CASE SelectReset
  BY <1>19 DEF SelectReset
<1>20. CASE SelectDone
  BY <1>20 DEF SelectDone
<1>21. CASE SelectMetricsErr
  BY <1>21 DEF SelectMetricsErr
<1>22. CASE Receive
  BY <1>22 DEF Receive
<1>23. CASE Consume
  BY <1>23 DEF Consume
<1>24. CASE CronFires
  BY <1>24 DEF CronFires
<1>25. CASE Signal
  BY <1>25 DEF Signal
<1>26. CASE ExporterFails
  BY <1>26 DEF ExporterFails
<1>27. CASE ClearStart
  BY <1>27 DEF ClearStart
<1>28. CASE ClearHeartbeat
  BY <1>28, SetHeartbeatEffect DEF ClearHeartbeat
<1>29. CASE RedisDegrades
  BY <1>29 DEF RedisDegrades, Degrade, keyVars
<1>30. CASE RedisRecovers
  BY <1>30 DEF RedisRecovers, Recover, keyVars
<1>31. CASE Crash
  BY <1>31 DEF Crash
<1>32. CASE Restart
  BY <1>32 DEF Restart
<1>33. CASE Terminated
  BY <1>33 DEF Terminated, vars
<1>34. CASE UNCHANGED vars
  BY <1>34 DEF vars
<1> QED
  BY <1>1, <1>2, <1>3, <1>4, <1>5, <1>6, <1>7, <1>8, <1>9, <1>10,
     <1>11, <1>12, <1>13, <1>14, <1>15, <1>16, <1>17, <1>18, <1>19,
     <1>20, <1>21, <1>22, <1>23, <1>24, <1>25, <1>26, <1>27, <1>28,
     <1>29, <1>30, <1>31, <1>32, <1>33, <1>34
     DEF Next, MainStep, SelectStep, Environment

(* No step of any process adds to the counter of a word whose reset is     *)
(* deferred: flushAction zeroes it first, in whatever order failures,      *)
(* schedule and flushes come.                                              *)
THEOREM DeferredResetFirstCorrect == Spec => DeferredResetFirst
<1> DEFINE NoGrowth == \A a \in pendingResets : ctr'[a] <= Value(ctr[a])
<1>1. ASSUME TypeInv, [Next]_vars PROVE NoGrowth
  <2> USE ConfigAssumption DEF TypeInv, DataOK
  <2>1. /\ pendingResets \subseteq Actions
        /\ ctr \in [Actions -> Nat \cup {Missing}]
    BY <1>1 DEF FieldTypeOK, StoreTypeOK
  <2>2. CASE ctr' = ctr
    BY <2>1, <2>2 DEF Value, Missing
  <2>3. ASSUME NEW a \in Actions, ctr' = ctr \/ ctr' = [ctr EXCEPT ![a] = 0]
        PROVE  NoGrowth
    BY <2>1, <2>3 DEF Value, Missing
  <2>4. CASE InitCounter
    <3>1. i \in Actions
      BY <1>1, <2>4 DEF InitCounter, ControlTypeOK, IndexOK, Actions
    <3>2. \A b \in Actions : ctr'[b] <= Value(ctr[b])
      BY <1>1, <2>4, <3>1, SetNXCounterEffect DEF InitCounter
    <3> QED
      BY <2>1, <3>2
  <2>5. CASE ActIncr
    <3>1. i \in Actions /\ deltas[i] \in Nat /\ i \notin pendingResets
      BY <1>1, <2>5 DEF ActIncr, ControlTypeOK, FlushTypeOK, Actions,
         NoDeferredReset
    <3>2. ctr' = ctr \/ ctr' = [ctr EXCEPT ![i] = Value(@) + deltas[i]]
      BY <1>1, <2>5, <3>1, IncrEffect DEF ActIncr
    <3> QED
      BY <2>1, <3>1, <3>2 DEF Value, Missing
  <2>6. CASE ActReset
    <3>1. i \in Actions
      BY <1>1, <2>6 DEF ActReset, ControlTypeOK, Actions
    <3>2. ctr' = ctr \/ ctr' = [ctr EXCEPT ![i] = 0]
      BY <1>1, <2>6, <3>1, SetCounterZeroEffect DEF ActReset
    <3> QED
      BY <2>3, <3>1, <3>2
  <2>7. CASE ResetCounter
    <3>1. i \in Actions
      BY <1>1, <2>7 DEF ResetCounter, ControlTypeOK, Actions
    <3>2. ctr' = ctr \/ ctr' = [ctr EXCEPT ![i] = 0]
      BY <1>1, <2>7, <3>1, SetCounterZeroEffect DEF ResetCounter
    <3> QED
      BY <2>3, <3>1, <3>2
  <2>8. CASE ClearCounter
    <3>1. PICK a \in Actions, reply \in Replies : SetCounterZero(a, reply)
      BY <2>8 DEF ClearCounter
    <3> QED
      BY <1>1, <2>3, <3>1, SetCounterZeroEffect
  <2> QED
    BY <1>1, <2>2, <2>4, <2>5, <2>6, <2>7, <2>8, CountersStep
<1>2. TypeInv /\ [Next]_vars => TypeInv' /\ [NoGrowth]_vars
  BY <1>1, DataStep, FlagStep DEF TypeInv
<1> QED
  BY TypeInit, <1>2, PTL DEF Spec, DeferredResetFirst

-----------------------------------------------------------------------------
(* Daemon implements Ledger: no match is lost, and without ambiguous       *)
(* faults none is counted twice.                                           *)

(* Where the increments of a flush are.  Outside the loop over the words   *)
(* they are all in the buffer; inside it, the words behind have none left  *)
(* in `deltas' and the words ahead none yet in `unwritten', which is why   *)
(* putting a delta aside never overwrites one.                             *)
InFlushLoop == pc \in {"act", "act_reset_hb", "act_hb"}

FlushInv ==
    /\ ~InFlushLoop /\ pc # "crashed" => deltas = Zero /\ unwritten = Zero
    /\ InFlushLoop =>
         \A a \in Actions : /\ a < i => deltas[a] = 0
                            /\ i <= a => unwritten[a] = 0

(* Before the first flush nothing is under way. *)
LEMMA FlushInit == Init => FlushInv
BY DEF Init, FlushInv, InFlushLoop

(* Every step of Flush and of everything around it keeps the increments of *)
(* a flush where FlushInv says they are.                                   *)
LEMMA FlushStep == TypeInv /\ FlushInv /\ [Next]_vars => FlushInv'
<1> SUFFICES ASSUME TypeInv, FlushInv, [Next]_vars PROVE FlushInv'
  OBVIOUS
<1> USE ConfigAssumption
        DEF TypeInv, DataOK, ControlTypeOK, FlushTypeOK, FlushInv,
            InFlushLoop, IndexOK, Actions, Zero, Goto, NextAction,
            ActFailed, PutAside, Kept, Taken, IsUnavailable,
            ForgetHeartbeat, ResetFailed, DeferReset, RoundTrip, InitNext,
            InitFailed, FlushEnd, EnterFlush, counterVars, storeVars,
            flushVars, fieldVars, tailVars, selectVars, envVars, histVars,
            mainVars
<1>1. CASE InitCounter
  BY <1>1, Returned DEF InitCounter
<1>2. CASE InitGet
  BY <1>2, Returned DEF InitGet
<1>3. CASE InitHeartbeat
  BY <1>3, Returned DEF InitHeartbeat
<1>4. CASE InitTouch
  BY <1>4 DEF InitTouch
<1>5. CASE FlushDrain
  BY <1>5, Returned DEF FlushDrain, Drain, NothingToDo
<1>6. CASE IdleTouch
  BY <1>6, Returned DEF IdleTouch, NoteAnswer
<1>7. CASE ActSkip
  BY <1>7 DEF ActSkip
<1>8. CASE ActReset
  BY <1>8 DEF ActReset
<1>9. CASE ActResetHeartbeat
  BY <1>9 DEF ActResetHeartbeat, None
<1>10. CASE ActNothing
  BY <1>10 DEF ActNothing
<1>11. CASE ActPending
  BY <1>11 DEF ActPending, None
<1>12. CASE ActIncr
  BY <1>12 DEF ActIncr, Value, Missing
<1>13. CASE ActHeartbeat
  BY <1>13 DEF ActHeartbeat, None
<1>14. CASE FlushRestore
  <2>1. deltas = Zero
    <3>1. pc = "act" /\ i = N + 1
      BY <1>14 DEF FlushRestore
    <3>2. \A a \in Actions : deltas[a] = 0
      BY <3>1
    <3> QED
      BY <3>2
  <2>2. deltas' = Zero /\ unwritten' = Zero
    BY <1>14, <2>1 DEF FlushRestore
  <2>3. pc' \in {"touch", "select", "reset", "exited"}
    BY <1>14, Returned DEF FlushRestore
  <2> QED
    BY <2>2, <2>3
<1>15. CASE FlushTouch
  BY <1>15, Returned DEF FlushTouch
<1>16. CASE ResetSkip
  BY <1>16 DEF ResetSkip
<1>17. CASE ResetCounter
  BY <1>17 DEF ResetCounter
<1>18. CASE ResetHeartbeat
  BY <1>18 DEF ResetHeartbeat, None
<1>19. CASE ResetEnd
  BY <1>19 DEF ResetEnd
<1>20. CASE StopTail
  BY <1>20 DEF StopTail
<1>21. CASE WaitConsumer
  BY <1>21 DEF WaitConsumer
<1>22. CASE SelectTick
  BY <1>22 DEF SelectTick
<1>23. CASE SelectReset
  BY <1>23 DEF SelectReset
<1>24. CASE SelectDone
  BY <1>24 DEF SelectDone
<1>25. CASE SelectMetricsErr
  BY <1>25 DEF SelectMetricsErr
<1>26. CASE Receive
  BY <1>26 DEF Receive
<1>27. CASE Consume
  BY <1>27 DEF Consume, ProcessLine, Plus
<1>28. CASE CronFires
  BY <1>28 DEF CronFires
<1>29. CASE Signal
  BY <1>29 DEF Signal
<1>30. CASE ExporterFails
  BY <1>30 DEF ExporterFails
<1>31. CASE ClearStart
  BY <1>31 DEF ClearStart
<1>32. CASE ClearCounter
  BY <1>32 DEF ClearCounter
<1>33. CASE ClearHeartbeat
  BY <1>33 DEF ClearHeartbeat
<1>34. CASE RedisDegrades
  BY <1>34 DEF RedisDegrades, Degrade, keyVars
<1>35. CASE RedisRecovers
  BY <1>35 DEF RedisRecovers, Recover, keyVars
<1>36. CASE Crash
  BY <1>36 DEF Crash
<1>37. CASE Restart
  BY <1>37 DEF Restart, Ended
<1>38. CASE Terminated
  BY <1>38 DEF Terminated, vars
<1>39. CASE UNCHANGED vars
  BY <1>39 DEF vars
<1> QED
  BY <1>1, <1>2, <1>3, <1>4, <1>5, <1>6, <1>7, <1>8, <1>9, <1>10, <1>11,
     <1>12, <1>13, <1>14, <1>15, <1>16, <1>17, <1>18, <1>19, <1>20, <1>21,
     <1>22, <1>23, <1>24, <1>25, <1>26, <1>27, <1>28, <1>29, <1>30, <1>31,
     <1>32, <1>33, <1>34, <1>35, <1>36, <1>37, <1>38, <1>39 DEF Next,
     MainStep, SelectStep, Environment

(* What a step of the daemon leaves alone if it neither observes nor posts *)
(* nor zeroes.                                                             *)
SharesKept ==
    /\ ~Ended' => \A a \in Actions : Owed(a)' = Owed(a)
    /\ \A a \in Actions : Value(ctr'[a]) = Value(ctr[a])
    /\ Ended => Ended'

(* Such a step ends the process, or the ledger does not see it. *)
LEMMA Quiet ==
  ASSUME SharesKept
  PROVE  UNCHANGED <<owedBar, countedBar, aliveBar>> \/ Once!End
<1> USE DEF SharesKept
<1>1. countedBar' = countedBar
  BY DEF countedBar
<1>2. CASE Ended
  BY <1>1, <1>2 DEF owedBar, aliveBar
<1>3. CASE ~Ended /\ ~Ended'
  BY <1>1, <1>3 DEF owedBar, aliveBar
<1>4. CASE ~Ended /\ Ended'
  BY <1>1, <1>4 DEF owedBar, aliveBar, Once!End
<1> QED
  BY <1>2, <1>3, <1>4

(* A step that zeroes one counter and owes as much as before. *)
LEMMA Zeroed ==
  ASSUME NEW b \in Actions,
         \A a \in Actions : Owed(a)' = Owed(a),
         ctr \in [Actions -> Nat \cup {Missing}],
         ctr' = ctr \/ ctr' = [ctr EXCEPT ![b] = 0],
         Ended' <=> Ended
  PROVE  UNCHANGED <<owedBar, countedBar, aliveBar>> \/ Once!SetToZero(b)
<1>1. owedBar' = owedBar
  BY DEF owedBar
<1>2. aliveBar' = aliveBar
  BY DEF aliveBar
<1>3. CASE ctr' = ctr
  BY <1>1, <1>2, <1>3 DEF countedBar
<1>4. CASE ctr' = [ctr EXCEPT ![b] = 0]
  <2>1. countedBar' = [countedBar EXCEPT ![b] = 0]
    BY <1>4 DEF countedBar, Value, Missing
  <2> QED
    BY <1>1, <1>2, <2>1 DEF Once!SetToZero
<1> QED
  BY <1>3, <1>4

(* What a step of Daemon may be to the ledger: nothing, a step of Ledger,  *)
(* or - with ambiguous faults - an increment that goes unnoticed.          *)
Unnoticed ==
    /\ FaultKinds # {}
    /\ \E a \in Actions : \E n \in 1..owedBar[a] : AtLeast!PostUnnoticed(a, n)

LedgerStep ==
    \/ UNCHANGED <<owedBar, countedBar, aliveBar>>
    \/ Once!Next
    \/ Unnoticed

(* A delta that flushAction hands back is owed as before: it moves from    *)
(* `deltas' to `unwritten', where its word has none yet.                   *)
LEMMA SetAside ==
  ASSUME TypeInv, FlushInv, i \in Actions,
         pc \in {"act", "act_reset_hb"}, pc' = "act",
         pending' = pending, deltas' = Taken, unwritten' = Kept
  PROVE  \A a \in Actions : Owed(a)' = Owed(a)
<1>1. /\ deltas \in [Actions -> Nat] /\ unwritten \in [Actions -> Nat]
      /\ pending \in [Actions -> Nat] /\ unwritten[i] = 0
  BY ConfigAssumption DEF TypeInv, DataOK, ControlTypeOK, FlushTypeOK,
     CounterTypeOK, FlushInv, InFlushLoop, Actions
<1>2. /\ deltas' = [deltas EXCEPT ![i] = 0]
      /\ unwritten' = [unwritten EXCEPT ![i] = deltas[i]]
  BY DEF Taken, Kept
<1> QED
  BY <1>1, <1>2 DEF Owed

(* The only step that posts.  An answered Incr posts all of the delta; a   *)
(* failed one leaves it owed, posted or not.                               *)
LEMMA PostStep == TypeInv /\ FlushInv /\ ActIncr => LedgerStep
<1> SUFFICES ASSUME TypeInv, FlushInv, ActIncr PROVE LedgerStep
  OBVIOUS
<1> USE ConfigAssumption DEF TypeInv, DataOK
<1>1. /\ pc = "act" /\ i \in Actions /\ deltas[i] \in Nat /\ deltas[i] > 0
      /\ unwritten[i] = 0 /\ ~Ended
      /\ deltas \in [Actions -> Nat] /\ unwritten \in [Actions -> Nat]
      /\ pending \in [Actions -> Nat]
      /\ ctr \in [Actions -> Nat \cup {Missing}]
  BY DEF ActIncr, ControlTypeOK, FlushTypeOK, CounterTypeOK, StoreTypeOK,
         FlushInv, InFlushLoop, Actions, Ended
<1>2. PICK reply \in Replies \cup {"again"} :
        /\ Incr(i, deltas[i], reply)
        /\ \/ /\ reply = "ok"
              /\ Goto("act_hb")
              /\ UNCHANGED <<deltas, unwritten>>
           \/ /\ reply = "again"
              /\ UNCHANGED <<pc, i, deltas, unwritten>>
           \/ reply \in Replies \ {"ok"} /\ ActFailed(reply, TRUE)
  BY DEF ActIncr, flushVars
<1>3. /\ \/ ctr' = [ctr EXCEPT ![i] = Value(@) + deltas[i]]
         \/ reply # "ok" /\ ctr' = ctr
      /\ FaultKinds = {} /\ reply # "ok" => ctr' = ctr
  BY <1>1, <1>2, IncrEffect
<1>4. pending' = pending
  BY DEF ActIncr, counterVars
<1>5. /\ owedBar = [a \in Actions |-> Owed(a)]
      /\ aliveBar = "yes"
      /\ \A a \in Actions : Owed(a) = pending[a] + unwritten[a] + deltas[a]
      /\ owedBar[i] \in Nat /\ deltas[i] \in 1..owedBar[i]
  BY <1>1 DEF owedBar, aliveBar, Owed
<1>6. ~Ended' /\ aliveBar' = "yes"
  BY <1>1, <1>2 DEF Ended, Goto, ActFailed, NextAction, aliveBar
<1>7. ASSUME ctr' = [ctr EXCEPT ![i] = Value(@) + deltas[i]]
      PROVE  countedBar' = [countedBar EXCEPT ![i] = @ + deltas[i]]
  <2>1. \A a \in Actions :
          Value(ctr'[a]) = IF a = i THEN Value(ctr[a]) + deltas[i]
                                    ELSE Value(ctr[a])
    BY <1>1, <1>7 DEF Value, Missing
  <2> QED
    BY <1>1, <2>1 DEF countedBar
<1>8. CASE reply = "ok"
  <2>1. pc' = "act_hb" /\ i' = i /\ deltas' = deltas /\ unwritten' = unwritten
    BY <1>2, <1>8 DEF Goto
  <2>2. \A a \in Actions :
          Owed(a)' = IF a = i THEN Owed(a) - deltas[i] ELSE Owed(a)
    BY <1>1, <1>4, <1>5, <2>1 DEF Owed
  <2>3. owedBar' = [owedBar EXCEPT ![i] = @ - deltas[i]]
    BY <1>1, <1>5, <1>6, <2>2 DEF owedBar
  <2>4. Once!Post(i, deltas[i])
    BY <1>3, <1>5, <1>6, <1>7, <1>8, <2>3 DEF Once!Post
  <2> QED
    BY <1>1, <1>5, <2>4 DEF LedgerStep, Once!Next
<1>9. CASE reply # "ok"
  <2>1. \/ UNCHANGED <<pc, i, deltas, unwritten>>
        \/ pc' = "act" /\ deltas' = Taken /\ unwritten' = Kept
    BY <1>2, <1>9 DEF ActFailed, NextAction, PutAside
  <2>2. \A a \in Actions : Owed(a)' = Owed(a)
    <3>1. CASE UNCHANGED <<pc, i, deltas, unwritten>>
      BY <1>1, <1>4, <3>1 DEF Owed
    <3>2. CASE pc' = "act" /\ deltas' = Taken /\ unwritten' = Kept
      BY <1>1, <1>4, <3>2, SetAside
    <3> QED
      BY <2>1, <3>1, <3>2
  <2>3. owedBar' = owedBar
    BY <1>5, <1>6, <2>2 DEF owedBar
  <2>4. CASE ctr' = ctr
    BY <1>5, <1>6, <2>3, <2>4 DEF LedgerStep, countedBar
  <2>5. CASE ctr' # ctr
    <3>1. FaultKinds # {} /\ countedBar' = [countedBar EXCEPT ![i] = @ + deltas[i]]
      BY <1>3, <1>7, <1>9, <2>5
    <3>2. AtLeast!PostUnnoticed(i, deltas[i])
      BY <1>5, <1>6, <2>3, <3>1 DEF AtLeast!PostUnnoticed
    <3> QED
      BY <1>1, <1>5, <3>1, <3>2 DEF LedgerStep, Unnoticed
  <2> QED
    BY <2>4, <2>5
<1> QED
  BY <1>8, <1>9

(* The steps that neither observe nor post nor zero: what a flush owes     *)
(* moves between the buffer, the deltas and those put aside, and none is   *)
(* lost on the way.                                                        *)
LEMMA QuietStep ==
  ASSUME TypeInv, FlushInv,
         InitCounter \/ InitGet \/ InitHeartbeat \/ InitTouch \/
         FlushDrain \/ IdleTouch \/ ActSkip \/ ActResetHeartbeat \/
         ActNothing \/ ActPending \/ ActHeartbeat \/ FlushRestore \/
         FlushTouch \/ ResetSkip \/ ResetHeartbeat \/ ResetEnd \/
         StopTail \/ WaitConsumer \/ SelectTick \/ SelectReset \/
         SelectDone \/ SelectMetricsErr \/ Receive \/ CronFires \/ Signal
         \/ ExporterFails \/ ClearStart \/ ClearHeartbeat \/
         RedisDegrades \/ RedisRecovers \/ Crash \/ Terminated \/
         UNCHANGED vars
  PROVE  SharesKept
<1> USE ConfigAssumption
        DEF TypeInv, DataOK, CounterTypeOK, StoreTypeOK, ControlTypeOK,
            FlushTypeOK, FlushInv, InFlushLoop, IndexOK, Actions, Zero,
            SharesKept, Owed, Ended, Goto, NextAction, ActFailed, PutAside,
            Kept, Taken, IsUnavailable, InitNext, InitFailed, FlushEnd,
            EnterFlush, ResetFailed, counterVars, storeVars, flushVars,
            fieldVars, tailVars, selectVars, envVars, histVars, mainVars
<1>1. CASE InitCounter
  <2>1. i \in Actions
    BY <1>1 DEF InitCounter
  <2>2. \A a \in Actions : Value(ctr'[a]) = Value(ctr[a])
    BY <1>1, <2>1, SetNXCounterEffect DEF InitCounter
  <2>3. /\ ~Ended' => \A a \in Actions : Owed(a)' = Owed(a)
        /\ Ended => Ended'
    BY <1>1, <2>1, Returned DEF InitCounter
  <2> QED
    BY <2>2, <2>3
<1>2. CASE InitGet
  <2>1. i \in Actions
    BY <1>2 DEF InitGet
  <2>2. \A a \in Actions : Value(ctr'[a]) = Value(ctr[a])
    BY <1>2, <2>1, GetCounterEffect DEF InitGet
  <2>3. /\ ~Ended' => \A a \in Actions : Owed(a)' = Owed(a)
        /\ Ended => Ended'
    BY <1>2, <2>1, Returned DEF InitGet
  <2> QED
    BY <2>2, <2>3
<1>3. CASE InitHeartbeat
  <2>1. i \in Actions
    BY <1>3 DEF InitHeartbeat
  <2>2. \A a \in Actions : Value(ctr'[a]) = Value(ctr[a])
    BY <1>3, <2>1, SetNXHeartbeatEffect DEF InitHeartbeat
  <2>3. /\ ~Ended' => \A a \in Actions : Owed(a)' = Owed(a)
        /\ Ended => Ended'
    BY <1>3, <2>1, Returned DEF InitHeartbeat
  <2> QED
    BY <2>2, <2>3
<1>4. CASE InitTouch
  BY <1>4, TouchEffect DEF InitTouch
<1>5. CASE FlushDrain
  <2>1. /\ pending' = Zero /\ deltas' = pending /\ unwritten' = unwritten
        /\ pc = "drain" /\ ctr' = ctr
    BY <1>5 DEF FlushDrain, Drain
  <2>2. pc' \in {"select", "reset", "exited", "idle_touch", "act"}
    BY <1>5, Returned DEF FlushDrain
  <2>3. \A a \in Actions : /\ deltas[a] = 0 /\ pending'[a] = 0
                           /\ Owed(a) = pending[a] + unwritten[a]
                           /\ Owed(a)' = unwritten[a] + pending[a]
    BY <2>1, <2>2
  <2>4. ~Ended
    BY <2>1
  <2> QED
    BY <2>1, <2>3, <2>4
<1>6. CASE IdleTouch
  BY <1>6, Returned, TouchEffect DEF IdleTouch
<1>7. CASE ActSkip
  BY <1>7 DEF ActSkip
<1>8. CASE ActResetHeartbeat
  <2>1. i \in Actions
    BY <1>8 DEF ActResetHeartbeat
  <2>2. \A a \in Actions : Value(ctr'[a]) = Value(ctr[a])
    BY <1>8, <2>1, SetHeartbeatEffect DEF ActResetHeartbeat
  <2>3. /\ ~Ended' => \A a \in Actions : Owed(a)' = Owed(a)
        /\ Ended => Ended'
    <3>1. pc = "act_reset_hb" /\ pending' = pending
      BY <1>8 DEF ActResetHeartbeat
    <3>2. \/ pc' = "act" /\ deltas' = deltas /\ unwritten' = unwritten
          \/ pc' = "act" /\ deltas' = Taken /\ unwritten' = Kept
      BY <1>8 DEF ActResetHeartbeat
    <3>3. pc' = "act" /\ ~Ended /\ ~Ended'
      BY <3>1, <3>2
    <3>4. CASE deltas' = deltas /\ unwritten' = unwritten
      <4>1. \A a \in Actions : Owed(a)' = Owed(a)
        BY <3>1, <3>3, <3>4
      <4> QED
        BY <3>3, <4>1
    <3>5. CASE deltas' = Taken /\ unwritten' = Kept
      BY <2>1, <3>1, <3>3, <3>5, SetAside
    <3> QED
      BY <3>2, <3>4, <3>5
  <2> QED
    BY <2>2, <2>3
<1>9. CASE ActNothing
  BY <1>9 DEF ActNothing
<1>10. CASE ActPending
  BY <1>10 DEF ActPending
<1>11. CASE ActHeartbeat
  <2>1. i \in Actions
    BY <1>11 DEF ActHeartbeat
  <2>2. \A a \in Actions : Value(ctr'[a]) = Value(ctr[a])
    BY <1>11, <2>1, SetHeartbeatEffect DEF ActHeartbeat
  <2>3. /\ ~Ended' => \A a \in Actions : Owed(a)' = Owed(a)
        /\ Ended => Ended'
    BY <1>11, <2>1 DEF ActHeartbeat
  <2> QED
    BY <2>2, <2>3
<1>12. CASE FlushRestore
  BY <1>12, Returned DEF FlushRestore, Restore
<1>13. CASE FlushTouch
  BY <1>13, Returned, TouchEffect DEF FlushTouch
<1>14. CASE ResetSkip
  BY <1>14 DEF ResetSkip
<1>15. CASE ResetHeartbeat
  <2>1. i \in Actions
    BY <1>15 DEF ResetHeartbeat
  <2>2. \A a \in Actions : Value(ctr'[a]) = Value(ctr[a])
    BY <1>15, <2>1, SetHeartbeatEffect DEF ResetHeartbeat
  <2>3. /\ ~Ended' => \A a \in Actions : Owed(a)' = Owed(a)
        /\ Ended => Ended'
    BY <1>15, <2>1 DEF ResetHeartbeat
  <2> QED
    BY <2>2, <2>3
<1>16. CASE ResetEnd
  BY <1>16 DEF ResetEnd
<1>17. CASE StopTail
  BY <1>17 DEF StopTail
<1>18. CASE WaitConsumer
  BY <1>18 DEF WaitConsumer
<1>19. CASE SelectTick
  BY <1>19 DEF SelectTick
<1>20. CASE SelectReset
  BY <1>20 DEF SelectReset
<1>21. CASE SelectDone
  BY <1>21 DEF SelectDone
<1>22. CASE SelectMetricsErr
  BY <1>22 DEF SelectMetricsErr
<1>23. CASE Receive
  BY <1>23 DEF Receive
<1>24. CASE CronFires
  BY <1>24 DEF CronFires
<1>25. CASE Signal
  BY <1>25 DEF Signal
<1>26. CASE ExporterFails
  BY <1>26 DEF ExporterFails
<1>27. CASE ClearStart
  BY <1>27 DEF ClearStart
<1>28. CASE ClearHeartbeat
  BY <1>28, SetHeartbeatEffect DEF ClearHeartbeat
<1>29. CASE RedisDegrades
  BY <1>29 DEF RedisDegrades, Degrade, keyVars
<1>30. CASE RedisRecovers
  BY <1>30 DEF RedisRecovers, Recover, keyVars
<1>31. CASE Crash
  BY <1>31 DEF Crash
<1>32. CASE Terminated
  BY <1>32 DEF Terminated, vars
<1>33. CASE UNCHANGED vars
  BY <1>33 DEF vars
<1> QED
  BY <1>1, <1>2, <1>3, <1>4, <1>5, <1>6, <1>7, <1>8, <1>9, <1>10,
     <1>11, <1>12, <1>13, <1>14, <1>15, <1>16, <1>17, <1>18, <1>19,
     <1>20, <1>21, <1>22, <1>23, <1>24, <1>25, <1>26, <1>27, <1>28,
     <1>29, <1>30, <1>31, <1>32, <1>33

(* The writes of a reset - deferred, due or by `logstat clear' - zero a    *)
(* counter and forgive nothing that is owed.                               *)
LEMMA ZeroStep ==
  ASSUME TypeInv, FlushInv, ActReset \/ ResetCounter \/ ClearCounter
  PROVE  LedgerStep
<1> USE ConfigAssumption DEF TypeInv, DataOK, counterVars, mainVars,
        flushVars
<1>0. ctr \in [Actions -> Nat \cup {Missing}]
  BY DEF StoreTypeOK
<1>1. CASE ActReset
  <2>1. pc = "act" /\ i \in Actions /\ pending' = pending
    BY <1>1 DEF ActReset, ControlTypeOK, Actions
  <2>2. ctr' = ctr \/ ctr' = [ctr EXCEPT ![i] = 0]
    BY <1>1, <2>1, SetCounterZeroEffect DEF ActReset
  <2>3. \/ pc' = "act_reset_hb" /\ deltas' = deltas /\ unwritten' = unwritten
        \/ pc' = "act" /\ deltas' = Taken /\ unwritten' = Kept
    BY <1>1 DEF ActReset, Goto, ActFailed, NextAction, PutAside
  <2>4. \A a \in Actions : Owed(a)' = Owed(a)
    BY <2>1, <2>3, SetAside DEF Owed
  <2>5. ~Ended /\ ~Ended'
    BY <2>1, <2>3 DEF Ended
  <2> QED
    BY <1>0, <2>1, <2>2, <2>4, <2>5, Zeroed DEF LedgerStep, Once!Next
<1>2. CASE ResetCounter
  <2>1. /\ pc = "reset" /\ i \in Actions /\ pending' = pending
        /\ deltas' = deltas /\ unwritten' = unwritten
    BY <1>2 DEF ResetCounter, ControlTypeOK, Actions
  <2>2. ctr' = ctr \/ ctr' = [ctr EXCEPT ![i] = 0]
    BY <1>2, <2>1, SetCounterZeroEffect DEF ResetCounter
  <2>3. pc' \in {"reset", "reset_hb"}
    BY <1>2 DEF ResetCounter, Goto, ResetFailed, NextAction
  <2>4. \A a \in Actions : Owed(a)' = Owed(a)
    BY <2>1, <2>3 DEF Owed
  <2>5. ~Ended /\ ~Ended'
    BY <2>1, <2>3 DEF Ended
  <2> QED
    BY <1>0, <2>1, <2>2, <2>4, <2>5, Zeroed DEF LedgerStep, Once!Next
<1>3. CASE ClearCounter
  <2>1. PICK a \in Actions, reply \in Replies : SetCounterZero(a, reply)
    BY <1>3 DEF ClearCounter
  <2>2. ctr' = ctr \/ ctr' = [ctr EXCEPT ![a] = 0]
    BY <2>1, SetCounterZeroEffect
  <2>3. \A b \in Actions : Owed(b)' = Owed(b)
    BY <1>3 DEF ClearCounter, Owed
  <2>4. Ended' <=> Ended
    BY <1>3 DEF ClearCounter, Ended
  <2> QED
    BY <1>0, <2>2, <2>3, <2>4, Zeroed DEF LedgerStep, Once!Next
<1> QED
  BY <1>1, <1>2, <1>3

(* ProcessLine is what makes the daemon owe something. *)
LEMMA ObserveStep == TypeInv /\ Consume => LedgerStep
<1> SUFFICES ASSUME TypeInv, Consume PROVE LedgerStep
  OBVIOUS
<1>1. PICK S \in inHand : ProcessLine(S)
  BY DEF Consume
<1>2. S \in SUBSET Actions
  BY <1>1 DEF TypeInv, DataOK, EnvTypeOK
<1>3. /\ pc' = pc /\ i' = i /\ deltas' = deltas /\ unwritten' = unwritten
      /\ ctr' = ctr /\ ~Ended
  BY DEF Consume, mainVars, flushVars, storeVars, Running
<1>4. /\ pending \in [Actions -> Nat] /\ deltas \in [Actions -> Nat]
      /\ unwritten \in [Actions -> Nat]
  BY DEF TypeInv, DataOK, CounterTypeOK, FlushTypeOK
<1>5. \A a \in Actions :
        pending'[a] = IF a \in S THEN pending[a] + 1 ELSE pending[a]
  BY <1>1 DEF ProcessLine, Plus
<1>6. \A a \in Actions :
        Owed(a)' = IF a \in S THEN Owed(a) + 1 ELSE Owed(a)
  BY <1>3, <1>4, <1>5 DEF Owed
<1>7. ~Ended'
  BY <1>3 DEF Ended
<1>8. owedBar' = [a \in Actions |-> IF a \in S THEN owedBar[a] + 1 ELSE owedBar[a]]
  BY <1>3, <1>6, <1>7 DEF owedBar
<1>9. aliveBar = "yes" /\ aliveBar' = "yes" /\ countedBar' = countedBar
  BY <1>3, <1>7 DEF aliveBar, countedBar
<1> QED
  BY <1>2, <1>8, <1>9 DEF LedgerStep, Once!Next, Once!Observe

(* A new process owes nothing. *)
LEMMA StartStep == Restart => LedgerStep
<1> SUFFICES ASSUME Restart PROVE LedgerStep
  OBVIOUS
<1>1. Ended /\ ~Ended' /\ ctr' = ctr
  BY DEF Restart, Ended, storeVars
<1>2. \A a \in Actions : Owed(a)' = 0
  BY DEF Restart, Owed, Zero
<1>3. owedBar' = owedBar /\ countedBar' = countedBar
  BY <1>1, <1>2 DEF owedBar, countedBar
<1>4. aliveBar = "no" /\ aliveBar' = "yes"
  BY <1>1 DEF aliveBar
<1> QED
  BY <1>3, <1>4 DEF LedgerStep, Once!Next, Once!Start

(* Every step of the daemon and of its surroundings is one of the ledger.  *)
LEMMA Accounted == TypeInv /\ FlushInv /\ [Next]_vars => LedgerStep
<1> SUFFICES ASSUME TypeInv, FlushInv, [Next]_vars PROVE LedgerStep
  OBVIOUS
<1>1. CASE ActIncr
  BY <1>1, PostStep
<1>2. CASE ActReset \/ ResetCounter \/ ClearCounter
  BY <1>2, ZeroStep
<1>3. CASE Consume
  BY <1>3, ObserveStep
<1>4. CASE Restart
  BY <1>4, StartStep
<1>5. CASE InitCounter \/ InitGet \/ InitHeartbeat \/ InitTouch \/
         FlushDrain \/ IdleTouch \/ ActSkip \/ ActResetHeartbeat \/
         ActNothing \/ ActPending \/ ActHeartbeat \/ FlushRestore \/
         FlushTouch \/ ResetSkip \/ ResetHeartbeat \/ ResetEnd \/
         StopTail \/ WaitConsumer \/ SelectTick \/ SelectReset \/
         SelectDone \/ SelectMetricsErr \/ Receive \/ CronFires \/ Signal
         \/ ExporterFails \/ ClearStart \/ ClearHeartbeat \/
         RedisDegrades \/ RedisRecovers \/ Crash \/ Terminated \/
         UNCHANGED vars
  BY <1>5, QuietStep, Quiet DEF LedgerStep, Once!Next
<1> QED
  BY <1>1, <1>2, <1>3, <1>4, <1>5 DEF Next, MainStep, SelectStep,
     Environment

(* The ledger starts with nothing owed and whatever was left in Redis. *)
LEMMA LedgerInit == Init => Once!Init /\ AtLeast!Init
<1> SUFFICES ASSUME Init PROVE Once!Init /\ AtLeast!Init
  OBVIOUS
<1>1. ctr \in [Actions -> Nat \cup {Missing}]
  BY TypeInit DEF TypeInv, DataOK, StoreTypeOK
<1>2. \A a \in Actions : Value(ctr[a]) \in Nat
  BY <1>1 DEF Value, Missing
<1>3. countedBar \in [Actions -> Nat]
  BY <1>2 DEF countedBar
<1>4. owedBar = [a \in Actions |-> 0] /\ aliveBar = "yes"
  BY DEF Init, CounterInit, Zero, owedBar, aliveBar, Owed, Ended
<1> QED
  BY <1>3, <1>4 DEF Once!Init, AtLeast!Init

(* Every step of Ledger without duplicates is one of Ledger with them. *)
LEMMA AtLeastStep ==
  LedgerStep => AtLeast!Next \/ UNCHANGED AtLeast!ledgerVars
BY DEF LedgerStep, Unnoticed, Once!Next, AtLeast!Next, AtLeast!ledgerVars,
       Once!Observe, AtLeast!Observe, Once!Post, AtLeast!Post,
       Once!PostUnnoticed, Once!SetToZero, AtLeast!SetToZero,
       Once!End, AtLeast!End, Once!Start, AtLeast!Start

(* No interleaving of lines, flushes, resets, clears, outages, ambiguous   *)
(* failures, shutdowns and crashes makes a live daemon lose a match: Flush *)
(* and Restore implement the ledger with duplicates.                       *)
THEOREM AtLeastOnceCorrect == Spec => AtLeastOnce
<1>1. TypeInv /\ FlushInv /\ [Next]_vars
        => TypeInv' /\ FlushInv' /\ [AtLeast!Next]_(AtLeast!ledgerVars)
  BY DataStep, FlagStep, FlushStep, Accounted, AtLeastStep DEF TypeInv
<1> QED
  BY TypeInit, FlushInit, LedgerInit, <1>1, PTL
     DEF Spec, AtLeastOnce, AtLeast!Spec

(* If an error of Incr means that INCRBY was not executed, every match is  *)
(* posted exactly once: Flush and Restore implement the ledger without     *)
(* duplicates.                                                             *)
THEOREM ExactlyOnceCorrect ==
  ASSUME FaultKinds = {}
  PROVE  Spec => ExactlyOnce
<1>1. LedgerStep => [Once!Next]_(Once!ledgerVars)
  BY DEF LedgerStep, Unnoticed, Once!ledgerVars
<1>2. TypeInv /\ FlushInv /\ [Next]_vars
        => TypeInv' /\ FlushInv' /\ [Once!Next]_(Once!ledgerVars)
  BY DataStep, FlagStep, FlushStep, Accounted, <1>1 DEF TypeInv
<1> QED
  BY TypeInit, FlushInit, LedgerInit, <1>2, PTL
     DEF Spec, ExactlyOnce, Once!Spec
=============================================================================
