--------------------------- MODULE LoggingProofs ---------------------------
(***************************************************************************)
(* Theorems about Logging, for any number of rotations, signals, records   *)
(* and failures to open the log.                                           *)
(***************************************************************************)
EXTENDS Logging, TLAPS

(* The descriptors in use are the one written to and, while reopen holds   *)
(* the mutex, the one it replaces.                                         *)
InUse ==
    /\ w \in Descriptors /\ f = w /\ old # w
    /\ \A d \in Descriptors : fds[d] # None <=> d = w \/ d = old

(* After Close there is none. *)
Discarding ==
    /\ w = Discard /\ f = None /\ old = None
    /\ \A d \in Descriptors : fds[d] = None
    /\ phase \in {"closed", "exited", "killed"}

LogInv ==
    /\ LoggingTypeOK
    /\ handler # "opened" => old = None
    /\ InUse \/ Discarding
    /\ lost = 0

(* New opens the log before anything is written. *)
LEMMA LogInit == Init => LogInv
<1> SUFFICES ASSUME Init PROVE LogInv
  OBVIOUS
<1> USE DEF Init, None, Discard, Descriptors
<1>1. LoggingTypeOK
  <2>1. openable \in BOOLEAN /\ hup \in BOOLEAN /\ failed \in BOOLEAN
    OBVIOUS
  <2>2. spent \in [DOMAIN Limit -> Nat]
    OBVIOUS
  <2>3. fds \in [Descriptors -> Nat]
    OBVIOUS
  <2> QED
    BY <2>1, <2>2, <2>3 DEF LoggingTypeOK
<1>2. InUse
  BY DEF InUse
<1> QED
  BY <1>1, <1>2 DEF LogInv

(* While the mutex is free at most one descriptor is in use, so that the   *)
(* kernel has another one for the file to be opened.                       *)
LEMMA FreeOne ==
  ASSUME LogInv, MutexFree
  PROVE  FreeDescriptor \in Descriptors /\ fds[FreeDescriptor] = None
<1>1. \E d \in Descriptors :
         fds[d] = None /\ \A e \in Descriptors : fds[e] = None => d <= e
  BY DEF LogInv, InUse, Discarding, MutexFree, Descriptors, None
<1> QED
  BY <1>1 DEF FreeDescriptor

(* Every step keeps the types. *)
LEMMA LogTypeStep ==
  ASSUME LogInv, [Next]_vars
  PROVE  LoggingTypeOK'
<1> USE LoggingAssumption
    DEF LogInv, LoggingTypeOK, None, Discard, outputVars, osVars, hupVars
<1>0. ASSUME NEW k \in {"rotation", "signal", "denial", "record"}, Spend(k)
      PROVE  spent' \in [DOMAIN Limit -> Nat]
  <2>1. k \in DOMAIN Limit
    BY DEF Limit
  <2> QED
    BY <1>0, <2>1 DEF Spend
<1>1. CASE Write
  BY <1>0, <1>1 DEF Write
<1>2. CASE Receive
  BY <1>2 DEF Receive
<1>3. CASE Reopen
  <2>1. CASE OpenNew
    <3>1. FreeDescriptor \in Descriptors
      BY <1>3, FreeOne DEF Reopen
    <3>2. Opened \in Nat
      BY DEF Opened
    <3>3. path' \in Nat /\ files' \in Nat
      BY <2>1, <3>2 DEF OpenNew, CreateIfMissing
    <3>4. fds' \in [Descriptors -> Nat]
      BY <2>1, <3>1, <3>2 DEF OpenNew
    <3>5. failed' \in BOOLEAN /\ openable' \in BOOLEAN /\ hup' \in BOOLEAN
      BY <1>3, <2>1 DEF Reopen, OpenNew, CreateIfMissing
    <3> QED
      BY <1>3, <2>1, <3>1, <3>3, <3>4, <3>5 DEF Reopen, OpenNew
  <2>2. CASE OpenFails
    BY <1>3, <2>2 DEF Reopen, OpenFails
  <2> QED
    BY <1>3, <2>1, <2>2 DEF Reopen
<1>4. CASE CloseOld
  BY <1>4 DEF CloseOld
<1>5. CASE CheckPaths
  BY <1>5 DEF CheckPaths, CreateIfMissing, Opened
<1>6. CASE Notify \/ StopSignals \/ Exit
  BY <1>6 DEF Notify, StopSignals, Exit
<1>7. CASE Close
  BY <1>7 DEF Close
<1>8. CASE Rotate
  BY <1>0, <1>8 DEF Rotate
<1>9. CASE PostRotate
  <2>1. phase' \in {"starting", "checked", "running", "deaf", "closed",
                    "exited", "killed"}
    BY <1>9 DEF PostRotate, Hangup
  <2>2. hup' \in BOOLEAN
    BY <1>9 DEF PostRotate, Hangup
  <2> QED
    BY <1>9, <2>1, <2>2 DEF PostRotate
<1>10. CASE Reload
  <2>1. phase' \in {"starting", "checked", "running", "deaf", "closed",
                    "exited", "killed"}
    BY <1>10 DEF Reload, Hangup
  <2>2. hup' \in BOOLEAN
    BY <1>10 DEF Reload, Hangup
  <2> QED
    BY <1>0, <1>10, <2>1, <2>2 DEF Reload
<1>11. CASE Deny
  BY <1>0, <1>11 DEF Deny
<1>12. CASE Allow
  BY <1>12 DEF Allow
<1>13. CASE UNCHANGED vars
  BY <1>13 DEF vars
<1> QED
  BY <1>1, <1>2, <1>3, <1>4, <1>5, <1>6, <1>7, <1>8, <1>9, <1>10, <1>11,
     <1>12, <1>13
  DEF Next, HandlerStep, MainStep, Environment, Terminated

(* No signal, rotation or failure leaves the process with a closed file to *)
(* write to or with a descriptor too many.                                 *)
LEMMA LogStep == LogInv /\ [Next]_vars => LogInv'
<1> SUFFICES ASSUME LogInv, [Next]_vars PROVE LogInv'
  OBVIOUS
<1>0. LoggingTypeOK'
  BY LogTypeStep
<1> DEFINE Shape == /\ handler # "opened" => old = None
                    /\ InUse \/ Discarding
                    /\ lost = 0
<1> SUFFICES Shape'
  BY <1>0 DEF LogInv
<1> USE DEF LogInv, LoggingTypeOK, None, Discard, InUse, Discarding,
        outputVars, osVars, hupVars
<1>1. CASE Write
  BY <1>1 DEF Write, MutexFree
<1>2. CASE Receive
  BY <1>2 DEF Receive
<1>3. CASE Reopen
  <2>1. CASE OpenNew
    <3>1. FreeDescriptor \in Descriptors /\ fds[FreeDescriptor] = None
      BY <1>3, FreeOne DEF Reopen
    <3>2. Opened \in Nat \ {0}
      BY DEF Opened
    <3>3. old' = f /\ f' = FreeDescriptor /\ w' = FreeDescriptor
          /\ handler' = "opened" /\ lost' = 0
          /\ fds' = [fds EXCEPT ![FreeDescriptor] = Opened]
      BY <1>3, <2>1 DEF Reopen, OpenNew
    <3>4. f # FreeDescriptor
      BY <3>1 DEF Descriptors
    <3>5. old = None
      BY <1>3 DEF Reopen, MutexFree
    <3>6. \A d \in Descriptors : fds[d] # None <=> d = f
      BY <3>5 DEF Descriptors
    <3>7. InUse'
      BY <3>1, <3>2, <3>3, <3>4, <3>6
    <3> QED
      BY <3>3, <3>7
  <2>2. CASE OpenFails
    BY <1>3, <2>2 DEF Reopen, OpenFails
  <2> QED
    BY <1>3, <2>1, <2>2 DEF Reopen
<1>4. CASE CloseOld
  BY <1>4 DEF CloseOld, Descriptors
<1>5. CASE CheckPaths
  BY <1>5 DEF CheckPaths
<1>6. CASE Notify \/ StopSignals \/ Exit
  BY <1>6 DEF Notify, StopSignals, Exit
<1>7. CASE Close
  BY <1>7 DEF Close, MutexFree, Descriptors
<1>8. CASE Rotate
  BY <1>8 DEF Rotate
<1>9. CASE PostRotate \/ Reload
  BY <1>9 DEF PostRotate, Reload, Hangup, Ended, Notified
<1>10. CASE Deny \/ Allow
  BY <1>10 DEF Deny, Allow
<1>11. CASE UNCHANGED vars
  BY <1>11 DEF vars
<1> QED
  BY <1>1, <1>2, <1>3, <1>4, <1>5, <1>6, <1>7, <1>8, <1>9, <1>10, <1>11
  DEF Next, HandlerStep, MainStep, Environment, Terminated

(* reopen opens the new file first and closes the old one after, and an    *)
(* error leaves the old one in use: no record is ever written to a closed  *)
(* file.                                                                   *)
THEOREM NothingLostCorrect == Spec => []NothingLost
<1>1. LogInv => NothingLost
  BY DEF LogInv, NothingLost
<1> QED
  BY LogInit, LogStep, <1>1, PTL DEF Spec

(* Outside of reopen one log file is open, however many signals arrive and *)
(* also when one of them comes after Close.                                *)
THEOREM OneFileOpenCorrect == Spec => []OneFileOpen
<1>1. LogInv => OneFileOpen
  <2> SUFFICES ASSUME LogInv, ~Ended, MutexFree PROVE OneFileOpen
    BY DEF OneFileOpen
  <2>1. CASE InUse
    <3>1. {d \in Descriptors : fds[d] # None} = {w}
      BY <2>1 DEF InUse, MutexFree, Descriptors, None
    <3> QED
      BY <2>1, <3>1 DEF OneFileOpen, InUse
  <2>2. CASE Discarding
    <3>1. {d \in Descriptors : fds[d] # None} = {}
      BY <2>2 DEF Discarding
    <3> QED
      BY <2>2, <3>1 DEF OneFileOpen, Discarding, Ended
  <2> QED
    BY <2>1, <2>2 DEF LogInv
<1> QED
  BY LogInit, LogStep, <1>1, PTL DEF Spec
=============================================================================
