------------------------------ MODULE Logging ------------------------------
(***************************************************************************)
(* internal/logging/logging.go with logging.output: file, and the SIGHUP   *)
(* goroutine of cmdRun: goroutines of the daemon write records while       *)
(* logrotate renames the file and the signal makes the daemon reopen it.   *)
(*                                                                         *)
(* Files are numbered in the order they are created; descriptors are small *)
(* numbers that are used again, as in the kernel.  output.mu is held from  *)
(* the opening of the new file to the closing of the old one, so that the  *)
(* mutex is taken exactly while `old' is a descriptor.                     *)
(***************************************************************************)
EXTENDS Integers, FiniteSets

CONSTANTS
    MaxRotations,           \* bound: runs of logrotate
    MaxSignals,             \* bound: SIGHUPs that no rotation sends
    MaxDenials,             \* bound: times the path cannot be opened
    MaxRecords              \* bound: records

ASSUME LoggingAssumption ==
    /\ MaxRotations \in Nat /\ MaxSignals \in Nat
    /\ MaxDenials \in Nat /\ MaxRecords \in Nat

VARIABLES
    phase,                  \* how far cmdRun has come
    f, w,                   \* fields of output: its descriptor, where it writes
    old,                    \* the local of reopen while it holds the mutex
    fds,                    \* the file of every descriptor, or None
    path,                   \* the file that logging.file names, or None
    openable,               \* whether opening the path succeeds
    files,                  \* files created so far
    hup,                    \* a signal is in the channel
    handler,                \* the goroutine that ranges over it
    rotator,                \* logrotate
    \* history: records that went nowhere, and whether the last reopening
    \* failed
    lost, failed,
    spent                   \* how much of each bound is used up

outputVars == <<f, w, old, fds>>
osVars     == <<path, openable, files>>
hupVars    == <<hup, handler, failed>>

vars == <<phase, outputVars, osVars, hupVars, rotator, lost, spent>>

None    == 0
Discard == -1
Descriptors == 1..3

Limit == [rotation |-> MaxRotations, signal |-> MaxSignals,
          denial |-> MaxDenials, record |-> MaxRecords]

Spend(k) ==
    /\ spent[k] < Limit[k]
    /\ spent' = [spent EXCEPT ![k] = @ + 1]

Ended == phase \in {"exited", "killed"}

(* SIGHUP goes to the channel between signal.Notify and signal.Stop. *)
Notified == phase = "running"

(* New: the logger of a process whose log file could be opened. *)
Init ==
    /\ phase = "starting"
    /\ path = 1 /\ openable = TRUE /\ files = 1
    /\ f = 1 /\ w = 1 /\ old = None
    /\ fds = [d \in Descriptors |-> IF d = 1 THEN 1 ELSE None]
    /\ hup = FALSE /\ handler = "waiting" /\ failed = FALSE
    /\ rotator = "idle"
    /\ lost = 0
    /\ spent = [k \in DOMAIN Limit |-> 0]
-----------------------------------------------------------------------------
(* output.                                                                 *)

MutexFree == old = None

(* Write, from any goroutine: a closed descriptor takes nothing, and after *)
(* Close there is io.Discard to write to.                                  *)
Write ==
    /\ ~Ended /\ MutexFree
    /\ Spend("record")
    /\ lost' = IF w # Discard /\ fds[w] = None THEN lost + 1 ELSE lost
    /\ UNCHANGED <<phase, outputVars, osVars, hupVars, rotator>>

(* O_CREATE: opening a path that names nothing creates a file. *)
Opened == IF path = None THEN files + 1 ELSE path

CreateIfMissing ==
    /\ path' = Opened
    /\ files' = IF path = None THEN files + 1 ELSE files
    /\ UNCHANGED openable

FreeDescriptor ==
    CHOOSE d \in Descriptors :
        fds[d] = None /\ \A e \in Descriptors : fds[e] = None => d <= e

(* open succeeds: the new file takes the place of the old one.             *)
OpenNew ==
    /\ openable
    /\ CreateIfMissing
    /\ fds' = [fds EXCEPT ![FreeDescriptor] = Opened]
    /\ f' = FreeDescriptor /\ w' = FreeDescriptor
    /\ old' = f
    /\ handler' = "opened" /\ failed' = FALSE

(* Mutant of OpenFails: the old file was closed before. *)
OpenFailsClosed ==
    /\ ~openable
    /\ fds' = [d \in Descriptors |-> IF d = f THEN None ELSE fds[d]]
    /\ handler' = "waiting" /\ failed' = TRUE
    /\ UNCHANGED <<f, w, old, osVars>>

(* An error leaves everything as it is; the goroutine logs it and waits    *)
(* for the next signal.                                                    *)
OpenFails ==
    /\ ~openable
    /\ handler' = "waiting" /\ failed' = TRUE
    /\ UNCHANGED <<outputVars, osVars>>

(* reopen up to the closing of the old file. *)
Reopen ==
    /\ ~Ended /\ MutexFree
    /\ handler = "reopening"
    /\ OpenNew \/ OpenFails
    /\ UNCHANGED <<phase, hup, rotator, lost, spent>>

(* Mutant of CloseOld: the old file stays open. *)
KeepOld ==
    /\ ~Ended
    /\ handler = "opened"
    /\ old' = None /\ handler' = "waiting"
    /\ UNCHANGED <<phase, f, w, fds, osVars, hup, failed, rotator, lost, spent>>

(* The rest of reopen; Close has left no old file behind. *)
CloseOld ==
    /\ ~Ended
    /\ handler = "opened"
    /\ fds' = [d \in Descriptors |-> IF d = old THEN None ELSE fds[d]]
    /\ old' = None /\ handler' = "waiting"
    /\ UNCHANGED <<phase, f, w, osVars, hup, failed, rotator, lost, spent>>
-----------------------------------------------------------------------------
(* cmdRun.                                                                 *)

(* CheckPaths opens the file once more and closes it.  An error, and the   *)
(* lock held by another instance, end the process through lg.Close.        *)
CheckPaths ==
    /\ phase = "starting"
    /\ \/ openable /\ CreateIfMissing /\ phase' \in {"checked", "deaf"}
       \/ ~openable /\ phase' = "deaf" /\ UNCHANGED osVars
    /\ UNCHANGED <<outputVars, hupVars, rotator, lost, spent>>

(* signal.Notify, then the goroutine and Run. *)
Notify ==
    /\ phase = "checked"
    /\ phase' = "running"
    /\ UNCHANGED <<outputVars, osVars, hupVars, rotator, lost, spent>>

(* Run has returned; signal.Stop runs first of the deferred calls.  The    *)
(* channel is not closed, so that its goroutine goes on until the exit.    *)
StopSignals ==
    /\ phase = "running"
    /\ phase' = "deaf"
    /\ UNCHANGED <<outputVars, osVars, hupVars, rotator, lost, spent>>

(* lg.Close runs last. *)
Close ==
    /\ phase = "deaf"
    /\ MutexFree
    /\ fds' = [d \in Descriptors |-> IF d = f THEN None ELSE fds[d]]
    /\ f' = None /\ w' = Discard
    /\ phase' = "closed"
    /\ UNCHANGED <<old, osVars, hupVars, rotator, lost, spent>>

Exit ==
    /\ phase = "closed"
    /\ phase' = "exited"
    /\ UNCHANGED <<outputVars, osVars, hupVars, rotator, lost, spent>>

(* The goroutine takes the signal from the channel. *)
Receive ==
    /\ ~Ended
    /\ handler = "waiting" /\ hup
    /\ handler' = "reopening" /\ hup' = FALSE
    /\ UNCHANGED <<phase, outputVars, osVars, failed, rotator, lost, spent>>

(* Mutant of Queued: a channel without a buffer. *)
Unbuffered == handler = "waiting"

(* The channel holds one signal; the runtime drops those that find it      *)
(* full, which the one that is queued covers.                              *)
Queued == TRUE

(* Without Notify the default action of SIGHUP ends the process. *)
Hangup ==
    \/ /\ Notified
       /\ hup' = (hup \/ Queued)
       /\ UNCHANGED phase
    \/ /\ ~Notified
       /\ phase' = IF Ended THEN phase ELSE "killed"
       /\ UNCHANGED hup
-----------------------------------------------------------------------------
(* The surroundings.                                                       *)

(* logrotate renames the file and either creates a new one or leaves that  *)
(* to the daemon; its postrotate script then sends the signal.             *)
Rotate ==
    /\ rotator = "idle"
    /\ Spend("rotation")
    /\ \/ path' = files + 1 /\ files' = files + 1
       \/ path' = None /\ UNCHANGED files
    /\ rotator' = "renamed"
    /\ UNCHANGED <<phase, outputVars, openable, hupVars, lost>>

PostRotate ==
    /\ rotator = "renamed"
    /\ rotator' = "idle"
    /\ Hangup
    /\ UNCHANGED <<outputVars, osVars, handler, failed, lost, spent>>

(* systemctl reload, without a rotation. *)
Reload ==
    /\ Spend("signal")
    /\ Hangup
    /\ UNCHANGED <<outputVars, osVars, handler, failed, rotator, lost>>

(* The directory or the file becomes unwritable, descriptors run out, ...  *)
Deny ==
    /\ openable /\ Spend("denial")
    /\ openable' = FALSE
    /\ UNCHANGED <<phase, outputVars, path, files, hupVars, rotator, lost>>

Allow ==
    /\ ~openable
    /\ openable' = TRUE
    /\ UNCHANGED <<phase, outputVars, path, files, hupVars, rotator, lost,
                   spent>>

HandlerStep == Receive \/ Reopen \/ CloseOld
MainStep    == CheckPaths \/ Notify \/ StopSignals \/ Close \/ Exit
Environment == Rotate \/ PostRotate \/ Reload \/ Deny \/ Allow

Terminated == Ended /\ UNCHANGED vars

Next == Write \/ HandlerStep \/ MainStep \/ Environment \/ Terminated

(* The goroutine is scheduled; cmdRun may stay in Run for as long as it    *)
(* likes, and only lg.Close has to get the mutex.                          *)
Fairness == WF_vars(HandlerStep) /\ WF_vars(Close) /\ WF_vars(Exit)

Spec == Init /\ [][Next]_vars /\ Fairness
-----------------------------------------------------------------------------
(* Properties.                                                             *)

LoggingTypeOK ==
    /\ phase \in {"starting", "checked", "running", "deaf", "closed",
                  "exited", "killed"}
    /\ f \in Descriptors \cup {None}
    /\ w \in Descriptors \cup {Discard}
    /\ old \in Descriptors \cup {None}
    /\ fds \in [Descriptors -> Nat]
    /\ path \in Nat /\ files \in Nat
    /\ openable \in BOOLEAN /\ hup \in BOOLEAN /\ failed \in BOOLEAN
    /\ handler \in {"waiting", "reopening", "opened"}
    /\ rotator \in {"idle", "renamed"}
    /\ lost \in Nat
    /\ spent \in [DOMAIN Limit -> Nat]

(* No record is written to a closed file, whatever signals, rotations and  *)
(* failures to open the new file come in between: reopen opens first and   *)
(* closes after, and an error leaves the old file in use.                  *)
NothingLost == lost = 0

(* Outside of reopen the process has one log file open and writes to it;   *)
(* after Close it has none, or the one that a signal still in the channel  *)
(* made it open again: no number of signals makes descriptors pile up.     *)
OneFileOpen ==
    ~Ended /\ MutexFree =>
        LET held == {d \in Descriptors : fds[d] # None}
        IN  \/ held = {w} /\ f = w
            \/ held = {} /\ w = Discard /\ phase = "closed"

(* After a rotation whose signal has been sent the daemon comes to write   *)
(* to the file that the path names, also when the signal found the         *)
(* goroutine in the middle of a reopening - unless the file could not be   *)
(* opened, the process leaves Run or the next rotation begins.             *)
Follows == w # Discard /\ fds[w] = path

RotationFollowed ==
    (Notified /\ rotator = "idle" /\ ~Follows)
        ~> (Follows \/ failed \/ ~Notified \/ rotator = "renamed")
=============================================================================
