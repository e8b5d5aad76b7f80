------------------------------ MODULE Lockfile ------------------------------
(***************************************************************************)
(* internal/lockfile/lockfile.go and the part of cmdRun around it: several *)
(* processes started with the same configuration, of which one may run.    *)
(* Every system call of Acquire and Release is a step.                     *)
(*                                                                         *)
(* A file is named by the process that created it: what lock_file refers   *)
(* to can change while a process still has an older file open.  Processes  *)
(* of the systemd unit run one after the other, and systemd removes the    *)
(* RuntimeDirectory, where the lock file lives, each time one has stopped. *)
(***************************************************************************)
CONSTANTS
    Manual,                 \* processes started by hand, at any time
    Unit,                   \* processes started by the systemd unit
    NoProc                  \* no process, no file, no PID

Procs == Manual \cup Unit

ASSUME LockAssumption ==
    /\ NoProc \notin Procs
    /\ Manual \cap Unit = {}

VARIABLES
    st,                     \* where each process is
    fd,                     \* the file it has open
    path,                   \* the file that lock_file names
    owner,                  \* who holds the flock of each file
    content,                \* the PID written into each file
    cleaned                 \* processes of the unit systemd tidied up after

vars == <<st, fd, path, owner, content, cleaned>>

MaybeProc == Procs \cup {NoProc}

(* The types of all variables. *)
LockTypeOK ==
    /\ st \in [Procs -> {"new", "opened", "locked", "running", "unlocked",
                         "ended"}]
    /\ fd \in [Procs -> MaybeProc]
    /\ path \in MaybeProc
    /\ owner \in [Procs -> MaybeProc]
    /\ content \in [Procs -> MaybeProc]
    /\ cleaned \subseteq Unit

Init ==
    /\ st = [p \in Procs |-> "new"]
    /\ fd = [p \in Procs |-> NoProc]
    /\ path = NoProc
    /\ owner = [p \in Procs |-> NoProc]
    /\ content = [p \in Procs |-> NoProc]
    /\ cleaned = {}

(* systemd starts the unit again only after it has tidied up. *)
MayStart(p) == p \in Unit => \A q \in Unit \ {p} : st[q] = "new" \/ q \in cleaned

-----------------------------------------------------------------------------
(* Mutant of OpenFile: the file is truncated before it is locked. *)
OpenTruncating(p) ==
    /\ st[p] = "new" /\ MayStart(p)
    /\ path' = IF path = NoProc THEN p ELSE path
    /\ fd' = [fd EXCEPT ![p] = path']
    /\ content' = [content EXCEPT ![path'] = NoProc]
    /\ st' = [st EXCEPT ![p] = "opened"]
    /\ UNCHANGED <<owner, cleaned>>

(* Acquire: MkdirAll and OpenFile with O_CREATE. *)
OpenFile(p) ==
    /\ st[p] = "new" /\ MayStart(p)
    /\ path' = IF path = NoProc THEN p ELSE path
    /\ fd' = [fd EXCEPT ![p] = path']
    /\ st' = [st EXCEPT ![p] = "opened"]
    /\ UNCHANGED <<owner, content, cleaned>>

(* The process is gone, and with its open file its lock. *)
End(p) ==
    /\ st' = [st EXCEPT ![p] = "ended"]
    /\ fd' = [fd EXCEPT ![p] = NoProc]
    /\ owner' = [f \in Procs |-> IF owner[f] = p THEN NoProc ELSE owner[f]]
    /\ UNCHANGED <<path, content, cleaned>>

(* Mutant of Free: a PID left in the file counts as a lock. *)
FreeOfPids(f) == owner[f] = NoProc /\ content[f] = NoProc

(* What LOCK_NB looks at. *)
Free(f) == owner[f] = NoProc

(* The non-blocking flock: granted, or Acquire closes the file and fails   *)
(* with ErrLocked and cmdRun returns 1.                                    *)
Flock(p) ==
    /\ st[p] = "opened"
    /\ Free(fd[p])
    /\ owner' = [owner EXCEPT ![fd[p]] = p]
    /\ st' = [st EXCEPT ![p] = "locked"]
    /\ UNCHANGED <<fd, path, content, cleaned>>

Refused(p) ==
    /\ st[p] = "opened"
    /\ ~Free(fd[p])
    /\ End(p)

(* Truncate and WriteAt; an error of either is ignored. *)
WritePid(p) ==
    /\ st[p] = "locked"
    /\ \E pid \in {p, NoProc, content[fd[p]]} :
         content' = [content EXCEPT ![fd[p]] = pid]
    /\ st' = [st EXCEPT ![p] = "running"]
    /\ UNCHANGED <<fd, path, owner, cleaned>>

(* Mutant of Unlock: Release removes the lock file. *)
UnlockRemoving(p) ==
    /\ st[p] = "running"
    /\ owner' = [owner EXCEPT ![fd[p]] = NoProc]
    /\ st' = [st EXCEPT ![p] = "unlocked"]
    /\ path' = NoProc
    /\ UNCHANGED <<fd, content, cleaned>>

(* Release, when Run has returned: LOCK_UN, then Close.  The file stays. *)
Unlock(p) ==
    /\ st[p] = "running"
    /\ owner' = [owner EXCEPT ![fd[p]] = NoProc]
    /\ st' = [st EXCEPT ![p] = "unlocked"]
    /\ UNCHANGED <<fd, path, content, cleaned>>

Close(p) == st[p] = "unlocked" /\ End(p)

Live(p) == st[p] \notin {"new", "ended"}

Crash(p) == Live(p) /\ End(p)

(* The unit has stopped: its RuntimeDirectory goes, with all files in it. *)
RemoveRuntimeDirectory(p) ==
    /\ p \in Unit \ cleaned
    /\ st[p] = "ended"
    /\ path' = NoProc
    /\ cleaned' = cleaned \cup {p}
    /\ UNCHANGED <<st, fd, owner, content>>

Terminated ==
    /\ \A p \in Procs : st[p] = "ended" /\ (p \in Unit => p \in cleaned)
    /\ UNCHANGED vars

Next ==
    \/ \E p \in Procs :
         \/ OpenFile(p) \/ Flock(p) \/ Refused(p) \/ WritePid(p)
         \/ Unlock(p) \/ Close(p) \/ Crash(p) \/ RemoveRuntimeDirectory(p)
    \/ Terminated

Spec == Init /\ [][Next]_vars
-----------------------------------------------------------------------------
Holds(p) == st[p] \in {"locked", "running"}

(* At most one process is past Acquire and before Release, whatever the    *)
(* others do between their open and their flock.                           *)
SingleInstance == \A p, q \in Procs : Holds(p) /\ Holds(q) => p = q

(* The same beside a unit, as long as systemd has not removed the          *)
(* directory of the lock file under it.                                    *)
SingleWhileKept == cleaned = {} => SingleInstance

(* A process is turned away only by another that is running at that very   *)
(* moment: a file, or a PID in it, left by a crash keeps nobody out.       *)
RefusedByLive ==
    [][\A p \in Procs :
         Refused(p) => \E q \in Procs \ {p} : Holds(q)]_vars

(* The PID of a running process stays in its file: a second process that   *)
(* opens the file and is turned away does not spoil it.                    *)
PidKept ==
    [][\A p \in Procs :
         st[p] = "running" /\ content[fd[p]] = p =>
           st'[p] # "running" \/ content'[fd[p]] = p]_vars
=============================================================================
