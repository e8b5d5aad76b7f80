--------------------------- MODULE LockfileProofs ---------------------------
(***************************************************************************)
(* Theorems about Lockfile, for any number of processes.                   *)
(***************************************************************************)
EXTENDS Lockfile, TLAPS

(* A live process has a file open, and the lock of a file and the process  *)
(* that got it know of each other.                                         *)
LockInv ==
    /\ LockTypeOK
    /\ \A p \in Procs : Live(p) => fd[p] \in Procs
    /\ \A p \in Procs : Holds(p) => owner[fd[p]] = p
    /\ \A f \in Procs : owner[f] # NoProc =>
                          Holds(owner[f]) /\ fd[owner[f]] = f

(* Before the first process starts there is neither a file nor a lock. *)
LEMMA LockInit == Init => LockInv
BY DEF Init, LockInv, LockTypeOK, MaybeProc, Live, Holds

(* The end of a process, whatever it is in the middle of, releases its     *)
(* lock and no other.                                                      *)
LEMMA EndStep ==
  ASSUME LockInv, NEW p \in Procs, End(p)
  PROVE  LockInv'
<1> USE LockAssumption DEF LockInv, LockTypeOK, MaybeProc, End
<1>1. LockTypeOK'
  OBVIOUS
<1>2. \A q \in Procs : Live(q)' => fd'[q] \in Procs
  BY DEF Live
<1>3. \A q \in Procs : Holds(q)' => owner'[fd'[q]] = q
  BY DEF Live, Holds
<1>4. (\A f \in Procs : owner[f] # NoProc =>
                          Holds(owner[f]) /\ fd[owner[f]] = f)'
  BY DEF Live, Holds
<1> QED
  BY <1>1, <1>2, <1>3, <1>4

(* Every system call of Acquire and Release, every crash and the removal   *)
(* of the RuntimeDirectory keep lock and holder in step.                   *)
LEMMA LockStep == LockInv /\ [Next]_vars => LockInv'
<1> SUFFICES ASSUME LockInv, [Next]_vars PROVE LockInv'
  OBVIOUS
<1> USE LockAssumption DEF LockInv, LockTypeOK, MaybeProc, Live, Holds
<1>1. ASSUME NEW p \in Procs, OpenFile(p) PROVE LockInv'
  BY <1>1 DEF OpenFile
<1>2. ASSUME NEW p \in Procs, Flock(p) PROVE LockInv'
  BY <1>2 DEF Flock, Free
<1>3. ASSUME NEW p \in Procs, Refused(p) \/ Close(p) \/ Crash(p)
      PROVE  LockInv'
  BY <1>3, EndStep DEF Refused, Close, Crash
<1>4. ASSUME NEW p \in Procs, WritePid(p) PROVE LockInv'
  BY <1>4 DEF WritePid
<1>5. ASSUME NEW p \in Procs, Unlock(p) PROVE LockInv'
  BY <1>5 DEF Unlock
<1>6. ASSUME NEW p \in Procs, RemoveRuntimeDirectory(p) PROVE LockInv'
  BY <1>6 DEF RemoveRuntimeDirectory
<1>7. CASE UNCHANGED vars
  BY <1>7 DEF vars
<1> QED
  BY <1>1, <1>2, <1>3, <1>4, <1>5, <1>6, <1>7 DEF Next, Terminated

(* As long as nothing has removed the lock file, all live processes have   *)
(* the same file open: the one lock_file names.                            *)
SameFile == cleaned = {} => \A p \in Procs : Live(p) => fd[p] = path

(* Release leaves the file in place, so the path is never named anew.      *)
LEMMA SameFileStep == LockInv /\ SameFile /\ [Next]_vars => SameFile'
<1> SUFFICES ASSUME LockInv, SameFile, [Next]_vars PROVE SameFile'
  OBVIOUS
<1> USE LockAssumption DEF LockInv, LockTypeOK, MaybeProc, Live, SameFile
<1>1. ASSUME NEW p \in Procs, OpenFile(p) PROVE SameFile'
  BY <1>1 DEF OpenFile
<1>2. ASSUME NEW p \in Procs, Flock(p) PROVE SameFile'
  BY <1>2 DEF Flock
<1>3. ASSUME NEW p \in Procs, Refused(p) \/ Close(p) \/ Crash(p)
      PROVE  SameFile'
  BY <1>3 DEF Refused, Close, Crash, End
<1>4. ASSUME NEW p \in Procs, WritePid(p) \/ Unlock(p) PROVE SameFile'
  BY <1>4 DEF WritePid, Unlock
<1>5. ASSUME NEW p \in Procs, RemoveRuntimeDirectory(p) PROVE SameFile'
  BY <1>5 DEF RemoveRuntimeDirectory
<1>6. CASE UNCHANGED vars
  BY <1>6 DEF vars
<1> QED
  BY <1>1, <1>2, <1>3, <1>4, <1>5, <1>6 DEF Next, Terminated

(* Any number of processes, started, refused, killed and restarted in any  *)
(* order: Acquire lets at most one of them run until systemd removes the   *)
(* file under them.                                                        *)
THEOREM SingleWhileKeptCorrect == Spec => []SingleWhileKept
<1>1. Init => SameFile
  BY DEF Init, SameFile, Live
<1>2. LockInv /\ SameFile => SingleWhileKept
  BY DEF LockInv, SameFile, SingleWhileKept, SingleInstance, Live, Holds
<1> QED
  BY LockInit, LockStep, SameFileStep, <1>1, <1>2, PTL DEF Spec

(* Also beside a unit that restarts and removes its RuntimeDirectory, only *)
(* a running process keeps another out, and never a leftover of a crash.   *)
THEOREM RefusedByLiveCorrect == Spec => RefusedByLive
<1>1. ASSUME LockInv, NEW p \in Procs, Refused(p)
      PROVE  \E q \in Procs \ {p} : Holds(q)
  <2>1. fd[p] \in Procs /\ owner[fd[p]] # NoProc /\ ~Holds(p)
    BY <1>1 DEF LockInv, Refused, Free, Live, Holds
  <2>2. owner[fd[p]] \in Procs /\ Holds(owner[fd[p]])
    BY <1>1, <2>1 DEF LockInv, LockTypeOK, MaybeProc
  <2> QED
    BY <2>1, <2>2
<1>2. LockInv /\ [Next]_vars =>
        [\A p \in Procs :
           Refused(p) => \E q \in Procs \ {p} : Holds(q)]_vars
  BY <1>1
<1> QED
  BY LockInit, LockStep, <1>2, PTL DEF Spec, RefusedByLive

(* A process writes its PID only while it holds the lock, so that it never *)
(* overwrites the PID of a running one.                                    *)
THEOREM PidKeptCorrect == Spec => PidKept
<1>1. ASSUME LockInv, [Next]_vars, NEW p \in Procs,
             st[p] = "running", content[fd[p]] = p
      PROVE  st'[p] # "running" \/ content'[fd[p]] = p
  <2>1. ASSUME NEW q \in Procs, WritePid(q)
        PROVE  content'[fd[p]] = content[fd[p]]
    <3>1. fd[p] # fd[q] /\ fd[p] \in Procs
      BY <1>1, <2>1 DEF LockInv, WritePid, Live, Holds
    <3> QED
      BY <1>1, <2>1, <3>1 DEF LockInv, LockTypeOK, WritePid
  <2>2. CASE content' = content
    BY <1>1, <2>2
  <2>3. content' = content \/ \E q \in Procs : WritePid(q)
    BY <1>1 DEF Next, vars, OpenFile, Flock, Refused, End, Unlock, Close,
       Crash, RemoveRuntimeDirectory, Terminated
  <2> QED
    BY <1>1, <2>1, <2>2, <2>3
<1>2. LockInv /\ [Next]_vars =>
        [\A p \in Procs :
           st[p] = "running" /\ content[fd[p]] = p =>
             st'[p] # "running" \/ content'[fd[p]] = p]_vars
  BY <1>1
<1> QED
  BY LockInit, LockStep, <1>2, PTL DEF Spec, PidKept
=============================================================================
