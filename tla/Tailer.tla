------------------------------ MODULE Tailer ------------------------------
(***************************************************************************)
(* Which lines of the log daemon.Run counts: the choice between the end    *)
(* and the beginning of the file, made from a Stat that the tailer's own   *)
(* opening of the file only follows, and the tailer with the options Run   *)
(* gives it, across rotations in the modes `create' and `copytruncate'.    *)
(*                                                                         *)
(* The tailer (nxadm/tail) and the software that writes the log are not    *)
(* part of the repository; they do here what Run relies on.  Lines are     *)
(* numbered as they are written, files as they are created, and a file is  *)
(* the sequence of its lines.                                              *)
(***************************************************************************)
EXTENDS Integers, Sequences, Functions

CONSTANTS
    MaxLines,               \* bound: lines written
    MaxFiles                \* bound: files created

ASSUME TailerAssumption == MaxLines \in Nat /\ MaxFiles \in Nat

VARIABLES
    content,                \* the lines of every file
    name,                   \* the file that log_path names, or None
    half,                   \* the last line of `name' is not complete yet
    written,                \* lines written or begun
    phase,                  \* how far Run has come
    location,               \* where it asks the tailer to begin
    following,              \* the file the tailer has open, or None
    pos,                    \* lines of it the tailer has passed
    inHand,                 \* the line the consumer has received, or None
    counted,                \* the lines that reached ProcessLine, in order
    \* history: Stat found no file; the lines in the file that Stat found; the
    \* lines that Run has to count
    fresh, past, owed

fileVars == <<content, name, half, written>>
tailVars == <<following, pos>>
runVars  == <<phase, location>>
histVars == <<fresh, past, owed>>

vars == <<fileVars, tailVars, runVars, inHand, counted, histVars>>

None == 0

(* The complete lines of a file. *)
Complete(file) ==
    LET n == Len(content[file])
    IN  IF half /\ file = name THEN SubSeq(content[file], 1, n - 1)
        ELSE content[file]

Init ==
    /\ \/ content = <<>> /\ name = None /\ written = 0
       \/ content = << <<1>> >> /\ name = 1 /\ written = 1
    /\ half = FALSE
    /\ phase = "starting" /\ location = "start"
    /\ following = None /\ pos = 0
    /\ inHand = None /\ counted = <<>>
    /\ fresh = FALSE /\ past = {} /\ owed = {}
-----------------------------------------------------------------------------
(* Run.                                                                    *)

(* Mutant of LocationOf: tail -n0 for every file. *)
LocationEnd == "end"

(* Mutant of LocationOf: TailFile without a Location. *)
LocationStart == "start"

(* A file that exists is read from its end, one that does not from its     *)
(* beginning once it appears.                                              *)
LocationOf == IF name # None THEN "end" ELSE "start"

Stat ==
    /\ phase = "starting"
    /\ location' = LocationOf
    /\ fresh' = (name = None)
    /\ past' = IF name # None THEN Range(Complete(name)) ELSE {}
    /\ phase' = "attaching"
    /\ UNCHANGED <<fileVars, tailVars, inHand, counted, owed>>

(* Mutant of Deliverable: without CompleteLines a line begun is delivered  *)
(* as it is, and its rest as another one.                                  *)
DeliverableInParts == content[following]

(* CompleteLines: the tailer delivers a line once it has its newline. *)
Deliverable == Complete(following)

(* The first opening, which waits for the file if there is none.  The rest *)
(* of a line that is half written at that time is delivered as a line.     *)
Attach ==
    /\ phase = "attaching" /\ name # None
    /\ following' = name
    /\ pos' = IF location = "end" THEN Len(Complete(name)) ELSE 0
    /\ phase' = "running"
    /\ UNCHANGED <<fileVars, location, inHand, counted, histVars>>

(* The tailer hands over the next line, and is past it once it has read    *)
(* the newline.                                                            *)
Receive ==
    /\ phase = "running" /\ following # None
    /\ inHand = None
    /\ pos < Len(Deliverable)
    /\ inHand' = Deliverable[pos + 1]
    /\ pos' = IF pos < Len(Complete(following)) THEN pos + 1 ELSE pos
    /\ UNCHANGED <<fileVars, runVars, following, counted, histVars>>

(* consume; a line in hand is counted also after Stop, before the drain    *)
(* goes on.                                                                *)
Consume ==
    /\ inHand # None
    /\ counted' = Append(counted, inHand)
    /\ inHand' = None
    /\ UNCHANGED <<fileVars, runVars, tailVars, histVars>>

(* ReOpen: at the end of a file that the path no longer names the tailer   *)
(* goes on with the file it names now, from its beginning.                 *)
ReOpen ==
    /\ phase = "running"
    /\ following # name /\ name # None
    /\ following # None => pos = Len(content[following])
    /\ following' = name /\ pos' = 0
    /\ UNCHANGED <<fileVars, runVars, inHand, counted, histVars>>

(* drain: whatever is still in the file is left to no one. *)
Stop ==
    /\ phase \in {"attaching", "running"}
    /\ phase' = "stopped"
    /\ UNCHANGED <<fileVars, location, tailVars, inHand, counted, histVars>>
-----------------------------------------------------------------------------
(* The software that writes the log, and logrotate.                        *)

(* A line written now has to be counted: the tailer has the file, or the   *)
(* file is younger than the daemon.                                        *)
Owing ==
    \/ phase = "running"
    \/ phase = "attaching" /\ fresh

(* A line is written at once, or in two parts. *)
Begin(part) ==
    /\ name # None /\ ~half
    /\ written < MaxLines
    /\ written' = written + 1
    /\ content' = [content EXCEPT ![name] = Append(@, written')]
    /\ half' = part
    /\ owed' = IF Owing THEN owed \cup {written'} ELSE owed
    /\ UNCHANGED <<name, runVars, tailVars, inHand, counted, fresh, past>>

Finish ==
    /\ half
    /\ half' = FALSE
    /\ UNCHANGED <<content, name, written, runVars, tailVars, inHand, counted,
                   histVars>>

Appear ==
    /\ name = None
    /\ Len(content) < MaxFiles
    /\ content' = Append(content, <<>>)
    /\ name' = Len(content')
    /\ UNCHANGED <<half, written, runVars, tailVars, inHand, counted, histVars>>

(* `create': the lines of a file the tailer never came to see are lost to  *)
(* it, the rest of the file it is reading is not.                          *)
Rename ==
    /\ name # None /\ ~half
    /\ name' = None
    /\ owed' = IF following = name THEN owed
               ELSE owed \ Range(content[name])
    /\ UNCHANGED <<content, half, written, runVars, tailVars, inHand, counted,
                   fresh, past>>

(* `copytruncate': what the tailer has not read is lost, as the README     *)
(* says; it notices that the file has shrunk before the file has grown     *)
(* again.                                                                  *)
Truncate ==
    /\ name # None /\ ~half
    /\ content[name] # <<>>
    /\ owed' = owed \ (Range(content[name])
                         \ (Range(counted) \cup {inHand}))
    /\ content' = [content EXCEPT ![name] = <<>>]
    /\ pos' = IF following = name THEN 0 ELSE pos
    /\ UNCHANGED <<name, half, written, runVars, following, inHand, counted,
                   fresh, past>>

Terminated == phase = "stopped" /\ inHand = None /\ UNCHANGED vars

Next ==
    \/ Stat \/ Attach \/ Receive \/ Consume \/ ReOpen \/ Stop
    \/ \E part \in BOOLEAN : Begin(part)
    \/ Finish \/ Appear \/ Rename \/ Truncate
    \/ Terminated

Spec == Init /\ [][Next]_vars
-----------------------------------------------------------------------------
(* Properties.                                                             *)

(* "No line is lost and none is counted twice": the lines are counted in   *)
(* the order they were written, each at most once, however the file is     *)
(* rotated and however slowly a line is written.                           *)
CountedInOrder ==
    \A i, j \in DOMAIN counted : i < j => counted[i] < counted[j]

(* What was in the log before the daemon looked for it is history.         *)
HistoryNotCounted ==
    phase # "starting" => past \cap Range(counted) = {}

(* Once the tailer has nothing left to read, every line that was written   *)
(* while it had the log has been counted; so has every line of a log that  *)
(* did not exist when the daemon started, from its first one.              *)
CaughtUp ==
    /\ phase = "running" /\ inHand = None /\ ~half
    /\ following = name
    /\ following # None => pos = Len(content[following])

NoneMissed == CaughtUp => owed \subseteq Range(counted)
=============================================================================
