---------------------------- MODULE TailerProofs ----------------------------
(***************************************************************************)
(* Theorems about Tailer, for any number of lines, files and rotations.    *)
(***************************************************************************)
EXTENDS Tailer, SequenceTheorems, TLAPS

TailTypeOK ==
    /\ content \in Seq(Seq(Nat))
    /\ name = None \/ name = Len(content)
    /\ written \in Nat
    /\ following \in 0..Len(content) /\ pos \in Nat
    /\ inHand \in Nat /\ counted \in Seq(Nat)

(* The complete lines of a file come first. *)
CompleteLen(file) ==
    IF half /\ file = name THEN Len(content[file]) - 1 ELSE Len(content[file])

Numbers(file) == 1..Len(content[file])

Files == 1..Len(content)

(* Lines are younger than those before them, in their file and in earlier  *)
(* ones.                                                                   *)
FilesInOrder ==
    /\ half => name # None /\ Len(content[name]) > 0
    /\ \A f \in Files : \A i \in Numbers(f) :
          /\ 0 < content[f][i] /\ content[f][i] <= written
          /\ \A j \in Numbers(f) : i < j => content[f][i] < content[f][j]
          /\ \A g \in Files : \A j \in Numbers(g) :
                f < g => content[f][i] < content[g][j]

(* The tailer still comes to the i-th line of the file f. *)
Ahead(f, i) == (f = following /\ i > pos) \/ f > following

(* What the tailer has passed is older than what it still comes to. *)
ReadInOrder ==
    /\ phase \in {"starting", "attaching"} =>
          following = None /\ inHand = None /\ counted = <<>>
    /\ phase = "running" => following # None /\ pos <= CompleteLen(following)
    /\ inHand <= written
    /\ \A i \in DOMAIN counted :
          /\ counted[i] <= written
          /\ inHand # None => counted[i] < inHand
          /\ \A j \in DOMAIN counted : i < j => counted[i] < counted[j]
    /\ phase = "running" =>
          \A f \in Files : \A i \in Numbers(f) : Ahead(f, i) =>
             /\ inHand < content[f][i]
             /\ \A j \in DOMAIN counted : counted[j] < content[f][i]

TailInv == TailTypeOK /\ FilesInOrder /\ ReadInOrder

(* The lines of Complete are the first ones of the file. *)
LEMMA CompleteLines ==
  ASSUME TailTypeOK, FilesInOrder, NEW f \in Files
  PROVE  /\ Len(Complete(f)) = CompleteLen(f)
         /\ DOMAIN Complete(f) = 1..CompleteLen(f)
         /\ CompleteLen(f) \in Nat /\ CompleteLen(f) <= Len(content[f])
         /\ \A i \in 1..CompleteLen(f) : Complete(f)[i] = content[f][i]
<1>1. content[f] \in Seq(Nat) /\ Len(content[f]) \in Nat
  BY DEF TailTypeOK, Files
<1>2. CASE half /\ f = name
  <2>1. Len(content[f]) > 0
    BY <1>2 DEF FilesInOrder
  <2>2. PICK n : n = Len(content[f])
    OBVIOUS
  <2>3. /\ SubSeq(content[f], 1, n - 1) \in Seq(Nat)
        /\ Len(SubSeq(content[f], 1, n - 1)) = n - 1
        /\ \A i \in 1..(n - 1) : SubSeq(content[f], 1, n - 1)[i] = content[f][i]
    BY <1>1, <2>1, <2>2, SubSeqProperties
  <2>4. Complete(f) = SubSeq(content[f], 1, n - 1) /\ CompleteLen(f) = n - 1
    BY <1>2, <2>2 DEF Complete, CompleteLen
  <2> QED
    BY <1>1, <2>1, <2>2, <2>3, <2>4
<1>3. CASE ~(half /\ f = name)
  <2>1. Complete(f) = content[f] /\ CompleteLen(f) = Len(content[f])
    BY <1>3 DEF Complete, CompleteLen
  <2> QED
    BY <1>1, <2>1
<1> QED
  BY <1>2, <1>3

(* An empty log, or one with a line of the past. *)
LEMMA TailInit == Init => TailInv
<1> SUFFICES ASSUME Init PROVE TailInv
  OBVIOUS
<1> USE DEF Init, None
<1>1. TailTypeOK
  <2>1. <<1>> \in Seq(Nat) /\ <<>> \in Seq(Nat) /\ <<>> \in Seq(Seq(Nat))
    OBVIOUS
  <2>2. << <<1>> >> \in Seq(Seq(Nat))
    BY <2>1
  <2>3. content \in Seq(Seq(Nat)) /\ (name = 0 \/ name = Len(content))
    BY <2>1, <2>2
  <2> QED
    BY <2>1, <2>3 DEF TailTypeOK
<1>2. FilesInOrder
  BY DEF FilesInOrder, Files, Numbers
<1>3. ReadInOrder
  BY DEF ReadInOrder
<1> QED
  BY <1>1, <1>2, <1>3 DEF TailInv

(* A new line goes to the end of the log, and the other files keep theirs. *)
LEMMA BeginLines ==
  ASSUME TailInv, NEW part, Begin(part)
  PROVE  /\ name \in Files /\ Len(content') = Len(content)
         /\ written' = written + 1 /\ content' \in Seq(Seq(Nat))
         /\ \A f \in Files \ {name} : content'[f] = content[f]
         /\ Len(content'[name]) = Len(content[name]) + 1
         /\ \A i \in Numbers(name) : content'[name][i] = content[name][i]
         /\ content'[name][Len(content[name]) + 1] = written + 1
<1>1. name \in Files /\ written' = written + 1 /\ written' \in Nat
  BY DEF TailInv, TailTypeOK, Begin, None, Files
<1>2. content[name] \in Seq(Nat)
  BY <1>1 DEF TailInv, TailTypeOK, Files
<1>3. PICK s : s = Append(content[name], written')
  OBVIOUS
<1>4. /\ s \in Seq(Nat) /\ Len(s) = Len(content[name]) + 1
      /\ s[Len(content[name]) + 1] = written + 1
      /\ \A i \in Numbers(name) : s[i] = content[name][i]
  BY <1>1, <1>2, <1>3, AppendProperties DEF Numbers
<1>5. content' = [content EXCEPT ![name] = s]
  BY <1>3 DEF Begin
<1>6. content' \in Seq(Seq(Nat)) /\ Len(content') = Len(content)
  BY <1>1, <1>4, <1>5 DEF TailInv, TailTypeOK, Files
<1>7. content'[name] = s /\ \A f \in Files \ {name} : content'[f] = content[f]
  BY <1>1, <1>5 DEF TailInv, TailTypeOK, Files
<1> QED
  BY <1>1, <1>4, <1>6, <1>7

(* A new log is one more file, an empty one. *)
LEMMA AppearLines ==
  ASSUME TailInv, Appear
  PROVE  /\ Len(content') = Len(content) + 1 /\ content' \in Seq(Seq(Nat))
         /\ \A f \in Files : content'[f] = content[f]
         /\ content'[Len(content) + 1] = <<>>
<1>1. content \in Seq(Seq(Nat)) /\ <<>> \in Seq(Nat)
  BY DEF TailInv, TailTypeOK
<1> QED
  BY <1>1, AppendProperties DEF Appear, Files

(* copytruncate empties the log and leaves the other files alone. *)
LEMMA TruncateLines ==
  ASSUME TailInv, Truncate
  PROVE  /\ name \in Files /\ Len(content') = Len(content)
         /\ content' \in Seq(Seq(Nat))
         /\ \A f \in Files \ {name} : content'[f] = content[f]
         /\ content'[name] = <<>>
<1>1. name \in Files /\ content \in Seq(Seq(Nat)) /\ <<>> \in Seq(Nat)
  BY DEF TailInv, TailTypeOK, Truncate, None, Files
<1> QED
  BY <1>1 DEF Truncate, Files

(* The steps of Run leave the files alone. *)
RunStep == Stat \/ Attach \/ Receive \/ Consume \/ ReOpen \/ Stop

FileStep ==
    \/ \E part \in BOOLEAN : Begin(part)
    \/ Finish \/ Appear \/ Rename \/ Truncate

(* A step is one of the daemon, one of the surroundings, or none. *)
LEMMA TailCases ==
  ASSUME [Next]_vars
  PROVE  RunStep \/ FileStep \/ UNCHANGED vars
BY DEF Next, RunStep, FileStep, Terminated

(* The surroundings leave the daemon alone, and the other way round. *)
LEMMA FileFrame ==
  ASSUME FileStep
  PROVE  /\ UNCHANGED <<phase, location, following, inHand, counted, past>>
         /\ pos' = pos \/ (pos' = 0 /\ following = name /\ Truncate)
BY DEF FileStep, Begin, Finish, Appear, Rename, Truncate, runVars, tailVars,
   histVars

(* The daemon only reads the log. *)
LEMMA RunFrame ==
  ASSUME RunStep
  PROVE  UNCHANGED <<content, name, half, written>>
BY DEF RunStep, Stat, Attach, Receive, Consume, ReOpen, Stop, fileVars

(* A new line is the youngest; every other step leaves the lines or drops  *)
(* some.                                                                   *)
LEMMA FilesStep ==
  ASSUME TailInv, [Next]_vars
  PROVE  FilesInOrder'
<1> USE DEF TailInv
<1>1. ASSUME NEW part \in BOOLEAN, Begin(part) PROVE FilesInOrder'
  <2>1. /\ name \in Files /\ Len(content') = Len(content)
        /\ written' = written + 1
        /\ \A f \in Files \ {name} : content'[f] = content[f]
        /\ Len(content'[name]) = Len(content[name]) + 1
        /\ \A i \in Numbers(name) : content'[name][i] = content[name][i]
        /\ content'[name][Len(content[name]) + 1] = written + 1
        /\ name' = name
    BY <1>1, BeginLines DEF Begin
  <2>2. name = Len(content) /\ written \in Nat /\ Len(content) \in Nat
        /\ name # None /\ Len(content[name]) \in Nat
    BY <1>1 DEF Begin, TailTypeOK, None
  <2>3. PICK last : last = Len(content[name]) + 1
    OBVIOUS
  <2>4. ASSUME NEW f \in Files', NEW i \in Numbers(f)'
        PROVE  \/ i \in Numbers(f) /\ content'[f][i] = content[f][i]
               \/ f = name /\ i = last /\ content'[f][i] = written + 1
    <3>1. CASE f = name
      BY <2>1, <2>2, <2>3, <2>4, <3>1 DEF Files, Numbers
    <3>2. CASE f # name
      BY <2>1, <2>2, <2>4, <3>2 DEF Files, Numbers
    <3> QED
      BY <3>1, <3>2
  <2>5. Files' = Files /\ \A f \in Files : f <= name
    BY <2>1, <2>2 DEF Files
  <2>6. \A f \in Files : \A i \in Numbers(f) :
          content[f][i] \in Nat /\ i \in Nat /\ (f = name => i < last)
    BY <2>2, <2>3 DEF Files, Numbers, TailTypeOK
  <2>7. ASSUME NEW f \in Files', NEW i \in Numbers(f)'
        PROVE  0 < content'[f][i] /\ content'[f][i] <= written'
    BY <2>1, <2>2, <2>4, <2>5, <2>6 DEF FilesInOrder
  <2>8. ASSUME NEW f \in Files', NEW i \in Numbers(f)', NEW j \in Numbers(f)',
               i < j
        PROVE  content'[f][i] < content'[f][j]
    <3>1. i \in Numbers(f) /\ content'[f][i] = content[f][i]
      BY <2>2, <2>3, <2>4, <2>5, <2>6, <2>8 DEF Numbers
    <3> QED
      BY <2>2, <2>4, <2>5, <2>6, <2>8, <3>1 DEF FilesInOrder
  <2>9. ASSUME NEW f \in Files', NEW i \in Numbers(f)',
               NEW g \in Files', NEW j \in Numbers(g)', f < g
        PROVE  content'[f][i] < content'[g][j]
    <3>1. i \in Numbers(f) /\ content'[f][i] = content[f][i]
      BY <2>2, <2>4, <2>5, <2>9 DEF Files
    <3> QED
      BY <2>2, <2>4, <2>5, <2>6, <2>9, <3>1 DEF FilesInOrder
  <2>10. half' => name' # None /\ Len(content'[name']) > 0
    BY <2>1, <2>2
  <2> QED
    BY <2>7, <2>8, <2>9, <2>10 DEF FilesInOrder
<1>2. CASE Finish \/ Rename
  <2>1. content' = content /\ written' = written /\ half' = FALSE
    BY <1>2 DEF Finish, Rename
  <2> QED
    BY <2>1 DEF FilesInOrder, Files, Numbers
<1>3. CASE Appear
  <2>1. /\ Len(content') = Len(content) + 1 /\ content' \in Seq(Seq(Nat))
        /\ \A f \in Files : content'[f] = content[f]
        /\ content'[Len(content) + 1] = <<>>
        /\ half' = half /\ written' = written /\ ~half
    BY <1>3, AppearLines DEF Appear, FilesInOrder
  <2>2. ASSUME NEW f \in Files', NEW i \in Numbers(f)'
        PROVE  f \in Files /\ content'[f] = content[f] /\ i \in Numbers(f)
    <3>1. Len(content) \in Nat /\ Len(content'[Len(content) + 1]) = 0
      BY <2>1 DEF TailTypeOK
    <3>2. f # Len(content) + 1
      BY <2>2, <3>1 DEF Numbers
    <3> QED
      BY <2>1, <2>2, <3>1, <3>2 DEF Files, Numbers
  <2> QED
    BY <2>1, <2>2 DEF FilesInOrder
<1>4. CASE Truncate
  <2>1. /\ name \in Files /\ Len(content') = Len(content)
        /\ \A f \in Files \ {name} : content'[f] = content[f]
        /\ content'[name] = <<>>
        /\ half' = half /\ written' = written /\ ~half
    BY <1>4, TruncateLines DEF Truncate
  <2>2. ASSUME NEW f \in Files', NEW i \in Numbers(f)'
        PROVE  f \in Files /\ content'[f] = content[f] /\ i \in Numbers(f)
    BY <2>1, <2>2 DEF Files, Numbers, TailTypeOK
  <2> QED
    BY <2>1, <2>2 DEF FilesInOrder
<1>5. CASE RunStep \/ UNCHANGED vars
  <2>1. UNCHANGED <<content, name, half, written>>
    BY <1>5, RunFrame DEF vars, fileVars
  <2> QED
    BY <2>1 DEF FilesInOrder, Files, Numbers
<1> QED
  BY <1>1, <1>2, <1>3, <1>4, <1>5, TailCases DEF FileStep

(* Every step keeps the types. *)
LEMMA TailTypeStep ==
  ASSUME TailInv, [Next]_vars
  PROVE  TailTypeOK'
<1> USE DEF TailInv, TailTypeOK, None
<1>1. ASSUME NEW part \in BOOLEAN, Begin(part) PROVE TailTypeOK'
  <2>1. /\ Len(content') = Len(content) /\ written' = written + 1
        /\ content' \in Seq(Seq(Nat)) /\ name' = name /\ pos' = pos
        /\ UNCHANGED <<following, inHand, counted>>
    BY <1>1, BeginLines DEF Begin, tailVars
  <2> QED
    BY <2>1
<1>2. CASE Finish \/ Rename
  BY <1>2 DEF Finish, Rename, tailVars
<1>3. CASE Appear
  <2>1. /\ Len(content') = Len(content) + 1 /\ content' \in Seq(Seq(Nat))
        /\ name' = Len(content') /\ pos' = pos /\ written' = written
        /\ UNCHANGED <<following, inHand, counted>>
    BY <1>3, AppearLines DEF Appear, tailVars
  <2> QED
    BY <2>1
<1>4. CASE Truncate
  <2>1. /\ Len(content') = Len(content) /\ content' \in Seq(Seq(Nat))
        /\ name' = name /\ (pos' = pos \/ pos' = 0) /\ written' = written
        /\ UNCHANGED <<following, inHand, counted>>
    BY <1>4, TruncateLines DEF Truncate
  <2> QED
    BY <2>1
<1>5. CASE UNCHANGED vars
  BY <1>5 DEF vars, fileVars, tailVars
<1>6. CASE Stat \/ Stop
  BY <1>6 DEF Stat, Stop, fileVars, tailVars
<1>7. CASE Attach
  <2>1. name \in Files /\ following' = name
    BY <1>7 DEF Attach, Files
  <2>2. pos' \in Nat
    BY <1>7, <2>1, CompleteLines DEF Attach
  <2> QED
    BY <1>7, <2>1, <2>2 DEF Attach, fileVars, Files
<1>8. CASE Receive
  <2>1. following \in Files
    BY <1>8 DEF Receive, Files
  <2>2. pos + 1 \in 1..CompleteLen(following)
        /\ inHand' = content[following][pos + 1]
    BY <1>8, <2>1, CompleteLines DEF Receive, Deliverable
  <2>3. inHand' \in Nat
    <3>1. content[following] \in Seq(Nat)
      BY <2>1 DEF Files
    <3>2. CompleteLen(following) \in Nat
          /\ CompleteLen(following) <= Len(content[following])
      BY <2>1, CompleteLines
    <3> QED
      BY <2>2, <3>1, <3>2
  <2> QED
    BY <1>8, <2>3 DEF Receive, fileVars
<1>9. CASE Consume
  <2>1. counted' \in Seq(Nat)
    BY <1>9, AppendProperties DEF Consume
  <2> QED
    BY <1>9, <2>1 DEF Consume, fileVars, tailVars
<1>10. CASE ReOpen
  BY <1>10 DEF ReOpen, fileVars
<1> QED
  BY <1>1, <1>2, <1>3, <1>4, <1>5, <1>6, <1>7, <1>8, <1>9, <1>10, TailCases
  DEF FileStep, RunStep

(* What is ahead of the tailer after such a step is a new line or was      *)
(* ahead of it before.                                                     *)
LEMMA AheadKept ==
  ASSUME TailInv, FileStep, NEW f \in Files', NEW i \in Numbers(f)'
  PROVE  \/ content'[f][i] = written + 1
         \/ /\ f \in Files /\ i \in Numbers(f)
            /\ content'[f][i] = content[f][i]
            /\ Ahead(f, i)' => Ahead(f, i)
<1> USE DEF TailInv
<1>1. following' = following
  BY FileFrame
<1>2. CASE f \in Files /\ i \in Numbers(f) /\ content'[f][i] = content[f][i]
           /\ pos' = pos
  BY <1>1, <1>2 DEF Ahead
<1>3. ASSUME NEW part \in BOOLEAN, Begin(part)
      PROVE  \/ content'[f][i] = written + 1
             \/ f \in Files /\ i \in Numbers(f)
                /\ content'[f][i] = content[f][i] /\ pos' = pos
  <2>1. /\ name \in Files /\ Len(content') = Len(content)
        /\ \A g \in Files \ {name} : content'[g] = content[g]
        /\ Len(content'[name]) = Len(content[name]) + 1
        /\ \A k \in Numbers(name) : content'[name][k] = content[name][k]
        /\ content'[name][Len(content[name]) + 1] = written + 1
        /\ pos' = pos
    BY <1>3, BeginLines DEF Begin, tailVars
  <2>2. Len(content[name]) \in Nat /\ f \in Files
    BY <2>1 DEF Files, TailTypeOK
  <2>3. CASE f = name
    BY <2>1, <2>2, <2>3 DEF Numbers
  <2>4. CASE f # name
    BY <2>1, <2>2, <2>4 DEF Numbers
  <2> QED
    BY <2>3, <2>4
<1>4. CASE Finish \/ Rename
  BY <1>2, <1>4 DEF Finish, Rename, tailVars, Files, Numbers
<1>5. CASE Appear
  <2>1. /\ Len(content') = Len(content) + 1
        /\ \A g \in Files : content'[g] = content[g]
        /\ content'[Len(content) + 1] = <<>>
    BY <1>5, AppearLines
  <2>2. f # Len(content) + 1
    <3>1. Len(content'[Len(content) + 1]) = 0
      BY <2>1
    <3> QED
      BY <3>1 DEF Numbers
  <2>3. f \in Files /\ i \in Numbers(f)
    <3>1. Len(content) \in Nat /\ f \in 1..Len(content')
      BY DEF TailInv, TailTypeOK, Files
    <3>2. f \in Files
      BY <2>1, <2>2, <3>1 DEF Files
    <3> QED
      BY <2>1, <3>2 DEF Numbers
  <2>4. pos' = pos
    BY <1>5 DEF Appear, tailVars
  <2> QED
    BY <1>2, <2>1, <2>3, <2>4
<1>6. CASE Truncate
  <2>1. /\ name \in Files /\ Len(content') = Len(content)
        /\ \A g \in Files \ {name} : content'[g] = content[g]
        /\ Len(content'[name]) = 0
        /\ pos' = IF following = name THEN 0 ELSE pos
    BY <1>6, TruncateLines DEF Truncate
  <2>2. f # name /\ f \in Files
    BY <2>1 DEF Files, Numbers
  <2>3. i \in Numbers(f) /\ content'[f][i] = content[f][i]
    BY <2>1, <2>2 DEF Numbers
  <2>4. Ahead(f, i)' => Ahead(f, i)
    BY <1>1, <2>1, <2>2 DEF Ahead
  <2> QED
    BY <2>2, <2>3, <2>4
<1> QED
  BY <1>2, <1>3, <1>4, <1>5, <1>6 DEF FileStep

(* The line that the tailer hands over is the first one ahead of it. *)
LEMMA Received ==
  ASSUME TailInv, Receive
  PROVE  /\ phase = "running" /\ following \in Files /\ inHand = None
         /\ UNCHANGED <<phase, following, counted, past, location>>
         /\ pos \in Nat /\ pos + 1 \in Numbers(following)
         /\ pos + 1 <= CompleteLen(following)
         /\ inHand' = content[following][pos + 1] /\ pos' = pos + 1
         /\ Ahead(following, pos + 1)
<1>1. /\ phase = "running" /\ following \in Files /\ inHand = None
      /\ pos < Len(Deliverable) /\ inHand' = Deliverable[pos + 1]
      /\ UNCHANGED <<phase, following, counted, past, location>>
  BY DEF Receive, runVars, histVars, TailInv, TailTypeOK, Files, None
<1>2. /\ Len(Complete(following)) = CompleteLen(following)
      /\ CompleteLen(following) \in Nat
      /\ CompleteLen(following) <= Len(content[following])
      /\ \A i \in 1..CompleteLen(following) :
            Complete(following)[i] = content[following][i]
  BY <1>1, CompleteLines DEF TailInv
<1>3. Len(content[following]) \in Nat /\ pos \in Nat
  BY <1>1 DEF TailInv, TailTypeOK, Files
<1> QED
  BY <1>1, <1>2, <1>3 DEF Receive, Deliverable, Numbers, Ahead

(* Reopening passes nothing: the old file has been read to its end. *)
LEMMA ReOpened ==
  ASSUME TailInv, ReOpen
  PROVE  /\ phase = "running" /\ following' = name /\ pos' = 0
         /\ name \in Files /\ name # None
         /\ UNCHANGED <<phase, inHand, counted, past, location>>
         /\ \A f \in Files : \A i \in Numbers(f) : Ahead(f, i)' => Ahead(f, i)
<1>1. /\ phase = "running" /\ following \in Files /\ name = Len(content)
      /\ following' = name /\ pos' = 0 /\ pos = Len(content[following])
      /\ name # None /\ following < name
      /\ UNCHANGED <<phase, inHand, counted, past, location>>
  BY DEF ReOpen, runVars, histVars, TailInv, ReadInOrder, TailTypeOK, Files, None
<1>2. \A f \in Files : \A i \in Numbers(f) : Ahead(f, i)' => Ahead(f, i)
  BY <1>1 DEF Ahead, Files, Numbers, TailInv, TailTypeOK
<1> QED
  BY <1>1, <1>2 DEF Files, TailInv, TailTypeOK

(* The surroundings put nothing behind what the tailer has passed. *)
LEMMA FileStepRead ==
  ASSUME TailInv, FileStep
  PROVE  ReadInOrder'
<1> USE DEF TailInv
<1>1. /\ UNCHANGED <<phase, location, following, inHand, counted>>
      /\ pos' = pos \/ (pos' = 0 /\ following = name /\ Truncate)
  BY FileFrame
<1>2. /\ written \in Nat /\ written' \in Nat /\ written <= written'
      /\ inHand \in Nat /\ \A i \in DOMAIN counted : counted[i] \in Nat
  <2>1. written' \in Nat /\ written \in Nat /\ inHand \in Nat
        /\ counted \in Seq(Nat)
    BY TailTypeStep DEF TailTypeOK, Next, FileStep
  <2> QED
    BY <2>1 DEF FileStep, Begin, Finish, Appear, Rename, Truncate
<1>3. ASSUME phase = "running" PROVE pos' <= CompleteLen(following)'
  <2>1. following \in Files /\ pos <= CompleteLen(following)
        /\ pos \in Nat /\ Len(content[following]) \in Nat
    BY <1>3 DEF ReadInOrder, TailTypeOK, None, Files
  <2>2. CompleteLen(following) <= Len(content[following])
        /\ CompleteLen(following) \in Nat
    BY <2>1, CompleteLines
  <2>3. ASSUME NEW part \in BOOLEAN, Begin(part)
        PROVE  pos' <= CompleteLen(following)'
    <3>1. /\ Len(content'[name]) = Len(content[name]) + 1 /\ name' = name
          /\ ~half /\ name \in Files
          /\ \A f \in Files \ {name} : content'[f] = content[f]
      BY <2>3, BeginLines DEF Begin
    <3>2. pos' = pos
      BY <2>3 DEF Begin, tailVars
    <3>3. CompleteLen(following) = Len(content[following])
      BY <3>1 DEF CompleteLen
    <3>4. CASE following = name
      BY <1>1, <2>1, <3>1, <3>2, <3>3, <3>4 DEF CompleteLen
    <3>5. CASE following # name
      BY <1>1, <2>1, <3>1, <3>2, <3>3, <3>5 DEF CompleteLen
    <3> QED
      BY <3>4, <3>5
  <2>4. CASE Finish \/ Rename
    <3>1. content' = content /\ pos' = pos /\ half' = FALSE
      BY <2>4 DEF Finish, Rename, tailVars
    <3> QED
      BY <1>1, <2>1, <2>2, <3>1 DEF CompleteLen
  <2>5. CASE Appear
    <3>1. content'[following] = content[following] /\ pos' = pos
          /\ ~half /\ half' = half
      BY <2>1, <2>5, AppearLines DEF Appear, tailVars, FilesInOrder
    <3> QED
      BY <1>1, <2>1, <3>1 DEF CompleteLen
  <2>6. CASE Truncate
    <3>1. /\ content'[name] = <<>> /\ ~half /\ half' = half
          /\ \A f \in Files \ {name} : content'[f] = content[f]
          /\ pos' = IF following = name THEN 0 ELSE pos
      BY <2>6, TruncateLines DEF Truncate
    <3>2. CASE following = name
      BY <1>1, <3>1, <3>2 DEF CompleteLen
    <3>3. CASE following # name
      BY <1>1, <2>1, <3>1, <3>3 DEF CompleteLen
    <3> QED
      BY <3>2, <3>3
  <2> QED
    BY <2>3, <2>4, <2>5, <2>6 DEF FileStep
<1>4. ASSUME phase = "running", NEW f \in Files', NEW i \in Numbers(f)',
             Ahead(f, i)'
      PROVE  /\ inHand < content'[f][i]
             /\ \A j \in DOMAIN counted : counted[j] < content'[f][i]
  <2>1. inHand <= written /\ \A j \in DOMAIN counted : counted[j] <= written
    BY DEF ReadInOrder
  <2>2. CASE content'[f][i] = written + 1
    BY <1>2, <2>1, <2>2
  <2>3. CASE f \in Files /\ i \in Numbers(f) /\ content'[f][i] = content[f][i]
             /\ Ahead(f, i)
    BY <1>4, <2>3 DEF ReadInOrder
  <2> QED
    BY <1>4, <2>2, <2>3, AheadKept
<1>5. /\ phase \in {"starting", "attaching"} =>
           following = None /\ inHand = None /\ counted = <<>>
      /\ phase = "running" => following # None
      /\ inHand <= written'
      /\ \A i \in DOMAIN counted :
            /\ counted[i] <= written'
            /\ inHand # None => counted[i] < inHand
            /\ \A j \in DOMAIN counted : i < j => counted[i] < counted[j]
  BY <1>2 DEF ReadInOrder
<1> QED
  BY <1>1, <1>3, <1>4, <1>5 DEF ReadInOrder

(* The tailer passes the oldest line ahead of it, and goes on with the     *)
(* youngest file only when nothing of the file it has is left.             *)
LEMMA RunStepRead ==
  ASSUME TailInv, RunStep
  PROVE  ReadInOrder'
<1> USE DEF TailInv
<1>1. /\ UNCHANGED <<content, name, half, written>>
      /\ UNCHANGED <<Files>> /\ \A f : Numbers(f)' = Numbers(f)
      /\ \A f : CompleteLen(f)' = CompleteLen(f)
  BY RunFrame DEF Files, Numbers, CompleteLen
<1>2. CASE Stat \/ Stop
  <2>1. /\ UNCHANGED <<following, pos, inHand, counted>>
        /\ phase' \in {"attaching", "stopped"}
        /\ phase' = "attaching" => phase = "starting"
    BY <1>2 DEF Stat, Stop, tailVars
  <2>2. phase' # "running"
    BY <2>1
  <2>3. phase' \in {"starting", "attaching"} =>
           following' = None /\ inHand' = None /\ counted' = <<>>
    BY <2>1 DEF ReadInOrder
  <2>4. /\ inHand' <= written'
        /\ \A i \in DOMAIN counted' :
             /\ counted'[i] <= written'
             /\ inHand' # None => counted'[i] < inHand'
             /\ \A j \in DOMAIN counted' : i < j => counted'[i] < counted'[j]
    BY <1>1, <2>1 DEF ReadInOrder
  <2> QED
    BY <2>2, <2>3, <2>4 DEF ReadInOrder
<1>3. CASE Attach
  <2>1. /\ phase = "attaching" /\ phase' = "running" /\ name \in Files
        /\ following' = name /\ name # None
        /\ UNCHANGED <<inHand, counted>>
    BY <1>3 DEF Attach, TailTypeOK, Files, None
  <2>2. inHand = None /\ counted = <<>> /\ written \in Nat
    BY <2>1 DEF ReadInOrder, TailTypeOK
  <2>3. pos' <= CompleteLen(name)
    BY <1>3, <2>1, CompleteLines DEF Attach
  <2>4. \A f \in Files : \A i \in Numbers(f) : 0 < content[f][i]
    BY DEF FilesInOrder
  <2> QED
    BY <1>1, <2>1, <2>2, <2>3, <2>4 DEF ReadInOrder, None
<1>4. CASE Receive
  <2>1. /\ phase = "running" /\ following \in Files /\ inHand = None
        /\ UNCHANGED <<phase, following, counted>>
    BY <1>4, Received
  <2>2. PICK k : k = pos + 1
    OBVIOUS
  <2>3. /\ k \in Numbers(following) /\ k <= CompleteLen(following)
        /\ inHand' = content[following][k] /\ pos' = k /\ pos \in Nat
    BY <1>4, <2>2, Received
  <2>4. Ahead(following, k)
    BY <1>4, <2>2, Received
  <2>5. /\ inHand' <= written
        /\ \A j \in DOMAIN counted : counted[j] < inHand'
    BY <2>1, <2>3, <2>4 DEF ReadInOrder, FilesInOrder
  <2>6. ASSUME NEW f \in Files, NEW i \in Numbers(f), Ahead(f, i)'
        PROVE  inHand' < content[f][i] /\ Ahead(f, i)
    <3>1. i \in Int /\ f \in Int /\ k \in Int /\ following \in Int
      BY <2>1, <2>3, <2>6 DEF Numbers, Files, TailTypeOK
    <3>2. Ahead(f, i)
      BY <2>1, <2>2, <2>3, <2>6, <3>1 DEF Ahead
    <3>3. CASE f = following
      <4>1. k < i /\ i \in Numbers(following)
        BY <2>1, <2>3, <2>6, <3>1, <3>3 DEF Ahead
      <4>2. content[following][k] < content[following][i]
        BY <2>1, <2>3, <4>1 DEF FilesInOrder
      <4> QED
        BY <2>3, <3>2, <3>3, <4>2
    <3>4. CASE f > following
      <4>1. content[following][k] < content[f][i]
        BY <2>1, <2>3, <2>6, <3>1, <3>4 DEF FilesInOrder
      <4> QED
        BY <2>3, <3>2, <4>1
    <3> QED
      BY <2>1, <2>6, <3>2, <3>3, <3>4 DEF Ahead
  <2> QED
    BY <1>1, <2>1, <2>3, <2>5, <2>6 DEF ReadInOrder
<1>5. CASE Consume
  <2>1. /\ inHand # None /\ inHand' = None /\ counted' = Append(counted, inHand)
        /\ UNCHANGED <<phase, following, pos>>
    BY <1>5 DEF Consume, runVars, tailVars
  <2>2. /\ counted \in Seq(Nat) /\ Len(counted) \in Nat
        /\ DOMAIN counted = 1..Len(counted)
        /\ DOMAIN counted' = 1..(Len(counted) + 1)
        /\ counted'[Len(counted) + 1] = inHand
        /\ \A i \in DOMAIN counted : counted'[i] = counted[i]
    BY <2>1, AppendProperties DEF TailTypeOK
  <2>3. inHand <= written /\ written \in Nat /\ inHand \in Nat
    BY DEF ReadInOrder, TailTypeOK
  <2>4. ASSUME NEW i \in DOMAIN counted'
        PROVE  /\ counted'[i] <= written /\ counted'[i] <= inHand
               /\ \A j \in DOMAIN counted' : i < j => counted'[i] < counted'[j]
    <3>1. i \in DOMAIN counted \/ i = Len(counted) + 1
      BY <2>2, <2>4
    <3>2. CASE i \in DOMAIN counted
      <4>1. counted'[i] = counted[i] /\ counted[i] < inHand
            /\ counted[i] <= written /\ counted[i] \in Nat
        BY <2>1, <2>2, <3>2 DEF ReadInOrder
      <4>2. ASSUME NEW j \in DOMAIN counted', i < j
            PROVE  counted'[i] < counted'[j]
        <5>1. CASE j \in DOMAIN counted
          BY <2>2, <3>2, <4>2, <5>1 DEF ReadInOrder
        <5>2. CASE j = Len(counted) + 1
          BY <2>2, <4>1, <5>2
        <5> QED
          BY <2>2, <4>2, <5>1, <5>2
      <4> QED
        BY <2>3, <4>1, <4>2
    <3>3. CASE i = Len(counted) + 1
      BY <2>2, <2>3, <3>3
    <3> QED
      BY <3>1, <3>2, <3>3
  <2>5. phase # "starting" /\ phase # "attaching"
    BY <2>1 DEF ReadInOrder
  <2>6. ASSUME phase = "running", NEW f \in Files, NEW i \in Numbers(f),
               Ahead(f, i)
        PROVE  0 < content[f][i] /\ \A j \in DOMAIN counted' : counted'[j] < content[f][i]
    <3>1. inHand < content[f][i] /\ 0 < content[f][i]
          /\ \A j \in DOMAIN counted : counted[j] < content[f][i]
      BY <2>6 DEF ReadInOrder, FilesInOrder
    <3> QED
      BY <2>2, <3>1
  <2> QED
    BY <1>1, <2>1, <2>3, <2>4, <2>5, <2>6 DEF ReadInOrder, Ahead, None
<1>6. CASE ReOpen
  <2>1. /\ phase = "running" /\ following' = name /\ pos' = 0
        /\ name \in Files /\ name # None
        /\ UNCHANGED <<phase, inHand, counted>>
    BY <1>6, ReOpened
  <2>2. \A f \in Files : \A i \in Numbers(f) : Ahead(f, i)' => Ahead(f, i)
    BY <1>6, ReOpened
  <2>3. 0 <= CompleteLen(name)
    BY <2>1, CompleteLines
  <2> QED
    BY <1>1, <2>1, <2>2, <2>3 DEF ReadInOrder
<1> QED
  BY <1>2, <1>3, <1>4, <1>5, <1>6 DEF RunStep

(* The invariant is inductive. *)
LEMMA TailStep == TailInv /\ [Next]_vars => TailInv'
<1> SUFFICES ASSUME TailInv, [Next]_vars PROVE TailInv'
  OBVIOUS
<1>1. CASE UNCHANGED vars
  <2>1. ReadInOrder'
    BY <1>1 DEF vars, fileVars, tailVars, runVars, TailInv, ReadInOrder, Ahead,
       Files, Numbers, CompleteLen
  <2> QED
    BY <2>1, TailTypeStep, FilesStep DEF TailInv
<1> QED
  BY <1>1, TailTypeStep, FilesStep, FileStepRead, RunStepRead, TailCases
  DEF TailInv

(* "No line is lost and none is counted twice", the second half: the lines *)
(* are counted in the order they were written, whatever rotations,         *)
(* half-written lines and slow readers there are.                          *)
THEOREM CountedInOrderCorrect == Spec => []CountedInOrder
<1>1. TailInv => CountedInOrder
  BY DEF TailInv, ReadInOrder, CountedInOrder
<1> QED
  BY <1>1, TailInit, TailStep, PTL DEF Spec
-----------------------------------------------------------------------------
(* The past. *)

(* No line of the past is ahead of the tailer or behind it: it begins      *)
(* behind the complete lines that Stat found, and the rest of a line that  *)
(* was half written then is not of the past.                               *)
PastBehind ==
    /\ past \subseteq 1..written
    /\ location \in {"start", "end"}
    /\ half => content[name][Len(content[name])] \notin past
    /\ phase = "starting" => past = {}
    /\ phase = "attaching" /\ location = "start" => past = {}
    /\ inHand \notin past
    /\ \A i \in DOMAIN counted : counted[i] \notin past
    /\ phase = "running" =>
          \A f \in Files : \A i \in Numbers(f) :
             Ahead(f, i) => content[f][i] \notin past

(* A line written now is none of the past. *)
LEMMA FileStepPast ==
  ASSUME TailInv, PastBehind, FileStep
  PROVE  PastBehind'
<1>1. UNCHANGED <<phase, location, inHand, counted, past>>
  BY FileFrame
<1>2. /\ written \in Nat /\ written' \in Nat /\ written <= written'
      /\ written + 1 \notin past
  <2>1. written \in Nat /\ (written' = written \/ written' = written + 1)
    BY DEF FileStep, Begin, Finish, Appear, Rename, Truncate, TailInv, TailTypeOK
  <2> QED
    BY <2>1 DEF PastBehind
<1>3. past \subseteq 1..written'
  BY <1>2 DEF PastBehind
<1>4. half' => content'[name'][Len(content'[name'])] \notin past
  <2>1. ASSUME NEW part \in BOOLEAN, Begin(part)
        PROVE  content'[name'][Len(content'[name'])] = written + 1
    BY <2>1, BeginLines DEF Begin
  <2>2. CASE Finish \/ Appear \/ Rename \/ Truncate
    BY <2>2 DEF Finish, Appear, Rename, Truncate, TailInv, FilesInOrder
  <2> QED
    BY <1>2, <2>1, <2>2 DEF FileStep
<1>5. ASSUME phase = "running", NEW f \in Files', NEW i \in Numbers(f)',
             Ahead(f, i)'
      PROVE  content'[f][i] \notin past
  BY <1>2, <1>5, AheadKept DEF PastBehind
<1> QED
  BY <1>1, <1>3, <1>4, <1>5 DEF PastBehind

(* What Run finds when it looks for the log, and where it begins. *)
LEMMA RunStepPast ==
  ASSUME TailInv, PastBehind, RunStep
  PROVE  PastBehind'
<1>1. /\ UNCHANGED <<content, name, half, written>>
      /\ UNCHANGED <<Files>> /\ \A f : Numbers(f)' = Numbers(f)
  BY RunFrame DEF Files, Numbers
<1>2. CASE Stat
  <2>1. /\ phase = "starting" /\ phase' = "attaching"
        /\ location' = IF name # None THEN "end" ELSE "start"
        /\ past' = IF name # None THEN Range(Complete(name)) ELSE {}
        /\ UNCHANGED <<inHand, counted>>
    BY <1>2 DEF Stat, LocationOf
  <2>2. inHand = None /\ counted = <<>>
    BY <2>1 DEF TailInv, ReadInOrder
  <2>3. ASSUME name # None, NEW x \in past'
        PROVE  /\ x \in 1..written
               /\ half => x # content[name][Len(content[name])]
    <3>1. name \in Files /\ written \in Nat /\ Len(content[name]) \in Nat
          /\ content[name] \in Seq(Nat)
      BY <2>3 DEF TailInv, TailTypeOK, Files, None
    <3>2. /\ DOMAIN Complete(name) = 1..CompleteLen(name)
          /\ CompleteLen(name) \in Nat /\ CompleteLen(name) <= Len(content[name])
          /\ \A i \in 1..CompleteLen(name) : Complete(name)[i] = content[name][i]
      BY <3>1, CompleteLines DEF TailInv
    <3>3. PICK i \in 1..CompleteLen(name) : x = content[name][i]
      BY <2>1, <2>3, <3>2 DEF Range
    <3>4. i \in Numbers(name)
      BY <3>1, <3>2, <3>3 DEF Numbers
    <3>5. x \in 1..written
      BY <3>1, <3>3, <3>4 DEF TailInv, FilesInOrder, Numbers
    <3>6. ASSUME half PROVE x # content[name][Len(content[name])]
      <4>1. i < Len(content[name])
        BY <3>1, <3>3, <3>6 DEF CompleteLen
      <4>2. Len(content[name]) \in Numbers(name)
        BY <3>1, <3>4, <4>1 DEF Numbers
      <4>3. content[name][i] < content[name][Len(content[name])]
        BY <3>1, <3>4, <4>1, <4>2 DEF TailInv, FilesInOrder
      <4> QED
        BY <3>3, <3>5, <4>3
    <3> QED
      BY <3>5, <3>6
  <2>4. past' \subseteq 1..written /\ None \notin past'
    BY <2>1, <2>3 DEF None
  <2>5. half => content[name][Len(content[name])] \notin past'
    BY <2>3 DEF TailInv, FilesInOrder
  <2> QED
    BY <1>1, <2>1, <2>2, <2>4, <2>5 DEF PastBehind
<1>3. CASE Attach
  <2>1. /\ phase = "attaching" /\ phase' = "running" /\ name \in Files
        /\ name = Len(content) /\ following' = name
        /\ pos' = IF location = "end" THEN Len(Complete(name)) ELSE 0
        /\ UNCHANGED <<inHand, counted, past, location>>
    BY <1>3 DEF Attach, TailInv, TailTypeOK, Files, None, histVars
  <2>2. ASSUME NEW f \in Files, NEW i \in Numbers(f), Ahead(f, i)'
        PROVE  content[f][i] \notin past
    <3>1. CASE past = {}
      BY <3>1
    <3>2. CASE location = "end"
      <4>1. f = name /\ i > CompleteLen(name)
        BY <2>1, <2>2, <3>2, CompleteLines DEF Ahead, Files, TailInv, TailTypeOK
      <4>2. half /\ i = Len(content[name])
        BY <2>1, <2>2, <4>1 DEF CompleteLen, Numbers, TailInv, TailTypeOK, Files
      <4> QED
        BY <4>1, <4>2 DEF PastBehind
    <3> QED
      BY <2>1, <3>1, <3>2 DEF PastBehind
  <2> QED
    BY <1>1, <2>1, <2>2 DEF PastBehind
<1>4. CASE Receive
  <2>1. /\ phase = "running" /\ following \in Files
        /\ UNCHANGED <<phase, following, counted, past, location>>
        /\ pos \in Nat /\ pos + 1 \in Numbers(following) /\ pos' = pos + 1
        /\ inHand' = content[following][pos + 1] /\ Ahead(following, pos + 1)
    BY <1>4, Received
  <2>2. inHand' \notin past
    BY <2>1 DEF PastBehind
  <2>3. \A f \in Files : \A i \in Numbers(f) : Ahead(f, i)' => Ahead(f, i)
    BY <2>1 DEF Ahead, Files, Numbers, TailInv, TailTypeOK
  <2> QED
    BY <1>1, <2>1, <2>2, <2>3 DEF PastBehind
<1>5. CASE Consume
  <2>1. /\ inHand # None /\ inHand' = None /\ counted' = Append(counted, inHand)
        /\ UNCHANGED <<phase, following, pos, past, location>>
    BY <1>5 DEF Consume, runVars, tailVars, histVars
  <2>2. /\ DOMAIN counted = 1..Len(counted) /\ Len(counted) \in Nat
        /\ DOMAIN counted' = 1..(Len(counted) + 1)
        /\ counted'[Len(counted) + 1] = inHand
        /\ \A i \in DOMAIN counted : counted'[i] = counted[i]
    BY <2>1, AppendProperties DEF TailInv, TailTypeOK
  <2>3. \A i \in DOMAIN counted' : counted'[i] \notin past
    BY <2>2 DEF PastBehind
  <2>4. None \notin past
    BY DEF PastBehind, None
  <2> QED
    BY <1>1, <2>1, <2>3, <2>4 DEF PastBehind, Ahead
<1>6. CASE ReOpen
  <2>1. /\ phase = "running"
        /\ UNCHANGED <<phase, inHand, counted, past, location>>
        /\ \A f \in Files : \A i \in Numbers(f) : Ahead(f, i)' => Ahead(f, i)
    BY <1>6, ReOpened
  <2> QED
    BY <1>1, <2>1 DEF PastBehind
<1>7. CASE Stop
  <2>1. /\ phase' = "stopped"
        /\ UNCHANGED <<location, inHand, counted, past>>
    BY <1>7 DEF Stop, histVars
  <2> QED
    BY <1>1, <2>1 DEF PastBehind
<1> QED
  BY <1>2, <1>3, <1>4, <1>5, <1>6, <1>7 DEF RunStep

(* What was in the log before the daemon looked for it stays history,      *)
(* although the log may grow and be rotated before the tailer opens it.    *)
THEOREM HistoryNotCountedCorrect == Spec => []HistoryNotCounted
<1>1. Init => PastBehind
  <2> SUFFICES ASSUME Init PROVE PastBehind
    OBVIOUS
  <2> QED
    BY DEF Init, PastBehind
<1>2. TailInv /\ PastBehind /\ [Next]_vars => PastBehind'
  <2> SUFFICES ASSUME TailInv, PastBehind, [Next]_vars PROVE PastBehind'
    OBVIOUS
  <2>1. CASE UNCHANGED vars
    BY <2>1 DEF vars, fileVars, tailVars, runVars, histVars, PastBehind, Ahead,
       Files, Numbers
  <2> QED
    BY <2>1, FileStepPast, RunStepPast, TailCases
<1>3. PastBehind => HistoryNotCounted
  BY DEF PastBehind, HistoryNotCounted, Range
<1> QED
  BY <1>1, <1>2, <1>3, TailInit, TailStep, PTL DEF Spec
-----------------------------------------------------------------------------
(* What is owed. *)

(* The line x stands behind the n-th one of the file f. *)
LineBehind(f, n, x) == \E i \in Numbers(f) : i > n /\ content[f][i] = x

(* A line that a running tailer has passed, or still comes to: in the file *)
(* it has open, or in the one that log_path names now.                     *)
Reached(x) ==
    \/ x \in Range(counted)
    \/ x = inHand
    \/ LineBehind(following, pos, x)
    \/ name # None /\ name # following /\ LineBehind(name, 0, x)

(* No line is owed that the tailer does not come to, and while it has not  *)
(* opened the log only the lines of one that it reads from the beginning.  *)
OwedInv ==
    /\ None \notin owed
    /\ phase = "starting" => owed = {}
    /\ phase = "attaching" =>
          /\ fresh => location = "start"
          /\ owed # {} => fresh /\ name # None
          /\ \A x \in owed : LineBehind(name, 0, x)
    /\ phase = "running" => \A x \in owed : Reached(x)

(* Only copytruncate takes lines away. *)
LEMMA LinesKept ==
  ASSUME TailInv, FileStep, NEW f \in Files, ~(Truncate /\ f = name),
         NEW n, NEW x, LineBehind(f, n, x)
  PROVE  \E i \in 1..Len(content'[f]) : i > n /\ content'[f][i] = x
<1> USE DEF TailInv
<1>1. PICK i \in Numbers(f) : i > n /\ content[f][i] = x
  BY DEF LineBehind
<1>2. i \in 1..Len(content'[f]) /\ content'[f][i] = content[f][i]
  <2>1. f \in 1..Len(content) /\ Len(content) \in Nat /\ i \in 1..Len(content[f])
        /\ Len(content[f]) \in Nat
    BY <1>1 DEF Files, Numbers, TailTypeOK
  <2>2. ASSUME NEW part \in BOOLEAN, Begin(part)
        PROVE  i \in 1..Len(content'[f]) /\ content'[f][i] = content[f][i]
    <3>1. CASE f = name
      BY <1>1, <2>1, <2>2, <3>1, BeginLines
    <3>2. CASE f # name
      BY <2>1, <2>2, <3>2, BeginLines
    <3> QED
      BY <3>1, <3>2
  <2>3. CASE Finish \/ Rename
    BY <1>1, <2>1, <2>3 DEF Finish, Rename
  <2>4. CASE Appear
    BY <1>1, <2>1, <2>4, AppearLines
  <2>5. CASE Truncate
    BY <1>1, <2>1, <2>5, TruncateLines
  <2> QED
    BY <2>2, <2>3, <2>4, <2>5 DEF FileStep
<1> QED
  BY <1>1, <1>2

(* A line written now lies ahead; those that a rotation takes away from    *)
(* the tailer are not owed any more.                                       *)
LEMMA FileStepOwed ==
  ASSUME TailInv, OwedInv, FileStep
  PROVE  OwedInv'
<1> USE DEF TailInv, None
<1>1. /\ UNCHANGED <<phase, location, following, inHand, counted, fresh>>
      /\ pos' = pos \/ (pos' = 0 /\ following = name /\ Truncate)
  BY FileFrame DEF FileStep, Begin, Finish, Appear, Rename, Truncate, histVars
<1>2. /\ name # None => name \in Files
      /\ phase = "running" => following \in Files
  BY DEF TailTypeOK, ReadInOrder, Files
(* Except for copytruncate, what was ahead of the tailer stays there.      *)
<1>3. ASSUME ~Truncate, phase = "running", NEW x \in owed,
             name' = name \/ name = None \/ following = name
      PROVE  Reached(x)'
  <2>1. PICK p, f : p = pos /\ f = following
    OBVIOUS
  <2>2. pos' = p /\ following' = f /\ f \in Files
    BY <1>1, <1>2, <1>3, <2>1
  <2>3. CASE x \in Range(counted) \/ x = inHand
    BY <1>1, <2>3 DEF Reached
  <2>4. CASE LineBehind(f, p, x)
    <3>1. \E i \in 1..Len(content'[f]) : i > p /\ content'[f][i] = x
      BY <1>3, <2>2, <2>4, LinesKept
    <3> QED
      BY <2>2, <3>1 DEF Reached, LineBehind, Numbers
  <2>5. CASE name # None /\ name # following /\ LineBehind(name, 0, x)
    <3>1. PICK g : g = name
      OBVIOUS
    <3>2. name' = g /\ g # None /\ g # following' /\ g \in Files
      BY <1>1, <1>2, <1>3, <2>5, <3>1
    <3>3. \E i \in 1..Len(content'[g]) : i > 0 /\ content'[g][i] = x
      BY <1>3, <2>5, <3>1, <3>2, LinesKept
    <3> QED
      BY <3>2, <3>3 DEF Reached, LineBehind, Numbers
  <2> QED
    BY <1>3, <2>1, <2>3, <2>4, <2>5 DEF OwedInv, Reached
<1>4. ASSUME NEW part \in BOOLEAN, Begin(part) PROVE OwedInv'
  <2>1. PICK g, last, x : g = name /\ last = Len(content[name]) + 1
                            /\ x = written + 1
    OBVIOUS
  <2>2. /\ owed' = IF Owing THEN owed \cup {x} ELSE owed
        /\ name' = g /\ g # None /\ pos' = pos /\ ~Truncate /\ g \in Files
        /\ Len(content'[g]) = last /\ content'[g][last] = x
    BY <1>2, <1>4, <2>1, BeginLines DEF Begin, Truncate, tailVars
  <2>3. /\ last \in Nat /\ last > 0 /\ x # None
        /\ phase = "running" /\ following = g => pos < last
    <3>1. Len(content[g]) \in Nat /\ written \in Nat /\ pos \in Nat
      BY <2>2 DEF TailTypeOK, Files
    <3>2. CompleteLen(g) <= Len(content[g]) /\ CompleteLen(g) \in Nat
      BY <2>2, CompleteLines
    <3>3. phase = "running" /\ following = g => pos <= CompleteLen(g)
      BY DEF ReadInOrder
    <3> QED
      BY <2>1, <3>1, <3>2, <3>3
  <2>4. phase = "running" => Reached(x)'
    BY <1>1, <2>2, <2>3 DEF Reached, LineBehind, Numbers
  <2>5. ASSUME phase = "attaching", NEW y \in owed'
        PROVE  LineBehind(name, 0, y)'
    <3>1. CASE y = x
      BY <2>2, <2>3, <3>1 DEF LineBehind, Numbers
    <3>2. CASE y \in owed
      <4>1. LineBehind(g, 0, y)
        BY <2>1, <2>5, <3>2 DEF OwedInv
      <4>2. \E i \in 1..Len(content'[g]) : i > 0 /\ content'[g][i] = y
        BY <2>2, <4>1, <2>1, LinesKept
      <4> QED
        BY <2>2, <2>1, <4>2 DEF LineBehind, Numbers
    <3> QED
      BY <2>2, <2>5, <3>1, <3>2
  <2>6. phase = "running" => \A y \in owed' : Reached(y)'
    BY <1>3, <2>1, <2>2, <2>4
  <2> QED
    BY <1>1, <2>1, <2>2, <2>3, <2>5, <2>6 DEF OwedInv, Owing
<1>5. CASE Finish \/ Appear
  <2>1. owed' = owed /\ (name' = name \/ name = None) /\ ~Truncate
    BY <1>5 DEF Finish, Appear, Truncate, histVars
  <2>2. phase = "running" => \A x \in owed' : Reached(x)'
    BY <1>3, <2>1
  <2>3. ASSUME phase = "attaching", NEW x \in owed'
        PROVE  name' = name /\ name # None /\ LineBehind(name, 0, x)'
    <3>1. PICK g : g = name
      OBVIOUS
    <3>2. name' = g /\ g # None /\ g \in Files /\ LineBehind(g, 0, x)
      BY <1>2, <2>1, <2>3, <3>1 DEF OwedInv
    <3>3. \E i \in 1..Len(content'[g]) : i > 0 /\ content'[g][i] = x
      BY <2>1, <3>2, LinesKept
    <3> QED
      BY <3>1, <3>2, <3>3 DEF LineBehind, Numbers
  <2> QED
    BY <1>1, <2>1, <2>2, <2>3 DEF OwedInv
<1>6. CASE Rename
  <2>1. /\ owed' = IF following = name THEN owed
                   ELSE owed \ Range(content[name])
        /\ content' = content /\ pos' = pos /\ name' = None /\ name # None
    BY <1>6 DEF Rename, tailVars
  <2>2. \A x : LineBehind(name, 0, x) => x \in Range(content[name])
    <3>1. content[name] \in Seq(Nat)
      BY <1>2, <2>1 DEF TailTypeOK, Files
    <3> QED
      BY <3>1 DEF LineBehind, Numbers, Range
  <2>3. ASSUME phase = "running", NEW x \in owed' PROVE Reached(x)'
    <3>1. Reached(x)
      BY <2>1, <2>3 DEF OwedInv
    <3>2. ~(name # following /\ LineBehind(name, 0, x))
      BY <2>1, <2>2, <2>3
    <3> QED
      BY <1>1, <2>1, <3>1, <3>2 DEF Reached, LineBehind, Numbers
  <2>4. phase = "attaching" => owed' = {}
    <3>1. phase = "attaching" => following = None
      BY DEF ReadInOrder
    <3> QED
      BY <2>1, <2>2, <3>1 DEF OwedInv
  <2> QED
    BY <1>1, <2>1, <2>3, <2>4 DEF OwedInv
<1>7. CASE Truncate
  <2>1. PICK g : g = name
    OBVIOUS
  <2>2. /\ owed' = owed \ (Range(content[g]) \ (Range(counted) \cup {inHand}))
        /\ name' = g /\ g # None /\ g \in Files
        /\ pos' = IF following = g THEN 0 ELSE pos
        /\ \A f \in Files \ {g} : content'[f] = content[f]
    BY <1>2, <1>7, <2>1, TruncateLines DEF Truncate
  <2>3. \A n, x : LineBehind(g, n, x) => x \in Range(content[g])
    <3>1. content[g] \in Seq(Nat)
      BY <2>2 DEF TailTypeOK, Files
    <3> QED
      BY <3>1 DEF LineBehind, Numbers, Range
  <2>4. ASSUME phase = "running", NEW x \in owed' PROVE Reached(x)'
    <3>1. Reached(x)
      BY <2>2, <2>4 DEF OwedInv
    <3>2. CASE x \in Range(counted) \/ x = inHand
      BY <1>1, <3>2 DEF Reached
    <3>3. CASE ~(x \in Range(counted) \/ x = inHand)
      <4>1. following # g /\ LineBehind(following, pos, x)
        BY <2>1, <2>2, <2>3, <2>4, <3>1, <3>3 DEF Reached
      <4>2. content'[following] = content[following] /\ pos' = pos
        BY <1>2, <2>2, <2>4, <4>1
      <4> QED
        BY <1>1, <4>1, <4>2 DEF Reached, LineBehind, Numbers
    <3> QED
      BY <3>2, <3>3
  <2>5. phase = "attaching" => owed' = {}
    <3>1. phase = "attaching" => inHand = None /\ counted = <<>>
      BY DEF ReadInOrder
    <3>2. counted = <<>> => Range(counted) = {}
      BY DEF Range
    <3> QED
      BY <2>1, <2>2, <2>3, <3>1, <3>2 DEF OwedInv
  <2> QED
    BY <1>1, <2>2, <2>4, <2>5 DEF OwedInv
<1> QED
  BY <1>4, <1>5, <1>6, <1>7 DEF FileStep

(* The tailer passes no line without handing it over, and leaves a file    *)
(* behind for the next one only at its end.                                *)
LEMMA RunStepOwed ==
  ASSUME TailInv, OwedInv, RunStep
  PROVE  OwedInv'
<1> USE DEF TailInv, None
<1>1. UNCHANGED <<content, name, half, written>>
  BY RunFrame
<1>2. /\ name # None => name \in Files
      /\ phase = "running" => following \in Files
  BY DEF TailTypeOK, ReadInOrder, Files
<1>3. CASE Stat
  <2>1. /\ phase = "starting" /\ phase' = "attaching" /\ owed' = owed
    BY <1>3 DEF Stat
  <2>2. owed = {} /\ (fresh' => location' = "start")
    BY <1>3, <2>1 DEF Stat, LocationOf, OwedInv
  <2> QED
    BY <2>1, <2>2 DEF OwedInv
<1>4. CASE Attach
  <2>1. /\ phase = "attaching" /\ phase' = "running" /\ following' = name
        /\ location = "start" => pos' = 0
        /\ owed' = owed
    BY <1>4 DEF Attach, histVars
  <2>2. ASSUME NEW x \in owed PROVE Reached(x)'
    <3>1. pos' = 0 /\ LineBehind(name, 0, x)
      BY <2>1, <2>2 DEF OwedInv
    <3> QED
      BY <1>1, <2>1, <3>1 DEF Reached, LineBehind, Numbers
  <2> QED
    BY <2>1, <2>2 DEF OwedInv
<1>5. CASE Receive
  <2>1. PICK k, f : k = pos + 1 /\ f = following
    OBVIOUS
  <2>2. /\ phase = "running" /\ f \in Files /\ inHand = None
        /\ phase' = phase /\ following' = f /\ counted' = counted
        /\ pos \in Nat /\ k \in Numbers(f)
        /\ inHand' = content[f][k] /\ pos' = k
    BY <1>5, <2>1, Received
  <2>3. owed' = owed
    BY <1>5 DEF Receive, histVars
  <2>4. ASSUME NEW x \in owed PROVE Reached(x)'
    <3>1. Reached(x) /\ x # inHand
      BY <2>2, <2>4 DEF OwedInv
    <3>2. CASE LineBehind(following, pos, x)
      <4>1. PICK i \in Numbers(f) : i > pos /\ content[f][i] = x
        BY <2>1, <3>2 DEF LineBehind
      <4>2. i = k \/ i > k
        BY <2>1, <2>2, <4>1 DEF Numbers
      <4> QED
        BY <1>1, <2>2, <4>1, <4>2 DEF Reached, LineBehind, Numbers
    <3>3. CASE ~LineBehind(following, pos, x)
      BY <1>1, <2>1, <2>2, <3>1, <3>3 DEF Reached, LineBehind, Numbers
    <3> QED
      BY <3>2, <3>3
  <2> QED
    BY <2>2, <2>3, <2>4 DEF OwedInv
<1>6. CASE Consume
  <2>1. /\ inHand # None /\ inHand' = None /\ counted' = Append(counted, inHand)
        /\ UNCHANGED <<phase, location, following, pos, fresh, owed>>
    BY <1>6 DEF Consume, runVars, tailVars, histVars
  <2>2. Range(counted) \cup {inHand} \subseteq Range(counted')
    <3>1. /\ DOMAIN counted = 1..Len(counted) /\ Len(counted) \in Nat
          /\ DOMAIN counted' = 1..(Len(counted) + 1)
          /\ counted'[Len(counted) + 1] = inHand
          /\ \A i \in DOMAIN counted : counted'[i] = counted[i]
      BY <2>1, AppendProperties DEF TailTypeOK
    <3> QED
      BY <3>1 DEF Range
  <2>3. ASSUME NEW x \in owed, Reached(x) PROVE Reached(x)'
    BY <1>1, <2>1, <2>2, <2>3 DEF Reached, LineBehind, Numbers
  <2>4. phase # "attaching"
    BY <2>1 DEF ReadInOrder
  <2> QED
    BY <2>1, <2>3, <2>4 DEF OwedInv
<1>7. CASE ReOpen
  <2>1. /\ phase = "running" /\ following' = name /\ pos' = 0
        /\ name \in Files /\ name # None /\ name # following
        /\ pos = Len(content[following])
        /\ UNCHANGED <<phase, inHand, counted, owed>>
    BY <1>2, <1>7, ReOpened DEF ReOpen, Files, histVars
  <2>2. ASSUME NEW x \in owed PROVE Reached(x)'
    <3>1. Reached(x)
      BY <2>1, <2>2 DEF OwedInv
    <3>2. ~LineBehind(following, pos, x)
      BY <1>2, <2>1 DEF LineBehind, Numbers, TailTypeOK, Files
    <3> QED
      BY <1>1, <2>1, <3>1, <3>2 DEF Reached, LineBehind, Numbers
  <2> QED
    BY <2>1, <2>2 DEF OwedInv
<1>8. CASE Stop
  <2>1. phase' = "stopped" /\ owed' = owed
    BY <1>8 DEF Stop, histVars
  <2> QED
    BY <2>1 DEF OwedInv
<1> QED
  BY <1>3, <1>4, <1>5, <1>6, <1>7, <1>8 DEF RunStep

(* "No line is lost and none is counted twice", the first half: a tailer   *)
(* that has come to the end of the log has counted every line written      *)
(* while it had it, and every line of a log that appeared after the start. *)
THEOREM NoneMissedCorrect == Spec => []NoneMissed
<1>1. Init => OwedInv
  BY DEF Init, OwedInv, None
<1>2. TailInv /\ OwedInv /\ [Next]_vars => OwedInv'
  <2> SUFFICES ASSUME TailInv, OwedInv, [Next]_vars PROVE OwedInv'
    OBVIOUS
  <2>1. CASE UNCHANGED vars
    BY <2>1 DEF vars, fileVars, tailVars, runVars, histVars, OwedInv, Reached,
       LineBehind, Numbers
  <2> QED
    BY <2>1, FileStepOwed, RunStepOwed, TailCases
<1>3. TailInv /\ OwedInv => NoneMissed
  <2> SUFFICES ASSUME TailInv, OwedInv, CaughtUp, NEW x \in owed
               PROVE  x \in Range(counted)
    BY DEF NoneMissed
  <2>1. /\ phase = "running" /\ inHand = None /\ following = name
        /\ following \in Files /\ pos = Len(content[following])
    BY DEF CaughtUp, TailInv, ReadInOrder, TailTypeOK, Files, None
  <2>2. Reached(x) /\ x # inHand
    BY <2>1 DEF OwedInv
  <2>3. ~LineBehind(following, pos, x)
    BY <2>1 DEF LineBehind, Numbers, TailInv, TailTypeOK, Files
  <2> QED
    BY <2>1, <2>2, <2>3 DEF Reached
<1> QED
  BY <1>1, <1>2, <1>3, TailInit, TailStep, PTL DEF Spec
=============================================================================
