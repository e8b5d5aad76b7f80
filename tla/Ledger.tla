------------------------------- MODULE Ledger -------------------------------
(***************************************************************************)
(* What the counting path promises, whatever the buffering, the retries    *)
(* and the outages: a match is owed until it is posted to the counter in   *)
(* Redis, it is not forgotten while the process lives, and - unless        *)
(* Duplicates says that the transport can hide from the client what the    *)
(* server did, or repeat it - it is posted once.                           *)
(***************************************************************************)
EXTENDS Integers

CONSTANTS
    Actions,                \* the code words
    Duplicates              \* may a posted increment stay owed?

VARIABLES
    owed,                   \* matches the process has not posted, per word
    counted,                \* the counter readers of Redis see, per word
    alive                   \* "yes" while the process runs

ledgerVars == <<owed, counted, alive>>

Init ==
    /\ owed = [a \in Actions |-> 0]
    /\ counted \in [Actions -> Nat]
    /\ alive = "yes"

(* A line with the words of S is observed. *)
Observe(S) ==
    /\ alive = "yes"
    /\ owed' = [a \in Actions |-> IF a \in S THEN owed[a] + 1 ELSE owed[a]]
    /\ UNCHANGED <<counted, alive>>

(* All or part of what is owed for a reaches the counter. *)
Post(a, n) ==
    /\ alive = "yes"
    /\ counted' = [counted EXCEPT ![a] = @ + n]
    /\ owed' = [owed EXCEPT ![a] = @ - n]
    /\ UNCHANGED alive

(* It reaches the counter and the process does not know: it will post it   *)
(* again, and if the transport repeats the increment on its own, a Post    *)
(* that follows takes from `owed' what has then been counted twice.        *)
PostUnnoticed(a, n) ==
    /\ Duplicates
    /\ alive = "yes"
    /\ counted' = [counted EXCEPT ![a] = @ + n]
    /\ UNCHANGED <<owed, alive>>

(* A reset, by the schedule or by `logstat clear'. *)
SetToZero(a) ==
    /\ counted' = [counted EXCEPT ![a] = 0]
    /\ UNCHANGED <<owed, alive>>

(* Only the end of the process makes it forget what it owes. *)
End ==
    /\ alive = "yes"
    /\ alive' = "no"
    /\ owed' = [a \in Actions |-> 0]
    /\ UNCHANGED counted

Start ==
    /\ alive = "no"
    /\ alive' = "yes"
    /\ UNCHANGED <<owed, counted>>

Next ==
    \/ \E S \in SUBSET Actions : Observe(S)
    \/ \E a \in Actions : \E n \in 1..owed[a] : Post(a, n) \/ PostUnnoticed(a, n)
    \/ \E a \in Actions : SetToZero(a)
    \/ End
    \/ Start

Spec == Init /\ [][Next]_ledgerVars
=============================================================================
