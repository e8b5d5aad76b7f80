------------------------------ MODULE Counter ------------------------------
(***************************************************************************)
(* The in-memory buffer of internal/counter/counter.go: increments found   *)
(* in the log since the last flush, and the totals since the process       *)
(* started.  Every operation holds Counter.mu from its first access to its *)
(* last, so each of them is one atomic step.                               *)
(*                                                                         *)
(* A log line is the set of words it contains: `match' returns a word at   *)
(* most once however often it occurs in the line.                          *)
(***************************************************************************)
EXTENDS Config

VARIABLES
    pending,                \* increments not yet handed to a flush
    matched,                \* matches per word since the start
    lines                   \* log lines processed since the start

counterVars == <<pending, matched, lines>>

CounterTypeOK ==
    /\ pending \in [Actions -> Nat]
    /\ matched \in [Actions -> Nat]
    /\ lines \in Nat

CounterInit == pending = Zero /\ matched = Zero /\ lines = 0

Plus(f, S) == [a \in Actions |-> IF a \in S THEN f[a] + 1 ELSE f[a]]

(* ProcessLine: the line contains exactly the words of S. *)
ProcessLine(S) ==
    /\ pending' = Plus(pending, S)
    /\ matched' = Plus(matched, S)
    /\ lines' = lines + 1

(* Drain: the caller takes `pending' as it is before this step. *)
Drain ==
    /\ pending' = Zero
    /\ UNCHANGED <<matched, lines>>

(* Mutant of Restore: what accumulated meanwhile is overwritten. *)
RestoreOverwrites(d) ==
    /\ pending' = d
    /\ UNCHANGED <<matched, lines>>

(* Restore adds to what accumulated meanwhile; the totals do not move. *)
Restore(d) ==
    /\ pending' = [a \in Actions |-> pending[a] + d[a]]
    /\ UNCHANGED <<matched, lines>>
=============================================================================
