------------------------------- MODULE Config -------------------------------
(***************************************************************************)
(* The options of internal/config/config.go that the counting path reads,  *)
(* as they are after Validate: `actions' is a non-empty list without       *)
(* duplicates, so a code word is its position in that list, and redis.ttl  *)
(* is not negative.                                                        *)
(***************************************************************************)
EXTENDS Integers

CONSTANTS
    N,                      \* how many code words are configured
    Heartbeat,              \* the heartbeat_key option
    TTL                     \* redis.ttl; 0 switches the expiry off

ASSUME ConfigAssumption ==
    /\ N \in Nat \ {0}
    /\ Heartbeat \in BOOLEAN
    /\ TTL \in Nat

Actions == 1..N

Zero == [a \in Actions |-> 0]
=============================================================================
