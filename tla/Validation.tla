---------------------------- MODULE Validation ----------------------------
(***************************************************************************)
(* internal/config/config.go: Validate and what it calls, run by Load on   *)
(* every configuration of bounded size; and the matching rule of           *)
(* internal/counter/counter.go, which decides what its warnings are about. *)
(*                                                                         *)
(* A string is a sequence of characters.  A letter is a number, its upper  *)
(* case the negative one.  The fields that are only checked, one by one,   *)
(* take values on both sides of each check.                                *)
(***************************************************************************)
EXTENDS Integers, Sequences, FiniteSets

CONSTANTS
    Letters,                \* the letters of words and of log lines
    Capitals,               \* those that also occur in upper case
    MaxWord,                \* bound: characters of a word
    MaxWords,               \* bound: entries of `actions'
    MaxLine,                \* bound: characters of a line
    MaxPath                 \* bound: characters of metrics.path

ASSUME ValidationAssumption ==
    /\ Letters \subseteq Nat \ {0} /\ Capitals \subseteq Letters
    /\ MaxWord \in Nat /\ MaxWords \in Nat /\ MaxPath \in Nat \ {0}
    /\ MaxLine \in Nat /\ MaxLine >= MaxWord

VARIABLES
    cfg,                    \* the Config, normalised once validated
    given,                  \* the Config as it was parsed
    phase,                  \* "parsed", then "accepted" or "rejected"
    errs,                   \* the fields that Validate complains about
    warnings                \* what it warns of

vars == <<cfg, given, phase, errs, warnings>>

Strings(S, n) == UNION {[1..k -> S] : k \in 0..n}

Characters == Letters \cup {-l : l \in Capitals}

Lines == Strings(Characters, MaxLine)

Last(s) == s[Len(s)]

Occurs(s, t) ==
    \E i \in 0..(Len(t) - Len(s)) : SubSeq(t, i + 1, i + Len(s)) = s

Lower(c) == IF c < 0 THEN -c ELSE c

ToLower(s) == [i \in DOMAIN s |-> Lower(s[i])]
-----------------------------------------------------------------------------
(* Matching.                                                               *)

(* Needles of New and Overlaps. *)
Folded(s, caseSensitive) == IF caseSensitive THEN s ELSE ToLower(s)

(* Mutant of Matches: the line is not folded. *)
MatchesAsIs(a, line, caseSensitive) == Occurs(Folded(a, caseSensitive), line)

(* match, for one of the actions. *)
Matches(a, line, caseSensitive) ==
    Occurs(Folded(a, caseSensitive), Folded(line, caseSensitive))

(* Mutant of Overlap: the words are compared as they are spelled. *)
OverlapAsSpelled(i, j, actions, caseSensitive) ==
    IF i # j /\ Occurs(actions[i], actions[j])
    THEN {<<"substring", actions[i], actions[j]>>} ELSE {}

(* Overlaps, for one ordered pair of the list.  Exact duplicates are gone. *)
Overlap(i, j, actions, caseSensitive) ==
    LET a == Folded(actions[i], caseSensitive)
        b == Folded(actions[j], caseSensitive)
    IN  IF i = j THEN {}
        ELSE IF a = b
        THEN IF i < j THEN {<<"case only", actions[i], actions[j]>>} ELSE {}
        ELSE IF Occurs(a, b) THEN {<<"substring", actions[i], actions[j]>>}
        ELSE {}

Overlaps(actions, caseSensitive) ==
    UNION {UNION {Overlap(i, j, actions, caseSensitive) :
                     j \in DOMAIN actions} : i \in DOMAIN actions}
-----------------------------------------------------------------------------
(* Validate.                                                               *)

(* The positions Validate keeps: non-empty and not seen before. *)
Kept(actions) ==
    {i \in DOMAIN actions :
        actions[i] # <<>> /\ \A j \in 1..(i - 1) : actions[j] # actions[i]}

(* Mutant of Unique: equal words are only recognised side by side. *)
UniqueNeighbours(actions) ==
    LET Fresh(i) == actions[i] # <<>> /\ (i = 1 \/ actions[i - 1] # actions[i])
        add[i \in 0..Len(actions)] ==
            IF i = 0 THEN <<>>
            ELSE IF Fresh(i) THEN Append(add[i - 1], actions[i]) ELSE add[i - 1]
    IN  add[Len(actions)]

(* uniq, in the order of the first occurrences. *)
Unique(actions) ==
    LET add[i \in 0..Len(actions)] ==
            IF i = 0 THEN <<>>
            ELSE IF i \in Kept(actions) THEN Append(add[i - 1], actions[i])
            ELSE add[i - 1]
    IN  add[Len(actions)]

(* ValidatePath, on a path over PathCharacters. *)
PathCharacters == {"/", "a", ".", "{", " "}

(* Mutant of PathError: the trailing slash passes. *)
PathErrorButSlash(p) ==
    \/ p = <<>> \/ p[1] # "/"
    \/ \E i \in DOMAIN p : p[i] \in {"{", " "}

PathError(p) ==
    \/ p = <<>> \/ p[1] # "/"
    \/ \E i \in DOMAIN p : p[i] \in {"{", " "}
    \/ p # <<"/">> /\ Last(p) = "/"

(* Metrics.validate: it returns at a bad address, which is one without a   *)
(* numeric port in range, and does not come to the path.                   *)
MetricsErrors(c) ==
    {k \in {"metrics_listen"} : c[k] = "bad"} \cup
    {k \in {"metrics_path"} : c["metrics_listen"] # "bad" /\ PathError(c[k])}

(* The fields with an error, each tested whatever the others hold, except  *)
(* for the path of the exporter and the file of a log that is not one.     *)
FieldErrors(c) ==
    {k \in DOMAIN c :
        \/ k \in {"log_path", "lock_file", "redis_host"} /\ c[k] = "blank"
        \/ k = "actions" /\ (c[k] = <<>> \/ \E i \in DOMAIN c[k] : c[k][i] = <<>>)
        \/ k = "flush_interval" /\ c[k] <= 0
        \/ k = "redis_port" /\ (c[k] < 1 \/ c[k] > 65535)
        \/ k \in {"redis_db", "redis_ttl"} /\ c[k] < 0
        \/ k \in {"logging_level", "logging_output", "reset_schedule"}
              /\ c[k] = "bad"
        \/ k = "logging_file" /\ c[k] = "blank" /\ c["logging_output"] = "file"
        \/ k \in MetricsErrors(c)}

(* Mutant of Errors: Validate returns at the first problem. *)
FirstError(c) ==
    IF FieldErrors(c) = {} THEN {} ELSE {CHOOSE k \in FieldErrors(c) : TRUE}

Errors(c) == FieldErrors(c)

Duplicates(actions) ==
    {<<"duplicate", actions[i]>> :
        i \in {j \in DOMAIN actions \ Kept(actions) : actions[j] # <<>>}}

ExpiryWarning(c) ==
    IF 0 < c.redis_ttl /\ 0 < c.flush_interval
       /\ c.redis_ttl <= c.flush_interval
    THEN {<<"keys may expire between two flushes">>} ELSE {}

Validate ==
    /\ phase = "parsed"
    /\ cfg' = [cfg EXCEPT !.actions = Unique(cfg.actions)]
    /\ warnings' = Duplicates(cfg.actions)
                   \cup Overlaps(cfg'.actions, cfg.case_sensitive)
                   \cup ExpiryWarning(cfg)
    /\ errs' = Errors(cfg)
    /\ phase' = IF errs' = {} THEN "accepted" ELSE "rejected"
    /\ UNCHANGED given

(* The defaults, with a word to count and a log file: every field is good. *)
Good ==
    [log_path |-> "set", actions |-> << <<1>> >>, case_sensitive |-> TRUE,
     flush_interval |-> 10, lock_file |-> "set", redis_host |-> "set",
     redis_port |-> 6379, redis_db |-> 0, redis_ttl |-> 86400,
     logging_level |-> "set", logging_output |-> "journald",
     logging_file |-> "set", reset_schedule |-> "set",
     metrics_listen |-> "set", metrics_path |-> <<"/", "a">>]

(* What Parse may return: a configuration with any words, with any path or *)
(* with anything in the other fields.                                      *)
AnyWords ==
    \E as \in Strings(Strings(Characters, MaxWord), MaxWords), cs \in BOOLEAN :
      given = [Good EXCEPT !.actions = as, !.case_sensitive = cs]

AnyPath ==
    \E p \in Strings(PathCharacters, MaxPath) :
      given = [Good EXCEPT !.metrics_path = p]

AnyFields ==
    given \in [log_path : {"blank", "set"}, actions : {<<>>, << <<1>> >>},
               case_sensitive : BOOLEAN, flush_interval : {0, 1, 10},
               lock_file : {"blank", "set"}, redis_host : {"blank", "set"},
               redis_port : {0, 1, 65535, 65536}, redis_db : {-1, 0},
               redis_ttl : {-1, 0, 10}, logging_level : {"set", "bad"},
               logging_output : {"journald", "file", "bad"},
               logging_file : {"blank", "set"}, reset_schedule : {"set", "bad"},
               metrics_listen : {"set", "bad"},
               metrics_path : {<<"/">>, <<"a">>}]

Init ==
    /\ AnyWords \/ AnyPath \/ AnyFields
    /\ cfg = given
    /\ phase = "parsed" /\ errs = {} /\ warnings = {}

Done == phase # "parsed" /\ UNCHANGED vars

Next == Validate \/ Done

Spec == Init /\ [][Next]_vars
-----------------------------------------------------------------------------
(* http.ServeMux, as NewServer uses it: which requests reach the metrics.  *)

(* A path is not clean if it has an empty segment before its end, or one   *)
(* that stands for a directory: i is the slash before it, j its end.       *)
Unclean(p) ==
    \E i \in DOMAIN p : \E j \in (i + 1)..(Len(p) + 1) :
        /\ p[i] = "/"
        /\ j > Len(p) \/ p[j] = "/"
        /\ \/ SubSeq(p, i + 1, j - 1) \in {<<".">>, <<".", ".">>}
           \/ j = i + 1 /\ j <= Len(p)

(* A request whose path is not clean is redirected to the clean one; a     *)
(* pattern that ends in a slash stands for the subtree.                    *)
Serves(pattern, request) ==
    /\ ~Unclean(request)
    /\ IF Last(pattern) = "/"
       THEN Len(pattern) <= Len(request)
            /\ SubSeq(request, 1, Len(pattern)) = pattern
       ELSE request = pattern
-----------------------------------------------------------------------------
(* Properties.                                                             *)

Accepted == phase = "accepted"

(* What the counting path takes for granted (Config): an accepted          *)
(* configuration has at least one word, no word twice - each has a buffer  *)
(* and a key of its own - and no empty one, which every line would match;  *)
(* and dropping the duplicates changed neither the set nor the order.      *)
FitForCounting ==
    Accepted =>
        LET as == cfg.actions
            first(a) == CHOOSE i \in DOMAIN given.actions :
                            /\ given.actions[i] = a
                            /\ \A j \in 1..(i - 1) : given.actions[j] # a
        IN  /\ as # <<>>
            /\ \A i, j \in DOMAIN as : as[i] = as[j] => i = j
            /\ {as[i] : i \in DOMAIN as}
                  = {given.actions[i] : i \in DOMAIN given.actions}
            /\ \A i, j \in DOMAIN as : i < j => first(as[i]) < first(as[j])
            /\ \E line \in Lines :
                  \A i \in DOMAIN as : ~Matches(as[i], line, cfg.case_sensitive)

(* The warnings say exactly what the matching does: `substring' of a and b *)
(* if every line that matches b matches a but not the other way round,     *)
(* `case only' if the two match the same lines, once per pair.             *)
OverlapsExact ==
    Accepted =>
        LET as == cfg.actions
            Lifts(b, a) ==  \* every line matching b also increments a
                \A line \in Lines : Matches(b, line, cfg.case_sensitive)
                                      => Matches(a, line, cfg.case_sensitive)
        IN  \A i, j \in DOMAIN as : i # j =>
                /\ <<"substring", as[i], as[j]>> \in warnings
                     <=> Lifts(as[j], as[i]) /\ ~Lifts(as[i], as[j])
                /\ (<<"case only", as[i], as[j]>> \in warnings
                    \/ <<"case only", as[j], as[i]>> \in warnings)
                     <=> Lifts(as[j], as[i]) /\ Lifts(as[i], as[j])
                /\ ~(<<"case only", as[i], as[j]>> \in warnings
                     /\ <<"case only", as[j], as[i]>> \in warnings)

(* What is counted is what the options say: a line matches a word if it    *)
(* has the letters of the word somewhere in a row - the very letters, or   *)
(* with case_sensitive off each of them in either case, however the word   *)
(* and the line spell it.                                                  *)
MatchesAsWritten ==
    Accepted =>
        LET Same(c, d) == c = d \/ (~cfg.case_sensitive /\ c = -d)
            Reads(w, line) ==
                \E i \in 0..(Len(line) - Len(w)) :
                    \A k \in 1..Len(w) : Same(w[k], line[i + k])
        IN  \A i \in DOMAIN cfg.actions, line \in Lines :
                Matches(cfg.actions[i], line, cfg.case_sensitive)
                    <=> Reads(cfg.actions[i], line)

(* "A config with three typos reports all three at once": once every field *)
(* that was complained about is put right, Validate finds nothing new,     *)
(* with two exceptions: the path of the exporter if its address was wrong, *)
(* and the file of the log if its output was, and is put right as "file".  *)
AllReportedAtOnce ==
    phase = "rejected" =>
        \A output \in {"journald", "file"} :
            LET right == [Good EXCEPT !.logging_output = output]
            IN  FieldErrors([k \in DOMAIN given |->
                                IF k \in errs THEN right[k] ELSE given[k]])
                  \subseteq {k \in {"metrics_path"} : "metrics_listen" \in errs}
                        \cup {k \in {"logging_file"} : /\ "logging_output" \in errs
                                                      /\ output = "file"}

(* "A pattern without a trailing slash is an exact match": the metrics are *)
(* served at the path that was accepted and nowhere else, apart from the   *)
(* root, the one exception ValidatePath makes - if the path is a clean     *)
(* one.  One that is not passes as well, and no request reaches it.        *)
ServedExactly ==
    Accepted /\ cfg.metrics_path # <<"/">> =>
        {r \in Strings({"/", "a", "."}, MaxPath + 1) \ {<<>>} :
              Serves(cfg.metrics_path, r)}
          = {p \in {cfg.metrics_path} : ~Unclean(p)}
=============================================================================
