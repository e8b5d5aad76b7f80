------------------------------ MODULE Exporter ------------------------------
(***************************************************************************)
(* internal/metrics: scrapes and status pages, answered by goroutines of   *)
(* the HTTP server while the daemon counts lines and flushes them, and the *)
(* life of that server inside daemon.Run and cmdRun.                       *)
(*                                                                         *)
(* A request reads the counter and Redis one part after the other, each    *)
(* part under a lock or in a round trip of its own, so that everything can *)
(* move in between.  The flush is reduced to what a reader can see of it:  *)
(* it takes the buffer, adds to the keys word by word and puts back what   *)
(* it could not write (Daemon has the rest of it).  What never changes     *)
(* while the process runs - configuration, version, start time - is left   *)
(* out of the answers.                                                     *)
(***************************************************************************)
EXTENDS Counter, Sequences

CONSTANTS
    Clients,                \* who asks: one request at a time each
    LogLines,               \* the lines of the log, as sets of words
    Troubles,               \* what can be wrong with Redis
    MaxLines,               \* bound: lines
    MaxRequests,            \* bound: requests
    MaxAccidents            \* bound: times Redis leaves the mode "up", replies
                            \* lost, keys changed behind the flush's back

ASSUME ExporterAssumption ==
    /\ LogLines \subseteq SUBSET Actions
    /\ Troubles \subseteq {"down", "refusing", "short"}
    /\ MaxLines \in Nat /\ MaxRequests \in Nat /\ MaxAccidents \in Nat

VARIABLES
    deltas,                 \* increments a flush has taken and not yet written
    redis,                  \* the counter keys: a number, Missing or Garbage
    mode,                   \* the condition of Redis
    server,                 \* how far the exporter, and its process, has come
    redisErrors,            \* Collector.redisErrors
    req,                    \* the request of every client
    \* history: words whose key holds what flushes added to it and no more;
    \* requests during which no flush and no key change took place; requests
    \* during which Redis was unreachable
    intact, calm, sawOutage,
    spent                   \* how much of each bound is used up

flushVars   == <<pending, matched, lines, deltas>>
redisVars   == <<redis, mode, intact>>
requestVars == <<req, redisErrors>>
histVars    == <<calm, sawOutage>>

vars == <<flushVars, redisVars, server, requestVars, histVars, spent>>

Limit == [request  |-> MaxRequests,
          accident |-> MaxAccidents]

Spend(k) ==
    /\ spent[k] < Limit[k]
    /\ spent' = [spent EXCEPT ![k] = @ + 1]

Missing == -1               \* there is no such key
Garbage == -2               \* the key holds something that is not an integer

Kinds == {"scrape", "page"}

(* Mutant of Order: the page reads Redis after the buffer, as Collect does. *)
OrderOfCollect(kind) ==
    IF kind = "scrape"
    THEN <<"lines", "matched", "pending", "counters", "errors">>
    ELSE <<"matched", "pending", "counters">>

(* Collect and status: the parts of an answer in the order they are read.  *)
Order(kind) ==
    IF kind = "scrape"
    THEN <<"lines", "matched", "pending", "counters", "errors">>
    ELSE <<"counters", "matched", "pending">>

(* The parts of an answer, the outcome of Counters, and the totals at the  *)
(* time the request came in.                                               *)
NoRequest ==
    [kind |-> "none", next |-> 0, lines |-> 0, matched |-> Zero,
     pending |-> Zero, counters |-> <<>>, outcome |-> "none", errors |-> 0,
     since |-> [lines |-> 0, matched |-> Zero, errors |-> 0]]

NewRequest(k) ==
    [NoRequest EXCEPT !.kind = k, !.next = 1,
                      !.since = [lines |-> lines, matched |-> matched,
                                 errors |-> redisErrors]]

Idle(c) == req[c].kind = "none"

Answered(c) == ~Idle(c) /\ req[c].next > Len(Order(req[c].kind))

(* The next thing the goroutine that serves c reads is `part'. *)
Reads(c, part) ==
    /\ ~Idle(c) /\ ~Answered(c)
    /\ Order(req[c].kind)[req[c].next] = part

InFlight == {c \in Clients : ~Idle(c)}

(* A request that has not got past its read of Redis, which takes at most  *)
(* defaultTimeout.                                                         *)
Reading(c) == ~Idle(c) /\ req[c].outcome = "none"

Init ==
    /\ CounterInit
    /\ deltas = Zero
    /\ redis = Zero /\ mode = "up"
    /\ server = "new"
    /\ redisErrors = 0
    /\ req = [c \in Clients |-> NoRequest]
    /\ intact = Actions /\ calm = {} /\ sawOutage = {}
    /\ spent = [k \in DOMAIN Limit |-> 0]
-----------------------------------------------------------------------------
(* The daemon as a reader sees it.                                         *)

Listening == server = "listening"
Counting == server \in {"listening", "failed"}

(* Mutant of TakeBuffer: the totals are emptied together with the buffer. *)
TakeBufferAndTotals ==
    /\ pending' = Zero
    /\ matched' = Zero
    /\ UNCHANGED lines

(* Drain: the totals are kept apart from the buffer. *)
TakeBuffer == Drain

(* ProcessLine in the goroutine of the consumer. *)
Line(S) ==
    /\ Counting
    /\ lines < MaxLines
    /\ ProcessLine(S)
    /\ UNCHANGED <<deltas, redisVars, server, requestVars, histVars, spent>>

FlushTakes ==
    /\ Counting
    /\ deltas = Zero /\ pending # Zero
    /\ deltas' = pending
    /\ TakeBuffer
    /\ calm' = {}
    /\ UNCHANGED <<redisVars, server, requestVars, sawOutage, spent>>

Added(a) == (IF redis[a] = Missing THEN 0 ELSE redis[a]) + deltas[a]

Writable(a) == mode \in {"up", "short"} /\ deltas[a] # 0 /\ redis[a] # Garbage

(* INCRBY, in any order of the words; a key that does not exist starts at  *)
(* zero.                                                                   *)
FlushPosts(a) ==
    /\ Writable(a)
    /\ redis' = [redis EXCEPT ![a] = Added(a)]
    /\ deltas' = [deltas EXCEPT ![a] = 0]
    /\ calm' = {}
    /\ UNCHANGED <<counterVars, mode, intact, server, requestVars, sawOutage,
                   spent>>

(* INCRBY is executed and its reply is lost: the delta will be put back,   *)
(* or, if the client library sends it again, be posted once more.          *)
FlushPostsUnheard(a) ==
    /\ Writable(a)
    /\ Spend("accident")
    /\ redis' = [redis EXCEPT ![a] = Added(a)]
    /\ intact' = intact \ {a}
    /\ calm' = {}
    /\ UNCHANGED <<flushVars, mode, server, requestVars, sawOutage>>

(* Some word could not be written, for whatever reason. *)
FlushRestores ==
    /\ deltas # Zero
    /\ Restore(deltas)
    /\ deltas' = Zero
    /\ calm' = {}
    /\ UNCHANGED <<redisVars, server, requestVars, sawOutage, spent>>

(* A reset or `logstat clear' zeroes the key, it expires, or somebody else *)
(* writes into it.                                                         *)
KeyChanges(a) ==
    /\ Spend("accident")
    /\ \E v \in {0, Missing, Garbage} \ {redis[a]} :
          redis' = [redis EXCEPT ![a] = v]
    /\ intact' = intact \ {a}
    /\ calm' = {}
    /\ UNCHANGED <<flushVars, mode, server, requestVars, sawOutage>>

(* Redis is unreachable, answers every command with an error, or a proxy   *)
(* in front of it answers MGET with too few values.                        *)
RedisFails ==
    /\ mode = "up"
    /\ Spend("accident")
    /\ mode' \in Troubles
    /\ sawOutage' = IF mode' = "down" THEN InFlight ELSE sawOutage
    /\ UNCHANGED <<flushVars, redis, intact, server, requestVars, calm>>

RedisRecovers ==
    /\ mode # "up"
    /\ mode' = "up"
    /\ UNCHANGED <<flushVars, redis, intact, server, requestVars, histVars,
                   spent>>
-----------------------------------------------------------------------------
(* Requests.                                                               *)

(* A connection is served until Shutdown is called, also when the listener *)
(* has died.                                                               *)
Begin(c, kind) ==
    /\ Counting
    /\ Idle(c)
    /\ Spend("request")
    /\ req' = [req EXCEPT ![c] = NewRequest(kind)]
    /\ calm' = IF deltas = Zero THEN calm \cup {c} ELSE calm
    /\ sawOutage' = IF mode = "down" THEN sawOutage \cup {c} ELSE sawOutage
    /\ UNCHANGED <<flushVars, redisVars, server, redisErrors>>

Got(c, r) == req' = [req EXCEPT ![c] = [r EXCEPT !.next = @ + 1]]

(* Lines, Matched and PendingByAction: a snapshot each, under Counter.mu.  *)
ReadLines(c) ==
    /\ Reads(c, "lines")
    /\ Got(c, [req[c] EXCEPT !.lines = lines])
    /\ UNCHANGED <<flushVars, redisVars, server, redisErrors, histVars, spent>>

ReadMatched(c) ==
    /\ Reads(c, "matched")
    /\ Got(c, [req[c] EXCEPT !.matched = matched])
    /\ UNCHANGED <<flushVars, redisVars, server, redisErrors, histVars, spent>>

ReadPending(c) ==
    /\ Reads(c, "pending")
    /\ Got(c, [req[c] EXCEPT !.pending = pending])
    /\ UNCHANGED <<flushVars, redisVars, server, redisErrors, histVars, spent>>

(* The keys that exist and that parse, as a function on some of the words. *)
Parsed == [a \in {b \in Actions : redis[b] >= 0} |-> redis[a]]

NoCounters == <<>>

(* Mutant of Counters: an unreadable key makes the whole read fail. *)
CountersOrNone ==
    CASE server = "closed" \/ mode \in {"down", "short"} ->
             [outcome |-> "unavailable", counters |-> NoCounters]
      [] mode = "refusing" -> [outcome |-> "refused", counters |-> NoCounters]
      [] \E a \in Actions : redis[a] = Garbage ->
             [outcome |-> "malformed", counters |-> NoCounters]
      [] OTHER -> [outcome |-> "ok", counters |-> Parsed]

(* Counters: one MGET.  A closed client answers with an error of its own,  *)
(* and so does the check of the number of values; neither is a redis.Error *)
(* and so both count as unavailable.                                       *)
Counters ==
    CASE server = "closed" \/ mode \in {"down", "short"} ->
             [outcome |-> "unavailable", counters |-> NoCounters]
      [] mode = "refusing" -> [outcome |-> "refused", counters |-> NoCounters]
      [] \E a \in Actions : redis[a] = Garbage ->
             [outcome |-> "malformed", counters |-> Parsed]
      [] OTHER -> [outcome |-> "ok", counters |-> Parsed]

(* logstat_redis_up, and the header of the page: ~store.IsUnavailable(err). *)
RedisUp(outcome) == outcome # "unavailable"

(* collectRedis: an atomic Add; the page has no such counter. *)
CountError(c) ==
    redisErrors' = IF Counters.outcome # "ok" /\ req[c].kind = "scrape"
                   THEN redisErrors + 1 ELSE redisErrors

ReadCounters(c) ==
    /\ Reads(c, "counters")
    /\ Got(c, [req[c] EXCEPT !.counters = Counters.counters,
                             !.outcome = Counters.outcome])
    /\ CountError(c)
    /\ UNCHANGED <<flushVars, redisVars, server, histVars, spent>>

ReadErrors(c) ==
    /\ Reads(c, "errors")
    /\ Got(c, [req[c] EXCEPT !.errors = redisErrors])
    /\ UNCHANGED <<flushVars, redisVars, server, redisErrors, histVars, spent>>

Answer(c) ==
    \/ ReadLines(c) \/ ReadMatched(c) \/ ReadPending(c)
    \/ ReadCounters(c) \/ ReadErrors(c)

(* The client has read the answer, however slowly, or has gone away. *)
Leave(c) ==
    /\ Answered(c)
    /\ req' = [req EXCEPT ![c] = NoRequest]
    /\ calm' = calm \ {c}
    /\ sawOutage' = sawOutage \ {c}
    /\ UNCHANGED <<flushVars, redisVars, server, redisErrors, spent>>
-----------------------------------------------------------------------------
(* The server.                                                             *)

serverOnly == <<flushVars, redisVars, requestVars, histVars, spent>>

(* startMetrics: bound before anything is read, or Run ends at once and    *)
(* only the store is left to close.                                        *)
Bind ==
    /\ server = "new"
    /\ server' \in {"listening", "stopped"}
    /\ UNCHANGED serverOnly

(* Serve returns an error of its own. *)
ServerFails ==
    /\ server = "listening"
    /\ server' = "failed"
    /\ UNCHANGED serverOnly

(* Run is over - a signal, the failed server, a tailer or a schedule that  *)
(* could not be set up - its last flush is made, and the deferred function *)
(* calls Shutdown.                                                         *)
Stop ==
    /\ Counting
    /\ deltas = Zero
    /\ server' = "closing"
    /\ UNCHANGED serverOnly

(* Shutdown returns once no request is being served. *)
ShutdownDone ==
    /\ server = "closing"
    /\ InFlight = {}
    /\ server' = "stopped"
    /\ UNCHANGED serverOnly

(* Mutant of ShutdownGivesUp: the context of Shutdown has no deadline. *)
ShutdownWaits == FALSE /\ UNCHANGED vars

(* Mutant of ShutdownGivesUp: nobody waits for the requests. *)
ShutdownAtOnce ==
    /\ server = "closing"
    /\ server' = "stopped"
    /\ UNCHANGED serverOnly

(* Shutdown gives up after opTimeout, 5 s; a read of Redis that began      *)
(* before has ended by then, after defaultTimeout, 2 s.                    *)
ShutdownGivesUp ==
    /\ server = "closing"
    /\ InFlight # {}
    /\ \A c \in Clients : ~Reading(c)
    /\ server' = "stopped"
    /\ UNCHANGED serverOnly

(* The deferred calls of cmdRun: the client of Redis, then the lock and    *)
(* the log.                                                                *)
CloseStore ==
    /\ server = "stopped"
    /\ server' = "closed"
    /\ UNCHANGED serverOnly

Exit ==
    /\ server = "closed"
    /\ server' = "exited"
    /\ UNCHANGED serverOnly

Terminated == server = "exited" /\ UNCHANGED vars

FlushStep ==
    \/ FlushTakes
    \/ \E a \in Actions : FlushPosts(a) \/ FlushPostsUnheard(a)
    \/ FlushRestores

RequestStep ==
    \/ \E c \in Clients, kind \in Kinds : Begin(c, kind)
    \/ \E c \in Clients : Answer(c) \/ Leave(c)

ServerStep ==
    \/ Bind \/ ServerFails \/ Stop
    \/ ShutdownDone \/ ShutdownGivesUp \/ CloseStore \/ Exit

Environment ==
    \/ \E a \in Actions : KeyChanges(a)
    \/ RedisFails \/ RedisRecovers

Next ==
    \/ server # "exited" /\ \/ \E S \in LogLines : Line(S)
                            \/ FlushStep \/ RequestStep \/ ServerStep
                            \/ Environment
    \/ Terminated

(* Goroutines are scheduled, calls of Redis are bounded in time and so is  *)
(* Shutdown.  A client may take as long as it likes.                       *)
Fairness ==
    /\ WF_vars(ShutdownDone \/ ShutdownGivesUp)
    /\ WF_vars(CloseStore) /\ WF_vars(Exit)
    /\ \A c \in Clients : WF_vars(server # "exited" /\ Answer(c))

Spec == Init /\ [][Next]_vars /\ Fairness
-----------------------------------------------------------------------------
(* Properties.                                                             *)

ExporterTypeOK ==
    /\ CounterTypeOK
    /\ deltas \in [Actions -> Nat]
    /\ redis \in [Actions -> Nat \cup {Missing, Garbage}]
    /\ mode \in {"up"} \cup Troubles
    /\ server \in {"new", "listening", "failed", "closing", "stopped",
                   "closed", "exited"}
    /\ redisErrors \in Nat
    /\ intact \subseteq Actions
    /\ calm \subseteq Clients /\ sawOutage \subseteq Clients
    /\ spent \in [DOMAIN Limit -> Nat]

(* What a flush has in its hands, what is buffered and what is in Redis    *)
(* add up to what was matched, for every key nobody else touched.          *)
Conserved ==
    \A a \in intact : redis[a] >= 0 /\ matched[a] = pending[a] + deltas[a] + redis[a]

(* A counter of an answer lies between its value when the request came in  *)
(* and its value now, and a scrape that could not read Redis counts itself *)
(* among the errors it shows: over consecutive scrapes the series of       *)
(* lines_read_total, matched_lines_total and redis_scrape_errors_total     *)
(* never go back, whatever flushes and other scrapes run beside them       *)
(* (the totals of counter.go are kept apart from the buffer for that).     *)
ScrapeInBounds ==
    \A c \in Clients : Answered(c) =>
        LET r == req[c]
            failed == IF r.kind = "scrape" /\ r.outcome # "ok" THEN 1 ELSE 0
        IN  /\ \A a \in Actions :
                   r.matched[a] \in r.since.matched[a]..matched[a]
            /\ r.kind = "scrape" =>
                  /\ r.lines \in r.since.lines..lines
                  /\ r.errors \in (r.since.errors + failed)..redisErrors

(* An answer given while no flush runs and no key is changed shows, for    *)
(* every key that holds what was counted, a buffer and a Redis total that  *)
(* add up to the matches between the request and its answer - also when    *)
(* the key of another word is unreadable, which must not black out the     *)
(* counters of every other word (Counters in store.go).                    *)
NumbersAddUp ==
    \A c \in calm :
        Answered(c) /\ req[c].outcome \in {"ok", "malformed"} =>
            \A a \in intact :
                /\ a \in DOMAIN req[c].counters
                /\ req[c].pending[a] + req[c].counters[a]
                       \in req[c].since.matched[a]..matched[a]

(* The page reads Redis before the buffer: a flush in between can make it  *)
(* miss matches but never show one of them both as buffered and as written. *)
PageNeverOverstates ==
    \A c \in Clients : Answered(c) /\ req[c].kind = "page" =>
        \A a \in intact \cap DOMAIN req[c].counters :
            req[c].counters[a] + req[c].pending[a] <= matched[a]

(* redis_up 0, and "unreachable" on the page, are shown only by a request  *)
(* during which Redis was unreachable: not because of a foreign value in a *)
(* key, not because of a server that answers with an error, and not        *)
(* because the daemon is shutting down and has closed its client.          *)
NoFalseOutage ==
    \A c \in Clients :
        Answered(c) /\ ~RedisUp(req[c].outcome) => c \in sawOutage

(* A client that never reads its answer does not hold up the end of the    *)
(* process: the deferred Shutdown has a deadline.                          *)
ExitNotHeldUp == server = "closing" ~> server = "exited"
=============================================================================
