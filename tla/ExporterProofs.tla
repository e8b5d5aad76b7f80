--------------------------- MODULE ExporterProofs ---------------------------
(***************************************************************************)
(* Theorems about Exporter, for any number of words, clients, lines and    *)
(* requests.                                                               *)
(***************************************************************************)
EXTENDS Exporter, TLAPS

(* The server starts with an empty counter, keys at zero and no request. *)
LEMMA ExporterTypeInit == Init => ExporterTypeOK
<1> SUFFICES ASSUME Init PROVE ExporterTypeOK
  OBVIOUS
<1> USE DEF Init, CounterInit, Zero
<1>1. CounterTypeOK
  BY DEF CounterTypeOK
<1>2. spent \in [DOMAIN Limit -> Nat]
  OBVIOUS
<1>3. deltas \in [Actions -> Nat] /\ redis \in [Actions -> Nat \cup {Missing, Garbage}]
  OBVIOUS
<1> QED
  BY <1>1, <1>2, <1>3 DEF ExporterTypeOK

(* The steps of the daemon, of its keys and of the server, all of which    *)
(* leave the requests alone.                                               *)
Background ==
    \/ \E S \in LogLines : Line(S)
    \/ FlushStep \/ ServerStep \/ Environment

(* Using up a bound. *)
LEMMA SpendType ==
  ASSUME ExporterTypeOK, NEW k \in {"request", "accident"}, Spend(k)
  PROVE  spent' \in [DOMAIN Limit -> Nat]
<1>1. k \in DOMAIN Limit
  BY DEF Limit
<1> QED
  BY <1>1 DEF Spend, ExporterTypeOK

(* The daemon, its keys and the server keep the types. *)
LEMMA BackgroundType ==
  ASSUME ExporterTypeOK, Background
  PROVE  ExporterTypeOK'
<1> USE ExporterAssumption, SpendType
    DEF ExporterTypeOK, CounterTypeOK, flushVars, redisVars, requestVars,
        histVars, counterVars, serverOnly, Zero, Missing, Garbage
<1>1. ASSUME NEW S \in LogLines, Line(S) PROVE ExporterTypeOK'
  BY <1>1 DEF Line, ProcessLine, Plus
<1>2. CASE FlushTakes
  BY <1>2 DEF FlushTakes, TakeBuffer, Drain
<1>3. ASSUME NEW a \in Actions, FlushPosts(a) \/ FlushPostsUnheard(a)
      PROVE  ExporterTypeOK'
  <2>1. Added(a) \in Nat
    BY <1>3 DEF FlushPosts, FlushPostsUnheard, Writable, Added
  <2>2. redis' \in [Actions -> Nat \cup {Missing, Garbage}]
    BY <1>3, <2>1 DEF FlushPosts, FlushPostsUnheard
  <2>3. deltas' \in [Actions -> Nat]
    BY <1>3 DEF FlushPosts, FlushPostsUnheard
  <2> QED
    BY <1>3, <2>2, <2>3 DEF FlushPosts, FlushPostsUnheard
<1>4. CASE FlushRestores
  BY <1>4 DEF FlushRestores, Restore
<1>5. ASSUME NEW a \in Actions, KeyChanges(a) PROVE ExporterTypeOK'
  BY <1>5 DEF KeyChanges
<1>6. CASE RedisFails
  <2>1. sawOutage' \subseteq Clients
    BY <1>6 DEF RedisFails, InFlight
  <2> QED
    BY <1>6, <2>1 DEF RedisFails
<1>7. CASE RedisRecovers
  BY <1>7 DEF RedisRecovers
<1>8. CASE ServerStep
  BY <1>8 DEF ServerStep, Bind, ServerFails, Stop, ShutdownDone,
     ShutdownGivesUp, CloseStore, Exit, Counting
<1> QED
  BY <1>1, <1>2, <1>3, <1>4, <1>5, <1>6, <1>7, <1>8
  DEF Background, FlushStep, Environment

(* So do the requests. *)
LEMMA RequestType ==
  ASSUME ExporterTypeOK, RequestStep
  PROVE  ExporterTypeOK'
<1> USE ExporterAssumption, SpendType
    DEF ExporterTypeOK, CounterTypeOK, flushVars, redisVars, requestVars,
        histVars, counterVars
<1>1. ASSUME NEW c \in Clients, NEW kind \in Kinds, Begin(c, kind)
      PROVE  ExporterTypeOK'
  BY <1>1 DEF Begin
<1>2. ASSUME NEW c \in Clients, Answer(c) PROVE ExporterTypeOK'
  BY <1>2 DEF Answer, ReadLines, ReadMatched, ReadPending, ReadCounters,
     ReadErrors, CountError
<1>3. ASSUME NEW c \in Clients, Leave(c) PROVE ExporterTypeOK'
  BY <1>3 DEF Leave
<1> QED
  BY <1>1, <1>2, <1>3 DEF RequestStep

(* Every step is one or the other. *)
LEMMA NextCases ==
  ASSUME [Next]_vars
  PROVE  Background \/ RequestStep \/ UNCHANGED vars
BY DEF Next, Background, Terminated

(* The type invariant is inductive. *)
LEMMA ExporterTypeStep == ExporterTypeOK /\ [Next]_vars => ExporterTypeOK'
<1> SUFFICES ASSUME ExporterTypeOK, [Next]_vars PROVE ExporterTypeOK'
  OBVIOUS
<1>1. CASE UNCHANGED vars
  BY <1>1 DEF vars, ExporterTypeOK, CounterTypeOK, flushVars, redisVars,
     requestVars, histVars, counterVars
<1> QED
  BY <1>1, NextCases, BackgroundType, RequestType

(* A match moves from the buffer into the hands of a flush, and from there *)
(* to Redis or back.                                                       *)
LEMMA ConservedStep ==
  ASSUME ExporterTypeOK, Conserved, [Next]_vars
  PROVE  Conserved'
<1> USE DEF ExporterTypeOK, CounterTypeOK, Conserved, flushVars, redisVars,
        requestVars, histVars, counterVars, serverOnly, Missing, Garbage
<1>1. ASSUME NEW S \in LogLines, Line(S) PROVE Conserved'
  BY <1>1 DEF Line, ProcessLine, Plus
<1>2. CASE FlushTakes
  BY <1>2 DEF FlushTakes, TakeBuffer, Drain, Zero
<1>3. ASSUME NEW a \in Actions, FlushPosts(a) PROVE Conserved'
  BY <1>3 DEF FlushPosts, Added
<1>4. ASSUME NEW a \in Actions, FlushPostsUnheard(a) PROVE Conserved'
  BY <1>4 DEF FlushPostsUnheard
<1>5. CASE FlushRestores
  BY <1>5 DEF FlushRestores, Restore, Zero
<1>6. ASSUME NEW a \in Actions, KeyChanges(a) PROVE Conserved'
  BY <1>6 DEF KeyChanges
<1>7. CASE RedisFails \/ RedisRecovers
  BY <1>7 DEF RedisFails, RedisRecovers
<1>8. CASE ServerStep
  BY <1>8 DEF ServerStep, Bind, ServerFails, Stop, ShutdownDone,
     ShutdownGivesUp, CloseStore, Exit
<1>9. CASE RequestStep
  BY <1>9 DEF RequestStep, Begin, Answer, ReadLines, ReadMatched, ReadPending,
     ReadCounters, ReadErrors, Leave
<1>10. CASE UNCHANGED vars
  BY <1>10 DEF vars
<1> QED
  BY <1>1, <1>2, <1>3, <1>4, <1>5, <1>6, <1>7, <1>8, <1>9, <1>10, NextCases
  DEF Background, FlushStep, Environment

(* No match is lost or written twice by a flush that takes the buffer,     *)
(* writes word by word and puts the rest back, for every key nobody else   *)
(* touched: what a reader of the three places relies on.                   *)
THEOREM ConservedCorrect == Spec => []Conserved
<1>1. Init => Conserved
  BY DEF Init, CounterInit, Conserved, Zero
<1> QED
  BY <1>1, ExporterTypeInit, ExporterTypeStep, ConservedStep, PTL DEF Spec

-----------------------------------------------------------------------------
(* The requests. *)

Outcomes == {"none", "ok", "malformed", "refused", "unavailable"}

Totals == [Actions -> Nat]

Snapshots == UNION {[S -> Nat] : S \in SUBSET Actions}

Requests ==
    [kind : {"none"} \cup Kinds, next : Nat, lines : Nat, matched : Totals,
     pending : Totals, counters : Snapshots, outcome : Outcomes, errors : Nat,
     since : [lines : Nat, matched : Totals, errors : Nat]]

(* The bounds of a series: its value at the time of the request, and now.  *)
Failed(r) == IF r.outcome # "ok" THEN 1 ELSE 0

InBounds(r, l, m, e) ==
    /\ r.next > 0
    /\ r.since.lines <= l /\ r.since.errors <= e
    /\ \A a \in Actions : r.since.matched[a] <= m[a]
    /\ r.next > 2 => \A a \in Actions : r.since.matched[a] <= r.matched[a]
                                       /\ r.matched[a] <= m[a]
    /\ r.kind = "scrape" =>
          /\ r.next > 1 => r.since.lines <= r.lines /\ r.lines <= l
          /\ r.next > 4 => r.since.errors + Failed(r) <= e
          /\ r.next > 5 => r.since.errors + Failed(r) <= r.errors
                             /\ r.errors <= e

BoundedNow(r) == InBounds(r, lines, matched, redisErrors)

(* What the page has read of Redis is still in Redis when it comes to the  *)
(* buffer.                                                                 *)
NotOverstated(r) ==
    r.kind = "page" =>
      \A a \in intact \cap DOMAIN r.counters :
        /\ r.next > 1 => r.counters[a] <= redis[a]
        /\ r.next > 3 => r.counters[a] + r.pending[a] <= matched[a]

(* Without a flush and with the keys left alone Redis is what was read.    *)
AddsUp(r) ==
    /\ deltas = Zero
    /\ r.outcome \in {"ok", "malformed"} => r.counters = Parsed
    /\ r.next > 3 => \A a \in intact :
                        /\ r.since.matched[a] <= r.pending[a] + redis[a]
                        /\ r.pending[a] + redis[a] <= matched[a]

RequestInv ==
    /\ req \in [Clients -> Requests]
    /\ \A c \in Clients : ~Idle(c) => BoundedNow(req[c]) /\ NotOverstated(req[c])
    /\ \A c \in calm : ~Idle(c) /\ AddsUp(req[c])

ReadInv == ExporterTypeOK /\ Conserved /\ RequestInv

(* The record of a client that has not asked. *)
LEMMA NoRequestType == NoRequest \in Requests
<1>1. NoRequest.counters \in Snapshots
  <2>1. <<>> \in [{} -> Nat]
    OBVIOUS
  <2> QED
    BY <2>1 DEF NoRequest, Snapshots
<1>2. Zero \in Totals
  BY DEF Zero, Totals
<1> QED
  BY <1>1, <1>2 DEF NoRequest, Requests, Outcomes, Kinds

(* Nothing has been read at first. *)
LEMMA ReadInit == Init => ReadInv
<1> SUFFICES ASSUME Init PROVE ReadInv
  OBVIOUS
<1>1. Conserved
  BY DEF Init, CounterInit, Conserved, Zero
<1>2. RequestInv
  BY NoRequestType DEF Init, RequestInv, Idle, NoRequest
<1> QED
  BY <1>1, <1>2, ExporterTypeInit DEF ReadInv

(* A snapshot holds numbers. *)
LEMMA SnapshotValue ==
  ASSUME NEW s \in Snapshots, NEW a \in DOMAIN s
  PROVE  s[a] \in Nat
BY DEF Snapshots

(* What a reader may rely on while it is not looking: totals only grow, so *)
(* do the keys nobody else touches, and a calm ends with the first step of *)
(* a flush.                                                                *)
LEMMA BackgroundFrame ==
  ASSUME ExporterTypeOK, Conserved, Background
  PROVE  /\ req' = req /\ redisErrors' = redisErrors
         /\ lines <= lines' /\ \A a \in Actions : matched[a] <= matched'[a]
         /\ intact' \subseteq intact
         /\ \A a \in intact' : redis[a] <= redis'[a]
         /\ \/ calm' = {}
            \/ calm' = calm /\ deltas' = deltas /\ redis' = redis
<1> USE DEF ExporterTypeOK, CounterTypeOK, Conserved, flushVars, redisVars,
        requestVars, histVars, counterVars, serverOnly,
        Missing, Garbage
<1>1. ASSUME NEW S \in LogLines, Line(S)
      PROVE  lines <= lines' /\ \A a \in Actions : matched[a] <= matched'[a]
  BY <1>1 DEF Line, ProcessLine, Plus
<1>2. CASE \E S \in LogLines : Line(S)
  BY <1>1, <1>2 DEF Line, ProcessLine
<1>3. CASE FlushTakes
  BY <1>3 DEF FlushTakes, TakeBuffer, Drain
<1>4. ASSUME NEW a \in Actions, FlushPosts(a) \/ FlushPostsUnheard(a)
      PROVE  \A b \in intact : redis[b] <= redis'[b]
  BY <1>4 DEF FlushPosts, FlushPostsUnheard, Added
<1>5. CASE \E a \in Actions : FlushPosts(a) \/ FlushPostsUnheard(a)
  BY <1>4, <1>5 DEF FlushPosts, FlushPostsUnheard
<1>6. CASE FlushRestores
  BY <1>6 DEF FlushRestores, Restore
<1>7. ASSUME NEW a \in Actions, KeyChanges(a)
      PROVE  \A b \in intact' : redis[b] <= redis'[b]
  BY <1>7 DEF KeyChanges
<1>8. CASE \E a \in Actions : KeyChanges(a)
  BY <1>7, <1>8 DEF KeyChanges
<1>9. CASE RedisFails \/ RedisRecovers
  BY <1>9 DEF RedisFails, RedisRecovers
<1>10. CASE ServerStep
  BY <1>10 DEF ServerStep, Bind, ServerFails, Stop, ShutdownDone,
     ShutdownGivesUp, CloseStore, Exit
<1> QED
  BY <1>2, <1>3, <1>5, <1>6, <1>8, <1>9, <1>10
  DEF Background, FlushStep, Environment

(* No step of the daemon disturbs what a request has read. *)
LEMMA BackgroundRequests ==
  ASSUME ReadInv, Background
  PROVE  RequestInv'
<1> USE BackgroundFrame DEF ReadInv
<1>1. req' \in [Clients -> Requests]
  BY DEF RequestInv
<1>2. ASSUME NEW c \in Clients, ~Idle(c)' PROVE BoundedNow(req[c])'
  <2>1. ~Idle(c) /\ BoundedNow(req[c]) /\ req'[c] = req[c] /\ req[c] \in Requests
    BY <1>2 DEF RequestInv, Idle
  <2>2. /\ lines \in Nat /\ lines' \in Nat /\ redisErrors \in Nat
        /\ matched \in [Actions -> Nat] /\ matched' \in [Actions -> Nat]
    BY BackgroundType DEF ExporterTypeOK, CounterTypeOK
  <2> QED
    BY <2>1, <2>2 DEF BoundedNow, InBounds, Requests, Totals, Failed
<1>3. ASSUME NEW c \in Clients, ~Idle(c)' PROVE NotOverstated(req[c])'
  <2>1. ~Idle(c) /\ NotOverstated(req[c]) /\ req'[c] = req[c] /\ req[c] \in Requests
    BY <1>3 DEF RequestInv, Idle
  <2>2. /\ matched \in [Actions -> Nat] /\ matched' \in [Actions -> Nat]
        /\ \A a \in intact : redis[a] \in Nat
        /\ \A a \in intact' : redis'[a] \in Nat
        /\ intact \subseteq Actions
    BY BackgroundType, ConservedStep
    DEF ExporterTypeOK, CounterTypeOK, Conserved, Missing, Garbage, Next, Background
  <2>3. ASSUME NEW a \in intact' \cap DOMAIN req[c].counters
        PROVE  /\ redis[a] \in Nat /\ redis'[a] \in Nat /\ redis[a] <= redis'[a]
               /\ matched[a] \in Nat /\ matched'[a] \in Nat
               /\ matched[a] <= matched'[a]
               /\ req[c].counters[a] \in Nat /\ req[c].pending[a] \in Nat
    <3>1. a \in intact /\ a \in intact' /\ a \in Actions
      BY <2>2
    <3>2. req[c].counters[a] \in Nat
      BY <2>1, SnapshotValue DEF Requests
    <3> QED
      BY <2>1, <2>2, <3>1, <3>2 DEF Requests, Totals
  <2> QED
    BY <2>1, <2>2, <2>3 DEF NotOverstated
<1>4. ASSUME NEW c \in calm' PROVE ~Idle(c)' /\ AddsUp(req[c])'
  <2>1. ~Idle(c) /\ AddsUp(req[c]) /\ req'[c] = req[c] /\ req[c] \in Requests
        /\ deltas' = deltas /\ redis' = redis
    BY <1>4 DEF RequestInv, Idle, ExporterTypeOK
  <2>2. /\ matched \in [Actions -> Nat] /\ matched' \in [Actions -> Nat]
        /\ \A a \in intact : redis[a] \in Nat
        /\ intact \subseteq Actions
    BY BackgroundType
    DEF ExporterTypeOK, CounterTypeOK, Conserved, Missing, Garbage
  <2>3. Parsed' = Parsed
    BY <2>1 DEF Parsed
  <2> QED
    BY <2>1, <2>2, <2>3 DEF AddsUp, Requests, Totals, Idle
<1> QED
  BY <1>1, <1>2, <1>3, <1>4 DEF RequestInv

(* Where in its order a request is when it reads a part. *)
LEMMA Positions ==
  ASSUME RequestInv, NEW c \in Clients, NEW part, Reads(c, part)
  PROVE  /\ req[c] \in Requests /\ ~Idle(c)
         /\ req[c].kind \in Kinds
         /\ BoundedNow(req[c]) /\ NotOverstated(req[c])
         /\ c \in calm => AddsUp(req[c])
         /\ part = "lines" => req[c].kind = "scrape" /\ req[c].next = 1
         /\ part = "matched" => req[c].next = 2
         /\ part = "pending" => req[c].next = 3
         /\ part = "counters" =>
              \/ req[c].kind = "scrape" /\ req[c].next = 4
              \/ req[c].kind = "page" /\ req[c].next = 1
         /\ part = "errors" => req[c].kind = "scrape" /\ req[c].next = 5
<1>1. /\ req[c] \in Requests /\ ~Idle(c) /\ req[c].kind \in Kinds
      /\ BoundedNow(req[c]) /\ NotOverstated(req[c])
      /\ c \in calm => AddsUp(req[c])
  BY DEF RequestInv, Reads, Idle, Requests
<1>2. req[c].next \in Nat \ {0}
  BY <1>1 DEF BoundedNow, InBounds, Requests
<1>3. CASE req[c].kind = "scrape"
  <2>1. /\ Order(req[c].kind) = <<"lines", "matched", "pending", "counters", "errors">>
        /\ Len(Order(req[c].kind)) = 5
    BY <1>3 DEF Order
  <2>2. req[c].next \in 1..5 /\ Order(req[c].kind)[req[c].next] = part
    BY <1>2, <2>1 DEF Reads, Answered
  <2>3. \/ req[c].next = 1 /\ part = "lines"
        \/ req[c].next = 2 /\ part = "matched"
        \/ req[c].next = 3 /\ part = "pending"
        \/ req[c].next = 4 /\ part = "counters"
        \/ req[c].next = 5 /\ part = "errors"
    BY <2>1, <2>2
  <2> QED
    BY <1>1, <1>3, <2>3
<1>4. CASE req[c].kind = "page"
  <2>1. /\ Order(req[c].kind) = <<"counters", "matched", "pending">>
        /\ Len(Order(req[c].kind)) = 3
    BY <1>4 DEF Order
  <2>2. req[c].next \in 1..3 /\ Order(req[c].kind)[req[c].next] = part
    BY <1>2, <2>1 DEF Reads, Answered
  <2> QED
    BY <1>1, <1>4, <2>1, <2>2
<1> QED
  BY <1>1, <1>3, <1>4 DEF Kinds

(* A step of one request gives it the record r. *)
Becomes(c, r) ==
    /\ r \in Requests
    /\ req' = [req EXCEPT ![c] = r]
    /\ UNCHANGED <<flushVars, redisVars>>
    /\ redisErrors' \in Nat /\ redisErrors <= redisErrors'
    /\ calm' \subseteq calm \cup {c}
    /\ r.kind # "none" =>
          InBounds(r, lines, matched, redisErrors') /\ NotOverstated(r)
    /\ c \in calm' => r.kind # "none" /\ AddsUp(r)

(* Such a step leaves the other requests as they are. *)
LEMMA OneRequest ==
  ASSUME ReadInv, NEW c \in Clients, NEW r, Becomes(c, r)
  PROVE  RequestInv'
<1> USE DEF flushVars, redisVars, counterVars
<1>1. req' \in [Clients -> Requests] /\ req'[c] = r
  BY DEF ReadInv, RequestInv, Becomes
<1>2. ASSUME NEW d \in Clients, ~Idle(d)' PROVE BoundedNow(req[d])'
  <2>1. CASE d = c
    BY <1>1, <1>2, <2>1 DEF Becomes, Idle, BoundedNow
  <2>2. CASE d # c
    <3>1. BoundedNow(req[d]) /\ req'[d] = req[d] /\ req[d] \in Requests
      BY <1>2, <2>2 DEF ReadInv, RequestInv, Idle, Becomes
    <3>2. /\ redisErrors \in Nat /\ redisErrors' \in Nat
          /\ redisErrors <= redisErrors' /\ lines' = lines /\ matched' = matched
      BY DEF ReadInv, ExporterTypeOK, Becomes
    <3> QED
      BY <3>1, <3>2 DEF BoundedNow, InBounds, Requests, Failed
  <2> QED
    BY <2>1, <2>2
<1>3. ASSUME NEW d \in Clients, ~Idle(d)' PROVE NotOverstated(req[d])'
  BY <1>1, <1>3 DEF ReadInv, RequestInv, Idle, NotOverstated, Becomes
<1>4. ASSUME NEW d \in calm' PROVE ~Idle(d)' /\ AddsUp(req[d])'
  <2>1. Parsed' = Parsed
    BY DEF Parsed, Becomes
  <2>2. calm \subseteq Clients
    BY DEF ReadInv, ExporterTypeOK
  <2>3. CASE d = c
    BY <1>1, <1>4, <2>1, <2>3 DEF Idle, AddsUp, Becomes
  <2>4. CASE d # c
    <3>1. d \in calm /\ d \in Clients /\ req'[d] = req[d]
      BY <1>4, <2>2, <2>4 DEF Becomes, ReadInv, RequestInv
    <3> QED
      BY <3>1, <2>1 DEF ReadInv, RequestInv, Idle, AddsUp, Becomes
  <2> QED
    BY <2>3, <2>4
<1> QED
  BY <1>1, <1>2, <1>3, <1>4 DEF RequestInv

(* A new request takes the present totals as its lower bounds. *)
LEMMA BeginRequests ==
  ASSUME ReadInv, NEW c \in Clients, NEW kind \in Kinds, Begin(c, kind)
  PROVE  RequestInv'
<1>1. PICK r : r = NewRequest(kind)
  OBVIOUS
<1>2. /\ r.kind = kind /\ r.next = 1 /\ r.outcome = "none"
      /\ r.counters = <<>> /\ r.pending = Zero
      /\ r.since = [lines |-> lines, matched |-> matched, errors |-> redisErrors]
  BY <1>1 DEF NewRequest, NoRequest
<1>3. lines \in Nat /\ redisErrors \in Nat /\ matched \in Totals
  BY DEF ReadInv, ExporterTypeOK, CounterTypeOK, Totals
<1>4. r \in Requests
  BY <1>1, <1>3, NoRequestType DEF NewRequest, NoRequest, Requests, Kinds
<1>5. InBounds(r, lines, matched, redisErrors)
  BY <1>2, <1>3, <1>4 DEF InBounds, Kinds, Totals
<1>6. NotOverstated(r)
  BY <1>2 DEF NotOverstated
<1>7. c \in calm' => AddsUp(r)
  <2>1. c \notin calm
    BY DEF RequestInv, Begin, ReadInv
  <2> QED
    BY <1>2, <2>1 DEF Begin, AddsUp
<1>8. r.kind # "none" /\ calm' \subseteq calm \cup {c}
  BY <1>2 DEF Kinds, Begin
<1>9. Becomes(c, r)
  BY <1>1, <1>3, <1>4, <1>5, <1>6, <1>7, <1>8 DEF Becomes, Begin
<1> QED
  BY <1>9, OneRequest

(* An answered request makes room for the next one. *)
LEMMA LeaveRequests ==
  ASSUME ReadInv, NEW c \in Clients, Leave(c)
  PROVE  RequestInv'
<1>1. PICK r : r = NoRequest
  OBVIOUS
<1>2. r \in Requests /\ r.kind = "none"
  BY <1>1, NoRequestType DEF NoRequest
<1>3. redisErrors \in Nat
  BY DEF ReadInv, ExporterTypeOK
<1>4. Becomes(c, r)
  BY <1>1, <1>2, <1>3 DEF Becomes, Leave
<1> QED
  BY <1>4, OneRequest

(* What a reading step leaves alone. *)
LEMMA ReadingFrame ==
  ASSUME NEW c \in Clients, ReadInv,
         ReadLines(c) \/ ReadMatched(c) \/ ReadPending(c) \/ ReadErrors(c)
  PROVE  /\ UNCHANGED <<flushVars, redisVars, redisErrors, calm>>
         /\ redisErrors \in Nat /\ lines \in Nat /\ matched \in Totals
         /\ pending \in Totals
<1>1. /\ redisErrors \in Nat /\ lines \in Nat /\ matched \in Totals
      /\ pending \in Totals
  BY DEF ReadInv, ExporterTypeOK, CounterTypeOK, Totals
<1>2. UNCHANGED <<flushVars, redisVars, redisErrors, calm>>
  BY DEF ReadLines, ReadMatched, ReadPending, ReadErrors, histVars
<1> QED
  BY <1>1, <1>2

(* The lines are read first. *)
LEMMA LinesRequests ==
  ASSUME ReadInv, NEW c \in Clients, ReadLines(c)
  PROVE  RequestInv'
<1>1. PICK q : q = [req[c] EXCEPT !.lines = lines]
  OBVIOUS
<1>2. PICK r : r = [q EXCEPT !.next = @ + 1]
  OBVIOUS
<1>3. /\ req[c] \in Requests /\ BoundedNow(req[c])
      /\ c \in calm => AddsUp(req[c])
      /\ req[c].kind = "scrape" /\ req[c].next = 1
  BY Positions DEF ReadInv, ReadLines
<1>4. /\ UNCHANGED <<flushVars, redisVars, redisErrors, calm>>
      /\ redisErrors \in Nat /\ lines \in Nat
  BY ReadingFrame
<1>5. q \in Requests /\ q.next = 1 /\ q.kind = "scrape" /\ q.lines = lines
      /\ q.since = req[c].since /\ q.outcome = req[c].outcome
      /\ q.counters = req[c].counters
  BY <1>1, <1>3, <1>4 DEF Requests
<1>6. r \in Requests /\ r.next = 2 /\ r.kind = "scrape" /\ r.lines = lines
      /\ r.since = req[c].since /\ r.outcome = req[c].outcome
      /\ r.counters = req[c].counters
  BY <1>2, <1>5 DEF Requests
<1>7. InBounds(r, lines, matched, redisErrors)
  BY <1>3, <1>4, <1>6 DEF BoundedNow, InBounds, Requests
<1>8. NotOverstated(r)
  BY <1>6 DEF NotOverstated
<1>9. c \in calm => AddsUp(r)
  BY <1>3, <1>6 DEF AddsUp
<1>10. Becomes(c, r)
  BY <1>1, <1>2, <1>4, <1>6, <1>7, <1>8, <1>9 DEF Becomes, ReadLines, Got
<1> QED
  BY <1>10, OneRequest

(* The totals of the matches are read second, by either kind. *)
LEMMA MatchedRequests ==
  ASSUME ReadInv, NEW c \in Clients, ReadMatched(c)
  PROVE  RequestInv'
<1>1. PICK q : q = [req[c] EXCEPT !.matched = matched]
  OBVIOUS
<1>2. PICK r : r = [q EXCEPT !.next = @ + 1]
  OBVIOUS
<1>3. /\ req[c] \in Requests /\ req[c].kind \in Kinds
      /\ BoundedNow(req[c]) /\ NotOverstated(req[c])
      /\ c \in calm => AddsUp(req[c])
      /\ req[c].next = 2
  BY Positions DEF ReadInv, ReadMatched
<1>4. /\ UNCHANGED <<flushVars, redisVars, redisErrors, calm>>
      /\ redisErrors \in Nat /\ lines \in Nat /\ matched \in Totals
  BY ReadingFrame
<1>5. q \in Requests /\ q.next = 2 /\ q.kind = req[c].kind /\ q.matched = matched
      /\ q.since = req[c].since /\ q.outcome = req[c].outcome
      /\ q.counters = req[c].counters /\ q.lines = req[c].lines
  BY <1>1, <1>3, <1>4 DEF Requests
<1>6. r \in Requests /\ r.next = 3 /\ r.kind = req[c].kind /\ r.matched = matched
      /\ r.since = req[c].since /\ r.outcome = req[c].outcome
      /\ r.counters = req[c].counters /\ r.lines = req[c].lines
  BY <1>2, <1>5 DEF Requests
<1>7. InBounds(r, lines, matched, redisErrors)
  BY <1>3, <1>4, <1>6 DEF BoundedNow, InBounds, Requests, Totals
<1>8. NotOverstated(r)
  BY <1>3, <1>6 DEF NotOverstated
<1>9. c \in calm => AddsUp(r)
  BY <1>3, <1>6 DEF AddsUp
<1>10. r.kind # "none"
  BY <1>3, <1>6 DEF Kinds
<1>11. Becomes(c, r)
  BY <1>1, <1>2, <1>4, <1>6, <1>7, <1>8, <1>9, <1>10
  DEF Becomes, ReadMatched, Got
<1> QED
  BY <1>11, OneRequest

(* The buffer is read third: what it holds is not in Redis, and what Redis *)
(* held before is still there.                                             *)
LEMMA PendingRequests ==
  ASSUME ReadInv, NEW c \in Clients, ReadPending(c)
  PROVE  RequestInv'
<1>1. PICK q : q = [req[c] EXCEPT !.pending = pending]
  OBVIOUS
<1>2. PICK r : r = [q EXCEPT !.next = @ + 1]
  OBVIOUS
<1>3. /\ req[c] \in Requests /\ req[c].kind \in Kinds
      /\ BoundedNow(req[c]) /\ NotOverstated(req[c])
      /\ c \in calm => AddsUp(req[c])
      /\ req[c].next = 3
  BY Positions DEF ReadInv, ReadPending
<1>4. /\ UNCHANGED <<flushVars, redisVars, redisErrors, calm>>
      /\ redisErrors \in Nat /\ lines \in Nat
      /\ matched \in Totals /\ pending \in Totals
  BY ReadingFrame
<1>5. q \in Requests /\ q.next = 3 /\ q.kind = req[c].kind /\ q.pending = pending
      /\ q.since = req[c].since /\ q.outcome = req[c].outcome
      /\ q.counters = req[c].counters /\ q.lines = req[c].lines
      /\ q.matched = req[c].matched
  BY <1>1, <1>3, <1>4 DEF Requests
<1>6. r \in Requests /\ r.next = 4 /\ r.kind = req[c].kind /\ r.pending = pending
      /\ r.since = req[c].since /\ r.outcome = req[c].outcome
      /\ r.counters = req[c].counters /\ r.lines = req[c].lines
      /\ r.matched = req[c].matched
  BY <1>2, <1>5 DEF Requests
<1>7. InBounds(r, lines, matched, redisErrors)
  BY <1>3, <1>4, <1>6 DEF BoundedNow, InBounds, Requests, Totals
<1>8. ASSUME NEW a \in intact
      PROVE  /\ a \in Actions
             /\ redis[a] \in Nat /\ deltas[a] \in Nat /\ pending[a] \in Nat
             /\ matched[a] \in Nat
             /\ matched[a] = pending[a] + deltas[a] + redis[a]
  BY DEF ReadInv, Conserved, ExporterTypeOK, CounterTypeOK, Missing, Garbage
<1>9. NotOverstated(r)
  <2>1. ASSUME NEW a \in intact \cap DOMAIN r.counters, r.kind = "page"
        PROVE  /\ r.counters[a] <= redis[a]
               /\ r.counters[a] + r.pending[a] <= matched[a]
    <3>1. r.counters[a] \in Nat
      BY <1>6, SnapshotValue DEF Requests
    <3>2. r.counters[a] <= redis[a]
      BY <1>3, <1>6, <2>1 DEF NotOverstated
    <3> QED
      BY <1>6, <1>8, <3>1, <3>2
  <2> QED
    BY <2>1 DEF NotOverstated
<1>10. c \in calm => AddsUp(r)
  <2> SUFFICES ASSUME c \in calm PROVE AddsUp(r)
    OBVIOUS
  <2>1. AddsUp(req[c])
    BY <1>3
  <2>2. ASSUME NEW a \in intact
        PROVE  /\ r.since.matched[a] <= r.pending[a] + redis[a]
               /\ r.pending[a] + redis[a] <= matched[a]
    <3>1. deltas[a] = 0
      BY <1>8, <2>1 DEF AddsUp, Zero
    <3>2. r.since.matched[a] <= matched[a]
      BY <1>3, <1>6, <1>8 DEF BoundedNow, InBounds
    <3> QED
      BY <1>6, <1>8, <3>1, <3>2
  <2> QED
    BY <1>6, <2>1, <2>2 DEF AddsUp
<1>11. r.kind # "none"
  BY <1>3, <1>6 DEF Kinds
<1>12. Becomes(c, r)
  BY <1>1, <1>2, <1>4, <1>6, <1>7, <1>9, <1>10, <1>11
  DEF Becomes, ReadPending, Got
<1> QED
  BY <1>12, OneRequest

(* A reply of Redis holds what its keys hold, or nothing. *)
LEMMA CountersValue ==
  ASSUME ExporterTypeOK
  PROVE  /\ Counters.outcome \in Outcomes \ {"none"}
         /\ Counters.counters \in Snapshots
         /\ Counters.counters = Parsed \/ DOMAIN Counters.counters = {}
         /\ Counters.outcome \in {"ok", "malformed"} => Counters.counters = Parsed
<1>1. Parsed \in Snapshots
  <2>1. Parsed \in [{b \in Actions : redis[b] >= 0} -> Nat]
    BY DEF Parsed, ExporterTypeOK, Missing, Garbage
  <2> QED
    BY <2>1 DEF Snapshots
<1>2. NoCounters \in Snapshots /\ DOMAIN NoCounters = {}
  <2>1. <<>> \in [{} -> Nat]
    OBVIOUS
  <2> QED
    BY <2>1 DEF NoCounters, Snapshots
<1> QED
  BY <1>1, <1>2 DEF Counters, Outcomes

(* The total of Redis, and the error of the scrape that could not read it. *)
LEMMA CountersRequests ==
  ASSUME ReadInv, NEW c \in Clients, ReadCounters(c)
  PROVE  RequestInv'
<1>1. PICK q : q = [req[c] EXCEPT !.counters = Counters.counters,
                                  !.outcome = Counters.outcome]
  OBVIOUS
<1>2. PICK r : r = [q EXCEPT !.next = @ + 1]
  OBVIOUS
<1>3. /\ req[c] \in Requests /\ req[c].kind \in Kinds
      /\ BoundedNow(req[c]) /\ NotOverstated(req[c])
      /\ c \in calm => AddsUp(req[c])
      /\ \/ req[c].kind = "scrape" /\ req[c].next = 4
         \/ req[c].kind = "page" /\ req[c].next = 1
  BY Positions DEF ReadInv, ReadCounters
<1>4. /\ UNCHANGED <<flushVars, redisVars, calm>>
      /\ redisErrors \in Nat /\ lines \in Nat /\ matched \in Totals
  <2>1. redisErrors \in Nat /\ lines \in Nat /\ matched \in Totals
    BY DEF ReadInv, ExporterTypeOK, CounterTypeOK, Totals
  <2> QED
    BY <2>1 DEF ReadCounters, histVars
<1>5. /\ Counters.outcome \in Outcomes \ {"none"}
      /\ Counters.counters \in Snapshots
      /\ Counters.counters = Parsed \/ DOMAIN Counters.counters = {}
      /\ Counters.outcome \in {"ok", "malformed"} => Counters.counters = Parsed
  BY CountersValue DEF ReadInv
<1>6. q \in Requests /\ q.next = req[c].next /\ q.kind = req[c].kind
      /\ q.since = req[c].since /\ q.outcome = Counters.outcome
      /\ q.counters = Counters.counters /\ q.lines = req[c].lines
      /\ q.matched = req[c].matched /\ q.pending = req[c].pending
  BY <1>1, <1>3, <1>5 DEF Requests
<1>7. r \in Requests /\ r.next = req[c].next + 1 /\ r.kind = req[c].kind
      /\ r.since = req[c].since /\ r.outcome = Counters.outcome
      /\ r.counters = Counters.counters /\ r.lines = req[c].lines
      /\ r.matched = req[c].matched /\ r.pending = req[c].pending
  BY <1>2, <1>6 DEF Requests
<1>8. /\ redisErrors' \in Nat /\ redisErrors <= redisErrors'
      /\ r.kind = "scrape" => redisErrors + Failed(r) <= redisErrors'
  BY <1>4, <1>7 DEF ReadCounters, CountError, Failed
<1>9. InBounds(r, lines, matched, redisErrors')
  <2>1. r.kind = "scrape" => r.since.errors + Failed(r) <= redisErrors'
    BY <1>3, <1>4, <1>7, <1>8 DEF BoundedNow, InBounds, Requests, Failed
  <2>2. r.since.errors <= redisErrors'
    BY <1>3, <1>4, <1>7, <1>8 DEF BoundedNow, InBounds, Requests
  <2> QED
    BY <1>3, <1>4, <1>7, <2>1, <2>2 DEF BoundedNow, InBounds, Requests, Totals
<1>10. NotOverstated(r)
  <2>1. ASSUME NEW a \in intact \cap DOMAIN r.counters
        PROVE  r.counters[a] <= redis[a]
    <3>1. r.counters = Parsed /\ a \in DOMAIN Parsed
      BY <1>5, <1>7
    <3>2. Parsed[a] = redis[a] /\ redis[a] \in Nat
      BY <3>1 DEF Parsed, ReadInv, ExporterTypeOK, Missing, Garbage
    <3> QED
      BY <3>1, <3>2
  <2> QED
    BY <1>3, <1>7, <2>1 DEF NotOverstated
<1>11. c \in calm => AddsUp(r)
  BY <1>3, <1>5, <1>7 DEF AddsUp
<1>12. r.kind # "none"
  BY <1>3, <1>7 DEF Kinds
<1>13. Becomes(c, r)
  BY <1>1, <1>2, <1>4, <1>7, <1>8, <1>9, <1>10, <1>11, <1>12
  DEF Becomes, ReadCounters, Got
<1> QED
  BY <1>13, OneRequest

(* The number of errors, the scrape's own among them, is read last. *)
LEMMA ErrorsRequests ==
  ASSUME ReadInv, NEW c \in Clients, ReadErrors(c)
  PROVE  RequestInv'
<1>1. PICK q : q = [req[c] EXCEPT !.errors = redisErrors]
  OBVIOUS
<1>2. PICK r : r = [q EXCEPT !.next = @ + 1]
  OBVIOUS
<1>3. /\ req[c] \in Requests /\ BoundedNow(req[c])
      /\ c \in calm => AddsUp(req[c])
      /\ req[c].kind = "scrape" /\ req[c].next = 5
  BY Positions DEF ReadInv, ReadErrors
<1>4. /\ UNCHANGED <<flushVars, redisVars, redisErrors, calm>>
      /\ redisErrors \in Nat /\ lines \in Nat /\ matched \in Totals
  BY ReadingFrame
<1>5. q \in Requests /\ q.next = 5 /\ q.kind = "scrape" /\ q.lines = req[c].lines
      /\ q.since = req[c].since /\ q.outcome = req[c].outcome
      /\ q.counters = req[c].counters /\ q.matched = req[c].matched
      /\ q.pending = req[c].pending /\ q.errors = redisErrors
  BY <1>1, <1>3, <1>4 DEF Requests
<1>6. r \in Requests /\ r.next = 6 /\ r.kind = "scrape" /\ r.lines = req[c].lines
      /\ r.since = req[c].since /\ r.outcome = req[c].outcome
      /\ r.counters = req[c].counters /\ r.matched = req[c].matched
      /\ r.pending = req[c].pending /\ r.errors = redisErrors
  BY <1>2, <1>5 DEF Requests
<1>7. InBounds(r, lines, matched, redisErrors)
  BY <1>3, <1>4, <1>6 DEF BoundedNow, InBounds, Requests, Totals, Failed
<1>8. NotOverstated(r)
  BY <1>6 DEF NotOverstated
<1>9. c \in calm => AddsUp(r)
  BY <1>3, <1>6 DEF AddsUp
<1>10. Becomes(c, r)
  BY <1>1, <1>2, <1>4, <1>6, <1>7, <1>8, <1>9 DEF Becomes, ReadErrors, Got
<1> QED
  BY <1>10, OneRequest

(* The invariant of the requests is inductive. *)
LEMMA ReadStep == ReadInv /\ [Next]_vars => ReadInv'
<1> SUFFICES ASSUME ReadInv, [Next]_vars PROVE ReadInv'
  OBVIOUS
<1>1. ExporterTypeOK' /\ Conserved'
  BY ExporterTypeStep, ConservedStep DEF ReadInv
<1>2. CASE UNCHANGED vars
  <2>1. UNCHANGED <<req, intact, redis, deltas, calm, lines, matched, redisErrors>>
    BY <1>2 DEF vars, flushVars, redisVars, requestVars, histVars
  <2>2. Parsed' = Parsed
    BY <2>1 DEF Parsed
  <2>3. RequestInv'
    BY <2>1, <2>2 DEF ReadInv, RequestInv, Idle, BoundedNow, InBounds,
       NotOverstated, AddsUp
  <2> QED
    BY <1>1, <2>3 DEF ReadInv
<1>3. CASE Background
  BY <1>1, <1>3, BackgroundRequests DEF ReadInv
<1>4. CASE RequestStep
  <2>1. RequestInv'
    BY <1>4, BeginRequests, LeaveRequests, LinesRequests, MatchedRequests,
       PendingRequests, CountersRequests, ErrorsRequests
    DEF RequestStep, Answer
  <2> QED
    BY <1>1, <2>1 DEF ReadInv
<1> QED
  BY <1>2, <1>3, <1>4, NextCases

(* How far a request is when it has been answered. *)
LEMMA AnsweredPosition ==
  ASSUME RequestInv, NEW c \in Clients, Answered(c)
  PROVE  /\ req[c] \in Requests /\ req[c].kind \in Kinds
         /\ BoundedNow(req[c]) /\ NotOverstated(req[c])
         /\ req[c].kind = "scrape" => req[c].next > 5
         /\ req[c].next > 3
<1>1. /\ req[c] \in Requests /\ req[c].kind \in Kinds
      /\ BoundedNow(req[c]) /\ NotOverstated(req[c])
  BY DEF RequestInv, Answered, Idle, Requests
<1>2. CASE req[c].kind = "scrape"
  <2>1. Len(Order(req[c].kind)) = 5
    BY <1>2 DEF Order
  <2> QED
    BY <1>1, <2>1 DEF Answered, Requests
<1>3. CASE req[c].kind = "page"
  <2>1. Len(Order(req[c].kind)) = 3
    BY <1>3 DEF Order
  <2> QED
    BY <1>1, <1>3, <2>1 DEF Answered, Requests
<1> QED
  BY <1>1, <1>2, <1>3 DEF Kinds

(* The page's order of reads, Redis before the buffer, is what makes a     *)
(* flush between the two harmless.                                         *)
THEOREM PageNeverOverstatesCorrect == Spec => []PageNeverOverstates
<1>1. ReadInv => PageNeverOverstates
  <2> SUFFICES ASSUME ReadInv, NEW c \in Clients, Answered(c),
                      req[c].kind = "page",
                      NEW a \in intact \cap DOMAIN req[c].counters
               PROVE  req[c].counters[a] + req[c].pending[a] <= matched[a]
    BY DEF PageNeverOverstates
  <2>1. NotOverstated(req[c]) /\ req[c].next > 3
    BY AnsweredPosition DEF ReadInv
  <2> QED
    BY <2>1 DEF NotOverstated
<1> QED
  BY <1>1, ReadInit, ReadStep, PTL DEF Spec

(* Every series of the exporter only grows, from any scrape to any later   *)
(* one, whatever the flushes and the other requests do in between.         *)
THEOREM ScrapeInBoundsCorrect == Spec => []ScrapeInBounds
<1>1. ReadInv => ScrapeInBounds
  <2> SUFFICES ASSUME ReadInv, NEW c \in Clients, Answered(c)
               PROVE  /\ \A a \in Actions :
                           req[c].matched[a] \in req[c].since.matched[a]..matched[a]
                      /\ req[c].kind = "scrape" =>
                           /\ req[c].lines \in req[c].since.lines..lines
                           /\ req[c].errors \in
                                (req[c].since.errors +
                                 (IF req[c].kind = "scrape" /\ req[c].outcome # "ok"
                                  THEN 1 ELSE 0))..redisErrors
    BY DEF ScrapeInBounds
  <2>1. /\ req[c] \in Requests /\ BoundedNow(req[c])
        /\ req[c].kind = "scrape" => req[c].next > 5
        /\ req[c].next > 3
    BY AnsweredPosition DEF ReadInv
  <2>2. lines \in Nat /\ redisErrors \in Nat /\ matched \in Totals
    BY DEF ReadInv, ExporterTypeOK, CounterTypeOK, Totals
  <2>3. \A a \in Actions :
           req[c].matched[a] \in req[c].since.matched[a]..matched[a]
    BY <2>1, <2>2 DEF BoundedNow, InBounds, Requests, Totals
  <2>4. ASSUME req[c].kind = "scrape"
        PROVE  /\ req[c].lines \in req[c].since.lines..lines
               /\ req[c].errors \in
                    (req[c].since.errors + Failed(req[c]))..redisErrors
    BY <2>1, <2>2, <2>4 DEF BoundedNow, InBounds, Requests, Failed
  <2> QED
    BY <2>3, <2>4 DEF Failed
<1> QED
  BY <1>1, ReadInit, ReadStep, PTL DEF Spec

(* When no flush and no key change falls into a request, buffer and Redis  *)
(* add up in its answer - also when the key of another word is unreadable. *)
THEOREM NumbersAddUpCorrect == Spec => []NumbersAddUp
<1>1. ReadInv => NumbersAddUp
  <2> SUFFICES ASSUME ReadInv, NEW c \in calm, Answered(c),
                      req[c].outcome \in {"ok", "malformed"}, NEW a \in intact
               PROVE  /\ a \in DOMAIN req[c].counters
                      /\ req[c].pending[a] + req[c].counters[a]
                             \in req[c].since.matched[a]..matched[a]
    BY DEF NumbersAddUp
  <2>1. c \in Clients /\ a \in Actions
    BY DEF ReadInv, ExporterTypeOK
  <2>2. req[c] \in Requests /\ req[c].next > 3 /\ AddsUp(req[c])
    BY <2>1, AnsweredPosition DEF ReadInv, RequestInv
  <2>3. req[c].counters = Parsed /\ redis[a] >= 0 /\ redis[a] \in Nat
        /\ matched[a] \in Nat
    BY <2>1, <2>2
    DEF AddsUp, ReadInv, Conserved, ExporterTypeOK, CounterTypeOK, Missing, Garbage
  <2>4. a \in DOMAIN req[c].counters /\ req[c].counters[a] = redis[a]
    BY <2>1, <2>3 DEF Parsed
  <2>5. /\ req[c].since.matched[a] <= req[c].pending[a] + redis[a]
        /\ req[c].pending[a] + redis[a] <= matched[a]
        /\ req[c].since.matched[a] \in Nat /\ req[c].pending[a] \in Nat
    BY <2>1, <2>2 DEF AddsUp, Requests, Totals
  <2> QED
    BY <2>3, <2>4, <2>5
<1> QED
  BY <1>1, ReadInit, ReadStep, PTL DEF Spec
-----------------------------------------------------------------------------
(* Outages. *)

(* A request that is not past its read of Redis keeps the client of Redis  *)
(* open, and one that is in flight when Redis is unreachable has seen it.  *)
OutageInv ==
    /\ \A c \in Clients : ~Idle(c) =>
          /\ mode = "down" \/ req[c].outcome = "unavailable" => c \in sawOutage
          /\ req[c].kind = "scrape" /\ req[c].next <= 4 => Reading(c)
          /\ req[c].kind = "page" /\ req[c].next <= 1 => Reading(c)
    /\ server = "new" => \A c \in Clients : Idle(c)
    /\ server \in {"stopped", "closed", "exited"} =>
          \A c \in Clients : ~Reading(c)

(* The daemon and the server: the client of Redis is closed behind the     *)
(* last read.                                                              *)
LEMMA BackgroundOutage ==
  ASSUME ReadInv, OutageInv, Background
  PROVE  OutageInv'
<1> USE DEF flushVars, redisVars, requestVars, histVars, serverOnly
<1>1. req' = req
  BY BackgroundFrame DEF ReadInv
<1>2. CASE ServerStep
  <2>1. UNCHANGED <<mode, sawOutage>>
    BY <1>2 DEF ServerStep, Bind, ServerFails, Stop, ShutdownDone,
       ShutdownGivesUp, CloseStore, Exit
  <2>2. server' # "new"
    BY <1>2 DEF ServerStep, Bind, ServerFails, Stop, ShutdownDone,
       ShutdownGivesUp, CloseStore, Exit
  <2>3. server' \in {"stopped", "closed", "exited"} =>
           \A c \in Clients : ~Reading(c)
    BY <1>2 DEF ServerStep, Bind, ServerFails, Stop, ShutdownDone, InFlight,
       ShutdownGivesUp, CloseStore, Exit, OutageInv, Reading
  <2> QED
    BY <1>1, <2>1, <2>2, <2>3 DEF OutageInv, Idle, Reading
<1>3. CASE RedisFails
  <2>1. \A c \in Clients : ~Idle(c) => c \in InFlight
    BY DEF InFlight
  <2>2. UNCHANGED server
    BY <1>3 DEF RedisFails
  <2>3. \A c \in Clients : ~Idle(c) =>
           (mode' = "down" \/ req[c].outcome = "unavailable" => c \in sawOutage')
    BY <1>3, <2>1 DEF RedisFails, OutageInv
  <2> QED
    BY <1>1, <2>2, <2>3 DEF OutageInv, Idle, Reading
<1>4. CASE RedisRecovers
  BY <1>1, <1>4 DEF RedisRecovers, OutageInv, Idle, Reading
<1>5. ASSUME \/ \E S \in LogLines : Line(S)
             \/ FlushStep \/ \E a \in Actions : KeyChanges(a)
      PROVE  UNCHANGED <<mode, server, sawOutage>>
  BY <1>5 DEF Line, FlushStep, FlushTakes, FlushPosts, FlushPostsUnheard,
     FlushRestores, KeyChanges
<1>6. CASE UNCHANGED <<mode, server, sawOutage>>
  BY <1>1, <1>6 DEF OutageInv, Idle, Reading
<1> QED
  BY <1>2, <1>3, <1>4, <1>5, <1>6 DEF Background, Environment

(* A request that has read the part that makes it q. *)
LEMMA GotOutage ==
  ASSUME ReadInv, OutageInv, NEW c \in Clients, NEW q \in Requests, Got(c, q),
         UNCHANGED <<mode, server, sawOutage>>,
         q.kind = req[c].kind, q.next = req[c].next, q.outcome = req[c].outcome,
         ~Idle(c), q.kind = "page" => q.next > 1
  PROVE  OutageInv'
<1>1. req \in [Clients -> Requests]
  BY DEF ReadInv, RequestInv
<1>2. PICK r : r = [q EXCEPT !.next = @ + 1]
  OBVIOUS
<1>3. r.kind = q.kind /\ r.outcome = q.outcome /\ r.next = q.next + 1
      /\ q.next \in Nat
  BY <1>2 DEF Requests
<1>4. req'[c] = r /\ \A d \in Clients \ {c} : req'[d] = req[d]
  BY <1>1, <1>2 DEF Got
<1>5. ASSUME NEW d \in Clients
      PROVE  Idle(d)' = Idle(d) /\ Reading(d)' = Reading(d)
  BY <1>3, <1>4 DEF Idle, Reading
<1> QED
  BY <1>3, <1>4, <1>5 DEF OutageInv

(* A part other than Redis. *)
LEMMA CounterReadOutage ==
  ASSUME ReadInv, OutageInv, NEW c \in Clients,
         ReadLines(c) \/ ReadMatched(c) \/ ReadPending(c) \/ ReadErrors(c)
  PROVE  OutageInv'
<1> USE DEF histVars, redisVars
<1>1. /\ redisErrors \in Nat /\ lines \in Nat /\ matched \in Totals
      /\ pending \in Totals
  BY ReadingFrame
<1>2. CASE ReadLines(c)
  <2>1. req[c] \in Requests /\ ~Idle(c) /\ req[c].kind = "scrape"
    BY <1>2, Positions DEF ReadInv, ReadLines
  <2>2. PICK q : q = [req[c] EXCEPT !.lines = lines]
    OBVIOUS
  <2>3. q \in Requests /\ q.kind = req[c].kind /\ q.next = req[c].next
        /\ q.outcome = req[c].outcome
    BY <1>1, <2>1, <2>2 DEF Requests
  <2>4. Got(c, q) /\ UNCHANGED <<mode, server, sawOutage>>
    BY <1>2, <2>2 DEF ReadLines
  <2> QED
    BY <2>1, <2>3, <2>4, GotOutage
<1>3. CASE ReadMatched(c)
  <2>1. req[c] \in Requests /\ ~Idle(c) /\ req[c].next = 2
    BY <1>3, Positions DEF ReadInv, ReadMatched
  <2>2. PICK q : q = [req[c] EXCEPT !.matched = matched]
    OBVIOUS
  <2>3. q \in Requests /\ q.kind = req[c].kind /\ q.next = req[c].next
        /\ q.outcome = req[c].outcome
    BY <1>1, <2>1, <2>2 DEF Requests
  <2>4. Got(c, q) /\ UNCHANGED <<mode, server, sawOutage>>
    BY <1>3, <2>2 DEF ReadMatched
  <2> QED
    BY <2>1, <2>3, <2>4, GotOutage
<1>4. CASE ReadPending(c)
  <2>1. req[c] \in Requests /\ ~Idle(c) /\ req[c].next = 3
    BY <1>4, Positions DEF ReadInv, ReadPending
  <2>2. PICK q : q = [req[c] EXCEPT !.pending = pending]
    OBVIOUS
  <2>3. q \in Requests /\ q.kind = req[c].kind /\ q.next = req[c].next
        /\ q.outcome = req[c].outcome
    BY <1>1, <2>1, <2>2 DEF Requests
  <2>4. Got(c, q) /\ UNCHANGED <<mode, server, sawOutage>>
    BY <1>4, <2>2 DEF ReadPending
  <2> QED
    BY <2>1, <2>3, <2>4, GotOutage
<1>5. CASE ReadErrors(c)
  <2>1. req[c] \in Requests /\ ~Idle(c) /\ req[c].next = 5
    BY <1>5, Positions DEF ReadInv, ReadErrors
  <2>2. PICK q : q = [req[c] EXCEPT !.errors = redisErrors]
    OBVIOUS
  <2>3. q \in Requests /\ q.kind = req[c].kind /\ q.next = req[c].next
        /\ q.outcome = req[c].outcome
    BY <1>1, <2>1, <2>2 DEF Requests
  <2>4. Got(c, q) /\ UNCHANGED <<mode, server, sawOutage>>
    BY <1>5, <2>2 DEF ReadErrors
  <2> QED
    BY <2>1, <2>3, <2>4, GotOutage
<1> QED
  BY <1>2, <1>3, <1>4, <1>5

(* The read of Redis, which cannot meet a closed client. *)
LEMMA CountersOutage ==
  ASSUME ReadInv, OutageInv, NEW c \in Clients, ReadCounters(c),
         "short" \notin Troubles
  PROVE  OutageInv'
<1>1. /\ req[c] \in Requests /\ ~Idle(c)
      /\ req[c].kind = "scrape" => req[c].next = 4
      /\ req[c].kind = "page" => req[c].next = 1
      /\ req[c].kind \in Kinds
      /\ req \in [Clients -> Requests]
  BY Positions DEF ReadInv, ReadCounters, RequestInv
<1>2. UNCHANGED <<mode, server, sawOutage>>
  BY DEF ReadCounters, histVars, redisVars
<1>3. Reading(c)
  BY <1>1 DEF OutageInv, Kinds
<1>4. server # "closed" /\ server # "new" /\ mode # "short"
  BY <1>1, <1>3, ExporterAssumption DEF OutageInv, ReadInv, ExporterTypeOK
<1>5. Counters.outcome = "unavailable" => mode = "down"
  BY <1>4 DEF Counters
<1>6. Counters.outcome # "none" /\ Counters.outcome \in Outcomes
      /\ Counters.counters \in Snapshots
  BY CountersValue DEF ReadInv
<1>7. PICK q : q = [req[c] EXCEPT !.counters = Counters.counters,
                                  !.outcome = Counters.outcome]
  OBVIOUS
<1>8. q \in Requests /\ q.kind = req[c].kind /\ q.next = req[c].next
      /\ q.outcome = Counters.outcome
  BY <1>1, <1>6, <1>7 DEF Requests
<1>9. PICK r : r = [q EXCEPT !.next = @ + 1]
  OBVIOUS
<1>10. r.kind = q.kind /\ r.outcome = q.outcome /\ r.next = q.next + 1
  BY <1>8, <1>9 DEF Requests
<1>11. req'[c] = r /\ \A d \in Clients \ {c} : req'[d] = req[d]
  BY <1>1, <1>7, <1>9 DEF ReadCounters, Got
<1>12. ASSUME NEW d \in Clients, d # c
       PROVE  Idle(d)' = Idle(d) /\ Reading(d)' = Reading(d)
  BY <1>11, <1>12 DEF Idle, Reading
<1>13. ~Idle(c)' /\ ~Reading(c)'
  BY <1>1, <1>6, <1>8, <1>10, <1>11 DEF Idle, Reading
<1>14. /\ mode' = "down" \/ r.outcome = "unavailable" => c \in sawOutage'
       /\ ~(r.kind = "scrape" /\ r.next <= 4) /\ ~(r.kind = "page" /\ r.next <= 1)
  BY <1>1, <1>2, <1>5, <1>8, <1>10 DEF OutageInv
<1> QED
  BY <1>2, <1>4, <1>11, <1>12, <1>13, <1>14 DEF OutageInv

(* Every step keeps the invariant of the outages. *)
LEMMA OutageStep ==
  ASSUME ReadInv, OutageInv, [Next]_vars, "short" \notin Troubles
  PROVE  OutageInv'
<1>1. CASE UNCHANGED vars
  BY <1>1 DEF vars, redisVars, requestVars, histVars, OutageInv, Idle, Reading
<1>2. CASE Background
  BY <1>2, BackgroundOutage
<1>3. ASSUME NEW c \in Clients, NEW kind \in Kinds, Begin(c, kind)
      PROVE  OutageInv'
  <2>1. PICK r : r = NewRequest(kind)
    OBVIOUS
  <2>2. r.kind = kind /\ r.next = 1 /\ r.outcome = "none"
    BY <2>1 DEF NewRequest, NoRequest
  <2>3. req'[c] = r /\ \A d \in Clients \ {c} : req'[d] = req[d]
    BY <1>3, <2>1 DEF Begin, ReadInv, RequestInv
  <2>4. UNCHANGED <<mode, server>> /\ server \in {"listening", "failed"}
    BY <1>3 DEF Begin, redisVars, Counting
  <2>5. sawOutage \subseteq sawOutage' /\ (mode = "down" => c \in sawOutage')
    BY <1>3 DEF Begin
  <2> QED
    BY <2>2, <2>3, <2>4, <2>5 DEF OutageInv, Idle, Reading, Kinds
<1>4. ASSUME NEW c \in Clients, Leave(c) PROVE OutageInv'
  <2>1. Idle(c)' /\ \A d \in Clients \ {c} : req'[d] = req[d]
    BY <1>4 DEF Leave, ReadInv, RequestInv, NoRequest, Idle
  <2>2. UNCHANGED <<mode, server>> /\ sawOutage' = sawOutage \ {c}
    BY <1>4 DEF Leave, redisVars
  <2> QED
    BY <2>1, <2>2 DEF OutageInv, Idle, Reading
<1>5. ASSUME NEW c \in Clients, Answer(c) PROVE OutageInv'
  BY <1>5, CounterReadOutage, CountersOutage DEF Answer
<1> QED
  BY <1>1, <1>2, <1>3, <1>4, <1>5, NextCases DEF RequestStep

(* A Redis that can be reached is never reported as unreachable, in        *)
(* particular not by the scrape that falls into the end of the process;    *)
(* the one exception, a reply of MGET that is too short, is excluded.      *)
THEOREM NoFalseOutageCorrect ==
  ASSUME "short" \notin Troubles
  PROVE  Spec => []NoFalseOutage
<1>1. Init => OutageInv
  BY DEF Init, OutageInv, Idle, NoRequest
<1>2. ReadInv /\ OutageInv => NoFalseOutage
  BY DEF OutageInv, NoFalseOutage, Answered, RedisUp
<1>3. ReadInv /\ OutageInv /\ [Next]_vars => OutageInv'
  BY OutageStep
<1> QED
  BY <1>1, <1>2, <1>3, ReadInit, ReadStep, PTL DEF Spec
=============================================================================
