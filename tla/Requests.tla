------------------------------ MODULE Requests ------------------------------
(***************************************************************************)
(* The web service at work on calls that come in at once: what each asks   *)
(* for, the productions they share through the caches, the two queries of  *)
(* a grid, which run beside each other, and the answer.  The caches are    *)
(* taken by their contract (CacheContract): a call gets the production of  *)
(* its key that is in the cache and not too old, or begins one.            *)
(***************************************************************************)
EXTENDS Service, Metrics

CONSTANTS
    Calls,       \* the calls, each a connection's task
    Plans,       \* what they may ask for: a sequence of assignments of HTTP requests
    Strikes,     \* the strikes of the table, in the order they are imported
    Clusters,    \* the clusters stored
    Start,       \* the second at which all begins
    AtFirst,   \* how many strikes are there from the start
    MaxTicks,    \* bounds the clock, which goes by 30 seconds
    MaxFailures  \* bounds the failing queries

ASSUME StartAssumption == Start \in Nat
ASSUME BoundsAssumption == MaxTicks \in Nat /\ MaxFailures \in Nat /\ AtFirst \in 0 .. Len(Strikes)

VARIABLES
    asked,       \* what each call asks for
    now,         \* the clock
    imported,    \* strikes imported so far
    call,        \* the state of each call
    prod,        \* the production a call has begun, the producer of its key
    hist,        \* the histogram it has begun
    cached,      \* the calls whose production is the cache's entry of its key
    histcached,  \* the same, of the histogram cache
    checked,     \* check_count
    usage,       \* usage entries recorded, in order
    metrics,     \* the bag of datagrams sent
    failures     \* queries that failed

vars == <<asked, now, imported, call, prod, hist, cached, histcached, checked,
          usage, metrics, failures>>

(* What a call asks for *)

Peer == "peer"

\* A call of a data method with numbers for arguments: the reason it is
\* rejected for, its parameters, its keys and its grid.
JobOf(parsed, request) ==
    LET method == parsed.call.method
        given == Coerced(parsed.call)
        p == Clamped(method, given)
        reason == ForbiddenReason(method, request, given)
        grid == method \in GridMethods /\ reason = "none"
    IN  [reason |-> reason, given |-> given, params |-> p, key |-> CacheKey(method, p),
         histkey |-> IF grid THEN HistogramKey(method, p) ELSE << >>,
         grid |-> IF grid THEN GridOf(method, p) ELSE << >>]

\* All that follows from an HTTP request alone.
Asking(http) ==
    LET parsed == Parsed(Content(http))
        request == RequestFromHeaders(http.headers, Peer)
        dispatched == Allowed(http) /\ "call" \in DOMAIN parsed
    IN  [http |-> http, request |-> request, parsed |-> parsed, dispatched |-> dispatched,
         method |-> IF dispatched THEN parsed.call.method ELSE "none",
         job |-> IF dispatched /\ parsed.call.method \in DataMethods /\ Coercible(parsed.call.args)
                 THEN << JobOf(parsed, request) >> ELSE << >>]

\* A JSON value that reaches a handler: its numbers are integers, or halves of one.
IsValue(v) ==
    \/ v.t \in {"int", "digits", "float"} /\ v.v \in Int
    \/ v.t \in {"null", "bool", "text", "decimal", "endless", "array", "object"}

ASSUME ValuesAssumption ==
    \A n \in DOMAIN Plans, c \in Calls :
        LET parsed == Parsed(Content(Plans[n][c]))
        IN  "call" \in DOMAIN parsed =>
               \A i \in DOMAIN parsed.call.args : IsValue(parsed.call.args[i])

\* The clusters that bo-cluster stores are as long as a smallint holds, and not
\* of a length that a request of up to a day is cut off to.
CutOffs == {60 * k + 44 : k \in 0 .. 347}
Uncut(seconds) == seconds \in Nat \ {0} /\ seconds <= 32767 /\ seconds \notin CutOffs

ASSUME ClustersAssumption == \A i \in DOMAIN Clusters : Uncut(Clusters[i].seconds)

\* The strikes of the table, and the cells, which have a size.
ASSUME StrikesAssumption ==
    Strikes \in Seq([timestamp : Int, x : Int, y : Int, region : Int])
ASSUME CellsAssumption ==
    \A n \in VALID_GRID_BASE_LENGTHS : Cell[n].x \in Nat \ {0} /\ Cell[n].y \in Nat \ {0}

HttpOf(c) == asked[c].http
RequestOf(c) == asked[c].request
Asked(c) == asked[c].parsed
Dispatched(c) == asked[c].dispatched
Method(c) == asked[c].method
Wanted(c) == asked[c].job # << >>
Reason(c) == asked[c].job[1].reason
GivenBy(c) == asked[c].job[1].given
Params(c) == asked[c].job[1].params
KeyOf(c) == asked[c].job[1].key
HistKeyOf(c) == asked[c].job[1].histkey

\* A call that gets to the cache.
Served(c) == Wanted(c) /\ Reason(c) = "none"
IntervalOf(c) ==
    IF Method(c) \in ClusterMethods THEN ClusterTimeInterval(Params(c), prod[c].begun)
    ELSE TimeInterval(Params(c), prod[c].begun)
-----------------------------------------------------------------------------
NotBegun == [at |-> "none"]

Init ==
    /\ \E n \in DOMAIN Plans : asked = [c \in Calls |-> Asking(Plans[n][c])]
    /\ now = Start
    /\ imported = AtFirst
    /\ call = [c \in Calls |-> [at |-> "idle"]]
    /\ prod = [c \in Calls |-> NotBegun]
    /\ hist = [c \in Calls |-> NotBegun]
    /\ cached = {} /\ histcached = {}
    /\ checked = 0
    /\ usage = << >>
    /\ metrics = EmptyBag
    /\ failures = 0
-----------------------------------------------------------------------------
(* Answers *)

\* The fault of a request that did not parse, or the envelope of a result.
Finished(c, result, blocked, request, large) ==
    LET done == Rendered(Asked(c), result, blocked)
    IN  [at |-> "answered", http |-> HttpReply(HttpOf(c), request, large),
         reply |-> done.reply, outcome |-> done.outcome, when |-> now,
         since |-> IF call[c].at = "waiting" THEN call[c].since ELSE now]

Result(v) == [ok |-> TRUE, value |-> v]
Error == [ok |-> FALSE]
Empty == [kind |-> "empty"]

\* get_strikes gives nobody anything.
NoStrikes == [kind |-> "null"]
-----------------------------------------------------------------------------
(* Requests that are answered at once *)

\* 400 and 405, without a word to the service.
Refuse(c) ==
    /\ call[c].at = "idle"
    /\ ~Allowed(HttpOf(c))
    /\ call' = [call EXCEPT ![c] =
          [at |-> "refused",
           http |-> IF Malformed(HttpOf(c)) THEN Refusal(400, FALSE)
                    ELSE Refusal(405, WantsKeepAlive(HttpOf(c)))]]
    /\ UNCHANGED <<asked, now, imported, prod, hist, cached, histcached, checked, usage, metrics, failures>>

\* A fault of the dispatcher.
Fail(c) ==
    /\ call[c].at = "idle"
    /\ Allowed(HttpOf(c)) /\ ~Dispatched(c)
    /\ call' = [call EXCEPT ![c] =
          [at |-> "answered", http |-> HttpReply(HttpOf(c), RequestOf(c), FALSE),
           reply |-> Asked(c).reply, outcome |-> Asked(c).outcome, when |-> now,
           since |-> now]]
    /\ UNCHANGED <<asked, now, imported, prod, hist, cached, histcached, checked, usage, metrics, failures>>

\* check
CheckCount(c) ==
    /\ call[c].at = "idle"
    /\ Dispatched(c) /\ Method(c) = "check"
    /\ checked' = checked + 1
    /\ call' = [call EXCEPT ![c] =
          Finished(c, Result([kind |-> "count", count |-> checked + 1]), "none", RequestOf(c), FALSE)]
    /\ UNCHANGED <<asked, now, imported, prod, hist, cached, histcached, usage, metrics, failures>>

\* get_strikes has no answer but null; a data method has an empty one for
\* arguments that are no numbers, and for a client it rejects.
AnswerEmpty(c) ==
    /\ call[c].at = "idle"
    /\ Dispatched(c) /\ Method(c) # "check" /\ ~Served(c)
    /\ call' = [call EXCEPT ![c] =
          Finished(c,
              Result(IF Method(c) = "get_strikes" THEN NoStrikes ELSE Empty),
              IF Wanted(c) THEN Reason(c) ELSE "none", RequestOf(c), FALSE)]
    /\ UNCHANGED <<asked, now, imported, prod, hist, cached, histcached, checked, usage, metrics, failures>>
-----------------------------------------------------------------------------
(* The cache *)

\* An entry is used until it is older than the time to live of its cache.
Young(begun, ttl) == now - begun < ttl

Usable(c) ==
    {o \in cached : KeyOf(o) = KeyOf(c) /\ Young(prod[o].begun, TimeToLive(Params(c)))}

UsableHist(c) ==
    {h \in histcached : HistKeyOf(h) = HistKeyOf(c) /\ Young(hist[h].begun, HISTOGRAM_TTL)}

\* The producer of a grid that finds its histogram done counts it at once.
Ready(c) == WantsHistogram(Params(c)) /\ \E h \in UsableHist(c) : hist[h].at = "done"

Join(c) ==
    /\ call[c].at = "idle"
    /\ Served(c)
    /\ \E o \in Usable(c) :
          call' = [call EXCEPT ![c] = [at |-> "waiting", on |-> o, since |-> now]]
    /\ UNCHANGED <<asked, now, imported, prod, hist, cached, histcached, checked, usage, metrics, failures>>

\* The producer of a grid starts both of its queries at once, the histogram
\* through a cache of its own, where another producer may have begun it.
BeginGrid(c) ==
    /\ call[c].at = "idle"
    /\ Served(c) /\ Method(c) \in GridMethods /\ Usable(c) = {}
    /\ call' = [call EXCEPT ![c] = [at |-> "waiting", on |-> c, since |-> now]]
    /\ cached' = {o \in cached : KeyOf(o) # KeyOf(c)} \cup {c}
    /\ LET begun(on) == [at |-> "running", begun |-> now, rows |-> << >>, hist |-> on]
           own == WantsHistogram(Params(c)) /\ UsableHist(c) = {}
       IN  /\ \/ ~WantsHistogram(Params(c)) /\ prod' = [prod EXCEPT ![c] = begun(<< >>)]
              \/ own /\ prod' = [prod EXCEPT ![c] = begun(<< c >>)]
              \/ /\ WantsHistogram(Params(c))
                 /\ \E h \in UsableHist(c) : prod' = [prod EXCEPT ![c] = begun(<< h >>)]
           /\ IF own
              THEN /\ hist' = [hist EXCEPT ![c] = [at |-> "running", begun |-> now]]
                   /\ histcached' = {h \in histcached : HistKeyOf(h) # HistKeyOf(c)} \cup {c}
              ELSE UNCHANGED <<hist, histcached>>
    /\ metrics' = Also(metrics, ForGridQuery \cup (IF Ready(c) THEN ForHistogram ELSE {}))
    /\ UNCHANGED <<asked, now, imported, checked, usage, failures>>

\* The producer of clusters first looks for the newest stored.
BeginClusters(c) ==
    /\ call[c].at = "idle"
    /\ Served(c) /\ Method(c) \in ClusterMethods /\ Usable(c) = {}
    /\ call' = [call EXCEPT ![c] = [at |-> "waiting", on |-> c, since |-> now]]
    /\ cached' = {o \in cached : KeyOf(o) # KeyOf(c)} \cup {c}
    /\ prod' = [prod EXCEPT ![c] = [at |-> "running", begun |-> now, anchor |-> << >>]]
    /\ metrics' = Also(metrics, ForClustersQuery)
    /\ UNCHANGED <<asked, now, imported, hist, histcached, checked, usage, failures>>
-----------------------------------------------------------------------------
(* Queries *)

Table == SubSeq(Strikes, 1, imported)
GridRunning(c) == prod[c].at = "running" /\ "rows" \in DOMAIN prod[c]
ClustersRunning(c) == prod[c].at = "running" /\ "anchor" \in DOMAIN prod[c]

\* A histogram that nobody waits for, its producer having failed, stays where
\* it is until a producer waits for it again.
HistWaiting(h) == {c \in Calls : GridRunning(c) /\ prod[c].hist = << h >>}
HistWaited(h) == HistWaiting(h) # {}

\* Each producer that waits for a histogram counts it as it comes.
HistogramSent(h) == metrics (+) [d \in ForHistogram |-> Cardinality(HistWaiting(h))]

GridQueried(c) ==
    /\ GridRunning(c) /\ prod[c].rows = << >>
    /\ prod' = [prod EXCEPT ![c].rows = << GridRows(Method(c), Params(c), IntervalOf(c), Table) >>]
    /\ UNCHANGED <<asked, now, imported, call, hist, cached, histcached, checked, usage, metrics, failures>>

HistogramQueried(h) ==
    /\ hist[h].at = "running" /\ HistWaited(h)
    /\ LET interval == TimeInterval(Params(h), hist[h].begun)
           rows == HistogramRows(Method(h), Params(h), interval, Table)
       IN  hist' = [hist EXCEPT ![h] = [at |-> "done", begun |-> @.begun,
                        bins |-> BuildHistogram(Params(h).minute_length, rows)]]
    /\ metrics' = HistogramSent(h)
    /\ UNCHANGED <<asked, now, imported, call, prod, cached, histcached, checked, usage, failures>>

\* try_join has both.
BuildGrid(c) ==
    /\ GridRunning(c) /\ prod[c].rows # << >>
    /\ prod[c].hist # << >> => hist[prod[c].hist[1]].at = "done"
    /\ LET bins == IF prod[c].hist = << >> THEN << >> ELSE hist[prod[c].hist[1]].bins
           cells == BuildGridRows(Method(c), Params(c), IntervalOf(c), prod[c].rows[1])
       IN  prod' = [prod EXCEPT ![c] =
                 [at |-> "done", begun |-> @.begun, hist |-> @.hist,
                  value |-> BuildGridResponse(Method(c), Params(c), IntervalOf(c), cells, bins)]]
    /\ metrics' = Also(metrics, ForTotal(Method(c)))
    /\ UNCHANGED <<asked, now, imported, call, hist, cached, histcached, checked, usage, failures>>

\* select_clusters: only a window that ends now is moved back to the newest.
LookForNewest(c) ==
    /\ ClustersRunning(c) /\ prod[c].anchor = << >>
    /\ prod' = [prod EXCEPT ![c].anchor =
          << IF Params(c).minute_offset = 0
             THEN LatestTimestamp(IntervalOf(c), Params(c).interval_count,
                                  ClusterArea(Method(c), Params(c)), Clusters)
             ELSE IntervalOf(c).end >>]
    /\ metrics' = Also(metrics, IF Params(c).minute_offset = 0 THEN ForClustersQuery ELSE {})
    /\ UNCHANGED <<asked, now, imported, call, hist, cached, histcached, checked, usage, failures>>

BuildClusters(c) ==
    /\ ClustersRunning(c) /\ prod[c].anchor # << >>
    /\ LET interval == ReanchorInterval(IntervalOf(c), prod[c].anchor[1])
           found == SelectClusters(interval.end, 60 * Params(c).minute_length,
                                   Params(c).interval_count, ClusterArea(Method(c), Params(c)),
                                   Clusters)
       IN  prod' = [prod EXCEPT ![c] = [at |-> "done", begun |-> @.begun,
                                        value |-> BuildClustersResponse(interval, found)]]
    /\ metrics' = Also(metrics, ForTotal(Method(c)))
    /\ UNCHANGED <<asked, now, imported, call, hist, cached, histcached, checked, usage, failures>>

\* A production that fails leaves the cache: the calls that wait for it have
\* its failure, and no later one.
QueryFails(c) ==
    /\ failures < MaxFailures
    /\ \/ GridRunning(c) /\ prod[c].rows = << >>
       \/ ClustersRunning(c)
    /\ prod' = [prod EXCEPT ![c] = [at |-> "failed", begun |-> @.begun]]
    /\ cached' = cached \ {c}
    /\ failures' = failures + 1
    /\ UNCHANGED <<asked, now, imported, call, hist, histcached, checked, usage, metrics>>

\* A failed histogram fails every grid that waits for it.
HistogramFails(h) ==
    /\ failures < MaxFailures
    /\ hist[h].at = "running" /\ HistWaited(h)
    /\ LET hit == HistWaiting(h)
       IN  /\ prod' = [c \in Calls |-> IF c \in hit THEN [at |-> "failed", begun |-> prod[c].begun]
                                       ELSE prod[c]]
           /\ cached' = cached \ hit
    /\ hist' = [hist EXCEPT ![h] = [at |-> "failed", begun |-> @.begun]]
    /\ histcached' = histcached \ {h}
    /\ failures' = failures + 1
    /\ metrics' = HistogramSent(h)
    /\ UNCHANGED <<asked, now, imported, call, checked, usage>>
-----------------------------------------------------------------------------
(* The end of a call *)

\* Only the local grid does not look at the version of the client.
Fixed(c) ==
    IF Method(c) = "get_local_strikes_grid" THEN RequestOf(c)
    ELSE FixBadAcceptHeader(RequestOf(c))

AnswerResult(c) ==
    /\ call[c].at = "waiting" /\ prod[call[c].on].at = "done"
    /\ LET value == prod[call[c].on].value
           fill == IF Method(c) \in GridMethods THEN << GridFill(value) >> ELSE << >>
       IN  /\ \E large \in BOOLEAN :
                 call' = [call EXCEPT ![c] =
                    Finished(c, Result([kind |-> "data", data |-> value]), "none", Fixed(c), large)]
           /\ usage' = Append(usage, UsageEntry(Method(c), GivenBy(c), Params(c), fill,
                                                RequestOf(c), now))
    /\ metrics' = Also(metrics, ForAnswer(Method(c), Params(c)))
    /\ UNCHANGED <<asked, now, imported, prod, hist, cached, histcached, checked, failures>>

\* An error returns before the header is fixed and the request recorded.
AnswerError(c) ==
    /\ call[c].at = "waiting" /\ prod[call[c].on].at = "failed"
    /\ call' = [call EXCEPT ![c] = Finished(c, Error, "none", RequestOf(c), FALSE)]
    /\ UNCHANGED <<asked, now, imported, prod, hist, cached, histcached, checked, usage, metrics, failures>>

\* The clock and the table stand still when there is nobody left to answer.
Busy == \E c \in Calls : call[c].at \in {"idle", "waiting"}

Tick ==
    /\ Busy
    /\ now < Start + 30 * MaxTicks
    /\ now' = now + 30
    /\ UNCHANGED <<asked, imported, call, prod, hist, cached, histcached, checked, usage, metrics, failures>>

\* An importer stores a strike.
Import ==
    /\ Busy
    /\ imported < Len(Strikes)
    /\ imported' = imported + 1
    /\ UNCHANGED <<asked, now, call, prod, hist, cached, histcached, checked, usage, metrics, failures>>

AskedFor(c) ==
    Refuse(c) \/ Fail(c) \/ CheckCount(c) \/ AnswerEmpty(c) \/ Join(c) \/ BeginGrid(c) \/ BeginClusters(c)

Queried(c) ==
    \/ GridQueried(c) \/ HistogramQueried(c) \/ BuildGrid(c) \/ LookForNewest(c)
    \/ BuildClusters(c) \/ QueryFails(c) \/ HistogramFails(c)

Answered(c) == AnswerResult(c) \/ AnswerError(c)

\* Only here may the system stop.
AllAnswered == ~Busy /\ UNCHANGED vars

Next == (\E c \in Calls : AskedFor(c) \/ Queried(c) \/ Answered(c)) \/ Tick \/ Import \/ AllAnswered

Spec == Init /\ [][Next]_vars
-----------------------------------------------------------------------------
(* Properties *)

Shown(c) == call[c].at = "answered" /\ Served(c) /\ ~call[c].reply.fault
DataOf(c) == call[c].reply.content.data

\* The strikes of a window of a table of m, in the area of the call.
InWindow(c, start, end, m) ==
    LET g == asked[c].job[1].grid
    IN  {i \in 1 .. m :
            /\ Strikes[i].timestamp >= start /\ Strikes[i].timestamp < end
            /\ IsGlobal(Method(c)) \/ (Strikes[i].x \in g.xmin .. g.xmax /\ Strikes[i].y \in g.ymin .. g.ymax)}

\* The cell of size d that a coordinate of the globe lies in, counted from 0;
\* between two cells, the even one of them.
GlobalCell(a, d) ==
    LET k == a \div d IN IF a = k * d /\ k % 2 = 1 THEN k - 1 ELSE k

\* Where a client draws a strike in the picture v: columns from the left edge
\* x0, rows from the top edge y1; in the global one from meridian and equator.
Drawn(c, v, i) ==
    IF IsGlobal(Method(c))
    THEN << GlobalCell(Strikes[i].x, v.xd), -GlobalCell(Strikes[i].y, v.yd) - 1 >>
    ELSE << (Strikes[i].x - v.x0) \div v.xd, (v.y1 - Strikes[i].y - 1) \div v.yd >>

InPicture(c, v, cell) ==
    IsGlobal(Method(c)) \/ (cell[1] \in 0 .. v.xc - 1 /\ cell[2] \in 0 .. v.yc - 1)

\* What the picture of a call's own parameters should show.
Picture(c, v, m) ==
    LET struck == {i \in InWindow(c, v.t - v.dt, v.t, m) :
                      /\ Method(c) = "get_strikes_grid" => Strikes[i].region = Params(c).region
                      /\ InPicture(c, v, Drawn(c, v, i))}
        at(cell) == {i \in struck : Drawn(c, v, i) = cell}
    IN  {[x |-> cell[1], y |-> cell[2], count |-> Cardinality(at(cell)),
          age |-> Max({Strikes[i].timestamp : i \in at(cell)}) - v.t] :
            cell \in {d \in {Drawn(c, v, i) : i \in struck} :
                         Cardinality(at(d)) > Params(c).count_threshold}}

\* Seconds of clock at which the answer of a call may have been begun.
BegunFor(c) ==
    {prod[o].begun : o \in {q \in Calls : /\ prod[q].at = "done"
                                          /\ prod[q].begun <= call[c].since
                                          /\ call[c].since < prod[q].begun + TimeToLive(Params(c))}}

\* A grid answer is the picture of the call's own parameters, whoever's
\* production it shares: a window of its own length that ended, but for its
\* offset, less than the time to live before the call asked, and in every cell
\* the strikes that struck there, of its region and above its threshold.  The
\* parameters get there through a key, a list of values read by number, and
\* rows counted from the other end.
PictureOwn ==
    \A c \in Calls : Shown(c) /\ Method(c) \in GridMethods =>
        LET v == DataOf(c)
        IN  /\ v.dt = 60 * Params(c).minute_length
            /\ \E b \in BegunFor(c) : v.t = b + 60 * Params(c).minute_offset
            /\ \E m \in AtFirst .. imported : v.r = Picture(c, v, m)

\* A cluster answer shows just the stored clusters of the call's own length and
\* area whose times are at most as many steps before the end it tells as were
\* asked for; and that end is never later than the one asked for.
ClustersOwn ==
    \A c \in Calls : Shown(c) /\ Method(c) \in ClusterMethods =>
        LET v == DataOf(c)
            p == Params(c)
            fits(i) == /\ Clusters[i].seconds = v.dt
                       /\ \E k \in 0 .. p.interval_count - 1 : Clusters[i].timestamp = v.t - k * v.dt
                       /\ Method(c) = "get_local_clusters" =>
                             LET f == LocalFactory(p.x, p.y, p.data_area)
                             IN  /\ Clusters[i].x \in f.minlon .. f.maxlon
                                 /\ Clusters[i].y \in f.minlat .. f.maxlat
        IN  /\ v.dt = 60 * p.minute_length
            /\ v.clusters = {i \in DOMAIN Clusters : fits(i)}
            /\ \E b \in BegunFor(c) :
                  LET until == b - (b % 60) + 60 * p.minute_offset
                  IN  v.t <= until /\ (p.minute_offset < 0 => v.t = until)

\* The histogram of an answer has a bin for every full five minutes of its
\* window, and a bin counts the strikes of those minutes in the answer's area,
\* in a window that ended at most a minute before the picture's.  The last bin,
\* when nothing struck in it, may hold those of the rest before the first.
HistogramFits ==
    \A c \in Calls : Shown(c) /\ Method(c) \in GridMethods =>
        LET v == DataOf(c)
            bins == Params(c).minute_length \div 5
            ends == {hist[h].begun + 60 * Params(c).minute_offset :
                        h \in {q \in Calls : hist[q].at = "done"}}
        IN  IF Params(c).minute_length <= 10 THEN v.h = << >>
            ELSE /\ Len(v.h) = bins
                 /\ \E end \in ends, m \in AtFirst .. imported :
                       LET window == InWindow(c, end - v.dt, end, m)
                           struck(i) == Cardinality({s \in window :
                                           (end - Strikes[s].timestamp) \div 300 = bins - i})
                       IN  /\ end <= v.t /\ v.t < end + 60
                           /\ \A i \in 1 .. bins - 1 : v.h[i] = struck(i)
                           /\ \/ v.h[bins] = struck(bins)
                              \/ struck(bins) = 0 /\ v.h[bins] = struck(0)

\* The usage entry that tells of a call: its own parameters, as asked for
\* (the grid) or as used (all others), its client, and the fill it was shown.
TellsOf(e, c) ==
    LET p == Params(c)
        ua == RequestOf(c).useragent[1]
    IN  /\ e.timestamp = call[c].when
        /\ e.platform = (IF ua.client = "bo-ios" THEN "I" ELSE "A")
        /\ e.version = ua.version[1]
        /\ e.minute_offset = p.minute_offset
        /\ IF Method(c) \in GridMethods
           THEN /\ e.query = "G" /\ e.minute_length = p.minute_length
                /\ e.grid_baselength = << GivenBy(c).grid_base_length >>
                /\ e.fill = << << Cardinality(DataOf(c).r), DataOf(c).xc * DataOf(c).yc >> >>
           ELSE e.query = "C" /\ e.minute_length = p.interval_count * 10 /\ e.fill = << >>
        /\ e.region = (IF "region" \in DOMAIN p THEN p.region
                       ELSE IF "x" \in DOMAIN p THEN -1 ELSE 0)

\* A reply is in the dialect that its own request asked for and has its id,
\* whoever began the production.  The old dialect, which has no ids, is also
\* that of a request that is none, and of parameters of a wrong type.
InDialect(body, reply) ==
    IF reply.dialect = "pre1"
    THEN /\ reply.id = Null
         /\ \/ SelectVersion(body) = "pre1"
            \/ reply.fault /\ reply.content \in {INVALID_REQUEST, INVALID_PARAMS}
    ELSE /\ reply.dialect = SelectVersion(body) /\ reply.dialect # "invalid"
         /\ reply.id = Field(body, "id")

\* Every call leaves one trace that agrees with itself: a usage entry for just
\* the answers with data; none of that, nor a production, for one that is
\* rejected, blocked or malformed, whose reply and access line say the same; a
\* reply in the dialect and with the id of its own request; the checks are
\* counted without a gap; and no failure is kept in a cache.
OneTrace ==
    /\ Len(usage) = Cardinality({c \in Calls : Shown(c)})
    /\ \A c \in Calls : Shown(c) => \E i \in DOMAIN usage : TellsOf(usage[i], c)
    /\ \A c \in Calls :
          /\ ~Served(c) => prod[c].at = "none" /\ hist[c].at = "none"
          /\ call[c].at = "answered" =>
                /\ (call[c].outcome.label = "fault") = call[c].reply.fault
                /\ call[c].reply.fault => call[c].outcome.code = call[c].reply.content
                /\ (call[c].outcome.label = "BLOCKED") = (Wanted(c) /\ ~Served(c))
                /\ Wanted(c) /\ ~Served(c) => call[c].reply.content = Empty
                /\ InDialect(Content(HttpOf(c)), call[c].reply)
    /\ LET checks == {c \in Calls : call[c].at = "answered" /\ Method(c) = "check"}
       IN  {call[c].reply.content.count : c \in checks} = 1 .. Cardinality(checks)
    /\ \A c \in cached : prod[c].at # "failed"
    /\ \A h \in histcached : hist[h].at # "failed"

Copies(d) == IF BagIn(d, metrics) THEN metrics[d] ELSE 0
Count(key) == Copies(Incr(key))

\* The usage entries of grids ("G") or of clusters ("C"), of some regions: of
\* the whole globe is 0, of a local area -1.
Entries(query, regions) ==
    {i \in DOMAIN usage : usage[i].query = query /\ usage[i].region \in regions}

\* Counters of answers go with the usage log: as many of grids, and of those of
\* ten minutes; as many of clusters.
GridsTallied(total, bg, regions) ==
    /\ Count(total) = Cardinality(Entries("G", regions))
    /\ Count(bg) = Cardinality({i \in Entries("G", regions) : usage[i].minute_length = 10})
ClustersTallied(total, regions) == Count(total) = Cardinality(Entries("C", regions))

\* Productions begun, and those among them that want a histogram.
Begun(methods) == {c \in Calls : prod[c].at # "none" /\ Method(c) \in methods}
Wanting(state) == {c \in Begun(GridMethods) : prod[c].at \in state /\ WantsHistogram(Params(c))}

\* The counters add up, each to what another part of the service tells: those of
\* the answers, answers from a cache included, to the usage entries of the same
\* flavour and region, the totals to those of all, and the background count of all
\* clusters to those of its flavours; the queries to the productions begun, and the
\* timings to those that came to an end, however many calls shared them or failed
\* with them.
CountsAddUp ==
    /\ GridsTallied(<<"strikes_grid", "total_count">>, <<"strikes_grid", "bg_count">>, -1 .. MAX_REGION)
    /\ GridsTallied(<<"global_strikes_grid", "total_count">>, <<"global_strikes_grid", "bg_count">>, {0})
    /\ GridsTallied(<<"local_strikes_grid", "total_count">>, <<"local_strikes_grid", "bg_count">>, {-1})
    /\ \A r \in 1 .. MAX_REGION :
          GridsTallied(<<"strikes_grid", "total_count", r>>, <<"strikes_grid", "bg_count", r>>, {r})
    /\ ClustersTallied(<<"clusters", "total_count">>, -1 .. 0)
    /\ ClustersTallied(<<"global_clusters", "total_count">>, {0})
    /\ ClustersTallied(<<"local_clusters", "total_count">>, {-1})
    /\ Count(<<"clusters", "bg_count">>)
          = Count(<<"global_clusters", "bg_count">>) + Count(<<"local_clusters", "bg_count">>)
    /\ Count(<<"strikes_grid_query", "count">>) = Cardinality(Begun(GridMethods))
    /\ Count(<<"histogram", "query", "count">>)
          \in Cardinality(Wanting({"done"})) .. Cardinality(Wanting({"running", "done", "failed"}))
    /\ LET current == {c \in Begun(ClusterMethods) : Params(c).minute_offset = 0}
       IN  Count(<<"clusters_query", "count">>) - Cardinality(Begun(ClusterMethods))
             \in Cardinality({c \in current : prod[c].at = "done"}) .. Cardinality(current)
    /\ \A name \in {TotalOf(m) : m \in DataMethods} :
          Copies(Timing(<<name, "total">>))
             = Cardinality({c \in Begun(DataMethods) : prod[c].at = "done" /\ TotalOf(Method(c)) = name})

\* README.md: old Android clients never receive gzip.
OldClientsPlain ==
    \A c \in Calls :
        LET client == UserAgentClient(RequestOf(c))
        IN  call[c].at = "answered" /\ client # << >> /\ client[1].client = "bo-android"
            /\ client[1].version <= 177 => ~call[c].http.gzip
=============================================================================
