--------------------------- MODULE RequestsProofs ---------------------------
(***************************************************************************)
(* Proofs about Requests for every set of calls, whatever they ask for,    *)
(* and every table.                                                        *)
(***************************************************************************)
EXTENDS Requests, Lemmas

\* What a call asks for follows from its HTTP request.
AskedOf ==
    /\ DOMAIN asked = Calls
    /\ \A c \in Calls : asked[c] = Asking(HttpOf(c))

\* Every call has its state, and what it has begun has one.
Shapes ==
    /\ DOMAIN call = Calls /\ DOMAIN prod = Calls /\ DOMAIN hist = Calls
    /\ \A c \in Calls : "at" \in DOMAIN prod[c] /\ "at" \in DOMAIN hist[c]
    /\ cached \subseteq Calls /\ histcached \subseteq Calls
    /\ checked \in Nat
    /\ usage \in Seq(ToSet(usage))

\* Only a call that gets to the cache waits for it, or begins anything.
WaitsServed == \A c \in Calls : call[c].at = "waiting" => Served(c)
BegunServed == \A c \in Calls : ~Served(c) => prod[c].at = "none" /\ hist[c].at = "none"

\* Nothing that failed is in a cache.
NoneFailed ==
    /\ \A c \in cached : prod[c].at # "failed"
    /\ \A h \in histcached : hist[h].at # "failed"

\* The reply a of a call and its access line say the same.
Agree(c, a) ==
    /\ (a.outcome.label = "fault") = a.reply.fault
    /\ a.reply.fault => a.outcome.code = a.reply.content
    /\ (a.outcome.label = "BLOCKED") = (Wanted(c) /\ ~Served(c))
    /\ Wanted(c) /\ ~Served(c) => a.reply.content = Empty
    /\ InDialect(Content(HttpOf(c)), a.reply)

AllAgree == \A c \in Calls : call[c].at = "answered" => Agree(c, call[c])

\* The answers with data, and an entry for each of them.
ShownCalls == {c \in Calls : Shown(c)}

AllTold ==
    /\ IsFiniteSet(ShownCalls) /\ Len(usage) = Cardinality(ShownCalls)
    /\ \A c \in ShownCalls : \E i \in DOMAIN usage : TellsOf(usage[i], c)

\* The checks, and the numbers they were told.
Checks == {c \in Calls : call[c].at = "answered" /\ Method(c) = "check"}

AllCounted ==
    /\ IsFiniteSet(Checks) /\ checked = Cardinality(Checks)
    /\ {call[c].reply.content.count : c \in Checks} = 1 .. checked

\* What the calls ask for is one of the plans.
Planned == \A c \in Calls : \E n \in DOMAIN Plans : HttpOf(c) = Plans[n][c]

\* Productions are begun by calls that ask, in the past, and kept when begun.
Clocks ==
    /\ now \in Int
    /\ \A c \in Calls : prod[c].at # "none" =>
          "begun" \in DOMAIN prod[c] /\ prod[c].begun \in Int /\ prod[c].begun <= now
    /\ \A c \in Calls : call[c].at = "idle" => prod[c].at = "none"
    /\ \A o \in cached : prod[o].at # "none"

\* The production of o is of the key of c, and was begun less than the time to
\* live of its answer before `since`.
Serves(o, c, since) ==
    /\ o \in Calls /\ prod[o].at # "none"
    /\ Served(o) /\ Served(c) /\ KeyOf(o) = KeyOf(c)
    /\ prod[o].begun <= since /\ since < prod[o].begun + TimeToLive(Params(c))

WaitsForOwn ==
    \A c \in Calls : call[c].at = "waiting" => Serves(call[c].on, c, call[c].since)

ShowsOwn ==
    \A c \in Calls : Shown(c) =>
        \E o \in Calls : /\ Serves(o, c, call[c].since)
                         /\ prod[o].at = "done" /\ DataOf(c) = prod[o].value

\* Where a production of clusters may look for them: at the end of its interval,
\* or before that if it ends now.
GoodAnchor(c, a) ==
    /\ a \in Int /\ a <= IntervalOf(c).end
    /\ Params(c).minute_offset # 0 => a = IntervalOf(c).end

ClustersAt(c, a) ==
    BuildClustersResponse(ReanchorInterval(IntervalOf(c), a),
        SelectClusters(a, 60 * Params(c).minute_length, Params(c).interval_count,
                       ClusterArea(Method(c), Params(c)), Clusters))

Found(c) ==
    /\ prod[c].at = "running" =>
          /\ "rows" \notin DOMAIN prod[c] /\ "anchor" \in DOMAIN prod[c]
          /\ prod[c].anchor = << >> \/ \E a \in Int : prod[c].anchor = << a >> /\ GoodAnchor(c, a)
    /\ prod[c].at = "done" => \E a \in Int : GoodAnchor(c, a) /\ prod[c].value = ClustersAt(c, a)

ClustersFound == \A c \in Calls : Method(c) \in ClusterMethods => Found(c)

ShareInv == Planned /\ Clocks /\ WaitsForOwn /\ ShowsOwn /\ ClustersFound

TraceInv == WaitsServed /\ AllAgree /\ AllTold /\ AllCounted
CacheInv == BegunServed /\ NoneFailed
IInv == AskedOf /\ Shapes /\ TraceInv /\ CacheInv
-----------------------------------------------------------------------------
(* What a call asks for *)

\* A body is a call, or it is answered with a fault that the access line tells.
LEMMA ParsedIsCallOrFault ==
    ASSUME NEW body, "call" \notin DOMAIN Parsed(body)
    PROVE  /\ Parsed(body).outcome.label = "fault"
           /\ Parsed(body).reply.fault = TRUE
           /\ Parsed(body).outcome.code = Parsed(body).reply.content
<1> DEFINE IsFault(r) == /\ r.outcome.label = "fault" /\ r.reply.fault = TRUE
                         /\ r.outcome.code = r.reply.content
<1>1. \A d, i, k, m : IsFault(Reject(d, i, k, m))
  BY DEF Reject, Fault, Envelope
<1>2. "call" \in DOMAIN Parsed(body) \/ \E d, i, k, m : Parsed(body) = Reject(d, i, k, m)
  BY DEF Parsed, ParseError
<1>3. QED
  BY <1>1, <1>2

\* A fault is in the dialect of its body, or in the old one where there is none;
\* a call keeps the dialect and the id it asked for.
LEMMA ParsedDialect ==
    ASSUME NEW body
    PROVE  IF "call" \in DOMAIN Parsed(body)
           THEN /\ Parsed(body).dialect = SelectVersion(body)
                /\ Parsed(body).dialect # "invalid"
                /\ Parsed(body).id = Field(body, "id")
           ELSE InDialect(body, Parsed(body).reply)
<1> DEFINE d == SelectVersion(body)
           i == Field(body, "id")
           Old(r) == \E m : \E k \in {INVALID_REQUEST, INVALID_PARAMS} : r = Reject("pre1", Null, k, m)
           Own(r) == d # "invalid" /\ \E k, m : r = Reject(d, i, k, m)
           Call(r) == d # "invalid" /\ \E k, m : r = [call |-> k, dialect |-> d, id |-> i, meta |-> m]
<1>1. Old(Parsed(body)) \/ Own(Parsed(body)) \/ Call(Parsed(body))
  BY DEF Parsed, ParseError
<1>2. \A r : Old(r) => "call" \notin DOMAIN r /\ InDialect(body, r.reply)
  BY DEF Reject, Fault, Envelope, InDialect
<1>3. \A r : Own(r) => "call" \notin DOMAIN r /\ InDialect(body, r.reply)
  BY DEF Reject, Fault, Envelope, InDialect
<1>4. \A r : Call(r) => "call" \in DOMAIN r /\ r.dialect = d /\ r.dialect # "invalid" /\ r.id = i
  OBVIOUS
<1>5. QED
  BY <1>1, <1>2, <1>3, <1>4

\* Which calls get as far as which handler.
LEMMA AskingFacts ==
    ASSUME AskedOf, NEW c \in Calls
    PROVE  /\ Wanted(c) => Dispatched(c) /\ Method(c) \in DataMethods
           /\ ~Dispatched(c) => Method(c) = "none"
           /\ Allowed(HttpOf(c)) /\ ~Dispatched(c) =>
                 /\ Asked(c).outcome.label = "fault"
                 /\ Asked(c).reply.fault = TRUE
                 /\ Asked(c).outcome.code = Asked(c).reply.content
           /\ Wanted(c) => asked[c].job = << JobOf(Asked(c), RequestOf(c)) >>
           /\ Wanted(c) => Method(c) = Asked(c).call.method
           /\ Asked(c) = Parsed(Content(HttpOf(c)))
           /\ Wanted(c) => "call" \in DOMAIN Asked(c) /\ Coercible(Asked(c).call.args)
           /\ Dispatched(c) => "call" \in DOMAIN Asked(c)
           /\ Allowed(HttpOf(c)) /\ ~Dispatched(c) => "call" \notin DOMAIN Asked(c)
<1>1. asked[c] = Asking(HttpOf(c))
  BY DEF AskedOf
<1> DEFINE p == Parsed(Content(HttpOf(c)))
           q == RequestFromHeaders(HttpOf(c).headers, Peer)
           d == Allowed(HttpOf(c)) /\ "call" \in DOMAIN p
           m == IF d THEN p.call.method ELSE "none"
           j == IF d /\ p.call.method \in DataMethods /\ Coercible(p.call.args)
                THEN << JobOf(p, q) >> ELSE << >>
<1>a. asked[c] = [http |-> HttpOf(c), request |-> q, parsed |-> p, dispatched |-> d,
                  method |-> m, job |-> j]
  BY <1>1 DEF Asking
<1>b. /\ asked[c].request = q /\ asked[c].parsed = p /\ asked[c].dispatched = d
      /\ asked[c].method = m /\ asked[c].job = j
  <2> HIDE DEF p, q, d, m, j
  <2> QED
    BY <1>a
<1>2. /\ Asked(c) = p
      /\ Dispatched(c) = d
      /\ Method(c) = IF Dispatched(c) THEN p.call.method ELSE "none"
      /\ asked[c].job = IF Dispatched(c) /\ p.call.method \in DataMethods /\ Coercible(p.call.args)
                        THEN << JobOf(p, RequestOf(c)) >> ELSE << >>
  <2> HIDE DEF p, q
  <2> QED
    BY <1>b DEF Asked, Dispatched, Method, RequestOf
<1> HIDE DEF p
<1>3. Allowed(HttpOf(c)) /\ ~Dispatched(c) => "call" \notin DOMAIN p
  BY <1>2
<1>4. Wanted(c) => Dispatched(c) /\ Method(c) \in DataMethods
                   /\ asked[c].job = << JobOf(Asked(c), RequestOf(c)) >>
                   /\ Method(c) = Asked(c).call.method
  BY <1>2 DEF Wanted
<1>5. Wanted(c) => "call" \in DOMAIN p /\ Coercible(p.call.args)
  BY <1>2 DEF Wanted
<1>6. QED
  BY <1>2, <1>3, <1>4, <1>5, ParsedIsCallOrFault DEF p

\* The parameters of the methods.
ParametersOf(method) ==
    CASE method = "get_strikes_grid" ->
            {"minute_length", "grid_base_length", "minute_offset", "region", "count_threshold"}
      [] method = "get_global_strikes_grid" ->
            {"minute_length", "grid_base_length", "minute_offset", "count_threshold"}
      [] method = "get_local_strikes_grid" ->
            {"x", "y", "grid_base_length", "minute_length", "minute_offset", "count_threshold",
             "data_area"}
      [] method = "get_global_clusters" ->
            {"minute_length", "minute_offset", "interval_count"}
      [] method = "get_local_clusters" ->
            {"x", "y", "minute_length", "minute_offset", "data_area", "interval_count"}

\* They are what a call has arguments for.
LEMMA ParametersOfMethods ==
    ASSUME NEW asks, asks.method \in DataMethods
    PROVE  DOMAIN Coerced(asks) = ParametersOf(asks.method)
<1> DEFINE spec == MethodSpec[asks.method]
<1>1. DOMAIN Coerced(asks) = {spec[i][1] : i \in DOMAIN spec}
  BY DEF Coerced
<1>2. CASE asks.method = "get_strikes_grid"
  <2>1. spec = RegionSpec
    BY <1>2 DEF MethodSpec
  <2> QED
    BY <1>1, <1>2, <2>1 DEF RegionSpec, ParametersOf
<1>3. CASE asks.method = "get_global_strikes_grid"
  <2>1. spec = GlobalSpec
    BY <1>3 DEF MethodSpec
  <2> QED
    BY <1>1, <1>3, <2>1 DEF GlobalSpec, ParametersOf
<1>4. CASE asks.method = "get_local_strikes_grid"
  <2>1. spec = LocalSpec
    BY <1>4 DEF MethodSpec
  <2> QED
    BY <1>1, <1>4, <2>1 DEF LocalSpec, ParametersOf
<1>5. CASE asks.method = "get_global_clusters"
  <2>1. spec = GlobalClustersSpec
    BY <1>5 DEF MethodSpec
  <2> QED
    BY <1>1, <1>5, <2>1 DEF GlobalClustersSpec, ParametersOf
<1>6. CASE asks.method = "get_local_clusters"
  <2>1. spec = LocalClustersSpec
    BY <1>6 DEF MethodSpec
  <2> QED
    BY <1>1, <1>6, <2>1 DEF LocalClustersSpec, ParametersOf
<1> QED
  BY <1>2, <1>3, <1>4, <1>5, <1>6 DEF DataMethods, GridMethods, ClusterMethods

\* The parameters that tell the methods apart: only the grid of a region has
\* one, and only what is local has a place.
LEMMA OwnParameters ==
    ASSUME NEW asks, asks.method \in DataMethods
    PROVE  /\ "region" \in DOMAIN Coerced(asks) <=> asks.method = "get_strikes_grid"
           /\ "x" \in DOMAIN Coerced(asks) <=>
                 asks.method \in {"get_local_strikes_grid", "get_local_clusters"}
BY ParametersOfMethods DEF ParametersOf, DataMethods, GridMethods, ClusterMethods

\* A call that is served is of a client that is known and of a data method.
LEMMA ServedFacts ==
    ASSUME AskedOf, NEW c \in Calls, Served(c)
    PROVE  /\ Dispatched(c) /\ Method(c) \in DataMethods
           /\ LET ua == RequestOf(c).useragent[1]
              IN  /\ ua.client \in {"bo-android", "bo-ios"}
                  /\ UserAgentClient(RequestOf(c))
                        = << [client |-> ua.client, version |-> ua.version[1]] >>
           /\ "region" \in DOMAIN Params(c) <=> Method(c) = "get_strikes_grid"
           /\ "x" \in DOMAIN Params(c) <=>
                 Method(c) \in {"get_local_strikes_grid", "get_local_clusters"}
<1>1. /\ Wanted(c) /\ Dispatched(c) /\ Method(c) \in DataMethods
      /\ asked[c].job = << JobOf(Asked(c), RequestOf(c)) >>
      /\ Method(c) = Asked(c).call.method
  BY AskingFacts DEF Served
<1> DEFINE given == Coerced(Asked(c).call)
<1>2. /\ Reason(c) = ForbiddenReason(Method(c), RequestOf(c), given)
      /\ Params(c) = Clamped(Method(c), given)
  BY <1>1 DEF JobOf, Reason, Params
<1>3. ForbiddenClientReason(RequestOf(c)) = "none"
  <2> HIDE DEF given
  <2> QED
    BY <1>2 DEF ForbiddenReason, Served
<1>4. UserAgentClient(RequestOf(c)) # << >>
  BY <1>3 DEF ForbiddenClientReason
<1>5. DOMAIN Params(c) = DOMAIN given
  BY <1>2 DEF Clamped
<1>6. QED
  BY <1>1, <1>4, <1>5, OwnParameters DEF UserAgentClient
-----------------------------------------------------------------------------
(* The trace of a call *)

\* The entry that the handler of a call records tells of that call.
LEMMA EntryTells ==
    ASSUME AskedOf, NEW c \in Calls, Served(c), UNCHANGED asked, NEW value, NEW when,
           call'[c].when = when, call'[c].reply.content = [kind |-> "data", data |-> value],
           NEW fill, fill = IF Method(c) \in GridMethods THEN << GridFill(value) >> ELSE << >>,
           NEW e, e = UsageEntry(Method(c), GivenBy(c), Params(c), fill, RequestOf(c), when)
    PROVE  TellsOf(e, c)'
<1>a. PICK p : p = Params(c)
  OBVIOUS
<1>b. PICK g : g = GivenBy(c)
  OBVIOUS
<1>c. PICK ua : ua = RequestOf(c).useragent[1]
  OBVIOUS
<1>1. /\ Method(c)' = Method(c) /\ RequestOf(c)' = RequestOf(c)
      /\ GivenBy(c)' = g /\ Params(c)' = p
      /\ DataOf(c)' = value
  BY <1>a, <1>b DEF Method, RequestOf, GivenBy, Params, DataOf
<1>2. /\ Method(c) \in DataMethods
      /\ ua.client \in {"bo-android", "bo-ios"}
      /\ UserAgentClient(RequestOf(c)) = << [client |-> ua.client, version |-> ua.version[1]] >>
      /\ "region" \in DOMAIN p <=> Method(c) = "get_strikes_grid"
      /\ "x" \in DOMAIN p <=> Method(c) \in {"get_local_strikes_grid", "get_local_clusters"}
  BY <1>a, <1>c, ServedFacts
<1> DEFINE client == UserAgentClient(RequestOf(c))
           clusters == Method(c) \in ClusterMethods
           local == Method(c) \in {"get_local_strikes_grid", "get_local_clusters"}
<1>3. /\ e.timestamp = when
      /\ e.platform = (IF client[1].client = "bo-android" THEN "A" ELSE "I")
      /\ e.version = client[1].version
      /\ e.query = (IF clusters THEN "C" ELSE "G")
      /\ e.minute_offset = p.minute_offset
      /\ e.minute_length = (IF clusters THEN p.interval_count * 10 ELSE p.minute_length)
      /\ e.grid_baselength = (IF clusters THEN << >> ELSE << g.grid_base_length >>)
      /\ e.region = (IF local THEN -1 ELSE IF Method(c) = "get_strikes_grid" THEN p.region ELSE 0)
      /\ e.fill = fill
  BY <1>a, <1>b DEF UsageEntry
<1>4. client[1].client = ua.client /\ client[1].version = ua.version[1]
  BY <1>2
<1>5. Method(c) \in GridMethods <=> ~clusters
  BY <1>2 DEF DataMethods, GridMethods, ClusterMethods
<1> HIDE DEF client
<1>6. /\ e.timestamp = call'[c].when
      /\ e.platform = (IF ua.client = "bo-ios" THEN "I" ELSE "A")
      /\ e.version = ua.version[1]
      /\ e.minute_offset = p.minute_offset
  BY <1>2, <1>3, <1>4
<1>7. IF Method(c) \in GridMethods
      THEN /\ e.query = "G" /\ e.minute_length = p.minute_length
           /\ e.grid_baselength = << g.grid_base_length >>
           /\ e.fill = << << Cardinality(value.r), value.xc * value.yc >> >>
      ELSE e.query = "C" /\ e.minute_length = p.interval_count * 10 /\ e.fill = << >>
  BY <1>3, <1>5 DEF GridFill
<1>8. e.region = (IF "region" \in DOMAIN p THEN p.region ELSE IF "x" \in DOMAIN p THEN -1 ELSE 0)
  BY <1>2, <1>3
<1>9. RequestOf(c)'.useragent[1] = ua
  BY <1>1, <1>c
<1> QED
  BY <1>1, <1>6, <1>7, <1>8, <1>9 DEF TellsOf

\* What is known of the trace depends on what is asked and on the calls alone.
LEMMA SameAsked ==
    ASSUME UNCHANGED asked
    PROVE  \A c : /\ Served(c)' = Served(c) /\ Wanted(c)' = Wanted(c) /\ Method(c)' = Method(c)
                  /\ \A a : Agree(c, a)' <=> Agree(c, a)
  BY DEF Served, Wanted, Method, Reason, HttpOf, Agree

\* What a handler's result or error is wrapped in is in the call's own dialect,
\* and the fault of a call that reached none is in that of its body.
LEMMA OwnDialect ==
    ASSUME AskedOf, NEW c \in Calls
    PROVE  /\ Dispatched(c) =>
                 \A result, blocked, request, large :
                    InDialect(Content(HttpOf(c)), Finished(c, result, blocked, request, large).reply)
           /\ ~Dispatched(c) /\ Allowed(HttpOf(c)) => InDialect(Content(HttpOf(c)), Asked(c).reply)
<1> PICK body : body = Content(HttpOf(c))
  OBVIOUS
<1>1. Asked(c) = Parsed(body) /\ (Dispatched(c) => "call" \in DOMAIN Parsed(body))
  BY AskingFacts
<1>2. Allowed(HttpOf(c)) /\ ~Dispatched(c) => "call" \notin DOMAIN Parsed(body)
  BY <1>1, AskingFacts
<1>3. ASSUME Dispatched(c), NEW result, NEW blocked, NEW request, NEW large
      PROVE  InDialect(body, Finished(c, result, blocked, request, large).reply)
  <2>1. \E fault, content : Rendered(Asked(c), result, blocked).reply
                              = Envelope(Asked(c).dialect, Asked(c).id, fault, content)
    BY DEF Rendered, Reject, Success, Fault
  <2>2. Finished(c, result, blocked, request, large).reply = Rendered(Asked(c), result, blocked).reply
    BY DEF Finished
  <2>3. /\ Asked(c).dialect = SelectVersion(body) /\ Asked(c).dialect # "invalid"
        /\ Asked(c).id = Field(body, "id")
    BY <1>1, <1>3, ParsedDialect
  <2>4. QED
    BY <2>1, <2>2, <2>3 DEF Envelope, InDialect
<1>4. QED
  BY <1>1, <1>2, <1>3, ParsedDialect

\* A call that is answered stays so, and a step that answers no other adds
\* nothing to what is told and counted.
LEMMA TraceKept ==
    ASSUME AskedOf, Shapes, TraceInv, UNCHANGED <<asked, usage, checked>>,
           \A c \in Calls :
              \/ call'[c] = call[c]
              \/ /\ call[c].at \in {"idle", "waiting"} /\ call'[c].at # "answered"
                 /\ call'[c].at = "waiting" => Served(c)
    PROVE  TraceInv'
<1>1. ASSUME NEW c \in Calls
      PROVE  /\ Shown(c)' <=> Shown(c)
             /\ c \in Checks' <=> c \in Checks
             /\ Shown(c) \/ c \in Checks => call'[c] = call[c]
             /\ call'[c].at = "answered" => call'[c] = call[c]
  BY SameAsked DEF Shown, Checks
<1>2. ShownCalls' = ShownCalls /\ Checks' = Checks
  <2>1. \A c : (c \in ShownCalls' <=> c \in ShownCalls) /\ (c \in Checks' <=> c \in Checks)
    BY <1>1 DEF ShownCalls, Checks
  <2>2. QED
    BY <2>1
<1>3. WaitsServed'
  BY SameAsked DEF TraceInv, WaitsServed
<1>4. AllAgree'
  BY <1>1, SameAsked DEF TraceInv, AllAgree, Agree
<1>5. AllTold'
  <2>1. ASSUME NEW c \in ShownCalls PROVE \E i \in DOMAIN usage' : TellsOf(usage[i], c)'
    <3>1. PICK i \in DOMAIN usage : TellsOf(usage[i], c)
      BY DEF TraceInv, AllTold
    <3>2. call'[c] = call[c]
      BY <1>1 DEF ShownCalls
    <3>3. TellsOf(usage[i], c)'
      BY <3>1, <3>2 DEF TellsOf, Params, RequestOf, Method, GivenBy, DataOf
    <3>4. QED
      BY <3>3
  <2>2. QED
    BY <1>2, <2>1 DEF TraceInv, AllTold
<1>6. AllCounted'
  <2>1. {call'[c].reply.content.count : c \in Checks'} = {call[c].reply.content.count : c \in Checks}
    BY <1>1, <1>2 DEF Checks
  <2>2. QED
    BY <1>2, <2>1 DEF TraceInv, AllCounted
<1>7. QED
  BY <1>3, <1>4, <1>5, <1>6 DEF TraceInv

\* An answer of one call, which is not yet answered, and the others stay.
Answers(c) ==
    /\ call[c].at \in {"idle", "waiting"}
    /\ call'[c].at = "answered"
    /\ \A d \in Calls : d # c => call'[d] = call[d]

\* The answers with data and the checks, before and after an answer.
LEMMA AnswerAdds ==
    ASSUME AskedOf, Shapes, UNCHANGED asked, NEW c \in Calls, Answers(c)
    PROVE  /\ c \notin ShownCalls /\ c \notin Checks
           /\ \A d \in ShownCalls \cup Checks : call'[d] = call[d]
           /\ ShownCalls' = IF Served(c) /\ ~call'[c].reply.fault THEN ShownCalls \cup {c} ELSE ShownCalls
           /\ Checks' = IF Method(c) = "check" THEN Checks \cup {c} ELSE Checks
<1>1. c \notin ShownCalls /\ c \notin Checks
  BY DEF Answers, ShownCalls, Shown, Checks
<1>2. \A d \in Calls : d # c => (Shown(d)' <=> Shown(d)) /\ (d \in Checks' <=> d \in Checks)
  BY SameAsked DEF Answers, Shown, Checks
<1>3. Shown(c)' <=> Served(c) /\ ~call'[c].reply.fault
  BY SameAsked DEF Answers, Shown
<1>4. c \in Checks' <=> Method(c) = "check"
  BY SameAsked DEF Answers, Checks
<1>5. \A d : d \in ShownCalls' <=>
                \/ d \in ShownCalls
                \/ d = c /\ Served(c) /\ ~call'[c].reply.fault
  BY <1>1, <1>2, <1>3 DEF ShownCalls
<1>6. \A d : d \in Checks' <=> d \in Checks \/ (d = c /\ Method(c) = "check")
  <2>1. Checks \subseteq Calls /\ Checks' \subseteq Calls
    BY DEF Checks
  <2>2. QED
    BY <1>1, <1>2, <1>4, <2>1
<1>7. \A d \in ShownCalls \cup Checks : call'[d] = call[d]
  BY <1>1 DEF Answers, ShownCalls, Checks
<1>8. ShownCalls' = IF Served(c) /\ ~call'[c].reply.fault THEN ShownCalls \cup {c} ELSE ShownCalls
  BY <1>5
<1>9. Checks' = IF Method(c) = "check" THEN Checks \cup {c} ELSE Checks
  BY <1>6
<1>10. QED
  BY <1>1, <1>7, <1>8, <1>9

\* An answer that agrees with its access line leaves the other answers alone.
LEMMA AnswerAgrees ==
    ASSUME AskedOf, Shapes, TraceInv, UNCHANGED asked, NEW c \in Calls, Answers(c),
           Agree(c, call'[c])
    PROVE  WaitsServed' /\ AllAgree'
<1>1. \A d \in Calls : d = c \/ call'[d] = call[d]
  BY DEF Answers
<1>2. WaitsServed'
  BY <1>1, SameAsked DEF TraceInv, WaitsServed, Answers
<1>3. AllAgree'
  <2> SUFFICES ASSUME NEW d \in Calls, call'[d].at = "answered" PROVE Agree(d, call[d])'
    BY DEF AllAgree
  <2>1. Agree(d, call'[d])
    BY <1>1 DEF TraceInv, AllAgree
  <2>2. QED
    BY <2>1, SameAsked DEF Agree
<1>4. QED
  BY <1>2, <1>3

\* The entries told of so far still tell after an answer, and after another entry.
LEMMA StillTold ==
    ASSUME AskedOf, Shapes, AllTold, UNCHANGED asked, NEW c \in Calls, Answers(c),
           DOMAIN usage \subseteq DOMAIN usage', \A i \in DOMAIN usage : usage'[i] = usage[i]
    PROVE  \A d \in ShownCalls : \E i \in DOMAIN usage' : TellsOf(usage[i], d)'
<1> SUFFICES ASSUME NEW d \in ShownCalls PROVE \E i \in DOMAIN usage' : TellsOf(usage[i], d)'
  OBVIOUS
<1>1. PICK i \in DOMAIN usage : TellsOf(usage[i], d)
  BY DEF AllTold
<1>2. call'[d] = call[d] /\ usage'[i] = usage[i] /\ i \in DOMAIN usage'
  BY AnswerAdds
<1>3. TellsOf(usage[i], d)'
  BY <1>1, <1>2 DEF TellsOf, Params, RequestOf, Method, GivenBy, DataOf
<1>4. QED
  BY <1>2, <1>3

\* An answer without data adds to no counter but its own.
LEMMA PlainAnswer ==
    ASSUME AskedOf, Shapes, TraceInv, UNCHANGED <<asked, usage, checked>>,
           NEW c \in Calls, Answers(c), Agree(c, call'[c]),
           ~Served(c) \/ call'[c].reply.fault, Method(c) # "check"
    PROVE  TraceInv'
<1>1. ShownCalls' = ShownCalls /\ Checks' = Checks
  BY AnswerAdds
<1>2. WaitsServed' /\ AllAgree'
  BY AnswerAgrees
<1>3. AllTold'
  BY <1>1, StillTold DEF TraceInv, AllTold
<1>4. AllCounted'
  <2>1. {call'[d].reply.content.count : d \in Checks'} = {call[d].reply.content.count : d \in Checks}
    BY <1>1, AnswerAdds
  <2>2. QED
    BY <1>1, <2>1 DEF TraceInv, AllCounted
<1>5. QED
  BY <1>2, <1>3, <1>4 DEF TraceInv

\* The next check is told the next number.
LEMMA CheckStep ==
    ASSUME AskedOf, Shapes, TraceInv, NEW c \in Calls, CheckCount(c)
    PROVE  TraceInv'
<1>1. /\ call[c].at = "idle" /\ Dispatched(c) /\ Method(c) = "check" /\ checked' = checked + 1
      /\ UNCHANGED <<asked, usage>>
      /\ call' = [call EXCEPT ![c] = call'[c]]
      /\ call'[c] = Finished(c, Result([kind |-> "count", count |-> checked + 1]), "none",
                             RequestOf(c), FALSE)
  BY DEF CheckCount, Shapes
<1>2. /\ call'[c].at = "answered" /\ call'[c].reply.fault = FALSE
      /\ call'[c].reply.content.count = checked + 1
      /\ call'[c].outcome.label = "ok"
  BY <1>1 DEF Finished, Rendered, Result, Success, Envelope, Outcome
<1>3. ~Wanted(c) /\ ~Served(c)
  BY <1>1, AskingFacts DEF Served, DataMethods, GridMethods, ClusterMethods
<1>4. Answers(c) /\ Agree(c, call'[c])
  <2>1. InDialect(Content(HttpOf(c)), call'[c].reply)
    <3>1. call'[c] = Finished(c, Result([kind |-> "count", count |-> checked + 1]), "none",
                               RequestOf(c), FALSE)
      BY <1>1
    <3>2. Dispatched(c)
      BY <1>1
    <3>3. QED
      BY ONLY <3>1, <3>2, AskedOf, c \in Calls, OwnDialect
  <2>2. Answers(c)
    BY <1>1, <1>2 DEF Answers, Shapes
  <2>3. QED
    BY <1>2, <1>3, <2>1, <2>2 DEF Agree
<1>5. ShownCalls' = ShownCalls /\ Checks' = Checks \cup {c} /\ c \notin Checks
  BY <1>1, <1>3, <1>4, AnswerAdds
<1>6. WaitsServed' /\ AllAgree'
  BY <1>1, <1>4, AnswerAgrees
<1>7. AllTold'
  BY <1>1, <1>4, <1>5, StillTold DEF TraceInv, AllTold
<1>8. AllCounted'
  <2>1. checked \in Nat /\ IsFiniteSet(Checks) /\ checked = Cardinality(Checks)
        /\ {call[d].reply.content.count : d \in Checks} = 1 .. checked
    BY DEF TraceInv, AllCounted, Shapes
  <2>2. IsFiniteSet(Checks') /\ Cardinality(Checks') = checked + 1
    BY <1>5, <2>1, FS_AddElement
  <2>3. {call'[d].reply.content.count : d \in Checks'}
           = {call[d].reply.content.count : d \in Checks} \cup {checked + 1}
    <3>1. \A d \in Checks : call'[d] = call[d]
      BY <1>1, <1>4, AnswerAdds
    <3>2. call'[c].reply.content.count = checked + 1
      BY <1>2
    <3>3. Checks' = Checks \cup {c}
      BY <1>5
    <3>4. QED
      BY <3>1, <3>2, <3>3
  <2>4. 1 .. (checked + 1) = (1 .. checked) \cup {checked + 1}
    BY <2>1
  <2>5. QED
    BY <1>1, <2>1, <2>2, <2>3, <2>4 DEF AllCounted
<1>9. QED
  BY <1>6, <1>7, <1>8 DEF TraceInv

\* An answer with data is recorded with it.
LEMMA ResultStep ==
    ASSUME AskedOf, Shapes, TraceInv, NEW c \in Calls, AnswerResult(c)
    PROVE  TraceInv' /\ usage' \in Seq(ToSet(usage'))
<1> PICK value : value = prod[call[c].on].value
  OBVIOUS
<1> PICK fill : fill = IF Method(c) \in GridMethods THEN << GridFill(value) >> ELSE << >>
  OBVIOUS
<1> PICK e : e = UsageEntry(Method(c), GivenBy(c), Params(c), fill, RequestOf(c), now)
  OBVIOUS
<1>1. /\ call[c].at = "waiting"
      /\ UNCHANGED <<asked, checked>>
      /\ usage' = Append(usage, e)
      /\ \E large \in BOOLEAN :
            call' = [call EXCEPT ![c] =
               Finished(c, Result([kind |-> "data", data |-> value]), "none", Fixed(c), large)]
  BY DEF AnswerResult
<1>2. PICK large \in BOOLEAN :
         call' = [call EXCEPT ![c] =
            Finished(c, Result([kind |-> "data", data |-> value]), "none", Fixed(c), large)]
  BY <1>1
<1>3. /\ call'[c] = Finished(c, Result([kind |-> "data", data |-> value]), "none", Fixed(c), large)
      /\ \A d \in Calls : d # c => call'[d] = call[d]
  BY <1>2 DEF Shapes
<1>4. /\ call'[c].at = "answered" /\ call'[c].reply.fault = FALSE
      /\ call'[c].reply.content = [kind |-> "data", data |-> value]
      /\ call'[c].outcome.label = "ok" /\ call'[c].when = now
  BY <1>3 DEF Finished, Rendered, Result, Success, Envelope, Outcome
<1>5. Served(c)
  BY <1>1 DEF TraceInv, WaitsServed
<1>6. Answers(c) /\ Agree(c, call'[c])
  <2>1. Dispatched(c)
    BY <1>5, AskingFacts DEF Served
  <2>2. InDialect(Content(HttpOf(c)), call'[c].reply)
    BY <1>3, <2>1, OwnDialect
  <2>3. QED
    BY <1>1, <1>3, <1>4, <1>5, <2>2 DEF Answers, Agree
<1>7. Method(c) # "check"
  BY <1>5, ServedFacts DEF DataMethods, GridMethods, ClusterMethods
<1>8. ShownCalls' = ShownCalls \cup {c} /\ Checks' = Checks /\ c \notin ShownCalls
  BY <1>1, <1>4, <1>5, <1>6, <1>7, AnswerAdds
<1>9. WaitsServed' /\ AllAgree'
  BY <1>1, <1>6, AnswerAgrees
<1>10. TellsOf(e, c)'
  BY <1>1, <1>4, <1>5, EntryTells
<1>11. /\ usage' \in Seq(ToSet(usage')) /\ Len(usage') = Len(usage) + 1 /\ Len(usage) \in Nat
       /\ DOMAIN usage \subseteq DOMAIN usage' /\ \A i \in DOMAIN usage : usage'[i] = usage[i]
       /\ Len(usage) + 1 \in DOMAIN usage' /\ usage'[Len(usage) + 1] = e
  <2> PICK S : S = ToSet(usage)
    OBVIOUS
  <2>1. usage \in Seq(S)
    BY DEF Shapes
  <2>2. usage \in Seq(S \cup {e}) /\ e \in S \cup {e}
    BY <2>1, SeqMonotonic
  <2>3. /\ usage' \in Seq(S \cup {e}) /\ Len(usage') = Len(usage) + 1 /\ Len(usage) \in Nat
        /\ \A i \in 1..Len(usage) : usage'[i] = usage[i]
        /\ usage'[Len(usage) + 1] = e
    BY <1>1, <2>2, AppendProperties
  <2>4. DOMAIN usage = 1..Len(usage) /\ DOMAIN usage' = 1..(Len(usage) + 1)
    BY <2>2, <2>3
  <2>5. usage' \in Seq(ToSet(usage'))
    BY <2>3 DEF ToSet
  <2>6. QED
    BY <2>3, <2>4, <2>5
<1>12. AllTold'
  <2>1. IsFiniteSet(ShownCalls') /\ Cardinality(ShownCalls') = Cardinality(ShownCalls) + 1
    BY <1>8, FS_AddElement DEF TraceInv, AllTold
  <2>2. ASSUME NEW d \in ShownCalls' PROVE \E i \in DOMAIN usage' : TellsOf(usage[i], d)'
    <3>1. CASE d = c
      BY <1>10, <1>11, <3>1
    <3>2. CASE d # c
      BY <1>1, <1>6, <1>8, <1>11, <3>2, StillTold DEF TraceInv
    <3>3. QED
      BY <3>1, <3>2
  <2>3. QED
    BY <1>11, <2>1, <2>2 DEF TraceInv, AllTold
<1>13. AllCounted'
  <2>1. {call'[d].reply.content.count : d \in Checks'} = {call[d].reply.content.count : d \in Checks}
    <3>1. \A d \in Checks : call'[d] = call[d]
      BY <1>1, <1>6, AnswerAdds
    <3>2. Checks' = Checks
      BY <1>8
    <3>3. \A d \in Checks : call'[d].reply.content.count = call[d].reply.content.count
      BY <3>1
    <3> HIDE DEF Checks
    <3> QED
      BY <3>2, <3>3
  <2>2. QED
    BY <1>1, <1>8, <2>1 DEF TraceInv, AllCounted
<1>14. QED
  BY <1>9, <1>11, <1>12, <1>13 DEF TraceInv

\* A step that leaves the calls as they are, or sends one on to wait or away.
LEMMA QuietSteps ==
    ASSUME AskedOf, Shapes, TraceInv, [Next]_vars,
           ~ \E c \in Calls : Fail(c) \/ CheckCount(c) \/ AnswerEmpty(c) \/ Answered(c)
    PROVE  TraceInv' /\ UNCHANGED <<usage, checked>> /\ DOMAIN call' = Calls
<1> SUFFICES /\ UNCHANGED <<asked, usage, checked>> /\ DOMAIN call' = Calls
             /\ \A c \in Calls :
                  \/ call'[c] = call[c]
                  \/ /\ call[c].at \in {"idle", "waiting"} /\ call'[c].at # "answered"
                     /\ call'[c].at = "waiting" => Served(c)
  BY TraceKept
<1>1. CASE UNCHANGED call /\ UNCHANGED <<asked, usage, checked>>
  BY <1>1 DEF Shapes
<1>2. ASSUME NEW c \in Calls, Refuse(c) \/ Join(c) \/ BeginGrid(c) \/ BeginClusters(c)
      PROVE  /\ UNCHANGED <<asked, usage, checked>> /\ call[c].at = "idle"
             /\ DOMAIN call' = Calls /\ \A d \in Calls : d # c => call'[d] = call[d]
             /\ call'[c].at # "answered" /\ (call'[c].at = "waiting" => Served(c))
  <2>1. CASE Refuse(c)
    <3> PICK h : h = IF Malformed(HttpOf(c)) THEN Refusal(400, FALSE)
                     ELSE Refusal(405, WantsKeepAlive(HttpOf(c)))
      OBVIOUS
    <3>1. call' = [call EXCEPT ![c] = [at |-> "refused", http |-> h]]
      BY <2>1 DEF Refuse
    <3>2. UNCHANGED <<asked, usage, checked>> /\ call[c].at = "idle"
      BY <2>1 DEF Refuse
    <3>3. QED
      BY <3>1, <3>2 DEF Shapes
  <2>2. CASE Join(c)
    <3>1. PICK o : call' = [call EXCEPT ![c] = [at |-> "waiting", on |-> o, since |-> now]]
      BY <2>2 DEF Join
    <3>2. UNCHANGED <<asked, usage, checked>> /\ call[c].at = "idle" /\ Served(c)
      BY <2>2 DEF Join
    <3>3. QED
      BY <3>1, <3>2 DEF Shapes
  <2>3. CASE BeginGrid(c)
    <3>1. call' = [call EXCEPT ![c] = [at |-> "waiting", on |-> c, since |-> now]]
      BY <2>3 DEF BeginGrid
    <3>2. UNCHANGED <<asked, usage, checked>> /\ call[c].at = "idle" /\ Served(c)
      BY <2>3 DEF BeginGrid
    <3>3. QED
      BY <3>1, <3>2 DEF Shapes
  <2>4. CASE BeginClusters(c)
    <3>1. call' = [call EXCEPT ![c] = [at |-> "waiting", on |-> c, since |-> now]]
      BY <2>4 DEF BeginClusters
    <3>2. UNCHANGED <<asked, usage, checked>> /\ call[c].at = "idle" /\ Served(c)
      BY <2>4 DEF BeginClusters
    <3>3. QED
      BY <3>1, <3>2 DEF Shapes
  <2>5. QED
    BY <1>2, <2>1, <2>2, <2>3, <2>4
<1>3. ASSUME NEW c \in Calls, Refuse(c) \/ Join(c) \/ BeginGrid(c) \/ BeginClusters(c)
      PROVE  /\ UNCHANGED <<asked, usage, checked>> /\ DOMAIN call' = Calls
             /\ \A d \in Calls :
                  \/ call'[d] = call[d]
                  \/ /\ call[d].at \in {"idle", "waiting"} /\ call'[d].at # "answered"
                     /\ call'[d].at = "waiting" => Served(d)
  BY <1>2, <1>3 DEF Shapes
<1>4. ASSUME NEW c \in Calls, Queried(c)
      PROVE  UNCHANGED <<asked, call, usage, checked>>
  BY <1>4 DEF Queried, GridQueried, HistogramQueried, BuildGrid, LookForNewest, BuildClusters,
              QueryFails, HistogramFails
<1>5. CASE Tick \/ Import \/ AllAnswered \/ UNCHANGED vars
  BY <1>1, <1>5 DEF Tick, Import, AllAnswered, vars
<1>6. QED
  BY <1>1, <1>3, <1>4, <1>5 DEF Next, AskedFor

\* The answers without data: a fault, a check aside, an empty one, an error.
LEMMA PlainSteps ==
    ASSUME AskedOf, Shapes, TraceInv, NEW c \in Calls,
           Fail(c) \/ AnswerEmpty(c) \/ AnswerError(c)
    PROVE  /\ TraceInv' /\ UNCHANGED <<usage, checked>> /\ DOMAIN call' = Calls
           /\ Answers(c) /\ (~Served(c) \/ call'[c].reply.fault)
<1>1. UNCHANGED <<asked, usage, checked>>
  BY DEF Fail, AnswerEmpty, AnswerError
<1> SUFFICES /\ DOMAIN call' = Calls /\ Answers(c) /\ Agree(c, call'[c])
             /\ ~Served(c) \/ call'[c].reply.fault
             /\ Method(c) # "check"
  BY <1>1, PlainAnswer
<1>2. CASE Fail(c)
  <2>1. /\ call[c].at = "idle" /\ Allowed(HttpOf(c)) /\ ~Dispatched(c)
        /\ call' = [call EXCEPT ![c] = call'[c]]
        /\ call'[c] = [at |-> "answered", http |-> HttpReply(HttpOf(c), RequestOf(c), FALSE),
                       reply |-> Asked(c).reply, outcome |-> Asked(c).outcome, when |-> now,
                       since |-> now]
    BY <1>2 DEF Fail, Shapes
  <2>2. /\ ~Wanted(c) /\ ~Served(c) /\ Method(c) = "none"
        /\ Asked(c).outcome.label = "fault" /\ Asked(c).reply.fault = TRUE
        /\ Asked(c).outcome.code = Asked(c).reply.content
    BY <2>1, AskingFacts DEF Served
  <2>3. /\ call'[c].at = "answered" /\ call'[c].reply = Asked(c).reply
        /\ call'[c].outcome = Asked(c).outcome
    BY <2>1
  <2>4. DOMAIN call' = Calls /\ Answers(c)
    BY <2>1, <2>3 DEF Answers, Shapes
  <2>5. Agree(c, call'[c])
    <3>1. InDialect(Content(HttpOf(c)), call'[c].reply)
      BY <2>1, <2>3, OwnDialect
    <3>2. QED
      BY <2>2, <2>3, <3>1 DEF Agree
  <2>6. QED
    BY <2>2, <2>4, <2>5
<1>3. CASE AnswerEmpty(c)
  <2> PICK blocked : blocked = IF Wanted(c) THEN Reason(c) ELSE "none"
    OBVIOUS
  <2> PICK v : v = IF Method(c) = "get_strikes" THEN NoStrikes ELSE Empty
    OBVIOUS
  <2>1. /\ call[c].at = "idle" /\ Dispatched(c) /\ Method(c) # "check" /\ ~Served(c)
        /\ call' = [call EXCEPT ![c] = call'[c]]
        /\ call'[c] = Finished(c, Result(v), blocked, RequestOf(c), FALSE)
    BY <1>3 DEF AnswerEmpty, Shapes
  <2>2. /\ call'[c].at = "answered" /\ call'[c].reply.fault = FALSE
        /\ call'[c].reply.content = v
        /\ call'[c].outcome.label = IF blocked = "none" THEN "ok" ELSE "BLOCKED"
    BY <2>1 DEF Finished, Rendered, Result, Success, Envelope, Outcome
  <2>3. blocked # "none" <=> Wanted(c)
    BY <2>1 DEF Served
  <2>4. Wanted(c) => v = Empty
    BY AskingFacts DEF DataMethods, GridMethods, ClusterMethods
  <2>5. InDialect(Content(HttpOf(c)), call'[c].reply)
    <3>1. call'[c] = Finished(c, Result(v), blocked, RequestOf(c), FALSE)
      BY <2>1
    <3>2. Dispatched(c)
      BY <2>1
    <3>3. QED
      BY ONLY <3>1, <3>2, AskedOf, c \in Calls, OwnDialect
  <2>6. Agree(c, call'[c])
    BY <2>1, <2>2, <2>3, <2>4, <2>5 DEF Agree
  <2>7. QED
    BY <2>1, <2>2, <2>6 DEF Answers, Shapes
<1>4. CASE AnswerError(c)
  <2>1. /\ call[c].at = "waiting"
        /\ call' = [call EXCEPT ![c] = call'[c]]
        /\ call'[c] = Finished(c, Error, "none", RequestOf(c), FALSE)
    BY <1>4 DEF AnswerError, Shapes
  <2>2. /\ call'[c].at = "answered" /\ call'[c].reply.fault = TRUE
        /\ call'[c].outcome.label = "fault" /\ call'[c].outcome.code = call'[c].reply.content
    BY <2>1 DEF Finished, Rendered, Error, Reject, Fault, Envelope
  <2>3. Served(c)
    BY <2>1 DEF TraceInv, WaitsServed
  <2>4. Method(c) # "check"
    BY <2>3, ServedFacts DEF DataMethods, GridMethods, ClusterMethods
  <2>5. InDialect(Content(HttpOf(c)), call'[c].reply)
    <3>1. call'[c] = Finished(c, Error, "none", RequestOf(c), FALSE)
      BY <2>1
    <3>2. Dispatched(c)
      BY <2>3, AskingFacts DEF Served
    <3>3. QED
      BY ONLY <3>1, <3>2, AskedOf, c \in Calls, OwnDialect
  <2>6. Agree(c, call'[c])
    BY <2>2, <2>3, <2>5 DEF Agree
  <2>7. QED
    BY <2>1, <2>2, <2>3, <2>4, <2>6 DEF Answers, Shapes
<1>5. QED
  BY <1>2, <1>3, <1>4
-----------------------------------------------------------------------------
(* The caches *)

\* What a step may do to the productions and to their cache: a production moves
\* only for a call that is served, and one that fails is not in the cache.
ProdMoves ==
    /\ DOMAIN prod' = Calls /\ cached' \subseteq Calls
    /\ \A c \in Calls :
          /\ "at" \in DOMAIN prod'[c]
          /\ \/ prod'[c].at = prod[c].at /\ (c \in cached' => c \in cached)
             \/ Served(c) /\ (c \in cached' => prod'[c].at # "failed")

\* The same, of the histograms and theirs.
HistMoves ==
    /\ DOMAIN hist' = Calls /\ histcached' \subseteq Calls
    /\ \A c \in Calls :
          /\ "at" \in DOMAIN hist'[c]
          /\ \/ hist'[c].at = hist[c].at /\ (c \in histcached' => c \in histcached)
             \/ Served(c) /\ (c \in histcached' => hist'[c].at # "failed")

\* Such moves keep failures out of the caches, and calls that are not served
\* out of both.
LEMMA CacheKept ==
    ASSUME CacheInv, UNCHANGED asked, ProdMoves, HistMoves
    PROVE  CacheInv'
<1>1. \A c : Served(c)' = Served(c)
  BY SameAsked
<1>2. BegunServed'
  BY <1>1 DEF CacheInv, BegunServed, ProdMoves, HistMoves
<1>3. NoneFailed'
  BY DEF CacheInv, NoneFailed, ProdMoves, HistMoves
<1>4. QED
  BY <1>2, <1>3 DEF CacheInv

\* A step that leaves productions and their cache alone.
LEMMA ProdStays == ASSUME Shapes, UNCHANGED <<prod, cached>> PROVE ProdMoves
BY DEF Shapes, ProdMoves

\* A step that leaves histograms and their cache alone.
LEMMA HistStays == ASSUME Shapes, UNCHANGED <<hist, histcached>> PROVE HistMoves
BY DEF Shapes, HistMoves

\* A call begins productions only when it is served.
LEMMA BeginMoves ==
    ASSUME Shapes, NEW c \in Calls, BeginGrid(c) \/ BeginClusters(c)
    PROVE  ProdMoves /\ HistMoves
<1>1. Served(c) /\ cached' = {o \in cached : KeyOf(o) # KeyOf(c)} \cup {c}
  BY DEF BeginGrid, BeginClusters
<1>2. CASE BeginGrid(c)
  <2>1. \E on : prod' = [prod EXCEPT ![c] =
                            [at |-> "running", begun |-> now, rows |-> << >>, hist |-> on]]
    BY <1>2 DEF BeginGrid
  <2>2. PICK on : prod' = [prod EXCEPT ![c] =
                            [at |-> "running", begun |-> now, rows |-> << >>, hist |-> on]]
    BY <2>1
  <2>3. ProdMoves
    BY <1>1, <2>2 DEF Shapes, ProdMoves
  <2>4. \/ UNCHANGED <<hist, histcached>>
        \/ /\ hist' = [hist EXCEPT ![c] = [at |-> "running", begun |-> now]]
           /\ histcached' = {h \in histcached : HistKeyOf(h) # HistKeyOf(c)} \cup {c}
    BY <1>2 DEF BeginGrid
  <2>5. HistMoves
    BY <1>1, <2>4, HistStays DEF Shapes, HistMoves
  <2>6. QED
    BY <2>3, <2>5
<1>3. CASE BeginClusters(c)
  <2>1. /\ prod' = [prod EXCEPT ![c] = [at |-> "running", begun |-> now, anchor |-> << >>]]
        /\ UNCHANGED <<hist, histcached>>
    BY <1>3 DEF BeginClusters
  <2>2. QED
    BY <1>1, <2>1, HistStays DEF Shapes, ProdMoves
<1>4. QED
  BY <1>2, <1>3

\* The queries are those of productions that have begun; what fails leaves its cache.
LEMMA QueryMoves ==
    ASSUME Shapes, CacheInv, NEW c \in Calls, Queried(c)
    PROVE  ProdMoves /\ HistMoves
<1>1. /\ GridRunning(c) \/ ClustersRunning(c) => Served(c)
      /\ hist[c].at = "running" => Served(c)
  BY DEF CacheInv, BegunServed, GridRunning, ClustersRunning
<1>2. CASE GridQueried(c)
  <2>1. PICK r : r = GridRows(Method(c), Params(c), IntervalOf(c), Table)
    OBVIOUS
  <2>2. prod' = [prod EXCEPT ![c].rows = << r >>] /\ UNCHANGED <<cached, hist, histcached>>
    BY <1>2, <2>1 DEF GridQueried
  <2>3. QED
    BY <2>2, HistStays DEF Shapes, ProdMoves
<1>3. CASE HistogramQueried(c)
  <2>1. PICK bins : bins = BuildHistogram(Params(c).minute_length,
                               HistogramRows(Method(c), Params(c),
                                             TimeInterval(Params(c), hist[c].begun), Table))
    OBVIOUS
  <2>2. /\ hist' = [hist EXCEPT ![c] = [at |-> "done", begun |-> hist[c].begun, bins |-> bins]]
        /\ hist[c].at = "running" /\ UNCHANGED <<prod, cached, histcached>>
    BY <1>3, <2>1 DEF HistogramQueried, Shapes
  <2>3. QED
    BY <1>1, <2>2, ProdStays DEF Shapes, HistMoves
<1>4. CASE BuildGrid(c)
  <2>1. \E v : prod' = [prod EXCEPT ![c] =
                 [at |-> "done", begun |-> prod[c].begun, hist |-> prod[c].hist, value |-> v]]
    BY <1>4 DEF BuildGrid, Shapes
  <2>2. PICK v : prod' = [prod EXCEPT ![c] =
                 [at |-> "done", begun |-> prod[c].begun, hist |-> prod[c].hist, value |-> v]]
    BY <2>1
  <2>3. GridRunning(c) /\ UNCHANGED <<cached, hist, histcached>>
    BY <1>4 DEF BuildGrid
  <2>4. QED
    BY <1>1, <2>2, <2>3, HistStays DEF Shapes, ProdMoves
<1>5. CASE LookForNewest(c)
  <2>1. PICK r : r = IF Params(c).minute_offset = 0
             THEN LatestTimestamp(IntervalOf(c), Params(c).interval_count,
                                  ClusterArea(Method(c), Params(c)), Clusters)
             ELSE IntervalOf(c).end
    OBVIOUS
  <2>2. prod' = [prod EXCEPT ![c].anchor = << r >>] /\ UNCHANGED <<cached, hist, histcached>>
    BY <1>5, <2>1 DEF LookForNewest
  <2>3. QED
    BY <2>2, HistStays DEF Shapes, ProdMoves
<1>6. CASE BuildClusters(c)
  <2>1. \E v : prod' = [prod EXCEPT ![c] = [at |-> "done", begun |-> prod[c].begun, value |-> v]]
    BY <1>6 DEF BuildClusters, Shapes
  <2>2. PICK v : prod' = [prod EXCEPT ![c] = [at |-> "done", begun |-> prod[c].begun, value |-> v]]
    BY <2>1
  <2>3. ClustersRunning(c) /\ UNCHANGED <<cached, hist, histcached>>
    BY <1>6 DEF BuildClusters
  <2>4. QED
    BY <1>1, <2>2, <2>3, HistStays DEF Shapes, ProdMoves
<1>7. CASE QueryFails(c)
  <2>1. /\ prod' = [prod EXCEPT ![c] = [at |-> "failed", begun |-> prod[c].begun]]
        /\ cached' = cached \ {c} /\ Served(c) /\ UNCHANGED <<hist, histcached>>
    BY <1>1, <1>7 DEF QueryFails, Shapes
  <2>2. QED
    BY <2>1, HistStays DEF Shapes, ProdMoves
<1>8. CASE HistogramFails(c)
  <2> PICK hit : hit = HistWaiting(c)
    OBVIOUS
  <2>1. /\ prod' = [d \in Calls |-> IF d \in hit THEN [at |-> "failed", begun |-> prod[d].begun]
                                    ELSE prod[d]]
        /\ cached' = cached \ hit
        /\ hist' = [hist EXCEPT ![c] = [at |-> "failed", begun |-> hist[c].begun]]
        /\ histcached' = histcached \ {c} /\ Served(c)
    BY <1>1, <1>8 DEF HistogramFails, Shapes
  <2>2. \A d \in hit : d \in Calls /\ Served(d)
    BY DEF HistWaiting, GridRunning, CacheInv, BegunServed
  <2>3. ProdMoves
    BY <2>1, <2>2 DEF Shapes, ProdMoves
  <2>4. HistMoves
    BY <2>1 DEF Shapes, HistMoves
  <2>5. QED
    BY <2>3, <2>4
<1>9. QED
  BY <1>2, <1>3, <1>4, <1>5, <1>6, <1>7, <1>8 DEF Queried

\* Every step moves productions and histograms so.
LEMMA StepMoves ==
    ASSUME Shapes, CacheInv, [Next]_vars
    PROVE  ProdMoves /\ HistMoves /\ UNCHANGED asked
<1>1. ASSUME NEW c \in Calls, BeginGrid(c) \/ BeginClusters(c)
      PROVE  ProdMoves /\ HistMoves /\ UNCHANGED asked
  BY <1>1, BeginMoves DEF BeginGrid, BeginClusters
<1>2. ASSUME NEW c \in Calls, Queried(c) PROVE ProdMoves /\ HistMoves /\ UNCHANGED asked
  <2>1. UNCHANGED asked
    BY <1>2 DEF Queried, GridQueried, HistogramQueried, BuildGrid, LookForNewest, BuildClusters,
                QueryFails, HistogramFails
  <2>2. QED
    BY <1>2, <2>1, QueryMoves
<1>3. ASSUME NEW c \in Calls,
             Refuse(c) \/ Fail(c) \/ CheckCount(c) \/ AnswerEmpty(c) \/ Join(c) \/ Answered(c)
      PROVE  UNCHANGED <<asked, prod, cached, hist, histcached>>
  BY <1>3 DEF Refuse, Fail, CheckCount, AnswerEmpty, Join, Answered, AnswerResult, AnswerError
<1>4. ASSUME Tick \/ Import \/ AllAnswered \/ UNCHANGED vars
      PROVE  UNCHANGED <<asked, prod, cached, hist, histcached>>
  BY <1>4 DEF Tick, Import, AllAnswered, vars
<1>5. QED
  BY <1>1, <1>2, <1>3, <1>4, ProdStays, HistStays DEF Next, AskedFor
-----------------------------------------------------------------------------
(* The parameters of a request *)

\* The arguments of a raster are those of the grid, its last one apart.
LEMMA RasterArguments ==
    ASSUME NEW S, NEW args \in Seq(S), DOMAIN args = DOMAIN RegionSpec
    PROVE  DOMAIN Raster(args).args = DOMAIN RegionSpec
<1>1. DOMAIN RegionSpec = 1 .. 5
  BY DEF RegionSpec
<1>2. Len(args) = 5
  BY <1>1
<1> PICK i \in Int : i = 1
  OBVIOUS
<1> PICK n \in Int : n = 4
  OBVIOUS
<1> PICK s : s = SubSeq(args, i, n)
  OBVIOUS
<1>3. s \in Seq(S) /\ Len(s) = 4
  <2>1. \A k \in 1 .. 5 : args[k] \in S
    <3>1. \A k \in 1 .. Len(args) : args[k] \in S
      OBVIOUS
    <3> QED
      BY <1>2, <3>1
  <2>3. \A k \in i .. n : k \in 1 .. 5
    OBVIOUS
  <2>4. \A k \in i .. n : args[k] \in S
    BY <2>1, <2>3
  <2>2. s \in Seq(S) /\ Len(s) = IF i <= n THEN n - i + 1 ELSE 0
    BY <2>4, SubSeqProperties
  <2> QED
    BY <2>2
<1> PICK w : w = Whole(0)
  OBVIOUS
<1>4. Raster(args).args = s \o << w >>
  BY DEF Raster
<1>5. DOMAIN (s \o << w >>) = 1 .. 5
  <2> PICK T : T = S \cup {w}
    OBVIOUS
  <2>1. s \in Seq(T) /\ << w >> \in Seq(T) /\ Len(<< w >>) = 1
    BY <1>3
  <2>2. Len(s \o << w >>) = 5 /\ s \o << w >> \in Seq(T)
    BY <1>3, <2>1
  <2> QED
    BY <2>2
<1> QED
  BY <1>1, <1>4, <1>5

\* The request of a data method has an argument for each of its parameters.
LEMMA ArgumentsOfData ==
    ASSUME NEW body, "call" \in DOMAIN Parsed(body),
           Parsed(body).call.method \in DataMethods
    PROVE  DOMAIN Parsed(body).call.args = DOMAIN MethodSpec[Parsed(body).call.method]
<1> DEFINE params == Field(body, "params")
           name == IF Field(body, "method").t = "text" THEN Field(body, "method").v ELSE "other"
           resolved == ResolveArgs(name, params)
<1>1. \A d, i, k, m : "call" \notin DOMAIN Reject(d, i, k, m)
  BY DEF Reject
<1>2. /\ "args" \in DOMAIN resolved
      /\ Parsed(body).call = Invoked(name, resolved.args)
  <2> HIDE DEF name, params
  <2>1. \/ \E d, i, k, m : Parsed(body) = Reject(d, i, k, m)
        \/ /\ "args" \in DOMAIN resolved
           /\ \E d, i, m : Parsed(body) = [call |-> Invoked(name, resolved.args),
                                         dialect |-> d, id |-> i, meta |-> m]
    BY DEF Parsed, ParseError, name, params
  <2>2. PICK d, i, m : Parsed(body) = [call |-> Invoked(name, resolved.args),
                                       dialect |-> d, id |-> i, meta |-> m]
    BY <1>1, <2>1
  <2>3. "args" \in DOMAIN resolved
    BY <1>1, <2>1
  <2> HIDE DEF resolved
  <2> QED
    BY <2>2, <2>3
<1>3. /\ DOMAIN resolved.args = DOMAIN MethodSpec[name]
      /\ resolved.args = [i \in DOMAIN resolved.args |-> resolved.args[i]]
  <2> HIDE DEF name, params
  <2> QED
    BY <1>2 DEF ResolveArgs
<1> HIDE DEF name, resolved
<1>4. CASE name \in {"get_strikes_raster", "get_strokes_raster"}
  <2>1. /\ Parsed(body).call.method = "get_strikes_grid"
        /\ Parsed(body).call.args = Raster(resolved.args).args
    BY <1>2, <1>4 DEF Invoked, Raster
  <2>2. MethodSpec[name] = RegionSpec /\ MethodSpec["get_strikes_grid"] = RegionSpec
    BY <1>4 DEF MethodSpec
  <2> PICK args : args = resolved.args
    OBVIOUS
  <2> PICK S : S = {args[i] : i \in DOMAIN args}
    OBVIOUS
  <2>3. DOMAIN RegionSpec = 1 .. 5 /\ DOMAIN args = DOMAIN RegionSpec
    BY <1>3, <2>2 DEF RegionSpec
  <2>4. \A i \in 1 .. 5 : args[i] \in S
    BY <2>3
  <2>5. args \in [1 .. 5 -> S]
    BY <1>3, <2>3, <2>4
  <2>6. args \in Seq(S)
    BY <2>5
  <2> QED
    BY <2>1, <2>2, <2>3, <2>6, RasterArguments
<1>5. CASE name \notin {"get_strikes_raster", "get_strokes_raster"}
  BY <1>2, <1>3, <1>5 DEF Invoked
<1> QED
  BY <1>4, <1>5

\* What is read as an integer is one.
LEMMA ToIntIsInt ==
    ASSUME NEW v, IsValue(v), ToInt(v) # << >>
    PROVE  ToInt(v)[1] \in Int
<1>1. CASE v.t \in {"int", "digits"}
  BY <1>1 DEF ToInt, IsValue
<1>2. CASE v.t = "float"
  <2>1. v.v \in Int /\ ToInt(v) = << Toward0(v.v, 2) >>
    BY <1>2 DEF ToInt, IsValue
  <2>2. Toward0(v.v, 2) \in Int
    BY <2>1 DEF Toward0
  <2> QED
    BY <2>1, <2>2
<1>3. CASE v.t = "bool"
  BY <1>3 DEF ToInt
<1>4. CASE v.t \in {"null", "text", "decimal", "endless", "array", "object"}
  BY <1>4 DEF ToInt
<1> QED
  BY <1>1, <1>2, <1>3, <1>4 DEF IsValue

\* The arguments of a request, by their names.
LEMMA CoercedInts ==
    ASSUME NEW asks, DOMAIN asks.args = DOMAIN MethodSpec[asks.method],
           Coercible(asks.args), \A i \in DOMAIN asks.args : IsValue(asks.args[i])
    PROVE  \A name \in DOMAIN Coerced(asks) : Coerced(asks)[name] \in Int
<1> DEFINE spec == MethodSpec[asks.method]
           at(name) == CHOOSE i \in DOMAIN spec : spec[i][1] = name
<1>1. /\ DOMAIN Coerced(asks) = {spec[i][1] : i \in DOMAIN spec}
      /\ \A name \in DOMAIN Coerced(asks) : Coerced(asks)[name] = ToInt(asks.args[at(name)])[1]
  BY DEF Coerced
<1> SUFFICES ASSUME NEW name \in DOMAIN Coerced(asks) PROVE Coerced(asks)[name] \in Int
  OBVIOUS
<1> HIDE DEF spec
<1>2. at(name) \in DOMAIN spec
  BY <1>1
<1>3. at(name) \in DOMAIN asks.args
  BY <1>2 DEF spec
<1> HIDE DEF at
<1>4. ToInt(asks.args[at(name)]) # << >> /\ IsValue(asks.args[at(name)])
  BY <1>3 DEF Coercible
<1> QED
  BY <1>1, <1>4, ToIntIsInt

\* What a request that is served asks for are integers.
LEMMA GivenInts ==
    ASSUME AskedOf, Planned, NEW c \in Calls, Served(c)
    PROVE  /\ Method(c) \in DataMethods /\ Asked(c).call.method = Method(c)
           /\ GivenBy(c) = Coerced(Asked(c).call) /\ Params(c) = Clamped(Method(c), GivenBy(c))
           /\ Reason(c) = ForbiddenReason(Method(c), RequestOf(c), GivenBy(c))
           /\ \A name \in DOMAIN GivenBy(c) : GivenBy(c)[name] \in Int
<1>1. /\ Wanted(c) /\ asked[c].job = << JobOf(Asked(c), RequestOf(c)) >>
      /\ Method(c) = Asked(c).call.method /\ Method(c) \in DataMethods
      /\ Asked(c) = Parsed(Content(HttpOf(c)))
      /\ "call" \in DOMAIN Asked(c) /\ Coercible(Asked(c).call.args)
  BY AskingFacts DEF Served
<1> PICK asks : asks = Asked(c).call
  OBVIOUS
<1> PICK given : given = Coerced(asks)
  OBVIOUS
<1>2. DOMAIN asks.args = DOMAIN MethodSpec[asks.method]
  BY <1>1, ArgumentsOfData
<1>3. \A i \in DOMAIN asks.args : IsValue(asks.args[i])
  <2>1. PICK n \in DOMAIN Plans : HttpOf(c) = Plans[n][c]
    BY DEF Planned
  <2> QED
    BY <1>1, <2>1, ValuesAssumption DEF ValuesAssumption
<1>4. \A name \in DOMAIN given : given[name] \in Int
  BY <1>1, <1>2, <1>3, CoercedInts
<1>5. /\ GivenBy(c) = given /\ Params(c) = Clamped(Method(c), given)
      /\ Reason(c) = ForbiddenReason(Method(c), RequestOf(c), given)
  BY <1>1 DEF JobOf, Params, GivenBy, Reason
<1> QED
  BY <1>1, <1>4, <1>5

\* How many minutes a window may have.
WindowLengths == 1 .. MAX_MINUTES_PER_DAY

\* A window is at most a day long and lies in the last day.
LEMMA ForcedRanges ==
    ASSUME NEW length \in Int, NEW offset \in Int
    PROVE  /\ MinuteLength(length) \in WindowLengths
           /\ MinuteOffset(length, offset) \in Int /\ MinuteOffset(length, offset) <= 0
<1> PICK l : l = MinuteLength(length)
  OBVIOUS
<1>1. MAX_MINUTES_PER_DAY = 1440 /\ WindowLengths = 1 .. 1440
  BY DEF MAX_MINUTES_PER_DAY, WindowLengths
<1>2. l \in 1 .. 1440
  BY <1>1 DEF MinuteLength, ForceRange, DEFAULT_MINUTE_LENGTH
<1>3. MinuteOffset(length, offset) = ForceRange(l - 1440, offset, 0)
  BY <1>1 DEF MinuteOffset
<1>4. ForceRange(l - 1440, offset, 0) \in Int /\ ForceRange(l - 1440, offset, 0) <= 0
  BY <1>2 DEF ForceRange
<1> QED
  BY <1>1, <1>2, <1>3, <1>4

\* The parameters of a served cluster request are in their ranges.
LEMMA ClusterParams ==
    ASSUME AskedOf, Planned, NEW c \in Calls, Served(c), Method(c) \in ClusterMethods
    PROVE  /\ Params(c).minute_length \in WindowLengths
           /\ Params(c).minute_offset \in Int /\ Params(c).minute_offset <= 0
           /\ Params(c).interval_count \in Nat \ {0}
<1> PICK given : given = GivenBy(c)
  OBVIOUS
<1>1. /\ Params(c) = Clamped(Method(c), given) /\ \A name \in DOMAIN given : given[name] \in Int
      /\ given = Coerced(Asked(c).call) /\ Asked(c).call.method = Method(c)
  BY GivenInts
<1>4. {"minute_length", "minute_offset", "interval_count"} \subseteq DOMAIN given
  <2>1. DOMAIN given = ParametersOf(Method(c))
    BY <1>1, ParametersOfMethods DEF DataMethods
  <2> QED
    BY <2>1 DEF ParametersOf, ClusterMethods
<1>6. /\ Params(c).minute_length = MinuteLength(given.minute_length)
      /\ Params(c).minute_offset = MinuteOffset(given.minute_length, given.minute_offset)
      /\ Params(c).interval_count = Larger(1, given.interval_count)
  BY <1>1, <1>4 DEF Clamped
<1>7. given.minute_length \in Int /\ given.minute_offset \in Int /\ given.interval_count \in Int
  BY <1>1, <1>4
<1> PICK l \in Int : l = given.minute_length
  BY <1>7
<1> PICK o \in Int : o = given.minute_offset
  BY <1>7
<1>8. MinuteLength(l) \in WindowLengths /\ MinuteOffset(l, o) \in Int /\ MinuteOffset(l, o) <= 0
  BY ForcedRanges, Zenon
<1>9. /\ Params(c).minute_length \in WindowLengths
      /\ Params(c).minute_offset \in Int /\ Params(c).minute_offset <= 0
  <2>1. Params(c).minute_length = MinuteLength(l) /\ Params(c).minute_offset = MinuteOffset(l, o)
    BY <1>6
  <2> QED
    BY <1>8, <2>1, Zenon
<1>10. Params(c).interval_count \in Nat \ {0}
  <2> PICK n \in Int : n = given.interval_count
    BY <1>7
  <2>1. Larger(1, n) \in Nat \ {0}
    BY DEF Larger
  <2> QED
    BY <1>6, <2>1
<1> QED
  BY <1>9, <1>10

\* The interval of a cluster request: its length, up to the last full minute but
\* for its offset.
LEMMA ClusterInterval ==
    ASSUME AskedOf, Planned, NEW c \in Calls, Served(c), Method(c) \in ClusterMethods,
           NEW b \in Int, b = prod[c].begun
    PROVE  /\ IntervalOf(c).end = b - (b % 60) + 60 * Params(c).minute_offset
           /\ IntervalOf(c).end \in Int /\ IntervalOf(c).start \in Int
           /\ IntervalOf(c).end - IntervalOf(c).start = 60 * Params(c).minute_length
<1> PICK l : l = Params(c).minute_length
  OBVIOUS
<1> PICK o : o = Params(c).minute_offset
  OBVIOUS
<1> PICK t : t = b - (b % 60)
  OBVIOUS
<1>1. l \in Int /\ o \in Int /\ t \in Int
  <2>1. l \in WindowLengths /\ o \in Int
    BY ClusterParams, Zenon
  <2>2. l \in Int
    BY <2>1 DEF WindowLengths, MAX_MINUTES_PER_DAY
  <2>3. t \in Int
    OBVIOUS
  <2> QED
    BY <2>1, <2>2, <2>3
<1>2. IntervalOf(c) = [start |-> (t + 60 * o) - 60 * l, end |-> t + 60 * o]
  BY DEF IntervalOf, ClusterTimeInterval, TimeInterval
<1>3. IntervalOf(c).end = t + 60 * o /\ IntervalOf(c).start = (t + 60 * o) - 60 * l
  BY <1>2
<1> QED
  BY <1>1, <1>3

\* The newest cluster that is looked for is not newer than the interval.
LEMMA NewestInInterval ==
    ASSUME NEW interval, interval.end \in Int, interval.start \in Int, NEW count \in Int,
           NEW area, NEW table
    PROVE  /\ LatestTimestamp(interval, count, area, table) \in Int
           /\ LatestTimestamp(interval, count, area, table) <= interval.end
<1> DEFINE seconds == interval.end - interval.start
           lookback == Smaller(seconds * count, MAX_MINUTES_PER_DAY * 60)
           stored == {table[i].timestamp : i \in
                         {j \in DOMAIN table :
                             /\ table[j].timestamp \in interval.end - lookback .. interval.end
                             /\ table[j].seconds = Smallint(seconds)
                             /\ InArea(area, table[j])}}
<1>1. LatestTimestamp(interval, count, area, table) =
         IF stored = {} THEN interval.end ELSE Max(stored)
  BY DEF LatestTimestamp
<1>2. lookback \in Int
  BY DEF Smaller, MAX_MINUTES_PER_DAY
<1>3. \A s \in stored : s \in interval.end - lookback .. interval.end
  <2> HIDE DEF lookback, seconds
  <2> QED
    OBVIOUS
<1> HIDE DEF stored, lookback
<1>4. stored \in SUBSET Int /\ \A s \in stored : s <= interval.end
  BY <1>2, <1>3
<1>5. CASE stored = {}
  BY <1>1, <1>5
<1>6. CASE stored # {}
  <2>1. Max(stored) \in stored
    BY <1>4, <1>6, MaxOfBounded
  <2> QED
    BY <1>1, <1>4, <1>6, <2>1
<1> QED
  BY <1>5, <1>6

\* What is equally far from an edge is at the same place.
LEMMA SameFromEdge ==
    ASSUME NEW y \in Int, NEW a \in Int, NEW b \in Int
    PROVE  y - a = y - b <=> a = b
OBVIOUS

\* The remainder of a number that is less than its divisor, or than twice that.
LEMMA SmallRemainder ==
    ASSUME NEW y \in Int, NEW w \in Int, w > 0
    PROVE  /\ 0 <= y /\ y < w => y % w = y
           /\ w <= y /\ y < 2 * w => y % w = y - w
<1>1. ASSUME 0 <= y, y < w PROVE y % w = y
  BY <1>1
<1>2. ASSUME w <= y, y < 2 * w PROVE y % w = y - w
  BY <1>2
<1> QED
  BY <1>1, <1>2

\* A length that is stored is that of a request if and only if it is what the
\* request's length is cut off to.
LEMMA CutOffLength ==
    ASSUME NEW m \in WindowLengths, NEW s, Uncut(s)
    PROVE  s = Smallint(60 * m) <=> s = 60 * m
<1>1. m \in 1 .. 1440
  BY DEF WindowLengths, MAX_MINUTES_PER_DAY
<1>2. s \in Int /\ s >= 1 /\ s <= 32767
  BY DEF Uncut
<1>3. \A k \in 0 .. 347 : s # 60 * k + 44
  <2>1. s \notin CutOffs
    BY DEF Uncut
  <2> QED
    BY <2>1 DEF CutOffs
<1> PICK x \in Nat : x = 60 * m + 32768
  BY <1>1
<1>4. Smallint(60 * m) = (x % 65536) - 32768
  BY DEF Smallint
<1>5. CASE m <= 546
  <2>1. x \in Int /\ 65536 \in Int /\ 65536 > 0 /\ 0 <= x /\ x < 65536
    BY <1>1, <1>5
  <2>2. x % 65536 = x
    BY <2>1, SmallRemainder
  <2> QED
    BY <1>1, <1>4, <2>2
<1>6. CASE m > 546
  <2>1. x \in Int /\ 65536 \in Int /\ 65536 > 0 /\ 65536 <= x /\ x < 2 * 65536
    BY <1>1, <1>6
  <2>2. x % 65536 = x - 65536
    BY <2>1, SmallRemainder
  <2>3. Smallint(60 * m) = 60 * m - 65536
    BY <1>1, <1>4, <2>2
  <2>4. s # 60 * m - 65536
    <3>1. CASE m < 1093
      <4>1. 60 * m - 65536 < 1
        BY <1>1, <3>1
      <4> QED
        BY <1>1, <1>2, <4>1
    <3>2. CASE m >= 1093
      <4> PICK k \in 0 .. 347 : m = 1093 + k
        <5>1. m - 1093 \in 0 .. 347 /\ m = 1093 + (m - 1093)
          BY <1>1, <3>2
        <5> QED
          BY <5>1
      <4>1. 60 * m - 65536 = 60 * k + 44
        OBVIOUS
      <4>2. s # 60 * k + 44
        BY <1>3
      <4> QED
        BY <4>1, <4>2
    <3> QED
      BY <1>1, <3>1, <3>2
  <2>5. s # 60 * m
    BY <1>1, <1>2, <1>6
  <2> QED
    BY <2>3, <2>4, <2>5
<1> QED
  BY <1>1, <1>5, <1>6

\* The clusters of an answer are those that ClustersOwn wants to see.
LEMMA SelectedOwn ==
    ASSUME AskedOf, Planned, NEW c \in Calls, Served(c), Method(c) \in ClusterMethods,
           prod[c].begun \in Int, NEW a \in Int
    PROVE  LET v == ClustersAt(c, a)
               p == Params(c)
               fits(i) == /\ Clusters[i].seconds = v.dt
                          /\ \E k \in 0 .. p.interval_count - 1 : Clusters[i].timestamp = v.t - k * v.dt
                          /\ Method(c) = "get_local_clusters" =>
                                LET f == LocalFactory(p.x, p.y, p.data_area)
                                IN  /\ Clusters[i].x \in f.minlon .. f.maxlon
                                    /\ Clusters[i].y \in f.minlat .. f.maxlat
           IN  /\ v.t = a
               /\ v.dt = 60 * p.minute_length
               /\ v.clusters = {i \in DOMAIN Clusters : fits(i)}
<1> PICK p : p = Params(c)
  OBVIOUS
<1> PICK area : area = ClusterArea(Method(c), p)
  OBVIOUS
<1> PICK d : d = 60 * p.minute_length
  OBVIOUS
<1> PICK n : n = p.interval_count
  OBVIOUS
<1> PICK m : m = p.minute_length
  OBVIOUS
<1>0. m \in WindowLengths /\ n \in Nat \ {0}
  BY ClusterParams, Zenon
<1>1. m \in 1 .. 1440 /\ d = 60 * m /\ d \in Int /\ n \in Nat \ {0}
  <2>1. m \in 1 .. 1440
    BY <1>0 DEF WindowLengths, MAX_MINUTES_PER_DAY
  <2> QED
    BY <1>0, <2>1
<1> PICK found : found = SelectClusters(a, d, n, area, Clusters)
  OBVIOUS
<1>2. /\ ClustersAt(c, a).t = a /\ ClustersAt(c, a).dt = d
      /\ ClustersAt(c, a).clusters = found
  <2>1. IntervalOf(c).end \in Int /\ IntervalOf(c).start \in Int
        /\ IntervalOf(c).end - IntervalOf(c).start = d
    BY ClusterInterval
  <2>2. PICK i : i = IntervalOf(c)
    OBVIOUS
  <2>3. ClustersAt(c, a) = [t |-> a, dt |-> a - (a - (i.end - i.start)), clusters |-> found]
    BY <2>2 DEF ClustersAt, BuildClustersResponse, ReanchorInterval
  <2>4. a - (a - (i.end - i.start)) = d
    BY <1>1, <2>1, <2>2
  <2> QED
    BY <2>3, <2>4
<1>3. ASSUME NEW i \in DOMAIN Clusters
      PROVE  Clusters[i].seconds = Smallint(d) <=> Clusters[i].seconds = d
  <2>1. PICK s : s = Clusters[i].seconds
    OBVIOUS
  <2>2. Uncut(s)
    BY <2>1, ClustersAssumption DEF ClustersAssumption
  <2>3. s = Smallint(60 * m) <=> s = 60 * m
    BY <1>0, <2>2, CutOffLength, Zenon
  <2>4. d = 60 * m
    BY <1>1
  <2> QED
    BY <2>1, <2>3, <2>4, Zenon
<1>4. \A x : (\E k \in 1 .. n : x = ClusterTimestamps(a, d, n)[k])
                <=> \E k \in 0 .. n - 1 : x = a - k * d
  <2> DEFINE ago(k) == a - k * d
  <2>1. \A k \in 1 .. n : ClusterTimestamps(a, d, n)[k] = ago(k - 1)
    BY Zenon DEF ClusterTimestamps
  <2>2. /\ \A k \in 1 .. n : k - 1 \in 0 .. n - 1
        /\ \A k \in 0 .. n - 1 : k + 1 \in 1 .. n /\ (k + 1) - 1 = k
    BY <1>1
  <2> HIDE DEF ago
  <2>3. \A x : (\E k \in 1 .. n : x = ClusterTimestamps(a, d, n)[k])
                  <=> \E k \in 0 .. n - 1 : x = ago(k)
    BY <2>1, <2>2
  <2> QED
    BY <2>3 DEF ago
<1>5. ASSUME NEW i
      PROVE  InArea(area, Clusters[i]) <=>
                (Method(c) = "get_local_clusters" =>
                    LET f == LocalFactory(p.x, p.y, p.data_area)
                    IN  /\ Clusters[i].x \in f.minlon .. f.maxlon
                        /\ Clusters[i].y \in f.minlat .. f.maxlat)
  <2>1. CASE Method(c) = "get_local_clusters"
    <3> PICK f : f = LocalFactory(p.x, p.y, p.data_area)
      OBVIOUS
    <3>1. area = << << f.minlon, f.maxlon, f.minlat, f.maxlat >> >>
      BY <2>1 DEF ClusterArea, LocalArea
    <3>2. InArea(area, Clusters[i]) <=> /\ Clusters[i].x \in f.minlon .. f.maxlon
                                        /\ Clusters[i].y \in f.minlat .. f.maxlat
      BY <3>1 DEF InArea
    <3> QED
      BY <2>1, <3>2
  <2>2. CASE Method(c) # "get_local_clusters"
    BY <2>2 DEF ClusterArea, InArea
  <2> QED
    BY <2>1, <2>2
<1>6. found = {i \in DOMAIN Clusters :
                  /\ \E k \in 1 .. n : Clusters[i].timestamp = ClusterTimestamps(a, d, n)[k]
                  /\ Clusters[i].seconds = Smallint(d)
                  /\ InArea(area, Clusters[i])}
  BY DEF SelectClusters
<1> DEFINE near(i) == Method(c) = "get_local_clusters" =>
                          LET f == LocalFactory(p.x, p.y, p.data_area)
                          IN  /\ Clusters[i].x \in f.minlon .. f.maxlon
                              /\ Clusters[i].y \in f.minlat .. f.maxlat
           fit(i) == /\ Clusters[i].seconds = d
                     /\ \E k \in 0 .. n - 1 : Clusters[i].timestamp = a - k * d
                     /\ near(i)
<1>7. found = {i \in DOMAIN Clusters : fit(i)}
  <2>1. \A i : InArea(area, Clusters[i]) <=> near(i)
    BY <1>5
  <2> HIDE DEF near
  <2>2. \A i \in DOMAIN Clusters :
           fit(i) <=> /\ \E k \in 1 .. n : Clusters[i].timestamp = ClusterTimestamps(a, d, n)[k]
                      /\ Clusters[i].seconds = Smallint(d)
                      /\ InArea(area, Clusters[i])
    BY <1>3, <1>4, <2>1
  <2> HIDE DEF fit
  <2> QED
    BY <1>6, <2>2
<1> QED
  BY <1>2, <1>7
-----------------------------------------------------------------------------
(* The productions that calls share *)

\* What a step may do to the production of a call: begin it for the call, which
\* no longer asks, or move on one that runs.
Grows(c) ==
    \/ prod'[c] = prod[c]
    \/ /\ call[c].at = "idle" /\ call'[c].at # "idle"
       /\ prod'[c].at = "running" /\ "begun" \in DOMAIN prod'[c] /\ prod'[c].begun = now
    \/ /\ prod[c].at = "running" /\ prod'[c].at \in {"running", "done", "failed"}
       /\ "begun" \in DOMAIN prod'[c] /\ prod'[c].begun = prod[c].begun

FoundStep == \A c \in Calls : Method(c) \in ClusterMethods => Found(c)'

\* What is found depends on the call and on its own production.
LEMMA FoundKept ==
    ASSUME NEW c \in Calls, UNCHANGED asked, prod'[c] = prod[c], Found(c)
    PROVE  Found(c)'
<1>1. IntervalOf(c)' = IntervalOf(c) /\ Params(c)' = Params(c) /\ Method(c)' = Method(c)
  BY DEF IntervalOf, Params, Method
<1>2. \A a : GoodAnchor(c, a)' <=> GoodAnchor(c, a)
  BY <1>1 DEF GoodAnchor
<1>3. \A a : ClustersAt(c, a)' = ClustersAt(c, a)
  BY <1>1 DEF ClustersAt
<1> QED
  BY <1>2, <1>3 DEF Found

\* A call begins its own production.
LEMMA BeginGrows ==
    ASSUME Shapes, ClustersFound, NEW c \in Calls, BeginGrid(c) \/ BeginClusters(c)
    PROVE  /\ \A d \in Calls : Grows(d)
           /\ prod'[c].at = "running" /\ prod'[c].begun = now
           /\ FoundStep
<1>1. /\ call[c].at = "idle" /\ call'[c].at = "waiting" /\ UNCHANGED asked
  BY DEF BeginGrid, BeginClusters, Shapes
<1>2. ASSUME NEW d \in Calls, d # c
      PROVE  prod'[d] = prod[d] /\ (Method(d) \in ClusterMethods => Found(d)')
  <2>1. prod'[d] = prod[d]
    BY <1>2 DEF BeginGrid, BeginClusters, Shapes
  <2> QED
    BY <1>1, <2>1, FoundKept DEF ClustersFound
<1>3. /\ prod'[c].at = "running" /\ "begun" \in DOMAIN prod'[c] /\ prod'[c].begun = now
      /\ Method(c) \in ClusterMethods => Found(c)'
  <2>1. CASE BeginGrid(c)
    <3>1. \E on : prod' = [prod EXCEPT ![c] =
                              [at |-> "running", begun |-> now, rows |-> << >>, hist |-> on]]
      BY <2>1 DEF BeginGrid
    <3>2. \E on : prod'[c] = [at |-> "running", begun |-> now, rows |-> << >>, hist |-> on]
      BY <3>1 DEF Shapes
    <3>3. Method(c) \notin ClusterMethods
      BY <2>1 DEF BeginGrid, GridMethods, ClusterMethods
    <3> QED
      BY <3>2, <3>3
  <2>2. CASE BeginClusters(c)
    <3>1. prod'[c] = [at |-> "running", begun |-> now, anchor |-> << >>]
      BY <2>2 DEF BeginClusters, Shapes
    <3>2. Found(c)'
      BY <3>1 DEF Found
    <3> QED
      BY <3>1, <3>2
  <2> QED
    BY <2>1, <2>2
<1> QED
  BY <1>1, <1>2, <1>3 DEF Grows, FoundStep

\* A call of clusters looks for the newest of them, up to the end of its interval.
LEMMA NewestIsGood ==
    ASSUME AskedOf, Planned, CacheInv, Shapes, Clocks, ClustersFound, NEW c \in Calls,
           Method(c) \in ClusterMethods, LookForNewest(c)
    PROVE  Found(c)'
<1>1. /\ prod[c].at = "running" /\ Served(c) /\ UNCHANGED asked
      /\ "begun" \in DOMAIN prod[c] /\ prod[c].begun \in Int
      /\ "rows" \notin DOMAIN prod[c] /\ "anchor" \in DOMAIN prod[c] /\ "at" \in DOMAIN prod[c]
  BY DEF LookForNewest, ClustersRunning, CacheInv, BegunServed, Clocks, ClustersFound, Found,
         Shapes
<1> PICK a : a = IF Params(c).minute_offset = 0
                 THEN LatestTimestamp(IntervalOf(c), Params(c).interval_count,
                                      ClusterArea(Method(c), Params(c)), Clusters)
                 ELSE IntervalOf(c).end
  OBVIOUS
<1>2. prod' = [prod EXCEPT ![c].anchor = << a >>]
  BY DEF LookForNewest
<1>3. IntervalOf(c).end \in Int /\ IntervalOf(c).start \in Int
  BY <1>1, ClusterInterval
<1>4. Params(c).interval_count \in Int
  BY <1>1, ClusterParams
<1>5. GoodAnchor(c, a)
  <2>1. CASE Params(c).minute_offset = 0
    <3> PICK area : area = ClusterArea(Method(c), Params(c))
      OBVIOUS
    <3>1. a = LatestTimestamp(IntervalOf(c), Params(c).interval_count, area, Clusters)
      BY <2>1
    <3>2. a \in Int /\ a <= IntervalOf(c).end
      BY <1>3, <1>4, <3>1, NewestInInterval
    <3> QED
      BY <2>1, <3>2 DEF GoodAnchor
  <2>2. CASE Params(c).minute_offset # 0
    BY <1>3, <2>2 DEF GoodAnchor
  <2> QED
    BY <2>1, <2>2
<1>6. /\ prod'[c].at = "running" /\ DOMAIN prod'[c] = DOMAIN prod[c]
      /\ prod'[c].anchor = << a >> /\ prod'[c].begun = prod[c].begun
  BY <1>1, <1>2 DEF Shapes
<1>7. GoodAnchor(c, a)'
  <2>1. IntervalOf(c)' = IntervalOf(c) /\ Params(c)' = Params(c)
    BY <1>1, <1>6 DEF IntervalOf, Params, Method
  <2> QED
    BY <1>5, <2>1 DEF GoodAnchor
<1>8. a \in Int
  BY <1>5 DEF GoodAnchor
<1> QED
  BY <1>1, <1>6, <1>7, <1>8 DEF Found

\* What it builds then are the clusters up to that.
LEMMA BuiltIsGood ==
    ASSUME Shapes, ClustersFound, NEW c \in Calls, Method(c) \in ClusterMethods, BuildClusters(c)
    PROVE  Found(c)'
<1>1. /\ prod[c].at = "running" /\ prod[c].anchor # << >> /\ UNCHANGED asked
  BY DEF BuildClusters, ClustersRunning
<1>2. PICK a \in Int : prod[c].anchor = << a >> /\ GoodAnchor(c, a)
  BY <1>1 DEF ClustersFound, Found
<1> PICK v : v = ClustersAt(c, a)
  OBVIOUS
<1>3. prod' = [prod EXCEPT ![c] = [at |-> "done", begun |-> prod[c].begun, value |-> v]]
  <2>1. ReanchorInterval(IntervalOf(c), a).end = a
    BY DEF ReanchorInterval
  <2>2. prod[c].anchor[1] = a
    BY <1>2
  <2> QED
    BY <2>1, <2>2 DEF BuildClusters, ClustersAt, Shapes
<1>4. prod'[c].at = "done" /\ prod'[c].begun = prod[c].begun /\ prod'[c].value = v
  BY <1>3 DEF Shapes
<1>5. IntervalOf(c)' = IntervalOf(c) /\ Params(c)' = Params(c) /\ Method(c)' = Method(c)
  BY <1>1, <1>4 DEF IntervalOf, Params, Method
<1>6. GoodAnchor(c, a)' /\ ClustersAt(c, a)' = v
  BY <1>2, <1>5 DEF GoodAnchor, ClustersAt
<1> QED
  BY <1>4, <1>6 DEF Found

\* The queries move on a production that runs.
LEMMA QueryGrows ==
    ASSUME AskedOf, Planned, CacheInv, Shapes, Clocks, ClustersFound, NEW c \in Calls, Queried(c)
    PROVE  (\A d \in Calls : Grows(d)) /\ FoundStep
<1>1. \A d \in Calls : prod[d].at = "running" => "begun" \in DOMAIN prod[d] /\ "at" \in DOMAIN prod[d]
  BY DEF Clocks, Shapes
<1>2. UNCHANGED asked
  BY DEF Queried, GridQueried, HistogramQueried, BuildGrid, LookForNewest, BuildClusters,
         QueryFails, HistogramFails
<1>3. ASSUME \A d \in Calls \ {c} : prod'[d] = prod[d],
             Grows(c), Method(c) \in ClusterMethods => Found(c)'
      PROVE  (\A d \in Calls : Grows(d)) /\ FoundStep
  BY <1>2, <1>3, FoundKept DEF Grows, FoundStep, ClustersFound
<1>4. GridRunning(c) => Method(c) \notin ClusterMethods
  BY DEF GridRunning, ClustersFound, Found
<1>5. CASE GridQueried(c)
  <2>1. PICK r : prod' = [prod EXCEPT ![c].rows = << r >>]
    BY <1>5 DEF GridQueried
  <2>2. /\ prod'[c].at = "running" /\ DOMAIN prod'[c] = DOMAIN prod[c]
        /\ prod'[c].begun = prod[c].begun
    BY <1>1, <1>5, <2>1 DEF GridQueried, GridRunning, Shapes
  <2> QED
    BY <1>1, <1>3, <1>4, <1>5, <2>1, <2>2 DEF GridQueried, GridRunning, Grows, Shapes
<1>6. CASE HistogramQueried(c)
  <2>1. prod' = prod
    BY <1>6 DEF HistogramQueried
  <2> QED
    BY <1>2, <2>1, FoundKept DEF Grows, FoundStep, ClustersFound
<1>7. CASE BuildGrid(c)
  <2>1. PICK v : prod' = [prod EXCEPT ![c] =
                 [at |-> "done", begun |-> prod[c].begun, hist |-> prod[c].hist, value |-> v]]
    BY <1>7 DEF BuildGrid, Shapes
  <2>2. prod'[c] = [at |-> "done", begun |-> prod[c].begun, hist |-> prod[c].hist, value |-> v]
    BY <2>1 DEF Shapes
  <2>3. Grows(c)
    BY <1>7, <2>2 DEF BuildGrid, GridRunning, Grows
  <2>4. Method(c) \notin ClusterMethods
    BY <1>4, <1>7 DEF BuildGrid
  <2>5. \A d \in Calls \ {c} : prod'[d] = prod[d]
    BY <2>1 DEF Shapes
  <2> QED
    BY <1>3, <2>3, <2>4, <2>5
<1>8. CASE LookForNewest(c)
  <2>1. PICK r : prod' = [prod EXCEPT ![c].anchor = << r >>]
    BY <1>8 DEF LookForNewest
  <2>2. /\ prod'[c].at = "running" /\ DOMAIN prod'[c] = DOMAIN prod[c]
        /\ prod'[c].begun = prod[c].begun
    BY <1>1, <1>8, <2>1 DEF LookForNewest, ClustersRunning, Shapes
  <2> QED
    BY <1>1, <1>3, <1>8, <2>1, <2>2, NewestIsGood DEF LookForNewest, ClustersRunning, Grows, Shapes
<1>9. CASE BuildClusters(c)
  <2>1. PICK v : prod' = [prod EXCEPT ![c] = [at |-> "done", begun |-> prod[c].begun, value |-> v]]
    BY <1>9 DEF BuildClusters, Shapes
  <2>2. prod'[c] = [at |-> "done", begun |-> prod[c].begun, value |-> v]
    BY <2>1 DEF Shapes
  <2>3. Grows(c)
    BY <1>9, <2>2 DEF BuildClusters, ClustersRunning, Grows
  <2>4. Method(c) \in ClusterMethods => Found(c)'
    BY <1>9, BuiltIsGood
  <2>5. \A d \in Calls \ {c} : prod'[d] = prod[d]
    BY <2>1 DEF Shapes
  <2> QED
    BY <1>3, <2>3, <2>4, <2>5
<1>10. CASE QueryFails(c)
  <2>1. /\ prod' = [prod EXCEPT ![c] = [at |-> "failed", begun |-> prod[c].begun]]
        /\ prod[c].at = "running"
    BY <1>10 DEF QueryFails, Shapes, GridRunning, ClustersRunning
  <2>2. prod'[c] = [at |-> "failed", begun |-> prod[c].begun]
    BY <2>1 DEF Shapes
  <2>3. Found(c)'
    BY <2>2 DEF Found
  <2> QED
    BY <1>3, <2>1, <2>2, <2>3 DEF Grows, Shapes
<1>11. CASE HistogramFails(c)
  <2> PICK hit : hit = HistWaiting(c)
    OBVIOUS
  <2>1. prod' = [d \in Calls |-> IF d \in hit THEN [at |-> "failed", begun |-> prod[d].begun]
                                 ELSE prod[d]]
    BY <1>11 DEF HistogramFails
  <2>2. ASSUME NEW d \in Calls PROVE Grows(d) /\ (Method(d) \in ClusterMethods => Found(d)')
    <3>1. CASE d \in hit
      <4>1. prod[d].at = "running" /\ prod'[d] = [at |-> "failed", begun |-> prod[d].begun]
        BY <2>1, <3>1 DEF HistWaiting, GridRunning
      <4> QED
        BY <4>1 DEF Grows, Found
    <3>2. CASE d \notin hit
      <4>1. prod'[d] = prod[d]
        BY <2>1, <3>2
      <4> QED
        BY <1>2, <4>1, FoundKept DEF Grows, ClustersFound
    <3> QED
      BY <3>1, <3>2
  <2> QED
    BY <2>2 DEF FoundStep
<1>12. QED
  BY <1>5, <1>6, <1>7, <1>8, <1>9, <1>10, <1>11 DEF Queried

\* What a step may do to a call: have it join a production, show it the result
\* of the one it waits for, or answer it without.
Joins(c) ==
    /\ call[c].at = "idle" /\ call'[c].at = "waiting"
    /\ Serves(call[c].on, c, call[c].since)'

Shows(c) ==
    /\ call[c].at = "waiting" /\ prod[call[c].on].at = "done"
    /\ call'[c].at = "answered" /\ call'[c].since = call[c].since
    /\ DataOf(c)' = prod[call[c].on].value

CallMoves(c) ==
    \/ call'[c] = call[c] /\ (call[c].at = "idle" => prod'[c] = prod[c])
    \/ Joins(c) \/ Shows(c)
    \/ call'[c].at \notin {"idle", "waiting"} /\ ~Shown(c)'

\* A call joins a production of its own key that is not too old.
LEMMA JoinMoves ==
    ASSUME Shapes, Clocks, CacheInv, NEW c \in Calls, Join(c)
    PROVE  \A d \in Calls : CallMoves(d)
<1>1. /\ call[c].at = "idle" /\ Served(c) /\ UNCHANGED <<asked, prod, now>>
      /\ \E o \in Usable(c) : call' = [call EXCEPT ![c] = [at |-> "waiting", on |-> o, since |-> now]]
  BY DEF Join
<1>2. PICK o \in Usable(c) :
         call' = [call EXCEPT ![c] = [at |-> "waiting", on |-> o, since |-> now]]
  BY <1>1
<1>3. /\ call'[c] = [at |-> "waiting", on |-> o, since |-> now]
      /\ \A d \in Calls : d # c => call'[d] = call[d]
  BY <1>2 DEF Shapes
<1>4. /\ o \in cached /\ o \in Calls /\ KeyOf(o) = KeyOf(c)
      /\ Young(prod[o].begun, TimeToLive(Params(c)))
  BY DEF Usable, Shapes
<1>5. /\ prod[o].at # "none" /\ Served(o)
      /\ prod[o].begun \in Int /\ prod[o].begun <= now /\ now \in Int
  BY <1>4 DEF Clocks, CacheInv, BegunServed
<1>6. now < prod[o].begun + TimeToLive(Params(c))
  <2>1. TimeToLive(Params(c)) \in Int
    BY DEF TimeToLive
  <2> QED
    BY <1>4, <1>5, <2>1 DEF Young
<1> PICK t : t = now
  OBVIOUS
<1>7. Serves(o, c, t)
  BY <1>1, <1>4, <1>5, <1>6 DEF Serves
<1>8. Serves(o, c, t)'
  BY <1>1, <1>7, SameAsked DEF Serves, KeyOf, Params
<1>9. call'[c].on = o /\ call'[c].at = "waiting" /\ call'[c].since = t
  BY <1>3
<1>10. Joins(c)
  BY <1>1, <1>8, <1>9 DEF Joins, Serves
<1> QED
  BY <1>1, <1>3, <1>10 DEF CallMoves

\* One that begins its own joins that.
LEMMA BeginJoins ==
    ASSUME Shapes, Clocks, ClustersFound, NEW c \in Calls, BeginGrid(c) \/ BeginClusters(c)
    PROVE  \A d \in Calls : CallMoves(d)
<1>1. /\ call[c].at = "idle" /\ Served(c) /\ UNCHANGED <<asked, now>>
      /\ call' = [call EXCEPT ![c] = [at |-> "waiting", on |-> c, since |-> now]]
  BY DEF BeginGrid, BeginClusters
<1>2. /\ call'[c].at = "waiting" /\ call'[c].on = c /\ call'[c].since = now
      /\ \A d \in Calls : d # c => call'[d] = call[d]
  BY <1>1 DEF Shapes
<1>3. prod'[c].at = "running" /\ prod'[c].begun = now
  BY BeginGrows
<1> PICK t : t = now
  OBVIOUS
<1>4. Serves(c, c, t)'
  <2>1. t \in Int /\ TimeToLive(Params(c)') \in Int
    BY DEF Clocks, TimeToLive
  <2>2. t <= t /\ t < t + TimeToLive(Params(c)')
    BY <2>1 DEF TimeToLive
  <2> QED
    BY <1>1, <1>3, <2>2, SameAsked DEF Serves
<1>5. Joins(c)
  BY <1>1, <1>2, <1>4 DEF Joins, Serves
<1>6. \A d \in Calls : d # c => prod'[d] = prod[d]
  BY DEF BeginGrid, BeginClusters, Shapes
<1> QED
  BY <1>2, <1>5, <1>6 DEF CallMoves

\* An answer is that of a call that is not served, or an error, or the result
\* that the call waited for.
LEMMA AnswerMoves ==
    ASSUME AskedOf, Shapes, TraceInv, NEW c \in Calls,
           Fail(c) \/ CheckCount(c) \/ AnswerEmpty(c) \/ Answered(c)
    PROVE  \A d \in Calls : CallMoves(d)
<1>1. CASE Fail(c) \/ AnswerEmpty(c) \/ AnswerError(c)
  <2>1. Answers(c) /\ (~Served(c) \/ call'[c].reply.fault)
    BY <1>1, PlainSteps
  <2>2. UNCHANGED <<asked, prod>>
    BY <1>1 DEF Fail, AnswerEmpty, AnswerError
  <2>3. ~Shown(c)'
    BY <2>1, <2>2, SameAsked DEF Shown
  <2> QED
    BY <2>1, <2>2, <2>3 DEF Answers, CallMoves
<1>2. CASE CheckCount(c)
  <2>1. /\ call' = [call EXCEPT ![c] = Finished(c, Result([kind |-> "count", count |-> checked + 1]),
                                               "none", RequestOf(c), FALSE)]
        /\ Method(c) = "check" /\ UNCHANGED <<asked, prod>>
    BY <1>2 DEF CheckCount
  <2>2. call'[c].at = "answered" /\ \A d \in Calls : d # c => call'[d] = call[d]
    BY <2>1 DEF Shapes, Finished
  <2>3. ~Served(c)
    BY <2>1, AskingFacts DEF Served, DataMethods, GridMethods, ClusterMethods
  <2>4. ~Shown(c)'
    BY <2>1, <2>3, SameAsked DEF Shown
  <2> QED
    BY <2>1, <2>2, <2>4 DEF CallMoves
<1>3. CASE AnswerResult(c)
  <2> PICK value : value = prod[call[c].on].value
    OBVIOUS
  <2>1. /\ call[c].at = "waiting" /\ prod[call[c].on].at = "done" /\ UNCHANGED <<asked, prod>>
        /\ \E large \in BOOLEAN :
              call' = [call EXCEPT ![c] =
                 Finished(c, Result([kind |-> "data", data |-> value]), "none", Fixed(c), large)]
    BY <1>3 DEF AnswerResult
  <2>2. PICK large \in BOOLEAN :
           call' = [call EXCEPT ![c] =
              Finished(c, Result([kind |-> "data", data |-> value]), "none", Fixed(c), large)]
    BY <2>1
  <2>3. /\ call'[c] = Finished(c, Result([kind |-> "data", data |-> value]), "none", Fixed(c), large)
        /\ \A d \in Calls : d # c => call'[d] = call[d]
    BY <2>2 DEF Shapes
  <2>4. /\ call'[c].at = "answered"
        /\ call'[c].reply.content = [kind |-> "data", data |-> value]
        /\ call'[c].since = call[c].since
    BY <2>1, <2>3 DEF Finished, Rendered, Result, Success, Envelope, Outcome
  <2>5. DataOf(c)' = value
    BY <2>4 DEF DataOf
  <2> QED
    BY <2>1, <2>3, <2>4, <2>5 DEF Shows, CallMoves
<1>4. QED
  BY <1>1, <1>2, <1>3 DEF Answered

\* Time goes on, and nothing enters the cache but what has begun.
Onwards ==
    /\ now' \in Int /\ now <= now'
    /\ \A o \in cached' : o \in cached \/ prod'[o].at = "running"

\* Every step moves calls and productions so.
LEMMA StepGrows ==
    ASSUME IInv, ShareInv, [Next]_vars
    PROVE  /\ \A c \in Calls : Grows(c) /\ CallMoves(c)
           /\ FoundStep /\ Onwards
<1>1. /\ AskedOf /\ Shapes /\ TraceInv /\ CacheInv
      /\ Planned /\ Clocks /\ ClustersFound
  BY DEF IInv, ShareInv
<1>2. ASSUME UNCHANGED <<asked, prod, cached>>
      PROVE  (\A c \in Calls : Grows(c)) /\ FoundStep
             /\ \A o \in cached' : o \in cached \/ prod'[o].at = "running"
  BY <1>1, <1>2, FoundKept DEF Grows, FoundStep, ClustersFound
<1>3. ASSUME NEW c \in Calls, BeginGrid(c) \/ BeginClusters(c)
      PROVE  (\A d \in Calls : Grows(d) /\ CallMoves(d)) /\ FoundStep /\ Onwards
  <2>1. /\ UNCHANGED now /\ cached' = {o \in cached : KeyOf(o) # KeyOf(c)} \cup {c}
    BY <1>3 DEF BeginGrid, BeginClusters
  <2>2. prod'[c].at = "running"
    BY <1>1, <1>3, BeginGrows
  <2>3. Onwards
    BY <1>1, <2>1, <2>2 DEF Onwards, Clocks
  <2> QED
    BY <1>1, <1>3, <2>3, BeginGrows, BeginJoins
<1>4. ASSUME NEW c \in Calls, Queried(c)
      PROVE  (\A d \in Calls : Grows(d) /\ CallMoves(d)) /\ FoundStep /\ Onwards
  <2>1. UNCHANGED <<now, call>> /\ cached' \subseteq cached
    BY <1>4 DEF Queried, GridQueried, HistogramQueried, BuildGrid, LookForNewest, BuildClusters,
                QueryFails, HistogramFails
  <2>2. (\A d \in Calls : Grows(d)) /\ FoundStep
    BY <1>1, <1>4, QueryGrows
  <2>3. ASSUME NEW d \in Calls PROVE CallMoves(d)
    BY <1>1, <2>1, <2>2 DEF CallMoves, Grows, Clocks
  <2> QED
    BY <1>1, <2>1, <2>2, <2>3 DEF Onwards, Clocks
<1>5. ASSUME NEW c \in Calls,
             Refuse(c) \/ Fail(c) \/ CheckCount(c) \/ AnswerEmpty(c) \/ Join(c) \/ Answered(c)
      PROVE  (\A d \in Calls : Grows(d) /\ CallMoves(d)) /\ FoundStep /\ Onwards
  <2>1. UNCHANGED <<asked, prod, cached, now>>
    BY <1>5 DEF Refuse, Fail, CheckCount, AnswerEmpty, Join, Answered, AnswerResult, AnswerError
  <2>2. \A d \in Calls : CallMoves(d)
    <3>1. CASE Refuse(c)
      <4> PICK h : h = IF Malformed(HttpOf(c)) THEN Refusal(400, FALSE)
                       ELSE Refusal(405, WantsKeepAlive(HttpOf(c)))
        OBVIOUS
      <4>1. call' = [call EXCEPT ![c] = [at |-> "refused", http |-> h]]
        BY <3>1 DEF Refuse
      <4>2. call'[c].at = "refused" /\ \A d \in Calls : d # c => call'[d] = call[d]
        BY <1>1, <4>1 DEF Shapes
      <4> QED
        BY <2>1, <4>2 DEF CallMoves, Shown
    <3>2. CASE Join(c)
      BY <1>1, <3>2, JoinMoves
    <3>3. CASE Fail(c) \/ CheckCount(c) \/ AnswerEmpty(c) \/ Answered(c)
      BY <1>1, <3>3, AnswerMoves
    <3> QED
      BY <1>5, <3>1, <3>2, <3>3
  <2> QED
    BY <1>1, <1>2, <2>1, <2>2 DEF Onwards, Clocks
<1>6. ASSUME Tick \/ Import \/ AllAnswered \/ UNCHANGED vars
      PROVE  (\A d \in Calls : Grows(d) /\ CallMoves(d)) /\ FoundStep /\ Onwards
  <2>1. UNCHANGED <<asked, prod, cached, call>> /\ (now' = now \/ now' = now + 30)
    BY <1>6 DEF Tick, Import, AllAnswered, vars
  <2>2. now' \in Int /\ now <= now'
    BY <1>1, <2>1 DEF Clocks
  <2> QED
    BY <1>2, <2>1, <2>2 DEF CallMoves, Onwards
<1> QED
  BY <1>3, <1>4, <1>5, <1>6 DEF Next, AskedFor

\* A production that serves a call goes on to do so, whatever becomes of it.
LEMMA ServesOn ==
    ASSUME Clocks, UNCHANGED asked, NEW o, NEW c, NEW t, Serves(o, c, t), Grows(o)
    PROVE  Serves(o, c, t)' /\ (prod[o].at = "done" => prod'[o] = prod[o])
<1>1. /\ o \in Calls /\ prod[o].at # "none" /\ Served(o) /\ Served(c) /\ KeyOf(o) = KeyOf(c)
      /\ prod[o].begun <= t /\ t < prod[o].begun + TimeToLive(Params(c))
  BY DEF Serves
<1>2. prod'[o].at # "none" /\ prod'[o].begun = prod[o].begun
  BY <1>1 DEF Grows, Clocks
<1>3. /\ Served(o)' /\ Served(c)' /\ (KeyOf(o) = KeyOf(c))' /\ Params(c)' = Params(c)
  BY <1>1, SameAsked DEF KeyOf, Params
<1>4. Serves(o, c, t)'
  BY <1>1, <1>2, <1>3 DEF Serves
<1>5. prod[o].at = "done" => prod'[o] = prod[o]
  BY <1>1 DEF Grows, Clocks
<1> QED
  BY <1>4, <1>5

\* At the start nobody shares anything.
LEMMA InitShares == Init => ShareInv
<1> SUFFICES ASSUME Init PROVE ShareInv
  OBVIOUS
<1>1. Planned
  <2>1. PICK n \in DOMAIN Plans : asked = [c \in Calls |-> Asking(Plans[n][c])]
    BY DEF Init
  <2>2. ASSUME NEW c \in Calls PROVE HttpOf(c) = Plans[n][c]
    <3>1. asked[c] = Asking(Plans[n][c])
      BY <2>1
    <3>2. \A h : Asking(h).http = h
      BY DEF Asking
    <3> QED
      BY <3>1, <3>2 DEF HttpOf
  <2> QED
    BY <2>2 DEF Planned
<1>2. /\ \A c \in Calls : prod[c].at = "none" /\ call[c].at = "idle"
      /\ now \in Int /\ cached = {}
  BY StartAssumption DEF Init, NotBegun, StartAssumption
<1>3. Clocks /\ WaitsForOwn /\ ShowsOwn /\ ClustersFound
  BY <1>2 DEF Clocks, WaitsForOwn, ShowsOwn, Shown, ClustersFound, Found
<1> QED
  BY <1>1, <1>3 DEF ShareInv

\* And no step makes a call share what is not its own.
LEMMA StepShares == IInv /\ ShareInv /\ [Next]_vars => ShareInv'
<1> SUFFICES ASSUME IInv, ShareInv, [Next]_vars PROVE ShareInv'
  OBVIOUS
<1>1. /\ AskedOf /\ Shapes /\ CacheInv
      /\ Planned /\ Clocks /\ WaitsForOwn /\ ShowsOwn
  BY DEF IInv, ShareInv
<1>2. /\ \A c \in Calls : Grows(c) /\ CallMoves(c)
      /\ FoundStep /\ Onwards
  BY StepGrows
<1>3. UNCHANGED asked
  BY <1>1, StepMoves
<1>4. Planned'
  BY <1>1, <1>3 DEF Planned, HttpOf
<1>5. Clocks'
  <2>1. ASSUME NEW c \in Calls, prod'[c].at # "none"
        PROVE  "begun" \in DOMAIN prod'[c] /\ prod'[c].begun \in Int /\ prod'[c].begun <= now'
    <3>1. /\ "begun" \in DOMAIN prod'[c]
          /\ \/ prod'[c].begun = now
             \/ prod[c].at # "none" /\ prod'[c].begun = prod[c].begun
      BY <1>1, <1>2, <2>1 DEF Grows, Clocks
    <3>2. prod'[c].begun \in Int /\ prod'[c].begun <= now
      BY <1>1, <3>1 DEF Clocks
    <3>3. now \in Int /\ now' \in Int /\ now <= now'
      BY <1>1, <1>2 DEF Clocks, Onwards
    <3> QED
      BY <3>1, <3>2, <3>3
  <2>2. ASSUME NEW c \in Calls, call'[c].at = "idle" PROVE prod'[c].at = "none"
    BY <1>1, <1>2, <2>2 DEF CallMoves, Joins, Shows, Clocks
  <2>3. ASSUME NEW o \in cached' PROVE prod'[o].at # "none"
    <3>1. o \in cached \/ prod'[o].at = "running"
      BY <1>2 DEF Onwards
    <3>2. o \in cached => o \in Calls /\ prod[o].at # "none" /\ Grows(o)
      BY <1>1, <1>2 DEF Clocks, Shapes
    <3> QED
      BY <3>1, <3>2 DEF Grows
  <2> QED
    BY <1>2, <2>1, <2>2, <2>3 DEF Clocks, Onwards
<1>6. WaitsForOwn'
  <2> SUFFICES ASSUME NEW c \in Calls, call'[c].at = "waiting"
               PROVE  Serves(call[c].on, c, call[c].since)'
    BY DEF WaitsForOwn
  <2>1. call'[c] = call[c] \/ Joins(c)
    BY <1>2 DEF CallMoves, Shows
  <2>2. CASE call'[c] = call[c]
    <3> PICK o : o = call[c].on
      OBVIOUS
    <3> PICK t : t = call[c].since
      OBVIOUS
    <3>1. Serves(o, c, t)
      BY <1>1, <2>2 DEF WaitsForOwn
    <3>2. o \in Calls
      BY <3>1 DEF Serves
    <3>3. Serves(o, c, t)'
      BY <1>1, <1>2, <1>3, <3>1, <3>2, ServesOn
    <3> QED
      BY <2>2, <3>3 DEF Serves
  <2>3. CASE Joins(c)
    BY <2>3 DEF Joins
  <2> QED
    BY <2>1, <2>2, <2>3
<1>7. ShowsOwn'
  <2> SUFFICES ASSUME NEW c \in Calls, Shown(c)'
               PROVE  \E o \in Calls : /\ Serves(o, c, call[c].since)'
                                       /\ prod'[o].at = "done" /\ DataOf(c)' = prod'[o].value
    BY DEF ShowsOwn
  <2>1. call'[c].at = "answered"
    BY DEF Shown
  <2>2. call'[c] = call[c] \/ Shows(c)
    BY <1>2, <2>1 DEF CallMoves, Joins
  <2> PICK t : t = call[c].since
    OBVIOUS
  <2>3. \E o \in Calls : /\ Serves(o, c, t) /\ prod[o].at = "done"
                         /\ DataOf(c)' = prod[o].value /\ call'[c].since = t
    <3>1. CASE call'[c] = call[c]
      <4>1. Shown(c)
        BY <1>3, <3>1, SameAsked DEF Shown
      <4>2. DataOf(c)' = DataOf(c)
        BY <3>1 DEF DataOf
      <4> QED
        BY <1>1, <3>1, <4>1, <4>2 DEF ShowsOwn
    <3>2. CASE Shows(c)
      <4> PICK o : o = call[c].on
        OBVIOUS
      <4>1. Serves(o, c, t)
        BY <1>1, <3>2 DEF WaitsForOwn, Shows
      <4>2. o \in Calls
        BY <4>1 DEF Serves
      <4> QED
        BY <3>2, <4>1, <4>2 DEF Shows
    <3> QED
      BY <2>2, <3>1, <3>2
  <2>4. PICK o \in Calls : /\ Serves(o, c, t) /\ prod[o].at = "done"
                           /\ DataOf(c)' = prod[o].value /\ call'[c].since = t
    BY <2>3
  <2>5. Serves(o, c, t)' /\ prod'[o] = prod[o]
    BY <1>1, <1>2, <1>3, <2>4, ServesOn
  <2>6. Serves(o, c, call[c].since)'
    BY <2>4, <2>5 DEF Serves
  <2> QED
    BY <2>4, <2>5, <2>6
<1>8. ClustersFound'
  BY <1>2, <1>3, SameAsked DEF FoundStep, ClustersFound
<1> QED
  BY <1>4, <1>5, <1>6, <1>7, <1>8 DEF ShareInv
-----------------------------------------------------------------------------
(* The theorem *)

\* At the start nothing is answered, begun or counted.
LEMMA InitHolds == Init => IInv
<1> SUFFICES ASSUME Init PROVE IInv
  OBVIOUS
<1>1. AskedOf
  <2>1. PICK n \in DOMAIN Plans : asked = [c \in Calls |-> Asking(Plans[n][c])]
    BY DEF Init
  <2>2. ASSUME NEW c \in Calls PROVE asked[c] = Asking(HttpOf(c))
    <3>1. asked[c] = Asking(Plans[n][c])
      BY <2>1
    <3>2. \A h : Asking(h).http = h
      BY DEF Asking
    <3>3. QED
      BY <3>1, <3>2 DEF HttpOf
  <2>3. QED
    BY <2>1, <2>2 DEF AskedOf
<1>2. Shapes
  <2>1. usage = << >> /\ << >> \in Seq(ToSet(usage))
    BY DEF Init
  <2>2. QED
    BY <2>1 DEF Init, Shapes, NotBegun
<1>3. ShownCalls = {} /\ Checks = {}
  BY DEF Init, ShownCalls, Shown, Checks
<1>4. AllTold
  BY <1>3, FS_EmptySet DEF Init, AllTold
<1>5. AllCounted
  <2>1. {call[c].reply.content.count : c \in Checks} = {} /\ 1 .. 0 = {}
    BY <1>3
  <2>2. QED
    BY <1>3, <2>1, FS_EmptySet DEF Init, AllCounted
<1>6. WaitsServed /\ AllAgree
  BY DEF Init, WaitsServed, AllAgree
<1>7. CacheInv
  BY DEF Init, CacheInv, BegunServed, NoneFailed, NotBegun
<1>8. QED
  BY <1>1, <1>2, <1>4, <1>5, <1>6, <1>7 DEF IInv, TraceInv

\* No step disturbs any of it.
LEMMA StepHolds == IInv /\ [Next]_vars => IInv'
<1> SUFFICES ASSUME IInv, [Next]_vars PROVE IInv'
  OBVIOUS
<1>1. AskedOf /\ Shapes /\ TraceInv /\ CacheInv
  BY DEF IInv
<1>2. ProdMoves /\ HistMoves /\ UNCHANGED asked
  BY <1>1, StepMoves
<1>3. AskedOf'
  BY <1>1, <1>2 DEF AskedOf, HttpOf
<1>4. CacheInv'
  BY <1>1, <1>2, CacheKept
<1>5. TraceInv' /\ DOMAIN call' = Calls /\ checked' \in Nat /\ usage' \in Seq(ToSet(usage'))
  <2>1. ASSUME NEW c \in Calls, CheckCount(c)
        PROVE  TraceInv' /\ DOMAIN call' = Calls /\ checked' = checked + 1 /\ UNCHANGED usage
    BY <1>1, <2>1, CheckStep DEF CheckCount, Shapes
  <2>2. ASSUME NEW c \in Calls, AnswerResult(c)
        PROVE  TraceInv' /\ DOMAIN call' = Calls /\ UNCHANGED checked
               /\ usage' \in Seq(ToSet(usage'))
    BY <1>1, <2>2, ResultStep DEF AnswerResult, Shapes
  <2>3. ASSUME NEW c \in Calls, Fail(c) \/ AnswerEmpty(c) \/ AnswerError(c)
        PROVE  TraceInv' /\ UNCHANGED <<usage, checked>> /\ DOMAIN call' = Calls
    BY <1>1, <2>3, PlainSteps
  <2>4. CASE ~ \E c \in Calls : Fail(c) \/ CheckCount(c) \/ AnswerEmpty(c) \/ Answered(c)
    <3>1. TraceInv' /\ UNCHANGED <<usage, checked>> /\ DOMAIN call' = Calls
      BY <1>1, <2>4, QuietSteps
    <3>2. QED
      BY <1>1, <3>1 DEF Shapes
  <2>5. checked \in Nat /\ usage \in Seq(ToSet(usage))
    BY <1>1 DEF Shapes
  <2>6. QED
    BY <2>1, <2>2, <2>3, <2>4, <2>5 DEF Answered
<1>6. Shapes'
  BY <1>2, <1>5 DEF Shapes, ProdMoves, HistMoves
<1>7. QED
  BY <1>3, <1>4, <1>5, <1>6 DEF IInv

\* The invariant has all that OneTrace says.
LEMMA TraceFollows == IInv => OneTrace
<1> SUFFICES ASSUME IInv PROVE OneTrace
  OBVIOUS
<1>1. ShownCalls = {c \in Calls : Shown(c)}
  BY DEF ShownCalls
<1>2. Len(usage) = Cardinality({c \in Calls : Shown(c)})
  BY <1>1 DEF IInv, TraceInv, AllTold
<1>3. \A c \in Calls : Shown(c) => \E i \in DOMAIN usage : TellsOf(usage[i], c)
  BY <1>1 DEF IInv, TraceInv, AllTold
<1>4. \A c \in Calls :
         /\ ~Served(c) => prod[c].at = "none" /\ hist[c].at = "none"
         /\ call[c].at = "answered" => Agree(c, call[c])
  BY DEF IInv, TraceInv, AllAgree, CacheInv, BegunServed
<1>5. {call[c].reply.content.count : c \in Checks} = 1 .. Cardinality(Checks)
  BY DEF IInv, TraceInv, AllCounted
<1>6. (\A c \in cached : prod[c].at # "failed") /\ \A h \in histcached : hist[h].at # "failed"
  BY DEF IInv, CacheInv, NoneFailed
<1>7. QED
  BY <1>2, <1>3, <1>4, <1>5, <1>6 DEF OneTrace, Agree, Checks

\* Requests.OneTrace, for every set of calls, whatever they ask for, and every
\* table: what a call leaves behind it, its answer, its access line, its usage
\* entry and the counter of the checks, is said once and without contradiction.
THEOREM EveryCallLeavesOneTrace == Spec => []OneTrace
<1>1. Spec => []IInv
  BY InitHolds, StepHolds, PTL DEF Spec
<1>2. QED
  BY <1>1, TraceFollows, PTL

\* What a call is shown is what its own parameters ask for, whoever began it.
LEMMA OwnFollows == IInv /\ ShareInv => ClustersOwn
<1> SUFFICES ASSUME IInv, ShareInv, NEW c \in Calls, Shown(c), Method(c) \in ClusterMethods
             PROVE  LET v == DataOf(c)
                        p == Params(c)
                        fits(i) ==
                           /\ Clusters[i].seconds = v.dt
                           /\ \E k \in 0 .. p.interval_count - 1 : Clusters[i].timestamp = v.t - k * v.dt
                           /\ Method(c) = "get_local_clusters" =>
                                 LET f == LocalFactory(p.x, p.y, p.data_area)
                                 IN  /\ Clusters[i].x \in f.minlon .. f.maxlon
                                     /\ Clusters[i].y \in f.minlat .. f.maxlat
                    IN  /\ v.dt = 60 * p.minute_length
                        /\ v.clusters = {i \in DOMAIN Clusters : fits(i)}
                        /\ \E b \in BegunFor(c) :
                              LET until == b - (b % 60) + 60 * p.minute_offset
                              IN  v.t <= until /\ (p.minute_offset < 0 => v.t = until)
  BY DEF ClustersOwn
<1>1. /\ AskedOf /\ Planned /\ Clocks /\ ShowsOwn /\ ClustersFound
  BY DEF IInv, ShareInv
<1>2. PICK o \in Calls : /\ Serves(o, c, call[c].since)
                         /\ prod[o].at = "done" /\ DataOf(c) = prod[o].value
  BY <1>1 DEF ShowsOwn
<1>3. /\ Served(o) /\ Served(c) /\ KeyOf(o) = KeyOf(c)
      /\ prod[o].begun <= call[c].since /\ call[c].since < prod[o].begun + TimeToLive(Params(c))
      /\ prod[o].begun \in Int
  BY <1>1, <1>2 DEF Serves, Clocks
<1>4. Method(o) = Method(c) /\ Params(o) = Params(c)
  <2>1. ASSUME NEW d \in Calls, Served(d)
        PROVE  KeyOf(d).method = Method(d) /\ KeyOf(d).params = Params(d)
    <3>1. /\ asked[d].job = << JobOf(Asked(d), RequestOf(d)) >>
          /\ Method(d) = Asked(d).call.method
      BY <1>1, <2>1, AskingFacts DEF Served
    <3> PICK q : q = Params(d)
      OBVIOUS
    <3>2. KeyOf(d) = CacheKey(Method(d), q)
      BY <3>1 DEF JobOf, KeyOf, Params
    <3> QED
      BY <3>2 DEF CacheKey
  <2> QED
    BY <1>2, <1>3, <2>1
<1>5. PICK a \in Int : GoodAnchor(o, a) /\ prod[o].value = ClustersAt(o, a)
  BY <1>1, <1>2, <1>4 DEF ClustersFound, Found
<1>6. DataOf(c) = ClustersAt(o, a)
  BY <1>2, <1>5
<1> PICK p : p = Params(c)
  OBVIOUS
<1> PICK b \in Int : b = prod[o].begun
  BY <1>3
<1> PICK v : v = DataOf(c)
  OBVIOUS
<1> DEFINE fits(i) ==
              /\ Clusters[i].seconds = v.dt
              /\ \E k \in 0 .. p.interval_count - 1 : Clusters[i].timestamp = v.t - k * v.dt
              /\ Method(c) = "get_local_clusters" =>
                    LET f == LocalFactory(p.x, p.y, p.data_area)
                    IN  /\ Clusters[i].x \in f.minlon .. f.maxlon
                        /\ Clusters[i].y \in f.minlat .. f.maxlat
           until == b - (b % 60) + 60 * p.minute_offset
<1>7. v.t = a /\ v.dt = 60 * p.minute_length /\ v.clusters = {i \in DOMAIN Clusters : fits(i)}
  BY <1>1, <1>3, <1>4, <1>6, SelectedOwn
<1>8. b \in BegunFor(c)
  BY <1>2, <1>3 DEF BegunFor
<1>9. IntervalOf(o).end = until
  BY <1>1, <1>3, <1>4, ClusterInterval
<1>10. a <= until /\ (p.minute_offset < 0 => a = until)
  <2>1. p.minute_offset \in Int
    BY <1>1, <1>3, ClusterParams
  <2>2. p.minute_offset < 0 => p.minute_offset # 0
    BY <2>1
  <2> QED
    BY <1>4, <1>5, <1>9, <2>2 DEF GoodAnchor
<1>11. \E w \in BegunFor(c) :
          LET late == w - (w % 60) + 60 * p.minute_offset
          IN  v.t <= late /\ (p.minute_offset < 0 => v.t = late)
  BY <1>7, <1>8, <1>10
<1> QED
  BY <1>7, <1>11

\* Requests.ClustersOwn, for every set of calls, whatever they ask for, every
\* table of clusters (of lengths that none is cut off to) and every order of the queries: an answer
\* shows just the clusters of the call's own length, area and times, though it
\* comes from a production that another call began, which a failure or a clock
\* gone on may have thrown out of the cache since.
THEOREM EveryCallShowsItsClusters == Spec => []ClustersOwn
<1>1. Spec => []IInv
  BY InitHolds, StepHolds, PTL DEF Spec
<1>2. Spec => []ShareInv
  BY <1>1, InitShares, StepShares, PTL DEF Spec
<1> QED
  BY <1>1, <1>2, OwnFollows, PTL
-----------------------------------------------------------------------------
(* The statements: what the database reads by number is what was registered by name *)

\* What the statements on strikes say, and the names in them.
Phrases == {"timestamp >=", "timestamp <", "region =", "envelope && geog", "trunc rx", "trunc ry",
            "round rx", "round ry", "interval", "count >", "rx", "ry"}
Names == {"start_time", "end_time", "region", "envelope", "envelope_srid", "xmin", "xdiv", "ymin",
          "ydiv", "binsize", "count_threshold"}
Pieces == [sql : Phrases, names : Seq(Names)]
SqlValues == Int \cup Seq(Int)

IsQuery(q) ==
    /\ DOMAIN q = {"table", "columns", "conditions", "groups", "having", "order", "params", "casts"}
    /\ q.columns \in Seq(Pieces) /\ q.conditions \in Seq(Pieces) /\ q.groups \in Seq(Pieces)
    /\ q.having \in Seq(Pieces) /\ q.order \in Seq(Pieces)
    /\ q.params \in Seq(Names \X SqlValues)

\* A name has a value, and this is it.
Told(q, name) == Registered(q, name) # << >>
ValueOf(q, name) == Registered(q, name)[1]

\* Every name that the statement's text uses has one.
AllNamed(q) ==
    \A piece \in ToSet(SqlText(q)) : \A i \in DOMAIN piece.names : Told(q, piece.names[i])

\* Short sequences.
LEMMA ShortSeqs ==
    ASSUME NEW S, NEW a \in S, NEW b \in S
    PROVE  << >> \in Seq(S) /\ << a >> \in Seq(S) /\ << a, b >> \in Seq(S)
OBVIOUS

\* The text holds the columns, the conditions and, if grouped, the rest.
LEMMA TextFacts ==
    ASSUME NEW q, IsQuery(q)
    PROVE  /\ SqlText(q) \in Seq(Pieces)
           /\ ToSet(SqlText(q)) = ToSet(q.columns) \cup ToSet(q.conditions) \cup ToSet(q.groups)
                                    \cup ToSet(IF q.groups = << >> THEN << >> ELSE q.having)
                                    \cup ToSet(q.order)
<1> PICK h : h = IF q.groups = << >> THEN << >> ELSE q.having
  OBVIOUS
<1>1. /\ q.columns \in Seq(Pieces) /\ q.conditions \in Seq(Pieces)
      /\ q.groups \in Seq(Pieces) /\ q.having \in Seq(Pieces) /\ q.order \in Seq(Pieces)
      /\ h \in Seq(Pieces)
  <2> HIDE DEF Pieces
  <2> QED
    BY DEF IsQuery
<1>2. SqlText(q) = q.columns \o q.conditions \o q.groups \o h \o q.order
  BY DEF SqlText
<1> PICK a \in Seq(Pieces), b \in Seq(Pieces), c \in Seq(Pieces), e \in Seq(Pieces) :
         a = q.columns /\ b = q.conditions /\ c = q.groups /\ e = q.order
  BY <1>1
<1>3. /\ a \o b \o c \o h \o e \in Seq(Pieces)
      /\ ToSet(a \o b \o c \o h \o e)
            = ToSet(a) \cup ToSet(b) \cup ToSet(c) \cup ToSet(h) \cup ToSet(e)
  <2>1. h \in Seq(Pieces)
    BY <1>1
  <2>2. \A s, t \in Seq(Pieces) : s \o t \in Seq(Pieces) /\ ToSet(s \o t) = ToSet(s) \cup ToSet(t)
    BY ConcatFacts
  <2>3. a \o b \in Seq(Pieces) /\ ToSet(a \o b) = ToSet(a) \cup ToSet(b)
    BY <2>2, Zenon
  <2>4. a \o b \o c \in Seq(Pieces) /\ ToSet(a \o b \o c) = ToSet(a \o b) \cup ToSet(c)
    BY <2>2, <2>3, Zenon
  <2>5. a \o b \o c \o h \in Seq(Pieces) /\ ToSet(a \o b \o c \o h) = ToSet(a \o b \o c) \cup ToSet(h)
    BY <2>1, <2>2, <2>4, Zenon
  <2>6. /\ a \o b \o c \o h \o e \in Seq(Pieces)
        /\ ToSet(a \o b \o c \o h \o e) = ToSet(a \o b \o c \o h) \cup ToSet(e)
    BY <2>2, <2>5, Zenon
  <2> QED
    BY <2>3, <2>4, <2>5, <2>6, Zenon
<1>4. /\ SqlText(q) \in Seq(Pieces)
      /\ ToSet(SqlText(q)) = ToSet(q.columns) \cup ToSet(q.conditions) \cup ToSet(q.groups)
                                \cup ToSet(h) \cup ToSet(q.order)
  BY <1>2, <1>3, Zenon
<1> QED
  BY <1>4, Zenon

\* The names of the text, in order, are those of its pieces.
LEMMA NamesFacts ==
    ASSUME NEW q, IsQuery(q)
    PROVE  /\ ParamNames(q) \in Seq(Names)
           /\ \A piece \in ToSet(SqlText(q)) : \A i \in DOMAIN piece.names :
                 piece.names[i] \in ToSet(ParamNames(q))
           /\ \A name \in ToSet(ParamNames(q)) : \E piece \in ToSet(SqlText(q)) :
                 \E i \in DOMAIN piece.names : name = piece.names[i]
<1> PICK text \in Seq(Pieces) : text = SqlText(q)
  BY TextFacts
<1> DEFINE parts == [i \in DOMAIN text |-> text[i].names]
<1>1. Len(text) \in Nat /\ DOMAIN text = 1..Len(text) /\ \A i \in 1..Len(text) : text[i] \in Pieces
  <2> HIDE DEF Pieces
  <2> QED
    OBVIOUS
<1>2. \A i \in 1..Len(text) : parts[i] \in Seq(Names) /\ parts[i] = text[i].names
  BY <1>1 DEF Pieces
<1>3. /\ parts \in Seq(Seq(Names)) /\ Len(parts) = Len(text) /\ DOMAIN parts = DOMAIN text
      /\ (Len(parts) = 0 => parts = << >>)
  <2>1. parts \in Seq(Seq(Names)) /\ Len(parts) = Len(text) /\ DOMAIN parts = DOMAIN text
    BY <1>1, <1>2
  <2> HIDE DEF parts
  <2> QED
    BY <2>1, EmptySeq
<1>4. ParamNames(q) = FlattenSeq(parts)
  BY DEF ParamNames
<1> HIDE DEF parts
<1>5. /\ FlattenSeq(parts) \in Seq(Names)
      /\ \A i \in DOMAIN parts : ToSet(parts[i]) \subseteq ToSet(FlattenSeq(parts))
      /\ \A x \in ToSet(FlattenSeq(parts)) : \E i \in DOMAIN parts : x \in ToSet(parts[i])
  BY <1>1, <1>2, <1>3, FlattenFacts
<1>6. \A piece \in ToSet(text) : \A i \in DOMAIN piece.names : piece.names[i] \in ToSet(FlattenSeq(parts))
  <2> SUFFICES ASSUME NEW n \in DOMAIN text, NEW i \in DOMAIN text[n].names
               PROVE  text[n].names[i] \in ToSet(FlattenSeq(parts))
    BY DEF ToSet
  <2>1. parts[n] = text[n].names /\ n \in DOMAIN parts
    BY <1>1, <1>2, <1>3
  <2>2. text[n].names[i] \in ToSet(parts[n])
    BY <2>1 DEF ToSet
  <2> QED
    BY <1>5, <2>1, <2>2
<1>7. ASSUME NEW name \in ToSet(FlattenSeq(parts))
      PROVE  \E piece \in ToSet(text) : \E i \in DOMAIN piece.names : name = piece.names[i]
  <2>1. PICK n \in DOMAIN parts : name \in ToSet(parts[n])
    BY <1>5
  <2>2. parts[n] = text[n].names /\ text[n] \in ToSet(text)
    BY <1>1, <1>2, <1>3 DEF ToSet
  <2> QED
    BY <2>1, <2>2 DEF ToSet
<1> QED
  BY <1>4, <1>5, <1>6, <1>7

\* Each of them has a number.
LEMMA DistinctFacts ==
    ASSUME NEW q, IsQuery(q)
    PROVE  DistinctNames(q) \in Seq(Names) /\ ToSet(DistinctNames(q)) = ToSet(ParamNames(q))
<1> PICK names \in Seq(Names) : names = ParamNames(q)
  BY NamesFacts
<1> DEFINE seen(i) == \E j \in 1 .. i - 1 : names[j] = names[i]
           parts == [i \in DOMAIN names |-> IF seen(i) THEN << >> ELSE << names[i] >>]
<1>1. Len(names) \in Nat /\ DOMAIN names = 1..Len(names) /\ \A i \in 1..Len(names) : names[i] \in Names
  OBVIOUS
<1>2. \A i \in 1..Len(names) : parts[i] \in Seq(Names)
  <2> HIDE DEF seen
  <2>1. \A x \in Names : << x >> \in Seq(Names)
    BY ShortSeqs
  <2>2. << >> \in Seq(Names)
    OBVIOUS
  <2>3. \A i \in 1..Len(names) : parts[i] = IF seen(i) THEN << >> ELSE << names[i] >>
    BY <1>1
  <2> HIDE DEF parts
  <2> QED
    BY <1>1, <2>1, <2>2, <2>3
<1>3. /\ parts \in Seq(Seq(Names)) /\ Len(parts) = Len(names) /\ DOMAIN parts = DOMAIN names
      /\ (Len(parts) = 0 => parts = << >>)
  <2>1. parts \in Seq(Seq(Names)) /\ Len(parts) = Len(names) /\ DOMAIN parts = DOMAIN names
    <3> HIDE DEF seen
    <3> QED
      BY <1>1, <1>2
  <2> HIDE DEF parts
  <2> QED
    BY <2>1, EmptySeq
<1>4. DistinctNames(q) = FlattenSeq(parts)
  BY DEF DistinctNames
<1>5. /\ FlattenSeq(parts) \in Seq(Names)
      /\ \A i \in DOMAIN parts : ToSet(parts[i]) \subseteq ToSet(FlattenSeq(parts))
      /\ \A x \in ToSet(FlattenSeq(parts)) : \E i \in DOMAIN parts : x \in ToSet(parts[i])
  <2> HIDE DEF parts
  <2> QED
    BY <1>1, <1>2, <1>3, FlattenFacts
<1>6. ASSUME NEW i \in DOMAIN names PROVE names[i] \in ToSet(FlattenSeq(parts))
  <2> DEFINE B == {j \in DOMAIN names : names[j] = names[i]}
  <2>1. PICK j \in B : \A k \in B : j <= k
    <3>1. B \in SUBSET Nat /\ B # {}
      BY <1>1
    <3> HIDE DEF B
    <3> QED
      BY <3>1, LeastOfNaturals
  <2>2. ~ seen(j)
    <3> SUFFICES ASSUME NEW k \in 1 .. j - 1, names[k] = names[j] PROVE FALSE
      OBVIOUS
    <3>1. k \in DOMAIN names /\ k < j
      BY <1>1
    <3> QED
      BY <1>1, <2>1, <3>1
  <2>3. parts[j] = << names[i] >> /\ j \in DOMAIN parts
    <3> HIDE DEF seen
    <3> QED
      BY <2>1, <2>2
  <2> HIDE DEF parts
  <2>4. names[i] \in ToSet(parts[j])
    BY <2>3 DEF ToSet
  <2> QED
    BY <1>5, <2>3, <2>4
<1>7. ASSUME NEW x \in ToSet(FlattenSeq(parts)) PROVE x \in ToSet(names)
  <2>1. PICK i \in DOMAIN parts : x \in ToSet(parts[i])
    <3> HIDE DEF parts
    <3> QED
      BY <1>5
  <2>2. i \in DOMAIN names /\ (parts[i] = << >> \/ parts[i] = << names[i] >>)
    <3> HIDE DEF seen
    <3> QED
      OBVIOUS
  <2> HIDE DEF parts
  <2> QED
    BY <2>1, <2>2 DEF ToSet
<1> HIDE DEF parts
<1>8. ToSet(FlattenSeq(parts)) \subseteq ToSet(names)
  BY <1>7
<1>9. ToSet(names) \subseteq ToSet(FlattenSeq(parts))
  BY <1>6 DEF ToSet
<1> QED
  BY <1>4, <1>5, <1>8, <1>9

\* The values travel in the order of the numbers.
LEMMA TravelFacts ==
    ASSUME NEW q, IsQuery(q), AllNamed(q)
    PROVE  /\ DOMAIN Parameters(q) = DOMAIN DistinctNames(q)
           /\ \A n \in DOMAIN DistinctNames(q) : Parameters(q)[n] = ValueOf(q, DistinctNames(q)[n])
<1> PICK names \in Seq(Names) : names = DistinctNames(q)
  BY DistinctFacts
<1> DEFINE value(n) == ValueOf(q, names[n])
           S == {value(n) : n \in DOMAIN names}
           s == [n \in DOMAIN names |-> value(n)]
<1>1. DOMAIN names = 1..Len(names) /\ Len(names) \in Nat
  OBVIOUS
<1>2. s \in Seq(S) /\ DOMAIN s = DOMAIN names /\ \A n \in DOMAIN names : s[n] = value(n)
  <2> HIDE DEF value
  <2> QED
    BY <1>1
<1>3. ASSUME NEW n \in DOMAIN names PROVE Registered(q, names[n]) = << value(n) >>
  <2>1. names[n] \in ToSet(ParamNames(q))
    <3>1. names[n] \in ToSet(names)
      BY DEF ToSet
    <3> QED
      BY <3>1, DistinctFacts
  <2>2. Told(q, names[n])
    <3>1. PICK piece \in ToSet(SqlText(q)) : \E i \in DOMAIN piece.names : names[n] = piece.names[i]
      BY <2>1, NamesFacts
    <3> QED
      BY <3>1 DEF AllNamed
  <2>3. \A x : Registered(q, x) = << >> \/ Registered(q, x) = << Registered(q, x)[1] >>
    BY DEF Registered
  <2> QED
    BY <2>2, <2>3 DEF Told, ValueOf
<1>4. Parameters(q) = FlattenSeq([n \in DOMAIN names |-> Registered(q, names[n])])
  BY DEF Parameters
<1> HIDE DEF value, s, S
<1>5. [n \in DOMAIN names |-> Registered(q, names[n])] = [n \in DOMAIN s |-> << s[n] >>]
  BY <1>2, <1>3
<1>6. Parameters(q) = s
  BY <1>2, <1>4, <1>5, FlattenSingles
<1> QED
  BY <1>2, <1>6 DEF value

\* So a placeholder reads the value of its name.
LEMMA PlaceholderReads ==
    ASSUME NEW q, IsQuery(q), AllNamed(q), NEW piece \in ToSet(SqlText(q)),
           NEW i \in DOMAIN piece.names
    PROVE  Bound(Parameters(q), Numbered(DistinctNames(q), q.casts, piece), i)
              = ValueOf(q, piece.names[i])
<1> PICK names : names = DistinctNames(q)
  OBVIOUS
<1> PICK name : name = piece.names[i]
  OBVIOUS
<1> DEFINE position(x) == CHOOSE n \in DOMAIN names : names[n] = x
<1>1. Numbered(names, q.casts, piece).at = [j \in DOMAIN piece.names |-> position(piece.names[j])]
  BY DEF Numbered
<1>2. Numbered(names, q.casts, piece).at[i] = position(name)
  <2> HIDE DEF position
  <2> QED
    BY <1>1
<1>3. \E n \in DOMAIN names : names[n] = name
  <2>1. name \in ToSet(names)
    BY NamesFacts, DistinctFacts
  <2> QED
    BY <2>1 DEF ToSet
<1>4. position(name) \in DOMAIN names /\ names[position(name)] = name
  BY <1>3
<1> HIDE DEF position
<1> QED
  BY <1>2, <1>4, TravelFacts DEF Bound
-----------------------------------------------------------------------------
(* The steps that build a statement *)

\* What the builder's steps leave of a query.
Same(r, q) == \A n \in Names : Registered(r, n) = Registered(q, n)

\* What the builder's steps do to a query: a name is registered, a condition
\* added, a cast noted, the groups, the order or the columns set, a threshold put.
Registers(r, q, name, v) ==
    /\ IsQuery(r)
    /\ r.columns = q.columns /\ r.conditions = q.conditions /\ r.groups = q.groups
    /\ r.having = q.having /\ r.order = q.order
    /\ \A n \in Names : Registered(r, n) = IF n = name THEN << v >> ELSE Registered(q, n)

Restricts(r, q, piece) ==
    /\ IsQuery(r)
    /\ r.columns = q.columns /\ r.groups = q.groups /\ r.having = q.having /\ r.order = q.order
    /\ ToSet(r.conditions) = ToSet(q.conditions) \cup {piece}
    /\ Same(r, q)

Casts(r, q) ==
    /\ IsQuery(r)
    /\ r.columns = q.columns /\ r.conditions = q.conditions /\ r.groups = q.groups
    /\ r.having = q.having /\ r.order = q.order
    /\ Same(r, q)

Groups(r, q, name) ==
    /\ IsQuery(r)
    /\ r.columns = q.columns /\ r.conditions = q.conditions
    /\ r.having = q.having /\ r.order = q.order
    /\ r.groups # << >> /\ ToSet(r.groups) = ToSet(q.groups) \cup {Piece(name, << >>)}
    /\ Same(r, q)

Orders(r, q, name) ==
    /\ IsQuery(r)
    /\ r.columns = q.columns /\ r.conditions = q.conditions /\ r.groups = q.groups
    /\ r.having = q.having
    /\ ToSet(r.order) = ToSet(q.order) \cup {Piece(name, << >>)}
    /\ Same(r, q)

SetsColumns(r, q, columns) ==
    /\ IsQuery(r)
    /\ r.columns = columns /\ r.conditions = q.conditions /\ r.groups = q.groups
    /\ r.having = q.having /\ r.order = q.order
    /\ Same(r, q)

Cuts(r, q, piece, name, v) ==
    /\ IsQuery(r)
    /\ r.columns = q.columns /\ r.conditions = q.conditions /\ r.groups = q.groups
    /\ r.order = q.order /\ r.having = Append(q.having, piece)
    /\ \A n \in Names : Registered(r, n) = IF n = name THEN << v >> ELSE Registered(q, n)

Fresh(r) ==
    /\ IsQuery(r)
    /\ r.columns = << >> /\ r.conditions = << >> /\ r.groups = << >>
    /\ r.having = << >> /\ r.order = << >>
    /\ \A n \in Names : Registered(r, n) = << >>

\* Pieces are what the builder makes of them.
LEMMA PieceFacts ==
    ASSUME NEW sql \in Phrases, NEW names \in Seq(Names)
    PROVE  /\ Piece(sql, names) \in Pieces
           /\ Piece(sql, names).sql = sql /\ Piece(sql, names).names = names
BY DEF Piece, Pieces

\* The last value of a name is what it is registered with.
LEMMA ParameterFacts ==
    ASSUME NEW q, IsQuery(q), NEW name \in Names, NEW v \in SqlValues
    PROVE  Registers(Parameter(q, name, v), q, name, v)
<1> PICK r : r = Parameter(q, name, v)
  OBVIOUS
<1>1. q.params \in Seq(Names \X SqlValues) /\ r.params = Append(q.params, << name, v >>)
  BY DEF IsQuery, Parameter
<1>2. << name, v >> \in Names \X SqlValues
  OBVIOUS
<1>3. /\ IsQuery(r)
      /\ r.columns = q.columns /\ r.conditions = q.conditions /\ r.groups = q.groups
      /\ r.having = q.having /\ r.order = q.order
  <2>1. r = [q EXCEPT !.params = Append(q.params, << name, v >>)]
    BY DEF Parameter
  <2>2. Append(q.params, << name, v >>) \in Seq(Names \X SqlValues)
    BY <1>1, <1>2
  <2> QED
    BY <2>1, <2>2 DEF IsQuery
<1> PICK L \in Nat : L = Len(q.params)
  BY <1>1
<1> PICK ps : ps = q.params
  OBVIOUS
<1> PICK rs : rs = r.params
  OBVIOUS
<1>4. /\ DOMAIN ps = 1..L /\ DOMAIN rs = 1..(L + 1)
      /\ \A i \in 1..L : rs[i] = ps[i]
      /\ rs[L + 1] = << name, v >>
  BY <1>1, <1>2
<1>5. rs[L + 1][1] = name /\ rs[L + 1][2] = v
  BY <1>4
<1>6. ASSUME NEW n \in Names
      PROVE  Registered(r, n) = IF n = name THEN << v >> ELSE Registered(q, n)
  <2> DEFINE new == {i \in DOMAIN rs : rs[i][1] = n}
             old == {i \in DOMAIN ps : ps[i][1] = n}
  <2>1. /\ Registered(r, n) = IF new = {} THEN << >> ELSE << rs[Max(new)][2] >>
        /\ Registered(q, n) = IF old = {} THEN << >> ELSE << ps[Max(old)][2] >>
    BY DEF Registered
  <2>2. CASE n = name
    <3>1. new \in SUBSET Int /\ L + 1 \in new /\ \A i \in new : i <= L + 1
      BY <1>4, <1>5, <2>2
    <3> HIDE DEF new, old
    <3>2. Max(new) \in new /\ Max(new) >= L + 1
      BY <3>1, MaxOfBounded
    <3>3. Max(new) = L + 1
      <4> PICK m : m = Max(new)
        OBVIOUS
      <4>1. m \in Int /\ m <= L + 1 /\ m >= L + 1
        BY <3>1, <3>2
      <4>2. m = L + 1
        BY <4>1
      <4> QED
        BY <4>2
    <3> QED
      BY <1>5, <2>1, <2>2, <3>1, <3>3
  <2>3. CASE n # name
    <3>1. new = old
      <4>1. \A i \in 1..(L + 1) : i \in 1..L \/ i = L + 1
        OBVIOUS
      <4> QED
        BY <1>4, <1>5, <2>3, <4>1
    <3>2. old \in SUBSET (1..L)
      BY <1>4
    <3> HIDE DEF new, old
    <3>3. CASE old # {}
      <4>1. Max(old) \in old
        <5>1. old \in SUBSET Int /\ L \in Int /\ \A i \in old : i <= L
          BY <3>2
        <5>2. Max(old) \in old /\ \A y \in old : Max(old) >= y
          BY <3>3, <5>1, MaxOfBounded
        <5> QED
          BY <5>2
      <4>2. rs[Max(old)] = ps[Max(old)]
        BY <1>4, <3>2, <4>1
      <4> QED
        BY <2>1, <2>3, <3>1, <3>3, <4>2
    <3> QED
      BY <2>1, <2>3, <3>1, <3>3
  <2> QED
    BY <2>2, <2>3
<1> QED
  BY <1>3, <1>6 DEF Registers

\* The other steps register nothing.
LEMMA ConditionFacts ==
    ASSUME NEW q, IsQuery(q), NEW piece \in Pieces
    PROVE  Restricts(Condition(q, piece), q, piece)
<1> PICK r : r = Condition(q, piece)
  OBVIOUS
<1>1. q.conditions \in Seq(Pieces)
  BY DEF IsQuery
<1>2. Append(q.conditions, piece) \in Seq(Pieces)
      /\ ToSet(Append(q.conditions, piece)) = ToSet(q.conditions) \cup {piece}
  BY <1>1, AppendFacts
<1>3. r = [q EXCEPT !.conditions = Append(q.conditions, piece)]
  BY DEF Condition
<1>4. /\ IsQuery(r) /\ r.conditions = Append(q.conditions, piece) /\ r.params = q.params
      /\ r.columns = q.columns /\ r.groups = q.groups /\ r.having = q.having /\ r.order = q.order
  BY <1>2, <1>3 DEF IsQuery
<1> QED
  BY <1>2, <1>4 DEF Same, Registered, Restricts

\* A cast changes nothing else.
LEMMA TypedFacts ==
    ASSUME NEW q, IsQuery(q), NEW name, NEW type
    PROVE  Casts(Typed(q, name, type), q)
<1> PICK r : r = Typed(q, name, type)
  OBVIOUS
<1>1. r = [q EXCEPT !.casts = Append(q.casts, << name, type >>)]
  BY DEF Typed
<1>2. /\ IsQuery(r) /\ r.params = q.params
      /\ r.columns = q.columns /\ r.conditions = q.conditions /\ r.groups = q.groups
      /\ r.having = q.having /\ r.order = q.order
  BY <1>1 DEF IsQuery
<1> QED
  BY <1>2 DEF Same, Registered, Casts

\* A group is one more piece without names.
LEMMA GroupByFacts ==
    ASSUME NEW q, IsQuery(q), NEW name \in Phrases
    PROVE  Groups(GroupBy(q, name), q, name)
<1> PICK r : r = GroupBy(q, name)
  OBVIOUS
<1> PICK piece : piece = Piece(name, << >>)
  OBVIOUS
<1>1. q.groups \in Seq(Pieces) /\ piece \in Pieces
  <2>1. << >> \in Seq(Names)
    OBVIOUS
  <2>2. piece \in Pieces
    BY <2>1, PieceFacts
  <2> QED
    BY <2>2 DEF IsQuery
<1>2. /\ Append(q.groups, piece) \in Seq(Pieces) /\ Append(q.groups, piece) # << >>
      /\ ToSet(Append(q.groups, piece)) = ToSet(q.groups) \cup {piece}
  BY <1>1, AppendFacts, AppendProperties
<1>3. r = [q EXCEPT !.groups = Append(q.groups, piece)]
  BY DEF GroupBy
<1>4. /\ IsQuery(r) /\ r.groups = Append(q.groups, piece) /\ r.params = q.params
      /\ r.columns = q.columns /\ r.conditions = q.conditions
      /\ r.having = q.having /\ r.order = q.order
  BY <1>2, <1>3 DEF IsQuery
<1> QED
  BY <1>2, <1>4 DEF Same, Registered, Groups

\* So is an order.
LEMMA OrderByFacts ==
    ASSUME NEW q, IsQuery(q), NEW name \in Phrases
    PROVE  Orders(OrderBy(q, name), q, name)
<1> PICK r : r = OrderBy(q, name)
  OBVIOUS
<1> PICK piece : piece = Piece(name, << >>)
  OBVIOUS
<1>1. q.order \in Seq(Pieces) /\ piece \in Pieces
  <2>1. << >> \in Seq(Names)
    OBVIOUS
  <2>2. piece \in Pieces
    BY <2>1, PieceFacts
  <2> QED
    BY <2>2 DEF IsQuery
<1>2. /\ Append(q.order, piece) \in Seq(Pieces)
      /\ ToSet(Append(q.order, piece)) = ToSet(q.order) \cup {piece}
  BY <1>1, AppendFacts
<1>3. r = [q EXCEPT !.order = Append(q.order, piece)]
  BY DEF OrderBy
<1>4. /\ IsQuery(r) /\ r.order = Append(q.order, piece) /\ r.params = q.params
      /\ r.columns = q.columns /\ r.conditions = q.conditions /\ r.groups = q.groups
      /\ r.having = q.having
  BY <1>2, <1>3 DEF IsQuery
<1> QED
  BY <1>2, <1>4 DEF Same, Registered, Orders

\* Columns are replaced.
LEMMA ColumnsFacts ==
    ASSUME NEW q, IsQuery(q), NEW columns \in Seq(Pieces)
    PROVE  SetsColumns(SetColumns(q, columns), q, columns)
<1> PICK r : r = SetColumns(q, columns)
  OBVIOUS
<1>1. r = [q EXCEPT !.columns = columns]
  BY DEF SetColumns
<1>2. /\ IsQuery(r) /\ r.params = q.params
      /\ r.columns = columns /\ r.conditions = q.conditions /\ r.groups = q.groups
      /\ r.having = q.having /\ r.order = q.order
  BY <1>1 DEF IsQuery
<1> QED
  BY <1>2 DEF Same, Registered, SetsColumns

\* A threshold is one more piece, and its value is registered.
LEMMA HavingFacts ==
    ASSUME NEW q, IsQuery(q), NEW piece \in Pieces, NEW name \in Names, NEW v \in SqlValues
    PROVE  Cuts(GroupHaving(q, piece, name, v), q, piece, name, v)
<1> PICK r : r = GroupHaving(q, piece, name, v)
  OBVIOUS
<1> PICK t : t = [q EXCEPT !.having = Append(q.having, piece)]
  OBVIOUS
<1>1. q.having \in Seq(Pieces)
  BY DEF IsQuery
<1>2. Append(q.having, piece) \in Seq(Pieces)
  BY <1>1
<1>3. /\ IsQuery(t) /\ t.params = q.params
      /\ t.columns = q.columns /\ t.conditions = q.conditions /\ t.groups = q.groups
      /\ t.having = Append(q.having, piece) /\ t.order = q.order
  BY <1>2 DEF IsQuery
<1>4. Same(t, q)
  BY <1>3 DEF Same, Registered
<1>5. r = Parameter(t, name, v)
  BY DEF GroupHaving
<1>6. /\ IsQuery(r)
      /\ r.columns = t.columns /\ r.conditions = t.conditions /\ r.groups = t.groups
      /\ r.having = t.having /\ r.order = t.order
      /\ \A n \in Names : Registered(r, n) = IF n = name THEN << v >> ELSE Registered(t, n)
  <2>1. IsQuery(t)
    BY <1>3
  <2>2. Registers(r, t, name, v)
    BY <1>5, <2>1, ParameterFacts
  <2> QED
    BY <2>2 DEF Registers
<1> QED
  BY <1>3, <1>4, <1>6 DEF Same, Cuts

\* A new query says nothing.
LEMMA NewFacts ==
    ASSUME NEW table
    PROVE  Fresh(NewQuery(table))
<1> PICK r : r = NewQuery(table)
  OBVIOUS
<1>1. r = [table |-> table, columns |-> << >>, conditions |-> << >>, groups |-> << >>,
           having |-> << >>, order |-> << >>, params |-> << >>, casts |-> << >>]
  BY DEF NewQuery
<1>2. IsQuery(r) /\ r.params = << >>
  BY <1>1 DEF IsQuery
<1>3. \A n \in Names : Registered(r, n) = << >>
  <2>1. DOMAIN << >> = {}
    OBVIOUS
  <2> QED
    BY <1>2, <2>1 DEF Registered
<1> QED
  BY <1>1, <1>2, <1>3 DEF Fresh
-----------------------------------------------------------------------------
(* The conditions, groups and columns of the statements on strikes *)

\* The pieces of the statements on strikes.
SinceStart == Piece("timestamp >=", <<"start_time">>)
UntilEnd == Piece("timestamp <", <<"end_time">>)
OfRegion == Piece("region =", <<"region">>)
WithinArea == Piece("envelope && geog", <<"envelope", "envelope_srid">>)
ColumnX == Piece("trunc rx", <<"xmin", "xdiv">>)
ColumnY == Piece("trunc ry", <<"ymin", "ydiv">>)
GlobalX == Piece("round rx", <<"xdiv", "xdiv">>)
GlobalY == Piece("round ry", <<"ydiv", "ydiv">>)
BinColumn == Piece("interval", <<"end_time", "binsize">>)
MoreThan == Piece("count >", <<"count_threshold">>)

\* Their words, one by one.
LEMMA OurNames ==
    /\ "start_time" \in Names /\ "end_time" \in Names /\ "region" \in Names
    /\ "envelope" \in Names /\ "envelope_srid" \in Names /\ "xmin" \in Names
    /\ "xdiv" \in Names /\ "ymin" \in Names /\ "ydiv" \in Names
    /\ "binsize" \in Names /\ "count_threshold" \in Names
    /\ "rx" \in Phrases /\ "ry" \in Phrases /\ "interval" \in Phrases
BY DEF Names, Phrases

\* And the pieces, with the names they use.
LEMMA OurPieces ==
    /\ SinceStart \in Pieces /\ UntilEnd \in Pieces /\ OfRegion \in Pieces /\ WithinArea \in Pieces
    /\ ColumnX \in Pieces /\ ColumnY \in Pieces /\ GlobalX \in Pieces /\ GlobalY \in Pieces
    /\ BinColumn \in Pieces /\ MoreThan \in Pieces
    /\ SinceStart.names = <<"start_time">> /\ UntilEnd.names = <<"end_time">>
    /\ OfRegion.names = <<"region">> /\ WithinArea.names = <<"envelope", "envelope_srid">>
    /\ ColumnX.names = <<"xmin", "xdiv">> /\ ColumnY.names = <<"ymin", "ydiv">>
    /\ GlobalX.names = <<"xdiv", "xdiv">> /\ GlobalY.names = <<"ydiv", "ydiv">>
    /\ BinColumn.names = <<"end_time", "binsize">> /\ MoreThan.names = <<"count_threshold">>
<1>1. \A a, b \in Names : << a >> \in Seq(Names) /\ << a, b >> \in Seq(Names)
  BY ShortSeqs
<1>2. /\ <<"start_time">> \in Seq(Names) /\ <<"end_time">> \in Seq(Names)
      /\ <<"region">> \in Seq(Names) /\ <<"count_threshold">> \in Seq(Names)
  BY <1>1, OurNames
<1>3. /\ <<"envelope", "envelope_srid">> \in Seq(Names)
      /\ <<"xmin", "xdiv">> \in Seq(Names) /\ <<"ymin", "ydiv">> \in Seq(Names)
      /\ <<"xdiv", "xdiv">> \in Seq(Names) /\ <<"ydiv", "ydiv">> \in Seq(Names)
      /\ <<"end_time", "binsize">> \in Seq(Names)
  BY <1>1, OurNames
<1>4. SinceStart \in Pieces /\ UntilEnd \in Pieces /\ OfRegion \in Pieces /\ MoreThan \in Pieces
  BY <1>2 DEF Pieces, Phrases, Piece, SinceStart, UntilEnd, OfRegion, MoreThan
<1>5. WithinArea \in Pieces /\ ColumnX \in Pieces /\ ColumnY \in Pieces
  BY <1>3 DEF Pieces, Phrases, Piece, WithinArea, ColumnX, ColumnY
<1>6. GlobalX \in Pieces /\ GlobalY \in Pieces /\ BinColumn \in Pieces
  BY <1>3 DEF Pieces, Phrases, Piece, GlobalX, GlobalY, BinColumn
<1>7. /\ SinceStart.names = <<"start_time">> /\ UntilEnd.names = <<"end_time">>
      /\ OfRegion.names = <<"region">> /\ WithinArea.names = <<"envelope", "envelope_srid">>
      /\ ColumnX.names = <<"xmin", "xdiv">> /\ ColumnY.names = <<"ymin", "ydiv">>
      /\ GlobalX.names = <<"xdiv", "xdiv">> /\ GlobalY.names = <<"ydiv", "ydiv">>
      /\ BinColumn.names = <<"end_time", "binsize">> /\ MoreThan.names = <<"count_threshold">>
  BY DEF Piece, SinceStart, UntilEnd, OfRegion, WithinArea, ColumnX, ColumnY, GlobalX, GlobalY,
         BinColumn, MoreThan
<1> QED
  BY <1>4, <1>5, <1>6, <1>7

\* What the statements are asked for.
IsGrid(grid) ==
    /\ grid.xmin \in Int /\ grid.xmax \in Int /\ grid.ymin \in Int /\ grid.ymax \in Int
    /\ grid.xdiv \in Nat \ {0} /\ grid.ydiv \in Nat \ {0}
IsInterval(interval) == interval.start \in Int /\ interval.end \in Int
IsRegion(region) == region = << >> \/ region[1] \in Int

\* A condition on a value: its piece, its name with that value, and a cast.
Compares(r, q, piece, name, v) ==
    /\ IsQuery(r)
    /\ r.columns = q.columns /\ r.groups = q.groups /\ r.having = q.having /\ r.order = q.order
    /\ ToSet(r.conditions) = ToSet(q.conditions) \cup {piece}
    /\ \A n \in Names : Registered(r, n) = IF n = name THEN << v >> ELSE Registered(q, n)

\* Query.Condition, Parameter and Typed, one after the other, add just that.
LEMMA CompareFacts ==
    ASSUME NEW q, IsQuery(q), NEW piece \in Pieces, NEW name \in Names, NEW v \in SqlValues, NEW type
    PROVE  Compares(Typed(Parameter(Condition(q, piece), name, v), name, type), q, piece, name, v)
<1>a. PICK a : a = Condition(q, piece)
  OBVIOUS
<1>b. PICK b : b = Parameter(a, name, v)
  OBVIOUS
<1>c. PICK c : c = Typed(b, name, type)
  OBVIOUS
<1>1. Restricts(a, q, piece)
  BY <1>a, ConditionFacts
<1>2. IsQuery(a)
  BY <1>1 DEF Restricts
<1>3. Registers(b, a, name, v)
  BY <1>2, <1>b, ParameterFacts
<1>4. IsQuery(b)
  BY <1>3 DEF Registers
<1>5. Casts(c, b)
  BY <1>4, <1>c, TypedFacts
<1>6. Compares(c, q, piece, name, v)
  BY <1>1, <1>3, <1>5 DEF Restricts, Registers, Casts, Compares, Same
<1> QED
  BY <1>a, <1>b, <1>c, <1>6

\* The conditions on the time, whose values are the interval's.
Times(r, q, interval) ==
    /\ IsQuery(r)
    /\ r.columns = q.columns /\ r.groups = q.groups /\ r.having = q.having /\ r.order = q.order
    /\ ToSet(r.conditions) = ToSet(q.conditions) \cup {SinceStart, UntilEnd}
    /\ \A n \in Names :
          Registered(r, n) = IF n = "end_time" THEN << interval.end >>
                             ELSE IF n = "start_time" THEN << interval.start >>
                             ELSE Registered(q, n)

\* Query.AddTimeInterval adds both, each with its own end of the interval.
LEMMA TimeFacts ==
    ASSUME NEW q, IsQuery(q), NEW interval, IsInterval(interval)
    PROVE  Times(AddTimeInterval(q, interval), q, interval)
<1>s. PICK s : s = Typed(Parameter(Condition(q, SinceStart), "start_time", interval.start),
                         "start_time", "timestamptz")
  OBVIOUS
<1>r. PICK r : r = Typed(Parameter(Condition(s, UntilEnd), "end_time", interval.end),
                         "end_time", "timestamptz")
  OBVIOUS
<1>1. AddTimeInterval(q, interval) = r
  BY <1>s, <1>r DEF AddTimeInterval, SinceStart, UntilEnd
<1>2. interval.start \in SqlValues /\ interval.end \in SqlValues
  BY DEF SqlValues, IsInterval
<1>3. SinceStart \in Pieces /\ UntilEnd \in Pieces
  BY OurPieces
<1>4. "start_time" \in Names /\ "end_time" \in Names
  BY OurNames
<1>5. Compares(s, q, SinceStart, "start_time", interval.start)
  BY <1>s, <1>2, <1>3, <1>4, CompareFacts
<1>6. IsQuery(s)
  BY <1>5 DEF Compares
<1>7. Compares(r, s, UntilEnd, "end_time", interval.end)
  BY <1>r, <1>2, <1>3, <1>4, <1>6, CompareFacts
<1>8. ToSet(r.conditions) = ToSet(q.conditions) \cup {SinceStart, UntilEnd}
  BY <1>5, <1>7 DEF Compares
<1>9. Times(r, q, interval)
  BY <1>5, <1>7, <1>8 DEF Compares, Times
<1> QED
  BY <1>1, <1>9

\* The condition on the region, if there is one.
Regional(r, q, region) ==
    /\ IsQuery(r)
    /\ r.columns = q.columns /\ r.groups = q.groups /\ r.having = q.having /\ r.order = q.order
    /\ ToSet(r.conditions) = ToSet(q.conditions) \cup (IF region = << >> THEN {} ELSE {OfRegion})
    /\ \A n \in Names :
          Registered(r, n) = IF n = "region" /\ region # << >> THEN << region[1] >>
                             ELSE Registered(q, n)

\* Query.AddRegion adds it only for a region that is given.
LEMMA RegionFacts ==
    ASSUME NEW q, IsQuery(q), NEW region, IsRegion(region)
    PROVE  Regional(AddRegion(q, region), q, region)
<1>1. CASE region = << >>
  BY <1>1 DEF AddRegion, Regional
<1>2. CASE region # << >>
  <2>r. PICK r : r = Typed(Parameter(Condition(q, OfRegion), "region", region[1]), "region", "smallint")
    OBVIOUS
  <2>1. AddRegion(q, region) = r
    BY <1>2, <2>r DEF AddRegion, OfRegion
  <2>2. region[1] \in SqlValues
    BY <1>2 DEF SqlValues, IsRegion
  <2>3. OfRegion \in Pieces /\ "region" \in Names
    BY OurPieces, OurNames
  <2>4. Compares(r, q, OfRegion, "region", region[1])
    BY <2>r, <2>2, <2>3, CompareFacts
  <2>5. Regional(r, q, region)
    BY <1>2, <2>4 DEF Compares, Regional
  <2> QED
    BY <2>1, <2>5
<1> QED
  BY <1>1, <1>2

\* The grouping, and the threshold, if it is above zero.
ByCells(r, q, threshold) ==
    /\ IsQuery(r)
    /\ r.columns = q.columns /\ r.conditions = q.conditions /\ r.order = q.order
    /\ r.groups # << >>
    /\ ToSet(r.groups) = ToSet(q.groups) \cup {Piece("rx", << >>), Piece("ry", << >>)}
    /\ r.having = IF threshold > 0 THEN Append(q.having, MoreThan) ELSE q.having
    /\ \A n \in Names :
          Registered(r, n) = IF n = "count_threshold" /\ threshold > 0 THEN << threshold >>
                             ELSE Registered(q, n)

\* Query.GroupCells groups by both columns, and cuts only above zero.
LEMMA CellsFacts ==
    ASSUME NEW q, IsQuery(q), NEW threshold \in Int
    PROVE  ByCells(GroupCells(q, threshold), q, threshold)
<1>a. PICK a : a = GroupBy(q, "rx")
  OBVIOUS
<1>b. PICK b : b = GroupBy(a, "ry")
  OBVIOUS
<1>0. "rx" \in Phrases /\ "ry" \in Phrases
  BY OurNames
<1>1. Groups(a, q, "rx")
  BY <1>0, <1>a, GroupByFacts
<1>2. IsQuery(a)
  BY <1>1 DEF Groups
<1>3. Groups(b, a, "ry")
  BY <1>0, <1>2, <1>b, GroupByFacts
<1>4. IsQuery(b)
  BY <1>3 DEF Groups
<1>5. ToSet(b.groups) = ToSet(q.groups) \cup {Piece("rx", << >>), Piece("ry", << >>)}
  BY <1>1, <1>3 DEF Groups
<1>6. CASE threshold > 0
  <2>c. PICK c : c = GroupHaving(b, MoreThan, "count_threshold", threshold)
    OBVIOUS
  <2>d. PICK d : d = Typed(c, "count_threshold", "bigint")
    OBVIOUS
  <2>1. GroupCells(q, threshold) = d
    BY <1>a, <1>b, <1>6, <2>c, <2>d DEF GroupCells, MoreThan
  <2>2. threshold \in SqlValues /\ MoreThan \in Pieces /\ "count_threshold" \in Names
    BY OurPieces, OurNames DEF SqlValues
  <2>3. Cuts(c, b, MoreThan, "count_threshold", threshold)
    BY <1>4, <2>c, <2>2, HavingFacts
  <2>4. IsQuery(c)
    BY <2>3 DEF Cuts
  <2>5. Casts(d, c)
    BY <2>d, <2>4, TypedFacts
  <2>6. ByCells(d, q, threshold)
    BY <1>1, <1>3, <1>5, <1>6, <2>3, <2>5 DEF Groups, Cuts, Casts, ByCells, Same
  <2> QED
    BY <2>1, <2>6
<1>7. CASE ~ threshold > 0
  <2>1. GroupCells(q, threshold) = b
    BY <1>a, <1>b, <1>7 DEF GroupCells
  <2>2. ByCells(b, q, threshold)
    BY <1>1, <1>3, <1>5, <1>7 DEF Groups, ByCells, Same
  <2> QED
    BY <2>1, <2>2
<1> QED
  BY <1>6, <1>7
-----------------------------------------------------------------------------
(* What the three statements on strikes say *)

\* What a grid is described by are values that can be registered.
LEMMA GridValues ==
    ASSUME NEW grid, IsGrid(grid)
    PROVE  /\ grid.xmin \in SqlValues /\ grid.xdiv \in SqlValues
           /\ grid.ymin \in SqlValues /\ grid.ydiv \in SqlValues
           /\ Envelope4(grid) \in SqlValues /\ DEFAULT_SRID \in SqlValues
<1>1. << grid.xmin, grid.xmax, grid.ymin, grid.ymax >> \in Seq(Int)
  BY DEF IsGrid
<1> QED
  BY <1>1 DEF IsGrid, SqlValues, Envelope4, DEFAULT_SRID

\* What a query says to the database.
Says(q, columns, conditions, having) ==
    /\ IsQuery(q)
    /\ q.columns = columns /\ ToSet(q.conditions) = conditions /\ q.having = having
    /\ q.groups # << >>

\* A statement on a grid: the cells' origin and size, the area and the interval.
GridStated(q, grid, interval, region, threshold) ==
    /\ Says(q, << ColumnX, ColumnY >>,
            {WithinArea, SinceStart, UntilEnd} \cup (IF region = << >> THEN {} ELSE {OfRegion}),
            IF threshold > 0 THEN << MoreThan >> ELSE << >>)
    /\ ToSet(q.groups) = {Piece("rx", << >>), Piece("ry", << >>)} /\ q.order = << >>
    /\ Registered(q, "xmin") = << grid.xmin >> /\ Registered(q, "xdiv") = << grid.xdiv >>
    /\ Registered(q, "ymin") = << grid.ymin >> /\ Registered(q, "ydiv") = << grid.ydiv >>
    /\ Registered(q, "envelope") = << Envelope4(grid) >>
    /\ Registered(q, "envelope_srid") = << DEFAULT_SRID >>
    /\ Registered(q, "start_time") = << interval.start >>
    /\ Registered(q, "end_time") = << interval.end >>
    /\ (region # << >> => Registered(q, "region") = << region[1] >>)
    /\ (threshold > 0 => Registered(q, "count_threshold") = << threshold >>)

\* Query.GridQuery: after all the steps of the builder every name still has the
\* value that it was registered with.
LEMMA GridQueryFacts ==
    ASSUME NEW grid, IsGrid(grid), NEW interval, IsInterval(interval),
           NEW region, IsRegion(region), NEW threshold \in Int
    PROVE  GridStated(GridQuery(grid, interval, region, threshold), grid, interval, region, threshold)
<1>q. PICK q : q = GridQuery(grid, interval, region, threshold)
  OBVIOUS
<1>n. PICK n : n = NewQuery("strikes")
  OBVIOUS
<1>a. PICK a : a = Parameter(n, "xmin", grid.xmin)
  OBVIOUS
<1>b. PICK b : b = Parameter(a, "xdiv", grid.xdiv)
  OBVIOUS
<1>c. PICK c : c = Parameter(b, "ymin", grid.ymin)
  OBVIOUS
<1>d. PICK d : d = Parameter(c, "ydiv", grid.ydiv)
  OBVIOUS
<1>e. PICK e : e = SetColumns(d, << ColumnX, ColumnY >>)
  OBVIOUS
<1>f. PICK f : f = Condition(e, WithinArea)
  OBVIOUS
<1>g. PICK g : g = Parameter(f, "envelope", Envelope4(grid))
  OBVIOUS
<1>h. PICK h : h = Parameter(g, "envelope_srid", DEFAULT_SRID)
  OBVIOUS
<1>i. PICK i : i = AddTimeInterval(h, interval)
  OBVIOUS
<1>j. PICK j : j = AddRegion(i, region)
  OBVIOUS
<1>k. q = GroupCells(j, threshold)
  <2> DEFINE sized == Parameter(Parameter(Parameter(Parameter(NewQuery("strikes"), "xmin", grid.xmin),
                          "xdiv", grid.xdiv), "ymin", grid.ymin), "ydiv", grid.ydiv)
  <2>1. q = GroupCells(AddRegion(AddTimeInterval(
                Parameter(Parameter(Condition(SetColumns(sized, << ColumnX, ColumnY >>), WithinArea),
                                    "envelope", Envelope4(grid)), "envelope_srid", DEFAULT_SRID),
                interval), region), threshold)
    BY <1>q DEF GridQuery, ColumnX, ColumnY, WithinArea
  <2>2. sized = d
    BY <1>n, <1>a, <1>b, <1>c, <1>d
  <2> HIDE DEF sized
  <2> QED
    BY <2>1, <2>2, <1>e, <1>f, <1>g, <1>h, <1>i, <1>j
<1>1. /\ grid.xmin \in SqlValues /\ grid.xdiv \in SqlValues
      /\ grid.ymin \in SqlValues /\ grid.ydiv \in SqlValues
      /\ Envelope4(grid) \in SqlValues /\ DEFAULT_SRID \in SqlValues
  BY GridValues
<1>2. /\ "xmin" \in Names /\ "xdiv" \in Names /\ "ymin" \in Names /\ "ydiv" \in Names
      /\ "envelope" \in Names /\ "envelope_srid" \in Names
  BY OurNames
<1>3. << ColumnX, ColumnY >> \in Seq(Pieces) /\ WithinArea \in Pieces
  <2>1. ColumnX \in Pieces /\ ColumnY \in Pieces /\ WithinArea \in Pieces
    BY OurPieces
  <2> QED
    BY <2>1, ShortSeqs
<1>4. Fresh(n) /\ IsQuery(n)
  <2>1. Fresh(n)
    BY <1>n, NewFacts
  <2> QED
    BY <2>1 DEF Fresh
<1>5. Registers(a, n, "xmin", grid.xmin) /\ IsQuery(a)
  <2>1. Registers(a, n, "xmin", grid.xmin)
    BY <1>a, <1>1, <1>2, <1>4, ParameterFacts
  <2> QED
    BY <2>1 DEF Registers
<1>6. Registers(b, a, "xdiv", grid.xdiv) /\ IsQuery(b)
  <2>1. Registers(b, a, "xdiv", grid.xdiv)
    BY <1>b, <1>1, <1>2, <1>5, ParameterFacts
  <2> QED
    BY <2>1 DEF Registers
<1>7. Registers(c, b, "ymin", grid.ymin) /\ IsQuery(c)
  <2>1. Registers(c, b, "ymin", grid.ymin)
    BY <1>c, <1>1, <1>2, <1>6, ParameterFacts
  <2> QED
    BY <2>1 DEF Registers
<1>8. Registers(d, c, "ydiv", grid.ydiv) /\ IsQuery(d)
  <2>1. Registers(d, c, "ydiv", grid.ydiv)
    BY <1>d, <1>1, <1>2, <1>7, ParameterFacts
  <2> QED
    BY <2>1 DEF Registers
<1>9. SetsColumns(e, d, << ColumnX, ColumnY >>) /\ IsQuery(e)
  <2>1. SetsColumns(e, d, << ColumnX, ColumnY >>)
    BY <1>e, <1>3, <1>8, ColumnsFacts
  <2> QED
    BY <2>1 DEF SetsColumns
<1>10. Restricts(f, e, WithinArea) /\ IsQuery(f)
  <2>1. Restricts(f, e, WithinArea)
    BY <1>f, <1>3, <1>9, ConditionFacts
  <2> QED
    BY <2>1 DEF Restricts
<1>11. Registers(g, f, "envelope", Envelope4(grid)) /\ IsQuery(g)
  <2>1. Registers(g, f, "envelope", Envelope4(grid))
    BY <1>g, <1>1, <1>2, <1>10, ParameterFacts
  <2> QED
    BY <2>1 DEF Registers
<1>12. Registers(h, g, "envelope_srid", DEFAULT_SRID) /\ IsQuery(h)
  <2>1. Registers(h, g, "envelope_srid", DEFAULT_SRID)
    BY <1>h, <1>1, <1>2, <1>11, ParameterFacts
  <2> QED
    BY <2>1 DEF Registers
<1>13. Times(i, h, interval) /\ IsQuery(i)
  <2>1. Times(i, h, interval)
    BY <1>i, <1>12, TimeFacts
  <2> QED
    BY <2>1 DEF Times
<1>14. Regional(j, i, region) /\ IsQuery(j)
  <2>1. Regional(j, i, region)
    BY <1>j, <1>13, RegionFacts
  <2> QED
    BY <2>1 DEF Regional
<1>15. ByCells(q, j, threshold) /\ IsQuery(q)
  <2>1. ByCells(q, j, threshold)
    BY <1>k, <1>14, CellsFacts
  <2> QED
    BY <2>1 DEF ByCells
<1>16. /\ q.columns = << ColumnX, ColumnY >> /\ q.groups # << >>
       /\ q.order = << >>
  BY <1>4, <1>5, <1>6, <1>7, <1>8, <1>9, <1>10, <1>11, <1>12, <1>13, <1>14, <1>15
     DEF Fresh, Registers, SetsColumns, Restricts, Times, Regional, ByCells
<1>17. /\ j.having = << >> /\ j.groups = << >>
  BY <1>4, <1>5, <1>6, <1>7, <1>8, <1>9, <1>10, <1>11, <1>12, <1>13, <1>14
     DEF Fresh, Registers, SetsColumns, Restricts, Times, Regional
<1>18. e.conditions = << >>
  BY <1>4, <1>5, <1>6, <1>7, <1>8, <1>9 DEF Fresh, Registers, SetsColumns
<1>19. ToSet(q.conditions) = {WithinArea, SinceStart, UntilEnd}
                                \cup (IF region = << >> THEN {} ELSE {OfRegion})
  <2>1. ToSet(e.conditions) = {}
    BY <1>18 DEF ToSet
  <2>2. ToSet(i.conditions) = {WithinArea} \cup {SinceStart, UntilEnd}
    BY <2>1, <1>10, <1>11, <1>12, <1>13 DEF Restricts, Registers, Times
  <2> QED
    BY <2>2, <1>14, <1>15 DEF Regional, ByCells
<1>20. q.having = IF threshold > 0 THEN << MoreThan >> ELSE << >>
  <2>1. Append(<< >>, MoreThan) = << MoreThan >>
    OBVIOUS
  <2> QED
    BY <2>1, <1>15, <1>17 DEF ByCells
<1>21. ToSet(q.groups) = {Piece("rx", << >>), Piece("ry", << >>)}
  <2>1. ToSet(j.groups) = {}
    BY <1>17 DEF ToSet
  <2> QED
    BY <2>1, <1>15 DEF ByCells
<1>22. /\ Registered(h, "xmin") = << grid.xmin >> /\ Registered(h, "xdiv") = << grid.xdiv >>
       /\ Registered(h, "ymin") = << grid.ymin >> /\ Registered(h, "ydiv") = << grid.ydiv >>
       /\ Registered(h, "envelope") = << Envelope4(grid) >>
       /\ Registered(h, "envelope_srid") = << DEFAULT_SRID >>
  BY <1>2, <1>5, <1>6, <1>7, <1>8, <1>9, <1>10, <1>11, <1>12 DEF Registers, SetsColumns, Restricts, Same
<1>23. /\ Registered(q, "xmin") = << grid.xmin >> /\ Registered(q, "xdiv") = << grid.xdiv >>
       /\ Registered(q, "ymin") = << grid.ymin >> /\ Registered(q, "ydiv") = << grid.ydiv >>
       /\ Registered(q, "envelope") = << Envelope4(grid) >>
       /\ Registered(q, "envelope_srid") = << DEFAULT_SRID >>
  BY <1>2, <1>22, <1>13, <1>14, <1>15 DEF Times, Regional, ByCells
<1>24. "start_time" \in Names /\ "end_time" \in Names /\ "region" \in Names /\ "count_threshold" \in Names
  BY OurNames
<1>25. /\ Registered(q, "start_time") = << interval.start >>
       /\ Registered(q, "end_time") = << interval.end >>
       /\ (region # << >> => Registered(q, "region") = << region[1] >>)
       /\ (threshold > 0 => Registered(q, "count_threshold") = << threshold >>)
  BY <1>24, <1>13, <1>14, <1>15 DEF Times, Regional, ByCells
<1> QED
  BY <1>q, <1>15, <1>16, <1>19, <1>20, <1>21, <1>23, <1>25 DEF Says, GridStated

\* The global grid: no area, and cells counted from the meridian and the equator.
GlobalStated(q, grid, interval, threshold) ==
    /\ Says(q, << GlobalX, GlobalY >>, {SinceStart, UntilEnd},
            IF threshold > 0 THEN << MoreThan >> ELSE << >>)
    /\ ToSet(q.groups) = {Piece("rx", << >>), Piece("ry", << >>)} /\ q.order = << >>
    /\ Registered(q, "xdiv") = << grid.xdiv >> /\ Registered(q, "ydiv") = << grid.ydiv >>
    /\ Registered(q, "start_time") = << interval.start >>
    /\ Registered(q, "end_time") = << interval.end >>
    /\ (threshold > 0 => Registered(q, "count_threshold") = << threshold >>)

\* Query.GlobalGridQuery likewise.
LEMMA GlobalGridQueryFacts ==
    ASSUME NEW grid, IsGrid(grid), NEW interval, IsInterval(interval), NEW threshold \in Int
    PROVE  GlobalStated(GlobalGridQuery(grid, interval, threshold), grid, interval, threshold)
<1>q. PICK q : q = GlobalGridQuery(grid, interval, threshold)
  OBVIOUS
<1>n. PICK n : n = NewQuery("strikes")
  OBVIOUS
<1>a. PICK a : a = Parameter(n, "xdiv", grid.xdiv)
  OBVIOUS
<1>b. PICK b : b = Parameter(a, "ydiv", grid.ydiv)
  OBVIOUS
<1>c. PICK c : c = SetColumns(b, << GlobalX, GlobalY >>)
  OBVIOUS
<1>d. PICK d : d = AddTimeInterval(c, interval)
  OBVIOUS
<1>k. q = GroupCells(d, threshold)
  <2> DEFINE sized == Parameter(Parameter(NewQuery("strikes"), "xdiv", grid.xdiv), "ydiv", grid.ydiv)
  <2>1. q = GroupCells(AddTimeInterval(SetColumns(sized, << GlobalX, GlobalY >>), interval), threshold)
    BY <1>q DEF GlobalGridQuery, GlobalX, GlobalY
  <2>2. sized = b
    BY <1>n, <1>a, <1>b
  <2> HIDE DEF sized
  <2> QED
    BY <2>1, <2>2, <1>c, <1>d
<1>1. grid.xdiv \in SqlValues /\ grid.ydiv \in SqlValues
  BY GridValues
<1>2. "xdiv" \in Names /\ "ydiv" \in Names
  BY OurNames
<1>3. << GlobalX, GlobalY >> \in Seq(Pieces)
  <2>1. GlobalX \in Pieces /\ GlobalY \in Pieces
    BY OurPieces
  <2> QED
    BY <2>1, ShortSeqs
<1>4. Fresh(n) /\ IsQuery(n)
  BY <1>n, NewFacts DEF Fresh
<1>5. Registers(a, n, "xdiv", grid.xdiv) /\ IsQuery(a)
  <2>1. Registers(a, n, "xdiv", grid.xdiv)
    BY <1>a, <1>1, <1>2, <1>4, ParameterFacts
  <2> QED
    BY <2>1 DEF Registers
<1>6. Registers(b, a, "ydiv", grid.ydiv) /\ IsQuery(b)
  <2>1. Registers(b, a, "ydiv", grid.ydiv)
    BY <1>b, <1>1, <1>2, <1>5, ParameterFacts
  <2> QED
    BY <2>1 DEF Registers
<1>7. SetsColumns(c, b, << GlobalX, GlobalY >>) /\ IsQuery(c)
  <2>1. SetsColumns(c, b, << GlobalX, GlobalY >>)
    BY <1>c, <1>3, <1>6, ColumnsFacts
  <2> QED
    BY <2>1 DEF SetsColumns
<1>8. Times(d, c, interval) /\ IsQuery(d)
  <2>1. Times(d, c, interval)
    BY <1>d, <1>7, TimeFacts
  <2> QED
    BY <2>1 DEF Times
<1>9. ByCells(q, d, threshold) /\ IsQuery(q)
  <2>1. ByCells(q, d, threshold)
    BY <1>k, <1>8, CellsFacts
  <2> QED
    BY <2>1 DEF ByCells
<1>10. q.columns = << GlobalX, GlobalY >> /\ q.groups # << >> /\ q.order = << >>
  BY <1>4, <1>5, <1>6, <1>7, <1>8, <1>9 DEF Fresh, Registers, SetsColumns, Times, ByCells
<1>11. d.having = << >> /\ d.groups = << >> /\ c.conditions = << >>
  BY <1>4, <1>5, <1>6, <1>7, <1>8 DEF Fresh, Registers, SetsColumns, Times
<1>12. ToSet(q.conditions) = {SinceStart, UntilEnd}
  <2>1. ToSet(c.conditions) = {}
    BY <1>11 DEF ToSet
  <2> QED
    BY <2>1, <1>8, <1>9 DEF Times, ByCells
<1>13. q.having = IF threshold > 0 THEN << MoreThan >> ELSE << >>
  <2>1. Append(<< >>, MoreThan) = << MoreThan >>
    OBVIOUS
  <2> QED
    BY <2>1, <1>9, <1>11 DEF ByCells
<1>14. ToSet(q.groups) = {Piece("rx", << >>), Piece("ry", << >>)}
  <2>1. ToSet(d.groups) = {}
    BY <1>11 DEF ToSet
  <2> QED
    BY <2>1, <1>9 DEF ByCells
<1>15. Registered(q, "xdiv") = << grid.xdiv >> /\ Registered(q, "ydiv") = << grid.ydiv >>
  BY <1>2, <1>5, <1>6, <1>7, <1>8, <1>9 DEF Registers, SetsColumns, Same, Times, ByCells
<1>16. "start_time" \in Names /\ "end_time" \in Names /\ "count_threshold" \in Names
  BY OurNames
<1>17. /\ Registered(q, "start_time") = << interval.start >>
       /\ Registered(q, "end_time") = << interval.end >>
       /\ (threshold > 0 => Registered(q, "count_threshold") = << threshold >>)
  BY <1>16, <1>8, <1>9 DEF Times, ByCells
<1> QED
  BY <1>q, <1>9, <1>10, <1>12, <1>13, <1>14, <1>15, <1>17 DEF Says, GlobalStated

\* The histogram: end_time is registered twice, with the same value.
IsEnvelope(envelope) == envelope = << >> \/ envelope[1] \in Seq(Int)

HistogramStated(q, interval, binsize, envelope) ==
    /\ Says(q, << BinColumn >>,
            {SinceStart, UntilEnd} \cup (IF envelope = << >> THEN {} ELSE {WithinArea}), << >>)
    /\ ToSet(q.groups) = {Piece("interval", << >>)}
    /\ ToSet(q.order) = {Piece("interval", << >>)}
    /\ Registered(q, "binsize") = << binsize >>
    /\ Registered(q, "start_time") = << interval.start >>
    /\ Registered(q, "end_time") = << interval.end >>
    /\ (envelope # << >> => /\ Registered(q, "envelope") = << envelope[1] >>
                            /\ Registered(q, "envelope_srid") = << DEFAULT_SRID >>)

\* Query.HistogramQuery likewise, though end_time is used by a column, too.
LEMMA HistogramQueryFacts ==
    ASSUME NEW interval, IsInterval(interval), NEW binsize \in Int,
           NEW envelope, IsEnvelope(envelope)
    PROVE  HistogramStated(HistogramQuery(interval, binsize, envelope), interval, binsize, envelope)
<1>q. PICK q : q = HistogramQuery(interval, binsize, envelope)
  OBVIOUS
<1>n. PICK n : n = NewQuery("strikes")
  OBVIOUS
<1>a. PICK a : a = SetColumns(n, << BinColumn >>)
  OBVIOUS
<1>b. PICK b : b = Parameter(a, "end_time", interval.end)
  OBVIOUS
<1>c. PICK c : c = Parameter(b, "binsize", binsize)
  OBVIOUS
<1>d. PICK d : d = Typed(c, "binsize", "integer")
  OBVIOUS
<1>e. PICK e : e = AddTimeInterval(d, interval)
  OBVIOUS
<1>f. PICK f : f = GroupBy(e, "interval")
  OBVIOUS
<1>g. PICK g : g = OrderBy(f, "interval")
  OBVIOUS
<1>k. q = IF envelope = << >> THEN g
          ELSE Parameter(Parameter(Condition(g, WithinArea), "envelope", envelope[1]), "envelope_srid", DEFAULT_SRID)
  <2> DEFINE timed == AddTimeInterval(Typed(Parameter(Parameter(SetColumns(NewQuery("strikes"),
                          << BinColumn >>), "end_time", interval.end), "binsize", binsize),
                          "binsize", "integer"), interval)
  <2>1. q = IF envelope = << >> THEN OrderBy(GroupBy(timed, "interval"), "interval")
            ELSE Parameter(Parameter(Condition(OrderBy(GroupBy(timed, "interval"), "interval"),
                     WithinArea), "envelope", envelope[1]), "envelope_srid", DEFAULT_SRID)
    BY <1>q DEF HistogramQuery, BinColumn, WithinArea
  <2>2. timed = e
    BY <1>n, <1>a, <1>b, <1>c, <1>d, <1>e
  <2> HIDE DEF timed
  <2> QED
    BY <2>1, <2>2, <1>f, <1>g
<1>1. interval.end \in SqlValues /\ binsize \in SqlValues
  BY DEF IsInterval, SqlValues
<1>2. "end_time" \in Names /\ "binsize" \in Names /\ "interval" \in Phrases
  BY OurNames
<1>3. << BinColumn >> \in Seq(Pieces)
  <2>1. BinColumn \in Pieces
    BY OurPieces
  <2> QED
    BY <2>1, ShortSeqs
<1>4. Fresh(n) /\ IsQuery(n)
  BY <1>n, NewFacts DEF Fresh
<1>5. SetsColumns(a, n, << BinColumn >>) /\ IsQuery(a)
  <2>1. SetsColumns(a, n, << BinColumn >>)
    BY <1>a, <1>3, <1>4, ColumnsFacts
  <2> QED
    BY <2>1 DEF SetsColumns
<1>6. Registers(b, a, "end_time", interval.end) /\ IsQuery(b)
  <2>1. Registers(b, a, "end_time", interval.end)
    BY <1>b, <1>1, <1>2, <1>5, ParameterFacts
  <2> QED
    BY <2>1 DEF Registers
<1>7. Registers(c, b, "binsize", binsize) /\ IsQuery(c)
  <2>1. Registers(c, b, "binsize", binsize)
    BY <1>c, <1>1, <1>2, <1>6, ParameterFacts
  <2> QED
    BY <2>1 DEF Registers
<1>8. Casts(d, c) /\ IsQuery(d)
  <2>1. Casts(d, c)
    BY <1>d, <1>7, TypedFacts
  <2> QED
    BY <2>1 DEF Casts
<1>9. Times(e, d, interval) /\ IsQuery(e)
  <2>1. Times(e, d, interval)
    BY <1>e, <1>8, TimeFacts
  <2> QED
    BY <2>1 DEF Times
<1>10. Groups(f, e, "interval") /\ IsQuery(f)
  <2>1. Groups(f, e, "interval")
    BY <1>f, <1>2, <1>9, GroupByFacts
  <2> QED
    BY <2>1 DEF Groups
<1>11. Orders(g, f, "interval") /\ IsQuery(g)
  <2>1. Orders(g, f, "interval")
    BY <1>g, <1>2, <1>10, OrderByFacts
  <2> QED
    BY <2>1 DEF Orders
<1>12. /\ g.columns = << BinColumn >> /\ g.having = << >> /\ g.groups # << >>
       /\ a.conditions = << >> /\ a.groups = << >> /\ a.order = << >>
  BY <1>4, <1>5, <1>6, <1>7, <1>8, <1>9, <1>10, <1>11
     DEF Fresh, Registers, SetsColumns, Casts, Times, Groups, Orders
<1>13. /\ ToSet(g.conditions) = {SinceStart, UntilEnd}
       /\ ToSet(g.groups) = {Piece("interval", << >>)} /\ ToSet(g.order) = {Piece("interval", << >>)}
  <2>1. ToSet(a.conditions) = {} /\ ToSet(a.groups) = {} /\ ToSet(a.order) = {}
    BY <1>12 DEF ToSet
  <2> QED
    BY <2>1, <1>6, <1>7, <1>8, <1>9, <1>10, <1>11 DEF Registers, Casts, Times, Groups, Orders
<1>14. "start_time" \in Names
  BY OurNames
<1>15. /\ Registered(g, "binsize") = << binsize >>
       /\ Registered(g, "start_time") = << interval.start >>
       /\ Registered(g, "end_time") = << interval.end >>
  BY <1>2, <1>14, <1>7, <1>8, <1>9, <1>10, <1>11 DEF Registers, Casts, Times, Groups, Orders, Same
<1>16. ASSUME envelope = << >>
       PROVE  HistogramStated(q, interval, binsize, envelope)
  <2>1. q = g
    BY <1>k, <1>16
  <2> QED
    BY <1>11, <1>12, <1>13, <1>15, <1>16, <2>1 DEF Says, HistogramStated
<1>17. ASSUME envelope # << >>
       PROVE  HistogramStated(q, interval, binsize, envelope)
  <2>h. PICK h : h = Condition(g, WithinArea)
    OBVIOUS
  <2>i. PICK i : i = Parameter(h, "envelope", envelope[1])
    OBVIOUS
  <2>k. q = Parameter(i, "envelope_srid", DEFAULT_SRID)
    BY <1>k, <1>17, <2>h, <2>i
  <2>1. envelope[1] \in SqlValues /\ DEFAULT_SRID \in SqlValues
    BY <1>17 DEF IsEnvelope, SqlValues, DEFAULT_SRID
  <2>2. "envelope" \in Names /\ "envelope_srid" \in Names /\ WithinArea \in Pieces
    BY OurNames, OurPieces
  <2>3. Restricts(h, g, WithinArea)
    BY <1>11, <2>h, <2>2, ConditionFacts
  <2>4. IsQuery(h)
    BY <2>3 DEF Restricts
  <2>5. Registers(i, h, "envelope", envelope[1])
    BY <2>i, <2>1, <2>2, <2>4, ParameterFacts
  <2>6. IsQuery(i)
    BY <2>5 DEF Registers
  <2>7. Registers(q, i, "envelope_srid", DEFAULT_SRID)
    BY <2>k, <2>1, <2>2, <2>6, ParameterFacts
  <2>8. /\ IsQuery(q) /\ q.columns = << BinColumn >> /\ q.having = << >> /\ q.groups # << >>
        /\ ToSet(q.conditions) = {SinceStart, UntilEnd} \cup {WithinArea}
        /\ ToSet(q.groups) = {Piece("interval", << >>)} /\ ToSet(q.order) = {Piece("interval", << >>)}
    BY <1>12, <1>13, <2>3, <2>5, <2>7 DEF Restricts, Registers
  <2>9. /\ Registered(q, "binsize") = << binsize >>
        /\ Registered(q, "start_time") = << interval.start >>
        /\ Registered(q, "end_time") = << interval.end >>
    BY <1>2, <1>14, <1>15, <2>3, <2>5, <2>7 DEF Restricts, Registers, Same
  <2>10. /\ Registered(q, "envelope") = << envelope[1] >>
         /\ Registered(q, "envelope_srid") = << DEFAULT_SRID >>
    BY <2>2, <2>5, <2>7 DEF Registers
  <2> QED
    BY <1>17, <2>8, <2>9, <2>10 DEF Says, HistogramStated
<1> QED
  BY <1>q, <1>16, <1>17
-----------------------------------------------------------------------------
(* What the database makes of a statement that was sent *)

\* A piece as the statement that is sent has it.
Sent(q, piece) == Numbered(DistinctNames(q), q.casts, piece)

\* What a piece that is sent reads by number are the values of its names.
LEMMA SentReads ==
    ASSUME NEW q, IsQuery(q), AllNamed(q), NEW piece \in ToSet(SqlText(q))
    PROVE  /\ Sent(q, piece).sql = piece.sql
           /\ \A i \in DOMAIN piece.names :
                 Bound(Parameters(q), Sent(q, piece), i) = ValueOf(q, piece.names[i])
<1>1. Sent(q, piece).sql = piece.sql
  BY DEF Sent, Numbered
<1>2. ASSUME NEW i \in DOMAIN piece.names
      PROVE  Bound(Parameters(q), Sent(q, piece), i) = ValueOf(q, piece.names[i])
  BY PlaceholderReads DEF Sent
<1> QED
  BY <1>1, <1>2

\* The first condition that is sent compares with the start, whatever the numbers are.
LEMMA SentSinceStart ==
    ASSUME NEW q, IsQuery(q), AllNamed(q), SinceStart \in ToSet(SqlText(q)), NEW strike
    PROVE  Holds(Sent(q, SinceStart), Parameters(q), strike) <=> strike.timestamp >= ValueOf(q, "start_time")
<1> PICK ps, piece : ps = Parameters(q) /\ piece = Sent(q, SinceStart)
  OBVIOUS
<1>1. SinceStart.names = << "start_time" >>
  BY DEF SinceStart, Piece
<1>7. SinceStart.sql = "timestamp >="
  BY DEF SinceStart, Piece
<1>2. /\ piece.sql = SinceStart.sql
      /\ \A i \in DOMAIN SinceStart.names : Bound(ps, piece, i) = ValueOf(q, SinceStart.names[i])
  BY SentReads
<1>6. 1 \in DOMAIN SinceStart.names /\ SinceStart.names[1] = "start_time"
  BY <1>1
<1>3. Bound(ps, piece, 1) = ValueOf(q, "start_time")
  BY <1>2, <1>6
<1>4. piece.sql = "timestamp >="
  BY <1>2, <1>7
<1>5. Holds(piece, ps, strike) <=> strike.timestamp >= Bound(ps, piece, 1)
  BY <1>4 DEF Holds
<1> QED
  BY <1>3, <1>5

\* The second compares with the end.
LEMMA SentUntilEnd ==
    ASSUME NEW q, IsQuery(q), AllNamed(q), UntilEnd \in ToSet(SqlText(q)), NEW strike
    PROVE  Holds(Sent(q, UntilEnd), Parameters(q), strike) <=> strike.timestamp < ValueOf(q, "end_time")
<1> PICK ps, piece : ps = Parameters(q) /\ piece = Sent(q, UntilEnd)
  OBVIOUS
<1>1. UntilEnd.names = << "end_time" >>
  BY DEF UntilEnd, Piece
<1>7. UntilEnd.sql = "timestamp <"
  BY DEF UntilEnd, Piece
<1>2. /\ piece.sql = UntilEnd.sql
      /\ \A i \in DOMAIN UntilEnd.names : Bound(ps, piece, i) = ValueOf(q, UntilEnd.names[i])
  BY SentReads
<1>6. 1 \in DOMAIN UntilEnd.names /\ UntilEnd.names[1] = "end_time"
  BY <1>1
<1>3. Bound(ps, piece, 1) = ValueOf(q, "end_time")
  BY <1>2, <1>6
<1>4. piece.sql = "timestamp <"
  BY <1>2, <1>7
<1>5. Holds(piece, ps, strike) <=> strike.timestamp < Bound(ps, piece, 1)
  BY <1>4 DEF Holds
<1> QED
  BY <1>3, <1>5

\* The region's compares with the region.
LEMMA SentOfRegion ==
    ASSUME NEW q, IsQuery(q), AllNamed(q), OfRegion \in ToSet(SqlText(q)), NEW strike
    PROVE  Holds(Sent(q, OfRegion), Parameters(q), strike) <=> strike.region = ValueOf(q, "region")
<1> PICK ps, piece : ps = Parameters(q) /\ piece = Sent(q, OfRegion)
  OBVIOUS
<1>1. OfRegion.names = << "region" >>
  BY DEF OfRegion, Piece
<1>7. OfRegion.sql = "region ="
  BY DEF OfRegion, Piece
<1>2. /\ piece.sql = OfRegion.sql
      /\ \A i \in DOMAIN OfRegion.names : Bound(ps, piece, i) = ValueOf(q, OfRegion.names[i])
  BY SentReads
<1>6. 1 \in DOMAIN OfRegion.names /\ OfRegion.names[1] = "region"
  BY <1>1
<1>3. Bound(ps, piece, 1) = ValueOf(q, "region")
  BY <1>2, <1>6
<1>4. piece.sql = "region ="
  BY <1>2, <1>7
<1>5. Holds(piece, ps, strike) <=> strike.region = Bound(ps, piece, 1)
  BY <1>4 DEF Holds
<1> QED
  BY <1>3, <1>5

\* The area's asks for the four edges of the envelope, in the projection of the table.
LEMMA SentWithinArea ==
    ASSUME NEW q, IsQuery(q), AllNamed(q), WithinArea \in ToSet(SqlText(q)), NEW strike
    PROVE  Holds(Sent(q, WithinArea), Parameters(q), strike)
           <=> LET e == ValueOf(q, "envelope")
               IN  /\ ValueOf(q, "envelope_srid") = DEFAULT_SRID
                   /\ strike.x \in e[1] .. e[2] /\ strike.y \in e[3] .. e[4]
<1> PICK ps, piece : ps = Parameters(q) /\ piece = Sent(q, WithinArea)
  OBVIOUS
<1>1. WithinArea.names = << "envelope", "envelope_srid" >>
  BY DEF WithinArea, Piece
<1>7. WithinArea.sql = "envelope && geog"
  BY DEF WithinArea, Piece
<1>2. /\ piece.sql = WithinArea.sql
      /\ \A i \in DOMAIN WithinArea.names : Bound(ps, piece, i) = ValueOf(q, WithinArea.names[i])
  BY SentReads
<1>6. /\ 1 \in DOMAIN WithinArea.names /\ WithinArea.names[1] = "envelope"
      /\ 2 \in DOMAIN WithinArea.names /\ WithinArea.names[2] = "envelope_srid"
  BY <1>1
<1>3. Bound(ps, piece, 1) = ValueOf(q, "envelope") /\ Bound(ps, piece, 2) = ValueOf(q, "envelope_srid")
  BY <1>2, <1>6
<1>4. piece.sql = "envelope && geog"
  BY <1>2, <1>7
<1>5. Holds(piece, ps, strike)
           <=> LET e == Bound(ps, piece, 1)
               IN  /\ Bound(ps, piece, 2) = DEFAULT_SRID
                   /\ strike.x \in e[1] .. e[2] /\ strike.y \in e[3] .. e[4]
  BY <1>4 DEF Holds
<1> QED
  BY <1>3, <1>5

\* The column of a grid counts cells from the left edge,
LEMMA SentColumnX ==
    ASSUME NEW q, IsQuery(q), AllNamed(q), ColumnX \in ToSet(SqlText(q)), NEW strike
    PROVE  ColumnOf(Sent(q, ColumnX), Parameters(q), strike)
           = Toward0(strike.x - ValueOf(q, "xmin"), ValueOf(q, "xdiv"))
<1> PICK ps, piece : ps = Parameters(q) /\ piece = Sent(q, ColumnX)
  OBVIOUS
<1>1. ColumnX.names = << "xmin", "xdiv" >>
  BY DEF ColumnX, Piece
<1>7. ColumnX.sql = "trunc rx"
  BY DEF ColumnX, Piece
<1>2. /\ piece.sql = ColumnX.sql
      /\ \A i \in DOMAIN ColumnX.names : Bound(ps, piece, i) = ValueOf(q, ColumnX.names[i])
  BY SentReads
<1>6. /\ 1 \in DOMAIN ColumnX.names /\ ColumnX.names[1] = "xmin"
      /\ 2 \in DOMAIN ColumnX.names /\ ColumnX.names[2] = "xdiv"
  BY <1>1
<1>3. Bound(ps, piece, 1) = ValueOf(q, "xmin") /\ Bound(ps, piece, 2) = ValueOf(q, "xdiv")
  BY <1>2, <1>6
<1>4. piece.sql = "trunc rx"
  BY <1>2, <1>7
<1>5. ColumnOf(piece, ps, strike)
           = Toward0(strike.x - Bound(ps, piece, 1), Bound(ps, piece, 2))
  BY <1>4 DEF ColumnOf
<1> QED
  BY <1>3, <1>5

\* and the row from the lower one.
LEMMA SentColumnY ==
    ASSUME NEW q, IsQuery(q), AllNamed(q), ColumnY \in ToSet(SqlText(q)), NEW strike
    PROVE  ColumnOf(Sent(q, ColumnY), Parameters(q), strike)
           = Toward0(strike.y - ValueOf(q, "ymin"), ValueOf(q, "ydiv"))
<1> PICK ps, piece : ps = Parameters(q) /\ piece = Sent(q, ColumnY)
  OBVIOUS
<1>1. ColumnY.names = << "ymin", "ydiv" >>
  BY DEF ColumnY, Piece
<1>7. ColumnY.sql = "trunc ry"
  BY DEF ColumnY, Piece
<1>2. /\ piece.sql = ColumnY.sql
      /\ \A i \in DOMAIN ColumnY.names : Bound(ps, piece, i) = ValueOf(q, ColumnY.names[i])
  BY SentReads
<1>6. /\ 1 \in DOMAIN ColumnY.names /\ ColumnY.names[1] = "ymin"
      /\ 2 \in DOMAIN ColumnY.names /\ ColumnY.names[2] = "ydiv"
  BY <1>1
<1>3. Bound(ps, piece, 1) = ValueOf(q, "ymin") /\ Bound(ps, piece, 2) = ValueOf(q, "ydiv")
  BY <1>2, <1>6
<1>4. piece.sql = "trunc ry"
  BY <1>2, <1>7
<1>5. ColumnOf(piece, ps, strike)
           = Toward0(strike.y - Bound(ps, piece, 1), Bound(ps, piece, 2))
  BY <1>4 DEF ColumnOf
<1> QED
  BY <1>3, <1>5

\* The column of the global grid is counted from the meridian,
LEMMA SentGlobalX ==
    ASSUME NEW q, IsQuery(q), AllNamed(q), GlobalX \in ToSet(SqlText(q)), NEW strike
    PROVE  ColumnOf(Sent(q, GlobalX), Parameters(q), strike)
           = RoundEven(2 * strike.x - ValueOf(q, "xdiv"), 2 * ValueOf(q, "xdiv"))
<1> PICK ps, piece : ps = Parameters(q) /\ piece = Sent(q, GlobalX)
  OBVIOUS
<1>1. GlobalX.names = << "xdiv", "xdiv" >>
  BY DEF GlobalX, Piece
<1>7. GlobalX.sql = "round rx"
  BY DEF GlobalX, Piece
<1>2. /\ piece.sql = GlobalX.sql
      /\ \A i \in DOMAIN GlobalX.names : Bound(ps, piece, i) = ValueOf(q, GlobalX.names[i])
  BY SentReads
<1>6. /\ 1 \in DOMAIN GlobalX.names /\ GlobalX.names[1] = "xdiv"
      /\ 2 \in DOMAIN GlobalX.names /\ GlobalX.names[2] = "xdiv"
  BY <1>1
<1>3. Bound(ps, piece, 1) = ValueOf(q, "xdiv") /\ Bound(ps, piece, 2) = ValueOf(q, "xdiv")
  BY <1>2, <1>6
<1>4. piece.sql = "round rx"
  BY <1>2, <1>7
<1>5. ColumnOf(piece, ps, strike)
           = RoundEven(2 * strike.x - Bound(ps, piece, 1), 2 * Bound(ps, piece, 2))
  BY <1>4 DEF ColumnOf
<1> QED
  BY <1>3, <1>5

\* and the row from the equator.
LEMMA SentGlobalY ==
    ASSUME NEW q, IsQuery(q), AllNamed(q), GlobalY \in ToSet(SqlText(q)), NEW strike
    PROVE  ColumnOf(Sent(q, GlobalY), Parameters(q), strike)
           = RoundEven(2 * strike.y - ValueOf(q, "ydiv"), 2 * ValueOf(q, "ydiv"))
<1> PICK ps, piece : ps = Parameters(q) /\ piece = Sent(q, GlobalY)
  OBVIOUS
<1>1. GlobalY.names = << "ydiv", "ydiv" >>
  BY DEF GlobalY, Piece
<1>7. GlobalY.sql = "round ry"
  BY DEF GlobalY, Piece
<1>2. /\ piece.sql = GlobalY.sql
      /\ \A i \in DOMAIN GlobalY.names : Bound(ps, piece, i) = ValueOf(q, GlobalY.names[i])
  BY SentReads
<1>6. /\ 1 \in DOMAIN GlobalY.names /\ GlobalY.names[1] = "ydiv"
      /\ 2 \in DOMAIN GlobalY.names /\ GlobalY.names[2] = "ydiv"
  BY <1>1
<1>3. Bound(ps, piece, 1) = ValueOf(q, "ydiv") /\ Bound(ps, piece, 2) = ValueOf(q, "ydiv")
  BY <1>2, <1>6
<1>4. piece.sql = "round ry"
  BY <1>2, <1>7
<1>5. ColumnOf(piece, ps, strike)
           = RoundEven(2 * strike.y - Bound(ps, piece, 1), 2 * Bound(ps, piece, 2))
  BY <1>4 DEF ColumnOf
<1> QED
  BY <1>3, <1>5

\* The column of a histogram counts bins of minutes backwards from the end.
LEMMA SentBinColumn ==
    ASSUME NEW q, IsQuery(q), AllNamed(q), BinColumn \in ToSet(SqlText(q)), NEW strike
    PROVE  ColumnOf(Sent(q, BinColumn), Parameters(q), strike)
           = -Toward0(Toward0(ValueOf(q, "end_time") - strike.timestamp, 60), ValueOf(q, "binsize"))
<1> PICK ps, piece : ps = Parameters(q) /\ piece = Sent(q, BinColumn)
  OBVIOUS
<1>1. BinColumn.names = << "end_time", "binsize" >>
  BY DEF BinColumn, Piece
<1>7. BinColumn.sql = "interval"
  BY DEF BinColumn, Piece
<1>2. /\ piece.sql = BinColumn.sql
      /\ \A i \in DOMAIN BinColumn.names : Bound(ps, piece, i) = ValueOf(q, BinColumn.names[i])
  BY SentReads
<1>6. /\ 1 \in DOMAIN BinColumn.names /\ BinColumn.names[1] = "end_time"
      /\ 2 \in DOMAIN BinColumn.names /\ BinColumn.names[2] = "binsize"
  BY <1>1
<1>3. Bound(ps, piece, 1) = ValueOf(q, "end_time") /\ Bound(ps, piece, 2) = ValueOf(q, "binsize")
  BY <1>2, <1>6
<1>4. piece.sql = "interval"
  BY <1>2, <1>7
<1>5. ColumnOf(piece, ps, strike)
           = -Toward0(Toward0(Bound(ps, piece, 1) - strike.timestamp, 60), Bound(ps, piece, 2))
  BY <1>4 DEF ColumnOf
<1> QED
  BY <1>3, <1>5

\* The threshold that the database reads is the one that was registered.
LEMMA SentMoreThan ==
    ASSUME NEW q, IsQuery(q), AllNamed(q), MoreThan \in ToSet(SqlText(q))
    PROVE  Bound(Parameters(q), Sent(q, MoreThan), 1) = ValueOf(q, "count_threshold")
<1>1. MoreThan.names = << "count_threshold" >>
  BY DEF MoreThan, Piece
<1>2. \A i \in DOMAIN MoreThan.names :
         Bound(Parameters(q), Sent(q, MoreThan), i) = ValueOf(q, MoreThan.names[i])
  BY SentReads
<1> QED
  BY <1>1, <1>2
-----------------------------------------------------------------------------
(* The rows: one for every group of the strikes that match *)

\* The rows of the strikes that match, by their groups.
Members(match, group, g) == {i \in match : group[i] = g}
RowOf(match, group, table, g) ==
    [group |-> g, count |-> Cardinality(Members(match, group, g)),
     newest |-> Max({table[i].timestamp : i \in Members(match, group, g)})]
RowsOf(match, group, table, threshold) ==
    {RowOf(match, group, table, g) :
        g \in {h \in {group[i] : i \in match} : Cardinality(Members(match, group, h)) > threshold}}

\* A statement selects the strikes that meet all its conditions and groups them
\* by its columns, above a threshold.
Selects(q, table, match, group, threshold) ==
    /\ IsQuery(q) /\ AllNamed(q) /\ q.groups # << >>
    /\ IsFiniteSet(match) /\ match \subseteq DOMAIN table
    /\ \A i \in DOMAIN table :
          i \in match <=> \A piece \in ToSet(q.conditions) :
                             Holds(Sent(q, piece), Parameters(q), table[i])
    /\ \A i \in match : group[i] = [c \in DOMAIN q.columns |->
                             ColumnOf(Sent(q, q.columns[c]), Parameters(q), table[i])]
    /\ \/ q.having = << >> /\ threshold = 0
       \/ /\ q.having = << MoreThan >>
          /\ Bound(Parameters(q), Sent(q, MoreThan), 1) = threshold

\* What is sent does that.
LEMMA RunFacts ==
    ASSUME NEW q, NEW table, NEW match, NEW group, NEW threshold,
           Selects(q, table, match, group, threshold)
    PROVE  Run(ToPostgres(q), Parameters(q), table) = RowsOf(match, group, table, threshold)
<1>0. /\ q.groups # << >>
      /\ IsFiniteSet(match) /\ match \subseteq DOMAIN table
      /\ \A i \in DOMAIN table :
            i \in match <=> \A piece \in ToSet(q.conditions) :
                               Holds(Sent(q, piece), Parameters(q), table[i])
      /\ \A i \in match : group[i] = [c \in DOMAIN q.columns |->
                               ColumnOf(Sent(q, q.columns[c]), Parameters(q), table[i])]
      /\ \/ q.having = << >> /\ threshold = 0
         \/ /\ q.having = << MoreThan >>
            /\ Bound(Parameters(q), Sent(q, MoreThan), 1) = threshold
  BY DEF Selects
<1> PICK ps : ps = Parameters(q)
  OBVIOUS
<1> PICK st : st = ToPostgres(q)
  OBVIOUS
<1>1. /\ st.conditions = [i \in DOMAIN q.conditions |-> Sent(q, q.conditions[i])]
      /\ st.columns = [i \in DOMAIN q.columns |-> Sent(q, q.columns[i])]
      /\ st.having = [i \in DOMAIN q.having |-> Sent(q, q.having[i])]
  BY <1>0 DEF ToPostgres, Sent
<1> DEFINE matching == {i \in DOMAIN table :
                          \A c \in DOMAIN st.conditions : Holds(st.conditions[c], ps, table[i])}
           groupOf(i) == [c \in DOMAIN st.columns |-> ColumnOf(st.columns[c], ps, table[i])]
           members(g) == {i \in matching : groupOf(i) = g}
           kept(h) == \A p \in DOMAIN st.having : Cardinality(members(h)) > Bound(ps, st.having[p], 1)
           row(g) == [group |-> g, count |-> Cardinality(members(g)),
                      newest |-> Max({table[i].timestamp : i \in members(g)})]
<1>2. Run(st, ps, table) = {row(g) : g \in {h \in {groupOf(i) : i \in matching} : kept(h)}}
  BY DEF Run
<1>3. matching = match
  <2>1. ASSUME NEW i \in DOMAIN table
        PROVE  (\A c \in DOMAIN st.conditions : Holds(st.conditions[c], ps, table[i])) <=> i \in match
    <3>1. /\ DOMAIN st.conditions = DOMAIN q.conditions
          /\ \A c \in DOMAIN q.conditions : st.conditions[c] = Sent(q, q.conditions[c])
      BY <1>1
    <3>2. \A piece : piece \in ToSet(q.conditions) <=> \E c \in DOMAIN q.conditions : q.conditions[c] = piece
      BY DEF ToSet
    <3> QED
      BY <1>0, <3>1, <3>2
  <2> QED
    BY <1>0, <2>1
<1>4. ASSUME NEW i \in match PROVE groupOf(i) = group[i]
  <2>1. DOMAIN st.columns = DOMAIN q.columns
    BY <1>1
  <2>2. \A c \in DOMAIN q.columns : st.columns[c] = Sent(q, q.columns[c])
    BY <1>1
  <2>3. groupOf(i) = [c \in DOMAIN q.columns |-> ColumnOf(Sent(q, q.columns[c]), ps, table[i])]
    BY <2>1, <2>2
  <2> QED
    BY <1>0, <2>3
<1>5. ASSUME NEW g PROVE members(g) = Members(match, group, g)
  <2> HIDE DEF groupOf, matching
  <2> QED
    BY <1>3, <1>4 DEF Members
<1>6. {groupOf(i) : i \in matching} = {group[i] : i \in match}
  <2> HIDE DEF groupOf, matching
  <2> QED
    BY <1>3, <1>4
<1>7. ASSUME NEW h \in {group[i] : i \in match}
      PROVE  kept(h) <=> Cardinality(Members(match, group, h)) > threshold
  <2> PICK n : n = Cardinality(Members(match, group, h))
    OBVIOUS
  <2>1. Cardinality(members(h)) = n
    BY <1>5
  <2> HIDE DEF members
  <2>2. CASE q.having = << >> /\ threshold = 0
    <3>1. IsFiniteSet(Members(match, group, h)) /\ Members(match, group, h) # {}
      BY <1>0, FS_Subset DEF Members
    <3>2. n \in Nat /\ n # 0
      BY <3>1, FS_CardinalityType, FS_EmptySet
    <3>3. DOMAIN st.having = {}
      BY <1>1, <2>2
    <3> QED
      BY <2>2, <3>2, <3>3
  <2>3. CASE /\ q.having = << MoreThan >>
             /\ Bound(Parameters(q), Sent(q, MoreThan), 1) = threshold
    <3>1. DOMAIN st.having = {1} /\ st.having[1] = Sent(q, MoreThan)
      BY <1>1, <2>3
    <3> QED
      BY <2>1, <2>3, <3>1
  <2> QED
    BY <1>0, <2>2, <2>3
<1>8. ASSUME NEW g PROVE row(g) = RowOf(match, group, table, g)
  <2> HIDE DEF members
  <2> QED
    BY <1>5 DEF RowOf
<1> HIDE DEF matching, groupOf, members, kept, row
<1> QED
  BY <1>2, <1>6, <1>7, <1>8 DEF RowsOf

\* What is registered is told.
LEMMA ToldFacts ==
    ASSUME NEW q, NEW name, NEW v, Registered(q, name) = << v >>
    PROVE  Told(q, name) /\ ValueOf(q, name) = v
<1>1. << v >> # << >> /\ << v >>[1] = v
  OBVIOUS
<1> QED
  BY <1>1 DEF Told, ValueOf

\* The names of a piece have values.
Covered(q, piece) == \A i \in DOMAIN piece.names : Told(q, piece.names[i])

\* The names each piece of these statements needs.
LEMMA OurPiecesCovered ==
    ASSUME NEW q
    PROVE  /\ Told(q, "start_time") => Covered(q, SinceStart)
           /\ Told(q, "end_time") => Covered(q, UntilEnd)
           /\ Told(q, "region") => Covered(q, OfRegion)
           /\ Told(q, "envelope") /\ Told(q, "envelope_srid") => Covered(q, WithinArea)
           /\ Told(q, "xmin") /\ Told(q, "xdiv") => Covered(q, ColumnX)
           /\ Told(q, "ymin") /\ Told(q, "ydiv") => Covered(q, ColumnY)
           /\ Told(q, "xdiv") => Covered(q, GlobalX)
           /\ Told(q, "ydiv") => Covered(q, GlobalY)
           /\ Told(q, "end_time") /\ Told(q, "binsize") => Covered(q, BinColumn)
           /\ Told(q, "count_threshold") => Covered(q, MoreThan)
           /\ \A sql : Covered(q, Piece(sql, << >>))
<1>1. ASSUME NEW piece, NEW a, NEW b, piece.names = << a, b >>, Told(q, a), Told(q, b)
      PROVE  Covered(q, piece)
  BY <1>1 DEF Covered
<1>2. ASSUME NEW piece, NEW a, piece.names = << a >>, Told(q, a)
      PROVE  Covered(q, piece)
  BY <1>2 DEF Covered
<1>3. /\ SinceStart.names = <<"start_time">> /\ UntilEnd.names = <<"end_time">>
      /\ OfRegion.names = <<"region">> /\ WithinArea.names = <<"envelope", "envelope_srid">>
      /\ ColumnX.names = <<"xmin", "xdiv">> /\ ColumnY.names = <<"ymin", "ydiv">>
      /\ GlobalX.names = <<"xdiv", "xdiv">> /\ GlobalY.names = <<"ydiv", "ydiv">>
      /\ BinColumn.names = <<"end_time", "binsize">> /\ MoreThan.names = <<"count_threshold">>
  BY OurPieces
<1>4. \A sql : Covered(q, Piece(sql, << >>))
  BY DEF Covered, Piece
<1>5. /\ Told(q, "start_time") => Covered(q, SinceStart)
      /\ Told(q, "end_time") => Covered(q, UntilEnd)
      /\ Told(q, "region") => Covered(q, OfRegion)
      /\ Told(q, "count_threshold") => Covered(q, MoreThan)
  BY <1>2, <1>3, Zenon
<1>6. /\ Told(q, "envelope") /\ Told(q, "envelope_srid") => Covered(q, WithinArea)
      /\ Told(q, "xmin") /\ Told(q, "xdiv") => Covered(q, ColumnX)
      /\ Told(q, "ymin") /\ Told(q, "ydiv") => Covered(q, ColumnY)
      /\ Told(q, "xdiv") => Covered(q, GlobalX)
      /\ Told(q, "ydiv") => Covered(q, GlobalY)
      /\ Told(q, "end_time") /\ Told(q, "binsize") => Covered(q, BinColumn)
  BY <1>1, <1>3, Zenon
<1> QED
  BY <1>4, <1>5, <1>6

\* A statement all of whose pieces are covered.
LEMMA CoveredIsNamed ==
    ASSUME NEW q, IsQuery(q),
           \A piece \in ToSet(q.columns) \cup ToSet(q.conditions) \cup ToSet(q.groups)
                          \cup ToSet(q.having) \cup ToSet(q.order) : Covered(q, piece)
    PROVE  /\ AllNamed(q)
           /\ ToSet(q.columns) \subseteq ToSet(SqlText(q))
           /\ ToSet(q.conditions) \subseteq ToSet(SqlText(q))
           /\ q.groups # << >> => ToSet(q.having) \subseteq ToSet(SqlText(q))
<1>1. ToSet(SqlText(q)) = ToSet(q.columns) \cup ToSet(q.conditions) \cup ToSet(q.groups)
                             \cup ToSet(IF q.groups = << >> THEN << >> ELSE q.having)
                             \cup ToSet(q.order)
  BY TextFacts
<1>2. ToSet(IF q.groups = << >> THEN << >> ELSE q.having) \subseteq ToSet(q.having)
  <2>1. ToSet(<< >>) = {}
    BY DEF ToSet
  <2> QED
    BY <2>1
<1>3. \A piece \in ToSet(SqlText(q)) : Covered(q, piece)
  BY <1>1, <1>2
<1>4. q.groups # << >> => ToSet(q.having) \subseteq ToSet(SqlText(q))
  BY <1>1
<1> QED
  BY <1>1, <1>3, <1>4 DEF AllNamed, Covered

\* A table of strikes.
StrikeRecords == [timestamp : Int, x : Int, y : Int, region : Int]

\* A table has finitely many strikes, whose fields are numbers.
LEMMA TableFacts ==
    ASSUME NEW table \in Seq(StrikeRecords)
    PROVE  /\ IsFiniteSet(DOMAIN table)
           /\ \A i \in DOMAIN table : /\ table[i].timestamp \in Int /\ table[i].x \in Int
                                      /\ table[i].y \in Int /\ table[i].region \in Int
<1>1. DOMAIN table = 1..Len(table) /\ Len(table) \in Nat
  OBVIOUS
<1>2. IsFiniteSet(DOMAIN table)
  BY <1>1, FS_Interval
<1>3. \A i \in DOMAIN table : table[i] \in StrikeRecords
  <2> HIDE DEF StrikeRecords
  <2> QED
    OBVIOUS
<1> QED
  BY <1>2, <1>3 DEF StrikeRecords

\* The strikes of an interval; those of an area, and of a region, if it is given.
InTime(interval, table) ==
    {i \in DOMAIN table : table[i].timestamp >= interval.start /\ table[i].timestamp < interval.end}
InTheArea(grid, table) ==
    {i \in DOMAIN table : table[i].x \in grid.xmin .. grid.xmax /\ table[i].y \in grid.ymin .. grid.ymax}
InTheRegion(region, table) ==
    {i \in DOMAIN table : region = << >> \/ table[i].region = region[1]}

\* Their cells: from the lower left corner, or from meridian and equator.
AreaCells(grid, table) ==
    [i \in DOMAIN table |-> << (table[i].x - grid.xmin) \div grid.xdiv,
                               (table[i].y - grid.ymin) \div grid.ydiv >>]
GlobalCells(grid, table) ==
    [i \in DOMAIN table |-> << RoundEven(2 * table[i].x - grid.xdiv, 2 * grid.xdiv),
                               RoundEven(2 * table[i].y - grid.ydiv, 2 * grid.ydiv) >>]

\* The rows of a grid are the cells of its strikes.
LEMMA AreaRows ==
    ASSUME NEW grid, IsGrid(grid), NEW interval, IsInterval(interval),
           NEW region, IsRegion(region), NEW threshold \in Nat,
           NEW table \in Seq(StrikeRecords),
           NEW q, q = GridQuery(grid, interval, region, threshold)
    PROVE  Run(ToPostgres(q), Parameters(q), table)
             = RowsOf(InTime(interval, table) \cap InTheArea(grid, table)
                        \cap InTheRegion(region, table), AreaCells(grid, table), table, threshold)
<1> PICK match : match = InTime(interval, table) \cap InTheArea(grid, table)
                           \cap InTheRegion(region, table)
  OBVIOUS
<1> PICK group : group = AreaCells(grid, table)
  OBVIOUS
<1> PICK ps : ps = Parameters(q)
  OBVIOUS
<1>0. GridStated(q, grid, interval, region, threshold)
  BY GridQueryFacts
<1>1. /\ IsQuery(q) /\ q.columns = << ColumnX, ColumnY >>
      /\ ToSet(q.conditions) = {WithinArea, SinceStart, UntilEnd}
                                  \cup (IF region = << >> THEN {} ELSE {OfRegion})
      /\ q.having = IF threshold > 0 THEN << MoreThan >> ELSE << >>
      /\ q.groups # << >>
      /\ ToSet(q.groups) = {Piece("rx", << >>), Piece("ry", << >>)} /\ q.order = << >>
  BY <1>0 DEF Says, GridStated
<1>2. /\ Registered(q, "xmin") = << grid.xmin >> /\ Registered(q, "xdiv") = << grid.xdiv >>
      /\ Registered(q, "ymin") = << grid.ymin >> /\ Registered(q, "ydiv") = << grid.ydiv >>
      /\ Registered(q, "envelope") = << Envelope4(grid) >>
      /\ Registered(q, "envelope_srid") = << DEFAULT_SRID >>
      /\ Registered(q, "start_time") = << interval.start >>
      /\ Registered(q, "end_time") = << interval.end >>
      /\ (region # << >> => Registered(q, "region") = << region[1] >>)
      /\ (threshold > 0 => Registered(q, "count_threshold") = << threshold >>)
  BY <1>0 DEF GridStated
<1>3. /\ Told(q, "xmin") /\ Told(q, "xdiv") /\ Told(q, "ymin") /\ Told(q, "ydiv")
      /\ Told(q, "envelope") /\ Told(q, "envelope_srid")
      /\ Told(q, "start_time") /\ Told(q, "end_time")
      /\ (region # << >> => Told(q, "region"))
      /\ (threshold > 0 => Told(q, "count_threshold"))
  BY <1>2, ToldFacts
<1>4. /\ ValueOf(q, "xmin") = grid.xmin /\ ValueOf(q, "xdiv") = grid.xdiv
      /\ ValueOf(q, "ymin") = grid.ymin /\ ValueOf(q, "ydiv") = grid.ydiv
      /\ ValueOf(q, "envelope") = Envelope4(grid)
      /\ ValueOf(q, "envelope_srid") = DEFAULT_SRID
      /\ ValueOf(q, "start_time") = interval.start
      /\ ValueOf(q, "end_time") = interval.end
      /\ (region # << >> => ValueOf(q, "region") = region[1])
      /\ (threshold > 0 => ValueOf(q, "count_threshold") = threshold)
  BY <1>2, ToldFacts
<1>5. /\ ToSet(q.columns) = {ColumnX, ColumnY} /\ ToSet(q.order) = {}
      /\ ToSet(q.having) = IF threshold > 0 THEN {MoreThan} ELSE {}
  BY <1>1 DEF ToSet
<1>6. /\ Covered(q, ColumnX) /\ Covered(q, ColumnY) /\ Covered(q, WithinArea)
      /\ Covered(q, SinceStart) /\ Covered(q, UntilEnd)
      /\ (region # << >> => Covered(q, OfRegion))
      /\ (threshold > 0 => Covered(q, MoreThan))
      /\ Covered(q, Piece("rx", << >>)) /\ Covered(q, Piece("ry", << >>))
  BY <1>3, OurPiecesCovered
<1>7. \A piece \in ToSet(q.columns) \cup ToSet(q.conditions) \cup ToSet(q.groups)
                      \cup ToSet(q.having) \cup ToSet(q.order) : Covered(q, piece)
  BY <1>1, <1>5, <1>6
<1>8. /\ AllNamed(q)
      /\ ToSet(q.columns) \subseteq ToSet(SqlText(q))
      /\ ToSet(q.conditions) \subseteq ToSet(SqlText(q))
      /\ ToSet(q.having) \subseteq ToSet(SqlText(q))
  BY <1>1, <1>7, CoveredIsNamed
<1>9. /\ ColumnX \in ToSet(SqlText(q)) /\ ColumnY \in ToSet(SqlText(q))
      /\ WithinArea \in ToSet(SqlText(q)) /\ SinceStart \in ToSet(SqlText(q))
      /\ UntilEnd \in ToSet(SqlText(q))
      /\ (region # << >> => OfRegion \in ToSet(SqlText(q)))
      /\ (threshold > 0 => MoreThan \in ToSet(SqlText(q)))
  BY <1>1, <1>5, <1>8
<1>10. ASSUME NEW i \in DOMAIN table
       PROVE  i \in match <=> \A piece \in ToSet(q.conditions) : Holds(Sent(q, piece), ps, table[i])
  <2>1. Holds(Sent(q, SinceStart), ps, table[i]) <=> table[i].timestamp >= interval.start
    BY <1>1, <1>4, <1>8, <1>9, SentSinceStart
  <2>2. Holds(Sent(q, UntilEnd), ps, table[i]) <=> table[i].timestamp < interval.end
    BY <1>1, <1>4, <1>8, <1>9, SentUntilEnd
  <2>3. region # << >> => (Holds(Sent(q, OfRegion), ps, table[i]) <=> table[i].region = region[1])
    BY <1>1, <1>4, <1>8, <1>9, SentOfRegion
  <2>4. Holds(Sent(q, WithinArea), ps, table[i])
           <=> table[i].x \in grid.xmin .. grid.xmax /\ table[i].y \in grid.ymin .. grid.ymax
    <3>1. Holds(Sent(q, WithinArea), ps, table[i])
             <=> LET e == Envelope4(grid)
                 IN  table[i].x \in e[1] .. e[2] /\ table[i].y \in e[3] .. e[4]
      BY <1>1, <1>4, <1>8, <1>9, SentWithinArea
    <3>2. /\ Envelope4(grid)[1] = grid.xmin /\ Envelope4(grid)[2] = grid.xmax
          /\ Envelope4(grid)[3] = grid.ymin /\ Envelope4(grid)[4] = grid.ymax
      BY DEF Envelope4
    <3> QED
      BY <3>1, <3>2
  <2>5. CASE region = << >>
    BY <1>1, <2>1, <2>2, <2>4, <2>5 DEF InTime, InTheArea, InTheRegion
  <2>6. CASE region # << >>
    BY <1>1, <2>1, <2>2, <2>3, <2>4, <2>6 DEF InTime, InTheArea, InTheRegion
  <2> QED
    BY <2>5, <2>6
<1>11. ASSUME NEW i \in match
       PROVE  group[i] = [c \in DOMAIN q.columns |-> ColumnOf(Sent(q, q.columns[c]), ps, table[i])]
  <2>1. i \in DOMAIN table
    BY DEF InTime
  <2>2. /\ table[i].x \in Int /\ table[i].y \in Int
        /\ table[i].x >= grid.xmin /\ table[i].y >= grid.ymin
    BY <2>1, TableFacts DEF InTheArea, IsGrid
  <2>3. /\ ColumnOf(Sent(q, ColumnX), ps, table[i]) = Toward0(table[i].x - grid.xmin, grid.xdiv)
        /\ ColumnOf(Sent(q, ColumnY), ps, table[i]) = Toward0(table[i].y - grid.ymin, grid.ydiv)
    BY <1>1, <1>4, <1>8, <1>9, SentColumnX, SentColumnY
  <2>4. /\ Toward0(table[i].x - grid.xmin, grid.xdiv) = (table[i].x - grid.xmin) \div grid.xdiv
        /\ Toward0(table[i].y - grid.ymin, grid.ydiv) = (table[i].y - grid.ymin) \div grid.ydiv
    BY <2>2 DEF Toward0, IsGrid
  <2>5. /\ DOMAIN q.columns = 1..2 /\ q.columns[1] = ColumnX /\ q.columns[2] = ColumnY
    BY <1>1
  <2>6. [c \in DOMAIN q.columns |-> ColumnOf(Sent(q, q.columns[c]), ps, table[i])]
           = << ColumnOf(Sent(q, ColumnX), ps, table[i]), ColumnOf(Sent(q, ColumnY), ps, table[i]) >>
    BY <2>5
  <2> QED
    BY <2>1, <2>3, <2>4, <2>6 DEF AreaCells
<1>12. IsFiniteSet(match) /\ match \subseteq DOMAIN table
  <2>1. match \subseteq DOMAIN table
    BY DEF InTime
  <2> QED
    BY <2>1, TableFacts, FS_Subset
<1>13. \/ q.having = << >> /\ threshold = 0
       \/ /\ q.having = << MoreThan >>
          /\ Bound(Parameters(q), Sent(q, MoreThan), 1) = threshold
  <2>1. threshold = 0 => q.having = << >>
    BY ONLY <1>1
  <2>2. CASE threshold > 0
    <3>1. q.having = << MoreThan >>
      BY ONLY <1>1, <2>2
    <3>2. Bound(Parameters(q), Sent(q, MoreThan), 1) = ValueOf(q, "count_threshold")
      BY ONLY <1>1, <1>8, <1>9, <2>2, SentMoreThan, Zenon
    <3> QED
      BY ONLY <1>4, <2>2, <3>1, <3>2
  <2> QED
    BY ONLY <2>1, <2>2
<1>14. Selects(q, table, match, group, threshold)
  BY ONLY ps = Parameters(q), <1>1, <1>8, <1>10, <1>11, <1>12, <1>13 DEF Selects
<1> QED
  BY <1>14, RunFacts

\* The global grid's too.
LEMMA GlobalRows ==
    ASSUME NEW grid, IsGrid(grid), NEW interval, IsInterval(interval),
           NEW threshold \in Nat, NEW table \in Seq(StrikeRecords),
           NEW q, q = GlobalGridQuery(grid, interval, threshold)
    PROVE  Run(ToPostgres(q), Parameters(q), table)
             = RowsOf(InTime(interval, table), GlobalCells(grid, table), table, threshold)
<1> PICK match : match = InTime(interval, table)
  OBVIOUS
<1> PICK group : group = GlobalCells(grid, table)
  OBVIOUS
<1> PICK ps : ps = Parameters(q)
  OBVIOUS
<1>0. GlobalStated(q, grid, interval, threshold)
  BY GlobalGridQueryFacts
<1>1. /\ IsQuery(q) /\ q.columns = << GlobalX, GlobalY >>
      /\ ToSet(q.conditions) = {SinceStart, UntilEnd}
      /\ q.having = IF threshold > 0 THEN << MoreThan >> ELSE << >>
      /\ q.groups # << >>
      /\ ToSet(q.groups) = {Piece("rx", << >>), Piece("ry", << >>)} /\ q.order = << >>
  BY <1>0 DEF Says, GlobalStated
<1>2. /\ Registered(q, "xdiv") = << grid.xdiv >> /\ Registered(q, "ydiv") = << grid.ydiv >>
      /\ Registered(q, "start_time") = << interval.start >>
      /\ Registered(q, "end_time") = << interval.end >>
      /\ (threshold > 0 => Registered(q, "count_threshold") = << threshold >>)
  BY <1>0 DEF GlobalStated
<1>3. /\ Told(q, "xdiv") /\ Told(q, "ydiv") /\ Told(q, "start_time") /\ Told(q, "end_time")
      /\ (threshold > 0 => Told(q, "count_threshold"))
  BY <1>2, ToldFacts
<1>4. /\ ValueOf(q, "xdiv") = grid.xdiv /\ ValueOf(q, "ydiv") = grid.ydiv
      /\ ValueOf(q, "start_time") = interval.start
      /\ ValueOf(q, "end_time") = interval.end
      /\ (threshold > 0 => ValueOf(q, "count_threshold") = threshold)
  BY <1>2, ToldFacts
<1>5. /\ ToSet(q.columns) = {GlobalX, GlobalY} /\ ToSet(q.order) = {}
      /\ ToSet(q.having) = IF threshold > 0 THEN {MoreThan} ELSE {}
  BY <1>1 DEF ToSet
<1>6. /\ Covered(q, GlobalX) /\ Covered(q, GlobalY)
      /\ Covered(q, SinceStart) /\ Covered(q, UntilEnd)
      /\ (threshold > 0 => Covered(q, MoreThan))
      /\ Covered(q, Piece("rx", << >>)) /\ Covered(q, Piece("ry", << >>))
  BY <1>3, OurPiecesCovered
<1>7. \A piece \in ToSet(q.columns) \cup ToSet(q.conditions) \cup ToSet(q.groups)
                      \cup ToSet(q.having) \cup ToSet(q.order) : Covered(q, piece)
  BY <1>1, <1>5, <1>6
<1>8. /\ AllNamed(q)
      /\ ToSet(q.columns) \subseteq ToSet(SqlText(q))
      /\ ToSet(q.conditions) \subseteq ToSet(SqlText(q))
      /\ ToSet(q.having) \subseteq ToSet(SqlText(q))
  BY <1>1, <1>7, CoveredIsNamed
<1>9. /\ GlobalX \in ToSet(SqlText(q)) /\ GlobalY \in ToSet(SqlText(q))
      /\ SinceStart \in ToSet(SqlText(q)) /\ UntilEnd \in ToSet(SqlText(q))
      /\ (threshold > 0 => MoreThan \in ToSet(SqlText(q)))
  BY <1>1, <1>5, <1>8
<1>10. ASSUME NEW i \in DOMAIN table
       PROVE  i \in match <=> \A piece \in ToSet(q.conditions) : Holds(Sent(q, piece), ps, table[i])
  <2>1. Holds(Sent(q, SinceStart), ps, table[i]) <=> table[i].timestamp >= interval.start
    BY <1>1, <1>4, <1>8, <1>9, SentSinceStart
  <2>2. Holds(Sent(q, UntilEnd), ps, table[i]) <=> table[i].timestamp < interval.end
    BY <1>1, <1>4, <1>8, <1>9, SentUntilEnd
  <2> QED
    BY <1>1, <2>1, <2>2 DEF InTime
<1>11. ASSUME NEW i \in match
       PROVE  group[i] = [c \in DOMAIN q.columns |-> ColumnOf(Sent(q, q.columns[c]), ps, table[i])]
  <2>1. i \in DOMAIN table
    BY DEF InTime
  <2>2. /\ ColumnOf(Sent(q, GlobalX), ps, table[i])
             = RoundEven(2 * table[i].x - grid.xdiv, 2 * grid.xdiv)
        /\ ColumnOf(Sent(q, GlobalY), ps, table[i])
             = RoundEven(2 * table[i].y - grid.ydiv, 2 * grid.ydiv)
    BY <1>1, <1>4, <1>8, <1>9, SentGlobalX, SentGlobalY
  <2>3. /\ DOMAIN q.columns = 1..2 /\ q.columns[1] = GlobalX /\ q.columns[2] = GlobalY
    BY <1>1
  <2>4. [c \in DOMAIN q.columns |-> ColumnOf(Sent(q, q.columns[c]), ps, table[i])]
           = << ColumnOf(Sent(q, GlobalX), ps, table[i]), ColumnOf(Sent(q, GlobalY), ps, table[i]) >>
    BY <2>3
  <2> QED
    BY <2>1, <2>2, <2>4 DEF GlobalCells
<1>12. IsFiniteSet(match) /\ match \subseteq DOMAIN table
  <2>1. match \subseteq DOMAIN table
    BY DEF InTime
  <2> QED
    BY <2>1, TableFacts, FS_Subset
<1>13. \/ q.having = << >> /\ threshold = 0
       \/ /\ q.having = << MoreThan >>
          /\ Bound(Parameters(q), Sent(q, MoreThan), 1) = threshold
  <2>1. threshold = 0 => q.having = << >>
    BY ONLY <1>1
  <2>2. CASE threshold > 0
    <3>1. q.having = << MoreThan >>
      BY ONLY <1>1, <2>2
    <3>2. Bound(Parameters(q), Sent(q, MoreThan), 1) = ValueOf(q, "count_threshold")
      BY ONLY <1>1, <1>8, <1>9, <2>2, SentMoreThan, Zenon
    <3> QED
      BY ONLY <1>4, <2>2, <3>1, <3>2
  <2> QED
    BY ONLY <2>1, <2>2
<1>14. Selects(q, table, match, group, threshold)
  BY ONLY match = InTime(interval, table), group = GlobalCells(grid, table), ps = Parameters(q), <1>1, <1>8, <1>10, <1>11, <1>12, <1>13 DEF Selects
<1> QED
  BY <1>14, RunFacts

\* The intervals of a histogram, five minutes each, that strikes fall into,
\* counted backwards from its end.
BinsOf(interval, binsize, table) ==
    [i \in DOMAIN table |->
        << -Toward0(Toward0(interval.end - table[i].timestamp, 60), binsize) >>]

\* The rows of a histogram are the bins of its strikes.
LEMMA BinRows ==
    ASSUME NEW interval, IsInterval(interval), NEW binsize \in Int,
           NEW envelope, NEW area,
           \/ envelope = << >> /\ area = << >>
           \/ area # << >> /\ IsGrid(area[1]) /\ envelope = << Envelope4(area[1]) >>,
           NEW table \in Seq(StrikeRecords),
           NEW q, q = HistogramQuery(interval, binsize, envelope)
    PROVE  Run(ToPostgres(q), Parameters(q), table)
             = RowsOf(InTime(interval, table)
                        \cap (IF area = << >> THEN DOMAIN table ELSE InTheArea(area[1], table)),
                      BinsOf(interval, binsize, table), table, 0)
<1> PICK match : match = InTime(interval, table)
                           \cap (IF area = << >> THEN DOMAIN table ELSE InTheArea(area[1], table))
  OBVIOUS
<1> PICK group : group = BinsOf(interval, binsize, table)
  OBVIOUS
<1> PICK ps : ps = Parameters(q)
  OBVIOUS
<1>e. IsEnvelope(envelope) /\ (envelope = << >> <=> area = << >>)
  <2>1. CASE envelope = << >> /\ area = << >>
    BY <2>1 DEF IsEnvelope
  <2>2. CASE area # << >> /\ IsGrid(area[1]) /\ envelope = << Envelope4(area[1]) >>
    <3>1. Envelope4(area[1]) \in Seq(Int)
      <4> PICK g : g = area[1]
        OBVIOUS
      <4>1. << g.xmin, g.xmax, g.ymin, g.ymax >> \in Seq(Int)
        BY <2>2 DEF IsGrid
      <4> QED
        BY <4>1 DEF Envelope4
    <3> QED
      BY <2>2, <3>1 DEF IsEnvelope
  <2> QED
    BY <2>1, <2>2
<1>0. HistogramStated(q, interval, binsize, envelope)
  BY <1>e, HistogramQueryFacts
<1>1. /\ IsQuery(q) /\ q.columns = << BinColumn >>
      /\ ToSet(q.conditions) = {SinceStart, UntilEnd} \cup (IF envelope = << >> THEN {} ELSE {WithinArea})
      /\ q.having = << >> /\ q.groups # << >>
      /\ ToSet(q.groups) = {Piece("interval", << >>)} /\ ToSet(q.order) = {Piece("interval", << >>)}
  BY <1>0 DEF Says, HistogramStated
<1>2. /\ Registered(q, "binsize") = << binsize >>
      /\ Registered(q, "start_time") = << interval.start >>
      /\ Registered(q, "end_time") = << interval.end >>
      /\ (envelope # << >> => /\ Registered(q, "envelope") = << envelope[1] >>
                              /\ Registered(q, "envelope_srid") = << DEFAULT_SRID >>)
  BY <1>0 DEF HistogramStated
<1>3. /\ Told(q, "binsize") /\ Told(q, "start_time") /\ Told(q, "end_time")
      /\ (envelope # << >> => Told(q, "envelope") /\ Told(q, "envelope_srid"))
  BY <1>2, ToldFacts
<1>4. /\ ValueOf(q, "binsize") = binsize
      /\ ValueOf(q, "start_time") = interval.start
      /\ ValueOf(q, "end_time") = interval.end
      /\ (envelope # << >> => /\ ValueOf(q, "envelope") = envelope[1]
                              /\ ValueOf(q, "envelope_srid") = DEFAULT_SRID)
  BY <1>2, ToldFacts
<1>5. ToSet(q.columns) = {BinColumn} /\ ToSet(q.having) = {}
  BY <1>1 DEF ToSet
<1>6. /\ Covered(q, BinColumn) /\ Covered(q, SinceStart) /\ Covered(q, UntilEnd)
      /\ (envelope # << >> => Covered(q, WithinArea))
      /\ Covered(q, Piece("interval", << >>))
  BY <1>3, OurPiecesCovered
<1>7. \A piece \in ToSet(q.columns) \cup ToSet(q.conditions) \cup ToSet(q.groups)
                      \cup ToSet(q.having) \cup ToSet(q.order) : Covered(q, piece)
  BY <1>1, <1>5, <1>6
<1>8. /\ AllNamed(q)
      /\ ToSet(q.columns) \subseteq ToSet(SqlText(q))
      /\ ToSet(q.conditions) \subseteq ToSet(SqlText(q))
  BY <1>1, <1>7, CoveredIsNamed
<1>9. /\ BinColumn \in ToSet(SqlText(q))
      /\ SinceStart \in ToSet(SqlText(q)) /\ UntilEnd \in ToSet(SqlText(q))
      /\ (envelope # << >> => WithinArea \in ToSet(SqlText(q)))
  BY <1>1, <1>5, <1>8
<1>10. ASSUME NEW i \in DOMAIN table
       PROVE  i \in match <=> \A piece \in ToSet(q.conditions) : Holds(Sent(q, piece), ps, table[i])
  <2>1. Holds(Sent(q, SinceStart), ps, table[i]) <=> table[i].timestamp >= interval.start
    BY <1>1, <1>4, <1>8, <1>9, SentSinceStart
  <2>2. Holds(Sent(q, UntilEnd), ps, table[i]) <=> table[i].timestamp < interval.end
    BY <1>1, <1>4, <1>8, <1>9, SentUntilEnd
  <2>3. CASE envelope = << >> /\ area = << >>
    BY <1>1, <2>1, <2>2, <2>3 DEF InTime
  <2>4. CASE area # << >> /\ IsGrid(area[1]) /\ envelope = << Envelope4(area[1]) >>
    <3> PICK grid : grid = area[1]
      OBVIOUS
    <3>1. ValueOf(q, "envelope") = Envelope4(grid) /\ ValueOf(q, "envelope_srid") = DEFAULT_SRID
      BY <1>e, <1>4, <2>4
    <3>2. Holds(Sent(q, WithinArea), ps, table[i])
             <=> LET e == Envelope4(grid)
                 IN  table[i].x \in e[1] .. e[2] /\ table[i].y \in e[3] .. e[4]
      BY <1>1, <1>e, <1>8, <1>9, <2>4, <3>1, SentWithinArea
    <3>3. /\ Envelope4(grid)[1] = grid.xmin /\ Envelope4(grid)[2] = grid.xmax
          /\ Envelope4(grid)[3] = grid.ymin /\ Envelope4(grid)[4] = grid.ymax
      BY DEF Envelope4
    <3>4. Holds(Sent(q, WithinArea), ps, table[i])
             <=> table[i].x \in grid.xmin .. grid.xmax /\ table[i].y \in grid.ymin .. grid.ymax
      BY <3>2, <3>3
    <3>5. ToSet(q.conditions) = {SinceStart, UntilEnd, WithinArea}
      BY <1>1, <1>e, <2>4
    <3> QED
      BY <2>1, <2>2, <2>4, <3>4, <3>5 DEF InTime, InTheArea
  <2> QED
    BY <2>3, <2>4
<1>11. ASSUME NEW i \in match
       PROVE  group[i] = [c \in DOMAIN q.columns |-> ColumnOf(Sent(q, q.columns[c]), ps, table[i])]
  <2>1. i \in DOMAIN table
    BY DEF InTime
  <2>2. ColumnOf(Sent(q, BinColumn), ps, table[i])
          = -Toward0(Toward0(interval.end - table[i].timestamp, 60), binsize)
    BY <1>1, <1>4, <1>8, <1>9, SentBinColumn
  <2>3. DOMAIN q.columns = {1} /\ q.columns[1] = BinColumn
    BY <1>1
  <2>4. [c \in DOMAIN q.columns |-> ColumnOf(Sent(q, q.columns[c]), ps, table[i])]
           = << ColumnOf(Sent(q, BinColumn), ps, table[i]) >>
    BY <2>3
  <2> QED
    BY <2>1, <2>2, <2>4 DEF BinsOf
<1>12. IsFiniteSet(match) /\ match \subseteq DOMAIN table
  <2>1. match \subseteq DOMAIN table
    BY DEF InTime
  <2> QED
    BY <2>1, TableFacts, FS_Subset
<1>13. Selects(q, table, match, group, 0)
  BY <1>1, <1>8, <1>10, <1>11, <1>12 DEF Selects
<1> QED
  BY <1>13, RunFacts
-----------------------------------------------------------------------------
(* Cells, rows and bins in numbers *)

\* ROUND of the middle between two borders' numbers is the cell between them;
\* on a border, the even one of both.
LEMMA RoundedCell ==
    ASSUME NEW a \in Int, NEW d \in Nat \ {0}
    PROVE  RoundEven(2 * a - d, 2 * d) = GlobalCell(a, d)
<1> PICK b \in Nat \ {0} : b = 2 * d
  OBVIOUS
<1>c. 2 * a - d \in Int
  OBVIOUS
<1> PICK c \in Int : c = 2 * a - d
  BY <1>c
<1>k. PICK k \in Int : k = a \div d /\ k * d <= a /\ a < k * d + d
  BY DivBounds
<1>j. PICK j \in Int : j = k - 1
  OBVIOUS
<1>x. PICK x \in Int : x = k * d
  OBVIOUS
<1>r. PICK r \in Int : r = a - x
  OBVIOUS
<1>1. k * b = 2 * x /\ j * b = 2 * x - b
  BY <1>x, <1>j
<1>2. 0 <= r /\ r < d /\ a = x + r
  BY <1>k, <1>x, <1>r
<1>3. GlobalCell(a, d) = IF r = 0 /\ k % 2 = 1 THEN j ELSE k
  BY <1>k, <1>j, <1>x, <1>r DEF GlobalCell
<1>4. RoundEven(c, b) = LET low == c \div b
                            twice == 2 * (c - low * b)
                        IN  IF twice < b \/ (twice = b /\ low % 2 = 0) THEN low ELSE low + 1
  BY DEF RoundEven
<1>5. CASE 2 * r >= d
  <2>1. k * b <= c /\ c < k * b + b
    BY <1>1, <1>2, <1>5
  <2>2. c \div b = k
    BY <2>1, DivUnique
  <2>3. 2 * (c - k * b) < b
    BY <1>1, <1>2
  <2>4. RoundEven(c, b) = k
    BY <1>4, <2>2, <2>3
  <2> QED
    BY <1>2, <1>3, <1>5, <2>4
<1>6. CASE 2 * r < d
  <2>1. j * b <= c /\ c < j * b + b
    BY <1>1, <1>2, <1>6
  <2>2. c \div b = j
    BY <2>1, DivUnique
  <2> PICK t \in Int : t = 2 * (c - j * b)
    OBVIOUS
  <2>3. t >= b /\ (t = b <=> r = 0)
    BY <1>1, <1>2
  <2>4. j % 2 = 0 <=> k % 2 = 1
    BY <1>j, Neighbours
  <2>5. RoundEven(c, b) = IF t < b \/ (t = b /\ j % 2 = 0) THEN j ELSE j + 1
    BY <1>4, <2>2
  <2> QED
    BY <1>j, <1>3, <2>3, <2>4, <2>5
<1> QED
  BY <1>5, <1>6

\* A bin of five minutes, counted toward zero from the end.
LEMMA BinOfStrike ==
    ASSUME NEW a \in Nat
    PROVE  Toward0(Toward0(a, 60), 5) = a \div 300
<1>1. Toward0(a, 60) = a \div 60 /\ a \div 60 \in Nat
  BY DEF Toward0
<1>2. Toward0(a \div 60, 5) = (a \div 60) \div 5
  BY <1>1 DEF Toward0
<1>3. (a \div 60) \div 5 = a \div (60 * 5)
  BY TwoDivisions
<1> QED
  BY <1>1, <1>2, <1>3
-----------------------------------------------------------------------------
(* Grids: what is drawn of the rows *)

\* There is one row for every group of enough strikes, and no other.
LEMMA RowsFacts ==
    ASSUME NEW match, NEW group, NEW table, NEW threshold
    PROVE  \A r : r \in RowsOf(match, group, table, threshold) <=>
                     \E i \in match : /\ Cardinality(Members(match, group, group[i])) > threshold
                                      /\ r = RowOf(match, group, table, group[i])
BY DEF RowsOf

\* What is drawn of strikes at their places, with a count above a threshold and
\* the age of the newest.
DrawnCell(struck, place, table, end, d) ==
    [x |-> d[1], y |-> d[2], count |-> Cardinality(Members(struck, place, d)),
     age |-> Max({table[i].timestamp : i \in Members(struck, place, d)}) - end]

DrawnCells(struck, place, table, end, threshold) ==
    {DrawnCell(struck, place, table, end, d) :
        d \in {e \in {place[i] : i \in struck} : Cardinality(Members(struck, place, e)) > threshold}}

\* If the strikes of a group are those of a place, and the groups left out are
\* the places not drawn, then the rows are drawn at the places of their strikes.
Redraws(match, group, struck, place) ==
    /\ struck \subseteq match
    /\ \A i, j \in match : group[i] = group[j] <=> place[i] = place[j]
    /\ \A i, j \in match : group[i] = group[j] /\ i \in struck => j \in struck

\* Then the strikes of a group are those of its place.
LEMMA SameMembers ==
    ASSUME NEW match, NEW group, NEW struck, NEW place, Redraws(match, group, struck, place),
           NEW i \in struck
    PROVE  Members(match, group, group[i]) = Members(struck, place, place[i])
BY DEF Redraws, Members

\* The cell of the group of every strike.
RedrawnCell(match, group, place, table, end, i) ==
    LET r == RowOf(match, group, table, group[i])
    IN  [x |-> place[i][1], y |-> place[i][2], count |-> r.count, age |-> r.newest - end]

\* And the cells of the groups are the cells of the places.
LEMMA RedrawnFacts ==
    ASSUME NEW match, NEW group, NEW struck, NEW place, Redraws(match, group, struck, place),
           NEW table, NEW end, NEW threshold
    PROVE  {RedrawnCell(match, group, place, table, end, i) :
               i \in {j \in struck : Cardinality(Members(match, group, group[j])) > threshold}}
             = DrawnCells(struck, place, table, end, threshold)
<1>1. ASSUME NEW i \in struck
      PROVE  RedrawnCell(match, group, place, table, end, i)
                = DrawnCell(struck, place, table, end, place[i])
  <2>1. Members(match, group, group[i]) = Members(struck, place, place[i])
    BY SameMembers
  <2> PICK r : r = RowOf(match, group, table, group[i])
    OBVIOUS
  <2>2. /\ r.count = Cardinality(Members(struck, place, place[i]))
        /\ r.newest = Max({table[k].timestamp : k \in Members(struck, place, place[i])})
    BY <2>1 DEF RowOf
  <2> QED
    BY <2>2 DEF RedrawnCell, DrawnCell
<1>2. \A i \in struck : Cardinality(Members(match, group, group[i])) > threshold
                           <=> Cardinality(Members(struck, place, place[i])) > threshold
  BY SameMembers
<1> QED
  BY <1>1, <1>2 DEF DrawnCells

\* A whole number of cells high.
IsWhole(grid) ==
    /\ IsGrid(grid)
    /\ XBinCount(grid) \in Int /\ YBinCount(grid) \in Int
    /\ grid.ymax = grid.ymin + YBinCount(grid) * grid.ydiv

IsFactory(f) == f.minlon \in Int /\ f.maxlon \in Int /\ f.minlat \in Int /\ f.maxlat \in Int

\* A factory's corners are whole numbers of the model's unit.
LEMMA FactoryFacts ==
    ASSUME NEW a \in Int, NEW b \in Int, NEW e \in Int, NEW f \in Int
    PROVE  IsFactory(Factory(a, b, e, f))
<1> PICK n \in Int : n = 180 * Degree
  BY DEF Degree
<1> PICK m \in Int : m = 90 * Degree
  BY DEF Degree
<1>d. -180 * Degree = -n /\ -90 * Degree = -m
  BY DEF Degree
<1> PICK s : s = Factory(a, b, e, f)
  OBVIOUS
<1>1. s = [minlon |-> Larger(a, -n), maxlon |-> Smaller(b, n),
           minlat |-> Larger(e, -m), maxlat |-> Smaller(f, m)]
  BY <1>d DEF Factory
<1>2. /\ s.minlon = Larger(a, -n) /\ s.maxlon = Smaller(b, n)
      /\ s.minlat = Larger(e, -m) /\ s.maxlat = Smaller(f, m)
  BY <1>1
<1>3. Larger(a, -n) \in Int /\ Smaller(b, n) \in Int /\ Larger(e, -m) \in Int /\ Smaller(f, m) \in Int
  BY DEF Larger, Smaller
<1> QED
  BY <1>2, <1>3 DEF IsFactory

\* A grid of a factory is of whole cells.
LEMMA GetForFacts ==
    ASSUME NEW factory, IsFactory(factory), NEW n \in VALID_GRID_BASE_LENGTHS
    PROVE  IsWhole(GetFor(factory, n))
<1> PICK g : g = GetFor(factory, n)
  OBVIOUS
<1> PICK dx \in Nat \ {0} : dx = Cell[n].x
  BY CellsAssumption DEF CellsAssumption
<1> PICK dy \in Nat \ {0} : dy = Cell[n].y
  BY CellsAssumption DEF CellsAssumption
<1> PICK a \in Int : a = factory.minlon
  BY DEF IsFactory
<1> PICK b \in Int : b = factory.maxlon
  BY DEF IsFactory
<1> PICK e \in Int : e = factory.minlat
  BY DEF IsFactory
<1> PICK f \in Int : f = factory.maxlat
  BY DEF IsFactory
<1>1. /\ g.xmin = a /\ g.xdiv = dx /\ g.xmax = FixMax(a, b, dx)
      /\ g.ymin = e /\ g.ydiv = dy /\ g.ymax = FixMax(e, f, dy)
  BY DEF GetFor
<1>b. b - a \in Int /\ f - e \in Int
  OBVIOUS
<1>x. PICK k \in Int : k = (b - a) \div dx
  BY <1>b, DivBounds
<1>y. PICK l \in Int : l = (f - e) \div dy
  BY <1>b, DivBounds
<1>2. FixMax(a, b, dx) = a + k * dx /\ FixMax(e, f, dy) = e + l * dy
  BY <1>x, <1>y DEF FixMax
<1>3. (a + k * dx - a) \div dx = k /\ (e + l * dy - e) \div dy = l
  BY WholeCells
<1>4. XBinCount(g) = k /\ YBinCount(g) = l
  BY <1>1, <1>2, <1>3 DEF XBinCount, YBinCount
<1>5. a + k * dx \in Int /\ e + l * dy \in Int
  OBVIOUS
<1> QED
  BY <1>1, <1>2, <1>4, <1>5 DEF IsWhole, IsGrid

\* What the parameters of a grid have to be.
IsGridRequest(method, p) ==
    /\ method \in GridMethods
    /\ p.minute_length \in WindowLengths
    /\ p.minute_offset \in Int /\ p.minute_offset <= 0
    /\ p.count_threshold \in Nat
    /\ p.grid_base_length \in VALID_GRID_BASE_LENGTHS
    /\ method = "get_strikes_grid" => p.region \in 1 .. MAX_REGION
    /\ method = "get_local_strikes_grid" => p.x \in Int /\ p.y \in Int /\ p.data_area \in Int

\* Those of every region are.
LEMMA RegionFactoryFacts ==
    ASSUME NEW r \in 1 .. MAX_REGION
    PROVE  IsFactory(RegionFactory(r))
<1>1. r \in 1 .. 7
  BY DEF MAX_REGION
<1> PICK d \in Int : d = Degree
  BY DEF Degree
<1>2. /\ Regions[r][1] \in Int /\ Regions[r][2] \in Int
      /\ Regions[r][3] \in Int /\ Regions[r][4] \in Int
  <2>1. r = 1 \/ r = 2 \/ r = 3 \/ r = 4 \/ r = 5 \/ r = 6 \/ r = 7
    BY <1>1
  <2> QED
    BY <2>1 DEF Regions
<1> PICK b : b = Regions[r]
  OBVIOUS
<1>3. b[1] * d \in Int /\ b[2] * d \in Int /\ b[3] * d \in Int /\ b[4] * d \in Int
  BY <1>2
<1>4. RegionFactory(r) = Factory(b[1] * d, b[2] * d, b[3] * d, b[4] * d)
  BY DEF RegionFactory
<1> QED
  BY <1>3, <1>4, FactoryFacts

\* Those of every local area are.
LEMMA LocalFactoryFacts ==
    ASSUME NEW x \in Int, NEW y \in Int, NEW area \in Int
    PROVE  IsFactory(LocalFactory(x, y, area))
<1> PICK d \in Int : d = Degree
  BY DEF Degree
<1>o. (x - 1) * area \in Int /\ (y - 1) * area \in Int
  OBVIOUS
<1>l. PICK lon \in Int : lon = (x - 1) * area
  BY <1>o
<1>a. PICK lat \in Int : lat = (y - 1) * area
  BY <1>o
<1>s. PICK size \in Int : size = 3 * area
  OBVIOUS
<1>t. PICK twice \in Int : twice = 2 * lat + size
  OBVIOUS
<1>e. PICK ext \in Int : ext = IF twice < 0 THEN -twice ELSE twice
  OBVIOUS
<1>1. LocalFactory(x, y, area)
        = Factory(lon * d - ext, (lon + size) * d + ext, lat * d, (lat + size) * d)
  BY <1>l, <1>a, <1>s, <1>t, <1>e DEF LocalFactory
<1>2. /\ lon * d - ext \in Int /\ (lon + size) * d + ext \in Int
      /\ lat * d \in Int /\ (lat + size) * d \in Int
  OBVIOUS
<1> QED
  BY <1>1, <1>2, FactoryFacts

\* Those of the globe are.
LEMMA GlobalFactoryFacts == IsFactory(GlobalFactory)
<1>1. -180 * Degree \in Int /\ 180 * Degree \in Int /\ -90 * Degree \in Int /\ 90 * Degree \in Int
  BY DEF Degree
<1> QED
  BY <1>1, FactoryFacts DEF GlobalFactory

\* The grid that a request asks for is of whole cells.
LEMMA GridOfFacts ==
    ASSUME NEW method, NEW p, IsGridRequest(method, p)
    PROVE  IsWhole(GridOf(method, p))
<1> PICK n \in VALID_GRID_BASE_LENGTHS : n = p.grid_base_length
  BY DEF IsGridRequest
<1>1. CASE method = "get_strikes_grid"
  <2>1. GridOf(method, p) = GetFor(RegionFactory(p.region), n)
    BY <1>1 DEF GridOf
  <2>2. IsFactory(RegionFactory(p.region))
    BY <1>1, RegionFactoryFacts DEF IsGridRequest
  <2> QED
    BY <2>1, <2>2, GetForFacts
<1>2. CASE method = "get_global_strikes_grid"
  <2>1. GridOf(method, p) = GetFor(GlobalFactory, n)
    BY <1>2 DEF GridOf
  <2> QED
    BY <2>1, GlobalFactoryFacts, GetForFacts
<1>3. CASE method = "get_local_strikes_grid"
  <2>1. GridOf(method, p) = GetFor(LocalFactory(p.x, p.y, p.data_area), n)
    BY <1>3 DEF GridOf
  <2>2. IsFactory(LocalFactory(p.x, p.y, p.data_area))
    BY <1>3, LocalFactoryFacts DEF IsGridRequest
  <2> QED
    BY <2>1, <2>2, GetForFacts
<1> QED
  BY <1>1, <1>2, <1>3 DEF IsGridRequest, GridMethods

\* The strikes of a grid, and their groups.
RegionOf(method, p) == IF method = "get_strikes_grid" THEN << p.region >> ELSE << >>
GridMatch(method, p, interval, table) ==
    IF IsGlobal(method) THEN InTime(interval, table)
    ELSE InTime(interval, table) \cap InTheArea(GridOf(method, p), table)
           \cap InTheRegion(RegionOf(method, p), table)
GridGroups(method, p, table) ==
    IF IsGlobal(method) THEN GlobalCells(GridOf(method, p), table)
    ELSE AreaCells(GridOf(method, p), table)

\* The query of a grid finds them.
LEMMA GridRowsFacts ==
    ASSUME NEW method, NEW p, IsGridRequest(method, p), NEW interval, IsInterval(interval),
           NEW table \in Seq(StrikeRecords)
    PROVE  GridRows(method, p, interval, table)
             = RowsOf(GridMatch(method, p, interval, table), GridGroups(method, p, table), table,
                      p.count_threshold)
<1> PICK grid : grid = GridOf(method, p)
  OBVIOUS
<1> PICK n : n = p.count_threshold
  OBVIOUS
<1>1. IsGrid(grid)
  BY GridOfFacts DEF IsWhole
<1>2. n \in Nat
  BY DEF IsGridRequest
<1>3. CASE IsGlobal(method)
  <2> PICK q : q = GlobalGridQuery(grid, interval, n)
    OBVIOUS
  <2>1. GridRows(method, p, interval, table) = Run(ToPostgres(q), Parameters(q), table)
    BY <1>3 DEF GridRows
  <2>2. Run(ToPostgres(q), Parameters(q), table)
          = RowsOf(InTime(interval, table), GlobalCells(grid, table), table, n)
    BY <1>1, <1>2, GlobalRows
  <2> QED
    BY <1>3, <2>1, <2>2 DEF GridMatch, GridGroups
<1>4. CASE ~IsGlobal(method)
  <2> PICK region : region = RegionOf(method, p)
    OBVIOUS
  <2> PICK q : q = GridQuery(grid, interval, region, n)
    OBVIOUS
  <2>1. GridRows(method, p, interval, table) = Run(ToPostgres(q), Parameters(q), table)
    BY <1>4 DEF GridRows, RegionOf
  <2>2. IsRegion(region)
    <3>1. method = "get_strikes_grid" => p.region \in Int
      BY DEF IsGridRequest, MAX_REGION
    <3> QED
      BY <3>1 DEF IsRegion, RegionOf
  <2>3. Run(ToPostgres(q), Parameters(q), table)
          = RowsOf(InTime(interval, table) \cap InTheArea(grid, table)
                     \cap InTheRegion(region, table), AreaCells(grid, table), table, n)
    BY <1>1, <1>2, <2>2, AreaRows
  <2> QED
    BY <1>4, <2>1, <2>3 DEF GridMatch, GridGroups
<1> QED
  BY <1>3, <1>4

\* Where a client draws them, and which of them it sees.
DrawnAt(method, p, table) ==
    LET g == GridOf(method, p)
    IN  [i \in DOMAIN table |->
           IF IsGlobal(method)
           THEN << GlobalCell(table[i].x, g.xdiv), -GlobalCell(table[i].y, g.ydiv) - 1 >>
           ELSE << (table[i].x - g.xmin) \div g.xdiv,
                   ((g.ymax + g.ydiv) - table[i].y - 1) \div g.ydiv >>]

Seen(method, p, place) ==
    LET g == GridOf(method, p)
    IN  IsGlobal(method) \/ (place[1] \in 0 .. XBinCount(g) - 1 /\ place[2] \in 0 .. YBinCount(g) - 1)

Struck(method, p, interval, table) ==
    {i \in GridMatch(method, p, interval, table) : Seen(method, p, DrawnAt(method, p, table)[i])}

\* The place of a strike follows from its group, and its group from its place.
PlaceOfGroup(method, p, g, place) ==
    /\ g[1] \in Int /\ g[2] \in Int /\ g = << g[1], g[2] >>
    /\ place = << g[1], IF IsGlobal(method) THEN -g[2] - 1 ELSE YBinCount(GridOf(method, p)) - g[2] >>

\* Rows counted from the upper edge of a whole number of cells.
LEMMA FromTheEdge ==
    ASSUME NEW low \in Int, NEW d \in Nat \ {0}, NEW n \in Int, NEW a \in Int,
           NEW top \in Int, top = low + n * d
    PROVE  ((top + d) - a - 1) \div d = n - ((a - low) \div d)
<1> PICK z \in Int : z = n * d
  OBVIOUS
<1>1. (top + d) - a - 1 = z + d - (a - low) - 1
  OBVIOUS
<1>2. a - low \in Int
  OBVIOUS
<1>3. (n * d + d - (a - low) - 1) \div d = n - ((a - low) \div d)
  BY <1>2, FromTheTop
<1> QED
  BY <1>1, <1>3

\* Where a client draws a strike is where the row of its group is drawn.
LEMMA DrawnAtFacts ==
    ASSUME NEW method, NEW p, IsGridRequest(method, p), NEW table \in Seq(StrikeRecords),
           NEW i \in DOMAIN table
    PROVE  PlaceOfGroup(method, p, GridGroups(method, p, table)[i], DrawnAt(method, p, table)[i])
<1> PICK grid : grid = GridOf(method, p)
  OBVIOUS
<1>1. IsWhole(grid)
  BY GridOfFacts
<1>dx. PICK dx \in Nat \ {0} : dx = grid.xdiv
  BY <1>1 DEF IsWhole, IsGrid
<1>dy. PICK dy \in Nat \ {0} : dy = grid.ydiv
  BY <1>1 DEF IsWhole, IsGrid
<1>x0. PICK x0 \in Int : x0 = grid.xmin
  BY <1>1 DEF IsWhole, IsGrid
<1>y0. PICK y0 \in Int : y0 = grid.ymin
  BY <1>1 DEF IsWhole, IsGrid
<1>n. PICK n \in Int : n = YBinCount(grid)
  BY <1>1 DEF IsWhole
<1>x. PICK x \in Int : x = table[i].x
  BY TableFacts
<1>y. PICK y \in Int : y = table[i].y
  BY TableFacts
<1> PICK g : g = GridGroups(method, p, table)[i]
  OBVIOUS
<1> PICK place : place = DrawnAt(method, p, table)[i]
  OBVIOUS
<1>2. /\ dx \in Nat \ {0} /\ dy \in Nat \ {0} /\ n \in Int
      /\ x0 \in Int /\ y0 \in Int /\ x \in Int /\ y \in Int
  BY <1>dx, <1>dy, <1>n, <1>x0, <1>y0, <1>x, <1>y
<1>3. CASE IsGlobal(method)
  <2>1. g = << RoundEven(2 * x - dx, 2 * dx), RoundEven(2 * y - dy, 2 * dy) >>
    BY <1>3, <1>dx, <1>dy, <1>x, <1>y DEF GridGroups, GlobalCells
  <2>2. place = << GlobalCell(x, dx), -GlobalCell(y, dy) - 1 >>
    BY <1>3, <1>dx, <1>dy, <1>x, <1>y DEF DrawnAt
  <2>3. g = << GlobalCell(x, dx), GlobalCell(y, dy) >>
    BY <1>2, <2>1, RoundedCell
  <2>4. x \div dx \in Int /\ y \div dy \in Int
    BY <1>2, DivBounds
  <2>5. GlobalCell(x, dx) \in Int /\ GlobalCell(y, dy) \in Int
    BY <2>4 DEF GlobalCell
  <2> QED
    BY <1>3, <2>2, <2>3, <2>5 DEF PlaceOfGroup
<1>4. CASE ~IsGlobal(method)
  <2> PICK top : top = grid.ymax
    OBVIOUS
  <2>1. g = << (x - x0) \div dx, (y - y0) \div dy >>
    BY <1>4, <1>dx, <1>dy, <1>x, <1>y, <1>x0, <1>y0 DEF GridGroups, AreaCells
  <2>2. place = << (x - x0) \div dx, ((top + dy) - y - 1) \div dy >>
    BY <1>4, <1>dx, <1>dy, <1>x, <1>y, <1>x0 DEF DrawnAt
  <2>3. top = y0 + n * dy
    BY <1>1, <1>dy, <1>y0, <1>n DEF IsWhole
  <2>t. top \in Int
    BY <1>2, <2>3
  <2>4. ((top + dy) - y - 1) \div dy = n - ((y - y0) \div dy)
    BY <1>2, <2>3, <2>t, FromTheEdge
  <2>5. (x - x0) \div dx \in Int /\ (y - y0) \div dy \in Int
    BY <1>2, DivBounds
  <2>6. place = << g[1], n - g[2] >>
    BY <2>1, <2>2, <2>4
  <2> QED
    BY <1>4, <1>n, <2>1, <2>5, <2>6 DEF PlaceOfGroup
<1> QED
  BY <1>3, <1>4

\* So the rows that are kept are drawn where a client draws the strikes.
LEMMA GridDrawn ==
    ASSUME NEW method, NEW p, IsGridRequest(method, p), NEW interval, IsInterval(interval),
           NEW table \in Seq(StrikeRecords)
    PROVE  BuildGridRows(method, p, interval, GridRows(method, p, interval, table))
             = DrawnCells(Struck(method, p, interval, table), DrawnAt(method, p, table), table,
                          interval.end, p.count_threshold)
<1> PICK match : match = GridMatch(method, p, interval, table)
  OBVIOUS
<1> PICK group : group = GridGroups(method, p, table)
  OBVIOUS
<1> PICK place : place = DrawnAt(method, p, table)
  OBVIOUS
<1> PICK struck : struck = Struck(method, p, interval, table)
  OBVIOUS
<1> PICK n : n = p.count_threshold
  OBVIOUS
<1> PICK rows : rows = GridRows(method, p, interval, table)
  OBVIOUS
<1> PICK grid : grid = GridOf(method, p)
  OBVIOUS
<1> PICK xc \in Int : xc = XBinCount(grid)
  BY GridOfFacts DEF IsWhole
<1> PICK yc \in Int : yc = YBinCount(grid)
  BY GridOfFacts DEF IsWhole
<1> DEFINE inside(g) == IsGlobal(method) \/ (g[1] \in 0 .. xc - 1 /\ g[2] \in 1 .. yc)
           cell(r) == GridCell(method, p, interval, r)
           enough(i) == Cardinality(Members(match, group, group[i])) > n
           row(i) == RowOf(match, group, table, group[i])
           redrawn(i) == RedrawnCell(match, group, place, table, interval.end, i)
<1>1. rows = RowsOf(match, group, table, n)
  BY GridRowsFacts
<1>2. match \subseteq DOMAIN table
  BY DEF GridMatch, InTime
<1>3. ASSUME NEW i \in match
      PROVE  /\ PlaceOfGroup(method, p, group[i], place[i])
             /\ inside(group[i]) <=> i \in struck
             /\ cell(row(i)) = redrawn(i)
  <2>1. PlaceOfGroup(method, p, group[i], place[i])
    BY <1>2, DrawnAtFacts
  <2> PICK a \in Int : a = group[i][1]
    BY <2>1 DEF PlaceOfGroup
  <2> PICK b \in Int : b = group[i][2]
    BY <2>1 DEF PlaceOfGroup
  <2>2. place[i][1] = a /\ place[i][2] = IF IsGlobal(method) THEN -b - 1 ELSE yc - b
    BY <2>1 DEF PlaceOfGroup
  <2>3. i \in struck <=> Seen(method, p, place[i])
    BY DEF Struck
  <2>4. inside(group[i]) <=> Seen(method, p, place[i])
    <3>1. Seen(method, p, place[i]) <=>
             IsGlobal(method) \/ (place[i][1] \in 0 .. xc - 1 /\ place[i][2] \in 0 .. yc - 1)
      BY DEF Seen
    <3>2. CASE IsGlobal(method)
      BY <3>1, <3>2
    <3>4. yc - b \in 0 .. yc - 1 <=> b \in 1 .. yc
      OBVIOUS
    <3>5. ~IsGlobal(method) => place[i][1] = a /\ place[i][2] = yc - b
      BY ONLY <2>2
    <3>3. CASE ~IsGlobal(method)
      <4>1. Seen(method, p, place[i]) <=> a \in 0 .. xc - 1 /\ b \in 1 .. yc
        BY ONLY <3>1, <3>3, <3>4, <3>5, Zenon
      <4> QED
        BY ONLY <3>3, <4>1, a = group[i][1], b = group[i][2], Zenon
    <3> QED
      BY <3>2, <3>3
  <2>5. cell(row(i)) = redrawn(i)
    <3> PICK r : r = row(i)
      OBVIOUS
    <3>1. r.group = group[i]
      BY DEF RowOf
    <3>2. cell(r) = [x |-> r.group[1],
                     y |-> IF IsGlobal(method) THEN -r.group[2] - 1 ELSE yc - r.group[2],
                     count |-> r.count, age |-> r.newest - interval.end]
      BY DEF GridCell
    <3>3. redrawn(i) = [x |-> place[i][1], y |-> place[i][2], count |-> r.count,
                        age |-> r.newest - interval.end]
      BY DEF RedrawnCell
    <3> HIDE DEF cell, redrawn, row
    <3> QED
      BY <2>2, <3>1, <3>2, <3>3
  <2> HIDE DEF cell, row, redrawn, inside
  <2> QED
    BY <2>1, <2>3, <2>4, <2>5
<1>4. Redraws(match, group, struck, place)
  <2>1. struck \subseteq match
    BY DEF Struck
  <2>2. ASSUME NEW i \in match, NEW j \in match
        PROVE  group[i] = group[j] <=> place[i] = place[j]
    <3>1. PlaceOfGroup(method, p, group[i], place[i]) /\ PlaceOfGroup(method, p, group[j], place[j])
      BY <1>3
    <3> PICK a \in Int : a = group[i][1]
      BY <3>1 DEF PlaceOfGroup
    <3> PICK b \in Int : b = group[i][2]
      BY <3>1 DEF PlaceOfGroup
    <3> PICK d \in Int : d = group[j][1]
      BY <3>1 DEF PlaceOfGroup
    <3> PICK e \in Int : e = group[j][2]
      BY <3>1 DEF PlaceOfGroup
    <3>2. group[i] = << a, b >> /\ group[j] = << d, e >>
      BY <3>1 DEF PlaceOfGroup
    <3>3. CASE IsGlobal(method)
      <4>1. place[i] = << a, -b - 1 >> /\ place[j] = << d, -e - 1 >>
        BY <3>1, <3>3 DEF PlaceOfGroup
      <4>2. -b - 1 = -e - 1 <=> b = e
        OBVIOUS
      <4> QED
        BY ONLY <3>2, <4>1, <4>2
    <3>4. CASE ~IsGlobal(method)
      <4>1. place[i] = << a, yc - b >> /\ place[j] = << d, yc - e >>
        BY <3>1, <3>4 DEF PlaceOfGroup
      <4>2. yc - b = yc - e <=> b = e
        BY ONLY SameFromEdge
      <4> QED
        BY ONLY <3>2, <4>1, <4>2
    <3> QED
      BY <3>3, <3>4
  <2>3. \A i, j \in match : group[i] = group[j] /\ i \in struck => j \in struck
    <3> HIDE DEF inside, cell, row, redrawn
    <3>1. \A i \in match : inside(group[i]) <=> i \in struck
      BY <1>3
    <3> QED
      BY <2>1, <3>1
  <2> QED
    BY <2>1, <2>2, <2>3 DEF Redraws
<1>5. BuildGridRows(method, p, interval, rows) = {cell(r) : r \in {s \in rows : inside(s.group)}}
  BY DEF BuildGridRows
<1>6. \A r : r \in rows <=> \E i \in match : enough(i) /\ r = row(i)
  BY <1>1, RowsFacts
<1>7. \A i \in match : row(i).group = group[i]
  BY DEF RowOf
<1>8. {cell(r) : r \in {s \in rows : inside(s.group)}} = {redrawn(i) : i \in {j \in struck : enough(j)}}
  <2>1. struck \subseteq match
    BY DEF Struck
  <2>2. \A i \in match : (inside(row(i).group) <=> i \in struck) /\ cell(row(i)) = redrawn(i)
    <3> HIDE DEF inside, cell, row, redrawn
    <3> QED
      BY <1>3, <1>7
  <2> HIDE DEF inside, cell, row, redrawn, enough
  <2>3. ASSUME NEW r \in rows, inside(r.group)
        PROVE  \E i \in {j \in struck : enough(j)} : cell(r) = redrawn(i)
    <3>1. PICK i \in match : enough(i) /\ r = row(i)
      BY <1>6
    <3> QED
      BY <2>2, <2>3, <3>1
  <2>4. ASSUME NEW i \in struck, enough(i)
        PROVE  \E r \in {s \in rows : inside(s.group)} : cell(r) = redrawn(i)
    <3>1. i \in match /\ row(i) \in rows
      BY <1>6, <2>1, <2>4
    <3> QED
      BY <2>2, <3>1
  <2> QED
    BY <2>3, <2>4
<1>9. {redrawn(i) : i \in {j \in struck : enough(j)}} = DrawnCells(struck, place, table, interval.end, n)
  BY <1>4, RedrawnFacts
<1> QED
  BY <1>5, <1>8, <1>9

\* The table when m strikes are stored.
TableOf(m) == SubSeq(Strikes, 1, m)

\* It is a table of strikes, the first m of them.
LEMMA TableOfFacts ==
    ASSUME NEW m \in 0 .. Len(Strikes)
    PROVE  /\ TableOf(m) \in Seq(StrikeRecords) /\ DOMAIN TableOf(m) = 1 .. m
           /\ \A i \in 1 .. m : TableOf(m)[i] = Strikes[i]
<1>1. Strikes \in Seq(StrikeRecords)
  BY StrikesAssumption DEF StrikesAssumption, StrikeRecords
<1>2. Len(Strikes) \in Nat
  BY <1>1
<1> HIDE DEF StrikeRecords
<1>3. \A i \in 1 .. m : i \in 1 .. Len(Strikes)
  BY <1>2
<1>4. /\ Len(TableOf(m)) = m
      /\ \A i \in 1 .. m : TableOf(m)[i] = Strikes[i]
      /\ TableOf(m) \in Seq(StrikeRecords)
  BY <1>1, <1>2, <1>3, SubSeqProperties DEF TableOf
<1> QED
  BY <1>4

\* What the production of a grid makes of a table.
GridAnswer(method, p, interval, table, bins) ==
    BuildGridResponse(method, p, interval,
        BuildGridRows(method, p, interval, GridRows(method, p, interval, table)), bins)

\* That is the picture of its strikes.
LEMMA PictureOfCall ==
    ASSUME NEW c, IsGridRequest(Method(c), Params(c)),
           asked[c].job[1].grid = GridOf(Method(c), Params(c)),
           NEW interval, IsInterval(interval), NEW m \in 0 .. Len(Strikes), NEW bins,
           NEW v, v = GridAnswer(Method(c), Params(c), interval, TableOf(m), bins)
    PROVE  /\ v.r = Picture(c, v, m) /\ v.t = interval.end
           /\ v.dt = interval.end - interval.start /\ v.h = bins
<1> PICK method : method = Method(c)
  OBVIOUS
<1> PICK p : p = Params(c)
  OBVIOUS
<1> PICK grid : grid = GridOf(method, p)
  OBVIOUS
<1> PICK table : table = TableOf(m)
  OBVIOUS
<1> PICK cells : cells = BuildGridRows(method, p, interval, GridRows(method, p, interval, table))
  OBVIOUS
<1> PICK end \in Int : end = interval.end
  BY DEF IsInterval
<1> PICK start \in Int : start = interval.start
  BY DEF IsInterval
<1>1. v = [r |-> cells, xd |-> grid.xdiv, yd |-> grid.ydiv, x0 |-> grid.xmin,
           y1 |-> grid.ymax + grid.ydiv, xc |-> XBinCount(grid), yc |-> YBinCount(grid),
           t |-> end, dt |-> end - start, h |-> bins]
  BY DEF GridAnswer, BuildGridResponse
<1>2. /\ v.r = cells /\ v.xd = grid.xdiv /\ v.yd = grid.ydiv /\ v.x0 = grid.xmin
      /\ v.y1 = grid.ymax + grid.ydiv /\ v.xc = XBinCount(grid) /\ v.yc = YBinCount(grid)
      /\ v.t = end /\ v.dt = end - start /\ v.h = bins
  BY <1>1
<1>3. v.t - v.dt = start
  BY <1>2
<1>4. /\ table \in Seq(StrikeRecords) /\ DOMAIN table = 1 .. m
      /\ \A i \in 1 .. m : table[i] = Strikes[i]
  BY TableOfFacts
<1> PICK struck : struck = Struck(method, p, interval, table)
  OBVIOUS
<1> PICK place : place = DrawnAt(method, p, table)
  OBVIOUS
<1> PICK n : n = p.count_threshold
  OBVIOUS
<1>5. cells = DrawnCells(struck, place, table, end, n)
  BY <1>4, GridDrawn
<1>6. \A i \in 1 .. m : place[i] = Drawn(c, v, i)
  BY <1>2, <1>4 DEF DrawnAt, Drawn
<1>7. \A i \in 1 .. m : Seen(method, p, place[i]) <=> InPicture(c, v, place[i])
  BY <1>2 DEF Seen, InPicture
<1> DEFINE region(i) == Method(c) = "get_strikes_grid" => Strikes[i].region = Params(c).region
           wanted == {i \in InWindow(c, v.t - v.dt, v.t, m) : region(i) /\ InPicture(c, v, Drawn(c, v, i))}
           at(cell) == {i \in wanted : Drawn(c, v, i) = cell}
<1>8. ASSUME NEW i \in 1 .. m
      PROVE  i \in InWindow(c, v.t - v.dt, v.t, m) /\ region(i)
               <=> i \in GridMatch(method, p, interval, table)
  <2>1. i \in InWindow(c, v.t - v.dt, v.t, m) <=>
           /\ table[i].timestamp >= start /\ table[i].timestamp < end
           /\ IsGlobal(method) \/ (/\ table[i].x \in grid.xmin .. grid.xmax
                                   /\ table[i].y \in grid.ymin .. grid.ymax)
    BY <1>2, <1>3, <1>4 DEF InWindow
  <2>2. CASE IsGlobal(method)
    <3>1. method # "get_strikes_grid"
      BY <2>2 DEF IsGlobal
    <3> QED
      BY <1>4, <2>1, <2>2, <3>1 DEF GridMatch, InTime
  <2>3. CASE ~IsGlobal(method)
    BY <1>4, <2>1, <2>3 DEF GridMatch, InTime, InTheArea, InTheRegion, RegionOf
  <2> QED
    BY <2>2, <2>3
<1>9. wanted = struck
  <2>1. GridMatch(method, p, interval, table) \subseteq 1 .. m
    BY <1>4 DEF GridMatch, InTime
  <2>2. InWindow(c, v.t - v.dt, v.t, m) \subseteq 1 .. m
    BY DEF InWindow
  <2>3. struck = {i \in GridMatch(method, p, interval, table) : Seen(method, p, place[i])}
    BY DEF Struck
  <2> HIDE DEF region
  <2> QED
    BY <1>6, <1>7, <1>8, <2>1, <2>2, <2>3
<1>10. struck \subseteq 1 .. m
  BY <1>4 DEF Struck, GridMatch, InTime
<1>11. Picture(c, v, m) =
          {[x |-> cell[1], y |-> cell[2], count |-> Cardinality(at(cell)),
            age |-> Max({Strikes[i].timestamp : i \in at(cell)}) - v.t] :
              cell \in {d \in {Drawn(c, v, i) : i \in wanted} : Cardinality(at(d)) > Params(c).count_threshold}}
  BY DEF Picture
<1> HIDE DEF wanted
<1>12. \A d : at(d) = Members(struck, place, d)
  BY <1>6, <1>9, <1>10 DEF Members
<1>13. {Drawn(c, v, i) : i \in wanted} = {place[i] : i \in struck}
  BY <1>6, <1>9, <1>10
<1>14. \A d : Max({Strikes[i].timestamp : i \in at(d)}) - v.t
                = Max({table[i].timestamp : i \in Members(struck, place, d)}) - end
  <2> TAKE d
  <2> HIDE DEF at
  <2>1. at(d) \subseteq 1 .. m
    BY <1>10, <1>12 DEF Members
  <2>2. {Strikes[i].timestamp : i \in at(d)} = {table[i].timestamp : i \in at(d)}
    BY <1>4, <2>1
  <2> QED
    BY <1>2, <1>12, <2>2
<1>15. Picture(c, v, m) = DrawnCells(struck, place, table, end, n)
  <2> HIDE DEF at
  <2>1. \A d : [x |-> d[1], y |-> d[2], count |-> Cardinality(at(d)),
                age |-> Max({Strikes[i].timestamp : i \in at(d)}) - v.t]
                  = DrawnCell(struck, place, table, end, d)
    BY <1>12, <1>14 DEF DrawnCell
  <2>2. \A d : Cardinality(at(d)) > Params(c).count_threshold
                  <=> Cardinality(Members(struck, place, d)) > n
    BY <1>12
  <2> DEFINE places == {place[i] : i \in struck}
             many(d) == Cardinality(at(d)) > Params(c).count_threshold
             more(d) == Cardinality(Members(struck, place, d)) > n
             one(d) == [x |-> d[1], y |-> d[2], count |-> Cardinality(at(d)),
                        age |-> Max({Strikes[i].timestamp : i \in at(d)}) - v.t]
  <2>3. Picture(c, v, m) = {one(d) : d \in {e \in places : many(e)}}
    BY <1>11, <1>13
  <2>4. DrawnCells(struck, place, table, end, n)
           = {DrawnCell(struck, place, table, end, d) : d \in {e \in places : more(e)}}
    BY DEF DrawnCells
  <2>5. \A d : one(d) = DrawnCell(struck, place, table, end, d) /\ (many(d) <=> more(d))
    BY <2>1, <2>2
  <2> HIDE DEF places, many, more, one
  <2> QED
    BY <2>3, <2>4, <2>5
<1> QED
  BY <1>2, <1>5, <1>15
-----------------------------------------------------------------------------
(* Histograms: what the bins hold *)

\* The bins that are written at the place before i: the one of its minutes, and
\* at the last place those at both ends.
LEMMA BinPlaces ==
    ASSUME NEW bins \in Nat \ {0}, NEW l \in 0 .. bins,
           NEW z, z = IF l = bins THEN bins - 1 ELSE bins - 1 - l
    PROVE  /\ \A i \in 1 .. bins - 1 : z = i - 1 <=> l = bins - i
           /\ z = bins - 1 <=> l \in {0, bins}
OBVIOUS

\* The bin of a strike k bins of five minutes ago: counted from the first one;
\* what is in the rest before that wraps around to the last.
LEMMA BinIndex ==
    ASSUME NEW bins \in Nat \ {0}, NEW k \in 0 .. bins
    PROVE  (-k + bins - 1) % bins = IF k = bins THEN bins - 1 ELSE bins - 1 - k
<1>1. CASE k = bins
  <2>1. -k + bins - 1 = -1
    BY <1>1
  <2>2. (-1) % bins = bins - 1
    OBVIOUS
  <2> QED
    BY <1>1, <2>1, <2>2
<1>2. CASE k # bins
  <2> PICK y \in Int : y = bins - 1 - k
    OBVIOUS
  <2>1. -k + bins - 1 = y /\ 0 <= y /\ y < bins
    BY <1>2
  <2>2. y % bins = y
    BY <2>1
  <2> QED
    BY <1>2, <2>1, <2>2
<1> QED
  BY <1>1, <1>2

\* How many bins ago a strike of the window was.
LEMMA BinsAgo ==
    ASSUME NEW minutes \in Nat, NEW bins \in Int, bins = minutes \div 5,
           NEW a \in Int, 0 < a, a <= 60 * minutes
    PROVE  a \div 300 \in 0 .. bins /\ bins \in Nat
<1> PICK k \in Int : k = a \div 300 /\ k * 300 <= a /\ a < k * 300 + 300
  BY DivBounds
<1>1. bins * 5 <= minutes /\ minutes < bins * 5 + 5
  OBVIOUS
<1>2. k <= bins
  BY <1>1
<1>3. k >= 0
  OBVIOUS
<1> QED
  BY <1>1, <1>2, <1>3

\* A strike of a window is less than its length old.
LEMMA AgeInWindow ==
    ASSUME NEW start \in Int, NEW end \in Int, NEW m \in Nat, end - start = 60 * m,
           NEW t \in Int, start <= t, t < end
    PROVE  0 < end - t /\ end - t <= 60 * m
OBVIOUS

\* The strikes of a histogram, and those of one bin of it.
HistogramMatch(method, p, interval, table) ==
    InTime(interval, table)
      \cap (IF IsGlobal(method) THEN DOMAIN table ELSE InTheArea(GridOf(method, p), table))
BinAt(end, timestamp) == (end - timestamp) \div 300
BinStruck(match, table, end, k) == {s \in match : BinAt(end, table[s].timestamp) = k}

\* The strikes of a bin are the same in every table that has the strikes.
LEMMA SameBins ==
    ASSUME NEW match, NEW table, NEW other, \A s \in match : table[s] = other[s],
           NEW end, NEW k
    PROVE  BinStruck(match, table, end, k) = BinStruck(match, other, end, k)
<1>1. \A s \in match : table[s].timestamp = other[s].timestamp
  OBVIOUS
<1>2. \A s \in match : BinAt(end, table[s].timestamp) = BinAt(end, other[s].timestamp)
  BY <1>1, Zenon
<1>3. \A s : s \in BinStruck(match, table, end, k) <=> s \in BinStruck(match, other, end, k)
  BY ONLY <1>2, Zenon DEF BinStruck
<1> HIDE DEF BinStruck
<1> QED
  BY ONLY <1>3

\* The query of a histogram finds the rows of these strikes, by bins.
LEMMA HistogramRowsFacts ==
    ASSUME NEW method, NEW p, IsGridRequest(method, p), NEW interval, IsInterval(interval),
           NEW table \in Seq(StrikeRecords)
    PROVE  HistogramRows(method, p, interval, table)
             = RowsOf(HistogramMatch(method, p, interval, table), BinsOf(interval, 5, table), table, 0)
<1> PICK grid : grid = GridOf(method, p)
  OBVIOUS
<1> PICK area : area = IF IsGlobal(method) THEN << >> ELSE << grid >>
  OBVIOUS
<1> PICK envelope : envelope = IF IsGlobal(method) THEN << >> ELSE << Envelope4(grid) >>
  OBVIOUS
<1> PICK size \in Int : size = 5
  OBVIOUS
<1> PICK q : q = HistogramQuery(interval, size, envelope)
  OBVIOUS
<1>1. HistogramRows(method, p, interval, table) = Run(ToPostgres(q), Parameters(q), table)
  BY DEF HistogramRows, HISTOGRAM_BIN_SIZE
<1>2. IsGrid(grid)
  BY GridOfFacts DEF IsWhole
<1>3. CASE IsGlobal(method)
  <2>1. envelope = << >> /\ area = << >>
    BY <1>3
  <2>2. Run(ToPostgres(q), Parameters(q), table)
          = RowsOf(InTime(interval, table)
                     \cap (IF area = << >> THEN DOMAIN table ELSE InTheArea(area[1], table)),
                   BinsOf(interval, size, table), table, 0)
    BY <2>1, BinRows
  <2> QED
    BY <1>1, <1>3, <2>1, <2>2 DEF HistogramMatch
<1>4. CASE ~IsGlobal(method)
  <2>1. envelope = << Envelope4(grid) >> /\ area # << >> /\ area[1] = grid
    BY <1>4
  <2>2. area # << >> /\ IsGrid(area[1]) /\ envelope = << Envelope4(area[1]) >>
    BY <1>2, <2>1
  <2>3. Run(ToPostgres(q), Parameters(q), table)
          = RowsOf(InTime(interval, table)
                     \cap (IF area = << >> THEN DOMAIN table ELSE InTheArea(area[1], table)),
                   BinsOf(interval, size, table), table, 0)
    BY <2>2, BinRows
  <2> QED
    BY <1>1, <1>4, <2>1, <2>3 DEF HistogramMatch
<1> QED
  BY <1>3, <1>4

\* What a histogram has to hold.
CountsBins(h, bins, match, table, end) ==
    /\ Len(h) = bins
    /\ \A i \in 1 .. bins - 1 : h[i] = Cardinality(BinStruck(match, table, end, bins - i))
    /\ \/ h[bins] = Cardinality(BinStruck(match, table, end, 0))
       \/ /\ Cardinality(BinStruck(match, table, end, 0)) = 0
          /\ h[bins] = Cardinality(BinStruck(match, table, end, bins))

\* Query.BuildHistogram puts every row into the bin of its minutes: the row of what
\* is left beyond the last whole bin wraps around to the newest, unless that has one
\* of its own.
LEMMA HistogramDrawn ==
    ASSUME NEW method, NEW p, IsGridRequest(method, p), NEW interval, IsInterval(interval),
           NEW table \in Seq(StrikeRecords), NEW minutes \in Nat, minutes = p.minute_length,
           interval.end - interval.start = 60 * minutes, NEW bins \in Nat \ {0},
           bins = minutes \div 5
    PROVE  CountsBins(BuildHistogram(minutes, HistogramRows(method, p, interval, table)), bins,
                      HistogramMatch(method, p, interval, table), table, interval.end)
<1> PICK match : match = HistogramMatch(method, p, interval, table)
  OBVIOUS
<1> PICK group : group = BinsOf(interval, 5, table)
  OBVIOUS
<1> PICK rows : rows = HistogramRows(method, p, interval, table)
  OBVIOUS
<1> PICK end \in Int : end = interval.end
  BY DEF IsInterval
<1> DEFINE n == minutes \div HISTOGRAM_BIN_SIZE
           ago(i) == BinAt(end, table[i].timestamp)
           bin(k) == BinStruck(match, table, end, k)
           rowAt(k) == RowOf(match, group, table, << -k >>)
           at(row) == (row.group[1] + n - 1) % n
           written(i) == {row \in rows : at(row) = i - 1}
           last(S) == CHOOSE row \in S : \A r \in S : r.group[1] <= row.group[1]
<1> PICK h : h = BuildHistogram(minutes, rows)
  OBVIOUS
<1>1. match \subseteq DOMAIN table /\ IsFiniteSet(match)
  <2>1. match \subseteq DOMAIN table
    BY DEF HistogramMatch, InTime
  <2> QED
    BY <2>1, TableFacts, FS_Subset
<1>2. ASSUME NEW i \in match
      PROVE  group[i] = << -ago(i) >> /\ ago(i) \in 0 .. bins
  <2>1. i \in DOMAIN table
    BY <1>1
  <2> PICK ts \in Int : ts = table[i].timestamp
    BY <2>1, TableFacts
  <2>2. interval.start <= ts /\ ts < interval.end
    BY DEF HistogramMatch, InTime
  <2> PICK start \in Int : start = interval.start
    BY DEF IsInterval
  <2>3. end - start = 60 * minutes /\ start <= ts /\ ts < end
    BY <2>2
  <2>a. end - ts \in Int
    OBVIOUS
  <2> PICK a \in Int : a = end - ts
    BY <2>a
  <2>4. 0 < a /\ a <= 60 * minutes
    <3>2. 0 < end - ts /\ end - ts <= 60 * minutes
      BY <2>3, AgeInWindow
    <3> QED
      BY <3>2
  <2>b. bins \in Int
    OBVIOUS
  <2>c. a \div 300 \in 0 .. bins
    BY ONLY <2>4, <2>b, bins = minutes \div 5, BinsAgo
  <2> PICK past : past = a \div 300
    OBVIOUS
  <2>d. BinAt(end, ts) = past
    BY DEF BinAt
  <2>5. ago(i) = past
    BY ONLY <2>d, ts = table[i].timestamp
  <2>6. Toward0(Toward0(a, 60), 5) = past
    <3>1. a \in Nat
      BY <2>4
    <3> QED
      BY <3>1, BinOfStrike
  <2>7. group[i] = << -Toward0(Toward0(a, 60), 5) >>
    BY <2>1 DEF BinsOf
  <2>8. group[i] = << -past >>
    BY ONLY <2>6, <2>7, Zenon
  <2>9. past \in 0 .. bins
    BY ONLY <2>c, past = a \div 300
  <2> HIDE DEF ago
  <2> QED
    BY ONLY <2>5, <2>8, <2>9
<1>3. rows = RowsOf(match, group, table, 0)
  BY HistogramRowsFacts
<1> HIDE DEF ago
<1>4. ASSUME NEW k \in 0 .. bins
      PROVE  /\ Members(match, group, << -k >>) = bin(k)
             /\ rowAt(k).group = << -k >> /\ rowAt(k).count = Cardinality(bin(k))
  <2>1. \A i \in match : group[i] = << -k >> <=> ago(i) = k
    <3> TAKE i \in match
    <3> PICK l \in 0 .. bins : l = ago(i)
      BY <1>2
    <3>1. group[i] = << -l >>
      BY <1>2
    <3>2. << -l >> = << -k >> <=> -l = -k
      OBVIOUS
    <3> QED
      BY <3>1, <3>2
  <2>2. bin(k) = {i \in match : ago(i) = k}
    BY DEF BinStruck, ago
  <2>3. Members(match, group, << -k >>) = bin(k)
    BY <2>1, <2>2 DEF Members
  <2> HIDE DEF bin
  <2> QED
    BY <2>3 DEF RowOf
<1>5. \A k \in 0 .. bins : IsFiniteSet(bin(k)) /\ (Cardinality(bin(k)) > 0 <=> bin(k) # {})
  <2> TAKE k \in 0 .. bins
  <2>1. bin(k) \subseteq match
    BY DEF BinStruck, BinAt
  <2> HIDE DEF bin
  <2>2. IsFiniteSet(bin(k))
    BY <1>1, <2>1, FS_Subset
  <2>3. Cardinality(bin(k)) \in Nat /\ (Cardinality(bin(k)) = 0 <=> bin(k) = {})
    BY <2>2, FS_CardinalityType, FS_EmptySet
  <2> QED
    BY <2>2, <2>3
<1>6. \A r : r \in rows <=> \E k \in 0 .. bins : bin(k) # {} /\ r = rowAt(k)
  <2> TAKE r
  <2>1. r \in rows <=> \E i \in match : /\ Cardinality(Members(match, group, group[i])) > 0
                                        /\ r = RowOf(match, group, table, group[i])
    BY <1>3, RowsFacts
  <2>2. ASSUME NEW i \in match, r = RowOf(match, group, table, group[i])
        PROVE  \E k \in 0 .. bins : bin(k) # {} /\ r = rowAt(k)
    <3>1. i \in bin(ago(i))
      BY DEF BinStruck, ago
    <3> HIDE DEF bin
    <3> QED
      BY <1>2, <2>2, <3>1
  <2>3. ASSUME NEW k \in 0 .. bins, bin(k) # {}, r = rowAt(k)
        PROVE  \E i \in match : /\ Cardinality(Members(match, group, group[i])) > 0
                                /\ r = RowOf(match, group, table, group[i])
    <3>1. PICK i \in match : ago(i) = k
      BY <2>3 DEF BinStruck, ago
    <3>2. group[i] = << -k >>
      BY <1>2, <3>1
    <3> HIDE DEF bin
    <3>3. Cardinality(Members(match, group, group[i])) > 0
      BY <1>4, <1>5, <2>3, <3>2
    <3> QED
      BY <2>3, <3>2, <3>3
  <2> HIDE DEF bin, rowAt
  <2> QED
    BY <2>1, <2>2, <2>3
<1>7. ASSUME NEW k \in 0 .. bins
      PROVE  at(rowAt(k)) = IF k = bins THEN bins - 1 ELSE bins - 1 - k
  <2>1. rowAt(k).group[1] = -k
    BY <1>4
  <2> HIDE DEF rowAt
  <2>2. n = bins
    BY DEF HISTOGRAM_BIN_SIZE
  <2> HIDE DEF n
  <2>3. at(rowAt(k)) = (-k + bins - 1) % bins
    BY ONLY <2>1, <2>2
  <2> HIDE DEF at
  <2> QED
    BY <2>3, BinIndex
<1>8. h = [i \in 1 .. n |-> IF written(i) = {} THEN 0 ELSE last(written(i)).count]
  BY DEF BuildHistogram
<1>n. n = bins
  BY DEF HISTOGRAM_BIN_SIZE
<1> HIDE DEF bin, rowAt, at, last, n, written
<1>9. /\ Len(h) = bins
      /\ \A i \in 1 .. bins : h[i] = IF written(i) = {} THEN 0 ELSE last(written(i)).count
  BY <1>8, <1>n
\* A bin other than the last has the row of its own minutes alone.
<1>10. ASSUME NEW i \in 1 .. bins - 1 PROVE h[i] = Cardinality(bin(bins - i))
  <2> PICK k \in 0 .. bins : k = bins - i
    OBVIOUS
  <2>1. ASSUME NEW l \in 0 .. bins PROVE at(rowAt(l)) = i - 1 <=> l = k
    <3> PICK z : z = at(rowAt(l))
      OBVIOUS
    <3>1. z = IF l = bins THEN bins - 1 ELSE bins - 1 - l
      BY <1>7
    <3> QED
      BY ONLY <3>1, z = at(rowAt(l)), k = bins - i, BinPlaces
  <2>2. written(i) = IF bin(k) = {} THEN {} ELSE {rowAt(k)}
    <3>1. \A r : r \in written(i) <=> r \in rows /\ at(r) = i - 1
      BY ONLY TRUE DEF written
    <3>2. \A r : r \in written(i) <=> bin(k) # {} /\ r = rowAt(k)
      BY ONLY <1>6, <2>1, <3>1, Zenon
    <3> QED
      BY ONLY <3>2
  <2>3. h[i] = IF written(i) = {} THEN 0 ELSE last(written(i)).count
    <3>1. i \in 1 .. bins
      OBVIOUS
    <3> QED
      BY <1>9, <3>1
  <2>4. last({rowAt(k)}) = rowAt(k)
    BY DEF last
  <2>5. bin(k) = {} => Cardinality(bin(k)) = 0
    BY FS_EmptySet
  <2> QED
    BY <1>4, <2>2, <2>3, <2>4, <2>5
\* The last one has that of the first if it has none.
<1>11. \/ h[bins] = Cardinality(bin(0))
       \/ Cardinality(bin(0)) = 0 /\ h[bins] = Cardinality(bin(bins))
  <2>0. 0 \in 0 .. bins /\ bins \in 0 .. bins /\ bins # 0
    OBVIOUS
  <2>1. ASSUME NEW l \in 0 .. bins PROVE at(rowAt(l)) = bins - 1 <=> l \in {0, bins}
    <3> PICK z : z = at(rowAt(l))
      OBVIOUS
    <3>1. z = IF l = bins THEN bins - 1 ELSE bins - 1 - l
      BY <1>7
    <3> QED
      BY ONLY <3>1, z = at(rowAt(l)), BinPlaces
  <2>2. \A r : r \in written(bins) <=> \E l \in {0, bins} : bin(l) # {} /\ r = rowAt(l)
    BY <1>6, <2>0, <2>1 DEF written
  <2>3. h[bins] = IF written(bins) = {} THEN 0 ELSE last(written(bins)).count
    BY <1>9
  <2>4. \A l \in 0 .. bins : bin(l) = {} => Cardinality(bin(l)) = 0
    BY FS_EmptySet
  <2>5. rowAt(0).group[1] = 0 /\ rowAt(bins).group[1] = -bins
    <3>z. PICK z \in 0 .. bins : z = 0
      BY <2>0
    <3>0. z \in Int /\ 0 <= z /\ z <= 0
      BY <3>z
    <3>1. rowAt(z).group = << -z >> /\ rowAt(bins).group = << -bins >>
      BY <1>4, <2>0, <3>z
    <3>2. -z = 0
      BY <3>0, MinusZero
    <3> QED
      BY <3>z, <3>1, <3>2
  <2>6. rowAt(0).count = Cardinality(bin(0)) /\ rowAt(bins).count = Cardinality(bin(bins))
    BY <1>4, <2>0
  <2>7. CASE bin(0) = {} /\ bin(bins) = {}
    BY <2>0, <2>2, <2>3, <2>4, <2>7
  <2>8. CASE bin(0) = {} /\ bin(bins) # {}
    <3>1. written(bins) = {rowAt(bins)}
      BY <2>2, <2>8
    <3>2. last({rowAt(bins)}) = rowAt(bins)
      BY DEF last
    <3> QED
      BY <2>0, <2>3, <2>4, <2>6, <2>8, <3>1, <3>2
  <2>9. CASE bin(0) # {}
    <3>1. rowAt(0) \in written(bins)
      BY <2>2, <2>9
    <3>2. \A r \in written(bins) : r = rowAt(0) \/ r = rowAt(bins)
      BY <2>2
    <3>6. rowAt(bins).group[1] <= 0 /\ ~(0 <= rowAt(bins).group[1])
      BY ONLY <2>5
    <3>3. \A r \in written(bins) : r.group[1] <= rowAt(0).group[1]
      BY ONLY <2>5, <3>2, <3>6
    <3>4. \A r \in written(bins) : rowAt(0).group[1] <= r.group[1] => r = rowAt(0)
      BY ONLY <2>5, <3>2, <3>6
    <3>5. last(written(bins)) = rowAt(0)
      BY <3>1, <3>3, <3>4 DEF last
    <3> QED
      BY <2>3, <2>6, <3>1, <3>5
  <2> QED
    BY <2>7, <2>8, <2>9
<1> QED
  BY <1>9, <1>10, <1>11 DEF CountsBins, bin
-----------------------------------------------------------------------------
(* What grids and histograms have found, and when *)

\* The table only grows.
Stored == imported \in AtFirst .. Len(Strikes)

\* The histogram h is of the window and the area of c, and was begun less than
\* its time to live before the production of c.
Feeds(h, c) ==
    /\ h \in Calls /\ hist[h].at # "none" /\ HistKeyOf(h) = HistKeyOf(c)
    /\ hist[h].begun <= prod[c].begun /\ prod[c].begun < hist[h].begun + HISTOGRAM_TTL

\* A production has a histogram if it wants one.
HasHist(c) ==
    IF WantsHistogram(Params(c)) THEN \E h \in Calls : prod[c].hist = << h >> /\ Feeds(h, c)
    ELSE prod[c].hist = << >>

BinsShown(c) == IF prod[c].hist = << >> THEN << >> ELSE hist[prod[c].hist[1]].bins
WindowOf(c) == TimeInterval(Params(c), prod[c].begun)
HistWindowOf(h) == TimeInterval(Params(h), hist[h].begun)

\* The rows, the answer and the bins from a table of m strikes.
RowsAt(c, m) == GridRows(Method(c), Params(c), WindowOf(c), TableOf(m))
AnswerAt(c, m) == GridAnswer(Method(c), Params(c), WindowOf(c), TableOf(m), BinsShown(c))
BinsAt(h, m) ==
    BuildHistogram(Params(h).minute_length,
        HistogramRows(Method(h), Params(h), HistWindowOf(h), TableOf(m)))

RowsFound(c, r) == \E m \in AtFirst .. imported : r = RowsAt(c, m)
AnswerFound(c, v) == \E m \in AtFirst .. imported : v = AnswerAt(c, m)
BinsFound(h, bins) == \E m \in AtFirst .. imported : bins = BinsAt(h, m)

\* What the production of a grid has found, by when.
GridFound(c) ==
    /\ prod[c].at = "running" =>
          /\ "rows" \in DOMAIN prod[c] /\ "anchor" \notin DOMAIN prod[c] /\ HasHist(c)
          /\ prod[c].rows # << >> => RowsFound(c, prod[c].rows[1])
    /\ prod[c].at = "done" =>
          /\ HasHist(c) /\ AnswerFound(c, prod[c].value)
          /\ prod[c].hist # << >> => hist[prod[c].hist[1]].at = "done"

\* A histogram is begun by a call that wants one, and holds what it found.
HistFound(h) ==
    hist[h].at # "none" =>
        /\ Served(h) /\ Method(h) \in GridMethods /\ WantsHistogram(Params(h))
        /\ hist[h].at \in {"running", "done", "failed"}
        /\ "begun" \in DOMAIN hist[h] /\ hist[h].begun \in Int /\ hist[h].begun <= now
        /\ hist[h].at = "done" => BinsFound(h, hist[h].bins)

GridsFound == \A c \in Calls : Method(c) \in GridMethods => GridFound(c)
HistsFound == \A h \in Calls : HistFound(h)
HistsNew ==
    /\ \A c \in Calls : call[c].at = "idle" => hist[c].at = "none"
    /\ \A h \in histcached : hist[h].at # "none"

GridInv == Stored /\ HistsNew /\ HistsFound /\ GridsFound

\* The larger of two numbers is at least the first, and the second if that is.
LEMMA LargerFacts ==
    ASSUME NEW a \in Int, NEW b \in Int
    PROVE  /\ Larger(a, b) \in Int /\ a <= Larger(a, b)
           /\ a <= b => Larger(a, b) = b
BY DEF Larger

\* The cell size of a served grid is one of those there are, and is not changed.
LEMMA GridLength ==
    ASSUME NEW method \in GridMethods, NEW request, NEW given, NEW n \in Int,
           n = given.grid_base_length, ForbiddenReason(method, request, given) = "none"
    PROVE  n \in VALID_GRID_BASE_LENGTHS /\ Larger(MinGridBaseLength(method), n) = n
<1> PICK least \in Int : least = MinGridBaseLength(method)
  BY DEF MinGridBaseLength, MIN_GRID_BASE_LENGTH, GLOBAL_MIN_GRID_BASE_LENGTH
<1>1. method \notin ClusterMethods
  BY DEF GridMethods, ClusterMethods
<1>2. ~(n < least) /\ n \in VALID_GRID_BASE_LENGTHS
  <2> PICK reason : reason = ForbiddenClientReason(request)
    OBVIOUS
  <2>1. "none" = IF reason # "none" \/ method \in ClusterMethods THEN reason
                 ELSE IF n < least THEN "too fine"
                 ELSE IF n \notin VALID_GRID_BASE_LENGTHS THEN "no such grid" ELSE "none"
    BY DEF ForbiddenReason
  <2>2. reason = "none"
    BY <1>1, <2>1
  <2>3. "too fine" # "none" /\ "no such grid" # "none"
    OBVIOUS
  <2> QED
    BY <1>1, <2>1, <2>2, <2>3, Zenon
<1>3. least <= n
  BY <1>2
<1> QED
  BY <1>2, <1>3, LargerFacts

\* The parameters of a served grid are those of a grid request.
LEMMA GridParams ==
    ASSUME AskedOf, Planned, NEW c \in Calls, Served(c), Method(c) \in GridMethods
    PROVE  IsGridRequest(Method(c), Params(c))
<1> PICK given : given = GivenBy(c)
  OBVIOUS
<1> PICK method : method = Method(c)
  OBVIOUS
<1> PICK p : p = Params(c)
  OBVIOUS
<1>1. /\ p = Clamped(method, given) /\ \A name \in DOMAIN given : given[name] \in Int
      /\ given = Coerced(Asked(c).call) /\ Asked(c).call.method = method
      /\ Reason(c) = ForbiddenReason(method, RequestOf(c), given)
  BY GivenInts
<1>2. DOMAIN given = ParametersOf(method)
  BY <1>1, ParametersOfMethods DEF DataMethods
<1>3. /\ {"minute_length", "minute_offset", "grid_base_length", "count_threshold"} \subseteq DOMAIN given
      /\ method = "get_strikes_grid" => "region" \in DOMAIN given
      /\ method = "get_local_strikes_grid" => {"x", "y", "data_area"} \subseteq DOMAIN given
  BY <1>2 DEF ParametersOf, GridMethods
<1> PICK l \in Int : l = given.minute_length
  BY <1>1, <1>3
<1> PICK o \in Int : o = given.minute_offset
  BY <1>1, <1>3
<1> PICK n \in Int : n = given.grid_base_length
  BY <1>1, <1>3
<1> PICK t \in Int : t = given.count_threshold
  BY <1>1, <1>3
<1>4. /\ p.minute_length = MinuteLength(l) /\ p.minute_offset = MinuteOffset(l, o)
      /\ p.grid_base_length = Larger(MinGridBaseLength(method), n)
      /\ p.count_threshold = Larger(0, t)
  BY <1>1, <1>3 DEF Clamped
<1>5. /\ p.minute_length \in WindowLengths
      /\ p.minute_offset \in Int /\ p.minute_offset <= 0
  <2>1. MinuteLength(l) \in WindowLengths /\ MinuteOffset(l, o) \in Int /\ MinuteOffset(l, o) <= 0
    BY ForcedRanges, Zenon
  <2> QED
    BY <1>4, <2>1, Zenon
<1>6. p.count_threshold \in Nat
  <2>1. 0 \in Int /\ Larger(0, t) \in Int /\ 0 <= Larger(0, t)
    BY DEF Larger
  <2> QED
    BY <1>4, <2>1
<1>7. p.grid_base_length \in VALID_GRID_BASE_LENGTHS
  <2>1. ForbiddenReason(method, RequestOf(c), given) = "none"
    BY <1>1 DEF Served
  <2>2. n \in VALID_GRID_BASE_LENGTHS /\ Larger(MinGridBaseLength(method), n) = n
    BY <2>1, GridLength
  <2> QED
    BY <1>4, <2>2
<1>8. ASSUME method = "get_strikes_grid" PROVE p.region \in 1 .. MAX_REGION
  <2> PICK r \in Int : r = given.region
    BY <1>1, <1>3, <1>8
  <2>1. p.region = ForceRange(1, r, MAX_REGION)
    BY <1>1, <1>3, <1>8 DEF Clamped
  <2>2. ForceRange(1, r, 7) \in 1 .. 7
    BY DEF ForceRange
  <2> QED
    BY <2>1, <2>2 DEF MAX_REGION
<1>9. ASSUME method = "get_local_strikes_grid"
      PROVE  p.x \in Int /\ p.y \in Int /\ p.data_area \in Int
  <2> PICK a \in Int : a = given.data_area
    BY <1>1, <1>3, <1>9
  <2>1. p.x = given.x /\ p.y = given.y /\ p.data_area = Larger(5, a)
    BY <1>1, <1>3, <1>9 DEF Clamped
  <2>2. Larger(5, a) \in Int
    BY LargerFacts
  <2> QED
    BY <1>1, <1>3, <1>9, <2>1, <2>2
<1> QED
  BY <1>5, <1>6, <1>7, <1>8, <1>9 DEF IsGridRequest

\* What is kept of a served grid beside its parameters.
LEMMA GridJob ==
    ASSUME AskedOf, NEW c \in Calls, Served(c)
    PROVE  /\ KeyOf(c).method = Method(c) /\ KeyOf(c).params = Params(c)
           /\ Method(c) \in GridMethods =>
                 /\ asked[c].job[1].grid = GridOf(Method(c), Params(c))
                 /\ HistKeyOf(c) = HistogramKey(Method(c), Params(c))
<1>1. /\ asked[c].job = << JobOf(Asked(c), RequestOf(c)) >>
      /\ Method(c) = Asked(c).call.method
  BY AskingFacts DEF Served
<1> PICK p : p = Params(c)
  OBVIOUS
<1> PICK method : method = Method(c)
  OBVIOUS
<1>2. /\ KeyOf(c) = CacheKey(method, p)
      /\ method \in GridMethods /\ Reason(c) = "none" =>
            /\ asked[c].job[1].grid = GridOf(method, p)
            /\ HistKeyOf(c) = HistogramKey(method, p)
  BY <1>1 DEF JobOf, KeyOf, Params, Reason, HistKeyOf
<1>3. KeyOf(c).method = method /\ KeyOf(c).params = p
  BY <1>2 DEF CacheKey
<1> QED
  BY <1>2, <1>3 DEF Served

\* The window of a grid: its length, up to its beginning but for its offset.
LEMMA GridWindow ==
    ASSUME NEW p, p.minute_length \in WindowLengths, p.minute_offset \in Int,
           NEW b \in Int, NEW interval, interval = TimeInterval(p, b)
    PROVE  /\ IsInterval(interval)
           /\ interval.end = b + 60 * p.minute_offset
           /\ interval.end - interval.start = 60 * p.minute_length
<1> PICK l : l = p.minute_length
  OBVIOUS
<1>0. l \in Int
  <2>1. l \in WindowLengths
    OBVIOUS
  <2> QED
    BY <2>1 DEF WindowLengths, MAX_MINUTES_PER_DAY
<1> PICK o \in Int : o = p.minute_offset
  OBVIOUS
<1>1. interval = [start |-> (b + 60 * o) - 60 * l, end |-> b + 60 * o]
  BY DEF TimeInterval
<1>2. interval.end = b + 60 * o /\ interval.start = (b + 60 * o) - 60 * l
  BY <1>1
<1>3. b + 60 * o \in Int /\ (b + 60 * o) - 60 * l \in Int
      /\ (b + 60 * o) - ((b + 60 * o) - 60 * l) = 60 * l
  BY <1>0
<1> QED
  BY <1>2, <1>3 DEF IsInterval

\* What a step may do to the histogram of a call: begin it for the call, which
\* no longer asks, find its bins in the table, or fail.
HistGoes(h) ==
    \/ hist'[h] = hist[h]
    \/ /\ call[h].at = "idle" /\ call'[h].at # "idle"
       /\ Served(h) /\ Method(h) \in GridMethods /\ WantsHistogram(Params(h))
       /\ hist'[h] = [at |-> "running", begun |-> now]
    \/ /\ hist[h].at = "running"
       /\ \/ hist'[h] = [at |-> "done", begun |-> hist[h].begun, bins |-> BinsAt(h, imported)]
          \/ hist'[h] = [at |-> "failed", begun |-> hist[h].begun]

\* A histogram stays that of its second, and stays as it is when it is done.
HistKept(h) ==
    hist[h].at # "none" =>
        /\ hist'[h].at # "none" /\ hist'[h].begun = hist[h].begun
        /\ hist[h].at = "done" => hist'[h] = hist[h]

\* The table and the clock go on.
TableGrows == imported' \in imported .. Len(Strikes)

\* What is known of a histogram stays true when it goes on.
LEMMA HistGoesOn ==
    ASSUME HistsNew, NEW h \in Calls, HistFound(h), HistGoes(h), Stored, Clocks, Onwards,
           UNCHANGED asked, TableGrows
    PROVE  HistKept(h) /\ HistFound(h)'
<1>1. /\ Served(h)' = Served(h) /\ Method(h)' = Method(h) /\ Params(h)' = Params(h)
  BY SameAsked DEF Params
<1>2. now \in Int /\ now' \in Int /\ now <= now'
  BY DEF Clocks, Onwards
<1>3. imported \in AtFirst .. imported' /\ imported \in Int /\ imported' \in Int /\ imported <= imported'
  BY BoundsAssumption DEF Stored, TableGrows, BoundsAssumption
<1>4. CASE hist'[h] = hist[h]
  <2>1. \A m : BinsAt(h, m)' = BinsAt(h, m)
    BY <1>1, <1>4 DEF BinsAt, HistWindowOf, TableOf
  <2>2. hist[h].at = "done" => BinsFound(h, hist[h].bins)'
    <3>1. \A m \in AtFirst .. imported : m \in AtFirst .. imported'
      BY <1>3
    <3>2. hist[h].at = "done" => BinsFound(h, hist[h].bins)
      BY DEF HistFound
    <3> QED
      BY <1>4, <2>1, <3>1, <3>2 DEF BinsFound
  <2>3. hist[h].at # "none" => hist[h].begun \in Int /\ hist[h].begun <= now'
    BY <1>2 DEF HistFound
  <2> QED
    BY <1>1, <1>4, <2>2, <2>3 DEF HistFound, HistKept
<1>5. CASE /\ call[h].at = "idle" /\ call'[h].at # "idle"
           /\ Served(h) /\ Method(h) \in GridMethods /\ WantsHistogram(Params(h))
           /\ hist'[h] = [at |-> "running", begun |-> now]
  <2>1. hist[h].at = "none"
    BY <1>5 DEF HistsNew
  <2>2. hist'[h].at = "running" /\ "begun" \in DOMAIN hist'[h] /\ hist'[h].begun = now
    BY <1>5
  <2> QED
    BY <1>1, <1>2, <1>5, <2>1, <2>2 DEF HistFound, HistKept
<1>6. CASE hist[h].at = "running"
           /\ hist'[h] = [at |-> "done", begun |-> hist[h].begun, bins |-> BinsAt(h, imported)]
  <2> PICK bins : bins = BinsAt(h, imported)
    OBVIOUS
  <2>1. hist'[h].at = "done" /\ "begun" \in DOMAIN hist'[h] /\ hist'[h].begun = hist[h].begun
        /\ hist'[h].bins = bins
    BY <1>6
  <2>2. BinsAt(h, imported) = BuildHistogram(Params(h).minute_length,
            HistogramRows(Method(h), Params(h), HistWindowOf(h), TableOf(imported)))
    BY DEF BinsAt
  <2>3. HistWindowOf(h)' = HistWindowOf(h)
    BY <1>1, <2>1 DEF HistWindowOf
  <2>4. PICK m \in AtFirst .. imported' : m = imported
    BY <1>3
  <2>5. BinsAt(h, m)' = bins
    BY <1>1, <2>2, <2>3, <2>4 DEF BinsAt, TableOf
  <2>6. BinsFound(h, bins)'
    BY <2>4, <2>5 DEF BinsFound
  <2>7. hist[h].begun \in Int /\ hist[h].begun <= now'
    BY <1>2, <1>6 DEF HistFound
  <2>8. Served(h) /\ Method(h) \in GridMethods /\ WantsHistogram(Params(h))
    BY <1>6 DEF HistFound
  <2>9. BinsFound(h, hist[h].bins)'
    BY <2>1, <2>6 DEF BinsFound
  <2> QED
    BY <1>1, <1>6, <2>1, <2>7, <2>8, <2>9 DEF HistFound, HistKept
<1>7. CASE hist[h].at = "running" /\ hist'[h] = [at |-> "failed", begun |-> hist[h].begun]
  <2>1. hist'[h].at = "failed" /\ "begun" \in DOMAIN hist'[h] /\ hist'[h].begun = hist[h].begun
    BY <1>7
  <2>7. hist[h].begun \in Int /\ hist[h].begun <= now'
    BY <1>2, <1>7 DEF HistFound
  <2>8. Served(h) /\ Method(h) \in GridMethods /\ WantsHistogram(Params(h))
    BY <1>7 DEF HistFound
  <2> QED
    BY <1>1, <1>7, <2>1, <2>7, <2>8 DEF HistFound, HistKept
<1> QED
  BY <1>4, <1>5, <1>6, <1>7 DEF HistGoes

\* What a production has found in the table, it has found in the grown one.
LEMMA GridKept ==
    ASSUME NEW c \in Calls, UNCHANGED asked, GridFound(c), prod'[c] = prod[c],
           \A h \in Calls : HistKept(h), Stored, TableGrows
    PROVE  GridFound(c)'
<1>1. /\ Method(c)' = Method(c) /\ Params(c)' = Params(c)
      /\ \A h : HistKeyOf(h)' = HistKeyOf(h)
  BY DEF Method, Params, HistKeyOf
<1>3. \A m \in AtFirst .. imported : m \in AtFirst .. imported'
  BY BoundsAssumption DEF Stored, TableGrows, BoundsAssumption
<1>4. \A h : Feeds(h, c) => Feeds(h, c)'
  BY <1>1 DEF Feeds, HistKept
<1>5. HasHist(c) => HasHist(c)'
  <2>1. CASE WantsHistogram(Params(c))
    BY <1>1, <1>4, <2>1 DEF HasHist
  <2>2. CASE ~WantsHistogram(Params(c))
    BY <1>1, <2>2 DEF HasHist
  <2> QED
    BY <2>1, <2>2
<1>6. WindowOf(c)' = WindowOf(c)
  BY <1>1 DEF WindowOf
<1>7. \A r : RowsFound(c, r) => RowsFound(c, r)'
  <2>1. \A m : RowsAt(c, m)' = RowsAt(c, m)
    BY <1>1, <1>6 DEF RowsAt, TableOf
  <2> QED
    BY <1>3, <2>1 DEF RowsFound
<1>8. ASSUME prod[c].at = "done"
      PROVE  GridFound(c)'
  <2>1. /\ HasHist(c) /\ AnswerFound(c, prod[c].value)
        /\ prod[c].hist # << >> => hist[prod[c].hist[1]].at = "done"
    BY <1>8 DEF GridFound
  <2>2. prod[c].hist # << >> => prod[c].hist[1] \in Calls
    BY <2>1 DEF HasHist
  <2>3. prod[c].hist # << >> => hist'[prod[c].hist[1]] = hist[prod[c].hist[1]]
    BY <2>1, <2>2 DEF HistKept
  <2>4. BinsShown(c)' = BinsShown(c)
    BY <2>3 DEF BinsShown
  <2>5. \A m : AnswerAt(c, m)' = AnswerAt(c, m)
    BY <1>1, <1>6, <2>4 DEF AnswerAt, TableOf
  <2>6. \A v : AnswerFound(c, v) => AnswerFound(c, v)'
    BY <1>3, <2>5 DEF AnswerFound
  <2> PICK v : v = prod[c].value
    OBVIOUS
  <2>7. AnswerFound(c, v)'
    BY <2>1, <2>6
  <2>8. AnswerFound(c, prod[c].value)'
    BY <2>7 DEF AnswerFound
  <2> QED
    BY <1>5, <1>8, <2>1, <2>3, <2>8 DEF GridFound
<1>9. ASSUME prod[c].at = "running"
      PROVE  GridFound(c)'
  <2>1. /\ "rows" \in DOMAIN prod[c] /\ "anchor" \notin DOMAIN prod[c] /\ HasHist(c)
        /\ prod[c].rows # << >> => RowsFound(c, prod[c].rows[1])
    BY <1>9 DEF GridFound
  <2> PICK r : r = prod[c].rows[1]
    OBVIOUS
  <2>2. prod[c].rows # << >> => RowsFound(c, r)'
    BY <1>7, <2>1
  <2>3. prod[c].rows # << >> => RowsFound(c, prod[c].rows[1])'
    BY <2>2 DEF RowsFound
  <2> QED
    BY <1>5, <1>9, <2>1, <2>3 DEF GridFound
<1> QED
  BY <1>8, <1>9 DEF GridFound

\* The cache of the histograms only gets those that are begun.
HistCacheGrows == histcached' \subseteq histcached \cup {h \in Calls : hist'[h].at # "none"}

\* Every step moves the histograms so.
LEMMA StepHists ==
    ASSUME Shapes, Stored, [Next]_vars
    PROVE  (\A h \in Calls : HistGoes(h)) /\ HistCacheGrows /\ TableGrows
<1>0. imported \in Int /\ imported <= Len(Strikes)
  BY BoundsAssumption DEF Stored, BoundsAssumption
<1>1. ASSUME UNCHANGED <<hist, histcached>>
      PROVE  (\A h \in Calls : HistGoes(h)) /\ HistCacheGrows
  BY <1>1 DEF HistGoes, HistCacheGrows
<1>2. imported' = imported => TableGrows
  BY <1>0, BoundsAssumption DEF TableGrows, BoundsAssumption
<1>3. ASSUME NEW c \in Calls, BeginGrid(c)
      PROVE  (\A h \in Calls : HistGoes(h)) /\ HistCacheGrows /\ TableGrows
  <2>1. /\ call[c].at = "idle" /\ Served(c) /\ Method(c) \in GridMethods
        /\ call' = [call EXCEPT ![c] = [at |-> "waiting", on |-> c, since |-> now]]
        /\ imported' = imported
    BY <1>3 DEF BeginGrid
  <2>2. call'[c].at # "idle"
    BY <2>1 DEF Shapes
  <2>3. \/ UNCHANGED <<hist, histcached>>
        \/ /\ WantsHistogram(Params(c))
           /\ hist' = [hist EXCEPT ![c] = [at |-> "running", begun |-> now]]
           /\ histcached' = {h \in histcached : HistKeyOf(h) # HistKeyOf(c)} \cup {c}
    BY <1>3 DEF BeginGrid
  <2>4. ASSUME WantsHistogram(Params(c)),
               hist' = [hist EXCEPT ![c] = [at |-> "running", begun |-> now]],
               histcached' = {h \in histcached : HistKeyOf(h) # HistKeyOf(c)} \cup {c}
        PROVE  (\A h \in Calls : HistGoes(h)) /\ HistCacheGrows
    <3>1. hist'[c] = [at |-> "running", begun |-> now] /\ \A h \in Calls : h # c => hist'[h] = hist[h]
      BY <2>4 DEF Shapes
    <3>2. HistGoes(c)
      BY <2>1, <2>2, <2>4, <3>1 DEF HistGoes
    <3>3. hist'[c].at # "none"
      BY <3>1
    <3> QED
      BY <2>4, <3>1, <3>2, <3>3 DEF HistGoes, HistCacheGrows
  <2> QED
    BY <1>1, <1>2, <2>1, <2>3, <2>4
<1>4. ASSUME NEW c \in Calls, HistogramQueried(c)
      PROVE  (\A h \in Calls : HistGoes(h)) /\ HistCacheGrows /\ TableGrows
  <2> PICK bins : bins = BinsAt(c, imported)
    OBVIOUS
  <2>1. BuildHistogram(Params(c).minute_length,
            HistogramRows(Method(c), Params(c), TimeInterval(Params(c), hist[c].begun), Table)) = bins
    BY DEF BinsAt, HistWindowOf, Table, TableOf
  <2>2. /\ hist[c].at = "running" /\ UNCHANGED <<imported, histcached>>
        /\ hist' = [hist EXCEPT ![c] = [at |-> "done", begun |-> @.begun, bins |-> bins]]
    BY <1>4, <2>1 DEF HistogramQueried
  <2>3. /\ hist'[c] = [at |-> "done", begun |-> hist[c].begun, bins |-> bins]
        /\ \A h \in Calls : h # c => hist'[h] = hist[h]
    BY <2>2 DEF Shapes
  <2>4. HistGoes(c)
    BY <2>2, <2>3 DEF HistGoes
  <2> QED
    BY <1>2, <2>2, <2>3, <2>4 DEF HistGoes, HistCacheGrows
<1>5. ASSUME NEW c \in Calls, HistogramFails(c)
      PROVE  (\A h \in Calls : HistGoes(h)) /\ HistCacheGrows /\ TableGrows
  <2>1. /\ hist[c].at = "running" /\ imported' = imported /\ histcached' = histcached \ {c}
        /\ hist' = [hist EXCEPT ![c] = [at |-> "failed", begun |-> @.begun]]
    BY <1>5 DEF HistogramFails
  <2>2. /\ hist'[c] = [at |-> "failed", begun |-> hist[c].begun]
        /\ \A h \in Calls : h # c => hist'[h] = hist[h]
    BY <2>1 DEF Shapes
  <2>3. HistGoes(c)
    BY <2>1, <2>2 DEF HistGoes
  <2> QED
    BY <1>2, <2>1, <2>2, <2>3 DEF HistGoes, HistCacheGrows
<1>6. ASSUME NEW c \in Calls,
             \/ Refuse(c) \/ Fail(c) \/ CheckCount(c) \/ AnswerEmpty(c) \/ Join(c) \/ BeginClusters(c)
             \/ GridQueried(c) \/ BuildGrid(c) \/ LookForNewest(c) \/ BuildClusters(c) \/ QueryFails(c)
             \/ Answered(c)
      PROVE  UNCHANGED <<hist, histcached, imported>>
  BY <1>6 DEF Refuse, Fail, CheckCount, AnswerEmpty, Join, BeginClusters, GridQueried, BuildGrid,
              LookForNewest, BuildClusters, QueryFails, Answered, AnswerResult, AnswerError
<1>7. ASSUME Tick \/ AllAnswered \/ UNCHANGED vars
      PROVE  UNCHANGED <<hist, histcached, imported>>
  BY <1>7 DEF Tick, AllAnswered, vars
<1>8. ASSUME Import PROVE UNCHANGED <<hist, histcached>> /\ TableGrows
  <2>1. imported < Len(Strikes) /\ imported' = imported + 1 /\ UNCHANGED <<hist, histcached>>
    BY <1>8 DEF Import
  <2>2. Len(Strikes) \in Int
    BY StrikesAssumption DEF StrikesAssumption
  <2> QED
    BY <1>0, <2>1, <2>2 DEF TableGrows
<1> QED
  BY <1>1, <1>2, <1>3, <1>4, <1>5, <1>6, <1>7, <1>8 DEF Next, AskedFor, Queried

\* A production begins with a histogram of its own or a young one of its key.
LEMMA GridBegins ==
    ASSUME Shapes, Clocks, HistsNew, HistsFound, NEW c \in Calls, BeginGrid(c),
           \A h \in Calls : HistKept(h)
    PROVE  GridFound(c)'
<1>1. /\ Served(c) /\ Method(c) \in GridMethods /\ UNCHANGED <<asked, now>>
  BY DEF BeginGrid
<1>2. /\ Params(c)' = Params(c) /\ \A h : HistKeyOf(h)' = HistKeyOf(h)
  BY <1>1 DEF Params, HistKeyOf
<1>3. now \in Int
  BY DEF Clocks
<1>4. PICK on : /\ prod' = [prod EXCEPT ![c] = [at |-> "running", begun |-> now, rows |-> << >>, hist |-> on]]
                /\ \/ ~WantsHistogram(Params(c)) /\ on = << >>
                   \/ /\ WantsHistogram(Params(c)) /\ on = << c >>
                      /\ hist' = [hist EXCEPT ![c] = [at |-> "running", begun |-> now]]
                   \/ WantsHistogram(Params(c)) /\ \E h \in UsableHist(c) : on = << h >>
  BY DEF BeginGrid
<1>5. prod'[c] = [at |-> "running", begun |-> now, rows |-> << >>, hist |-> on]
  BY <1>4 DEF Shapes
<1>6. /\ prod'[c].at = "running" /\ prod'[c].begun = now /\ prod'[c].rows = << >>
      /\ prod'[c].hist = on /\ "rows" \in DOMAIN prod'[c] /\ "anchor" \notin DOMAIN prod'[c]
  BY <1>5
<1>7. ASSUME WantsHistogram(Params(c)), hist' = [hist EXCEPT ![c] = [at |-> "running", begun |-> now]]
      PROVE  Feeds(c, c)'
  <2>1. hist'[c].at = "running" /\ hist'[c].begun = now
    BY <1>7 DEF Shapes
  <2> QED
    BY <1>2, <1>3, <1>6, <2>1 DEF Feeds, HISTOGRAM_TTL
<1>8. ASSUME NEW h \in UsableHist(c)
      PROVE  h \in Calls /\ Feeds(h, c)'
  <2>1. /\ h \in histcached /\ h \in Calls /\ HistKeyOf(h) = HistKeyOf(c)
        /\ Young(hist[h].begun, HISTOGRAM_TTL)
    BY DEF UsableHist, Shapes
  <2>2. hist[h].at # "none" /\ hist[h].begun \in Int /\ hist[h].begun <= now
    BY <2>1 DEF HistsNew, HistsFound, HistFound
  <2>3. now < hist[h].begun + 60
    BY <1>3, <2>1, <2>2 DEF Young, HISTOGRAM_TTL
  <2>4. hist'[h].at # "none" /\ hist'[h].begun = hist[h].begun
    BY <2>1, <2>2 DEF HistKept
  <2> QED
    BY <1>2, <1>6, <2>1, <2>2, <2>3, <2>4 DEF Feeds, HISTOGRAM_TTL
<1>9. HasHist(c)'
  <2>1. CASE ~WantsHistogram(Params(c))
    BY <1>2, <1>4, <1>6, <2>1 DEF HasHist
  <2>2. CASE WantsHistogram(Params(c))
    <3>1. \E h \in Calls : on = << h >> /\ Feeds(h, c)'
      BY <1>4, <1>7, <1>8, <2>2
    <3>2. \E h \in Calls : prod'[c].hist = << h >> /\ Feeds(h, c)'
      BY <1>6, <3>1
    <3> QED
      BY <1>2, <2>2, <3>2 DEF HasHist
  <2> QED
    BY <2>1, <2>2
<1> QED
  BY <1>6, <1>9 DEF GridFound

\* A query of a grid finds the rows of the table there is.
LEMMA GridFinds ==
    ASSUME Shapes, Clocks, Stored, NEW c \in Calls, Method(c) \in GridMethods, GridFound(c),
           GridQueried(c)
    PROVE  GridFound(c)'
<1>0. Method(c) \notin ClusterMethods
  BY DEF GridMethods, ClusterMethods
<1>1. /\ prod[c].at = "running" /\ "rows" \in DOMAIN prod[c] /\ UNCHANGED <<asked, hist, imported>>
  BY DEF GridQueried, GridRunning
<1>2. /\ Method(c)' = Method(c) /\ Params(c)' = Params(c)
      /\ \A h : HistKeyOf(h)' = HistKeyOf(h)
  BY <1>1 DEF Method, Params, HistKeyOf
<1> PICK r : r = RowsAt(c, imported)
  OBVIOUS
<1>3. GridRows(Method(c), Params(c), IntervalOf(c), Table) = r
  BY <1>0 DEF RowsAt, IntervalOf, WindowOf, Table, TableOf
<1>4. prod' = [prod EXCEPT ![c].rows = << r >>]
  BY <1>3 DEF GridQueried
<1>5. /\ prod'[c].at = "running" /\ DOMAIN prod'[c] = DOMAIN prod[c]
      /\ prod'[c].rows = << r >> /\ prod'[c].begun = prod[c].begun
      /\ prod'[c].hist = prod[c].hist
  <2>1. "at" \in DOMAIN prod[c] /\ "begun" \in DOMAIN prod[c]
    BY <1>1 DEF Shapes, Clocks
  <2>2. prod'[c] = [prod[c] EXCEPT !.rows = << r >>]
    BY <1>4 DEF Shapes
  <2> QED
    BY <1>1, <2>1, <2>2
<1>6. HasHist(c) /\ "anchor" \notin DOMAIN prod[c]
  BY <1>1 DEF GridFound
<1>7. HasHist(c)'
  <2>1. \A h : Feeds(h, c) => Feeds(h, c)'
    BY <1>1, <1>2, <1>5 DEF Feeds
  <2> QED
    BY <1>2, <1>5, <1>6, <2>1 DEF HasHist
<1>8. RowsFound(c, r)'
  <2>1. RowsAt(c, imported) = GridRows(Method(c), Params(c), WindowOf(c), TableOf(imported))
    BY DEF RowsAt
  <2>2. WindowOf(c)' = WindowOf(c)
    BY <1>2, <1>5 DEF WindowOf
  <2>3. PICK m \in AtFirst .. imported : m = imported
    BY BoundsAssumption DEF Stored, BoundsAssumption
  <2>4. RowsAt(c, m)' = r
    BY <1>2, <2>1, <2>2, <2>3 DEF RowsAt, TableOf
  <2> QED
    BY <1>1, <2>3, <2>4 DEF RowsFound
<1>9. RowsFound(c, prod[c].rows[1])'
  BY <1>5, <1>8 DEF RowsFound
<1> QED
  BY <1>1, <1>5, <1>6, <1>7, <1>9 DEF GridFound

\* And the answer is made of those, and of the bins found.
LEMMA GridBuilds ==
    ASSUME Shapes, NEW c \in Calls, Method(c) \in GridMethods, GridFound(c), BuildGrid(c)
    PROVE  GridFound(c)'
<1>0. Method(c) \notin ClusterMethods
  BY DEF GridMethods, ClusterMethods
<1>1. /\ prod[c].at = "running" /\ "rows" \in DOMAIN prod[c] /\ prod[c].rows # << >>
      /\ UNCHANGED <<asked, hist, imported>>
      /\ prod[c].hist # << >> => hist[prod[c].hist[1]].at = "done"
  BY DEF BuildGrid, GridRunning
<1>2. /\ Method(c)' = Method(c) /\ Params(c)' = Params(c)
      /\ \A h : HistKeyOf(h)' = HistKeyOf(h)
  BY <1>1 DEF Method, Params, HistKeyOf
<1>3. PICK m \in AtFirst .. imported : prod[c].rows[1] = RowsAt(c, m)
  BY <1>1 DEF GridFound, RowsFound
<1> PICK v : v = AnswerAt(c, m)
  OBVIOUS
<1> PICK bins : bins = BinsShown(c)
  OBVIOUS
<1> PICK rows : rows = RowsAt(c, m)
  OBVIOUS
<1>4. v = BuildGridResponse(Method(c), Params(c), IntervalOf(c),
             BuildGridRows(Method(c), Params(c), IntervalOf(c), rows), bins)
  BY <1>0 DEF AnswerAt, GridAnswer, RowsAt, IntervalOf, WindowOf
<1>5. prod' = [prod EXCEPT ![c] = [at |-> "done", begun |-> prod[c].begun,
                                   hist |-> prod[c].hist, value |-> v]]
  <2>1. prod[c].rows[1] = rows
    BY <1>3
  <2>2. (IF prod[c].hist = << >> THEN << >> ELSE hist[prod[c].hist[1]].bins) = bins
    BY DEF BinsShown
  <2> QED
    BY <1>4, <2>1, <2>2 DEF BuildGrid, Shapes
<1>6. /\ prod'[c].at = "done" /\ prod'[c].begun = prod[c].begun /\ prod'[c].hist = prod[c].hist
      /\ prod'[c].value = v
  <2>1. prod'[c] = [at |-> "done", begun |-> prod[c].begun, hist |-> prod[c].hist, value |-> v]
    BY <1>5 DEF Shapes
  <2> QED
    BY <2>1
<1>7. HasHist(c)'
  <2>1. \A h : Feeds(h, c) => Feeds(h, c)'
    BY <1>1, <1>2, <1>6 DEF Feeds
  <2>2. HasHist(c)
    BY <1>1 DEF GridFound
  <2> QED
    BY <1>2, <1>6, <2>1, <2>2 DEF HasHist
<1>8. AnswerFound(c, v)'
  <2>1. WindowOf(c)' = WindowOf(c) /\ BinsShown(c)' = BinsShown(c)
    BY <1>1, <1>2, <1>6 DEF WindowOf, BinsShown
  <2>2. AnswerAt(c, m)' = v
    BY <1>2, <2>1 DEF AnswerAt, TableOf
  <2> QED
    BY <1>1, <2>2 DEF AnswerFound
<1>9. AnswerFound(c, prod[c].value)'
  BY <1>6, <1>8 DEF AnswerFound
<1> QED
  BY <1>1, <1>6, <1>7, <1>9 DEF GridFound

\* No step makes a production of a grid find what is not there.
LEMMA StepGrids ==
    ASSUME AskedOf, Shapes, CacheInv, Clocks, Stored, TableGrows, HistsNew, HistsFound, GridsFound,
           \A h \in Calls : HistKept(h), UNCHANGED asked, [Next]_vars
    PROVE  \A c \in Calls : Method(c) \in GridMethods => GridFound(c)'
<1> SUFFICES ASSUME NEW c \in Calls, Method(c) \in GridMethods PROVE GridFound(c)'
  OBVIOUS
<1>0. GridFound(c)
  BY DEF GridsFound
<1>1. prod'[c] = prod[c] => GridFound(c)'
  BY <1>0, GridKept
<1>2. prod'[c].at = "failed" => GridFound(c)'
  BY DEF GridFound
<1>3. ASSUME NEW d \in Calls, BeginGrid(d) \/ GridQueried(d) \/ BuildGrid(d)
      PROVE  GridFound(c)'
  <2>1. CASE d = c
    BY <1>0, <1>3, <2>1, GridBegins, GridFinds, GridBuilds
  <2>2. CASE d # c
    <3>1. \E e : prod' = [prod EXCEPT ![d] = e]
      BY <1>3 DEF BeginGrid, GridQueried, BuildGrid
    <3> QED
      BY <1>1, <2>2, <3>1 DEF Shapes
  <2> QED
    BY <2>1, <2>2
<1>4. ASSUME NEW d \in Calls, BeginClusters(d) \/ LookForNewest(d) \/ BuildClusters(d)
      PROVE  GridFound(c)'
  <2>1. d # c
    <3>1. Method(c) \notin ClusterMethods
      BY DEF GridMethods, ClusterMethods
    <3>2. prod[c].at = "running" => "anchor" \notin DOMAIN prod[c]
      BY <1>0 DEF GridFound
    <3> QED
      BY <1>4, <3>1, <3>2 DEF BeginClusters, LookForNewest, BuildClusters, ClustersRunning
  <2>2. \E e : prod' = [prod EXCEPT ![d] = e]
    BY <1>4 DEF BeginClusters, LookForNewest, BuildClusters
  <2> QED
    BY <1>1, <2>1, <2>2 DEF Shapes
<1>5. ASSUME NEW d \in Calls, QueryFails(d) PROVE GridFound(c)'
  <2>1. prod' = [prod EXCEPT ![d] = [at |-> "failed", begun |-> @.begun]]
    BY <1>5 DEF QueryFails
  <2>2. prod'[c] = prod[c] \/ prod'[c].at = "failed"
    BY <2>1 DEF Shapes
  <2> QED
    BY <1>1, <1>2, <2>2
<1>6. ASSUME NEW d \in Calls, HistogramFails(d) PROVE GridFound(c)'
  <2> PICK hit : hit = HistWaiting(d)
    OBVIOUS
  <2>1. prod' = [e \in Calls |-> IF e \in hit THEN [at |-> "failed", begun |-> prod[e].begun] ELSE prod[e]]
    BY <1>6 DEF HistogramFails
  <2>2. prod'[c] = prod[c] \/ prod'[c].at = "failed"
    BY <2>1
  <2> QED
    BY <1>1, <1>2, <2>2
<1>7. ASSUME NEW d \in Calls,
             \/ Refuse(d) \/ Fail(d) \/ CheckCount(d) \/ AnswerEmpty(d) \/ Join(d)
             \/ HistogramQueried(d) \/ Answered(d)
      PROVE  prod' = prod
  BY <1>7 DEF Refuse, Fail, CheckCount, AnswerEmpty, Join, HistogramQueried, Answered,
              AnswerResult, AnswerError
<1>8. ASSUME Tick \/ Import \/ AllAnswered \/ UNCHANGED vars PROVE prod' = prod
  BY <1>8 DEF Tick, Import, AllAnswered, vars
<1> QED
  BY <1>1, <1>3, <1>4, <1>5, <1>6, <1>7, <1>8 DEF Next, AskedFor, Queried

\* At the start no grid is begun.
LEMMA InitGrids == Init => GridInv
<1> SUFFICES ASSUME Init PROVE GridInv
  OBVIOUS
<1>1. /\ imported = AtFirst /\ histcached = {}
      /\ \A c \in Calls : prod[c].at = "none" /\ hist[c].at = "none"
  BY DEF Init, NotBegun
<1>2. Stored
  BY <1>1, BoundsAssumption, StrikesAssumption DEF Stored, BoundsAssumption, StrikesAssumption
<1>3. HistsNew /\ HistsFound /\ GridsFound
  BY <1>1 DEF HistsNew, HistsFound, HistFound, GridsFound, GridFound
<1> QED
  BY <1>2, <1>3 DEF GridInv

\* And no step disturbs what is known of the grids.
LEMMA StepGridInv == IInv /\ ShareInv /\ GridInv /\ [Next]_vars => GridInv'
<1> SUFFICES ASSUME IInv, ShareInv, GridInv, [Next]_vars PROVE GridInv'
  OBVIOUS
<1>1. /\ AskedOf /\ Shapes /\ CacheInv /\ Planned /\ Clocks /\ ClustersFound
      /\ Stored /\ HistsNew /\ HistsFound /\ GridsFound
  BY DEF IInv, ShareInv, GridInv
<1>2. (\A h \in Calls : HistGoes(h)) /\ HistCacheGrows /\ TableGrows
  BY <1>1, StepHists
<1>3. (\A c \in Calls : CallMoves(c)) /\ Onwards
  BY <1>1, StepGrows
<1>4. UNCHANGED asked
  BY <1>1, StepMoves
<1>5. \A h \in Calls : HistKept(h) /\ HistFound(h)'
  BY <1>1, <1>2, <1>3, <1>4, HistGoesOn DEF HistsFound
<1>6. HistsFound'
  BY <1>5 DEF HistsFound
<1>7. GridsFound'
  <2>1. \A c \in Calls : Method(c) \in GridMethods => GridFound(c)'
    BY <1>1, <1>2, <1>4, <1>5, StepGrids
  <2> QED
    BY <1>4, <2>1, SameAsked DEF GridsFound
<1>8. HistsNew'
  <2>1. ASSUME NEW c \in Calls, call'[c].at = "idle" PROVE hist'[c].at = "none"
    <3>1. call[c].at = "idle"
      BY <1>3, <2>1 DEF CallMoves, Joins, Shows
    <3>2. hist[c].at = "none"
      BY <1>1, <3>1 DEF HistsNew
    <3> QED
      BY <1>2, <2>1, <3>2 DEF HistGoes
  <2>2. ASSUME NEW h \in histcached' PROVE hist'[h].at # "none"
    <3>1. h \in histcached => h \in Calls /\ hist[h].at # "none"
      BY <1>1 DEF HistsNew, Shapes
    <3> QED
      BY <1>2, <1>5, <3>1 DEF HistCacheGrows, HistKept
  <2> QED
    BY <2>1, <2>2 DEF HistsNew
<1>9. Stored'
  BY <1>1, <1>2, BoundsAssumption DEF Stored, TableGrows, BoundsAssumption
<1> QED
  BY <1>6, <1>7, <1>8, <1>9 DEF GridInv
-----------------------------------------------------------------------------
(* What the answers show *)

\* The production that a shown grid comes from, and what it found.
LEMMA ShownGrid ==
    ASSUME IInv, ShareInv, GridInv, NEW c \in Calls, Shown(c), Method(c) \in GridMethods
    PROVE  \E o \in Calls :
              /\ Serves(o, c, call[c].since) /\ prod[o].at = "done" /\ prod[o].begun \in Int
              /\ Method(o) = Method(c) /\ Params(o) = Params(c) /\ HistKeyOf(o) = HistKeyOf(c)
              /\ GridFound(o)
              /\ prod[o].begun \in BegunFor(c)
              /\ \E m \in AtFirst .. imported :
                    DataOf(c) = GridAnswer(Method(c), Params(c),
                                           TimeInterval(Params(c), prod[o].begun), TableOf(m),
                                           BinsShown(o))
<1>1. /\ AskedOf /\ Clocks /\ ShowsOwn /\ GridsFound
  BY DEF IInv, ShareInv, GridInv
<1>2. PICK o \in Calls : /\ Serves(o, c, call[c].since)
                         /\ prod[o].at = "done" /\ DataOf(c) = prod[o].value
  BY <1>1 DEF ShowsOwn
<1>3. /\ Served(o) /\ Served(c) /\ KeyOf(o) = KeyOf(c)
      /\ prod[o].begun <= call[c].since /\ call[c].since < prod[o].begun + TimeToLive(Params(c))
      /\ prod[o].begun \in Int
  BY <1>1, <1>2 DEF Serves, Clocks
<1>4. Method(o) = Method(c) /\ Params(o) = Params(c)
  BY <1>1, <1>3, GridJob
<1>5. HistKeyOf(o) = HistKeyOf(c)
  BY <1>1, <1>3, <1>4, GridJob
<1>6. GridFound(o)
  BY <1>1, <1>4 DEF GridsFound
<1>7. prod[o].begun \in BegunFor(c)
  BY <1>2, <1>3 DEF BegunFor
<1>8. PICK m \in AtFirst .. imported : DataOf(c) = AnswerAt(o, m)
  BY <1>2, <1>6 DEF GridFound, AnswerFound
<1>9. DataOf(c) = GridAnswer(Method(c), Params(c), TimeInterval(Params(c), prod[o].begun),
                             TableOf(m), BinsShown(o))
  BY <1>4, <1>8 DEF AnswerAt, WindowOf
<1> QED
  BY <1>2, <1>3, <1>4, <1>5, <1>6, <1>7, <1>9

\* The strikes that are in the table are among those that ever come.
LEMMA InTheTable ==
    ASSUME Stored, NEW m \in AtFirst .. imported
    PROVE  m \in 0 .. Len(Strikes)
BY BoundsAssumption DEF Stored, BoundsAssumption

\* A shown grid is the picture of the call's own parameters.
LEMMA PictureFollows == IInv /\ ShareInv /\ GridInv => PictureOwn
<1> SUFFICES ASSUME IInv, ShareInv, GridInv, NEW c \in Calls, Shown(c), Method(c) \in GridMethods
             PROVE  LET v == DataOf(c)
                    IN  /\ v.dt = 60 * Params(c).minute_length
                        /\ \E b \in BegunFor(c) : v.t = b + 60 * Params(c).minute_offset
                        /\ \E m \in AtFirst .. imported : v.r = Picture(c, v, m)
  BY DEF PictureOwn
<1>1. AskedOf /\ Planned /\ Stored /\ Served(c)
  BY DEF IInv, ShareInv, GridInv, Shown
<1>2. PICK o \in Calls :
         /\ prod[o].begun \in Int /\ prod[o].begun \in BegunFor(c)
         /\ \E m \in AtFirst .. imported :
               DataOf(c) = GridAnswer(Method(c), Params(c),
                                      TimeInterval(Params(c), prod[o].begun), TableOf(m),
                                      BinsShown(o))
  BY ShownGrid
<1> PICK b \in Int : b = prod[o].begun
  BY <1>2
<1> PICK p : p = Params(c)
  OBVIOUS
<1> PICK interval : interval = TimeInterval(p, b)
  OBVIOUS
<1> PICK v : v = DataOf(c)
  OBVIOUS
<1> PICK bins : bins = BinsShown(o)
  OBVIOUS
<1>3. PICK m \in AtFirst .. imported :
         v = GridAnswer(Method(c), Params(c), interval, TableOf(m), bins)
  BY <1>2
<1>4. /\ IsGridRequest(Method(c), Params(c))
      /\ asked[c].job[1].grid = GridOf(Method(c), Params(c))
  BY <1>1, GridParams, GridJob
<1>5. p.minute_length \in WindowLengths /\ p.minute_offset \in Int
  BY <1>4 DEF IsGridRequest
<1>6. /\ IsInterval(interval) /\ interval.end = b + 60 * p.minute_offset
      /\ interval.end - interval.start = 60 * p.minute_length
  BY <1>5, GridWindow
<1>7. m \in 0 .. Len(Strikes)
  BY <1>1, <1>3, InTheTable
<1>8. /\ v.r = Picture(c, v, m) /\ v.t = interval.end /\ v.dt = interval.end - interval.start
  BY <1>3, <1>4, <1>6, <1>7, PictureOfCall
<1> QED
  BY <1>2, <1>3, <1>6, <1>8

\* The strikes of a histogram are those of the window in the area of its call,
\* and of every call with the same key.
LEMMA HistogramOfCall ==
    ASSUME AskedOf, Planned, NEW c \in Calls, Served(c), Method(c) \in GridMethods,
           NEW h \in Calls, Served(h), Method(h) \in GridMethods, HistKeyOf(h) = HistKeyOf(c),
           NEW m \in 0 .. Len(Strikes), NEW interval, NEW start, NEW end,
           interval.start = start, interval.end = end
    PROVE  /\ Params(h).minute_length = Params(c).minute_length
           /\ Params(h).minute_offset = Params(c).minute_offset
           /\ HistogramMatch(Method(h), Params(h), interval, TableOf(m)) = InWindow(c, start, end, m)
<1> PICK p : p = Params(c)
  OBVIOUS
<1> PICK q : q = Params(h)
  OBVIOUS
<1> PICK grid : grid = GridOf(Method(c), p)
  OBVIOUS
<1> PICK other : other = GridOf(Method(h), q)
  OBVIOUS
<1>1. /\ HistKeyOf(c) = [minute_length |-> p.minute_length, minute_offset |-> p.minute_offset,
                         grid |-> IF IsGlobal(Method(c)) THEN << >> ELSE << grid >>]
      /\ HistKeyOf(h) = [minute_length |-> q.minute_length, minute_offset |-> q.minute_offset,
                         grid |-> IF IsGlobal(Method(h)) THEN << >> ELSE << other >>]
      /\ asked[c].job[1].grid = grid
  BY GridJob DEF HistogramKey
<1>2. /\ q.minute_length = p.minute_length /\ q.minute_offset = p.minute_offset
      /\ (IF IsGlobal(Method(h)) THEN << >> ELSE << other >>)
            = (IF IsGlobal(Method(c)) THEN << >> ELSE << grid >>)
  BY <1>1
<1>3. /\ IsGlobal(Method(h)) <=> IsGlobal(Method(c))
      /\ ~IsGlobal(Method(c)) => other = grid
  <2>1. << other >> # << >> /\ << grid >> # << >>
    OBVIOUS
  <2>2. << other >> = << grid >> => other = grid
    OBVIOUS
  <2> QED
    BY <1>2, <2>1, <2>2
<1> PICK table : table = TableOf(m)
  OBVIOUS
<1>4. DOMAIN table = 1 .. m /\ \A i \in 1 .. m : table[i] = Strikes[i]
  BY TableOfFacts
<1>5. HistogramMatch(Method(h), q, interval, table)
        = InTime(interval, table)
            \cap (IF IsGlobal(Method(c)) THEN DOMAIN table ELSE InTheArea(grid, table))
  BY <1>3 DEF HistogramMatch
<1>6. HistogramMatch(Method(h), q, interval, table) = InWindow(c, start, end, m)
  <2>1. CASE IsGlobal(Method(c))
    BY <1>4, <1>5, <2>1 DEF InTime, InWindow
  <2>2. CASE ~IsGlobal(Method(c))
    <3>1. HistogramMatch(Method(h), q, interval, table) = InTime(interval, table) \cap InTheArea(grid, table)
      BY <1>5, <2>2
    <3>2. InWindow(c, start, end, m)
            = {i \in 1 .. m : /\ Strikes[i].timestamp >= start /\ Strikes[i].timestamp < end
                              /\ Strikes[i].x \in grid.xmin .. grid.xmax
                              /\ Strikes[i].y \in grid.ymin .. grid.ymax}
      BY <1>1, <2>2 DEF InWindow
    <3> QED
      BY <1>4, <3>1, <3>2 DEF InTime, InTheArea
  <2> QED
    BY <2>1, <2>2
<1> QED
  BY <1>2, <1>6

\* What HistogramFits wants to see of a grid with a histogram: a window that
\* ended at `end` of a table of m, and the bins of it.
BinsFit(c, v, bins, end, m) ==
    LET window == InWindow(c, end - v.dt, end, m)
        struck(i) == Cardinality({s \in window : (end - Strikes[s].timestamp) \div 300 = bins - i})
    IN  /\ end <= v.t /\ v.t < end + 60
        /\ \A i \in 1 .. bins - 1 : v.h[i] = struck(i)
        /\ \/ v.h[bins] = struck(bins)
           \/ struck(bins) = 0 /\ v.h[bins] = struck(0)

ShowsBins(c, v, bins) ==
    /\ Len(v.h) = bins
    /\ \E end \in {hist[h].begun + 60 * Params(c).minute_offset :
                      h \in {q \in Calls : hist[q].at = "done"}},
          m \in AtFirst .. imported : BinsFit(c, v, bins, end, m)

\* The histogram of an answer counts the strikes of the call's own window.
LEMMA HistogramFollows == IInv /\ ShareInv /\ GridInv => HistogramFits
<1> SUFFICES ASSUME IInv, ShareInv, GridInv, NEW c \in Calls, Shown(c), Method(c) \in GridMethods
             PROVE  IF Params(c).minute_length <= 10 THEN DataOf(c).h = << >>
                    ELSE ShowsBins(c, DataOf(c), Params(c).minute_length \div 5)
  BY DEF HistogramFits, ShowsBins, BinsFit
<1> PICK v : v = DataOf(c)
  OBVIOUS
<1>1. AskedOf /\ Planned /\ Stored /\ HistsFound /\ Served(c)
  BY DEF IInv, ShareInv, GridInv, Shown
<1>2. PICK o \in Calls :
         /\ Serves(o, c, call[c].since) /\ prod[o].at = "done" /\ prod[o].begun \in Int
         /\ Method(o) = Method(c) /\ Params(o) = Params(c) /\ HistKeyOf(o) = HistKeyOf(c)
         /\ GridFound(o)
         /\ \E m \in AtFirst .. imported :
               v = GridAnswer(Method(c), Params(c),
                              TimeInterval(Params(c), prod[o].begun), TableOf(m), BinsShown(o))
  BY ShownGrid
<1> PICK b \in Int : b = prod[o].begun
  BY <1>2
<1> PICK p : p = Params(c)
  OBVIOUS
<1> PICK interval : interval = TimeInterval(p, b)
  OBVIOUS
<1> PICK shown : shown = BinsShown(o)
  OBVIOUS
<1>3. PICK m \in AtFirst .. imported :
         v = GridAnswer(Method(c), Params(c), interval, TableOf(m), shown)
  BY <1>2
<1>4. /\ IsGridRequest(Method(c), Params(c))
      /\ asked[c].job[1].grid = GridOf(Method(c), Params(c))
  BY <1>1, GridParams, GridJob
<1>5. p.minute_length \in WindowLengths /\ p.minute_offset \in Int
  BY <1>4 DEF IsGridRequest
<1>6. /\ IsInterval(interval) /\ interval.end = b + 60 * p.minute_offset
      /\ interval.end - interval.start = 60 * p.minute_length
  BY <1>5, GridWindow
<1>7. m \in 0 .. Len(Strikes)
  BY <1>1, <1>3, InTheTable
<1>8. v.t = interval.end /\ v.dt = interval.end - interval.start /\ v.h = shown
  BY <1>3, <1>4, <1>6, <1>7, PictureOfCall
<1>9. p.minute_length \in Nat
  <2>1. p.minute_length \in WindowLengths
    BY <1>5
  <2>2. WindowLengths \subseteq Nat
    BY DEF WindowLengths, MAX_MINUTES_PER_DAY
  <2> QED
    BY <2>1, <2>2, Zenon
<1> PICK minutes \in Nat : minutes = p.minute_length
  BY <1>9, Zenon
<1>10. WantsHistogram(p) <=> minutes > 10
  BY DEF WantsHistogram, HISTOGRAM_MINUTE_THRESHOLD
<1>11. HasHist(o) /\ (prod[o].hist # << >> => hist[prod[o].hist[1]].at = "done")
  BY <1>2 DEF GridFound
<1>12. ASSUME minutes <= 10 PROVE v.h = << >>
  <2>1. ~WantsHistogram(p)
    BY <1>9, <1>10, <1>12
  <2>2. prod[o].hist = << >>
    BY <1>2, <1>11, <2>1 DEF HasHist
  <2> QED
    BY <1>8, <1>12, <2>2 DEF BinsShown
<1>13. ASSUME minutes > 10 PROVE ~(minutes <= 10) /\ ShowsBins(c, v, minutes \div 5)
  <2>1. PICK h \in Calls : prod[o].hist = << h >> /\ Feeds(h, o)
    BY <1>2, <1>10, <1>11, <1>13 DEF HasHist
  <2>2. hist[h].at = "done" /\ shown = hist[h].bins
    BY <1>11, <2>1 DEF BinsShown
  <2>3. /\ Served(h) /\ Method(h) \in GridMethods /\ hist[h].begun \in Int
        /\ BinsFound(h, hist[h].bins)
    BY <1>1, <2>2 DEF HistsFound, HistFound
  <2> PICK a \in Int : a = hist[h].begun
    BY <2>3
  <2>4. a <= b /\ b < a + 60 /\ HistKeyOf(h) = HistKeyOf(c)
    BY <1>2, <2>1 DEF Feeds, HISTOGRAM_TTL
  <2>5. PICK k \in AtFirst .. imported : shown = BinsAt(h, k)
    BY <2>2, <2>3 DEF BinsFound
  <2>6. k \in 0 .. Len(Strikes)
    BY <1>1, <2>5, InTheTable
  <2> PICK q : q = Params(h)
    OBVIOUS
  <2> PICK method : method = Method(h)
    OBVIOUS
  <2> PICK before : before = TimeInterval(q, a)
    OBVIOUS
  <2> PICK table : table = TableOf(k)
    OBVIOUS
  <2>7. shown = BuildHistogram(q.minute_length, HistogramRows(method, q, before, table))
    BY <2>5 DEF BinsAt, HistWindowOf
  <2>8. IsGridRequest(method, q)
    BY <1>1, <2>3, GridParams
  <2>9. q.minute_length \in WindowLengths /\ q.minute_offset \in Int
    BY <2>8 DEF IsGridRequest
  <2>10. /\ IsInterval(before) /\ before.end = a + 60 * q.minute_offset
         /\ before.end - before.start = 60 * q.minute_length
    BY <2>9, GridWindow
  <2> PICK end \in Int : end = before.end
    BY <2>10 DEF IsInterval
  <2> PICK start \in Int : start = before.start
    BY <2>10 DEF IsInterval
  <2>11. /\ q.minute_length = minutes /\ q.minute_offset = p.minute_offset
         /\ HistogramMatch(method, q, before, table) = InWindow(c, start, end, k)
    BY <1>1, <2>3, <2>4, <2>6, HistogramOfCall
  <2>12. table \in Seq(StrikeRecords) /\ \A i \in 1 .. k : table[i] = Strikes[i]
    BY <2>6, TableOfFacts
  <2>13. PICK bins \in Nat \ {0} : bins = minutes \div 5
    <3> PICK n \in Int : n = minutes
      OBVIOUS
    <3> PICK d \in Nat \ {0} : d = 5
      OBVIOUS
    <3> PICK quot \in Int : quot = n \div d
      BY DivBounds
    <3>2. quot * d <= n /\ n < quot * d + d
      BY DivBounds
    <3>3. n > 10
      BY <1>13
    <3>1. quot \in Nat \ {0} /\ quot = minutes \div 5
      BY <3>2, <3>3
    <3> QED
      BY <3>1
  <2> PICK match : match = InWindow(c, start, end, k)
    OBVIOUS
  <2>14. CountsBins(shown, bins, match, table, end)
    <3>2. minutes = q.minute_length
      BY <2>11
    <3>1. before.end - before.start = 60 * minutes
      BY <2>10, <3>2, Zenon
    <3>3. CountsBins(BuildHistogram(minutes, HistogramRows(method, q, before, table)), bins,
                     HistogramMatch(method, q, before, table), table, before.end)
      BY <2>8, <2>10, <2>12, <2>13, <3>1, <3>2, HistogramDrawn
    <3> QED
      BY <2>7, <2>11, <3>2, <3>3
  <2>15. v.dt = end - start /\ v.t = b + 60 * p.minute_offset /\ end = a + 60 * p.minute_offset
    BY <1>6, <1>8, <1>9, <2>10, <2>11
  <2>16. end - v.dt = start
    BY <2>15
  <2>17. end <= v.t /\ v.t < end + 60
    <3> PICK d \in Int : d = 60 * p.minute_offset
      BY <1>5
    <3> QED
      BY <2>4, <2>15
  <2>18. end \in {hist[e].begun + 60 * Params(c).minute_offset :
                     e \in {f \in Calls : hist[f].at = "done"}}
    BY <2>2, <2>15
  <2> DEFINE struck(i) == Cardinality(BinStruck(match, Strikes, end, bins - i))
  <2>19. \A n : BinStruck(match, table, end, n) = BinStruck(match, Strikes, end, n)
    <3>1. match \subseteq 1 .. k
      BY DEF InWindow
    <3>2. \A s \in match : table[s] = Strikes[s]
      BY <2>12, <3>1, Zenon
    <3> QED
      BY ONLY <3>2, SameBins
  <2>20. \A i : struck(i) = Cardinality(BinStruck(match, table, end, bins - i))
    BY <2>19
  <2>21. bins - bins = 0 /\ bins - 0 = bins
    OBVIOUS
  <2> HIDE DEF struck
  <2>22. struck(bins) = Cardinality(BinStruck(match, table, end, 0))
         /\ struck(0) = Cardinality(BinStruck(match, table, end, bins))
    BY <2>20, <2>21
  <2>23. /\ Len(v.h) = bins
         /\ \A i \in 1 .. bins - 1 : v.h[i] = struck(i)
         /\ \/ v.h[bins] = struck(bins)
            \/ struck(bins) = 0 /\ v.h[bins] = struck(0)
    BY <1>8, <2>14, <2>20, <2>22 DEF CountsBins
  <2>24. match = InWindow(c, end - v.dt, end, k)
    BY <2>16
  <2>25. ShowsBins(c, v, bins)
    <3>1. BinsFit(c, v, bins, end, k)
      BY ONLY <2>17, <2>23, <2>24 DEF BinsFit, struck, BinStruck, BinAt
    <3>2. Len(v.h) = bins
      BY <2>23
    <3> QED
      BY <2>5, <2>18, <3>1, <3>2 DEF ShowsBins
  <2>26. ~(minutes <= 10)
    BY <1>9, <1>13
  <2> QED
    BY <2>13, <2>25, <2>26
<1>14. minutes <= 10 \/ minutes > 10
  BY <1>9
<1>15. IF minutes <= 10 THEN v.h = << >> ELSE ShowsBins(c, v, minutes \div 5)
  BY <1>12, <1>13, <1>14
<1> QED
  BY <1>15

\* Requests.PictureOwn, for every set of calls, whatever they ask for, every table of
\* strikes and every order of the queries: the cells that an answer shows are those of
\* the strikes that were stored when the database was asked, in the call's own window,
\* area and region, each drawn at the place that its own coordinates have, with the count
\* and the age that its strikes give, and none below the call's own threshold; though the
\* rows were found by placeholder numbers, were counted from the other edge, and may
\* come from a production that another call began.
THEOREM EveryCallShowsItsGrid == Spec => []PictureOwn
<1>1. Spec => []IInv
  BY InitHolds, StepHolds, PTL DEF Spec
<1>2. Spec => []ShareInv
  BY <1>1, InitShares, StepShares, PTL DEF Spec
<1>3. Spec => []GridInv
  BY <1>1, <1>2, InitGrids, StepGridInv, PTL DEF Spec
<1> QED
  BY <1>1, <1>2, <1>3, PictureFollows, PTL

\* Requests.HistogramFits, likewise: an answer has a histogram only of a window of more
\* than ten minutes, with one bin for every five of them, and every bin counts the
\* strikes of the call's own window and area that are so old, as of an end less than a
\* minute before the answer's own (the histogram may come from the cache of another
\* call, of another cell size or threshold); only the newest bin may hold what is left
\* beyond the oldest instead.
THEOREM EveryHistogramFits == Spec => []HistogramFits
<1>1. Spec => []IInv
  BY InitHolds, StepHolds, PTL DEF Spec
<1>2. Spec => []ShareInv
  BY <1>1, InitShares, StepShares, PTL DEF Spec
<1>3. Spec => []GridInv
  BY <1>1, <1>2, InitGrids, StepGridInv, PTL DEF Spec
<1> QED
  BY <1>1, <1>2, <1>3, HistogramFollows, PTL
-----------------------------------------------------------------------------
(* What is sent *)

\* How many of a datagram a bag has.
HowMany(bag, d) == IF BagIn(d, bag) THEN bag[d] ELSE 0

AddsTo(sum, bag, D, n) ==
    /\ sum \in [DOMAIN sum -> Nat]
    /\ \A d : HowMany(sum, d) = HowMany(bag, d) + (IF d \in D THEN n ELSE 0)

\* Some more of each of some datagrams.
LEMMA BagAdds ==
    ASSUME NEW A, NEW bag \in [A -> Nat], NEW D, NEW n \in Nat,
           NEW more, DOMAIN more = D, \A d \in D : more[d] = n, NEW sum,
           sum = bag (+) more
    PROVE  AddsTo(sum, bag, D, n)
<1>1. /\ DOMAIN bag = A /\ DOMAIN more = D
      /\ \A d \in A : bag[d] \in Nat
      /\ \A d \in D : more[d] = n
  OBVIOUS
<1>2. sum = [e \in A \cup D |-> (IF e \in A THEN bag[e] ELSE 0) + (IF e \in D THEN more[e] ELSE 0)]
  BY <1>1 DEF (+)
<1>3. DOMAIN sum = A \cup D
  BY <1>2
<1>4. \A e \in A \cup D : sum[e] = (IF e \in A THEN bag[e] ELSE 0) + (IF e \in D THEN n ELSE 0)
  BY <1>1, <1>2
<1>5. \A e \in A \cup D : sum[e] \in Nat
  BY <1>1, <1>4
<1>6. sum \in [DOMAIN sum -> Nat]
  BY <1>2, <1>3, <1>5
<1>7. ASSUME NEW d PROVE HowMany(sum, d) = HowMany(bag, d) + (IF d \in D THEN n ELSE 0)
  <2>1. BagIn(d, sum) <=> d \in A \cup D
    BY <1>3 DEF BagIn, BagToSet
  <2>2. BagIn(d, bag) <=> d \in A
    BY <1>1 DEF BagIn, BagToSet
  <2>3. CASE d \in A
    BY <1>1, <1>4, <2>1, <2>2, <2>3 DEF HowMany
  <2>4. CASE d \notin A
    BY <1>4, <2>1, <2>2, <2>4 DEF HowMany
  <2> QED
    BY <2>3, <2>4
<1> QED
  BY <1>6, <1>7 DEF AddsTo

\* Of every datagram of D, n are sent.
Sends(D, n) ==
    /\ metrics' \in [DOMAIN metrics' -> Nat]
    /\ \A d : Copies(d)' = Copies(d) + (IF d \in D THEN n ELSE 0)

Sane == metrics \in [DOMAIN metrics -> Nat]

\* Of everything that is added to what was sent, that many are sent:
LEMMA SendsMany ==
    ASSUME Sane, NEW D, NEW n \in Nat, NEW more, more = [d \in D |-> n],
           metrics' = metrics (+) more
    PROVE  Sends(D, n)
<1>1. metrics' \in [DOMAIN metrics' -> Nat]
      /\ \A d : HowMany(metrics', d) = HowMany(metrics, d) + (IF d \in D THEN n ELSE 0)
  <2> PICK A : A = DOMAIN metrics
    OBVIOUS
  <2> PICK bag \in [A -> Nat] : bag = metrics
    BY DEF Sane
  <2> PICK sum : sum = metrics'
    OBVIOUS
  <2>1. sum = bag (+) more
    OBVIOUS
  <2>2. AddsTo(sum, bag, D, n)
    <3>1. DOMAIN more = D /\ \A d \in D : more[d] = n
      OBVIOUS
    <3> QED
      BY <2>1, <3>1, BagAdds
  <2> QED
    BY <2>2 DEF AddsTo
<1>2. \A d : Copies(d) = HowMany(metrics, d)
  BY DEF Copies, HowMany
<1>3. \A d : Copies(d)' = HowMany(metrics', d)
  BY DEF Copies, HowMany
<1> QED
  BY <1>1, <1>2, <1>3 DEF Sends

\* each once,
LEMMA SendsOnce ==
    ASSUME Sane, NEW D, metrics' = Also(metrics, D)
    PROVE  Sends(D, 1)
<1> PICK n \in Nat : n = 1
  OBVIOUS
<1> PICK more : more = [d \in D |-> n]
  OBVIOUS
<1>1. SetToBag(D) = [d \in D |-> 1]
  BY DEF SetToBag
<1>2. metrics' = metrics (+) more
  BY <1>1 DEF Also
<1>3. Sends(D, n)
  BY <1>2, SendsMany
<1> QED
  BY <1>3

\* or once for each that waits for a histogram.
LEMMA SendsWaiting ==
    ASSUME Sane, NEW h, IsFiniteSet(HistWaiting(h)), metrics' = HistogramSent(h)
    PROVE  Sends(ForHistogram, Cardinality(HistWaiting(h)))
<1> PICK n \in Nat : n = Cardinality(HistWaiting(h))
  BY FS_CardinalityType
<1> PICK more : more = [d \in ForHistogram |-> n]
  OBVIOUS
<1>1. metrics' = metrics (+) more
  BY DEF HistogramSent
<1>2. Sends(ForHistogram, n)
  BY <1>1, SendsMany
<1> QED
  BY <1>2

\* Nothing is sent if nothing changes.
LEMMA SendsNothing ==
    ASSUME Sane, UNCHANGED metrics
    PROVE  Sane' /\ \A d : Copies(d)' = Copies(d)
BY DEF Sane, Copies

\* Copies are numbers.
LEMMA CopiesAreNat ==
    ASSUME Sane
    PROVE  \A d : Copies(d) \in Nat
BY DEF Sane, Copies, BagIn, BagToSet
-----------------------------------------------------------------------------
(* The counters of answers *)

\* A usage entry of a query and a region, and perhaps of ten minutes; a counter
\* that goes with those.
IsOf(e, query, regions, brief) ==
    e.query = query /\ e.region \in regions /\ (brief => e.minute_length = 10)
Tally(key, query, regions, brief) ==
    Count(key) = Cardinality({i \in DOMAIN usage : IsOf(usage[i], query, regions, brief)})

\* A counter that goes up just with the entries of its kind goes with them on.
LEMMA TallyMoves ==
    ASSUME NEW key, NEW query, NEW regions, NEW brief, Tally(key, query, regions, brief),
           usage \in Seq(ToSet(usage)), NEW e, usage' = Append(usage, e), NEW D, Sends(D, 1),
           Incr(key) \in D <=> IsOf(e, query, regions, brief)
    PROVE  Tally(key, query, regions, brief)'
<1> PICK S : S = ToSet(usage)
  OBVIOUS
<1> PICK s \in Seq(S) : s = usage
  OBVIOUS
<1> PICK t : t = usage'
  OBVIOUS
<1> PICK L \in Nat : L = Len(s)
  OBVIOUS
<1>1. DOMAIN s = 1..L /\ t = Append(s, e)
  OBVIOUS
<1>2. DOMAIN t = 1..(L + 1) /\ (\A i \in 1..L : t[i] = s[i]) /\ t[L + 1] = e
  <2>1. s \in Seq(S \cup {e}) /\ e \in S \cup {e}
    BY SeqMonotonic
  <2> QED
    BY <1>1, <2>1, AppendProperties
<1> PICK A : A = {i \in DOMAIN s : IsOf(s[i], query, regions, brief)}
  OBVIOUS
<1> PICK B : B = {i \in DOMAIN t : IsOf(t[i], query, regions, brief)}
  OBVIOUS
<1>3. IsFiniteSet(A) /\ L + 1 \notin A
  <2>1. IsFiniteSet(1..L) /\ A \subseteq 1..L
    <3>1. IsFiniteSet(1..L)
      BY FS_Interval
    <3> QED
      BY <1>1, <3>1
  <2> QED
    BY <2>1, FS_Subset
<1>4. B = IF IsOf(e, query, regions, brief) THEN A \cup {L + 1} ELSE A
  <2>1. \A i : i \in 1..(L + 1) <=> i \in 1..L \/ i = L + 1
    OBVIOUS
  <2>2. \A i : i \in A <=> i \in 1..L /\ IsOf(s[i], query, regions, brief)
    BY <1>1
  <2>3. \A i : i \in B <=> i \in 1..(L + 1) /\ IsOf(t[i], query, regions, brief)
    BY <1>2
  <2>4. \A i \in 1..L : IsOf(t[i], query, regions, brief) <=> IsOf(s[i], query, regions, brief)
    BY <1>2
  <2>5. IsOf(t[L + 1], query, regions, brief) <=> IsOf(e, query, regions, brief)
    BY <1>2
  <2> QED
    BY <2>1, <2>2, <2>3, <2>4, <2>5
<1>5. Count(key) = Cardinality(A) /\ (Count(key)' = Cardinality(B) => Tally(key, query, regions, brief)')
  BY DEF Tally
<1>6. Count(key)' = Count(key) + (IF Incr(key) \in D THEN 1 ELSE 0)
  BY DEF Sends, Count
<1>7. Cardinality(A) \in Nat /\ Cardinality(A \cup {L + 1}) = Cardinality(A) + 1
  BY <1>3, FS_AddElement, FS_CardinalityType
<1>8. CASE IsOf(e, query, regions, brief)
  <2>1. B = A \cup {L + 1} /\ Count(key)' = Count(key) + 1
    BY <1>4, <1>6, <1>8
  <2>2. Count(key)' = Cardinality(B)
    BY <1>5, <1>7, <2>1
  <2> QED
    BY <1>5, <2>2
<1>9. CASE ~IsOf(e, query, regions, brief)
  <2> PICK n \in Nat : n = Count(key)
    BY <1>5, <1>7
  <2>1. B = A /\ Count(key)' = n
    BY <1>4, <1>6, <1>9
  <2>2. Count(key)' = Cardinality(B)
    BY <1>5, <2>1
  <2> QED
    BY <1>5, <2>2
<1> QED
  BY <1>8, <1>9

\* What the counters of an answer are called.
AnswerKeys(method, p) ==
    CASE method = "get_strikes_grid" ->
            {<<"strikes_grid", "total_count">>, <<"strikes_grid", "total_count", p.region>>}
            \cup (IF p.minute_length = 10
                  THEN {<<"strikes_grid", "bg_count">>, <<"strikes_grid", "bg_count", p.region>>} ELSE {})
      [] method = "get_global_strikes_grid" ->
            {<<"strikes_grid", "total_count">>, <<"global_strikes_grid", "total_count">>}
            \cup (IF p.minute_length = 10
                  THEN {<<"strikes_grid", "bg_count">>, <<"global_strikes_grid", "bg_count">>} ELSE {})
      [] method = "get_local_strikes_grid" ->
            {<<"strikes_grid", "total_count">>, <<"local_strikes_grid", "total_count">>,
             <<"local_strikes_grid", "data_area", p.data_area>>}
            \cup (IF p.minute_length = 10
                  THEN {<<"strikes_grid", "bg_count">>, <<"local_strikes_grid", "bg_count">>} ELSE {})
      [] method = "get_global_clusters" ->
            {<<"clusters", "total_count">>, <<"global_clusters", "total_count">>}
            \cup (IF p.minute_length = 10
                  THEN {<<"clusters", "bg_count">>, <<"global_clusters", "bg_count">>} ELSE {})
      [] method = "get_local_clusters" ->
            {<<"clusters", "total_count">>, <<"local_clusters", "total_count">>,
             <<"local_clusters", "data_area", p.data_area>>}
            \cup (IF p.minute_length = 10
                  THEN {<<"clusters", "bg_count">>, <<"local_clusters", "bg_count">>} ELSE {})

\* An answer counts up just those.
LEMMA AnswerKeysFacts ==
    ASSUME NEW method \in DataMethods, NEW p
    PROVE  \A k : Incr(k) \in ForAnswer(method, p) <=> k \in AnswerKeys(method, p)
<1>1. \A a, b : (Incr(a) = Incr(b) <=> a = b) /\ Incr(a) # Gauge(b)
  BY DEF Incr, Gauge
<1>2. \A k, m, K : Incr(k) \in Background(m, K) <=> m = 10 /\ k \in K
  BY <1>1 DEF Background
<1> HIDE DEF Incr, Gauge, Background
<1>0. \A all, own, m, k : Incr(k) \in ForGlobal(all, own, m)
         <=> \/ k = <<all, "total_count">> \/ k = <<own, "total_count">>
             \/ m = 10 /\ (k = <<all, "bg_count">> \/ k = <<own, "bg_count">>)
  BY <1>1, <1>2 DEF ForGlobal
<1>l. \A all, own, m, a, k : Incr(k) \in ForLocal(all, own, m, a)
         <=> Incr(k) \in ForGlobal(all, own, m) \/ k = <<own, "data_area", a>>
  BY <1>1 DEF ForLocal
<1>3. CASE method = "get_strikes_grid"
  <2>1. ForAnswer(method, p) = ForStrikes(p.minute_length, p.region)
    BY <1>3 DEF ForAnswer
  <2> QED
    BY <1>1, <1>2, <1>3, <2>1 DEF ForStrikes, AnswerKeys
<1>4. CASE method = "get_global_strikes_grid"
  <2>1. ForAnswer(method, p) = ForGlobal("strikes_grid", "global_strikes_grid", p.minute_length)
    BY <1>4 DEF ForAnswer
  <2> QED
    BY <1>1, <1>2, <1>4, <1>0, <2>1 DEF AnswerKeys
<1>5. CASE method = "get_local_strikes_grid"
  <2>1. ForAnswer(method, p) = ForLocal("strikes_grid", "local_strikes_grid", p.minute_length, p.data_area)
    BY <1>5 DEF ForAnswer
  <2> QED
    BY <1>1, <1>2, <1>5, <1>0, <1>l, <2>1 DEF AnswerKeys
<1>6. CASE method = "get_global_clusters"
  <2>1. ForAnswer(method, p) = ForGlobal("clusters", "global_clusters", p.minute_length)
    BY <1>6 DEF ForAnswer
  <2> QED
    BY <1>1, <1>2, <1>6, <1>0, <2>1 DEF AnswerKeys
<1>7. CASE method = "get_local_clusters"
  <2>1. ForAnswer(method, p) = ForLocal("clusters", "local_clusters", p.minute_length, p.data_area)
    BY <1>7 DEF ForAnswer
  <2> QED
    BY <1>1, <1>2, <1>7, <1>0, <1>l, <2>1 DEF AnswerKeys
<1> QED
  BY <1>3, <1>4, <1>5, <1>6, <1>7 DEF DataMethods, GridMethods, ClusterMethods

\* All counters of answers go with the usage log.
AnswersTallied ==
    /\ Tally(<<"strikes_grid", "total_count">>, "G", -1 .. MAX_REGION, FALSE)
    /\ Tally(<<"strikes_grid", "bg_count">>, "G", -1 .. MAX_REGION, TRUE)
    /\ Tally(<<"global_strikes_grid", "total_count">>, "G", {0}, FALSE)
    /\ Tally(<<"global_strikes_grid", "bg_count">>, "G", {0}, TRUE)
    /\ Tally(<<"local_strikes_grid", "total_count">>, "G", {-1}, FALSE)
    /\ Tally(<<"local_strikes_grid", "bg_count">>, "G", {-1}, TRUE)
    /\ \A r \in 1 .. MAX_REGION :
          /\ Tally(<<"strikes_grid", "total_count", r>>, "G", {r}, FALSE)
          /\ Tally(<<"strikes_grid", "bg_count", r>>, "G", {r}, TRUE)
    /\ Tally(<<"clusters", "total_count">>, "C", -1 .. 0, FALSE)
    /\ Tally(<<"global_clusters", "total_count">>, "C", {0}, FALSE)
    /\ Tally(<<"local_clusters", "total_count">>, "C", {-1}, FALSE)

BackgroundsTallied ==
    Count(<<"clusters", "bg_count">>)
       = Count(<<"global_clusters", "bg_count">>) + Count(<<"local_clusters", "bg_count">>)

\* A counter goes up with an entry of its kind, and with no other.
GoesWith(keys, e, key, query, regions, brief) == key \in keys <=> IsOf(e, query, regions, brief)

AllGoWith(keys, e) ==
    /\ GoesWith(keys, e, <<"strikes_grid", "total_count">>, "G", -1 .. MAX_REGION, FALSE)
    /\ GoesWith(keys, e, <<"strikes_grid", "bg_count">>, "G", -1 .. MAX_REGION, TRUE)
    /\ GoesWith(keys, e, <<"global_strikes_grid", "total_count">>, "G", {0}, FALSE)
    /\ GoesWith(keys, e, <<"global_strikes_grid", "bg_count">>, "G", {0}, TRUE)
    /\ GoesWith(keys, e, <<"local_strikes_grid", "total_count">>, "G", {-1}, FALSE)
    /\ GoesWith(keys, e, <<"local_strikes_grid", "bg_count">>, "G", {-1}, TRUE)
    /\ \A r \in 1 .. MAX_REGION :
          /\ GoesWith(keys, e, <<"strikes_grid", "total_count", r>>, "G", {r}, FALSE)
          /\ GoesWith(keys, e, <<"strikes_grid", "bg_count", r>>, "G", {r}, TRUE)
    /\ GoesWith(keys, e, <<"clusters", "total_count">>, "C", -1 .. 0, FALSE)
    /\ GoesWith(keys, e, <<"global_clusters", "total_count">>, "C", {0}, FALSE)
    /\ GoesWith(keys, e, <<"local_clusters", "total_count">>, "C", {-1}, FALSE)

\* The entry of an answer and its counters.
LEMMA EntryAndKeys ==
    ASSUME NEW method \in DataMethods, NEW p,
           method = "get_strikes_grid" => p.region \in 1 .. MAX_REGION, NEW e,
           e.query = (IF method \in ClusterMethods THEN "C" ELSE "G"),
           method \in GridMethods => e.minute_length = p.minute_length,
           e.region = (IF method \in {"get_local_strikes_grid", "get_local_clusters"} THEN -1
                       ELSE IF method = "get_strikes_grid" THEN p.region ELSE 0)
    PROVE  AllGoWith(AnswerKeys(method, p), e)
<1> PICK keys : keys = AnswerKeys(method, p)
  OBVIOUS
<1>1. CASE method = "get_strikes_grid"
  <2> PICK r \in 1 .. 7 : r = p.region
    BY <1>1 DEF MAX_REGION
  <2>1. /\ e.query = "G" /\ e.region = r /\ r # 0 /\ r # -1 /\ r \in -1 .. 7
        /\ e.minute_length = p.minute_length
    BY <1>1 DEF GridMethods, ClusterMethods
  <2>2. \A k : k \in keys <=>
              \/ k = <<"strikes_grid", "total_count">> \/ k = <<"strikes_grid", "total_count", r>>
              \/ p.minute_length = 10 /\ \/ k = <<"strikes_grid", "bg_count">>
                                         \/ k = <<"strikes_grid", "bg_count", r>>
    BY <1>1 DEF AnswerKeys
  <2>3. AllGoWith(keys, e)
    BY <2>1, <2>2 DEF AllGoWith, GoesWith, IsOf, MAX_REGION
  <2> QED
    BY <2>3
<1>2. CASE method = "get_global_strikes_grid"
  <2>1. e.query = "G" /\ e.region = 0 /\ e.minute_length = p.minute_length
    BY <1>2 DEF GridMethods, ClusterMethods
  <2>2. \A k : k \in keys <=>
              \/ k = <<"strikes_grid", "total_count">> \/ k = <<"global_strikes_grid", "total_count">>
              \/ p.minute_length = 10 /\ \/ k = <<"strikes_grid", "bg_count">>
                                         \/ k = <<"global_strikes_grid", "bg_count">>
    BY <1>2 DEF AnswerKeys
  <2>3. AllGoWith(keys, e)
    BY <2>1, <2>2 DEF AllGoWith, GoesWith, IsOf, MAX_REGION
  <2> QED
    BY <2>3
<1>3. CASE method = "get_local_strikes_grid"
  <2>1. e.query = "G" /\ e.region = -1 /\ e.minute_length = p.minute_length
    BY <1>3 DEF GridMethods, ClusterMethods
  <2>2. \A k : k \in keys <=>
              \/ k = <<"strikes_grid", "total_count">> \/ k = <<"local_strikes_grid", "total_count">>
              \/ k = <<"local_strikes_grid", "data_area", p.data_area>>
              \/ p.minute_length = 10 /\ \/ k = <<"strikes_grid", "bg_count">>
                                         \/ k = <<"local_strikes_grid", "bg_count">>
    BY <1>3 DEF AnswerKeys
  <2>3. AllGoWith(keys, e)
    BY <2>1, <2>2 DEF AllGoWith, GoesWith, IsOf, MAX_REGION
  <2> QED
    BY <2>3
<1>4. CASE method = "get_global_clusters"
  <2>1. e.query = "C" /\ e.region = 0
    BY <1>4 DEF ClusterMethods
  <2>2. \A k : k \in keys <=>
              \/ k = <<"clusters", "total_count">> \/ k = <<"global_clusters", "total_count">>
              \/ p.minute_length = 10 /\ \/ k = <<"clusters", "bg_count">>
                                         \/ k = <<"global_clusters", "bg_count">>
    BY <1>4 DEF AnswerKeys
  <2>3. AllGoWith(keys, e)
    BY <2>1, <2>2 DEF AllGoWith, GoesWith, IsOf, MAX_REGION
  <2> QED
    BY <2>3
<1>5. CASE method = "get_local_clusters"
  <2>1. e.query = "C" /\ e.region = -1
    BY <1>5 DEF ClusterMethods
  <2>2. \A k : k \in keys <=>
              \/ k = <<"clusters", "total_count">> \/ k = <<"local_clusters", "total_count">>
              \/ k = <<"local_clusters", "data_area", p.data_area>>
              \/ p.minute_length = 10 /\ \/ k = <<"clusters", "bg_count">>
                                         \/ k = <<"local_clusters", "bg_count">>
    BY <1>5 DEF AnswerKeys
  <2>3. AllGoWith(keys, e)
    BY <2>1, <2>2 DEF AllGoWith, GoesWith, IsOf, MAX_REGION
  <2> QED
    BY <2>3
<1> QED
  BY <1>1, <1>2, <1>3, <1>4, <1>5 DEF DataMethods, GridMethods, ClusterMethods

\* Both flavours of clusters count among all that are small.
LEMMA BackgroundKeys ==
    ASSUME NEW method \in DataMethods, NEW p, NEW keys, keys = AnswerKeys(method, p)
    PROVE  /\ ~ (<<"global_clusters", "bg_count">> \in keys /\ <<"local_clusters", "bg_count">> \in keys)
           /\ <<"clusters", "bg_count">> \in keys
                 <=> <<"global_clusters", "bg_count">> \in keys \/ <<"local_clusters", "bg_count">> \in keys
<1>1. CASE method \in GridMethods
  BY <1>1 DEF AnswerKeys, GridMethods
<1>2. CASE method = "get_global_clusters"
  BY <1>2 DEF AnswerKeys
<1>3. CASE method = "get_local_clusters"
  BY <1>3 DEF AnswerKeys
<1> QED
  BY <1>1, <1>2, <1>3 DEF DataMethods, ClusterMethods

\* A step that says nothing of answers.
OfAnswers(key) == key[2] \in {"total_count", "bg_count"}
SilentOnAnswers == UNCHANGED usage /\ \A key : OfAnswers(key) => Count(key)' = Count(key)

\* Such a step leaves their counters as they are.
LEMMA SilenceKeeps ==
    ASSUME AnswersTallied, BackgroundsTallied, SilentOnAnswers
    PROVE  AnswersTallied' /\ BackgroundsTallied'
<1>1. \A key, query, regions, brief :
         OfAnswers(key) /\ Tally(key, query, regions, brief) => Tally(key, query, regions, brief)'
  BY DEF SilentOnAnswers, Tally
<1>2. \A a, b : OfAnswers(<<a, b>>) <=> b \in {"total_count", "bg_count"}
  BY DEF OfAnswers
<1>3. \A a, b, r : OfAnswers(<<a, b, r>>) <=> b \in {"total_count", "bg_count"}
  BY DEF OfAnswers
<1>4. AnswersTallied'
  BY <1>1, <1>2, <1>3 DEF AnswersTallied
<1>5. BackgroundsTallied'
  BY <1>2 DEF SilentOnAnswers, BackgroundsTallied
<1> QED
  BY <1>4, <1>5

\* What productions send says nothing of answers.
LEMMA ProductionsAreSilent ==
    \A key : OfAnswers(key) =>
        /\ Incr(key) \notin ForGridQuery /\ Incr(key) \notin ForClustersQuery
        /\ Incr(key) \notin ForHistogram /\ \A method : Incr(key) \notin ForTotal(method)
<1> SUFFICES ASSUME NEW key, OfAnswers(key)
             PROVE  /\ Incr(key) \notin ForGridQuery /\ Incr(key) \notin ForClustersQuery
                    /\ Incr(key) \notin ForHistogram /\ \A method : Incr(key) \notin ForTotal(method)
  OBVIOUS
<1>1. \A a, b : (Incr(a) = Incr(b) <=> a = b) /\ Incr(a) # Gauge(b) /\ Incr(a) # Timing(b)
  BY DEF Incr, Gauge, Timing
<1>2. key # <<"strikes_grid_query", "count">> /\ key # <<"clusters_query", "count">>
      /\ key # <<"histogram", "query", "count">>
  BY DEF OfAnswers
<1> QED
  BY <1>1, <1>2 DEF ForGridQuery, ForClustersQuery, ForHistogram, ForTotal

\* An answer is told to the counters and to the usage log alike.
LEMMA AnswerTallies ==
    ASSUME AskedOf, Planned, Shapes, WaitsServed, Sane, AnswersTallied, BackgroundsTallied,
           NEW c \in Calls, AnswerResult(c)
    PROVE  AnswersTallied' /\ BackgroundsTallied' /\ Sends(ForAnswer(Method(c), Params(c)), 1)
<1> PICK method : method = Method(c)
  OBVIOUS
<1> PICK p : p = Params(c)
  OBVIOUS
<1> PICK D : D = ForAnswer(method, p)
  OBVIOUS
<1>1. PICK fill, request : usage' = Append(usage, UsageEntry(method, GivenBy(c), p, fill, request, now))
  BY DEF AnswerResult
<1> PICK e : e = UsageEntry(method, GivenBy(c), p, fill, request, now)
  OBVIOUS
<1>2. usage' = Append(usage, e) /\ usage \in Seq(ToSet(usage))
  BY <1>1 DEF Shapes
<1>3. Served(c) /\ method \in DataMethods
  <2>1. Served(c)
    BY DEF AnswerResult, WaitsServed
  <2> QED
    BY <2>1, ServedFacts
<1>4. Sends(D, 1)
  <2>1. metrics' = Also(metrics, D)
    BY DEF AnswerResult
  <2> QED
    BY <2>1, SendsOnce
<1>5. /\ e.query = (IF method \in ClusterMethods THEN "C" ELSE "G")
      /\ method \in GridMethods => e.minute_length = p.minute_length
      /\ e.region = (IF method \in {"get_local_strikes_grid", "get_local_clusters"} THEN -1
                     ELSE IF method = "get_strikes_grid" THEN p.region ELSE 0)
  BY DEF UsageEntry, GridMethods, ClusterMethods
<1>6. method = "get_strikes_grid" => p.region \in 1 .. MAX_REGION
  BY <1>3, GridParams DEF IsGridRequest, GridMethods
<1> PICK keys : keys = AnswerKeys(method, p)
  OBVIOUS
<1>7. \A k : Incr(k) \in D <=> k \in keys
  BY <1>3, AnswerKeysFacts
<1>8. AllGoWith(keys, e)
  BY <1>3, <1>5, <1>6, EntryAndKeys
<1>9. ASSUME NEW key, NEW query, NEW regions, NEW brief, Tally(key, query, regions, brief),
             GoesWith(keys, e, key, query, regions, brief)
      PROVE  Tally(key, query, regions, brief)'
  <2>1. Incr(key) \in D <=> IsOf(e, query, regions, brief)
    BY <1>7, <1>9 DEF GoesWith
  <2> QED
    BY <1>2, <1>4, <1>9, <2>1, TallyMoves
<1>10. AnswersTallied'
  BY <1>8, <1>9 DEF AllGoWith, AnswersTallied
<1>11. BackgroundsTallied'
  <2>1. /\ ~ (<<"global_clusters", "bg_count">> \in keys /\ <<"local_clusters", "bg_count">> \in keys)
        /\ <<"clusters", "bg_count">> \in keys
              <=> <<"global_clusters", "bg_count">> \in keys \/ <<"local_clusters", "bg_count">> \in keys
    BY <1>3, BackgroundKeys
  <2>2. \A k : Count(k)' = Count(k) + (IF k \in keys THEN 1 ELSE 0)
    BY <1>4, <1>7 DEF Sends, Count
  <2>3. \A k : Count(k) \in Nat
    BY CopiesAreNat DEF Count
  <2> PICK g \in Nat : g = Count(<<"global_clusters", "bg_count">>)
    BY <2>3
  <2> PICK l \in Nat : l = Count(<<"local_clusters", "bg_count">>)
    BY <2>3
  <2>4. Count(<<"clusters", "bg_count">>) = g + l
    BY DEF BackgroundsTallied
  <2>5. /\ Count(<<"global_clusters", "bg_count">>)'
              = g + (IF <<"global_clusters", "bg_count">> \in keys THEN 1 ELSE 0)
        /\ Count(<<"local_clusters", "bg_count">>)'
              = l + (IF <<"local_clusters", "bg_count">> \in keys THEN 1 ELSE 0)
        /\ Count(<<"clusters", "bg_count">>)'
              = g + l + (IF <<"clusters", "bg_count">> \in keys THEN 1 ELSE 0)
    BY <2>2, <2>4
  <2> QED
    BY <2>1, <2>5 DEF BackgroundsTallied
<1> QED
  BY <1>4, <1>10, <1>11
-----------------------------------------------------------------------------
(* What is counted of productions *)

\* What is counted of productions: the queries of grids and of clusters, the
\* histograms, and the productions of a name that came to their end.
GridQueries == Incr(<<"strikes_grid_query", "count">>)
ClusterQueries == Incr(<<"clusters_query", "count">>)
Histograms == Incr(<<"histogram", "query", "count">>)
Totals(name) == Timing(<<name, "total">>)

\* Each of them goes up with its own datagrams and with no others.
LEMMA WhatIsCounted ==
    /\ \A d : d \in ForGridQuery <=> d = GridQueries
    /\ \A d : d \in ForClustersQuery <=> d = ClusterQueries
    /\ \A d, method : d \in ForTotal(method) <=> d = Totals(TotalOf(method))
    /\ Histograms \in ForHistogram
    /\ GridQueries \notin ForHistogram /\ ClusterQueries \notin ForHistogram
    /\ \A name : Totals(name) \notin ForHistogram
    /\ GridQueries # ClusterQueries /\ GridQueries # Histograms /\ ClusterQueries # Histograms
    /\ \A name : Totals(name) # GridQueries /\ Totals(name) # ClusterQueries /\ Totals(name) # Histograms
    /\ \A a, b : Totals(a) = Totals(b) <=> a = b
<1>1. \A a, b : /\ (Incr(a) = Incr(b) <=> a = b) /\ Incr(a) # Gauge(b) /\ Incr(a) # Timing(b)
                /\ Timing(a) # Gauge(b) /\ (Timing(a) = Timing(b) <=> a = b)
  BY DEF Incr, Gauge, Timing
<1> HIDE DEF Incr, Gauge, Timing
<1>2. \A a, b : <<a, "total">> = <<b, "total">> <=> a = b
  OBVIOUS
<1>3. /\ <<"strikes_grid_query", "count">> # <<"clusters_query", "count">>
      /\ <<"strikes_grid_query", "count">> # <<"histogram", "query", "count">>
      /\ <<"clusters_query", "count">> # <<"histogram", "query", "count">>
  OBVIOUS
<1> QED
  BY <1>1, <1>2, <1>3
     DEF ForGridQuery, ForClustersQuery, ForTotal, ForHistogram, GridQueries, ClusterQueries,
         Histograms, Totals

\* An answer says nothing of productions.
LEMMA AnswersAreSilent ==
    ASSUME NEW method \in DataMethods, NEW p
    PROVE  /\ GridQueries \notin ForAnswer(method, p) /\ ClusterQueries \notin ForAnswer(method, p)
           /\ Histograms \notin ForAnswer(method, p)
           /\ \A name : Totals(name) \notin ForAnswer(method, p)
<1>1. /\ <<"strikes_grid_query", "count">> \notin AnswerKeys(method, p)
      /\ <<"clusters_query", "count">> \notin AnswerKeys(method, p)
      /\ <<"histogram", "query", "count">> \notin AnswerKeys(method, p)
  BY DEF AnswerKeys, DataMethods, GridMethods, ClusterMethods
<1>2. \A a, b : Timing(a) # Incr(b) /\ Timing(a) # Gauge(b)
  BY DEF Incr, Gauge, Timing
<1> HIDE DEF Incr, Gauge, Timing
<1>3. \A k, m, K : Timing(k) \notin Background(m, K)
  BY <1>2 DEF Background
<1>4. \A all, own, m, a, k : Timing(k) \notin ForGlobal(all, own, m) /\ Timing(k) \notin ForLocal(all, own, m, a)
  BY <1>2, <1>3 DEF ForGlobal, ForLocal
<1>5. \A m, r, k : Timing(k) \notin ForStrikes(m, r)
  BY <1>2, <1>3 DEF ForStrikes
<1>6. \A k : Timing(k) \notin ForAnswer(method, p)
  BY <1>4, <1>5 DEF ForAnswer, DataMethods, GridMethods, ClusterMethods
<1> QED
  BY <1>1, <1>6, AnswerKeysFacts DEF GridQueries, ClusterQueries, Histograms, Totals

\* n is the number of the elements of S, which are finitely many.
IsNumberOf(n, S) == IsFiniteSet(S) /\ n = Cardinality(S)

\* n is the number of all of S, and of some of L.
Between(n, S, L) == \E U \in SUBSET (S \cup L) : S \subseteq U /\ IsNumberOf(n, U)

\* As many more are counted as come to the set:
LEMMA NumbersGrow ==
    ASSUME NEW n, NEW S, IsNumberOf(n, S), NEW W, IsFiniteSet(W), W \cap S = {},
           NEW k, k = n + Cardinality(W), NEW T, T = S \cup W
    PROVE  IsNumberOf(k, T)
<1>1. IsFiniteSet(S) /\ n = Cardinality(S)
  BY DEF IsNumberOf
<1>2. IsFiniteSet(S \cup W) /\ Cardinality(S \cup W) = Cardinality(S) + Cardinality(W) - Cardinality(S \cap W)
  BY <1>1, FS_Union
<1>3. S \cap W = {} /\ Cardinality({}) = 0
  BY FS_EmptySet
<1>4. Cardinality(S) \in Nat /\ Cardinality(W) \in Nat
  BY <1>1, FS_CardinalityType
<1>5. Cardinality(S \cup W) = Cardinality(S) + Cardinality(W)
  <2> PICK a \in Nat : a = Cardinality(S)
    BY <1>4
  <2> PICK b \in Nat : b = Cardinality(W)
    BY <1>4
  <2>1. Cardinality(S \cap W) = 0
    BY <1>3
  <2>2. Cardinality(S \cup W) = a + b - 0
    BY <1>2, <2>1
  <2> QED
    BY <2>2
<1>6. k = Cardinality(S \cup W)
  BY <1>1, <1>5
<1> QED
  BY <1>2, <1>6 DEF IsNumberOf

\* one,
LEMMA OneMore ==
    ASSUME NEW n, NEW S, IsNumberOf(n, S), NEW c, c \notin S, NEW k, k = n + 1
    PROVE  IsNumberOf(k, S \cup {c})
<1>1. IsFiniteSet({c}) /\ Cardinality({c}) = 1 /\ {c} \cap S = {}
  BY FS_Singleton
<1>2. k = n + Cardinality({c})
  BY <1>1
<1> QED
  BY <1>1, <1>2, NumbersGrow

\* or of the part of L that is counted.
LEMMA BetweenGrows ==
    ASSUME NEW n, NEW S, NEW L, Between(n, S, L), NEW W, IsFiniteSet(W), W \cap (S \cup L) = {},
           NEW k, k = n + Cardinality(W), NEW S1, NEW L1, S1 \subseteq S \cup W,
           S \cup L \cup W \subseteq S1 \cup L1
    PROVE  Between(k, S1, L1)
<1>1. PICK U : IsNumberOf(n, U) /\ S \subseteq U /\ U \subseteq S \cup L
  BY DEF Between
<1>2. W \cap U = {}
  BY <1>1
<1>3. IsNumberOf(k, U \cup W)
  BY <1>1, <1>2, NumbersGrow
<1> PICK U1 : U1 = U \cup W
  OBVIOUS
<1>4. IsNumberOf(k, U1) /\ S1 \subseteq U1 /\ U1 \subseteq S1 \cup L1
  BY <1>1, <1>3
<1> QED
  BY <1>4 DEF Between

\* Nothing more is counted, though some of it may have got lost.
LEMMA BetweenStays ==
    ASSUME NEW n, NEW S, NEW L, Between(n, S, L), NEW S1, NEW L1, S1 \subseteq S, S \cup L \subseteq S1 \cup L1
    PROVE  Between(n, S1, L1)
BY DEF Between

\* The number between is one.
LEMMA BetweenBounds ==
    ASSUME NEW n, NEW S, NEW L, Between(n, S, L), NEW M, IsFiniteSet(M), S \cup L \subseteq M
    PROVE  n \in Cardinality(S) .. Cardinality(M)
<1>1. PICK U : IsNumberOf(n, U) /\ S \subseteq U /\ U \subseteq S \cup L
  BY DEF Between
<1>2. IsFiniteSet(U) /\ n = Cardinality(U) /\ n \in Nat
  BY <1>1, FS_CardinalityType DEF IsNumberOf
<1>3. IsFiniteSet(S) /\ Cardinality(S) <= Cardinality(U) /\ Cardinality(S) \in Nat
  BY <1>1, <1>2, FS_Subset, FS_CardinalityType
<1>4. Cardinality(U) <= Cardinality(M) /\ Cardinality(M) \in Nat
  BY <1>1, FS_Subset, FS_CardinalityType
<1> QED
  BY <1>2, <1>3, <1>4
-----------------------------------------------------------------------------
(* The productions counted *)

\* The cache has one histogram of a key.
OneHistPerKey == \A h, k \in histcached : HistKeyOf(h) = HistKeyOf(k) => h = k

\* The productions of grids that want a histogram and have it, and those that
\* failed; of clusters of now that have looked for the newest, and those that
\* failed; and of a name, those that came to their end.
WantsOne(c) == Method(c) \in GridMethods /\ WantsHistogram(Params(c))
IsCurrent(c) == Method(c) \in ClusterMethods /\ Params(c).minute_offset = 0

HasOne(c) ==
    prod[c].at \in {"running", "done"} /\ WantsOne(c) /\ hist[prod[c].hist[1]].at = "done"
LostOne(c) == prod[c].at = "failed" /\ WantsOne(c)
HasLooked(c) ==
    /\ prod[c].at = "done" \/ (ClustersRunning(c) /\ prod[c].anchor # << >>)
    /\ IsCurrent(c)
GaveUp(c) == prod[c].at = "failed" /\ IsCurrent(c)
HasEnded(c, name) == prod[c].at = "done" /\ Method(c) \in DataMethods /\ TotalOf(Method(c)) = name

Having == {c \in Calls : HasOne(c)}
Losing == {c \in Calls : LostOne(c)}
Looked == {c \in Calls : HasLooked(c)}
Failing == {c \in Calls : GaveUp(c)}
Ended(name) == {c \in Calls : HasEnded(c, name)}
TotalNames == {TotalOf(m) : m \in DataMethods}

GridsCounted == IsNumberOf(Copies(GridQueries), Begun(GridMethods))
HistsCounted == Between(Copies(Histograms), Having, Losing)
ClustersCounted ==
    /\ IsFiniteSet(Begun(ClusterMethods))
    /\ Between(Copies(ClusterQueries) - Cardinality(Begun(ClusterMethods)), Looked, Failing)
TotalsCounted == \A name \in TotalNames : IsNumberOf(Copies(Totals(name)), Ended(name))

CountInv ==
    /\ Sane /\ OneHistPerKey
    /\ AnswersTallied /\ BackgroundsTallied
    /\ GridsCounted /\ HistsCounted /\ ClustersCounted /\ TotalsCounted

ProductionsCounted == GridsCounted /\ HistsCounted /\ ClustersCounted /\ TotalsCounted

\* What is known of productions when a step begins.
ProductionFacts == AskedOf /\ Shapes /\ CacheInv /\ Clocks /\ ClustersFound /\ GridInv

\* A production that runs is that of a grid, or of clusters, and the one of a grid
\* that wants a histogram has one.
LEMMA RunningFacts ==
    ASSUME ProductionFacts, NEW c \in Calls
    PROVE  /\ prod[c].at # "none" => Served(c) /\ Method(c) \in DataMethods
           /\ GridRunning(c) => Method(c) \in GridMethods /\ Method(c) \notin ClusterMethods
           /\ ClustersRunning(c) => Method(c) \in ClusterMethods /\ Method(c) \notin GridMethods
           /\ Method(c) \in GridMethods /\ prod[c].at \in {"running", "done"} =>
                 IF WantsHistogram(Params(c))
                 THEN \E h \in Calls : prod[c].hist = << h >> /\ prod[c].hist[1] = h
                 ELSE prod[c].hist = << >>
<1>1. /\ AskedOf /\ (~Served(c) => prod[c].at = "none")
      /\ Method(c) \in ClusterMethods => Found(c)
      /\ Method(c) \in GridMethods => GridFound(c)
  BY DEF ProductionFacts, CacheInv, BegunServed, ClustersFound, GridInv, GridsFound
<1>2. prod[c].at # "none" => Served(c) /\ Method(c) \in DataMethods
  BY <1>1, ServedFacts
<1>3. \A m : m \in DataMethods <=> m \in GridMethods \/ m \in ClusterMethods
  BY DEF DataMethods
<1>4. \A m \in GridMethods : m \notin ClusterMethods
  BY DEF GridMethods, ClusterMethods
<1>5. GridRunning(c) => Method(c) \notin ClusterMethods /\ Method(c) \in GridMethods
  BY <1>1, <1>2, <1>3 DEF GridRunning, Found
<1>6. ClustersRunning(c) => Method(c) \notin GridMethods /\ Method(c) \in ClusterMethods
  BY <1>1, <1>2, <1>3 DEF ClustersRunning, GridFound
<1>7. ASSUME Method(c) \in GridMethods, prod[c].at \in {"running", "done"}
      PROVE  IF WantsHistogram(Params(c))
             THEN \E h \in Calls : prod[c].hist = << h >> /\ prod[c].hist[1] = h
             ELSE prod[c].hist = << >>
  <2>1. HasHist(c)
    BY <1>1, <1>7 DEF GridFound
  <2>2. \A h : << h >>[1] = h
    OBVIOUS
  <2> QED
    BY <2>1, <2>2 DEF HasHist
<1> QED
  BY <1>2, <1>5, <1>6, <1>7

\* What is counted of a call is as it was.
Stays(d) ==
    /\ HasOne(d)' = HasOne(d) /\ LostOne(d)' = LostOne(d)
    /\ HasLooked(d)' = HasLooked(d) /\ GaveUp(d)' = GaveUp(d)
    /\ \A name : HasEnded(d, name)' = HasEnded(d, name)
    /\ (prod[d].at # "none")' = (prod[d].at # "none")

\* A call whose production stays, and the histogram that it waits for.
LEMMA CallStays ==
    ASSUME UNCHANGED asked, NEW d \in Calls, prod'[d] = prod[d],
           prod[d].at \in {"running", "done"} /\ WantsOne(d) =>
              (hist'[prod[d].hist[1]].at = "done" <=> hist[prod[d].hist[1]].at = "done")
    PROVE  Stays(d)
<1>1. /\ Method(d)' = Method(d) /\ Params(d)' = Params(d)
      /\ WantsOne(d)' = WantsOne(d) /\ IsCurrent(d)' = IsCurrent(d)
  BY DEF Method, Params, WantsOne, IsCurrent
<1>2. HasOne(d)' = HasOne(d)
  BY <1>1 DEF HasOne
<1>3. LostOne(d)' = LostOne(d) /\ GaveUp(d)' = GaveUp(d)
  BY <1>1 DEF LostOne, GaveUp
<1>4. ClustersRunning(d)' = ClustersRunning(d)
  BY DEF ClustersRunning
<1>5. HasLooked(d)' = HasLooked(d)
  BY <1>1, <1>4 DEF HasLooked
<1>6. \A name : HasEnded(d, name)' = HasEnded(d, name)
  BY <1>1 DEF HasEnded
<1> QED
  BY <1>2, <1>3, <1>5, <1>6 DEF Stays

\* The step only concerns what is counted of c.
AllStayBut(c) == \A d \in Calls : d = c \/ Stays(d)

\* A step that moves only the production of c does.
LEMMA OthersStay ==
    ASSUME ProductionFacts, UNCHANGED asked, NEW c \in Calls,
           \A d \in Calls : d # c => prod'[d] = prod[d],
           \A h \in Calls : hist'[h].at = "done" <=> hist[h].at = "done"
    PROVE  AllStayBut(c)
<1> SUFFICES ASSUME NEW d \in Calls, d # c PROVE Stays(d)
  BY DEF AllStayBut
<1>1. ASSUME prod[d].at \in {"running", "done"}, WantsOne(d) PROVE prod[d].hist[1] \in Calls
  BY <1>1, RunningFacts DEF WantsOne
<1>2. prod'[d] = prod[d]
  OBVIOUS
<1> QED
  BY <1>1, <1>2, CallStays

\* Nothing more is counted, of grids, of histograms, of clusters, or of ends.
GridsSame == Begun(GridMethods)' = Begun(GridMethods) /\ Copies(GridQueries)' = Copies(GridQueries)
HistsSame ==
    /\ Having' \subseteq Having /\ Having \cup Losing \subseteq Having' \cup Losing'
    /\ Copies(Histograms)' = Copies(Histograms)
ClustersSame ==
    /\ Begun(ClusterMethods)' = Begun(ClusterMethods)
    /\ Looked' \subseteq Looked /\ Looked \cup Failing \subseteq Looked' \cup Failing'
    /\ Copies(ClusterQueries)' = Copies(ClusterQueries)
TotalsSame ==
    \A name : Ended(name)' = Ended(name) /\ Copies(Totals(name))' = Copies(Totals(name))

\* What nothing is added to counts on.
LEMMA SameCounted ==
    /\ GridsCounted /\ GridsSame => GridsCounted'
    /\ HistsCounted /\ HistsSame => HistsCounted'
    /\ ClustersCounted /\ ClustersSame => ClustersCounted'
    /\ TotalsCounted /\ TotalsSame => TotalsCounted'
<1>1. GridsCounted /\ GridsSame => GridsCounted'
  BY DEF GridsCounted, GridsSame
<1>2. HistsCounted /\ HistsSame => HistsCounted'
  BY BetweenStays DEF HistsCounted, HistsSame
<1>3. ClustersCounted /\ ClustersSame => ClustersCounted'
  BY BetweenStays DEF ClustersCounted, ClustersSame
<1>4. TotalsCounted /\ TotalsSame => TotalsCounted'
  BY DEF TotalsCounted, TotalsSame
<1> QED
  BY <1>1, <1>2, <1>3, <1>4

\* The sets are, but for c, as they were.
LEMMA SetsStay ==
    ASSUME UNCHANGED asked, NEW c \in Calls, AllStayBut(c)
    PROVE  \A d : d # c =>
              /\ (d \in Having' <=> d \in Having) /\ (d \in Losing' <=> d \in Losing)
              /\ (d \in Looked' <=> d \in Looked) /\ (d \in Failing' <=> d \in Failing)
              /\ \A name : d \in Ended(name)' <=> d \in Ended(name)
              /\ \A methods : d \in Begun(methods)' <=> d \in Begun(methods)
<1> SUFFICES ASSUME NEW d, d # c
             PROVE  /\ (d \in Having' <=> d \in Having) /\ (d \in Losing' <=> d \in Losing)
                    /\ (d \in Looked' <=> d \in Looked) /\ (d \in Failing' <=> d \in Failing)
                    /\ \A name : d \in Ended(name)' <=> d \in Ended(name)
                    /\ \A methods : d \in Begun(methods)' <=> d \in Begun(methods)
  OBVIOUS
<1>1. d \in Calls => Stays(d)
  BY DEF AllStayBut
<1>2. (d \in Having' <=> d \in Having) /\ (d \in Losing' <=> d \in Losing)
  BY <1>1 DEF Stays, Having, Losing
<1>3. (d \in Looked' <=> d \in Looked) /\ (d \in Failing' <=> d \in Failing)
  BY <1>1 DEF Stays, Looked, Failing
<1>4. \A name : d \in Ended(name)' <=> d \in Ended(name)
  BY <1>1 DEF Stays, Ended
<1>5. \A methods : d \in Begun(methods)' <=> d \in Begun(methods)
  BY <1>1 DEF Stays, Begun, Method
<1> QED
  BY <1>2, <1>3, <1>4, <1>5

\* A step that says nothing of productions.
SilentOnProductions ==
    /\ Copies(GridQueries)' = Copies(GridQueries) /\ Copies(Histograms)' = Copies(Histograms)
    /\ Copies(ClusterQueries)' = Copies(ClusterQueries)
    /\ \A name : Copies(Totals(name))' = Copies(Totals(name))

\* It counts on if the productions stay.
LEMMA QuietCounts ==
    ASSUME ProductionsCounted, UNCHANGED asked, SilentOnProductions, \A d \in Calls : Stays(d)
    PROVE  ProductionsCounted'
<1>1. Having' = Having /\ Losing' = Losing /\ Looked' = Looked /\ Failing' = Failing
  BY DEF Stays, Having, Losing, Looked, Failing
<1>2. \A name : Ended(name)' = Ended(name)
  BY DEF Stays, Ended
<1>3. Begun(GridMethods)' = Begun(GridMethods) /\ Begun(ClusterMethods)' = Begun(ClusterMethods)
  BY DEF Stays, Begun, Method
<1>4. GridsSame /\ HistsSame /\ ClustersSame /\ TotalsSame
  BY <1>1, <1>2, <1>3 DEF GridsSame, HistsSame, ClustersSame, TotalsSame, SilentOnProductions
<1> QED
  BY <1>4, SameCounted DEF ProductionsCounted

\* A query of a grid is no more than what was counted as it began.
LEMMA GridQueriedCounts ==
    ASSUME ProductionFacts, ProductionsCounted, NEW c \in Calls, GridQueried(c),
           SilentOnProductions
    PROVE  ProductionsCounted'
<1> PICK r : r = GridRows(Method(c), Params(c), IntervalOf(c), Table)
  OBVIOUS
<1>1. /\ prod' = [prod EXCEPT ![c].rows = << r >>] /\ UNCHANGED <<asked, hist>>
      /\ GridRunning(c)
  BY DEF GridQueried
<1>2. prod'[c].at = prod[c].at /\ prod'[c].hist = prod[c].hist
  <2>1. prod'[c] = [prod[c] EXCEPT !.rows = << r >>] /\ "at" \in DOMAIN prod[c]
    BY <1>1 DEF Shapes, ProductionFacts
  <2> QED
    BY <2>1
<1>3. AllStayBut(c)
  <2>1. \A d \in Calls : d # c => prod'[d] = prod[d]
    BY <1>1 DEF Shapes, ProductionFacts
  <2> QED
    BY <1>1, <2>1, OthersStay
<1>4. Stays(c)
  <2>1. /\ Method(c)' = Method(c) /\ Params(c)' = Params(c)
        /\ WantsOne(c)' = WantsOne(c) /\ IsCurrent(c)' = IsCurrent(c)
    BY <1>1 DEF Method, Params, WantsOne, IsCurrent
  <2>2. Method(c) \notin ClusterMethods
    BY <1>1, RunningFacts
  <2>3. HasOne(c)' = HasOne(c)
    BY <1>1, <1>2, <2>1 DEF HasOne
  <2>4. LostOne(c)' = LostOne(c) /\ GaveUp(c)' = GaveUp(c)
    BY <1>2, <2>1 DEF LostOne, GaveUp
  <2>5. HasLooked(c)' = HasLooked(c)
    BY <2>1, <2>2 DEF HasLooked, IsCurrent
  <2>6. \A name : HasEnded(c, name)' = HasEnded(c, name)
    BY <1>2, <2>1 DEF HasEnded
  <2> QED
    BY <1>2, <2>3, <2>4, <2>5, <2>6 DEF Stays
<1>5. \A d \in Calls : Stays(d)
  BY <1>3, <1>4 DEF AllStayBut
<1> QED
  BY <1>1, <1>5, QuietCounts

\* A producer that begins was not counted before.
LEMMA NotCounted ==
    ASSUME NEW c \in Calls, prod[c].at = "none"
    PROVE  /\ c \notin Having /\ c \notin Losing /\ c \notin Looked /\ c \notin Failing
           /\ (\A methods : c \notin Begun(methods)) /\ \A name : c \notin Ended(name)
BY DEF Having, HasOne, Losing, LostOne, Looked, HasLooked, ClustersRunning, Failing, GaveUp, Begun,
       Ended, HasEnded

\* The production of a grid begins, as one more; and its histogram, if it finds
\* one that is done.
LEMMA BeginGridMoves ==
    ASSUME ProductionFacts, NoneFailed, OneHistPerKey, NEW c \in Calls, BeginGrid(c)
    PROVE  /\ UNCHANGED asked /\ AllStayBut(c) /\ prod[c].at = "none"
           /\ Begun(GridMethods)' = Begun(GridMethods) \cup {c}
           /\ Begun(ClusterMethods)' = Begun(ClusterMethods)
           /\ Having' = Having \cup (IF Ready(c) THEN {c} ELSE {}) /\ Losing' = Losing
           /\ ClustersSame = (Copies(ClusterQueries)' = Copies(ClusterQueries))
           /\ \A name : Ended(name)' = Ended(name)
<1>1. /\ Served(c) /\ Method(c) \in GridMethods /\ UNCHANGED asked /\ call[c].at = "idle"
  BY DEF BeginGrid
<1>2. prod[c].at = "none" /\ hist[c].at = "none"
  BY <1>1 DEF ProductionFacts, Clocks, GridInv, HistsNew
<1> PICK wants \in BOOLEAN : wants <=> WantsHistogram(Params(c))
  <2>1. CASE WantsHistogram(Params(c))
    BY <2>1
  <2>2. CASE ~WantsHistogram(Params(c))
    BY <2>2
  <2> QED
    BY <2>1, <2>2
<1>3. PICK on : /\ prod' = [prod EXCEPT ![c] = [at |-> "running", begun |-> now, rows |-> << >>, hist |-> on]]
                /\ \/ ~wants /\ on = << >>
                   \/ wants /\ on = << c >> /\ UsableHist(c) = {}
                   \/ wants /\ \E h \in UsableHist(c) : on = << h >>
  BY DEF BeginGrid
<1>4. IF wants /\ UsableHist(c) = {}
      THEN hist' = [hist EXCEPT ![c] = [at |-> "running", begun |-> now]]
      ELSE UNCHANGED hist
  BY DEF BeginGrid
<1>5. \A h \in Calls : hist'[h].at = "done" <=> hist[h].at = "done"
  BY <1>2, <1>4 DEF ProductionFacts, Shapes
<1>6. \A d \in Calls : d # c => prod'[d] = prod[d]
  BY <1>3 DEF ProductionFacts, Shapes
<1>7. AllStayBut(c)
  BY <1>1, <1>5, <1>6, OthersStay
<1>8. prod'[c].at = "running" /\ prod'[c].hist = on /\ "anchor" \notin DOMAIN prod'[c]
  <2>1. prod'[c] = [at |-> "running", begun |-> now, rows |-> << >>, hist |-> on]
    BY <1>3 DEF ProductionFacts, Shapes
  <2> QED
    BY <2>1
<1>9. wants => (Ready(c) <=> hist[on[1]].at = "done")
  <2> SUFFICES ASSUME wants PROVE Ready(c) <=> hist[on[1]].at = "done"
    OBVIOUS
  <2>1. Ready(c) <=> \E h \in UsableHist(c) : hist[h].at = "done"
    BY DEF Ready
  <2>2. CASE on = << c >> /\ UsableHist(c) = {}
    BY <1>2, <2>1, <2>2
  <2>3. ASSUME NEW h \in UsableHist(c), on = << h >> PROVE Ready(c) <=> hist[on[1]].at = "done"
    <3>1. \A k \in UsableHist(c) : k = h
      BY DEF UsableHist, OneHistPerKey
    <3> QED
      BY <2>1, <2>3, <3>1
  <2> QED
    BY <1>3, <2>2, <2>3
<1>10. /\ (WantsOne(c)' <=> wants) /\ ~ IsCurrent(c)'
       /\ Method(c)' = Method(c)
  BY <1>1, RunningFacts DEF WantsOne, IsCurrent, Method, Params, GridMethods, ClusterMethods
<1>11. HasOne(c)' = Ready(c)
  <2>1. wants /\ on[1] \in Calls => (hist'[on[1]].at = "done" <=> hist[on[1]].at = "done")
    BY <1>5
  <2>2. wants => on[1] \in Calls
    BY <1>3 DEF UsableHist, ProductionFacts, Shapes
  <2>3. HasOne(c)' <=> wants /\ hist'[on[1]].at = "done"
    BY <1>8, <1>10 DEF HasOne
  <2>4. Ready(c) => wants
    BY DEF Ready
  <2> QED
    BY <1>9, <2>1, <2>2, <2>3, <2>4 DEF HasOne, Ready
<1>12. ~ LostOne(c)' /\ ~ HasLooked(c)' /\ ~ GaveUp(c)' /\ \A name : ~ HasEnded(c, name)'
  BY <1>8, <1>10 DEF LostOne, HasLooked, GaveUp, HasEnded
<1>13. /\ c \notin Having /\ c \notin Losing /\ c \notin Looked /\ c \notin Failing
       /\ (\A methods : c \notin Begun(methods)) /\ \A name : c \notin Ended(name)
  BY <1>2, NotCounted
<1>14. /\ (c \in Having' <=> Ready(c)) /\ c \notin Losing' /\ c \notin Looked' /\ c \notin Failing'
       /\ c \in Begun(GridMethods)' /\ c \notin Begun(ClusterMethods)' /\ \A name : c \notin Ended(name)'
  <2>1. c \in Having' <=> Ready(c)
    BY <1>11 DEF Having
  <2>2. c \notin Losing' /\ c \notin Looked' /\ c \notin Failing' /\ \A name : c \notin Ended(name)'
    BY <1>12 DEF Losing, Looked, Failing, Ended
  <2>3. c \in Begun(GridMethods)' /\ c \notin Begun(ClusterMethods)'
    BY <1>1, <1>8, <1>10 DEF Begun, GridMethods, ClusterMethods
  <2> QED
    BY <2>1, <2>2, <2>3
<1>15. \A d : d # c =>
         /\ (d \in Having' <=> d \in Having) /\ (d \in Losing' <=> d \in Losing)
         /\ (d \in Looked' <=> d \in Looked) /\ (d \in Failing' <=> d \in Failing)
         /\ \A name : d \in Ended(name)' <=> d \in Ended(name)
         /\ \A methods : d \in Begun(methods)' <=> d \in Begun(methods)
  BY <1>1, <1>7, SetsStay
<1>16. Having' = Having \cup (IF Ready(c) THEN {c} ELSE {}) /\ Losing' = Losing
  BY <1>13, <1>14, <1>15
<1>17. Looked' = Looked /\ Failing' = Failing /\ \A name : Ended(name)' = Ended(name)
  <2>1. Looked' = Looked /\ Failing' = Failing
    BY <1>13, <1>14, <1>15
  <2>2. ASSUME NEW name PROVE Ended(name)' = Ended(name)
    BY <1>13, <1>14, <1>15 DEF Ended
  <2> QED
    BY <2>1, <2>2
<1>18. /\ Begun(GridMethods)' = Begun(GridMethods) \cup {c}
       /\ Begun(ClusterMethods)' = Begun(ClusterMethods)
  BY <1>13, <1>14, <1>15
<1> QED
  BY <1>1, <1>2, <1>7, <1>16, <1>17, <1>18 DEF ClustersSame

\* The productions that have begun are finitely many, and so are those that
\* wait for a histogram.
LEMMA WaitingFinite ==
    ASSUME ProductionFacts, GridsCounted, NEW h \in Calls
    PROVE  IsFiniteSet(HistWaiting(h)) /\ HistWaiting(h) \subseteq Begun(GridMethods)
<1>1. HistWaiting(h) \subseteq Begun(GridMethods)
  BY RunningFacts DEF HistWaiting, Begun, GridRunning
<1> QED
  BY <1>1, FS_Subset DEF GridsCounted, IsNumberOf

\* A grid that begins counts its query, and its histogram if that is done.
LEMMA BeginGridCounts ==
    ASSUME ProductionFacts, NoneFailed, Sane, OneHistPerKey, ProductionsCounted,
           NEW c \in Calls, BeginGrid(c)
    PROVE  ProductionsCounted'
<1> PICK more : more = (IF Ready(c) THEN ForHistogram ELSE {})
  OBVIOUS
<1>1. metrics' = Also(metrics, ForGridQuery \cup more)
  BY DEF BeginGrid
<1>2. Sends(ForGridQuery \cup more, 1)
  BY <1>1, SendsOnce
<1>3. /\ prod[c].at = "none"
      /\ Begun(GridMethods)' = Begun(GridMethods) \cup {c}
      /\ Having' = Having \cup (IF Ready(c) THEN {c} ELSE {}) /\ Losing' = Losing
      /\ ClustersSame = (Copies(ClusterQueries)' = Copies(ClusterQueries))
      /\ \A name : Ended(name)' = Ended(name)
  BY BeginGridMoves
<1>4. \A d : Copies(d)' = Copies(d) + (IF d \in ForGridQuery \cup more THEN 1 ELSE 0)
  BY <1>2 DEF Sends
<1>5. \A d : Copies(d) \in Nat
  BY CopiesAreNat
<1>6. /\ Copies(GridQueries)' = Copies(GridQueries) + 1
      /\ Copies(Histograms)' = Copies(Histograms) + (IF Ready(c) THEN 1 ELSE 0)
      /\ Copies(ClusterQueries)' = Copies(ClusterQueries)
      /\ \A name : Copies(Totals(name))' = Copies(Totals(name))
  <2>1. /\ GridQueries \in ForGridQuery \cup more
        /\ Histograms \in ForGridQuery \cup more <=> Ready(c)
        /\ ClusterQueries \notin ForGridQuery \cup more
        /\ \A name : Totals(name) \notin ForGridQuery \cup more
    BY WhatIsCounted
  <2>2. \A n \in Nat : n + 0 = n
    OBVIOUS
  <2> QED
    BY <1>4, <1>5, <2>1, <2>2
<1>7. c \notin Begun(GridMethods) /\ c \notin Having /\ c \notin Losing
  BY <1>3, NotCounted
<1>8. GridsCounted'
  <2>1. IsNumberOf(Copies(GridQueries), Begun(GridMethods))
    BY DEF ProductionsCounted, GridsCounted
  <2>2. IsNumberOf(Copies(GridQueries)', Begun(GridMethods) \cup {c})
    BY <1>6, <1>7, <2>1, OneMore
  <2> QED
    BY <1>3, <2>2 DEF GridsCounted
<1>9. HistsCounted'
  <2> PICK W : W = IF Ready(c) THEN {c} ELSE {}
    OBVIOUS
  <2>1. IsFiniteSet(W) /\ Cardinality(W) = IF Ready(c) THEN 1 ELSE 0
    BY FS_Singleton, FS_EmptySet
  <2>2. Copies(Histograms)' = Copies(Histograms) + Cardinality(W)
    BY <1>6, <2>1
  <2>3. W \cap (Having \cup Losing) = {} /\ Having' = Having \cup W
    BY <1>3, <1>7
  <2>4. Between(Copies(Histograms), Having, Losing)
    BY DEF ProductionsCounted, HistsCounted
  <2>5. Having' \subseteq Having \cup W /\ Having \cup Losing \cup W \subseteq Having' \cup Losing'
    BY <1>3, <2>3
  <2>6. Between(Copies(Histograms)', Having', Losing')
    BY <2>1, <2>2, <2>3, <2>4, <2>5, BetweenGrows
  <2> QED
    BY <2>6 DEF HistsCounted
<1>10. ClustersSame /\ TotalsSame
  BY <1>3, <1>6 DEF TotalsSame
<1> QED
  BY <1>8, <1>9, <1>10, SameCounted DEF ProductionsCounted

\* Clusters that begin count their first query.
LEMMA BeginClustersCounts ==
    ASSUME ProductionFacts, Sane, ProductionsCounted, NEW c \in Calls, BeginClusters(c)
    PROVE  ProductionsCounted'
<1>1. /\ Served(c) /\ Method(c) \in ClusterMethods /\ call[c].at = "idle" /\ UNCHANGED <<asked, hist>>
      /\ prod' = [prod EXCEPT ![c] = [at |-> "running", begun |-> now, anchor |-> << >>]]
      /\ metrics' = Also(metrics, ForClustersQuery)
  BY DEF BeginClusters
<1>2. prod[c].at = "none"
  BY <1>1 DEF ProductionFacts, Clocks
<1>3. prod'[c] = [at |-> "running", begun |-> now, anchor |-> << >>]
  BY <1>1 DEF ProductionFacts, Shapes
<1>4. prod'[c].at = "running" /\ prod'[c].anchor = << >>
  BY <1>3
<1>5. Sends(ForClustersQuery, 1)
  BY <1>1, SendsOnce
<1>6. AllStayBut(c)
  <2>1. \A d \in Calls : d # c => prod'[d] = prod[d]
    BY <1>1 DEF Shapes, ProductionFacts
  <2> QED
    BY <1>1, <2>1, OthersStay
<1>7. /\ c \notin Having /\ c \notin Losing /\ c \notin Looked /\ c \notin Failing
      /\ (\A methods : c \notin Begun(methods)) /\ \A name : c \notin Ended(name)
  BY <1>2, NotCounted
<1>8. /\ c \notin Having' /\ c \notin Losing' /\ c \notin Looked' /\ c \notin Failing'
      /\ c \notin Begun(GridMethods)' /\ c \in Begun(ClusterMethods)'
      /\ \A name : c \notin Ended(name)'
  <2>1. Method(c)' = Method(c) /\ Method(c) \notin GridMethods
    BY <1>1 DEF Method, GridMethods, ClusterMethods
  <2>2. c \notin Having' /\ c \notin Losing'
    BY <2>1 DEF Having, HasOne, WantsOne, Losing, LostOne
  <2>3. c \notin Looked' /\ c \notin Failing' /\ \A name : c \notin Ended(name)'
    BY <1>4 DEF Looked, HasLooked, Failing, GaveUp, Ended, HasEnded
  <2>4. c \notin Begun(GridMethods)' /\ c \in Begun(ClusterMethods)'
    BY <1>1, <1>4, <2>1 DEF Begun
  <2> QED
    BY <2>2, <2>3, <2>4
<1>9. \A d : d # c =>
         /\ (d \in Having' <=> d \in Having) /\ (d \in Losing' <=> d \in Losing)
         /\ (d \in Looked' <=> d \in Looked) /\ (d \in Failing' <=> d \in Failing)
         /\ \A name : d \in Ended(name)' <=> d \in Ended(name)
         /\ \A methods : d \in Begun(methods)' <=> d \in Begun(methods)
  BY <1>1, <1>6, SetsStay
<1>10. \A d : Copies(d)' = Copies(d) + (IF d = ClusterQueries THEN 1 ELSE 0)
  BY <1>5, WhatIsCounted DEF Sends
<1>11. /\ Copies(GridQueries)' = Copies(GridQueries) /\ Copies(Histograms)' = Copies(Histograms)
       /\ Copies(ClusterQueries)' = Copies(ClusterQueries) + 1
       /\ \A name : Copies(Totals(name))' = Copies(Totals(name))
  <2>1. \A n \in Nat : n + 0 = n
    OBVIOUS
  <2>2. \A d : Copies(d) \in Nat
    BY CopiesAreNat
  <2> QED
    BY <1>10, <2>1, <2>2, WhatIsCounted
<1>12. GridsSame /\ HistsSame /\ TotalsSame
  <2>1. Having' = Having /\ Losing' = Losing /\ Begun(GridMethods)' = Begun(GridMethods)
    BY <1>7, <1>8, <1>9
  <2>2. ASSUME NEW name PROVE Ended(name)' = Ended(name)
    BY <1>7, <1>8, <1>9 DEF Ended
  <2> QED
    BY <1>11, <2>1, <2>2 DEF GridsSame, HistsSame, TotalsSame
<1>13. ClustersCounted'
  <2> PICK B : B = Begun(ClusterMethods)
    OBVIOUS
  <2>1. /\ Begun(ClusterMethods)' = B \cup {c} /\ c \notin B
        /\ Looked' = Looked /\ Failing' = Failing
    BY <1>7, <1>8, <1>9
  <2>2. /\ IsFiniteSet(B)
        /\ Between(Copies(ClusterQueries) - Cardinality(B), Looked, Failing)
    BY DEF ProductionsCounted, ClustersCounted
  <2>3. IsFiniteSet(B \cup {c}) /\ Cardinality(B \cup {c}) = Cardinality(B) + 1
    BY <2>1, <2>2, FS_AddElement
  <2> PICK b \in Nat : b = Cardinality(B)
    BY <2>2, FS_CardinalityType
  <2> PICK n \in Nat : n = Copies(ClusterQueries)
    BY CopiesAreNat
  <2>4. Copies(ClusterQueries)' = n + 1 /\ Cardinality(B \cup {c}) = b + 1
    BY <1>11, <2>3
  <2>5. (n + 1) - (b + 1) = n - b
    OBVIOUS
  <2>6. Copies(ClusterQueries)' - Cardinality(Begun(ClusterMethods)')
          = Copies(ClusterQueries) - Cardinality(B)
    BY <2>1, <2>4, <2>5
  <2>7. Between(Copies(ClusterQueries)' - Cardinality(Begun(ClusterMethods)'), Looked', Failing')
    BY <2>1, <2>2, <2>6
  <2> QED
    BY <2>1, <2>3, <2>7 DEF ClustersCounted
<1> QED
  BY <1>12, <1>13, SameCounted DEF ProductionsCounted

\* What is sent of a histogram is only of histograms.
LEMMA HistogramSends ==
    ASSUME Sane, ProductionFacts, GridsCounted, NEW h \in Calls, metrics' = HistogramSent(h)
    PROVE  /\ Copies(GridQueries)' = Copies(GridQueries)
           /\ Copies(ClusterQueries)' = Copies(ClusterQueries)
           /\ \A name : Copies(Totals(name))' = Copies(Totals(name))
           /\ Copies(Histograms)' = Copies(Histograms) + Cardinality(HistWaiting(h))
<1>1. IsFiniteSet(HistWaiting(h))
  BY WaitingFinite
<1> PICK n \in Nat : n = Cardinality(HistWaiting(h))
  BY <1>1, FS_CardinalityType
<1>2. Sends(ForHistogram, n)
  BY <1>1, SendsWaiting
<1>3. \A d : Copies(d)' = Copies(d) + (IF d \in ForHistogram THEN n ELSE 0)
  BY <1>2 DEF Sends
<1>4. \A k \in Nat : k + 0 = k
  OBVIOUS
<1>5. \A d : Copies(d) \in Nat
  BY CopiesAreNat
<1> QED
  BY <1>3, <1>4, <1>5, WhatIsCounted

\* A call that waits for a histogram wants one, and has none yet.
LEMMA WaitingFacts ==
    ASSUME ProductionFacts, NEW h \in Calls, hist[h].at = "running", NEW c \in HistWaiting(h)
    PROVE  /\ c \in Calls /\ prod[c].at = "running" /\ prod[c].hist = << h >>
           /\ Method(c) \in GridMethods /\ Method(c) \notin ClusterMethods /\ WantsOne(c)
           /\ prod[c].hist[1] = h /\ c \notin Having /\ c \notin Losing
<1>1. c \in Calls /\ GridRunning(c) /\ prod[c].at = "running" /\ prod[c].hist = << h >>
  BY DEF HistWaiting, GridRunning
<1>2. Method(c) \in GridMethods /\ Method(c) \notin ClusterMethods
  BY <1>1, RunningFacts
<1>3. prod[c].hist[1] = h /\ prod[c].hist # << >>
  BY <1>1
<1>4. WantsOne(c)
  BY <1>1, <1>2, <1>3, RunningFacts DEF WantsOne
<1>5. c \notin Having /\ c \notin Losing
  BY <1>1, <1>3 DEF Having, HasOne, Losing, LostOne
<1> QED
  BY <1>1, <1>2, <1>3, <1>4, <1>5

\* A histogram that comes is counted by each that waits for it.
LEMMA HistogramQueriedCounts ==
    ASSUME ProductionFacts, Sane, ProductionsCounted, NEW h \in Calls, HistogramQueried(h)
    PROVE  ProductionsCounted'
<1> PICK W : W = HistWaiting(h)
  OBVIOUS
<1>1. /\ UNCHANGED <<asked, prod>> /\ hist[h].at = "running" /\ metrics' = HistogramSent(h)
      /\ \A k \in Calls : hist'[k].at = "done" <=> k = h \/ hist[k].at = "done"
  <2> PICK bins : bins = BuildHistogram(Params(h).minute_length,
                             HistogramRows(Method(h), Params(h),
                                           TimeInterval(Params(h), hist[h].begun), Table))
    OBVIOUS
  <2>1. hist' = [hist EXCEPT ![h] = [at |-> "done", begun |-> hist[h].begun, bins |-> bins]]
    BY DEF HistogramQueried, ProductionFacts, Shapes
  <2>2. \A k \in Calls : hist'[k].at = "done" <=> k = h \/ hist[k].at = "done"
    BY <2>1 DEF ProductionFacts, Shapes
  <2> QED
    BY <2>2 DEF HistogramQueried
<1>2. /\ Copies(GridQueries)' = Copies(GridQueries)
      /\ Copies(ClusterQueries)' = Copies(ClusterQueries)
      /\ \A name : Copies(Totals(name))' = Copies(Totals(name))
      /\ Copies(Histograms)' = Copies(Histograms) + Cardinality(W)
  BY <1>1, HistogramSends DEF ProductionsCounted
<1>3. /\ \A c : Method(c)' = Method(c) /\ Params(c)' = Params(c)
      /\ \A c : WantsOne(c)' = WantsOne(c) /\ IsCurrent(c)' = IsCurrent(c)
  BY <1>1 DEF Method, Params, WantsOne, IsCurrent
<1>4. GridsSame /\ ClustersSame /\ TotalsSame
  <2>1. \A methods : Begun(methods)' = Begun(methods)
    BY <1>1, <1>3 DEF Begun
  <2>2. Looked' = Looked /\ Failing' = Failing
    BY <1>1, <1>3 DEF Looked, HasLooked, ClustersRunning, Failing, GaveUp
  <2>3. \A name : Ended(name)' = Ended(name)
    BY <1>1, <1>3 DEF Ended, HasEnded
  <2> QED
    BY <1>2, <2>1, <2>2, <2>3 DEF GridsSame, ClustersSame, TotalsSame
<1>5. HistsCounted'
  <2>1. IsFiniteSet(W)
    BY WaitingFinite DEF ProductionsCounted
  <2>2. \A c \in W : /\ c \in Calls /\ prod[c].at = "running" /\ WantsOne(c) /\ prod[c].hist[1] = h
                     /\ c \notin Having /\ c \notin Losing
    BY <1>1, WaitingFacts
  <2>3. W \cap (Having \cup Losing) = {}
    BY <2>2
  <2>4. Losing' = Losing
    BY <1>1, <1>3 DEF Losing, LostOne
  <2>5. ASSUME NEW c \in Having' PROVE c \in Having \cup W
    <3>1. /\ c \in Calls /\ prod[c].at \in {"running", "done"} /\ WantsOne(c)
          /\ hist'[prod[c].hist[1]].at = "done"
      BY <1>1, <1>3 DEF Having, HasOne
    <3>2. PICK k \in Calls : prod[c].hist = << k >> /\ prod[c].hist[1] = k
      BY <3>1, RunningFacts DEF WantsOne
    <3>3. CASE k # h
      <4>1. hist[k].at = "done"
        BY <1>1, <3>1, <3>2, <3>3
      <4> QED
        BY <3>1, <3>2, <4>1 DEF Having, HasOne
    <3>4. CASE k = h /\ prod[c].at = "running"
      <4>1. Method(c) \in GridMethods
        BY <3>1 DEF WantsOne
      <4>2. Method(c) \in GridMethods => GridFound(c)
        BY <3>1 DEF ProductionFacts, GridInv, GridsFound
      <4>3. GridRunning(c)
        BY <3>4, <4>1, <4>2 DEF GridFound, GridRunning
      <4> QED
        BY <3>1, <3>2, <3>4, <4>3 DEF HistWaiting
    <3>5. CASE k = h /\ prod[c].at = "done"
      <4>1. GridFound(c)
        BY <3>1 DEF ProductionFacts, GridInv, GridsFound, WantsOne
      <4>2. hist[prod[c].hist[1]].at = "done"
        BY <3>2, <3>5, <4>1 DEF GridFound
      <4> QED
        BY <3>1, <4>2 DEF Having, HasOne
    <3> QED
      BY <3>1, <3>3, <3>4, <3>5
  <2>6. ASSUME NEW c \in Having \cup W PROVE c \in Having'
    <3>1. /\ c \in Calls /\ prod[c].at \in {"running", "done"} /\ WantsOne(c)
          /\ prod[c].hist[1] = h \/ hist[prod[c].hist[1]].at = "done"
      BY <2>2 DEF Having, HasOne
    <3>2. PICK k \in Calls : prod[c].hist[1] = k
      BY <3>1, RunningFacts DEF WantsOne
    <3>3. hist'[k].at = "done"
      BY <1>1, <3>1, <3>2
    <3> QED
      BY <1>1, <1>3, <3>1, <3>2, <3>3 DEF Having, HasOne
  <2>7. Having' \subseteq Having \cup W /\ Having \cup Losing \cup W \subseteq Having' \cup Losing'
    BY <2>4, <2>5, <2>6
  <2>8. Between(Copies(Histograms), Having, Losing)
    BY DEF ProductionsCounted, HistsCounted
  <2>9. Between(Copies(Histograms)', Having', Losing')
    BY <1>2, <2>1, <2>3, <2>7, <2>8, BetweenGrows
  <2> QED
    BY <2>9 DEF HistsCounted
<1> QED
  BY <1>4, <1>5, SameCounted DEF ProductionsCounted

\* One that fails is counted by each as well, and they have failed.
LEMMA HistogramFailsCounts ==
    ASSUME ProductionFacts, Sane, ProductionsCounted, NEW h \in Calls, HistogramFails(h)
    PROVE  ProductionsCounted'
<1> PICK W : W = HistWaiting(h)
  OBVIOUS
<1>1. /\ UNCHANGED asked /\ hist[h].at = "running" /\ metrics' = HistogramSent(h)
      /\ \A k \in Calls : hist'[k].at = "done" <=> hist[k].at = "done"
      /\ \A c \in Calls : IF c \in W THEN prod'[c].at = "failed" ELSE prod'[c] = prod[c]
  <2>1. /\ hist' = [hist EXCEPT ![h] = [at |-> "failed", begun |-> hist[h].begun]]
        /\ prod' = [c \in Calls |-> IF c \in W THEN [at |-> "failed", begun |-> prod[c].begun]
                                    ELSE prod[c]]
        /\ hist[h].at = "running"
    BY DEF HistogramFails, ProductionFacts, Shapes
  <2>2. \A k \in Calls : hist'[k].at = "done" <=> hist[k].at = "done"
    BY <2>1 DEF ProductionFacts, Shapes
  <2>3. \A c \in Calls : IF c \in W THEN prod'[c].at = "failed" ELSE prod'[c] = prod[c]
    BY <2>1
  <2> QED
    BY <2>2, <2>3 DEF HistogramFails
<1>2. /\ Copies(GridQueries)' = Copies(GridQueries)
      /\ Copies(ClusterQueries)' = Copies(ClusterQueries)
      /\ \A name : Copies(Totals(name))' = Copies(Totals(name))
      /\ Copies(Histograms)' = Copies(Histograms) + Cardinality(W)
  BY <1>1, HistogramSends DEF ProductionsCounted
<1>3. /\ \A c : Method(c)' = Method(c) /\ Params(c)' = Params(c)
      /\ \A c : WantsOne(c)' = WantsOne(c) /\ IsCurrent(c)' = IsCurrent(c)
  BY <1>1 DEF Method, Params, WantsOne, IsCurrent
<1>4. \A c \in W : /\ c \in Calls /\ prod[c].at = "running" /\ WantsOne(c)
                   /\ Method(c) \in GridMethods /\ Method(c) \notin ClusterMethods
                   /\ c \notin Having /\ c \notin Losing
  BY <1>1, WaitingFacts
<1>5. ASSUME NEW c \in Calls, c \notin W PROVE Stays(c)
  <2>1. prod[c].at \in {"running", "done"} /\ WantsOne(c) => prod[c].hist[1] \in Calls
    BY RunningFacts DEF WantsOne
  <2> QED
    BY <1>1, <1>5, <2>1, CallStays
<1>6. ASSUME NEW c \in W
      PROVE  /\ (prod[c].at # "none")' /\ prod[c].at # "none"
             /\ ~ HasOne(c)' /\ LostOne(c)' /\ ~ HasLooked(c)' /\ ~ HasLooked(c)
             /\ ~ GaveUp(c)' /\ ~ GaveUp(c)
             /\ \A name : ~ HasEnded(c, name)' /\ ~ HasEnded(c, name)
  <2>1. prod'[c].at = "failed" /\ ~ IsCurrent(c) /\ ~ IsCurrent(c)' /\ WantsOne(c)'
    BY <1>1, <1>3, <1>4 DEF IsCurrent
  <2> QED
    BY <1>4, <2>1 DEF HasOne, LostOne, HasLooked, GaveUp, HasEnded
<1>7. GridsSame /\ ClustersSame /\ TotalsSame
  <2>1. \A methods : Begun(methods)' = Begun(methods)
    <3> SUFFICES ASSUME NEW methods PROVE Begun(methods)' = Begun(methods)
      OBVIOUS
    <3>1. \A c \in Calls : (prod'[c].at # "none") <=> (prod[c].at # "none")
      BY <1>1, <1>6
    <3> QED
      BY <1>3, <3>1 DEF Begun
  <2>2. Looked' = Looked /\ Failing' = Failing
    BY <1>5, <1>6 DEF Stays, Looked, Failing
  <2>3. ASSUME NEW name PROVE Ended(name)' = Ended(name)
    BY <1>5, <1>6 DEF Stays, Ended
  <2> QED
    BY <1>2, <2>1, <2>2, <2>3 DEF GridsSame, ClustersSame, TotalsSame
<1>8. HistsCounted'
  <2>1. IsFiniteSet(W)
    BY WaitingFinite DEF ProductionsCounted
  <2>2. W \cap (Having \cup Losing) = {}
    BY <1>4
  <2>3. Having' \subseteq Having
    BY <1>5, <1>6 DEF Stays, Having
  <2>4. Having \subseteq Having'
    BY <1>4, <1>5 DEF Stays, Having
  <2>5. Losing \cup W \subseteq Losing'
    BY <1>4, <1>5, <1>6 DEF Stays, Losing
  <2>6. Having' \subseteq Having \cup W /\ Having \cup Losing \cup W \subseteq Having' \cup Losing'
    BY <2>3, <2>4, <2>5
  <2>7. Between(Copies(Histograms), Having, Losing)
    BY DEF ProductionsCounted, HistsCounted
  <2>8. Between(Copies(Histograms)', Having', Losing')
    BY <1>2, <2>1, <2>2, <2>6, <2>7, BetweenGrows
  <2> QED
    BY <2>8 DEF HistsCounted
<1> QED
  BY <1>7, <1>8, SameCounted DEF ProductionsCounted

\* A production that fails is no longer counted among those that have anything,
\* but its queries are.
LEMMA QueryFailsCounts ==
    ASSUME ProductionFacts, ProductionsCounted, NEW c \in Calls, QueryFails(c), SilentOnProductions
    PROVE  ProductionsCounted'
<1>1. /\ UNCHANGED <<asked, hist>> /\ prod[c].at = "running"
      /\ prod' = [prod EXCEPT ![c] = [at |-> "failed", begun |-> prod[c].begun]]
  BY DEF QueryFails, GridRunning, ClustersRunning, ProductionFacts, Shapes
<1>2. prod'[c].at = "failed"
  <2>1. prod'[c] = [at |-> "failed", begun |-> prod[c].begun]
    BY <1>1 DEF ProductionFacts, Shapes
  <2> QED
    BY <2>1
<1>3. AllStayBut(c)
  <2>1. \A d \in Calls : d # c => prod'[d] = prod[d]
    BY <1>1 DEF Shapes, ProductionFacts
  <2> QED
    BY <1>1, <2>1, OthersStay
<1>4. \A d : d # c =>
         /\ (d \in Having' <=> d \in Having) /\ (d \in Losing' <=> d \in Losing)
         /\ (d \in Looked' <=> d \in Looked) /\ (d \in Failing' <=> d \in Failing)
         /\ \A name : d \in Ended(name)' <=> d \in Ended(name)
         /\ \A methods : d \in Begun(methods)' <=> d \in Begun(methods)
  BY <1>1, <1>3, SetsStay
<1>5. /\ Method(c)' = Method(c)
      /\ WantsOne(c)' = WantsOne(c) /\ IsCurrent(c)' = IsCurrent(c)
  BY <1>1 DEF Method, Params, WantsOne, IsCurrent
<1>6. /\ c \notin Having' /\ (c \in Having => c \in Losing')
      /\ c \notin Losing
  BY <1>1, <1>2, <1>5 DEF Having, HasOne, Losing, LostOne
<1>7. /\ c \notin Looked' /\ (c \in Looked => c \in Failing')
      /\ c \notin Failing
  BY <1>1, <1>2, <1>5 DEF Looked, HasLooked, ClustersRunning, Failing, GaveUp
<1>8. (\A name : c \notin Ended(name)' /\ c \notin Ended(name))
      /\ \A methods : c \in Begun(methods)' <=> c \in Begun(methods)
  BY <1>1, <1>2, <1>5 DEF Ended, HasEnded, Begun
<1>9. GridsSame
  <2>1. Begun(GridMethods)' = Begun(GridMethods)
    BY <1>4, <1>8
  <2> QED
    BY <2>1 DEF GridsSame, SilentOnProductions
<1>10. HistsSame
  <2>1. Having' \subseteq Having /\ Having \cup Losing \subseteq Having' \cup Losing'
    BY <1>4, <1>6
  <2> QED
    BY <2>1 DEF HistsSame, SilentOnProductions
<1>11. ClustersSame
  <2>1. Begun(ClusterMethods)' = Begun(ClusterMethods)
    BY <1>4, <1>8
  <2>2. Looked' \subseteq Looked /\ Looked \cup Failing \subseteq Looked' \cup Failing'
    BY <1>4, <1>7
  <2> QED
    BY <2>1, <2>2 DEF ClustersSame, SilentOnProductions
<1>12. TotalsSame
  <2>1. ASSUME NEW name PROVE Ended(name)' = Ended(name)
    BY <1>4, <1>8 DEF Ended
  <2> QED
    BY <2>1 DEF TotalsSame, SilentOnProductions
<1> QED
  BY <1>9, <1>10, <1>11, <1>12, SameCounted DEF ProductionsCounted

\* What an end sends is of its own name, and tells of no query.
LEMMA EndSends ==
    ASSUME Sane, NEW method, metrics' = Also(metrics, ForTotal(method))
    PROVE  /\ Copies(GridQueries)' = Copies(GridQueries) /\ Copies(Histograms)' = Copies(Histograms)
           /\ Copies(ClusterQueries)' = Copies(ClusterQueries)
           /\ \A name : Copies(Totals(name))'
                           = Copies(Totals(name)) + (IF name = TotalOf(method) THEN 1 ELSE 0)
<1>1. Sends(ForTotal(method), 1)
  BY SendsOnce
<1>2. \A d : Copies(d)' = Copies(d) + (IF d = Totals(TotalOf(method)) THEN 1 ELSE 0)
  BY <1>1, WhatIsCounted DEF Sends
<1>3. \A n \in Nat : n + 0 = n
  OBVIOUS
<1>4. \A d : Copies(d) \in Nat
  BY CopiesAreNat
<1>5. \A name : Totals(name) = Totals(TotalOf(method)) <=> name = TotalOf(method)
  BY WhatIsCounted
<1>6. \A name : Copies(Totals(name))'
                  = Copies(Totals(name)) + (IF name = TotalOf(method) THEN 1 ELSE 0)
  BY <1>2, <1>5
<1> QED
  BY <1>2, <1>3, <1>4, <1>6, WhatIsCounted

\* One more has come to the end of its name.
LEMMA TotalsGrow ==
    ASSUME TotalsCounted, NEW c \in Calls, NEW end, c \notin Ended(end),
           \A name : Ended(name)' = Ended(name) \cup (IF name = end THEN {c} ELSE {}),
           \A name : Copies(Totals(name))' = Copies(Totals(name)) + (IF name = end THEN 1 ELSE 0),
           \A d : Copies(d) \in Nat
    PROVE  TotalsCounted'
<1> SUFFICES ASSUME NEW name \in TotalNames PROVE IsNumberOf(Copies(Totals(name))', Ended(name)')
  BY DEF TotalsCounted, TotalNames
<1>1. IsNumberOf(Copies(Totals(name)), Ended(name))
  BY DEF TotalsCounted
<1>2. CASE name = end
  <2>1. Copies(Totals(name))' = Copies(Totals(name)) + 1 /\ Ended(name)' = Ended(name) \cup {c}
    BY <1>2
  <2>2. IsNumberOf(Copies(Totals(name))', Ended(name) \cup {c})
    BY <1>1, <1>2, <2>1, OneMore
  <2> QED
    BY <2>1, <2>2
<1>3. CASE name # end
  <2>1. Copies(Totals(name))' = Copies(Totals(name)) + 0 /\ Ended(name)' = Ended(name) \cup {}
    BY <1>3
  <2>2. \A n \in Nat : n + 0 = n
    OBVIOUS
  <2>3. Copies(Totals(name))' = Copies(Totals(name)) /\ Ended(name)' = Ended(name)
    BY <2>1, <2>2
  <2> QED
    BY <1>1, <2>3
<1> QED
  BY <1>2, <1>3

\* A grid is built: it keeps its histogram.
LEMMA BuildGridCounts ==
    ASSUME ProductionFacts, Sane, ProductionsCounted, NEW c \in Calls, BuildGrid(c)
    PROVE  ProductionsCounted'
<1>1. /\ UNCHANGED <<asked, hist>> /\ GridRunning(c) /\ prod[c].at = "running"
      /\ metrics' = Also(metrics, ForTotal(Method(c)))
  BY DEF BuildGrid, GridRunning
<1>2. PICK v : prod' = [prod EXCEPT ![c] =
                 [at |-> "done", begun |-> prod[c].begun, hist |-> prod[c].hist, value |-> v]]
  <2>1. \E v : prod' = [prod EXCEPT ![c] =
                 [at |-> "done", begun |-> prod[c].begun, hist |-> prod[c].hist, value |-> v]]
    BY DEF BuildGrid, ProductionFacts, Shapes
  <2> QED
    BY <2>1
<1>3. prod'[c].at = "done" /\ prod'[c].hist = prod[c].hist
  <2>1. prod'[c] = [at |-> "done", begun |-> prod[c].begun, hist |-> prod[c].hist, value |-> v]
    BY <1>2 DEF ProductionFacts, Shapes
  <2> QED
    BY <2>1
<1>4. AllStayBut(c)
  <2>1. \A d \in Calls : d # c => prod'[d] = prod[d]
    BY <1>2 DEF Shapes, ProductionFacts
  <2> QED
    BY <1>1, <2>1, OthersStay
<1>5. \A d : d # c =>
         /\ (d \in Having' <=> d \in Having) /\ (d \in Losing' <=> d \in Losing)
         /\ (d \in Looked' <=> d \in Looked) /\ (d \in Failing' <=> d \in Failing)
         /\ \A name : d \in Ended(name)' <=> d \in Ended(name)
         /\ \A methods : d \in Begun(methods)' <=> d \in Begun(methods)
  BY <1>1, <1>4, SetsStay
<1>6. /\ Method(c)' = Method(c) /\ Params(c)' = Params(c)
      /\ WantsOne(c)' = WantsOne(c) /\ IsCurrent(c)' = IsCurrent(c)
  BY <1>1 DEF Method, Params, WantsOne, IsCurrent
<1>7. Method(c) \in DataMethods /\ ~ IsCurrent(c)
  BY <1>1, RunningFacts DEF IsCurrent
<1>8. (c \in Having' <=> c \in Having) /\ (c \in Losing' <=> c \in Losing)
  BY <1>1, <1>3, <1>6 DEF Having, HasOne, Losing, LostOne
<1>9. c \notin Looked' /\ c \notin Looked /\ c \notin Failing' /\ c \notin Failing
  BY <1>6, <1>7 DEF Looked, HasLooked, Failing, GaveUp
<1>10. \A methods : c \in Begun(methods)' <=> c \in Begun(methods)
  BY <1>1, <1>3, <1>6 DEF Begun
<1>11. \A name : c \notin Ended(name) /\ (c \in Ended(name)' <=> name = TotalOf(Method(c)))
  BY <1>1, <1>3, <1>6, <1>7 DEF Ended, HasEnded
<1>12. /\ Copies(GridQueries)' = Copies(GridQueries) /\ Copies(Histograms)' = Copies(Histograms)
       /\ Copies(ClusterQueries)' = Copies(ClusterQueries)
       /\ \A name : Copies(Totals(name))'
                       = Copies(Totals(name)) + (IF name = TotalOf(Method(c)) THEN 1 ELSE 0)
  BY <1>1, EndSends
<1>13. GridsSame /\ HistsSame /\ ClustersSame
  <2>1. /\ Having' = Having /\ Losing' = Losing /\ Looked' = Looked /\ Failing' = Failing
    BY <1>5, <1>8, <1>9
  <2>2. Begun(GridMethods)' = Begun(GridMethods) /\ Begun(ClusterMethods)' = Begun(ClusterMethods)
    BY <1>5, <1>10
  <2> QED
    BY <1>12, <2>1, <2>2 DEF GridsSame, HistsSame, ClustersSame
<1>14. TotalsCounted'
  <2> PICK end : end = TotalOf(Method(c))
    OBVIOUS
  <2>1. ASSUME NEW name PROVE Ended(name)' = Ended(name) \cup (IF name = end THEN {c} ELSE {})
    BY <1>5, <1>11 DEF Ended
  <2>2. c \notin Ended(end)
    BY <1>11
  <2> QED
    BY <1>12, <2>1, <2>2, TotalsGrow, CopiesAreNat DEF ProductionsCounted
<1> QED
  BY <1>13, <1>14, SameCounted DEF ProductionsCounted

\* Clusters that look for the newest count that if they look.
LEMMA LookForNewestCounts ==
    ASSUME ProductionFacts, Sane, ProductionsCounted, NEW c \in Calls, LookForNewest(c)
    PROVE  ProductionsCounted'
<1> PICK current \in BOOLEAN : current <=> Params(c).minute_offset = 0
  <2>1. CASE Params(c).minute_offset = 0
    BY <2>1
  <2>2. CASE Params(c).minute_offset # 0
    BY <2>2
  <2> QED
    BY <2>1, <2>2
<1> PICK D : D = IF current THEN ForClustersQuery ELSE {}
  OBVIOUS
<1>1. /\ UNCHANGED <<asked, hist>> /\ ClustersRunning(c) /\ prod[c].at = "running"
      /\ prod[c].anchor = << >> /\ "anchor" \in DOMAIN prod[c]
      /\ metrics' = Also(metrics, D)
  BY DEF LookForNewest, ClustersRunning
<1>2. PICK a : prod' = [prod EXCEPT ![c].anchor = << a >>]
  BY DEF LookForNewest
<1>3. prod'[c].at = "running" /\ prod'[c].anchor = << a >> /\ "anchor" \in DOMAIN prod'[c]
  <2>1. prod'[c] = [prod[c] EXCEPT !.anchor = << a >>] /\ "at" \in DOMAIN prod[c]
    BY <1>2 DEF ProductionFacts, Shapes
  <2> QED
    BY <1>1, <2>1
<1>4. AllStayBut(c)
  <2>1. \A d \in Calls : d # c => prod'[d] = prod[d]
    BY <1>2 DEF Shapes, ProductionFacts
  <2> QED
    BY <1>1, <2>1, OthersStay
<1>5. \A d : d # c =>
         /\ (d \in Having' <=> d \in Having) /\ (d \in Losing' <=> d \in Losing)
         /\ (d \in Looked' <=> d \in Looked) /\ (d \in Failing' <=> d \in Failing)
         /\ \A name : d \in Ended(name)' <=> d \in Ended(name)
         /\ \A methods : d \in Begun(methods)' <=> d \in Begun(methods)
  BY <1>1, <1>4, SetsStay
<1>6. /\ Method(c)' = Method(c) /\ Params(c)' = Params(c) /\ IsCurrent(c)' = IsCurrent(c)
  BY <1>1 DEF Method, Params, IsCurrent
<1>7. Method(c) \in ClusterMethods /\ Method(c) \notin GridMethods /\ (IsCurrent(c) <=> current)
  BY <1>1, RunningFacts DEF IsCurrent
<1>8. c \notin Having' /\ c \notin Having /\ c \notin Losing' /\ c \notin Losing
  BY <1>6, <1>7 DEF Having, HasOne, WantsOne, Losing, LostOne
<1>9. c \notin Looked /\ (c \in Looked' <=> current) /\ c \notin Failing /\ c \notin Failing'
  <2>1. ClustersRunning(c)' /\ << a >> # << >>
    BY <1>3 DEF ClustersRunning
  <2> QED
    BY <1>1, <1>3, <1>6, <1>7, <2>1 DEF Looked, HasLooked, Failing, GaveUp
<1>10. (\A methods : c \in Begun(methods)' <=> c \in Begun(methods))
       /\ \A name : c \notin Ended(name)' /\ c \notin Ended(name)
  BY <1>1, <1>3, <1>6 DEF Begun, Ended, HasEnded
<1>11. Sends(D, 1)
  BY <1>1, SendsOnce
<1>12. \A d : Copies(d)' = Copies(d) + (IF current /\ d = ClusterQueries THEN 1 ELSE 0)
  <2>1. \A d : d \in D <=> current /\ d = ClusterQueries
    BY WhatIsCounted
  <2> QED
    BY <1>11, <2>1 DEF Sends
<1>13. /\ Copies(GridQueries)' = Copies(GridQueries) /\ Copies(Histograms)' = Copies(Histograms)
       /\ Copies(ClusterQueries)' = Copies(ClusterQueries) + (IF current THEN 1 ELSE 0)
       /\ \A name : Copies(Totals(name))' = Copies(Totals(name))
  <2>1. \A n \in Nat : n + 0 = n
    OBVIOUS
  <2>2. \A d : Copies(d) \in Nat
    BY CopiesAreNat
  <2> QED
    BY <1>12, <2>1, <2>2, WhatIsCounted
<1>14. GridsSame /\ HistsSame /\ TotalsSame
  <2>1. Having' = Having /\ Losing' = Losing /\ Begun(GridMethods)' = Begun(GridMethods)
    BY <1>5, <1>8, <1>10
  <2>2. ASSUME NEW name PROVE Ended(name)' = Ended(name)
    BY <1>5, <1>10 DEF Ended
  <2> QED
    BY <1>13, <2>1, <2>2 DEF GridsSame, HistsSame, TotalsSame
<1>15. ClustersCounted'
  <2> PICK W : W = IF current THEN {c} ELSE {}
    OBVIOUS
  <2> PICK B : B = Begun(ClusterMethods)
    OBVIOUS
  <2>1. IsFiniteSet(W) /\ Cardinality(W) = IF current THEN 1 ELSE 0
    BY FS_Singleton, FS_EmptySet
  <2>2. /\ Begun(ClusterMethods)' = B /\ Looked' = Looked \cup W /\ Failing' = Failing
        /\ W \cap (Looked \cup Failing) = {}
    BY <1>5, <1>9, <1>10
  <2>3. IsFiniteSet(B) /\ Between(Copies(ClusterQueries) - Cardinality(B), Looked, Failing)
    BY DEF ProductionsCounted, ClustersCounted
  <2> PICK b \in Nat : b = Cardinality(B)
    BY <2>3, FS_CardinalityType
  <2> PICK n \in Nat : n = Copies(ClusterQueries)
    BY CopiesAreNat
  <2> PICK w \in Nat : w = Cardinality(W)
    BY <2>1
  <2>4. Copies(ClusterQueries)' = n + w
    BY <1>13, <2>1
  <2>5. (n + w) - b = (n - b) + w
    OBVIOUS
  <2>6. Copies(ClusterQueries)' - Cardinality(B) = (Copies(ClusterQueries) - Cardinality(B)) + Cardinality(W)
    BY <2>4, <2>5
  <2>7. Looked' \subseteq Looked \cup W /\ Looked \cup Failing \cup W \subseteq Looked' \cup Failing'
    BY <2>2
  <2>8. Between(Copies(ClusterQueries)' - Cardinality(B), Looked', Failing')
    BY <2>1, <2>2, <2>3, <2>6, <2>7, BetweenGrows
  <2> QED
    BY <2>2, <2>3, <2>8 DEF ClustersCounted
<1> QED
  BY <1>14, <1>15, SameCounted DEF ProductionsCounted

\* Clusters that are built have looked.
LEMMA BuildClustersCounts ==
    ASSUME ProductionFacts, Sane, ProductionsCounted, NEW c \in Calls, BuildClusters(c)
    PROVE  ProductionsCounted'
<1>1. /\ UNCHANGED <<asked, hist>> /\ ClustersRunning(c) /\ prod[c].at = "running"
      /\ prod[c].anchor # << >>
      /\ metrics' = Also(metrics, ForTotal(Method(c)))
  BY DEF BuildClusters, ClustersRunning
<1>2. PICK v : prod' = [prod EXCEPT ![c] = [at |-> "done", begun |-> prod[c].begun, value |-> v]]
  <2>1. \E v : prod' = [prod EXCEPT ![c] = [at |-> "done", begun |-> prod[c].begun, value |-> v]]
    BY DEF BuildClusters, ProductionFacts, Shapes
  <2> QED
    BY <2>1
<1>3. prod'[c].at = "done"
  <2>1. prod'[c] = [at |-> "done", begun |-> prod[c].begun, value |-> v]
    BY <1>2 DEF ProductionFacts, Shapes
  <2> QED
    BY <2>1
<1>4. AllStayBut(c)
  <2>1. \A d \in Calls : d # c => prod'[d] = prod[d]
    BY <1>2 DEF Shapes, ProductionFacts
  <2> QED
    BY <1>1, <2>1, OthersStay
<1>5. \A d : d # c =>
         /\ (d \in Having' <=> d \in Having) /\ (d \in Losing' <=> d \in Losing)
         /\ (d \in Looked' <=> d \in Looked) /\ (d \in Failing' <=> d \in Failing)
         /\ \A name : d \in Ended(name)' <=> d \in Ended(name)
         /\ \A methods : d \in Begun(methods)' <=> d \in Begun(methods)
  BY <1>1, <1>4, SetsStay
<1>6. /\ Method(c)' = Method(c) /\ Params(c)' = Params(c) /\ IsCurrent(c)' = IsCurrent(c)
  BY <1>1 DEF Method, Params, IsCurrent
<1>7. Method(c) \in DataMethods /\ Method(c) \notin GridMethods
  BY <1>1, RunningFacts
<1>8. c \notin Having' /\ c \notin Having /\ c \notin Losing' /\ c \notin Losing
  BY <1>6, <1>7 DEF Having, HasOne, WantsOne, Losing, LostOne
<1>9. (c \in Looked' <=> c \in Looked) /\ c \notin Failing /\ c \notin Failing'
  BY <1>1, <1>3, <1>6 DEF Looked, HasLooked, Failing, GaveUp
<1>10. \A methods : c \in Begun(methods)' <=> c \in Begun(methods)
  BY <1>1, <1>3, <1>6 DEF Begun
<1>11. \A name : c \notin Ended(name) /\ (c \in Ended(name)' <=> name = TotalOf(Method(c)))
  BY <1>1, <1>3, <1>6, <1>7 DEF Ended, HasEnded
<1>12. /\ Copies(GridQueries)' = Copies(GridQueries) /\ Copies(Histograms)' = Copies(Histograms)
       /\ Copies(ClusterQueries)' = Copies(ClusterQueries)
       /\ \A name : Copies(Totals(name))'
                       = Copies(Totals(name)) + (IF name = TotalOf(Method(c)) THEN 1 ELSE 0)
  BY <1>1, EndSends
<1>13. GridsSame /\ HistsSame /\ ClustersSame
  <2>1. /\ Having' = Having /\ Losing' = Losing /\ Looked' = Looked /\ Failing' = Failing
    BY <1>5, <1>8, <1>9
  <2>2. Begun(GridMethods)' = Begun(GridMethods) /\ Begun(ClusterMethods)' = Begun(ClusterMethods)
    BY <1>5, <1>10
  <2> QED
    BY <1>12, <2>1, <2>2 DEF GridsSame, HistsSame, ClustersSame
<1>14. TotalsCounted'
  <2> PICK end : end = TotalOf(Method(c))
    OBVIOUS
  <2>1. ASSUME NEW name PROVE Ended(name)' = Ended(name) \cup (IF name = end THEN {c} ELSE {})
    BY <1>5, <1>11 DEF Ended
  <2>2. c \notin Ended(end)
    BY <1>11
  <2> QED
    BY <1>12, <2>1, <2>2, TotalsGrow, CopiesAreNat DEF ProductionsCounted
<1> QED
  BY <1>13, <1>14, SameCounted DEF ProductionsCounted
-----------------------------------------------------------------------------
(* The counters add up *)

\* The cache of histograms goes on with one of a key.
LEMMA HistKeysStay ==
    ASSUME OneHistPerKey, UNCHANGED asked, [Next]_vars
    PROVE  OneHistPerKey'
<1>1. \A h : HistKeyOf(h)' = HistKeyOf(h)
  BY DEF HistKeyOf
<1>2. ASSUME histcached' \subseteq histcached PROVE OneHistPerKey'
  BY <1>1, <1>2 DEF OneHistPerKey
<1>3. ASSUME NEW c \in Calls, BeginGrid(c) PROVE OneHistPerKey'
  <2>1. \/ histcached' = {h \in histcached : HistKeyOf(h) # HistKeyOf(c)} \cup {c}
        \/ histcached' = histcached
    BY <1>3 DEF BeginGrid
  <2> QED
    BY <1>1, <2>1 DEF OneHistPerKey
<1>4. ASSUME NEW c \in Calls, HistogramFails(c) PROVE OneHistPerKey'
  BY <1>2, <1>4 DEF HistogramFails
<1>5. ASSUME NEW c \in Calls,
             \/ Refuse(c) \/ Fail(c) \/ CheckCount(c) \/ AnswerEmpty(c) \/ Join(c) \/ BeginClusters(c)
             \/ GridQueried(c) \/ HistogramQueried(c) \/ BuildGrid(c) \/ LookForNewest(c)
             \/ BuildClusters(c) \/ QueryFails(c) \/ Answered(c)
      PROVE  histcached' = histcached
  BY <1>5 DEF Refuse, Fail, CheckCount, AnswerEmpty, Join, BeginClusters, GridQueried, HistogramQueried,
              BuildGrid, LookForNewest, BuildClusters, QueryFails, Answered, AnswerResult, AnswerError
<1>6. ASSUME Tick \/ Import \/ AllAnswered \/ UNCHANGED vars PROVE histcached' = histcached
  BY <1>6 DEF Tick, Import, AllAnswered, vars
<1> QED
  BY <1>2, <1>3, <1>4, <1>5, <1>6 DEF Next, AskedFor, Queried

\* What was sent, and that no answer was told of.
LEMMA SendsSilent ==
    ASSUME Sane, UNCHANGED usage, NEW D, NEW n \in Nat, Sends(D, n),
           \A key : OfAnswers(key) => Incr(key) \notin D
    PROVE  Sane' /\ SilentOnAnswers
<1>1. Sane'
  BY DEF Sends, Sane
<1>2. ASSUME NEW key, OfAnswers(key) PROVE Count(key)' = Count(key)
  <2>1. Copies(Incr(key))' = Copies(Incr(key)) + 0
    BY <1>2 DEF Sends
  <2>2. Copies(Incr(key)) \in Nat /\ \A k \in Nat : k + 0 = k
    BY CopiesAreNat
  <2> QED
    BY <2>1, <2>2 DEF Count
<1> QED
  BY <1>1, <1>2 DEF SilentOnAnswers

\* What steps of productions send.
LEMMA ProductionsSend ==
    ASSUME Sane, ProductionFacts, GridsCounted, NEW c \in Calls,
           \/ BeginGrid(c) \/ BeginClusters(c) \/ HistogramQueried(c) \/ HistogramFails(c)
           \/ BuildGrid(c) \/ BuildClusters(c) \/ LookForNewest(c)
    PROVE  Sane' /\ SilentOnAnswers
<1>1. UNCHANGED usage
  BY DEF BeginGrid, BeginClusters, HistogramQueried, HistogramFails, BuildGrid, BuildClusters,
         LookForNewest
<1>2. CASE BeginGrid(c)
  <2> PICK D : D = ForGridQuery \cup (IF Ready(c) THEN ForHistogram ELSE {})
    OBVIOUS
  <2>1. Sends(D, 1)
    BY <1>2, SendsOnce DEF BeginGrid
  <2>2. \A key : OfAnswers(key) => Incr(key) \notin D
    BY ProductionsAreSilent
  <2> QED
    BY <1>1, <2>1, <2>2, SendsSilent
<1>3. CASE BeginClusters(c)
  <2>1. Sends(ForClustersQuery, 1)
    BY <1>3, SendsOnce DEF BeginClusters
  <2> QED
    BY <1>1, <2>1, ProductionsAreSilent, SendsSilent
<1>4. CASE HistogramQueried(c) \/ HistogramFails(c)
  <2>1. IsFiniteSet(HistWaiting(c)) /\ metrics' = HistogramSent(c)
    BY <1>4, WaitingFinite DEF HistogramQueried, HistogramFails
  <2>2. Sends(ForHistogram, Cardinality(HistWaiting(c))) /\ Cardinality(HistWaiting(c)) \in Nat
    BY <2>1, SendsWaiting, FS_CardinalityType
  <2> QED
    BY <1>1, <2>2, ProductionsAreSilent, SendsSilent
<1>5. CASE BuildGrid(c) \/ BuildClusters(c)
  <2>1. Sends(ForTotal(Method(c)), 1)
    BY <1>5, SendsOnce DEF BuildGrid, BuildClusters
  <2> QED
    BY <1>1, <2>1, ProductionsAreSilent, SendsSilent
<1>6. CASE LookForNewest(c)
  <2> PICK D : D = IF Params(c).minute_offset = 0 THEN ForClustersQuery ELSE {}
    OBVIOUS
  <2>1. Sends(D, 1)
    BY <1>6, SendsOnce DEF LookForNewest
  <2>2. \A key : OfAnswers(key) => Incr(key) \notin D
    BY ProductionsAreSilent
  <2> QED
    BY <1>1, <2>1, <2>2, SendsSilent
<1> QED
  BY <1>2, <1>3, <1>4, <1>5, <1>6

\* A step that sends nothing, and only concerns calls.
Quiet(c) ==
    \/ Refuse(c) \/ Fail(c) \/ CheckCount(c) \/ AnswerEmpty(c) \/ Join(c) \/ AnswerError(c)

\* No step makes the counters say anything else than the rest of the service.
LEMMA StepCounts == IInv /\ ShareInv /\ GridInv /\ CountInv /\ [Next]_vars => CountInv'
<1> SUFFICES ASSUME IInv, ShareInv, GridInv, CountInv, [Next]_vars PROVE CountInv'
  OBVIOUS
<1>1. /\ AskedOf /\ Shapes /\ CacheInv /\ Clocks /\ ClustersFound /\ Planned /\ WaitsServed /\ NoneFailed
      /\ ProductionFacts
  BY DEF IInv, TraceInv, CacheInv, ShareInv, ProductionFacts
<1>2. /\ Sane /\ OneHistPerKey /\ AnswersTallied /\ BackgroundsTallied /\ ProductionsCounted
      /\ GridsCounted
  BY DEF CountInv, ProductionsCounted
<1>3. UNCHANGED asked
  BY <1>1, StepMoves
<1>4. OneHistPerKey'
  BY <1>2, <1>3, HistKeysStay
<1>5. SUFFICES Sane' /\ AnswersTallied' /\ BackgroundsTallied' /\ ProductionsCounted'
  BY <1>4 DEF CountInv, ProductionsCounted
<1>6. ASSUME UNCHANGED <<prod, hist>> PROVE \A d \in Calls : Stays(d)
  BY <1>3, <1>6, CallStays
<1>7. ASSUME UNCHANGED metrics PROVE Sane' /\ SilentOnProductions
  BY <1>2, <1>7, SendsNothing DEF SilentOnProductions
<1>8. ASSUME UNCHANGED <<metrics, usage>>
      PROVE  Sane' /\ AnswersTallied' /\ BackgroundsTallied'
  <2>1. Sane' /\ SilentOnAnswers
    BY <1>2, <1>8, SendsNothing DEF SilentOnAnswers, Count
  <2> QED
    BY <1>2, <2>1, SilenceKeeps
<1>9. ASSUME UNCHANGED <<prod, hist, metrics, usage>>
      PROVE  Sane' /\ AnswersTallied' /\ BackgroundsTallied' /\ ProductionsCounted'
  <2>1. ProductionsCounted'
    BY <1>2, <1>3, <1>6, <1>7, <1>9, QuietCounts
  <2> QED
    BY <1>8, <1>9, <2>1
<1>10. ASSUME NEW c \in Calls, Quiet(c) PROVE UNCHANGED <<prod, hist, metrics, usage>>
  BY <1>10 DEF Quiet, Refuse, Fail, CheckCount, AnswerEmpty, Join, AnswerError
<1>11. ASSUME Tick \/ Import \/ AllAnswered \/ UNCHANGED vars
       PROVE  UNCHANGED <<prod, hist, metrics, usage>>
  BY <1>11 DEF Tick, Import, AllAnswered, vars
<1>12. ASSUME NEW c \in Calls, AnswerResult(c)
       PROVE  Sane' /\ AnswersTallied' /\ BackgroundsTallied' /\ ProductionsCounted'
  <2> PICK D : D = ForAnswer(Method(c), Params(c))
    OBVIOUS
  <2>1. AnswersTallied' /\ BackgroundsTallied' /\ Sends(D, 1)
    BY <1>1, <1>2, <1>12, AnswerTallies
  <2>2. UNCHANGED <<prod, hist>>
    BY <1>12 DEF AnswerResult
  <2>3. Method(c) \in DataMethods
    BY <1>1, <1>12, ServedFacts DEF WaitsServed, AnswerResult
  <2>4. /\ GridQueries \notin D /\ ClusterQueries \notin D /\ Histograms \notin D
        /\ \A name : Totals(name) \notin D
    BY <2>3, AnswersAreSilent
  <2>5. SilentOnProductions
    <3>1. \A d : d \notin D => Copies(d)' = Copies(d)
      <4>1. \A d : d \notin D => Copies(d)' = Copies(d) + 0
        BY <2>1 DEF Sends
      <4>2. (\A d : Copies(d) \in Nat) /\ \A n \in Nat : n + 0 = n
        BY <1>2, CopiesAreNat
      <4> QED
        BY <4>1, <4>2
    <3> QED
      BY <2>4, <3>1 DEF SilentOnProductions
  <2>6. Sane'
    BY <2>1 DEF Sends, Sane
  <2>7. ProductionsCounted'
    BY <1>2, <1>3, <1>6, <2>2, <2>5, QuietCounts
  <2> QED
    BY <2>1, <2>6, <2>7
<1>13. ASSUME NEW c \in Calls, GridQueried(c) \/ QueryFails(c)
       PROVE  Sane' /\ AnswersTallied' /\ BackgroundsTallied' /\ ProductionsCounted'
  <2>1. UNCHANGED <<metrics, usage>>
    BY <1>13 DEF GridQueried, QueryFails
  <2>2. ProductionsCounted'
    BY <1>1, <1>2, <1>7, <1>13, <2>1, GridQueriedCounts, QueryFailsCounts
  <2> QED
    BY <1>8, <2>1, <2>2
<1>14. ASSUME NEW c \in Calls,
              \/ BeginGrid(c) \/ BeginClusters(c) \/ HistogramQueried(c) \/ HistogramFails(c)
              \/ BuildGrid(c) \/ BuildClusters(c) \/ LookForNewest(c)
       PROVE  Sane' /\ AnswersTallied' /\ BackgroundsTallied' /\ ProductionsCounted'
  <2>1. Sane' /\ SilentOnAnswers
    BY <1>1, <1>2, <1>14, ProductionsSend
  <2>2. AnswersTallied' /\ BackgroundsTallied'
    BY <1>2, <2>1, SilenceKeeps
  <2>3. ProductionsCounted'
    BY <1>1, <1>2, <1>14, BeginGridCounts, BeginClustersCounts, HistogramQueriedCounts,
       HistogramFailsCounts, BuildGridCounts, BuildClustersCounts, LookForNewestCounts
  <2> QED
    BY <2>1, <2>2, <2>3
<1> QED
  BY <1>9, <1>10, <1>11, <1>12, <1>13, <1>14 DEF Next, AskedFor, Queried, Answered, Quiet

\* A tally of nothing.
LEMMA EmptyTally ==
    ASSUME usage = << >>, NEW key, NEW query, NEW regions, NEW brief, Count(key) = 0
    PROVE  Tally(key, query, regions, brief)
<1> PICK s : s = usage
  OBVIOUS
<1> PICK A : A = {i \in DOMAIN s : IsOf(s[i], query, regions, brief)}
  OBVIOUS
<1>1. DOMAIN s = {}
  OBVIOUS
<1>2. A = {}
  BY <1>1
<1>3. Count(key) = Cardinality(A)
  BY <1>2, FS_EmptySet
<1> QED
  BY <1>3 DEF Tally

\* At the start nothing is counted.
LEMMA InitCounts == Init => CountInv
<1> SUFFICES ASSUME Init PROVE CountInv
  OBVIOUS
<1>1. metrics = EmptyBag /\ usage = << >> /\ histcached = {}
  BY DEF Init
<1>2. \A c \in Calls : prod[c].at = "none"
  BY DEF Init, NotBegun
<1>3. Sane /\ (\A d : Copies(d) = 0)
  <2>1. EmptyBag = [x \in {} |-> 1]
    BY DEF EmptyBag, SetToBag
  <2>2. DOMAIN metrics = {} /\ metrics = [x \in {} |-> 1]
    BY <1>1, <2>1
  <2>3. \A d : ~ BagIn(d, metrics)
    BY <2>2 DEF BagIn, BagToSet
  <2> QED
    BY <2>2, <2>3 DEF Sane, Copies
<1>4. OneHistPerKey
  BY <1>1 DEF OneHistPerKey
<1>5. Cardinality({}) = 0 /\ IsFiniteSet({})
  BY FS_EmptySet
<1>6. ASSUME NEW key, NEW query, NEW regions, NEW brief PROVE Tally(key, query, regions, brief)
  <2>1. Count(key) = 0 /\ usage = << >>
    BY <1>1, <1>3 DEF Count
  <2> QED
    BY <2>1, EmptyTally
<1>7. AnswersTallied
  BY <1>6 DEF AnswersTallied
<1>a. BackgroundsTallied
  BY <1>3 DEF BackgroundsTallied, Count
<1>8. /\ Having = {} /\ Losing = {} /\ Looked = {} /\ Failing = {}
      /\ (\A methods : Begun(methods) = {}) /\ \A name : Ended(name) = {}
  BY <1>2, NotCounted DEF Having, Losing, Looked, Failing, Begun, Ended
<1>9. IsNumberOf(0, {}) /\ Between(0, {}, {})
  BY <1>5 DEF IsNumberOf, Between
<1>10. GridsCounted /\ HistsCounted
  BY <1>3, <1>8, <1>9 DEF GridsCounted, HistsCounted
<1>11. ClustersCounted
  BY <1>3, <1>5, <1>8, <1>9 DEF ClustersCounted
<1>12. TotalsCounted
  BY <1>3, <1>8, <1>9 DEF TotalsCounted
<1> QED
  BY <1>3, <1>4, <1>7, <1>a, <1>10, <1>11, <1>12 DEF CountInv

\* The tallies of the usage log, of all its entries and of those of ten minutes.
LEMMA TalliesFollow ==
    ASSUME NEW total, NEW regions
    PROVE  /\ \A bg : Tally(total, "G", regions, FALSE) /\ Tally(bg, "G", regions, TRUE)
                         => GridsTallied(total, bg, regions)
           /\ Tally(total, "C", regions, FALSE) => ClustersTallied(total, regions)
<1>1. ASSUME NEW query, Tally(total, query, regions, FALSE)
      PROVE  Count(total) = Cardinality(Entries(query, regions))
  <2>1. {i \in DOMAIN usage : IsOf(usage[i], query, regions, FALSE)} = Entries(query, regions)
    BY DEF Entries, IsOf
  <2> QED
    BY <1>1, <2>1 DEF Tally
<1>2. ASSUME NEW bg, Tally(bg, "G", regions, TRUE)
      PROVE  Count(bg) = Cardinality({i \in Entries("G", regions) : usage[i].minute_length = 10})
  <2>1. {i \in DOMAIN usage : IsOf(usage[i], "G", regions, TRUE)}
           = {i \in Entries("G", regions) : usage[i].minute_length = 10}
    BY DEF Entries, IsOf
  <2> QED
    BY <1>2, <2>1 DEF Tally
<1> QED
  BY <1>1, <1>2 DEF GridsTallied, ClustersTallied

\* Productions that want a histogram have it when done, and only those count it.
LEMMA HistogramsBetween ==
    ASSUME ProductionFacts, ProductionsCounted
    PROVE  Count(<<"histogram", "query", "count">>)
              \in Cardinality(Wanting({"done"})) .. Cardinality(Wanting({"running", "done", "failed"}))
<1> PICK M : M = Wanting({"running", "done", "failed"})
  OBVIOUS
<1> PICK n : n = Copies(Histograms)
  OBVIOUS
<1>1. IsFiniteSet(M)
  <2>1. IsFiniteSet(Begun(GridMethods)) /\ M \subseteq Begun(GridMethods)
    BY DEF ProductionsCounted, GridsCounted, IsNumberOf, Wanting
  <2> QED
    BY <2>1, FS_Subset
<1>2. Having \cup Losing \subseteq M
  BY DEF Having, HasOne, Losing, LostOne, WantsOne, Wanting, Begun
<1>3. n \in Cardinality(Having) .. Cardinality(M) /\ IsFiniteSet(Having)
  <2>1. Between(n, Having, Losing)
    BY DEF ProductionsCounted, HistsCounted
  <2>2. IsFiniteSet(Having)
    BY <1>1, <1>2, FS_Subset
  <2> QED
    BY <1>1, <1>2, <2>1, <2>2, BetweenBounds
<1>4. Wanting({"done"}) \subseteq Having
  <2> SUFFICES ASSUME NEW c \in Wanting({"done"}) PROVE c \in Having
    OBVIOUS
  <2>1. c \in Calls /\ prod[c].at = "done" /\ WantsOne(c)
    BY DEF Wanting, Begun, WantsOne
  <2>2. GridFound(c)
    BY <2>1 DEF ProductionFacts, GridInv, GridsFound, WantsOne
  <2>3. prod[c].hist # << >>
    BY <2>1, RunningFacts DEF WantsOne
  <2> QED
    BY <2>1, <2>2, <2>3 DEF GridFound, Having, HasOne
<1>5. /\ Cardinality(Wanting({"done"})) <= Cardinality(Having)
      /\ Cardinality(Wanting({"done"})) \in Nat /\ Cardinality(Having) \in Nat /\ Cardinality(M) \in Nat
  BY <1>1, <1>3, <1>4, FS_Subset, FS_CardinalityType
<1>6. n \in Cardinality(Wanting({"done"})) .. Cardinality(M)
  BY <1>3, <1>5
<1> QED
  BY <1>6 DEF Count, Histograms

\* Likewise, of clusters, those of now that are done have looked.
LEMMA LooksBetween ==
    ASSUME ProductionsCounted, NEW current,
           current = {c \in Begun(ClusterMethods) : Params(c).minute_offset = 0}
    PROVE  Count(<<"clusters_query", "count">>) - Cardinality(Begun(ClusterMethods))
              \in Cardinality({c \in current : prod[c].at = "done"}) .. Cardinality(current)
<1> PICK n : n = Copies(ClusterQueries) - Cardinality(Begun(ClusterMethods))
  OBVIOUS
<1> PICK done : done = {c \in current : prod[c].at = "done"}
  OBVIOUS
<1>1. IsFiniteSet(Begun(ClusterMethods)) /\ Between(n, Looked, Failing)
  BY DEF ProductionsCounted, ClustersCounted
<1>2. IsFiniteSet(current)
  BY <1>1, FS_Subset
<1>3. Looked \cup Failing \subseteq current
  BY DEF Looked, HasLooked, ClustersRunning, Failing, GaveUp, IsCurrent, Begun
<1>4. done \subseteq Looked
  BY DEF Looked, HasLooked, IsCurrent, Begun
<1>5. n \in Cardinality(Looked) .. Cardinality(current) /\ IsFiniteSet(Looked)
  <2>1. IsFiniteSet(Looked)
    BY <1>2, <1>3, FS_Subset
  <2> QED
    BY <1>1, <1>2, <1>3, <2>1, BetweenBounds
<1>6. /\ Cardinality(done) <= Cardinality(Looked)
      /\ Cardinality(done) \in Nat /\ Cardinality(Looked) \in Nat /\ Cardinality(current) \in Nat
  BY <1>2, <1>4, <1>5, FS_Subset, FS_CardinalityType
<1>7. n \in Cardinality(done) .. Cardinality(current)
  BY <1>5, <1>6
<1> QED
  BY <1>7 DEF Count, ClusterQueries

\* The counters add up.
LEMMA CountsFollow == IInv /\ ShareInv /\ GridInv /\ CountInv => CountsAddUp
<1> SUFFICES ASSUME IInv, ShareInv, GridInv, CountInv PROVE CountsAddUp
  OBVIOUS
<1>1. ProductionFacts /\ ProductionsCounted /\ AnswersTallied /\ BackgroundsTallied
  BY DEF IInv, ShareInv, CountInv, ProductionFacts, ProductionsCounted
<1>2. /\ GridsTallied(<<"strikes_grid", "total_count">>, <<"strikes_grid", "bg_count">>, -1 .. MAX_REGION)
      /\ GridsTallied(<<"global_strikes_grid", "total_count">>, <<"global_strikes_grid", "bg_count">>, {0})
      /\ GridsTallied(<<"local_strikes_grid", "total_count">>, <<"local_strikes_grid", "bg_count">>, {-1})
  BY <1>1, TalliesFollow DEF AnswersTallied
<1>3. ASSUME NEW r \in 1 .. MAX_REGION
      PROVE  GridsTallied(<<"strikes_grid", "total_count", r>>, <<"strikes_grid", "bg_count", r>>, {r})
  BY <1>1, TalliesFollow DEF AnswersTallied
<1>4. /\ ClustersTallied(<<"clusters", "total_count">>, -1 .. 0)
      /\ ClustersTallied(<<"global_clusters", "total_count">>, {0})
      /\ ClustersTallied(<<"local_clusters", "total_count">>, {-1})
  BY <1>1, TalliesFollow DEF AnswersTallied
<1>5. Count(<<"clusters", "bg_count">>)
        = Count(<<"global_clusters", "bg_count">>) + Count(<<"local_clusters", "bg_count">>)
  BY <1>1 DEF BackgroundsTallied
<1>6. Count(<<"strikes_grid_query", "count">>) = Cardinality(Begun(GridMethods))
  BY <1>1 DEF ProductionsCounted, GridsCounted, IsNumberOf, Count, GridQueries
<1>7. Count(<<"histogram", "query", "count">>)
        \in Cardinality(Wanting({"done"})) .. Cardinality(Wanting({"running", "done", "failed"}))
  BY <1>1, HistogramsBetween
<1>8. \A current : current = {c \in Begun(ClusterMethods) : Params(c).minute_offset = 0} =>
         Count(<<"clusters_query", "count">>) - Cardinality(Begun(ClusterMethods))
            \in Cardinality({c \in current : prod[c].at = "done"}) .. Cardinality(current)
  BY <1>1, LooksBetween
<1>9. ASSUME NEW name \in {TotalOf(m) : m \in DataMethods}
      PROVE  Copies(Timing(<<name, "total">>))
                = Cardinality({c \in Begun(DataMethods) : prod[c].at = "done" /\ TotalOf(Method(c)) = name})
  <2>1. Ended(name) = {c \in Begun(DataMethods) : prod[c].at = "done" /\ TotalOf(Method(c)) = name}
    BY DEF Ended, HasEnded, Begun
  <2>2. IsNumberOf(Copies(Totals(name)), Ended(name))
    BY <1>1 DEF ProductionsCounted, TotalsCounted, TotalNames
  <2> QED
    BY <2>1, <2>2 DEF IsNumberOf, Totals
<1> QED
  BY <1>2, <1>3, <1>4, <1>5, <1>6, <1>7, <1>8, <1>9 DEF CountsAddUp

\* Requests.CountsAddUp, for every set of calls, whatever they ask for, and every
\* order of queries, answers and failures: the counters of answers are at any time
\* just as many as the entries of their kind in the usage log, those of the queries as
\* the productions that have begun, those of the ends as the productions that have
\* ended; however many calls share a production or a histogram, which of the producers
\* counts a histogram that comes from the cache, and whatever failed meanwhile.
THEOREM EveryCounterAddsUp == Spec => []CountsAddUp
<1>1. Spec => []IInv
  BY InitHolds, StepHolds, PTL DEF Spec
<1>2. Spec => []ShareInv
  BY <1>1, InitShares, StepShares, PTL DEF Spec
<1>3. Spec => []GridInv
  BY <1>1, <1>2, InitGrids, StepGridInv, PTL DEF Spec
<1>4. Spec => []CountInv
  BY <1>1, <1>2, <1>3, InitCounts, StepCounts, PTL DEF Spec
<1> QED
  BY <1>1, <1>2, <1>3, <1>4, CountsFollow, PTL
=============================================================================
