------------------------------ MODULE Service ------------------------------
(***************************************************************************)
(* service.rs: the handlers of the JSON-RPC methods up to the cache, what  *)
(* their producers ask the database and make of its rows, and the usage    *)
(* entries of service_log.rs.  Pure operators: Requests runs them.         *)
(***************************************************************************)
EXTENDS JsonRpc, Query, Http

CONSTANTS
    ForbiddenIps     \* the clients of --forbidden-ips

MAX_MINUTES_PER_DAY == 24 * 60
DEFAULT_MINUTE_LENGTH == 60
HISTOGRAM_MINUTE_THRESHOLD == 10
HISTOGRAM_BIN_SIZE == 5
MAX_COMPATIBLE_ANDROID_VERSION == 177
VALID_GRID_BASE_LENGTHS == {5000, 10000, 25000, 50000, 100000}
MIN_GRID_BASE_LENGTH == 5000
GLOBAL_MIN_GRID_BASE_LENGTH == 25000
MAX_REGION == 7

GridMethods == {"get_strikes_grid", "get_global_strikes_grid", "get_local_strikes_grid"}
ClusterMethods == {"get_global_clusters", "get_local_clusters"}
DataMethods == GridMethods \cup ClusterMethods
-----------------------------------------------------------------------------
(* The client *)

\* request_client: an empty header is as none.
RequestClient(request) ==
    IF request.forwarded \in {<< >>, << << >> >>} THEN request.clientip
    ELSE request.forwarded[1][1]

\* user_agent_client: a known client with a version that is an integer but 0.
UserAgentClient(request) ==
    IF request.useragent = << >> THEN << >>
    ELSE LET ua == request.useragent[1]
         IN  IF ua.client \in {"bo-android", "bo-ios"} /\ ua.version \notin {<< >>, <<0>>}
             THEN << [client |-> ua.client, version |-> ua.version[1]] >> ELSE << >>

\* fix_bad_accept_header
FixBadAcceptHeader(request) ==
    LET client == UserAgentClient(request)
    IN  IF client # << >> /\ client[1].client = "bo-android"
             /\ client[1].version <= MAX_COMPATIBLE_ANDROID_VERSION
        THEN [request EXCEPT !.removed = TRUE] ELSE request

\* forbidden_client_reason and forbidden_reason: the first that applies.
ForbiddenClientReason(request) ==
    CASE RequestClient(request) \in ForbiddenIps -> "ip"
      [] RequestClient(request) \notin ForbiddenIps ->
            IF UserAgentClient(request) = << >> THEN "agent"
            ELSE IF request.contenttype # <<"text/json">> THEN "content type"
            ELSE IF request.referer \notin {<< >>, <<"">>} THEN "referer" ELSE "none"

MinGridBaseLength(method) ==
    IF method = "get_global_strikes_grid" THEN GLOBAL_MIN_GRID_BASE_LENGTH
    ELSE MIN_GRID_BASE_LENGTH

ForbiddenReason(method, request, given) ==
    LET reason == ForbiddenClientReason(request)
    IN  IF reason # "none" \/ method \in ClusterMethods THEN reason
        ELSE IF given.grid_base_length < MinGridBaseLength(method) THEN "too fine"
        ELSE IF given.grid_base_length \notin VALID_GRID_BASE_LENGTHS THEN "no such grid"
        ELSE "none"
-----------------------------------------------------------------------------
(* The parameters *)

\* to_int: what is a number or reads as an integer; "10.0" does not.
ToInt(v) ==
    CASE v.t \in {"int", "digits"} -> << v.v >>
      [] v.t = "float" -> << Toward0(v.v, 2) >>
      [] v.t = "bool" -> << IF v.v THEN 1 ELSE 0 >>
      [] v.t \in {"text", "decimal", "endless", "null", "array", "object"} -> << >>

Coercible(args) == \A i \in DOMAIN args : ToInt(args[i]) # << >>

\* The arguments by their names, as integers.
Coerced(call) ==
    LET spec == MethodSpec[call.method]
        at(name) == CHOOSE i \in DOMAIN spec : spec[i][1] = name
    IN  [name \in {spec[i][1] : i \in DOMAIN spec} |-> ToInt(call.args[at(name)])[1]]

\* force_range and TimeConstraint::enforce
ForceRange(low, value, high) ==
    IF value < low THEN low ELSE IF value > high THEN high ELSE value

MinuteLength(length) ==
    LET forced == ForceRange(0, length, MAX_MINUTES_PER_DAY)
    IN  IF forced = 0 THEN DEFAULT_MINUTE_LENGTH ELSE forced

MinuteOffset(length, offset) ==
    ForceRange(MinuteLength(length) - MAX_MINUTES_PER_DAY, offset, 0)

\* What a handler makes of each parameter it has.
Clamped(method, given) ==
    [name \in DOMAIN given |->
        CASE name = "minute_length" -> MinuteLength(given[name])
          [] name = "minute_offset" -> MinuteOffset(given.minute_length, given[name])
          [] name = "grid_base_length" -> Larger(MinGridBaseLength(method), given[name])
          [] name = "region" -> ForceRange(1, given[name], MAX_REGION)
          [] name = "count_threshold" -> Larger(0, given[name])
          [] name = "data_area" -> Larger(5, given[name])
          [] name = "interval_count" -> Larger(1, given[name])
          [] name \in {"x", "y"} -> given[name]]

\* Mutant: the threshold does not count for the key.
CacheKeyCoarse(method, p) ==
    [method |-> method,
     params |-> [name \in DOMAIN p \ {"count_threshold"} |-> p[name]]]

\* The key of the answer, and ServiceCache's choice of the cache: two to a
\* method, the second for windows that do not end now.
CacheKey(method, p) == [method |-> method, params |-> p]
TimeToLive(p) == IF p.minute_offset = 0 THEN 20 ELSE 60
HISTOGRAM_TTL == 60

\* create_time_interval and create_cluster_time_interval, from a clock in
\* seconds.
TimeInterval(p, now) ==
    LET end == now + 60 * p.minute_offset
    IN  [start |-> end - 60 * p.minute_length, end |-> end]

ClusterTimeInterval(p, now) == TimeInterval(p, now - (now % 60))
-----------------------------------------------------------------------------
(* Grids *)

GridOf(method, p) ==
    GetFor(CASE method = "get_strikes_grid" -> RegionFactory(p.region)
             [] method = "get_global_strikes_grid" -> GlobalFactory
             [] method = "get_local_strikes_grid" -> LocalFactory(p.x, p.y, p.data_area),
           p.grid_base_length)

IsGlobal(method) == method = "get_global_strikes_grid"

\* run_grid_query
GridRows(method, p, interval, table) ==
    LET grid == GridOf(method, p)
        region == IF method = "get_strikes_grid" THEN << p.region >> ELSE << >>
        q == IF IsGlobal(method) THEN GlobalGridQuery(grid, interval, p.count_threshold)
             ELSE GridQuery(grid, interval, region, p.count_threshold)
    IN  Run(ToPostgres(q), Parameters(q), table)

\* build_grid_rows: the rows of a region are counted from the top, and one
\* outside the grid is left out.
GridCell(method, p, interval, row) ==
    LET yc == YBinCount(GridOf(method, p))
    IN  [x |-> row.group[1],
         y |-> IF IsGlobal(method) THEN -row.group[2] - 1 ELSE yc - row.group[2],
         count |-> row.count,
         age |-> row.newest - interval.end]

BuildGridRows(method, p, interval, rows) ==
    LET grid == GridOf(method, p)
    IN  {GridCell(method, p, interval, row) : row \in
            {r \in rows : \/ IsGlobal(method)
                          \/ /\ r.group[1] \in 0 .. XBinCount(grid) - 1
                             /\ r.group[2] \in 1 .. YBinCount(grid)}}

\* Mutant: one histogram for all areas.
HistogramKeyOfWindow(method, p) ==
    [minute_length |-> p.minute_length, minute_offset |-> p.minute_offset]

\* histogram_cache_key: the grid too, but the global one's.
HistogramKey(method, p) ==
    [minute_length |-> p.minute_length, minute_offset |-> p.minute_offset,
     grid |-> IF IsGlobal(method) THEN << >> ELSE << GridOf(method, p) >>]

WantsHistogram(p) == p.minute_length > HISTOGRAM_MINUTE_THRESHOLD

HistogramRows(method, p, interval, table) ==
    LET envelope == IF IsGlobal(method) THEN << >> ELSE << Envelope4(GridOf(method, p)) >>
        q == HistogramQuery(interval, HISTOGRAM_BIN_SIZE, envelope)
    IN  Run(ToPostgres(q), Parameters(q), table)

\* build_histogram: interval 0 is the last bin and earlier ones come before it.
\* An interval before the first bin wraps around to the end; the rows come in
\* ascending order, so that interval 0, if it has a row, overwrites it.
BuildHistogram(minutes, rows) ==
    LET bins == minutes \div HISTOGRAM_BIN_SIZE
        at(row) == (row.group[1] + bins - 1) % bins
        written(i) == {row \in rows : at(row) = i - 1}
        last(S) == CHOOSE row \in S : \A r \in S : r.group[1] <= row.group[1]
    IN  [i \in 1 .. bins |-> IF written(i) = {} THEN 0 ELSE last(written(i)).count]

\* build_grid_response
BuildGridResponse(method, p, interval, cells, histogram) ==
    LET grid == GridOf(method, p)
    IN  [r |-> cells, xd |-> grid.xdiv, yd |-> grid.ydiv, x0 |-> grid.xmin,
         y1 |-> grid.ymax + grid.ydiv, xc |-> XBinCount(grid), yc |-> YBinCount(grid),
         t |-> interval.end, dt |-> interval.end - interval.start, h |-> histogram]

\* grid_fill_percent, as the pair it divides.
GridFill(response) == << Cardinality(response.r), response.xc * response.yc >>
-----------------------------------------------------------------------------
(* Clusters *)

\* A length is bound as a smallint, and what does not fit is cut off.
Smallint(n) == ((n + 32768) % 65536) - 32768

ClusterArea(method, p) ==
    IF method = "get_local_clusters" THEN << LocalArea(p.x, p.y, p.data_area) >> ELSE << >>

InArea(area, cluster) ==
    area = << >> \/ /\ cluster.x \in area[1][1] .. area[1][2]
                    /\ cluster.y \in area[1][3] .. area[1][4]

\* cluster_latest_timestamp_query
LatestTimestamp(interval, count, area, table) ==
    LET seconds == interval.end - interval.start
        lookback == Smaller(seconds * count, MAX_MINUTES_PER_DAY * 60)
        stored == {table[i].timestamp : i \in
                      {j \in DOMAIN table :
                          /\ table[j].timestamp \in interval.end - lookback .. interval.end
                          /\ table[j].seconds = Smallint(seconds)
                          /\ InArea(area, table[j])}}
    IN  IF stored = {} THEN interval.end ELSE Max(stored)

\* Mutant: starts before the newest instead of at it.
ClusterTimestampsBefore(anchor, seconds, count) == [i \in 1 .. count |-> anchor - i * seconds]

\* cluster_timestamps and cluster_select_query: as many ends of intervals as
\* were asked for, the newest first.
ClusterTimestamps(anchor, seconds, count) == [i \in 1 .. count |-> anchor - (i - 1) * seconds]

SelectClusters(anchor, seconds, count, area, table) ==
    {i \in DOMAIN table :
        /\ \E k \in 1 .. count : table[i].timestamp = ClusterTimestamps(anchor, seconds, count)[k]
        /\ table[i].seconds = Smallint(seconds)
        /\ InArea(area, table[i])}

\* reanchor_interval and build_clusters_response: the answer tells the end of
\* the interval that was found.
ReanchorInterval(interval, anchor) ==
    [start |-> anchor - (interval.end - interval.start), end |-> anchor]

BuildClustersResponse(interval, clusters) ==
    [t |-> interval.end, dt |-> interval.end - interval.start, clusters |-> clusters]
-----------------------------------------------------------------------------
(* Usage entries *)

\* region_entry, global_entry, local_entry, global_cluster_entry and
\* local_cluster_entry, with what build_row makes of the client.  The grid is
\* the one asked for, before it is forced to the minimum.
UsageEntry(method, given, p, fill, request, now) ==
    LET clusters == method \in ClusterMethods
        local == method \in {"get_local_strikes_grid", "get_local_clusters"}
        client == UserAgentClient(request)
    IN  [timestamp |-> now,
         platform |-> IF client[1].client = "bo-android" THEN "A" ELSE "I",
         version |-> client[1].version,
         query |-> IF clusters THEN "C" ELSE "G",
         minute_offset |-> p.minute_offset,
         minute_length |-> IF clusters THEN p.interval_count * 10 ELSE p.minute_length,
         grid_baselength |-> IF clusters THEN << >> ELSE << given.grid_base_length >>,
         region |-> IF local THEN -1 ELSE IF method = "get_strikes_grid" THEN p.region ELSE 0,
         count_threshold |-> IF clusters THEN << >> ELSE << p.count_threshold >>,
         local |-> IF local THEN << p.x, p.y, p.data_area >> ELSE << >>,
         fill |-> fill]
=============================================================================
