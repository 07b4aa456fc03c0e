------------------------------ MODULE Metrics ------------------------------
(***************************************************************************)
(* metrics.rs: the StatsD datagrams that the handlers of the service send. *)
(* A datagram is its kind and the parts of its name; the values of gauges  *)
(* and timings are left out, counters all go up by one.  Nobody answers a  *)
(* datagram, and one that cannot be sent is as if it had been.             *)
(***************************************************************************)
EXTENDS Integers, Sequences, Bags

\* StatsDMetrics: the three kinds of datagram.
Incr(key) == [kind |-> "c", key |-> key]
Gauge(key) == [kind |-> "g", key |-> key]
Timing(key) == [kind |-> "ms", key |-> key]

\* What was sent before, and these, each once.
Also(sent, datagrams) == sent (+) SetToBag(datagrams)

\* A request of the widget, which counts twice.
Background(minutes, keys) == IF minutes = 10 THEN {Incr(k) : k \in keys} ELSE {}

\* for_strikes
ForStrikes(minutes, region) ==
    {Incr(<<"strikes_grid", "total_count">>), Incr(<<"strikes_grid", "total_count", region>>),
     Gauge(<<"strikes_grid", "cache_hits">>)}
    \cup Background(minutes, {<<"strikes_grid", "bg_count">>, <<"strikes_grid", "bg_count", region>>})

\* for_global_strikes and for_global_clusters
ForGlobal(all, own, minutes) ==
    {Incr(<<all, "total_count">>), Incr(<<own, "total_count">>), Gauge(<<own, "cache_hits">>)}
    \cup Background(minutes, {<<all, "bg_count">>, <<own, "bg_count">>})

\* Mutant: what is local is not counted with the others.
ForLocalAlone(all, own, minutes, area) ==
    {Incr(<<own, "total_count">>), Incr(<<own, "data_area", area>>), Gauge(<<own, "cache_hits">>)}
    \cup Background(minutes, {<<all, "bg_count">>, <<own, "bg_count">>})

\* for_local_strikes and for_local_clusters
ForLocal(all, own, minutes, area) ==
    ForGlobal(all, own, minutes) \cup {Incr(<<own, "data_area", area>>)}

\* The metrics of an answer with data.
ForAnswer(method, p) ==
    CASE method = "get_strikes_grid" -> ForStrikes(p.minute_length, p.region)
      [] method = "get_global_strikes_grid" ->
            ForGlobal("strikes_grid", "global_strikes_grid", p.minute_length)
      [] method = "get_local_strikes_grid" ->
            ForLocal("strikes_grid", "local_strikes_grid", p.minute_length, p.data_area)
      [] method = "get_global_clusters" -> ForGlobal("clusters", "global_clusters", p.minute_length)
      [] method = "get_local_clusters" ->
            ForLocal("clusters", "local_clusters", p.minute_length, p.data_area)

\* for_grid_query and for_clusters_query: one for each query of a production.
ForGridQuery == {Incr(<<"strikes_grid_query", "count">>)}
ForClustersQuery == {Incr(<<"clusters_query", "count">>)}

\* for_histogram: one for each producer that has its histogram, or its error.
ForHistogram ==
    {Incr(<<"histogram", "query", "count">>), Gauge(<<"histogram", "cache_hits">>),
     Gauge(<<"histogram", "size">>)}

\* for_grid_total: a production that came to its end.
TotalOf(method) ==
    CASE method \in {"get_strikes_grid", "get_local_strikes_grid"} -> "strikes_grid"
      [] method = "get_global_strikes_grid" -> "global_strikes_grid"
      [] method = "get_global_clusters" -> "global_clusters"
      [] method = "get_local_clusters" -> "clusters"
ForTotal(method) == {Timing(<<TotalOf(method), "total">>)}
=============================================================================
