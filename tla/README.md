# A TLA+ model of bo-srv-rs

bo-srv-rs is the JSON-RPC web service of blitzortung and the tools that fill
its database.  This directory holds TLA+ modules that model the service from
the bytes of a connection to the rows of the table, the importers, the tools
and the clustering; TLC configurations that check them on small instances; and
theorems about the service, from the stream to the statement, and about the
concurrent parts around it, proved with TLAPS for instances of any size.

Paths such as `cache.rs` are relative to `src/` of the repository.

## Inventory

| Component | Source | State | Operations | Hard part | Right if |
| --- | --- | --- | --- | --- | --- |
| response caches | `cache.rs` | map of shared cells, LRU list, sweep clock, counters | `get_result` | calls interleave at the lock and at the awaited producer; failures, drops, expiry, eviction | fresh answers for the right key, one producer at a time, failures not kept, size kept, no call left waiting |
| service handlers | `service.rs` | caches, check counter | the RPC methods | parameters, their clamping, the key they make; two joined queries and a shared histogram | every answer is that of its own parameters |
| JSON-RPC dispatch | `jsonrpc.rs` | none | parse, dispatch, encode | three dialects, faults, defaults | reply, fault and log agree |
| HTTP and LSP transport | `http.rs`, `transport.rs` | a stream per connection | read, dispatch, answer | a stream cut anywhere; lengths that are wrong | requests do not mix |
| usage log | `service_log.rs` | bounded queue, open day file, day given up, counters | `record`, the consumer's `append`, drain | order around midnight, failing or torn writes, full queue, shutdown | rows in their own day, one bad day costs no other, nothing accepted is lost |
| usage-log statistics | `stats/` | none | parse a day file, aggregate | torn rows, a file still being written | the report is what was asked that day |
| web service process | `bin/bo-webservice.rs`, `http.rs` | tasks per connection, holds on the service | accept, read, dispatch, write, signal, join | shutdown against idle and busy connections | it ends with all rows written |
| configuration | `config.rs`, `bin/bo-webservice.rs` | none | defaults, file, environment, command line | keys shared by sections, aliases, unusable texts | the most explicit usable text wins |
| metrics | `metrics.rs` | none | datagrams to StatsD | counted in shared and in failing productions | the counts add up |
| database pool | `postgres.rs` | permits, connections, `FailureLog` | `acquire`, `query`, `execute` | outages seen late, stale connections, one log for all tasks | queries end, outages are logged once, stale connections cost little |
| SQL layer | `db.rs`, `query.rs`, `wkb.rs` | none | build statements, decode rows | parameters by name, bound by number; widths of columns | rows read are the rows written |
| importers | `cli/import_tool.rs`, `cli/update_tool.rs`, `cli/import_websocket_tool.rs`, `dataimport/`, `builder.rs` | the strikes table, resume mark, locks | read logs, retry, insert in batches; select keys and insert the rest; insert per message | three writers without a common lock, lost answers, partial failures, kills; two texts of one strike | no row twice that the code can tell, none left behind, no lock held for ever |
| websocket decoding | `websocket.rs` | table | decode | a code one past the table | inverse of the encoder |
| cluster store | `cli/cluster_tool.rs`, the cluster queries of `service.rs` | the clusters table | insert after the newest timestamp; anchor lookup, select | partial insert, overlapping runs, two reads per answer | a window stored once and whole |
| clustering | `clustering/` | none | single linkage, hull merge | ties, a limit, merges that cause merges | every storm is one cluster |
| bo-db, bo-cluster | `cli/db_tool.rs`, `cli/cluster_tool.rs`, `cli/mod.rs` | none | window, area, grid, select | local times the clocks skip or show twice | what is shown is what was asked for |
| maps, test doubles | `map/`, `mock.rs` | none | rendering | none over time | - |

How they interact: a connection task calls a handler of the shared `Service`;
the handler asks a cache, whose producer queries the pool; the handler then
records a usage entry in the queue that the consumer thread empties, and counts
in StatsD.  `main` waits for a signal, drops its `Arc<Service>` and joins the
consumer.  The importers and `bo-cluster` are processes of their own that share
nothing with the service but the database, and among themselves the table and,
per program, a lock file.

`PROJECT.json` lists the hazards of the code that a test would hardly reach,
each with its line and the properties that cover it.

## Modules

| Module | Models | Extends or instantiates |
| --- | --- | --- |
| `CacheContract` | what a caller of the cache relies on | - |
| `ObjectCache` | `ObjectCache::get_result` | instantiates `CacheContract` |
| `ObjectCacheProofs` | theorems about `ObjectCache` | `ObjectCache`, TLAPS |
| `JsonRpc` | bodies, methods, dialects, answers | - |
| `Query` | grids, the builder of statements, the statements of the service | - |
| `Http` | headers, verbs, status, compression of a request | - |
| `Service` | handlers, their parameters, keys and usage entries | extends `JsonRpc`, `Query`, `Http` |
| `Metrics` | the datagrams of the service | - |
| `Requests` | the service at work on calls that come in at once | extends `Service`, `Metrics` |
| `Transport` | one connection: a stream and the requests it is cut into | extends `Http` |
| `UsageLog` | queue, consumer and day files | - |
| `UsageRow` | an entry as a row of a day file, and read again | - |
| `UsageReport` | the report of `bo-servicelog-stats` | extends `UsageLog`, `UsageRow` |
| `WebService` | the process around the usage log | extends `UsageLog` |
| `Settings` | where each setting of `bo-webservice` comes from | - |
| `DbPool` | pool, connections, failure log | - |
| `Importers` | the three strike importers | extends `Lists` |
| `Websocket` | the decoder of a message | - |
| `Lists` | the filters of the importers | - |
| `Records` | options to log files; a line or an object to a strike, a row, a key | extends `Lists` |
| `ClusterStore` | `bo-cluster --insert` and the cluster requests of the service | - |
| `Clustering` | single linkage and the merge of outlines | - |
| `DbTools` | the windows, areas and grids of `bo-db` and `bo-cluster` | - |
| `Lemmas` | facts about sequences, flattened sequences, folds, extrema, cardinalities and division | TLAPS |
| `RequestsProofs`, `TransportProofs`, `DbPoolProofs`, `ClusterStoreProofs` | theorems about the module each is named after | that module, and `Lemmas` or the library's theorems |
| `WebServiceProofs` | theorems about `WebService` and about `Settings` | both, and `Lemmas` |
| `ImportersProofs` | theorems about `Importers`, `Websocket` and `Records` | these three, and `Lemmas` |
| `MC*` | the constants of the TLC runs, and which parts a run puts side by side | the modules they check |

Four runs check several parts that share no state with each other:
`MCRequests` the calls and `Transport`, `MCWebService` the process and
`Settings`, `MCImporters` the importers, `Websocket` and `Records`,
`MCClusterStore` the cluster store, `Clustering` and `DbTools`.  Each part has
initial states of its own in which the others stand still (`Settings` goes
before the service it configures), so nothing of one part is hidden by another.

Operators with a comment that begins "Mutant" are not part of the
specifications.  Each is a plausible bug in the definition below it; it is
kept because with it in place the run finds the property it is meant for
violated, which shows that the property watches that line.

### ObjectCache

Every call of `get_result` is a process; a step is a stretch of code that no
other call can come between: reading the clock (`Call`), the lookup under the
lock (`Reuse` or `Claim`, each with the sweep before it), the second look at
the cell after the unlock (`Check`), getting the permit of the `OnceCell`
(`Acquire`), the end of the producer (`Produce`) or waking up to a cell that is
set (`Join`), and the second locked section, which removes a failure
(`DropFailed`).  `Cancel` drops the future at an await, as `try_join!` does
with the histogram in `service.rs`, or stands for a panic of the producer.
A cell is named after the call that put it in the map.  The LRU list is kept as
the number of the lookup that last moved a key to the back: an order of the
keys, with 0 for absence.  A value is one of "ok" and "err"; its content is
left out, as the key and the beginning of the run that made it tell the
answers apart.

The sweep of an uncapped cache is modelled as in a capped one.  `clear` and
`get` have no caller outside the tests.  The clock of the model does not run
backwards; the code, which reads `SystemTime`, would serve an entry longer by
as much as the clock is set back.

`CacheContract` knows neither map nor list nor lock: a call is answered with
one completed run of a producer for its key that began less than the time to
live before the call.  `ImplementsContract` is the refinement.

### JsonRpc, Query, Http, Service, Metrics and Requests

`Requests` runs the calls; the others are pure operators that it is made of.
A call is an HTTP request (`Http`: which of repeated headers counts, what
`X-Forwarded-For` says, whether the verb has a body) with a body that
`JsonRpc` reads: a method, parameters by position or by name, a dialect.  A
JSON value is a record that is told apart only as far as a number can be read
from it.  `Service` clamps the parameters, blocks clients, and makes of them a
cache key, a grid and statements.  A statement (`Query`) is built of pieces of
SQL that name their parameters; what is sent numbers the names by first
appearance, and the values travel in a list of that order.  Nothing in the code
compares the two: `Run`, the database of the model, reads the values by number
and counts the strikes of a small table, so that a wrong order shows in an
answer.

A call is refused, answered at once, joins a production of its key or begins
one (`BeginGrid`, `BeginClusters`).  A grid production is two queries beside each
other (`GridQueried`, `HistogramQueried`), each of which may fail and drop the
other, and the rows put together (`BuildGrid`); histograms are shared among
grids of the same window.  A cluster production looks for the anchor
(`LookForNewest`) and then reads.  The caches are taken by the contract that
`ObjectCache` implements: a completed production of the key that is not older
than the time to live.  An importer adds strikes while all this goes on
(`Import`), and the clock passes the times to live (`Tick`).  `Metrics` keeps
the bag of datagrams sent; the values of gauges and timings are left out.

Noted while modelling, and carved out of the properties where they would fail:

* A histogram puts the strikes of the incomplete bin before its first into its
  newest bin if nothing struck in that one (`HistogramFits` says so).
* The bottom row of a region's or a local grid is not shown, and the rest is
  placed right because the upper edge it is told is a row higher.
* An interval above 32767 seconds is narrowed to a small integer and matches no
  cluster: a request for a day of clusters is answered, with none, unless one is
  stored whose length is what the day's is narrowed to (`ClustersAssumption`
  excludes those, and the instance has none).
* A histogram left by a grid that failed goes on only when another call wants
  it, and counts no time for the one that left.
* The world's grid rounds to even: a strike on the very edge between two cells
  belongs to the even one (`GlobalCell` says so; one strike of the instance lies
  there).

### Transport

A connection reads a stream unit by unit (a header, a first line, the empty
line, a piece of a body), which may break off anywhere.  The reading of the
headers, both limits, lengths that are missing, twice, no number, too long or
too short, the answers to each fault, keep-alive and the end are actions;
`DecodeFrame` is `decode_frame`, and `Frames` what it finds in a buffer, one
frame after the other.  After a
message whose body is longer than its length says, the rest is read as the
beginning of the next: `FramesApart` speaks of the messages before the first
that does not say its own length, and of the frames: those that the connection
has logged, and the one it is answering, are at any time the frames that the
decoder finds in what has been read.  `read_frame` counts the empty line in its
limit and `decode_frame` does not, so `Frames` has the limit of the reader.

`ExchangesAssumption` says what a stream is made of: headers are not named like
a first line, an empty line or a body, which is what keeps the units of the
model apart as the end of a line keeps the bytes, and the text of a
`Content-Length` is a number or none.  What the lengths say, and whether they
are right, is left open.

### UsageLog and WebService

`UsageLog` has the handlers' side (`Make` stamps an entry, `Record` sends it:
two steps, so that midnight and other handlers come between) and the consumer
(`Consume`, whose file may not open and whose write may be whole, cut or nothing,
and `ConsumerEnds`).  `fate` and `warnings` are
history: what became of an entry, and the warnings logged for a day.
`droppedRows` and `dropped` are the code's counters.

`WebService` adds connection tasks, which hold the service from `Accept` to
`Release`, and `main`.  `Read` and `Hangup` are up to the client.  Dispatch is
one step (the answer is not modelled); a request that is refused, blocked or
not logged goes the way of `Refused`.  A client's bytes, headers and
compression are left out.  An accept error stops the service exactly as a
signal does, and is the same action.

### UsageRow and UsageReport

`UsageRow` makes the row of an entry, with the client's platform and version,
its country and city from a database that is external, and reads a row again.
A row is what stands between its tabs.  `UsageLog` counts in half fields how
much of a row a failing write leaves in the file: the row may end inside any of
its fifteen fields, or after one, with its tab (the whole row without its
newline included).  The next row of the file goes on from there.
`UsageReport` reads a day file as it is at any moment, also while the service
writes it, field by field as `parse_row` does: the query must be one character,
and the offset, the minutes and the region numbers; a grid, a threshold, a place
or a fill that is none is taken for unknown.  So a row that is torn in its
thirteenth field and goes on with one that is torn in its third makes fifteen
fields again, and is counted.  `ReportTrue` says what is certain all the same: a
line that is counted tells of one entry, whose row is there at least up to its
region; no entry is counted twice, and none that was written is missed without
a malformed line and a tear of its own.  The report is then the counts by query,
area, country, version and place.

A field that is cut is `Garbled`: it is no number, one character or known text,
be it at the end of the file or run into the time of day that a row begins with.
The last field, the fill, may be cut to another number; nothing counts it.  A cut
inside a character of several bytes (in the name of a city) is left out: the
report then fails as a whole, as the file is no UTF-8.

### Settings

Fifteen settings, each with its section, its keys in the file, its variables
and its default.  `ReadFile`, `ReadEnv` and `ReadArguments` put one source over
the other; a text that the setting cannot take leaves what was there.  The
connection string is made with its quotes and escapes and read back as the
client library reads it.  A path of the usage log is a directory to write to, a
directory that is not, a file in a directory, or nothing that exists.
`UsageLogKept` says that the log is kept exactly if the path that decides is a
directory to write to, and there.

Noted while modelling: the comment at `config.rs:100-102` says that the log falls
back to `/var/log/blitzortung` when that exists; the code does not, as
`config.rs:371-376` itself says.  The documentation of `resolve_servicelog` gives
`/var/log/blitzortung/servicelog_2023-11-14` as a file whose parent is used; it
has no extension, and is taken for a directory that is missing.

### DbPool

The pool of deadpool and the connections of tokio-postgres are not in the
repository; they are modelled from how `postgres.rs` configures and uses them
and marked external in the map.  A connection is "open", "dead" (the server's
end is gone, the client has not noticed) or "closed"; `Notice` is the
client noticing.  A query is a task: `Ask`, `Get` (a permit, and the first idle
connection not closed), `Connect` if there is none, then `Acquired` or
`Refused`, `Answer`, `Note`, `Leave`.  Noting success or failure are steps of
their own, as the atomics of `FailureLog` are touched at another moment than
the connection.  Preparing and running the statement are one step with one
outcome, because both note an outage under the same condition.  `Cancel`
stands for a dropped future.

### Importers

One region, and strikes told apart by the key `bo-update` uses.  `rows` lists
who has inserted a row of each strike: a duplicate row is a longer list.
`Publish` is the data server writing a strike to its ten-minute log, any time
after it happened; `Message` is the websocket's strike.  A run of `bo-import`
is `StartImport`, `ReadMark`, `Fetch` per log file, `InsertBatch`, and
`FinishImport`, with `Retry` from each step that can fail; an INSERT that fails
may or may not have been done.  A run of `bo-update` is `StartUpdate`,
`Download`, `SelectKeys`, `InsertChunk`, `FinishUpdate`.  `GiveUp` is the lock
timeout, `Crash` a kill.  `Exit` forgets what a process held in memory, so that
finished runs do not multiply states.

A kill between two batches leaves strikes that are older than the newest stored
row and were not inserted; the next run begins at that row and never sees them.
`NothingLeftBehind` speaks of what lies after the mark of the last attempt, so
that loss is a hazard that no property covers.

Left out: `--no-lock`; several regions (each is imported on its own); a
statement that the server goes on with after its client was killed; a strike
listed twice in one download.  `commit` and `rollback` are no-ops in
`executor.rs`, so every INSERT stands by itself.

### Websocket

The server's compression is external: an encoder written from the format that
`decode` reads.  Both sides build their tables as they go, and the decoder meets
codes for the string it is just about to add.

### Records

Two programs make rows of the same strike: `bo-import` of a line, `bo-update` of
an object, which it looks up by a key first.  `GoodStart` and `BadStart` are
`--startdate`; `LatestTime` and `Mark` choose where to begin, `GetPaths` the log
files from there to now, and `ImportLog` reads them (the server's naming of a
file is external).  `ParseObject` takes the objects one by one with the one
builder the code uses for all of them, and `InsertNew` inserts those whose key
is not in the table.  Numbers keep what tells keys apart: the sign of zero,
rounding to four decimals, the limits of a small integer, nanoseconds below a
microsecond.  A NULL in a row makes the whole query fail; `FoundAgain` says that
no program stores one.

### ClusterStore

A run of `bo-cluster --insert` is `Collect` (the window, its clusters, and the
newest stored timestamp), an `Insert` per cluster, and `Finish`; a failed
INSERT may or may not have been done, and ends the process.  A cluster request
is `Ask` (the clock), `Snap` (the anchor) and `Select`.  All clusters of a run
carry the end of its window as timestamp (`Clustering::build_clusters`), so a
row is a place, a minute, a length and, as history, the run it is from.  A run
reads no row before the newest timestamp, which is why `Collect` is one step;
what it does before that is in the choice of its window.

A run that failed half way leaves a slot that a second run of the window takes
for complete: it stores nothing and says "already up to date".
`AllOrNothing` states what the code does keep of a run that ends well, and that
"nothing" has the rows of some other run, whole or not, for its reason.  It does
not exclude the slot that stays half stored, so no property covers that hazard.
`OnlyOverlapGoesBack` limits duplicates and insertions before the newest slot to
runs that were inserting at one time: there is no lock between them.

Left out: the cap of one day on the lookup, which no client's window passes in
the instance; strikes, which no run writes; options and rendering.

### Clustering

One action per turn of each loop: Prim's tree (`Grow`), its edges sorted, the
union-find that makes merges of them (`Link`), the merges up to the limit
(`Apply`), outlines (`Shape`), and the merge of two that overlap until none do
(`MergeTwo`).  Distances are any numbers; an outline is the set of places it
covers and a parameter, as hulls and unions are floating point.  `StormsAreOne`
defines a storm on its own: the strikes that steps up to the limit connect.

### DbTools

`bo-db` and `bo-cluster` from the command line to what they show or store.
An instant is a second; a zone is an offset that changes once, an hour forward
or back.  `ParseLocalTime` gives no instant for a local time that is skipped or
shown twice.  A grid counts in cells as the database does (`CountRows`), is put
in rows (`GridData`) and printed from the last one, as numbers (`ToArcgrid`) or
as characters from sparse to dense (`ToMap`); without its clamp the map would
have no character for a cell of exactly as many strikes as there are
characters.

Noted while modelling: `data.rs` calls row 0 the southernmost, while
`select_grid` puts the northernmost there, so that what is printed is upside
down and lacks the lowest row.  `ShownAsAsked` counts what is above that row, and
expects the lines of a map (`MapTells`) in the order the code prints them, the
southernmost first: that it holds does not say that the north is on top.  With
all defaults `bo-db` formats its start in local time and reads it again, which
ends it with status 5 in the hour that the clocks show twice.  A cluster window
with `--enddate` alone ends a minute after the current one began.

## Runs

| Run | Module, configuration | Instance | Checks |
| --- | --- | --- | --- |
| `object_cache` | `MCObjectCache`, `MCObjectCache.cfg` | one key, three calls, one of them may be dropped, time to live 1, clock to 4, no size limit | type, `FailureNotRetained`, `DuplicateOnlyAfterExpiry`, `UnexpiredKept`, `EveryCallAnswered`, `ImplementsContract` |
| `object_cache_capped` | `MCObjectCacheCapped.cfg` | three keys, four calls, size 2, symmetric | `ListMatchesMap`, `WithinSize`, `AnswerFresh`, `EvictsLeastRecentlyUsed` |
| `requests` | `MCRequests`, `MCRequests.cfg` | two calls, as each of 23 pairs of HTTP requests; nine strikes, the last of them imported meanwhile, one failing query, a clock that passes the times to live; then connections of up to three messages of 14 kinds, by HTTP and by frames | `CountsAddUp`, `PictureOwn`, `ClustersOwn`, `HistogramFits`, `OneTrace`, `FramesApart`, no deadlock |
| `old_clients` | `MCOldClients.cfg` | a local grid asked for by an old and a new client | `OldClientsPlain` is violated |
| `web_service` | `MCWebService`, `MCWebService.cfg` | some 5700 starts of the program; two connections, three entries, queue of 1, two days | type, `RowsInOwnDay`, `SkippedAfterOwnFailure`, `NothingLostAtExit`, `ReportAgrees`, `SettingsRespected`, `AcceptedHandled`, `ExitsWithoutClients` |
| `shutdown_hang` | `MCShutdown.cfg` | the process as above | `SignalEndsProcess` is violated |
| `usage_warnings` | `MCUsageWarnings.cfg` | as above, queue of 2 | `OneWarningPerDay` is violated |
| `db_pool` | `MCDbPool`, `MCDbPool.cfg` | three queries, pools of one and two, two outages | `NothingLoggedWhenWell`, `LostBounded`, `LogFallsSilent`, `EveryQueryEnds`, no deadlock |
| `outage_log` | `MCOutageLog.cfg` | two queries, one outage | `OneLinePerOutage` is violated |
| `importers` | `MCImporters`, `MCImporters.cfg` | every text of up to seven of two characters; some 3400 feeds of two strikes, and 500 choices of options, mark and moment; two runs of `bo-import` or two of `bo-update`, the websocket, two strikes, batches of 2, chunks of 1, two attempts | `InsertedOnce`, `TwiceOnlyIfLate`, `DecodedAsSent`, `FoundAgain`, `NothingLeftBehind`, `EveryRunEnds` |
| `clusters` | `MCClusterStore`, `MCClusterStore.cfg` | some 3700 command lines; all distances 0 to 2 of up to four strikes, and three storms with outlines on four places; two runs, two requests for one of two places, windows of 1 minute (2 are too long to store), two slots, now or a minute ago, three minutes | `AllOrNothing`, `OnlyOverlapGoesBack`, `AnchorShown`, `NeverGoesBack`, `StormsAreOne`, `ShownAsAsked` |
| `backfill` | `MCBackfill.cfg` | one run of `bo-import`, the websocket | `BackfillFillsBack` is violated |

Why the bounds are enough.  Cache: expiry, sweep and replacement of one key
need one key and a clock that passes the time to live twice; a failure of an
old generation against a new one needs two calls, and a third to share with
either.  Eviction needs one key more than the size, and one call more than
keys to come back.  Usage log: the shortest disorder around midnight is
1, 2, 1 or 2, 1, 2, so three entries and two days; a queue of one fills with
two.  Rows: in the runs of the writer a write may be cut in the first, third,
thirteenth or fifteenth field (`Tear`), which are those that make fifteen fields
with another row; what the report makes of two rows cut anywhere, every pair of
cuts is tried for (`EveryTearTold`).  Pool: two connections and three queries give waiting, a fresh and a stale
connection at a time; the second outage is the first that follows a recovery.
Importers: two strikes of any two minutes give equal and different times, one
or two files, a full and a partial batch, and two chunks; two runs give the
lock its contention.  Clusters: two runs overlap or follow each other, two
places give a slot a half; three minutes give a slot outside, at the edge of
and inside a window of two slots.  Requests: sharing, and what must not be
shared, takes two calls; the pairs differ in one parameter each, or are at a
limit of one.  Connections: a message between two that are whole.  Feeds: one
strike for the part that is missing, and one after it to show what stays of it.
Log files: a file of two units, an hour of three files and a day of two hours
put the mark, the clock and midnight in every order.  Clustering: four strikes
have trees with ties in every order; a third storm joins two that do not
overlap.  Command lines: a minute of two seconds, an hour of two minutes, a day
of three hours, so that the two changes of the clocks fall inside a day, before,
in and after the window.

Every counter is bounded by the instance (each call, entry and run happens
once) or by a named constant: `MaxTime`, `MaxDay`, `MaxOutage`, `MaxLines` (log
lines beyond it count as so many), `MaxTicks`, `MaxFailures`, `MaxText`,
`Strikes`, `Instant`, `CommandLine`.  `CHECK_DEADLOCK FALSE` is set
where everything may come to an end: all calls answered, the process exited,
all runs over.  `DbPool` never ends and is checked for deadlock.

### What the violations show

* `shutdown_hang`: the project's README promises that after a signal the queue
  is drained and the process exits.  Every connection task holds an
  `Arc<Service>`, hence a sender, and no one ends a task waiting for the next
  request of a keep-alive client.  The join does not return until the last
  client has gone (`ExitsWithoutClients` is what does hold).
* `old_clients`: the same README says that old Android clients never receive
  gzip, as their `Accept-Encoding` is taken away first.  The handler of local
  grids is the one that does not call `fix_bad_accept_header`.
* `usage_warnings`: the same README says that after the first failed write of a
  UTC day, writing stops for the rest of that day.  The writer remembers one
  day; an entry of another day in between clears it.
* `outage_log`: `FailureLog` promises one line per outage.  Handing out a
  pooled connection counts as success, also when the server is gone and the
  client does not know.  `LogFallsSilent` is what does hold: the log does not
  go on growing.
* `backfill`: the database guide restarts the importers and then backfills with
  `--startdate`.  The start date counts only while the region has no row.

## Fairness

* Cache: weak fairness of the steps of each call.  The runtime polls every
  task that can go on, and a producer's queries end or fail.  Making a call,
  dropping one and the clock owe nothing.
* Web service: weak fairness of a working task, of the consumer thread and of
  the return from the join.  What a client does is not fair, nor is the signal.
* Pool: weak fairness of each query's steps and of noticing a closed
  connection (TCP reports it or times out).  Outages and recoveries are free.
* Importers: weak fairness of each run's own steps: HTTP requests have a
  timeout, a statement ends or its connection fails.  Starting is up to cron.

The other modules state no fairness: their properties are about what is
answered, read or stored, not about when.

## Proofs

Every theorem below is checked by TLAPS down to its last leaf, for constants of
any size.  A theorem rests on the assumptions named in the module it is about
and on nothing else; TLC evaluates these assumptions in the runs.  `Lemmas` has
the facts about sequences, flattened sequences and folds, least and greatest
elements, cardinalities and division that the proofs need.

The inductive invariant of a module is called `IInv`.  `RequestsProofs` has
three more, `ShareInv`, `GridInv` and `CountInv`, each resting on those before
it; `WebServiceProofs` has `SettingsInv` for the settings, `ImportersProofs`
`TextInv` for the websocket and `RecordInv` for the feeds, and `TransportProofs` `WireInv`.  None of the
properties is inductive by itself; what follows says what the invariants add,
and why.

There is no induction over data in these proofs.  What is so for every part of a
sequence, a fold or a loop is proved by its first failure (`FirstFailure` in
`Lemmas`): were there a number for which it fails, there would be a least one,
and it holds for the one before.

### ObjectCacheProofs

From `CacheAssumption` alone: `NoCell` is not a call, there is a key, times to
live and sizes are positive.

| Theorem | States |
| --- | --- |
| `TypeCorrect` | `TypeOK` |
| `ListInStep` | `ListMatchesMap` |
| `FailuresLeave` | `FailureNotRetained` |
| `AnswersFresh` | `AnswerFresh` |
| `SingleFlight` | `DuplicateOnlyAfterExpiry` |
| `EntriesKept` | `UnexpiredKept` |
| `SizeRespected` | `WithinSize` |
| `OldestGoes` | `EvictsLeastRecentlyUsed` |
| `KeepsContract` | `ImplementsContract` |

`IInv` adds what the properties rest on: the cell a call holds was put in by a
call for the same key that was valid when looked up (`CellsHeld`,
`EntriesHeld`), clocks were read in the past (`ClocksPast`), a producer began
after the call that owns its cell read its clock (`ProducersLate`), it has an
empty cell for itself (`OneDriver`), a call leaves with the result of its cell
(`LeavesWithResult`), and without a size limit a cell that calls wait for is in
the map until it expires (`InFlightInMap`).  The last is what makes single
flight true, and what a size limit breaks: an entry in flight may be evicted,
so `DuplicateOnlyAfterExpiry` is stated for uncapped caches.  `StepKeepsIInv`
has one step per action; `ClaimEffect` and `ReuseEffect` state once what a
lookup does to map and list.  `SizeRespected` counts: a full cache has a front
of the list (`FrontIsEntry`, with `ListMatchesMap`), which leaves before the new
key comes (`ClaimFits`).  `OldestGoes` rests on the same count: a cache that
never exceeds its size makes room for one key by giving up one, and none if the
sweep has just taken an entry.

`KeepsContract` is the refinement: initial states map to initial states, and a
step is one of the contract's or changes nothing of what it shows.  The
refinement mapping gives the status of a call, the runs that were completed and
the answers; each action changes at most one of them in a way the contract
allows, and `AnswersFresh` is what lets the answer of a joined run through.

### RequestsProofs

| Theorem | States |
| --- | --- |
| `EveryCallLeavesOneTrace` | `OneTrace` |
| `EveryCallShowsItsClusters` | `ClustersOwn` |
| `EveryCallShowsItsGrid` | `PictureOwn` |
| `EveryHistogramFits` | `HistogramFits` |
| `EveryCounterAddsUp` | `CountsAddUp` |

All are for any set of calls, whatever their HTTP requests are, and any tables.
The first assumes nothing.  Reply, access line, usage entry and check counter are
written by different code at different moments.  `IInv` says of every answered
call that its reply and its access line agree, and that the reply is in the
dialect and has the id that its own request asked for (`AllAgree`): a parsed call
keeps both, and a fault is in the old dialect only where there is none
(`ParsedDialect`, `OwnDialect`).  It says that the usage log has as many entries as there are answers
with data and one that tells of each (`AllTold`), and that the checks were told
the numbers from 1 to the counter (`AllCounted`).  That a method which is
blocked or malformed never begins anything (`WaitsServed`, `BegunServed`) comes
from the dispatch, and `NoneFailed` keeps failures out of both caches.

The second follows an answer back to its production.  `ShareInv` says of a call
that waits that what it waits for has the call's own key and was begun less than
the time to live before the call asked (`WaitsForOwn`), of a call that was shown
data that they are those of such a production (`ShowsOwn`), and of a production of
clusters that what it has found so far is what its own parameters ask for
(`ClustersFound`).  A step only begins a production for a call that asks, or moves
on one that runs, and never changes when it was begun (`Grows`); that carries the
first two over failures, ticks and entries thrown out of the cache.  Equal keys
give equal parameters, and `SelectedOwn` says of the statement what `ClustersOwn`
says of the answer.  It rests on three assumptions:

* `StartAssumption`: the clock shows a natural number.
* `ValuesAssumption`: the numbers in a request's JSON are integers or halves of
  one, as finely as the model looks at them.
* `ClustersAssumption`: no cluster is stored whose length a request could be cut
  off to (`CutOffs`).  bo-cluster refuses lengths that a smallint does not hold,
  and with `--minutes` all lengths are whole minutes; but a window pinned with
  `--starttime` and `--endtime` to the second may have, say, 20864 seconds, and a
  request for the clusters of a whole day, which `as i16` narrows to just that,
  would be shown it as a day's.  The theorem does not cover such a table.

The third and the fourth are about what a statement counts, and are proved in
three parts.

* *The statement.*  `PlaceholderReads` is the heart: in a statement all of whose
  names are registered, a placeholder reads the value that its name was
  registered with last, whatever number it got and however often the name is used.
  The text's names are a flattened sequence, the numbered ones another, and the
  values a third; `FlattenFacts` and `FlattenSingles` say of them what is needed.
  `GridQueryFacts`, `GlobalGridQueryFacts` and `HistogramQueryFacts` follow the
  builder's steps and list what each statement says; `Sent...` translate its
  pieces into comparisons of a strike with the call's own parameters.
* *The rows.*  `RunFacts` says what a database makes of a statement: one row for
  each group of the strikes that match, with their number and the newest of them,
  above the threshold.  `AreaRows`, `GlobalRows` and `BinRows` name the strikes
  and the groups of each statement.  `GridDrawn` turns groups into places: the
  column is counted from the left, the row from a top edge that is told a row
  too high, so that what is left is each strike at its own place
  (`DrawnAtFacts`), and the rows that a client would not see are those that
  `BuildGridRows` leaves out.  It needs that a grid is a whole number of cells
  high (`GetForFacts`).  `HistogramDrawn` puts rows into bins.
* *The production.*  `GridInv` says of a production that runs that the rows it
  has were read from a table there was since it began (`GridFound`), of a
  histogram that its bins were (`HistFound`), and that a production uses a
  histogram of its own key that was begun before it and less than the time to
  live before (`Feeds`).  The table only grows (`Stored`).  Equal histogram keys
  mean equal windows and areas, though not equal cells (`HistogramOfCall`).

They rest on `StartAssumption`, `ValuesAssumption`, `BoundsAssumption` and on:

* `StrikesAssumption`: a strike has a time, a place and a region, in numbers.
* `CellsAssumption`: cells have a size in both directions.  Which it is, the
  projections of the code decide, and nothing else is assumed of it.

The fifth is about two records of the same thing: counters, which handlers and
producers bump at different moments, and the usage log and the productions.
`CountInv` says of every counter that it is the size of a set: of the usage
entries of a kind (`AnswersTallied`, `BackgroundsTallied`), which works because a
handler counts and records in one stretch, and of the productions that have begun
or come to an end (`GridsCounted`, `TotalsCounted`).  A histogram has no such set:
each producer that has it, from the database or from the cache, counts it once,
and a producer that failed may have counted it before or not.  `HistsCounted` says
that the counter lies between the number of those that have it and that together
with those that failed; `ClustersCounted` says the same of the lookups of the
newest cluster.  `OneHistPerKey`, that the cache has one histogram of a key, says
which one a producer has found.  It rests on the same assumptions as the grids.

### WebServiceProofs

| Theorem | States |
| --- | --- |
| `TypeCorrect` | `TypeOK` |
| `RowsAreInOwnDay` | `RowsInOwnDay` |
| `SkippedOnlyAfterOwnFailure` | `SkippedAfterOwnFailure` |
| `NothingIsLostAtExit` | `NothingLostAtExit` |
| `EverySettingIsRespected` | `SettingsRespected` |

The first four are for any connections, entries, days and capacity, from `UsageLogAssumption` and
`WebServiceAssumption`.  The file a row is appended to is that of the open day,
and a day is given up for an earlier row; so `IInv` relates both to the fate of
entries (`RowsAreHandled`, `DisabledAfterOwnFailure`).  That nothing is lost is a
chain: an entry that was made is carried by a connection that holds the service
(`MadeIsCarried`, `HeldByTheLiving`), an entry sent is in the queue
(`QueueHasQueued`), the consumer ends only when no one holds the service and the
queue is empty (`ConsumerDoneLast`), and the process only after it
(`ExitAfterConsumer`).

The fifth is about `Settings`, for any file, environment and command line.  The
sources are read from the least explicit to the most; `DecidedUpTo` says that
each setting is what the first usable one among those read so far makes of it,
and `SourceDecides` carries that over one more source, which either is usable and
decides or leaves what was there.  In the file the last line of a key counts,
which is a fold over its lines (`IniHoldsLast`).  That the connection string says
what the settings say is a proof about a reader and a writer: after each
character of a quoted value the reader's state is known, an escaped character is
read back as itself, and the parts come one after the other in a flattened
sequence.  `UsageInv` says where the usage log is kept.  It rests on
`GivenAssumption` (what files, variables and arguments are made of) and
`SpellingAssumption` (a word is spelled with characters).

### DbPoolProofs

| Theorem | States |
| --- | --- |
| `TypeCorrect` | `TypeOK` |
| `NothingIsLoggedWhenWell` | `NothingLoggedWhenWell` |
| `LossIsBounded` | `LostBounded` |

For any finite set of queries, pools of any size and any number of outages,
from `DbPoolAssumption`.  That the pool has no more connections than its size is
a count of permits: connections in the pool and permits given out never exceed
it (`PermitsLeft`), and a connection exists only in the pool or with one query
that has a permit (`ConnectionsKept`, `HeldOnce`).  The bound on the loss is a
payment: a connection that is dead, or that a query has found closed and not
yet noted, can cost one query more (`Costly`), and what was lost since the
recovery together with those that can still cost one is at most the size
(`LossPaid`).  It holds because everything opened while the database is there
is good, and each loss uses up a costly connection.

### ImportersProofs

| Theorem | States |
| --- | --- |
| `TypeCorrect` | `TypeOK` |
| `NoneTwice` | `InsertedOnce` |
| `TwiceIsLate` | `TwiceOnlyIfLate` |
| `AllIsStored` | `NothingLeftBehind` |
| `DecodesWhatWasSaid` | `DecodedAsSent` |
| `StrikesAreFound` | `FoundAgain` |

For any strikes and runs, files of any length, batches, chunks and attempts,
from `ImportersAssumption`.  An attempt that failed leaves some of its batches in
the table, and perhaps the one whose answer was lost.  The retry reads the mark
anew; nothing past it has a row of `bo-import`, and `AttemptFresh` keeps that for
what the attempt holds or still has before it.  `AttemptKeeps` is its counterpart for `AllIsStored`.
`UpdateFresh` says that what a run of `bo-update` holds is in no row of its own
program, and in one of the websocket's only if that came since the run began,
hence late (`UpdatedLate` says the same of the rows it has inserted).  The locks are in `TypeOK`: two runs of a
program are never at work at a time.

`DecodesWhatWasSaid` is about `Websocket`, for any alphabet and texts of any length; nothing is
assumed.  `BothSidesAgree` proves the invariant `TextInv`, which has a witness: the text is cut into strings
(`Parse`) such that each entry of the server's table is a string with the first
character of its successor, the codes sent stand for the strings (`Stands`), and
the decoder, having read as many codes, has the text up to there and a table
that lags one entry behind (`Decoding`).  `ValueStands` is the case the
decoder's special branch is for: the entry it lacks can only be its last string
with that string's first character once more.

`StrikesAreFound` is about `Records`, for logs and downloads of any length and
any times, deviations and spans of files, hours and days.  `SpansAssumption` has
an hour made of whole files and a day of whole hours.  `FeedAssumption` (`IsFeed`)
says what the server sends: a line is in the file of its own time and of no later
one than the present, and neither a log nor a download tells of one strike twice,
for the code has nothing against that.  `RecordInv` says that a stored row is one
of a strike with its time, altitude and deviation, within limits (`IsMade`), that two
rows or two strikes with one key are one, and that what is left of a download has
keys not yet read; that each strike is as if made by a new builder follows from
the fields an object sets being always the same (`AllIsSet`).  `FilesFacts` and
`InItsFile` show that the walk from the mark to now takes the file of every newer
line, once, on either side of midnight; `LinesFacts` and `NewFacts` that what is
made of them is one strike per expected line; `RowReads` and `SpotTellsKey` that
a row keeps the key through rounding, limits and the deviation's type.

### ClusterStoreProofs

| Theorem | States |
| --- | --- |
| `TypeCorrect` | `TypeOK` |
| `RunsAreWhole` | `AllOrNothing` |
| `RerunsAddNothing` | `OnlyOverlapGoesBack` |
| `AnchorIsShown` | `AnchorShown` |
| `MapNeverGoesBack` | `NeverGoesBack` |

For any places, runs, requests and windows, from `ClusterStoreAssumption`.  For
the runs: the table has of a run what it took off its list, and nothing unless
its window was newer than what it had read (`OwnStored`); rows it did not see
are of runs it overlapped with (`UnseenAreMet`), and any two that insert have met
(`InsertersMet`).  For the requests: an anchor found is stored (`AnchorStored`)
and stays stored, as nobody deletes; a later request has read a later clock
(`BeforeIsEarlier`), and once it has its anchor this is no older than one that an
earlier request showed (`NoOlderAnchor`).

### TransportProofs

| Theorem | States |
| --- | --- |
| `RequestsDoNotMix` | `FramesApart` |

For any messages on connections of either protocol and any limits, from
`LimitsAssumption` and `ExchangesAssumption`.  `WireInv` has the units of the
stream as those of the messages, one after the other (`Sent`), and says of every
message up to the first that does not keep to its length: if it was answered, then
rightly (`RightSoFar`), and if it is the next to be answered, what has been read
of it begins where the message does (`NextIsRead`), so that no unit of another can
be in its first line, its headers or its body.  A message is left just at its last
unit, because its length says where that is and the limits leave it whole; an
answer with data goes with a line of the access log (`AllLogged`).

The frames are found by a recursive function on the places of a buffer, which has
to be shown to exist: each frame that is found has at least one unit and lies
within the buffer (`FrameFits`), so the function looks only ahead (`LeapsExist`).
`FrameInv` then gives places in what was read such that between two neighbours
lies one frame, which is logged, and from the last one on the reader is in the
middle of one more, or at its end and answering it.  From the first place to the
last the decoder takes the same leaps (`FramesAgree`).

### Only model-checked

* All liveness properties (`EveryCallAnswered`, `AcceptedHandled`,
  `ExitsWithoutClients`, `LogFallsSilent`, `EveryQueryEnds`, `EveryRunEnds`):
  liveness under fairness is out of the provers' reach.
* `ReportAgrees`, `StormsAreOne`, `ShownAsAsked`: not proved.  They compare what
  nested loops over rows, distances and cells compute with sums, cardinalities and
  reachability; each of these loops would need what the histogram's, the
  connection string's and the feeds' needed, and more.

## Plan

Done: the concurrent components (`ObjectCache`, `UsageLog`, `WebService`,
`DbPool`, `Importers`, `ClusterStore`), the service from the stream to the
statement (`Transport`, `Requests` and what they extend), and the algorithms,
each against a definition of its own (`Clustering`, `Websocket`, `Records`,
`DbTools`, `UsageReport`, `Settings`).

Proved: the safety of the concurrent components and the refinement of the cache's
contract; of the service, that requests of a connection do not mix, that the
traces of a call agree, that its clusters, grid and histogram are those of its own
parameters, that the counters add up, and that settings are respected; and of the
importers, the websocket decoder and that `bo-update` finds what `bo-import`
stored.

Left, in this order:

1. `ReportAgrees`: that torn rows cost the report no more than themselves.  The
   fold over the rows of a day file is like the one over the lines of `IniPath`.
2. `ShownAsAsked` and `StormsAreOne`, with reachability in a graph for the second.

## Not modelled

* `map/` and `mock.rs`: drawing, and the doubles of the tests.
* Floating-point geometry: projections, the size of a cell, hulls, areas of
  clusters.  Where something depends on it, it is a parameter, and nothing is
  assumed of it but what is said there.
* Well-known binary (`wkb.rs`), percent-decoding, JSON text, the text of SQL
  beyond its placeholders, log lines, the rendering of reports.
* The values of gauges and timings, and the metrics of the importers and of
  `bo-cluster`.
* `--no-lock`, and arithmetic on timestamps that no program calls.
* Liveness of `Requests`: its productions are polled by the calls that share
  them, for which `EveryCallAnswered` of `ObjectCache` stands.
