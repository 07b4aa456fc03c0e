------------------------------ MODULE DbTools ------------------------------
(***************************************************************************)
(* What bo-db and bo-cluster take for the window they are asked for, and   *)
(* the strikes of it that they find (src/src/cli/db_tool.rs,               *)
(* cluster_tool.rs, mod.rs, and the selects of db.rs and query.rs).        *)
(*                                                                         *)
(* An instant is a second; a zone says by how much its clocks are ahead.   *)
(* The text of a time is [at, seconds]: a second of the day, and whether   *)
(* the text has seconds.  Every place has a strike at every instant.       *)
(***************************************************************************)
EXTENDS Integers, FiniteSets, FiniteSetsExt

CONSTANTS Default, Bad,      (* an option not given; a text that is wrong  *)
          Minute, Hour, Day, (* in seconds                                 *)
          DefaultMinutes,    (* DEFAULT_INTERVAL_MINUTES                   *)
          DefaultGrid,       (* DEFAULT_GRID                               *)
          Characters,        (* how many a map is drawn with               *)
          MaxSeconds,        (* MAX_INTERVAL_SECONDS                       *)
          Known,             (* the names of the time zones                *)
          Offset(_, _),      (* of a zone at an instant                    *)
          Spot,              (* where there are strikes, <<x, y>>          *)
          Polygon,           (* --area: its bounds and the places inside   *)
          Instant,           (* bound of the model                         *)
          CommandLine        (* bound of the model: the command lines,     *)
                             (* each with the instant it is run at         *)

VARIABLES asked,     (* the command line                                   *)
          stage,     (* how far the program is                             *)
          interval,  (* start and end                                      *)
          within,    (* the area                                           *)
          shown,     (* the strikes, or the lines of a grid                *)
          inserted,  (* bo-cluster: the window whose clusters are stored   *)
          status     (* the exit status, -1 before                         *)

toolVars == <<asked, stage, interval, within, shown, inserted, status>>

------------------------------------------------------------------------------
(* Local time *)

Local(tz, t) == t + Offset(tz, t)
DateOf(tz, t) == Local(tz, t) \div Day

\* The format %H%M of an instant.
TimeOf(tz, t) ==
    LET second == Local(tz, t) % Day IN [at |-> second - (second % Minute), seconds |-> FALSE]

\* Mutant: the last minute is added to an end with seconds as well.
EndUnitMinute(time) == Minute

\* What the given end itself lasts.
EndUnit(time) == IF time.seconds THEN 1 ELSE Minute

At(tz, date, time) == {t \in Instant : Local(tz, t) = date * Day + time.at}

\* parse_local_time: none for a local time that the clocks skip or show twice.
ParseLocalTime(date, time, tz, isEndTime) ==
    IF date = Bad \/ time = Bad THEN {}
    ELSE IF Cardinality(At(tz, date, time)) # 1 THEN {}
    ELSE {t + (IF isEndTime THEN EndUnit(time) ELSE 0) : t \in At(tz, date, time)}

OrElse(text, default) == IF text = Default THEN default ELSE text

\* Date and time as given, each by default that of an instant.
Parsed(date, time, default, isEndTime) ==
    ParseLocalTime(OrElse(date, DateOf(asked.tz, default)),
                   OrElse(time, TimeOf(asked.tz, default)), asked.tz, isEndTime)

ExplicitStart == asked.startdate # Default \/ asked.starttime # Default
ExplicitEnd == asked.enddate # Default \/ asked.endtime # Default

------------------------------------------------------------------------------
(* The programs *)

ToolInit ==
    /\ asked \in CommandLine
    /\ stage = "timezone"
    /\ interval = << >> /\ within = << >> /\ shown = {} /\ inserted = << >>
    /\ status = -1

ExitWith(code) ==
    /\ status' = code
    /\ stage' = "exited"
    /\ UNCHANGED <<asked, interval, within, shown, inserted>>

\* Both programs look at the zone first, and then connect.
BadTimezone == stage = "timezone" /\ asked.tz \notin Known /\ ExitWith(1)
NoConnection == stage = "timezone" /\ asked.tz \in Known /\ ExitWith(1)
QueryFails == stage = "select" /\ ExitWith(1)

Connect ==
    /\ stage = "timezone" /\ asked.tz \in Known
    /\ stage' = "interval"
    /\ UNCHANGED <<asked, interval, within, shown, inserted, status>>

Resolve(starts, ends, code) ==
    \/ /\ starts = {} \/ ends = {}
       /\ ExitWith(code)
    \/ /\ \E start \in starts, end \in ends : interval' = <<start, end>>
       /\ stage' = "area"
       /\ UNCHANGED <<asked, within, shown, inserted, status>>

\* resolve_interval: the last hour up to a minute ago.
DbInterval ==
    /\ stage = "interval" /\ asked.tool = "bo-db"
    /\ Resolve(Parsed(asked.startdate, asked.starttime, asked.now - Hour, FALSE),
               IF ExplicitEnd
               THEN Parsed(asked.enddate, asked.endtime, asked.now - Minute, TRUE)
               ELSE {asked.now - Minute},
               5)

LastMinuteStart == asked.now - (asked.now % Minute)

\* resolve_cluster_interval: back from its end, which is the last full minute's.
ClusterInterval ==
    /\ stage = "interval" /\ asked.tool = "bo-cluster"
    /\ LET ends == IF ExplicitEnd
                   THEN Parsed(asked.enddate, asked.endtime, LastMinuteStart, TRUE)
                   ELSE {LastMinuteStart}
           starts == IF ExplicitStart
                     THEN UNION {Parsed(asked.startdate, asked.starttime, end, FALSE) : end \in ends}
                     ELSE {end - Minute * OrElse(asked.minutes, DefaultMinutes) : end \in ends}
       IN  Resolve(IF ExplicitStart /\ asked.minutes # Default THEN {} ELSE starts, ends, 1)

InBounds(place, b) == place[1] \in b.xmin..b.xmax /\ place[2] \in b.ymin..b.ymax

\* add_geometry: an area without its geometry is its envelope.
AreaOf(envelope) ==
    IF envelope THEN {place \in Spot : InBounds(place, Polygon)} ELSE Polygon.inside

\* prepare_grid_if_applicable: the wider option counts where the narrower is not given.
GridAsked == {asked.grid, asked.xgrid, asked.ygrid} # {Default}
Div == [x |-> OrElse(asked.xgrid, OrElse(asked.grid, DefaultGrid)),
        y |-> OrElse(asked.ygrid, OrElse(asked.grid, DefaultGrid))]

\* resolve_area, with --useenv its envelope; a grid needs an area, and takes
\* its bounds.
ResolveArea ==
    /\ stage = "area"
    /\ \/ /\ asked.area = Bad \/ (GridAsked /\ asked.area = Default)
          /\ ExitWith(1)
       \/ /\ asked.area = Default /\ ~GridAsked
          /\ within' = Spot
          /\ stage' = "select"
          /\ UNCHANGED <<asked, interval, shown, inserted, status>>
       \/ /\ asked.area \notin {Bad, Default}
          /\ within' = AreaOf(asked.useenv \/ GridAsked)
          /\ stage' = "select"
          /\ UNCHANGED <<asked, interval, shown, inserted, status>>

During == {t \in Instant : interval[1] <= t /\ t < interval[2]}

\* StrikeDb::select.
SelectStrikes ==
    /\ stage = "select" /\ ~GridAsked
    /\ shown' = During \X within
    /\ IF asked.insert
       THEN stage' = "insert" /\ UNCHANGED status
       ELSE stage' = "exited" /\ status' = 0
    /\ UNCHANGED <<asked, interval, within, inserted>>

Bins(low, high, div) == (high - low + div - 1) \div div

Columns == Bins(Polygon.xmin, Polygon.xmax, Div.x)
Lines == Bins(Polygon.ymin, Polygon.ymax, Div.y)

\* What the database counts by rx and ry: the lowest row is the 0th.
CountRows ==
    LET rx(place) == (place[1] - Polygon.xmin) \div Div.x
        ry(place) == (place[2] - Polygon.ymin) \div Div.y
        cell(x, y) == {place \in within : rx(place) = x /\ ry(place) = y}
    IN  {[rx |-> rx(p), ry |-> ry(p),
          count |-> Cardinality(During) * Cardinality(cell(rx(p), ry(p)))] : p \in within}

\* select_grid: the data by column and row.  It puts the highest row that is
\* counted into row 0, where data.rs:436-437 says that row 0 is the southernmost;
\* and it drops ry = 0, the lowest row, for which the array has no place.
GridData ==
    {[x |-> row.rx, y |-> Lines - row.ry, count |-> row.count] :
        row \in {r \in CountRows :
                   r.count > 0 /\ r.rx \in 0..(Columns - 1) /\ r.ry > 0 /\ r.ry <= Lines}}

\* The lines of the text are the rows from the last one, data[::-1], which would
\* begin with the north if row 0 were the south; as it is, the south is on top.
LineOf(cell) == Lines - cell.y

\* to_arcgrid: the number of strikes of every cell that has some.
ToArcgrid(data) ==
    {[column |-> cell.x, line |-> LineOf(cell), text |-> cell.count] : cell \in data}

TotalOf(data) == MapThenSumSet(LAMBDA cell : cell.count, data)
MaximumOf(data) == Max({cell.count : cell \in data} \cup {0})

\* cell_index: from 1 on, in as many steps as there are characters but one, if
\* the most strikes of a cell are more than the characters.
CellIndex(count, maximum) ==
    IF maximum > Characters THEN ((count - 1) * (Characters - 1)) \div maximum + 1 ELSE count

\* to_map: a character, from sparse to dense, for every cell that has strikes,
\* and a last line that sums up.
ToMap(data) ==
    LET maximum == MaximumOf(data)
        mark(cell) == Min({CellIndex(cell.count, maximum), Characters - 1})
    IN  {[column |-> cell.x, line |-> LineOf(cell), text |-> mark(cell)] : cell \in data}
          \cup {[total |-> TotalOf(data), maximum |-> maximum]}

SelectGrid ==
    /\ stage = "select" /\ GridAsked
    /\ shown' = IF asked.map THEN ToMap(GridData) ELSE ToArcgrid(GridData)
    /\ stage' = "exited" /\ status' = 0
    /\ UNCHANGED <<asked, interval, within, inserted>>

\* insert_clusters, after the clusters are printed: what the column holds.
TooLong == stage = "insert" /\ interval[2] - interval[1] > MaxSeconds /\ ExitWith(1)

InsertClusters ==
    /\ stage = "insert" /\ interval[2] - interval[1] <= MaxSeconds
    /\ inserted' = interval
    /\ stage' = "exited" /\ status' = 0
    /\ UNCHANGED <<asked, interval, within, shown>>

ToolStep ==
    \/ BadTimezone \/ NoConnection \/ Connect \/ DbInterval \/ ClusterInterval
    \/ ResolveArea \/ SelectStrikes \/ QueryFails \/ SelectGrid \/ TooLong \/ InsertClusters
------------------------------------------------------------------------------
(* Properties *)

\* What a clock of the zone shows, to the second or to the minute.
Shows(t, seconds) ==
    LET local == Local(asked.tz, t) IN IF seconds THEN local ELSE local - (local % Minute)

\* Is t from the asked start on, if part of a start is given?
FromStart(t, default) ==
    LET time == OrElse(asked.starttime, TimeOf(asked.tz, default))
    IN  Shows(t, TRUE) >= OrElse(asked.startdate, DateOf(asked.tz, default)) * Day + time.at

\* Is t up to the asked end, all of its minute or second included?
UpToEnd(t, default) ==
    LET time == OrElse(asked.endtime, TimeOf(asked.tz, default))
    IN  Shows(t, time.seconds) <= OrElse(asked.enddate, DateOf(asked.tz, default)) * Day + time.at

UpToDefault(t) == IF asked.tool = "bo-db" THEN t < asked.now - Minute ELSE t < LastMinuteStart
DefaultEnd == IF asked.tool = "bo-db" THEN asked.now - Minute ELSE LastMinuteStart

AskedFor(t) ==
    /\ IF ExplicitEnd THEN UpToEnd(t, DefaultEnd) ELSE UpToDefault(t)
    /\ IF asked.tool = "bo-db" THEN FromStart(t, asked.now - Hour)
       ELSE IF ExplicitStart THEN FromStart(t, interval[2])
       ELSE \E u \in Instant :
               /\ u = t + Minute * OrElse(asked.minutes, DefaultMinutes)
               /\ IF ExplicitEnd THEN ~UpToEnd(u, DefaultEnd) ELSE ~UpToDefault(u)

\* The map tells where the strikes of some places are, upside down: its first
\* line is the southernmost of the rows that are shown.  That is what the code
\* does, against data.rs:436-437, after which the first is the northernmost; no
\* property says that the north is on top, since it is not.  A cell has a
\* character, and not the blank, if it has strikes; one with more has never a
\* sparser one than one with fewer; and the last line counts them all.
MapTells(wanted, counted) ==
    LET fromBelow(p) == (p[2] - Polygon.ymin) \div Div.y
        cell(p) == <<(p[1] - Polygon.xmin) \div Div.x, fromBelow(p)>>
        marks == {line \in shown : "text" \in DOMAIN line}
        mark(p) == {line.text : line \in {l \in marks : <<l.column, l.line>> = cell(p)}}
        strikes(p) == Cardinality({q \in counted : cell(q) = cell(p)})
    IN  /\ \E line \in shown \ marks : line.total = Cardinality(wanted) * Cardinality(counted)
        /\ wanted # {} =>
              \A p \in counted :
                 /\ \E k \in 1..(Characters - 1) : mark(p) = {k}
                 /\ \A q \in counted : strikes(p) <= strikes(q) => Max(mark(p)) <= Max(mark(q))

\* A program that ends well has shown the strikes, and all of them, whose time,
\* as the clocks of the zone show it, is from the start it was asked for to the
\* end, whose own minute or second counts, also over a change of the clocks;
\* in a grid, and on a map (MapTells), each strike left of its edge and above its
\* lowest row counts once, those in its lowest row never (the lost row and the
\* order of the map's lines are as in the code, not as data.rs:436-437 has them);
\* and only a window that the table can hold is stored, and printed in any case.
ShownAsAsked ==
    LET wanted == {t \in Instant : AskedFor(t)}
        inArea == IF asked.area = Default THEN Spot
                  ELSE IF asked.useenv \/ GridAsked THEN {p \in Spot : InBounds(p, Polygon)}
                  ELSE Polygon.inside
        inLowestRow(p) == p[2] < Polygon.ymin + Div.y
        counted == {p \in inArea : p[1] < Polygon.xmax /\ ~inLowestRow(p)}
    IN  /\ (status = 0 \/ stage = "insert") /\ ~GridAsked => shown = wanted \X inArea
        /\ status = 0 /\ GridAsked /\ ~asked.map =>
              MapThenSumSet(LAMBDA line : line.text, shown) = Cardinality(wanted) * Cardinality(counted)
        /\ status = 0 /\ GridAsked /\ asked.map => MapTells(wanted, counted)
        /\ inserted # << >> => interval[2] - interval[1] <= MaxSeconds
        /\ inserted # << >> /\ ~ExplicitEnd => interval[2] <= asked.now
==============================================================================
