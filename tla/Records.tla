------------------------------ MODULE Records -------------------------------
(***************************************************************************)
(* How one strike becomes a row by two ways: as a line of a log that       *)
(* bo-import reads, and as an object of the download of bo-update, which   *)
(* looks it up in the table by a key first (src/src/data.rs, builder.rs,   *)
(* dataimport/, db.rs, cli/update_tool.rs).  Importers takes it for given  *)
(* that both ways lead to one key.                                         *)
(*                                                                         *)
(* A coordinate is a sign and a number of hundred-thousandths, as zero has *)
(* two signs; a deviation is in tenths.  A part of a line or an object     *)
(* that is missing, or not what it should be, is << >>.                    *)
(***************************************************************************)
EXTENDS Integers, Sequences, FiniteSets, SequencesExt, Lists

CONSTANTS Feed,        (* pairs of a log and a download                    *)
          OldestYear,  (* the microsecond at which 1901 begins             *)
          ImportRegion,
          DefaultDate, BadDate,     (* no --startdate, and one that is wrong *)
          FileSpan, HourSpan, DaySpan,    (* in microseconds: of a log file, *)
          UpdateSpan, DefaultSpan         (* of --update, and of no mark     *)

VARIABLES feed,        (* what the servers have: log, its status, download; *)
                       (* startdate and update, the newest row, the clock  *)
          taking,      (* how far the programs are                         *)
          builder,     (* the one builder of the download                  *)
          strikes,     (* the strikes made of the download, with its line  *)
          stored       (* the rows of the table                            *)

recordVars == <<feed, taking, builder, strikes, stored>>

------------------------------------------------------------------------------
(* Numbers and timestamps *)

\* py_round to four decimals, off the ties; a zero keeps its sign.
Round4(c) == [c EXCEPT !.mag = ((c.mag + 5) \div 10) * 10]

ForceRange(low, value, high) ==
    IF value < low THEN low ELSE IF value > high THEN high ELSE value

\* A float cast to an integer.
Truncated(tenths) == IF tenths < 0 THEN -((-tenths) \div 10) ELSE tenths \div 10

NAT == [datetime |-> << >>, nanosecond |-> 0]

\* Timestamp::new: the remainder within a microsecond.
Timestamp(datetime, nanosecond) ==
    [datetime |-> << datetime + nanosecond \div 1000 >>, nanosecond |-> nanosecond % 1000]

FromNanosecondValue(n) == [datetime |-> << n \div 1000 >>, nanosecond |-> n % 1000]

\* from_timestamp on the first 29 characters: six digits of microseconds and
\* three of nanoseconds, or it is no timestamp at all.
FromTimestamp(stamp) ==
    IF stamp = << >> THEN NAT
    ELSE [datetime |-> << stamp[1].micros >>, nanosecond |-> stamp[1].nanos]

TimeValue(t) == IF t.datetime = << >> THEN -1 ELSE t.datetime[1] * 1000 + t.nanosecond

IsValid(t) == t.datetime # << >> /\ t.datetime[1] >= OldestYear

------------------------------------------------------------------------------
(* The builder *)

NewBuilder == [timestamp |-> << >>, x |-> << >>, y |-> << >>, altitude |-> << >>,
               lateral_error |-> << >>, region |-> << >>]

\* from_line: the parts in their order; the first that is missing ends it.
LineComplete(line) == \A part \in {"pos", "str", "dev", "sta"} : line[part] # << >>

FromLine(b, line) ==
    [b EXCEPT !.timestamp = << FromTimestamp(line.stamp) >>,
              !.x = << line.pos[1].lon >>, !.y = << line.pos[1].lat >>,
              !.altitude = << line.pos[1].alt >>,
              !.lateral_error = << ForceRange(0, Truncated(line.dev[1]), 32767) >>]

\* from_json: the three that must be there are read before anything is set.
ObjectComplete(json) == \A part \in {"lon", "lat", "time"} : json[part] # << >>

OrZero(part) == IF part = << >> THEN 0 ELSE part[1]

\* Mutant: a region is set only if the object has one.
FromJsonKeeping(b, json) ==
    [b EXCEPT !.timestamp = << FromNanosecondValue(json.time[1]) >>,
              !.x = << Round4(json.lon[1]) >>, !.y = << Round4(json.lat[1]) >>,
              !.altitude = << OrZero(json.alt) >>,
              !.lateral_error = << ForceRange(0, Truncated(OrZero(json.mds)), 32767) >>,
              !.region = IF json.region = << >> THEN @ ELSE json.region]

FromJson(b, json) ==
    [b EXCEPT !.timestamp = << FromNanosecondValue(json.time[1]) >>,
              !.x = << Round4(json.lon[1]) >>, !.y = << Round4(json.lat[1]) >>,
              !.altitude = << OrZero(json.alt) >>,
              !.lateral_error = << ForceRange(0, Truncated(OrZero(json.mds)), 32767) >>,
              !.region = json.region]

Zero == [neg |-> FALSE, mag |-> 0]

\* build, of a builder with a timestamp.
Build(b) ==
    [timestamp |-> b.timestamp[1],
     x |-> IF b.x = << >> THEN Zero ELSE b.x[1], y |-> IF b.y = << >> THEN Zero ELSE b.y[1],
     altitude |-> b.altitude, lateral_error |-> b.lateral_error, region |-> b.region]

------------------------------------------------------------------------------
(* Values of the table *)

ColumnType == [datetime |-> "timestamptz", nanoseconds |-> "int2", x |-> "float8", y |-> "float8",
               altitude |-> "int2", region |-> "int2", error2d |-> "int2"]

\* Param and PgParam: what is sent says what it is.
Param(kind, value) == [is |-> kind, value |-> << value >>]
OrNull(kind, option) == IF option = << >> THEN [is |-> "null", value |-> << >>] ELSE Param(kind, option[1])

\* int_to_sql: the column decides on the width; the wider ones, and the other
\* types, hold all that is sent to them.
IntToSql(n, type) == IF type = "int2" THEN ((n + 32768) % 65536) - 32768 ELSE n

\* to_sql, into a column of a type.
ToSql(param, type) ==
    [i \in DOMAIN param.value |->
        IF param.is = "int" THEN IntToSql(param.value[i], type) ELSE param.value[i]]

\* convert_row: the column says what is read; a NULL is an error, and it is
\* the whole query's.
ConvertRow(row) ==
    IF \E column \in DOMAIN row : row[column] = << >> THEN [is |-> "error"]
    ELSE [is |-> "row",
          values |-> [column \in DOMAIN row |->
             [is |-> CASE ColumnType[column] = "int2" -> "int"
                       [] ColumnType[column] = "float8" -> "float"
                       [] ColumnType[column] = "timestamptz" -> "timestamp",
              value |-> row[column][1]]]]

\* get_i64, get_f64 and get_timestamp: a number is read as an integer or as a
\* float, and none of the columns read as integers is a float.
GetNumber(v) == IF v.is \in {"int", "float"} THEN << v.value >> ELSE << >>
GetTimestamp(v) == IF v.is = "timestamp" THEN << v.value >> ELSE << >>
------------------------------------------------------------------------------
(* The table *)

\* insert_chunk: one row; a pinned region goes before the strike's own.
Row(strike, region) ==
    LET param == [datetime |-> Param("timestamp", strike.timestamp.datetime[1]),
                  nanoseconds |-> Param("int", strike.timestamp.nanosecond),
                  x |-> Param("float", strike.x), y |-> Param("float", strike.y),
                  altitude |-> OrNull("int", strike.altitude),
                  region |-> Param("int", (region \o strike.region \o <<1>>)[1]),
                  error2d |-> OrNull("int", strike.lateral_error)]
    IN  [column \in DOMAIN ColumnType |-> ToSql(param[column], ColumnType[column])]

Key(timestamp, x, y, lateral_error) == <<TimeValue(timestamp), x, y, lateral_error>>

\* create_strike_key and HashableStrikeKey: coordinates by their bits.
CreateStrikeKey(strike) ==
    Key(strike.timestamp, Round4(strike.x), Round4(strike.y), strike.lateral_error)

\* The time of a row that was read.
TimeOf(values) == Timestamp(GetTimestamp(values.datetime)[1], GetNumber(values.nanoseconds)[1])

\* select_strike_keys.
SelectedKey(values) ==
    Key(TimeOf(values), Round4(GetNumber(values.x)[1]), Round4(GetNumber(values.y)[1]),
        GetNumber(values.error2d))

\* map_strike, which bo-db prints and bo-cluster works on.
MapStrike(values) ==
    [timestamp |-> TimeOf(values), x |-> GetNumber(values.x)[1], y |-> GetNumber(values.y)[1],
     altitude |-> GetNumber(values.altitude), region |-> << >>,
     lateral_error |-> << ForceRange(0, GetNumber(values.error2d)[1], 32767) >>]

Values(row) == ConvertRow(row).values

------------------------------------------------------------------------------
RecordsInit ==
    /\ feed \in Feed
    /\ taking = "options"
    /\ builder = NewBuilder
    /\ strikes = << >> /\ stored = << >>

\* parse_start_date: the midnight of a day.
ParseStartDate(date) == IF date = BadDate THEN << >> ELSE << date * DaySpan >>

\* resolve_start_time ends the program where the date is none.
BadStart ==
    /\ taking = "options"
    /\ feed.startdate # DefaultDate /\ ParseStartDate(feed.startdate) = << >>
    /\ taking' = "exited"
    /\ UNCHANGED <<feed, builder, strikes, stored>>

GoodStart ==
    /\ taking = "options"
    /\ feed.startdate # DefaultDate => ParseStartDate(feed.startdate) # << >>
    /\ taking' = "log"
    /\ UNCHANGED <<feed, builder, strikes, stored>>

StartTime == IF feed.startdate = DefaultDate THEN << >> ELSE ParseStartDate(feed.startdate)

\* import_strikes_for: from the newest row, or else from the start date, but
\* with --update not from before its window.
LatestTime ==
    LET latest == IF feed.latest # << >> THEN feed.latest ELSE StartTime
        windowStart == feed.now - UpdateSpan
    IN  IF feed.update /\ (latest = << >> \/ windowStart > latest[1]) THEN << windowStart >>
        ELSE latest

\* get_strikes_since: without any, from some hours ago.
Mark == IF LatestTime = << >> THEN feed.now - DefaultSpan ELSE LatestTime[1]

\* round_time: down to a whole file within its day.
RoundTime(t) == t - ((t % DaySpan) % FileSpan)

\* time_intervals: the files from that of the start to that of the end.
TimeIntervals(start, end) ==
    [k \in 1..((RoundTime(end) - RoundTime(start)) \div FileSpan + 1) |->
        RoundTime(start) + (k - 1) * FileSpan]

LogPath(t) ==
    [day |-> t \div DaySpan, hour |-> (t % DaySpan) \div HourSpan, minute |-> t % HourSpan]

\* build_path: the name of a file below that of its region.
BuildPath(path, region) == [region |-> region, path |-> path]

GetPaths == [k \in DOMAIN TimeIntervals(Mark, feed.now) |-> LogPath(TimeIntervals(Mark, feed.now)[k])]

\* The data server has a file for every region and span in which there was a
\* strike, named by when it begins.
FileOf(line) ==
    [region |-> line.region,
     path |-> [day |-> line.at \div DaySpan, hour |-> (line.at % DaySpan) \div HourSpan,
               minute |-> ((line.at % HourSpan) \div FileSpan) * FileSpan]]

\* read_lines: a file that is not there, or not in time, is skipped; any other
\* status than 200 is a file without lines.
LinesOf(url) ==
    IF feed.status = "200" THEN Among(feed.log, {line \in ToSet(feed.log) : FileOf(line) = url})
    ELSE << >>

\* bo-import: a builder per line, and only what is newer than the mark.
BuildStrikeFromLine(line) == Build(FromLine(NewBuilder, line))

Newer(strike) == IsValid(strike.timestamp) /\ strike.timestamp.datetime[1] > Mark

ImportLog ==
    /\ taking = "log"
    /\ LET lines == FlattenSeq([k \in DOMAIN GetPaths |->
                                    LinesOf(BuildPath(GetPaths[k], ImportRegion))])
           complete == Among(lines, {line \in ToSet(lines) : LineComplete(line)})
           built == [i \in DOMAIN complete |-> BuildStrikeFromLine(complete[i])]
           newer == Among(built, {strike \in ToSet(built) : Newer(strike)})
       IN  stored' = [i \in DOMAIN newer |-> Row(newer[i], <<ImportRegion>>)]
    /\ taking' = "download"
    /\ UNCHANGED <<feed, builder, strikes>>

\* parse_strikes_from_text: one builder for all the objects of a download.
ParseObject ==
    /\ taking = "download" /\ feed.download # << >>
    /\ LET json == Head(feed.download) IN
       IF ObjectComplete(json)
       THEN /\ builder' = FromJson(builder, json)
            /\ strikes' = Append(strikes, [strike |-> Build(builder'), json |-> json])
       ELSE UNCHANGED <<builder, strikes>>
    /\ feed' = [feed EXCEPT !.download = Tail(@)]
    /\ UNCHANGED <<taking, stored>>

\* update_strikes: what the table has no key of, each with its own region.
InsertNew ==
    /\ taking = "download" /\ feed.download = << >>
    /\ LET existing == {SelectedKey(Values(stored[i])) : i \in DOMAIN stored}
           new == Among(strikes, {s \in ToSet(strikes) : CreateStrikeKey(s.strike) \notin existing})
       IN  stored' = stored \o [i \in DOMAIN new |-> Row(new[i].strike, << >>)]
    /\ taking' = "done"
    /\ UNCHANGED <<feed, builder, strikes>>

RecordStep == BadStart \/ GoodStart \/ ImportLog \/ ParseObject \/ InsertNew

RecordSpec == RecordsInit /\ [][RecordStep]_recordVars
------------------------------------------------------------------------------
(* What the servers send *)

ASSUME SpansAssumption ==
    /\ FileSpan \in Nat \ {0} /\ HourSpan \in Nat \ {0} /\ DaySpan \in Nat \ {0}
    /\ HourSpan % FileSpan = 0 /\ DaySpan % HourSpan = 0
    /\ UpdateSpan \in Int /\ DefaultSpan \in Int /\ OldestYear \in Int

\* A line that has its time is in the file of that time, and not ahead of it.
IsLine(line, now) ==
    /\ line.at \in Int /\ line.at <= now
    /\ line.stamp # << >> =>
          /\ line.stamp[1].micros = line.at
          /\ line.stamp[1].nanos \in Nat /\ line.stamp[1].nanos < 1000
    /\ line.dev = << >> \/ line.dev[1] \in Int

IsObject(json) ==
    /\ json.time = << >> \/ json.time[1] \in Int
    /\ json.mds = << >> \/ json.mds[1] \in Int

\* A line that becomes a row, if it is not too old, and the key of that row; an
\* object's key.
Usable(line) == line.region = ImportRegion /\ LineComplete(line) /\ line.stamp # << >>
LineKey(line) == CreateStrikeKey(BuildStrikeFromLine(line))
ObjectKey(json) == CreateStrikeKey(Build(FromJson(NewBuilder, json)))

\* A log tells of a strike once, and so does a download.
IsFeed(f) ==
    /\ {"startdate", "update", "latest", "now", "log", "status", "download"} \subseteq DOMAIN f
    /\ f.now \in Int
    /\ f.startdate \in {DefaultDate, BadDate} \/ f.startdate \in Int
    /\ f.latest = << >> \/ f.latest[1] \in Int
    /\ f.log \in Seq(ToSet(f.log)) /\ \A line \in ToSet(f.log) : IsLine(line, f.now)
    /\ \A i, j \in DOMAIN f.log :
          Usable(f.log[i]) /\ Usable(f.log[j]) /\ LineKey(f.log[i]) = LineKey(f.log[j]) => i = j
    /\ f.download \in Seq(ToSet(f.download)) /\ \A json \in ToSet(f.download) : IsObject(json)
    /\ \A i, j \in DOMAIN f.download :
          /\ ObjectComplete(f.download[i]) /\ ObjectComplete(f.download[j])
          /\ ObjectKey(f.download[i]) = ObjectKey(f.download[j])
          => i = j

ASSUME FeedAssumption == \A f \in Feed : IsFeed(f)
------------------------------------------------------------------------------
(* Properties *)

\* The lines of the region that the server had when bo-import ran, and that
\* tell of a strike since the mark.
Expected ==
    {i \in DOMAIN feed.log :
        /\ feed.status = "200" /\ feed.log[i].region = ImportRegion
        /\ LineComplete(feed.log[i]) /\ Newer(BuildStrikeFromLine(feed.log[i]))}

Spot(row) == <<row.datetime, row.nanoseconds, Round4(row.x[1]), Round4(row.y[1])>>

\* Every strike of the download is made of its own object alone, whatever the
\* one builder met before; none is stored that makes the queries fail which read
\* it; every strike of the region's logs since the mark is imported, in whichever
\* file it is, and no other; a strike that bo-import has stored from its log is
\* found again by bo-update, which stores it only if the two feeds differ in the
\* deviation; and a row read back is the same strike.
FoundAgain ==
    /\ \A i \in DOMAIN strikes : strikes[i].strike = Build(FromJson(NewBuilder, strikes[i].json))
    /\ \A i \in DOMAIN stored : ConvertRow(stored[i]).is = "row"
    /\ taking = "download" =>
        /\ Len(stored) = Cardinality(Expected)
        /\ \A i \in Expected : \E j \in DOMAIN stored :
              stored[j] = Row(BuildStrikeFromLine(feed.log[i]), <<ImportRegion>>)
    /\ taking = "done" =>
        /\ \A i, j \in DOMAIN stored :
              Spot(stored[i]) = Spot(stored[j]) /\ stored[i].error2d = stored[j].error2d => i = j
        /\ \A i \in DOMAIN strikes :
              \E j \in DOMAIN stored :
                  CreateStrikeKey(MapStrike(Values(stored[j]))) = CreateStrikeKey(strikes[i].strike)
==============================================================================
