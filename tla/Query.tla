------------------------------- MODULE Query -------------------------------
(***************************************************************************)
(* query.rs and geom.rs: the grids of the service and the statements it    *)
(* sends.  A statement is built from pieces of SQL that name their         *)
(* parameters; what is sent numbers them in the order of their first       *)
(* appearance, and the values travel in a list of that order.  Nothing     *)
(* checks that list against the numbers: that is what Run, the database of *)
(* the model, does when it reads the values by their numbers.              *)
(*                                                                         *)
(* Lengths are in units of 1/30 degree, times in seconds.  The size of a   *)
(* cell comes from a projection in floating point and is a constant here.  *)
(***************************************************************************)
EXTENDS Integers, Sequences, FiniteSets, SequencesExt, FiniteSetsExt

CONSTANTS
    Cell        \* the size of a grid's cell: base length -> [x, y]

Degree == 30

\* DEFAULT_SRID: the reference system of all coordinates
DEFAULT_SRID == 4326

\* GridFactory::fix_max: a whole number of cells.
FixMax(minimum, maximum, delta) == minimum + ((maximum - minimum) \div delta) * delta

\* GridFactory::new and get_for
Smaller(a, b) == IF a < b THEN a ELSE b
Larger(a, b) == IF a > b THEN a ELSE b

Factory(minlon, maxlon, minlat, maxlat) ==
    [minlon |-> Larger(minlon, -180 * Degree), maxlon |-> Smaller(maxlon, 180 * Degree),
     minlat |-> Larger(minlat, -90 * Degree), maxlat |-> Smaller(maxlat, 90 * Degree)]

GetFor(factory, baselength) ==
    LET cell == Cell[baselength]
    IN  [xmin |-> factory.minlon, xdiv |-> cell.x,
         xmax |-> FixMax(factory.minlon, factory.maxlon, cell.x),
         ymin |-> factory.minlat, ydiv |-> cell.y,
         ymax |-> FixMax(factory.minlat, factory.maxlat, cell.y)]

XBinCount(grid) == (grid.xmax - grid.xmin) \div grid.xdiv
YBinCount(grid) == (grid.ymax - grid.ymin) \div grid.ydiv

\* REGIONS
Regions == << <<-25, 57, 27, 72>>, <<110, 180, -50, 0>>, <<-140, -50, 10, 60>>,
              <<85, 150, -10, 60>>, <<-100, -30, -50, 20>>, <<-20, 50, -40, 40>>,
              <<-115, -50, 0, 30>> >>

RegionFactory(region) ==
    LET r == Regions[region]
    IN  Factory(r[1] * Degree, r[2] * Degree, r[3] * Degree, r[4] * Degree)

GlobalFactory == Factory(-180 * Degree, 180 * Degree, -90 * Degree, 90 * Degree)

\* LocalGrid: three tiles wide, and wider the farther from the equator: its
\* centre's latitude over 15, on either side.
LocalFactory(x, y, dataarea) ==
    LET lon == (x - 1) * dataarea
        lat == (y - 1) * dataarea
        size == 3 * dataarea
        twice == 2 * lat + size
        extension == IF twice < 0 THEN -twice ELSE twice
    IN  Factory(lon * Degree - extension, (lon + size) * Degree + extension,
                lat * Degree, (lat + size) * Degree)

Envelope4(g) == << g.xmin, g.xmax, g.ymin, g.ymax >>
LocalArea(x, y, dataarea) ==
    LET f == LocalFactory(x, y, dataarea) IN << f.minlon, f.maxlon, f.minlat, f.maxlat >>
-----------------------------------------------------------------------------
(* The builder *)

\* A piece of SQL: what it says, and the names of its placeholders in order.
Piece(sql, names) == [sql |-> sql, names |-> names]

NewQuery(table) ==
    [table |-> table, columns |-> << >>, conditions |-> << >>, groups |-> << >>,
     having |-> << >>, order |-> << >>, params |-> << >>, casts |-> << >>]

SetColumns(q, pieces) == [q EXCEPT !.columns = pieces]
Condition(q, piece) == [q EXCEPT !.conditions = Append(@, piece)]
Parameter(q, name, value) == [q EXCEPT !.params = Append(@, <<name, value>>)]
Typed(q, name, type) == [q EXCEPT !.casts = Append(@, <<name, type>>)]
GroupBy(q, name) == [q EXCEPT !.groups = Append(@, Piece(name, << >>))]
GroupHaving(q, piece, name, value) ==
    Parameter([q EXCEPT !.having = Append(@, piece)], name, value)
OrderBy(q, name) == [q EXCEPT !.order = Append(@, Piece(name, << >>))]

\* to_sql: the clauses in the order of the text; HAVING only after GROUP BY.
SqlText(q) ==
    q.columns \o q.conditions \o q.groups
      \o (IF q.groups = << >> THEN << >> ELSE q.having) \o q.order

\* param_names_in_order
ParamNames(q) == LET text == SqlText(q) IN FlattenSeq([i \in DOMAIN text |-> text[i].names])

\* Each name once, where it appears first.
DistinctNames(q) ==
    LET names == ParamNames(q)
        seen(i) == \E j \in 1 .. i - 1 : names[j] = names[i]
    IN  FlattenSeq([i \in DOMAIN names |-> IF seen(i) THEN << >> ELSE << names[i] >>])

\* named_to_positional_with_casts: a placeholder has the number of its name,
\* and its cast, if it has one.
Numbered(names, casts, piece) ==
    LET position(name) == CHOOSE n \in DOMAIN names : names[n] = name
        cast(name) == {c \in DOMAIN casts : casts[c][1] = name}
    IN  [sql |-> piece.sql,
         at |-> [i \in DOMAIN piece.names |-> position(piece.names[i])],
         types |-> [i \in DOMAIN piece.names |->
                       IF cast(piece.names[i]) = {} THEN "inferred"
                       ELSE casts[Max(cast(piece.names[i]))][2]]]

ToPostgres(q) ==
    LET names == DistinctNames(q)
        numbered(pieces) == [i \in DOMAIN pieces |-> Numbered(names, q.casts, pieces[i])]
    IN  [table |-> q.table, columns |-> numbered(q.columns),
         conditions |-> numbered(q.conditions), groups |-> numbered(q.groups),
         having |-> IF q.groups = << >> THEN << >> ELSE numbered(q.having),
         order |-> numbered(q.order)]

\* parameters: the value a name was registered with last; a name without a
\* value is left out, and those after it move up.
Registered(q, name) ==
    LET at == {i \in DOMAIN q.params : q.params[i][1] = name}
    IN  IF at = {} THEN << >> ELSE << q.params[Max(at)][2] >>

Parameters(q) ==
    LET names == DistinctNames(q) IN FlattenSeq([i \in DOMAIN names |-> Registered(q, names[i])])
-----------------------------------------------------------------------------
(* The statements *)

AddTimeInterval(q, interval) ==
    Typed(Parameter(Condition(
        Typed(Parameter(Condition(q, Piece("timestamp >=", <<"start_time">>)),
                        "start_time", interval.start), "start_time", "timestamptz"),
        Piece("timestamp <", <<"end_time">>)), "end_time", interval.end),
        "end_time", "timestamptz")

AddRegion(q, region) ==
    IF region = << >> THEN q
    ELSE Typed(Parameter(Condition(q, Piece("region =", <<"region">>)),
                         "region", region[1]), "region", "smallint")

GroupCells(q, threshold) ==
    LET grouped == GroupBy(GroupBy(q, "rx"), "ry")
    IN  IF threshold > 0
        THEN Typed(GroupHaving(grouped, Piece("count >", <<"count_threshold">>),
                               "count_threshold", threshold), "count_threshold", "bigint")
        ELSE grouped

GridQuery(grid, interval, region, threshold) ==
    LET p1 == Parameter(Parameter(NewQuery("strikes"), "xmin", grid.xmin), "xdiv", grid.xdiv)
        p2 == Parameter(Parameter(p1, "ymin", grid.ymin), "ydiv", grid.ydiv)
        columns == SetColumns(p2, << Piece("trunc rx", <<"xmin", "xdiv">>),
                                     Piece("trunc ry", <<"ymin", "ydiv">>) >>)
        within == Parameter(Parameter(
                      Condition(columns, Piece("envelope && geog", <<"envelope", "envelope_srid">>)),
                      "envelope", Envelope4(grid)), "envelope_srid", DEFAULT_SRID)
    IN  GroupCells(AddRegion(AddTimeInterval(within, interval), region), threshold)

\* The whole world: no envelope, cells counted from the meridian and equator.
GlobalGridQuery(grid, interval, threshold) ==
    LET sized == Parameter(Parameter(NewQuery("strikes"), "xdiv", grid.xdiv), "ydiv", grid.ydiv)
        columns == SetColumns(sized, << Piece("round rx", <<"xdiv", "xdiv">>),
                                        Piece("round ry", <<"ydiv", "ydiv">>) >>)
    IN  GroupCells(AddTimeInterval(columns, interval), threshold)

\* end_time is registered twice, by the column and by the time condition.
HistogramQuery(interval, binsize, envelope) ==
    LET columns == SetColumns(NewQuery("strikes"),
                              << Piece("interval", <<"end_time", "binsize">>) >>)
        timed == AddTimeInterval(
                     Typed(Parameter(Parameter(columns, "end_time", interval.end),
                                     "binsize", binsize), "binsize", "integer"), interval)
        grouped == OrderBy(GroupBy(timed, "interval"), "interval")
    IN  IF envelope = << >> THEN grouped
        ELSE Parameter(Parameter(
                 Condition(grouped, Piece("envelope && geog", <<"envelope", "envelope_srid">>)),
                 "envelope", envelope[1]), "envelope_srid", DEFAULT_SRID)
-----------------------------------------------------------------------------
(* The database: external.  It knows only numbers and values. *)

Bound(ps, piece, i) == ps[piece.at[i]]

\* Division of integers toward zero, as Postgres and TRUNC do.
Toward0(a, b) == IF a >= 0 THEN a \div b ELSE -((-a) \div b)

\* ROUND of a double: to the nearest integer, a tie to the even one.
RoundEven(a, b) ==
    LET low == a \div b
        twice == 2 * (a - low * b)
    IN  IF twice < b \/ (twice = b /\ low % 2 = 0) THEN low ELSE low + 1

Holds(piece, ps, strike) ==
    CASE piece.sql = "timestamp >=" -> strike.timestamp >= Bound(ps, piece, 1)
      [] piece.sql = "timestamp <" -> strike.timestamp < Bound(ps, piece, 1)
      [] piece.sql = "region =" -> strike.region = Bound(ps, piece, 1)
      [] piece.sql = "envelope && geog" ->
            LET e == Bound(ps, piece, 1)
            IN  /\ Bound(ps, piece, 2) = DEFAULT_SRID
                /\ strike.x \in e[1] .. e[2] /\ strike.y \in e[3] .. e[4]

ColumnOf(piece, ps, strike) ==
    CASE piece.sql = "trunc rx" ->
            Toward0(strike.x - Bound(ps, piece, 1), Bound(ps, piece, 2))
      [] piece.sql = "trunc ry" ->
            Toward0(strike.y - Bound(ps, piece, 1), Bound(ps, piece, 2))
      [] piece.sql = "round rx" ->
            RoundEven(2 * strike.x - Bound(ps, piece, 1), 2 * Bound(ps, piece, 2))
      [] piece.sql = "round ry" ->
            RoundEven(2 * strike.y - Bound(ps, piece, 1), 2 * Bound(ps, piece, 2))
      [] piece.sql = "interval" ->
            -Toward0(Toward0(Bound(ps, piece, 1) - strike.timestamp, 60), Bound(ps, piece, 2))

\* The rows of a grouped statement over the strikes of a table, a set: the
\* group, how many strikes it has, and the newest of them.
Run(statement, ps, table) ==
    LET matching == {i \in DOMAIN table :
                        \A c \in DOMAIN statement.conditions :
                            Holds(statement.conditions[c], ps, table[i])}
        groupOf(i) == [c \in DOMAIN statement.columns |->
                          ColumnOf(statement.columns[c], ps, table[i])]
        members(g) == {i \in matching : groupOf(i) = g}
    IN  {[group |-> g, count |-> Cardinality(members(g)),
          newest |-> Max({table[i].timestamp : i \in members(g)})] :
            g \in {h \in {groupOf(i) : i \in matching} :
                      \A p \in DOMAIN statement.having :
                          Cardinality(members(h)) > Bound(ps, statement.having[p], 1)}}
=============================================================================
