---------------------------- MODULE UsageReport ----------------------------
(***************************************************************************)
(* The report of bo-servicelog-stats (src/src/stats): it reads the file of *)
(* a day back, perhaps while the service still writes it, and counts.  A   *)
(* row has fifteen fields; a torn one has no newline, so that the next row *)
(* of the file goes on where it ends.                                      *)
(***************************************************************************)
EXTENDS UsageLog, UsageRow, SequencesExt, FiniteSetsExt

CONSTANTS Logged,    (* what each entry says                              *)
          Top        (* --top                                              *)

\* A line ends with a whole row, or with the file.
EndsLine(file, i) == file[i].cut = Whole \/ i = Len(file)

\* content.lines: first and last piece of each line, in order.
Lines(file) ==
    LET ends == {i \in DOMAIN file : EndsLine(file, i)}
        start(i) == Max({0} \cup {j \in ends : j < i}) + 1
    IN  [n \in 1 .. Cardinality(ends) |->
            LET last == CHOOSE i \in ends : Cardinality({j \in ends : j <= i}) = n
            IN  << start(last), last >>]

\* The fields of the row of each entry, and what is read of it.
RowOf == [e \in Entry |-> FieldsOf(BuildRow(Logged[e]))]

AsRead == [e \in Entry |-> RowRead(Logged[e])[1]]

\* The fields of a piece, the last of which is open or closed.
Size(piece) == (piece.cut + 1) \div 2
Open(piece) == piece.cut % 2 = 1
Kept(piece) ==
    LET fields == SubSeq(RowOf[piece.entry], 1, Size(piece))
    IN  IF Open(piece) THEN Append(Front(fields), Garbled) ELSE fields

\* The fields of a line: after an open one, the next piece goes on in it.
LineFields(file, line) ==
    LET part(i) == IF i > line[1] /\ Open(file[i - 1]) THEN Tail(Kept(file[i])) ELSE Kept(file[i])
    IN  FlattenSeq([n \in 1 .. line[2] - line[1] + 1 |-> part(line[1] + n - 1)])

\* Mutant: a line of more than fifteen fields is read up to the fifteenth.
ParseLineLoose(file, line) ==
    LET fields == LineFields(file, line)
    IN  ParseRow(SubSeq(fields, 1, Min({SERVICELOG_FIELDS, Len(fields)})))

\* What is read of a line, if it is a row.
ParseLine(file, line) == ParseRow(LineFields(file, line))

\* parse_content
ParseContent(file) ==
    LET all == Lines(file)
        lines == SelectSeq(all, LAMBDA line : ParseLine(file, line) # << >>)
    IN  [rows |-> [n \in DOMAIN lines |-> ParseLine(file, lines[n])[1]],
         lines |-> lines,
         malformed |-> Len(all) - Len(lines)]
-----------------------------------------------------------------------------
(* aggregate *)

IsLocal(row) == row.region = -1
IsGlobal(row) == row.region = 0
IsRegion(row) == row.region > 0

IsGrid(row) == row.query = Letter("G")
IsCluster(row) == row.query = Letter("C")

\* A background query: the widget's grid of ten minutes.
IsOffline(row) == IsGrid(row) /\ row.minutes = 10

\* How many rows there are of a kind.
Count(rows, Kind(_)) == Len(SelectSeq(rows, Kind))

QueryMatrix(rows) ==
    [cell \in {"G", "C"} \X {"local", "global", "region"} |->
        Count(rows, LAMBDA row :
            /\ row.query = Letter(cell[1])
            /\ CASE cell[2] = "local" -> IsLocal(row)
                 [] cell[2] = "global" -> IsGlobal(row)
                 [] cell[2] = "region" -> IsRegion(row))]

\* take_top: by falling count, then by rising label, cut after so many.
TakeTop(rows, field, n) ==
    LET labels == {rows[i][field][1] : i \in {j \in DOMAIN rows : rows[j][field] # << >>}}
        count(l) == Count(rows, LAMBDA row : row[field] = << l >>)
        sorted == SetToSortSeq(labels, LAMBDA k, l :
                      count(k) > count(l) \/ (count(k) = count(l) /\ k < l))
    IN  [i \in 1 .. Min({n, Len(sorted)}) |-> [label |-> sorted[i], count |-> count(sorted[i])]]

\* take_distribution: the tile sizes of local queries whose place is known;
\* they are at least 5, and 5 where unknown.
Located(row) == IsLocal(row) /\ row.x # << >> /\ row.y # << >>
DataArea(row) == Max({5} \cup Range(row.area))
TakeDistribution(rows) ==
    LET located == SelectSeq(rows, Located)
        areas == {DataArea(located[i]) : i \in DOMAIN located}
        sorted == SetToSortSeq(areas, LAMBDA a, b : a < b)
    IN  [i \in DOMAIN sorted |-> [area |-> sorted[i],
            count |-> Count(located, LAMBDA row : DataArea(row) = sorted[i])]]

Aggregate(rows) ==
    [total |-> Len(rows),
     grid |-> Count(rows, IsGrid),
     cluster |-> Count(rows, IsCluster),
     local |-> Count(rows, IsLocal),
     global |-> Count(rows, IsGlobal),
     region |-> Count(rows, IsRegion),
     matrix |-> QueryMatrix(rows),
     offline |-> Count(rows, LAMBDA row : Located(row) /\ IsOffline(row)),
     interactive |-> Count(rows, LAMBDA row : Located(row) /\ ~IsOffline(row)),
     unknownCountry |-> Count(rows, LAMBDA row : row.country = << >>),
     unknownVersion |-> Count(rows, LAMBDA row : row.version = << >>),
     countries |-> TakeTop(rows, "country", Top),
     versions |-> TakeTop(rows, "version", Top),
     areas |-> TakeDistribution(rows)]

\* day_report
DayReport(d) ==
    LET outcome == ParseContent(files[d])
    IN  [stats |-> Aggregate(outcome.rows), malformed |-> outcome.malformed]
-----------------------------------------------------------------------------
(* Properties *)

Sum(matrix, cells) == MapThenSumSet(LAMBDA c : matrix[c], cells)
Written(d) == {e \in Entry : fate[e] = "written" /\ stamp[e] = d}

\* What the report reads is what its entry says: in full, or torn after the
\* region.  What follows then may have been lost, but is not misread (the fill
\* may be; nothing counts it).
Agrees(read, entry) ==
    LET meant == AsRead[entry]
    IN  /\ <<read.country, read.version, read.query, read.minutes, read.region>>
              = <<meant.country, meant.version, meant.query, meant.minutes, meant.region>>
        /\ read.x # << >> /\ read.y # << >> => <<read.x, read.y>> = <<meant.x, meant.y>>
        /\ read.area \in {<< >>, meant.area}

\* A file tells the truth of the entries written to it: no request is counted
\* twice or for another.  A line is told by its first piece of more than one
\* field, which is whole at least up to its tenth, the region; and where it is
\* torn, no whole row follows it on its line.  A row that was written is missed
\* only with a malformed line, and there is a tear for each of those.
FileTold(file, outcome, written) ==
    LET teller(line) == Min({i \in line[1] .. line[2] : Size(file[i]) > 1} \cup {line[2]})
        counted == {file[teller(line)].entry : line \in Range(outcome.lines)}
    IN  /\ Len(outcome.rows) = Cardinality(counted)
        /\ \A n \in DOMAIN outcome.rows : \A i \in {teller(outcome.lines[n])} :
              /\ Agrees(outcome.rows[n], file[i].entry)
              /\ file[i].cut >= 2 * 10
              /\ file[i].cut # Whole =>
                    \A j \in i .. outcome.lines[n][2] : file[j].cut # Whole
        /\ Cardinality(written \ counted) <= outcome.malformed
        /\ outcome.malformed <= Cardinality({i \in DOMAIN file : file[i].cut # Whole})

\* What the report says of a day is what was asked that day, whenever it is
\* made and whatever writes failed.
ReportTrue == \A d \in Day : FileTold(files[d], ParseContent(files[d]), Written(d))

\* Two pieces of two entries, torn anywhere.
EveryTearTold ==
    \A d, e \in Entry : d # e =>
        \A a \in 1 .. Whole - 1, b \in 1 .. Whole :
            \A file \in {<<[entry |-> d, cut |-> a], [entry |-> e, cut |-> b]>>} :
                FileTold(file, ParseContent(file), IF b = Whole THEN {e} ELSE {})

\* The numbers of a report agree with each other: every row is in one cell of
\* the matrix, whose sums are the counts by query and by flavour; the named
\* and the unknown make up the whole, where the list is not cut; and the
\* located local queries are those of the distribution, offline or not.
Total(list) == MapThenSumSet(LAMBDA i : list[i].count, DOMAIN list)

ListAdds(list, unknown, total) ==
    /\ Total(list) + unknown <= total
    /\ Len(list) < Top => Total(list) + unknown = total
    /\ \A i \in 1 .. Len(list) - 1 : list[i].count >= list[i + 1].count

Adds(s) ==
    /\ s.total = Sum(s.matrix, DOMAIN s.matrix)
    /\ s.grid = Sum(s.matrix, {"G"} \X {"local", "global", "region"})
    /\ s.cluster = Sum(s.matrix, {"C"} \X {"local", "global", "region"})
    /\ s.local = Sum(s.matrix, {"G", "C"} \X {"local"})
    /\ s.global = Sum(s.matrix, {"G", "C"} \X {"global"})
    /\ s.region = Sum(s.matrix, {"G", "C"} \X {"region"})
    /\ ListAdds(s.countries, s.unknownCountry, s.total)
    /\ ListAdds(s.versions, s.unknownVersion, s.total)
    /\ s.offline + s.interactive = Total(s.areas)

ReportAdds == \A d \in Day : Adds(DayReport(d).stats)

LoggedTold == RowTells(Range(Logged))

\* The report of bo-servicelog-stats is true and adds up, and its rows tell of
\* the requests they were written for.
ReportAgrees == ReportTrue /\ ReportAdds /\ LoggedTold /\ EveryTearTold
=============================================================================
