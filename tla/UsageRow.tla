------------------------------ MODULE UsageRow ------------------------------
(***************************************************************************)
(* How a usage entry becomes the row of a day file (service_log.rs), and   *)
(* how a report reads the row again (stats/parse.rs).                      *)
(*                                                                         *)
(* An entry has the fields of ServiceLogEntry, << >> for one that is None; *)
(* a user agent is its first word, cut at the last dash.  A row is what    *)
(* stands between its tabs: << >> where two of them follow each other, and *)
(* else a kind of text with what it says.  No name is a number, or of one  *)
(* character only.                                                         *)
(***************************************************************************)
EXTENDS Integers, Sequences, SequencesExt

CONSTANTS GeoIp    (* the GeoIP database: [country, city] of an address,   *)
                   (* the city by [name, length]; << >> for none           *)

Dash == <<"dash", "-">>
Letter(l) == <<"letter", l>>
Number(n) == <<"number", n>>

\* user_agent_version
UserAgentVersion(agent) ==
    IF agent # << >> /\ agent[1].client \in {"bo-android", "bo-ios"} /\ agent[1].version # <<0>>
    THEN agent[1].version ELSE << >>

\* client_platform: an Android client by its name alone.
ClientPlatform(agent, version) ==
    CASE agent # << >> /\ agent[1].client = "bo-android" -> Letter("A")
      [] agent # << >> /\ agent[1].client = "bo-ios" /\ version # << >> -> Letter("I")
      [] OTHER -> Dash

\* geoip_lookup: nothing for what is no address, or no known one.
GeoIpLookup(client) ==
    IF client # << >> /\ client[1] \in DOMAIN GeoIp THEN GeoIp[client[1]]
    ELSE [country |-> << >>, city |-> << >>]

\* pad_city: as many tabs as fill the column, at least one.
TAB_STOP == 8
CITY_TABS == 4
PadCity(length) ==
    LET full == length \div TAB_STOP
    IN  CITY_TABS - (IF full < CITY_TABS - 1 THEN full ELSE CITY_TABS - 1)

\* format_timestamp: the milliseconds of the day, from microseconds.
FormatTimestamp(us) == <<"time", (us \div 1000) % (24 * 60 * 60 * 1000)>>

\* The percentage, in ten-thousandths, with three decimals; none ends in 5.
FormatFill(fill) == IF fill = << >> THEN Dash ELSE <<"fill", (fill[1] + 5) \div 10>>

OrDash(kind, value) == IF value = << >> THEN Dash ELSE <<kind, value[1]>>

\* build_row: the city is followed by its tabs, all others by one.
BuildRow(entry) ==
    LET version == UserAgentVersion(entry.agent)
        at == GeoIpLookup(entry.client)
        city == IF at.city = << >> THEN [name |-> Dash, length |-> 1]
                ELSE [name |-> <<"text", at.city[1].name>>, length |-> at.city[1].length]
    IN  <<FormatTimestamp(entry.us), OrDash("text", at.country), city.name>>
        \o [i \in 1 .. PadCity(city.length) - 1 |-> << >>]
        \o <<ClientPlatform(entry.agent, version),
             IF version = << >> THEN <<"text", "None">> ELSE Number(version[1]),
             Letter(entry.query), Number(entry.offset), Number(entry.minutes),
             OrDash("number", entry.grid), Number(entry.region), OrDash("number", entry.threshold)>>
        \o (IF entry.local = << >> THEN << Dash, Dash, Dash >>
            ELSE [i \in 1 .. 3 |-> Number(entry.local[i])])
        \o <<FormatFill(entry.fill)>>

\* access_metric_key: what the counter of a request is named by.  A centre of
\* zero is as none.
AccessMetricKey(entry) ==
    LET at == GeoIpLookup(entry.client)
    IN  [version |-> UserAgentVersion(entry.agent), type |-> entry.query, region |-> entry.region,
         minutes |-> entry.minutes, offset |-> entry.offset, grid |-> entry.grid,
         local |-> IF \E i \in DOMAIN entry.local : entry.local[i] = 0 THEN << >> ELSE entry.local,
         country |-> at.country]
-----------------------------------------------------------------------------
(* Reading *)

SERVICELOG_FIELDS == 15

\* The segments between which there is something.
FieldsOf(row) == SelectSeq(row, LAMBDA segment : segment # << >>)

\* A field that was cut short, or ran on into the first field of another row:
\* it ends in the time of a day, if it ends at all.
Garbled == <<"garbled", 0>>

\* dash_to_none; dash_to_int and parse_version, for which all but a number is
\* none; dash_to_f64.
TextOf(field) == IF field[1] = "dash" THEN << >> ELSE << field[2] >>
IsNumber(field) == field[1] = "number"
NumberOf(field) == IF IsNumber(field) THEN << field[2] >> ELSE << >>
FillOf(field) == IF field[1] \in {"number", "fill"} THEN << field[2] >> ELSE << >>

\* parse_query_type takes any one character.
OneCharacter(field) ==
    field[1] \in {"letter", "dash"} \/ (IsNumber(field) /\ field[2] \in 0 .. 9)

\* parse_row: the row, or none.
ParseRow(field) ==
    IF /\ Len(field) = SERVICELOG_FIELDS
       /\ OneCharacter(field[6])
       /\ \A n \in {7, 8, 10} : IsNumber(field[n])
    THEN << [time |-> field[1], country |-> TextOf(field[2]), city |-> TextOf(field[3]),
             platform |-> field[4], version |-> NumberOf(field[5]), query |-> field[6],
             offset |-> field[7][2], minutes |-> field[8][2], grid |-> NumberOf(field[9]),
             region |-> field[10][2], threshold |-> NumberOf(field[11]),
             x |-> NumberOf(field[12]), y |-> NumberOf(field[13]), area |-> NumberOf(field[14]),
             fill |-> FillOf(field[15])] >>
    ELSE << >>

\* What is read of the row of an entry.
RowRead(entry) == ParseRow(FieldsOf(BuildRow(entry)))
-----------------------------------------------------------------------------
(* Properties *)

\* A row read again tells of the entry it was made of: whatever is known of
\* the client, how long the name of its city is, and which fields the kind of
\* request does not have.  And one counter counts only requests that the report
\* counts alike.
RowTells(entries) ==
    /\ \A e \in entries :
          LET read == RowRead(e)[1]
              at == GeoIpLookup(e.client)
          IN  /\ RowRead(e) # << >>
              /\ read.country = at.country
              /\ at.city = << >> => read.city = << >>
              /\ at.city # << >> => read.city = << at.city[1].name >>
              /\ read.version = e.agent[1].version
              /\ read.platform = Letter(IF e.agent[1].client = "bo-ios" THEN "I" ELSE "A")
              /\ <<read.query, read.offset, read.minutes, read.grid, read.region, read.threshold>>
                    = <<Letter(e.query), e.offset, e.minutes, e.grid, e.region, e.threshold>>
              /\ <<read.x, read.y, read.area>> =
                    IF e.local = << >> THEN << << >>, << >>, << >> >>
                    ELSE [i \in 1 .. 3 |-> << e.local[i] >>]
              /\ (read.fill = << >>) = (e.query = "C")
              /\ 1000 * read.time[2] <= e.us /\ e.us < 1000 * (read.time[2] + 1)
    /\ \A d, e \in entries :
          AccessMetricKey(d) = AccessMetricKey(e) =>
              LET c == RowRead(d)[1]
                  r == RowRead(e)[1]
              IN  <<c.query, c.region, c.minutes, c.country, c.version>>
                     = <<r.query, r.region, r.minutes, r.country, r.version>>
=============================================================================
