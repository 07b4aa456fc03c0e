---------------------------- MODULE MCImporters ----------------------------
(* Importers with two strikes in one or two log files, two runs of one      *)
(* program beside the websocket, full and partial batches, two attempts.    *)
(* How the text of a websocket message is read is Websocket, and how a line *)
(* and an object become rows is Records.  They share no state with the rest *)
(* and are done in its stead from states of their own, for every text of up *)
(* to seven of two characters and for every feed of two strikes.            *)
EXTENDS Importers, Websocket, Records

CONSTANTS s1, s2, r1, r2

MCStrikes == {s1, s2}
MCRuns == {r1, r2}
MCPrograms == {[r \in MCRuns |-> "bo-import"], [r \in MCRuns |-> "bo-update"]}
MCOneRun == {r1}
MCOneImport == {[r \in MCOneRun |-> "bo-import"]}

(* The feeds: a log and a download of the same one or two strikes, of which *)
(* a part may be missing or an object may come rounded.                     *)

Some(x) == << x >>
Degrees(negative, hundredThousandths) == [neg |-> negative, mag |-> hundredThousandths]

\* A west and an east longitude next to zero and off four decimals; the mark
\* of bo-import, a later time and one before 1901; deviations at both limits.
Truth == {[lon |-> lon, micros |-> when[1], nanos |-> 999, dev |-> when[2]] :
              lon \in {Degrees(TRUE, 3), Degrees(FALSE, 14)},
              when \in {<<5, 39>>, <<4, 330000>>, <<5, -7>>, <<0, 390>>}}

Line(strike) ==
    [region |-> 1, at |-> strike.micros,
     stamp |-> Some([micros |-> strike.micros, nanos |-> strike.nanos]),
     pos |-> Some([lon |-> strike.lon, lat |-> Degrees(FALSE, 4812346), alt |-> 0]),
     str |-> Some(2), dev |-> Some(strike.dev), sta |-> Some(7)]

Object(strike, rounded) ==
    [lon |-> Some(IF rounded THEN Round4(strike.lon) ELSE strike.lon),
     lat |-> Some(Degrees(FALSE, 4812346)),
     time |-> Some(strike.micros * 1000 + strike.nanos),
     alt |-> Some(0), mds |-> Some(strike.dev), region |-> Some(5)]

Without(record, parts) == [part \in DOMAIN record |-> IF part \in parts THEN << >> ELSE record[part]]

Other == [lon |-> Degrees(FALSE, 250001), micros |-> 6, nanos |-> 0, dev |-> 10]

MCFeeds ==
    {[startdate |-> DefaultDate, update |-> FALSE, latest |-> << 4 >>, now |-> 7,
      log |-> << Without(Line(strike), line), Without(Line(Other), otherLine) >>,
      status |-> status,
      download |-> << Without(Object(strike, rounded), object),
                      Without(Object(Other, FALSE), otherObject) >>] :
         strike \in Truth, rounded \in BOOLEAN, status \in {"200", "404"},
         line \in {{}, {"stamp"}, {"pos"}, {"sta"}},
         object \in {{}, {"time"}, {"lon"}, {"mds", "alt"}, {"region"}},
         otherLine \in {{}, {"str"}},
         otherObject \in {{}, {"region"}, {"lat"}}}

\* With a strike on every microsecond, each third in another region, up to some
\* moments around midnight, and all the ways to ask for them.
MCOptions ==
    {[startdate |-> startdate, update |-> update, latest |-> latest, now |-> clock,
      log |-> [at \in 1..clock |->
                  [Line([lon |-> Degrees(FALSE, at * 100000), micros |-> at, nanos |-> 0, dev |-> 10])
                      EXCEPT !.region = IF at % 3 = 0 THEN 2 ELSE 1]],
      status |-> "200", download |-> << >>] :
         startdate \in {DefaultDate, BadDate, 0, 1}, update \in BOOLEAN,
         latest \in {<< >>} \cup {<< t >> : t \in 3..10}, clock \in 10..16}

MCFeed == MCFeeds \cup MCOptions

TextDone ==
    /\ reading = "done"
    /\ text = << >> /\ string = << >> /\ learnt = << >> /\ codes = << >>
    /\ e = << >> /\ c = 0 /\ f = << >> /\ g = << >>

RecordsDone ==
    /\ feed = << >> /\ taking = "stored" /\ builder = << >>
    /\ strikes = << >> /\ stored = << >>

\* As they share no state, one world of the importers is enough beside them.
OneWorld ==
    /\ \A s \in Strike : time[s] = 1
    /\ program = CHOOSE programs \in Programs : TRUE
    /\ \A run \in Run : ~option[run]

MCInit ==
    /\ Init
    /\ \/ TextDone /\ RecordsDone
       \/ OneWorld /\ TextInit /\ RecordsDone
       \/ OneWorld /\ TextDone /\ RecordsInit

MCNext ==
    \/ TextStep /\ UNCHANGED <<vars, recordVars>>
    \/ RecordStep /\ UNCHANGED <<vars, textVars>>
    \/ reading = "done" /\ taking = "stored" /\ Next /\ UNCHANGED <<textVars, recordVars>>

MCSpec == MCInit /\ [][MCNext]_<<vars, textVars, recordVars>> /\ Fairness
=============================================================================
