------------------------------ MODULE Settings ------------------------------
(***************************************************************************)
(* How bo-webservice comes to its settings (src/src/config.rs and          *)
(* src/src/bin/bo-webservice.rs): the defaults, then the configuration     *)
(* file, then the environment, then the command line.  Fifteen settings    *)
(* share four sections of the file and some of them the name of their key. *)
(***************************************************************************)
EXTENDS Naturals, Sequences, SequencesExt

CONSTANTS Given,       (* what a start of the program may find             *)
          Spelling(_)  (* the characters of a word                         *)

VARIABLES given,       (* the file, the environment and the command line   *)
          stage,       (* how far the program has come                     *)
          config,      (* Config                                           *)
          usage        (* what became of the usage log                     *)

settingVars == <<given, stage, config, usage>>

\* A text is a word, with white space around it or not; "" is the empty one.
Text(word) == [word |-> word, padded |-> FALSE]
Trim(text) == Text(text.word)

Setting(kind, section, keys, env, default) ==
    [kind |-> kind, section |-> section, keys |-> keys, env |-> env, default |-> Text(default)]

Settings ==
    [port |-> Setting("port", "webservice", <<"port">>, <<"BO_SERVICE_PORT">>, "8080"),
     protocol |-> Setting("protocol", "webservice", <<"protocol">>, <<"BO_SERVICE_PROTOCOL">>, "http"),
     service_log_dir |-> Setting("path", "webservice", <<"servicelog", "log_directory">>,
                                 <<"BO_SERVICE_SERVICELOG", "BO_SERVICE_LOG_DIR">>, ""),
     service_geoip_db |-> Setting("path", "webservice", <<"geoip_db">>,
                                  <<"BO_GEOIP_DB", "BO_SERVICE_GEOIP_DB">>, ""),
     db_host |-> Setting("text", "db", <<"host">>, <<"BO_DB_HOST">>, "localhost"),
     db_port |-> Setting("text", "db", <<"port">>, <<"BO_DB_PORT">>, "5432"),
     db_name |-> Setting("text", "db", <<"dbname">>, <<"BO_DB_NAME">>, "blitzortung"),
     db_user |-> Setting("text", "db", <<"username">>, <<"BO_DB_USER">>, "blitzortung"),
     db_password |-> Setting("text", "db", <<"password">>, <<"BO_DB_PASSWORD">>, ""),
     db_connection_count |-> Setting("count", "db", <<"connection_count">>,
                                     <<"BO_DB_CONNECTION_COUNT">>, "3"),
     auth_username |-> Setting("text", "auth", <<"username">>, <<"BO_BLITZORTUNG_USERNAME">>, ""),
     auth_password |-> Setting("text", "auth", <<"password">>, <<"BO_BLITZORTUNG_PASSWORD">>, ""),
     statsd_host |-> Setting("text", "statsd", <<"host">>, <<"BO_STATSD_HOST">>, "localhost"),
     statsd_port |-> Setting("port", "statsd", <<"port">>, <<"BO_STATSD_PORT">>, "8125"),
     statsd_prefix |-> Setting("text", "statsd", <<"prefix">>, <<"BO_STATSD_PREFIX">>,
                               "org.blitzortung.service")]

Names == DOMAIN Settings

Ports == {"7070", "8080", "8081", "8125"}       \* the words that are a u16 ...
Counts == Ports \cup {"0", "1", "2", "3"}      \* ... and a u32

\* Protocol::parse.
Protocol(word) ==
    CASE word \in {"http", "https"} -> "http"
      [] word \in {"lsp", "netstring", "tcp"} -> "lsp"
      [] OTHER -> ""

\* Whether a setting takes a text at all, and what it makes of it.
Usable(kind, text) ==
    CASE kind = "port" -> text.word \in Ports /\ ~text.padded
      [] kind = "count" -> text.word \in Counts /\ ~text.padded
      [] kind = "protocol" -> Protocol(text.word) # ""
      [] OTHER -> TRUE

Meant(kind, text) == IF kind = "protocol" THEN Text(Protocol(text.word)) ELSE text

Taken(kind, text, value) == IF Usable(kind, text) THEN Meant(kind, text) ELSE value

------------------------------------------------------------------------------
(* The file *)

Section(name) == [is |-> "section", name |-> name]
Pair(key, word) == [is |-> "pair", key |-> key, text |-> [word |-> word, padded |-> TRUE]]
Other == [is |-> "other"]             \* empty, a comment, or without "="

\* HashMap::insert.
Insert(map, key, value) == [k \in DOMAIN map \cup {key} |-> IF k = key THEN value ELSE map[k]]

\* Mutant: a pair goes to the section it is first met in.
ReadIniOnce(file) ==
    FoldLeft(LAMBDA ini, line :
                CASE line.is = "section" /\ ini.section = "" -> [ini EXCEPT !.section = line.name]
                  [] line.is = "pair" /\ ini.section # "" ->
                        [ini EXCEPT !.pairs = Insert(@, <<ini.section, line.key>>, Trim(line.text))]
                  [] OTHER -> ini,
             [section |-> "", pairs |-> << >>], file).pairs

\* read_ini: pairs before any section are passed over; a later one wins.
ReadLine(ini, line) ==
    CASE line.is = "section" -> [ini EXCEPT !.section = line.name]
      [] line.is = "pair" /\ ini.section # "" ->
            [ini EXCEPT !.pairs = Insert(@, <<ini.section, line.key>>, Trim(line.text))]
      [] OTHER -> ini

ReadIni(file) == FoldLeft(ReadLine, [section |-> "", pairs |-> << >>], file).pairs

\* The place of the file that is read: that of BO_CONFIG, unless it is empty,
\* or else the first of the two that exists.
IniPath ==
    IF given.explicit \notin {"unset", "empty"} THEN given.explicit
    ELSE IF given.here # "none" THEN given.here ELSE given.etc

Ini == IF IniPath = "file" THEN ReadIni(given.lines) ELSE << >>

\* The first of several names that is there, with its text.
FirstOf(names, texts) ==
    LET there == {i \in DOMAIN names : names[i] \in DOMAIN texts}
    IN  IF there = {} THEN << >> ELSE << texts[names[Min(there)]] >>

FromFile(name) ==
    LET s == Settings[name] IN
    FirstOf([i \in DOMAIN s.keys |-> <<s.section, s.keys[i]>>], Ini)

FromEnv(name) == FirstOf(Settings[name].env, given.env)

\* The settings with the texts of one source over them.
Overridden(texts) ==
    [name \in Names |->
        IF texts[name] = << >> THEN config[name]
        ELSE Taken(Settings[name].kind, texts[name][1], config[name])]

------------------------------------------------------------------------------
(* The usage log.  Of a path the program asks whether it is a directory,   *)
(* and one to write to, its extension and its parent.                      *)

IsDir(path) == path \in {Text("/logs"), Text("/logs.d"), Text("/locked")}
IsWritable(path) == path \in {Text("/logs"), Text("/logs.d")}
HasExtension(path) == path.word \in {"/logs.d", "/logs/usage.log", "usage.log"}
Parent(path) == [path EXCEPT !.word = IF @ = "/logs/usage.log" THEN "/logs" ELSE ""]

\* servicelog_directory.
ServicelogDirectory(path) ==
    IF ~IsDir(path) /\ HasExtension(path) THEN Parent(path) ELSE path

\* resolve_servicelog: only the command line may name a file.
ResolveServicelog ==
    LET configured == config.service_log_dir
        path == IF "servicelog" \in DOMAIN given.cli
                THEN ServicelogDirectory(given.cli.servicelog) ELSE configured
    IN  IF "servicelog" \notin DOMAIN given.cli /\ configured = Text("")
        THEN [is |-> "disabled", path |-> Text("")]
        ELSE [is |-> IF IsWritable(path) THEN "enabled" ELSE "unusable", path |-> path]

------------------------------------------------------------------------------
(* The connection string *)

Spelled(text) ==
    IF text.padded THEN <<" ">> \o Spelling(text.word) \o <<" ">> ELSE Spelling(text.word)

\* quote_conninfo_value.
QuoteConninfoValue(value) ==
    LET escaped == FlattenSeq([i \in DOMAIN value |->
                       IF value[i] \in {"\\", "'"} THEN <<"\\", value[i]>> ELSE <<value[i]>>])
    IN  IF value = << >> \/ Contains(value, " ") THEN <<"'">> \o escaped \o <<"'">> ELSE escaped

ConnectionKeys == <<"db_host", "db_port", "db_name", "db_user", "db_password">>

\* db_connection_string.
DbConnectionString ==
    FlattenSeq([i \in DOMAIN ConnectionKeys |->
        (IF i = 1 THEN << >> ELSE <<" ">>)
          \o <<ConnectionKeys[i], "=">> \o QuoteConninfoValue(Spelled(config[ConnectionKeys[i]]))])

\* The client library reads such a string: key=value, a value up to white space
\* or in quotes, any character as it is after a backslash.
AddChar(r, char) == [r EXCEPT !.value = Append(@, char), !.after = "value"]
PutPair(r) == [r EXCEPT !.pairs = Append(@, <<r.key, r.value>>), !.value = << >>,
                        !.in = "key", !.after = "value", !.key = ""]

ReadKey(r, char) ==
    CASE char = " " -> r
      [] char = "=" -> [r EXCEPT !.in = "start"]
      [] OTHER -> [r EXCEPT !.key = char]

ReadStart(r, char) ==
    CASE char = " " -> r
      [] char = "'" -> [r EXCEPT !.in = "quoted"]
      [] char = "\\" -> [r EXCEPT !.in = "plain", !.after = "backslash"]
      [] OTHER -> AddChar([r EXCEPT !.in = "plain"], char)

EndOfValue(r) == IF r.in = "quoted" THEN "'" ELSE " "

ReadValue(r, char) ==
    IF r.after = "backslash" THEN AddChar(r, char)
    ELSE CASE char = "\\" -> [r EXCEPT !.after = "backslash"]
           [] char = EndOfValue(r) -> PutPair(r)
           [] OTHER -> AddChar(r, char)

ReadChar(r, char) ==
    CASE r.in = "key" -> ReadKey(r, char)
      [] r.in = "start" -> ReadStart(r, char)
      [] OTHER -> ReadValue(r, char)

NothingRead == [pairs |-> << >>, in |-> "key", key |-> "", value |-> << >>, after |-> "value"]

ReadConninfo(string) ==
    LET last == FoldLeft(ReadChar, NothingRead, string)
    IN  IF last.in = "plain" THEN PutPair(last).pairs ELSE last.pairs

------------------------------------------------------------------------------
SettingsInit ==
    /\ given \in Given
    /\ stage = "start"
    /\ config = [name \in Names |-> Settings[name].default]
    /\ usage = [is |-> "disabled", path |-> Text("")]

ReadFile ==
    /\ stage = "start"
    /\ config' = Overridden([name \in Names |-> FromFile(name)])
    /\ stage' = "file"
    /\ UNCHANGED <<given, usage>>

ReadEnv ==
    /\ stage = "file"
    /\ config' = Overridden([name \in Names |-> FromEnv(name)])
    /\ stage' = "environment"
    /\ UNCHANGED <<given, usage>>

\* main: an unknown protocol ends it; clap has seen to the port.
BadProtocol ==
    /\ stage = "environment"
    /\ "protocol" \in DOMAIN given.cli /\ Protocol(given.cli.protocol.word) = ""
    /\ stage' = "ended"
    /\ UNCHANGED <<given, config, usage>>

ReadArguments ==
    /\ stage = "environment"
    /\ "protocol" \in DOMAIN given.cli => Protocol(given.cli.protocol.word) # ""
    /\ config' = [config EXCEPT
            !.port = IF "port" \in DOMAIN given.cli THEN given.cli.port ELSE @,
            !.protocol = IF "protocol" \in DOMAIN given.cli
                         THEN Text(Protocol(given.cli.protocol.word)) ELSE @,
            !.service_geoip_db = IF "geoip_db" \in DOMAIN given.cli THEN given.cli.geoip_db ELSE @]
    /\ usage' = ResolveServicelog
    /\ stage' = "running"
    /\ UNCHANGED given

SettingsStep == ReadFile \/ ReadEnv \/ BadProtocol \/ ReadArguments

SettingsSpec == SettingsInit /\ [][SettingsStep]_settingVars

\* A file is a sequence of lines, and clap has seen to it that a port on the
\* command line is one.
ASSUME GivenAssumption ==
    \A g \in Given :
        /\ g.lines \in Seq(ToSet(g.lines))
        /\ "port" \in DOMAIN g.cli => Usable("port", g.cli.port)

\* The words that a setting may get from the file and the environment, or has
\* by default, are spelled with characters.
Words(g) ==
    {Settings[name].default.word : name \in Names}
      \cup {g.env[variable].word : variable \in DOMAIN g.env}
      \cup {line.text.word : line \in {l \in ToSet(g.lines) : l.is = "pair"}}

ASSUME SpellingAssumption ==
    \A g \in Given : \A word \in Words(g) : Spelling(word) \in Seq(STRING)

------------------------------------------------------------------------------
(* Properties *)

\* The texts of the file for a setting, as a reader of it finds them: the last
\* pair of its key under its section, by the first of its keys that is there.
Under(i) == {j \in 1..i : given.lines[j].is = "section"
                          /\ \A k \in (j + 1)..i : given.lines[k].is # "section"}

PairsOf(s, key) ==
    {i \in DOMAIN given.lines :
        /\ given.lines[i].is = "pair" /\ given.lines[i].key = key
        /\ \E j \in Under(i) : given.lines[j].name = s.section}

InFile(s) ==
    LET keys == {k \in DOMAIN s.keys : PairsOf(s, s.keys[k]) # {}} IN
    IF IniPath # "file" \/ keys = {} THEN {}
    ELSE {Trim(given.lines[Max(PairsOf(s, s.keys[Min(keys)]))].text)}

InEnv(s) ==
    LET set == {k \in DOMAIN s.env : s.env[k] \in DOMAIN given.env} IN
    IF set = {} THEN {} ELSE {given.env[s.env[Min(set)]]}

ArgumentOf == [port |-> "port", protocol |-> "protocol", service_geoip_db |-> "geoip_db"]

Argument(name) ==
    IF name \in DOMAIN ArgumentOf /\ ArgumentOf[name] \in DOMAIN given.cli
    THEN {given.cli[ArgumentOf[name]]} ELSE {}

\* The texts of the most explicit source that has one the setting can take.
Decides(name) ==
    LET s == Settings[name]
        sources == <<Argument(name), InEnv(s), InFile(s), {s.default}>>
        able == {i \in DOMAIN sources : \E text \in sources[i] : Usable(s.kind, text)}
    IN  sources[Min(able)]

\* Where the usage log is to be: what the command line says, a file being in its
\* directory, and without that what the other sources say.
LogPaths ==
    IF "servicelog" \in DOMAIN given.cli
    THEN {IF IsDir(path) \/ ~HasExtension(path) THEN path ELSE Parent(path) :
             path \in {given.cli.servicelog}}
    ELSE Decides("service_log_dir")

\* The log is kept exactly if a directory to write to is there, and only there:
\* a path that was overridden is not fallen back to, nor is any other.  Where
\* nothing is said of it, there is none; where what is said is of no use, the
\* program knows that it is (and warns).
UsageLogKept ==
    /\ usage.is = "enabled" <=> \E path \in LogPaths : IsWritable(path)
    /\ usage.is = "disabled" <=> "servicelog" \notin DOMAIN given.cli /\ LogPaths = {Text("")}
    /\ usage.is # "disabled" => usage.path \in LogPaths

\* Once the service runs, each of its settings has the value of the most
\* explicit source that gives it a usable one, and no text given for one
\* setting has moved another of the same key; the database is asked for with
\* the five texts as they are, whatever characters are in them; and the usage
\* log is kept exactly where, and exactly if, it is to be.
SettingsRespected ==
    stage = "running" =>
        /\ \A name \in Names : \E text \in Decides(name) : config[name] = Meant(Settings[name].kind, text)
        /\ ReadConninfo(DbConnectionString) =
              [i \in DOMAIN ConnectionKeys |-> <<ConnectionKeys[i], Spelled(config[ConnectionKeys[i]])>>]
        /\ UsageLogKept
==============================================================================
