---------------------------- MODULE MCWebService ---------------------------
(* WebService with two connections and three requests over a queue of one,   *)
(* so that it fills, and two days, so that an entry of the first can be      *)
(* queued behind one of the second; and the report over their rows: a widget *)
(* in the background, clusters nearby, a map of a region.  Where the log is  *)
(* kept, and whether, is decided by Settings first, which shares no state    *)
(* with the rest and is forgotten once the service runs.                     *)
EXTENDS WebService, UsageReport, Settings

CONSTANTS c1, c2, e1, e2, e3

MCConnection == {c1, c2}
MCHolder == {c1, c2, Main}
MCEntry == {e1, e2, e3}

\* Countries and versions are numbers, which have an order.
MCGeoIp ==
    ("near" :> [country |-> <<2>>, city |-> <<[name |-> "short", length |-> 7]>>])
    @@ ("far" :> [country |-> <<1>>, city |-> <<[name |-> "long", length |-> 33]>>])
    @@ ("sea" :> [country |-> << >>, city |-> << >>])

Entered(client, agent, us, query, offset, minutes, grid, region, threshold, local, fill) ==
    [us |-> us, query |-> query, offset |-> offset, minutes |-> minutes, grid |-> grid,
     region |-> region, threshold |-> threshold, local |-> local, fill |-> fill,
     client |-> << client >>, agent |-> << agent >>]

Android == [client |-> "bo-android", version |-> <<190>>]
Ios == [client |-> "bo-ios", version |-> <<5>>]

MCLogged ==
    (e1 :> Entered("near", Android, 1999, "G", 0, 10, <<5001>>, -1, <<0>>, <<1, 11, 10>>, <<123456>>))
    @@ (e2 :> Entered("no address", Ios, 123000, "C", -10, 20, << >>, -1, << >>, <<0, 11, 2>>, << >>))
    @@ (e3 :> Entered("far", Android, 500, "G", 0, 60, <<100000>>, 1, <<2>>, << >>, <<0>>))

Maybe(name, words) == {<< >>} \cup {name :> Text(word) : word \in words}

\* Two pairs of one key, each in any of the sections or before them all.
Files(sections, keys, words) ==
    UNION {{<<Section(a), Pair(k, v), Section(b), Pair(l, w)>>,
            <<Pair(k, v), Section(a), Other, Pair(l, w), Section(b)>>} :
        a \in sections, b \in sections, k \in keys, l \in keys, v \in words, w \in words}

Starts(texts, env, cli) ==
    {[explicit |-> "file", here |-> "none", etc |-> "none", lines |-> f, env |-> e, cli |-> c] :
        f \in texts, e \in env, c \in cli}

\* Words of up to three of the characters that need care, and a word without.
Phrases == {"", "quote", "back", "gap", "quoted gap", "trap"}

MCSpelling(word) ==
    CASE word = "" -> << >>
      [] word = "quote" -> <<"'", "a">>
      [] word = "back" -> <<"a", "\\">>
      [] word = "gap" -> <<"a", " ", "\\">>
      [] word = "quoted gap" -> <<"'", " ", "'">>
      [] word = "trap" -> <<"\\", "'", " ">>
      [] OTHER -> <<word>>

\* Texts of the environment are not trimmed.
PaddedEnv ==
    {variable :> [word |-> word, padded |-> TRUE] :
        variable \in {"BO_DB_HOST", "BO_DB_PORT", "BO_SERVICE_PORT", "BO_SERVICE_LOG_DIR"},
        word \in {"7070", "back", "/logs"}}

MCGiven ==
    UNION {
      Starts(Files({"webservice", "db", "statsd"}, {"port"}, {"7070", "8081", "70000"}),
             Maybe("BO_SERVICE_PORT", {"8081", "none"}) \cup Maybe("BO_DB_PORT", {"none"}),
             Maybe("port", {"7070"})),
      Starts(Files({"db", "statsd"}, {"connection_count"}, {"0", "2", "many"}),
             Maybe("BO_DB_CONNECTION_COUNT", {"1", "many"}), {<< >>}),
      Starts(Files({"webservice"}, {"protocol"}, {"tcp", "https", "ftp"}),
             Maybe("BO_SERVICE_PROTOCOL", {"http", "lsp", "ftp"}),
             Maybe("protocol", {"http", "lsp", "ftp"})),
      Starts(Files({"webservice", "db"}, {"servicelog", "log_directory"}, {"/logs", ""}),
             {p @@ a : p \in Maybe("BO_SERVICE_SERVICELOG", {"", "/logs.d"}),
                       a \in Maybe("BO_SERVICE_LOG_DIR", {"/locked"})},
             Maybe("servicelog", {"/logs", "/logs/usage.log", "usage.log", "/locked"})),
      Starts({<< >>}, {p @@ h : p \in Maybe("BO_DB_PASSWORD", Phrases),
                                h \in Maybe("BO_DB_HOST", Phrases)}, {<< >>}),
      {[explicit |-> x, here |-> h, etc |-> t, lines |-> <<Section("db"), Pair("host", "a")>>,
        env |-> e, cli |-> << >>] :
         x \in {"unset", "empty", "unreadable", "file"}, h \in {"none", "unreadable", "file"},
         t \in {"none", "file"}, e \in Maybe("BO_DB_HOST", {""}) \cup PaddedEnv}}

MCGivenLog == Starts({<< >>}, {<< >>}, {"servicelog" :> Text("/logs")})

MCInit == Init /\ SettingsInit

\* With the usage log on, connections can come.
Serve ==
    /\ stage = "running" /\ usage.is = "enabled"
    /\ stage' = "serving"
    /\ given' = CHOOSE g \in MCGivenLog : TRUE
    /\ config' = [name \in Names |-> Settings[name].default]
    /\ usage' = [is |-> "enabled", path |-> Text("")]

MCNext ==
    \/ (SettingsStep \/ Serve) /\ UNCHANGED vars
    \/ stage = "serving" /\ Next /\ UNCHANGED settingVars

MCSpec == MCInit /\ [][MCNext]_<<vars, settingVars>> /\ Fairness
=============================================================================
