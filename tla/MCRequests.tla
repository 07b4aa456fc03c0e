---------------------------- MODULE MCRequests ----------------------------
EXTENDS Requests, Transport

CONSTANTS c1, c2

MCCalls == {c1, c2}

MCCell == [n \in VALID_GRID_BASE_LENGTHS |->
              CASE n = 5000 -> [x |-> 2, y |-> 1]
                [] n = 10000 -> [x |-> 4, y |-> 3]
                [] n = 25000 -> [x |-> 10, y |-> 7]
                [] n = 50000 -> [x |-> 20, y |-> 13]
                [] n = 100000 -> [x |-> 41, y |-> 26]]

\* 20 seconds past a full minute
MCStart == 60 * 2000 + 20

Strike(ago, x, y, region) ==
    [timestamp |-> MCStart - ago, x |-> x, y |-> y, region |-> region]

\* Two in one cell, one at the lower edge of region 1, one of region 6 where
\* the two overlap, one far away and one on the border of the same cell of the
\* globe, one at the very start of an hour, one in the rest of twelve minutes;
\* the last comes in late.
MCStrikes == << Strike(30, 3, 1503, 1), Strike(400, 5, 1504, 1), Strike(100, 3, 813, 1),
                Strike(200, 3, 904, 6), Strike(690, 7, 1552, 1), Strike(3600, 3, 1503, 1),
                Strike(50, 4001, -599, 2), Strike(45, 4010, -602, 2), Strike(10, 3, 1503, 1) >>
MCAtFirst == Len(MCStrikes) - 1

Cluster(ago, seconds, x, y) ==
    [timestamp |-> 60 * (2000 - ago), seconds |-> seconds, x |-> x, y |-> y]
MCClusters == << Cluster(2, 600, 10, 1600), Cluster(12, 600, 3000, 0), Cluster(0, 3600, 10, 1600),
                 Cluster(12, 600, 12, 1610), Cluster(3, 20880, 10, 1600) >>

MCForbidden == {"banned"}

Header(name, value) == [name |-> name, value |-> value]
Agent(client, version) == Header("user-agent", [client |-> client, version |-> version])
Json == Header("content-type", "text/json")
Gzip == Header("accept-encoding", "gzip")
New == << Agent("bo-android", <<200>>), Json, Gzip >>
Old == << Agent("bo-android", <<177>>), Json, Gzip >>
Ios == << Agent("bo-ios", <<5>>), Json >>

HttpRequest(verb, headers, body) ==
    [verb |-> verb, version |-> "HTTP/1.1", headers |-> headers, param |-> << >>,
     callback |-> << >>, body |-> << body >>]

Body(method, params) ==
    Object([method |-> Text(method), params |-> params, id |-> Whole(7)])

Post(headers, method, args) == HttpRequest("POST", headers, Body(method, Array(args)))
Numbers(s) == [i \in DOMAIN s |-> Whole(s[i])]

Grid(headers, args) == Post(headers, "get_strikes_grid", Numbers(args))
World(headers, args) == Post(headers, "get_global_strikes_grid", Numbers(args))
Local(headers, args) == Post(headers, "get_local_strikes_grid", Numbers(args))
Fleas(headers, args) == Post(headers, "get_global_clusters", Numbers(args))
Near(headers, args) == Post(headers, "get_local_clusters", Numbers(args))
Check == Post(Ios, "check", << >>)

Plan(x, y) == [q \in MCCalls |-> IF q = c1 THEN x ELSE y]

\* Calls that share, or must not share, a production, a histogram or a window.
Hour(headers, offset, region, threshold) ==
    Grid(headers, <<60, 100000, offset, region, threshold>>)
Sharing ==
    << Plan(Hour(New, 0, 1, 0), Hour(Old, 0, 1, 0)),
       Plan(Hour(New, 0, 1, 0), Hour(New, -5, 1, 0)),
       Plan(Hour(New, 0, 1, 0), Hour(New, 0, 6, 0)),
       Plan(Grid(New, <<10, 100000, -1, 1, 0>>), Grid(Ios, <<10, 100000, -1, 1, 0>>)),
       Plan(Grid(New, <<12, 100000, 0, 1, 0>>), Grid(New, <<12, 50000, 0, 1, 1>>)),
       Plan(World(New, <<60, 25000, 0, 0>>), World(New, <<60, 25000, 0, 1>>)),
       Plan(Local(Old, <<1, 11, 10000, 60, 0, 0, 5>>), Local(Ios, <<1, 11, 10000, 60, 0, 1, 5>>)),
       Plan(Local(New, <<1, 11, 10000, 10, 0, 0, 3>>), Local(New, <<1, 11, 10000, 10, 0, 0, 6>>)),
       Plan(Fleas(New, <<10, 0, 2>>), Near(Old, <<1, 11, 10, 0, 5, 2>>)),
       Plan(Near(New, <<1, 11, 10, -2, 5, 2>>), Near(New, <<1, 11, 10, 0, 5, 1>>)),
       Plan(Fleas(Ios, <<10, -2, 1>>), Fleas(New, <<60, 0, 3>>)),
       Plan(Fleas(New, <<1440, 0, 1>>), Fleas(New, <<1440, 0, 1>>)) >>

\* Requests that are rejected, or at the edge of being so.
Strokes(params) == HttpRequest("POST", New, Body("get_strokes_raster", params))
With(header) == Append(New, header)
Wrong ==
    << Plan(Grid(New, <<0, 5000, -2000, 9, -1>>), Grid(New, <<9999, 4999, 0, 1, 0>>)),
       Plan(World(New, <<60, 10000, 0, 0>>), Strokes(Array(<< Decimal(10) >>))),
       Plan(Strokes(Object([minute_length |-> Digits(10), region |-> Halves(3)])),
            Strokes(Array(<< >>))),
       Plan(Grid(<<Agent("bo-android", <<0>>), Json>>, <<10, 10000, 0, 1, 0>>),
            Grid(<<Agent("bo-ios", <<5>>)>>, <<10, 10000, 0, 1, 0>>)),
       Plan(Near(With(Header("referer", "page")), <<1, 11, 10, 0, 5, 2>>),
            Grid(With(Header("x-forwarded-for", <<"banned", "proxy">>)), <<10, 10000, 0, 1, 0>>)),
       Plan(Grid(With(Header("x-forwarded-for", << >>)), <<10, 5001, 0, 1, 0>>),
            [Check EXCEPT !.verb = "PUT"]),
       Plan(HttpRequest("POST", New, [t |-> "garbage"]), HttpRequest("POST", New, Array(<< >>))),
       Plan(HttpRequest("POST", New, Object([method |-> Text("nothing"), id |-> Whole(0)])),
            HttpRequest("POST", New, Object([method |-> Whole(1), jsonrpc |-> Decimal(2)]))),
       Plan(HttpRequest("POST", New, Object([method |-> Text("check"), jsonrpc |-> Text("two")])),
            HttpRequest("HEAD", New, Object([method |-> Text("check"), params |-> Text("x")]))),
       Plan([Check EXCEPT !.body = << >>, !.param = Check.body, !.callback = <<"f">>], Check),
       Plan([Check EXCEPT !.verb = "malformed"],
            Post(With(Header("connection", "close")), "get_strikes", << Null >>)),
       Plan(Post(New, "get_strikes", Numbers(<<60>>)), Check) >>

MCPlans == Sharing \o Wrong
MCOldPlans == SubSeq(Sharing, 7, 7)

\* Messages of a connection: what is wrong with each is in its name.
Post11 == << [verb |-> "POST", version |-> "HTTP/1.1"] >>
Length(n) == Header("content-length", n)
Chunk(n) == [name |-> "body", value |-> n]
Message(line, headers, body) == [line |-> line, headers |-> headers, body |-> body]

Fine == Message(Post11, << Length(<<1>>), Json >>, << Chunk(1) >>)
Longest == Message(Post11, << Agent("bo-ios", <<5>>), Length(<<2>>) >>, << Chunk(2), Chunk(3) >>)
EmptyBody == Message(Post11, << Length(<<0>>) >>, << >>)
MCMessages ==
    {Fine, Longest, EmptyBody,
     Message(Post11, << Json >>, << >>),                                      \* no length
     Message(Post11, << Length(<< >>), Json >>, << Chunk(4) >>),              \* a length that is no number
     Message(Post11, << Length(<<2>>) >>, << Chunk(5) >>),                    \* a body too short
     Message(Post11, << Length(<<1>>) >>, << Chunk(6), Chunk(7) >>),          \* and too long
     Message(Post11, << Length(<<1>>), Length(<<2>>) >>, << Chunk(8) >>),     \* two lengths
     Message(Post11, << Length(<<1>>), Json, Gzip >>, << Chunk(9) >>),        \* as many headers as the limit
     Message(Post11, << Length(<<3>>) >>, << Chunk(1), Chunk(1), Chunk(1) >>),   \* over the limit
     Message(Post11, << Length(<<1>>), Header("connection", "close") >>, << Chunk(2) >>),
     Message(<< [verb |-> "GET", version |-> "HTTP/1.0"] >>, << Length(<<1>>) >>, << Chunk(3) >>),
     Message(<< [verb |-> "PUT", version |-> "HTTP/1.1"] >>, << Length(<<1>>) >>, << Chunk(4) >>),
     Message(<< >>, << Length(<<1>>), Json >>, << Chunk(5) >>)}               \* no first line

MCExchanges ==
    [protocol : {"http", "lsp"},
     messages : {<<m>> \o s : m \in {Fine, Longest, EmptyBody},
                              s \in {<<x, y>> : x \in MCMessages, y \in {Fine, Longest}}}
                \cup {<<m, Fine>> : m \in MCMessages}]

\* The service of the calls and the connections share no state: each is run
\* from states of its own.
NoWire ==
    /\ protocol = "none" /\ messages = << >> /\ stream = << >> /\ pos = 0
    /\ reading = "closed" /\ part = NothingRead /\ answers = << >> /\ accessed = << >>

MCInit == Init /\ (NoWire \/ (asked = [c \in Calls |-> Asking(Plans[1][c])] /\ WireInit))

MCNext ==
    \/ protocol = "none" /\ Next /\ UNCHANGED wireVars
    \/ protocol # "none" /\ (WireStep \/ WireClosed) /\ UNCHANGED vars

MCSpec == MCInit /\ [][MCNext]_<<vars, wireVars>>
=============================================================================
