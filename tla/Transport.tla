----------------------------- MODULE Transport -----------------------------
(***************************************************************************)
(* One connection of the service, by HTTP (http.rs) or by frames as of the *)
(* Language Server Protocol (transport.rs): how a stream that comes in     *)
(* pieces is cut into requests, which are answered in their order.         *)
(*                                                                         *)
(* A unit of the stream is [name, value]: a header; "line", the first line *)
(* of an HTTP request, of value [verb, version]; "end", the empty line;    *)
(* "body", a piece of a body, of one word without an end of line.  Lengths *)
(* count units.                                                            *)
(***************************************************************************)
EXTENDS Http, Functions, SequencesExt

CONSTANTS MAX_HEADER_BYTES, MAX_BODY_BYTES,
          Exchanges     \* what clients send: [protocol, messages]

ASSUME LimitsAssumption == MAX_HEADER_BYTES \in Nat /\ MAX_BODY_BYTES \in Nat

Units(s) == s \in Seq(Range(s))

\* A header is named like nothing else of a message; a length is a number or
\* a text that is none.
IsMessage(m) ==
    /\ m.line = << >> \/ m.line = << m.line[1] >>
    /\ Units(m.headers) /\ Units(m.body)
    /\ \A u \in Range(m.headers) :
          /\ u = [name |-> u.name, value |-> u.value]
          /\ u.name \notin {"line", "end", "body"}
          /\ u.name = "content-length" => Len(u.value) <= 1 /\ u.value \in Seq(Nat)
    /\ \A u \in Range(m.body) : u.name = "body"

ASSUME ExchangesAssumption ==
    \A x \in Exchanges :
        /\ x.protocol \in {"http", "lsp"}
        /\ Units(x.messages) /\ \A m \in Range(x.messages) : IsMessage(m)

VARIABLES protocol,     \* "http" or "lsp"
          messages,     \* what the client means to send: [line, headers, body],
                        \* line << >> or one first line
          stream,       \* the units of that
          pos,          \* how many of them have been read
          reading,      \* "line", "headers", "body", "answer" or "closed"
          part,         \* the request read so far
          answers,      \* what was written, in order
          accessed      \* the requests in the access log

wireVars == <<protocol, messages, stream, pos, reading, part, answers, accessed>>

End == [name |-> "end", value |-> "empty"]

\* The units of a message; only HTTP has a first line.
UnitsOf(p, m) ==
    (IF p = "http" /\ m.line # << >> THEN << [name |-> "line", value |-> m.line[1]] >> ELSE << >>)
    \o m.headers \o << End >> \o m.body

StreamOf(p, ms) == FlattenSeq([i \in DOMAIN ms |-> UnitsOf(p, ms[i])])

FirstPart(p) == IF p = "http" THEN "line" ELSE "headers"
NothingRead == [line |-> << >>, headers |-> << >>, body |-> << >>, need |-> 0]

WireInit ==
    /\ \E x \in Exchanges :
          /\ protocol = x.protocol /\ messages = x.messages
          /\ stream = StreamOf(x.protocol, x.messages)
          /\ reading = FirstPart(x.protocol)
    /\ pos = 0
    /\ part = NothingRead
    /\ answers = << >> /\ accessed = << >>
-----------------------------------------------------------------------------
(* Reading *)

More == pos < Len(stream)
Unit == stream[pos + 1]

Close == reading' = "closed" /\ part' = NothingRead

\* HttpError::Bad is answered, and ends the connection as any error does.
Bad ==
    /\ Close
    /\ answers' = IF protocol = "http" THEN Append(answers, [status |-> 400]) ELSE answers

\* The rest of a body that was longer than it said joins the line after it,
\* whose first word it spoils.
Lines(units) ==
    FlattenSeq([i \in DOMAIN units |-> IF units[i].name = "body" THEN << >> ELSE << units[i] >>])
Joined(units) ==
    LET lines == Lines(units)
    IN  IF lines \in {units, << >>} THEN lines
        ELSE [lines EXCEPT ![1] =
                 IF @.name = "line" THEN [@ EXCEPT !.value.verb = "garbled"]
                 ELSE [@ EXCEPT !.name = "garbled"]]

\* A header for a first line is that of a request nobody serves; one word is
\* malformed.
LineOf(units) ==
    LET line == Joined(units)[1]
    IN  IF line.name = "line" THEN << line.value >>
        ELSE IF units[Len(units)] = End THEN << >>
        ELSE << [verb |-> line.name, version |-> "HTTP/1.1"] >>

ReadLine ==
    /\ reading = "line" /\ More
    /\ pos' = pos + 1
    /\ LET read == Append(part.line, Unit)
       IN  \/ /\ Unit.name = "body"
              /\ part' = [part EXCEPT !.line = read]
              /\ UNCHANGED <<reading, answers>>
           \/ /\ Unit.name # "body" /\ LineOf(read) = << >>
              /\ Bad
           \/ /\ Unit.name # "body" /\ LineOf(read) # << >>
              /\ reading' = "headers"
              /\ part' = [part EXCEPT !.line = LineOf(read)]
              /\ UNCHANGED answers
    /\ UNCHANGED <<protocol, messages, stream, accessed>>

\* parse_content_length, and what read_request makes of the same header: the
\* first of its name; << >> is no number, or none at all.
ContentLength(headers) ==
    LET said == HeaderValue(headers, "content-length") IN IF said = << >> THEN << >> ELSE said[1]

BodyLength(p, headers) ==
    IF ContentLength(headers) = << >> /\ p = "http" THEN <<0>> ELSE ContentLength(headers)

\* The empty line: the body comes next, if there is one.
HeadersRead ==
    LET headers == Joined(part.headers)
        need == BodyLength(protocol, headers)
    IN  IF \A n \in Range(need) : n > MAX_BODY_BYTES THEN Bad
        ELSE /\ reading' = IF need[1] = 0 THEN "answer" ELSE "body"
             /\ part' = [part EXCEPT !.headers = headers, !.need = need[1]]
             /\ UNCHANGED answers

ReadHeader ==
    /\ reading = "headers" /\ More
    /\ pos' = pos + 1
    /\ IF Len(part.headers) + 1 > MAX_HEADER_BYTES THEN Bad
       ELSE IF Unit = End THEN HeadersRead
       ELSE /\ part' = [part EXCEPT !.headers = Append(@, Unit)]
            /\ UNCHANGED <<reading, answers>>
    /\ UNCHANGED <<protocol, messages, stream, accessed>>

\* read_exact: all that was announced, whatever it is.
ReadBody ==
    /\ reading = "body" /\ More
    /\ pos' = pos + 1
    /\ part' = [part EXCEPT !.body = Append(@, Unit)]
    /\ reading' = IF Len(part.body) + 1 = part.need THEN "answer" ELSE "body"
    /\ UNCHANGED <<protocol, messages, stream, answers, accessed>>

\* The client closes.  Between requests that is no error; HTTP answers one
\* that breaks off in its headers, and nobody one that does in its body.
Hangup ==
    /\ reading \in {"line", "headers", "body"}
    /\ IF reading = "headers" \/ (reading = "line" /\ part.line # << >>) THEN Bad
       ELSE Close /\ UNCHANGED answers
    /\ UNCHANGED <<protocol, messages, stream, pos, accessed>>
-----------------------------------------------------------------------------
(* Answering *)

Unsupported(p) == protocol = "http" /\ p.line[1].verb \notin {"POST", "GET", "HEAD"}
KeepAlive(p) == protocol = "http" => WantsKeepAlive([headers |-> p.headers, version |-> p.line[1].version])
RequestOfPart(p) == [headers |-> RequestFromHeaders(p.headers, "peer"), body |-> p.body]

\* Mutant: the headers of one request are still there for the next.
ContinueKeeping ==
    /\ reading' = IF KeepAlive(part) THEN FirstPart(protocol) ELSE "closed"
    /\ part' = [NothingRead EXCEPT !.headers = part.headers]

\* Back to the next request of the connection, or its end.
Continue ==
    /\ reading' = IF KeepAlive(part) THEN FirstPart(protocol) ELSE "closed"
    /\ part' = NothingRead

AnswerWrong ==
    /\ reading = "answer" /\ Unsupported(part)
    /\ answers' = Append(answers, [status |-> 405])
    /\ Continue
    /\ UNCHANGED <<protocol, messages, stream, pos, accessed>>

\* dispatch, log_access and the answer; the client may be gone by then.
AnswerRequest ==
    /\ reading = "answer" /\ ~Unsupported(part)
    /\ accessed' = Append(accessed, RequestOfPart(part))
    /\ \/ answers' = Append(answers, [status |-> 200, request |-> RequestOfPart(part)]) /\ Continue
       \/ UNCHANGED answers /\ Close
    /\ UNCHANGED <<protocol, messages, stream, pos>>

\* Only here may a connection stop.
WireClosed == reading = "closed" /\ UNCHANGED wireVars

WireStep == ReadLine \/ ReadHeader \/ ReadBody \/ Hangup \/ AnswerWrong \/ AnswerRequest

WireSpec == WireInit /\ [][WireStep \/ WireClosed]_wireVars
-----------------------------------------------------------------------------
(* decode_frame: a frame, if the buffer begins with a whole one. *)

DecodeFrame(buf) ==
    LET ends == {i \in DOMAIN buf : buf[i] = End}
        at == Min(ends)
        headers == Joined(SubSeq(buf, 1, at - 1))
        length == ContentLength(headers)
    IN  IF ends = {} THEN [is |-> "more"]
        ELSE IF at - 1 > MAX_HEADER_BYTES \/ length = << >> THEN [is |-> "error"]
        ELSE IF length[1] > MAX_BODY_BYTES THEN [is |-> "error"]
        ELSE IF Len(buf) < at + length[1] THEN [is |-> "more"]
        ELSE [is |-> "frame", body |-> SubSeq(buf, at + 1, at + length[1]), size |-> at + length[1],
              headers |-> at - 1]

\* The frames at the start of a buffer, as far as the headers of each leave
\* room for the empty line, which the connection counts with them.
Frames(buf) ==
    LET from[at \in 0 .. Len(buf)] ==
            LET frame == DecodeFrame(SubSeq(buf, at + 1, Len(buf)))
            IN  IF frame.is # "frame" THEN << >>
                ELSE IF frame.headers = MAX_HEADER_BYTES THEN << >>
                ELSE << frame.body >> \o from[at + frame.size]
    IN  from[0]
-----------------------------------------------------------------------------
(* Properties *)

\* A message that says its own length.
Honest(m) ==
    /\ protocol = "http" => m.line # << >>
    /\ Len(m.headers) < MAX_HEADER_BYTES
    /\ Len(m.body) <= MAX_BODY_BYTES
    /\ BodyLength(protocol, m.headers) = << Len(m.body) >>

\* The messages before the first that does not, or that asks to close.
Clean == {n \in 0 .. Len(messages) :
            \A i \in 1 .. n : Honest(messages[i])
                /\ (i < n /\ protocol = "http" =>
                      WantsKeepAlive([headers |-> messages[i].headers,
                                      version |-> messages[i].line[1].version]))}

\* The units of the first messages, and whether all of them have been read.
Upto(n) == Len(StreamOf(protocol, SubSeq(messages, 1, n)))
WholeBy(n) == Upto(n) <= pos

\* What the client of a message that was read is to be answered.
Due(m) ==
    IF protocol = "http" /\ m.line[1].verb \notin {"POST", "GET", "HEAD"} THEN [status |-> 405]
    ELSE [status |-> 200,
          request |-> [headers |-> RequestFromHeaders(m.headers, "peer"), body |-> m.body]]

\* Requests of one connection do not mix, however its stream comes in and where
\* it breaks off: each whole message gets the answer made of its own headers
\* and body, in order and once; one that is cut short gets no data; all that is
\* answered with data is in the access log.  And the frames a connection reads
\* piece by piece are those a decoder finds in the whole of them.
FramesApart ==
    /\ \A n \in Clean \ {0} :
          /\ Len(answers) >= n =>
                answers[n] = IF WholeBy(n) THEN Due(messages[n]) ELSE [status |-> 400]
          /\ WholeBy(n) /\ reading \in {"line", "headers", "body"} => Len(answers) >= n
    /\ \A i \in DOMAIN answers :
          answers[i].status = 200 => \E j \in DOMAIN accessed : accessed[j] = answers[i].request
    /\ protocol = "lsp" =>
          Frames(SubSeq(stream, 1, pos)) =
              [i \in DOMAIN accessed |-> accessed[i].body]
                  \o (IF reading = "answer" THEN << part.body >> ELSE << >>)
=============================================================================
