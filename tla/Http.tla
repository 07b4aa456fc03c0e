-------------------------------- MODULE Http --------------------------------
(***************************************************************************)
(* http.rs, and the headers of transport.rs: what of an HTTP request the   *)
(* service is handed, and how its answer is put on the wire.               *)
(*                                                                         *)
(* A request is [verb, version, headers, param, callback, body]: headers   *)
(* a sequence of [name, value], param and callback the query parameters    *)
(* request and callback, body the parsed body; << >> is one that is not    *)
(* there, and an empty body.  What a header says is a member of a small    *)
(* set; User-Agent is [client, version], the first word cut at its last    *)
(* dash, and X-Forwarded-For the sequence of its parts.                    *)
(***************************************************************************)
EXTENDS Integers, Sequences, FiniteSetsExt

Places(headers, name) == {i \in DOMAIN headers : headers[i].name = name}

\* header_value: the first header of a name.
HeaderValue(headers, name) ==
    LET at == Places(headers, name) IN IF at = {} THEN << >> ELSE << headers[Min(at)].value >>

\* request_from_headers: of repeated headers the last counts.
LastHeader(headers, name) ==
    LET at == Places(headers, name) IN IF at = {} THEN << >> ELSE << headers[Max(at)].value >>

RequestFromHeaders(headers, peer) ==
    [clientip |-> peer,
     useragent |-> LastHeader(headers, "user-agent"),
     forwarded |-> LastHeader(headers, "x-forwarded-for"),
     contenttype |-> LastHeader(headers, "content-type"),
     referer |-> LastHeader(headers, "referer"),
     accept |-> LastHeader(headers, "accept-encoding"),
     removed |-> FALSE]

Malformed(http) == http.verb = "malformed"
Allowed(http) == http.verb \in {"POST", "GET", "HEAD"}

\* The body, or, of a request without one, the query parameter; nothing at
\* all does not parse.
Content(http) ==
    IF http.body # << >> THEN http.body[1]
    ELSE IF http.param # << >> THEN http.param[1] ELSE [t |-> "garbage"]

\* wants_keep_alive
WantsKeepAlive(http) ==
    LET said == HeaderValue(http.headers, "connection")
    IN  IF said = <<"close">> THEN FALSE
        ELSE said = <<"keep-alive">> \/ http.version # "HTTP/1.0"

\* encode_body, after accepts_gzip: large is a body of COMPRESSION_THRESHOLD
\* bytes or more.
AcceptsGzip(request) == ~request.removed /\ request.accept = <<"gzip">>
Compressed(request, large) == AcceptsGzip(request) /\ large

\* build_response: HEAD is told the length of the body it does not get.
Refusal(status, keep) ==
    [status |-> status, type |-> "json", gzip |-> FALSE, keep |-> keep, sent |-> TRUE]

HttpReply(http, request, large) ==
    [status |-> 200,
     type |-> IF http.callback \in {<< >>, <<"">>} THEN "json" ELSE "javascript",
     gzip |-> Compressed(request, large),
     keep |-> WantsKeepAlive(http),
     sent |-> http.verb # "HEAD"]
=============================================================================
