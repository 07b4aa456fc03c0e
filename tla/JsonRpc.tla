------------------------------ MODULE JsonRpc ------------------------------
(***************************************************************************)
(* jsonrpc.rs: what a request body asks for, in which dialect it is        *)
(* answered, and how the answer is wrapped.  Pure operators over JSON      *)
(* values; Service holds the handlers they call.                           *)
(*                                                                         *)
(* A JSON value is a record [t, ...]: its text is told apart only as far   *)
(* as a number can be read from it.                                        *)
(***************************************************************************)
EXTENDS Integers, Sequences, SequencesExt

Null == [t |-> "null"]
Bool(b) == [t |-> "bool", v |-> b]
Whole(n) == [t |-> "int", v |-> n]
Halves(n) == [t |-> "float", v |-> n]              (* the number n / 2      *)
Text(s) == [t |-> "text", v |-> s]                 (* reads as no number    *)
Digits(n) == [t |-> "digits", v |-> n]             (* "n"                   *)
Decimal(n) == [t |-> "decimal", v |-> n]           (* "n.0"                 *)
Endless == [t |-> "endless"]                       (* "inf" or "nan"        *)
Array(s) == [t |-> "array", v |-> s]
Object(f) == [t |-> "object", v |-> f]

IsText(v) == v.t \in {"text", "digits", "decimal", "endless"}

\* req.get(name): a missing field, and one of something that is no object, is
\* null, as far as the code tells the two apart.
Field(req, name) ==
    IF req.t = "object" /\ name \in DOMAIN req.v THEN req.v[name] ELSE Null

FAILURE == 8002
INVALID_REQUEST == -32600
METHOD_NOT_FOUND == -32601
INVALID_PARAMS == -32602
-----------------------------------------------------------------------------
(* Dialects *)

\* `treat_zero_id_as_pre1 and not id`
FalsyId(id) ==
    \/ id.t = "null"
    \/ id.t = "int" /\ id.v = 0
    \/ id.t = "text" /\ id.v = ""
    \/ id.t = "bool" /\ ~id.v

\* select_version: only a text counts as a version; one that is no finite
\* number has no dialect at all.
SelectVersion(req) ==
    LET field == Field(req, "jsonrpc")
    IN  IF IsText(field)
        THEN IF field.t \in {"text", "endless"} THEN "invalid"
             ELSE IF field.v = 2 THEN "v2" ELSE "v1"
        ELSE IF FalsyId(Field(req, "id")) THEN "pre1" ELSE "v1"

\* success_envelope and fault_envelope: the old dialect carries no id.
Envelope(dialect, id, fault, content) ==
    [dialect |-> dialect, id |-> IF dialect = "pre1" THEN Null ELSE id,
     fault |-> fault, content |-> content]

Success(dialect, id, result) == Envelope(dialect, id, FALSE, result)
Fault(dialect, id, code) == Envelope(dialect, id, TRUE, code)
-----------------------------------------------------------------------------
(* Methods *)

RegionSpec == << <<"minute_length", TRUE>>, <<"grid_base_length", FALSE>>,
                 <<"minute_offset", FALSE>>, <<"region", FALSE>>,
                 <<"count_threshold", FALSE>> >>
GlobalSpec == << <<"minute_length", TRUE>>, <<"grid_base_length", FALSE>>,
                 <<"minute_offset", FALSE>>, <<"count_threshold", FALSE>> >>
LocalSpec == << <<"x", TRUE>>, <<"y", TRUE>>, <<"grid_base_length", FALSE>>,
                <<"minute_length", FALSE>>, <<"minute_offset", FALSE>>,
                <<"count_threshold", FALSE>>, <<"data_area", FALSE>> >>
GlobalClustersSpec == << <<"minute_length", TRUE>>, <<"minute_offset", FALSE>>,
                         <<"interval_count", FALSE>> >>
LocalClustersSpec == << <<"x", TRUE>>, <<"y", TRUE>>, <<"minute_length", FALSE>>,
                        <<"minute_offset", FALSE>>, <<"data_area", FALSE>>,
                        <<"interval_count", FALSE>> >>
RegionDefaults == << Null, Whole(10000), Whole(0), Whole(1), Whole(0) >>

\* method_spec: the parameters of each method and which are required.
MethodSpec ==
    [check |-> << >>,
     get_strikes |-> << <<"minute_length", TRUE>>, <<"id_or_offset", FALSE>> >>,
     get_strikes_grid |-> RegionSpec,
     get_strikes_raster |-> RegionSpec,
     get_strokes_raster |-> RegionSpec,
     get_global_strikes_grid |-> GlobalSpec,
     get_local_strikes_grid |-> LocalSpec,
     get_global_clusters |-> GlobalClustersSpec,
     get_local_clusters |-> LocalClustersSpec]

\* method_defaults: in the order of the parameters, null for the required.
MethodDefaults ==
    [check |-> << >>,
     get_strikes |-> << Null, Whole(0) >>,
     get_strikes_grid |-> RegionDefaults,
     get_strikes_raster |-> RegionDefaults,
     get_strokes_raster |-> RegionDefaults,
     get_global_strikes_grid |-> << Null, Whole(10000), Whole(0), Whole(0) >>,
     get_local_strikes_grid |->
        << Null, Null, Whole(10000), Whole(60), Whole(0), Whole(0), Whole(5) >>,
     get_global_clusters |-> << Null, Whole(0), Whole(1) >>,
     get_local_clusters |-> << Null, Null, Whole(60), Whole(0), Whole(5), Whole(1) >>]

\* The value given for parameter i, by its place or by its name, as a
\* sequence of at most one value.
Given(method, params, i) ==
    CASE params.t = "array" -> IF i <= Len(params.v) THEN << params.v[i] >> ELSE << >>
      [] params.t = "object" ->
            LET name == MethodSpec[method][i][1]
            IN  IF name \in DOMAIN params.v THEN << params.v[name] >> ELSE << >>
      [] params.t = "null" -> << >>

\* resolve_args: what is given, also a null, is passed on; what is not has its
\* default, unless it is required.  Surplus values are ignored.
ResolveArgs(method, params) ==
    LET spec == MethodSpec[method]
        missing == {i \in DOMAIN spec : Given(method, params, i) = << >> /\ spec[i][2]}
    IN  IF params.t \notin {"null", "array", "object"} THEN [error |-> "type"]
        ELSE IF missing # {} THEN [error |-> "missing"]
        ELSE [args |-> [i \in DOMAIN spec |->
                 IF Given(method, params, i) # << >>
                 THEN Given(method, params, i)[1] ELSE MethodDefaults[method][i]]]

\* jsonrpc_get_strikes_raster: the grid without its last argument.
Raster(args) == [method |-> "get_strikes_grid", args |-> SubSeq(args, 1, 4) \o << Whole(0) >>]

\* invoke
Invoked(method, args) ==
    IF method \in {"get_strikes_raster", "get_strokes_raster"} THEN Raster(args)
    ELSE [method |-> method, args |-> args]
-----------------------------------------------------------------------------
(* Dispatch *)

NoMeta == [method |-> "none", id |-> Null, params |-> Null]

Reject(dialect, id, code, meta) ==
    [reply |-> Fault(dialect, id, code),
     outcome |-> [label |-> "fault", code |-> code], meta |-> meta]

\* What is no JSON at all.
ParseError == Reject("pre1", Null, INVALID_REQUEST, NoMeta)

\* process and process_request up to the handler: the call to make, or the
\* fault to answer.  The faults of a request whose parameters are of a wrong
\* type, and of one without a dialect, are in the old dialect.
Parsed(body) ==
    LET id == Field(body, "id")
        method == Field(body, "method")
        params == Field(body, "params")
        dialect == SelectVersion(body)
        meta == [method |-> "none", id |-> id, params |-> params]
        name == IF method.t = "text" THEN method.v ELSE "other"
        named == [meta EXCEPT !.method = name]
        resolved == ResolveArgs(name, params)
    IN  CASE body.t = "garbage" -> ParseError
          [] body.t # "garbage" /\ body.t # "object" ->
                Reject("pre1", Null, INVALID_REQUEST, NoMeta)
          [] body.t = "object" /\ dialect = "invalid" ->
                Reject("pre1", Null, INVALID_REQUEST, NoMeta)
          [] body.t = "object" /\ dialect # "invalid" ->
                IF ~IsText(method) THEN Reject(dialect, id, INVALID_REQUEST, meta)
                ELSE IF name \notin DOMAIN MethodSpec
                THEN Reject(dialect, id, METHOD_NOT_FOUND, named)
                ELSE IF "args" \in DOMAIN resolved
                THEN [call |-> Invoked(name, resolved.args),
                      dialect |-> dialect, id |-> id, meta |-> named]
                ELSE IF resolved.error = "type"
                THEN Reject("pre1", Null, INVALID_PARAMS, named)
                ELSE Reject(dialect, id, FAILURE, named)

\* Mutant: the outcome does not know of rejected clients.
RenderedOk(parsed, result, blocked) ==
    IF result.ok
    THEN [reply |-> Success(parsed.dialect, parsed.id, result.value),
          outcome |-> [label |-> "ok"], meta |-> parsed.meta]
    ELSE Reject(parsed.dialect, parsed.id, FAILURE, parsed.meta)

\* Outcome: a client that was rejected has a result all the same.
Outcome(blocked) ==
    IF blocked = "none" THEN [label |-> "ok"] ELSE [label |-> "BLOCKED", reason |-> blocked]

\* process_request after the handler: its result, or its error, in the
\* envelope of this request.
Rendered(parsed, result, blocked) ==
    IF result.ok
    THEN [reply |-> Success(parsed.dialect, parsed.id, result.value),
          outcome |-> Outcome(blocked), meta |-> parsed.meta]
    ELSE Reject(parsed.dialect, parsed.id, FAILURE, parsed.meta)
=============================================================================
