------------------------------ MODULE Requests ------------------------------
(***************************************************************************)
(* What a request is answered with, as constant operators: the head as it  *)
(* is read and parsed (proxy/head), the endpoint its path names            *)
(* (proxy/endpoint.rs), who may use the router (access.rs,                 *)
(* proxy/access.rs), the order in which answer/connection.rs decides, the  *)
(* causes of refusals (proxy/refusal.rs) and the head sent on to a child.  *)
(* A connection in time is Connections; a model got or refused is Slots.   *)
(***************************************************************************)
EXTENDS Integers, Sequences, SequencesExt

CONSTANTS
    MaxHeadBytes,  \* bytes of head read before refusing
    MaxHeadLines,  \* lines of head accepted
    MaxBodyBytes   \* the most a body may declare

ASSUME BoundsAssumption ==
    MaxHeadBytes \in Nat /\ MaxHeadLines \in Nat /\ MaxBodyBytes \in Nat

Least(a, b) == IF a < b THEN a ELSE b

-----------------------------------------------------------------------------
(* Reading a head off a connection.  A line is the bytes before its ending *)
(* of two; an empty one ends the head.  What follows the last line that    *)
(* arrives is silence, the end of the connection, or a line that is no     *)
(* text: garbled by its sender, or cut by the bound within a character.    *)

Ending == 2

(* A bug the checks must catch: the bound is asked for with the line in    *)
(* hand, so that the blank line has to fit whole.                          *)
TakeLine_Whole(head, line) ==
    LET left == MaxHeadBytes - head.bytes
    IN  IF head.ended # "reading" THEN head
        ELSE IF left < line + Ending THEN [head EXCEPT !.ended = "HeadTooLarge"]
        ELSE IF line = 0 THEN [head EXCEPT !.ended = "read"]
        ELSE IF head.lines >= MaxHeadLines THEN [head EXCEPT !.ended = "HeadTooLarge"]
        ELSE [head EXCEPT !.bytes = @ + line + Ending, !.lines = @ + 1]

(* One turn of the loop: at most what is left of the bound is read.        *)
TakeLine(head, line) ==
    LET left == MaxHeadBytes - head.bytes
    IN  IF head.ended # "reading" THEN head
        ELSE IF left = 0 THEN [head EXCEPT !.ended = "HeadTooLarge"]
        ELSE IF line = 0 THEN [head EXCEPT !.ended = "read"]
        ELSE IF head.lines >= MaxHeadLines THEN [head EXCEPT !.ended = "HeadTooLarge"]
        ELSE [head EXCEPT !.bytes = @ + Least(line + Ending, left),
                          !.lines = @ + 1]

(* A silent caller is told apart from one that is gone or that sends what  *)
(* is no text.                                                             *)
Unread(after) == IF after = "silence" THEN "RequestTimeout" ELSE "MalformedRequest"

ReadHead(lines, after) ==
    LET nothing == [bytes |-> 0, lines |-> 0, ended |-> "reading"]
        head    == FoldLeft(TakeLine, nothing, lines)
    IN  IF head.ended # "reading" THEN head.ended
        ELSE IF head.bytes = MaxHeadBytes THEN "HeadTooLarge"
        ELSE Unread(after)

-----------------------------------------------------------------------------
(* The endpoint a path names.  A path is its pieces: separators, words and *)
(* what follows a question mark.                                           *)

Slash == "/"
Query == "?q"

(* Trailing separators are no part of a path of the router's own. *)
Bare(path) ==
    SubSeq(path, 1, SelectLastInSeq(path, LAMBDA piece : piece # Slash))

Catalogue == <<"/", "models">>
Listing   == <<"/", "v1", "/", "models">>
Dedicated == <<"/", "models", "/">>
Generic   == <<"/", "v1", "/">>

OwnPaths == [
    catalogue  |-> Catalogue,
    properties |-> <<"/", "props">>,
    metrics    |-> <<"/", "metrics">>,
    reload     |-> <<"/", "reload">>,
    load       |-> <<"/", "models", "/", "load">>,
    unload     |-> <<"/", "models", "/", "unload">>]

Named(shape, id, suffix) == [shape |-> shape, id |-> id, suffix |-> suffix]
NotServed == Named("none", "", <<>>)

(* Everything up to the first question mark: the query is the last piece.  *)
WithoutQuery(path) == SelectSeq(path, LAMBDA piece : piece # Query)

(* The model a dedicated path names, and what it asks of it: neither may   *)
(* be empty.                                                               *)
Addressed(rest) ==
    IF Len(rest) > 2 /\ rest[1] # Slash /\ rest[2] = Slash
    THEN Named("dedicated", rest[1], Tail(rest))
    ELSE NotServed

Endpoint(path) ==
    IF \E own \in DOMAIN OwnPaths : OwnPaths[own] = Bare(path)
    THEN Named(CHOOSE own \in DOMAIN OwnPaths : OwnPaths[own] = Bare(path), "", Bare(path))
    ELSE IF IsPrefix(Dedicated, path)
    THEN Addressed(SubSeq(path, Len(Dedicated) + 1, Len(path)))
    ELSE IF Bare(WithoutQuery(path)) = Listing
    THEN Named("listing", "", Listing)
    ELSE IF IsPrefix(Generic, path)
    THEN Named("generic", "", path)
    ELSE NotServed

OwnReads   == {"listing", "catalogue", "properties", "metrics"}
OwnChanges == {"reload", "load", "unload"}

Allowed(endpoint) ==
    IF endpoint.shape \in OwnReads THEN {"GET", "HEAD", "OPTIONS"}
    ELSE IF endpoint.shape \in OwnChanges THEN {"POST", "OPTIONS"}
    ELSE {"GET", "POST", "OPTIONS"}

-----------------------------------------------------------------------------
(* The headers.  One is a name and a value; a line with no colon has the   *)
(* name "".                                                                *)

Absent == -1
Malformed == -2

(* What a Content-Length declares, where it can be read as a count. *)
Counts == [none |-> 0, some |-> 1, most |-> MaxBodyBytes, more |-> MaxBodyBytes + 1]

Length(value) == IF value \in DOMAIN Counts THEN Counts[value] ELSE Malformed

AllowedRoom(value) == IF value = "free" THEN "free" ELSE "unknown"

(* A bug the checks must catch: the last of several room headers stands. *)
Room_Last(room, value) == AllowedRoom(value)

(* A refusal stands however many more of these follow it. *)
Room(room, value) == IF room = "unknown" THEN room ELSE AllowedRoom(value)

Unsaid == [length |-> Absent, chunked |-> FALSE, expects |-> FALSE, room |-> "any"]

Says(so, header) ==
    CASE header.name = "content-length" ->
            [so EXCEPT !.length = Length(header.value)]
      [] header.name = "transfer-encoding" ->
            [so EXCEPT !.chunked = @ \/ header.value = "chunked"]
      [] header.name = "expect" ->
            [so EXCEPT !.expects = @ \/ header.value = "100-continue"]
      [] header.name = "room" ->
            [so EXCEPT !.room = Room(@, header.value)]
      [] OTHER -> so

Headers(lines) == SelectSeq(lines, LAMBDA line : line.name # "")

Parsed(lines) == FoldLeft(Says, Unsaid, lines)

(* The first header of a name, or "". *)
Header(lines, name) ==
    LET at == SelectInSeq(lines, LAMBDA line : line.name = name)
    IN  IF at = 0 THEN "" ELSE lines[at].value

-----------------------------------------------------------------------------
(* Who may use the router.  An empty key, and a list that names no origin, *)
(* are unset.                                                              *)

Access(key, origins) == [key |-> key, origins |-> origins \ {""}]

OriginIsListed(access, lines) ==
    access.origins # {} /\ (\E i \in DOMAIN lines : lines[i].name = "origin")
        => Header(lines, "origin") \in access.origins

(* A preflight carries no key. *)
CarriesTheKey(access, method, lines) ==
    access.key = "" \/ method = "OPTIONS"
        \/ Header(lines, "authorization") = access.key

-----------------------------------------------------------------------------
(* Refusals. *)

Status == [
    MalformedRequest |-> 400, HeadTooLarge     |-> 431, RequestTimeout   |-> 408,
    PathNotFound     |-> 404, ModelNotFound    |-> 404, MethodNotAllowed |-> 405,
    ChunkedBody      |-> 501, MalformedLength  |-> 400, UnknownRoom      |-> 400,
    LengthRequired   |-> 411, BodyTooLarge     |-> 413, BodyIncomplete   |-> 400,
    BodyNotJson      |-> 400, ModelMissing     |-> 400, ChildUnavailable |-> 502,
    StartupTimeout   |-> 504, RoomContended    |-> 503, NoRoom           |-> 503,
    ModelBusy        |-> 409, CatalogUnreadable |-> 400, Unauthorized    |-> 401,
    OriginNotAllowed |-> 403]

(* The cause a launcher's failure is answered with. *)
Failed == [
    NotReady  |-> "StartupTimeout", Unavailable |-> "ChildUnavailable",
    Contended |-> "RoomContended",  Refused     |-> "NoRoom"]

(* What a refusal says beside its status. *)
Extra(cause) ==
    CASE cause = "RoomContended"    -> {"Retry-After"}
      [] cause = "MethodNotAllowed" -> {"Allow"}
      [] cause = "Unauthorized"     -> {"WWW-Authenticate"}
      [] OTHER                      -> {}

(* What is done for one request, in the end: the reply, what it reports,   *)
(* whether the caller was told to send its body, whether the body was read *)
(* here or passed on, the model asked for and the room it may take, and    *)
(* the path and headers a child is sent.                                   *)
Nothing == [status |-> 0, cause |-> "", says |-> {}, report |-> {},
            told |-> FALSE, read |-> FALSE, asked |-> "", room |-> "any",
            path |-> <<>>, sent |-> <<>>]

Refuse(done, cause) ==
    [done EXCEPT !.status = Status[cause], !.cause = cause, !.says = Extra(cause)]

Reply(done, report) == [done EXCEPT !.status = 200, !.report = report]

-----------------------------------------------------------------------------
(* What the router answers itself, from a view of its state: the catalog   *)
(* served and the one in the file, as definitions by model, what is loaded *)
(* as far as the slots said so, what was measured a moment later, and what *)
(* generates text at all.                                                  *)

None == 0

Measured(view, m) == IF m \in DOMAIN view.held THEN view.held[m] ELSE None

CatalogueOf(view) ==
    {[id |-> m, loaded |-> m \in view.loaded, held |-> Measured(view, m)] :
        m \in DOMAIN view.served \cap view.generates}

(* Only what was measured has a sample of its own. *)
MetricsOf(view) ==
    {[id |-> m, loaded |-> m \in view.loaded] : m \in DOMAIN view.served}
    \cup {[id |-> m, held |-> view.held[m]] :
            m \in {n \in DOMAIN view.served : Measured(view, n) # None}}

(* Shared::reload: what the file gained and lost, and what was loaded from *)
(* a definition that no longer stands.                                     *)
ReloadOf(view) ==
    LET was == DOMAIN view.served
        now == DOMAIN view.file
    IN  {[added |-> now \ was, removed |-> was \ now,
          superseded |-> {m \in view.loaded \cap was :
                            m \in now => view.served[m] # view.file[m]}]}

ReportOf(shape, view) ==
    CASE shape = "listing"    -> DOMAIN view.served
      [] shape = "catalogue"  -> CatalogueOf(view)
      [] shape = "metrics"    -> MetricsOf(view)
      [] shape = "properties" -> {"models_autoload"}

Reload(done, request) ==
    IF request.outcome = "done" THEN Reply(done, ReloadOf(request.view))
                                ELSE Refuse(done, "CatalogUnreadable")

-----------------------------------------------------------------------------
(* What a model is asked. *)

(* Head::rewrite: the child's own host, its connection closed when done,   *)
(* and every other header but the expectation, as received and in order.   *)
Rewritten(lines) ==
    <<[name |-> "host", value |-> "child"], [name |-> "connection", value |-> "close"]>>
    \o SelectSeq(Headers(lines),
                 LAMBDA h : h.name \notin {"host", "connection", "expect"})

(* How many bytes of body are passed on. *)
BodyBytes(so) == IF so.length = Absent THEN 0 ELSE so.length

Load(done, request) ==
    IF request.outcome = "done" THEN Reply(done, {"success"})
                                ELSE Refuse(done, Failed[request.outcome])

(* What is being read from is not unloaded. *)
Unload(done, request) ==
    IF request.outcome = "done" THEN Reply(done, {"success"})
                                ELSE Refuse(done, "ModelBusy")

(* A caller that holds back a body nobody has read is told to send it now. *)
(* A child that is lost, reached by no connection or cut off at its head,  *)
(* takes nothing, and the caller gets no answer; otherwise the body is     *)
(* passed on and the answer is the child's.                                *)
Relay(done, request, so, endpoint) ==
    LET waits == ~done.read /\ BodyBytes(so) > 0
        told  == [done EXCEPT !.told = @ \/ (waits /\ so.expects)]
    IN  IF request.child = "lost" THEN told
        ELSE [told EXCEPT !.read = @ \/ waits,
                          !.path = endpoint.suffix,
                          !.sent = Rewritten(request.lines)]

AskFor(done, request, so, endpoint, model) ==
    LET asking == [done EXCEPT !.asked = model, !.room = so.room]
    IN  IF model \notin DOMAIN request.view.served THEN Refuse(done, "ModelNotFound")
        ELSE IF endpoint.shape = "load"   THEN Load(asking, request)
        ELSE IF endpoint.shape = "unload" THEN Unload(done, request)
        ELSE IF request.outcome # "done"
        THEN Refuse(asking, Failed[request.outcome])
        ELSE Relay(asking, request, so, endpoint)

(* What may go wrong with a body while it is read for the model it names.  *)
Unreadable == [silence |-> "RequestTimeout", ended   |-> "BodyIncomplete",
               text    |-> "BodyNotJson",    unnamed |-> "ModelMissing"]

(* A bug the checks must catch: the caller is told before its length is    *)
(* looked at.                                                              *)
NamedInBody_ToldFirst(done, request, so, endpoint) ==
    LET told    == [done EXCEPT !.told = so.expects]
        reading == [told EXCEPT !.read = TRUE]
    IN  IF so.length = Absent THEN Refuse(told, "LengthRequired")
        ELSE IF so.length > MaxBodyBytes THEN Refuse(told, "BodyTooLarge")
        ELSE IF request.body \in DOMAIN Unreadable
        THEN Refuse(reading, Unreadable[request.body])
        ELSE AskFor(reading, request, so, endpoint, request.body)

(* The body is declared, within the bound, and only then asked for, read   *)
(* whole and looked into.                                                  *)
NamedInBody(done, request, so, endpoint) ==
    LET reading == [done EXCEPT !.told = so.expects, !.read = TRUE]
    IN  IF so.length = Absent THEN Refuse(done, "LengthRequired")
        ELSE IF so.length > MaxBodyBytes THEN Refuse(done, "BodyTooLarge")
        ELSE IF request.body \in DOMAIN Unreadable
        THEN Refuse(reading, Unreadable[request.body])
        ELSE AskFor(reading, request, so, endpoint, request.body)

ToModel(done, request, so, endpoint) ==
    IF endpoint.shape = "dedicated"
    THEN AskFor(done, request, so, endpoint, endpoint.id)
    ELSE NamedInBody(done, request, so, endpoint)

-----------------------------------------------------------------------------
(* One connection, decided from its head in this order and no other. *)

(* The framing, and the room, before anything is read or started. *)
Framed(request, so, endpoint) ==
    IF so.chunked THEN Refuse(Nothing, "ChunkedBody")
    ELSE IF so.length = Malformed THEN Refuse(Nothing, "MalformedLength")
    ELSE IF so.room = "unknown" THEN Refuse(Nothing, "UnknownRoom")
    ELSE IF endpoint.shape \in OwnReads
    THEN Reply(Nothing, ReportOf(endpoint.shape, request.view))
    ELSE IF endpoint.shape = "reload" THEN Reload(Nothing, request)
    ELSE ToModel(Nothing, request, so, endpoint)

Preflight(endpoint) == [Nothing EXCEPT !.status = 204, !.says = {"Allow"},
                                       !.report = Allowed(endpoint)]

Routed(request, endpoint) ==
    LET access == Access(request.key, request.origins)
    IN  IF ~OriginIsListed(access, request.lines)
        THEN Refuse(Nothing, "OriginNotAllowed")
        ELSE IF ~CarriesTheKey(access, request.method, request.lines)
        THEN Refuse(Nothing, "Unauthorized")
        ELSE IF request.method = "OPTIONS" THEN Preflight(endpoint)
        ELSE IF request.method \notin Allowed(endpoint)
        THEN Refuse(Nothing, "MethodNotAllowed")
        ELSE Framed(request, Parsed(request.lines), endpoint)

Answer(request) ==
    LET head == ReadHead(request.sizes, request.after)
    IN  IF head # "read" THEN Refuse(Nothing, head)
        ELSE IF request.method = "" \/ request.path = <<>>
        THEN Refuse(Nothing, "MalformedRequest")
        ELSE IF Endpoint(request.path) = NotServed THEN Refuse(Nothing, "PathNotFound")
        ELSE Routed(request, Endpoint(request.path))
=============================================================================
