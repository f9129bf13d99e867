----------------------------- MODULE MCRequests -----------------------------
(***************************************************************************)
(* Small heads and requests, and what is claimed of their answers.         *)
(***************************************************************************)
EXTENDS Requests, Questions

H(name, value) == [name |-> name, value |-> value]

Auth  == {H("authorization", "k"), H("authorization", "bad")}
From  == {H("origin", "o"), H("origin", "p")}
About == {H("content-length", "none"), H("content-length", "some"),
          H("content-length", "most"), H("content-length", "more"),
          H("content-length", "junk"), H("transfer-encoding", "chunked"),
          H("expect", "100-continue"), H("room", "free"), H("room", "tidy"),
          H("host", "router"), H("connection", "keep"), H("", "no colon")}
Some  == {H("content-length", "some"), H("expect", "100-continue"),
          H("room", "free"), H("room", "tidy"), H("connection", "keep")}

View == [served |-> [a |-> 1, b |-> 1, e |-> 1], file |-> [a |-> 2, c |-> 1],
         loaded |-> {"a", "b"}, held |-> [a |-> 3], generates |-> {"a", "b"}]

(* Heads that are cut short, that are too long or that hold no request. *)
HeadsRead ==
    {request \in [sizes : UpTo({0, 1, 2, 5}, 4), after : {"silence", "ended", "garbled"},
                  method : {"", "GET"}, path : {Catalogue}, lines : {<<>>}, body : {"a"},
                  key : {""}, origins : {{}}, outcome : {"done"}, child : {"there"},
                  view : {View}] :
        request.method = ""
            <=> request.sizes # <<>> /\ request.sizes[1] = 0}

NamedInBodies == {<<"/", "v1", "/", "chat">>, <<"/", "models", "/", "load">>,
                  <<"/", "models", "/", "unload">>}
ToModels == NamedInBodies \cup {<<"/", "models", "/", "a", "/", "chat">>}
Paths == ToModels \cup {
    <<>>, <<"/">>, <<"/", "models">>, <<"/", "models", "/">>, <<"/", "props">>,
    <<"/", "models", "/", "a">>, <<"/", "models", "/", "/", "chat">>,
    <<"/", "models", "/", "gone", "/", "chat">>, <<"/", "models", "/", "load", "?q">>,
    <<"/", "models", "/", "load", "/", "chat">>, <<"/", "metrics", "/">>,
    <<"/", "reload">>, <<"/", "v1", "/", "models", "/", "?q">>, <<"/", "v2", "/", "chat">>}

RequestsRouted ==
    [sizes : {<<1, 1, 0>>}, after : {"ended"},
     method : {"GET", "HEAD", "POST", "PUT", "OPTIONS"}, path : Paths,
     lines : UpTo(Auth \cup From, 2), body : {"a"}, key : {"", "k"},
     origins : {{}, {""}, {"o"}}, outcome : {"done", "Refused"}, child : {"there"},
     view : {View}]

RequestsMade ==
    [sizes : {<<1, 1, 0>>}, after : {"ended"}, method : {"POST"}, path : ToModels,
     lines : UpTo(About, 2) \cup UpTo(Some, 3),
     body : {"silence", "ended", "text", "unnamed", "a", "gone"}, key : {""}, origins : {{}},
     outcome : {"done", "NotReady", "Unavailable", "Contended", "Refused"},
     child : {"there", "lost"}, view : {View}]

AnswerRequest == Asked("request") /\ Given(Answer(question.input))

(* Whatever a caller sends, and however it is cut into lines, a head is    *)
(* read exactly when its blank line comes after no more lines and fewer    *)
(* bytes than the bounds allow, and is refused as too large only when it   *)
(* passed one of them; one that ends otherwise, or whose next line is no   *)
(* text as far as the bound lets it be read, is malformed                  *)
(* (proxy/head/read.rs).                                                   *)
HeadBoundsHold ==
    Answered("request") =>
        LET sizes == question.input.sizes
            blank == SelectInSeq(sizes, LAMBDA size : size = 0)
            kept  == IF blank = 0 THEN sizes ELSE SubSeq(sizes, 1, blank - 1)
            bytes == FoldLeft(LAMBDA sum, size : sum + size + 2, 0, kept)
            large == bytes >= MaxHeadBytes \/ Len(kept) > MaxHeadLines
        IN  /\ (answer[1].cause = "HeadTooLarge") <=> large
            /\ (answer[1].cause = "RequestTimeout" /\ ~answer[1].read)
                   <=> (~large /\ blank = 0 /\ question.input.after = "silence")
            /\ ~large /\ blank = 0 /\ question.input.after # "silence"
                   => answer[1].cause = "MalformedRequest"

(* No room is asked for a model, and so none is loaded or unloaded to make *)
(* room, on behalf of a request that is then refused for what it carries:  *)
(* its origin, key, method, framing, room or body.  A caller that limits   *)
(* the room is never served out of another's place.  An unload and a       *)
(* reload ask for no room, and are not spoken of                           *)
(* (answer/connection.rs:34-96, parsed.rs:139-143).                        *)
OnlyWhatCanBeAnsweredAsks ==
    Answered("request") /\ answer[1].asked # "" =>
        LET request == question.input
            said(name) == {line.value : line \in {l \in Range(request.lines) :
                                                     l.name = name}}
        IN  /\ request.origins \ {""} = {} \/ said("origin") = {}
                   \/ Header(request.lines, "origin") \in request.origins
            /\ request.key = "" \/ Header(request.lines, "authorization") = request.key
            /\ request.method \in {"GET", "POST"}
            /\ "chunked" \notin said("transfer-encoding")
            /\ said("room") \subseteq {"free"}
            /\ answer[1].room = IF said("room") = {} THEN "any" ELSE "free"
            /\ answer[1].asked \in DOMAIN request.view.served
            /\ request.path \in NamedInBodies
                   => /\ said("content-length") \cap {"none", "some", "most"} # {}
                      /\ request.body = answer[1].asked

(* A caller that holds its body back until told is told before the body is *)
(* read, here or on its way to a child: not told, both sides would wait    *)
(* for the other until the stall.  And it is told for nothing only where   *)
(* its model was got and the child is then lost, which is found out last   *)
(* (answer/connection.rs:107-123, 143-160, relay.rs:51-63).                *)
ToldToSendIsRead ==
    Answered("request") =>
        LET request == question.input
            expects == \E line \in Range(request.lines) : line.name = "expect"
            lost    == /\ request.child = "lost"
                       /\ answer[1].asked # "" /\ answer[1].cause = ""
        IN  /\ answer[1].read /\ expects => answer[1].told
            /\ answer[1].told => expects /\ (answer[1].read \/ lost)

=============================================================================
