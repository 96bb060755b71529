----------------------------- MODULE RestRequest -----------------------------
(***************************************************************************)
(* A request over http (packages/server: handlers/rest/): its body, the    *)
(* Client made for it, and the one response it gets, which uWebSockets     *)
(* forbids to touch once it was ended or aborted.  Everything that holds   *)
(* the response looks at res.aborted or at client.res first.               *)
(*                                                                         *)
(* handler/file goes on in Upload; what handleRequests() does in between   *)
(* is in Requests.                                                         *)
(***************************************************************************)
EXTENDS Naturals

CONSTANT
    HttpRequests,
    MaxChunks  \* bounds the chunks of a body

VARIABLE rest  \* per request

Arriving == [pc |-> "arriving",  \* "body", "handling", "streaming", "done"
             body |-> "json",    \* or "text": digest, another content type
             chunks |-> 0,
             tooLarge |-> FALSE,
             aborted |-> FALSE,  \* res.aborted
             client |-> "none",  \* res.client: "live", "closed"
             ended |-> 0,        \* how often res.end() was called
             unknown |-> FALSE,  \* history: the answer was of an unknown type
             late |-> FALSE]     \* history: written to after end() or abort

Init == rest = [q \in HttpRequests |-> Arriving]

Set(q, r) == rest' = [rest EXCEPT ![q] = r]

\* Writing a head, a chunk or the end touches the response.
Touch(r) == [r EXCEPT !.late = @ \/ r.ended > 0 \/ r.aborted]
End(r) == [Touch(r) EXCEPT !.ended = @ + 1, !.pc = "done"]

\* invalidReq() and invalid() of parseResponse: from here on nobody writes.
Invalid(r) == [End(r) EXCEPT !.aborted = TRUE]

\* execMessages(): a Client for this response, and the message is handled.
ExecMessages(r) == [r EXCEPT !.client = "live", !.pc = "handling"]

\* client.send() has written: destroy() takes the response from the Client.
Destroy(r) == [r EXCEPT !.client = "closed"]
-----------------------------------------------------------------------------
\* The request is read: route, method, and for GET also query and message.
\* message: getReqMessage() knows the name.
Request(q, route, method, message) ==
    LET r == rest[q] IN
    /\ r.pc = "arriving"
    /\ Set(q, IF route = "unknown" THEN Invalid(r)
              ELSE IF method = "post" THEN [r EXCEPT !.pc = "body", !.body = route]
              ELSE IF method = "get" /\ message THEN ExecMessages(r)
              ELSE Invalid(r))

\* Mutant: the refused request is not marked.
RefuseUnmarked(r) == [End(r) EXCEPT !.pc = "body", !.tooLarge = TRUE]

\* readBody().  A body that is too large is refused at once, and its other
\* chunks are ignored.
Refuse(r) == [End(r) EXCEPT !.pc = "body", !.aborted = TRUE, !.tooLarge = TRUE]

GetReqMessage(r, message) == IF message THEN ExecMessages(r) ELSE Invalid(r)

Chunk(q, isLast, fits, parses, message) ==
    LET r == [rest[q] EXCEPT !.chunks = @ + 1]
        read == IF r.aborted THEN r
                ELSE IF ~fits \/ r.tooLarge THEN Refuse(r)
                ELSE IF ~isLast THEN r
                ELSE IF r.body = "json" /\ ~parses THEN Invalid(r)
                ELSE GetReqMessage(r, message)
    IN
    /\ r.pc = "body" /\ r.chunks <= MaxChunks
    /\ Set(q, IF isLast /\ read.pc = "body" THEN [read EXCEPT !.pc = "done"] ELSE read)

\* The peer goes away; uWebSockets tells it of responses that were not ended.
OnAborted(q) ==
    LET r == rest[q] IN
    /\ r.ended = 0 /\ ~r.aborted /\ r.pc # "arriving"
    /\ Set(q, [r EXCEPT !.aborted = TRUE,
                        !.client = IF @ = "live" THEN "closed" ELSE @])
-----------------------------------------------------------------------------
\* parseResponse(): the heads of an answer by its type; an error and an answer
\* of a type that is not known here are invalid.  What comes after that looks
\* at res.aborted, except the header Content-Type.
Heads(r, answer) ==
    IF answer = "error" THEN Invalid(r)
    ELSE IF answer = "unknown" THEN [Touch(Invalid(r)) EXCEPT !.unknown = TRUE]
    ELSE Touch(r)

\* An answer as csv, or one the peer accepts compressed, is streamed: its
\* chunks and its end come later.
Write(r, answer) ==
    IF r.aborted THEN r
    ELSE IF answer = "streamed" THEN [r EXCEPT !.pc = "streaming"]
    ELSE End(r)

ParseResponse(r, answer) ==
    IF r.aborted THEN r ELSE Write(Heads(r, answer), answer)

\* The handler of the message calls client.send(); whatever a handler sends
\* when the Client is closed, an error after an answer or an answer after the
\* abort, is dropped.
Send(q, answer) ==
    LET r == rest[q] IN
    /\ r.pc = "handling"
    /\ Set(q, IF r.client = "live" THEN Destroy(ParseResponse(r, answer))
              ELSE [r EXCEPT !.pc = "done"])

\* Chunks of the compressor or of jsonexport, and its end.
StreamData(q) ==
    LET r == rest[q] IN
    /\ r.pc = "streaming" /\ ~r.aborted /\ Set(q, Touch(r))
StreamEnd(q) ==
    LET r == rest[q] IN
    /\ r.pc = "streaming"
    /\ Set(q, IF r.aborted THEN [r EXCEPT !.pc = "done"] ELSE End(r))

Next == \E q \in HttpRequests :
    \/ \E route \in {"unknown", "json", "text"}, method \in {"post", "get", "other"},
          message \in BOOLEAN : Request(q, route, method, message)
    \/ \E isLast, fits, parses, message \in BOOLEAN :
          Chunk(q, isLast, fits, parses, message)
    \/ OnAborted(q) \/ StreamData(q) \/ StreamEnd(q)
    \/ \E answer \in {"plain", "streamed", "error", "unknown"} : Send(q, answer)

Spec == Init /\ [][Next]_rest
-----------------------------------------------------------------------------
(***************************************************************************)
(* Properties.                                                             *)
(***************************************************************************)
\* A response is ended once, is not touched after that or after it was
\* aborted, and the Client of an ended response is closed, so that it does
\* not stay subscribed.  The answer of an unknown type is the exception the
\* code makes: its Content-Type is written after invalid().
AnsweredOnce ==
    \A q \in HttpRequests : LET r == rest[q] IN
        /\ r.ended <= 1
        /\ r.ended = 1 => r.client # "live"
        /\ r.late => r.unknown
=============================================================================
