------------------------------- MODULE Upload -------------------------------
(***************************************************************************)
(* Uploading a file: file() of the client (packages/client: file/) makes   *)
(* the object of the file in the database, finds the url of the hub and    *)
(* sends the contents; the server (handlers/rest/file/) stores them and    *)
(* notes in the object how far it got.  Requests to the database are in    *)
(* Requests and RestRequest; here they are answered or fail.               *)
(*                                                                         *)
(* Nobody waits for the contents: file() resolves when it starts sending.  *)
(***************************************************************************)
EXTENDS Naturals

CONSTANTS
    Uploads,
    Size      \* the chunks of a file

VARIABLES
    upload,   \* per upload
    urlAsk,   \* inProgress[id] of getUrl(): "none", "asking", or "failed":
              \* a rejected promise that stays there
    urlMemo   \* memoize[id] is there

\* A file below 200000 bytes is small; the others report their progress.
Fresh == [pc |-> "idle",        \* "setting", "url", "waiting", "sent", "done"
          kind |-> "contents",  \* "src", "path" (also a stream), "invalid"
          promise |-> "pending",
          large |-> FALSE,
          received |-> 0,       \* chunks the server got: its total
          broken |-> FALSE,     \* the request broke off
          timer |-> FALSE,      \* setInProgress: a progress is due
          progress |-> 0,       \* of the object, in chunks
          stored |-> "no"]      \* "storing", "yes", or "failed"

Init ==
    /\ upload = [u \in Uploads |-> Fresh]
    /\ urlAsk = "none" /\ urlMemo = FALSE

vars == <<upload, urlAsk, urlMemo>>
url == <<urlAsk, urlMemo>>

Set(u, r) == upload' = [upload EXCEPT ![u] = r]
-----------------------------------------------------------------------------
\* file(): a src is only noted; without an id an object is made first.
File(u, kind, hasId) ==
    /\ upload[u].pc = "idle"
    /\ Set(u, [Fresh EXCEPT !.kind = kind,
                            !.pc = IF kind = "src" \/ ~hasId THEN "setting" ELSE "url"])
    /\ UNCHANGED url

SetAnswered(u, ok) ==
    LET r == upload[u] IN
    /\ r.pc = "setting"
    /\ Set(u, IF ~ok THEN [r EXCEPT !.pc = "done", !.promise = "rejected"]
              ELSE IF r.kind = "src" THEN [r EXCEPT !.pc = "done", !.promise = "resolved"]
              ELSE [r EXCEPT !.pc = "url"])
    /\ UNCHANGED url

\* The url is there: the contents are sent.  Contents of no known kind are
\* refused; the object stays, since options.id has been set by then.  A path
\* that does not exist is an error nobody gets.
Sends(r, exists) ==
    IF r.kind = "invalid" THEN [r EXCEPT !.pc = "done", !.promise = "rejected"]
    ELSE [r EXCEPT !.promise = "resolved",
                   !.pc = IF r.kind = "path" /\ ~exists THEN "done" ELSE "sent"]

\* getUrl(): what was found within two seconds, what somebody asks for
\* already, or the service is asked.
GetUrl(u, exists) ==
    LET r == upload[u] IN
    /\ r.pc = "url"
    /\ IF urlMemo THEN Set(u, Sends(r, exists)) /\ UNCHANGED url
       ELSE IF urlAsk = "none"
       THEN Set(u, [r EXCEPT !.pc = "waiting"]) /\ urlAsk' = "asking" /\ UNCHANGED urlMemo
       ELSE /\ Set(u, IF urlAsk = "failed" THEN [r EXCEPT !.pc = "done", !.promise = "rejected"]
                      ELSE [r EXCEPT !.pc = "waiting"])
            /\ UNCHANGED url

UrlAnswered(exists) ==
    /\ urlAsk = "asking"
    /\ urlAsk' = "none" /\ urlMemo' = TRUE
    /\ upload' = [u \in Uploads |-> IF upload[u].pc = "waiting" THEN Sends(upload[u], exists)
                                    ELSE upload[u]]

UrlFailed ==
    /\ urlAsk = "asking" /\ urlAsk' = "failed" /\ UNCHANGED urlMemo
    /\ upload' = [u \in Uploads |->
          IF upload[u].pc = "waiting"
          THEN [upload[u] EXCEPT !.pc = "done", !.promise = "rejected"]
          ELSE upload[u]]

MemoExpires ==
    /\ urlMemo /\ urlMemo' = FALSE
    /\ UNCHANGED <<upload, urlAsk>>
-----------------------------------------------------------------------------
\* The server gets a request for a file: file/index.ts refuses what has no
\* type, id or size; a function or storeFile() gets the stream.
Accept(u, large, ok) ==
    LET r == upload[u] IN
    /\ r.pc = "sent"
    /\ Set(u, IF ok THEN [r EXCEPT !.pc = "streaming", !.large = large, !.stored = "storing"]
              ELSE [r EXCEPT !.pc = "done", !.broken = TRUE])
    /\ UNCHANGED url

\* A chunk.  A small file tells its progress with the last one, a large one
\* within 250 ms: one timer at a time, which reads progress when it fires.
Chunk(u) ==
    LET r == upload[u]
        n == r.received + 1
    IN
    /\ r.pc = "streaming"
    /\ Set(u, [r EXCEPT !.received = n,
                        !.timer = @ \/ r.large,
                        !.progress = IF ~r.large /\ n = Size THEN Size ELSE @,
                        !.pc = IF n = Size THEN "done" ELSE @])
    /\ UNCHANGED url

\* Mutant: the timer sends the progress it was set with, which is at best
\* that of the chunk before.
UpdateProgressEarly(u) ==
    LET r == upload[u] IN
    /\ r.timer
    /\ Set(u, [r EXCEPT !.timer = FALSE, !.progress = r.received - 1])
    /\ UNCHANGED url

UpdateProgress(u) ==
    LET r == upload[u] IN
    /\ r.timer
    /\ Set(u, [r EXCEPT !.timer = FALSE, !.progress = r.received])
    /\ UNCHANGED url

\* The peer goes away; nobody tells the stream.
Breaks(u) ==
    /\ upload[u].pc = "streaming"
    /\ Set(u, [upload[u] EXCEPT !.pc = "done", !.broken = TRUE])
    /\ UNCHANGED url

\* storeFile() of the configuration, or the function, has read all.
Stored(u, ok) ==
    LET r == upload[u] IN
    /\ r.stored = "storing" /\ r.received = Size
    /\ Set(u, [r EXCEPT !.stored = IF ok THEN "yes" ELSE "failed"])
    /\ UNCHANGED url

Next ==
    \/ \E u \in Uploads :
        \/ \E kind \in {"contents", "src", "path", "invalid"}, hasId \in BOOLEAN :
              File(u, kind, hasId)
        \/ \E b \in BOOLEAN : SetAnswered(u, b) \/ GetUrl(u, b) \/ Stored(u, b)
        \/ \E large, ok \in BOOLEAN : Accept(u, large, ok)
        \/ Chunk(u) \/ UpdateProgress(u) \/ Breaks(u)
    \/ \E b \in BOOLEAN : UrlAnswered(b)
    \/ UrlFailed \/ MemoExpires

Spec == Init /\ [][Next]_vars
-----------------------------------------------------------------------------
(***************************************************************************)
(* Properties.                                                             *)
(***************************************************************************)
\* What the object of a file says is what the server received, but for a
\* progress that is due; a complete upload thus ends at full progress.  And
\* who waits for the url waits for somebody who asked.
ProgressTrue ==
    /\ \A u \in Uploads : LET r == upload[u] IN
        /\ r.large /\ ~r.timer => r.progress = r.received
        /\ r.received = Size /\ ~r.timer => r.progress = Size
        /\ r.pc = "waiting" => urlAsk = "asking"
    /\ urlAsk = "asking" => \E u \in Uploads : upload[u].pc = "waiting"
=============================================================================
