---------------------------- MODULE ServerProofs ----------------------------
(***************************************************************************)
(* Proofs about the parts of the server that share no state with others:   *)
(* ServerToken (ST), RestRequest (RR), ServerCaller (SC), FormUpload (FU), *)
(* Upload (UP), ConfigObservable (CO) and FunctionCache (FC).  Each has an *)
(* inductive invariant of its own, one lemma per action or operator of the *)
(* part, and the theorem that names the property the runs check.           *)
(***************************************************************************)
EXTENDS Parts, Integers, Sequences, FiniteSetTheorems, TLAPS
-----------------------------------------------------------------------------
(***************************************************************************)
(* A behaviour of Spec is, for every part, one of the part.                *)
(***************************************************************************)
LEMMA TokenPart == (Init => ST!Init) /\ ([Next]_vars => [ST!Next]_(ST!vars))
BY DEF Init, Next, In, Others, vars, ST!vars

LEMMA RestPart == (Init => RR!Init) /\ ([Next]_vars => [RR!Next]_rest)
BY DEF Init, Next, In, Others, vars

LEMMA CallerPart == (Init => SC!Init) /\ ([Next]_vars => [SC!Next]_op)
BY DEF Init, Next, In, Others, vars

LEMMA FormPart == (Init => FU!Init) /\ ([Next]_vars => [FU!Next]_(FU!vars))
BY DEF Init, Next, In, Others, vars, FU!vars

LEMMA UploadPart == (Init => UP!Init) /\ ([Next]_vars => [UP!Next]_(UP!vars))
BY DEF Init, Next, In, Others, vars, UP!vars

LEMMA ConfigPart == (Init => CO!Init) /\ ([Next]_vars => [CO!Next]_(CO!vars))
BY DEF Init, Next, In, Others, vars, CO!vars

LEMMA CachePart == (Init => FC!Init) /\ ([Next]_vars => [FC!Next]_(FC!vars))
BY DEF Init, Next, In, Others, vars, FC!vars
-----------------------------------------------------------------------------
(***************************************************************************)
(* The token of a connection.  The property is inductive as it stands:     *)
(* what a decode under way may store is noted when the token changes.      *)
(***************************************************************************)
LEMMA TokenInit == ST!Init => ST!UnpackedIsAccounted
BY DEF ST!Init, ST!UnpackedIsAccounted

LEMMA TokenStep == ST!UnpackedIsAccounted /\ [ST!Next]_(ST!vars) => ST!UnpackedIsAccounted'
<1> SUFFICES ASSUME ST!UnpackedIsAccounted, [ST!Next]_(ST!vars)
             PROVE  ST!UnpackedIsAccounted'
  OBVIOUS
<1>1. CASE UNCHANGED <<token, unpacked, decodes, outdated>>
  BY <1>1 DEF ST!UnpackedIsAccounted
<1>2. ASSUME NEW r \in Runs, NEW t \in Tokens \cup {None}, ST!TokenMessage(r, t)
      PROVE  ST!UnpackedIsAccounted'
  BY <1>2 DEF ST!TokenMessage, ST!ForgetUnpacked, ST!UnpackedIsAccounted
<1>3. CASE ST!AskToken
  BY <1>3 DEF ST!AskToken, ST!UnpackedIsAccounted
<1>4. ASSUME NEW t \in Tokens, NEW valid \in BOOLEAN, ST!Decoded(t, valid)
      PROVE  ST!UnpackedIsAccounted'
  BY <1>4 DEF ST!Decoded, ST!UnpackedIsAccounted
<1>5. QED
  BY <1>1, <1>2, <1>3, <1>4
     DEF ST!Next, ST!vars, ST!NoAuthorize, ST!Authorize, ST!Judging, ST!Collect, ST!Settle,
         ST!Settled, ST!Renewed, ST!RenewFailed, ST!Subscriptions

\* What the server takes for the decoded form of the token is that of the
\* token, or of one that was being decoded when the token last changed: for any
\* tokens and every order of messages, decodes, runs of the Token handler and
\* authorizations (Client.setToken and token, handlers/token.ts).
THEOREM UnpackedStaysAccounted == Spec => []UnpackedIsAccounted
<1>1. QED
  BY TokenInit, TokenStep, TokenPart, PTL DEF Spec, UnpackedIsAccounted
-----------------------------------------------------------------------------
(***************************************************************************)
(* Responses over http.                                                    *)
(***************************************************************************)
Response == [pc : {"arriving", "body", "handling", "streaming", "done"},
             body : {"json", "text"}, chunks : Nat, tooLarge : BOOLEAN,
             aborted : BOOLEAN, client : {"none", "live", "closed"}, ended : Nat,
             unknown : BOOLEAN, late : BOOLEAN]

\* Who holds the response may still write to it: a body that was not refused,
\* a Client that lives, a stream that was not aborted.
Writable(r) ==
    /\ r.ended <= 1
    /\ r.pc = "arriving" => r.ended = 0 /\ ~r.aborted /\ r.client = "none"
    /\ r.pc = "body" => r.client = "none" /\ (~r.aborted => r.ended = 0)
    /\ r.client = "live" => r.ended = 0 /\ ~r.aborted
    /\ r.pc = "streaming" => r.ended = 0 /\ r.client = "closed"
    /\ r.late => r.unknown

RestInv == rest \in [HttpRequests -> Response] /\ \A q \in HttpRequests : Writable(rest[q])

\* What the operators on a response do to what Writable looks at.
LEMMA DoneOf ==
    ASSUME NEW t \in Response, NEW e, e = [t EXCEPT !.ended = 1, !.pc = "done"]
    PROVE  /\ e \in Response /\ e.ended = 1 /\ e.pc = "done" /\ e.client = t.client
           /\ e.aborted = t.aborted /\ e.unknown = t.unknown /\ e.late = t.late
<1>1. e \in Response
  BY DEF Response
<1>2. e.ended = 1 /\ e.pc = "done" /\ e.client = t.client
  BY DEF Response
<1>3. e.aborted = t.aborted /\ e.unknown = t.unknown /\ e.late = t.late
  BY DEF Response
<1>4. QED
  BY <1>1, <1>2, <1>3

LEMMA EndOf ==
    ASSUME NEW r \in Response, r.ended = 0, ~r.aborted
    PROVE  /\ RR!End(r) \in Response
           /\ RR!End(r).ended = 1 /\ RR!End(r).pc = "done" /\ RR!End(r).aborted = FALSE
           /\ RR!End(r).client = r.client /\ RR!End(r).unknown = r.unknown
           /\ RR!End(r).late = r.late
<1>1. /\ RR!Touch(r) \in Response /\ RR!Touch(r).late = r.late
      /\ RR!Touch(r).ended = 0 /\ RR!Touch(r).aborted = FALSE
      /\ RR!Touch(r).client = r.client /\ RR!Touch(r).unknown = r.unknown
  BY DEF RR!Touch, Response
<1> DEFINE t == RR!Touch(r)
<1>2. RR!End(r) = [t EXCEPT !.ended = t.ended + 1, !.pc = "done"]
  BY DEF RR!End
<1>3. /\ t \in Response /\ t.late = r.late /\ t.ended = 0 /\ t.aborted = FALSE
      /\ t.client = r.client /\ t.unknown = r.unknown
  BY <1>1
<1> HIDE DEF t
<1>4. RR!End(r) = [t EXCEPT !.ended = 1, !.pc = "done"]
  BY <1>2, <1>3
<1>5. QED
  BY <1>3, <1>4, DoneOf

LEMMA InvalidOf ==
    ASSUME NEW r \in Response, r.ended = 0, ~r.aborted
    PROVE  /\ RR!Invalid(r) \in Response
           /\ RR!Invalid(r).ended = 1 /\ RR!Invalid(r).pc = "done"
           /\ RR!Invalid(r).aborted = TRUE /\ RR!Invalid(r).client = r.client
           /\ RR!Invalid(r).unknown = r.unknown /\ RR!Invalid(r).late = r.late
<1>1. RR!Invalid(r) = [RR!End(r) EXCEPT !.aborted = TRUE]
  BY DEF RR!Invalid
<1>2. QED
  BY <1>1, EndOf DEF Response

LEMMA ExecOf ==
    ASSUME NEW r \in Response
    PROVE  /\ RR!ExecMessages(r) \in Response
           /\ RR!ExecMessages(r).client = "live" /\ RR!ExecMessages(r).pc = "handling"
           /\ RR!ExecMessages(r).ended = r.ended /\ RR!ExecMessages(r).aborted = r.aborted
           /\ RR!ExecMessages(r).unknown = r.unknown /\ RR!ExecMessages(r).late = r.late
BY DEF RR!ExecMessages, Response

\* A request that is invalid or handled leaves its response writable to whom
\* it should be, if nothing was written before.
LEMMA InvalidWritable ==
    ASSUME NEW r \in Response, r.ended = 0, ~r.aborted, r.client # "live", r.late => r.unknown
    PROVE  Writable(RR!Invalid(r)) /\ Writable(RR!ExecMessages(r))
<1>1. Writable(RR!Invalid(r))
  <2>1. /\ RR!Invalid(r).ended = 1 /\ RR!Invalid(r).pc = "done"
        /\ RR!Invalid(r).aborted = TRUE /\ RR!Invalid(r).client = r.client
        /\ RR!Invalid(r).unknown = r.unknown /\ RR!Invalid(r).late = r.late
    BY InvalidOf
  <2>2. QED
    BY <2>1 DEF Writable
<1>2. Writable(RR!ExecMessages(r))
  <2>1. /\ RR!ExecMessages(r).client = "live" /\ RR!ExecMessages(r).pc = "handling"
        /\ RR!ExecMessages(r).ended = 0 /\ RR!ExecMessages(r).aborted = r.aborted
        /\ RR!ExecMessages(r).unknown = r.unknown /\ RR!ExecMessages(r).late = r.late
    BY ExecOf
  <2>2. QED
    BY <2>1 DEF Writable
<1>3. QED
  BY <1>1, <1>2

LEMMA RequestOK ==
    ASSUME NEW q \in HttpRequests, RestInv, NEW route \in {"unknown", "json", "text"},
           NEW method \in {"post", "get", "other"}, NEW message \in BOOLEAN,
           RR!Request(q, route, method, message)
    PROVE  RestInv'
<1> DEFINE r == rest[q]
<1>1. r \in Response /\ Writable(r) /\ r.pc = "arriving"
  BY DEF RestInv, RR!Request
<1>2. r.ended = 0 /\ ~r.aborted /\ r.client = "none" /\ (r.late => r.unknown)
  BY <1>1 DEF Writable
<1>3. PICK new : rest' = [rest EXCEPT ![q] = new] /\
          \/ new = RR!Invalid(r) \/ new = RR!ExecMessages(r)
          \/ new = [r EXCEPT !.pc = "body", !.body = route] /\ route # "unknown"
  BY DEF RR!Request, RR!Set
<1>4. new \in Response /\ Writable(new)
  <2>1. CASE new = RR!Invalid(r) \/ new = RR!ExecMessages(r)
    BY <1>1, <1>2, <2>1, InvalidOf, ExecOf, InvalidWritable
  <2>2. CASE new = [r EXCEPT !.pc = "body", !.body = route] /\ route # "unknown"
    BY <1>1, <1>2, <2>2 DEF Response, Writable
  <2>3. QED
    BY <1>3, <2>1, <2>2
<1>5. QED
  BY <1>3, <1>4 DEF RestInv

LEMMA ChunkOK ==
    ASSUME NEW q \in HttpRequests, RestInv,
           NEW isLast \in BOOLEAN, NEW fits \in BOOLEAN, NEW parses \in BOOLEAN,
           NEW message \in BOOLEAN, RR!Chunk(q, isLast, fits, parses, message)
    PROVE  RestInv'
<1> DEFINE r == [rest[q] EXCEPT !.chunks = @ + 1]
           read == IF r.aborted THEN r
                   ELSE IF ~fits \/ r.tooLarge THEN RR!Refuse(r)
                   ELSE IF ~isLast THEN r
                   ELSE IF r.body = "json" /\ ~parses THEN RR!Invalid(r)
                   ELSE RR!GetReqMessage(r, message)
           new == IF isLast /\ read.pc = "body" THEN [read EXCEPT !.pc = "done"] ELSE read
<1>1. rest[q] \in Response /\ Writable(rest[q])
  BY DEF RestInv
<1>2. r.pc = "body" /\ rest' = [rest EXCEPT ![q] = new]
  BY DEF RR!Chunk, RR!Set
<1>3. r \in Response /\ Writable(r)
  BY <1>1 DEF Response, Writable
<1> HIDE DEF r
<1>4. read \in Response /\ Writable(read)
  <2>1. CASE r.aborted \/ read = r
    BY <1>3, <2>1
  <2>2. CASE ~r.aborted
    <3>1. r.ended = 0 /\ r.client = "none" /\ (r.late => r.unknown)
      BY <1>2, <1>3, <2>2 DEF Writable
    <3>2. RR!Refuse(r) \in Response /\ Writable(RR!Refuse(r))
      <4>1. RR!Refuse(r) = [RR!End(r) EXCEPT !.pc = "body", !.aborted = TRUE, !.tooLarge = TRUE]
        BY DEF RR!Refuse
      <4>2. /\ RR!End(r) \in Response /\ RR!End(r).ended = 1
            /\ RR!End(r).client = "none" /\ RR!End(r).unknown = r.unknown
            /\ RR!End(r).late = r.late
        BY <1>3, <2>2, <3>1, EndOf
      <4> DEFINE e == RR!End(r)
                 f == RR!Refuse(r)
      <4> HIDE DEF e, f
      <4>3. /\ f \in Response /\ f.ended = 1 /\ f.client = "none" /\ f.pc = "body"
            /\ f.aborted = TRUE /\ f.unknown = r.unknown /\ f.late = r.late
        BY <4>1, <4>2 DEF Response, e, f
      <4>4. QED
        BY <3>1, <4>3 DEF Writable, f
    <3>3. /\ RR!Invalid(r) \in Response /\ Writable(RR!Invalid(r))
          /\ RR!ExecMessages(r) \in Response /\ Writable(RR!ExecMessages(r))
      BY <1>3, <2>2, <3>1, InvalidOf, ExecOf, InvalidWritable
    <3>4. QED
      BY <1>3, <3>2, <3>3 DEF RR!GetReqMessage
  <2>3. QED
    BY <2>1, <2>2
<1> HIDE DEF read
<1>5. new \in Response /\ Writable(new)
  BY <1>4 DEF Response, Writable
<1> HIDE DEF new
<1>6. QED
  BY <1>2, <1>5 DEF RestInv

LEMMA OnAbortedOK ==
    ASSUME NEW q \in HttpRequests, RestInv, RR!OnAborted(q)
    PROVE  RestInv'
<1> DEFINE r == rest[q]
           new == [r EXCEPT !.aborted = TRUE,
                            !.client = IF @ = "live" THEN "closed" ELSE @]
<1>1. r \in Response /\ Writable(r)
  BY DEF RestInv
<1>2. r.ended = 0 /\ r.pc # "arriving" /\ rest' = [rest EXCEPT ![q] = new]
  BY DEF RR!OnAborted, RR!Set
<1>3. new \in Response /\ Writable(new)
  BY <1>1, <1>2 DEF Response, Writable
<1> HIDE DEF new
<1>4. QED
  BY <1>2, <1>3 DEF RestInv

LEMMA SendOK ==
    ASSUME NEW q \in HttpRequests, RestInv,
           NEW answer \in {"plain", "streamed", "error", "unknown"}, RR!Send(q, answer)
    PROVE  RestInv'
<1> DEFINE r == rest[q]
<1>1. r \in Response /\ Writable(r) /\ r.pc = "handling"
  BY DEF RestInv, RR!Send
<1>2. CASE r.client # "live"
  <2> DEFINE new == [r EXCEPT !.pc = "done"]
  <2>1. rest' = [rest EXCEPT ![q] = new]
    BY <1>2 DEF RR!Send, RR!Set
  <2>2. new \in Response /\ Writable(new)
    BY <1>1, <1>2 DEF Response, Writable
  <2> HIDE DEF new
  <2>3. QED
    BY <2>1, <2>2 DEF RestInv
<1>3. CASE r.client = "live"
  <2> DEFINE sent == RR!ParseResponse(r, answer)
             new == [sent EXCEPT !.client = "closed"]
  <2>1. rest' = [rest EXCEPT ![q] = new]
    BY <1>3 DEF RR!Send, RR!Set, RR!Destroy
  <2>2. r.ended = 0 /\ ~r.aborted /\ (r.late => r.unknown)
    BY <1>1, <1>3 DEF Writable
  <2>3. sent = RR!Write(RR!Heads(r, answer), answer)
    BY <2>2 DEF RR!ParseResponse
  <2>4. /\ sent \in Response /\ sent.ended <= 1
        /\ sent.pc \in {"streaming", "done"}
        /\ sent.pc = "streaming" => sent.ended = 0
        /\ sent.late => sent.unknown
    <3>1. CASE answer = "error"
      <4>1. sent = RR!Invalid(r)
        BY <1>1, <2>2, <2>3, <3>1, InvalidOf DEF RR!Heads, RR!Write
      <4>2. /\ RR!Invalid(r) \in Response /\ RR!Invalid(r).ended = 1
            /\ RR!Invalid(r).pc = "done"
            /\ RR!Invalid(r).unknown = r.unknown /\ RR!Invalid(r).late = r.late
        BY <1>1, <2>2, InvalidOf
      <4> HIDE DEF sent
      <4>3. QED
        BY <2>2, <4>1, <4>2
    <3>2. CASE answer = "unknown"
      <4> DEFINE i == RR!Invalid(r)
                 u == [RR!Touch(i) EXCEPT !.unknown = TRUE]
      <4>1. /\ i \in Response /\ i.ended = 1 /\ i.pc = "done" /\ i.aborted = TRUE
        BY <1>1, <2>2, InvalidOf
      <4> HIDE DEF i
      <4>2. /\ RR!Touch(i) \in Response /\ RR!Touch(i).ended = 1
            /\ RR!Touch(i).pc = "done" /\ RR!Touch(i).aborted = TRUE
        BY <4>1 DEF RR!Touch, Response
      <4>3. /\ u \in Response /\ u.ended = 1 /\ u.pc = "done" /\ u.aborted = TRUE
            /\ u.unknown = TRUE
        BY <4>2 DEF Response
      <4>4. sent = u
        BY <2>3, <3>2, <4>3 DEF RR!Heads, RR!Write, i
      <4> HIDE DEF u, sent
      <4>5. QED
        BY <4>3, <4>4
    <3>3. CASE answer \in {"plain", "streamed"}
      <4> DEFINE t == RR!Touch(r)
      <4>1. RR!Heads(r, answer) = t
        BY <3>3 DEF RR!Heads
      <4>2. /\ t \in Response /\ t.ended = 0 /\ t.aborted = FALSE
            /\ t.unknown = r.unknown /\ t.late = r.late
        BY <1>1, <2>2 DEF RR!Touch, Response
      <4> HIDE DEF t
      <4>3. CASE answer = "plain"
        <5>1. sent = RR!End(t)
          BY <2>3, <4>1, <4>2, <4>3 DEF RR!Write
        <5>2. /\ RR!End(t) \in Response /\ RR!End(t).ended = 1 /\ RR!End(t).pc = "done"
              /\ RR!End(t).unknown = r.unknown /\ RR!End(t).late = r.late
          BY <4>2, EndOf
        <5>3. QED
          BY <2>2, <5>1, <5>2
      <4>4. CASE answer = "streamed"
        <5>1. sent = [t EXCEPT !.pc = "streaming"]
          BY <2>3, <4>1, <4>2, <4>4 DEF RR!Write
        <5>2. QED
          BY <2>2, <4>2, <5>1 DEF Response
      <4>5. QED
        BY <3>3, <4>3, <4>4
    <3>4. QED
      BY <3>1, <3>2, <3>3
  <2> HIDE DEF sent
  <2>5. new \in Response /\ Writable(new)
    BY <2>4 DEF Response, Writable
  <2> HIDE DEF new
  <2>6. QED
    BY <2>1, <2>5 DEF RestInv
<1>4. QED
  BY <1>2, <1>3

LEMMA StreamOK ==
    ASSUME NEW q \in HttpRequests, RestInv, RR!StreamData(q) \/ RR!StreamEnd(q)
    PROVE  RestInv'
<1> DEFINE r == rest[q]
<1>1. r \in Response /\ Writable(r) /\ r.pc = "streaming"
  BY DEF RestInv, RR!StreamData, RR!StreamEnd
<1>2. r.ended = 0 /\ r.client = "closed" /\ (r.late => r.unknown)
  BY <1>1 DEF Writable
<1>3. PICK new : rest' = [rest EXCEPT ![q] = new] /\
          \/ ~r.aborted /\ (new = RR!Touch(r) \/ new = RR!End(r))
          \/ new = [r EXCEPT !.pc = "done"]
  BY DEF RR!StreamData, RR!StreamEnd, RR!Set
<1>4. new \in Response /\ Writable(new)
  <2>1. CASE ~r.aborted /\ new = RR!Touch(r)
    <3>1. /\ new \in Response /\ new.ended = 0 /\ new.aborted = r.aborted /\ new.pc = r.pc
          /\ new.client = "closed" /\ new.unknown = r.unknown /\ new.late = r.late
      BY <1>1, <1>2, <2>1 DEF RR!Touch, Response
    <3>2. QED
      BY <1>1, <1>2, <3>1 DEF Writable
  <2>2. CASE ~r.aborted /\ new = RR!End(r)
    <3>1. /\ new \in Response /\ new.ended = 1 /\ new.pc = "done"
          /\ new.client = "closed" /\ new.unknown = r.unknown /\ new.late = r.late
      BY <1>1, <1>2, <2>2, EndOf
    <3>2. QED
      BY <1>2, <3>1 DEF Writable
  <2>3. CASE new = [r EXCEPT !.pc = "done"]
    BY <1>1, <1>2, <2>3 DEF Response, Writable
  <2>4. QED
    BY <1>3, <2>1, <2>2, <2>3
<1>5. QED
  BY <1>3, <1>4 DEF RestInv

\* A response is ended once and not touched after that, and its Client has
\* let go of it by then: in every order of chunks, answers, streamed parts
\* and the abort of the peer (readBody, parseResponse, Client.send).
THEOREM ResponseEndsOnce == Spec => []AnsweredOnce
<1>1. RR!Init => RestInv
  <2>1. RR!Arriving \in Response /\ Writable(RR!Arriving)
    BY DEF RR!Arriving, Response, Writable
  <2>2. QED
    BY <2>1 DEF RR!Init, RestInv
<1>2. RestInv /\ [RR!Next]_rest => RestInv'
  <2>1. RestInv /\ rest' = rest => RestInv'
    BY DEF RestInv
  <2>2. RestInv /\ RR!Next => RestInv'
    BY RequestOK, ChunkOK, OnAbortedOK, SendOK, StreamOK DEF RR!Next
  <2>3. QED
    BY <2>1, <2>2
<1>3. RestInv => AnsweredOnce
  BY DEF AnsweredOnce, RestInv, Writable, RR!AnsweredOnce, Response
<1>4. QED
  BY <1>1, <1>2, <1>3, RestPart, PTL DEF Spec
-----------------------------------------------------------------------------
(***************************************************************************)
(* Listeners of the functions that call functions.                         *)
(***************************************************************************)
Operation == [kind : SC!Kinds \cup {"none"},
              pc : {"idle", "authorizing", "looking", "returning", "done"},
              promise : {"pending", "resolved", "rejected"},
              attached : BOOLEAN, fired : BOOLEAN, close : BOOLEAN, lost : BOOLEAN,
              silent : BOOLEAN]

\* Before its function was found an operation has no listener; a get() that
\* was answered before it returns remembers that, an observe() that was
\* rejected before it returns has lost its listener.
Owned(r) ==
    /\ r.pc \in {"idle", "authorizing", "looking"} =>
           ~r.attached /\ r.promise = "pending" /\ ~r.fired /\ ~r.lost
    /\ r.attached => r.kind \in {"get", "observe", "until", "query"}
    /\ r.kind = "query" => r.pc # "returning"
    /\ r.kind = "get" /\ r.pc = "returning" /\ r.promise # "pending" => r.fired
    /\ r.kind = "observe" /\ r.pc = "returning" /\ r.attached /\ r.promise # "pending" => r.lost
    /\ r.attached /\ ~r.lost =>
           \/ r.close
           \/ r.pc = "returning"
           \/ r.kind \in {"get", "query"} /\ r.promise = "pending"

CallerInv == op \in [Ops -> Operation] /\ \A o \in Ops : Owned(op[o])

LEMMA SettleOf ==
    ASSUME NEW r \in Operation, NEW how \in {"resolved", "rejected"}
    PROVE  /\ SC!Settle(r, how) \in Operation
           /\ SC!Settle(r, how).promise # "pending"
           /\ r.promise # "pending" => SC!Settle(r, how) = r
           /\ SC!Settle(r, how).kind = r.kind /\ SC!Settle(r, how).pc = r.pc
           /\ SC!Settle(r, how).attached = r.attached /\ SC!Settle(r, how).fired = r.fired
           /\ SC!Settle(r, how).close = r.close /\ SC!Settle(r, how).lost = r.lost
<1>1. CASE r.promise # "pending"
  BY <1>1 DEF SC!Settle
<1>2. CASE r.promise = "pending"
  <2> DEFINE e == [r EXCEPT !.promise = how]
  <2>1. SC!Settle(r, how) = e
    BY <1>2 DEF SC!Settle
  <2>2. e \in Operation
    BY DEF Operation
  <2>3. e.promise = how /\ e.kind = r.kind /\ e.pc = r.pc
    BY DEF Operation
  <2>4. e.attached = r.attached /\ e.fired = r.fired /\ e.close = r.close /\ e.lost = r.lost
    BY DEF Operation
  <2> HIDE DEF e
  <2>5. QED
    BY <1>2, <2>1, <2>2, <2>3, <2>4
<1>3. QED
  BY <1>1, <1>2

LEMMA DetachOf ==
    ASSUME NEW r \in Operation
    PROVE  /\ SC!Detach(r) \in Operation /\ ~SC!Detach(r).attached
           /\ SC!Detach(r).kind = r.kind /\ SC!Detach(r).pc = r.pc
           /\ SC!Detach(r).promise = r.promise /\ SC!Detach(r).fired = r.fired
BY DEF SC!Detach, Operation

LEMMA GetFiresOK ==
    ASSUME NEW r \in Operation, r.kind = "get", r.pc \in {"returning", "done"},
           NEW how \in {"resolved", "rejected"}
    PROVE  SC!GetFires(r, how) \in Operation /\ Owned(SC!GetFires(r, how))
<1> DEFINE s == SC!Settle(r, how)
<1>1. s \in Operation /\ s.kind = "get" /\ s.pc = r.pc
  BY SettleOf
<1> HIDE DEF s
<1>2. CASE r.pc = "done"
  <2>1. SC!GetFires(r, how) = SC!Detach(s)
    BY <1>2 DEF SC!GetFires, s
  <2>2. /\ SC!Detach(s) \in Operation /\ ~SC!Detach(s).attached
        /\ SC!Detach(s).pc = "done" /\ SC!Detach(s).kind = "get"
    BY <1>1, <1>2, DetachOf
  <2>3. QED
    BY <2>1, <2>2 DEF Owned
<1>3. CASE r.pc = "returning"
  <2> DEFINE e == [s EXCEPT !.fired = TRUE]
  <2>1. SC!GetFires(r, how) = e
    BY <1>3 DEF SC!GetFires, s
  <2>2. e \in Operation
    BY <1>1 DEF Operation
  <2>3. e.fired = TRUE /\ e.pc = "returning" /\ e.kind = "get"
    BY <1>1, <1>3 DEF Operation
  <2> HIDE DEF e
  <2>4. QED
    BY <2>1, <2>2, <2>3 DEF Owned
<1>4. QED
  BY <1>2, <1>3

\* The first call of an observe() or observeUntil() that is an error loses
\* the listener; any other call leaves everything but fired as it was.
LEMMA ObserveFiresOf ==
    ASSUME NEW r \in Operation, NEW how \in {"resolved", "rejected"}
    PROVE  /\ SC!ObserveFires(r, how) \in Operation
           /\ SC!ObserveFires(r, how).kind = r.kind /\ SC!ObserveFires(r, how).pc = r.pc
           /\ SC!ObserveFires(r, how).attached = r.attached
           /\ SC!ObserveFires(r, how).close = r.close
           /\ SC!ObserveFires(r, how).lost
              \/ (/\ SC!ObserveFires(r, how).lost = r.lost
                  /\ SC!ObserveFires(r, how).promise = r.promise)
<1>1. CASE r.fired \/ how = "resolved"
  <2> DEFINE e == [r EXCEPT !.fired = TRUE]
  <2>1. SC!ObserveFires(r, how) = e
    BY <1>1 DEF SC!ObserveFires
  <2>2. e \in Operation
    BY DEF Operation
  <2>3. e.kind = r.kind /\ e.pc = r.pc /\ e.promise = r.promise
    BY DEF Operation
  <2>4. e.attached = r.attached /\ e.close = r.close /\ e.lost = r.lost
    BY DEF Operation
  <2> HIDE DEF e
  <2>5. QED
    BY <2>1, <2>2, <2>3, <2>4
<1>2. CASE ~(r.fired \/ how = "resolved")
  <2> DEFINE e == [r EXCEPT !.fired = TRUE, !.promise = "rejected", !.lost = TRUE]
  <2>1. SC!ObserveFires(r, how) = e
    BY <1>2 DEF SC!ObserveFires
  <2>2. e \in Operation
    BY DEF Operation
  <2>3. e.kind = r.kind /\ e.pc = r.pc
    BY DEF Operation
  <2>4. e.attached = r.attached /\ e.close = r.close /\ e.lost = TRUE
    BY DEF Operation
  <2> HIDE DEF e
  <2>5. QED
    BY <2>1, <2>2, <2>3, <2>4
<1>3. QED
  BY <1>1, <1>2

LEMMA ObserveFiresOK ==
    ASSUME NEW r \in Operation, Owned(r), r.kind \in {"observe", "until"},
           r.pc \in {"returning", "done"}, NEW how \in {"resolved", "rejected"}
    PROVE  SC!ObserveFires(r, how) \in Operation /\ Owned(SC!ObserveFires(r, how))
<1> DEFINE e == SC!ObserveFires(r, how)
<1>1. /\ e \in Operation /\ e.kind = r.kind /\ e.pc = r.pc /\ e.attached = r.attached
      /\ e.close = r.close
      /\ e.lost \/ (e.lost = r.lost /\ e.promise = r.promise)
  BY ObserveFiresOf
<1> HIDE DEF e
<1>2. CASE e.lost
  <2>1. Owned(e)
    BY <1>1, <1>2 DEF Owned
  <2>2. QED
    BY <1>1, <2>1 DEF e
<1>3. CASE e.lost = r.lost /\ e.promise = r.promise
  <2>1. Owned(e)
    BY <1>1, <1>3 DEF Owned
  <2>2. QED
    BY <1>1, <2>1 DEF e
<1>4. QED
  BY <1>1, <1>2, <1>3

LEMMA UntilMetOK ==
    ASSUME NEW r \in Operation, Owned(r), r.kind = "until", r.pc \in {"returning", "done"}
    PROVE  SC!UntilMet(r) \in Operation /\ Owned(SC!UntilMet(r))
<1> DEFINE s == SC!Settle(r, "resolved")
<1>1. s \in Operation /\ s.kind = "until" /\ s.pc = r.pc /\ s.attached = r.attached
  BY SettleOf
<1> HIDE DEF s
<1>2. CASE r.close
  <2>1. SC!UntilMet(r) = SC!Detach(s)
    BY <1>2 DEF SC!UntilMet, s
  <2>2. /\ SC!Detach(s) \in Operation /\ ~SC!Detach(s).attached
        /\ SC!Detach(s).pc = r.pc /\ SC!Detach(s).kind = "until"
    BY <1>1, DetachOf
  <2>3. QED
    BY <2>1, <2>2 DEF Owned
<1>3. CASE ~r.close
  <2> DEFINE e == [s EXCEPT !.lost = TRUE]
  <2>1. SC!UntilMet(r) = e
    BY <1>3 DEF SC!UntilMet, s
  <2>2. e \in Operation
    BY <1>1 DEF Operation
  <2>3. e.lost = TRUE /\ e.pc = r.pc /\ e.kind = "until"
    BY <1>1 DEF Operation
  <2> HIDE DEF e
  <2>4. QED
    BY <2>1, <2>2, <2>3 DEF Owned
<1>4. QED
  BY <1>2, <1>3

LEMMA QueryFiresOK ==
    ASSUME NEW r \in Operation, Owned(r), r.kind = "query", r.pc = "done",
           NEW ignored \in BOOLEAN
    PROVE  /\ SC!QueryData(r) \in Operation /\ Owned(SC!QueryData(r))
           /\ SC!QueryError(r, ignored) \in Operation /\ Owned(SC!QueryError(r, ignored))
<1>1. SC!QueryData(r) \in Operation /\ Owned(SC!QueryData(r))
  <2> DEFINE s == SC!Settle(r, "resolved")
             e == [s EXCEPT !.fired = TRUE, !.close = TRUE]
  <2>1. s \in Operation /\ s.kind = "query" /\ s.pc = "done"
    BY SettleOf
  <2>2. SC!QueryData(r) = e
    BY DEF SC!QueryData
  <2> HIDE DEF s
  <2>3. e \in Operation
    BY <2>1 DEF Operation
  <2>4. e.close = TRUE /\ e.pc = "done" /\ e.kind = "query"
    BY <2>1 DEF Operation
  <2> HIDE DEF e
  <2>5. QED
    BY <2>2, <2>3, <2>4 DEF Owned
<1>2. SC!QueryError(r, ignored) \in Operation /\ Owned(SC!QueryError(r, ignored))
  <2>1. CASE ignored \/ r.fired
    BY <2>1 DEF SC!QueryError
  <2>2. CASE ~(ignored \/ r.fired)
    <3> DEFINE s == SC!Settle(r, "rejected")
               d == SC!Detach(s)
               e == [d EXCEPT !.fired = TRUE]
    <3>1. s \in Operation /\ s.kind = "query" /\ s.pc = "done"
      BY SettleOf
    <3>2. SC!QueryError(r, ignored) = e
      BY <2>2 DEF SC!QueryError
    <3> HIDE DEF s
    <3>3. d \in Operation /\ d.kind = "query" /\ d.pc = "done" /\ ~d.attached
      BY <3>1, DetachOf
    <3> HIDE DEF d
    <3>4. e \in Operation
      BY <3>3 DEF Operation
    <3>5. e.kind = "query" /\ e.pc = "done" /\ ~e.attached
      BY <3>3 DEF Operation
    <3> HIDE DEF e
    <3>6. QED
      BY <3>2, <3>4, <3>5 DEF Owned
  <2>3. QED
    BY <2>1, <2>2
<1>3. QED
  BY <1>1, <1>2

\* The listener of an operation is called.
LEMMA FiresOK ==
    ASSUME NEW r \in Operation, Owned(r), r.kind \in {"get", "observe", "until", "query"},
           r.pc \in {"returning", "done"}, r.kind = "query" => r.pc = "done",
           NEW how \in {"resolved", "rejected"}, NEW met \in BOOLEAN
    PROVE  SC!Fires(r, how, met) \in Operation /\ Owned(SC!Fires(r, how, met))
<1>1. CASE r.kind = "get"
  <2>1. SC!Fires(r, how, met) = SC!GetFires(r, how)
    BY <1>1 DEF SC!Fires
  <2>2. QED
    BY <1>1, <2>1, GetFiresOK
<1>2. CASE r.kind = "observe"
  <2>1. SC!Fires(r, how, met) = SC!ObserveFires(r, how)
    BY <1>2 DEF SC!Fires
  <2>2. QED
    BY <1>2, <2>1, ObserveFiresOK
<1>3. CASE r.kind = "until"
  <2>1. \/ SC!Fires(r, how, met) = SC!ObserveFires(r, how)
        \/ SC!Fires(r, how, met) = SC!UntilMet(SC!ObserveFires(r, how))
    BY <1>3 DEF SC!Fires
  <2>2. SC!ObserveFires(r, how) \in Operation /\ Owned(SC!ObserveFires(r, how))
    BY <1>3, ObserveFiresOK
  <2>3. SC!ObserveFires(r, how).kind = "until" /\ SC!ObserveFires(r, how).pc = r.pc
    BY <1>3, ObserveFiresOf
  <2>4. QED
    BY <2>1, <2>2, <2>3, UntilMetOK
<1>4. CASE r.kind = "query"
  <2>1. \/ SC!Fires(r, how, met) = SC!QueryData(r)
        \/ SC!Fires(r, how, met) = SC!QueryError(r, met)
    BY <1>4 DEF SC!Fires
  <2>2. QED
    BY <1>4, <2>1, QueryFiresOK
<1>5. QED
  BY <1>1, <1>2, <1>3, <1>4

\* A listener that is not attached is not attached by being called.
LEMMA FiresDetached ==
    ASSUME NEW r \in Operation, ~r.attached, r.kind \in {"get", "observe", "until"},
           NEW how \in {"resolved", "rejected"}
    PROVE  ~SC!Fires(r, how, FALSE).attached
<1>1. CASE r.kind = "get"
  <2> DEFINE s == SC!Settle(r, how)
             e == [s EXCEPT !.fired = TRUE]
  <2>1. s \in Operation /\ ~s.attached
    BY SettleOf
  <2>2. SC!Fires(r, how, FALSE) = IF r.pc = "done" THEN SC!Detach(s) ELSE e
    BY <1>1 DEF SC!Fires, SC!GetFires
  <2> HIDE DEF s
  <2>3. ~SC!Detach(s).attached
    BY <2>1, DetachOf
  <2>4. ~e.attached
    BY <2>1 DEF Operation
  <2> HIDE DEF e
  <2>5. QED
    BY <2>2, <2>3, <2>4
<1>2. CASE r.kind \in {"observe", "until"}
  <2>1. SC!Fires(r, how, FALSE) = SC!ObserveFires(r, how)
    BY <1>2 DEF SC!Fires
  <2>2. SC!ObserveFires(r, how).attached = r.attached
    BY ObserveFiresOf
  <2>3. QED
    BY <2>1, <2>2
<1>3. QED
  BY <1>1, <1>2

\* What an operation becomes when it is no longer heard of.
LEMMA SilentOwned ==
    ASSUME NEW r \in Operation, Owned(r), NEW e,
           \/ e = [r EXCEPT !.silent = TRUE]
           \/ ~r.attached /\ e = [r EXCEPT !.lost = FALSE, !.silent = TRUE]
    PROVE  e \in Operation /\ Owned(e)
<1>1. e \in Operation
  BY DEF Operation
<1>2. e.kind = r.kind /\ e.pc = r.pc /\ e.promise = r.promise
  BY DEF Operation
<1>3. e.attached = r.attached /\ e.fired = r.fired /\ e.close = r.close
  BY DEF Operation
<1>4. e.lost = r.lost \/ (~r.attached /\ e.lost = FALSE)
  BY DEF Operation
<1>5. Owned(e)
  BY <1>2, <1>3, <1>4 DEF Owned
<1>6. QED
  BY <1>1, <1>5

\* An operation that is begun, authorized, found or answered.
LEMMA OperationKept ==
    ASSUME CallerInv, NEW o \in Ops, NEW e, e \in Operation, Owned(e), SC!Set(o, e)
    PROVE  CallerInv'
BY DEF CallerInv, SC!Set

LEMMA StartOK ==
    ASSUME CallerInv, NEW o \in Ops, NEW k \in SC!Kinds, SC!Start(o, k)
    PROVE  CallerInv'
<1> DEFINE e == [SC!Unused EXCEPT !.kind = k, !.pc = "authorizing"]
<1>1. e \in Operation
  BY DEF SC!Unused, Operation
<1>2. /\ e.kind = k /\ e.pc = "authorizing" /\ e.promise = "pending"
      /\ e.attached = FALSE /\ e.fired = FALSE /\ e.lost = FALSE
  BY DEF SC!Unused
<1>3. SC!Set(o, e)
  BY DEF SC!Start
<1> HIDE DEF e
<1>4. Owned(e)
  BY <1>2 DEF Owned
<1>5. QED
  BY <1>1, <1>3, <1>4, OperationKept

LEMMA AuthorizedOK ==
    ASSUME CallerInv, NEW o \in Ops, NEW ok \in BOOLEAN, SC!Authorized(o, ok)
    PROVE  CallerInv'
<1> DEFINE r == op[o]
<1>1. /\ r \in Operation /\ Owned(r) /\ r.pc = "authorizing" /\ ~r.attached
      /\ r.promise = "pending" /\ ~r.fired /\ ~r.lost
  BY DEF CallerInv, SC!Authorized, Owned
<1>2. PICK e : /\ SC!Set(o, e)
               /\ \/ e = [r EXCEPT !.promise = "rejected", !.pc = "done", !.silent = TRUE]
                  \/ r.kind = "query" /\ e = [r EXCEPT !.attached = TRUE, !.pc = "done"]
                  \/ r.kind # "query" /\ e = [r EXCEPT !.pc = "looking"]
  BY DEF SC!Authorized
<1> HIDE DEF r
<1>3. CASE e = [r EXCEPT !.promise = "rejected", !.pc = "done", !.silent = TRUE]
  <2>1. e \in Operation
    BY <1>1, <1>3 DEF Operation
  <2>2. e.pc = "done" /\ ~e.attached
    BY <1>1, <1>3 DEF Operation
  <2>3. Owned(e)
    BY <2>2 DEF Owned
  <2>4. QED
    BY <1>2, <2>1, <2>3, OperationKept
<1>4. CASE r.kind = "query" /\ e = [r EXCEPT !.attached = TRUE, !.pc = "done"]
  <2>1. e \in Operation
    BY <1>1, <1>4 DEF Operation
  <2>2. e.pc = "done" /\ e.kind = "query" /\ e.promise = "pending"
    BY <1>1, <1>4 DEF Operation
  <2>3. Owned(e)
    BY <2>2 DEF Owned
  <2>4. QED
    BY <1>2, <2>1, <2>3, OperationKept
<1>5. CASE r.kind # "query" /\ e = [r EXCEPT !.pc = "looking"]
  <2>1. e \in Operation
    BY <1>1, <1>5 DEF Operation
  <2>2. e.pc = "looking" /\ e.kind = r.kind /\ e.promise = "pending"
    BY <1>1, <1>5 DEF Operation
  <2>3. ~e.attached /\ ~e.fired /\ ~e.lost
    BY <1>1, <1>5 DEF Operation
  <2>4. Owned(e)
    BY <2>2, <2>3 DEF Owned
  <2>5. QED
    BY <1>2, <2>1, <2>4, OperationKept
<1>6. QED
  BY <1>2, <1>3, <1>4, <1>5

LEMMA FoundOK ==
    ASSUME CallerInv, NEW o \in Ops, NEW first \in BOOLEAN, NEW met \in BOOLEAN,
           SC!Found(o, first, met)
    PROVE  CallerInv'
<1> DEFINE r == op[o]
           a == [r EXCEPT !.pc = "returning", !.attached = TRUE]
<1>1. /\ r \in Operation /\ r.kind \in {"get", "observe", "until"}
      /\ r.promise = "pending" /\ ~r.fired /\ ~r.lost
  BY DEF CallerInv, SC!Found, Owned
<1>2. SC!Set(o, SC!Fires(a, "resolved", met)) \/ SC!Set(o, a)
  BY DEF SC!Found
<1> HIDE DEF r
<1>3. a \in Operation
  BY <1>1 DEF Operation
<1>4. a.pc = "returning" /\ a.kind = r.kind /\ a.promise = "pending"
  BY <1>1 DEF Operation
<1> HIDE DEF a
<1>5. Owned(a)
  BY <1>1, <1>4 DEF Owned
<1>6. SC!Fires(a, "resolved", met) \in Operation /\ Owned(SC!Fires(a, "resolved", met))
  BY <1>1, <1>3, <1>4, <1>5, FiresOK
<1>7. QED
  BY <1>2, <1>3, <1>5, <1>6, OperationKept

LEMMA NotFoundOK ==
    ASSUME CallerInv, NEW o \in Ops, SC!NotFound(o)
    PROVE  CallerInv'
<1> DEFINE r == op[o]
           a == [r EXCEPT !.pc = "returning"]
           f == SC!Fires(a, "rejected", FALSE)
           e == [f EXCEPT !.lost = FALSE, !.silent = TRUE]
<1>1. /\ r \in Operation /\ r.kind \in {"get", "observe", "until"} /\ ~r.attached
      /\ r.promise = "pending" /\ ~r.fired /\ ~r.lost
  BY DEF CallerInv, SC!NotFound, Owned
<1>2. SC!Set(o, e)
  BY DEF SC!NotFound
<1> HIDE DEF r
<1>3. a \in Operation
  BY <1>1 DEF Operation
<1>4. a.pc = "returning" /\ a.kind = r.kind /\ a.promise = "pending" /\ ~a.attached
  BY <1>1 DEF Operation
<1> HIDE DEF a
<1>5. Owned(a)
  BY <1>1, <1>4 DEF Owned
<1>6. f \in Operation /\ Owned(f)
  BY <1>1, <1>3, <1>4, <1>5, FiresOK
<1>7. ~f.attached
  BY <1>1, <1>3, <1>4, FiresDetached
<1> HIDE DEF f
<1>8. e \in Operation /\ Owned(e)
  BY <1>6, <1>7, SilentOwned
<1>9. QED
  BY <1>2, <1>8, OperationKept

\* A listener that is attached is one that may be called.
LEMMA AttachedFires ==
    ASSUME NEW r \in Operation, Owned(r), r.attached
    PROVE  /\ r.kind \in {"get", "observe", "until", "query"} /\ r.pc \in {"returning", "done"}
           /\ r.kind = "query" => r.pc = "done"
BY DEF Operation, Owned

LEMMA DataOK ==
    ASSUME CallerInv, NEW o \in Ops, NEW met \in BOOLEAN,
           SC!Data(o, met) \/ SC!QueryFails(o, met)
    PROVE  CallerInv'
<1> DEFINE r == op[o]
<1>1. r \in Operation /\ Owned(r) /\ r.attached
  BY DEF CallerInv, SC!Data, SC!QueryFails
<1>2. SC!Set(o, SC!Fires(r, "resolved", met)) \/ SC!Set(o, SC!Fires(r, "rejected", met))
  BY DEF SC!Data, SC!QueryFails
<1> HIDE DEF r
<1>3. /\ SC!Fires(r, "resolved", met) \in Operation /\ Owned(SC!Fires(r, "resolved", met))
      /\ SC!Fires(r, "rejected", met) \in Operation /\ Owned(SC!Fires(r, "rejected", met))
  BY <1>1, AttachedFires, FiresOK
<1>4. QED
  BY <1>2, <1>3, OperationKept

LEMMA FunctionFailsOK ==
    ASSUME CallerInv, NEW o \in Ops, SC!FunctionFails(o)
    PROVE  CallerInv'
<1> DEFINE r == op[o]
           f == SC!Fires(r, "rejected", FALSE)
           e == [f EXCEPT !.silent = TRUE]
<1>1. /\ r \in Operation /\ Owned(r) /\ r.kind \in {"get", "observe", "until"}
      /\ r.pc \in {"returning", "done"}
  BY DEF CallerInv, SC!FunctionFails
<1>2. SC!Set(o, e)
  BY DEF SC!FunctionFails
<1> HIDE DEF r
<1>3. f \in Operation /\ Owned(f)
  BY <1>1, FiresOK
<1> HIDE DEF f
<1>4. e \in Operation /\ Owned(e)
  BY <1>3, SilentOwned
<1>5. QED
  BY <1>2, <1>4, OperationKept

LEMMA CloseOK ==
    ASSUME CallerInv, NEW o \in Ops, SC!Close(o)
    PROVE  CallerInv'
<1> DEFINE r == op[o]
           e == SC!Detach(r)
<1>1. /\ r \in Operation /\ Owned(r) /\ r.attached /\ r.kind \in {"observe", "query"}
      /\ SC!Set(o, e)
  BY DEF CallerInv, SC!Close
<1> HIDE DEF r
<1>2. e \in Operation /\ ~e.attached /\ e.kind = r.kind /\ e.pc = r.pc
  BY <1>1, DetachOf
<1>3. r.pc \in {"returning", "done"} /\ (r.kind = "query" => r.pc = "done")
  BY <1>1, AttachedFires
<1> HIDE DEF e
<1>4. Owned(e)
  BY <1>1, <1>2, <1>3 DEF Owned
<1>5. QED
  BY <1>1, <1>2, <1>4, OperationKept

\* The answer to a call() or a request to the database.
LEMMA AnswerOK ==
    ASSUME CallerInv, NEW o \in Ops, NEW how \in {"resolved", "rejected"},
           SC!CallReturns(o, how) \/ SC!RequestReturns(o, how)
    PROVE  CallerInv'
<1> DEFINE r == op[o]
           s == SC!Settle(r, how)
           e == [s EXCEPT !.pc = "done"]
<1>1. /\ r \in Operation /\ Owned(r) /\ r.pc = "looking" /\ ~r.attached
      /\ SC!Set(o, e)
  BY DEF CallerInv, SC!CallReturns, SC!RequestReturns, Owned
<1> HIDE DEF r
<1>2. s \in Operation /\ ~s.attached
  BY <1>1, SettleOf
<1> HIDE DEF s
<1>3. e \in Operation
  BY <1>2 DEF Operation
<1>4. ~e.attached /\ e.pc = "done"
  BY <1>2 DEF Operation
<1> HIDE DEF e
<1>5. Owned(e)
  BY <1>4 DEF Owned
<1>6. QED
  BY <1>1, <1>3, <1>5, OperationKept

\* subscribeFunction() returns: a get() that was answered detaches, whoever
\* else has a listener gets close() unless it was lost.
LEMMA ReturnedOK ==
    ASSUME CallerInv, NEW o \in Ops, SC!Returned(o)
    PROVE  CallerInv'
<1> DEFINE r == op[o]
           s == SC!Settle(r, "resolved")
<1>1. r \in Operation /\ Owned(r) /\ r.pc = "returning"
  BY DEF CallerInv, SC!Returned
<1>2. PICK e : /\ SC!Set(o, e)
               /\ \/ r.kind = "get" /\ e = [r EXCEPT !.pc = "done", !.attached = @ /\ ~r.fired]
                  \/ /\ r.kind = "observe"
                     /\ e = [s EXCEPT !.pc = "done", !.close = r.promise = "pending"]
                  \/ r.kind \notin {"get", "observe"} /\ e = [r EXCEPT !.pc = "done", !.close = ~r.lost]
  BY DEF SC!Returned
<1>3. s \in Operation /\ s.kind = r.kind /\ s.attached = r.attached /\ s.lost = r.lost
  BY <1>1, SettleOf
<1> HIDE DEF r, s
<1>4. CASE r.kind = "get" /\ e = [r EXCEPT !.pc = "done", !.attached = @ /\ ~r.fired]
  <2> DEFINE b == r.attached /\ ~r.fired
  <2>1. b \in BOOLEAN
    OBVIOUS
  <2>2. e = [r EXCEPT !.pc = "done", !.attached = b]
    BY <1>4
  <2> HIDE DEF b
  <2>3. e \in Operation
    BY <1>1, <2>1, <2>2 DEF Operation
  <2>4. e.kind = "get" /\ e.pc = "done" /\ e.promise = r.promise
    BY <1>1, <1>4, <2>2 DEF Operation
  <2>5. e.attached = b /\ e.fired = r.fired
    BY <1>1, <2>2 DEF Operation
  <2>6. e.attached => ~r.fired
    BY <2>5 DEF b
  <2>7. e.attached => e.promise = "pending"
    BY <1>1, <1>4, <2>4, <2>6 DEF Owned
  <2>8. Owned(e)
    BY <2>4, <2>7 DEF Owned
  <2>9. QED
    BY <1>2, <2>3, <2>8, OperationKept
<1>5. CASE r.kind = "observe" /\ e = [s EXCEPT !.pc = "done", !.close = r.promise = "pending"]
  <2> DEFINE b == r.promise = "pending"
  <2>1. b \in BOOLEAN
    OBVIOUS
  <2>2. e = [s EXCEPT !.pc = "done", !.close = b]
    BY <1>5
  <2> HIDE DEF b
  <2>3. e \in Operation
    BY <1>3, <2>1, <2>2 DEF Operation
  <2>4. e.kind = "observe" /\ e.pc = "done"
    BY <1>3, <1>5, <2>2 DEF Operation
  <2>5. e.attached = r.attached /\ e.lost = r.lost /\ e.close = b
    BY <1>3, <2>2 DEF Operation
  <2>6. r.attached /\ ~r.lost => r.promise = "pending"
    BY <1>1, <1>5 DEF Owned
  <2>7. e.attached /\ ~e.lost => e.close
    BY <2>5, <2>6 DEF b
  <2>8. Owned(e)
    BY <2>4, <2>7 DEF Owned
  <2>9. QED
    BY <1>2, <2>3, <2>8, OperationKept
<1>6. CASE r.kind \notin {"get", "observe"} /\ e = [r EXCEPT !.pc = "done", !.close = ~r.lost]
  <2>1. e \in Operation
    BY <1>1, <1>6 DEF Operation
  <2>2. e.kind = r.kind /\ e.pc = "done"
    BY <1>1, <1>6 DEF Operation
  <2>3. e.attached = r.attached /\ e.lost = r.lost /\ e.close = ~r.lost
    BY <1>1, <1>6 DEF Operation
  <2>4. e.attached => e.kind \in {"get", "observe", "until", "query"}
    BY <1>1, <2>2, <2>3 DEF Owned
  <2>5. Owned(e)
    BY <2>2, <2>3, <2>4 DEF Owned
  <2>6. QED
    BY <1>2, <2>1, <2>5, OperationKept
<1>7. QED
  BY <1>2, <1>4, <1>5, <1>6

\* Whoever still listens has somebody who will detach it, but for the two
\* ways in which BasedServerClient loses a listener: at every order of the
\* awaits, first calls, answers, failures and closes.
THEOREM ListenersStayOwned == Spec => []ListenersOwned
<1>1. SC!Init => CallerInv
  <2>1. SC!Unused \in Operation /\ Owned(SC!Unused)
    BY DEF SC!Unused, Operation, Owned
  <2>2. QED
    BY <2>1 DEF SC!Init, CallerInv
<1>2. CallerInv /\ [SC!Next]_op => CallerInv'
  <2>1. CallerInv /\ op' = op => CallerInv'
    BY DEF CallerInv
  <2>2. CallerInv /\ SC!Next => CallerInv'
    BY StartOK, AuthorizedOK, FoundOK, NotFoundOK, DataOK, FunctionFailsOK, CloseOK,
       AnswerOK, ReturnedOK
       DEF SC!Next, SC!Outcomes
  <2>3. QED
    BY <2>1, <2>2
<1>3. CallerInv => ListenersOwned
  BY DEF ListenersOwned, CallerInv, Owned, SC!ListenersOwned
<1>4. QED
  BY <1>1, <1>2, <1>3, CallerPart, PTL DEF Spec
-----------------------------------------------------------------------------
(***************************************************************************)
(* Files in a form.                                                        *)
(***************************************************************************)
FormFile == [headers : Nat, streaming : BOOLEAN, closed : BOOLEAN]

\* The boundary of the end was recognized.
Ended == formSent /\ ~cut

\* A file is closed once it is stored and a boundary was recognized after it,
\* and written until then; the response is ended by an invalid file or with
\* the body.
FormInv ==
    /\ files \in Seq(FormFile) /\ Len(files) >= 1
    /\ formLines \in Nat
    /\ \A f \in 1..Len(files) :
           files[f].closed <=> files[f].streaming /\ (f < Len(files) \/ Ended)
    /\ isWriting = "yes" <=> files[Len(files)].streaming /\ ~Ended
    /\ formFault \/ formEnds = 0 \/ (formEnds = 1 /\ ~(formLines < MaxLines))

\* The boundary closes the file that is being written.
LEMMA ClosedOf ==
    ASSUME FormInv, ~Ended
    PROVE  /\ FU!Closed \in Seq(FormFile) /\ Len(FU!Closed) = Len(files)
           /\ \A f \in 1..Len(files) : FU!Closed[f].closed <=> FU!Closed[f].streaming
<1> DEFINE n == Len(files)
<1>1. n \in Nat /\ n >= 1 /\ files[n] \in FormFile /\ files \in Seq(FormFile)
  BY DEF FormInv
<1>2. \A f \in 1..n : f # n => (files[f].closed <=> files[f].streaming)
  BY <1>1 DEF FormInv
<1>3. CASE isWriting = "yes"
  <2> DEFINE e == [files[n] EXCEPT !.closed = TRUE]
             new == [files EXCEPT ![n] = e]
  <2>1. FU!Closed = new
    BY <1>3 DEF FU!Closed, FU!Last
  <2>2. files[n].streaming
    BY <1>3 DEF FormInv
  <2>3. e \in FormFile /\ e.closed /\ e.streaming
    BY <1>1, <2>2 DEF FormFile
  <2> HIDE DEF e
  <2>4. new \in Seq(FormFile) /\ Len(new) = n
    BY <1>1, <2>3
  <2>5. \A f \in 1..n : new[f] = IF f = n THEN e ELSE files[f]
    BY <1>1
  <2> HIDE DEF n, new
  <2>6. \A f \in 1..n : new[f].closed <=> new[f].streaming
    BY <1>2, <2>3, <2>5
  <2>7. QED
    BY <2>1, <2>4, <2>6 DEF n
<1>4. CASE isWriting # "yes"
  <2>1. ~files[n].streaming /\ ~files[n].closed
    BY <1>1, <1>4 DEF FormInv
  <2>2. FU!Closed = files
    BY <1>4 DEF FU!Closed
  <2>3. QED
    BY <1>1, <1>2, <2>1, <2>2
<1>5. QED
  BY <1>3, <1>4

LEMMA BoundaryOK ==
    ASSUME FormInv, NEW isLast \in BOOLEAN, FU!Boundary(isLast)
    PROVE  FormInv'
<1> DEFINE c == FU!Closed
           n == Len(files)
           a == Append(c, FU!NewFile)
<1>1. ~formSent /\ ~Ended
  BY DEF FU!Boundary, Ended
<1>2. /\ c \in Seq(FormFile) /\ Len(c) = n /\ n \in Nat /\ n >= 1
      /\ \A f \in 1..n : c[f].closed <=> c[f].streaming
  BY <1>1, ClosedOf DEF FormInv
<1>3. /\ files' = IF isLast THEN c ELSE a
      /\ formLines' = formLines + 1 /\ formLines < MaxLines
      /\ formEnds' = formEnds /\ formFault' = formFault
      /\ formSent' = isLast /\ cut' = FALSE /\ isWriting' # "yes"
  BY DEF FU!Boundary, FU!Reads
<1>4. formLines' \in Nat /\ (formFault' \/ formEnds' = 0)
  BY <1>3 DEF FormInv
<1>5. Ended' <=> isLast
  BY <1>3 DEF Ended
<1> HIDE DEF c
<1>6. FU!NewFile \in FormFile /\ ~FU!NewFile.streaming /\ ~FU!NewFile.closed
  BY DEF FU!NewFile, FormFile
<1>7. /\ a \in Seq(FormFile) /\ Len(a) = n + 1
      /\ \A f \in 1..(n + 1) : a[f] = IF f = n + 1 THEN FU!NewFile ELSE c[f]
  BY <1>2, <1>6
<1> HIDE DEF a, n
<1>8. CASE isLast
  <2>1. files' = c /\ Len(files') = n
    BY <1>2, <1>3, <1>8
  <2>2. \A f \in 1..n : files'[f].closed <=> files'[f].streaming /\ (f < n \/ Ended')
    BY <1>2, <1>5, <1>8, <2>1
  <2>3. QED
    BY <1>2, <1>3, <1>4, <1>5, <1>8, <2>1, <2>2 DEF FormInv
<1>9. CASE ~isLast
  <2>1. files' = a /\ Len(files') = n + 1
    BY <1>3, <1>7, <1>9
  <2>2. ASSUME NEW f \in 1..(n + 1)
        PROVE  files'[f].closed <=> files'[f].streaming /\ (f < n + 1 \/ Ended')
    <3>1. CASE f = n + 1
      <4>1. ~files'[f].closed /\ ~files'[f].streaming
        BY <1>6, <1>7, <2>1, <3>1
      <4>2. QED
        BY <4>1
    <3>2. CASE f # n + 1
      <4>1. f \in 1..n /\ f < n + 1 /\ files'[f] = c[f]
        BY <1>2, <1>7, <2>1, <3>2
      <4>2. c[f].closed <=> c[f].streaming
        BY <1>2, <4>1
      <4>3. QED
        BY <4>1, <4>2
    <3>3. QED
      BY <3>1, <3>2
  <2>3. ~files'[n + 1].streaming
    BY <1>2, <1>6, <1>7, <2>1
  <2>4. files' \in Seq(FormFile) /\ Len(files') >= 1
    BY <1>2, <1>7, <2>1
  <2>5. \A f \in 1..Len(files') :
            files'[f].closed <=> files'[f].streaming /\ (f < Len(files') \/ Ended')
    BY <2>1, <2>2
  <2>6. isWriting' = "yes" <=> files'[Len(files')].streaming /\ ~Ended'
    BY <1>3, <2>1, <2>3
  <2>7. QED
    BY <1>4, <2>4, <2>5, <2>6 DEF FormInv
<1>10. QED
  BY <1>8, <1>9

LEMMA CutBoundaryOK ==
    ASSUME FormInv, NEW isLast \in BOOLEAN, FU!CutBoundary(isLast)
    PROVE  FormInv'
<1>1. ~Ended /\ ~Ended'
  BY DEF FU!CutBoundary, Ended
<1>2. /\ files' = files /\ isWriting' = isWriting /\ formFault' = formFault
      /\ formEnds' = formEnds /\ formLines' \in Nat /\ formLines < MaxLines
  BY DEF FU!CutBoundary, FU!Reads, FormInv
<1>3. QED
  BY <1>1, <1>2 DEF FormInv

LEMMA HeaderOK ==
    ASSUME FormInv, NEW readable \in BOOLEAN, NEW complete \in BOOLEAN,
           FU!Header(readable, complete)
    PROVE  FormInv'
<1> DEFINE n == Len(files)
           h == files[n].headers + 1
           b == files[n].streaming \/ h = 2
<1>1. files \in Seq(FormFile) /\ n \in Nat /\ n >= 1 /\ files[n] \in FormFile
  BY DEF FormInv
<1>2. h \in Nat /\ b \in BOOLEAN
  <2>1. h \in Nat
    BY <1>1 DEF FormFile
  <2>2. QED
    BY <2>1
<1>3. ~Ended /\ ~Ended' /\ isWriting # "yes"
  BY DEF FU!Header, Ended
<1>4. /\ \A f \in 1..n : files[f].closed <=> files[f].streaming /\ f < n
      /\ ~files[n].streaming /\ ~files[n].closed
      /\ formLines' \in Nat
      /\ formFault \/ formEnds = 0
  BY <1>1, <1>3 DEF FormInv, FU!Header, FU!Reads
<1>5. CASE ~readable
  BY <1>1, <1>3, <1>4, <1>5 DEF FU!Header, FU!InvalidFile, FormInv
<1>6. CASE readable
  <2>1. PICK e :
          /\ files' = [files EXCEPT ![n] = e]
          /\ \/ /\ e = [files[n] EXCEPT !.headers = h] /\ formFault' = TRUE
                /\ isWriting' = "null"
             \/ /\ e = [files[n] EXCEPT !.headers = h, !.streaming = b]
                /\ isWriting' = IF h = 2 THEN "yes" ELSE "no"
                /\ formFault' = formFault /\ formEnds' = formEnds
    <3>1. CASE h = 2 /\ ~complete
      <4>1. /\ files' = [files EXCEPT ![n] = [files[n] EXCEPT !.headers = h]]
            /\ formFault' = TRUE /\ isWriting' = "null"
        BY <1>1, <1>6, <3>1 DEF FU!Header, FU!Last, FU!InvalidFile
      <4>2. QED
        BY <4>1
    <3>2. CASE ~(h = 2 /\ ~complete)
      <4> DEFINE x == [files EXCEPT ![n].headers = h, ![n].streaming = @ \/ h = 2]
                 e == [files[n] EXCEPT !.headers = h, !.streaming = b]
      <4>1. /\ files' = x /\ isWriting' = IF h = 2 THEN "yes" ELSE "no"
            /\ formFault' = formFault /\ formEnds' = formEnds
        BY <1>6, <3>2 DEF FU!Header, FU!Last
      <4>2. x = [files EXCEPT ![n] = e]
        BY <1>1
      <4>3. QED
        BY <4>1, <4>2
    <3>3. QED
      BY <3>1, <3>2
  <2>2. e \in FormFile /\ e.closed = files[n].closed
    BY <1>1, <1>2, <2>1 DEF FormFile
  <2>3. e.streaming <=> isWriting' = "yes"
    <3>1. CASE e = [files[n] EXCEPT !.headers = h] /\ isWriting' = "null"
      <4>1. e.streaming = files[n].streaming
        BY <1>1, <3>1 DEF FormFile
      <4>2. QED
        BY <1>4, <3>1, <4>1
    <3>2. CASE /\ e = [files[n] EXCEPT !.headers = h, !.streaming = b]
               /\ isWriting' = IF h = 2 THEN "yes" ELSE "no"
      <4>1. e.streaming = b
        BY <1>1, <1>2, <3>2 DEF FormFile
      <4>2. CASE h = 2
        BY <3>2, <4>1, <4>2
      <4>3. CASE h # 2
        BY <1>4, <3>2, <4>1, <4>3
      <4>4. QED
        BY <4>2, <4>3
    <3>3. QED
      BY <2>1, <3>1, <3>2
  <2> HIDE DEF n, h, b
  <2>5. /\ files' \in Seq(FormFile) /\ Len(files') = n
        /\ \A f \in 1..n : files'[f] = IF f = n THEN e ELSE files[f]
    BY <1>1, <2>1, <2>2 DEF n
  <2>6. \A f \in 1..n : files'[f].closed <=> files'[f].streaming /\ (f < n \/ Ended')
    BY <1>3, <1>4, <2>2, <2>5
  <2>7. isWriting' = "yes" <=> files'[n].streaming /\ ~Ended'
    BY <1>1, <1>3, <2>3, <2>5
  <2>8. formFault' \/ formEnds' = 0
    BY <1>4, <2>1
  <2>9. QED
    BY <1>1, <1>4, <2>5, <2>6, <2>7, <2>8 DEF FormInv
<1>7. QED
  BY <1>5, <1>6

LEMMA FormRestOK ==
    ASSUME FormInv,
           FU!Contents \/ \E isLast \in BOOLEAN : FU!ChunkEnds(isLast)
    PROVE  FormInv'
<1>1. /\ files' = files /\ isWriting' = isWriting /\ formFault' = formFault
      /\ formSent' = formSent /\ cut' = cut
  BY DEF FU!Contents, FU!ChunkEnds
<1>2. /\ formFault \/ formEnds = 0
      /\ formLines' \in Nat
      /\ formEnds' = formEnds \/ (formEnds' = formEnds + 1 /\ formLines' = MaxLines)
  BY BoundsAreNumbers DEF FU!Contents, FU!ChunkEnds, FU!Reads, FormInv
<1>3. ~(MaxLines < MaxLines)
  BY BoundsAreNumbers
<1>4. Ended' <=> Ended
  BY <1>1 DEF Ended
<1>5. QED
  BY <1>1, <1>2, <1>3, <1>4 DEF FormInv

\* The stream of a file of a form is ended by the next boundary that is
\* recognized; that of the last file stays open exactly when the boundary of
\* the end did not come whole in one chunk; and the response is ended once
\* unless a file was invalid: for every order of boundaries, headers, contents
\* and ends of chunks (formStream).
THEOREM FormFilesEnd == Spec => []FilesEnd
<1>1. FU!Init => FormInv
  <2>1. FU!NewFile \in FormFile /\ FU!NewFile.streaming = FALSE
    BY DEF FU!NewFile, FormFile
  <2>2. QED
    BY <2>1 DEF FU!Init, FU!NewFile, FormInv, Ended
<1>2. FormInv /\ [FU!Next]_(FU!vars) => FormInv'
  <2>1. FormInv /\ UNCHANGED FU!vars => FormInv'
    BY DEF FU!vars, FormInv, Ended
  <2>2. FormInv /\ FU!Next => FormInv'
    BY BoundaryOK, CutBoundaryOK, HeaderOK, FormRestOK DEF FU!Next
  <2>3. QED
    BY <2>1, <2>2
<1>3. FormInv => FilesEnd
  BY DEF FilesEnd, FormInv, Ended, FU!FilesEnd, FU!Last
<1>4. QED
  BY <1>1, <1>2, <1>3, FormPart, PTL DEF Spec
-----------------------------------------------------------------------------
(***************************************************************************)
(* The contents of a file.                                                 *)
(***************************************************************************)
UploadState == [pc : {"idle", "setting", "url", "waiting", "sent", "streaming", "done"},
                kind : {"contents", "src", "path", "invalid"},
                promise : {"pending", "resolved", "rejected"},
                large : BOOLEAN, received : Nat, broken : BOOLEAN, timer : BOOLEAN,
                progress : Nat, stored : {"no", "storing", "yes", "failed"}]

\* Nothing was received and no progress is due before the server has the
\* stream; then the progress is that of what was received, or is due.
Noted(r) ==
    /\ r.pc \notin {"streaming", "done"} => r.received = 0 /\ r.progress = 0 /\ ~r.timer
    /\ r.large /\ ~r.timer => r.progress = r.received
    /\ r.received = Size /\ ~r.timer => r.progress = Size

UploadInv ==
    /\ upload \in [Uploads -> UploadState] /\ urlAsk \in {"none", "asking", "failed"}
    /\ \A u \in Uploads : Noted(upload[u]) /\ (upload[u].pc = "waiting" => urlAsk = "asking")
    /\ urlAsk = "asking" => \E u \in Uploads : upload[u].pc = "waiting"

\* A step of one upload that leaves the url alone.
LEMMA UploadKept ==
    ASSUME UploadInv, NEW u \in Uploads, NEW e, e \in UploadState, Noted(e), UP!Set(u, e),
           urlAsk' = urlAsk, e.pc = "waiting" <=> upload[u].pc = "waiting"
    PROVE  UploadInv'
<1>1. /\ upload' \in [Uploads -> UploadState]
      /\ \A v \in Uploads : upload'[v] = IF v = u THEN e ELSE upload[v]
  BY DEF UP!Set, UploadInv
<1>2. \A v \in Uploads : Noted(upload'[v]) /\ (upload'[v].pc = "waiting" <=> upload[v].pc = "waiting")
  BY <1>1 DEF UploadInv
<1>3. QED
  BY <1>1, <1>2 DEF UploadInv

\* An upload moves on, or is given up, before it streams: what it noted stays.
LEMMA MovesOn ==
    ASSUME NEW r \in UploadState, Noted(r), r.pc \notin {"streaming", "done"}, NEW e,
           \E pc \in {"setting", "url", "waiting", "sent", "done"},
              how \in {"pending", "resolved", "rejected"} :
                 e = [r EXCEPT !.pc = pc, !.promise = how]
    PROVE  e \in UploadState /\ Noted(e)
<1>1. PICK pc \in {"setting", "url", "waiting", "sent", "done"},
           how \in {"pending", "resolved", "rejected"} :
              e = [r EXCEPT !.pc = pc, !.promise = how]
  OBVIOUS
<1>2. e \in UploadState
  BY <1>1 DEF UploadState
<1>3. e.received = r.received /\ e.progress = r.progress /\ e.timer = r.timer /\ e.large = r.large
  BY <1>1 DEF UploadState
<1>4. r.received = 0 /\ r.progress = 0 /\ ~r.timer /\ (r.received = Size => r.progress = Size)
  BY DEF Noted
<1>5. Noted(e)
  BY <1>3, <1>4 DEF Noted
<1>6. QED
  BY <1>2, <1>5

\* Both ends of getUrl() are moves.
LEMMA SendsMoves ==
    ASSUME NEW r \in UploadState, NEW exists \in BOOLEAN
    PROVE  \E pc \in {"sent", "done"}, how \in {"resolved", "rejected"} :
              UP!Sends(r, exists) = [r EXCEPT !.pc = pc, !.promise = how]
<1>1. CASE r.kind = "invalid"
  BY <1>1 DEF UP!Sends
<1>2. CASE r.kind # "invalid"
  <2>1. PICK pc \in {"sent", "done"} : pc = IF r.kind = "path" /\ ~exists THEN "done" ELSE "sent"
    OBVIOUS
  <2>2. UP!Sends(r, exists) = [r EXCEPT !.promise = "resolved", !.pc = pc]
    BY <1>2, <2>1 DEF UP!Sends
  <2>3. [r EXCEPT !.promise = "resolved", !.pc = pc] = [r EXCEPT !.pc = pc, !.promise = "resolved"]
    BY DEF UploadState
  <2>4. QED
    BY <2>2, <2>3
<1>3. QED
  BY <1>1, <1>2

LEMMA FileOK ==
    ASSUME UploadInv, NEW u \in Uploads,
           NEW k \in {"contents", "src", "path", "invalid"}, NEW hasId \in BOOLEAN,
           UP!File(u, k, hasId)
    PROVE  UploadInv'
<1>1. PICK pc \in {"setting", "url"} : UP!Set(u, [UP!Fresh EXCEPT !.kind = k, !.pc = pc])
  BY DEF UP!File
<1> DEFINE e == [UP!Fresh EXCEPT !.kind = k, !.pc = pc]
<1>2. e \in UploadState
  BY DEF UP!Fresh, UploadState
<1>3. /\ e.received = 0 /\ e.progress = 0 /\ ~e.timer /\ e.pc # "waiting" /\ e.large = FALSE
      /\ e.pc \notin {"streaming", "done"}
  BY DEF UP!Fresh
<1> HIDE DEF e
<1>4. Noted(e)
  BY <1>3 DEF Noted
<1>5. upload[u].pc = "idle" /\ urlAsk' = urlAsk /\ UP!Set(u, e)
  BY <1>1 DEF UP!File, UP!url, e
<1>6. QED
  BY <1>2, <1>3, <1>4, <1>5, UploadKept

LEMMA SetAnsweredOK ==
    ASSUME UploadInv, NEW u \in Uploads, NEW ok \in BOOLEAN, UP!SetAnswered(u, ok)
    PROVE  UploadInv'
<1> DEFINE r == upload[u]
<1>1. r \in UploadState /\ Noted(r) /\ r.pc = "setting" /\ urlAsk' = urlAsk
  BY DEF UP!SetAnswered, UP!url, UploadInv
<1>2. PICK e : /\ UP!Set(u, e)
               /\ \/ e = [r EXCEPT !.pc = "done", !.promise = "rejected"]
                  \/ e = [r EXCEPT !.pc = "done", !.promise = "resolved"]
                  \/ e = [r EXCEPT !.pc = "url"]
  BY DEF UP!SetAnswered
<1> HIDE DEF r
<1>3. [r EXCEPT !.pc = "url"] = [r EXCEPT !.pc = "url", !.promise = r.promise]
  BY <1>1 DEF UploadState
<1>4. r.promise \in {"pending", "resolved", "rejected"}
  BY <1>1 DEF UploadState
<1>5. \E pc \in {"setting", "url", "waiting", "sent", "done"},
         how \in {"pending", "resolved", "rejected"} :
            e = [r EXCEPT !.pc = pc, !.promise = how]
  BY <1>2, <1>3, <1>4
<1>6. e \in UploadState /\ Noted(e)
  BY <1>1, <1>5, MovesOn
<1>7. e.pc # "waiting"
  BY <1>1, <1>2 DEF UploadState
<1>8. QED
  BY <1>1, <1>2, <1>6, <1>7, UploadKept DEF r

LEMMA GetUrlOK ==
    ASSUME UploadInv, NEW u \in Uploads, NEW exists \in BOOLEAN, UP!GetUrl(u, exists)
    PROVE  UploadInv'
<1> DEFINE r == upload[u]
           w == [r EXCEPT !.pc = "waiting"]
           d == [r EXCEPT !.pc = "done", !.promise = "rejected"]
<1>1. r \in UploadState /\ Noted(r) /\ r.pc = "url"
  BY DEF UP!GetUrl, UploadInv
<1>2. r.promise \in {"pending", "resolved", "rejected"}
  BY <1>1 DEF UploadState
<1>3. w = [r EXCEPT !.pc = "waiting", !.promise = r.promise]
  BY <1>1 DEF UploadState
<1>4. w \in UploadState /\ Noted(w) /\ d \in UploadState /\ Noted(d)
  BY <1>1, <1>2, <1>3, MovesOn
<1>5. w.pc = "waiting" /\ d.pc = "done"
  BY <1>1 DEF UploadState
<1>6. CASE urlMemo
  <2>1. PICK pc \in {"sent", "done"}, how \in {"resolved", "rejected"} :
           UP!Sends(r, exists) = [r EXCEPT !.pc = pc, !.promise = how]
    BY <1>1, SendsMoves
  <2> DEFINE e == [r EXCEPT !.pc = pc, !.promise = how]
  <2>2. e \in UploadState /\ Noted(e)
    BY <1>1, MovesOn
  <2>3. e.pc # "waiting"
    BY <1>1 DEF UploadState
  <2>4. UP!Set(u, e) /\ urlAsk' = urlAsk
    BY <1>6, <2>1 DEF UP!GetUrl, UP!url
  <2> HIDE DEF e
  <2>5. QED
    BY <1>1, <2>2, <2>3, <2>4, UploadKept
<1>7. CASE ~urlMemo /\ urlAsk = "none"
  <2>1. UP!Set(u, w) /\ urlAsk' = "asking"
    BY <1>7 DEF UP!GetUrl
  <2> HIDE DEF w
  <2>2. /\ upload' \in [Uploads -> UploadState]
        /\ \A v \in Uploads : upload'[v] = IF v = u THEN w ELSE upload[v]
    BY <1>4, <2>1 DEF UP!Set, UploadInv
  <2>3. QED
    BY <1>4, <1>5, <2>1, <2>2 DEF UploadInv
<1>8. CASE ~urlMemo /\ urlAsk # "none"
  <2>1. urlAsk' = urlAsk /\ UP!Set(u, IF urlAsk = "failed" THEN d ELSE w)
    BY <1>8 DEF UP!GetUrl, UP!url
  <2> HIDE DEF w, d
  <2>2. CASE urlAsk = "failed"
    BY <1>1, <1>4, <1>5, <2>1, <2>2, UploadKept
  <2>3. CASE urlAsk # "failed"
    <3>1. UP!Set(u, w) /\ urlAsk = "asking"
      BY <1>8, <2>1, <2>3 DEF UploadInv
    <3>2. /\ upload' \in [Uploads -> UploadState]
          /\ \A v \in Uploads : upload'[v] = IF v = u THEN w ELSE upload[v]
      BY <1>4, <3>1 DEF UP!Set, UploadInv
    <3>3. QED
      BY <1>4, <1>5, <2>1, <3>1, <3>2 DEF UploadInv
  <2>4. QED
    BY <2>2, <2>3
<1>9. QED
  BY <1>6, <1>7, <1>8

\* Everybody who waits for the url gets the answer, and nobody waits then.
LEMMA UrlComesOK ==
    ASSUME UploadInv, UP!UrlFailed \/ \E exists \in BOOLEAN : UP!UrlAnswered(exists)
    PROVE  UploadInv'
<1>1. /\ urlAsk' \in {"none", "failed"}
      /\ \A v \in Uploads :
             \/ upload[v].pc # "waiting" /\ upload'[v] = upload[v]
             \/ /\ upload[v].pc = "waiting"
                /\ \E pc \in {"sent", "done"}, how \in {"resolved", "rejected"} :
                      upload'[v] = [upload[v] EXCEPT !.pc = pc, !.promise = how]
  <2>1. \A v \in Uploads : upload[v] \in UploadState
    BY DEF UploadInv
  <2>2. CASE UP!UrlFailed
    BY <2>1, <2>2 DEF UP!UrlFailed
  <2>3. ASSUME NEW exists \in BOOLEAN, UP!UrlAnswered(exists)
        PROVE  /\ urlAsk' = "none"
               /\ \A v \in Uploads :
                      upload'[v] = IF upload[v].pc = "waiting" THEN UP!Sends(upload[v], exists)
                                   ELSE upload[v]
    BY <2>3 DEF UP!UrlAnswered
  <2>4. CASE \E exists \in BOOLEAN : UP!UrlAnswered(exists)
    BY <2>1, <2>3, <2>4, SendsMoves
  <2>5. QED
    BY <2>2, <2>4
<1>2. upload' = [v \in Uploads |-> upload'[v]]
  BY DEF UP!UrlFailed, UP!UrlAnswered
<1>3. \A v \in Uploads : /\ upload'[v] \in UploadState /\ Noted(upload'[v])
                         /\ upload'[v].pc # "waiting"
  <2> TAKE v \in Uploads
  <2> DEFINE r == upload[v]
  <2>1. r \in UploadState /\ Noted(r)
    BY DEF UploadInv
  <2>2. CASE r.pc # "waiting"
    BY <1>1, <2>1, <2>2
  <2>3. CASE r.pc = "waiting"
    <3>1. PICK pc \in {"sent", "done"}, how \in {"resolved", "rejected"} :
             upload'[v] = [r EXCEPT !.pc = pc, !.promise = how]
      BY <1>1, <2>3
    <3> DEFINE e == [r EXCEPT !.pc = pc, !.promise = how]
    <3>2. e \in UploadState /\ Noted(e)
      BY <2>1, <2>3, MovesOn
    <3>3. e.pc # "waiting"
      BY <2>1 DEF UploadState
    <3>4. QED
      BY <3>1, <3>2, <3>3
  <2>4. QED
    BY <2>2, <2>3
<1>4. upload' \in [Uploads -> UploadState]
  BY <1>2, <1>3
<1>5. QED
  BY <1>1, <1>3, <1>4 DEF UploadInv

LEMMA AcceptOK ==
    ASSUME UploadInv, NEW u \in Uploads,
           NEW large \in BOOLEAN, NEW ok \in BOOLEAN, UP!Accept(u, large, ok)
    PROVE  UploadInv'
<1> DEFINE r == upload[u]
<1>1. /\ r \in UploadState /\ Noted(r) /\ r.pc = "sent" /\ urlAsk' = urlAsk
      /\ r.received = 0 /\ r.progress = 0 /\ ~r.timer
  BY DEF UP!Accept, UP!url, UploadInv, Noted
<1>2. PICK e : /\ UP!Set(u, e)
               /\ \/ e = [r EXCEPT !.pc = "streaming", !.large = large, !.stored = "storing"]
                  \/ e = [r EXCEPT !.pc = "done", !.broken = TRUE]
  BY DEF UP!Accept
<1> HIDE DEF r
<1>3. e \in UploadState
  BY <1>1, <1>2 DEF UploadState
<1>4. e.received = 0 /\ e.progress = 0 /\ ~e.timer /\ e.pc \in {"streaming", "done"}
  BY <1>1, <1>2 DEF UploadState
<1>5. Noted(e)
  BY <1>4 DEF Noted
<1>6. QED
  BY <1>1, <1>2, <1>3, <1>4, <1>5, UploadKept DEF r

LEMMA UploadChunkOK ==
    ASSUME UploadInv, NEW u \in Uploads, UP!Chunk(u)
    PROVE  UploadInv'
<1> DEFINE r == upload[u]
           n == r.received + 1
           t == r.timer \/ r.large
           p == IF ~r.large /\ n = Size THEN Size ELSE r.progress
           pc == IF n = Size THEN "done" ELSE r.pc
           e == [r EXCEPT !.received = n, !.timer = t, !.progress = p, !.pc = pc]
<1>1. r \in UploadState /\ Noted(r) /\ r.pc = "streaming" /\ urlAsk' = urlAsk
  BY DEF UP!Chunk, UP!url, UploadInv
<1>2. UP!Set(u, e)
  BY DEF UP!Chunk
<1> HIDE DEF r
<1>3. n \in Nat /\ p \in Nat
  BY <1>1, BoundsAreNumbers DEF UploadState
<1>4. t \in BOOLEAN /\ pc \in {"streaming", "done"}
  BY <1>1
<1>5. n = Size /\ ~t => p = Size
  BY <1>4
<1>6. r.large => t
  OBVIOUS
<1> HIDE DEF n, t, p, pc
<1>7. e \in UploadState
  BY <1>1, <1>3, <1>4 DEF UploadState
<1>8. e.received = n /\ e.progress = p /\ e.pc = pc
  BY <1>1 DEF UploadState
<1>9. e.timer = t /\ e.large = r.large
  BY <1>1, <1>4 DEF UploadState
<1> HIDE DEF e
<1>10. Noted(e)
  BY <1>4, <1>5, <1>6, <1>8, <1>9 DEF Noted
<1>11. e.pc # "waiting"
  BY <1>4, <1>8
<1>12. QED
  BY <1>1, <1>2, <1>7, <1>10, <1>11, UploadKept DEF r

LEMMA UpdateProgressOK ==
    ASSUME UploadInv, NEW u \in Uploads, UP!UpdateProgress(u)
    PROVE  UploadInv'
<1> DEFINE r == upload[u]
           e == [r EXCEPT !.timer = FALSE, !.progress = r.received]
<1>1. r \in UploadState /\ Noted(r) /\ r.timer /\ urlAsk' = urlAsk /\ UP!Set(u, e)
  BY DEF UP!UpdateProgress, UP!url, UploadInv
<1>2. r.pc \in {"streaming", "done"}
  BY <1>1 DEF Noted
<1> HIDE DEF r
<1>3. e \in UploadState
  BY <1>1 DEF UploadState
<1>4. e.received = r.received /\ e.progress = r.received /\ e.pc = r.pc
  BY <1>1 DEF UploadState
<1> HIDE DEF e
<1>5. Noted(e)
  BY <1>2, <1>4 DEF Noted
<1>6. QED
  BY <1>1, <1>3, <1>4, <1>5, UploadKept DEF r

LEMMA BreaksOrStoredOK ==
    ASSUME UploadInv, NEW u \in Uploads,
           UP!Breaks(u) \/ \E ok \in BOOLEAN : UP!Stored(u, ok)
    PROVE  UploadInv'
<1> DEFINE r == upload[u]
<1>1. r \in UploadState /\ Noted(r) /\ urlAsk' = urlAsk
  BY DEF UP!Breaks, UP!Stored, UP!url, UploadInv
<1>2. PICK e : /\ UP!Set(u, e)
               /\ \/ r.pc = "streaming" /\ e = [r EXCEPT !.pc = "done", !.broken = TRUE]
                  \/ \E how \in {"yes", "failed"} : e = [r EXCEPT !.stored = how]
  BY DEF UP!Breaks, UP!Stored
<1> HIDE DEF r
<1>3. e \in UploadState
  BY <1>1, <1>2 DEF UploadState
<1>4. e.received = r.received /\ e.progress = r.progress
  BY <1>1, <1>2 DEF UploadState
<1>5. e.timer = r.timer /\ e.large = r.large
  BY <1>1, <1>2 DEF UploadState
<1>6. e.pc = r.pc \/ (r.pc = "streaming" /\ e.pc = "done")
  BY <1>1, <1>2 DEF UploadState
<1>7. Noted(e)
  BY <1>1, <1>4, <1>5, <1>6 DEF Noted
<1>8. QED
  BY <1>1, <1>2, <1>3, <1>6, <1>7, UploadKept DEF r

\* What the object of a file says is what the server received, or a progress
\* is due that will say it; and who waits for the url waits for an answer that
\* was asked for: for every order of uploads, chunks, timers and failures
\* (file(), getUrl(), storeFile, setInProgress).
THEOREM ProgressStaysTrue == Spec => []ProgressTrue
<1>1. UP!Init => UploadInv
  <2>1. UP!Fresh \in UploadState /\ Noted(UP!Fresh) /\ UP!Fresh.pc = "idle"
    BY DEF UP!Fresh, UploadState, Noted
  <2>2. QED
    BY <2>1 DEF UP!Init, UploadInv
<1>2. UploadInv /\ [UP!Next]_(UP!vars) => UploadInv'
  <2>1. UploadInv /\ UNCHANGED UP!vars => UploadInv'
    BY DEF UP!vars, UploadInv
  <2>2. UploadInv /\ UP!MemoExpires => UploadInv'
    BY DEF UP!MemoExpires, UploadInv
  <2>3. UploadInv /\ UP!Next => UploadInv'
    BY <2>2, FileOK, SetAnsweredOK, GetUrlOK, UrlComesOK, AcceptOK, UploadChunkOK,
       UpdateProgressOK, BreaksOrStoredOK
       DEF UP!Next
  <2>4. QED
    BY <2>1, <2>3
<1>3. UploadInv => ProgressTrue
  BY DEF ProgressTrue, UploadInv, Noted, UP!ProgressTrue
<1>4. QED
  BY <1>1, <1>2, <1>3, UploadPart, PTL DEF Spec
-----------------------------------------------------------------------------
(***************************************************************************)
(* The observable of the configuration.                                    *)
(***************************************************************************)
Fields == {"status", "cnt", "diff", "clients", "clientsCnt", "listener", "timer",
           "opening", "open", "cleanup", "early", "orphan"}

\* The subscriptions to the functions are counted.
Sound(o) ==
    /\ DOMAIN o = Fields
    /\ o.open \in Int /\ o.opening \in Nat /\ o.early \in Nat
    /\ o.open + o.opening <= o.early + 1
    /\ o.status = "live" => o.open + o.opening = 1 + o.early
    /\ o.status = "closed" => o.open + o.opening <= o.early + (IF o.orphan THEN 1 ELSE 0)

ConfigInv == DOMAIN config = CO!Instances /\ \A i \in CO!Instances : Sound(config[i])

\* What has to do with the functions is left alone.
Alike(o, e) ==
    /\ DOMAIN e = Fields
    /\ e.status = o.status /\ e.early = o.early /\ e.orphan = o.orphan
    /\ e.open = o.open /\ e.opening = o.opening /\ e.cleanup = o.cleanup

LEMMA AlikeSound == ASSUME NEW o, NEW e, Sound(o), Alike(o, e) PROVE Sound(e)
BY DEF Sound, Alike

\* A step of one instance; every other stays as it is.
LEMMA InstanceKept ==
    ASSUME ConfigInv, NEW i, NEW e, i \in CO!Instances => Sound(e),
           config' = [config EXCEPT ![i] = e]
    PROVE  ConfigInv'
BY DEF ConfigInv, CO!Instances

LEMMA NewSound == Sound(CO!New)
<1>1. DOMAIN CO!New = Fields
  BY DEF CO!New, Fields
<1>2. /\ CO!New.open = 0 /\ CO!New.opening = 1 /\ CO!New.status = "live"
      /\ CO!New.early = 0
  BY DEF CO!New
<1>3. QED
  BY <1>1, <1>2 DEF Sound

\* ConfigClients that come and go, and publications, leave the functions alone.
LEMMA EnterAlike ==
    ASSUME NEW o, DOMAIN o = Fields, NEW c, NEW ver, NEW get
    PROVE  Alike(o, CO!Enter(o, c, ver, get))
<1> DEFINE e == CO!Enter(o, c, ver, get)
<1>1. DOMAIN e = Fields
  BY DEF CO!Enter, Fields
<1>2. e.status = o.status /\ e.early = o.early /\ e.orphan = o.orphan /\ e.open = o.open
  BY DEF CO!Enter, Fields
<1>3. e.opening = o.opening /\ e.cleanup = o.cleanup
  BY DEF CO!Enter, Fields
<1>4. QED
  BY <1>1, <1>2, <1>3 DEF Alike

LEMMA DestroyAlike ==
    ASSUME NEW o, DOMAIN o = Fields
    PROVE  Alike(o, CO!DestroyIfEmpty(o))
<1> DEFINE e == CO!DestroyIfEmpty(o)
<1>1. DOMAIN e = Fields
  BY DEF CO!DestroyIfEmpty, Fields
<1>2. e.status = o.status /\ e.early = o.early /\ e.orphan = o.orphan /\ e.open = o.open
  BY DEF CO!DestroyIfEmpty, Fields
<1>3. e.opening = o.opening /\ e.cleanup = o.cleanup
  BY DEF CO!DestroyIfEmpty, Fields
<1>4. QED
  BY <1>1, <1>2, <1>3 DEF Alike

LEMMA AlikeTwice ==
    ASSUME NEW o, NEW d, NEW e, Alike(o, d), Alike(d, e)
    PROVE  Alike(o, e)
BY DEF Alike

LEMMA LeaveAlike ==
    ASSUME NEW o, DOMAIN o = Fields, NEW c
    PROVE  Alike(o, CO!Leave(o, c))
<1> DEFINE d == [o EXCEPT !.clients[c] = CO!NoEntry, !.clientsCnt = @ - 1]
<1>1. CO!Leave(o, c) = o \/ CO!Leave(o, c) = CO!DestroyIfEmpty(d)
  BY DEF CO!Leave
<1>2. DOMAIN d = Fields
  BY DEF Fields
<1>3. d.status = o.status /\ d.early = o.early /\ d.orphan = o.orphan /\ d.open = o.open
  BY DEF Fields
<1>4. d.opening = o.opening /\ d.cleanup = o.cleanup
  BY DEF Fields
<1> HIDE DEF d
<1>5. Alike(o, d) /\ Alike(d, CO!DestroyIfEmpty(d)) /\ Alike(o, o)
  BY <1>2, <1>3, <1>4, DestroyAlike DEF Alike
<1>6. QED
  BY <1>1, <1>5, AlikeTwice

LEMMA PublishedAlike ==
    ASSUME NEW o, DOMAIN o = Fields, NEW patched
    PROVE  Alike(o, CO!Published(o, patched))
<1> DEFINE gets == {c \in ConfigClients : o.clients[c].get = "get"}
           clients == [c \in ConfigClients |->
                         IF c \in gets \/ c \notin CO!Listed(o) THEN CO!NoEntry
                         ELSE [o.clients[c] EXCEPT !.ver = o.cnt + 1]]
           n == o.cnt + 1
           k == o.clientsCnt - CO!Cardinality(gets)
           d == [o EXCEPT !.cnt = n, !.diff = patched, !.clients = clients, !.clientsCnt = k]
<1>1. CO!Published(o, patched) = IF gets = {} THEN d ELSE CO!DestroyIfEmpty(d)
  BY Zenon DEF CO!Published
<1> HIDE DEF clients, n, k, gets
<1>2. DOMAIN d = Fields
  BY DEF Fields
<1>3. d.status = o.status /\ d.early = o.early /\ d.orphan = o.orphan /\ d.open = o.open
  BY DEF Fields
<1>4. d.opening = o.opening /\ d.cleanup = o.cleanup
  BY DEF Fields
<1> HIDE DEF d
<1>5. Alike(o, d) /\ Alike(d, CO!DestroyIfEmpty(d))
  BY <1>2, <1>3, <1>4, DestroyAlike DEF Alike
<1>6. QED
  BY <1>1, <1>5, AlikeTwice

LEMMA SubscribeOK ==
    ASSUME ConfigInv, NEW c \in ConfigClients, NEW get, CO!Subscribe(c, get)
    PROVE  ConfigInv'
<1> DEFINE i == IF current = 0 THEN CO!NextUnused ELSE current
           o == IF current = 0 THEN CO!New ELSE config[current]
           k == cache[c]
           ver == IF o.cnt = 0 THEN k.sum ELSE o.cnt
<1>1. i \in CO!Instances => Sound(o)
  BY NewSound DEF ConfigInv
<1>2. CASE c \in CO!Listed(o)
  <2> DEFINE g == IF config[i].clients[c].get = "get" \/ get = "both" THEN "both"
                  ELSE config[i].clients[c].get
             e == [config[i] EXCEPT !.clients[c].get = g]
  <2>1. config' = [config EXCEPT ![i].clients[c].get =
                             IF @ = "get" \/ get = "both" THEN "both" ELSE @]
    BY <1>2 DEF CO!Subscribe
  <2>2. config' = [config EXCEPT ![i] = e]
    BY <2>1
  <2> HIDE DEF g, i
  <2>3. i \in CO!Instances => DOMAIN config[i] = Fields /\ Sound(config[i])
    BY DEF ConfigInv, Sound
  <2>4. ASSUME i \in CO!Instances
        PROVE  Sound(e)
    <3> DEFINE p == config[i]
    <3>1. DOMAIN p = Fields /\ Sound(p)
      BY <2>3, <2>4
    <3> HIDE DEF p
    <3>2. e = [p EXCEPT !.clients[c].get = g]
      BY DEF p
    <3> HIDE DEF e
    <3>3. DOMAIN e = Fields
      BY <3>1, <3>2 DEF Fields
    <3>4. e.status = p.status /\ e.early = p.early /\ e.orphan = p.orphan /\ e.open = p.open
      BY <3>1, <3>2 DEF Fields
    <3>5. e.opening = p.opening /\ e.cleanup = p.cleanup
      BY <3>1, <3>2 DEF Fields
    <3>6. Alike(p, e)
      BY <3>3, <3>4, <3>5 DEF Alike
    <3>7. QED
      BY <3>1, <3>6, AlikeSound
  <2> HIDE DEF e
  <2>5. QED
    BY <2>2, <2>4, InstanceKept
<1>3. CASE c \notin CO!Listed(o)
  <2>1. config' = [config EXCEPT ![i] = CO!Enter(o, c, ver, get)]
    BY <1>3 DEF CO!Subscribe
  <2> HIDE DEF i, o, ver
  <2>2. i \in CO!Instances => Sound(CO!Enter(o, c, ver, get))
    BY <1>1, EnterAlike, AlikeSound DEF Sound
  <2>3. QED
    BY <2>1, <2>2, InstanceKept
<1>4. QED
  BY <1>2, <1>3

\* Who asks for the data, who leaves, and who listens in the server.
LEMMA VisitOK ==
    ASSUME ConfigInv,
           \/ \E c \in ConfigClients : \/ CO!GetOfNew(c) \/ CO!GetOfRegistered(c)
                                     \/ CO!Unsubscribe(c) \/ CO!SendData(c)
           \/ CO!ObserveInServer
           \/ \E i \in CO!Instances, patched \in BOOLEAN : CO!Tick(i, patched)
    PROVE  ConfigInv'
<1>1. ASSUME NEW c \in ConfigClients, CO!GetOfNew(c)
      PROVE  ConfigInv'
  <2>1. config' = [config EXCEPT ![CO!NextUnused] = CO!Enter(CO!New, c, cache[c].sum, "get")]
    BY <1>1 DEF CO!GetOfNew
  <2>2. Sound(CO!Enter(CO!New, c, cache[c].sum, "get"))
    BY NewSound, EnterAlike, AlikeSound DEF Sound
  <2>3. QED
    BY <2>1, <2>2, InstanceKept
<1>2. ASSUME NEW c \in ConfigClients, CO!Unsubscribe(c)
      PROVE  ConfigInv'
  <2> DEFINE i == named[c]
  <2>1. config' = [config EXCEPT ![i] = CO!Leave(config[i], c)]
    BY <1>2 DEF CO!Unsubscribe
  <2> HIDE DEF i
  <2>2. i \in CO!Instances => Sound(CO!Leave(config[i], c))
    BY LeaveAlike, AlikeSound DEF Sound, ConfigInv
  <2>3. QED
    BY <2>1, <2>2, InstanceKept
<1>3. ASSUME NEW c \in ConfigClients, CO!SendData(c)
      PROVE  ConfigInv'
  <2> DEFINE i == named[c]
             o == config[i]
             e == [o EXCEPT !.clients[c].ver = o.cnt]
  <2>1. config' = [config EXCEPT ![i] = e]
    BY <1>3 DEF CO!SendData
  <2> HIDE DEF i
  <2>2. i \in CO!Instances => Sound(o)
    BY DEF ConfigInv
  <2> HIDE DEF o
  <2>3. ASSUME Sound(o)
        PROVE  Sound(e)
    <3>1. DOMAIN o = Fields
      BY <2>3 DEF Sound
    <3>2. DOMAIN e = Fields
      BY <3>1 DEF Fields
    <3>3. e.status = o.status /\ e.early = o.early /\ e.orphan = o.orphan /\ e.open = o.open
      BY <3>1 DEF Fields
    <3>4. e.opening = o.opening /\ e.cleanup = o.cleanup
      BY <3>1 DEF Fields
    <3> HIDE DEF e
    <3>5. Alike(o, e)
      BY <3>2, <3>3, <3>4 DEF Alike
    <3>6. QED
      BY <2>3, <3>5, AlikeSound
  <2> HIDE DEF e
  <2>4. QED
    BY <2>1, <2>2, <2>3, InstanceKept
<1>4. CASE CO!ObserveInServer
  <2> DEFINE e == [CO!New EXCEPT !.listener = TRUE]
  <2>1. config' = [config EXCEPT ![CO!NextUnused] = e]
    BY <1>4 DEF CO!ObserveInServer
  <2>2. DOMAIN e = Fields /\ e.open = 0 /\ e.opening = 1
    BY DEF CO!New, Fields
  <2>a. e.status = "live" /\ e.early = 0
    BY DEF CO!New, Fields
  <2> HIDE DEF e
  <2>3. Sound(e)
    BY <2>2, <2>a DEF Sound
  <2>4. QED
    BY <2>1, <2>3, InstanceKept
<1>5. ASSUME NEW i \in CO!Instances, NEW patched \in BOOLEAN, CO!Tick(i, patched)
      PROVE  ConfigInv'
  <2>1. config' = [config EXCEPT ![i] = CO!Published(config[i], patched)]
    BY <1>5 DEF CO!Tick
  <2>2. Sound(CO!Published(config[i], patched))
    BY PublishedAlike, AlikeSound DEF Sound, ConfigInv
  <2>3. QED
    BY <2>1, <2>2, InstanceKept
<1>6. ASSUME NEW c \in ConfigClients, CO!GetOfRegistered(c)
      PROVE  ConfigInv'
  BY <1>6 DEF CO!GetOfRegistered, ConfigInv, CO!Instances
<1>7. QED
  BY <1>1, <1>2, <1>3, <1>4, <1>5, <1>6

LEMMA CloseInServerOK ==
    ASSUME ConfigInv, NEW i \in CO!Instances, CO!CloseInServer(i)
    PROVE  ConfigInv'
<1> DEFINE o == config[i]
           d == [o EXCEPT !.listener = FALSE]
<1>1. config' = [config EXCEPT ![i] = CO!DestroyIfEmpty(d)]
  BY DEF CO!CloseInServer
<1>2. Sound(o) /\ DOMAIN o = Fields
  BY DEF ConfigInv, Sound
<1> HIDE DEF o
<1>3. DOMAIN d = Fields
  BY <1>2 DEF Fields
<1>4. d.status = o.status /\ d.early = o.early /\ d.orphan = o.orphan /\ d.open = o.open
  BY <1>2 DEF Fields
<1>5. d.opening = o.opening /\ d.cleanup = o.cleanup
  BY <1>2 DEF Fields
<1> HIDE DEF d
<1>6. Sound(d)
  BY <1>2, <1>3, <1>4, <1>5, AlikeSound DEF Alike
<1>7. Sound(CO!DestroyIfEmpty(d))
  BY <1>3, <1>6, DestroyAlike, AlikeSound
<1>8. QED
  BY <1>1, <1>7, InstanceKept

\* fnCleanup ends the subscription that runs, and only once.
LEMMA CleanUpOf ==
    ASSUME NEW o, Sound(o)
    PROVE  /\ DOMAIN CO!CleanUp(o) = Fields
           /\ CO!CleanUp(o).status = o.status /\ CO!CleanUp(o).early = o.early
           /\ CO!CleanUp(o).opening = o.opening /\ CO!CleanUp(o).orphan = o.orphan
           /\ CO!CleanUp(o).open \in Int
           /\ o.cleanup = "open" => CO!CleanUp(o).open = o.open - 1
           /\ o.cleanup # "open" => CO!CleanUp(o).open = o.open
<1>1. CASE o.cleanup # "open"
  BY <1>1 DEF CO!CleanUp, Sound
<1>2. CASE o.cleanup = "open"
  <2> DEFINE n == o.open - 1
             e == [o EXCEPT !.cleanup = "called", !.open = n]
  <2>1. CO!CleanUp(o) = e /\ DOMAIN o = Fields /\ n \in Int
    BY <1>2 DEF CO!CleanUp, Sound
  <2> HIDE DEF n
  <2>2. DOMAIN e = Fields
    BY <2>1 DEF Fields
  <2>3. /\ e.status = o.status /\ e.early = o.early /\ e.opening = o.opening
        /\ e.orphan = o.orphan /\ e.open = n
    BY <2>1 DEF Fields
  <2> HIDE DEF e
  <2>4. QED
    BY <1>2, <2>1, <2>2, <2>3 DEF n
<1>3. QED
  BY <1>1, <1>2

LEMMA RemoveTimeoutOK ==
    ASSUME ConfigInv, NEW i \in CO!Instances, CO!RemoveTimeout(i)
    PROVE  ConfigInv'
<1> DEFINE o == config[i]
           d == CO!CleanUp(o)
           left == o.cleanup # "open"
           e == [d EXCEPT !.timer = FALSE, !.status = "closed", !.orphan = left]
<1>1. config' = [config EXCEPT ![i] = e]
  BY DEF CO!RemoveTimeout
<1>2. Sound(o)
  BY DEF ConfigInv
<1> HIDE DEF o
<1>3. /\ DOMAIN d = Fields /\ d.open \in Int /\ d.opening = o.opening /\ d.early = o.early
      /\ o.open \in Int /\ o.opening \in Nat /\ o.early \in Nat
      /\ ~left => d.open = o.open - 1
      /\ left => d.open = o.open
  BY <1>2, CleanUpOf DEF Sound
<1> HIDE DEF d, left
<1>4. DOMAIN e = Fields
  BY <1>3 DEF Fields
<1>5. /\ e.status = "closed" /\ e.open = d.open /\ e.opening = d.opening
      /\ e.early = d.early /\ e.orphan = left
  BY <1>3 DEF Fields
<1> HIDE DEF e
<1>6. o.open + o.opening <= o.early + 1
  BY <1>2, <1>3 DEF Sound
<1>7. CASE left
  <2>1. e.open + e.opening <= e.early + 1
    BY <1>3, <1>5, <1>6, <1>7
  <2>2. QED
    BY <1>1, <1>3, <1>4, <1>5, <1>7, <2>1, InstanceKept DEF Sound
<1>8. CASE ~left
  <2>1. e.open + e.opening <= e.early
    BY <1>3, <1>5, <1>6, <1>8
  <2>2. ~e.orphan
    BY <1>5, <1>8
  <2>3. e.early + (IF e.orphan THEN 1 ELSE 0) = e.early /\ e.early <= e.early + 1
    BY <1>3, <1>5, <2>2
  <2>4. Sound(e)
    BY <1>3, <1>4, <1>5, <2>1, <2>3 DEF Sound
  <2>5. QED
    BY <1>1, <2>4, InstanceKept
<1>9. QED
  BY <1>7, <1>8

\* The awaited subscription comes, and runs.
LEMMA FunctionsObservedOK ==
    ASSUME ConfigInv, NEW i \in CO!Instances, CO!FunctionsObserved(i)
    PROVE  ConfigInv'
<1> DEFINE o == config[i]
           m == o.opening - 1
           n == o.open + 1
           e == [o EXCEPT !.opening = m, !.open = n, !.cleanup = "open"]
<1>1. config' = [config EXCEPT ![i] = e]
  BY DEF CO!FunctionsObserved
<1>2. Sound(o) /\ o.opening > 0
  BY DEF ConfigInv, CO!FunctionsObserved
<1> HIDE DEF o
<1>3. /\ DOMAIN o = Fields /\ o.open \in Int /\ o.opening \in Nat
      /\ m \in Nat /\ n \in Int /\ m + n = o.open + o.opening
  BY <1>2 DEF Sound
<1> HIDE DEF m, n
<1>4. DOMAIN e = Fields
  BY <1>3 DEF Fields
<1>5. /\ e.status = o.status /\ e.early = o.early /\ e.open = n /\ e.opening = m
      /\ e.orphan = o.orphan
  BY <1>3 DEF Fields
<1> HIDE DEF e
<1>6. n + m = m + n
  BY <1>3
<1>7. Sound(e)
  BY <1>2, <1>3, <1>4, <1>5, <1>6 DEF Sound
<1>8. QED
  BY <1>1, <1>7, InstanceKept

\* An error ends the subscription that fnCleanup ends, if there is one, and
\* begins another.
LEMMA RestartOK ==
    ASSUME ConfigInv, NEW i \in CO!Instances, CO!Restart(i)
    PROVE  ConfigInv'
<1> DEFINE o == config[i]
           d == CO!CleanUp(o)
           k == d.early + (IF o.cleanup = "open" THEN 0 ELSE 1)
           m == d.opening + 1
           e == [d EXCEPT !.early = k, !.opening = m]
<1>1. config' = [config EXCEPT ![i] = e]
  BY DEF CO!Restart, CO!Restarted
<1>2. Sound(o) /\ o.status = "live"
  BY DEF CO!Restart, ConfigInv
<1> HIDE DEF o
<1>3. /\ DOMAIN d = Fields /\ d.open \in Int /\ d.opening = o.opening
      /\ d.status = "live" /\ d.early = o.early
      /\ o.open \in Int /\ o.opening \in Nat /\ o.early \in Nat
      /\ o.cleanup = "open" => d.open = o.open - 1
      /\ o.cleanup # "open" => d.open = o.open
  BY <1>2, CleanUpOf DEF Sound
<1> HIDE DEF d
<1>4. /\ m \in Nat /\ m = o.opening + 1 /\ k \in Nat
      /\ o.cleanup = "open" => k = o.early
      /\ o.cleanup # "open" => k = o.early + 1
  BY <1>3
<1> HIDE DEF m, k
<1>5. DOMAIN e = Fields
  BY <1>3 DEF Fields
<1>6. e.early = k /\ e.opening = m /\ e.open = d.open /\ e.status = "live"
  BY <1>3 DEF Fields
<1> HIDE DEF e
<1>7. o.open + o.opening = 1 + o.early
  BY <1>2 DEF Sound
<1>8. d.open + m = 1 + k
  BY <1>3, <1>4, <1>7
<1>9. Sound(e)
  BY <1>3, <1>4, <1>5, <1>6, <1>8 DEF Sound
<1>10. QED
  BY <1>1, <1>9, InstanceKept

\* The subscriptions of an instance to the functions are counted: at every
\* order of clients, publications, removals and errors, those included that
\* come while a subscription is awaited (observeFunctions, restart).
THEOREM ConfigSubscriptionsCounted == Spec => []ConfigFunctionsCounted
<1>1. CO!Init => ConfigInv
  <2> DEFINE e == [CO!New EXCEPT !.status = "unused", !.opening = 0]
  <2>1. /\ DOMAIN e = Fields /\ e.open = 0 /\ e.opening = 0 /\ e.status = "unused"
        /\ e.early = 0
    BY DEF CO!New, Fields
  <2>2. CO!Init => config = [i \in CO!Instances |-> e]
    BY DEF CO!Init
  <2> HIDE DEF e
  <2>3. Sound(e)
    BY <2>1 DEF Sound
  <2>4. QED
    BY <2>2, <2>3 DEF ConfigInv
<1>2. ConfigInv /\ [CO!Next]_(CO!vars) => ConfigInv'
  <2>1. ConfigInv /\ UNCHANGED CO!vars => ConfigInv'
    BY DEF CO!vars, ConfigInv, CO!Instances
  <2>2. ConfigInv /\ CO!Next => ConfigInv'
    BY SubscribeOK, VisitOK, CloseInServerOK, RemoveTimeoutOK, FunctionsObservedOK, RestartOK
       DEF CO!Next
  <2>3. QED
    BY <2>1, <2>2
<1>3. ConfigInv => ConfigFunctionsCounted
  BY DEF ConfigFunctionsCounted, ConfigInv, Sound, CO!ConfigFunctionsCounted
<1>4. QED
  BY <1>1, <1>2, <1>3, ConfigPart, PTL DEF Spec
-----------------------------------------------------------------------------
(***************************************************************************)
(* The cache of functions.                                                 *)
(***************************************************************************)
\* What a function was counted up to is at most the passes it was idle for.
IdleInv ==
    /\ fns \in [Names -> -1..2] /\ idle \in [Names -> 0..3]
    /\ \A n \in Names : idle[n] >= fns[n]
    /\ passing \subseteq Names

LEMMA IdleCounts ==
    ASSUME NEW i \in 0..3
    PROVE  /\ FC!Min({i + 1, 3}) \in 0..3 /\ FC!Min({i + 1, 3}) >= i
           /\ \A k \in -1..1 : i >= k => FC!Min({i + 1, 3}) >= k + 1
<1> DEFINE m == IF i + 1 <= 3 THEN i + 1 ELSE 3
<1>1. m \in {i + 1, 3} /\ \A y \in {i + 1, 3} : m <= y
  OBVIOUS
<1>2. \A z \in {i + 1, 3} : (\A y \in {i + 1, 3} : z <= y) => z = m
  OBVIOUS
<1>3. FC!Min({i + 1, 3}) = m
  BY <1>1, <1>2 DEF FC!Min
<1>4. QED
  BY <1>3

\* The pass counts up what is not due, and what it clears was counted twice.
LEMMA ProceedOK ==
    ASSUME IdleInv, NEW table \in [Names -> -1..2], \A n \in Names : idle[n] >= table[n],
           NEW keys \in SUBSET Names, FC!Proceed(table, keys)
    PROVE  IdleInv' /\ \A n \in clearing' : table[n] = 2
<1> DEFINE due == {n \in keys : table[n] = 2}
<1>1. PICK grown \in SUBSET (keys \ due) :
        /\ fns' = [n \in Names |-> IF n \in grown THEN table[n] + 1 ELSE table[n]]
        /\ idle' = [n \in Names |-> IF n \in grown \/ n \in clearing'
                                    THEN FC!Min({idle[n] + 1, 3}) ELSE idle[n]]
        /\ clearing' \subseteq due
  <2>1. CASE due = {}
    <3>1. /\ keys \in SUBSET (keys \ due) /\ clearing' = {}
          /\ fns' = [n \in Names |-> IF n \in keys THEN table[n] + 1 ELSE table[n]]
          /\ idle' = [n \in Names |-> IF n \in keys \/ n \in clearing'
                                      THEN FC!Min({idle[n] + 1, 3}) ELSE idle[n]]
      BY <2>1 DEF FC!Proceed
    <3>2. QED
      BY <3>1
  <2>2. CASE due # {}
    <3>1. PICK n \in due, before \in SUBSET (keys \ due) :
            /\ clearing' = {n}
            /\ fns' = [x \in Names |-> IF x \in before THEN table[x] + 1 ELSE table[x]]
            /\ idle' = [x \in Names |-> IF x \in before \/ x \in clearing'
                                        THEN FC!Min({idle[x] + 1, 3}) ELSE idle[x]]
      BY <2>2 DEF FC!Proceed
    <3>2. QED
      BY <3>1
  <2>3. QED
    BY <2>1, <2>2
<1>2. \A n \in Names :
        /\ fns'[n] \in -1..2 /\ idle'[n] \in 0..3 /\ idle'[n] >= fns'[n]
  <2> TAKE n \in Names
  <2>1. idle[n] \in 0..3 /\ table[n] \in -1..2 /\ idle[n] >= table[n]
    BY DEF IdleInv
  <2> DEFINE m == FC!Min({idle[n] + 1, 3})
  <2>2. m \in 0..3 /\ m >= idle[n] /\ (table[n] \in -1..1 => m >= table[n] + 1)
    BY <2>1, IdleCounts
  <2>3. /\ fns'[n] = IF n \in grown THEN table[n] + 1 ELSE table[n]
        /\ idle'[n] = IF n \in grown \/ n \in clearing' THEN m ELSE idle[n]
    BY <1>1
  <2> HIDE DEF m
  <2>4. CASE n \in grown
    <3>1. table[n] \in -1..1
      BY <1>1, <2>1, <2>4
    <3>2. QED
      BY <2>1, <2>2, <2>3, <2>4, <3>1
  <2>5. CASE n \notin grown
    BY <2>1, <2>2, <2>3, <2>5
  <2>6. QED
    BY <2>4, <2>5
<1>3. fns' \in [Names -> -1..2] /\ idle' \in [Names -> 0..3]
  BY <1>1, <1>2
<1>4. passing' \subseteq keys
  BY DEF FC!Proceed
<1>5. QED
  BY <1>1, <1>2, <1>3, <1>4 DEF IdleInv

LEMMA PassOK ==
    ASSUME IdleInv, FC!Pass \/ FC!Cleared
    PROVE  IdleInv' /\ \A n \in Names : n \in clearing' \ clearing => idle[n] >= 2
<1>1. fns \in [Names -> -1..2] /\ \A n \in Names : idle[n] >= fns[n]
  BY DEF IdleInv
<1>2. CASE FC!Pass
  <2> DEFINE keys == {n \in Names : FC!Here(n)}
  <2>1. FC!Proceed(fns, keys) /\ keys \in SUBSET Names
    BY <1>2 DEF FC!Pass
  <2> HIDE DEF keys
  <2>2. IdleInv' /\ \A n \in clearing' : fns[n] = 2
    BY <1>1, <2>1, ProceedOK
  <2>3. QED
    BY <1>1, <2>2
<1>3. CASE FC!Cleared
  <2> DEFINE table == [n \in Names |-> IF n \in clearing THEN FC!Gone ELSE fns[n]]
  <2>1. FC!Proceed(table, passing) /\ passing \in SUBSET Names
    BY <1>3 DEF FC!Cleared, IdleInv
  <2>2. /\ table \in [Names -> -1..2] /\ \A n \in Names : idle[n] >= table[n]
        /\ \A n \in Names : table[n] = 2 => fns[n] = 2
    BY <1>1 DEF FC!Gone, IdleInv
  <2> HIDE DEF table
  <2>3. IdleInv' /\ \A n \in clearing' : table[n] = 2
    BY <2>1, <2>2, ProceedOK
  <2>4. QED
    BY <1>1, <2>2, <2>3
<1>4. QED
  BY <1>2, <1>3

LEMMA UsedFunctionOK ==
    ASSUME IdleInv, NEW n \in Names,
           FC!GetFunction(n) \/ \E found \in BOOLEAN : FC!Initial(n, found)
    PROVE  IdleInv' /\ clearing' = clearing
<1>1. clearing' = clearing /\ passing' = passing
  BY DEF FC!GetFunction, FC!Initial, FC!loop
<1>2. FC!Used(n) \/ UNCHANGED <<fns, idle>>
  BY DEF FC!GetFunction, FC!Initial
<1>3. FC!Used(n) => IdleInv'
  BY <1>1 DEF FC!Used, IdleInv
<1>4. UNCHANGED <<fns, idle>> => IdleInv'
  BY <1>1 DEF IdleInv
<1>5. QED
  BY <1>1, <1>2, <1>3, <1>4

\* The server gives a function to clear() only if two passes of its loop found
\* it unused: at every order of uses, passes and clear()s that return, throw or
\* take long (getFromConfig.ts).
THEOREM OnlyIdleIsCleared == Spec => ClearsOnlyIdle
<1> DEFINE Clears == \A n \in Names : n \in clearing' \ clearing => idle[n] >= 2
<1>1. FC!Init => IdleInv
  BY DEF FC!Init, FC!Gone, IdleInv
<1>2. IdleInv /\ [FC!Next]_(FC!vars) => IdleInv' /\ [Clears]_(FC!vars)
  <2> SUFFICES ASSUME IdleInv, [FC!Next]_(FC!vars)
               PROVE  IdleInv' /\ (Clears \/ UNCHANGED FC!vars)
    OBVIOUS
  <2>1. CASE UNCHANGED FC!vars
    BY <2>1 DEF FC!vars, IdleInv
  <2>2. CASE FC!Pass \/ FC!Cleared
    BY <2>2, PassOK
  <2>3. ASSUME NEW n \in Names,
               FC!GetFunction(n) \/ \E found \in BOOLEAN : FC!Initial(n, found)
        PROVE  IdleInv' /\ Clears
    BY <2>3, UsedFunctionOK
  <2>4. CASE /\ UNCHANGED <<fns, idle>>
             /\ clearing' \subseteq clearing /\ passing' \subseteq passing
    BY <2>4 DEF IdleInv
  <2>5. CASE \/ \E n \in Names : FC!GetSecret(n)
             \/ \E n \in Names, found \in BOOLEAN : FC!SecretComes(n, found)
             \/ FC!ClearThrows \/ FC!SecretPass
    BY <2>4, <2>5 DEF FC!GetSecret, FC!SecretComes, FC!ClearThrows, FC!SecretPass, FC!fnVars
  <2>6. QED
    BY <2>1, <2>2, <2>3, <2>5 DEF FC!Next
<1>3. QED
  BY <1>1, <1>2, CachePart, PTL DEF Spec, ClearsOnlyIdle, FC!ClearsOnlyIdle
=============================================================================
