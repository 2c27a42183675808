------------------------------ MODULE ProxyHTTP ------------------------------
(***************************************************************************)
(* internal/api/server.go: browser requests proxied through one agent.     *)
(* proxyHTTPForTarget takes a slot of the agent's session, registers a     *)
(* proxyStream in pending, sends the request (sendProxyRequest), waits for *)
(* the header and relays the body; meanwhile the single reader goroutine   *)
(* of the agent connection delivers the agent's messages to the pending    *)
(* streams through bounded channels (handleAgentMessage and                *)
(* handleAgentBinaryMessage).                                              *)
(*                                                                         *)
(* A write to the agent is taken from the contract of FrameDelivery: nil   *)
(* means that the frame was sent, an error that it may have been.  Sent is *)
(* not received: a connection that breaks takes the last of what was sent  *)
(* over it with it, and what the agent reads of a connection it reads      *)
(* before anything that is sent over a newer one.  The agent's sessions    *)
(* come from the contract of SessionTable.                                 *)
(***************************************************************************)
EXTENDS Integers, Sequences, FiniteSets

CONSTANTS Requests,      \* the browser requests of a behaviour
          Streamed,      \* the ones whose response is streamed (streamResponse)
          Uploads,       \* the ones whose body is streamed (streamRequest)
          MaxSessions,   \* bound: how many times the agent connects
          MaxInFlight,   \* proxyHTTPMaxInFlight
          StreamQueue,   \* proxyStreamQueue
          BodyChunks,    \* bound: data chunks in a streamed response
          UploadChunks,  \* bound: chunks in a streamed request body
          WireLength     \* bound: agent messages the reader has not read yet

ASSUME RequestsAssumption == /\ IsFiniteSet(Requests)
                             /\ Streamed \subseteq Requests
                             /\ Uploads \subseteq Requests
ASSUME LimitAssumption == /\ MaxInFlight \in Nat \ {0}
                          /\ StreamQueue \in Nat \ {0}
                          /\ MaxSessions \in Nat \ {0}
                          /\ WireLength \in Nat \ {0}
ASSUME BodyAssumption == BodyChunks \in Nat /\ UploadChunks \in Nat

Sessions == 1 .. MaxSessions
Ending == BodyChunks + 1         \* only the end of the response is left to send
Answered == BodyChunks + 2       \* the agent has nothing more to send
Messages == {"header", "headerError", "chunk", "end", "endError"}

\* proxyChunk: the number of the part of the body it carries (0: no data).
Chunk(n, last) == [part |-> n, final |-> last]
Chunks == [part : Nat, final : BOOLEAN]

VARIABLES
  pc,          \* where each handler is in proxyHTTPForTarget
  sess,        \* the session it looked up (0: none)
  seen,        \* activeHTTP as tryAcquireHTTP loaded it
  read,        \* chunks of the request body it has read
  gone,        \* the requests whose context has ended
  outcome,     \* how each handler ended
  body,        \* the response chunks it has written to the browser
  cancel,      \* the requests cancelProxyRequest was called for
  activeHTTP,  \* slots taken, per session
  registered,  \* the agent's entry in s.sessions (0: none)
  latest,      \* the number of sessions so far
  link,        \* the sessions whose connection is up
  pending,     \* the keys of s.pending
  hdr,         \* stream.headers, capacity one
  chunks,      \* stream.chunks
  err,         \* stream.errors, capacity one
  wire,        \* per session: what the agent has sent and the reader has not read
  have,        \* agent: what it has received of the request
  via,         \* agent: the session it received that over (0: none)
  got,         \* agent: chunks of the request body it has received
  next,        \* agent: the next part of the response (0: the header)
  deaf,        \* agent: the sessions it reads nothing more from
  twice,       \* history: the requests the agent has received a second copy of
  lost         \* history: requests deliverChunk has refused a chunk of

\* The agent can always connect, and may have been deleted at any time.
Table == INSTANCE SessionTable WITH
  current <- registered, connected <- latest, up <- link,
  Calls <- {0}, admitted <- {0}, deleted <- TRUE

handlerVars == <<pc, sess, seen, read, outcome, body>>
sessionVars == <<registered, latest, link>>
streamVars == <<hdr, chunks, err, lost>>
agentVars == <<have, via, got, next, deaf, twice>>
vars == <<handlerVars, gone, cancel, activeHTTP, sessionVars, pending, streamVars, wire, agentVars>>

HandlerStates == {"idle", "load", "cas", "register", "send", "resend", "body", "abort",
                  "finish", "await", "stream", "unwind", "release", "end"}
Outcomes == {"none", "early", "tooMany", "sendFailed", "badGateway", "timeout",
             "canceled", "aborted", "writeFailed", "complete"}

TypeOK ==
  /\ pc \in [Requests -> HandlerStates]
  /\ sess \in [Requests -> 0 .. MaxSessions]
  /\ seen \in [Requests -> Nat]
  /\ read \in [Requests -> 0 .. UploadChunks]
  /\ gone \in SUBSET Requests
  /\ outcome \in [Requests -> Outcomes]
  /\ body \in [Requests -> Seq(Nat)]
  /\ cancel \in SUBSET Requests
  /\ activeHTTP \in [Sessions -> Nat]
  /\ registered \in 0 .. MaxSessions
  /\ latest \in 0 .. MaxSessions
  /\ link \in SUBSET Sessions
  /\ pending \in SUBSET Requests
  /\ hdr \in [Requests -> {"none", "ok", "error"}]
  /\ chunks \in [Requests -> Seq(Chunks)]
  /\ err \in [Requests -> BOOLEAN]
  /\ wire \in [Sessions -> Seq([req : Requests, msg : Messages, chunk : Chunks])]
  /\ have \in [Requests -> {"no", "part", "full", "failed"}]
  /\ via \in [Requests -> 0 .. MaxSessions]
  /\ got \in [Requests -> 0 .. UploadChunks]
  /\ next \in [Requests -> 0 .. Answered]
  /\ deaf \in SUBSET Sessions
  /\ twice \in SUBSET Requests
  /\ lost \in SUBSET Requests

Init ==
  /\ pc = [r \in Requests |-> "idle"]
  /\ sess = [r \in Requests |-> 0]
  /\ seen = [r \in Requests |-> 0]
  /\ read = [r \in Requests |-> 0]
  /\ gone = {}
  /\ outcome = [r \in Requests |-> "none"]
  /\ body = [r \in Requests |-> <<>>]
  /\ cancel = {}
  /\ activeHTTP = [s \in Sessions |-> 0]
  /\ registered = 0
  /\ latest = 0
  /\ link = {}
  /\ pending = {}
  /\ hdr = [r \in Requests |-> "none"]
  /\ chunks = [r \in Requests |-> <<>>]
  /\ err = [r \in Requests |-> FALSE]
  /\ wire = [s \in Sessions |-> <<>>]
  /\ have = [r \in Requests |-> "no"]
  /\ via = [r \in Requests |-> 0]
  /\ got = [r \in Requests |-> 0]
  /\ next = [r \in Requests |-> 0]
  /\ deaf = {}
  /\ twice = {}
  /\ lost = {}

-----------------------------------------------------------------------------
(* proxyHTTPForTarget: before the request is sent *)

Goto(r, p) == pc' = [pc EXCEPT ![r] = p]

\* The handler is about to return: its deferred functions are still to run.
Ends(r, o) == /\ Goto(r, "unwind")
              /\ outcome' = [outcome EXCEPT ![r] = o]

\* Returns that take no slot: no session, no proxy.http capability, a hit of the
\* rewritten-JS cache, a request body that cannot be read.
EarlyReturn(r) ==
  /\ pc[r] = "idle"
  /\ Goto(r, "end")
  /\ outcome' = [outcome EXCEPT ![r] = "early"]
  /\ UNCHANGED <<sess, seen, read, body, gone, cancel, activeHTTP, sessionVars,
                 pending, streamVars, wire, agentVars>>

LookupSession(r) ==
  /\ pc[r] = "idle"
  /\ registered # 0
  /\ sess' = [sess EXCEPT ![r] = registered]
  /\ Goto(r, "load")
  /\ UNCHANGED <<seen, read, outcome, body, gone, cancel, activeHTTP, sessionVars,
                 pending, streamVars, wire, agentVars>>

\* Mutant: the deferred release is installed before the slot is taken.
AfterRejectReleases == "release"

AfterReject == "end"

\* tryAcquireHTTP: the load, and the refusal (429) at the limit.
LoadActive(r) ==
  /\ pc[r] = "load"
  /\ IF activeHTTP[sess[r]] >= MaxInFlight
     THEN /\ Goto(r, AfterReject)
          /\ outcome' = [outcome EXCEPT ![r] = "tooMany"]
          /\ UNCHANGED seen
     ELSE /\ Goto(r, "cas")
          /\ seen' = [seen EXCEPT ![r] = activeHTTP[sess[r]]]
          /\ UNCHANGED outcome
  /\ UNCHANGED <<sess, read, body, gone, cancel, activeHTTP, sessionVars,
                 pending, streamVars, wire, agentVars>>

\* Mutant: load and store in place of the compare-and-swap.
CasUnchecked(r) == r \in Requests

CasSucceeds(r) == activeHTTP[sess[r]] = seen[r]

\* tryAcquireHTTP: CompareAndSwap, and another turn of its loop.
CompareAndSwap(r) ==
  /\ pc[r] = "cas"
  /\ IF CasSucceeds(r)
     THEN /\ activeHTTP' = [activeHTTP EXCEPT ![sess[r]] = seen[r] + 1]
          /\ Goto(r, "register")
     ELSE /\ Goto(r, "load")
          /\ UNCHANGED activeHTTP
  /\ UNCHANGED <<sess, seen, read, outcome, body, gone, cancel, sessionVars,
                 pending, streamVars, wire, agentVars>>

\* s.pending[requestID] = stream
RegisterPending(r) ==
  /\ pc[r] = "register"
  /\ pending' = pending \cup {r}
  /\ Goto(r, "send")
  /\ UNCHANGED <<sess, seen, read, outcome, body, gone, cancel, activeHTTP, sessionVars,
                 streamVars, wire, agentVars>>

-----------------------------------------------------------------------------
(* sendProxyRequest, over writeAgentJSON and writeAgentBinary *)

sendUnchanged == <<sess, seen, body, gone, cancel, activeHTTP, sessionVars, pending,
                   streamVars, wire>>

\* A frame that is sent to session s is read by the agent ...
Reads(s) == s \in link \ deaf /\ UNCHANGED deaf

\* ... or goes down with the connection, and whatever is sent after it too.
Loses(s) == s \in link /\ deaf' = deaf \cup {s}

\* One writeAgentBytesPriority of proxy_request, or of the proxy_request_start of a
\* streamed body, to session s: sent for sure when it returns nil, and perhaps when
\* it returns an error.  A second copy is a new request to the agent, which turns
\* to the connection that copy came by.
WriteRequest(r, s, ok) ==
  \/ /\ Reads(s)
     /\ have' = [have EXCEPT ![r] = IF r \in Uploads THEN "part" ELSE "full"]
     /\ via' = [via EXCEPT ![r] = s]
     /\ next' = [next EXCEPT ![r] = 0]
     /\ twice' = IF have[r] = "no" THEN twice ELSE twice \cup {r}
  \/ ok /\ Loses(s) /\ UNCHANGED <<have, via, next, twice>>
  \/ ~ok /\ UNCHANGED <<have, via, next, deaf, twice>>

AfterRequest(r) == /\ Goto(r, IF r \in Uploads THEN "body" ELSE "await")
                   /\ UNCHANGED outcome

\* writeAgentJSONPriority: the write to the session that was looked up ...
SendRequest(r, ok) ==
  /\ pc[r] = "send"
  /\ WriteRequest(r, sess[r], ok)
  /\ IF ok THEN AfterRequest(r) ELSE Goto(r, "resend") /\ UNCHANGED outcome
  /\ UNCHANGED <<sendUnchanged, read, got>>

\* ... and, after an error, its repetition on the session that has replaced it.
ResendRequest(r, ok) ==
  /\ pc[r] = "resend"
  /\ \/ /\ registered \notin {0, sess[r]}
        /\ WriteRequest(r, registered, ok)
     \/ /\ registered \in {0, sess[r]} /\ ~ok
        /\ UNCHANGED <<have, via, next, deaf, twice>>
  /\ IF ok THEN AfterRequest(r) ELSE Ends(r, "sendFailed")
  /\ UNCHANGED <<sendUnchanged, read, got>>

\* The proxy_request_end goes the same two ways in one step: a second copy of it
\* tells the agent nothing.
Routes(r) == {sess[r], registered} \cap link

\* The agent's view after the end of the body, which sets it to h; the end of a
\* request it does not have tells it nothing.
Delivered(r, ok, h) ==
  \/ \E s \in Routes(r) : /\ Reads(s)
                          /\ have' = [have EXCEPT ![r] = IF @ = "no" THEN @ ELSE h]
                          /\ via' = [via EXCEPT ![r] = IF have[r] = "no" THEN @ ELSE s]
  \/ ok /\ (\E s \in Routes(r) : Loses(s)) /\ UNCHANGED <<have, via>>
  \/ ~ok /\ UNCHANGED <<have, via, deaf>>

\* Mutant: a failed chunk does not stop the upload.
AfterChunkErrorGoesOn == "body"

AfterChunkError == "abort"

\* One chunk of the body: a binary frame, only ever to the handler's session.
SendChunk(r, ok) ==
  /\ pc[r] = "body"
  /\ read[r] < UploadChunks
  /\ read' = [read EXCEPT ![r] = @ + 1]
  /\ \/ Reads(sess[r]) /\ got' = [got EXCEPT ![r] = @ + 1]
     \/ ok /\ Loses(sess[r]) /\ UNCHANGED got
     \/ ~ok /\ UNCHANGED <<got, deaf>>
  /\ Goto(r, IF ok THEN "body" ELSE AfterChunkError)
  /\ UNCHANGED <<sendUnchanged, outcome, have, via, next, twice>>

\* The body ends, cannot be read, or is larger than proxyRequestMaxBytes.
ReadBodyEnd(r) ==
  /\ pc[r] = "body"
  /\ \/ read[r] = UploadChunks /\ Goto(r, "finish")
     \/ Goto(r, "abort")
  /\ UNCHANGED <<sendUnchanged, outcome, read, agentVars>>

\* proxy_request_end with an error; its own result is ignored.
SendAbort(r) ==
  /\ pc[r] = "abort"
  /\ Delivered(r, FALSE, "failed")
  /\ Ends(r, "sendFailed")
  /\ UNCHANGED <<sendUnchanged, read, got, next, twice>>

\* proxy_request_end.
SendEnd(r, ok) ==
  /\ pc[r] = "finish"
  /\ Delivered(r, ok, "full")
  /\ IF ok THEN Goto(r, "await") /\ UNCHANGED outcome ELSE Ends(r, "sendFailed")
  /\ UNCHANGED <<sendUnchanged, read, got, next, twice>>

-----------------------------------------------------------------------------
(* proxyHTTPForTarget: the response *)

respUnchanged == <<sess, seen, read, gone, activeHTTP, sessionVars, pending, lost, wire, agentVars>>

\* case response = <-stream.headers; a buffered response is written at once
\* (or is not valid Base64), a streamed one has its header committed.
AwaitHeader(r) ==
  /\ pc[r] = "await"
  /\ hdr[r] # "none"
  /\ hdr' = [hdr EXCEPT ![r] = "none"]
  /\ IF hdr[r] = "error" THEN Ends(r, "badGateway")
     ELSE IF r \in Streamed THEN Goto(r, "stream") /\ UNCHANGED outcome
     ELSE Ends(r, "complete") \/ Ends(r, "badGateway")
  /\ UNCHANGED <<respUnchanged, body, cancel, chunks, err>>

\* case err := <-stream.errors, before or after the header.
TakeError(r) ==
  /\ pc[r] \in {"await", "stream"}
  /\ err[r]
  /\ err' = [err EXCEPT ![r] = FALSE]
  /\ Ends(r, IF pc[r] = "await" THEN "badGateway" ELSE "aborted")
  /\ UNCHANGED <<respUnchanged, body, cancel, hdr, chunks>>

\* Mutant: the relay loop has no case <-r.Context().Done().
WatchesContextNotInLoop(r) == pc[r] = "await"

WatchesContext(r) == pc[r] \in {"await", "stream"}

\* case <-r.Context().Done(): cancelProxyRequest, with its own deadline.
TakeGone(r) ==
  /\ WatchesContext(r)
  /\ r \in gone
  /\ cancel' = cancel \cup {r}
  /\ Ends(r, "canceled")
  /\ UNCHANGED <<respUnchanged, body, hdr, chunks, err>>

\* case <-time.After(proxyHTTPTimeout): only the header is waited for this way.
TakeTimeout(r) ==
  /\ pc[r] = "await"
  /\ Ends(r, "timeout")
  /\ UNCHANGED <<respUnchanged, body, cancel, hdr, chunks, err>>

\* case chunk := <-stream.chunks: its data is written to the browser, which
\* fails once it is gone; a final chunk ends the response.
TakeChunk(r) ==
  /\ pc[r] = "stream"
  /\ chunks[r] # <<>>
  /\ chunks' = [chunks EXCEPT ![r] = Tail(@)]
  /\ LET chunk == Head(chunks[r])
     IN \/ /\ body' = IF chunk.part = 0 THEN body ELSE [body EXCEPT ![r] = Append(@, chunk.part)]
           /\ IF chunk.final THEN Ends(r, "complete") ELSE UNCHANGED <<pc, outcome>>
        \/ /\ chunk.part # 0 /\ r \in gone
           /\ Ends(r, "writeFailed")
           /\ UNCHANGED body
  /\ UNCHANGED <<respUnchanged, cancel, hdr, err>>

\* Mutant: the delete is installed only after the request was sent.
PendingAfterSent(r) == IF outcome[r] = "sendFailed" THEN pending ELSE pending \ {r}

PendingAfter(r) == pending \ {r}

\* The deferred delete from s.pending; the stream becomes garbage.
Unwind(r) ==
  /\ pc[r] = "unwind"
  /\ pending' = PendingAfter(r)
  /\ hdr' = [hdr EXCEPT ![r] = "none"]
  /\ chunks' = [chunks EXCEPT ![r] = <<>>]
  /\ err' = [err EXCEPT ![r] = FALSE]
  /\ Goto(r, "release")
  /\ UNCHANGED <<sess, seen, read, outcome, body, gone, cancel, activeHTTP, sessionVars,
                 lost, wire, agentVars>>

\* The deferred releaseHTTP.
ReleaseSlot(r) ==
  /\ pc[r] = "release"
  /\ activeHTTP' = [activeHTTP EXCEPT ![sess[r]] = @ - 1]
  /\ Goto(r, "end")
  /\ UNCHANGED <<sess, seen, read, outcome, body, gone, cancel, sessionVars, pending,
                 streamVars, wire, agentVars>>

-----------------------------------------------------------------------------
(* The reader goroutine of each agent connection *)

\* stream.fail: the error is kept unless one is there already.
Fail(r) == err' = [err EXCEPT ![r] = TRUE]

\* stream.deliverHeader
DeliverHeader(r, h) ==
  /\ IF hdr[r] = "none" THEN hdr' = [hdr EXCEPT ![r] = h] /\ UNCHANGED err
                        ELSE Fail(r) /\ UNCHANGED hdr
  /\ UNCHANGED <<chunks, lost>>

\* Mutant: a send to stream.chunks that waits for room.
DeliverChunkBlocking(r, c) ==
  /\ Len(chunks[r]) < StreamQueue
  /\ chunks' = [chunks EXCEPT ![r] = Append(@, c)]
  /\ UNCHANGED <<hdr, err, lost>>

\* stream.deliverChunk: a full queue refuses the chunk and fails the stream.
DeliverChunk(r, c) ==
  /\ IF Len(chunks[r]) < StreamQueue
     THEN chunks' = [chunks EXCEPT ![r] = Append(@, c)] /\ UNCHANGED <<err, lost>>
     ELSE Fail(r) /\ lost' = lost \cup {r} /\ UNCHANGED chunks
  /\ UNCHANGED hdr

\* Mutant: messages are handled as they come to hand.
ReadIndexLast(s) == Len(wire[s])

\* conn.Read returns the messages of a connection in order.
ReadIndex(s) == 1

\* handleAgentMessage and handleAgentBinaryMessage: a message for a request
\* that is no longer pending is dropped.
Reader(s) ==
  /\ wire[s] # <<>>
  /\ LET i == ReadIndex(s)
         m == wire[s][i]
     IN /\ wire' = [wire EXCEPT ![s] = SubSeq(@, 1, i - 1) \o SubSeq(@, i + 1, Len(@))]
        /\ \/ m.req \notin pending /\ UNCHANGED streamVars
           \/ /\ m.req \in pending
              /\ \/ m.msg = "header" /\ DeliverHeader(m.req, "ok")
                 \/ m.msg = "headerError" /\ DeliverHeader(m.req, "error")
                 \/ m.msg \in {"chunk", "end"} /\ DeliverChunk(m.req, m.chunk)
                 \/ m.msg = "endError" /\ Fail(m.req) /\ UNCHANGED <<hdr, chunks, lost>>
  /\ UNCHANGED <<handlerVars, gone, cancel, activeHTTP, sessionVars, pending, agentVars>>

-----------------------------------------------------------------------------
(* The agent (external), its connections and the browsers *)

Emit(r, s, m, c, n) ==
  /\ s = via[r] /\ s \in link
  /\ Len(wire[s]) < WireLength
  /\ wire' = [wire EXCEPT ![s] = Append(@, [req |-> r, msg |-> m, chunk |-> c])]
  /\ next' = [next EXCEPT ![r] = n]
  /\ UNCHANGED <<handlerVars, gone, cancel, activeHTTP, sessionVars, pending, streamVars,
                 have, via, got, deaf, twice>>

\* The agent answers a request it has, over the connection it came by:
\* proxy_response or proxy_response_start, then the chunks in order, the last
\* one marked final or followed by proxy_response_end.
AgentAnswers(r, s) ==
  \/ /\ have[r] = "full" /\ next[r] = 0
     /\ Emit(r, s, "header", Chunk(0, FALSE), IF r \in Streamed THEN 1 ELSE Answered)
  \/ /\ next[r] \in 1 .. BodyChunks
     /\ Emit(r, s, "chunk", Chunk(next[r], FALSE), next[r] + 1)
  \/ /\ next[r] = BodyChunks /\ BodyChunks # 0
     /\ Emit(r, s, "chunk", Chunk(next[r], TRUE), Answered)
  \/ /\ next[r] = Ending
     /\ Emit(r, s, "end", Chunk(0, TRUE), Answered)

\* It may fail instead, before or after the header.
AgentFails(r, s) ==
  \/ have[r] # "no" /\ next[r] = 0 /\ Emit(r, s, "headerError", Chunk(0, FALSE), Answered)
  \/ next[r] \in 1 .. Ending /\ Emit(r, s, "endError", Chunk(0, FALSE), Answered)

envUnchanged == <<handlerVars, activeHTTP, pending, streamVars, agentVars, cancel>>

\* agentConnect registers a new session; a previous one is told to close.
AgentConnects ==
  /\ latest < MaxSessions
  /\ Table!Connect(0)
  /\ UNCHANGED <<envUnchanged, gone, wire>>

\* A connection breaks or is closed, with what was still to be read from it.
LinkDown(s) ==
  /\ Table!Drop(s)
  /\ wire' = [wire EXCEPT ![s] = <<>>]
  /\ UNCHANGED <<envUnchanged, gone>>

\* The cleanup of agentConnect.
Unregister(s) == Table!Forget(s) /\ UNCHANGED <<envUnchanged, gone, wire>>

\* revokeAgent takes the session out while its connection is still up.
Revoke == Table!Revoke /\ UNCHANGED <<envUnchanged, gone, wire>>

\* r.Context() ends while the handler runs.
BrowserLeaves(r) ==
  /\ pc[r] \notin {"idle", "unwind", "release", "end"}
  /\ r \notin gone
  /\ gone' = gone \cup {r}
  /\ UNCHANGED <<envUnchanged, sessionVars, wire>>

-----------------------------------------------------------------------------
Acquire(r) == LoadActive(r) \/ CompareAndSwap(r) \/ RegisterPending(r)

Send(r) == \/ \E ok \in BOOLEAN : \/ SendRequest(r, ok) \/ ResendRequest(r, ok)
                                \/ SendChunk(r, ok) \/ SendEnd(r, ok)
           \/ ReadBodyEnd(r)
           \/ SendAbort(r)

Respond(r) == AwaitHeader(r) \/ TakeError(r) \/ TakeGone(r) \/ TakeTimeout(r) \/ TakeChunk(r)

Handler(r) == \/ EarlyReturn(r) \/ LookupSession(r)
              \/ Acquire(r) \/ Send(r) \/ Respond(r)
              \/ Unwind(r) \/ ReleaseSlot(r)

Steady == \/ \E r \in Requests : Handler(r)
          \/ \E s \in Sessions : Reader(s)
          \/ \E r \in Requests, s \in Sessions : AgentAnswers(r, s) \/ AgentFails(r, s)
          \/ AgentConnects

Next == \/ Steady
        \/ \E s \in Sessions : LinkDown(s) \/ Unregister(s)
        \/ Revoke
        \/ \E r \in Requests : BrowserLeaves(r)

Spec == Init /\ [][Next]_vars

\* A handler that has started is scheduled, a write to the agent returns (its
\* context or the closed scheduler ends it at the latest), the timer fires, and
\* the readers run.  Nothing is assumed of the agent or of the browsers.
Started(r) == pc[r] # "idle" /\ Handler(r)

Fairness == /\ \A r \in Requests : WF_vars(Started(r))
            /\ \A s \in Sessions : WF_vars(Reader(s))

FairSpec == Spec /\ Fairness

-----------------------------------------------------------------------------
(* Properties *)

\* The handlers between a successful tryAcquireHTTP and their releaseHTTP.
HoldsSlot(r) == pc[r] \in {"register", "send", "resend", "body", "abort", "finish", "await",
                           "stream", "unwind", "release"}

Holders(s) == {r \in Requests : sess[r] = s /\ HoldsSlot(r)}

\* activeHTTP counts exactly the handlers that hold a slot of the session, on
\* every path out of proxyHTTPForTarget, and stays within proxyHTTPMaxInFlight
\* however the loads and the compare-and-swaps of several handlers interleave.
SlotAccounting ==
  \A s \in Sessions : /\ activeHTTP[s] = Cardinality(Holders(s))
                      /\ activeHTTP[s] <= MaxInFlight

\* s.pending holds exactly the requests that can still use an answer: nothing is
\* left behind by an error path, and no answer to a request that was sent is
\* dropped while its handler waits for it.
PendingExact ==
  \A r \in Requests : r \in pending <=> HoldsSlot(r) /\ pc[r] \notin {"register", "release"}

\* The browser gets the chunks in the agent's order, with none missing or
\* repeated, as long as none was refused by deliverChunk and the agent was not
\* given the request twice; a response that ends with the final marker is then
\* the whole body.  A retry alone, through however many reconnections, breaks
\* nothing.
StreamIntegrity ==
  \A r \in Requests \ (lost \cup twice) :
    /\ \A i \in 1 .. Len(body[r]) : body[r][i] = i
    /\ (outcome[r] = "complete" /\ r \in Streamed) => Len(body[r]) = BodyChunks

\* The comment on proxyStream: a slow browser cannot stall the agent
\* connection's single reader.  Whatever is at the front of a connection, in
\* whatever state the stream it is for has been left by its handler, the reader
\* can take it.
ReaderNeverBlocks == \A s \in Sessions : wire[s] # <<>> => ENABLED Reader(s)

\* The agent takes a streamed request for complete only when it has every chunk
\* of its body: a chunk that failed, was cut off or went to a connection that
\* has been replaced is never followed by a proxy_request_end without error.  There
\* is one way round it, and no other: the chunks went down with their connection
\* after their writes had returned nil, and the proxy_request_end, whose own write
\* to that connection failed, was repeated on a newer one.
UploadIntegrity ==
  \A r \in Uploads :
    have[r] = "full" => got[r] = UploadChunks \/ (sess[r] \in deaf /\ via[r] # sess[r])

\* docs/protocol-v1.md: the manager isolates and aborts the stream of a slow
\* browser that exceeds its queue.  So a response a chunk of which was dropped
\* does not end like a complete one.
OverflowAborts ==
  \A r \in Requests : r \in lost => outcome[r] # "complete"

\* docs/protocol-v1.md: when the context of a browser request ends, the manager
\* tries to send proxy_cancel for the upstream work.  So a handler that ends
\* after its browser has left, with the agent still at work, has tried.
CancelOnDisconnect ==
  \A r \in Requests :
    (pc[r] = "end" /\ r \in gone /\ have[r] # "no" /\ next[r] # Answered) => r \in cancel

\* The handler of a browser that has left ends, in whatever phase it is, and
\* gives its slot back, even when the agent is never heard of again.
GoneRequestsEnd == \A r \in Requests : (r \in gone) ~> (pc[r] = "end")
==============================================================================
