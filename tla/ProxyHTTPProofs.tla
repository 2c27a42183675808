--------------------------- MODULE ProxyHTTPProofs ---------------------------
(***************************************************************************)
(* Machine-checked proofs about ProxyHTTP: the in-flight limit, the        *)
(* pending table, the types, and the integrity of streamed request bodies  *)
(* and responses, for every finite set of requests, every limit, queue     *)
(* length, body length and number of reconnections.                        *)
(***************************************************************************)
EXTENDS ProxyHTTP, FiniteSetTheorems, SequenceTheorems, TLAPS

\* The part of TypeOK the slots depend on.
SlotTypes ==
  /\ pc \in [Requests -> HandlerStates]
  /\ sess \in [Requests -> 0 .. MaxSessions]
  /\ seen \in [Requests -> Nat]
  /\ activeHTTP \in [Sessions -> Nat]
  /\ registered \in 0 .. MaxSessions
  /\ latest \in 0 .. MaxSessions

\* A handler past the lookup has a session, and a compare-and-swap is only tried
\* with a value below the limit.
HandlerInv ==
  \A r \in Requests : /\ pc[r] \notin {"idle", "end"} => sess[r] \in Sessions
                      /\ pc[r] = "cas" => seen[r] < MaxInFlight

SlotInv == SlotTypes /\ HandlerInv /\ SlotAccounting /\ PendingExact

\* Sessions are numbered from one.
LEMMA SessionFacts == /\ \A s \in 0 .. MaxSessions : s # 0 => s \in Sessions
                      /\ \A n \in 0 .. MaxSessions : n < MaxSessions => n + 1 \in 0 .. MaxSessions
                      /\ \A s \in Sessions : s \in 0 .. MaxSessions
                      /\ 0 \in 0 .. MaxSessions
BY LimitAssumption DEF Sessions

\* The holders of a session are a finite set.
LEMMA HoldersFinite == \A s \in Sessions : IsFiniteSet(Holders(s))
<1> SUFFICES ASSUME NEW s \in Sessions PROVE IsFiniteSet(Holders(s))
  OBVIOUS
<1>1. Holders(s) \subseteq Requests
  BY DEF Holders
<1> QED
  BY <1>1, FS_Subset, RequestsAssumption

\* A step that moves one handler, takes or returns no slot and leaves the pending
\* table right keeps the invariant.
LEMMA HandlerMoves ==
  ASSUME SlotInv, NEW r \in Requests, NEW p \in HandlerStates,
         Goto(r, p), UNCHANGED <<activeHTTP, registered, latest>>,
         IF pc[r] = "idle" /\ p = "load"
           THEN registered # 0 /\ sess' = [sess EXCEPT ![r] = registered]
           ELSE sess' = sess,
         pc[r] # "end",
         seen' = seen \/ \E n \in Nat : seen' = [seen EXCEPT ![r] = n] /\ n < MaxInFlight,
         p = "cas" => seen'[r] < MaxInFlight,
         pc[r] = "idle" => p \in {"load", "end"},
         p \in {"register", "send", "resend", "body", "abort", "finish", "await", "stream", "unwind", "release"}
           <=> HoldsSlot(r),
         pending' = pending,
         (p \in {"register", "release"} \/ pc[r] \in {"register", "release"}) => p = pc[r]
  PROVE  SlotInv'
<1> USE DEF SlotInv
<1>1. SlotTypes'
  BY DEF SlotTypes, Goto
<1>2. pc'[r] = p /\ \A q \in Requests : q # r => pc'[q] = pc[q]
  BY DEF Goto, SlotTypes
<1>3. HandlerInv'
  <2>1. \A q \in Requests : pc'[q] \notin {"idle", "end"} => sess'[q] \in Sessions
    <3> SUFFICES ASSUME NEW q \in Requests, pc'[q] \notin {"idle", "end"} PROVE sess'[q] \in Sessions
      OBVIOUS
    <3>1. CASE q # r
      BY <3>1, <1>2 DEF HandlerInv, SlotTypes
    <3>2. CASE q = r /\ pc[r] = "idle"
      BY <3>2, <1>2, SessionFacts DEF SlotTypes
    <3>3. CASE q = r /\ pc[r] # "idle"
      BY <3>3, <1>2 DEF HandlerInv
    <3> QED
      BY <3>1, <3>2, <3>3
  <2>2. \A q \in Requests : pc'[q] = "cas" => seen'[q] < MaxInFlight
    BY <1>2 DEF HandlerInv, SlotTypes
  <2> QED
    BY <2>1, <2>2 DEF HandlerInv
<1>4. \A q \in Requests : HoldsSlot(q)' <=> HoldsSlot(q)
  BY <1>2 DEF HoldsSlot
<1>5. \A q \in Requests : HoldsSlot(q) => sess'[q] = sess[q]
  BY DEF HoldsSlot, SlotTypes
<1>6. \A s \in Sessions : Holders(s)' = Holders(s)
  BY <1>4, <1>5 DEF Holders
<1>7. SlotAccounting'
  BY <1>6 DEF SlotAccounting
<1>8. PendingExact'
  BY <1>2, <1>4 DEF PendingExact
<1> QED
  BY <1>1, <1>3, <1>7, <1>8

\* So does a step that touches nothing the invariant speaks of.
LEMMA SlotsUntouched ==
  ASSUME SlotInv, UNCHANGED <<pc, sess, seen, activeHTTP, pending>>,
         registered' \in 0 .. MaxSessions, latest' \in 0 .. MaxSessions
  PROVE  SlotInv'
<1>1. \A s \in Sessions : Holders(s)' = Holders(s)
  BY DEF Holders, HoldsSlot
<1> QED
  BY <1>1 DEF SlotInv, SlotTypes, HandlerInv, SlotAccounting, PendingExact, HoldsSlot

\* tryAcquireHTTP takes one slot, and only below the limit.
LEMMA CasKeeps ==
  ASSUME SlotInv, NEW r \in Requests, CompareAndSwap(r) PROVE SlotInv'
<1> USE DEF SlotInv
<1>0. /\ sess[r] \in Sessions /\ seen[r] \in Nat /\ seen[r] < MaxInFlight /\ pc[r] = "cas"
      /\ UNCHANGED <<sess, seen, pending, registered, latest>>
  BY DEF CompareAndSwap, HandlerInv, SlotTypes, sessionVars
<1>1. CASE ~CasSucceeds(r)
  <2>1. Goto(r, "load") /\ UNCHANGED activeHTTP
    BY <1>1 DEF CompareAndSwap
  <2> QED
    BY <1>0, <2>1, HandlerMoves DEF HandlerStates, HoldsSlot
<1>2. CASE CasSucceeds(r)
  <2>1. /\ activeHTTP' = [activeHTTP EXCEPT ![sess[r]] = seen[r] + 1]
        /\ activeHTTP[sess[r]] = seen[r]
        /\ pc' = [pc EXCEPT ![r] = "register"]
    BY <1>2 DEF CompareAndSwap, CasSucceeds, Goto
  <2>2. pc'[r] = "register" /\ \A q \in Requests : q # r => pc'[q] = pc[q]
    BY <2>1 DEF SlotTypes
  <2>3. SlotTypes'
    BY <1>0, <2>1 DEF SlotTypes, HandlerStates
  <2>4. HandlerInv'
    BY <1>0, <2>2 DEF HandlerInv
  <2>5. /\ r \notin Holders(sess[r]) /\ Holders(sess[r])' = Holders(sess[r]) \cup {r}
        /\ \A s \in Sessions : s # sess[r] => Holders(s)' = Holders(s)
    BY <1>0, <2>2 DEF Holders, HoldsSlot
  <2>6. Cardinality(Holders(sess[r]) \cup {r}) = Cardinality(Holders(sess[r])) + 1
    BY <1>0, <2>5, HoldersFinite, FS_AddElement
  <2>7. SlotAccounting'
    <3> SUFFICES ASSUME NEW s \in Sessions
                 PROVE  activeHTTP'[s] = Cardinality(Holders(s)') /\ activeHTTP'[s] <= MaxInFlight
      BY DEF SlotAccounting
    <3>1. CASE s = sess[r]
      <4>1. activeHTTP'[s] = seen[r] + 1 /\ activeHTTP[s] = Cardinality(Holders(s))
        BY <3>1, <2>1, <1>0 DEF SlotTypes, SlotAccounting
      <4>2. Holders(s)' = Holders(s) \cup {r}
        BY <3>1, <2>5, <1>0
      <4> QED
        BY <4>1, <4>2, <3>1, <2>1, <2>6, <1>0, LimitAssumption
    <3>2. CASE s # sess[r]
      BY <3>2, <2>1, <2>5 DEF SlotTypes, SlotAccounting
    <3> QED
      BY <3>1, <3>2
  <2>8. PendingExact'
    BY <1>0, <2>2 DEF PendingExact, HoldsSlot
  <2> QED
    BY <2>3, <2>4, <2>7, <2>8
<1> QED
  BY <1>1, <1>2

\* releaseHTTP returns the slot of the session it was taken from.
LEMMA ReleaseKeeps ==
  ASSUME SlotInv, NEW r \in Requests, ReleaseSlot(r) PROVE SlotInv'
<1> USE DEF SlotInv
<1>0. /\ sess[r] \in Sessions /\ pc[r] = "release"
      /\ UNCHANGED <<sess, seen, pending, registered, latest>>
      /\ activeHTTP' = [activeHTTP EXCEPT ![sess[r]] = @ - 1]
      /\ pc' = [pc EXCEPT ![r] = "end"]
  BY DEF ReleaseSlot, HandlerInv, sessionVars, Goto
<1>1. pc'[r] = "end" /\ \A q \in Requests : q # r => pc'[q] = pc[q]
  BY <1>0 DEF SlotTypes
<1>2. /\ r \in Holders(sess[r]) /\ Holders(sess[r])' = Holders(sess[r]) \ {r}
      /\ \A s \in Sessions : s # sess[r] => Holders(s)' = Holders(s)
  BY <1>0, <1>1 DEF Holders, HoldsSlot
<1>3. /\ Cardinality(Holders(sess[r]) \ {r}) = Cardinality(Holders(sess[r])) - 1
      /\ Cardinality(Holders(sess[r])) \in Nat
      /\ Cardinality(Holders(sess[r]) \ {r}) \in Nat
  BY <1>0, <1>2, HoldersFinite, FS_RemoveElement, FS_CardinalityType
<1>4. /\ activeHTTP[sess[r]] = Cardinality(Holders(sess[r]))
      /\ activeHTTP'[sess[r]] = activeHTTP[sess[r]] - 1
      /\ activeHTTP[sess[r]] <= MaxInFlight
      /\ \A s \in Sessions : s # sess[r] => activeHTTP'[s] = activeHTTP[s]
  BY <1>0 DEF SlotTypes, SlotAccounting
<1>5. SlotTypes'
  <2>1. activeHTTP' \in [Sessions -> Nat]
    BY <1>0, <1>3, <1>4 DEF SlotTypes
  <2> QED
    BY <1>0, <2>1 DEF SlotTypes, HandlerStates
<1>6. HandlerInv'
  BY <1>0, <1>1 DEF HandlerInv
<1>7. SlotAccounting'
  <2> SUFFICES ASSUME NEW s \in Sessions
               PROVE  activeHTTP'[s] = Cardinality(Holders(s)') /\ activeHTTP'[s] <= MaxInFlight
    BY DEF SlotAccounting
  <2>1. CASE s = sess[r]
    <3>1. Holders(s)' = Holders(s) \ {r}
      BY <2>1, <1>2, <1>0
    <3> QED
      BY <2>1, <3>1, <1>3, <1>4, LimitAssumption
  <2>2. CASE s # sess[r]
    BY <2>2, <1>2, <1>4 DEF SlotAccounting
  <2> QED
    BY <2>1, <2>2
<1>8. PendingExact'
  BY <1>0, <1>1 DEF PendingExact, HoldsSlot
<1> QED
  BY <1>5, <1>6, <1>7, <1>8

\* The request enters and leaves the pending table with its slot held.
LEMMA PendingKeeps ==
  ASSUME SlotInv, NEW r \in Requests, RegisterPending(r) \/ Unwind(r) PROVE SlotInv'
<1> USE DEF SlotInv
<1>0. /\ UNCHANGED <<sess, seen, activeHTTP, registered, latest>>
      /\ \/ pc[r] = "register" /\ pc' = [pc EXCEPT ![r] = "send"] /\ pending' = pending \cup {r}
         \/ pc[r] = "unwind" /\ pc' = [pc EXCEPT ![r] = "release"] /\ pending' = pending \ {r}
  BY DEF RegisterPending, Unwind, PendingAfter, Goto, sessionVars
<1>1. /\ \A q \in Requests : q # r => pc'[q] = pc[q]
      /\ \/ pc[r] = "register" /\ pc'[r] = "send" /\ pending' = pending \cup {r}
         \/ pc[r] = "unwind" /\ pc'[r] = "release" /\ pending' = pending \ {r}
  BY <1>0 DEF SlotTypes
<1>2. SlotTypes' /\ HandlerInv'
  BY <1>0, <1>1 DEF SlotTypes, HandlerStates, HandlerInv
<1>3. \A q \in Requests : HoldsSlot(q)' <=> HoldsSlot(q)
  BY <1>1 DEF HoldsSlot
<1>4. \A s \in Sessions : Holders(s)' = Holders(s)
  BY <1>0, <1>3 DEF Holders
<1>5. SlotAccounting'
  BY <1>0, <1>4 DEF SlotAccounting
<1>6. PendingExact'
  BY <1>1, <1>3 DEF PendingExact, HoldsSlot
<1> QED
  BY <1>2, <1>5, <1>6

\* Every step of the handlers, the readers, the agent and the browsers.
LEMMA SlotStep == SlotInv /\ [Next]_vars => SlotInv'
<1> SUFFICES ASSUME SlotInv, [Next]_vars PROVE SlotInv'
  OBVIOUS
<1>0. SlotTypes /\ HandlerInv
  BY DEF SlotInv
<1> USE DEF HandlerStates, HoldsSlot, sessionVars
<1>1. ASSUME NEW r \in Requests, EarlyReturn(r) PROVE SlotInv'
  BY <1>1, HandlerMoves DEF EarlyReturn
<1>2. ASSUME NEW r \in Requests, LookupSession(r) PROVE SlotInv'
  BY <1>2, HandlerMoves DEF LookupSession
<1>3. ASSUME NEW r \in Requests, LoadActive(r) PROVE SlotInv'
  <2>1. /\ pc[r] = "load" /\ UNCHANGED <<sess, activeHTTP, registered, latest, pending>>
        /\ activeHTTP[sess[r]] \in Nat /\ seen \in [Requests -> Nat]
    BY <1>3, <1>0 DEF LoadActive, SlotTypes, HandlerInv
  <2>2. CASE activeHTTP[sess[r]] >= MaxInFlight
    <3>1. Goto(r, "end") /\ UNCHANGED seen
      BY <2>2, <1>3 DEF LoadActive, AfterReject
    <3> QED
      BY <2>1, <3>1, HandlerMoves
  <2>3. CASE ~(activeHTTP[sess[r]] >= MaxInFlight)
    <3>1. Goto(r, "cas") /\ seen' = [seen EXCEPT ![r] = activeHTTP[sess[r]]]
      BY <2>3, <1>3 DEF LoadActive
    <3>2. activeHTTP[sess[r]] < MaxInFlight /\ seen'[r] = activeHTTP[sess[r]]
      BY <2>1, <2>3, <3>1, LimitAssumption
    <3> QED
      BY <2>1, <3>1, <3>2, HandlerMoves
  <2> QED
    BY <2>2, <2>3
<1>4. ASSUME NEW r \in Requests, Send(r) PROVE SlotInv'
  <2>1. UNCHANGED <<sess, seen, activeHTTP, registered, latest, pending>>
    BY <1>4 DEF Send, SendRequest, ResendRequest, SendChunk, ReadBodyEnd, SendAbort, SendEnd, sendUnchanged
  <2>2. /\ pc[r] \in {"send", "resend", "body", "abort", "finish"}
        /\ \E p \in {"resend", "body", "await", "abort", "finish", "unwind"} : Goto(r, p)
    BY <1>4 DEF Send, SendRequest, ResendRequest, AfterRequest, SendChunk, ReadBodyEnd, SendAbort, SendEnd,
                Ends, AfterChunkError
  <2> QED
    BY <2>1, <2>2, HandlerMoves
<1>5. ASSUME NEW r \in Requests, Respond(r) PROVE SlotInv'
  <2>1. UNCHANGED <<sess, seen, activeHTTP, registered, latest, pending>>
    BY <1>5 DEF Respond, AwaitHeader, TakeError, TakeGone, TakeTimeout, TakeChunk, respUnchanged
  <2>2. /\ pc[r] \in {"await", "stream"}
        /\ UNCHANGED pc \/ \E p \in {"stream", "unwind"} : Goto(r, p)
    BY <1>5 DEF Respond, AwaitHeader, TakeError, TakeGone, TakeTimeout, TakeChunk, Ends, WatchesContext
  <2>3. CASE UNCHANGED pc
    BY <2>1, <2>3, <1>0, SlotsUntouched DEF SlotTypes
  <2>4. CASE \E p \in {"stream", "unwind"} : Goto(r, p)
    BY <2>1, <2>2, <2>4, HandlerMoves
  <2> QED
    BY <2>2, <2>3, <2>4
<1>6. CASE \/ \E s \in Sessions : Reader(s) \/ LinkDown(s) \/ Unregister(s)
           \/ \E r \in Requests, s \in Sessions : AgentAnswers(r, s) \/ AgentFails(r, s)
           \/ AgentConnects \/ Revoke
           \/ \E r \in Requests : BrowserLeaves(r)
           \/ UNCHANGED vars
  <2>1. UNCHANGED <<pc, sess, seen, activeHTTP, pending>>
    <3>1. ASSUME NEW r \in Requests, NEW s \in Sessions, AgentAnswers(r, s) \/ AgentFails(r, s)
          PROVE UNCHANGED <<pc, sess, seen, activeHTTP, pending>>
      BY <3>1 DEF AgentAnswers, AgentFails, Emit, handlerVars
    <3>2. ASSUME NEW s \in Sessions, Reader(s)
          PROVE UNCHANGED <<pc, sess, seen, activeHTTP, pending>>
      BY <3>2 DEF Reader, handlerVars
    <3>3. ASSUME NEW s \in Sessions, LinkDown(s) \/ Unregister(s)
          PROVE UNCHANGED <<pc, sess, seen, activeHTTP, pending>>
      BY <3>3 DEF LinkDown, Unregister, envUnchanged, handlerVars
    <3>4. ASSUME AgentConnects \/ Revoke \/ \E r \in Requests : BrowserLeaves(r)
          PROVE UNCHANGED <<pc, sess, seen, activeHTTP, pending>>
      BY <3>4 DEF AgentConnects, Revoke, BrowserLeaves, envUnchanged, handlerVars
    <3>5. ASSUME UNCHANGED vars PROVE UNCHANGED <<pc, sess, seen, activeHTTP, pending>>
      BY <3>5 DEF vars, handlerVars
    <3> QED
      BY <3>1, <3>2, <3>3, <3>4, <3>5, <1>6
  <2>2. registered' \in 0 .. MaxSessions /\ latest' \in 0 .. MaxSessions
    <3>1. CASE AgentConnects
      BY <3>1, <1>0, SessionFacts, LimitAssumption DEF AgentConnects, Table!Connect, SlotTypes
    <3>2. CASE Revoke \/ \E s \in Sessions : Unregister(s)
      BY <3>2, <1>0, SessionFacts DEF Revoke, Unregister, Table!Revoke, Table!Forget, SlotTypes
    <3>3. CASE UNCHANGED <<registered, latest>>
      BY <3>3, <1>0 DEF SlotTypes
    <3>4. \/ AgentConnects \/ Revoke \/ \E s \in Sessions : Unregister(s)
          \/ UNCHANGED <<registered, latest>>
      <4>1. ASSUME NEW r \in Requests, NEW s \in Sessions, AgentAnswers(r, s) \/ AgentFails(r, s)
            PROVE UNCHANGED <<registered, latest>>
        BY <4>1 DEF AgentAnswers, AgentFails, Emit
      <4>2. ASSUME NEW s \in Sessions, Reader(s) \/ LinkDown(s)
            PROVE UNCHANGED <<registered, latest>>
        BY <4>2 DEF Reader, LinkDown, Table!Drop
      <4>3. ASSUME NEW r \in Requests, BrowserLeaves(r)
            PROVE UNCHANGED <<registered, latest>>
        BY <4>3 DEF BrowserLeaves
      <4> QED
        BY <4>1, <4>2, <4>3, <1>6 DEF vars
    <3> QED
      BY <3>1, <3>2, <3>3, <3>4
  <2> QED
    BY <2>1, <2>2, SlotsUntouched
<1> QED
  BY <1>1, <1>2, <1>3, <1>4, <1>5, <1>6, CasKeeps, ReleaseKeeps, PendingKeeps
  DEF Next, Steady, Handler, Acquire

\* It holds before the first request.
LEMMA SlotInit == Init => SlotInv
<1> SUFFICES ASSUME Init PROVE SlotInv
  OBVIOUS
<1>1. \A r \in Requests : pc[r] = "idle"
  BY DEF Init
<1>2. \A s \in Sessions : Holders(s) = {}
  BY <1>1 DEF Holders, HoldsSlot
<1>3. SlotAccounting
  <2>1. \A s \in Sessions : activeHTTP[s] = 0
    BY DEF Init
  <2>2. Cardinality({}) = 0 /\ 0 <= MaxInFlight
    BY FS_EmptySet, LimitAssumption
  <2> QED
    BY <1>2, <2>1, <2>2 DEF SlotAccounting
<1>4. SlotTypes
  BY SessionFacts DEF Init, SlotTypes, HandlerStates
<1>5. HandlerInv /\ PendingExact
  BY <1>1 DEF HandlerInv, PendingExact, HoldsSlot, Init
<1> QED
  BY <1>3, <1>4, <1>5 DEF SlotInv

\* The limiter is exact: on every interleaving of any number of handlers, with
\* any number of reconnections, activeHTTP equals the number of handlers that
\* hold a slot of the session and never exceeds proxyHTTPMaxInFlight.
THEOREM SlotsAccounted == Spec => []SlotAccounting
<1>1. SlotInv => SlotAccounting
  BY DEF SlotInv
<1> QED
  BY <1>1, SlotInit, SlotStep, PTL DEF Spec

\* No path out of the handler leaves its stream in s.pending, and a handler that
\* waits for an answer is always in it.
THEOREM PendingIsExact == Spec => []PendingExact
<1>1. SlotInv => PendingExact
  BY DEF SlotInv
<1> QED
  BY <1>1, SlotInit, SlotStep, PTL DEF Spec
-----------------------------------------------------------------------------
(* Types, and the streamed request body *)

\* What is left of TypeOK beside SlotTypes.
StreamTypes ==
  /\ gone \in SUBSET Requests
  /\ outcome \in [Requests -> Outcomes]
  /\ body \in [Requests -> Seq(Nat)]
  /\ cancel \in SUBSET Requests
  /\ link \in SUBSET Sessions
  /\ pending \in SUBSET Requests
  /\ hdr \in [Requests -> {"none", "ok", "error"}]
  /\ chunks \in [Requests -> Seq(Chunks)]
  /\ err \in [Requests -> BOOLEAN]
  /\ wire \in [Sessions -> Seq([req : Requests, msg : Messages, chunk : Chunks])]
  /\ have \in [Requests -> {"no", "part", "full", "failed"}]
  /\ via \in [Requests -> 0 .. MaxSessions]
  /\ next \in [Requests -> 0 .. Answered]
  /\ deaf \in SUBSET Sessions
  /\ twice \in SUBSET Requests
  /\ lost \in SUBSET Requests

BodyTypes == read \in [Requests -> 0 .. UploadChunks] /\ got \in [Requests -> 0 .. UploadChunks]

\* The handler has sent no chunk that failed.
UploadRuns(r) == pc[r] \in {"idle", "load", "cas", "register", "send", "resend", "body", "finish"}

\* The agent has every chunk the handler has read, until one fails or goes down with
\* the connection of the upload, over which no end comes any more then.
UploadOK(r) ==
  /\ got[r] <= read[r]
  /\ UploadRuns(r) => got[r] = read[r] \/ sess[r] \in deaf
  /\ pc[r] = "idle" => read[r] = 0
  /\ pc[r] = "finish" => read[r] = UploadChunks
  /\ (r \in Uploads /\ have[r] = "full") =>
       ~UploadRuns(r) /\ (got[r] = UploadChunks \/ (sess[r] \in deaf /\ via[r] # sess[r]))

UploadInv == BodyTypes /\ \A r \in Requests : UploadOK(r)


\* The places of a response and what the agent may send.
LEMMA PartFacts ==
  /\ 0 \in 0 .. Answered /\ 1 \in 0 .. Answered /\ Answered \in 0 .. Answered
  /\ Ending \in Nat /\ Answered \in Nat /\ Answered # 0 /\ Answered = Ending + 1
  /\ \A n \in 1 .. BodyChunks : n + 1 \in 0 .. Answered /\ n \in Nat
  /\ \A n \in Nat, b \in BOOLEAN : Chunk(n, b) \in Chunks
BY BodyAssumption DEF Ending, Answered, Chunk, Chunks

\* The head and the rest of a queue.
LEMMA QueueFacts ==
  ASSUME NEW S, NEW q \in Seq(S), q # <<>>
  PROVE  /\ Len(q) \in Nat \ {0} /\ Head(q) = q[1] /\ q[1] \in S
         /\ Tail(q) \in Seq(S) /\ Len(Tail(q)) = Len(q) - 1
         /\ \A i \in 1 .. Len(q) - 1 : Tail(q)[i] = q[i + 1]
         /\ SubSeq(q, 1, 0) \o SubSeq(q, 2, Len(q)) = Tail(q)
<1>1. Len(q) \in Nat \ {0}
  BY EmptySeq
<1>2. 1 \in 1 .. Len(q)
  BY <1>1
<1>3. q[1] \in S
  BY <1>2, ElementOfSeq
<1>4. Head(q) = q[1]
  BY <1>1
<1>5. /\ Tail(q) \in Seq(S) /\ Len(Tail(q)) = Len(q) - 1
      /\ \A i \in 1 .. Len(q) - 1 : Tail(q)[i] = q[i + 1]
  BY HeadTailProperties
<1>6. SubSeq(q, 1, 0) = <<>> /\ SubSeq(q, 2, Len(q)) = Tail(q)
  BY SubSeqEmpty, TailIsSubSeq
<1>7. <<>> \o Tail(q) = Tail(q)
  BY <1>5, ConcatEmptySeq
<1> QED
  BY <1>1, <1>3, <1>4, <1>5, <1>6, <1>7

\* The handler's steps before and while the request is sent.
LEMMA SendTypes ==
  ASSUME SlotInv, StreamTypes, NEW r \in Requests,
         \/ EarlyReturn(r) \/ LookupSession(r) \/ Acquire(r) \/ Send(r) \/ Unwind(r) \/ ReleaseSlot(r)
  PROVE  StreamTypes'
<1> USE DEF StreamTypes, sessionVars, streamVars, agentVars
<1>0. CASE EarlyReturn(r) \/ LookupSession(r) \/ Acquire(r) \/ ReleaseSlot(r)
  BY <1>0 DEF EarlyReturn, LookupSession, Acquire, LoadActive, CompareAndSwap, RegisterPending,
              ReleaseSlot, Outcomes
<1>1. CASE Unwind(r)
  <2>1. <<>> \in Seq(Chunks)
    BY EmptySeq
  <2> QED
    BY <1>1, <2>1 DEF Unwind, PendingAfter
<1>2. ASSUME NEW ok \in BOOLEAN, NEW v \in {"part", "full", "failed"}, Delivered(r, ok, v)
      PROVE  /\ have' \in [Requests -> {"no", "part", "full", "failed"}]
             /\ via' \in [Requests -> 0 .. MaxSessions] /\ deaf' \in SUBSET Sessions
  <2>1. deaf' \in SUBSET Sessions
    BY <1>2 DEF Delivered, Reads, Loses
  <2>2. CASE UNCHANGED <<have, via>>
    BY <2>1, <2>2
  <2>3. CASE \E s \in Routes(r) : /\ Reads(s)
                                  /\ have' = [have EXCEPT ![r] = IF @ = "no" THEN @ ELSE v]
                                  /\ via' = [via EXCEPT ![r] = IF have[r] = "no" THEN @ ELSE s]
    BY <2>1, <2>3, SessionFacts DEF Reads
  <2> QED
    BY <1>2, <2>2, <2>3 DEF Delivered
<1>3. ASSUME NEW w \in {sess[r], registered}, NEW ok \in BOOLEAN, WriteRequest(r, w, ok)
      PROVE  /\ have' \in [Requests -> {"no", "part", "full", "failed"}]
             /\ via' \in [Requests -> 0 .. MaxSessions]
             /\ next' \in [Requests -> 0 .. Answered] /\ twice' \in SUBSET Requests
             /\ deaf' \in SUBSET Sessions
  <2>0. deaf' \in SUBSET Sessions
    BY <1>3 DEF WriteRequest, Reads, Loses
  <2>1. CASE UNCHANGED <<have, via, next, twice>>
    BY <2>0, <2>1
  <2>2. CASE /\ w \in link /\ have' = [have EXCEPT ![r] = IF r \in Uploads THEN "part" ELSE "full"]
             /\ via' = [via EXCEPT ![r] = w] /\ next' = [next EXCEPT ![r] = 0]
             /\ twice' \in {twice, twice \cup {r}}
    <3>1. w \in 0 .. MaxSessions /\ 0 \in 0 .. Answered
      BY <2>2, SessionFacts, PartFacts
    <3> QED
      BY <2>0, <2>2, <3>1
  <2> QED
    BY <1>3, <2>1, <2>2 DEF WriteRequest, Reads
<1>4. CASE Send(r)
  <2>1. /\ have' \in [Requests -> {"no", "part", "full", "failed"}]
        /\ via' \in [Requests -> 0 .. MaxSessions]
        /\ next' \in [Requests -> 0 .. Answered] /\ twice' \in SUBSET Requests
        /\ deaf' \in SUBSET Sessions
    <3>1. \/ \E ok \in BOOLEAN, v \in {"part", "full", "failed"} :
               Delivered(r, ok, v) /\ UNCHANGED <<next, twice>>
          \/ \E w \in {sess[r], registered}, ok \in BOOLEAN : WriteRequest(r, w, ok)
          \/ UNCHANGED <<have, via, next, twice>> /\ deaf' \in SUBSET Sessions
      BY <1>4 DEF Send, SendRequest, ResendRequest, SendChunk, ReadBodyEnd, SendAbort, SendEnd, Reads, Loses
    <3> QED
      BY <3>1, <1>2, <1>3
  <2>2. outcome' \in [Requests -> Outcomes]
    BY <1>4 DEF Send, SendRequest, ResendRequest, AfterRequest, SendChunk, ReadBodyEnd, SendAbort, SendEnd,
                Ends, Outcomes
  <2>3. UNCHANGED sendUnchanged
    BY <1>4 DEF Send, SendRequest, ResendRequest, SendChunk, ReadBodyEnd, SendAbort, SendEnd
  <2> QED
    BY <2>1, <2>2, <2>3 DEF sendUnchanged
<1> QED
  BY <1>0, <1>1, <1>4

\* The handler's steps with the response.
LEMMA RespondTypes ==
  ASSUME StreamTypes, NEW r \in Requests, Respond(r) PROVE StreamTypes'
<1> USE DEF StreamTypes, respUnchanged, sessionVars, agentVars, Outcomes, Ends
<1>1. CASE AwaitHeader(r)
  BY <1>1 DEF AwaitHeader
<1>2. CASE TakeError(r) \/ TakeGone(r) \/ TakeTimeout(r)
  BY <1>2 DEF TakeError, TakeGone, TakeTimeout
<1>3. CASE TakeChunk(r)
  <2>1. chunks[r] \in Seq(Chunks) /\ chunks[r] # <<>> /\ body[r] \in Seq(Nat)
    BY <1>3 DEF TakeChunk
  <2>2. Tail(chunks[r]) \in Seq(Chunks) /\ Head(chunks[r]).part \in Nat
    <3>1. Tail(chunks[r]) \in Seq(Chunks) /\ Head(chunks[r]) \in Chunks
      BY <2>1, HeadTailProperties
    <3> QED
      BY <3>1 DEF Chunks
  <2>3. Append(body[r], Head(chunks[r]).part) \in Seq(Nat)
    BY <2>1, <2>2, AppendProperties
  <2>4. /\ chunks' \in [Requests -> Seq(Chunks)] /\ body' \in [Requests -> Seq(Nat)]
        /\ outcome' \in [Requests -> Outcomes]
    BY <1>3, <2>2, <2>3 DEF TakeChunk
  <2> QED
    BY <1>3, <2>4 DEF TakeChunk
<1> QED
  BY <1>1, <1>2, <1>3 DEF Respond

\* What the agent has sent and the reader has not read.
WireMessages == [req : Requests, msg : Messages, chunk : Chunks]

\* The reader takes the first message of its connection.
LEMMA ReaderTakesFirst ==
  ASSUME StreamTypes, NEW s \in Sessions, Reader(s)
  PROVE  /\ wire[s] \in Seq(WireMessages) /\ wire[s] # <<>>
         /\ wire' = [wire EXCEPT ![s] = Tail(@)]
         /\ wire'[s] = Tail(wire[s])
         /\ \A t \in Sessions : t # s => wire'[t] = wire[t]
<1>1. wire[s] \in Seq(WireMessages) /\ wire[s] # <<>>
  BY DEF StreamTypes, Reader, WireMessages
<1>2. wire' = [wire EXCEPT ![s] = SubSeq(@, 1, 0) \o SubSeq(@, 2, Len(@))]
  BY DEF Reader, ReadIndex
<1>3. wire' = [wire EXCEPT ![s] = Tail(@)]
  BY <1>1, <1>2, QueueFacts
<1> QED
  BY <1>1, <1>3 DEF StreamTypes

\* The reader, the agent, its connections and the browsers.
LEMMA OtherTypes ==
  ASSUME SlotInv, StreamTypes,
         \/ \E s \in Sessions : Reader(s) \/ LinkDown(s) \/ Unregister(s)
         \/ \E r \in Requests, s \in Sessions : AgentAnswers(r, s) \/ AgentFails(r, s)
         \/ AgentConnects \/ Revoke
         \/ \E r \in Requests : BrowserLeaves(r)
  PROVE  StreamTypes'
<1>1. ASSUME NEW s \in Sessions, Reader(s) PROVE StreamTypes'
  <2> DEFINE m == wire[s][1]
  <2>1. m \in WireMessages /\ Tail(wire[s]) \in Seq(WireMessages)
    BY <1>1, ReaderTakesFirst, QueueFacts
  <2>2. wire' \in [Sessions -> Seq(WireMessages)]
    BY <1>1, <2>1, ReaderTakesFirst DEF StreamTypes, WireMessages
  <2>3. m.req \in Requests /\ m.chunk \in Chunks
    BY <2>1 DEF WireMessages
  <2>4. chunks[m.req] \in Seq(Chunks)
    BY <2>3 DEF StreamTypes
  <2>5. Append(chunks[m.req], m.chunk) \in Seq(Chunks)
    BY <2>3, <2>4, AppendProperties
  <2>6. \/ UNCHANGED streamVars
        \/ DeliverHeader(m.req, "ok") \/ DeliverHeader(m.req, "error")
        \/ DeliverChunk(m.req, m.chunk)
        \/ Fail(m.req) /\ UNCHANGED <<hdr, chunks, lost>>
    BY <1>1 DEF Reader, ReadIndex
  <2> HIDE DEF m
  <2>7. /\ hdr' \in [Requests -> {"none", "ok", "error"}] /\ chunks' \in [Requests -> Seq(Chunks)]
        /\ err' \in [Requests -> BOOLEAN] /\ lost' \in SUBSET Requests
    <3>1. CASE UNCHANGED streamVars
      BY <3>1 DEF StreamTypes, streamVars
    <3>2. CASE DeliverHeader(m.req, "ok") \/ DeliverHeader(m.req, "error")
      BY <2>3, <3>2 DEF StreamTypes, DeliverHeader, Fail
    <3>3. CASE DeliverChunk(m.req, m.chunk)
      <4>1. \/ chunks' = [chunks EXCEPT ![m.req] = Append(@, m.chunk)] /\ UNCHANGED <<hdr, err, lost>>
            \/ Fail(m.req) /\ lost' = lost \cup {m.req} /\ UNCHANGED <<hdr, chunks>>
        BY <3>3 DEF DeliverChunk
      <4>2. chunks' \in [Requests -> Seq(Chunks)]
        BY <2>5, <4>1 DEF StreamTypes
      <4>3. /\ hdr' \in [Requests -> {"none", "ok", "error"}] /\ err' \in [Requests -> BOOLEAN]
            /\ lost' \in SUBSET Requests
        BY <2>3, <4>1 DEF StreamTypes, Fail
      <4> QED
        BY <4>2, <4>3
    <3>4. CASE Fail(m.req) /\ UNCHANGED <<hdr, chunks, lost>>
      BY <2>3, <3>4 DEF StreamTypes, Fail
    <3> QED
      BY <2>6, <3>1, <3>2, <3>3, <3>4
  <2>8. UNCHANGED <<gone, outcome, body, cancel, link, pending, have, via, next, deaf, twice>>
    BY <1>1 DEF Reader, handlerVars, sessionVars, agentVars
  <2> QED
    BY <2>2, <2>7, <2>8 DEF StreamTypes, WireMessages
<1>2. ASSUME NEW s \in Sessions, LinkDown(s) \/ Unregister(s) PROVE StreamTypes'
  <2>1. <<>> \in Seq(WireMessages)
    BY EmptySeq
  <2> QED
    BY <1>2, <2>1 DEF LinkDown, Unregister, Table!Drop, Table!Forget, envUnchanged, handlerVars, streamVars, agentVars,
                      StreamTypes, WireMessages
<1>3. ASSUME NEW r \in Requests, NEW s \in Sessions, NEW m \in Messages, NEW c \in Chunks,
             NEW n \in 0 .. Answered, Emit(r, s, m, c, n)
      PROVE  StreamTypes'
  <2>1. [req |-> r, msg |-> m, chunk |-> c] \in WireMessages /\ wire[s] \in Seq(WireMessages)
    BY DEF WireMessages, StreamTypes
  <2>2. Append(wire[s], [req |-> r, msg |-> m, chunk |-> c]) \in Seq(WireMessages)
    BY <2>1, AppendProperties
  <2>3. wire' \in [Sessions -> Seq(WireMessages)]
    BY <1>3, <2>2 DEF Emit, StreamTypes, WireMessages
  <2>4. next' \in [Requests -> 0 .. Answered]
    BY <1>3 DEF Emit, StreamTypes
  <2>5. UNCHANGED <<gone, outcome, body, cancel, link, pending, hdr, chunks, err, lost, have, via, deaf, twice>>
    BY <1>3 DEF Emit, handlerVars, sessionVars, streamVars
  <2> QED
    BY <2>3, <2>4, <2>5 DEF StreamTypes, WireMessages
<1>4. ASSUME NEW r \in Requests, NEW s \in Sessions, AgentAnswers(r, s) \/ AgentFails(r, s)
      PROVE  StreamTypes'
  <2>1. \E m \in Messages, c \in Chunks, n \in 0 .. Answered : Emit(r, s, m, c, n)
    <3>1. next[r] \in 0 .. Answered
      BY DEF StreamTypes
    <3>2. /\ \A n \in Nat, b \in BOOLEAN : Chunk(n, b) \in Chunks
          /\ next[r] \in 1 .. BodyChunks => next[r] + 1 \in 0 .. Answered
          /\ next[r] \in Nat /\ 0 \in Nat
      BY <3>1, PartFacts
    <3>3. \/ \E b \in BOOLEAN, m \in Messages, n \in {1, Answered} :
               Emit(r, s, m, Chunk(0, b), n)
          \/ next[r] \in 1 .. BodyChunks /\ Emit(r, s, "chunk", Chunk(next[r], FALSE), next[r] + 1)
          \/ Emit(r, s, "chunk", Chunk(next[r], TRUE), Answered)
      BY <1>4 DEF AgentAnswers, AgentFails, Messages
    <3> QED
      BY <3>2, <3>3, PartFacts DEF Messages
  <2> QED
    BY <2>1, <1>3
<1>5. CASE AgentConnects
  <2>1. latest + 1 \in Sessions
    BY <1>5, LimitAssumption DEF AgentConnects, Table!Connect, SlotInv, SlotTypes, Sessions
  <2> QED
    BY <1>5, <2>1 DEF AgentConnects, Table!Connect, envUnchanged, handlerVars, streamVars, agentVars, StreamTypes
<1>6. ASSUME NEW r \in Requests, BrowserLeaves(r) PROVE StreamTypes'
  BY <1>6 DEF BrowserLeaves, envUnchanged, handlerVars, sessionVars, streamVars, agentVars, StreamTypes
<1>7. CASE Revoke
  BY <1>7 DEF Revoke, Table!Revoke, envUnchanged, handlerVars, streamVars, agentVars, StreamTypes
<1> QED
  BY <1>1, <1>2, <1>4, <1>5, <1>6, <1>7

\* Every step keeps the types.
LEMMA StreamTypesStep == SlotInv /\ StreamTypes /\ [Next]_vars => StreamTypes'
<1> SUFFICES ASSUME SlotInv, StreamTypes, [Next]_vars PROVE StreamTypes'
  OBVIOUS
<1>1. CASE UNCHANGED vars
  BY <1>1 DEF vars, handlerVars, sessionVars, streamVars, agentVars, StreamTypes
<1>2. CASE Next
  BY <1>2, SendTypes, RespondTypes, OtherTypes DEF Next, Steady, Handler
<1> QED
  BY <1>1, <1>2

\* They hold at the start.
LEMMA StreamTypesInit == Init => StreamTypes
<1> SUFFICES ASSUME Init PROVE StreamTypes
  OBVIOUS
<1>1. <<>> \in Seq(Chunks) /\ <<>> \in Seq(Nat) /\ <<>> \in Seq(WireMessages)
  BY EmptySeq
<1> QED
  BY <1>1, SessionFacts, PartFacts DEF Init, StreamTypes, Outcomes, WireMessages

\* A request whose own variables a step leaves alone keeps its upload.
LEMMA UploadUntouched ==
  ASSUME NEW r \in Requests, UploadOK(r),
         pc'[r] = pc[r], read'[r] = read[r], got'[r] = got[r], have'[r] = have[r],
         sess'[r] = sess[r], via'[r] = via[r], deaf \subseteq deaf'
  PROVE  UploadOK(r)'
BY DEF UploadOK, UploadRuns

\* The agent's view of the request after a write.
LEMMA DeliveredView ==
  ASSUME StreamTypes, NEW r \in Requests, NEW ok \in BOOLEAN, NEW v \in {"part", "full", "failed"},
         Delivered(r, ok, v)
  PROVE  /\ \A q \in Requests : q # r => have'[q] = have[q] /\ via'[q] = via[q]
         /\ have'[r] = "no" => have[r] = "no"
         /\ \/ have'[r] = v /\ via'[r] \in link \ deaf
            \/ have'[r] = have[r] /\ via'[r] = via[r]
         /\ deaf' \in SUBSET Sessions /\ deaf \subseteq deaf'
<1>1. CASE \E s \in Routes(r) : /\ Reads(s)
                                /\ have' = [have EXCEPT ![r] = IF @ = "no" THEN @ ELSE v]
                                /\ via' = [via EXCEPT ![r] = IF have[r] = "no" THEN @ ELSE s]
  BY <1>1 DEF StreamTypes, Reads
<1>2. CASE UNCHANGED <<have, via>>
  <2>1. deaf' \in SUBSET Sessions /\ deaf \subseteq deaf'
    BY DEF Delivered, StreamTypes, Reads, Loses
  <2> QED
    BY <1>2, <2>1
<1> QED
  BY <1>1, <1>2 DEF Delivered

\* The same of a write of the request: one that is delivered starts the response
\* anew, and is marked when it is not the first.
LEMMA WrittenView ==
  ASSUME StreamTypes, NEW r \in Requests, NEW w, NEW ok, WriteRequest(r, w, ok)
  PROVE  /\ \A q \in Requests : q # r =>
              have'[q] = have[q] /\ via'[q] = via[q] /\ next'[q] = next[q] /\ (q \in twice' <=> q \in twice)
         /\ twice \subseteq twice'
         /\ \/ /\ have'[r] = (IF r \in Uploads THEN "part" ELSE "full")
               /\ via'[r] = w /\ w \in link /\ next'[r] = 0 /\ (have[r] # "no" => r \in twice')
            \/ UNCHANGED <<have, via, next, twice>>
         /\ deaf' \in SUBSET Sessions /\ deaf \subseteq deaf'
BY DEF WriteRequest, StreamTypes, Reads, Loses

\* The steps that send the request.
LEMMA UploadSend ==
  ASSUME SlotInv, StreamTypes, UploadInv, NEW r \in Requests, Send(r) PROVE UploadInv'
<1>0. /\ pc \in [Requests -> HandlerStates] /\ read[r] \in 0 .. UploadChunks /\ got[r] \in 0 .. UploadChunks
      /\ BodyTypes /\ UploadOK(r) /\ UploadChunks \in Nat
  BY BodyAssumption DEF SlotInv, SlotTypes, UploadInv, BodyTypes
<1>1. ASSUME NEW p \in HandlerStates, Goto(r, p) PROVE pc'[r] = p /\ \A q \in Requests : q # r => pc'[q] = pc[q]
  BY <1>1, <1>0 DEF Goto
<1>8. UNCHANGED sess
  BY DEF Send, SendRequest, ResendRequest, SendChunk, ReadBodyEnd, SendAbort, SendEnd, sendUnchanged
<1>2. ASSUME UNCHANGED <<read, got>>, UploadOK(r)', deaf \subseteq deaf',
             \A q \in Requests : q # r => pc'[q] = pc[q] /\ have'[q] = have[q] /\ via'[q] = via[q]
      PROVE  UploadInv'
  BY <1>2, <1>8, UploadUntouched DEF UploadInv, BodyTypes
<1>3. ASSUME NEW ok \in BOOLEAN, SendRequest(r, ok) \/ ResendRequest(r, ok) PROVE UploadInv'
  <2>1. /\ have'[r] \in {have[r], IF r \in Uploads THEN "part" ELSE "full"} /\ deaf \subseteq deaf'
        /\ \A q \in Requests : q # r => have'[q] = have[q] /\ via'[q] = via[q]
    BY <1>3, WrittenView DEF SendRequest, ResendRequest
  <2>2. /\ pc'[r] \in {"resend", "body", "await", "unwind"} /\ \A q \in Requests : q # r => pc'[q] = pc[q]
        /\ pc[r] \in {"send", "resend"} /\ UNCHANGED <<read, got>>
    BY <1>3, <1>1 DEF SendRequest, ResendRequest, AfterRequest, Ends, HandlerStates
  <2>3. UploadOK(r)'
    BY <2>1, <2>2, <1>0, <1>8 DEF UploadOK, UploadRuns
  <2> QED
    BY <1>2, <2>1, <2>2, <2>3
<1>4. ASSUME NEW ok \in BOOLEAN, SendChunk(r, ok) PROVE UploadInv'
  <2>1. /\ UNCHANGED <<have, via>> /\ pc[r] = "body" /\ read[r] < UploadChunks
        /\ pc'[r] = (IF ok THEN "body" ELSE "abort") /\ \A q \in Requests : q # r => pc'[q] = pc[q]
    BY <1>4, <1>1 DEF SendChunk, AfterChunkError, HandlerStates
  <2>2. got[r] <= read[r] /\ (got[r] = read[r] \/ sess[r] \in deaf)
    BY <2>1, <1>0 DEF UploadOK, UploadRuns
  <2>3. /\ read'[r] = read[r] + 1 /\ got'[r] \in {got[r], got[r] + 1} /\ deaf \subseteq deaf'
        /\ ok => (got'[r] = got[r] + 1 /\ sess[r] \notin deaf) \/ sess[r] \in deaf'
        /\ \A q \in Requests : q # r => read'[q] = read[q] /\ got'[q] = got[q]
    BY <1>4, <1>0 DEF SendChunk, BodyTypes, Reads, Loses
  <2>4. read[r] + 1 \in 0 .. UploadChunks /\ got[r] + 1 \in 0 .. UploadChunks
    BY <1>0, <2>1, <2>2
  <2>5. BodyTypes'
    BY <1>0, <1>4, <2>4 DEF SendChunk, BodyTypes
  <2>6. UploadOK(r)'
    <3>1. r \in Uploads => have[r] # "full"
      BY <2>1, <1>0 DEF UploadOK, UploadRuns
    <3>2. got'[r] <= read'[r] /\ (ok => got'[r] = read'[r] \/ sess'[r] \in deaf')
      BY <2>2, <2>3, <1>0, <1>8
    <3> QED
      BY <2>1, <3>1, <3>2 DEF UploadOK, UploadRuns
  <2>7. \A q \in Requests : q # r => UploadOK(q)'
    BY <2>1, <2>3, <1>8, UploadUntouched DEF UploadInv
  <2> QED
    BY <2>5, <2>6, <2>7 DEF UploadInv
<1>5. ASSUME ReadBodyEnd(r) PROVE UploadInv'
  <2>1. /\ UNCHANGED agentVars /\ UNCHANGED read /\ pc[r] = "body"
        /\ \/ pc'[r] = "finish" /\ read[r] = UploadChunks
           \/ pc'[r] = "abort"
        /\ \A q \in Requests : q # r => pc'[q] = pc[q]
    BY <1>5, <1>1 DEF ReadBodyEnd, HandlerStates
  <2>2. UploadOK(r)'
    BY <2>1, <1>0, <1>8 DEF UploadOK, UploadRuns, agentVars
  <2> QED
    BY <1>2, <2>1, <2>2 DEF agentVars
<1>6. ASSUME NEW ok \in BOOLEAN, SendEnd(r, ok) PROVE UploadInv'
  <2>1. /\ \/ have'[r] = "full" /\ via'[r] \in link \ deaf
           \/ have'[r] = have[r] /\ via'[r] = via[r]
        /\ deaf \subseteq deaf' /\ \A q \in Requests : q # r => have'[q] = have[q] /\ via'[q] = via[q]
    BY <1>6, DeliveredView DEF SendEnd
  <2>2. /\ pc'[r] \in {"await", "unwind"} /\ \A q \in Requests : q # r => pc'[q] = pc[q]
        /\ pc[r] = "finish" /\ UNCHANGED <<read, got>>
    BY <1>6, <1>1 DEF SendEnd, Ends, HandlerStates
  <2>3. UploadOK(r)'
    <3>1. read[r] = UploadChunks /\ (got[r] = read[r] \/ sess[r] \in deaf)
      BY <2>2, <1>0 DEF UploadOK, UploadRuns
    <3>2. r \in Uploads => have[r] # "full"
      BY <2>2, <1>0 DEF UploadOK, UploadRuns
    <3> QED
      BY <2>1, <2>2, <3>1, <3>2, <1>0, <1>8 DEF UploadOK, UploadRuns
  <2> QED
    BY <1>2, <2>1, <2>2, <2>3
<1>7. ASSUME SendAbort(r) PROVE UploadInv'
  <2>1. /\ have'[r] = "failed" \/ (have'[r] = have[r] /\ via'[r] = via[r])
        /\ deaf \subseteq deaf' /\ \A q \in Requests : q # r => have'[q] = have[q] /\ via'[q] = via[q]
    BY <1>7, DeliveredView DEF SendAbort
  <2>2. /\ pc'[r] = "unwind" /\ \A q \in Requests : q # r => pc'[q] = pc[q]
        /\ pc[r] = "abort" /\ UNCHANGED <<read, got>>
    BY <1>7, <1>1 DEF SendAbort, Ends, HandlerStates
  <2>3. UploadOK(r)'
    BY <2>1, <2>2, <1>0, <1>8 DEF UploadOK, UploadRuns
  <2> QED
    BY <1>2, <2>1, <2>2, <2>3
<1> QED
  BY <1>3, <1>4, <1>5, <1>6, <1>7 DEF Send

\* The other steps leave the request and the agent's view of it alone, and bring
\* the handler no nearer to a proxy_request_end.
LEMMA UploadStep == SlotInv /\ StreamTypes /\ UploadInv /\ [Next]_vars => UploadInv'
<1> SUFFICES ASSUME SlotInv, StreamTypes, UploadInv, [Next]_vars PROVE UploadInv'
  OBVIOUS
<1>0. pc \in [Requests -> HandlerStates]
  BY DEF SlotInv, SlotTypes
<1>1. ASSUME UNCHANGED <<read, got, have, via, deaf>>,
             \A q \in Requests :
               \/ pc'[q] = pc[q] /\ sess'[q] = sess[q]
               \/ /\ UploadRuns(q) /\ pc[q] # "finish" /\ pc'[q] \notin {"idle", "finish"}
                  /\ sess'[q] = sess[q] \/ pc[q] = "idle"
               \/ pc'[q] \in {"stream", "unwind", "release", "end"} /\ sess'[q] = sess[q]
      PROVE  UploadInv'
  <2>1. ASSUME NEW q \in Requests PROVE UploadOK(q)'
    <3>1. UploadOK(q) /\ read[q] \in Nat /\ got[q] \in Nat
      BY BodyAssumption DEF UploadInv, BodyTypes
    <3>2. read[q] = 0 => got[q] = read[q]
      BY <3>1 DEF UploadOK
    <3> QED
      BY <1>1, <3>1, <3>2 DEF UploadOK, UploadRuns
  <2> QED
    BY <1>1, <2>1 DEF UploadInv, BodyTypes
<1>2. ASSUME NEW r \in Requests, EarlyReturn(r) \/ LookupSession(r) \/ Acquire(r) PROVE UploadInv'
  <2>1. /\ pc[r] \in {"idle", "load", "cas", "register"}
        /\ \E p \in {"end", "load", "cas", "register", "send"} : Goto(r, p)
    BY <1>2 DEF EarlyReturn, LookupSession, Acquire, LoadActive, CompareAndSwap, RegisterPending, AfterReject
  <2>2. UNCHANGED <<read, got, have, via, deaf>>
    BY <1>2 DEF EarlyReturn, LookupSession, Acquire, LoadActive, CompareAndSwap, RegisterPending, agentVars
  <2>3. UNCHANGED sess \/ (pc[r] = "idle" /\ \A q \in Requests : q # r => sess'[q] = sess[q])
    <3>1. sess \in [Requests -> 0 .. MaxSessions]
      BY DEF SlotInv, SlotTypes
    <3> QED
      BY <1>2, <3>1 DEF EarlyReturn, LookupSession, Acquire, LoadActive, CompareAndSwap, RegisterPending
  <2> QED
    BY <2>1, <2>2, <2>3, <1>0, <1>1 DEF Goto, UploadRuns
<1>3. ASSUME NEW r \in Requests, Respond(r) \/ Unwind(r) \/ ReleaseSlot(r) PROVE UploadInv'
  <2>1. UNCHANGED pc \/ \E p \in {"stream", "unwind", "release", "end"} : Goto(r, p)
    BY <1>3 DEF Respond, AwaitHeader, TakeError, TakeGone, TakeTimeout, TakeChunk, Ends, Unwind, ReleaseSlot
  <2>2. UNCHANGED <<read, got, have, via, deaf, sess>>
    BY <1>3 DEF Respond, AwaitHeader, TakeError, TakeGone, TakeTimeout, TakeChunk, Unwind, ReleaseSlot,
                respUnchanged, agentVars
  <2> QED
    BY <2>1, <2>2, <1>0, <1>1 DEF Goto
<1>4. CASE \/ \E s \in Sessions : Reader(s) \/ LinkDown(s) \/ Unregister(s)
           \/ \E r \in Requests, s \in Sessions : AgentAnswers(r, s) \/ AgentFails(r, s)
           \/ AgentConnects \/ Revoke
           \/ \E r \in Requests : BrowserLeaves(r)
           \/ UNCHANGED vars
  <2>1. UNCHANGED <<pc, sess, read, got, have, via, deaf>>
    <3>1. (\E s \in Sessions : Reader(s) \/ LinkDown(s) \/ Unregister(s)) => UNCHANGED <<pc, sess, read, got, have, via, deaf>>
      BY DEF Reader, LinkDown, Unregister, envUnchanged, handlerVars, agentVars
    <3>2. (\E r \in Requests, s \in Sessions : AgentAnswers(r, s) \/ AgentFails(r, s))
            => UNCHANGED <<pc, sess, read, got, have, via, deaf>>
      BY DEF AgentAnswers, AgentFails, Emit, envUnchanged, handlerVars, agentVars
    <3>3. AgentConnects \/ Revoke \/ (\E r \in Requests : BrowserLeaves(r)) \/ UNCHANGED vars
            => UNCHANGED <<pc, sess, read, got, have, via, deaf>>
      BY DEF AgentConnects, Revoke, BrowserLeaves, vars, envUnchanged, handlerVars, agentVars
    <3> QED
      BY <1>4, <3>1, <3>2, <3>3
  <2> QED
    BY <2>1, <1>1
<1> QED
  BY <1>2, <1>3, <1>4, UploadSend DEF Next, Steady, Handler

\* Nothing has been read or received at the start.
LEMMA UploadInit == Init => UploadInv
BY BodyAssumption DEF Init, UploadInv, UploadOK, UploadRuns, BodyTypes

-----------------------------------------------------------------------------
(* The streamed response *)

\* The handler may still write to the browser.
Live(r) == pc[r] \notin {"unwind", "release", "end"}

\* The agent cannot have the whole request yet.
Sending(r) == \/ pc[r] \in {"idle", "load", "cas", "register", "send", "body", "abort", "finish"}
              \/ pc[r] = "resend" /\ r \in Uploads

\* The place of a chunk in the stream of its response: the end marker has the
\* place after the last part.
Place(c) == IF c.part = 0 THEN Ending ELSE c.part

WellFormed(c) == /\ c.part <= BodyChunks
                 /\ c.part = 0 => c.final
                 /\ c.final => c.part \in {0, BodyChunks}

\* Message j of connection s carries a chunk of r.
Carries(s, j, r) ==
  j \in 1 .. Len(wire[s]) /\ wire[s][j].req = r /\ wire[s][j].msg \in {"chunk", "end"}

\* How far the manager has come with the response of r.
Taken(r) == Len(body[r]) + Len(chunks[r])

\* Chunks are only on the connection the request came by, and only once the agent
\* has the whole request.
WireOK(r) ==
  /\ Sending(r) => have[r] # "full"
  /\ have[r] = "no" => next[r] = 0
  /\ next[r] \in 1 .. Ending => have[r] = "full"
  /\ \A s \in Sessions, j \in Nat :
       Carries(s, j, r) => /\ s = via[r] /\ have[r] = "full" /\ next[r] # 0
                           /\ WellFormed(wire[s][j].chunk)

\* The queue continues the body, and the connection continues the queue.
QueueOK(r) ==
  \A i \in 1 .. Len(chunks[r]) :
    WellFormed(chunks[r][i]) /\ Place(chunks[r][i]) = Len(body[r]) + i

\* From the queue to the chunk at j nothing is missing and nothing is repeated.
RunsTo(s, j, r) ==
  /\ Taken(r) < Place(wire[s][j].chunk)
  /\ \A k \in 1 .. j - 1 : Carries(s, k, r) => Place(wire[s][k].chunk) < Place(wire[s][j].chunk)
  /\ \A m \in Nat : Taken(r) < m /\ m < Place(wire[s][j].chunk) =>
       \E k \in 1 .. j - 1 : Carries(s, k, r) /\ Place(wire[s][k].chunk) = m

\* From the queue to the next part of the agent nothing is missing.
RunsToNext(r) ==
  /\ next[r] = 0 => Taken(r) = 0
  /\ next[r] \in 1 .. Ending =>
       /\ Taken(r) < next[r]
       /\ \A s \in Sessions, j \in Nat : Carries(s, j, r) => Place(wire[s][j].chunk) < next[r]
       /\ via[r] \in link =>
            \A m \in Nat : Taken(r) < m /\ m < next[r] =>
              \E j \in Nat : Carries(via[r], j, r) /\ Place(wire[via[r]][j].chunk) = m

BodyOK(r) ==
  /\ \A i \in 1 .. Len(body[r]) : body[r][i] = i
  /\ (outcome[r] = "complete" /\ r \in Streamed) => Len(body[r]) = BodyChunks

StreamOK(r) ==
  /\ WireOK(r)
  /\ Live(r) => outcome[r] = "none"
  /\ r \notin lost =>
       /\ BodyOK(r)
       /\ Live(r) => /\ QueueOK(r)
                     /\ \A s \in Sessions, j \in Nat : Carries(s, j, r) => RunsTo(s, j, r)
                     /\ RunsToNext(r)

\* A session that has ended does not come back.
LinksKnown == /\ link \subseteq 1 .. latest
              /\ \A r \in Requests : via[r] <= latest

\* Of a request the agent was given twice nothing is claimed.
StreamInv == StreamTypes /\ LinksKnown /\ \A r \in Requests \ twice : StreamOK(r)

\* A step after which the same chunks of r are on the same connection, and that
\* changes nothing else of it but, perhaps, the handler's phase.
LEMMA StreamKept ==
  ASSUME StreamTypes, NEW r \in Requests, StreamOK(r),
         body'[r] = body[r], chunks'[r] = chunks[r], outcome'[r] = outcome[r], next'[r] = next[r],
         via'[r] = via[r], have'[r] = have[r], r \in lost' <=> r \in lost,
         Sending(r)' => Sending(r), Live(r)' => Live(r),
         via[r] \in link' => via[r] \in link,
         \A s \in Sessions, j \in Nat :
           /\ Carries(s, j, r)' <=> Carries(s, j, r)
           /\ Carries(s, j, r) => wire'[s][j].chunk = wire[s][j].chunk
  PROVE  StreamOK(r)'
<1>1. WireOK(r)'
  BY DEF StreamOK, WireOK
<1>2. Taken(r)' = Taken(r) /\ (QueueOK(r) => QueueOK(r)') /\ (BodyOK(r) => BodyOK(r)')
  BY DEF Taken, QueueOK, BodyOK
<1>3. ASSUME NEW s \in Sessions, NEW j \in Nat, Carries(s, j, r), RunsTo(s, j, r) PROVE RunsTo(s, j, r)'
  <2>1. \A k \in 1 .. j - 1 : k \in Nat
    OBVIOUS
  <2> QED
    BY <1>2, <1>3, <2>1 DEF RunsTo
<1>4. ASSUME RunsToNext(r), WireOK(r) PROVE RunsToNext(r)'
  <2>1. next[r] \in 1 .. Ending /\ via[r] \in link' =>
          \A m \in Nat : Taken(r) < m /\ m < next[r] =>
            \E j \in Nat : Carries(via[r], j, r) /\ Place(wire[via[r]][j].chunk) = m
    BY <1>4 DEF RunsToNext
  <2>2. ASSUME NEW j \in Nat, Carries(via[r], j, r), via[r] \in Sessions
        PROVE  Carries(via[r], j, r)' /\ wire'[via[r]][j].chunk = wire[via[r]][j].chunk
    BY <2>2
  <2>3. via[r] \in link' => via[r] \in Sessions
    BY DEF StreamTypes
  <2>4. next'[r] \in 1 .. Ending /\ via'[r] \in link' =>
          \A m \in Nat : Taken(r)' < m /\ m < next'[r] =>
            \E j \in Nat : Carries(via[r], j, r)' /\ Place(wire'[via[r]][j].chunk) = m
    BY <1>2, <2>1, <2>2, <2>3
  <2> QED
    BY <1>2, <1>4, <2>4 DEF RunsToNext
<1> QED
  BY <1>1, <1>2, <1>3, <1>4 DEF StreamOK

\* The handler has stopped relaying, and its body is what it was.
LEMMA StreamEnds ==
  ASSUME StreamTypes, NEW r \in Requests, StreamOK(r), UNCHANGED wire,
         body'[r] = body[r], next'[r] = next[r], via'[r] = via[r], have'[r] = have[r],
         r \in lost' <=> r \in lost, pc'[r] \in {"unwind", "release", "end"},
         outcome'[r] = outcome[r] \/ (outcome'[r] = "complete" => r \notin Streamed)
  PROVE  StreamOK(r)'
<1>1. ~Live(r)' /\ ~Sending(r)'
  BY DEF Live, Sending
<1>2. \A s, j : Carries(s, j, r)' <=> Carries(s, j, r)
  BY DEF Carries
<1>3. WireOK(r)'
  BY <1>1, <1>2 DEF StreamOK, WireOK
<1>4. BodyOK(r) => BodyOK(r)'
  BY DEF BodyOK
<1> QED
  BY <1>1, <1>3, <1>4 DEF StreamOK

\* Until the agent has the whole request there is no chunk of its response anywhere.
LEMMA NothingYet ==
  ASSUME NEW r \in Requests, StreamOK(r), have[r] # "full"
  PROVE  /\ next[r] \notin 1 .. Ending
         /\ \A s \in Sessions, j \in Nat : ~Carries(s, j, r)
BY DEF StreamOK, WireOK

\* The agent's view may change as long as nothing of the response is on its way.
LEMMA StreamNotYet ==
  ASSUME NEW r \in Requests, StreamOK(r), Live(r), have[r] # "full",
         UNCHANGED <<wire, body, chunks, lost>>, next'[r] = next[r],
         have'[r] = "no" => have[r] = "no", Sending(r)' => have'[r] # "full", Live(r)' => outcome'[r] = outcome[r],
         outcome'[r] # "complete" \/ outcome'[r] = outcome[r]
  PROVE  StreamOK(r)'
<1>1. /\ next'[r] \notin 1 .. Ending
      /\ \A s \in Sessions, j \in Nat : ~Carries(s, j, r)'
  BY NothingYet DEF Carries
<1>2. WireOK(r)'
  BY <1>1 DEF StreamOK, WireOK
<1>3. (BodyOK(r) => BodyOK(r)') /\ (QueueOK(r) => QueueOK(r)') /\ (RunsToNext(r) => RunsToNext(r)')
  BY <1>1 DEF BodyOK, QueueOK, RunsToNext, Taken
<1> QED
  BY <1>1, <1>2, <1>3 DEF StreamOK

\* The agent's view of all requests after a step of sendProxyRequest.
LEMMA SendView ==
  ASSUME StreamTypes, NEW r \in Requests, Send(r)
  PROVE  /\ twice \subseteq twice'
         /\ \A q \in Requests : q # r => /\ have'[q] = have[q] /\ via'[q] = via[q] /\ next'[q] = next[q]
                                         /\ q \in twice' <=> q \in twice
         /\ \A q \in Requests : via'[q] = via[q] \/ via'[q] \in link
<1>1. \/ \E ok \in BOOLEAN, v \in {"part", "full", "failed"} : Delivered(r, ok, v) /\ UNCHANGED <<next, twice>>
      \/ \E w \in {sess[r], registered}, ok \in BOOLEAN : WriteRequest(r, w, ok)
      \/ UNCHANGED <<have, via, next, twice>>
  BY DEF Send, SendRequest, ResendRequest, SendChunk, ReadBodyEnd, SendAbort, SendEnd, agentVars
<1>2. ASSUME NEW ok \in BOOLEAN, NEW v \in {"part", "full", "failed"}, Delivered(r, ok, v)
      PROVE  \A q \in Requests : /\ q # r => have'[q] = have[q] /\ via'[q] = via[q]
                                 /\ via'[q] = via[q] \/ via'[q] \in link
  BY <1>2, DeliveredView
<1>3. ASSUME NEW w, NEW ok \in BOOLEAN, WriteRequest(r, w, ok)
      PROVE  /\ twice \subseteq twice'
             /\ \A q \in Requests : q # r => /\ have'[q] = have[q] /\ via'[q] = via[q] /\ next'[q] = next[q]
                                             /\ q \in twice' <=> q \in twice
             /\ \A q \in Requests : via'[q] = via[q] \/ via'[q] \in link
  BY <1>3, WrittenView
<1> QED
  BY <1>1, <1>2, <1>3

\* A handler writes no connection and touches no other request.
LEMMA HandlerLocal ==
  ASSUME SlotInv, StreamTypes, NEW r \in Requests, Handler(r)
  PROVE  /\ UNCHANGED <<wire, lost, link, latest>> /\ twice \subseteq twice'
         /\ \A q \in Requests : q # r =>
              /\ pc'[q] = pc[q] /\ body'[q] = body[q] /\ chunks'[q] = chunks[q]
              /\ outcome'[q] = outcome[q] /\ via'[q] = via[q] /\ have'[q] = have[q]
              /\ next'[q] = next[q] /\ (q \in twice' <=> q \in twice)
<1> USE DEF StreamTypes, sessionVars, streamVars, agentVars, Goto, Ends
<1>0. pc \in [Requests -> HandlerStates]
  BY DEF SlotInv, SlotTypes
<1>1. CASE EarlyReturn(r) \/ LookupSession(r) \/ Acquire(r) \/ Unwind(r) \/ ReleaseSlot(r)
  BY <1>0, <1>1 DEF EarlyReturn, LookupSession, Acquire, LoadActive, CompareAndSwap, RegisterPending, Unwind,
                    ReleaseSlot
<1>2. CASE Send(r)
  <2>1. UNCHANGED sendUnchanged
    BY <1>2 DEF Send, SendRequest, ResendRequest, SendChunk, ReadBodyEnd, SendAbort, SendEnd
  <2>2. \A q \in Requests : q # r => pc'[q] = pc[q] /\ outcome'[q] = outcome[q]
    BY <1>0, <1>2 DEF Send, SendRequest, ResendRequest, AfterRequest, SendChunk, ReadBodyEnd, SendAbort, SendEnd
  <2>3. /\ twice \subseteq twice'
        /\ \A q \in Requests : q # r => /\ have'[q] = have[q] /\ via'[q] = via[q] /\ next'[q] = next[q]
                                        /\ q \in twice' <=> q \in twice
    BY <1>2, SendView
  <2>4. UNCHANGED <<wire, lost, link, latest, body, chunks>>
    BY <2>1 DEF sendUnchanged
  <2> QED
    BY <2>2, <2>3, <2>4
<1>3. CASE Respond(r)
  <2>1. UNCHANGED respUnchanged
    BY <1>3 DEF Respond, AwaitHeader, TakeError, TakeGone, TakeTimeout, TakeChunk
  <2>2. \A q \in Requests : q # r => pc'[q] = pc[q] /\ outcome'[q] = outcome[q]
    BY <1>0, <1>3 DEF Respond, AwaitHeader, TakeError, TakeGone, TakeTimeout, TakeChunk
  <2>3. \A q \in Requests : q # r => body'[q] = body[q] /\ chunks'[q] = chunks[q]
    BY <1>3 DEF Respond, AwaitHeader, TakeError, TakeGone, TakeTimeout, TakeChunk
  <2> QED
    BY <2>1, <2>2, <2>3 DEF respUnchanged
<1> QED
  BY <1>1, <1>2, <1>3 DEF Handler

\* The relay of one chunk continues the body with the next part.
LEMMA RelayKeeps ==
  ASSUME SlotInv, StreamTypes, NEW r \in Requests, StreamOK(r), TakeChunk(r)
  PROVE  StreamOK(r)'
<1> DEFINE c == Head(chunks[r])
           n == Len(body[r])
<1>0. /\ UNCHANGED <<wire, next, via, have, lost, link>> /\ pc[r] = "stream" /\ chunks[r] # <<>>
      /\ chunks[r] \in Seq(Chunks) /\ body[r] \in Seq(Nat) /\ n \in Nat
  BY LenProperties DEF TakeChunk, respUnchanged, sessionVars, agentVars, StreamTypes
<1>1. /\ chunks'[r] = Tail(chunks[r]) /\ Len(chunks[r]) \in Nat \ {0} /\ c = chunks[r][1]
      /\ Len(Tail(chunks[r])) = Len(chunks[r]) - 1 /\ c \in Chunks
      /\ \A i \in 1 .. Len(chunks[r]) - 1 : Tail(chunks[r])[i] = chunks[r][i + 1]
  BY <1>0, QueueFacts DEF TakeChunk, StreamTypes
<1>2. c.part \in Nat
  BY <1>1 DEF Chunks
<1>3. Live(r) /\ ~Sending(r) /\ outcome[r] = "none"
  BY <1>0 DEF Live, Sending, StreamOK
<1>4. r \notin lost => WellFormed(c) /\ Place(c) = n + 1 /\ BodyOK(r)
  <2>1. 1 \in 1 .. Len(chunks[r])
    BY <1>1
  <2> QED
    BY <1>1, <1>3, <2>1 DEF StreamOK, QueueOK
<1> HIDE DEF c
<1>5. CASE pc'[r] = "unwind" /\ outcome'[r] = "writeFailed" /\ UNCHANGED body
  BY <1>0, <1>5, StreamEnds
<1>6. CASE c.part = 0 /\ c.final /\ Ends(r, "complete") /\ UNCHANGED body
  <2>1. pc'[r] = "unwind" /\ outcome'[r] = "complete"
    BY <1>6 DEF Ends, Goto, SlotInv, SlotTypes, StreamTypes
  <2>2. ~Live(r)' /\ ~Sending(r)' /\ \A s, j : Carries(s, j, r)' <=> Carries(s, j, r)
    BY <1>0, <2>1 DEF Live, Sending, Carries
  <2>3. WireOK(r)'
    BY <1>0, <2>2 DEF StreamOK, WireOK
  <2>4. r \notin lost => n = BodyChunks
    BY <1>0, <1>4, <1>6, BodyAssumption DEF Place, Ending
  <2>5. r \notin lost => BodyOK(r)'
    BY <1>4, <1>6, <2>4 DEF BodyOK
  <2> QED
    BY <1>0, <2>2, <2>3, <2>5 DEF StreamOK
<1>7. CASE c.part # 0 /\ body' = [body EXCEPT ![r] = Append(@, c.part)]
  <2>1. /\ body'[r] \in Seq(Nat) /\ Len(body'[r]) = n + 1 /\ body'[r][n + 1] = c.part
        /\ \A i \in 1 .. n : body'[r][i] = body[r][i]
    BY <1>0, <1>2, <1>7, AppendProperties DEF StreamTypes
  <2>2. r \notin lost => c.part = n + 1
    BY <1>4, <1>7 DEF Place
  <2>3. r \notin lost => \A i \in 1 .. Len(body'[r]) : body'[r][i] = i
    <3>1. r \notin lost => \A i \in 1 .. n : body'[r][i] = i
      BY <1>4, <2>1 DEF BodyOK
    <3>2. \A i \in 1 .. n + 1 : i \in 1 .. n \/ i = n + 1
      BY <1>0
    <3> QED
      BY <2>1, <2>2, <3>1, <3>2
  <2>4. Taken(r)' = Taken(r)
    <3>1. Taken(r)' = Len(body'[r]) + Len(chunks'[r])
      BY DEF Taken
    <3>2. Len(chunks'[r]) = Len(chunks[r]) - 1 /\ Len(body'[r]) = n + 1
      BY <1>1, <2>1
    <3>3. Taken(r)' = (n + 1) + (Len(chunks[r]) - 1) /\ Taken(r) = n + Len(chunks[r])
      BY <3>1, <3>2 DEF Taken
    <3>4. n \in Nat /\ Len(chunks[r]) \in Nat
      BY <1>0, <1>1
    <3>5. \A x, y \in Nat : (x + 1) + (y - 1) = x + y
      OBVIOUS
    <3> QED
      BY <3>3, <3>4, <3>5, Zenon
  <2>5. WireOK(r)' /\ \A s, j : Carries(s, j, r)' <=> Carries(s, j, r)
    <3>1. ~Sending(r)'
      BY <1>0, <1>3 DEF TakeChunk, Ends, Goto, Sending, SlotInv, SlotTypes
    <3> QED
      BY <1>0, <3>1 DEF StreamOK, WireOK, Carries
  <2>6. CASE c.final /\ Ends(r, "complete")
    <3>1. pc'[r] = "unwind" /\ outcome'[r] = "complete"
      BY <2>6 DEF Ends, Goto, SlotInv, SlotTypes, StreamTypes
    <3>2. r \notin lost => n + 1 = BodyChunks
      BY <1>4, <1>7, <2>2, <2>6 DEF WellFormed
    <3> QED
      BY <1>0, <2>1, <2>3, <2>5, <3>1, <3>2 DEF StreamOK, BodyOK, Live
  <2>7. CASE UNCHANGED <<pc, outcome>>
    <3>1. r \notin lost => BodyOK(r)'
      BY <1>3, <2>3, <2>7 DEF BodyOK
    <3>2. r \notin lost => QueueOK(r)'
      <4> SUFFICES ASSUME r \notin lost, NEW i \in 1 .. Len(chunks[r]) - 1
                   PROVE  /\ WellFormed(Tail(chunks[r])[i])
                          /\ Place(Tail(chunks[r])[i]) = n + 1 + i
        BY <1>1, <2>1 DEF QueueOK
      <4>1. i + 1 \in 1 .. Len(chunks[r]) /\ Tail(chunks[r])[i] = chunks[r][i + 1]
        BY <1>1
      <4>2. WellFormed(chunks[r][i + 1]) /\ Place(chunks[r][i + 1]) = n + (i + 1)
        BY <4>1, <1>3 DEF StreamOK, QueueOK
      <4> QED
        BY <1>0, <4>1, <4>2
    <3>3. r \notin lost => /\ \A s \in Sessions, j \in Nat : Carries(s, j, r) => RunsTo(s, j, r)
                           /\ RunsToNext(r)
      BY <1>3 DEF StreamOK
    <3>4. r \notin lost => /\ \A s \in Sessions, j \in Nat : Carries(s, j, r)' => RunsTo(s, j, r)'
                           /\ RunsToNext(r)'
      BY <1>0, <2>4, <2>5, <3>3 DEF RunsTo, RunsToNext, Carries
    <3> QED
      BY <1>0, <1>3, <2>5, <2>7, <3>1, <3>2, <3>4 DEF StreamOK
  <2>8. (c.final /\ Ends(r, "complete")) \/ UNCHANGED <<pc, outcome>> \/ UNCHANGED body
    BY DEF TakeChunk, c
  <2>9. body' # body
    BY <1>0, <2>1
  <2> QED
    BY <2>6, <2>7, <2>8, <2>9
<1>8. \/ c.part # 0 /\ body' = [body EXCEPT ![r] = Append(@, c.part)]
      \/ Ends(r, "writeFailed") /\ UNCHANGED body
      \/ c.part = 0 /\ UNCHANGED body /\ (IF c.final THEN Ends(r, "complete") ELSE UNCHANGED <<pc, outcome>>)
  BY DEF TakeChunk, c
<1>9. CASE c.part = 0 /\ ~c.final /\ UNCHANGED <<body, pc, outcome>>
  <2>1. r \in lost
    BY <1>4, <1>9 DEF WellFormed
  <2>2. WireOK(r)'
    BY <1>0, <1>9 DEF StreamOK, WireOK, Carries, Sending
  <2> QED
    BY <1>0, <1>3, <1>9, <2>1, <2>2 DEF StreamOK
<1>10. Ends(r, "writeFailed") => pc'[r] = "unwind" /\ outcome'[r] = "writeFailed"
  BY DEF Ends, Goto, SlotInv, SlotTypes, StreamTypes
<1> QED
  BY <1>5, <1>6, <1>7, <1>8, <1>9, <1>10

\* The handler's own request.
LEMMA HandlerStreams ==
  ASSUME SlotInv, StreamTypes, NEW r \in Requests, StreamOK(r), Handler(r)
  PROVE  r \in twice' \/ StreamOK(r)'
<1>0. pc \in [Requests -> HandlerStates] /\ outcome \in [Requests -> Outcomes]
  BY DEF SlotInv, SlotTypes, StreamTypes
<1>1. UNCHANGED <<wire, lost, link>>
  BY HandlerLocal
<1>2. CASE EarlyReturn(r) \/ LookupSession(r) \/ Acquire(r)
  <2>1. /\ Sending(r) /\ UNCHANGED <<body, chunks, have, next>>
        /\ \E p \in {"load", "cas", "register", "send", "end"} :
             Goto(r, p) /\ (p # "end" => UNCHANGED outcome)
        /\ UNCHANGED outcome \/ \E o \in {"early", "tooMany"} : outcome' = [outcome EXCEPT ![r] = o]
    BY <1>2 DEF EarlyReturn, LookupSession, Acquire, LoadActive, CompareAndSwap, RegisterPending, AfterReject,
                Sending, streamVars, agentVars
  <2>2. /\ pc'[r] \in {"load", "cas", "register", "send", "end"}
        /\ pc'[r] # "end" => outcome'[r] = outcome[r]
        /\ outcome'[r] = outcome[r] \/ outcome'[r] # "complete"
    BY <1>0, <2>1 DEF Goto
  <2> QED
    BY <1>1, <2>1, <2>2, StreamNotYet DEF Live, Sending, StreamOK, WireOK
<1>3. CASE Send(r)
  <2>1. UNCHANGED <<body, chunks>>
    BY <1>3 DEF Send, SendRequest, ResendRequest, SendChunk, ReadBodyEnd, SendAbort, SendEnd, sendUnchanged,
                streamVars
  <2>2. ASSUME NEW ok \in BOOLEAN, SendRequest(r, ok) \/ ResendRequest(r, ok) PROVE r \in twice' \/ StreamOK(r)'
    <3>1. /\ \/ pc[r] = "send" /\ WriteRequest(r, sess[r], ok)
             \/ pc[r] = "resend" /\ WriteRequest(r, registered, ok)
             \/ pc[r] = "resend" /\ ~ok /\ UNCHANGED <<have, via, next, twice>>
          /\ IF ok THEN pc'[r] = (IF r \in Uploads THEN "body" ELSE "await") /\ outcome'[r] = outcome[r]
             ELSE IF pc[r] = "send" THEN pc'[r] = "resend" /\ outcome'[r] = outcome[r]
             ELSE pc'[r] = "unwind" /\ outcome'[r] = "sendFailed"
      BY <1>0, <2>2 DEF SendRequest, ResendRequest, AfterRequest, Goto, Ends
    <3>2. Live(r)
      BY <3>1 DEF Live
    <3>3. CASE /\ have[r] = "no" /\ have'[r] = (IF r \in Uploads THEN "part" ELSE "full")
               /\ next'[r] = 0
      <4>1. next'[r] = next[r] /\ have'[r] # "no"
        BY <3>3 DEF StreamOK, WireOK
      <4>2. /\ Sending(r)' => have'[r] # "full"
            /\ Live(r)' => outcome'[r] = outcome[r]
            /\ outcome'[r] # "complete" \/ outcome'[r] = outcome[r]
        BY <3>1, <3>3 DEF Sending, Live
      <4> QED
        BY <1>1, <2>1, <3>2, <3>3, <4>1, <4>2, StreamNotYet
    <3>4. CASE UNCHANGED <<have, via, next, twice>> /\ (pc[r] = "send" \/ r \in Uploads)
      <4>1. have[r] # "full"
        BY <3>1, <3>4 DEF StreamOK, WireOK, Sending
      <4>2. /\ Live(r)' => outcome'[r] = outcome[r]
            /\ outcome'[r] # "complete" \/ outcome'[r] = outcome[r]
        BY <3>1 DEF Live
      <4> QED
        BY <1>1, <2>1, <3>2, <3>4, <4>1, <4>2, StreamNotYet
    <3>5. CASE ~ok /\ UNCHANGED <<have, via, next, twice>> /\ pc[r] # "send"
      BY <1>1, <2>1, <3>1, <3>5, StreamEnds
    <3>6. CASE ok /\ UNCHANGED <<have, via, next, twice>> /\ pc[r] # "send" /\ r \notin Uploads
      <4>1. pc'[r] = "await" /\ outcome'[r] = outcome[r]
        BY <3>1, <3>6
      <4>2. /\ ~Sending(r)' /\ \A s \in Sessions, j \in Nat : Carries(s, j, r)' <=> Carries(s, j, r)
        BY <1>1, <4>1 DEF Sending, Carries
      <4> QED
        BY <1>1, <2>1, <3>2, <3>6, <4>1, <4>2, StreamKept
    <3> QED
      BY <3>1, <3>3, <3>4, <3>5, <3>6, WrittenView
  <2>3. ASSUME NEW ok \in BOOLEAN, SendChunk(r, ok) \/ ReadBodyEnd(r) \/ SendAbort(r) \/ SendEnd(r, ok)
        PROVE  StreamOK(r)'
    <3>1. Sending(r) /\ UNCHANGED next /\ have[r] # "full"
      BY <2>3 DEF SendChunk, ReadBodyEnd, SendAbort, SendEnd, Sending, StreamOK, WireOK, agentVars
    <3>2. \/ pc'[r] = "await" /\ outcome'[r] = outcome[r]
          \/ pc'[r] = "unwind" /\ outcome'[r] = "sendFailed"
          \/ pc'[r] \in {"body", "abort", "finish"} /\ outcome'[r] = outcome[r] /\ have'[r] = have[r]
      BY <1>0, <2>3 DEF SendChunk, ReadBodyEnd, SendAbort, SendEnd, AfterChunkError, Goto, Ends, agentVars
    <3>3. have'[r] = "no" => have[r] = "no"
      <4>1. UNCHANGED have \/ \E o \in BOOLEAN, v \in {"full", "failed"} : Delivered(r, o, v)
        BY <2>3 DEF SendChunk, ReadBodyEnd, SendAbort, SendEnd, agentVars
      <4> QED
        BY <4>1, DeliveredView
    <3> QED
      BY <1>1, <2>1, <3>1, <3>2, <3>3, StreamNotYet DEF Live, Sending
  <2> QED
    BY <1>3, <2>2, <2>3 DEF Send
<1>4. CASE AwaitHeader(r) \/ TakeError(r) \/ TakeGone(r) \/ TakeTimeout(r)
  <2>1. /\ pc[r] \in {"await", "stream"} /\ UNCHANGED <<body, chunks, have, via, next>>
        /\ \/ Goto(r, "stream") /\ UNCHANGED outcome
           \/ Ends(r, "complete") /\ r \notin Streamed
           \/ \E o \in {"badGateway", "aborted", "canceled", "timeout"} : Ends(r, o)
    BY <1>4 DEF AwaitHeader, TakeError, TakeGone, TakeTimeout, WatchesContext, respUnchanged, agentVars
  <2>2. \/ pc'[r] = "stream" /\ outcome'[r] = outcome[r]
        \/ pc'[r] = "unwind" /\ (outcome'[r] = "complete" => r \notin Streamed)
    BY <1>0, <2>1 DEF Goto, Ends
  <2>3. CASE pc'[r] = "stream" /\ outcome'[r] = outcome[r]
    <3>1. /\ Sending(r)' => Sending(r)
          /\ Live(r)' => Live(r)
          /\ \A s, j : Carries(s, j, r)' <=> Carries(s, j, r)
      BY <1>1, <2>1, <2>3 DEF Sending, Live, Carries
    <3> QED
      BY <1>1, <2>1, <2>3, <3>1, StreamKept
  <2>4. CASE pc'[r] = "unwind" /\ (outcome'[r] = "complete" => r \notin Streamed)
    BY <1>1, <2>1, <2>4, StreamEnds
  <2> QED
    BY <2>2, <2>3, <2>4
<1>5. CASE Unwind(r) \/ ReleaseSlot(r)
  <2>1. UNCHANGED <<body, have, via, next, outcome>> /\ pc'[r] \in {"release", "end"}
    BY <1>0, <1>5 DEF Unwind, ReleaseSlot, Goto, agentVars
  <2> QED
    BY <1>1, <2>1, StreamEnds
<1> QED
  BY <1>2, <1>3, <1>4, <1>5, RelayKeeps DEF Handler, Respond

\* A handler and all requests.
LEMMA HandlerKeepsStreams ==
  ASSUME SlotInv, StreamTypes, LinksKnown, \A q \in Requests \ twice : StreamOK(q), NEW r \in Requests, Handler(r)
  PROVE  LinksKnown' /\ \A q \in Requests \ twice' : StreamOK(q)'
<1>1. ASSUME NEW q \in Requests \ twice', q # r PROVE StreamOK(q)'
  <2>1. /\ Sending(q)' => Sending(q)
        /\ Live(q)' => Live(q)
        /\ \A s, j : Carries(s, j, q)' <=> Carries(s, j, q)
    BY <1>1, HandlerLocal DEF Sending, Live, Carries
  <2>2. StreamOK(q)
    BY <1>1, HandlerLocal
  <2> QED
    BY <1>1, <2>1, <2>2, HandlerLocal, StreamKept
<1>2. LinksKnown'
  <2>1. Send(r) => \A q \in Requests : via'[q] = via[q] \/ via'[q] \in link
    BY SendView
  <2>2. ~Send(r) => UNCHANGED via
    BY DEF Handler, EarlyReturn, LookupSession, Acquire, LoadActive, CompareAndSwap, RegisterPending, Unwind,
           ReleaseSlot, Respond, AwaitHeader, TakeError, TakeGone, TakeTimeout, TakeChunk, respUnchanged, agentVars
  <2>3. \A n \in 1 .. latest : n <= latest
    BY DEF SlotInv, SlotTypes
  <2>4. \A q \in Requests : via'[q] = via[q] \/ via'[q] \in link
    BY <2>1, <2>2
  <2> QED
    BY <2>3, <2>4, HandlerLocal DEF LinksKnown
<1>3. r \notin twice' => r \notin twice
  BY HandlerLocal
<1> QED
  BY <1>1, <1>2, <1>3, HandlerStreams

\* After the reader has taken the first message, the others have moved up.
LEMMA MovedUp ==
  ASSUME StreamTypes, NEW s \in Sessions, Reader(s), NEW q \in Requests
  PROVE  /\ \A j \in Nat : Carries(s, j, q)' => Carries(s, j + 1, q) /\ wire'[s][j].chunk = wire[s][j + 1].chunk
         /\ \A k \in Nat : k # 1 /\ Carries(s, k, q) =>
              k - 1 \in Nat /\ Carries(s, k - 1, q)' /\ wire'[s][k - 1].chunk = wire[s][k].chunk
         /\ \A t \in Sessions, j \in Nat : t # s =>
              /\ Carries(t, j, q)' <=> Carries(t, j, q)
              /\ wire'[t][j] = wire[t][j]
<1>1. /\ Len(wire[s]) \in Nat \ {0} /\ Len(wire'[s]) = Len(wire[s]) - 1
      /\ \A i \in 1 .. Len(wire[s]) - 1 : wire'[s][i] = wire[s][i + 1]
      /\ \A t \in Sessions : t # s => wire'[t] = wire[t]
  <2>1. /\ wire[s] \in Seq(WireMessages) /\ wire[s] # <<>> /\ wire'[s] = Tail(wire[s])
        /\ \A t \in Sessions : t # s => wire'[t] = wire[t]
    BY ReaderTakesFirst
  <2>2. /\ Len(wire[s]) \in Nat \ {0} /\ Len(Tail(wire[s])) = Len(wire[s]) - 1
        /\ \A i \in 1 .. Len(wire[s]) - 1 : Tail(wire[s])[i] = wire[s][i + 1]
    BY <2>1, QueueFacts
  <2> QED
    BY <2>1, <2>2, Zenon
<1>2. ASSUME NEW j \in Nat, Carries(s, j, q)'
      PROVE  Carries(s, j + 1, q) /\ wire'[s][j].chunk = wire[s][j + 1].chunk
  <2>1. j \in 1 .. Len(wire[s]) - 1 /\ j + 1 \in 1 .. Len(wire[s])
    BY <1>1, <1>2 DEF Carries
  <2>2. wire'[s][j] = wire[s][j + 1]
    BY <1>1, <2>1
  <2> QED
    BY <1>2, <2>1, <2>2 DEF Carries
<1>3. ASSUME NEW k \in Nat, k # 1, Carries(s, k, q)
      PROVE  k - 1 \in Nat /\ Carries(s, k - 1, q)' /\ wire'[s][k - 1].chunk = wire[s][k].chunk
  <2>1. k - 1 \in 1 .. Len(wire[s]) - 1 /\ (k - 1) + 1 = k
    BY <1>1, <1>3 DEF Carries
  <2>2. wire'[s][k - 1] = wire[s][k] /\ k - 1 \in 1 .. Len(wire'[s])
    BY <1>1, <2>1
  <2> QED
    BY <1>3, <2>1, <2>2 DEF Carries
<1>4. \A t \in Sessions, j \in Nat : t # s =>
        /\ Carries(t, j, q)' <=> Carries(t, j, q)
        /\ wire'[t][j] = wire[t][j]
  BY <1>1 DEF Carries
<1> QED
  BY <1>2, <1>3, <1>4

\* What the reader does to the stream of each request.
LEMMA ReaderDelivers ==
  ASSUME StreamTypes, NEW s \in Sessions, Reader(s), NEW q \in Requests
  PROVE  /\ UNCHANGED <<pc, outcome, body, pending, link, latest, have, via, next, twice>>
         /\ \/ chunks'[q] = chunks[q] /\ (q \in lost' <=> q \in lost) /\ (Carries(s, 1, q) => q \notin pending)
            \/ Carries(s, 1, q) /\ chunks'[q] = chunks[q] /\ q \in lost'
            \/ /\ Carries(s, 1, q) /\ chunks'[q] = Append(chunks[q], wire[s][1].chunk)
               /\ (q \in lost' <=> q \in lost)
<1> DEFINE m == wire[s][1]
<1>1. m \in WireMessages /\ 1 \in 1 .. Len(wire[s])
  BY ReaderTakesFirst, QueueFacts
<1>2. m.req \in Requests /\ m.msg \in Messages
  BY <1>1 DEF WireMessages
<1>3. Carries(s, 1, q) <=> m.req = q /\ m.msg \in {"chunk", "end"}
  BY <1>1 DEF Carries
<1>4. \/ m.req \notin pending /\ UNCHANGED streamVars
      \/ /\ m.req \in pending
         /\ \/ m.msg \in {"header", "headerError", "endError"} /\ UNCHANGED <<chunks, lost>>
            \/ m.msg \in {"chunk", "end"} /\ DeliverChunk(m.req, m.chunk)
  BY DEF Reader, ReadIndex, DeliverHeader
<1>5. UNCHANGED <<pc, outcome, body, pending, link, latest, have, via, next, twice>>
  BY DEF Reader, handlerVars, sessionVars, agentVars
<1> HIDE DEF m
<1>6. CASE UNCHANGED <<chunks, lost>> /\ (Carries(s, 1, q) => q \notin pending)
  BY <1>5, <1>6
<1>7. CASE m.msg \in {"chunk", "end"} /\ DeliverChunk(m.req, m.chunk) /\ q = m.req
  BY <1>2, <1>3, <1>5, <1>7 DEF DeliverChunk, StreamTypes, m
<1>8. CASE DeliverChunk(m.req, m.chunk) /\ q # m.req
  BY <1>2, <1>3, <1>5, <1>8 DEF DeliverChunk, StreamTypes
<1> QED
  BY <1>3, <1>4, <1>6, <1>7, <1>8 DEF streamVars

\* The part of the invariant that holds of every request, lost or ended ones too.
LEMMA ReaderWire ==
  ASSUME StreamTypes, NEW s \in Sessions, Reader(s), NEW q \in Requests, StreamOK(q)
  PROVE  /\ WireOK(q)' /\ (Live(q)' <=> Live(q)) /\ (Live(q)' => outcome'[q] = "none")
         /\ BodyOK(q) => BodyOK(q)'
<1>1. UNCHANGED <<pc, outcome, body, have, via, next>>
  BY ReaderDelivers
<1>2. ASSUME NEW t \in Sessions, NEW j \in Nat, Carries(t, j, q)'
      PROVE  t = via[q] /\ have[q] = "full" /\ next[q] # 0 /\ WellFormed(wire'[t][j].chunk)
  <2>1. CASE t = s
    <3>1. j + 1 \in Nat /\ Carries(s, j + 1, q) /\ wire'[s][j].chunk = wire[s][j + 1].chunk
      BY <1>2, <2>1, MovedUp
    <3> QED
      BY <2>1, <3>1 DEF StreamOK, WireOK
  <2>2. CASE t # s
    BY <1>2, <2>2, MovedUp DEF StreamOK, WireOK
  <2> QED
    BY <2>1, <2>2
<1>3. WireOK(q)'
  BY <1>1, <1>2 DEF StreamOK, WireOK, Sending
<1> QED
  BY <1>1, <1>3 DEF StreamOK, Live, BodyOK

\* The places the response of a live request can be at.
LEMMA PlaceType ==
  ASSUME StreamTypes, NEW s \in Sessions, NEW j \in Nat, NEW q \in Requests, Carries(s, j, q)
  PROVE  wire[s][j].chunk \in Chunks /\ Place(wire[s][j].chunk) \in Nat
<1>1. wire[s] \in Seq(WireMessages) /\ j \in 1 .. Len(wire[s])
  BY DEF StreamTypes, WireMessages, Carries
<1>2. wire[s][j] \in WireMessages
  BY <1>1, ElementOfSeq
<1> QED
  BY <1>2, PartFacts DEF WireMessages, Chunks, Place

\* So are the lengths.
LEMMA TakenType ==
  ASSUME StreamTypes, NEW q \in Requests
  PROVE  Len(body[q]) \in Nat /\ Len(chunks[q]) \in Nat /\ Taken(q) \in Nat
<1>1. body[q] \in Seq(Nat) /\ chunks[q] \in Seq(Chunks)
  BY DEF StreamTypes
<1>2. Len(body[q]) \in Nat /\ Len(chunks[q]) \in Nat
  BY <1>1, LenProperties
<1>3. \A x, y \in Nat : x + y \in Nat
  OBVIOUS
<1> QED
  BY <1>2, <1>3, Zenon DEF Taken

\* A first message that is no chunk of q leaves the stream of q as it is.
LEMMA ReaderOther ==
  ASSUME StreamTypes, NEW s \in Sessions, Reader(s), NEW q \in Requests, StreamOK(q), ~Carries(s, 1, q)
  PROVE  StreamOK(q)'
<1>1. /\ UNCHANGED <<pc, outcome, body, link, have, via, next>> /\ chunks'[q] = chunks[q]
      /\ (q \in lost' <=> q \in lost)
  BY ReaderDelivers
<1>2. Taken(q)' = Taken(q) /\ (QueueOK(q) => QueueOK(q)')
  BY <1>1 DEF Taken, QueueOK
<1> SUFFICES ASSUME q \notin lost, Live(q)
             PROVE  /\ \A t \in Sessions, j \in Nat : Carries(t, j, q)' => RunsTo(t, j, q)'
                    /\ RunsToNext(q)'
  BY <1>1, <1>2, ReaderWire DEF StreamOK
<1>3. /\ RunsToNext(q) /\ WireOK(q)
      /\ \A t \in Sessions, j \in Nat : Carries(t, j, q) => RunsTo(t, j, q)
  BY DEF StreamOK
<1>4. ASSUME NEW t \in Sessions, NEW j \in Nat, Carries(t, j, q)', t # s PROVE RunsTo(t, j, q)'
  <2>1. \A k \in 1 .. j - 1 : k \in Nat
    OBVIOUS
  <2>2. \A k \in Nat : (Carries(t, k, q)' <=> Carries(t, k, q)) /\ wire'[t][k] = wire[t][k]
    BY <1>4, MovedUp
  <2>3. RunsTo(t, j, q)
    BY <1>3, <1>4, <2>2
  <2> QED
    BY <1>2, <2>1, <2>2, <2>3 DEF RunsTo
<1>5. ASSUME NEW j \in Nat, Carries(s, j, q)' PROVE RunsTo(s, j, q)'
  <2> DEFINE p == Place(wire[s][j + 1].chunk)
  <2>1. /\ j + 1 \in Nat /\ RunsTo(s, j + 1, q) /\ Place(wire'[s][j].chunk) = p
    BY <1>3, <1>5, MovedUp
  <2>2. ASSUME NEW k \in 1 .. j - 1, Carries(s, k, q)' PROVE Place(wire'[s][k].chunk) < p
    <3>1. /\ k \in Nat /\ k + 1 \in 1 .. (j + 1) - 1 /\ Carries(s, k + 1, q)
          /\ wire'[s][k].chunk = wire[s][k + 1].chunk
      BY <2>2, MovedUp
    <3> QED
      BY <2>1, <3>1 DEF RunsTo
  <2>3. ASSUME NEW m \in Nat, Taken(q) < m, m < p
        PROVE  \E k \in 1 .. j - 1 : Carries(s, k, q)' /\ Place(wire'[s][k].chunk) = m
    <3>1. PICK k \in 1 .. (j + 1) - 1 : Carries(s, k, q) /\ Place(wire[s][k].chunk) = m
      BY <2>1, <2>3 DEF RunsTo
    <3>2. k \in Nat /\ k # 1
      BY <3>1
    <3>3. k - 1 \in 1 .. j - 1 /\ Carries(s, k - 1, q)' /\ wire'[s][k - 1].chunk = wire[s][k].chunk
      BY <3>1, <3>2, MovedUp
    <3> QED
      BY <3>1, <3>3
  <2>4. Taken(q) < p
    BY <2>1 DEF RunsTo
  <2> HIDE DEF p
  <2> QED
    BY <1>2, <2>1, <2>2, <2>3, <2>4 DEF RunsTo
<1>6. RunsToNext(q)'
  <2>1. ASSUME next[q] \in 1 .. Ending, NEW t \in Sessions, NEW j \in Nat, Carries(t, j, q)'
        PROVE  Place(wire'[t][j].chunk) < next[q]
    <3>1. CASE t = s
      <4>1. j + 1 \in Nat /\ Carries(s, j + 1, q) /\ wire'[s][j].chunk = wire[s][j + 1].chunk
        BY <2>1, <3>1, MovedUp
      <4> QED
        BY <1>3, <2>1, <3>1, <4>1 DEF RunsToNext
    <3>2. CASE t # s
      BY <1>3, <2>1, <3>2, MovedUp DEF RunsToNext
    <3> QED
      BY <3>1, <3>2
  <2>2. ASSUME next[q] \in 1 .. Ending, via[q] \in link, NEW m \in Nat, Taken(q) < m, m < next[q]
        PROVE  \E j \in Nat : Carries(via[q], j, q)' /\ Place(wire'[via[q]][j].chunk) = m
    <3>1. PICK j \in Nat : Carries(via[q], j, q) /\ Place(wire[via[q]][j].chunk) = m
      BY <1>3, <2>2 DEF RunsToNext
    <3>2. CASE via[q] = s
      <4>1. j # 1
        BY <3>1, <3>2
      <4>2. j - 1 \in Nat /\ Carries(s, j - 1, q)' /\ wire'[s][j - 1].chunk = wire[s][j].chunk
        BY <3>1, <3>2, <4>1, MovedUp
      <4>3. Carries(via[q], j - 1, q)' /\ Place(wire'[via[q]][j - 1].chunk) = m
        BY <1>1, <3>1, <3>2, <4>2
      <4> QED
        BY <4>2, <4>3
    <3>3. CASE via[q] # s
      <4>1. via[q] \in Sessions
        BY <2>2 DEF StreamTypes
      <4>2. Carries(via[q], j, q)' /\ wire'[via[q]][j] = wire[via[q]][j]
        BY <1>1, <3>1, <3>3, <4>1, MovedUp
      <4> QED
        BY <3>1, <4>2
    <3> QED
      BY <3>2, <3>3
  <2> QED
    BY <1>1, <1>2, <1>3, <2>1, <2>2 DEF RunsToNext
<1> QED
  BY <1>4, <1>5, <1>6

\* The chunk the reader takes for a live request is the next one of its response.
LEMMA FirstIsNext ==
  ASSUME StreamTypes, NEW s \in Sessions, NEW q \in Requests, StreamOK(q), q \notin lost, Live(q),
         Carries(s, 1, q)
  PROVE  Place(wire[s][1].chunk) = Taken(q) + 1
<1>1. RunsTo(s, 1, q)
  BY DEF StreamOK
<1>2. Taken(q) \in Nat /\ Place(wire[s][1].chunk) \in Nat
  BY TakenType, PlaceType
<1>3. \A k \in 1 .. 1 - 1 : FALSE
  OBVIOUS
<1>4. Taken(q) < Place(wire[s][1].chunk) /\ ~(Taken(q) + 1 < Place(wire[s][1].chunk))
  BY <1>1, <1>2, <1>3 DEF RunsTo
<1> QED
  BY <1>2, <1>4

\* A chunk that finds room in the queue continues it.
LEMMA ReaderQueues ==
  ASSUME StreamTypes, NEW s \in Sessions, Reader(s), NEW q \in Requests, StreamOK(q), Carries(s, 1, q),
         q \notin lost, Live(q), q \notin lost', chunks'[q] = Append(chunks[q], wire[s][1].chunk)
  PROVE  StreamOK(q)'
<1> DEFINE c == wire[s][1].chunk
           d == Taken(q)
<1>0. d \in Nat /\ Len(body[q]) \in Nat /\ Len(chunks[q]) \in Nat /\ c \in Chunks
  BY TakenType, PlaceType
<1>1. UNCHANGED <<pc, outcome, body, link, have, via, next>>
  BY ReaderDelivers
<1>2. /\ RunsToNext(q) /\ WireOK(q) /\ QueueOK(q) /\ BodyOK(q)
      /\ \A t \in Sessions, j \in Nat : Carries(t, j, q) => RunsTo(t, j, q)
  BY DEF StreamOK
<1>3. s = via[q] /\ WellFormed(c) /\ next[q] # 0
  BY <1>2 DEF WireOK
<1>4. Place(c) = d + 1
  BY FirstIsNext
<1>5. /\ Len(chunks'[q]) = Len(chunks[q]) + 1 /\ chunks'[q][Len(chunks[q]) + 1] = c
      /\ \A i \in 1 .. Len(chunks[q]) : chunks'[q][i] = chunks[q][i]
  <2>1. chunks[q] \in Seq(Chunks)
    BY DEF StreamTypes
  <2> QED
    BY <1>0, <2>1, AppendProperties
<1>6. Taken(q)' = d + 1
  <2>1. \A x, y \in Nat : x + (y + 1) = (x + y) + 1
    OBVIOUS
  <2> QED
    BY <1>0, <1>1, <1>5, <2>1, Zenon DEF Taken
<1>7. QueueOK(q)'
  <2>1. \A i \in 1 .. Len(chunks[q]) + 1 : i \in 1 .. Len(chunks[q]) \/ i = Len(chunks[q]) + 1
    BY <1>0
  <2>2. d + 1 = Len(body[q]) + (Len(chunks[q]) + 1)
    <3>1. \A x, y \in Nat : (x + y) + 1 = x + (y + 1)
      OBVIOUS
    <3> QED
      BY <1>0, <3>1, Zenon DEF Taken
  <2> QED
    BY <1>1, <1>2, <1>3, <1>4, <1>5, <2>1, <2>2 DEF QueueOK
<1>8. ASSUME NEW t \in Sessions, NEW j \in Nat, Carries(t, j, q)'
      PROVE  /\ t = s /\ j \in Nat \ {0} /\ Carries(s, j + 1, q)
             /\ wire'[s][j].chunk = wire[s][j + 1].chunk
             /\ RunsTo(s, j + 1, q) /\ Place(wire[s][j + 1].chunk) \in Nat
             /\ d + 1 < Place(wire[s][j + 1].chunk)
  <2>1. t = s
    BY <1>2, <1>3, <1>8, MovedUp DEF WireOK
  <2>2. /\ j + 1 \in Nat /\ Carries(s, j + 1, q) /\ wire'[s][j].chunk = wire[s][j + 1].chunk
        /\ j # 0
    BY <1>8, <2>1, MovedUp, SMTT(20) DEF Carries
  <2>3. RunsTo(s, j + 1, q) /\ 1 \in 1 .. (j + 1) - 1
    BY <1>2, <2>2
  <2>4. Place(c) < Place(wire[s][j + 1].chunk)
    BY <2>3 DEF RunsTo
  <2>5. Place(wire[s][j + 1].chunk) \in Nat
    BY <2>2, PlaceType
  <2> QED
    BY <1>4, <2>1, <2>2, <2>3, <2>4, <2>5
<1>9. ASSUME NEW t \in Sessions, NEW j \in Nat, Carries(t, j, q)' PROVE RunsTo(t, j, q)'
  <2> DEFINE p == Place(wire[s][j + 1].chunk)
  <2>1. /\ t = s /\ RunsTo(s, j + 1, q) /\ Place(wire'[s][j].chunk) = p /\ p \in Nat /\ d + 1 < p
    BY <1>8, <1>9
  <2>2. ASSUME NEW k \in 1 .. j - 1, Carries(s, k, q)' PROVE Place(wire'[s][k].chunk) < p
    <3>1. /\ k \in Nat /\ k + 1 \in 1 .. (j + 1) - 1 /\ Carries(s, k + 1, q)
          /\ wire'[s][k].chunk = wire[s][k + 1].chunk
      BY <2>2, MovedUp
    <3> QED
      BY <2>1, <3>1 DEF RunsTo
  <2>3. ASSUME NEW m \in Nat, d + 1 < m, m < p
        PROVE  \E k \in 1 .. j - 1 : Carries(s, k, q)' /\ Place(wire'[s][k].chunk) = m
    <3>1. d < m
      BY <1>0, <2>3
    <3>2. PICK k \in 1 .. (j + 1) - 1 : Carries(s, k, q) /\ Place(wire[s][k].chunk) = m
      BY <2>1, <2>3, <3>1 DEF RunsTo
    <3>3. k \in Nat /\ k # 1
      BY <1>0, <1>4, <2>3, <3>2
    <3>4. k - 1 \in 1 .. j - 1 /\ Carries(s, k - 1, q)' /\ wire'[s][k - 1].chunk = wire[s][k].chunk
      BY <3>2, <3>3, MovedUp
    <3> QED
      BY <3>2, <3>4
  <2> HIDE DEF p, d
  <2> QED
    BY <1>6, <2>1, <2>2, <2>3 DEF RunsTo
<1>10. RunsToNext(q)'
  <2>1. ASSUME next[q] \in 1 .. Ending
        PROVE  /\ d + 1 < next[q]
               /\ \A t \in Sessions, j \in Nat : Carries(t, j, q)' => Place(wire'[t][j].chunk) < next[q]
    <3>1. Place(c) < next[q]
      BY <1>2, <2>1 DEF RunsToNext
    <3>2. ASSUME NEW t \in Sessions, NEW j \in Nat, Carries(t, j, q)' PROVE Place(wire'[t][j].chunk) < next[q]
      <4>1. t = s /\ j + 1 \in Nat /\ Carries(s, j + 1, q) /\ wire'[s][j].chunk = wire[s][j + 1].chunk
        BY <1>8, <3>2
      <4> QED
        BY <1>2, <2>1, <4>1 DEF RunsToNext
    <3> QED
      BY <1>4, <3>1, <3>2
  <2>2. ASSUME next[q] \in 1 .. Ending, via[q] \in link, NEW m \in Nat, d + 1 < m, m < next[q]
        PROVE  \E j \in Nat : Carries(via[q], j, q)' /\ Place(wire'[via[q]][j].chunk) = m
    <3>1. d < m
      BY <1>0, <2>2
    <3>2. PICK j \in Nat : Carries(via[q], j, q) /\ Place(wire[via[q]][j].chunk) = m
      BY <1>2, <2>2, <3>1 DEF RunsToNext
    <3>3. j # 1
      BY <1>0, <1>3, <1>4, <2>2, <3>2
    <3>4. j - 1 \in Nat /\ Carries(s, j - 1, q)' /\ wire'[s][j - 1].chunk = wire[s][j].chunk
      BY <1>3, <3>2, <3>3, MovedUp
    <3>5. Carries(via[q], j - 1, q)' /\ Place(wire'[via[q]][j - 1].chunk) = m
      BY <1>1, <1>3, <3>2, <3>4
    <3> QED
      BY <3>4, <3>5
  <2> HIDE DEF d
  <2> QED
    BY <1>1, <1>3, <1>6, <2>1, <2>2 DEF RunsToNext
<1> QED
  BY <1>1, <1>2, <1>7, <1>9, <1>10, ReaderWire DEF StreamOK

\* The reader and all requests.
LEMMA ReaderKeepsStreams ==
  ASSUME SlotInv, StreamTypes, LinksKnown, \A q \in Requests \ twice : StreamOK(q), NEW s \in Sessions, Reader(s)
  PROVE  LinksKnown' /\ \A q \in Requests \ twice' : StreamOK(q)'
<1>0. UNCHANGED twice
  BY DEF Reader, agentVars
<1>1. ASSUME NEW q \in Requests \ twice PROVE StreamOK(q)'
  <2>1. CASE ~Carries(s, 1, q)
    BY <2>1, ReaderOther
  <2>2. CASE Carries(s, 1, q) /\ (q \in lost' \/ ~Live(q)) /\ (q \in lost => q \in lost')
    <3>1. q \notin lost' => BodyOK(q)
      BY <2>2 DEF StreamOK
    <3> QED
      BY <2>2, <3>1, ReaderWire DEF StreamOK
  <2>3. CASE Carries(s, 1, q) /\ q \notin pending
    <3>1. have[q] = "full"
      BY <2>3 DEF StreamOK, WireOK
    <3>2. pc[q] \in HandlerStates /\ (q \in pending <=> HoldsSlot(q) /\ pc[q] \notin {"register", "release"})
      BY DEF SlotInv, SlotTypes, PendingExact
    <3>3. ~Live(q)
      BY <2>3, <3>1, <3>2 DEF Live, Sending, HoldsSlot, HandlerStates, StreamOK, WireOK
    <3>4. q \in lost => q \in lost'
      BY ReaderDelivers
    <3> QED
      BY <2>2, <2>3, <3>3, <3>4
  <2>4. CASE /\ Carries(s, 1, q) /\ chunks'[q] = Append(chunks[q], wire[s][1].chunk)
             /\ (q \in lost' <=> q \in lost)
    BY <2>2, <2>4, ReaderQueues
  <2> QED
    BY <2>1, <2>2, <2>3, <2>4, ReaderDelivers
<1>2. UNCHANGED <<link, latest, via>>
  BY ReaderDelivers DEF Reader, sessionVars, agentVars
<1> QED
  BY <1>0, <1>1, <1>2 DEF LinksKnown

\* The chunks of a response have their places and are well formed.
LEMMA ChunkFacts ==
  /\ \A n \in 1 .. BodyChunks, b \in BOOLEAN : Place(Chunk(n, b)) = n
  /\ \A n \in 1 .. BodyChunks, b \in BOOLEAN : (b => n = BodyChunks) => WellFormed(Chunk(n, b))
  /\ Place(Chunk(0, TRUE)) = Ending /\ WellFormed(Chunk(0, TRUE))
<1>1. \A n \in Nat, b \in BOOLEAN : Chunk(n, b).part = n /\ (Chunk(n, b).final <=> b)
  BY DEF Chunk
<1>2. Place(Chunk(0, TRUE)) = Ending /\ WellFormed(Chunk(0, TRUE))
  <2>1. Chunk(0, TRUE).part = 0 /\ Chunk(0, TRUE).final
    BY <1>1
  <2>2. 0 <= BodyChunks
    BY BodyAssumption
  <2> QED
    BY <2>1, <2>2 DEF Place, WellFormed
<1>3. ASSUME NEW n \in 1 .. BodyChunks, NEW b \in BOOLEAN
      PROVE  Place(Chunk(n, b)) = n /\ ((b => n = BodyChunks) => WellFormed(Chunk(n, b)))
  <2>1. n \in Nat /\ n # 0 /\ n <= BodyChunks
    BY BodyAssumption
  <2>2. Chunk(n, b).part = n /\ (Chunk(n, b).final <=> b)
    BY <1>1, <2>1
  <2> QED
    BY <2>1, <2>2 DEF Place, WellFormed
<1> QED
  BY <1>2, <1>3

\* What the agent sends comes after what it has sent before.
LEMMA Appended ==
  ASSUME StreamTypes, NEW r \in Requests, NEW s \in Sessions, NEW m \in Messages, NEW c \in Chunks, NEW n,
         Emit(r, s, m, c, n), NEW q \in Requests
  PROVE  /\ \A t \in Sessions, j \in Nat : Carries(t, j, q) =>
              Carries(t, j, q)' /\ wire'[t][j].chunk = wire[t][j].chunk
         /\ \A t \in Sessions, j \in Nat : Carries(t, j, q)' =>
              \/ Carries(t, j, q)
              \/ /\ t = s /\ j = Len(wire[s]) + 1 /\ q = r /\ m \in {"chunk", "end"}
                 /\ wire'[t][j].chunk = c
         /\ \E l \in Nat : /\ l = Len(wire[s]) + 1 /\ Len(wire[s]) \in Nat
                           /\ m \in {"chunk", "end"} => Carries(s, l, r)' /\ wire'[s][l].chunk = c
<1> DEFINE e == [req |-> r, msg |-> m, chunk |-> c]
           w == wire[s]
<1>1. w \in Seq(WireMessages) /\ e \in WireMessages
  BY DEF StreamTypes, WireMessages
<1>2. wire'[s] = Append(w, e) /\ \A t \in Sessions : t # s => wire'[t] = wire[t]
  BY DEF Emit, StreamTypes
<1>3. /\ Len(w) \in Nat /\ Len(Append(w, e)) = Len(w) + 1
      /\ \A i \in 1 .. Len(w) : Append(w, e)[i] = w[i]
      /\ Append(w, e)[Len(w) + 1] = e
  BY <1>1, AppendProperties, LenProperties
<1>4. /\ Len(w) \in Nat /\ Len(wire'[s]) = Len(w) + 1
      /\ \A i \in 1 .. Len(w) : wire'[s][i] = w[i]
      /\ wire'[s][Len(w) + 1] = e
  BY <1>2, <1>3, Zenon
<1>5. e.req = r /\ e.msg = m /\ e.chunk = c
  OBVIOUS
<1> HIDE DEF e
<1>6. ASSUME NEW t \in Sessions, NEW j \in Nat, Carries(t, j, q)
      PROVE  Carries(t, j, q)' /\ wire'[t][j].chunk = wire[t][j].chunk
  BY <1>2, <1>4, <1>6 DEF Carries
<1>7. ASSUME NEW t \in Sessions, NEW j \in Nat, Carries(t, j, q)', ~Carries(t, j, q)
      PROVE  /\ t = s /\ j = Len(wire[s]) + 1 /\ q = r /\ m \in {"chunk", "end"}
             /\ wire'[t][j].chunk = c
  BY <1>2, <1>4, <1>5, <1>7, SMTT(20) DEF Carries
<1>8. PICK l \in Nat : l = Len(wire[s]) + 1
  BY <1>4
<1>9. m \in {"chunk", "end"} => Carries(s, l, r)' /\ wire'[s][l].chunk = c
  BY <1>4, <1>5, <1>8 DEF Carries
<1> QED
  BY <1>4, <1>6, <1>7, <1>8, <1>9

\* The header, or an error, of a response that no chunk of has been sent.
LEMMA EmitOther ==
  ASSUME StreamTypes, NEW r \in Requests, NEW s \in Sessions, StreamOK(r),
         NEW m \in Messages, NEW c \in Chunks, NEW n, Emit(r, s, m, c, n), m \notin {"chunk", "end"},
         have[r] # "no", n = Answered \/ (n = 1 /\ next[r] = 0 /\ have[r] = "full")
  PROVE  StreamOK(r)'
<1>1. /\ UNCHANGED <<pc, outcome, body, chunks, lost, link, have, via>> /\ next'[r] = n
  BY DEF Emit, handlerVars, sessionVars, streamVars, StreamTypes
<1>2. \A t \in Sessions, j \in Nat :
        /\ Carries(t, j, r)' <=> Carries(t, j, r)
        /\ Carries(t, j, r) => wire'[t][j].chunk = wire[t][j].chunk
  BY Appended
<1>3. n # 0 /\ (n \in 1 .. Ending => n = 1 /\ next[r] = 0 /\ have[r] = "full")
  BY PartFacts
<1>4. WireOK(r)'
  BY <1>1, <1>2, <1>3 DEF StreamOK, WireOK, Sending
<1>5. /\ Taken(r)' = Taken(r) /\ (QueueOK(r) => QueueOK(r)') /\ (BodyOK(r) => BodyOK(r)')
      /\ (Live(r)' <=> Live(r))
  BY <1>1 DEF Taken, QueueOK, BodyOK, Live
<1>6. ASSUME NEW t \in Sessions, NEW j \in Nat, Carries(t, j, r), RunsTo(t, j, r) PROVE RunsTo(t, j, r)'
  <2>1. \A k \in 1 .. j - 1 : k \in Nat
    OBVIOUS
  <2> QED
    BY <1>2, <1>5, <1>6, <2>1 DEF RunsTo
<1>7. RunsToNext(r) => RunsToNext(r)'
  <2>1. next[r] = 0 => \A t \in Sessions, j \in Nat : ~Carries(t, j, r)'
    BY <1>2 DEF StreamOK, WireOK
  <2>2. \A i \in Nat : ~(0 < i /\ i < 1)
    OBVIOUS
  <2> QED
    BY <1>1, <1>3, <1>5, <2>1, <2>2 DEF RunsToNext
<1> QED
  BY <1>1, <1>2, <1>4, <1>5, <1>6, <1>7 DEF StreamOK

\* The next chunk, or the end, of a response.
LEMMA EmitChunk ==
  ASSUME StreamTypes, NEW r \in Requests, NEW s \in Sessions, StreamOK(r),
         NEW m \in {"chunk", "end"}, NEW c \in Chunks, NEW n, Emit(r, s, m, c, n),
         next[r] \in 1 .. Ending, Place(c) = next[r], WellFormed(c), n = Answered \/ n = next[r] + 1
  PROVE  StreamOK(r)'
<1> DEFINE d == Taken(r)
<1>0. PICK l \in Nat : /\ l = Len(wire[s]) + 1 /\ Len(wire[s]) \in Nat
                       /\ Carries(s, l, r)' /\ wire'[s][l].chunk = c
  BY Appended DEF Messages
<1>1. UNCHANGED <<pc, outcome, body, chunks, lost, link, have, via>> /\ next'[r] = n
  BY DEF Emit, handlerVars, sessionVars, streamVars, StreamTypes
<1>2. m \in Messages /\ s = via[r] /\ s \in link
  BY DEF Messages, Emit
<1>3. \A t \in Sessions, j \in Nat : Carries(t, j, r) =>
        Carries(t, j, r)' /\ wire'[t][j].chunk = wire[t][j].chunk
  BY <1>2, Appended
<1>4. \A t \in Sessions, j \in Nat : Carries(t, j, r)' =>
        Carries(t, j, r) \/ (t = s /\ j = l /\ wire'[t][j].chunk = c)
  BY <1>0, <1>2, Appended
<1>5. l \in Nat /\ Carries(s, l, r)' /\ wire'[s][l].chunk = c
  BY <1>0
<1>6. \A j \in Nat : Carries(s, j, r) => j \in 1 .. l - 1
  BY <1>0 DEF Carries
<1> HIDE DEF d
<1>7. n # 0 /\ (n \in 1 .. Ending => n = next[r] + 1)
  BY PartFacts
<1>8. have[r] = "full"
  BY DEF StreamOK, WireOK
<1>9. WireOK(r)'
  BY <1>1, <1>2, <1>3, <1>4, <1>7, <1>8 DEF StreamOK, WireOK, Sending
<1>10. /\ Taken(r)' = d /\ (QueueOK(r) => QueueOK(r)') /\ (BodyOK(r) => BodyOK(r)')
       /\ (Live(r)' <=> Live(r))
  BY <1>1 DEF Taken, QueueOK, BodyOK, Live, d
<1>11. ASSUME NEW t \in Sessions, NEW j \in Nat, Carries(t, j, r), RunsTo(t, j, r) PROVE RunsTo(t, j, r)'
  <2>1. \A k \in 1 .. j - 1 : k \in Nat /\ k # j
    OBVIOUS
  <2>2. j \in 1 .. l - 1 /\ t = s
    BY <1>2, <1>6, <1>11 DEF StreamOK, WireOK
  <2>3. \A k \in 1 .. j - 1 : Carries(t, k, r)' => Carries(t, k, r)
    BY <1>4, <1>5, <2>1, <2>2
  <2> QED
    BY <1>3, <1>10, <1>11, <2>1, <2>3 DEF RunsTo, d
<1>12. ASSUME RunsToNext(r) PROVE RunsTo(s, l, r)' /\ RunsToNext(r)'
  <2>1. /\ d < next[r]
        /\ \A t \in Sessions, j \in Nat : Carries(t, j, r) => Place(wire[t][j].chunk) < next[r]
        /\ \A i \in Nat : d < i /\ i < next[r] =>
             \E j \in Nat : Carries(s, j, r) /\ Place(wire[s][j].chunk) = i
    BY <1>2, <1>12 DEF RunsToNext, d
  <2>2. RunsTo(s, l, r)'
    <3>1. ASSUME NEW k \in 1 .. l - 1, Carries(s, k, r)' PROVE Place(wire'[s][k].chunk) < next[r]
      <4>1. k \in Nat /\ k # l
        BY <1>5, <3>1
      <4>2. Carries(s, k, r) /\ wire'[s][k].chunk = wire[s][k].chunk
        BY <1>3, <1>4, <3>1, <4>1
      <4> QED
        BY <2>1, <4>1, <4>2
    <3>2. ASSUME NEW i \in Nat, d < i, i < next[r]
          PROVE  \E k \in 1 .. l - 1 : Carries(s, k, r)' /\ Place(wire'[s][k].chunk) = i
      BY <1>3, <1>6, <2>1, <3>2
    <3> QED
      BY <1>5, <1>10, <2>1, <3>1, <3>2 DEF RunsTo
  <2>3. ASSUME n \in 1 .. Ending PROVE RunsToNext(r)'
    <3>0. d \in Nat /\ next[r] \in Nat /\ n = next[r] + 1
      BY <1>7, <2>3, TakenType DEF d
    <3>1. d < n
      BY <2>1, <3>0
    <3>2. ASSUME NEW t \in Sessions, NEW j \in Nat, Carries(t, j, r)' PROVE Place(wire'[t][j].chunk) < n
      <4>1. CASE Carries(t, j, r)
        <5>1. Place(wire'[t][j].chunk) = Place(wire[t][j].chunk) /\ Place(wire[t][j].chunk) < next[r]
              /\ Place(wire[t][j].chunk) \in Nat
          BY <1>3, <2>1, <4>1, PlaceType
        <5> QED
          BY <3>0, <5>1
      <4>2. CASE wire'[t][j].chunk = c
        BY <3>0, <4>2
      <4> QED
        BY <1>4, <3>2, <4>1, <4>2
    <3>3. ASSUME NEW i \in Nat, d < i, i < n
          PROVE  \E j \in Nat : Carries(s, j, r)' /\ Place(wire'[s][j].chunk) = i
      <4>1. CASE i < next[r]
        BY <1>3, <2>1, <3>3, <4>1
      <4>2. CASE i = next[r]
        BY <1>5, <4>2
      <4> QED
        BY <3>0, <3>3, <4>1, <4>2
    <3> QED
      BY <1>1, <1>2, <1>7, <1>10, <3>1, <3>2, <3>3 DEF RunsToNext
  <2>4. n \notin 1 .. Ending => RunsToNext(r)'
    BY <1>1, <1>7 DEF RunsToNext
  <2> QED
    BY <2>2, <2>3, <2>4
<1>13. ASSUME r \notin lost, Live(r), NEW t \in Sessions, NEW j \in Nat, Carries(t, j, r)'
       PROVE  RunsTo(t, j, r)'
  <2>1. CASE Carries(t, j, r)
    BY <1>11, <1>13, <2>1 DEF StreamOK
  <2>2. CASE t = s /\ j = l
    BY <1>12, <1>13, <2>2 DEF StreamOK
  <2> QED
    BY <1>4, <1>13, <2>1, <2>2
<1> QED
  BY <1>1, <1>9, <1>10, <1>12, <1>13 DEF StreamOK

\* The agent and all requests.
LEMMA AgentKeepsStreams ==
  ASSUME StreamTypes, LinksKnown, \A q \in Requests \ twice : StreamOK(q), NEW r \in Requests, NEW s \in Sessions,
         AgentAnswers(r, s) \/ AgentFails(r, s)
  PROVE  LinksKnown' /\ \A q \in Requests \ twice' : StreamOK(q)'
<1>0. next[r] \in 0 .. Answered /\ BodyChunks \in Nat /\ Ending = BodyChunks + 1
  BY BodyAssumption DEF StreamTypes, Ending
<1>1. PICK m \in Messages, c \in Chunks, n \in 0 .. Answered :
        /\ Emit(r, s, m, c, n)
        /\ \/ m \notin {"chunk", "end"} /\ (have[r] # "no" \/ next[r] \in 1 .. Ending)
              /\ (n = Answered \/ (n = 1 /\ next[r] = 0 /\ have[r] = "full"))
           \/ /\ m \in {"chunk", "end"} /\ next[r] \in 1 .. Ending /\ Place(c) = next[r] /\ WellFormed(c)
              /\ n = Answered \/ n = next[r] + 1
  <2>1. CASE AgentFails(r, s) \/ (have[r] = "full" /\ next[r] = 0
                /\ Emit(r, s, "header", Chunk(0, FALSE), IF r \in Streamed THEN 1 ELSE Answered))
    <3>1. \E m \in {"header", "headerError", "endError"}, n \in {1, Answered} :
            /\ Emit(r, s, m, Chunk(0, FALSE), n) /\ (have[r] # "no" \/ next[r] \in 1 .. Ending)
            /\ n = Answered \/ (n = 1 /\ next[r] = 0 /\ have[r] = "full")
      BY <2>1 DEF AgentFails
    <3>2. Chunk(0, FALSE) \in Chunks /\ 1 \in 0 .. Answered /\ Answered \in 0 .. Answered
      BY PartFacts
    <3> QED
      BY <3>1, <3>2 DEF Messages
  <2>2. CASE next[r] \in 1 .. BodyChunks /\ Emit(r, s, "chunk", Chunk(next[r], FALSE), next[r] + 1)
    <3>1. /\ Chunk(next[r], FALSE) \in Chunks /\ next[r] + 1 \in 0 .. Answered /\ next[r] \in 1 .. Ending
          /\ Place(Chunk(next[r], FALSE)) = next[r] /\ WellFormed(Chunk(next[r], FALSE))
      <4>1. next[r] \in 1 .. BodyChunks /\ next[r] \in Nat /\ next[r] \in 1 .. Ending
        BY <1>0, <2>2
      <4>2. Place(Chunk(next[r], FALSE)) = next[r] /\ WellFormed(Chunk(next[r], FALSE))
        BY <4>1, ChunkFacts
      <4>3. Chunk(next[r], FALSE) \in Chunks
        BY <4>1, PartFacts
      <4>4. next[r] + 1 \in 0 .. Answered
        BY <4>1, PartFacts
      <4> QED
        BY <4>1, <4>2, <4>3, <4>4
    <3> QED
      BY <2>2, <3>1 DEF Messages
  <2>3. CASE next[r] = BodyChunks /\ BodyChunks # 0 /\ Emit(r, s, "chunk", Chunk(next[r], TRUE), Answered)
    <3>1. /\ Chunk(next[r], TRUE) \in Chunks /\ Answered \in 0 .. Answered /\ next[r] \in 1 .. Ending
          /\ Place(Chunk(next[r], TRUE)) = next[r] /\ WellFormed(Chunk(next[r], TRUE))
      <4>1. next[r] \in 1 .. BodyChunks /\ next[r] \in Nat /\ next[r] \in 1 .. Ending /\ next[r] = BodyChunks
        BY <1>0, <2>3
      <4>2. Place(Chunk(next[r], TRUE)) = next[r] /\ WellFormed(Chunk(next[r], TRUE))
        BY <4>1, ChunkFacts
      <4>3. Chunk(next[r], TRUE) \in Chunks
        BY <4>1, PartFacts
      <4>4. Answered \in 0 .. Answered
        BY <4>1, PartFacts
      <4> QED
        BY <4>1, <4>2, <4>3, <4>4
    <3> QED
      BY <2>3, <3>1 DEF Messages
  <2>4. CASE next[r] = Ending /\ Emit(r, s, "end", Chunk(0, TRUE), Answered)
    <3>1. /\ Chunk(0, TRUE) \in Chunks /\ Answered \in 0 .. Answered /\ next[r] \in 1 .. Ending
          /\ Place(Chunk(0, TRUE)) = next[r] /\ WellFormed(Chunk(0, TRUE))
      <4>1. next[r] \in 1 .. Ending /\ next[r] = Ending
        BY <1>0, <2>4
      <4>2. Place(Chunk(0, TRUE)) = next[r] /\ WellFormed(Chunk(0, TRUE))
        BY <4>1, ChunkFacts
      <4>3. Chunk(0, TRUE) \in Chunks
        BY <4>1, PartFacts
      <4>4. Answered \in 0 .. Answered
        BY <4>1, PartFacts
      <4> QED
        BY <4>1, <4>2, <4>3, <4>4
    <3> QED
      BY <2>4, <3>1 DEF Messages
  <2> QED
    BY <2>1, <2>2, <2>3, <2>4 DEF AgentAnswers
<1>2. ASSUME r \notin twice PROVE StreamOK(r)'
  <2>1. StreamOK(r) /\ (next[r] \in 1 .. Ending => have[r] # "no")
    BY <1>2 DEF StreamOK, WireOK
  <2> QED
    BY <1>1, <2>1, EmitOther, EmitChunk
<1>3. ASSUME NEW q \in Requests \ twice, q # r PROVE StreamOK(q)'
  <2>1. UNCHANGED <<pc, outcome, body, chunks, lost, link, have, via>> /\ next'[q] = next[q]
    BY <1>1, <1>3 DEF Emit, handlerVars, sessionVars, streamVars, StreamTypes
  <2>2. \A t \in Sessions, j \in Nat :
          /\ Carries(t, j, q)' <=> Carries(t, j, q)
          /\ Carries(t, j, q) => wire'[t][j].chunk = wire[t][j].chunk
    BY <1>1, <1>3, Appended
  <2>3. (Sending(q)' => Sending(q)) /\ (Live(q)' => Live(q))
    BY <2>1 DEF Sending, Live
  <2> QED
    BY <2>1, <2>2, <2>3, StreamKept
<1>4. UNCHANGED <<link, latest, via, twice>>
  BY <1>1 DEF Emit, sessionVars
<1> QED
  BY <1>2, <1>3, <1>4 DEF LinksKnown

\* A connection that ends takes what was on it along, and its session does not
\* come back.
LEMMA LinkDownKeepsStreams ==
  ASSUME StreamTypes, LinksKnown, \A q \in Requests \ twice : StreamOK(q), NEW s \in Sessions, LinkDown(s)
  PROVE  LinksKnown' /\ \A q \in Requests \ twice' : StreamOK(q)'
<1>1. /\ UNCHANGED <<pc, outcome, body, chunks, lost, have, via, next, twice, latest>>
      /\ link' = link \ {s} /\ wire'[s] = <<>> /\ \A t \in Sessions : t # s => wire'[t] = wire[t]
  BY DEF LinkDown, Table!Drop, envUnchanged, handlerVars, streamVars, agentVars, StreamTypes
<1>2. ASSUME NEW q \in Requests \ twice PROVE StreamOK(q)'
  <2>1. \A j \in Nat : ~Carries(s, j, q)'
    <3>1. Len(wire'[s]) = 0
      BY <1>1, EmptySeq
    <3> QED
      BY <3>1 DEF Carries
  <2>2. \A t \in Sessions, j \in Nat : t # s => (Carries(t, j, q)' <=> Carries(t, j, q)) /\ wire'[t] = wire[t]
    BY <1>1 DEF Carries
  <2>3. WireOK(q)'
    BY <1>1, <2>1, <2>2 DEF StreamOK, WireOK, Sending
  <2>4. /\ Taken(q)' = Taken(q) /\ (QueueOK(q) => QueueOK(q)') /\ (BodyOK(q) => BodyOK(q)')
        /\ (Live(q)' <=> Live(q))
    BY <1>1 DEF Taken, QueueOK, BodyOK, Live
  <2>5. ASSUME NEW t \in Sessions, NEW j \in Nat, Carries(t, j, q)', RunsTo(t, j, q) PROVE RunsTo(t, j, q)'
    <3>1. t # s /\ \A k \in 1 .. j - 1 : k \in Nat
      BY <2>1, <2>5
    <3> QED
      BY <2>2, <2>4, <2>5, <3>1 DEF RunsTo
  <2>6. RunsToNext(q) => RunsToNext(q)'
    <3>1. ASSUME RunsToNext(q), next[q] \in 1 .. Ending
          PROVE  \A t \in Sessions, j \in Nat : Carries(t, j, q)' => Place(wire'[t][j].chunk) < next[q]
      BY <2>1, <2>2, <3>1 DEF RunsToNext
    <3>2. ASSUME RunsToNext(q), next[q] \in 1 .. Ending, via[q] \in link'
          PROVE  \A m \in Nat : Taken(q) < m /\ m < next[q] =>
                   \E j \in Nat : Carries(via[q], j, q)' /\ Place(wire'[via[q]][j].chunk) = m
      <4>1. via[q] \in link /\ via[q] \in Sessions /\ via[q] # s
        BY <1>1, <3>2 DEF StreamTypes
      <4>2. \A j \in Nat : (Carries(via[q], j, q)' <=> Carries(via[q], j, q)) /\ wire'[via[q]] = wire[via[q]]
        BY <1>1, <2>2, <4>1
      <4> QED
        BY <3>2, <4>1, <4>2 DEF RunsToNext
    <3> QED
      BY <1>1, <2>4, <3>1, <3>2 DEF RunsToNext
  <2>7. \A t \in Sessions, j \in Nat : Carries(t, j, q)' => Carries(t, j, q)
    BY <2>1, <2>2
  <2> QED
    BY <1>1, <2>3, <2>4, <2>5, <2>6, <2>7 DEF StreamOK
<1> QED
  BY <1>1, <1>2 DEF LinksKnown

\* The steps that send nothing and read nothing.
LEMMA QuietKeepsStreams ==
  ASSUME SlotInv, StreamTypes, LinksKnown, \A q \in Requests \ twice : StreamOK(q),
         \/ AgentConnects \/ Revoke \/ \E s \in Sessions : Unregister(s)
         \/ \E r \in Requests : BrowserLeaves(r)
         \/ UNCHANGED vars
  PROVE  LinksKnown' /\ \A q \in Requests \ twice' : StreamOK(q)'
<1>1. UNCHANGED <<pc, outcome, body, chunks, lost, have, via, next, twice, wire>>
  BY DEF AgentConnects, Revoke, Unregister, BrowserLeaves, vars, envUnchanged, handlerVars, streamVars, agentVars
<1>2. \/ latest' = latest + 1 /\ link' = link \cup {latest + 1}
      \/ UNCHANGED <<latest, link>>
  BY DEF AgentConnects, Revoke, Unregister, Table!Connect, Table!Revoke, Table!Forget,
         BrowserLeaves, vars, sessionVars
<1>3. latest \in Nat /\ \A q \in Requests : via[q] \in Nat
  BY LimitAssumption DEF SlotInv, SlotTypes, StreamTypes
<1>4. \A q \in Requests : via[q] # latest + 1
  BY <1>3 DEF LinksKnown
<1>5. LinksKnown'
  <2>1. CASE latest' = latest + 1 /\ link' = link \cup {latest + 1}
    <3>1. link \subseteq 1 .. latest /\ \A q \in Requests : via[q] <= latest
      BY DEF LinksKnown
    <3>2. 1 .. latest \subseteq 1 .. latest + 1 /\ latest + 1 \in 1 .. latest + 1
      BY <1>3
    <3>3. link' \subseteq 1 .. latest'
      BY <2>1, <3>1, <3>2
    <3>4. \A q \in Requests : via[q] <= latest + 1
      BY <1>3, <3>1
    <3> QED
      BY <1>1, <2>1, <3>3, <3>4 DEF LinksKnown
  <2>2. CASE UNCHANGED <<latest, link>>
    BY <1>1, <2>2 DEF LinksKnown
  <2> QED
    BY <1>2, <2>1, <2>2
<1>6. ASSUME NEW q \in Requests \ twice PROVE StreamOK(q)'
  <2>1. /\ Sending(q)' => Sending(q)
        /\ Live(q)' => Live(q)
        /\ \A s, j : Carries(s, j, q)' <=> Carries(s, j, q)
    BY <1>1 DEF Sending, Live, Carries
  <2>2. via[q] \in link' => via[q] \in link
    BY <1>2, <1>4
  <2> QED
    BY <1>1, <2>1, <2>2, StreamKept
<1> QED
  BY <1>1, <1>5, <1>6

\* Every step.
LEMMA StreamStep == SlotInv /\ StreamInv /\ [Next]_vars => StreamInv'
<1> SUFFICES ASSUME SlotInv, StreamInv, [Next]_vars PROVE StreamInv'
  OBVIOUS
<1>1. StreamTypes'
  BY StreamTypesStep DEF StreamInv
<1>2. LinksKnown' /\ \A q \in Requests \ twice' : StreamOK(q)'
  BY HandlerKeepsStreams, ReaderKeepsStreams, AgentKeepsStreams, LinkDownKeepsStreams, QuietKeepsStreams
  DEF StreamInv, Next, Steady
<1> QED
  BY <1>1, <1>2 DEF StreamInv

\* Before the first request there is nothing anywhere.
LEMMA StreamInit == Init => StreamInv
<1> SUFFICES ASSUME Init PROVE StreamInv
  OBVIOUS
<1>1. Len(<<>>) = 0 /\ \A i \in 1 .. 0 : FALSE
  BY EmptySeq
<1>2. ASSUME NEW r \in Requests PROVE StreamOK(r)
  <2>1. /\ body[r] = <<>> /\ chunks[r] = <<>> /\ next[r] = 0 /\ have[r] = "no" /\ outcome[r] = "none"
        /\ \A s \in Sessions : wire[s] = <<>>
    BY DEF Init
  <2>2. \A s \in Sessions, j \in Nat : ~Carries(s, j, r)
    BY <1>1, <2>1 DEF Carries
  <2>3. Taken(r) = 0 /\ BodyOK(r) /\ QueueOK(r)
    BY <1>1, <2>1 DEF Taken, BodyOK, QueueOK
  <2> QED
    BY <2>1, <2>2, <2>3 DEF StreamOK, WireOK, RunsToNext
<1>3. LinksKnown
  BY DEF Init, LinksKnown
<1> QED
  BY <1>2, <1>3, StreamTypesInit DEF StreamInv

\* Type correctness of the whole proxy, for every number of requests, sessions,
\* chunks and queue places; the counters read and got need the upload's invariant
\* to stay within UploadChunks, and activeHTTP that of the slots not to become
\* negative.
THEOREM ProxyTypes == Spec => []TypeOK
<1>1. SlotInv /\ StreamInv /\ UploadInv => TypeOK
  BY DEF SlotInv, SlotTypes, StreamInv, StreamTypes, UploadInv, BodyTypes, TypeOK
<1>2. StreamInv => StreamTypes
  BY DEF StreamInv
<1> QED
  BY <1>1, <1>2, SlotInit, SlotStep, StreamInit, StreamStep, UploadInit, UploadStep, PTL DEF Spec

\* UploadIntegrity: whatever fails, is cut off or is replaced on the way, an agent
\* that takes an upload for complete has every chunk of it, unless the connection of
\* the chunks took some of them with it and the end was repeated on a newer one.
THEOREM UploadsIntact == Spec => []UploadIntegrity
<1>1. UploadInv => UploadIntegrity
  BY RequestsAssumption DEF UploadInv, UploadOK, UploadIntegrity
<1>2. StreamInv => StreamTypes
  BY DEF StreamInv
<1> QED
  BY <1>1, <1>2, SlotInit, SlotStep, StreamInit, StreamStep, UploadInit, UploadStep, PTL DEF Spec

\* For every response length, queue capacity and number of concurrent requests,
\* and through every reconnection: unless deliverChunk refused a chunk, the
\* browser gets the parts of the body in order and without a gap, and one that
\* ends with the final marker is whole.
THEOREM StreamsIntact == Spec => []StreamIntegrity
<1>1. StreamInv => StreamIntegrity
  BY DEF StreamInv, StreamOK, BodyOK, StreamIntegrity
<1> QED
  BY <1>1, SlotInit, SlotStep, StreamInit, StreamStep, PTL DEF Spec
==============================================================================
