------------------------------- MODULE WsTunnel -------------------------------
(***************************************************************************)
(* internal/api/server.go: a browser WebSocket relayed through an agent.   *)
(* proxyWebSocket registers a channel in tunnels, sends proxy_ws_open,     *)
(* waits for the result and then relays frames, with a goroutine that      *)
(* reads from the browser and one that pings it                            *)
(* (startBrowserWebSocketHeartbeat).  The reader of the agent connection   *)
(* hands the agent's messages over (dispatchTunnelMessage) and never       *)
(* waits: a message for a full channel is dropped.  The agent's sessions   *)
(* come from the contract of SessionTable.  As in ProxyHTTP a write that   *)
(* returned nil has sent its message, and a connection that breaks takes   *)
(* the last of what was sent over it with it.                              *)
(*                                                                         *)
(* The request was hijacked by websocket.Accept, so its context ends only  *)
(* when the handler returns: <-ctx.Done() is never ready in its own loop.  *)
(***************************************************************************)
EXTENDS Naturals, Sequences, FiniteSets

CONSTANTS Tunnels,        \* the browser WebSockets of a behaviour
          MaxSessions,    \* bound: how many times the agent connects
          TunnelQueue,    \* tunnelQueue
          AgentFrames,    \* bound: frames the agent sends
          BrowserFrames   \* bound: frames a browser sends

ASSUME WsAssumption == /\ IsFiniteSet(Tunnels)
                       /\ MaxSessions \in Nat \ {0} /\ TunnelQueue \in Nat \ {0}
                       /\ AgentFrames \in Nat /\ BrowserFrames \in Nat

Sessions == 1 .. MaxSessions
Close == 0                        \* proxy_ws_close; a frame is its number
NoFrame == BrowserFrames + 1      \* nothing in the frames channel

VARIABLES
  h,          \* handler: pc, sess, binary (binaryFrames), item (what it is writing)
  tunnels,    \* the keys of s.tunnels
  agentCh,    \* the channel of each tunnel
  ctx,        \* the tunnels whose ctx has been canceled
  rd,         \* reader goroutine: pc, item (what it has read)
  frames,     \* the frames channel, capacity one
  hb,         \* heartbeat goroutine
  hbErr,      \* heartbeatErrors holds an error
  browser,    \* the browser end: "up", "stuck" (reads nothing), "gone"
  out,        \* frames written to the browser
  stats,      \* proxyStats
  registered, \* the agent's entry in s.sessions (0: none)
  latest,     \* how many times the agent has connected
  link,       \* the connections that are up
  agent,      \* the agent's view of each tunnel, per session it was opened over
  emitted,    \* frames the agent has sent
  inbox,      \* browser frames the agent has received, over any session
  deaf,       \* the sessions the agent reads nothing more from
  unread,     \* history: browser frames that went down with a connection
  lost        \* history: the agent's frames that met a full channel

\* The agent can always connect, and may have been deleted at any time.
Table == INSTANCE SessionTable WITH
  current <- registered, connected <- latest, up <- link,
  Calls <- {0}, admitted <- {0}, deleted <- TRUE

mgr == <<h, tunnels, agentCh, ctx, rd, frames, hb, hbErr, stats>>
sessions == <<registered, latest, link>>
far == <<agent, emitted, inbox, deaf, unread, lost>>
vars == <<mgr, browser, out, sessions, far>>

Kinds == {"result", "reject", "frame", "bad", "close"}
HandlerStates == {"idle", "refused", "register", "open", "reopen", "wait", "loop", "write",
                  "relay", "rerelay", "closing", "reclosing", "unwind", "closed", "end"}

TypeOK ==
  /\ h \in [Tunnels -> [pc : HandlerStates, sess : 0 .. MaxSessions, binary : BOOLEAN, item : Nat]]
  /\ tunnels \in SUBSET Tunnels
  /\ \A t \in Tunnels : Len(agentCh[t]) <= TunnelQueue
  /\ agentCh \in [Tunnels -> Seq([kind : Kinds, n : 0 .. AgentFrames])]
  /\ ctx \in SUBSET Tunnels
  /\ rd \in [Tunnels -> [pc : {"off", "read", "put", "putClose", "exit"}, item : 0 .. BrowserFrames]]
  /\ frames \in [Tunnels -> 0 .. NoFrame]
  /\ hb \in [Tunnels -> {"off", "tick", "ping", "exit"}]
  /\ hbErr \in SUBSET Tunnels
  /\ browser \in [Tunnels -> {"up", "stuck", "gone"}]
  /\ out \in [Tunnels -> Seq(1 .. AgentFrames)]
  /\ stats \in [{"sent", "acked", "failed", "heartbeat", "closed"} -> Nat]
  /\ registered \in 0 .. MaxSessions /\ latest \in 0 .. MaxSessions
  /\ link \in SUBSET Sessions
  /\ agent \in [Tunnels -> [Sessions -> {"none", "asked", "open", "closed"}]]
  /\ emitted \in [Tunnels -> 0 .. AgentFrames]
  /\ inbox \in [Tunnels -> Seq(1 .. BrowserFrames)]
  /\ deaf \in SUBSET Sessions
  /\ unread \in [Tunnels -> SUBSET (1 .. BrowserFrames)]
  /\ lost \in [Tunnels -> SUBSET (1 .. AgentFrames)]

Init ==
  /\ h = [t \in Tunnels |-> [pc |-> "idle", sess |-> 0, binary |-> FALSE, item |-> Close]]
  /\ tunnels = {}
  /\ agentCh = [t \in Tunnels |-> <<>>]
  /\ ctx = {}
  /\ rd = [t \in Tunnels |-> [pc |-> "off", item |-> Close]]
  /\ frames = [t \in Tunnels |-> NoFrame]
  /\ hb = [t \in Tunnels |-> "off"]
  /\ hbErr = {}
  /\ browser = [t \in Tunnels |-> "up"]
  /\ out = [t \in Tunnels |-> <<>>]
  /\ stats = [k \in {"sent", "acked", "failed", "heartbeat", "closed"} |-> 0]
  /\ registered = 0 /\ latest = 0 /\ link = {}
  /\ agent = [t \in Tunnels |-> [s \in Sessions |-> "none"]]
  /\ emitted = [t \in Tunnels |-> 0]
  /\ inbox = [t \in Tunnels |-> <<>>]
  /\ deaf = {}
  /\ unread = [t \in Tunnels |-> {}]
  /\ lost = [t \in Tunnels |-> {}]

-----------------------------------------------------------------------------
(* Writing to the agent: writeAgentJSONPriority and writeAgentBinary *)

\* What was being written is done with.
Goto(t, p) == h' = [h EXCEPT ![t].pc = p, ![t].item = Close]

Count(k) == stats' = [stats EXCEPT ![k] = @ + 1]

\* A frame of the browser is being written, or else a message about the tunnel.
Relays(t) == h[t].pc \in {"relay", "rerelay"} /\ h[t].item # Close

\* The agent receives the message that h[t] is writing over session s ...
Receives(t, s) ==
  /\ s \in link \ deaf
  /\ \/ /\ Relays(t)
        /\ inbox' = [inbox EXCEPT ![t] = Append(@, h[t].item)]
        /\ UNCHANGED agent
     \/ /\ ~Relays(t)
        /\ agent' = [agent EXCEPT ![t][s] = IF h[t].pc \in {"open", "reopen"} THEN "asked" ELSE "closed"]
        /\ UNCHANGED inbox
  /\ UNCHANGED <<deaf, unread>>

\* ... or it goes down with the connection, and whatever is written after it too.
Loses(t, s) ==
  /\ s \in link
  /\ deaf' = deaf \cup {s}
  /\ unread' = [unread EXCEPT ![t] = IF Relays(t) THEN @ \cup {h[t].item} ELSE @]
  /\ UNCHANGED <<agent, inbox>>

\* One writeAgentBytesPriority to session s.  When it returns nil the message was
\* sent, which does not mean that the agent reads it.  When it returns an error the
\* lane is full, or the connection breaks and the message may have got through.  The
\* close of a failed heartbeat has a deadline, after which it may still be sent.
Write(t, s, ok) ==
  \/ ok /\ (Receives(t, s) \/ Loses(t, s)) /\ UNCHANGED link
  \/ ~ok /\ Receives(t, s) /\ link' = link \ {s}
  \/ ~ok /\ h[t].pc \in {"closing", "reclosing"} /\ Receives(t, s) /\ UNCHANGED link
  \/ ~ok /\ link' \in {link, link \ {s}} /\ UNCHANGED <<agent, inbox, deaf, unread>>

\* The retry of each write, and where the handler goes when one has returned.
Again(p) == CASE p = "open" -> "reopen" [] p = "relay" -> "rerelay" [] OTHER -> "reclosing"

Sent(p) == CASE p \in {"open", "reopen"} -> "wait"
             [] p \in {"relay", "rerelay"} -> "loop"
             [] OTHER -> "unwind"

\* Mutant: a frame that could not be sent is only logged.
AfterErrorGoesOn(t) == IF h[t].pc \in {"relay", "rerelay"} THEN "loop" ELSE "unwind"

AfterError(t) == "unwind"

\* The write has an error for its caller: a failed open is counted.
Fails(t) == /\ Goto(t, AfterError(t))
            /\ IF h[t].pc \in {"open", "reopen"} THEN Count("failed") ELSE UNCHANGED stats

\* proxy_ws_close ends the tunnel whatever the write returns.
Succeeds(t) == /\ Goto(t, IF h[t].item = Close /\ h[t].pc \in {"relay", "rerelay"}
                          THEN "unwind" ELSE Sent(h[t].pc))
               /\ UNCHANGED stats

writeUnchanged == <<tunnels, agentCh, ctx, rd, frames, hb, hbErr, browser, out, registered,
                    latest, emitted, lost>>

\* The write to the session that was looked up when the tunnel was opened.  A
\* binary frame has no second try.
FirstWrite(t) ==
  /\ h[t].pc \in {"open", "relay", "closing"}
  /\ \E ok \in BOOLEAN :
       /\ Write(t, h[t].sess, ok)
       /\ IF ok THEN Succeeds(t)
          ELSE IF h[t].pc = "relay" /\ h[t].binary /\ h[t].item # Close THEN Fails(t)
          ELSE h' = [h EXCEPT ![t].pc = Again(@)] /\ UNCHANGED stats
  /\ UNCHANGED writeUnchanged

\* The retry on the agent's current session, when it is another one.
SecondWrite(t) ==
  /\ h[t].pc \in {"reopen", "rerelay", "reclosing"}
  /\ \/ /\ registered \in {0, h[t].sess}
        /\ Fails(t)
        /\ UNCHANGED <<agent, inbox, deaf, unread, link>>
     \/ /\ registered \notin {0, h[t].sess}
        /\ \E ok \in BOOLEAN :
             /\ Write(t, registered, ok)
             /\ IF ok THEN Succeeds(t) ELSE Fails(t)
  /\ UNCHANGED writeUnchanged

-----------------------------------------------------------------------------
(* proxyWebSocket *)

handlerUnchanged == <<browser, sessions, far>>

\* No session id, no target, an offline agent, no proxy.websocket capability, or
\* a request that websocket.Accept does not take.
Refuse(t) ==
  /\ h[t].pc = "idle"
  /\ Goto(t, "refused")
  /\ UNCHANGED <<tunnels, agentCh, ctx, rd, frames, hb, hbErr, stats, out, handlerUnchanged>>

\* The session lookup and websocket.Accept.
AcceptBrowser(t) ==
  /\ h[t].pc = "idle"
  /\ registered # 0
  /\ h' = [h EXCEPT ![t].pc = "register", ![t].sess = registered]
  /\ UNCHANGED <<tunnels, agentCh, ctx, rd, frames, hb, hbErr, stats, out, handlerUnchanged>>

\* s.tunnels[requestID] = agentCh, the negotiation of binary frames, and the
\* proxy_ws_open that is sent next.
RegisterTunnel(t, binaryFrames) ==
  /\ h[t].pc = "register"
  /\ h' = [h EXCEPT ![t].pc = "open", ![t].binary = binaryFrames]
  /\ tunnels' = tunnels \cup {t}
  /\ Count("sent")
  /\ UNCHANGED <<agentCh, ctx, rd, frames, hb, hbErr, out, handlerUnchanged>>

\* The answer to proxy_ws_open; anything but a positive result ends the tunnel.
TakeResult(t) ==
  /\ h[t].pc = "wait"
  /\ agentCh[t] # <<>>
  /\ agentCh' = [agentCh EXCEPT ![t] = Tail(@)]
  /\ IF Head(agentCh[t]).kind = "result"
     THEN /\ Goto(t, "loop")
          /\ Count("acked")
          /\ rd' = [rd EXCEPT ![t].pc = "read"]
          /\ hb' = [hb EXCEPT ![t] = "tick"]
     ELSE Goto(t, "unwind") /\ Count("failed") /\ UNCHANGED <<rd, hb>>
  /\ UNCHANGED <<tunnels, ctx, frames, hbErr, out, handlerUnchanged>>

\* Mutant: the wait for the result has no timer.
OpenTimerNever(t) == h[t].pc = "wait" /\ agentCh[t] # <<>>

OpenTimer(t) == h[t].pc = "wait"

\* Mutant: an open that times out is not counted as failed.
CountTimeoutNot == UNCHANGED stats

CountTimeout == Count("failed")

\* <-openTimer.C
OpenTimeout(t) ==
  /\ OpenTimer(t)
  /\ Goto(t, "unwind")
  /\ CountTimeout
  /\ UNCHANGED <<tunnels, agentCh, ctx, rd, frames, hb, hbErr, out, handlerUnchanged>>

\* Mutant: the close is a message like any other.
AfterMessageGoesOn(kind) == IF kind = "frame" THEN "write" ELSE "loop"

\* A frame goes to the browser and proxy_ws_close ends the tunnel; a frame that is
\* not Base64 and a message of another type are skipped.
AfterMessage(kind) == CASE kind = "frame" -> "write" [] kind = "close" -> "unwind" [] OTHER -> "loop"

\* case msg := <-agentCh
TakeAgentMessage(t) ==
  /\ h[t].pc = "loop"
  /\ agentCh[t] # <<>>
  /\ agentCh' = [agentCh EXCEPT ![t] = Tail(@)]
  /\ LET m == Head(agentCh[t])
     IN h' = [h EXCEPT ![t].pc = AfterMessage(m.kind), ![t].item = m.n]
  /\ UNCHANGED <<tunnels, ctx, rd, frames, hb, hbErr, stats, out, handlerUnchanged>>

\* browser.Write, which waits for a browser that does not read and fails once
\* the connection is gone.
WriteBrowser(t) ==
  /\ h[t].pc = "write"
  /\ \/ browser[t] = "up" /\ out' = [out EXCEPT ![t] = Append(@, h[t].item)] /\ Goto(t, "loop")
     \/ browser[t] = "gone" /\ Goto(t, "unwind") /\ UNCHANGED out
  /\ UNCHANGED <<tunnels, agentCh, ctx, rd, frames, hb, hbErr, stats, handlerUnchanged>>

\* case frame := <-frames
TakeBrowserFrame(t) ==
  /\ h[t].pc = "loop"
  /\ frames[t] # NoFrame
  /\ h' = [h EXCEPT ![t].pc = "relay", ![t].item = frames[t]]
  /\ frames' = [frames EXCEPT ![t] = NoFrame]
  /\ UNCHANGED <<tunnels, agentCh, ctx, rd, hb, hbErr, stats, out, handlerUnchanged>>

\* case err := <-heartbeatErrors
TakeHeartbeatError(t) ==
  /\ h[t].pc = "loop"
  /\ t \in hbErr
  /\ hbErr' = hbErr \ {t}
  /\ h' = [h EXCEPT ![t].pc = "closing", ![t].item = Close]
  /\ Count("heartbeat")
  /\ UNCHANGED <<tunnels, agentCh, ctx, rd, frames, hb, out, handlerUnchanged>>

\* Mutant: the entry is deleted only by tunnels that were opened.
TunnelsAfterOpened(t) == IF rd[t].pc = "off" THEN tunnels ELSE tunnels \ {t}

TunnelsAfter(t) == tunnels \ {t}

\* The deferred cancel and delete (the channel becomes garbage) ...
Unwind(t) ==
  /\ h[t].pc = "unwind"
  /\ Goto(t, "closed")
  /\ ctx' = ctx \cup {t}
  /\ tunnels' = TunnelsAfter(t)
  /\ agentCh' = [agentCh EXCEPT ![t] = <<>>]
  /\ UNCHANGED <<rd, frames, hb, hbErr, stats, out, handlerUnchanged>>

\* ... and the deferred count and CloseNow.
CloseTunnel(t) ==
  /\ h[t].pc = "closed"
  /\ Goto(t, "end")
  /\ Count("closed")
  /\ browser' = [browser EXCEPT ![t] = "gone"]
  /\ UNCHANGED <<tunnels, agentCh, ctx, rd, frames, hb, hbErr, out, sessions, far>>

-----------------------------------------------------------------------------
(* The goroutines of a tunnel *)

goUnchanged == <<h, tunnels, agentCh, ctx, stats, out, sessions, far>>

\* browser.Read: the next frame, or an error once the connection or ctx is gone.
ReadBrowser(t) ==
  /\ rd[t].pc = "read"
  /\ \/ /\ browser[t] = "up" /\ t \notin ctx /\ rd[t].item < BrowserFrames
        /\ rd' = [rd EXCEPT ![t].pc = "put", ![t].item = @ + 1]
     \/ /\ browser[t] = "gone" \/ t \in ctx
        /\ rd' = [rd EXCEPT ![t].pc = "putClose"]
  /\ UNCHANGED <<goUnchanged, browser, frames, hb, hbErr>>

\* Mutant: a plain send to the channel.
SendFrameStopsNever(t) == t \in ctx /\ frames[t] = NoFrame

SendFrameStops(t) == t \in ctx

\* sendFrame: into the channel, or nowhere once ctx has ended.  The goroutine
\* ends after the close.
SendFrame(t) ==
  /\ rd[t].pc \in {"put", "putClose"}
  /\ \/ /\ frames[t] = NoFrame
        /\ frames' = [frames EXCEPT ![t] = IF rd[t].pc = "put" THEN rd[t].item ELSE Close]
     \/ SendFrameStops(t) /\ UNCHANGED frames
  /\ rd' = [rd EXCEPT ![t].pc = IF @ = "put" THEN "read" ELSE "exit"]
  /\ UNCHANGED <<goUnchanged, browser, hb, hbErr>>

\* The ticker fires and a ping is written, or ctx has ended.
HeartbeatTick(t) ==
  /\ hb[t] = "tick"
  /\ \/ hb' = [hb EXCEPT ![t] = "ping"]
     \/ t \in ctx /\ hb' = [hb EXCEPT ![t] = "exit"]
  /\ UNCHANGED <<goUnchanged, browser, rd, frames, hbErr>>

\* browser.Ping returns.  The pong is taken off the connection by browser.Read,
\* so only while the reader goroutine is in that call; otherwise, or when there
\* is no pong, the ping times out, and the library may give the connection up.
PingReturns(t) ==
  /\ hb[t] = "ping"
  /\ \/ /\ browser[t] = "up" /\ rd[t].pc = "read" /\ t \notin ctx
        /\ hb' = [hb EXCEPT ![t] = "tick"]
        /\ UNCHANGED <<hbErr, browser>>
     \/ /\ hb' = [hb EXCEPT ![t] = "exit"]
        /\ hbErr' = hbErr \cup {t}
        /\ browser' \in {browser, [browser EXCEPT ![t] = "gone"]}
  /\ UNCHANGED <<goUnchanged, rd, frames>>

-----------------------------------------------------------------------------
(* The agent (external), its connections, and the browsers *)

\* Mutant: a full channel makes room by giving up its oldest message, unrecorded.
DispatchDropsOldest(t, m) ==
  /\ agentCh' = [agentCh EXCEPT ![t] =
       IF t \notin tunnels THEN @ ELSE Append(IF Len(@) < TunnelQueue THEN @ ELSE Tail(@), m)]
  /\ UNCHANGED lost

\* Mutant: the reader keeps every message.
DispatchKeepsAll(t, m) ==
  /\ agentCh' = [agentCh EXCEPT ![t] = IF t \in tunnels THEN Append(@, m) ELSE @]
  /\ UNCHANGED lost

\* dispatchTunnelMessage, in the reader of the agent connection.
Dispatch(t, m) ==
  IF t \in tunnels /\ Len(agentCh[t]) < TunnelQueue
  THEN agentCh' = [agentCh EXCEPT ![t] = Append(@, m)] /\ UNCHANGED lost
  ELSE /\ lost' = [lost EXCEPT ![t] = IF t \in tunnels /\ m.kind = "frame" THEN @ \cup {m.n} ELSE @]
       /\ UNCHANGED agentCh

\* The agent answers an open, sends frames, and closes, over the connection the
\* open came by; the manager reads a connection in order.
AgentSays(t, s, kind) ==
  /\ s \in link
  /\ agent[t][s] = IF kind \in {"result", "reject"} THEN "asked" ELSE "open"
  /\ agent' = [agent EXCEPT ![t][s] = IF kind \in {"reject", "close"} THEN "closed" ELSE "open"]
  /\ emitted' = [emitted EXCEPT ![t] = IF kind = "frame" THEN @ + 1 ELSE @]
  /\ emitted'[t] <= AgentFrames
  /\ Dispatch(t, [kind |-> kind, n |-> IF kind = "frame" THEN emitted'[t] ELSE Close])
  /\ UNCHANGED <<h, tunnels, ctx, rd, frames, hb, hbErr, stats, browser, out, sessions, inbox,
                 deaf, unread>>

AgentConnects ==
  /\ latest < MaxSessions
  /\ Table!Connect(0)
  /\ UNCHANGED <<mgr, browser, out, far>>

LinkDown(s) == Table!Drop(s) /\ UNCHANGED <<mgr, browser, out, far>>

\* The cleanup of agentConnect.
Unregister(s) == Table!Forget(s) /\ UNCHANGED <<mgr, browser, out, far>>

\* revokeAgent takes the session out while its connection is still up.
Revoke == Table!Revoke /\ UNCHANGED <<mgr, browser, out, far>>

Accepted(t) == h[t].pc \notin {"idle", "refused", "end"}

\* A browser stops reading (its buffers are full), reads on, or goes away.
BrowserTurns(t, b) ==
  /\ Accepted(t)
  /\ browser[t] # "gone"
  /\ browser' = [browser EXCEPT ![t] = b]
  /\ UNCHANGED <<mgr, out, sessions, far>>

-----------------------------------------------------------------------------
Handler(t) ==
  \/ \E binaryFrames \in BOOLEAN : RegisterTunnel(t, binaryFrames)
  \/ FirstWrite(t) \/ SecondWrite(t)
  \/ TakeResult(t) \/ OpenTimeout(t)
  \/ TakeAgentMessage(t) \/ WriteBrowser(t) \/ TakeBrowserFrame(t) \/ TakeHeartbeatError(t)
  \/ Unwind(t) \/ CloseTunnel(t)

ReaderGoroutine(t) == ReadBrowser(t) \/ SendFrame(t)

HeartbeatGoroutine(t) == HeartbeatTick(t) \/ PingReturns(t)

Next ==
  \/ \E t \in Tunnels :
       \/ Refuse(t) \/ AcceptBrowser(t)
       \/ Handler(t) \/ ReaderGoroutine(t) \/ HeartbeatGoroutine(t)
       \/ \E s \in Sessions, kind \in Kinds : AgentSays(t, s, kind)
       \/ \E b \in {"up", "stuck", "gone"} : BrowserTurns(t, b)
  \/ AgentConnects
  \/ \E s \in Sessions : LinkDown(s) \/ Unregister(s)
  \/ Revoke

Spec == Init /\ [][Next]_vars

\* The handler waits in enqueue for a connection that is up.  Only the close of a
\* failed heartbeat has a deadline: the other writes return when the agent has
\* read them or its connection has ended.
WriteWaits(t) ==
  \/ h[t].pc \in {"open", "relay"} /\ h[t].sess \in link
  \/ h[t].pc \in {"reopen", "rerelay"} /\ registered # h[t].sess /\ registered \in link

\* A handler that was accepted and the two goroutines are scheduled, timers fire,
\* and a select that finds a case ready again and again chooses it some time.
\* Neither a write to the agent nor one to a stuck browser need return, and
\* nothing is assumed of the agent or of the browsers.
Fairness ==
  \A t \in Tunnels :
    /\ WF_vars(~WriteWaits(t) /\ Handler(t))
    /\ WF_vars(ReaderGoroutine(t))
    /\ WF_vars(HeartbeatGoroutine(t))
    /\ SF_vars(TakeBrowserFrame(t))
    /\ SF_vars(TakeHeartbeatError(t))
    /\ SF_vars(TakeAgentMessage(t))

FairSpec == Spec /\ Fairness

-----------------------------------------------------------------------------
(* Properties *)

Opening(t) == h[t].pc \in {"open", "reopen", "wait"}
Ended(t) == h[t].pc = "end"

\* s.tunnels has exactly the tunnels whose handler can still use a message: no
\* way out of proxyWebSocket leaves an entry behind.
TunnelsExact ==
  \A t \in Tunnels :
    t \in tunnels <=> h[t].pc \notin {"idle", "refused", "register", "closed", "end"}

\* The counters an operator is told to compare (README, docs/testing.md): every
\* open that was sent is acknowledged, failed or still waiting, and every tunnel
\* that was accepted is counted when it closes.
WsStatsBalance ==
  /\ stats["sent"] = stats["acked"] + stats["failed"] + Cardinality({t \in Tunnels : Opening(t)})
  /\ stats["closed"] = Cardinality({t \in Tunnels : Ended(t)})
  /\ stats["heartbeat"] <= stats["acked"]

\* Browser frames reach the agent in order, through the retry on a newer session
\* too; the one frame that may come twice in a row is one whose first write was cut
\* off.  Nothing follows a frame that failed.  A frame that the agent is given ahead
\* of an earlier one means that the write of the earlier one had returned nil, that
\* it went down with its connection, and that the agent has connected again: over
\* one connection there is no gap.
FramesToAgent ==
  \A t \in Tunnels :
    \A i \in 1 .. Len(inbox[t]) :
      /\ \A j \in 1 .. i - 1 : /\ inbox[t][j] <= inbox[t][i]
                               /\ j < i - 1 => inbox[t][j] < inbox[t][i]
      /\ \A n \in 1 .. inbox[t][i] - 1 :
           \/ \E j \in 1 .. i - 1 : inbox[t][j] = n
           \/ n \in unread[t] /\ h[t].sess < latest

\* The browser gets the agent's frames in order and none twice, and a frame
\* that it is given ahead of an earlier one means that the earlier one met a
\* full channel and was counted as dropped.
FramesToBrowser ==
  \A t \in Tunnels :
    \A i \in 1 .. Len(out[t]) :
      /\ i > 1 => out[t][i - 1] < out[t][i]
      /\ \A n \in 1 .. out[t][i] :
           n \in lost[t] \/ \E j \in 1 .. i : out[t][j] = n

\* The agent takes what it is sent, or its connection ends: no write to it waits
\* for ever.
AgentTakes(t) == []<>~WriteWaits(t)

\* The handler of a browser that has gone away ends, in whatever phase it is and
\* even when the agent never answers, as long as no write waits for ever.
GoneBrowsersEnd == \A t \in Tunnels : AgentTakes(t) => ((browser[t] = "gone") ~> Ended(t))

\* Both goroutines of a tunnel end after its handler has: neither stays behind
\* in a send to a channel that nobody reads.
GoroutinesEnd ==
  \A t \in Tunnels :
    Ended(t) ~> (rd[t].pc \in {"off", "exit"} /\ hb[t] \in {"off", "exit"})

\* A close from the agent that found room in the channel ends the tunnel, unless
\* the browser does not read or a write to the agent waits for ever.
AgentCloseEnds ==
  \A t \in Tunnels : AgentTakes(t) =>
    ((\E i \in 1 .. Len(agentCh[t]) : agentCh[t][i].kind = "close")
       ~> (Ended(t) \/ browser[t] = "stuck"))

\* The handler is writing proxy_ws_close.
WritesClose(t) ==
  \/ h[t].pc \in {"closing", "reclosing"}
  \/ h[t].pc \in {"relay", "rerelay"} /\ h[t].item = Close

\* docs/protocol-v1.md: when no pong arrives within 5 seconds, the manager sends
\* proxy_ws_close and ends the browser's tunnel.  So a heartbeat error of a
\* running tunnel leads to that message, unless no connected agent has the tunnel
\* open any more.
HeartbeatFailureTold ==
  \A t \in Tunnels :
    (t \in hbErr /\ h[t].pc \in {"loop", "write"})
      ~> (WritesClose(t) \/ \A s \in link : agent[t][s] # "open")
===============================================================================
