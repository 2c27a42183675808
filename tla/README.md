# dsh-manager in TLA+

A model-checked specification, with machine-checked proofs of its safety, of the core of
dsh-manager: the process that agents (launchers and plugins beside a dsh
instance) connect to over a websocket, and through which browsers reach the dsh
instances behind those agents.

## 1. The system and its parts

| Part | State | Operations | Talks to |
| --- | --- | --- | --- |
| Outbound scheduler (`internal/api/outbound_scheduler.go`) | three bounded lanes, wake token, stop flags, counters | `enqueue`, `run`, `write`, `drain`, `close`, `snapshot` | one goroutine owns all writes to one agent connection; every handler that sends to the agent calls `enqueue` and waits |
| HTTP proxy (`server.go`, `proxyHTTPForTarget`) | `activeHTTP` per session, `pending`, the channels of each `proxyStream` | acquire a slot, register, send (buffered or streamed body), await the header, relay, cancel, release | sends through the scheduler; is answered by the agent connection's single reader |
| Agent sessions (`agentConnect`, `handleAgentMessage`, `agentHeartbeat`, `revokeAgent`) | `sessions`, per-session metadata and bootstrap availability | connect and replace, read, clean up, heartbeat, revoke | the database; the proxy looks sessions up |
| Storage (`internal/storage/sqlite.go`) | tables `agents`, `instances` (one connection) | upsert, mark offline, delete, authenticate, create, list | all handlers |
| Enrolment (`enroll`, `refreshPairing`, `config.Load`) | `pairingCode` | enrol, refresh, restart | storage |
| WebSocket tunnels (`proxyWebSocket`, `startBrowserWebSocketHeartbeat`, `dispatchTunnelMessage`) | `tunnels`, a queue and two goroutines per tunnel, `proxyStats` | open, relay both ways, heartbeat, close | scheduler, reader |
| Agent commands (`adminCommand`, `supportsCapability`, `writeAgentJSONPriority`) | the session's `agentType` and capabilities | look up, check, write, write again on a newer session | sessions, scheduler |
| Web targets (`openInstance`, `consumeBootstrap`, `proxySession`, `proxyOrNot`, `target_routing.go`) | `webTargets`, the browser's `dsh-target` cookie | open, choose the target of a request, consume the bootstrap | sessions, storage |
| Cookie jar (`proxy_cookie_jar.go`) | cookies per target | `apply`, `requestHeader`, scoping of paths | HTTP proxy, browser |
| Rewritten-JS cache (`rewritten_js_cache.go`) | map, list and byte count under one mutex | `serve`, `add`, evict | HTTP proxy |
| Dashboard sessions (`authLogin`, `authLogout`, `isAuthenticated`) | `authSessions` | login, logout, check and remove | all admin handlers |

What is hard here: every browser request, every agent connection and every
scheduler is a goroutine of its own, and mutexes are held for single map
operations only. So a value read under a lock is routinely used after it is
released (the session of a request, the "current" test of a cleanup); writes to
an agent may fail, be retried on a newer connection, or be reported as failed
although they happened; queues are bounded and full queues drop or refuse; the
process may be restarted with rows in the database. PROJECT.json lists these
hazards line by line.

## 2. Modules

| Module | Models | Actions |
| --- | --- | --- |
| `FrameDelivery` | what a caller of `enqueue` may rely on | `Deliver`, `Answer` |
| `SessionTable` | what a user of `s.sessions` may rely on, for one agent | `Admit`, `Abandon`, `Connect`, `Drop`, `Forget`, `Delete`, `Revoke`, `Restart` |
| `OutboundScheduler` | the scheduler, one step per channel operation or shared atomic | calls: `EnqueueStart`, `Push`, `Signal`, `QueueFull`, `ReturnCtx`, `ReturnStopped`, `ReturnDone`; loop: `TryPop`, `NextLane`, `WriteReturns`, `CheckStop`, `Woken`, `ParkStopped`, `DrainFrame`, `DrainNextLane`; around it: `Close`, `ConnDown`, `CtxEnds` |
| `ProxyHTTP` | proxied requests over the successive sessions of one agent, with the reader of each connection, the agent (external) and the browsers | one action per blocking point, send or shared update of `proxyHTTPForTarget`, `sendProxyRequest`, `tryAcquireHTTP`; `Reader`; `AgentConnects`, `LinkDown`, `Unregister`, `Revoke` |
| `WsTunnel` | browser WebSockets: the handler, its two goroutines, the agent's reader, an agent that reconnects and browsers that stop reading or leave (external) | one action per select case, write and deferred call of `proxyWebSocket` (`RegisterTunnel`, `FirstWrite`, `SecondWrite`, `TakeResult`, `OpenTimeout`, `TakeAgentMessage`, `WriteBrowser`, `TakeBrowserFrame`, `TakeHeartbeatError`, `Unwind`, `CloseTunnel`); `ReadBrowser`, `SendFrame`; `HeartbeatTick`, `PingReturns`; `AgentSays` (with `Dispatch`) |
| `AgentRegistry` | `s.sessions` and the rows of the database over connects, replacements, heartbeats, revocation, cleanups and restarts | one action per critical section of `sessionsMu` and per database call |
| `AgentLink` | `adminCommand` and the retry of `writeAgentJSONPriority` over the sessions of an agent | `BeginCommand`, `Lookup`, `Check`, `FirstReturns`, `Retry`, `SecondReturns`, `SendFrame`; `Connect`, `Declare`, `Drop`, `Forget`, `Revoke` |
| `Enrollment` | the pairing code and the agents it makes | `Present`, `CompareCode`, `CreateAgent`, `Answer`, `RefreshPairing`, `Restart` |
| `Dashboard` | login sessions, composed with `Enrollment` and `AgentLink` | `AuthLogin`, `AuthLogout`, `Command`, `BeginRefresh`, `Refresh`, `Tick`, `ProcessRestart`, and the steps of the two others |
| `CookieJar` | `apply`, `requestHeader` and the paths of cookies, as operators; `JarApply` | |
| `RewrittenJSCache` | `add`, `serve`, `remove` and the eviction loop as functions of the cache | |
| `WebProxy` | targets, routing, bootstrap, cookies and cached scripts of the pages a browser has open, composed of the two modules above | `OpenInstance`, `BrowserRequests`, `Route`, `ConsumeBootstrap`, `LookAgain`, `StartProxy`, `Refuse`, `SendRequest`, `Answer`, `BrowserReceives`, `AgentReports`, `Tick` |
| `*Proofs` | theorems about the module they extend | |
| `MC*` | instances for TLC: model values, symmetry and, for four modules, a `Scenario` | |

Composition. `OutboundScheduler` is shown to implement `FrameDelivery`
(`DeliveryContract`). What writes to an agent is built on that contract instead
of on the scheduler: `AgentLink` takes `Deliver` and `Answer` from an `INSTANCE` of
it, with one frame for the write and one for its repetition; in `ProxyHTTP` and
`WsTunnel` a write that returns nil was sent, and one that returns an error may have
been. Sent is not received: `conn.Write` returns when a frame is in the buffers of the
connection, and a connection that breaks takes the last of what was sent over it with
it. So every write there may end with nil and its frame lost (`Loses`), after which the
agent reads nothing more from that connection (`deaf`), while the manager goes on
writing to it until it learns that it is down. In the same way `AgentRegistry` is shown to implement `SessionTable`
(`SessionContract`), and `AgentLink`, `ProxyHTTP` and `WsTunnel` take the connecting, breaking,
cleaning up and revoking of sessions from an `INSTANCE` of it. They follow neither
the calls of `agentConnect` nor the database, so they put constants for these: there
is always an admitted call, and the agent may have been deleted. `SessionTable` is
about one agent; sessions have the numbers in which they registered, which
`AgentRegistry` keeps in `connects` and `number`. `Dashboard` puts logins, commands and enrolment into one process that can be
restarted; `WebProxy` puts routing, jar and cache into one.

Abstractions. Payloads, headers, wording and logging are left out. A frame is an
enqueue call; a body chunk is its number, so that a hole or a swap shows; so is
a WebSocket frame. The instances of an agent are the number of the report that
lists them; pairing codes and login ids are numbered in the order they are made
(`randomHex` does not repeat).
In `AwaitHeader` of `ProxyHTTP` the cookie jar and the rewritten-JS cache are left
out, which `WebProxy` has; and in `UpdateSessionMetadata` of `AgentRegistry` the
metadata, which `AgentLink` has. The `hello` frame of `agentConnect` is an ordinary
write through the scheduler. The path of a cookie or a request is the sequence of
its parts between slashes, so that "/a" and "/a/" differ; the Path of a Set-Cookie
that does not start with a slash is marked with `Relative`, and one without a value is
`EmptyPath`. Blanks around names and values are left out. What else a browser has in
its Cookie header is any member of `BrowserHeaders`, since pages, scripts and earlier
answers may have left anything there. The path `Root` is a GET of "/" without a query, which
is what `consumeBootstrap` asks for. The clock of `CookieJar` starts at 2 so that
there is a past; 0 is Go's zero time. In the cache the gzip variant is part of
the size of an entry, and hit counters are left out. `WebProxy` leaves the
transport to `ProxyHTTP` and `WsTunnel`: its `Refuse` is any of their failures.
In `ProxyHTTP` the two writes of `writeAgentJSONPriority` are two steps for the message
that makes the request (`SendRequest`, `ResendRequest`), between which the agent may have
it and answer; a frame that is written after `enqueue` has returned an error is taken
as written before the return, when the agent can do all it can do later. For the end
of an upload the two writes are one step, since a second copy of it tells the agent
nothing.
Of the agent both modules assume that what it reads of a connection it reads in order
and before anything that is sent over a newer one.
In `WsTunnel` the request's context ends only with the handler, because
`websocket.Accept` has hijacked the connection; what `browser.Read`, `Write` and
`Ping` of the library do is marked external.
History variables (`fate`, `bypass`, `lost`, `unread`, `twice`, `newest`, `connects`, `number`, `born`, `ended`, `jarLog`, `recency`,
`bootstraps`) are read by properties only.

## 3. What the runs check

Deadlock checking is off in every cfg: each instance has finitely many calls,
requests or connections, and stops when they are done.

| Run | Instance | Shows |
| --- | --- | --- |
| `scheduler` | 2 calls in all lane assignments, capacity 1, weights 1, one call cancellable, close and a broken connection at any point | results are truthful, `done` never blocks the loop, the counters are exact; callers are released and the loop ends; refinement of `FrameDelivery` |
| `scheduler_bypass` | 5 calls, capacity 3, weights 2/1/1, steady service | the overtaking bound (it takes a full round, hence 5 frames) |
| `scheduler_lost_wakeup` | 2 calls, the code's capacity and weights | **violated**, finding 1 |
| `proxy` | 3 requests, limit 1: one streamed both ways with 2 upload and 3 response chunks, one buffered, one with a streamed response that is sent in one message; queue 2, 2 sessions | limiter and pending table; order and completeness of both bodies, with two exceptions, stated in the properties: the agent got the request twice, and upload chunks went down with a connection before the end marker was repeated on a newer one; the reader waits for no browser; handlers of browsers that left end |
| `proxy_overflow`, `proxy_cancel` | 1 streamed request | **violated**, findings 2 and 3 |
| `registry` | 1 agent, 2 connections, an HTTP heartbeat, a restart, a revocation | session table and rows; rows and availability converge; refinement of `SessionTable` |
| `dashboard` | 3 calls of `enroll`, 3 codes, 1 login, 1 refresh, 1 command over 2 connections and 3 agent profiles, restarts | one agent per code, durable credentials; accepted commands were sent, and sent twice only across a reconnection; ended logins stay ended |
| `ws_tunnel` | 1 tunnel, channel of 1, 2 sessions, frames both ways | table and counters exact; frames in order, with holes only where a full channel dropped one (to the browser) or where one went down with a replaced connection (to the agent); handler and goroutines end |
| `ws_heartbeat` | 1 tunnel, 1 session | **violated**, finding 4 |
| `web` | 2 handlers, 2 tabs, 2 targets, 2 instances, 5 paths, up to 3 Set-Cookies in any order with 9 kinds of Path (6 odd ones for the last of at most two), browsers with and without cookies of the same names, scripts of two pages in a cache of 3 bytes | one bootstrap per target, content of the own instance, exact cache in order of use, cookies as the jar's log says over those of the browser, scoped cookies for their own target only |
| `web_two_tabs` | the same without the scenario | **violated**, finding 5 |

Scenarios. Four `MC` modules restrict the next-state relation by a `Scenario`, so
that one run is a sum of cases and not their product. `MCProxyHTTP`: two requests on
one connection, or one upload whose agent reconnects, or one plain request whose
agent reconnects, with a browser that stays and one unread message per connection. `MCWsTunnel`: an agent that
keeps its connection and reads what it is sent, or one that sends no frames itself and
may reconnect, take binary frames, or lose text frames with its first connection. `MCDashboard`: enrolments or commands, beside logins, refreshes and
restarts, which they share. `MCWebProxy`: the routing of one request while an agent
comes and goes and the clock runs, or a page and another request at the same time,
or a page that is sent cookies (the last of them with any Path), or two requests at a time for scripts. A scenario
never forbids the only step of a goroutine that fairness is assumed of.

Why the bounds suffice. A lane of capacity one already has the refused, the
racing and the late push; two frames in one lane are needed to lose a wake-up;
the overtaking bound needs one round of other frames plus the waiting one. Two
handlers and a limit of one give every race of load and compare-and-swap; two
sessions give the retry, the request that arrives twice and the replaced connection
(without the exception for `twice`, `StreamIntegrity` is violated in this instance, and
without theirs `UploadIntegrity`, `FramesToAgent` and `ScopeFaithful` are in their
instances, so the exceptions are reached); a response longer than the
queue overflows it, and so does a second WebSocket message in a channel of one.
Tunnels share only the counters and the agent's connection, which no tunnel
keeps from another. Two connections give a replacement with a late cleanup; an
entry of `s.sessions`, a row and a revocation only ever concern one agent. Three
enrolments are two with the same code and one with the next. A cookie that is set
for everything, set for a path and deleted for that path takes three answers; the
cache of three bytes with entries of one, two and four has the entry that fits,
the one that evicts one or two others and the one that never fits. The proofs
cover the other values of the constants for the properties they are about.

Fairness. Goroutines that have started and can go on are scheduled by Go (weak
fairness of `StartedCall`, `LoopStep`, `Started`, `Reader`, `ConnStep`, and of `Handler`,
`ReaderGoroutine` and `HeartbeatGoroutine` of a tunnel); calls that have not been made
may never be made. The cases of the tunnel's select have strong fairness: Go
chooses uniformly among the ready ones, so one that is ready again and again is
taken some time. A write on a dead connection returns; a write on a live one
returns only under `FairSteadySpec`, which assumes an agent that reads. In `ProxyHTTP`
the request's context ends a write at the latest. A tunnel has no such context, so
in `WsTunnel` a write to a connection that is up need not return (`WriteWaits`), and
`GoneBrowsersEnd` and `AgentCloseEnds` are stated for tunnels none of whose writes waits
for ever (`AgentTakes`). A write to a browser that does not read need not return either.
After `close`, the cleanup of `agentConnect` goes on to `CloseNow`, hence the fairness
of `ConnDown` once the scheduler is closed. Connected agents keep sending heartbeats
(`SendReport`). No fairness is assumed of browsers, agents' answers, connects, link
failures, revocations or restarts.

## 4. Findings

1. **Lost wake-up** (`scheduler_lost_wakeup`). Two bulk frames pushed before the
   loop takes the wake token leave one token; the pass writes one bulk frame
   (weight 1), finds `stopCh` open and parks. The second frame, and its caller,
   wait until some other frame is enqueued or the caller's context ends.
   docs/protocol-v1.md:111 promises that bulk is not starved for ever.
2. **Overflow without abort** (`proxy_overflow`). `deliverChunk` drops a chunk and
   leaves an error; the relay loop chooses at random between the ready error and
   ready chunks, so later chunks and the final marker may be taken first and the
   response ends normally with a hole. With the queue of eight the loop has to
   pass over the error several times in a row, so it is rare, not impossible.
   docs/protocol-v1.md:99 says that such a stream is aborted.
3. **No cancel while sending** (`proxy_cancel`). A browser that leaves during
   `sendProxyRequest` makes `enqueue` return the context's error although the
   agent may have the request; the handler returns without `proxy_cancel`.
   docs/protocol-v1.md:105.
4. **Heartbeat failure not told** (`ws_heartbeat`). The heartbeat's error is taken by
   the select of the relay loop. A browser that does not read is the one whose
   pings fail, and also the one whose `browser.Write` the loop is waiting in: the
   write stays, or fails and ends the handler, and the agent gets no
   `proxy_ws_close`. docs/protocol-v1.md:103 says that it does.
5. **WebSockets of two tabs** (`web_two_tabs`). A root-relative WebSocket handshake
   has no id in its path and no Referer, so `sessionIDForRequest` falls back to the
   `dsh-target` cookie that all tabs share, and the socket of one tab is connected
   to the instance another tab has opened or used last. README.md:181 says that the
   target is selected by the context of the instance's session. `ContentFromOwnInstance`
   shows that requests with a path or a Referer are not affected.

Three properties state less than one might wish, because the code does less; no
document promises more, so they are not findings.

* `UploadIntegrity`. Chunks of an upload only ever go to the session that was looked up,
  but the end marker is retried on a newer one. A chunk that went down with the first
  connection after its write had returned nil, followed by an end marker whose write
  failed there, gives the agent a complete request with a hole. The property says that
  nothing else does.
* `FramesToAgent`. In the same way the frames of a tunnel may have a gap across a
  reconnection of the agent, and only there.
* `HeaderMatchesLog` and `ScopeFaithful`. `requestHeader` lays the jar's cookies over
  whatever the browser sends (proxy_cookie_jar.go:72-77), so a cookie that the jar no
  longer has, or that a script has set for all pages, does reach the instance; it never
  replaces what the jar holds. `scopeProxyCookiePath` and the jar agree about paths that
  start with a slash and are not yet scoped. A relative Path is "/" to the jar and below
  the prefix to the browser; an empty one is the request's directory to the jar and the
  whole prefix to the browser; and one at or below `/dsh/<id>` is left as it is for the
  browser (173-175), while the jar compares it with paths that the prefix is stripped of.
  In no case does another target get the cookie.

## 5. What is proved

All theorems hold for every value of the constants that meets the named
assumptions (positive capacities, weights and limits; finite `Requests` and `Tunnels`;
calls that name an agent; request paths that start with a slash; targets whose id is
not empty, as `randomHex` makes none). Each is an induction: `Init =>
Inv`, `Inv /\ [Next]_vars => Inv'`, `Inv => property`.

* `OutboundSchedulerProofs`. `TypeCorrect`. `FrameSafety` (`ResultTruthful`,
  `LanesSound`) and `DoneNeverBlocks` (`DoneSendNeverBlocks`): the properties are not
  inductive, because they do not say where a frame is; `FrameInv` adds that a frame
  in a lane is `queued`, occurs once and in its own lane, that the one in flight is
  `writing`, and that what is in `done` agrees with the frame's fate. `BypassBounded`:
  the bound alone does not survive a pop, so `BypassInv` counts with `Remaining(l)`
  the frames that may still be popped before lane `l` has its turn, and keeps
  `bypass[l] + Remaining(l)` below the other weights. `ImplementsDelivery`: with
  `FrameInv`, `WriteReturns` is `Deliver`, a returning call is `Answer`, and every
  other step stutters. `CountersBalance` (`StatsBalance`) from `StatsInv`: the loop
  writes one frame at a time, of the lane it has reached, and each step moves one
  frame from one of the counted sets to another. That only finitely many calls have
  been made is part of the invariant, so `Frames` itself may be infinite.
* `ProxyHTTPProofs`. `ProxyTypes`. `SlotsAccounted` and `PendingIsExact` from
  `SlotInv`, which adds that a handler past the lookup has a session and that a
  compare-and-swap is only tried with a value below the limit. A slot taken or
  released changes the cardinality of the set of holders by one (FiniteSetTheorems).
  `UploadsIntact` (`UploadIntegrity`) from `UploadInv`: as long as an upload has not
  failed the agent has as many chunks as the handler has read, or it has stopped
  reading from the handler's session (`deaf`, which only grows), over which it then
  cannot be given the end marker either. `StreamsIntact`
  (`StreamIntegrity`) from `StreamInv`: what the browser has, what is in the stream's
  queue and what is on the one connection that can carry the rest are consecutive
  pieces of one body, unless a chunk was dropped or the agent was given the request
  twice (`twice`); a session that ended does not come back. Between the first write
  and its repetition the response may already be on its way, so `WireOK` ties chunks
  to what the agent has (`have`) and not to where the handler is; and an agent that
  has nothing has sent nothing, which is why a second write that is the first to
  arrive does no harm.
* `WsTunnelProofs`. `TunnelTypes`, `NoTunnelLeaks` (`TunnelsExact`), `TunnelCounters`
  (`WsStatsBalance`), `AgentFramesInOrder` (`FramesToAgent`) and `BrowserFramesInOrder`
  (`FramesToBrowser`) from one invariant, `WsInv`. `UpOK` and `DownOK` place every frame of
  a tunnel: at its source, in a goroutine's hand, in a channel, with the receiver or
  dropped, in this order; and by `LossOK` a frame that went down with a connection
  was on one that is replaced or that the agent no longer reads, so that nothing
  overtakes it before the agent has connected again. For `stats["heartbeat"] <= stats["acked"]` the tunnels that still
  relay are added on the left: each was acknowledged and can count one heartbeat.
* `WebProxyProofs`, about `WebProxy` with its jar and its cache. `WebTypes`,
  `OneBootstrap` (`BootstrapOnce`) and `OwnContent` (`ContentFromOwnInstance`) from `WebInv`:
  what a handler knows of its target stays true, as targets are never removed and
  keep their instance; and at most one handler is on its way with the bootstrap of
  a target, whose flag is then cleared and nothing sent yet. `CacheAgrees`
  (`CacheSound`) from `CacheInv`, which adds that the list names each key once, that the
  entries are finite in number, and that an entry is of the instance its key names.
  `JarReplaysTheLog` (`HeaderMatchesLog`) and `ScopingIsFaithful` (`ScopeFaithful`) from `JarInv`:
  a jar holds exactly the cookies that the latest entries of the log store, and each
  entry was scoped below the prefix of its own target (`ScopeIs`, `RestOfPrefix`), which no
  request of another target can match (`ScopeIsolates`). The header is proved for every
  Cookie header of the browser. Two
  paths of one length that match one request are equal (`MatchesOnce`), so that
  `requestHeader` has no tie to break.
  The eviction loop is a fold and the byte counter a sum. The induction theorems of
  the library cannot be instantiated, but the well-foundedness of `<` can: it gives
  every set of numbers a least element (`LeastNumber`), and with a set in the place of
  the predicate that is induction. So `MakeRoomTurns` shows that the fold is the loop,
  turn by turn, and `SumIs` that the sum may be unfolded at any key.
* `AgentRegistryProofs`. `TypeCorrect`, `TableSafety` (`NoDeadSession`), `NewestStays`
  (`NewestKept`) and `RowsHaveAgents` (`NoOrphanRows`): their conjunction with
  `TypeOK` is inductive; what `NewestKept` says of the states, `SessionContract` says of
  the steps, so no run checks it beside the theorem. `SessionsFollowContract` (`SessionContract`): with these,
  `ContractInv` and `NumberInv` (connections of one agent have different numbers,
  between one and `connects`, from their registration on), every step of the registry is,
  for every agent, one of `SessionTable` or leaves its table alone. `Register` is `Connect`,
  a cleanup that finds its own entry is `Forget`, because its connection is closed first
  and its number is no other's; `RevokeSession` is `Revoke`, because the row is gone and
  agents do not come back. There is one lemma per kind of step (`RegisterConnects`,
  `LinkEnds`, `CleanupForgets`, `RevocationContract`, `RestartRestarts`).
* `EnrollmentProofs`. `TypeCorrect` and `PairingSafety` (`OneAgentPerCode`,
  `CredentialsDurable`): `AcceptedCodes` adds that accepted codes differ from each
  other and are older than the valid one, and that a call about to answer has
  its row.
* `AgentLinkProofs`. `LinkInv`, the invariant of commands: the session in the table is
  the last that connected, so the one that was looked up is never newer
  (`TableInv`); only frames that were handed to a session are sent (`FrameInv`); and
  where a call is tells which of its two writes exist, the second only after the
  first has failed and on a newer session (`CallInv`). `TwiceOnlyAcrossReconnect` is
  not inductive without these. `LinkImplementsDelivery`: every step of `AgentLink` is
  one of `FrameDelivery` or leaves the frames alone.
* `DashboardProofs`, about the composition. Every step of the process is a step of
  `Enrollment` or leaves it alone, so that `DashboardPairing` (`OneAgentPerCode`,
  `CredentialsDurable`) follows from the invariant of `Enrollment`. Every step except a
  restart is a step of `AgentLink` or leaves it alone, and a restart keeps `LinkInv`:
  `DashboardAccepts` (`AcceptedWasSent`) and `DashboardCommands`
  (`TwiceOnlyAcrossReconnect`). `EndedLoginsStayEnded`
  (`OnlyLiveLogins`) from `AuthInv`: an entry of `authSessions` belongs to an id that was
  not logged out and expires one lifetime after it was made.

Only model-checked: everything with fairness (`CallersReleased`, `CloseEndsRun`,
`QueuedFramesServed`, `GoneRequestsEnd`, `RowsConverge`, `AvailabilityConverges`,
`GoneBrowsersEnd`, `GoroutinesEnd`, `AgentCloseEnds`, `HeartbeatFailureTold`) and
`ReaderNeverBlocks`, which is about `ENABLED`: both are out of the prover's reach. Every
other invariant that a passing run checks is a theorem.

## 6. Not modelled

* `injectBrowserCompatibility`, `applyProxyCacheHeaders`, the rewriting of `Location` and
  of scripts: functions of text without state. Static pages, configuration parsing,
  version, start-up code, the empty certificates package.
* `snapshot` of the scheduler reads the counters one after the other; `StatsBalance` is
  about the counters themselves, not about a snapshot taken under traffic.
* The rows of an agent that crashed with the manager and never connects again: they stay
  live, `adminInstances` masks them when it reads, and `RowsConverge` is about agents that
  are connected. Revocation is in `AgentRegistry`, so `CredentialsDurable` is about
  enrolment only.
* Of storage: schema migration, the listing queries, names and metadata columns.
* `dashboardOrProxy` is registered for no route, so it is no action.
* `webTargets`, `authSessions` and the jars are never swept: expired entries stay until they
  are looked up. The model has this growth and no property about it, since neither
  code nor documents state a bound.
* The framing `net/http` chooses for a response that is aborted after its header.

## 7. What could be added

1. That `ProxyHTTP` and `WsTunnel` use the write to an agent as `FrameDelivery` allows, as
   `AgentLink` is shown to do; for the sessions they use `SessionTable` itself.
2. Action properties over the proved invariants: what a step may never undo (an
   answered call, a dropped tunnel, an expired target).
3. Liveness stays with TLC.
