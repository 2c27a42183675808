------------------------------- MODULE WebProxy -------------------------------
(***************************************************************************)
(* internal/api/server.go and target_routing.go: the dsh pages that an     *)
(* operator opens.  openInstance makes a web target and names it in the    *)
(* dsh-target cookie; proxySession serves /dsh/<id>/..., and proxyOrNot    *)
(* serves root-relative requests, for the target that sessionIDForRequest  *)
(* finds in the path, the Referer or the cookie.  proxyHTTPForTarget then  *)
(* serves a script from the cache or asks the instance, with the cookies   *)
(* of the target's jar.  The transport itself is ProxyHTTP and WsTunnel.   *)
(*                                                                         *)
(* The path Root stands for a GET of "/" without a query; any other        *)
(* request of "/" is like one of another path.  A browser has one cookie   *)
(* and several tabs, each showing the page of one target.                  *)
(***************************************************************************)
EXTENDS CookieJar, RewrittenJSCache

CONSTANTS Handlers,     \* concurrent requests
          Tabs,         \* tabs of the browser
          Instances,    \* dsh instances
          Scripts,      \* the paths of immutable scripts, among RequestPaths
          Sizes,        \* what a rewritten script and its gzip can take
          SetCookies,   \* what an instance may set
          Hour,         \* how long a target and the cookie live
          MaxTime       \* bound: of the clock

ASSUME WebAssumption == /\ Scripts \subseteq RequestPaths /\ Root \in RequestPaths
                        /\ Hour \in Nat /\ MaxTime \in Nat \ {0, 1} /\ Sizes \subseteq Nat \ {0}
                        /\ SetCookies \subseteq
                             [name : STRING, path : Seq(STRING), value : STRING, until : Nat]

None == ""
Clear == "clear"                  \* clearTargetCookie
NoCookie == [name |-> None]       \* an answer without a Set-Cookie

VARIABLES
  targets,      \* s.webTargets: id -> instance, until (ExpiresAt), pending (BootstrapPending)
  live,         \* of each instance: its agent is offline, or what the agent reports
  h,            \* handlers: pc, req, sid, boot, header, setc (dsh-target); and, for the
                \* properties, asked (the tab's target) and got (whose content it answers with)
  shows,        \* browser: the target of each tab
  dshTarget,    \* browser: the dsh-target cookie (id, until)
  bootstraps    \* history: id -> offered (at open), sent (bootstrap:true)

webVars == <<targets, h, bootstraps>>
storeVars == <<jars, jarLog, cache, recency>>
browserVars == <<shows, dshTarget>>
vars == <<webVars, storeVars, browserVars, live, now>>

Ids == JarIds \cup {None}
Requests == [inPath : Ids, referer : Ids, cookie : Ids, path : RequestPaths, ws : BOOLEAN]
NoRequest == [inPath |-> None, referer |-> None, cookie |-> None, path |-> Root, ws |-> FALSE]
Idle == [pc |-> "idle", req |-> NoRequest, asked |-> None, sid |-> None, boot |-> FALSE,
         header |-> <<>>, setc |-> None, got |-> None]

TypeOK ==
  /\ DOMAIN targets \subseteq JarIds
  /\ \A t \in DOMAIN targets :
       targets[t] \in [instance : Instances, until : 0 .. MaxTime + Hour, pending : BOOLEAN]
  /\ live \in [Instances -> {"offline", "unready", "ready", "startup"}]
  /\ \A x \in Handlers :
       /\ h[x].pc \in {"idle", "route", "session", "relook", "proxy", "send", "wait", "done"}
       /\ h[x].req \in Requests
       /\ h[x].asked \in Ids /\ h[x].sid \in Ids
       /\ h[x].boot \in BOOLEAN
       /\ h[x].setc \in Ids \cup {Clear}
       /\ h[x].got \in Instances \cup {None}
  /\ \A t \in Tabs : shows[t] \in DOMAIN targets \cup {None}
  /\ dshTarget.id \in DOMAIN targets \cup {None}
  /\ DOMAIN bootstraps = DOMAIN targets
  /\ now \in 2 .. MaxTime

Init ==
  /\ JarInit
  /\ CacheInit
  /\ targets = <<>>
  /\ live \in [Instances -> {"ready", "startup"}]
  /\ h = [x \in Handlers |-> Idle]
  /\ shows = [t \in Tabs |-> None]
  /\ dshTarget = [id |-> None, until |-> 0]
  /\ bootstraps = <<>>

-----------------------------------------------------------------------------
(* Targets *)

\* openInstance, which needs a connected agent that reports the instance as
\* running with a URL.  The tab then shows /dsh/<id>/.
OpenInstance(tab, i, id) ==
  /\ id \notin DOMAIN targets
  /\ live[i] \in {"ready", "startup"}
  /\ LET offered == live[i] = "startup"        \* startupAvailable
     IN /\ targets' = [t \in DOMAIN targets \cup {id} |->
                         IF t = id THEN [instance |-> i, until |-> now + Hour, pending |-> offered]
                         ELSE targets[t]]
        /\ bootstraps' = [t \in DOMAIN targets \cup {id} |->
                            IF t = id THEN [offered |-> offered, sent |-> 0] ELSE bootstraps[t]]
  /\ shows' = [shows EXCEPT ![tab] = id]
  /\ dshTarget' = [id |-> id, until |-> now + Hour]
  /\ UNCHANGED <<h, storeVars, live, now>>

\* targetForSession finds it.
Found(id) == id \in DOMAIN targets /\ now <= targets[id].until

\* Mutant: the flag is cleared in the copy and not stored back.
AfterConsumeCopy(id) == IF targets[id].pending THEN targets ELSE targets

\* Mutant: the target is used up together with its token.
AfterConsumeDeletes(id) == [t \in DOMAIN targets \ {id} |-> targets[t]]

AfterConsume(id) == [targets EXCEPT ![id].pending = FALSE]

-----------------------------------------------------------------------------
(* Routing *)

\* A tab makes a request below its page, or a root-relative one, which carries
\* the page as its Referer unless it is a WebSocket handshake or the page's
\* policy withholds it.
BrowserRequests(x, tab, path, ws, below, withReferer) ==
  /\ h[x].pc = "idle"
  /\ shows[tab] # None
  /\ ws => ~withReferer
  /\ h' = [h EXCEPT ![x] = [Idle EXCEPT
             !.pc = "route",
             !.asked = shows[tab],
             !.req = [path |-> path, ws |-> ws,
                      inPath |-> IF below THEN shows[tab] ELSE None,
                      referer |-> IF withReferer THEN shows[tab] ELSE None,
                      cookie |-> IF now < dshTarget.until THEN dshTarget.id ELSE None]]]
  /\ UNCHANGED <<targets, bootstraps, storeVars, browserVars, live, now>>

\* sessionIDForRequest
SessionIDForRequest(r) ==
  IF r.inPath # None THEN r.inPath ELSE IF r.referer # None THEN r.referer ELSE r.cookie

\* The handler ends with this content and this Set-Cookie for dsh-target.
Ends(x, got, setc) == h' = [h EXCEPT ![x].pc = "done", ![x].got = got, ![x].setc = setc]

\* proxySession, or proxyOrNot with proxyHTTP and proxyWebSocket, up to
\* targetForSession: no session is a 404 and a bare "/" is the dashboard.
Route(x) ==
  /\ h[x].pc = "route"
  /\ LET r == h[x].req
         id == SessionIDForRequest(r)
     IN IF id = None \/ (r.inPath = None /\ r.path = Root /\ r.referer = None) THEN Ends(x, None, None)
        ELSE IF ~Found(id) THEN Ends(x, None, Clear)
        ELSE h' = [h EXCEPT ![x].sid = id,
                            ![x].pc = IF r.inPath # None THEN "session" ELSE "proxy",
                            ![x].setc = r.inPath]
  /\ UNCHANGED <<targets, bootstraps, storeVars, browserVars, live, now>>

\* consumeBootstrap, for the page itself, even when it is asked for with an Upgrade.
ConsumeBootstrap(x) ==
  /\ h[x].pc = "session"
  /\ LET id == h[x].sid
         consumes == h[x].req.path = Root /\ targets[id].pending
     IN /\ targets' = IF consumes THEN AfterConsume(id) ELSE targets
        /\ h' = [h EXCEPT ![x].pc = IF h[x].req.ws THEN "relook" ELSE "proxy", ![x].boot = consumes]
  /\ UNCHANGED <<bootstraps, storeVars, browserVars, live, now>>

\* proxyWebSocket looks the target of proxySession up again.
LookAgain(x) ==
  /\ h[x].pc = "relook"
  /\ IF Found(h[x].sid) THEN h' = [h EXCEPT ![x].pc = "proxy"] ELSE Ends(x, None, Clear)
  /\ UNCHANGED <<targets, bootstraps, storeVars, browserVars, live, now>>

-----------------------------------------------------------------------------
(* proxyHTTPForTarget, and proxyWebSocket without its relay *)

InstanceOf(x) == targets[h[x].sid].instance

\* Mutant: the instance is not part of the key.
CacheKeyByPath(x) == <<"", h[x].req.path>>

\* rewrittenJSCacheKey
CacheKey(x) == <<InstanceOf(x), h[x].req.path>>

IsScript(x) == h[x].req.path \in Scripts /\ ~h[x].req.ws

\* The agent's session and, for a script, the cache.
StartProxy(x) ==
  /\ h[x].pc = "proxy"
  /\ \/ /\ live[InstanceOf(x)] = "offline"
        /\ Ends(x, None, Clear)
        /\ UNCHANGED <<cache, recency>>
     \/ /\ live[InstanceOf(x)] # "offline"
        /\ IF IsScript(x) /\ InCache(cache, CacheKey(x))
           THEN /\ cache' = CacheServe(cache, CacheKey(x))
                /\ recency' = ToFront(recency, CacheKey(x))
                /\ Ends(x, cache.entries[CacheKey(x)].body, h[x].setc)
           ELSE h' = [h EXCEPT ![x].pc = "send"] /\ UNCHANGED <<cache, recency>>
  /\ UNCHANGED <<targets, bootstraps, jars, jarLog, browserVars, live, now>>

\* A missing capability, a body that cannot be read, the limit on active
\* requests, a failed send, an error, a timeout or a browser that has gone.
Refuse(x) ==
  /\ h[x].pc \in {"proxy", "send", "wait"}
  /\ h[x].pc = "proxy" => live[InstanceOf(x)] # "offline"
  /\ Ends(x, None, h[x].setc)
  /\ UNCHANGED <<targets, bootstraps, storeVars, browserVars, live, now>>

\* proxy_request or proxy_ws_open, with the jar's cookies over the browser's, which
\* are whatever pages, scripts and earlier answers have left there.
SendRequest(x) ==
  /\ h[x].pc = "send"
  /\ LET bootstrap == h[x].boot /\ ~h[x].req.ws
     IN bootstraps' = [bootstraps EXCEPT ![h[x].sid].sent = IF bootstrap THEN @ + 1 ELSE @]
  /\ \E browser \in BrowserHeaders :
       h' = [h EXCEPT ![x].pc = "wait",
                      ![x].header = RequestHeader(jars[h[x].sid], browser, h[x].req.path, now)]
  /\ UNCHANGED <<targets, storeVars, browserVars, live, now>>

\* The instance answers: its cookie goes to the jar; a script that was rewritten
\* and may be cached (size # 0) is added and served from the cache.
Answer(x, c, size) ==
  /\ h[x].pc = "wait"
  /\ h[x].req.ws => c = NoCookie
  /\ size # 0 => IsScript(x) /\ c = NoCookie
  /\ IF c = NoCookie THEN UNCHANGED <<jars, jarLog>> ELSE JarApply(h[x].sid, c, h[x].req.path)
  /\ IF size \in 1 .. MaxBytes
     THEN /\ cache' = CacheServe(CacheAdd(cache, CacheKey(x), InstanceOf(x), size), CacheKey(x))
          /\ recency' = ToFront(recency, CacheKey(x))
     ELSE UNCHANGED <<cache, recency>>
  /\ Ends(x, InstanceOf(x), h[x].setc)
  /\ UNCHANGED <<targets, bootstraps, browserVars, live, now>>

\* The answer arrives in the browser, which keeps the dsh-target cookie.
BrowserReceives(x) ==
  /\ h[x].pc = "done"
  /\ h' = [h EXCEPT ![x] = Idle]
  /\ dshTarget' = CASE h[x].setc = Clear -> [id |-> None, until |-> 0]
                    [] h[x].setc = None -> dshTarget
                    [] OTHER -> [id |-> h[x].setc, until |-> now + Hour]
  /\ UNCHANGED <<targets, bootstraps, storeVars, shows, live, now>>

-----------------------------------------------------------------------------
(* The agents and the clock *)

\* An agent connects, disconnects, or reports an instance in another state.
AgentReports(i, state) ==
  /\ live[i] # state
  /\ live' = [live EXCEPT ![i] = state]
  /\ UNCHANGED <<webVars, storeVars, browserVars, now>>

Tick ==
  /\ now < MaxTime
  /\ now' = now + 1
  /\ UNCHANGED <<webVars, storeVars, browserVars, live>>

HandlerStep(x) ==
  \/ Route(x) \/ ConsumeBootstrap(x) \/ LookAgain(x) \/ StartProxy(x) \/ Refuse(x) \/ SendRequest(x)
  \/ \E c \in SetCookies \cup {NoCookie}, size \in Sizes \cup {0} : Answer(x, c, size)

Next ==
  \/ \E tab \in Tabs, i \in Instances, id \in JarIds : OpenInstance(tab, i, id)
  \/ \E x \in Handlers :
       \/ \E tab \in Tabs, path \in RequestPaths, ws, below, withReferer \in BOOLEAN :
            BrowserRequests(x, tab, path, ws, below, withReferer)
       \/ HandlerStep(x)
       \/ BrowserReceives(x)
  \/ \E i \in Instances, state \in {"offline", "unready", "ready", "startup"} : AgentReports(i, state)
  \/ Tick

Spec == Init /\ [][Next]_vars

-----------------------------------------------------------------------------
(* Properties *)

\* A startup token is used at most once: however many requests of a page run at
\* the same time, and through WebSocket requests of it, at most one bootstrap:true
\* is sent for a target, and none for a target whose agent had offered none when
\* it was opened (README: "the first GET / without a query").
BootstrapOnce ==
  \A t \in DOMAIN targets :
    bootstraps[t].sent + (IF targets[t].pending THEN 1 ELSE 0) <= (IF bootstraps[t].offered THEN 1 ELSE 0)

\* A request that names its page, in the path or in the Referer, is answered with
\* what the instance of that page sent, whatever other tabs have put into the
\* shared cookie and although another instance may have put a script of the same
\* path into the cache that all targets share; any other request is answered by
\* the instance of the target it was routed to.
ContentFromOwnInstance ==
  \A x \in Handlers : h[x].got # None =>
    /\ h[x].got = InstanceOf(x)
    /\ (h[x].req.inPath # None \/ h[x].req.referer # None) => h[x].sid = h[x].asked

\* README: root-relative HTTP and WebSocket requests have their target selected
\* by the context of the instance's session.  So a WebSocket that a tab opens goes
\* to the target whose page the tab showed.
SocketsKeepTheirTargets ==
  \A x \in Handlers : (h[x].sid # None /\ h[x].req.ws) => h[x].sid = h[x].asked
===============================================================================
