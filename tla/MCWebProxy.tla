------------------------------ MODULE MCWebProxy ------------------------------
(* Instances of WebProxy for TLC. *)
EXTENDS WebProxy, TLC

CONSTANTS x1, x2

Below == <<"x">>
Deep == <<"x", "y">>
SmallScript == <<"assets", "a.js">>
ScriptPaths == {SmallScript, <<"assets", "b.js">>}
AllPaths == {Root, Below, Deep} \cup ScriptPaths

\* A cookie for everything, one that ends at 3 for the directory of the request,
\* one for a path, its deletion, and one with a name that the manager uses.
UsualCookies ==
  {[name |-> "a", path |-> Root, value |-> "v", until |-> 0],
   [name |-> "a", path |-> NoPath, value |-> "w", until |-> 3],
   [name |-> "a", path |-> Below, value |-> "x", until |-> 0],
   [name |-> "a", path |-> Below, value |-> "", until |-> 1],
   [name |-> "dsh-target", path |-> Root, value |-> "t2", until |-> 0]}

\* Paths that are below the prefix of a target, equal to it, relative or empty.
OddPaths == {<<"dsh", "t1", "x">>, <<"dsh", "t1">>, <<"dsh", "t2", "">>,
             <<Relative, "x">>, <<Relative, "dsh", "t2">>, EmptyPath}

InstanceCookies ==
  UsualCookies \cup {[name |-> "b", path |-> path, value |-> "y", until |-> 0] : path \in OddPaths}

\* A browser sends the manager's cookies, and has cookies of the instances' names or not.
SentByBrowsers == {[n \in {"dsh-target"} |-> "t1"], [n \in {"dsh-target", "a", "b"} |-> "old"]}

Active == {x \in Handlers : h[x].pc # "idle"}
Requested == {h[x].req : x \in Active}
NothingSent == \A x \in Handlers : DOMAIN h[x].header = {}

\* Ids, tabs and instances are interchangeable: t1 is opened first, in the first
\* tab, for i1.  A request that has the id in its path needs no Referer.
Order == /\ "t1" \in DOMAIN targets => targets["t1"].instance = "i1"
         /\ "t2" \in DOMAIN targets => "t1" \in DOMAIN targets
         /\ shows["tab2"] # "t1"
         /\ \A r \in Requested : r.inPath = None \/ r.referer = None

\* A behaviour is of one of two sorts, by what i2's agent reports all the time:
\* routing, while i1's agent comes and goes, or pages with cookies and scripts.
OfRouting == live["i2"] = "ready"
OfPages == live["i2"] = "startup" /\ live["i1"] = "ready"

\* The routing of one request, with the clock and the agent ...
Routing == /\ OfRouting /\ jarLog = <<>> /\ recency = <<>> /\ NothingSent
           /\ Cardinality(Active) <= 1
           /\ \A r \in Requested : r.path \in {Root, Below}
           /\ \A t \in DOMAIN targets : targets[t].until = 3
           /\ targets = <<>> \/ live["i1"] \in {"offline", "startup"}

\* ... or of a page and another request at the same time, with a cookie ...
Racing == /\ OfRouting /\ jarLog = <<>> /\ recency = <<>> /\ NothingSent
          /\ now = 2 /\ live["i1"] = "startup"
          /\ targets # <<>> => dshTarget.id # None
          /\ \A x \in Handlers : h[x].setc # Clear
          /\ \A r \in Requested : r.referer = None /\ r.path = IF r.inPath # None THEN Root ELSE Below

\* ... or one request at a time of a page with cookies, the last of which, when
\* they are at most two, may have an odd path, after another page, when there is one, has set one ...
Cookies == /\ OfPages /\ Cardinality(Active) <= 1 /\ recency = <<>>
           /\ Len(jarLog) <= 3 /\ now <= 3
           /\ \A i \in 1 .. Len(jarLog) : (jarLog[i].jar = "t2") <=> ("t2" \in DOMAIN targets /\ i = 1)
           /\ \A i \in 1 .. Len(jarLog) : jarLog[i].cookie.path \in OddPaths => i = Len(jarLog) /\ i <= 2
           /\ shows["tab1"] # "t2"
           /\ \A t \in DOMAIN targets : targets[t].until = 3
           /\ \A r \in Requested : r.inPath # None /\ r.path = Deep /\ ~r.ws

\* ... or two at a time for three scripts of two pages.
Caching == /\ OfPages /\ jarLog = <<>> /\ now = 2 /\ NothingSent
           /\ \A r \in Requested : /\ r.inPath # None /\ r.path \in ScriptPaths /\ ~r.ws
                                   /\ r.inPath = "t2" => r.path = SmallScript
           /\ shows["tab1"] # "t2"

Scenario == Order /\ (Routing \/ Racing \/ Cookies \/ Caching)

ScenarioSpec == Init /\ [][Next /\ Scenario' /\ live'["i2"] = live["i2"]]_vars

HandlerSymmetry == Permutations(Handlers)
===============================================================================
