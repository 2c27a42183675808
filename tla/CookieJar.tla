------------------------------ MODULE CookieJar ------------------------------
(***************************************************************************)
(* internal/api/proxy_cookie_jar.go: the cookies a dsh instance has set,   *)
(* kept per web target and replayed by path and expiry over the cookies    *)
(* that the browser sends, and the paths the browser is given for them.    *)
(*                                                                         *)
(* A path is the sequence of its parts between slashes: "/" is <<"">>,     *)
(* "/a" is <<"a">> and "/a/" is <<"a", "">>.  The Path of a Set-Cookie may *)
(* lack the first slash: "a" is <<Relative, "a">>, and the empty one is    *)
(* EmptyPath.                                                              *)
(* The clock starts at 2, and 0 is the zero time of a cookie that does not *)
(* expire.  Max-Age n is the expiry n from now; a negative one is an       *)
(* expiry in the past, like 1.                                             *)
(***************************************************************************)
EXTENDS Naturals, Sequences, FiniteSets, SequencesExt

CONSTANTS JarIds,         \* the web targets
          CookieNames,    \* the names of cookies
          RequestPaths,   \* the paths of requests
          BrowserHeaders  \* what the Cookie header of a browser can say: name -> value

Relative == "/"                       \* no part of a path
NoPath == <<>>                        \* a Set-Cookie without a Path
EmptyPath == <<Relative, "">>         \* one with Path= or Path

ASSUME PathAssumption ==
  RequestPaths \subseteq {path \in Seq(STRING) : path # <<>> /\ Head(path) # Relative}
ASSUME JarIdAssumption == "" \notin JarIds
ASSUME HeaderAssumption == \A browser \in BrowserHeaders : DOMAIN browser \subseteq CookieNames

\* isManagerCookieName
ManagerNames == {"dsh-session", "dsh-target"}
Root == <<"">>

VARIABLES
  jars,     \* per target: a set of cookies (name, path, value, until)
  jarLog,   \* history: each Set-Cookie that a target's instance has sent: its path in
            \* the jar, its path in the browser (scoped) and its time
  now       \* time.Now()

JarInit == /\ jars = [j \in JarIds |-> {}]
           /\ jarLog = <<>>
           /\ now = 2

-----------------------------------------------------------------------------
(* Paths *)

\* defaultProxyCookiePath: up to and with the last slash.
DefaultPath(request) == Front(request) \o <<"">>

\* proxyCookiePathMatches: equal, or a prefix that ends with or before a slash.
PathMatches(path, request) ==
  \/ request = path
  \/ Last(path) = "" /\ Len(request) >= Len(path) /\ IsPrefix(Front(path), request)
  \/ Last(path) # "" /\ Len(request) > Len(path) /\ IsPrefix(path, request)

\* The lengths of two paths that match one request compare like this.
PathLength(path) == 2 * Len(path) - (IF Last(path) = "" THEN 1 ELSE 0)

\* Mutant: a path below the prefix of any target is taken for a scoped one.
ScopeAnyPrefix(id, path) == IF Head(path) = "dsh" THEN path ELSE <<"dsh", id>> \o path

\* scopeProxyCookiePath: below the target's prefix, where a path may be already.
Scope(id, path) ==
  LET prefix == <<"dsh", id>>
      rooted == IF Head(path) = Relative THEN Tail(path) ELSE path
  IN IF IsPrefix(prefix, rooted) THEN rooted ELSE prefix \o rooted

-----------------------------------------------------------------------------
(* The jar *)

Live(cookie, time) == cookie.until = 0 \/ time < cookie.until

\* The path of a Set-Cookie in the jar, when it answers a request.
CookiePath(c, request) ==
  IF c.path \in {NoPath, EmptyPath} THEN DefaultPath(request)
  ELSE IF Head(c.path) = Relative THEN Root ELSE c.path

\* scopeProxySetCookie: its path in the browser, which gets no manager cookies.
ScopedPath(id, c, request) ==
  IF c.name \in ManagerNames THEN NoPath
  ELSE Scope(id, IF c.path = NoPath THEN DefaultPath(request) ELSE c.path)

\* Mutant: an expired Set-Cookie takes its cookie away whatever the path.
KeptByName(jar, c, path) == {k \in jar : k.name # c.name /\ path = path}

Kept(jar, c, path) == {k \in jar : k.name # c.name \/ k.path # path}

\* apply, for one Set-Cookie: manager cookies are skipped, an expiry in the past
\* deletes, everything else replaces.
Apply(jar, c, request, time) ==
  LET path == CookiePath(c, request)
  IN IF c.name \in ManagerNames THEN jar
     ELSE IF c.until # 0 /\ c.until < time THEN Kept(jar, c, path)
     ELSE Kept(jar, c, path) \cup {[name |-> c.name, path |-> path, value |-> c.value, until |-> c.until]}

\* The cookies of one name that are live and match.
Candidates(jar, name, request, time) ==
  {k \in jar : k.name = name /\ Live(k, time) /\ PathMatches(k.path, request)}

\* requestHeader: per name the cookie with the longest path, over what the
\* browser sent, without the manager's own cookies.
RequestHeader(jar, browser, request, time) ==
  LET fromJar == {n \in CookieNames : Candidates(jar, n, request, time) # {}}
      longest(n) == CHOOSE k \in Candidates(jar, n, request, time) :
                      \A l \in Candidates(jar, n, request, time) : PathLength(l.path) <= PathLength(k.path)
  IN [n \in (DOMAIN browser \cup fromJar) \ ManagerNames |->
        IF n \in fromJar THEN longest(n).value ELSE browser[n]]

\* The instance behind target j answers a request with Set-Cookie c, which goes
\* to the jar and, scoped, to the browser.
JarApply(j, c, request) ==
  /\ jars' = [jars EXCEPT ![j] = Apply(@, c, request, now)]
  /\ jarLog' = Append(jarLog, [jar |-> j, cookie |-> c, path |-> CookiePath(c, request),
                                 scoped |-> ScopedPath(j, c, request), at |-> now])

-----------------------------------------------------------------------------
(* Properties *)

\* What the log says of a cookie: the last Set-Cookie of target j for this name
\* and path, unless it deleted the cookie or has expired since.
Says(j, name, path, i) ==
  /\ jarLog[i].jar = j /\ jarLog[i].cookie.name = name /\ jarLog[i].path = path
  /\ \A l \in i + 1 .. Len(jarLog) :
       ~(jarLog[l].jar = j /\ jarLog[l].cookie.name = name /\ jarLog[l].path = path)
  /\ LET until == jarLog[i].cookie.until
     IN until = 0 \/ (jarLog[i].at <= until /\ now < until)

\* A request carries, for every name, the value that the log says for the longest
\* path that matches; where the log of its target says nothing, a cookie of that
\* name is the browser's own, with the browser's value, and never what another
\* target's instance has put into a jar.  The manager's cookies are not among
\* them.  Since no two matching paths are of one length, the order in which the
\* map is walked makes no difference.
HeaderMatchesLog ==
  \A j \in JarIds, name \in CookieNames, request \in RequestPaths :
    LET valid == {i \in 1 .. Len(jarLog) : /\ name \notin ManagerNames
                                           /\ Says(j, name, jarLog[i].path, i)
                                           /\ PathMatches(jarLog[i].path, request)}
        longest == {i \in valid : \A l \in valid : Len(jarLog[l].path) < Len(jarLog[i].path) \/ l = i
                                    \/ (Len(jarLog[l].path) = Len(jarLog[i].path) /\ Last(jarLog[l].path) = "")}
    IN /\ Cardinality(longest) = IF valid = {} THEN 0 ELSE 1
       /\ \A browser \in BrowserHeaders :
            LET header == RequestHeader(jars[j], browser, request, now)
                forwarded == IF name \in DOMAIN browser \ ManagerNames THEN {browser[name]} ELSE {}
            IN (IF name \in DOMAIN header THEN {header[name]} ELSE {})
                 = IF valid = {} THEN forwarded ELSE {jarLog[i].cookie.value : i \in longest}

\* The Path of entry e starts with a slash, or is that of the request, and is not
\* below the prefix of the target that set it.
Unscoped(e) == /\ e.cookie.path = NoPath \/ Head(e.cookie.path) # Relative
               /\ ~IsPrefix(<<"dsh", e.jar>>, e.path)

\* A scoped cookie is sent by the browser to no target but the one that set it,
\* whatever Path the instance wrote: relative, empty, or below the prefix of this
\* target or of another.  And the browser sends it exactly with the requests for
\* which the jar replays it, unless its Path is relative (the jar takes it for
\* "/"), empty (the jar takes the request's, the browser gets the prefix) or below
\* the prefix of its target (the browser's copy stays, the jar's is matched with
\* paths that the prefix is stripped of).
ScopeFaithful ==
  \A i \in 1 .. Len(jarLog), j \in JarIds, request \in RequestPaths :
    LET e == jarLog[i]
        sent == PathMatches(e.scoped, <<"dsh", j>> \o request)
    IN e.cookie.name \notin ManagerNames =>
         /\ sent => j = e.jar
         /\ Unscoped(e) => (sent <=> (j = e.jar /\ PathMatches(e.path, request)))
==============================================================================
