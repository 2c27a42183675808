------------------------------ MODULE Dashboard ------------------------------
(***************************************************************************)
(* internal/api/server.go: what an operator does in the dashboard.  Login  *)
(* sessions (authLogin, authLogout, isAuthenticated) guard the commands of *)
(* AgentLink and the refresh of Enrollment's pairing code; enrollment runs *)
(* at the same time, and the process may be restarted at any point.        *)
(*                                                                         *)
(* A session id is random, so ids are numbered in the order authLogin      *)
(* makes them; a request carries one of them, none, or the admin token.    *)
(***************************************************************************)
EXTENDS Sequences, Enrollment, AgentLink

CONSTANTS Refreshes,   \* the calls of refreshPairing
          Lifetime,    \* 24 hours
          MaxLogins,   \* bound: how many times someone logs in
          MaxTime      \* bound: of the clock

ASSUME DashboardAssumption == Lifetime \in Nat /\ MaxLogins \in Nat /\ MaxTime \in Nat

NoCookie == 0
AdminToken == MaxLogins + 1      \* the bearer token of the configuration
Credentials == 0 .. AdminToken

VARIABLES
  now,          \* time.Now()
  born,         \* history: when authLogin made each session id
  authSessions, \* s.authSessions: id -> when it expires
  rpc,          \* where each call of refreshPairing is
  ended         \* history: the ids that were logged out or that a restart dropped

logins == Len(born)              \* how many ids there are
authVars == <<now, born, authSessions>>
dashboardVars == <<vars, linkVars, authVars, rpc, ended>>

DashboardInit ==
  /\ Init
  /\ LinkInit
  /\ now = 0
  /\ born = <<>>
  /\ authSessions = <<>>
  /\ rpc = [r \in Refreshes |-> "idle"]
  /\ ended = {}

-----------------------------------------------------------------------------
(* Login sessions *)

Without(k) == [j \in DOMAIN authSessions \ {k} |-> authSessions[j]]

\* authLogin with the right name and password; other attempts change nothing.
AuthLogin ==
  /\ logins < MaxLogins
  /\ born' = Append(born, now)
  /\ authSessions' = [j \in DOMAIN authSessions \cup {logins + 1} |->
                        IF j = logins + 1 THEN now + Lifetime ELSE authSessions[j]]
  /\ UNCHANGED <<vars, linkVars, now, rpc, ended>>

\* Mutant: logging out only clears the browser's cookie.
AfterLogoutKept(k) == IF k = NoCookie THEN authSessions ELSE authSessions

AfterLogout(k) == Without(k)

\* authLogout, with whatever id the cookie holds.
AuthLogout(k) ==
  /\ k \in 1 .. logins
  /\ authSessions' = AfterLogout(k)
  /\ ended' = ended \cup {k}
  /\ UNCHANGED <<vars, linkVars, now, born, rpc>>

Expired(k) == now > authSessions[k]

\* isAuthenticated: the verdict ...
IsAuthenticated(k) == k = AdminToken \/ (k \in DOMAIN authSessions /\ ~Expired(k))

\* ... and the entry it removes.
Sweep(k) ==
  authSessions' = IF k \in DOMAIN authSessions /\ Expired(k) THEN Without(k) ELSE authSessions

-----------------------------------------------------------------------------
(* Guarded calls *)

\* adminCommand with credential k.
Command(c, k) ==
  /\ Sweep(k)
  /\ BeginCommand(c, IsAuthenticated(k))
  /\ UNCHANGED <<vars, now, born, rpc, ended>>

\* refreshPairing with credential k: authorizeAdmin ...
BeginRefresh(r, k) ==
  /\ rpc[r] = "idle"
  /\ Sweep(k)
  /\ rpc' = [rpc EXCEPT ![r] = IF IsAuthenticated(k) THEN "refresh" ELSE "done"]
  /\ UNCHANGED <<vars, linkVars, now, born, ended>>

\* ... and the new code, under pairingMu.
Refresh(r) ==
  /\ rpc[r] = "refresh"
  /\ rpc' = [rpc EXCEPT ![r] = "done"]
  /\ RefreshPairing
  /\ UNCHANGED <<linkVars, authVars, ended>>

-----------------------------------------------------------------------------
(* The rest of the system *)

Tick == /\ now < MaxTime
        /\ now' = now + 1
        /\ UNCHANGED <<vars, linkVars, born, authSessions, rpc, ended>>

\* Enrollment, which needs no login.
EnrollStep(e) ==
  /\ \/ \E c \in 0 .. issued : Present(e, c)
     \/ CompareCode(e)
     \/ \E ok \in BOOLEAN : CreateAgent(e, ok)
     \/ Answer(e)
  /\ UNCHANGED <<linkVars, authVars, rpc, ended>>

\* Messages to the agent, and its connections.
AgentStep ==
  /\ \/ \E c \in Senders : SenderStep(c)
     \/ \E f \in Attempts : SendFrame(f)
     \/ ConnectionStep
  /\ UNCHANGED <<vars, authVars, rpc, ended>>

\* The process ends: calls are cut off, connections close, and what is not in
\* the database is forgotten.
ProcessRestart ==
  /\ Restart
  /\ current' = 0
  /\ up' = {}
  /\ stage' = [c \in Senders |-> IF stage[c] = "idle" THEN "idle" ELSE "done"]
  /\ reply' = [c \in Senders |->
                 IF stage[c] \in {"idle", "done"} THEN reply[c] ELSE "cut"]
  /\ authSessions' = <<>>
  /\ rpc' = [r \in Refreshes |-> IF rpc[r] = "idle" THEN "idle" ELSE "done"]
  /\ ended' = 1 .. logins
  /\ UNCHANGED <<connected, meta, chosen, over, onWire, result, now, born>>

DashboardNext ==
  \/ AuthLogin
  \/ \E k \in Credentials :
       \/ AuthLogout(k)
       \/ \E c \in Senders : Command(c, k)
       \/ \E r \in Refreshes : BeginRefresh(r, k)
  \/ \E r \in Refreshes : Refresh(r)
  \/ \E e \in Calls : EnrollStep(e)
  \/ AgentStep
  \/ Tick
  \/ ProcessRestart

DashboardSpec == DashboardInit /\ [][DashboardNext]_dashboardVars

-----------------------------------------------------------------------------
(* Properties *)

\* A step by which a guarded call gets past authorizeAdmin.
PassesWith(k) ==
  \/ \E c \in Senders : Command(c, k) /\ stage'[c] = "lookup"
  \/ \E r \in Refreshes : BeginRefresh(r, k) /\ rpc'[r] = "refresh"

\* A call gets past authorizeAdmin only with the admin token, or with an id
\* that this process has made, at most Lifetime ago, and that nobody has logged
\* out: an answered logout, a restart and the expiry are final.
OnlyLiveLogins ==
  [][\A k \in Credentials : PassesWith(k) =>
       \/ k = AdminToken
       \/ k \in 1 .. logins /\ k \notin ended /\ now - born[k] <= Lifetime]_dashboardVars
==============================================================================
