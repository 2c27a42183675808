---------------------------- MODULE AgentRegistry ----------------------------
(***************************************************************************)
(* internal/api/server.go and internal/storage/sqlite.go: which connection *)
(* stands for an agent, and what the database says of the agent's          *)
(* instances.  The actors are the goroutines of agentConnect (one per      *)
(* websocket connection), the HTTP heartbeat handlers, revokeAgent, the    *)
(* agents themselves and the manager process, which can be restarted.      *)
(*                                                                         *)
(* sessionsMu is held for single steps only, and each call of the database *)
(* (one connection, statements and transactions one after the other) is a  *)
(* step of its own, so everything else interleaves.  The instances of an   *)
(* agent are abstracted to the number of the report that lists them; the   *)
(* report 0 lists none.                                                    *)
(***************************************************************************)
EXTENDS Naturals, Sequences

CONSTANTS Agents,       \* the paired agents
          Conns,        \* the calls of agentConnect
          Beats,        \* the calls of agentHeartbeat
          AgentOf,      \* the agent each of these calls names
          NoConn,       \* not a connection: the nil of s.sessions
          MaxReport,    \* bound: how often an agent's instances change
          MaxRestarts   \* bound: how often the manager is restarted

ASSUME AgentOfAssumption == AgentOf \in [Conns \cup Beats -> Agents]
ASSUME NoConnAssumption == NoConn \notin Conns
ASSUME CallsAssumption == Conns \cap Beats = {}
ASSUME BoundAssumption == MaxReport \in Nat /\ MaxRestarts \in Nat

Reports == 0 .. MaxReport

VARIABLES
  agents,    \* database: the rows of table agents
  row,       \* database: the rows of table instances, per agent
  sessions,  \* s.sessions
  avail,     \* session.startupAvailable: the report it was made from
  pc,        \* where each call of agentConnect or agentHeartbeat is
  arg,       \* the report a call is working on
  previous,  \* the session a new connection has replaced
  link,      \* the connections that are open
  closing,   \* the connections a goroutine of revokeAgent is to close
  inbox,     \* register and heartbeat messages sent and not yet read
  report,    \* agent: its instances as they are now
  revoke,    \* where the call of revokeAgent for each agent is
  restarts,  \* how often the manager was restarted
  newest,    \* history: the last connection registered and not revoked
  connects,  \* history: how many connections each agent has registered
  number     \* history: the how many-th of its agent a connection is (0: not registered)

dbVars == <<agents, row>>
tableVars == <<sessions, newest>>
netVars == <<link, closing, inbox>>
envVars == <<report, revoke, restarts>>
countVars == <<connects, number>>
vars == <<dbVars, tableVars, avail, pc, arg, previous, netVars, envVars, countVars>>

TypeOK ==
  /\ agents \in SUBSET Agents
  /\ row \in [Agents -> [state : {"none", "live", "offline"}, val : Reports]]
  /\ sessions \in [Agents -> Conns \cup {NoConn}]
  /\ avail \in [Conns -> Reports]
  /\ pc \in [Conns \cup Beats -> {"idle", "authed", "replacing", "reading", "metadata",
                                  "upsert", "closing", "marking", "done"}]
  /\ arg \in [Conns \cup Beats -> Reports]
  /\ previous \in [Conns -> Conns \cup {NoConn}]
  /\ link \in SUBSET Conns
  /\ closing \in SUBSET Conns
  /\ inbox \in [Conns -> Seq(Reports)]
  /\ report \in [Agents -> Reports]
  /\ revoke \in [Agents -> {"idle", "deleted", "done"}]
  /\ restarts \in 0 .. MaxRestarts
  /\ newest \in [Agents -> Conns \cup {NoConn}]
  /\ connects \in [Agents -> Nat]
  /\ number \in [Conns -> Nat]

\* Every agent has been enrolled; nothing has connected yet.
Init ==
  /\ agents = Agents
  /\ row = [a \in Agents |-> [state |-> "none", val |-> 0]]
  /\ sessions = [a \in Agents |-> NoConn]
  /\ avail = [c \in Conns |-> 0]
  /\ pc = [c \in Conns \cup Beats |-> "idle"]
  /\ arg = [c \in Conns \cup Beats |-> 0]
  /\ previous = [c \in Conns |-> NoConn]
  /\ link = {}
  /\ closing = {}
  /\ inbox = [c \in Conns |-> <<>>]
  /\ report = [a \in Agents |-> 0]
  /\ revoke = [a \in Agents |-> "idle"]
  /\ restarts = 0
  /\ newest = [a \in Agents |-> NoConn]
  /\ connects = [a \in Agents |-> 0]
  /\ number = [c \in Conns |-> 0]

Goto(c, p) == pc' = [pc EXCEPT ![c] = p]

-----------------------------------------------------------------------------
(* The database *)

\* Mutant: no foreign key keeps instances of a deleted agent out.
RowAcceptedAlways(a) == a \in Agents

\* The foreign key from instances to agents.
RowAccepted(a) == a \in agents

\* Mutant: ON CONFLICT DO NOTHING.
ReportedInsertOnly(a, v) ==
  IF row[a].state = "none" THEN [state |-> "live", val |-> v] ELSE row[a]

\* What the DELETE and the INSERT ... ON CONFLICT DO UPDATE leave behind.
Reported(a, v) == [state |-> IF v = 0 THEN "none" ELSE "live", val |-> v]

\* UpsertHeartbeat: one transaction, rolled back when a row is refused.
UpsertHeartbeat(a, v) ==
  row' = IF v = 0 \/ RowAccepted(a) THEN [row EXCEPT ![a] = Reported(a, v)] ELSE row

\* Mutant: the values of state and error swapped.
MarkAgentOfflineSwapped(a) ==
  row' = [row EXCEPT ![a].state = IF @ = "none" THEN "none" ELSE "agent offline"]

\* MarkAgentOffline
MarkAgentOffline(a) ==
  row' = [row EXCEPT ![a].state = IF @ = "none" THEN "none" ELSE "offline"]

\* AuthenticateAgent
AuthenticateAgent(a) == a \in agents

-----------------------------------------------------------------------------
(* agentConnect *)

\* AuthenticateAgent answers; a refused call ends.
Connect(c) ==
  /\ pc[c] = "idle"
  /\ Goto(c, IF AuthenticateAgent(AgentOf[c]) THEN "authed" ELSE "done")
  /\ UNCHANGED <<dbVars, tableVars, avail, arg, previous, netVars, envVars, countVars>>

\* websocket.Accept, then the entry in s.sessions under sessionsMu.
Register(c) ==
  /\ pc[c] = "authed"
  /\ previous' = [previous EXCEPT ![c] = sessions[AgentOf[c]]]
  /\ sessions' = [sessions EXCEPT ![AgentOf[c]] = c]
  /\ newest' = [newest EXCEPT ![AgentOf[c]] = c]
  /\ connects' = [connects EXCEPT ![AgentOf[c]] = @ + 1]
  /\ number' = [number EXCEPT ![c] = connects[AgentOf[c]] + 1]
  /\ link' = link \cup {c}
  /\ Goto(c, "replacing")
  /\ UNCHANGED <<dbVars, avail, arg, closing, inbox, envVars>>

\* websocket.Accept fails.
AcceptFails(c) ==
  /\ pc[c] = "authed"
  /\ Goto(c, "done")
  /\ UNCHANGED <<dbVars, tableVars, avail, arg, previous, netVars, envVars, countVars>>

\* previous.conn.Close, outside the lock and before the first read.
ClosePrevious(c) ==
  /\ pc[c] = "replacing"
  /\ link' = link \ {previous[c]}
  /\ Goto(c, "reading")
  /\ UNCHANGED <<dbVars, tableVars, avail, arg, previous, closing, inbox, envVars, countVars>>

\* Mutant: the session that was there when the connection was accepted.
AvailabilityTargetStale(c) ==
  IF previous[c] # NoConn THEN previous[c] ELSE sessions[AgentOf[c]]

\* updateStartupAvailability is given the agent's id, not the session: what it
\* keeps in memory goes to the session that is registered now, if there is one.
AvailabilityTarget(c) == sessions[AgentOf[c]]

\* conn.Read returns a register or heartbeat message; handleAgentMessage first
\* does updateStartupAvailability.  The message may carry metadata or not.
ReadReport(c) ==
  /\ pc[c] = "reading"
  /\ inbox[c] # <<>>
  /\ inbox' = [inbox EXCEPT ![c] = Tail(@)]
  /\ avail' = [d \in Conns |-> IF d = AvailabilityTarget(c) THEN Head(inbox[c]) ELSE avail[d]]
  /\ arg' = [arg EXCEPT ![c] = Head(inbox[c])]
  /\ Goto(c, "metadata") \/ Goto(c, "upsert")
  /\ UNCHANGED <<dbVars, tableVars, previous, link, closing, envVars, countVars>>

\* updateSessionMetadata looks the session up again, and its error when there
\* is none drops the rest of the message.
UpdateSessionMetadata(c) ==
  /\ pc[c] = "metadata"
  /\ Goto(c, IF sessions[AgentOf[c]] = NoConn THEN "reading" ELSE "upsert")
  /\ UNCHANGED <<dbVars, tableVars, avail, arg, previous, netVars, envVars, countVars>>

\* The UpsertHeartbeat of handleAgentMessage (its error is only logged).
StoreReport(c) ==
  /\ pc[c] = "upsert"
  /\ UpsertHeartbeat(AgentOf[c], arg[c])
  /\ Goto(c, IF c \in Conns THEN "reading" ELSE "done")
  /\ UNCHANGED <<agents, tableVars, avail, arg, previous, netVars, envVars, countVars>>

\* conn.Read fails; scheduler.close and CloseNow.
ReadFails(c) ==
  /\ pc[c] = "reading"
  /\ c \notin link
  /\ Goto(c, "closing")
  /\ UNCHANGED <<dbVars, tableVars, avail, arg, previous, netVars, envVars, countVars>>

\* Mutant: a connection that has replaced another one does not count as current.
IsCurrentIfFirst(c) == sessions[AgentOf[c]] = c /\ previous[c] = NoConn

\* Mutant: the cleanup does not look whose entry it deletes.
IsCurrentUnchecked(c) == c \in Conns

IsCurrent(c) == sessions[AgentOf[c]] = c

\* The deferred cleanup, under sessionsMu: delete the entry if it is ours.
Cleanup(c) ==
  /\ pc[c] = "closing"
  /\ IF IsCurrent(c)
     THEN /\ sessions' = [sessions EXCEPT ![AgentOf[c]] = NoConn]
          /\ Goto(c, "marking")
     ELSE /\ Goto(c, "done")
          /\ UNCHANGED sessions
  /\ UNCHANGED <<dbVars, newest, avail, arg, previous, netVars, envVars, countVars>>

\* MarkAgentOffline, after the lock was released.
MarkOffline(c) ==
  /\ pc[c] = "marking"
  /\ MarkAgentOffline(AgentOf[c])
  /\ Goto(c, "done")
  /\ UNCHANGED <<agents, tableVars, avail, arg, previous, netVars, envVars, countVars>>

-----------------------------------------------------------------------------
(* agentHeartbeat and revokeAgent *)

\* agentHeartbeat authenticates its caller and decodes the report; its
\* UpsertHeartbeat is StoreReport.
BeatArrives(b) ==
  /\ pc[b] = "idle"
  /\ Goto(b, IF AuthenticateAgent(AgentOf[b]) THEN "upsert" ELSE "done")
  /\ arg' = [arg EXCEPT ![b] = report[AgentOf[b]]]
  /\ UNCHANGED <<dbVars, tableVars, avail, previous, netVars, envVars, countVars>>

\* DeleteAgentWithResult: both deletes in one transaction.
RevokeDelete(a) ==
  /\ revoke[a] = "idle"
  /\ agents' = agents \ {a}
  /\ row' = [row EXCEPT ![a] = [state |-> "none", val |-> 0]]
  /\ revoke' = [revoke EXCEPT ![a] = "deleted"]
  /\ UNCHANGED <<tableVars, avail, pc, arg, previous, netVars, report, restarts, countVars>>

\* delete(s.sessions, agentID) under sessionsMu; a goroutine is to close it.
RevokeSession(a) ==
  /\ revoke[a] = "deleted"
  /\ closing' = closing \cup ({sessions[a]} \ {NoConn})
  /\ sessions' = [sessions EXCEPT ![a] = NoConn]
  /\ newest' = [newest EXCEPT ![a] = NoConn]
  /\ revoke' = [revoke EXCEPT ![a] = "done"]
  /\ UNCHANGED <<dbVars, avail, pc, arg, previous, link, inbox, report, restarts, countVars>>

\* session.conn.Close in that goroutine.
RevokeClose(c) ==
  /\ c \in closing
  /\ closing' = closing \ {c}
  /\ link' = link \ {c}
  /\ UNCHANGED <<dbVars, tableVars, avail, pc, arg, previous, inbox, envVars, countVars>>

-----------------------------------------------------------------------------
(* The agents, the network and the manager process *)

\* A register or heartbeat message with the instances as they are now.
SendReport(c) ==
  /\ c \in link
  /\ inbox[c] = <<>>
  /\ inbox' = [inbox EXCEPT ![c] = <<report[AgentOf[c]]>>]
  /\ UNCHANGED <<dbVars, tableVars, avail, pc, arg, previous, link, closing, envVars, countVars>>

InstancesChange(a) ==
  /\ report[a] < MaxReport
  /\ report' = [report EXCEPT ![a] = @ + 1]
  /\ UNCHANGED <<dbVars, tableVars, avail, pc, arg, previous, netVars, revoke, restarts, countVars>>

LinkDown(c) ==
  /\ c \in link
  /\ link' = link \ {c}
  /\ UNCHANGED <<dbVars, tableVars, avail, pc, arg, previous, closing, inbox, envVars, countVars>>

\* The process dies at any point and a new one opens the same database: every
\* handler, session and connection is gone, nothing is marked offline.
Restart ==
  /\ restarts < MaxRestarts
  /\ restarts' = restarts + 1
  /\ sessions' = [a \in Agents |-> NoConn]
  /\ newest' = [a \in Agents |-> NoConn]
  /\ pc' = [c \in Conns \cup Beats |-> IF pc[c] = "idle" THEN "idle" ELSE "done"]
  /\ link' = {}
  /\ closing' = {}
  /\ inbox' = [c \in Conns |-> <<>>]
  /\ revoke' = [a \in Agents |-> IF revoke[a] = "idle" THEN "idle" ELSE "done"]
  /\ UNCHANGED <<dbVars, avail, arg, previous, report, countVars>>

ConnStep(c) == \/ Register(c) \/ AcceptFails(c) \/ ClosePrevious(c)
               \/ ReadReport(c) \/ UpdateSessionMetadata(c) \/ StoreReport(c)
               \/ ReadFails(c) \/ Cleanup(c) \/ MarkOffline(c)

Next == \/ \E c \in Conns : Connect(c) \/ ConnStep(c) \/ SendReport(c) \/ LinkDown(c)
                           \/ RevokeClose(c)
        \/ \E b \in Beats : BeatArrives(b) \/ StoreReport(b)
        \/ \E a \in Agents : RevokeDelete(a) \/ RevokeSession(a) \/ InstancesChange(a)
        \/ Restart

Spec == Init /\ [][Next]_vars

\* Handlers that have started are scheduled; a connected agent keeps sending
\* heartbeats.  Connecting, failing, revoking and restarting are not fair.
FairSpec == /\ Spec
            /\ \A c \in Conns : WF_vars(ConnStep(c)) /\ WF_vars(SendReport(c))
                               /\ WF_vars(RevokeClose(c))
            /\ \A b \in Beats : WF_vars(StoreReport(b))
            /\ \A a \in Agents : WF_vars(RevokeSession(a))

-----------------------------------------------------------------------------
(* Properties *)

\* The handlers that own their entry of s.sessions, if nobody replaced it.
Serving(c) == pc[c] \in {"replacing", "reading", "metadata", "upsert", "closing"}

\* s.sessions never names a connection whose handler has cleaned up: no
\* interleaving of replacement, revocation and cleanup leaves a dead entry that
\* shows the agent as online and swallows its requests.
NoDeadSession ==
  \A a \in Agents : sessions[a] # NoConn => Serving(sessions[a]) /\ AgentOf[sessions[a]] = a

\* The newest connection of an agent stays the one that is used until it ends
\* or is revoked: the late cleanup of one it has replaced does not remove it.
NewestKept ==
  \A c \in Conns : (newest[AgentOf[c]] = c /\ Serving(c)) => sessions[AgentOf[c]] = c

\* Instances never outlive their agent, whatever message, heartbeat or cleanup
\* was under way when the agent was revoked, and across restarts.
NoOrphanRows == \A a \in Agents : row[a].state # "none" => a \in agents

\* Once connections, changes and failures stop, the database tells what the
\* agent last reported for every paired agent that is connected: offline marks
\* by the late cleanup of an older connection, and reports stored out of order,
\* are put right by the heartbeats.
Connected(a) == sessions[a] # NoConn /\ sessions[a] \in link

RowsConverge ==
  <>[](\A a \in agents : Connected(a) =>
         row[a] = [state |-> IF report[a] = 0 THEN "none" ELSE "live", val |-> report[a]])

\* So does the bootstrap availability that is kept in memory with the session,
\* although the reader of an older connection may write to it as well.
AvailabilityConverges ==
  <>[](\A a \in agents : Connected(a) => avail[sessions[a]] = report[a])

\* The entry of one agent and its connections, as SessionTable sees them.
Table(a) == INSTANCE SessionTable WITH
  Calls <- Conns,
  current <- IF sessions[a] = NoConn THEN 0 ELSE number[sessions[a]],
  connected <- connects[a],
  up <- {number[c] : c \in {d \in link : AgentOf[d] = a}},
  admitted <- {c \in Conns : AgentOf[c] = a /\ pc[c] = "authed"},
  deleted <- a \notin agents

\* What the handlers that look sessions up rely on: whatever goroutines connect,
\* replace, clean up and revoke, an agent's entry is only ever replaced by a newer
\* session, and taken out only after its own connection has ended, after the agent
\* was deleted, or with the process; and a deleted agent gets no session beyond
\* the connections that had been authenticated before.
SessionContract ==
  /\ \A a \in Agents : Table(a)!Init
  /\ [][\A a \in Agents : [Table(a)!Next]_(Table(a)!vars)]_vars
==============================================================================
