------------------------- MODULE AgentRegistryProofs -------------------------
(* Proofs about AgentRegistry, for any number of agents, connections, HTTP
   heartbeats, reports and restarts. *)
EXTENDS AgentRegistry, TLAPS

\* The inductive invariant: the three safety properties and the types.
RegistryInv == TypeOK /\ NoDeadSession /\ NewestKept /\ NoOrphanRows

\* A step that leaves s.sessions alone and starts or ends no service keeps the
\* two properties of the table.
LEMMA TableKept ==
  ASSUME NoDeadSession, NewestKept, TypeOK, UNCHANGED tableVars,
         \A c \in Conns : Serving(c)' <=> Serving(c)
  PROVE NoDeadSession' /\ NewestKept'
<1>1. UNCHANGED <<sessions, newest>>
  BY DEF tableVars
<1>2. NoDeadSession'
  BY <1>1 DEF NoDeadSession, TypeOK
<1>3. NewestKept'
  BY <1>1 DEF NewestKept, TypeOK
<1> QED
  BY <1>2, <1>3

\* A step that leaves the database alone keeps the property of its rows.
LEMMA RowsKept == ASSUME NoOrphanRows, UNCHANGED dbVars PROVE NoOrphanRows'
  BY DEF NoOrphanRows, dbVars

\* A handler moves between two places where it serves, or between two where it
\* does not, and does nothing to the table or the database.
LEMMA HandlerMoves ==
  ASSUME RegistryInv, NEW c \in Conns \cup Beats, NEW p,
         pc' = [pc EXCEPT ![c] = p], UNCHANGED <<tableVars, dbVars>>,
         (c \in Conns) =>
           (p \in {"replacing", "reading", "metadata", "upsert", "closing"} <=> Serving(c))
  PROVE NoDeadSession' /\ NewestKept' /\ NoOrphanRows'
<1>1. \A d \in Conns : Serving(d)' <=> Serving(d)
  BY DEF RegistryInv, TypeOK, Serving
<1> QED
  BY <1>1, TableKept, RowsKept DEF RegistryInv

\* Connecting and reading.
LEMMA ConnStepKeeps ==
  ASSUME RegistryInv, NEW c \in Conns, Connect(c) \/ AcceptFails(c) \/ ClosePrevious(c) \/
         ReadReport(c) \/ UpdateSessionMetadata(c) \/ ReadFails(c)
  PROVE RegistryInv'
<1> USE DEF RegistryInv, Goto
<1>1. TypeOK'
  <2>1. CASE ReadReport(c)
    <3>1. Head(inbox[c]) \in Reports /\ Tail(inbox[c]) \in Seq(Reports)
      BY <2>1 DEF ReadReport, TypeOK
    <3> QED
      BY <2>1, <3>1 DEF ReadReport, TypeOK, dbVars, tableVars, netVars, envVars, countVars
  <2>2. CASE Connect(c) \/ AcceptFails(c) \/ ClosePrevious(c) \/ UpdateSessionMetadata(c)
             \/ ReadFails(c)
    BY <2>2 DEF Connect, AcceptFails, ClosePrevious, UpdateSessionMetadata, ReadFails,
                TypeOK, dbVars, tableVars, netVars, envVars, countVars
  <2> QED
    BY <2>1, <2>2
<1>2. /\ UNCHANGED <<tableVars, dbVars>>
      /\ \E p : /\ pc' = [pc EXCEPT ![c] = p]
                /\ p \in {"replacing", "reading", "metadata", "upsert", "closing"} <=> Serving(c)
  <2>1. CASE Connect(c) \/ AcceptFails(c)
    BY <2>1 DEF Connect, AcceptFails, Serving, tableVars, dbVars
  <2>2. CASE ClosePrevious(c) \/ ReadReport(c) \/ UpdateSessionMetadata(c) \/ ReadFails(c)
    BY <2>2 DEF ClosePrevious, ReadReport, UpdateSessionMetadata, ReadFails, Serving,
                tableVars, dbVars
  <2> QED
    BY <2>1, <2>2
<1> QED
  BY <1>1, <1>2, HandlerMoves

\* The new connection takes the entry, whoever had it.
LEMMA RegisterKeeps == ASSUME RegistryInv, NEW c \in Conns, Register(c) PROVE RegistryInv'
<1> USE DEF RegistryInv, Register, Goto
<1>0. AgentOf[c] \in Agents
  BY AgentOfAssumption
<1>1. TypeOK'
  BY <1>0 DEF TypeOK, dbVars, envVars, countVars
<1>2. /\ sessions' = [sessions EXCEPT ![AgentOf[c]] = c]
      /\ newest' = [newest EXCEPT ![AgentOf[c]] = c]
      /\ \A d \in Conns : Serving(d)' <=> (Serving(d) \/ d = c)
  BY DEF TypeOK, Serving
<1>3. NoDeadSession'
  BY <1>0, <1>2 DEF NoDeadSession, TypeOK
<1>4. NewestKept'
  <2> SUFFICES ASSUME NEW d \in Conns, newest'[AgentOf[d]] = d, Serving(d)'
               PROVE sessions'[AgentOf[d]] = d
    BY DEF NewestKept
  <2>1. CASE d = c
    BY <2>1, <1>0, <1>2 DEF TypeOK
  <2>2. CASE d # c
    BY <2>2, <1>0, <1>2, AgentOfAssumption DEF TypeOK, NewestKept
  <2> QED
    BY <2>1, <2>2
<1>5. NoOrphanRows'
  BY RowsKept
<1> QED
  BY <1>1, <1>3, <1>4, <1>5

\* The cleanup deletes the entry only when it is its own.
LEMMA CleanupKeeps == ASSUME RegistryInv, NEW c \in Conns, Cleanup(c) PROVE RegistryInv'
<1> USE DEF RegistryInv, Cleanup, IsCurrent, Goto
<1>0. AgentOf[c] \in Agents
  BY AgentOfAssumption
<1>1. TypeOK'
  BY <1>0 DEF TypeOK, dbVars, netVars, envVars, countVars
<1>2. /\ newest' = newest
      /\ \A d \in Conns : Serving(d)' => Serving(d) /\ d # c
      /\ \A d \in Conns : d # c /\ Serving(d) => Serving(d)'
      /\ Serving(c)
  BY DEF TypeOK, Serving
<1>3. CASE sessions[AgentOf[c]] = c
  <2>1. sessions' = [sessions EXCEPT ![AgentOf[c]] = NoConn]
    BY <1>3
  <2>2. NoDeadSession'
    BY <1>0, <1>2, <2>1, <1>3, NoConnAssumption DEF NoDeadSession, TypeOK
  <2>3. NewestKept'
    BY <1>0, <1>2, <2>1, <1>3, AgentOfAssumption DEF NewestKept, TypeOK
  <2> QED
    BY <1>1, <2>2, <2>3, RowsKept
<1>4. CASE sessions[AgentOf[c]] # c
  <2>1. sessions' = sessions
    BY <1>4
  <2>2. NoDeadSession'
    BY <1>0, <1>2, <2>1, <1>4 DEF NoDeadSession, TypeOK
  <2>3. NewestKept'
    BY <1>2, <2>1 DEF NewestKept
  <2> QED
    BY <1>1, <2>2, <2>3, RowsKept
<1> QED
  BY <1>3, <1>4

\* UpsertHeartbeat: the foreign key lets no row of a deleted agent in.
LEMMA StoreKeeps ==
  ASSUME RegistryInv, NEW c \in Conns \cup Beats, StoreReport(c) PROVE RegistryInv'
<1> USE DEF RegistryInv, StoreReport, UpsertHeartbeat, RowAccepted, Reported, Goto
<1>0. AgentOf[c] \in Agents /\ arg[c] \in Reports
  BY AgentOfAssumption DEF TypeOK
<1>1. TypeOK'
  BY <1>0 DEF TypeOK, tableVars, netVars, envVars, countVars
<1>2. \A d \in Conns : Serving(d)' <=> Serving(d)
  BY CallsAssumption DEF TypeOK, Serving
<1>3. NoDeadSession' /\ NewestKept'
  BY <1>2, TableKept
<1>4. NoOrphanRows'
  <2>1. CASE arg[c] = 0 \/ AgentOf[c] \in agents
    BY <2>1, <1>0 DEF NoOrphanRows, TypeOK
  <2>2. CASE ~(arg[c] = 0 \/ AgentOf[c] \in agents)
    BY <2>2 DEF NoOrphanRows
  <2> QED
    BY <2>1, <2>2
<1> QED
  BY <1>1, <1>3, <1>4

\* MarkAgentOffline makes no row.
LEMMA MarkKeeps == ASSUME RegistryInv, NEW c \in Conns, MarkOffline(c) PROVE RegistryInv'
<1> USE DEF RegistryInv, MarkOffline, MarkAgentOffline, Goto
<1>0. AgentOf[c] \in Agents
  BY AgentOfAssumption
<1>1. TypeOK'
  BY <1>0 DEF TypeOK, tableVars, netVars, envVars, countVars
<1>2. \A d \in Conns : Serving(d)' <=> Serving(d)
  BY DEF TypeOK, Serving
<1>3. NoDeadSession' /\ NewestKept'
  BY <1>2, TableKept
<1>4. NoOrphanRows'
  BY <1>0 DEF NoOrphanRows, TypeOK
<1> QED
  BY <1>1, <1>3, <1>4

\* The HTTP heartbeat and the revocation.
LEMMA BeatKeeps == ASSUME RegistryInv, NEW b \in Beats, BeatArrives(b) PROVE RegistryInv'
<1> USE DEF RegistryInv, BeatArrives, Goto
<1>1. TypeOK'
  BY AgentOfAssumption DEF TypeOK, dbVars, tableVars, netVars, envVars, countVars
<1>2. \A d \in Conns : Serving(d)' <=> Serving(d)
  BY CallsAssumption DEF TypeOK, Serving
<1> QED
  BY <1>1, <1>2, TableKept, RowsKept

LEMMA RevokeDeleteKeeps ==
  ASSUME RegistryInv, NEW a \in Agents, RevokeDelete(a) PROVE RegistryInv'
<1> USE DEF RegistryInv, RevokeDelete
<1>1. TypeOK'
  BY BoundAssumption DEF TypeOK, tableVars, netVars, countVars, Reports
<1>2. NoDeadSession' /\ NewestKept'
  BY TableKept DEF Serving
<1>3. NoOrphanRows'
  BY DEF NoOrphanRows, TypeOK
<1> QED
  BY <1>1, <1>2, <1>3

LEMMA RevokeSessionKeeps ==
  ASSUME RegistryInv, NEW a \in Agents, RevokeSession(a) PROVE RegistryInv'
<1> USE DEF RegistryInv, RevokeSession
<1>1. TypeOK'
  BY DEF TypeOK, dbVars, countVars
<1>2. /\ \A d \in Conns : Serving(d)' <=> Serving(d)
      /\ sessions' = [sessions EXCEPT ![a] = NoConn]
      /\ newest' = [newest EXCEPT ![a] = NoConn]
  BY DEF Serving
<1>3. NoDeadSession'
  BY <1>2 DEF NoDeadSession, TypeOK
<1>4. NewestKept'
  BY <1>2, AgentOfAssumption, NoConnAssumption DEF NewestKept, TypeOK
<1> QED
  BY <1>1, <1>3, <1>4, RowsKept

\* A restart leaves the rows to the next process and no entry in the table.
LEMMA RestartKeeps == ASSUME RegistryInv, Restart PROVE RegistryInv'
<1> USE DEF RegistryInv, Restart
<1>1. TypeOK'
  BY BoundAssumption DEF TypeOK, dbVars, countVars
<1>2. NoDeadSession'
  BY DEF NoDeadSession
<1>3. NewestKept'
  BY AgentOfAssumption, NoConnAssumption DEF NewestKept
<1> QED
  BY <1>1, <1>2, <1>3, RowsKept

\* The agents and the network touch neither the table nor the database.
LEMMA OutsideKeeps ==
  ASSUME RegistryInv,
         \/ \E c \in Conns : SendReport(c) \/ LinkDown(c) \/ RevokeClose(c)
         \/ \E a \in Agents : InstancesChange(a)
         \/ UNCHANGED vars
  PROVE RegistryInv'
<1> USE DEF RegistryInv
<1>1. UNCHANGED <<tableVars, dbVars, pc>>
  BY DEF SendReport, LinkDown, RevokeClose, InstancesChange, vars
<1>2. NoDeadSession' /\ NewestKept' /\ NoOrphanRows'
  BY <1>1, TableKept, RowsKept DEF Serving
<1>3. TypeOK'
  <2>1. ASSUME NEW c \in Conns, SendReport(c) PROVE TypeOK'
    <3>1. report[AgentOf[c]] \in Reports
      BY AgentOfAssumption DEF TypeOK
    <3>2. <<report[AgentOf[c]]>> \in Seq(Reports)
      BY <3>1
    <3> QED
      BY <2>1, <3>2 DEF SendReport, TypeOK, dbVars, tableVars, envVars, countVars
  <2>2. ASSUME NEW c \in Conns, LinkDown(c) \/ RevokeClose(c) PROVE TypeOK'
    BY <2>2 DEF LinkDown, RevokeClose, TypeOK, dbVars, tableVars, envVars, countVars
  <2>3. ASSUME NEW a \in Agents, InstancesChange(a) PROVE TypeOK'
    BY <2>3, BoundAssumption DEF InstancesChange, TypeOK, dbVars, tableVars, netVars, countVars, Reports
  <2>4. CASE UNCHANGED vars
    BY <2>4 DEF TypeOK, vars, dbVars, tableVars, netVars, envVars, countVars
  <2> QED
    BY <2>1, <2>2, <2>3, <2>4
<1> QED
  BY <1>2, <1>3

\* The initial states, and every step.
LEMMA RegistryInit == Init => RegistryInv
<1> SUFFICES ASSUME Init PROVE RegistryInv
  OBVIOUS
<1>1. TypeOK
  BY BoundAssumption DEF Init, TypeOK, Reports
<1>2. NoDeadSession /\ NoOrphanRows
  BY DEF Init, NoDeadSession, NoOrphanRows
<1>3. NewestKept
  BY AgentOfAssumption, NoConnAssumption DEF Init, NewestKept
<1> QED
  BY <1>1, <1>2, <1>3 DEF RegistryInv

LEMMA RegistryStep == RegistryInv /\ [Next]_vars => RegistryInv'
<1> SUFFICES ASSUME RegistryInv, [Next]_vars PROVE RegistryInv'
  OBVIOUS
<1>1. ASSUME NEW c \in Conns, Connect(c) \/ ConnStep(c) PROVE RegistryInv'
  BY <1>1, ConnStepKeeps, RegisterKeeps, CleanupKeeps, StoreKeeps, MarkKeeps DEF ConnStep
<1>2. ASSUME NEW b \in Beats, BeatArrives(b) \/ StoreReport(b) PROVE RegistryInv'
  BY <1>2, BeatKeeps, StoreKeeps
<1>3. ASSUME NEW a \in Agents, RevokeDelete(a) \/ RevokeSession(a) PROVE RegistryInv'
  BY <1>3, RevokeDeleteKeeps, RevokeSessionKeeps
<1> QED
  BY <1>1, <1>2, <1>3, RestartKeeps, OutsideKeeps DEF Next

\* The variables keep their types.
THEOREM TypeCorrect == Spec => []TypeOK
<1>1. RegistryInv => TypeOK
  BY DEF RegistryInv
<1> QED
  BY <1>1, RegistryInit, RegistryStep, PTL DEF Spec

\* The session table is right however connections, replacements, revocations,
\* cleanups and restarts interleave: it names no connection whose handler has
\* cleaned up ...
THEOREM TableSafety == Spec => []NoDeadSession
<1>1. RegistryInv => NoDeadSession
  BY DEF RegistryInv
<1> QED
  BY <1>1, RegistryInit, RegistryStep, PTL DEF Spec

\* ... and never loses the newest connection to the cleanup of another.
THEOREM NewestStays == Spec => []NewestKept
<1>1. RegistryInv => NewestKept
  BY DEF RegistryInv
<1> QED
  BY <1>1, RegistryInit, RegistryStep, PTL DEF Spec

\* No instance row survives its agent, whatever was in flight when the agent
\* was revoked.
THEOREM RowsHaveAgents == Spec => []NoOrphanRows
<1>1. RegistryInv => NoOrphanRows
  BY DEF RegistryInv
<1> QED
  BY <1>1, RegistryInit, RegistryStep, PTL DEF Spec

-----------------------------------------------------------------------------
(* The session table implements SessionTable *)

\* The numbers tell the connections of an agent apart, only what serves is
\* connected, and what serves has a number.  A revocation deletes first.
NumberInv ==
  /\ \A c \in Conns : number[c] <= connects[AgentOf[c]]
  /\ \A c, d \in Conns : (AgentOf[c] = AgentOf[d] /\ number[c] = number[d] /\ number[c] # 0) => c = d
  /\ \A c \in Conns : Serving(c) => number[c] # 0
  /\ \A c \in link : Serving(c) /\ pc[c] # "closing"
  /\ \A a \in Agents : revoke[a] # "idle" => a \notin agents

ContractInv == RegistryInv /\ NumberInv

\* A step that registers nothing and opens no connection keeps the numbers, when
\* a handler stops serving only after its connection has ended.
LEMMA NumbersKept ==
  ASSUME ContractInv, UNCHANGED countVars, link' \subseteq link,
         \A a \in Agents : revoke'[a] # "idle" => a \notin agents',
         \A c \in Conns : Serving(c)' => Serving(c),
         \A c \in link' : Serving(c)' /\ pc'[c] # "closing"
  PROVE  NumberInv'
BY DEF ContractInv, NumberInv, countVars

\* A handler that does not end moves on; one that ends has lost its connection.
LEMMA HandlerNumbers ==
  ASSUME ContractInv, NEW c \in Conns \cup Beats, NEW p,
         pc' = [pc EXCEPT ![c] = p], UNCHANGED <<countVars, agents, revoke>>, link' \subseteq link,
         (c \in Conns /\ p \in {"replacing", "reading", "metadata", "upsert", "closing"}) => Serving(c),
         c \in link' => p \in {"replacing", "reading", "metadata", "upsert"}
  PROVE  NumberInv'
<1>1. \A d \in Conns : Serving(d)' => Serving(d)
  BY DEF ContractInv, RegistryInv, TypeOK, Serving
<1>2. \A d \in link' : Serving(d)' /\ pc'[d] # "closing"
  BY DEF ContractInv, RegistryInv, TypeOK, NumberInv, Serving
<1>3. \A a \in Agents : revoke'[a] # "idle" => a \notin agents'
  BY DEF ContractInv, NumberInv
<1> QED
  BY <1>1, <1>2, <1>3, NumbersKept

\* A connection gets the next number of its agent.
LEMMA RegisterNumbers ==
  ASSUME ContractInv, NEW c \in Conns, Register(c) PROVE NumberInv'
<1> USE DEF Register, Goto
<1>0. /\ AgentOf \in [Conns \cup Beats -> Agents] /\ AgentOf[c] \in Agents
      /\ connects \in [Agents -> Nat] /\ number \in [Conns -> Nat] /\ pc[c] = "authed"
      /\ pc = [x \in Conns \cup Beats |-> pc[x]] /\ link \subseteq Conns
  BY AgentOfAssumption DEF ContractInv, RegistryInv, TypeOK
<1>1. /\ \A d \in Conns : d # c => number'[d] = number[d] /\ (Serving(d)' <=> Serving(d)) /\ pc'[d] = pc[d]
      /\ Serving(c)' /\ pc'[c] = "replacing"
      /\ number'[c] = connects[AgentOf[c]] + 1
      /\ connects'[AgentOf[c]] = connects[AgentOf[c]] + 1
      /\ \A a \in Agents : a # AgentOf[c] => connects'[a] = connects[a]
      /\ link' = link \cup {c}
  BY <1>0 DEF Serving
<1>2. \A d \in Conns : d # c /\ AgentOf[d] = AgentOf[c] => number'[d] # number'[c]
  <2>1. \A d \in Conns : number[d] \in Nat /\ number[d] <= connects[AgentOf[d]]
    BY <1>0 DEF ContractInv, NumberInv
  <2>2. connects[AgentOf[c]] \in Nat
    BY <1>0
  <2> QED
    BY <1>1, <2>1, <2>2
<1>3. \A d \in Conns : number'[d] <= connects'[AgentOf[d]]
  <2>1. \A d \in Conns : AgentOf[d] \in Agents /\ number[d] \in Nat /\ number[d] <= connects[AgentOf[d]]
    BY <1>0 DEF ContractInv, NumberInv
  <2> QED
    BY <1>0, <1>1, <2>1
<1>4. number'[c] # 0
  BY <1>0, <1>1
<1>5. UNCHANGED <<agents, revoke>>
  BY DEF dbVars, envVars
<1>6. ASSUME NEW x \in Conns, NEW y \in Conns, AgentOf[x] = AgentOf[y], number'[x] = number'[y],
             number'[x] # 0
      PROVE  x = y
  <2>1. CASE x = c \/ y = c
    BY <1>2, <1>6, <2>1
  <2>2. CASE x # c /\ y # c
    BY <1>1, <1>6, <2>2 DEF ContractInv, NumberInv
  <2> QED
    BY <2>1, <2>2
<1>7. \A d \in Conns : Serving(d)' => number'[d] # 0
  BY <1>1, <1>4 DEF ContractInv, NumberInv
<1>8. \A d \in link' : Serving(d)' /\ pc'[d] # "closing"
  BY <1>0, <1>1 DEF ContractInv, NumberInv
<1>9. \A a \in Agents : revoke'[a] # "idle" => a \notin agents'
  BY <1>5 DEF ContractInv, NumberInv
<1> QED
  BY <1>3, <1>6, <1>7, <1>8, <1>9 DEF NumberInv

\* Every step keeps the numbers.
LEMMA NumberStep == ContractInv /\ [Next]_vars => ContractInv'
<1> SUFFICES ASSUME ContractInv, [Next]_vars PROVE NumberInv'
  BY RegistryStep DEF ContractInv
<1>0. pc = [x \in Conns \cup Beats |-> pc[x]] /\ link \subseteq Conns
  BY DEF ContractInv, RegistryInv, TypeOK
<1>1. ASSUME NEW c \in Conns, Connect(c) \/ AcceptFails(c) PROVE NumberInv'
  <2>1. c \notin link
    BY <1>1 DEF Connect, AcceptFails, ContractInv, NumberInv, Serving
  <2>2. \E p \in {"authed", "done"} : pc' = [pc EXCEPT ![c] = p]
    BY <1>1 DEF Connect, AcceptFails, Goto
  <2> QED
    BY <1>1, <2>1, <2>2, HandlerNumbers DEF Connect, AcceptFails, dbVars, envVars, netVars
<1>2. ASSUME NEW c \in Conns, ClosePrevious(c) \/ ReadReport(c) \/ UpdateSessionMetadata(c) PROVE NumberInv'
  <2>1. \E p \in {"reading", "metadata", "upsert"} : pc' = [pc EXCEPT ![c] = p]
    BY <1>2 DEF ClosePrevious, ReadReport, UpdateSessionMetadata, Goto
  <2>2. Serving(c)
    BY <1>2 DEF ClosePrevious, ReadReport, UpdateSessionMetadata, Serving
  <2> QED
    BY <1>2, <2>1, <2>2, HandlerNumbers
       DEF ClosePrevious, ReadReport, UpdateSessionMetadata, dbVars, envVars, netVars
<1>3. ASSUME NEW c \in Conns \cup Beats, StoreReport(c) PROVE NumberInv'
  <2>1. PICK p \in {"reading", "done"} :
          pc' = [pc EXCEPT ![c] = p] /\ (c \in Conns => p = "reading") /\ (c \notin Conns => p = "done")
    BY <1>3 DEF StoreReport, Goto
  <2>2. c \in Conns => Serving(c)
    BY <1>3 DEF StoreReport, Serving
  <2> QED
    BY <1>0, <1>3, <2>1, <2>2, HandlerNumbers DEF StoreReport, envVars, netVars
<1>4. ASSUME NEW c \in Conns, ReadFails(c) \/ Cleanup(c) \/ MarkOffline(c) PROVE NumberInv'
  <2>1. PICK p \in {"closing", "marking", "done"} :
          pc' = [pc EXCEPT ![c] = p] /\ (p = "closing" => Serving(c))
    BY <1>4 DEF ReadFails, Cleanup, MarkOffline, Goto, Serving
  <2>2. c \notin link
    BY <1>4 DEF ReadFails, Cleanup, MarkOffline, ContractInv, NumberInv, Serving
  <2> QED
    BY <1>4, <2>1, <2>2, HandlerNumbers DEF ReadFails, Cleanup, MarkOffline, dbVars, envVars, netVars
<1>5. ASSUME NEW b \in Beats, BeatArrives(b) PROVE NumberInv'
  <2>1. \E p \in {"upsert", "done"} : pc' = [pc EXCEPT ![b] = p]
    BY <1>5 DEF BeatArrives, Goto
  <2> QED
    BY <1>0, <1>5, <2>1, CallsAssumption, HandlerNumbers DEF BeatArrives, dbVars, envVars, netVars
<1>6. ASSUME UNCHANGED <<pc, countVars>>, link' \subseteq link,
             \A a \in Agents : revoke'[a] # "idle" => a \notin agents'
      PROVE  NumberInv'
  BY <1>6, NumbersKept DEF ContractInv, NumberInv, Serving
<1>7. ASSUME NEW a \in Agents, RevokeDelete(a) \/ RevokeSession(a) \/ InstancesChange(a) PROVE NumberInv'
  <2>1. UNCHANGED <<pc, countVars, link>>
    BY <1>7 DEF RevokeDelete, RevokeSession, InstancesChange, netVars
  <2>2. \A b \in Agents : revoke'[b] # "idle" => b \notin agents'
    BY <1>7 DEF RevokeDelete, RevokeSession, InstancesChange, dbVars, ContractInv, NumberInv, RegistryInv, TypeOK
  <2> QED
    BY <1>6, <2>1, <2>2
<1>8. ASSUME NEW c \in Conns, SendReport(c) \/ LinkDown(c) \/ RevokeClose(c) PROVE NumberInv'
  <2>1. UNCHANGED <<pc, countVars, agents, revoke>> /\ link' \subseteq link
    BY <1>8 DEF SendReport, LinkDown, RevokeClose, dbVars, envVars
  <2> QED
    BY <1>6, <2>1 DEF ContractInv, NumberInv
<1>9. CASE Restart
  <2>1. \A a \in Agents : revoke'[a] # "idle" => a \notin agents'
    BY <1>9 DEF Restart, dbVars, ContractInv, NumberInv
  <2>2. \A c \in Conns : Serving(c)' => Serving(c)
    BY <1>0, <1>9 DEF Restart, Serving
  <2> QED
    BY <1>9, <2>1, <2>2, NumbersKept DEF Restart
<1>10. CASE UNCHANGED vars
  BY <1>6, <1>10 DEF vars, dbVars, envVars, netVars, ContractInv, NumberInv
<1> QED
  BY <1>1, <1>2, <1>3, <1>4, <1>5, <1>7, <1>8, <1>9, <1>10, RegisterNumbers DEF Next, ConnStep

\* Nothing is numbered at the start.
LEMMA NumberInit == Init => ContractInv
<1> SUFFICES ASSUME Init PROVE NumberInv
  BY RegistryInit DEF ContractInv
<1>1. \A c \in Conns : number[c] = 0 /\ connects[AgentOf[c]] = 0 /\ ~Serving(c)
  BY AgentOfAssumption DEF Init, Serving
<1> QED
  BY <1>1 DEF Init, NumberInv

\* A step that leaves alone the entry, the connections, the row and the
\* authenticated calls of an agent is none of its table.
LEMMA TableStutters ==
  ASSUME NEW a \in Agents, ContractInv, UNCHANGED countVars, sessions'[a] = sessions[a],
         link' = link, a \in agents' <=> a \in agents,
         \A c \in Conns : AgentOf[c] = a => (pc'[c] = "authed" <=> pc[c] = "authed")
  PROVE  UNCHANGED Table(a)!vars
<1>1. {c \in Conns : AgentOf[c] = a /\ pc'[c] = "authed"} = {c \in Conns : AgentOf[c] = a /\ pc[c] = "authed"}
  OBVIOUS
<1> QED
  BY <1>1 DEF countVars, Table!vars

\* A handler past its registration moves on.
LEMMA TableMoves ==
  ASSUME NEW a \in Agents, ContractInv, NEW c \in Conns \cup Beats, NEW p,
         pc' = [pc EXCEPT ![c] = p], p # "authed", c \in Conns => pc[c] # "authed",
         UNCHANGED <<countVars, sessions, link, agents>>
  PROVE  UNCHANGED Table(a)!vars
<1>1. \A d \in Conns : pc'[d] = "authed" <=> pc[d] = "authed"
  BY DEF ContractInv, RegistryInv, TypeOK
<1> QED
  BY <1>1, TableStutters

\* Only an agent that is in the database is admitted.
LEMMA ConnectAdmits ==
  ASSUME NEW a \in Agents, ContractInv, NEW c \in Conns, Connect(c) PROVE [Table(a)!Next]_(Table(a)!vars)
<1>0. /\ UNCHANGED <<countVars, sessions, link, agents>> /\ pc = [x \in Conns \cup Beats |-> pc[x]]
      /\ pc[c] = "idle"
  BY DEF Connect, tableVars, netVars, dbVars, ContractInv, RegistryInv, TypeOK
<1>1. CASE AgentOf[c] = a /\ AuthenticateAgent(a)
  <2>1. pc' = [pc EXCEPT ![c] = "authed"] /\ a \in agents
    BY <1>1 DEF Connect, Goto, AuthenticateAgent
  <2>2. {d \in Conns : AgentOf[d] = a /\ pc'[d] = "authed"}
          = {d \in Conns : AgentOf[d] = a /\ pc[d] = "authed"} \cup {c}
    BY <1>0, <1>1, <2>1
  <2>3. Table(a)!Admit(c)
    BY <1>0, <2>1, <2>2 DEF Table!Admit, countVars
  <2> QED
    BY <2>3 DEF Table!Next
<1>2. CASE ~(AgentOf[c] = a /\ AuthenticateAgent(a))
  <2>1. \A d \in Conns : AgentOf[d] = a => (pc'[d] = "authed" <=> pc[d] = "authed")
    BY <1>0, <1>2 DEF Connect, Goto
  <2> QED
    BY <1>0, <2>1, TableStutters
<1> QED
  BY <1>1, <1>2

LEMMA AcceptFailsAbandons ==
  ASSUME NEW a \in Agents, ContractInv, NEW c \in Conns, AcceptFails(c)
  PROVE  [Table(a)!Next]_(Table(a)!vars)
<1>0. /\ UNCHANGED <<countVars, sessions, link, agents>> /\ pc = [x \in Conns \cup Beats |-> pc[x]]
      /\ pc' = [pc EXCEPT ![c] = "done"]
  BY DEF AcceptFails, Goto, tableVars, netVars, dbVars, ContractInv, RegistryInv, TypeOK
<1>1. {d \in Conns : AgentOf[d] = a /\ pc'[d] = "authed"}
        = {d \in Conns : AgentOf[d] = a /\ pc[d] = "authed"} \ {c}
  BY <1>0
<1>2. Table(a)!Abandon(c)
  BY <1>0, <1>1 DEF Table!Abandon, countVars
<1> QED
  BY <1>2 DEF Table!Next

\* The registering connection is the agent's next session.
LEMMA RegisterConnects ==
  ASSUME NEW a \in Agents, ContractInv, NEW c \in Conns, Register(c)
  PROVE  [Table(a)!Next]_(Table(a)!vars)
<1>0. /\ AgentOf[c] \in Agents /\ AgentOf \in [Conns \cup Beats -> Agents]
      /\ connects \in [Agents -> Nat] /\ number \in [Conns -> Nat] /\ link \subseteq Conns
      /\ sessions \in [Agents -> Conns \cup {NoConn}] /\ pc = [x \in Conns \cup Beats |-> pc[x]]
      /\ pc[c] = "authed" /\ c \notin link /\ UNCHANGED agents
  BY AgentOfAssumption DEF Register, ContractInv, RegistryInv, TypeOK, NumberInv, Serving, dbVars
<1>1. /\ sessions' = [sessions EXCEPT ![AgentOf[c]] = c]
      /\ connects' = [connects EXCEPT ![AgentOf[c]] = @ + 1]
      /\ number' = [number EXCEPT ![c] = connects[AgentOf[c]] + 1]
      /\ link' = link \cup {c}
      /\ pc' = [pc EXCEPT ![c] = "replacing"]
  BY DEF Register, Goto
<1>2. CASE AgentOf[c] = a
  <2>1. c \in {d \in Conns : AgentOf[d] = a /\ pc[d] = "authed"}
    BY <1>0, <1>2
  <2>2. {d \in Conns : AgentOf[d] = a /\ pc'[d] = "authed"}
          = {d \in Conns : AgentOf[d] = a /\ pc[d] = "authed"} \ {c}
    BY <1>0, <1>1
  <2>3. {number'[d] : d \in {e \in link' : AgentOf[e] = a}}
          = {number[d] : d \in {e \in link : AgentOf[e] = a}} \cup {connects[a] + 1}
    BY <1>0, <1>1, <1>2
  <2>4. connects'[a] = connects[a] + 1 /\ sessions'[a] = c /\ number'[c] = connects[a] + 1
    BY <1>0, <1>1, <1>2
  <2>5. Table(a)!Connect(c)
    BY <1>0, <2>1, <2>2, <2>3, <2>4, NoConnAssumption DEF Table!Connect
  <2> QED
    BY <2>5 DEF Table!Next
<1>3. CASE AgentOf[c] # a
  <2>1. connects'[a] = connects[a] /\ sessions'[a] = sessions[a]
    BY <1>0, <1>1, <1>3
  <2>2. sessions[a] # NoConn => sessions[a] \in Conns /\ sessions[a] # c
    BY <1>0, <1>3 DEF ContractInv, RegistryInv, NoDeadSession
  <2>3. sessions[a] # NoConn => number'[sessions[a]] = number[sessions[a]]
    BY <1>0, <1>1, <2>2
  <2>4. {number'[d] : d \in {e \in link' : AgentOf[e] = a}} = {number[d] : d \in {e \in link : AgentOf[e] = a}}
    BY <1>0, <1>1, <1>3
  <2>5. {d \in Conns : AgentOf[d] = a /\ pc'[d] = "authed"} = {d \in Conns : AgentOf[d] = a /\ pc[d] = "authed"}
    BY <1>0, <1>1, <1>3
  <2> QED
    BY <1>0, <2>1, <2>3, <2>4, <2>5 DEF Table!vars
<1> QED
  BY <1>2, <1>3

\* A connection that ends is one session's: no other has its number.
LEMMA LinkEnds ==
  ASSUME NEW a \in Agents, ContractInv, NEW c, link' = link \ {c},
         UNCHANGED <<countVars, sessions, agents>>,
         \A d \in Conns : pc'[d] = "authed" <=> pc[d] = "authed"
  PROVE  [Table(a)!Next]_(Table(a)!vars)
<1>0. /\ link \subseteq Conns /\ number \in [Conns -> Nat] /\ connects \in [Agents -> Nat]
      /\ UNCHANGED <<connects, number>>
  BY DEF ContractInv, RegistryInv, TypeOK, countVars
<1>1. {d \in Conns : AgentOf[d] = a /\ pc'[d] = "authed"} = {d \in Conns : AgentOf[d] = a /\ pc[d] = "authed"}
  OBVIOUS
<1>2. CASE c \in link /\ AgentOf[c] = a
  <2>1. c \in Conns /\ number[c] \in 1 .. connects[a]
    BY <1>0, <1>2 DEF ContractInv, NumberInv
  <2>2. \A d \in link : AgentOf[d] = a /\ number[d] = number[c] => d = c
    BY <1>0, <1>2, <2>1 DEF ContractInv, NumberInv
  <2>3. {number[d] : d \in {e \in link' : AgentOf[e] = a}}
          = {number[d] : d \in {e \in link : AgentOf[e] = a}} \ {number[c]}
    BY <1>0, <2>2
  <2>4. number[c] \in {number[d] : d \in {e \in link : AgentOf[e] = a}}
    BY <1>2
  <2>5. PICK n \in 1 .. connects[a] : n = number[c]
    BY <2>1
  <2>6. Table(a)!Drop(n)
    BY <1>0, <1>1, <2>3, <2>4, <2>5 DEF Table!Drop, Table!KeepsAgent
  <2> QED
    BY <2>6 DEF Table!Next
<1>3. CASE ~(c \in link /\ AgentOf[c] = a)
  <2>1. {e \in link' : AgentOf[e] = a} = {e \in link : AgentOf[e] = a}
    BY <1>3
  <2> QED
    BY <1>0, <1>1, <2>1 DEF Table!vars
<1> QED
  BY <1>2, <1>3

\* The cleanup takes out its own entry, and its connection has ended.
LEMMA CleanupForgets ==
  ASSUME NEW a \in Agents, ContractInv, NEW c \in Conns, Cleanup(c)
  PROVE  [Table(a)!Next]_(Table(a)!vars)
<1>0. /\ UNCHANGED <<countVars, link, agents>> /\ pc = [x \in Conns \cup Beats |-> pc[x]]
      /\ pc[c] = "closing" /\ AgentOf[c] \in Agents /\ link \subseteq Conns
      /\ sessions \in [Agents -> Conns \cup {NoConn}]
      /\ number \in [Conns -> Nat] /\ connects \in [Agents -> Nat]
  BY AgentOfAssumption DEF Cleanup, tableVars, netVars, dbVars, ContractInv, RegistryInv, TypeOK
<1>1. \A d \in Conns : pc'[d] = "authed" <=> pc[d] = "authed"
  BY <1>0 DEF Cleanup, Goto
<1>2. CASE IsCurrent(c) /\ AgentOf[c] = a
  <2>1. sessions[a] = c /\ sessions'[a] = NoConn
    BY <1>0, <1>2 DEF Cleanup, IsCurrent
  <2>2. c \notin link /\ number[c] # 0 /\ number[c] <= connects[a]
    BY <1>0, <1>2 DEF ContractInv, NumberInv, Serving
  <2>3. number[c] \notin {number[d] : d \in {e \in link : AgentOf[e] = a}}
    BY <1>0, <1>2, <2>2 DEF ContractInv, NumberInv
  <2>4. {d \in Conns : AgentOf[d] = a /\ pc'[d] = "authed"} = {d \in Conns : AgentOf[d] = a /\ pc[d] = "authed"}
    BY <1>1
  <2>5. PICK n \in 1 .. connects[a] : n = number[c]
    BY <1>0, <2>2
  <2>6. n # 0 /\ n \notin {number[d] : d \in {e \in link : AgentOf[e] = a}}
    BY <2>2, <2>3, <2>5
  <2>7. Table(a)!Forget(n)
    BY <1>0, <2>1, <2>4, <2>5, <2>6, NoConnAssumption DEF Table!Forget, Table!KeepsAgent, countVars
  <2> QED
    BY <2>7 DEF Table!Next
<1>3. CASE ~(IsCurrent(c) /\ AgentOf[c] = a)
  <2>1. sessions'[a] = sessions[a]
    BY <1>0, <1>3 DEF Cleanup, IsCurrent
  <2> QED
    BY <1>0, <1>1, <2>1, TableStutters
<1> QED
  BY <1>2, <1>3

\* The revocation takes the entry out after the row.
LEMMA RevocationContract ==
  ASSUME NEW a \in Agents, ContractInv, NEW b \in Agents, RevokeDelete(b) \/ RevokeSession(b)
  PROVE  [Table(a)!Next]_(Table(a)!vars)
<1>0. /\ UNCHANGED <<countVars, link, pc>> /\ sessions \in [Agents -> Conns \cup {NoConn}]
      /\ agents \subseteq Agents
  BY DEF RevokeDelete, RevokeSession, netVars, ContractInv, RegistryInv, TypeOK
<1>1. CASE RevokeDelete(b) /\ a = b
  <2>1. Table(a)!Delete
    BY <1>0, <1>1 DEF RevokeDelete, tableVars, countVars, Table!Delete
  <2> QED
    BY <2>1 DEF Table!Next
<1>2. CASE RevokeSession(b) /\ a = b /\ sessions[a] # NoConn
  <2>1. a \notin agents /\ a \notin agents'
    BY <1>2 DEF RevokeSession, dbVars, ContractInv, NumberInv
  <2>2. number[sessions[a]] # 0
    BY <1>0, <1>2 DEF ContractInv, NumberInv, RegistryInv, NoDeadSession
  <2>3. sessions'[a] = NoConn
    BY <1>0, <1>2 DEF RevokeSession
  <2>4. Table(a)!Revoke
    BY <1>0, <1>2, <2>1, <2>2, <2>3 DEF countVars, Table!Revoke, Table!KeepsAgent
  <2> QED
    BY <2>4 DEF Table!Next
<1>3. CASE a # b \/ (RevokeSession(b) /\ sessions[a] = NoConn)
  <2>1. sessions'[a] = sessions[a] /\ (a \in agents' <=> a \in agents)
    BY <1>0, <1>3 DEF RevokeDelete, RevokeSession, tableVars, dbVars
  <2> QED
    BY <1>0, <2>1, TableStutters
<1> QED
  BY <1>1, <1>2, <1>3

LEMMA RestartRestarts ==
  ASSUME NEW a \in Agents, ContractInv, Restart PROVE [Table(a)!Next]_(Table(a)!vars)
<1>0. UNCHANGED <<countVars, agents>> /\ sessions'[a] = NoConn /\ link' = {}
  BY DEF Restart, dbVars
<1>1. {d \in Conns : AgentOf[d] = a /\ pc'[d] = "authed"} = {}
  BY DEF Restart
<1>2. {number'[d] : d \in {e \in link' : AgentOf[e] = a}} = {}
  BY <1>0
<1>3. Table(a)!Restart
  BY <1>0, <1>1, <1>2 DEF countVars, Table!Restart
<1> QED
  BY <1>3 DEF Table!Next

\* Every step of the manager is a step of each agent's table, or none of it.
LEMMA ContractStep ==
  ContractInv /\ [Next]_vars => \A a \in Agents : [Table(a)!Next]_(Table(a)!vars)
<1> SUFFICES ASSUME ContractInv, [Next]_vars, NEW a \in Agents PROVE [Table(a)!Next]_(Table(a)!vars)
  OBVIOUS
<1>1. ASSUME NEW c \in Conns, ReadReport(c) \/ UpdateSessionMetadata(c) \/ ReadFails(c) \/ MarkOffline(c)
      PROVE  [Table(a)!Next]_(Table(a)!vars)
  <2>1. /\ \E p \in {"metadata", "upsert", "reading", "closing", "done"} : pc' = [pc EXCEPT ![c] = p]
        /\ pc[c] # "authed" /\ UNCHANGED <<countVars, sessions, link, agents>>
    BY <1>1 DEF ReadReport, UpdateSessionMetadata, ReadFails, MarkOffline, Goto, dbVars, tableVars, netVars
  <2> QED
    BY <2>1, TableMoves
<1>2. ASSUME NEW c \in Conns \cup Beats, StoreReport(c) PROVE [Table(a)!Next]_(Table(a)!vars)
  <2>1. /\ \E p \in {"reading", "done"} : pc' = [pc EXCEPT ![c] = p]
        /\ pc[c] # "authed" /\ UNCHANGED <<countVars, sessions, link, agents>>
    BY <1>2 DEF StoreReport, Goto, tableVars, netVars
  <2> QED
    BY <2>1, TableMoves
<1>3. ASSUME NEW b \in Beats, BeatArrives(b) PROVE [Table(a)!Next]_(Table(a)!vars)
  <2>1. /\ \E p \in {"upsert", "done"} : pc' = [pc EXCEPT ![b] = p]
        /\ UNCHANGED <<countVars, sessions, link, agents>> /\ b \notin Conns
    BY <1>3, CallsAssumption DEF BeatArrives, Goto, dbVars, tableVars, netVars
  <2> QED
    BY <2>1, TableMoves
<1>4. ASSUME NEW c \in Conns, ClosePrevious(c) PROVE [Table(a)!Next]_(Table(a)!vars)
  <2>1. /\ \A d \in Conns : pc'[d] = "authed" <=> pc[d] = "authed"
        /\ \E d : link' = link \ {d}
        /\ UNCHANGED <<countVars, sessions, agents>>
    BY <1>4 DEF ClosePrevious, Goto, dbVars, tableVars, ContractInv, RegistryInv, TypeOK
  <2> QED
    BY <2>1, LinkEnds
<1>5. ASSUME NEW c \in Conns, LinkDown(c) \/ RevokeClose(c) PROVE [Table(a)!Next]_(Table(a)!vars)
  <2>1. UNCHANGED pc /\ link' = link \ {c} /\ UNCHANGED <<countVars, sessions, agents>>
    BY <1>5 DEF LinkDown, RevokeClose, dbVars, tableVars
  <2> QED
    BY <2>1, LinkEnds
<1>6. ASSUME (\E c \in Conns : SendReport(c)) \/ (\E b \in Agents : InstancesChange(b)) \/ UNCHANGED vars
      PROVE  [Table(a)!Next]_(Table(a)!vars)
  <2>1. UNCHANGED <<pc, countVars, sessions, link, agents>>
    BY <1>6 DEF SendReport, InstancesChange, vars, dbVars, tableVars, netVars
  <2> QED
    BY <2>1, TableStutters
<1> QED
  BY <1>1, <1>2, <1>3, <1>4, <1>5, <1>6, ConnectAdmits, AcceptFailsAbandons, RegisterConnects,
     CleanupForgets, RevocationContract, RestartRestarts DEF Next, ConnStep

\* No agent has an entry, a connection or an admitted call at the start.
LEMMA ContractStart == Init => \A a \in Agents : Table(a)!Init
<1> SUFFICES ASSUME Init, NEW a \in Agents PROVE Table(a)!Init
  OBVIOUS
<1>1. {d \in Conns : AgentOf[d] = a /\ pc[d] = "authed"} = {}
  BY DEF Init
<1>2. {number[d] : d \in {e \in link : AgentOf[e] = a}} = {}
  BY DEF Init
<1> QED
  BY <1>1, <1>2 DEF Init, Table!Init

\* For any number of agents, connections and restarts, s.sessions is what its
\* users take it for: replaced by newer sessions only, emptied by the end of its
\* own connection, by a revocation or with the process, and closed to everyone
\* who was not authenticated before the agent was deleted.
THEOREM SessionsFollowContract == Spec => SessionContract
<1>1. ContractInv /\ [Next]_vars => [\A a \in Agents : [Table(a)!Next]_(Table(a)!vars)]_vars
  BY ContractStep
<1> QED
  BY <1>1, NumberInit, NumberStep, ContractStart, PTL DEF Spec, SessionContract
==============================================================================
