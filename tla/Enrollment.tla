------------------------------ MODULE Enrollment ------------------------------
(***************************************************************************)
(* internal/api/server.go, internal/storage/sqlite.go and                  *)
(* internal/config/config.go: how a pairing code becomes an agent.  Calls  *)
(* of enroll run concurrently with refreshPairing and with restarts of the *)
(* manager.  pairingMu covers the comparison and the replacement of the    *)
(* code; the row is inserted, and the answer sent, after it is released.   *)
(*                                                                         *)
(* randomHex never repeats a value, so codes are numbered in the order     *)
(* they are made.                                                          *)
(***************************************************************************)
EXTENDS Naturals

CONSTANTS Calls,     \* the calls of enroll
          MaxCodes   \* bound: how many pairing codes are made

ASSUME MaxCodesAssumption == MaxCodes \in Nat \ {0}

NoCode == 0          \* the empty string

VARIABLES
  pairingCode,  \* s.pairingCode
  issued,       \* how many codes randomHex has made
  pc,           \* where each call of enroll is
  presented,    \* the code in its request
  agents,       \* database: the agents, each named by the call that created it
  told          \* the callers that were sent an agent id and a token

vars == <<pairingCode, issued, pc, presented, agents, told>>

TypeOK ==
  /\ pairingCode \in 1 .. issued
  /\ issued \in 1 .. MaxCodes
  /\ pc \in [Calls -> {"idle", "compare", "insert", "answer", "done"}]
  /\ presented \in [Calls -> 0 .. MaxCodes]
  /\ agents \in SUBSET Calls
  /\ told \in SUBSET Calls

\* config.Load makes the first code of every process.
Init ==
  /\ pairingCode = 1
  /\ issued = 1
  /\ pc = [e \in Calls |-> "idle"]
  /\ presented = [e \in Calls |-> NoCode]
  /\ agents = {}
  /\ told = {}

Goto(e, p) == pc' = [pc EXCEPT ![e] = p]

NewCode == issued + 1

\* s.pairingCode = randomHex(8)
ReplaceCode ==
  /\ issued < MaxCodes
  /\ issued' = issued + 1
  /\ pairingCode' = NewCode

\* A request arrives with a code that was shown at some time, or with none,
\* which is refused.
Present(e, c) ==
  /\ pc[e] = "idle"
  /\ presented' = [presented EXCEPT ![e] = c]
  /\ Goto(e, IF c = NoCode THEN "done" ELSE "compare")
  /\ UNCHANGED <<pairingCode, issued, agents, told>>

\* Mutant: the code is replaced only when it is refreshed.
UseCodeKept == UNCHANGED <<pairingCode, issued>>

UseCode == ReplaceCode

\* The comparison and the replacement, under pairingMu.
CompareCode(e) ==
  /\ pc[e] = "compare"
  /\ IF presented[e] = pairingCode
     THEN UseCode /\ Goto(e, "insert")
     ELSE UNCHANGED <<pairingCode, issued>> /\ Goto(e, "done")
  /\ UNCHANGED <<presented, agents, told>>

\* Mutant: the error of the insert is not looked at.
AfterInsertAlways(ok) == IF ok THEN "answer" ELSE "answer"

AfterInsert(ok) == IF ok THEN "answer" ELSE "done"

\* CreateAgentWithMetadata, which may fail: the code is used up all the same.
CreateAgent(e, ok) ==
  /\ pc[e] = "insert"
  /\ agents' = IF ok THEN agents \cup {e} ELSE agents
  /\ Goto(e, AfterInsert(ok))
  /\ UNCHANGED <<pairingCode, issued, presented, told>>

\* writeJSON with the new credentials; the caller may be gone.
Answer(e) ==
  /\ pc[e] = "answer"
  /\ told' \in {told, told \cup {e}}
  /\ Goto(e, "done")
  /\ UNCHANGED <<pairingCode, issued, presented, agents>>

\* refreshPairing
RefreshPairing == ReplaceCode /\ UNCHANGED <<pc, presented, agents, told>>

\* The process ends at any point; the next one loads a code of its own and
\* opens the same database.
Restart ==
  /\ ReplaceCode
  /\ pc' = [e \in Calls |-> IF pc[e] = "idle" THEN "idle" ELSE "done"]
  /\ UNCHANGED <<presented, agents, told>>

Next == \/ \E e \in Calls : \/ \E c \in 0 .. issued : Present(e, c)
                            \/ CompareCode(e)
                            \/ \E ok \in BOOLEAN : CreateAgent(e, ok)
                            \/ Answer(e)
        \/ RefreshPairing
        \/ Restart

Spec == Init /\ [][Next]_vars

-----------------------------------------------------------------------------
(* Properties *)

\* README: pairing codes are for one use.  However many calls present the same
\* code at the same time, and across refreshes and restarts, it makes at most
\* one agent.
OneAgentPerCode ==
  \A e, f \in agents : presented[e] = presented[f] => e = f

\* Credentials are handed out only for an agent the database has: a caller that
\* was answered can authenticate, even when the manager is restarted next.
CredentialsDurable == told \subseteq agents
===============================================================================
