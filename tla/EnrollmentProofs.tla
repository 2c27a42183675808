--------------------------- MODULE EnrollmentProofs ---------------------------
(* Proofs about Enrollment, for any number of calls, codes and restarts. *)
EXTENDS Enrollment, TLAPS

\* The calls whose code was accepted.
Accepted(e) == pc[e] \in {"insert", "answer"} \/ e \in agents

\* The inductive strengthening of OneAgentPerCode: accepted codes are different
\* from each other and older than the code that is valid now.
AcceptedCodes ==
  /\ \A e \in Calls : Accepted(e) => presented[e] < pairingCode
  /\ \A e, f \in Calls : Accepted(e) /\ Accepted(f) /\ presented[e] = presented[f] => e = f
  /\ \A e \in Calls : pc[e] \in {"idle", "compare"} => e \notin agents
  /\ \A e \in Calls : pc[e] = "answer" => e \in agents
  /\ pairingCode = issued

\* The inductive invariant.
EnrollInv == TypeOK /\ AcceptedCodes /\ CredentialsDurable

LEMMA EnrollInit == Init => EnrollInv
  BY MaxCodesAssumption
  DEF Init, EnrollInv, TypeOK, AcceptedCodes, Accepted, CredentialsDurable, NoCode

\* Replacing the code makes every accepted code an older one.
LEMMA ReplaceKeeps ==
  ASSUME EnrollInv, RefreshPairing \/ Restart PROVE EnrollInv'
<1> USE DEF EnrollInv, RefreshPairing, Restart, ReplaceCode, NewCode
<1>1. TypeOK'
  BY MaxCodesAssumption DEF TypeOK
<1>2. \A e \in Calls : Accepted(e)' => Accepted(e)
  BY DEF Accepted, TypeOK
<1>3. AcceptedCodes'
  BY <1>2 DEF AcceptedCodes, TypeOK
<1>4. CredentialsDurable'
  BY DEF CredentialsDurable
<1> QED
  BY <1>1, <1>3, <1>4

\* One step of a call.
LEMMA CompareKeeps == ASSUME EnrollInv, NEW e \in Calls, CompareCode(e) PROVE EnrollInv'
<1> USE DEF EnrollInv, CompareCode, UseCode, ReplaceCode, NewCode, Goto
<1>1. TypeOK'
  BY MaxCodesAssumption DEF TypeOK
<1>2. CredentialsDurable'
  BY DEF CredentialsDurable
<1>3. CASE presented[e] = pairingCode
  <2>1. \A f \in Calls : Accepted(f)' => Accepted(f) \/ f = e
    BY <1>3 DEF Accepted, TypeOK
  <2>2. pairingCode' = pairingCode + 1 /\ issued' = issued + 1 /\ presented' = presented
    BY <1>3 DEF AcceptedCodes
  <2>3. AcceptedCodes'
    BY <1>3, <2>1, <2>2 DEF AcceptedCodes, TypeOK
  <2> QED
    BY <1>1, <1>2, <2>3
<1>4. CASE presented[e] # pairingCode
  <2>1. \A f \in Calls : Accepted(f)' => Accepted(f)
    BY <1>4 DEF Accepted, TypeOK
  <2>2. AcceptedCodes'
    BY <1>4, <2>1 DEF AcceptedCodes, TypeOK
  <2> QED
    BY <1>1, <1>2, <2>2
<1> QED
  BY <1>3, <1>4

LEMMA CreateKeeps ==
  ASSUME EnrollInv, NEW e \in Calls, NEW ok \in BOOLEAN, CreateAgent(e, ok) PROVE EnrollInv'
<1> USE DEF EnrollInv, CreateAgent, AfterInsert, Goto
<1>1. TypeOK'
  BY MaxCodesAssumption DEF TypeOK
<1>2. CredentialsDurable'
  BY DEF CredentialsDurable
<1>3. \A f \in Calls : Accepted(f)' => Accepted(f)
  BY DEF Accepted, TypeOK
<1>4. AcceptedCodes'
  BY <1>3 DEF AcceptedCodes, TypeOK
<1> QED
  BY <1>1, <1>2, <1>4

LEMMA CallerKeeps ==
  ASSUME EnrollInv, NEW e \in Calls,
         Answer(e) \/ \E c \in 0 .. issued : Present(e, c)
  PROVE EnrollInv'
<1> USE DEF EnrollInv, Goto
<1>1. CASE Answer(e)
  <2>1. TypeOK' /\ CredentialsDurable'
    BY <1>1 DEF Answer, TypeOK, CredentialsDurable, AcceptedCodes
  <2>2. \A f \in Calls : Accepted(f)' => Accepted(f)
    BY <1>1 DEF Answer, Accepted, TypeOK
  <2>3. AcceptedCodes'
    BY <1>1, <2>2 DEF Answer, AcceptedCodes, TypeOK
  <2> QED
    BY <2>1, <2>3
<1>2. ASSUME NEW c \in 0 .. issued, Present(e, c) PROVE EnrollInv'
  <2>1. TypeOK' /\ CredentialsDurable'
    BY <1>2, MaxCodesAssumption DEF Present, TypeOK, CredentialsDurable
  <2>2. \A f \in Calls : Accepted(f)' => Accepted(f) /\ f # e
    BY <1>2 DEF Present, Accepted, TypeOK, AcceptedCodes
  <2>3. AcceptedCodes'
    BY <1>2, <2>2 DEF Present, AcceptedCodes, TypeOK
  <2> QED
    BY <2>1, <2>3
<1> QED
  BY <1>1, <1>2

LEMMA EnrollKeeps == EnrollInv /\ [Next]_vars => EnrollInv'
<1> SUFFICES ASSUME EnrollInv, [Next]_vars PROVE EnrollInv'
  OBVIOUS
<1>1. CASE UNCHANGED vars
  BY <1>1 DEF vars, EnrollInv, TypeOK, AcceptedCodes, Accepted, CredentialsDurable
<1>2. CASE Next
  BY <1>2, ReplaceKeeps, CompareKeeps, CreateKeeps, CallerKeeps DEF Next
<1> QED
  BY <1>1, <1>2

\* A pairing code makes at most one agent, and credentials are only handed out
\* for an agent that is in the database.
THEOREM PairingSafety == Spec => [](OneAgentPerCode /\ CredentialsDurable)
<1>1. EnrollInv => OneAgentPerCode /\ CredentialsDurable
  BY DEF EnrollInv, OneAgentPerCode, AcceptedCodes, Accepted, TypeOK
<1> QED
  BY <1>1, EnrollInit, EnrollKeeps, PTL DEF Spec

\* The variables keep their types.
THEOREM TypeCorrect == Spec => []TypeOK
<1>1. EnrollInv => TypeOK
  BY DEF EnrollInv
<1> QED
  BY <1>1, EnrollInit, EnrollKeeps, PTL DEF Spec
===============================================================================
