--------------------------- MODULE DashboardProofs ---------------------------
(***************************************************************************)
(* Proofs about Dashboard: what Enrollment and AgentLink promise holds in  *)
(* the process that composes them, through its restarts, and ended logins  *)
(* stay ended.                                                             *)
(***************************************************************************)
EXTENDS Dashboard, EnrollmentProofs, AgentLinkProofs

-----------------------------------------------------------------------------
(* Enrollment: every step of the process is one of Enrollment or leaves its *)
(* state alone.                                                             *)

LEMMA DashboardEnrolls == [DashboardNext]_dashboardVars => [Next]_vars
<1> SUFFICES ASSUME [DashboardNext]_dashboardVars PROVE [Next]_vars
  OBVIOUS
<1>1. CASE UNCHANGED dashboardVars
  BY <1>1 DEF dashboardVars
<1>2. CASE AuthLogin \/ Tick \/ AgentStep
  BY <1>2 DEF AuthLogin, Tick, AgentStep
<1>3. ASSUME NEW k \in Credentials,
             \/ AuthLogout(k)
             \/ \E c \in Senders : Command(c, k)
             \/ \E r \in Refreshes : BeginRefresh(r, k)
      PROVE  [Next]_vars
  BY <1>3 DEF AuthLogout, Command, BeginRefresh
<1>4. CASE \E r \in Refreshes : Refresh(r)
  BY <1>4 DEF Refresh, Next
<1>5. CASE \E e \in Calls : EnrollStep(e)
  BY <1>5 DEF EnrollStep, Next
<1>6. CASE ProcessRestart
  BY <1>6 DEF ProcessRestart, Next
<1> QED
  BY <1>1, <1>2, <1>3, <1>4, <1>5, <1>6 DEF DashboardNext

\* In the whole process too, a pairing code makes at most one agent and
\* credentials are handed out only for an agent in the database.
THEOREM DashboardPairing == DashboardSpec => [](OneAgentPerCode /\ CredentialsDurable)
<1>1. DashboardInit => Init
  BY DEF DashboardInit
<1>2. EnrollInv => OneAgentPerCode /\ CredentialsDurable
  BY DEF EnrollInv, OneAgentPerCode, AcceptedCodes, Accepted, TypeOK
<1> QED
  BY <1>1, <1>2, EnrollInit, EnrollKeeps, DashboardEnrolls, PTL DEF DashboardSpec

-----------------------------------------------------------------------------
(* AgentLink: a restart is the only step of the process that is not one of  *)
(* AgentLink.                                                               *)

LEMMA RestartKeepsLink == ASSUME LinkInv, ProcessRestart PROVE LinkInv'
<1> USE DEF LinkInv, ProcessRestart
<1>1. LinkTypeOK'
  BY MaxLinksAssumption DEF LinkTypeOK, Replies
<1>2. TableInv' /\ FrameInv'
  BY DEF TableInv, FrameInv
<1>3. ASSUME NEW c \in Senders PROVE CallOK(c)'
  <2>1. CallOK(c)
    BY DEF CallInv
  <2>2. \/ stage'[c] = stage[c] /\ reply'[c] = reply[c]
        \/ stage'[c] = "done" /\ reply'[c] = "cut"
    BY DEF LinkTypeOK
  <2> QED
    BY <2>1, <2>2 DEF CallOK
<1> QED
  BY <1>1, <1>2, <1>3 DEF CallInv

LEMMA DashboardKeepsLink == LinkInv /\ [DashboardNext]_dashboardVars => LinkInv'
<1> SUFFICES ASSUME LinkInv, [DashboardNext]_dashboardVars PROVE LinkInv'
  OBVIOUS
<1>1. CASE UNCHANGED dashboardVars
  BY <1>1, LinkKeeps DEF dashboardVars
<1>2. CASE AuthLogin \/ Tick
  BY <1>2, LinkKeeps DEF AuthLogin, Tick
<1>3. ASSUME NEW k \in Credentials, AuthLogout(k) \/ \E r \in Refreshes : BeginRefresh(r, k)
      PROVE  LinkInv'
  BY <1>3, LinkKeeps DEF AuthLogout, BeginRefresh
<1>4. ASSUME NEW k \in Credentials, NEW c \in Senders, Command(c, k) PROVE LinkInv'
  <2>1. IsAuthenticated(k) \in BOOLEAN
    BY DEF IsAuthenticated
  <2> QED
    BY <1>4, <2>1, BeginKeeps DEF Command
<1>5. CASE \E r \in Refreshes : Refresh(r)
  BY <1>5, LinkKeeps DEF Refresh
<1>6. CASE \E e \in Calls : EnrollStep(e)
  BY <1>6, LinkKeeps DEF EnrollStep
<1>7. CASE AgentStep
  BY <1>7, LinkKeeps DEF AgentStep, LinkNext
<1>8. CASE ProcessRestart
  BY <1>8, RestartKeepsLink
<1> QED
  BY <1>1, <1>2, <1>3, <1>4, <1>5, <1>6, <1>7, <1>8 DEF DashboardNext

\* A command answered with 202 was put on a connection of its agent, whatever
\* reconnections, revocations and restarts come between.
THEOREM DashboardAccepts == DashboardSpec => []AcceptedWasSent
<1>1. DashboardInit => LinkInit
  BY DEF DashboardInit
<1> QED
  BY <1>1, LinkStarts, DashboardKeepsLink, LinkPromises, PTL DEF DashboardSpec

\* The retry sends a command twice only after an ambiguous error and over a newer
\* connection.
THEOREM DashboardCommands == DashboardSpec => []TwiceOnlyAcrossReconnect
<1>1. DashboardInit => LinkInit
  BY DEF DashboardInit
<1> QED
  BY <1>1, LinkStarts, DashboardKeepsLink, LinkPromises, PTL DEF DashboardSpec

-----------------------------------------------------------------------------
(* Login sessions *)

\* An entry of authSessions belongs to an id of this process that was not logged
\* out, and expires a lifetime after it was made.
AuthInv ==
  /\ now \in Nat
  /\ born \in Seq(Nat)
  /\ DOMAIN authSessions \subseteq (1 .. logins) \ ended
  /\ \A k \in DOMAIN authSessions : authSessions[k] = born[k] + Lifetime
  /\ ended \subseteq 1 .. logins

LEMMA AuthStarts == DashboardInit => AuthInv
  BY DEF DashboardInit, AuthInv, logins

\* Entries only disappear, or nothing changes.
LEMMA FewerKeeps ==
  ASSUME AuthInv, now' = now, born' = born, ended' = ended, NEW S,
         authSessions' = [j \in DOMAIN authSessions \ S |-> authSessions[j]]
  PROVE  AuthInv'
  BY DEF AuthInv, logins

LEMMA SweepKeeps ==
  ASSUME AuthInv, NEW k \in Credentials, Sweep(k), now' = now, born' = born, ended' = ended
  PROVE  AuthInv'
<1>1. CASE k \in DOMAIN authSessions /\ Expired(k)
  BY <1>1, FewerKeeps DEF Sweep, Without
<1>2. CASE ~(k \in DOMAIN authSessions /\ Expired(k))
  BY <1>2 DEF Sweep, AuthInv, logins
<1> QED
  BY <1>1, <1>2

LEMMA LoginKeeps == ASSUME AuthInv, AuthLogin PROVE AuthInv'
<1> USE DEF AuthInv, AuthLogin, logins
<1>1. born' \in Seq(Nat) /\ Len(born') = Len(born) + 1
  OBVIOUS
<1>2. \A k \in 1 .. Len(born) : born'[k] = born[k]
  OBVIOUS
<1>3. born'[Len(born) + 1] = now
  OBVIOUS
<1>4. DOMAIN authSessions' = DOMAIN authSessions \cup {Len(born) + 1}
  OBVIOUS
<1>5. \A k \in DOMAIN authSessions' : authSessions'[k] = born'[k] + Lifetime
  BY <1>2, <1>3, <1>4
<1> QED
  BY <1>1, <1>4, <1>5

LEMMA LogoutKeeps == ASSUME AuthInv, NEW k \in Credentials, AuthLogout(k) PROVE AuthInv'
<1>1. DOMAIN authSessions' = DOMAIN authSessions \ {k}
  BY DEF AuthLogout, AfterLogout, Without
<1>2. \A j \in DOMAIN authSessions' : authSessions'[j] = authSessions[j]
  BY DEF AuthLogout, AfterLogout, Without
<1> QED
  BY <1>1, <1>2 DEF AuthLogout, AuthInv, logins

LEMMA AuthKeeps == AuthInv /\ [DashboardNext]_dashboardVars => AuthInv'
<1> SUFFICES ASSUME AuthInv, [DashboardNext]_dashboardVars PROVE AuthInv'
  OBVIOUS
<1>1. CASE UNCHANGED <<authVars, ended>>
  BY <1>1 DEF authVars, AuthInv, logins
<1>2. CASE UNCHANGED dashboardVars \/ AgentStep \/ \E r \in Refreshes : Refresh(r)
  BY <1>1, <1>2 DEF dashboardVars, AgentStep, Refresh
<1>3. CASE \E e \in Calls : EnrollStep(e)
  BY <1>1, <1>3 DEF EnrollStep
<1>4. ASSUME NEW k \in Credentials, NEW c \in Senders, Command(c, k) PROVE AuthInv'
  BY <1>4, SweepKeeps DEF Command
<1>5. ASSUME NEW k \in Credentials, NEW r \in Refreshes, BeginRefresh(r, k) PROVE AuthInv'
  BY <1>5, SweepKeeps DEF BeginRefresh
<1>6. CASE Tick
  BY <1>6 DEF Tick, AuthInv, logins
<1>7. CASE ProcessRestart
  BY <1>7 DEF ProcessRestart, AuthInv, logins
<1> QED
  BY <1>2, <1>3, <1>4, <1>5, <1>6, <1>7, LoginKeeps, LogoutKeeps DEF DashboardNext

\* A guarded call gets past authorizeAdmin only with the admin token or with a
\* login of this process that is neither logged out nor older than its lifetime.
THEOREM EndedLoginsStayEnded == DashboardSpec => OnlyLiveLogins
<1> DEFINE Live(k) == \/ k = AdminToken
                      \/ k \in 1 .. logins /\ k \notin ended /\ now - born[k] <= Lifetime
<1>1. ASSUME AuthInv, NEW k \in Credentials, IsAuthenticated(k) PROVE Live(k)
  <2>1. CASE k = AdminToken
    BY <2>1
  <2>2. CASE k \in DOMAIN authSessions /\ ~Expired(k)
    <3>1. k \in 1 .. logins /\ k \notin ended
      BY <1>1, <2>2 DEF AuthInv
    <3>2. born[k] \in Nat /\ now \in Nat /\ Lifetime \in Nat
      BY <1>1, <3>1, DashboardAssumption DEF AuthInv, logins
    <3>3. now <= born[k] + Lifetime
      BY <1>1, <2>2, <3>2 DEF AuthInv, Expired
    <3> QED
      BY <3>1, <3>2, <3>3
  <2> QED
    BY <1>1, <2>1, <2>2 DEF IsAuthenticated
<1>2. ASSUME LinkInv, NEW k \in Credentials, PassesWith(k) PROVE IsAuthenticated(k)
  <2>1. ASSUME NEW c \in Senders, Command(c, k), stage'[c] = "lookup" PROVE IsAuthenticated(k)
    BY <1>2, <2>1 DEF Command, BeginCommand, Reply, To, LinkInv, LinkTypeOK
  <2>2. ASSUME NEW r \in Refreshes, BeginRefresh(r, k), rpc'[r] = "refresh"
        PROVE  IsAuthenticated(k)
    BY <2>2 DEF BeginRefresh
  <2> QED
    BY <1>2, <2>1, <2>2 DEF PassesWith
<1>3. AuthInv /\ LinkInv => \A k \in Credentials : PassesWith(k) => Live(k)
  BY <1>1, <1>2
<1>4. DashboardInit => LinkInv
  BY LinkStarts DEF DashboardInit
<1> QED
  BY <1>3, <1>4, AuthStarts, AuthKeeps, DashboardKeepsLink, PTL DEF DashboardSpec, OnlyLiveLogins
==============================================================================
