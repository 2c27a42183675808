----------------------------- MODULE MCDashboard -----------------------------
(* Instances of Dashboard for TLC. *)
EXTENDS Dashboard, TLC

CONSTANTS e1, e2, e3, c1, r1

\* A launcher of before the negotiation, one that declares commands, and a
\* plugin that declares other capabilities only.
AgentProfiles == {NewSession,
                  [type |-> "launcher", has |-> TRUE, caps |-> {"command"}],
                  [type |-> "dsh-plugin", has |-> TRUE, caps |-> {"proxy.http"}]}

\* Enrollment and commands share the login sessions and the restarts, and no
\* other state: a behaviour of this run has calls of enroll or an agent that
\* connects, beside the logins, the refreshes and the restarts.
Scenario == connected = 0 \/ \A e \in Calls : pc[e] = "idle"

ScenarioSpec == DashboardInit /\ [][DashboardNext /\ Scenario']_dashboardVars

CallSymmetry == Permutations(Calls)
==============================================================================
