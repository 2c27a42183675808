------------------------------ MODULE MCWsTunnel ------------------------------
(* Instances of WsTunnel for TLC. *)
EXTENDS WsTunnel

CONSTANT t1

\* A tunnel whose agent stays with one connection and reads what it is sent, and a
\* tunnel whose agent may reconnect, take binary frames or lose frames with its
\* first connection but sends no frame itself, are checked in one run.
Scenario == \/ latest <= 1 /\ deaf = {} /\ ~h[t1].binary
            \/ /\ emitted[t1] = 0 /\ browser[t1] # "stuck"
               /\ \A i \in DOMAIN agentCh[t1] : agentCh[t1][i].kind # "bad"
               /\ deaf = {} \/ (deaf = {1} /\ ~h[t1].binary)

ScenarioSpec == Init /\ [][Next /\ Scenario']_vars /\ Fairness
===============================================================================
