---------------------------- MODULE MCProxyHTTP ----------------------------
(* Instances of ProxyHTTP for TLC. *)
EXTENDS ProxyHTTP

CONSTANTS r1, r2, r3

\* Three situations are checked in one run: r1, which uploads and streams, shares a
\* connection with r2, which is buffered; r1 alone has its connection replaced; and
\* so has r3 alone, which goes to the agent in one message, so that its response may
\* begin between the failed first write and the second.  The browser of r3 stays,
\* and its agent is at most one message ahead of the reader.
Alone == /\ \A r \in Requests \ {r3} : pc[r] = "idle"
         /\ r3 \notin gone
         /\ \A s \in Sessions : Len(wire[s]) <= 1

Scenario == /\ latest <= 1 \/ pc[r2] = "idle"
            /\ pc[r3] = "idle" \/ Alone

ScenarioSpec == Init /\ [][Next /\ Scenario']_vars /\ Fairness
============================================================================
