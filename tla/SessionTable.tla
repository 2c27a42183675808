----------------------------- MODULE SessionTable -----------------------------
(***************************************************************************)
(* What the code that looks a session up in s.sessions may rely on, for    *)
(* one agent: the life of its entry and of its connections, without        *)
(* handlers, messages or the database.  Sessions are numbered in the order *)
(* in which they were registered.                                          *)
(*                                                                         *)
(* An entry is replaced by a newer session only, and is taken out when its *)
(* own connection has ended, after the agent was deleted, or with the      *)
(* whole process.  A deleted agent is admitted no more: the connections    *)
(* that were authenticated before can still register, no others.           *)
(*                                                                         *)
(* AgentRegistry implements this; ProxyHTTP, WsTunnel and AgentLink take   *)
(* their sessions from it.                                                 *)
(***************************************************************************)
EXTENDS Naturals

CONSTANT Calls         \* the calls of agentConnect for the agent

VARIABLES current,     \* the agent's entry in s.sessions (0: none)
          connected,   \* how many sessions have been registered
          up,          \* the sessions whose connection is up
          admitted,    \* the calls that are authenticated and not registered yet
          deleted      \* the agent is no longer in the database

vars == <<current, connected, up, admitted, deleted>>

Init == /\ current = 0
        /\ connected = 0
        /\ up = {}
        /\ admitted = {}
        /\ deleted = FALSE

\* Written as equations, so that a client may put constants for the variables.
KeepsAgent == admitted' = admitted /\ deleted' = deleted

Admit(c) == /\ ~deleted
            /\ admitted' = admitted \cup {c}
            /\ UNCHANGED <<current, connected, up, deleted>>

\* The call ends before it has registered.
Abandon(c) == /\ admitted' = admitted \ {c}
              /\ UNCHANGED <<current, connected, up, deleted>>

\* The new session takes the entry, whoever had it.  A client that does not
\* follow the calls has one that is always admitted.
Connect(c) == /\ c \in admitted
              /\ admitted' \in {admitted, admitted \ {c}}
              /\ connected' = connected + 1
              /\ current' = connected + 1
              /\ up' = up \cup {connected + 1}
              /\ deleted' = deleted

\* A connection breaks or is closed.
Drop(s) == /\ s \in up
           /\ up' = up \ {s}
           /\ UNCHANGED <<current, connected>> /\ KeepsAgent

\* The cleanup of a session takes out its own entry, after its connection.
Forget(s) == /\ s # 0 /\ current = s
             /\ s \notin up
             /\ current' = 0
             /\ UNCHANGED <<connected, up>> /\ KeepsAgent

Delete == /\ deleted' = TRUE
          /\ UNCHANGED <<current, connected, up, admitted>>

\* The entry of a deleted agent is taken out while its connection is still up.
Revoke == /\ deleted
          /\ current # 0
          /\ current' = 0
          /\ UNCHANGED <<connected, up>> /\ KeepsAgent

\* The process ends, and another one begins.
Restart == /\ current' = 0
           /\ up' = {}
           /\ admitted' = {}
           /\ UNCHANGED <<connected, deleted>>

Next == \/ \E c \in Calls : Admit(c) \/ Abandon(c) \/ Connect(c)
        \/ \E s \in 1 .. connected : Drop(s) \/ Forget(s)
        \/ Delete \/ Revoke \/ Restart

Spec == Init /\ [][Next]_vars
===============================================================================
