------------------------------ MODULE AgentLink ------------------------------
(***************************************************************************)
(* internal/api/server.go: commands to an agent that reconnects.           *)
(* adminCommand looks the session up, asks supportsCapability, and calls   *)
(* writeAgentJSONPriority, which repeats the write once on the agent's     *)
(* current session when the first one fails.  Meanwhile the agent connects *)
(* again, declares its capabilities, loses its connection or is revoked.   *)
(*                                                                         *)
(* One write (writeAgentBytesPriority) is a frame of FrameDelivery, the    *)
(* contract OutboundScheduler implements: after an error other than "queue *)
(* is full" the frame may be on the wire, or get there later.  The agent's *)
(* sessions are those of SessionTable, which AgentRegistry implements.     *)
(***************************************************************************)
EXTENDS Naturals

CONSTANTS Senders,   \* the calls of adminCommand
          Profiles,  \* what an agent may say of itself: type, has, caps
          MaxLinks   \* bound: how many times the agent connects

ASSUME MaxLinksAssumption == MaxLinks \in Nat \ {0}

\* The contract of an agent that declares nothing.
Legacy == {"command", "proxy.http", "proxy.websocket"}

Links == 1 .. MaxLinks
Attempts == Senders \X {1, 2}    \* the write, and its repetition

VARIABLES
  current,     \* the agent's entry in s.sessions (0: none)
  connected,   \* how many times the agent has connected
  up,          \* the connections that are up
  meta,        \* agentType, hasCapabilities and capabilities of each session
  stage,       \* where each call is
  chosen,      \* the session it looked up
  over,        \* the session each write goes to (0: not written)
  onWire,      \* the frames that were sent
  result,      \* what writeAgentBytesPriority has returned
  reply        \* what the call has answered

F == INSTANCE FrameDelivery WITH Frames <- Attempts, delivered <- onWire, told <- result

\* The agent can always connect, and may have been deleted at any time.
Table == INSTANCE SessionTable WITH Calls <- {0}, admitted <- {0}, deleted <- TRUE

sessionState == <<current, connected, up, meta>>
linkVars == <<sessionState, stage, chosen, over, onWire, result, reply>>

Replies == {"none", "unauthorized", "offline", "unsupported", "accepted", "failed", "cut"}

LinkTypeOK ==
  /\ current \in 0 .. MaxLinks
  /\ connected \in 0 .. MaxLinks
  /\ up \in SUBSET Links
  /\ DOMAIN meta = Links
  /\ stage \in [Senders -> {"idle", "lookup", "check", "first", "again", "second", "done"}]
  /\ chosen \in [Senders -> 0 .. MaxLinks]
  /\ over \in [Attempts -> 0 .. MaxLinks]
  /\ onWire \in SUBSET Attempts
  /\ result \in [Attempts -> F!Answers \cup {"none"}]
  /\ reply \in [Senders -> Replies]

\* agentConnect makes a session with agentType "launcher" and nothing declared.
NewSession == [type |-> "launcher", has |-> FALSE, caps |-> {}]

LinkInit ==
  /\ current = 0
  /\ connected = 0
  /\ up = {}
  /\ meta = [s \in Links |-> NewSession]
  /\ stage = [c \in Senders |-> "idle"]
  /\ chosen = [c \in Senders |-> 0]
  /\ over = [f \in Attempts |-> 0]
  /\ F!Init
  /\ reply = [c \in Senders |-> "none"]

-----------------------------------------------------------------------------
(* The calls *)

Supports(s, capability) ==
  IF meta[s].has THEN capability \in meta[s].caps
                 ELSE meta[s].type # "dsh-plugin" /\ capability \in Legacy

To(c, p) == stage' = [stage EXCEPT ![c] = p]

Reply(c, r) == /\ To(c, "done")
               /\ reply' = [reply EXCEPT ![c] = r]

\* authorizeAdmin, whose verdict comes from the module that composes this one,
\* and the decoding of the request.
BeginCommand(c, authorized) ==
  /\ stage[c] = "idle"
  /\ IF authorized THEN To(c, "lookup") /\ UNCHANGED reply ELSE Reply(c, "unauthorized")
  /\ UNCHANGED <<sessionState, chosen, over, onWire, result>>

\* session := s.sessions[agentID]
Lookup(c) ==
  /\ stage[c] = "lookup"
  /\ IF current = 0 THEN Reply(c, "offline") /\ UNCHANGED chosen
     ELSE /\ chosen' = [chosen EXCEPT ![c] = current]
          /\ To(c, "check")
          /\ UNCHANGED reply
  /\ UNCHANGED <<sessionState, over, onWire, result>>

\* supportsCapability, and the first writeAgentBytesPriority.
Check(c) ==
  /\ stage[c] = "check"
  /\ IF Supports(chosen[c], "command")
     THEN /\ over' = [over EXCEPT ![<<c, 1>>] = chosen[c]]
          /\ To(c, "first")
          /\ UNCHANGED reply
     ELSE Reply(c, "unsupported") /\ UNCHANGED over
  /\ UNCHANGED <<sessionState, chosen, onWire, result>>

\* The first write returns.
FirstReturns(c, a) ==
  /\ stage[c] = "first"
  /\ F!Answer(<<c, 1>>, a)
  /\ IF a = "sent" THEN Reply(c, "accepted") ELSE To(c, "again") /\ UNCHANGED reply
  /\ UNCHANGED <<sessionState, chosen, over>>

\* Mutant: the write is repeated on whatever session there is.
MayRetryAnywhere(c) == c \in Senders /\ current # 0

MayRetry(c) == current # 0 /\ current # chosen[c]

\* The second lookup, and the repetition on a session that is another one.
Retry(c) ==
  /\ stage[c] = "again"
  /\ IF MayRetry(c)
     THEN /\ over' = [over EXCEPT ![<<c, 2>>] = current]
          /\ To(c, "second")
          /\ UNCHANGED reply
     ELSE Reply(c, "failed") /\ UNCHANGED over
  /\ UNCHANGED <<sessionState, chosen, onWire, result>>

\* Mutant: the error of the repetition is dropped.
AfterRetryIgnored(a) == IF a = "sent" THEN "accepted" ELSE "accepted"

AfterRetry(a) == IF a = "sent" THEN "accepted" ELSE "failed"

SecondReturns(c, a) ==
  /\ stage[c] = "second"
  /\ F!Answer(<<c, 2>>, a)
  /\ Reply(c, AfterRetry(a))
  /\ UNCHANGED <<sessionState, chosen, over>>

\* The run goroutine of a session's scheduler sends a frame that was handed to
\* it, whether or not the caller is still waiting.
SendFrame(f) ==
  /\ over[f] \in up
  /\ F!Deliver(f)
  /\ UNCHANGED <<sessionState, stage, chosen, over, reply>>

-----------------------------------------------------------------------------
(* The agent's connections *)

callState == <<stage, chosen, over, onWire, result, reply>>

\* agentConnect
Connect ==
  /\ connected < MaxLinks
  /\ Table!Connect(0)
  /\ UNCHANGED <<meta, callState>>

\* updateSessionMetadata: a register or heartbeat read from connection s
\* describes the session that is current, which may be another one.
Declare(s, profile) ==
  /\ s \in up
  /\ current # 0
  /\ meta' = [meta EXCEPT ![current] = profile]
  /\ UNCHANGED <<current, connected, up, callState>>

\* A connection breaks or is closed.
Drop(s) == Table!Drop(s) /\ UNCHANGED <<meta, callState>>

\* The cleanup of agentConnect.
Forget(s) == Table!Forget(s) /\ UNCHANGED <<meta, callState>>

\* revokeAgent takes the session out; its connection is closed later.
Revoke == Table!Revoke /\ UNCHANGED <<meta, callState>>

SenderStep(c) ==
  \/ Lookup(c) \/ Check(c) \/ Retry(c)
  \/ \E a \in F!Answers : FirstReturns(c, a) \/ SecondReturns(c, a)

ConnectionStep ==
  \/ Connect
  \/ \E s \in Links : Drop(s) \/ Forget(s) \/ \E p \in Profiles : Declare(s, p)
  \/ Revoke

LinkNext ==
  \/ \E c \in Senders : SenderStep(c) \/ \E ok \in BOOLEAN : BeginCommand(c, ok)
  \/ \E f \in Attempts : SendFrame(f)
  \/ ConnectionStep

LinkSpec == LinkInit /\ [][LinkNext]_linkVars

-----------------------------------------------------------------------------
(* Properties *)

\* A command that was answered with 202 has been put on a connection of the
\* agent, also when it took the retry.
AcceptedWasSent ==
  \A c \in Senders : reply[c] = "accepted" => \E n \in {1, 2} : <<c, n>> \in onWire

\* The retry follows an ambiguous error, so the agent may be given one command
\* twice; but never over one connection, never after a write that returned nil
\* or was refused, and over the newer connection second.
TwiceOnlyAcrossReconnect ==
  \A c \in Senders : {<<c, 1>>, <<c, 2>>} \subseteq onWire =>
    /\ over[<<c, 1>>] < over[<<c, 2>>]
    /\ result[<<c, 1>>] = "unknown"
==============================================================================
