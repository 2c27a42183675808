---------------------------- MODULE WsTunnelProofs ----------------------------
(***************************************************************************)
(* Proofs about WsTunnel, for any number of tunnels, sessions and frames   *)
(* and any channel capacity.                                               *)
(*                                                                         *)
(* WsInv is the inductive invariant.  The frames of a tunnel are in        *)
(* several places at once: UpOK places every frame of the browser (the     *)
(* reader goroutine, the frames channel, the handler's hand, the agent, or *)
(* gone down with a connection; by LossOK nothing else gets through over   *)
(* that one), DownOK every frame of the agent (the tunnel's channel, the   *)
(* handler's hand, the browser, or dropped), and the order properties      *)
(* follow because these places are in the order of the frames.  StatsOK    *)
(* compares the counters with how many handlers are in each phase.         *)
(***************************************************************************)
EXTENDS WsTunnel, FiniteSetTheorems, SequenceTheorems, TLAPS

-----------------------------------------------------------------------------
(* The invariant *)

\* An accepted tunnel has a session.
SessOK(t) == h[t].pc \notin {"idle", "refused"} => h[t].sess # 0

\* The handler has not begun to relay.
Fresh(t) == h[t].pc \in {"idle", "refused", "register", "open", "reopen", "wait"}

\* No message has been sent for the tunnel yet.
Unasked(t) == h[t].pc \in {"idle", "refused", "register"}

\* The handler may still relay a frame to the browser, or to the agent.
Running(t) == h[t].pc \notin {"unwind", "closed", "end"}

\* The browser frames the reader goroutine has handed over, and of those the ones
\* the handler has taken.
HandedOver(t) == IF rd[t].pc = "put" THEN rd[t].item - 1 ELSE rd[t].item
HoldsFrame(t) == frames[t] \notin {NoFrame, Close}
TakenOver(t) == IF HoldsFrame(t) THEN HandedOver(t) - 1 ELSE HandedOver(t)

\* The agent has received frame n, or it went down with a connection.
Received(t, n) == \E i \in 1 .. Len(inbox[t]) : inbox[t][i] = n
SentUpTo(t, n) == \A m \in 1 .. n : m \in unread[t] \/ Received(t, m)

\* The agent has received nothing after frame n; and frame n only as the last.
NothingAfter(t, n) == \A i \in 1 .. Len(inbox[t]) : inbox[t][i] <= n
OnlyLast(t, n) == \A i \in 1 .. Len(inbox[t]) : i < Len(inbox[t]) => inbox[t][i] < n

InOrder(t) ==
  \A i \in 1 .. Len(inbox[t]) :
    /\ \A j \in 1 .. i - 1 : /\ inbox[t][j] <= inbox[t][i]
                             /\ j < i - 1 => inbox[t][j] < inbox[t][i]
    /\ \A n \in 1 .. inbox[t][i] - 1 :
         \/ \E j \in 1 .. i - 1 : inbox[t][j] = n
         \/ n \in unread[t] /\ h[t].sess < latest

\* From the browser to the agent: what was sent to it, what the handler is
\* relaying, what is in the frames channel and what the goroutine has read follow
\* one another.
UpOK(t) ==
  /\ InOrder(t)
  /\ Fresh(t) => /\ rd[t].pc = "off" /\ rd[t].item = 0 /\ frames[t] = NoFrame
                 /\ inbox[t] = <<>> /\ unread[t] = {}
  /\ t \in ctx => ~Running(t)
  /\ rd[t].pc = "put" => rd[t].item # 0
  /\ Running(t) =>
       /\ HoldsFrame(t) => frames[t] = HandedOver(t)
       /\ h[t].pc \in {"relay", "rerelay"} => h[t].item \in 0 .. BrowserFrames
       /\ h[t].pc \notin {"relay", "rerelay"} =>
            SentUpTo(t, TakenOver(t)) /\ NothingAfter(t, TakenOver(t))
       /\ Relays(t) => /\ h[t].item = TakenOver(t)
                       /\ SentUpTo(t, h[t].item - 1)
                       /\ NothingAfter(t, h[t].item) /\ OnlyLast(t, h[t].item)
                       /\ h[t].pc = "relay" => NothingAfter(t, h[t].item - 1)

\* What was lost went down with a connection that the agent reads no more; so if a
\* frame of the tunnel is lost, no later one gets through but over a newer session.
LossOK(t) ==
  /\ h[t].sess <= latest
  /\ registered \in {0, latest}
  /\ unread[t] # {} => h[t].sess < latest \/ h[t].sess \in deaf

\* Message i of the tunnel's channel is frame n of the agent.
Queued(t, i, n) == i \in 1 .. Len(agentCh[t]) /\ agentCh[t][i].kind = "frame" /\ agentCh[t][i].n = n

\* The browser has been given frame n.
Shown(t, n) == \E i \in 1 .. Len(out[t]) : out[t][i] = n

OutOrder(t) ==
  \A i \in 1 .. Len(out[t]) :
    /\ i > 1 => out[t][i - 1] < out[t][i]
    /\ \A n \in 1 .. out[t][i] : n \in lost[t] \/ \E j \in 1 .. i : out[t][j] = n

\* The handler is writing frame n to the browser.
InHand(t, n) == h[t].pc = "write" /\ h[t].item = n

\* From the agent to the browser: what the browser has been given, what is being
\* written to it and what is in the channel follow one another, and every frame
\* of the agent is in one of these places or was counted as dropped.
DownOK(t) ==
  /\ OutOrder(t)
  /\ Unasked(t) => emitted[t] = 0 /\ \A s \in Sessions : agent[t][s] = "none"
  /\ Fresh(t) => out[t] = <<>>
  /\ \A m \in Nat : Shown(t, m) => m <= emitted[t]
  /\ Running(t) =>
       /\ h[t].pc = "write" => h[t].item \in 1 .. emitted[t]
       /\ \A i, n \in Nat : Queued(t, i, n) =>
            /\ n \in 1 .. emitted[t]
            /\ h[t].pc = "write" => h[t].item < n
            /\ \A m \in Nat : Shown(t, m) => m < n
            /\ \A j, m \in Nat : Queued(t, j, m) /\ j < i => m < n
       /\ h[t].pc = "write" => \A m \in Nat : Shown(t, m) => m < h[t].item
       /\ \A n \in 1 .. emitted[t] :
            n \in lost[t] \/ Shown(t, n) \/ InHand(t, n) \/ \E i \in Nat : Queued(t, i, n)

\* Tunnels that relay have been acknowledged and have counted no heartbeat.
Relaying(t) == h[t].pc \in {"loop", "write", "relay", "rerelay"}

StatsOK ==
  /\ stats["sent"] = stats["acked"] + stats["failed"] + Cardinality({t \in Tunnels : Opening(t)})
  /\ stats["closed"] = Cardinality({t \in Tunnels : Ended(t)})
  /\ stats["heartbeat"] + Cardinality({t \in Tunnels : Relaying(t)}) <= stats["acked"]

WsInv == /\ TypeOK /\ TunnelsExact /\ StatsOK
         /\ \A t \in Tunnels : SessOK(t) /\ LossOK(t) /\ UpOK(t) /\ DownOK(t)

-----------------------------------------------------------------------------
(* What the writes to the agent do *)

HandlerRecords == [pc : HandlerStates, sess : 0 .. MaxSessions, binary : BOOLEAN, item : Nat]

\* Numbers of sessions and frames.
LEMMA WsFacts ==
  /\ 0 \in 0 .. MaxSessions /\ \A s \in 0 .. MaxSessions : s # 0 => s \in Sessions
  /\ \A s \in Sessions : s \in 0 .. MaxSessions
  /\ \A n \in 0 .. MaxSessions : n < MaxSessions => n + 1 \in Sessions /\ n + 1 \in 0 .. MaxSessions
  /\ NoFrame \in 0 .. NoFrame /\ Close \in 0 .. NoFrame /\ 0 \in 0 .. BrowserFrames
  /\ \A n \in 0 .. BrowserFrames : n \in 0 .. NoFrame /\ n # NoFrame /\ n \in Nat
  /\ \A n \in 0 .. NoFrame : n \notin {NoFrame, Close} => n \in 1 .. BrowserFrames
  /\ 0 \in 0 .. AgentFrames /\ Close = 0 /\ NoFrame # Close
BY WsAssumption DEF Sessions, NoFrame, Close

\* The head and the rest of a queue.
LEMMA QueueHead ==
  ASSUME NEW S, NEW q \in Seq(S), q # <<>>
  PROVE  /\ Len(q) \in Nat \ {0} /\ Head(q) = q[1] /\ Head(q) \in S
         /\ Tail(q) \in Seq(S) /\ Len(Tail(q)) = Len(q) - 1
         /\ \A i \in 1 .. Len(q) - 1 : Tail(q)[i] = q[i + 1]
<1>1. Len(q) \in Nat \ {0}
  BY EmptySeq
<1>2. Head(q) = q[1]
  BY <1>1
<1>3. /\ Tail(q) \in Seq(S) /\ Len(Tail(q)) = Len(q) - 1 /\ Head(q) \in S
      /\ \A i \in 1 .. Len(q) - 1 : Tail(q)[i] = q[i + 1]
  BY HeadTailProperties
<1> QED
  BY <1>1, <1>2, <1>3

\* A step of the handler of t that goes to p.
LEMMA GotoMoves ==
  ASSUME h \in [Tunnels -> HandlerRecords], NEW t \in Tunnels, NEW p \in HandlerStates, NEW n \in Nat,
         h' = [h EXCEPT ![t].pc = p, ![t].item = n]
  PROVE  /\ h' \in [Tunnels -> HandlerRecords]
         /\ h'[t].pc = p /\ h'[t].item = n /\ h'[t].sess = h[t].sess
         /\ \A u \in Tunnels : u # t => h'[u] = h[u]
BY DEF HandlerRecords

\* What a write does to a frame of the browser: it is relayed, to an agent that
\* has read all earlier ones or has connected again ...
Arrives(t) ==
  /\ Relays(t)
  /\ inbox' = [inbox EXCEPT ![t] = Append(@, h[t].item)]
  /\ UNCHANGED unread
  /\ unread[t] = {} \/ h[t].sess < latest

\* ... or goes down with a connection, or has failed.
Misses(t) ==
  /\ Relays(t)
  /\ unread' = [unread EXCEPT ![t] = @ \cup {h[t].item}]
  /\ UNCHANGED inbox
  /\ h[t].sess < latest \/ h[t].sess \in deaf'

Fruitless == UNCHANGED <<inbox, unread>>

\* The message being written reaches the agent.
LEMMA ReceivesEffect ==
  ASSUME TypeOK, NEW t \in Tunnels, NEW s \in Sessions, Receives(t, s)
  PROVE  /\ agent' \in [Tunnels -> [Sessions -> {"none", "asked", "open", "closed"}]]
         /\ \A u \in Tunnels : u # t => agent'[u] = agent[u] /\ inbox'[u] = inbox[u]
         /\ \/ inbox' = inbox /\ ~Relays(t)
            \/ Relays(t) /\ inbox' = [inbox EXCEPT ![t] = Append(@, h[t].item)]
         /\ s \notin deaf /\ UNCHANGED <<deaf, unread>>
<1>0. /\ agent \in [Tunnels -> [Sessions -> {"none", "asked", "open", "closed"}]]
      /\ inbox \in [Tunnels -> Seq(1 .. BrowserFrames)]
  BY DEF TypeOK
<1>a. s \notin deaf /\ UNCHANGED <<deaf, unread>>
  BY DEF Receives
<1>1. ASSUME NEW v \in {"asked", "closed"}, agent' = [agent EXCEPT ![t][s] = v]
      PROVE  /\ agent' \in [Tunnels -> [Sessions -> {"none", "asked", "open", "closed"}]]
             /\ \A u \in Tunnels : u # t => agent'[u] = agent[u]
  BY <1>0, <1>1
<1>2. CASE h[t].pc \in {"open", "reopen"}
  <2>1. agent' = [agent EXCEPT ![t][s] = "asked"] /\ UNCHANGED inbox
    BY <1>2 DEF Receives, Relays
  <2> QED
    BY <1>a, <1>1, <1>2, <2>1 DEF Relays
<1>3. CASE Relays(t)
  <2>1. inbox' = [inbox EXCEPT ![t] = Append(@, h[t].item)] /\ UNCHANGED agent
    BY <1>3 DEF Receives, Relays
  <2> QED
    BY <1>0, <1>a, <1>3, <2>1
<1>4. CASE h[t].pc \notin {"open", "reopen"} /\ ~Relays(t)
  <2>1. agent' = [agent EXCEPT ![t][s] = "closed"] /\ UNCHANGED inbox
    BY <1>4 DEF Receives, Relays
  <2> QED
    BY <1>1, <1>a, <1>4, <2>1
<1> QED
  BY <1>2, <1>3, <1>4 DEF Relays

\* One try of a write, to the session of the tunnel or to a newer one.
LEMMA WriteEffect ==
  ASSUME TypeOK, NEW t \in Tunnels, LossOK(t), NEW s \in Sessions, NEW ok \in BOOLEAN,
         s = h[t].sess \/ h[t].sess < latest, Write(t, s, ok)
  PROVE  /\ agent' \in [Tunnels -> [Sessions -> {"none", "asked", "open", "closed"}]]
         /\ link' \in SUBSET Sessions /\ deaf' \in SUBSET Sessions /\ deaf \subseteq deaf'
         /\ \A u \in Tunnels : u # t => /\ agent'[u] = agent[u] /\ inbox'[u] = inbox[u]
                                        /\ unread'[u] = unread[u]
         /\ \/ Fruitless /\ (ok => ~Relays(t))
            \/ Arrives(t)
            \/ ok /\ Misses(t)
<1>0. /\ link \in SUBSET Sessions /\ deaf \in SUBSET Sessions
      /\ inbox \in [Tunnels -> Seq(1 .. BrowserFrames)]
      /\ unread \in [Tunnels -> SUBSET (1 .. BrowserFrames)]
      /\ agent \in [Tunnels -> [Sessions -> {"none", "asked", "open", "closed"}]]
  BY DEF TypeOK
<1>1. CASE Receives(t, s) /\ link' \in {link, link \ {s}}
  <2>1. unread[t] = {} \/ h[t].sess < latest
    BY <1>1 DEF Receives, LossOK
  <2> QED
    BY <1>0, <1>1, <2>1, ReceivesEffect DEF Arrives, Fruitless
<1>2. CASE ok /\ Loses(t, s) /\ UNCHANGED link
  <2>1. ~Relays(t) => UNCHANGED unread
    BY <1>0, <1>2 DEF Loses
  <2>2. Relays(t) => Misses(t)
    BY <1>2 DEF Loses, Misses
  <2> QED
    BY <1>0, <1>2, <2>1, <2>2 DEF Loses, Fruitless
<1>3. CASE ~ok /\ link' \in {link, link \ {s}} /\ UNCHANGED <<agent, inbox, deaf, unread>>
  BY <1>0, <1>3 DEF Fruitless
<1> QED
  BY <1>1, <1>2, <1>3 DEF Write

\* Where a write leads.
Writing(t) == h[t].pc \in {"open", "reopen", "relay", "rerelay", "closing", "reclosing"}

Moved(t, p) == h'[t].pc = p /\ h'[t].item = Close /\ h'[t].sess = h[t].sess

\* The outcomes of a write, with what they count.
WriteEnds(t) ==
  \/ h[t].pc \in {"open", "reopen"} /\ Moved(t, "wait") /\ UNCHANGED stats /\ Fruitless
  \/ h[t].pc \in {"open", "reopen"} /\ Moved(t, "unwind") /\ Count("failed") /\ Fruitless
  \/ h[t].pc = "open" /\ h'[t].pc = "reopen" /\ h'[t].sess = h[t].sess /\ UNCHANGED stats /\ Fruitless
  \/ Relays(t) /\ Moved(t, "loop") /\ UNCHANGED stats /\ (Arrives(t) \/ Misses(t))
  \/ /\ h[t].pc = "relay" /\ h'[t].pc = "rerelay" /\ h'[t].item = h[t].item /\ h'[t].sess = h[t].sess
     /\ UNCHANGED stats /\ (Fruitless \/ Arrives(t))
  \/ /\ h[t].pc \in {"relay", "rerelay"} /\ Moved(t, "unwind") /\ UNCHANGED stats
     /\ Fruitless \/ Arrives(t)
  \/ /\ h[t].pc \in {"closing", "reclosing"} /\ UNCHANGED stats /\ Fruitless
     /\ h'[t].pc \in {"reclosing", "unwind"} /\ h'[t].sess = h[t].sess

\* Both writes.
LEMMA WritesEnd ==
  ASSUME TypeOK, NEW t \in Tunnels, SessOK(t), LossOK(t), FirstWrite(t) \/ SecondWrite(t)
  PROVE  /\ WriteEnds(t) /\ UNCHANGED writeUnchanged
         /\ h' \in [Tunnels -> HandlerRecords] /\ link' \in SUBSET Sessions
         /\ deaf' \in SUBSET Sessions /\ deaf \subseteq deaf'
         /\ agent' \in [Tunnels -> [Sessions -> {"none", "asked", "open", "closed"}]]
         /\ \A u \in Tunnels : u # t => /\ h'[u] = h[u] /\ agent'[u] = agent[u]
                                        /\ inbox'[u] = inbox[u] /\ unread'[u] = unread[u]
<1>0. h \in [Tunnels -> HandlerRecords] /\ Close \in Nat
  BY DEF TypeOK, HandlerRecords, Close
<1>1. ASSUME NEW p \in HandlerStates, Goto(t, p)
      PROVE  h' \in [Tunnels -> HandlerRecords] /\ Moved(t, p) /\ \A u \in Tunnels : u # t => h'[u] = h[u]
  BY <1>0, <1>1 DEF Goto, Moved, HandlerRecords
<1>2. ASSUME Succeeds(t), Writing(t)
      PROVE  /\ h' \in [Tunnels -> HandlerRecords] /\ UNCHANGED stats
             /\ \A u \in Tunnels : u # t => h'[u] = h[u]
             /\ \/ h[t].pc \in {"open", "reopen"} /\ Moved(t, "wait")
                \/ Relays(t) /\ Moved(t, "loop")
                \/ h[t].pc \in {"relay", "rerelay"} /\ ~Relays(t) /\ Moved(t, "unwind")
                \/ h[t].pc \in {"closing", "reclosing"} /\ Moved(t, "unwind")
  <2>1. \/ h[t].pc \in {"open", "reopen"} /\ Goto(t, "wait")
        \/ Relays(t) /\ Goto(t, "loop")
        \/ h[t].pc \in {"relay", "rerelay"} /\ ~Relays(t) /\ Goto(t, "unwind")
        \/ h[t].pc \in {"closing", "reclosing"} /\ Goto(t, "unwind")
    BY <1>2 DEF Succeeds, Sent, Writing, Relays
  <2> QED
    BY <1>1, <1>2, <2>1 DEF Succeeds, HandlerStates
<1>3. ASSUME Fails(t)
      PROVE  /\ h' \in [Tunnels -> HandlerRecords] /\ Moved(t, "unwind")
             /\ \A u \in Tunnels : u # t => h'[u] = h[u]
             /\ IF h[t].pc \in {"open", "reopen"} THEN Count("failed") ELSE UNCHANGED stats
  BY <1>1, <1>3 DEF Fails, AfterError, HandlerStates
<1>4. ASSUME h[t].pc \in {"open", "relay", "closing"}, h' = [h EXCEPT ![t].pc = Again(@)]
      PROVE  /\ h' \in [Tunnels -> HandlerRecords] /\ h'[t].item = h[t].item /\ h'[t].sess = h[t].sess
             /\ h'[t].pc = (CASE h[t].pc = "open" -> "reopen" [] h[t].pc = "relay" -> "rerelay"
                              [] OTHER -> "reclosing")
             /\ \A u \in Tunnels : u # t => h'[u] = h[u]
  BY <1>0, <1>4 DEF Again, HandlerRecords, HandlerStates
<1>5. CASE FirstWrite(t)
  <2>1. h[t].sess \in Sessions /\ Writing(t) /\ UNCHANGED writeUnchanged
    BY <1>5, WsFacts DEF FirstWrite, Writing, SessOK, TypeOK
  <2>2. PICK ok \in BOOLEAN :
          /\ Write(t, h[t].sess, ok)
          /\ IF ok THEN Succeeds(t)
             ELSE IF h[t].pc = "relay" /\ h[t].binary /\ h[t].item # Close THEN Fails(t)
             ELSE h' = [h EXCEPT ![t].pc = Again(@)] /\ UNCHANGED stats
    BY <1>5 DEF FirstWrite
  <2>3. CASE ok
    BY <1>2, <2>1, <2>2, <2>3, WriteEffect DEF WriteEnds, Moved, Relays, Arrives, Misses
  <2>4. CASE ~ok /\ Fails(t) /\ h[t].pc = "relay"
    BY <1>3, <2>1, <2>2, <2>4, WriteEffect DEF WriteEnds, Moved, Relays, Arrives
  <2>5. CASE ~ok /\ h' = [h EXCEPT ![t].pc = Again(@)] /\ UNCHANGED stats
    <3>1. h[t].pc \in {"open", "relay", "closing"}
      BY <1>5 DEF FirstWrite
    <3> QED
      BY <1>4, <2>1, <2>2, <2>5, <3>1, WriteEffect DEF WriteEnds, Relays, Arrives
  <2> QED
    BY <2>2, <2>3, <2>4, <2>5
<1>6. CASE SecondWrite(t)
  <2>1. h[t].pc \in {"reopen", "rerelay", "reclosing"} /\ Writing(t) /\ UNCHANGED writeUnchanged
    BY <1>6 DEF SecondWrite, Writing
  <2>2. CASE Fails(t) /\ UNCHANGED <<agent, inbox, deaf, unread, link>>
    BY <1>3, <2>1, <2>2 DEF WriteEnds, Moved, Fruitless, TypeOK
  <2>3. ASSUME registered \notin {0, h[t].sess}, NEW ok \in BOOLEAN, Write(t, registered, ok),
               IF ok THEN Succeeds(t) ELSE Fails(t)
        PROVE  /\ WriteEnds(t)
               /\ h' \in [Tunnels -> HandlerRecords] /\ link' \in SUBSET Sessions
               /\ deaf' \in SUBSET Sessions /\ deaf \subseteq deaf'
               /\ agent' \in [Tunnels -> [Sessions -> {"none", "asked", "open", "closed"}]]
               /\ \A u \in Tunnels : u # t => /\ h'[u] = h[u] /\ agent'[u] = agent[u]
                                              /\ inbox'[u] = inbox[u] /\ unread'[u] = unread[u]
    <3>1. registered \in Sessions
      BY <2>3, WsFacts DEF TypeOK
    <3>0. h[t].sess < latest
      <4>1. h[t].sess \in Nat /\ latest \in Nat
        BY WsAssumption DEF TypeOK
      <4> QED
        BY <2>3, <4>1 DEF LossOK
    <3>2. CASE ok
      BY <1>2, <2>1, <2>3, <3>0, <3>1, <3>2, WriteEffect DEF WriteEnds, Moved, Relays, Arrives, Misses
    <3>3. CASE ~ok
      BY <1>3, <2>1, <2>3, <3>0, <3>1, <3>3, WriteEffect DEF WriteEnds, Moved, Relays, Arrives
    <3> QED
      BY <3>2, <3>3
  <2> QED
    BY <1>6, <2>1, <2>2, <2>3 DEF SecondWrite
<1> QED
  BY <1>5, <1>6

-----------------------------------------------------------------------------
(* Types *)

\* The handler of t goes to p, done with what it was writing.
LEMMA GotoStep ==
  ASSUME TypeOK, NEW t \in Tunnels, NEW p \in HandlerStates, Goto(t, p)
  PROVE  h' \in [Tunnels -> HandlerRecords] /\ Moved(t, p) /\ \A u \in Tunnels : u # t => h'[u] = h[u]
<1>1. h \in [Tunnels -> HandlerRecords] /\ Close \in Nat
  BY DEF TypeOK, HandlerRecords, Close
<1> QED
  BY <1>1 DEF Goto, Moved, HandlerRecords

\* Counting.
LEMMA CountStep ==
  ASSUME TypeOK, NEW k \in {"sent", "acked", "failed", "heartbeat", "closed"}, Count(k)
  PROVE  /\ stats' \in [{"sent", "acked", "failed", "heartbeat", "closed"} -> Nat]
         /\ stats'[k] = stats[k] + 1
         /\ \A j \in {"sent", "acked", "failed", "heartbeat", "closed"} : j # k => stats'[j] = stats[j]
BY DEF TypeOK, Count

\* What is relayed is a frame of the browser.
LEMMA RelaysFrame ==
  ASSUME NEW t \in Tunnels, UpOK(t), Relays(t) PROVE h[t].item \in 1 .. BrowserFrames
<1>1. h[t].item \in 0 .. BrowserFrames /\ h[t].item # 0
  BY DEF UpOK, Relays, Running, Close
<1> QED
  BY <1>1, WsAssumption

\* What a frame that is relayed adds to the agent's inbox.
LEMMA InboxGrows ==
  ASSUME TypeOK, NEW t \in Tunnels, UpOK(t), Relays(t),
         inbox' = [inbox EXCEPT ![t] = Append(@, h[t].item)]
  PROVE  /\ h[t].item \in 1 .. BrowserFrames
         /\ inbox' \in [Tunnels -> Seq(1 .. BrowserFrames)]
         /\ inbox'[t] # <<>> /\ Len(inbox'[t]) = Len(inbox[t]) + 1 /\ Len(inbox[t]) \in Nat
         /\ inbox'[t][Len(inbox[t]) + 1] = h[t].item
         /\ \A i \in 1 .. Len(inbox[t]) : inbox'[t][i] = inbox[t][i]
<1>1. h[t].item \in 1 .. BrowserFrames
  BY RelaysFrame
<1>2. inbox[t] \in Seq(1 .. BrowserFrames) /\ inbox'[t] = Append(inbox[t], h[t].item)
  BY DEF TypeOK
<1>3. Append(inbox[t], h[t].item) \in Seq(1 .. BrowserFrames)
  BY <1>1, <1>2, AppendProperties
<1>4. inbox' \in [Tunnels -> Seq(1 .. BrowserFrames)]
  BY <1>3 DEF TypeOK
<1>5. Len(inbox[t]) \in Nat
  BY <1>2, LenProperties
<1>6. PICK q, e : q = inbox[t] /\ e = h[t].item
  OBVIOUS
<1>7. q \in Seq(1 .. BrowserFrames) /\ e \in 1 .. BrowserFrames /\ inbox'[t] = Append(q, e)
  BY <1>1, <1>2, <1>6
<1>8. /\ Append(q, e) # <<>> /\ Len(Append(q, e)) = Len(q) + 1
      /\ Append(q, e)[Len(q) + 1] = e
      /\ \A i \in 1 .. Len(q) : Append(q, e)[i] = q[i]
  BY <1>7, AppendProperties
<1> QED
  BY <1>1, <1>4, <1>5, <1>6, <1>7, <1>8, Zenon

\* Both writes keep the types.
LEMMA WriteTypes ==
  ASSUME TypeOK, NEW t \in Tunnels, SessOK(t), LossOK(t), UpOK(t), FirstWrite(t) \/ SecondWrite(t)
  PROVE  TypeOK'
<1>1. /\ WriteEnds(t) /\ UNCHANGED writeUnchanged
      /\ h' \in [Tunnels -> HandlerRecords] /\ link' \in SUBSET Sessions /\ deaf' \in SUBSET Sessions
      /\ agent' \in [Tunnels -> [Sessions -> {"none", "asked", "open", "closed"}]]
  BY WritesEnd
<1>2. Fruitless \/ Arrives(t) \/ Misses(t)
  BY <1>1 DEF WriteEnds
<1>3. inbox' \in [Tunnels -> Seq(1 .. BrowserFrames)]
  BY <1>2, InboxGrows DEF TypeOK, Fruitless, Arrives, Misses
<1>4. unread' \in [Tunnels -> SUBSET (1 .. BrowserFrames)]
  <2>1. CASE Misses(t)
    <3>1. unread[t] \cup {h[t].item} \in SUBSET (1 .. BrowserFrames)
      BY <2>1, RelaysFrame DEF TypeOK, Misses
    <3> QED
      BY <2>1, <3>1 DEF TypeOK, Misses
  <2> QED
    BY <1>2, <2>1 DEF TypeOK, Fruitless, Arrives
<1>5. stats' = stats \/ Count("failed")
  BY <1>1 DEF WriteEnds
<1>6. stats' \in [{"sent", "acked", "failed", "heartbeat", "closed"} -> Nat]
  BY <1>5, CountStep DEF TypeOK
<1> QED
  BY <1>1, <1>3, <1>4, <1>6 DEF TypeOK, HandlerRecords, writeUnchanged

\* The messages of a tunnel's channel.
TunnelMessages == [kind : Kinds, n : 0 .. AgentFrames]

\* Taking the first message of a tunnel's channel.
LEMMA TakesFirst ==
  ASSUME TypeOK, NEW t \in Tunnels, agentCh[t] # <<>>, agentCh' = [agentCh EXCEPT ![t] = Tail(@)]
  PROVE  /\ agentCh[t] \in Seq(TunnelMessages) /\ Head(agentCh[t]) = agentCh[t][1]
         /\ Head(agentCh[t]) \in TunnelMessages /\ Len(agentCh[t]) \in Nat \ {0}
         /\ agentCh' \in [Tunnels -> Seq(TunnelMessages)]
         /\ \A u \in Tunnels : Len(agentCh'[u]) <= TunnelQueue
         /\ Len(agentCh'[t]) = Len(agentCh[t]) - 1
         /\ \A i \in 1 .. Len(agentCh[t]) - 1 : agentCh'[t][i] = agentCh[t][i + 1]
         /\ \A u \in Tunnels : u # t => agentCh'[u] = agentCh[u]
<1>1. agentCh \in [Tunnels -> Seq(TunnelMessages)] /\ agentCh[t] \in Seq(TunnelMessages)
  BY DEF TypeOK, TunnelMessages
<1>2. /\ Len(agentCh[t]) \in Nat \ {0} /\ Head(agentCh[t]) = agentCh[t][1]
      /\ Head(agentCh[t]) \in TunnelMessages
      /\ Tail(agentCh[t]) \in Seq(TunnelMessages) /\ Len(Tail(agentCh[t])) = Len(agentCh[t]) - 1
      /\ \A i \in 1 .. Len(agentCh[t]) - 1 : Tail(agentCh[t])[i] = agentCh[t][i + 1]
  BY <1>1, QueueHead
<1>3. /\ agentCh'[t] = Tail(agentCh[t]) /\ \A u \in Tunnels : u # t => agentCh'[u] = agentCh[u]
  BY <1>1
<1>4. agentCh' \in [Tunnels -> Seq(TunnelMessages)]
  BY <1>1, <1>2
<1>5. ASSUME NEW u \in Tunnels PROVE Len(agentCh'[u]) <= TunnelQueue
  <2>1. Len(agentCh[u]) <= TunnelQueue
    BY DEF TypeOK
  <2>2. CASE u = t
    <3>1. Len(agentCh'[u]) = Len(agentCh[u]) - 1 /\ Len(agentCh[u]) \in Nat
      BY <1>2, <1>3, <2>2
    <3>2. \A x, y \in Nat : x <= y => x - 1 <= y
      OBVIOUS
    <3> QED
      BY <2>1, <3>1, <3>2, WsAssumption
  <2>3. CASE u # t
    BY <1>3, <2>1, <2>3
  <2> QED
    BY <2>2, <2>3
<1> QED
  BY <1>1, <1>2, <1>3, <1>4, <1>5, Zenon

\* The handler's other steps keep the types.
LEMMA HandlerTypes ==
  ASSUME TypeOK, NEW t \in Tunnels, DownOK(t),
         \/ Refuse(t) \/ AcceptBrowser(t) \/ \E b \in BOOLEAN : RegisterTunnel(t, b)
         \/ TakeResult(t) \/ OpenTimeout(t) \/ TakeAgentMessage(t) \/ WriteBrowser(t)
         \/ TakeBrowserFrame(t) \/ TakeHeartbeatError(t) \/ Unwind(t) \/ CloseTunnel(t)
  PROVE  TypeOK'
<1>1. CASE Refuse(t)
  <2>1. h' \in [Tunnels -> HandlerRecords]
    BY <1>1, GotoStep DEF Refuse, HandlerStates
  <2> QED
    BY <1>1, <2>1 DEF Refuse, TypeOK, HandlerRecords, TunnelMessages, handlerUnchanged, sessions, far
<1>2. CASE AcceptBrowser(t) \/ \E b \in BOOLEAN : RegisterTunnel(t, b)
  <2>0. h \in [Tunnels -> HandlerRecords] /\ registered \in 0 .. MaxSessions
    BY DEF TypeOK, HandlerRecords
  <2>1. h' \in [Tunnels -> HandlerRecords]
    <3>0. "register" \in HandlerStates /\ "open" \in HandlerStates
      BY DEF HandlerStates
    <3>1. CASE h' = [h EXCEPT ![t].pc = "register", ![t].sess = registered]
      BY <2>0, <3>0, <3>1 DEF HandlerRecords
    <3>2. ASSUME NEW b \in BOOLEAN, h' = [h EXCEPT ![t].pc = "open", ![t].binary = b]
          PROVE  h' \in [Tunnels -> HandlerRecords]
      BY <2>0, <3>0, <3>2 DEF HandlerRecords
    <3> QED
      BY <1>2, <3>1, <3>2 DEF AcceptBrowser, RegisterTunnel
  <2>2. stats' \in [{"sent", "acked", "failed", "heartbeat", "closed"} -> Nat]
    BY <1>2, CountStep DEF AcceptBrowser, RegisterTunnel, TypeOK, HandlerRecords, TunnelMessages
  <2> QED
    BY <1>2, <2>1, <2>2 DEF AcceptBrowser, RegisterTunnel, TypeOK, HandlerRecords, TunnelMessages,
       handlerUnchanged, sessions, far
<1>3. CASE TakeResult(t)
  <2>1. agentCh' \in [Tunnels -> Seq(TunnelMessages)] /\ \A u \in Tunnels : Len(agentCh'[u]) <= TunnelQueue
    BY <1>3, TakesFirst DEF TakeResult
  <2>2. /\ \E p \in {"loop", "unwind"} : Goto(t, p)
        /\ \E k \in {"acked", "failed"} : Count(k)
        /\ UNCHANGED rd \/ rd' = [rd EXCEPT ![t].pc = "read"]
        /\ UNCHANGED hb \/ hb' = [hb EXCEPT ![t] = "tick"]
    BY <1>3 DEF TakeResult
  <2>3. /\ h' \in [Tunnels -> HandlerRecords]
        /\ stats' \in [{"sent", "acked", "failed", "heartbeat", "closed"} -> Nat]
    <3>1. PICK p \in {"loop", "unwind"} : Goto(t, p)
      BY <2>2
    <3>2. p \in HandlerStates
      BY DEF HandlerStates
    <3>3. h' \in [Tunnels -> HandlerRecords]
      BY <3>1, <3>2, GotoStep
    <3>4. PICK k \in {"acked", "failed"} : Count(k)
      BY <2>2
    <3>5. stats' \in [{"sent", "acked", "failed", "heartbeat", "closed"} -> Nat]
      BY <3>4, CountStep
    <3> QED
      BY <3>3, <3>5
  <2>4. /\ rd' \in [Tunnels -> [pc : {"off", "read", "put", "putClose", "exit"}, item : 0 .. BrowserFrames]]
        /\ hb' \in [Tunnels -> {"off", "tick", "ping", "exit"}]
    <3>0. /\ rd \in [Tunnels -> [pc : {"off", "read", "put", "putClose", "exit"}, item : 0 .. BrowserFrames]]
          /\ hb \in [Tunnels -> {"off", "tick", "ping", "exit"}]
      BY DEF TypeOK
    <3>1. rd' \in [Tunnels -> [pc : {"off", "read", "put", "putClose", "exit"}, item : 0 .. BrowserFrames]]
      BY <2>2, <3>0
    <3>2. hb' \in [Tunnels -> {"off", "tick", "ping", "exit"}]
      BY <2>2, <3>0
    <3> QED
      BY <3>1, <3>2
  <2> QED
    BY <1>3, <2>1, <2>3, <2>4 DEF TakeResult, TypeOK, HandlerRecords, TunnelMessages, handlerUnchanged,
       sessions, far
<1>4. CASE OpenTimeout(t)
  <2>1. h' \in [Tunnels -> HandlerRecords] /\ stats' \in [{"sent", "acked", "failed", "heartbeat", "closed"} -> Nat]
    BY <1>4, GotoStep, CountStep DEF OpenTimeout, CountTimeout, HandlerStates
  <2> QED
    BY <1>4, <2>1 DEF OpenTimeout, TypeOK, HandlerRecords, TunnelMessages, handlerUnchanged, sessions, far
<1>5. CASE TakeAgentMessage(t)
  <2>1. /\ agentCh' \in [Tunnels -> Seq(TunnelMessages)] /\ \A u \in Tunnels : Len(agentCh'[u]) <= TunnelQueue
        /\ Head(agentCh[t]) \in TunnelMessages
    BY <1>5, TakesFirst DEF TakeAgentMessage
  <2>2. Head(agentCh[t]).n \in Nat /\ AfterMessage(Head(agentCh[t]).kind) \in HandlerStates
    BY <2>1, WsAssumption DEF AfterMessage, HandlerStates, TunnelMessages
  <2>3. h' \in [Tunnels -> HandlerRecords]
    BY <1>5, <2>2, GotoMoves DEF TakeAgentMessage, TypeOK, HandlerRecords, TunnelMessages
  <2> QED
    BY <1>5, <2>1, <2>3 DEF TakeAgentMessage, TypeOK, HandlerRecords, TunnelMessages, handlerUnchanged,
       sessions, far
<1>6. CASE WriteBrowser(t)
  <2>1. h' \in [Tunnels -> HandlerRecords]
    BY <1>6, GotoStep DEF WriteBrowser, HandlerStates
  <2>2. h[t].item \in 1 .. AgentFrames
    <3>1. h[t].item \in 1 .. emitted[t] /\ emitted[t] \in 0 .. AgentFrames
      BY <1>6 DEF WriteBrowser, DownOK, Running, TypeOK, HandlerRecords, TunnelMessages
    <3> QED
      BY <3>1, WsAssumption
  <2>3. out[t] \in Seq(1 .. AgentFrames)
    BY DEF TypeOK
  <2>4. Append(out[t], h[t].item) \in Seq(1 .. AgentFrames)
    BY <2>2, <2>3, AppendProperties
  <2>5. out' \in [Tunnels -> Seq(1 .. AgentFrames)]
    BY <1>6, <2>4 DEF WriteBrowser, TypeOK, HandlerRecords, TunnelMessages
  <2> QED
    BY <1>6, <2>1, <2>5 DEF WriteBrowser, TypeOK, HandlerRecords, TunnelMessages, handlerUnchanged,
       sessions, far
<1>7. CASE TakeBrowserFrame(t)
  <2>1. frames[t] \in Nat
    BY WsAssumption DEF TypeOK, NoFrame
  <2>2. h' \in [Tunnels -> HandlerRecords]
    BY <1>7, <2>1, GotoMoves DEF TakeBrowserFrame, TypeOK, HandlerRecords, TunnelMessages, HandlerStates
  <2>3. frames' \in [Tunnels -> 0 .. NoFrame]
    BY <1>7, WsFacts DEF TakeBrowserFrame, TypeOK, HandlerRecords, TunnelMessages
  <2> QED
    BY <1>7, <2>2, <2>3 DEF TakeBrowserFrame, TypeOK, HandlerRecords, TunnelMessages, handlerUnchanged,
       sessions, far
<1>8. CASE TakeHeartbeatError(t)
  <2>1. h' \in [Tunnels -> HandlerRecords] /\ stats' \in [{"sent", "acked", "failed", "heartbeat", "closed"} -> Nat]
    <3>1. Goto(t, "closing") /\ Count("heartbeat")
      BY <1>8 DEF TakeHeartbeatError, Goto
    <3>2. h' \in [Tunnels -> HandlerRecords]
      BY <3>1, GotoStep DEF HandlerStates
    <3>3. stats' \in [{"sent", "acked", "failed", "heartbeat", "closed"} -> Nat]
      BY <3>1, CountStep
    <3> QED
      BY <3>2, <3>3
  <2> QED
    BY <1>8, <2>1 DEF TakeHeartbeatError, TypeOK, HandlerRecords, TunnelMessages, handlerUnchanged,
       sessions, far
<1>9. CASE Unwind(t)
  <2>1. h' \in [Tunnels -> HandlerRecords]
    BY <1>9, GotoStep DEF Unwind, HandlerStates
  <2>2. <<>> \in Seq(TunnelMessages) /\ Len(<<>>) = 0
    BY EmptySeq
  <2>3. agentCh' \in [Tunnels -> Seq(TunnelMessages)] /\ \A u \in Tunnels : Len(agentCh'[u]) <= TunnelQueue
    <3>1. /\ agentCh \in [Tunnels -> Seq(TunnelMessages)] /\ \A u \in Tunnels : Len(agentCh[u]) <= TunnelQueue
          /\ agentCh' = [agentCh EXCEPT ![t] = <<>>]
      BY <1>9 DEF Unwind, TypeOK, TunnelMessages
    <3>2. agentCh' \in [Tunnels -> Seq(TunnelMessages)]
      BY <2>2, <3>1
    <3>3. \A u \in Tunnels : Len(agentCh'[u]) <= TunnelQueue
      BY <2>2, <3>1, WsAssumption
    <3> QED
      BY <3>2, <3>3
  <2> QED
    BY <1>9, <2>1, <2>3 DEF Unwind, TunnelsAfter, TypeOK, HandlerRecords, TunnelMessages,
       handlerUnchanged, sessions, far
<1>10. CASE CloseTunnel(t)
  <2>1. h' \in [Tunnels -> HandlerRecords] /\ stats' \in [{"sent", "acked", "failed", "heartbeat", "closed"} -> Nat]
    BY <1>10, GotoStep, CountStep DEF CloseTunnel, HandlerStates
  <2> QED
    BY <1>10, <2>1 DEF CloseTunnel, TypeOK, HandlerRecords, TunnelMessages, sessions, far
<1> QED
  BY <1>1, <1>2, <1>3, <1>4, <1>5, <1>6, <1>7, <1>8, <1>9, <1>10

\* The goroutines keep the types.
LEMMA GoroutineTypes ==
  ASSUME TypeOK, NEW t \in Tunnels, ReaderGoroutine(t) \/ HeartbeatGoroutine(t) PROVE TypeOK'
<1>0. UNCHANGED goUnchanged
  BY DEF ReaderGoroutine, HeartbeatGoroutine, ReadBrowser, SendFrame, HeartbeatTick, PingReturns
<1>1. rd' \in [Tunnels -> [pc : {"off", "read", "put", "putClose", "exit"}, item : 0 .. BrowserFrames]]
  <2>0. /\ rd \in [Tunnels -> [pc : {"off", "read", "put", "putClose", "exit"}, item : 0 .. BrowserFrames]]
        /\ rd[t].item \in 0 .. BrowserFrames
    BY DEF TypeOK
  <2>1. CASE rd' = rd
    BY <2>0, <2>1
  <2>2. CASE rd[t].item < BrowserFrames /\ rd' = [rd EXCEPT ![t].pc = "put", ![t].item = @ + 1]
    <3>1. rd[t].item + 1 \in 0 .. BrowserFrames
      BY <2>0, <2>2, WsAssumption
    <3> QED
      BY <2>0, <2>2, <3>1
  <2>3. CASE \E p \in {"putClose", "read", "exit"} : rd' = [rd EXCEPT ![t].pc = p]
    BY <2>0, <2>3
  <2> QED
    BY <2>1, <2>2, <2>3
       DEF ReaderGoroutine, HeartbeatGoroutine, ReadBrowser, SendFrame, HeartbeatTick, PingReturns
<1>2. frames' \in [Tunnels -> 0 .. NoFrame]
  <2>1. CASE SendFrame(t)
    <3>1. rd[t].item \in 0 .. NoFrame /\ Close \in 0 .. NoFrame
      BY WsFacts DEF TypeOK
    <3> QED
      BY <2>1, <3>1 DEF SendFrame, TypeOK
  <2> QED
    BY <2>1 DEF ReaderGoroutine, HeartbeatGoroutine, ReadBrowser, HeartbeatTick, PingReturns, TypeOK
<1>3. /\ hb' \in [Tunnels -> {"off", "tick", "ping", "exit"}] /\ hbErr' \in SUBSET Tunnels
      /\ browser' \in [Tunnels -> {"up", "stuck", "gone"}]
  BY DEF ReaderGoroutine, HeartbeatGoroutine, ReadBrowser, SendFrame, HeartbeatTick, PingReturns, TypeOK
<1> QED
  BY <1>0, <1>1, <1>2, <1>3 DEF goUnchanged, sessions, far, TypeOK

\* A message of the agent finds room in the tunnel's channel, or is dropped and, when it is
\* a frame of a tunnel that is registered, recorded.
LEMMA AgentSaysEffect ==
  ASSUME TypeOK, NEW t \in Tunnels, NEW s \in Sessions, NEW kind \in Kinds, AgentSays(t, s, kind)
  PROVE  \E m \in TunnelMessages :
           /\ m.kind = kind /\ m.n = IF kind = "frame" THEN emitted[t] + 1 ELSE 0
           /\ emitted' \in [Tunnels -> 0 .. AgentFrames]
           /\ emitted'[t] = IF kind = "frame" THEN emitted[t] + 1 ELSE emitted[t]
           /\ \A u \in Tunnels : u # t => emitted'[u] = emitted[u]
           /\ \/ /\ Len(agentCh[t]) < TunnelQueue /\ lost' = lost
                 /\ agentCh' = [agentCh EXCEPT ![t] = Append(@, m)]
              \/ agentCh' = agentCh /\ ~(kind = "frame" /\ t \in tunnels) /\ lost' = lost
              \/ /\ agentCh' = agentCh /\ kind = "frame" /\ t \in tunnels
                 /\ lost' = [lost EXCEPT ![t] = @ \cup {m.n}]
<1>0. emitted \in [Tunnels -> 0 .. AgentFrames] /\ lost \in [Tunnels -> SUBSET (1 .. AgentFrames)]
  BY DEF TypeOK
<1>1. /\ emitted' = [emitted EXCEPT ![t] = IF kind = "frame" THEN @ + 1 ELSE @] /\ emitted'[t] <= AgentFrames
      /\ Dispatch(t, [kind |-> kind, n |-> IF kind = "frame" THEN emitted'[t] ELSE Close])
  BY DEF AgentSays
<1>2. emitted'[t] = IF kind = "frame" THEN emitted[t] + 1 ELSE emitted[t]
  BY <1>0, <1>1
<1>3. emitted'[t] \in 0 .. AgentFrames
  BY <1>0, <1>1, <1>2, WsAssumption
<1>4. /\ emitted' \in [Tunnels -> 0 .. AgentFrames]
      /\ \A u \in Tunnels : u # t => emitted'[u] = emitted[u]
  BY <1>0, <1>1, <1>3
<1> DEFINE m == [kind |-> kind, n |-> IF kind = "frame" THEN emitted[t] + 1 ELSE 0]
<1>5. m = [kind |-> kind, n |-> IF kind = "frame" THEN emitted'[t] ELSE Close]
  BY <1>2 DEF Close
<1>6. m \in TunnelMessages
  BY <1>2, <1>3, WsFacts DEF TunnelMessages
<1>7. Dispatch(t, m)
  BY <1>1, <1>5
<1>8. m.kind = kind /\ m.n = IF kind = "frame" THEN emitted[t] + 1 ELSE 0
  OBVIOUS
<1> HIDE DEF m
<1>9. lost' = [lost EXCEPT ![t] = @] => lost' = lost
  BY <1>0
<1>10. \/ /\ Len(agentCh[t]) < TunnelQueue /\ lost' = lost
          /\ agentCh' = [agentCh EXCEPT ![t] = Append(@, m)]
       \/ agentCh' = agentCh /\ ~(kind = "frame" /\ t \in tunnels) /\ lost' = lost
       \/ /\ agentCh' = agentCh /\ kind = "frame" /\ t \in tunnels
          /\ lost' = [lost EXCEPT ![t] = @ \cup {m.n}]
  BY <1>7, <1>8, <1>9 DEF Dispatch
<1> QED
  BY <1>2, <1>4, <1>6, <1>8, <1>10

\* A message that is appended to the channel.
LEMMA ChannelGrows ==
  ASSUME TypeOK, NEW t \in Tunnels, NEW m \in TunnelMessages, Len(agentCh[t]) < TunnelQueue,
         agentCh' = [agentCh EXCEPT ![t] = Append(@, m)]
  PROVE  /\ agentCh' \in [Tunnels -> Seq(TunnelMessages)]
         /\ \A u \in Tunnels : Len(agentCh'[u]) <= TunnelQueue
         /\ Len(agentCh[t]) \in Nat /\ Len(agentCh'[t]) = Len(agentCh[t]) + 1
         /\ agentCh'[t][Len(agentCh[t]) + 1] = m
         /\ \A i \in 1 .. Len(agentCh[t]) : agentCh'[t][i] = agentCh[t][i]
         /\ \A u \in Tunnels : u # t => agentCh'[u] = agentCh[u]
<1>1. agentCh \in [Tunnels -> Seq(TunnelMessages)] /\ agentCh[t] \in Seq(TunnelMessages)
  BY DEF TypeOK, TunnelMessages
<1>2. /\ Append(agentCh[t], m) \in Seq(TunnelMessages) /\ Len(agentCh[t]) \in Nat
      /\ Len(Append(agentCh[t], m)) = Len(agentCh[t]) + 1
      /\ Append(agentCh[t], m)[Len(agentCh[t]) + 1] = m
      /\ \A i \in 1 .. Len(agentCh[t]) : Append(agentCh[t], m)[i] = agentCh[t][i]
  BY <1>1, AppendProperties, LenProperties
<1>3. agentCh'[t] = Append(agentCh[t], m) /\ \A u \in Tunnels : u # t => agentCh'[u] = agentCh[u]
  BY <1>1
<1>4. agentCh' \in [Tunnels -> Seq(TunnelMessages)]
  BY <1>1, <1>2
<1>5. \A x, y \in Nat : x < y => x + 1 <= y
  OBVIOUS
<1>6. ASSUME NEW u \in Tunnels PROVE Len(agentCh'[u]) <= TunnelQueue
  <2>1. CASE u = t
    <3>1. Len(agentCh'[u]) = Len(agentCh[t]) + 1
      BY <1>2, <1>3, <2>1
    <3>2. Len(agentCh[t]) + 1 <= TunnelQueue
      BY <1>2, <1>5, WsAssumption
    <3> QED
      BY <3>1, <3>2, Zenon
  <2>2. CASE u # t
    BY <1>3, <2>2 DEF TypeOK
  <2> QED
    BY <2>1, <2>2
<1> QED
  BY <1>2, <1>3, <1>4, <1>6, Zenon

\* The steps of the agent, its connections and the browsers keep the types.
LEMMA OutsideTypes ==
  ASSUME TypeOK,
         \/ \E t \in Tunnels, s \in Sessions, kind \in Kinds : AgentSays(t, s, kind)
         \/ \E t \in Tunnels, b \in {"up", "stuck", "gone"} : BrowserTurns(t, b)
         \/ AgentConnects \/ Revoke \/ \E s \in Sessions : LinkDown(s) \/ Unregister(s)
  PROVE  TypeOK'
<1>1. ASSUME NEW t \in Tunnels, NEW s \in Sessions, NEW kind \in Kinds, AgentSays(t, s, kind) PROVE TypeOK'
  <2>1. PICK m \in TunnelMessages :
           /\ m.kind = kind /\ m.n = IF kind = "frame" THEN emitted[t] + 1 ELSE 0
           /\ emitted' \in [Tunnels -> 0 .. AgentFrames]
           /\ emitted'[t] = IF kind = "frame" THEN emitted[t] + 1 ELSE emitted[t]
           /\ \A u \in Tunnels : u # t => emitted'[u] = emitted[u]
           /\ \/ /\ Len(agentCh[t]) < TunnelQueue /\ lost' = lost
                 /\ agentCh' = [agentCh EXCEPT ![t] = Append(@, m)]
              \/ agentCh' = agentCh /\ ~(kind = "frame" /\ t \in tunnels) /\ lost' = lost
              \/ /\ agentCh' = agentCh /\ kind = "frame" /\ t \in tunnels
                 /\ lost' = [lost EXCEPT ![t] = @ \cup {m.n}]
    BY <1>1, AgentSaysEffect
  <2>2. agentCh' \in [Tunnels -> Seq(TunnelMessages)] /\ \A u \in Tunnels : Len(agentCh'[u]) <= TunnelQueue
    BY <2>1, ChannelGrows DEF TypeOK, TunnelMessages
  <2>3. kind = "frame" => m.n \in 1 .. AgentFrames
    <3>1. emitted[t] \in Nat /\ emitted'[t] \in 0 .. AgentFrames
      BY <2>1 DEF TypeOK
    <3>2. kind = "frame" => m.n = emitted[t] + 1 /\ m.n \in 0 .. AgentFrames
      BY <2>1, <3>1
    <3> QED
      BY <3>1, <3>2, WsAssumption
  <2>4. lost' \in [Tunnels -> SUBSET (1 .. AgentFrames)]
    <3>1. lost \in [Tunnels -> SUBSET (1 .. AgentFrames)]
      BY DEF TypeOK
    <3>2. ASSUME kind = "frame", lost' = [lost EXCEPT ![t] = @ \cup {m.n}]
          PROVE  lost' \in [Tunnels -> SUBSET (1 .. AgentFrames)]
      <4>1. lost[t] \cup {m.n} \in SUBSET (1 .. AgentFrames)
        BY <2>3, <3>1, <3>2
      <4> QED
        BY <3>1, <3>2, <4>1
    <3> QED
      BY <2>1, <3>1, <3>2
  <2>5. agent' \in [Tunnels -> [Sessions -> {"none", "asked", "open", "closed"}]]
    BY <1>1 DEF AgentSays, TypeOK
  <2> QED
    BY <1>1, <2>1, <2>2, <2>4, <2>5 DEF AgentSays, TypeOK, TunnelMessages, sessions
<1>2. ASSUME NEW t \in Tunnels, NEW b \in {"up", "stuck", "gone"}, BrowserTurns(t, b) PROVE TypeOK'
  BY <1>2 DEF BrowserTurns, TypeOK, mgr, sessions, far
<1>3. CASE AgentConnects
  <2>1. latest + 1 \in Sessions /\ latest + 1 \in 0 .. MaxSessions
    BY <1>3, WsFacts DEF AgentConnects, Table!Connect, TypeOK
  <2> QED
    BY <1>3, <2>1 DEF AgentConnects, Table!Connect, TypeOK, mgr, far
<1>4. ASSUME NEW s \in Sessions, LinkDown(s) \/ Unregister(s) PROVE TypeOK'
  BY <1>4, WsFacts DEF LinkDown, Unregister, Table!Drop, Table!Forget, TypeOK, mgr, far
<1>5. CASE Revoke
  BY <1>5, WsFacts DEF Revoke, Table!Revoke, TypeOK, mgr, far
<1> QED
  BY <1>1, <1>2, <1>3, <1>4, <1>5

\* The invariant's first part, after any step.
LEMMA StepTypes == ASSUME WsInv, [Next]_vars PROVE TypeOK'
<1>1. TypeOK /\ \A t \in Tunnels : SessOK(t) /\ LossOK(t) /\ UpOK(t) /\ DownOK(t)
  BY DEF WsInv
<1>2. CASE UNCHANGED vars
  BY <1>1, <1>2 DEF vars, mgr, sessions, far, TypeOK
<1>3. CASE Next
  BY <1>1, <1>3, WriteTypes, HandlerTypes, GoroutineTypes, OutsideTypes DEF Next, Handler
<1> QED
  BY <1>2, <1>3

-----------------------------------------------------------------------------
(* Which parts of a tunnel a step leaves alone *)

UpSame(u) == /\ rd'[u] = rd[u] /\ frames'[u] = frames[u]
             /\ inbox'[u] = inbox[u] /\ unread'[u] = unread[u]
             /\ u \in ctx' => u \in ctx
             /\ h[u].sess < latest => h[u].sess < latest'

DownSame(u) == agentCh'[u] = agentCh[u] /\ out'[u] = out[u] /\ emitted'[u] = emitted[u] /\ lost'[u] = lost[u]

\* Nothing of u changes but what no property is about.
Untouched(u) == /\ h'[u] = h[u] /\ UpSame(u) /\ DownSame(u) /\ agent'[u] = agent[u]
                /\ u \in tunnels' <=> u \in tunnels

OtherSteps(t) ==
  \/ Refuse(t) \/ AcceptBrowser(t) \/ \E b \in BOOLEAN : RegisterTunnel(t, b)
  \/ TakeResult(t) \/ OpenTimeout(t) \/ TakeAgentMessage(t) \/ WriteBrowser(t)
  \/ TakeBrowserFrame(t) \/ TakeHeartbeatError(t) \/ Unwind(t) \/ CloseTunnel(t)

\* A handler's step concerns its own tunnel only.
LEMMA HandlerLocal ==
  ASSUME TypeOK, NEW t \in Tunnels, SessOK(t), LossOK(t), OtherSteps(t) \/ FirstWrite(t) \/ SecondWrite(t)
  PROVE  \A u \in Tunnels : u # t => Untouched(u)
<1> SUFFICES ASSUME NEW u \in Tunnels, u # t PROVE Untouched(u)
  OBVIOUS
<1>1. CASE FirstWrite(t) \/ SecondWrite(t)
  BY <1>1, WritesEnd DEF Untouched, UpSame, DownSame, writeUnchanged
<1>2. CASE OtherSteps(t)
  <2>1. h'[u] = h[u]
    <3>1. \/ \E p \in HandlerStates, n \in Nat : h' = [h EXCEPT ![t].pc = p, ![t].item = n]
          \/ \E p, s : h' = [h EXCEPT ![t].pc = p, ![t].sess = s]
          \/ \E p, b : h' = [h EXCEPT ![t].pc = p, ![t].binary = b]
          \/ \E p, n : h' = [h EXCEPT ![t].pc = p, ![t].item = n]
      BY <1>2 DEF OtherSteps, Refuse, AcceptBrowser, RegisterTunnel, TakeResult, OpenTimeout,
         TakeAgentMessage,
            WriteBrowser, TakeBrowserFrame, TakeHeartbeatError, Unwind, CloseTunnel, Goto
    <3>2. h \in [Tunnels -> HandlerRecords]
      BY DEF TypeOK, HandlerRecords
    <3> QED
      BY <3>1, <3>2 DEF HandlerRecords
  <2>2. UpSame(u)
    BY <1>2 DEF OtherSteps, Refuse, AcceptBrowser, RegisterTunnel, TakeResult, OpenTimeout,
       TakeAgentMessage,
            WriteBrowser, TakeBrowserFrame, TakeHeartbeatError, Unwind, CloseTunnel, UpSame,
            handlerUnchanged, sessions, far, TypeOK
  <2>3. DownSame(u) /\ agent'[u] = agent[u]
    BY <1>2 DEF OtherSteps, Refuse, AcceptBrowser, RegisterTunnel, TakeResult, OpenTimeout,
       TakeAgentMessage,
            WriteBrowser, TakeBrowserFrame, TakeHeartbeatError, Unwind, CloseTunnel, DownSame, handlerUnchanged, far, TypeOK
  <2>4. u \in tunnels' <=> u \in tunnels
    BY <1>2 DEF OtherSteps, Refuse, AcceptBrowser, RegisterTunnel, TakeResult, OpenTimeout,
       TakeAgentMessage,
            WriteBrowser, TakeBrowserFrame, TakeHeartbeatError, Unwind, CloseTunnel, TunnelsAfter
  <2> QED
    BY <2>1, <2>2, <2>3, <2>4 DEF Untouched
<1> QED
  BY <1>1, <1>2

\* The order of what the agent has received does not depend on the rest.
LEMMA OrderKept ==
  ASSUME NEW u \in Tunnels, InOrder(u), inbox'[u] = inbox[u], unread[u] \subseteq unread'[u],
         h[u].sess < latest => h'[u].sess < latest'
  PROVE  InOrder(u)'
<1> SUFFICES ASSUME NEW i \in 1 .. Len(inbox'[u])
             PROVE  /\ \A j \in 1 .. i - 1 : /\ inbox'[u][j] <= inbox'[u][i]
                                             /\ j < i - 1 => inbox'[u][j] < inbox'[u][i]
                    /\ \A n \in 1 .. inbox'[u][i] - 1 :
                         \/ \E j \in 1 .. i - 1 : inbox'[u][j] = n
                         \/ n \in unread'[u] /\ h'[u].sess < latest'
  BY DEF InOrder
<1>1. i \in 1 .. Len(inbox[u])
  OBVIOUS
<1>2. /\ \A j \in 1 .. i - 1 : /\ inbox[u][j] <= inbox[u][i]
                               /\ j < i - 1 => inbox[u][j] < inbox[u][i]
      /\ \A n \in 1 .. inbox[u][i] - 1 :
           \/ \E j \in 1 .. i - 1 : inbox[u][j] = n
           \/ n \in unread[u] /\ h[u].sess < latest
  BY <1>1 DEF InOrder
<1> QED
  BY <1>2

\* A step that leaves the browser's frames of a tunnel where they are.
LEMMA UpFrame ==
  ASSUME NEW u \in Tunnels, UpOK(u), h'[u] = h[u], UpSame(u) PROVE UpOK(u)'
<1>1. InOrder(u)'
  BY OrderKept DEF UpOK, UpSame
<1>2. \A n : /\ SentUpTo(u, n) => SentUpTo(u, n)'
             /\ NothingAfter(u, n) => NothingAfter(u, n)'
             /\ OnlyLast(u, n) => OnlyLast(u, n)'
  BY DEF UpSame, SentUpTo, Received, NothingAfter, OnlyLast
<1>3. /\ Running(u)' = Running(u) /\ Fresh(u)' = Fresh(u) /\ Relays(u)' = Relays(u)
      /\ HandedOver(u)' = HandedOver(u) /\ HoldsFrame(u)' = HoldsFrame(u) /\ TakenOver(u)' = TakenOver(u)
  BY DEF UpSame, Running, Fresh, Relays, HandedOver, HoldsFrame, TakenOver
<1> QED
  BY <1>1, <1>2, <1>3 DEF UpOK, UpSame, SentUpTo, Received, NothingAfter, OnlyLast

\* The handler goes on to a place where it holds no frame of the browser, or gives up.
LEMMA UpMoves ==
  ASSUME NEW u \in Tunnels, UpOK(u), Fresh(u)' => Fresh(u),
         rd'[u] = rd[u], frames'[u] = frames[u], inbox'[u] = inbox[u], unread'[u] = unread[u],
         inbox[u] = <<>> \/ (h'[u].sess = h[u].sess /\ latest' = latest),
         \/ ~Running(u)'
         \/ /\ u \in ctx' => u \in ctx
            /\ Running(u) /\ h[u].pc \notin {"relay", "rerelay"} /\ h'[u].pc \notin {"relay", "rerelay"}
  PROVE  UpOK(u)'
<1>1. InOrder(u)'
  <2>1. CASE inbox[u] = <<>>
    BY <2>1, EmptySeq DEF InOrder
  <2>2. CASE h'[u].sess = h[u].sess /\ latest' = latest
    BY <2>2, OrderKept DEF UpOK
  <2> QED
    BY <2>1, <2>2
<1>2. /\ HandedOver(u)' = HandedOver(u) /\ HoldsFrame(u)' = HoldsFrame(u) /\ TakenOver(u)' = TakenOver(u)
      /\ ~Running(u)' \/ ~Relays(u)'
  BY DEF Running, Relays, HandedOver, HoldsFrame, TakenOver
<1> QED
  BY <1>1, <1>2 DEF UpOK, Fresh, Running, SentUpTo, Received, NothingAfter

\* What the browser was given stays in order.
LEMMA OutKept ==
  ASSUME NEW u \in Tunnels, OutOrder(u), out'[u] = out[u], lost[u] \subseteq lost'[u] PROVE OutOrder(u)'
<1> SUFFICES ASSUME NEW i \in 1 .. Len(out'[u])
             PROVE  /\ i > 1 => out'[u][i - 1] < out'[u][i]
                    /\ \A n \in 1 .. out'[u][i] : n \in lost'[u] \/ \E j \in 1 .. i : out'[u][j] = n
  BY DEF OutOrder
<1>1. i \in 1 .. Len(out[u])
  OBVIOUS
<1>2. /\ i > 1 => out[u][i - 1] < out[u][i]
      /\ \A n \in 1 .. out[u][i] : n \in lost[u] \/ \E j \in 1 .. i : out[u][j] = n
  BY <1>1 DEF OutOrder
<1> QED
  BY <1>2

\* A step that leaves the agent's frames of a tunnel where they are.
LEMMA DownFrame ==
  ASSUME NEW u \in Tunnels, DownOK(u), h'[u] = h[u], DownSame(u), agent'[u] = agent[u] PROVE DownOK(u)'
<1>0. OutOrder(u) /\ out'[u] = out[u] /\ lost'[u] = lost[u]
  BY DEF DownOK, DownSame
<1>1. OutOrder(u)'
  BY <1>0, OutKept
<1>2. Unasked(u)' => emitted'[u] = 0 /\ \A s \in Sessions : agent'[u][s] = "none"
  BY DEF DownOK, DownSame, Unasked
<1>3. Fresh(u)' => out'[u] = <<>>
  BY DEF DownOK, DownSame, Fresh
<1>4. /\ \A n : Shown(u, n)' <=> Shown(u, n)
      /\ \A i, n : Queued(u, i, n)' <=> Queued(u, i, n)
      /\ \A n : InHand(u, n)' <=> InHand(u, n)
      /\ Running(u)' <=> Running(u)
  BY DEF DownSame, Shown, Queued, InHand, Running
<1> QED
  BY <1>1, <1>2, <1>3, <1>4 DEF DownOK, DownSame

\* The handler goes on to a place where it holds no frame of the agent, or gives up.
LEMMA DownMoves ==
  ASSUME NEW u \in Tunnels, DownOK(u), Fresh(u)' => Fresh(u),
         Unasked(u)' => Unasked(u) /\ agent'[u] = agent[u],
         out'[u] = out[u], emitted'[u] = emitted[u], lost'[u] = lost[u],
         \/ ~Running(u)'
         \/ agentCh'[u] = agentCh[u] /\ Running(u) /\ h[u].pc # "write" /\ h'[u].pc # "write"
  PROVE  DownOK(u)'
<1>0. OutOrder(u)
  BY DEF DownOK
<1>1. OutOrder(u)'
  BY <1>0, OutKept
<1>2. Unasked(u)' => emitted'[u] = 0 /\ \A s \in Sessions : agent'[u][s] = "none"
  BY DEF DownOK
<1>3. Fresh(u)' => out'[u] = <<>>
  BY DEF DownOK
<1>4. \A n : Shown(u, n)' <=> Shown(u, n)
  BY DEF Shown
<1>5. CASE ~Running(u)'
  BY <1>1, <1>2, <1>3, <1>4, <1>5 DEF DownOK
<1>6. CASE agentCh'[u] = agentCh[u] /\ Running(u) /\ h[u].pc # "write" /\ h'[u].pc # "write"
  <2>1. /\ \A i, n : Queued(u, i, n)' <=> Queued(u, i, n)
        /\ \A n : ~InHand(u, n)' /\ ~InHand(u, n)
    BY <1>6 DEF Queued, InHand
  <2> QED
    BY <1>1, <1>2, <1>3, <1>4, <1>6, <2>1 DEF DownOK
<1> QED
  BY <1>5, <1>6

-----------------------------------------------------------------------------
(* Where a handler goes: its session, its entry in tunnels, the counters *)

\* A step of the handler from one of P to q, with the session it has.
Goes(t, P, q) == h[t].pc \in P /\ h'[t].pc = q /\ h'[t].sess = h[t].sess

\* The steps that write nothing to the agent, with what they count and what they do to tunnels.
OtherEnds(t) ==
  \/ /\ UNCHANGED <<tunnels, stats>>
     /\ \/ Goes(t, {"idle"}, "refused")
        \/ h[t].pc = "idle" /\ h'[t].pc = "register" /\ h'[t].sess # 0
        \/ Goes(t, {"loop"}, "loop") \/ Goes(t, {"loop"}, "write") \/ Goes(t, {"loop"}, "unwind")
        \/ Goes(t, {"write"}, "loop") \/ Goes(t, {"write"}, "unwind")
        \/ Goes(t, {"loop"}, "relay")
  \/ Goes(t, {"register"}, "open") /\ Count("sent") /\ tunnels' = tunnels \cup {t}
  \/ Goes(t, {"wait"}, "loop") /\ Count("acked") /\ UNCHANGED tunnels
  \/ Goes(t, {"wait"}, "unwind") /\ Count("failed") /\ UNCHANGED tunnels
  \/ Goes(t, {"loop"}, "closing") /\ Count("heartbeat") /\ UNCHANGED tunnels
  \/ Goes(t, {"unwind"}, "closed") /\ tunnels' = tunnels \ {t} /\ UNCHANGED stats
  \/ Goes(t, {"closed"}, "end") /\ Count("closed") /\ UNCHANGED tunnels

\* They are these.
LEMMA HandlerGoes == ASSUME TypeOK, NEW t \in Tunnels, OtherSteps(t) PROVE OtherEnds(t)
<1>0. h \in [Tunnels -> HandlerRecords]
  BY DEF TypeOK, HandlerRecords
<1>1. ASSUME NEW p, Goto(t, p) PROVE h'[t].pc = p /\ h'[t].sess = h[t].sess
  BY <1>0, <1>1 DEF Goto, HandlerRecords
<1>2. ASSUME NEW p, NEW n, h' = [h EXCEPT ![t].pc = p, ![t].item = n]
      PROVE  h'[t].pc = p /\ h'[t].sess = h[t].sess
  BY <1>0, <1>2 DEF HandlerRecords
<1>3. CASE Refuse(t)
  BY <1>1, <1>3 DEF Refuse, OtherEnds, Goes
<1>4. CASE AcceptBrowser(t)
  <2>1. h'[t].pc = "register" /\ h'[t].sess = registered
    BY <1>0, <1>4 DEF AcceptBrowser, HandlerRecords
  <2> QED
    BY <1>4, <2>1 DEF AcceptBrowser, OtherEnds, Goes
<1>5. ASSUME NEW b \in BOOLEAN, RegisterTunnel(t, b) PROVE OtherEnds(t)
  <2>1. h'[t].pc = "open" /\ h'[t].sess = h[t].sess
    BY <1>0, <1>5 DEF RegisterTunnel, HandlerRecords
  <2> QED
    BY <1>5, <2>1 DEF RegisterTunnel, OtherEnds, Goes
<1>6. CASE TakeResult(t)
  BY <1>1, <1>6 DEF TakeResult, OtherEnds, Goes
<1>7. CASE OpenTimeout(t)
  BY <1>1, <1>7 DEF OpenTimeout, OpenTimer, CountTimeout, OtherEnds, Goes
<1>8. CASE TakeAgentMessage(t)
  <2>1. h'[t].pc = AfterMessage(Head(agentCh[t]).kind) /\ h'[t].sess = h[t].sess
    BY <1>2, <1>8 DEF TakeAgentMessage
  <2> QED
    BY <1>8, <2>1 DEF TakeAgentMessage, AfterMessage, OtherEnds, Goes
<1>9. CASE WriteBrowser(t)
  BY <1>1, <1>9 DEF WriteBrowser, OtherEnds, Goes
<1>10. CASE TakeBrowserFrame(t)
  BY <1>2, <1>10 DEF TakeBrowserFrame, OtherEnds, Goes
<1>11. CASE TakeHeartbeatError(t)
  BY <1>2, <1>11 DEF TakeHeartbeatError, OtherEnds, Goes
<1>12. CASE Unwind(t)
  BY <1>1, <1>12 DEF Unwind, TunnelsAfter, OtherEnds, Goes
<1>13. CASE CloseTunnel(t)
  BY <1>1, <1>13 DEF CloseTunnel, OtherEnds, Goes
<1> QED
  BY <1>3, <1>4, <1>5, <1>6, <1>7, <1>8, <1>9, <1>10, <1>11, <1>12, <1>13 DEF OtherSteps

\* The other processes leave the handlers, tunnels and the counters alone.
LEMMA OutsideHandlers ==
  ASSUME \/ \E t \in Tunnels : ReaderGoroutine(t) \/ HeartbeatGoroutine(t)
         \/ \E t \in Tunnels, s \in Sessions, kind \in Kinds : AgentSays(t, s, kind)
         \/ \E t \in Tunnels, b \in {"up", "stuck", "gone"} : BrowserTurns(t, b)
         \/ AgentConnects \/ Revoke \/ \E s \in Sessions : LinkDown(s) \/ Unregister(s)
         \/ UNCHANGED vars
  PROVE  UNCHANGED <<h, tunnels, stats>>
BY DEF ReaderGoroutine, HeartbeatGoroutine, ReadBrowser, SendFrame, HeartbeatTick, PingReturns,
       goUnchanged, AgentSays, BrowserTurns, AgentConnects, LinkDown, Unregister, Revoke,
       mgr, vars

\* Every step is a handler's, or leaves the handlers alone.
LEMMA Steps ==
  ASSUME [Next]_vars
  PROVE  \/ \E t \in Tunnels : OtherSteps(t) \/ FirstWrite(t) \/ SecondWrite(t)
         \/ \E t \in Tunnels : ReaderGoroutine(t) \/ HeartbeatGoroutine(t)
         \/ \E t \in Tunnels, s \in Sessions, kind \in Kinds : AgentSays(t, s, kind)
         \/ \E t \in Tunnels, b \in {"up", "stuck", "gone"} : BrowserTurns(t, b)
         \/ AgentConnects \/ Revoke \/ \E s \in Sessions : LinkDown(s) \/ Unregister(s)
         \/ UNCHANGED vars
BY DEF Next, Handler, OtherSteps

\* Sessions and entries after a step.
LEMMA StepTunnels ==
  ASSUME WsInv, [Next]_vars PROVE TunnelsExact' /\ \A t \in Tunnels : SessOK(t)'
<1>0. TypeOK /\ TunnelsExact /\ \A t \in Tunnels : SessOK(t) /\ LossOK(t)
  BY DEF WsInv
<1>1. CASE UNCHANGED <<h, tunnels, stats>>
  BY <1>0, <1>1 DEF TunnelsExact, SessOK
<1>2. ASSUME NEW t \in Tunnels, OtherSteps(t) \/ FirstWrite(t) \/ SecondWrite(t)
      PROVE  TunnelsExact' /\ \A u \in Tunnels : SessOK(u)'
  <2>1. \A u \in Tunnels : u # t => h'[u] = h[u] /\ (u \in tunnels' <=> u \in tunnels)
    BY <1>0, <1>2, HandlerLocal DEF Untouched
  <2>2. SessOK(t)' /\ (t \in tunnels' <=> h'[t].pc \notin {"idle", "refused", "register", "closed", "end"})
    <3>1. CASE OtherSteps(t)
      <4>1. OtherEnds(t)
        BY <1>0, <3>1, HandlerGoes
      <4> QED
        BY <1>0, <4>1 DEF OtherEnds, Goes, SessOK, TunnelsExact
    <3>2. CASE FirstWrite(t) \/ SecondWrite(t)
      <4>1. WriteEnds(t) /\ tunnels' = tunnels
        BY <1>0, <3>2, WritesEnd DEF writeUnchanged
      <4> QED
        BY <1>0, <4>1 DEF WriteEnds, Moved, Relays, SessOK, TunnelsExact
    <3> QED
      BY <1>2, <3>1, <3>2
  <2> QED
    BY <1>0, <2>1, <2>2 DEF SessOK, TunnelsExact
<1> QED
  BY <1>1, <1>2, Steps, OutsideHandlers

\* Two sets of tunnels that agree on all but t.
LEMMA OneApart ==
  ASSUME NEW A \in SUBSET Tunnels, NEW B \in SUBSET Tunnels, NEW t \in Tunnels,
         \A u \in Tunnels : u # t => (u \in A <=> u \in B)
  PROVE  /\ Cardinality(A) \in Nat /\ Cardinality(B) \in Nat
         /\ (t \in A <=> t \in B) => Cardinality(B) = Cardinality(A)
         /\ t \notin A /\ t \in B => Cardinality(B) = Cardinality(A) + 1
         /\ t \in A /\ t \notin B => Cardinality(A) = Cardinality(B) + 1
<1>1. IsFiniteSet(A) /\ IsFiniteSet(B)
  BY FS_Subset, WsAssumption
<1>2. Cardinality(A) \in Nat /\ Cardinality(B) \in Nat
  BY <1>1, FS_CardinalityType
<1>3. (t \in A <=> t \in B) => A = B
  OBVIOUS
<1>4. t \notin A /\ t \in B => B = A \cup {t}
  OBVIOUS
<1>5. t \in A /\ t \notin B => A = B \cup {t}
  OBVIOUS
<1>6. t \notin A => Cardinality(A \cup {t}) = Cardinality(A) + 1
  BY <1>1, FS_AddElement
<1>7. t \notin B => Cardinality(B \cup {t}) = Cardinality(B) + 1
  BY <1>1, FS_AddElement
<1> QED
  BY <1>2, <1>3, <1>4, <1>5, <1>6, <1>7

\* What a handler's step does to the counters and to the three sets they are compared with.
Balances(t) ==
  \/ /\ UNCHANGED stats
     /\ Opening(t)' <=> Opening(t)
     /\ Ended(t)' <=> Ended(t)
     /\ Relaying(t)' => Relaying(t)
  \/ Count("sent") /\ ~Opening(t) /\ Opening(t)' /\ ~Ended(t) /\ ~Ended(t)' /\ ~Relaying(t)'
  \/ Count("acked") /\ Opening(t) /\ ~Opening(t)' /\ ~Ended(t) /\ ~Ended(t)' /\ ~Relaying(t)
  \/ Count("failed") /\ Opening(t) /\ ~Opening(t)' /\ ~Ended(t) /\ ~Ended(t)' /\ ~Relaying(t)'
  \/ Count("heartbeat") /\ ~Opening(t) /\ ~Opening(t)' /\ ~Ended(t) /\ ~Ended(t)' /\ Relaying(t) /\ ~Relaying(t)'
  \/ Count("closed") /\ ~Opening(t) /\ ~Opening(t)' /\ ~Ended(t) /\ Ended(t)' /\ ~Relaying(t)'

\* The counters after a step.
LEMMA StepStats == ASSUME WsInv, [Next]_vars PROVE StatsOK'
<1>0. TypeOK /\ StatsOK /\ \A t \in Tunnels : SessOK(t) /\ LossOK(t)
  BY DEF WsInv
<1>1. CASE UNCHANGED <<h, tunnels, stats>>
  BY <1>0, <1>1 DEF StatsOK, Opening, Ended, Relaying
<1>2. ASSUME NEW t \in Tunnels, OtherSteps(t) \/ FirstWrite(t) \/ SecondWrite(t) PROVE StatsOK'
  <2>1. \A u \in Tunnels : u # t => h'[u] = h[u]
    BY <1>0, <1>2, HandlerLocal DEF Untouched
  <2>2. Balances(t)
    <3>1. CASE OtherSteps(t)
      <4>1. OtherEnds(t)
        BY <1>0, <3>1, HandlerGoes
      <4> QED
        BY <4>1 DEF OtherEnds, Goes, Balances, Opening, Ended, Relaying
    <3>2. CASE FirstWrite(t) \/ SecondWrite(t)
      <4>1. WriteEnds(t)
        BY <1>0, <3>2, WritesEnd
      <4> QED
        BY <4>1 DEF WriteEnds, Moved, Relays, Balances, Opening, Ended, Relaying
    <3> QED
      BY <1>2, <3>1, <3>2
  <2> DEFINE O == {u \in Tunnels : Opening(u)}
             E == {u \in Tunnels : Ended(u)}
             R == {u \in Tunnels : Relaying(u)}
             O2 == {u \in Tunnels : Opening(u)'}
             E2 == {u \in Tunnels : Ended(u)'}
             R2 == {u \in Tunnels : Relaying(u)'}
  <2>3. /\ \A u \in Tunnels : u # t => (u \in O <=> u \in O2)
        /\ \A u \in Tunnels : u # t => (u \in E <=> u \in E2)
        /\ \A u \in Tunnels : u # t => (u \in R <=> u \in R2)
    BY <2>1 DEF Opening, Ended, Relaying
  <2>4. /\ (Opening(t) <=> t \in O) /\ (Opening(t)' <=> t \in O2)
        /\ (Ended(t) <=> t \in E) /\ (Ended(t)' <=> t \in E2)
        /\ (Relaying(t) <=> t \in R) /\ (Relaying(t)' <=> t \in R2)
    OBVIOUS
  <2>5. /\ O \in SUBSET Tunnels /\ O2 \in SUBSET Tunnels /\ E \in SUBSET Tunnels /\ E2 \in SUBSET Tunnels
        /\ R \in SUBSET Tunnels /\ R2 \in SUBSET Tunnels
    OBVIOUS
  <2>6. /\ stats["sent"] = stats["acked"] + stats["failed"] + Cardinality(O)
        /\ stats["closed"] = Cardinality(E)
        /\ stats["heartbeat"] + Cardinality(R) <= stats["acked"]
    BY <1>0 DEF StatsOK
  <2>7. SUFFICES /\ stats'["sent"] = stats'["acked"] + stats'["failed"] + Cardinality(O2)
                 /\ stats'["closed"] = Cardinality(E2)
                 /\ stats'["heartbeat"] + Cardinality(R2) <= stats'["acked"]
    BY DEF StatsOK
  <2> HIDE DEF O, E, R, O2, E2, R2
  <2>8. /\ Cardinality(O) \in Nat /\ Cardinality(O2) \in Nat
        /\ (t \in O <=> t \in O2) => Cardinality(O2) = Cardinality(O)
        /\ t \notin O /\ t \in O2 => Cardinality(O2) = Cardinality(O) + 1
        /\ t \in O /\ t \notin O2 => Cardinality(O) = Cardinality(O2) + 1
    BY <2>3, <2>5, OneApart
  <2>9. /\ Cardinality(E) \in Nat /\ Cardinality(E2) \in Nat
        /\ (t \in E <=> t \in E2) => Cardinality(E2) = Cardinality(E)
        /\ t \notin E /\ t \in E2 => Cardinality(E2) = Cardinality(E) + 1
    BY <2>3, <2>5, OneApart
  <2>10. /\ Cardinality(R) \in Nat /\ Cardinality(R2) \in Nat
         /\ (t \in R <=> t \in R2) => Cardinality(R2) = Cardinality(R)
         /\ t \notin R /\ t \in R2 => Cardinality(R2) = Cardinality(R) + 1
         /\ t \in R /\ t \notin R2 => Cardinality(R) = Cardinality(R2) + 1
    BY <2>3, <2>5, OneApart
  <2>11. /\ stats["sent"] \in Nat /\ stats["acked"] \in Nat /\ stats["failed"] \in Nat
         /\ stats["heartbeat"] \in Nat /\ stats["closed"] \in Nat
    BY <1>0 DEF TypeOK
  <2>12. ASSUME NEW k \in {"sent", "acked", "failed", "heartbeat", "closed"}, Count(k)
         PROVE  /\ stats'[k] = stats[k] + 1
                /\ \A j \in {"sent", "acked", "failed", "heartbeat", "closed"} : j # k => stats'[j] = stats[j]
    BY <1>0, <2>12, CountStep
  <2>13. CASE UNCHANGED stats /\ (Opening(t)' <=> Opening(t)) /\ (Ended(t)' <=> Ended(t)) /\ (Relaying(t)' => Relaying(t))
    BY <2>4, <2>6, <2>8, <2>9, <2>10, <2>11, <2>13
  <2>14. CASE Count("sent") /\ ~Opening(t) /\ Opening(t)' /\ ~Ended(t) /\ ~Ended(t)' /\ ~Relaying(t)'
    BY <2>4, <2>6, <2>8, <2>9, <2>10, <2>11, <2>12, <2>14
  <2>15. CASE Count("acked") /\ Opening(t) /\ ~Opening(t)' /\ ~Ended(t) /\ ~Ended(t)' /\ ~Relaying(t)
    BY <2>4, <2>6, <2>8, <2>9, <2>10, <2>11, <2>12, <2>15
  <2>16. CASE Count("failed") /\ Opening(t) /\ ~Opening(t)' /\ ~Ended(t) /\ ~Ended(t)' /\ ~Relaying(t)'
    BY <2>4, <2>6, <2>8, <2>9, <2>10, <2>11, <2>12, <2>16
  <2>17. CASE Count("heartbeat") /\ ~Opening(t) /\ ~Opening(t)' /\ ~Ended(t) /\ ~Ended(t)' /\ Relaying(t) /\ ~Relaying(t)'
    BY <2>4, <2>6, <2>8, <2>9, <2>10, <2>11, <2>12, <2>17
  <2>18. CASE Count("closed") /\ ~Opening(t) /\ ~Opening(t)' /\ ~Ended(t) /\ Ended(t)' /\ ~Relaying(t)'
    BY <2>4, <2>6, <2>8, <2>9, <2>10, <2>11, <2>12, <2>18
  <2> QED
    BY <2>2, <2>13, <2>14, <2>15, <2>16, <2>17, <2>18 DEF Balances
<1> QED
  BY <1>1, <1>2, Steps, OutsideHandlers

-----------------------------------------------------------------------------
(* From the browser to the agent *)

\* A frame that arrives follows all that have been relayed, but perhaps itself.
LEMMA ArrivesInOrder ==
  ASSUME TypeOK, NEW t \in Tunnels, UpOK(t), Arrives(t), h'[t].sess = h[t].sess, latest' = latest,
         NEW e, e = h[t].item
  PROVE  /\ e \in Nat /\ InOrder(t)' /\ NothingAfter(t, e)' /\ SentUpTo(t, e)'
         /\ h[t].pc = "relay" => OnlyLast(t, e)'
<1> DEFINE k == Len(inbox[t])
<1>1. /\ e \in 1 .. BrowserFrames /\ k \in Nat
      /\ Len(inbox'[t]) = k + 1 /\ inbox'[t][k + 1] = e
      /\ \A i \in 1 .. k : inbox'[t][i] = inbox[t][i]
  BY InboxGrows DEF Arrives
<1>2. /\ InOrder(t) /\ SentUpTo(t, e - 1) /\ NothingAfter(t, e) /\ OnlyLast(t, e)
      /\ h[t].pc = "relay" => NothingAfter(t, e - 1)
  BY DEF UpOK, Arrives, Relays, Running
<1>3. /\ inbox[t] \in Seq(1 .. BrowserFrames) /\ unread'[t] = unread[t]
      /\ unread[t] = {} \/ h[t].sess < latest
  BY DEF Arrives, TypeOK
<1>4. \A i \in 1 .. k : inbox[t][i] \in Nat
  <2>1. \A q \in Seq(1 .. BrowserFrames) : \A i \in 1 .. Len(q) : q[i] \in 1 .. BrowserFrames
    BY ElementOfSeq
  <2> QED
    BY <1>3, <2>1
<1> HIDE DEF k
<1>5. /\ \A i \in 1 .. k + 1 : i \in 1 .. k \/ i = k + 1
      /\ \A i \in 1 .. k : i \in 1 .. k + 1 /\ i < k + 1
      /\ k + 1 \in 1 .. k + 1 /\ (k + 1) - 1 = k
  BY <1>1
<1>6. InOrder(t)'
  <2> SUFFICES ASSUME NEW i \in 1 .. k + 1
               PROVE  /\ \A j \in 1 .. i - 1 : /\ inbox'[t][j] <= inbox'[t][i]
                                               /\ j < i - 1 => inbox'[t][j] < inbox'[t][i]
                      /\ \A n \in 1 .. inbox'[t][i] - 1 :
                           \/ \E j \in 1 .. i - 1 : inbox'[t][j] = n
                           \/ n \in unread'[t] /\ h'[t].sess < latest'
    BY <1>1 DEF InOrder
  <2>1. CASE i \in 1 .. k
    <3>1. \A j \in 1 .. i - 1 : j \in 1 .. k
      BY <1>1, <2>1
    <3>2. /\ \A j \in 1 .. i - 1 : inbox'[t][j] = inbox[t][j]
          /\ inbox'[t][i] = inbox[t][i]
      BY <1>1, <2>1, <3>1
    <3>3. /\ \A j \in 1 .. i - 1 : /\ inbox[t][j] <= inbox[t][i]
                                   /\ j < i - 1 => inbox[t][j] < inbox[t][i]
          /\ \A n \in 1 .. inbox[t][i] - 1 :
               \/ \E j \in 1 .. i - 1 : inbox[t][j] = n
               \/ n \in unread[t] /\ h[t].sess < latest
      <4>1. i \in 1 .. Len(inbox[t])
        BY <2>1 DEF k
      <4> QED
        BY <1>2, <4>1 DEF InOrder
    <3> QED
      BY <1>3, <3>2, <3>3
  <2>2. CASE i = k + 1
    <3>1. i - 1 = k /\ inbox'[t][i] = e
      BY <1>1, <2>2
    <3>2. ASSUME NEW j \in 1 .. k PROVE inbox'[t][j] <= e /\ (j < k => inbox'[t][j] < e)
      BY <1>1, <1>2 DEF NothingAfter, OnlyLast, k
    <3>3. ASSUME NEW n \in 1 .. e - 1
          PROVE  (\E j \in 1 .. k : inbox'[t][j] = n) \/ (n \in unread'[t] /\ h'[t].sess < latest')
      <4>1. n \in unread[t] \/ \E j \in 1 .. k : inbox[t][j] = n
        BY <1>2 DEF SentUpTo, Received, k
      <4> QED
        BY <1>1, <1>3, <4>1
    <3> QED
      BY <3>1, <3>2, <3>3
  <2> QED
    BY <1>5, <2>1, <2>2
<1>7. NothingAfter(t, e)'
  <2>1. ASSUME NEW i \in 1 .. k + 1 PROVE inbox'[t][i] <= e
    <3>1. CASE i \in 1 .. k
      BY <1>1, <1>2, <3>1 DEF NothingAfter, k
    <3>2. CASE i = k + 1
      BY <1>1, <3>2
    <3> QED
      BY <1>5, <3>1, <3>2
  <2> QED
    BY <1>1, <2>1 DEF NothingAfter
<1>8. SentUpTo(t, e)'
  <2>1. ASSUME NEW m \in 1 .. e PROVE m \in unread'[t] \/ \E i \in 1 .. k + 1 : inbox'[t][i] = m
    <3>1. CASE m = e
      BY <1>1, <1>5, <3>1
    <3>2. CASE m \in 1 .. e - 1
      <4>1. m \in unread[t] \/ \E i \in 1 .. k : inbox[t][i] = m
        BY <1>2, <3>2 DEF SentUpTo, Received, k
      <4> QED
        BY <1>1, <1>3, <1>5, <4>1
    <3> QED
      BY <1>1, <3>1, <3>2
  <2> QED
    BY <1>1, <2>1 DEF SentUpTo, Received
<1>9. h[t].pc = "relay" => OnlyLast(t, e)'
  <2>1. ASSUME h[t].pc = "relay", NEW i \in 1 .. k + 1, i < k + 1 PROVE inbox'[t][i] < e
    <3>1. i \in 1 .. k
      BY <1>1, <2>1
    <3>2. inbox[t][i] <= e - 1 /\ inbox[t][i] \in Nat
      BY <1>2, <1>4, <2>1, <3>1 DEF NothingAfter, k
    <3> QED
      BY <1>1, <3>1, <3>2
  <2> QED
    BY <1>1, <2>1 DEF OnlyLast
<1> QED
  BY <1>1, <1>6, <1>7, <1>8, <1>9

\* A frame that goes down with its connection has been sent.
LEMMA MissesInOrder ==
  ASSUME TypeOK, NEW t \in Tunnels, UpOK(t), Misses(t), h'[t].sess = h[t].sess, latest' = latest,
         NEW e, e = h[t].item
  PROVE  InOrder(t)' /\ NothingAfter(t, e)' /\ SentUpTo(t, e)'
<1>1. /\ inbox'[t] = inbox[t] /\ unread'[t] = unread[t] \cup {e}
  BY DEF Misses, TypeOK
<1>2. InOrder(t) /\ SentUpTo(t, e - 1) /\ NothingAfter(t, e)
  BY DEF UpOK, Misses, Relays, Running
<1>3. InOrder(t)'
  BY <1>1, <1>2 DEF InOrder
<1>4. NothingAfter(t, e)'
  BY <1>1, <1>2 DEF NothingAfter
<1>5. e \in 1 .. BrowserFrames
  BY RelaysFrame DEF Misses
<1>6. \A m \in 1 .. e : m = e \/ m \in 1 .. e - 1
  BY <1>5
<1>7. SentUpTo(t, e)'
  BY <1>1, <1>2, <1>6 DEF SentUpTo, Received
<1> QED
  BY <1>3, <1>4, <1>7

\* The writes to the agent.
LEMMA UpWrites ==
  ASSUME TypeOK, NEW t \in Tunnels, SessOK(t), LossOK(t), UpOK(t), FirstWrite(t) \/ SecondWrite(t)
  PROVE  UpOK(t)'
<1>0. /\ WriteEnds(t) /\ rd' = rd /\ frames' = frames /\ ctx' = ctx /\ latest' = latest
      /\ h[t].pc \in HandlerStates /\ h'[t].sess = h[t].sess
  BY WritesEnd DEF writeUnchanged, TypeOK, WriteEnds, Moved
<1>a. HandedOver(t)' = HandedOver(t) /\ HoldsFrame(t)' = HoldsFrame(t) /\ TakenOver(t)' = TakenOver(t)
  BY <1>0 DEF HandedOver, HoldsFrame, TakenOver
<1>1. CASE /\ h[t].pc \in {"open", "reopen", "closing", "reclosing"} /\ Fruitless
           /\ h'[t].pc \in {"wait", "unwind", "reopen", "reclosing"}
           /\ h'[t].pc \in {"wait", "reopen"} => h[t].pc \in {"open", "reopen"}
  BY <1>0, <1>1, UpMoves DEF Fresh, Running, Fruitless
<1>2. CASE h[t].pc \in {"relay", "rerelay"} /\ h'[t].pc = "unwind" /\ (Fruitless \/ Arrives(t))
  <2>1. InOrder(t)'
    <3>1. CASE Fruitless
      BY <1>0, <3>1 DEF Fruitless, UpOK, InOrder
    <3>2. CASE Arrives(t)
      BY <1>0, <3>2, ArrivesInOrder
    <3> QED
      BY <1>2, <3>1, <3>2
  <2> QED
    BY <1>0, <1>2, <2>1 DEF UpOK, Fresh, Running
<1>3. CASE Relays(t) /\ Moved(t, "loop") /\ (Arrives(t) \/ Misses(t))
  <2>1. PICK e : e = h[t].item
    OBVIOUS
  <2>2. InOrder(t)' /\ NothingAfter(t, e)' /\ SentUpTo(t, e)'
    BY <1>0, <1>3, <2>1, ArrivesInOrder, MissesInOrder
  <2>3. TakenOver(t)' = e /\ (HoldsFrame(t) => frames[t] = HandedOver(t)) /\ Running(t)
    BY <1>a, <1>3, <2>1 DEF UpOK, Relays, Running
  <2>4. SentUpTo(t, TakenOver(t))' /\ NothingAfter(t, TakenOver(t))'
    BY <2>2, <2>3 DEF SentUpTo, NothingAfter, Received
  <2>5. ~Fresh(t)' /\ ~Relays(t)' /\ h'[t].pc = "loop" /\ t \notin ctx'
    BY <1>0, <1>3, <2>3 DEF Moved, Fresh, Relays, UpOK
  <2> QED
    BY <1>0, <1>a, <2>2, <2>3, <2>4, <2>5 DEF UpOK
<1>4. CASE /\ h[t].pc = "relay" /\ h'[t].pc = "rerelay" /\ h'[t].item = h[t].item
           /\ Fruitless \/ Arrives(t)
  <2>1. PICK e : e = h[t].item
    OBVIOUS
  <2>2. Running(t) /\ ~Fresh(t)' /\ t \notin ctx' /\ (Relays(t)' <=> Relays(t))
    BY <1>0, <1>4 DEF Running, Fresh, UpOK, Relays
  <2>3. CASE ~Relays(t)
    <3>1. Fruitless
      BY <1>4, <2>3 DEF Arrives
    <3>2. InOrder(t)'
      BY <1>0, <3>1 DEF Fruitless, UpOK, InOrder
    <3> QED
      BY <1>0, <1>a, <1>4, <2>2, <2>3, <3>2 DEF UpOK
  <2>4. CASE Relays(t)
    <3>1. /\ InOrder(t)' /\ SentUpTo(t, e - 1)' /\ NothingAfter(t, e)' /\ OnlyLast(t, e)'
      <4>1. CASE Fruitless
        <5>1. InOrder(t) /\ SentUpTo(t, e - 1) /\ NothingAfter(t, e) /\ OnlyLast(t, e)
          BY <2>1, <2>2, <2>4 DEF UpOK
        <5> QED
          BY <1>0, <4>1, <5>1 DEF Fruitless, InOrder, SentUpTo, Received, NothingAfter, OnlyLast
      <4>2. CASE Arrives(t)
        <5>1. e \in Nat /\ InOrder(t)' /\ NothingAfter(t, e)' /\ SentUpTo(t, e)' /\ OnlyLast(t, e)'
          BY <1>0, <1>4, <2>1, <4>2, ArrivesInOrder
        <5>2. \A m \in 1 .. e - 1 : m \in 1 .. e
          BY <5>1
        <5> QED
          BY <5>1, <5>2 DEF SentUpTo
      <4> QED
        BY <1>4, <4>1, <4>2
    <3>2. h'[t].item = e /\ e = TakenOver(t) /\ e \in 0 .. BrowserFrames
      BY <1>4, <2>1, <2>2, <2>4 DEF UpOK
    <3>3. /\ SentUpTo(t, h[t].item - 1)' /\ NothingAfter(t, h[t].item)' /\ OnlyLast(t, h[t].item)'
      BY <3>1, <3>2 DEF SentUpTo, Received, NothingAfter, OnlyLast
    <3> QED
      BY <1>0, <1>a, <1>4, <2>2, <3>1, <3>2, <3>3 DEF UpOK
  <2> QED
    BY <2>3, <2>4
<1> QED
  BY <1>0, <1>1, <1>2, <1>3, <1>4 DEF WriteEnds, Moved

\* The handler's other steps.
LEMMA UpOthers ==
  ASSUME TypeOK, NEW t \in Tunnels, UpOK(t), OtherSteps(t) PROVE UpOK(t)'
<1>0. /\ OtherEnds(t) /\ h \in [Tunnels -> HandlerRecords]
      /\ inbox' = inbox /\ unread' = unread /\ latest' = latest
  BY HandlerGoes DEF TypeOK, HandlerRecords, OtherSteps, Refuse, AcceptBrowser, RegisterTunnel, TakeResult,
     OpenTimeout, TakeAgentMessage, WriteBrowser, TakeBrowserFrame, TakeHeartbeatError, Unwind, CloseTunnel,
     handlerUnchanged, sessions, far
<1>a. inbox[t] = <<>> \/ h'[t].sess = h[t].sess
  BY <1>0 DEF OtherEnds, Goes, UpOK, Fresh
<1>1. CASE TakeResult(t) /\ h'[t].pc = "loop"
  <2>1. /\ h[t].pc = "wait" /\ frames' = frames /\ ctx' = ctx
        /\ rd' = [rd EXCEPT ![t].pc = "read"] \/ (rd' = rd /\ Goto(t, "unwind"))
    BY <1>1 DEF TakeResult
  <2>2. ~Goto(t, "unwind")
    BY <1>0, <1>1 DEF Goto, HandlerRecords
  <2>3. rd'[t].pc = "read" /\ rd'[t].item = rd[t].item
    BY <2>1, <2>2 DEF TypeOK
  <2>4. rd[t].item = 0 /\ frames[t] = NoFrame /\ inbox[t] = <<>> /\ t \notin ctx
    BY <2>1 DEF UpOK, Fresh, Running
  <2>5. inbox'[t] = <<>> /\ InOrder(t)' /\ NothingAfter(t, 0)' /\ t \notin ctx'
    BY <1>0, <2>1, <2>4, EmptySeq DEF InOrder, NothingAfter
  <2>6. ~HoldsFrame(t)' /\ HandedOver(t)' = 0 /\ TakenOver(t)' = 0
    BY <2>1, <2>3, <2>4 DEF HoldsFrame, HandedOver, TakenOver
  <2>7. ~Fresh(t)' /\ ~Relays(t)'
    BY <1>1 DEF Fresh, Relays
  <2>8. SentUpTo(t, TakenOver(t))' /\ NothingAfter(t, TakenOver(t))'
    BY <2>5, <2>6 DEF SentUpTo, NothingAfter
  <2> QED
    BY <1>1, <2>3, <2>5, <2>6, <2>7, <2>8 DEF UpOK
<1>2. CASE TakeBrowserFrame(t)
  <2>1. /\ h[t].pc = "loop" /\ frames[t] # NoFrame /\ rd' = rd /\ ctx' = ctx
        /\ h'[t].pc = "relay" /\ h'[t].item = frames[t] /\ frames'[t] = NoFrame
        /\ h'[t].sess = h[t].sess
    BY <1>0, <1>2 DEF TakeBrowserFrame, TypeOK, HandlerRecords
  <2>2. frames[t] \in 0 .. BrowserFrames /\ NoFrame # Close
    <3>1. frames[t] \in 0 .. NoFrame
      BY DEF TypeOK
    <3> QED
      BY <2>1, <3>1, WsAssumption DEF NoFrame, Close
  <2>3. HandedOver(t)' = HandedOver(t) /\ TakenOver(t)' = HandedOver(t)
    BY <2>1 DEF HandedOver, TakenOver, HoldsFrame
  <2>4. InOrder(t)' /\ t \notin ctx /\ (rd[t].pc = "put" => rd[t].item # 0)
    BY <1>0, <2>1 DEF UpOK, InOrder, Running
  <2>5. /\ SentUpTo(t, TakenOver(t)) /\ NothingAfter(t, TakenOver(t))
        /\ HoldsFrame(t) => frames[t] = HandedOver(t)
    BY <2>1 DEF UpOK, Running
  <2>6. /\ ~HoldsFrame(t)' /\ ~Fresh(t)' /\ (Relays(t)' <=> frames[t] # Close)
    BY <2>1 DEF HoldsFrame, Fresh, Relays
  <2>7. ASSUME frames[t] # Close
        PROVE  /\ h'[t].item = TakenOver(t)' /\ SentUpTo(t, h[t].item - 1)'
               /\ NothingAfter(t, h[t].item - 1)' /\ NothingAfter(t, h[t].item)' /\ OnlyLast(t, h[t].item)'
    <3>1. PICK e : e = frames[t]
      OBVIOUS
    <3>2. e = HandedOver(t) /\ TakenOver(t) = e - 1 /\ h'[t].item = e /\ e \in Nat
      BY <2>1, <2>2, <2>5, <2>7, <3>1 DEF TakenOver, HoldsFrame
    <3>3. SentUpTo(t, e - 1)' /\ NothingAfter(t, e - 1)'
      BY <1>0, <2>5, <3>2 DEF SentUpTo, Received, NothingAfter
    <3>4. \A i \in 1 .. Len(inbox'[t]) : inbox'[t][i] \in Nat
      <4>1. \A q \in Seq(1 .. BrowserFrames) : \A i \in 1 .. Len(q) : q[i] \in 1 .. BrowserFrames
        BY ElementOfSeq
      <4> QED
        BY <1>0, <4>1 DEF TypeOK
    <3>5. NothingAfter(t, e)' /\ OnlyLast(t, e)'
      BY <3>2, <3>3, <3>4 DEF NothingAfter, OnlyLast
    <3> QED
      BY <2>3, <3>2, <3>3, <3>5 DEF SentUpTo, Received, NothingAfter, OnlyLast
  <2> QED
    BY <2>1, <2>2, <2>4, <2>6, <2>7 DEF UpOK
<1>3. CASE ~TakeBrowserFrame(t) /\ ~(TakeResult(t) /\ h'[t].pc = "loop")
  <2>1. rd' = rd
    <3>1. CASE TakeResult(t)
      <4>1. ~Goto(t, "loop")
        BY <1>0, <1>3, <3>1 DEF Goto, HandlerRecords
      <4> QED
        BY <3>1, <4>1 DEF TakeResult
    <3> QED
      BY <1>3, <3>1 DEF OtherSteps, Refuse, AcceptBrowser, RegisterTunnel, 
     OpenTimeout, TakeAgentMessage, WriteBrowser, TakeHeartbeatError, Unwind, CloseTunnel
  <2>2. frames' = frames
    BY <1>3 DEF OtherSteps, Refuse, AcceptBrowser, RegisterTunnel, TakeResult,
     OpenTimeout, TakeAgentMessage, WriteBrowser, TakeHeartbeatError, Unwind, CloseTunnel
  <2>3. ctx' = ctx \/ Unwind(t)
    BY <1>3 DEF OtherSteps, Refuse, AcceptBrowser, RegisterTunnel, TakeResult,
     OpenTimeout, TakeAgentMessage, WriteBrowser, TakeHeartbeatError, CloseTunnel
  <2>4. Unwind(t) => h'[t].pc = "closed"
    BY <1>0 DEF Unwind, Goto, HandlerRecords
  <2>5. h'[t].pc # "relay"
    <3>1. h'[t].pc = "relay" => h[t].pc = "loop"
      BY <1>0 DEF OtherEnds, Goes
    <3>2. h[t].pc = "loop" => \/ TakeAgentMessage(t) \/ TakeHeartbeatError(t)
      BY <1>3 DEF OtherSteps, Refuse, AcceptBrowser, RegisterTunnel, TakeResult, OpenTimeout, OpenTimer,
         WriteBrowser, Unwind, CloseTunnel
    <3>3. TakeHeartbeatError(t) => h'[t].pc = "closing"
      BY <1>0 DEF TakeHeartbeatError, HandlerRecords
    <3>4. TakeAgentMessage(t) => h'[t].pc = AfterMessage(Head(agentCh[t]).kind)
      BY <1>0 DEF TakeAgentMessage, HandlerRecords
    <3> QED
      BY <3>1, <3>2, <3>3, <3>4 DEF AfterMessage
  <2>6. h'[t].pc = "loop" => h[t].pc \in {"loop", "write"}
    <3>1. h[t].pc = "wait" => TakeResult(t) \/ OpenTimeout(t)
      BY DEF OtherSteps, Refuse, AcceptBrowser, RegisterTunnel, TakeAgentMessage, TakeHeartbeatError,
         WriteBrowser, TakeBrowserFrame, Unwind, CloseTunnel
    <3>2. OpenTimeout(t) => h'[t].pc = "unwind"
      BY <1>0 DEF OpenTimeout, Goto, HandlerRecords
    <3> QED
      BY <1>0, <1>3, <3>1, <3>2 DEF OtherEnds, Goes
  <2> QED
    BY <1>0, <1>a, <2>1, <2>2, <2>3, <2>4, <2>5, <2>6, UpMoves DEF OtherEnds, Goes, Fresh, Running
<1> QED
  BY <1>1, <1>2, <1>3

\* The reader goroutine.
LEMMA UpReader ==
  ASSUME TypeOK, NEW t \in Tunnels, UpOK(t), ReaderGoroutine(t) PROVE UpOK(t)'
<1>0. /\ h' = h /\ inbox' = inbox /\ unread' = unread /\ latest' = latest /\ ctx' = ctx /\ rd[t].pc \in {"read", "put", "putClose"}
      /\ rd \in [Tunnels -> [pc : {"off", "read", "put", "putClose", "exit"}, item : 0 .. BrowserFrames]]
      /\ frames \in [Tunnels -> 0 .. NoFrame]
  BY DEF ReaderGoroutine, ReadBrowser, SendFrame, goUnchanged, sessions, far, TypeOK
<1>1. rd[t].item \in Nat /\ rd[t].item # NoFrame
  BY WsFacts DEF TypeOK
<1>a. InOrder(t)'
  BY <1>0, OrderKept DEF UpOK
<1>2. /\ ~Fresh(t) /\ ~Fresh(t)' /\ InOrder(t)' /\ (Running(t)' <=> Running(t))
      /\ Relays(t)' <=> Relays(t)
      /\ t \in ctx' => ~Running(t)'
  BY <1>0, <1>a DEF UpOK, Fresh, Running, Relays
<1>3. CASE ~Running(t)
  <2>1. rd'[t].pc = "put" => rd'[t].item # 0
    <3>1. CASE rd' = [rd EXCEPT ![t].pc = "put", ![t].item = @ + 1]
      <4>1. rd'[t].item = rd[t].item + 1
        BY <1>0, <3>1
      <4> QED
        BY <1>1, <4>1
    <3>2. CASE \E p \in {"putClose", "read", "exit"} : rd' = [rd EXCEPT ![t].pc = p]
      BY <1>0, <3>2
    <3> QED
      BY <3>1, <3>2 DEF ReaderGoroutine, ReadBrowser, SendFrame
  <2> QED
    BY <1>2, <1>3, <2>1 DEF UpOK
<1>4. CASE Running(t)
  <2>0. t \notin ctx /\ (HoldsFrame(t) => frames[t] = HandedOver(t)) /\ (rd[t].pc = "put" => rd[t].item # 0)
    BY <1>4 DEF UpOK
  <2> SUFFICES /\ rd'[t].pc = "put" => rd'[t].item # 0
               /\ HoldsFrame(t)' => frames'[t] = HandedOver(t)'
               /\ TakenOver(t)' = TakenOver(t)
    BY <1>0, <1>2, <1>4 DEF UpOK, SentUpTo, Received, NothingAfter, OnlyLast
  <2>1. CASE ReadBrowser(t)
    <3>1. rd[t].pc = "read" /\ frames' = frames
      BY <2>1 DEF ReadBrowser
    <3>2. \/ rd'[t].pc = "put" /\ rd'[t].item = rd[t].item + 1
          \/ rd'[t].pc = "putClose" /\ rd'[t].item = rd[t].item
      BY <1>0, <2>1 DEF ReadBrowser
    <3>3. HandedOver(t)' = HandedOver(t) /\ (rd'[t].pc = "put" => rd'[t].item # 0)
      BY <1>1, <3>1, <3>2 DEF HandedOver
    <3> QED
      BY <2>0, <3>1, <3>3 DEF TakenOver, HoldsFrame
  <2>2. CASE SendFrame(t) /\ rd[t].pc = "put"
    <3>1. frames[t] = NoFrame /\ frames'[t] = rd[t].item /\ rd'[t].pc = "read" /\ rd'[t].item = rd[t].item
      BY <1>0, <2>0, <2>2 DEF SendFrame, SendFrameStops
    <3>2. HandedOver(t)' = rd[t].item /\ HandedOver(t) = rd[t].item - 1
      BY <2>2, <3>1 DEF HandedOver
    <3>3. HoldsFrame(t)' /\ ~HoldsFrame(t)
      BY <1>1, <2>0, <2>2, <3>1 DEF HoldsFrame, Close
    <3> QED
      BY <3>1, <3>2, <3>3 DEF TakenOver
  <2>3. CASE SendFrame(t) /\ rd[t].pc = "putClose"
    <3>1. frames[t] = NoFrame /\ frames'[t] = Close /\ rd'[t].pc = "exit" /\ rd'[t].item = rd[t].item
      BY <1>0, <2>0, <2>3 DEF SendFrame, SendFrameStops
    <3>2. HandedOver(t)' = HandedOver(t)
      BY <2>3, <3>1 DEF HandedOver
    <3>3. ~HoldsFrame(t)' /\ ~HoldsFrame(t)
      BY <3>1 DEF HoldsFrame
    <3> QED
      BY <3>1, <3>2, <3>3 DEF TakenOver
  <2> QED
    BY <2>1, <2>2, <2>3 DEF ReaderGoroutine, SendFrame
<1> QED
  BY <1>3, <1>4

\* The reader goroutine of a tunnel concerns no other.
LEMMA ReaderLocal ==
  ASSUME TypeOK, NEW t \in Tunnels, ReaderGoroutine(t)
  PROVE  /\ h' = h /\ \A u \in Tunnels : u # t => UpSame(u)
         /\ UNCHANGED <<agentCh, out, emitted, lost, agent>>
BY DEF ReaderGoroutine, ReadBrowser, SendFrame, goUnchanged, UpSame, sessions, far, TypeOK

\* The other processes leave the browser's frames alone ...
LEMMA OutsideUp ==
  ASSUME TypeOK,
         \/ \E t \in Tunnels : HeartbeatGoroutine(t)
         \/ \E t \in Tunnels, s \in Sessions, kind \in Kinds : AgentSays(t, s, kind)
         \/ \E t \in Tunnels, b \in {"up", "stuck", "gone"} : BrowserTurns(t, b)
         \/ AgentConnects \/ Revoke \/ \E s \in Sessions : LinkDown(s) \/ Unregister(s)
         \/ UNCHANGED vars
  PROVE  h' = h /\ deaf' = deaf /\ \A u \in Tunnels : UpSame(u)
<1>1. UNCHANGED <<h, rd, frames, inbox, unread, ctx, deaf>>
  BY DEF HeartbeatGoroutine, HeartbeatTick, PingReturns, far, goUnchanged, AgentSays, BrowserTurns,
     AgentConnects, LinkDown, Unregister, Revoke, mgr, vars
<1>2. latest' = latest \/ latest' = latest + 1
  BY DEF HeartbeatGoroutine, HeartbeatTick, PingReturns, far, goUnchanged, AgentSays, BrowserTurns,
     AgentConnects, LinkDown, Unregister, Revoke, sessions, vars,
     Table!Connect, Table!Drop, Table!Forget, Table!Revoke
<1>3. \A u \in Tunnels : h[u].sess < latest => h[u].sess < latest'
  <2>1. latest \in Nat /\ \A u \in Tunnels : h[u].sess \in Nat
    BY WsAssumption DEF TypeOK
  <2> QED
    BY <1>2, <2>1
<1> QED
  BY <1>1, <1>3 DEF UpSame

\* ... and, but for the agent, the agent's.
LEMMA OutsideDown ==
  ASSUME \/ \E t \in Tunnels : HeartbeatGoroutine(t)
         \/ \E t \in Tunnels, b \in {"up", "stuck", "gone"} : BrowserTurns(t, b)
         \/ AgentConnects \/ Revoke \/ \E s \in Sessions : LinkDown(s) \/ Unregister(s)
         \/ UNCHANGED vars
  PROVE  UNCHANGED <<h, agentCh, out, emitted, lost, agent>>
BY DEF HeartbeatGoroutine, HeartbeatTick, PingReturns, far,
       goUnchanged, BrowserTurns, AgentConnects, LinkDown, Unregister, Revoke,
       mgr, vars

\* The browser's frames after a step.
LEMMA StepUp == ASSUME WsInv, [Next]_vars PROVE \A t \in Tunnels : UpOK(t)'
<1>0. TypeOK /\ \A t \in Tunnels : SessOK(t) /\ LossOK(t) /\ UpOK(t)
  BY DEF WsInv
<1>1. CASE h' = h /\ \A u \in Tunnels : UpSame(u)
  BY <1>0, <1>1, UpFrame
<1>2. ASSUME NEW t \in Tunnels, OtherSteps(t) \/ FirstWrite(t) \/ SecondWrite(t)
      PROVE  \A u \in Tunnels : UpOK(u)'
  <2>1. UpOK(t)'
    BY <1>0, <1>2, UpWrites, UpOthers
  <2>2. \A u \in Tunnels : u # t => UpOK(u)'
    BY <1>0, <1>2, HandlerLocal, UpFrame DEF Untouched
  <2> QED
    BY <2>1, <2>2
<1>3. ASSUME NEW t \in Tunnels, ReaderGoroutine(t) PROVE \A u \in Tunnels : UpOK(u)'
  <2>1. UpOK(t)'
    BY <1>0, <1>3, UpReader
  <2>2. \A u \in Tunnels : u # t => UpOK(u)'
    BY <1>0, <1>3, ReaderLocal, UpFrame
  <2> QED
    BY <2>1, <2>2
<1> QED
  BY <1>0, <1>1, <1>2, <1>3, Steps, OutsideUp

\* What was lost after a step.
LEMMA StepLoss == ASSUME WsInv, [Next]_vars PROVE \A t \in Tunnels : LossOK(t)'
<1>0. TypeOK /\ \A t \in Tunnels : SessOK(t) /\ LossOK(t) /\ UpOK(t)
  BY DEF WsInv
<1>1. /\ registered \in Nat /\ latest \in Nat /\ \A t \in Tunnels : h[t].sess \in Nat
      /\ h \in [Tunnels -> HandlerRecords]
  BY <1>0, WsAssumption DEF TypeOK, HandlerRecords
<1>2. ASSUME NEW t \in Tunnels, OtherSteps(t) PROVE \A u \in Tunnels : LossOK(u)'
  <2>1. UNCHANGED <<registered, latest, deaf, unread>>
    BY <1>2 DEF OtherSteps, Refuse, AcceptBrowser, RegisterTunnel, TakeResult, OpenTimeout,
       TakeAgentMessage, WriteBrowser, TakeBrowserFrame, TakeHeartbeatError, Unwind, CloseTunnel,
       handlerUnchanged, sessions, far
  <2>2. \A u \in Tunnels : u # t => h'[u] = h[u]
    BY <1>0, <1>2, HandlerLocal DEF Untouched
  <2>3. LossOK(t)'
    <3>1. CASE AcceptBrowser(t)
      <4>1. h'[t].sess = latest /\ unread[t] = {}
        BY <1>0, <1>1, <3>1 DEF AcceptBrowser, HandlerRecords, LossOK, UpOK, Fresh
      <4> QED
        BY <1>0, <1>1, <2>1, <4>1 DEF LossOK
    <3>2. CASE ~AcceptBrowser(t)
      <4>1. OtherEnds(t)
        BY <1>0, <1>2, HandlerGoes
      <4>2. h[t].pc = "idle" => Refuse(t)
        BY <1>2, <3>2 DEF OtherSteps, RegisterTunnel, TakeResult, OpenTimeout, OpenTimer, TakeAgentMessage,
           WriteBrowser, TakeBrowserFrame, TakeHeartbeatError, Unwind, CloseTunnel
      <4>3. Refuse(t) => h'[t].sess = h[t].sess
        BY <1>1 DEF Refuse, Goto, HandlerRecords
      <4>4. h'[t].sess = h[t].sess
        BY <4>1, <4>2, <4>3 DEF OtherEnds, Goes
      <4> QED
        BY <1>0, <2>1, <4>4 DEF LossOK
    <3> QED
      BY <3>1, <3>2
  <2> QED
    BY <1>0, <2>1, <2>2, <2>3 DEF LossOK
<1>3. ASSUME NEW t \in Tunnels, FirstWrite(t) \/ SecondWrite(t) PROVE \A u \in Tunnels : LossOK(u)'
  <2>1. /\ WriteEnds(t) /\ UNCHANGED <<registered, latest>> /\ deaf \subseteq deaf'
        /\ \A u \in Tunnels : u # t => h'[u] = h[u] /\ unread'[u] = unread[u]
    BY <1>0, <1>3, WritesEnd DEF writeUnchanged
  <2>2. h'[t].sess = h[t].sess /\ (Fruitless \/ Arrives(t) \/ Misses(t))
    BY <2>1 DEF WriteEnds, Moved
  <2>3. unread'[t] = unread[t] \/ h[t].sess < latest \/ h[t].sess \in deaf'
    BY <2>2 DEF Fruitless, Arrives, Misses
  <2> QED
    BY <1>0, <2>1, <2>2, <2>3 DEF LossOK
<1>4. ASSUME h' = h, deaf' = deaf, \A u \in Tunnels : UpSame(u), registered' \in {0, registered, latest'},
             latest' = latest \/ (latest' = latest + 1 /\ registered' = latest')
      PROVE  \A u \in Tunnels : LossOK(u)'
  BY <1>0, <1>1, <1>4 DEF LossOK, UpSame
<1>5. ASSUME NEW t \in Tunnels, ReaderGoroutine(t)
      PROVE  UNCHANGED <<h, unread, deaf, latest, registered>>
  BY <1>5 DEF ReaderGoroutine, ReadBrowser, SendFrame, goUnchanged, sessions, far
<1>6. \/ \E t \in Tunnels : HeartbeatGoroutine(t)
      \/ \E t \in Tunnels, s \in Sessions, kind \in Kinds : AgentSays(t, s, kind)
      \/ \E t \in Tunnels, b \in {"up", "stuck", "gone"} : BrowserTurns(t, b)
      \/ AgentConnects \/ Revoke \/ \E s \in Sessions : LinkDown(s) \/ Unregister(s)
      \/ UNCHANGED vars
      => /\ registered' \in {0, registered, latest'}
         /\ latest' = latest \/ (latest' = latest + 1 /\ registered' = latest')
  BY DEF HeartbeatGoroutine, HeartbeatTick, PingReturns, far, goUnchanged, AgentSays, BrowserTurns,
     AgentConnects, LinkDown, Unregister, Revoke, sessions, vars,
     Table!Connect, Table!Drop, Table!Forget, Table!Revoke
<1>7. ASSUME UNCHANGED <<h, unread, deaf, latest, registered>> PROVE \A u \in Tunnels : LossOK(u)'
  BY <1>0, <1>7 DEF LossOK
<1> QED
  BY <1>0, <1>2, <1>3, <1>4, <1>5, <1>6, <1>7, Steps, OutsideUp

-----------------------------------------------------------------------------
(* From the agent to the browser *)

\* When the first message is taken, the others move up.
LEMMA MovesUp ==
  ASSUME TypeOK, NEW t \in Tunnels, agentCh[t] # <<>>, agentCh' = [agentCh EXCEPT ![t] = Tail(@)]
  PROVE  /\ \A i, n \in Nat : Queued(t, i, n)' => Queued(t, i + 1, n)
         /\ \A i, n \in Nat : Queued(t, i, n) =>
              \/ i = 1 /\ Head(agentCh[t]).kind = "frame" /\ Head(agentCh[t]).n = n
              \/ i - 1 \in Nat /\ Queued(t, i - 1, n)'
         /\ Head(agentCh[t]).kind = "frame" => Queued(t, 1, Head(agentCh[t]).n)
<1> DEFINE k == Len(agentCh[t])
<1>1. /\ Head(agentCh[t]) = agentCh[t][1] /\ k \in Nat \ {0} /\ Len(agentCh'[t]) = k - 1
      /\ \A i \in 1 .. k - 1 : agentCh'[t][i] = agentCh[t][i + 1]
  BY TakesFirst
<1>2. ASSUME NEW i \in Nat, NEW n \in Nat, Queued(t, i, n)' PROVE Queued(t, i + 1, n)
  <2>1. i \in 1 .. k - 1 /\ agentCh'[t][i].kind = "frame" /\ agentCh'[t][i].n = n
    BY <1>1, <1>2 DEF Queued
  <2>2. i + 1 \in 1 .. k
    BY <1>1, <2>1
  <2>3. agentCh[t][i + 1] = agentCh'[t][i]
    BY <1>1, <2>1
  <2> QED
    BY <2>1, <2>2, <2>3 DEF Queued
<1>3. ASSUME NEW i \in Nat, NEW n \in Nat, Queued(t, i, n), i # 1 PROVE i - 1 \in Nat /\ Queued(t, i - 1, n)'
  <2>1. i \in 1 .. k /\ agentCh[t][i].kind = "frame" /\ agentCh[t][i].n = n
    BY <1>3 DEF Queued
  <2>2. i - 1 \in 1 .. k - 1 /\ (i - 1) + 1 = i /\ i - 1 \in Nat
    BY <1>1, <1>3, <2>1
  <2>3. agentCh'[t][i - 1] = agentCh[t][i]
    BY <1>1, <2>2
  <2> QED
    BY <1>1, <2>1, <2>2, <2>3 DEF Queued
<1>4. ASSUME NEW n \in Nat, Queued(t, 1, n) PROVE Head(agentCh[t]).kind = "frame" /\ Head(agentCh[t]).n = n
  BY <1>1, <1>4 DEF Queued
<1>5. Head(agentCh[t]).kind = "frame" => Queued(t, 1, Head(agentCh[t]).n)
  BY <1>1 DEF Queued
<1> QED
  BY <1>2, <1>3, <1>4, <1>5

\* The handler takes a message: a frame, which it will write, or another one.
LEMMA DownTakes ==
  ASSUME TypeOK, NEW t \in Tunnels, DownOK(t), h[t].pc \in {"wait", "loop"},
         agentCh[t] # <<>>, agentCh' = [agentCh EXCEPT ![t] = Tail(@)],
         UNCHANGED <<out, emitted, lost>>,
         \/ h'[t].pc = "unwind"
         \/ h'[t].pc = "loop" /\ Head(agentCh[t]).kind # "frame"
         \/ h'[t].pc = "write" /\ Head(agentCh[t]).kind = "frame" /\ h'[t].item = Head(agentCh[t]).n
  PROVE  DownOK(t)'
<1>0. Head(agentCh[t]) \in TunnelMessages
  BY TakesFirst
<1>1. Head(agentCh[t]).n \in Nat
  BY <1>0, WsAssumption DEF TunnelMessages
<1>2. /\ \A i, n \in Nat : Queued(t, i, n)' => Queued(t, i + 1, n)
      /\ \A i, n \in Nat : Queued(t, i, n) =>
           \/ i = 1 /\ Head(agentCh[t]).kind = "frame" /\ Head(agentCh[t]).n = n
           \/ i - 1 \in Nat /\ Queued(t, i - 1, n)'
      /\ Head(agentCh[t]).kind = "frame" => Queued(t, 1, Head(agentCh[t]).n)
  BY MovesUp
<1>3. /\ \A m : Shown(t, m)' <=> Shown(t, m)
      /\ OutOrder(t)' <=> OutOrder(t)
  BY DEF Shown, OutOrder
<1>4. OutOrder(t)' /\ ~Unasked(t)' /\ ~Fresh(t)' /\ \A m \in Nat : Shown(t, m)' => m <= emitted'[t]
  BY <1>3 DEF DownOK, Unasked, Fresh
<1>5. CASE h'[t].pc = "unwind"
  BY <1>4, <1>5 DEF DownOK, Running
<1>6. CASE h'[t].pc \in {"loop", "write"}
  <2>0. Running(t) /\ h[t].pc # "write" /\ \A n : ~InHand(t, n)
    BY DEF Running, InHand
  <2>1. /\ \A i, n \in Nat : Queued(t, i, n) =>
             /\ n \in 1 .. emitted[t]
             /\ \A m \in Nat : Shown(t, m) => m < n
             /\ \A j, m \in Nat : Queued(t, j, m) /\ j < i => m < n
        /\ \A n \in 1 .. emitted[t] : n \in lost[t] \/ Shown(t, n) \/ \E i \in Nat : Queued(t, i, n)
    BY <2>0 DEF DownOK
  <2>2. h'[t].pc = "write" => Queued(t, 1, h'[t].item) /\ h'[t].item \in Nat
    BY <1>1, <1>2
  <2>3. ASSUME NEW i \in Nat, NEW n \in Nat, Queued(t, i, n)'
        PROVE  /\ n \in 1 .. emitted[t]
               /\ h'[t].pc = "write" => h'[t].item < n
               /\ \A m \in Nat : Shown(t, m)' => m < n
               /\ \A j, m \in Nat : Queued(t, j, m)' /\ j < i => m < n
    <3>0. \A k \in Nat : k + 1 \in Nat
      OBVIOUS
    <3>5. \A k, l \in Nat : Queued(t, k, l)' => Queued(t, k + 1, l)
      BY <1>2, Zenon
    <3>1. Queued(t, i + 1, n) /\ i + 1 \in Nat
      BY <2>3, <3>0, <3>5, Zenon
    <3>2. 1 < i + 1
      BY <2>3 DEF Queued
    <3>3. h'[t].pc = "write" => h'[t].item < n
      BY <2>1, <2>2, <3>1, <3>2
    <3>4. ASSUME NEW j \in Nat, NEW m \in Nat, Queued(t, j, m)', j < i PROVE m < n
      <4>1. Queued(t, j + 1, m) /\ j + 1 \in Nat
        BY <3>0, <3>4, <3>5, Zenon
      <4>2. j + 1 < i + 1
        BY <3>4
      <4> QED
        BY <2>1, <3>1, <4>1, <4>2
    <3> QED
      BY <1>3, <2>1, <3>1, <3>3, <3>4
  <2>4. h'[t].pc = "write" => /\ h'[t].item \in 1 .. emitted[t]
                              /\ \A m \in Nat : Shown(t, m)' => m < h'[t].item
    BY <1>3, <2>1, <2>2
  <2>5. ASSUME NEW n \in 1 .. emitted[t]
        PROVE  n \in lost[t] \/ Shown(t, n)' \/ InHand(t, n)' \/ \E i \in Nat : Queued(t, i, n)'
    <3>1. CASE \E i \in Nat : Queued(t, i, n)
      <4>1. n \in Nat
        BY DEF TypeOK
      <4>2. PICK i \in Nat : Queued(t, i, n)
        BY <3>1
      <4>3. CASE i = 1 /\ Head(agentCh[t]).kind = "frame" /\ Head(agentCh[t]).n = n
        BY <1>6, <4>3 DEF InHand
      <4>4. CASE i - 1 \in Nat /\ Queued(t, i - 1, n)'
        BY <4>4
      <4> QED
        BY <1>2, <4>1, <4>2, <4>3, <4>4
    <3> QED
      BY <1>3, <2>1, <3>1
  <2> QED
    BY <1>4, <2>3, <2>4, <2>5 DEF DownOK
<1> QED
  BY <1>5, <1>6

\* The browser is given the frame in hand.
LEMMA DownWrites ==
  ASSUME TypeOK, NEW t \in Tunnels, DownOK(t), h[t].pc = "write", h'[t].pc = "loop",
         out' = [out EXCEPT ![t] = Append(@, h[t].item)], UNCHANGED <<agentCh, emitted, lost>>
  PROVE  DownOK(t)'
<1> DEFINE o == out'[t]
<1>k. PICK k : k = Len(out[t])
  OBVIOUS
<1>x. PICK x : x = h[t].item
  OBVIOUS
<1> USE <1>k, <1>x
<1>1. Running(t)
  BY DEF Running
<1>2. /\ x \in 1 .. emitted[t] /\ emitted[t] \in 0 .. AgentFrames /\ out[t] \in Seq(1 .. AgentFrames)
      /\ out'[t] = Append(out[t], x)
  BY <1>1 DEF DownOK, TypeOK
<1>3. x \in 1 .. AgentFrames /\ x \in Nat
  BY <1>2, WsAssumption
<1>4. /\ k \in Nat /\ Len(o) = k + 1 /\ o[k + 1] = x
      /\ \A i \in 1 .. k : o[i] = out[t][i]
      /\ o # <<>>
  BY <1>2, <1>3, AppendProperties, LenProperties
<1>5. /\ OutOrder(t)
      /\ \A m \in Nat : Shown(t, m) => m <= emitted[t] /\ m < x
      /\ \A i, n \in Nat : Queued(t, i, n) =>
           /\ n \in 1 .. emitted[t]
           /\ x < n
           /\ \A m \in Nat : Shown(t, m) => m < n
           /\ \A j, m \in Nat : Queued(t, j, m) /\ j < i => m < n
      /\ \A n \in 1 .. emitted[t] :
           n \in lost[t] \/ Shown(t, n) \/ InHand(t, n) \/ \E i \in Nat : Queued(t, i, n)
  BY <1>1 DEF DownOK
<1>6. \A m \in Nat : Shown(t, m)' <=> Shown(t, m) \/ m = x
  <2>1. ASSUME NEW m \in Nat, Shown(t, m)' PROVE Shown(t, m) \/ m = x
    <3>1. PICK i \in 1 .. k + 1 : o[i] = m
      BY <1>4, <2>1 DEF Shown
    <3>2. CASE i = k + 1
      BY <1>4, <3>1, <3>2
    <3>3. CASE i # k + 1
      <4>1. i \in 1 .. k
        BY <1>4, <3>3
      <4> QED
        BY <1>4, <3>1, <4>1 DEF Shown
    <3> QED
      BY <3>2, <3>3
  <2>2. ASSUME NEW m \in Nat, Shown(t, m) PROVE Shown(t, m)'
    <3>1. PICK i \in 1 .. k : out[t][i] = m
      BY <2>2 DEF Shown
    <3>2. i \in 1 .. k + 1 /\ o[i] = m
      BY <1>4, <3>1
    <3> QED
      BY <1>4, <3>2 DEF Shown
  <2>3. Shown(t, x)'
    <3>1. k + 1 \in 1 .. k + 1
      BY <1>4
    <3> QED
      BY <1>4, <3>1 DEF Shown
  <2> QED
    BY <1>3, <2>1, <2>2, <2>3
<1>7. OutOrder(t)'
  <2>1. ASSUME NEW i \in 1 .. k
        PROVE  /\ i > 1 => o[i - 1] < o[i]
               /\ \A n \in 1 .. o[i] : n \in lost[t] \/ \E j \in 1 .. i : o[j] = n
    <3>1. /\ i > 1 => out[t][i - 1] < out[t][i]
          /\ \A n \in 1 .. out[t][i] : n \in lost[t] \/ \E j \in 1 .. i : out[t][j] = n
      BY <1>5, <2>1 DEF OutOrder
    <3>2. o[i] = out[t][i] /\ (i > 1 => o[i - 1] = out[t][i - 1])
      <4>1. i > 1 => i - 1 \in 1 .. k
        BY <1>4
      <4> QED
        BY <1>4, <4>1
    <3>3. \A j \in 1 .. i : o[j] = out[t][j]
      <4>1. \A j \in 1 .. i : j \in 1 .. k
        BY <1>4
      <4> QED
        BY <1>4, <4>1
    <3> HIDE DEF o
    <3> QED
      BY <3>1, <3>2, <3>3
  <2>2. k + 1 > 1 => o[(k + 1) - 1] < o[k + 1]
    <3>1. CASE k = 0
      BY <3>1
    <3>2. CASE k # 0
      <4>1. k \in 1 .. k /\ (k + 1) - 1 = k
        BY <1>4, <3>2
      <4>2. out[t][k] \in 1 .. AgentFrames
        BY <1>2, <4>1, ElementOfSeq
      <4>3. out[t][k] \in Nat
        BY <4>2
      <4>4. Shown(t, out[t][k])
        BY <4>1 DEF Shown
      <4>5. out[t][k] < x
        BY <1>5, <4>3, <4>4
      <4>6. o[k] = out[t][k]
        BY <1>4, <4>1
      <4> QED
        BY <1>4, <4>1, <4>5, <4>6
    <3> QED
      BY <3>1, <3>2
  <2>3. ASSUME NEW n \in 1 .. x PROVE n \in lost[t] \/ \E j \in 1 .. k + 1 : o[j] = n
    <3>1. n \in 1 .. emitted[t] /\ n \in Nat /\ ~(x < n)
      BY <1>2, <1>3
    <3>2. \A i \in Nat : ~Queued(t, i, n)
      BY <1>5, <3>1
    <3>3. n \in lost[t] \/ Shown(t, n) \/ n = x
      BY <1>5, <3>1, <3>2 DEF InHand
    <3>4. Shown(t, n) \/ n = x => Shown(t, n)'
      BY <1>6, <3>1
    <3>5. Shown(t, n)' => \E j \in 1 .. k + 1 : o[j] = n
      BY <1>4 DEF Shown
    <3> QED
      BY <3>3, <3>4, <3>5
  <2>4. \A i \in 1 .. k + 1 : i \in 1 .. k \/ i = k + 1
    BY <1>4
  <2>5. SUFFICES \A i \in 1 .. k + 1 :
                   /\ i > 1 => o[i - 1] < o[i]
                   /\ \A n \in 1 .. o[i] : n \in lost[t] \/ \E j \in 1 .. i : o[j] = n
    BY <1>4 DEF OutOrder
  <2>6. o[k + 1] = x
    BY <1>4
  <2> HIDE DEF o
  <2> QED
    BY <2>1, <2>2, <2>3, <2>4, <2>6
<1>8. /\ \A i, n : Queued(t, i, n)' <=> Queued(t, i, n)
      /\ ~Unasked(t)' /\ ~Fresh(t)'
  BY DEF Queued, Unasked, Fresh
<1>9. ASSUME NEW m \in Nat, Shown(t, m)' PROVE m <= emitted[t]
  <2>1. x <= emitted[t]
    BY <1>2
  <2>2. Shown(t, m) \/ m = x
    BY <1>6, <1>9
  <2>3. Shown(t, m) => m <= emitted[t]
    BY <1>5
  <2> QED
    BY <2>1, <2>2, <2>3, Zenon
<1>10. ASSUME NEW i \in Nat, NEW n \in Nat, Queued(t, i, n)'
       PROVE  /\ n \in 1 .. emitted[t]
              /\ \A m \in Nat : Shown(t, m)' => m < n
              /\ \A j, m \in Nat : Queued(t, j, m)' /\ j < i => m < n
  BY <1>5, <1>6, <1>8, <1>10
<1>11. ASSUME NEW n \in 1 .. emitted[t]
       PROVE  n \in lost[t] \/ Shown(t, n)' \/ \E i \in Nat : Queued(t, i, n)'
  <2>1. n \in Nat
    BY <1>2
  <2> QED
    BY <1>5, <1>6, <1>8, <2>1 DEF InHand
<1> QED
  BY <1>7, <1>8, <1>9, <1>10, <1>11 DEF DownOK

\* The agent sends: a frame finds room, or is recorded as lost while the tunnel is registered.
LEMMA DownSays ==
  ASSUME TypeOK, TunnelsExact, NEW t \in Tunnels, DownOK(t), NEW s \in Sessions, NEW kind \in Kinds,
         AgentSays(t, s, kind)
  PROVE  DownOK(t)'
<1>e. PICK e : e = emitted[t]
  OBVIOUS
<1>k. PICK k : k = Len(agentCh[t])
  OBVIOUS
<1> USE <1>e, <1>k
<1>1. PICK m \in TunnelMessages :
        /\ m.kind = kind /\ m.n = IF kind = "frame" THEN e + 1 ELSE 0
        /\ emitted'[t] = IF kind = "frame" THEN e + 1 ELSE e
        /\ \/ /\ Len(agentCh[t]) < TunnelQueue /\ lost' = lost
              /\ agentCh' = [agentCh EXCEPT ![t] = Append(@, m)]
           \/ agentCh' = agentCh /\ ~(kind = "frame" /\ t \in tunnels) /\ lost' = lost
           \/ /\ agentCh' = agentCh /\ kind = "frame" /\ t \in tunnels
              /\ lost' = [lost EXCEPT ![t] = @ \cup {m.n}]
  BY AgentSaysEffect
<1>2. h' = h /\ out' = out /\ e \in Nat /\ emitted'[t] \in Nat /\ e <= emitted'[t]
  <2>1. h' = h /\ out' = out
    BY DEF AgentSays
  <2>2. e \in Nat
    BY DEF TypeOK
  <2> QED
    BY <1>1, <2>1, <2>2
<1>3. ~Unasked(t) /\ ~Unasked(t)'
  <2>1. agent[t][s] # "none"
    BY DEF AgentSays
  <2>2. ~Unasked(t)
    BY <2>1 DEF DownOK
  <2> QED
    BY <1>2, <2>2 DEF Unasked
<1>4. /\ OutOrder(t) /\ (Fresh(t)' => out'[t] = <<>>) /\ \A n \in Nat : Shown(t, n) => n <= e
  BY <1>2 DEF DownOK, Fresh
<1>5. lost[t] \subseteq lost'[t] /\ (lost' = lost \/ lost'[t] = lost[t] \cup {m.n})
  BY <1>1 DEF TypeOK
<1>6. /\ OutOrder(t)' /\ \A n : Shown(t, n)' <=> Shown(t, n)
      /\ \A n : InHand(t, n)' <=> InHand(t, n)
      /\ Running(t)' <=> Running(t)
  <2>1. OutOrder(t)'
    BY <1>2, <1>4, <1>5, OutKept
  <2> QED
    BY <1>2, <2>1 DEF Shown, InHand, Running
<1>7. \A n \in Nat : Shown(t, n)' => n <= emitted'[t]
  BY <1>2, <1>4, <1>6
<1>8. CASE ~Running(t)
  BY <1>3, <1>4, <1>6, <1>7, <1>8 DEF DownOK
<1>9. CASE Running(t)
  <2>0. /\ h[t].pc = "write" => h[t].item \in 1 .. e
        /\ \A i, n \in Nat : Queued(t, i, n) =>
            /\ n \in 1 .. e
            /\ h[t].pc = "write" => h[t].item < n
            /\ \A q \in Nat : Shown(t, q) => q < n
            /\ \A j, q \in Nat : Queued(t, j, q) /\ j < i => q < n
        /\ h[t].pc = "write" => \A q \in Nat : Shown(t, q) => q < h[t].item
        /\ \A n \in 1 .. e : n \in lost[t] \/ Shown(t, n) \/ InHand(t, n) \/ \E i \in Nat : Queued(t, i, n)
    BY <1>9 DEF DownOK
  <2>1. t \in tunnels
    BY <1>3, <1>9 DEF TunnelsExact, Running, Unasked
  <2>2. /\ \A i, n \in Nat : Queued(t, i, n) => Queued(t, i, n)'
        /\ \A i, n \in Nat : Queued(t, i, n)' =>
             \/ Queued(t, i, n) /\ i <= k
             \/ kind = "frame" /\ n = e + 1 /\ i = k + 1
        /\ kind = "frame" => e + 1 \in lost'[t] \/ Queued(t, k + 1, e + 1)'
        /\ k \in Nat
    <3>1. CASE agentCh' = agentCh
      <4>1. kind = "frame" => e + 1 \in lost'[t]
        <5>1. ASSUME kind = "frame", ~(lost' = [lost EXCEPT ![t] = @ \cup {m.n}]) PROVE FALSE
          <6>1. k < TunnelQueue /\ agentCh' = [agentCh EXCEPT ![t] = Append(@, m)]
            BY <1>1, <2>1, <5>1
          <6>2. k \in Nat /\ Len(agentCh'[t]) = k + 1 /\ Len(agentCh'[t]) = k
            BY <3>1, <6>1, ChannelGrows
          <6> QED
            BY <6>2
        <5> QED
          BY <1>1, <5>1 DEF TypeOK
      <4>2. k \in Nat
        <5>1. agentCh[t] \in Seq(TunnelMessages)
          BY DEF TypeOK, TunnelMessages
        <5> QED
          BY <5>1, LenProperties
      <4>3. \A i, n \in Nat : Queued(t, i, n)' <=> Queued(t, i, n)
        BY <3>1 DEF Queued
      <4>4. \A i, n \in Nat : Queued(t, i, n) => i <= k
        BY <4>2 DEF Queued
      <4> QED
        BY <4>1, <4>2, <4>3, <4>4
    <3>2. CASE k < TunnelQueue /\ agentCh' = [agentCh EXCEPT ![t] = Append(@, m)]
      <4>1. /\ k \in Nat /\ Len(agentCh'[t]) = k + 1 /\ agentCh'[t][k + 1] = m
            /\ \A i \in 1 .. k : agentCh'[t][i] = agentCh[t][i]
        BY <3>2, ChannelGrows
      <4>2. \A i \in Nat : i \in 1 .. k + 1 <=> i \in 1 .. k \/ i = k + 1
        BY <4>1
      <4>3. \A i \in 1 .. k : \A n \in Nat : Queued(t, i, n)' <=> Queued(t, i, n)
        BY <4>1, <4>2 DEF Queued
      <4>4. \A i, n \in Nat : Queued(t, i, n) => i \in 1 .. k
        BY DEF Queued
      <4>5. \A n \in Nat : Queued(t, k + 1, n)' <=> kind = "frame" /\ n = e + 1
        <5>1. k + 1 \in 1 .. k + 1
          BY <4>1
        <5> QED
          BY <1>1, <4>1, <5>1 DEF Queued
      <4>6. \A i, n \in Nat : Queued(t, i, n)' => i \in 1 .. k \/ i = k + 1
        BY <4>1, <4>2 DEF Queued
      <4>9. e + 1 \in Nat /\ k + 1 \in Nat
        BY <1>2, <4>1
      <4>10. \A i, n \in Nat : Queued(t, i, n) => Queued(t, i, n)'
        BY <4>3, <4>4
      <4>11. ASSUME NEW i \in Nat, NEW n \in Nat, Queued(t, i, n)'
             PROVE  \/ Queued(t, i, n) /\ i <= k
                    \/ kind = "frame" /\ n = e + 1 /\ i = k + 1
        <5>1. CASE i \in 1 .. k
          <6>1. i <= k
            BY <4>1, <5>1
          <6> QED
            BY <4>3, <4>11, <5>1, <6>1
        <5>2. CASE i = k + 1
          BY <4>5, <4>11, <5>2
        <5> QED
          BY <4>6, <4>11, <5>1, <5>2
      <4>12. kind = "frame" => Queued(t, k + 1, e + 1)'
        BY <4>5, <4>9
      <4> QED
        BY <4>1, <4>10, <4>11, <4>12
    <3> QED
      BY <1>1, <3>1, <3>2
  <2>3. kind = "frame" => emitted'[t] = e + 1
    BY <1>1
  <2>4. kind # "frame" => emitted'[t] = e
    BY <1>1
  <2>5. ASSUME NEW i \in Nat, NEW n \in Nat, Queued(t, i, n)'
        PROVE  /\ n \in 1 .. emitted'[t]
               /\ h'[t].pc = "write" => h'[t].item < n
               /\ \A q \in Nat : Shown(t, q)' => q < n
               /\ \A j, q \in Nat : Queued(t, j, q)' /\ j < i => q < n
    <3>1. CASE kind = "frame" /\ n = e + 1 /\ i = k + 1
      <4>1. n \in 1 .. emitted'[t]
        BY <1>2, <2>3, <3>1
      <4>2. h'[t].pc = "write" => h'[t].item < n
        BY <1>2, <2>0, <3>1
      <4>3. \A q \in Nat : Shown(t, q)' => q < n
        BY <1>2, <1>4, <1>6, <3>1
      <4>4. ASSUME NEW j \in Nat, NEW q \in Nat, Queued(t, j, q)', j < i PROVE q < n
        <5>0. j # k + 1
          BY <2>2, <3>1, <4>4
        <5>1. q \in 1 .. e
          BY <2>0, <2>2, <4>4, <5>0
        <5> QED
          BY <1>2, <3>1, <5>1
      <4> QED
        BY <4>1, <4>2, <4>3, <4>4
    <3>2. CASE Queued(t, i, n) /\ i <= k
      <4>1. n \in 1 .. e /\ n \in 1 .. emitted'[t]
        BY <1>2, <2>0, <3>2
      <4>2. h'[t].pc = "write" => h'[t].item < n
        BY <1>2, <2>0, <3>2
      <4>3. \A q \in Nat : Shown(t, q)' => q < n
        BY <1>6, <2>0, <3>2
      <4>4. ASSUME NEW j \in Nat, NEW q \in Nat, Queued(t, j, q)', j < i PROVE q < n
        <5>1. j # k + 1
          BY <2>2, <3>2, <4>4
        <5>2. Queued(t, j, q)
          BY <2>2, <4>4, <5>1
        <5> QED
          BY <2>0, <3>2, <4>4, <5>2
      <4> QED
        BY <4>1, <4>2, <4>3, <4>4
    <3> QED
      BY <2>2, <2>5, <3>1, <3>2
  <2>6. h'[t].pc = "write" => /\ h'[t].item \in 1 .. emitted'[t]
                              /\ \A q \in Nat : Shown(t, q)' => q < h'[t].item
    BY <1>2, <1>6, <2>0, <2>3, <2>4
  <2>7. ASSUME NEW n \in 1 .. emitted'[t]
        PROVE  n \in lost'[t] \/ Shown(t, n)' \/ InHand(t, n)' \/ \E i \in Nat : Queued(t, i, n)'
    <3>1. n \in Nat /\ (n \in 1 .. e \/ (kind = "frame" /\ n = e + 1))
      BY <1>2, <2>3, <2>4
    <3>2. CASE n \in 1 .. e
      BY <1>5, <1>6, <2>0, <2>2, <3>1, <3>2
    <3>3. CASE kind = "frame" /\ n = e + 1
      <4>1. k + 1 \in Nat
        BY <2>2
      <4> QED
        BY <2>2, <3>3, <4>1
    <3> QED
      BY <3>1, <3>2, <3>3
  <2> QED
    BY <1>3, <1>4, <1>6, <1>7, <2>5, <2>6, <2>7 DEF DownOK
<1> QED
  BY <1>8, <1>9

\* The handler's steps.
LEMMA DownHandler ==
  ASSUME TypeOK, NEW t \in Tunnels, SessOK(t), LossOK(t), DownOK(t),
         OtherSteps(t) \/ FirstWrite(t) \/ SecondWrite(t)
  PROVE  DownOK(t)'
<1>0. h \in [Tunnels -> HandlerRecords]
  BY DEF TypeOK, HandlerRecords
<1>1. CASE FirstWrite(t) \/ SecondWrite(t)
  <2>1. WriteEnds(t) /\ UNCHANGED <<agentCh, out, emitted, lost>>
    BY <1>1, WritesEnd DEF writeUnchanged
  <2>2. /\ h[t].pc \in {"open", "reopen", "relay", "rerelay", "closing", "reclosing"}
        /\ h'[t].pc \in {"wait", "unwind", "reopen", "loop", "rerelay", "reclosing"}
        /\ h'[t].pc \in {"wait", "reopen"} => h[t].pc \in {"open", "reopen"}
    BY <2>1 DEF WriteEnds, Moved, Relays
  <2> QED
    BY <2>1, <2>2, DownMoves DEF Fresh, Unasked, Running
<1>2. CASE TakeAgentMessage(t) \/ TakeResult(t)
  <2>1. /\ h[t].pc \in {"wait", "loop"} /\ agentCh[t] # <<>> /\ agentCh' = [agentCh EXCEPT ![t] = Tail(@)]
        /\ UNCHANGED <<out, emitted, lost>>
    BY <1>2 DEF TakeAgentMessage, TakeResult, handlerUnchanged, far
  <2>2. \/ h'[t].pc = "unwind"
        \/ h'[t].pc = "loop" /\ Head(agentCh[t]).kind # "frame"
        \/ h'[t].pc = "write" /\ Head(agentCh[t]).kind = "frame" /\ h'[t].item = Head(agentCh[t]).n
    <3>1. CASE TakeResult(t)
      BY <1>0, <3>1 DEF TakeResult, Goto, HandlerRecords
    <3>2. CASE TakeAgentMessage(t)
      <4>1. h'[t].pc = AfterMessage(Head(agentCh[t]).kind) /\ h'[t].item = Head(agentCh[t]).n
        BY <1>0, <3>2 DEF TakeAgentMessage, HandlerRecords
      <4> QED
        BY <4>1 DEF AfterMessage
    <3> QED
      BY <1>2, <3>1, <3>2
  <2> QED
    BY <2>1, <2>2, DownTakes
<1>3. CASE WriteBrowser(t)
  <2>1. h[t].pc = "write" /\ UNCHANGED <<agentCh, emitted, lost, agent>>
    BY <1>3 DEF WriteBrowser, handlerUnchanged, far
  <2>2. CASE out' = [out EXCEPT ![t] = Append(@, h[t].item)] /\ Goto(t, "loop")
    <3>1. h'[t].pc = "loop"
      BY <1>0, <2>2 DEF Goto, HandlerRecords
    <3> QED
      BY <2>1, <2>2, <3>1, DownWrites
  <2>3. CASE Goto(t, "unwind") /\ UNCHANGED out
    <3>1. h'[t].pc = "unwind"
      BY <1>0, <2>3 DEF Goto, HandlerRecords
    <3> QED
      BY <2>1, <2>3, <3>1, DownMoves DEF Fresh, Unasked, Running
  <2> QED
    BY <1>3, <2>2, <2>3 DEF WriteBrowser
<1>4. CASE OtherSteps(t) /\ ~TakeAgentMessage(t) /\ ~TakeResult(t) /\ ~WriteBrowser(t)
  <2>1. OtherEnds(t) /\ UNCHANGED <<out, emitted, lost, agent>>
    BY <1>4, HandlerGoes DEF OtherSteps, Refuse, AcceptBrowser, RegisterTunnel, OpenTimeout,
       TakeBrowserFrame,
       TakeHeartbeatError, Unwind, CloseTunnel, handlerUnchanged, far
  <2>2. agentCh' = agentCh \/ Unwind(t)
    BY <1>4 DEF OtherSteps, Refuse, AcceptBrowser, RegisterTunnel, OpenTimeout, TakeBrowserFrame,
       TakeHeartbeatError, CloseTunnel
  <2>3. Unwind(t) => h'[t].pc = "closed"
    BY <1>0 DEF Unwind, Goto, HandlerRecords
  <2>4. h[t].pc # "write" /\ h'[t].pc # "write"
    <3>1. h[t].pc # "write"
      BY <1>4 DEF OtherSteps, Refuse, AcceptBrowser, RegisterTunnel, OpenTimeout, OpenTimer,
         TakeBrowserFrame,
         TakeHeartbeatError, Unwind, CloseTunnel
    <3>2. h[t].pc = "loop" => TakeBrowserFrame(t) \/ TakeHeartbeatError(t)
      BY <1>4 DEF OtherSteps, Refuse, AcceptBrowser, RegisterTunnel, OpenTimeout, OpenTimer,
         Unwind, CloseTunnel
    <3>3. TakeBrowserFrame(t) \/ TakeHeartbeatError(t) => h'[t].pc \in {"relay", "closing"}
      BY <1>0 DEF TakeBrowserFrame, TakeHeartbeatError, HandlerRecords
    <3> QED
      BY <2>1, <3>1, <3>2, <3>3 DEF OtherEnds, Goes
  <2> QED
    BY <2>1, <2>2, <2>3, <2>4, DownMoves DEF OtherEnds, Goes, Fresh, Unasked, Running
<1> QED
  BY <1>1, <1>2, <1>3, <1>4

\* The agent's frames after a step.
LEMMA StepDown == ASSUME WsInv, [Next]_vars PROVE \A t \in Tunnels : DownOK(t)'
<1>0. TypeOK /\ TunnelsExact /\ \A t \in Tunnels : SessOK(t) /\ LossOK(t) /\ DownOK(t)
  BY DEF WsInv
<1>1. CASE UNCHANGED <<h, agentCh, out, emitted, lost, agent>>
  BY <1>0, <1>1, DownFrame DEF DownSame
<1>2. ASSUME NEW t \in Tunnels, OtherSteps(t) \/ FirstWrite(t) \/ SecondWrite(t)
      PROVE  \A u \in Tunnels : DownOK(u)'
  <2>1. DownOK(t)'
    BY <1>0, <1>2, DownHandler
  <2>2. \A u \in Tunnels : u # t => DownOK(u)'
    BY <1>0, <1>2, HandlerLocal, DownFrame DEF Untouched
  <2> QED
    BY <2>1, <2>2
<1>3. ASSUME NEW t \in Tunnels, NEW s \in Sessions, NEW kind \in Kinds, AgentSays(t, s, kind)
      PROVE  \A u \in Tunnels : DownOK(u)'
  <2>1. DownOK(t)'
    BY <1>0, <1>3, DownSays
  <2>2. ASSUME NEW u \in Tunnels, u # t PROVE DownOK(u)'
    <3>1. h' = h /\ out' = out /\ agent'[u] = agent[u] /\ emitted'[u] = emitted[u]
      BY <1>0, <1>3, <2>2 DEF AgentSays, TypeOK
    <3>2. agentCh'[u] = agentCh[u] /\ lost'[u] = lost[u]
      <4>1. \E m : Dispatch(t, m)
        BY <1>3 DEF AgentSays
      <4> QED
        BY <1>0, <2>2, <4>1 DEF Dispatch, TypeOK
    <3> QED
      BY <1>0, <3>1, <3>2, DownFrame DEF DownSame
  <2> QED
    BY <2>1, <2>2
<1>4. ASSUME NEW t \in Tunnels, ReaderGoroutine(t) PROVE \A u \in Tunnels : DownOK(u)'
  BY <1>0, <1>1, <1>4, ReaderLocal
<1> QED
  BY <1>1, <1>2, <1>3, <1>4, Steps, OutsideDown

-----------------------------------------------------------------------------
(* The theorems *)

\* The invariant holds at the start.
LEMMA WsInit == Init => WsInv
<1> SUFFICES ASSUME Init PROVE WsInv
  OBVIOUS
<1>0. <<>> \in Seq(TunnelMessages) /\ <<>> \in Seq(1 .. AgentFrames) /\ <<>> \in Seq(1 .. BrowserFrames) /\ Len(<<>>) = 0
  BY EmptySeq
<1>1. TypeOK
  BY <1>0, WsFacts, WsAssumption DEF Init, TypeOK, TunnelMessages, HandlerStates, Close
<1>2. TunnelsExact
  BY DEF Init, TunnelsExact
<1>3. StatsOK
  <2>1. {t \in Tunnels : Opening(t)} = {} /\ {t \in Tunnels : Ended(t)} = {} /\ {t \in Tunnels : Relaying(t)} = {}
    BY DEF Init, Opening, Ended, Relaying
  <2>2. Cardinality({}) = 0
    BY FS_EmptySet
  <2>3. \A k \in {"sent", "acked", "failed", "heartbeat", "closed"} : stats[k] = 0
    BY DEF Init
  <2> QED
    BY <2>1, <2>2, <2>3 DEF StatsOK
<1>4. ASSUME NEW t \in Tunnels PROVE SessOK(t) /\ LossOK(t) /\ UpOK(t) /\ DownOK(t)
  <2>1. /\ h[t].pc = "idle" /\ rd[t].pc = "off" /\ rd[t].item = 0 /\ frames[t] = NoFrame /\ inbox[t] = <<>>
        /\ unread[t] = {} /\ h[t].sess = 0 /\ registered = 0 /\ latest = 0
        /\ t \notin ctx /\ out[t] = <<>> /\ agentCh[t] = <<>> /\ emitted[t] = 0
        /\ \A s \in Sessions : agent[t][s] = "none"
    BY DEF Init, Close
  <2>2. SessOK(t) /\ Fresh(t) /\ Unasked(t) /\ Running(t) /\ ~Relays(t)
    BY <2>1 DEF SessOK, Fresh, Unasked, Running, Relays
  <2>3. /\ InOrder(t) /\ TakenOver(t) = 0 /\ ~HoldsFrame(t)
        /\ SentUpTo(t, 0) /\ NothingAfter(t, 0) /\ LossOK(t)
    BY <1>0, <2>1 DEF InOrder, TakenOver, HandedOver, HoldsFrame, SentUpTo, NothingAfter, LossOK
  <2>4. UpOK(t)
    BY <2>1, <2>2, <2>3 DEF UpOK
  <2>5. OutOrder(t) /\ (\A n : ~Shown(t, n)) /\ (\A i, n : ~Queued(t, i, n))
    BY <1>0, <2>1 DEF OutOrder, Shown, Queued
  <2>6. DownOK(t)
    BY <2>1, <2>2, <2>5 DEF DownOK
  <2> QED
    BY <2>2, <2>3, <2>4, <2>6
<1> QED
  BY <1>1, <1>2, <1>3, <1>4 DEF WsInv

\* The invariant is inductive.
LEMMA WsInductive == Spec => []WsInv
<1>1. ASSUME WsInv, [Next]_vars PROVE WsInv'
  BY <1>1, StepTypes, StepTunnels, StepStats, StepLoss, StepUp, StepDown DEF WsInv
<1> QED
  BY <1>1, WsInit, PTL DEF Spec

\* Every variable keeps its type: no message is ever put into a channel that is
\* full, and the frames of both directions are frames that were sent.
THEOREM TunnelTypes == Spec => []TypeOK
<1>1. WsInv => TypeOK
  BY DEF WsInv
<1> QED
  BY <1>1, WsInductive, PTL

\* proxyWebSocket leaves no entry in s.tunnels behind, whichever way it ends, and
\* no entry is missing while the handler can still use a message.
THEOREM NoTunnelLeaks == Spec => []TunnelsExact
<1>1. WsInv => TunnelsExact
  BY DEF WsInv
<1> QED
  BY <1>1, WsInductive, PTL

\* The counters of proxyStats balance: an open that was sent is acknowledged,
\* failed or under way, every accepted tunnel is counted when it ends, and only an
\* acknowledged one counts a heartbeat failure.
THEOREM TunnelCounters == Spec => []WsStatsBalance
<1>1. ASSUME WsInv PROVE WsStatsBalance
  <2>1. StatsOK /\ stats["heartbeat"] \in Nat /\ stats["acked"] \in Nat
    BY <1>1 DEF WsInv, TypeOK
  <2>2. Cardinality({t \in Tunnels : Relaying(t)}) \in Nat
    <3>1. {t \in Tunnels : Relaying(t)} \in SUBSET Tunnels
      OBVIOUS
    <3> QED
      BY <3>1, FS_Subset, FS_CardinalityType, WsAssumption
  <2>3. \A x, y, z \in Nat : x + y <= z => x <= z
    OBVIOUS
  <2>4. stats["heartbeat"] <= stats["acked"]
    BY <2>1, <2>2, <2>3 DEF StatsOK
  <2> QED
    BY <2>1, <2>4 DEF StatsOK, WsStatsBalance
<1> QED
  BY <1>1, WsInductive, PTL

\* The agent receives the browser's frames in order, however often its connection
\* breaks and the write is tried again on a newer one; and a frame that it does not
\* receive before a later one has gone down with a connection that it has replaced.
THEOREM AgentFramesInOrder == Spec => []FramesToAgent
<1>1. WsInv => FramesToAgent
  BY DEF WsInv, UpOK, InOrder, FramesToAgent
<1> QED
  BY <1>1, WsInductive, PTL

\* The browser gets the agent's frames in order, none twice, and misses only the
\* ones that dispatchTunnelMessage dropped because the channel was full.
THEOREM BrowserFramesInOrder == Spec => []FramesToBrowser
<1>1. WsInv => FramesToBrowser
  BY DEF WsInv, DownOK, OutOrder, FramesToBrowser
<1> QED
  BY <1>1, WsInductive, PTL
===============================================================================
