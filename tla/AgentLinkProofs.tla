--------------------------- MODULE AgentLinkProofs ---------------------------
(***************************************************************************)
(* Proofs about AgentLink, for any number of commands, connections and     *)
(* profiles: the link invariant and that every step keeps it.  The         *)
(* theorems are about the process as a whole, in DashboardProofs.          *)
(***************************************************************************)
EXTENDS AgentLink, TLAPS

Failed == {"unknown", "refused"}

\* The session in the table is the last one that connected, so that a session
\* that was looked up is never newer than it.
TableInv ==
  /\ current \in {0, connected}
  /\ \A c \in Senders : chosen[c] <= connected

\* What FrameDelivery says of the frames, and that only a frame that was handed
\* to a session is sent.
FrameInv ==
  \A f \in Attempts :
    /\ f \in onWire => over[f] # 0
    /\ result[f] = "sent" => f \in onWire
    /\ result[f] = "refused" => f \notin onWire

\* Where a call is tells which of its two frames exist; the second one exists
\* only after the first has failed, on a newer session.
CallOK(c) ==
  /\ stage[c] # "done" => reply[c] = "none"
  /\ stage[c] \in {"idle", "lookup", "check"} => over[<<c, 1>>] = 0
  /\ stage[c] \in {"idle", "lookup", "check", "first", "again"} => over[<<c, 2>>] = 0
  /\ stage[c] \in {"first", "again"} => over[<<c, 1>>] = chosen[c]
  /\ stage[c] = "again" => result[<<c, 1>>] \in Failed
  /\ over[<<c, 2>>] # 0 => /\ over[<<c, 1>>] = chosen[c]
                           /\ chosen[c] < over[<<c, 2>>]
                           /\ result[<<c, 1>>] \in Failed
  /\ reply[c] = "accepted" => result[<<c, 1>>] = "sent" \/ result[<<c, 2>>] = "sent"

CallInv == \A c \in Senders : CallOK(c)

\* The inductive invariant.
LinkInv == LinkTypeOK /\ TableInv /\ FrameInv /\ CallInv

\* The two frames of a call are different from each other and from the frames
\* of other calls.
LEMMA AttemptFacts ==
  /\ \A c \in Senders : <<c, 1>> \in Attempts /\ <<c, 2>> \in Attempts
  /\ \A c, d \in Senders : <<c, 1>> # <<d, 2>>
  /\ \A c, d \in Senders, n \in {1, 2} : <<c, n>> = <<d, n>> => c = d
  BY DEF Attempts

\* A step that leaves what belongs to a call alone keeps its part of CallInv.
SameCall(d) ==
  /\ stage'[d] = stage[d] /\ chosen'[d] = chosen[d] /\ reply'[d] = reply[d]
  /\ over'[<<d, 1>>] = over[<<d, 1>>] /\ over'[<<d, 2>>] = over[<<d, 2>>]
  /\ result'[<<d, 1>>] = result[<<d, 1>>] /\ result'[<<d, 2>>] = result[<<d, 2>>]

LEMMA SameCallKeeps ==
  ASSUME CallInv, NEW c, CallOK(c)', \A d \in Senders \ {c} : SameCall(d)
  PROVE  CallInv'
<1>1. ASSUME NEW d \in Senders \ {c} PROVE CallOK(d)'
  <2>1. CallOK(d) /\ SameCall(d)
    BY DEF CallInv
  <2> QED
    BY <2>1 DEF CallOK, SameCall
<1> QED
  BY <1>1 DEF CallInv

LEMMA LinkStarts == LinkInit => LinkInv
<1> SUFFICES ASSUME LinkInit PROVE LinkInv
  OBVIOUS
<1> USE DEF LinkInit, F!Init
<1>1. LinkTypeOK
  BY MaxLinksAssumption DEF LinkTypeOK, Replies, F!Answers
<1>2. TableInv
  BY DEF TableInv
<1>3. FrameInv
  BY DEF FrameInv
<1>4. CallInv
  BY AttemptFacts DEF CallInv, CallOK
<1> QED
  BY <1>1, <1>2, <1>3, <1>4 DEF LinkInv

-----------------------------------------------------------------------------
(* The steps of a call *)

LEMMA BeginKeeps ==
  ASSUME LinkInv, NEW c \in Senders, NEW ok \in BOOLEAN, BeginCommand(c, ok)
  PROVE  LinkInv'
<1> USE AttemptFacts DEF LinkInv, BeginCommand, To, Reply, sessionState
<1>1. LinkTypeOK'
  BY DEF LinkTypeOK, Replies
<1>2. TableInv'
  BY DEF TableInv, LinkTypeOK
<1>3. FrameInv'
  BY DEF FrameInv, LinkTypeOK
<1>4. \A d \in Senders \ {c} : SameCall(d)
  BY DEF SameCall, LinkTypeOK
<1>5. CallOK(c)
  BY DEF CallInv
<1>6. \/ stage'[c] = "lookup" /\ reply'[c] = reply[c]
      \/ stage'[c] = "done" /\ reply'[c] = "unauthorized"
  BY DEF LinkTypeOK
<1>7. CallOK(c)'
  BY <1>5, <1>6 DEF CallOK
<1>8. CallInv'
  BY <1>4, <1>7, SameCallKeeps
<1> QED
  BY <1>1, <1>2, <1>3, <1>8

LEMMA LookupKeeps ==
  ASSUME LinkInv, NEW c \in Senders, Lookup(c)
  PROVE  LinkInv'
<1> USE AttemptFacts DEF LinkInv, Lookup, To, Reply, sessionState
<1>1. LinkTypeOK'
  BY DEF LinkTypeOK, Replies
<1>2. TableInv'
  BY DEF TableInv, LinkTypeOK
<1>3. FrameInv'
  BY DEF FrameInv, LinkTypeOK
<1>4. \A d \in Senders \ {c} : SameCall(d)
  BY DEF SameCall, LinkTypeOK
<1>5. CallOK(c)
  BY DEF CallInv
<1>6. \/ stage'[c] = "check" /\ reply'[c] = reply[c]
      \/ stage'[c] = "done" /\ reply'[c] = "offline"
  BY DEF LinkTypeOK
<1>7. CallOK(c)'
  BY <1>5, <1>6 DEF CallOK
<1>8. CallInv'
  BY <1>4, <1>7, SameCallKeeps
<1> QED
  BY <1>1, <1>2, <1>3, <1>8

LEMMA CheckKeeps ==
  ASSUME LinkInv, NEW c \in Senders, Check(c)
  PROVE  LinkInv'
<1> USE AttemptFacts DEF LinkInv, Check, To, Reply, sessionState
<1>1. LinkTypeOK'
  BY DEF LinkTypeOK, Replies
<1>2. TableInv'
  BY DEF TableInv, LinkTypeOK
<1>3. FrameInv'
  <2>1. \A f \in Attempts : over[f] # 0 => over'[f] = over[f]
    BY DEF CallInv, CallOK, LinkTypeOK
  <2> QED
    BY <2>1 DEF FrameInv
<1>4. \A d \in Senders \ {c} : SameCall(d)
  BY DEF SameCall, LinkTypeOK
<1>5. CallOK(c)
  BY DEF CallInv
<1>6. /\ over'[<<c, 2>>] = over[<<c, 2>>]
      /\ \/ stage'[c] = "first" /\ reply'[c] = reply[c] /\ over'[<<c, 1>>] = chosen[c]
         \/ stage'[c] = "done" /\ reply'[c] = "unsupported" /\ over'[<<c, 1>>] = over[<<c, 1>>]
  BY DEF LinkTypeOK
<1>7. CallOK(c)'
  BY <1>5, <1>6 DEF CallOK
<1>8. CallInv'
  BY <1>4, <1>7, SameCallKeeps
<1> QED
  BY <1>1, <1>2, <1>3, <1>8

LEMMA RetryKeeps ==
  ASSUME LinkInv, NEW c \in Senders, Retry(c)
  PROVE  LinkInv'
<1> USE AttemptFacts DEF LinkInv, Retry, To, Reply, sessionState
<1>1. LinkTypeOK'
  BY DEF LinkTypeOK, Replies
<1>2. TableInv'
  BY DEF TableInv, LinkTypeOK
<1>3. FrameInv'
  <2>1. \A f \in Attempts : over[f] # 0 => over'[f] = over[f]
    BY DEF CallInv, CallOK, LinkTypeOK
  <2> QED
    BY <2>1 DEF FrameInv
<1>4. \A d \in Senders \ {c} : SameCall(d)
  BY DEF SameCall, LinkTypeOK
<1>5. CallOK(c)
  BY DEF CallInv
<1>6. /\ over'[<<c, 1>>] = over[<<c, 1>>]
      /\ \/ /\ stage'[c] = "second" /\ reply'[c] = reply[c]
            /\ over'[<<c, 2>>] = current /\ chosen[c] < current
         \/ stage'[c] = "done" /\ reply'[c] = "failed" /\ over'[<<c, 2>>] = over[<<c, 2>>]
  <2>1. MayRetry(c) => chosen[c] < current
    BY MaxLinksAssumption DEF MayRetry, LinkTypeOK, TableInv
  <2> QED
    BY <2>1 DEF LinkTypeOK
<1>7. CallOK(c)'
  BY <1>5, <1>6 DEF CallOK
<1>8. CallInv'
  BY <1>4, <1>7, SameCallKeeps
<1> QED
  BY <1>1, <1>2, <1>3, <1>8

LEMMA FirstKeeps ==
  ASSUME LinkInv, NEW c \in Senders, NEW a \in F!Answers, FirstReturns(c, a)
  PROVE  LinkInv'
<1> USE AttemptFacts DEF LinkInv, FirstReturns, F!Answer, F!Answers, To, Reply, sessionState
<1>1. LinkTypeOK'
  BY DEF LinkTypeOK, Replies
<1>2. TableInv'
  BY DEF TableInv, LinkTypeOK
<1>3. FrameInv'
  BY DEF FrameInv, LinkTypeOK
<1>4. \A d \in Senders \ {c} : SameCall(d)
  BY DEF SameCall, LinkTypeOK
<1>5. CallOK(c)
  BY DEF CallInv
<1>6. /\ result'[<<c, 1>>] = a /\ result'[<<c, 2>>] = result[<<c, 2>>]
      /\ IF a = "sent" THEN stage'[c] = "done"
                       ELSE stage'[c] = "again" /\ reply'[c] = reply[c]
  BY DEF LinkTypeOK
<1>7. CallOK(c)'
  BY <1>5, <1>6 DEF CallOK, Failed
<1>8. CallInv'
  BY <1>4, <1>7, SameCallKeeps
<1> QED
  BY <1>1, <1>2, <1>3, <1>8

LEMMA SecondKeeps ==
  ASSUME LinkInv, NEW c \in Senders, NEW a \in F!Answers, SecondReturns(c, a)
  PROVE  LinkInv'
<1> USE AttemptFacts DEF LinkInv, SecondReturns, AfterRetry, F!Answer, F!Answers, To, Reply, sessionState
<1>1. LinkTypeOK'
  BY DEF LinkTypeOK, Replies
<1>2. TableInv'
  BY DEF TableInv, LinkTypeOK
<1>3. FrameInv'
  BY DEF FrameInv, LinkTypeOK
<1>4. \A d \in Senders \ {c} : SameCall(d)
  BY DEF SameCall, LinkTypeOK
<1>5. CallOK(c)
  BY DEF CallInv
<1>6. /\ result'[<<c, 2>>] = a /\ result'[<<c, 1>>] = result[<<c, 1>>]
      /\ stage'[c] = "done" /\ (reply'[c] = "accepted" => a = "sent")
  BY DEF LinkTypeOK
<1>7. CallOK(c)'
  BY <1>5, <1>6 DEF CallOK
<1>8. CallInv'
  BY <1>4, <1>7, SameCallKeeps
<1> QED
  BY <1>1, <1>2, <1>3, <1>8

\* A frame is sent only if it was handed to a connection, none of which is
\* number 0.
LEMMA SendKeeps ==
  ASSUME LinkInv, NEW f \in Attempts, SendFrame(f)
  PROVE  LinkInv'
<1> USE DEF LinkInv, SendFrame, F!Deliver, sessionState
<1>1. LinkTypeOK'
  BY DEF LinkTypeOK
<1>2. TableInv' /\ CallInv'
  BY DEF TableInv, CallInv, CallOK
<1>3. over[f] # 0
  BY DEF LinkTypeOK, Links
<1>4. FrameInv'
  BY <1>3 DEF FrameInv
<1> QED
  BY <1>1, <1>2, <1>4

-----------------------------------------------------------------------------
(* The agent's connections *)

LEMMA ConnectionKeeps == ASSUME LinkInv, ConnectionStep PROVE LinkInv'
<1> USE DEF LinkInv
<1>1. UNCHANGED callState
  BY DEF ConnectionStep, Connect, Drop, Forget, Declare, Revoke
<1>2. FrameInv' /\ CallInv'
  BY <1>1 DEF FrameInv, CallInv, CallOK, callState
<1>3. ASSUME NEW s \in Links, Drop(s) \/ Forget(s) \/ \E p \in Profiles : Declare(s, p)
      PROVE  LinkTypeOK' /\ TableInv'
  <2>1. CASE Drop(s)
    BY <1>1, <2>1 DEF Drop, Table!Drop, LinkTypeOK, TableInv, callState
  <2>2. CASE Forget(s)
    BY <1>1, <2>2, MaxLinksAssumption DEF Forget, Table!Forget, LinkTypeOK, TableInv, callState
  <2>3. CASE \E p \in Profiles : Declare(s, p)
    BY <1>1, <2>3 DEF Declare, LinkTypeOK, TableInv, callState
  <2> QED
    BY <1>3, <2>1, <2>2, <2>3
<1>4. CASE Connect
  <2>1. connected + 1 \in Links
    BY <1>4, MaxLinksAssumption DEF Connect, Table!Connect, LinkTypeOK, Links
  <2>2. LinkTypeOK'
    BY <1>1, <1>4, <2>1 DEF Connect, Table!Connect, LinkTypeOK, callState, Links
  <2>3. TableInv'
    BY <1>1, <1>4 DEF Connect, Table!Connect, TableInv, LinkTypeOK, callState
  <2> QED
    BY <1>2, <2>2, <2>3
<1>5. CASE Revoke
  BY <1>1, <1>2, <1>5, MaxLinksAssumption DEF Revoke, Table!Revoke, LinkTypeOK, TableInv, callState
<1> QED
  BY <1>2, <1>3, <1>4, <1>5 DEF ConnectionStep

LEMMA LinkKeeps == LinkInv /\ [LinkNext]_linkVars => LinkInv'
<1> SUFFICES ASSUME LinkInv, [LinkNext]_linkVars PROVE LinkInv'
  OBVIOUS
<1>1. CASE UNCHANGED linkVars
  BY <1>1 DEF linkVars, sessionState, LinkInv, LinkTypeOK, TableInv, FrameInv, CallInv, CallOK
<1>2. CASE LinkNext
  BY <1>2, BeginKeeps, LookupKeeps, CheckKeeps, RetryKeeps, FirstKeeps, SecondKeeps,
     SendKeeps, ConnectionKeeps
  DEF LinkNext, SenderStep
<1> QED
  BY <1>1, <1>2

\* The invariant gives the two properties of commands.
LEMMA LinkPromises == LinkInv => AcceptedWasSent /\ TwiceOnlyAcrossReconnect
<1> SUFFICES ASSUME LinkInv PROVE AcceptedWasSent /\ TwiceOnlyAcrossReconnect
  OBVIOUS
<1> USE AttemptFacts DEF LinkInv, FrameInv, CallInv, CallOK
<1>1. AcceptedWasSent
  BY DEF AcceptedWasSent
<1>2. TwiceOnlyAcrossReconnect
  BY DEF TwiceOnlyAcrossReconnect, Failed
<1> QED
  BY <1>1, <1>2

-----------------------------------------------------------------------------
\* Commands and their retry use the connections of an agent within the contract
\* of FrameDelivery: every step sends a frame, answers a write, or leaves the
\* frames alone.  Together with ImplementsDelivery of OutboundSchedulerProofs, what
\* this module assumes of enqueue is what the scheduler does.
THEOREM LinkImplementsDelivery == LinkSpec => F!Spec
<1>1. LinkInit => F!Init
  BY DEF LinkInit
<1>2. [LinkNext]_linkVars => [F!Next]_(F!vars)
  <2> SUFFICES ASSUME [LinkNext]_linkVars PROVE [F!Next]_(F!vars)
    OBVIOUS
  <2> USE AttemptFacts DEF F!vars
  <2>1. CASE UNCHANGED linkVars
    BY <2>1 DEF linkVars
  <2>2. ASSUME NEW c \in Senders, SenderStep(c) \/ \E ok \in BOOLEAN : BeginCommand(c, ok)
        PROVE  [F!Next]_(F!vars)
    <3>1. CASE \E ok \in BOOLEAN : BeginCommand(c, ok)
      BY <3>1 DEF BeginCommand
    <3>2. CASE Lookup(c) \/ Check(c) \/ Retry(c)
      BY <3>2 DEF Lookup, Check, Retry
    <3>3. CASE \E a \in F!Answers : FirstReturns(c, a) \/ SecondReturns(c, a)
      BY <3>3 DEF FirstReturns, SecondReturns, F!Next
    <3> QED
      BY <2>2, <3>1, <3>2, <3>3 DEF SenderStep
  <2>3. ASSUME NEW f \in Attempts, SendFrame(f) PROVE [F!Next]_(F!vars)
    BY <2>3 DEF SendFrame, F!Next
  <2>4. CASE ConnectionStep
    BY <2>4 DEF ConnectionStep, Connect, Drop, Forget, Declare, Revoke, callState
  <2> QED
    BY <2>1, <2>2, <2>3, <2>4 DEF LinkNext
<1> QED
  BY <1>1, <1>2, PTL DEF LinkSpec, F!Spec
==============================================================================
