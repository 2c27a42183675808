----------------------- MODULE OutboundSchedulerProofs -----------------------
(***************************************************************************)
(* Machine-checked proofs about OutboundScheduler, for every set of calls, *)
(* every lane capacity and all positive weights.                           *)
(***************************************************************************)
EXTENDS OutboundScheduler, FiniteSetTheorems, SequenceTheorems, TLAPS

Distinct(q) == \A i, j \in 1 .. Len(q) : q[i] = q[j] => i = j
Occurs(f, q) == \E i \in 1 .. Len(q) : q[i] = f

\* Where a frame is, and what its caller can have been told by then.
LaneInv ==
  \A l \in Lanes : /\ Len(queue[l]) <= LaneCapacity
                   /\ Distinct(queue[l])
                   /\ \A f \in Frames : Occurs(f, queue[l]) => lane[f] = l /\ fate[f] = "queued"

CallInv ==
  \A f \in Frames : /\ f \in inflight => fate[f] = "writing"
                    /\ pc[f] \in {"idle", "select"} => fate[f] = "none"
                    /\ result[f] # "none" => pc[f] = "returned"
                    /\ done[f] = "nil" => fate[f] = "written"
                    /\ done[f] = "writeErr" => fate[f] = "failed"
                    /\ done[f] = "closed" => fate[f] = "drained"

FrameInv == LaneInv /\ CallInv /\ ResultTruthful

\* Frames that may still be popped before lane l has its next turn.
Remaining(l) ==
  IF prio = l THEN 0
  ELSE budget + IF l = prio + 2 \/ l + 1 = prio THEN Weight[3 - prio - l] ELSE 0

BypassInv ==
  /\ run \in {"check", "park"} => prio = Critical /\ budget = Weight[Critical]
  /\ run \notin {"drain", "exit"} =>
       /\ budget <= Weight[prio]
       /\ budget < Weight[prio] => bypass[prio] = 0
       /\ \A l \in Lanes : /\ queue[l] = <<>> => bypass[l] = 0
                           /\ bypass[l] + Remaining(l) <= OtherWeights(l)
  /\ BypassBound

-----------------------------------------------------------------------------
\* The weights are positive numbers, one for each of the three lanes.
LEMMA LaneFacts == /\ Lanes = {0, 1, 2}
                   /\ Weight \in [Lanes -> Nat \ {0}]
                   /\ Weight[0] = CriticalWeight
                   /\ Weight[1] = InteractiveWeight
                   /\ Weight[2] = BulkWeight
<1>1. Lanes = {0, 1, 2}
  BY DEF Lanes, Critical, Bulk
<1> QED
  BY <1>1, WeightAssumption DEF Weight, Critical, Interactive

\* Popping the head of a non-empty lane: the head is a frame, the tail is a lane.
LEMMA PopType ==
  ASSUME NEW q \in Seq(Frames), q # <<>>
  PROVE  /\ Head(q) \in Frames /\ Tail(q) \in Seq(Frames)
         /\ Len(q) \in Nat \ {0} /\ Len(Tail(q)) = Len(q) - 1
         /\ Head(q) = q[1]
         /\ \A i \in 1 .. Len(Tail(q)) : i + 1 \in 1 .. Len(q) /\ Tail(q)[i] = q[i + 1]
OBVIOUS

\* TypeOK, the type of every field of the scheduler, is an invariant.
THEOREM TypeCorrect == Spec => []TypeOK
<1>1. Init => TypeOK
  <2> SUFFICES ASSUME Init PROVE TypeOK
    OBVIOUS
  <2>1. prio \in Lanes /\ budget \in Nat
    BY LaneFacts DEF Init, Critical
  <2>2. queue \in [Lanes -> Seq(Frames)]
    BY DEF Init
  <2> QED
    BY <2>1, <2>2 DEF Init, TypeOK, CallStates, Results, RunStates, Fates
<1>2. TypeOK /\ [Next]_vars => TypeOK'
  <2> SUFFICES ASSUME TypeOK, [Next]_vars PROVE TypeOK'
    OBVIOUS
  <2> USE DEF TypeOK, CallStates, Results, RunStates, Fates
  <2>1. ASSUME NEW f \in Frames, EnqueueStart(f) PROVE TypeOK'
    <3>1. pc' \in [Frames -> CallStates] /\ result' \in [Frames -> Results]
      BY <2>1 DEF EnqueueStart, Return
    <3> QED
      BY <2>1, <3>1 DEF EnqueueStart, chanVars, runVars, statVars
  <2>2. ASSUME NEW f \in Frames, Push(f) PROVE TypeOK'
    <3>1. queue' \in [Lanes -> Seq(Frames)]
      BY <2>2 DEF Push
    <3>2. pc' \in [Frames -> CallStates] /\ fate' \in [Frames -> Fates]
      BY <2>2 DEF Push
    <3> QED
      BY <2>2, <3>1, <3>2 DEF Push, runVars, statVars
  <2>3. ASSUME NEW f \in Frames, Signal(f) PROVE TypeOK'
    BY <2>3 DEF Signal, callVars, chanVars, runVars, statVars
  <2>4. ASSUME NEW f \in Frames, QueueFull(f) PROVE TypeOK'
    BY <2>4 DEF QueueFull, callVars, chanVars, runVars, statVars, Return
  <2>5. ASSUME NEW f \in Frames, ReturnCtx(f) PROVE TypeOK'
    BY <2>5 DEF ReturnCtx, callVars, chanVars, runVars, statVars, Return
  <2>6. ASSUME NEW f \in Frames, ReturnStopped(f) PROVE TypeOK'
    BY <2>6 DEF ReturnStopped, callVars, chanVars, runVars, statVars, Return, SeesStop
  <2>7. ASSUME NEW f \in Frames, ReturnDone(f) PROVE TypeOK'
    BY <2>7 DEF ReturnDone, callVars, chanVars, runVars, statVars, Return
  <2>8. ASSUME NEW f \in Frames, CtxEnds(f) PROVE TypeOK'
    BY <2>8 DEF CtxEnds, callVars, chanVars, runVars, statVars
  <2>9. ASSUME NEW f \in Frames, NEW r \in {"nil", "writeErr"}, WriteReturns(f, r) PROVE TypeOK'
    <3>1. writeErrors' \in Nat /\ dequeued' \in [Lanes -> Nat]
      BY <2>9 DEF WriteReturns, DequeuedAfter
    <3>2. done' \in [Frames -> {"empty", "nil", "writeErr", "closed"}]
      BY <2>9 DEF WriteReturns
    <3>3. fate' \in [Frames -> Fates]
      BY <2>9 DEF WriteReturns
    <3> QED
      BY <2>9, <3>1, <3>2, <3>3 DEF WriteReturns, callVars
  <2>10. CASE TryPop
    <3>1. /\ Head(queue[prio]) \in Frames
          /\ queue' \in [Lanes -> Seq(Frames)]
      BY <2>10, PopType DEF TryPop, LanesPopped, HasBudget
    <3>2. bypass' \in [Lanes -> Nat]
      <4>1. \A k \in Lanes : bypass[k] + 1 \in Nat
        OBVIOUS
      <4>2. bypass' = Overtake(prio)
        BY <2>10 DEF TryPop, LanesPopped, HasBudget
      <4> HIDE DEF TypeOK
      <4> QED
        BY <4>1, <4>2, Zenon DEF Overtake
    <3>3. budget' \in Nat
      BY <2>10 DEF TryPop, LanesPopped, HasBudget
    <3> QED
      BY <2>10, <3>1, <3>2, <3>3 DEF TryPop, callVars, statVars, LanesPopped, HasBudget
  <2>11. CASE NextLane
    <3>1. prio' \in Lanes
      BY <2>11, LaneFacts DEF NextLane, Critical, Bulk
    <3>2. budget' \in Nat
      BY <2>11, <3>1, LaneFacts DEF NextLane
    <3> QED
      BY <2>11, <3>1, <3>2 DEF NextLane, callVars, chanVars, statVars
  <2>12. CASE CheckStop
    BY <2>12 DEF CheckStop, callVars, chanVars, runVars, statVars
  <2>13. CASE Woken
    BY <2>13 DEF Woken, callVars, chanVars, runVars, statVars
  <2>14. CASE ParkStopped
    BY <2>14 DEF ParkStopped, callVars, chanVars, runVars, statVars, ParkSeesStop
  <2>15. CASE DrainFrame
    BY <2>15, PopType DEF DrainFrame, callVars, chanVars, runVars, statVars, DrainResult, LanesPopped
  <2>16. CASE DrainNextLane
    <3>1. prio' \in Lanes
      BY <2>16, LaneFacts DEF DrainNextLane, Bulk, DrainCursor
    <3> QED
      BY <2>16, <3>1 DEF DrainNextLane, callVars, chanVars, statVars, DrainCursor
  <2>17. CASE Close
    BY <2>17 DEF Close, callVars, chanVars, runVars, statVars
  <2>18. CASE ConnDown
    BY <2>18 DEF ConnDown, callVars, chanVars, runVars, statVars
  <2>19. CASE UNCHANGED vars
    BY <2>19 DEF vars, callVars, chanVars, runVars, statVars
  <2> QED
    BY <2>1, <2>2, <2>3, <2>4, <2>5, <2>6, <2>7, <2>8, <2>9, <2>10, <2>11, <2>12, <2>13, <2>14, <2>15, <2>16, <2>17, <2>18, <2>19
    DEF Next, CallStep, WriteStep, LoopStep
<1> QED
  BY <1>1, <1>2, PTL DEF Spec

-----------------------------------------------------------------------------
\* The overtaking bound starts out true: every head of a lane is passed by at most one round of
\* the other lanes' weights (run, outbound_scheduler.go).
LEMMA BypassInit == Init => BypassInv
<1> SUFFICES ASSUME Init PROVE BypassInv
  OBVIOUS
<1>1. /\ prio = 0 /\ budget = Weight[0] /\ run = "pop"
      /\ \A l \in Lanes : bypass[l] = 0
  BY DEF Init, Critical
<1>2. \A l \in Lanes : Remaining(l) <= OtherWeights(l) /\ 0 <= OtherWeights(l)
  BY <1>1, LaneFacts, WeightAssumption DEF Remaining, OtherWeights
<1>3. \A l \in Lanes : bypass[l] + Remaining(l) = Remaining(l)
  BY <1>1, LaneFacts DEF Remaining
<1> QED
  BY <1>1, <1>2, <1>3, LaneFacts DEF BypassInv, BypassBound, Critical

\* Every step keeps it.
LEMMA BypassStep == TypeOK /\ BypassInv /\ [Next]_vars => BypassInv'
<1> SUFFICES ASSUME TypeOK, BypassInv, [Next]_vars PROVE BypassInv'
  OBVIOUS
<1>0. /\ prio \in {0, 1, 2} /\ budget \in Nat /\ Lanes = {0, 1, 2}
      /\ bypass[0] \in Nat /\ bypass[1] \in Nat /\ bypass[2] \in Nat
  BY LaneFacts DEF TypeOK
<1>1. CASE UNCHANGED <<run, prio, budget, queue, bypass>>
  BY <1>1 DEF BypassInv, BypassBound, Remaining, OtherWeights
<1>2. ASSUME NEW f \in Frames, Push(f) PROVE BypassInv'
  <2>1. \A l \in Lanes : queue'[l] = <<>> => queue[l] = <<>>
    <3>1. \A q \in Seq(Frames) : Append(q, f) # <<>>
      BY AppendProperties
    <3>2. \A l \in Lanes : queue[l] \in Seq(Frames) /\ queue'[l] \in {queue[l], Append(queue[l], f)}
      BY <1>2 DEF Push, TypeOK
    <3> QED
      BY <3>1, <3>2, Zenon
  <2>2. UNCHANGED <<run, prio, budget, bypass>>
    BY <1>2 DEF Push, runVars
  <2> QED
    BY <2>1, <2>2 DEF BypassInv, BypassBound, Remaining, OtherWeights
<1>3. CASE TryPop
  <2>1. /\ run = "pop" /\ run' = "write" /\ prio' = prio /\ budget > 0 /\ budget' = budget - 1
        /\ bypass' = Overtake(prio)
        /\ \A l \in Lanes : l # prio => queue'[l] = queue[l]
    BY <1>3 DEF TryPop, TypeOK, LanesPopped, HasBudget
  <2>2. /\ bypass'[prio] = 0
        /\ \A l \in Lanes : l # prio =>
             bypass'[l] = IF queue[l] = <<>> THEN 0 ELSE bypass[l] + 1
    BY <1>0, <2>1, Zenon DEF Overtake
  <2>3. \A l \in Lanes : bypass'[l] \in Nat /\ bypass'[l] <= bypass[l] + 1
    <3> SUFFICES ASSUME NEW l \in Lanes PROVE bypass'[l] \in Nat /\ bypass'[l] <= bypass[l] + 1
      OBVIOUS
    <3>1. CASE l = prio
      BY <3>1, <2>2, <1>0
    <3>2. CASE l # prio /\ queue[l] = <<>>
      <4>1. bypass'[l] = 0
        BY <3>2, <2>2, Zenon
      <4> QED
        BY <4>1, <1>0
    <3>3. CASE l # prio /\ queue[l] # <<>>
      <4>1. bypass'[l] = bypass[l] + 1
        BY <3>3, <2>2, Zenon
      <4> QED
        BY <4>1, <1>0
    <3> QED
      BY <3>1, <3>2, <3>3
  <2>4. \A l \in Lanes : queue'[l] = <<>> => bypass'[l] = 0
    BY <2>1, <2>2, Zenon
  <2>5. \A l \in Lanes : /\ l # prio => Remaining(l)' = Remaining(l) - 1
                         /\ Remaining(l) \in Nat /\ Remaining(l)' \in Nat
    BY <1>0, <2>1, LaneFacts DEF Remaining
  <2>6. /\ \A l \in Lanes : l = prio => Remaining(l)' = 0
        /\ \A l \in Lanes : OtherWeights(l) \in Nat /\ OtherWeights(l)' = OtherWeights(l)
    BY <1>0, <2>1, LaneFacts, WeightAssumption DEF Remaining, OtherWeights
  <2>7. \A l \in Lanes : bypass'[l] + Remaining(l)' <= OtherWeights(l)'
    <3> SUFFICES ASSUME NEW l \in Lanes PROVE bypass'[l] + Remaining(l)' <= OtherWeights(l)'
      OBVIOUS
    <3>1. CASE l = prio
      BY <3>1, <2>2, <2>6
    <3>2. CASE l # prio
      <4>1. bypass[l] + Remaining(l) <= OtherWeights(l)
        BY <2>1 DEF BypassInv
      <4> QED
        BY <3>2, <4>1, <2>3, <2>5, <2>6, <1>0
    <3> QED
      BY <3>1, <3>2
  <2>8. \A l \in Lanes : bypass'[l] <= OtherWeights(l)'
    BY <2>7, <2>5, <2>6, <2>3
  <2>9. budget' <= Weight[prio']
    BY <2>1, <1>0, LaneFacts DEF BypassInv
  <2> QED
    BY <2>1, <2>2, <2>4, <2>7, <2>8, <2>9 DEF BypassInv, BypassBound
<1>4. CASE NextLane
  <2>1. /\ run = "pop" /\ UNCHANGED <<queue, bypass>>
        /\ run' = IF prio = 2 THEN "check" ELSE "pop"
        /\ prio' = IF prio = 2 THEN 0 ELSE prio + 1
        /\ budget' = Weight[prio']
    BY <1>4 DEF NextLane, chanVars, Bulk, Critical
  <2>2. bypass[prio] = 0
    <3>1. CASE budget = 0
      BY <3>1, <2>1, <1>0, LaneFacts DEF BypassInv
    <3>2. CASE queue[prio] = <<>>
      BY <3>2, <2>1, <1>0 DEF BypassInv
    <3> QED
      BY <3>1, <3>2, <1>4 DEF NextLane, LaneExhausted
  <2>3. \A l \in Lanes : bypass[l] + Remaining(l) <= OtherWeights(l) /\ bypass[l] <= OtherWeights(l)
    BY <2>1 DEF BypassInv, BypassBound
  <2>4. \A l \in Lanes : bypass[l] + Remaining(l)' <= OtherWeights(l)
    BY <2>1, <2>2, <2>3, <1>0, LaneFacts, WeightAssumption DEF Remaining, OtherWeights
  <2>5. /\ run' \in {"check", "park"} => prio' = 0 /\ budget' = Weight[0]
        /\ budget' <= Weight[prio'] /\ ~(budget' < Weight[prio'])
        /\ prio' \in Lanes
    BY <2>1, <1>0, LaneFacts
  <2>6. \A l \in Lanes : queue'[l] = <<>> => bypass'[l] = 0
    BY <2>1 DEF BypassInv
  <2> QED
    BY <2>1, <2>3, <2>4, <2>5, <2>6 DEF BypassInv, BypassBound, OtherWeights, Critical
<1>5. CASE CheckStop \/ Woken \/ ParkStopped
  <2>1. /\ run \in {"check", "park"} /\ run' \in {"pop", "park", "drain"}
        /\ UNCHANGED <<prio, budget, queue, bypass>>
    BY <1>5 DEF CheckStop, Woken, ParkStopped, chanVars, ParkSeesStop
  <2> QED
    BY <2>1 DEF BypassInv, BypassBound, Remaining, OtherWeights
<1>6. CASE DrainFrame \/ DrainNextLane
  <2>1. /\ run' \in {"drain", "exit"} /\ UNCHANGED bypass
    BY <1>6 DEF DrainFrame, DrainNextLane, runVars, LanesPopped, DrainCursor
  <2> QED
    BY <2>1 DEF BypassInv, BypassBound, OtherWeights
<1>7. ASSUME NEW f \in Frames, NEW r \in {"nil", "writeErr"}, WriteReturns(f, r) PROVE BypassInv'
  <2>1. run = "write" /\ run' = "pop" /\ UNCHANGED <<prio, budget, queue, bypass>>
    BY <1>7 DEF WriteReturns, DequeuedAfter
  <2> QED
    BY <2>1 DEF BypassInv, BypassBound, Remaining, OtherWeights
<1>8. ASSUME NEW f \in Frames,
             EnqueueStart(f) \/ Signal(f) \/ QueueFull(f) \/ ReturnCtx(f)
               \/ ReturnStopped(f) \/ ReturnDone(f) \/ CtxEnds(f)
      PROVE  UNCHANGED <<run, prio, budget, queue, bypass>>
  BY <1>8 DEF EnqueueStart, Signal, QueueFull, ReturnCtx, ReturnStopped, ReturnDone, CtxEnds,
              chanVars, runVars, SeesStop
<1>9. CASE Close \/ ConnDown \/ UNCHANGED vars
  <2>1. UNCHANGED <<run, prio, budget, queue, bypass>>
    BY <1>9 DEF Close, ConnDown, vars, chanVars, runVars
  <2> QED
    BY <2>1, <1>1
<1> QED
  BY <1>1, <1>2, <1>3, <1>4, <1>5, <1>6, <1>7, <1>8, <1>9 DEF Next, CallStep, WriteStep, LoopStep

\* No schedule of pushes lets more than one round of the other lanes overtake
\* the head of a lane.
THEOREM BypassBounded == Spec => []BypassBound
<1>1. BypassInv => BypassBound
  BY DEF BypassInv
<1> QED
  BY <1>1, BypassInit, BypassStep, TypeCorrect, PTL DEF Spec

-----------------------------------------------------------------------------
\* The push of a new frame keeps the frames of a lane distinct.
LEMMA PushDistinct ==
  ASSUME NEW q \in Seq(Frames), NEW f \in Frames, Distinct(q), ~Occurs(f, q)
  PROVE  /\ Distinct(Append(q, f))
         /\ Len(Append(q, f)) = Len(q) + 1
         /\ \A g \in Frames : Occurs(g, Append(q, f)) => g = f \/ Occurs(g, q)
<1>1. /\ Len(q) \in Nat /\ Len(Append(q, f)) = Len(q) + 1
      /\ \A i \in 1 .. Len(q) : Append(q, f)[i] = q[i]
      /\ Append(q, f)[Len(q) + 1] = f
  BY AppendProperties, LenProperties
<1>2. \A i \in 1 .. Len(q) + 1 : i \in 1 .. Len(q) \/ i = Len(q) + 1
  BY <1>1
<1> QED
  BY <1>1, <1>2 DEF Distinct, Occurs

\* The same for the pop of tryPop and drain.
LEMMA PopDistinct ==
  ASSUME NEW q \in Seq(Frames), q # <<>>, Distinct(q)
  PROVE  /\ Distinct(Tail(q)) /\ Len(Tail(q)) <= Len(q)
         /\ Head(q) \in Frames /\ Occurs(Head(q), q) /\ ~Occurs(Head(q), Tail(q))
         /\ \A g \in Frames : Occurs(g, Tail(q)) => Occurs(g, q)
<1>1. /\ Len(q) \in Nat \ {0} /\ Len(Tail(q)) = Len(q) - 1
      /\ Head(q) = q[1] /\ Head(q) \in Frames
      /\ \A i \in 1 .. Len(Tail(q)) : i + 1 \in 1 .. Len(q) /\ Tail(q)[i] = q[i + 1]
  BY PopType
<1>2. 1 \in 1 .. Len(q)
  BY <1>1
<1>3. Distinct(Tail(q))
  BY <1>1 DEF Distinct
<1>4. ~Occurs(Head(q), Tail(q))
  <2>1. \A i \in 1 .. Len(Tail(q)) : i + 1 # 1
    BY <1>1
  <2> QED
    BY <1>1, <1>2, <2>1 DEF Distinct, Occurs
<1> QED
  BY <1>1, <1>2, <1>3, <1>4 DEF Occurs

\* The three statements about frames follow from the inductive invariant.
LEMMA FrameInvImplies == TypeOK /\ FrameInv => ResultTruthful /\ DoneSendNeverBlocks /\ LanesSound
<1> SUFFICES ASSUME TypeOK, FrameInv PROVE ResultTruthful /\ DoneSendNeverBlocks /\ LanesSound
  OBVIOUS
<1>1. DoneSendNeverBlocks
  <2> SUFFICES ASSUME NEW f \in Frames, fate[f] \in {"queued", "writing"} PROVE done[f] = "empty"
    BY DEF FrameInv, LaneInv, CallInv, Occurs, DoneSendNeverBlocks
  <2> QED
    BY DEF FrameInv, CallInv, TypeOK
<1>2. LanesSound
  <2>1. \A l \in Lanes : \A i \in 1 .. Len(queue[l]) : queue[l][i] \in Frames
    BY DEF TypeOK
  <2> QED
    BY <2>1 DEF FrameInv, LaneInv, LanesSound, Distinct, Occurs
<1> QED
  BY <1>1, <1>2 DEF FrameInv

\* The inductive invariant holds when the scheduler is made ...
LEMMA FrameInit == Init => FrameInv
<1> SUFFICES ASSUME Init PROVE FrameInv
  OBVIOUS
<1>1. LaneInv
  <2>1. \A l \in Lanes : queue[l] = <<>>
    BY DEF Init
  <2>2. Len(<<>>) = 0 /\ \A i \in 1 .. 0 : FALSE
    OBVIOUS
  <2> QED
    BY <2>1, <2>2, CapacityAssumption DEF LaneInv, Distinct, Occurs
<1> QED
  BY <1>1 DEF Init, FrameInv, CallInv, ResultTruthful

\* The steps that leave the lanes alone.
LEMMA LaneInvKept ==
  ASSUME LaneInv, UNCHANGED <<queue, lane>>,
         \A f \in Frames : fate[f] = "queued" => fate'[f] = "queued"
  PROVE  LaneInv'
BY DEF LaneInv, Distinct, Occurs

\* ... and every step of every goroutine keeps it.
LEMMA FrameStep == TypeOK /\ FrameInv /\ [Next]_vars => FrameInv'
<1> SUFFICES ASSUME TypeOK, FrameInv, [Next]_vars PROVE FrameInv'
  OBVIOUS
<1>0. LaneInv /\ CallInv /\ ResultTruthful
  BY DEF FrameInv
<1>1. ASSUME NEW f \in Frames,
             EnqueueStart(f) \/ Signal(f) \/ QueueFull(f) \/ ReturnCtx(f)
               \/ ReturnStopped(f) \/ ReturnDone(f) \/ CtxEnds(f)
      PROVE  FrameInv'
  <2>1. UNCHANGED <<queue, lane, fate, inflight>>
    BY <1>1 DEF EnqueueStart, Signal, QueueFull, ReturnCtx, ReturnStopped, ReturnDone, CtxEnds,
                chanVars, runVars, SeesStop
  <2>2. LaneInv'
    BY <2>1, <1>0, LaneInvKept
  <2> SUFFICES CallInv' /\ ResultTruthful'
    BY <2>2 DEF FrameInv
  <2>3. CASE EnqueueStart(f)
    <3>1. CASE stop # "open"
      <4>1. /\ pc' = [pc EXCEPT ![f] = "returned"] /\ result' = [result EXCEPT ![f] = "closed"]
            /\ UNCHANGED <<done, fate, inflight>>
        BY <2>3, <3>1 DEF EnqueueStart, Return, chanVars, runVars
      <4>2. CallInv'
        BY <1>0, <2>3, <4>1 DEF TypeOK, CallInv, EnqueueStart
      <4>3. ResultTruthful'
        BY <1>0, <4>1 DEF TypeOK, ResultTruthful
      <4> QED
        BY <4>2, <4>3
    <3>2. CASE stop = "open"
      BY <2>3, <2>1, <1>0, <3>2 DEF TypeOK, CallInv, ResultTruthful, EnqueueStart, chanVars
    <3> QED
      BY <3>1, <3>2
  <2>4. CASE Signal(f)
    BY <2>4, <2>1, <1>0 DEF TypeOK, CallInv, ResultTruthful, Signal, Return, chanVars
  <2>5. CASE CtxEnds(f)
    BY <2>5, <2>1, <1>0 DEF TypeOK, CallInv, ResultTruthful, CtxEnds, Return, chanVars
  <2>6. CASE QueueFull(f)
    BY <2>6, <2>1, <1>0 DEF TypeOK, CallInv, ResultTruthful, QueueFull, Return, chanVars
  <2>7. CASE ReturnCtx(f)
    BY <2>7, <2>1, <1>0 DEF TypeOK, CallInv, ResultTruthful, ReturnCtx, Return, chanVars
  <2>8. CASE ReturnStopped(f)
    BY <2>8, <2>1, <1>0 DEF TypeOK, CallInv, ResultTruthful, ReturnStopped, Return, chanVars, SeesStop
  <2>9. CASE ReturnDone(f)
    BY <2>9, <2>1, <1>0 DEF TypeOK, CallInv, ResultTruthful, ReturnDone, Return, chanVars
  <2> QED
    BY <1>1, <2>3, <2>4, <2>5, <2>6, <2>7, <2>8, <2>9
<1>2. ASSUME NEW f \in Frames, Push(f) PROVE FrameInv'
  <2>1. fate[f] = "none" /\ lane[f] \in Lanes /\ queue[lane[f]] \in Seq(Frames)
    BY <1>2, <1>0 DEF Push, CallInv, TypeOK
  <2>2. \A l \in Lanes : ~Occurs(f, queue[l])
    BY <1>0, <2>1 DEF LaneInv
  <2>3. /\ Distinct(Append(queue[lane[f]], f))
        /\ Len(Append(queue[lane[f]], f)) <= LaneCapacity
        /\ \A g \in Frames : Occurs(g, Append(queue[lane[f]], f)) => g = f \/ Occurs(g, queue[lane[f]])
    <3>1. Len(queue[lane[f]]) < LaneCapacity /\ Len(queue[lane[f]]) \in Nat
      BY <1>2, <2>1, LenProperties DEF Push, HasRoom
    <3> QED
      BY <2>1, <2>2, <1>0, <3>1, PushDistinct, CapacityAssumption DEF LaneInv
  <2>4. /\ queue'[lane[f]] = Append(queue[lane[f]], f)
        /\ \A l \in Lanes : l # lane[f] => queue'[l] = queue[l]
        /\ fate'[f] = "queued"
        /\ \A g \in Frames : g # f => fate'[g] = fate[g]
        /\ lane' = lane
    BY <1>2, <2>1 DEF Push, TypeOK
  <2>5. LaneInv'
    <3> SUFFICES ASSUME NEW l \in Lanes
                 PROVE  /\ Len(queue'[l]) <= LaneCapacity
                        /\ Distinct(queue'[l])
                        /\ \A g \in Frames : Occurs(g, queue'[l]) => lane[g] = l /\ fate'[g] = "queued"
      BY <2>4 DEF LaneInv, Distinct, Occurs
    <3>1. CASE l = lane[f]
      BY <3>1, <2>3, <2>4, <1>0 DEF LaneInv
    <3>2. CASE l # lane[f]
      BY <3>2, <2>2, <2>4, <1>0 DEF LaneInv
    <3> QED
      BY <3>1, <3>2
  <2>6. CallInv' /\ ResultTruthful'
    BY <1>2, <1>0, <2>1 DEF TypeOK, CallInv, ResultTruthful, Push, runVars
  <2> QED
    BY <2>5, <2>6 DEF FrameInv
<1>3. CASE TryPop \/ DrainFrame
  <2> DEFINE q == queue[prio]
             h == Head(q)
  <2>1. /\ q \in Seq(Frames) /\ q # <<>> /\ Distinct(q) /\ prio \in Lanes /\ Len(q) <= LaneCapacity
        /\ \A g \in Frames : Occurs(g, q) => lane[g] = prio /\ fate[g] = "queued"
    BY <1>3, <1>0 DEF TryPop, DrainFrame, TypeOK, LaneInv, LanesPopped, HasBudget
  <2>2. /\ Distinct(Tail(q)) /\ Len(Tail(q)) <= Len(q) /\ h \in Frames
        /\ Occurs(h, q) /\ ~Occurs(h, Tail(q))
        /\ \A g \in Frames : Occurs(g, Tail(q)) => Occurs(g, q)
    BY <2>1, PopDistinct
  <2>3. /\ queue'[prio] = Tail(q)
        /\ \A l \in Lanes : l # prio => queue'[l] = queue[l]
        /\ fate'[h] \in {"writing", "drained"}
        /\ \A g \in Frames : g # h => fate'[g] = fate[g]
        /\ lane' = lane /\ pc' = pc /\ result' = result
    BY <1>3, <2>1, <2>2 DEF TryPop, DrainFrame, TypeOK, callVars, LanesPopped, HasBudget
  <2>4. LaneInv'
    <3> SUFFICES ASSUME NEW l \in Lanes
                 PROVE  /\ Len(queue'[l]) <= LaneCapacity
                        /\ Distinct(queue'[l])
                        /\ \A g \in Frames : Occurs(g, queue'[l]) => lane[g] = l /\ fate'[g] = "queued"
      BY <2>3 DEF LaneInv, Distinct, Occurs
    <3>1. CASE l = prio
      <4>1. Len(Tail(q)) <= LaneCapacity
        BY <2>1, <2>2, CapacityAssumption, LenProperties, PopType
      <4> HIDE DEF q, h
      <4> QED
        BY <3>1, <4>1, <2>1, <2>2, <2>3
    <3>2. CASE l # prio
      <4> HIDE DEF q, h
      <4>1. lane[h] = prio
        BY <2>1, <2>2
      <4> QED
        BY <3>2, <4>1, <2>2, <2>3, <1>0 DEF LaneInv
    <3> QED
      BY <3>1, <3>2
  <2>5. /\ fate[h] = "queued" /\ pc[h] \notin {"idle", "select"} /\ done[h] = "empty"
        /\ result[h] \notin {"nil", "writeErr", "full"} /\ h \notin inflight
    BY <2>1, <2>2, <1>0 DEF CallInv, ResultTruthful, TypeOK
  <2>6. ResultTruthful'
    <3> HIDE DEF h
    <3> QED
      BY <2>3, <2>5, <1>0 DEF ResultTruthful
  <2>7. CallInv'
    <3>1. CASE TryPop
      <4>1. /\ inflight' = {h} /\ done' = done /\ fate'[h] = "writing"
        BY <3>1, <2>2 DEF TryPop, TypeOK, LanesPopped, HasBudget
      <4> HIDE DEF h
      <4> QED
        BY <4>1, <2>3, <2>5, <1>0 DEF CallInv
    <3>2. CASE DrainFrame
      <4>1. /\ inflight' = inflight /\ fate'[h] = "drained" /\ done'[h] = "closed"
            /\ \A g \in Frames : g # h => done'[g] = done[g]
        BY <3>2, <2>2 DEF DrainFrame, DrainResult, TypeOK, runVars, LanesPopped
      <4> HIDE DEF h
      <4> QED
        BY <4>1, <2>3, <2>5, <1>0 DEF CallInv
    <3> QED
      BY <1>3, <3>1, <3>2
  <2> QED
    BY <2>4, <2>6, <2>7 DEF FrameInv
<1>4. ASSUME NEW f \in Frames, NEW r \in {"nil", "writeErr"}, WriteReturns(f, r) PROVE FrameInv'
  <2>1. fate[f] = "writing"
    BY <1>4, <1>0 DEF WriteReturns, CallInv, DequeuedAfter
  <2>2. /\ UNCHANGED <<queue, lane, pc, result>>
        /\ inflight' = {} /\ done'[f] = r
        /\ fate'[f] = IF r = "nil" THEN "written" ELSE "failed"
        /\ \A g \in Frames : g # f => fate'[g] = fate[g] /\ done'[g] = done[g]
    BY <1>4 DEF WriteReturns, callVars, TypeOK, DequeuedAfter
  <2>3. LaneInv'
    BY <2>1, <2>2, <1>0, LaneInvKept
  <2>4. CallInv' /\ ResultTruthful'
    BY <2>1, <2>2, <1>0 DEF CallInv, ResultTruthful
  <2> QED
    BY <2>3, <2>4 DEF FrameInv
<1>5. CASE UNCHANGED <<callVars, chanVars, inflight, fate>>
  <2>1. LaneInv'
    BY <1>5, <1>0, LaneInvKept DEF callVars, chanVars
  <2>2. CallInv' /\ ResultTruthful'
    BY <1>5, <1>0 DEF CallInv, ResultTruthful, callVars, chanVars
  <2> QED
    BY <2>1, <2>2 DEF FrameInv
<1>6. CASE Woken
  <2>1. LaneInv'
    BY <1>6, <1>0, LaneInvKept DEF Woken, callVars
  <2>2. CallInv' /\ ResultTruthful'
    BY <1>6, <1>0 DEF Woken, CallInv, ResultTruthful, callVars
  <2> QED
    BY <2>1, <2>2 DEF FrameInv
<1>7. CASE NextLane \/ CheckStop \/ ParkStopped \/ DrainNextLane \/ Close \/ ConnDown \/ UNCHANGED vars
  <2>1. UNCHANGED <<callVars, chanVars, inflight, fate>>
    BY <1>7 DEF NextLane, CheckStop, ParkStopped, DrainNextLane, Close, ConnDown, vars, runVars, ParkSeesStop, DrainCursor
  <2> QED
    BY <2>1, <1>5
<1> QED
  BY <1>1, <1>2, <1>3, <1>4, <1>6, <1>7 DEF Next, CallStep, WriteStep, LoopStep

\* For every behaviour of the scheduler: what enqueue returns is true of its
\* frame, and the lanes stay within their bound.
THEOREM FrameSafety == Spec => [](ResultTruthful /\ LanesSound)
BY FrameInvImplies, FrameInit, FrameStep, TypeCorrect, PTL DEF Spec

\* write and drain never wait for a caller that has given up: frame.done is empty
\* for every frame that is queued or being written.
THEOREM DoneNeverBlocks == Spec => []DoneSendNeverBlocks
BY FrameInvImplies, FrameInit, FrameStep, TypeCorrect, PTL DEF Spec

-----------------------------------------------------------------------------
\* A call that returns is an answer of the abstract contract ...
LEMMA AnswerStep ==
  ASSUME TypeOK, FrameInv, NEW f \in Frames, NEW r \in Results \ {"none"},
         result[f] = "none", result' = [result EXCEPT ![f] = r], fate' = fate,
         r = "nil" => fate[f] = "written",
         r = "full" => fate[f] = "none"
  PROVE  Delivery!Next
<1> DEFINE a == IF r = "nil" THEN "sent" ELSE IF r = "full" THEN "refused" ELSE "unknown"
           told == [g \in Frames |-> Told(g)]
<1>1. a \in Delivery!Answers
  BY DEF Delivery!Answers
<1>2. told[f] = "none" /\ told' = [told EXCEPT ![f] = a]
  <2>1. \A g \in Frames : Told(g)' = IF g = f THEN a ELSE Told(g)
    BY DEF Told, TypeOK, Results
  <2> QED
    BY <2>1 DEF Told
<1>3. Delivery!Answer(f, a)
  BY <1>2 DEF Delivery!Answer
<1> QED
  BY <1>1, <1>3 DEF Delivery!Next

\* ... and every step is such an answer, a delivery, or invisible to callers.
LEMMA DeliveryStep == TypeOK /\ FrameInv /\ [Next]_vars => [Delivery!Next]_(Delivery!vars)
<1> SUFFICES ASSUME TypeOK, FrameInv, [Next]_vars PROVE [Delivery!Next]_(Delivery!vars)
  OBVIOUS
<1>0. LaneInv /\ CallInv /\ ResultTruthful
  BY DEF FrameInv
<1>1. ASSUME UNCHANGED result, \A f \in Frames : fate'[f] = "written" <=> fate[f] = "written"
      PROVE  UNCHANGED Delivery!vars
  BY <1>1 DEF Delivery!vars, Told
<1>2. ASSUME NEW f \in Frames, CallStep(f) \/ CtxEnds(f) PROVE [Delivery!Next]_(Delivery!vars)
  <2>1. CASE Push(f)
    <3>1. UNCHANGED result /\ \A g \in Frames : fate'[g] = "written" <=> fate[g] = "written"
      BY <2>1, <1>0 DEF Push, TypeOK, CallInv
    <3> QED
      BY <3>1, <1>1
  <2>2. CASE Signal(f) \/ CtxEnds(f)
    BY <2>2, <1>1 DEF Signal, CtxEnds
  <2>3. CASE EnqueueStart(f)
    <3>1. CASE stop # "open"
      <4>1. /\ result[f] = "none" /\ fate' = fate
            /\ result' = [result EXCEPT ![f] = "closed"]
        BY <3>1, <2>3, <1>0 DEF EnqueueStart, Return, CallInv, TypeOK
      <4> QED
        BY <4>1, AnswerStep DEF Results
    <3>2. CASE stop = "open"
      BY <3>2, <2>3, <1>1 DEF EnqueueStart
    <3> QED
      BY <3>1, <3>2
  <2>4. CASE QueueFull(f)
    BY <2>4, <1>0, AnswerStep DEF QueueFull, Return, CallInv, Results, TypeOK
  <2>5. CASE ReturnCtx(f)
    BY <2>5, <1>0, AnswerStep DEF ReturnCtx, Return, CallInv, Results, TypeOK
  <2>6. CASE ReturnStopped(f)
    BY <2>6, <1>0, AnswerStep DEF ReturnStopped, Return, CallInv, Results, TypeOK, SeesStop
  <2>7. CASE ReturnDone(f)
    BY <2>7, <1>0, AnswerStep DEF ReturnDone, Return, CallInv, Results, TypeOK
  <2> QED
    BY <1>2, <2>1, <2>2, <2>3, <2>4, <2>5, <2>6, <2>7 DEF CallStep
<1>3. ASSUME NEW f \in Frames, NEW r \in {"nil", "writeErr"}, WriteReturns(f, r)
      PROVE  [Delivery!Next]_(Delivery!vars)
  <2>1. /\ fate[f] = "writing" /\ result' = result
        /\ fate' = [fate EXCEPT ![f] = IF r = "nil" THEN "written" ELSE "failed"]
    BY <1>3, <1>0 DEF WriteReturns, CallInv, callVars, DequeuedAfter
  <2>2. CASE r = "nil"
    <3>1. Delivery!Deliver(f)
      <4>1. /\ fate'[f] = "written" /\ result[f] # "full"
            /\ \A g \in Frames : g # f => fate'[g] = fate[g]
        BY <2>1, <2>2, <1>0 DEF TypeOK, ResultTruthful
      <4>2. {g \in Frames : fate'[g] = "written"} = {g \in Frames : fate[g] = "written"} \cup {f}
        BY <4>1
      <4>3. \A g \in Frames : Told(g)' = Told(g)
        BY <2>1 DEF Told
      <4>4. Told(f) # "refused"
        BY <4>1 DEF Told
      <4> QED
        BY <2>1, <4>2, <4>3, <4>4 DEF Delivery!Deliver
    <3> QED
      BY <3>1 DEF Delivery!Next
  <2>3. CASE r = "writeErr"
    BY <2>1, <2>3, <1>1 DEF TypeOK
  <2> QED
    BY <2>2, <2>3
<1>4. CASE TryPop \/ DrainFrame
  <2>1. /\ Head(queue[prio]) \in Frames /\ fate[Head(queue[prio])] = "queued"
    <3>1. prio \in Lanes /\ queue[prio] \in Seq(Frames) /\ queue[prio] # <<>>
      BY <1>4 DEF TryPop, DrainFrame, TypeOK
    <3>2. Head(queue[prio]) \in Frames /\ Occurs(Head(queue[prio]), queue[prio])
      BY <3>1, PopType DEF Occurs
    <3> QED
      BY <1>0, <3>1, <3>2 DEF LaneInv
  <2>2. UNCHANGED result /\ \A g \in Frames : fate'[g] = "written" <=> fate[g] = "written"
    BY <1>4, <2>1 DEF TryPop, DrainFrame, TypeOK, callVars, LanesPopped, HasBudget
  <2> QED
    BY <2>2, <1>1
<1>5. CASE NextLane \/ CheckStop \/ Woken \/ ParkStopped \/ DrainNextLane \/ Close \/ ConnDown
           \/ UNCHANGED vars
  <2>1. UNCHANGED <<result, fate>>
    BY <1>5 DEF NextLane, CheckStop, Woken, ParkStopped, DrainNextLane, Close, ConnDown, vars, callVars, ParkSeesStop, DrainCursor
  <2> QED
    BY <2>1, <1>1
<1> QED
  BY <1>2, <1>3, <1>4, <1>5 DEF Next, WriteStep, LoopStep

\* The scheduler implements the delivery contract of FrameDelivery: at most one
\* delivery per frame, nil only after it, never one after "queue is full".
THEOREM ImplementsDelivery == Spec => DeliveryContract
<1>1. Init => Delivery!Init
  BY DEF Init, Delivery!Init, Told
<1> QED
  BY <1>1, DeliveryStep, FrameInit, FrameStep, TypeCorrect, PTL DEF Spec, DeliveryContract, Delivery!Spec

-----------------------------------------------------------------------------
(* The counters of snapshot *)

\* The calls that have been made; the frames each counter is compared with.
Called == {f \in Frames : pc[f] # "idle"}
UncountedIn(l) == {f \in Frames : lane[f] = l /\ pc[f] = "pushed"}
WritingIn(l) == {f \in Frames : lane[f] = l /\ f \in inflight}
DrainedIn(l) == {f \in Frames : lane[f] = l /\ fate[f] = "drained"}
RefusedIn(l) == {f \in Frames : lane[f] = l /\ result[f] = "full"}
FailedFrames == {f \in Frames : fate[f] = "failed"}

\* The loop writes one frame at a time, of the lane it has reached.
RunInv ==
  /\ run # "write" => inflight = {}
  /\ \A f \in inflight : lane[f] = prio /\ inflight = {f}

CountInv(l) ==
  /\ enqueued[l] + Cardinality(UncountedIn(l))
       = Len(queue[l]) + dequeued[l] + Cardinality(WritingIn(l)) + Cardinality(DrainedIn(l))
  /\ rejected[l] = Cardinality(RefusedIn(l))

StatsInv ==
  /\ IsFiniteSet(Called)
  /\ RunInv
  /\ \A l \in Lanes : CountInv(l)
  /\ writeErrors = Cardinality(FailedFrames)

\* Sets that a step makes larger or smaller by one frame.
LEMMA OneMore ==
  ASSUME NEW A, NEW B, NEW x, IsFiniteSet(A), x \notin A, B = A \cup {x}
  PROVE  IsFiniteSet(B) /\ Cardinality(A) \in Nat /\ Cardinality(B) = Cardinality(A) + 1
BY FS_AddElement, FS_CardinalityType

LEMMA OneLess ==
  ASSUME NEW A, NEW B, NEW x, IsFiniteSet(A), x \in A, B = A \ {x}
  PROVE  /\ IsFiniteSet(B) /\ Cardinality(A) \in Nat /\ Cardinality(B) \in Nat
         /\ Cardinality(A) = Cardinality(B) + 1
<1>1. IsFiniteSet(B) /\ x \notin B /\ A = B \cup {x}
  BY FS_Subset
<1> QED
  BY <1>1, OneMore, FS_CardinalityType

\* What is counted is finite, however many calls there will ever be.
LEMMA CountsFinite ==
  ASSUME TypeOK, FrameInv, StatsInv
  PROVE  /\ IsFiniteSet(Called) /\ IsFiniteSet(FailedFrames) /\ Cardinality(FailedFrames) \in Nat
         /\ \A l \in Lanes :
              /\ IsFiniteSet(UncountedIn(l)) /\ IsFiniteSet(WritingIn(l))
              /\ IsFiniteSet(DrainedIn(l)) /\ IsFiniteSet(RefusedIn(l))
              /\ Cardinality(UncountedIn(l)) \in Nat /\ Cardinality(WritingIn(l)) \in Nat
              /\ Cardinality(DrainedIn(l)) \in Nat /\ Cardinality(RefusedIn(l)) \in Nat
              /\ Len(queue[l]) \in Nat /\ enqueued[l] \in Nat /\ dequeued[l] \in Nat /\ rejected[l] \in Nat
<1>1. IsFiniteSet(Called)
  BY DEF StatsInv
<1>2. \A S : S \subseteq Called => IsFiniteSet(S) /\ Cardinality(S) \in Nat
  BY <1>1, FS_Subset, FS_CardinalityType
<1>3. FailedFrames \subseteq Called
  BY DEF FailedFrames, Called, FrameInv, CallInv
<1>4. ASSUME NEW l \in Lanes
      PROVE  /\ UncountedIn(l) \subseteq Called /\ WritingIn(l) \subseteq Called
             /\ DrainedIn(l) \subseteq Called /\ RefusedIn(l) \subseteq Called
  BY DEF UncountedIn, WritingIn, DrainedIn, RefusedIn, Called, FrameInv, CallInv
<1>5. ASSUME NEW l \in Lanes
      PROVE  Len(queue[l]) \in Nat /\ enqueued[l] \in Nat /\ dequeued[l] \in Nat /\ rejected[l] \in Nat
  <2>1. queue[l] \in Seq(Frames)
    BY DEF TypeOK
  <2> QED
    BY <2>1, LenProperties DEF TypeOK
<1> QED
  BY <1>1, <1>2, <1>3, <1>4, <1>5

\* The balance of a lane, with its terms named.
LEMMA CountTerms ==
  ASSUME TypeOK, FrameInv, StatsInv, NEW l \in Lanes
  PROVE  \E e, u, q, d, w, x \in Nat :
           /\ e = enqueued[l] /\ u = Cardinality(UncountedIn(l)) /\ q = Len(queue[l])
           /\ d = dequeued[l] /\ w = Cardinality(WritingIn(l)) /\ x = Cardinality(DrainedIn(l))
           /\ e + u = q + d + w + x
<1>1. /\ Cardinality(UncountedIn(l)) \in Nat /\ Cardinality(WritingIn(l)) \in Nat
      /\ Cardinality(DrainedIn(l)) \in Nat
      /\ Len(queue[l]) \in Nat /\ enqueued[l] \in Nat /\ dequeued[l] \in Nat
  BY CountsFinite
<1>2. enqueued[l] + Cardinality(UncountedIn(l))
        = Len(queue[l]) + dequeued[l] + Cardinality(WritingIn(l)) + Cardinality(DrainedIn(l))
  BY DEF StatsInv, CountInv
<1> QED
  BY <1>1, <1>2, Zenon

\* A lane whose counters and frames stay as they are.
LEMMA CountKept ==
  ASSUME NEW l \in Lanes, CountInv(l),
         Len(queue'[l]) = Len(queue[l]),
         enqueued'[l] = enqueued[l], dequeued'[l] = dequeued[l], rejected'[l] = rejected[l],
         UncountedIn(l)' = UncountedIn(l), WritingIn(l)' = WritingIn(l),
         DrainedIn(l)' = DrainedIn(l), RefusedIn(l)' = RefusedIn(l)
  PROVE  CountInv(l)'
BY DEF CountInv

\* A call is made, is refused, or returns: nothing else changes.
LEMMA ReturnsKeepStats ==
  ASSUME TypeOK, FrameInv, StatsInv, NEW f \in Frames,
         EnqueueStart(f) \/ ReturnCtx(f) \/ ReturnStopped(f) \/ ReturnDone(f) \/ QueueFull(f)
  PROVE  StatsInv'
<1>0. /\ UNCHANGED <<lane, queue, run, prio, inflight, enqueued, dequeued, writeErrors, fate>>
      /\ pc[f] # "pushed" /\ result[f] = "none"
      /\ \/ pc' = [pc EXCEPT ![f] = "select"] /\ result' = result
         \/ pc' = [pc EXCEPT ![f] = "returned"] /\ \E r \in Results : result' = [result EXCEPT ![f] = r]
  BY DEF EnqueueStart, ReturnCtx, ReturnStopped, SeesStop, ReturnDone, QueueFull, Return, chanVars, runVars,
         statVars, FrameInv, CallInv, TypeOK, Results
<1>1. IsFiniteSet(Called)'
  <2>1. Called' = Called \cup {f}
    BY <1>0 DEF Called, TypeOK
  <2> QED
    BY <2>1, FS_AddElement DEF StatsInv
<1>2. RunInv'
  BY <1>0 DEF StatsInv, RunInv
<1>3. (writeErrors = Cardinality(FailedFrames))'
  BY <1>0 DEF StatsInv, FailedFrames
<1>4. ASSUME NEW l \in Lanes PROVE CountInv(l)'
  <2>0. CountInv(l)
    BY DEF StatsInv
  <2>1. UncountedIn(l)' = UncountedIn(l)
    BY <1>0 DEF UncountedIn, TypeOK
  <2>2. WritingIn(l)' = WritingIn(l) /\ DrainedIn(l)' = DrainedIn(l)
    BY <1>0 DEF WritingIn, DrainedIn
  <2>3. CASE ~(QueueFull(f) /\ lane[f] = l)
    <3>1. rejected'[l] = rejected[l]
      BY <2>3 DEF EnqueueStart, ReturnCtx, ReturnStopped, ReturnDone, QueueFull, statVars, TypeOK
    <3>2. lane[f] = l => result'[f] # "full"
      BY <2>3, <1>0 DEF EnqueueStart, ReturnCtx, ReturnStopped, ReturnDone, Return, TypeOK
    <3>3. RefusedIn(l)' = RefusedIn(l)
      BY <1>0, <3>2 DEF RefusedIn, TypeOK
    <3> QED
      BY <1>0, <2>0, <2>1, <2>2, <3>1, <3>3, CountKept
  <2>4. CASE QueueFull(f) /\ lane[f] = l
    <3>1. rejected'[l] = rejected[l] + 1 /\ result' = [result EXCEPT ![f] = "full"]
      BY <2>4 DEF QueueFull, Return, TypeOK
    <3>2. RefusedIn(l)' = RefusedIn(l) \cup {f} /\ f \notin RefusedIn(l)
      BY <1>0, <2>4, <3>1 DEF RefusedIn, TypeOK
    <3>3. Cardinality(RefusedIn(l)') = Cardinality(RefusedIn(l)) + 1
      BY <3>2, CountsFinite, OneMore
    <3> QED
      BY <1>0, <2>0, <2>1, <2>2, <3>1, <3>3 DEF CountInv
  <2> QED
    BY <2>3, <2>4
<1> QED
  BY <1>1, <1>2, <1>3, <1>4 DEF StatsInv

\* A frame is pushed, and then counted.
LEMMA PushKeepsStats ==
  ASSUME TypeOK, FrameInv, StatsInv, NEW f \in Frames, Push(f) \/ Signal(f) PROVE StatsInv'
<1>0. /\ UNCHANGED <<lane, result, run, prio, inflight, dequeued, rejected, writeErrors>>
      /\ pc[f] # "idle" /\ (Push(f) => fate[f] = "none")
      /\ \E p \in {"pushed", "await"} : pc' = [pc EXCEPT ![f] = p]
  BY DEF Push, Signal, runVars, statVars, FrameInv, CallInv
<1>1. IsFiniteSet(Called)'
  <2>1. Called' = Called
    BY <1>0 DEF Called, TypeOK
  <2> QED
    BY <2>1 DEF StatsInv
<1>2. RunInv'
  BY <1>0 DEF StatsInv, RunInv
<1>f. fate' = fate \/ (fate' = [fate EXCEPT ![f] = "queued"] /\ fate[f] = "none")
  <2>1. CASE Push(f)
    BY <1>0, <2>1 DEF Push
  <2>2. CASE Signal(f)
    BY <2>2 DEF Signal
  <2> QED
    BY <2>1, <2>2
<1>3. (writeErrors = Cardinality(FailedFrames))'
  <2>1. FailedFrames' = FailedFrames
    BY <1>f DEF FailedFrames, TypeOK
  <2> QED
    BY <1>0, <2>1 DEF StatsInv
<1>4. ASSUME NEW l \in Lanes PROVE CountInv(l)'
  <2>0. CountInv(l)
    BY DEF StatsInv
  <2>1. WritingIn(l)' = WritingIn(l) /\ RefusedIn(l)' = RefusedIn(l)
    BY <1>0 DEF WritingIn, RefusedIn
  <2>2. DrainedIn(l)' = DrainedIn(l)
    BY <1>0, <1>f DEF DrainedIn, TypeOK
  <2>3. CASE lane[f] # l
    <3>1. UncountedIn(l)' = UncountedIn(l)
      BY <1>0, <2>3 DEF UncountedIn, TypeOK
    <3>2. queue'[l] = queue[l] /\ enqueued'[l] = enqueued[l]
      BY <2>3 DEF Push, Signal, statVars, TypeOK
    <3> QED
      BY <1>0, <2>0, <2>1, <2>2, <3>1, <3>2, CountKept
  <2>4. CASE lane[f] = l /\ Push(f)
    <3>1. enqueued' = enqueued /\ pc[f] = "select" /\ pc' = [pc EXCEPT ![f] = "pushed"]
      BY <2>4 DEF Push, statVars
    <3>2. UncountedIn(l)' = UncountedIn(l) \cup {f} /\ f \notin UncountedIn(l)
      BY <1>0, <2>4, <3>1 DEF UncountedIn, TypeOK
    <3>3. Cardinality(UncountedIn(l)') = Cardinality(UncountedIn(l)) + 1
      BY <3>2, CountsFinite, OneMore
    <3>4. Len(queue'[l]) = Len(queue[l]) + 1
      <4>1. queue[l] \in Seq(Frames) /\ queue'[l] = Append(queue[l], f)
        BY <2>4 DEF Push, TypeOK
      <4> QED
        BY <4>1, AppendProperties
    <3>n. PICK e, u, q, d, w, x \in Nat :
             /\ e = enqueued[l] /\ u = Cardinality(UncountedIn(l)) /\ q = Len(queue[l])
             /\ d = dequeued[l] /\ w = Cardinality(WritingIn(l)) /\ x = Cardinality(DrainedIn(l))
             /\ e + u = q + d + w + x
      BY CountTerms
    <3>r. rejected'[l] = Cardinality(RefusedIn(l)')
      BY <1>0, <2>0, <2>1 DEF CountInv
    <3>t. /\ enqueued'[l] = e /\ Cardinality(UncountedIn(l)') = u + 1 /\ Len(queue'[l]) = q + 1
          /\ dequeued'[l] = d /\ Cardinality(WritingIn(l)') = w /\ Cardinality(DrainedIn(l)') = x
      BY <1>0, <2>1, <2>2, <3>1, <3>3, <3>4, <3>n
    <3>e. e + u = q + d + w + x
      BY <3>n, Zenon
    <3>a. e + (u + 1) = (q + 1) + d + w + x
      BY <3>e
    <3> QED
      BY <3>r, <3>t, <3>a DEF CountInv
  <2>5. CASE lane[f] = l /\ Signal(f)
    <3>1. /\ queue' = queue /\ enqueued'[l] = enqueued[l] + 1
          /\ pc[f] = "pushed" /\ pc' = [pc EXCEPT ![f] = "await"]
      BY <2>5 DEF Signal, TypeOK
    <3>2. UncountedIn(l)' = UncountedIn(l) \ {f} /\ f \in UncountedIn(l)
      BY <1>0, <2>5, <3>1 DEF UncountedIn, TypeOK
    <3>3. Cardinality(UncountedIn(l)) = Cardinality(UncountedIn(l)') + 1 /\ Cardinality(UncountedIn(l)') \in Nat
      BY <3>2, CountsFinite, OneLess
    <3>n. PICK e, u, q, d, w, x \in Nat :
             /\ e = enqueued[l] /\ u = Cardinality(UncountedIn(l)) /\ q = Len(queue[l])
             /\ d = dequeued[l] /\ w = Cardinality(WritingIn(l)) /\ x = Cardinality(DrainedIn(l))
             /\ e + u = q + d + w + x
      BY CountTerms
    <3>r. rejected'[l] = Cardinality(RefusedIn(l)')
      BY <1>0, <2>0, <2>1 DEF CountInv
    <3>t. /\ enqueued'[l] = e + 1 /\ Cardinality(UncountedIn(l)') = u - 1 /\ Len(queue'[l]) = q
          /\ dequeued'[l] = d /\ Cardinality(WritingIn(l)') = w /\ Cardinality(DrainedIn(l)') = x
      BY <1>0, <2>1, <2>2, <3>1, <3>3, <3>n
    <3>e. e + u = q + d + w + x
      BY <3>n, Zenon
    <3>a. (e + 1) + (u - 1) = q + d + w + x
      BY <3>e
    <3> QED
      BY <3>r, <3>t, <3>a DEF CountInv
  <2> QED
    BY <2>3, <2>4, <2>5
<1> QED
  BY <1>1, <1>2, <1>3, <1>4 DEF StatsInv

\* A frame is taken from its lane, to be written or to be answered by drain.
LEMMA PopKeepsStats ==
  ASSUME TypeOK, FrameInv, StatsInv, TryPop \/ DrainFrame PROVE StatsInv'
<1>0. PICK x : x = Head(queue[prio])
  OBVIOUS
<1>1. /\ prio \in Lanes /\ queue[prio] \in Seq(Frames) /\ queue[prio] # <<>>
      /\ UNCHANGED <<lane, pc, result, prio, enqueued, dequeued, rejected, writeErrors>>
      /\ inflight = {} /\ queue' = [queue EXCEPT ![prio] = Tail(@)]
  BY DEF TryPop, DrainFrame, TypeOK, callVars, runVars, statVars, StatsInv, RunInv, LanesPopped
<1>2. /\ x \in Frames /\ Len(queue[prio]) \in Nat \ {0} /\ Len(Tail(queue[prio])) = Len(queue[prio]) - 1
      /\ x = queue[prio][1]
  BY <1>0, <1>1, PopType
<1>3. lane[x] = prio /\ fate[x] = "queued"
  <2>1. Occurs(x, queue[prio])
    <3>1. 1 \in 1 .. Len(queue[prio])
      BY <1>2
    <3> QED
      BY <1>2, <3>1 DEF Occurs
  <2> QED
    BY <1>1, <1>2, <2>1 DEF FrameInv, LaneInv
<1>4. /\ Len(queue'[prio]) = Len(queue[prio]) - 1
      /\ \A l \in Lanes : l # prio => queue'[l] = queue[l]
  BY <1>1, <1>2 DEF TypeOK
<1>5. \/ TryPop /\ inflight' = {x} /\ run' = "write" /\ fate' = [fate EXCEPT ![x] = "writing"]
      \/ DrainFrame /\ inflight' = {} /\ run' = run /\ run = "drain" /\ fate' = [fate EXCEPT ![x] = "drained"]
  BY <1>0, <1>1 DEF TryPop, DrainFrame, runVars
<1>6. IsFiniteSet(Called)'
  BY <1>1 DEF StatsInv, Called
<1>7. RunInv'
  BY <1>1, <1>3, <1>5 DEF RunInv
<1>8. (writeErrors = Cardinality(FailedFrames))'
  <2>1. FailedFrames' = FailedFrames
    BY <1>3, <1>5 DEF FailedFrames, TypeOK
  <2> QED
    BY <1>1, <2>1 DEF StatsInv
<1>9. ASSUME NEW l \in Lanes PROVE CountInv(l)'
  <2>0. CountInv(l)
    BY DEF StatsInv
  <2>1. UncountedIn(l)' = UncountedIn(l) /\ RefusedIn(l)' = RefusedIn(l)
    BY <1>1 DEF UncountedIn, RefusedIn
  <2>2. CASE l # prio
    <3>1. DrainedIn(l)' = DrainedIn(l)
      BY <1>1, <1>3, <1>5, <2>2 DEF DrainedIn, TypeOK
    <3>2. WritingIn(l)' = WritingIn(l)
      BY <1>1, <1>3, <1>5, <2>2 DEF WritingIn
    <3> QED
      BY <1>1, <1>4, <2>0, <2>1, <2>2, <3>1, <3>2, CountKept
  <2>3. CASE l = prio /\ TryPop
    <3>0. inflight' = {x} /\ fate' = [fate EXCEPT ![x] = "writing"]
      BY <1>5, <2>3 DEF DrainFrame, TryPop
    <3>1. DrainedIn(l)' = DrainedIn(l)
      BY <1>1, <1>3, <3>0 DEF DrainedIn, TypeOK
    <3>2. WritingIn(l)' = WritingIn(l) \cup {x} /\ x \notin WritingIn(l)
      BY <1>1, <1>2, <1>3, <2>3, <3>0 DEF WritingIn
    <3>3. Cardinality(WritingIn(l)') = Cardinality(WritingIn(l)) + 1
      BY <3>2, CountsFinite, OneMore
    <3>n. PICK e, u, q, d, w, z \in Nat :
             /\ e = enqueued[l] /\ u = Cardinality(UncountedIn(l)) /\ q = Len(queue[l])
             /\ d = dequeued[l] /\ w = Cardinality(WritingIn(l)) /\ z = Cardinality(DrainedIn(l))
             /\ e + u = q + d + w + z
      BY CountTerms
    <3>r. rejected'[l] = Cardinality(RefusedIn(l)')
      BY <1>1, <2>0, <2>1 DEF CountInv
    <3>t. /\ enqueued'[l] = e /\ Cardinality(UncountedIn(l)') = u /\ Len(queue'[l]) = q - 1
          /\ dequeued'[l] = d /\ Cardinality(WritingIn(l)') = w + 1 /\ Cardinality(DrainedIn(l)') = z
      BY <1>1, <1>4, <2>1, <2>3, <3>1, <3>3, <3>n
    <3>e. e + u = q + d + w + z
      BY <3>n, Zenon
    <3>a. e + u = (q - 1) + d + (w + 1) + z
      BY <3>e
    <3> QED
      BY <3>r, <3>t, <3>a DEF CountInv
  <2>4. CASE l = prio /\ DrainFrame
    <3>0. inflight' = {} /\ fate' = [fate EXCEPT ![x] = "drained"]
      BY <1>5, <2>4 DEF DrainFrame, TryPop
    <3>1. WritingIn(l)' = WritingIn(l)
      BY <1>1, <3>0 DEF WritingIn
    <3>2. DrainedIn(l)' = DrainedIn(l) \cup {x} /\ x \notin DrainedIn(l)
      BY <1>1, <1>2, <1>3, <2>4, <3>0 DEF DrainedIn, TypeOK
    <3>3. Cardinality(DrainedIn(l)') = Cardinality(DrainedIn(l)) + 1
      BY <3>2, CountsFinite, OneMore
    <3>n. PICK e, u, q, d, w, z \in Nat :
             /\ e = enqueued[l] /\ u = Cardinality(UncountedIn(l)) /\ q = Len(queue[l])
             /\ d = dequeued[l] /\ w = Cardinality(WritingIn(l)) /\ z = Cardinality(DrainedIn(l))
             /\ e + u = q + d + w + z
      BY CountTerms
    <3>r. rejected'[l] = Cardinality(RefusedIn(l)')
      BY <1>1, <2>0, <2>1 DEF CountInv
    <3>t. /\ enqueued'[l] = e /\ Cardinality(UncountedIn(l)') = u /\ Len(queue'[l]) = q - 1
          /\ dequeued'[l] = d /\ Cardinality(WritingIn(l)') = w /\ Cardinality(DrainedIn(l)') = z + 1
      BY <1>1, <1>4, <2>1, <2>4, <3>1, <3>3, <3>n
    <3>e. e + u = q + d + w + z
      BY <3>n, Zenon
    <3>a. e + u = (q - 1) + d + w + (z + 1)
      BY <3>e
    <3> QED
      BY <3>r, <3>t, <3>a DEF CountInv
  <2> QED
    BY <2>2, <2>3, <2>4
<1> QED
  BY <1>6, <1>7, <1>8, <1>9 DEF StatsInv

\* conn.Write returns.
LEMMA WriteKeepsStats ==
  ASSUME TypeOK, FrameInv, StatsInv, NEW f \in Frames, NEW r \in {"nil", "writeErr"}, WriteReturns(f, r)
  PROVE  StatsInv'
<1>1. /\ UNCHANGED <<lane, pc, result, queue, prio, enqueued, rejected>> /\ prio \in Lanes
      /\ lane[f] = prio /\ inflight = {f} /\ inflight' = {} /\ fate[f] = "writing"
      /\ fate' = [fate EXCEPT ![f] = IF r = "nil" THEN "written" ELSE "failed"]
      /\ dequeued' = [dequeued EXCEPT ![prio] = @ + 1]
      /\ writeErrors' = IF r = "nil" THEN writeErrors ELSE writeErrors + 1
  BY DEF WriteReturns, DequeuedAfter, callVars, StatsInv, RunInv, TypeOK, FrameInv, CallInv
<1>2. IsFiniteSet(Called)'
  BY <1>1 DEF StatsInv, Called
<1>3. RunInv'
  BY <1>1 DEF RunInv
<1>4. (writeErrors = Cardinality(FailedFrames))'
  <2>1. CASE r = "nil"
    <3>1. FailedFrames' = FailedFrames
      BY <1>1, <2>1 DEF FailedFrames, TypeOK
    <3> QED
      BY <1>1, <2>1, <3>1 DEF StatsInv
  <2>2. CASE r # "nil"
    <3>1. FailedFrames' = FailedFrames \cup {f} /\ f \notin FailedFrames
      BY <1>1, <2>2 DEF FailedFrames, TypeOK
    <3>2. Cardinality(FailedFrames') = Cardinality(FailedFrames) + 1
      BY <3>1, CountsFinite, OneMore
    <3> QED
      BY <1>1, <2>2, <3>2 DEF StatsInv
  <2> QED
    BY <2>1, <2>2
<1>5. ASSUME NEW l \in Lanes PROVE CountInv(l)'
  <2>0. CountInv(l)
    BY DEF StatsInv
  <2>1. UncountedIn(l)' = UncountedIn(l) /\ RefusedIn(l)' = RefusedIn(l)
    BY <1>1 DEF UncountedIn, RefusedIn
  <2>2. DrainedIn(l)' = DrainedIn(l)
    BY <1>1 DEF DrainedIn, TypeOK
  <2>3. CASE l # prio
    <3>1. WritingIn(l)' = WritingIn(l) /\ dequeued'[l] = dequeued[l]
      BY <1>1, <2>3 DEF WritingIn, TypeOK
    <3> QED
      BY <1>1, <2>0, <2>1, <2>2, <3>1, CountKept
  <2>4. CASE l = prio
    <3>1. WritingIn(l)' = WritingIn(l) \ {f} /\ f \in WritingIn(l)
      BY <1>1, <2>4 DEF WritingIn
    <3>2. Cardinality(WritingIn(l)) = Cardinality(WritingIn(l)') + 1 /\ Cardinality(WritingIn(l)') \in Nat
      BY <3>1, CountsFinite, OneLess
    <3>3. dequeued'[l] = dequeued[l] + 1
      BY <1>1, <2>4 DEF TypeOK
    <3>n. PICK e, u, q, d, w, x \in Nat :
             /\ e = enqueued[l] /\ u = Cardinality(UncountedIn(l)) /\ q = Len(queue[l])
             /\ d = dequeued[l] /\ w = Cardinality(WritingIn(l)) /\ x = Cardinality(DrainedIn(l))
             /\ e + u = q + d + w + x
      BY CountTerms
    <3>r. rejected'[l] = Cardinality(RefusedIn(l)')
      BY <1>1, <2>0, <2>1 DEF CountInv
    <3>t. /\ enqueued'[l] = e /\ Cardinality(UncountedIn(l)') = u /\ Len(queue'[l]) = q
          /\ dequeued'[l] = d + 1 /\ Cardinality(WritingIn(l)') = w - 1 /\ Cardinality(DrainedIn(l)') = x
      BY <1>1, <2>1, <2>2, <3>2, <3>3, <3>n
    <3>e. e + u = q + d + w + x
      BY <3>n, Zenon
    <3>a. e + u = q + (d + 1) + (w - 1) + x
      BY <3>e
    <3> QED
      BY <3>r, <3>t, <3>a DEF CountInv
  <2> QED
    BY <2>3, <2>4
<1> QED
  BY <1>2, <1>3, <1>4, <1>5 DEF StatsInv

\* The other steps count nothing.
LEMMA OthersKeepStats ==
  ASSUME TypeOK, StatsInv,
         \/ \E f \in Frames : CtxEnds(f)
         \/ NextLane \/ CheckStop \/ Woken \/ ParkStopped \/ DrainNextLane \/ Close \/ ConnDown \/ UNCHANGED vars
  PROVE  StatsInv'
<1>1. /\ UNCHANGED <<lane, pc, result, queue, inflight, enqueued, dequeued, rejected, writeErrors, fate>>
      /\ UNCHANGED <<run, prio>> \/ (run # "write" /\ run' # "write")
  BY DEF CtxEnds, NextLane, CheckStop, Woken, ParkStopped, DrainNextLane, Close, ConnDown, vars, callVars,
         chanVars, runVars, statVars
<1>2. RunInv'
  BY <1>1 DEF StatsInv, RunInv
<1>3. Called' = Called /\ FailedFrames' = FailedFrames
  BY <1>1 DEF Called, FailedFrames
<1>4. ASSUME NEW l \in Lanes PROVE CountInv(l)'
  <2>1. UncountedIn(l)' = UncountedIn(l) /\ WritingIn(l)' = WritingIn(l)
    BY <1>1 DEF UncountedIn, WritingIn
  <2>2. DrainedIn(l)' = DrainedIn(l) /\ RefusedIn(l)' = RefusedIn(l)
    BY <1>1 DEF DrainedIn, RefusedIn
  <2>3. CountInv(l)
    BY DEF StatsInv
  <2> QED
    BY <1>1, <2>1, <2>2, <2>3, CountKept
<1> QED
  BY <1>1, <1>2, <1>3, <1>4 DEF StatsInv

\* The counters start out right ...
LEMMA StatsInit == Init => StatsInv
<1> SUFFICES ASSUME Init PROVE StatsInv
  OBVIOUS
<1>1. IsFiniteSet({}) /\ Cardinality({}) = 0 /\ Len(<<>>) = 0
  BY FS_EmptySet
<1>2. Called = {} /\ FailedFrames = {} /\ RunInv
  BY DEF Init, Called, FailedFrames, RunInv
<1>3. ASSUME NEW l \in Lanes PROVE CountInv(l)
  <2>1. UncountedIn(l) = {} /\ WritingIn(l) = {} /\ DrainedIn(l) = {} /\ RefusedIn(l) = {}
    BY DEF Init, UncountedIn, WritingIn, DrainedIn, RefusedIn
  <2>2. queue[l] = <<>> /\ enqueued[l] = 0 /\ dequeued[l] = 0 /\ rejected[l] = 0
    BY DEF Init
  <2> QED
    BY <1>1, <2>1, <2>2 DEF CountInv
<1> QED
  BY <1>1, <1>2, <1>3 DEF Init, StatsInv

\* ... and stay right.
LEMMA StatsStep == TypeOK /\ FrameInv /\ StatsInv /\ [Next]_vars => StatsInv'
BY ReturnsKeepStats, PushKeepsStats, PopKeepsStats, WriteKeepsStats, OthersKeepStats
   DEF Next, CallStep, WriteStep, LoopStep

\* The numbers adminDiagnostics shows account for every frame, for any number of
\* calls and at any moment between the atomic updates.
THEOREM CountersBalance == Spec => []StatsBalance
<1>1. StatsInv => StatsBalance
  BY DEF StatsInv, StatsBalance, Snapshot, CountOf, CountInv, UncountedIn, WritingIn, DrainedIn, RefusedIn,
         FailedFrames
<1> QED
  BY <1>1, StatsInit, StatsStep, FrameInit, FrameStep, TypeCorrect, PTL DEF Spec
==============================================================================
