-------------------------- MODULE OutboundScheduler --------------------------
(***************************************************************************)
(* internal/api/outbound_scheduler.go: the goroutine that owns all writes  *)
(* to one agent connection, its three bounded lanes, and the goroutines    *)
(* that call enqueue and close.                                            *)
(*                                                                         *)
(* A member of Frames is one call of enqueue together with the frame it    *)
(* makes.  Every channel operation and every atomic that another goroutine *)
(* looks at is a step of its own; the payload of a frame is left out.      *)
(***************************************************************************)
EXTENDS Naturals, Sequences, FiniteSets

CONSTANTS Frames,             \* the enqueue calls made in a behaviour
          Cancellable,        \* the ones whose context can end
          LaneCapacity,       \* outboundLaneCapacity
          CriticalWeight,     \* outboundCriticalWeight
          InteractiveWeight,  \* outboundInteractiveWeight
          BulkWeight          \* outboundBulkWeight

ASSUME CancellableAssumption == Cancellable \subseteq Frames
ASSUME CapacityAssumption == LaneCapacity \in Nat \ {0}
ASSUME WeightAssumption == /\ CriticalWeight \in Nat \ {0}
                           /\ InteractiveWeight \in Nat \ {0}
                           /\ BulkWeight \in Nat \ {0}

Critical == 0
Interactive == 1
Bulk == 2
Lanes == Critical .. Bulk

\* The array weights of run.
Weight == [l \in Lanes |-> IF l = Critical THEN CriticalWeight
                           ELSE IF l = Interactive THEN InteractiveWeight
                           ELSE BulkWeight]

VARIABLES
  lane,      \* the priority each call passes
  pc,        \* where each call of enqueue is
  result,    \* what each call has returned
  ctxDone,   \* the calls whose context has ended
  done,      \* frame.done, a channel of capacity one per frame
  queue,     \* the channels critical, interactive and bulk
  wake,      \* whether the wake channel holds its single token
  stop,      \* stopOnce: "open", then "stored" (stopped set), then "closed"
  connUp,    \* whether the agent's websocket still accepts writes
  run,       \* where the run goroutine is
  prio,      \* the lane its loop (or its drain) has reached
  budget,    \* iterations left in "for range weight"
  inflight,  \* the frame passed to s.write, in a set of at most one
  enqueued, dequeued, rejected, writeErrors,  \* the counters of snapshot
  fate,      \* history: what has become of each frame
  bypass     \* history: frames of other lanes popped while a lane's head waits

callVars == <<lane, pc, result, ctxDone>>
chanVars == <<done, queue, wake>>
runVars == <<run, prio, budget, inflight>>
statVars == <<enqueued, dequeued, rejected, writeErrors>>
vars == <<callVars, chanVars, stop, connUp, runVars, statVars, fate, bypass>>

CallStates == {"idle", "select", "pushed", "await", "returned"}
Results == {"none", "nil", "writeErr", "closed", "full", "ctx"}
Fates == {"none", "queued", "writing", "written", "failed", "drained"}
RunStates == {"pop", "write", "check", "park", "drain", "exit"}

TypeOK ==
  /\ lane \in [Frames -> Lanes]
  /\ pc \in [Frames -> CallStates]
  /\ result \in [Frames -> Results]
  /\ ctxDone \in SUBSET Frames
  /\ done \in [Frames -> {"empty", "nil", "writeErr", "closed"}]
  /\ queue \in [Lanes -> Seq(Frames)]
  /\ wake \in BOOLEAN
  /\ stop \in {"open", "stored", "closed"}
  /\ connUp \in BOOLEAN
  /\ run \in RunStates
  /\ prio \in Lanes
  /\ budget \in Nat
  /\ inflight \in SUBSET Frames
  /\ enqueued \in [Lanes -> Nat]
  /\ dequeued \in [Lanes -> Nat]
  /\ rejected \in [Lanes -> Nat]
  /\ writeErrors \in Nat
  /\ fate \in [Frames -> Fates]
  /\ bypass \in [Lanes -> Nat]

\* newOutboundScheduler: empty lanes, no token, run about to start a pass.
Init ==
  /\ lane \in [Frames -> Lanes]
  /\ pc = [f \in Frames |-> "idle"]
  /\ result = [f \in Frames |-> "none"]
  /\ ctxDone = {}
  /\ done = [f \in Frames |-> "empty"]
  /\ queue = [l \in Lanes |-> <<>>]
  /\ wake = FALSE
  /\ stop = "open"
  /\ connUp = TRUE
  /\ run = "pop"
  /\ prio = Critical
  /\ budget = Weight[Critical]
  /\ inflight = {}
  /\ enqueued = [l \in Lanes |-> 0]
  /\ dequeued = [l \in Lanes |-> 0]
  /\ rejected = [l \in Lanes |-> 0]
  /\ writeErrors = 0
  /\ fate = [f \in Frames |-> "none"]
  /\ bypass = [l \in Lanes |-> 0]

-----------------------------------------------------------------------------
(* enqueue *)

Return(f, r) == /\ pc' = [pc EXCEPT ![f] = "returned"]
                /\ result' = [result EXCEPT ![f] = r]

\* The s.stopped check at the head of enqueue.
EnqueueStart(f) ==
  /\ pc[f] = "idle"
  /\ IF stop # "open"
     THEN Return(f, "closed")
     ELSE pc' = [pc EXCEPT ![f] = "select"] /\ UNCHANGED result
  /\ UNCHANGED <<lane, ctxDone, chanVars, stop, connUp, runVars, statVars, fate, bypass>>

HasRoom(l) == Len(queue[l]) < LaneCapacity

\* queue <- frame wins the first select.
Push(f) ==
  /\ pc[f] = "select"
  /\ HasRoom(lane[f])
  /\ queue' = [queue EXCEPT ![lane[f]] = Append(@, f)]
  /\ fate' = [fate EXCEPT ![f] = "queued"]
  /\ pc' = [pc EXCEPT ![f] = "pushed"]
  /\ UNCHANGED <<lane, result, ctxDone, done, wake, stop, connUp, runVars, statVars, bypass>>

\* The frame is counted, and a token is put in wake unless one is there.
Signal(f) ==
  /\ pc[f] = "pushed"
  /\ enqueued' = [enqueued EXCEPT ![lane[f]] = @ + 1]
  /\ wake' = TRUE
  /\ pc' = [pc EXCEPT ![f] = "await"]
  /\ UNCHANGED <<lane, result, ctxDone, done, queue, stop, connUp, runVars,
                 dequeued, rejected, writeErrors, fate, bypass>>

\* The default branch: taken only when no other case of the select is ready.
QueueFull(f) ==
  /\ pc[f] = "select"
  /\ ~HasRoom(lane[f])
  /\ f \notin ctxDone
  /\ stop # "closed"
  /\ rejected' = [rejected EXCEPT ![lane[f]] = @ + 1]
  /\ Return(f, "full")
  /\ UNCHANGED <<lane, ctxDone, chanVars, stop, connUp, runVars,
                 enqueued, dequeued, writeErrors, fate, bypass>>

\* case <-ctx.Done() of either select.
ReturnCtx(f) ==
  /\ pc[f] \in {"select", "await"}
  /\ f \in ctxDone
  /\ Return(f, "ctx")
  /\ UNCHANGED <<lane, ctxDone, chanVars, stop, connUp, runVars, statVars, fate, bypass>>

\* Mutant: the second select has no case <-s.stopCh.
SeesStopOnlyFirst(f) == pc[f] = "select" /\ stop = "closed"

SeesStop(f) == pc[f] \in {"select", "await"} /\ stop = "closed"

\* case <-s.stopCh of either select.
ReturnStopped(f) ==
  /\ SeesStop(f)
  /\ Return(f, "closed")
  /\ UNCHANGED <<lane, ctxDone, chanVars, stop, connUp, runVars, statVars, fate, bypass>>

\* case err := <-frame.done of the second select.
ReturnDone(f) ==
  /\ pc[f] = "await"
  /\ done[f] # "empty"
  /\ Return(f, done[f])
  /\ done' = [done EXCEPT ![f] = "empty"]
  /\ UNCHANGED <<lane, ctxDone, queue, wake, stop, connUp, runVars, statVars, fate, bypass>>

-----------------------------------------------------------------------------
(* run, tryPop, write and drain *)

\* bypass after a frame of lane l is popped for writing.
Overtake(l) == [k \in Lanes |-> IF k = l \/ queue[k] = <<>> THEN 0 ELSE bypass[k] + 1]

\* Mutant: the inner loop runs once too often.
HasBudgetOffByOne == budget >= 0

HasBudget == budget > 0

\* Mutant: the frame is looked at and left in its lane.
LanesPeeked(l) == [queue EXCEPT ![l] = @]

\* The lanes after a receive from lane l.
LanesPopped(l) == [queue EXCEPT ![l] = Tail(@)]

\* tryPop finds a frame and s.write is called with it.
TryPop ==
  /\ run = "pop"
  /\ HasBudget
  /\ queue[prio] # <<>>
  /\ queue' = LanesPopped(prio)
  /\ inflight' = {Head(queue[prio])}
  /\ fate' = [fate EXCEPT ![Head(queue[prio])] = "writing"]
  /\ budget' = budget - 1
  /\ bypass' = Overtake(prio)
  /\ run' = "write"
  /\ UNCHANGED <<callVars, done, wake, stop, connUp, prio, statVars>>

LaneExhausted == budget = 0 \/ queue[prio] = <<>>

\* The inner loop ends: its weight is used up, or tryPop found nothing.
NextLane ==
  /\ run = "pop"
  /\ LaneExhausted
  /\ run' = IF prio = Bulk THEN "check" ELSE "pop"
  /\ prio' = IF prio = Bulk THEN Critical ELSE prio + 1
  /\ budget' = Weight[prio']
  /\ UNCHANGED <<callVars, chanVars, stop, connUp, inflight, statVars, fate, bypass>>

\* Mutant: a frame whose write failed is not counted as dequeued.
DequeuedIfWritten(r) == IF r = "nil" THEN [dequeued EXCEPT ![prio] = @ + 1] ELSE dequeued

DequeuedAfter(r) == [dequeued EXCEPT ![prio] = @ + 1]

\* conn.Write returns (external): nil needs a live connection, an error a
\* broken one or an ended context.  The outcome is counted and sent to done.
WriteReturns(f, r) ==
  /\ run = "write"
  /\ f \in inflight
  /\ r = "nil" => connUp
  /\ r = "writeErr" => ~connUp \/ f \in ctxDone
  /\ writeErrors' = IF r = "nil" THEN writeErrors ELSE writeErrors + 1
  /\ dequeued' = DequeuedAfter(r)
  /\ done' = [done EXCEPT ![f] = r]
  /\ fate' = [fate EXCEPT ![f] = IF r = "nil" THEN "written" ELSE "failed"]
  /\ inflight' = {}
  /\ run' = "pop"
  /\ UNCHANGED <<callVars, queue, wake, stop, connUp, prio, budget, enqueued, rejected, bypass>>

\* The first select after a pass: drain when stopCh is closed, else go on.
CheckStop ==
  /\ run = "check"
  /\ run' = IF stop = "closed" THEN "drain" ELSE "park"
  /\ UNCHANGED <<callVars, chanVars, stop, connUp, prio, budget, inflight, statVars, fate, bypass>>

\* The second select: a token starts the next weighted pass ...
Woken ==
  /\ run = "park"
  /\ wake
  /\ wake' = FALSE
  /\ run' = "pop"
  /\ UNCHANGED <<callVars, done, queue, stop, connUp, prio, budget, inflight, statVars, fate, bypass>>

\* Mutant: the second select waits for wake alone.
ParkIgnoresStop == FALSE

ParkSeesStop == stop = "closed"

\* ... and a closed stopCh ends the loop.
ParkStopped ==
  /\ run = "park"
  /\ ParkSeesStop
  /\ run' = "drain"
  /\ UNCHANGED <<callVars, chanVars, stop, connUp, prio, budget, inflight, statVars, fate, bypass>>

\* Mutant: drain answers nil.
DrainResultNil == "nil"

\* What drain sends to the frames it finds.
DrainResult == "closed"

\* drain: answer the frames of one lane, go to the next when it is empty.
DrainFrame ==
  /\ run = "drain"
  /\ queue[prio] # <<>>
  /\ queue' = LanesPopped(prio)
  /\ done' = [done EXCEPT ![Head(queue[prio])] = DrainResult]
  /\ fate' = [fate EXCEPT ![Head(queue[prio])] = "drained"]
  /\ UNCHANGED <<callVars, wake, stop, connUp, runVars, statVars, bypass>>

\* Mutant: the cursor of drain runs past the last lane.
DrainCursorPastEnd == prio + 1

DrainCursor == IF prio = Bulk THEN prio ELSE prio + 1

DrainNextLane ==
  /\ run = "drain"
  /\ queue[prio] = <<>>
  /\ run' = IF prio = Bulk THEN "exit" ELSE "drain"
  /\ prio' = DrainCursor
  /\ UNCHANGED <<callVars, chanVars, stop, connUp, budget, inflight, statVars, fate, bypass>>

-----------------------------------------------------------------------------
(* close, and what happens around the scheduler *)

\* close: stopped.Store(true), then close(stopCh), once.
Close ==
  /\ stop # "closed"
  /\ stop' = IF stop = "open" THEN "stored" ELSE "closed"
  /\ UNCHANGED <<callVars, chanVars, connUp, runVars, statVars, fate, bypass>>

\* The connection breaks, or agentConnect's cleanup calls CloseNow.
ConnDown ==
  /\ connUp
  /\ connUp' = FALSE
  /\ UNCHANGED <<callVars, chanVars, stop, runVars, statVars, fate, bypass>>

\* The context of a call ends: the browser went away or a deadline passed.  Only
\* a select of the call or the write of its frame can tell.
CtxWatched(f) == pc[f] \in {"select", "await"} \/ fate[f] \in {"queued", "writing"}

CtxEnds(f) ==
  /\ f \in Cancellable \ ctxDone
  /\ CtxWatched(f)
  /\ ctxDone' = ctxDone \cup {f}
  /\ UNCHANGED <<lane, pc, result, chanVars, stop, connUp, runVars, statVars, fate, bypass>>

CallStep(f) == \/ EnqueueStart(f) \/ Push(f) \/ Signal(f) \/ QueueFull(f)
               \/ ReturnCtx(f) \/ ReturnStopped(f) \/ ReturnDone(f)

WriteStep == \E f \in Frames : WriteReturns(f, "nil") \/ WriteReturns(f, "writeErr")

LoopStep == \/ TryPop \/ NextLane \/ CheckStop \/ Woken \/ ParkStopped
            \/ DrainFrame \/ DrainNextLane

Next == \/ \E f \in Frames : CallStep(f) \/ CtxEnds(f)
        \/ WriteStep
        \/ LoopStep
        \/ Close
        \/ ConnDown

Spec == Init /\ [][Next]_vars

\* The scheduler in steady service: nobody closes it, breaks the connection or
\* gives up waiting.
SteadyNext == (\E f \in Frames : CallStep(f)) \/ WriteStep \/ LoopStep

SteadySpec == Init /\ [][SteadyNext]_vars

\* A started call goes on when it can (idle calls may never be made); the loop
\* goes on when it can; a close that began ends; once the scheduler is closed
\* agentConnect closes the connection; a write on a dead connection returns.
StartedCall(f) == pc[f] # "idle" /\ CallStep(f)

Fairness == /\ \A f \in Frames : WF_vars(StartedCall(f))
            /\ WF_vars(LoopStep)
            /\ WF_vars(stop = "stored" /\ Close)
            /\ WF_vars(stop = "closed" /\ ConnDown)
            /\ WF_vars(~connUp /\ WriteStep)

FairSpec == Spec /\ Fairness

\* In steady service the agent reads its connection, so that every write returns.
FairSteadySpec == /\ SteadySpec
                  /\ \A f \in Frames : WF_vars(StartedCall(f))
                  /\ WF_vars(LoopStep)
                  /\ WF_vars(WriteStep)

-----------------------------------------------------------------------------
(* Properties *)

\* A nil from enqueue means that conn.Write took the frame; "queue is full"
\* means that it was never in a lane; a write error means that conn.Write
\* failed.  (closed and ctx say nothing: the frame can have any fate.)
ResultTruthful ==
  \A f \in Frames : /\ result[f] = "nil" => fate[f] = "written"
                    /\ result[f] = "writeErr" => fate[f] = "failed"
                    /\ result[f] = "full" => fate[f] = "none"

\* write and drain send to frame.done without a select: the channel of a frame
\* that is queued or being written is empty, so the run goroutine, which serves
\* every caller of the agent, never blocks on a caller that has gone away.
DoneSendNeverBlocks ==
  \A f \in Frames :
    (f \in inflight \/ \E l \in Lanes : \E i \in 1 .. Len(queue[l]) : queue[l][i] = f)
      => done[f] = "empty"

\* A lane never holds more than outboundLaneCapacity frames, and a frame is in
\* one place of one lane (its own) at most.
LanesSound ==
  /\ \A l \in Lanes : Len(queue[l]) <= LaneCapacity
  /\ \A l \in Lanes : \A i \in 1 .. Len(queue[l]) :
        /\ lane[queue[l][i]] = l
        /\ \A j \in 1 .. Len(queue[l]) : queue[l][i] = queue[l][j] => i = j

\* Weighted round robin bounds overtaking: while the frame at the head of a lane
\* waits, the loop writes at most one full round of the other lanes before it.
OtherWeights(l) == CriticalWeight + InteractiveWeight + BulkWeight - Weight[l]

BypassBound == \A l \in Lanes : bypass[l] <= OtherWeights(l)

\* The record of snapshot for one lane.
Snapshot(l) == [queued |-> Len(queue[l]), enqueued |-> enqueued[l],
                dequeued |-> dequeued[l], rejected |-> rejected[l]]

CountOf(l, P(_)) == Cardinality({f \in Frames : lane[f] = l /\ P(f)})

\* The counters that adminDiagnostics shows account for every frame: what was
\* counted in is queued, being written, written or drained, up to the calls that
\* are between their push and their count, and no refusal is missed.  This is about
\* the counters; snapshot, which reads one after the other, may mix two moments.
StatsBalance ==
  /\ \A l \in Lanes :
       LET Uncounted(f) == pc[f] = "pushed"
           Writing(f) == f \in inflight
           Drained(f) == fate[f] = "drained"
           Refused(f) == result[f] = "full"
           snap == Snapshot(l)
       IN /\ snap.enqueued + CountOf(l, Uncounted)
               = snap.queued + snap.dequeued + CountOf(l, Writing) + CountOf(l, Drained)
          /\ snap.rejected = CountOf(l, Refused)
  /\ writeErrors = Cardinality({f \in Frames : fate[f] = "failed"})

\* enqueue keeps the contract its callers rely on.
Told(f) == IF result[f] = "none" THEN "none"
           ELSE IF result[f] = "nil" THEN "sent"
           ELSE IF result[f] = "full" THEN "refused"
           ELSE "unknown"

Delivery == INSTANCE FrameDelivery
              WITH delivered <- {f \in Frames : fate[f] = "written"},
                   told <- [f \in Frames |-> Told(f)]

DeliveryContract == Delivery!Spec

\* Closing the scheduler, or the end of its context, releases every call of
\* enqueue, the one whose frame was pushed after drain had passed included.
CallersReleased ==
  \A f \in Frames :
    (pc[f] # "idle" /\ (stop = "closed" \/ f \in ctxDone)) ~> (pc[f] = "returned")

\* Closing the scheduler ends its goroutine, wherever it was.
CloseEndsRun == (stop = "closed") ~> (run = "exit")

\* docs/protocol-v1.md: the scheduler serves every lane by weighted round robin
\* and bulk is not starved for ever: a frame that is in a lane leaves it, as
\* long as the connection is not closed.
QueuedFramesServed ==
  \A f \in Frames : (fate[f] = "queued") ~> (fate[f] # "queued" \/ stop = "closed")
==============================================================================
