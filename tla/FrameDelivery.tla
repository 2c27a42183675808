---------------------------- MODULE FrameDelivery ----------------------------
(***************************************************************************)
(* What enqueue promises to the code that calls it (writeAgentJSONPriority *)
(* and writeAgentBinary), without lanes, weights, wake-ups or goroutines:  *)
(* a frame goes on the wire at most once, nil is returned only for a frame *)
(* that is on the wire, and a frame that was refused with "queue is full"  *)
(* never gets there.  Every other error leaves the outcome unknown: the    *)
(* frame may be on the wire, may get there later, or never.                *)
(***************************************************************************)
CONSTANT Frames

VARIABLES delivered,   \* the frames the agent connection has accepted
          told         \* what the caller of each frame has been told

vars == <<delivered, told>>

Answers == {"sent", "refused", "unknown"}

Init == /\ delivered = {}
        /\ told = [f \in Frames |-> "none"]

\* The frame goes on the wire, whether or not its caller is still waiting.
Deliver(f) == /\ f \notin delivered
              /\ told[f] # "refused"
              /\ delivered' = delivered \cup {f}
              /\ told' = told

\* The call returns.
Answer(f, a) == /\ told[f] = "none"
                /\ a = "sent" => f \in delivered
                /\ a = "refused" => f \notin delivered
                /\ told' = [told EXCEPT ![f] = a]
                /\ delivered' = delivered

Next == \E f \in Frames : Deliver(f) \/ \E a \in Answers : Answer(f, a)

Spec == Init /\ [][Next]_vars
==============================================================================
