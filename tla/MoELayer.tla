------------------------------ MODULE MoELayer ------------------------------
(***************************************************************************)
(* What a mixture-of-experts layer promises, whatever cache, threads or    *)
(* device serve it: the layer routes to a set of experts, the contribution *)
(* of each of them is added exactly once and computed with that expert's   *)
(* own weights, nothing else is added, and the layer is over when every    *)
(* routed expert is accounted for.  An expert may be left out only in a    *)
(* process whose reads may fail.  ("Placement decides only speed",         *)
(* picchio.c:12-13.)                                                       *)
(***************************************************************************)
EXTENDS Naturals, FiniteSets

CONSTANTS Experts, Topk, NoExpert, Dropped

VARIABLES
    lossy,  \* reads may fail
    want,   \* the experts the current layer is routed to; {} between layers
    sum     \* per expert, the weights its contribution was computed with

Outcome(e) == {e} \cup (IF lossy THEN {Dropped} ELSE {})

Init ==
    /\ lossy \in BOOLEAN
    /\ want = {} /\ sum = [e \in Experts |-> NoExpert]

Route(R) ==
    /\ want = {}
    /\ Cardinality(R) >= Topk
    /\ want' = R
    /\ UNCHANGED <<lossy, sum>>

(* Contributions are added one at a time, or all by one call to the GPU.   *)
Add(S) ==
    /\ S # {} /\ \A e \in S : sum[e] = NoExpert
    /\ \A e \in Experts \ S : sum'[e] = sum[e]
    /\ \A e \in S : sum'[e] \in Outcome(e)
    /\ DOMAIN sum' = Experts
    /\ UNCHANGED <<lossy, want>>

LayerEnds ==
    /\ want # {} /\ \A e \in want : sum[e] # NoExpert
    /\ want' = {} /\ sum' = [e \in Experts |-> NoExpert]
    /\ UNCHANGED lossy

Next ==
    \/ \E R \in SUBSET Experts : Route(R)
    \/ \E S \in SUBSET want : Add(S)
    \/ LayerEnds

Spec == Init /\ [][Next]_<<lossy, want, sum>>

=============================================================================
