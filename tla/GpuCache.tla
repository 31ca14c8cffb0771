------------------------------ MODULE GpuCache ------------------------------
(***************************************************************************)
(* The experts kept in video memory (picchio_cuda.cu): copies of host      *)
(* weights in an LRU with a byte budget, and the call that computes a      *)
(* layer's sum of experts from them (pgpu_moe_layer).  The call stamps the *)
(* experts it finds, uploads the others, which may evict, and hands over   *)
(* its sum only at the end; any CUDA call may fail, the last copy also     *)
(* after writing part of the sum.                                          *)
(*                                                                         *)
(* The stamps are kept as the order they induce.  The key (layer, eid) is  *)
(* the eid: entries of other layers behave as experts not selected.        *)
(***************************************************************************)
EXTENDS ExpertStore, Sequences, SequencesExt, FiniteSetsExt

ASSUME BudgetAssumption == \A v \in Setups : v.budget \in Nat \ {0}
ASSUME CopyAssumption == None \notin [has : Experts \cup {Noise}, bytes : Nat]

VARIABLES
    vram,      \* g_ecache: per expert None, or the bytes copied and their size
    lru,       \* its experts, the least recently used first
    vramUsed,  \* g_vram_used
    ge,        \* the call's experts: eid and host weights, or None (NULL)
    gpc,       \* the call: "off", "loop", "failed", "spilled" or "done"
    gk,        \* the experts already accumulated
    acc        \* g_dout: per expert, the weights its terms were computed with

gpuVars == <<vram, lru, vramUsed, ge, gpc, gk, acc>>

NoTerm == [e \in Experts |-> <<>>]

GpuInit ==
    /\ vram = [e \in Experts |-> None] /\ lru = <<>> /\ vramUsed = 0
    /\ ge = <<>> /\ gpc = "off" /\ gk = 0 /\ acc = NoTerm

(* Bytes of a copy: the weights, and each bias that is present.            *)
WeightBytes == 2
BiasBytes == 1
BytesOf(host) == WeightBytes + BiasBytes * host.biases

TotalWithBiases(S) ==          \* a mutant of Total
    MapThenSumSet(LAMBDA e : WeightBytes + 2 * BiasBytes, S)
Total(S) == MapThenSumSet(LAMBDA e : vram[e].bytes, S)

(* An expert of the order becomes its newest.                              *)
Touched(order, e) ==
    LET n == Len(order)
        p == CHOOSE i \in 1..n : order[i] = e
    IN  [i \in 1..n |-> IF i < p THEN order[i] ELSE IF i < n THEN order[i + 1] ELSE e]

(* The call's residents are stamped first, in the order of the call.       *)
StampsNothing(calls) == lru        \* a mutant of Stamped
Stamped(calls) ==
    LET after[k \in 0..Len(calls)] ==
          IF k = 0 THEN lru
          ELSE IF vram[calls[k].eid] # None THEN Touched(after[k - 1], calls[k].eid)
          ELSE after[k - 1]
    IN  after[Len(calls)]

(* pgpu_moe_layer up to its loop; the scratch buffers may not be available.*)
CallMoe(calls) ==
    /\ gpc = "off"
    /\ ge' = calls
    /\ \/ gpc' = "loop" /\ lru' = Stamped(calls)
       \/ gpc' = "failed" /\ UNCHANGED lru
    /\ gk' = 0 /\ acc' = NoTerm
    /\ UNCHANGED <<vram, vramUsed>>

Now == ge[gk + 1]

(* One expert accumulated with the device's copy of it.                    *)
Accumulates(has) ==
    /\ acc' = [acc EXCEPT ![Now.eid] = Append(@, has)]
    /\ gk' = gk + 1

Hit ==
    /\ gpc = "loop" /\ gk < Len(ge)
    /\ vram[Now.eid] # None
    /\ lru' = Touched(lru, Now.eid)
    /\ Accumulates(vram[Now.eid].has)
    /\ UNCHANGED <<vram, vramUsed, ge, gpc>>

(* An expert without host weights that is no longer here.                  *)
Absent ==
    /\ gpc = "loop" /\ gk < Len(ge)
    /\ vram[Now.eid] = None /\ Now.host = None
    /\ gpc' = "failed"
    /\ UNCHANGED <<vram, lru, vramUsed, ge, gk, acc>>

(* The least recently used are evicted until the newcomer fits, or there   *)
(* is nothing left to evict.                                               *)
RoomAfter(n, need) ==
    vramUsed - Total({lru[i] : i \in 1..n}) + need <= env.budget
RoomBefore(n, need) ==             \* a mutant of Fits
    vramUsed - Total({lru[i] : i \in 1..n}) <= env.budget
Fits(n, need) == RoomAfter(n, need)
Evictions(need) ==
    Min({n \in 0..Len(lru) : n = Len(lru) \/ Fits(n, need)})

Upload ==
    /\ gpc = "loop" /\ gk < Len(ge)
    /\ vram[Now.eid] = None /\ Now.host # None
    /\ LET need == BytesOf(Now.host)
           n == Evictions(need)
           gone == {lru[i] : i \in 1..n}
           kept == [e \in Experts |-> IF e \in gone THEN None ELSE vram[e]]
       IN  \/ /\ vram' = [kept EXCEPT ![Now.eid] =
                            [has |-> Now.host.has, bytes |-> need]]
              /\ lru' = SubSeq(lru, n + 1, Len(lru)) \o <<Now.eid>>
              /\ vramUsed' = vramUsed - Total(gone) + need
              /\ Accumulates(Now.host.has)
              /\ UNCHANGED gpc
           \/ /\ vram' = kept           \* an allocation or a copy failed
              /\ lru' = SubSeq(lru, n + 1, Len(lru))
              /\ vramUsed' = vramUsed - Total(gone)
              /\ gpc' = "failed"
              /\ UNCHANGED <<gk, acc>>
    /\ UNCHANGED ge

(* The launches are checked and the sum is copied to the host; the copy    *)
(* may fail with nothing written, or with part of it.                      *)
CopyOut ==
    /\ gpc = "loop" /\ gk = Len(ge)
    /\ gpc' \in {"done", "failed", "spilled"}
    /\ UNCHANGED <<vram, lru, vramUsed, ge, gk, acc>>

GpuStep == Hit \/ Absent \/ Upload \/ CopyOut

(* moe_forward reads the result.                                           *)
Returned ==
    /\ gpc' = "off" /\ ge' = <<>> /\ gk' = 0 /\ acc' = NoTerm
    /\ UNCHANGED <<vram, lru, vramUsed>>

-----------------------------------------------------------------------------
(* Properties *)

GpuTypeOK ==
    /\ \A e \in Experts :
          \/ vram[e] = None
          \/ vram[e].has \in Experts \cup {Noise} /\ vram[e].bytes \in Nat \ {0}
    /\ lru \in Seq(Experts) /\ vramUsed \in Nat
    /\ gpc \in {"off", "loop", "failed", "spilled", "done"}
    /\ gk \in 0..Len(ge)
    /\ \A i \in 1..Len(ge) : ge[i].eid \in Experts

(* picchio_cuda.cu:409-417: the bytes counted are those of the entries,    *)
(* each expert is in the order once, and the budget is kept, except for a  *)
(* single expert larger than all of it.                                    *)
VramWithinBudget ==
    /\ {e \in Experts : vram[e] # None} = ToSet(lru)
    /\ Cardinality(ToSet(lru)) = Len(lru)
    /\ vramUsed = Total(ToSet(lru))
    /\ vramUsed <= env.budget \/ Len(lru) = 1

(* What an expert of the call needs, and the call's experts together.      *)
CallCost(i) ==
    IF ge[i].host # None THEN BytesOf(ge[i].host)
    ELSE IF vram[ge[i].eid] # None THEN vram[ge[i].eid].bytes ELSE WeightBytes
CallBytes == MapThenSumSet(CallCost, 1..Len(ge))

(* picchio_cuda.cu:469-471: a miss of a call does not evict an expert of   *)
(* the same call, unless the call's experts do not fit together.           *)
ResidentsKept ==
    [][\A i \in 1..Len(ge) :
          vram[ge[i].eid] # None /\ vram'[ge[i].eid] = None =>
              CallBytes > env.budget]_<<vram, lru, vramUsed, ge, gpc, gk, acc>>

=============================================================================
