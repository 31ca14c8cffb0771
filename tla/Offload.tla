------------------------------ MODULE Offload ------------------------------
(***************************************************************************)
(* A mixture-of-experts layer of a token served from three places          *)
(* (moe_forward with gpu_skip_reads): experts the video memory holds are   *)
(* not read, the others come from the slots of the pool, filled from the   *)
(* files by the I/O threads, and when the GPU's answer does not come the   *)
(* unread ones are read after all and the layer is computed on the CPU.    *)
(* Composes ExpertStore, GpuCache and GpuBackend.                          *)
(*                                                                         *)
(* The pool's replacement is abstracted: a victim is any slot this layer   *)
(* does not use (module ExpertCache has the order and the prefetch).       *)
(***************************************************************************)
EXTENDS GpuCache, GpuBackend

CONSTANTS Topk    \* c.topk

ASSUME PoolAssumption ==
    Topk \in Nat \ {0} /\ Topk <= Cardinality(Slots) /\ Topk <= Cardinality(Experts)

VARIABLES
    main,   \* "idle", "load", "gpu" or "reread"
    sel,    \* the layer's experts, in the router's order
    held,   \* slots[]: per expert its slot, or None
    todo,   \* misses of the batch without a slot yet
    out,    \* per expert, the weights its terms in the output come from
    spilt   \* a copy from the device failed after writing part of the output

moeVars == <<main, sel, held, todo, out, spilt>>
vars == <<env, storeVars, halted, gpuVars, backendVars, moeVars>>

Init ==
    /\ StoreInit /\ GpuInit /\ BackendInit
    /\ main = "idle" /\ sel = <<>> /\ todo = {} /\ out = NoTerm
    /\ spilt = FALSE /\ held = [e \in Experts |-> None]

Selections == {q \in [1..Topk -> Experts] :
                 \A i, j \in 1..Topk : i # j => q[i] # q[j]}

(* Pass 1 of cache_load_batch for the experts S.                           *)
Cached(e) == {s \in Slots : eid[s] = e}
Hits(S) == [e \in Experts |->
              IF e \in S /\ Cached(e) # {} THEN CHOOSE s \in Cached(e) : TRUE ELSE None]

(* The router picks the experts; residents of the video memory are skipped.*)
Route(q) ==
    /\ ~halted /\ boot = "up" /\ main = "idle"
    /\ LET S == ToSet(q)
           need == IF gpuOn THEN {e \in S : vram[e] = None} ELSE S
       IN  /\ sel' = q
           /\ held' = Hits(need)
           /\ todo' = {e \in need : Cached(e) = {}}
    /\ main' = "load" /\ out' = NoTerm /\ spilt' = FALSE
    /\ UNCHANGED <<env, storeVars, halted, gpuVars, backendVars>>

(* Pass 2: a slot for a miss, whose loading starts.                        *)
Reserve(e, s) ==
    /\ ~halted /\ main \in {"load", "reread"}
    /\ e \in todo /\ s \notin {held[x] : x \in Experts}
    /\ Begin(s, e)
    /\ todo' = todo \ {e} /\ held' = [held EXCEPT ![e] = s]
    /\ UNCHANGED <<gpuVars, backendVars, main, sel, out, spilt>>

(* Pass 3: the I/O threads.                                                *)
Load(s) == LoadStep(s) /\ UNCHANGED <<gpuVars, backendVars, moeVars>>

Loaded == todo = {} /\ \A s \in Slots : lpc[s] = "idle"
Unread == {e \in ToSet(sel) : held[e] = None}

(* What a slot computes with: its expert's own weights when every payload  *)
(* is its own.                                                             *)
Payload(s) ==
    IF \A f \in {"gu", "d"} : buf[s][f] # None /\ buf[s][f].has = eid[s]
    THEN eid[s] ELSE Noise
HostOf(e) ==
    IF held[e] = None THEN None
    ELSE [has |-> Payload(held[e]),
          biases |-> Cardinality({f \in Biases : buf[held[e]][f] # None})]

(* The device takes experts that are loaded, in both formats it knows and  *)
(* with one group size: those of a slab are, packed ones may be.           *)
GpuFormat(s, tensors) ==
    eid[s] # NoExpert /\ (slab[s] # "none" \/ Of(eid[s]).tensors \in tensors)
Brought == {held[e] : e \in ToSet(sel)} \ {None}
AsksDevice ==
    /\ gpuOn /\ \A s \in Brought : GpuFormat(s, {"gs64", "packed"})
    /\ CallMoe([i \in 1..Topk |-> [eid |-> sel[i], host |-> HostOf(sel[i])]])
    /\ main' = "gpu"
SkipsDevice ==
    /\ ~gpuOn \/ \E s \in Brought : ~GpuFormat(s, {"gs64"})
    /\ main' = "reread" /\ UNCHANGED gpuVars
AfterBatch ==
    /\ ~halted /\ main = "load" /\ Loaded
    /\ AsksDevice \/ SkipsDevice
    /\ UNCHANGED <<env, storeVars, halted, backendVars, sel, held, todo, out, spilt>>

Device ==
    /\ ~halted /\ main = "gpu" /\ GpuStep
    /\ UNCHANGED <<env, storeVars, halted, backendVars, moeVars>>

(* The device's sum is the layer's output, or the CPU computes it, on top  *)
(* of what a failed copy has left: the output was cleared only before the  *)
(* call.                                                                   *)
GpuReturnsBoth ==        \* a mutant of GpuReturns
    /\ ~halted /\ main = "gpu" /\ gpc \in {"done", "failed", "spilled"}
    /\ out' = acc /\ spilt' = (gpc = "spilled")
    /\ main' = IF gpc = "done" THEN "idle" ELSE "reread"
    /\ Returned
    /\ UNCHANGED <<env, storeVars, halted, backendVars, sel, held, todo>>
GpuReturns ==
    /\ ~halted /\ main = "gpu" /\ gpc \in {"done", "failed", "spilled"}
    /\ out' = IF gpc = "failed" THEN out ELSE acc
    /\ spilt' = (gpc = "spilled")
    /\ main' = IF gpc = "done" THEN "idle" ELSE "reread"
    /\ Returned
    /\ UNCHANGED <<env, storeVars, halted, backendVars, sel, held, todo>>

(* The experts left unread are read one at a time.                         *)
Reread(e) ==
    /\ ~halted /\ main = "reread" /\ Loaded
    /\ e \in Unread
    /\ held' = IF Cached(e) # {} THEN [held EXCEPT ![e] = Hits({e})[e]] ELSE held
    /\ todo' = IF Cached(e) # {} THEN {} ELSE {e}
    /\ UNCHANGED <<env, storeVars, halted, gpuVars, backendVars, main, sel, out, spilt>>

(* The CPU loop: an expert whose load failed is skipped.                   *)
Compute ==
    /\ ~halted /\ main = "reread" /\ Loaded /\ Unread = {}
    /\ out' = [e \in Experts |->
                 IF e \in ToSet(sel) /\ eid[held[e]] # NoExpert
                 THEN Append(out[e], Payload(held[e])) ELSE out[e]]
    /\ main' = "idle"
    /\ UNCHANGED <<env, storeVars, halted, gpuVars, backendVars, sel, held, todo, spilt>>

Startup == ~halted /\ StartupStep
           /\ UNCHANGED <<env, storeVars, gpuVars, moeVars>>
Attention(m) == ~halted /\ main = "idle" /\ Project(m)
                /\ UNCHANGED <<env, storeVars, gpuVars, moeVars>>

(* The process has exited.                                                 *)
Halted == halted /\ UNCHANGED vars

Next ==
    \/ Startup \/ \E m \in Matrices : Attention(m)
    \/ \E q \in Selections : Route(q)
    \/ \E e \in Experts, s \in Slots : Reserve(e, s)
    \/ \E s \in Slots : Load(s)
    \/ AfterBatch \/ Device \/ GpuReturns
    \/ \E e \in Experts : Reread(e)
    \/ Compute
    \/ Halted

Spec == Init /\ [][Next]_vars

-----------------------------------------------------------------------------
(* Properties *)

TypeOK ==
    /\ StoreTypeOK /\ GpuTypeOK /\ BackendTypeOK
    /\ main \in {"idle", "load", "gpu", "reread"}
    /\ sel = <<>> \/ sel \in Selections
    /\ held \in [Experts -> Slots \cup {None}]
    /\ todo \subseteq Experts
    /\ \A e \in Experts : out[e] \in Seq(Experts \cup {Noise})
    /\ spilt \in BOOLEAN

(* Of payloads read without comparing their length nothing is promised.    *)
Whole(e) == Trusted(e) /\ Of(e).tensors # "float"

(* picchio.c:2229-2231 ("falling back to the CPU loop below on any         *)
(* failure") and README.md: wherever its experts came from and whatever    *)
(* failed on the way, a finished layer has one term of each selected       *)
(* expert, computed with its own weights, or none if its load failed; and  *)
(* no other term.  When a copy from the device failed part-way, what it    *)
(* wrote is a second term: the code does not clear it, nor is more than    *)
(* that ever counted.                                                      *)
AnswerWhole ==
    main = "idle" /\ sel # <<>> =>
        \A e \in Experts :
            IF e \notin ToSet(sel) THEN out[e] = <<>>
            ELSE \/ /\ Len(out[e]) \in 1..(IF spilt THEN 2 ELSE 1)
                    /\ Whole(e) => \A i \in DOMAIN out[e] : out[e][i] = e
                 \/ out[e] = <<>> /\ held[e] # None /\ eid[held[e]] = NoExpert

=============================================================================
