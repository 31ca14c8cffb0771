--------------------------- MODULE OffloadProofs ---------------------------
(***************************************************************************)
(* Theorems about Offload, for all experts, slots, top-k, matrices, files  *)
(* and settings: it uses the store as ExpertStore says, a projection       *)
(* without a host copy is on the device, a layer's answer is whole, the    *)
(* video memory is counted right and stays within its budget, and a call   *)
(* does not evict its own experts.                                         *)
(***************************************************************************)
EXTENDS Offload, ExpertStoreProofs, SequenceTheorems, NaturalsInduction,
        WellFoundedInduction

-----------------------------------------------------------------------------
(* The store within the layer                                              *)

LEMMA OffloadUsesStore ==
    [Next]_vars => [StoreNext]_<<env, storeVars, halted>>
<1> SUFFICES ASSUME [Next]_vars PROVE [StoreNext]_<<env, storeVars, halted>>
    OBVIOUS
<1>1. CASE Startup
    BY <1>1 DEF Startup, StartupStep, StartupChecked, StoreNext
<1>2. ASSUME NEW m \in Matrices, Attention(m)
      PROVE  [StoreNext]_<<env, storeVars, halted>>
    BY <1>2 DEF Attention, Project, StoreNext
<1>3. ASSUME NEW sq \in Selections, Route(sq)
      PROVE  [StoreNext]_<<env, storeVars, halted>>
    BY <1>3 DEF Route
<1>4. ASSUME NEW e \in Experts, NEW s \in Slots, Reserve(e, s)
      PROVE  [StoreNext]_<<env, storeVars, halted>>
    BY <1>4 DEF Reserve, StoreNext
<1>5. ASSUME NEW s \in Slots, Load(s)
      PROVE  [StoreNext]_<<env, storeVars, halted>>
    BY <1>5 DEF Load, StoreNext
<1>6. CASE AfterBatch \/ Device \/ GpuReturns \/ Compute
    BY <1>6 DEF AfterBatch, AsksDevice, SkipsDevice, Device, GpuReturns, Compute
<1>7. ASSUME NEW e \in Experts, Reread(e)
      PROVE  [StoreNext]_<<env, storeVars, halted>>
    BY <1>7 DEF Reread
<1>8. CASE Halted \/ UNCHANGED vars
    BY <1>8 DEF Halted, vars
<1>9. QED
    BY <1>1, <1>2, <1>3, <1>4, <1>5, <1>6, <1>7, <1>8 DEF Next

(* A layer drives the store in a way the store allows.                     *)
THEOREM OffloadIsStoreUse == Spec => StoreSpec
<1>1. Init => StoreInit
    BY DEF Init
<1>2. QED
    BY <1>1, OffloadUsesStore, PTL DEF Spec, StoreSpec

(* What a computed slot holds is whole, with video memory and fallbacks.   *)
THEOREM OffloadWhole == Spec => []WholeParts
<1>1. QED
    BY OffloadIsStoreUse, StoreWhole, PTL

(* Nor does it lose a block, or use one that was freed.                    *)
THEOREM OffloadLosesNothing == Spec => []NoBlockLost
<1>1. QED
    BY OffloadIsStoreUse, StoreLosesNothing, PTL

(* Its I/O threads open a file once each at most.                          *)
THEOREM OffloadOpensFew == Spec => []DescriptorsBounded
<1>1. QED
    BY OffloadIsStoreUse, StoreOpensFew, PTL

-----------------------------------------------------------------------------
(* The host copies of the projections                                      *)

(* Nothing is released before the check; uploads were asked for, and when  *)
(* they have ended they are complete or gone.                              *)
ReleaseInv ==
    /\ released # {} => boot \in {"check", "up"}
    /\ onDevice # {} => Wants("dense")
    /\ boot = "enable" => onDevice = {} \/ env.f32 \subseteq onDevice
    /\ ReleasedIsResident

LEMMA ReleaseKept == ReleaseInv /\ [Next]_vars => ReleaseInv'
<1> SUFFICES ASSUME ReleaseInv, [Next]_vars PROVE ReleaseInv'
    OBVIOUS
<1> USE DEF ReleaseInv, ReleasedIsResident, Wants
<1>1. ASSUME UNCHANGED <<env, backendVars>>, halted => halted' PROVE ReleaseInv'
    BY <1>1 DEF backendVars
<1>2. CASE Startup
    <2>1. UNCHANGED env /\ StartupStep /\ ~halted
        BY <1>2 DEF Startup
    <2>2. CASE ChooseBackend /\ UNCHANGED halted
        BY <2>1, <2>2 DEF ChooseBackend
    <2>3. CASE UploadRouters /\ UNCHANGED halted
        BY <2>1, <2>3 DEF UploadRouters
    <2>4. CASE DenseUploaded /\ UNCHANGED halted
        BY <2>1, <2>4 DEF DenseUploaded, ToUpload
    <2>5. CASE EnableNative /\ UNCHANGED halted
        BY <2>1, <2>5 DEF EnableNative
    <2>6. CASE LoadLibrary /\ UNCHANGED halted
        BY <2>1, <2>6 DEF LoadLibrary
    <2>7. ASSUME NEW m \in Matrices, UploadDense(m), UNCHANGED halted
          PROVE  ReleaseInv'
        BY <2>1, <2>7 DEF UploadDense, ToUpload
    <2>8. CASE StartupChecked
        BY <2>1, <2>8 DEF StartupChecked
    <2>9. QED
        BY <2>1, <2>2, <2>3, <2>4, <2>5, <2>6, <2>7, <2>8 DEF StartupStep
<1>3. ASSUME NEW m \in Matrices, Attention(m) PROVE ReleaseInv'
    BY <1>3 DEF Attention, Project
<1>4. ASSUME NEW sq \in Selections, Route(sq) PROVE ReleaseInv'
    BY <1>1, <1>4 DEF Route
<1>5. ASSUME NEW e \in Experts, NEW s \in Slots, Reserve(e, s) PROVE ReleaseInv'
    BY <1>1, <1>5 DEF Reserve, Begin
<1>6. ASSUME NEW s \in Slots, Load(s) PROVE ReleaseInv'
    <2>1. UNCHANGED <<env, backendVars>>
        BY <1>6 DEF Load, LoadStep, MissesDescriptor, StoresDescriptor, NotReusable,
           Flat, Reusable, GateUp, GateUpScales, GateUpBias, Down, DownScales,
           DownBias, storeRest
    <2>2. halted => halted'
        BY <1>6 DEF Load, LoadStep, MissesDescriptor, StoresDescriptor, NotReusable,
           Flat, Reusable, GateUp, GateUpScales, GateUpBias, Down, DownScales,
           DownBias, At
    <2>3. QED
        BY <1>1, <2>1, <2>2
<1>7. CASE AfterBatch \/ Device \/ GpuReturns \/ Compute \/ Halted \/ UNCHANGED vars
    <2>1. UNCHANGED <<env, backendVars>> /\ (halted => halted')
        BY <1>7 DEF AfterBatch, AsksDevice, SkipsDevice, Device, GpuReturns, Compute,
                   Halted, vars
    <2>2. QED
        BY <1>1, <2>1
<1>8. ASSUME NEW e \in Experts, Reread(e) PROVE ReleaseInv'
    BY <1>1, <1>8 DEF Reread
<1>9. QED
    BY <1>2, <1>3, <1>4, <1>5, <1>6, <1>7, <1>8 DEF Next

(* While the process runs, a projection whose host copy was released is on *)
(* the device and served by it.                                            *)
THEOREM OffloadReleases == Spec => []ReleasedIsResident
<1>1. Init => ReleaseInv
    BY DEF Init, BackendInit, ReleaseInv, ReleasedIsResident
<1>2. ReleaseInv => ReleasedIsResident
    BY DEF ReleaseInv
<1>3. QED
    BY <1>1, <1>2, ReleaseKept, PTL DEF Spec

-----------------------------------------------------------------------------
(* The answer of a layer                                                   *)

(* Weights that a term of e may be computed with.                          *)
Right(e, has) == Whole(e) => has = e
Selected == ToSet(sel)

(* The types that matter below.  While nobody loads, every slot is at rest.*)
Shapes ==
    /\ main \in {"idle", "load", "gpu", "reread"}
    /\ sel \in Selections \/ (sel = <<>> /\ main = "idle")
    /\ held \in [Experts -> Slots \cup {None}]
    /\ todo \subseteq Experts
    /\ main \in {"idle", "gpu"} => \A s \in Slots : lpc[s] = "idle"

(* A slot kept for an expert holds it, or nothing after a failed load.     *)
HeldOwn ==
    \A e \in Experts : held[e] # None => eid[held[e]] \in {e, NoExpert}

(* Copies in video memory are the experts they are filed under.            *)
VramOwn == \A e \in Experts : vram[e] # None => Right(e, vram[e].has)

(* A running call has the layer's experts, with their own host weights,    *)
(* and has accumulated the first gk of them.                               *)
Counted(n) == {sel[i] : i \in 1..n}
OneTerm(e, terms) == terms = <<terms[1]>> /\ Right(e, terms[1])
CallOwn ==
    main = "gpu" =>
        /\ Len(ge) = Topk /\ gk \in 0..Topk
        /\ \A i \in 1..Topk :
              /\ ge[i].eid = sel[i]
              /\ ge[i].host # None => Right(sel[i], ge[i].host.has)
        /\ acc = [e \in Experts |-> acc[e]]
        /\ \A e \in Experts :
              IF e \in Counted(gk) THEN OneTerm(e, acc[e]) ELSE acc[e] = <<>>
        /\ gpc \in {"done", "spilled"} => gk = Topk

(* Nothing reaches the output before the layer is finished, except from a  *)
(* failed copy: a term of a selected expert, before the CPU computes.      *)
OutputLast ==
    /\ spilt \in BOOLEAN
    /\ main \in {"load", "gpu"} => out = NoTerm /\ ~spilt
    /\ main = "reread" =>
          \A e \in Experts :
             out[e] = <<>> \/ (spilt /\ e \in ToSet(sel) /\ OneTerm(e, out[e]))

AnswerInv == Shapes /\ HeldOwn /\ VramOwn /\ CallOwn /\ OutputLast /\ AnswerWhole

LEMMA OffloadKeepsStore == StoreInv /\ [Next]_vars => StoreInv'
BY OffloadUsesStore, StoreKeeps

(* What a slot at rest is computed with.                                   *)
LEMMA PayloadOwn ==
    ASSUME StoreInv, NEW s \in Slots, lpc[s] = "idle", eid[s] # NoExpert
    PROVE  Right(eid[s], Payload(s))
<1> SUFFICES ASSUME Whole(eid[s]) PROVE Payload(s) = eid[s]
    BY DEF Right
<1>1. WholeParts
    BY InvGivesWholeParts
<1>2. {"gu", "d"} \subseteq Compared(s)
    BY DEF Compared, Whole, Weights
<1>3. QED
    BY <1>1, <1>2 DEF WholeParts, Whole, Payload

(* A load gives its slot's expert, or none, and touches no other slot.     *)
LEMMA LoadIds ==
    ASSUME StoreInv, NEW s \in Slots, LoadStep(s)
    PROVE  /\ UNCHANGED env
           /\ lpc[s] = "idle" => UNCHANGED <<eid, lpc>>
           /\ eid'[s] \in {eid[s], NoExpert}
           /\ \A t \in Slots \ {s} : eid'[t] = eid[t] /\ lpc'[t] = lpc[t]
<1>1. UNCHANGED env
    BY DEF LoadStep, MissesDescriptor, StoresDescriptor, NotReusable, Flat, Reusable,
       GateUp, GateUpScales, GateUpBias, Down, DownScales, DownBias, storeRest
<1>2. eid' = eid \/ eid' = [eid EXCEPT ![s] = NoExpert]
    BY DEF LoadStep, MissesDescriptor, StoresDescriptor, NotReusable, Flat, Reusable,
       GateUp, GateUpScales, GateUpBias, Down, DownScales, DownBias, Continues, GivesUp
<1>3. lpc' = lpc \/ \E p \in Stages \cup {"idle"} : lpc' = [lpc EXCEPT ![s] = p]
    BY DEF LoadStep, MissesDescriptor, StoresDescriptor, NotReusable, Flat, Reusable,
       GateUp, GateUpScales, GateUpBias, Down, DownScales, DownBias, Continues,
       GivesUp, Stages
<1>4. lpc[s] = "idle" => UNCHANGED <<eid, lpc>>
    BY DEF LoadStep, MissesDescriptor, StoresDescriptor, NotReusable, Flat, Reusable,
       GateUp, GateUpScales, GateUpBias, Down, DownScales, DownBias, At
<1>5. QED
    BY <1>1, <1>2, <1>3, <1>4 DEF StoreInv, StoreTypeOK

LEMMA SelectionShape ==
    ASSUME NEW q \in Selections
    PROVE  /\ Len(q) = Topk /\ ToSet(q) = {q[i] : i \in 1..Topk}
           /\ ToSet(q) \subseteq Experts /\ q # <<>>
           /\ \A i, j \in 1..Topk : q[i] = q[j] => i = j
<1>1. /\ q \in [1..Topk -> Experts] /\ DOMAIN q = 1..Topk
      /\ \A i, j \in 1..Topk : i # j => q[i] # q[j]
    BY DEF Selections
<1>2. Topk \in Nat \ {0}
    BY PoolAssumption
<1>3. q \in Seq(Experts) /\ Len(q) = Topk
    BY <1>1, <1>2
<1>4. ToSet(q) = {q[i] : i \in 1..Topk}
    BY <1>1 DEF ToSet
<1>5. QED
    BY <1>1, <1>2, <1>3, <1>4

LEMMA AnswerStarts == Init => AnswerInv
<1> SUFFICES ASSUME Init PROVE AnswerInv
    OBVIOUS
<1>1. /\ main = "idle" /\ sel = <<>> /\ held = [e \in Experts |-> None] /\ todo = {}
      /\ lpc = [s \in Slots |-> "idle"] /\ vram = [e \in Experts |-> None]
      /\ spilt = FALSE
    BY DEF Init, StoreInit, GpuInit
<1>2. QED
    BY <1>1 DEF AnswerInv, Shapes, HeldOwn, VramOwn, CallOwn, OutputLast, AnswerWhole

(* Steps that leave the layer, the pool and the device's copies alone.     *)
LEMMA AnswerStays ==
    ASSUME AnswerInv, UNCHANGED <<env, eid, lpc, gpuVars, moeVars>>
    PROVE  AnswerInv'
BY DEF AnswerInv, Shapes, HeldOwn, VramOwn, CallOwn, OutputLast, AnswerWhole, Right,
       Whole, Trusted, Of, Counted, OneTerm, gpuVars, moeVars

LEMMA HitsOwn ==
    ASSUME NEW S \in SUBSET Experts, NEW e \in Experts, Hits(S)[e] # None
    PROVE  Hits(S)[e] \in Slots /\ eid[Hits(S)[e]] = e /\ e \in S
BY DEF Hits, Cached

LEMMA HitsTypes ==
    ASSUME NEW S \in SUBSET Experts
    PROVE  Hits(S) \in [Experts -> Slots \cup {None}]
BY DEF Hits, Cached

LEMMA RouteAnswer ==
    ASSUME AnswerInv, NEW q \in Selections, Route(q)
    PROVE  AnswerInv'
<1> DEFINE need == IF gpuOn THEN {e \in ToSet(q) : vram[e] = None} ELSE ToSet(q)
<1>1. /\ sel' = q /\ held' = Hits(need) /\ main' = "load" /\ out' = NoTerm /\ spilt' = FALSE
      /\ todo' = {e \in need : Cached(e) = {}}
      /\ UNCHANGED <<env, eid, lpc, vram>>
    BY DEF Route, storeVars, gpuVars
<1>2. need \subseteq Experts
    BY SelectionShape
<1> HIDE DEF need
<1>3. Shapes'
    BY <1>1, <1>2, HitsTypes DEF Shapes
<1>4. HeldOwn'
    BY <1>1, <1>2, HitsOwn DEF HeldOwn
<1>5. VramOwn'
    BY <1>1 DEF AnswerInv, VramOwn, Right, Whole, Trusted, Of
<1>6. QED
    BY <1>1, <1>3, <1>4, <1>5 DEF AnswerInv, CallOwn, OutputLast, AnswerWhole

LEMMA ReserveAnswer ==
    ASSUME AnswerInv, StoreInv, NEW e \in Experts, NEW s \in Slots, Reserve(e, s)
    PROVE  AnswerInv'
<1>1. /\ main \in {"load", "reread"} /\ s \notin {held[x] : x \in Experts}
      /\ held' = [held EXCEPT ![e] = s] /\ todo' = todo \ {e}
      /\ eid' = [eid EXCEPT ![s] = e] /\ UNCHANGED <<env, main, sel, out, spilt, vram>>
    BY DEF Reserve, Begin, gpuVars
<1>2. Shapes'
    BY <1>1 DEF AnswerInv, Shapes
<1>3. HeldOwn'
    BY <1>1 DEF AnswerInv, HeldOwn, Shapes, StoreInv, StoreTypeOK
<1>4. VramOwn'
    BY <1>1 DEF AnswerInv, VramOwn, Right, Whole, Trusted, Of
<1>5. OutputLast'
    BY <1>1 DEF AnswerInv, OutputLast, OneTerm, Right, Whole, Trusted, Of, NoTerm
<1>6. QED
    BY <1>1, <1>2, <1>3, <1>4, <1>5 DEF AnswerInv, CallOwn, AnswerWhole

LEMMA LoadAnswer ==
    ASSUME AnswerInv, StoreInv, NEW s \in Slots, Load(s)
    PROVE  AnswerInv'
<1>1. /\ UNCHANGED <<env, gpuVars, moeVars>> /\ eid'[s] \in {eid[s], NoExpert}
      /\ lpc[s] = "idle" => UNCHANGED <<eid, lpc>>
      /\ \A t \in Slots \ {s} : eid'[t] = eid[t] /\ lpc'[t] = lpc[t]
    BY LoadIds DEF Load
<1>2. CASE lpc[s] = "idle"
    BY <1>1, <1>2, AnswerStays
<1>3. CASE lpc[s] # "idle"
    <2>1. main \in {"load", "reread"}
        BY <1>3 DEF AnswerInv, Shapes
    <2>2. Shapes'
        BY <1>1, <2>1 DEF AnswerInv, Shapes, moeVars
    <2>3. HeldOwn'
        BY <1>1 DEF AnswerInv, HeldOwn, Shapes, moeVars
    <2>4. VramOwn'
        BY <1>1 DEF AnswerInv, VramOwn, Right, Whole, Trusted, Of, gpuVars
    <2>5. OutputLast'
        BY <1>1 DEF AnswerInv, OutputLast, OneTerm, Right, Whole, Trusted, Of, NoTerm,
                    moeVars
    <2>6. QED
        BY <1>1, <2>1, <2>2, <2>3, <2>4, <2>5
           DEF AnswerInv, CallOwn, AnswerWhole, moeVars
<1>4. QED
    BY <1>2, <1>3

LEMMA RereadAnswer ==
    ASSUME AnswerInv, NEW e \in Experts, Reread(e)
    PROVE  AnswerInv'
<1>1. /\ main = "reread" /\ UNCHANGED <<env, eid, lpc, vram, main, sel, out, spilt>>
      /\ todo' \in {{}, {e}}
      /\ held' = held \/ held' = [held EXCEPT ![e] = Hits({e})[e]]
    BY DEF Reread, storeVars, gpuVars
<1>2. Hits({e})[e] \in Slots \cup {None}
    BY HitsTypes
<1>3. Shapes'
    BY <1>1, <1>2 DEF AnswerInv, Shapes
<1>4. HeldOwn'
    BY <1>1, HitsOwn DEF AnswerInv, HeldOwn, Shapes
<1>5. VramOwn'
    BY <1>1 DEF AnswerInv, VramOwn, Right, Whole, Trusted, Of
<1>6. OutputLast'
    BY <1>1 DEF AnswerInv, OutputLast, OneTerm, Right, Whole, Trusted, Of, NoTerm
<1>7. QED
    BY <1>1, <1>3, <1>4, <1>5, <1>6 DEF AnswerInv, CallOwn, AnswerWhole

LEMMA AfterBatchAnswer ==
    ASSUME AnswerInv, StoreInv, AfterBatch
    PROVE  AnswerInv'
<1> DEFINE calls == [i \in 1..Topk |-> [eid |-> sel[i], host |-> HostOf(sel[i])]]
<1>1. /\ main = "load" /\ Loaded
      /\ UNCHANGED <<env, eid, lpc, vram, sel, held, todo, out, spilt>>
    BY DEF AfterBatch, AsksDevice, SkipsDevice, CallMoe, storeVars, gpuVars
<1>2. sel \in Selections /\ Topk \in Nat
    BY <1>1, PoolAssumption DEF AnswerInv, Shapes
<1>3. main' \in {"gpu", "reread"}
    BY DEF AfterBatch, AsksDevice, SkipsDevice
<1>4. Shapes'
    BY <1>1, <1>2, <1>3 DEF AnswerInv, Shapes, Loaded
<1>5. HeldOwn' /\ VramOwn'
    BY <1>1 DEF AnswerInv, HeldOwn, VramOwn, Right, Whole, Trusted, Of
<1>6. OutputLast'
    BY <1>1 DEF AnswerInv, OutputLast, NoTerm
<1>7. CallOwn'
    <2> SUFFICES ASSUME main' = "gpu" PROVE CallOwn'
        BY DEF CallOwn
    <2>1. /\ CallMoe(calls)
          /\ \A s \in Brought : eid[s] # NoExpert
        BY DEF AfterBatch, AsksDevice, SkipsDevice, GpuFormat
    <2>2. /\ ge' = calls /\ gk' = 0 /\ acc' = NoTerm /\ gpc' \in {"loop", "failed"}
        BY <2>1 DEF CallMoe
    <2>3. DOMAIN calls = 1..Topk /\ Len(calls) = Topk
        <3>1. calls \in Seq({calls[i] : i \in 1..Topk})
            BY <1>2
        <3>2. QED
            BY <1>2, <3>1
    <2>4. ASSUME NEW i \in 1..Topk, HostOf(sel[i]) # None
          PROVE  Right(sel[i], HostOf(sel[i]).has)
        <3>1. sel[i] \in Experts /\ sel[i] \in ToSet(sel)
            BY <1>2, SelectionShape
        <3>2. held[sel[i]] # None /\ HostOf(sel[i]).has = Payload(held[sel[i]])
            BY <2>4 DEF HostOf
        <3>3. held[sel[i]] \in Slots
            BY <3>1, <3>2 DEF AnswerInv, Shapes
        <3>4. eid[held[sel[i]]] # NoExpert /\ lpc[held[sel[i]]] = "idle"
            BY <1>1, <2>1, <3>1, <3>2, <3>3 DEF Brought, Loaded
        <3>5. eid[held[sel[i]]] = sel[i]
            BY <3>1, <3>2, <3>4 DEF AnswerInv, HeldOwn
        <3>6. QED
            BY <3>2, <3>3, <3>4, <3>5, PayloadOwn
    <2>5. \A i \in 1..Topk : /\ ge'[i].eid = sel'[i]
                             /\ ge'[i].host # None => Right(sel[i], ge[i].host.has)'
        BY <1>1, <2>2, <2>4 DEF Right, Whole, Trusted, Of
    <2>6. acc' = [e \in Experts |-> acc'[e]]
          /\ \A e \in Experts : acc'[e] = <<>>
        BY <2>2 DEF NoTerm
    <2>7. Counted(gk)' = {}
        BY <2>2 DEF Counted
    <2>8. QED
        BY <1>2, <2>2, <2>3, <2>5, <2>6, <2>7, SMTT(30) DEF CallOwn
<1>8. QED
    BY <1>3, <1>4, <1>5, <1>6, <1>7 DEF AnswerInv, AnswerWhole

(* One more expert accumulated, with weights of its own.                   *)
LEMMA AccumulatesOwn ==
    ASSUME AnswerInv, main = "gpu", gk < Len(ge), NEW has,
           Right(Now.eid, has), Accumulates(has),
           UNCHANGED <<env, eid, lpc, moeVars, ge, gpc>>, gpc = "loop"
    PROVE  CallOwn'
<1>1. /\ sel \in Selections /\ Topk \in Nat /\ gk \in 0..Topk /\ Len(ge) = Topk
      /\ acc = [e \in Experts |-> acc[e]]
      /\ \A i \in 1..Topk : ge[i].eid = sel[i]
    BY PoolAssumption DEF AnswerInv, Shapes, CallOwn
<1>2. gk + 1 \in 1..Topk /\ Now.eid = sel[gk + 1] /\ sel[gk + 1] \in Experts
    <2>1. gk + 1 \in 1..Topk
        BY <1>1
    <2>2. QED
        BY <1>1, <2>1, SelectionShape DEF Now, Selections
<1>3. /\ gk' = gk + 1
      /\ acc' = [acc EXCEPT ![sel[gk + 1]] = Append(@, has)]
    BY <1>2 DEF Accumulates
<1>4. sel[gk + 1] \notin Counted(gk)
    BY <1>1, <1>2, SelectionShape DEF Counted
<1>5. Counted(gk)' = Counted(gk) \cup {sel[gk + 1]}
    <2>1. 1..(gk + 1) = (1..gk) \cup {gk + 1}
        BY <1>1
    <2>2. Counted(gk)' = {sel[i] : i \in 1..(gk + 1)}
        BY <1>3 DEF Counted, moeVars
    <2>3. QED
        BY <2>1, <2>2 DEF Counted
<1>6. acc[sel[gk + 1]] = <<>>
    BY <1>2, <1>4 DEF AnswerInv, CallOwn
<1>7. acc' = [e \in Experts |-> acc'[e]]
    BY <1>1, <1>3
<1>8. ASSUME NEW e \in Experts
      PROVE  IF e \in Counted(gk)' THEN OneTerm(e, acc[e])' ELSE acc'[e] = <<>>
    <2>1. CASE e = sel[gk + 1]
        <3>1. acc'[e] = Append(<<>>, has)
            BY <1>1, <1>2, <1>3, <1>6, <2>1
        <3>2. acc'[e] = <<has>>
            BY <3>1
        <3>3. Right(e, has)'
            BY <1>2, <2>1 DEF Right, Whole, Trusted, Of
        <3>4. QED
            BY <1>5, <2>1, <3>2, <3>3 DEF OneTerm, Right
    <2>2. CASE e # sel[gk + 1]
        <3>1. acc'[e] = acc[e] /\ (e \in Counted(gk)' <=> e \in Counted(gk))
            BY <1>1, <1>2, <1>3, <1>5, <2>2
        <3>2. IF e \in Counted(gk) THEN OneTerm(e, acc[e]) ELSE acc[e] = <<>>
            BY DEF AnswerInv, CallOwn
        <3>3. QED
            BY <3>1, <3>2 DEF OneTerm, Right, Whole, Trusted, Of
    <2>3. QED
        BY <2>1, <2>2
<1>9. gk' \in 0..Topk /\ gpc' = "loop" /\ Len(ge') = Topk
    BY <1>1, <1>2, <1>3
<1>10. \A i \in 1..Topk : /\ ge'[i].eid = sel'[i]
                          /\ ge'[i].host # None => Right(sel[i], ge[i].host.has)'
    BY DEF AnswerInv, CallOwn, moeVars, Right, Whole, Trusted, Of
<1>11. QED
    BY <1>7, <1>8, <1>9, <1>10 DEF CallOwn

LEMMA DeviceAnswer ==
    ASSUME AnswerInv, Device
    PROVE  AnswerInv'
<1>1. /\ main = "gpu" /\ GpuStep /\ UNCHANGED <<env, eid, lpc, moeVars, halted>>
    BY DEF Device, storeVars
<1>2. /\ sel \in Selections /\ Topk \in Nat /\ gk \in 0..Topk /\ Len(ge) = Topk
      /\ \A i \in 1..Topk :
            /\ ge[i].eid = sel[i]
            /\ ge[i].host # None => Right(sel[i], ge[i].host.has)
    BY <1>1, PoolAssumption DEF AnswerInv, Shapes, CallOwn
<1>3. /\ Shapes' /\ HeldOwn' /\ OutputLast'
    BY <1>1 DEF AnswerInv, Shapes, HeldOwn, OutputLast, moeVars
<1>4. AnswerWhole'
    BY <1>1 DEF AnswerWhole, moeVars
<1>5. VramOwn /\ CallOwn
    BY DEF AnswerInv
<1>6. gk < Len(ge) => /\ gk + 1 \in 1..Topk /\ Now = ge[gk + 1]
                      /\ Now.eid = sel[gk + 1] /\ Now.eid \in Experts
    <2>1. gk < Len(ge) => gk + 1 \in 1..Topk
        BY <1>2
    <2>2. QED
        BY <1>2, <2>1, SelectionShape DEF Now, Selections
<1>7. CASE Hit
    <2>1. /\ gk < Len(ge) /\ gpc = "loop" /\ vram[Now.eid] # None
          /\ Accumulates(vram[Now.eid].has) /\ UNCHANGED <<vram, ge, gpc>>
        BY <1>7 DEF Hit
    <2>2. Right(Now.eid, vram[Now.eid].has)
        BY <1>5, <1>6, <2>1 DEF VramOwn
    <2>3. CallOwn'
        BY <1>1, <2>1, <2>2, AccumulatesOwn
    <2>4. VramOwn'
        BY <1>1, <1>5, <2>1 DEF VramOwn, Right, Whole, Trusted, Of
    <2>5. QED
        BY <1>3, <1>4, <2>3, <2>4 DEF AnswerInv
<1>8. CASE Absent \/ CopyOut
    <2>1. UNCHANGED <<vram, ge, gk, acc>> /\ (gpc' = "failed" \/ gk = Len(ge))
        BY <1>8 DEF Absent, CopyOut
    <2>2. CallOwn'
        BY <1>1, <1>2, <1>5, <2>1
           DEF CallOwn, Counted, OneTerm, moeVars, Right, Whole, Trusted, Of
    <2>3. VramOwn'
        BY <1>1, <1>5, <2>1 DEF VramOwn, Right, Whole, Trusted, Of
    <2>4. QED
        BY <1>3, <1>4, <2>2, <2>3 DEF AnswerInv
<1>9. CASE Upload
    <2>1. PICK kept :
            /\ kept = [e \in Experts |-> kept[e]]
            /\ \A e \in Experts : kept[e] \in {None, vram[e]}
            /\ \/ /\ \E b : vram' = [kept EXCEPT ![Now.eid] =
                                      [has |-> Now.host.has, bytes |-> b]]
                  /\ Accumulates(Now.host.has) /\ gpc' = gpc
               \/ /\ vram' = kept /\ gpc' = "failed" /\ UNCHANGED <<gk, acc>>
        BY <1>9 DEF Upload
    <2>2. gk < Len(ge) /\ gpc = "loop" /\ Now.host # None /\ ge' = ge
        BY <1>9 DEF Upload
    <2>3. Right(Now.eid, Now.host.has)
        BY <1>2, <1>6, <2>2
    <2>4. VramOwn'
        <3>1. \A e \in Experts : kept[e] # None => Right(e, kept[e].has)
            BY <1>5, <2>1 DEF VramOwn
        <3>2. \A e \in Experts : vram'[e] # None => Right(e, vram'[e].has)
            <4>1. CASE vram' = kept
                BY <3>1, <4>1
            <4>2. ASSUME NEW b, vram' = [kept EXCEPT ![Now.eid] =
                                           [has |-> Now.host.has, bytes |-> b]]
                  PROVE  \A e \in Experts : vram'[e] # None => Right(e, vram'[e].has)
                <5>1. TAKE e \in Experts
                <5>2. CASE e = Now.eid
                    <6>1. vram'[e] = [has |-> Now.host.has, bytes |-> b]
                        BY <2>1, <4>2, <5>2
                    <6>2. QED
                        BY <2>3, <5>2, <6>1
                <5>3. CASE e # Now.eid
                    <6>1. vram'[e] = kept[e]
                        BY <2>1, <4>2, <5>3
                    <6>2. QED
                        BY <3>1, <6>1
                <5>4. QED
                    BY <5>2, <5>3
            <4>3. QED
                BY <2>1, <4>1, <4>2
        <3>3. QED
            BY <1>1, <3>2 DEF VramOwn, Right, Whole, Trusted, Of
    <2>5. CallOwn'
        <3>1. CASE Accumulates(Now.host.has) /\ gpc' = gpc
            BY <1>1, <2>2, <2>3, <3>1, AccumulatesOwn
        <3>2. CASE gpc' = "failed" /\ UNCHANGED <<gk, acc>>
            BY <1>1, <1>5, <2>2, <3>2
               DEF CallOwn, Counted, OneTerm, moeVars, Right, Whole, Trusted, Of
        <3>3. QED
            BY <2>1, <3>1, <3>2
    <2>6. QED
        BY <1>3, <1>4, <2>4, <2>5 DEF AnswerInv
<1>10. QED
    BY <1>1, <1>7, <1>8, <1>9 DEF GpuStep

(* A call that has ended has added up one term of each selected expert.    *)
LEMMA SumWhole ==
    ASSUME AnswerInv, main = "gpu", gpc \in {"done", "spilled"}, NEW e \in Experts
    PROVE  IF e \in ToSet(sel) THEN OneTerm(e, acc[e]) ELSE acc[e] = <<>>
<1>1. gk = Topk /\ sel \in Selections
    BY DEF AnswerInv, CallOwn, Shapes
<1>2. Counted(gk) = ToSet(sel)
    BY <1>1, SelectionShape DEF Counted
<1>3. QED
    BY <1>2 DEF AnswerInv, CallOwn

LEMMA GpuReturnsAnswer ==
    ASSUME AnswerInv, GpuReturns
    PROVE  AnswerInv'
<1>1. /\ main = "gpu" /\ UNCHANGED <<env, eid, lpc, vram, sel, held, todo>>
      /\ \/ gpc = "done" /\ out' = acc /\ main' = "idle" /\ ~spilt'
         \/ gpc = "failed" /\ out' = out /\ main' = "reread" /\ ~spilt'
         \/ gpc = "spilled" /\ out' = acc /\ main' = "reread" /\ spilt'
      /\ spilt' \in BOOLEAN
    BY DEF GpuReturns, Returned, storeVars
<1>2. Shapes' /\ HeldOwn' /\ VramOwn' /\ CallOwn'
    BY <1>1 DEF AnswerInv, Shapes, HeldOwn, VramOwn, CallOwn, Right, Whole, Trusted, Of
<1>3. OutputLast'
    <2>1. CASE gpc = "failed"
        BY <1>1, <2>1 DEF AnswerInv, OutputLast, NoTerm
    <2>2. CASE gpc = "spilled"
        <3>1. \A e \in Experts :
                 IF e \in ToSet(sel) THEN OneTerm(e, acc[e]) ELSE acc[e] = <<>>
            BY <1>1, <2>2, SumWhole
        <3>2. QED
            BY <1>1, <2>2, <3>1 DEF OutputLast, OneTerm, Right, Whole, Trusted, Of
    <2>3. CASE gpc = "done"
        BY <1>1, <2>3 DEF OutputLast
    <2>4. QED
        BY <1>1, <2>1, <2>2, <2>3
<1>4. AnswerWhole'
    <2> SUFFICES ASSUME main' = "idle" PROVE AnswerWhole'
        BY DEF AnswerWhole
    <2>1. gpc = "done" /\ out' = acc /\ ~spilt'
        BY <1>1
    <2>2. \A e \in Experts :
             IF e \in ToSet(sel) THEN OneTerm(e, out'[e]) ELSE out'[e] = <<>>
        BY <1>1, <2>1, SumWhole
    <2>3. \A e \in Experts : e \in ToSet(sel) =>
             Len(out'[e]) = 1 /\ (Whole(e) => \A i \in DOMAIN out'[e] : out'[e][i] = e)
        <3>1. TAKE e \in Experts
        <3>2. HAVE e \in ToSet(sel)
        <3>3. PICK h : out'[e] = <<h>> /\ Right(e, h)
            BY <2>2, <3>2 DEF OneTerm
        <3>4. Len(out'[e]) = 1 /\ DOMAIN out'[e] = {1} /\ out'[e][1] = h
            BY <3>3
        <3>5. QED
            BY <3>3, <3>4 DEF Right
    <2>4. \A e \in Experts : e \in ToSet(sel) => Len(out'[e]) \in 1..1
        BY <2>3
    <2>5. QED
        BY <1>1, <2>1, <2>2, <2>3, <2>4 DEF AnswerWhole, Whole, Trusted, Of
<1>5. QED
    BY <1>2, <1>3, <1>4 DEF AnswerInv

(* A selected expert gets a term of its own weights, after the one a       *)
(* failed copy may have left, or none if its load failed.                  *)
LEMMA ComputeAnswer ==
    ASSUME AnswerInv, StoreInv, Compute
    PROVE  AnswerInv'
<1>1. /\ main = "reread" /\ Loaded /\ Unread = {} /\ main' = "idle"
      /\ out' = [e \in Experts |->
                   IF e \in ToSet(sel) /\ eid[held[e]] # NoExpert
                   THEN Append(out[e], Payload(held[e])) ELSE out[e]]
      /\ UNCHANGED <<env, eid, lpc, vram, sel, held, todo, spilt>>
    BY DEF Compute, storeVars, gpuVars
<1>2. Shapes' /\ HeldOwn' /\ VramOwn' /\ OutputLast' /\ CallOwn'
    BY <1>1 DEF AnswerInv, Shapes, HeldOwn, VramOwn, OutputLast, CallOwn, Loaded,
                Right, Whole, Trusted, Of
<1>3. \A e \in Experts :
         out[e] = <<>> \/ (spilt /\ e \in ToSet(sel) /\ OneTerm(e, out[e]))
    BY <1>1 DEF AnswerInv, OutputLast
<1>4. ASSUME NEW e \in Experts, e \in ToSet(sel)
      PROVE  \/ /\ Len(out'[e]) \in 1..(IF spilt THEN 2 ELSE 1)
                /\ Whole(e) => \A i \in DOMAIN out'[e] : out'[e][i] = e
             \/ out'[e] = <<>> /\ held[e] # None /\ eid[held[e]] = NoExpert
    <2>1. held[e] # None /\ held[e] \in Slots /\ eid[held[e]] \in {e, NoExpert}
        BY <1>1, <1>4 DEF Unread, AnswerInv, Shapes, HeldOwn
    <2>2. CASE eid[held[e]] = NoExpert
        <3>1. out'[e] = out[e]
            BY <1>1, <2>2
        <3>2. CASE out[e] = <<>>
            BY <2>1, <2>2, <3>1, <3>2
        <3>3. CASE spilt /\ OneTerm(e, out[e])
            <4>1. Len(out'[e]) = 1 /\ \A i \in DOMAIN out'[e] : i = 1
                BY <3>1, <3>3 DEF OneTerm
            <4>2. QED
                BY <3>1, <3>3, <4>1 DEF OneTerm, Right
        <3>4. QED
            BY <1>3, <3>2, <3>3
    <2>3. CASE eid[held[e]] # NoExpert
        <3>1. out'[e] = Append(out[e], Payload(held[e]))
            BY <1>1, <1>4, <2>3
        <3>2. eid[held[e]] = e /\ lpc[held[e]] = "idle"
            BY <1>1, <2>1, <2>3 DEF Loaded
        <3>3. Whole(e) => Payload(held[e]) = e
            BY <2>1, <2>3, <3>2, PayloadOwn DEF Right
        <3>4. CASE out[e] = <<>>
            <4>1. out'[e] = <<Payload(held[e])>>
                BY <3>1, <3>4
            <4>2. Len(out'[e]) = 1 /\ DOMAIN out'[e] = {1}
                BY <4>1
            <4>3. QED
                BY <3>3, <4>1, <4>2
        <3>5. CASE spilt /\ OneTerm(e, out[e])
            <4>1. PICK h, p : out[e] = <<h>> /\ out[e][1] = h /\ p = Payload(held[e])
                BY <3>5 DEF OneTerm
            <4>2. /\ Len(out'[e]) = 2 /\ DOMAIN out'[e] = {1, 2}
                  /\ out'[e][1] = h /\ out'[e][2] = p
                <5>1. <<h>> \in Seq({h, p}) /\ Len(<<h>>) = 1 /\ <<h>>[1] = h
                    OBVIOUS
                <5>2. out'[e] = Append(<<h>>, p)
                    BY <3>1, <4>1
                <5>3. /\ out'[e] \in Seq({h, p}) /\ Len(out'[e]) = 2
                      /\ out'[e][1] = h /\ out'[e][2] = p
                    BY <5>1, <5>2, AppendProperties
                <5>4. QED
                    BY <5>3
            <4>3. Whole(e) => out[e][1] = e
                BY <3>5 DEF OneTerm, Right
            <4>4. QED
                BY <3>3, <3>5, <4>1, <4>2, <4>3
        <3>6. QED
            BY <1>3, <3>4, <3>5
    <2>4. QED
        BY <2>2, <2>3
<1>5. \A e \in Experts : e \notin ToSet(sel) => out'[e] = <<>>
    BY <1>1, <1>3
<1>6. AnswerWhole'
    BY <1>1, <1>4, <1>5 DEF AnswerWhole, Whole, Trusted, Of
<1>7. QED
    BY <1>2, <1>6 DEF AnswerInv

LEMMA AnswerKept == AnswerInv /\ StoreInv /\ [Next]_vars => AnswerInv'
<1> SUFFICES ASSUME AnswerInv, StoreInv, [Next]_vars PROVE AnswerInv'
    OBVIOUS
<1>1. CASE Startup \/ \E m \in Matrices : Attention(m)
    <2>1. UNCHANGED <<env, eid, lpc, gpuVars, moeVars>>
        BY <1>1 DEF Startup, Attention, storeVars
    <2>2. QED
        BY <2>1, AnswerStays
<1>2. ASSUME NEW sq \in Selections, Route(sq) PROVE AnswerInv'
    BY <1>2, RouteAnswer
<1>3. ASSUME NEW e \in Experts, NEW s \in Slots, Reserve(e, s) PROVE AnswerInv'
    BY <1>3, ReserveAnswer
<1>4. ASSUME NEW s \in Slots, Load(s) PROVE AnswerInv'
    BY <1>4, LoadAnswer
<1>5. CASE AfterBatch
    BY <1>5, AfterBatchAnswer
<1>6. CASE Device
    BY <1>6, DeviceAnswer
<1>7. CASE GpuReturns
    BY <1>7, GpuReturnsAnswer
<1>8. ASSUME NEW e \in Experts, Reread(e) PROVE AnswerInv'
    BY <1>8, RereadAnswer
<1>9. CASE Compute
    BY <1>9, ComputeAnswer
<1>10. CASE Halted \/ UNCHANGED vars
    <2>1. UNCHANGED <<env, eid, lpc, gpuVars, moeVars>>
        BY <1>10 DEF Halted, vars, storeVars
    <2>2. QED
        BY <2>1, AnswerStays
<1>11. QED
    BY <1>1, <1>2, <1>3, <1>4, <1>5, <1>6, <1>7, <1>8, <1>9, <1>10 DEF Next

(* Whatever failed and wherever the experts were, a finished layer has one *)
(* term of each selected expert, of its own weights, and no other; only    *)
(* after a copy from the device that failed part-way may there be a        *)
(* second, which that copy wrote.                                          *)
THEOREM OffloadAnswers == Spec => []AnswerWhole
<1>1. Init => StoreInit
    BY DEF Init
<1>2. AnswerInv => AnswerWhole
    BY DEF AnswerInv
<1>3. QED
    BY <1>1, <1>2, StoreStarts, OffloadKeepsStore, AnswerStarts, AnswerKept, PTL
       DEF Spec

-----------------------------------------------------------------------------
(* Sums over finite sets                                                   *)

(* A non-empty set of finite sets has one that contains no other of them.  *)
LEMMA SmallestSet ==
    ASSUME NEW U, NEW P, P \subseteq SUBSET U, P # {}, \A T \in P : IsFiniteSet(T)
    PROVE  \E T \in P : \A V \in P : V \subseteq T => V = T
<1> DEFINE R == StrictSubsetOrdering(U)
<1>1. IsWellFoundedOn(R, FiniteSubsetsOf(U))
    BY FS_StrictSubsetOrderingWellFounded
<1>2. P \subseteq FiniteSubsetsOf(U)
    BY DEF FiniteSubsetsOf
<1>3. \A V, T \in P : V \subseteq T /\ V # T => <<V, T>> \in R
    BY DEF StrictSubsetOrdering
<1> HIDE DEF R
<1>4. PICK T \in P : \A V \in P : ~(<<V, T>> \in R)
    BY <1>1, <1>2, WFMin
<1>5. QED
    BY <1>3, <1>4, Zenon

(* The sums of w over the subsets of U.                                    *)
Adds(A, w, U) ==
    /\ A \in [SUBSET U -> Nat] /\ A[{}] = 0
    /\ \A x \in U : A[{x}] = w[x]
    /\ \A s, t \in SUBSET U : s \cap t = {} => A[s \cup t] = A[s] + A[t]

(* They exist: there is a function that adds up every subset.              *)
LEMMA SumsExist ==
    ASSUME NEW U, IsFiniteSet(U), NEW w, \A x \in U : w[x] \in Nat
    PROVE  \E A : Adds(A, w, U)
<1> DEFINE Missing == {T \in SUBSET U : ~\E A : Adds(A, w, T)}
<1>1. SUFFICES ASSUME Missing # {} PROVE FALSE
    OBVIOUS
<1>2. \A T \in Missing : IsFiniteSet(T)
    BY FS_Subset
<1>3. PICK T \in Missing : \A V \in Missing : V \subseteq T => V = T
    <2>1. Missing \subseteq SUBSET U
        OBVIOUS
    <2> HIDE DEF Missing
    <2>2. PICK P : P = Missing
        OBVIOUS
    <2>3. P \subseteq SUBSET U /\ P # {} /\ \A T \in P : IsFiniteSet(T)
        BY <1>1, <1>2, <2>1, <2>2
    <2>4. \E T \in P : \A V \in P : V \subseteq T => V = T
        BY <2>3, SmallestSet, SMTT(30)
    <2>5. QED
        BY <2>2, <2>4
<1>4. T \in SUBSET U /\ ~\E A : Adds(A, w, T)
    OBVIOUS
<1>5. T # {}
    <2>1. ASSUME T = {} PROVE Adds([s \in SUBSET T |-> 0], w, T)
        BY <2>1 DEF Adds
    <2>2. QED
        BY <1>4, <2>1
<1>6. PICK x \in T : TRUE
    BY <1>5
<1> DEFINE V == T \ {x}
<1>7. PICK A : Adds(A, w, V)
    <2>1. V \in SUBSET U /\ V \subseteq T /\ V # T
        BY <1>4, <1>6
    <2>2. V \notin Missing
        BY <1>3, <2>1
    <2>3. QED
        BY <2>1, <2>2
<1> HIDE DEF Missing
<1> DEFINE B == [s \in SUBSET T |-> IF x \in s THEN w[x] + A[s \ {x}] ELSE A[s]]
<1>8. w[x] \in Nat /\ x \in T /\ \A s \in SUBSET V : A[s] \in Nat
    BY <1>4, <1>6, <1>7 DEF Adds
<1>9. \A s \in SUBSET T : /\ s \ {x} \in SUBSET V
                          /\ x \notin s => s \in SUBSET V
                          /\ B[s] = IF x \in s THEN w[x] + A[s \ {x}] ELSE A[s]
    OBVIOUS
<1>10. B \in [SUBSET T -> Nat]
    BY <1>8, <1>9
<1>11. B[{}] = 0
    BY <1>7 DEF Adds
<1>12. \A y \in T : B[{y}] = w[y]
    <2> SUFFICES ASSUME NEW y \in T PROVE B[{y}] = w[y]
        OBVIOUS
    <2>1. CASE y = x
        <3>1. {y} \ {x} = {} /\ {y} \in SUBSET T /\ A[{}] = 0
            BY <1>7, <2>1 DEF Adds
        <3>2. B[{y}] = w[x] + A[{y} \ {x}]
            BY <1>9, <2>1, <3>1
        <3>3. B[{y}] = w[x] + 0
            BY <3>1, <3>2, Zenon
        <3>4. QED
            BY <1>8, <2>1, <3>3
    <2>2. CASE y # x
        <3>1. A[{y}] = w[y]
            BY <1>7, <2>2 DEF Adds
        <3>2. QED
            BY <1>9, <2>2, <3>1
    <2>3. QED
        BY <2>1, <2>2
<1>13. ASSUME NEW s \in SUBSET T, NEW t \in SUBSET T, s \cap t = {}
       PROVE  B[s \cup t] = B[s] + B[t]
    <2>1. \A p, q \in SUBSET V : p \cap q = {} => A[p \cup q] = A[p] + A[q]
        BY <1>7 DEF Adds
    <2> HIDE DEF B, V
    <2>2. s \cup t \in SUBSET T
        OBVIOUS
    <2>3. CASE x \in s
        <3>1. x \notin t /\ (s \cup t) \ {x} = (s \ {x}) \cup t /\ (s \ {x}) \cap t = {}
            BY <1>13, <2>3
        <3>2. A[(s \cup t) \ {x}] = A[s \ {x}] + A[t]
            BY <1>9, <2>1, <3>1
        <3>3. B[s \cup t] = w[x] + A[(s \cup t) \ {x}] /\ B[s] = w[x] + A[s \ {x}] /\ B[t] = A[t]
            BY <1>9, <2>2, <2>3, <3>1
        <3>4. A[s \ {x}] \in Nat /\ A[t] \in Nat
            BY <1>8, <1>9, <3>1
        <3>5. QED
            BY <1>8, <3>2, <3>3, <3>4
    <2>4. CASE x \in t
        <3>1. x \notin s /\ (s \cup t) \ {x} = s \cup (t \ {x}) /\ s \cap (t \ {x}) = {}
            BY <1>13, <2>4
        <3>2. A[(s \cup t) \ {x}] = A[s] + A[t \ {x}]
            BY <1>9, <2>1, <3>1
        <3>3. B[s \cup t] = w[x] + A[(s \cup t) \ {x}] /\ B[t] = w[x] + A[t \ {x}] /\ B[s] = A[s]
            BY <1>9, <2>2, <2>4, <3>1
        <3>4. A[t \ {x}] \in Nat /\ A[s] \in Nat
            BY <1>8, <1>9, <3>1
        <3>5. QED
            BY <1>8, <3>2, <3>3, <3>4
    <2>5. CASE x \notin s \cup t
        BY <1>9, <1>13, <2>1, <2>2, <2>5
    <2>6. QED
        BY <2>3, <2>4, <2>5
<1>14. Adds(B, w, T)
    <2> HIDE DEF B
    <2>1. QED
        BY <1>10, <1>11, <1>12, <1>13 DEF Adds
<1>15. QED
    BY <1>4, <1>14

(* The library's sum of the bytes of some entries.                         *)
Sum(f, S) == MapThenSumSet(LAMBDA e : f[e].bytes, S)
SumsUp(i, f, S) ==
    i = [s \in SUBSET S |->
           IF s = {} THEN 0
           ELSE f[CHOOSE x \in s : TRUE].bytes + i[s \ {CHOOSE x \in s : TRUE}]]

(* The sum as the library's definition unfolds.                            *)
LEMMA SumUnfolds ==
    ASSUME NEW f, NEW S
    PROVE  Sum(f, S) = (CHOOSE i : SumsUp(i, f, S))[S]
BY DEF Sum, SumsUp, MapThenSumSet, MapThenFoldSet

(* Two functions that differ, differ at a smallest set.                    *)
LEMMA SmallestWhere ==
    ASSUME NEW S, IsFiniteSet(S), NEW i, NEW A, i[S] # A[S]
    PROVE  \E s \in SUBSET S : i[s] # A[s] /\ \A v \in SUBSET s : v # s => i[v] = A[v]
<1>1. PICK P : P = {s \in SUBSET S : i[s] # A[s]}
    OBVIOUS
<1>2. P # {} /\ P \subseteq SUBSET S
    BY <1>1
<1>3. \A s \in P : IsFiniteSet(s)
    BY <1>2, FS_Subset
<1>4. \E s \in P : \A v \in P : v \subseteq s => v = s
    BY <1>2, <1>3, SmallestSet
<1>5. QED
    BY <1>1, <1>4

(* It is the function of the sums, whatever order the terms are taken in.  *)
LEMMA SumIs ==
    ASSUME NEW U, NEW w, \A x \in U : w[x] \in Nat, NEW A, Adds(A, w, U),
           NEW f, \A x \in U : f[x].bytes = w[x],
           NEW S \in SUBSET U, IsFiniteSet(S)
    PROVE  Sum(f, S) = A[S]
<1> DEFINE pick(s) == CHOOSE x \in s : TRUE
<1>1. \A s \in SUBSET S : s # {} =>
          /\ pick(s) \in s /\ s \ {pick(s)} \in SUBSET S
          /\ A[s] = f[pick(s)].bytes + A[s \ {pick(s)}]
    <2> SUFFICES ASSUME NEW s \in SUBSET S, s # {}
                 PROVE  /\ pick(s) \in s /\ s \ {pick(s)} \in SUBSET S
                        /\ A[s] = f[pick(s)].bytes + A[s \ {pick(s)}]
        OBVIOUS
    <2>1. pick(s) \in s
        OBVIOUS
    <2> HIDE DEF pick
    <2>2. PICK x \in s : x = pick(s)
        BY <2>1
    <2>3. {x} \in SUBSET U /\ s \ {x} \in SUBSET U /\ {x} \cap (s \ {x}) = {}
          /\ {x} \cup (s \ {x}) = s /\ x \in U
        BY <2>2
    <2>4. A[s] = A[{x}] + A[s \ {x}] /\ A[{x}] = f[x].bytes
        BY <2>3, SMTT(30) DEF Adds
    <2>5. QED
        BY <2>2, <2>4
<1>2. A[{}] = 0
    BY DEF Adds
<1>3. SumsUp([s \in SUBSET S |-> A[s]], f, S)
    <2> DEFINE r == [s \in SUBSET S |-> A[s]]
    <2>1. \A s \in SUBSET S : r[s] = IF s = {} THEN 0
                                     ELSE f[pick(s)].bytes + r[s \ {pick(s)}]
        <3> HIDE DEF pick
        <3> QED
            BY <1>1, <1>2
    <2>2. r = [s \in SUBSET S |-> r[s]]
        OBVIOUS
    <2> HIDE DEF r
    <2>3. r = [s \in SUBSET S |-> IF s = {} THEN 0
                                 ELSE f[pick(s)].bytes + r[s \ {pick(s)}]]
        <3> HIDE DEF pick
        <3> QED
            BY <2>1, <2>2
    <2>4. SumsUp(r, f, S)
        BY <2>3 DEF SumsUp
    <2>5. QED
        BY <2>4 DEF r
<1>4. ASSUME NEW i, SumsUp(i, f, S) PROVE i[S] = A[S]
    <2>1. SUFFICES ASSUME i[S] # A[S] PROVE FALSE
        OBVIOUS
    <2>2. PICK s \in SUBSET S : i[s] # A[s] /\ \A v \in SUBSET s : v # s => i[v] = A[v]
        BY <2>1, SmallestWhere
    <2>5. i[s] = IF s = {} THEN 0 ELSE f[pick(s)].bytes + i[s \ {pick(s)}]
        BY <1>4 DEF SumsUp
    <2> HIDE DEF pick
    <2>6. s # {}
        BY <1>2, <2>2, <2>5
    <2>7. pick(s) \in s /\ s \ {pick(s)} \in SUBSET S
          /\ A[s] = f[pick(s)].bytes + A[s \ {pick(s)}]
        BY <1>1, <2>6
    <2>8. i[s \ {pick(s)}] = A[s \ {pick(s)}]
        BY <2>2, <2>7
    <2>9. QED
        BY <2>2, <2>5, <2>6, <2>7, <2>8
<1>5. SumsUp(CHOOSE i : SumsUp(i, f, S), f, S)
    BY <1>3, Zenon
<1>6. QED
    BY <1>4, <1>5, SumUnfolds

(* What the proofs use of it.                                              *)
LEMMA SumFacts ==
    ASSUME NEW S, IsFiniteSet(S), NEW f, \A x \in S : f[x].bytes \in Nat
    PROVE  /\ Sum(f, {}) = 0 /\ Sum(f, S) \in Nat
           /\ \A x \in S : Sum(f, {x}) = f[x].bytes
           /\ \A T \in SUBSET S : /\ Sum(f, T) \in Nat /\ Sum(f, S \ T) \in Nat
                                  /\ Sum(f, S) = Sum(f, T) + Sum(f, S \ T)
           /\ \A g : (\A x \in S : g[x].bytes = f[x].bytes) => Sum(g, S) = Sum(f, S)
<1> DEFINE w == [x \in S |-> f[x].bytes]
<1>1. \A x \in S : w[x] \in Nat /\ f[x].bytes = w[x]
    OBVIOUS
<1> HIDE DEF w
<1>2. PICK A : Adds(A, w, S)
    BY <1>1, SumsExist
<1>3. \A T \in SUBSET S : IsFiniteSet(T)
    BY FS_Subset
<1>4. \A T \in SUBSET S : Sum(f, T) = A[T]
    BY <1>1, <1>2, <1>3, SumIs
<1>5. ASSUME NEW g, \A x \in S : g[x].bytes = f[x].bytes PROVE Sum(g, S) = Sum(f, S)
    <2>1. \A x \in S : g[x].bytes = w[x]
        BY <1>1, <1>5
    <2>2. Sum(g, S) = A[S]
        BY <1>1, <1>2, <2>1, SumIs
    <2>3. QED
        BY <1>4, <2>2
<1>6. /\ A[{}] = 0 /\ \A T \in SUBSET S : A[T] \in Nat
      /\ \A x \in S : A[{x}] = f[x].bytes
    BY <1>1, <1>2 DEF Adds
<1>7. ASSUME NEW T \in SUBSET S PROVE A[S] = A[T] + A[S \ T]
    <2>1. T \cap (S \ T) = {} /\ T \cup (S \ T) = S /\ S \ T \in SUBSET S
        OBVIOUS
    <2>2. QED
        BY <1>2, <2>1 DEF Adds
<1>8. \A T \in SUBSET S : S \ T \in SUBSET S
    OBVIOUS
<1>9. \A x \in S : {x} \in SUBSET S
    OBVIOUS
<1>10. QED
    BY <1>4, <1>5, <1>6, <1>7, <1>8, <1>9

-----------------------------------------------------------------------------
(* The order of use                                                        *)

Members(q) == {q[i] : i \in 1..Len(q)}
Order(q) ==
    q \in Seq(Experts) /\ \A i, j \in 1..Len(q) : q[i] = q[j] => i = j

(* A non-empty set of naturals has a least element.                        *)
LEMMA LeastNatural ==
    ASSUME NEW S, S \subseteq Nat, S # {}
    PROVE  \E m \in S : \A k \in S : m <= k
<1> DEFINE R == OpToRel(<, Nat)
<1>1. IsWellFoundedOn(R, Nat)
    BY NatLessThanWellFounded
<1>2. \A x, y \in Nat : y < x => <<y, x>> \in R
    BY DEF OpToRel
<1> HIDE DEF R
<1>3. PICK x \in S : \A y \in S : ~(<<y, x>> \in R)
    BY <1>1, WFMin
<1>4. ASSUME NEW y \in S PROVE x <= y
    <2>1. x \in Nat /\ y \in Nat
        BY <1>3
    <2>2. ~(y < x)
        BY <1>2, <1>3, <2>1, Zenon
    <2>3. QED
        BY <2>1, <2>2
<1>5. QED
    BY <1>3, <1>4, Zenon

(* An order is as long as it has members, and has finitely many.           *)
LEMMA OrderMembers ==
    ASSUME NEW q, Order(q)
    PROVE  /\ ToSet(q) = Members(q) /\ Members(q) \subseteq Experts /\ Len(q) \in Nat
           /\ IsFiniteSet(Members(q)) /\ Cardinality(Members(q)) = Len(q)
<1>1. q \in Seq(Experts) /\ Len(q) \in Nat /\ DOMAIN q = 1..Len(q)
      /\ \A i \in 1..Len(q) : q[i] \in Experts
    BY LenProperties, ElementOfSeq DEF Order
<1>2. ToSet(q) = Members(q)
    BY <1>1 DEF ToSet, Members
<1>3. Members(q) \subseteq Experts
    BY <1>1 DEF Members
<1> DEFINE f == [i \in 1..Len(q) |-> q[i]]
<1>4. f \in Bijection(1..Len(q), Members(q))
    <2>1. f \in [1..Len(q) -> Members(q)]
        BY DEF Members
    <2>2. \A i, j \in 1..Len(q) : f[i] = f[j] => i = j
        BY DEF Order
    <2>3. \A y \in Members(q) : \E i \in 1..Len(q) : f[i] = y
        BY DEF Members
    <2> HIDE DEF f
    <2>4. QED
        BY <2>1, <2>2, <2>3 DEF Bijection, Injection, Surjection, IsInjective
<1>5. ExistsBijection(1..Len(q), Members(q))
    BY <1>4 DEF ExistsBijection
<1>6. IsFiniteSet(1..Len(q)) /\ Cardinality(1..Len(q)) = Len(q)
    <2>1. PICK n \in Nat : n = Len(q)
        BY <1>1
    <2>2. IsFiniteSet(1..n) /\ Cardinality(1..n) = IF 1 > n THEN 0 ELSE n - 1 + 1
        BY FS_Interval
    <2>3. (IF 1 > n THEN 0 ELSE n - 1 + 1) = n
        OBVIOUS
    <2>4. QED
        BY <2>1, <2>2, <2>3, Zenon
<1>7. IsFiniteSet(Members(q)) /\ Cardinality(Members(q)) = Len(q)
    BY <1>5, <1>6, FS_Bijection
<1>8. QED
    BY <1>1, <1>2, <1>3, <1>7

(* A touched expert goes to the end; nothing is lost and nothing repeated. *)
LEMMA TouchedOrder ==
    ASSUME NEW q, Order(q), NEW e \in Members(q)
    PROVE  /\ Order(Touched(q, e)) /\ Members(Touched(q, e)) = Members(q)
           /\ Len(Touched(q, e)) = Len(q)
<1> DEFINE n == Len(q)
           p == CHOOSE i \in 1..n : q[i] = e
           src == [i \in 1..n |-> IF i < p THEN i ELSE IF i < n THEN i + 1 ELSE p]
<1>1. n \in Nat /\ \A i \in 1..n : q[i] \in Experts
    BY LenProperties, ElementOfSeq DEF Order
<1>2. \E i \in 1..n : q[i] = e
    BY DEF Members
<1>3. p \in 1..n /\ q[p] = e
    BY <1>2
<1>4. Touched(q, e) = [i \in 1..n |-> IF i < p THEN q[i] ELSE IF i < n THEN q[i + 1] ELSE e]
    BY DEF Touched
<1> HIDE DEF p, n
<1>5. \A i \in 1..n : src[i] = IF i < p THEN i ELSE IF i < n THEN i + 1 ELSE p
    OBVIOUS
<1>6. \A i \in 1..n : src[i] \in 1..n
    BY <1>1, <1>3, <1>5
<1>7. \A i, j \in 1..n : src[i] = src[j] => i = j
    BY <1>1, <1>3, <1>5
<1>8. \A k \in 1..n : \E i \in 1..n : src[i] = k
    <2> SUFFICES ASSUME NEW k \in 1..n PROVE \E i \in 1..n : src[i] = k
        OBVIOUS
    <2>1. CASE k < p
        BY <1>1, <1>3, <1>5, <2>1
    <2>2. CASE k = p
        <3>1. n \in 1..n /\ ~(n < p)
            BY <1>1, <1>3
        <3>2. src[n] = k
            BY <1>1, <1>5, <2>2, <3>1
        <3>3. QED
            BY <3>1, <3>2
    <2>3. CASE k > p
        <3>1. k - 1 \in 1..n /\ ~(k - 1 < p) /\ k - 1 < n /\ k - 1 + 1 = k
            BY <1>1, <1>3, <2>3
        <3>2. src[k - 1] = k
            BY <1>5, <3>1
        <3>3. QED
            BY <3>1, <3>2
    <2>4. QED
        BY <1>1, <1>3, <2>1, <2>2, <2>3
<1> HIDE DEF src
<1>9. PICK t : t = Touched(q, e)
    OBVIOUS
<1>10. t = [i \in 1..n |-> q[src[i]]]
    <2>1. \A i \in 1..n : (IF i < p THEN q[i] ELSE IF i < n THEN q[i + 1] ELSE e) = q[src[i]]
        BY <1>3, <1>5
    <2>2. QED
        BY <1>4, <1>9, <2>1
<1>11. t \in Seq(Experts) /\ Len(t) = n /\ \A i \in 1..n : t[i] = q[src[i]]
    BY <1>1, <1>6, <1>10
<1>12. \A i, j \in 1..n : q[i] = q[j] => i = j
    BY DEF Order, n
<1>13. Order(t)
    BY <1>6, <1>7, <1>11, <1>12, SMTT(30) DEF Order
<1>14. Members(q) = {q[i] : i \in 1..n}
    BY DEF Members, n
<1>15. Members(t) = {t[i] : i \in 1..n}
    BY <1>11 DEF Members
<1>16. Members(t) = Members(q)
    <2>1. ASSUME NEW i \in 1..n PROVE t[i] \in Members(q)
        BY <1>6, <1>11, <1>14
    <2>2. ASSUME NEW k \in 1..n PROVE q[k] \in Members(t)
        BY <1>8, <1>11, <1>15, SMTT(30)
    <2>3. QED
        BY <1>14, <1>15, <2>1, <2>2
<1>17. QED
    BY <1>9, <1>11, <1>13, <1>16 DEF n

(* The members of C are the newest of the order.                           *)
Newest(q, C) == \A i, j \in 1..Len(q) : i <= j /\ q[i] \in C => q[j] \in C

(* A touched expert is one of the newest, and those stay the newest.       *)
LEMMA TouchedNewest ==
    ASSUME NEW q, Order(q), NEW e \in Members(q), NEW C, Newest(q, C)
    PROVE  Newest(Touched(q, e), C \cup {e})
<1> DEFINE n == Len(q)
           p == CHOOSE i \in 1..n : q[i] = e
<1>1. n \in Nat
    BY LenProperties DEF Order
<1>2. p \in 1..n /\ q[p] = e
    <2>1. \E i \in 1..n : q[i] = e
        BY DEF Members
    <2>2. QED
        BY <2>1
<1>3. PICK t : t = Touched(q, e)
    OBVIOUS
<1>4. Len(t) = n
    BY <1>3, TouchedOrder
<1>5. t = [i \in 1..n |-> IF i < p THEN q[i] ELSE IF i < n THEN q[i + 1] ELSE e]
    BY <1>3 DEF Touched
<1> HIDE DEF p, n
<1>6. \A i \in 1..n : t[i] = IF i < p THEN q[i] ELSE IF i < n THEN q[i + 1] ELSE e
    BY <1>5
<1>7. \A i, j \in 1..n : i <= j /\ q[i] \in C => q[j] \in C
    BY DEF Newest, n
<1>8. \A i, j \in 1..n : q[i] = q[j] => i = j
    BY DEF Order, n
<1>9. ASSUME NEW i \in 1..n, NEW j \in 1..n, i <= j, t[i] \in C \cup {e}
      PROVE  t[j] \in C \cup {e}
    <2>1. CASE j = n
        <3>1. ~(j < p) /\ ~(j < n)
            BY <1>1, <1>2, <2>1
        <3>2. QED
            BY <1>6, <3>1
    <2>2. CASE j # n
        <3>1. i < n /\ j < n /\ i + 1 \in 1..n /\ j + 1 \in 1..n
            BY <1>1, <1>9, <2>2
        <3>2. PICK k \in 1..n : t[i] = q[k] /\ k # p /\ k = IF i < p THEN i ELSE i + 1
            BY <1>1, <1>2, <1>6, <3>1
        <3>3. q[k] # e
            BY <1>2, <1>8, <3>2
        <3>4. PICK l \in 1..n : t[j] = q[l] /\ l = IF j < p THEN j ELSE j + 1
            BY <1>6, <3>1
        <3>5. k <= l
            BY <1>1, <1>2, <1>9, <3>2, <3>4
        <3>6. q[l] \in C
            BY <1>7, <1>9, <3>2, <3>3, <3>5
        <3>7. QED
            BY <3>4, <3>6
    <2>3. QED
        BY <2>1, <2>2
<1>10. QED
    BY <1>3, <1>4, <1>9 DEF Newest

(* What the stamps of a call make of the order, expert after expert.       *)
Stamps(f, n, q, here, calls) ==
    f = [k \in 0..n |->
           IF k = 0 THEN q
           ELSE IF here[calls[k].eid] # None THEN Touched(f[k - 1], calls[k].eid)
           ELSE f[k - 1]]

LEMMA StampedIs ==
    ASSUME NEW calls
    PROVE  Stamped(calls) = (CHOOSE f : Stamps(f, Len(calls), lru, vram, calls))[Len(calls)]
BY DEF Stamped, Stamps

(* The recursion has a solution for every number of calls.                 *)
LEMMA StampsExist ==
    ASSUME NEW n \in Nat, NEW q, NEW here, NEW calls
    PROVE  \E f : Stamps(f, n, q, here, calls)
<1> DEFINE Bad == {m \in Nat : ~\E f : Stamps(f, m, q, here, calls)}
<1>1. SUFFICES ASSUME Bad # {} PROVE FALSE
    OBVIOUS
<1>2. PICK m \in Bad : \A k \in Bad : m <= k
    <2>1. PICK P : P = Bad
        OBVIOUS
    <2>2. P \subseteq Nat /\ P # {}
        BY <1>1, <2>1
    <2>3. \E m \in P : \A k \in P : m <= k
        BY <2>2, LeastNatural
    <2>4. QED
        BY <2>1, <2>3
<1>3. m \in Nat /\ ~\E f : Stamps(f, m, q, here, calls)
    OBVIOUS
<1>4. CASE m = 0
    <2> DEFINE f == [k \in 0..m |-> q]
    <2>1. Stamps(f, m, q, here, calls)
        BY <1>4 DEF Stamps
    <2>2. QED
        BY <1>3, <2>1
<1>5. CASE m # 0
    <2>1. m - 1 \in Nat /\ ~(m <= m - 1)
        BY <1>3, <1>5
    <2>2. m - 1 \notin Bad
        BY <1>2, <2>1
    <2>3. PICK f : Stamps(f, m - 1, q, here, calls)
        BY <2>1, <2>2
    <2> HIDE DEF Bad
    <2> DEFINE next == IF here[calls[m].eid] # None THEN Touched(f[m - 1], calls[m].eid)
                       ELSE f[m - 1]
               g == [k \in 0..m |-> IF k = m THEN next ELSE f[k]]
    <2>4. \A k \in 0..(m - 1) :
             f[k] = IF k = 0 THEN q
                    ELSE IF here[calls[k].eid] # None THEN Touched(f[k - 1], calls[k].eid)
                    ELSE f[k - 1]
        BY <2>3 DEF Stamps
    <2>5. \A k \in 0..m : k # m => k \in 0..(m - 1)
        BY <1>3
    <2>6. \A k \in 0..m : k # 0 => k - 1 \in 0..m /\ k - 1 # m
        BY <1>3
    <2>7. g[m] = next /\ \A k \in 0..m : k # m => g[k] = f[k]
        BY <1>3
    <2>8. m \in 0..m
        BY <1>3
    <2> HIDE DEF g
    <2>9. \A k \in 0..m :
             g[k] = IF k = 0 THEN q
                    ELSE IF here[calls[k].eid] # None THEN Touched(g[k - 1], calls[k].eid)
                    ELSE g[k - 1]
        <3> SUFFICES ASSUME NEW k \in 0..m
                     PROVE  g[k] = IF k = 0 THEN q
                                   ELSE IF here[calls[k].eid] # None
                                        THEN Touched(g[k - 1], calls[k].eid)
                                   ELSE g[k - 1]
            OBVIOUS
        <3>1. CASE k = m
            BY <1>5, <2>6, <2>7, <2>8, <3>1
        <3>2. CASE k # m /\ k # 0
            <4>1. g[k] = f[k] /\ g[k - 1] = f[k - 1]
                BY <2>6, <2>7, <3>2
            <4>2. QED
                BY <2>4, <2>5, <3>2, <4>1
        <3>3. CASE k = 0
            BY <1>5, <2>4, <2>5, <2>7, <3>3
        <3>4. QED
            BY <3>1, <3>2, <3>3
    <2>10. g = [k \in 0..m |-> g[k]]
        BY DEF g
    <2>11. Stamps(g, m, q, here, calls)
        BY <2>9, <2>10 DEF Stamps
    <2>12. QED
        BY <1>3, <2>11
<1>6. QED
    BY <1>4, <1>5

(* Stamping loses no expert, repeats none, and makes the residents of the  *)
(* call the newest.                                                        *)
LEMMA StampedOrder ==
    ASSUME Order(lru), Members(lru) = {e \in Experts : vram[e] # None},
           NEW calls, Len(calls) \in Nat, \A i \in 1..Len(calls) : calls[i].eid \in Experts
    PROVE  /\ Order(Stamped(calls)) /\ Members(Stamped(calls)) = Members(lru)
           /\ Len(Stamped(calls)) = Len(lru)
           /\ Newest(Stamped(calls), {calls[i].eid : i \in 1..Len(calls)})
<1> DEFINE n == Len(calls)
           First(k) == {calls[i].eid : i \in 1..k}
           Staying(q, C) == /\ Order(q) /\ Members(q) = Members(lru) /\ Len(q) = Len(lru)
                         /\ Newest(q, C)
<1>1. PICK f : /\ Stamps(f, n, lru, vram, calls) /\ Stamped(calls) = f[n]
    <2>1. \E f : Stamps(f, n, lru, vram, calls)
        BY StampsExist
    <2>2. Stamps(CHOOSE f : Stamps(f, n, lru, vram, calls), n, lru, vram, calls)
        BY <2>1, Zenon
    <2>3. QED
        BY <2>2, StampedIs
<1>2. \A k \in 0..n :
         f[k] = IF k = 0 THEN lru
                ELSE IF vram[calls[k].eid] # None THEN Touched(f[k - 1], calls[k].eid)
                ELSE f[k - 1]
    BY <1>1 DEF Stamps
<1> DEFINE Good(k) == Staying(f[k], First(k))
           Bad == {k \in 0..n : ~Good(k)}
<1>3. Bad = {}
    <2> HIDE DEF Good
    <2>1. SUFFICES ASSUME Bad # {} PROVE FALSE
        OBVIOUS
    <2>2. PICK m \in Bad : \A k \in Bad : m <= k
        <3>1. PICK P : P = Bad
            OBVIOUS
        <3>2. P \subseteq Nat /\ P # {}
            BY <2>1, <3>1
        <3>3. \E m \in P : \A k \in P : m <= k
            BY <3>2, LeastNatural
        <3>4. QED
            BY <3>1, <3>3
    <2>3. m \in 0..n /\ ~Good(m)
        OBVIOUS
    <2>4. m # 0
        <3>1. 1..0 = {} /\ f[0] = lru
            BY <1>2
        <3>2. First(0) = {} /\ Newest(lru, {})
            BY <3>1 DEF Newest
        <3>3. Good(0)
            BY <3>1, <3>2 DEF Good
        <3>4. QED
            BY <2>3, <3>3
    <2>5. m - 1 \in 0..n /\ m \in 1..n /\ ~(m <= m - 1)
        BY <2>3, <2>4
    <2>11. Good(m - 1)
        BY <2>2, <2>5
    <2> HIDE DEF Bad
    <2>6. Staying(f[m - 1], First(m - 1)) /\ ~Staying(f[m], First(m))
        BY <2>3, <2>11 DEF Good
    <2>10. First(m) = First(m - 1) \cup {calls[m].eid}
        <3>1. 1..m = (1..(m - 1)) \cup {m}
            BY <2>5
        <3>2. QED
            BY <3>1
    <2> HIDE DEF First
    <2>7. CASE vram[calls[m].eid] # None
        <3>1. calls[m].eid \in Members(lru)
            BY <2>5, <2>7
        <3>2. f[m] = Touched(f[m - 1], calls[m].eid)
            BY <1>2, <2>3, <2>4, <2>7
        <3>3. PICK q, e : q = f[m - 1] /\ e = calls[m].eid
            OBVIOUS
        <3>4. Order(q) /\ e \in Members(q)
            BY <2>6, <3>1, <3>3
        <3>5. Order(Touched(q, e)) /\ Members(Touched(q, e)) = Members(q)
              /\ Len(Touched(q, e)) = Len(q)
            BY <3>4, TouchedOrder
        <3>6. Newest(Touched(q, e), First(m - 1) \cup {e})
            BY <2>6, <3>3, <3>4, TouchedNewest
        <3>7. QED
            BY <2>3, <2>6, <2>10, <3>2, <3>3, <3>5, <3>6
    <2>8. CASE vram[calls[m].eid] = None
        <3>1. f[m] = f[m - 1]
            BY <1>2, <2>3, <2>4, <2>8
        <3>2. calls[m].eid \notin Members(f[m - 1])
            BY <2>6, <2>8
        <3>3. Newest(f[m - 1], First(m - 1) \cup {calls[m].eid})
            BY <2>6, <3>2 DEF Newest, Members
        <3>4. QED
            BY <2>3, <2>6, <2>10, <3>1, <3>3
    <2>9. QED
        BY <2>7, <2>8
<1>4. Staying(f[n], First(n))
    <2> HIDE DEF Good
    <2>1. n \in 0..n
        OBVIOUS
    <2>2. Good(n)
        BY <1>3, <2>1
    <2>3. QED
        BY <2>2 DEF Good
<1>5. QED
    BY <1>1, <1>4

(* A newcomer goes to the end of the order.                                *)
LEMMA AppendedOrder ==
    ASSUME NEW q, Order(q), NEW e \in Experts, e \notin Members(q)
    PROVE  /\ Order(q \o <<e>>) /\ Members(q \o <<e>>) = Members(q) \cup {e}
           /\ Len(q \o <<e>>) = Len(q) + 1
<1>1. PICK t : t = q \o <<e>>
    OBVIOUS
<1>2. q \in Seq(Experts) /\ Len(q) \in Nat
    BY LenProperties DEF Order
<1>3. <<e>> \in Seq(Experts) /\ Len(<<e>>) = 1 /\ <<e>>[1] = e
    OBVIOUS
<1>4. /\ t \in Seq(Experts) /\ Len(t) = Len(q) + 1
      /\ \A i \in 1..Len(q) + 1 : t[i] = IF i <= Len(q) THEN q[i] ELSE e
    <2>1. /\ q \o <<e>> \in Seq(Experts) /\ Len(q \o <<e>>) = Len(q) + Len(<<e>>)
          /\ \A i \in 1..Len(q) + Len(<<e>>) :
               (q \o <<e>>)[i] = IF i <= Len(q) THEN q[i] ELSE <<e>>[i - Len(q)]
        BY <1>2, <1>3, ConcatProperties
    <2>2. \A i \in 1..Len(q) + 1 : ~(i <= Len(q)) => i - Len(q) = 1
        BY <1>2
    <2>3. QED
        BY <1>1, <1>3, <2>1, <2>2
<1>5. \A i \in 1..Len(q) : i \in 1..Len(q) + 1 /\ t[i] = q[i]
    BY <1>2, <1>4
<1>6. Len(q) + 1 \in 1..Len(q) + 1 /\ t[Len(q) + 1] = e
    BY <1>2, <1>4
<1>7. \A i \in 1..Len(q) + 1 : i \in 1..Len(q) \/ i = Len(q) + 1
    BY <1>2
<1>8. \A i \in 1..Len(q) : q[i] # e
    BY DEF Members
<1>9. \A i, j \in 1..Len(t) : t[i] = t[j] => i = j
    BY <1>4, <1>5, <1>6, <1>7, <1>8 DEF Order
<1>10. Members(t) = Members(q) \cup {e}
    BY <1>4, <1>5, <1>6, <1>7 DEF Members
<1>11. QED
    BY <1>1, <1>4, <1>9, <1>10 DEF Order

(* Evicting a prefix leaves the other members, in order.                   *)
LEMMA EvictedOrder ==
    ASSUME NEW q, Order(q), NEW n \in 0..Len(q)
    PROVE  LET r == SubSeq(q, n + 1, Len(q))
               gone == {q[i] : i \in 1..n}
           IN  /\ Order(r) /\ Members(r) = Members(q) \ gone /\ gone \subseteq Members(q)
               /\ n = Len(q) => Members(r) = {} /\ gone = Members(q)
<1> DEFINE gone == {q[i] : i \in 1..n}
<1>1. q \in Seq(Experts) /\ Len(q) \in Nat /\ n \in Nat /\ n <= Len(q)
      /\ \A i \in 1..Len(q) : q[i] \in Experts
    BY LenProperties, ElementOfSeq DEF Order
<1>2. PICK r : r = SubSeq(q, n + 1, Len(q))
    OBVIOUS
<1>3. r = [i \in 1..(Len(q) - n) |-> q[i + n]]
    <2>1. r = [i \in 1..(Len(q) - (n + 1) + 1) |-> q[i + (n + 1) - 1]]
        BY <1>1, <1>2
    <2>2. Len(q) - (n + 1) + 1 = Len(q) - n /\ \A i \in Int : i + (n + 1) - 1 = i + n
        BY <1>1
    <2>3. QED
        BY <2>1, <2>2
<1>4. Len(q) - n \in Nat /\ \A i \in 1..(Len(q) - n) : i + n \in 1..Len(q)
    BY <1>1
<1>5. r \in Seq(Experts) /\ Len(r) = Len(q) - n /\ \A i \in 1..(Len(q) - n) : r[i] = q[i + n]
    BY <1>1, <1>3, <1>4
<1>6. Order(r)
    <2>1. ASSUME NEW i \in 1..Len(r), NEW j \in 1..Len(r), r[i] = r[j] PROVE i = j
        <3>1. q[i + n] = q[j + n] /\ i + n \in 1..Len(q) /\ j + n \in 1..Len(q)
            BY <1>4, <1>5, <2>1
        <3>2. i + n = j + n
            BY <3>1 DEF Order
        <3>3. QED
            BY <1>1, <1>5, <3>2
    <2>2. QED
        BY <1>5, <2>1 DEF Order
<1>7. gone \subseteq Members(q)
    <2>1. \A i \in 1..n : i \in 1..Len(q)
        BY <1>1
    <2>2. QED
        BY <2>1 DEF Members
<1>8. Members(r) = Members(q) \ gone
    <2>1. ASSUME NEW x \in Members(r) PROVE x \in Members(q) \ gone
        <3>1. PICK i \in 1..Len(r) : x = r[i]
            BY <2>1 DEF Members
        <3>2. x = q[i + n] /\ i + n \in 1..Len(q) /\ i + n > n
            BY <1>1, <1>4, <1>5, <3>1
        <3>3. \A j \in 1..n : j \in 1..Len(q) /\ j # i + n
            BY <1>1, <3>2
        <3>4. x \notin gone
            BY <3>2, <3>3 DEF Order
        <3>5. QED
            BY <3>2, <3>4 DEF Members
    <2>2. ASSUME NEW x \in Members(q) \ gone PROVE x \in Members(r)
        <3>1. PICK i \in 1..Len(q) : x = q[i]
            BY <2>2 DEF Members
        <3>2. i \notin 1..n
            BY <2>2, <3>1
        <3>3. i - n \in 1..(Len(q) - n) /\ (i - n) + n = i
            BY <1>1, <3>2
        <3>4. r[i - n] = x
            BY <1>5, <3>1, <3>3
        <3>5. QED
            BY <1>5, <3>3, <3>4 DEF Members
    <2>3. QED
        BY <2>1, <2>2
<1>9. n = Len(q) => gone = Members(q)
    BY DEF Members
<1> HIDE DEF gone
<1>10. QED
    BY <1>2, <1>6, <1>7, <1>8, <1>9 DEF gone

-----------------------------------------------------------------------------
(* The copies in video memory                                              *)

Held == {e \in Experts : vram[e] # None}
VramInv ==
    /\ Order(lru) /\ Members(lru) = Held
    /\ vram = [e \in Experts |-> vram[e]]
    /\ \A e \in Members(lru) : /\ vram[e].has \in Experts \cup {Noise}
                               /\ vram[e].bytes \in Nat \ {0}
    /\ vramUsed = Sum(vram, Members(lru))
    /\ vramUsed <= env.budget \/ Len(lru) = 1
    /\ env \in Setups

(* A call in progress, and the host weights it was given.                  *)
HostOK(h) == h # None => h.has \in Experts \cup {Noise} /\ h.biases \in Nat
CallInv ==
    /\ gpc \in {"off", "loop", "failed", "spilled", "done"}
    /\ Len(ge) \in Nat /\ gk \in 0..Len(ge)
    /\ \A i \in 1..Len(ge) : ge[i].eid \in Experts /\ HostOK(ge[i].host)

LEMMA TotalIsSum == ASSUME NEW S PROVE Total(S) = Sum(vram, S)
BY DEF Total, Sum

(* What is in use is what a part of the copies holds and what the rest does*)
LEMMA UsedFacts ==
    ASSUME VramInv
    PROVE  /\ IsFiniteSet(Members(lru)) /\ vramUsed \in Nat
           /\ env.budget \in Nat
           /\ \A T \in SUBSET Members(lru) :
                 /\ Total(T) \in Nat /\ Total(Members(lru) \ T) \in Nat
                 /\ vramUsed = Total(T) + Total(Members(lru) \ T)
<1>1. IsFiniteSet(Members(lru))
    BY OrderMembers DEF VramInv
<1>2. \A e \in Members(lru) : vram[e].bytes \in Nat
    BY DEF VramInv
<1>3. /\ Sum(vram, Members(lru)) \in Nat
      /\ \A T \in SUBSET Members(lru) :
            /\ Sum(vram, T) \in Nat /\ Sum(vram, Members(lru) \ T) \in Nat
            /\ Sum(vram, Members(lru)) = Sum(vram, T) + Sum(vram, Members(lru) \ T)
    BY <1>1, <1>2, SumFacts
<1>4. QED
    BY <1>1, <1>3, TotalIsSum, BudgetAssumption DEF VramInv

LEMMA VramGives == VramInv => VramWithinBudget
<1> SUFFICES ASSUME VramInv PROVE VramWithinBudget
    OBVIOUS
<1>1. ToSet(lru) = Members(lru) /\ Cardinality(Members(lru)) = Len(lru)
    BY OrderMembers DEF VramInv
<1>2. QED
    BY <1>1, TotalIsSum DEF VramInv, VramWithinBudget, Held

(* The evictions end where the newcomer fits, or nothing is left.          *)
LEMMA EvictionsEnd ==
    ASSUME NEW need, Len(lru) \in Nat
    PROVE  /\ Evictions(need) \in 0..Len(lru)
           /\ Evictions(need) = Len(lru) \/ Fits(Evictions(need), need)
<1>1. PICK S : S = {n \in 0..Len(lru) : n = Len(lru) \/ Fits(n, need)}
    OBVIOUS
<1>2. S \subseteq Nat /\ Len(lru) \in S
    BY <1>1
<1>3. \E m \in S : \A k \in S : m <= k
    BY <1>2, LeastNatural
<1>4. Min(S) \in S
    BY <1>3 DEF Min
<1>5. Evictions(need) = Min(S)
    BY <1>1 DEF Evictions
<1>6. QED
    BY <1>1, <1>4, <1>5

(* A copy has a positive size.                                             *)
LEMMA HostBytes ==
    ASSUME NEW h, h # None, HostOK(h)
    PROVE  BytesOf(h) \in Nat \ {0}
BY DEF HostOK, BytesOf, WeightBytes, BiasBytes

(* What is left after the evictions of an upload, with the order and the   *)
(* sum of its bytes.                                                       *)
GoneFor(need) == {lru[i] : i \in 1..Evictions(need)}
LeftBy(need) == SubSeq(lru, Evictions(need) + 1, Len(lru))
LEMMA Evicted ==
    ASSUME VramInv, NEW need \in Nat, NEW kept, NEW rest, NEW gone,
           gone = GoneFor(need), rest = LeftBy(need),
           \A e \in Experts : kept[e] = IF e \in gone THEN None ELSE vram[e]
    PROVE  /\ Order(rest) /\ Members(rest) = {e \in Experts : kept[e] # None}
           /\ \A e \in Members(rest) : kept[e] = vram[e] /\ e \in Members(lru)
           /\ IsFiniteSet(Members(rest)) /\ Total(gone) \in Nat
           /\ vramUsed - Total(gone) = Sum(vram, Members(rest))
           /\ Sum(vram, Members(rest)) \in Nat
           /\ vramUsed - Total(gone) + need <= env.budget \/ Members(rest) = {}
<1>1. PICK n : n = Evictions(need)
    OBVIOUS
<1>2. Order(lru) /\ Members(lru) = Held /\ Len(lru) \in Nat
      /\ Members(lru) \subseteq Experts
    BY OrderMembers DEF VramInv
<1>3. n \in 0..Len(lru) /\ (n = Len(lru) \/ Fits(n, need))
    BY <1>1, <1>2, EvictionsEnd
<1>4. /\ Order(rest) /\ Members(rest) = Members(lru) \ gone /\ gone \subseteq Members(lru)
      /\ n = Len(lru) => Members(rest) = {} /\ gone = Members(lru)
    <2>1. gone = {lru[i] : i \in 1..n} /\ rest = SubSeq(lru, n + 1, Len(lru))
        BY <1>1 DEF GoneFor, LeftBy
    <2>2. PICK r, g : r = SubSeq(lru, n + 1, Len(lru)) /\ g = {lru[i] : i \in 1..n}
        OBVIOUS
    <2>3. /\ Order(r) /\ Members(r) = Members(lru) \ g /\ g \subseteq Members(lru)
          /\ n = Len(lru) => Members(r) = {} /\ g = Members(lru)
        BY <1>2, <1>3, <2>2, EvictedOrder
    <2>4. rest = r /\ gone = g
        BY <2>1, <2>2
    <2>5. QED
        BY <2>3, <2>4
<1>5. Members(rest) = {e \in Experts : kept[e] # None}
    BY <1>2, <1>4 DEF Held
<1>6. \A e \in Members(rest) : kept[e] = vram[e] /\ e \in Members(lru)
    BY <1>2, <1>4
<1>7. IsFiniteSet(Members(rest))
    BY <1>4, OrderMembers
<1>8. /\ Total(gone) \in Nat /\ Total(Members(rest)) \in Nat
      /\ vramUsed = Total(gone) + Total(Members(rest))
    BY <1>4, UsedFacts
<1>9. Total(Members(rest)) = Sum(vram, Members(rest))
    BY TotalIsSum
<1>10. vramUsed - Total(gone) + need <= env.budget \/ Members(rest) = {}
    <2>1. CASE n = Len(lru)
        BY <1>4, <2>1
    <2>2. CASE Fits(n, need)
        <3>1. gone = {lru[i] : i \in 1..n}
            BY <1>1 DEF GoneFor
        <3>2. QED
            BY <2>2, <3>1, Zenon DEF Fits, RoomAfter
    <2>3. QED
        BY <1>3, <2>1, <2>2
<1>11. vramUsed - Total(gone) = Sum(vram, Members(rest))
    <2>1. PICK a \in Nat, b \in Nat : a = Total(gone) /\ b = Total(Members(rest))
        BY <1>8
    <2>2. vramUsed = a + b /\ b = Sum(vram, Members(rest))
        BY <1>8, <1>9, <2>1
    <2>3. vramUsed - a = b
        BY <2>1, <2>2
    <2>4. QED
        BY <2>1, <2>2, <2>3
<1>12. QED
    BY <1>4, <1>5, <1>6, <1>7, <1>8, <1>9, <1>10, <1>11

LEMMA SumOfOne ==
    ASSUME NEW S, IsFiniteSet(S), NEW f, \A x \in S : f[x].bytes \in Nat
    PROVE  \A x \in S : Sum(f, {x}) = f[x].bytes
<1>1. /\ Sum(f, {}) = 0 /\ Sum(f, S) \in Nat
      /\ \A x \in S : Sum(f, {x}) = f[x].bytes
      /\ \A T \in SUBSET S : /\ Sum(f, T) \in Nat /\ Sum(f, S \ T) \in Nat
                             /\ Sum(f, S) = Sum(f, T) + Sum(f, S \ T)
      /\ \A g : (\A x \in S : g[x].bytes = f[x].bytes) => Sum(g, S) = Sum(f, S)
    BY SumFacts
<1>2. QED
    BY <1>1

LEMMA SumAdds ==
    ASSUME NEW T, IsFiniteSet(T), NEW e, e \notin T, NEW f,
           \A x \in T \cup {e} : f[x].bytes \in Nat
    PROVE  Sum(f, T \cup {e}) = Sum(f, T) + f[e].bytes
<1>1. PICK S : S = T \cup {e}
    OBVIOUS
<1>2. IsFiniteSet(S) /\ T \in SUBSET S /\ e \in S /\ S \ T = {e}
    BY <1>1, FS_AddElement
<1>3. \A x \in S : f[x].bytes \in Nat
    BY <1>1
<1>4. Sum(f, S) = Sum(f, T) + Sum(f, S \ T) /\ Sum(f, {e}) = f[e].bytes
    <2>1. \A x \in S : Sum(f, {x}) = f[x].bytes
        BY <1>2, <1>3, SumOfOne
    <2>2. \A V \in SUBSET S : /\ Sum(f, V) \in Nat /\ Sum(f, S \ V) \in Nat
                               /\ Sum(f, S) = Sum(f, V) + Sum(f, S \ V)
        BY <1>2, <1>3, SumFacts
    <2>3. QED
        BY <1>2, <2>1, <2>2
<1>5. QED
    BY <1>1, <1>2, <1>4

(* An upload, with its evictions, and one that fails after them.           *)
LEMMA UploadKeeps ==
    ASSUME VramInv, CallInv, Upload, UNCHANGED env
    PROVE  VramInv' /\ CallInv'
<1> DEFINE e == Now.eid
           h == Now.host
           gone == GoneFor(BytesOf(h))
           kept == [x \in Experts |-> IF x \in gone THEN None ELSE vram[x]]
           rest == LeftBy(BytesOf(h))
           copy == [has |-> h.has, bytes |-> BytesOf(h)]
<1>1. /\ gpc = "loop" /\ gk < Len(ge) /\ vram[e] = None /\ h # None /\ ge' = ge
      /\ \/ /\ vram' = [kept EXCEPT ![e] = copy] /\ lru' = rest \o <<e>>
            /\ vramUsed' = vramUsed - Total(gone) + BytesOf(h)
            /\ gk' = gk + 1 /\ gpc' = gpc
         \/ /\ vram' = kept /\ lru' = rest /\ vramUsed' = vramUsed - Total(gone)
            /\ gpc' = "failed" /\ gk' = gk
    BY DEF Upload, Accumulates, GoneFor, LeftBy
<1>2. e \in Experts /\ HostOK(h)
    <2>1. gk + 1 \in 1..Len(ge)
        BY <1>1 DEF CallInv
    <2>2. QED
        BY <2>1 DEF CallInv, Now
<1>3. BytesOf(h) \in Nat \ {0}
    BY <1>1, <1>2, HostBytes
<1>4. copy.has \in Experts \cup {Noise} /\ copy.bytes = BytesOf(h) /\ copy # None
    BY <1>1, <1>2, <1>3, CopyAssumption DEF HostOK
<1>5. CallInv'
    BY <1>1 DEF CallInv
<1>6. PICK need \in Nat : need = BytesOf(h)
    BY <1>3
<1>7. /\ Order(rest) /\ Members(rest) = {x \in Experts : kept[x] # None}
      /\ \A x \in Members(rest) : kept[x] = vram[x] /\ x \in Members(lru)
      /\ IsFiniteSet(Members(rest)) /\ Total(gone) \in Nat
      /\ vramUsed - Total(gone) = Sum(vram, Members(rest))
      /\ Sum(vram, Members(rest)) \in Nat
      /\ vramUsed - Total(gone) + need <= env.budget \/ Members(rest) = {}
    <2>1. PICK g, k, r : g = gone /\ k = kept /\ r = rest
        OBVIOUS
    <2>2. /\ g = GoneFor(need) /\ r = LeftBy(need)
          /\ \A x \in Experts : k[x] = IF x \in g THEN None ELSE vram[x]
        BY <1>6, <2>1
    <2>3. /\ Order(r) /\ Members(r) = {x \in Experts : k[x] # None}
          /\ \A x \in Members(r) : k[x] = vram[x] /\ x \in Members(lru)
          /\ IsFiniteSet(Members(r)) /\ Total(g) \in Nat
          /\ vramUsed - Total(g) = Sum(vram, Members(r))
          /\ Sum(vram, Members(r)) \in Nat
          /\ vramUsed - Total(g) + need <= env.budget \/ Members(r) = {}
        BY <2>2, Evicted
    <2> HIDE DEF gone, kept, rest
    <2>4. QED
        BY <2>1, <2>3
<1>8. DOMAIN kept = Experts
    OBVIOUS
<1>9. \A x \in Members(rest) : vram[x].has \in Experts \cup {Noise} /\ vram[x].bytes \in Nat \ {0}
    BY <1>7 DEF VramInv
<1>10. env.budget \in Nat /\ vramUsed \in Nat
    BY UsedFacts
<1> HIDE DEF e, h, gone, kept, rest, copy
<1>11. CASE vram' = kept /\ lru' = rest /\ vramUsed' = vramUsed - Total(gone)
    <2>1. Sum(kept, Members(rest)) = Sum(vram, Members(rest))
        <3>1. \A x \in Members(rest) : vram[x].bytes \in Nat /\ kept[x].bytes = vram[x].bytes
            BY <1>7, <1>9
        <3>2. QED
            BY <1>7, <3>1, SumFacts
    <2>2. Order(lru)' /\ Members(lru)' = Members(rest) /\ Held' = Members(rest)
        BY <1>7, <1>11 DEF Order, Members, Held
    <2>3. Sum(vram, Members(lru))' = Sum(kept, Members(rest))
        BY <1>11, <2>2
    <2>4. vramUsed' = Sum(vram, Members(lru))'
        BY <1>7, <1>11, <2>1, <2>3
    <2>5. vramUsed' <= env.budget
        <3>1. CASE Members(rest) = {}
            <4>1. Sum(vram, {}) = 0
                BY <1>7, <1>9, SumFacts
            <4>2. QED
                BY <1>7, <1>10, <1>11, <3>1, <4>1
        <3>2. CASE vramUsed - Total(gone) + need <= env.budget
            BY <1>7, <1>10, <1>11, <3>2
        <3>3. QED
            BY <1>7, <3>1, <3>2
    <2>6. \A x \in Members(lru)' : /\ vram'[x].has \in Experts \cup {Noise}
                                   /\ vram'[x].bytes \in Nat \ {0}
        BY <1>7, <1>9, <1>11, <2>2
    <2>7. vram' = [x \in Experts |-> vram'[x]]
        BY <1>11 DEF kept
    <2>8. QED
        BY <1>5, <2>2, <2>4, <2>5, <2>6, <2>7 DEF VramInv
<1>12. CASE /\ vram' = [kept EXCEPT ![e] = copy] /\ lru' = rest \o <<e>>
            /\ vramUsed' = vramUsed - Total(gone) + BytesOf(h)
    <2> DEFINE all == Members(rest) \cup {e}
    <2>1. e \notin Members(rest)
        BY <1>1, <1>2, <1>7 DEF VramInv, Held
    <2>2. Order(rest \o <<e>>) /\ Members(rest \o <<e>>) = all
          /\ Len(rest \o <<e>>) = Len(rest) + 1
        BY <1>2, <1>7, <2>1, AppendedOrder
    <2>3. vram'[e] = copy /\ \A x \in Experts \ {e} : vram'[x] = kept[x]
        BY <1>2, <1>8, <1>12
    <2>4. vram' = [x \in Experts |-> vram'[x]]
        BY <1>8, <1>12
    <2>5. Held' = all
        BY <1>2, <1>4, <1>7, <2>3 DEF Held
    <2>6. Order(lru)' /\ Members(lru)' = all
        BY <1>12, <2>2 DEF Order, Members
    <2>7. \A x \in all : vram'[x].has \in Experts \cup {Noise} /\ vram'[x].bytes \in Nat \ {0}
        BY <1>2, <1>3, <1>4, <1>7, <1>9, <2>1, <2>3
    <2>8. IsFiniteSet(all)
        BY <1>7, FS_AddElement
    <2>9. PICK f : f = vram'
        OBVIOUS
    <2>10. \A x \in all : f[x].bytes \in Nat
        BY <2>7, <2>9
    <2>12. Sum(f, all) = Sum(f, Members(rest)) + f[e].bytes
        BY <1>7, <2>1, <2>10, SumAdds
    <2> HIDE DEF all
    <2>13. Sum(f, Members(rest)) = Sum(vram, Members(rest))
        <3>1. \A x \in Members(rest) : vram[x].bytes \in Nat /\ f[x].bytes = vram[x].bytes
            BY <1>7, <1>9, <2>1, <2>3, <2>9
        <3>2. QED
            BY <1>7, <3>1, SumFacts
    <2>14. e \in all /\ f[e].bytes = BytesOf(h)
        BY <1>4, <2>3, <2>9 DEF all
    <2>15. Sum(f, all) = Sum(vram, Members(rest)) + BytesOf(h)
        BY <2>12, <2>13, <2>14
    <2>16. Sum(vram, Members(lru))' = Sum(f, all)
        BY <2>6, <2>9
    <2>17. vramUsed' = Sum(vram, Members(lru))'
        BY <1>7, <1>12, <2>15, <2>16
    <2>18. (vramUsed <= env.budget \/ Len(lru) = 1)'
        <3>1. CASE Members(rest) = {}
            <4>1. Len(rest) = Cardinality(Members(rest)) /\ Cardinality({}) = 0
                BY <1>7, OrderMembers, FS_EmptySet
            <4>2. Len(lru') = 1
                BY <1>12, <2>2, <3>1, <4>1
            <4>3. QED
                BY <4>2
        <3>2. CASE vramUsed - Total(gone) + need <= env.budget
            BY <1>6, <1>12, <3>2
        <3>3. QED
            BY <1>7, <3>1, <3>2
    <2>19. QED
        BY <1>5, <2>4, <2>5, <2>6, <2>7, <2>17, <2>18 DEF VramInv
<1>13. QED
    BY <1>1, <1>11, <1>12

(* Steps that leave the video memory alone.                                *)
LEMMA GpuStays ==
    ASSUME VramInv, CallInv, UNCHANGED <<env, gpuVars>>
    PROVE  VramInv' /\ CallInv'
<1>1. UNCHANGED <<env, vram, lru, vramUsed, ge, gpc, gk>>
    BY DEF gpuVars
<1>2. Held' = Held
    BY <1>1 DEF Held
<1>3. QED
    <2>1. CallInv'
        BY <1>1 DEF CallInv, HostOK
    <2>2. Order(lru)' /\ Members(lru)' = Members(lru)
        BY <1>1 DEF VramInv, Order, Members
    <2>3. Sum(vram, Members(lru))' = Sum(vram, Members(lru))
        BY <1>1, <2>2
    <2>4. VramInv'
        BY <1>1, <1>2, <2>2, <2>3 DEF VramInv
    <2>5. QED
        BY <2>1, <2>4

(* Only the order changes, not its members.                                *)
LEMMA ReorderedKeeps ==
    ASSUME VramInv, UNCHANGED <<env, vram, vramUsed>>,
           Order(lru'), Members(lru') = Members(lru), Len(lru') = Len(lru)
    PROVE  VramInv'
<1>1. Order(lru)' /\ Members(lru)' = Members(lru)
    BY DEF Order, Members
<1>2. Held' = Held
    BY DEF Held
<1>3. Sum(vram, Members(lru))' = Sum(vram, Members(lru))
    BY <1>1
<1>4. QED
    BY <1>1, <1>2, <1>3 DEF VramInv

LEMMA HitKeeps ==
    ASSUME VramInv, CallInv, Hit, UNCHANGED env
    PROVE  VramInv' /\ CallInv'
<1>1. /\ gk < Len(ge) /\ vram[Now.eid] # None /\ lru' = Touched(lru, Now.eid)
      /\ gk' = gk + 1 /\ UNCHANGED <<vram, vramUsed, ge, gpc>>
    BY DEF Hit, Accumulates
<1>2. gk + 1 \in 1..Len(ge) /\ Now.eid \in Experts
    BY <1>1 DEF CallInv, Now
<1>3. Now.eid \in Members(lru) /\ Order(lru)
    BY <1>1, <1>2 DEF VramInv, Held
<1>4. PICK e : e = Now.eid
    OBVIOUS
<1>5. Order(lru') /\ Members(lru') = Members(lru) /\ Len(lru') = Len(lru)
    BY <1>1, <1>3, <1>4, TouchedOrder
<1>6. VramInv'
    BY <1>1, <1>5, ReorderedKeeps
<1>7. CallInv'
    BY <1>1, <1>2 DEF CallInv, HostOK
<1>8. QED
    BY <1>6, <1>7

LEMMA DeviceKeeps ==
    ASSUME VramInv, CallInv, GpuStep, UNCHANGED env
    PROVE  VramInv' /\ CallInv'
<1>1. CASE Hit
    BY <1>1, HitKeeps
<1>2. CASE Upload
    BY <1>2, UploadKeeps
<1>3. CASE Absent \/ CopyOut
    <2>1. /\ UNCHANGED <<env, vram, lru, vramUsed, ge, gk>>
          /\ gpc' \in {"done", "failed", "spilled"}
        BY <1>3 DEF Absent, CopyOut
    <2>2. VramInv'
        BY <2>1, ReorderedKeeps DEF VramInv
    <2>3. CallInv'
        BY <2>1 DEF CallInv, HostOK
    <2>4. QED
        BY <2>2, <2>3
<1>4. QED
    BY <1>1, <1>2, <1>3 DEF GpuStep

(* What a slot is computed with, and what it gives the device.             *)
LEMMA PayloadTypes ==
    ASSUME StoreInv, NEW s \in Slots
    PROVE  Payload(s) \in Experts \cup {Noise}
<1>1. CASE \A f \in {"gu", "d"} : buf[s][f] # None /\ buf[s][f].has = eid[s]
    <2>1. buf \in [Slots -> [Fields -> Block \cup {None}]] /\ "gu" \in Fields
        BY DEF StoreInv, StoreTypeOK, Fields, Weights
    <2>2. buf[s]["gu"] \in Block /\ buf[s]["gu"].has = eid[s]
        BY <1>1, <2>1
    <2>3. eid[s] \in Experts \cup {Noise}
        BY <2>2 DEF Block
    <2>4. QED
        BY <1>1, <2>3 DEF Payload
<1>2. CASE ~\A f \in {"gu", "d"} : buf[s][f] # None /\ buf[s][f].has = eid[s]
    BY <1>2 DEF Payload
<1>3. QED
    BY <1>1, <1>2

LEMMA HostTypes ==
    ASSUME StoreInv, AnswerInv, NEW e \in Experts
    PROVE  HostOK(HostOf(e))
<1>1. SUFFICES ASSUME held[e] # None PROVE HostOK(HostOf(e))
    BY DEF HostOK, HostOf
<1>2. PICK s \in Slots : s = held[e]
    BY <1>1 DEF AnswerInv, Shapes
<1>3. HostOf(e).has = Payload(s)
      /\ HostOf(e).biases = Cardinality({f \in {"gub", "db"} : buf[s][f] # None})
    BY <1>1, <1>2 DEF HostOf, Biases
<1>4. Cardinality({f \in {"gub", "db"} : buf[s][f] # None}) \in Nat
    <2>1. IsFiniteSet({"gub", "db"})
        <3>1. IsFiniteSet({"gub"})
            BY FS_Singleton
        <3>2. IsFiniteSet({"gub"} \cup {"db"})
            BY <3>1, FS_AddElement
        <3>3. {"gub"} \cup {"db"} = {"gub", "db"}
            OBVIOUS
        <3>4. QED
            BY <3>2, <3>3
    <2>2. {f \in {"gub", "db"} : buf[s][f] # None} \subseteq {"gub", "db"}
        OBVIOUS
    <2>3. QED
        BY <2>1, <2>2, FS_Subset, FS_CardinalityType
<1>5. QED
    BY <1>3, <1>4, PayloadTypes DEF HostOK

(* A call starts with the layer's experts, the residents stamped.          *)
LEMMA AfterBatchKeeps ==
    ASSUME VramInv, CallInv, StoreInv, AnswerInv, AfterBatch
    PROVE  VramInv' /\ CallInv'
<1> DEFINE calls == [i \in 1..Topk |-> [eid |-> sel[i], host |-> HostOf(sel[i])]]
<1>1. UNCHANGED env /\ (CallMoe(calls) \/ UNCHANGED gpuVars) /\ main = "load"
    BY DEF AfterBatch, AsksDevice, SkipsDevice
<1>2. CASE UNCHANGED gpuVars
    BY <1>1, <1>2, GpuStays
<1>3. CASE CallMoe(calls)
    <2>1. sel \in Selections /\ Topk \in Nat
        BY <1>1, PoolAssumption DEF AnswerInv, Shapes
    <2>2. \A i \in 1..Topk : sel[i] \in Experts
        BY <2>1 DEF Selections
    <2>3. Len(calls) = Topk
        <3>1. calls \in Seq({calls[i] : i \in 1..Topk})
            BY <2>1
        <3>2. DOMAIN calls = 1..Topk
            OBVIOUS
        <3>3. QED
            BY <2>1, <3>1, <3>2
    <2>4. \A i \in 1..Topk : calls[i].eid = sel[i] /\ calls[i].host = HostOf(sel[i])
        OBVIOUS
    <2>5. PICK c : c = calls
        OBVIOUS
    <2> HIDE DEF calls
    <2>6. /\ Len(c) = Topk
          /\ \A i \in 1..Topk : c[i].eid \in Experts /\ HostOK(c[i].host)
        BY <2>2, <2>3, <2>4, <2>5, HostTypes
    <2>7. /\ ge' = c /\ gk' = 0 /\ UNCHANGED <<vram, vramUsed>>
          /\ \/ gpc' = "loop" /\ lru' = Stamped(c)
             \/ gpc' = "failed" /\ UNCHANGED lru
        BY <1>3, <2>5 DEF CallMoe
    <2>8. CallInv'
        BY <2>1, <2>6, <2>7 DEF CallInv, HostOK
    <2>9. Order(lru) /\ Members(lru) = {e \in Experts : vram[e] # None}
        BY DEF VramInv, Held
    <2>10. Order(lru') /\ Members(lru') = Members(lru) /\ Len(lru') = Len(lru)
        <3>1. CASE lru' = Stamped(c)
            <4>1. /\ Order(Stamped(c)) /\ Members(Stamped(c)) = Members(lru)
                  /\ Len(Stamped(c)) = Len(lru)
                BY <2>1, <2>6, <2>9, StampedOrder
            <4>2. QED
                BY <3>1, <4>1
        <3>2. CASE UNCHANGED lru
            BY <2>9, <3>2
        <3>3. QED
            BY <2>7, <3>1, <3>2
    <2>11. VramInv'
        BY <1>1, <2>7, <2>10, ReorderedKeeps
    <2>12. QED
        BY <2>8, <2>11
<1>4. QED
    BY <1>1, <1>2, <1>3

LEMMA ReturnKeeps ==
    ASSUME VramInv, CallInv, GpuReturns
    PROVE  VramInv' /\ CallInv'
<1>1. /\ UNCHANGED <<env, vram, lru, vramUsed>>
      /\ ge' = <<>> /\ gk' = 0 /\ gpc' = "off"
    BY DEF GpuReturns, Returned
<1>2. VramInv'
    BY <1>1, ReorderedKeeps DEF VramInv
<1>3. CallInv'
    BY <1>1 DEF CallInv, HostOK
<1>4. QED
    BY <1>2, <1>3

GpuInv == VramInv /\ CallInv

LEMMA GpuStarts == Init => GpuInv
<1> SUFFICES ASSUME Init PROVE GpuInv
    OBVIOUS
<1>1. /\ vram = [e \in Experts |-> None] /\ lru = <<>> /\ vramUsed = 0
      /\ ge = <<>> /\ gpc = "off" /\ gk = 0 /\ env \in Setups
    BY DEF Init, GpuInit, StoreInit
<1>2. Order(lru) /\ Members(lru) = {} /\ Held = {}
    BY <1>1 DEF Order, Members, Held
<1>3. Sum(vram, {}) = 0
    <2>1. IsFiniteSet({}) /\ \A e \in {} : vram[e].bytes \in Nat
        BY FS_EmptySet
    <2>2. QED
        BY <2>1, SumFacts
<1>4. env.budget \in Nat
    BY <1>1, BudgetAssumption
<1>5. VramInv
    <2>1. vram = [e \in Experts |-> vram[e]]
        BY <1>1
    <2>2. \A e \in Members(lru) : FALSE
        BY <1>2
    <2>3. vramUsed = Sum(vram, Members(lru)) /\ Members(lru) = Held
        BY <1>1, <1>2, <1>3
    <2>4. vramUsed <= env.budget
        BY <1>1, <1>4
    <2>5. QED
        BY <1>1, <1>2, <2>1, <2>2, <2>3, <2>4 DEF VramInv
<1>6. CallInv
    <2>1. Len(ge) = 0
        BY <1>1
    <2>2. QED
        BY <1>1, <2>1 DEF CallInv
<1>7. QED
    BY <1>5, <1>6 DEF GpuInv

LEMMA OffloadKeepsGpu ==
    GpuInv /\ StoreInv /\ AnswerInv /\ [Next]_vars => GpuInv'
<1> SUFFICES ASSUME GpuInv, StoreInv, AnswerInv, [Next]_vars PROVE GpuInv'
    OBVIOUS
<1> USE DEF GpuInv
<1>1. CASE Startup \/ Compute \/ Halted \/ UNCHANGED vars
    BY <1>1, GpuStays DEF Startup, Compute, Halted, vars
<1>2. ASSUME NEW m \in Matrices, Attention(m) PROVE GpuInv'
    BY <1>2, GpuStays DEF Attention
<1>3. ASSUME NEW sq \in Selections, Route(sq) PROVE GpuInv'
    BY <1>3, GpuStays DEF Route
<1>4. ASSUME NEW e \in Experts, NEW s \in Slots, Reserve(e, s) PROVE GpuInv'
    BY <1>4, GpuStays DEF Reserve, Begin
<1>5. ASSUME NEW s \in Slots, Load(s) PROVE GpuInv'
    BY <1>5, LoadIds, GpuStays DEF Load
<1>6. CASE AfterBatch
    BY <1>6, AfterBatchKeeps
<1>7. CASE Device
    BY <1>7, DeviceKeeps DEF Device
<1>8. CASE GpuReturns
    BY <1>8, ReturnKeeps
<1>9. ASSUME NEW e \in Experts, Reread(e) PROVE GpuInv'
    BY <1>9, GpuStays DEF Reread
<1>10. QED
    BY <1>1, <1>2, <1>3, <1>4, <1>5, <1>6, <1>7, <1>8, <1>9 DEF Next

(* The bytes counted are those of the copies held, each expert is in the   *)
(* order of use once, and the budget is kept, but for a single expert that *)
(* is larger than all of it.                                               *)
THEOREM OffloadWithinBudget == Spec => []VramWithinBudget
<1>1. Init => StoreInit
    BY DEF Init
<1>2. GpuInv => VramWithinBudget
    BY VramGives DEF GpuInv
<1>3. QED
    BY <1>1, <1>2, StoreStarts, OffloadKeepsStore, AnswerStarts, AnswerKept,
       GpuStarts, OffloadKeepsGpu, PTL DEF Spec

-----------------------------------------------------------------------------
(* The types                                                               *)

LEMMA BackendTyped == BackendTypeOK /\ env \in Setups /\ [Next]_vars => BackendTypeOK'
<1> SUFFICES ASSUME BackendTypeOK, env \in Setups, [Next]_vars PROVE BackendTypeOK'
    OBVIOUS
<1> USE DEF BackendTypeOK
<1>1. ASSUME UNCHANGED backendVars PROVE BackendTypeOK'
    BY <1>1 DEF backendVars
<1>2. env.f32 \subseteq Matrices
    BY BackendAssumption
<1>3. CASE Startup
    <2>1. StartupStep
        BY <1>3 DEF Startup
    <2>2. CASE ChooseBackend
        BY <2>2 DEF ChooseBackend
    <2>3. CASE UploadRouters
        BY <2>3 DEF UploadRouters
    <2>4. CASE DenseUploaded
        BY <2>4 DEF DenseUploaded
    <2>5. CASE EnableNative
        BY <1>2, <2>5 DEF EnableNative
    <2>6. CASE LoadLibrary
        <3>1. gpuOn' = gpuOn \/ gpuOn' = Wants("experts")
            BY <2>6 DEF LoadLibrary
        <3>2. Wants("experts") \in BOOLEAN
            <4>1. CASE Wants("experts")
                <5>1. Wants("experts") = TRUE
                    BY <4>1
                <5>2. QED
                    BY <5>1
            <4>2. CASE ~Wants("experts")
                <5>1. Wants("experts") = FALSE
                    BY <4>2
                <5>2. QED
                    BY <5>1
            <4>3. QED
                BY <4>1, <4>2
        <3>3. gpuOn' \in BOOLEAN
            BY <3>1, <3>2
        <3>4. routerOn' \in BOOLEAN
            BY <2>6 DEF LoadLibrary
        <3>5. boot' = "check" /\ UNCHANGED <<dense, onDevice, released>>
            BY <2>6 DEF LoadLibrary
        <3>6. QED
            BY <3>3, <3>4, <3>5
    <2>7. ASSUME NEW m \in Matrices, UploadDense(m) PROVE BackendTypeOK'
        BY <2>7 DEF UploadDense
    <2>8. CASE StartupChecked
        BY <2>8 DEF StartupChecked
    <2>9. QED
        BY <2>1, <2>2, <2>3, <2>4, <2>5, <2>6, <2>7, <2>8 DEF StartupStep
<1>4. ASSUME NEW m \in Matrices, Attention(m) PROVE BackendTypeOK'
    BY <1>4 DEF Attention, Project
<1>5. ASSUME NEW sq \in Selections, Route(sq) PROVE BackendTypeOK'
    BY <1>1, <1>5 DEF Route
<1>6. ASSUME NEW e \in Experts, NEW s \in Slots, Reserve(e, s) PROVE BackendTypeOK'
    BY <1>1, <1>6 DEF Reserve
<1>7. ASSUME NEW s \in Slots, Load(s) PROVE BackendTypeOK'
    BY <1>1, <1>7 DEF Load
<1>8. CASE AfterBatch \/ Device \/ GpuReturns \/ Compute \/ Halted \/ UNCHANGED vars
    BY <1>1, <1>8 DEF AfterBatch, AsksDevice, SkipsDevice, Device, GpuReturns, Compute,
                      Halted, vars
<1>9. ASSUME NEW e \in Experts, Reread(e) PROVE BackendTypeOK'
    BY <1>1, <1>9 DEF Reread
<1>10. QED
    BY <1>3, <1>4, <1>5, <1>6, <1>7, <1>8, <1>9 DEF Next

(* The terms are experts' weights, or nobody's.                            *)
Terms(a) ==
    /\ a = [e \in Experts |-> a[e]]
    /\ \A e \in Experts : a[e] \in Seq(Experts \cup {Noise})
TermsOK == Terms(acc) /\ \A e \in Experts : out[e] \in Seq(Experts \cup {Noise})

LEMMA NoTermTerms == Terms(NoTerm)
BY DEF Terms, NoTerm

(* One more term, of the weights the device has.                           *)
LEMMA AccumulatesTerms ==
    ASSUME Terms(acc), NEW has \in Experts \cup {Noise}, Accumulates(has)
    PROVE  Terms(acc')
<1>1. acc' = [acc EXCEPT ![Now.eid] = Append(@, has)]
    BY DEF Accumulates
<1>2. PICK n : n = Now.eid
    OBVIOUS
<1>3. \A e \in Experts : acc'[e] = IF e = n THEN Append(acc[e], has) ELSE acc[e]
    BY <1>1, <1>2 DEF Terms
<1>4. acc' = [e \in Experts |-> acc'[e]]
    BY <1>1 DEF Terms
<1>5. \A e \in Experts : Append(acc[e], has) \in Seq(Experts \cup {Noise})
    BY DEF Terms
<1>6. QED
    BY <1>3, <1>4, <1>5 DEF Terms

LEMMA DeviceTerms ==
    ASSUME TermsOK, GpuInv, Device
    PROVE  Terms(acc')
<1>1. GpuStep
    BY DEF Device
<1>2. gk < Len(ge) => gk + 1 \in 1..Len(ge) /\ Now = ge[gk + 1]
    BY DEF GpuInv, CallInv, Now
<1>3. CASE Hit
    <2>1. vram[Now.eid] # None /\ Now.eid \in Experts /\ Accumulates(vram[Now.eid].has)
        BY <1>2, <1>3 DEF Hit, GpuInv, CallInv
    <2>2. vram[Now.eid].has \in Experts \cup {Noise}
        BY <2>1 DEF GpuInv, VramInv, Held
    <2>3. QED
        BY <2>1, <2>2, AccumulatesTerms DEF TermsOK
<1>4. CASE Upload
    <2>1. Accumulates(Now.host.has) \/ UNCHANGED acc
        BY <1>4 DEF Upload
    <2>2. Now.host.has \in Experts \cup {Noise}
        BY <1>2, <1>4 DEF Upload, GpuInv, CallInv, HostOK
    <2>3. QED
        BY <2>1, <2>2, AccumulatesTerms DEF TermsOK
<1>5. CASE Absent \/ CopyOut
    BY <1>5 DEF Absent, CopyOut, TermsOK
<1>6. QED
    BY <1>1, <1>3, <1>4, <1>5 DEF GpuStep

LEMMA TermsKept ==
    TermsOK /\ GpuInv /\ StoreInv /\ AnswerInv /\ [Next]_vars => TermsOK'
<1> SUFFICES ASSUME TermsOK, GpuInv, StoreInv, AnswerInv, [Next]_vars PROVE TermsOK'
    OBVIOUS
<1>0. \A e \in Experts : NoTerm[e] \in Seq(Experts \cup {Noise})
    BY DEF NoTerm
<1>1. ASSUME UNCHANGED <<acc, out>> PROVE TermsOK'
    BY <1>1 DEF TermsOK, Terms
<1>2. CASE Startup \/ Halted \/ UNCHANGED vars
    BY <1>1, <1>2 DEF Startup, Halted, vars, gpuVars, moeVars
<1>3. ASSUME NEW m \in Matrices, Attention(m) PROVE TermsOK'
    BY <1>1, <1>3 DEF Attention, gpuVars, moeVars
<1>4. ASSUME NEW sq \in Selections, Route(sq) PROVE TermsOK'
    <2>1. out' = NoTerm /\ acc' = acc
        BY <1>4 DEF Route, gpuVars
    <2>2. QED
        BY <1>0, <2>1 DEF TermsOK, Terms
<1>5. ASSUME NEW e \in Experts, NEW s \in Slots, Reserve(e, s) PROVE TermsOK'
    BY <1>1, <1>5 DEF Reserve, gpuVars
<1>6. ASSUME NEW s \in Slots, Load(s) PROVE TermsOK'
    BY <1>1, <1>6 DEF Load, gpuVars, moeVars
<1>7. CASE AfterBatch
    <2>1. out' = out /\ (acc' = NoTerm \/ acc' = acc)
        BY <1>7 DEF AfterBatch, AsksDevice, SkipsDevice, CallMoe, gpuVars
    <2>2. QED
        BY <2>1, NoTermTerms DEF TermsOK, Terms
<1>8. CASE Device
    <2>1. out' = out
        BY <1>8 DEF Device, moeVars
    <2>2. QED
        BY <1>8, <2>1, DeviceTerms DEF TermsOK, Terms
<1>9. CASE GpuReturns
    <2>1. out' \in {out, acc} /\ acc' = NoTerm
        BY <1>9 DEF GpuReturns, Returned
    <2>2. QED
        BY <2>1, NoTermTerms DEF TermsOK, Terms
<1>10. ASSUME NEW e \in Experts, Reread(e) PROVE TermsOK'
    BY <1>1, <1>10 DEF Reread, gpuVars
<1>11. CASE Compute
    <2>1. acc' = acc /\ Unread = {}
        BY <1>11 DEF Compute, gpuVars
    <2>2. ASSUME NEW e \in Experts PROVE out'[e] \in Seq(Experts \cup {Noise})
        <3>1. CASE e \in ToSet(sel) /\ eid[held[e]] # NoExpert
            <4>1. held[e] \in Slots
                BY <2>1, <3>1 DEF Unread, AnswerInv, Shapes
            <4>2. out'[e] = Append(out[e], Payload(held[e]))
                BY <1>11, <3>1 DEF Compute
            <4>3. Payload(held[e]) \in Experts \cup {Noise} 
                BY <4>1, PayloadTypes
            <4>4. out[e] \in Seq(Experts \cup {Noise})
                BY DEF TermsOK
            <4>5. QED
                BY <4>2, <4>3, <4>4
        <3>2. CASE ~(e \in ToSet(sel) /\ eid[held[e]] # NoExpert)
            <4>1. out'[e] = out[e]
                BY <1>11, <3>2 DEF Compute
            <4>2. QED
                BY <4>1 DEF TermsOK
        <3>3. QED
            BY <3>1, <3>2
    <2>3. QED
        BY <2>1, <2>2 DEF TermsOK, Terms
<1>12. QED
    BY <1>2, <1>3, <1>4, <1>5, <1>6, <1>7, <1>8, <1>9, <1>10, <1>11 DEF Next

LEMMA TypesGiven ==
    StoreInv /\ AnswerInv /\ GpuInv /\ BackendTypeOK /\ TermsOK => TypeOK
<1> SUFFICES ASSUME StoreInv, AnswerInv, GpuInv, BackendTypeOK, TermsOK PROVE TypeOK
    OBVIOUS
<1>1. GpuTypeOK
    <2>1. lru \in Seq(Experts) /\ vramUsed \in Nat
        BY UsedFacts DEF GpuInv, VramInv, Order
    <2>2. \A e \in Experts :
             \/ vram[e] = None
             \/ vram[e].has \in Experts \cup {Noise} /\ vram[e].bytes \in Nat \ {0}
        BY DEF GpuInv, VramInv, Held
    <2>3. QED
        BY <2>1, <2>2 DEF GpuTypeOK, GpuInv, CallInv
<1>2. StoreTypeOK
    BY DEF StoreInv
<1>3. QED
    BY <1>1, <1>2 DEF TypeOK, AnswerInv, Shapes, OutputLast, TermsOK

(* The variables keep their types, in the store, on the device and in the  *)
(* layer that uses both.                                                   *)
THEOREM OffloadTypes == Spec => []TypeOK
<1>1. Init => StoreInit
    BY DEF Init
<1>2. Init => BackendTypeOK /\ TermsOK
    <2>1. Init => BackendTypeOK
        BY DEF Init, BackendInit, BackendTypeOK
    <2>2. Init => acc = NoTerm /\ out = NoTerm
        BY DEF Init, GpuInit
    <2>3. \A e \in Experts : NoTerm[e] \in Seq(Experts \cup {Noise})
        BY DEF NoTerm
    <2>4. QED
        BY <2>1, <2>2, <2>3, NoTermTerms DEF TermsOK
<1>3. StoreInv => env \in Setups
    BY DEF StoreInv, StoreTypeOK
<1>4. QED
    BY <1>1, <1>2, <1>3, StoreStarts, OffloadKeepsStore, AnswerStarts, AnswerKept,
       GpuStarts, OffloadKeepsGpu, BackendTyped, TermsKept, TypesGiven, PTL DEF Spec

-----------------------------------------------------------------------------
(* The experts of a call stay                                              *)

(* An expert of the call that is appended is the newest, evicting the      *)
(* oldest changes nothing: what was newest stays so.                       *)
LEMMA AppendedNewest ==
    ASSUME NEW q, Order(q), NEW e \in Experts, e \notin Members(q),
           NEW C, e \in C, Newest(q, C)
    PROVE  Newest(q \o <<e>>, C)
<1>1. PICK t : t = q \o <<e>>
    OBVIOUS
<1>2. q \in Seq(Experts) /\ Len(q) \in Nat /\ Len(t) = Len(q) + 1
    BY <1>1, LenProperties, AppendedOrder DEF Order
<1>3. <<e>> \in Seq(Experts) /\ Len(<<e>>) = 1 /\ <<e>>[1] = e
    OBVIOUS
<1>4. \A i \in 1..Len(q) + 1 : t[i] = IF i <= Len(q) THEN q[i] ELSE e
    <2>1. \A i \in 1..Len(q) + Len(<<e>>) :
             (q \o <<e>>)[i] = IF i <= Len(q) THEN q[i] ELSE <<e>>[i - Len(q)]
        BY <1>2, <1>3, ConcatProperties
    <2>2. \A i \in 1..Len(q) + 1 : ~(i <= Len(q)) => i - Len(q) = 1
        BY <1>2
    <2>3. QED
        BY <1>1, <1>3, <2>1, <2>2
<1>5. ASSUME NEW i \in 1..Len(t), NEW j \in 1..Len(t), i <= j, t[i] \in C
      PROVE  t[j] \in C
    <2>1. CASE j <= Len(q)
        <3>1. i \in 1..Len(q) /\ j \in 1..Len(q) /\ t[i] = q[i] /\ t[j] = q[j]
            BY <1>2, <1>4, <1>5, <2>1
        <3>2. QED
            BY <1>5, <3>1 DEF Newest
    <2>2. CASE ~(j <= Len(q))
        BY <1>2, <1>4, <2>2
    <2>3. QED
        BY <2>1, <2>2
<1>6. QED
    BY <1>1, <1>5 DEF Newest

LEMMA EvictedNewest ==
    ASSUME NEW q, Order(q), NEW n \in 0..Len(q), NEW C, Newest(q, C)
    PROVE  Newest(SubSeq(q, n + 1, Len(q)), C)
<1>1. q \in Seq(Experts) /\ Len(q) \in Nat /\ n \in Nat /\ n <= Len(q)
      /\ \A i \in 1..Len(q) : q[i] \in Experts
    BY LenProperties, ElementOfSeq DEF Order
<1>2. PICK r : r = SubSeq(q, n + 1, Len(q))
    OBVIOUS
<1>3. r = [i \in 1..(Len(q) - n) |-> q[i + n]]
    <2>1. r = [i \in 1..(Len(q) - (n + 1) + 1) |-> q[i + (n + 1) - 1]]
        BY <1>1, <1>2
    <2>2. Len(q) - (n + 1) + 1 = Len(q) - n /\ \A i \in Int : i + (n + 1) - 1 = i + n
        BY <1>1
    <2>3. QED
        BY <2>1, <2>2
<1>4. Len(q) - n \in Nat /\ \A i \in 1..(Len(q) - n) : i + n \in 1..Len(q)
    BY <1>1
<1>5. Len(r) = Len(q) - n /\ \A i \in 1..(Len(q) - n) : r[i] = q[i + n]
    BY <1>1, <1>3, <1>4
<1>6. ASSUME NEW i \in 1..Len(r), NEW j \in 1..Len(r), i <= j, r[i] \in C
      PROVE  r[j] \in C
    <2>1. i + n \in 1..Len(q) /\ j + n \in 1..Len(q) /\ i + n <= j + n
          /\ q[i + n] \in C /\ r[j] = q[j + n]
        BY <1>1, <1>4, <1>5, <1>6
    <2>2. QED
        BY <2>1 DEF Newest
<1>7. QED
    BY <1>2, <1>6 DEF Newest

(* A sum does not depend on what its terms are numbered by.                *)
Renames(at, J, w, f) ==
    /\ IsFiniteSet(J) /\ \A i \in J : w[i].bytes \in Nat
    /\ \A i, j \in J : at[i] = at[j] => i = j
    /\ \A i \in J : f[at[i]].bytes = w[i].bytes
LEMMA SumRenamed ==
    ASSUME NEW J, NEW w, NEW at, NEW f, Renames(at, J, w, f)
    PROVE  Sum(f, {at[i] : i \in J}) = Sum(w, J)
<1> DEFINE To(T) == {at[i] : i \in T}
           Same(T) == Sum(f, To(T)) = Sum(w, T)
           Bad == {T \in SUBSET J : ~Same(T)}
<1>1. SUFFICES ASSUME Bad # {} PROVE FALSE
    <2>1. J \in SUBSET J
        OBVIOUS
    <2> HIDE DEF Same
    <2>2. Same(J)
        BY <2>1
    <2>3. QED
        BY <2>2 DEF Same
<1> HIDE DEF Same
<1>2. PICK T \in Bad : \A V \in Bad : V \subseteq T => V = T
    <2>1. \A V \in Bad : IsFiniteSet(V)
        BY FS_Subset DEF Renames
    <2>2. Bad \subseteq SUBSET J
        OBVIOUS
    <2>3. PICK P : P = Bad
        OBVIOUS
    <2> HIDE DEF Bad
    <2>4. P \subseteq SUBSET J /\ P # {} /\ \A V \in P : IsFiniteSet(V)
        BY <1>1, <2>1, <2>2, <2>3
    <2>5. \E V \in P : \A W \in P : W \subseteq V => W = V
        BY <2>4, SmallestSet, SMTT(30)
    <2>6. QED
        BY <2>3, <2>5
<1>3. T \in SUBSET J /\ ~Same(T)
    OBVIOUS
<1>4. \A V \in SUBSET T : V # T => Same(V)
    BY <1>2, <1>3
<1> HIDE DEF Bad
<1>5. T # {}
    <2>1. ASSUME T = {} PROVE FALSE
        <3>1. To(T) = {}
            BY <2>1
        <3>2. IsFiniteSet({}) /\ (\A x \in {} : f[x].bytes \in Nat)
              /\ (\A x \in {} : w[x].bytes \in Nat)
            BY FS_EmptySet
        <3>3. Sum(f, {}) = 0 /\ Sum(w, {}) = 0
            BY <3>2, SumFacts
        <3>4. QED
            BY <1>3, <2>1, <3>1, <3>3 DEF Same
    <2>2. QED
        BY <2>1
<1>6. PICK x \in T : TRUE
    BY <1>5
<1>7. PICK V : V = T \ {x}
    OBVIOUS
<1>8. V \in SUBSET T /\ V # T /\ x \notin V /\ T = V \cup {x} /\ x \in J
    BY <1>3, <1>6, <1>7
<1>9. Sum(f, To(V)) = Sum(w, V)
    BY <1>4, <1>8 DEF Same
<1>10. IsFiniteSet(V) /\ IsFiniteSet(To(V))
    <2>1. IsFiniteSet(V)
        BY <1>3, <1>8, FS_Subset DEF Renames
    <2>2. IsFiniteSet(To(V))
        <3> DEFINE g == [i \in V |-> at[i]]
        <3>1. g \in Surjection(V, To(V))
            BY DEF Surjection
        <3>2. QED
            BY <2>1, <3>1, FS_Surjection
    <2>3. QED
        BY <2>1, <2>2
<1>11. at[x] \notin To(V) /\ To(T) = To(V) \cup {at[x]}
    BY <1>3, <1>8 DEF Renames
<1>12. \A y \in To(V) \cup {at[x]} : f[y].bytes \in Nat
    BY <1>3, <1>8 DEF Renames
<1>13. \A y \in V \cup {x} : w[y].bytes \in Nat
    BY <1>3, <1>8 DEF Renames
<1>14. PICK U : U = To(V)
    OBVIOUS
<1>15. Sum(f, U \cup {at[x]}) = Sum(f, U) + f[at[x]].bytes
    <2>1. IsFiniteSet(U) /\ at[x] \notin U /\ \A y \in U \cup {at[x]} : f[y].bytes \in Nat
        BY <1>10, <1>11, <1>12, <1>14
    <2>2. PICK z : z = at[x]
        OBVIOUS
    <2>3. IsFiniteSet(U) /\ z \notin U /\ \A y \in U \cup {z} : f[y].bytes \in Nat
        BY <2>1, <2>2
    <2>5. Sum(f, U \cup {z}) = Sum(f, U) + f[z].bytes
        BY <2>3, SumAdds
    <2>4. QED
        BY <2>2, <2>5
<1>16. Sum(w, V \cup {x}) = Sum(w, V) + w[x].bytes
    BY <1>8, <1>10, <1>13, SumAdds
<1>17. Sum(f, To(T)) = Sum(w, T)
    <2>1. f[at[x]].bytes = w[x].bytes
        BY <1>8 DEF Renames
    <2>2. QED
        BY <1>8, <1>9, <1>11, <1>14, <1>15, <1>16, <2>1
<1>18. QED
    BY <1>3, <1>17 DEF Same

(* What a call needs is such a sum.                                        *)
LEMMA CallBytesIsSum ==
    ASSUME NEW w, \A i \in 1..Len(ge) : w[i].bytes = CallCost(i)
    PROVE  CallBytes = Sum(w, 1..Len(ge))
<1> DEFINE S == 1..Len(ge)
           Adding(i) == i = [s \in SUBSET S |->
                IF s = {} THEN 0
                ELSE CallCost(CHOOSE x \in s : TRUE) + i[s \ {CHOOSE x \in s : TRUE}]]
<1>1. CallBytes = (CHOOSE i : Adding(i))[S]
    BY DEF CallBytes, MapThenSumSet, MapThenFoldSet
<1>2. \A i : Adding(i) <=> SumsUp(i, w, S)
    <2> SUFFICES ASSUME NEW i PROVE Adding(i) <=> SumsUp(i, w, S)
        OBVIOUS
    <2>1. \A s \in SUBSET S : s # {} =>
             CallCost(CHOOSE x \in s : TRUE) = w[CHOOSE x \in s : TRUE].bytes
        OBVIOUS
    <2> HIDE DEF S
    <2>2. [s \in SUBSET S |->
                IF s = {} THEN 0
                ELSE CallCost(CHOOSE x \in s : TRUE) + i[s \ {CHOOSE x \in s : TRUE}]]
          = [s \in SUBSET S |->
                IF s = {} THEN 0
                ELSE w[CHOOSE x \in s : TRUE].bytes + i[s \ {CHOOSE x \in s : TRUE}]]
        BY <2>1
    <2>3. QED
        BY <2>2 DEF SumsUp
<1> HIDE DEF Adding
<1>3. (CHOOSE i : Adding(i)) = (CHOOSE i : SumsUp(i, w, S))
    BY <1>2
<1>4. QED
    BY <1>1, <1>3, SumUnfolds

(* While the experts of a layer are loaded, none of them is in video       *)
(* memory already.                                                         *)
SkipInv ==
    /\ main # "idle" => boot = "up"
    /\ main = "load" /\ gpuOn =>
          \A e \in Experts : held[e] # None \/ e \in todo => vram[e] = None

(* In a running call every expert is asked for once, those already in      *)
(* video memory are the newest there, and a copy of host weights has their *)
(* size.                                                                   *)
Called == {ge[i].eid : i \in 1..Len(ge)}
RecentInv ==
    main = "gpu" /\ gpc = "loop" =>
        /\ \A i, j \in 1..Len(ge) : ge[i].eid = ge[j].eid => i = j
        /\ Newest(lru, Called)
        /\ \A i \in 1..Len(ge) : ge[i].host # None /\ vram[ge[i].eid] # None =>
              vram[ge[i].eid].bytes = BytesOf(ge[i].host)

(* The evictions of an upload stop as soon as the newcomer fits.           *)
LEMMA EvictionsFewest ==
    ASSUME NEW need, Len(lru) \in Nat, NEW k \in 0..Len(lru), k < Evictions(need)
    PROVE  ~Fits(k, need)
<1>1. PICK S : S = {n \in 0..Len(lru) : n = Len(lru) \/ Fits(n, need)}
    OBVIOUS
<1>2. S \subseteq Nat /\ Len(lru) \in S
    BY <1>1
<1>3. \E m \in S : \A n \in S : m <= n
    BY <1>2, LeastNatural
<1>4. Min(S) \in S /\ \A n \in S : Min(S) <= n
    BY <1>3 DEF Min
<1>5. Evictions(need) = Min(S)
    BY <1>1 DEF Evictions
<1>6. k \notin S
    <2>1. PICK m \in Nat : m = Evictions(need) /\ \A n \in S : m <= n
        BY <1>2, <1>4, <1>5
    <2>2. k < m /\ k \in Nat
        BY <2>1
    <2>3. QED
        BY <2>1, <2>2
<1>7. QED
    BY <1>1, <1>6

LEMMA CallFinite == ASSUME CallInv PROVE IsFiniteSet(1..Len(ge))
<1>1. PICK n \in Nat : n = Len(ge)
    BY DEF CallInv
<1>2. IsFiniteSet(1..n)
    BY FS_Interval
<1>3. QED
    BY <1>1, <1>2

(* What the experts of a call need are numbers of bytes.                   *)
LEMMA CallCostTypes ==
    ASSUME VramInv, CallInv
    PROVE  (\A i \in 1..Len(ge) : CallCost(i) \in Nat) /\ CallBytes \in Nat
<1>1. ASSUME NEW i \in 1..Len(ge) PROVE CallCost(i) \in Nat
    <2>1. ge[i].eid \in Experts /\ HostOK(ge[i].host)
        BY DEF CallInv
    <2>2. ge[i].host # None => BytesOf(ge[i].host) \in Nat
        BY <2>1, HostBytes
    <2>3. vram[ge[i].eid] # None => vram[ge[i].eid].bytes \in Nat
        BY <2>1 DEF VramInv, Held
    <2>4. QED
        BY <2>2, <2>3 DEF CallCost, WeightBytes
<1>2. PICK w : w = [i \in 1..Len(ge) |-> [bytes |-> CallCost(i)]]
    OBVIOUS
<1>3. \A i \in 1..Len(ge) : w[i].bytes = CallCost(i)
    BY <1>2
<1>4. \A i \in 1..Len(ge) : w[i].bytes \in Nat
    BY <1>1, <1>3
<1>5. IsFiniteSet(1..Len(ge))
    BY CallFinite
<1>6. Sum(w, 1..Len(ge)) \in Nat
    BY <1>4, <1>5, SumFacts
<1>7. CallBytes = Sum(w, 1..Len(ge))
    BY <1>3, CallBytesIsSum
<1>8. QED
    BY <1>1, <1>6, <1>7

(* Experts of the call in video memory, with the one to be uploaded, need  *)
(* no more than the call.                                                  *)
LEMMA CallCovers ==
    ASSUME VramInv, CallInv, RecentInv, main = "gpu", gpc = "loop", gk < Len(ge),
           vram[Now.eid] = None, Now.host # None,
           NEW R \in SUBSET Members(lru), R \subseteq Called
    PROVE  Total(R) \in Nat /\ Total(R) + BytesOf(Now.host) <= CallBytes
<1> DEFINE n == Len(ge)
           k == gk + 1
           J == {i \in 1..n : ge[i].eid \in R}
<1>1. n \in Nat /\ k \in 1..n /\ Now = ge[k]
    BY DEF CallInv, Now
<1>2. PICK at : at = [i \in 1..n |-> ge[i].eid]
    OBVIOUS
<1>3. PICK w : w = [i \in 1..n |-> [bytes |-> CallCost(i)]]
    OBVIOUS
<1> HIDE DEF n
<1>4. \A i \in 1..n : w[i].bytes = CallCost(i)
    BY <1>3
<1>5. \A i \in 1..n : CallCost(i) \in Nat
    BY CallCostTypes DEF n
<1>6. \A i \in 1..n : w[i].bytes \in Nat
    BY <1>4, <1>5
<1>7. IsFiniteSet(1..n)
    BY CallFinite DEF n
<1>8. J \in SUBSET (1..n) /\ k \notin J
    BY <1>1 DEF VramInv, Held
<1>9. IsFiniteSet(J)
    BY <1>7, <1>8, FS_Subset
<1>10. R = {at[i] : i \in J}
    <2>1. \A x \in R : \E i \in 1..n : ge[i].eid = x
        BY DEF Called, n
    <2>2. \A i \in 1..n : at[i] = ge[i].eid
        BY <1>2
    <2>3. QED
        BY <2>1, <2>2
<1>11. \A i, j \in J : at[i] = at[j] => i = j
    BY <1>2 DEF RecentInv, n
<1>12. \A i \in J : vram[at[i]].bytes = w[i].bytes
    <2> SUFFICES ASSUME NEW i \in J PROVE vram[at[i]].bytes = w[i].bytes
        OBVIOUS
    <2>1. at[i] = ge[i].eid /\ vram[ge[i].eid] # None
        BY <1>2 DEF VramInv, Held
    <2>2. ge[i].host # None => vram[ge[i].eid].bytes = BytesOf(ge[i].host)
        BY <2>1 DEF RecentInv, n
    <2>3. QED
        BY <1>4, <2>1, <2>2 DEF CallCost
<1>13. CallBytes = Sum(w, 1..n)
    BY <1>4, CallBytesIsSum DEF n
<1> HIDE DEF J
<1>14. \A i \in J : w[i].bytes \in Nat
    BY <1>6, <1>8
<1>15. Sum(vram, {at[i] : i \in J}) = Sum(w, J)
    BY <1>9, <1>11, <1>12, <1>14, SumRenamed DEF Renames
<1>16. Total(R) = Sum(w, J)
    BY <1>10, <1>15, TotalIsSum
<1>17. CallCost(k) = BytesOf(Now.host)
    BY <1>1 DEF CallCost
<1>18. PICK K : K = J \cup {k}
    OBVIOUS
<1>19. Sum(w, K) = Sum(w, J) + w[k].bytes
    <2>1. \A i \in J \cup {k} : w[i].bytes \in Nat
        BY <1>1, <1>6, <1>8
    <2>2. QED
        BY <1>8, <1>9, <1>18, <2>1, SumAdds
<1>20. K \in SUBSET (1..n)
    BY <1>1, <1>8, <1>18
<1>21. /\ Sum(w, K) \in Nat /\ Sum(w, (1..n) \ K) \in Nat
       /\ Sum(w, 1..n) = Sum(w, K) + Sum(w, (1..n) \ K)
    BY <1>6, <1>7, <1>20, SumFacts
<1>22. Sum(w, J) \in Nat
    BY <1>6, <1>7, <1>8, SumFacts
<1>23. w[k].bytes = BytesOf(Now.host) /\ w[k].bytes \in Nat
    BY <1>1, <1>4, <1>6, <1>17
<1>24. QED
    BY <1>13, <1>16, <1>19, <1>21, <1>22, <1>23

(* An upload evicts no expert of its call, unless they do not fit.         *)
LEMMA UploadSpares ==
    ASSUME VramInv, CallInv, RecentInv, main = "gpu", Upload, UNCHANGED env,
           NEW i \in 1..Len(ge), vram[ge[i].eid] # None, vram'[ge[i].eid] = None
    PROVE  CallBytes > env.budget
<1> DEFINE need == BytesOf(Now.host)
           x == ge[i].eid
           n == Evictions(need)
           gone == {lru[j] : j \in 1..n}
           kept == [e \in Experts |-> IF e \in gone THEN None ELSE vram[e]]
           copy == [has |-> Now.host.has, bytes |-> need]
<1>1. /\ gpc = "loop" /\ gk < Len(ge) /\ vram[Now.eid] = None /\ Now.host # None
      /\ vram' = kept \/ vram' = [kept EXCEPT ![Now.eid] = copy]
    BY DEF Upload
<1>2. /\ x \in Experts /\ x \in Called /\ x # Now.eid
      /\ HostOK(Now.host)
    <2>1. gk + 1 \in 1..Len(ge)
        BY <1>1 DEF CallInv
    <2>2. QED
        BY <1>1, <2>1 DEF CallInv, Called, Now
<1>3. need \in Nat
    BY <1>1, <1>2, HostBytes
<1>4. Order(lru) /\ Members(lru) = Held /\ Len(lru) \in Nat
    BY OrderMembers DEF VramInv
<1>5. n \in 0..Len(lru)
    BY <1>4, EvictionsEnd
<1>6. x \in gone
    BY <1>1, <1>2
<1>7. PICK p \in 1..n : x = lru[p]
    BY <1>6
<1> HIDE DEF n, kept, copy
<1>8. n - 1 \in 0..Len(lru) /\ n - 1 < n /\ p \in 1..Len(lru) /\ n \in Nat
    BY <1>4, <1>5, <1>7
<1>9. ~Fits(n - 1, need)
    BY <1>4, <1>8, EvictionsFewest DEF n
<1>10. PICK before : before = {lru[j] : j \in 1..(n - 1)}
    OBVIOUS
<1>11. PICK R : R = Members(lru) \ before
    OBVIOUS
<1>12. before \in SUBSET Members(lru) /\ R \in SUBSET Members(lru)
    <2>1. \A j \in 1..(n - 1) : j \in 1..Len(lru)
        BY <1>4, <1>8
    <2>2. QED
        BY <1>10, <1>11, <2>1 DEF Members
<1>13. R \subseteq Called
    <2> SUFFICES ASSUME NEW y \in R PROVE y \in Called
        OBVIOUS
    <2>1. PICK j \in 1..Len(lru) : y = lru[j] /\ j \notin 1..(n - 1)
        BY <1>10, <1>11 DEF Members
    <2>2. p <= j
        BY <1>4, <1>7, <1>8, <2>1
    <2>3. Newest(lru, Called)
        BY <1>1 DEF RecentInv
    <2>4. QED
        BY <1>2, <1>7, <1>8, <2>1, <2>2, <2>3 DEF Newest
<1>14. /\ Total(before) \in Nat /\ Total(R) \in Nat
       /\ vramUsed = Total(before) + Total(R)
    BY <1>11, <1>12, UsedFacts
<1>15. ~(vramUsed - Total(before) + need <= env.budget)
    BY <1>9, <1>10, Zenon DEF Fits, RoomAfter
<1>16. Total(R) + need <= CallBytes
    BY <1>1, <1>12, <1>13, CallCovers
<1>17. env.budget \in Nat
    BY UsedFacts
<1>18. CallBytes \in Nat
    BY CallCostTypes
<1>19. QED
    <2>1. PICK a \in Nat, b \in Nat : a = Total(before) /\ b = Total(R)
        BY <1>14
    <2>2. vramUsed = a + b /\ ~(vramUsed - a + need <= env.budget) /\ b + need <= CallBytes
        BY <1>14, <1>15, <1>16, <2>1
    <2> HIDE DEF need
    <2>3. QED
        BY <1>3, <1>17, <1>18, <2>1, <2>2

LEMMA SkipKept == SkipInv /\ [Next]_vars => SkipInv'
<1> SUFFICES ASSUME SkipInv, [Next]_vars PROVE SkipInv'
    OBVIOUS
<1>1. ASSUME UNCHANGED <<boot, gpuOn, vram, main, held, todo>> PROVE SkipInv'
    BY <1>1 DEF SkipInv
<1>2. ASSUME boot' = boot, main' = main \/ main # "idle", main' # "load" PROVE SkipInv'
    BY <1>2 DEF SkipInv
<1>3. CASE Startup
    <2>1. boot # "up"
        BY <1>3 DEF Startup, StartupStep, ChooseBackend, UploadRouters, DenseUploaded,
                    EnableNative, LoadLibrary, UploadDense, StartupChecked
    <2>2. main = "idle" /\ main' = main
        BY <1>3, <2>1 DEF Startup, SkipInv, moeVars
    <2>3. QED
        BY <2>2 DEF SkipInv
<1>4. ASSUME NEW m \in Matrices, Attention(m) PROVE SkipInv'
    BY <1>1, <1>4 DEF Attention, Project, gpuVars, moeVars
<1>5. ASSUME NEW sq \in Selections, Route(sq) PROVE SkipInv'
    <2>1. PICK need :
            /\ need \subseteq Experts /\ held' = Hits(need)
            /\ todo' = {e \in need : Cached(e) = {}}
            /\ gpuOn => \A e \in need : vram[e] = None
        <3> DEFINE needed ==
                IF gpuOn THEN {e \in ToSet(sq) : vram[e] = None} ELSE ToSet(sq)
        <3>1. ToSet(sq) \subseteq Experts
            BY SelectionShape
        <3>2. needed \subseteq Experts /\ (gpuOn => \A e \in needed : vram[e] = None)
            BY <3>1
        <3>3. held' = Hits(needed) /\ todo' = {e \in needed : Cached(e) = {}}
            BY <1>5 DEF Route
        <3> HIDE DEF needed
        <3>4. QED
            BY <3>2, <3>3
    <2>2. boot = "up" /\ UNCHANGED <<boot, gpuOn, vram>>
        BY <1>5 DEF Route, gpuVars, backendVars
    <2>3. \A e \in Experts : held'[e] # None => e \in need
        BY <2>1, HitsOwn
    <2>4. QED
        BY <2>1, <2>2, <2>3 DEF SkipInv
<1>6. ASSUME NEW e \in Experts, NEW s \in Slots, Reserve(e, s) PROVE SkipInv'
    <2>1. /\ UNCHANGED <<boot, gpuOn, vram, main>> /\ e \in todo
          /\ todo' = todo \ {e} /\ held' = [held EXCEPT ![e] = s]
        BY <1>6 DEF Reserve, gpuVars, backendVars
    <2>2. \A x \in Experts : x # e => held'[x] = held[x] \/ held'[x] = None
        BY <2>1
    <2>3. ASSUME main = "load", gpuOn, NEW x \in Experts, held'[x] # None \/ x \in todo'
          PROVE  vram[x] = None
        <3>1. CASE x = e
            BY <2>1, <2>3, <3>1 DEF SkipInv
        <3>2. CASE x # e
            <4>1. held[x] # None \/ x \in todo
                BY <2>1, <2>3, <3>2
            <4>2. QED
                BY <2>3, <4>1 DEF SkipInv
        <3>3. QED
            BY <3>1, <3>2
    <2>4. QED
        BY <2>1, <2>3 DEF SkipInv
<1>7. ASSUME NEW s \in Slots, Load(s) PROVE SkipInv'
    BY <1>1, <1>7 DEF Load, gpuVars, backendVars, moeVars
<1>8. CASE AfterBatch
    BY <1>2, <1>8 DEF AfterBatch, AsksDevice, SkipsDevice, backendVars
<1>9. CASE Device
    BY <1>2, <1>9 DEF Device, backendVars, moeVars
<1>10. CASE GpuReturns \/ Compute
    BY <1>2, <1>10 DEF GpuReturns, Compute, backendVars
<1>11. ASSUME NEW e \in Experts, Reread(e) PROVE SkipInv'
    BY <1>2, <1>11 DEF Reread, backendVars
<1>12. CASE Halted \/ UNCHANGED vars
    BY <1>1, <1>12 DEF Halted, vars, gpuVars, backendVars, moeVars
<1>13. QED
    BY <1>3, <1>4, <1>5, <1>6, <1>7, <1>8, <1>9, <1>10, <1>11, <1>12 DEF Next

(* The stamps of a call make its residents the newest.                     *)
LEMMA AfterBatchRecent ==
    ASSUME GpuInv, StoreInv, AnswerInv, SkipInv, AfterBatch
    PROVE  RecentInv'
<1> DEFINE calls == [i \in 1..Topk |-> [eid |-> sel[i], host |-> HostOf(sel[i])]]
<1>1. SUFFICES ASSUME main' = "gpu", gpc' = "loop" PROVE RecentInv'
    BY DEF RecentInv
<1>2. CallMoe(calls) /\ main = "load" /\ gpuOn
    BY <1>1 DEF AfterBatch, AsksDevice, SkipsDevice
<1>3. sel \in Selections /\ Topk \in Nat
    BY <1>2, PoolAssumption DEF AnswerInv, Shapes
<1>4. (\A i \in 1..Topk : sel[i] \in Experts)
      /\ \A i, j \in 1..Topk : sel[i] = sel[j] => i = j
    BY <1>3, SelectionShape DEF Selections
<1>5. Len(calls) = Topk
    <2>1. calls \in Seq({calls[i] : i \in 1..Topk})
        BY <1>3
    <2>2. DOMAIN calls = 1..Topk
        OBVIOUS
    <2>3. QED
        BY <1>3, <2>1, <2>2
<1>6. \A i \in 1..Topk : calls[i].eid = sel[i] /\ calls[i].host = HostOf(sel[i])
    OBVIOUS
<1>7. PICK c : c = calls
    OBVIOUS
<1> HIDE DEF calls
<1>8. /\ Len(c) = Topk
      /\ \A i \in 1..Topk : c[i].eid = sel[i] /\ c[i].host = HostOf(sel[i])
    BY <1>5, <1>6, <1>7
<1>9. ge' = c /\ lru' = Stamped(c) /\ vram' = vram
    BY <1>1, <1>2, <1>7 DEF CallMoe
<1>10. Order(lru) /\ Members(lru) = {e \in Experts : vram[e] # None}
    BY DEF GpuInv, VramInv, Held
<1>11. Newest(Stamped(c), {c[i].eid : i \in 1..Len(c)})
    <2>1. Len(c) \in Nat /\ \A i \in 1..Len(c) : c[i].eid \in Experts
        BY <1>3, <1>4, <1>8
    <2>2. QED
        BY <1>10, <2>1, StampedOrder
<1>12. Newest(lru, Called)'
    BY <1>9, <1>11 DEF Newest, Called
<1>13. \A i, j \in 1..Len(ge') : ge'[i].eid = ge'[j].eid => i = j
    BY <1>4, <1>8, <1>9
<1>14. ASSUME NEW i \in 1..Len(ge'), ge'[i].host # None PROVE vram'[ge'[i].eid] = None
    <2>1. i \in 1..Topk /\ HostOf(sel[i]) # None /\ ge'[i].eid = sel[i]
        BY <1>8, <1>9, <1>14
    <2>2. held[sel[i]] # None
        BY <2>1 DEF HostOf
    <2>3. QED
        BY <1>2, <1>4, <1>9, <2>1, <2>2 DEF SkipInv
<1>15. QED
    BY <1>12, <1>13, <1>14 DEF RecentInv

LEMMA HitRecent ==
    ASSUME VramInv, CallInv, RecentInv, main = "gpu", Hit, UNCHANGED main
    PROVE  RecentInv'
<1>1. /\ gpc = "loop" /\ gk < Len(ge) /\ vram[Now.eid] # None
      /\ lru' = Touched(lru, Now.eid) /\ UNCHANGED <<vram, ge, gpc>>
    BY DEF Hit
<1>2. gk + 1 \in 1..Len(ge) /\ Now = ge[gk + 1]
    BY <1>1 DEF CallInv, Now
<1>3. Now.eid \in Experts /\ Now.eid \in Called
    BY <1>2 DEF CallInv, Called
<1>4. PICK e : e = Now.eid
    OBVIOUS
<1>5. e \in Members(lru) /\ Order(lru) /\ Newest(lru, Called) /\ Called \cup {e} = Called
    BY <1>1, <1>3, <1>4 DEF VramInv, Held, RecentInv
<1>6. Newest(Touched(lru, e), Called \cup {e})
    BY <1>5, TouchedNewest
<1>7. Newest(lru', Called')
    BY <1>1, <1>4, <1>5, <1>6 DEF Called
<1>8. QED
    BY <1>1, <1>7 DEF RecentInv, Newest

LEMMA UploadRecent ==
    ASSUME VramInv, CallInv, RecentInv, main = "gpu", Upload, UNCHANGED main
    PROVE  RecentInv'
<1> DEFINE e == Now.eid
           need == BytesOf(Now.host)
           n == Evictions(need)
           gone == {lru[i] : i \in 1..n}
           kept == [x \in Experts |-> IF x \in gone THEN None ELSE vram[x]]
           rest == SubSeq(lru, n + 1, Len(lru))
           copy == [has |-> Now.host.has, bytes |-> need]
<1>1. SUFFICES ASSUME gpc' = "loop" PROVE RecentInv'
    BY DEF RecentInv
<1>2. /\ gpc = "loop" /\ gk < Len(ge) /\ vram[e] = None /\ Now.host # None /\ ge' = ge
      /\ vram' = [kept EXCEPT ![e] = copy] /\ lru' = rest \o <<e>>
    BY <1>1 DEF Upload
<1>3. gk + 1 \in 1..Len(ge) /\ Now = ge[gk + 1]
    BY <1>2 DEF CallInv, Now
<1>4. e \in Experts /\ e \in Called
    BY <1>3 DEF CallInv, Called
<1>5. Order(lru) /\ Members(lru) = Held /\ Len(lru) \in Nat
    BY OrderMembers DEF VramInv
<1>6. n \in 0..Len(lru)
    BY <1>5, EvictionsEnd
<1>7. Newest(lru, Called)
    BY <1>2 DEF RecentInv
<1>8. copy.bytes = need
    OBVIOUS
<1>9. \A x \in Experts : vram'[x] = IF x = e THEN copy ELSE kept[x]
    BY <1>2
<1>10. \A x \in Experts : kept[x] = None \/ kept[x] = vram[x]
    OBVIOUS
<1> HIDE DEF n, kept, copy
<1>11. /\ Order(rest) /\ Members(rest) \subseteq Members(lru)
       /\ Newest(rest, Called)
    BY <1>5, <1>6, <1>7, EvictedOrder, EvictedNewest
<1> HIDE DEF rest
<1>12. e \notin Members(rest)
    BY <1>2, <1>5, <1>11 DEF Held
<1>13. Newest(rest \o <<e>>, Called)
    BY <1>4, <1>11, <1>12, AppendedNewest
<1>14. Newest(lru, Called)'
    <2>1. PICK q : q = rest \o <<e>>
        OBVIOUS
    <2>2. lru' = q /\ ge' = ge /\ Newest(q, Called)
        BY <1>2, <1>13, <2>1
    <2>3. Called' = Called
        BY <2>2 DEF Called
    <2>4. QED
        BY <2>2, <2>3 DEF Newest
<1>15. \A i, j \in 1..Len(ge) : ge[i].eid = ge[j].eid => i = j
    BY <1>2 DEF RecentInv
<1>16. ASSUME NEW i \in 1..Len(ge), ge[i].host # None, vram'[ge[i].eid] # None
       PROVE  vram'[ge[i].eid].bytes = BytesOf(ge[i].host)
    <2>1. ge[i].eid \in Experts
        BY DEF CallInv
    <2>2. CASE i = gk + 1
        BY <1>3, <1>8, <1>9, <2>1, <2>2
    <2>3. CASE i # gk + 1
        <3>1. ge[i].eid # e
            BY <1>3, <1>15, <2>3
        <3>2. vram'[ge[i].eid] = vram[ge[i].eid]
            BY <1>9, <1>10, <1>16, <2>1, <3>1
        <3>3. QED
            BY <1>2, <1>16, <3>2 DEF RecentInv
    <2>4. QED
        BY <2>2, <2>3
<1>17. \A i \in 1..Len(ge) : BytesOf(ge[i].host)' = BytesOf(ge[i].host)
    BY <1>2 DEF BytesOf
<1>18. QED
    BY <1>2, <1>14, <1>15, <1>16, <1>17 DEF RecentInv

LEMMA RecentKept ==
    GpuInv /\ StoreInv /\ AnswerInv /\ SkipInv /\ RecentInv /\ [Next]_vars => RecentInv'
<1> SUFFICES ASSUME GpuInv, StoreInv, AnswerInv, SkipInv, RecentInv, [Next]_vars
             PROVE  RecentInv'
    OBVIOUS
<1>1. ASSUME main' # "gpu" PROVE RecentInv'
    BY <1>1 DEF RecentInv
<1>2. ASSUME UNCHANGED <<gpuVars, main>> PROVE RecentInv'
    BY <1>2 DEF RecentInv, Newest, Called, gpuVars, BytesOf
<1>3. CASE Startup \/ Halted \/ UNCHANGED vars
    BY <1>2, <1>3 DEF Startup, Halted, vars, moeVars
<1>4. ASSUME NEW m \in Matrices, Attention(m) PROVE RecentInv'
    BY <1>2, <1>4 DEF Attention, moeVars
<1>5. ASSUME NEW sq \in Selections, Route(sq) PROVE RecentInv'
    BY <1>1, <1>5 DEF Route
<1>6. ASSUME NEW e \in Experts, NEW s \in Slots, Reserve(e, s) PROVE RecentInv'
    BY <1>1, <1>6 DEF Reserve
<1>7. ASSUME NEW s \in Slots, Load(s) PROVE RecentInv'
    BY <1>2, <1>7 DEF Load, moeVars
<1>8. CASE AfterBatch
    BY <1>8, AfterBatchRecent
<1>9. CASE Device
    <2>1. main = "gpu" /\ UNCHANGED main /\ GpuStep
        BY <1>9 DEF Device, moeVars
    <2>2. CASE Hit
        BY <2>1, <2>2, HitRecent DEF GpuInv
    <2>3. CASE Upload
        BY <2>1, <2>3, UploadRecent DEF GpuInv
    <2>4. CASE Absent \/ CopyOut
        BY <2>4 DEF Absent, CopyOut, RecentInv
    <2>5. QED
        BY <2>1, <2>2, <2>3, <2>4 DEF GpuStep
<1>10. CASE GpuReturns \/ Compute
    BY <1>1, <1>10 DEF GpuReturns, Compute
<1>11. ASSUME NEW e \in Experts, Reread(e) PROVE RecentInv'
    BY <1>1, <1>11 DEF Reread
<1>12. QED
    BY <1>3, <1>4, <1>5, <1>6, <1>7, <1>8, <1>9, <1>10, <1>11 DEF Next

Spares ==
    \A i \in 1..Len(ge) :
        vram[ge[i].eid] # None /\ vram'[ge[i].eid] = None => CallBytes > env.budget

LEMMA StepsSpare ==
    GpuInv /\ RecentInv /\ [Next]_vars => [Spares]_<<vram, lru, vramUsed, ge, gpc, gk, acc>>
<1> SUFFICES ASSUME GpuInv, RecentInv, [Next]_vars,
                    ~UNCHANGED <<vram, lru, vramUsed, ge, gpc, gk, acc>>
             PROVE  Spares
    OBVIOUS
<1>1. ASSUME vram' = vram PROVE Spares
    BY <1>1 DEF Spares
<1>2. CASE Startup \/ Halted \/ UNCHANGED vars \/ Compute
    BY <1>1, <1>2 DEF Startup, Halted, vars, gpuVars, Compute
<1>3. ASSUME NEW m \in Matrices, Attention(m) PROVE Spares
    BY <1>1, <1>3 DEF Attention, gpuVars
<1>4. ASSUME NEW sq \in Selections, Route(sq) PROVE Spares
    BY <1>1, <1>4 DEF Route, gpuVars
<1>5. ASSUME NEW e \in Experts, NEW s \in Slots, Reserve(e, s) PROVE Spares
    BY <1>1, <1>5 DEF Reserve, gpuVars
<1>6. ASSUME NEW s \in Slots, Load(s) PROVE Spares
    BY <1>1, <1>6 DEF Load, gpuVars
<1>7. CASE AfterBatch
    BY <1>1, <1>7 DEF AfterBatch, AsksDevice, SkipsDevice, CallMoe, gpuVars
<1>8. CASE Device
    <2>1. main = "gpu" /\ UNCHANGED env /\ GpuStep
        BY <1>8 DEF Device
    <2>2. CASE Upload
        BY <2>1, <2>2, UploadSpares DEF GpuInv, Spares
    <2>3. CASE Hit \/ Absent \/ CopyOut
        BY <1>1, <2>3 DEF Hit, Absent, CopyOut
    <2>4. QED
        BY <2>1, <2>2, <2>3 DEF GpuStep
<1>9. CASE GpuReturns
    BY <1>1, <1>9 DEF GpuReturns, Returned
<1>10. ASSUME NEW e \in Experts, Reread(e) PROVE Spares
    BY <1>1, <1>10 DEF Reread, gpuVars
<1>11. QED
    BY <1>2, <1>3, <1>4, <1>5, <1>6, <1>7, <1>8, <1>9, <1>10 DEF Next

(* An upload of a call evicts no expert of the same call, unless what the  *)
(* call needs does not fit into the budget.                                *)
THEOREM OffloadSparesCall == Spec => ResidentsKept
<1>1. Init => StoreInit
    BY DEF Init
<1>2. Init => SkipInv /\ RecentInv
    BY DEF Init, GpuInit, SkipInv, RecentInv
<1>3. QED
    BY <1>1, <1>2, StoreStarts, OffloadKeepsStore, AnswerStarts, AnswerKept,
       GpuStarts, OffloadKeepsGpu, SkipKept, RecentKept, StepsSpare, PTL
       DEF Spec, ResidentsKept, Spares

=============================================================================
