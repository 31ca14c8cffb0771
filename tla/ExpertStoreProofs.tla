------------------------- MODULE ExpertStoreProofs -------------------------
(***************************************************************************)
(* Theorems about ExpertStore, for all experts, slots, files and settings. *)
(***************************************************************************)
EXTENDS ExpertStore, FiniteSetTheorems, TLAPS

-----------------------------------------------------------------------------
(* The inductive invariant: what a slot holds at each stage of a load.     *)

(* The fields the load in progress has assigned; all of them afterwards.   *)
Assigned(s) ==
    IF lpc[s] \in {"flat", "reuse", "gu"} THEN {}
    ELSE IF lpc[s] = "gus" THEN {"gu"}
    ELSE IF lpc[s] = "gub" THEN Weights \ {"d", "ds"}
    ELSE IF lpc[s] = "d" THEN {"gu", "gus", "gub"}
    ELSE IF lpc[s] = "ds" THEN {"gu", "gus", "gub", "d"}
    ELSE IF lpc[s] = "db" THEN Weights \cup {"gub"}
    ELSE IF eid[s] = NoExpert THEN {} ELSE Fields

(* A block of the slot's own: the expert's, or what an expert without a    *)
(* down projection left there.                                             *)
Owned(s, f) ==
    buf[s][f] # None =>
        /\ buf[s][f].at = "own"
        /\ IF f \in Assigned(s) THEN buf[s][f].of = eid[s]
                                ELSE Of(buf[s][f].of).tensors = "nodown"

(* Without a slab every buffer is a block, and the payloads assigned so    *)
(* far are whole.                                                          *)
Separate(s) ==
    /\ \A f \in Fields : Owned(s, f)
    /\ \A f \in {"gu", "d"} \cap Assigned(s) :
          /\ buf[s][f] # None
          /\ Of(eid[s]).tensors # "float" => buf[s][f].has = eid[s]

(* A slab kept for the next expert has no pointers into it; in use, it     *)
(* holds the expert's weights.                                             *)
Kept(s) ==
    /\ lpc[s] \in {"flat", "reuse"} /\ slab[s] = "reusable"
    /\ buf[s] = Empty /\ Of(eid[s]).flat = "none"
Served(s) ==
    /\ lpc[s] \in {"gub", "db", "idle"} /\ eid[s] # NoExpert
    /\ \A f \in Weights : /\ buf[s][f] # None /\ buf[s][f].at = "slab"
                          /\ Trusted(eid[s]) => buf[s][f].has = eid[s]
    /\ \A f \in Biases : Owned(s, f)

SlotOK(s) ==
    /\ lpc[s] # "idle" => eid[s] # NoExpert
    /\ IF slab[s] = "none" THEN Separate(s) ELSE Kept(s) \/ Served(s)

StoreInv ==
    /\ StoreTypeOK
    /\ \A s \in Slots : SlotOK(s)
    /\ \A e \in lost : Of(e).tensors = "nodown"

USE DEF Weights, Biases, Fields, Of, Trusted, Empty

LEMMA StoreStarts == StoreInit => StoreInv
<1> SUFFICES ASSUME StoreInit PROVE StoreInv
    OBVIOUS
<1>1. StoreTypeOK
    BY DEF StoreInit, StoreTypeOK, Files
<1>2. ASSUME NEW s \in Slots PROVE SlotOK(s)
    BY DEF StoreInit, SlotOK, Separate, Owned, Assigned
<1>3. QED
    BY <1>1, <1>2 DEF StoreInit, StoreInv

(* A step touches one slot; what it forgets must be an expert without a    *)
(* down projection.                                                        *)
LEMMA OneSlotChanges ==
    ASSUME StoreInv, NEW s \in Slots, env' = env,
           StoreTypeOK', SlotOK(s)',
           \A t \in Slots \ {s} : /\ eid'[t] = eid[t] /\ buf'[t] = buf[t]
                                  /\ slab'[t] = slab[t] /\ lpc'[t] = lpc[t],
           \A e \in lost' : e \in lost \/ Of(e).tensors = "nodown"
    PROVE  StoreInv'
<1>1. ASSUME NEW t \in Slots \ {s} PROVE SlotOK(t)'
    <2>1. SlotOK(t)
        BY DEF StoreInv
    <2>2. /\ eid'[t] = eid[t] /\ buf'[t] = buf[t]
          /\ slab'[t] = slab[t] /\ lpc'[t] = lpc[t]
        OBVIOUS
    <2>3. Assigned(t)' = Assigned(t)
        BY <2>2 DEF Assigned
    <2>4. \A f \in Fields : Owned(t, f)' = Owned(t, f)
        BY <2>2, <2>3 DEF Owned
    <2>5. Separate(t)' = Separate(t)
        BY <2>2, <2>3, <2>4 DEF Separate
    <2>6. Kept(t)' = Kept(t)
        BY <2>2 DEF Kept
    <2>7. Served(t)' = Served(t)
        BY <2>2, <2>4 DEF Served
    <2>8. QED
        BY <2>1, <2>2, <2>5, <2>6, <2>7 DEF SlotOK
<1>2. \A e \in lost' : Of(e)'.tensors = "nodown"
    BY DEF StoreInv
<1>3. QED
    BY <1>1, <1>2 DEF StoreInv

(* The memory of a slot is not touched at all.                             *)
LEMMA NoSlotChanges ==
    ASSUME StoreInv, UNCHANGED <<env, eid, buf, slab, lpc, lost>>, StoreTypeOK'
    PROVE  StoreInv'
<1>1. ASSUME NEW t \in Slots PROVE SlotOK(t)'
    <2>1. SlotOK(t)
        BY DEF StoreInv
    <2>2. QED
        BY <2>1, SMTT(30) DEF SlotOK, Separate, Kept, Served, Owned, Assigned, Of, Trusted
<1>2. QED
    BY <1>1 DEF StoreInv

(* The experts of the blocks a slot owns and has not assigned.             *)
LEMMA LeftOver ==
    ASSUME StoreInv, NEW s \in Slots, NEW fields \in SUBSET Fields,
           fields \cap Assigned(s) = {},
           slab[s] = "none" \/ fields \subseteq Biases \/ buf[s] = Empty
    PROVE  \A e \in Forgotten(buf[s], fields) : Of(e).tensors = "nodown"
<1>1. SlotOK(s)
    BY DEF StoreInv
<1>2. SUFFICES ASSUME NEW f \in fields, buf[s][f] # None, buf[s][f].at = "own"
               PROVE  Of(buf[s][f].of).tensors = "nodown"
    BY DEF Forgotten
<1>3. f \in Fields /\ f \notin Assigned(s)
    OBVIOUS
<1>4. Owned(s, f) => Of(buf[s][f].of).tensors = "nodown"
    BY <1>2, <1>3 DEF Owned
<1>5. CASE slab[s] = "none"
    BY <1>1, <1>3, <1>4, <1>5 DEF SlotOK, Separate
<1>6. CASE buf[s] = Empty
    BY <1>2, <1>3, <1>6
<1>7. CASE slab[s] # "none" /\ fields \subseteq Biases
    BY <1>1, <1>2, <1>3, <1>4, <1>7 DEF SlotOK, Kept, Served
<1>8. QED
    BY <1>5, <1>6, <1>7

-----------------------------------------------------------------------------
(* Every step keeps the invariant                                          *)

LEMMA BeginKeeps ==
    ASSUME StoreInv, NEW s \in Slots, NEW e \in Experts, Begin(s, e)
    PROVE  StoreInv'
<1> DEFINE kept == IF eid[s] = NoExpert \/ KeepsSlab(s) THEN slab[s] ELSE "none"
           frees == kept = "reusable" /\ Of(e).flat # "none"
<1>1. /\ lpc[s] = "idle"
      /\ slab' = [slab EXCEPT ![s] = IF frees THEN "none" ELSE kept]
      /\ buf' = [buf EXCEPT ![s] = IF eid[s] = NoExpert /\ ~frees THEN @ ELSE Empty]
      /\ lost' = lost \cup RecycledLoss(s)
      /\ eid' = [eid EXCEPT ![s] = e] /\ lpc' = [lpc EXCEPT ![s] = "flat"]
      /\ UNCHANGED <<env, opening, direct, opened, halted>>
    BY DEF Begin
<1>2. StoreTypeOK /\ SlotOK(s)
    BY DEF StoreInv
<1> HIDE DEF kept, frees
<1>3. kept \in {"none", "plain", "reusable"}
    BY <1>2 DEF kept, StoreTypeOK
<1>4. RecycledLoss(s) = {}
    <2>1. CASE eid[s] = NoExpert
        BY <2>1 DEF RecycledLoss
    <2>2. CASE eid[s] # NoExpert /\ slab[s] = "none"
        BY <2>2 DEF RecycledLoss, KeepsSlab, FreedLoss
    <2>3. CASE eid[s] # NoExpert /\ slab[s] # "none"
        <3>1. \A f \in Weights : buf[s][f].at = "slab"
            BY <1>1, <1>2, <2>3 DEF SlotOK, Kept, Served
        <3>2. Forgotten(buf[s], Weights) = {}
            BY <3>1 DEF Forgotten
        <3>3. QED
            BY <3>2 DEF RecycledLoss, FreedLoss
    <2>4. QED
        BY <2>1, <2>2, <2>3
<1>5. StoreTypeOK'
    BY <1>1, <1>2, <1>3, <1>4 DEF StoreTypeOK, Stages
<1>6. /\ eid'[s] = e /\ lpc'[s] = "flat"
      /\ slab'[s] = (IF frees THEN "none" ELSE kept)
      /\ buf'[s] = (IF eid[s] = NoExpert /\ ~frees THEN buf[s] ELSE Empty)
    BY <1>1, <1>2 DEF StoreTypeOK
<1>7. e # NoExpert
    BY NamesAssumption
<1>8. Assigned(s)' = {}
    BY <1>6 DEF Assigned
<1>9. SlotOK(s)'
    <2>1. CASE eid[s] = NoExpert /\ ~frees
        <3>1. slab[s] = "none" /\ Separate(s) /\ Assigned(s) = {}
            BY <1>1, <1>2, <2>1 DEF SlotOK, Kept, Served, Assigned
        <3>2. slab'[s] = "none" /\ buf'[s] = buf[s]
            BY <1>6, <2>1, <3>1 DEF kept
        <3>3. Separate(s)'
            BY <1>1, <1>8, <3>1, <3>2 DEF Separate, Owned
        <3>4. QED
            BY <1>6, <1>7, <3>2, <3>3 DEF SlotOK
    <2>2. CASE eid[s] # NoExpert \/ frees
        <3>1. buf'[s] = Empty
            BY <1>6, <2>2
        <3>2. Separate(s)'
            BY <1>8, <3>1 DEF Separate, Owned
        <3>3. slab'[s] # "none" => Kept(s)'
            <4>1. slab'[s] # "none" => ~frees /\ kept = "reusable"
                BY <1>6, <2>2 DEF kept, KeepsSlab
            <4>2. QED
                BY <1>1, <1>6, <3>1, <4>1 DEF Kept, frees
        <3>4. QED
            BY <1>6, <1>7, <3>2, <3>3 DEF SlotOK
    <2>3. QED
        BY <2>1, <2>2
<1>10. QED
    BY <1>1, <1>2, <1>4, <1>5, <1>9, OneSlotChanges DEF StoreTypeOK, StoreInv

(* The threads that open a descriptor do not touch the slots.              *)
LEMMA DescriptorKeeps ==
    ASSUME StoreInv, NEW s \in Slots, MissesDescriptor(s) \/ StoresDescriptor(s)
    PROVE  StoreInv'
<1>1. StoreTypeOK'
    BY DEF StoreInv, StoreTypeOK, MissesDescriptor, StoresDescriptor, FileOf, Files
<1>2. QED
    BY <1>1, NoSlotChanges DEF MissesDescriptor, StoresDescriptor

(* Assigning some fields of a slot leaves the others.                      *)
LEMMA AssignsFields ==
    ASSUME StoreTypeOK, NEW s \in Slots, NEW new, DOMAIN new \subseteq Fields,
           \A f \in DOMAIN new : new[f] \in Block \cup {None},
           Assigns(s, new)
    PROVE  /\ buf' \in [Slots -> [Fields -> Block \cup {None}]]
           /\ \A t \in Slots \ {s} : buf'[t] = buf[t]
           /\ \A f \in Fields :
                 buf'[s][f] = IF f \in DOMAIN new THEN new[f] ELSE buf[s][f]
<1>1. buf[s] \in [Fields -> Block \cup {None}]
    BY DEF StoreTypeOK
<1>2. With(new, buf[s]) \in [Fields -> Block \cup {None}]
    BY <1>1 DEF With
<1>3. buf' = [buf EXCEPT ![s] = With(new, buf[s])]
    BY DEF Assigns
<1>4. QED
    BY <1>2, <1>3 DEF StoreTypeOK, With

LEMMA FlatKeeps ==
    ASSUME StoreInv, NEW s \in Slots, NEW outcome \in Outcomes, Flat(s, outcome)
    PROVE  StoreInv'
<1> DEFINE e == eid[s]
           damaged == Of(e).flat = "damaged"
           served == Reads(s) /\ outcome = "full" /\ ~(damaged /\ env.verify)
           new == [f \in Weights |-> InSlab(e, IF damaged THEN Noise ELSE e)]
<1>1. StoreTypeOK /\ SlotOK(s) /\ lpc[s] = "flat"
    BY DEF StoreInv, Flat, At
<1>2. e \in Experts
    BY <1>1, NamesAssumption DEF SlotOK, StoreTypeOK
<1>3. UNCHANGED <<env, eid, opening, direct, opened, halted>>
    BY DEF Flat, Continues, storeRest
<1>4. Assigned(s) = {}
    BY <1>1 DEF Assigned
<1>5. CASE served
    <2>1. /\ Assigns(s, new) /\ slab' = [slab EXCEPT ![s] = "plain"]
          /\ lpc' = [lpc EXCEPT ![s] = "gub"]
        BY <1>5 DEF Flat, Continues
    <2>2. slab[s] = "none"
        BY <1>1, <1>5 DEF SlotOK, Kept, Served, Reads
    <2>3. \A f \in Forgotten(buf[s], Weights) : Of(f).tensors = "nodown"
        BY <1>4, <2>2, LeftOver
    <2>4. DOMAIN new = Weights /\ \A f \in Weights : new[f] \in Block \cup {None}
        BY <1>2 DEF InSlab, Block
    <2>5. /\ buf' \in [Slots -> [Fields -> Block \cup {None}]]
          /\ \A t \in Slots \ {s} : buf'[t] = buf[t]
          /\ \A f \in Weights : buf'[s][f] = new[f]
          /\ \A f \in Biases : buf'[s][f] = buf[s][f]
        BY <1>1, <2>1, <2>4, AssignsFields
    <2>6. lost' = lost \cup Forgotten(buf[s], Weights)
        BY <2>1, <2>4 DEF Assigns
    <2>7. StoreTypeOK'
        <3>1. Forgotten(buf[s], Weights) \subseteq Experts
            BY <1>1, NamesAssumption DEF Forgotten, StoreTypeOK, Block
        <3>2. QED
            BY <1>1, <1>3, <2>1, <2>5, <2>6, <3>1 DEF StoreTypeOK, Stages
    <2>8. SlotOK(s)'
        <3>1. slab'[s] = "plain" /\ lpc'[s] = "gub" /\ eid'[s] = e
            BY <1>1, <1>3, <2>1 DEF StoreTypeOK
        <3>2. \A f \in Weights : /\ buf'[s][f] # None /\ buf'[s][f].at = "slab"
                                 /\ Trusted(e) => buf'[s][f].has = e
            BY <1>2, <1>5, <2>4, <2>5, NamesAssumption DEF InSlab, Block
        <3>3. \A f \in Biases : f \notin Assigned(s)'
            BY <3>1 DEF Assigned
        <3>4. \A f \in Biases : Owned(s, f)'
            BY <1>1, <1>3, <1>4, <2>2, <2>5, <3>3 DEF SlotOK, Separate, Owned
        <3>5. QED
            BY <1>2, <1>3, <3>1, <3>2, <3>4, NamesAssumption DEF SlotOK, Served
    <2>9. QED
        BY <1>1, <1>3, <2>1, <2>3, <2>5, <2>6, <2>7, <2>8, OneSlotChanges
           DEF StoreTypeOK
<1>6. CASE ~served
    <2>1. UNCHANGED <<buf, slab, lost>> /\ lpc' = [lpc EXCEPT ![s] = "reuse"]
        BY <1>6 DEF Flat, Continues
    <2>2. StoreTypeOK'
        BY <1>1, <1>3, <2>1 DEF StoreTypeOK, Stages
    <2>3. lpc'[s] = "reuse"
        BY <1>1, <2>1 DEF StoreTypeOK
    <2>4. Assigned(s)' = {}
        BY <2>3 DEF Assigned
    <2>5. SlotOK(s)'
        BY <1>1, <1>3, <1>4, <2>1, <2>3, <2>4
           DEF SlotOK, Separate, Kept, Served, Owned
    <2>6. QED
        BY <1>1, <1>3, <2>1, <2>2, <2>5, OneSlotChanges DEF StoreTypeOK
<1>7. QED
    BY <1>5, <1>6

LEMMA NotReusableKeeps ==
    ASSUME StoreInv, NEW s \in Slots, NotReusable(s)
    PROVE  StoreInv'
<1>1. StoreTypeOK /\ SlotOK(s) /\ lpc[s] = "reuse"
    BY DEF StoreInv, NotReusable, At
<1>2. eid[s] \in Experts
    BY <1>1, NamesAssumption DEF SlotOK, StoreTypeOK
<1>3. UNCHANGED <<env, opening, direct, opened, halted>>
    BY DEF NotReusable, storeRest
<1>4. \/ eid' = [eid EXCEPT ![s] = NoExpert] /\ lpc' = [lpc EXCEPT ![s] = "idle"]
      \/ eid' = eid /\ lpc' = [lpc EXCEPT ![s] = "gu"]
    BY DEF NotReusable, GivesUp, Continues
<1>5. Assigned(s) = {} /\ Assigned(s)' = {}
    BY <1>1, <1>4 DEF Assigned, StoreTypeOK
<1>6. /\ lost' = lost
      /\ buf' = IF slab[s] = "reusable" THEN [buf EXCEPT ![s] = Empty] ELSE buf
      /\ slab' = [slab EXCEPT ![s] = "none"]
    <2>1. CASE slab[s] = "reusable"
        <3>1. FreedLoss(s) = {}
            BY <1>1, <2>1 DEF SlotOK, Kept, Served, FreedLoss, Forgotten
        <3>2. QED
            BY <2>1, <3>1 DEF NotReusable, Frees
    <2>2. CASE slab[s] # "reusable"
        <3>1. slab[s] = "none"
            BY <1>1, <2>2 DEF SlotOK, Kept, Served
        <3>2. QED
            BY <1>1, <2>2, <3>1 DEF NotReusable, StoreTypeOK
    <2>3. QED
        BY <2>1, <2>2
<1>7. StoreTypeOK'
    BY <1>1, <1>3, <1>4, <1>6 DEF StoreTypeOK, Stages
<1>8. SlotOK(s)'
    <2>1. slab'[s] = "none" /\ (buf'[s] = Empty \/ (slab[s] = "none" /\ buf'[s] = buf[s]))
        BY <1>1, <1>6 DEF SlotOK, Kept, Served, StoreTypeOK
    <2>2. lpc'[s] # "idle" => eid'[s] # NoExpert
        BY <1>1, <1>2, <1>4, NamesAssumption DEF StoreTypeOK
    <2>3. Separate(s)'
        BY <1>1, <1>3, <1>5, <2>1 DEF SlotOK, Separate, Owned
    <2>4. QED
        BY <2>1, <2>2, <2>3 DEF SlotOK
<1>9. QED
    BY <1>1, <1>3, <1>4, <1>6, <1>7, <1>8, OneSlotChanges DEF StoreTypeOK

(* Four tensors into one slab.                                             *)
LEMMA ReusableKeeps ==
    ASSUME StoreInv, NEW s \in Slots, NEW outcome \in Outcomes,
           NEW enough \in BOOLEAN, Reusable(s, outcome, enough)
    PROVE  StoreInv'
<1> DEFINE e == eid[s]
           new == [f \in Weights |-> InSlab(e, e)]
<1>1. StoreTypeOK /\ SlotOK(s) /\ lpc[s] = "reuse"
    BY DEF StoreInv, Reusable, At
<1>2. e \in Experts /\ e # NoExpert
    BY <1>1, NamesAssumption DEF SlotOK, StoreTypeOK
<1>3. UNCHANGED <<env, eid, opening, direct, opened>>
    BY DEF Reusable, Continues, storeRest
<1>4. CASE outcome = "short"
    <2>1. halted' = TRUE /\ UNCHANGED <<eid, buf, slab, lpc, lost>>
        BY <1>4 DEF Reusable
    <2>2. StoreTypeOK'
        BY <1>1, <1>3, <2>1 DEF StoreTypeOK
    <2>3. QED
        BY <1>3, <2>1, <2>2, NoSlotChanges
<1>5. CASE outcome # "short"
    <2>1. PICK old \in {buf[s], Empty} : buf' = [buf EXCEPT ![s] = With(new, old)]
        BY <1>5 DEF Reusable
    <2>2. /\ slab' = [slab EXCEPT ![s] = "reusable"]
          /\ lpc' = [lpc EXCEPT ![s] = "gub"] /\ halted' = halted
        BY <1>5 DEF Reusable, Continues
    <2>3. slab[s] # "none" => buf[s] = Empty
        BY <1>1 DEF SlotOK, Kept, Served
    <2>4. lost' = lost
        <3>1. Forgotten(Empty, Weights) = {}
            BY DEF Forgotten
        <3>2. QED
            BY <1>5, <2>3, <3>1 DEF Reusable, FreedLoss
    <2>5. DOMAIN new = Weights /\ \A f \in Weights : new[f] \in Block
        BY <1>2 DEF InSlab, Block
    <2>6. old \in [Fields -> Block \cup {None}]
        BY <1>1 DEF StoreTypeOK
    <2>7. With(new, old) \in [Fields -> Block \cup {None}]
        BY <2>5, <2>6 DEF With
    <2>8. StoreTypeOK'
        BY <1>1, <1>3, <2>1, <2>2, <2>4, <2>7 DEF StoreTypeOK, Stages
    <2>9. /\ slab'[s] = "reusable" /\ lpc'[s] = "gub" /\ eid'[s] = e
          /\ \A f \in Weights : buf'[s][f] = InSlab(e, e)
          /\ \A f \in Biases : buf'[s][f] = old[f]
        BY <1>1, <1>3, <2>1, <2>2, <2>5 DEF StoreTypeOK, With
    <2>10. SlotOK(s)'
        <3>1. \A f \in Weights : /\ buf'[s][f] # None /\ buf'[s][f].at = "slab"
                                 /\ buf'[s][f].has = e
            BY <1>2, <2>5, <2>9, NamesAssumption DEF InSlab, Block
        <3>2. \A f \in Biases : f \notin Assigned(s)' /\ f \notin Assigned(s)
            BY <1>1, <2>9 DEF Assigned
        <3>3. \A f \in Biases : old[f] # None =>
                    old[f].at = "own" /\ Of(old[f].of).tensors = "nodown"
            BY <1>1, <2>3, <3>2 DEF SlotOK, Separate, Owned
        <3>4. \A f \in Biases : Owned(s, f)'
            BY <1>3, <2>9, <3>2, <3>3 DEF Owned
        <3>5. QED
            BY <1>2, <1>3, <2>9, <3>1, <3>4 DEF SlotOK, Served
    <2>11. QED
        BY <1>1, <1>3, <2>1, <2>2, <2>4, <2>8, <2>10, OneSlotChanges DEF StoreTypeOK
<1>6. QED
    BY <1>4, <1>5

(* A stage that assigns fields the load has not assigned yet, of a slot    *)
(* without a slab unless they are biases.                                  *)
LEMMA AssigningKeeps ==
    ASSUME StoreInv, NEW s \in Slots,
           NEW new, DOMAIN new \subseteq Fields \ Assigned(s),
           \A f \in DOMAIN new : new[f] \in Block \cup {None},
           slab[s] = "none" \/ DOMAIN new \subseteq Biases,
           Assigns(s, new),
           NEW e \in {eid[s], NoExpert}, eid' = [eid EXCEPT ![s] = e],
           NEW stage \in Stages \cup {"idle"}, lpc' = [lpc EXCEPT ![s] = stage],
           UNCHANGED <<env, slab, opening, direct, opened, halted>>,
           SlotOK(s)'
    PROVE  StoreInv'
<1>1. StoreTypeOK
    BY DEF StoreInv
<1>2. /\ buf' \in [Slots -> [Fields -> Block \cup {None}]]
      /\ \A t \in Slots \ {s} : buf'[t] = buf[t]
    BY <1>1, AssignsFields
<1>3. lost' = lost \cup Forgotten(buf[s], DOMAIN new)
    BY DEF Assigns
<1>4. \A x \in Forgotten(buf[s], DOMAIN new) : Of(x).tensors = "nodown"
    BY LeftOver
<1>5. Forgotten(buf[s], DOMAIN new) \subseteq Experts
    BY <1>1, NamesAssumption DEF Forgotten, StoreTypeOK, Block
<1>6. StoreTypeOK'
    BY <1>1, <1>2, <1>3, <1>5 DEF StoreTypeOK
<1>7. QED
    BY <1>1, <1>2, <1>3, <1>4, <1>6, OneSlotChanges DEF StoreTypeOK

LEMMA OwnIsBlock ==
    ASSUME NEW e \in Experts, NEW has \in Experts \cup {Noise}
    PROVE  /\ Own(e, has) \in Block /\ Own(e, has) # None
           /\ Own(e, has).at = "own" /\ Own(e, has).of = e
           /\ Own(e, has).has = has
BY NamesAssumption DEF Own, Block

LEMMA GateUpKeeps ==
    ASSUME StoreInv, NEW s \in Slots, NEW outcome \in Outcomes, GateUp(s, outcome)
    PROVE  StoreInv'
<1> DEFINE e == eid[s]
           float == Of(e).tensors = "float"
           dropped == ~float /\ outcome = "short"
           gu == IF dropped THEN None ELSE Own(e, Filled(s, outcome))
           new == [gu |-> gu, gus |-> None]
<1>1. StoreTypeOK /\ SlotOK(s) /\ lpc[s] = "gu"
    BY DEF StoreInv, GateUp, At
<1>2. e \in Experts /\ e # NoExpert
    BY <1>1, NamesAssumption DEF SlotOK, StoreTypeOK
<1>3. Filled(s, outcome) \in Experts \cup {Noise}
    BY <1>2 DEF Filled
<1>4. slab[s] = "none" /\ Separate(s) /\ Assigned(s) = {}
    BY <1>1 DEF SlotOK, Kept, Served, Assigned
<1>5. /\ Assigns(s, new)
      /\ UNCHANGED <<env, slab, opening, direct, opened, halted>>
    BY DEF GateUp, storeRest
<1>6. PICK x \in {e, NoExpert}, stage \in {"gub", "gus", "idle"} :
          /\ eid' = [eid EXCEPT ![s] = x] /\ lpc' = [lpc EXCEPT ![s] = stage]
          /\ IF dropped THEN x = NoExpert /\ stage = "idle"
                        ELSE x = e /\ stage \in {"gub", "gus"}
    <2>1. CASE dropped
        BY <2>1 DEF GateUp, GivesUp
    <2>2. CASE ~dropped
        BY <1>1, <2>2 DEF GateUp, Continues, StoreTypeOK
    <2>3. QED
        BY <2>1, <2>2
<1>7. DOMAIN new = {"gu", "gus"} /\ new["gu"] = gu /\ new["gus"] = None
    OBVIOUS
<1>8. gu \in Block \cup {None}
    BY <1>2, <1>3, OwnIsBlock
<1>9. /\ buf'[s]["gu"] = gu /\ buf'[s]["gus"] = None
      /\ \A f \in Fields \ {"gu", "gus"} : buf'[s][f] = buf[s][f]
    BY <1>1, <1>5, <1>7, <1>8, AssignsFields
<1>10. eid'[s] = x /\ lpc'[s] = stage /\ slab'[s] = "none"
    BY <1>1, <1>4, <1>5, <1>6 DEF StoreTypeOK
<1>11. SlotOK(s)'
    <2>1. Assigned(s)' = IF dropped THEN {} ELSE IF stage = "gus" THEN {"gu"}
                         ELSE {"gu", "gus"}
        BY <1>6, <1>10 DEF Assigned
    <2>2. ~dropped => /\ gu # None /\ gu.at = "own" /\ gu.of = e
                      /\ ~float => gu.has = e
        BY <1>2, <1>3, OwnIsBlock DEF Filled, Outcomes
    <2>3. \A f \in Fields \ {"gu", "gus"} : Owned(s, f)'
        BY <1>4, <1>5, <1>9, <2>1 DEF Separate, Owned
    <2>4. Owned(s, "gu")' /\ Owned(s, "gus")'
        BY <1>6, <1>9, <1>10, <2>1, <2>2 DEF Owned
    <2>5. Separate(s)'
        BY <1>5, <1>6, <1>9, <1>10, <2>1, <2>2, <2>3, <2>4 DEF Separate
    <2>6. QED
        BY <1>2, <1>6, <1>10, <2>5 DEF SlotOK
<1>12. QED
    BY <1>4, <1>5, <1>6, <1>7, <1>8, <1>11, AssigningKeeps DEF Stages

LEMMA GateUpScalesKeeps ==
    ASSUME StoreInv, NEW s \in Slots, NEW outcome \in Outcomes, GateUpScales(s, outcome)
    PROVE  StoreInv'
<1> DEFINE e == eid[s]
           new == [gus |-> Own(e, Filled(s, outcome))]
<1>1. StoreTypeOK /\ SlotOK(s) /\ lpc[s] = "gus"
    BY DEF StoreInv, GateUpScales, At
<1>2. e \in Experts /\ e # NoExpert
    BY <1>1, NamesAssumption DEF SlotOK, StoreTypeOK
<1>3. Filled(s, outcome) \in Experts \cup {Noise}
    BY <1>2 DEF Filled
<1>4. slab[s] = "none" /\ Separate(s)
    BY <1>1 DEF SlotOK, Kept, Served
<1>5. /\ Assigns(s, new) /\ eid' = eid /\ lpc' = [lpc EXCEPT ![s] = "gub"]
      /\ UNCHANGED <<env, slab, opening, direct, opened, halted>>
    BY DEF GateUpScales, Continues, storeRest
<1>6. DOMAIN new = {"gus"} /\ new["gus"] = Own(e, Filled(s, outcome))
    OBVIOUS
<1>7. new["gus"] \in Block
    BY <1>2, <1>3, OwnIsBlock
<1>8. /\ buf'[s]["gus"] = Own(e, Filled(s, outcome))
      /\ \A f \in Fields \ {"gus"} : buf'[s][f] = buf[s][f]
    BY <1>1, <1>5, <1>6, <1>7, AssignsFields
<1>9. eid'[s] = e /\ lpc'[s] = "gub" /\ slab'[s] = "none"
    BY <1>1, <1>4, <1>5 DEF StoreTypeOK
<1>10. Assigned(s)' = Assigned(s) \cup {"gus"} /\ "gus" \notin Assigned(s)
    BY <1>1, <1>9 DEF Assigned
<1>11. SlotOK(s)'
    <2>1. Owned(s, "gus")'
        BY <1>2, <1>3, <1>8, <1>9, <1>10, OwnIsBlock DEF Owned
    <2>2. \A f \in Fields \ {"gus"} : Owned(s, f)'
        BY <1>4, <1>5, <1>8, <1>9, <1>10 DEF Separate, Owned
    <2>3. Separate(s)'
        BY <1>4, <1>5, <1>8, <1>9, <1>10, <2>1, <2>2 DEF Separate
    <2>4. QED
        BY <1>2, <1>9, <2>3 DEF SlotOK
<1>12. eid' = [eid EXCEPT ![s] = e]
    BY <1>1, <1>5 DEF StoreTypeOK
<1>13. QED
    BY <1>4, <1>5, <1>6, <1>7, <1>10, <1>11, <1>12, AssigningKeeps DEF Stages

LEMMA DownScalesKeeps ==
    ASSUME StoreInv, NEW s \in Slots, NEW outcome \in Outcomes, DownScales(s, outcome)
    PROVE  StoreInv'
<1> DEFINE e == eid[s]
           new == [ds |-> Own(e, Filled(s, outcome))]
<1>1. StoreTypeOK /\ SlotOK(s) /\ lpc[s] = "ds"
    BY DEF StoreInv, DownScales, At
<1>2. e \in Experts /\ e # NoExpert
    BY <1>1, NamesAssumption DEF SlotOK, StoreTypeOK
<1>3. Filled(s, outcome) \in Experts \cup {Noise}
    BY <1>2 DEF Filled
<1>4. slab[s] = "none" /\ Separate(s)
    BY <1>1 DEF SlotOK, Kept, Served
<1>5. /\ Assigns(s, new) /\ eid' = eid /\ lpc' = [lpc EXCEPT ![s] = "db"]
      /\ UNCHANGED <<env, slab, opening, direct, opened, halted>>
    BY DEF DownScales, Continues, storeRest
<1>6. DOMAIN new = {"ds"} /\ new["ds"] = Own(e, Filled(s, outcome))
    OBVIOUS
<1>7. new["ds"] \in Block
    BY <1>2, <1>3, OwnIsBlock
<1>8. /\ buf'[s]["ds"] = Own(e, Filled(s, outcome))
      /\ \A f \in Fields \ {"ds"} : buf'[s][f] = buf[s][f]
    BY <1>1, <1>5, <1>6, <1>7, AssignsFields
<1>9. eid'[s] = e /\ lpc'[s] = "db" /\ slab'[s] = "none"
    BY <1>1, <1>4, <1>5 DEF StoreTypeOK
<1>10. Assigned(s)' = Assigned(s) \cup {"ds"} /\ "ds" \notin Assigned(s)
    BY <1>1, <1>9 DEF Assigned
<1>11. SlotOK(s)'
    <2>1. Owned(s, "ds")'
        BY <1>2, <1>3, <1>8, <1>9, <1>10, OwnIsBlock DEF Owned
    <2>2. \A f \in Fields \ {"ds"} : Owned(s, f)'
        BY <1>4, <1>5, <1>8, <1>9, <1>10 DEF Separate, Owned
    <2>3. Separate(s)'
        BY <1>4, <1>5, <1>8, <1>9, <1>10, <2>1, <2>2 DEF Separate
    <2>4. QED
        BY <1>2, <1>9, <2>3 DEF SlotOK
<1>12. eid' = [eid EXCEPT ![s] = e]
    BY <1>1, <1>5 DEF StoreTypeOK
<1>13. QED
    BY <1>4, <1>5, <1>6, <1>7, <1>10, <1>11, <1>12, AssigningKeeps DEF Stages

LEMMA BiasIsBlock ==
    ASSUME NEW s \in Slots, eid[s] \in Experts, NEW outcome \in Outcomes
    PROVE  /\ Bias(s, outcome) \in Block \cup {None}
           /\ Bias(s, outcome) # None => /\ Bias(s, outcome).at = "own"
                                         /\ Bias(s, outcome).of = eid[s]
<1>1. Filled(s, outcome) \in Experts \cup {Noise}
    BY DEF Filled
<1>2. Bias(s, outcome) \in {None, Own(eid[s], eid[s]), Own(eid[s], Filled(s, outcome))}
    BY DEF Bias
<1>3. QED
    BY <1>1, <1>2, OwnIsBlock

LEMMA GateUpBiasKeeps ==
    ASSUME StoreInv, NEW s \in Slots, NEW outcome \in Outcomes, GateUpBias(s, outcome)
    PROVE  StoreInv'
<1> DEFINE e == eid[s]
           new == [gub |-> Bias(s, outcome)]
           stage == IF slab[s] # "none" THEN "db" ELSE "d"
<1>1. StoreTypeOK /\ SlotOK(s) /\ lpc[s] = "gub"
    BY DEF StoreInv, GateUpBias, At
<1>2. e \in Experts /\ e # NoExpert
    BY <1>1, NamesAssumption DEF SlotOK, StoreTypeOK
<1>3. /\ Bias(s, outcome) \in Block \cup {None}
      /\ Bias(s, outcome) # None => /\ Bias(s, outcome).at = "own"
                                    /\ Bias(s, outcome).of = e
    BY <1>2, BiasIsBlock
<1>4. IF slab[s] = "none" THEN Separate(s) ELSE Served(s)
    BY <1>1 DEF SlotOK, Kept
<1>5. /\ Assigns(s, new) /\ eid' = eid /\ lpc' = [lpc EXCEPT ![s] = stage]
      /\ UNCHANGED <<env, slab, opening, direct, opened, halted>>
    BY DEF GateUpBias, Continues, storeRest
<1>6. DOMAIN new = {"gub"} /\ new["gub"] = Bias(s, outcome)
    OBVIOUS
<1>7. /\ buf'[s]["gub"] = Bias(s, outcome)
      /\ \A f \in Fields \ {"gub"} : buf'[s][f] = buf[s][f]
    BY <1>1, <1>3, <1>5, <1>6, AssignsFields
<1>8. eid'[s] = e /\ lpc'[s] = stage /\ slab'[s] = slab[s]
    BY <1>1, <1>5 DEF StoreTypeOK
<1>9. /\ "gub" \notin Assigned(s) /\ "gub" \in Assigned(s)'
      /\ Assigned(s) = Weights \ {"d", "ds"}
      /\ Assigned(s)' = IF slab[s] = "none" THEN {"gu", "gus", "gub"}
                                         ELSE Weights \cup {"gub"}
    BY <1>1, <1>2, <1>8 DEF Assigned
<1>10. Owned(s, "gub")'
    BY <1>3, <1>7, <1>8, <1>9 DEF Owned
<1>11. SlotOK(s)'
    <2>1. CASE slab[s] = "none"
        <3>1. Separate(s)
            BY <1>4, <2>1
        <3>2. Assigned(s)' = Assigned(s) \cup {"gub"}
            BY <1>9, <2>1
        <3>3. \A f \in Fields \ {"gub"} : Owned(s, f)'
            BY <1>5, <1>7, <1>8, <3>1, <3>2 DEF Separate, Owned
        <3>4. Separate(s)'
            BY <1>5, <1>7, <1>8, <1>10, <3>1, <3>2, <3>3 DEF Separate
        <3>5. QED
            BY <1>2, <1>8, <2>1, <3>4 DEF SlotOK
    <2>2. CASE slab[s] # "none"
        <3>1. Served(s)
            BY <1>4, <2>2
        <3>2. \A f \in Biases \ {"gub"} : f \in Assigned(s)' <=> f \in Assigned(s)
            BY <1>9
        <3>3. \A f \in Biases : Owned(s, f)'
            BY <1>5, <1>7, <1>8, <1>10, <3>1, <3>2 DEF Served, Owned
        <3>4. \A f \in Weights : buf'[s][f] = buf[s][f]
            BY <1>7
        <3>5. lpc'[s] \in {"gub", "db", "idle"}
            BY <1>8, <2>2
        <3>6. Served(s)'
            BY <1>2, <1>5, <1>8, <3>1, <3>3, <3>4, <3>5 DEF Served
        <3>7. QED
            BY <1>2, <1>8, <2>2, <3>6 DEF SlotOK
    <2>3. QED
        BY <2>1, <2>2
<1>12. eid' = [eid EXCEPT ![s] = e]
    BY <1>1, <1>5 DEF StoreTypeOK
<1>13. stage \in Stages \cup {"idle"}
    BY DEF Stages
<1>14. /\ DOMAIN new \subseteq Fields \ Assigned(s) /\ DOMAIN new \subseteq Biases
       /\ \A f \in DOMAIN new : new[f] \in Block \cup {None}
    BY <1>3, <1>6, <1>9
<1>15. e \in {eid[s], NoExpert}
    OBVIOUS
<1> HIDE DEF e, new, stage
<1>16. QED
    BY <1>5, <1>11, <1>12, <1>13, <1>14, <1>15, AssigningKeeps

LEMMA DownBiasKeeps ==
    ASSUME StoreInv, NEW s \in Slots, NEW outcome \in Outcomes, DownBias(s, outcome)
    PROVE  StoreInv'
<1> DEFINE e == eid[s]
           new == [db |-> Bias(s, outcome)]
           stage == "idle"
<1>1. StoreTypeOK /\ SlotOK(s) /\ lpc[s] = "db"
    BY DEF StoreInv, DownBias, At
<1>2. e \in Experts /\ e # NoExpert
    BY <1>1, NamesAssumption DEF SlotOK, StoreTypeOK
<1>3. /\ Bias(s, outcome) \in Block \cup {None}
      /\ Bias(s, outcome) # None => /\ Bias(s, outcome).at = "own"
                                    /\ Bias(s, outcome).of = e
    BY <1>2, BiasIsBlock
<1>4. IF slab[s] = "none" THEN Separate(s) ELSE Served(s)
    BY <1>1 DEF SlotOK, Kept
<1>5. /\ Assigns(s, new) /\ eid' = eid /\ lpc' = [lpc EXCEPT ![s] = stage]
      /\ UNCHANGED <<env, slab, opening, direct, opened, halted>>
    BY DEF DownBias, Continues, storeRest
<1>6. DOMAIN new = {"db"} /\ new["db"] = Bias(s, outcome)
    OBVIOUS
<1>7. /\ buf'[s]["db"] = Bias(s, outcome)
      /\ \A f \in Fields \ {"db"} : buf'[s][f] = buf[s][f]
    BY <1>1, <1>3, <1>5, <1>6, AssignsFields
<1>8. eid'[s] = e /\ lpc'[s] = stage /\ slab'[s] = slab[s]
    BY <1>1, <1>5 DEF StoreTypeOK
<1>9. /\ "db" \notin Assigned(s) /\ "db" \in Assigned(s)'
      /\ Assigned(s) = Weights \cup {"gub"}
      /\ Assigned(s)' = Fields
    BY <1>1, <1>2, <1>8 DEF Assigned
<1>10. Owned(s, "db")'
    BY <1>3, <1>7, <1>8, <1>9 DEF Owned
<1>11. SlotOK(s)'
    <2>1. CASE slab[s] = "none"
        <3>1. Separate(s)
            BY <1>4, <2>1
        <3>2. Assigned(s)' = Assigned(s) \cup {"db"}
            BY <1>9, <2>1
        <3>3. \A f \in Fields \ {"db"} : Owned(s, f)'
            BY <1>5, <1>7, <1>8, <3>1, <3>2 DEF Separate, Owned
        <3>4. Separate(s)'
            BY <1>5, <1>7, <1>8, <1>10, <3>1, <3>2, <3>3 DEF Separate
        <3>5. QED
            BY <1>2, <1>8, <2>1, <3>4 DEF SlotOK
    <2>2. CASE slab[s] # "none"
        <3>1. Served(s)
            BY <1>4, <2>2
        <3>2. \A f \in Biases \ {"db"} : f \in Assigned(s)' <=> f \in Assigned(s)
            BY <1>9
        <3>3. \A f \in Biases : Owned(s, f)'
            BY <1>5, <1>7, <1>8, <1>10, <3>1, <3>2 DEF Served, Owned
        <3>4. \A f \in Weights : buf'[s][f] = buf[s][f]
            BY <1>7
        <3>5. lpc'[s] \in {"gub", "db", "idle"}
            BY <1>8, <2>2
        <3>6. Served(s)'
            BY <1>2, <1>5, <1>8, <3>1, <3>3, <3>4, <3>5 DEF Served
        <3>7. QED
            BY <1>2, <1>8, <2>2, <3>6 DEF SlotOK
    <2>3. QED
        BY <2>1, <2>2
<1>12. eid' = [eid EXCEPT ![s] = e]
    BY <1>1, <1>5 DEF StoreTypeOK
<1>13. stage \in Stages \cup {"idle"}
    BY DEF Stages
<1>14. /\ DOMAIN new \subseteq Fields \ Assigned(s) /\ DOMAIN new \subseteq Biases
       /\ \A f \in DOMAIN new : new[f] \in Block \cup {None}
    BY <1>3, <1>6, <1>9
<1>15. e \in {eid[s], NoExpert}
    OBVIOUS
<1> HIDE DEF e, new, stage
<1>16. QED
    BY <1>5, <1>11, <1>12, <1>13, <1>14, <1>15, AssigningKeeps

(* The down projection: a missing one leaves the gate and up blocks where  *)
(* they are, an unreadable payload takes them along.                       *)
LEMMA DownKeeps ==
    ASSUME StoreInv, NEW s \in Slots, NEW outcome \in Outcomes, Down(s, outcome)
    PROVE  StoreInv'
<1> DEFINE e == eid[s]
           float == Of(e).tensors = "float"
           missing == Of(e).tensors = "nodown"
           dropped == ~float /\ outcome = "short"
           new == [d |-> Own(e, Filled(s, outcome)), ds |-> None]
<1>1. StoreTypeOK /\ SlotOK(s) /\ lpc[s] = "d"
    BY DEF StoreInv, Down, At
<1>2. e \in Experts /\ e # NoExpert
    BY <1>1, NamesAssumption DEF SlotOK, StoreTypeOK
<1>3. slab[s] = "none" /\ Separate(s) /\ Assigned(s) = {"gu", "gus", "gub"}
    BY <1>1 DEF SlotOK, Kept, Served, Assigned
<1>4. UNCHANGED <<env, slab, opening, direct, opened, halted>>
    BY DEF Down, storeRest
<1>5. CASE missing
    <2>1. /\ eid' = [eid EXCEPT ![s] = NoExpert] /\ lpc' = [lpc EXCEPT ![s] = "idle"]
          /\ UNCHANGED <<buf, lost>>
        BY <1>5 DEF Down, GivesUp
    <2>2. StoreTypeOK'
        BY <1>1, <1>4, <2>1 DEF StoreTypeOK
    <2>3. eid'[s] = NoExpert /\ lpc'[s] = "idle" /\ slab'[s] = "none"
        BY <1>1, <1>3, <1>4, <2>1 DEF StoreTypeOK
    <2>4. Assigned(s)' = {}
        BY <2>3 DEF Assigned
    <2>5. \A f \in Fields : Owned(s, f)'
        BY <1>3, <1>4, <1>5, <2>1, <2>4 DEF Separate, Owned
    <2>6. SlotOK(s)'
        BY <2>3, <2>4, <2>5 DEF SlotOK, Separate
    <2>7. QED
        BY <1>1, <1>4, <2>1, <2>2, <2>6, OneSlotChanges DEF StoreTypeOK
<1>6. CASE ~missing /\ dropped
    <2>1. /\ eid' = [eid EXCEPT ![s] = NoExpert] /\ lpc' = [lpc EXCEPT ![s] = "idle"]
          /\ buf' = [buf EXCEPT ![s] = Empty]
          /\ lost' = lost \cup Forgotten(buf[s], {"d", "ds"})
        BY <1>6 DEF Down, GivesUp
    <2>2. \A x \in Forgotten(buf[s], {"d", "ds"}) : Of(x).tensors = "nodown"
        BY <1>3, LeftOver
    <2>3. Forgotten(buf[s], {"d", "ds"}) \subseteq Experts
        BY <1>1, NamesAssumption DEF Forgotten, StoreTypeOK, Block
    <2>4. StoreTypeOK'
        BY <1>1, <1>4, <2>1, <2>3 DEF StoreTypeOK
    <2>5. /\ eid'[s] = NoExpert /\ lpc'[s] = "idle" /\ slab'[s] = "none"
          /\ buf'[s] = Empty
        BY <1>1, <1>3, <1>4, <2>1 DEF StoreTypeOK
    <2>6. SlotOK(s)'
        BY <2>5 DEF SlotOK, Separate, Owned, Assigned
    <2>7. QED
        BY <1>1, <1>4, <2>1, <2>2, <2>4, <2>6, OneSlotChanges DEF StoreTypeOK
<1>7. CASE ~missing /\ ~dropped
    <2> DEFINE stage == IF float THEN "db" ELSE "ds"
    <2>1. Assigns(s, new) /\ eid' = eid /\ lpc' = [lpc EXCEPT ![s] = stage]
        BY <1>7 DEF Down, Continues
    <2>2. Filled(s, outcome) \in Experts \cup {Noise}
        BY <1>2 DEF Filled
    <2>3. DOMAIN new = {"d", "ds"} /\ new["d"] = Own(e, Filled(s, outcome))
          /\ new["ds"] = None
        OBVIOUS
    <2>4. \A f \in DOMAIN new : new[f] \in Block \cup {None}
        BY <1>2, <2>2, <2>3, OwnIsBlock
    <2>5. /\ buf'[s]["d"] = Own(e, Filled(s, outcome)) /\ buf'[s]["ds"] = None
          /\ \A f \in Fields \ {"d", "ds"} : buf'[s][f] = buf[s][f]
        BY <1>1, <2>1, <2>3, <2>4, AssignsFields
    <2>6. eid'[s] = e /\ lpc'[s] = stage /\ slab'[s] = "none"
        BY <1>1, <1>3, <1>4, <2>1 DEF StoreTypeOK
    <2>7. Assigned(s)' = IF float THEN {"gu", "gus", "gub", "d", "ds"}
                                  ELSE {"gu", "gus", "gub", "d"}
        BY <2>6 DEF Assigned
    <2>8. \A f \in Fields \ {"d", "ds"} : Owned(s, f)'
        BY <1>3, <1>4, <2>5, <2>6, <2>7 DEF Separate, Owned
    <2>9. Owned(s, "d")' /\ Owned(s, "ds")'
        BY <1>2, <2>2, <2>5, <2>6, <2>7, OwnIsBlock DEF Owned
    <2>10. ~float => Own(e, Filled(s, outcome)).has = e
        BY <1>2, <1>7, <2>2, OwnIsBlock DEF Filled, Outcomes
    <2>11. buf'[s]["d"] # None /\ (~float => buf'[s]["d"].has = e)
        BY <1>2, <2>2, <2>5, <2>10, OwnIsBlock
    <2>12. Separate(s)'
        BY <1>3, <1>4, <2>5, <2>6, <2>7, <2>8, <2>9, <2>11 DEF Separate
    <2>13. SlotOK(s)'
        BY <1>2, <2>6, <2>12 DEF SlotOK
    <2>14. eid' = [eid EXCEPT ![s] = e] /\ e \in {eid[s], NoExpert}
        BY <1>1, <2>1 DEF StoreTypeOK
    <2>15. stage \in Stages \cup {"idle"}
        BY DEF Stages
    <2>16. DOMAIN new \subseteq Fields \ Assigned(s)
        BY <1>3, <2>3
    <2> HIDE DEF new, stage, e
    <2>17. QED
        BY <1>3, <1>4, <2>1, <2>4, <2>13, <2>14, <2>15, <2>16, AssigningKeeps
<1>8. QED
    BY <1>5, <1>6, <1>7

LEMMA LoadKeeps ==
    ASSUME StoreInv, NEW s \in Slots, LoadStep(s)
    PROVE  StoreInv'
BY DescriptorKeeps, FlatKeeps, NotReusableKeeps, ReusableKeeps, GateUpKeeps,
   GateUpScalesKeeps, GateUpBiasKeeps, DownKeeps, DownScalesKeeps, DownBiasKeeps
   DEF LoadStep

LEMMA StoreKeeps == StoreInv /\ [StoreNext]_<<env, storeVars, halted>> => StoreInv'
<1> SUFFICES ASSUME StoreInv, [StoreNext]_<<env, storeVars, halted>> PROVE StoreInv'
    OBVIOUS
<1>1. ASSUME NEW s \in Slots, NEW e \in Experts, Begin(s, e) PROVE StoreInv'
    BY <1>1, BeginKeeps
<1>2. ASSUME NEW s \in Slots, LoadStep(s) PROVE StoreInv'
    BY <1>2, LoadKeeps
<1>3. CASE halted' = TRUE /\ UNCHANGED <<env, storeVars>>
    <2>1. StoreTypeOK'
        BY <1>3 DEF StoreInv, StoreTypeOK, storeVars
    <2>2. QED
        BY <1>3, <2>1, NoSlotChanges DEF storeVars
<1>4. CASE UNCHANGED <<env, storeVars, halted>>
    <2>1. StoreTypeOK'
        BY <1>4 DEF StoreInv, StoreTypeOK, storeVars
    <2>2. QED
        BY <1>4, <2>1, NoSlotChanges DEF storeVars
<1>5. QED
    BY <1>1, <1>2, <1>3, <1>4 DEF StoreNext

(* What a slot holds at each stage of a load (expert_load), for any        *)
(* sequence of loads.                                                      *)
THEOREM StoreInvariant == StoreSpec => []StoreInv
<1>1. QED
    BY StoreStarts, StoreKeeps, PTL DEF StoreSpec

-----------------------------------------------------------------------------
(* What follows                                                            *)

LEMMA InvGivesWholeParts == StoreInv => WholeParts
<1> SUFFICES ASSUME StoreInv, NEW s \in Slots, lpc[s] = "idle", eid[s] # NoExpert,
                    Trusted(eid[s]), NEW f \in Compared(s)
             PROVE  buf[s][f] # None /\ buf[s][f].has = eid[s]
    BY DEF WholeParts
<1>1. SlotOK(s)
    BY DEF StoreInv
<1>2. CASE slab[s] = "none"
    <2>1. Separate(s) /\ Assigned(s) = Fields
        BY <1>1, <1>2 DEF SlotOK, Assigned
    <2>2. Of(eid[s]).tensors # "float" /\ f \in {"gu", "d"}
        BY <1>2 DEF Compared
    <2>3. QED
        BY <2>1, <2>2 DEF Separate
<1>3. CASE slab[s] # "none"
    BY <1>1, <1>3 DEF SlotOK, Kept, Served, Compared
<1>4. QED
    BY <1>2, <1>3

LEMMA InvGivesNoBlockLost == StoreInv => NoBlockLost
<1> SUFFICES ASSUME StoreInv PROVE NoBlockLost
    OBVIOUS
<1>1. ASSUME NEW s \in Slots, NEW f \in Fields, buf[s][f] # None,
             buf[s][f].at = "slab"
      PROVE  slab[s] # "none"
    <2>1. SlotOK(s)
        BY DEF StoreInv
    <2>2. QED
        BY <1>1, <2>1 DEF SlotOK, Separate, Owned
<1>2. QED
    BY <1>1 DEF NoBlockLost, StoreInv

(* A published slot holds whole tensors of its own expert, whichever layout*)
(* and descriptor served it and whatever the slot held before.             *)
THEOREM StoreWhole == StoreSpec => []WholeParts
<1>1. QED
    BY StoreInvariant, InvGivesWholeParts, PTL

(* No block is forgotten, and nothing points into a slab that was freed.   *)
THEOREM StoreLosesNothing == StoreSpec => []NoBlockLost
<1>1. QED
    BY StoreInvariant, InvGivesNoBlockLost, PTL

-----------------------------------------------------------------------------
(* The descriptors                                                         *)

(* The threads about to open a file.  None joins them once a descriptor is *)
(* there, so that each opens it once at most.                              *)
Openers(f) == {s \in opening : FileOf(s) = f}
DescriptorInv ==
    /\ StoreTypeOK
    /\ \A s \in opening : lpc[s] # "idle"
    /\ \A f \in Files : /\ direct[f] = "none" => opened[f] = 0
                        /\ opened[f] + Cardinality(Openers(f)) <= Cardinality(Slots)

LEMMA OpenersFinite ==
    ASSUME StoreTypeOK, NEW f \in Files
    PROVE  /\ IsFiniteSet(Openers(f)) /\ Cardinality(Openers(f)) \in Nat
           /\ Cardinality(Openers(f)) <= Cardinality(Slots) /\ Cardinality(Slots) \in Nat
<1>1. Openers(f) \subseteq Slots
    BY DEF Openers, StoreTypeOK
<1>2. QED
    BY <1>1, SlotsAssumption, FS_Subset, FS_CardinalityType

(* The stages of a load wait for the descriptor they need.                 *)
LEMMA StagesKeepDescriptors ==
    ASSUME DescriptorInv, StoreTypeOK', NEW s \in Slots, s \notin opening,
           \A t \in Slots \ {s} : lpc'[t] = lpc[t],
           UNCHANGED <<opening, direct, opened>>
    PROVE  DescriptorInv'
<1>1. \A t \in opening : lpc'[t] = lpc[t] /\ FileOf(t)' = FileOf(t)
    BY DEF DescriptorInv, StoreTypeOK, FileOf
<1>2. \A f \in Files : Openers(f)' = Openers(f)
    BY <1>1 DEF Openers
<1>3. QED
    BY <1>1, <1>2 DEF DescriptorInv

LEMMA DescriptorKeepsBound ==
    ASSUME DescriptorInv, StoreTypeOK', NEW s \in Slots,
           MissesDescriptor(s) \/ StoresDescriptor(s)
    PROVE  DescriptorInv'
<1>1. StoreTypeOK /\ lpc' = lpc /\ \A t \in Slots : FileOf(t)' = FileOf(t)
    BY DEF DescriptorInv, MissesDescriptor, StoresDescriptor, FileOf
<1>2. CASE MissesDescriptor(s)
    <2>1. /\ opening' = opening \cup {s} /\ lpc[s] # "idle"
          /\ direct[FileOf(s)] = "none" /\ UNCHANGED <<direct, opened>>
        BY <1>2 DEF MissesDescriptor, HasDescriptor
    <2>2. FileOf(s) \in Files
        BY DEF FileOf, Files
    <2>3. \A f \in Files \ {FileOf(s)} : Openers(f)' = Openers(f)
        BY <1>1, <2>1 DEF Openers, StoreTypeOK
    <2>4. /\ opened'[FileOf(s)] = 0
          /\ Cardinality(Openers(FileOf(s))') <= Cardinality(Slots)
          /\ Cardinality(Openers(FileOf(s))') \in Nat
        <3>1. Openers(FileOf(s))' \subseteq Slots
            BY <2>1 DEF Openers, DescriptorInv, StoreTypeOK
        <3>2. QED
            BY <2>1, <2>2, <3>1, SlotsAssumption, FS_Subset, FS_CardinalityType
               DEF DescriptorInv
    <2>5. \A f \in Files : opened'[f] + Cardinality(Openers(f)') <= Cardinality(Slots)
        <3>1. TAKE f \in Files
        <3>2. CASE f = FileOf(s)
            <4>1. Openers(f)' = Openers(FileOf(s))'
                BY <1>1, <3>2 DEF Openers
            <4>2. QED
                BY <2>4, <3>2, <4>1
        <3>3. CASE f # FileOf(s)
            BY <2>1, <2>3, <3>3 DEF DescriptorInv
        <3>4. QED
            BY <3>2, <3>3
    <2>6. QED
        BY <1>1, <2>1, <2>5 DEF DescriptorInv
<1>3. CASE StoresDescriptor(s)
    <2>0. PICK g \in Files : g = FileOf(s)
        BY DEF FileOf, Files
    <2>1. /\ s \in opening /\ opening' = opening \ {s}
          /\ \E d \in {"own", "fd"} : direct' = [direct EXCEPT ![g] = d]
          /\ \/ opened' = [opened EXCEPT ![g] = @ + 1]
             \/ opened' = opened
        BY <1>3, <2>0 DEF StoresDescriptor
    <2>2. \A f \in Files : opened[f] \in Nat /\ direct[f] = direct[f]
        BY <1>1 DEF StoreTypeOK
    <2>3. ASSUME NEW f \in Files
          PROVE  /\ direct'[f] = "none" => opened'[f] = 0
                 /\ opened'[f] + Cardinality(Openers(f)') <= Cardinality(Slots)
        <3>1. CASE f = g
            <4>1. s \in Openers(g) /\ Openers(g)' = Openers(g) \ {s}
                BY <1>1, <2>0, <2>1 DEF Openers, StoreTypeOK
            <4>2. Cardinality(Openers(g) \ {s}) = Cardinality(Openers(g)) - 1
                BY <1>1, <2>1, <4>1, OpenersFinite, FS_RemoveElement
            <4>3. direct'[g] # "none" /\ opened'[g] <= opened[g] + 1
                  /\ opened'[g] \in Nat
                BY <1>1, <2>1, <2>2 DEF StoreTypeOK
            <4>4. opened[g] + Cardinality(Openers(g)) <= Cardinality(Slots)
                BY <2>1 DEF DescriptorInv
            <4>5. /\ Cardinality(Openers(g)) \in Nat /\ Cardinality(Slots) \in Nat
                  /\ opened[g] \in Nat
                BY <1>1, <2>1, <2>2, OpenersFinite
            <4>6. Cardinality(Openers(g)') = Cardinality(Openers(g)) - 1
                BY <4>1, <4>2
            <4>7. opened'[g] + Cardinality(Openers(g)') <= Cardinality(Slots)
                BY <4>3, <4>4, <4>5, <4>6
            <4>8. QED
                BY <3>1, <4>3, <4>7
        <3>2. CASE f # g
            <4>1. Openers(f)' = Openers(f)
                BY <1>1, <2>0, <2>1, <3>2 DEF Openers, StoreTypeOK
            <4>2. direct'[f] = direct[f] /\ opened'[f] = opened[f]
                BY <1>1, <2>1, <3>2 DEF StoreTypeOK
            <4>3. QED
                BY <4>1, <4>2 DEF DescriptorInv
        <3>3. QED
            BY <3>1, <3>2
    <2>4. \A t \in opening' : lpc'[t] # "idle"
        BY <1>1, <2>1 DEF DescriptorInv
    <2>5. QED
        BY <2>3, <2>4 DEF DescriptorInv
<1>4. QED
    BY <1>2, <1>3

LEMMA StoreKeepsDescriptors ==
    DescriptorInv /\ StoreTypeOK' /\ [StoreNext]_<<env, storeVars, halted>>
        => DescriptorInv'
<1> SUFFICES ASSUME DescriptorInv, StoreTypeOK', [StoreNext]_<<env, storeVars, halted>>
             PROVE  DescriptorInv'
    OBVIOUS
<1>1. ASSUME NEW s \in Slots, NEW e \in Experts, Begin(s, e) PROVE DescriptorInv'
    <2>1. s \notin opening
        BY <1>1 DEF Begin, DescriptorInv
    <2>2. \A t \in Slots \ {s} : lpc'[t] = lpc[t]
        BY <1>1 DEF Begin, DescriptorInv, StoreTypeOK
    <2>3. QED
        BY <1>1, <2>1, <2>2, StagesKeepDescriptors DEF Begin
<1>2. ASSUME NEW s \in Slots, LoadStep(s) PROVE DescriptorInv'
    <2>1. CASE MissesDescriptor(s) \/ StoresDescriptor(s)
        BY <2>1, DescriptorKeepsBound
    <2>2. CASE ~(MissesDescriptor(s) \/ StoresDescriptor(s))
        <3>1. s \notin opening /\ UNCHANGED <<opening, direct, opened>>
            BY <1>2, <2>2 DEF LoadStep, NotReusable, Flat, Reusable, GateUp,
               GateUpScales, GateUpBias, Down, DownScales, DownBias, At, storeRest
        <3>2. lpc' = lpc \/ \E p \in Stages \cup {"idle"} : lpc' = [lpc EXCEPT ![s] = p]
            BY <1>2, <2>2 DEF LoadStep, NotReusable, Flat, Reusable, GateUp,
               GateUpScales, GateUpBias, Down, DownScales, DownBias, Continues,
               GivesUp, Stages
        <3>3. \A t \in Slots \ {s} : lpc'[t] = lpc[t]
            BY <3>2 DEF DescriptorInv, StoreTypeOK
        <3>4. QED
            BY <3>1, <3>3, StagesKeepDescriptors
    <2>3. QED
        BY <2>1, <2>2
<1>3. CASE UNCHANGED <<env, storeVars>>
    BY <1>3 DEF DescriptorInv, storeVars, Openers, FileOf
<1>4. QED
    BY <1>1, <1>2, <1>3 DEF StoreNext

LEMMA StoreStartsClosed == StoreInit => DescriptorInv
<1> SUFFICES ASSUME StoreInit PROVE DescriptorInv
    OBVIOUS
<1>1. StoreTypeOK
    BY StoreStarts DEF StoreInv
<1>2. \A f \in Files : Openers(f) = {} /\ opened[f] = 0
    BY DEF StoreInit, Openers
<1>3. Cardinality({}) = 0 /\ Cardinality(Slots) \in Nat
    BY SlotsAssumption, FS_EmptySet, FS_CardinalityType
<1>4. \A f \in Files : opened[f] + Cardinality(Openers(f)) <= Cardinality(Slots)
    BY <1>2, <1>3
<1>5. QED
    BY <1>1, <1>2, <1>4 DEF DescriptorInv, StoreInit

(* However the threads race, each opens an unbuffered descriptor once.     *)
THEOREM StoreOpensFew == StoreSpec => []DescriptorsBounded
<1>1. DescriptorInv => DescriptorsBounded
    <2> SUFFICES ASSUME DescriptorInv, NEW f \in Files
                 PROVE  opened[f] <= Cardinality(Slots)
        BY DEF DescriptorsBounded
    <2>1. opened[f] \in Nat /\ StoreTypeOK
        BY DEF DescriptorInv, StoreTypeOK
    <2>2. QED
        BY <2>1, OpenersFinite DEF DescriptorInv
<1>2. StoreInv => StoreTypeOK
    BY DEF StoreInv
<1>3. QED
    BY <1>1, <1>2, StoreStartsClosed, StoreInvariant, StoreKeepsDescriptors, PTL
       DEF StoreSpec

=============================================================================
