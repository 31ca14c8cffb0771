---------------------------- MODULE ExpertStore ----------------------------
(***************************************************************************)
(* How the tensors of an expert reach the buffers of a cache slot          *)
(* (expert_load): from the flat store (flat.h), else straight into a slab  *)
(* the slot keeps from one expert to the next, else tensor by tensor from  *)
(* the safetensors shards (st.h).  Several I/O threads load different      *)
(* slots at once and share the files' descriptors, opened on first use.    *)
(*                                                                         *)
(* A buffer's bytes are the expert they were read from, or Noise when a    *)
(* read stopped early and nobody noticed.  Any read may stop early.        *)
(***************************************************************************)
EXTENDS Integers, FiniteSets

CONSTANTS
    Experts,   \* the experts of a layer
    Slots,     \* the slots of its pool
    Setups,    \* settings of the process, with what its files hold
    NoExpert,  \* the eid -1
    Noise,
    None       \* NULL

Weights == {"gu", "gus", "d", "ds"}    \* gu.q4 or gu.qf, gu.s, d.q4 or d.qf, d.s
Biases == {"gub", "db"}                \* gu_bias, d_bias
Fields == Weights \cup Biases

(* What the files hold of an expert.                                       *)
(*   flat    its entry in the flat file: none, one that fits the           *)
(*           configuration, one of another size, one with damaged bytes    *)
(*   tensors gs64: the four tensors expert_load_reusable asks for;         *)
(*           packed: U8 tensors it does not take; float: F32 or BF16;      *)
(*           nodown: no down projection, or one of a type expert_load does *)
(*           not read; absent: no gate and up projection, one of such a    *)
(*           type, or no database                                          *)
(*   bias    none, plain F32, or packed four bits with scales              *)
Storage == [flat : {"none", "fits", "othersize", "damaged"},
            tensors : {"gs64", "packed", "float", "nodown", "absent"},
            bias : {"none", "plain", "packed"}]

(* A buffer: a block of its own or a place in the slot's slab, allocated   *)
(* for an expert, with the bytes of an expert or of nobody.                *)
Block == [at : {"own", "slab"}, of : Experts, has : Experts \cup {Noise}]

ASSUME NamesAssumption ==
    /\ NoExpert \notin Experts /\ Noise \notin Experts /\ Noise # NoExpert
    /\ None \notin Block
ASSUME SlotsAssumption == IsFiniteSet(Slots)
ASSUME SetupsAssumption ==
    \A v \in Setups : /\ v.files \in [Experts -> Storage]
                      /\ v.direct \in BOOLEAN /\ v.verify \in BOOLEAN
                      /\ v.reuse \in BOOLEAN

VARIABLES
    env,      \* st_direct, flat verify, g_expert_reuse, the files
    eid,      \* ESlot.eid
    buf,      \* per slot and field: None, or where it points and what is there
    slab,     \* per slot: "none", "plain" or "reusable"
    lpc,      \* per slot, the stage of the thread that loads it, or "idle"
    opening,  \* slots whose thread saw no descriptor and is opening one
    direct,   \* per file, fd_direct: "none", "own" or "fd" (the buffered one)
    opened,   \* per file, unbuffered descriptors opened so far
    lost,     \* experts one of whose blocks no slot points to any more
    halted    \* the process has exited

storeVars == <<eid, buf, slab, lpc, opening, direct, opened, lost>>

Files == {"flat", "st"}
Of(e) == env.files[e]
Empty == [f \in Fields |-> None]
Own(e, has) == [at |-> "own", of |-> e, has |-> has]     \* a block of its own
InSlab(e, has) == [at |-> "slab", of |-> e, has |-> has]

StoreInit ==
    /\ env \in Setups
    /\ eid = [s \in Slots |-> NoExpert]
    /\ buf = [s \in Slots |-> Empty]
    /\ slab = [s \in Slots |-> "none"]
    /\ lpc = [s \in Slots |-> "idle"]
    /\ opening = {} /\ direct = [f \in Files |-> "none"]
    /\ opened = [f \in Files |-> 0]
    /\ lost = {} /\ halted = FALSE

-----------------------------------------------------------------------------
(* The memory of a slot                                                    *)

(* The owners of the blocks that would be forgotten if these fields of a   *)
(* slot were overwritten.                                                  *)
Forgotten(b, fields) ==
    {b[f].of : f \in {g \in fields : b[g] # None /\ b[g].at = "own"}}

(* free_slot_buffers: the slab and nothing else, or each buffer; then the  *)
(* biases.                                                                 *)
FreedLoss(s) == IF slab[s] # "none" THEN Forgotten(buf[s], Weights) ELSE {}

(* recycle_slot_buffers, when the victim holds an expert: a reusable slab  *)
(* is kept, its pointers are cleared.                                      *)
KeepsSlab(s) == env.reuse /\ slab[s] = "reusable"
RecycledLoss(s) ==
    IF eid[s] = NoExpert THEN {}
    ELSE IF KeepsSlab(s) THEN Forgotten(buf[s], Weights) ELSE FreedLoss(s)

(* A slot is given to expert e and a thread starts expert_load on it.      *)
Begin(s, e) ==
    /\ lpc[s] = "idle"
    /\ LET kept == IF eid[s] = NoExpert \/ KeepsSlab(s) THEN slab[s] ELSE "none"
           frees == kept = "reusable" /\ Of(e).flat # "none"
       IN  /\ slab' = [slab EXCEPT ![s] = IF frees THEN "none" ELSE kept]
           /\ buf' = [buf EXCEPT ![s] =
                        IF eid[s] = NoExpert /\ ~frees THEN @ ELSE Empty]
           /\ lost' = lost \cup RecycledLoss(s)
    /\ eid' = [eid EXCEPT ![s] = e]
    /\ lpc' = [lpc EXCEPT ![s] = "flat"]
    /\ UNCHANGED <<env, opening, direct, opened, halted>>

-----------------------------------------------------------------------------
(* Reads.  A thread that needs the unbuffered descriptor tests fd_direct,  *)
(* opens the file and stores what it got, or the buffered descriptor when  *)
(* that fails, without a lock; both outcomes can be read from.             *)

FileOf(s) == IF lpc[s] = "flat" THEN "flat" ELSE "st"
Stages == {"flat", "reuse", "gu", "gus", "gub", "d", "ds", "db"}

(* Whether the stage reads at all.                                         *)
Reads(s) ==
    LET x == Of(eid[s])
    IN  CASE lpc[s] = "flat" -> x.flat \in {"fits", "damaged"}
          [] lpc[s] = "reuse" -> env.reuse /\ x.tensors = "gs64"
          [] lpc[s] = "gu" -> x.tensors # "absent"
          [] lpc[s] = "d" -> x.tensors # "nodown"
          [] lpc[s] \in Biases -> x.bias # "none"
          [] OTHER -> TRUE

HasDescriptor(f) == direct[f] # "none"

OpensAgain(s) ==                   \* a mutant of MissesDescriptor
    /\ ~halted /\ env.direct
    /\ lpc[s] # "idle" /\ Reads(s) /\ s \notin opening
    /\ opening' = opening \cup {s}
    /\ UNCHANGED <<env, eid, buf, slab, lpc, direct, opened, lost, halted>>
MissesDescriptor(s) ==
    /\ ~halted /\ env.direct
    /\ lpc[s] # "idle" /\ Reads(s) /\ s \notin opening
    /\ ~HasDescriptor(FileOf(s))
    /\ opening' = opening \cup {s}
    /\ UNCHANGED <<env, eid, buf, slab, lpc, direct, opened, lost, halted>>

StoresDescriptor(s) ==
    /\ ~halted /\ s \in opening
    /\ opening' = opening \ {s}
    /\ \/ /\ direct' = [direct EXCEPT ![FileOf(s)] = "own"]
          /\ opened' = [opened EXCEPT ![FileOf(s)] = @ + 1]
       \/ direct' = [direct EXCEPT ![FileOf(s)] = "fd"] /\ UNCHANGED opened
    /\ UNCHANGED <<env, eid, buf, slab, lpc, lost, halted>>

(* Slot s is at the stage, and the descriptor it would use is there.       *)
At(s, stage) ==
    /\ ~halted /\ lpc[s] = stage /\ s \notin opening
    /\ env.direct /\ Reads(s) => HasDescriptor(FileOf(s))

(* A read fills its destination, or both the unbuffered attempt and the    *)
(* buffered one stop early.                                                *)
Outcomes == {"full", "short"}
Filled(s, outcome) == IF outcome = "full" THEN eid[s] ELSE Noise

-----------------------------------------------------------------------------
(* The stages of expert_load                                               *)

(* The fields in new are assigned, without looking at what they held.      *)
With(new, old) == [f \in Fields |-> IF f \in DOMAIN new THEN new[f] ELSE old[f]]
Assigns(s, new) ==
    /\ buf' = [buf EXCEPT ![s] = With(new, @)]
    /\ lost' = lost \cup Forgotten(buf[s], DOMAIN new)
Continues(s, stage) == lpc' = [lpc EXCEPT ![s] = stage] /\ UNCHANGED eid
GivesUp(s) ==
    /\ eid' = [eid EXCEPT ![s] = NoExpert]
    /\ lpc' = [lpc EXCEPT ![s] = "idle"]
storeRest == <<env, opening, direct, opened>>

(* expert_load_flat: a whole expert in one read, checked against the hash  *)
(* of the index when asked to.                                             *)
Flat(s, outcome) ==
    LET e == eid[s]
        damaged == Of(e).flat = "damaged"
    IN  /\ At(s, "flat")
        /\ IF Reads(s) /\ outcome = "full" /\ ~(damaged /\ env.verify)
           THEN /\ Assigns(s, [f \in Weights |->
                                 InSlab(e, IF damaged THEN Noise ELSE e)])
                /\ slab' = [slab EXCEPT ![s] = "plain"]
                /\ Continues(s, "gub")
           ELSE Continues(s, "reuse") /\ UNCHANGED <<buf, slab, lost>>
        /\ UNCHANGED <<storeRest, halted>>

(* free_slot_buffers *)
Frees(s) ==
    /\ buf' = [buf EXCEPT ![s] = Empty]
    /\ slab' = [slab EXCEPT ![s] = "none"]
    /\ lost' = lost \cup FreedLoss(s)

(* expert_load_reusable refuses: the other layouts do not use a slab.      *)
NotReusable(s) ==
    /\ At(s, "reuse") /\ ~Reads(s)
    /\ IF slab[s] = "reusable" THEN Frees(s) ELSE UNCHANGED <<buf, slab, lost>>
    /\ IF Of(eid[s]).tensors = "absent" THEN GivesUp(s) ELSE Continues(s, "gu")
    /\ UNCHANGED <<storeRest, halted>>

(* Four tensors into one slab; the slot's own when it is large enough.  A  *)
(* short read ends the process.                                            *)
ReusableIgnoring(s, outcome, enough) ==     \* a mutant of Reusable
    LET e == eid[s]
        kept == slab[s] = "reusable" /\ enough
        new == [f \in Weights |-> InSlab(e, Filled(s, outcome))]
    IN  /\ At(s, "reuse") /\ Reads(s)
        /\ buf' = [buf EXCEPT ![s] = With(new, IF kept THEN @ ELSE Empty)]
        /\ lost' = lost \cup IF kept THEN Forgotten(buf[s], Weights)
                                     ELSE FreedLoss(s)
        /\ slab' = [slab EXCEPT ![s] = "reusable"]
        /\ Continues(s, "gub") /\ UNCHANGED <<storeRest, halted>>
Reusable(s, outcome, enough) ==
    LET e == eid[s]
        kept == slab[s] = "reusable" /\ enough
        new == [f \in Weights |-> InSlab(e, e)]
    IN  /\ At(s, "reuse") /\ Reads(s)
        /\ IF outcome = "short"
           THEN halted' = TRUE /\ UNCHANGED <<eid, buf, slab, lpc, lost>>
           ELSE /\ buf' = [buf EXCEPT ![s] = With(new, IF kept THEN @ ELSE Empty)]
                /\ lost' = lost \cup IF kept THEN Forgotten(buf[s], Weights)
                                             ELSE FreedLoss(s)
                /\ slab' = [slab EXCEPT ![s] = "reusable"]
                /\ Continues(s, "gub") /\ UNCHANGED halted
        /\ UNCHANGED storeRest

(* The gate and up projections, a buffer for each tensor.  Only the packed *)
(* payload's length is compared.                                           *)
GateUp(s, outcome) ==
    LET e == eid[s]
        float == Of(e).tensors = "float"
        dropped == ~float /\ outcome = "short"
        gu == IF dropped THEN None ELSE Own(e, Filled(s, outcome))
    IN  /\ At(s, "gu")
        /\ Assigns(s, [gu |-> gu, gus |-> None])
        /\ IF dropped THEN GivesUp(s) ELSE Continues(s, IF float THEN "gub" ELSE "gus")
        /\ UNCHANGED <<storeRest, slab, halted>>

GateUpScales(s, outcome) ==
    /\ At(s, "gus")
    /\ Assigns(s, [gus |-> Own(eid[s], Filled(s, outcome))])
    /\ Continues(s, "gub")
    /\ UNCHANGED <<storeRest, slab, halted>>

(* load_expert_bias: a plain bias read short counts as no bias; of a       *)
(* packed one nothing is compared.                                         *)
Bias(s, outcome) ==
    CASE Of(eid[s]).bias = "none" -> None
      [] Of(eid[s]).bias = "plain" ->
            IF outcome = "full" THEN Own(eid[s], eid[s]) ELSE None
      [] OTHER -> Own(eid[s], Filled(s, outcome))
GateUpBias(s, outcome) ==
    /\ At(s, "gub")
    /\ Assigns(s, [gub |-> Bias(s, outcome)])
    /\ Continues(s, IF slab[s] # "none" THEN "db" ELSE "d")
    /\ UNCHANGED <<storeRest, slab, halted>>

(* The down projection.  When its payload cannot be read the gate and up   *)
(* buffers are freed with it; when it is missing or of another type they   *)
(* are not.                                                                *)
DownKeeping(s, outcome) ==     \* a mutant of Down
    LET e == eid[s]
        float == Of(e).tensors = "float"
        missing == Of(e).tensors = "nodown"
    IN  /\ At(s, "d")
        /\ CASE missing -> GivesUp(s) /\ UNCHANGED <<buf, lost>>
             [] ~missing /\ ~float /\ outcome = "short" ->
                    Assigns(s, [d |-> None, ds |-> None]) /\ GivesUp(s)
             [] OTHER ->
                    /\ Assigns(s, [d |-> Own(e, Filled(s, outcome)), ds |-> None])
                    /\ Continues(s, IF float THEN "db" ELSE "ds")
        /\ UNCHANGED <<storeRest, slab, halted>>
Down(s, outcome) ==
    LET e == eid[s]
        float == Of(e).tensors = "float"
        missing == Of(e).tensors = "nodown"
    IN  /\ At(s, "d")
        /\ CASE missing -> GivesUp(s) /\ UNCHANGED <<buf, lost>>
             [] ~missing /\ ~float /\ outcome = "short" ->
                    /\ buf' = [buf EXCEPT ![s] = Empty]
                    /\ lost' = lost \cup Forgotten(buf[s], {"d", "ds"})
                    /\ GivesUp(s)
             [] OTHER ->
                    /\ Assigns(s, [d |-> Own(e, Filled(s, outcome)), ds |-> None])
                    /\ Continues(s, IF float THEN "db" ELSE "ds")
        /\ UNCHANGED <<storeRest, slab, halted>>

DownScales(s, outcome) ==
    /\ At(s, "ds")
    /\ Assigns(s, [ds |-> Own(eid[s], Filled(s, outcome))])
    /\ Continues(s, "db")
    /\ UNCHANGED <<storeRest, slab, halted>>

DownBias(s, outcome) ==
    /\ At(s, "db")
    /\ Assigns(s, [db |-> Bias(s, outcome)])
    /\ Continues(s, "idle")
    /\ UNCHANGED <<storeRest, slab, halted>>

LoadStep(s) ==
    \/ MissesDescriptor(s) \/ StoresDescriptor(s)
    \/ NotReusable(s)
    \/ \E outcome \in Outcomes :
          \/ Flat(s, outcome)
          \/ \E enough \in BOOLEAN : Reusable(s, outcome, enough)
          \/ GateUp(s, outcome) \/ GateUpScales(s, outcome)
          \/ GateUpBias(s, outcome)
          \/ Down(s, outcome) \/ DownScales(s, outcome) \/ DownBias(s, outcome)

(* The store under any use: slots are given away when nobody loads them,   *)
(* and the process may exit.                                               *)
StoreNext ==
    \/ \E s \in Slots, e \in Experts : Begin(s, e)
    \/ \E s \in Slots : LoadStep(s)
    \/ halted' = TRUE /\ UNCHANGED <<env, storeVars>>
StoreSpec == StoreInit /\ [][StoreNext]_<<env, storeVars, halted>>

-----------------------------------------------------------------------------
(* Properties *)

StoreTypeOK ==
    /\ env \in Setups
    /\ eid \in [Slots -> Experts \cup {NoExpert}]
    /\ buf \in [Slots -> [Fields -> Block \cup {None}]]
    /\ slab \in [Slots -> {"none", "plain", "reusable"}]
    /\ lpc \in [Slots -> Stages \cup {"idle"}]
    /\ opening \subseteq Slots
    /\ direct \in [Files -> {"none", "own", "fd"}]
    /\ opened \in [Files -> Nat]
    /\ lost \subseteq Experts
    /\ halted \in BOOLEAN

(* The fields of a published slot whose reads the code compares with the   *)
(* size it asked for: everything that came in a slab, and packed payloads. *)
(* Scales, float payloads and packed biases read tensor by tensor are not  *)
(* among them, nor damaged bytes that nobody verifies.                     *)
Compared(s) ==
    IF slab[s] # "none" THEN Weights
    ELSE IF Of(eid[s]).tensors = "float" THEN {} ELSE {"gu", "d"}
Trusted(e) == Of(e).flat = "damaged" => env.verify

(* picchio.c:1017-1020 ("read errors are fatal rather than silently        *)
(* dropping a selected expert or using stale slot contents") and 1151-1152 *)
(* ("drop the expert rather than compute with corrupt weights"): whichever *)
(* of the three layouts served it, after whatever fallbacks and previous   *)
(* occupants, the compared tensors of a published slot are whole and its   *)
(* own.                                                                    *)
WholeParts ==
    \A s \in Slots :
        lpc[s] = "idle" /\ eid[s] # NoExpert /\ Trusted(eid[s]) =>
            \A f \in Compared(s) : buf[s][f] # None /\ buf[s][f].has = eid[s]

(* picchio.c:1262-1263 and 1332-1359: a block is freed or some slot points *)
(* to it, through every change of layout of its slot, and nothing points   *)
(* into a slab that is gone.  The gate and up buffers of an expert whose   *)
(* down projection is missing, or of a type that is not read (1292-1299),  *)
(* are the exception.                                                      *)
NoBlockLost ==
    /\ \A e \in lost : Of(e).tensors = "nodown"
    /\ \A s \in Slots : \A f \in Fields :
          buf[s][f] # None /\ buf[s][f].at = "slab" => slab[s] # "none"

(* flat.h:301-306 and st.h:550-555: the threads may race to open the       *)
(* unbuffered descriptor, but each of them opens it once at most.          *)
DescriptorsBounded == \A f \in Files : opened[f] <= Cardinality(Slots)

=============================================================================
