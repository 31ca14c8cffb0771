---------------------------- MODULE ExpertCache ----------------------------
(***************************************************************************)
(* The per-layer cache of expert weights of picchio.c and the three kinds  *)
(* of threads that touch it: the main thread, which owns the LRU order and *)
(* computes with the slots; the prefetch worker, which fills slots the     *)
(* main thread reserved for predicted experts; and the asynchronous        *)
(* loader, which fills the slots of the current layer's misses.            *)
(*                                                                         *)
(* An expert's bytes are the expert's name: weights[s] = e says that the   *)
(* buffers of slot s hold the tensors of expert e.  last_used is kept as   *)
(* the order it induces (older), eclock and the statistics are left out.   *)
(* The pinned set is always empty in the code (npin is never assigned).    *)
(***************************************************************************)
EXTENDS Integers, FiniteSets

CONSTANTS
    Experts,       \* expert ids of a layer
    NLayers,       \* c.n_layers
    Slots,         \* positions of a layer's pool, m.ecap of them
    Topk,          \* c.topk
    Switches,      \* the settings the program may be started with
    NoExpert,      \* the eid -1
    NoSlot,        \* the NULL of out[]
    Dropped        \* an expert skipped because its load failed

(* Sizing done by main() before the cache is allocated (ecap is clamped to *)
(* [topk, n_experts]).                                                     *)
ASSUME SizeAssumption ==
    /\ NLayers \in Nat \ {0}
    /\ Topk \in Nat \ {0}
    /\ IsFiniteSet(Slots) /\ IsFiniteSet(Experts)
    /\ Topk <= Cardinality(Slots)
    /\ Cardinality(Slots) <= Cardinality(Experts)

(* The settings main() reads from the environment: PREFETCH (or PILOT),    *)
(* ASYNC_MOE, GPU_PREFETCH, which needs the prefetch thread, and GPU;      *)
(* readsMayFail says that some expert's tensors cannot be read.            *)
Settings == {v \in [pilot : BOOLEAN, asyncMoe : BOOLEAN, gpuPrefetch : BOOLEAN,
                    gpuOn : BOOLEAN, readsMayFail : BOOLEAN] :
               v.gpuPrefetch => v.pilot}

ASSUME SwitchesAssumption == Switches \subseteq Settings

ASSUME NamesAssumption ==
    /\ NoExpert \notin Experts
    /\ Dropped \notin Experts
    /\ Dropped # NoExpert
    /\ NoSlot \notin (1..NLayers) \X Slots

Layers == 1..NLayers
Ecap == Cardinality(Slots)
Pool == Layers \X Slots
Layer(s) == s[1]

Prefetcher == "prefetch"
Loader == "async"
Workers == {Prefetcher, Loader}

(* prefetch_issue leaves topk slots to the routing. *)
MaxReserve == Ecap - Topk

(* The loop over the layers has one after l; prefetch_issue accepts it.    *)
HasNextOrLast(l) == l <= NLayers
HasNext(l) == l < NLayers

VARIABLES
    env,  \* the settings of this process, never changed
    (* the pool: ESlot fields, per slot *)
    eid, weights, loading,
    (* the slots in use (those below ecn), and the order of last_used *)
    used, older,
    (* the main thread's control *)
    pc, mode, layer,
    (* the layer's work: experts to apply, experts not yet in a block *)
    routed, rest, nxt,
    (* one cache_load_batch: the batch and its passes *)
    batch, todo, missing, toload, cur, out,
    (* GPU decode: experts left unread because VRAM holds them *)
    unread, gpuFailed,
    (* what has been accumulated into the layer's output, per expert *)
    applied,
    (* prefetch_issue: target layer, predictions left to visit *)
    target, pred,
    (* g_pf and g_async_loader, indexed by Workers *)
    hasJob, shutdown, wpc, job, loaded

poolVars == <<eid, weights, loading, used, older>>
workVars == <<mode, layer, routed, rest, nxt>>
batchVars == <<batch, todo, missing, toload, cur, out>>
gpuVars == <<unread, gpuFailed>>
issueVars == <<target, pred>>
workerVars == <<hasJob, shutdown, wpc, job, loaded>>
vars == <<env, poolVars, pc, workVars, batchVars, gpuVars, applied, issueVars,
          workerVars>>

Pilot == env.pilot                 \* g_pilot_enabled
AsyncMoe == env.asyncMoe           \* g_async_moe_enabled
GpuPrefetch == env.gpuPrefetch     \* g_gpu_prefetch
GpuOn == env.gpuOn                 \* g_gpu_on
ReadsMayFail == env.readsMayFail
HasThread(w) == IF w = Prefetcher THEN Pilot ELSE AsyncMoe

(* Experts per block of a batched prefill: the whole pool without the      *)
(* prefetch thread, half of it with (two blocks share the pool).           *)
Half == IF Ecap \div 2 < 1 THEN 1 ELSE Ecap \div 2
ChunkOfPool == Ecap
Chunk == IF ~Pilot THEN Ecap
         ELSE IF MaxReserve >= 1 /\ Half > MaxReserve THEN MaxReserve
         ELSE Half

----------------------------------------------------------------------------
(* The LRU order *)

InUse(l) == {s \in used : Layer(s) = l}
Full(l) == \A s \in Pool : Layer(s) = l => s \in used

(* last_used = ++eclock on slot s, when S are the slots of its layer in    *)
(* use.                                                                    *)
Touch(s, S) ==
    {p \in older : p[1] # s /\ p[2] # s} \cup ((S \ {s}) \X {s})

(* Slots an eviction may look at: never one with a read in progress.       *)
EvictableLoading(l) == InUse(l)
Evictable(l) == {s \in InUse(l) : ~loading[s]}

(* The scan for a victim: an unused slot while there is one, else the      *)
(* least recently used candidate.  Which of the unused slots is taken does *)
(* not matter: the code takes them in the order of the array.              *)
(* (cache_load_batch has a last resort for a pool without candidates,      *)
(* AlwaysAVictim below says it is never needed.)                           *)
IsVictim(s, l, candidates) ==
    \/ Layer(s) = l /\ s \notin used
    \/ /\ Full(l)
       /\ s \in candidates
       /\ \A t \in candidates \ {s} : <<s, t>> \in older

(* Slot s is recycled and given to expert e.                               *)
Give(s, e) ==
    /\ eid' = [eid EXCEPT ![s] = e]
    /\ weights' = [weights EXCEPT ![s] = NoExpert]
    /\ used' = used \cup {s}
    /\ older' = Touch(s, InUse(Layer(s)))

(* The pool scan of pass 1 by expert id.                                   *)
Holds(s, l, e) == s \in InUse(l) /\ eid[s] = e
CachedNever(l, e) == FALSE
Cached(l, e) == \E s \in InUse(l) : eid[s] = e

(* expert_load into slot s: its buffers get e's tensors, or the load fails *)
(* and the slot is marked empty.                                           *)
ExpertLoad(s, e) ==
    \/ /\ eid' = [eid EXCEPT ![s] = e]
       /\ weights' = [weights EXCEPT ![s] = e]
    \/ /\ ReadsMayFail
       /\ eid' = [eid EXCEPT ![s] = NoExpert]
       /\ weights' = [weights EXCEPT ![s] = NoExpert]

----------------------------------------------------------------------------
(* Initial state: empty pools, started threads about to test for a job.    *)

NoJob == [s \in Pool |-> NoExpert]
NothingApplied == [e \in Experts |-> NoExpert]

Init ==
    /\ env \in Switches
    /\ eid = [s \in Pool |-> NoExpert]
    /\ weights = [s \in Pool |-> NoExpert]
    /\ loading = [s \in Pool |-> FALSE]
    /\ used = {} /\ older = {}
    /\ pc = "idle" /\ mode = "decode" /\ layer = 1
    /\ routed = {} /\ rest = {} /\ nxt = {}
    /\ batch = {} /\ todo = {} /\ missing = {} /\ toload = {}
    /\ cur = NoExpert /\ out = [e \in Experts |-> NoSlot]
    /\ unread = {} /\ gpuFailed = FALSE
    /\ applied = NothingApplied
    /\ target = 1 /\ pred = {}
    /\ hasJob = [w \in Workers |-> FALSE]
    /\ shutdown = [w \in Workers |-> FALSE]
    /\ wpc = [w \in Workers |-> IF HasThread(w) THEN "top" ELSE "exit"]
    /\ job = [w \in Workers |-> NoJob]
    /\ loaded = [w \in Workers |-> {}]

(* pthread_cond_signal: wakes the worker if it is waiting.                 *)
SignalLost(w) == wpc
Signalled(w) == IF wpc[w] = "wait" THEN [wpc EXCEPT ![w] = "top"] ELSE wpc

----------------------------------------------------------------------------
(* The main thread: one forward runs the layers in order.                  *)

StartForward(m) ==
    /\ pc = "idle"
    /\ pc' = "route" /\ mode' = m /\ layer' = 1
    /\ UNCHANGED <<env, poolVars, routed, rest, nxt, batchVars, gpuVars,
                   applied, issueVars, workerVars>>

(* A single-token MoE uses the asynchronous loader unless experts run on   *)
(* the GPU; a batched prefill always loads synchronously.                  *)
UsesAsync == AsyncMoe /\ ~GpuOn /\ mode = "decode"
UsesGpu == GpuOn /\ mode = "decode"

Subsets(k, S) == {T \in SUBSET S : Cardinality(T) = k}
FirstBlocks(S) == {B \in SUBSET S : \/ Cardinality(B) = Chunk
                                    \/ B = S /\ Cardinality(S) < Chunk}

(* Predictions for a layer: topk distinct experts, whichever they are.     *)
StartIssue(l, P) ==
    /\ pc' = "issue" /\ target' = l /\ pred' = P

(* moe_forward up to the cache request: the router picks topk experts; the *)
(* GPU says which of them it holds, and those are not read.                *)
RouteDecode(sel, resident) ==
    /\ pc = "route" /\ mode = "decode"
    /\ resident # {} => GpuOn
    /\ routed' = sel /\ rest' = {} /\ nxt' = {}
    /\ batch' = sel \ resident /\ todo' = sel \ resident
    /\ missing' = {} /\ toload' = {} /\ out' = [e \in Experts |-> NoSlot]
    /\ unread' = resident /\ gpuFailed' = FALSE
    /\ applied' = NothingApplied
    /\ IF GpuPrefetch /\ HasNext(layer)
       THEN \E P \in Subsets(Topk, Experts) : StartIssue(layer + 1, P)
       ELSE pc' = "batch" /\ UNCHANGED issueVars
    /\ UNCHANGED <<env, poolVars, mode, layer, cur, workerVars>>

(* Prefill: the positions route to the experts U of the layer, which are   *)
(* then visited in blocks of Chunk.                                        *)
RoutePrefill(U, B) ==
    /\ pc = "route" /\ mode = "prefill"
    /\ B \in FirstBlocks(U)
    /\ routed' = U
    /\ nxt' \in FirstBlocks(U \ B)
    /\ rest' = (U \ B) \ nxt'
    /\ batch' = B /\ todo' = B
    /\ missing' = {} /\ toload' = {} /\ out' = [e \in Experts |-> NoSlot]
    /\ unread' = {} /\ gpuFailed' = FALSE
    /\ applied' = NothingApplied
    /\ pc' = "batch"
    /\ UNCHANGED <<env, poolVars, mode, layer, cur, issueVars, workerVars>>

(* Pass 1 of cache_load_batch, one expert of the batch: a hit is taken     *)
(* (the synchronous version first waits until it is loaded), a miss is     *)
(* remembered.                                                             *)
Lookup(e) ==
    /\ pc = "batch"
    /\ todo' = todo \ {e}
    /\ \/ /\ Cached(layer, e)
          /\ \E s \in InUse(layer) :
                /\ Holds(s, layer, e)
                /\ out' = [out EXCEPT ![e] = s]
                /\ IF UsesAsync
                   THEN /\ older' = Touch(s, InUse(layer))
                        /\ UNCHANGED <<pc, cur>>
                   ELSE pc' = "waitready" /\ cur' = e /\ UNCHANGED older
          /\ UNCHANGED missing
       \/ /\ ~Cached(layer, e)
          /\ missing' = missing \cup {e}
          /\ UNCHANGED <<pc, cur, out, older>>
    /\ UNCHANGED <<env, eid, weights, loading, used, workVars, batch, toload,
                   gpuVars, applied, issueVars, workerVars>>

(* slot_wait_ready on the hit, then the touch.                             *)
HitNotTouched ==
    /\ pc = "waitready"
    /\ ~loading[out[cur]]
    /\ pc' = "batch" /\ cur' = NoExpert
    /\ UNCHANGED <<env, poolVars, workVars, batch, todo, missing, toload, out,
                   gpuVars, applied, issueVars, workerVars>>
HitNotAwaited ==
    /\ pc = "waitready"
    /\ older' = Touch(out[cur], InUse(layer))
    /\ pc' = "batch" /\ cur' = NoExpert
    /\ UNCHANGED <<env, eid, weights, loading, used, workVars, batch, todo,
                   missing, toload, out, gpuVars, applied, issueVars,
                   workerVars>>
HitReady ==
    /\ pc = "waitready"
    /\ ~loading[out[cur]]
    /\ older' = Touch(out[cur], InUse(layer))
    /\ pc' = "batch" /\ cur' = NoExpert
    /\ UNCHANGED <<env, eid, weights, loading, used, workVars, batch, todo,
                   missing, toload, out, gpuVars, applied, issueVars,
                   workerVars>>

MarksAlways == TRUE
MarksLoading == UsesAsync

(* Pass 2, one miss, once every expert is looked up: reserve a victim.     *)
(* The asynchronous version also marks it as loading.                      *)
Reserve(e, s) ==
    /\ pc = "batch" /\ todo = {}
    /\ IsVictim(s, layer, Evictable(layer))
    /\ Give(s, e)
    /\ missing' = missing \ {e}
    /\ toload' = toload \cup {e}
    /\ out' = [out EXCEPT ![e] = s]
    /\ loading' = [loading EXCEPT ![s] = MarksLoading]
    /\ UNCHANGED <<env, pc, workVars, batch, todo, cur, gpuVars, applied,
                   issueVars, workerVars>>

(* Pass 3: the reads of the misses, by up to IO_THREADS threads at once,   *)
(* in any order, once every miss has its slot.                             *)
LoadMiss(e) ==
    /\ pc = "batch" /\ ~UsesAsync
    /\ todo = {} /\ missing = {}
    /\ toload' = toload \ {e}
    /\ ExpertLoad(out[e], e)
    /\ UNCHANGED <<env, loading, used, older, pc, workVars, batch, todo,
                   missing, cur, out, gpuVars, applied, issueVars,
                   workerVars>>

(* The batch is available.  A batched prefill with the prefetch thread     *)
(* hands the next block over before computing this one.                    *)
BatchReady ==
    /\ pc = "batch" /\ ~UsesAsync
    /\ todo = {} /\ missing = {} /\ toload = {}
    /\ IF mode = "prefill" /\ Pilot /\ nxt # {}
       THEN StartIssue(layer, nxt)
       ELSE /\ pc' = IF ~UsesGpu THEN "compute"
                     ELSE IF gpuFailed THEN "reread" ELSE "gpu"
            /\ UNCHANGED issueVars
    /\ UNCHANGED <<env, poolVars, workVars, batchVars, gpuVars, applied,
                   workerVars>>

(* async_loader_submit: wait while a job is pending, then publish the      *)
(* misses as the next job.                                                 *)
SubmitBusy ==
    /\ pc = "batch" /\ UsesAsync
    /\ todo = {} /\ missing = {}
    /\ toload # {} /\ hasJob[Loader]
    /\ pc' = "submitwait"
    /\ UNCHANGED <<env, poolVars, workVars, batchVars, gpuVars, applied,
                   issueVars, workerVars>>

Submit ==
    /\ pc = "batch" /\ UsesAsync
    /\ todo = {} /\ missing = {}
    /\ toload = {} \/ ~hasJob[Loader]
    /\ pc' = "compute"
    /\ toload' = {}
    /\ IF toload = {} THEN UNCHANGED workerVars
       ELSE /\ job' = [job EXCEPT ![Loader] =
                 [s \in Pool |-> IF \E e \in toload : out[e] = s
                                 THEN CHOOSE e \in toload : out[e] = s
                                 ELSE NoExpert]]
            /\ hasJob' = [hasJob EXCEPT ![Loader] = TRUE]
            /\ wpc' = Signalled(Loader)
            /\ UNCHANGED <<shutdown, loaded>>
    /\ UNCHANGED <<env, poolVars, workVars, batch, todo, missing, cur, out,
                   gpuVars, applied, issueVars>>

(* What expert_apply adds for an expert whose slot is s: the product with  *)
(* whatever the buffers hold, or nothing if the slot is empty or recycled. *)
Contribution(s) ==
    IF NoExpert \in {eid[s], weights[s]} THEN Dropped ELSE weights[s]

(* One expert of the batch is computed.  Only the asynchronous loop tests  *)
(* the loading flag; the others rely on cache_load_batch.                  *)
Apply(e) ==
    /\ pc = "compute"
    /\ applied[e] = NoExpert
    /\ UsesAsync => ~loading[out[e]]
    /\ applied' = [applied EXCEPT ![e] = Contribution(out[e])]
    /\ UNCHANGED <<env, poolVars, pc, workVars, batchVars, gpuVars,
                   issueVars, workerVars>>

(* The GPU computes the whole sum, with its own copy of the experts that   *)
(* were not read, unless a slot is empty ...                               *)
GpuDone ==
    /\ pc = "gpu"
    /\ \A e \in batch : eid[out[e]] # NoExpert
    /\ applied' = [e \in Experts |->
                     IF e \in batch THEN Contribution(out[e])
                     ELSE IF e \in unread THEN e ELSE NoExpert]
    /\ pc' = "compute"
    /\ UNCHANGED <<env, poolVars, workVars, batchVars, gpuVars, issueVars,
                   workerVars>>

(* ... or the call fails, and the CPU needs every expert on the host.  (A  *)
(* failing copy of the answer may leave part of it in out: Offload.)       *)
GpuFailed ==
    /\ pc = "gpu"
    /\ gpuFailed' = TRUE
    /\ pc' = "reread"
    /\ UNCHANGED <<env, poolVars, workVars, batchVars, unread, applied,
                   issueVars, workerVars>>

(* The experts left unread are requested one at a time.                    *)
Reread(e) ==
    /\ pc = "reread"
    /\ unread' = unread \ {e}
    /\ batch' = batch \cup {e} /\ todo' = {e}
    /\ pc' = "batch"
    /\ UNCHANGED <<env, poolVars, workVars, missing, toload, cur, out,
                   gpuFailed, applied, issueVars, workerVars>>

EndReread ==
    /\ pc = "reread" /\ unread = {}
    /\ pc' = "compute"
    /\ UNCHANGED <<env, poolVars, workVars, batchVars, gpuVars, applied,
                   issueVars, workerVars>>

(* The batch is computed: the next block of a prefill, or the next layer.  *)
BatchComputedButLoading ==
    \A e \in batch : applied[e] # NoExpert \/ loading[out[e]]
BatchComputed == \A e \in batch : applied[e] # NoExpert

NextBlock ==
    /\ pc = "compute" /\ BatchComputed
    /\ nxt # {}
    /\ batch' = nxt /\ todo' = nxt
    /\ missing' = {} /\ toload' = {} /\ out' = [e \in Experts |-> NoSlot]
    /\ nxt' \in FirstBlocks(rest)
    /\ rest' = rest \ nxt'
    /\ pc' = "batch"
    /\ UNCHANGED <<env, poolVars, mode, layer, routed, cur, gpuVars, applied,
                   issueVars, workerVars>>

NextLayer ==
    IF HasNext(layer) THEN pc' = "route" /\ layer' = layer + 1
                       ELSE pc' = "idle" /\ UNCHANGED layer

(* After a decode layer, run_layer_range predicts the next layer's experts *)
(* and hands them to the prefetch thread (unless it was done before).      *)
LayerDone ==
    /\ pc = "compute" /\ BatchComputed
    /\ nxt = {}
    /\ IF mode = "decode" /\ Pilot /\ ~GpuPrefetch /\ HasNext(layer)
       THEN /\ \E P \in Subsets(Topk, Experts) : StartIssue(layer + 1, P)
            /\ UNCHANGED layer
       ELSE NextLayer /\ UNCHANGED issueVars
    /\ routed' = {} /\ batch' = {} /\ out' = [e \in Experts |-> NoSlot]
    /\ applied' = NothingApplied
    /\ UNCHANGED <<env, poolVars, mode, rest, nxt, todo, missing, toload,
                   cur, gpuVars, workerVars>>

----------------------------------------------------------------------------
(* prefetch_issue, on the main thread                                      *)

AfterIssue ==
    /\ pred' = {} /\ target' = 1
    /\ IF mode = "prefill" THEN pc' = "compute" /\ UNCHANGED layer
       ELSE IF GpuPrefetch THEN pc' = "batch" /\ UNCHANGED layer
       ELSE NextLayer

(* The early returns: no slot to spare, the lock is taken (the worker is   *)
(* testing for a job), or the previous job has not ended.                  *)
IssueSkipped ==
    /\ pc = "issue"
    /\ MaxReserve <= 0 \/ wpc[Prefetcher] = "top" \/ hasJob[Prefetcher]
    /\ AfterIssue
    /\ UNCHANGED <<env, poolVars, mode, routed, rest, nxt, batchVars,
                   gpuVars, applied, workerVars>>

(* With the lock held (pc = "reserve") the worker cannot test or finish.   *)
IssueLocked ==
    /\ pc = "issue"
    /\ MaxReserve > 0 /\ ~hasJob[Prefetcher]
    /\ pc' = "reserve"
    /\ UNCHANGED <<env, poolVars, workVars, batchVars, gpuVars, applied,
                   issueVars, workerVars>>

Reserved == {s \in Pool : job[Prefetcher][s] # NoExpert}
PrefetchVictims == Evictable(target) \ Reserved
MoreToReserve ==
    /\ pred # {} /\ Cardinality(Reserved) < MaxReserve
    /\ (\E e \in pred : ~Cached(target, e)) =>
          ~Full(target) \/ PrefetchVictims # {}

PredictionCached(e) ==
    /\ pc = "reserve" /\ MoreToReserve
    /\ Cached(target, e)
    /\ pred' = pred \ {e}
    /\ UNCHANGED <<env, poolVars, pc, workVars, batchVars, gpuVars, applied,
                   target, workerVars>>

ReserveAhead(e, s) ==
    /\ pc = "reserve" /\ MoreToReserve
    /\ ~Cached(target, e)
    /\ IsVictim(s, target, PrefetchVictims)
    /\ Give(s, e)
    /\ loading' = [loading EXCEPT ![s] = TRUE]
    /\ pred' = pred \ {e}
    /\ job' = [job EXCEPT ![Prefetcher][s] = e]
    /\ UNCHANGED <<env, pc, workVars, batchVars, gpuVars, applied, target,
                   hasJob, shutdown, wpc, loaded>>

IssueDone ==
    /\ pc = "reserve" /\ ~MoreToReserve
    /\ AfterIssue
    /\ IF Reserved = {} THEN UNCHANGED workerVars
       ELSE /\ hasJob' = [hasJob EXCEPT ![Prefetcher] = TRUE]
            /\ wpc' = Signalled(Prefetcher)
            /\ UNCHANGED <<shutdown, job, loaded>>
    /\ UNCHANGED <<env, poolVars, mode, routed, rest, nxt, batchVars,
                   gpuVars, applied>>

----------------------------------------------------------------------------
(* The two workers.  Top is the test of the loop, made with the mutex held *)
(* and atomic with the decision to wait.                                   *)

TopWaits(w) ==
    /\ wpc[w] = "top"
    /\ w = Prefetcher => pc # "reserve"
    /\ wpc' = [wpc EXCEPT ![w] = IF shutdown[w] THEN "exit" ELSE "wait"]
    /\ UNCHANGED <<env, poolVars, pc, workVars, batchVars, gpuVars, applied,
                   issueVars, hasJob, shutdown, job, loaded>>
Top(w) ==
    /\ wpc[w] = "top"
    /\ w = Prefetcher => pc # "reserve"
    /\ wpc' = [wpc EXCEPT ![w] = IF shutdown[w] THEN "exit"
                                 ELSE IF hasJob[w] THEN "run" ELSE "wait"]
    /\ UNCHANGED <<env, poolVars, pc, workVars, batchVars, gpuVars, applied,
                   issueVars, hasJob, shutdown, job, loaded>>

(* One slot of the job is read, unless the program is shutting down ...    *)
Load(w, s) ==
    /\ wpc[w] = "run"
    /\ job[w][s] # NoExpert /\ s \notin loaded[w]
    /\ IF shutdown[w] THEN UNCHANGED <<eid, weights>>
                      ELSE ExpertLoad(s, job[w][s])
    /\ loaded' = [loaded EXCEPT ![w] = @ \cup {s}]
    /\ UNCHANGED <<env, loading, used, older, pc, workVars, batchVars,
                   gpuVars, applied, issueVars, hasJob, shutdown, wpc, job>>

(* ... and published, whether it was read or not.                          *)
Publish(w, s) ==
    /\ wpc[w] = "run"
    /\ s \in loaded[w]
    /\ loading' = [loading EXCEPT ![s] = FALSE]
    /\ job' = [job EXCEPT ![w][s] = NoExpert]
    /\ loaded' = [loaded EXCEPT ![w] = @ \ {s}]
    /\ UNCHANGED <<env, eid, weights, used, older, pc, workVars, batchVars,
                   gpuVars, applied, issueVars, hasJob, shutdown, wpc>>

(* The loader's broadcast wakes a main thread waiting to submit or to shut *)
(* the loader down.                                                        *)
BroadcastLost == pc
Broadcast == CASE pc = "submitwait" -> "batch"
               [] pc = "stopwait" -> "stoploader"
               [] OTHER -> pc

(* The job is over.  The prefetch thread signals nobody.                   *)
Finish(w) ==
    /\ wpc[w] = "run"
    /\ job[w] = NoJob
    /\ hasJob' = [hasJob EXCEPT ![w] = FALSE]
    /\ wpc' = [wpc EXCEPT ![w] = "top"]
    /\ pc' = IF w = Loader THEN Broadcast ELSE pc
    /\ UNCHANGED <<env, poolVars, workVars, batchVars, gpuVars, applied,
                   issueVars, shutdown, job, loaded>>

PrefetchLoad(s) == Load(Prefetcher, s)
PrefetchPublish(s) == Publish(Prefetcher, s)
LoaderLoad(s) == Load(Loader, s)
LoaderPublish(s) == Publish(Loader, s)

----------------------------------------------------------------------------
(* The exit of main: pilot_shutdown, async_loader_shutdown, st_close.      *)

PilotShutdown ==
    /\ pc = "idle"
    /\ pc' = "joinprefetch"
    /\ IF Pilot THEN /\ shutdown' = [shutdown EXCEPT ![Prefetcher] = TRUE]
                     /\ wpc' = Signalled(Prefetcher)
                ELSE UNCHANGED <<shutdown, wpc>>
    /\ UNCHANGED <<env, poolVars, workVars, batchVars, gpuVars, applied,
                   issueVars, hasJob, job, loaded>>

PilotJoined ==
    /\ pc = "joinprefetch" /\ wpc[Prefetcher] = "exit"
    /\ pc' = "stoploader"
    /\ UNCHANGED <<env, poolVars, workVars, batchVars, gpuVars, applied,
                   issueVars, workerVars>>

LoaderShutdown ==
    /\ pc = "stoploader"
    /\ IF hasJob[Loader]
       THEN pc' = "stopwait" /\ UNCHANGED <<shutdown, wpc>>
       ELSE /\ pc' = "joinloader"
            /\ IF AsyncMoe THEN /\ shutdown' = [shutdown EXCEPT ![Loader] = TRUE]
                                /\ wpc' = Signalled(Loader)
                           ELSE UNCHANGED <<shutdown, wpc>>
    /\ UNCHANGED <<env, poolVars, workVars, batchVars, gpuVars, applied,
                   issueVars, hasJob, job, loaded>>

StoreClosed ==
    /\ pc = "joinloader" /\ wpc[Loader] = "exit"
    /\ pc' = "closed"
    /\ UNCHANGED <<env, poolVars, workVars, batchVars, gpuVars, applied,
                   issueVars, workerVars>>

Terminated == pc = "closed" /\ UNCHANGED vars

----------------------------------------------------------------------------
Forward ==
    \/ \E sel \in Subsets(Topk, Experts) :
          \E resident \in SUBSET sel : RouteDecode(sel, resident)
    \/ \E U \in SUBSET Experts : \E B \in SUBSET U :
          Cardinality(U) >= Topk /\ RoutePrefill(U, B)
    \/ \E e \in todo : Lookup(e)
    \/ HitReady
    \/ \E e \in missing, s \in Pool : Reserve(e, s)
    \/ \E e \in toload : LoadMiss(e)
    \/ BatchReady \/ SubmitBusy \/ Submit
    \/ \E e \in batch : Apply(e)
    \/ GpuDone \/ GpuFailed \/ EndReread
    \/ \E e \in unread : Reread(e)
    \/ NextBlock \/ LayerDone

Issue ==
    \/ IssueSkipped \/ IssueLocked \/ IssueDone
    \/ \E e \in pred : PredictionCached(e)
    \/ \E e \in pred, s \in Pool : ReserveAhead(e, s)

Exit == PilotJoined \/ LoaderShutdown \/ StoreClosed

Prefetch == \/ Top(Prefetcher) \/ Finish(Prefetcher)
            \/ \E s \in Pool : PrefetchLoad(s) \/ PrefetchPublish(s)
AsyncLoad == \/ Top(Loader) \/ Finish(Loader)
             \/ \E s \in Pool : LoaderLoad(s) \/ LoaderPublish(s)

Next ==
    \/ StartForward("decode") \/ StartForward("prefill")
    \/ Forward \/ Issue
    \/ PilotShutdown \/ Exit
    \/ Prefetch \/ AsyncLoad
    \/ Terminated

Spec == Init /\ [][Next]_vars

(* Every thread that can run keeps running; nobody is obliged to start     *)
(* another forward.                                                        *)
FairSpec == Spec /\ WF_vars(Forward \/ Issue) /\ WF_vars(Exit)
                 /\ WF_vars(Prefetch) /\ WF_vars(AsyncLoad)

----------------------------------------------------------------------------
(* Properties.  (Definitions above whose name says what they leave out --  *)
(* HitNotTouched, CachedNever, SignalLost ... -- are mutated forms of the  *)
(* definition that follows them, which the properties must reject.)        *)

Fetching == {s \in Pool : \E w \in Workers : job[w][s] # NoExpert}

Pcs == {"idle", "route", "batch", "waitready",
        "submitwait", "compute", "gpu", "reread", "issue", "reserve",
        "joinprefetch", "stoploader", "stopwait", "joinloader", "closed"}

PoolOK ==
    /\ eid \in [Pool -> Experts \cup {NoExpert}]
    /\ weights \in [Pool -> Experts \cup {NoExpert}]
    /\ loading \in [Pool -> BOOLEAN]
    /\ used \subseteq Pool
    /\ older \subseteq Pool \X Pool
ControlOK ==
    /\ pc \in Pcs /\ mode \in {"decode", "prefill"} /\ layer \in Layers
    /\ routed \subseteq Experts
    /\ rest \subseteq Experts /\ nxt \subseteq Experts
BatchOK ==
    /\ batch \subseteq Experts /\ todo \subseteq Experts
    /\ missing \subseteq Experts /\ toload \subseteq Experts
    /\ unread \subseteq Experts
    /\ cur \in Experts \cup {NoExpert}
    /\ out \in [Experts -> Pool \cup {NoSlot}]
    /\ gpuFailed \in BOOLEAN
    /\ applied \in [Experts -> Experts \cup {NoExpert, Dropped}]
IssueOK == target \in Layers /\ pred \subseteq Experts
WorkersOK ==
    /\ hasJob \in [Workers -> BOOLEAN] /\ shutdown \in [Workers -> BOOLEAN]
    /\ wpc \in [Workers -> {"top", "wait", "run", "exit"}]
    /\ job \in [Workers -> [Pool -> Experts \cup {NoExpert}]]
    /\ loaded \in [Workers -> SUBSET Pool]

(* The variables have their types: in particular the main thread never     *)
(* asks for a layer, or predicts for one, beyond the last.                 *)
TypeOK ==
    /\ env \in Switches
    /\ PoolOK /\ ControlOK /\ BatchOK /\ IssueOK /\ WorkersOK

(* picchio.c:1420-1425 and 1745-1763: a slot handed out for a batch keeps  *)
(* its expert until the batch is computed, and no two experts share a      *)
(* slot; neither a later miss nor a reservation made ahead takes it.  (A   *)
(* slot whose load failed holds no expert.)                                *)
BatchIntact ==
    \A e \in batch :
        out[e] # NoSlot =>
            /\ eid[out[e]] \in {e, NoExpert}
            /\ \A f \in batch \ {e} : out[f] # out[e]

(* What has been added to the layer's output for an expert was computed    *)
(* with that expert's own weights, and an expert is left out only when its *)
(* read failed.                                                            *)
OwnWeights ==
    \A e \in Experts :
        applied[e] \in {NoExpert, e} \cup (IF ReadsMayFail THEN {Dropped} ELSE {})

(* No thread writes the buffers of a slot the main thread reads or writes: *)
(* while a batch is computed its unfinished slots are outside every job    *)
(* (the asynchronous loop excepts the slots it still sees as loading), and *)
(* the slots of the two workers' jobs are disjoint.                        *)
SingleWriter ==
    /\ \A s \in Pool : job[Prefetcher][s] = NoExpert \/ job[Loader][s] = NoExpert
    /\ ~UsesAsync => \A e \in toload : out[e] \notin Fetching
    /\ pc \in {"compute", "gpu"} =>
         \A e \in batch : /\ applied[e] = NoExpert /\ out[e] \in Fetching
                          => UsesAsync /\ loading[out[e]]

(* A slot is marked as loading exactly while some thread owes it its       *)
(* release: no reader waits for a slot that nobody is going to publish.    *)
LoadingIsOwed ==
    \A s \in Pool : loading[s] <=>
        \/ s \in Fetching
        \/ pc \in {"batch", "submitwait"} /\ UsesAsync
           /\ \E e \in toload : out[e] = s

(* Two slots of a layer never hold the same expert, so the scan by id of   *)
(* pass 1 and of prefetch_issue cannot find the wrong one.                 *)
NoDuplicate ==
    \A s, t \in Pool :
        Layer(s) = Layer(t) /\ s # t /\ eid[s] # NoExpert => eid[s] # eid[t]

(* picchio.c:1451-1454 and 1761-1762: however many slots are being filled  *)
(* ahead, a miss of the batch finds one that is unused, or neither loading *)
(* nor handed out to the same batch; the last-resort wait on pool[0] of    *)
(* pass 2 is never taken.                                                  *)
AlwaysAVictim ==
    pc = "batch" /\ todo = {} /\ missing # {} =>
        ~Full(layer) \/ Evictable(layer) \ {out[e] : e \in batch} # {}

(* The victim of an eviction is a slot no thread is filling.               *)
NoEvictionUnderRead ==
    [][\A s \in Pool : loading[s] /\ eid'[s] # eid[s] => eid'[s] = NoExpert]_vars

(* A forward that starts ends: neither a wait for a prefetched slot, nor   *)
(* the wait to submit, nor the loop over the slots being read can hang.    *)
ForwardEnds == pc = "route" ~> pc = "idle"

(* The shutdown ends, whatever the workers were doing.                     *)
ShutdownEnds == pc = "joinprefetch" ~> pc = "closed"

(* Every job handed to a worker is finished, so that the next prediction   *)
(* or the next misses can be handed over: no signal is lost.  (A shutdown  *)
(* may leave a job that the worker never took.)                            *)
JobsEnd == \A w \in Workers : hasJob[w] ~> ~hasJob[w] \/ shutdown[w]

(* The layers of this module are those of MoELayer: no step of the cache,  *)
(* of a worker or of the GPU path adds a contribution twice, adds one with *)
(* other weights, or ends a layer early.                                   *)
Promise == INSTANCE MoELayer WITH lossy <- ReadsMayFail, want <- routed,
                                  sum <- applied
ImplementsMoELayer == Promise!Spec

=============================================================================
