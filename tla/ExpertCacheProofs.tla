------------------------- MODULE ExpertCacheProofs -------------------------
(***************************************************************************)
(* Theorems about ExpertCache, for every number of layers, slots and       *)
(* experts and for every combination of the settings: first its types and  *)
(* the ownership of loading slots, then what happens to a batch, and that  *)
(* the cache implements MoELayer.                                          *)
(***************************************************************************)
EXTENDS ExpertCache, FiniteSetTheorems, TLAPS

USE DEF Prefetcher, Loader

----------------------------------------------------------------------------
(* The inductive invariant                                                 *)

(* How far a batch is: an expert leaves todo for a slot or for missing,    *)
(* and missing for a slot and toload; outside the two lists it has a slot. *)
Placed == batch \ (todo \cup missing)
Settled ==
    \/ pc \in {"compute", "gpu", "reread", "submitwait"}
    \/ pc \in {"issue", "reserve"} /\ mode = "prefill"
Passes ==
    /\ todo \subseteq batch /\ missing \subseteq batch /\ toload \subseteq Placed
    /\ todo \cap missing = {}
    /\ todo # {} => toload = {}
    /\ \A e \in Placed : out[e] \in used
    /\ pc \notin {"batch", "submitwait"} => toload = {}
    /\ pc = "waitready" => cur \in Placed
    /\ pc = "submitwait" => UsesAsync
    /\ Settled => todo = {} /\ missing = {}

(* A worker's job lasts from the hand-over to has_job = 0; only            *)
(* prefetch_issue, holding the lock, writes a job before it is handed over.*)
Jobs ==
    /\ pc = "reserve" => ~hasJob[Prefetcher]
    /\ \A w \in Workers :
          /\ wpc[w] = "run" => hasJob[w]
          /\ loaded[w] # {} => wpc[w] = "run"
          /\ \A s \in loaded[w] : job[w][s] # NoExpert
          /\ (hasJob[w] \/ (w = Prefetcher /\ pc = "reserve") \/ job[w] = NoJob)

(* The slots reserved by cache_load_batch_async and not yet submitted.     *)
Unsubmitted(s) ==
    /\ pc \in {"batch", "submitwait"} /\ UsesAsync
    /\ \E e \in toload : out[e] = s

(* Who owns the slots being loaded.  No two owners share one.              *)
Owners ==
    /\ LoadingIsOwed
    /\ \A s \in Pool : job[Prefetcher][s] = NoExpert \/ job[Loader][s] = NoExpert
    /\ \A e \in toload : out[e] \notin Fetching
    /\ Fetching \subseteq used

(* A slot keeps the expert it was reserved for until its read starts.      *)
Ids ==
    /\ \A w \in Workers, s \in Pool :
          job[w][s] # NoExpert =>
              \/ eid[s] = job[w][s]
              \/ s \in loaded[w] /\ eid[s] = NoExpert
    /\ UsesAsync => \A e \in toload : eid[out[e]] = e

CacheInv == TypeOK /\ Passes /\ Jobs /\ Owners /\ Ids

(* What the type invariant needs to know of the settings of a process.     *)
LEMMA SettingsTypes ==
    ASSUME env \in Switches
    PROVE  /\ Pilot \in BOOLEAN /\ AsyncMoe \in BOOLEAN
           /\ GpuPrefetch \in BOOLEAN /\ GpuOn \in BOOLEAN
           /\ ReadsMayFail \in BOOLEAN
BY SwitchesAssumption DEF Settings, Pilot, AsyncMoe, GpuPrefetch, GpuOn,
                          ReadsMayFail

LEMMA TypeInit == Init => TypeOK
<1> SUFFICES ASSUME Init PROVE TypeOK
    OBVIOUS
<1>1. env \in Switches
    BY DEF Init
<1>2. PoolOK
    BY DEF Init, PoolOK
<1>3. ControlOK
    BY SizeAssumption DEF Init, ControlOK, Layers, Pcs
<1>4. BatchOK
    BY DEF Init, BatchOK, NothingApplied
<1>5. IssueOK
    BY SizeAssumption DEF Init, IssueOK, Layers
<1>6. WorkersOK
    <2>1. wpc \in [Workers -> {"top", "wait", "run", "exit"}]
        BY DEF Init
    <2>2. QED
        BY <2>1 DEF Init, WorkersOK, NoJob
<1>7. QED
    BY <1>1, <1>2, <1>3, <1>4, <1>5, <1>6 DEF TypeOK

(* A chosen victim is a slot of its layer's pool.                          *)
LEMMA GiveTypes ==
    ASSUME TypeOK, NEW s \in Pool, NEW e \in Experts, Give(s, e)
    PROVE  /\ eid' \in [Pool -> Experts \cup {NoExpert}]
           /\ weights' \in [Pool -> Experts \cup {NoExpert}]
           /\ used' \subseteq Pool
           /\ older' \subseteq Pool \X Pool
BY DEF TypeOK, PoolOK, Give, Touch, InUse

LEMMA TouchTypes ==
    ASSUME TypeOK, NEW s \in Pool, NEW l \in Layers
    PROVE  Touch(s, InUse(l)) \subseteq Pool \X Pool
BY DEF TypeOK, PoolOK, Touch, InUse

LEMMA ExpertLoadTypes ==
    ASSUME TypeOK, NEW s \in Pool, NEW e \in Experts, ExpertLoad(s, e)
    PROVE  /\ eid' \in [Pool -> Experts \cup {NoExpert}]
           /\ weights' \in [Pool -> Experts \cup {NoExpert}]
BY DEF TypeOK, PoolOK, ExpertLoad

(* Every step of the program keeps the types. *)
LEMMA TypeStep == TypeOK /\ Passes /\ [Next]_vars => TypeOK'
<1> SUFFICES ASSUME TypeOK, Passes, [Next]_vars PROVE TypeOK'
    OBVIOUS
<1> USE SizeAssumption DEF TypeOK, PoolOK, ControlOK, BatchOK, IssueOK, WorkersOK,
        Pcs, poolVars, workVars, batchVars, gpuVars, issueVars, workerVars
<1>1. ASSUME NEW m \in {"decode", "prefill"}, StartForward(m)
      PROVE TypeOK'
    BY <1>1 DEF StartForward, Layers
<1>2. ASSUME NEW sel \in Subsets(Topk, Experts), NEW resident \in SUBSET sel,
             RouteDecode(sel, resident)
      PROVE TypeOK'
    <2>1. sel \subseteq Experts /\ NothingApplied \in [Experts -> Experts \cup {NoExpert, Dropped}]
        BY DEF Subsets, NothingApplied
    <2>2. target' \in Layers /\ pred' \subseteq Experts /\ pc' \in Pcs
        BY <1>2 DEF RouteDecode, Subsets, StartIssue, HasNext, Layers
    <2>3. QED
        BY <1>2, <2>1, <2>2 DEF RouteDecode
<1>3. ASSUME NEW U \in SUBSET Experts, NEW B \in SUBSET U, RoutePrefill(U, B)
      PROVE TypeOK'
    BY <1>3 DEF RoutePrefill, FirstBlocks, NothingApplied
<1>4. ASSUME NEW e \in todo, Lookup(e)
      PROVE TypeOK'
    <2>1. pc' \in Pcs /\ cur' \in Experts \cup {NoExpert} /\ missing' \subseteq Experts
        BY <1>4 DEF Lookup
    <2>2. \A s \in InUse(layer) : s \in Pool /\ Touch(s, InUse(layer)) \subseteq Pool \X Pool
        BY TouchTypes DEF InUse
    <2>3. older' \subseteq Pool \X Pool
        BY <1>4, <2>2 DEF Lookup
    <2>4. out' \in [Experts -> Pool \cup {NoSlot}]
        BY <1>4, <2>2 DEF Lookup
    <2>5. QED
        BY <1>4, <2>1, <2>3, <2>4 DEF Lookup
<1>5. CASE HitReady
    <2>1. out[cur] \in Pool
        BY <1>5 DEF HitReady, Passes, Placed
    <2>2. older' \subseteq Pool \X Pool
        BY <1>5, <2>1, TouchTypes DEF HitReady
    <2>3. QED
        BY <1>5, <2>2 DEF HitReady
<1>6. ASSUME NEW e \in missing, NEW s \in Pool, Reserve(e, s)
      PROVE TypeOK'
    <2>1. /\ eid' \in [Pool -> Experts \cup {NoExpert}]
          /\ weights' \in [Pool -> Experts \cup {NoExpert}]
          /\ used' \subseteq Pool /\ older' \subseteq Pool \X Pool
        BY <1>6, GiveTypes DEF Reserve
    <2>2. UsesAsync \in BOOLEAN
        BY SettingsTypes DEF UsesAsync
    <2>3. loading' \in [Pool -> BOOLEAN] /\ out' \in [Experts -> Pool \cup {NoSlot}]
        BY <1>6, <2>2 DEF Reserve, MarksLoading
    <2>4. QED
        BY <1>6, <2>1, <2>3 DEF Reserve
<1>7. ASSUME NEW e \in toload, LoadMiss(e)
      PROVE TypeOK'
    <2>1. out[e] \in Pool /\ e \in Experts
        BY DEF Passes
    <2>2. /\ eid' \in [Pool -> Experts \cup {NoExpert}]
          /\ weights' \in [Pool -> Experts \cup {NoExpert}]
        BY <1>7, <2>1, ExpertLoadTypes DEF LoadMiss
    <2>3. QED
        BY <1>7, <2>2 DEF LoadMiss
<1>8. CASE BatchReady
    <2>1. pc' \in Pcs /\ target' \in Layers /\ pred' \subseteq Experts
        BY <1>8 DEF BatchReady, StartIssue
    <2>2. QED
        BY <1>8, <2>1 DEF BatchReady
<1>9. CASE SubmitBusy
    BY <1>9 DEF SubmitBusy
<1>10. CASE Submit
    <2>1. job' \in [Workers -> [Pool -> Experts \cup {NoExpert}]]
        <3>1. CASE toload = {}
            BY <1>10, <3>1 DEF Submit
        <3>2. CASE toload # {}
            <4> DEFINE J == [s \in Pool |-> IF \E e \in toload : out[e] = s
                                           THEN CHOOSE e \in toload : out[e] = s
                                           ELSE NoExpert]
            <4>1. J \in [Pool -> Experts \cup {NoExpert}]
                OBVIOUS
            <4>2. job' = [job EXCEPT ![Loader] = J]
                BY <1>10, <3>2 DEF Submit
            <4>3. QED
                BY <4>1, <4>2
        <3>3. QED
            BY <3>1, <3>2
    <2>2. /\ hasJob' \in [Workers -> BOOLEAN]
          /\ wpc' \in [Workers -> {"top", "wait", "run", "exit"}]
          /\ UNCHANGED <<shutdown, loaded>>
        BY <1>10 DEF Submit, Signalled
    <2>3. QED
        BY <1>10, <2>1, <2>2 DEF Submit
<1>11. ASSUME NEW e \in batch, Apply(e)
      PROVE TypeOK'
    <2>1. out[e] \in Pool
        BY <1>11 DEF Apply, Passes, Placed, Settled
    <2>2. Contribution(out[e]) \in Experts \cup {NoExpert, Dropped}
        BY <2>1 DEF Contribution
    <2>3. QED
        BY <1>11, <2>2 DEF Apply
<1>12. CASE GpuDone
    <2>1. \A e \in batch : Contribution(out[e]) \in Experts \cup {NoExpert, Dropped}
        BY <1>12 DEF GpuDone, Passes, Placed, Settled, Contribution
    <2>2. applied' \in [Experts -> Experts \cup {NoExpert, Dropped}]
        BY <1>12, <2>1 DEF GpuDone
    <2>3. QED
        BY <1>12, <2>2 DEF GpuDone
<1>13. CASE GpuFailed
    BY <1>13 DEF GpuFailed
<1>14. ASSUME NEW e \in unread, Reread(e)
      PROVE TypeOK'
    BY <1>14 DEF Reread
<1>15. CASE EndReread
    BY <1>15 DEF EndReread
<1>16. CASE NextBlock
    BY <1>16 DEF NextBlock, FirstBlocks
<1>17. CASE LayerDone
    <2>1. target' \in Layers /\ pred' \subseteq Experts /\ pc' \in Pcs /\ layer' \in Layers
        BY <1>17 DEF LayerDone, StartIssue, NextLayer, HasNext, Subsets, Layers
    <2>2. applied' \in [Experts -> Experts \cup {NoExpert, Dropped}]
        BY <1>17 DEF LayerDone, NothingApplied
    <2>3. QED
        BY <1>17, <2>1, <2>2 DEF LayerDone
<1>18. CASE IssueSkipped
    <2>1. target' \in Layers /\ pred' \subseteq Experts /\ pc' \in Pcs /\ layer' \in Layers
        BY <1>18 DEF IssueSkipped, AfterIssue, NextLayer, HasNext, Layers
    <2>2. QED
        BY <1>18, <2>1 DEF IssueSkipped
<1>19. CASE IssueLocked
    BY <1>19 DEF IssueLocked
<1>20. ASSUME NEW e \in pred, PredictionCached(e)
      PROVE TypeOK'
    BY <1>20 DEF PredictionCached
<1>21. ASSUME NEW e \in pred, NEW s \in Pool, ReserveAhead(e, s)
      PROVE TypeOK'
    <2>1. /\ eid' \in [Pool -> Experts \cup {NoExpert}]
          /\ weights' \in [Pool -> Experts \cup {NoExpert}]
          /\ used' \subseteq Pool /\ older' \subseteq Pool \X Pool
        BY <1>21, GiveTypes DEF ReserveAhead
    <2>2. loading' \in [Pool -> BOOLEAN] /\ WorkersOK'
        BY <1>21 DEF ReserveAhead
    <2>3. QED
        BY <1>21, <2>1, <2>2 DEF ReserveAhead
<1>22. CASE IssueDone
    <2>1. target' \in Layers /\ pred' \subseteq Experts /\ pc' \in Pcs /\ layer' \in Layers
        BY <1>22 DEF IssueDone, AfterIssue, NextLayer, HasNext, Layers
    <2>2. WorkersOK'
        BY <1>22 DEF IssueDone, Signalled
    <2>3. QED
        BY <1>22, <2>1, <2>2 DEF IssueDone
<1>23. CASE PilotShutdown
    BY <1>23 DEF PilotShutdown, Signalled
<1>24. CASE PilotJoined
    BY <1>24 DEF PilotJoined
<1>25. CASE LoaderShutdown
    BY <1>25 DEF LoaderShutdown, Signalled
<1>26. CASE StoreClosed
    BY <1>26 DEF StoreClosed
<1>27. ASSUME NEW w \in Workers, Top(w)
      PROVE TypeOK'
    BY <1>27 DEF Top
<1>28. ASSUME NEW w \in Workers, NEW s \in Pool, Load(w, s)
      PROVE TypeOK'
    <2>1. job[w][s] \in Experts
        BY <1>28 DEF Load
    <2>2. /\ eid' \in [Pool -> Experts \cup {NoExpert}]
          /\ weights' \in [Pool -> Experts \cup {NoExpert}]
        BY <1>28, <2>1, ExpertLoadTypes DEF Load
    <2>3. QED
        BY <1>28, <2>2 DEF Load
<1>29. ASSUME NEW w \in Workers, NEW s \in Pool, Publish(w, s)
      PROVE TypeOK'
    BY <1>29 DEF Publish
<1>30. ASSUME NEW w \in Workers, Finish(w)
      PROVE TypeOK'
    BY <1>30 DEF Finish, Broadcast
<1>31. CASE UNCHANGED vars
    BY <1>31 DEF vars
<1>32. QED
    BY <1>1, <1>2, <1>3, <1>4, <1>5, <1>6, <1>7, <1>8, <1>9, <1>10, <1>11,
       <1>12, <1>13, <1>14, <1>15, <1>16, <1>17, <1>18, <1>19, <1>20, <1>21,
       <1>22, <1>23, <1>24, <1>25, <1>26, <1>27, <1>28, <1>29, <1>30, <1>31
       DEF Next, Forward, Issue, Exit, Prefetch, AsyncLoad, Terminated,
           Workers, PrefetchLoad, PrefetchPublish, LoaderLoad, LoaderPublish

(* Every step keeps the passes of cache_load_batch in their order. *)
LEMMA PassesStep == TypeOK /\ Passes /\ [Next]_vars => Passes'
<1> SUFFICES ASSUME TypeOK, Passes, [Next]_vars PROVE Passes'
    OBVIOUS
<1> USE DEF TypeOK, PoolOK, ControlOK, BatchOK, Passes, Placed, Settled, UsesAsync,
        AsyncMoe, GpuOn, poolVars, workVars,
        batchVars, gpuVars, issueVars, workerVars
<1>1. ASSUME NEW m \in {"decode", "prefill"}, StartForward(m)
      PROVE Passes'
    BY <1>1 DEF StartForward
<1>2. ASSUME NEW sel \in Subsets(Topk, Experts), NEW resident \in SUBSET sel,
             RouteDecode(sel, resident)
      PROVE Passes'
    <2>1. /\ todo' = batch' /\ missing' = {} /\ toload' = {}
          /\ pc' \in {"issue", "batch"} /\ mode' = "decode"
        BY <1>2 DEF RouteDecode, StartIssue
    <2>2. Placed' = {}
        BY <2>1
    <2>3. QED
        BY <2>1, <2>2
<1>3. ASSUME NEW U \in SUBSET Experts, NEW B \in SUBSET U, RoutePrefill(U, B)
      PROVE Passes'
    BY <1>3 DEF RoutePrefill
<1>4. ASSUME NEW e \in todo, Lookup(e)
      PROVE Passes'
    <2>1. /\ todo' = todo \ {e} /\ batch' = batch /\ toload' = toload /\ used' = used
          /\ mode' = mode /\ env' = env /\ pc = "batch"
        BY <1>4 DEF Lookup
    <2>2. CASE missing' = missing
        <3>1. PICK s \in used : out' = [out EXCEPT ![e] = s]
            BY <1>4, <2>2 DEF Lookup, InUse
        <3>2. pc' = pc \/ (pc' = "waitready" /\ cur' = e)
            BY <1>4, <2>2 DEF Lookup
        <3>3. QED
            BY <2>1, <2>2, <3>1, <3>2
    <2>3. CASE missing' = missing \cup {e}
        <3>1. pc' = pc /\ out' = out /\ cur' = cur
            BY <1>4, <2>3 DEF Lookup
        <3>2. QED
            BY <2>1, <2>3, <3>1
    <2>4. QED
        BY <1>4, <2>2, <2>3 DEF Lookup
<1>5. CASE HitReady
    BY <1>5 DEF HitReady
<1>6. ASSUME NEW e \in missing, NEW s \in Pool, Reserve(e, s)
      PROVE Passes'
    BY <1>6 DEF Reserve, Give
<1>7. ASSUME NEW e \in toload, LoadMiss(e)
      PROVE Passes'
    BY <1>7 DEF LoadMiss
<1>8. CASE BatchReady
    BY <1>8 DEF BatchReady, StartIssue
<1>9. CASE SubmitBusy
    BY <1>9 DEF SubmitBusy
<1>10. CASE Submit
    BY <1>10 DEF Submit
<1>11. ASSUME NEW e \in batch, Apply(e)
      PROVE Passes'
    BY <1>11 DEF Apply
<1>12. CASE GpuDone
    BY <1>12 DEF GpuDone
<1>13. CASE GpuFailed
    BY <1>13 DEF GpuFailed
<1>14. ASSUME NEW e \in unread, Reread(e)
      PROVE Passes'
    BY <1>14 DEF Reread
<1>15. CASE EndReread
    BY <1>15 DEF EndReread
<1>16. CASE NextBlock
    BY <1>16 DEF NextBlock
<1>17. CASE LayerDone
    BY <1>17 DEF LayerDone, StartIssue, NextLayer
<1>18. CASE IssueSkipped
    BY <1>18 DEF IssueSkipped, AfterIssue, NextLayer
<1>19. CASE IssueLocked
    BY <1>19 DEF IssueLocked
<1>20. ASSUME NEW e \in pred, PredictionCached(e)
      PROVE Passes'
    BY <1>20 DEF PredictionCached
<1>21. ASSUME NEW e \in pred, NEW s \in Pool, ReserveAhead(e, s)
      PROVE Passes'
    BY <1>21 DEF ReserveAhead, Give
<1>22. CASE IssueDone
    BY <1>22 DEF IssueDone, AfterIssue, NextLayer
<1>23. CASE PilotShutdown
    BY <1>23 DEF PilotShutdown
<1>24. CASE PilotJoined
    BY <1>24 DEF PilotJoined
<1>25. CASE LoaderShutdown
    BY <1>25 DEF LoaderShutdown
<1>26. CASE StoreClosed
    BY <1>26 DEF StoreClosed
<1>27. ASSUME NEW w \in Workers, Top(w)
      PROVE Passes'
    BY <1>27 DEF Top
<1>28. ASSUME NEW w \in Workers, NEW s \in Pool, Load(w, s)
      PROVE Passes'
    BY <1>28 DEF Load
<1>29. ASSUME NEW w \in Workers, NEW s \in Pool, Publish(w, s)
      PROVE Passes'
    BY <1>29 DEF Publish
<1>30. ASSUME NEW w \in Workers, Finish(w)
      PROVE Passes'
    BY <1>30 DEF Finish, Broadcast
<1>31. CASE UNCHANGED vars
    BY <1>31 DEF vars
<1>32. QED
    BY <1>1, <1>2, <1>3, <1>4, <1>5, <1>6, <1>7, <1>8, <1>9, <1>10, <1>11,
       <1>12, <1>13, <1>14, <1>15, <1>16, <1>17, <1>18, <1>19, <1>20, <1>21,
       <1>22, <1>23, <1>24, <1>25, <1>26, <1>27, <1>28, <1>29, <1>30, <1>31
       DEF Next, Forward, Issue, Exit, Prefetch, AsyncLoad, Terminated,
           Workers, PrefetchLoad, PrefetchPublish, LoaderLoad, LoaderPublish

(* Every step keeps a job together until it is finished. *)
LEMMA JobsStep == TypeOK /\ Jobs /\ [Next]_vars => Jobs'
<1> SUFFICES ASSUME TypeOK, Jobs, [Next]_vars PROVE Jobs'
    OBVIOUS
<1> USE DEF TypeOK, WorkersOK, Jobs, Workers, poolVars, workVars, batchVars,
        gpuVars, issueVars, workerVars
<1>1. ASSUME NEW m \in {"decode", "prefill"}, StartForward(m)
      PROVE Jobs'
    BY <1>1 DEF StartForward
<1>2. ASSUME NEW sel \in Subsets(Topk, Experts), NEW resident \in SUBSET sel,
             RouteDecode(sel, resident)
      PROVE Jobs'
    BY <1>2 DEF RouteDecode, StartIssue
<1>3. ASSUME NEW U \in SUBSET Experts, NEW B \in SUBSET U, RoutePrefill(U, B)
      PROVE Jobs'
    BY <1>3 DEF RoutePrefill
<1>4. ASSUME NEW e \in todo, Lookup(e)
      PROVE Jobs'
    BY <1>4 DEF Lookup, InUse
<1>5. CASE HitReady
    BY <1>5 DEF HitReady
<1>6. ASSUME NEW e \in missing, NEW s \in Pool, Reserve(e, s)
      PROVE Jobs'
    BY <1>6 DEF Reserve, Give
<1>7. ASSUME NEW e \in toload, LoadMiss(e)
      PROVE Jobs'
    BY <1>7 DEF LoadMiss
<1>8. CASE BatchReady
    BY <1>8 DEF BatchReady, StartIssue
<1>9. CASE SubmitBusy
    BY <1>9 DEF SubmitBusy
<1>10. CASE Submit
    BY <1>10 DEF Submit, Signalled
<1>11. ASSUME NEW e \in batch, Apply(e)
      PROVE Jobs'
    BY <1>11 DEF Apply
<1>12. CASE GpuDone
    BY <1>12 DEF GpuDone
<1>13. CASE GpuFailed
    BY <1>13 DEF GpuFailed
<1>14. ASSUME NEW e \in unread, Reread(e)
      PROVE Jobs'
    BY <1>14 DEF Reread
<1>15. CASE EndReread
    BY <1>15 DEF EndReread
<1>16. CASE NextBlock
    BY <1>16 DEF NextBlock
<1>17. CASE LayerDone
    BY <1>17 DEF LayerDone, StartIssue, NextLayer
<1>18. CASE IssueSkipped
    BY <1>18 DEF IssueSkipped, AfterIssue, NextLayer
<1>19. CASE IssueLocked
    BY <1>19 DEF IssueLocked
<1>20. ASSUME NEW e \in pred, PredictionCached(e)
      PROVE Jobs'
    BY <1>20 DEF PredictionCached
<1>21. ASSUME NEW e \in pred, NEW s \in Pool, ReserveAhead(e, s)
      PROVE Jobs'
    BY <1>21 DEF ReserveAhead, Give
<1>22. CASE IssueDone
    <2>1. Reserved = {} => job[Prefetcher] = NoJob
        BY DEF Reserved, NoJob
    <2>2. pc' # "reserve"
        BY <1>22 DEF IssueDone, AfterIssue, NextLayer
    <2>3. QED
        BY <1>22, <2>1, <2>2 DEF IssueDone, Signalled
<1>23. CASE PilotShutdown
    BY <1>23 DEF PilotShutdown, Signalled
<1>24. CASE PilotJoined
    BY <1>24 DEF PilotJoined
<1>25. CASE LoaderShutdown
    BY <1>25 DEF LoaderShutdown, Signalled
<1>26. CASE StoreClosed
    BY <1>26 DEF StoreClosed
<1>27. ASSUME NEW w \in Workers, Top(w)
      PROVE Jobs'
    BY <1>27 DEF Top
<1>28. ASSUME NEW w \in Workers, NEW s \in Pool, Load(w, s)
      PROVE Jobs'
    BY <1>28 DEF Load
<1>29. ASSUME NEW w \in Workers, NEW s \in Pool, Publish(w, s)
      PROVE Jobs'
    BY <1>29 DEF Publish
<1>30. ASSUME NEW w \in Workers, Finish(w)
      PROVE Jobs'
    <2>1. job[w] = NoJob /\ job' = job /\ loaded' = loaded
        BY <1>30 DEF Finish
    <2>2. loaded[w] = {}
        BY <2>1 DEF NoJob
    <2>3. pc' = "reserve" <=> pc = "reserve"
        BY <1>30 DEF Finish, Broadcast
    <2>4. QED
        BY <1>30, <2>1, <2>2, <2>3 DEF Finish
<1>31. CASE UNCHANGED vars
    BY <1>31 DEF vars
<1>32. QED
    BY <1>1, <1>2, <1>3, <1>4, <1>5, <1>6, <1>7, <1>8, <1>9, <1>10, <1>11,
       <1>12, <1>13, <1>14, <1>15, <1>16, <1>17, <1>18, <1>19, <1>20, <1>21,
       <1>22, <1>23, <1>24, <1>25, <1>26, <1>27, <1>28, <1>29, <1>30, <1>31
       DEF Next, Forward, Issue, Exit, Prefetch, AsyncLoad, Terminated,
           Workers, PrefetchLoad, PrefetchPublish, LoaderLoad, LoaderPublish

(* The victim of an eviction is nobody's: no job holds it, and it is not a *)
(* slot the asynchronous version has reserved and not yet submitted.       *)
LEMMA VictimIsFree ==
    ASSUME TypeOK, Passes, Owners, NEW s \in Pool, NEW l \in Layers, NEW C,
           C \subseteq Evictable(l), IsVictim(s, l, C)
    PROVE  s \notin Fetching /\ (pc = "batch" /\ UsesAsync => \A e \in toload : out[e] # s)
<1>1. s \notin used \/ ~loading[s]
    BY DEF IsVictim, Evictable
<1>2. s \notin Fetching
    BY <1>1 DEF Owners, LoadingIsOwed
<1>3. ASSUME pc = "batch", UsesAsync, NEW e \in toload PROVE out[e] # s
    BY <1>1, <1>3 DEF Owners, LoadingIsOwed, Passes
<1>4. QED
    BY <1>2, <1>3

(* Every step keeps the ownership of the slots being filled. *)
LEMMA OwnersStep == TypeOK /\ Passes /\ Jobs /\ Owners /\ [Next]_vars => Owners'
<1> SUFFICES ASSUME TypeOK, Passes, Jobs, Owners, [Next]_vars PROVE Owners'
    OBVIOUS
<1> USE DEF TypeOK, PoolOK, BatchOK, WorkersOK, ControlOK, IssueOK, Workers, Owners,
        LoadingIsOwed, Fetching, poolVars, workVars, batchVars, gpuVars,
        issueVars, workerVars
<1>1. ASSUME NEW m \in {"decode", "prefill"}, StartForward(m)
      PROVE Owners'
    BY <1>1 DEF StartForward, Passes, Settled, UsesAsync, AsyncMoe, GpuOn
<1>2. ASSUME NEW sel \in Subsets(Topk, Experts), NEW resident \in SUBSET sel,
             RouteDecode(sel, resident)
      PROVE Owners'
    BY <1>2 DEF RouteDecode, Passes, Settled, UsesAsync, AsyncMoe, GpuOn, StartIssue
<1>3. ASSUME NEW U \in SUBSET Experts, NEW B \in SUBSET U, RoutePrefill(U, B)
      PROVE Owners'
    BY <1>3 DEF RoutePrefill, Passes, Settled, UsesAsync, AsyncMoe, GpuOn
<1>4. ASSUME NEW e \in todo, Lookup(e)
      PROVE Owners'
    BY <1>4 DEF Lookup, Passes, Settled, UsesAsync, AsyncMoe, GpuOn
<1>5. CASE HitReady
    BY <1>5 DEF HitReady, Passes, Settled, UsesAsync, AsyncMoe, GpuOn
<1>6. ASSUME NEW e \in missing, NEW s \in Pool, Reserve(e, s)
      PROVE Owners'
    <2>1. s \notin Fetching
        BY <1>6, VictimIsFree DEF Reserve
    <2>2. UsesAsync' = UsesAsync
        BY <1>6 DEF Reserve, UsesAsync, AsyncMoe, GpuOn
    <2>3. e \notin toload /\ e \in Experts
        BY DEF Passes, Placed
    <2>4. /\ loading' = [loading EXCEPT ![s] = UsesAsync]
          /\ toload' = toload \cup {e} /\ out' = [out EXCEPT ![e] = s]
          /\ used' = used \cup {s} /\ job' = job /\ pc = "batch" /\ pc' = "batch"
        BY <1>6 DEF Reserve, Give, MarksLoading
    <2>5. QED
        BY <2>1, <2>2, <2>3, <2>4
<1>7. ASSUME NEW e \in toload, LoadMiss(e)
      PROVE Owners'
    BY <1>7 DEF LoadMiss, Passes, Settled, UsesAsync, AsyncMoe, GpuOn
<1>8. CASE BatchReady
    BY <1>8 DEF BatchReady, Passes, Settled, UsesAsync, AsyncMoe, GpuOn, StartIssue
<1>9. CASE SubmitBusy
    BY <1>9 DEF SubmitBusy, Passes, Settled, UsesAsync, AsyncMoe, GpuOn
<1>10. CASE Submit
    <2>1. CASE toload = {}
        BY <1>10, <2>1 DEF Submit
    <2>2. CASE toload # {}
        <3> DEFINE J == [s \in Pool |-> IF \E e \in toload : out[e] = s
                                       THEN CHOOSE e \in toload : out[e] = s
                                       ELSE NoExpert]
        <3>1. job' = [job EXCEPT ![Loader] = J] /\ pc = "batch" /\ UsesAsync
            BY <1>10, <2>2 DEF Submit
        <3>2. job[Loader] = NoJob
            BY <1>10, <2>2 DEF Submit, Jobs
        <3>3. \A s \in Pool : J[s] # NoExpert <=> \E e \in toload : out[e] = s
            BY NamesAssumption
        <3>4. \A s \in Pool : /\ job'[Loader][s] = J[s]
                             /\ job'[Prefetcher][s] = job[Prefetcher][s]
                             /\ job[Loader][s] = NoExpert
            BY <3>1, <3>2 DEF NoJob
        <3> HIDE DEF J
        <3>5. \A e \in toload : out[e] \in used /\ out[e] \in Pool
            BY DEF Passes
        <3>6. toload' = {} /\ loading' = loading /\ used' = used
            BY <1>10 DEF Submit
        <3>7. QED
            BY <3>1, <3>3, <3>4, <3>5, <3>6
    <2>3. QED
        BY <2>1, <2>2
<1>11. ASSUME NEW e \in batch, Apply(e)
      PROVE Owners'
    BY <1>11 DEF Apply, Passes, Settled, UsesAsync, AsyncMoe, GpuOn
<1>12. CASE GpuDone
    BY <1>12 DEF GpuDone, Passes, Settled, UsesAsync, AsyncMoe, GpuOn
<1>13. CASE GpuFailed
    BY <1>13 DEF GpuFailed, Passes, Settled, UsesAsync, AsyncMoe, GpuOn
<1>14. ASSUME NEW e \in unread, Reread(e)
      PROVE Owners'
    BY <1>14 DEF Reread, Passes, Settled, UsesAsync, AsyncMoe, GpuOn
<1>15. CASE EndReread
    BY <1>15 DEF EndReread, Passes, Settled, UsesAsync, AsyncMoe, GpuOn
<1>16. CASE NextBlock
    BY <1>16 DEF NextBlock, Passes, Settled, UsesAsync, AsyncMoe, GpuOn
<1>17. CASE LayerDone
    BY <1>17 DEF LayerDone, Passes, Settled, UsesAsync, AsyncMoe, GpuOn, StartIssue, NextLayer
<1>18. CASE IssueSkipped
    BY <1>18 DEF IssueSkipped, Passes, Settled, UsesAsync, AsyncMoe, GpuOn, AfterIssue, NextLayer
<1>19. CASE IssueLocked
    BY <1>19 DEF IssueLocked, Passes, Settled, UsesAsync, AsyncMoe, GpuOn
<1>20. ASSUME NEW e \in pred, PredictionCached(e)
      PROVE Owners'
    BY <1>20 DEF PredictionCached, Passes, Settled, UsesAsync, AsyncMoe, GpuOn
<1>21. ASSUME NEW e \in pred, NEW s \in Pool, ReserveAhead(e, s)
      PROVE Owners'
    <2>1. s \notin Fetching
        BY <1>21, VictimIsFree DEF ReserveAhead, PrefetchVictims
    <2>2. e \in Experts /\ toload = {} /\ toload' = {}
        BY <1>21 DEF ReserveAhead, Passes
    <2>3. /\ loading' = [loading EXCEPT ![s] = TRUE]
          /\ used' = used \cup {s}
          /\ job' = [job EXCEPT ![Prefetcher] = [job[Prefetcher] EXCEPT ![s] = e]]
        BY <1>21 DEF ReserveAhead, Give
    <2>4. QED
        BY NamesAssumption, <2>1, <2>2, <2>3
<1>22. CASE IssueDone
    BY <1>22 DEF IssueDone, Passes, Settled, UsesAsync, AsyncMoe, GpuOn, AfterIssue, NextLayer
<1>23. CASE PilotShutdown
    BY <1>23 DEF PilotShutdown, Passes, Settled, UsesAsync, AsyncMoe, GpuOn
<1>24. CASE PilotJoined
    BY <1>24 DEF PilotJoined, Passes, Settled, UsesAsync, AsyncMoe, GpuOn
<1>25. CASE LoaderShutdown
    BY <1>25 DEF LoaderShutdown, Passes, Settled, UsesAsync, AsyncMoe, GpuOn
<1>26. CASE StoreClosed
    BY <1>26 DEF StoreClosed, Passes, Settled, UsesAsync, AsyncMoe, GpuOn
<1>27. ASSUME NEW w \in Workers, Top(w)
      PROVE Owners'
    BY <1>27 DEF Top, Passes, Settled, UsesAsync, AsyncMoe, GpuOn
<1>28. ASSUME NEW w \in Workers, NEW s \in Pool, Load(w, s)
      PROVE Owners'
    BY <1>28 DEF Load, Passes, Settled, UsesAsync, AsyncMoe, GpuOn
<1>29. ASSUME NEW w \in Workers, NEW s \in Pool, Publish(w, s)
      PROVE Owners'
    <2>1. job[w][s] # NoExpert /\ s \in Fetching
        BY <1>29 DEF Publish, Jobs
    <2>2. \A v \in Workers \ {w} : job[v][s] = NoExpert
        BY <2>1
    <2>3. /\ loading' = [loading EXCEPT ![s] = FALSE] /\ job' = [job EXCEPT ![w][s] = NoExpert]
          /\ UNCHANGED <<toload, out, used, pc>> /\ UsesAsync' = UsesAsync
        BY <1>29 DEF Publish, UsesAsync, AsyncMoe, GpuOn
    <2>4. QED
        BY <2>1, <2>2, <2>3
<1>30. ASSUME NEW w \in Workers, Finish(w)
      PROVE Owners'
    BY <1>30 DEF Finish, Passes, Settled, UsesAsync, AsyncMoe, GpuOn, Broadcast
<1>31. CASE UNCHANGED vars
    BY <1>31 DEF vars, Passes, Settled, UsesAsync, AsyncMoe, GpuOn
<1>32. QED
    BY <1>1, <1>2, <1>3, <1>4, <1>5, <1>6, <1>7, <1>8, <1>9, <1>10, <1>11,
       <1>12, <1>13, <1>14, <1>15, <1>16, <1>17, <1>18, <1>19, <1>20, <1>21,
       <1>22, <1>23, <1>24, <1>25, <1>26, <1>27, <1>28, <1>29, <1>30, <1>31
       DEF Next, Forward, Issue, Exit, Prefetch, AsyncLoad, Terminated,
           Workers, PrefetchLoad, PrefetchPublish, LoaderLoad, LoaderPublish

(* Every step keeps the experts of the slots being filled. *)
LEMMA IdsStep ==
    TypeOK /\ Passes /\ Jobs /\ Owners /\ Ids /\ [Next]_vars => Ids'
<1> SUFFICES ASSUME TypeOK, Passes, Jobs, Owners, Ids, [Next]_vars PROVE Ids'
    OBVIOUS
<1> USE DEF TypeOK, PoolOK, BatchOK, WorkersOK, ControlOK, IssueOK, Workers, Ids, poolVars,
        workVars, batchVars, gpuVars, issueVars, workerVars
<1>1. ASSUME NEW m \in {"decode", "prefill"}, StartForward(m)
      PROVE Ids'
    BY <1>1 DEF StartForward, Passes, Settled, UsesAsync, AsyncMoe, GpuOn
<1>2. ASSUME NEW sel \in Subsets(Topk, Experts), NEW resident \in SUBSET sel,
             RouteDecode(sel, resident)
      PROVE Ids'
    BY <1>2 DEF RouteDecode, Passes, Settled, UsesAsync, AsyncMoe, GpuOn, StartIssue
<1>3. ASSUME NEW U \in SUBSET Experts, NEW B \in SUBSET U, RoutePrefill(U, B)
      PROVE Ids'
    BY <1>3 DEF RoutePrefill, Passes, Settled, UsesAsync, AsyncMoe, GpuOn
<1>4. ASSUME NEW e \in todo, Lookup(e)
      PROVE Ids'
    BY <1>4 DEF Lookup, Passes, Settled, UsesAsync, AsyncMoe, GpuOn
<1>5. CASE HitReady
    BY <1>5 DEF HitReady, Passes, Settled, UsesAsync, AsyncMoe, GpuOn
<1>6. ASSUME NEW e \in missing, NEW s \in Pool, Reserve(e, s)
      PROVE Ids'
    <2>1. s \notin Fetching /\ (UsesAsync => \A f \in toload : out[f] # s)
        BY <1>6, VictimIsFree DEF Reserve
    <2>2. UsesAsync' = UsesAsync
        BY <1>6 DEF Reserve, UsesAsync, AsyncMoe, GpuOn
    <2>3. e \notin toload /\ e \in Experts /\ \A f \in toload : out[f] \in Pool
        BY DEF Passes, Placed
    <2>4. /\ eid' = [eid EXCEPT ![s] = e]
          /\ toload' = toload \cup {e} /\ out' = [out EXCEPT ![e] = s]
          /\ job' = job /\ loaded' = loaded
        BY <1>6 DEF Reserve, Give
    <2>5. QED
        BY <2>1, <2>2, <2>3, <2>4 DEF Fetching
<1>7. ASSUME NEW e \in toload, LoadMiss(e)
      PROVE Ids'
    <2>1. out[e] \in Pool /\ out[e] \notin Fetching /\ ~UsesAsync
        BY <1>7 DEF LoadMiss, Owners, Passes
    <2>2. /\ \A s \in Pool : s # out[e] => eid'[s] = eid[s]
          /\ job' = job /\ loaded' = loaded
        BY <1>7, <2>1 DEF LoadMiss, ExpertLoad
    <2>3. ~UsesAsync'
        BY <1>7, <2>1 DEF LoadMiss, UsesAsync, AsyncMoe, GpuOn
    <2>4. QED
        BY <2>1, <2>2, <2>3 DEF Fetching
<1>8. CASE BatchReady
    BY <1>8 DEF BatchReady, Passes, Settled, UsesAsync, AsyncMoe, GpuOn, StartIssue
<1>9. CASE SubmitBusy
    BY <1>9 DEF SubmitBusy, Passes, Settled, UsesAsync, AsyncMoe, GpuOn
<1>10. CASE Submit
    <2>1. CASE toload = {}
        BY <1>10, <2>1 DEF Submit
    <2>2. CASE toload # {}
        <3> DEFINE J == [s \in Pool |-> IF \E e \in toload : out[e] = s
                                       THEN CHOOSE e \in toload : out[e] = s
                                       ELSE NoExpert]
        <3>1. job' = [job EXCEPT ![Loader] = J] /\ UsesAsync
            BY <1>10, <2>2 DEF Submit
        <3>2. \A s \in Pool : J[s] # NoExpert => eid[s] = J[s]
            BY <3>1
        <3> HIDE DEF J
        <3>3. toload' = {} /\ eid' = eid /\ loaded' = loaded
            BY <1>10 DEF Submit
        <3>4. \A s \in Pool : /\ job'[Loader][s] = J[s]
                             /\ job'[Prefetcher][s] = job[Prefetcher][s]
            BY <3>1
        <3>5. QED
            BY <3>2, <3>3, <3>4
    <2>3. QED
        BY <2>1, <2>2
<1>11. ASSUME NEW e \in batch, Apply(e)
      PROVE Ids'
    BY <1>11 DEF Apply, Passes, Settled, UsesAsync, AsyncMoe, GpuOn
<1>12. CASE GpuDone
    BY <1>12 DEF GpuDone, Passes, Settled, UsesAsync, AsyncMoe, GpuOn
<1>13. CASE GpuFailed
    BY <1>13 DEF GpuFailed, Passes, Settled, UsesAsync, AsyncMoe, GpuOn
<1>14. ASSUME NEW e \in unread, Reread(e)
      PROVE Ids'
    BY <1>14 DEF Reread, Passes, Settled, UsesAsync, AsyncMoe, GpuOn
<1>15. CASE EndReread
    BY <1>15 DEF EndReread, Passes, Settled, UsesAsync, AsyncMoe, GpuOn
<1>16. CASE NextBlock
    BY <1>16 DEF NextBlock, Passes, Settled, UsesAsync, AsyncMoe, GpuOn
<1>17. CASE LayerDone
    BY <1>17 DEF LayerDone, Passes, Settled, UsesAsync, AsyncMoe, GpuOn, StartIssue, NextLayer
<1>18. CASE IssueSkipped
    BY <1>18 DEF IssueSkipped, Passes, Settled, UsesAsync, AsyncMoe, GpuOn, AfterIssue, NextLayer
<1>19. CASE IssueLocked
    BY <1>19 DEF IssueLocked, Passes, Settled, UsesAsync, AsyncMoe, GpuOn
<1>20. ASSUME NEW e \in pred, PredictionCached(e)
      PROVE Ids'
    BY <1>20 DEF PredictionCached, Passes, Settled, UsesAsync, AsyncMoe, GpuOn
<1>21. ASSUME NEW e \in pred, NEW s \in Pool, ReserveAhead(e, s)
      PROVE Ids'
    <2>1. s \notin Fetching
        BY <1>21, VictimIsFree DEF ReserveAhead, PrefetchVictims
    <2>2. e \in Experts /\ toload = {} /\ toload' = {}
        BY <1>21 DEF ReserveAhead, Passes
    <2>3. /\ eid' = [eid EXCEPT ![s] = e] /\ loaded' = loaded
          /\ job' = [job EXCEPT ![Prefetcher] = [job[Prefetcher] EXCEPT ![s] = e]]
        BY <1>21 DEF ReserveAhead, Give
    <2>4. QED
        BY <2>1, <2>2, <2>3 DEF Fetching
<1>22. CASE IssueDone
    BY <1>22 DEF IssueDone, Passes, Settled, UsesAsync, AsyncMoe, GpuOn, AfterIssue, NextLayer
<1>23. CASE PilotShutdown
    BY <1>23 DEF PilotShutdown, Passes, Settled, UsesAsync, AsyncMoe, GpuOn
<1>24. CASE PilotJoined
    BY <1>24 DEF PilotJoined, Passes, Settled, UsesAsync, AsyncMoe, GpuOn
<1>25. CASE LoaderShutdown
    BY <1>25 DEF LoaderShutdown, Passes, Settled, UsesAsync, AsyncMoe, GpuOn
<1>26. CASE StoreClosed
    BY <1>26 DEF StoreClosed, Passes, Settled, UsesAsync, AsyncMoe, GpuOn
<1>27. ASSUME NEW w \in Workers, Top(w)
      PROVE Ids'
    BY <1>27 DEF Top, Passes, Settled, UsesAsync, AsyncMoe, GpuOn
<1>28. ASSUME NEW w \in Workers, NEW s \in Pool, Load(w, s)
      PROVE Ids'
    <2>1. s \in Fetching /\ UNCHANGED <<toload, out, job>> /\ UsesAsync' = UsesAsync
        BY <1>28 DEF Load, Fetching, UsesAsync, AsyncMoe, GpuOn
    <2>2. \A v \in Workers \ {w} : job[v][s] = NoExpert
        BY <1>28 DEF Load, Owners
    <2>3. \A e \in toload : out[e] # s /\ out[e] \in Pool
        BY <2>1 DEF Owners, Passes
    <2>4. /\ \A t \in Pool : t # s => eid'[t] = eid[t]
          /\ eid'[s] \in {eid[s], job[w][s], NoExpert}
          /\ loaded' = [loaded EXCEPT ![w] = loaded[w] \cup {s}]
        BY <1>28 DEF Load, ExpertLoad
    <2>5. QED
        BY <2>1, <2>2, <2>3, <2>4
<1>29. ASSUME NEW w \in Workers, NEW s \in Pool, Publish(w, s)
      PROVE Ids'
    BY <1>29 DEF Publish, UsesAsync, AsyncMoe, GpuOn
<1>30. ASSUME NEW w \in Workers, Finish(w)
      PROVE Ids'
    BY <1>30 DEF Finish, Passes, Settled, UsesAsync, AsyncMoe, GpuOn, Broadcast
<1>31. CASE UNCHANGED vars
    BY <1>31 DEF vars, Passes, Settled, UsesAsync, AsyncMoe, GpuOn
<1>32. QED
    BY <1>1, <1>2, <1>3, <1>4, <1>5, <1>6, <1>7, <1>8, <1>9, <1>10, <1>11,
       <1>12, <1>13, <1>14, <1>15, <1>16, <1>17, <1>18, <1>19, <1>20, <1>21,
       <1>22, <1>23, <1>24, <1>25, <1>26, <1>27, <1>28, <1>29, <1>30, <1>31
       DEF Next, Forward, Issue, Exit, Prefetch, AsyncLoad, Terminated,
           Workers, PrefetchLoad, PrefetchPublish, LoaderLoad, LoaderPublish

(* The four parts of the invariant hold initially, and each step keeps     *)
(* them.                                                                   *)
LEMMA CacheInvInit == Init => CacheInv
<1> SUFFICES ASSUME Init PROVE CacheInv
    OBVIOUS
<1>1. TypeOK
    BY TypeInit
<1>2. Passes
    BY DEF Init, Passes, Placed, Settled
<1>3. Jobs
    BY DEF Init, Jobs, NoJob, Workers
<1>4. Fetching = {}
    BY DEF Init, NoJob, Fetching, Workers
<1>5. Owners
    <2>1. LoadingIsOwed
        BY <1>4 DEF Init, LoadingIsOwed
    <2>2. QED
        BY <1>4, <2>1 DEF Init, Owners, NoJob, Workers
<1>6. Ids
    BY DEF Init, Ids, NoJob, Workers
<1>7. QED
    BY <1>1, <1>2, <1>3, <1>5, <1>6 DEF CacheInv

LEMMA CacheInvStep == CacheInv /\ [Next]_vars => CacheInv'
BY TypeStep, PassesStep, JobsStep, OwnersStep, IdsStep DEF CacheInv

THEOREM CacheInvariant == Spec => []CacheInv
BY CacheInvInit, CacheInvStep, PTL DEF Spec

(* The variables keep their types: the settings are legal ones, the layers *)
(* asked for and predicted for exist, the slots handed out are slots.      *)
THEOREM TypeCorrect == Spec => []TypeOK
<1>1. CacheInv => TypeOK
    BY DEF CacheInv
<1>2. QED
    BY <1>1, CacheInvariant, PTL

(* slot_wait_ready and the loop of the asynchronous MoE wait only for      *)
(* slots some thread is going to release.                                  *)
THEOREM LoadingOwed == Spec => []LoadingIsOwed
<1>1. CacheInv => LoadingIsOwed
    BY DEF CacheInv, Owners
<1>2. QED
    BY <1>1, CacheInvariant, PTL

(* A victim, of a miss or of a prediction, is not being filled.            *)
LEMMA VictimIsNotLoading ==
    ASSUME CacheInv, NEW s \in Pool, NEW l \in Layers, NEW C,
           C \subseteq Evictable(l), IsVictim(s, l, C)
    PROVE  ~loading[s]
<1>1. s \notin used \/ ~loading[s]
    BY DEF IsVictim, Evictable
<1>2. \A e \in toload : out[e] \in used
    BY DEF CacheInv, Passes
<1>3. QED
    BY <1>1, <1>2 DEF CacheInv, Owners, LoadingIsOwed

(* One step never gives a slot being filled to another expert.             *)
LEMMA NoEvictionStep ==
    CacheInv /\ [Next]_vars =>
        \A s \in Pool : loading[s] /\ eid'[s] # eid[s] => eid'[s] = NoExpert
<1> DEFINE Kept == \A s \in Pool : loading[s] /\ eid'[s] # eid[s] => eid'[s] = NoExpert
<1> SUFFICES ASSUME CacheInv, [Next]_vars PROVE Kept
    OBVIOUS
<1> USE DEF CacheInv, TypeOK, PoolOK, BatchOK, WorkersOK, ControlOK, IssueOK, Workers,
        poolVars
<1>1. ASSUME NEW m \in {"decode", "prefill"}, StartForward(m)
      PROVE Kept
    BY <1>1 DEF StartForward
<1>2. ASSUME NEW sel \in Subsets(Topk, Experts), NEW resident \in SUBSET sel,
             RouteDecode(sel, resident)
      PROVE Kept
    BY <1>2 DEF RouteDecode
<1>3. ASSUME NEW U \in SUBSET Experts, NEW B \in SUBSET U, RoutePrefill(U, B)
      PROVE Kept
    BY <1>3 DEF RoutePrefill
<1>4. ASSUME NEW e \in todo, Lookup(e)
      PROVE Kept
    BY <1>4 DEF Lookup
<1>5. CASE HitReady
    BY <1>5 DEF HitReady
<1>6. ASSUME NEW e \in missing, NEW s \in Pool, Reserve(e, s)
      PROVE Kept
    <2>1. ~loading[s]
        BY <1>6, VictimIsNotLoading DEF Reserve
    <2>2. eid' = [eid EXCEPT ![s] = e]
        BY <1>6 DEF Reserve, Give
    <2>3. QED
        BY <2>1, <2>2
<1>7. ASSUME NEW e \in toload, LoadMiss(e)
      PROVE Kept
    <2>1. out[e] \in Pool /\ ~loading[out[e]]
        BY <1>7 DEF LoadMiss, Owners, Passes, LoadingIsOwed
    <2>2. \A s \in Pool : s # out[e] => eid'[s] = eid[s]
        BY <1>7, <2>1 DEF LoadMiss, ExpertLoad
    <2>3. QED
        BY <2>1, <2>2
<1>8. CASE BatchReady
    BY <1>8 DEF BatchReady
<1>9. CASE SubmitBusy
    BY <1>9 DEF SubmitBusy
<1>10. CASE Submit
    BY <1>10 DEF Submit
<1>11. ASSUME NEW e \in batch, Apply(e)
      PROVE Kept
    BY <1>11 DEF Apply
<1>12. CASE GpuDone
    BY <1>12 DEF GpuDone
<1>13. CASE GpuFailed
    BY <1>13 DEF GpuFailed
<1>14. ASSUME NEW e \in unread, Reread(e)
      PROVE Kept
    BY <1>14 DEF Reread
<1>15. CASE EndReread
    BY <1>15 DEF EndReread
<1>16. CASE NextBlock
    BY <1>16 DEF NextBlock
<1>17. CASE LayerDone
    BY <1>17 DEF LayerDone
<1>18. CASE IssueSkipped
    BY <1>18 DEF IssueSkipped
<1>19. CASE IssueLocked
    BY <1>19 DEF IssueLocked
<1>20. ASSUME NEW e \in pred, PredictionCached(e)
      PROVE Kept
    BY <1>20 DEF PredictionCached
<1>21. ASSUME NEW e \in pred, NEW s \in Pool, ReserveAhead(e, s)
      PROVE Kept
    <2>1. ~loading[s]
        BY <1>21, VictimIsNotLoading DEF ReserveAhead, PrefetchVictims
    <2>2. eid' = [eid EXCEPT ![s] = e]
        BY <1>21 DEF ReserveAhead, Give
    <2>3. QED
        BY <2>1, <2>2
<1>22. CASE IssueDone
    BY <1>22 DEF IssueDone
<1>23. CASE PilotShutdown
    BY <1>23 DEF PilotShutdown
<1>24. CASE PilotJoined
    BY <1>24 DEF PilotJoined
<1>25. CASE LoaderShutdown
    BY <1>25 DEF LoaderShutdown
<1>26. CASE StoreClosed
    BY <1>26 DEF StoreClosed
<1>27. ASSUME NEW w \in Workers, Top(w)
      PROVE Kept
    BY <1>27 DEF Top
<1>28. ASSUME NEW w \in Workers, NEW s \in Pool, Load(w, s)
      PROVE Kept
    <2>1. eid[s] = job[w][s]
        BY <1>28 DEF Load, Ids
    <2>2. \A t \in Pool : t # s => eid'[t] = eid[t]
        BY <1>28 DEF Load, ExpertLoad
    <2>3. eid'[s] \in {job[w][s], NoExpert}
        BY <1>28, <2>1 DEF Load, ExpertLoad
    <2>4. QED
        BY <2>1, <2>2, <2>3
<1>29. ASSUME NEW w \in Workers, NEW s \in Pool, Publish(w, s)
      PROVE Kept
    BY <1>29 DEF Publish
<1>30. ASSUME NEW w \in Workers, Finish(w)
      PROVE Kept
    BY <1>30 DEF Finish
<1>31. CASE UNCHANGED vars
    BY <1>31 DEF vars
<1>32. QED
    BY <1>1, <1>2, <1>3, <1>4, <1>5, <1>6, <1>7, <1>8, <1>9, <1>10, <1>11,
       <1>12, <1>13, <1>14, <1>15, <1>16, <1>17, <1>18, <1>19, <1>20, <1>21,
       <1>22, <1>23, <1>24, <1>25, <1>26, <1>27, <1>28, <1>29, <1>30, <1>31
       DEF Next, Forward, Issue, Exit, Prefetch, AsyncLoad, Terminated,
           Workers, PrefetchLoad, PrefetchPublish, LoaderLoad, LoaderPublish

(* A slot being filled is never evicted: neither a miss nor a prediction   *)
(* takes it before its load has been published.                            *)
THEOREM NoEviction == Spec => NoEvictionUnderRead
<1>1. CacheInv /\ [Next]_vars =>
        [\A s \in Pool : loading[s] /\ eid'[s] # eid[s] => eid'[s] = NoExpert]_vars
    BY NoEvictionStep
<1>2. QED
    BY <1>1, CacheInvariant, PTL DEF Spec, NoEvictionUnderRead

-----------------------------------------------------------------------------
(***************************************************************************)
(* The slots of the expert cache, for every number of layers, slots and    *)
(* experts and every combination of the settings: no two slots of a layer  *)
(* hold the same expert; a batch gets slots of its own and keeps them until *)
(* it is computed; a miss always finds a victim; no thread writes what the *)
(* main thread computes with; and each routed expert is added exactly once, *)
(* with its own weights, so that the cache implements MoELayer.            *)
(*                                                                         *)
(* The argument has three parts.  Counting: a batch and the slots reserved *)
(* ahead of the next one never add up to more than the slots of a layer    *)
(* (Counts).  Order: the slots of a batch are newer than all others but for *)
(* those just reserved ahead, so the least recently used slot is not one of *)
(* them (Newest).  Ownership: a slot is read by one thread at a time, and  *)
(* by none once it has been used (Undisturbed), and outside a read it holds *)
(* the weights of the expert it is labelled with (Bytes).                  *)
(***************************************************************************)

(* A miss is in no slot of the layer until it is given one, and then in no *)
(* other; a slot never given to an expert holds none; when slots are       *)
(* reserved ahead no miss is waiting.                                      *)
Missed ==
    /\ pc \in {"batch", "waitready"} =>
         \A e \in missing, s \in Pool : Layer(s) = layer => eid[s] # e
    /\ pc \in {"issue", "reserve"} => missing = {}
Reserving ==
    /\ \A e \in toload : Layer(out[e]) = layer
    /\ \A e \in toload, s \in Pool :
          Layer(s) = layer /\ eid[s] = e => s = out[e]
Unused == \A s \in Pool : s \notin used => eid[s] = NoExpert
Distinct == NoDuplicate /\ Unused /\ Missed /\ Reserving

----------------------------------------------------------------------------
(* What a layer has done and has to do.  Between layers nothing is routed. *)

Inside == {"batch", "waitready", "submitwait", "compute", "gpu", "reread"}
Leaving == {"joinprefetch", "stoploader", "stopwait", "joinloader", "closed"}
Outside == {"idle", "route"} \cup Leaving
Issuing == {"issue", "reserve"}

(* The experts a layer was routed to are in the batch, in a later block,   *)
(* unread or accounted for; outside a layer there is nothing.              *)
Accounted ==
    /\ pc \in Inside => routed # {}
    /\ pc \in Outside => routed = {}
    /\ pc \in Issuing =>
         (routed # {} <=> (mode = "prefill" \/ GpuPrefetch))
    /\ routed = {} => batch = {} /\ nxt = {} /\ applied = NothingApplied
    /\ nxt = {} => rest = {}
    /\ routed # {} =>
         /\ batch \subseteq routed /\ nxt \subseteq routed /\ rest \subseteq routed
         /\ unread \subseteq routed /\ batch \cap unread = {}
         /\ unread # {} => UsesGpu
         /\ \A e \in routed : \/ e \in batch \cup nxt \cup rest \cup unread
                              \/ applied[e] # NoExpert
    /\ pc = "compute" => \A e \in unread : applied[e] # NoExpert
    /\ pc \in {"gpu", "reread"} => UsesGpu
    /\ pc \in Issuing /\ mode = "prefill" => target = layer
    /\ mode = "decode" =>
         /\ nxt = {}
         /\ pc # "compute" => applied = NothingApplied
         /\ pc \in Issuing => Placed = {}

(* How many experts a batch may have, and a reservation ahead of one.      *)
AtOnce == IF mode = "prefill" THEN Chunk ELSE Topk
Counts ==
    /\ Cardinality(batch) <= AtOnce
    /\ mode = "decode" /\ routed # {} => Cardinality(routed) = Topk
    /\ mode = "prefill" => Cardinality(nxt) <= Chunk
    /\ Reserved # {} \/ pc \in Issuing => Pilot
    /\ Cardinality(Reserved) <= MaxReserve
    /\ Cardinality(Reserved) <= Topk \/ Cardinality(Reserved) <= Chunk
    /\ pc = "issue" => Cardinality(pred) <= AtOnce
    /\ pc = "reserve" => Cardinality(Reserved) + Cardinality(pred) <= AtOnce

(* The slots handed out: in the layer, of their expert, of one expert.     *)
HandedOut ==
    /\ \A e \in Experts \ Placed : out[e] = NoSlot
    /\ \A e \in Placed : Layer(out[e]) = layer /\ eid[out[e]] \in {e, NoExpert}
    /\ \A e, f \in Placed : e # f => out[e] # out[f]

(* They are the newest of the layer, but for those reserved ahead since.   *)
Touched == IF pc = "waitready" THEN Placed \ {cur} ELSE Placed
Newest ==
    /\ \A s, t \in Pool : ~(<<s, t>> \in older /\ <<t, s>> \in older)
    /\ pc # "compute" =>
         \A e \in Touched, t \in InUse(layer) :
            \/ <<t, out[e]>> \in older
            \/ \E f \in Placed : out[f] = t
            \/ pc = "reserve" /\ t \in Reserved

(* The loader has only slots of the batch being computed; who does not use *)
(* it is handed slots that no thread fills; nor is a slot already used.    *)
Undisturbed ==
    /\ \A s \in Pool : job[Loader][s] # NoExpert =>
         pc = "compute" /\ UsesAsync /\ \E e \in batch : out[e] = s
    /\ ~UsesAsync => \A e \in Touched : out[e] \notin Fetching
    /\ pc = "compute" =>
         \A e \in batch : applied[e] # NoExpert => out[e] \notin Fetching

(* Until the program exits, a slot that nobody is about to read holds the  *)
(* weights of its expert, or nothing after a failure.                      *)
Unloaded(s) ==
    \/ \E w \in Workers : job[w][s] # NoExpert /\ s \notin loaded[w]
    \/ \E e \in toload : out[e] = s
Filled(s) == weights[s] = eid[s] /\ (eid[s] = NoExpert => ReadsMayFail)
Bytes ==
    pc \notin Leaving =>
        /\ \A w \in Workers : ~shutdown[w]
        /\ \A s \in used : Unloaded(s) \/ Filled(s)

BatchInv == /\ Accounted /\ Counts /\ HandedOut /\ Newest /\ Undisturbed
            /\ Bytes /\ OwnWeights

----------------------------------------------------------------------------
(* Counting: the pool is finite, and a layer has more slots than a batch   *)
(* and the slots reserved ahead take together.                             *)

(* There are finitely many slots.                                          *)
LEMMA PoolFinite == IsFiniteSet(Pool)
<1>1. IsFiniteSet(Layers)
    BY SizeAssumption, FS_Interval DEF Layers
<1>2. QED
    BY <1>1, SizeAssumption, FS_Product DEF Pool

(* The capacities: what a decoded token needs and what may be reserved     *)
(* ahead make up a layer, and with a prefetcher two blocks fit in it.      *)
LEMMA Sizes ==
    ASSUME env \in Switches
    PROVE  /\ Ecap \in Nat \ {0} /\ Topk \in Nat \ {0} /\ MaxReserve \in Nat
           /\ Chunk \in Nat \ {0} /\ Chunk <= Ecap
           /\ Topk + MaxReserve = Ecap
           /\ Pilot /\ MaxReserve > 0 => 2 * Chunk <= Ecap /\ Chunk <= MaxReserve
<1>1. /\ Cardinality(Slots) \in Nat /\ Topk \in Nat \ {0}
      /\ Topk <= Cardinality(Slots)
    BY SizeAssumption, FS_CardinalityType
<1>2. Pilot \in BOOLEAN
    BY SettingsTypes
<1>3. QED
    BY <1>1, <1>2 DEF Ecap, MaxReserve, Chunk, Half

(* A batch within its size and a reservation within its size fit together. *)
LEMMA BatchAndReservedFit ==
    ASSUME env \in Switches, mode \in {"decode", "prefill"}, NEW b \in Nat, NEW r \in Nat,
           b <= AtOnce, r <= MaxReserve, r <= Topk \/ r <= Chunk, r > 0 => Pilot
    PROVE  b + r <= Ecap
BY Sizes DEF AtOnce

(* Where they do not fill a layer, one of its slots is in neither.         *)
LEMMA ASlotIsLeft ==
    ASSUME NEW l \in Layers, NEW A, IsFiniteSet(A), NEW f \in [A -> Pool],
           NEW R \in SUBSET Pool, Cardinality(A) + Cardinality(R) < Ecap
    PROVE  \E s \in Pool : Layer(s) = l /\ s \notin R /\ \A e \in A : f[e] # s
<1> DEFINE S == {l} \X Slots
           Image == {f[e] : e \in A}
<1>1. IsFiniteSet(S) /\ Cardinality(S) = Ecap
    <2>1. IsFiniteSet({l}) /\ Cardinality({l}) = 1
        BY FS_Singleton
    <2>2. IsFiniteSet(Slots) /\ Cardinality(Slots) \in Nat
        BY SizeAssumption, FS_CardinalityType
    <2>3. IsFiniteSet(S) /\ Cardinality(S) = Cardinality({l}) * Cardinality(Slots)
        BY <2>1, <2>2, FS_Product
    <2>4. QED
        BY <2>1, <2>2, <2>3 DEF Ecap
<1>2. IsFiniteSet(Image) /\ Cardinality(Image) <= Cardinality(A)
    <2>1. f \in Surjection(A, Image)
        BY DEF Surjection
    <2>2. QED
        BY <2>1, FS_Surjection
<1>3. IsFiniteSet(R)
    BY PoolFinite, FS_Subset
<1>4. IsFiniteSet(Image \cup R) /\ Cardinality(Image \cup R) < Ecap
    <2>1. /\ IsFiniteSet(Image \cup R)
          /\ Cardinality(Image \cup R)
               = Cardinality(Image) + Cardinality(R) - Cardinality(Image \cap R)
        BY <1>2, <1>3, FS_Union
    <2>2. IsFiniteSet(Image \cap R)
        BY <1>2, FS_Intersection
    <2>3. /\ Cardinality(Image) \in Nat /\ Cardinality(R) \in Nat
          /\ Cardinality(Image \cap R) \in Nat /\ Cardinality(A) \in Nat
          /\ Ecap \in Nat
        BY <1>1, <1>2, <1>3, <2>2, FS_CardinalityType
    <2>4. QED
        BY <1>2, <2>1, <2>3
<1>5. ~(S \subseteq Image \cup R)
    <2>1. Cardinality(Image \cup R) \in Nat /\ Ecap \in Nat
        BY <1>1, <1>4, FS_CardinalityType
    <2>2. S \subseteq Image \cup R => Cardinality(S) <= Cardinality(Image \cup R)
        BY <1>4, FS_Subset
    <2>3. QED
        BY <1>1, <1>4, <2>1, <2>2
<1>6. PICK s \in S : s \notin Image \cup R
    BY <1>5
<1>7. QED
    BY <1>6 DEF Pool, Layer

(* The first block of a set of experts.                                    *)
LEMMA FirstBlockSize ==
    ASSUME env \in Switches, NEW S \in SUBSET Experts, NEW B \in FirstBlocks(S)
    PROVE  /\ B \subseteq S /\ Cardinality(B) \in Nat /\ Cardinality(B) <= Chunk
           /\ B = {} => S = {}
<1>1. IsFiniteSet(S) /\ IsFiniteSet(B) /\ B \subseteq S
    BY SizeAssumption, FS_Subset DEF FirstBlocks
<1>2. Cardinality(S) \in Nat /\ Cardinality(B) \in Nat /\ Cardinality({}) = 0
    BY <1>1, FS_CardinalityType, FS_EmptySet
<1>3. Cardinality(B) = Chunk \/ (B = S /\ Cardinality(S) < Chunk)
    BY DEF FirstBlocks
<1>4. Chunk \in Nat \ {0}
    BY Sizes
<1>5. B = {} => S = {}
    BY <1>2, <1>3, <1>4
<1>6. Cardinality(B) <= Chunk
    BY <1>2, <1>3, <1>4
<1>7. QED
    BY <1>1, <1>2, <1>5, <1>6

----------------------------------------------------------------------------
(* A slot chosen for a layer is one of its slots.                          *)
LEMMA VictimLayer ==
    ASSUME NEW s \in Pool, NEW l \in Layers, NEW C,
           C \subseteq Evictable(l), IsVictim(s, l, C)
    PROVE  Layer(s) = l
BY DEF IsVictim, Evictable, InUse

(* An expert that the scan of a layer does not find is in no slot of it.   *)
LEMMA NotCached ==
    ASSUME Unused, NEW l \in Layers, NEW e \in Experts, ~Cached(l, e),
           NEW s \in Pool, Layer(s) = l
    PROVE  eid[s] # e
BY NamesAssumption DEF Unused, Cached, InUse

(* Giving a slot to an expert that no slot of its layer holds leaves the   *)
(* experts of the layer distinct.                                          *)
LEMMA GiveDistinct ==
    ASSUME TypeOK, NoDuplicate, Unused, NEW s \in Pool, NEW e \in Experts, Give(s, e),
           \A t \in Pool : Layer(t) = Layer(s) => eid[t] # e
    PROVE  NoDuplicate' /\ Unused'
<1>1. \A t \in Pool : eid'[t] = IF t = s THEN e ELSE eid[t]
    BY DEF Give, TypeOK, PoolOK
<1>2. used' = used \cup {s}
    BY DEF Give
<1>3. NoDuplicate'
    BY <1>1 DEF NoDuplicate
<1>4. Unused'
    BY <1>1, <1>2 DEF Unused
<1>5. QED
    BY <1>3, <1>4

(* Every step keeps the slots distinct.                                    *)
LEMMA DistinctStep == CacheInv /\ Distinct /\ [Next]_vars => Distinct'
<1> SUFFICES ASSUME CacheInv, Distinct, [Next]_vars PROVE Distinct'
    OBVIOUS
<1> USE DEF CacheInv, TypeOK, PoolOK, BatchOK, WorkersOK, ControlOK, IssueOK, Workers,
        poolVars, workVars, batchVars, gpuVars, issueVars, workerVars
<1>1. ASSUME NEW m \in {"decode", "prefill"}, StartForward(m)
      PROVE Distinct'
    BY <1>1 DEF StartForward, Distinct, NoDuplicate, Unused, Missed, Reserving,
                Passes, Settled
<1>2. ASSUME NEW sel \in Subsets(Topk, Experts), NEW resident \in SUBSET sel,
             RouteDecode(sel, resident)
      PROVE Distinct'
    BY <1>2 DEF RouteDecode, Distinct, NoDuplicate, Unused, Missed, Reserving, Passes,
                Settled, StartIssue
<1>3. ASSUME NEW U \in SUBSET Experts, NEW B \in SUBSET U, RoutePrefill(U, B)
      PROVE Distinct'
    BY <1>3 DEF RoutePrefill, Distinct, NoDuplicate, Unused, Missed, Reserving,
                Passes, Settled
<1>4. ASSUME NEW e \in todo, Lookup(e)
      PROVE Distinct'
    <2>1. layer \in Layers /\ e \in Experts /\ toload = {} /\ toload' = {}
        BY <1>4 DEF Lookup, Passes
    <2>2. UNCHANGED <<eid, used, layer>> /\ pc' \in {"batch", "waitready"} /\ pc = "batch"
        BY <1>4 DEF Lookup
    <2>3. missing' = missing \/ (missing' = missing \cup {e} /\ ~Cached(layer, e))
        BY <1>4 DEF Lookup
    <2>4. Missed'
        BY <2>1, <2>2, <2>3, NotCached DEF Missed, Distinct
    <2>5. QED
        BY <2>1, <2>2, <2>4 DEF Distinct, NoDuplicate, Unused, Reserving
<1>5. CASE HitReady
    BY <1>5 DEF HitReady, Distinct, NoDuplicate, Unused, Missed, Reserving, Passes,
                Settled
<1>6. ASSUME NEW e \in missing, NEW s \in Pool, Reserve(e, s)
      PROVE Distinct'
    <2>1. e \in Experts /\ e \notin toload /\ layer \in Layers /\ Layer(s) = layer
        BY <1>6, VictimLayer DEF Reserve, Passes, Placed
    <2>2. /\ pc = "batch" /\ pc' = pc /\ layer' = layer
          /\ missing' = missing \ {e} /\ toload' = toload \cup {e}
          /\ out' = [out EXCEPT ![e] = s] /\ Give(s, e)
        BY <1>6 DEF Reserve
    <2>3. \A t \in Pool : eid'[t] = IF t = s THEN e ELSE eid[t]
        BY <2>2 DEF Give
    <2>4. \A t \in Pool : Layer(t) = layer => eid[t] # e
        BY <2>2 DEF Distinct, Missed
    <2>5. NoDuplicate' /\ Unused'
        BY <2>1, <2>2, <2>4, GiveDistinct DEF Distinct
    <2>6. Missed'
        BY <2>2, <2>3 DEF Distinct, Missed
    <2>7. \A f \in Experts : out'[f] = IF f = e THEN s ELSE out[f]
        BY <2>1, <2>2
    <2>8. Reserving'
        BY <2>1, <2>2, <2>3, <2>4, <2>7 DEF Distinct, Reserving
    <2>9. QED
        BY <2>5, <2>6, <2>8 DEF Distinct
<1>7. ASSUME NEW e \in toload, LoadMiss(e)
      PROVE Distinct'
    <2>1. /\ e \in Experts /\ out[e] \in Pool /\ out[e] \in used /\ Layer(out[e]) = layer
          /\ \A s \in Pool : Layer(s) = layer /\ eid[s] = e => s = out[e]
        BY DEF Passes, Distinct, Reserving
    <2>2. /\ toload' = toload \ {e} /\ missing = {} /\ pc = "batch"
          /\ UNCHANGED <<pc, layer, missing, out, used>>
        BY <1>7 DEF LoadMiss
    <2>3. \E x \in {e, NoExpert} : \A s \in Pool : eid'[s] = IF s = out[e] THEN x ELSE eid[s]
        BY <1>7, <2>1 DEF LoadMiss, ExpertLoad
    <2>4. NoDuplicate' /\ Unused'
        BY <2>1, <2>2, <2>3 DEF Distinct, NoDuplicate, Unused
    <2>5. Missed' /\ Reserving'
        BY <2>1, <2>2, <2>3, NamesAssumption DEF Distinct, Missed, Reserving
    <2>6. QED
        BY <2>4, <2>5 DEF Distinct
<1>8. CASE BatchReady
    BY <1>8 DEF BatchReady, Distinct, NoDuplicate, Unused, Missed, Reserving, Passes,
                Settled, StartIssue
<1>9. CASE SubmitBusy
    BY <1>9 DEF SubmitBusy, Distinct, NoDuplicate, Unused, Missed, Reserving, Passes,
                Settled
<1>10. CASE Submit
    BY <1>10 DEF Submit, Distinct, NoDuplicate, Unused, Missed, Reserving, Passes,
                 Settled
<1>11. ASSUME NEW e \in batch, Apply(e)
      PROVE Distinct'
    BY <1>11 DEF Apply, Distinct, NoDuplicate, Unused, Missed, Reserving, Passes,
                 Settled
<1>12. CASE GpuDone
    BY <1>12 DEF GpuDone, Distinct, NoDuplicate, Unused, Missed, Reserving, Passes,
                 Settled
<1>13. CASE GpuFailed
    BY <1>13 DEF GpuFailed, Distinct, NoDuplicate, Unused, Missed, Reserving, Passes,
                 Settled
<1>14. ASSUME NEW e \in unread, Reread(e)
      PROVE Distinct'
    BY <1>14 DEF Reread, Distinct, NoDuplicate, Unused, Missed, Reserving, Passes,
                 Settled
<1>15. CASE EndReread
    BY <1>15 DEF EndReread, Distinct, NoDuplicate, Unused, Missed, Reserving, Passes,
                 Settled
<1>16. CASE NextBlock
    BY <1>16 DEF NextBlock, Distinct, NoDuplicate, Unused, Missed, Reserving, Passes,
                 Settled
<1>17. CASE LayerDone
    BY <1>17 DEF LayerDone, Distinct, NoDuplicate, Unused, Missed, Reserving, Passes,
                 Settled, StartIssue, NextLayer
<1>18. CASE IssueSkipped
    BY <1>18 DEF IssueSkipped, Distinct, NoDuplicate, Unused, Missed, Reserving,
                 Passes, Settled, AfterIssue, NextLayer
<1>19. CASE IssueLocked
    BY <1>19 DEF IssueLocked, Distinct, NoDuplicate, Unused, Missed, Reserving,
                 Passes, Settled
<1>20. ASSUME NEW e \in pred, PredictionCached(e)
      PROVE Distinct'
    BY <1>20 DEF PredictionCached, Distinct, NoDuplicate, Unused, Missed, Reserving,
                 Passes, Settled
<1>21. ASSUME NEW e \in pred, NEW s \in Pool, ReserveAhead(e, s)
      PROVE Distinct'
    <2>1. e \in Experts /\ target \in Layers /\ Layer(s) = target
        BY <1>21, VictimLayer DEF ReserveAhead, PrefetchVictims
    <2>2. /\ pc = "reserve" /\ pc' = pc /\ UNCHANGED <<missing, toload>> /\ Give(s, e)
        BY <1>21 DEF ReserveAhead
    <2>3. \A t \in Pool : Layer(t) = target => eid[t] # e
        BY <1>21, <2>1, NotCached DEF ReserveAhead, Distinct
    <2>4. NoDuplicate' /\ Unused'
        BY <2>1, <2>2, <2>3, GiveDistinct DEF Distinct
    <2>5. missing' = {} /\ toload' = {}
        BY <2>2 DEF Distinct, Missed, Passes
    <2>6. QED
        BY <2>2, <2>4, <2>5 DEF Distinct, Missed, Reserving
<1>22. CASE IssueDone
    BY <1>22 DEF IssueDone, Distinct, NoDuplicate, Unused, Missed, Reserving, Passes,
                 Settled, AfterIssue, NextLayer
<1>23. CASE PilotShutdown
    BY <1>23 DEF PilotShutdown, Distinct, NoDuplicate, Unused, Missed, Reserving,
                 Passes, Settled
<1>24. CASE PilotJoined
    BY <1>24 DEF PilotJoined, Distinct, NoDuplicate, Unused, Missed, Reserving,
                 Passes, Settled
<1>25. CASE LoaderShutdown
    BY <1>25 DEF LoaderShutdown, Distinct, NoDuplicate, Unused, Missed, Reserving,
                 Passes, Settled
<1>26. CASE StoreClosed
    BY <1>26 DEF StoreClosed, Distinct, NoDuplicate, Unused, Missed, Reserving,
                 Passes, Settled
<1>27. ASSUME NEW w \in Workers, Top(w)
      PROVE Distinct'
    BY <1>27 DEF Top, Distinct, NoDuplicate, Unused, Missed, Reserving, Passes,
                 Settled
<1>28. ASSUME NEW w \in Workers, NEW s \in Pool, Load(w, s)
      PROVE Distinct'
    <2>1. eid[s] = job[w][s] /\ s \in used
        BY <1>28 DEF Load, Ids, Owners, Fetching
    <2>2. \A t \in Pool : eid'[t] \in {eid[t], NoExpert}
        BY <1>28, <2>1 DEF Load, ExpertLoad
    <2>3. UNCHANGED <<pc, layer, missing, toload, out, used>>
        BY <1>28 DEF Load
    <2>4. \A t \in Pool : eid'[t] # NoExpert => eid'[t] = eid[t]
        BY <2>2
    <2>5. NoDuplicate' /\ Unused'
        BY <2>2, <2>3, <2>4 DEF Distinct, NoDuplicate, Unused
    <2>6. Missed' /\ Reserving'
        BY <2>3, <2>4, NamesAssumption DEF Distinct, Missed, Reserving
    <2>7. QED
        BY <2>5, <2>6 DEF Distinct
<1>29. ASSUME NEW w \in Workers, NEW s \in Pool, Publish(w, s)
      PROVE Distinct'
    BY <1>29 DEF Publish, Distinct, NoDuplicate, Unused, Missed, Reserving, Passes,
                 Settled
<1>30. ASSUME NEW w \in Workers, Finish(w)
      PROVE Distinct'
    BY <1>30 DEF Finish, Distinct, NoDuplicate, Unused, Missed, Reserving, Passes,
                 Settled, Broadcast
<1>31. CASE UNCHANGED vars
    BY <1>31 DEF vars, Distinct, NoDuplicate, Unused, Missed, Reserving, Passes,
                 Settled
<1>32. QED
    BY <1>1, <1>2, <1>3, <1>4, <1>5, <1>6, <1>7, <1>8, <1>9, <1>10, <1>11,
       <1>12, <1>13, <1>14, <1>15, <1>16, <1>17, <1>18, <1>19, <1>20, <1>21,
       <1>22, <1>23, <1>24, <1>25, <1>26, <1>27, <1>28, <1>29, <1>30, <1>31
       DEF Next, Forward, Issue, Exit, Prefetch, AsyncLoad, Terminated,
           Workers, PrefetchLoad, PrefetchPublish, LoaderLoad, LoaderPublish

(* It holds initially, and so always.                                      *)
LEMMA DistinctInit == Init => Distinct
BY DEF Init, Distinct, NoDuplicate, Unused, Missed, Reserving

(* However reservations for a batch and ahead of one alternate, and with   *)
(* the threads reading, two slots of a layer never hold the same expert:   *)
(* the scan by id of cache_load_batch and prefetch_issue finds the slot.   *)
THEOREM SlotsDistinct == Spec => []NoDuplicate
<1>1. Distinct => NoDuplicate
    BY DEF Distinct
<1>2. QED
    BY <1>1, DistinctInit, DistinctStep, CacheInvariant, PTL DEF Spec

(* Every step keeps the account of the experts routed to.                  *)
LEMMA AccountedStep ==
    ASSUME TypeOK, Passes, Accounted, [Next]_vars
    PROVE  Accounted'
<1> USE DEF TypeOK, ControlOK, BatchOK, Passes, Accounted, Placed, Settled,
        Inside, Leaving, Outside, Issuing, NothingApplied, UsesGpu, UsesAsync,
        GpuOn, GpuPrefetch, poolVars, workVars, batchVars, gpuVars, issueVars,
        workerVars
<1>1. ASSUME NEW m \in {"decode", "prefill"}, StartForward(m)
      PROVE Accounted'
    BY <1>1 DEF StartForward
<1>2. ASSUME NEW sel \in Subsets(Topk, Experts), NEW resident \in SUBSET sel,
             RouteDecode(sel, resident)
      PROVE Accounted'
    <2>1. sel # {} /\ sel \subseteq Experts
        <3>1. Cardinality(sel) = Topk /\ sel \subseteq Experts
            BY DEF Subsets
        <3>2. Cardinality({}) = 0 /\ Topk # 0
            BY SizeAssumption, FS_EmptySet
        <3>3. QED
            BY <3>1, <3>2
    <2>2. /\ routed' = sel /\ rest' = {} /\ nxt' = {} /\ unread' = resident
          /\ batch' = sel \ resident /\ todo' = batch' /\ missing' = {}
          /\ mode = "decode" /\ mode' = mode /\ env' = env /\ resident \subseteq sel
          /\ resident # {} => GpuOn
          /\ applied' = NothingApplied
        BY <1>2 DEF RouteDecode
    <2>3. pc' = "batch" \/ (pc' = "issue" /\ GpuPrefetch)
        BY <1>2 DEF RouteDecode, StartIssue
    <2>4. QED
        BY <2>1, <2>2, <2>3
<1>3. ASSUME NEW U \in SUBSET Experts, NEW B \in SUBSET U, Cardinality(U) >= Topk,
             RoutePrefill(U, B)
      PROVE Accounted'
    <2>1. U # {}
        BY <1>3, SizeAssumption, FS_EmptySet
    <2>2. nxt' \subseteq U \ B /\ B \subseteq U /\ (nxt' = {} => U \ B = {})
        BY <1>3, FirstBlockSize DEF RoutePrefill
    <2>3. /\ routed' = U /\ rest' = (U \ B) \ nxt' /\ batch' = B /\ todo' = B
          /\ missing' = {} /\ unread' = {} /\ applied' = NothingApplied
          /\ pc' = "batch" /\ mode = "prefill" /\ mode' = mode
        BY <1>3 DEF RoutePrefill
    <2>4. QED
        BY <2>1, <2>2, <2>3
<1>4. ASSUME NEW e \in todo, Lookup(e)
      PROVE Accounted'
    BY <1>4 DEF Lookup
<1>5. CASE HitReady
    BY <1>5 DEF HitReady
<1>6. ASSUME NEW e \in missing, NEW s \in Pool, Reserve(e, s)
      PROVE Accounted'
    BY <1>6 DEF Reserve, Give
<1>7. ASSUME NEW e \in toload, LoadMiss(e)
      PROVE Accounted'
    BY <1>7 DEF LoadMiss
<1>8. CASE BatchReady
    BY <1>8 DEF BatchReady, StartIssue
<1>9. CASE SubmitBusy
    BY <1>9 DEF SubmitBusy
<1>10. CASE Submit
    BY <1>10 DEF Submit, Signalled
<1>11. ASSUME NEW e \in batch, Apply(e)
      PROVE Accounted'
    BY <1>11 DEF Apply
<1>12. CASE GpuDone
    <2>1. pc' = "compute" /\ UNCHANGED <<env, mode, routed, rest, nxt, batchVars, unread>>
        BY <1>12 DEF GpuDone
    <2>2. pc = "gpu" /\ routed # {} /\ mode = "decode" /\ nxt = {} /\ rest = {}
        BY <1>12 DEF GpuDone
    <2>3. \A e \in unread : applied'[e] # NoExpert
        BY <1>12, NamesAssumption DEF GpuDone
    <2>4. QED
        BY <2>1, <2>2, <2>3
<1>13. CASE GpuFailed
    BY <1>13 DEF GpuFailed
<1>14. ASSUME NEW e \in unread, Reread(e)
      PROVE Accounted'
    BY <1>14 DEF Reread
<1>15. CASE EndReread
    BY <1>15 DEF EndReread
<1>16. CASE NextBlock
    <2>1. nxt' \subseteq rest /\ (nxt' = {} => rest = {})
        BY <1>16, FirstBlockSize DEF NextBlock
    <2>2. mode = "prefill" /\ routed # {} /\ \A e \in batch : applied[e] # NoExpert
        BY <1>16 DEF NextBlock, BatchComputed
    <2>3. /\ batch' = nxt /\ todo' = nxt /\ missing' = {} /\ rest' = rest \ nxt'
          /\ pc' = "batch" /\ UNCHANGED <<env, mode, routed, unread, applied>>
        BY <1>16 DEF NextBlock
    <2>4. unread = {}
        BY <2>2
    <2>5. QED
        BY <2>1, <2>2, <2>3, <2>4
<1>17. CASE LayerDone
    BY <1>17 DEF LayerDone, StartIssue, NextLayer
<1>18. CASE IssueSkipped
    BY <1>18 DEF IssueSkipped, AfterIssue, NextLayer
<1>19. CASE IssueLocked
    BY <1>19 DEF IssueLocked
<1>20. ASSUME NEW e \in pred, PredictionCached(e)
      PROVE Accounted'
    BY <1>20 DEF PredictionCached
<1>21. ASSUME NEW e \in pred, NEW s \in Pool, ReserveAhead(e, s)
      PROVE Accounted'
    BY <1>21 DEF ReserveAhead, Give
<1>22. CASE IssueDone
    BY <1>22 DEF IssueDone, AfterIssue, NextLayer, Signalled
<1>23. CASE PilotShutdown
    BY <1>23 DEF PilotShutdown, Signalled
<1>24. CASE PilotJoined
    BY <1>24 DEF PilotJoined
<1>25. CASE LoaderShutdown
    BY <1>25 DEF LoaderShutdown, Signalled
<1>26. CASE StoreClosed
    BY <1>26 DEF StoreClosed
<1>27. ASSUME NEW w \in Workers, Top(w)
      PROVE Accounted'
    BY <1>27 DEF Top
<1>28. ASSUME NEW w \in Workers, NEW s \in Pool, Load(w, s)
      PROVE Accounted'
    BY <1>28 DEF Load
<1>29. ASSUME NEW w \in Workers, NEW s \in Pool, Publish(w, s)
      PROVE Accounted'
    BY <1>29 DEF Publish
<1>30. ASSUME NEW w \in Workers, Finish(w)
      PROVE Accounted'
    BY <1>30 DEF Finish, Broadcast
<1>31. CASE UNCHANGED vars
    BY <1>31 DEF vars
<1>32. QED
    BY <1>1, <1>2, <1>3, <1>4, <1>5, <1>6, <1>7, <1>8, <1>9, <1>10, <1>11,
       <1>12, <1>13, <1>14, <1>15, <1>16, <1>17, <1>18, <1>19, <1>20, <1>21,
       <1>22, <1>23, <1>24, <1>25, <1>26, <1>27, <1>28, <1>29, <1>30, <1>31
       DEF Next, Forward, Issue, Exit, Prefetch, AsyncLoad, Terminated,
           Workers, PrefetchLoad, PrefetchPublish, LoaderLoad, LoaderPublish





(* The sets counted are finite.                                            *)
LEMMA Countable ==
    ASSUME TypeOK
    PROVE  /\ IsFiniteSet(batch) /\ Cardinality(batch) \in Nat
           /\ IsFiniteSet(routed) /\ Cardinality(routed) \in Nat
           /\ IsFiniteSet(nxt) /\ Cardinality(nxt) \in Nat
           /\ IsFiniteSet(pred) /\ Cardinality(pred) \in Nat
           /\ IsFiniteSet(Reserved) /\ Cardinality(Reserved) \in Nat
<1>1. /\ batch \subseteq Experts /\ routed \subseteq Experts /\ nxt \subseteq Experts
      /\ pred \subseteq Experts /\ Reserved \subseteq Pool
    BY DEF TypeOK, ControlOK, BatchOK, IssueOK, Reserved
<1>2. QED
    BY <1>1, SizeAssumption, PoolFinite, FS_Subset, FS_CardinalityType

(* Steps that count nothing anew.                                          *)
LEMMA CountsFrame ==
    ASSUME TypeOK, Counts, UNCHANGED <<env, mode, batch, routed, nxt>>,
           Reserved' \subseteq Reserved,
           pc' \in Issuing => pc' = pc /\ pred' = pred
    PROVE  Counts'
<1>1. /\ Reserved' # {} => Reserved # {}
      /\ Cardinality(Reserved') \in Nat /\ Cardinality(Reserved) \in Nat
      /\ Cardinality(Reserved') <= Cardinality(Reserved)
    BY Countable, FS_Subset, FS_CardinalityType
<1>2. Cardinality(Reserved)' = Cardinality(Reserved')
    OBVIOUS
<1>3. /\ AtOnce' = AtOnce /\ Chunk' = Chunk /\ (Pilot <=> Pilot')
      /\ AtOnce \in Nat /\ Chunk \in Nat /\ Topk \in Nat /\ MaxReserve \in Nat
      /\ Cardinality(pred) \in Nat
    BY Sizes, Countable DEF AtOnce, Chunk, Pilot, TypeOK, ControlOK
<1>4. QED
    BY <1>1, <1>2, <1>3 DEF Counts, Issuing

(* Every step keeps a batch and the slots reserved ahead within their      *)
(* number.                                                                 *)
LEMMA CountsStep ==
    ASSUME TypeOK, Jobs, Accounted, Counts, [Next]_vars
    PROVE  Counts'
<1> USE DEF poolVars, workVars, batchVars, gpuVars, issueVars, workerVars,
        TypeOK
<1>1. ASSUME NEW m \in {"decode", "prefill"}, StartForward(m)
      PROVE Counts'
    <2>1. /\ UNCHANGED <<env, batch, routed, nxt, job>> /\ pc = "idle" /\ pc' = "route"
        BY <1>1 DEF StartForward
    <2>2. batch = {} /\ nxt = {} /\ routed = {} /\ Cardinality({}) = 0
        BY <2>1, FS_EmptySet DEF Accounted, Outside
    <2>3. Reserved' = Reserved /\ AtOnce' \in Nat /\ Chunk' \in Nat /\ (Pilot <=> Pilot') /\ Chunk' = Chunk
        BY <2>1, Sizes DEF AtOnce, Chunk, Pilot, Reserved
    <2>4. QED
        BY <2>1, <2>2, <2>3 DEF Counts, Issuing
<1>2. ASSUME NEW sel \in Subsets(Topk, Experts), NEW resident \in SUBSET sel,
             RouteDecode(sel, resident)
      PROVE Counts'
    <2>1. /\ IsFiniteSet(sel) /\ Cardinality(sel) = Topk /\ sel \subseteq Experts
        BY SizeAssumption, FS_Subset DEF Subsets
    <2>2. /\ Cardinality(sel \ resident) \in Nat /\ Cardinality(sel \ resident) <= Topk
        BY <2>1, FS_Subset, FS_CardinalityType
    <2>3. /\ batch' = sel \ resident /\ routed' = sel /\ nxt' = {}
          /\ UNCHANGED <<env, mode, job>> /\ mode = "decode" /\ pc = "route"
          /\ \/ pc' = "batch"
             \/ pc' = "issue" /\ GpuPrefetch /\ Cardinality(pred') = Topk
        BY <1>2 DEF RouteDecode, StartIssue, Subsets
    <2>4. GpuPrefetch => Pilot
        BY SwitchesAssumption DEF TypeOK, Settings, Pilot, GpuPrefetch
    <2>5. Reserved' = Reserved /\ AtOnce' = Topk /\ Chunk' = Chunk /\ (Pilot <=> Pilot') /\ Topk \in Nat
        BY <2>3, Sizes DEF AtOnce, Chunk, Pilot, Reserved
    <2>6. QED
        BY <2>2, <2>3, <2>4, <2>1, <2>5 DEF Counts, Issuing
<1>3. ASSUME NEW U \in SUBSET Experts, NEW B \in SUBSET U, Cardinality(U) >= Topk,
             RoutePrefill(U, B)
      PROVE Counts'
    <2>1. /\ Cardinality(B) <= Chunk /\ Cardinality(nxt') <= Chunk
        BY <1>3, FirstBlockSize DEF RoutePrefill, TypeOK
    <2>2. /\ batch' = B /\ UNCHANGED <<env, mode, job>>
          /\ mode = "prefill" /\ pc = "route" /\ pc' = "batch"
        BY <1>3 DEF RoutePrefill
    <2>3. Reserved' = Reserved /\ AtOnce' = Chunk /\ Chunk' = Chunk /\ (Pilot <=> Pilot')
        BY <2>2 DEF AtOnce, Chunk, Pilot, Reserved
    <2>4. QED
        BY <2>1, <2>2, <2>3 DEF Counts, Issuing
<1>4. ASSUME NEW e \in todo, Lookup(e)
      PROVE Counts'
    BY <1>4, CountsFrame DEF Lookup, Reserved, Issuing
<1>5. CASE HitReady
    BY <1>5, CountsFrame DEF HitReady, Reserved, Issuing
<1>6. ASSUME NEW e \in missing, NEW s \in Pool, Reserve(e, s)
      PROVE Counts'
    BY <1>6, CountsFrame DEF Reserve, Give, Reserved, Issuing
<1>7. ASSUME NEW e \in toload, LoadMiss(e)
      PROVE Counts'
    BY <1>7, CountsFrame DEF LoadMiss, Reserved, Issuing
<1>8. CASE BatchReady
    <2>1. UNCHANGED <<env, mode, batch, routed, nxt, job>> /\ pc = "batch"
        BY <1>8 DEF BatchReady
    <2>2. \/ pc' = "issue" /\ mode = "prefill" /\ Pilot /\ pred' = nxt
          \/ pc' \notin Issuing
        BY <1>8 DEF BatchReady, StartIssue, Issuing
    <2>3. Reserved' = Reserved /\ AtOnce' = AtOnce /\ Chunk' = Chunk /\ (Pilot <=> Pilot')
          /\ (mode = "prefill" => AtOnce = Chunk)
        BY <2>1 DEF AtOnce, Chunk, Pilot, Reserved
    <2>4. QED
        BY <2>1, <2>2, <2>3 DEF Counts, Issuing
<1>9. CASE SubmitBusy
    BY <1>9, CountsFrame DEF SubmitBusy, Reserved, Issuing
<1>10. CASE Submit
    <2>1. job'[Prefetcher] = job[Prefetcher]
        <3>1. CASE toload = {}
            BY <1>10, <3>1 DEF Submit
        <3>2. CASE toload # {}
            <4> DEFINE J == [s \in Pool |-> IF \E e \in toload : out[e] = s
                                           THEN CHOOSE e \in toload : out[e] = s
                                           ELSE NoExpert]
            <4>1. job' = [job EXCEPT ![Loader] = J]
                BY <1>10, <3>2 DEF Submit
            <4> HIDE DEF J
            <4>2. QED
                BY <4>1 DEF TypeOK, WorkersOK, Workers
        <3>3. QED
            BY <3>1, <3>2
    <2>2. QED
        BY <1>10, <2>1, CountsFrame DEF Submit, Reserved, Issuing
<1>11. ASSUME NEW e \in batch, Apply(e)
      PROVE Counts'
    BY <1>11, CountsFrame DEF Apply, Reserved, Issuing
<1>12. CASE GpuDone
    BY <1>12, CountsFrame DEF GpuDone, Reserved, Issuing
<1>13. CASE GpuFailed
    BY <1>13, CountsFrame DEF GpuFailed, Reserved, Issuing
<1>14. ASSUME NEW e \in unread, Reread(e)
      PROVE Counts'
    <2>1. mode = "decode" /\ routed # {} /\ batch \cup {e} \subseteq routed
        BY <1>14 DEF Reread, Accounted, UsesGpu, Inside
    <2>2. Cardinality(batch \cup {e}) \in Nat /\ Cardinality(batch \cup {e}) <= Topk
        BY <2>1, Countable, FS_Subset, FS_CardinalityType DEF Counts
    <2>3. /\ batch' = batch \cup {e} /\ pc' = "batch"
          /\ UNCHANGED <<env, mode, routed, nxt, job>>
        BY <1>14 DEF Reread
    <2>4. Reserved' = Reserved /\ AtOnce' = Topk /\ Chunk' = Chunk /\ (Pilot <=> Pilot')
        BY <2>1, <2>3 DEF AtOnce, Chunk, Pilot, Reserved
    <2>5. QED
        BY <2>1, <2>2, <2>3, <2>4 DEF Counts, Issuing
<1>15. CASE EndReread
    BY <1>15, CountsFrame DEF EndReread, Reserved, Issuing
<1>16. CASE NextBlock
    <2>1. mode = "prefill"
        BY <1>16 DEF NextBlock, Accounted, TypeOK, ControlOK
    <2>2. Cardinality(nxt') <= Chunk
        BY <1>16, FirstBlockSize DEF NextBlock, TypeOK, ControlOK
    <2>3. batch' = nxt /\ pc' = "batch" /\ UNCHANGED <<env, mode, routed, job>>
        BY <1>16 DEF NextBlock
    <2>4. Reserved' = Reserved /\ AtOnce' = Chunk /\ Chunk' = Chunk /\ (Pilot <=> Pilot')
        BY <2>1, <2>3 DEF AtOnce, Chunk, Pilot, Reserved
    <2>5. QED
        BY <2>1, <2>2, <2>3, <2>4 DEF Counts, Issuing
<1>17. CASE LayerDone
    <2>1. /\ batch' = {} /\ routed' = {} /\ nxt' = {}
          /\ UNCHANGED <<env, mode, job>>
        BY <1>17 DEF LayerDone
    <2>2. \/ pc' = "issue" /\ mode = "decode" /\ Pilot /\ Cardinality(pred') = Topk
          \/ pc' \notin Issuing
        BY <1>17 DEF LayerDone, StartIssue, Subsets, NextLayer, Issuing
    <2>3. Reserved' = Reserved /\ AtOnce' = AtOnce /\ Chunk' = Chunk /\ (Pilot <=> Pilot')
          /\ AtOnce \in Nat /\ Chunk \in Nat /\ Topk \in Nat
          /\ (mode = "decode" => AtOnce = Topk)
        BY <2>1, Sizes DEF AtOnce, Chunk, Pilot, Reserved, TypeOK, ControlOK
    <2>4. Cardinality({}) = 0
        BY FS_EmptySet
    <2>5. QED
        BY <2>1, <2>2, <2>3, <2>4 DEF Counts, Issuing
<1>18. CASE IssueSkipped
    BY <1>18, CountsFrame DEF IssueSkipped, AfterIssue, NextLayer, Reserved, Issuing
<1>19. CASE IssueLocked
    <2>1. pc = "issue" /\ pc' = "reserve" /\ ~hasJob[Prefetcher]
          /\ UNCHANGED <<env, mode, batch, routed, nxt, pred, job>>
        BY <1>19 DEF IssueLocked
    <2>2. Reserved = {} /\ Cardinality(Reserved) = 0
        BY <2>1, FS_EmptySet DEF Jobs, Reserved, NoJob, Workers
    <2>3. Reserved' = Reserved /\ AtOnce' = AtOnce /\ Chunk' = Chunk /\ (Pilot <=> Pilot')
          /\ Cardinality(pred) \in Nat
        BY <2>1, Countable DEF AtOnce, Chunk, Pilot, Reserved
    <2>4. QED
        BY <2>1, <2>2, <2>3 DEF Counts, Issuing
<1>20. ASSUME NEW e \in pred, PredictionCached(e)
      PROVE Counts'
    <2>1. pc = "reserve" /\ pc' = pc /\ pred' = pred \ {e}
          /\ UNCHANGED <<env, mode, batch, routed, nxt, job>>
        BY <1>20 DEF PredictionCached
    <2>2. Cardinality(pred') \in Nat /\ Cardinality(pred') <= Cardinality(pred)
        BY <2>1, Countable, FS_Subset, FS_CardinalityType
    <2>3. Reserved' = Reserved /\ AtOnce' = AtOnce /\ Chunk' = Chunk /\ (Pilot <=> Pilot')
        BY <2>1 DEF AtOnce, Chunk, Pilot, Reserved
    <2>4. AtOnce \in Nat /\ Cardinality(pred) \in Nat /\ Cardinality(Reserved) \in Nat
        BY Sizes, Countable DEF AtOnce, TypeOK
    <2>5. QED
        BY <2>1, <2>2, <2>3, <2>4 DEF Counts, Issuing
<1>21. ASSUME NEW e \in pred, NEW s \in Pool, ReserveAhead(e, s)
      PROVE Counts'
    <2>1. pc = "reserve" /\ pc' = pc /\ pred' = pred \ {e} /\ e \in pred
          /\ UNCHANGED <<env, mode, batch, routed, nxt>>
          /\ Cardinality(Reserved) < MaxReserve
        BY <1>21 DEF ReserveAhead, MoreToReserve
    <2>2. Cardinality(pred') = Cardinality(pred) - 1
        BY <2>1, Countable, FS_RemoveElement
    <2>3. Reserved' = Reserved \cup {s}
        BY <1>21, NamesAssumption DEF ReserveAhead, Reserved, TypeOK, WorkersOK,
                              IssueOK, Workers
    <2>4. Cardinality(Reserved') \in Nat /\ Cardinality(Reserved') <= Cardinality(Reserved) + 1
        <3>1. Cardinality(Reserved \cup {s}) \in {Cardinality(Reserved), Cardinality(Reserved) + 1}
            BY Countable, FS_AddElement
        <3>2. QED
            BY <2>3, <3>1, Countable
    <2>5. AtOnce' = AtOnce /\ Chunk' = Chunk /\ (Pilot <=> Pilot')
        BY <2>1 DEF AtOnce, Chunk, Pilot
    <2>6. /\ AtOnce \in {Chunk, Topk} /\ Chunk \in Nat /\ Topk \in Nat /\ MaxReserve \in Nat
          /\ Cardinality(pred) \in Nat /\ Cardinality(Reserved) \in Nat
        BY Sizes, Countable DEF AtOnce, TypeOK
    <2>7. Cardinality(pred) >= 1
        BY <2>1, <2>6, Countable, FS_EmptySet
    <2>8. QED
        BY <2>1, <2>2, <2>4, <2>5, <2>6, <2>7 DEF Counts, Issuing
<1>22. CASE IssueDone
    BY <1>22, CountsFrame DEF IssueDone, AfterIssue, NextLayer, Signalled, Reserved,
                              Issuing
<1>23. CASE PilotShutdown
    BY <1>23, CountsFrame DEF PilotShutdown, Signalled, Reserved, Issuing
<1>24. CASE PilotJoined
    BY <1>24, CountsFrame DEF PilotJoined, Reserved, Issuing
<1>25. CASE LoaderShutdown
    BY <1>25, CountsFrame DEF LoaderShutdown, Signalled, Reserved, Issuing
<1>26. CASE StoreClosed
    BY <1>26, CountsFrame DEF StoreClosed, Reserved, Issuing
<1>27. ASSUME NEW w \in Workers, Top(w)
      PROVE Counts'
    BY <1>27, CountsFrame DEF Top, Reserved, Issuing
<1>28. ASSUME NEW w \in Workers, NEW s \in Pool, Load(w, s)
      PROVE Counts'
    BY <1>28, CountsFrame DEF Load, Reserved, Issuing
<1>29. ASSUME NEW w \in Workers, NEW s \in Pool, Publish(w, s)
      PROVE Counts'
    BY <1>29, CountsFrame DEF Publish, Reserved, Issuing
<1>30. ASSUME NEW w \in Workers, Finish(w)
      PROVE Counts'
    BY <1>30, CountsFrame DEF Finish, Broadcast, Reserved, Issuing
<1>31. CASE UNCHANGED vars
    BY <1>31, CountsFrame DEF vars, Reserved, Issuing
<1>32. QED
    BY <1>1, <1>2, <1>3, <1>4, <1>5, <1>6, <1>7, <1>8, <1>9, <1>10, <1>11,
       <1>12, <1>13, <1>14, <1>15, <1>16, <1>17, <1>18, <1>19, <1>20, <1>21,
       <1>22, <1>23, <1>24, <1>25, <1>26, <1>27, <1>28, <1>29, <1>30, <1>31
       DEF Next, Forward, Issue, Exit, Prefetch, AsyncLoad, Terminated,
           Workers, PrefetchLoad, PrefetchPublish, LoaderLoad, LoaderPublish




----------------------------------------------------------------------------
(* While slots are given to a batch, those not of the batch that no thread *)
(* fills are candidates, and there is one: AlwaysAVictim.                  *)
LEMMA SpareSlot ==
    ASSUME TypeOK, Passes, Owners, Counts, HandedOut, Undisturbed,
           pc = "batch", missing # {}, Full(layer)
    PROVE  \E t \in Evictable(layer) : \A f \in Placed : out[f] # t
<1> DEFINE g == [f \in Placed |-> out[f]]
<1>1. /\ Placed \subseteq batch /\ Placed # batch
      /\ IsFiniteSet(Placed) /\ Cardinality(Placed) \in Nat
      /\ Cardinality(Placed) < Cardinality(batch)
    <2>1. Placed \subseteq batch /\ Placed # batch
        BY DEF Placed, Passes
    <2>2. IsFiniteSet(Placed) /\ Cardinality(Placed) <= Cardinality(batch)
          /\ Cardinality(Placed) # Cardinality(batch)
        BY <2>1, Countable, FS_Subset
    <2>3. Cardinality(Placed) \in Nat
        BY <2>2, FS_CardinalityType
    <2>4. QED
        BY <2>1, <2>2, <2>3, Countable
<1>2. g \in [Placed -> Pool]
    BY DEF Passes, TypeOK, PoolOK
<1>3. Cardinality(Placed) + Cardinality(Reserved) < Ecap
    <2>1. Reserved # {} => Pilot
        BY DEF Counts
    <2>2. Cardinality(Reserved) > 0 => Pilot
        BY <2>1, FS_EmptySet
    <2>3. Cardinality(batch) + Cardinality(Reserved) <= Ecap
        BY <2>2, Countable, BatchAndReservedFit DEF Counts, TypeOK, ControlOK
    <2>4. Ecap \in Nat
        BY Sizes DEF TypeOK
    <2>5. QED
        BY <1>1, <2>3, <2>4, Countable
<1>4. PICK t \in Pool : Layer(t) = layer /\ t \notin Reserved /\ \A f \in Placed : g[f] # t
    <2>1. Reserved \in SUBSET Pool /\ layer \in Layers
        BY DEF Reserved, TypeOK, ControlOK
    <2> HIDE DEF g
    <2>2. QED
        BY <1>1, <1>2, <1>3, <2>1, ASlotIsLeft
<1>5. t \in used /\ \A f \in Placed : out[f] # t
    BY <1>4 DEF Full
<1>6. t \notin Fetching
    BY <1>4 DEF Fetching, Reserved, Undisturbed, Workers
<1>7. ~loading[t]
    BY <1>5, <1>6 DEF Owners, LoadingIsOwed, Passes
<1>8. QED
    BY <1>4, <1>5, <1>7 DEF Evictable, InUse

(* The same for a reservation ahead of the next block of a prefill, while  *)
(* the slots of the present block are still to be used.                    *)
LEMMA SpareAhead ==
    ASSUME TypeOK, Passes, Owners, Accounted, Counts, HandedOut, Undisturbed,
           pc = "reserve", mode = "prefill", MoreToReserve, Full(layer)
    PROVE  \E t \in Evictable(layer) \ Reserved : \A f \in Placed : out[f] # t
<1> DEFINE g == [f \in Placed |-> out[f]]
<1>1. /\ IsFiniteSet(Placed) /\ Cardinality(Placed) \in Nat
      /\ Cardinality(Placed) <= Cardinality(batch)
    <2>1. Placed \subseteq batch
        BY DEF Placed
    <2>2. QED
        BY <2>1, Countable, FS_Subset, FS_CardinalityType
<1>2. g \in [Placed -> Pool]
    BY DEF Passes, TypeOK, PoolOK
<1>3. Cardinality(Placed) + Cardinality(Reserved) < Ecap
    <2>1. Cardinality(pred) \in Nat /\ Cardinality(pred) # 0
        BY Countable, FS_EmptySet DEF MoreToReserve
    <2>2. /\ Cardinality(batch) <= Chunk /\ Pilot
          /\ Cardinality(Reserved) + Cardinality(pred) <= Chunk
          /\ Cardinality(Reserved) < MaxReserve
        BY DEF Counts, AtOnce, MoreToReserve, Issuing
    <2>3. 2 * Chunk <= Ecap /\ Chunk \in Nat /\ Ecap \in Nat
        BY <2>2, Sizes, Countable DEF TypeOK
    <2>4. QED
        BY <1>1, <2>1, <2>2, <2>3, Countable
<1>4. PICK t \in Pool : Layer(t) = layer /\ t \notin Reserved /\ \A f \in Placed : g[f] # t
    <2>1. Reserved \in SUBSET Pool /\ layer \in Layers
        BY DEF Reserved, TypeOK, ControlOK
    <2> HIDE DEF g
    <2>2. QED
        BY <1>1, <1>2, <1>3, <2>1, ASlotIsLeft
<1>5. t \in used /\ \A f \in Placed : out[f] # t
    BY <1>4 DEF Full
<1>6. t \notin Fetching
    BY <1>4 DEF Fetching, Reserved, Undisturbed, Workers
<1>7. ~loading[t]
    BY <1>5, <1>6 DEF Owners, LoadingIsOwed, Passes
<1>8. QED
    BY <1>4, <1>5, <1>7 DEF Evictable, InUse

(* The least recently used is never a slot of the batch.                   *)
LEMMA VictimIsNotOurs ==
    ASSUME TypeOK, Passes, Owners, Accounted, Counts, HandedOut, Newest, Undisturbed,
           pc = "batch", todo = {}, missing # {},
           NEW s \in Pool, IsVictim(s, layer, Evictable(layer)), NEW f \in Placed
    PROVE  out[f] # s
<1>1. CASE s \notin used
    BY <1>1 DEF Passes
<1>2. CASE Full(layer) /\ s \in Evictable(layer)
           /\ \A t \in Evictable(layer) \ {s} : <<s, t>> \in older
    <2> SUFFICES ASSUME out[f] = s PROVE FALSE
        OBVIOUS
    <2>1. PICK t \in Evictable(layer) : \A h \in Placed : out[h] # t
        BY <1>2, SpareSlot
    <2>2. t \in InUse(layer) /\ t # s /\ t \in Pool /\ f \in Touched
        BY <2>1 DEF Evictable, InUse, Touched, TypeOK, PoolOK
    <2>3. <<t, s>> \in older
        BY <2>1, <2>2 DEF Newest
    <2>4. QED
        BY <1>2, <2>1, <2>2, <2>3 DEF Newest
<1>3. QED
    BY <1>1, <1>2 DEF IsVictim

(* Nor is the slot that a reservation ahead of a block evicts.             *)
LEMMA VictimAheadIsNotOurs ==
    ASSUME TypeOK, Passes, Owners, Accounted, Counts, HandedOut, Newest, Undisturbed,
           pc = "reserve", MoreToReserve,
           NEW s \in Pool, IsVictim(s, target, PrefetchVictims), NEW f \in Placed
    PROVE  out[f] # s
<1>1. mode = "prefill" /\ target = layer
    BY DEF Accounted, Issuing, TypeOK, ControlOK
<1>2. CASE s \notin used
    BY <1>2 DEF Passes
<1>3. CASE Full(layer) /\ s \in PrefetchVictims
           /\ \A t \in PrefetchVictims \ {s} : <<s, t>> \in older
    <2> SUFFICES ASSUME out[f] = s PROVE FALSE
        OBVIOUS
    <2>1. PICK t \in Evictable(layer) \ Reserved : \A h \in Placed : out[h] # t
        BY <1>1, <1>3, SpareAhead
    <2>2. t \in InUse(layer) /\ t # s /\ t \in Pool /\ f \in Touched
        BY <2>1 DEF Evictable, InUse, Touched, TypeOK, PoolOK
    <2>3. <<t, s>> \in older
        BY <2>1, <2>2 DEF Newest
    <2>4. QED
        BY <1>1, <1>3, <2>1, <2>2, <2>3 DEF Newest, PrefetchVictims
<1>4. QED
    BY <1>1, <1>2, <1>3 DEF IsVictim

(* Touching a slot makes it the newest and keeps the order strict.         *)
LEMMA TouchedIsNewest ==
    ASSUME NEW s, NEW S, NEW p, NEW q
    PROVE  /\ p # s /\ q # s => (<<p, q>> \in Touch(s, S) <=> <<p, q>> \in older)
           /\ <<p, s>> \in Touch(s, S) <=> p \in S \ {s}
           /\ <<s, q>> \notin Touch(s, S)
BY DEF Touch

(* No two slots are each older than the other after one is touched.        *)
LEMMA TouchKeepsStrict ==
    ASSUME Newest, NEW s, NEW S, NEW p \in Pool, NEW q \in Pool
    PROVE  ~(<<p, q>> \in Touch(s, S) /\ <<q, p>> \in Touch(s, S))
BY DEF Touch, Newest

(* Every step keeps the slots handed out: neither a miss of the batch, nor *)
(* a reservation ahead, nor a read takes one from its expert.              *)
LEMMA HandedOutStep ==
    ASSUME TypeOK, Passes, Owners, Ids, Accounted, Counts, HandedOut,
           Newest, Undisturbed, [Next]_vars
    PROVE  HandedOut'
<1> USE DEF TypeOK, PoolOK, ControlOK, BatchOK, IssueOK, WorkersOK, Workers,
        Placed, poolVars, workVars, batchVars, gpuVars, issueVars, workerVars
<1>1. ASSUME NEW m \in {"decode", "prefill"}, StartForward(m)
      PROVE HandedOut'
    BY <1>1 DEF StartForward, HandedOut, Accounted, Inside, Outside, Leaving,
           Issuing
<1>2. ASSUME NEW sel \in Subsets(Topk, Experts), NEW resident \in SUBSET sel,
             RouteDecode(sel, resident)
      PROVE HandedOut'
    BY <1>2 DEF RouteDecode, StartIssue, HandedOut, Accounted, Inside,
           Outside, Leaving, Issuing
<1>3. ASSUME NEW U \in SUBSET Experts, NEW B \in SUBSET U, Cardinality(U) >= Topk,
             RoutePrefill(U, B)
      PROVE HandedOut'
    BY <1>3 DEF RoutePrefill, HandedOut, Accounted, Inside, Outside, Leaving,
           Issuing
<1>4. ASSUME NEW e \in todo, Lookup(e)
      PROVE HandedOut'
    <2>1. /\ pc = "batch" /\ todo' = todo \ {e} /\ e \in Experts /\ e \in batch /\ e \notin missing
          /\ UNCHANGED <<eid, layer, batch>>
        BY <1>4 DEF Lookup, Passes
    <2>2. CASE missing' = missing \cup {e} /\ out' = out
        BY <2>1, <2>2 DEF HandedOut
    <2>3. ASSUME NEW s \in InUse(layer), Holds(s, layer, e), missing' = missing,
                 out' = [out EXCEPT ![e] = s]
          PROVE HandedOut'
        <3>1. Placed' = Placed \cup {e} /\ e \notin Placed
            BY <2>1, <2>3
        <3>2. eid[s] = e /\ Layer(s) = layer /\ e # NoExpert
            BY <2>1, <2>3, NamesAssumption DEF Holds, InUse
        <3>3. \A f \in Experts : out'[f] = IF f = e THEN s ELSE out[f]
            BY <2>1, <2>3
        <3>4. \A f \in Placed : f \in Experts /\ f # e
            BY <3>1
        <3>5. \A f \in Placed : out[f] # s
            BY <3>2, <3>4 DEF HandedOut
        <3>6. QED
            BY <2>1, <3>1, <3>2, <3>3, <3>4, <3>5 DEF HandedOut
    <2>4. QED
        BY <1>4, <2>2, <2>3 DEF Lookup
<1>5. CASE HitReady
    BY <1>5 DEF HitReady, HandedOut, Accounted, Inside, Outside, Leaving,
           Issuing
<1>6. ASSUME NEW e \in missing, NEW s \in Pool, Reserve(e, s)
      PROVE HandedOut'
    <2>1. /\ pc = "batch" /\ todo = {} /\ todo' = todo /\ e \in Experts /\ e \in batch
          /\ IsVictim(s, layer, Evictable(layer)) /\ missing # {} /\ missing' = missing \ {e}
          /\ UNCHANGED <<layer, batch>> /\ out' = [out EXCEPT ![e] = s]
          /\ eid' = [eid EXCEPT ![s] = e]
        BY <1>6 DEF Reserve, Give, Passes
    <2>2. Placed' = Placed \cup {e} /\ e \notin Placed
        BY <2>1
    <2>3. \A f \in Placed : out[f] # s /\ f \in Experts
        BY <2>1, VictimIsNotOurs
    <2>4. Layer(s) = layer
        BY <2>1, VictimLayer
    <2>5. \A f \in Experts : out'[f] = IF f = e THEN s ELSE out[f]
        BY <2>1
    <2>6. \A t \in Pool : eid'[t] = IF t = s THEN e ELSE eid[t]
        BY <2>1
    <2>7. \A f \in Placed : out[f] \in Pool
        BY DEF Passes
    <2>8. QED
        BY <2>1, <2>2, <2>3, <2>4, <2>5, <2>6, <2>7 DEF HandedOut
<1>7. ASSUME NEW e \in toload, LoadMiss(e)
      PROVE HandedOut'
    <2>1. e \in Placed /\ e \in Experts /\ out[e] \in Pool
        BY DEF Passes
    <2>2. UNCHANGED <<layer, batch, todo, missing, out>>
        BY <1>7 DEF LoadMiss
    <2>3. \E x \in {e, NoExpert} : \A t \in Pool : eid'[t] = IF t = out[e] THEN x ELSE eid[t]
        BY <1>7, <2>1 DEF LoadMiss, ExpertLoad
    <2>4. \A f \in Placed : out[f] \in Pool /\ (f # e => out[f] # out[e])
        BY <2>1 DEF Passes, HandedOut
    <2>5. QED
        BY <2>2, <2>3, <2>4 DEF HandedOut
<1>8. CASE BatchReady
    BY <1>8 DEF BatchReady, StartIssue, HandedOut, Accounted, Inside, Outside,
           Leaving, Issuing
<1>9. CASE SubmitBusy
    BY <1>9 DEF SubmitBusy, HandedOut, Accounted, Inside, Outside, Leaving,
           Issuing
<1>10. CASE Submit
    BY <1>10 DEF Submit, Signalled, HandedOut, Accounted, Inside, Outside,
           Leaving, Issuing
<1>11. ASSUME NEW e \in batch, Apply(e)
      PROVE HandedOut'
    BY <1>11 DEF Apply, HandedOut, Accounted, Inside, Outside, Leaving,
           Issuing
<1>12. CASE GpuDone
    BY <1>12 DEF GpuDone, HandedOut, Accounted, Inside, Outside, Leaving,
           Issuing
<1>13. CASE GpuFailed
    BY <1>13 DEF GpuFailed, HandedOut, Accounted, Inside, Outside, Leaving,
           Issuing
<1>14. ASSUME NEW e \in unread, Reread(e)
      PROVE HandedOut'
    <2>1. e \notin batch /\ todo = {} /\ missing = {}
        BY <1>14 DEF Reread, Accounted, Inside, Passes, Settled
    <2>2. batch' = batch \cup {e} /\ todo' = {e} /\ UNCHANGED <<eid, layer, missing, out>>
        BY <1>14 DEF Reread
    <2>3. Placed' = Placed
        BY <2>1, <2>2
    <2>4. QED
        BY <2>2, <2>3 DEF HandedOut
<1>15. CASE EndReread
    BY <1>15 DEF EndReread, HandedOut, Accounted, Inside, Outside, Leaving,
           Issuing
<1>16. CASE NextBlock
    BY <1>16 DEF NextBlock, HandedOut, Accounted, Inside, Outside, Leaving,
           Issuing
<1>17. CASE LayerDone
    BY <1>17 DEF LayerDone, StartIssue, NextLayer, HandedOut, Accounted,
           Inside, Outside, Leaving, Issuing
<1>18. CASE IssueSkipped
    BY <1>18 DEF IssueSkipped, AfterIssue, NextLayer, HandedOut, Accounted,
           Inside, Outside, Leaving, Issuing
<1>19. CASE IssueLocked
    BY <1>19 DEF IssueLocked, HandedOut, Accounted, Inside, Outside, Leaving,
           Issuing
<1>20. ASSUME NEW e \in pred, PredictionCached(e)
      PROVE HandedOut'
    BY <1>20 DEF PredictionCached, HandedOut, Accounted, Inside, Outside,
           Leaving, Issuing
<1>21. ASSUME NEW e \in pred, NEW s \in Pool, ReserveAhead(e, s)
      PROVE HandedOut'
    <2>1. \A f \in Placed : out[f] # s /\ out[f] \in Pool
        BY <1>21, VictimAheadIsNotOurs DEF ReserveAhead, Passes
    <2>2. UNCHANGED <<layer, batch, todo, missing, out>>
        BY <1>21 DEF ReserveAhead
    <2>3. \A t \in Pool : t # s => eid'[t] = eid[t]
        BY <1>21 DEF ReserveAhead, Give
    <2>4. QED
        BY <2>1, <2>2, <2>3 DEF HandedOut
<1>22. CASE IssueDone
    BY <1>22 DEF IssueDone, AfterIssue, NextLayer, Signalled, HandedOut,
           Accounted, Inside, Outside, Leaving, Issuing
<1>23. CASE PilotShutdown
    BY <1>23 DEF PilotShutdown, Signalled, HandedOut, Accounted, Inside,
           Outside, Leaving, Issuing
<1>24. CASE PilotJoined
    BY <1>24 DEF PilotJoined, HandedOut, Accounted, Inside, Outside, Leaving,
           Issuing
<1>25. CASE LoaderShutdown
    BY <1>25 DEF LoaderShutdown, Signalled, HandedOut, Accounted, Inside,
           Outside, Leaving, Issuing
<1>26. CASE StoreClosed
    BY <1>26 DEF StoreClosed, HandedOut, Accounted, Inside, Outside, Leaving,
           Issuing
<1>27. ASSUME NEW w \in Workers, Top(w)
      PROVE HandedOut'
    BY <1>27 DEF Top, HandedOut, Accounted, Inside, Outside, Leaving, Issuing
<1>28. ASSUME NEW w \in Workers, NEW s \in Pool, Load(w, s)
      PROVE HandedOut'
    <2>1. eid[s] = job[w][s]
        BY <1>28 DEF Load, Ids
    <2>2. \A t \in Pool : eid'[t] \in {eid[t], NoExpert}
        BY <1>28, <2>1 DEF Load, ExpertLoad
    <2>3. UNCHANGED <<layer, batch, todo, missing, out>>
        BY <1>28 DEF Load
    <2>4. \A f \in Placed : out[f] \in Pool
        BY DEF Passes
    <2>5. QED
        BY <2>2, <2>3, <2>4 DEF HandedOut
<1>29. ASSUME NEW w \in Workers, NEW s \in Pool, Publish(w, s)
      PROVE HandedOut'
    BY <1>29 DEF Publish, HandedOut, Accounted, Inside, Outside, Leaving,
           Issuing
<1>30. ASSUME NEW w \in Workers, Finish(w)
      PROVE HandedOut'
    BY <1>30 DEF Finish, Broadcast, HandedOut, Accounted, Inside, Outside,
           Leaving, Issuing
<1>31. CASE UNCHANGED vars
    BY <1>31 DEF vars, HandedOut, Accounted, Inside, Outside, Leaving, Issuing
<1>32. QED
    BY <1>1, <1>2, <1>3, <1>4, <1>5, <1>6, <1>7, <1>8, <1>9, <1>10, <1>11,
       <1>12, <1>13, <1>14, <1>15, <1>16, <1>17, <1>18, <1>19, <1>20, <1>21,
       <1>22, <1>23, <1>24, <1>25, <1>26, <1>27, <1>28, <1>29, <1>30, <1>31
       DEF Next, Forward, Issue, Exit, Prefetch, AsyncLoad, Terminated,
           Workers, PrefetchLoad, PrefetchPublish, LoaderLoad, LoaderPublish





(* Every step keeps the slots of the batch the newest of the layer.        *)
LEMMA NewestStep ==
    ASSUME TypeOK, Passes, Jobs, Owners, Accounted, Counts, HandedOut,
           Newest, Undisturbed, [Next]_vars
    PROVE  Newest'
<1> USE DEF TypeOK, PoolOK, ControlOK, BatchOK, IssueOK, WorkersOK, Workers,
        Placed, poolVars, workVars, batchVars, gpuVars, issueVars, workerVars
<1>1. ASSUME NEW m \in {"decode", "prefill"}, StartForward(m)
      PROVE Newest'
    BY <1>1 DEF StartForward, Newest, Touched, InUse, Reserved, Accounted,
           Inside, Outside, Leaving, Issuing
<1>2. ASSUME NEW sel \in Subsets(Topk, Experts), NEW resident \in SUBSET sel,
             RouteDecode(sel, resident)
      PROVE Newest'
    BY <1>2 DEF RouteDecode, StartIssue, Newest, Touched, InUse, Reserved,
           Accounted, Inside, Outside, Leaving, Issuing
<1>3. ASSUME NEW U \in SUBSET Experts, NEW B \in SUBSET U, Cardinality(U) >= Topk,
             RoutePrefill(U, B)
      PROVE Newest'
    BY <1>3 DEF RoutePrefill, Newest, Touched, InUse, Reserved, Accounted,
           Inside, Outside, Leaving, Issuing
<1>4. ASSUME NEW e \in todo, Lookup(e)
      PROVE Newest'
    <2>1. /\ pc = "batch" /\ todo' = todo \ {e} /\ e \in Experts /\ e \in batch /\ e \notin missing
          /\ UNCHANGED <<used, layer, batch, job>> /\ layer \in Layers
        BY <1>4 DEF Lookup, Passes
    <2>2. CASE missing' = missing \cup {e} /\ UNCHANGED <<pc, cur, out, older>>
        BY <2>1, <2>2 DEF Newest, Touched, InUse
    <2>3. ASSUME NEW s \in InUse(layer), missing' = missing, out' = [out EXCEPT ![e] = s],
                 \/ pc' = "waitready" /\ cur' = e /\ older' = older
                 \/ pc' = pc /\ older' = Touch(s, InUse(layer))
          PROVE Newest'
        <3>1. Placed' = Placed \cup {e} /\ e \notin Placed /\ InUse(layer)' = InUse(layer)
            BY <2>1, <2>3 DEF InUse
        <3>2. \A f \in Experts : out'[f] = IF f = e THEN s ELSE out[f]
            BY <2>1, <2>3
        <3>3. Touched = Placed
            BY <2>1 DEF Touched
        <3>4. CASE pc' = "waitready" /\ cur' = e /\ older' = older
            <4>1. Touched' = Placed
                BY <3>1, <3>4 DEF Touched
            <4>2. ASSUME NEW f \in Placed, NEW t \in InUse(layer)
                  PROVE <<t, out'[f]>> \in older \/ \E h \in Placed' : out'[h] = t
                <5>1. out'[f] = out[f]
                    BY <3>1, <3>2
                <5>2. <<t, out[f]>> \in older \/ \E h \in Placed : out[h] = t
                    BY <2>1, <3>3 DEF Newest
                <5>3. \A h \in Placed : h \in Placed' /\ out'[h] = out[h]
                    BY <3>1, <3>2
                <5>4. QED
                    BY <5>1, <5>2, <5>3
            <4>3. QED
                BY <3>1, <3>4, <4>1, <4>2 DEF Newest
        <3>5. CASE pc' = pc /\ older' = Touch(s, InUse(layer))
            <4>1. Touched' = Placed \cup {e}
                BY <2>1, <3>1, <3>5 DEF Touched
            <4>2. ASSUME NEW f \in Placed', NEW t \in InUse(layer)
                  PROVE <<t, out'[f]>> \in older' \/ \E h \in Placed' : out'[h] = t
                <5>3. CASE t = s
                    BY <2>1, <3>1, <3>2, <5>3
                <5>1. CASE t # s /\ out'[f] = s
                    <6>1. <<t, s>> \in Touch(s, InUse(layer))
                        BY <5>1, TouchedIsNewest
                    <6>2. QED
                        BY <3>5, <5>1, <6>1
                <5>2. CASE t # s /\ out'[f] # s
                    <6>1. f \in Placed /\ out'[f] = out[f]
                        BY <3>1, <3>2, <5>2
                    <6>2. <<t, out[f]>> \in older \/ \E h \in Placed : out[h] = t
                        BY <2>1, <3>3, <6>1 DEF Newest
                    <6>3. \A h \in Placed : h \in Placed' /\ out'[h] = out[h]
                        BY <3>1, <3>2
                    <6>4. QED
                        <7>1. <<t, out[f]>> \in Touch(s, InUse(layer)) <=> <<t, out[f]>> \in older
                            BY <5>2, <6>1 DEF Touch
                        <7>2. QED
                            BY <3>5, <6>1, <6>2, <6>3, <7>1
                <5>4. QED
                    BY <5>1, <5>2, <5>3
            <4>3. QED
                BY <3>1, <3>5, <4>1, <4>2, TouchKeepsStrict DEF Newest
        <3>6. QED
            BY <2>3, <3>4, <3>5
    <2>4. QED
        BY <1>4, <2>2, <2>3 DEF Lookup
<1>5. CASE HitReady
    <2>1. /\ pc = "waitready" /\ pc' = "batch" /\ cur \in Placed /\ cur \in Experts
          /\ older' = Touch(out[cur], InUse(layer)) /\ out[cur] \in used
          /\ UNCHANGED <<used, layer, batch, todo, missing, out>>
        BY <1>5 DEF HitReady, Passes
    <2>2. Touched' = Placed /\ Touched = Placed \ {cur} /\ Placed' = Placed
        BY <2>1 DEF Touched
    <2>3. ASSUME NEW f \in Placed, NEW t \in InUse(layer)
          PROVE <<t, out[f]>> \in older' \/ \E h \in Placed : out[h] = t
        <3>1. CASE out[f] = out[cur] \/ t = out[cur]
            BY <2>1, <3>1, TouchedIsNewest
        <3>2. CASE out[f] # out[cur] /\ t # out[cur]
            <4>1. <<t, out[f]>> \in older \/ \E h \in Placed : out[h] = t
                BY <2>1, <2>2, <3>2 DEF Newest
            <4>2. QED
                BY <2>1, <3>2, <4>1, TouchedIsNewest
        <3>3. QED
            BY <3>1, <3>2
    <2>4. \A p, q \in Pool : ~(<<p, q>> \in older' /\ <<q, p>> \in older')
        BY <2>1, TouchKeepsStrict
    <2>5. QED
        BY <2>1, <2>2, <2>3, <2>4 DEF Newest, InUse
<1>6. ASSUME NEW e \in missing, NEW s \in Pool, Reserve(e, s)
      PROVE Newest'
    <2>1. /\ pc = "batch" /\ pc' = pc /\ e \in Experts /\ e \in batch
          /\ todo' = todo /\ missing' = missing \ {e} /\ e \in missing /\ todo = {}
          /\ IsVictim(s, layer, Evictable(layer))
          /\ UNCHANGED <<layer, batch>> /\ out' = [out EXCEPT ![e] = s]
          /\ older' = Touch(s, InUse(Layer(s))) /\ used' = used \cup {s}
        BY <1>6 DEF Reserve, Give, Passes
    <2>2. Placed' = Placed \cup {e} /\ e \notin Placed
        BY <2>1
    <2>3. \A f \in Experts : out'[f] = IF f = e THEN s ELSE out[f]
        BY <2>1
    <2>4. Layer(s) = layer
        BY <2>1, VictimLayer
    <2>5. Touched' = Placed \cup {e} /\ Touched = Placed /\ InUse(layer)' = InUse(layer) \cup {s}
        BY <2>1, <2>2, <2>4 DEF Touched, InUse
    <2>6. ASSUME NEW f \in Placed', NEW t \in InUse(layer) \cup {s}
          PROVE <<t, out'[f]>> \in older' \/ \E h \in Placed' : out'[h] = t
        <3>1. CASE t = s
            BY <2>1, <2>2, <2>3, <3>1
        <3>2. CASE t # s /\ out'[f] = s
            <4>1. t \in InUse(Layer(s)) \ {s}
                BY <2>4, <2>6, <3>2
            <4>2. <<t, s>> \in Touch(s, InUse(Layer(s)))
                BY <4>1, TouchedIsNewest
            <4>3. QED
                BY <2>1, <3>2, <4>2
        <3>3. CASE t # s /\ out'[f] # s
            <4>1. f \in Placed /\ out'[f] = out[f]
                BY <2>1, <2>2, <2>3, <3>3
            <4>2. <<t, out[f]>> \in older \/ \E h \in Placed : out[h] = t
                BY <2>1, <2>5, <2>6, <3>3, <4>1 DEF Newest
            <4>3. \A h \in Placed : h \in Placed' /\ out'[h] = out[h]
                BY <2>2, <2>3
            <4>4. QED
                <5>1. <<t, out[f]>> \in Touch(s, InUse(Layer(s))) <=> <<t, out[f]>> \in older
                    BY <3>3, <4>1 DEF Touch
                <5>2. QED
                    BY <2>1, <4>1, <4>2, <4>3, <5>1
        <3>4. QED
            BY <3>1, <3>2, <3>3
    <2>7. \A p, q \in Pool : ~(<<p, q>> \in older' /\ <<q, p>> \in older')
        BY <2>1, TouchKeepsStrict
    <2>8. QED
        BY <2>1, <2>2, <2>5, <2>6, <2>7 DEF Newest
<1>7. ASSUME NEW e \in toload, LoadMiss(e)
      PROVE Newest'
    BY <1>7 DEF LoadMiss, Newest, Touched, InUse, Reserved, Accounted, Inside,
           Outside, Leaving, Issuing
<1>8. CASE BatchReady
    BY <1>8 DEF BatchReady, StartIssue, Newest, Touched, InUse, Reserved,
           Accounted, Inside, Outside, Leaving, Issuing
<1>9. CASE SubmitBusy
    BY <1>9 DEF SubmitBusy, Newest, Touched, InUse, Reserved, Accounted,
           Inside, Outside, Leaving, Issuing
<1>10. CASE Submit
    BY <1>10 DEF Submit, Signalled, Newest, Touched, InUse, Reserved,
           Accounted, Inside, Outside, Leaving, Issuing
<1>11. ASSUME NEW e \in batch, Apply(e)
      PROVE Newest'
    BY <1>11 DEF Apply, Newest, Touched, InUse, Reserved, Accounted, Inside,
           Outside, Leaving, Issuing
<1>12. CASE GpuDone
    BY <1>12 DEF GpuDone, Newest, Touched, InUse, Reserved, Accounted, Inside,
           Outside, Leaving, Issuing
<1>13. CASE GpuFailed
    BY <1>13 DEF GpuFailed, Newest, Touched, InUse, Reserved, Accounted,
           Inside, Outside, Leaving, Issuing
<1>14. ASSUME NEW e \in unread, Reread(e)
      PROVE Newest'
    <2>1. e \notin batch /\ todo = {} /\ missing = {} /\ pc = "reread"
        BY <1>14 DEF Reread, Accounted, Inside, Passes, Settled
    <2>2. batch' = batch \cup {e} /\ todo' = {e} /\ pc' = "batch"
          /\ UNCHANGED <<older, used, layer, missing, out>>
        BY <1>14 DEF Reread
    <2>3. Placed' = Placed /\ Touched' = Touched
        BY <2>1, <2>2 DEF Touched
    <2>4. QED
        BY <2>1, <2>2, <2>3 DEF Newest, InUse
<1>15. CASE EndReread
    BY <1>15 DEF EndReread, Newest, Touched, InUse, Reserved, Accounted,
           Inside, Outside, Leaving, Issuing
<1>16. CASE NextBlock
    BY <1>16 DEF NextBlock, Newest, Touched, InUse, Reserved, Accounted,
           Inside, Outside, Leaving, Issuing
<1>17. CASE LayerDone
    BY <1>17 DEF LayerDone, StartIssue, NextLayer, Newest, Touched, InUse,
           Reserved, Accounted, Inside, Outside, Leaving, Issuing
<1>18. CASE IssueSkipped
    BY <1>18 DEF IssueSkipped, AfterIssue, NextLayer, Newest, Touched, InUse,
           Reserved, Accounted, Inside, Outside, Leaving, Issuing
<1>19. CASE IssueLocked
    BY <1>19 DEF IssueLocked, Newest, Touched, InUse, Reserved, Accounted,
           Inside, Outside, Leaving, Issuing
<1>20. ASSUME NEW e \in pred, PredictionCached(e)
      PROVE Newest'
    BY <1>20 DEF PredictionCached, Newest, Touched, InUse, Reserved,
           Accounted, Inside, Outside, Leaving, Issuing
<1>21. ASSUME NEW e \in pred, NEW s \in Pool, ReserveAhead(e, s)
      PROVE Newest'
    <2>1. /\ pc = "reserve" /\ pc' = pc /\ e \in Experts /\ e # NoExpert
          /\ older' = Touch(s, InUse(Layer(s))) /\ used' = used \cup {s}
          /\ job' = [job EXCEPT ![Prefetcher][s] = e]
          /\ UNCHANGED <<layer, batch, todo, missing, out>>
        BY <1>21, NamesAssumption DEF ReserveAhead, Give
    <2>2. \A f \in Placed : out[f] # s /\ f \in Touched
        BY <1>21, <2>1, VictimAheadIsNotOurs DEF ReserveAhead, Touched
    <2>3. Reserved' = Reserved \cup {s}
        BY <2>1 DEF Reserved
    <2>4. Touched' = Touched /\ Placed' = Placed /\ Touched = Placed
        BY <2>1 DEF Touched
    <2>5. InUse(layer)' \subseteq InUse(layer) \cup {s}
        BY <2>1 DEF InUse
    <2>6. ASSUME NEW f \in Placed, NEW t \in InUse(layer) \cup {s}
          PROVE \/ <<t, out[f]>> \in older' \/ \E h \in Placed : out[h] = t
                \/ t \in Reserved \cup {s}
        <3>1. CASE t = s
            BY <3>1
        <3>2. CASE t # s
            <4>1. t \in InUse(layer) /\ out[f] # s
                BY <2>2, <2>6, <3>2
            <4>2. <<t, out[f]>> \in older \/ (\E h \in Placed : out[h] = t) \/ t \in Reserved
                BY <2>1, <2>2, <4>1 DEF Newest
            <4>3. QED
                <5>1. <<t, out[f]>> \in Touch(s, InUse(Layer(s))) <=> <<t, out[f]>> \in older
                    BY <3>2, <4>1 DEF Touch
                <5>2. QED
                    BY <2>1, <4>2, <5>1
        <3>3. QED
            BY <3>1, <3>2
    <2>7. \A p, q \in Pool : ~(<<p, q>> \in older' /\ <<q, p>> \in older')
        BY <2>1, TouchKeepsStrict
    <2>8. QED
        BY <2>1, <2>3, <2>4, <2>5, <2>6, <2>7 DEF Newest
<1>22. CASE IssueDone
    BY <1>22 DEF IssueDone, AfterIssue, NextLayer, Signalled, Newest, Touched,
           InUse, Reserved, Accounted, Inside, Outside, Leaving, Issuing
<1>23. CASE PilotShutdown
    BY <1>23 DEF PilotShutdown, Signalled, Newest, Touched, InUse, Reserved,
           Accounted, Inside, Outside, Leaving, Issuing
<1>24. CASE PilotJoined
    BY <1>24 DEF PilotJoined, Newest, Touched, InUse, Reserved, Accounted,
           Inside, Outside, Leaving, Issuing
<1>25. CASE LoaderShutdown
    BY <1>25 DEF LoaderShutdown, Signalled, Newest, Touched, InUse, Reserved,
           Accounted, Inside, Outside, Leaving, Issuing
<1>26. CASE StoreClosed
    BY <1>26 DEF StoreClosed, Newest, Touched, InUse, Reserved, Accounted,
           Inside, Outside, Leaving, Issuing
<1>27. ASSUME NEW w \in Workers, Top(w)
      PROVE Newest'
    BY <1>27 DEF Top, Newest, Touched, InUse, Reserved, Accounted, Inside,
           Outside, Leaving, Issuing
<1>28. ASSUME NEW w \in Workers, NEW s \in Pool, Load(w, s)
      PROVE Newest'
    BY <1>28 DEF Load, Newest, Touched, InUse, Reserved, Accounted, Inside,
           Outside, Leaving, Issuing
<1>29. ASSUME NEW w \in Workers, NEW s \in Pool, Publish(w, s)
      PROVE Newest'
    <2>1. /\ UNCHANGED <<older, used, pc, cur, layer, batch, todo, missing, out>>
          /\ job' = [job EXCEPT ![w][s] = NoExpert] /\ wpc[w] = "run"
        BY <1>29 DEF Publish
    <2>2. pc = "reserve" => w = Loader
        BY <2>1 DEF Jobs
    <2>3. pc = "reserve" => Reserved' = Reserved
        BY <2>1, <2>2 DEF Reserved
    <2>4. Placed' = Placed /\ Touched' = Touched /\ InUse(layer)' = InUse(layer)
        BY <2>1 DEF Touched, InUse
    <2>5. QED
        BY <2>1, <2>3, <2>4 DEF Newest
<1>30. ASSUME NEW w \in Workers, Finish(w)
      PROVE Newest'
    BY <1>30 DEF Finish, Broadcast, Newest, Touched, InUse, Reserved,
           Accounted, Inside, Outside, Leaving, Issuing
<1>31. CASE UNCHANGED vars
    BY <1>31 DEF vars, Newest, Touched, InUse, Reserved, Accounted, Inside,
           Outside, Leaving, Issuing
<1>32. QED
    BY <1>1, <1>2, <1>3, <1>4, <1>5, <1>6, <1>7, <1>8, <1>9, <1>10, <1>11,
       <1>12, <1>13, <1>14, <1>15, <1>16, <1>17, <1>18, <1>19, <1>20, <1>21,
       <1>22, <1>23, <1>24, <1>25, <1>26, <1>27, <1>28, <1>29, <1>30, <1>31
       DEF Next, Forward, Issue, Exit, Prefetch, AsyncLoad, Terminated,
           Workers, PrefetchLoad, PrefetchPublish, LoaderLoad, LoaderPublish




(* Every step keeps the slots the main thread computes with out of the     *)
(* threads' jobs.                                                          *)
LEMMA UndisturbedStep ==
    ASSUME TypeOK, Passes, Jobs, Owners, Accounted, Counts, HandedOut,
           Newest, Undisturbed, [Next]_vars
    PROVE  Undisturbed'
<1> USE DEF TypeOK, PoolOK, ControlOK, BatchOK, IssueOK, WorkersOK, Workers,
        Placed, UsesAsync, AsyncMoe, GpuOn, Touched, poolVars, workVars,
        batchVars, gpuVars, issueVars, workerVars
<1>1. ASSUME NEW m \in {"decode", "prefill"}, StartForward(m)
      PROVE Undisturbed'
    BY <1>1 DEF StartForward, Undisturbed, Fetching, Passes, Settled,
           Accounted, Inside, Outside, Leaving, Issuing, UsesGpu
<1>2. ASSUME NEW sel \in Subsets(Topk, Experts), NEW resident \in SUBSET sel,
             RouteDecode(sel, resident)
      PROVE Undisturbed'
    BY <1>2 DEF RouteDecode, StartIssue, Undisturbed, Fetching, Passes,
           Settled, Accounted, Inside, Outside, Leaving, Issuing, UsesGpu
<1>3. ASSUME NEW U \in SUBSET Experts, NEW B \in SUBSET U, Cardinality(U) >= Topk,
             RoutePrefill(U, B)
      PROVE Undisturbed'
    BY <1>3 DEF RoutePrefill, Undisturbed, Fetching, Passes, Settled,
           Accounted, Inside, Outside, Leaving, Issuing, UsesGpu
<1>4. ASSUME NEW e \in todo, Lookup(e)
      PROVE Undisturbed'
    <2>1. /\ pc = "batch" /\ pc' # "compute" /\ e \in todo /\ todo' = todo \ {e}
          /\ UNCHANGED <<env, mode, batch, job>> /\ Fetching' = Fetching
        BY <1>4 DEF Lookup, Fetching
    <2>2. ~UsesAsync => \A f \in Touched' : f \in Placed /\ out'[f] = out[f]
        BY <1>4, <2>1 DEF Lookup, Passes
    <2>3. QED
        BY <2>1, <2>2 DEF Undisturbed
<1>5. CASE HitReady
    <2>1. /\ pc = "waitready" /\ pc' = "batch" /\ ~loading[out[cur]] /\ cur \in Placed
          /\ UNCHANGED <<env, mode, batch, todo, missing, out, job>>
        BY <1>5 DEF HitReady, Passes
    <2>2. out[cur] \notin Fetching /\ Fetching' = Fetching
        BY <2>1 DEF Owners, LoadingIsOwed, Passes, Fetching
    <2>3. Placed' = Placed /\ Touched' = Touched \cup {cur}
        BY <2>1
    <2>4. QED
        BY <2>1, <2>2, <2>3 DEF Undisturbed
<1>6. ASSUME NEW e \in missing, NEW s \in Pool, Reserve(e, s)
      PROVE Undisturbed'
    <2>1. /\ pc = "batch" /\ pc' = pc /\ e \in Experts /\ e \in batch /\ e \in missing
          /\ todo' = todo /\ missing' = missing \ {e}
          /\ IsVictim(s, layer, Evictable(layer))
          /\ UNCHANGED <<env, mode, batch, job>> /\ out' = [out EXCEPT ![e] = s]
        BY <1>6 DEF Reserve, Passes
    <2>2. s \notin Fetching /\ Fetching' = Fetching
        BY <2>1, VictimIsFree DEF Fetching
    <2>3. \A f \in Touched' : (f = e /\ out'[f] = s) \/ (f \in Touched /\ out'[f] = out[f])
        BY <2>1
    <2>4. QED
        BY <2>1, <2>2, <2>3 DEF Undisturbed
<1>7. ASSUME NEW e \in toload, LoadMiss(e)
      PROVE Undisturbed'
    BY <1>7 DEF LoadMiss, Undisturbed, Fetching, Passes, Settled, Accounted,
           Inside, Outside, Leaving, Issuing, UsesGpu
<1>8. CASE BatchReady
    BY <1>8 DEF BatchReady, StartIssue, Undisturbed, Fetching, Passes,
           Settled, Accounted, Inside, Outside, Leaving, Issuing, UsesGpu
<1>9. CASE SubmitBusy
    BY <1>9 DEF SubmitBusy, Undisturbed, Fetching, Passes, Settled, Accounted,
           Inside, Outside, Leaving, Issuing, UsesGpu
<1>10. CASE Submit
    <2>1. /\ pc = "batch" /\ UsesAsync /\ UsesAsync' /\ pc' = "compute" /\ mode = "decode"
          /\ UNCHANGED <<batch, out, applied>>
        BY <1>10 DEF Submit
    <2>2. applied = NothingApplied
        BY <2>1 DEF Accounted
    <2>3. ASSUME NEW t \in Pool, job'[Loader][t] # NoExpert
          PROVE \E f \in batch : out[f] = t
        <3>1. CASE toload = {}
            BY <1>10, <2>1, <2>3, <3>1 DEF Submit, Undisturbed
        <3>2. CASE toload # {}
            <4> DEFINE J == [x \in Pool |-> IF \E f \in toload : out[f] = x
                                           THEN CHOOSE f \in toload : out[f] = x
                                           ELSE NoExpert]
            <4>1. job' = [job EXCEPT ![Loader] = J]
                BY <1>10, <3>2 DEF Submit
            <4>2. J[t] # NoExpert => \E f \in toload : out[f] = t
                OBVIOUS
            <4> HIDE DEF J
            <4>3. job'[Loader] = J
                BY <4>1
            <4>4. QED
                BY <2>3, <4>2, <4>3 DEF Passes
        <3>3. QED
            BY <3>1, <3>2
    <2>4. QED
        BY <2>1, <2>2, <2>3 DEF Undisturbed, NothingApplied
<1>11. ASSUME NEW e \in batch, Apply(e)
      PROVE Undisturbed'
    <2>1. /\ pc = "compute" /\ pc' = pc /\ out[e] \in Pool
          /\ UNCHANGED <<env, mode, batch, todo, missing, out, job, cur>>
          /\ (UsesAsync => ~loading[out[e]])
          /\ \A f \in batch : f # e => applied'[f] = applied[f]
        BY <1>11 DEF Apply, Passes, Settled
    <2>2. Fetching' = Fetching /\ toload = {} /\ Touched = batch
        BY <2>1 DEF Fetching, Passes, Settled
    <2>3. out[e] \notin Fetching
        BY <2>1, <2>2 DEF Undisturbed, Owners, LoadingIsOwed
    <2>4. QED
        BY <2>1, <2>2, <2>3 DEF Undisturbed
<1>12. CASE GpuDone
    BY <1>12 DEF GpuDone, Undisturbed, Fetching, Passes, Settled, Accounted,
           Inside, Outside, Leaving, Issuing, UsesGpu
<1>13. CASE GpuFailed
    BY <1>13 DEF GpuFailed, Undisturbed, Fetching, Passes, Settled, Accounted,
           Inside, Outside, Leaving, Issuing, UsesGpu
<1>14. ASSUME NEW e \in unread, Reread(e)
      PROVE Undisturbed'
    BY <1>14 DEF Reread, Undisturbed, Fetching, Passes, Settled, Accounted,
           Inside, Outside, Leaving, Issuing, UsesGpu
<1>15. CASE EndReread
    BY <1>15 DEF EndReread, Undisturbed, Fetching, Passes, Settled, Accounted,
           Inside, Outside, Leaving, Issuing, UsesGpu
<1>16. CASE NextBlock
    <2>1. /\ batch' = nxt /\ todo' = nxt /\ mode # "decode"
          /\ UNCHANGED <<mode, job>> /\ pc' = "batch"
        BY <1>16 DEF NextBlock, Accounted
    <2>2. \A s \in Pool : job[Loader][s] = NoExpert
        BY <2>1 DEF Undisturbed
    <2>3. QED
        BY <2>1, <2>2 DEF Undisturbed
<1>17. CASE LayerDone
    <2>1. /\ pc = "compute" /\ batch' = {}
          /\ \A e \in batch : applied[e] # NoExpert
          /\ UNCHANGED job /\ pc' # "compute" /\ pc' # "waitready"
        BY <1>17 DEF LayerDone, BatchComputed, StartIssue, NextLayer
    <2>2. \A s \in Pool : job[Loader][s] = NoExpert
        BY <2>1 DEF Undisturbed, Fetching
    <2>3. QED
        BY <2>1, <2>2 DEF Undisturbed
<1>18. CASE IssueSkipped
    BY <1>18 DEF IssueSkipped, AfterIssue, NextLayer, Undisturbed, Fetching,
           Passes, Settled, Accounted, Inside, Outside, Leaving, Issuing,
           UsesGpu
<1>19. CASE IssueLocked
    BY <1>19 DEF IssueLocked, Undisturbed, Fetching, Passes, Settled,
           Accounted, Inside, Outside, Leaving, Issuing, UsesGpu
<1>20. ASSUME NEW e \in pred, PredictionCached(e)
      PROVE Undisturbed'
    BY <1>20 DEF PredictionCached, Undisturbed, Fetching, Passes, Settled,
           Accounted, Inside, Outside, Leaving, Issuing, UsesGpu
<1>21. ASSUME NEW e \in pred, NEW s \in Pool, ReserveAhead(e, s)
      PROVE Undisturbed'
    <2>1. \A f \in Placed : out[f] # s /\ out[f] \in Pool
        BY <1>21, VictimAheadIsNotOurs DEF ReserveAhead, Passes
    <2>2. pc = "reserve" /\ pc' = pc /\ UNCHANGED <<env, mode, layer, batch, todo, missing, out>>
          /\ job' = [job EXCEPT ![Prefetcher][s] = e]
        BY <1>21 DEF ReserveAhead
    <2>3. \A t \in Pool : t # s /\ t \notin Fetching => t \notin Fetching'
        BY <2>2 DEF Fetching
    <2>4. job'[Loader] = job[Loader]
        BY <2>2
    <2>5. QED
        BY <2>1, <2>2, <2>3, <2>4 DEF Undisturbed
<1>22. CASE IssueDone
    BY <1>22 DEF IssueDone, AfterIssue, NextLayer, Signalled, Undisturbed,
           Fetching, Passes, Settled, Accounted, Inside, Outside, Leaving,
           Issuing, UsesGpu
<1>23. CASE PilotShutdown
    BY <1>23 DEF PilotShutdown, Signalled, Undisturbed, Fetching, Passes,
           Settled, Accounted, Inside, Outside, Leaving, Issuing, UsesGpu
<1>24. CASE PilotJoined
    BY <1>24 DEF PilotJoined, Undisturbed, Fetching, Passes, Settled,
           Accounted, Inside, Outside, Leaving, Issuing, UsesGpu
<1>25. CASE LoaderShutdown
    BY <1>25 DEF LoaderShutdown, Signalled, Undisturbed, Fetching, Passes,
           Settled, Accounted, Inside, Outside, Leaving, Issuing, UsesGpu
<1>26. CASE StoreClosed
    BY <1>26 DEF StoreClosed, Undisturbed, Fetching, Passes, Settled,
           Accounted, Inside, Outside, Leaving, Issuing, UsesGpu
<1>27. ASSUME NEW w \in Workers, Top(w)
      PROVE Undisturbed'
    BY <1>27 DEF Top, Undisturbed, Fetching, Passes, Settled, Accounted,
           Inside, Outside, Leaving, Issuing, UsesGpu
<1>28. ASSUME NEW w \in Workers, NEW s \in Pool, Load(w, s)
      PROVE Undisturbed'
    BY <1>28 DEF Load, Undisturbed, Fetching, Passes, Settled, Accounted,
           Inside, Outside, Leaving, Issuing, UsesGpu
<1>29. ASSUME NEW w \in Workers, NEW s \in Pool, Publish(w, s)
      PROVE Undisturbed'
    <2>1. /\ UNCHANGED <<env, mode, pc, cur, batch, todo, missing, out, applied>>
          /\ job' = [job EXCEPT ![w][s] = NoExpert]
        BY <1>29 DEF Publish
    <2>2. Fetching' \subseteq Fetching /\ \A t \in Pool : job'[Loader][t] # NoExpert => job[Loader][t] # NoExpert
        BY <2>1 DEF Fetching
    <2>3. QED
        BY <2>1, <2>2 DEF Undisturbed
<1>30. ASSUME NEW w \in Workers, Finish(w)
      PROVE Undisturbed'
    BY <1>30 DEF Finish, Broadcast, Undisturbed, Fetching, Passes, Settled,
           Accounted, Inside, Outside, Leaving, Issuing, UsesGpu
<1>31. CASE UNCHANGED vars
    BY <1>31 DEF vars, Undisturbed, Fetching, Passes, Settled, Accounted,
           Inside, Outside, Leaving, Issuing, UsesGpu
<1>32. QED
    BY <1>1, <1>2, <1>3, <1>4, <1>5, <1>6, <1>7, <1>8, <1>9, <1>10, <1>11,
       <1>12, <1>13, <1>14, <1>15, <1>16, <1>17, <1>18, <1>19, <1>20, <1>21,
       <1>22, <1>23, <1>24, <1>25, <1>26, <1>27, <1>28, <1>29, <1>30, <1>31
       DEF Next, Forward, Issue, Exit, Prefetch, AsyncLoad, Terminated,
           Workers, PrefetchLoad, PrefetchPublish, LoaderLoad, LoaderPublish


(* Every step keeps what the slots that nobody is about to read hold.      *)
LEMMA BytesStep ==
    ASSUME TypeOK, Passes, Jobs, Owners, Ids, Bytes, [Next]_vars
    PROVE  Bytes'
<1> USE DEF TypeOK, PoolOK, ControlOK, BatchOK, IssueOK, WorkersOK, Workers,
        Leaving, poolVars, workVars, batchVars, gpuVars, issueVars, workerVars
<1>1. ASSUME NEW m \in {"decode", "prefill"}, StartForward(m)
      PROVE Bytes'
    BY <1>1 DEF StartForward, Bytes, Unloaded, Filled, ReadsMayFail, Passes
<1>2. ASSUME NEW sel \in Subsets(Topk, Experts), NEW resident \in SUBSET sel,
             RouteDecode(sel, resident)
      PROVE Bytes'
    BY <1>2 DEF RouteDecode, StartIssue, Bytes, Unloaded, Filled,
           ReadsMayFail, Passes
<1>3. ASSUME NEW U \in SUBSET Experts, NEW B \in SUBSET U, Cardinality(U) >= Topk,
             RoutePrefill(U, B)
      PROVE Bytes'
    BY <1>3 DEF RoutePrefill, Bytes, Unloaded, Filled, ReadsMayFail, Passes
<1>4. ASSUME NEW e \in todo, Lookup(e)
      PROVE Bytes'
    <2>1. toload = {} /\ toload' = {} /\ pc \notin Leaving
          /\ UNCHANGED <<env, eid, weights, used, shutdown, job, loaded>>
        BY <1>4 DEF Lookup, Passes
    <2>2. QED
        BY <2>1 DEF Bytes, Unloaded, Filled, ReadsMayFail
<1>5. CASE HitReady
    BY <1>5 DEF HitReady, Bytes, Unloaded, Filled, ReadsMayFail, Passes
<1>6. ASSUME NEW e \in missing, NEW s \in Pool, Reserve(e, s)
      PROVE Bytes'
    <2>1. /\ pc = "batch" /\ e \in Experts /\ e \notin toload
          /\ toload' = toload \cup {e} /\ out' = [out EXCEPT ![e] = s]
          /\ used' = used \cup {s} /\ UNCHANGED <<env, shutdown, job, loaded>>
          /\ \A t \in Pool : t # s => eid'[t] = eid[t] /\ weights'[t] = weights[t]
        BY <1>6 DEF Reserve, Give, Passes, Placed
    <2>2. \A f \in toload : out'[f] = out[f]
        BY <2>1
    <2>3. Unloaded(s)'
        BY <2>1 DEF Unloaded
    <2>4. \A t \in used : t # s /\ Unloaded(t) => Unloaded(t)'
        BY <2>1, <2>2 DEF Unloaded
    <2>5. \A t \in used : t # s /\ Filled(t) => Filled(t)'
        BY <2>1 DEF Filled, ReadsMayFail
    <2>6. QED
        BY <2>1, <2>3, <2>4, <2>5 DEF Bytes
<1>7. ASSUME NEW e \in toload, LoadMiss(e)
      PROVE Bytes'
    <2>1. e \in Experts /\ out[e] \in Pool /\ pc = "batch"
        BY <1>7 DEF Passes, LoadMiss
    <2>2. /\ toload' = toload \ {e} /\ UNCHANGED <<env, out, used, shutdown, job, loaded>>
          /\ \A t \in Pool : t # out[e] => eid'[t] = eid[t] /\ weights'[t] = weights[t]
          /\ Filled(out[e])'
        BY <1>7, <2>1, NamesAssumption DEF LoadMiss, ExpertLoad, Filled, ReadsMayFail
    <2>3. \A t \in used : t # out[e] /\ Unloaded(t) => Unloaded(t)'
        BY <2>2 DEF Unloaded
    <2>4. \A t \in used : t # out[e] /\ Filled(t) => Filled(t)'
        BY <2>2 DEF Filled, ReadsMayFail
    <2>5. QED
        BY <2>1, <2>2, <2>3, <2>4 DEF Bytes
<1>8. CASE BatchReady
    BY <1>8 DEF BatchReady, StartIssue, Bytes, Unloaded, Filled, ReadsMayFail,
           Passes
<1>9. CASE SubmitBusy
    BY <1>9 DEF SubmitBusy, Bytes, Unloaded, Filled, ReadsMayFail, Passes
<1>10. CASE Submit
    <2>1. /\ pc = "batch" /\ toload' = {}
          /\ UNCHANGED <<env, out, eid, weights, used, shutdown, loaded>>
        BY <1>10 DEF Submit
    <2>2. ASSUME NEW t \in used, Unloaded(t) PROVE Unloaded(t)'
        <3>1. CASE toload = {}
            BY <1>10, <2>1, <2>2, <3>1 DEF Submit, Unloaded
        <3>2. CASE toload # {}
            <4> DEFINE J == [x \in Pool |-> IF \E f \in toload : out[f] = x
                                           THEN CHOOSE f \in toload : out[f] = x
                                           ELSE NoExpert]
            <4>1. job' = [job EXCEPT ![Loader] = J] /\ ~hasJob[Loader]
                BY <1>10, <3>2 DEF Submit
            <4>2. ASSUME NEW f \in toload, out[f] = t PROVE J[t] # NoExpert
                BY <4>2, NamesAssumption
            <4> HIDE DEF J
            <4>3. job'[Loader] = J /\ job'[Prefetcher] = job[Prefetcher]
                BY <4>1
            <4>4. job[Loader] = NoJob /\ loaded[Loader] = {}
                BY <4>1 DEF Jobs
            <4>5. job[Loader][t] = NoExpert /\ t \notin loaded[Loader]
                BY <4>4 DEF NoJob
            <4>6. QED
                BY <2>1, <2>2, <4>2, <4>3, <4>5 DEF Unloaded
        <3>3. QED
            BY <3>1, <3>2
    <2>3. \A t \in used : Filled(t) => Filled(t)'
        BY <2>1 DEF Filled, ReadsMayFail
    <2>4. QED
        BY <2>1, <2>2, <2>3 DEF Bytes
<1>11. ASSUME NEW e \in batch, Apply(e)
      PROVE Bytes'
    BY <1>11 DEF Apply, Bytes, Unloaded, Filled, ReadsMayFail, Passes
<1>12. CASE GpuDone
    BY <1>12 DEF GpuDone, Bytes, Unloaded, Filled, ReadsMayFail, Passes
<1>13. CASE GpuFailed
    BY <1>13 DEF GpuFailed, Bytes, Unloaded, Filled, ReadsMayFail, Passes
<1>14. ASSUME NEW e \in unread, Reread(e)
      PROVE Bytes'
    BY <1>14 DEF Reread, Bytes, Unloaded, Filled, ReadsMayFail, Passes
<1>15. CASE EndReread
    BY <1>15 DEF EndReread, Bytes, Unloaded, Filled, ReadsMayFail, Passes
<1>16. CASE NextBlock
    BY <1>16 DEF NextBlock, Bytes, Unloaded, Filled, ReadsMayFail, Passes
<1>17. CASE LayerDone
    BY <1>17 DEF LayerDone, StartIssue, NextLayer, Bytes, Unloaded, Filled,
           ReadsMayFail, Passes
<1>18. CASE IssueSkipped
    BY <1>18 DEF IssueSkipped, AfterIssue, NextLayer, Bytes, Unloaded, Filled,
           ReadsMayFail, Passes
<1>19. CASE IssueLocked
    BY <1>19 DEF IssueLocked, Bytes, Unloaded, Filled, ReadsMayFail, Passes
<1>20. ASSUME NEW e \in pred, PredictionCached(e)
      PROVE Bytes'
    BY <1>20 DEF PredictionCached, Bytes, Unloaded, Filled, ReadsMayFail,
           Passes
<1>21. ASSUME NEW e \in pred, NEW s \in Pool, ReserveAhead(e, s)
      PROVE Bytes'
    <2>1. /\ pc = "reserve" /\ e \in Experts /\ e # NoExpert
          /\ used' = used \cup {s} /\ UNCHANGED <<env, toload, out, shutdown, loaded>>
          /\ job' = [job EXCEPT ![Prefetcher][s] = e]
          /\ \A t \in Pool : t # s => eid'[t] = eid[t] /\ weights'[t] = weights[t]
        BY <1>21, NamesAssumption DEF ReserveAhead, Give
    <2>2. loaded[Prefetcher] = {}
        BY <2>1 DEF Jobs
    <2>3. Unloaded(s)'
        BY <2>1, <2>2 DEF Unloaded
    <2>4. \A t \in used : t # s /\ Unloaded(t) => Unloaded(t)'
        BY <2>1 DEF Unloaded
    <2>5. \A t \in used : t # s /\ Filled(t) => Filled(t)'
        BY <2>1 DEF Filled, ReadsMayFail
    <2>6. QED
        BY <2>1, <2>3, <2>4, <2>5 DEF Bytes
<1>22. CASE IssueDone
    BY <1>22 DEF IssueDone, AfterIssue, NextLayer, Signalled, Bytes, Unloaded,
           Filled, ReadsMayFail, Passes
<1>23. CASE PilotShutdown
    BY <1>23 DEF PilotShutdown, Signalled, Bytes, Unloaded, Filled,
           ReadsMayFail, Passes
<1>24. CASE PilotJoined
    BY <1>24 DEF PilotJoined, Bytes, Unloaded, Filled, ReadsMayFail, Passes
<1>25. CASE LoaderShutdown
    BY <1>25 DEF LoaderShutdown, Signalled, Bytes, Unloaded, Filled,
           ReadsMayFail, Passes
<1>26. CASE StoreClosed
    BY <1>26 DEF StoreClosed, Bytes, Unloaded, Filled, ReadsMayFail, Passes
<1>27. ASSUME NEW w \in Workers, Top(w)
      PROVE Bytes'
    BY <1>27 DEF Top, Bytes, Unloaded, Filled, ReadsMayFail, Passes
<1>28. ASSUME NEW w \in Workers, NEW s \in Pool, Load(w, s)
      PROVE Bytes'
    <2>1. CASE pc \in Leaving
        BY <1>28, <2>1 DEF Load, Bytes
    <2>2. CASE pc \notin Leaving
        <3>1. ~shutdown[w]
            BY <2>2 DEF Bytes
        <3>2. /\ ExpertLoad(s, job[w][s]) /\ job[w][s] \in Experts
              /\ loaded' = [loaded EXCEPT ![w] = loaded[w] \cup {s}]
            BY <1>28, <3>1 DEF Load
        <3>3. UNCHANGED <<env, toload, out, used, shutdown, job, pc>>
            BY <1>28 DEF Load
        <3>4. /\ \A t \in Pool : t # s => eid'[t] = eid[t] /\ weights'[t] = weights[t]
              /\ Filled(s)'
            BY <3>2, <3>3, NamesAssumption DEF ExpertLoad, Filled, ReadsMayFail
        <3>5. \A v \in Workers : \A t \in Pool : t # s /\ t \notin loaded[v] => t \notin loaded'[v]
            BY <3>2
        <3>6. \A t \in used : t # s /\ Unloaded(t) => Unloaded(t)'
            BY <3>3, <3>5 DEF Unloaded
        <3>7. \A t \in used : t # s /\ Filled(t) => Filled(t)'
            BY <3>3, <3>4 DEF Filled, ReadsMayFail
        <3>8. QED
            BY <2>2, <3>3, <3>4, <3>6, <3>7 DEF Bytes
    <2>3. QED
        BY <2>1, <2>2
<1>29. ASSUME NEW w \in Workers, NEW s \in Pool, Publish(w, s)
      PROVE Bytes'
    <2>1. /\ s \in loaded[w] /\ loaded' = [loaded EXCEPT ![w] = loaded[w] \ {s}]
          /\ job' = [job EXCEPT ![w][s] = NoExpert]
          /\ UNCHANGED <<env, eid, weights, toload, out, used, shutdown, pc>>
        BY <1>29 DEF Publish
    <2>2. job[w][s] # NoExpert /\ \A v \in Workers : v # w => job[v][s] = NoExpert
        BY <2>1 DEF Owners, Jobs
    <2>3. ~Unloaded(s)
        BY <2>1, <2>2 DEF Unloaded, Owners, Fetching
    <2>4. \A v \in Workers : \A t \in Pool :
             /\ t \notin loaded[v] => t \notin loaded'[v]
             /\ t # s => job'[v][t] = job[v][t]
        BY <2>1
    <2>5. \A t \in used : t # s /\ Unloaded(t) => Unloaded(t)'
        BY <2>1, <2>4 DEF Unloaded
    <2>6. \A t \in used : Filled(t) => Filled(t)'
        BY <2>1 DEF Filled, ReadsMayFail
    <2>7. QED
        BY <2>1, <2>3, <2>5, <2>6 DEF Bytes
<1>30. ASSUME NEW w \in Workers, Finish(w)
      PROVE Bytes'
    BY <1>30 DEF Finish, Broadcast, Bytes, Unloaded, Filled, ReadsMayFail,
           Passes
<1>31. CASE UNCHANGED vars
    BY <1>31 DEF vars, Bytes, Unloaded, Filled, ReadsMayFail, Passes
<1>32. QED
    BY <1>1, <1>2, <1>3, <1>4, <1>5, <1>6, <1>7, <1>8, <1>9, <1>10, <1>11,
       <1>12, <1>13, <1>14, <1>15, <1>16, <1>17, <1>18, <1>19, <1>20, <1>21,
       <1>22, <1>23, <1>24, <1>25, <1>26, <1>27, <1>28, <1>29, <1>30, <1>31
       DEF Next, Forward, Issue, Exit, Prefetch, AsyncLoad, Terminated,
           Workers, PrefetchLoad, PrefetchPublish, LoaderLoad, LoaderPublish



(* What the layer adds for an expert of the batch is its own, or nothing   *)
(* if its read failed.                                                     *)
Own(e) == {e} \cup (IF ReadsMayFail THEN {Dropped} ELSE {})
LEMMA ContributionIsOwn ==
    ASSUME TypeOK, Passes, Owners, HandedOut, Undisturbed, Bytes, pc \in {"compute", "gpu"},
           NEW e \in batch, UsesAsync => ~loading[out[e]]
    PROVE  Contribution(out[e]) \in Own(e)
<1>1. e \in Placed /\ e \in Touched /\ toload = {} /\ e \in Experts /\ out[e] \in used
    BY DEF Passes, Settled, Placed, Touched, TypeOK, BatchOK
<1>2. out[e] \in Pool /\ eid[out[e]] \in {e, NoExpert}
    BY <1>1 DEF HandedOut, TypeOK, PoolOK
<1>3. out[e] \notin Fetching
    BY <1>1, <1>2 DEF Undisturbed, Owners, LoadingIsOwed
<1>4. Filled(out[e])
    BY <1>1, <1>2, <1>3 DEF Bytes, Leaving, Unloaded, Fetching
<1>5. QED
    BY <1>1, <1>2, <1>4, NamesAssumption DEF Contribution, Filled, Own

(* Every step keeps what was added the experts' own.                       *)
LEMMA OwnWeightsStep ==
    ASSUME TypeOK, Passes, Owners, Accounted, HandedOut, Undisturbed, Bytes,
           OwnWeights, [Next]_vars
    PROVE  OwnWeights'
<1> USE DEF OwnWeights, ReadsMayFail, NothingApplied, poolVars, workVars,
        batchVars, gpuVars, issueVars, workerVars
<1>1. ASSUME NEW m \in {"decode", "prefill"}, StartForward(m)
      PROVE OwnWeights'
    BY <1>1 DEF StartForward
<1>2. ASSUME NEW sel \in Subsets(Topk, Experts), NEW resident \in SUBSET sel,
             RouteDecode(sel, resident)
      PROVE OwnWeights'
    BY <1>2 DEF RouteDecode, StartIssue
<1>3. ASSUME NEW U \in SUBSET Experts, NEW B \in SUBSET U, Cardinality(U) >= Topk,
             RoutePrefill(U, B)
      PROVE OwnWeights'
    BY <1>3 DEF RoutePrefill
<1>4. ASSUME NEW e \in todo, Lookup(e)
      PROVE OwnWeights'
    BY <1>4 DEF Lookup
<1>5. CASE HitReady
    BY <1>5 DEF HitReady
<1>6. ASSUME NEW e \in missing, NEW s \in Pool, Reserve(e, s)
      PROVE OwnWeights'
    BY <1>6 DEF Reserve, Give
<1>7. ASSUME NEW e \in toload, LoadMiss(e)
      PROVE OwnWeights'
    BY <1>7 DEF LoadMiss
<1>8. CASE BatchReady
    BY <1>8 DEF BatchReady, StartIssue
<1>9. CASE SubmitBusy
    BY <1>9 DEF SubmitBusy
<1>10. CASE Submit
    BY <1>10 DEF Submit, Signalled
<1>11. ASSUME NEW e \in batch, Apply(e)
      PROVE OwnWeights'
    <2>1. Contribution(out[e]) \in Own(e) /\ e \in Experts
        BY <1>11, ContributionIsOwn DEF Apply, TypeOK, BatchOK
    <2>2. applied' = [applied EXCEPT ![e] = Contribution(out[e])] /\ env' = env
        BY <1>11 DEF Apply
    <2>3. QED
        BY <2>1, <2>2 DEF OwnWeights, Own, ReadsMayFail, TypeOK, BatchOK
<1>12. CASE GpuDone
    <2>1. ~UsesAsync /\ pc = "gpu" /\ env' = env
        BY <1>12 DEF GpuDone, Accounted, UsesGpu, UsesAsync
    <2>2. \A e \in batch : Contribution(out[e]) \in Own(e)
        BY <2>1, ContributionIsOwn
    <2>3. \A e \in Experts : applied'[e] = IF e \in batch THEN Contribution(out[e])
                                           ELSE IF e \in unread THEN e ELSE NoExpert
        BY <1>12 DEF GpuDone
    <2>4. QED
        BY <2>1, <2>2, <2>3 DEF OwnWeights, Own, ReadsMayFail
<1>13. CASE GpuFailed
    BY <1>13 DEF GpuFailed
<1>14. ASSUME NEW e \in unread, Reread(e)
      PROVE OwnWeights'
    BY <1>14 DEF Reread
<1>15. CASE EndReread
    BY <1>15 DEF EndReread
<1>16. CASE NextBlock
    BY <1>16 DEF NextBlock
<1>17. CASE LayerDone
    BY <1>17 DEF LayerDone, StartIssue, NextLayer
<1>18. CASE IssueSkipped
    BY <1>18 DEF IssueSkipped, AfterIssue, NextLayer
<1>19. CASE IssueLocked
    BY <1>19 DEF IssueLocked
<1>20. ASSUME NEW e \in pred, PredictionCached(e)
      PROVE OwnWeights'
    BY <1>20 DEF PredictionCached
<1>21. ASSUME NEW e \in pred, NEW s \in Pool, ReserveAhead(e, s)
      PROVE OwnWeights'
    BY <1>21 DEF ReserveAhead, Give
<1>22. CASE IssueDone
    BY <1>22 DEF IssueDone, AfterIssue, NextLayer, Signalled
<1>23. CASE PilotShutdown
    BY <1>23 DEF PilotShutdown, Signalled
<1>24. CASE PilotJoined
    BY <1>24 DEF PilotJoined
<1>25. CASE LoaderShutdown
    BY <1>25 DEF LoaderShutdown, Signalled
<1>26. CASE StoreClosed
    BY <1>26 DEF StoreClosed
<1>27. ASSUME NEW w \in Workers, Top(w)
      PROVE OwnWeights'
    BY <1>27 DEF Top
<1>28. ASSUME NEW w \in Workers, NEW s \in Pool, Load(w, s)
      PROVE OwnWeights'
    BY <1>28 DEF Load
<1>29. ASSUME NEW w \in Workers, NEW s \in Pool, Publish(w, s)
      PROVE OwnWeights'
    BY <1>29 DEF Publish
<1>30. ASSUME NEW w \in Workers, Finish(w)
      PROVE OwnWeights'
    BY <1>30 DEF Finish, Broadcast
<1>31. CASE UNCHANGED vars
    BY <1>31 DEF vars
<1>32. QED
    BY <1>1, <1>2, <1>3, <1>4, <1>5, <1>6, <1>7, <1>8, <1>9, <1>10, <1>11,
       <1>12, <1>13, <1>14, <1>15, <1>16, <1>17, <1>18, <1>19, <1>20, <1>21,
       <1>22, <1>23, <1>24, <1>25, <1>26, <1>27, <1>28, <1>29, <1>30, <1>31
       DEF Next, Forward, Issue, Exit, Prefetch, AsyncLoad, Terminated,
           Workers, PrefetchLoad, PrefetchPublish, LoaderLoad, LoaderPublish



(* All of it holds initially, and so always.                               *)
LEMMA BatchInvInit == Init => BatchInv
<1> SUFFICES ASSUME Init PROVE BatchInv
    OBVIOUS
<1>1. Cardinality({}) = 0 /\ IsFiniteSet({})
    BY FS_EmptySet
<1>2. Reserved = {} /\ Placed = {}
    BY DEF Init, Reserved, NoJob, Placed, Workers
<1>3. Accounted /\ HandedOut /\ Newest /\ OwnWeights
    BY <1>2 DEF Init, Accounted, HandedOut, Newest, OwnWeights, Inside, Outside,
                Issuing, Touched, NothingApplied
<1>4. Counts
    BY <1>1, <1>2, Sizes DEF Init, Counts, AtOnce, Issuing
<1>5. Undisturbed
    BY <1>2 DEF Init, Undisturbed, Touched, NoJob, Workers
<1>6. Bytes
    BY DEF Init, Bytes
<1>7. QED
    BY <1>3, <1>4, <1>5, <1>6 DEF BatchInv

LEMMA BatchInvStep == CacheInv /\ BatchInv /\ [Next]_vars => BatchInv'
BY AccountedStep, CountsStep, HandedOutStep, NewestStep, UndisturbedStep, BytesStep,
   OwnWeightsStep DEF CacheInv, BatchInv

LEMMA BatchInvariant == Spec => []BatchInv
BY BatchInvInit, BatchInvStep, CacheInvariant, PTL DEF Spec

----------------------------------------------------------------------------
(* What follows *)

(* A slot handed out for a batch keeps its expert until the batch is       *)
(* computed, and no two experts share one (the pinning by last_used in     *)
(* cache_load_batch, picchio.c:1420-1425; the victims of prefetch_issue).  *)
THEOREM BatchesIntact == Spec => []BatchIntact
<1>1. TypeOK /\ HandedOut => BatchIntact
    <2> SUFFICES ASSUME TypeOK, HandedOut, NEW e \in batch, out[e] # NoSlot,
                        NEW f \in batch \ {e}
                 PROVE  eid[out[e]] \in {e, NoExpert} /\ out[f] # out[e]
        BY DEF BatchIntact, HandedOut, TypeOK, BatchOK
    <2>1. e \in Placed /\ f \in Experts
        BY DEF HandedOut, TypeOK, BatchOK
    <2>2. QED
        BY <2>1 DEF HandedOut
<1>2. QED
    BY <1>1, BatchInvariant, TypeCorrect, PTL DEF BatchInv

(* However many slots are being filled ahead, a miss finds one that is     *)
(* unused or evictable and not of its batch: cache_load_batch never comes  *)
(* to its last resort (picchio.c:1451-1454).                               *)
THEOREM VictimAlways == Spec => []AlwaysAVictim
<1>1. CacheInv /\ BatchInv => AlwaysAVictim
    <2> SUFFICES ASSUME CacheInv, BatchInv, pc = "batch", missing # {}, Full(layer)
                 PROVE  Evictable(layer) \ {out[e] : e \in batch} # {}
        BY DEF AlwaysAVictim
    <2>1. PICK t \in Evictable(layer) : \A f \in Placed : out[f] # t
        BY SpareSlot DEF CacheInv, BatchInv
    <2>2. t \in Pool /\ NoSlot \notin Pool
        BY <2>1, NamesAssumption DEF Evictable, InUse, CacheInv, TypeOK, PoolOK, Pool,
                              Layers
    <2>3. \A e \in batch : out[e] # t
        BY <2>1, <2>2 DEF BatchInv, HandedOut, CacheInv, TypeOK, BatchOK
    <2>4. QED
        BY <2>1, <2>3
<1>2. QED
    BY <1>1, BatchInvariant, CacheInvariant, PTL

(* No thread writes the buffers of a slot the main thread computes with,   *)
(* and the jobs of the two threads are disjoint.                           *)
THEOREM OneWriter == Spec => []SingleWriter
<1>1. CacheInv /\ BatchInv => SingleWriter
    <2> SUFFICES ASSUME CacheInv, BatchInv PROVE SingleWriter
        OBVIOUS
    <2>1. /\ \A s \in Pool : job[Prefetcher][s] = NoExpert \/ job[Loader][s] = NoExpert
          /\ ~UsesAsync => \A e \in toload : out[e] \notin Fetching
        BY DEF CacheInv, Owners
    <2>2. ASSUME pc \in {"compute", "gpu"}, NEW e \in batch, out[e] \in Fetching
          PROVE  UsesAsync /\ loading[out[e]]
        <3>1. e \in Touched /\ out[e] \in Pool
            BY <2>2 DEF Touched, Placed, CacheInv, Passes, Settled, Fetching
        <3>2. QED
            BY <2>2, <3>1 DEF BatchInv, Undisturbed, CacheInv, Owners, LoadingIsOwed
    <2>3. QED
        BY <2>1, <2>2 DEF SingleWriter
<1>2. QED
    BY <1>1, BatchInvariant, CacheInvariant, PTL

(* What is added to a layer's output for an expert was computed with that  *)
(* expert's own weights (expert_apply on whatever its slot holds), and an  *)
(* expert is left out only when its read failed.                           *)
THEOREM WeightsAreOwn == Spec => []OwnWeights
<1>1. BatchInv => OwnWeights
    BY DEF BatchInv
<1>2. QED
    BY <1>1, BatchInvariant, PTL

(* Every step is a step of the abstract layer, or none.                    *)
LEMMA LayerStep ==
    ASSUME CacheInv, BatchInv, [Next]_vars
    PROVE  [Promise!Next]_<<ReadsMayFail, routed, applied>>
<1> USE DEF poolVars, workVars, batchVars, gpuVars, issueVars, workerVars,
        ReadsMayFail
<1>1. ASSUME NEW m \in {"decode", "prefill"}, StartForward(m)
      PROVE [Promise!Next]_<<ReadsMayFail, routed, applied>>
    BY <1>1 DEF StartForward
<1>2. ASSUME NEW sel \in Subsets(Topk, Experts), NEW resident \in SUBSET sel,
             RouteDecode(sel, resident)
      PROVE [Promise!Next]_<<ReadsMayFail, routed, applied>>
    <2>1. routed = {} /\ applied = NothingApplied /\ sel \in SUBSET Experts
        BY <1>2 DEF RouteDecode, BatchInv, Accounted, Outside, Subsets
    <2>2. Cardinality(sel) = Topk /\ Topk >= Topk
        BY SizeAssumption DEF Subsets
    <2>3. routed' = sel /\ applied' = applied /\ env' = env
        BY <1>2, <2>1 DEF RouteDecode
    <2>5. Cardinality(sel) >= Topk
        BY <2>2
    <2>6. Promise!Route(sel)
        BY <2>1, <2>3, <2>5 DEF Promise!Route, Promise!Cardinality, Cardinality
    <2>4. QED
        BY <2>1, <2>6 DEF Promise!Next
<1>3. ASSUME NEW U \in SUBSET Experts, NEW B \in SUBSET U, Cardinality(U) >= Topk,
             RoutePrefill(U, B)
      PROVE [Promise!Next]_<<ReadsMayFail, routed, applied>>
    <2>1. routed = {} /\ applied = NothingApplied
        BY <1>3 DEF RoutePrefill, BatchInv, Accounted, Outside
    <2>4. routed' = U /\ applied' = applied /\ env' = env
        BY <1>3, <2>1 DEF RoutePrefill
    <2>2. Promise!Route(U)
        BY <1>3, <2>1, <2>4 DEF Promise!Route, Promise!Cardinality, Cardinality
    <2>3. QED
        BY <2>2 DEF Promise!Next
<1>4. ASSUME NEW e \in todo, Lookup(e)
      PROVE [Promise!Next]_<<ReadsMayFail, routed, applied>>
    BY <1>4 DEF Lookup
<1>5. CASE HitReady
    BY <1>5 DEF HitReady
<1>6. ASSUME NEW e \in missing, NEW s \in Pool, Reserve(e, s)
      PROVE [Promise!Next]_<<ReadsMayFail, routed, applied>>
    BY <1>6 DEF Reserve, Give
<1>7. ASSUME NEW e \in toload, LoadMiss(e)
      PROVE [Promise!Next]_<<ReadsMayFail, routed, applied>>
    BY <1>7 DEF LoadMiss
<1>8. CASE BatchReady
    BY <1>8 DEF BatchReady, StartIssue
<1>9. CASE SubmitBusy
    BY <1>9 DEF SubmitBusy
<1>10. CASE Submit
    BY <1>10 DEF Submit, Signalled
<1>11. ASSUME NEW e \in batch, Apply(e)
      PROVE [Promise!Next]_<<ReadsMayFail, routed, applied>>
    <2>1. Contribution(out[e]) \in Own(e)
        BY <1>11, ContributionIsOwn DEF Apply, CacheInv, BatchInv
    <2>2. e \in routed /\ e \in Experts
        BY <1>11 DEF Apply, BatchInv, Accounted, Inside, CacheInv, TypeOK, ControlOK
    <2>3. /\ applied[e] = NoExpert /\ routed' = routed /\ env' = env
          /\ applied' = [applied EXCEPT ![e] = Contribution(out[e])]
          /\ applied \in [Experts -> Experts \cup {NoExpert, Dropped}]
        BY <1>11 DEF Apply, CacheInv, TypeOK, BatchOK
    <2>4. Promise!Add({e})
        BY <2>1, <2>2, <2>3 DEF Promise!Add, Promise!Outcome, Own
    <2>5. QED
        BY <2>2, <2>4 DEF Promise!Next
<1>12. CASE GpuDone
    <2> DEFINE S == batch \cup unread
    <2>1. /\ ~UsesAsync /\ mode = "decode" /\ pc = "gpu" /\ routed # {}
          /\ applied = NothingApplied /\ nxt = {} /\ rest = {}
        BY <1>12 DEF GpuDone, UsesAsync, UsesGpu, BatchInv, Accounted, Inside
    <2>2. S # {} /\ S \subseteq routed /\ S \subseteq Experts
        BY <2>1 DEF BatchInv, Accounted, CacheInv, TypeOK, ControlOK, NothingApplied
    <2>3. \A e \in batch : Contribution(out[e]) \in Own(e)
        BY <2>1, ContributionIsOwn DEF CacheInv, BatchInv
    <2>4. /\ applied' = [e \in Experts |-> IF e \in batch THEN Contribution(out[e])
                                         ELSE IF e \in unread THEN e ELSE NoExpert]
          /\ routed' = routed /\ env' = env
        BY <1>12 DEF GpuDone
    <2>5. Promise!Add(S)
        BY <2>1, <2>2, <2>3, <2>4 DEF Promise!Add, Promise!Outcome, Own,
                              NothingApplied
    <2>6. QED
        BY <2>2, <2>5 DEF Promise!Next
<1>13. CASE GpuFailed
    BY <1>13 DEF GpuFailed
<1>14. ASSUME NEW e \in unread, Reread(e)
      PROVE [Promise!Next]_<<ReadsMayFail, routed, applied>>
    BY <1>14 DEF Reread
<1>15. CASE EndReread
    BY <1>15 DEF EndReread
<1>16. CASE NextBlock
    BY <1>16 DEF NextBlock
<1>17. CASE LayerDone
    <2>1. routed # {} /\ rest = {} /\ pc = "compute" /\ nxt = {}
        BY <1>17 DEF LayerDone, BatchInv, Accounted, Inside
    <2>2. \A e \in routed : applied[e] # NoExpert
        BY <1>17, <2>1 DEF LayerDone, BatchComputed, BatchInv, Accounted
    <2>3. Promise!LayerEnds
        BY <1>17, <2>1, <2>2 DEF LayerDone, Promise!LayerEnds, NothingApplied
    <2>4. QED
        BY <2>3 DEF Promise!Next
<1>18. CASE IssueSkipped
    BY <1>18 DEF IssueSkipped, AfterIssue, NextLayer
<1>19. CASE IssueLocked
    BY <1>19 DEF IssueLocked
<1>20. ASSUME NEW e \in pred, PredictionCached(e)
      PROVE [Promise!Next]_<<ReadsMayFail, routed, applied>>
    BY <1>20 DEF PredictionCached
<1>21. ASSUME NEW e \in pred, NEW s \in Pool, ReserveAhead(e, s)
      PROVE [Promise!Next]_<<ReadsMayFail, routed, applied>>
    BY <1>21 DEF ReserveAhead, Give
<1>22. CASE IssueDone
    BY <1>22 DEF IssueDone, AfterIssue, NextLayer, Signalled
<1>23. CASE PilotShutdown
    BY <1>23 DEF PilotShutdown, Signalled
<1>24. CASE PilotJoined
    BY <1>24 DEF PilotJoined
<1>25. CASE LoaderShutdown
    BY <1>25 DEF LoaderShutdown, Signalled
<1>26. CASE StoreClosed
    BY <1>26 DEF StoreClosed
<1>27. ASSUME NEW w \in Workers, Top(w)
      PROVE [Promise!Next]_<<ReadsMayFail, routed, applied>>
    BY <1>27 DEF Top
<1>28. ASSUME NEW w \in Workers, NEW s \in Pool, Load(w, s)
      PROVE [Promise!Next]_<<ReadsMayFail, routed, applied>>
    BY <1>28 DEF Load
<1>29. ASSUME NEW w \in Workers, NEW s \in Pool, Publish(w, s)
      PROVE [Promise!Next]_<<ReadsMayFail, routed, applied>>
    BY <1>29 DEF Publish
<1>30. ASSUME NEW w \in Workers, Finish(w)
      PROVE [Promise!Next]_<<ReadsMayFail, routed, applied>>
    BY <1>30 DEF Finish, Broadcast
<1>31. CASE UNCHANGED vars
    BY <1>31 DEF vars
<1>32. QED
    BY <1>1, <1>2, <1>3, <1>4, <1>5, <1>6, <1>7, <1>8, <1>9, <1>10, <1>11,
       <1>12, <1>13, <1>14, <1>15, <1>16, <1>17, <1>18, <1>19, <1>20, <1>21,
       <1>22, <1>23, <1>24, <1>25, <1>26, <1>27, <1>28, <1>29, <1>30, <1>31
       DEF Next, Forward, Issue, Exit, Prefetch, AsyncLoad, Terminated,
           Workers, PrefetchLoad, PrefetchPublish, LoaderLoad, LoaderPublish


(* A layer served by the cache, its threads or the GPU is a layer as       *)
(* MoELayer promises it: every step is one of its steps, or none.          *)
THEOREM CacheImplementsLayer == Spec => ImplementsMoELayer
<1>1. Init => Promise!Init
    BY SettingsTypes DEF Init, Promise!Init, NothingApplied
<1>2. CacheInv /\ BatchInv /\ [Next]_vars => [Promise!Next]_<<ReadsMayFail, routed, applied>>
    BY LayerStep
<1>3. QED
    BY <1>1, <1>2, CacheInvariant, BatchInvariant, PTL DEF Spec, ImplementsMoELayer,
                              Promise!Spec

=============================================================================
