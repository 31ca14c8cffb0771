----------------------------- MODULE GpuBackend -----------------------------
(***************************************************************************)
(* The choice of a GPU backend at startup (gpu_backend_load) and the       *)
(* attention projections that depend on it.  The native backend            *)
(* (gpu_router_native.h) keeps routers and projection matrices on the      *)
(* device and may then release the host's copies of the matrices; the      *)
(* library (picchio_cuda.cu) serves routers and experts.                   *)
(***************************************************************************)
EXTENDS ExpertStore

CONSTANTS Matrices    \* the Q, K, V and O projections of the layers

(*   wants    what the environment asks for                                *)
(*   release  GPU_DENSE_RELEASE_HOST                                       *)
(*   f32      the projections kept as F32 (the others are INT8)            *)
ASSUME BackendAssumption ==
    \A v \in Setups : /\ v.wants \subseteq {"router", "dense", "experts"}
                      /\ v.release \in BOOLEAN
                      /\ v.f32 \subseteq Matrices

VARIABLES
    boot,      \* the startup's stage; "up" when main has gone past it
    routerOn,  \* g_gpu_router
    dense,     \* g_gpu_dense
    gpuOn,     \* g_gpu_on
    onDevice,  \* pgr.dense: the matrices uploaded
    released   \* the matrices whose host copy is freed

backendVars == <<boot, routerOn, dense, gpuOn, onDevice, released>>

BackendInit ==
    /\ boot = "start" /\ routerOn = FALSE /\ dense = FALSE /\ gpuOn = FALSE
    /\ onDevice = {} /\ released = {}

Wants(x) == x \in env.wants

(* The native backend is tried first, unless experts are wanted.           *)
ChooseBackend ==
    /\ boot = "start"
    /\ IF env.wants = {} THEN boot' = "check"
       ELSE IF Wants("experts") THEN boot' = "library"
       ELSE boot' \in {"routers", "library"}     \* pgr_native_init may fail
    /\ UNCHANGED <<routerOn, dense, gpuOn, onDevice, released>>

(* Some router reached the device, or none did.                            *)
UploadRouters ==
    /\ boot = "routers"
    /\ routerOn' \in (IF Wants("router") THEN BOOLEAN ELSE {FALSE})
    /\ boot' = "dense"
    /\ UNCHANGED <<dense, gpuOn, onDevice, released>>

ToUpload == IF Wants("dense") THEN env.f32 \ onDevice ELSE {}

(* One failure removes the matrices uploaded before it.                    *)
UploadKeeping(m) ==     \* a mutant of UploadDense
    /\ boot = "dense" /\ m \in ToUpload
    /\ \/ onDevice' = onDevice \cup {m} /\ UNCHANGED boot
       \/ boot' = "enable" /\ UNCHANGED onDevice
    /\ UNCHANGED <<routerOn, dense, gpuOn, released>>
UploadDense(m) ==
    /\ boot = "dense" /\ m \in ToUpload
    /\ \/ onDevice' = onDevice \cup {m} /\ UNCHANGED boot
       \/ onDevice' = {} /\ boot' = "enable"
    /\ UNCHANGED <<routerOn, dense, gpuOn, released>>
DenseUploaded ==
    /\ boot = "dense" /\ ToUpload = {}
    /\ boot' = "enable"
    /\ UNCHANGED <<routerOn, dense, gpuOn, onDevice, released>>

(* The native backend is used if anything is resident; only then the host  *)
(* copies may go.                                                          *)
EnableNative ==
    /\ boot = "enable"
    /\ IF routerOn \/ onDevice # {}
       THEN /\ dense' = (onDevice # {})
            /\ released' = IF dense' /\ env.release THEN env.f32 ELSE {}
            /\ boot' = "check"
       ELSE boot' = "library" /\ UNCHANGED <<dense, released>>
    /\ UNCHANGED <<routerOn, gpuOn, onDevice>>

(* The library, its symbols or the device may be missing; routers may not  *)
(* fit.                                                                    *)
LoadLibrary ==
    /\ boot = "library"
    /\ boot' = "check"
    /\ \/ UNCHANGED <<routerOn, gpuOn>>
       \/ /\ gpuOn' = Wants("experts")
          /\ routerOn' \in (IF Wants("router") THEN BOOLEAN ELSE {FALSE})
    /\ UNCHANGED <<dense, onDevice, released>>

(* main refuses to go on when the release was asked for and did not happen.*)
StartupChecked ==
    /\ boot = "check"
    /\ IF env.release /\ released = {}
       THEN halted' = TRUE /\ UNCHANGED boot
       ELSE boot' = "up" /\ UNCHANGED halted
    /\ UNCHANGED <<routerOn, dense, gpuOn, onDevice, released>>

(* attention_projection: the device's answer, else the host's, which is    *)
(* not an option once host copies are gone.                                *)
ProjectAnyway(m) ==     \* a mutant of Project
    /\ boot = "up" /\ dense /\ m \in env.f32
    /\ dense' = FALSE /\ UNCHANGED halted
    /\ UNCHANGED <<boot, routerOn, gpuOn, onDevice, released>>
Project(m) ==
    /\ boot = "up" /\ dense /\ m \in env.f32
    /\ IF released # {} THEN halted' = TRUE /\ UNCHANGED dense
                        ELSE dense' = FALSE /\ UNCHANGED halted
    /\ UNCHANGED <<boot, routerOn, gpuOn, onDevice, released>>

StartupStep ==
    \/ /\ \/ ChooseBackend \/ UploadRouters \/ DenseUploaded \/ EnableNative
          \/ LoadLibrary \/ \E m \in Matrices : UploadDense(m)
       /\ UNCHANGED halted
    \/ StartupChecked

-----------------------------------------------------------------------------
(* Properties *)

BackendTypeOK ==
    /\ boot \in {"start", "routers", "dense", "enable", "library", "check", "up"}
    /\ routerOn \in BOOLEAN /\ dense \in BOOLEAN /\ gpuOn \in BOOLEAN
    /\ onDevice \subseteq Matrices /\ released \subseteq Matrices

(* picchio.c:727 ("release-host mode must fail closed") and 2726 ("no host *)
(* weights are freed until every eligible projection is resident"): while  *)
(* the process runs, a projection whose host copy is gone is served by the *)
(* device, which holds it.                                                 *)
ReleasedIsResident ==
    released # {} /\ ~halted => dense /\ released \subseteq onDevice

=============================================================================
