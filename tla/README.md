# A verification development for picchio

picchio runs mixture-of-experts language models whose experts do not fit in
memory: the dense weights stay resident, the experts are read from disk into a
per-layer pool of slots while a forward pass needs them. One C process
(`src/picchio.c`) does the work; Python front ends drive it over a pipe
(`src/chat.py`, `src/server.py`); two processes can share the layers over a
socket.

This directory holds TLA+ models of the parts whose correctness depends on the
order in which things happen, TLC configurations that check them on small
instances, and proofs, checked by TLAPS, of what holds for every instance.

## 1. Inventory

Each entry: the state, the operations, what it interacts with, what is hard,
what makes it correct.

**Expert cache** (`picchio.c` 1309–1494). A pool of `ecap` slots per layer
(`ESlot`: expert id, buffers, `last_used`, an atomic `loading` flag), the count
`ecn` of slots in use. `cache_load_batch` resolves the hits of a batch, reserves
a victim for each miss, reads the misses in parallel. Called by `moe_forward`
(decode, top-k experts) and `run_prefill_range` (blocks of a layer's experts).
Hard: a later miss of a batch must not take a slot the batch already returned;
a slot another thread is filling must not be chosen. Correct when every slot
handed out keeps its expert until the batch is computed, with that expert's
bytes in it.

**Prefetch thread** (1748–1959). One job at a time: up to `ecap - topk` slots
reserved by the main thread for predicted experts (decode) or for the next block
(prefill), read by the thread, each published by `loading = 0`. The main thread
only tries the lock. Correct when a published slot holds what it was reserved
for, every reserved slot is published, and the routing always finds a slot.

**Asynchronous loader** (1496–1746). One job at a time: the misses of the current
layer. The main thread computes slots in completion order and sleeps on a
condition when it has to submit while a job is pending. Correct when no wait is
for something nobody will do, at shutdown too.

**MoE layer** (2051–2360, 2561–2636, 3026–3167). Routing, the accumulation of the
experts' contributions, the GPU path that skips reading what VRAM holds and the
re-read when the GPU fails. Correct when every routed expert contributes exactly
once, with its own weights.

**Service loop** (4551–4700). `pos`, the key-value cache, the repetition history;
commands `STATS`, `RESET`, `TURN`, `SHUTDOWN` on standard input, lines on standard
output. Hard: refused turns must change nothing; the emitted token is consumed
also when it ends the turn; the exact bounds of `keep`, `n_ids`, `pos`, `cap`.
Correct when `pos` counts positions that all layers have consumed.

**Python session** (`chat.py` 47–182). `PicchioSession` writes a command and reads
lines until the one that answers it; every caller mirrors the cache as a list
`committed` of ids and sends only what follows the common prefix. Hard: two
processes keep the same state, and an exception between two lines (of the caller's
`on_token`: a lost client, a parser that refuses a token) leaves them apart. Correct when `committed` is what the cache holds.

**HTTP server** (`server.py`). A daemon thread per request, a lock around a
generation, streaming clients, a close without the lock. Correct when every
client gets only its own tokens and a failure is its own fault or the process's.

**Terminal chat** (`chat.py` 185–480). One user, `/reset`, Ctrl-C, the
`--no-reasoning` prefix that is processed again every turn.

**Two-node pipeline** (`picchio.c` 4211–4548, 5605–5673, `pipe_node.py`). The
coordinator runs the layers below the cut, sends the residual, gets the logits;
each side has its own key-value cache, and the worker keeps its cache between
connections. Hard: a dropped connection, a reconnecting coordinator, replies that
are not compared with the request.

**Decoding in `main`** (4976–5107, 5797–5962). The plain loop prints a token and
runs a forward; with `DRAFT_MODEL`, a draft model proposes K tokens and the target
verifies them in one batch; both caches roll back by overwriting. State: the two
key-value caches, the position, the round's arrays, the global store `g_db`. Hard:
what each cache holds after a partly or fully accepted round; `g_db` is swapped
between the models while a prefetch may be running. Correct when the tokens printed
are those of greedy decoding and the target's experts come from its own files.

**Expert store** (`picchio.c` 860–1359, `flat.h`, `st.h`). How the tensors of an
expert get into a slot: from the flat store (one aligned region per expert), else
straight into a slab the slot keeps, else tensor by tensor from the safetensors
shards. State: the slot's pointers, its slab, per file a buffered and a lazily
opened unbuffered descriptor. Called by every thread that fills a slot. Hard: three
layouts follow one another in one slot, each with its own rule for what is freed;
reads fall back from one layout and one descriptor to another; several threads open
the same descriptor. Correct when a published slot holds whole tensors of its own
expert and no block is lost or used after it was freed. Packing (`flat_pack.py`,
`flat_common.py`, `flat_verify.py`) ends with an atomic rename.

**Hot-store** (3380–3459). Usage counters saved at exit and loaded at start.

**GPU expert cache** (`picchio_cuda.cu` 394–501, `picchio.c` 2195–2296). Copies of
experts in video memory, an LRU with a byte budget. `moe_forward` does not read what
is resident; a call stamps what it finds, uploads the rest, and hands over its sum
only at the end. Hard: an upload of the call may evict an expert of the same call
whose host weights were never read; any CUDA call may fail in the middle, the copy of
the sum to the host also after writing part of it, and the
layer is then computed on the CPU, on top of what the output holds. Correct when each selected expert counts once,
with its own weights, wherever it came from.

**GPU backends** (`gpu_router_native.h`, `picchio.c` 720–760, 2640–2812). The choice
at startup between the driver API (routers, attention projections) and the CUDA
library (routers, experts); the host copies of the projections may be released
afterwards. Hard: partial uploads, a device that fails later. Correct when a
projection without a host copy is on the device.

**Converters** (`convert*.py`, `transcode_*.py`, `download_expert_biases.py`).
Resumable shard by shard.

**Numerical code and parsing** (`quant.h`, attention, sampling, `st.h`, `json.h`,
`tok.h`), **measurement tools, tests, other front ends**: listed in
`PROJECT.json`, not modelled; nothing in them depends on an order of events beyond
what the entries above already say.

## 2. Modules

| module | models | extends |
|---|---|---|
| `MoELayer` | what a layer promises: each routed expert contributes once, with its own weights | |
| `ExpertCache` | the pool, the main thread's passes, both worker threads, GPU fallback, shutdown | |
| `ExpertCacheProofs` | theorems about `ExpertCache`, and that it implements `MoELayer` | `ExpertCache` |
| `ExpertStore` | `expert_load`: the three layouts, fallbacks, descriptors, what is freed | |
| `ExpertStoreProofs` | theorems about `ExpertStore` | `ExpertStore` |
| `GpuCache` | the experts in video memory, `pgpu_moe_layer` | `ExpertStore` |
| `GpuBackend` | `gpu_backend_load`, `attention_projection` | `ExpertStore` |
| `Offload` | a layer served from video memory, slots and files, and its fallbacks | `GpuCache`, `GpuBackend` |
| `OffloadProofs` | that `Offload` keeps to the store's promises, its answer, the accounting of video memory, that a call spares its own experts, its types | `Offload`, `ExpertStoreProofs` |
| `Completion` | what a client is promised: its answer, token by token, or a failure | |
| `Service` | `service_loop` | |
| `Session` | `PicchioSession.turn` and its callers' `committed` | `Service` |
| `SessionProofs` | the invariant of a session, preserved by every step of process and session | `Session` |
| `Server` | threads, lock, hang-ups, close of `server.py` | `Session` |
| `ServerProofs` | theorems about `Server`, and that it implements `Completion` | `Server`, `SessionProofs` |
| `Chat` | the terminal conversation of `chat.py` | `Session` |
| `ChatProofs` | theorems about `Chat`, and that it implements `Completion` | `Chat`, `SessionProofs` |
| `Greedy` | what decoding without sampling promises | |
| `SpecDecode` | `spec_decode`, the plain loop, `load_draft`, the swap of `g_db` | instantiates `Greedy` |
| `SpecDecodeProofs` | theorems about `SpecDecode` | `SpecDecode` |
| `OneNode` | what one machine answers, turn by turn | |
| `Pipeline` | coordinators, worker, connections, faults | instantiates `OneNode` |
| `PipelineProofs` | that replies answer their requests, that the logits received are those of the context, the types, and that it implements `OneNode` | `Pipeline` |
| `MCExpertCache`, `MCOffload`, `MCServer`, `MCChat`, `MCSpecDecode`, `MCPipeline` | constants for TLC | |

### ExpertCache

`eid`, `weights`, `loading` are the fields of a slot (a pair of a layer and a
position); `weights[s]` names the expert whose bytes are in the buffers, so that a
stale or half-written slot is visible. `used` is the set of slots below `ecn`,
`older` the order of `last_used`. `pc` is the main thread's place, `wpc` those of
the two workers, `job`/`hasJob`/`shutdown` the fields of `g_pf` and
`g_async_loader`, with `loaded` the slots read and not yet published. `env` holds
the settings of the process. `Lookup`/`HitReady` are pass 1, `Reserve` pass 2,
`LoadMiss` pass 3; `SubmitBusy`/`Submit` are `async_loader_submit`;
`IssueLocked`…`IssueDone` are `prefetch_issue` with the lock held; `Load` and
`Publish` are the two statements of a worker's loop; `GpuDone`, `GpuFailed`,
`Reread` the GPU path; `PilotShutdown`…`StoreClosed` the exit of `main`.

Simplifications, none of which removes an interleaving the properties depend on:

- `ecn` and the array index of a slot are dropped: the first unused slot is any
  unused slot. The scan for a victim is one step; the only field another thread
  changes during it is `loading`, from 1 to 0 (and `eid` to -1 by a failing read),
  so a scan that sees an older value passes over a slot it could have taken.
- The pinned set is empty (`npin` is never assigned), `cache_lookup` has no
  callers, and `async_loader_submit` never finds `shutdown` set while the main
  thread still computes: these are left out.
- A job is a function of slots, not an array; OpenMP reads it in any order.
- Condition variables: a worker that tests its condition and one that waits are
  distinct places, a signal wakes the one that waits. Spurious wake-ups only test
  again. The POSIX branches of the code are the ones modelled.
- The probes (`SPEC_PROBE`, self-draft, oracle dumps) are left out.

### Service, Session, Server, Chat

`inbox` and `outbox` are the two pipes (unbounded: the lines of a turn are far
smaller than a pipe's buffer); a line carries the request it was printed for, which
no action of the program reads. `kv[p]` is the token consumed at a position,
`Empty` before the first write, `Lost` when the upper layers did not run because
the worker's connection was down (`PrefillDrops`: from a block of the prefill on). `turn`, `tok`, `produced` are the locals of a
running turn; a forward pass is the choice of a token in `Likely(context)`, where
the context is what the attention reads, positions 1 to n: the same operator gives
the abstract model of `Completion` its tokens, so that an answer computed over a
wrong prefix is seen. `hpc`, `keep`, `got` are the locals of
`PicchioSession.turn`; `committed` is the caller's list.

An exception of `on_token` in the middle of a turn is `TokenRefused`. There are two
causes: a streaming client that has hung up, and `StreamableParser.process`
(`server.py` 126, `chat.py` 256), which is external and may raise on a generated
token whether the client waits or not. `Unparsed` is the set of tokens it may raise
on, each time or some times; in `server`, `server_live` and `chat` these are all tokens,
and the theorems hold for every set but where they say so; -1 it always refuses. Either way
the request ends in the place `abandoned`, the lock is released (`server.py` 243–248,
279–292) and the rest of the turn's lines stays in the pipe. `Quiet` says that this has not
happened and that the worker has not been lost. The properties about whose tokens a
request reads, what is remembered and why a request fails hold in quiet states only
(`QuietOwnAnswer`, `QuietCommitted`, `QuietPrompt`, `QuietFailure`, `QuietCompletion`);
once a turn has been abandoned the code does not keep them, as `server_stream` shows.
In `Chat` an exception closes the conversation. The parser is taken to accept the fixed
ids of `final_prefill` (`server.py` 120–121), which it is given before the turn starts.

Abstracted: rendering messages to ids is external (`openai_harmony`), a request
asks any member of `Asks`; the sampling fields are readable or not; the repetition
penalty, temperature and top-p are inside `Likely`; the counters of `STATS` are
dropped. `Dies` is any end of the process: `exit(1)` on an allocation failure, a
signal, the kill after 120 s in `close`. The reader of a pipe whose writer is gone
still gets the lines written before. `Chat` has no pipeline (`Links = {"none"}`).
With `CapAssumption` a context has at least one position.

### SpecDecode

`text` is the prompt followed by what the target says greedily, chosen once and
never changed; `tkv[p]` and `dkv[p]` are the tokens consumed at a position by the
target and by the draft (`Zero`: never written). A forward writes its positions
(`Consume`; those beyond the cache's end are dropped, as `kv_store` does) and then
predicts (`Predicts`): the text's next token when everything it reads is the text,
any token otherwise. So a rejected token left below the position, a batch at the
wrong place or a wrong token to consume shows as an arbitrary output. The draft may
answer anything. `dt`, `out`, `shown` are the arrays of a round; `cur`, `pos`,
`stop` its locals, `Produced` is `produced`. `TargetPrefill` and `DraftPrefill` are
the two calls of `prefill_tokens`, `Propose` one forward of the draft, `Verify` the
batched forward with the accepted prefix, `ShowNext` one turn of the printing loop,
`EndRound` its last line; `PlainShow`, `PlainStop`, `PlainForward`, `PlainEnd` the
plain loop. The plain loop stops at the two channel tokens and at `stop_ids[0]`
(5883–5884), the speculative one at `stop_ids` (605–610), which are those two or the one
id: `PlainStops` contains `Stops` and may be larger.

`fetch` is an expert of the target left to the prefetch thread when the prefill
ends: waiting, looked up, or read. The thread uses `gdb`, the global, at each of the
two (`FetchFind`, `FetchRead`, `FetchOther`). Looked up in the draft's store an expert
is missing or refused for its size (1039–1040), or found under the same name on the other
path (1107–1165): `foreign`. `spoilt` says that a slot of the target
was published with bytes of the draft's file. Such a read is left only if the
prompt is processed token by token with `PREFETCH=1`; a batched prefill has computed
every block it handed over.

The settings are greedy (`TEMP=0`, `REP=1`): with the default temperature the first
token and those of the plain loop are sampled, those of `forward_verify` are not, and
nothing says what the output should be. `MAX_TOKENS=0` prints one token with a
draft and none without (`Limit` in `Promise`). The speculative loop stops K + 2
positions before the end of the context, which the plain loop does not (`Room`).
The self-draft probe prints the same tokens and is left out.

### ExpertStore, GpuCache, GpuBackend, Offload

`buf[s][f]` is a pointer of `ESlot`: `None`, or a block of the slot's own or a place
in its slab, with the expert it was allocated for (`of`) and the expert whose bytes
it holds (`has`; `Noise` after a read that stopped early and was not compared).
`slab` says whether the slot has a slab and whether it may be reused
(`buf_reusable`). `lpc[s]` is the stage of the thread that runs `expert_load` for
slot `s`: the flat file, the reusable slab, then gate/up payload, scales and bias,
down payload, scales and bias. `Begin` is `recycle_slot_buffers`, the assignment of
the id and the release at 1095; `Flat` is `expert_load_flat` with the hash
check, `NotReusable`/`Reusable` are `expert_load_reusable`, the others one read
each. A field that is assigned without looking at what it held puts the owner of a
block it pointed to into `lost` (`Forgotten`): that is how a leak shows, and a
pointer into a slab that is gone how a use after free does. `opening`, `direct`,
`opened` are the race for `fd_direct`: two steps, test and store.

`vram`, `lru`, `vramUsed` are `g_ecache` and `g_vram_used`, `ge` and `gk` the
call's arguments and loop index, `acc` the device's accumulator. `CallMoe` stamps
the residents (469–471), `Hit`, `Absent` and `Upload` are a turn of the loop,
`CopyOut` the end. `boot` follows `gpu_backend_load` stage by stage. In `Offload`,
`Route` is the top of `moe_forward` with `gpu_skip_reads` and pass 1 of the batch,
`Reserve` pass 2, `Load` the I/O threads, `AfterBatch` the call, `GpuReturns`,
`Reread` and `Compute` the fallback.

Abstracted: stamps are the order they induce; entries of other layers behave as
experts not selected; a victim is any slot the layer does not use (`ExpertCache` has
the real order and the prefetch, `GpuCache` the rest); sizes are two units for the
weights and one for a bias. The format test of a call (2246–2249) is that of the slot's
layout: a slab has always a format the device takes, packed tensors may have
(`GpuFormat` with and without them), float ones have not, and the block sizes of a layer
agree or do not. A copy of the sum to the host that fails has written nothing or part of it; the
part is taken to be whole terms (`spilt`, and `out` keeps them), since what matters is
that the CPU loop adds its own on top (2345–2346). `ExpertCache` knows nothing of this
copy: its `GpuFailed` takes a failed call to have left the output alone, which is the
other case. Left out: a
library without `pgpu_moe_resident`, the offload of the output head, the fallback of
single routing scores, the oracle and trace modes, and memory exhaustion, except that
a short read into a slab exits.

### Pipeline, OneNode

A residual is the context it was computed from, so that computing with a stale entry
shows: an entry of a layer's cache is the residual it was made from, and a layer whose
entries below a position are not those of the position's own context gives `Garbage`,
from which any token may be sampled. `Best` and `Penalised` are the sampler at
temperature 0.

`cpc` is the place of a coordinator: a raw-ID run (`pipe_coord_run`) or the engine of
a chat (`service_loop` with `PIPE_ROLE=coord`). `Ask` runs the layers below the cut
and sends a header and the residuals, `TakeReply` and `NoReply` are the two ends of
the wait, with what the caller does next. `Accept`, `TakeHeader`, `Serve`, `Gone`,
`Hangup` are `pipe_worker_run`; `wlo` is the first layer it loaded. `toW`, `toC` carry
headers and bodies as separate pieces: a connection can be lost between them. The
faults are external: `Drop` loses a connection and a suffix of what it carries, `Die`
and `Crash` kill a coordinator and the worker, `Restart` starts the worker again with
an empty cache.

`OneNode` is the reference: the same turns on one machine. `broken` maps to a
coordinator whose connection is lost; then nothing is promised of the answer but
that the coordinator still ends. All nodes load the same model and use the same build,
so the tests of the magic, the upper layer and the sizes never fail and are left out.

## 3. Runs

| run | asks | instance | distinct states |
|---|---|---|---|
| `cache` | the safety of the pool and that it implements `MoELayer` | 2 layers, 2 slots, 3 experts, top-1; no thread, each, both, GPU with prefetch | 341 912 |
| `cache_live` | that passes, jobs and the shutdown end | 1 layer, 2 slots, 3 experts, top-1, both threads, fair | 16 581 |
| `offload` | whole tensors, nothing lost, the budget, the layer's answer | 2 slots, 3 experts, top-2, 2 matrices, 4 setups | 914 698 |
| `server` | own tokens, cache and `committed` agree, failures are earned, `Completion`, until a turn is abandoned; types and positions also after that | 3 requests, 4 positions, 7 prompts, a parser that may refuse any token | 256 843 |
| `server_live` | every request ends | 2 requests (one streaming), a worker link, deaths, refused tokens | 152 115 |
| `chat` | the conversation's `committed`, `Completion`, that the chat ends | 3 turns, resets, two prefixes | 179 323 |
| `spec` | greedy output, the caches' rolling, `Greedy` | K = 2, 5 tokens, context 9, caches of 4 positions, 255 texts, leftover prefetch | 1 487 507 |
| `pipeline` | replies match requests, logits of the context, `OneNode`, coordinators end | a run and a chat of two turns, 3 layers, blocks of 2, context 5, one lost connection, one killed process | 180 115 |
| `server_stream` | (violation) a streaming client hangs up | 5 requests | |
| `pipe_drop` | (violation) the worker connection drops | 1 request | |
| `spec_swap` | (violation) the store is swapped under a prefetch | as `spec`, context 8 | |
| `pipe_history` | (violation) the coordinator's prefill does not seed the history | as `pipeline`, repetition penalty, no fault | |

The exact constants are in the `MC` modules and `.cfg` files.

Why these bounds. A slot is in conflict with at most the batch that holds it, a
reservation ahead of it and one job per worker. With two slots and top-1 one
thread can hold one slot while the routing takes the other, and a prefill's block of
two experts takes the whole pool if the limit `ecap - topk` is forgotten
(`ChunkOfPool` is rejected there). Two layers are needed for the prediction of the
next one and for a job left over from an earlier layer; liveness is checked with one,
whose three experts in two slots force evictions. For the
server, three requests give one that leaves a state, one that finds it and one
that waits; the prompts of `Asks` share a prefix, differ in the middle, fill the
context exactly, exceed it, hold a foreign id or an unreadable field. The stream
run needs five requests because a wrong line has to be read twice as the expected
one: four requests pass.

For `offload`, two slots and three experts make each layout follow each other in a
slot; the four setups cover every value of `Storage`, both reading modes, with and
without verification and reuse; budgets of five and one are room for two experts, and
for none (the single oversized expert the code allows). Every call of the device may
fail, the copy of its sum also part-way. Slots are interchangeable, so
the run uses their symmetry.

For `pipeline`, a prompt of three ids takes a full block and a part of one; the second
turn of the chat keeps two positions, so entries above them are stale in the worker;
the cuts differ in both directions and one worker owns too little for one of them; the
context is filled by the last turn. One lost connection and one death at any point
leave the worker with a cache from another connection, or none.

For `spec`, K = 2 gives rounds that accept nothing, a part and all; five tokens give
a second round and a limit that falls inside a round or between two; the caches end
below the last positions of a batch; a context of nine stops the loop for want of
room. Tokens are only compared, so two and a stop token tell the cases apart; the
theorems of section 4 cover every other value.

Every property of a passing run has a mutant of the code's definition that the run
rejects (`PROJECT.json`, `mutants`): the definitions in the modules whose names or
comments say so (`HitNotTouched`, `ConsumeButStop`, …).

`MCServer*.cfg` say `CHECK_DEADLOCK FALSE`: when every request has ended and the
process is gone nothing is left to do. The other runs check deadlock, with an
explicit `Terminated` step after the exit.

### Fairness

`cache_live`: weak fairness of the main thread inside a forward and inside the
exit, and of each worker. Each is a running thread; the waits with `usleep(50)` are
guards, so weak fairness says only that the thread is scheduled again. Starting
another forward, or the shutdown, is not fair. `server_live` and `chat`: weak
fairness of the service process and of each handler (of the bridge); arrivals,
hang-ups, drops, deaths, resets and the user's typing are not fair. A blocking read
is a guard. The handlers are daemon threads: when `main` returns after its close the
interpreter stops them wherever they are, so their fairness after that is an
idealisation, which says that a handler left running would not wait for ever. `pipeline`: weak fairness of the worker and of each coordinator once
started: running processes. Starting a coordinator, restarting the worker and the
faults are not fair. That a coordinator ends although the worker never comes back
rests on the lost connection being noticed, which is what `recv` returns.

### What the violations show

- `server_stream` (`server.py` 273–292). When `on_token` raises, here because the
  client is gone (a token the parser refuses, 126, has the same effect on a client that
  waits), `turn` stops reading and the lock is released, while the process
  goes on to print the rest of the turn. The next request reads lines that are one
  turn old. It usually fails (`stats failed`, `unexpected protocol frame`), each
  failure shifting the streams again; nothing brings them back together, and once a
  stale `STATS` line sits where one is expected a request is answered with tokens
  generated for another client. The docstring and the lock's comment say requests
  are serialised. As long as no turn is abandoned (`server`), `OwnAnswer` holds.
- `pipe_drop` (`picchio.c` 4655–4694). A prefill or a step without an answer
  returns -1; `service_loop` adds the positions to `pos` all the same, prints
  `TOKEN -1` and goes on. `pos` then counts positions without upper layers,
  against the invariant stated at 4553 and in `DESIGN.md` 158–161.

- `spec_swap` (`picchio.c` 5057, 5075). `expert_load` takes the global `g_db` for
  every lookup and every read. With a prompt of one token (or `PREFILL_BATCH` at
  most 1) and `PREFETCH=1` the target's last prediction may still be in progress
  when `g_db` is pointed at the draft's store: offsets found in the target's shards
  are read from a file of the draft, the slot is published, and the output is no
  longer what `README.md` 735 calls byte-identical to greedy. `OutputIsGreedy` is
  the same property with this case excused.
- `pipe_history` (`picchio.c` 4356–4375 against 3242–3246). With a repetition penalty
  (1.1 is the default) one machine seeds the history with the prompt before a block
  prefill; `pipe_coord_prefill` does not, so a coordinator penalises other tokens and
  prints another answer than one machine does. With the penalty off (`pipeline`),
  `ImplementsOneNode` holds.

Seen while modelling, without a run of their own:

- `picchio.c` 5096: the draft consumes the current token and K - 1 of its proposals.
  When all K are accepted, the entry at `pos + K` of its cache is never written, and
  later proposals read zeros there. Only the acceptance rate suffers;
  `RollsByOverwrite` excuses it.
- `picchio.c` 4462: a raw-ID run of the pipeline stops at `stop_ids[0]` only, a run on
  one machine also at the tokens that end a channel (5882–5884); the prompt's ids are
  not compared with the vocabulary as at 5786–5795. Two contexts of different length
  (`CTX`) on the nodes are not noticed, and a different cut only when it is below
  what the worker loaded.
- `st.h` 443–463 says callers must compare the length read; the scales (1183, 1280),
  float payloads and packed biases (925–940) are not compared, and a plain bias read
  short counts as no bias (953–955). `Compared` names what is.
- `picchio.c` 1292–1299: when the down projection is missing, or of a type that is not
  read, the slot gives up without
  freeing the gate and up buffers, which the next load overwrites; 1260–1261 speaks of
  freeing on the same path. `NoBlockLost` excuses both.
- `picchio.c` 2157, 2257, 2345–2346: the output of a layer is cleared before the call of
  the device, which copies its sum straight into it (`picchio_cuda.cu` 492–495). If that
  copy fails after writing part of it, the CPU loop adds every expert again on top:
  "falling back to the CPU loop below on any failure" (2229–2231) counts that part twice.
  `AnswerWhole` allows a second term in this case and in no other; nothing says how much
  of a failed `cudaMemcpy` has arrived.
- `picchio.c` 4595: a request with a sampling field the process cannot read ends
  the process, and with it every other request; `FailureIsEarned` counts that as the
  process having gone.

## 4. Proofs

`ExpertCacheProofs` proves, for every number of layers, slots, experts, every
top-k and every set of settings that satisfies the assumptions of `ExpertCache`
(`SizeAssumption`, `SwitchesAssumption`, `NamesAssumption`):

- `TypeCorrect`: `Spec => []TypeOK`.
- `LoadingOwed`: `Spec => []LoadingIsOwed`: a slot marked loading always has a
  thread that will publish it, so the wait of `slot_wait_ready` is never for
  nobody.
- `NoEviction`: `Spec => NoEvictionUnderRead`: no step gives a slot to another
  expert while a thread fills it.
- `CacheInvariant`: `Spec => []CacheInv`, from which these follow.

`LoadingIsOwed` is not inductive. A publication clears the flag of a slot, so one
must know that the same slot is in no other thread's job and is not among the
misses the main thread is about to submit; a submission puts slots in a job, so
one must know that they were marked and that no two experts share one. `CacheInv`
therefore adds, to `TypeOK`, where a batch is in its passes (`Passes`: which of
`todo`, `missing`, `toload` may be non-empty at which `pc`), what a job may hold
in each state of its worker (`Jobs`), that the owner of a loading slot is unique
(`Owners`), and that a slot owed to an expert has that expert's id, or none
(`Ids`). Each action has a lemma of its own; the step theorem combines them, PTL
closes the induction.

`SlotsDistinct`: `Spec => []NoDuplicate`. The lookup
of a miss and its reservation are separate steps, with waits and the threads' reads
between, and reservations ahead of the batch use the same pool. `Distinct` says what
holds in between: a miss is in no slot of its layer until it gets one, a slot being
reserved for the batch is the only one with its expert, no miss waits while slots
are reserved ahead, and a slot never used holds no expert (`Cached` looks at used
slots only).

`BatchesIntact`, `VictimAlways`, `OneWriter`, `WeightsAreOwn` (the invariants
`BatchIntact`, `AlwaysAVictim`, `SingleWriter`, `OwnWeights`) and
`CacheImplementsLayer` (`Spec => ImplementsMoELayer`) rest on one more invariant,
`BatchInv`. Its parts are an argument each, and none holds without the others:

- *counting* (`Counts`): a batch and the slots reserved ahead of the next one have
  together at most as many slots as the layer's pool (in decode `MaxReserve` is what
  the pool has beyond `Topk`; in prefill a block and the next one are half a pool each);
- *order* (`Newest`): what was handed out for the batch is newer than every other
  used slot of the layer, but for those just reserved ahead. With the counting, the
  least recently used slot that is not loading is then never one of the batch
  (`VictimAlways`, and that a victim is not of the batch, `BatchesIntact`). While the
  main thread waits for a slot in pass 1 that slot has not been touched yet (`Touched`
  leaves it out);
- *ownership* (`HandedOut`, `Undisturbed`): a slot handed out is in the layer and of its
  expert; the loader has only slots of the batch being computed, and no thread
  fills one that has been used (`OneWriter`);
- *bytes* (`Bytes`): until the program exits, a slot that nobody is about to read has the
  weights of its expert, or holds none after a failed read (`WeightsAreOwn`);
- *accounting* (`Accounted`): a routed expert is in the batch, in a later block, unread
  on the device, or added already, and outside a layer there is nothing. It gives
  the refinement: the main thread leaves a layer only when `LayerEnds` of `MoELayer` may be taken.

`SpecDecodeProofs` proves, for every vocabulary, text, prompt length, K up to 16,
context, cache size and limit (`SizeAssumption`, `TextAssumption`,
`NameAssumption`, `SwitchAssumption`):

- `DecodeTypes`: `Spec => []TypeOK`;
- `GreedyOutput`: `Spec => []OutputIsGreedy`;
- `CachesRoll`: `Spec => []RollsByOverwrite`;
- `DecodeImplementsGreedy`: `Spec => ImplementsGreedy`, by one case per action.

The invariant `SpecInv` relates the position to what was printed (`Counted`), says
which of the round's arrays may be non-empty and what `stop` means (`Printed`), that
the draft has written nothing K or more above the position (`Ahead`) and, unless a
slot was spoilt, that the caches below the position and the token to consume are
the text's (`Told`). The step that matters is `Verify`: if some prediction of the
batch up to the first rejected proposal were not the text's next token, take the
least one (`LeastElement`, from the well-foundedness of the naturals); all the tokens
before it were accepted, so they are the text's, so the cache it was computed over
is the text (`ConsumeText`), and then it is the text's next token after all.

`ExpertStoreProofs` proves, for every set of experts, every finite set of slots and
every assignment of files and settings (`NamesAssumption`, `SlotsAssumption`,
`SetupsAssumption`):

- `StoreWhole`: `StoreSpec => []WholeParts`: what is published is whole and the
  expert's own, where the code compares what it read;
- `StoreLosesNothing`: `StoreSpec => []NoBlockLost`;
- `StoreOpensFew`: `StoreSpec => []DescriptorsBounded`.

`StoreSpec` lets any slot begin any load at any time it is not loading, so the
theorems do not depend on how the cache uses the store. `StoreInv` says what a slot
holds at each stage of a load: `Assigned` lists the fields the load has set so far;
without a slab (`Separate`) each buffer is a block of the slot's own, of the present
expert if it is among those and otherwise what an expert without a down projection
left behind; a slab is either emptied for the next expert (`Kept`) or holds all four
weights of the present one (`Served`). `WholeParts` alone says nothing of a slot in
the middle of a load, which is where a pointer to the previous expert survives. For
the descriptors, `DescriptorInv`: the opens done and the threads between the test
and the store are together no more than the slots, since each thread that opens has
tested before anybody stored.

`OffloadProofs` proves that a layer with video memory drives the store only in ways
the store allows (`OffloadIsStoreUse`: `Spec => StoreSpec`, step by step), and so
inherits the three (`OffloadWhole`, `OffloadLosesNothing`, `OffloadOpensFew`); that a
released projection is resident (`OffloadReleases`); and `OffloadAnswers`:
`Spec => []AnswerWhole`, a finished layer has one term of each selected expert, of
that expert's weights, or none if its load failed; a second one only if a finished sum
failed to be copied after part of it was written. `AnswerInv` follows a term from where it comes: a slot handed
out for the layer keeps its expert, or fails to load it, until the layer ends (`HeldOwn`), an entry in
video memory is the copy of its expert (`VramOwn`), the call's accumulator has the
terms of the arguments before its index and no other (`CallOwn`), and the output is
empty until the layer ends, but for the terms a failed copy has left, one of each selected
expert (`OutputLast`, `SumWhole`).

Three more results are about the device's memory. They add to the assumptions of the
modules (`NamesAssumption` to `SetupsAssumption`, `PoolAssumption`,
`BackendAssumption`) that a budget is a positive number (`BudgetAssumption`) and that
no copy is the null pointer (`CopyAssumption`).

- `OffloadWithinBudget`: `Spec => []VramWithinBudget`. The counter `g_vram_used` is
  adjusted at each eviction and each upload; the property compares it with a sum over
  a set, a fold. No library theorem gives the value of that fold, and induction over sets
  takes an operator as a parameter, so the section on sums does without: a function that
  gives every subset its sum exists (`SumsExist`), because among the sets for which there
  is none a smallest would exist, by the well-foundedness of the strict subset order; and the
  fold is that function whatever order it takes the elements in (`SumIs`). What is used
  afterwards is `SumFacts`: the sum of nothing, of one more element, of one less. With it
  `VramInv` is preserved: the order of use lists each held copy once, the counter is the
  sum of the copies, and it is within the budget or that of one entry. `CallInv` says
  what a call in progress counts on. The stamps (`Stamped`) are a recursive function
  over the call's arguments, unfolded with the least argument at which its equation
  could fail.
- `OffloadTypes`: `Spec => []TypeOK`. That the counter stays a natural number rests on
  `VramInv`: what an eviction takes off is part of the sum.
- `OffloadSparesCall`: `Spec => ResidentsKept`. `SkipInv`: while the experts of a layer
  are read, none of those is in video memory already. `RecentInv`: during a call no expert
  is asked for twice, its experts that are resident are the newest of the order (`Newest`),
  and a copy made from host weights has the size of those. Evictions take the oldest and stop as soon
  as the newcomer fits (`EvictionsFewest`). So if an expert of the call goes, all
  that was left is of the call, and with the newcomer it exceeds the budget (`CallCovers`,
  `SumRenamed`): the call as a whole does not fit, the one case the code gives up.

`PipelineProofs` proves, for any coordinators, turns, cuts, sizes and any number of
lost connections and killed processes (`LayersAssumption`, `SizesAssumption`,
`TurnsAssumption`), `Answers`: `Spec => []AnswersItsRequest`. Nothing in the code
compares a reply with its request, so what counts is that there is never a second
message to mistake: `Wire` says that, as long as a connection is up, a coordinator
that waits has its request on the wire, or its request's header read and the body
still to come, or its reply on the wire, exactly one of the three, and one that does
not wait has none; and that a connection once lost carries at most what is left of the
last reply. `OneInFlight` is that invariant. `Place` adds what fixes the request
waited on: which turn, and whether the prompt is still being sent.

`Logits`: `Spec => []LogitsOfContext` is proved for workers whose
context is not shorter than the coordinators' (`Cap <= WorkerCap`). The assumption is
needed: each side takes its own `CTX`, nothing compares the two, and the worker
does not check a position against its own cache. `LogitInv` says that what was fed covers what
the worker answered for (`Eaten`), that a turn fits in the context (`Room`,
`RunRoom`: a raw-ID run never looks at the context's end, it counts what it prints),
and, the core of it, `Carried`: while a connection is up the worker's cache holds
everything this coordinator consumed, nobody else has been served since, and the body
of a request on the wire is the rest of it; what earlier connections left above is
overwritten before it is read. `Told` carries this to the reply.

`PipelineTypes`: `Spec => []TypeOK`, under the same assumption. `TypeInv` adds to
`LogitInv` the range of each variable (`Tables`), in which order the pieces of a request
lie on the wire (`Mail`), and that the repetition history is no longer than what was
consumed (`Typed`); that a position stays within the context is `Room` again. That the sampler
returns a token of the vocabulary is `SamplerAssumption`.

`PipelineImplements`: `Spec => ImplementsOneNode`, each step of a coordinator a step or a
stutter of one machine, the worker's steps and the faults stutters. `AgreeInv` says
that as long as its connection stands a coordinator has consumed the context `OneNode`
computes from the same turns and the tokens printed (`Stands`), be it at rest (`Rested`), with
the prompt partly sent (`Prompted`) or in the decoding loop; with `Logits` what it samples
is then what one machine samples. `OneNode` writes the context as a recursive function of the
turns done; its equations are established first (`Unfolding`, `ContextFacts`), from the least
number of turns at which they could fail. Once a connection is lost, `broken` holds on
both sides and the coordinator may only end its turns. The theorem has
three assumptions, and none can be dropped:

- `Cap <= WorkerCap`, as for `Logits`;
- `~Rep`, no repetition penalty: `pipe_history` refutes the refinement with one;
- `Runs = {} \/ Stops = {FirstStop}`: a raw-ID run of the pipeline looks at the first
  stop token only (`picchio.c` 4462), one machine at all of them; chats have no such
  restriction.

`SessionProofs` follows one session over the service for any number of requests and
any prompts, models, vocabularies and contexts (`NamesAssumption`, `CapAssumption`,
`AsksAssumption`, `ModelAssumption`). Its subject is `Said`, the tokens of a turn:
those the request has read and those still in the pipe. When the process prints,
`Said` grows; when the session reads, only the boundary in it moves. `SessionInv`
relates the rest to it. `Serving`: while a request is decoded the cache is its prompt
and what was said, but for the token about to be consumed. `Answering`: each token
said is one the model may produce there, the answer had no reason to be over before,
and it is over when the process says DONE. `Agreed`: between turns the remembered ids
are those consumed, and the prefix reused is a proper prefix of the cache and of the
prompt. `Queued`, `Spoken`: there is at most one command to be answered, that of the
request in its turn, and the pipe back carries nothing but the answer to it. The module
has one lemma for each step of process and session, and for each step what it means
for `Completion`; it knows nothing of threads or prompts.

`ServerProofs` and `ChatProofs` compose these steps with their own.

- `ServerInvariant`: `Spec => [](Quiet => ServerInv)`, where `Quiet` says that no turn has
  been abandoned (by a hang-up or by a token the parser refused)
  and the worker has not been lost; from it, under the same condition,
  `ServerTypes`, `ServerOwnAnswer`, `ServerCommitted`, `ServerPrompt` and
  `ServerFailure`. The condition is needed: an abandoned turn leaves unread lines in the pipe
  for the next request, and a lost worker leaves tokens the upper layers never saw
  (`MCServerStream` and `MCServerDrop` exhibit both). It is a condition on states,
  not on constants, so these theorems also speak about servers with streaming
  clients, a worker and any parser, up to the first such event (`AbandonedStays`,
  `LinkStaysDown`: it does not pass, so what is quiet now has always been, `QuietBefore`).
- `ServerImplements`: `Spec => QuietCompletion`: each step that leaves the server quiet is
  one of `Completion`: each request gets
  its own answer, token by token, or fails for what it asked.
- With nothing that could abandon a turn (`Streaming = {}`, `Unparsed = {}`,
  `Links = {"none"}`: clients wait, the parser accepts every token of the vocabulary, no
  worker) `QuietAlways` shows that the condition always holds, and `ServerCompletes` that
  `Spec => ImplementsCompletion`. That the parser accepts every token is not something
  this code ensures; it is an assumption of these two theorems alone.
- Whatever happens to clients and worker: `OneGeneration` (a request in a turn holds the
  lock, and there is one), `ServerCacheValid` (`PosValid` as long as the worker is there)
  and `ServerWired`, the weaker invariant under them, which lets the pipes carry lines
  of any request.
- `ChatInvariant`: `Spec => []ChatInv`, the session's invariant until the conversation closes (after an
  interrupt nobody reads the pipe again); `ChatAgrees`: `Spec => []ChatCommitted`, through resets as
  well; `ChatImplements`: `Spec => ImplementsCompletion`.

All these inductive invariants were given to TLC before they were proved: `BatchInv` on
`MCExpertCache` (341,912 states), `SessionInv` with `Holder` and `ChatInv` on
small instances of `MCServer` and `MCChat`.

Checked by TLC only:

- the liveness properties (the prover has no support for fairness);
- the type invariant of `Server` once a turn has been abandoned (that an answer fits the
  context does not follow from `Wired`, which lets it be any).

Every other invariant, action property and refinement of a passing run is stated by a
theorem, under the conditions given above.

## 5. What is left

Modules: `HotStore` (save and load of the usage counters with a crash between; the
comment at 3383–3385 says the hottest experts are preloaded, and nothing does) and
`Conversion` (resumable conversion: `convert_streaming.py` counts a shard by its size,
also one that a crash cut short).

Proofs: the types of `Server` after an abandoned turn, which need a bound on the lines
a turn nobody reads may leave in the pipe.

## 6. Not modelled

The numbers: dequantisation, matrix products, attention, routing scores, sampling
(`quant.h`, parts of `picchio.c`, the CUDA kernels). Parsing and tokenising
(`json.h`, the index of `st.h`, `tok.h`). Benchmarks, test generators and the
reference model. The packing of the flat store, the hot-store and the converters.
Windows branches: `pilot_shutdown` there waits ten seconds at most before deleting
the lock. Memory exhaustion: the process exits, `Dies` covers what others see of
it; `exit` from an I/O thread (`quant.h` 67) runs the loader's exit handler, which
waits for a job that this thread serves.
