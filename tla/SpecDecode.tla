---------------------------- MODULE SpecDecode ----------------------------
(***************************************************************************)
(* The decoding at the end of picchio.c's main(): the plain loop, one      *)
(* forward per token, and spec_decode, in which a draft model proposes K   *)
(* tokens that the target verifies in one batched forward.  Both keep the  *)
(* key-value caches by position and take back rejected tokens by           *)
(* overwriting.  The global tensor store g_db is pointed at the draft's    *)
(* files around the draft's forwards, while the prefetch thread may still  *)
(* be reading an expert of the target.                                     *)
(*                                                                         *)
(* A cache entry is the token consumed at its position (Zero before the    *)
(* first write).  What an entry holds also depends on the entries below it *)
(* when it was written; they are still there when it is read, because a    *)
(* forward rewrites every position from the lowest changed one up.  The    *)
(* settings are the greedy ones (TEMP=0, REP=1).                           *)
(***************************************************************************)
EXTENDS Integers, Sequences

CONSTANTS
    Tokens, Stops,  \* the vocabulary; c->stop_ids
    PlainStops,     \* where main's loop stops: RETURN, CALL and stop_ids[0]
    Texts,          \* prompts with their greedy continuation by the target
    NPrompt,        \* n_prompt
    MaxTokens,      \* max_tokens
    K,              \* SPEC_K, clamped
    CtxLen,         \* c->ctx_len, the context the model was trained for
    MaxPos,         \* kv.max_pos, the positions the caches have
    DraftModel,     \* DRAFT_MODEL is set
    Prefetches,     \* PREFETCH=1, and the prompt is processed token by token
    Zero            \* an entry never written

(* The greatest position a prediction is asked for.                        *)
Horizon == CtxLen + NPrompt + MaxTokens

ASSUME SizeAssumption ==
    /\ CtxLen \in Nat /\ NPrompt \in 1..CtxLen
    /\ MaxTokens \in Nat
    /\ K \in 1..16
    /\ MaxPos \in 1..CtxLen
ASSUME TextAssumption == Texts \subseteq [0..Horizon -> Tokens]
ASSUME NameAssumption ==
    /\ Zero \notin Tokens
    /\ Stops \subseteq PlainStops /\ PlainStops \subseteq Tokens
ASSUME SwitchAssumption == DraftModel \in BOOLEAN /\ Prefetches \in BOOLEAN

VARIABLES
    text,        \* what the target says, by position; never changed
    pc, haveDraft,
    tkv, dkv,    \* the caches of the target and of the draft
    cur, pos,    \* the token to consume next and its position
    stop, emitted,
    dt,          \* the draft's proposals of the round
    out, shown,  \* the round's tokens, and how many have been visited
    gdb,         \* whose files g_db names
    fetch,       \* a read of a target's expert left from the prefill
    spoilt       \* an expert of the target holds bytes of another file

cacheVars == <<tkv, dkv>>
roundVars == <<dt, out, shown>>
fetchVars == <<fetch, spoilt>>
vars == <<text, pc, haveDraft, cacheVars, cur, pos, stop, emitted, roundVars,
          gdb, fetchVars>>

Positions == 0..(MaxPos - 1)
Prompt == [i \in 1..NPrompt |-> text[i - 1]]
Produced == Len(emitted)

----------------------------------------------------------------------------
(* Forwards *)

(* kv_store for the n tokens of toks from position base on: a position the *)
(* cache does not have is not stored.                                      *)
ConsumeAnywhere(kv, base, n, toks) ==
    [i \in Positions \cup base..(base + n - 1) |->
        IF base <= i /\ i < base + n THEN toks[i - base + 1] ELSE kv[i]]
Consume(kv, base, n, toks) ==
    [i \in Positions |->
        IF base <= i /\ i < base + n THEN toks[i - base + 1] ELSE kv[i]]

(* The entries that a query at position p reads, itself apart, are those   *)
(* of the text.                                                            *)
Follows(kv, p) == \A i \in Positions : i < p => kv[i] = text[i]

(* The target's argmax after token t at position p, given its cache: the   *)
(* text's next token where all it reads is the text, any token otherwise.  *)
Predicts(kv, p, t) ==
    {n \in Tokens : ~spoilt /\ Follows(kv, p) /\ t = text[p] => n = text[p + 1]}

----------------------------------------------------------------------------
Init ==
    /\ text \in Texts
    /\ pc = "load" /\ haveDraft = FALSE
    /\ tkv = [i \in Positions |-> Zero] /\ dkv = [i \in Positions |-> Zero]
    /\ cur = text[0] /\ pos = 0 /\ stop = FALSE /\ emitted = <<>>
    /\ dt = <<>> /\ out = <<>> /\ shown = 0
    /\ gdb = "target" /\ fetch = "none" /\ spoilt = FALSE

(* load_draft: g_db is the draft's while it loads, and restored also when  *)
(* it fails; no forward of the target has run yet.                         *)
LoadDraft ==
    /\ pc = "load" /\ pc' = "prefill"
    /\ haveDraft' \in IF DraftModel THEN BOOLEAN ELSE {FALSE}
    /\ UNCHANGED <<text, cacheVars, cur, pos, stop, emitted, roundVars, gdb,
                   fetchVars>>

(* prefill_tokens on the target.  Token by token, the last prediction of   *)
(* the prefetch thread may still be waiting for its turn or being read.    *)
TargetPrefill ==
    /\ pc = "prefill"
    /\ tkv' = Consume(tkv, 0, NPrompt, Prompt)
    /\ cur' = text[NPrompt] /\ pos' = NPrompt
    /\ fetch' \in IF Prefetches THEN {"none", "queued"} ELSE {"none"}
    /\ IF haveDraft THEN pc' = "draftprefill" /\ gdb' = "draft"
                    ELSE pc' = "plain" /\ UNCHANGED gdb
    /\ UNCHANGED <<text, haveDraft, dkv, stop, emitted, roundVars, spoilt>>

DraftPrefill ==
    /\ pc = "draftprefill" /\ pc' = "first"
    /\ dkv' = Consume(dkv, 0, NPrompt, Prompt)
    /\ gdb' = "target"
    /\ UNCHANGED <<text, haveDraft, tkv, cur, pos, stop, emitted, roundVars,
                   fetchVars>>

(* The first token is the target's prediction after the prompt.            *)
First ==
    /\ pc = "first" /\ pc' = "loop"
    /\ emitted' = Append(emitted, cur)
    /\ stop' = (cur \in Stops)
    /\ UNCHANGED <<text, haveDraft, cacheVars, cur, pos, roundVars, gdb,
                   fetchVars>>

MayContinue == ~stop /\ Produced < MaxTokens /\ pos < CtxLen - K - 2

StartRound ==
    /\ pc = "loop" /\ MayContinue
    /\ pc' = "propose" /\ gdb' = "draft"
    /\ UNCHANGED <<text, haveDraft, cacheVars, cur, pos, stop, emitted,
                   roundVars, fetchVars>>

(* One forward_token of the draft, whose answer may be anything.           *)
Propose(d) ==
    /\ pc = "propose" /\ Len(dt) < K
    /\ dkv' = Consume(dkv, pos + Len(dt), 1, <<IF dt = <<>> THEN cur ELSE dt[Len(dt)]>>)
    /\ dt' = Append(dt, d)
    /\ UNCHANGED <<text, pc, haveDraft, tkv, cur, pos, stop, emitted, out,
                   shown, gdb, fetchVars>>

(* The accepted prefix of the proposals ends at the first that is not what *)
(* the target predicts in its place.                                       *)
AcceptsOneMore(a, pred) ==
    /\ \A j \in 1..(a - 1) : pred[j] = dt[j]
    /\ a < K => pred[a + 1] # dt[a + 1]
AcceptsUpTo(a, pred) ==
    /\ \A j \in 1..a : pred[j] = dt[j]
    /\ a < K => pred[a + 1] # dt[a + 1]

(* forward_verify on the current token and the proposals, then the round's *)
(* tokens: those accepted and one of the target's own.                     *)
Batch == [j \in 1..(K + 1) |-> IF j = 1 THEN cur ELSE dt[j - 1]]

Verify ==
    /\ pc = "propose" /\ Len(dt) = K
    /\ tkv' = Consume(tkv, pos, K + 1, Batch)
    /\ \E pred \in [1..(K + 1) -> Tokens] :
          /\ \A j \in 1..(K + 1) : pred[j] \in Predicts(tkv', pos + j - 1, Batch[j])
          /\ \E a \in 0..K :
                /\ AcceptsUpTo(a, pred)
                /\ out' = [j \in 1..(a + 1) |-> IF j <= a THEN dt[j] ELSE pred[j]]
    /\ shown' = 0
    /\ gdb' = "target" /\ pc' = "emit"
    /\ UNCHANGED <<text, haveDraft, dkv, cur, pos, stop, emitted, dt,
                   fetchVars>>

ShowsPastStop == shown < Len(out) /\ Produced < MaxTokens
ShowsMore == shown < Len(out) /\ Produced < MaxTokens /\ ~stop

ShowNext ==
    /\ pc = "emit" /\ ShowsMore
    /\ emitted' = Append(emitted, out[shown + 1])
    /\ stop' = (out[shown + 1] \in Stops)
    /\ shown' = shown + 1
    /\ UNCHANGED <<text, pc, haveDraft, cacheVars, cur, pos, dt, out, gdb,
                   fetchVars>>

EndRoundTwice == \* the bonus token's position is counted twice
    /\ pc = "emit" /\ ~ShowsMore
    /\ pc' = "loop" /\ cur' = out[Len(out)] /\ pos' = pos + Len(out) + 1
    /\ dt' = <<>> /\ out' = <<>> /\ shown' = 0
    /\ UNCHANGED <<text, haveDraft, cacheVars, stop, emitted, gdb, fetchVars>>
EndRound ==
    /\ pc = "emit" /\ ~ShowsMore
    /\ pc' = "loop"
    /\ cur' = out[Len(out)] /\ pos' = pos + Len(out)
    /\ dt' = <<>> /\ out' = <<>> /\ shown' = 0
    /\ UNCHANGED <<text, haveDraft, cacheVars, stop, emitted, gdb, fetchVars>>

EndSpec ==
    /\ pc = "loop" /\ ~MayContinue /\ pc' = "done"
    /\ UNCHANGED <<text, haveDraft, cacheVars, cur, pos, stop, emitted,
                   roundVars, gdb, fetchVars>>

----------------------------------------------------------------------------
(* The plain loop: print the token, stop or consume it.                    *)

PlainShow ==
    /\ pc = "plain" /\ Produced < MaxTokens
    /\ emitted' = Append(emitted, cur)
    /\ pc' = "consume"
    /\ UNCHANGED <<text, haveDraft, cacheVars, cur, pos, stop, roundVars, gdb,
                   fetchVars>>

PlainStop ==
    /\ pc = "consume" /\ cur \in PlainStops /\ pc' = "done"
    /\ UNCHANGED <<text, haveDraft, cacheVars, cur, pos, stop, emitted,
                   roundVars, gdb, fetchVars>>

PlainForward ==
    /\ pc = "consume" /\ cur \notin PlainStops /\ pc' = "plain"
    /\ tkv' = Consume(tkv, pos, 1, <<cur>>)
    /\ cur' \in Predicts(tkv', pos, cur)
    /\ pos' = pos + 1
    /\ UNCHANGED <<text, haveDraft, dkv, stop, emitted, roundVars, gdb,
                   fetchVars>>

PlainEnd ==
    /\ pc = "plain" /\ Produced >= MaxTokens /\ pc' = "done"
    /\ UNCHANGED <<text, haveDraft, cacheVars, cur, pos, stop, emitted,
                   roundVars, gdb, fetchVars>>

----------------------------------------------------------------------------
(* The expert left to the prefetch thread: expert_load looks the tensors   *)
(* up in g_db, then reads them from g_db's files, taking the global anew   *)
(* each time.  The model ends with the last token printed.                 *)
Running == pc \notin {"done", "dead"}

(* Looked up among the draft's tensors the expert is missing, and the slot *)
(* is marked empty, or it is the draft's expert of the same name.          *)
FetchFind ==
    /\ fetch = "queued" /\ Running
    /\ fetch' \in IF gdb = "target" THEN {"found"} ELSE {"none", "foreign"}
    /\ UNCHANGED <<text, pc, haveDraft, cacheVars, cur, pos, stop, emitted,
                   roundVars, gdb, spoilt>>

FetchRead ==
    /\ fetch = "found" /\ Running /\ gdb = "target"
    /\ fetch' = "none"
    /\ UNCHANGED <<text, pc, haveDraft, cacheVars, cur, pos, stop, emitted,
                   roundVars, gdb, spoilt>>

(* The target's offsets are read from a file of the draft, or the draft's  *)
(* from a file of either: whatever is there, or, where the file or the     *)
(* tensor is too short, the end of the process (expert_load_reusable) or   *)
(* an expert dropped (expert_load).                                        *)
FetchOther ==
    /\ Running
    /\ (fetch = "found" /\ gdb = "draft") \/ fetch = "foreign"
    /\ fetch' = "none"
    /\ \/ spoilt' = TRUE /\ UNCHANGED pc
       \/ pc' = "dead" /\ UNCHANGED spoilt
       \/ UNCHANGED <<pc, spoilt>>
    /\ UNCHANGED <<text, haveDraft, cacheVars, cur, pos, stop, emitted,
                   roundVars, gdb>>

----------------------------------------------------------------------------
Terminated == pc \in {"done", "dead"} /\ UNCHANGED vars

Main ==
    \/ LoadDraft \/ TargetPrefill \/ DraftPrefill \/ First
    \/ StartRound \/ (\E d \in Tokens : Propose(d)) \/ Verify
    \/ ShowNext \/ EndRound \/ EndSpec
    \/ PlainShow \/ PlainStop \/ PlainForward \/ PlainEnd

Next == Main \/ FetchFind \/ FetchRead \/ FetchOther \/ Terminated

Spec == Init /\ [][Next]_vars

----------------------------------------------------------------------------
(* Properties.  (ConsumeAnywhere, AcceptsOneMore, ShowsPastStop and         *)
(* EndRoundTwice are mutated forms of the definition after them.)          *)

Kv == [Positions -> Tokens \cup {Zero}]

(* The variables have their types; the round has at most K + 1 tokens.     *)
TypeOK ==
    /\ text \in [0..Horizon -> Tokens] /\ haveDraft \in BOOLEAN
    /\ pc \in {"load", "prefill", "draftprefill", "first", "loop", "propose",
               "emit", "plain", "consume", "done", "dead"}
    /\ tkv \in Kv /\ dkv \in Kv
    /\ cur \in Tokens /\ pos \in Nat
    /\ stop \in BOOLEAN /\ emitted \in Seq(Tokens)
    /\ dt \in Seq(Tokens) /\ Len(dt) <= K
    /\ out \in Seq(Tokens) /\ Len(out) <= K + 1 /\ shown \in 0..Len(out)
    /\ gdb \in {"target", "draft"} /\ spoilt \in BOOLEAN
    /\ fetch \in {"none", "queued", "found", "foreign"}

(* README.md 735 and picchio.c 5085: whatever the draft proposes, what is  *)
(* printed is the target's greedy continuation, as long as the target's    *)
(* weights are its own.                                                    *)
Continuation(e) == \A i \in 1..Len(e) : e[i] = text[NPrompt + i - 1]
OutputIsGreedy == ~spoilt => Continuation(emitted)

(* README.md 735: the same, with nothing excused.                          *)
AlwaysGreedy == Continuation(emitted)

(* picchio.c 5096: between rounds the target's cache holds the text up to  *)
(* the current position, nothing rejected is left below it in the draft's  *)
(* (a position may be missing there: after a round accepted as a whole the *)
(* draft has not consumed its last proposal), and the token to consume     *)
(* next is the last one printed.                                           *)
RollsByOverwrite ==
    pc = "loop" /\ ~stop /\ Produced < MaxTokens /\ ~spoilt =>
        /\ Follows(tkv, pos) /\ cur = text[pos]
        /\ \A i \in Positions : i < pos => dkv[i] \in {text[i], Zero}
        /\ pos = NPrompt + Produced - 1 /\ cur = emitted[Produced]

(* The printed tokens are those of plain greedy decoding, up to a stop     *)
(* token, the limit, or the speculative loop's reserve at the end of the   *)
(* context.                                                                *)
Promise == INSTANCE Greedy WITH
    Stops <- IF DraftModel THEN Stops ELSE PlainStops,
    Ends <- PlainStops,
    Asked <- MaxTokens,
    Limit <- IF MaxTokens = 0 /\ DraftModel THEN 1 ELSE MaxTokens,
    Room <- CtxLen - K - 1 - NPrompt,
    excused <- spoilt,
    ended <- pc = "done"
ImplementsGreedy == Promise!Spec

=============================================================================
