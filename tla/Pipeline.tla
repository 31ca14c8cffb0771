------------------------------ MODULE Pipeline ------------------------------
(***************************************************************************)
(* Inference over two machines (picchio.c, PIPE_ROLE).  A coordinator      *)
(* embeds, runs the layers below its cut and sends the residuals over TCP; *)
(* the worker runs the layers from the cut up and answers with the logits; *)
(* the coordinator samples.  The worker serves one connection at a time    *)
(* and keeps its key-value cache from one to the next.  A coordinator is a *)
(* raw-ID run (pipe_coord_run) or the engine of a chat (service_loop).     *)
(*                                                                         *)
(* A residual is the context it was computed from, or Garbage.  A cache    *)
(* entry of a layer is the context of the residual it was made from.  A    *)
(* layer gives Garbage when an entry it attends to is not the one of its   *)
(* own context, and the head passes it on.                                 *)
(*                                                                         *)
(* All nodes load the same model (README.md 1266), so the tests of magic,  *)
(* hi and sizes never fail and are left out; temperature is 0.             *)
(***************************************************************************)
EXTENDS Integers, Sequences, FiniteSets

CONSTANTS
    Coordinators,      \* coordinator processes
    TurnsOf,           \* per coordinator, its turns: [keep, ids, max]
    Runs,              \* those that are raw-ID runs; the others are chats
    Vocab,             \* c->vocab
    Stops, FirstStop,  \* c->stop_ids, and the one pipe_coord_run looks at
    L,                 \* c->n_layers
    Cuts, Owns,        \* PIPE_CUT of the coordinators; first layers of the worker
    Cap, WorkerCap,    \* kv.max_pos of the coordinators and of the worker
    Batch,             \* positions of a block of the prefill
    Best(_), Penalised(_, _), Rep,  \* the sampler (module OneNode)
    MaxDrops,          \* connections lost, bounded
    MaxCrashes,        \* processes killed, bounded
    None, Empty, Garbage

NoToken == -1   \* a step without an answer

ASSUME LayersAssumption ==
    /\ L \in Nat /\ L >= 2
    /\ Cuts \subseteq [Coordinators -> 1..(L - 1)]
    /\ Owns \subseteq 0..(L - 1)               \* 0: PIPE_LOAD_FULL
ASSUME SizesAssumption ==
    /\ Cap \in Nat \ {0} /\ WorkerCap \in Nat \ {0} /\ Batch \in Nat \ {0}
    /\ MaxDrops \in Nat /\ MaxCrashes \in Nat
ASSUME VocabAssumption ==
    Vocab \subseteq Nat /\ 0 \in Vocab /\ FirstStop \in Stops /\ Stops \subseteq Vocab
ASSUME TurnsAssumption ==
    /\ Runs \subseteq Coordinators /\ None \notin Coordinators
    /\ DOMAIN TurnsOf = Coordinators
    /\ \A c \in Coordinators :
          /\ TurnsOf[c] \in Seq([keep : Nat, ids : Seq(Vocab), max : Nat])
          /\ c \in Runs => /\ Len(TurnsOf[c]) = 1 /\ TurnsOf[c][1].keep = 0
                           /\ TurnsOf[c][1].ids # <<>>
                           /\ Len(TurnsOf[c][1].ids) + TurnsOf[c][1].max <= Cap
ASSUME MarksAssumption ==
    /\ Empty # Garbage
    /\ \A m \in {Empty, Garbage} : m \notin Seq(Vocab \cup {NoToken})

ASSUME SamplerAssumption ==      \* sample_logits returns an index of the logits
    \A n \in 0..Cap : \A ctx \in [1..n -> Vocab \cup {NoToken}] :
        /\ Best(ctx) \in Vocab
        /\ Rep => \A m \in 0..Cap : \A h \in [1..m -> Vocab] : Penalised(ctx, h) \in Vocab

VARIABLES
    (* the coordinators *)
    cut,       \* g_pipe_cut
    cpc,       \* "off", "idle", "block", "decode", "await", "ended" or "failed"
    said,      \* per turn begun, the tokens printed
    fed,       \* the token consumed at each position: the cache of layer 0
    pos, off,  \* service_loop's pos; the prompt's positions already sent
    tok,       \* the token to print next
    hist,      \* g_history
    (* the connections *)
    link,      \* "none", "up" or "down"
    toW, toC,  \* bytes in flight, a header or a body each
    (* the worker *)
    wpc,       \* "down", "accept", "header" or "body"
    wlo,       \* g_pipe_lo
    backlog,   \* connections waiting for accept
    conn,      \* the coordinator served
    head,      \* the header read
    wkv,       \* per layer and position
    drops, crashes

turnVars == <<said, fed, pos, off, tok, hist>>
coordVars == <<cut, cpc, turnVars>>
netVars == <<link, toW, toC>>
workerVars == <<wpc, wlo, backlog, conn, head, wkv>>
budget == <<drops, crashes>>
vars == <<coordVars, netVars, workerVars, budget>>

Layers == 0..(L - 1)
WPositions == 0..(WorkerCap - 1)
Over(c) == cpc[c] \in {"ended", "failed"}
Turn(c) == TurnsOf[c][Len(said[c])]
NoHeader == [kind |-> "none", n |-> 0, pos |-> 0, lo |-> 0]

Init ==
    /\ cut \in Cuts /\ wlo \in Owns          \* nobody makes them agree
    /\ cpc = [c \in Coordinators |-> "off"]
    /\ said = [c \in Coordinators |-> <<>>] /\ fed = said /\ hist = said
    /\ pos = [c \in Coordinators |-> 0] /\ off = pos
    /\ tok = [c \in Coordinators |-> NoToken]
    /\ link = [c \in Coordinators |-> "none"] /\ toW = said /\ toC = said
    /\ wpc = "accept" /\ backlog = <<>> /\ conn = None /\ head = NoHeader
    /\ wkv = [l \in Layers |-> [p \in WPositions |-> Empty]]
    /\ drops = 0 /\ crashes = 0

-----------------------------------------------------------------------------
(* The wire: a header and what follows it.  Sending on a connection that   *)
(* is lost is lost too; recv_all gets both or fails.                       *)

Header(kind, n, p, lo) == [kind |-> kind, n |-> n, pos |-> p, lo |-> lo]
Send(queue, c, header, body) ==
    IF link[c] = "up" THEN [queue EXCEPT ![c] = @ \o <<header, body>>] ELSE queue

(* Reading a piece, and finding that it will never come.                   *)
Readable(queue, c, n) == Len(queue[c]) >= n
AtEnd(queue, c, n) == link[c] = "down" /\ Len(queue[c]) < n

Prefix(s) == {SubSeq(s, 1, n) : n \in 0..Len(s)}

-----------------------------------------------------------------------------
(* The coordinators *)

(* The residuals at the cut for the positions from base on.                *)
Residuals(f, base) ==
    [i \in 1..(Len(f) - base) |-> SubSeq(f, 1, base + i)]

AskAhead(c, kind, base, ids) ==     \* a mutant of Ask
    LET f == SubSeq(fed[c], 1, base) \o ids
        n == IF kind = "BATCH" THEN Len(ids) ELSE base
    IN  /\ fed' = [fed EXCEPT ![c] = f]
        /\ toW' = Send(toW, c, Header(kind, n, base, cut[c]), Residuals(f, base))
        /\ cpc' = [cpc EXCEPT ![c] = IF kind = "BATCH" THEN "block" ELSE "await"]

Ask(c, kind, base, ids) ==
    LET f == SubSeq(fed[c], 1, base) \o ids
        n == IF kind = "BATCH" THEN Len(ids) ELSE base
    IN  /\ fed' = [fed EXCEPT ![c] = f]
        /\ toW' = Send(toW, c, Header(kind, n, base, cut[c]), Residuals(f, base))
        /\ cpc' = [cpc EXCEPT ![c] = "await"]

(* net_close, or the death of the process: what was sent stays sent.       *)
Closed(c) == link' = [link EXCEPT ![c] = IF @ = "none" THEN @ ELSE "down"]

Connect(c) ==
    /\ cpc[c] = "off"
    /\ IF wpc = "down"
        THEN cpc' = [cpc EXCEPT ![c] = "failed"] /\ UNCHANGED <<link, backlog>>
        ELSE /\ cpc' = [cpc EXCEPT ![c] = "idle"]
             /\ link' = [link EXCEPT ![c] = "up"]
             /\ backlog' = Append(backlog, c)
    /\ UNCHANGED <<cut, turnVars, toW, toC, wpc, wlo, conn, head, wkv, budget>>

Accepted(t, n) ==
    /\ t.max >= 0 /\ t.keep \in 0..n
    /\ t.ids # <<>> /\ t.keep + Len(t.ids) <= Cap

BeginTurnAtEnd(c) ==                \* a mutant of BeginTurn
    /\ cpc[c] = "idle" /\ Len(said[c]) < Len(TurnsOf[c])
    /\ said' = [said EXCEPT ![c] = Append(@, <<>>)]
    /\ IF Accepted(TurnsOf[c][Len(said[c]) + 1], pos[c])
       THEN /\ cpc' = [cpc EXCEPT ![c] = "block"]
            /\ off' = [off EXCEPT ![c] = 0]
            /\ hist' = [hist EXCEPT ![c] = <<>>]
       ELSE UNCHANGED <<cpc, off, hist>>
    /\ UNCHANGED <<cut, fed, tok, pos, netVars, workerVars, budget>>

BeginTurn(c) ==
    /\ cpc[c] = "idle" /\ Len(said[c]) < Len(TurnsOf[c])
    /\ said' = [said EXCEPT ![c] = Append(@, <<>>)]
    /\ LET t == TurnsOf[c][Len(said[c]) + 1]
       IN  IF Accepted(t, pos[c])
           THEN /\ cpc' = [cpc EXCEPT ![c] = "block"]
                /\ pos' = [pos EXCEPT ![c] = t.keep]
                /\ off' = [off EXCEPT ![c] = 0]
                /\ hist' = [hist EXCEPT ![c] = <<>>]
           ELSE UNCHANGED <<cpc, pos, off, hist>>
    /\ UNCHANGED <<cut, fed, tok, netVars, workerVars, budget>>

(* The next block of the prompt.                                           *)
BlockEnd(c) ==
    IF off[c] + Batch < Len(Turn(c).ids) THEN off[c] + Batch ELSE Len(Turn(c).ids)
SendBlock(c) ==
    /\ cpc[c] = "block"
    /\ Ask(c, "BATCH", pos[c] + off[c], SubSeq(Turn(c).ids, off[c] + 1, BlockEnd(c)))
    /\ UNCHANGED <<cut, said, pos, off, tok, hist, link, toC, workerVars, budget>>

InPrefill(c) == off[c] < Len(Turn(c).ids)
LastSaid(c) == said[c][Len(said[c])][Len(said[c][Len(said[c])])]

(* What the coordinator does with the token t of a step, -1 without one.   *)
BlockAnswered(c, t) ==
    /\ off' = [off EXCEPT ![c] = BlockEnd(c)]
    /\ tok' = [tok EXCEPT ![c] = t]
    /\ IF BlockEnd(c) < Len(Turn(c).ids)
       THEN cpc' = [cpc EXCEPT ![c] = "block"] /\ UNCHANGED pos
       ELSE /\ cpc' = [cpc EXCEPT ![c] = "decode"]
            /\ pos' = [pos EXCEPT ![c] = @ + Len(Turn(c).ids)]
    /\ UNCHANGED link
TokenAnswered(c, t) ==
    /\ UNCHANGED off
    /\ IF c \in Runs /\ t = NoToken          \* "worker dropped"
       THEN /\ cpc' = [cpc EXCEPT ![c] = "failed"]
            /\ Closed(c) /\ UNCHANGED <<tok, pos>>
       ELSE /\ pos' = [pos EXCEPT ![c] = @ + 1]
            /\ tok' = [tok EXCEPT ![c] = IF t = NoToken THEN 0 ELSE t]
            /\ cpc' = [cpc EXCEPT ![c] =
                         IF c \notin Runs /\ LastSaid(c) \in Stops THEN "idle"
                                                               ELSE "decode"]
            /\ UNCHANGED link
Answered(c, t) ==
    /\ IF InPrefill(c) THEN BlockAnswered(c, t) ELSE TokenAnswered(c, t)
    /\ UNCHANGED <<cut, said, fed, toW, workerVars, budget>>

(* sample_logits: noise may give any token.                                *)
Sampled(logits, h) ==
    IF logits = Garbage THEN Vocab
    ELSE {IF Rep THEN Penalised(logits, h) ELSE Best(logits)}

TakeReply(c) ==
    /\ cpc[c] = "await" /\ Readable(toC, c, 2)
    /\ toC' = [toC EXCEPT ![c] = SubSeq(@, 3, Len(@))]
    /\ \E t \in Sampled(toC[c][2], hist[c]) :
          Answered(c, t) /\ hist' = [hist EXCEPT ![c] = Append(@, t)]

NoReplyInTime(c) ==                 \* a mutant of NoReply
    /\ cpc[c] = "await" /\ toC[c] = <<>>
    /\ Answered(c, NoToken) /\ UNCHANGED <<toC, hist>>

NoReply(c) ==
    /\ cpc[c] = "await" /\ AtEnd(toC, c, 2)
    /\ toC' = [toC EXCEPT ![c] = <<>>]
    /\ Answered(c, NoToken) /\ UNCHANGED hist

(* The loop that prints a token and asks for the next.                     *)
AnswerFull(c) ==
    \/ Len(said[c][Len(said[c])]) >= Turn(c).max
    \/ c \notin Runs /\ pos[c] >= Cap
EndTurn(c) ==
    /\ cpc[c] = "decode" /\ AnswerFull(c)
    /\ cpc' = [cpc EXCEPT ![c] = "idle"]
    /\ UNCHANGED <<cut, turnVars, netVars, workerVars, budget>>
PrintToken(c) ==
    /\ cpc[c] = "decode" /\ ~AnswerFull(c)
    /\ said' = [said EXCEPT ![c][Len(said[c])] = Append(@, tok[c])]
    /\ IF c \in Runs /\ tok[c] = FirstStop
       THEN cpc' = [cpc EXCEPT ![c] = "idle"] /\ UNCHANGED <<fed, toW>>
       ELSE Ask(c, "FWD", pos[c], <<tok[c]>>)
    /\ UNCHANGED <<cut, pos, off, tok, hist, link, toC, workerVars, budget>>

Leave(c) ==
    /\ cpc[c] = "idle" /\ Len(said[c]) = Len(TurnsOf[c])
    /\ cpc' = [cpc EXCEPT ![c] = "ended"] /\ Closed(c)
    /\ UNCHANGED <<cut, turnVars, toW, toC, workerVars, budget>>

-----------------------------------------------------------------------------
(* The worker *)

Accept ==
    /\ wpc = "accept" /\ backlog # <<>>
    /\ conn' = Head(backlog) /\ backlog' = Tail(backlog) /\ wpc' = "header"
    /\ UNCHANGED <<coordVars, netVars, wlo, head, wkv, budget>>

(* net_close(conn): what the coordinator sends is lost from now on.        *)
Hangup ==
    /\ Closed(conn) /\ toW' = [toW EXCEPT ![conn] = <<>>]
    /\ wpc' = "accept" /\ conn' = None /\ head' = NoHeader

OwnedAny(h) == h.lo >= 0            \* a mutant of Owned
Owned(h) == h.lo >= wlo
TakeHeader ==
    /\ wpc = "header" /\ Readable(toW, conn, 1)
    /\ IF Owned(toW[conn][1])
       THEN /\ head' = toW[conn][1] /\ wpc' = "body"
            /\ toW' = [toW EXCEPT ![conn] = Tail(@)]
            /\ UNCHANGED <<link, conn>>
       ELSE Hangup
    /\ UNCHANGED <<coordVars, toC, wlo, backlog, wkv, budget>>

GoneBetween ==                      \* a mutant of Gone
    /\ wpc = "header" /\ AtEnd(toW, conn, 1)
    /\ Hangup
    /\ UNCHANGED <<coordVars, toC, wlo, backlog, wkv, budget>>

Gone ==
    /\ wpc \in {"header", "body"} /\ AtEnd(toW, conn, 1)
    /\ Hangup
    /\ UNCHANGED <<coordVars, toC, wlo, backlog, wkv, budget>>

(* Layer l attends, for the residual x of position p, to its entries below *)
(* the block and to those of the block, made before it.                    *)
Attends(l, x, p, base) ==
    /\ l >= wlo /\ p < WorkerCap
    /\ \A q \in 0..(base - 1) : wkv[l][q] = SubSeq(x, 1, q + 1)

(* run_prefill_range, and run_layer_range for a block of one: what layer l *)
(* is given for the i-th position of the block xs.                         *)
Given(xs, base, lo, l, i) ==
    IF \A j \in 1..i, k \in lo..(l - 1) : Attends(k, xs[j], base + j - 1, base)
    THEN xs[i] ELSE Garbage

Written(xs, base, lo) ==
    [l \in Layers |-> [p \in WPositions |->
        IF l >= lo /\ p \in base..(base + Len(xs) - 1)
        THEN Given(xs, base, lo, l, p - base + 1) ELSE wkv[l][p]]]

Serve ==
    /\ wpc = "body" /\ Readable(toW, conn, 1)
    /\ LET xs == toW[conn][1]
       IN  /\ wkv' = Written(xs, head.pos, head.lo)
           /\ toC' = Send(toC, conn, Header("RES", head.n, head.pos, head.lo),
                          Given(xs, head.pos, head.lo, L, Len(xs)))
    /\ toW' = [toW EXCEPT ![conn] = Tail(@)]
    /\ wpc' = "header" /\ head' = NoHeader
    /\ UNCHANGED <<coordVars, link, wlo, backlog, conn, budget>>

-----------------------------------------------------------------------------
(* Faults *)

(* The network loses a connection with the tail of what it carries.        *)
Drop(c) ==
    /\ link[c] = "up" /\ drops < MaxDrops /\ drops' = drops + 1
    /\ link' = [link EXCEPT ![c] = "down"]
    /\ \E w \in Prefix(toW[c]) : toW' = [toW EXCEPT ![c] = w]
    /\ \E r \in Prefix(toC[c]) : toC' = [toC EXCEPT ![c] = r]
    /\ UNCHANGED <<coordVars, workerVars, crashes>>

(* A coordinator is killed.                                                *)
Die(c) ==
    /\ cpc[c] # "off" /\ ~Over(c) /\ crashes < MaxCrashes /\ crashes' = crashes + 1
    /\ cpc' = [cpc EXCEPT ![c] = "failed"] /\ Closed(c)
    /\ toC' = [toC EXCEPT ![c] = <<>>]
    /\ \E w \in Prefix(toW[c]) : toW' = [toW EXCEPT ![c] = w]
    /\ UNCHANGED <<cut, turnVars, workerVars, drops>>

(* The worker is killed, and started again.                                *)
Crash ==
    /\ wpc # "down" /\ crashes < MaxCrashes /\ crashes' = crashes + 1
    /\ wpc' = "down" /\ backlog' = <<>> /\ conn' = None /\ head' = NoHeader
    /\ wkv' = [l \in Layers |-> [p \in WPositions |-> Empty]]
    /\ link' = [c \in Coordinators |-> IF link[c] = "up" THEN "down" ELSE link[c]]
    /\ toW' = [c \in Coordinators |-> <<>>]
    /\ \E lost \in SUBSET Coordinators :
          toC' = [c \in Coordinators |-> IF c \in lost THEN <<>> ELSE toC[c]]
    /\ UNCHANGED <<coordVars, wlo, drops>>
Restart ==
    /\ wpc = "down" /\ wpc' = "accept"
    /\ UNCHANGED <<coordVars, netVars, wlo, backlog, conn, head, wkv, budget>>

-----------------------------------------------------------------------------
Coordinator(c) ==
    \/ Connect(c) \/ BeginTurn(c) \/ SendBlock(c) \/ TakeReply(c) \/ NoReply(c)
    \/ EndTurn(c) \/ PrintToken(c) \/ Leave(c)
Worker == Accept \/ TakeHeader \/ Gone \/ Serve
Faults == (\E c \in Coordinators : Drop(c) \/ Die(c)) \/ Crash

(* The worker waits in accept for a coordinator that never comes.          *)
Waiting ==
    /\ wpc = "accept" /\ backlog = <<>> /\ \A c \in Coordinators : Over(c)
    /\ UNCHANGED vars

Next ==
    (\E c \in Coordinators : Coordinator(c)) \/ Worker \/ Restart \/ Faults \/ Waiting

(* A running process takes its steps.  Nobody need start a coordinator, or *)
(* the worker again, and nothing need fail.                                *)
Fairness ==
    /\ WF_vars(Worker)
    /\ \A c \in Coordinators : WF_vars(cpc[c] # "off" /\ Coordinator(c))
Spec == Init /\ [][Next]_vars /\ Fairness

-----------------------------------------------------------------------------
(* Properties *)

Contexts == Seq(Vocab \cup {NoToken})
Headers == [kind : {"none", "FWD", "BATCH", "RES"}, n : Nat, pos : Nat, lo : Nat]

(* The shapes of the state; a connection holds at most one message in each *)
(* direction.                                                              *)
TypeOK ==
    /\ cut \in [Coordinators -> 1..(L - 1)] /\ wlo \in Layers
    /\ cpc \in [Coordinators -> {"off", "idle", "block", "decode", "await",
                                 "ended", "failed"}]
    /\ said \in [Coordinators -> Seq(Contexts)]
    /\ fed \in [Coordinators -> Contexts] /\ hist \in [Coordinators -> Contexts]
    /\ pos \in [Coordinators -> Nat] /\ off \in [Coordinators -> Nat]
    /\ tok \in [Coordinators -> Vocab \cup {NoToken}]
    /\ link \in [Coordinators -> {"none", "up", "down"}]
    /\ wpc \in {"down", "accept", "header", "body"}
    /\ conn \in Coordinators \cup {None} /\ backlog \in Seq(Coordinators)
    /\ head \in Headers
    /\ \A c \in Coordinators :
          /\ Len(toW[c]) <= 2 /\ Len(toC[c]) <= 2
          /\ \A n \in 1..Len(fed[c]) : fed[c][n] \in Vocab \cup {NoToken}
    /\ drops \in 0..MaxDrops /\ crashes \in 0..MaxCrashes

(* A reply answers the request its coordinator waits on, which never       *)
(* compares them (pipe_coord_step, pipe_coord_prefill): same position,     *)
(* number and first layer, whatever connections and processes were lost.   *)
Outstanding(c) ==
    IF InPrefill(c)
    THEN Header("RES", BlockEnd(c) - off[c], pos[c] + off[c], cut[c])
    ELSE Header("RES", pos[c], pos[c], cut[c])
AnswersItsRequest ==
    \A c \in Coordinators :
        toC[c] # <<>> => cpc[c] = "await" /\ toC[c][1] = Outstanding(c)

(* The logits a coordinator receives are those of all it has consumed and  *)
(* of nothing else, though the worker's cache still holds what earlier     *)
(* connections left, each with a cut of its own, or was lost in a restart. *)
LogitsOfContext ==
    \A c \in Coordinators : Len(toC[c]) = 2 => toC[c][2] = fed[c]

(* Two machines print what one would (README.md 1246, 1256) as long as the *)
(* connection lasts, and finish their turns unless it is lost.             *)
One == INSTANCE OneNode
    WITH Clients <- Coordinators, Tokens <- Vocab \cup {NoToken}, said <- said,
         over <- [c \in Coordinators |-> cpc[c] = "ended"],
         broken <- [c \in Coordinators |->
                      cpc[c] = "failed" \/ (link[c] = "down" /\ cpc[c] # "ended")]
ImplementsOneNode == One!Spec

(* A coordinator that starts comes to an end: the answer, or the loss of   *)
(* the worker, reaches it, also when another is being served.              *)
CoordinatorsEnd == \A c \in Coordinators : cpc[c] # "off" ~> Over(c)

=============================================================================
