----------------------------- MODULE MCPipeline -----------------------------
EXTENDS Pipeline, SequencesExt, TLC

CONSTANTS c1, c2

(* A raw-ID run whose prompt takes two blocks, and a chat whose second     *)
(* turn keeps two positions and fills the context.                         *)
MCTurnsOf ==
    (c1 :> << [keep |-> 0, ids |-> <<1, 2, 1>>, max |-> 2] >>)
    @@ (c2 :> << [keep |-> 0, ids |-> <<2, 2>>, max |-> 2],
                 [keep |-> 2, ids |-> <<1>>, max |-> 3] >>)

(* The cuts differ: with a worker that owns the layers from 2, one of the  *)
(* two is refused; with one that owns them from 1, both are served.        *)
MCCuts == {(c1 :> 1) @@ (c2 :> 2), (c1 :> 2) @@ (c2 :> 1)}

(* The greatest logit depends on every position of the context; the        *)
(* penalty moves it off a token of the history.                            *)
Value(ctx) == FoldLeft(LAMBDA v, t : 2 * v + t + 2, Len(ctx), ctx)
MCBest(ctx) == Value(ctx) % 3
MCPenalised(ctx, h) ==
    IF MCBest(ctx) \in {h[i] : i \in 1..Len(h)}
    THEN (MCBest(ctx) + 1) % 3 ELSE MCBest(ctx)

=============================================================================
