------------------------------ MODULE MCServer ------------------------------
(* Values of Server's constants for TLC.                                   *)
EXTENDS Server, TLC

CONSTANTS r1, r2, r3, r4, r5

MCRequests2 == {r1, r2}
MCRequests == {r1, r2, r3}
MCRequests5 == {r1, r2, r3, r4, r5}
MCSymmetry == Permutations(MCRequests)

(* Token 0 replaces an invalid one, 3 ends an answer.  The model may answer *)
(* with either of two tokens, which depend on the context's length and on  *)
(* its first and last token.                                               *)
MCVocab == 0..3
MCStopIds == {3}
MCLikely(s) ==
    {(s[1] + s[Len(s)] + Len(s)) % 4, (s[1] + 2 * s[Len(s)] + 1) % 4}

A(ids, max) == [ids |-> ids, max |-> max, readable |-> TRUE]

(* Prompts that share a prefix, contain one another or diverge, one that   *)
(* fills the cache, one too long, one with an id the model does not know,  *)
(* a negative max_tokens and an unreadable sampling parameter.             *)
MCAsks == {A(<<1>>, 1), A(<<1, 2>>, 2), A(<<2, 2, 1, 0>>, 1),
           A(<<1, 1, 1, 1, 1>>, 1), A(<<1, 4>>, 1), A(<<1>>, -1),
           [ids |-> <<1>>, max |-> 1, readable |-> FALSE]}

(* For the runs about one behaviour: one prompt, one possible answer.      *)
MCOneAsk == {A(<<1>>, 2)}
MCLikelyOne(s) == {1}
MCFewAsks == {A(<<1>>, 1), A(<<1, 2>>, 2), A(<<1, 1, 1, 1, 1>>, 1)}

=============================================================================
