------------------------------- MODULE MCChat -------------------------------
(* Values of Chat's constants for TLC.                                     *)
EXTENDS Chat

MCTurns == 1..3
MCVocab == 0..3
MCStopIds == {3}
MCLikely(s) ==
    {(s[1] + s[Len(s)] + Len(s)) % 4, (s[1] + 2 * s[Len(s)] + 1) % 4}

A(ids, max) == [ids |-> ids, max |-> max, readable |-> TRUE]

(* Prompts that extend or contradict the conversation so far, one that     *)
(* fills the cache before the prefill is added, one too long, one with an  *)
(* id the model does not know.                                             *)
MCPrefills == {<<>>, <<2>>}
MCAsks == {A(<<1, 2>>, 1), A(<<2, 1, 2>>, 2), A(<<1, 2, 0, 2>>, 1),
           A(<<1, 1, 1, 1, 2>>, 1), A(<<1, 1, 1, 1, 1, 2>>, 1), A(<<1, 4, 2>>, 1),
           A(<<1>>, 1), A(<<1, 2, 1>>, 2)}

=============================================================================
