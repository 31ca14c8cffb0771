---------------------------- MODULE MCSpecDecode ----------------------------
(* Values of SpecDecode's constants for TLC.                               *)
EXTENDS SpecDecode

CONSTANTS a, b, z

MCTokens == {a, b, z}
MCStops == {z}
MCPlainStops == {b, z}

(* Texts of two tokens that may end with a stop token: all that tokens are *)
(* used for is to be compared.                                             *)
MCTexts ==
    {[i \in 0..Horizon |-> IF i \in NPrompt..(CtxLen - 2) THEN f[i] ELSE a] :
        f \in {g \in [NPrompt..(CtxLen - 2) -> MCTokens] :
                 \A i, j \in DOMAIN g : i < j /\ g[i] = z => g[j] = a}}

=============================================================================
