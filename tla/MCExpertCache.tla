--------------------------- MODULE MCExpertCache ---------------------------
(* Values of ExpertCache's constants for TLC.                              *)
EXTENDS ExpertCache, TLC

CONSTANTS e1, e2, e3, s1, s2

MCExperts3 == {e1, e2, e3}
MCSlots2 == {s1, s2}

(* The combinations of threads and devices: no thread, each thread alone,  *)
(* both, and a GPU with the early prediction.                              *)
Switch(p, a, gp, g, f) == [pilot |-> p, asyncMoe |-> a, gpuPrefetch |-> gp,
                           gpuOn |-> g, readsMayFail |-> f]
MCSwitches == {Switch(FALSE, FALSE, FALSE, FALSE, TRUE),
               Switch(TRUE, FALSE, FALSE, FALSE, TRUE),
               Switch(TRUE, TRUE, FALSE, FALSE, FALSE),
               Switch(TRUE, FALSE, TRUE, TRUE, FALSE)}
MCThreads == {Switch(TRUE, TRUE, FALSE, FALSE, FALSE)}

(* Experts are only compared with each other, and the slots of a pool are  *)
(* interchangeable.                                                        *)
Symmetric == Permutations(MCExperts3) \cup Permutations(MCSlots2)

=============================================================================
