------------------------------- MODULE Greedy -------------------------------
(***************************************************************************)
(* What decoding without sampling promises: the tokens printed are the     *)
(* continuation of the prompt by the target model's greedy argmax, one     *)
(* after the other, up to a stop token, to the limit asked for, or to the  *)
(* end of the room the context has.                                        *)
(***************************************************************************)
EXTENDS Integers, Sequences

CONSTANTS
    Tokens,          \* the vocabulary
    Stops, Ends,     \* tokens nothing is printed after; and those that may end it
    Texts,           \* what the model may say, prompt included
    NPrompt,         \* n_prompt
    Asked,           \* tokens asked for
    Limit,           \* tokens printed at most
    Room             \* tokens after which decoding may end for want of room

VARIABLES
    text,     \* the prompt and its greedy continuation, by position
    emitted,  \* the tokens printed
    excused,  \* the target's weights have been damaged
    ended

vars == <<text, emitted, excused, ended>>

EndsIn(S) == emitted # <<>> /\ emitted[Len(emitted)] \in S

Init == text \in Texts /\ emitted = <<>> /\ ~excused /\ ~ended

Emit(t) ==
    /\ ~ended /\ ~EndsIn(Stops) /\ Len(emitted) < Limit
    /\ excused \/ t = text[NPrompt + Len(emitted)]
    /\ emitted' = Append(emitted, t)
    /\ UNCHANGED <<text, excused, ended>>

End ==
    /\ ~ended
    /\ excused \/ EndsIn(Ends) \/ Len(emitted) >= Asked \/ Len(emitted) >= Room
    /\ ended' = TRUE
    /\ UNCHANGED <<text, emitted, excused>>

Damage == excused' = TRUE /\ UNCHANGED <<text, emitted, ended>>

Next == (\E t \in Tokens : Emit(t)) \/ End \/ Damage

Spec == Init /\ [][Next]_vars

=============================================================================
