------------------------------ MODULE OneNode ------------------------------
(***************************************************************************)
(* What one machine answers, the reference of the two-machine mode: a      *)
(* session of turns, each keeping the first positions of the context,      *)
(* encoding its ids (prefill_tokens) and then printing one token after the *)
(* other, every one sampled after the whole context so far.  The token     *)
(* also depends, when the repetition penalty is on, on the history: the    *)
(* ids the block prefill seeds it with and every token sampled in the      *)
(* turn, those that end a block of the prompt included.                    *)
(*                                                                         *)
(* A session that is broken may print anything and end at any time.        *)
(***************************************************************************)
EXTENDS Integers, Sequences

CONSTANTS
    Clients,           \* sessions
    TurnsOf,           \* per session, its turns: [keep, ids, max]
    Tokens,            \* the vocabulary and -1
    Cap,               \* positions of the key-value cache
    Stops,             \* c->stop_ids
    Batch,             \* positions of a block of the prefill
    Best(_),           \* the token with the greatest logit after a context
    Penalised(_, _),   \* the same when the tokens of a history are penalised
    Rep                \* g_rep_penalty > 1

VARIABLES
    said,     \* per session, the tokens printed in each turn begun
    broken,   \* per session
    over      \* per session

vars == <<said, broken, over>>

(* sample_logits at temperature 0 *)
Sampled(ctx, hist) == IF Rep THEN Penalised(ctx, hist) ELSE Best(ctx)

(* The turns service_loop accepts when n positions are in use.             *)
Accepted(t, n) ==
    /\ t.max >= 0 /\ t.keep \in 0..n
    /\ t.ids # <<>> /\ t.keep + Len(t.ids) <= Cap

(* The context after the answers s to the first turns of c.                *)
Context(s, c) ==
    LET after[k \in 0..Len(s)] ==
            IF k = 0 THEN <<>>
            ELSE LET t == TurnsOf[c][k]
                 IN  IF Accepted(t, Len(after[k - 1]))
                     THEN SubSeq(after[k - 1], 1, t.keep) \o t.ids \o s[k]
                     ELSE after[k - 1]
    IN  after[Len(s)]

Earlier(s) == SubSeq(s, 1, Len(s) - 1)
Answer(s) == s[Len(s)]
Unanswered(s) == [s EXCEPT ![Len(s)] = <<>>]

(* The history when the answer to the last turn begins.                    *)
Seed(ids) == IF Rep /\ Batch > 1 /\ Len(ids) > 1 THEN ids ELSE <<>>
EndsBlock(i, n) == i < n /\ i % Batch = 0
History(s, c) ==
    LET t == TurnsOf[c][Len(s)]
        ctx == Context(Unanswered(s), c)
        upto[i \in 0..Len(t.ids)] ==
            IF i = 0 THEN Seed(t.ids)
            ELSE IF ~EndsBlock(i, Len(t.ids)) THEN upto[i - 1]
            ELSE Append(upto[i - 1],
                        Sampled(SubSeq(ctx, 1, t.keep + i), upto[i - 1]))
    IN  upto[Len(t.ids)]

Following(s, c) == Sampled(Context(s, c), History(s, c) \o Answer(s))

Stopped(s) == s # <<>> /\ s[Len(s)] \in Stops
TurnIsOver(s, c) ==
    \/ s = <<>> \/ Stopped(Answer(s))
    \/ ~Accepted(TurnsOf[c][Len(s)], Len(Context(Earlier(s), c)))
    \/ Len(Answer(s)) >= TurnsOf[c][Len(s)].max
    \/ Len(Context(s, c)) >= Cap

Init ==
    /\ said = [c \in Clients |-> <<>>]
    /\ broken = [c \in Clients |-> FALSE]
    /\ over = [c \in Clients |-> FALSE]

Begin(c) ==
    /\ ~over[c] /\ Len(said[c]) < Len(TurnsOf[c])
    /\ broken[c] \/ TurnIsOver(said[c], c)
    /\ said' = [said EXCEPT ![c] = Append(@, <<>>)]
    /\ UNCHANGED <<broken, over>>

Say(c, t) ==
    /\ ~over[c] /\ said[c] # <<>>
    /\ broken[c] \/ (~TurnIsOver(said[c], c) /\ t = Following(said[c], c))
    /\ said' = [said EXCEPT ![c][Len(said[c])] = Append(@, t)]
    /\ UNCHANGED <<broken, over>>

End(c) ==
    /\ ~over[c]
    /\ broken[c] \/ (Len(said[c]) = Len(TurnsOf[c]) /\ TurnIsOver(said[c], c))
    /\ over' = [over EXCEPT ![c] = TRUE]
    /\ broken' = [broken EXCEPT ![c] = FALSE]
    /\ UNCHANGED said

Break(lost) ==
    /\ broken' = [c \in Clients |-> broken[c] \/ c \in lost]
    /\ UNCHANGED <<said, over>>

Next ==
    \/ \E c \in Clients : Begin(c) \/ (\E t \in Tokens : Say(c, t)) \/ End(c)
    \/ \E lost \in SUBSET Clients : Break(lost)

Spec == Init /\ [][Next]_vars

=============================================================================
