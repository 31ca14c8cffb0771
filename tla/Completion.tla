----------------------------- MODULE Completion -----------------------------
(***************************************************************************)
(* What a client of the service may rely on, whatever is reused from the   *)
(* key-value cache, however requests are queued and whatever travels       *)
(* through the pipe: a request is asked once, its answer grows one token   *)
(* at a time, each token being one the model may produce after exactly     *)
(* that prompt and the answer so far, and the request ends with that       *)
(* answer, complete, or fails.                                             *)
(***************************************************************************)
EXTENDS Naturals, Sequences

CONSTANTS
    Requests,   \* requests
    Asks,       \* what a request may ask: [ids, max, readable] records
    NoAsk,      \* a request that has not been made
    Cap,        \* positions of the context
    StopIds,    \* the tokens that end an answer
    Likely(_)   \* the tokens the model may produce after a context

VARIABLES
    ask,        \* per request, what it asks
    answer,     \* per request, the tokens produced for it
    status      \* per request, "none", "asked", "answered" or "failed"

vars == <<ask, answer, status>>

Context(r) == ask[r].ids \o answer[r]

(* Nothing follows a stop token, the requested number of tokens or the     *)
(* last position of the context.                                           *)
Complete(r) ==
    \/ Len(answer[r]) > 0 /\ answer[r][Len(answer[r])] \in StopIds
    \/ Len(answer[r]) = ask[r].max
    \/ Len(Context(r)) >= Cap

Init ==
    /\ ask = [r \in Requests |-> NoAsk]
    /\ answer = [r \in Requests |-> <<>>]
    /\ status = [r \in Requests |-> "none"]

Ask(r, a) ==
    /\ status[r] = "none"
    /\ ask' = [ask EXCEPT ![r] = a]
    /\ status' = [status EXCEPT ![r] = "asked"]
    /\ UNCHANGED answer

Extend(r) ==
    /\ status[r] = "asked" /\ ~Complete(r)
    /\ \E t \in Likely(Context(r)) :
         answer' = [answer EXCEPT ![r] = Append(@, t)]
    /\ UNCHANGED <<ask, status>>

Answer(r) ==
    /\ status[r] = "asked" /\ Complete(r)
    /\ status' = [status EXCEPT ![r] = "answered"]
    /\ UNCHANGED <<ask, answer>>

Fail(r) ==
    /\ status[r] = "asked"
    /\ status' = [status EXCEPT ![r] = "failed"]
    /\ UNCHANGED <<ask, answer>>

Next == \E r \in Requests :
    (\E a \in Asks : Ask(r, a)) \/ Extend(r) \/ Answer(r) \/ Fail(r)

Spec == Init /\ [][Next]_vars

=============================================================================
