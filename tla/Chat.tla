-------------------------------- MODULE Chat --------------------------------
(***************************************************************************)
(* The terminal chat (chat.py, HarmonyChat and main) over one session: one *)
(* user, one turn at a time, /reset, and a process that ends on the first  *)
(* exception or on Ctrl-C.  With --no-reasoning every prompt ends with the *)
(* ids of prefill, which are always processed again.                       *)
(***************************************************************************)
EXTENDS Session

CONSTANT Prefills   \* the values of HarmonyChat.final_prefill

ASSUME TurnsAssumption == Requests \subseteq Nat    \* numbered in order
ASSUME PrefillsAssumption == Prefills # {} /\ Prefills \subseteq Seq(Vocab)
ASSUME SingleNode == Links = {"none"}

VARIABLES
    cpc,        \* where the bridge is
    prefill     \* HarmonyChat.final_prefill, fixed by a command line option

vars == <<serviceVars, sessionVars, cpc, prefill>>

Init == SessionInit /\ cpc = "prompt" /\ prefill \in Prefills

(* What render returns: the prompt without the committed final channel.    *)
Rendered(r) == SubSeq(ask[r].ids, 1, Len(ask[r].ids) - Len(prefill))

EndsWithPrefill(ids) ==
    LET n == Len(ids) - Len(prefill)
    IN  n > 0 /\ prefill = SubSeq(ids, n + 1, Len(ids))

Prefix(r) == Shared(Rendered(r), committed)

-----------------------------------------------------------------------------
(* The user. *)

Prompt(r, a) ==
    /\ cpc = "prompt" /\ hpc[r] = "none"
    /\ \A q \in Requests : q < r => hpc[q] # "none"
    /\ EndsWithPrefill(a.ids)
    /\ cpc' = "asked" /\ Go(r, "waiting")
    /\ ask' = [ask EXCEPT ![r] = a]
    /\ UNCHANGED <<serviceVars, keep, got, committed, prefill>>

Reset ==
    /\ cpc = "prompt" /\ sphase # "exited"
    /\ cpc' = "reset" /\ Write(Command("RESET"))
    /\ UNCHANGED <<outbox, processVars, sessionVars, prefill>>

(* /exit, the end of the input, or /reset on a process that has exited.    *)
Quit ==
    /\ cpc = "prompt" /\ cpc' = "closing"
    /\ UNCHANGED <<serviceVars, sessionVars, prefill>>

Running(r) == hpc[r] = "waiting" \/ InTurn(r)

(* KeyboardInterrupt leaves the loop wherever it is.                       *)
Interrupt ==
    /\ cpc \in {"asked", "turn", "reset"} /\ cpc' = "closing"
    /\ \/ cpc = "reset" /\ UNCHANGED sessionVars
       \/ \E r \in Requests : Running(r) /\ Raise(r)
    /\ UNCHANGED <<serviceVars, prefill>>

-----------------------------------------------------------------------------
(* HarmonyChat.ask and reset, PicchioSession.close. *)

Start(r) ==
    /\ cpc = "asked" /\ hpc[r] = "waiting"
    /\ Len(Rendered(r)) <= Cap /\ Prefix(r) < Len(ask[r].ids)
    /\ Open(r, Prefix(r)) /\ cpc' = "turn" /\ UNCHANGED prefill

(* Insufficient context, an empty delta, or a process that has exited.     *)
NotStarted(r) ==
    /\ cpc = "asked" /\ hpc[r] = "waiting"
    /\ cpc' = "closing" /\ UNCHANGED prefill
    /\ \/ Len(Rendered(r)) > Cap /\ Raise(r) /\ UNCHANGED serviceVars
       \/ Prefix(r) >= Len(ask[r].ids) /\ Raise(r) /\ UNCHANGED serviceVars
       \/ OpenFails(r)

Advance(r) == cpc = "turn" /\ Advances(r) /\ UNCHANGED <<cpc, prefill>>

Finish(r) == cpc = "turn" /\ AfterRead(r) /\ cpc' = "prompt" /\ UNCHANGED prefill

Break(r) == cpc = "turn" /\ Breaks(r, FALSE) /\ cpc' = "closing" /\ UNCHANGED prefill

ResetRead ==
    /\ cpc = "reset" /\ outbox # <<>> /\ Head(outbox).line = "DONE"
    /\ outbox' = Tail(outbox) /\ committed' = <<>> /\ cpc' = "prompt"
    /\ UNCHANGED <<inbox, processVars, hpc, ask, keep, got, prefill>>

ResetFails ==
    /\ cpc = "reset" /\ outbox = <<>> /\ sphase = "exited"
    /\ cpc' = "closing"
    /\ UNCHANGED <<serviceVars, sessionVars, prefill>>

CloseSilently ==            \* a mutant of Close
    /\ cpc = "closing" /\ cpc' = "wait"
    /\ UNCHANGED <<serviceVars, sessionVars, prefill>>
Close ==
    /\ cpc = "closing" /\ cpc' = "wait"
    /\ IF sphase = "exited" THEN UNCHANGED inbox ELSE Write(Command("SHUTDOWN"))
    /\ UNCHANGED <<outbox, processVars, sessionVars, prefill>>

Closed ==
    /\ cpc = "wait" /\ sphase = "exited" /\ cpc' = "closed"
    /\ UNCHANGED <<serviceVars, sessionVars, prefill>>

Talk(r) == Start(r) \/ NotStarted(r) \/ Advance(r) \/ Finish(r) \/ Break(r)
Bridge == ResetRead \/ ResetFails \/ Close \/ Closed \/ \E r \in Requests : Talk(r)

Process(A) == A /\ UNCHANGED <<sessionVars, cpc, prefill>>

Terminated == cpc = "closed" /\ UNCHANGED vars

Next ==
    \/ Process(Serve) \/ Process(Dies)
    \/ \E r \in Requests : \E a \in Asks : Prompt(r, a)
    \/ Reset \/ Quit \/ Interrupt
    \/ Bridge
    \/ Terminated

Spec == Init /\ [][Next]_vars

(* The process and the bridge keep running; the user need not do anything. *)
FairSpec ==
    /\ Spec
    /\ WF_vars(Process(Serve))
    /\ WF_vars(Bridge)

-----------------------------------------------------------------------------
(* Properties. *)

(* Between two turns of the conversation the committed ids are what the    *)
(* cache holds, also after /reset ("runtime restarts from that position",  *)
(* DESIGN.md:151-156).                                                     *)
ChatCommitted == cpc \in {"prompt", "asked"} => CommittedIsConsumed

(* A conversation that is closing always ends, with the service gone: the  *)
(* SHUTDOWN is read although a turn may be running, and no line that       *)
(* nobody reads any more holds the process back.                           *)
ChatEnds == cpc = "closing" ~> cpc = "closed" /\ sphase = "exited"

=============================================================================
