----------------------------- MODULE ChatProofs -----------------------------
(***************************************************************************)
(* The terminal chat: the invariant of the session holds as long as the    *)
(* conversation goes on, for any prompts, prefill, model and context.      *)
(* When the conversation is closing nobody looks at the session any more.  *)
(***************************************************************************)
EXTENDS Chat, SessionProofs

Calm == cpc \in {"prompt", "asked", "turn", "reset"}

ChatInv ==
    Calm => /\ SessionInv
            /\ prefill \in Seq(Vocab) /\ link = "none"
            /\ cpc = "turn" <=> ~Nobody
            /\ cpc \in {"prompt", "asked"} =>
                 /\ outbox = <<>>
                 /\ sphase # "exited" =>
                      \A i \in 1..Len(inbox) : inbox[i].cmd = "SHUTDOWN"

Promised == Promise!Next \/ UNCHANGED Promise!vars

(* The process serves a command or a token.                                *)
LEMMA ServeKeeps ==
    ASSUME ChatInv, Process(Serve)
    PROVE  ChatInv' /\ Promised
<1>1. Serve /\ UNCHANGED sessionVars /\ UNCHANGED <<cpc, prefill>>
    BY DEF Process
<1>2. (Nobody' <=> Nobody) /\ UNCHANGED Promise!vars
    <2>1. UNCHANGED sessionVars
        BY <1>1
    <2>2. QED
        BY <2>1, SessionSame
<1>3. ASSUME Calm PROVE SessionInv' /\ link' = "none"
    BY <1>1, <1>3, ServeStep, ServeLink DEF ChatInv
<1>4. ASSUME cpc \in {"prompt", "asked"} PROVE outbox' = <<>> /\ sphase' = "exited"
    <2>1. SessionInv /\ Nobody /\ outbox = <<>> /\ sphase # "exited"
          /\ \A i \in 1..Len(inbox) : inbox[i].cmd = "SHUTDOWN"
        BY <1>1, <1>4, ServeReads DEF ChatInv, Calm
    <2>2. Shutdown
        BY <1>1, <2>1, IdleServes
    <2>3. QED
        BY <2>1, <2>2 DEF Shutdown
<1>5. QED
    BY <1>1, <1>2, <1>3, <1>4 DEF ChatInv, Calm, Promised

(* The process dies.                                                       *)
LEMMA DiesKeeps ==
    ASSUME ChatInv, Process(Dies)
    PROVE  ChatInv' /\ Promised
<1>1. /\ sphase' = "exited" /\ UNCHANGED sessionVars /\ UNCHANGED <<cpc, prefill>>
      /\ UNCHANGED <<inbox, outbox, pos, kv, turn, tok, produced, link>>
    BY DEF Process, Dies
<1>2. (Nobody' <=> Nobody) /\ UNCHANGED Promise!vars
    <2>1. UNCHANGED sessionVars
        BY <1>1
    <2>2. QED
        BY <2>1, SessionSame
<1>3. ASSUME Calm PROVE SessionInv'
    <2>1. SessionInv /\ inbox' \in Seq(Plain \cup Turns)
        BY <1>1, <1>3 DEF ChatInv, SessionInv, Types
    <2>2. UNCHANGED <<outbox, pos, kv, turn, tok, produced, link, sessionVars>>
        BY <1>1
    <2>3. QED
        BY <1>1, <2>1, <2>2, ExitStep
<1>4. QED
    BY <1>1, <1>2, <1>3 DEF ChatInv, Calm, Promised

(* The user types a prompt.                                                *)
LEMMA PromptKeeps ==
    ASSUME ChatInv, NEW r \in Requests, NEW a \in Asks, Prompt(r, a)
    PROVE  ChatInv' /\ Promised
<1>1. /\ cpc = "prompt" /\ hpc[r] = "none" /\ cpc' = "asked" /\ Go(r, "waiting")
      /\ ask' = [ask EXCEPT ![r] = a]
      /\ UNCHANGED <<serviceVars, keep, got, committed>> /\ UNCHANGED prefill
    BY DEF Prompt
<1>2. /\ SessionInv /\ Types /\ Nobody /\ prefill \in Seq(Vocab) /\ link = "none"
      /\ outbox = <<>>
      /\ sphase # "exited" => \A i \in 1..Len(inbox) : inbox[i].cmd = "SHUTDOWN"
    BY <1>1 DEF ChatInv, Calm, SessionInv
<1>3. SessionInv'
    BY <1>1, <1>2, AskStep
<1>4. \A q \in Requests : hpc'[q] = IF q = r THEN "waiting" ELSE hpc[q]
    BY <1>1, <1>2 DEF Go, Types
<1>5. Nobody'
    BY <1>2, <1>4 DEF Nobody, InTurn
<1>6. ChatInv'
    BY <1>1, <1>2, <1>3, <1>5 DEF ChatInv, Calm, serviceVars, processVars
<1>7. Promise!Next
    <2>1. UNCHANGED got
        BY <1>1
    <2>2. QED
        BY <1>1, <1>2, <2>1, AskPromised
<1>8. QED
    BY <1>6, <1>7 DEF Promised

(* The user types /reset.                                                  *)
LEMMA ResetKeeps ==
    ASSUME ChatInv, Reset
    PROVE  ChatInv' /\ Promised
<1>1. /\ cpc = "prompt" /\ sphase # "exited" /\ cpc' = "reset"
      /\ Write(Command("RESET"))
      /\ UNCHANGED <<outbox, processVars, sessionVars>> /\ UNCHANGED prefill
    BY DEF Reset
<1>2. /\ SessionInv /\ Nobody /\ prefill \in Seq(Vocab) /\ link = "none"
      /\ outbox = <<>> /\ \A i \in 1..Len(inbox) : inbox[i].cmd = "SHUTDOWN"
    BY <1>1 DEF ChatInv, Calm
<1>3. Command("RESET") \in Plain
    BY DEF Command, Plain
<1>4. SessionInv'
    BY <1>1, <1>2, <1>3, WriteStep
<1>5. Nobody' /\ UNCHANGED Promise!vars
    <2>1. UNCHANGED sessionVars
        BY <1>1
    <2>2. QED
        BY <1>2, <2>1, SessionSame
<1>6. ChatInv'
    BY <1>1, <1>2, <1>4, <1>5 DEF ChatInv, Calm, processVars
<1>7. QED
    BY <1>5, <1>6 DEF Promised

(* The conversation is interrupted.                                        *)
LEMMA InterruptKeeps ==
    ASSUME ChatInv, Interrupt
    PROVE  ChatInv' /\ Promised
<1>1. cpc \in {"asked", "turn", "reset"} /\ cpc' = "closing"
      /\ (UNCHANGED sessionVars \/ \E r \in Requests : Running(r) /\ Raise(r))
    BY DEF Interrupt
<1>2. CASE UNCHANGED sessionVars
    BY <1>1, <1>2, SessionSame DEF ChatInv, Calm, Promised
<1>3. ASSUME NEW r \in Requests, Running(r), Raise(r)
      PROVE  ChatInv' /\ Promised
    <2>1. Types /\ (hpc[r] = "waiting" \/ InTurn(r))
        BY <1>1, <1>3 DEF ChatInv, Calm, SessionInv, Running
    <2>2. Promise!Next
        BY <1>3, <2>1, FailPromised DEF Raise
    <2>3. QED
        BY <1>1, <2>2 DEF ChatInv, Calm, Promised
<1>4. QED
    BY <1>1, <1>2, <1>3

(* A turn is started, from the prefix shared by the rendered conversation  *)
(* and what is committed.                                                  *)
LEMMA StartKeeps ==
    ASSUME ChatInv, NEW r \in Requests, Start(r)
    PROVE  ChatInv' /\ Promised
<1> DEFINE n == Prefix(r)
<1>1. /\ cpc = "asked" /\ hpc[r] = "waiting" /\ n < Len(ask[r].ids)
      /\ Open(r, n) /\ cpc' = "turn" /\ UNCHANGED prefill
    BY DEF Start
<1>2. /\ SessionInv /\ Types /\ Nobody /\ prefill \in Seq(Vocab) /\ link = "none"
      /\ outbox = <<>> /\ ask[r] \in Asks
      /\ sphase # "exited" => \A i \in 1..Len(inbox) : inbox[i].cmd = "SHUTDOWN"
    BY <1>1 DEF ChatInv, Calm, SessionInv, Types
<1>3. /\ sphase # "exited" /\ Go(r, "stats")
      /\ UNCHANGED <<outbox, processVars, ask, got, committed>>
    BY <1>1 DEF Open
<1>4. committed \in Seq(Vocab)
    <2>1. committed = Held /\ pos \in Nat
        BY <1>2, <1>3, CapAssumption DEF SessionInv, Agreed, Types
    <2>2. Held \in [1..pos -> Vocab]
        BY <1>2 DEF Held, SessionInv, PosValid
    <2>3. Held \in Seq(Vocab)
        BY <2>1, <2>2, SegmentIsSeq
    <2>4. QED
        BY <2>1, <2>3
<1>5. ask[r].ids \in Seq(Nat) /\ Len(ask[r].ids) \in Nat /\ Len(prefill) \in Nat
    BY <1>2, AsksAssumption, LenProperties
<1>6. /\ Rendered(r) \in Seq(Nat) /\ Len(Rendered(r)) \in Nat
      /\ Len(Rendered(r)) <= Len(ask[r].ids)
      /\ \A i \in 1..Len(Rendered(r)) : Rendered(r)[i] = ask[r].ids[i]
    <2>0. Len(ask[r].ids) - Len(prefill) \in Int
        BY <1>5
    <2>1. PICK m \in Int : m = Len(ask[r].ids) - Len(prefill)
        BY <2>0
    <2>2. m <= Len(ask[r].ids)
        BY <1>5, <2>1
    <2>3. \A i \in 1..m : ask[r].ids[i] \in Nat
        BY <1>5, <2>2
    <2>4. /\ SubSeq(ask[r].ids, 1, m) \in Seq(Nat)
          /\ Len(SubSeq(ask[r].ids, 1, m)) = IF 1 <= m THEN m - 1 + 1 ELSE 0
          /\ \A i \in 1..(m - 1 + 1) : SubSeq(ask[r].ids, 1, m)[i] = ask[r].ids[1 + i - 1]
        BY <1>5, <2>1, <2>3, SubSeqProperties
    <2>5. \A i \in 1..Len(SubSeq(ask[r].ids, 1, m)) :
            i \in 1..(m - 1 + 1) /\ 1 + i - 1 = i
        BY <2>1, <2>4
    <2>6. Rendered(r) = SubSeq(ask[r].ids, 1, m)
        BY <2>1 DEF Rendered
    <2>7. Len(SubSeq(ask[r].ids, 1, m)) <= Len(ask[r].ids)
        BY <1>5, <2>1, <2>2, <2>4
    <2>8. QED
        BY <2>4, <2>5, <2>6, <2>7, LenProperties
<1>7. /\ n \in 0..Len(Rendered(r)) /\ n <= Len(committed)
      /\ \A i \in 1..n : Rendered(r)[i] = committed[i]
    <2>1. /\ Shared(Rendered(r), committed) \in 0..Len(Rendered(r))
          /\ Shared(Rendered(r), committed) <= Len(committed)
          /\ \A i \in 1..Shared(Rendered(r), committed) : Rendered(r)[i] = committed[i]
        BY <1>4, <1>6, SharedIs
    <2>2. QED
        BY <2>1 DEF Prefix
<1> HIDE DEF n
<1>8. n \in Nat /\ \A i \in 1..n : ask[r].ids[i] = committed[i]
    <2>1. n \in Nat /\ \A i \in 1..n : i \in 1..Len(Rendered(r))
        BY <1>6, <1>7
    <2>2. QED
        BY <1>6, <1>7, <2>1
<1>9. SessionInv'
    BY <1>1, <1>2, <1>3, <1>7, <1>8, OpenStep
<1>10. \A q \in Requests : hpc'[q] = IF q = r THEN "stats" ELSE hpc[q]
    BY <1>2, <1>3 DEF Go, Types
<1>11. ~Nobody'
    BY <1>10 DEF Nobody, InTurn
<1>12. ChatInv'
    BY <1>1, <1>2, <1>3, <1>9, <1>11 DEF ChatInv, Calm, processVars
<1>13. UNCHANGED Promise!vars
    <2>1. UNCHANGED <<ask, got>>
        BY <1>3
    <2>2. QED
        BY <1>1, <1>2, <1>3, <2>1, SilentPromised
<1>14. QED
    BY <1>12, <1>13 DEF Promised

(* The other steps of a turn.                                              *)
LEMMA TalkKeeps ==
    ASSUME ChatInv, NEW r \in Requests, Talk(r)
    PROVE  ChatInv' /\ Promised
<1>1. CASE Start(r)
    BY <1>1, StartKeeps
<1>2. CASE NotStarted(r)
    <2>1. cpc = "asked" /\ hpc[r] = "waiting" /\ cpc' = "closing" /\ Raise(r)
        BY <1>2 DEF NotStarted, OpenFails
    <2>2. Types
        BY <2>1 DEF ChatInv, Calm, SessionInv
    <2>3. Promise!Next
        BY <2>1, <2>2, FailPromised DEF Raise
    <2>4. QED
        BY <2>1, <2>3 DEF ChatInv, Calm, Promised
<1>3. CASE Advance(r)
    <2>1. cpc = "turn" /\ Advances(r) /\ UNCHANGED <<cpc, prefill>>
        BY <1>3 DEF Advance
    <2>2. SessionInv /\ prefill \in Seq(Vocab) /\ link = "none"
        BY <2>1 DEF ChatInv, Calm
    <2>3. SessionInv' /\ InTurn(r)' /\ Promised
        BY <2>1, <2>2, AdvancesStep DEF Promised
    <2>4. ~Nobody'
        BY <2>3 DEF Nobody
    <2>5. UNCHANGED link
        BY <2>1 DEF Advances, StatsRead, TokenRead, DoneRead, processVars
    <2>6. QED
        BY <2>1, <2>2, <2>3, <2>4, <2>5 DEF ChatInv, Calm
<1>4. CASE Finish(r)
    <2>1. cpc = "turn" /\ AfterRead(r) /\ cpc' = "prompt" /\ UNCHANGED prefill
        BY <1>4 DEF Finish
    <2>2. SessionInv /\ prefill \in Seq(Vocab) /\ link = "none"
        BY <2>1 DEF ChatInv, Calm
    <2>3. SessionInv' /\ Nobody' /\ outbox' = <<>> /\ Promise!Next
        BY <2>1, <2>2, AfterReadStep, AnswerPromised
    <2>4. UNCHANGED <<inbox, processVars>> /\ outbox # <<>>
        BY <2>1 DEF AfterRead, Waits
    <2>5. sphase # "exited" => \A i \in 1..Len(inbox) : inbox[i].cmd = "SHUTDOWN"
        BY <2>2, <2>4, NoneWaits DEF SessionInv
    <2>6. QED
        BY <2>1, <2>2, <2>3, <2>4, <2>5 DEF ChatInv, Calm, Promised, processVars
<1>5. CASE Break(r)
    <2>1. cpc = "turn" /\ Breaks(r, FALSE) /\ cpc' = "closing"
        BY <1>5 DEF Break
    <2>2. SessionInv
        BY <2>1 DEF ChatInv, Calm
    <2>3. /\ InTurn(r) /\ UNCHANGED <<ask, got>>
          /\ Go(r, "failed") \/ Go(r, "abandoned")
        BY <2>1 DEF Breaks, TokenRefused, Unexpected, EndOfFile, BrokenPipe, Raise, Waits,
           InTurn
    <2>4. Promise!Next
        BY <2>2, <2>3, FailPromised DEF SessionInv
    <2>5. QED
        BY <2>1, <2>4 DEF ChatInv, Calm, Promised
<1>6. QED
    BY <1>1, <1>2, <1>3, <1>4, <1>5 DEF Talk

(* The answer to /reset is read.                                           *)
LEMMA ResetReadKeeps ==
    ASSUME ChatInv, ResetRead
    PROVE  ChatInv' /\ Promised
<1>1. /\ cpc = "reset" /\ outbox # <<>> /\ outbox' = Tail(outbox) /\ committed' = <<>>
      /\ cpc' = "prompt"
      /\ UNCHANGED <<inbox, processVars, hpc, ask, keep, got>> /\ UNCHANGED prefill
    BY DEF ResetRead
<1>2. SessionInv /\ Nobody /\ prefill \in Seq(Vocab) /\ link = "none"
    BY <1>1 DEF ChatInv, Calm
<1>3. SessionInv' /\ outbox' = <<>>
    BY <1>1, <1>2, ResetReadStep
<1>4. Nobody'
    BY <1>1, <1>2 DEF Nobody, InTurn
<1>5. sphase # "exited" => \A i \in 1..Len(inbox) : inbox[i].cmd = "SHUTDOWN"
    BY <1>1, <1>2, NoneWaits DEF SessionInv
<1>6. ChatInv'
    BY <1>1, <1>2, <1>3, <1>4, <1>5 DEF ChatInv, Calm, processVars
<1>7. UNCHANGED Promise!vars
    BY <1>1 DEF Promise!vars
<1>8. QED
    BY <1>6, <1>7 DEF Promised

(* Every step keeps the invariant and is one of Completion.                *)
LEMMA ChatStep ==
    ASSUME ChatInv, Next
    PROVE  ChatInv' /\ Promised
<1>1. CASE Process(Serve)
    BY <1>1, ServeKeeps
<1>2. CASE Process(Dies)
    BY <1>2, DiesKeeps
<1>3. ASSUME NEW r \in Requests, NEW a \in Asks, Prompt(r, a)
      PROVE  ChatInv' /\ Promised
    BY <1>3, PromptKeeps
<1>4. CASE Reset
    BY <1>4, ResetKeeps
<1>5. CASE Interrupt
    BY <1>5, InterruptKeeps
<1>6. CASE Quit \/ ResetFails \/ Close \/ Closed
    <2>1. UNCHANGED sessionVars /\ cpc' \in {"closing", "wait", "closed"}
        BY <1>6 DEF Quit, ResetFails, Close, Closed
    <2>2. UNCHANGED Promise!vars
        BY <2>1, SessionSame
    <2>3. QED
        BY <2>1, <2>2 DEF ChatInv, Calm, Promised
<1>7. CASE ResetRead
    BY <1>7, ResetReadKeeps
<1>8. ASSUME NEW r \in Requests, Talk(r)
      PROVE  ChatInv' /\ Promised
    BY <1>8, TalkKeeps
<1>9. CASE Terminated
    <2>1. cpc' = "closed" /\ UNCHANGED sessionVars
        BY <1>9 DEF Terminated, vars
    <2>2. QED
        BY <2>1, SessionSame DEF ChatInv, Calm, Promised
<1>10. QED
    BY <1>1, <1>2, <1>3, <1>4, <1>5, <1>6, <1>7, <1>8, <1>9 DEF Next, Bridge

(* A step that changes nothing keeps it.                                   *)
LEMMA ChatStutters ==
    ASSUME ChatInv, UNCHANGED vars
    PROVE  ChatInv'
<1>1. UNCHANGED <<serviceVars, sessionVars>> /\ UNCHANGED <<cpc, prefill>>
    BY DEF vars
<1>2. Calm => SessionInv'
    BY <1>1, SessionStutters DEF ChatInv
<1>3. Nobody' <=> Nobody
    <2>1. UNCHANGED sessionVars
        BY <1>1
    <2>2. QED
        BY <2>1, SessionSame
<1>4. QED
    BY <1>1, <1>2, <1>3 DEF ChatInv, Calm, serviceVars, processVars

(* While the conversation goes on, the invariant of the session holds,     *)
(* somebody is in a turn only while the bridge is, and a prompt finds an   *)
(* empty pipe.                                                             *)
THEOREM ChatInvariant == Spec => []ChatInv
<1>1. Init => ChatInv
    <2>1. ASSUME Init PROVE ChatInv
        <3>1. SessionInit /\ cpc = "prompt" /\ prefill \in Seq(Vocab)
            BY <2>1, PrefillsAssumption DEF Init
        <3>2. SessionInv /\ Nobody /\ outbox = <<>> /\ inbox = <<>>
            BY <3>1, SessionStarts
        <3>3. link = "none"
            BY <3>1, SingleNode DEF SessionInit, ServiceInit
        <3>4. Len(inbox) = 0
            BY <3>2
        <3>5. \A i \in 1..Len(inbox) : inbox[i].cmd = "SHUTDOWN"
            BY <3>4
        <3>6. QED
            BY <3>1, <3>2, <3>3, <3>5 DEF ChatInv, Calm
    <2>2. QED
        BY <2>1
<1>2. ChatInv /\ [Next]_vars => ChatInv'
    BY ChatStep, ChatStutters
<1>3. QED
    BY <1>1, <1>2, PTL DEF Spec

(* Between two turns, and after /reset, the ids the bridge remembers are   *)
(* those in the cache.                                                     *)
THEOREM ChatAgrees == Spec => []ChatCommitted
<1>1. ChatInv => ChatCommitted
    BY DEF ChatInv, Calm, ChatCommitted, CommittedIsConsumed, SessionInv, Agreed, Nobody,
       Held
<1>2. QED
    BY <1>1, ChatInvariant, PTL

(* The user gets what Completion promises, however turns, resets and       *)
(* interrupts follow one another.                                          *)
THEOREM ChatImplements == Spec => ImplementsCompletion
<1>1. Init => Promise!Init
    <2>1. ASSUME Init PROVE Promise!Init
        <3>1. /\ hpc = [r \in Requests |-> "none"] /\ got = [r \in Requests |-> <<>>]
              /\ ask = [r \in Requests |-> NoAsk]
            BY <2>1 DEF Init, SessionInit
        <3>2. Tokens(<<>>) = <<>>
            BY DEF Tokens
        <3>3. QED
            BY <3>1, <3>2 DEF Promise!Init
    <2>2. QED
        BY <2>1
<1>2. ChatInv /\ [Next]_vars => [Promise!Next]_(Promise!vars)
    <2>1. ASSUME ChatInv, Next PROVE Promise!Next \/ UNCHANGED Promise!vars
        BY <2>1, ChatStep DEF Promised
    <2>2. ASSUME UNCHANGED vars PROVE UNCHANGED Promise!vars
        <3>1. UNCHANGED sessionVars
            BY <2>2 DEF vars
        <3>2. QED
            BY <3>1, SessionSame
    <2>3. QED
        BY <2>1, <2>2
<1>3. QED
    BY <1>1, <1>2, ChatInvariant, PTL DEF Spec, ImplementsCompletion, Promise!Spec
=============================================================================
