---------------------------- MODULE ServerProofs ----------------------------
(***************************************************************************)
(* The HTTP server: what a client gets and what is reused, for any number  *)
(* of requests, any model and any context, as long as no turn has been     *)
(* abandoned (its client hung up, or the parser refused a token) and the   *)
(* worker has not been lost: these two are what MCServerStream and         *)
(* MCServerDrop show to break it.                                          *)
(***************************************************************************)
EXTENDS Server, SessionProofs

(* The lock is held by the one request that is in a turn.                  *)
Holder == /\ lock = NoRequest <=> Nobody
          /\ lock # NoRequest => lock \in Requests /\ InTurn(lock)

(* The server never writes a RESET.                                        *)
NoReset == sphase # "exited" => \A i \in 1..Len(inbox) : inbox[i].cmd # "RESET"

Drained == Nobody => outbox = <<>>
Short == \A r \in Requests : Len(got[r]) <= Cap

ServerInv == /\ SessionInv /\ Holder /\ NoReset /\ Drained /\ Short
             /\ FailureIsEarned /\ gone \subseteq Streaming
             /\ closed \in BOOLEAN

Promised == Promise!Next \/ UNCHANGED Promise!vars

(* While somebody is in a turn no RESET waits.                             *)
LEMMA NotReset ==
    ASSUME Queued, ~Nobody
    PROVE  NoReset
<1>1. \A q \in Requests : CommandOf(q).cmd # "RESET"
    BY DEF CommandOf, Turn, Stats
<1>2. \A i \in 1..Len(inbox) : sphase # "exited" /\ inbox[i].cmd = "RESET" =>
        \E q \in Requests : inbox[i] = CommandOf(q)
    BY DEF Queued
<1>3. QED
    BY <1>1, <1>2 DEF NoReset

(* Nobody's commands are the SHUTDOWN only.                                *)
LEMMA OnlyShutdown ==
    ASSUME ServerInv, Nobody, sphase # "exited"
    PROVE  \A i \in 1..Len(inbox) : inbox[i].cmd = "SHUTDOWN"
<1>1. \A i \in 1..Len(inbox) : inbox[i].cmd # "RESET"
    BY DEF ServerInv, NoReset
<1>2. \A i \in 1..Len(inbox) : inbox[i].cmd # "SHUTDOWN" => inbox[i] = Command("RESET")
    BY DEF ServerInv, SessionInv, Queued, Nobody
<1>3. QED
    BY <1>1, <1>2 DEF Command

(* The prefix that Engine.generate keeps: shared with what is committed,   *)
(* and leaving at least one id to process.                                 *)
LEMMA KeptIs ==
    ASSUME SessionInv, Nobody, outbox = <<>>, sphase # "exited",
           NEW r \in Requests, ask[r] \in Asks
    PROVE  /\ Kept(ask[r].ids) \in Nat /\ Kept(ask[r].ids) < Len(ask[r].ids)
           /\ Kept(ask[r].ids) <= Len(committed)
           /\ \A i \in 1..Kept(ask[r].ids) : ask[r].ids[i] = committed[i]
<1> DEFINE n == Shared(ask[r].ids, committed)
           m == Len(ask[r].ids)
<1>1. ask[r].ids \in Seq(Nat) \ {<<>>}
    BY AsksAssumption
<1>2. m \in Nat \ {0}
    BY <1>1, EmptySeq, LenProperties
<1>3. committed \in Seq(Vocab)
    <2>1. committed = Held /\ pos \in Nat
        BY CapAssumption DEF SessionInv, Agreed, Types
    <2>2. Held \in [1..pos -> Vocab]
        BY DEF Held, SessionInv, PosValid
    <2>3. Held \in Seq(Vocab)
        BY <2>1, <2>2, SegmentIsSeq
    <2>4. QED
        BY <2>1, <2>3
<1>4. /\ n \in 0..m /\ n <= Len(committed)
      /\ \A i \in 1..n : ask[r].ids[i] = committed[i]
    <2>1. ask[r].ids \in Seq(Nat)
        BY <1>1
    <2>2. QED
        BY <1>3, <2>1, SharedIs
<1>5. Len(committed) \in Nat
    BY <1>3, LenProperties
<1>6. Kept(ask[r].ids) = IF n >= m THEN m - 1 ELSE n
    BY DEF Kept
<1> HIDE DEF n, m
<1>7. /\ Kept(ask[r].ids) \in Nat /\ Kept(ask[r].ids) < m /\ Kept(ask[r].ids) <= n
    BY <1>2, <1>4, <1>6
<1>8. 1..Kept(ask[r].ids) \subseteq 1..n
    BY <1>4, <1>7
<1>9. QED
    BY <1>4, <1>5, <1>7, <1>8 DEF m

(* The process serves a command or a token.                                *)
LEMMA ServeKeeps ==
    ASSUME ServerInv, Quiet, Process(Serve)
    PROVE  ServerInv' /\ Promised
<1>1. /\ Serve /\ UNCHANGED sessionVars /\ UNCHANGED <<lock, gone, closed>>
    BY DEF Process, serverVars
<1>2. SessionInv'
    BY <1>1, ServeStep DEF ServerInv, Quiet
<1>3. /\ Nobody' <=> Nobody
      /\ \A r \in Requests : InTurn(r)' <=> InTurn(r)
      /\ UNCHANGED Promise!vars
    <2>1. UNCHANGED sessionVars
        BY <1>1
    <2>2. QED
        BY <2>1, SessionSame
<1>4. Holder'
    BY <1>1, <1>3 DEF ServerInv, Holder
<1>5. NoReset'
    <2>1. inbox \in Seq(Plain \cup Turns) /\ sphase # "exited"
        BY <1>1, ServeReads DEF ServerInv, SessionInv, Types
    <2>2. inbox' = inbox \/ (inbox # <<>> /\ inbox' = Tail(inbox))
        BY <1>1, ServeReads
    <2>3. CASE inbox' = inbox
        BY <2>1, <2>3 DEF ServerInv, NoReset
    <2>4. CASE inbox # <<>> /\ inbox' = Tail(inbox)
        <3>1. /\ Len(inbox) \in Nat /\ Len(Tail(inbox)) = Len(inbox) - 1
              /\ \A i \in 1..Len(Tail(inbox)) : Tail(inbox)[i] = inbox[i + 1]
            BY <2>1, <2>4, HeadTailProperties, LenProperties
        <3>2. \A i \in 1..Len(Tail(inbox)) : i + 1 \in 1..Len(inbox)
            BY <3>1
        <3>3. \A i \in 1..Len(Tail(inbox)) : Tail(inbox)[i].cmd # "RESET"
            BY <2>1, <3>1, <3>2 DEF ServerInv, NoReset
        <3>4. QED
            BY <2>4, <3>3 DEF NoReset
    <2>5. QED
        BY <2>2, <2>3, <2>4
<1>6. Drained'
    <2>1. ASSUME Nobody PROVE outbox' = <<>>
        <3>1. \A i \in 1..Len(inbox) : inbox[i].cmd = "SHUTDOWN"
            BY <1>1, <2>1, ServeReads, OnlyShutdown
        <3>2. Shutdown
            BY <1>1, <2>1, <3>1, IdleServes DEF ServerInv
        <3>3. QED
            BY <2>1, <3>2 DEF ServerInv, Drained, Shutdown
    <2>2. QED
        BY <1>3, <2>1 DEF Drained
<1>7. Short' /\ FailureIsEarned' /\ closed' \in BOOLEAN /\ gone' \subseteq Streaming
    BY <1>1, ServeReads DEF ServerInv, Short, FailureIsEarned, sessionVars
<1>8. QED
    BY <1>2, <1>3, <1>4, <1>5, <1>6, <1>7 DEF ServerInv, Promised

(* The process dies.                                                       *)
LEMMA DiesKeeps ==
    ASSUME ServerInv, Process(Dies)
    PROVE  ServerInv' /\ Promised
<1>1. /\ sphase' = "exited" /\ UNCHANGED sessionVars
      /\ UNCHANGED <<inbox, outbox, pos, kv, turn, tok, produced, link>>
      /\ UNCHANGED <<lock, gone, closed>>
    BY DEF Process, serverVars, Dies
<1>2. SessionInv'
    <2>1. SessionInv /\ inbox' \in Seq(Plain \cup Turns)
        BY <1>1 DEF ServerInv, SessionInv, Types
    <2>2. UNCHANGED <<outbox, pos, kv, turn, tok, produced, link, sessionVars>>
        BY <1>1
    <2>3. QED
        BY <1>1, <2>1, <2>2, ExitStep
<1>3. /\ Nobody' <=> Nobody
      /\ \A r \in Requests : InTurn(r)' <=> InTurn(r)
      /\ UNCHANGED Promise!vars
    BY <1>1, SessionSame
<1>4. Holder' /\ NoReset' /\ Drained'
    BY <1>1, <1>3 DEF ServerInv, Holder, NoReset, Drained
<1>5. Short' /\ FailureIsEarned' /\ closed' \in BOOLEAN /\ gone' \subseteq Streaming
    BY <1>1 DEF ServerInv, Short, FailureIsEarned, sessionVars
<1>6. QED
    BY <1>2, <1>3, <1>4, <1>5 DEF ServerInv, Promised

(* The server is closed: at any moment, without the lock.                  *)
LEMMA CloseKeeps ==
    ASSUME ServerInv, Close
    PROVE  ServerInv' /\ Promised
<1>1. /\ closed' = TRUE /\ UNCHANGED <<outbox, processVars, sessionVars, lock, gone>>
      /\ inbox' = inbox \/ (sphase # "exited" /\ Write(Command("SHUTDOWN")))
    BY DEF Close
<1>2. Command("SHUTDOWN") \in Plain /\ Command("SHUTDOWN").cmd = "SHUTDOWN"
    BY DEF Command, Plain
<1>3. SessionInv'
    <2>1. CASE inbox' = inbox
        BY <1>1, <2>1, SessionStutters DEF ServerInv, serviceVars
    <2>2. CASE Write(Command("SHUTDOWN"))
        BY <1>1, <1>2, <2>2, WriteStep DEF ServerInv
    <2>3. QED
        BY <1>1, <2>1, <2>2
<1>4. /\ Nobody' <=> Nobody
      /\ \A r \in Requests : InTurn(r)' <=> InTurn(r)
      /\ UNCHANGED Promise!vars
    BY <1>1, SessionSame
<1>5. Holder' /\ Drained'
    BY <1>1, <1>4 DEF ServerInv, Holder, Drained
<1>6. NoReset'
    <2>1. CASE inbox' = inbox
        BY <1>1, <2>1 DEF ServerInv, NoReset, processVars
    <2>2. CASE sphase # "exited" /\ Write(Command("SHUTDOWN"))
        <3>1. inbox \in Seq(Plain \cup Turns) /\ Command("SHUTDOWN") \in Plain \cup Turns
            BY <1>2 DEF ServerInv, SessionInv, Types
        <3>2. /\ Len(Append(inbox, Command("SHUTDOWN"))) = Len(inbox) + 1
              /\ \A i \in 1..Len(inbox) : Append(inbox, Command("SHUTDOWN"))[i] = inbox[i]
              /\ Append(inbox, Command("SHUTDOWN"))[Len(inbox) + 1] = Command("SHUTDOWN")
            BY <3>1, AppendProperties
        <3>3. Len(inbox) \in Nat
            BY <3>1, LenProperties
        <3>4. \A i \in 1..Len(inbox') : i \in 1..Len(inbox) \/ i = Len(inbox) + 1
            BY <2>2, <3>2, <3>3 DEF Write
        <3>5. \A i \in 1..Len(inbox') : inbox'[i].cmd # "RESET"
            BY <1>2, <2>2, <3>2, <3>4 DEF Write, ServerInv, NoReset
        <3>6. QED
            BY <3>5 DEF NoReset
    <2>3. QED
        BY <1>1, <2>1, <2>2
<1>7. Short' /\ FailureIsEarned' /\ closed' \in BOOLEAN /\ gone' \subseteq Streaming
    BY <1>1 DEF ServerInv, Short, FailureIsEarned, sessionVars, processVars
<1>8. QED
    BY <1>3, <1>4, <1>5, <1>6, <1>7 DEF ServerInv, Promised

(* A request arrives.                                                      *)
LEMMA ArriveKeeps ==
    ASSUME ServerInv, NEW r \in Requests, NEW a \in Asks, Arrive(r, a)
    PROVE  ServerInv' /\ Promised
<1>1. /\ hpc[r] = "none" /\ Go(r, "waiting") /\ ask' = [ask EXCEPT ![r] = a]
      /\ UNCHANGED <<serviceVars, keep, got, committed>>
      /\ UNCHANGED <<lock, gone, closed>>
    BY DEF Arrive, serverVars
<1>2. SessionInv'
    BY <1>1, AskStep DEF ServerInv
<1>3. Types
    BY DEF ServerInv, SessionInv
<1>4. /\ \A q \in Requests : hpc'[q] = IF q = r THEN "waiting" ELSE hpc[q]
      /\ \A q \in Requests : q # r => ask'[q] = ask[q]
    BY <1>1, <1>3 DEF Go, Types
<1>5. \A q \in Requests : InTurn(q)' <=> InTurn(q)
    BY <1>1, <1>4 DEF InTurn
<1>6. Nobody' <=> Nobody
    BY <1>5 DEF Nobody
<1>7. Holder' /\ NoReset' /\ Drained'
    BY <1>1, <1>5, <1>6 DEF ServerInv, Holder, NoReset, Drained, serviceVars, processVars
<1>8. Short' /\ closed' \in BOOLEAN /\ gone' \subseteq Streaming
    BY <1>1 DEF ServerInv, Short
<1>9. FailureIsEarned'
    BY <1>1, <1>4 DEF ServerInv, FailureIsEarned, serviceVars, processVars
<1>10. Promise!Next
    <2>1. UNCHANGED got
        BY <1>1
    <2>2. QED
        BY <1>1, <1>3, <2>1, AskPromised
<1>11. QED
    BY <1>2, <1>7, <1>8, <1>9, <1>10 DEF ServerInv, Promised

(* The lock is taken and a turn opened.                                    *)
LEMMA AcquireKeeps ==
    ASSUME ServerInv, NEW r \in Requests, Acquire(r)
    PROVE  ServerInv' /\ Promised
<1>1. /\ hpc[r] = "waiting" /\ lock = NoRequest /\ lock' = r
      /\ Open(r, Kept(ask[r].ids)) /\ UNCHANGED <<gone, closed>>
    BY DEF Acquire, Free
<1>2. SessionInv /\ Types /\ ask[r] \in Asks
    BY <1>1 DEF ServerInv, SessionInv, Types
<1>3. Nobody /\ outbox = <<>>
    BY <1>1 DEF ServerInv, Holder, Drained
<1>4. /\ sphase # "exited" /\ Go(r, "stats")
      /\ UNCHANGED <<outbox, processVars, ask, got, committed>>
    BY <1>1 DEF Open
<1>5. \A i \in 1..Len(inbox) : inbox[i].cmd = "SHUTDOWN"
    BY <1>3, <1>4, OnlyShutdown
<1>6. /\ Kept(ask[r].ids) \in Nat /\ Kept(ask[r].ids) < Len(ask[r].ids)
      /\ Kept(ask[r].ids) <= Len(committed)
      /\ \A i \in 1..Kept(ask[r].ids) : ask[r].ids[i] = committed[i]
    BY <1>2, <1>3, <1>4, KeptIs
<1>7. SessionInv'
    BY <1>1, <1>2, <1>3, <1>5, <1>6, OpenStep
<1>8. \A q \in Requests : hpc'[q] = IF q = r THEN "stats" ELSE hpc[q]
    BY <1>2, <1>4 DEF Go, Types
<1>9. \A q \in Requests : InTurn(q)' <=> q = r
    BY <1>3, <1>8 DEF InTurn, Nobody
<1>10. ~Nobody'
    BY <1>9 DEF Nobody
<1>11. Holder'
    BY <1>1, <1>9, <1>10, NamesAssumption DEF Holder
<1>12. NoReset'
    <2>1. CommandOf(r)'.cmd # "RESET"
        BY DEF CommandOf, Turn, Stats
    <2>2. inbox' = Append(inbox, Stats(r)) /\ inbox \in Seq(Plain \cup Turns)
        BY <1>1, <1>2 DEF Open, Write, Types
    <2>3. Stats(r) \in Plain \cup Turns /\ Stats(r).cmd = "STATS"
        BY DEF Stats, Plain
    <2>4. \A i \in 1..Len(inbox') : inbox'[i].cmd # "SHUTDOWN" => inbox'[i] = Stats(r)
        BY <1>5, <2>2, <2>3, QueueOne
    <2>5. QED
        BY <2>3, <2>4 DEF NoReset
<1>13. Drained' /\ Short' /\ closed' \in BOOLEAN /\ gone' \subseteq Streaming
    BY <1>1, <1>4, <1>10 DEF ServerInv, Drained, Short
<1>14. FailureIsEarned'
    BY <1>4, <1>8 DEF ServerInv, FailureIsEarned, processVars
<1>15. UNCHANGED Promise!vars
    <2>1. UNCHANGED <<ask, got>>
        BY <1>4
    <2>2. QED
        BY <1>1, <1>2, <1>4, <2>1, SilentPromised
<1>16. QED
    BY <1>7, <1>11, <1>12, <1>13, <1>14, <1>15 DEF ServerInv, Promised

(* A request is rejected before its turn.                                  *)
LEMMA RejectedKeeps ==
    ASSUME ServerInv, NEW r \in Requests, Rejected(r)
    PROVE  ServerInv' /\ Promised
<1>1. /\ hpc[r] = "waiting" /\ lock = NoRequest /\ Raise(r)
      /\ UNCHANGED serviceVars /\ UNCHANGED <<lock, gone, closed>>
      /\ ~Fits(r) \/ sphase = "exited"
    BY DEF Rejected, Free, OpenFails, serverVars
<1>2. SessionInv /\ Types /\ ask[r] \in Asks /\ Nobody
    BY <1>1 DEF ServerInv, SessionInv, Types, Holder
<1>3. SessionInv'
    BY <1>1, <1>2, DeclineStep
<1>4. /\ \A q \in Requests : hpc'[q] = IF q = r THEN "failed" ELSE hpc[q]
      /\ UNCHANGED <<ask, got>>
    BY <1>1, <1>2 DEF Raise, Go, Types
<1>5. \A q \in Requests : InTurn(q)' <=> InTurn(q)
    BY <1>1, <1>4 DEF InTurn
<1>6. Nobody' <=> Nobody
    BY <1>5 DEF Nobody
<1>7. Holder' /\ NoReset' /\ Drained'
    BY <1>1, <1>5, <1>6 DEF ServerInv, Holder, NoReset, Drained, serviceVars, processVars
<1>8. Short' /\ closed' \in BOOLEAN /\ gone' \subseteq Streaming
    BY <1>1, <1>4 DEF ServerInv, Short
<1>9. FailureIsEarned'
    <2>1. Unservable(ask[r]) \/ sphase = "exited"
        <3>1. Len(ask[r].ids) \in Nat /\ Cap \in Nat
            BY <1>2, AsksAssumption, CapAssumption, LenProperties
        <3>2. QED
            BY <1>1, <3>1 DEF Fits, Unservable
    <2>2. QED
        BY <1>1, <1>4, <2>1 DEF ServerInv, FailureIsEarned, serviceVars, processVars
<1>10. Promise!Next
    BY <1>1, <1>2, FailPromised DEF Raise
<1>11. QED
    BY <1>3, <1>7, <1>8, <1>9, <1>10 DEF ServerInv, Promised

(* A line of a turn is read.                                               *)
LEMMA AdvanceKeeps ==
    ASSUME ServerInv, NEW r \in Requests, Advance(r)
    PROVE  ServerInv' /\ Promised
<1>1. Advances(r) /\ UNCHANGED <<lock, gone, closed>> /\ SessionInv
    BY DEF Advance, serverVars, ServerInv
<1>2. /\ SessionInv' /\ InTurn(r) /\ InTurn(r)'
      /\ \A q \in Requests : q # r => hpc'[q] = hpc[q]
      /\ Promise!Next \/ UNCHANGED Promise!vars
    BY <1>1, AdvancesStep
<1>3. \A q \in Requests : InTurn(q)' <=> InTurn(q)
    BY <1>2 DEF InTurn
<1>4. ~Nobody /\ ~Nobody'
    BY <1>2 DEF Nobody
<1>5. Holder'
    BY <1>1, <1>3, <1>4 DEF ServerInv, Holder
<1>6. NoReset'
    <2>1. Queued'
        BY <1>2 DEF SessionInv
    <2>2. \A q \in Requests : CommandOf(q)'.cmd # "RESET"
        BY DEF CommandOf, Turn, Stats
    <2>3. \A i \in 1..Len(inbox') : sphase' # "exited" /\ inbox'[i].cmd = "RESET" =>
            \E q \in Requests : inbox'[i] = CommandOf(q)'
        BY <1>4, <2>1 DEF Queued
    <2>4. QED
        BY <2>2, <2>3 DEF NoReset
<1>7. Drained' /\ closed' \in BOOLEAN /\ gone' \subseteq Streaming
    BY <1>1, <1>4 DEF Drained, ServerInv
<1>8. Short'
    <2>1. CASE TokenRead(r)
        <3>1. Said(r)' = Said(r)
            BY <1>1, <2>1, TokenReadStep
        <3>2. /\ ask[r] \in Asks /\ Said(r) \in Seq(Vocab \cup {NoToken})
              /\ Generated(ask[r], Said(r))
            <4>1. ask[r] \in Asks
                BY <1>1, <1>2 DEF SessionInv, Types, InTurn
            <4>2. QED
                BY <1>1, <1>2, <4>1, ContextIs DEF SessionInv, Answering
        <3>3. Len(Said(r)) <= Cap
            BY <3>2, GeneratedFits
        <3>4. got'[r] \in Seq(Got) /\ outbox' \in Seq(Lines)
            BY <1>2 DEF SessionInv, Types
        <3>5. /\ Len(got'[r]) \in Nat /\ Unread(outbox') \in 0..Len(outbox')
              /\ Len(outbox') \in Nat
              /\ Len(Out(got'[r], outbox')) = Len(got'[r]) + Unread(outbox')
            BY <3>4, OutIs
        <3>6. Len(Said(r)) = Len(got'[r]) + Unread(outbox')
            BY <3>1, <3>5 DEF Said
        <3>7. Len(got'[r]) <= Cap
            BY <3>3, <3>5, <3>6, CapAssumption
        <3>8. \A q \in Requests : q # r => got'[q] = got[q]
            BY <1>1, <2>1 DEF TokenRead, SessionInv, Types
        <3>9. QED
            BY <3>7, <3>8 DEF ServerInv, Short
    <2>2. CASE StatsRead(r) \/ DoneRead(r)
        BY <2>2 DEF ServerInv, Short, StatsRead, DoneRead
    <2>3. QED
        BY <1>1, <2>1, <2>2 DEF Advances
<1>9. FailureIsEarned'
    <2>1. UNCHANGED <<ask, processVars>>
        BY <1>1 DEF Advances, StatsRead, TokenRead, DoneRead
    <2>2. \A q \in Requests : hpc'[q] = "failed" => hpc[q] = "failed"
        BY <1>2 DEF InTurn
    <2>3. QED
        BY <2>1, <2>2 DEF ServerInv, FailureIsEarned, processVars
<1>10. QED
    BY <1>2, <1>5, <1>6, <1>7, <1>8, <1>9 DEF ServerInv, Promised

(* A turn returns.                                                         *)
LEMMA FinishKeeps ==
    ASSUME ServerInv, NEW r \in Requests, Finish(r)
    PROVE  ServerInv' /\ Promised
<1>1. AfterRead(r) /\ lock' = NoRequest /\ UNCHANGED <<gone, closed>> /\ SessionInv
    BY DEF Finish, Released, ServerInv
<1>2. SessionInv' /\ Nobody' /\ outbox' = <<>>
    BY <1>1, AfterReadStep
<1>3. Promise!Next
    BY <1>1, AnswerPromised
<1>4. UNCHANGED <<inbox, processVars, ask, got>> /\ Go(r, "answered")
    BY <1>1 DEF AfterRead
<1>5. \A q \in Requests : hpc'[q] = IF q = r THEN "answered" ELSE hpc[q]
    BY <1>1, <1>4 DEF Go, SessionInv, Types
<1>6. Holder' /\ Drained'
    BY <1>1, <1>2, NamesAssumption DEF Holder, Drained
<1>7. NoReset' /\ Short' /\ FailureIsEarned' /\ closed' \in BOOLEAN /\ gone' \subseteq Streaming
    BY <1>1, <1>4, <1>5 DEF ServerInv, NoReset, Short, FailureIsEarned, processVars
<1>8. QED
    BY <1>2, <1>3, <1>6, <1>7 DEF ServerInv, Promised

(* A turn that is not abandoned raises.                                    *)
LEMMA BreakKeeps ==
    ASSUME ServerInv, Quiet', NEW r \in Requests, Break(r)
    PROVE  ServerInv' /\ Promised
<1>1. /\ Unexpected(r) \/ EndOfFile(r) \/ BrokenPipe(r)
      /\ lock' = NoRequest /\ UNCHANGED <<gone, closed>> /\ SessionInv
    <2>1. ~TokenRefused(r, r \in gone)
        BY DEF TokenRefused, Go, Quiet, ServerInv, SessionInv, Types
    <2>2. QED
        BY <2>1 DEF Break, Breaks, Released, ServerInv
<1>2. /\ SessionInv' /\ Nobody' /\ outbox' = <<>>
      /\ Refusable(ask[r]) \/ sphase = "exited"
    BY <1>1, BreaksStep
<1>3. InTurn(r) /\ Raise(r) /\ UNCHANGED <<inbox, processVars>>
    BY <1>1, BreaksOnly
<1>4. /\ \A q \in Requests : hpc'[q] = IF q = r THEN "failed" ELSE hpc[q]
      /\ UNCHANGED <<ask, got>>
    BY <1>1, <1>3 DEF Raise, Go, SessionInv, Types
<1>5. Promise!Next
    BY <1>1, <1>3, FailPromised DEF SessionInv, Raise
<1>6. Holder' /\ Drained'
    BY <1>1, <1>2, NamesAssumption DEF Holder, Drained
<1>7. NoReset' /\ Short' /\ closed' \in BOOLEAN /\ gone' \subseteq Streaming
    BY <1>1, <1>3, <1>4 DEF ServerInv, NoReset, Short, processVars
<1>8. FailureIsEarned'
    <2>1. Unservable(ask[r]) \/ sphase = "exited"
        BY <1>2 DEF Unservable, Refusable
    <2>2. QED
        BY <1>3, <1>4, <2>1 DEF ServerInv, FailureIsEarned, processVars
<1>9. QED
    BY <1>2, <1>5, <1>6, <1>7, <1>8 DEF ServerInv, Promised

-----------------------------------------------------------------------------
(* Every step. *)

(* A lost worker and an abandoned turn are for good.                       *)
LEMMA LinkStaysDown ==
    ASSUME Next, link = "down"
    PROVE  link' = "down"
<1>1. CASE Process(Serve)
    BY <1>1 DEF Process, Serve, ServeStats, ServeReset, Shutdown, BadHeader, Refuse,
       BeginTurn, Emit, EndTurn, Forward, processVars
<1>2. CASE Process(LinkDrops) \/ Process(PrefillDrops) \/ Process(Dies) \/ Close
    BY <1>2 DEF Process, LinkDrops, PrefillDrops, Dies, Close, processVars
<1>3. CASE \E r \in Requests : (\E a \in Asks : Arrive(r, a)) \/ Leave(r)
                               \/ Acquire(r) \/ Rejected(r) \/ Finish(r)
    BY <1>3 DEF Arrive, Leave, Acquire, Open, Rejected, OpenFails, Finish, AfterRead,
       serviceVars, processVars
<1>4. CASE \E r \in Requests : Advance(r)
    BY <1>4 DEF Advance, Advances, StatsRead, TokenRead, DoneRead, processVars
<1>5. CASE \E r \in Requests : Break(r)
    BY <1>5 DEF Break, Breaks, TokenRefused, Unexpected, EndOfFile, BrokenPipe,
       serviceVars, processVars
<1>6. QED
    BY <1>1, <1>2, <1>3, <1>4, <1>5 DEF Next, Handle

(* ... an abandoned turn.                                                  *)
LEMMA AbandonedStays ==
    ASSUME Next, NEW q \in Requests, hpc[q] = "abandoned"
    PROVE  hpc'[q] = "abandoned"
<1>1. CASE Process(Serve) \/ Process(LinkDrops) \/ Process(PrefillDrops)
           \/ Process(Dies) \/ Close
    BY <1>1 DEF Process, Close, sessionVars
<1>2. ASSUME NEW r \in Requests,
             (\E a \in Asks : Arrive(r, a)) \/ Leave(r) \/ Handle(r)
      PROVE  \/ UNCHANGED hpc
             \/ /\ hpc[r] \in {"none", "waiting", "stats", "turn", "after"}
                /\ \E at \in Places : hpc' = [hpc EXCEPT ![r] = at]
    BY <1>2 DEF Places, Arrive, Leave, Handle, Acquire, Open, Rejected, OpenFails,
       Advance, Advances, StatsRead, TokenRead, DoneRead, Finish, AfterRead, Break,
       Breaks, TokenRefused, Unexpected, EndOfFile, BrokenPipe, Raise, Go, Waits,
       InTurn, sessionVars
<1>3. ASSUME NEW r \in Requests, NEW at \in Places,
             hpc[r] \in {"none", "waiting", "stats", "turn", "after"},
             hpc' = [hpc EXCEPT ![r] = at]
      PROVE  hpc'[q] = "abandoned"
    BY <1>3
<1>4. QED
    BY <1>1, <1>2, <1>3 DEF Next

(* What is quiet has always been.                                          *)
LEMMA QuietBefore ==
    ASSUME Next, Quiet'
    PROVE  Quiet
BY LinkStaysDown, AbandonedStays DEF Quiet

(* A client that hangs up changes nothing until something is written to it.*)
LEMMA LeaveKeeps ==
    ASSUME ServerInv, NEW r \in Requests, Leave(r)
    PROVE  ServerInv' /\ Promised
<1>1. /\ gone' \subseteq Streaming
      /\ UNCHANGED <<serviceVars, sessionVars, lock, closed>>
    BY DEF Leave, ServerInv
<1>2. SessionInv'
    BY <1>1, SessionStutters DEF ServerInv
<1>3. /\ Nobody' <=> Nobody
      /\ \A q \in Requests : InTurn(q)' <=> InTurn(q)
      /\ UNCHANGED Promise!vars
    BY <1>1, SessionSame
<1>4. Holder'
    BY <1>1, <1>3 DEF ServerInv, Holder
<1>5. NoReset' /\ Drained' /\ Short' /\ FailureIsEarned' /\ closed' \in BOOLEAN
    BY <1>1, <1>3 DEF ServerInv, NoReset, Drained, Short, FailureIsEarned, serviceVars,
       processVars, sessionVars
<1>6. QED
    BY <1>1, <1>2, <1>3, <1>4, <1>5 DEF ServerInv, Promised

(* Every step keeps the invariant and is one of Completion.                *)
LEMMA ServerStep ==
    ASSUME ServerInv, Next, Quiet'
    PROVE  ServerInv' /\ Promised
<1>1. Quiet
    BY QuietBefore
<1>2. CASE Process(Serve)
    BY <1>1, <1>2, ServeKeeps
<1>3. CASE Process(LinkDrops) \/ Process(PrefillDrops)
    BY <1>3 DEF Process, LinkDrops, PrefillDrops, Quiet
<1>4. CASE Process(Dies)
    BY <1>4, DiesKeeps
<1>5. CASE Close
    BY <1>5, CloseKeeps
<1>6. ASSUME NEW r \in Requests, NEW a \in Asks, Arrive(r, a)
      PROVE  ServerInv' /\ Promised
    BY <1>6, ArriveKeeps
<1>7. ASSUME NEW r \in Requests, Leave(r)
      PROVE  ServerInv' /\ Promised
    BY <1>7, LeaveKeeps
<1>8. ASSUME NEW r \in Requests, Handle(r)
      PROVE  ServerInv' /\ Promised
    <2>1. CASE Acquire(r)
        BY <2>1, AcquireKeeps
    <2>2. CASE Rejected(r)
        BY <2>2, RejectedKeeps
    <2>3. CASE Advance(r)
        BY <2>3, AdvanceKeeps
    <2>4. CASE Finish(r)
        BY <2>4, FinishKeeps
    <2>5. CASE Break(r)
        BY <2>5, BreakKeeps
    <2>6. QED
        BY <1>8, <2>1, <2>2, <2>3, <2>4, <2>5 DEF Handle
<1>9. QED
    BY <1>2, <1>3, <1>4, <1>5, <1>6, <1>7, <1>8 DEF Next

(* A step that changes nothing keeps it.                                   *)
LEMMA ServerStutters ==
    ASSUME ServerInv, UNCHANGED vars
    PROVE  ServerInv'
<1> USE DEF vars, serverVars
<1>1. SessionInv'
    BY SessionStutters DEF ServerInv
<1>2. /\ Nobody' <=> Nobody
      /\ \A r \in Requests : InTurn(r)' <=> InTurn(r)
    <2>1. UNCHANGED sessionVars
        OBVIOUS
    <2>2. QED
        BY <2>1, SessionSame
<1>3. Holder'
    BY <1>2 DEF ServerInv, Holder
<1>4. NoReset' /\ Drained' /\ Short' /\ FailureIsEarned' /\ closed' \in BOOLEAN /\ gone' \subseteq Streaming
    BY <1>2 DEF ServerInv, NoReset, Drained, Short, FailureIsEarned, serviceVars,
       processVars, sessionVars
<1>5. QED
    BY <1>1, <1>3, <1>4 DEF ServerInv

(* It holds at the start.                                                  *)
LEMMA ServerStarts ==
    ASSUME Init
    PROVE  ServerInv
<1>1. SessionInit /\ lock = NoRequest /\ gone = {} /\ closed = FALSE
    BY DEF Init
<1>2. SessionInv /\ Nobody /\ outbox = <<>> /\ inbox = <<>>
    BY <1>1, SessionStarts
<1>3. /\ hpc = [r \in Requests |-> "none"] /\ got = [r \in Requests |-> <<>>]
      /\ Len(inbox) = 0
    BY <1>1, <1>2 DEF SessionInit
<1>4. Short
    <2>1. \A r \in Requests : Len(got[r]) = 0
        BY <1>3
    <2>2. 0 <= Cap
        BY CapAssumption
    <2>3. QED
        BY <2>1, <2>2 DEF Short
<1>5. FailureIsEarned /\ Holder /\ Drained /\ NoReset
    BY <1>1, <1>2, <1>3 DEF FailureIsEarned, Holder, Drained, NoReset
<1>6. QED
    BY <1>1, <1>2, <1>4, <1>5 DEF ServerInv

-----------------------------------------------------------------------------
(* The theorems. *)

(* As long as no turn has been abandoned and the worker is there, the      *)
(* invariant of the session holds and the lock is held by the request in   *)
(* its turn.                                                               *)
THEOREM ServerInvariant == Spec => [](Quiet => ServerInv)
<1>1. Init => (Quiet => ServerInv)
    BY ServerStarts
<1>2. (Quiet => ServerInv) /\ [Next]_vars => (Quiet => ServerInv)'
    <2>1. ASSUME Quiet => ServerInv, Next, Quiet' PROVE ServerInv'
        <3>1. Quiet
            BY <2>1, QuietBefore
        <3>2. QED
            BY <2>1, <3>1, ServerStep
    <2>2. ASSUME Quiet => ServerInv, UNCHANGED vars, Quiet' PROVE ServerInv'
        <3>1. Quiet
            BY <2>2 DEF Quiet, vars, sessionVars, serviceVars, processVars
        <3>2. QED
            BY <2>2, <3>1, ServerStutters
    <2>3. QED
        BY <2>1, <2>2
<1>3. QED
    BY <1>1, <1>2, PTL DEF Spec

(* The variables keep their types, answers fit the context.                *)
THEOREM ServerTypes == Spec => [](Quiet => TypeOK)
<1>1. (Quiet => ServerInv) => (Quiet => TypeOK)
    <2>1. ASSUME Quiet, ServerInv PROVE TypeOK
        <3>1. SessionTypeOK
            BY <2>1 DEF ServerInv, SessionInv, Types, Short, SessionTypeOK, ServiceTypeOK
        <3>2. lock \in Requests \cup {NoRequest} /\ gone \subseteq Streaming
              /\ closed \in BOOLEAN
            BY <2>1 DEF ServerInv, Holder
        <3>3. QED
            BY <3>1, <3>2 DEF TypeOK
    <2>2. QED
        BY <2>1
<1>2. QED
    BY <1>1, ServerInvariant, PTL

(* A client gets only tokens generated for its own request, although every *)
(* request reads from the same pipe.                                       *)
THEOREM ServerOwnAnswer == Spec => []QuietOwnAnswer
<1>1. ServerInv => OwnAnswer
    <2>1. ASSUME ServerInv, NEW r \in Requests, NEW i \in DOMAIN got[r]
          PROVE  got[r][i].req = r
        <3>1. got[r] \in Seq(Got)
            BY <2>1 DEF ServerInv, SessionInv, Types
        <3>2. i \in 1..Len(got[r])
            BY <3>1, LenProperties
        <3>3. QED
            BY <2>1, <3>2 DEF ServerInv, SessionInv, Answering
    <2>2. QED
        BY <2>1 DEF OwnAnswer
<1>2. (Quiet => ServerInv) => QuietOwnAnswer
    BY <1>1 DEF QuietOwnAnswer
<1>3. QED
    BY <1>2, ServerInvariant, PTL

(* Between two turns the ids the server remembers are those in the cache.  *)
THEOREM ServerCommitted == Spec => []QuietCommitted
<1>1. ServerInv => CommittedIsConsumed
    BY DEF ServerInv, Drained, SessionInv, Agreed, Nobody, CommittedIsConsumed, Held
<1>2. (Quiet => ServerInv) => QuietCommitted
    BY <1>1 DEF QuietCommitted
<1>3. QED
    BY <1>2, ServerInvariant, PTL

(* While a request is decoded the cache starts with its whole prompt,      *)
(* whatever was reused of earlier turns.                                   *)
THEOREM ServerPrompt == Spec => []QuietPrompt
<1>1. ServerInv => PromptInCache
    <2>1. ASSUME ServerInv, sphase \in {"emit", "forward"}
          PROVE  /\ pos >= Len(ask[turn.req].ids)
                 /\ \A i \in DOMAIN ask[turn.req].ids : kv[i] = ask[turn.req].ids[i]
        <3>1. PICK r \in Requests : r = turn.req
            BY <2>1 DEF ServerInv, SessionInv, Serving
        <3>2. /\ hpc[r] = "turn" /\ produced = Len(Said(r))
              /\ sphase = "emit" => /\ pos = Len(ask[r].ids) + Len(Said(r))
                                    /\ Held = Text(ask[r], Said(r), Len(Said(r)))
              /\ sphase = "forward" =>
                   /\ Len(Said(r)) > 0 /\ pos = Len(ask[r].ids) + Len(Said(r)) - 1
                   /\ Held = Text(ask[r], Said(r), Len(Said(r)) - 1)
            BY <2>1, <3>1 DEF ServerInv, SessionInv, Serving
        <3>3. ask[r] \in Asks /\ produced \in Nat /\ pos \in Nat
            BY <2>1, <3>2, CapAssumption DEF ServerInv, SessionInv, Types
        <3>4. ask[r].ids \in Seq(Nat) /\ Len(ask[r].ids) \in Nat
              /\ DOMAIN ask[r].ids = 1..Len(ask[r].ids)
            BY <3>3, AsksAssumption, LenProperties
        <3>5. PICK j \in Nat : /\ pos = Len(ask[r].ids) + j
                               /\ Held = Text(ask[r], Said(r), j)
            <4>1. CASE sphase = "emit"
                BY <3>2, <3>3, <4>1
            <4>2. CASE sphase = "forward"
                <5>1. Len(Said(r)) - 1 \in Nat
                      /\ pos = Len(ask[r].ids) + (Len(Said(r)) - 1)
                    BY <3>2, <3>3, <3>4, <4>2
                <5>2. QED
                    BY <3>2, <4>2, <5>1
            <4>3. QED
                BY <2>1, <4>1, <4>2
        <3>6. pos >= Len(ask[r].ids)
            BY <3>3, <3>4, <3>5
        <3>7. ASSUME NEW i \in 1..Len(ask[r].ids) PROVE kv[i] = ask[r].ids[i]
            <4>1. i \in 1..pos /\ i \in 1..(Len(ask[r].ids) + j) /\ i <= Len(ask[r].ids)
                BY <3>3, <3>4, <3>5
            <4>2. Held[i] = kv[i] /\ Text(ask[r], Said(r), j)[i] = ask[r].ids[i]
                BY <4>1 DEF Held, Text
            <4>3. QED
                BY <3>5, <4>2
        <3>8. QED
            BY <3>1, <3>4, <3>6, <3>7
    <2>2. QED
        BY <2>1 DEF PromptInCache
<1>2. (Quiet => ServerInv) => QuietPrompt
    BY <1>1 DEF QuietPrompt
<1>3. QED
    BY <1>2, ServerInvariant, PTL

(* A request fails only for what it asks or because the process has gone.  *)
THEOREM ServerFailure == Spec => []QuietFailure
<1>1. ServerInv => FailureIsEarned
    BY DEF ServerInv
<1>2. (Quiet => ServerInv) => QuietFailure
    BY <1>1 DEF QuietFailure
<1>3. QED
    BY <1>2, ServerInvariant, PTL

(* Only a refused token leaves a turn in the middle of its lines.          *)
LEMMA OnlyRefused ==
    ASSUME ServerInv, Next, NEW q \in Requests, hpc[q] # "abandoned",
           hpc'[q] = "abandoned"
    PROVE  TokenRefused(q, q \in gone)
<1>1. hpc \in [Requests -> Places]
    BY DEF ServerInv, SessionInv, Types
<1>2. CASE Process(Serve) \/ Process(LinkDrops) \/ Process(PrefillDrops)
           \/ Process(Dies) \/ Close
    BY <1>2 DEF Process, Close, sessionVars
<1>3. ASSUME NEW r \in Requests, ~TokenRefused(r, r \in gone),
             (\E a \in Asks : Arrive(r, a)) \/ Leave(r) \/ Handle(r)
      PROVE  \/ UNCHANGED hpc
             \/ \E at \in Places \ {"abandoned"} : hpc' = [hpc EXCEPT ![r] = at]
    BY <1>3 DEF Places, Arrive, Leave, Handle, Acquire, Open, Rejected, OpenFails,
       Advance, Advances, StatsRead, TokenRead, DoneRead, Finish, AfterRead, Break,
       Breaks, Unexpected, EndOfFile, BrokenPipe, Raise, Go, sessionVars
<1>4. ASSUME NEW r \in Requests, TokenRefused(r, r \in gone)
      PROVE  q = r
    BY <1>1, <1>4 DEF TokenRefused, Go
<1>5. ASSUME NEW r \in Requests, NEW at \in Places \ {"abandoned"},
             hpc' = [hpc EXCEPT ![r] = at]
      PROVE  FALSE
    BY <1>1, <1>5
<1>6. ASSUME NEW r \in Requests,
             (\E a \in Asks : Arrive(r, a)) \/ Leave(r) \/ Handle(r)
      PROVE  TokenRefused(q, q \in gone)
    <2>1. CASE TokenRefused(r, r \in gone)
        BY <1>4, <2>1
    <2>2. CASE ~TokenRefused(r, r \in gone)
        BY <1>3, <1>5, <1>6, <2>2
    <2>3. QED
        BY <2>1, <2>2
<1>7. QED
    BY <1>2, <1>6 DEF Next

(* Without streaming clients and a worker, and with a parser that takes    *)
(* every token of the vocabulary, nothing else is assumed.                 *)
THEOREM QuietAlways ==
    ASSUME Streaming = {}, Unparsed = {}, Links = {"none"}
    PROVE  Spec => [](Quiet /\ ServerInv)
<1> DEFINE Apart == link = "none" /\ Quiet /\ ServerInv
<1>1. Init => Apart
    BY ServerStarts DEF Init, SessionInit, ServiceInit, Quiet
<1>2. Apart /\ [Next]_vars => Apart'
    <2>1. ASSUME Apart, Next PROVE link' = "none"
        <3>1. CASE Process(Serve)
            BY <2>1, <3>1 DEF Process, Serve, ServeStats, ServeReset, Shutdown, BadHeader,
               Refuse, BeginTurn, Emit, EndTurn, Forward, processVars
        <3>2. CASE Process(LinkDrops) \/ Process(PrefillDrops) \/ Process(Dies) \/ Close
            BY <2>1, <3>2 DEF Process, LinkDrops, PrefillDrops, Dies, Close, processVars
        <3>3. CASE \E r \in Requests : (\E a \in Asks : Arrive(r, a)) \/ Leave(r)
                                       \/ Acquire(r) \/ Rejected(r) \/ Finish(r)
            BY <2>1, <3>3 DEF Arrive, Leave, Acquire, Open, Rejected, OpenFails, Finish,
               AfterRead, serviceVars, processVars
        <3>4. CASE \E r \in Requests : Advance(r)
            BY <2>1, <3>4 DEF Advance, Advances, StatsRead, TokenRead, DoneRead, processVars
        <3>5. CASE \E r \in Requests : Break(r)
            BY <2>1, <3>5 DEF Break, Breaks, TokenRefused, Unexpected, EndOfFile, BrokenPipe,
               serviceVars, processVars
        <3>6. QED
            BY <2>1, <3>1, <3>2, <3>3, <3>4, <3>5 DEF Next, Handle
    <2>2. ASSUME ServerInv, NEW r \in Requests, TokenRefused(r, r \in gone)
          PROVE  FALSE
        <3>1. /\ hpc[r] = "turn" /\ outbox # <<>> /\ Head(outbox).line = "TOKEN"
              /\ Head(outbox).tok = NoToken
            BY <2>2 DEF TokenRefused, Waits, ServerInv
        <3>2. outbox \in Seq(Lines)
            BY <2>2 DEF ServerInv, SessionInv, Types
        <3>3. Len(outbox) \in Nat \ {0} /\ Head(outbox) = outbox[1]
            BY <3>1, <3>2, EmptySeq
        <3>4. 1 \in 1..Len(outbox)
            BY <3>3
        <3>5. outbox[1].tok \in Vocab
            BY <2>2, <3>1, <3>3, <3>4 DEF ServerInv, SessionInv, Spoken
        <3>6. QED
            BY <3>1, <3>3, <3>5, VocabAssumption DEF NoToken
    <2>3. ASSUME Apart, Next PROVE Apart'
        <3>1. Quiet'
            BY <2>1, <2>2, <2>3, OnlyRefused DEF Quiet
        <3>2. QED
            BY <2>1, <2>3, <3>1, ServerStep
    <2>4. ASSUME Apart, UNCHANGED vars PROVE Apart'
        <3>1. link' = "none" /\ Quiet'
            BY <2>4 DEF vars, Quiet, sessionVars, serviceVars, processVars
        <3>2. QED
            BY <2>4, <3>1, ServerStutters
    <2>5. QED
        BY <2>3, <2>4
<1>3. Apart => Quiet /\ ServerInv
    OBVIOUS
<1> HIDE DEF Apart
<1>4. QED
    BY <1>1, <1>2, <1>3, PTL DEF Spec

(* At the start nothing has been asked.                                    *)
LEMMA PromiseStarts ==
    ASSUME Init
    PROVE  Promise!Init
<1>1. /\ hpc = [r \in Requests |-> "none"] /\ got = [r \in Requests |-> <<>>]
      /\ ask = [r \in Requests |-> NoAsk]
    BY DEF Init, SessionInit
<1>2. Tokens(<<>>) = <<>>
    BY DEF Tokens
<1>3. QED
    BY <1>1, <1>2 DEF Promise!Init

(* A step that changes nothing is one of Completion.                       *)
LEMMA PromiseStutters ==
    ASSUME UNCHANGED vars
    PROVE  UNCHANGED Promise!vars
<1>1. UNCHANGED sessionVars
    BY DEF vars
<1>2. QED
    BY <1>1, SessionSame

(* As long as no turn has been abandoned and the worker is there, each     *)
(* client gets what Completion promises: its answer, token by token, each  *)
(* one the model may produce after its prompt and the answer so far,       *)
(* whatever the cache holds of others.                                     *)
THEOREM ServerImplements == Spec => QuietCompletion
<1>1. Init => Promise!Init
    BY PromiseStarts
<1>2. (Quiet => ServerInv) /\ [Next]_vars => [Quiet' => Promise!Next]_(Promise!vars)
    <2>1. ASSUME Quiet => ServerInv, Next, Quiet'
          PROVE  Promise!Next \/ UNCHANGED Promise!vars
        BY <2>1, QuietBefore, ServerStep DEF Promised
    <2>2. ASSUME UNCHANGED vars
          PROVE  UNCHANGED Promise!vars
        BY <2>2, PromiseStutters
    <2>3. QED
        BY <2>1, <2>2
<1>3. QED
    BY <1>1, <1>2, ServerInvariant, PTL DEF Spec, QuietCompletion

(* With nothing that abandons a turn, Completion is implemented outright.  *)
THEOREM ServerCompletes ==
    ASSUME Streaming = {}, Unparsed = {}, Links = {"none"}
    PROVE  Spec => ImplementsCompletion
<1>1. Init => Promise!Init
    BY PromiseStarts
<1>2. (Quiet /\ ServerInv) /\ (Quiet /\ ServerInv)' /\ [Next]_vars
        => [Promise!Next]_(Promise!vars)
    <2>1. ASSUME ServerInv, Quiet', Next
          PROVE  Promise!Next \/ UNCHANGED Promise!vars
        BY <2>1, ServerStep DEF Promised
    <2>2. ASSUME UNCHANGED vars
          PROVE  UNCHANGED Promise!vars
        BY <2>2, PromiseStutters
    <2>3. QED
        BY <2>1, <2>2
<1>3. Spec => [](Quiet /\ ServerInv)
    BY QuietAlways
<1>4. QED
    BY <1>1, <1>2, <1>3, PTL DEF Spec, ImplementsCompletion, Promise!Spec

-----------------------------------------------------------------------------
(* What holds whatever happens: when clients hang up the pipe may carry    *)
(* lines of one request to another, but the cache stays the service's own. *)

Loose == [tok : Vocab \cup {NoToken}, req : Requests \cup {NoRequest}]

Pipes == inbox \in Seq(Plain \cup Turns) /\ outbox \in Seq(Lines)

Front ==
    /\ hpc \in [Requests -> Places]
    /\ ask \in [Requests -> Asks \cup {NoAsk}]
    /\ \A r \in Requests : hpc[r] # "none" => ask[r] \in Asks
    /\ keep \in Nat /\ got \in [Requests -> Seq(Loose)] /\ committed \in Seq(Int)

Cache ==
    /\ sphase \in {"read", "emit", "forward", "exited"} /\ pos \in 0..Cap
    /\ kv \in [Positions -> Vocab \cup {NoToken, Empty, Lost}]
    /\ turn.req \in Requests \cup {NoRequest} /\ tok \in Vocab \cup {NoToken}
    /\ sphase = "forward" => pos < Cap
    /\ link # "down" => PosValid /\ (sphase \in {"emit", "forward"} => tok \in Vocab)

Wired == Pipes /\ Front /\ Cache

(* The rest of a pipe, and a pipe with one more.                           *)
LEMMA Piped ==
    ASSUME NEW S, NEW s \in Seq(S)
    PROVE  /\ s # <<>> => Tail(s) \in Seq(S) /\ Head(s) \in S
           /\ \A x \in S : Append(s, x) \in Seq(S)
<1>1. ASSUME s # <<>> PROVE Tail(s) \in Seq(S) /\ Head(s) \in S
    BY <1>1, HeadTailProperties
<1>2. \A x \in S : Append(s, x) \in Seq(S)
    BY AppendProperties
<1>3. QED
    BY <1>1, <1>2

(* A TURN is served as the cache stands, whoever asked for it.             *)
LEMMA WiredBegins ==
    ASSUME Wired, BeginTurn
    PROVE  Pipes' /\ Cache'
<1> DEFINE t == Head(inbox)
<1>1. /\ inbox # <<>> /\ t.cmd = "TURN" /\ inbox' = Tail(inbox)
      /\ ~OutOfRange(t) /\ ~Foreign(t) /\ turn' = t /\ pos' = t.keep + Len(t.ids)
      /\ kv' = Prefilled(kv, t.keep, t.ids) /\ tok' \in Sampled(kv', pos')
      /\ sphase' = "emit" /\ UNCHANGED <<outbox, link>>
    BY DEF BeginTurn, Reading
<1>2. Tail(inbox) \in Seq(Plain \cup Turns) /\ t \in Plain \cup Turns
    BY <1>1, Piped DEF Wired, Pipes
<1>3. t \in Turns
    BY <1>1, <1>2 DEF Plain
<1> DEFINE k == t.keep
           n == Len(t.ids)
<1>4. k \in Nat /\ t.ids \in Seq(Nat) /\ n \in Nat /\ t.req \in Requests
      /\ pos \in 0..Cap /\ Cap \in Nat
    <2>1. k \in Nat /\ t.ids \in Seq(Nat) /\ t.req \in Requests
        BY <1>3 DEF Turns
    <2>2. QED
        BY <2>1, LenProperties, CapAssumption DEF Wired, Cache
<1>5. k <= pos /\ n # 0 /\ k + n <= Cap
    BY <1>1, <1>4 DEF OutOfRange
<1>6. \A i \in 1..n : t.ids[i] \in Vocab
    BY <1>1, <1>4, LenProperties DEF Foreign
<1> HIDE DEF t, k, n
<1>7. \A p \in Positions :
        kv'[p] = IF p \in k + 1 .. k + n THEN Consumed(t.ids[p - k]) ELSE kv[p]
    BY <1>1 DEF Prefilled, k, n
<1>8. \A p \in k + 1 .. k + n : p - k \in 1..n
    BY <1>4
<1>9. kv' \in [Positions -> Vocab \cup {NoToken, Empty, Lost}]
    <2>1. kv' = [p \in Positions |-> kv'[p]]
        BY <1>1 DEF Prefilled
    <2>2. \A p \in Positions : kv[p] \in Vocab \cup {NoToken, Empty, Lost}
        BY DEF Wired, Cache
    <2>3. \A p \in k + 1 .. k + n : Consumed(t.ids[p - k]) \in Vocab \cup {Lost}
        BY <1>6, <1>8 DEF Consumed
    <2>4. \A p \in Positions : kv'[p] \in Vocab \cup {NoToken, Empty, Lost}
        BY <1>7, <2>2, <2>3
    <2>5. QED
        BY <2>1, <2>4
<1>10. pos' = k + n /\ pos' \in 1..Cap
    BY <1>1, <1>4, <1>5 DEF k, n
<1>11. ASSUME link # "down" PROVE \A p \in 1..pos' : kv'[p] \in Vocab
    <2>1. ASSUME NEW p \in 1..pos' PROVE kv'[p] \in Vocab
        <3>1. p \in Positions
            BY <1>10, <1>4 DEF Positions
        <3>2. CASE p \in k + 1 .. k + n
            BY <1>6, <1>7, <1>8, <1>11, <3>1, <3>2 DEF Consumed
        <3>3. CASE p \notin k + 1 .. k + n
            <4>1. p \in 1..pos
                BY <1>4, <1>5, <1>10, <3>3
            <4>2. QED
                BY <1>7, <1>11, <3>1, <3>3, <4>1 DEF Wired, Cache, PosValid
        <3>4. QED
            BY <3>2, <3>3
    <2>2. QED
        BY <2>1
<1>12. /\ tok' \in Vocab \cup {NoToken}
       /\ link # "down" => tok' \in Vocab
    <2>1. CASE link = "down"
        BY <1>1, <2>1 DEF Sampled
    <2>2. CASE link # "down"
        <3>1. Sampled(kv', pos') \subseteq Vocab
            BY <1>9, <1>10, <1>11, <2>2, HeldIsContext
        <3>2. QED
            BY <1>1, <2>2, <3>1
    <2>3. QED
        BY <2>1, <2>2
<1>13. Pipes'
    BY <1>1, <1>2 DEF Pipes, Wired
<1>14. Cache'
    <2>1. turn'.req \in Requests /\ link' = link /\ sphase' = "emit"
        BY <1>1, <1>4 DEF t
    <2>2. pos' \in 0..Cap
        BY <1>4, <1>10
    <2>3. link' # "down" => PosValid'
        BY <1>11, <2>1 DEF PosValid
    <2>4. QED
        BY <1>9, <1>12, <2>1, <2>2, <2>3 DEF Cache
<1>15. QED
    BY <1>13, <1>14

(* The worker is lost in the middle of a prefill.                          *)
LEMMA WiredLoses ==
    ASSUME Wired, PrefillDrops
    PROVE  Pipes' /\ Cache'
<1> DEFINE t == Head(inbox)
<1>1. /\ inbox # <<>> /\ t.cmd = "TURN" /\ inbox' = Tail(inbox)
      /\ ~OutOfRange(t) /\ ~Foreign(t) /\ turn' = t /\ pos' = t.keep + Len(t.ids)
      /\ tok' = NoToken /\ sphase' = "emit" /\ link' = "down" /\ UNCHANGED outbox
      /\ \E n \in 1..Len(t.ids) - 1 :
           kv' = [p \in Positions |->
                    IF p \in t.keep + n + 1 .. t.keep + Len(t.ids)
                    THEN Lost ELSE Prefilled(kv, t.keep, t.ids)[p]]
    BY DEF PrefillDrops, Reading
<1>2. Tail(inbox) \in Seq(Plain \cup Turns) /\ t \in Plain \cup Turns
    BY <1>1, Piped DEF Wired, Pipes
<1>3. t \in Turns
    BY <1>1, <1>2 DEF Plain
<1>4. /\ t.keep \in Nat /\ t.ids \in Seq(Nat) /\ Len(t.ids) \in Nat
      /\ t.req \in Requests /\ Cap \in Nat /\ pos \in 0..Cap
    <2>1. t.keep \in Nat /\ t.ids \in Seq(Nat) /\ t.req \in Requests
        BY <1>3 DEF Turns
    <2>2. QED
        BY <2>1, LenProperties, CapAssumption DEF Wired, Cache
<1>5. pos' \in 0..Cap
    BY <1>1, <1>4 DEF OutOfRange
<1>6. \A i \in 1..Len(t.ids) : t.ids[i] \in Vocab
    BY <1>1, <1>4, LenProperties DEF Foreign
<1>7. \A p \in Positions :
        Prefilled(kv, t.keep, t.ids)[p] \in Vocab \cup {NoToken, Empty, Lost}
    <2>1. \A p \in t.keep + 1 .. t.keep + Len(t.ids) : p - t.keep \in 1..Len(t.ids)
        BY <1>4
    <2>2. \A p \in t.keep + 1 .. t.keep + Len(t.ids) :
            Consumed(t.ids[p - t.keep]) \in Vocab \cup {Lost}
        BY <1>6, <2>1 DEF Consumed
    <2>3. \A p \in Positions : kv[p] \in Vocab \cup {NoToken, Empty, Lost}
        BY DEF Wired, Cache
    <2>4. \A p \in Positions : Prefilled(kv, t.keep, t.ids)[p] =
            IF p \in t.keep + 1 .. t.keep + Len(t.ids)
            THEN Consumed(t.ids[p - t.keep]) ELSE kv[p]
        BY DEF Prefilled
    <2>5. QED
        BY <2>2, <2>3, <2>4
<1>8. kv' \in [Positions -> Vocab \cup {NoToken, Empty, Lost}]
    BY <1>1, <1>7
<1>9. Pipes'
    BY <1>1, <1>2 DEF Pipes, Wired
<1>10. Cache'
    <2>1. turn'.req \in Requests
        BY <1>1, <1>4
    <2>2. QED
        BY <1>1, <1>5, <1>8, <2>1 DEF Cache
<1>11. QED
    BY <1>9, <1>10

(* A token is consumed.                                                    *)
LEMMA WiredForwards ==
    ASSUME Wired, Forward
    PROVE  Pipes' /\ Cache'
<1>1. /\ sphase = "forward" /\ kv' = [kv EXCEPT ![pos + 1] = Consumed(tok)]
      /\ pos' = pos + 1 /\ UNCHANGED <<inbox, link>>
      /\ \/ TurnOver
         \/ /\ \E f \in Sampled(kv', pos') : tok' = IF f \in Vocab THEN f ELSE Zero
            /\ sphase' = "emit" /\ UNCHANGED <<outbox, turn>>
    BY DEF Forward, Consume, Written
<1>2. /\ pos \in 0..Cap /\ pos < Cap /\ Cap \in Nat /\ tok \in Vocab \cup {NoToken}
      /\ kv \in [Positions -> Vocab \cup {NoToken, Empty, Lost}]
      /\ link # "down" => tok \in Vocab /\ \A p \in 1..pos : kv[p] \in Vocab
      /\ turn.req \in Requests \cup {NoRequest}
    BY <1>1, CapAssumption DEF Wired, Cache, PosValid
<1>3. pos' \in 1..Cap /\ pos + 1 \in Positions
    BY <1>1, <1>2 DEF Positions
<1>4. kv' \in [Positions -> Vocab \cup {NoToken, Empty, Lost}]
    <2>1. Consumed(tok) \in Vocab \cup {NoToken, Empty, Lost}
        BY <1>2 DEF Consumed
    <2>2. QED
        BY <1>1, <1>2, <2>1
<1>5. ASSUME link # "down" PROVE \A p \in 1..pos' : kv'[p] \in Vocab
    <2>1. \A p \in 1..pos' : (p \in 1..pos /\ p \in Positions /\ p # pos + 1) \/ p = pos + 1
        BY <1>1, <1>2 DEF Positions
    <2>2. Consumed(tok) \in Vocab
        BY <1>2, <1>5 DEF Consumed
    <2>3. QED
        BY <1>1, <1>2, <1>3, <1>5, <2>1, <2>2
<1>6. CASE TurnOver
    <2>1. /\ Say("DONE", NoToken, turn.req) /\ sphase' = "read" /\ turn' = NoTurn
          /\ tok' = NoToken
        BY <1>6 DEF TurnOver
    <2>2. Line("DONE", NoToken, turn.req) \in Lines
        BY <1>2 DEF Line, Lines
    <2>3. Pipes'
        BY <1>1, <2>1, <2>2, Piped DEF Wired, Pipes, Say
    <2>4. Cache'
        BY <1>1, <1>2, <1>3, <1>4, <1>5, <2>1 DEF Cache, PosValid, NoTurn
    <2>5. QED
        BY <2>3, <2>4
<1>7. ASSUME NEW f \in Sampled(kv', pos'), tok' = IF f \in Vocab THEN f ELSE Zero,
             sphase' = "emit", UNCHANGED <<outbox, turn>>
      PROVE  Pipes' /\ Cache'
    <2>1. tok' \in Vocab
        BY <1>7, VocabAssumption
    <2>2. Pipes'
        BY <1>1, <1>7 DEF Wired, Pipes
    <2>3. Cache'
        BY <1>1, <1>2, <1>3, <1>4, <1>5, <1>7, <2>1 DEF Cache, PosValid
    <2>4. QED
        BY <2>2, <2>3
<1>8. QED
    BY <1>1, <1>6, <1>7

(* Every step of the process.                                              *)
LEMMA WiredServes ==
    ASSUME Wired, Serve
    PROVE  Pipes' /\ Cache'
<1>1. ASSUME inbox # <<>>, inbox' = Tail(inbox), NEW l \in {"STATS", "DONE", "ERROR"},
             Say(l, NoToken, Head(inbox).req)
      PROVE  Pipes'
    <2>1. Tail(inbox) \in Seq(Plain \cup Turns) /\ Head(inbox) \in Plain \cup Turns
        BY <1>1, Piped DEF Wired, Pipes
    <2>2. Line(l, NoToken, Head(inbox).req) \in Lines
        BY <2>1 DEF Line, Lines, Plain, Turns
    <2>3. Append(outbox, Line(l, NoToken, Head(inbox).req)) \in Seq(Lines)
        BY <2>2, Piped DEF Wired, Pipes
    <2>4. QED
        BY <1>1, <2>1, <2>3 DEF Pipes, Say
<1>2. CASE ServeStats
    BY <1>1, <1>2 DEF ServeStats, Reading, Wired, Cache, PosValid, processVars
<1>3. CASE ServeReset
    <2>1. Pipes' /\ pos' = 0 /\ UNCHANGED <<sphase, kv, turn, tok, produced, link>>
        BY <1>1, <1>3 DEF ServeReset, Reading
    <2>2. \A p \in 1..pos' : FALSE
        BY <2>1
    <2>3. pos' \in 0..Cap /\ sphase = "read"
        BY <1>3, <2>1, CapAssumption DEF ServeReset, Reading
    <2>4. QED
        BY <2>1, <2>2, <2>3 DEF Wired, Cache, PosValid
<1>4. CASE Shutdown
    <2>1. Tail(inbox) \in Seq(Plain \cup Turns)
        BY <1>4, Piped DEF Shutdown, Reading, Wired, Pipes
    <2>2. QED
        BY <1>4, <2>1 DEF Shutdown, Wired, Pipes, Cache, PosValid
<1>5. CASE BadHeader
    BY <1>1, <1>5 DEF BadHeader, Reading, Wired, Cache, PosValid
<1>6. CASE Refuse
    BY <1>1, <1>6 DEF Refuse, Reading, Wired, Cache, PosValid, processVars
<1>7. CASE BeginTurn
    BY <1>7, WiredBegins
<1>8. CASE Emit
    <2>1. /\ sphase = "emit" /\ pos < Cap /\ sphase' = "forward"
          /\ Say("TOKEN", tok, turn.req)
          /\ UNCHANGED <<inbox, pos, kv, turn, tok, link>>
        BY <1>8, CapAssumption DEF Emit, Full, Wired, Cache
    <2>2. Line("TOKEN", tok, turn.req) \in Lines
        BY DEF Line, Lines, Wired, Cache
    <2>3. Pipes'
        BY <2>1, <2>2, Piped DEF Wired, Pipes, Say
    <2>4. QED
        BY <2>1, <2>3 DEF Wired, Cache, PosValid
<1>9. CASE EndTurn
    <2>1. /\ Say("DONE", NoToken, turn.req) /\ sphase' = "read" /\ turn' = NoTurn
          /\ tok' = NoToken /\ UNCHANGED <<inbox, pos, kv, link>>
        BY <1>9 DEF EndTurn, TurnOver
    <2>2. Line("DONE", NoToken, turn.req) \in Lines
        BY DEF Line, Lines, Wired, Cache
    <2>3. Pipes'
        BY <2>1, <2>2, Piped DEF Wired, Pipes, Say
    <2>4. QED
        BY <2>1, <2>3 DEF Wired, Cache, PosValid, NoTurn
<1>10. CASE Forward
    BY <1>10, WiredForwards
<1>11. QED
    BY <1>2, <1>3, <1>4, <1>5, <1>6, <1>7, <1>8, <1>9, <1>10 DEF Serve

(* The steps of a turn.                                                    *)
LEMMA WiredReads ==
    ASSUME Wired, NEW r \in Requests, outbox # <<>>, Advances(r)
    PROVE  Wired'
<1>1. /\ Tail(outbox) \in Seq(Lines) /\ Head(outbox) \in Lines
      /\ hpc \in [Requests -> Places] /\ got \in [Requests -> Seq(Loose)]
      /\ keep \in Nat /\ inbox \in Seq(Plain \cup Turns)
    BY Piped DEF Wired, Pipes, Front
<1>2. CASE StatsRead(r)
    <2>1. /\ hpc[r] = "stats" /\ outbox' = Tail(outbox) /\ Go(r, "turn")
          /\ inbox' = Append(inbox, Turn(r, ask[r].max, keep,
                             SubSeq(ask[r].ids, keep + 1, Len(ask[r].ids)),
                             ask[r].readable))
          /\ UNCHANGED <<processVars, ask, keep, got, committed>>
        BY <1>2 DEF StatsRead, Waits, Write
    <2>2. ask[r] \in Asks
        BY <2>1 DEF Wired, Front
    <2>3. /\ ask[r].ids \in Seq(Nat) /\ Len(ask[r].ids) \in Nat /\ ask[r].max \in Int
          /\ ask[r].readable \in BOOLEAN
        BY <2>2, AsksAssumption, LenProperties
    <2>4. \A i \in (keep + 1)..Len(ask[r].ids) : ask[r].ids[i] \in Nat
        <3>1. keep \in Nat
            BY <1>1
        <3>2. \A i \in (keep + 1)..Len(ask[r].ids) : i \in 1..Len(ask[r].ids)
            BY <2>3, <3>1
        <3>3. QED
            BY <2>3, <3>2
    <2>5. SubSeq(ask[r].ids, keep + 1, Len(ask[r].ids)) \in Seq(Nat)
        BY <1>1, <2>3, <2>4, SubSeqProperties
    <2>6. Turn(r, ask[r].max, keep, SubSeq(ask[r].ids, keep + 1, Len(ask[r].ids)),
               ask[r].readable) \in Turns
        BY <1>1, <2>3, <2>5 DEF Turn, Turns
    <2>7. inbox' \in Seq(Plain \cup Turns)
        BY <1>1, <2>1, <2>6, Piped
    <2>8. Pipes' /\ Cache'
        BY <1>1, <2>1, <2>7 DEF Pipes, Wired, Cache, PosValid, processVars
    <2>9. Front'
        BY <2>1, <2>2 DEF Wired, Front, Go, Places
    <2>10. QED
        BY <2>8, <2>9 DEF Wired
<1>3. CASE TokenRead(r)
    <2>1. /\ outbox' = Tail(outbox)
          /\ got' = [got EXCEPT ![r] =
                        Append(@, [tok |-> Head(outbox).tok, req |-> Head(outbox).req])]
          /\ UNCHANGED <<inbox, processVars, hpc, ask, keep, committed>>
        BY <1>3 DEF TokenRead
    <2>2. [tok |-> Head(outbox).tok, req |-> Head(outbox).req] \in Loose
        BY <1>1 DEF Lines, Loose
    <2>3. Append(got[r], [tok |-> Head(outbox).tok, req |-> Head(outbox).req])
            \in Seq(Loose)
        BY <1>1, <2>2, Piped
    <2>4. got' \in [Requests -> Seq(Loose)]
        BY <1>1, <2>1, <2>3
    <2>5. Pipes' /\ Cache'
        BY <1>1, <2>1 DEF Pipes, Wired, Cache, PosValid, processVars
    <2>6. Front'
        BY <2>1, <2>4 DEF Wired, Front
    <2>7. QED
        BY <2>5, <2>6 DEF Wired
<1>4. CASE DoneRead(r)
    <2>1. /\ hpc[r] = "turn" /\ outbox' = Tail(outbox) /\ Go(r, "after")
          /\ inbox' = Append(inbox, Stats(r))
          /\ UNCHANGED <<processVars, ask, keep, got, committed>>
        BY <1>4 DEF DoneRead, Waits, Write
    <2>2. Stats(r) \in Plain \cup Turns
        BY DEF Stats, Plain
    <2>3. inbox' \in Seq(Plain \cup Turns)
        BY <1>1, <2>1, <2>2, Piped
    <2>4. Pipes' /\ Cache'
        BY <1>1, <2>1, <2>3 DEF Pipes, Wired, Cache, PosValid, processVars
    <2>5. Front'
        BY <2>1 DEF Wired, Front, Go, Places
    <2>6. QED
        BY <2>4, <2>5 DEF Wired
<1>5. QED
    BY <1>2, <1>3, <1>4 DEF Advances

(* A turn returns: what it read, its own or not, is recorded.              *)
LEMMA WiredReturns ==
    ASSUME Wired, NEW r \in Requests, AfterRead(r)
    PROVE  Wired'
<1>1. /\ hpc[r] = "after" /\ outbox # <<>> /\ outbox' = Tail(outbox)
      /\ committed' = ask[r].ids \o Tokens(got[r]) /\ keep' = 0
      /\ Go(r, "answered") /\ UNCHANGED <<inbox, processVars, ask, got>>
    BY DEF AfterRead, Waits
<1>2. Tail(outbox) \in Seq(Lines) /\ got[r] \in Seq(Loose) /\ ask[r] \in Asks
    BY <1>1, Piped DEF Wired, Pipes, Front
<1>3. Tokens(got[r]) \in Seq(Int)
    <2>1. /\ Len(got[r]) \in Nat /\ DOMAIN got[r] = 1..Len(got[r])
          /\ \A i \in 1..Len(got[r]) : got[r][i] \in Loose
        BY <1>2, LenProperties, ElementOfSeq
    <2>2. \A i \in 1..Len(got[r]) : got[r][i].tok \in Int
        <3>1. \A t \in Vocab \cup {NoToken} : t \in Int
            BY VocabAssumption DEF NoToken
        <3>2. \A x \in Loose : x.tok \in Vocab \cup {NoToken}
            BY DEF Loose
        <3>3. QED
            BY <2>1, <3>1, <3>2
    <2>3. Tokens(got[r]) \in [1..Len(got[r]) -> Int]
        BY <2>1, <2>2 DEF Tokens
    <2>4. QED
        BY <2>1, <2>3, SegmentIsSeq
<1>4. ask[r].ids \in Seq(Int)
    <2>1. ask[r].ids \in Seq(Nat)
        BY <1>2, AsksAssumption
    <2>2. Len(ask[r].ids) \in Nat /\ ask[r].ids \in [1..Len(ask[r].ids) -> Nat]
        BY <2>1, LenProperties
    <2>3. ask[r].ids \in [1..Len(ask[r].ids) -> Int]
        BY <2>2
    <2>4. QED
        BY <2>2, <2>3, SegmentIsSeq
<1>5. committed' \in Seq(Int)
    BY <1>1, <1>3, <1>4, ConcatProperties
<1>6. Pipes' /\ Cache'
    BY <1>1, <1>2 DEF Pipes, Wired, Cache, PosValid, processVars
<1>7. Front'
    BY <1>1, <1>5 DEF Wired, Front, Go, Places
<1>8. QED
    BY <1>6, <1>7 DEF Wired

(* A turn raises, with or without a line read.                             *)
LEMMA WiredRaises ==
    ASSUME Wired, NEW r \in Requests, hpc[r] # "none",
           NEW at \in {"failed", "abandoned"}, Go(r, at), keep' = 0,
           UNCHANGED <<ask, got, committed, inbox, processVars>>,
           outbox' = outbox \/ (outbox # <<>> /\ outbox' = Tail(outbox))
    PROVE  Wired'
<1>1. hpc' = [hpc EXCEPT ![r] = at] /\ keep' = 0 /\ UNCHANGED <<ask, got, committed>>
    BY DEF Go
<1>2. outbox' \in Seq(Lines)
    BY Piped DEF Wired, Pipes
<1>3. Pipes' /\ Cache'
    BY <1>2 DEF Pipes, Wired, Cache, PosValid, processVars
<1>4. Front'
    BY <1>1 DEF Wired, Front, Places
<1>5. QED
    BY <1>3, <1>4 DEF Wired

(* A turn is opened, from whatever is committed.                           *)
LEMMA WiredOpens ==
    ASSUME Wired, NEW r \in Requests, Acquire(r)
    PROVE  Wired'
<1>1. /\ hpc[r] = "waiting" /\ keep' = Kept(ask[r].ids)
      /\ inbox' = Append(inbox, Stats(r)) /\ Go(r, "stats")
      /\ UNCHANGED <<outbox, processVars, ask, got, committed>>
    BY DEF Acquire, Open, Write
<1>2. ask[r] \in Asks /\ committed \in Seq(Int) /\ inbox \in Seq(Plain \cup Turns)
    BY <1>1 DEF Wired, Front, Pipes
<1>3. Kept(ask[r].ids) \in Nat
    <2>1. ask[r].ids \in Seq(Nat) /\ ask[r].ids # <<>>
        BY <1>2, AsksAssumption
    <2>2. Len(ask[r].ids) \in Nat \ {0}
        BY <2>1, EmptySeq, LenProperties
    <2>3. Shared(ask[r].ids, committed) \in 0..Len(ask[r].ids)
        BY <1>2, <2>1, SharedIs
    <2>4. QED
        BY <2>2, <2>3 DEF Kept
<1>4. Stats(r) \in Plain \cup Turns
    BY DEF Stats, Plain
<1>5. inbox' \in Seq(Plain \cup Turns)
    BY <1>1, <1>2, <1>4, Piped
<1>6. Pipes' /\ Cache'
    BY <1>1, <1>5 DEF Pipes, Wired, Cache, PosValid, processVars
<1>7. Front'
    BY <1>1, <1>3 DEF Wired, Front, Go, Places
<1>8. QED
    BY <1>6, <1>7 DEF Wired

(* Every step.                                                             *)
LEMMA WiredStep ==
    ASSUME Wired, Next
    PROVE  Wired'
<1>1. CASE Process(Serve)
    <2>1. Pipes' /\ Cache'
        BY <1>1, WiredServes DEF Process
    <2>2. Front'
        BY <1>1 DEF Process, sessionVars, Wired, Front
    <2>3. QED
        BY <2>1, <2>2 DEF Wired
<1>2. CASE Process(LinkDrops) \/ Process(Dies)
    <2>1. UNCHANGED <<inbox, outbox, pos, kv, turn, tok, sessionVars>>
          /\ \/ link' = "down" /\ UNCHANGED sphase
             \/ UNCHANGED link /\ sphase' = "exited"
        BY <1>2 DEF Process, LinkDrops, Dies
    <2>2. QED
        BY <2>1 DEF Wired, Pipes, Front, Cache, PosValid, sessionVars
<1>3. CASE Close
    <2>1. Command("SHUTDOWN") \in Plain \cup Turns
        BY DEF Command, Plain
    <2>2. inbox' \in Seq(Plain \cup Turns) /\ UNCHANGED <<outbox, processVars, sessionVars>>
        BY <1>3, <2>1, Piped DEF Close, Write, Wired, Pipes
    <2>3. QED
        BY <2>2 DEF Wired, Pipes, Front, Cache, PosValid, processVars, sessionVars
<1>4. ASSUME NEW r \in Requests, NEW a \in Asks, Arrive(r, a)
      PROVE  Wired'
    <2>1. /\ hpc' = [hpc EXCEPT ![r] = "waiting"] /\ ask' = [ask EXCEPT ![r] = a]
          /\ UNCHANGED <<serviceVars, keep, got, committed>>
        BY <1>4 DEF Arrive, Go
    <2>2. Pipes' /\ Cache'
        BY <2>1 DEF Wired, Pipes, Cache, PosValid, serviceVars, processVars
    <2>3. Front'
        BY <2>1 DEF Wired, Front, Places
    <2>4. QED
        BY <2>2, <2>3 DEF Wired
<1>5. ASSUME NEW r \in Requests, Leave(r)
      PROVE  Wired'
    BY <1>5 DEF Leave, Wired, Pipes, Front, Cache, PosValid, serviceVars, processVars,
       sessionVars
<1>6. ASSUME NEW r \in Requests, Rejected(r) \/ Break(r)
      PROVE  Wired'
    <2>1. /\ hpc[r] # "none"
          /\ Go(r, "failed") \/ Go(r, "abandoned")
          /\ keep' = 0 /\ UNCHANGED <<ask, got, committed, inbox, processVars>>
          /\ outbox' = outbox \/ (outbox # <<>> /\ outbox' = Tail(outbox))
        BY <1>6 DEF Rejected, OpenFails, Break, Breaks, TokenRefused, Unexpected, EndOfFile,
           BrokenPipe, Raise, Waits, InTurn, serviceVars
    <2>2. QED
        BY <2>1, WiredRaises
<1>7. ASSUME NEW r \in Requests, Acquire(r) \/ Advance(r) \/ Finish(r)
      PROVE  Wired'
    <2>1. CASE Acquire(r)
        BY <2>1, WiredOpens
    <2>2. CASE Advance(r)
        BY <2>2, WiredReads DEF Advance, Advances, StatsRead, TokenRead, DoneRead, Waits
    <2>3. CASE Finish(r)
        BY <2>3, WiredReturns DEF Finish
    <2>4. QED
        BY <1>7, <2>1, <2>2, <2>3
<1>8. CASE Process(PrefillDrops)
    <2>1. Pipes' /\ Cache'
        BY <1>8, WiredLoses DEF Process
    <2>2. Front'
        BY <1>8 DEF Process, sessionVars, Wired, Front
    <2>3. QED
        BY <2>1, <2>2 DEF Wired
<1>9. QED
    BY <1>1, <1>2, <1>3, <1>4, <1>5, <1>6, <1>7, <1>8 DEF Next, Handle

(* The cache and the pipes keep their shape, also when clients hang up in  *)
(* the middle of an answer and when the worker is lost.                    *)
THEOREM ServerWired == Spec => []Wired
<1>1. Init => Wired
    <2>1. ASSUME Init PROVE Wired
        <3>1. SessionInit
            BY <2>1 DEF Init
        <3>2. SessionInv
            BY <3>1, SessionStarts
        <3>3. /\ got = [r \in Requests |-> <<>>] /\ committed = <<>> /\ keep = 0
            BY <3>1 DEF SessionInit
        <3>4. sphase = "read"
            BY <3>1 DEF SessionInit, ServiceInit
        <3>5. Front
            BY <3>2, <3>3 DEF Front, SessionInv, Types
        <3>6. Pipes /\ Cache
            BY <3>2, <3>4 DEF Pipes, Cache, SessionInv, Types
        <3>7. QED
            BY <3>5, <3>6 DEF Wired
    <2>2. QED
        BY <2>1
<1>2. Wired /\ [Next]_vars => Wired'
    <2>1. ASSUME Wired, UNCHANGED vars PROVE Wired'
        BY <2>1 DEF vars, serviceVars, processVars, sessionVars, Wired, Pipes, Front,
           Cache, PosValid
    <2>2. QED
        BY <2>1, WiredStep
<1>3. QED
    BY <1>1, <1>2, PTL DEF Spec

(* As long as the worker is there every position in use holds a token that *)
(* went through all the layers, whoever hangs up.                          *)
THEOREM ServerCacheValid == Spec => [](link # "down" => PosValid)
<1>1. Wired => (link # "down" => PosValid)
    BY DEF Wired, Cache
<1>2. QED
    BY <1>1, ServerWired, PTL

(* One generation at a time: a request is in a turn exactly when it holds  *)
(* the lock, whoever hangs up, fails or is rejected ("one generation at a  *)
(* time", server.py:57).                                                   *)
LockIsHeld == /\ lock \in Requests \cup {NoRequest}
              /\ \A r \in Requests : InTurn(r) <=> lock = r
OneAtATime == \A r, q \in Requests : InTurn(r) /\ InTurn(q) => r = q

(* Every step keeps it.                                                    *)
LEMMA LockStep ==
    ASSUME Wired, LockIsHeld, Next
    PROVE  LockIsHeld'
<1>1. hpc \in [Requests -> Places]
    BY DEF Wired, Front
<1>2. CASE Process(Serve) \/ Process(LinkDrops) \/ Process(PrefillDrops)
           \/ Process(Dies) \/ Close
    BY <1>2 DEF Process, Close, sessionVars, serverVars, LockIsHeld, InTurn
<1>3. ASSUME NEW r \in Requests, NEW a \in Asks, Arrive(r, a)
      PROVE  LockIsHeld'
    BY <1>1, <1>3 DEF Arrive, Go, serverVars, LockIsHeld, InTurn
<1>4. ASSUME NEW r \in Requests, Leave(r)
      PROVE  LockIsHeld'
    BY <1>4 DEF Leave, sessionVars, LockIsHeld, InTurn
<1>5. ASSUME NEW r \in Requests, Acquire(r)
      PROVE  LockIsHeld'
    <2>1. lock = NoRequest /\ lock' = r /\ hpc' = [hpc EXCEPT ![r] = "stats"]
        BY <1>5 DEF Acquire, Free, Open, Go
    <2>2. QED
        BY <1>1, <2>1, NamesAssumption DEF LockIsHeld, InTurn
<1>6. ASSUME NEW r \in Requests, Rejected(r)
      PROVE  LockIsHeld'
    <2>1. /\ hpc[r] = "waiting" /\ hpc' = [hpc EXCEPT ![r] = "failed"]
          /\ UNCHANGED lock
        BY <1>6 DEF Rejected, OpenFails, Raise, Go, serverVars
    <2>2. QED
        BY <1>1, <2>1 DEF LockIsHeld, InTurn
<1>7. ASSUME NEW r \in Requests, Advance(r)
      PROVE  LockIsHeld'
    <2>1. /\ InTurn(r) /\ UNCHANGED lock
          /\ \/ hpc' = [hpc EXCEPT ![r] = "turn"] \/ hpc' = [hpc EXCEPT ![r] = "after"]
             \/ UNCHANGED hpc
        BY <1>7 DEF Advance, Advances, StatsRead, TokenRead, DoneRead, Waits, Go, InTurn,
           serverVars
    <2>2. QED
        BY <1>1, <2>1 DEF LockIsHeld, InTurn
<1>8. ASSUME NEW r \in Requests, Finish(r) \/ Break(r)
      PROVE  LockIsHeld'
    <2>1. /\ InTurn(r) /\ lock' = NoRequest
          /\ \E at \in {"answered", "failed", "abandoned"} : hpc' = [hpc EXCEPT ![r] = at]
        BY <1>8 DEF Finish, AfterRead, Break, Breaks, TokenRefused, Unexpected, EndOfFile,
           BrokenPipe, Released, Raise, Go, Waits, InTurn
    <2>2. QED
        BY <1>1, <2>1, NamesAssumption DEF LockIsHeld, InTurn
<1>9. QED
    BY <1>2, <1>3, <1>4, <1>5, <1>6, <1>7, <1>8 DEF Next, Handle

(* One generation at a time, and whoever generates holds the lock (the     *)
(* critical section of server.py), also when clients hang up.              *)
THEOREM OneGeneration == Spec => [](LockIsHeld /\ OneAtATime)
<1>1. Init => LockIsHeld
    BY NamesAssumption DEF Init, SessionInit, LockIsHeld, InTurn
<1>2. Wired /\ LockIsHeld /\ [Next]_vars => LockIsHeld'
    <2>1. ASSUME LockIsHeld, UNCHANGED vars PROVE LockIsHeld'
        BY <2>1 DEF vars, serverVars, sessionVars, LockIsHeld, InTurn
    <2>2. QED
        BY <2>1, LockStep
<1>3. LockIsHeld => OneAtATime
    BY DEF LockIsHeld, OneAtATime
<1>4. QED
    BY <1>1, <1>2, <1>3, ServerWired, PTL DEF Spec
=============================================================================
