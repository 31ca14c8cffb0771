------------------------------- MODULE Server -------------------------------
(***************************************************************************)
(* The HTTP front end (server.py) over one session: a thread per request,  *)
(* a lock around a generation, streaming clients that may hang up, and a   *)
(* main thread that closes the session without the lock.                   *)
(***************************************************************************)
EXTENDS Session

CONSTANT
    Streaming   \* the requests answered token by token

ASSUME StreamingAssumption == Streaming \subseteq Requests

VARIABLES
    lock,       \* Engine.lock: its holder
    gone,       \* the clients that closed their connection
    closed      \* PicchioSession.close has been called

serverVars == <<lock, gone, closed>>
vars == <<serviceVars, sessionVars, serverVars>>

Init ==
    /\ SessionInit
    /\ lock = NoRequest /\ gone = {} /\ closed = FALSE

(* At least the last id is always processed again.                         *)
Kept(ids) == LET n == Shared(ids, committed)
             IN  IF n >= Len(ids) THEN Len(ids) - 1 ELSE n

FreeAlways == TRUE          \* a mutant of Free
Free == lock = NoRequest
Fits(r) == Len(ask[r].ids) <= Cap

(* An exception leaves "with eng.lock" and is reported to the client.      *)
ReleasedNever == lock' = lock   \* a mutant of Released
Released == lock' = NoRequest

-----------------------------------------------------------------------------
(* The clients and the main thread. *)

Arrive(r, a) ==
    /\ hpc[r] = "none" /\ ~closed
    /\ Go(r, "waiting")
    /\ ask' = [ask EXCEPT ![r] = a]
    /\ UNCHANGED <<serviceVars, keep, got, committed, serverVars>>

(* A client that hangs up is noticed only by a write to its socket.        *)
Leave(r) ==
    /\ r \in Streaming \ gone
    /\ hpc[r] = "waiting" \/ InTurn(r)
    /\ gone' = gone \cup {r}
    /\ UNCHANGED <<serviceVars, sessionVars, lock, closed>>

Close ==
    /\ ~closed /\ closed' = TRUE
    /\ IF sphase = "exited" THEN UNCHANGED inbox ELSE Write(Command("SHUTDOWN"))
    /\ UNCHANGED <<outbox, processVars, sessionVars, lock, gone>>

-----------------------------------------------------------------------------
(* Engine.generate, by the thread of request r. *)

Acquire(r) ==
    /\ hpc[r] = "waiting" /\ Free /\ Fits(r)
    /\ lock' = r
    /\ Open(r, Kept(ask[r].ids))
    /\ UNCHANGED <<gone, closed>>

(* The lock is taken and released at once: the prompt is longer than the   *)
(* context, or the first write finds the process gone.                     *)
Rejected(r) ==
    /\ hpc[r] = "waiting" /\ Free
    /\ \/ ~Fits(r) /\ Raise(r) /\ UNCHANGED serviceVars
       \/ Fits(r) /\ OpenFails(r)
    /\ UNCHANGED serverVars

Advance(r) == Advances(r) /\ UNCHANGED serverVars

Finish(r) == AfterRead(r) /\ Released /\ UNCHANGED <<gone, closed>>

Break(r) == Breaks(r, r \in gone) /\ Released /\ UNCHANGED <<gone, closed>>

Handle(r) == Acquire(r) \/ Rejected(r) \/ Advance(r) \/ Finish(r) \/ Break(r)

Process(A) == A /\ UNCHANGED <<sessionVars, serverVars>>

Next ==
    \/ Process(Serve) \/ Process(Dies)
    \/ Process(LinkDrops) \/ Process(PrefillDrops)
    \/ Close
    \/ \E r \in Requests : (\E a \in Asks : Arrive(r, a)) \/ Leave(r) \/ Handle(r)

Spec == Init /\ [][Next]_vars

(* The process and every handler thread keep running; arrivals, hang-ups,  *)
(* drops, deaths and the closing of the server need not happen.            *)
FairSpec ==
    /\ Spec
    /\ WF_vars(Process(Serve))
    /\ \A r \in Requests : WF_vars(Handle(r))

-----------------------------------------------------------------------------
(* Properties. *)

TypeOK ==
    /\ SessionTypeOK
    /\ lock \in Requests \cup {NoRequest}
    /\ gone \subseteq Streaming /\ closed \in BOOLEAN

(* No turn has been abandoned in the middle of its lines (a client hung    *)
(* up, or the parser refused a token: server.py:126) and the worker has    *)
(* not been lost.  MCServerStream and MCServerDrop show what each of the   *)
(* two does to what follows.                                               *)
Quiet == link # "down" /\ \A r \in Requests : hpc[r] # "abandoned"

(* As long as that is so, a client gets only tokens of its own request,    *)
(* although all read from one pipe (server.py:9-10, 57) ...                *)
QuietOwnAnswer == Quiet => OwnAnswer

(* ... between two turns the ids remembered are those in the cache, also   *)
(* after refused turns (server.py:56) ...                                  *)
QuietCommitted == Quiet => CommittedIsConsumed

(* ... and a request is decoded on top of its own prompt, whatever of it   *)
(* was kept from earlier requests (server.py:100-114).                     *)
QuietPrompt == Quiet => PromptInCache

(* A request fails only for what it asks or because the process has gone   *)
(* (which an unreadable header of any request brings about), not because   *)
(* of what earlier requests left in the pipe or in the cache               *)
(* (server.py:9-11: requests share one process and one cache).             *)
Unservable(a) ==
    \/ Len(a.ids) > Cap \/ a.max < 0 \/ ~a.readable
    \/ \E i \in DOMAIN a.ids : a.ids[i] \notin Vocab
FailureIsEarned ==
    \A r \in Requests :
        hpc[r] = "failed" => Unservable(ask[r]) \/ sphase = "exited"

QuietFailure == Quiet => FailureIsEarned

(* Every step that leaves no abandoned turn behind is one of Completion:   *)
(* each client gets its answer token by token, complete, or fails,         *)
(* whatever the cache holds of others (server.py:9-11).                    *)
QuietCompletion == Promise!Init /\ [][Quiet' => Promise!Next]_(Promise!vars)

(* Every request that arrived is answered or fails, also after a client    *)
(* hung up in the middle of a turn, a process died or the server closed.   *)
RequestsEnd ==
    \A r \in Requests :
        hpc[r] = "waiting" ~> hpc[r] \in {"answered", "failed", "abandoned"}

=============================================================================
