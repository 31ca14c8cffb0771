------------------------------ MODULE Service ------------------------------
(***************************************************************************)
(* The SERVICE mode of the engine (picchio.c, service_loop): one process,  *)
(* one key-value cache, commands on standard input, protocol lines on      *)
(* standard output.  A TURN keeps the first positions of the cache,        *)
(* consumes the new ids after them and then alternates emitting a token    *)
(* and consuming it.  With PIPE_COORD the upper layers run in a worker     *)
(* process over a socket, which may drop.                                  *)
(*                                                                         *)
(* Abstracted: a token is a number, what the model samples is any member   *)
(* of Likely(the positions the attention reads), the sampling parameters   *)
(* are "readable" or not, and the counters of a STATS line are dropped.    *)
(* A line carries, as history, the request it was printed for.             *)
(***************************************************************************)
EXTENDS Integers, Sequences

CONSTANTS
    Requests,   \* the turns clients ask for
    NoRequest,  \* no turn
    Vocab,      \* token ids of the model
    StopIds,    \* c->stop_ids
    Cap,        \* positions of the key-value cache
    Likely(_),  \* the tokens the model may sample after a context
    Empty,      \* a position never written
    Lost,       \* a position whose upper layers never ran
    Links       \* the worker link at startup: "none", "up"

NoToken == -1   \* pipe_coord_step without an answer
Zero == 0       \* what replaces a token outside the vocabulary

Contexts == UNION {[1..n -> Vocab] : n \in 1..Cap}

ASSUME CapAssumption == Cap \in Nat \ {0}
ASSUME VocabAssumption ==
    Vocab \subseteq Nat /\ Zero \in Vocab /\ StopIds \subseteq Vocab
ASSUME ModelAssumption ==
    \A s \in Contexts : Likely(s) # {} /\ Likely(s) \subseteq Vocab
ASSUME LinksAssumption == Links # {} /\ Links \subseteq {"none", "up"}
ASSUME NamesAssumption ==
    NoRequest \notin Requests /\ {Empty, Lost} \cap Vocab = {} /\ Empty # Lost

VARIABLES
    inbox,      \* commands written to the process and not yet read
    outbox,     \* lines printed by the process and not yet read
    sphase,     \* "read", "emit", "forward" or "exited"
    pos,        \* service_loop's pos: positions of the cache in use
    kv,         \* per position, the token consumed there
    turn,       \* the TURN being served
    tok,        \* the token to emit or to consume next
    produced,   \* tokens emitted in this turn
    link        \* the connection to the worker

processVars == <<sphase, pos, kv, turn, tok, produced, link>>
serviceVars == <<inbox, outbox, processVars>>

Positions == 1..Cap
NoTurn == [cmd |-> "TURN", req |-> NoRequest, max |-> 0, keep |-> 0,
           ids |-> <<>>, readable |-> TRUE]
Turn(r, max, keep, ids, readable) ==
    [cmd |-> "TURN", req |-> r, max |-> max, keep |-> keep, ids |-> ids,
     readable |-> readable]
Command(c) == [cmd |-> c, req |-> NoRequest]
Line(l, t, r) == [line |-> l, tok |-> t, req |-> r]

ServiceInit ==
    /\ inbox = <<>> /\ outbox = <<>>
    /\ sphase = "read" /\ pos = 0
    /\ kv = [p \in Positions |-> Empty]
    /\ turn = NoTurn /\ tok = NoToken /\ produced = 0
    /\ link \in Links

-----------------------------------------------------------------------------
(* One forward pass from the first n positions of cache k (kv_store drops  *)
(* what is beyond the last).  A worker that is gone leaves the new         *)
(* positions without upper layers and gives -1.                            *)
Sampled(k, n) ==
    IF link = "down" THEN {NoToken}
    ELSE Likely([p \in {q \in Positions : q <= n} |-> k[p]])
Consumed(t) == IF link = "down" THEN Lost ELSE t

(* n ids written after the first keep positions; what follows stays as it  *)
(* was.                                                                    *)
Prefilled(k, keep, ids) ==
    [p \in Positions |->
        IF p \in keep + 1 .. keep + Len(ids) THEN Consumed(ids[p - keep])
                                             ELSE k[p]]

Reading(c) == sphase = "read" /\ inbox # <<>> /\ Head(inbox).cmd = c
Say(l, t, r) == outbox' = Append(outbox, Line(l, t, r))

ServeStats ==
    /\ Reading("STATS")
    /\ inbox' = Tail(inbox) /\ Say("STATS", NoToken, Head(inbox).req)
    /\ UNCHANGED processVars

ServeResetKeepsPos ==       \* a mutant of ServeReset
    /\ Reading("RESET")
    /\ inbox' = Tail(inbox) /\ Say("DONE", NoToken, Head(inbox).req)
    /\ UNCHANGED processVars

ServeReset ==
    /\ Reading("RESET")
    /\ inbox' = Tail(inbox) /\ Say("DONE", NoToken, Head(inbox).req)
    /\ pos' = 0
    /\ UNCHANGED <<sphase, kv, turn, tok, produced, link>>

Shutdown ==
    /\ Reading("SHUTDOWN")
    /\ inbox' = Tail(inbox) /\ sphase' = "exited"
    /\ UNCHANGED <<outbox, pos, kv, turn, tok, produced, link>>

OutOfRangeEager(t) ==       \* a mutant of OutOfRange
    \/ t.max < 0 \/ t.keep < 0 \/ t.keep > pos
    \/ Len(t.ids) = 0 \/ t.keep + Len(t.ids) >= Cap
OutOfRange(t) ==
    \/ t.max < 0 \/ t.keep < 0 \/ t.keep > pos
    \/ Len(t.ids) = 0 \/ t.keep + Len(t.ids) > Cap
Foreign(t) == \E i \in DOMAIN t.ids : t.ids[i] \notin Vocab

(* An unreadable header ends the process; an unusable turn is answered     *)
(* without touching the session.                                           *)
BadHeader ==
    /\ Reading("TURN") /\ ~Head(inbox).readable
    /\ inbox' = Tail(inbox) /\ Say("ERROR", NoToken, Head(inbox).req)
    /\ sphase' = "exited"
    /\ UNCHANGED <<pos, kv, turn, tok, produced, link>>

Refuse ==
    /\ Reading("TURN") /\ Head(inbox).readable
    /\ OutOfRange(Head(inbox)) \/ Foreign(Head(inbox))
    /\ inbox' = Tail(inbox) /\ Say("ERROR", NoToken, Head(inbox).req)
    /\ UNCHANGED processVars

BeginTurn ==
    /\ Reading("TURN") /\ Head(inbox).readable
    /\ LET t == Head(inbox) IN
         /\ ~OutOfRange(t) /\ ~Foreign(t)
         /\ turn' = t
         /\ pos' = t.keep + Len(t.ids)
         /\ kv' = Prefilled(kv, t.keep, t.ids)
         /\ tok' \in Sampled(kv', pos')
    /\ inbox' = Tail(inbox)
    /\ produced' = 0 /\ sphase' = "emit"
    /\ UNCHANGED <<outbox, link>>

(* The connection drops between two blocks of the prefill: only the first  *)
(* n ids go through the worker's layers.                                   *)
PrefillDrops ==
    /\ Reading("TURN") /\ Head(inbox).readable
    /\ link = "up" /\ link' = "down"
    /\ LET t == Head(inbox) IN
         /\ ~OutOfRange(t) /\ ~Foreign(t)
         /\ turn' = t
         /\ pos' = t.keep + Len(t.ids)
         /\ \E n \in 1..Len(t.ids) - 1 :
              kv' = [p \in Positions |->
                        IF p \in t.keep + n + 1 .. t.keep + Len(t.ids)
                        THEN Lost ELSE Prefilled(kv, t.keep, t.ids)[p]]
    /\ inbox' = Tail(inbox) /\ tok' = NoToken
    /\ produced' = 0 /\ sphase' = "emit"
    /\ UNCHANGED outbox

(* The tests at the head of the decode loop: MAX_TOKENS, CONTEXT_FULL.     *)
FullByCount == produced >= turn.max             \* mutants of Full
FullLate == produced > turn.max \/ pos >= Cap
Full == produced >= turn.max \/ pos >= Cap

Emit ==
    /\ sphase = "emit" /\ ~Full
    /\ Say("TOKEN", tok, turn.req)
    /\ produced' = produced + 1 /\ sphase' = "forward"
    /\ UNCHANGED <<inbox, pos, kv, turn, tok, link>>

TurnOver ==
    /\ Say("DONE", NoToken, turn.req)
    /\ sphase' = "read" /\ turn' = NoTurn /\ tok' = NoToken /\ produced' = 0

EndTurn ==
    /\ sphase = "emit" /\ Full
    /\ TurnOver
    /\ UNCHANGED <<inbox, pos, kv, link>>

(* The emitted token is consumed, also when it is a stop token.  pos < Cap *)
(* here, so position pos + 1 exists.                                       *)
Written == kv' = [kv EXCEPT ![pos + 1] = Consumed(tok)]
ConsumeButStop ==           \* mutants of Consume
    IF tok \in StopIds THEN UNCHANGED <<kv, pos>> ELSE Written /\ pos' = pos + 1
CountButStop ==
    pos' = pos + 1 /\ (IF tok \in StopIds THEN UNCHANGED kv ELSE Written)
Consume == Written /\ pos' = pos + 1

Forward ==
    /\ sphase = "forward"
    /\ Consume
    /\ \/ tok \in StopIds /\ TurnOver
       \/ /\ tok \notin StopIds
          /\ \E f \in Sampled(kv', pos') : tok' = IF f \in Vocab THEN f ELSE Zero
          /\ sphase' = "emit"
          /\ UNCHANGED <<outbox, turn, produced>>
    /\ UNCHANGED <<inbox, link>>

(* The worker process, or the network, drops the connection.               *)
LinkDrops ==
    /\ link = "up" /\ link' = "down"
    /\ UNCHANGED <<inbox, outbox, sphase, pos, kv, turn, tok, produced>>

(* exit(1), a signal or the 120 s timeout of close().                      *)
Dies ==
    /\ sphase # "exited" /\ sphase' = "exited"
    /\ UNCHANGED <<inbox, outbox, pos, kv, turn, tok, produced, link>>

Serve == ServeStats \/ ServeReset \/ Shutdown \/ BadHeader \/ Refuse
         \/ BeginTurn \/ Emit \/ EndTurn \/ Forward

-----------------------------------------------------------------------------
(* Properties of the service alone. *)

Lines == [line : {"STATS", "TOKEN", "DONE", "ERROR"}, tok : Vocab \cup {NoToken},
          req : Requests \cup {NoRequest}]

ServiceTypeOK ==
    /\ outbox \in Seq(Lines)
    /\ sphase \in {"read", "emit", "forward", "exited"}
    /\ pos \in 0..Cap
    /\ kv \in [Positions -> Vocab \cup {NoToken, Empty, Lost}]
    /\ turn.req \in Requests \cup {NoRequest} /\ turn.keep + Len(turn.ids) <= Cap
    /\ tok \in Vocab \cup {NoToken}
    /\ produced \in 0..Cap
    /\ link \in {"none", "up", "down"}

(* Every position the service counts as used holds a token the model       *)
(* consumed through all its layers ("pos always equals the number of valid *)
(* positions in the KV-cache", picchio.c:4552-4554; DESIGN.md:158-161).    *)
PosValid == \A p \in 1..pos : kv[p] \in Vocab

=============================================================================
