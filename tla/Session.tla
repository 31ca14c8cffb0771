------------------------------ MODULE Session ------------------------------
(***************************************************************************)
(* One generation as the Python side runs it (chat.py, PicchioSession.turn *)
(* and its callers Engine.generate and HarmonyChat.ask): compute the       *)
(* prefix to keep, write a command, read lines until the one expected, and *)
(* remember the ids the model has consumed.  Server and Chat say who calls *)
(* it and what an exception does.                                          *)
(*                                                                         *)
(* A request is any member of Asks: the rendering of messages to ids is    *)
(* external (openai_harmony).  Reads block.                                *)
(***************************************************************************)
EXTENDS Service, FiniteSets

CONSTANTS
    Asks,       \* what a request may ask: [ids, max, readable] records
    NoAsk,      \* a request that has not been made
    Unparsed    \* the tokens StreamableParser.process may raise on

ASSUME ParserAssumption == Unparsed \subseteq Vocab
ASSUME AsksAssumption ==
    /\ NoAsk \notin Asks
    /\ \A a \in Asks : /\ a.ids \in Seq(Nat) \ {<<>>}
                       /\ a.max \in Int \ {0} /\ a.readable \in BOOLEAN

VARIABLES
    hpc,        \* per request, where it is
    ask,        \* per request, what it asks
    keep,       \* the prefix the running turn keeps
    got,        \* per request, the tokens read, with the turn they are from
    committed   \* the ids consumed by the last turn

sessionVars == <<hpc, ask, keep, got, committed>>

Places == {"none", "waiting", "stats", "turn", "after", "answered", "failed",
           "abandoned"}

SessionInit ==
    /\ ServiceInit
    /\ hpc = [r \in Requests |-> "none"]
    /\ ask = [r \in Requests |-> NoAsk]
    /\ keep = 0
    /\ got = [r \in Requests |-> <<>>]
    /\ committed = <<>>

Tokens(s) == [i \in DOMAIN s |-> s[i].tok]

(* The length of the common prefix of two sequences.  Its mutant counts    *)
(* the positions that agree, also those after a difference.                *)
SharedByCount(a, b) ==
    Cardinality({i \in 1..Len(a) : i <= Len(b) /\ a[i] = b[i]})
Shared(a, b) ==
    CHOOSE n \in 0..Len(a) :
        /\ n <= Len(b) /\ \A i \in 1..n : a[i] = b[i]
        /\ n < Len(a) /\ n < Len(b) => a[n + 1] # b[n + 1]

Write(c) == inbox' = Append(inbox, c)
Stats(r) == [cmd |-> "STATS", req |-> r]
InTurn(r) == hpc[r] \in {"stats", "turn", "after"}
Waits(r, at, line) == hpc[r] = at /\ outbox # <<>> /\ Head(outbox).line = line
Go(r, at) == hpc' = [hpc EXCEPT ![r] = at]

-----------------------------------------------------------------------------
(* PicchioSession.turn: a snapshot of the counters, the TURN, its tokens,  *)
(* its DONE, a second snapshot.                                            *)

Open(r, n) ==
    /\ sphase # "exited"
    /\ keep' = n /\ Write(Stats(r)) /\ Go(r, "stats")
    /\ UNCHANGED <<outbox, processVars, ask, got, committed>>

StatsRead(r) ==
    /\ Waits(r, "stats", "STATS") /\ sphase # "exited"
    /\ outbox' = Tail(outbox)
    /\ Write(Turn(r, ask[r].max, keep,
                  SubSeq(ask[r].ids, keep + 1, Len(ask[r].ids)), ask[r].readable))
    /\ Go(r, "turn")
    /\ UNCHANGED <<processVars, ask, keep, got, committed>>

TokenRead(r) ==
    /\ Waits(r, "turn", "TOKEN")
    /\ outbox' = Tail(outbox)
    /\ got' = [got EXCEPT ![r] =
                  Append(@, [tok |-> Head(outbox).tok, req |-> Head(outbox).req])]
    /\ UNCHANGED <<inbox, processVars, hpc, ask, keep, committed>>

DoneRead(r) ==
    /\ Waits(r, "turn", "DONE") /\ sphase # "exited"
    /\ outbox' = Tail(outbox)
    /\ Write(Stats(r)) /\ Go(r, "after")
    /\ UNCHANGED <<processVars, ask, keep, got, committed>>

(* The caller records what was consumed once turn returns.                 *)
AfterRead(r) ==
    /\ Waits(r, "after", "STATS")
    /\ outbox' = Tail(outbox)
    /\ committed' = ask[r].ids \o Tokens(got[r])
    /\ keep' = 0 /\ Go(r, "answered")
    /\ UNCHANGED <<inbox, processVars, ask, got>>

(* The ways turn itself raises: the next line is read, or the end of the   *)
(* file; committed and the rest of the output stay as they are.            *)
Raise(r) == Go(r, "failed") /\ keep' = 0 /\ UNCHANGED <<ask, got, committed>>

(* on_token raises: its client is gone, or the parser (external, its state *)
(* not modelled: it may raise on some tokens, and does on -1) refuses the  *)
(* token.  The turn is abandoned: the process goes on with it, and the     *)
(* lines that follow stay in the pipe.                                     *)
TokenRefused(r, isGone) ==
    /\ Waits(r, "turn", "TOKEN")
    /\ isGone \/ Head(outbox).tok \in Unparsed \cup {NoToken}
    /\ outbox' = Tail(outbox)
    /\ Go(r, "abandoned") /\ keep' = 0
    /\ UNCHANGED <<inbox, processVars, ask, got, committed>>

(* An ERROR, or a line that is not the one expected.                       *)
Expected(at) == IF at = "turn" THEN {"TOKEN", "DONE"} ELSE {"STATS"}
Unexpected(r) ==
    /\ InTurn(r) /\ outbox # <<>> /\ Head(outbox).line \notin Expected(hpc[r])
    /\ outbox' = Tail(outbox)
    /\ Raise(r)
    /\ UNCHANGED <<inbox, processVars>>

EndOfFile(r) ==
    /\ InTurn(r) /\ outbox = <<>> /\ sphase = "exited"
    /\ Raise(r)
    /\ UNCHANGED serviceVars

(* A write to a process that has exited: the TURN, the second STATS, or    *)
(* the first STATS of a turn about to start.                               *)
BrokenPipe(r) ==
    /\ sphase = "exited"
    /\ Waits(r, "stats", "STATS") \/ Waits(r, "turn", "DONE")
    /\ outbox' = Tail(outbox)
    /\ Raise(r)
    /\ UNCHANGED <<inbox, processVars>>

OpenFails(r) ==
    /\ sphase = "exited"
    /\ Raise(r)
    /\ UNCHANGED serviceVars

Advances(r) == StatsRead(r) \/ TokenRead(r) \/ DoneRead(r)
Breaks(r, isGone) ==
    TokenRefused(r, isGone) \/ Unexpected(r) \/ EndOfFile(r) \/ BrokenPipe(r)

-----------------------------------------------------------------------------
(* Properties of every caller of a session. *)

SessionTypeOK ==
    /\ ServiceTypeOK
    /\ hpc \in [Requests -> Places]
    /\ ask \in [Requests -> Asks \cup {NoAsk}]
    /\ keep \in 0..Cap
    /\ \A r \in Requests : Len(got[r]) <= Cap

(* A caller gives its client only tokens generated for that client's       *)
(* request ("requests are serialized with a lock", server.py:9-10; "one    *)
(* generation at a time", server.py:57).                                   *)
OwnAnswer ==
    \A r \in Requests : \A i \in DOMAIN got[r] : got[r][i].req = r

(* Between two turns the committed ids are exactly what the positions in   *)
(* use hold ("last token IDs consumed by the model", server.py:56): the    *)
(* prefix computed from them is one the cache really has.  A turn refused  *)
(* with an ERROR leaves both as they were.                                 *)
CommittedIsConsumed ==
    (\A r \in Requests : ~InTurn(r)) /\ sphase # "exited" =>
        committed = [p \in 1..pos |-> kv[p]]

(* While a request is decoded, the cache starts with its whole prompt: the *)
(* positions kept from earlier turns are those of this prompt.             *)
PromptInCache ==
    sphase \in {"emit", "forward"} =>
        LET ids == ask[turn.req].ids
        IN  /\ pos >= Len(ids)
            /\ \A i \in DOMAIN ids : kv[i] = ids[i]

(* The session implements what Completion promises to a client.            *)
Promise == INSTANCE Completion WITH
    answer <- [r \in Requests |-> Tokens(got[r])],
    status <- [r \in Requests |->
                 CASE hpc[r] = "none" -> "none"
                   [] hpc[r] \in {"answered", "failed"} -> hpc[r]
                   [] hpc[r] = "abandoned" -> "failed"
                   [] OTHER -> "asked"]
ImplementsCompletion == Promise!Spec

=============================================================================
