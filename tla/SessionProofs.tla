---------------------------- MODULE SessionProofs ----------------------------
(***************************************************************************)
(* What one session over the service keeps, for any number of requests,    *)
(* any model, vocabulary and context: an invariant of the process and of   *)
(* the program that talks to it, and the promise of Completion, both step  *)
(* by step.  ServerProofs and ChatProofs use the steps for their own next- *)
(* state relations.                                                        *)
(*                                                                         *)
(* The heart of the invariant is Said, the tokens that a request has read  *)
(* and those that wait for it in the pipe: printing moves the process      *)
(* forward and adds to Said, reading only moves the boundary in it.        *)
(***************************************************************************)
EXTENDS Session, SequenceTheorems, WellFoundedInduction, NaturalsInduction, TLAPS

-----------------------------------------------------------------------------
(* Where a turn is. *)

Nobody == \A r \in Requests : ~InTurn(r)

(* A reply o, as far as it has been printed and not read, has its last     *)
(* line; its tokens; the tokens of a turn, those read (g) and those not.   *)
Ended(o) == o # <<>> /\ o[Len(o)].line # "TOKEN"
EndedBy(o, l) == o # <<>> /\ o[Len(o)].line = l
Unread(o) == IF Ended(o) THEN Len(o) - 1 ELSE Len(o)
Out(g, o) == [i \in 1..(Len(g) + Unread(o)) |->
                IF i <= Len(g) THEN g[i].tok ELSE o[i - Len(g)].tok]
Said(r) == Out(got[r], outbox)

(* The prompt a and the first j of the tokens o; whether nothing may       *)
(* follow them; that each of o is one the model may produce there.         *)
Text(a, o, j) == [p \in 1..(Len(a.ids) + j) |->
                    IF p <= Len(a.ids) THEN a.ids[p] ELSE o[p - Len(a.ids)]]
Over(a, o, j) == \/ j > 0 /\ o[j] \in StopIds
                 \/ j = a.max
                 \/ Len(a.ids) + j >= Cap
Generated(a, o) ==
    \A j \in 0..(Len(o) - 1) : /\ o[j + 1] \in Likely(Text(a, o, j))
                               /\ ~Over(a, o, j)

Refusable(a) == \/ Len(a.ids) > Cap \/ a.max < 0 \/ ~a.readable
                \/ \E i \in DOMAIN a.ids : a.ids[i] \notin Vocab

Held == [p \in 1..pos |-> kv[p]]

-----------------------------------------------------------------------------
(* The invariant. *)

Plain == [cmd : {"STATS", "RESET", "SHUTDOWN"}, req : Requests \cup {NoRequest}]
Turns == [cmd : {"TURN"}, req : Requests, max : Int, keep : Nat, ids : Seq(Nat),
          readable : BOOLEAN]
Got == [tok : Vocab, req : Requests]

Types ==
    /\ inbox \in Seq(Plain \cup Turns) /\ outbox \in Seq(Lines)
    /\ sphase \in {"read", "emit", "forward", "exited"}
    /\ pos \in 0..Cap
    /\ kv \in [Positions -> Vocab \cup {NoToken, Empty, Lost}]
    /\ turn.req \in Requests \cup {NoRequest} /\ turn.keep + Len(turn.ids) <= Cap
    /\ tok \in Vocab \cup {NoToken}
    /\ produced \in 0..Cap /\ link \in {"none", "up", "down"}
    /\ hpc \in [Requests -> Places]
    /\ ask \in [Requests -> Asks \cup {NoAsk}]
    /\ \A r \in Requests : hpc[r] # "none" => ask[r] \in Asks
    /\ keep \in 0..Cap
    /\ got \in [Requests -> Seq(Got)]

(* One generation at a time, with the tokens of its own turn.              *)
Alone == \A r, q \in Requests : InTurn(r) /\ InTurn(q) => r = q
Fresh == \A r \in Requests :
            hpc[r] \in {"none", "waiting", "stats"} => got[r] = <<>>

(* At most one command waits for an answer: that of the turn.              *)
CommandOf(r) ==
    IF hpc[r] = "turn"
    THEN Turn(r, ask[r].max, keep, SubSeq(ask[r].ids, keep + 1, Len(ask[r].ids)),
              ask[r].readable)
    ELSE Stats(r)
Queued ==
    sphase # "exited" =>
      /\ \A i, j \in 1..Len(inbox) :
           inbox[i].cmd # "SHUTDOWN" /\ inbox[j].cmd # "SHUTDOWN" => i = j
      /\ \A i \in 1..Len(inbox) : inbox[i].cmd # "SHUTDOWN" =>
           /\ sphase = "read" /\ outbox = <<>>
           /\ \/ \E r \in Requests : InTurn(r) /\ inbox[i] = CommandOf(r)
              \/ Nobody /\ inbox[i] = Command("RESET")

(* What the pipe from the process carries.                                 *)
Spoken ==
    /\ Nobody => \/ outbox = <<>>
                 \/ outbox = <<Line("DONE", NoToken, NoRequest)>> /\ pos = 0
    /\ \A r \in Requests : hpc[r] \in {"stats", "after"} =>
         outbox = <<>> \/ (Len(outbox) = 1 /\ outbox[1].line = "STATS")
    /\ \A r \in Requests : hpc[r] = "turn" =>
         /\ \A i \in 1..Len(outbox) :
              /\ outbox[i].req = r
              /\ outbox[i].line = "TOKEN" => outbox[i].tok \in Vocab
              /\ outbox[i].line # "TOKEN" =>
                   i = Len(outbox) /\ outbox[i].line \in {"DONE", "ERROR"}
         /\ sphase = "read" => Ended(outbox) \/ (outbox = <<>> /\ got[r] = <<>>)
         /\ EndedBy(outbox, "ERROR") => Refusable(ask[r]) /\ Said(r) = <<>>

(* The answer of a turn is one the model may give to its prompt, and it is *)
(* over when the process says so.                                          *)
Answering ==
    \A r \in Requests :
      /\ \A i \in 1..Len(got[r]) : got[r][i].req = r
      /\ InTurn(r) => Generated(ask[r], Said(r))
      /\ hpc[r] = "after" \/ (hpc[r] = "turn" /\ EndedBy(outbox, "DONE")) =>
           Over(ask[r], Said(r), Len(Said(r)))

(* The running turn: what is in the cache is the prompt and what has been  *)
(* said, but for the token about to be consumed.                           *)
Serving ==
    sphase \in {"emit", "forward"} =>
      LET r == turn.req
          n == Len(Said(r))
      IN  /\ r \in Requests /\ hpc[r] = "turn" /\ ~Ended(outbox)
          /\ turn.max = ask[r].max /\ produced = n /\ n <= turn.max
          /\ sphase = "emit" =>
               /\ pos = Len(ask[r].ids) + n /\ Held = Text(ask[r], Said(r), n)
               /\ tok \in Likely(Held)
               /\ n > 0 => Said(r)[n] \notin StopIds
          /\ sphase = "forward" =>
               /\ n > 0 /\ pos = Len(ask[r].ids) + n - 1 /\ pos < Cap
               /\ Held = Text(ask[r], Said(r), n - 1) /\ tok = Said(r)[n]

(* Between turns the committed ids are those in the cache, and the prefix  *)
(* kept is a proper prefix of both; after a turn the cache has the prompt  *)
(* and the answer.                                                         *)
Agreed ==
    sphase # "exited" =>
      /\ Nobody /\ outbox = <<>> => committed = Held
      /\ \A r \in Requests :
           /\ hpc[r] = "stats"
                \/ (hpc[r] = "turn" /\ sphase = "read" /\ ~EndedBy(outbox, "DONE")) =>
                /\ committed = Held
                /\ keep <= pos /\ keep < Len(ask[r].ids)
                /\ \A i \in 1..keep : ask[r].ids[i] = kv[i]
           /\ hpc[r] = "after"
                \/ (hpc[r] = "turn" /\ sphase = "read" /\ EndedBy(outbox, "DONE")) =>
                /\ pos = Len(ask[r].ids) + Len(Said(r))
                /\ Held = Text(ask[r], Said(r), Len(Said(r)))
      /\ \A r \in Requests : hpc[r] \in {"stats", "after"} => sphase = "read"
      /\ Nobody => sphase = "read"

SessionInv == /\ Types /\ Alone /\ Fresh /\ Queued /\ Spoken /\ Answering
              /\ Serving /\ Agreed /\ PosValid

-----------------------------------------------------------------------------
(* Sequences. *)

(* A function on an initial segment is a sequence.                         *)
LEMMA SegmentIsSeq ==
    ASSUME NEW S, NEW n \in Nat, NEW f \in [1..n -> S]
    PROVE  f \in Seq(S) /\ Len(f) = n /\ DOMAIN f = 1..n
OBVIOUS

(* Two sequences written one after the other.                              *)
LEMMA ConcatIs ==
    ASSUME NEW S, NEW s \in Seq(S), NEW t \in Seq(S)
    PROVE  s \o t = [p \in 1..(Len(s) + Len(t)) |->
                       IF p <= Len(s) THEN s[p] ELSE t[p - Len(s)]]
<1> DEFINE f == [p \in 1..(Len(s) + Len(t)) |->
                   IF p <= Len(s) THEN s[p] ELSE t[p - Len(s)]]
<1>1. f \in [1..(Len(s) + Len(t)) -> S]
    OBVIOUS
<1>2. f \in Seq(S) /\ Len(f) = Len(s) + Len(t)
    BY <1>1, SegmentIsSeq
<1>3. s \o t \in Seq(S) /\ Len(s \o t) = Len(s) + Len(t)
      /\ \A i \in 1..(Len(s) + Len(t)) :
           (s \o t)[i] = IF i <= Len(s) THEN s[i] ELSE t[i - Len(s)]
    BY ConcatProperties
<1>4. \A i \in 1..Len(s \o t) : (s \o t)[i] = f[i]
    BY <1>3
<1>5. QED
    BY <1>2, <1>3, <1>4, SeqEqual

(* Every set of numbers that has one has a least.                          *)
LEMMA LeastElement ==
    ASSUME NEW S \in SUBSET Nat, S # {}
    PROVE  \E m \in S : \A k \in S : m <= k
<1> DEFINE R == OpToRel(<, Nat)
<1>1. IsWellFoundedOn(R, Nat)
    BY NatLessThanWellFounded
<1>2. \A x, y \in Nat : y < x => <<y, x>> \in R
    BY DEF OpToRel
<1> HIDE DEF R
<1>3. PICK x \in S : \A y \in S : ~(<<y, x>> \in R)
    BY <1>1, WFMin
<1>4. ASSUME NEW y \in S PROVE x <= y
    <2>1. x \in Nat /\ y \in Nat
        BY <1>3
    <2>2. ~(y < x)
        BY <1>2, <1>3, <2>1, Zenon
    <2>3. QED
        BY <2>1, <2>2, SMT
<1>5. QED
    BY <1>3, <1>4, Zenon

(* The common prefix exists: up to the first position where one ends or    *)
(* they differ.                                                            *)
LEMMA SharedIs ==
    ASSUME NEW S, NEW T, NEW a \in Seq(S), NEW b \in Seq(T)
    PROVE  /\ Shared(a, b) \in 0..Len(a) /\ Shared(a, b) <= Len(b)
           /\ \A i \in 1..Shared(a, b) : a[i] = b[i]
<1> DEFINE Good(n) == /\ n <= Len(b) /\ \A i \in 1..n : a[i] = b[i]
                      /\ n < Len(a) /\ n < Len(b) => a[n + 1] # b[n + 1]
           D == {n \in 0..Len(a) : n = Len(a) \/ n = Len(b) \/ a[n + 1] # b[n + 1]}
<1>1. Len(a) \in Nat /\ Len(b) \in Nat
    OBVIOUS
<1>2. D \in SUBSET Nat /\ Len(a) \in D
    BY <1>1
<1>3. PICK m \in D : \A k \in D : m <= k
    BY <1>2, LeastElement
<1>4. ASSUME NEW k \in 0..(m - 1)
      PROVE  k # Len(b) /\ a[k + 1] = b[k + 1]
    <2>1. m \in Nat /\ m <= Len(a) /\ k \in 0..Len(a) /\ ~(m <= k)
        BY <1>1, <1>3
    <2>2. k \notin D
        BY <1>3, <2>1
    <2>3. QED
        BY <2>1, <2>2
<1>5. m <= Len(b)
    <2>1. CASE m > Len(b)
        BY <1>1, <1>3, <1>4, <2>1
    <2>2. QED
        BY <1>1, <1>3, <2>1
<1>6. \A i \in 1..m : a[i] = b[i]
    <2>1. ASSUME NEW i \in 1..m PROVE a[i] = b[i]
        <3>1. i - 1 \in 0..(m - 1) /\ (i - 1) + 1 = i
            BY <1>3
        <3>2. QED
            BY <1>4, <3>1
    <2>2. QED
        BY <2>1
<1>7. m \in 0..Len(a) /\ Good(m)
    BY <1>1, <1>3, <1>5, <1>6
<1> HIDE DEF Good
<1>8. Shared(a, b) = CHOOSE n \in 0..Len(a) : Good(n)
    BY DEF Shared, Good
<1>9. Shared(a, b) \in 0..Len(a) /\ Good(Shared(a, b))
    BY <1>7, <1>8
<1>10. QED
    BY <1>9 DEF Good

-----------------------------------------------------------------------------
(* What has been said: how it changes when a line is printed or read. *)

(* The tokens of a turn are a sequence.                                    *)
LEMMA OutIs ==
    ASSUME NEW g \in Seq(Got), NEW o \in Seq(Lines)
    PROVE  /\ Len(g) \in Nat /\ Len(o) \in Nat /\ Unread(o) \in 0..Len(o)
           /\ Out(g, o) \in Seq(Vocab \cup {NoToken})
           /\ Len(Out(g, o)) = Len(g) + Unread(o)
           /\ \A i \in 1..(Len(g) + Unread(o)) :
                Out(g, o)[i] = IF i <= Len(g) THEN g[i].tok ELSE o[i - Len(g)].tok
<1> DEFINE n == Len(g) + Unread(o)
<1>1. Len(g) \in Nat /\ Len(o) \in Nat /\ Unread(o) \in 0..Len(o) /\ n \in Nat
    BY EmptySeq DEF Unread, Ended
<1>2. ASSUME NEW i \in 1..n
      PROVE  (IF i <= Len(g) THEN g[i].tok ELSE o[i - Len(g)].tok) \in Vocab \cup {NoToken}
    <2>1. CASE i <= Len(g)
        <3>1. g[i] \in Got
            BY <1>1, <2>1
        <3>2. QED
            BY <2>1, <3>1 DEF Got
    <2>2. CASE ~(i <= Len(g))
        <3>1. i - Len(g) \in 1..Len(o)
            BY <1>1, <2>2
        <3>2. o[i - Len(g)] \in Lines
            BY <3>1
        <3>3. QED
            BY <2>2, <3>2 DEF Lines
    <2>3. QED
        BY <2>1, <2>2
<1>3. Out(g, o) \in [1..n -> Vocab \cup {NoToken}]
    BY <1>2 DEF Out
<1>4. QED
    BY <1>1, <1>3, SegmentIsSeq DEF Out

(* A token is printed.                                                     *)
LEMMA OutToken ==
    ASSUME NEW g \in Seq(Got), NEW o \in Seq(Lines), ~Ended(o),
           NEW l \in Lines, l.line = "TOKEN"
    PROVE  /\ Append(o, l) \in Seq(Lines) /\ ~Ended(Append(o, l))
           /\ Len(Out(g, Append(o, l))) = Len(Out(g, o)) + 1
           /\ \A i \in 1..Len(Out(g, o)) : Out(g, Append(o, l))[i] = Out(g, o)[i]
           /\ Out(g, Append(o, l))[Len(Out(g, o)) + 1] = l.tok
<1> DEFINE q == Append(o, l)
<1>1. /\ q \in Seq(Lines) /\ q # <<>> /\ Len(q) = Len(o) + 1 /\ Len(o) \in Nat
      /\ q[Len(q)] = l /\ \A i \in 1..Len(o) : q[i] = o[i]
    BY AppendProperties
<1> HIDE DEF q
<1>2. ~Ended(q) /\ Unread(q) = Len(o) + 1 /\ Unread(o) = Len(o)
    BY <1>1 DEF Ended, Unread
<1>3. /\ Len(Out(g, o)) = Len(g) + Len(o) /\ Len(g) \in Nat
      /\ \A i \in 1..(Len(g) + Len(o)) :
           Out(g, o)[i] = IF i <= Len(g) THEN g[i].tok ELSE o[i - Len(g)].tok
    BY <1>2, OutIs
<1>7. /\ Len(Out(g, q)) = Len(g) + (Len(o) + 1)
      /\ \A i \in 1..(Len(g) + (Len(o) + 1)) :
           Out(g, q)[i] = IF i <= Len(g) THEN g[i].tok ELSE q[i - Len(g)].tok
    BY <1>1, <1>2, OutIs
<1>4. ASSUME NEW i \in 1..(Len(g) + Len(o))
      PROVE  Out(g, q)[i] = Out(g, o)[i]
    <2>1. i \in 1..(Len(g) + (Len(o) + 1))
        BY <1>1, <1>3
    <2>2. ~(i <= Len(g)) => i - Len(g) \in 1..Len(o)
        BY <1>1, <1>3
    <2>3. QED
        BY <1>1, <1>3, <1>7, <2>1, <2>2
<1>5. Out(g, q)[Len(g) + Len(o) + 1] = l.tok
    BY <1>1, <1>3, <1>7
<1>6. QED
    BY <1>1, <1>2, <1>3, <1>4, <1>5, <1>7 DEF q

(* The last line of the reply adds nothing to what the caller is given.    *)
LEMMA OutSame ==
    ASSUME NEW g \in Seq(Got), NEW o \in Seq(Lines), ~Ended(o),
           NEW l \in Lines, l.line # "TOKEN"
    PROVE  Out(g, Append(o, l)) = Out(g, o)
<1> DEFINE q == Append(o, l)
<1>1. /\ Len(q) = Len(o) + 1 /\ Len(o) \in Nat
      /\ q[Len(q)] = l /\ \A i \in 1..Len(o) : q[i] = o[i]
    BY AppendProperties
<1> HIDE DEF q
<1>2. Unread(q) = Len(o) /\ Unread(o) = Len(o)
    BY <1>1 DEF Ended, Unread
<1>3. Len(g) \in Nat
    OBVIOUS
<1>4. \A i \in 1..(Len(g) + Len(o)) : ~(i <= Len(g)) => i - Len(g) \in 1..Len(o)
    BY <1>1, <1>3
<1>5. Out(g, q) = Out(g, o)
    BY <1>1, <1>2, <1>3, <1>4 DEF Out
<1>6. QED
    BY <1>5 DEF q

(* The last line of the reply is printed.                                  *)
LEMMA OutEnds ==
    ASSUME NEW g \in Seq(Got), NEW o \in Seq(Lines), ~Ended(o),
           NEW l \in Lines, l.line # "TOKEN"
    PROVE  /\ Append(o, l) \in Seq(Lines) /\ Append(o, l) # <<>>
           /\ Ended(Append(o, l)) /\ EndedBy(Append(o, l), l.line)
           /\ Len(Append(o, l)) = Len(o) + 1 /\ Append(o, l)[Len(o) + 1] = l
           /\ \A i \in 1..Len(o) : Append(o, l)[i] = o[i]
           /\ Out(g, Append(o, l)) = Out(g, o)
<1> DEFINE q == Append(o, l)
<1>1. /\ q \in Seq(Lines) /\ q # <<>> /\ Len(q) = Len(o) + 1 /\ Len(o) \in Nat
      /\ q[Len(q)] = l /\ \A i \in 1..Len(o) : q[i] = o[i]
    BY AppendProperties
<1>2. Out(g, q) = Out(g, o)
    BY OutSame
<1> HIDE DEF q
<1>3. Ended(q) /\ EndedBy(q, l.line)
    BY <1>1 DEF Ended, EndedBy
<1>4. QED
    BY <1>1, <1>2, <1>3 DEF q

(* The only line.                                                          *)
LEMMA OneLine ==
    ASSUME NEW g \in Seq(Got), NEW o \in Seq(Lines), o = <<>>,
           NEW l \in Lines, l.line # "TOKEN"
    PROVE  /\ Append(o, l) \in Seq(Lines) /\ Append(o, l) # <<>>
           /\ Len(Append(o, l)) = 1 /\ Append(o, l)[1] = l
           /\ Ended(Append(o, l)) /\ EndedBy(Append(o, l), l.line)
           /\ \A k : k # l.line => ~EndedBy(Append(o, l), k)
           /\ Out(g, Append(o, l)) = Out(g, o)
<1>1. ~Ended(o)
    BY EmptySeq DEF Ended
<1>2. Out(g, Append(o, l)) = Out(g, o)
    BY <1>1, OutSame
<1> DEFINE q == Append(o, l)
<1>3. /\ q \in Seq(Lines) /\ q # <<>> /\ Len(q) = Len(o) + 1 /\ Len(o) \in Nat
      /\ q[Len(q)] = l
    BY AppendProperties
<1> HIDE DEF q
<1>4. Len(q) = 1 /\ q[1] = l
    BY <1>3
<1>5. Ended(q) /\ EndedBy(q, l.line) /\ \A k : k # l.line => ~EndedBy(q, k)
    BY <1>3, <1>4 DEF Ended, EndedBy
<1>6. QED
    BY <1>2, <1>3, <1>4, <1>5 DEF q

(* A token is read.                                                        *)
LEMMA OutRead ==
    ASSUME NEW g \in Seq(Got), NEW o \in Seq(Lines), o # <<>>,
           Head(o).line = "TOKEN", NEW x \in Got, x.tok = Head(o).tok
    PROVE  /\ Tail(o) \in Seq(Lines) /\ Append(g, x) \in Seq(Got)
           /\ Ended(Tail(o)) <=> Ended(o)
           /\ \A l : l # "TOKEN" => (EndedBy(Tail(o), l) <=> EndedBy(o, l))
           /\ Out(Append(g, x), Tail(o)) = Out(g, o)
<1> DEFINE q == Tail(o)
           h == Append(g, x)
<1>1. /\ q \in Seq(Lines) /\ Len(q) = Len(o) - 1 /\ Len(o) \in Nat \ {0}
      /\ \A i \in 1..Len(q) : q[i] = o[i + 1]
      /\ Head(o) = o[1] /\ (q = <<>> <=> Len(o) = 1)
    <2>1. /\ q \in Seq(Lines) /\ Len(q) = Len(o) - 1 /\ Len(o) \in Nat \ {0}
          /\ \A i \in 1..Len(q) : q[i] = o[i + 1]
        BY HeadTailProperties, EmptySeq
    <2>2. q = <<>> <=> Len(q) = 0
        BY <2>1, EmptySeq
    <2>3. Head(o) = o[1]
        OBVIOUS
    <2>4. QED
        BY <2>1, <2>2, <2>3
<1>2. /\ h \in Seq(Got) /\ Len(h) = Len(g) + 1 /\ Len(g) \in Nat
      /\ h[Len(g) + 1] = x /\ \A i \in 1..Len(g) : h[i] = g[i]
    BY AppendProperties
<1> HIDE DEF q, h
<1>3. Len(o) > 1 => q[Len(q)] = o[Len(o)]
    BY <1>1
<1>4. /\ Ended(q) <=> Ended(o)
      /\ \A l : l # "TOKEN" => (EndedBy(q, l) <=> EndedBy(o, l))
    BY <1>1, <1>3 DEF Ended, EndedBy
<1>5. Unread(o) = Unread(q) + 1 /\ Unread(q) \in Nat /\ Unread(o) \in 0..Len(o)
    BY <1>1, <1>3, <1>4, OutIs DEF Unread
<1>6. ASSUME NEW i \in 1..(Len(g) + Unread(o))
      PROVE  (IF i <= Len(h) THEN h[i].tok ELSE q[i - Len(h)].tok)
               = (IF i <= Len(g) THEN g[i].tok ELSE o[i - Len(g)].tok)
    <2>1. CASE i <= Len(g)
        BY <1>2, <2>1
    <2>2. CASE i = Len(g) + 1
        BY <1>1, <1>2, <2>2
    <2>3. CASE i > Len(g) + 1
        <3>1. i - Len(h) \in 1..Len(q) /\ (i - Len(h)) + 1 = i - Len(g)
            BY <1>1, <1>2, <1>5, <2>3
        <3>2. q[i - Len(h)] = o[i - Len(g)]
            BY <1>1, <3>1
        <3>3. QED
            BY <1>2, <2>3, <3>2
    <2>4. QED
        BY <1>2, <1>5, <2>1, <2>2, <2>3
<1>7. Len(h) + Unread(q) = Len(g) + Unread(o)
    BY <1>2, <1>5
<1>8. Out(h, q) = Out(g, o)
    BY <1>6, <1>7 DEF Out
<1>9. QED
    BY <1>1, <1>2, <1>4, <1>8 DEF q, h

-----------------------------------------------------------------------------
(* Texts. *)

(* The first tokens determine the text.                                    *)
LEMMA TextSame ==
    ASSUME NEW a \in Asks, NEW o, NEW q, NEW j \in Nat, \A i \in 1..j : q[i] = o[i]
    PROVE  Text(a, q, j) = Text(a, o, j)
<1>1. Len(a.ids) \in Nat
    BY AsksAssumption
<1>2. \A p \in 1..(Len(a.ids) + j) : ~(p <= Len(a.ids)) => p - Len(a.ids) \in 1..j
    BY <1>1
<1>3. QED
    BY <1>1, <1>2 DEF Text

(* An answer with one more token.                                          *)
LEMMA GeneratedMore ==
    ASSUME NEW a \in Asks, NEW o \in Seq(Vocab \cup {NoToken}),
           NEW q \in Seq(Vocab \cup {NoToken}), Len(q) = Len(o) + 1,
           \A i \in 1..Len(o) : q[i] = o[i], Generated(a, o),
           q[Len(o) + 1] \in Likely(Text(a, o, Len(o))), ~Over(a, o, Len(o))
    PROVE  Generated(a, q)
<1>1. Len(o) \in Nat
    OBVIOUS
<1>2. SUFFICES ASSUME NEW j \in 0..(Len(q) - 1)
               PROVE  q[j + 1] \in Likely(Text(a, q, j)) /\ ~Over(a, q, j)
    BY DEF Generated
<1>3. Text(a, q, j) = Text(a, o, j)
    BY <1>1, TextSame
<1>4. Over(a, q, j) <=> Over(a, o, j)
    BY <1>1 DEF Over
<1>5. CASE j = Len(o)
    BY <1>3, <1>4, <1>5
<1>6. CASE j \in 0..(Len(o) - 1)
    <2>1. j + 1 \in 1..Len(o)
        BY <1>1, <1>6
    <2>2. QED
        BY <1>3, <1>4, <1>6, <2>1 DEF Generated
<1>7. QED
    BY <1>1, <1>5, <1>6

(* An answer has only tokens of the vocabulary and fits in the context.    *)
LEMMA GeneratedFits ==
    ASSUME NEW a \in Asks, NEW o \in Seq(Vocab \cup {NoToken}), Generated(a, o)
    PROVE  /\ Len(o) <= Cap
           /\ Len(o) > 0 => Len(a.ids) + Len(o) <= Cap
<1>1. Len(o) \in Nat /\ Len(a.ids) \in Nat \ {0} /\ Cap \in Nat
    BY AsksAssumption, CapAssumption, EmptySeq
<1>2. CASE Len(o) = 0
    BY <1>1, <1>2
<1>3. CASE Len(o) > 0
    <2>1. Len(o) - 1 \in 0..(Len(o) - 1)
        BY <1>1, <1>3
    <2>2. ~(Len(a.ids) + (Len(o) - 1) >= Cap)
        BY <2>1 DEF Generated, Over
    <2>3. QED
        BY <1>1, <2>2
<1>4. QED
    BY <1>1, <1>2, <1>3

-----------------------------------------------------------------------------
(* What a step of the process finds. *)

(* The command it reads is the only one that waits for an answer.          *)
LEMMA NextCommand ==
    ASSUME Types, Queued, sphase = "read", inbox # <<>>,
           Head(inbox).cmd # "SHUTDOWN"
    PROVE  /\ Tail(inbox) \in Seq(Plain \cup Turns)
           /\ \A i \in 1..Len(Tail(inbox)) : Tail(inbox)[i].cmd = "SHUTDOWN"
           /\ outbox = <<>>
           /\ \/ \E r \in Requests : InTurn(r) /\ Head(inbox) = CommandOf(r)
              \/ Nobody /\ Head(inbox) = Command("RESET")
<1>1. inbox \in Seq(Plain \cup Turns)
    BY DEF Types
<1>2. /\ Tail(inbox) \in Seq(Plain \cup Turns) /\ Len(Tail(inbox)) = Len(inbox) - 1
      /\ \A i \in 1..Len(Tail(inbox)) : Tail(inbox)[i] = inbox[i + 1]
      /\ Len(inbox) \in Nat \ {0}
    BY <1>1, HeadTailProperties, EmptySeq
<1>3. Head(inbox) = inbox[1] /\ 1 \in 1..Len(inbox)
    BY <1>1, <1>2
<1>4. ASSUME NEW i \in 1..Len(Tail(inbox)) PROVE Tail(inbox)[i].cmd = "SHUTDOWN"
    <2>1. i + 1 \in 1..Len(inbox) /\ i + 1 # 1
        BY <1>2
    <2>2. QED
        BY <1>2, <1>3, <2>1 DEF Queued
<1>5. QED
    BY <1>2, <1>3, <1>4 DEF Queued

(* A TURN is that of the request in its turn, which has read nothing yet.  *)
LEMMA NextTurn ==
    ASSUME SessionInv, Reading("TURN")
    PROVE  \E r \in Requests :
             /\ hpc[r] = "turn" /\ Head(inbox) = CommandOf(r)
             /\ outbox = <<>> /\ got[r] = <<>> /\ Said(r) = <<>>
             /\ committed = Held /\ keep \in 0..pos /\ keep < Len(ask[r].ids)
             /\ \A i \in 1..keep : ask[r].ids[i] = kv[i]
             /\ ask[r] \in Asks
             /\ Head(inbox).ids \in Seq(Nat)
             /\ Len(Head(inbox).ids) = Len(ask[r].ids) - keep
             /\ \A i \in 1..Len(Head(inbox).ids) :
                  Head(inbox).ids[i] = ask[r].ids[keep + i]
             /\ Head(inbox).req = r /\ Head(inbox).max = ask[r].max
             /\ Head(inbox).keep = keep /\ Head(inbox).readable = ask[r].readable
<1>1. /\ sphase = "read" /\ inbox # <<>> /\ Head(inbox).cmd = "TURN"
      /\ Types /\ Queued /\ Spoken /\ Agreed
    BY DEF Reading, SessionInv
<1>2. outbox = <<>> /\ \E r \in Requests : InTurn(r) /\ Head(inbox) = CommandOf(r)
    BY <1>1, NextCommand DEF Command
<1>3. PICK r \in Requests : InTurn(r) /\ Head(inbox) = CommandOf(r)
    BY <1>2
<1>4. hpc[r] = "turn" /\ ~Ended(outbox) /\ ~EndedBy(outbox, "DONE")
    BY <1>1, <1>2, <1>3 DEF CommandOf, Stats, Ended, EndedBy
<1>5. got[r] = <<>>
    BY <1>1, <1>4 DEF Spoken
<1>6. Said(r) = <<>>
    <2>1. got[r] \in Seq(Got) /\ outbox \in Seq(Lines)
        BY <1>1 DEF Types
    <2>2. Len(got[r]) = 0 /\ Len(outbox) = 0
        BY <1>2, <1>5
    <2>3. /\ Said(r) \in Seq(Vocab \cup {NoToken})
          /\ Len(Said(r)) = Len(got[r]) + Unread(outbox) /\ Unread(outbox) \in 0..Len(outbox)
        BY <2>1, OutIs DEF Said
    <2>4. QED
        BY <2>2, <2>3, EmptySeq
<1>7. /\ committed = Held /\ keep <= pos /\ keep < Len(ask[r].ids)
      /\ \A i \in 1..keep : ask[r].ids[i] = kv[i]
    BY <1>1, <1>4 DEF Agreed
<1>8. ask[r] \in Asks /\ keep \in 0..pos
    BY <1>1, <1>4, <1>7, CapAssumption DEF Types
<1>9. ask[r].ids \in Seq(Nat) /\ Len(ask[r].ids) \in Nat
    BY <1>8, AsksAssumption
<1>10. /\ Head(inbox).ids = SubSeq(ask[r].ids, keep + 1, Len(ask[r].ids))
       /\ Head(inbox).req = r /\ Head(inbox).max = ask[r].max
       /\ Head(inbox).keep = keep /\ Head(inbox).readable = ask[r].readable
    BY <1>3, <1>4 DEF CommandOf, Turn
<1>11. pos \in Nat
    BY <1>1 DEF Types
<1>12. /\ Head(inbox).ids \in Seq(Nat)
       /\ Len(Head(inbox).ids) = Len(ask[r].ids) - keep
       /\ \A i \in 1..Len(Head(inbox).ids) :
            Head(inbox).ids[i] = ask[r].ids[keep + i]
    <2> DEFINE a == ask[r].ids
    <2>1. a \in Seq(Nat) /\ Len(a) \in Nat /\ keep \in Nat /\ keep < Len(a)
        BY <1>7, <1>8, <1>9, <1>11
    <2> HIDE DEF a
    <2>2. \A i \in (keep + 1)..Len(a) : a[i] \in Nat
        BY <2>1
    <2>3. /\ SubSeq(a, keep + 1, Len(a)) \in Seq(Nat)
          /\ Len(SubSeq(a, keep + 1, Len(a))) = Len(a) - keep
          /\ \A i \in 1..(Len(a) - keep) : SubSeq(a, keep + 1, Len(a))[i] = a[keep + i]
        <3>1. /\ SubSeq(a, keep + 1, Len(a)) \in Seq(Nat)
              /\ Len(SubSeq(a, keep + 1, Len(a))) =
                   IF keep + 1 <= Len(a) THEN Len(a) - (keep + 1) + 1 ELSE 0
              /\ \A i \in 1..(Len(a) - (keep + 1) + 1) :
                   SubSeq(a, keep + 1, Len(a))[i] = a[keep + 1 + i - 1]
            BY <2>1, <2>2, SubSeqProperties
        <3>2. Len(a) - (keep + 1) + 1 = Len(a) - keep
            BY <2>1
        <3>3. \A i \in 1..(Len(a) - keep) : SubSeq(a, keep + 1, Len(a))[i] = a[keep + i]
            <4>1. \A i \in 1..(Len(a) - keep) : keep + 1 + i - 1 = keep + i
                BY <2>1
            <4>2. QED
                BY <3>1, <3>2, <4>1
        <3>4. keep + 1 <= Len(a)
            BY <2>1
        <3>5. QED
            BY <3>1, <3>2, <3>3, <3>4
    <2>4. QED
        BY <1>10, <2>3 DEF a
<1>13. QED
    BY <1>2, <1>3, <1>4, <1>5, <1>6, <1>7, <1>8, <1>10, <1>12

(* Once nothing waits, the queue is in order.                              *)
LEMMA QueueEmptied ==
    ASSUME \A i \in 1..Len(inbox') : inbox'[i].cmd = "SHUTDOWN"
    PROVE  Queued'
BY DEF Queued

-----------------------------------------------------------------------------
(* The steps of the process. *)

(* STATS: the answer to the turn's snapshot.                               *)
LEMMA ServeStatsStep ==
    ASSUME SessionInv, ServeStats, UNCHANGED sessionVars
    PROVE  SessionInv'
<1> USE DEF SessionInv, sessionVars, processVars
<1>1. /\ sphase = "read" /\ inbox # <<>> /\ Head(inbox).cmd = "STATS"
      /\ inbox' = Tail(inbox)
      /\ outbox' = Append(outbox, Line("STATS", NoToken, Head(inbox).req))
    BY DEF ServeStats, Reading, Say
<1>2. /\ inbox' \in Seq(Plain \cup Turns) /\ outbox = <<>>
      /\ \A i \in 1..Len(inbox') : inbox'[i].cmd = "SHUTDOWN"
      /\ \E r \in Requests : InTurn(r) /\ Head(inbox) = CommandOf(r)
    BY <1>1, NextCommand DEF Command
<1>3. PICK r \in Requests : InTurn(r) /\ Head(inbox) = CommandOf(r)
    BY <1>2
<1>4. /\ hpc[r] \in {"stats", "after"} /\ Head(inbox).req = r
      /\ \A q \in Requests : InTurn(q) => q = r
    BY <1>1, <1>3 DEF CommandOf, Turn, Stats, InTurn, Alone
<1> DEFINE l == Line("STATS", NoToken, r)
<1>5. l \in Lines /\ l.line = "STATS"
    BY <1>3 DEF Line, Lines
<1>6. outbox \in Seq(Lines) /\ got[r] \in Seq(Got) /\ ~Ended(outbox)
    BY <1>2 DEF Types, Ended
<1> HIDE DEF l
<1>7. /\ outbox' \in Seq(Lines) /\ outbox' # <<>> /\ Len(outbox') = 1
      /\ outbox'[1].line = "STATS" /\ Ended(outbox') /\ EndedBy(outbox', "STATS")
      /\ Out(got[r], outbox') = Out(got[r], outbox)
    <2>1. outbox' = Append(outbox, l) /\ outbox = <<>>
        BY <1>1, <1>2, <1>4 DEF l
    <2>2. /\ Append(outbox, l) \in Seq(Lines) /\ Append(outbox, l) # <<>>
          /\ Len(Append(outbox, l)) = 1 /\ Append(outbox, l)[1] = l
          /\ Ended(Append(outbox, l)) /\ EndedBy(Append(outbox, l), l.line)
          /\ Out(got[r], Append(outbox, l)) = Out(got[r], outbox)
        BY <2>1, <1>5, <1>6, OneLine
    <2>3. QED
        BY <1>5, <1>6, <2>1, <2>2
<1>8. Said(r)' = Said(r)
    BY <1>7 DEF Said
<1>9. ~EndedBy(outbox', "DONE")
    BY <1>7 DEF EndedBy
<1>10. Types' /\ Alone' /\ Fresh' /\ Serving' /\ PosValid'
    BY <1>2, <1>7, <1>1 DEF Types, Alone, Fresh, Serving, PosValid, ServeStats, InTurn
<1>11. Queued'
    BY <1>2, QueueEmptied
<1>12. ~Nobody' /\ \A q \in Requests : hpc'[q] # "turn"
    BY <1>3, <1>4 DEF Nobody, InTurn
<1>13. Spoken'
    BY <1>7, <1>12 DEF Spoken
<1>14. Answering'
    BY <1>4, <1>8, <1>9, <1>12 DEF Answering, InTurn
<1>15. Agreed'
    <2>1. UNCHANGED <<sphase, pos, kv, hpc, ask, keep, committed>> /\ Held' = Held
        BY DEF ServeStats, Held
    <2>2. \A q \in Requests : hpc[q] \in {"stats", "after"} => q = r
        BY <1>4 DEF InTurn
    <2>3. \A q \in Requests :
            hpc[q] = "after" =>
              /\ pos' = Len(ask[q].ids)' + Len(Said(q))'
              /\ Held' = Text(ask[q], Said(q), Len(Said(q)))'
        BY <1>1, <1>8, <2>1, <2>2 DEF Agreed
    <2>4. QED
        BY <1>1, <1>12, <2>1, <2>3 DEF Agreed
<1>16. QED
    BY <1>10, <1>11, <1>13, <1>14, <1>15

(* RESET: the cache is empty, before the other side knows.                 *)
LEMMA ServeResetStep ==
    ASSUME SessionInv, ServeReset, UNCHANGED sessionVars
    PROVE  SessionInv'
<1> USE DEF SessionInv, sessionVars, processVars
<1>1. /\ sphase = "read" /\ inbox # <<>> /\ Head(inbox).cmd = "RESET"
      /\ inbox' = Tail(inbox) /\ pos' = 0
      /\ outbox' = Append(outbox, Line("DONE", NoToken, Head(inbox).req))
      /\ UNCHANGED <<sphase, kv, turn, tok, produced, link>>
    BY DEF ServeReset, Reading, Say
<1>2. /\ inbox' \in Seq(Plain \cup Turns) /\ outbox = <<>>
      /\ \A i \in 1..Len(inbox') : inbox'[i].cmd = "SHUTDOWN"
      /\ Nobody /\ Head(inbox) = Command("RESET")
    <2>1. \A r : CommandOf(r).cmd # "RESET"
        BY DEF CommandOf, Turn, Stats
    <2>2. QED
        BY <1>1, <2>1, NextCommand
<1>3. /\ outbox' = <<Line("DONE", NoToken, NoRequest)>>
      /\ outbox' \in Seq(Lines) /\ outbox' # <<>>
    BY <1>1, <1>2 DEF Command, Line, Lines
<1>4. Nobody' /\ \A q \in Requests : hpc'[q] \notin {"stats", "turn", "after"}
    BY <1>2 DEF Nobody, InTurn
<1>5. Types' /\ Alone' /\ Fresh' /\ Serving' /\ PosValid'
    BY <1>1, <1>2, <1>3, CapAssumption
       DEF Types, Alone, Fresh, Serving, PosValid, InTurn
<1>6. Queued' /\ Spoken'
    BY <1>1, <1>2, <1>3, <1>4, QueueEmptied DEF Spoken
<1>7. Answering'
    BY <1>4 DEF Answering, InTurn
<1>8. Agreed'
    BY <1>1, <1>3, <1>4 DEF Agreed
<1>9. QED
    BY <1>5, <1>6, <1>7, <1>8

(* The process exits, on a SHUTDOWN or for any other reason.               *)
LEMMA ExitStep ==
    ASSUME SessionInv, sphase' = "exited", inbox' \in Seq(Plain \cup Turns),
           UNCHANGED <<outbox, pos, kv, turn, tok, produced, link, sessionVars>>
    PROVE  SessionInv'
<1> USE DEF SessionInv, sessionVars
<1>1. Types' /\ Alone' /\ Fresh' /\ Serving' /\ PosValid' /\ Queued' /\ Agreed'
    BY DEF Types, Alone, Fresh, Serving, PosValid, Queued, Agreed, InTurn
<1>2. Spoken'
    BY DEF Spoken, Nobody, InTurn, Said
<1>3. Answering'
    BY DEF Answering, InTurn, Said
<1>4. QED
    BY <1>1, <1>2, <1>3

(* A turn that cannot be served is answered with an ERROR; an unreadable   *)
(* header also ends the process.                                           *)
LEMMA RefuseStep ==
    ASSUME SessionInv, BadHeader \/ Refuse, UNCHANGED sessionVars
    PROVE  SessionInv'
<1> USE DEF SessionInv, sessionVars, processVars
<1>1. /\ Reading("TURN") /\ inbox' = Tail(inbox)
      /\ outbox' = Append(outbox, Line("ERROR", NoToken, Head(inbox).req))
      /\ UNCHANGED <<pos, kv, turn, tok, produced, link>>
      /\ sphase' \in {"read", "exited"} /\ sphase = "read"
      /\ \/ ~Head(inbox).readable
         \/ OutOfRange(Head(inbox)) \/ Foreign(Head(inbox))
    BY DEF BadHeader, Refuse, Reading, Say
<1>2. PICK r \in Requests :
             /\ hpc[r] = "turn" /\ Head(inbox) = CommandOf(r)
             /\ outbox = <<>> /\ got[r] = <<>> /\ Said(r) = <<>>
             /\ committed = Held /\ keep \in 0..pos /\ keep < Len(ask[r].ids)
             /\ \A i \in 1..keep : ask[r].ids[i] = kv[i]
             /\ ask[r] \in Asks
             /\ Head(inbox).ids \in Seq(Nat)
             /\ Len(Head(inbox).ids) = Len(ask[r].ids) - keep
             /\ \A i \in 1..Len(Head(inbox).ids) :
                  Head(inbox).ids[i] = ask[r].ids[keep + i]
             /\ Head(inbox).req = r /\ Head(inbox).max = ask[r].max
             /\ Head(inbox).keep = keep /\ Head(inbox).readable = ask[r].readable
    BY <1>1, NextTurn
<1>3. Refusable(ask[r])
    <2>1. /\ ask[r].ids \in Seq(Nat) /\ Len(ask[r].ids) \in Nat /\ ask[r].max \in Int
          /\ pos \in Nat /\ keep \in Nat
        <3>1. ask[r] \in Asks
            BY <1>2
        <3>2. ask[r].ids \in Seq(Nat) /\ ask[r].max \in Int
            BY <3>1, AsksAssumption
        <3>3. pos \in Nat /\ keep \in 0..pos
            BY <1>2 DEF Types
        <3>4. QED
            BY <3>2, <3>3
    <2>2. CASE ~Head(inbox).readable
        BY <1>2, <2>2 DEF Refusable
    <2>3. CASE OutOfRange(Head(inbox))
        <3>1. \/ ask[r].max < 0 \/ keep < 0 \/ keep > pos
              \/ Len(ask[r].ids) - keep = 0 \/ keep + (Len(ask[r].ids) - keep) > Cap
            BY <1>2, <2>3 DEF OutOfRange
        <3>2. ask[r].max < 0 \/ Len(ask[r].ids) > Cap
            BY <1>2, <2>1, <3>1, CapAssumption
        <3>3. QED
            BY <3>2 DEF Refusable
    <2>4. CASE Foreign(Head(inbox))
        <3>1. PICK i \in 1..Len(Head(inbox).ids) : Head(inbox).ids[i] \notin Vocab
            BY <1>2, <2>4 DEF Foreign
        <3>0. /\ Len(Head(inbox).ids) = Len(ask[r].ids) - keep
              /\ \A k \in 1..Len(Head(inbox).ids) :
                   Head(inbox).ids[k] = ask[r].ids[keep + k]
            BY <1>2
        <3>2. /\ Head(inbox).ids[i] = ask[r].ids[keep + i] /\ i \in Nat \ {0}
              /\ i <= Len(ask[r].ids) - keep
            BY <3>0, <3>1
        <3>4. keep + i \in DOMAIN ask[r].ids /\ ask[r].ids[keep + i] \notin Vocab
            <4>1. DOMAIN ask[r].ids = 1..Len(ask[r].ids) /\ Len(ask[r].ids) \in Nat
                BY <2>1
            <4>2. keep \in Nat
                BY <2>1
            <4>3. i \in Nat \ {0} /\ i <= Len(ask[r].ids) - keep
                BY <3>2
            <4>4. keep + i \in 1..Len(ask[r].ids)
                BY <4>1, <4>2, <4>3
            <4>5. QED
                BY <3>1, <3>2, <4>1, <4>4
        <3>3. QED
            BY <3>4 DEF Refusable
    <2>5. QED
        BY <1>1, <2>2, <2>3, <2>4
<1> DEFINE l == Line("ERROR", NoToken, r)
<1>4. l \in Lines /\ l.line = "ERROR" /\ l.req = r
    BY DEF Line, Lines
<1>5. outbox \in Seq(Lines) /\ got[r] \in Seq(Got) /\ ~Ended(outbox)
    BY <1>2 DEF Types, Ended
<1> HIDE DEF l
<1>6. /\ outbox' \in Seq(Lines) /\ outbox' # <<>> /\ Len(outbox') = 1
      /\ outbox'[1] = l /\ Ended(outbox') /\ EndedBy(outbox', "ERROR")
      /\ Out(got[r], outbox') = Out(got[r], outbox)
    <2>1. outbox' = Append(outbox, l) /\ outbox = <<>>
        BY <1>1, <1>2 DEF l
    <2>2. /\ Append(outbox, l) \in Seq(Lines) /\ Append(outbox, l) # <<>>
          /\ Len(Append(outbox, l)) = 1 /\ Append(outbox, l)[1] = l
          /\ Ended(Append(outbox, l)) /\ EndedBy(Append(outbox, l), l.line)
          /\ \A k : k # l.line => ~EndedBy(Append(outbox, l), k)
          /\ Out(got[r], Append(outbox, l)) = Out(got[r], outbox)
        <3>1. l.line # "TOKEN"
            BY <1>4
        <3>2. QED
            BY <2>1, <1>4, <1>5, <3>1, OneLine
    <2>3. QED
        BY <1>4, <1>5, <2>1, <2>2
<1>7. Said(r)' = Said(r)
    BY <1>6 DEF Said
<1>8. ~EndedBy(outbox', "DONE")
    BY <1>6 DEF EndedBy
<1>9. \A q \in Requests : InTurn(q) => q = r
    BY <1>2 DEF Alone, InTurn
<1>10. /\ inbox' \in Seq(Plain \cup Turns)
       /\ \A i \in 1..Len(inbox') : inbox'[i].cmd = "SHUTDOWN"
    BY <1>1, NextCommand DEF Reading
<1>11. Types' /\ Alone' /\ Fresh' /\ Serving' /\ PosValid'
    BY <1>1, <1>6, <1>10 DEF Types, Alone, Fresh, Serving, PosValid, InTurn
<1>12. Queued'
    BY <1>10, QueueEmptied
<1>13. ~Nobody' /\ \A q \in Requests : hpc'[q] \in {"stats", "turn", "after"} => q = r
    BY <1>2, <1>9 DEF Nobody, InTurn
<1>14. Spoken'
    BY <1>2, <1>3, <1>4, <1>6, <1>7, <1>13 DEF Spoken
<1>15. Answering'
    BY <1>2, <1>7, <1>8, <1>13 DEF Answering, InTurn
<1>16. Agreed'
    <2>1. Held' = Held
        BY <1>1 DEF Held
    <2>2. pos \in Nat /\ keep \in Nat /\ keep <= pos
        BY <1>2 DEF Types
    <2>3. QED
        BY <1>1, <1>2, <1>8, <1>13, <2>1, <2>2 DEF Agreed
<1>17. QED
    BY <1>11, <1>12, <1>14, <1>15, <1>16

(* The cache as a text.                                                    *)
LEMMA HeldIsContext ==
    ASSUME NEW n \in 1..Cap, NEW k \in [Positions -> Vocab \cup {NoToken, Empty, Lost}],
           \A p \in 1..n : k[p] \in Vocab, link # "down"
    PROVE  /\ Sampled(k, n) = Likely([p \in 1..n |-> k[p]])
           /\ Sampled(k, n) \subseteq Vocab
<1>1. {q \in Positions : q <= n} = 1..n
    BY CapAssumption DEF Positions
<1>2. [p \in {q \in Positions : q <= n} |-> k[p]] = [p \in 1..n |-> k[p]]
    BY <1>1
<1>3. [p \in 1..n |-> k[p]] \in Contexts
    <2>1. [p \in 1..n |-> k[p]] \in [1..n -> Vocab]
        OBVIOUS
    <2>2. QED
        BY <2>1 DEF Contexts
<1>4. QED
    BY <1>2, <1>3, ModelAssumption DEF Sampled

(* A TURN begins: its new ids are consumed after the prefix it keeps.      *)
LEMMA BeginTurnStep ==
    ASSUME SessionInv, link # "down", BeginTurn, UNCHANGED sessionVars
    PROVE  SessionInv'
<1> USE DEF SessionInv, sessionVars
<1> DEFINE t == Head(inbox)
<1>1. /\ Reading("TURN") /\ inbox' = Tail(inbox) /\ t.readable
      /\ ~OutOfRange(t) /\ ~Foreign(t)
      /\ turn' = t /\ pos' = t.keep + Len(t.ids)
      /\ kv' = Prefilled(kv, t.keep, t.ids)
      /\ tok' \in Sampled(kv', pos')
      /\ produced' = 0 /\ sphase' = "emit" /\ sphase = "read"
      /\ UNCHANGED <<outbox, link>>
    BY DEF BeginTurn, Reading
<1>2. PICK r \in Requests :
             /\ hpc[r] = "turn" /\ Head(inbox) = CommandOf(r)
             /\ outbox = <<>> /\ got[r] = <<>> /\ Said(r) = <<>>
             /\ committed = Held /\ keep \in 0..pos /\ keep < Len(ask[r].ids)
             /\ \A i \in 1..keep : ask[r].ids[i] = kv[i]
             /\ ask[r] \in Asks
             /\ Head(inbox).ids \in Seq(Nat)
             /\ Len(Head(inbox).ids) = Len(ask[r].ids) - keep
             /\ \A i \in 1..Len(Head(inbox).ids) :
                  Head(inbox).ids[i] = ask[r].ids[keep + i]
             /\ Head(inbox).req = r /\ Head(inbox).max = ask[r].max
             /\ Head(inbox).keep = keep /\ Head(inbox).readable = ask[r].readable
    BY <1>1, NextTurn
<1> DEFINE a == ask[r].ids
           n == Len(a)
<1>3. /\ a \in Seq(Nat) /\ n \in Nat \ {0} /\ ask[r].max \in Int \ {0}
      /\ pos \in 0..Cap /\ Cap \in Nat \ {0} /\ keep \in 0..pos /\ keep < n
    BY <1>2, AsksAssumption, CapAssumption, EmptySeq DEF Types
<1>4. /\ t.ids \in Seq(Nat) /\ Len(t.ids) = n - keep /\ t.keep = keep
      /\ \A i \in 1..(n - keep) : t.ids[i] = a[keep + i]
      /\ t.req = r /\ t.max = ask[r].max
    BY <1>2
<1> HIDE DEF t
<1>5. ask[r].max >= 0 /\ n <= Cap
    <2>1. ~(t.max < 0) /\ ~(keep + (n - keep) > Cap)
        BY <1>1, <1>4 DEF OutOfRange
    <2>2. QED
        BY <1>3, <1>4, <2>1
<1>6. \A i \in 1..(n - keep) : a[keep + i] \in Vocab
    BY <1>1, <1>4 DEF Foreign
<1>7. pos' = n
    BY <1>1, <1>3, <1>4
<1>8. \A p \in Positions : kv'[p] = IF p \in keep + 1 .. n THEN a[p] ELSE kv[p]
    <2> SUFFICES ASSUME NEW p \in Positions
                 PROVE  kv'[p] = IF p \in keep + 1 .. n THEN a[p] ELSE kv[p]
        OBVIOUS
    <2>1. keep + (n - keep) = n
        BY <1>3
    <2>2. kv'[p] = IF p \in keep + 1 .. n THEN t.ids[p - keep] ELSE kv[p]
        BY <1>1, <1>4, <2>1 DEF Prefilled, Consumed
    <2>3. ASSUME p \in keep + 1 .. n PROVE t.ids[p - keep] = a[p]
        <3>1. p - keep \in 1..(n - keep) /\ keep + (p - keep) = p
            BY <1>3, <2>3 DEF Positions
        <3>2. QED
            BY <1>4, <3>1
    <2>4. QED
        BY <2>2, <2>3
<1>9. \A p \in 1..n : kv'[p] = a[p] /\ kv'[p] \in Vocab
    <2> SUFFICES ASSUME NEW p \in 1..n PROVE kv'[p] = a[p] /\ kv'[p] \in Vocab
        OBVIOUS
    <2>1. p \in Positions
        BY <1>3, <1>5 DEF Positions
    <2>2. CASE p \in keep + 1 .. n
        <3>1. p - keep \in 1..(n - keep) /\ keep + (p - keep) = p
            BY <1>3, <2>2
        <3>2. QED
            BY <1>6, <1>8, <2>1, <2>2, <3>1
    <2>3. CASE p \in 1..keep
        <3>1. p \in 1..pos /\ ~(p \in keep + 1 .. n)
            BY <1>3, <2>3
        <3>2. QED
            BY <1>2, <1>8, <2>1, <2>3, <3>1 DEF PosValid
    <2>4. QED
        BY <1>3, <2>2, <2>3
<1>10. kv' \in [Positions -> Vocab \cup {NoToken, Empty, Lost}]
    <2>1. kv' = [p \in Positions |-> kv'[p]]
        BY <1>1 DEF Prefilled
    <2>2. \A p \in Positions : kv'[p] \in Vocab \cup {NoToken, Empty, Lost}
        <3>1. \A p \in keep + 1 .. n : p \in 1..n
            BY <1>3
        <3>2. \A p \in Positions : kv[p] \in Vocab \cup {NoToken, Empty, Lost}
            BY DEF Types
        <3>3. QED
            BY <1>8, <1>9, <3>1, <3>2
    <2>3. QED
        BY <2>1, <2>2
<1>11. /\ tok' \in Likely([p \in 1..n |-> kv'[p]]) /\ tok' \in Vocab
    <2>1. n \in 1..Cap
        BY <1>3, <1>5
    <2>2. Sampled(kv', n) = Likely([p \in 1..n |-> kv'[p]]) /\ Sampled(kv', n) \subseteq Vocab
        BY <1>9, <1>10, <2>1, HeldIsContext
    <2>3. QED
        BY <1>1, <1>7, <2>2
<1>12. Said(r)' = <<>> /\ Len(Said(r)') = 0 /\ ~Ended(outbox')
    BY <1>1, <1>2 DEF Said, Ended
<1>13. Held' = Text(ask[r], <<>>, 0) /\ Held' = [p \in 1..n |-> kv'[p]]
    BY <1>3, <1>7, <1>9 DEF Held, Text
<1>14. \A q \in Requests : InTurn(q) => q = r
    BY <1>2 DEF Alone, InTurn
<1>15. /\ inbox' \in Seq(Plain \cup Turns)
       /\ \A i \in 1..Len(inbox') : inbox'[i].cmd = "SHUTDOWN"
    BY <1>1, NextCommand DEF Reading
<1>16. Types'
    <2>1. pos' \in 0..Cap /\ turn'.keep + Len(turn'.ids) <= Cap /\ turn'.req \in Requests
        BY <1>1, <1>3, <1>4, <1>5, <1>7
    <2>2. produced' \in 0..Cap
        BY <1>1, <1>3
    <2>3. sphase' = "emit" /\ UNCHANGED <<outbox, link>>
        BY <1>1
    <2>4. QED
        BY <1>10, <1>11, <1>15, <2>1, <2>2, <2>3 DEF Types
<1>17. Alone' /\ Fresh' /\ PosValid'
    BY <1>1, <1>7, <1>9 DEF Alone, Fresh, PosValid, InTurn
<1>18. Queued'
    BY <1>15, QueueEmptied
<1>19. ~Nobody' /\ \A q \in Requests : hpc'[q] \in {"stats", "turn", "after"} => q = r
    BY <1>2, <1>14 DEF Nobody, InTurn
<1>20. outbox' = <<>> /\ outbox' = outbox /\ Said(r)' = Said(r)
    BY <1>1, <1>2 DEF Said
<1>21. Spoken'
    BY <1>1, <1>2, <1>12, <1>19, <1>20 DEF Spoken, EndedBy
<1>22. Answering'
    BY <1>2, <1>19, <1>20 DEF Answering, InTurn, EndedBy
<1>23. Serving'
    <2>1. /\ turn'.req = r /\ hpc'[r] = "turn" /\ turn'.max = ask'[r].max
          /\ produced' = 0 /\ 0 <= turn'.max /\ pos' = Len(ask'[r].ids) + 0
        BY <1>1, <1>2, <1>3, <1>4, <1>5, <1>7
    <2>2. QED
        BY <1>1, <1>11, <1>12, <1>13, <2>1 DEF Serving
<1>24. Agreed'
    BY <1>1, <1>2, <1>19 DEF Agreed
<1>25. QED
    BY <1>16, <1>17, <1>18, <1>21, <1>22, <1>23, <1>24

(* The request being served, and what has been said to it.                 *)
LEMMA Served ==
    ASSUME SessionInv, sphase \in {"emit", "forward"}
    PROVE  /\ turn.req \in Requests /\ hpc[turn.req] = "turn" /\ ask[turn.req] \in Asks
           /\ ask[turn.req].ids \in Seq(Nat) /\ Len(ask[turn.req].ids) \in Nat \ {0}
           /\ ask[turn.req].max \in Int \ {0}
           /\ outbox \in Seq(Lines) /\ got[turn.req] \in Seq(Got)
           /\ Said(turn.req) \in Seq(Vocab \cup {NoToken})
           /\ Len(Said(turn.req)) \in Nat
           /\ ~Ended(outbox) /\ turn.max = ask[turn.req].max
           /\ produced = Len(Said(turn.req)) /\ produced <= turn.max
           /\ pos \in 0..Cap /\ Cap \in Nat \ {0}
           /\ Generated(ask[turn.req], Said(turn.req))
           /\ ~Nobody /\ \A q \in Requests : InTurn(q) => q = turn.req
           /\ \A i \in 1..Len(inbox) : inbox[i].cmd = "SHUTDOWN"
<1> USE DEF SessionInv
<1>1. /\ turn.req \in Requests /\ hpc[turn.req] = "turn" /\ ~Ended(outbox)
      /\ turn.max = ask[turn.req].max /\ produced = Len(Said(turn.req))
      /\ produced <= turn.max
    BY DEF Serving
<1>2. /\ outbox \in Seq(Lines) /\ got[turn.req] \in Seq(Got) /\ pos \in 0..Cap
      /\ ask[turn.req] \in Asks
    BY <1>1 DEF Types
<1>3. /\ ask[turn.req].ids \in Seq(Nat) /\ Len(ask[turn.req].ids) \in Nat \ {0}
      /\ ask[turn.req].max \in Int \ {0}
    BY <1>2, AsksAssumption, EmptySeq
<1>4. Said(turn.req) \in Seq(Vocab \cup {NoToken})
    BY <1>2, OutIs DEF Said
<1>5. Len(Said(turn.req)) \in Nat
    BY <1>4
<1>6. InTurn(turn.req)
    BY <1>1 DEF InTurn
<1>7. Generated(ask[turn.req], Said(turn.req))
    BY <1>1, <1>6 DEF Answering
<1>8. ~Nobody /\ \A q \in Requests : InTurn(q) => q = turn.req
    BY <1>1, <1>6 DEF Nobody, Alone
<1>9. \A i \in 1..Len(inbox) : inbox[i].cmd = "SHUTDOWN"
    BY DEF Queued
<1>10. QED
    BY <1>1, <1>2, <1>3, <1>4, <1>5, <1>7, <1>8, <1>9, CapAssumption

(* A token is printed before it is consumed.                               *)
LEMMA EmitStep ==
    ASSUME SessionInv, link # "down", Emit, UNCHANGED sessionVars
    PROVE  SessionInv'
<1> USE DEF SessionInv, sessionVars
<1>0. sphase = "emit" /\ turn.req \in Requests
    BY Served DEF Emit
<1> PICK r \in Requests : r = turn.req
    BY <1>0
<1> DEFINE a == ask[r]
           o == Said(r)
           n == Len(o)
           q == Said(r)'
           l == Line("TOKEN", tok, r)
<1>1. /\ sphase = "emit" /\ ~Full /\ outbox' = Append(outbox, l)
      /\ produced' = produced + 1 /\ sphase' = "forward"
      /\ UNCHANGED <<inbox, pos, kv, turn, tok, link>>
    BY DEF Emit, Say
<1>2. /\ r \in Requests /\ hpc[r] = "turn" /\ a \in Asks
      /\ Len(a.ids) \in Nat \ {0} /\ a.max \in Int \ {0}
      /\ outbox \in Seq(Lines) /\ got[r] \in Seq(Got)
      /\ o \in Seq(Vocab \cup {NoToken}) /\ n \in Nat
      /\ ~Ended(outbox) /\ turn.max = a.max
      /\ produced = n /\ produced <= turn.max
      /\ pos \in 0..Cap /\ Cap \in Nat \ {0} /\ Generated(a, o)
      /\ ~Nobody /\ \A p \in Requests : InTurn(p) => p = r
      /\ \A i \in 1..Len(inbox) : inbox[i].cmd = "SHUTDOWN"
    BY <1>1, Served
<1>3. /\ pos = Len(a.ids) + n /\ Held = Text(a, o, n) /\ tok \in Likely(Held)
      /\ n > 0 => o[n] \notin StopIds
    BY <1>1 DEF Serving
<1> HIDE DEF a, n, o
<1>4. pos < Cap /\ n < a.max /\ n + 1 <= a.max
    BY <1>1, <1>2 DEF Full
<1>5. tok \in Vocab
    <2>1. pos \in 1..Cap
        BY <1>2, <1>3
    <2>2. Held \in [1..pos -> Vocab]
        BY DEF Held, PosValid
    <2>3. Held \in Contexts
        BY <2>1, <2>2 DEF Contexts
    <2>4. QED
        BY <1>3, <2>3, ModelAssumption
<1>6. l \in Lines /\ l.line = "TOKEN" /\ l.tok = tok /\ l.req = r
    BY <1>2, <1>5 DEF Line, Lines
<1> HIDE DEF l
<1>7. /\ outbox' \in Seq(Lines) /\ ~Ended(outbox')
      /\ q \in Seq(Vocab \cup {NoToken})
      /\ Len(q) = n + 1 /\ \A i \in 1..n : q[i] = o[i]
      /\ q[n + 1] = tok
    <2>1. /\ Append(outbox, l) \in Seq(Lines) /\ ~Ended(Append(outbox, l))
          /\ Len(Out(got[r], Append(outbox, l))) = Len(Out(got[r], outbox)) + 1
          /\ \A i \in 1..Len(Out(got[r], outbox)) :
                Out(got[r], Append(outbox, l))[i] = Out(got[r], outbox)[i]
          /\ Out(got[r], Append(outbox, l))[Len(Out(got[r], outbox)) + 1] = l.tok
        BY <1>2, <1>6, OutToken
    <2>2. q = Out(got[r], Append(outbox, l))
        BY <1>1 DEF Said
    <2>3. q \in Seq(Vocab \cup {NoToken})
        BY <1>2, <2>1, <2>2, OutIs
    <2>4. QED
        BY <1>1, <1>6, <2>1, <2>2, <2>3 DEF Said, n, o
<1>8. /\ Len(outbox') = Len(outbox) + 1 /\ Len(outbox) \in Nat
      /\ \A i \in 1..Len(outbox) : outbox'[i] = outbox[i]
      /\ outbox'[Len(outbox) + 1] = l
    BY <1>1, <1>2, <1>6, AppendProperties
<1> HIDE DEF q
<1>9. Generated(a, q)
    <2>1. ~Over(a, o, n)
        BY <1>2, <1>3, <1>4 DEF Over
    <2>2. q[n + 1] \in Likely(Text(a, o, n))
        BY <1>3, <1>7
    <2>3. QED
        BY <1>2, <1>7, <2>1, <2>2, GeneratedMore DEF n
<1>10. Text(a, q, n) = Text(a, o, n)
    BY <1>2, <1>7, TextSame
<1>11. a' = a /\ turn'.req = r
    BY <1>1 DEF a
<1>12. Types'
    <2>1. produced' \in 0..Cap
        <3>1. produced' = n + 1 /\ n \in Nat
            BY <1>1, <1>2
        <3>2. pos = Len(a.ids) + n /\ Len(a.ids) \in Nat \ {0}
            BY <1>2, <1>3
        <3>3. pos < Cap /\ Cap \in Nat \ {0}
            BY <1>2, <1>4
        <3>4. QED
            BY <3>1, <3>2, <3>3
    <2>2. QED
        BY <1>1, <1>7, <2>1 DEF Types
<1>13. Alone' /\ Fresh' /\ PosValid'
    BY <1>1 DEF Alone, Fresh, PosValid, InTurn
<1>14. Queued'
    BY <1>1, <1>2, QueueEmptied
<1>15. ~Nobody' /\ \A p \in Requests : hpc'[p] \in {"stats", "turn", "after"} => p = r
    BY <1>2 DEF Nobody, InTurn
<1>16. Spoken'
    <2>1. \A i \in 1..Len(outbox) : outbox[i].req = r
               /\ (outbox[i].line = "TOKEN" => outbox[i].tok \in Vocab)
               /\ (outbox[i].line # "TOKEN" => 
                     i = Len(outbox) /\ outbox[i].line \in {"DONE", "ERROR"})
        BY <1>2 DEF Spoken
    <2>2. \A i \in 1..Len(outbox) : outbox[i].line = "TOKEN"
        BY <1>2, <1>8, <2>1 DEF Ended
    <2>3. ASSUME NEW i \in 1..Len(outbox')
          PROVE  /\ outbox'[i].req = r /\ outbox'[i].line = "TOKEN"
                 /\ outbox'[i].tok \in Vocab
        <3>1. CASE i \in 1..Len(outbox)
            BY <1>8, <2>1, <2>2, <3>1
        <3>2. CASE i = Len(outbox) + 1
            BY <1>5, <1>6, <1>8, <3>2
        <3>3. QED
            BY <1>8, <3>1, <3>2
    <2>4. ~EndedBy(outbox', "ERROR")
        BY <1>7 DEF Ended, EndedBy
    <2>5. hpc'[r] = "turn" /\ sphase' = "forward"
        BY <1>1, <1>2
    <2>6. QED
        BY <1>15, <2>3, <2>4, <2>5 DEF Spoken
<1>17. Answering'
    <2>1. ~EndedBy(outbox', "DONE") /\ hpc'[r] = "turn"
        BY <1>2, <1>7 DEF Ended, EndedBy
    <2>2. Generated(ask[r], Said(r))'
        BY <1>9, <1>11 DEF a, q
    <2>3. \A p \in Requests : InTurn(p)' => p = r
        BY <1>15 DEF InTurn
    <2>4. \A p \in Requests : \A i \in 1..Len(got'[p]) : got'[p][i].req = p
        BY DEF Answering
    <2>5. QED
        BY <1>15, <2>1, <2>2, <2>3, <2>4 DEF Answering
<1>18. Serving'
    <2>1. Held' = Held
        BY <1>1 DEF Held
    <2>2. /\ turn'.req = r /\ r \in Requests /\ hpc'[r] = "turn" /\ ~Ended(outbox')
          /\ turn'.max = ask'[r].max /\ produced' = n + 1 /\ n + 1 <= turn'.max
        BY <1>1, <1>2, <1>4, <1>7, <1>11 DEF a
    <2>3. /\ n + 1 > 0 /\ pos' = Len(ask'[r].ids) + (n + 1) - 1 /\ pos' < Cap
          /\ Held' = Text(ask'[r], q, (n + 1) - 1) /\ tok' = q[n + 1]
        <3>0. n \in Nat /\ Len(a.ids) \in Nat
            BY <1>2
        <3>1. (n + 1) - 1 = n /\ Len(a.ids) + (n + 1) - 1 = Len(a.ids) + n /\ n + 1 > 0
            BY <3>0
        <3>2. ask'[r] = a /\ tok' = tok /\ pos' = pos
            BY <1>1 DEF a
        <3>3. Held' = Text(a, q, n)
            BY <1>3, <1>10, <2>1
        <3>4. QED
            BY <1>3, <1>4, <1>7, <3>1, <3>2, <3>3
    <2>4. sphase' = "forward" /\ Said(r)' = q /\ Len(q) = n + 1
        BY <1>1, <1>7 DEF q
    <2>5. QED
        BY <2>2, <2>3, <2>4 DEF Serving
<1>19. Agreed'
    BY <1>1, <1>2, <1>15 DEF Agreed
<1>20. QED
    BY <1>12, <1>13, <1>14, <1>16, <1>17, <1>18, <1>19

(* The answer is complete: its DONE is printed and the turn is over, with  *)
(* cache k of p positions.                                                 *)
LEMMA TurnOverStep ==
    ASSUME SessionInv, link # "down", sphase \in {"emit", "forward"}, TurnOver,
           UNCHANGED <<inbox, link, sessionVars>>,
           pos' = Len(ask[turn.req].ids) + Len(Said(turn.req)), pos' \in 0..Cap,
           kv' \in [Positions -> Vocab \cup {NoToken, Empty, Lost}],
           Held' = Text(ask[turn.req], Said(turn.req), Len(Said(turn.req))),
           \A p \in 1..pos' : kv'[p] \in Vocab,
           Over(ask[turn.req], Said(turn.req), Len(Said(turn.req)))
    PROVE  SessionInv'
<1> USE DEF SessionInv, sessionVars
<1> PICK r \in Requests : r = turn.req
    BY Served
<1> DEFINE l == Line("DONE", NoToken, r)
<1>1. /\ outbox' = Append(outbox, l) /\ sphase' = "read" /\ turn' = NoTurn
      /\ tok' = NoToken /\ produced' = 0
    BY DEF TurnOver, Say
<1>2. /\ r \in Requests /\ hpc[r] = "turn" /\ ask[r] \in Asks
      /\ outbox \in Seq(Lines) /\ got[r] \in Seq(Got)
      /\ ~Ended(outbox) /\ Generated(ask[r], Said(r))
      /\ ~Nobody /\ \A p \in Requests : InTurn(p) => p = r
      /\ \A i \in 1..Len(inbox) : inbox[i].cmd = "SHUTDOWN"
    BY Served
<1>3. l \in Lines /\ l.line = "DONE" /\ l.req = r
    BY <1>2 DEF Line, Lines
<1> HIDE DEF l
<1>4. /\ outbox' \in Seq(Lines) /\ outbox' # <<>> /\ Ended(outbox')
      /\ EndedBy(outbox', "DONE") /\ Len(outbox') = Len(outbox) + 1
      /\ outbox'[Len(outbox) + 1] = l
      /\ \A i \in 1..Len(outbox) : outbox'[i] = outbox[i]
      /\ Out(got[r], outbox') = Out(got[r], outbox)
    <2>1. /\ Append(outbox, l) \in Seq(Lines) /\ Append(outbox, l) # <<>>
          /\ Ended(Append(outbox, l)) /\ EndedBy(Append(outbox, l), l.line)
          /\ Len(Append(outbox, l)) = Len(outbox) + 1
          /\ Append(outbox, l)[Len(outbox) + 1] = l
          /\ \A i \in 1..Len(outbox) : Append(outbox, l)[i] = outbox[i]
          /\ Out(got[r], Append(outbox, l)) = Out(got[r], outbox)
        BY <1>2, <1>3, OutEnds
    <2>2. QED
        BY <1>1, <1>3, <2>1
<1>5. Said(r)' = Said(r)
    BY <1>4 DEF Said
<1>6. ~EndedBy(outbox', "ERROR")
    BY <1>4 DEF EndedBy
<1>7. ~Nobody' /\ \A p \in Requests : hpc'[p] \in {"stats", "turn", "after"} => p = r
    BY <1>2 DEF Nobody, InTurn
<1>8. Types'
    <2>1. /\ turn'.req = NoRequest /\ turn'.keep = 0 /\ turn'.ids = <<>>
          /\ turn'.keep + Len(turn'.ids) <= Cap /\ produced' \in 0..Cap
        BY <1>1, CapAssumption DEF NoTurn
    <2>2. inbox' \in Seq(Plain \cup Turns)
        BY DEF Types
    <2>3. QED
        BY <1>1, <1>4, <2>1, <2>2 DEF Types
<1>9. Alone' /\ Fresh' /\ PosValid' /\ Serving'
    BY <1>1 DEF Alone, Fresh, PosValid, InTurn, Serving
<1>10. Queued'
    BY <1>2, QueueEmptied
<1>11. Spoken'
    <2>1. \A i \in 1..Len(outbox) : outbox[i].req = r
               /\ (outbox[i].line = "TOKEN" => outbox[i].tok \in Vocab)
               /\ (outbox[i].line # "TOKEN" => 
                     i = Len(outbox) /\ outbox[i].line \in {"DONE", "ERROR"})
        BY <1>2 DEF Spoken
    <2>2. \A i \in 1..Len(outbox) : outbox[i].line = "TOKEN"
        BY <1>2, <2>1 DEF Ended
    <2>3. ASSUME NEW i \in 1..Len(outbox')
          PROVE  /\ outbox'[i].req = r
                 /\ outbox'[i].line = "TOKEN" => outbox'[i].tok \in Vocab
                 /\ outbox'[i].line # "TOKEN" =>
                      i = Len(outbox') /\ outbox'[i].line \in {"DONE", "ERROR"}
        <3>1. CASE i \in 1..Len(outbox)
            BY <1>4, <2>1, <2>2, <3>1
        <3>2. CASE i = Len(outbox) + 1
            BY <1>3, <1>4, <3>2
        <3>3. QED
            BY <1>2, <1>4, <3>1, <3>2
    <2>4. hpc'[r] = "turn"
        BY <1>2
    <2>5. QED
        <3>1. \A p \in Requests : hpc'[p] \notin {"stats", "after"}
            BY <1>7, <2>4
        <3>2. \A p \in Requests : hpc'[p] = "turn" => p = r
            BY <1>7
        <3>3. /\ \A i \in 1..Len(outbox') :
                   /\ outbox'[i].req = r
                   /\ outbox'[i].line = "TOKEN" => outbox'[i].tok \in Vocab
                   /\ outbox'[i].line # "TOKEN" =>
                        i = Len(outbox') /\ outbox'[i].line \in {"DONE", "ERROR"}
              /\ Ended(outbox') /\ ~EndedBy(outbox', "ERROR")
            BY <1>4, <1>6, <2>3
        <3>4. ASSUME NEW p \in Requests, hpc'[p] = "turn"
              PROVE  /\ \A i \in 1..Len(outbox') :
                          /\ outbox'[i].req = p
                          /\ outbox'[i].line = "TOKEN" => outbox'[i].tok \in Vocab
                          /\ outbox'[i].line # "TOKEN" =>
                               i = Len(outbox') /\ outbox'[i].line \in {"DONE", "ERROR"}
                     /\ Ended(outbox') /\ ~EndedBy(outbox', "ERROR")
            BY <3>2, <3>3, <3>4
        <3>5. QED
            BY <1>7, <3>1, <3>4 DEF Spoken
<1>12. Answering'
    <2>1. Generated(ask[r], Said(r))' /\ Over(ask[r], Said(r), Len(Said(r)))'
        BY <1>2, <1>5
    <2>2. \A p \in Requests : InTurn(p)' => p = r
        BY <1>7 DEF InTurn
    <2>3. \A p \in Requests : \A i \in 1..Len(got'[p]) : got'[p][i].req = p
        BY DEF Answering
    <2>4. QED
        BY <1>7, <2>1, <2>2, <2>3 DEF Answering
<1>13. Agreed'
    <2>1. hpc'[r] = "turn"
        BY <1>2
    <2>2. /\ pos' = Len(ask'[r].ids) + Len(Said(r)')
          /\ Held' = Text(ask'[r], Said(r)', Len(Said(r)'))
        BY <1>5
    <2>3. QED
        BY <1>1, <1>4, <1>7, <2>1, <2>2 DEF Agreed
<1>14. QED
    BY <1>8, <1>9, <1>10, <1>11, <1>12, <1>13

(* The limits at the head of the decoding loop.                            *)
LEMMA EndTurnStep ==
    ASSUME SessionInv, link # "down", EndTurn, UNCHANGED sessionVars
    PROVE  SessionInv'
<1>0. sphase = "emit" /\ turn.req \in Requests
    BY Served DEF EndTurn
<1> PICK r \in Requests : r = turn.req
    BY <1>0
<1> DEFINE n == Len(Said(r))
<1>1. /\ sphase = "emit" /\ Full /\ TurnOver /\ UNCHANGED <<inbox, pos, kv, link>>
    BY DEF EndTurn
<1>2. /\ produced = n /\ produced <= turn.max /\ turn.max = ask[r].max
      /\ n \in Nat /\ ask[r].max \in Int \ {0} /\ pos \in 0..Cap
      /\ Len(ask[r].ids) \in Nat \ {0} /\ Cap \in Nat \ {0}
    BY <1>1, Served
<1>3. pos = Len(ask[r].ids) + n /\ Held = Text(ask[r], Said(r), n)
    BY <1>1 DEF Serving, SessionInv
<1> HIDE DEF n
<1>4. Over(ask[r], Said(r), n)
    <2>1. n >= ask[r].max \/ Len(ask[r].ids) + n >= Cap
        BY <1>1, <1>2, <1>3 DEF Full
    <2>2. n = ask[r].max \/ Len(ask[r].ids) + n >= Cap
        BY <1>2, <2>1
    <2>3. QED
        BY <2>2 DEF Over
<1>5. Held' = Held
    BY <1>1 DEF Held
<1>6. /\ kv \in [Positions -> Vocab \cup {NoToken, Empty, Lost}]
      /\ \A p \in 1..pos : kv[p] \in Vocab
    BY DEF SessionInv, Types, PosValid
<1>7. QED
    BY <1>1, <1>2, <1>3, <1>4, <1>5, <1>6, TurnOverStep DEF n

(* The printed token is consumed.                                          *)
LEMMA ForwardStep ==
    ASSUME SessionInv, link # "down", Forward, UNCHANGED sessionVars
    PROVE  SessionInv'
<1> USE DEF SessionInv, sessionVars
<1>0. sphase = "forward" /\ turn.req \in Requests
    BY Served DEF Forward
<1> PICK r \in Requests : r = turn.req
    BY <1>0
<1> DEFINE a == ask[r]
           o == Said(r)
           n == Len(o)
<1>1. /\ sphase = "forward" /\ kv' = [kv EXCEPT ![pos + 1] = tok] /\ pos' = pos + 1
      /\ UNCHANGED <<inbox, link>>
      /\ \/ tok \in StopIds /\ TurnOver
         \/ /\ tok \notin StopIds
            /\ \E f \in Sampled(kv', pos') : tok' = IF f \in Vocab THEN f ELSE Zero
            /\ sphase' = "emit" /\ UNCHANGED <<outbox, turn, produced>>
    BY DEF Forward, Consume, Written, Consumed
<1>2. /\ hpc[r] = "turn" /\ a \in Asks
      /\ Len(a.ids) \in Nat \ {0} /\ a.ids \in Seq(Nat)
      /\ o \in Seq(Vocab \cup {NoToken}) /\ n \in Nat
      /\ ~Ended(outbox) /\ turn.max = a.max
      /\ produced = n /\ produced <= turn.max
      /\ pos \in 0..Cap /\ Cap \in Nat \ {0} /\ Generated(a, o)
      /\ ~Nobody /\ \A p \in Requests : InTurn(p) => p = r
      /\ \A i \in 1..Len(inbox) : inbox[i].cmd = "SHUTDOWN"
    BY <1>0, Served
<1>3. /\ n > 0 /\ pos = Len(a.ids) + n - 1 /\ pos < Cap
      /\ Held = Text(a, o, n - 1) /\ tok = o[n]
    BY <1>0 DEF Serving
<1>4. /\ kv \in [Positions -> Vocab \cup {NoToken, Empty, Lost}]
      /\ \A p \in 1..pos : kv[p] \in Vocab
    BY DEF Types, PosValid
<1> HIDE DEF a, n, o
<1>5. pos \in 1..Cap /\ pos + 1 \in 1..Cap /\ pos + 1 = Len(a.ids) + n
    <2>1. n \in Nat /\ n > 0 /\ Len(a.ids) \in Nat \ {0}
        BY <1>2, <1>3
    <2>2. pos \in 0..Cap /\ Cap \in Nat \ {0} /\ pos < Cap
        BY <1>2, <1>3
    <2>3. pos = Len(a.ids) + n - 1
        BY <1>3
    <2>4. QED
        BY <2>1, <2>2, <2>3
<1>6. tok \in Vocab
    <2>1. Held \in [1..pos -> Vocab]
        BY <1>4 DEF Held
    <2>2. Held \in Contexts
        BY <1>5, <2>1 DEF Contexts
    <2>3. n - 1 \in 0..(n - 1) /\ (n - 1) + 1 = n
        BY <1>2, <1>3
    <2>4. o[n] \in Likely(Text(a, o, n - 1))
        <3>1. n - 1 \in 0..(Len(o) - 1)
            BY <2>3 DEF n
        <3>2. o[(n - 1) + 1] \in Likely(Text(a, o, n - 1))
            BY <1>2, <3>1 DEF Generated
        <3>3. QED
            BY <2>3, <3>2
    <2>5. QED
        BY <1>3, <2>2, <2>4, ModelAssumption
<1>7. /\ kv' \in [Positions -> Vocab \cup {NoToken, Empty, Lost}]
      /\ kv'[pos + 1] = tok /\ \A p \in 1..pos : kv'[p] = kv[p]
      /\ \A p \in 1..pos' : kv'[p] \in Vocab
    <2>1. pos + 1 \in Positions /\ \A p \in 1..pos : p \in Positions /\ p # pos + 1
        BY <1>2, <1>5 DEF Positions
    <2>2. \A p \in 1..(pos + 1) : p \in 1..pos \/ p = pos + 1
        BY <1>5
    <2>3. QED
        BY <1>1, <1>4, <1>6, <2>1, <2>2
<1>8. Held' = Text(a, o, n) /\ Held' = [p \in 1..pos' |-> kv'[p]]
    <2>1. \A p \in 1..pos : kv[p] = Text(a, o, n - 1)[p]
        <3>1. \A p \in 1..pos : Held[p] = kv[p]
            BY DEF Held
        <3>2. QED
            BY <1>3, <3>1
    <2>2. ASSUME NEW p \in 1..(Len(a.ids) + n)
          PROVE  kv'[p] = IF p <= Len(a.ids) THEN a.ids[p] ELSE o[p - Len(a.ids)]
        <3>1. CASE p \in 1..pos
            <4>1. p \in 1..(Len(a.ids) + (n - 1))
                BY <1>2, <1>3, <3>1
            <4>2. Text(a, o, n - 1)[p]
                    = IF p <= Len(a.ids) THEN a.ids[p] ELSE o[p - Len(a.ids)]
                BY <4>1 DEF Text
            <4>3. QED
                BY <1>7, <2>1, <3>1, <4>2
        <3>2. CASE p = pos + 1
            <4>1. ~(p <= Len(a.ids)) /\ p - Len(a.ids) = n
                BY <1>2, <1>3, <1>5, <3>2
            <4>2. QED
                BY <1>3, <1>7, <3>2, <4>1
        <3>3. QED
            BY <1>5, <3>1, <3>2
    <2>3. pos' = Len(a.ids) + n
        BY <1>1, <1>5
    <2>4. QED
        BY <2>2, <2>3 DEF Held, Text
<1>9. ASSUME tok \in StopIds, TurnOver
      PROVE  SessionInv'
    <2>1. Over(a, o, n)
        BY <1>3, <1>9 DEF Over
    <2>2. pos' = Len(a.ids) + n /\ pos' \in 0..Cap
        BY <1>1, <1>5
    <2>3. QED
        BY <1>0, <1>1, <1>7, <1>8, <1>9, <2>1, <2>2, TurnOverStep DEF a, n, o
<1>10. ASSUME tok \notin StopIds, NEW f \in Sampled(kv', pos'),
              tok' = IF f \in Vocab THEN f ELSE Zero, sphase' = "emit",
              UNCHANGED <<outbox, turn, produced>>
       PROVE  SessionInv'
    <2>1. tok' \in Likely(Held') /\ tok' \in Vocab
        <3>1. pos' \in 1..Cap
            BY <1>1, <1>5
        <3>2. Sampled(kv', pos') = Likely(Held') /\ Sampled(kv', pos') \subseteq Vocab
            BY <1>7, <1>8, <3>1, HeldIsContext
        <3>3. QED
            BY <1>10, <3>2
    <2>2. Said(r)' = o /\ a' = a
        BY <1>10 DEF Said, a, o
    <2>3. Types'
        <3>1. pos' \in 0..Cap
            BY <1>1, <1>5
        <3>2. QED
            BY <1>1, <1>7, <1>10, <2>1, <3>1 DEF Types
    <2>4. Alone' /\ Fresh' /\ PosValid'
        BY <1>7 DEF Alone, Fresh, PosValid, InTurn
    <2>5. Queued'
        BY <1>1, <1>2, QueueEmptied
    <2>6. ~Nobody' /\ \A q \in Requests : hpc'[q] \in {"stats", "turn", "after"} => q = r
        BY <1>2 DEF Nobody, InTurn
    <2>7. Spoken'
        <3>1. \A q \in Requests : Said(q)' = Said(q)
            BY <1>10 DEF Said
        <3>2. QED
            BY <1>10, <2>6, <3>1 DEF Spoken
    <2>8. Answering'
        <3>1. \A q \in Requests : Said(q)' = Said(q)
            BY <1>10 DEF Said
        <3>2. QED
            BY <1>10, <3>1 DEF Answering, InTurn
    <2>9. Serving'
        <3>1. /\ turn'.req = r /\ hpc'[r] = "turn" /\ ~Ended(outbox')
              /\ turn'.max = a'.max /\ produced' = n /\ n <= turn'.max
              /\ pos' = Len(a'.ids) + n /\ Held' = Text(a', o, n)
            BY <1>1, <1>2, <1>5, <1>8, <1>10, <2>2
        <3>2. o[n] \notin StopIds
            BY <1>3, <1>10
        <3>3. sphase' = "emit" /\ Len(o) = n
            BY <1>10 DEF n
        <3>4. QED
            BY <2>1, <2>2, <3>1, <3>2, <3>3 DEF Serving, a
    <2>10. Agreed'
        BY <1>2, <1>10, <2>6 DEF Agreed
    <2>11. QED
        BY <2>3, <2>4, <2>5, <2>7, <2>8, <2>9, <2>10
<1>11. QED
    BY <1>1, <1>9, <1>10

(* Every step of the process keeps the invariant.                          *)
LEMMA ServeStep ==
    ASSUME SessionInv, link # "down", Serve, UNCHANGED sessionVars
    PROVE  SessionInv'
<1>1. CASE Shutdown
    <2>1. inbox' \in Seq(Plain \cup Turns)
        BY <1>1, HeadTailProperties DEF Shutdown, Reading, SessionInv, Types
    <2>2. QED
        BY <1>1, <2>1, ExitStep DEF Shutdown
<1>2. QED
    BY <1>1, ServeStatsStep, ServeResetStep, RefuseStep, BeginTurnStep, EmitStep,
       EndTurnStep, ForwardStep DEF Serve

-----------------------------------------------------------------------------
(* The steps of a caller. *)

(* The last line of a reply is read.                                       *)
LEMMA LastRead ==
    ASSUME NEW g \in Seq(Got), NEW o \in Seq(Lines), Len(o) = 1, o[1].line # "TOKEN"
    PROVE  /\ Tail(o) = <<>> /\ Head(o) = o[1] /\ o # <<>> /\ Ended(o)
           /\ ~Ended(Tail(o)) /\ Out(g, Tail(o)) = Out(g, o)
           /\ Unread(o) = 0 /\ Unread(Tail(o)) = 0
<1>1. Tail(o) \in Seq(Lines) /\ Len(Tail(o)) = 0 /\ o # <<>>
    <2>1. o # <<>>
        BY EmptySeq
    <2>2. Tail(o) \in Seq(Lines) /\ Len(Tail(o)) = Len(o) - 1
        BY <2>1, HeadTailProperties
    <2>3. QED
        BY <2>1, <2>2
<1>2. Tail(o) = <<>>
    BY <1>1, EmptySeq
<1>3. Ended(o) /\ ~Ended(Tail(o)) /\ Unread(o) = 0 /\ Unread(Tail(o)) = 0
    BY <1>1, <1>2 DEF Ended, Unread
<1>4. Len(g) \in Nat /\ Len(g) + 0 = Len(g)
    OBVIOUS
<1>5. Out(g, Tail(o)) = Out(g, o)
    BY <1>3, <1>4 DEF Out
<1>6. Head(o) = o[1]
    BY <1>1
<1>7. QED
    BY <1>1, <1>2, <1>3, <1>5, <1>6

(* Nothing said is an answer so far.                                       *)
LEMMA NothingSaid ==
    ASSUME NEW g, NEW o, g = <<>>, o = <<>>
    PROVE  /\ Out(g, o) = <<>> /\ Len(Out(g, o)) = 0
           /\ \A a : Generated(a, Out(g, o))
<1>1. Unread(o) = 0 /\ Len(g) = 0
    BY DEF Unread, Ended
<1>2. Out(g, o) = <<>>
    BY <1>1 DEF Out
<1>3. QED
    BY <1>2 DEF Generated

(* A command is written when none waits: it is the only one.               *)
LEMMA QueueOne ==
    ASSUME NEW q \in Seq(Plain \cup Turns), NEW c \in Plain \cup Turns,
           \A i \in 1..Len(q) : q[i].cmd = "SHUTDOWN"
    PROVE  /\ Append(q, c) \in Seq(Plain \cup Turns)
           /\ \A i \in 1..Len(Append(q, c)) :
                Append(q, c)[i].cmd # "SHUTDOWN" =>
                  i = Len(q) + 1 /\ Append(q, c)[i] = c
<1>1. /\ Append(q, c) \in Seq(Plain \cup Turns) /\ Len(Append(q, c)) = Len(q) + 1
      /\ Len(q) \in Nat /\ Append(q, c)[Len(q) + 1] = c
      /\ \A i \in 1..Len(q) : Append(q, c)[i] = q[i]
    BY AppendProperties
<1>2. \A i \in 1..(Len(q) + 1) : i \in 1..Len(q) \/ i = Len(q) + 1
    BY <1>1
<1>3. QED
    BY <1>1, <1>2

(* While a reply is being read no command waits.                           *)
LEMMA NoneWaits ==
    ASSUME Queued, sphase # "exited", outbox # <<>>
    PROVE  \A i \in 1..Len(inbox) : inbox[i].cmd = "SHUTDOWN"
BY DEF Queued

(* A request is made.                                                      *)
LEMMA AskStep ==
    ASSUME SessionInv, NEW r \in Requests, NEW a \in Asks, hpc[r] = "none",
           Go(r, "waiting"), ask' = [ask EXCEPT ![r] = a],
           UNCHANGED <<serviceVars, keep, got, committed>>
    PROVE  SessionInv'
<1> USE DEF SessionInv, serviceVars, processVars
<1>1. \A q \in Requests : /\ hpc'[q] = IF q = r THEN "waiting" ELSE hpc[q]
                          /\ ask'[q] = IF q = r THEN a ELSE ask[q]
    BY DEF Go, Types
<1>2. \A q \in Requests : (InTurn(q)' <=> InTurn(q)) /\ Said(q)' = Said(q)
    BY <1>1 DEF InTurn, Said
<1>3. Nobody' <=> Nobody
    BY <1>2 DEF Nobody
<1>4. \A q \in Requests : InTurn(q) => hpc'[q] = hpc[q] /\ ask'[q] = ask[q] /\ q # r
    BY <1>1 DEF InTurn
<1>5. Types'
    BY <1>1 DEF Types, Go, Places
<1>6. Alone' /\ Fresh' /\ PosValid'
    BY <1>1, <1>2 DEF Alone, Fresh, PosValid
<1>7. Queued'
    <2>1. \A q \in Requests : InTurn(q) => CommandOf(q)' = CommandOf(q)
        BY <1>4 DEF CommandOf
    <2>2. QED
        BY <1>2, <1>3, <2>1 DEF Queued
<1>8. Spoken'
    BY <1>1, <1>2, <1>3 DEF Spoken
<1>9. Answering'
    BY <1>1, <1>2, <1>4 DEF Answering
<1>10. Serving'
    BY <1>1, <1>2 DEF Serving, Held
<1>11. Agreed'
    <2>1. Held' = Held /\ UNCHANGED <<sphase, outbox, committed, keep, kv, pos>>
        BY DEF Held
    <2>2. \A q \in Requests : hpc'[q] \in {"stats", "turn", "after"} =>
            ask'[q] = ask[q] /\ hpc'[q] = hpc[q] /\ Said(q)' = Said(q)
        BY <1>1, <1>2
    <2>3. QED
        BY <1>3, <2>1, <2>2 DEF Agreed
<1>12. QED
    BY <1>5, <1>6, <1>7, <1>8, <1>9, <1>10, <1>11

(* A request fails that was never in its turn.                             *)
LEMMA DeclineStep ==
    ASSUME SessionInv, NEW r \in Requests, hpc[r] = "waiting", Raise(r),
           UNCHANGED serviceVars, Nobody
    PROVE  SessionInv'
<1> USE DEF SessionInv, serviceVars, processVars
<1>1. /\ \A q \in Requests : hpc'[q] = IF q = r THEN "failed" ELSE hpc[q]
      /\ UNCHANGED <<ask, got, committed>> /\ keep' = 0
    BY DEF Raise, Go, Types
<1>2. \A q \in Requests : ~InTurn(q) /\ ~InTurn(q)' /\ Said(q)' = Said(q)
    BY <1>1 DEF InTurn, Said, Nobody
<1>3. Nobody'
    BY <1>2 DEF Nobody
<1>4. \A q \in Requests : hpc[q] \notin {"stats", "turn", "after"}
                          /\ hpc'[q] \notin {"stats", "turn", "after"}
    BY <1>2 DEF InTurn
<1>5. Types'
    BY <1>1, CapAssumption DEF Types, Raise, Go, Places
<1>6. Alone' /\ Fresh' /\ PosValid'
    BY <1>1, <1>2 DEF Alone, Fresh, PosValid
<1>7. Queued'
    BY <1>2, <1>3 DEF Queued
<1>8. Spoken' /\ Answering'
    BY <1>1, <1>2, <1>3, <1>4 DEF Spoken, Answering
<1>9. Serving'
    BY <1>4 DEF Serving
<1>10. Agreed'
    BY <1>1, <1>3, <1>4 DEF Agreed, Held, Nobody, InTurn
<1>11. QED
    BY <1>5, <1>6, <1>7, <1>8, <1>9, <1>10

(* A turn is opened, with a proper prefix that the committed ids share.    *)
LEMMA OpenStep ==
    ASSUME SessionInv, NEW r \in Requests, NEW n \in Nat, hpc[r] = "waiting",
           Nobody, outbox = <<>>,
           \A i \in 1..Len(inbox) : inbox[i].cmd = "SHUTDOWN",
           n <= Len(committed), n < Len(ask[r].ids),
           \A i \in 1..n : ask[r].ids[i] = committed[i],
           Open(r, n)
    PROVE  SessionInv'
<1> USE DEF SessionInv, processVars
<1>1. /\ \A q \in Requests : hpc'[q] = IF q = r THEN "stats" ELSE hpc[q]
      /\ keep' = n /\ inbox' = Append(inbox, Stats(r)) /\ sphase = "read"
      /\ UNCHANGED <<outbox, sphase, pos, kv, turn, tok, produced, link, ask, got,
                     committed>>
    BY DEF Open, Go, Types, Write, Agreed
<1>2. /\ \A q \in Requests : InTurn(q)' <=> q = r
      /\ \A q \in Requests : hpc'[q] \notin {"turn", "after"}
    BY <1>1 DEF InTurn, Nobody
<1>3. ~Nobody'
    BY <1>2 DEF Nobody
<1>4. committed = Held /\ Len(committed) = pos /\ pos \in Nat /\ pos <= Cap
      /\ \A i \in 1..pos : committed[i] = kv[i]
    <2>1. committed = Held /\ pos \in 0..Cap
        BY <1>1 DEF Agreed, Types
    <2>2. Held \in [1..pos -> Vocab]
        BY DEF Held, PosValid
    <2>3. Len(Held) = pos
        BY <2>1, <2>2, CapAssumption, SegmentIsSeq
    <2>4. QED
        BY <2>1, <2>3, CapAssumption DEF Held
<1>5. Stats(r) \in Plain /\ Stats(r).cmd = "STATS" /\ inbox \in Seq(Plain \cup Turns)
    BY DEF Stats, Plain, Types
<1>6. /\ inbox' \in Seq(Plain \cup Turns)
      /\ \A i \in 1..Len(inbox') : inbox'[i].cmd # "SHUTDOWN" =>
                                     i = Len(inbox) + 1 /\ inbox'[i] = Stats(r)
    BY <1>1, <1>5, QueueOne
<1>7. Types'
    <2>1. keep' \in 0..Cap
        BY <1>1, <1>4, CapAssumption
    <2>2. QED
        BY <1>1, <1>6, <2>1 DEF Types, Open, Go, Places
<1>8. Alone' /\ Fresh' /\ PosValid' /\ Serving'
    BY <1>1, <1>2 DEF Alone, Fresh, PosValid, Serving
<1>9. Queued'
    <2>1. InTurn(r)' /\ CommandOf(r)' = Stats(r)
        BY <1>1, <1>2 DEF CommandOf, Stats
    <2>2. QED
        BY <1>1, <1>6, <2>1 DEF Queued
<1>10. Spoken'
    BY <1>1, <1>2, <1>3 DEF Spoken
<1>11. Answering'
    <2>1. got[r] = <<>>
        BY DEF Fresh
    <2>2. Generated(ask[r], Said(r))'
        BY <1>1, <2>1, NothingSaid DEF Said
    <2>3. \A q \in Requests : \A i \in 1..Len(got'[q]) : got'[q][i].req = q
        BY <1>1 DEF Answering
    <2>4. QED
        BY <1>2, <2>2, <2>3 DEF Answering
<1>12. Agreed'
    <2>1. Held' = Held
        BY <1>1 DEF Held
    <2>2. \A i \in 1..n : ask[r].ids[i] = kv[i] /\ n <= pos
        BY <1>4
    <2>3. /\ committed' = Held' /\ keep' <= pos' /\ keep' < Len(ask'[r].ids)
          /\ \A i \in 1..keep' : ask'[r].ids[i] = kv'[i]
        BY <1>1, <1>4, <2>1, <2>2
    <2>4. \A q \in Requests : hpc'[q] \in {"stats", "turn", "after"} =>
            q = r /\ hpc'[q] = "stats"
        BY <1>2 DEF InTurn
    <2>5. QED
        BY <1>1, <1>3, <2>3, <2>4 DEF Agreed
<1>13. QED
    BY <1>7, <1>8, <1>9, <1>10, <1>11, <1>12

(* The first snapshot is read, and the TURN written.                       *)
LEMMA StatsReadStep ==
    ASSUME SessionInv, NEW r \in Requests, StatsRead(r)
    PROVE  SessionInv'
<1> USE DEF SessionInv, processVars
<1> DEFINE c == Turn(r, ask[r].max, keep, SubSeq(ask[r].ids, keep + 1, Len(ask[r].ids)),
                     ask[r].readable)
<1>1. /\ hpc[r] = "stats" /\ outbox # <<>> /\ sphase # "exited"
      /\ outbox' = Tail(outbox) /\ inbox' = Append(inbox, c)
      /\ \A q \in Requests : hpc'[q] = IF q = r THEN "turn" ELSE hpc[q]
      /\ UNCHANGED <<sphase, pos, kv, turn, tok, produced, link, ask, keep, got,
                     committed>>
    BY DEF StatsRead, Waits, Go, Types, Write
<1>2. /\ outbox \in Seq(Lines) /\ Len(outbox) = 1 /\ outbox[1].line = "STATS"
      /\ got[r] = <<>> /\ got[r] \in Seq(Got)
    BY <1>1 DEF Types, Spoken, Fresh
<1>3. outbox' = <<>>
    BY <1>1, <1>2, LastRead
<1>4. /\ committed = Held /\ keep <= pos /\ keep < Len(ask[r].ids)
      /\ \A i \in 1..keep : ask[r].ids[i] = kv[i]
      /\ sphase = "read" /\ ask[r] \in Asks /\ keep \in Nat
    BY <1>1, CapAssumption DEF Agreed, Types
<1>5. c \in Turns /\ c \in Plain \cup Turns
    <2>1. /\ ask[r].ids \in Seq(Nat) /\ Len(ask[r].ids) \in Nat /\ ask[r].max \in Int
          /\ ask[r].readable \in BOOLEAN
        BY <1>4, AsksAssumption
    <2>2. \A i \in (keep + 1)..Len(ask[r].ids) : ask[r].ids[i] \in Nat
        <3>1. keep \in Nat
            BY <1>4
        <3>2. \A i \in (keep + 1)..Len(ask[r].ids) : i \in 1..Len(ask[r].ids)
            BY <2>1, <3>1
        <3>3. QED
            BY <2>1, <3>2, ElementOfSeq
    <2>3. SubSeq(ask[r].ids, keep + 1, Len(ask[r].ids)) \in Seq(Nat)
        BY <1>4, <2>1, <2>2, SubSeqProperties
    <2>4. QED
        BY <1>4, <2>1, <2>3 DEF Turn, Turns
<1> HIDE DEF c
<1>6. \A q \in Requests : InTurn(q) => q = r
    BY <1>1 DEF Alone, InTurn
<1>7. /\ \A q \in Requests : InTurn(q)' <=> q = r
      /\ \A q \in Requests : hpc'[q] \in {"stats", "turn", "after"} => q = r /\ hpc'[q] = "turn"
    BY <1>1, <1>6 DEF InTurn
<1>8. ~Nobody'
    BY <1>7 DEF Nobody
<1>9. /\ inbox' \in Seq(Plain \cup Turns)
      /\ \A i \in 1..Len(inbox') : inbox'[i].cmd # "SHUTDOWN" =>
                                     i = Len(inbox) + 1 /\ inbox'[i] = c
    <2>1. \A i \in 1..Len(inbox) : inbox[i].cmd = "SHUTDOWN"
        BY <1>1, NoneWaits
    <2>2. inbox \in Seq(Plain \cup Turns)
        BY DEF Types
    <2>3. QED
        BY <1>1, <1>5, <2>1, <2>2, QueueOne
<1>10. Types'
    <2>1. hpc' \in [Requests -> Places]
        BY DEF Types, StatsRead, Go, Places
    <2>2. outbox' \in Seq(Lines)
        BY <1>3
    <2>3. QED
        BY <1>1, <1>9, <2>1, <2>2 DEF Types
<1>11. Alone' /\ Fresh' /\ PosValid' /\ Serving'
    BY <1>1, <1>4, <1>7 DEF Alone, Fresh, PosValid, Serving
<1>12. Queued'
    <2>1. InTurn(r)' /\ CommandOf(r)' = c
        BY <1>1, <1>7 DEF CommandOf, c
    <2>2. QED
        BY <1>1, <1>3, <1>4, <1>9, <2>1 DEF Queued
<1>13. Said(r)' = <<>> /\ Generated(ask'[r], Said(r)')
       /\ \A l : ~EndedBy(outbox', l)
    BY <1>1, <1>2, <1>3, NothingSaid DEF Said, EndedBy
<1>14. Spoken'
    BY <1>1, <1>2, <1>3, <1>7, <1>8, <1>13 DEF Spoken
<1>15. Answering'
    <2>1. \A q \in Requests : \A i \in 1..Len(got'[q]) : got'[q][i].req = q
        BY <1>1 DEF Answering
    <2>2. QED
        BY <1>7, <1>13, <2>1 DEF Answering
<1>16. Agreed'
    <2>1. Held' = Held
        BY <1>1 DEF Held
    <2>2. /\ committed' = Held' /\ keep' <= pos' /\ keep' < Len(ask'[r].ids)
          /\ \A i \in 1..keep' : ask'[r].ids[i] = kv'[i]
        BY <1>1, <1>4, <2>1
    <2>3. QED
        BY <1>1, <1>7, <1>8, <1>13, <2>2 DEF Agreed
<1>17. QED
    BY <1>10, <1>11, <1>12, <1>14, <1>15, <1>16

(* A token is read: what has been said does not change.                    *)
LEMMA TokenReadStep ==
    ASSUME SessionInv, NEW r \in Requests, TokenRead(r)
    PROVE  SessionInv' /\ Said(r)' = Said(r)
<1> USE DEF SessionInv, processVars
<1> DEFINE x == [tok |-> Head(outbox).tok, req |-> Head(outbox).req]
<1>1. /\ hpc[r] = "turn" /\ outbox # <<>> /\ Head(outbox).line = "TOKEN"
      /\ outbox' = Tail(outbox) /\ got' = [got EXCEPT ![r] = Append(@, x)]
      /\ UNCHANGED <<inbox, sphase, pos, kv, turn, tok, produced, link, hpc, ask, keep,
                     committed>>
    BY DEF TokenRead, Waits
<1>2. /\ outbox \in Seq(Lines) /\ got[r] \in Seq(Got) /\ Len(outbox) \in Nat \ {0}
      /\ Head(outbox) = outbox[1] /\ Tail(outbox) \in Seq(Lines)
      /\ Len(Tail(outbox)) = Len(outbox) - 1
      /\ \A i \in 1..Len(Tail(outbox)) : Tail(outbox)[i] = outbox[i + 1]
    <2>1. outbox \in Seq(Lines) /\ got[r] \in Seq(Got)
        BY DEF Types
    <2>2. Len(outbox) \in Nat \ {0} /\ Head(outbox) = outbox[1]
        BY <1>1, <2>1, EmptySeq
    <2>3. QED
        BY <1>1, <2>1, <2>2, HeadTailProperties
<1>3. \A i \in 1..Len(outbox) :
        /\ outbox[i].req = r
        /\ outbox[i].line = "TOKEN" => outbox[i].tok \in Vocab
        /\ outbox[i].line # "TOKEN" =>
             i = Len(outbox) /\ outbox[i].line \in {"DONE", "ERROR"}
    BY <1>1 DEF Spoken
<1>4. x \in Got /\ x.tok = Head(outbox).tok /\ x.req = r
    <2>1. 1 \in 1..Len(outbox)
        BY <1>2
    <2>2. QED
        BY <1>1, <1>2, <1>3, <2>1 DEF Got
<1> HIDE DEF x
<1>5. /\ Append(got[r], x) \in Seq(Got)
      /\ Ended(outbox') <=> Ended(outbox)
      /\ \A l : l # "TOKEN" => (EndedBy(outbox', l) <=> EndedBy(outbox, l))
      /\ Out(Append(got[r], x), outbox') = Out(got[r], outbox)
    <2>1. /\ Append(got[r], x) \in Seq(Got)
          /\ Ended(Tail(outbox)) <=> Ended(outbox)
          /\ \A l : l # "TOKEN" => (EndedBy(Tail(outbox), l) <=> EndedBy(outbox, l))
          /\ Out(Append(got[r], x), Tail(outbox)) = Out(got[r], outbox)
        BY <1>1, <1>2, <1>4, OutRead
    <2>2. QED
        BY <1>1, <2>1
<1>6. \A q \in Requests : got'[q] = IF q = r THEN Append(got[r], x) ELSE got[q]
    BY <1>1 DEF Types
<1>7. Said(r)' = Said(r)
    BY <1>5, <1>6 DEF Said
<1>8. /\ \A q \in Requests : hpc[q] \in {"stats", "turn", "after"} => q = r
      /\ \A q \in Requests : InTurn(q)' <=> InTurn(q)
      /\ ~Nobody' /\ InTurn(r)
    BY <1>1 DEF Alone, InTurn, Nobody
<1>9. Types'
    <2>1. got' \in [Requests -> Seq(Got)]
        BY <1>1, <1>5 DEF Types
    <2>2. QED
        BY <1>1, <1>2, <2>1 DEF Types
<1>10. Alone' /\ Fresh' /\ PosValid'
    BY <1>1, <1>6, <1>8 DEF Alone, Fresh, PosValid
<1>11. Queued'
    BY <1>1, NoneWaits, QueueEmptied DEF Queued
<1>12. Spoken'
    <2>1. ASSUME NEW i \in 1..Len(outbox')
          PROVE  /\ outbox'[i].req = r
                 /\ outbox'[i].line = "TOKEN" => outbox'[i].tok \in Vocab
                 /\ outbox'[i].line # "TOKEN" =>
                      i = Len(outbox') /\ outbox'[i].line \in {"DONE", "ERROR"}
        <3>1. i + 1 \in 1..Len(outbox) /\ outbox'[i] = outbox[i + 1]
            BY <1>1, <1>2
        <3>2. i + 1 = Len(outbox) => i = Len(outbox')
            <4>1. /\ Len(outbox') = Len(outbox) - 1 /\ i \in Int /\ Len(outbox) \in Int
                BY <1>1, <1>2
            <4>2. QED
                BY <4>1
        <3>3. QED
            BY <1>3, <3>1, <3>2
    <2>2. /\ sphase' = "read" => Ended(outbox')
          /\ EndedBy(outbox', "ERROR") => Refusable(ask'[r]) /\ Said(r)' = <<>>
        BY <1>1, <1>5, <1>7 DEF Spoken
    <2>3. \A q \in Requests : hpc'[q] \in {"stats", "turn", "after"} =>
            q = r /\ hpc'[q] = "turn"
        BY <1>1, <1>8
    <2>4. QED
        BY <1>8, <2>1, <2>2, <2>3 DEF Spoken
<1>13. Answering'
    <2>1. ASSUME NEW q \in Requests, NEW i \in 1..Len(got'[q]) PROVE got'[q][i].req = q
        <3>1. CASE q = r
            <4>0. /\ Len(Append(got[r], x)) = Len(got[r]) + 1
                  /\ Append(got[r], x)[Len(got[r]) + 1] = x
                  /\ \A j \in 1..Len(got[r]) : Append(got[r], x)[j] = got[r][j]
                BY <1>2, <1>4, AppendProperties
            <4>1. got'[q] = Append(got[r], x) /\ Len(got[r]) \in Nat
                BY <1>2, <1>6, <3>1, LenProperties
            <4>2. i \in 1..Len(got[r]) \/ i = Len(got[r]) + 1
                BY <4>0, <4>1
            <4>3. \A j \in 1..Len(got[r]) : got[r][j].req = r
                BY DEF Answering
            <4>4. QED
                BY <1>4, <3>1, <4>0, <4>1, <4>2, <4>3
        <3>2. CASE q # r
            BY <1>6, <3>2 DEF Answering
        <3>3. QED
            BY <3>1, <3>2
    <2>2. Generated(ask'[r], Said(r)')
        BY <1>1, <1>7, <1>8 DEF Answering
    <2>3. EndedBy(outbox', "DONE") => Over(ask'[r], Said(r)', Len(Said(r)'))
        BY <1>1, <1>5, <1>7 DEF Answering
    <2>4. \A q \in Requests : hpc'[q] \in {"stats", "turn", "after"} =>
            q = r /\ hpc'[q] = "turn"
        BY <1>1, <1>8
    <2>5. QED
        BY <1>1, <1>8, <2>1, <2>2, <2>3, <2>4 DEF Answering, InTurn
<1>14. Serving'
    <2>1. sphase \in {"emit", "forward"} => turn.req = r
        BY <1>8 DEF Serving
    <2>2. Held' = Held
        BY <1>1 DEF Held
    <2>3. QED
        BY <1>1, <1>5, <1>7, <2>1, <2>2 DEF Serving
<1>15. Agreed'
    <2>1. Held' = Held
        BY <1>1 DEF Held
    <2>2. EndedBy(outbox', "DONE") <=> EndedBy(outbox, "DONE")
        BY <1>5
    <2>3. \A q \in Requests : hpc'[q] \in {"stats", "turn", "after"} =>
            q = r /\ hpc'[q] = "turn"
        BY <1>1, <1>8
    <2>4. QED
        BY <1>1, <1>7, <1>8, <2>1, <2>2, <2>3 DEF Agreed
<1>16. QED
    BY <1>7, <1>9, <1>10, <1>11, <1>12, <1>13, <1>14, <1>15


(* The DONE of a turn is read, and the second snapshot asked for.          *)
LEMMA DoneReadStep ==
    ASSUME SessionInv, NEW r \in Requests, DoneRead(r)
    PROVE  SessionInv' /\ Said(r)' = Said(r)
<1> USE DEF SessionInv, processVars
<1>1. /\ hpc[r] = "turn" /\ outbox # <<>> /\ Head(outbox).line = "DONE"
      /\ sphase # "exited" /\ outbox' = Tail(outbox)
      /\ inbox' = Append(inbox, Stats(r))
      /\ \A q \in Requests : hpc'[q] = IF q = r THEN "after" ELSE hpc[q]
      /\ UNCHANGED <<sphase, pos, kv, turn, tok, produced, link, ask, keep, got,
                     committed>>
    BY DEF DoneRead, Waits, Go, Types, Write
<1>2. /\ outbox \in Seq(Lines) /\ got[r] \in Seq(Got) /\ Len(outbox) = 1
      /\ outbox[1] = Head(outbox) /\ outbox[1].line # "TOKEN"
    <2>1. outbox \in Seq(Lines) /\ got[r] \in Seq(Got)
        BY DEF Types
    <2>2. Len(outbox) \in Nat \ {0} /\ Head(outbox) = outbox[1]
        BY <1>1, <2>1, EmptySeq
    <2>3. 1 \in 1..Len(outbox)
        BY <2>2
    <2>4. QED
        BY <1>1, <2>1, <2>2, <2>3 DEF Spoken
<1>3. /\ Tail(outbox) = <<>> /\ Ended(outbox)
      /\ Out(got[r], Tail(outbox)) = Out(got[r], outbox)
    BY <1>2, LastRead
<1>4. outbox' = <<>> /\ Said(r)' = Said(r) /\ EndedBy(outbox, "DONE")
    BY <1>1, <1>2, <1>3 DEF Said, EndedBy
<1>5. \A q \in Requests : InTurn(q) => q = r
    BY <1>1 DEF Alone, InTurn
<1>6. sphase = "read"
    <2>1. sphase \notin {"emit", "forward"}
        BY <1>3, <1>5 DEF Serving, InTurn
    <2>2. QED
        BY <1>1, <2>1 DEF Types
<1>7. /\ Over(ask[r], Said(r), Len(Said(r))) /\ Generated(ask[r], Said(r))
      /\ pos = Len(ask[r].ids) + Len(Said(r))
      /\ Held = Text(ask[r], Said(r), Len(Said(r)))
    BY <1>1, <1>4, <1>6 DEF Answering, Agreed, InTurn
<1>8. /\ \A q \in Requests : InTurn(q)' <=> q = r
      /\ \A q \in Requests : hpc'[q] \in {"stats", "turn", "after"} => q = r /\ hpc'[q] = "after"
    BY <1>1, <1>5 DEF InTurn
<1>9. ~Nobody'
    BY <1>8 DEF Nobody
<1>10. Stats(r) \in Plain /\ Stats(r).cmd = "STATS" /\ inbox \in Seq(Plain \cup Turns)
    BY DEF Stats, Plain, Types
<1>11. /\ inbox' \in Seq(Plain \cup Turns)
       /\ \A i \in 1..Len(inbox') : inbox'[i].cmd # "SHUTDOWN" =>
                                      i = Len(inbox) + 1 /\ inbox'[i] = Stats(r)
    <2>1. \A i \in 1..Len(inbox) : inbox[i].cmd = "SHUTDOWN"
        BY <1>1, NoneWaits
    <2>2. QED
        BY <1>1, <1>10, <2>1, QueueOne
<1>12. Types'
    <2>1. hpc' \in [Requests -> Places]
        BY DEF Types, DoneRead, Go, Places
    <2>2. outbox' \in Seq(Lines)
        BY <1>4
    <2>3. QED
        BY <1>1, <1>11, <2>1, <2>2 DEF Types
<1>13. Alone' /\ Fresh' /\ PosValid' /\ Serving'
    BY <1>1, <1>6, <1>8 DEF Alone, Fresh, PosValid, Serving
<1>14. Queued'
    <2>1. InTurn(r)' /\ CommandOf(r)' = Stats(r)
        BY <1>1, <1>8 DEF CommandOf, Stats
    <2>2. QED
        BY <1>1, <1>4, <1>6, <1>11, <2>1 DEF Queued
<1>15. Spoken'
    BY <1>4, <1>8, <1>9 DEF Spoken
<1>16. Answering'
    <2>1. \A q \in Requests : \A i \in 1..Len(got'[q]) : got'[q][i].req = q
        BY <1>1 DEF Answering
    <2>2. Generated(ask'[r], Said(r)') /\ Over(ask'[r], Said(r)', Len(Said(r)'))
        BY <1>1, <1>4, <1>7
    <2>3. QED
        BY <1>8, <2>1, <2>2 DEF Answering
<1>17. Agreed'
    <2>1. Held' = Held
        BY <1>1 DEF Held
    <2>2. QED
        BY <1>1, <1>4, <1>6, <1>7, <1>8, <1>9, <2>1 DEF Agreed
<1>18. QED
    BY <1>4, <1>12, <1>13, <1>14, <1>15, <1>16, <1>17

(* The second snapshot is read, and what was consumed recorded: all of the *)
(* answer has been read by then.                                           *)
LEMMA AfterReadStep ==
    ASSUME SessionInv, NEW r \in Requests, AfterRead(r)
    PROVE  /\ SessionInv' /\ Nobody' /\ outbox' = <<>>
           /\ Over(ask[r], Said(r), Len(Said(r))) /\ Said(r) = Tokens(got[r])
<1> USE DEF SessionInv, processVars
<1>1. /\ hpc[r] = "after" /\ outbox # <<>> /\ outbox' = Tail(outbox)
      /\ committed' = ask[r].ids \o Tokens(got[r]) /\ keep' = 0
      /\ \A q \in Requests : hpc'[q] = IF q = r THEN "answered" ELSE hpc[q]
      /\ UNCHANGED <<inbox, sphase, pos, kv, turn, tok, produced, link, ask, got>>
    BY DEF AfterRead, Waits, Go, Types
<1>2. /\ outbox \in Seq(Lines) /\ got[r] \in Seq(Got) /\ Len(outbox) = 1
      /\ outbox[1].line = "STATS" /\ ask[r] \in Asks
    BY <1>1 DEF Types, Spoken
<1>3. outbox' = <<>> /\ Ended(outbox) /\ Unread(outbox) = 0
    BY <1>1, <1>2, LastRead
<1>4. /\ Over(ask[r], Said(r), Len(Said(r)))
      /\ sphase # "exited" => /\ pos = Len(ask[r].ids) + Len(Said(r))
                              /\ Held = Text(ask[r], Said(r), Len(Said(r)))
                              /\ sphase = "read"
    BY <1>1 DEF Answering, Agreed
<1>5. \A q \in Requests : InTurn(q) => q = r
    BY <1>1 DEF Alone, InTurn
<1>6. \A q \in Requests : ~InTurn(q)' /\ hpc'[q] \notin {"stats", "turn", "after"}
    BY <1>1, <1>5 DEF InTurn
<1>7. Nobody'
    BY <1>6 DEF Nobody
<1>8. Said(r) = Tokens(got[r]) /\ Tokens(got[r]) \in Seq(Nat)
      /\ Len(Said(r)) = Len(got[r]) /\ Len(got[r]) \in Nat
    <2>1. /\ Len(got[r]) \in Nat /\ DOMAIN got[r] = 1..Len(got[r])
          /\ \A i \in 1..Len(got[r]) : got[r][i] \in Got
        BY <1>2, LenProperties, ElementOfSeq
    <2>2. \A i \in 1..Len(got[r]) : got[r][i].tok \in Vocab
        BY <2>1 DEF Got
    <2>3. Tokens(got[r]) = [i \in 1..Len(got[r]) |-> got[r][i].tok]
        BY <2>1 DEF Tokens
    <2>4. Tokens(got[r]) \in [1..Len(got[r]) -> Nat]
        BY <2>2, <2>3, VocabAssumption
    <2>5. Tokens(got[r]) \in Seq(Nat) /\ Len(Tokens(got[r])) = Len(got[r])
        BY <2>1, <2>4, SegmentIsSeq
    <2>6. Said(r) = [i \in 1..(Len(got[r]) + 0) |->
                       IF i <= Len(got[r]) THEN got[r][i].tok
                                           ELSE outbox[i - Len(got[r])].tok]
        BY <1>3 DEF Said, Out
    <2>7. Said(r) = [i \in 1..Len(got[r]) |-> got[r][i].tok]
        BY <2>1, <2>6
    <2>8. QED
        BY <2>1, <2>3, <2>5, <2>7
<1>9. committed' = Text(ask[r], Said(r), Len(Said(r)))
    <2>1. ask[r].ids \in Seq(Nat) /\ Tokens(got[r]) \in Seq(Nat)
        BY <1>2, <1>8, AsksAssumption
    <2>2. ask[r].ids \o Tokens(got[r]) =
            [p \in 1..(Len(ask[r].ids) + Len(Tokens(got[r]))) |->
               IF p <= Len(ask[r].ids) THEN ask[r].ids[p]
                                       ELSE Tokens(got[r])[p - Len(ask[r].ids)]]
        BY <2>1, ConcatIs
    <2>3. QED
        BY <1>1, <1>8, <2>2 DEF Text
<1>10. Types'
    <2>1. hpc' \in [Requests -> Places]
        BY DEF Types, AfterRead, Go, Places
    <2>2. outbox' \in Seq(Lines)
        BY <1>3
    <2>3. keep' \in 0..Cap
        BY <1>1, CapAssumption
    <2>4. QED
        BY <1>1, <2>1, <2>2, <2>3 DEF Types
<1>11. Alone' /\ Fresh' /\ PosValid'
    BY <1>1, <1>6 DEF Alone, Fresh, PosValid
<1>12. Queued'
    <2>1. sphase # "exited" => \A i \in 1..Len(inbox) : inbox[i].cmd = "SHUTDOWN"
        BY <1>1, NoneWaits
    <2>2. QED
        BY <1>1, <2>1 DEF Queued
<1>13. Spoken'
    BY <1>3, <1>6 DEF Spoken
<1>14. Answering'
    BY <1>1, <1>6 DEF Answering
<1>15. Serving'
    BY <1>1, <1>5 DEF Serving, InTurn
<1>16. Agreed'
    <2>1. Held' = Held
        BY <1>1 DEF Held
    <2>2. QED
        BY <1>1, <1>4, <1>6, <1>9, <2>1 DEF Agreed
<1>17. QED
    BY <1>3, <1>4, <1>7, <1>8, <1>10, <1>11, <1>12, <1>13, <1>14, <1>15, <1>16

(* A turn that is not abandoned in the middle of its lines raises only when *)
(* its request cannot be served or the process has gone, and nothing is    *)
(* left in the pipe.                                                       *)
LEMMA BreaksOnly ==
    ASSUME SessionInv, NEW r \in Requests,
           Unexpected(r) \/ EndOfFile(r) \/ BrokenPipe(r)
    PROVE  /\ InTurn(r) /\ Raise(r) /\ UNCHANGED <<inbox, processVars>>
           /\ outbox' = <<>>
           /\ \/ sphase = "exited"
              \/ /\ sphase = "read" /\ hpc[r] = "turn" /\ ~EndedBy(outbox, "DONE")
                 /\ Refusable(ask[r])
                 /\ \A i \in 1..Len(inbox) : inbox[i].cmd = "SHUTDOWN"
<1> USE DEF SessionInv
<1>1. outbox \in Seq(Lines) /\ sphase \in {"read", "emit", "forward", "exited"}
      /\ got[r] \in Seq(Got)
    BY DEF Types
<1>2. ASSUME outbox # <<>>
      PROVE  Len(outbox) \in Nat \ {0} /\ Head(outbox) = outbox[1] /\ 1 \in 1..Len(outbox)
    <2>1. Len(outbox) \in Nat \ {0} /\ Head(outbox) = outbox[1]
        BY <1>1, <1>2, EmptySeq
    <2>2. QED
        BY <2>1
<1>3. CASE Unexpected(r)
    <2>1. /\ InTurn(r) /\ outbox # <<>> /\ Head(outbox).line \notin Expected(hpc[r])
          /\ outbox' = Tail(outbox) /\ Raise(r) /\ UNCHANGED <<inbox, processVars>>
        BY <1>3 DEF Unexpected
    <2>2. /\ Len(outbox) \in Nat \ {0} /\ Head(outbox) = outbox[1]
          /\ 1 \in 1..Len(outbox)
        BY <1>2, <2>1
    <2>3. hpc[r] = "turn"
        BY <2>1, <2>2 DEF InTurn, Spoken, Expected
    <2>4. outbox[1].line \notin {"TOKEN", "DONE"}
        BY <2>1, <2>2, <2>3 DEF Expected
    <2>5. Len(outbox) = 1 /\ outbox[1].line = "ERROR"
        BY <2>2, <2>3, <2>4 DEF Spoken
    <2>6. outbox' = <<>> /\ Ended(outbox)
        <3>1. Tail(outbox) = <<>> /\ Ended(outbox)
            BY <1>1, <2>5, LastRead
        <3>2. QED
            BY <2>1, <3>1
    <2>7. EndedBy(outbox, "ERROR") /\ ~EndedBy(outbox, "DONE")
        BY <2>1, <2>5 DEF EndedBy
    <2>8. Refusable(ask[r])
        BY <2>3, <2>7 DEF Spoken
    <2>9. sphase \notin {"emit", "forward"}
        BY <2>3, <2>6 DEF Serving, Alone, InTurn
    <2>10. sphase # "exited" => \A i \in 1..Len(inbox) : inbox[i].cmd = "SHUTDOWN"
        BY <2>1, NoneWaits
    <2>11. QED
        BY <1>1, <2>1, <2>3, <2>6, <2>7, <2>8, <2>9, <2>10
<1>4. CASE EndOfFile(r)
    BY <1>4 DEF EndOfFile, serviceVars
<1>5. CASE BrokenPipe(r)
    <2>1. /\ sphase = "exited" /\ InTurn(r) /\ outbox # <<>>
          /\ outbox' = Tail(outbox) /\ Raise(r) /\ UNCHANGED <<inbox, processVars>>
          /\ (hpc[r] = "stats" /\ Head(outbox).line = "STATS")
             \/ (hpc[r] = "turn" /\ Head(outbox).line = "DONE")
        BY <1>5 DEF BrokenPipe, Waits, InTurn
    <2>2. /\ Len(outbox) \in Nat \ {0} /\ Head(outbox) = outbox[1]
          /\ 1 \in 1..Len(outbox)
        BY <1>2, <2>1
    <2>3. Len(outbox) = 1 /\ outbox[1].line # "TOKEN"
        BY <2>1, <2>2 DEF Spoken
    <2>4. Tail(outbox) = <<>>
        BY <1>1, <2>3, LastRead
    <2>5. QED
        BY <2>1, <2>4
<1>6. QED
    BY <1>3, <1>4, <1>5

(* Such a turn raises.                                                     *)
LEMMA BreaksStep ==
    ASSUME SessionInv, NEW r \in Requests,
           Unexpected(r) \/ EndOfFile(r) \/ BrokenPipe(r)
    PROVE  /\ SessionInv' /\ Nobody' /\ outbox' = <<>>
           /\ Refusable(ask[r]) \/ sphase = "exited"
<1> USE DEF SessionInv, processVars
<1>1. /\ InTurn(r) /\ Raise(r) /\ UNCHANGED <<inbox, processVars>>
      /\ outbox' = <<>>
      /\ \/ sphase = "exited"
         \/ /\ sphase = "read" /\ hpc[r] = "turn" /\ ~EndedBy(outbox, "DONE")
            /\ Refusable(ask[r])
            /\ \A i \in 1..Len(inbox) : inbox[i].cmd = "SHUTDOWN"
    BY BreaksOnly
<1>2. /\ \A q \in Requests : hpc'[q] = IF q = r THEN "failed" ELSE hpc[q]
      /\ keep' = 0 /\ hpc' \in [Requests -> Places]
      /\ UNCHANGED <<inbox, sphase, pos, kv, turn, tok, produced, link, ask, got,
                     committed>>
    BY <1>1 DEF Raise, Go, Types, Places
<1>3. \A q \in Requests : InTurn(q) => q = r
    BY <1>1 DEF Alone
<1>4. \A q \in Requests : ~InTurn(q)' /\ hpc'[q] \notin {"stats", "turn", "after"}
    BY <1>2, <1>3 DEF InTurn
<1>5. Nobody'
    BY <1>4 DEF Nobody
<1>6. Types'
    <2>1. outbox' \in Seq(Lines)
        BY <1>1
    <2>2. keep' \in 0..Cap
        BY <1>2, CapAssumption
    <2>3. ask[r] \in Asks
        BY <1>1 DEF Types, InTurn
    <2>4. QED
        BY <1>2, <2>1, <2>2, <2>3 DEF Types
<1>7. Alone' /\ Fresh' /\ PosValid'
    BY <1>2, <1>4 DEF Alone, Fresh, PosValid
<1>8. Queued'
    BY <1>1, <1>2 DEF Queued
<1>9. Spoken'
    BY <1>1, <1>4 DEF Spoken
<1>10. Answering'
    BY <1>2, <1>4 DEF Answering
<1>11. Serving'
    BY <1>1, <1>2 DEF Serving
<1>12. Agreed'
    <2>1. Held' = Held
        BY <1>2 DEF Held
    <2>2. sphase # "exited" => sphase = "read" /\ committed = Held
        BY <1>1 DEF Agreed
    <2>3. QED
        BY <1>2, <1>4, <2>1, <2>2 DEF Agreed
<1>13. QED
    BY <1>1, <1>5, <1>6, <1>7, <1>8, <1>9, <1>10, <1>11, <1>12

(* A command that is nobody's turn is written.                             *)
LEMMA WriteStep ==
    ASSUME SessionInv, NEW c \in Plain, Write(c),
           UNCHANGED <<outbox, processVars, sessionVars>>,
           \/ c.cmd = "SHUTDOWN"
           \/ /\ c = Command("RESET") /\ Nobody /\ outbox = <<>>
              /\ \A i \in 1..Len(inbox) : inbox[i].cmd = "SHUTDOWN"
    PROVE  SessionInv'
<1> USE DEF SessionInv, processVars, sessionVars
<1>1. inbox \in Seq(Plain \cup Turns) /\ inbox' = Append(inbox, c)
    BY DEF Types, Write
<1>2. /\ inbox' \in Seq(Plain \cup Turns) /\ Len(inbox') = Len(inbox) + 1
      /\ Len(inbox) \in Nat /\ inbox'[Len(inbox) + 1] = c
      /\ \A i \in 1..Len(inbox) : inbox'[i] = inbox[i]
    <2>1. c \in Plain \cup Turns
        OBVIOUS
    <2>2. /\ Append(inbox, c) \in Seq(Plain \cup Turns)
          /\ Len(Append(inbox, c)) = Len(inbox) + 1
          /\ \A i \in 1..Len(inbox) : Append(inbox, c)[i] = inbox[i]
          /\ Append(inbox, c)[Len(inbox) + 1] = c
        BY <1>1, <2>1, AppendProperties
    <2>3. Len(inbox) \in Nat
        BY <1>1, LenProperties
    <2>4. QED
        BY <1>1, <2>2, <2>3
<1>3. \A i \in 1..Len(inbox') : i \in 1..Len(inbox) \/ i = Len(inbox) + 1
    BY <1>2
<1>4. Types'
    BY <1>2 DEF Types
<1>5. Alone' /\ Fresh' /\ PosValid' /\ Spoken' /\ Answering' /\ Agreed'
    <2>1. Held' = Held /\ (Nobody' <=> Nobody)
        BY DEF Held, Nobody, InTurn
    <2>2. \A q \in Requests : Said(q)' = Said(q)
        BY DEF Said
    <2>3. Alone' /\ Fresh' /\ PosValid'
        BY DEF Alone, Fresh, PosValid, InTurn
    <2>4. Spoken'
        BY <2>1, <2>2 DEF Spoken
    <2>5. Answering'
        BY <2>2 DEF Answering, InTurn
    <2>6. Agreed'
        BY <2>1, <2>2 DEF Agreed
    <2>7. QED
        BY <2>3, <2>4, <2>5, <2>6
<1>6. Serving'
    <2>1. \A q \in Requests : Said(q)' = Said(q)
        BY DEF Said
    <2>2. Held' = Held
        BY DEF Held
    <2>3. QED
        BY <2>1, <2>2 DEF Serving
<1>7. Queued'
    <2>1. CASE c.cmd = "SHUTDOWN"
        <3>1. \A i \in 1..Len(inbox') : inbox'[i].cmd # "SHUTDOWN" =>
                i \in 1..Len(inbox) /\ inbox'[i] = inbox[i]
            BY <1>2, <1>3, <2>1
        <3>2. \A q \in Requests : CommandOf(q)' = CommandOf(q) /\ (InTurn(q)' <=> InTurn(q))
            BY DEF CommandOf, InTurn
        <3>3. Nobody' <=> Nobody
            BY DEF Nobody, InTurn
        <3>4. QED
            BY <3>1, <3>2, <3>3 DEF Queued
    <2>2. CASE /\ c = Command("RESET") /\ Nobody /\ outbox = <<>>
               /\ \A i \in 1..Len(inbox) : inbox[i].cmd = "SHUTDOWN"
        <3>1. \A i \in 1..Len(inbox') : inbox'[i].cmd # "SHUTDOWN" =>
                i = Len(inbox) + 1 /\ inbox'[i] = c
            BY <1>2, <1>3, <2>2
        <3>2. Nobody' /\ outbox' = <<>>
            BY <2>2 DEF Nobody, InTurn
        <3>3. sphase # "exited" => sphase = "read"
            BY <2>2 DEF Agreed
        <3>4. QED
            BY <2>2, <3>1, <3>2, <3>3 DEF Queued
    <2>3. QED
        BY <2>1, <2>2
<1>8. QED
    BY <1>4, <1>5, <1>6, <1>7

(* The DONE of a RESET is read: nothing is committed and nothing in use.   *)
LEMMA ResetReadStep ==
    ASSUME SessionInv, Nobody, outbox # <<>>, outbox' = Tail(outbox),
           committed' = <<>>, UNCHANGED <<inbox, processVars, hpc, ask, keep, got>>
    PROVE  SessionInv' /\ outbox' = <<>>
<1> USE DEF SessionInv, processVars
<1>1. outbox = <<Line("DONE", NoToken, NoRequest)>> /\ pos = 0
    BY DEF Spoken
<1>2. outbox' = <<>>
    BY <1>1
<1>3. Nobody'
    BY DEF Nobody, InTurn
<1>4. \A q \in Requests : hpc'[q] \notin {"stats", "turn", "after"}
    BY DEF Nobody, InTurn
<1>5. outbox' \in Seq(Lines)
    BY HeadTailProperties DEF Types
<1>6. Types'
    BY <1>5 DEF Types
<1>7. Alone' /\ Fresh' /\ PosValid' /\ Spoken' /\ Answering'
    BY <1>2, <1>4 DEF Alone, Fresh, PosValid, InTurn, Spoken, Answering
<1>8. Serving'
    <2>1. sphase \notin {"emit", "forward"}
        BY <1>4 DEF Serving
    <2>2. QED
        BY <2>1 DEF Serving
<1>9. Queued'
    <2>1. sphase # "exited" => \A i \in 1..Len(inbox) : inbox[i].cmd = "SHUTDOWN"
        BY NoneWaits
    <2>2. QED
        BY <2>1 DEF Queued
<1>10. Agreed'
    <2>1. Held' = <<>>
        <3>1. pos' = 0
            BY <1>1
        <3>2. 1..pos' = {}
            BY <3>1
        <3>3. QED
            BY <3>2 DEF Held
    <2>2. sphase # "exited" => sphase = "read"
        BY DEF Agreed
    <2>3. QED
        BY <1>4, <2>1, <2>2 DEF Agreed
<1>11. QED
    BY <1>2, <1>6, <1>7, <1>8, <1>9, <1>10

(* What holds when the process has been started.                           *)
LEMMA SessionStarts ==
    ASSUME SessionInit
    PROVE  SessionInv /\ Nobody /\ outbox = <<>> /\ inbox = <<>>
<1>1. /\ inbox = <<>> /\ outbox = <<>> /\ sphase = "read" /\ pos = 0
      /\ kv = [p \in Positions |-> Empty] /\ turn = NoTurn /\ tok = NoToken
      /\ produced = 0 /\ link \in {"none", "up"} /\ keep = 0 /\ committed = <<>>
      /\ hpc = [r \in Requests |-> "none"] /\ ask = [r \in Requests |-> NoAsk]
      /\ got = [r \in Requests |-> <<>>]
    BY LinksAssumption DEF SessionInit, ServiceInit
<1>2. Nobody
    BY <1>1 DEF Nobody, InTurn
<1>3. inbox \in Seq(Plain \cup Turns) /\ outbox \in Seq(Lines)
      /\ got \in [Requests -> Seq(Got)] /\ Len(inbox) = 0
    BY <1>1
<1>4. Types
    <2>1. turn.req = NoRequest /\ turn.keep + Len(turn.ids) = 0
        BY <1>1 DEF NoTurn
    <2>2. 0 \in 0..Cap /\ 0 <= Cap
        BY CapAssumption
    <2>3. QED
        BY <1>1, <1>3, <2>1, <2>2 DEF Types, Places
<1>5. Alone /\ Fresh /\ Spoken /\ Serving /\ PosValid
    BY <1>1 DEF Alone, Fresh, Spoken, Serving, PosValid, InTurn
<1>6. Queued
    BY <1>3 DEF Queued
<1>7. Answering
    <2>1. \A q \in Requests : Len(got[q]) = 0 /\ hpc[q] = "none"
        BY <1>1
    <2>2. QED
        BY <2>1 DEF Answering, InTurn
<1>8. Agreed
    <2>1. 1..pos = {}
        BY <1>1
    <2>2. Held = <<>>
        BY <2>1 DEF Held
    <2>3. QED
        BY <1>1, <2>2 DEF Agreed
<1>9. QED
    BY <1>1, <1>2, <1>4, <1>5, <1>6, <1>7, <1>8 DEF SessionInv

-----------------------------------------------------------------------------
(* What Completion promises, step by step. *)

(* The tokens of a request.                                                *)
LEMMA TokensIs ==
    ASSUME NEW g \in Seq(Got)
    PROVE  /\ Tokens(g) \in Seq(Nat) /\ Len(Tokens(g)) = Len(g) /\ Len(g) \in Nat
           /\ \A i \in 1..Len(g) : Tokens(g)[i] = g[i].tok
<1>1. /\ Len(g) \in Nat /\ DOMAIN g = 1..Len(g)
      /\ \A i \in 1..Len(g) : g[i] \in Got
    BY LenProperties, ElementOfSeq
<1>2. \A i \in 1..Len(g) : g[i].tok \in Nat
    BY <1>1, VocabAssumption DEF Got
<1>3. Tokens(g) = [i \in 1..Len(g) |-> g[i].tok]
    BY <1>1 DEF Tokens
<1>4. Tokens(g) \in [1..Len(g) -> Nat]
    BY <1>2, <1>3
<1>5. QED
    BY <1>1, <1>3, <1>4, SegmentIsSeq

(* One more token.                                                         *)
LEMMA TokensMore ==
    ASSUME NEW g \in Seq(Got), NEW x \in Got
    PROVE  Tokens(Append(g, x)) = Append(Tokens(g), x.tok)
<1>1. /\ Append(g, x) \in Seq(Got) /\ Len(Append(g, x)) = Len(g) + 1
      /\ \A i \in 1..Len(g) : Append(g, x)[i] = g[i]
      /\ Append(g, x)[Len(g) + 1] = x
    BY AppendProperties
<1>2. x.tok \in Nat
    BY VocabAssumption DEF Got
<1>3. /\ Tokens(g) \in Seq(Nat) /\ Len(Tokens(g)) = Len(g) /\ Len(g) \in Nat
      /\ \A i \in 1..Len(g) : Tokens(g)[i] = g[i].tok
    BY TokensIs
<1>4. /\ Tokens(Append(g, x)) \in Seq(Nat)
      /\ Len(Tokens(Append(g, x))) = Len(Append(g, x))
      /\ \A i \in 1..Len(Append(g, x)) : Tokens(Append(g, x))[i] = Append(g, x)[i].tok
    BY <1>1, TokensIs
<1>5. /\ Append(Tokens(g), x.tok) \in Seq(Nat)
      /\ Len(Append(Tokens(g), x.tok)) = Len(g) + 1
      /\ \A i \in 1..Len(g) : Append(Tokens(g), x.tok)[i] = Tokens(g)[i]
      /\ Append(Tokens(g), x.tok)[Len(g) + 1] = x.tok
    <2>1. /\ Append(Tokens(g), x.tok) \in Seq(Nat)
          /\ Len(Append(Tokens(g), x.tok)) = Len(Tokens(g)) + 1
          /\ \A i \in 1..Len(Tokens(g)) : Append(Tokens(g), x.tok)[i] = Tokens(g)[i]
          /\ Append(Tokens(g), x.tok)[Len(Tokens(g)) + 1] = x.tok
        BY <1>2, <1>3, AppendProperties
    <2>2. QED
        BY <1>3, <2>1
<1>6. \A i \in 1..(Len(g) + 1) :
        Tokens(Append(g, x))[i] = Append(Tokens(g), x.tok)[i]
    <2>1. ASSUME NEW i \in 1..(Len(g) + 1)
          PROVE  Tokens(Append(g, x))[i] = Append(Tokens(g), x.tok)[i]
        <3>1. i \in 1..Len(g) \/ i = Len(g) + 1
            BY <1>3
        <3>2. Tokens(Append(g, x))[i] = Append(g, x)[i].tok
            BY <1>1, <1>4
        <3>3. CASE i \in 1..Len(g)
            BY <1>1, <1>3, <1>5, <3>2, <3>3
        <3>4. CASE i = Len(g) + 1
            BY <1>1, <1>5, <3>2, <3>4
        <3>5. QED
            BY <3>1, <3>3, <3>4
    <2>2. QED
        BY <2>1
<1>7. QED
    BY <1>1, <1>3, <1>4, <1>5, <1>6, SeqEqual

(* The context of the abstract specification, and when it is complete.     *)
LEMMA ContextIs ==
    ASSUME SessionInv, NEW r \in Requests, ask[r] \in Asks
    PROVE  /\ Promise!Context(r) = Text(ask[r], Said(r), Len(got[r]))
           /\ Promise!Complete(r) <=> Over(ask[r], Said(r), Len(got[r]))
           /\ Len(got[r]) \in Nat /\ Said(r) \in Seq(Vocab \cup {NoToken})
           /\ Len(Said(r)) = Len(got[r]) + Unread(outbox)
<1>1. got[r] \in Seq(Got) /\ outbox \in Seq(Lines)
    BY DEF SessionInv, Types
<1>2. /\ Tokens(got[r]) \in Seq(Nat) /\ Len(Tokens(got[r])) = Len(got[r])
      /\ Len(got[r]) \in Nat
      /\ \A i \in 1..Len(got[r]) : Tokens(got[r])[i] = got[r][i].tok
    BY <1>1, TokensIs
<1>3. /\ Unread(outbox) \in Nat /\ Said(r) \in Seq(Vocab \cup {NoToken})
      /\ Len(Said(r)) = Len(got[r]) + Unread(outbox)
      /\ \A i \in 1..Len(got[r]) : Said(r)[i] = got[r][i].tok
    <2>1. /\ Unread(outbox) \in 0..Len(outbox) /\ Len(outbox) \in Nat
          /\ Out(got[r], outbox) \in Seq(Vocab \cup {NoToken})
          /\ Len(Out(got[r], outbox)) = Len(got[r]) + Unread(outbox)
          /\ \A i \in 1..(Len(got[r]) + Unread(outbox)) : Out(got[r], outbox)[i] =
               IF i <= Len(got[r]) THEN got[r][i].tok ELSE outbox[i - Len(got[r])].tok
        BY <1>1, OutIs
    <2>2. \A i \in 1..Len(got[r]) : i \in 1..(Len(got[r]) + Unread(outbox))
                                    /\ i <= Len(got[r])
        BY <1>2, <2>1
    <2>3. QED
        BY <2>1, <2>2 DEF Said
<1>4. ask[r].ids \in Seq(Nat) /\ Len(ask[r].ids) \in Nat /\ ask[r].max \in Int
    BY AsksAssumption
<1>5. Promise!Context(r) = ask[r].ids \o Tokens(got[r])
    BY DEF Promise!Context
<1>6. Promise!Context(r) =
        [p \in 1..(Len(ask[r].ids) + Len(got[r])) |->
           IF p <= Len(ask[r].ids) THEN ask[r].ids[p]
                                   ELSE Tokens(got[r])[p - Len(ask[r].ids)]]
    <2>0. ask[r].ids \in Seq(Nat) /\ Tokens(got[r]) \in Seq(Nat)
        BY <1>2, <1>4
    <2>1. ask[r].ids \o Tokens(got[r]) =
            [p \in 1..(Len(ask[r].ids) + Len(Tokens(got[r]))) |->
               IF p <= Len(ask[r].ids) THEN ask[r].ids[p]
                                       ELSE Tokens(got[r])[p - Len(ask[r].ids)]]
        BY <2>0, ConcatIs
    <2>2. QED
        BY <1>2, <1>5, <2>1
<1>7. \A p \in 1..(Len(ask[r].ids) + Len(got[r])) :
        p > Len(ask[r].ids) =>
          Tokens(got[r])[p - Len(ask[r].ids)] = Said(r)[p - Len(ask[r].ids)]
    <2>1. \A n, m \in Nat : \A p \in 1..(n + m) : p > n => p - n \in 1..m
        OBVIOUS
    <2>2. QED
        BY <1>2, <1>3, <1>4, <2>1
<1>8. Promise!Context(r) = Text(ask[r], Said(r), Len(got[r]))
    <2>1. \A p \in 1..(Len(ask[r].ids) + Len(got[r])) :
            p <= Len(ask[r].ids) \/ p > Len(ask[r].ids)
        BY <1>2, <1>4
    <2>2. QED
        BY <1>6, <1>7, <2>1 DEF Text
<1>9. Len(Promise!Context(r)) = Len(ask[r].ids) + Len(got[r])
    <2>1. Len(ask[r].ids \o Tokens(got[r])) = Len(ask[r].ids) + Len(Tokens(got[r]))
        BY <1>2, <1>4, ConcatProperties
    <2>2. QED
        BY <1>2, <1>5, <2>1
<1>10. Promise!Complete(r) <=>
         \/ Len(got[r]) > 0 /\ Tokens(got[r])[Len(got[r])] \in StopIds
         \/ Len(got[r]) = ask[r].max
         \/ Len(ask[r].ids) + Len(got[r]) >= Cap
    BY <1>2, <1>9 DEF Promise!Complete
<1>11. Len(got[r]) > 0 => Tokens(got[r])[Len(got[r])] = Said(r)[Len(got[r])]
    <2>1. Len(got[r]) > 0 => Len(got[r]) \in 1..Len(got[r])
        BY <1>2
    <2>2. QED
        BY <1>2, <1>3, <2>1
<1>12. QED
    BY <1>2, <1>3, <1>8, <1>10, <1>11 DEF Over

(* A request is asked.                                                     *)
LEMMA AskPromised ==
    ASSUME Types, NEW r \in Requests, NEW a \in Asks, hpc[r] = "none",
           Go(r, "waiting"), ask' = [ask EXCEPT ![r] = a], UNCHANGED got
    PROVE  Promise!Next
<1>1. hpc' = [hpc EXCEPT ![r] = "waiting"] /\ hpc \in [Requests -> Places]
    BY DEF Go, Types
<1>2. Promise!Ask(r, a)
    BY <1>1 DEF Promise!Ask
<1>3. QED
    BY <1>2 DEF Promise!Next

(* A request fails, or is abandoned.                                       *)
LEMMA FailPromised ==
    ASSUME Types, NEW r \in Requests, hpc[r] = "waiting" \/ InTurn(r),
           NEW at \in {"failed", "abandoned"}, Go(r, at), UNCHANGED <<ask, got>>
    PROVE  Promise!Next
<1>1. /\ hpc' = [hpc EXCEPT ![r] = at] /\ hpc \in [Requests -> Places]
      /\ hpc[r] \in {"waiting", "stats", "turn", "after"} /\ UNCHANGED <<ask, got>>
    BY DEF Go, Types, InTurn
<1>2. Promise!Fail(r)
    BY <1>1 DEF Promise!Fail
<1>3. QED
    BY <1>2 DEF Promise!Next

(* The steps of a turn that give its client nothing.                       *)
LEMMA SilentPromised ==
    ASSUME Types, NEW r \in Requests, hpc[r] = "waiting" \/ InTurn(r),
           NEW at \in {"stats", "turn", "after"}, Go(r, at), UNCHANGED <<ask, got>>
    PROVE  UNCHANGED Promise!vars
<1>1. /\ \A q \in Requests : hpc'[q] = IF q = r THEN at ELSE hpc[q]
      /\ hpc[r] \in {"waiting", "stats", "turn", "after"}
    BY DEF Go, Types, InTurn
<1>2. QED
    BY <1>1 DEF Promise!vars

(* A token is given to the client: one the model may produce there.        *)
LEMMA ExtendPromised ==
    ASSUME SessionInv, NEW r \in Requests, TokenRead(r)
    PROVE  Promise!Next
<1> DEFINE x == [tok |-> Head(outbox).tok, req |-> Head(outbox).req]
           n == Len(got[r])
<1>1. /\ hpc[r] = "turn" /\ outbox # <<>> /\ Head(outbox).line = "TOKEN"
      /\ outbox' = Tail(outbox) /\ got' = [got EXCEPT ![r] = Append(@, x)]
      /\ UNCHANGED <<hpc, ask>>
    BY DEF TokenRead, Waits
<1>2. /\ outbox \in Seq(Lines) /\ got \in [Requests -> Seq(Got)]
      /\ got[r] \in Seq(Got) /\ ask[r] \in Asks
    BY <1>1 DEF SessionInv, Types
<1>3. /\ Len(outbox) \in Nat \ {0} /\ Head(outbox) = outbox[1]
      /\ 1 \in 1..Len(outbox)
    <2>1. Len(outbox) \in Nat \ {0} /\ Head(outbox) = outbox[1]
        BY <1>1, <1>2, EmptySeq
    <2>2. QED
        BY <2>1
<1>4. x \in Got /\ x.tok = outbox[1].tok
    BY <1>1, <1>3 DEF SessionInv, Spoken, Got
<1> HIDE DEF x
<1>5. /\ Promise!Context(r) = Text(ask[r], Said(r), n)
      /\ Promise!Complete(r) <=> Over(ask[r], Said(r), n)
      /\ n \in Nat /\ Len(Said(r)) = n + Unread(outbox)
    BY <1>2, ContextIs
<1>6. Unread(outbox) \in Nat \ {0}
    <2>1. Ended(outbox) => Len(outbox) # 1
        BY <1>1, <1>3 DEF Ended
    <2>2. QED
        BY <1>3, <2>1 DEF Unread
<1>7. Said(r)[n + 1] = outbox[1].tok
    <2>1. \A i \in 1..(Len(got[r]) + Unread(outbox)) : Out(got[r], outbox)[i] =
            IF i <= Len(got[r]) THEN got[r][i].tok ELSE outbox[i - Len(got[r])].tok
        BY <1>2, OutIs
    <2>2. n + 1 \in 1..(n + Unread(outbox)) /\ ~(n + 1 <= n) /\ (n + 1) - n = 1
        BY <1>5, <1>6
    <2>3. QED
        BY <2>1, <2>2 DEF Said
<1>8. n \in 0..(Len(Said(r)) - 1)
    BY <1>5, <1>6
<1>9. x.tok \in Likely(Promise!Context(r)) /\ ~Promise!Complete(r)
    <2>1. Generated(ask[r], Said(r))
        BY <1>1 DEF SessionInv, Answering, InTurn
    <2>2. Said(r)[n + 1] \in Likely(Text(ask[r], Said(r), n))
          /\ ~Over(ask[r], Said(r), n)
        BY <1>8, <2>1 DEF Generated
    <2>3. QED
        BY <1>4, <1>5, <1>7, <2>2
<1>10. [q \in Requests |-> Tokens(got'[q])] =
         [[q \in Requests |-> Tokens(got[q])] EXCEPT ![r] = Append(@, x.tok)]
    <2>1. Tokens(Append(got[r], x)) = Append(Tokens(got[r]), x.tok)
        BY <1>2, <1>4, TokensMore
    <2>2. \A q \in Requests : Tokens(got'[q]) =
            IF q = r THEN Append(Tokens(got[r]), x.tok) ELSE Tokens(got[q])
        BY <1>1, <1>2, <2>1
    <2>3. QED
        BY <2>2
<1>11. Promise!Extend(r)
    BY <1>1, <1>9, <1>10 DEF Promise!Extend
<1>12. QED
    BY <1>11 DEF Promise!Next

(* A request is answered: its answer is complete.                          *)
LEMMA AnswerPromised ==
    ASSUME SessionInv, NEW r \in Requests, AfterRead(r)
    PROVE  Promise!Next
<1>1. /\ hpc[r] = "after" /\ hpc' = [hpc EXCEPT ![r] = "answered"]
      /\ UNCHANGED <<ask, got>>
    BY DEF AfterRead, Waits, Go
<1>2. /\ hpc \in [Requests -> Places] /\ ask[r] \in Asks /\ got[r] \in Seq(Got)
    BY <1>1 DEF SessionInv, Types
<1>3. Over(ask[r], Said(r), Len(Said(r))) /\ Said(r) = Tokens(got[r])
    BY AfterReadStep
<1>4. Len(Tokens(got[r])) = Len(got[r])
    BY <1>2, TokensIs
<1>5. Promise!Complete(r) <=> Over(ask[r], Said(r), Len(got[r]))
    BY <1>2, ContextIs
<1>6. Promise!Complete(r)
    BY <1>3, <1>4, <1>5
<1>7. Promise!Answer(r)
    BY <1>1, <1>2, <1>6 DEF Promise!Answer
<1>8. QED
    BY <1>7 DEF Promise!Next

(* A reading of a turn.                                                    *)
LEMMA AdvancesStep ==
    ASSUME SessionInv, NEW r \in Requests, Advances(r)
    PROVE  /\ SessionInv' /\ InTurn(r) /\ InTurn(r)'
           /\ \A q \in Requests : q # r => hpc'[q] = hpc[q]
           /\ Promise!Next \/ UNCHANGED Promise!vars
<1>1. SessionInv'
    BY StatsReadStep, TokenReadStep, DoneReadStep DEF Advances
<1>2. Types
    BY DEF SessionInv
<1>3. InTurn(r)
    BY DEF Advances, StatsRead, TokenRead, DoneRead, Waits, InTurn
<1>4. CASE StatsRead(r)
    <2>1. Go(r, "turn") /\ UNCHANGED <<ask, got>>
        BY <1>4 DEF StatsRead
    <2>2. UNCHANGED Promise!vars
        BY <1>2, <1>3, <2>1, SilentPromised
    <2>3. QED
        BY <1>1, <1>2, <1>3, <2>1, <2>2 DEF Types, Go, InTurn
<1>5. CASE TokenRead(r)
    <2>1. Promise!Next
        BY <1>5, ExtendPromised
    <2>2. UNCHANGED hpc
        BY <1>5 DEF TokenRead
    <2>3. QED
        BY <1>1, <1>3, <2>1, <2>2 DEF InTurn
<1>6. CASE DoneRead(r)
    <2>1. Go(r, "after") /\ UNCHANGED <<ask, got>>
        BY <1>6 DEF DoneRead
    <2>2. UNCHANGED Promise!vars
        BY <1>2, <1>3, <2>1, SilentPromised
    <2>3. QED
        BY <1>1, <1>2, <1>3, <2>1, <2>2 DEF Types, Go, InTurn
<1>7. QED
    BY <1>4, <1>5, <1>6 DEF Advances

-----------------------------------------------------------------------------
(* The steps that are not the session's. *)

(* The process reads a command or nothing, and never comes back.           *)
LEMMA ServeReads ==
    ASSUME Serve
    PROVE  /\ inbox' = inbox \/ (inbox # <<>> /\ inbox' = Tail(inbox))
           /\ sphase # "exited"
BY DEF Serve, Reading, ServeStats, ServeReset, Shutdown, BadHeader, Refuse,
   BeginTurn, Emit, EndTurn, Forward

(* What is not the session's is untouched by a step of the process.        *)
LEMMA SessionSame ==
    ASSUME UNCHANGED sessionVars
    PROVE  /\ Nobody' <=> Nobody
           /\ \A r \in Requests : InTurn(r)' <=> InTurn(r)
           /\ UNCHANGED Promise!vars
BY DEF sessionVars, Nobody, InTurn, Promise!vars

(* Nothing changes for the session.                                        *)
LEMMA SessionStutters ==
    ASSUME SessionInv, UNCHANGED <<serviceVars, sessionVars>>
    PROVE  SessionInv'
<1> USE DEF serviceVars, processVars, sessionVars
<1>1. Types'
    BY DEF SessionInv, Types
<1>2. Alone' /\ Fresh' /\ PosValid'
    BY DEF SessionInv, Alone, Fresh, PosValid, InTurn
<1>3. \A q \in Requests : /\ InTurn(q)' <=> InTurn(q)
                          /\ Said(q)' = Said(q) /\ CommandOf(q)' = CommandOf(q)
    BY DEF InTurn, Said, CommandOf
<1>4. (Nobody' <=> Nobody) /\ Held' = Held
    BY DEF Nobody, InTurn, Held
<1>5. Queued'
    BY <1>3, <1>4 DEF SessionInv, Queued
<1>6. Spoken' /\ Answering'
    BY <1>3, <1>4 DEF SessionInv, Spoken, Answering
<1>7. Serving' /\ Agreed'
    BY <1>3, <1>4 DEF SessionInv, Serving, Agreed
<1>8. QED
    BY <1>1, <1>2, <1>5, <1>6, <1>7 DEF SessionInv

(* A process that serves nobody only reads a SHUTDOWN.                     *)
LEMMA IdleServes ==
    ASSUME SessionInv, Nobody, Serve,
           \A i \in 1..Len(inbox) : inbox[i].cmd = "SHUTDOWN"
    PROVE  Shutdown
<1>1. sphase \notin {"emit", "forward"}
    BY DEF SessionInv, Serving, Nobody, InTurn
<1>2. CASE sphase = "read" /\ inbox # <<>>
    <2>1. Head(inbox).cmd = "SHUTDOWN"
        <3>1. inbox \in Seq(Plain \cup Turns)
            BY DEF SessionInv, Types
        <3>2. Len(inbox) \in Nat \ {0} /\ Head(inbox) = inbox[1]
            BY <1>2, <3>1, EmptySeq
        <3>3. 1 \in 1..Len(inbox)
            BY <3>2
        <3>4. QED
            BY <3>2, <3>3
    <2>2. QED
        BY <1>1, <2>1 DEF Serve, Reading, ServeStats, ServeReset, BadHeader, Refuse,
           BeginTurn, Emit, EndTurn, Forward
<1>3. CASE ~(sphase = "read" /\ inbox # <<>>)
    BY <1>1, <1>3 DEF Serve, Reading, ServeStats, ServeReset, BadHeader, Refuse,
       BeginTurn, Emit, EndTurn, Forward, Shutdown
<1>4. QED
    BY <1>2, <1>3

(* The process never changes its connection.                               *)
LEMMA ServeLink ==
    ASSUME Serve
    PROVE  UNCHANGED link
BY DEF Serve, ServeStats, ServeReset, Shutdown, BadHeader, Refuse,
   BeginTurn, Emit, EndTurn, Forward, processVars
=============================================================================
