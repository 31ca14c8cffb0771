--------------------------- MODULE PipelineProofs ---------------------------
(***************************************************************************)
(* That a reply answers the request its coordinator waits on, that the     *)
(* logits are those of what was fed, the types of the state, and that a    *)
(* coordinator and its worker print what one machine with the whole model  *)
(* prints, for any coordinators, turns, cuts, block and cache sizes, and   *)
(* any number of lost connections and killed processes.                    *)
(***************************************************************************)
EXTENDS Pipeline, SequenceTheorems, NaturalsInduction, WellFoundedInduction, TLAPS

-----------------------------------------------------------------------------
(* The inductive invariant                                                 *)

IsSequence(s) == \E S : s \in Seq(S)

Shapes ==
    /\ DOMAIN cpc = Coordinators
    /\ off \in [Coordinators -> Nat] /\ pos \in [Coordinators -> Nat]
    /\ link \in [Coordinators -> {"none", "up", "down"}]
    /\ DOMAIN said = Coordinators /\ \A c \in Coordinators : IsSequence(said[c])
    /\ DOMAIN toW = Coordinators /\ DOMAIN toC = Coordinators
    /\ wpc \in {"header", "body"} => conn \in Coordinators
    /\ backlog \in Seq(Coordinators)

(* Where a coordinator is in a turn.                                       *)
Place(c) ==
    /\ Len(said[c]) <= Len(TurnsOf[c])
    /\ cpc[c] \in {"block", "decode", "await"} => Len(said[c]) >= 1
    /\ cpc[c] = "block" => InPrefill(c)
    /\ cpc[c] = "decode" => ~InPrefill(c)

(* What is on the wire.  Of a request and its reply there is one, in one   *)
(* place, as long as the connection is up.                                 *)
Matches(h, c) == Header("RES", h.n, h.pos, h.lo) = Outstanding(c)
Serving(c) == conn = c /\ wpc = "body"
Reply(c) == \E b : toC[c] = <<Outstanding(c), b>>
Silent(c) == cpc[c] # "await" /\ toW[c] = <<>> /\ toC[c] = <<>> /\ ~Serving(c)
Requested(c) ==
    /\ cpc[c] = "await" /\ toC[c] = <<>> /\ ~Serving(c)
    /\ \E h, b : toW[c] = <<h, b>> /\ Matches(h, c)
Served(c) ==
    /\ cpc[c] = "await" /\ toC[c] = <<>> /\ Serving(c) /\ Matches(head, c)
    /\ \E b : toW[c] = <<b>>
Replied(c) == cpc[c] = "await" /\ toW[c] = <<>> /\ ~Serving(c) /\ Reply(c)
LastReply(c) ==
    toC[c] # <<>> => cpc[c] = "await" /\ (toC[c] = <<Outstanding(c)>> \/ Reply(c))
Wire(c) ==
    /\ link[c] = "none" => /\ cpc[c] \in {"off", "failed"} /\ ~Serving(c)
                           /\ toW[c] = <<>> /\ toC[c] = <<>>
    /\ link[c] = "up" => /\ cpc[c] \in {"idle", "block", "decode", "await"}
                         /\ Silent(c) \/ Requested(c) \/ Served(c) \/ Replied(c)
    /\ link[c] = "down" => cpc[c] # "off" /\ LastReply(c)

WireInv == Shapes /\ \A c \in Coordinators : Place(c) /\ Wire(c)

-----------------------------------------------------------------------------
(* Sequences                                                               *)

LEMMA TurnTypes ==
    ASSUME NEW c \in Coordinators
    PROVE  /\ Len(TurnsOf[c]) \in Nat
           /\ \A n \in 1..Len(TurnsOf[c]) :
                 /\ TurnsOf[c][n].keep \in Nat /\ Len(TurnsOf[c][n].ids) \in Nat
                 /\ TurnsOf[c][n].ids \in Seq(Vocab)
<1> DEFINE T == [keep : Nat, ids : Seq(Vocab), max : Nat]
<1>1. TurnsOf[c] \in Seq(T)
    BY TurnsAssumption
<1>2. ASSUME NEW n \in 1..Len(TurnsOf[c])
      PROVE  /\ TurnsOf[c][n].keep \in Nat /\ Len(TurnsOf[c][n].ids) \in Nat
             /\ TurnsOf[c][n].ids \in Seq(Vocab)
    <2>1. TurnsOf[c][n] \in T
        BY <1>1, ElementOfSeq
    <2>2. TurnsOf[c][n].keep \in Nat /\ TurnsOf[c][n].ids \in Seq(Vocab)
        BY <2>1
    <2>3. QED
        BY <2>2
<1>3. Len(TurnsOf[c]) \in Nat
    BY <1>1, LenProperties
<1>4. QED
    BY <1>2, <1>3

LEMMA SequenceFacts ==
    ASSUME NEW s, IsSequence(s)
    PROVE  /\ Len(s) \in Nat
           /\ \A x : IsSequence(Append(s, x)) /\ Len(Append(s, x)) = Len(s) + 1
           /\ \A x : \A n \in 1..Len(s) :
                 IsSequence([s EXCEPT ![n] = x]) /\ Len([s EXCEPT ![n] = x]) = Len(s)
<1>1. PICK S : s \in Seq(S)
    BY DEF IsSequence
<1>2. ASSUME NEW x PROVE IsSequence(Append(s, x)) /\ Len(Append(s, x)) = Len(s) + 1
    <2>1. s \in Seq(S \cup {x})
        BY <1>1
    <2>2. Append(s, x) \in Seq(S \cup {x}) /\ Len(Append(s, x)) = Len(s) + 1
        BY <2>1
    <2>3. QED
        BY <2>2 DEF IsSequence
<1>3. ASSUME NEW x, NEW n \in 1..Len(s)
      PROVE  IsSequence([s EXCEPT ![n] = x]) /\ Len([s EXCEPT ![n] = x]) = Len(s)
    <2>1. s \in Seq(S \cup {x}) /\ x \in S \cup {x}
        BY <1>1
    <2>2. [s EXCEPT ![n] = x] \in Seq(S \cup {x}) /\ Len([s EXCEPT ![n] = x]) = Len(s)
        BY <2>1, ExceptSeq
    <2>3. QED
        BY <2>2 DEF IsSequence
<1>4. Len(s) \in Nat
    BY <1>1, LenProperties
<1>5. QED
    BY <1>2, <1>3, <1>4

(* Messages of two pieces.                                                 *)
LEMMA Pieces ==
    ASSUME NEW h, NEW b
    PROVE  /\ <<>> \o <<h, b>> = <<h, b>> /\ <<h, b>> # <<>> /\ <<b>> # <<>>
           /\ <<h, b>>[1] = h /\ <<h>>[1] = h
           /\ Tail(<<h, b>>) = <<b>> /\ Tail(<<b>>) = <<>>
           /\ SubSeq(<<h, b>>, 3, Len(<<h, b>>)) = <<>>
           /\ Len(<<h, b>>) = 2 /\ Len(<<b>>) = 1 /\ Len(<<>>) = 0
           /\ Prefix(<<>>) = {<<>>}
           /\ Prefix(<<h, b>>) = {<<>>, <<h>>, <<h, b>>}
<1>1. <<>> \o <<h, b>> = <<h, b>>
    OBVIOUS
<1>2. Tail(<<h, b>>) = <<b>> /\ Tail(<<b>>) = <<>>
    OBVIOUS
<1>3. SubSeq(<<h, b>>, 3, Len(<<h, b>>)) = <<>>
    OBVIOUS
<1>4. Len(<<h, b>>) = 2 /\ Len(<<b>>) = 1 /\ Len(<<>>) = 0
    OBVIOUS
<1>5. Prefix(<<>>) = {<<>>}
    <2>1. 0..Len(<<>>) = {0}
        OBVIOUS
    <2>2. SubSeq(<<>>, 1, 0) = <<>>
        BY SubSeqEmpty
    <2>3. Prefix(<<>>) = {SubSeq(<<>>, 1, n) : n \in {0}}
        BY <2>1, Zenon DEF Prefix
    <2>4. QED
        BY <2>2, <2>3, Zenon
<1>6. Prefix(<<h, b>>) = {<<>>, <<h>>, <<h, b>>}
    <2>1. 0..Len(<<h, b>>) = {0, 1, 2}
        OBVIOUS
    <2>2. SubSeq(<<h, b>>, 1, 0) = <<>>
        BY SubSeqEmpty
    <2>3. SubSeq(<<h, b>>, 1, 1) = <<h>>
        <3>1. \A i \in 1..1 : <<h, b>>[i] \in {h, b}
            OBVIOUS
        <3>2. /\ SubSeq(<<h, b>>, 1, 1) \in Seq({h, b})
              /\ Len(SubSeq(<<h, b>>, 1, 1)) = 1 - 1 + 1
              /\ \A i \in 1..(1 - 1 + 1) :
                    SubSeq(<<h, b>>, 1, 1)[i] = <<h, b>>[1 + i - 1]
            BY <3>1, SubSeqProperties
        <3>3. Len(SubSeq(<<h, b>>, 1, 1)) = 1 /\ SubSeq(<<h, b>>, 1, 1)[1] = h
            BY <3>2
        <3>4. /\ <<h>> \in Seq({h, b}) /\ Len(<<h>>) = 1 /\ <<h>>[1] = h
              /\ \A i \in 1..1 : i = 1
            OBVIOUS
        <3>5. QED
            BY <3>2, <3>3, <3>4, SeqEqual
    <2>4. SubSeq(<<h, b>>, 1, 2) = <<h, b>>
        <3>1. <<h, b>> \in Seq({h, b}) /\ Len(<<h, b>>) = 2
            OBVIOUS
        <3>2. QED
            BY <3>1, SubSeqFull
    <2>5. QED
        BY <2>1, <2>2, <2>3, <2>4 DEF Prefix
<1>7. QED
    BY <1>1, <1>2, <1>3, <1>4, <1>5, <1>6

-----------------------------------------------------------------------------
(* What an action leaves alone                                             *)

(* The request waited on depends on the place in the turn only.            *)
LEMMA SamePlace ==
    ASSUME NEW c \in Coordinators, Len(said[c])' = Len(said[c]),
           pos'[c] = pos[c], off'[c] = off[c], cut' = cut
    PROVE  /\ Outstanding(c)' = Outstanding(c) /\ InPrefill(c)' = InPrefill(c)
           /\ \A h : Matches(h, c)' = Matches(h, c)
<1>1. Turn(c)' = Turn(c)
    BY DEF Turn
<1>2. BlockEnd(c)' = BlockEnd(c) /\ InPrefill(c)' = InPrefill(c)
    BY <1>1 DEF BlockEnd, InPrefill
<1>3. Outstanding(c)' = Outstanding(c)
    BY <1>2 DEF Outstanding, Header
<1>4. QED
    BY <1>2, <1>3 DEF Matches, Header

(* A coordinator that neither moves nor is served keeps its invariant.     *)
LEMMA WireStays ==
    ASSUME NEW c \in Coordinators, Place(c), Wire(c), cut' = cut,
           cpc'[c] = cpc[c], said'[c] = said[c], pos'[c] = pos[c], off'[c] = off[c],
           link'[c] = link[c], toW'[c] = toW[c], toC'[c] = toC[c],
           Serving(c)' = Serving(c), Serving(c) => head' = head
    PROVE  Place(c)' /\ Wire(c)'
<1>1. /\ Outstanding(c)' = Outstanding(c) /\ InPrefill(c)' = InPrefill(c)
      /\ \A h : Matches(h, c)' = Matches(h, c)
    BY SamePlace
<1>2. Place(c)'
    BY <1>1 DEF Place
<1>3. Silent(c)' = Silent(c)
    BY DEF Silent
<1>4. Requested(c) => Requested(c)'
    <2>1. SUFFICES ASSUME Requested(c) PROVE Requested(c)'
        OBVIOUS
    <2>2. PICK h, b : toW[c] = <<h, b>> /\ Matches(h, c)
        BY <2>1 DEF Requested
    <2>3. toW'[c] = <<h, b>> /\ Matches(h, c)'
        BY <2>2, <1>1
    <2>4. cpc'[c] = "await" /\ toC'[c] = <<>> /\ ~Serving(c)'
        BY <2>1 DEF Requested
    <2>5. QED
        BY <2>3, <2>4 DEF Requested
<1>5. Served(c) => Served(c)'
    <2>1. SUFFICES ASSUME Served(c) PROVE Served(c)'
        OBVIOUS
    <2>2. Matches(head, c)'
        BY <2>1, <1>1 DEF Served, Matches, Header
    <2>3. QED
        BY <2>1, <2>2 DEF Served
<1>6. Reply(c)' = Reply(c)
    BY <1>1 DEF Reply
<1>7. Replied(c)' = Replied(c)
    BY <1>6 DEF Replied
<1>8. LastReply(c)' = LastReply(c)
    BY <1>1, <1>6 DEF LastReply
<1>9. QED
    BY <1>2, <1>3, <1>4, <1>5, <1>7, <1>8 DEF Wire

(* A coordinator that waits for nothing, with nothing of its own in        *)
(* flight, or with a connection that is lost.                              *)
LEMMA Quiet ==
    ASSUME NEW c, cpc[c] # "await", toC[c] = <<>>,
           link[c] = "none" => /\ cpc[c] \in {"off", "failed"} /\ ~Serving(c)
                               /\ toW[c] = <<>>,
           link[c] = "up" => /\ cpc[c] \in {"idle", "block", "decode"}
                             /\ toW[c] = <<>> /\ ~Serving(c),
           link[c] = "down" => cpc[c] # "off"
    PROVE  Wire(c)
    BY DEF Wire, Silent, LastReply

LEMMA Unserved ==
    ASSUME NEW c, Wire(c), cpc[c] # "await"
    PROVE  /\ link[c] = "none" => ~Serving(c) /\ toW[c] = <<>> /\ cpc[c] \in {"off", "failed"}
           /\ link[c] = "up" => /\ toW[c] = <<>> /\ ~Serving(c)
                                /\ cpc[c] \in {"idle", "block", "decode"}
           /\ link[c] = "down" => cpc[c] # "off"
           /\ link[c] \in {"none", "up", "down"} => toC[c] = <<>>
    BY DEF Wire, Silent, Requested, Served, Replied, LastReply

-----------------------------------------------------------------------------
(* The steps of a coordinator                                              *)

LEMMA WireInit == Init => WireInv
<1> SUFFICES ASSUME Init PROVE WireInv
    OBVIOUS
<1>1. Shapes
    <2>1. <<>> \in Seq(Coordinators) /\ IsSequence(<<>>)
        BY EmptySeq DEF IsSequence
    <2>2. QED
        BY <2>1 DEF Init, Shapes
<1>2. ASSUME NEW c \in Coordinators PROVE Place(c) /\ Wire(c)
    <2>1. Len(<<>>) = 0 /\ Len(TurnsOf[c]) \in Nat
        BY TurnTypes
    <2>2. cpc[c] = "off" /\ said[c] = <<>> /\ toW[c] = <<>> /\ toC[c] = <<>>
          /\ link[c] = "none" /\ wpc = "accept"
        BY DEF Init
    <2>3. Place(c)
        BY <2>1, <2>2 DEF Place
    <2>4. Wire(c)
        BY <2>2, Quiet DEF Serving
    <2>5. QED
        BY <2>3, <2>4
<1>3. QED
    BY <1>1, <1>2 DEF WireInv

LEMMA ConnectSafe ==
    ASSUME WireInv, NEW c \in Coordinators, Connect(c)
    PROVE  WireInv'
<1>1. cpc[c] = "off" /\ cpc' = [cpc EXCEPT ![c] = cpc'[c]] /\ cpc'[c] \in {"idle", "failed"}
      /\ \/ cpc'[c] = "idle" /\ link' = [link EXCEPT ![c] = "up"]
                             /\ backlog' = Append(backlog, c)
         \/ cpc'[c] = "failed" /\ link' = link /\ backlog' = backlog
      /\ cut' = cut /\ said' = said /\ pos' = pos /\ off' = off
      /\ toW' = toW /\ toC' = toC /\ wpc' = wpc /\ conn' = conn /\ head' = head
    BY DEF Connect, turnVars, WireInv, Shapes
<1>2. Place(c) /\ Wire(c) /\ Shapes
    BY DEF WireInv
<1>3. link[c] = "none"
    BY <1>1, <1>2 DEF Wire, Shapes
<1>4. Shapes'
    <2>1. backlog' \in Seq(Coordinators)
        <3>1. backlog \in Seq(Coordinators)
            BY <1>2 DEF Shapes
        <3>2. Append(backlog, c) \in Seq(Coordinators)
            BY <3>1, AppendProperties
        <3>3. QED
            BY <1>1, <3>1, <3>2
    <2>2. QED
        BY <1>1, <1>2, <2>1 DEF Shapes
<1>5. ASSUME NEW d \in Coordinators PROVE Place(d)' /\ Wire(d)'
    <2>1. CASE d # c
        <3>1. /\ cpc'[d] = cpc[d] /\ said'[d] = said[d] /\ pos'[d] = pos[d]
              /\ off'[d] = off[d] /\ link'[d] = link[d] /\ toW'[d] = toW[d]
              /\ toC'[d] = toC[d] /\ Serving(d)' = Serving(d)
            BY <1>1, <1>2, <2>1 DEF Shapes, Serving
        <3>2. Place(d) /\ Wire(d)
            BY DEF WireInv
        <3>3. QED
            BY <1>1, <3>1, <3>2, WireStays
    <2>2. CASE d = c
        <3>1. Place(c)'
            BY <1>1, <1>2 DEF Place
        <3>2. toC'[c] = <<>> /\ toW'[c] = <<>> /\ ~Serving(c)'
            BY <1>1, <1>2, <1>3 DEF Wire, Serving
        <3>3. link'[c] \in {"none", "up"}
              /\ (link'[c] = "none" => cpc'[c] = "failed")
              /\ (link'[c] = "up" => cpc'[c] = "idle") /\ cpc'[c] # "await"
            BY <1>1, <1>2, <1>3 DEF Shapes
        <3>4. Wire(c)'
            BY <3>2, <3>3 DEF Wire, Silent
        <3>5. QED
            BY <2>2, <3>1, <3>4
    <2>3. QED
        BY <2>1, <2>2
<1>6. QED
    BY <1>4, <1>5 DEF WireInv

(* A coordinator that works by itself, waiting for no reply before or      *)
(* after.                                                                  *)
LEMMA AloneSafe ==
    ASSUME WireInv, NEW c \in Coordinators, Shapes', Place(c)',
           cpc[c] \in {"idle", "block", "decode"},
           cpc'[c] \in {"idle", "block", "decode", "ended", "failed"},
           link'[c] = IF cpc'[c] \in {"ended", "failed"} THEN "down" ELSE link[c],
           cut' = cut, toC' = toC, wpc' = wpc, conn' = conn, head' = head, toW' = toW,
           \A d \in Coordinators \ {c} :
              /\ cpc'[d] = cpc[d] /\ said'[d] = said[d] /\ pos'[d] = pos[d]
              /\ off'[d] = off[d] /\ link'[d] = link[d]
    PROVE  WireInv'
<1>1. Place(c) /\ Wire(c) /\ Shapes
    BY DEF WireInv
<1>2. ASSUME NEW d \in Coordinators PROVE Place(d)' /\ Wire(d)'
    <2>1. CASE d # c
        <3>1. Serving(d)' = Serving(d) /\ toW'[d] = toW[d] /\ toC'[d] = toC[d]
            BY DEF Serving
        <3>2. Place(d) /\ Wire(d)
            BY DEF WireInv
        <3>3. QED
            BY <2>1, <3>1, <3>2, WireStays
    <2>2. CASE d = c
        <3>1. link[c] \in {"none", "up", "down"}
            BY <1>1 DEF Shapes
        <3>2. toC[c] = <<>> /\ link[c] # "none"
              /\ (link[c] = "up" => toW[c] = <<>> /\ ~Serving(c))
            BY <1>1, <3>1, Unserved
        <3>3. toC'[c] = <<>> /\ link'[c] \in {"up", "down"}
              /\ (link'[c] = "up" => /\ toW'[c] = <<>> /\ ~Serving(c)'
                                     /\ cpc'[c] \in {"idle", "block", "decode"})
            BY <3>1, <3>2 DEF Serving
        <3>4. Wire(c)'
            BY <3>3 DEF Wire, Silent, LastReply
        <3>5. QED
            BY <2>2, <3>4
    <2>3. QED
        BY <2>1, <2>2
<1>3. QED
    BY <1>2 DEF WireInv

LEMMA BeginTurnSafe ==
    ASSUME WireInv, NEW c \in Coordinators, BeginTurn(c)
    PROVE  WireInv'
<1>1. Shapes /\ Place(c)
    BY DEF WireInv
<1> DEFINE t == TurnsOf[c][Len(said[c]) + 1]
<1>2. /\ cpc[c] = "idle" /\ Len(said[c]) < Len(TurnsOf[c])
      /\ said' = [said EXCEPT ![c] = Append(@, <<>>)]
      /\ \/ /\ Accepted(t, pos[c]) /\ cpc' = [cpc EXCEPT ![c] = "block"]
            /\ pos' = [pos EXCEPT ![c] = t.keep] /\ off' = [off EXCEPT ![c] = 0]
         \/ cpc' = cpc /\ pos' = pos /\ off' = off
      /\ cut' = cut /\ link' = link /\ toW' = toW /\ toC' = toC
      /\ wpc' = wpc /\ conn' = conn /\ head' = head /\ backlog' = backlog
    BY DEF BeginTurn, netVars, workerVars
<1>3. Len(said[c]) \in Nat /\ Len(TurnsOf[c]) \in Nat
      /\ IsSequence(said'[c]) /\ Len(said'[c]) = Len(said[c]) + 1
    BY <1>1, <1>2, SequenceFacts, TurnTypes DEF Shapes
<1>4. Len(said[c]) + 1 \in 1..Len(TurnsOf[c])
    BY <1>2, <1>3
<1>5. t.keep \in Nat /\ Len(t.ids) \in Nat /\ t.ids \in Seq(Vocab)
    BY <1>4, TurnTypes
<1>6. Shapes'
    <2>1. \A d \in Coordinators : IsSequence(said'[d])
        BY <1>1, <1>2, <1>3 DEF Shapes
    <2> HIDE DEF t
    <2>2. /\ DOMAIN cpc = Coordinators /\ DOMAIN said = Coordinators
          /\ off \in [Coordinators -> Nat] /\ pos \in [Coordinators -> Nat]
        BY <1>1 DEF Shapes
    <2>3. DOMAIN cpc' = Coordinators /\ DOMAIN said' = Coordinators
        BY <1>2, <2>2
    <2>4. off' \in [Coordinators -> Nat] /\ pos' \in [Coordinators -> Nat]
        <3>1. t.keep \in Nat
            BY <1>5
        <3>2. pos' = [pos EXCEPT ![c] = t.keep] \/ pos' = pos
            BY <1>2
        <3>3. off' = [off EXCEPT ![c] = 0] \/ off' = off
            BY <1>2
        <3>4. QED
            BY <2>2, <3>1, <3>2, <3>3
    <2>5. QED
        BY <1>1, <1>2, <2>1, <2>3, <2>4 DEF Shapes
<1>7. Turn(c)' = t
    BY <1>3 DEF Turn
<1>8. Place(c)'
    <2>1. CASE cpc' = [cpc EXCEPT ![c] = "block"] /\ Accepted(t, pos[c])
               /\ off' = [off EXCEPT ![c] = 0]
        <3>1. t.ids # <<>>
            BY <2>1 DEF Accepted
        <3>2. Len(t.ids) > 0
            BY <3>1, <1>5, EmptySeq
        <3>3. cpc'[c] = "block" /\ off'[c] = 0
            BY <2>1, <1>1 DEF Shapes
        <3>4. InPrefill(c)'
            BY <3>2, <3>3, <1>7 DEF InPrefill
        <3>5. QED
            BY <3>3, <3>4, <1>3, <1>4 DEF Place
    <2>2. CASE cpc' = cpc
        BY <2>2, <1>2, <1>3, <1>4 DEF Place
    <2>3. QED
        BY <1>2, <2>1, <2>2
<1>9. cpc'[c] \in {"idle", "block"} /\ link'[c] = link[c]
      /\ \A d \in Coordinators \ {c} :
              /\ cpc'[d] = cpc[d] /\ said'[d] = said[d] /\ pos'[d] = pos[d]
              /\ off'[d] = off[d] /\ link'[d] = link[d]
    BY <1>1, <1>2 DEF Shapes
<1>10. QED
    BY <1>2, <1>6, <1>8, <1>9, AloneSafe

LEMMA EndTurnSafe ==
    ASSUME WireInv, NEW c \in Coordinators, EndTurn(c)
    PROVE  WireInv'
<1>1. Shapes /\ Place(c)
    BY DEF WireInv
<1>2. cpc[c] = "decode" /\ cpc' = [cpc EXCEPT ![c] = "idle"]
      /\ cut' = cut /\ said' = said /\ pos' = pos /\ off' = off
      /\ link' = link /\ toW' = toW /\ toC' = toC
      /\ wpc' = wpc /\ conn' = conn /\ head' = head /\ backlog' = backlog
    BY DEF EndTurn, turnVars, netVars, workerVars
<1>3. Shapes' /\ Place(c)' /\ cpc'[c] = "idle"
    BY <1>1, <1>2 DEF Shapes, Place
<1>4. QED
    BY <1>1, <1>2, <1>3, AloneSafe DEF Shapes

LEMMA LeaveSafe ==
    ASSUME WireInv, NEW c \in Coordinators, Leave(c)
    PROVE  WireInv'
<1>1. Shapes /\ Place(c) /\ Wire(c)
    BY DEF WireInv
<1>2. cpc[c] = "idle" /\ cpc' = [cpc EXCEPT ![c] = "ended"] /\ Closed(c)
      /\ cut' = cut /\ said' = said /\ pos' = pos /\ off' = off
      /\ toW' = toW /\ toC' = toC
      /\ wpc' = wpc /\ conn' = conn /\ head' = head /\ backlog' = backlog
    BY DEF Leave, turnVars, workerVars
<1>3. link[c] # "none"
    BY <1>1, <1>2 DEF Wire
<1>4. link' = [link EXCEPT ![c] = "down"]
    BY <1>1, <1>2, <1>3 DEF Closed
<1>5. Shapes' /\ Place(c)' /\ cpc'[c] = "ended" /\ link'[c] = "down"
    BY <1>1, <1>2, <1>4 DEF Shapes, Place
<1>6. QED
    BY <1>1, <1>2, <1>4, <1>5, AloneSafe DEF Shapes

(* A request is sent: one that matches what is outstanding.                *)
LEMMA AskSafe ==
    ASSUME WireInv, NEW c \in Coordinators, NEW h, NEW b, Matches(h, c),
           Shapes', cpc[c] \in {"block", "decode"}, cpc'[c] = "await",
           Len(said[c])' = Len(said[c]), pos' = pos, off' = off, cut' = cut,
           toW' = Send(toW, c, h, b), link' = link, toC' = toC,
           wpc' = wpc, conn' = conn, head' = head,
           \A d \in Coordinators \ {c} : cpc'[d] = cpc[d] /\ said'[d] = said[d]
    PROVE  WireInv'
<1>1. Place(c) /\ Wire(c) /\ Shapes
    BY DEF WireInv
<1>2. ASSUME NEW d \in Coordinators PROVE Place(d)' /\ Wire(d)'
    <2>1. CASE d # c
        <3>1. Serving(d)' = Serving(d)
            BY DEF Serving
        <3>2. toW'[d] = toW[d]
            BY <1>1, <2>1 DEF Send, Shapes
        <3>3. Place(d) /\ Wire(d)
            BY DEF WireInv
        <3>4. QED
            BY <2>1, <3>1, <3>2, <3>3, WireStays
    <2>2. CASE d = c
        <3>1. link[c] \in {"none", "up", "down"}
            BY <1>1 DEF Shapes
        <3>2. toC[c] = <<>> /\ link[c] # "none"
              /\ (link[c] = "up" => toW[c] = <<>> /\ ~Serving(c))
            BY <1>1, <3>1, Unserved
        <3>3. Matches(h, c)'
            BY SamePlace
        <3>4. Place(c)'
            BY <1>1 DEF Place
        <3>5. CASE link[c] = "up"
            <4>1. toW'[c] = <<>> \o <<h, b>>
                BY <1>1, <3>2, <3>5 DEF Send, Shapes
            <4>2. toW'[c] = <<h, b>>
                BY <4>1, Pieces
            <4>3. Requested(c)'
                BY <3>2, <3>3, <3>5, <4>2 DEF Requested, Serving
            <4>4. QED
                BY <2>2, <3>4, <3>5, <4>3 DEF Wire
        <3>6. CASE link[c] = "down"
            BY <2>2, <3>2, <3>4, <3>6 DEF Wire, LastReply
        <3>7. QED
            BY <3>1, <3>2, <3>5, <3>6
    <2>3. QED
        BY <2>1, <2>2
<1>3. QED
    BY <1>2 DEF WireInv

LEMMA TurnFacts ==
    ASSUME NEW c \in Coordinators, Shapes, Place(c), Len(said[c]) >= 1
    PROVE  /\ Turn(c).ids \in Seq(Vocab) /\ Len(Turn(c).ids) \in Nat
           /\ off[c] \in Nat /\ pos[c] \in Nat /\ BlockEnd(c) \in Nat
           /\ InPrefill(c) => /\ BlockEnd(c) \in (off[c] + 1)..Len(Turn(c).ids)
<1>1. Len(said[c]) \in 1..Len(TurnsOf[c])
    <2>1. IsSequence(said[c])
        BY DEF Shapes
    <2>2. Len(said[c]) \in Nat /\ Len(TurnsOf[c]) \in Nat
        BY <2>1, SequenceFacts, TurnTypes
    <2>3. QED
        BY <2>2 DEF Place
<1>2. Turn(c).ids \in Seq(Vocab) /\ Len(Turn(c).ids) \in Nat
    BY <1>1, TurnTypes DEF Turn
<1>3. off[c] \in Nat /\ pos[c] \in Nat
    BY DEF Shapes
<1>4. QED
    BY <1>2, <1>3, SizesAssumption DEF BlockEnd, InPrefill

LEMMA SendBlockSafe ==
    ASSUME WireInv, NEW c \in Coordinators, SendBlock(c)
    PROVE  WireInv'
<1>1. Shapes /\ Place(c)
    BY DEF WireInv
<1> DEFINE ids == SubSeq(Turn(c).ids, off[c] + 1, BlockEnd(c))
           base == pos[c] + off[c]
           h == Header("BATCH", Len(ids), base, cut[c])
<1>2. PICK b : toW' = Send(toW, c, h, b)
    BY DEF SendBlock, Ask
<1>3. cpc[c] = "block" /\ cpc' = [cpc EXCEPT ![c] = "await"]
      /\ cut' = cut /\ said' = said /\ pos' = pos /\ off' = off
      /\ link' = link /\ toC' = toC
      /\ wpc' = wpc /\ conn' = conn /\ head' = head /\ backlog' = backlog
    BY DEF SendBlock, Ask, workerVars
<1>4. Len(said[c]) >= 1 /\ InPrefill(c)
    BY <1>1, <1>3 DEF Place
<1>5. /\ Turn(c).ids \in Seq(Vocab) /\ off[c] \in Nat
      /\ BlockEnd(c) \in (off[c] + 1)..Len(Turn(c).ids) /\ Len(Turn(c).ids) \in Nat
    BY <1>1, <1>4, TurnFacts
<1>6. Len(ids) = BlockEnd(c) - off[c]
    <2>1. \A i \in (off[c] + 1)..BlockEnd(c) : Turn(c).ids[i] \in Vocab
        BY <1>5, ElementOfSeq
    <2>2. off[c] + 1 \in Int /\ BlockEnd(c) \in Int
        BY <1>5
    <2>3. Len(ids) = IF off[c] + 1 <= BlockEnd(c) THEN BlockEnd(c) - (off[c] + 1) + 1 ELSE 0
        BY <2>1, <2>2, SubSeqProperties
    <2>4. QED
        BY <1>5, <2>3
<1>7. Matches(h, c)
    BY <1>4, <1>6 DEF Matches, Outstanding, Header
<1>8. Shapes'
    BY <1>1, <1>2, <1>3 DEF Shapes, Send
<1>9. cpc'[c] = "await" /\ \A d \in Coordinators \ {c} : cpc'[d] = cpc[d]
    BY <1>1, <1>3 DEF Shapes
<1> HIDE DEF h
<1>10. QED
    BY <1>2, <1>3, <1>7, <1>8, <1>9, AskSafe

LEMMA PrintTokenSafe ==
    ASSUME WireInv, NEW c \in Coordinators, PrintToken(c)
    PROVE  WireInv'
<1>1. Shapes /\ Place(c)
    BY DEF WireInv
<1> DEFINE h == Header("FWD", pos[c], pos[c], cut[c])
           last == Append(said[c][Len(said[c])], tok[c])
<1>2. /\ cpc[c] = "decode"
      /\ said' = [said EXCEPT ![c] = [@ EXCEPT ![Len(said[c])] = last]]
      /\ cut' = cut /\ pos' = pos /\ off' = off /\ link' = link /\ toC' = toC
      /\ wpc' = wpc /\ conn' = conn /\ head' = head /\ backlog' = backlog
      /\ \/ cpc' = [cpc EXCEPT ![c] = "idle"] /\ toW' = toW
         \/ Ask(c, "FWD", pos[c], <<tok[c]>>)
    BY DEF PrintToken, workerVars
<1>3. Len(said[c]) >= 1 /\ ~InPrefill(c) /\ IsSequence(said[c])
    BY <1>1, <1>2 DEF Place, Shapes
<1>4. IsSequence(said'[c]) /\ Len(said'[c]) = Len(said[c])
    <2>1. Len(said[c]) \in 1..Len(said[c])
        BY <1>3, SequenceFacts
    <2>2. said'[c] = [said[c] EXCEPT ![Len(said[c])] = last]
        BY <1>1, <1>2 DEF Shapes
    <2> HIDE DEF last
    <2>3. \A x : \A n \in 1..Len(said[c]) :
             IsSequence([said[c] EXCEPT ![n] = x]) /\ Len([said[c] EXCEPT ![n] = x]) = Len(said[c])
        BY <1>3, SequenceFacts, Zenon
    <2>4. \A x : LET e == [said[c] EXCEPT ![Len(said[c])] = x]
                 IN  IsSequence(e) /\ Len(e) = Len(said[c])
        BY <2>1, <2>3
    <2>5. PICK x : x = last
        OBVIOUS
    <2>6. said'[c] = [said[c] EXCEPT ![Len(said[c])] = x]
        BY <2>2, <2>5
    <2>7. QED
        BY <2>4, <2>6
<1>5. /\ DOMAIN said' = Coordinators /\ \A d \in Coordinators : IsSequence(said'[d])
      /\ \A d \in Coordinators \ {c} : said'[d] = said[d]
    BY <1>1, <1>2, <1>4 DEF Shapes
<1>6. CASE cpc' = [cpc EXCEPT ![c] = "idle"] /\ toW' = toW
    <2>1. Shapes' /\ cpc'[c] = "idle" /\ \A d \in Coordinators \ {c} : cpc'[d] = cpc[d]
        BY <1>1, <1>2, <1>5, <1>6 DEF Shapes
    <2>2. Place(c)'
        BY <1>1, <1>4, <2>1 DEF Place
    <2>3. QED
        BY <1>1, <1>2, <1>5, <1>6, <2>1, <2>2, AloneSafe
<1>7. CASE Ask(c, "FWD", pos[c], <<tok[c]>>)
    <2>1. PICK b : toW' = Send(toW, c, h, b)
        BY <1>7 DEF Ask
    <2>2. cpc' = [cpc EXCEPT ![c] = "await"]
        BY <1>7 DEF Ask
    <2>3. Matches(h, c)
        BY <1>3 DEF Matches, Outstanding, Header
    <2>4. Shapes'
        BY <1>1, <1>2, <1>5, <2>1, <2>2 DEF Shapes, Send
    <2>5. cpc'[c] = "await" /\ \A d \in Coordinators \ {c} : cpc'[d] = cpc[d]
        BY <1>1, <2>2 DEF Shapes
    <2> HIDE DEF h
    <2>6. QED
        BY <1>2, <1>4, <1>5, <2>1, <2>3, <2>4, <2>5, AskSafe
<1>8. QED
    BY <1>2, <1>6, <1>7

(* The coordinator takes the answer it waited for, or goes on without it,  *)
(* and leaves nothing unread.                                              *)
LEMMA AnsweredSafe ==
    ASSUME WireInv, NEW c \in Coordinators, NEW t, cpc[c] = "await", Answered(c, t),
           toC' = [toC EXCEPT ![c] = <<>>],
           link[c] = "up" => toW[c] = <<>> /\ ~Serving(c)
    PROVE  WireInv'
<1>1. Shapes /\ Place(c) /\ Wire(c)
    BY DEF WireInv
<1>2. /\ cut' = cut /\ said' = said /\ toW' = toW
      /\ wpc' = wpc /\ conn' = conn /\ head' = head /\ backlog' = backlog
    BY DEF Answered, workerVars
<1>3. /\ Len(said[c]) >= 1 /\ Len(Turn(c).ids) \in Nat /\ BlockEnd(c) \in Nat
      /\ off[c] \in Nat /\ pos[c] \in Nat
    BY <1>1, TurnFacts DEF Place
<1>4. Turn(c)' = Turn(c)
    BY <1>2 DEF Turn
<1>5. link[c] \in {"up", "down"}
    BY <1>1 DEF Shapes, Wire
<1>6. /\ off' = [off EXCEPT ![c] = off'[c]] /\ off'[c] \in Nat
      /\ pos' = [pos EXCEPT ![c] = pos'[c]] /\ pos'[c] \in Nat
      /\ cpc' = [cpc EXCEPT ![c] = cpc'[c]]
      /\ cpc'[c] \in {"block", "decode", "idle", "failed"}
      /\ cpc'[c] = "block" => off'[c] < Len(Turn(c).ids)
      /\ cpc'[c] = "decode" => ~(off'[c] < Len(Turn(c).ids))
      /\ link' = [link EXCEPT ![c] = link'[c]] /\ link'[c] \in {link[c], "down"}
      /\ cpc'[c] = "failed" => link'[c] = "down"
    <2>1. CASE InPrefill(c)
        <3>1. BlockAnswered(c, t)
            BY <2>1 DEF Answered
        <3>2. CASE BlockEnd(c) < Len(Turn(c).ids)
            <4>1. /\ off' = [off EXCEPT ![c] = BlockEnd(c)] /\ pos' = pos /\ link' = link
                  /\ cpc' = [cpc EXCEPT ![c] = "block"]
                BY <3>1, <3>2 DEF BlockAnswered
            <4>2. QED
                BY <1>1, <1>3, <3>2, <4>1 DEF Shapes
        <3>3. CASE ~(BlockEnd(c) < Len(Turn(c).ids))
            <4>1. /\ off' = [off EXCEPT ![c] = BlockEnd(c)] /\ link' = link
                  /\ pos' = [pos EXCEPT ![c] = @ + Len(Turn(c).ids)]
                  /\ cpc' = [cpc EXCEPT ![c] = "decode"]
                BY <3>1, <3>3 DEF BlockAnswered
            <4>2. QED
                BY <1>1, <1>3, <3>3, <4>1 DEF Shapes
        <3>4. QED
            BY <3>2, <3>3
    <2>2. CASE ~InPrefill(c)
        <3>1. TokenAnswered(c, t)
            BY <2>2 DEF Answered
        <3>2. ~(off[c] < Len(Turn(c).ids)) /\ off' = off
            BY <2>2, <3>1 DEF InPrefill, TokenAnswered
        <3>3. CASE c \in Runs /\ t = NoToken
            <4>1. cpc' = [cpc EXCEPT ![c] = "failed"] /\ Closed(c) /\ pos' = pos
                BY <3>1, <3>3 DEF TokenAnswered
            <4>2. link' = [link EXCEPT ![c] = "down"]
                BY <1>1, <1>5, <4>1 DEF Closed, Shapes
            <4>3. QED
                BY <1>1, <1>3, <3>2, <4>1, <4>2 DEF Shapes
        <3>4. CASE ~(c \in Runs /\ t = NoToken)
            <4>1. /\ pos' = [pos EXCEPT ![c] = @ + 1] /\ link' = link
                  /\ \/ cpc' = [cpc EXCEPT ![c] = "idle"]
                     \/ cpc' = [cpc EXCEPT ![c] = "decode"]
                BY <3>1, <3>4 DEF TokenAnswered
            <4>2. QED
                BY <1>1, <1>3, <3>2, <4>1 DEF Shapes
        <3>5. QED
            BY <3>3, <3>4
    <2>3. QED
        BY <2>1, <2>2
<1>7. Shapes'
    <2>1. off' \in [Coordinators -> Nat] /\ pos' \in [Coordinators -> Nat]
        BY <1>1, <1>6 DEF Shapes
    <2>2. link' \in [Coordinators -> {"none", "up", "down"}]
        <3>1. link'[c] \in {"none", "up", "down"} /\ link \in [Coordinators -> {"none", "up", "down"}]
            BY <1>1, <1>5, <1>6 DEF Shapes
        <3>2. PICK l : l = link'[c]
            OBVIOUS
        <3>3. link' = [link EXCEPT ![c] = l]
            BY <1>6, <3>2
        <3>4. QED
            BY <3>1, <3>2, <3>3
    <2>3. DOMAIN cpc' = Coordinators
        <3>1. PICK p : cpc' = [cpc EXCEPT ![c] = p]
            BY <1>6
        <3>2. QED
            BY <1>1, <3>1 DEF Shapes
    <2>4. DOMAIN toC' = Coordinators
        BY <1>1 DEF Shapes
    <2>5. QED
        BY <1>1, <1>2, <2>1, <2>2, <2>3, <2>4 DEF Shapes
<1>8. ASSUME NEW d \in Coordinators PROVE Place(d)' /\ Wire(d)'
    <2>1. CASE d # c
        <3>1. /\ cpc'[d] = cpc[d] /\ said'[d] = said[d] /\ pos'[d] = pos[d]
              /\ off'[d] = off[d] /\ link'[d] = link[d] /\ toW'[d] = toW[d]
              /\ toC'[d] = toC[d] /\ Serving(d)' = Serving(d)
            BY <1>1, <1>2, <1>6, <2>1 DEF Shapes, Serving
        <3>2. Place(d) /\ Wire(d)
            BY DEF WireInv
        <3>3. QED
            BY <1>2, <3>1, <3>2, WireStays
    <2>2. CASE d = c
        <3>1. Place(c)'
            BY <1>1, <1>2, <1>3, <1>4, <1>6 DEF Place, InPrefill
        <3>2. toC'[c] = <<>> /\ cpc'[c] # "await" /\ cpc'[c] # "off"
              /\ link'[c] \in {"up", "down"}
            BY <1>1, <1>5, <1>6 DEF Shapes
        <3>3. link'[c] = "up" => /\ toW'[c] = <<>> /\ ~Serving(c)'
                                 /\ cpc'[c] \in {"idle", "block", "decode"}
            BY <1>2, <1>5, <1>6 DEF Serving
        <3>4. Wire(c)'
            BY <3>2, <3>3 DEF Wire, Silent, LastReply
        <3>5. QED
            BY <2>2, <3>1, <3>4
    <2>3. QED
        BY <2>1, <2>2
<1>9. QED
    BY <1>7, <1>8 DEF WireInv

LEMMA TakeReplySafe ==
    ASSUME WireInv, NEW c \in Coordinators, TakeReply(c)
    PROVE  WireInv'
<1>1. Shapes /\ Wire(c)
    BY DEF WireInv
<1>2. cpc[c] = "await" /\ Len(toC[c]) >= 2
    BY DEF TakeReply, Readable
<1>3. PICK t : Answered(c, t)
    BY DEF TakeReply
<1>4. link[c] \in {"up", "down"}
    BY <1>1, <1>2 DEF Shapes, Wire
<1>5. toC[c] # <<>> /\ toC[c] # <<Outstanding(c)>>
    <2>1. \A b : Len(<<b>>) = 1
        BY Pieces
    <2>2. toC[c] # <<>>
        BY <1>2
    <2>3. ASSUME toC[c] = <<Outstanding(c)>> PROVE FALSE
        <3>1. Len(toC[c]) = 1
            BY <2>1, <2>3
        <3>2. QED
            BY <1>2, <3>1
    <2>4. QED
        BY <2>2, <2>3
<1>6. Reply(c) /\ (link[c] = "up" => toW[c] = <<>> /\ ~Serving(c))
    BY <1>1, <1>2, <1>4, <1>5 DEF Wire, Silent, Requested, Served, Replied, LastReply
<1>7. toC' = [toC EXCEPT ![c] = <<>>]
    <2>1. PICK b : toC[c] = <<Outstanding(c), b>>
        BY <1>6 DEF Reply
    <2>2. SubSeq(toC[c], 3, Len(toC[c])) = <<>>
        BY <2>1, Pieces
    <2>3. QED
        BY <2>2 DEF TakeReply
<1>8. QED
    BY <1>2, <1>3, <1>6, <1>7, AnsweredSafe

LEMMA NoReplySafe ==
    ASSUME WireInv, NEW c \in Coordinators, NoReply(c)
    PROVE  WireInv'
<1>1. cpc[c] = "await" /\ link[c] = "down" /\ Answered(c, NoToken)
      /\ toC' = [toC EXCEPT ![c] = <<>>]
    BY DEF NoReply, AtEnd
<1>2. QED
    BY <1>1, AnsweredSafe

-----------------------------------------------------------------------------
(* The steps of the worker                                                 *)

LEMMA AcceptSafe ==
    ASSUME WireInv, Accept
    PROVE  WireInv'
<1>1. /\ wpc = "accept" /\ wpc' = "header" /\ conn' = Head(backlog)
      /\ backlog # <<>> /\ backlog' = Tail(backlog)
      /\ cut' = cut /\ cpc' = cpc /\ said' = said /\ pos' = pos /\ off' = off
      /\ link' = link /\ toW' = toW /\ toC' = toC /\ head' = head
    BY DEF Accept, coordVars, turnVars, netVars
<1>2. Shapes
    BY DEF WireInv
<1>3. Shapes'
    <2>1. Head(backlog) \in Coordinators /\ Tail(backlog) \in Seq(Coordinators)
        BY <1>1, <1>2, HeadTailProperties DEF Shapes
    <2>2. QED
        BY <1>1, <1>2, <2>1 DEF Shapes
<1>4. ASSUME NEW d \in Coordinators PROVE Place(d)' /\ Wire(d)'
    <2>1. ~Serving(d) /\ Serving(d)' = Serving(d) /\ Place(d) /\ Wire(d)
        BY <1>1 DEF Serving, WireInv
    <2>2. QED
        BY <1>1, <2>1, WireStays
<1>5. QED
    BY <1>3, <1>4 DEF WireInv

(* The worker hangs up on a coordinator to which no reply is on its way.   *)
LEMMA HangupSafe ==
    ASSUME WireInv, wpc \in {"header", "body"}, link[conn] # "none", Hangup,
           link[conn] = "up" => toC[conn] = <<>>,
           UNCHANGED coordVars, toC' = toC, backlog' = backlog
    PROVE  WireInv'
<1>1. Shapes /\ conn \in Coordinators
    BY DEF WireInv, Shapes
<1>2. /\ wpc' = "accept" /\ toW' = [toW EXCEPT ![conn] = <<>>]
      /\ cut' = cut /\ cpc' = cpc /\ said' = said /\ pos' = pos /\ off' = off
    BY DEF Hangup, coordVars, turnVars
<1>3. link' = [link EXCEPT ![conn] = "down"]
    BY <1>1 DEF Hangup, Closed, Shapes
<1>4. Shapes'
    BY <1>1, <1>2, <1>3 DEF Shapes
<1>5. ASSUME NEW d \in Coordinators PROVE Place(d)' /\ Wire(d)'
    <2>1. Place(d) /\ Wire(d)
        BY DEF WireInv
    <2>2. CASE d # conn
        <3>1. ~Serving(d) /\ Serving(d)' = Serving(d) /\ link'[d] = link[d] /\ toW'[d] = toW[d]
            BY <1>1, <1>2, <1>3, <2>2 DEF Serving, Shapes
        <3>2. QED
            BY <1>2, <2>1, <3>1, WireStays
    <2>3. CASE d = conn
        <3>1. Outstanding(d)' = Outstanding(d) /\ InPrefill(d)' = InPrefill(d)
            BY <1>2, SamePlace
        <3>2. Place(d)'
            BY <1>2, <2>1, <3>1 DEF Place
        <3>3. LastReply(d) /\ cpc[d] # "off" /\ link'[d] = "down"
            <4>1. link[d] \in {"up", "down"}
                BY <1>1, <2>3 DEF Shapes
            <4>2. QED
                BY <1>1, <1>3, <2>1, <2>3, <4>1 DEF Wire, LastReply, Shapes
        <3>4. LastReply(d)'
            BY <1>2, <3>1, <3>3 DEF LastReply, Reply
        <3>5. QED
            BY <1>2, <3>2, <3>3, <3>4 DEF Wire
    <2>4. QED
        BY <2>2, <2>3
<1>6. QED
    BY <1>4, <1>5 DEF WireInv

LEMMA TakeHeaderSafe ==
    ASSUME WireInv, TakeHeader
    PROVE  WireInv'
<1>1. Shapes /\ wpc = "header" /\ conn \in Coordinators
    BY DEF WireInv, Shapes, TakeHeader
<1>2. /\ UNCHANGED coordVars /\ toC' = toC /\ backlog' = backlog
      /\ cut' = cut /\ cpc' = cpc /\ said' = said /\ pos' = pos /\ off' = off
    BY DEF TakeHeader, coordVars, turnVars
<1>3. toW[conn] # <<>>
    BY <1>1 DEF TakeHeader, Readable
<1>4. link[conn] # "none" /\ (link[conn] = "up" => Requested(conn))
    BY <1>1, <1>3 DEF WireInv, Wire, Silent, Served, Replied, Serving
<1>5. CASE ~Owned(toW[conn][1])
    <2>1. Hangup
        BY <1>5 DEF TakeHeader
    <2>2. QED
        BY <1>1, <1>2, <1>4, <2>1, HangupSafe DEF Requested
<1>6. CASE Owned(toW[conn][1])
    <2>1. /\ head' = toW[conn][1] /\ wpc' = "body" /\ conn' = conn /\ link' = link
          /\ toW' = [toW EXCEPT ![conn] = Tail(@)]
        BY <1>6 DEF TakeHeader
    <2>2. Shapes'
        BY <1>1, <1>2, <2>1 DEF Shapes
    <2>3. ASSUME NEW d \in Coordinators PROVE Place(d)' /\ Wire(d)'
        <3>1. Place(d) /\ Wire(d)
            BY DEF WireInv
        <3>2. CASE d # conn
            <4>1. ~Serving(d) /\ Serving(d)' = Serving(d) /\ toW'[d] = toW[d]
                BY <1>1, <2>1, <3>2 DEF Serving, Shapes
            <4>2. QED
                BY <1>2, <2>1, <3>1, <4>1, WireStays
        <3>3. CASE d = conn
            <4>1. /\ Outstanding(d)' = Outstanding(d) /\ InPrefill(d)' = InPrefill(d)
                  /\ \A h : Matches(h, d)' = Matches(h, d)
                BY <1>2, SamePlace
            <4>2. Place(d)'
                BY <1>2, <3>1, <4>1 DEF Place
            <4>3. CASE link[d] = "up"
                <5>1. PICK h, b : toW[d] = <<h, b>> /\ Matches(h, d)
                    BY <1>4, <3>3, <4>3 DEF Requested
                <5>2. toW[conn][1] = h /\ Tail(toW[conn]) = <<b>>
                    BY <3>3, <5>1, Pieces
                <5>3. head' = h /\ toW'[d] = <<b>>
                    BY <1>1, <2>1, <3>3, <5>2 DEF Shapes
                <5>4. Matches(head, d)'
                    BY <4>1, <5>1, <5>3 DEF Matches, Header
                <5>5. Served(d)'
                    BY <1>2, <1>4, <2>1, <3>3, <4>3, <5>3, <5>4
                        DEF Served, Serving, Requested
                <5>6. QED
                    BY <1>2, <2>1, <3>1, <4>2, <4>3, <5>5 DEF Wire
            <4>4. CASE link[d] = "down"
                <5>1. LastReply(d)'
                    BY <1>2, <3>1, <4>1, <4>4 DEF Wire, LastReply, Reply
                <5>2. QED
                    BY <1>2, <2>1, <3>1, <4>2, <4>4, <5>1 DEF Wire
            <4>5. QED
                BY <1>1, <1>4, <3>3, <4>3, <4>4 DEF Shapes
        <3>4. QED
            BY <3>2, <3>3
    <2>4. QED
        BY <2>2, <2>3 DEF WireInv
<1>7. QED
    BY <1>5, <1>6

LEMMA GoneSafe ==
    ASSUME WireInv, Gone
    PROVE  WireInv'
<1>1. /\ wpc \in {"header", "body"} /\ link[conn] = "down" /\ Hangup
      /\ UNCHANGED coordVars /\ toC' = toC /\ backlog' = backlog
    BY DEF Gone, AtEnd
<1>2. QED
    BY <1>1, HangupSafe

LEMMA ServeSafe ==
    ASSUME WireInv, Serve
    PROVE  WireInv'
<1>1. Shapes /\ wpc = "body" /\ conn \in Coordinators
    BY DEF WireInv, Shapes, Serve
<1> DEFINE h == Header("RES", head.n, head.pos, head.lo)
<1>2. /\ wpc' = "header" /\ conn' = conn /\ link' = link /\ backlog' = backlog
      /\ toW' = [toW EXCEPT ![conn] = Tail(@)]
      /\ cut' = cut /\ cpc' = cpc /\ said' = said /\ pos' = pos /\ off' = off
    BY DEF Serve, coordVars, turnVars
<1>3. PICK b : toC' = Send(toC, conn, h, b)
    BY DEF Serve
<1>4. toW[conn] # <<>>
    BY <1>1 DEF Serve, Readable
<1>5. link[conn] # "none" /\ (link[conn] = "up" => Served(conn))
    BY <1>1, <1>4 DEF WireInv, Wire, Silent, Requested, Replied, Serving
<1>6. Shapes'
    BY <1>1, <1>2, <1>3 DEF Shapes, Send
<1>7. ASSUME NEW d \in Coordinators PROVE Place(d)' /\ Wire(d)'
    <2>1. Place(d) /\ Wire(d)
        BY DEF WireInv
    <2>2. CASE d # conn
        <3>1. ~Serving(d) /\ Serving(d)' = Serving(d) /\ toW'[d] = toW[d] /\ toC'[d] = toC[d]
            BY <1>1, <1>2, <1>3, <2>2 DEF Serving, Shapes, Send
        <3>2. QED
            BY <1>2, <2>1, <3>1, WireStays
    <2>3. CASE d = conn
        <3>1. Outstanding(d)' = Outstanding(d) /\ InPrefill(d)' = InPrefill(d)
            BY <1>2, SamePlace
        <3>2. Place(d)'
            BY <1>2, <2>1, <3>1 DEF Place
        <3>3. CASE link[d] = "up"
            <4>1. toC[d] = <<>> /\ h = Outstanding(d) /\ \E x : toW[d] = <<x>>
                BY <1>5, <2>3, <3>3 DEF Served, Matches
            <4>2. toC'[d] = <<>> \o <<h, b>>
                BY <1>1, <1>3, <2>3, <3>3, <4>1 DEF Send, Shapes
            <4>3. toC'[d] = <<Outstanding(d)', b>>
                BY <3>1, <4>1, <4>2, Pieces
            <4>4. toW'[d] = <<>>
                BY <1>1, <1>2, <2>3, <4>1, Pieces DEF Shapes
            <4>5. Replied(d)'
                BY <1>2, <1>5, <2>3, <3>3, <4>3, <4>4 DEF Replied, Reply, Serving, Served
            <4>6. QED
                BY <1>2, <2>1, <3>2, <3>3, <4>5 DEF Wire
        <3>4. CASE link[d] = "down"
            <4>1. toC' = toC
                BY <1>3, <2>3, <3>4 DEF Send
            <4>2. LastReply(d)'
                BY <1>2, <2>1, <3>1, <3>4, <4>1 DEF Wire, LastReply, Reply
            <4>3. QED
                BY <1>2, <2>1, <3>2, <3>4, <4>2 DEF Wire
        <3>5. QED
            BY <1>1, <1>5, <2>3, <3>3, <3>4 DEF Shapes
    <2>4. QED
        BY <2>2, <2>3
<1>8. QED
    BY <1>6, <1>7 DEF WireInv

-----------------------------------------------------------------------------
(* Faults                                                                  *)

(* The end of a reply may be lost.                                         *)
LEMMA CutReply ==
    ASSUME NEW c, NEW r, r \in Prefix(toC[c]), Wire(c), link[c] = "up"
    PROVE  r # <<>> => cpc[c] = "await" /\ (r = <<Outstanding(c)>>
                                            \/ \E b : r = <<Outstanding(c), b>>)
<1>1. CASE toC[c] = <<>>
    BY <1>1, Pieces
<1>2. CASE Reply(c) /\ cpc[c] = "await"
    <2>1. PICK b : toC[c] = <<Outstanding(c), b>>
        BY <1>2 DEF Reply
    <2>2. PICK h : h = Outstanding(c)
        OBVIOUS
    <2>3. Prefix(toC[c]) = {<<>>, <<h>>, <<h, b>>}
        <3>1. Prefix(<<h, b>>) = {<<>>, <<h>>, <<h, b>>}
            BY Pieces
        <3>2. toC[c] = <<h, b>>
            BY <2>1, <2>2
        <3>3. QED
            BY <3>1, <3>2
    <2>4. QED
        BY <1>2, <2>2, <2>3
<1>3. QED
    BY <1>1, <1>2 DEF Wire, Silent, Requested, Served, Replied

(* A connection is lost.                                                   *)
LEMMA DropSafe ==
    ASSUME WireInv, NEW c \in Coordinators, Drop(c)
    PROVE  WireInv'
<1>1. Shapes /\ Place(c) /\ Wire(c) /\ link[c] = "up"
    BY DEF WireInv, Drop
<1>2. PICK w, r : /\ toW' = [toW EXCEPT ![c] = w] /\ toC' = [toC EXCEPT ![c] = r]
                  /\ r \in Prefix(toC[c])
    BY DEF Drop
<1>3. /\ link' = [link EXCEPT ![c] = "down"]
      /\ cut' = cut /\ cpc' = cpc /\ said' = said /\ pos' = pos /\ off' = off
      /\ wpc' = wpc /\ conn' = conn /\ head' = head /\ backlog' = backlog
    BY DEF Drop, coordVars, turnVars, workerVars
<1>4. Shapes'
    BY <1>1, <1>2, <1>3 DEF Shapes
<1>5. ASSUME NEW d \in Coordinators PROVE Place(d)' /\ Wire(d)'
    <2>1. CASE d # c
        <3>1. /\ Serving(d)' = Serving(d) /\ link'[d] = link[d]
              /\ toW'[d] = toW[d] /\ toC'[d] = toC[d]
            BY <1>1, <1>2, <1>3, <2>1 DEF Serving, Shapes
        <3>2. Place(d) /\ Wire(d)
            BY DEF WireInv
        <3>3. QED
            BY <1>3, <3>1, <3>2, WireStays
    <2>2. CASE d = c
        <3>1. Outstanding(c)' = Outstanding(c) /\ InPrefill(c)' = InPrefill(c)
            BY <1>3, SamePlace
        <3>2. Place(c)'
            BY <1>1, <1>3, <3>1 DEF Place
        <3>3. LastReply(c) /\ cpc[c] # "off"
            BY <1>1 DEF Wire, LastReply, Silent, Requested, Served, Replied
        <3>4. toC'[c] = r /\ link'[c] = "down"
            BY <1>1, <1>2, <1>3 DEF Shapes
        <3>5. LastReply(c)'
            BY <1>1, <1>2, <1>3, <3>1, <3>3, <3>4, CutReply DEF LastReply, Reply
        <3>6. QED
            BY <1>3, <2>2, <3>2, <3>3, <3>4, <3>5 DEF Wire
    <2>3. QED
        BY <2>1, <2>2
<1>6. QED
    BY <1>4, <1>5 DEF WireInv

LEMMA DieSafe ==
    ASSUME WireInv, NEW c \in Coordinators, Die(c)
    PROVE  WireInv'
<1>1. Shapes /\ Place(c) /\ Wire(c) /\ cpc[c] # "off" /\ cpc[c] # "failed"
    BY DEF WireInv, Die, Over
<1>2. PICK w : toW' = [toW EXCEPT ![c] = w]
    BY DEF Die
<1>3. /\ toC' = [toC EXCEPT ![c] = <<>>] /\ cpc' = [cpc EXCEPT ![c] = "failed"]
      /\ cut' = cut /\ said' = said /\ pos' = pos /\ off' = off
      /\ wpc' = wpc /\ conn' = conn /\ head' = head /\ backlog' = backlog
    BY DEF Die, turnVars, workerVars
<1>4. link[c] # "none"
    BY <1>1 DEF Wire
<1>5. link' = [link EXCEPT ![c] = "down"]
    BY <1>1, <1>4 DEF Die, Closed, Shapes
<1>6. Shapes'
    BY <1>1, <1>2, <1>3, <1>5 DEF Shapes
<1>7. ASSUME NEW d \in Coordinators PROVE Place(d)' /\ Wire(d)'
    <2>1. CASE d # c
        <3>1. /\ Serving(d)' = Serving(d) /\ link'[d] = link[d] /\ cpc'[d] = cpc[d]
              /\ toW'[d] = toW[d] /\ toC'[d] = toC[d]
            BY <1>1, <1>2, <1>3, <1>5, <2>1 DEF Serving, Shapes
        <3>2. Place(d) /\ Wire(d)
            BY DEF WireInv
        <3>3. QED
            BY <1>3, <3>1, <3>2, WireStays
    <2>2. CASE d = c
        <3>1. cpc'[c] = "failed" /\ toC'[c] = <<>> /\ link'[c] = "down"
            BY <1>1, <1>3, <1>5 DEF Shapes
        <3>2. QED
            BY <1>1, <1>3, <2>2, <3>1 DEF Place, Wire, LastReply
    <2>3. QED
        BY <2>1, <2>2
<1>8. QED
    BY <1>6, <1>7 DEF WireInv

LEMMA CrashSafe ==
    ASSUME WireInv, Crash
    PROVE  WireInv'
<1>1. Shapes
    BY DEF WireInv
<1>2. PICK lost \in SUBSET Coordinators :
        toC' = [d \in Coordinators |-> IF d \in lost THEN <<>> ELSE toC[d]]
    BY DEF Crash
<1>3. /\ link' = [d \in Coordinators |-> IF link[d] = "up" THEN "down" ELSE link[d]]
      /\ toW' = [d \in Coordinators |-> <<>>]
      /\ wpc' = "down" /\ conn' = None /\ backlog' = <<>>
      /\ cut' = cut /\ cpc' = cpc /\ said' = said /\ pos' = pos /\ off' = off
    BY DEF Crash, coordVars, turnVars
<1>4. Shapes'
    <2>1. link' \in [Coordinators -> {"none", "up", "down"}]
        BY <1>1, <1>3 DEF Shapes
    <2>2. backlog' \in Seq(Coordinators)
        BY <1>3, EmptySeq
    <2>3. QED
        BY <1>1, <1>2, <1>3, <2>1, <2>2 DEF Shapes
<1>5. ASSUME NEW d \in Coordinators PROVE Place(d)' /\ Wire(d)'
    <2>1. Place(d) /\ Wire(d) /\ link[d] \in {"none", "up", "down"}
        BY <1>1 DEF WireInv, Shapes
    <2>2. Outstanding(d)' = Outstanding(d) /\ InPrefill(d)' = InPrefill(d)
        BY <1>3, SamePlace
    <2>3. Place(d)'
        BY <1>3, <2>1, <2>2 DEF Place
    <2>4. ~Serving(d)' /\ toW'[d] = <<>> /\ toC'[d] \in {<<>>, toC[d]}
        BY <1>2, <1>3 DEF Serving
    <2>5. CASE link[d] = "none"
        BY <1>3, <2>1, <2>3, <2>4, <2>5 DEF Wire
    <2>6. CASE link[d] \in {"up", "down"}
        <3>1. LastReply(d) /\ cpc[d] # "off" /\ link'[d] = "down"
            BY <1>3, <2>1, <2>6 DEF Wire, LastReply, Silent, Requested, Served, Replied
        <3>2. LastReply(d)'
            BY <1>3, <2>2, <2>4, <3>1 DEF LastReply, Reply
        <3>3. QED
            BY <1>3, <2>3, <3>1, <3>2 DEF Wire
    <2>7. QED
        BY <2>1, <2>5, <2>6
<1>6. QED
    BY <1>4, <1>5 DEF WireInv

(* The worker starts again, or nothing happens.                            *)
LEMMA RestartSafe ==
    ASSUME WireInv,
           Restart \/ UNCHANGED vars
    PROVE  WireInv'
<1>1. /\ cut' = cut /\ cpc' = cpc /\ said' = said /\ pos' = pos /\ off' = off
      /\ link' = link /\ toW' = toW /\ toC' = toC
      /\ conn' = conn /\ head' = head /\ backlog' = backlog
      /\ wpc' = wpc \/ (wpc = "down" /\ wpc' = "accept")
    BY DEF Restart, vars, coordVars, turnVars, netVars, workerVars
<1>2. Shapes'
    BY <1>1 DEF Shapes, WireInv
<1>3. ASSUME NEW d \in Coordinators PROVE Place(d)' /\ Wire(d)'
    <2>1. Place(d) /\ Wire(d) /\ Serving(d)' = Serving(d)
        BY <1>1 DEF WireInv, Serving
    <2>2. QED
        BY <1>1, <2>1, WireStays
<1>4. QED
    BY <1>2, <1>3 DEF WireInv

-----------------------------------------------------------------------------
LEMMA WireStep == WireInv /\ [Next]_vars => WireInv'
<1> SUFFICES ASSUME WireInv, [Next]_vars PROVE WireInv'
    OBVIOUS
<1>1. ASSUME NEW c \in Coordinators, Coordinator(c) PROVE WireInv'
    BY <1>1, ConnectSafe, BeginTurnSafe, SendBlockSafe, TakeReplySafe, NoReplySafe,
       EndTurnSafe, PrintTokenSafe, LeaveSafe DEF Coordinator
<1>2. CASE Worker
    BY <1>2, AcceptSafe, TakeHeaderSafe, GoneSafe, ServeSafe DEF Worker
<1>3. CASE Faults
    BY <1>3, DropSafe, DieSafe, CrashSafe DEF Faults
<1>4. CASE Restart \/ Waiting \/ UNCHANGED vars
    BY <1>4, RestartSafe DEF Waiting
<1>5. QED
    BY <1>1, <1>2, <1>3, <1>4 DEF Next

(* A request and its reply are in one place, as long as the connection     *)
(* lasts; what is left of a reply when it is lost is the last one's        *)
(* (pipe_worker_serve, pipe_coord_step, pipe_coord_prefill).               *)
THEOREM OneInFlight == Spec => []WireInv
<1>1. QED
    BY WireInit, WireStep, PTL DEF Spec

(* A reply answers the request its coordinator waits on, which never       *)
(* compares the two (pipe_coord_step, pipe_coord_prefill).                 *)
THEOREM Answers == Spec => []AnswersItsRequest
<1>1. WireInv => AnswersItsRequest
    <2> SUFFICES ASSUME WireInv, NEW c \in Coordinators, toC[c] # <<>>
                 PROVE  cpc[c] = "await" /\ toC[c][1] = Outstanding(c)
        BY DEF AnswersItsRequest
    <2>1. Wire(c) /\ link[c] \in {"none", "up", "down"}
        BY DEF WireInv, Shapes
    <2>2. cpc[c] = "await" /\ (toC[c] = <<Outstanding(c)>> \/ Reply(c))
        BY <2>1 DEF Wire, Silent, Requested, Served, Replied, LastReply
    <2>3. toC[c][1] = Outstanding(c)
        BY <2>2, Pieces DEF Reply
    <2>4. QED
        BY <2>2, <2>3
<1>2. QED
    BY <1>1, OneInFlight, PTL

-----------------------------------------------------------------------------
(***************************************************************************)
(* That the logits a coordinator receives are those of all it has consumed *)
(* and of nothing else, when the worker's cache is at least as long as the *)
(* coordinators'.                                                          *)
(***************************************************************************)

-----------------------------------------------------------------------------
(* The inductive invariant                                                 *)

(* The tokens printed in this turn, the positions the worker has answered  *)
(* for, and those it will have when it answers next.                       *)
Printed(c) == said[c][Len(said[c])]
Asking(c) == cpc[c] \in {"block", "await"} /\ InPrefill(c)
Stepping(c) == cpc[c] = "await" /\ ~InPrefill(c)
Consumed(c) == IF Asking(c) THEN pos[c] + off[c] ELSE pos[c]
Reach(c) == IF InPrefill(c) THEN pos[c] + BlockEnd(c) ELSE pos[c] + 1
Eaten(c) ==
    /\ IsSequence(fed[c]) /\ Consumed(c) <= Len(fed[c])
    /\ cpc[c] = "await" => Len(fed[c]) = Reach(c)

(* A turn fits in the context.  A raw-ID run never looks at the context's  *)
(* end: it counts what it prints.                                          *)
Room(c) ==
    /\ Asking(c) => pos[c] + Len(Turn(c).ids) <= Cap
    /\ Stepping(c) => pos[c] < Cap
    /\ cpc[c] = "off" => pos[c] = 0
RunRoom(c) ==
    c \in Runs /\ cpc[c] \in {"block", "decode", "await"} =>
        /\ IsSequence(Printed(c))
        /\ Asking(c) => pos[c] = 0 /\ Len(Printed(c)) = 0
        /\ cpc[c] = "decode" => pos[c] = Len(Turn(c).ids) + Len(Printed(c))
        /\ Stepping(c) => pos[c] + 1 = Len(Turn(c).ids) + Len(Printed(c))

(* While a connection is up the worker's cache holds what its coordinator  *)
(* has consumed: before it is served that is nothing, and afterwards no    *)
(* other is served.                                                        *)
Remembered(c, n) ==
    \A l \in cut[c]..(L - 1) : \A q \in 0..(n - 1) : wkv[l][q] = SubSeq(fed[c], 1, q + 1)
Body(c) == Residuals(fed[c], Consumed(c))
Carried(c) ==
    link[c] = "up" =>
        /\ \A h, b : toW[c] = <<h, b>> => b = Body(c)
        /\ \A b : toW[c] = <<b>> => b = Body(c)
        /\ Consumed(c) > 0 \/ toC[c] # <<>> => conn = c
        /\ Remembered(c, Consumed(c))
        /\ toC[c] # <<>> => Remembered(c, Len(fed[c]))
Told(c) == Len(toC[c]) = 2 => toC[c][2] = fed[c]

Own(c) == Eaten(c) /\ Room(c) /\ RunRoom(c) /\ Carried(c) /\ Told(c)
Feeding ==
    /\ DOMAIN fed = Coordinators
    /\ cut \in Cuts /\ wlo \in Owns
    /\ wpc = "body" => head.lo >= wlo
    /\ wpc \in {"down", "accept"} => conn = None
    /\ \A c \in Coordinators : Own(c)
LogitInv == WireInv /\ Feeding

-----------------------------------------------------------------------------
(* Sequences                                                               *)

LEMMA Beginnings ==
    ASSUME NEW f, IsSequence(f), NEW m \in 0..Len(f)
    PROVE  /\ IsSequence(SubSeq(f, 1, m)) /\ Len(SubSeq(f, 1, m)) = m
           /\ \A q \in 1..m : SubSeq(SubSeq(f, 1, m), 1, q) = SubSeq(f, 1, q)
<1>1. PICK S : f \in Seq(S)
    BY DEF IsSequence
<1>2. Len(f) \in Nat /\ m \in Nat
    BY <1>1, LenProperties
<1>3. \A i \in 1..m : f[i] \in S
    BY <1>1, <1>2, ElementOfSeq
<1>4. /\ SubSeq(f, 1, m) \in Seq(S)
      /\ Len(SubSeq(f, 1, m)) = IF 1 <= m THEN m - 1 + 1 ELSE 0
    BY <1>2, <1>3, SubSeqProperties
<1>5. ASSUME NEW q \in 1..m PROVE SubSeq(SubSeq(f, 1, m), 1, q) = SubSeq(f, 1, q)
    <2>1. /\ 1 \in 1..Len(f) /\ m \in 1..Len(f)
          /\ 1 \in 1..(m - 1 + 1) /\ q \in 1..(m - 1 + 1)
        BY <1>2
    <2>2. SubSeq(SubSeq(f, 1, m), 1, q) = SubSeq(f, 1 + 1 - 1, 1 + q - 1)
        BY <1>1, <2>1, SubSeqOfSubSeq
    <2>3. QED
        BY <1>2, <2>2
<1>6. QED
    BY <1>2, <1>4, <1>5 DEF IsSequence

(* What a coordinator feeds: the positions below the base stay.            *)
LEMMA Extended ==
    ASSUME NEW f, IsSequence(f), NEW base \in 0..Len(f), NEW ids, IsSequence(ids)
    PROVE  LET g == SubSeq(f, 1, base) \o ids
           IN  /\ IsSequence(g) /\ Len(g) = base + Len(ids)
               /\ \A q \in 1..base : SubSeq(g, 1, q) = SubSeq(f, 1, q)
<1> DEFINE p == SubSeq(f, 1, base)
<1>1. IsSequence(p) /\ Len(p) = base /\ \A q \in 1..base : SubSeq(p, 1, q) = SubSeq(f, 1, q)
    BY Beginnings
<1> HIDE DEF p
<1>2. PICK S1 : p \in Seq(S1)
    BY <1>1 DEF IsSequence
<1>3. PICK S2 : ids \in Seq(S2)
    BY DEF IsSequence
<1>4. p \in Seq(S1 \cup S2) /\ ids \in Seq(S1 \cup S2)
    BY <1>2, <1>3, SeqMonotonic
<1>5. p \o ids \in Seq(S1 \cup S2) /\ Len(p \o ids) = Len(p) + Len(ids)
    BY <1>4, ConcatProperties
<1>6. ASSUME NEW q \in 1..base PROVE SubSeq(p \o ids, 1, q) = SubSeq(f, 1, q)
    <2>1. 1 \in 1..Len(p) /\ q \in 1..Len(p)
        BY <1>1, <1>2, LenProperties
    <2>2. SubSeq(p \o ids, 1, q) = SubSeq(p, 1, q)
        BY <1>4, <2>1, SubSeqOfConcat1
    <2>3. QED
        BY <1>1, <2>2
<1>7. IsSequence(p \o ids) /\ Len(p \o ids) = base + Len(ids)
    BY <1>1, <1>5 DEF IsSequence
<1>8. QED
    BY <1>6, <1>7 DEF p

LEMMA ResidualFacts ==
    ASSUME NEW f, IsSequence(f), NEW base \in 0..Len(f)
    PROVE  /\ Len(Residuals(f, base)) = Len(f) - base
           /\ \A i \in 1..(Len(f) - base) : Residuals(f, base)[i] = SubSeq(f, 1, base + i)
<1> DEFINE n == Len(f) - base
           xs == Residuals(f, base)
           S == {xs[i] : i \in 1..n}
<1>1. n \in Nat
    BY SequenceFacts
<1>2. xs = [i \in 1..n |-> SubSeq(f, 1, base + i)]
    BY DEF Residuals
<1>3. xs \in [1..n -> S]
    BY <1>2
<1>4. xs \in Seq(S)
    BY <1>1, <1>3, SeqDef
<1>5. Len(xs) \in Nat /\ DOMAIN xs = 1..Len(xs)
    BY <1>4, LenProperties
<1>6. Len(xs) = n
    BY <1>1, <1>2, <1>5
<1>7. QED
    BY <1>2, <1>6

-----------------------------------------------------------------------------
(* What an action leaves alone                                             *)

LEMMA ConsumedNat ==
    ASSUME NEW c \in Coordinators, Shapes
    PROVE  Consumed(c) \in Nat /\ pos[c] \in Nat /\ off[c] \in Nat
BY DEF Shapes, Consumed

LEMMA SameConsumed ==
    ASSUME NEW c \in Coordinators, cut' = cut, cpc'[c] = cpc[c], said'[c] = said[c],
           pos'[c] = pos[c], off'[c] = off[c], fed'[c] = fed[c]
    PROVE  /\ Consumed(c)' = Consumed(c) /\ Body(c)' = Body(c)
           /\ Eaten(c) => Eaten(c)'
           /\ Room(c) => Room(c)'
           /\ RunRoom(c) => RunRoom(c)'
<1>1. Turn(c)' = Turn(c) /\ Printed(c)' = Printed(c)
    BY DEF Turn, Printed
<1>2. InPrefill(c)' = InPrefill(c) /\ BlockEnd(c)' = BlockEnd(c)
    BY <1>1 DEF InPrefill, BlockEnd
<1>3. Asking(c)' = Asking(c) /\ Stepping(c)' = Stepping(c) /\ Reach(c)' = Reach(c)
    BY <1>2 DEF Asking, Stepping, Reach
<1>4. Consumed(c)' = Consumed(c)
    BY <1>3 DEF Consumed
<1>5. Body(c)' = Body(c)
    BY <1>4 DEF Body, Residuals
<1>6. Eaten(c) => Eaten(c)'
    BY <1>3, <1>4 DEF Eaten
<1>7. Room(c) => Room(c)'
    BY <1>1, <1>3 DEF Room
<1>8. RunRoom(c) => RunRoom(c)'
    BY <1>1, <1>3 DEF RunRoom
<1>9. QED
    BY <1>4, <1>5, <1>6, <1>7, <1>8

(* A coordinator that does not move, and is not the one served or finds    *)
(* the cache as it was.                                                    *)
LEMMA LogitStays ==
    ASSUME NEW c \in Coordinators, Shapes, Own(c), cut' = cut, cpc'[c] = cpc[c],
           said'[c] = said[c], pos'[c] = pos[c], off'[c] = off[c], fed'[c] = fed[c],
           toC'[c] = toC[c] \/ Told(c)',
           link'[c] = "up" => /\ link[c] = "up" /\ toW'[c] = toW[c] /\ toC'[c] = toC[c]
                              /\ conn # c \/ (conn' = conn /\ wkv' = wkv)
    PROVE  Own(c)'
<1>1. /\ Consumed(c)' = Consumed(c) /\ Body(c)' = Body(c)
      /\ Eaten(c)' /\ Room(c)' /\ RunRoom(c)'
    BY SameConsumed DEF Own
<1>2. Told(c)'
    BY DEF Own, Told
<1>3. Carried(c)'
    <2>1. SUFFICES ASSUME link'[c] = "up" PROVE Carried(c)'
        BY DEF Carried
    <2>2. Consumed(c) \in Nat
        BY ConsumedNat
    <2>3. CASE conn # c
        <3>1. Consumed(c) = 0 /\ toC[c] = <<>>
            BY <2>1, <2>2, <2>3 DEF Own, Carried
        <3>2. Remembered(c, Consumed(c))'
            BY <1>1, <3>1 DEF Remembered
        <3>3. QED
            BY <1>1, <2>1, <3>1, <3>2 DEF Own, Carried
    <2>4. CASE conn' = conn /\ wkv' = wkv
        <3>1. \A n : Remembered(c, n)' = Remembered(c, n)
            BY <2>4 DEF Remembered
        <3>2. Remembered(c, Consumed(c))' = Remembered(c, Consumed(c))
            BY <1>1, <2>4 DEF Remembered
        <3>3. Remembered(c, Len(fed[c]))' = Remembered(c, Len(fed[c]))
            BY <2>4 DEF Remembered
        <3>4. QED
            BY <1>1, <2>1, <2>4, <3>2, <3>3 DEF Own, Carried
    <2>5. QED
        BY <2>1, <2>3, <2>4
<1>4. QED
    BY <1>1, <1>2, <1>3 DEF Own

-----------------------------------------------------------------------------
(* The worker                                                              *)

(* What Attends asks of a layer, when the cache below the base is the      *)
(* context's.                                                              *)
LEMMA Attended ==
    ASSUME Cap <= WorkerCap, NEW c \in Coordinators, IsSequence(fed[c]),
           NEW base \in 0..Len(fed[c]), Len(fed[c]) <= Cap,
           cut[c] \in 1..(L - 1), wlo <= cut[c], wlo \in Nat,
           Remembered(c, base),
           NEW l \in cut[c]..(L - 1), NEW j \in 1..(Len(fed[c]) - base)
    PROVE  Attends(l, Residuals(fed[c], base)[j], base + j - 1, base)
<1>1. Len(fed[c]) \in Nat /\ base \in Nat /\ Cap \in Nat /\ WorkerCap \in Nat
    BY SequenceFacts, SizesAssumption
<1>2. Residuals(fed[c], base)[j] = SubSeq(fed[c], 1, base + j)
    BY ResidualFacts
<1>3. base + j \in 0..Len(fed[c])
    BY <1>1
<1>4. ASSUME NEW q \in 0..(base - 1)
      PROVE  wkv[l][q] = SubSeq(SubSeq(fed[c], 1, base + j), 1, q + 1)
    <2>1. q + 1 \in 1..(base + j)
        BY <1>1
    <2>2. SubSeq(SubSeq(fed[c], 1, base + j), 1, q + 1) = SubSeq(fed[c], 1, q + 1)
        BY <1>3, <2>1, Beginnings
    <2>3. QED
        BY <2>2 DEF Remembered
<1>5. l >= wlo /\ base + j - 1 < WorkerCap
    BY <1>1, LayersAssumption
<1>6. QED
    BY <1>2, <1>4, <1>5 DEF Attends

(* Serving a request whose residuals are the context's writes the context, *)
(* and gives its logits.                                                   *)
LEMMA ServedWell ==
    ASSUME Cap <= WorkerCap, NEW c \in Coordinators, IsSequence(fed[c]),
           NEW base \in 0..Len(fed[c]), Len(fed[c]) <= Cap, base < Len(fed[c]),
           cut[c] \in 1..(L - 1), wlo <= cut[c], wlo \in Nat,
           Remembered(c, base), NEW xs, xs = Residuals(fed[c], base)
    PROVE  /\ Given(xs, base, cut[c], L, Len(xs)) = fed[c]
           /\ \A l \in cut[c]..(L - 1) : \A q \in 0..(Len(fed[c]) - 1) :
                 Written(xs, base, cut[c])[l][q] = SubSeq(fed[c], 1, q + 1)
<1>1. /\ Len(fed[c]) \in Nat /\ base \in Nat /\ Cap \in Nat /\ WorkerCap \in Nat
      /\ L \in Nat /\ cut[c] \in Nat
    BY SequenceFacts, SizesAssumption, LayersAssumption
<1>2. /\ Len(xs) = Len(fed[c]) - base
      /\ \A i \in 1..(Len(fed[c]) - base) : xs[i] = SubSeq(fed[c], 1, base + i)
    BY ResidualFacts
<1>3. ASSUME NEW l \in cut[c]..L, NEW i \in 1..Len(xs)
      PROVE  Given(xs, base, cut[c], l, i) = SubSeq(fed[c], 1, base + i)
    <2>1. ASSUME NEW j \in 1..i, NEW k \in cut[c]..(l - 1)
          PROVE  Attends(k, xs[j], base + j - 1, base)
        <3>1. j \in 1..(Len(fed[c]) - base) /\ k \in cut[c]..(L - 1)
            BY <1>1, <1>2
        <3>2. QED
            BY <3>1, Attended
    <2>2. Given(xs, base, cut[c], l, i) = xs[i]
        BY <2>1 DEF Given
    <2>3. QED
        BY <1>2, <2>2
<1>4. Given(xs, base, cut[c], L, Len(xs)) = fed[c]
    <2>1. Len(xs) \in 1..Len(xs) /\ L \in cut[c]..L /\ base + Len(xs) = Len(fed[c])
        <3>1. Len(xs) = Len(fed[c]) - base
            BY <1>2
        <3>2. cut[c] \in 1..(L - 1)
            OBVIOUS
        <3>3. base < Len(fed[c])
            OBVIOUS
        <3>4. Len(xs) \in 1..Len(xs) /\ base + Len(xs) = Len(fed[c])
            BY <1>1, <3>1, <3>3
        <3>5. L \in cut[c]..L
            BY <1>1, <3>2
        <3>6. QED
            BY <3>4, <3>5
    <2>2. Given(xs, base, cut[c], L, Len(xs)) = SubSeq(fed[c], 1, Len(fed[c]))
        BY <1>3, <2>1
    <2>3. SubSeq(fed[c], 1, Len(fed[c])) = fed[c]
        BY SubSeqFull DEF IsSequence
    <2>4. QED
        BY <2>2, <2>3
<1>5. ASSUME NEW l \in cut[c]..(L - 1), NEW q \in 0..(Len(fed[c]) - 1)
      PROVE  Written(xs, base, cut[c])[l][q] = SubSeq(fed[c], 1, q + 1)
    <2>1. l \in Layers /\ q \in WPositions /\ l >= cut[c] /\ l \in cut[c]..L
        BY <1>1 DEF Layers, WPositions
    <2>2. CASE q < base
        <3>1. ~(q \in base..(base + Len(xs) - 1)) /\ q \in 0..(base - 1)
            BY <1>1, <2>2
        <3>2. Written(xs, base, cut[c])[l][q] = wkv[l][q]
            BY <2>1, <3>1 DEF Written
        <3>3. QED
            BY <3>1, <3>2 DEF Remembered
    <2>3. CASE q >= base
        <3>1. q \in base..(base + Len(xs) - 1) /\ q - base + 1 \in 1..Len(xs)
              /\ base + (q - base + 1) = q + 1
            <4>1. q \in Nat /\ q <= Len(fed[c]) - 1 /\ Len(xs) \in Nat
                BY <1>1, <1>2
            <4>2. base + Len(xs) = Len(fed[c])
                BY <1>1, <1>2
            <4>3. q \in base..(base + Len(xs) - 1)
                BY <1>1, <2>3, <4>1, <4>2
            <4>4. q - base + 1 \in 1..Len(xs)
                BY <1>1, <2>3, <4>1, <4>2
            <4>5. base + (q - base + 1) = q + 1
                BY <1>1, <4>1
            <4>6. QED
                BY <4>3, <4>4, <4>5
        <3>2. Written(xs, base, cut[c])[l][q] = Given(xs, base, cut[c], l, q - base + 1)
            BY <2>1, <3>1 DEF Written
        <3>3. QED
            BY <1>3, <2>1, <3>1, <3>2
    <2>4. QED
        BY <1>1, <2>2, <2>3
<1>6. QED
    BY <1>4, <1>5

LEMMA AcceptFeeds ==
    ASSUME LogitInv, Accept
    PROVE  Feeding'
<1>1. /\ wpc = "accept" /\ wpc' = "header" /\ cut' = cut /\ wlo' = wlo
      /\ cpc' = cpc /\ said' = said /\ pos' = pos /\ off' = off /\ fed' = fed
      /\ link' = link /\ toW' = toW /\ toC' = toC /\ wkv' = wkv
    BY DEF Accept, coordVars, turnVars, netVars
<1>2. conn = None /\ Shapes
    BY <1>1 DEF LogitInv, Feeding, WireInv
<1>3. ASSUME NEW c \in Coordinators PROVE Own(c)'
    <2>1. conn # c /\ Own(c)
        BY <1>2, TurnsAssumption DEF LogitInv, Feeding
    <2>2. QED
        BY <1>1, <1>2, <2>1, LogitStays
<1>4. QED
    BY <1>1, <1>3 DEF LogitInv, Feeding

LEMMA HangupFeeds ==
    ASSUME LogitInv, wpc \in {"header", "body"}, link[conn] # "none", Hangup,
           UNCHANGED coordVars, toC' = toC, wlo' = wlo, wkv' = wkv
    PROVE  Feeding'
<1>1. Shapes /\ conn \in Coordinators
    BY DEF LogitInv, WireInv, Shapes
<1>2. /\ wpc' = "accept" /\ conn' = None /\ toW' = [toW EXCEPT ![conn] = <<>>]
      /\ cut' = cut /\ cpc' = cpc /\ said' = said /\ pos' = pos /\ off' = off
      /\ fed' = fed
    BY DEF Hangup, coordVars, turnVars
<1>3. link' = [link EXCEPT ![conn] = "down"]
    BY <1>1 DEF Hangup, Closed, Shapes
<1>4. ASSUME NEW c \in Coordinators PROVE Own(c)'
    <2>1. Own(c)
        BY DEF LogitInv, Feeding
    <2>2. link'[c] = "up" => link[c] = "up" /\ toW'[c] = toW[c] /\ conn # c
        BY <1>1, <1>2, <1>3 DEF Shapes
    <2>3. QED
        BY <1>1, <1>2, <2>1, <2>2, LogitStays
<1>5. QED
    BY <1>2, <1>4 DEF LogitInv, Feeding

LEMMA TakeHeaderFeeds ==
    ASSUME LogitInv, TakeHeader
    PROVE  Feeding'
<1>1. Shapes /\ wpc = "header" /\ conn \in Coordinators
    BY DEF LogitInv, WireInv, Shapes, TakeHeader
<1>2. /\ UNCHANGED coordVars /\ toC' = toC /\ wlo' = wlo /\ wkv' = wkv
      /\ cut' = cut /\ cpc' = cpc /\ said' = said /\ pos' = pos /\ off' = off
      /\ fed' = fed
    BY DEF TakeHeader, coordVars, turnVars
<1>3. toW[conn] # <<>>
    BY <1>1 DEF TakeHeader, Readable
<1>4. link[conn] # "none" /\ (link[conn] = "up" => Requested(conn))
    BY <1>1, <1>3 DEF LogitInv, WireInv, Wire, Silent, Served, Replied, Serving
<1>5. CASE ~Owned(toW[conn][1])
    <2>1. Hangup
        BY <1>5 DEF TakeHeader
    <2>2. QED
        BY <1>1, <1>2, <1>4, <2>1, HangupFeeds
<1>6. CASE Owned(toW[conn][1])
    <2>1. /\ head' = toW[conn][1] /\ wpc' = "body" /\ conn' = conn /\ link' = link
          /\ toW' = [toW EXCEPT ![conn] = Tail(@)]
        BY <1>6 DEF TakeHeader
    <2>2. head'.lo >= wlo'
        BY <1>2, <1>6, <2>1 DEF Owned
    <2>3. ASSUME NEW c \in Coordinators PROVE Own(c)'
        <3>1. Own(c)
            BY DEF LogitInv, Feeding
        <3>2. CASE c # conn \/ link[c] # "up"
            <4>1. c # conn => toW'[c] = toW[c]
                BY <1>1, <2>1 DEF Shapes
            <4>2. QED
                BY <1>1, <1>2, <2>1, <3>1, <3>2, <4>1, LogitStays
        <3>3. CASE c = conn /\ link[c] = "up"
            <4>1. PICK h, b : toW[c] = <<h, b>>
                BY <1>4, <3>3 DEF Requested
            <4>2. toW'[c] = <<b>> /\ b = Body(c)
                <5>1. Tail(toW[c]) = <<b>>
                    BY <4>1, Pieces
                <5>2. QED
                    BY <1>1, <2>1, <3>1, <3>3, <4>1, <5>1 DEF Own, Carried, Shapes
            <4>3. /\ Consumed(c)' = Consumed(c) /\ Body(c)' = Body(c)
                  /\ Eaten(c)' /\ Room(c)' /\ RunRoom(c)'
                BY <1>2, <3>1, SameConsumed DEF Own
            <4>4. /\ \A x, y : toW'[c] = <<x, y>> => y = Body(c)'
                  /\ \A y : toW'[c] = <<y>> => y = Body(c)'
                <5>1. ASSUME NEW x, NEW y PROVE <<b>> # <<x, y>>
                    <6>1. Len(<<b>>) = 1 /\ Len(<<x, y>>) = 2
                        BY Pieces
                    <6>2. QED
                        BY <6>1
                <5>2. QED
                    BY <4>2, <4>3, <5>1
            <4>5. Remembered(c, Consumed(c))' = Remembered(c, Consumed(c))
                BY <1>2, <4>3 DEF Remembered
            <4>6. toC[c] = <<>>
                BY <1>4, <3>3 DEF Requested
            <4>7. Carried(c)'
                BY <1>2, <2>1, <3>1, <3>3, <4>3, <4>4, <4>5, <4>6 DEF Own, Carried
            <4>8. Told(c)'
                BY <1>2, <3>1 DEF Own, Told
            <4>9. QED
                BY <4>3, <4>7, <4>8 DEF Own
        <3>4. QED
            BY <3>2, <3>3
    <2>4. QED
        BY <1>2, <2>1, <2>2, <2>3 DEF LogitInv, Feeding
<1>7. QED
    BY <1>5, <1>6

LEMMA GoneFeeds ==
    ASSUME LogitInv, Gone
    PROVE  Feeding'
<1>1. /\ wpc \in {"header", "body"} /\ link[conn] = "down" /\ Hangup
      /\ UNCHANGED coordVars /\ toC' = toC /\ wlo' = wlo /\ wkv' = wkv
    BY DEF Gone, AtEnd
<1>2. QED
    BY <1>1, HangupFeeds

(* A coordinator that waits has fed something, within the context, from    *)
(* where the worker's cache ends.                                          *)
LEMMA AwaitFacts ==
    ASSUME NEW c \in Coordinators, Shapes, Place(c), Own(c), cpc[c] = "await"
    PROVE  /\ IsSequence(fed[c]) /\ Len(fed[c]) \in Nat /\ Len(fed[c]) = Reach(c)
           /\ Consumed(c) \in 0..Len(fed[c]) /\ Consumed(c) < Len(fed[c])
           /\ Len(fed[c]) <= Cap
           /\ Outstanding(c).pos = Consumed(c) /\ Outstanding(c).lo = cut[c]
<1>1. /\ Len(Turn(c).ids) \in Nat /\ off[c] \in Nat /\ pos[c] \in Nat
      /\ InPrefill(c) => BlockEnd(c) \in (off[c] + 1)..Len(Turn(c).ids)
    BY TurnFacts DEF Place
<1>2. IsSequence(fed[c]) /\ Len(fed[c]) = Reach(c)
    BY DEF Own, Eaten
<1>3. Cap \in Nat
    BY SizesAssumption
<1>4. Outstanding(c).pos = Consumed(c) /\ Outstanding(c).lo = cut[c]
    BY DEF Outstanding, Consumed, Asking, Header
<1>5. CASE InPrefill(c)
    <2>1. Consumed(c) = pos[c] + off[c] /\ Reach(c) = pos[c] + BlockEnd(c)
        BY <1>5 DEF Consumed, Asking, Reach
    <2>2. pos[c] + Len(Turn(c).ids) <= Cap
        BY <1>5 DEF Own, Room, Asking
    <2>3. BlockEnd(c) \in Nat /\ BlockEnd(c) > off[c] /\ BlockEnd(c) <= Len(Turn(c).ids)
        BY <1>1, <1>5
    <2>4. QED
        BY <1>1, <1>2, <1>3, <1>4, <2>1, <2>2, <2>3
<1>6. CASE ~InPrefill(c)
    <2>1. Consumed(c) = pos[c] /\ Reach(c) = pos[c] + 1
        BY <1>6 DEF Consumed, Asking, Reach
    <2>2. pos[c] < Cap
        BY <1>6 DEF Own, Room, Stepping
    <2>3. QED
        BY <1>1, <1>2, <1>3, <1>4, <2>1, <2>2
<1>7. QED
    BY <1>5, <1>6

LEMMA ServeFeeds ==
    ASSUME Cap <= WorkerCap, LogitInv, Serve
    PROVE  Feeding'
<1>1. Shapes /\ wpc = "body" /\ conn \in Coordinators
    BY DEF LogitInv, WireInv, Shapes, Serve
<1> DEFINE h == Header("RES", head.n, head.pos, head.lo)
           xs == toW[conn][1]
           logits == Given(xs, head.pos, head.lo, L, Len(xs))
<1>2. /\ wpc' = "header" /\ conn' = conn /\ link' = link /\ wlo' = wlo
      /\ toW' = [toW EXCEPT ![conn] = Tail(@)]
      /\ toC' = Send(toC, conn, h, logits)
      /\ wkv' = Written(xs, head.pos, head.lo)
      /\ cut' = cut /\ cpc' = cpc /\ said' = said /\ pos' = pos /\ off' = off
      /\ fed' = fed
    BY DEF Serve, coordVars, turnVars
<1>3. toW[conn] # <<>>
    BY <1>1 DEF Serve, Readable
<1>4. link[conn] # "none" /\ (link[conn] = "up" => Served(conn))
    BY <1>1, <1>3 DEF LogitInv, WireInv, Wire, Silent, Requested, Replied, Serving
<1>5. ASSUME NEW c \in Coordinators PROVE Own(c)'
    <2>1. Own(c) /\ Place(c)
        BY DEF LogitInv, WireInv, Feeding
    <2>2. CASE c # conn
        <3>1. toW'[c] = toW[c] /\ toC'[c] = toC[c]
            BY <1>1, <1>2, <2>2 DEF Shapes, Send
        <3>2. QED
            BY <1>1, <1>2, <2>1, <2>2, <3>1, LogitStays
    <2>3. CASE c = conn /\ link[c] # "up"
        <3>1. toC'[c] = toC[c]
            BY <1>2, <2>3 DEF Send
        <3>2. QED
            BY <1>1, <1>2, <2>1, <2>3, <3>1, LogitStays
    <2>4. CASE c = conn /\ link[c] = "up"
        <3>1. /\ cpc[c] = "await" /\ toC[c] = <<>> /\ Matches(head, c)
              /\ \E b : toW[c] = <<b>>
            BY <1>4, <2>4 DEF Served
        <3>2. toW[c] = <<xs>> /\ xs = Body(c)
            BY <2>1, <2>4, <3>1 DEF Own, Carried
        <3>3. /\ IsSequence(fed[c]) /\ Len(fed[c]) \in Nat
              /\ Consumed(c) \in 0..Len(fed[c]) /\ Consumed(c) < Len(fed[c])
              /\ Len(fed[c]) <= Cap
              /\ Outstanding(c).pos = Consumed(c) /\ Outstanding(c).lo = cut[c]
            BY <1>1, <2>1, <3>1, AwaitFacts
        <3>4. head.pos = Consumed(c) /\ head.lo = cut[c]
            BY <3>1, <3>3 DEF Matches, Header
        <3>5. cut[c] \in 1..(L - 1) /\ wlo \in Nat /\ wlo <= cut[c]
            BY <1>1, <3>4, LayersAssumption DEF LogitInv, Feeding
        <3>6. xs = Residuals(fed[c], Consumed(c)) /\ Remembered(c, Consumed(c))
            BY <2>1, <2>4, <3>2 DEF Body, Own, Carried
        <3> HIDE DEF xs
        <3>7. /\ logits = fed[c]
              /\ \A l \in cut[c]..(L - 1) : \A q \in 0..(Len(fed[c]) - 1) :
                    Written(xs, head.pos, head.lo)[l][q] = SubSeq(fed[c], 1, q + 1)
            BY <3>3, <3>4, <3>5, <3>6, ServedWell
        <3> HIDE DEF logits, h
        <3>8. toC'[c] = <<h, fed[c]>>
            <4>1. toC'[c] = toC[c] \o <<h, logits>>
                BY <1>1, <1>2, <2>4 DEF Send, Shapes
            <4>2. QED
                BY <3>1, <3>7, <4>1, Pieces
        <3>9. Told(c)'
            BY <1>2, <3>8 DEF Told
        <3>10. Remembered(c, Len(fed[c]))'
            BY <1>2, <3>7 DEF Remembered
        <3>11. /\ Consumed(c)' = Consumed(c) /\ Body(c)' = Body(c)
               /\ Eaten(c)' /\ Room(c)' /\ RunRoom(c)'
            BY <1>2, <2>1, SameConsumed DEF Own
        <3>12. Remembered(c, Consumed(c))'
            BY <1>2, <3>3, <3>10, <3>11 DEF Remembered
        <3>13. toW'[c] = <<>>
            BY <1>1, <1>2, <2>4, <3>2, Pieces DEF Shapes
        <3>14. Carried(c)'
            BY <1>2, <2>4, <3>10, <3>12, <3>13, Pieces DEF Carried
        <3>15. QED
            BY <3>9, <3>11, <3>14 DEF Own
    <2>5. QED
        BY <2>2, <2>3, <2>4
<1>6. QED
    BY <1>2, <1>5 DEF LogitInv, Feeding

-----------------------------------------------------------------------------
(* Faults                                                                  *)

LEMMA ToldCut ==
    ASSUME NEW c \in Coordinators, WireInv, Told(c), link[c] = "up",
           NEW r, r \in Prefix(toC[c]), Len(r) = 2
    PROVE  r[2] = fed[c]
<1>1. Wire(c)
    BY DEF WireInv
<1>2. CASE toC[c] = <<>>
    <2>1. Prefix(<<>>) = {<<>>} /\ Len(<<>>) = 0
        BY Pieces
    <2>2. QED
        BY <1>2, <2>1
<1>3. CASE Reply(c)
    <2>1. PICK h, b : toC[c] = <<h, b>>
        BY <1>3 DEF Reply
    <2>2. Prefix(<<h, b>>) = {<<>>, <<h>>, <<h, b>>}
        BY Pieces
    <2>3. Len(<<>>) = 0 /\ Len(<<h>>) = 1
        BY Pieces
    <2>4. r = toC[c]
        BY <2>1, <2>2, <2>3
    <2>5. QED
        BY <2>4 DEF Told
<1>4. QED
    BY <1>1, <1>2, <1>3 DEF Wire, Silent, Requested, Served, Replied

LEMMA DropFeeds ==
    ASSUME LogitInv, NEW c \in Coordinators, Drop(c)
    PROVE  Feeding'
<1>1. Shapes /\ link[c] = "up"
    BY DEF LogitInv, WireInv, Drop
<1>2. PICK w, r : /\ toW' = [toW EXCEPT ![c] = w] /\ toC' = [toC EXCEPT ![c] = r]
                  /\ r \in Prefix(toC[c])
    BY DEF Drop
<1>3. /\ link' = [link EXCEPT ![c] = "down"] /\ wlo' = wlo /\ wkv' = wkv
      /\ cut' = cut /\ cpc' = cpc /\ said' = said /\ pos' = pos /\ off' = off
      /\ wpc' = wpc /\ conn' = conn /\ head' = head /\ fed' = fed
    BY DEF Drop, coordVars, turnVars, workerVars
<1>4. ASSUME NEW d \in Coordinators PROVE Own(d)'
    <2>1. Own(d)
        BY DEF LogitInv, Feeding
    <2>2. toC'[d] = toC[d] \/ Told(d)'
        <3>1. CASE d = c
            <4>1. Len(r) = 2 => r[2] = fed[c]
                BY <1>1, <1>2, <2>1, <3>1, ToldCut DEF LogitInv, Own
            <4>2. toC'[c] = r
                BY <1>1, <1>2 DEF Shapes
            <4>3. QED
                BY <1>3, <3>1, <4>1, <4>2 DEF Told
        <3>2. CASE d # c
            BY <1>1, <1>2, <3>2 DEF Shapes
        <3>3. QED
            BY <3>1, <3>2
    <2>3. link'[d] = "up" => link[d] = "up" /\ toW'[d] = toW[d] /\ toC'[d] = toC[d]
        BY <1>1, <1>2, <1>3 DEF Shapes
    <2>4. QED
        BY <1>1, <1>3, <2>1, <2>2, <2>3, LogitStays
<1>5. QED
    BY <1>3, <1>4 DEF LogitInv, Feeding

LEMMA CrashFeeds ==
    ASSUME LogitInv, Crash
    PROVE  Feeding'
<1>1. Shapes
    BY DEF LogitInv, WireInv
<1>2. PICK lost \in SUBSET Coordinators :
        toC' = [d \in Coordinators |-> IF d \in lost THEN <<>> ELSE toC[d]]
    BY DEF Crash
<1>3. /\ link' = [d \in Coordinators |-> IF link[d] = "up" THEN "down" ELSE link[d]]
      /\ wpc' = "down" /\ conn' = None /\ wlo' = wlo
      /\ cut' = cut /\ cpc' = cpc /\ said' = said /\ pos' = pos /\ off' = off
      /\ fed' = fed
    BY DEF Crash, coordVars, turnVars
<1>4. ASSUME NEW d \in Coordinators PROVE Own(d)'
    <2>1. Own(d)
        BY DEF LogitInv, Feeding
    <2>2. toC'[d] = toC[d] \/ Told(d)'
        <3>1. toC'[d] \in {<<>>, toC[d]} /\ Len(<<>>) = 0
            BY <1>2
        <3>2. QED
            BY <3>1 DEF Told
    <2>3. link'[d] # "up"
        BY <1>3
    <2>4. QED
        BY <1>1, <1>3, <2>1, <2>2, <2>3, LogitStays
<1>5. QED
    BY <1>3, <1>4 DEF LogitInv, Feeding

LEMMA RestartFeeds ==
    ASSUME LogitInv, Restart \/ UNCHANGED vars
    PROVE  Feeding'
<1>1. /\ cut' = cut /\ cpc' = cpc /\ said' = said /\ pos' = pos /\ off' = off
      /\ link' = link /\ toW' = toW /\ toC' = toC /\ fed' = fed /\ wkv' = wkv
      /\ conn' = conn /\ head' = head /\ wlo' = wlo
      /\ wpc' = wpc \/ (wpc = "down" /\ wpc' = "accept")
    BY DEF Restart, vars, coordVars, turnVars, netVars, workerVars
<1>2. Shapes
    BY DEF LogitInv, WireInv
<1>3. ASSUME NEW d \in Coordinators PROVE Own(d)'
    <2>1. Own(d)
        BY DEF LogitInv, Feeding
    <2>2. QED
        BY <1>1, <1>2, <2>1, LogitStays
<1>4. QED
    BY <1>1, <1>3 DEF LogitInv, Feeding

LEMMA FeedingInit == Init => Feeding
<1> SUFFICES ASSUME Init PROVE Feeding
    OBVIOUS
<1>1. ASSUME NEW c \in Coordinators PROVE Own(c)
    <2>1. /\ cpc[c] = "off" /\ pos[c] = 0 /\ fed[c] = <<>> /\ toC[c] = <<>>
          /\ link[c] = "none"
        BY DEF Init
    <2>2. IsSequence(<<>>) /\ Len(<<>>) = 0
        BY EmptySeq DEF IsSequence
    <2>3. Consumed(c) = 0
        BY <2>1 DEF Consumed, Asking
    <2>4. QED
        BY <2>1, <2>2, <2>3 DEF Own, Eaten, Room, RunRoom, Asking, Stepping, Carried, Told
<1>2. QED
    BY <1>1 DEF Init, Feeding

-----------------------------------------------------------------------------
(* The steps of a coordinator                                              *)

LEMMA OneFeeds ==
    ASSUME LogitInv, NEW c \in Coordinators, Own(c)', cut' = cut, wlo' = wlo,
           wkv' = wkv, conn' = conn, wpc' = wpc, head' = head,
           DOMAIN fed' = Coordinators,
           \A d \in Coordinators \ {c} :
              /\ cpc'[d] = cpc[d] /\ said'[d] = said[d] /\ pos'[d] = pos[d]
              /\ off'[d] = off[d] /\ fed'[d] = fed[d] /\ link'[d] = link[d]
              /\ toW'[d] = toW[d] /\ toC'[d] = toC[d]
    PROVE  Feeding'
<1>1. ASSUME NEW d \in Coordinators PROVE Own(d)'
    <2>1. CASE d = c
        BY <2>1
    <2>2. CASE d # c
        <3>1. Own(d) /\ Shapes
            BY DEF LogitInv, Feeding, WireInv
        <3>2. QED
            BY <2>2, <3>1, LogitStays
    <2>3. QED
        BY <2>1, <2>2
<1>2. QED
    BY <1>1 DEF LogitInv, Feeding

(* It comes to rest, or out of the turn.                                   *)
LEMMA Rests ==
    ASSUME LogitInv, NEW c \in Coordinators, cpc'[c] \in {"idle", "ended", "failed"},
           cut' = cut, fed'[c] = fed[c], pos'[c] = pos[c], wkv' = wkv, conn' = conn,
           toC'[c] = <<>>, link'[c] = "up" => link[c] = "up" /\ toW'[c] = <<>>
    PROVE  Own(c)'
<1>1. Own(c) /\ Consumed(c) \in Nat /\ pos[c] \in Nat /\ off[c] \in Nat
    BY ConsumedNat DEF LogitInv, Feeding, WireInv
<1>2. Consumed(c)' = pos[c] /\ pos[c] <= Consumed(c)
    BY <1>1 DEF Consumed, Asking
<1>3. Eaten(c)'
    <2>1. IsSequence(fed[c]) /\ Len(fed[c]) \in Nat
        BY <1>1, SequenceFacts DEF Own, Eaten
    <2>2. QED
        BY <1>1, <1>2, <2>1 DEF Own, Eaten
<1>4. Room(c)' /\ RunRoom(c)'
    BY DEF Room, RunRoom, Asking, Stepping
<1>5. Told(c)'
    BY Pieces DEF Told
<1>6. Carried(c)'
    <2>1. SUFFICES ASSUME link'[c] = "up" PROVE Carried(c)'
        BY DEF Carried
    <2>2. Remembered(c, Consumed(c)) /\ (Consumed(c) > 0 => conn = c)
        BY <1>1, <2>1 DEF Own, Carried
    <2>3. Remembered(c, Consumed(c))'
        <3>1. \A q \in 0..(pos[c] - 1) : q \in 0..(Consumed(c) - 1)
            BY <1>1, <1>2
        <3>2. QED
            BY <1>2, <2>2, <3>1 DEF Remembered
    <2>4. Consumed(c)' > 0 => conn' = c
        BY <1>1, <1>2, <2>2
    <2>5. toW'[c] = <<>>
        BY <2>1
    <2>6. \A h, b : toW'[c] # <<h, b>> /\ toW'[c] # <<b>>
        BY <2>5, Pieces
    <2>7. QED
        BY <2>1, <2>3, <2>4, <2>6 DEF Carried
<1>7. QED
    BY <1>3, <1>4, <1>5, <1>6 DEF Own

LEMMA ConnectFeeds ==
    ASSUME LogitInv, NEW c \in Coordinators, Connect(c)
    PROVE  Feeding'
<1>1. cpc[c] = "off" /\ cpc' = [cpc EXCEPT ![c] = cpc'[c]] /\ cpc'[c] \in {"idle", "failed"}
      /\ (link' = [link EXCEPT ![c] = "up"] \/ link' = link)
      /\ cut' = cut /\ said' = said /\ pos' = pos /\ off' = off /\ fed' = fed
      /\ toW' = toW /\ toC' = toC /\ wpc' = wpc /\ conn' = conn /\ head' = head
      /\ wlo' = wlo /\ wkv' = wkv
    BY DEF Connect, turnVars, LogitInv, WireInv, Shapes
<1>2. Shapes /\ Wire(c) /\ Own(c)
    BY DEF LogitInv, WireInv, Feeding
<1>3. link[c] = "none" /\ toW[c] = <<>> /\ toC[c] = <<>>
    BY <1>1, <1>2 DEF Wire, Shapes
<1>4. pos[c] = 0 /\ Consumed(c)' = 0 /\ Consumed(c) = 0
    BY <1>1, <1>2 DEF Own, Room, Consumed, Asking
<1>5. Own(c)'
    <2>1. Eaten(c)' /\ Room(c)' /\ RunRoom(c)' /\ Told(c)'
        BY <1>1, <1>2, <1>4 DEF Own, Eaten, Room, RunRoom, Told, Asking, Stepping
    <2>2. Remembered(c, Consumed(c))'
        BY <1>4 DEF Remembered
    <2>3. Carried(c)'
        BY <1>1, <1>3, <1>4, <2>2, Pieces DEF Carried
    <2>4. QED
        BY <2>1, <2>3 DEF Own
<1>6. \A d \in Coordinators \ {c} : cpc'[d] = cpc[d] /\ link'[d] = link[d]
    BY <1>1, <1>2 DEF Shapes
<1>7. QED
    BY <1>1, <1>5, <1>6, OneFeeds DEF LogitInv, Feeding

LEMMA EndTurnFeeds ==
    ASSUME LogitInv, NEW c \in Coordinators, EndTurn(c)
    PROVE  Feeding'
<1>1. cpc[c] = "decode" /\ cpc' = [cpc EXCEPT ![c] = "idle"]
      /\ cut' = cut /\ said' = said /\ pos' = pos /\ off' = off /\ fed' = fed
      /\ link' = link /\ toW' = toW /\ toC' = toC /\ wlo' = wlo /\ wkv' = wkv
      /\ wpc' = wpc /\ conn' = conn /\ head' = head
    BY DEF EndTurn, turnVars, netVars, workerVars
<1>2. Shapes /\ Wire(c) /\ link[c] \in {"none", "up", "down"}
    BY DEF LogitInv, WireInv, Shapes
<1>3. toC[c] = <<>> /\ (link[c] = "up" => toW[c] = <<>>)
    BY <1>1, <1>2, Unserved
<1>4. cpc'[c] = "idle" /\ \A d \in Coordinators \ {c} : cpc'[d] = cpc[d]
    BY <1>1, <1>2 DEF Shapes
<1>5. Own(c)'
    BY <1>1, <1>3, <1>4, Rests
<1>6. QED
    BY <1>1, <1>4, <1>5, OneFeeds DEF LogitInv, Feeding

(* It ends, or is killed.                                                  *)
LEMMA LeaveFeeds ==
    ASSUME LogitInv, NEW c \in Coordinators, Leave(c) \/ Die(c)
    PROVE  Feeding'
<1>1. /\ cpc' = [cpc EXCEPT ![c] = "ended"] \/ cpc' = [cpc EXCEPT ![c] = "failed"]
      /\ Closed(c) /\ cpc[c] \notin {"off", "failed"}
      /\ cut' = cut /\ said' = said /\ pos' = pos /\ off' = off /\ fed' = fed
      /\ \/ toW' = toW /\ toC' = toC /\ cpc[c] = "idle"
         \/ /\ toC' = [toC EXCEPT ![c] = <<>>]
            /\ \E w : toW' = [toW EXCEPT ![c] = w]
      /\ wpc' = wpc /\ conn' = conn /\ head' = head /\ wlo' = wlo /\ wkv' = wkv
    BY DEF Leave, Die, Over, turnVars, workerVars
<1>2. Shapes /\ Wire(c) /\ link[c] \in {"none", "up", "down"}
    BY DEF LogitInv, WireInv, Shapes
<1>3. link[c] # "none"
    BY <1>1, <1>2 DEF Wire
<1>4. link' = [link EXCEPT ![c] = "down"]
    BY <1>1, <1>2, <1>3 DEF Closed, Shapes
<1>5. toC'[c] = <<>>
    BY <1>1, <1>2, Unserved DEF Shapes
<1>6. /\ cpc'[c] \in {"ended", "failed"} /\ link'[c] = "down"
      /\ \A d \in Coordinators \ {c} : /\ cpc'[d] = cpc[d] /\ link'[d] = link[d]
                                       /\ toW'[d] = toW[d] /\ toC'[d] = toC[d]
    BY <1>1, <1>2, <1>4 DEF Shapes
<1>7. Own(c)'
    BY <1>1, <1>5, <1>6, Rests
<1>8. QED
    BY <1>1, <1>6, <1>7, OneFeeds DEF LogitInv, Feeding

LEMMA BeginTurnFeeds ==
    ASSUME LogitInv, NEW c \in Coordinators, BeginTurn(c)
    PROVE  Feeding'
<1>1. Shapes /\ Place(c) /\ Wire(c) /\ Own(c) /\ link[c] \in {"none", "up", "down"}
    BY DEF LogitInv, WireInv, Feeding, Shapes
<1> DEFINE t == TurnsOf[c][Len(said[c]) + 1]
<1>2. /\ cpc[c] = "idle" /\ Len(said[c]) < Len(TurnsOf[c])
      /\ said' = [said EXCEPT ![c] = Append(@, <<>>)]
      /\ \/ /\ Accepted(t, pos[c]) /\ cpc' = [cpc EXCEPT ![c] = "block"]
            /\ pos' = [pos EXCEPT ![c] = t.keep] /\ off' = [off EXCEPT ![c] = 0]
         \/ cpc' = cpc /\ pos' = pos /\ off' = off
      /\ cut' = cut /\ link' = link /\ toW' = toW /\ toC' = toC /\ fed' = fed
      /\ wpc' = wpc /\ conn' = conn /\ head' = head /\ wlo' = wlo /\ wkv' = wkv
    BY DEF BeginTurn, netVars, workerVars
<1>3. toC[c] = <<>> /\ (link[c] = "up" => toW[c] = <<>>)
    BY <1>1, <1>2, Unserved
<1>4. IsSequence(said[c]) /\ Len(said[c]) \in Nat /\ Len(TurnsOf[c]) \in Nat
      /\ said'[c] = Append(said[c], <<>>)
    BY <1>1, <1>2, SequenceFacts, TurnTypes DEF Shapes
<1>5. Len(said[c]) + 1 \in 1..Len(TurnsOf[c])
    BY <1>2, <1>4
<1>6. t.keep \in Nat /\ Len(t.ids) \in Nat
    BY <1>5, TurnTypes
<1>7. Len(said'[c]) = Len(said[c]) + 1 /\ Printed(c)' = <<>>
    <2>1. PICK S : said[c] \in Seq(S)
        BY <1>4 DEF IsSequence
    <2>2. said[c] \in Seq(S \cup {<<>>}) /\ <<>> \in S \cup {<<>>}
        BY <2>1, SeqMonotonic
    <2>3. Len(said'[c]) = Len(said[c]) + 1 /\ said'[c][Len(said[c]) + 1] = <<>>
        BY <1>4, <2>2, AppendProperties
    <2>4. QED
        BY <2>3 DEF Printed
<1>8. Turn(c)' = t
    BY <1>7 DEF Turn
<1>9. Own(c)'
    <2>1. CASE cpc' = cpc /\ pos' = pos /\ off' = off
        <3>1. cpc'[c] = "idle" /\ toC'[c] = <<>> /\ (link'[c] = "up" => toW'[c] = <<>>)
            BY <1>2, <1>3, <2>1
        <3>2. QED
            BY <1>2, <2>1, <3>1, Rests
    <2>2. CASE /\ Accepted(t, pos[c]) /\ cpc' = [cpc EXCEPT ![c] = "block"]
               /\ pos' = [pos EXCEPT ![c] = t.keep] /\ off' = [off EXCEPT ![c] = 0]
        <3>1. cpc'[c] = "block" /\ pos'[c] = t.keep /\ off'[c] = 0
            BY <1>1, <2>2 DEF Shapes
        <3>2. Consumed(c) = pos[c] /\ pos[c] \in Nat
            BY <1>1, <1>2 DEF Consumed, Asking, Shapes
        <3>3. t.keep <= pos[c] /\ t.keep + Len(t.ids) <= Cap
            BY <2>2, <1>6, <3>2 DEF Accepted
        <3>4. Consumed(c)' = t.keep
            BY <1>6, <3>1 DEF Consumed
        <3>5. Eaten(c)'
            <4>1. IsSequence(fed[c]) /\ Len(fed[c]) \in Nat /\ pos[c] <= Len(fed[c])
                BY <1>1, <3>2, SequenceFacts DEF Own, Eaten
            <4>2. QED
                BY <1>2, <1>6, <3>1, <3>2, <3>3, <3>4, <4>1 DEF Eaten
        <3>6. Room(c)'
            BY <1>8, <3>1, <3>3 DEF Room, Asking, Stepping
        <3>7. RunRoom(c)'
            <4>1. c \in Runs => t.keep = 0
                BY <1>2, <1>4, TurnsAssumption
            <4>2. IsSequence(<<>>) /\ Len(<<>>) = 0
                BY EmptySeq DEF IsSequence
            <4>3. QED
                BY <1>7, <3>1, <4>1, <4>2 DEF RunRoom, Stepping
        <3>8. Told(c)'
            BY <1>2, <1>3, Pieces DEF Told
        <3>9. Carried(c)'
            <4>1. SUFFICES ASSUME link'[c] = "up" PROVE Carried(c)'
                BY DEF Carried
            <4>2. \A h, b : toW'[c] # <<h, b>> /\ toW'[c] # <<b>>
                <5>1. toW'[c] = <<>>
                    BY <1>2, <1>3, <4>1
                <5>2. QED
                    BY <5>1, Pieces
            <4>3. Remembered(c, pos[c]) /\ (pos[c] > 0 => conn = c)
                BY <1>1, <1>2, <3>2, <4>1 DEF Own, Carried
            <4>4. Remembered(c, Consumed(c))'
                <5>1. \A q \in 0..(t.keep - 1) : q \in 0..(pos[c] - 1)
                    BY <1>6, <3>2, <3>3
                <5>2. QED
                    BY <1>2, <3>4, <4>3, <5>1 DEF Remembered
            <4>5. Consumed(c)' > 0 => conn' = c
                BY <1>2, <1>6, <3>2, <3>3, <3>4, <4>3
            <4>6. QED
                BY <1>2, <1>3, <4>1, <4>2, <4>4, <4>5 DEF Carried
        <3>10. QED
            BY <3>5, <3>6, <3>7, <3>8, <3>9 DEF Own
    <2>3. QED
        BY <1>2, <2>1, <2>2
<1>10. \A d \in Coordinators \ {c} : /\ cpc'[d] = cpc[d] /\ said'[d] = said[d]
                                     /\ pos'[d] = pos[d] /\ off'[d] = off[d]
    BY <1>1, <1>2 DEF Shapes
<1>11. QED
    BY <1>2, <1>9, <1>10, OneFeeds DEF LogitInv, Feeding

(* It asks for what comes after all the worker has answered for.           *)
LEMMA AskFeeds ==
    ASSUME LogitInv, NEW c \in Coordinators, NEW h, NEW ids, IsSequence(ids),
           cpc[c] \in {"block", "decode"}, cpc'[c] = "await",
           fed' = [fed EXCEPT ![c] = SubSeq(fed[c], 1, Consumed(c)) \o ids],
           toW' = Send(toW, c, h, Residuals(fed'[c], Consumed(c))),
           Consumed(c) + Len(ids) = Reach(c), Room(c)', RunRoom(c)',
           Len(said[c])' = Len(said[c]), pos' = pos, off' = off, cut' = cut,
           link' = link, toC' = toC, wlo' = wlo, wkv' = wkv,
           conn' = conn, wpc' = wpc, head' = head,
           \A d \in Coordinators \ {c} : cpc'[d] = cpc[d] /\ said'[d] = said[d]
    PROVE  Feeding'
<1>1. Shapes /\ Place(c) /\ Wire(c) /\ Own(c) /\ link[c] \in {"none", "up", "down"}
    BY DEF LogitInv, WireInv, Feeding, Shapes
<1>2. toC[c] = <<>> /\ link[c] # "none" /\ (link[c] = "up" => toW[c] = <<>>)
    BY <1>1, Unserved
<1>3. Turn(c)' = Turn(c)
    BY DEF Turn
<1>4. InPrefill(c)' = InPrefill(c) /\ BlockEnd(c)' = BlockEnd(c)
    BY <1>3 DEF InPrefill, BlockEnd
<1>5. Reach(c)' = Reach(c) /\ Consumed(c)' = Consumed(c) /\ Consumed(c) \in Nat
    BY <1>1, <1>4, ConsumedNat DEF Reach, Consumed, Asking, Place
<1>6. DOMAIN fed = Coordinators /\ IsSequence(fed[c])
      /\ Consumed(c) \in 0..Len(fed[c])
    BY <1>1, <1>5, SequenceFacts DEF LogitInv, Feeding, Own, Eaten
<1>7. fed'[c] = SubSeq(fed[c], 1, Consumed(c)) \o ids
    BY <1>6
<1>8. /\ IsSequence(fed'[c]) /\ Len(fed'[c]) = Consumed(c) + Len(ids)
      /\ \A q \in 1..Consumed(c) : SubSeq(fed'[c], 1, q) = SubSeq(fed[c], 1, q)
    BY <1>6, <1>7, Extended
<1>9. Eaten(c)'
    <2>1. Len(ids) \in Nat
        BY SequenceFacts
    <2>2. QED
        BY <1>5, <1>8, <2>1 DEF Eaten
<1>10. Told(c)'
    BY <1>2, Pieces DEF Told
<1>11. Carried(c)'
    <2>1. SUFFICES ASSUME link'[c] = "up" PROVE Carried(c)'
        BY DEF Carried
    <2>2. PICK b : b = Residuals(fed'[c], Consumed(c))
        OBVIOUS
    <2>3. toW'[c] = <<>> \o <<h, b>>
        BY <1>1, <1>2, <2>1, <2>2 DEF Send, Shapes
    <2>4. toW'[c] = <<h, b>> /\ b = Body(c)'
        BY <1>5, <2>2, <2>3, Pieces DEF Body
    <2>5. /\ \A x, y : toW'[c] = <<x, y>> => y = b
          /\ \A y : toW'[c] # <<y>>
        <3>1. ASSUME NEW x, NEW y, toW'[c] = <<x, y>> PROVE y = b
            BY <2>4, <3>1
        <3>2. ASSUME NEW y PROVE toW'[c] # <<y>>
            <4>1. Len(<<y>>) = 1 /\ Len(toW'[c]) = 2
                BY <2>4, Pieces
            <4>2. QED
                BY <4>1
        <3>3. QED
            BY <3>1, <3>2
    <2>6. Remembered(c, Consumed(c))'
        <3>1. Remembered(c, Consumed(c))
            BY <1>1, <2>1 DEF Own, Carried
        <3>2. \A q \in 0..(Consumed(c) - 1) : q + 1 \in 1..Consumed(c)
            BY <1>5
        <3>3. QED
            BY <1>5, <1>8, <3>1, <3>2 DEF Remembered
    <2>7. Consumed(c)' > 0 => conn' = c
        BY <1>1, <1>5, <2>1 DEF Own, Carried
    <2>8. QED
        BY <1>2, <2>1, <2>4, <2>5, <2>6, <2>7 DEF Carried
<1>12. Own(c)'
    BY <1>9, <1>10, <1>11 DEF Own
<1>13. \A d \in Coordinators \ {c} : fed'[d] = fed[d] /\ toW'[d] = toW[d]
    BY <1>1, <1>6 DEF Send, Shapes
<1>14. DOMAIN fed' = Coordinators
    BY <1>6
<1>15. QED
    BY <1>12, <1>13, <1>14, OneFeeds

LEMMA SendBlockFeeds ==
    ASSUME LogitInv, NEW c \in Coordinators, SendBlock(c)
    PROVE  Feeding'
<1>1. Shapes /\ Place(c) /\ Own(c)
    BY DEF LogitInv, WireInv, Feeding
<1> DEFINE ids == SubSeq(Turn(c).ids, off[c] + 1, BlockEnd(c))
           h == Header("BATCH", Len(ids), pos[c] + off[c], cut[c])
<1>2. cpc[c] = "block" /\ cpc' = [cpc EXCEPT ![c] = "await"]
      /\ cut' = cut /\ said' = said /\ pos' = pos /\ off' = off
      /\ link' = link /\ toC' = toC /\ wlo' = wlo /\ wkv' = wkv
      /\ wpc' = wpc /\ conn' = conn /\ head' = head
    BY DEF SendBlock, Ask, workerVars
<1>3. Len(said[c]) >= 1 /\ InPrefill(c)
    BY <1>1, <1>2 DEF Place
<1>4. Consumed(c) = pos[c] + off[c] /\ Reach(c) = pos[c] + BlockEnd(c)
    BY <1>2, <1>3 DEF Consumed, Asking, Reach
<1>5. /\ fed' = [fed EXCEPT ![c] = SubSeq(fed[c], 1, Consumed(c)) \o ids]
      /\ toW' = Send(toW, c, h, Residuals(fed'[c], Consumed(c)))
    <2>1. DOMAIN fed = Coordinators
        BY DEF LogitInv, Feeding
    <2>2. QED
        BY <1>4, <2>1 DEF SendBlock, Ask
<1>6. /\ Turn(c).ids \in Seq(Vocab) /\ off[c] \in Nat /\ pos[c] \in Nat
      /\ BlockEnd(c) \in (off[c] + 1)..Len(Turn(c).ids) /\ Len(Turn(c).ids) \in Nat
    BY <1>1, <1>3, TurnFacts
<1>7. IsSequence(ids) /\ Consumed(c) + Len(ids) = Reach(c)
    <2>1. \A i \in (off[c] + 1)..BlockEnd(c) : Turn(c).ids[i] \in Vocab
        BY <1>6, ElementOfSeq
    <2>2. off[c] + 1 \in Int /\ BlockEnd(c) \in Int
        BY <1>6
    <2>3. /\ ids \in Seq(Vocab)
          /\ Len(ids) = IF off[c] + 1 <= BlockEnd(c)
                        THEN BlockEnd(c) - (off[c] + 1) + 1 ELSE 0
        BY <2>1, <2>2, SubSeqProperties
    <2>4. Len(ids) = BlockEnd(c) - off[c]
        BY <1>6, <2>3
    <2>5. Consumed(c) + Len(ids) = Reach(c)
        <3> DEFINE n == Len(ids)
        <3>1. BlockEnd(c) \in Nat /\ off[c] \in Nat /\ pos[c] \in Nat
            BY <1>6
        <3>2. n = BlockEnd(c) - off[c]
            BY <2>4
        <3> HIDE DEF n
        <3>3. Consumed(c) + n = Reach(c)
            BY <1>4, <3>1, <3>2
        <3>4. QED
            BY <3>3 DEF n
    <2>6. QED
        BY <2>3, <2>5 DEF IsSequence
<1>8. cpc'[c] = "await" /\ \A d \in Coordinators \ {c} : cpc'[d] = cpc[d]
    BY <1>1, <1>2 DEF Shapes
<1>9. Turn(c)' = Turn(c) /\ InPrefill(c)' /\ Printed(c)' = Printed(c)
    BY <1>2, <1>3 DEF Turn, InPrefill, Printed
<1>10. Room(c)' /\ RunRoom(c)'
    BY <1>1, <1>2, <1>3, <1>8, <1>9 DEF Own, Room, RunRoom, Asking, Stepping
<1> HIDE DEF h, ids
<1>11. QED
    BY <1>2, <1>5, <1>7, <1>8, <1>10, AskFeeds

(* What a raw-ID run has printed tells where it is in the context.         *)
LEMMA RunTurn ==
    ASSUME NEW c \in Runs, Shapes, Place(c), Len(said[c]) >= 1
    PROVE  /\ Turn(c).max \in Nat /\ Len(Turn(c).ids) \in Nat
           /\ Len(Turn(c).ids) + Turn(c).max <= Cap
<1>1. c \in Coordinators /\ Len(TurnsOf[c]) = 1
      /\ Len(TurnsOf[c][1].ids) + TurnsOf[c][1].max <= Cap
    BY TurnsAssumption
<1>2. Len(said[c]) \in Nat
    BY <1>1, SequenceFacts DEF Shapes
<1>3. Len(said[c]) = 1
    <2>1. Len(said[c]) <= 1
        BY <1>1 DEF Place
    <2>2. \A n \in Nat : n <= 1 /\ n >= 1 => n = 1
        OBVIOUS
    <2>3. QED
        BY <1>2, <2>1, <2>2, Zenon
<1>4. TurnsOf[c] \in Seq([keep : Nat, ids : Seq(Vocab), max : Nat])
    BY <1>1, TurnsAssumption
<1>5. TurnsOf[c][1] \in [keep : Nat, ids : Seq(Vocab), max : Nat]
    <2>1. 1 \in 1..Len(TurnsOf[c])
        BY <1>1
    <2> DEFINE T == [keep : Nat, ids : Seq(Vocab), max : Nat]
    <2>2. TurnsOf[c] \in Seq(T)
        BY <1>4
    <2> HIDE DEF T
    <2>3. TurnsOf[c][1] \in T
        BY <2>1, <2>2, ElementOfSeq
    <2>4. QED
        BY <2>3 DEF T
<1>6. TurnsOf[c][1].max \in Nat /\ Len(TurnsOf[c][1].ids) \in Nat
    BY <1>5
<1>7. QED
    BY <1>1, <1>3, <1>6 DEF Turn

LEMMA PrintTokenFeeds ==
    ASSUME LogitInv, NEW c \in Coordinators, PrintToken(c)
    PROVE  Feeding'
<1>1. Shapes /\ Place(c) /\ Wire(c) /\ Own(c) /\ link[c] \in {"none", "up", "down"}
    BY DEF LogitInv, WireInv, Feeding, Shapes
<1> DEFINE h == Header("FWD", pos[c], pos[c], cut[c])
           last == Append(Printed(c), tok[c])
           ids == <<tok[c]>>
<1>2. /\ cpc[c] = "decode" /\ ~AnswerFull(c)
      /\ said' = [said EXCEPT ![c] = [@ EXCEPT ![Len(said[c])] = last]]
      /\ cut' = cut /\ pos' = pos /\ off' = off /\ link' = link /\ toC' = toC
      /\ wpc' = wpc /\ conn' = conn /\ head' = head /\ wlo' = wlo /\ wkv' = wkv
      /\ \/ cpc' = [cpc EXCEPT ![c] = "idle"] /\ toW' = toW /\ fed' = fed
         \/ Ask(c, "FWD", pos[c], ids)
    BY DEF PrintToken, workerVars, Printed
<1>3. Len(said[c]) >= 1 /\ ~InPrefill(c) /\ IsSequence(said[c]) /\ Len(said[c]) \in Nat
    BY <1>1, <1>2, SequenceFacts DEF Place, Shapes
<1>4. Len(said'[c]) = Len(said[c]) /\ Printed(c)' = last
    <2>1. Len(said[c]) \in 1..Len(said[c])
        BY <1>3
    <2>2. said'[c] = [said[c] EXCEPT ![Len(said[c])] = last]
        BY <1>1, <1>2 DEF Shapes
    <2>3. PICK S : said[c] \in Seq(S)
        BY <1>3 DEF IsSequence
    <2>4. said[c] \in Seq(S \cup {last}) /\ last \in S \cup {last}
        BY <2>3, SeqMonotonic
    <2> HIDE DEF last
    <2>5. Len(said'[c]) = Len(said[c]) /\ said'[c][Len(said[c])] = last
        BY <2>1, <2>2, <2>4, ExceptSeq
    <2>6. QED
        BY <2>5 DEF Printed
<1>5. \A d \in Coordinators \ {c} : said'[d] = said[d]
    BY <1>1, <1>2 DEF Shapes
<1>6. toC[c] = <<>> /\ (link[c] = "up" => toW[c] = <<>>)
    BY <1>1, <1>2, Unserved
<1>7. DOMAIN fed = Coordinators
    BY DEF LogitInv, Feeding
<1>8. CASE cpc' = [cpc EXCEPT ![c] = "idle"] /\ toW' = toW /\ fed' = fed
    <2>1. cpc'[c] = "idle" /\ \A d \in Coordinators \ {c} : cpc'[d] = cpc[d]
        BY <1>1, <1>8 DEF Shapes
    <2>2. Own(c)'
        BY <1>2, <1>6, <1>8, <2>1, Rests
    <2>3. QED
        BY <1>2, <1>5, <1>7, <1>8, <2>1, <2>2, OneFeeds
<1>9. CASE Ask(c, "FWD", pos[c], ids)
    <2>1. Consumed(c) = pos[c] /\ Reach(c) = pos[c] + 1 /\ pos[c] \in Nat
        BY <1>1, <1>2, <1>3 DEF Consumed, Asking, Reach, Shapes
    <2>2. /\ fed' = [fed EXCEPT ![c] = SubSeq(fed[c], 1, Consumed(c)) \o ids]
          /\ toW' = Send(toW, c, h, Residuals(fed'[c], Consumed(c)))
          /\ cpc' = [cpc EXCEPT ![c] = "await"]
        BY <1>7, <1>9, <2>1 DEF Ask
    <2>3. cpc'[c] = "await" /\ \A d \in Coordinators \ {c} : cpc'[d] = cpc[d]
        BY <1>1, <2>2 DEF Shapes
    <2>4. IsSequence(ids) /\ Consumed(c) + Len(ids) = Reach(c)
        <3>1. ids \in Seq({tok[c]}) /\ Len(ids) = 1
            OBVIOUS
        <3>2. QED
            BY <2>1, <3>1 DEF IsSequence
    <2>5. Turn(c)' = Turn(c) /\ ~InPrefill(c)'
        BY <1>2, <1>3, <1>4 DEF Turn, InPrefill
    <2>6. c \in Runs => /\ IsSequence(last) /\ Len(last) = Len(Printed(c)) + 1
                        /\ Len(Printed(c)) \in Nat
                        /\ pos[c] = Len(Turn(c).ids) + Len(Printed(c))
        <3>1. SUFFICES ASSUME c \in Runs
                       PROVE  /\ IsSequence(last) /\ Len(last) = Len(Printed(c)) + 1
                              /\ Len(Printed(c)) \in Nat
                              /\ pos[c] = Len(Turn(c).ids) + Len(Printed(c))
            OBVIOUS
        <3>2. IsSequence(Printed(c)) /\ pos[c] = Len(Turn(c).ids) + Len(Printed(c))
            BY <1>1, <1>2, <3>1 DEF Own, RunRoom
        <3>3. QED
            BY <3>2, SequenceFacts
    <2>7. pos[c] < Cap
        <3>1. CASE c \in Runs
            <4>1. /\ Turn(c).max \in Nat /\ Len(Turn(c).ids) \in Nat
                  /\ Len(Turn(c).ids) + Turn(c).max <= Cap
                BY <1>1, <1>3, <3>1, RunTurn
            <4>2. ~(Len(Printed(c)) >= Turn(c).max)
                BY <1>2 DEF AnswerFull, Printed
            <4>3. QED
                BY <2>6, <3>1, <4>1, <4>2, SizesAssumption
        <3>2. CASE c \notin Runs
            BY <1>2, <2>1, <3>2, SizesAssumption DEF AnswerFull
        <3>3. QED
            BY <3>1, <3>2
    <2>8. Room(c)'
        BY <1>2, <2>3, <2>5, <2>7 DEF Room, Asking
    <2> HIDE DEF last
    <2>9. RunRoom(c)'
        <3>1. SUFFICES ASSUME c \in Runs PROVE RunRoom(c)'
            BY DEF RunRoom
        <3>2. Len(Turn(c).ids) \in Nat
            BY <1>1, <1>3, TurnFacts
        <3>3. pos[c] + 1 = Len(Turn(c).ids) + Len(last)
            BY <2>1, <2>6, <3>1, <3>2
        <3>4. QED
            BY <1>2, <1>4, <2>3, <2>5, <2>6, <3>1, <3>3 DEF RunRoom, Asking
    <2> HIDE DEF h, ids
    <2>10. QED
        BY <1>2, <1>4, <1>5, <2>2, <2>3, <2>4, <2>8, <2>9, AskFeeds
<1>10. QED
    BY <1>2, <1>8, <1>9

(* It takes the logits, or goes on without them: the worker has answered   *)
(* for all it has fed.                                                     *)
LEMMA AnsweredFeeds ==
    ASSUME LogitInv, NEW c \in Coordinators, NEW t, cpc[c] = "await", Answered(c, t),
           toC' = [toC EXCEPT ![c] = <<>>],
           link[c] = "up" => toC[c] # <<>> /\ toW[c] = <<>>
    PROVE  Feeding'
<1>1. Shapes /\ Place(c) /\ Own(c) /\ DOMAIN fed = Coordinators
    BY DEF LogitInv, WireInv, Feeding
<1>2. /\ cut' = cut /\ said' = said /\ fed' = fed /\ toW' = toW /\ wlo' = wlo
      /\ wkv' = wkv /\ wpc' = wpc /\ conn' = conn /\ head' = head
    BY DEF Answered, workerVars
<1>3. /\ IsSequence(fed[c]) /\ Len(fed[c]) \in Nat /\ Len(fed[c]) = Reach(c)
      /\ Consumed(c) \in 0..Len(fed[c])
    BY <1>1, AwaitFacts
<1>4. /\ Len(Turn(c).ids) \in Nat /\ off[c] \in Nat /\ pos[c] \in Nat
      /\ BlockEnd(c) \in Nat /\ Len(said[c]) >= 1
      /\ InPrefill(c) => BlockEnd(c) \in (off[c] + 1)..Len(Turn(c).ids)
    BY <1>1, TurnFacts DEF Place
<1>5. Turn(c)' = Turn(c) /\ Printed(c)' = Printed(c)
    BY <1>2 DEF Turn, Printed
<1>6. toC'[c] = <<>> /\ \A d \in Coordinators \ {c} : toC'[d] = toC[d]
    BY <1>1 DEF Shapes
(* Where the turn goes on.                                                 *)
<1>7. ASSUME cpc'[c] \in {"block", "decode", "idle"}, Consumed(c)' = Len(fed[c]),
             link' = link, Room(c)', RunRoom(c)'
      PROVE  Own(c)'
    <2>1. Eaten(c)'
        BY <1>2, <1>3, <1>7 DEF Eaten
    <2>2. Told(c)'
        BY <1>6, Pieces DEF Told
    <2>3. Carried(c)'
        <3>1. SUFFICES ASSUME link'[c] = "up" PROVE Carried(c)'
            BY DEF Carried
        <3>2. toC[c] # <<>> /\ toW'[c] = <<>> /\ link[c] = "up"
            BY <1>2, <1>7, <3>1
        <3>3. conn = c /\ Remembered(c, Len(fed[c]))
            BY <1>1, <3>2 DEF Own, Carried
        <3>4. Remembered(c, Consumed(c))'
            BY <1>2, <1>7, <3>3 DEF Remembered
        <3>5. \A h, b : toW'[c] # <<h, b>> /\ toW'[c] # <<b>>
            BY <3>2, Pieces
        <3>6. QED
            BY <1>2, <1>6, <3>1, <3>3, <3>4, <3>5 DEF Carried
    <2>4. QED
        BY <1>7, <2>1, <2>2, <2>3 DEF Own
<1>8. CASE InPrefill(c)
    <2>1. BlockAnswered(c, t) /\ link' = link /\ off' = [off EXCEPT ![c] = BlockEnd(c)]
        BY <1>8 DEF Answered, BlockAnswered
    <2>2. off'[c] = BlockEnd(c) /\ Reach(c) = pos[c] + BlockEnd(c) /\ Asking(c)
        BY <1>1, <1>8, <2>1 DEF Shapes, Reach, Asking
    <2>3. CASE BlockEnd(c) < Len(Turn(c).ids)
        <3>1. cpc' = [cpc EXCEPT ![c] = "block"] /\ pos' = pos
            BY <2>1, <2>3 DEF BlockAnswered
        <3>2. cpc'[c] = "block" /\ pos'[c] = pos[c] /\ InPrefill(c)'
            BY <1>1, <1>5, <2>2, <2>3, <3>1 DEF Shapes, InPrefill
        <3>3. Consumed(c)' = Len(fed[c])
            BY <1>3, <2>2, <3>2 DEF Consumed, Asking
        <3>4. Room(c)' /\ RunRoom(c)'
            BY <1>1, <1>5, <2>2, <3>2 DEF Own, Room, RunRoom, Asking, Stepping
        <3>5. Own(c)'
            BY <1>7, <2>1, <3>2, <3>3, <3>4
        <3>6. \A d \in Coordinators \ {c} : /\ cpc'[d] = cpc[d] /\ pos'[d] = pos[d]
                                            /\ off'[d] = off[d]
            BY <1>1, <2>1, <3>1 DEF Shapes
        <3>7. QED
            BY <1>1, <1>2, <1>6, <2>1, <3>5, <3>6, OneFeeds
    <2>4. CASE ~(BlockEnd(c) < Len(Turn(c).ids))
        <3>1. /\ cpc' = [cpc EXCEPT ![c] = "decode"]
              /\ pos' = [pos EXCEPT ![c] = @ + Len(Turn(c).ids)]
            BY <2>1, <2>4 DEF BlockAnswered
        <3>2. BlockEnd(c) = Len(Turn(c).ids)
            BY <1>4, <1>8, <2>4
        <3>3. cpc'[c] = "decode" /\ pos'[c] = pos[c] + Len(Turn(c).ids)
            BY <1>1, <3>1 DEF Shapes
        <3>4. Consumed(c)' = Len(fed[c])
            BY <1>3, <2>2, <3>2, <3>3 DEF Consumed, Asking
        <3>5. Room(c)'
            BY <3>3 DEF Room, Asking, Stepping
        <3>6. RunRoom(c)'
            <4>1. SUFFICES ASSUME c \in Runs PROVE RunRoom(c)'
                BY DEF RunRoom
            <4>2. IsSequence(Printed(c)) /\ pos[c] = 0 /\ Len(Printed(c)) = 0
                BY <1>1, <2>2, <4>1 DEF Own, RunRoom
            <4>3. QED
                BY <1>2, <1>4, <1>5, <3>3, <4>2 DEF RunRoom, Asking, Stepping
        <3>7. Own(c)'
            BY <1>7, <2>1, <3>3, <3>4, <3>5, <3>6
        <3>8. \A d \in Coordinators \ {c} : /\ cpc'[d] = cpc[d] /\ pos'[d] = pos[d]
                                            /\ off'[d] = off[d]
            BY <1>1, <2>1, <3>1 DEF Shapes
        <3>9. QED
            BY <1>1, <1>2, <1>6, <2>1, <3>7, <3>8, OneFeeds
    <2>5. QED
        BY <2>3, <2>4
<1>9. CASE ~InPrefill(c)
    <2>1. TokenAnswered(c, t) /\ off' = off
        BY <1>9 DEF Answered, TokenAnswered
    <2>2. Reach(c) = pos[c] + 1 /\ Stepping(c)
        BY <1>9 DEF Reach, Stepping
    <2>3. CASE c \in Runs /\ t = NoToken
        <3>1. cpc' = [cpc EXCEPT ![c] = "failed"] /\ Closed(c) /\ pos' = pos
            BY <2>1, <2>3 DEF TokenAnswered
        <3>2. link[c] # "none"
            BY DEF LogitInv, WireInv, Wire
        <3>3. link' = [link EXCEPT ![c] = "down"]
            BY <1>1, <3>1, <3>2 DEF Closed, Shapes
        <3>4. /\ cpc'[c] = "failed" /\ link'[c] = "down"
              /\ \A d \in Coordinators \ {c} : cpc'[d] = cpc[d] /\ link'[d] = link[d]
            BY <1>1, <3>1, <3>3 DEF Shapes
        <3>5. Own(c)'
            BY <1>2, <1>6, <3>1, <3>4, Rests
        <3>6. QED
            BY <1>1, <1>2, <1>6, <2>1, <3>1, <3>4, <3>5, OneFeeds
    <2>4. CASE ~(c \in Runs /\ t = NoToken)
        <3>1. /\ pos' = [pos EXCEPT ![c] = @ + 1] /\ link' = link
              /\ \/ cpc' = [cpc EXCEPT ![c] = "idle"]
                 \/ cpc' = [cpc EXCEPT ![c] = "decode"]
            BY <2>1, <2>4 DEF TokenAnswered
        <3>2. cpc'[c] \in {"idle", "decode"} /\ pos'[c] = pos[c] + 1
            BY <1>1, <3>1 DEF Shapes
        <3>3. Consumed(c)' = Len(fed[c])
            BY <1>3, <2>2, <3>2 DEF Consumed, Asking
        <3>4. Room(c)'
            BY <3>2 DEF Room, Asking, Stepping
        <3>5. RunRoom(c)'
            <4>1. SUFFICES ASSUME c \in Runs PROVE RunRoom(c)'
                BY DEF RunRoom
            <4>2. IsSequence(Printed(c)) /\ pos[c] + 1 = Len(Turn(c).ids) + Len(Printed(c))
                BY <1>1, <2>2, <4>1 DEF Own, RunRoom
            <4>3. QED
                BY <1>5, <3>2, <4>2 DEF RunRoom, Asking, Stepping
        <3>6. Own(c)'
            BY <1>7, <3>1, <3>2, <3>3, <3>4, <3>5
        <3>7. \A d \in Coordinators \ {c} : cpc'[d] = cpc[d] /\ pos'[d] = pos[d]
            BY <1>1, <3>1 DEF Shapes
        <3>8. QED
            BY <1>1, <1>2, <1>6, <2>1, <3>1, <3>6, <3>7, OneFeeds
    <2>5. QED
        BY <2>3, <2>4
<1>10. QED
    BY <1>8, <1>9

LEMMA TakeReplyFeeds ==
    ASSUME LogitInv, NEW c \in Coordinators, TakeReply(c)
    PROVE  Feeding'
<1>1. Shapes /\ Wire(c)
    BY DEF LogitInv, WireInv
<1>2. cpc[c] = "await" /\ Len(toC[c]) >= 2
    BY DEF TakeReply, Readable
<1>3. PICK t : Answered(c, t)
    BY DEF TakeReply
<1>4. link[c] \in {"up", "down"}
    BY <1>1, <1>2 DEF Shapes, Wire
<1>5. toC[c] # <<>>
    BY <1>2
<1>6. toC[c] # <<Outstanding(c)>>
    <2>1. PICK o : o = Outstanding(c)
        OBVIOUS
    <2>2. Len(<<o>>) = 1
        BY Pieces
    <2>3. ASSUME toC[c] = <<o>> PROVE FALSE
        BY <1>2, <2>2, <2>3
    <2>4. QED
        BY <2>1, <2>3
<1>7. Reply(c) /\ (link[c] = "up" => toW[c] = <<>>)
    BY <1>1, <1>2, <1>4, <1>5, <1>6 DEF Wire, Silent, Requested, Served, Replied, LastReply
<1>8. toC' = [toC EXCEPT ![c] = <<>>]
    <2>1. PICK h, b : toC[c] = <<h, b>>
        BY <1>7 DEF Reply
    <2>2. SubSeq(toC[c], 3, Len(toC[c])) = <<>>
        BY <2>1, Pieces
    <2>3. QED
        BY <2>2 DEF TakeReply
<1>9. QED
    BY <1>2, <1>3, <1>5, <1>7, <1>8, AnsweredFeeds

LEMMA NoReplyFeeds ==
    ASSUME LogitInv, NEW c \in Coordinators, NoReply(c)
    PROVE  Feeding'
<1>1. cpc[c] = "await" /\ link[c] = "down" /\ Answered(c, NoToken)
      /\ toC' = [toC EXCEPT ![c] = <<>>]
    BY DEF NoReply, AtEnd
<1>2. QED
    BY <1>1, AnsweredFeeds

-----------------------------------------------------------------------------
LEMMA LogitStep == Cap <= WorkerCap /\ LogitInv /\ [Next]_vars => LogitInv'
<1>1. LogitInv /\ [Next]_vars => WireInv'
    BY WireStep DEF LogitInv
<1> SUFFICES ASSUME Cap <= WorkerCap, LogitInv, [Next]_vars PROVE Feeding'
    BY <1>1 DEF LogitInv
<1>2. ASSUME NEW c \in Coordinators, Coordinator(c) PROVE Feeding'
    BY <1>2, ConnectFeeds, BeginTurnFeeds, SendBlockFeeds, TakeReplyFeeds, NoReplyFeeds,
       EndTurnFeeds, PrintTokenFeeds, LeaveFeeds DEF Coordinator
<1>3. CASE Worker
    BY <1>3, AcceptFeeds, TakeHeaderFeeds, GoneFeeds, ServeFeeds DEF Worker
<1>4. CASE Faults
    BY <1>4, DropFeeds, LeaveFeeds, CrashFeeds DEF Faults
<1>5. CASE Restart \/ Waiting \/ UNCHANGED vars
    BY <1>5, RestartFeeds DEF Waiting
<1>6. QED
    BY <1>2, <1>3, <1>4, <1>5 DEF Next

(* The logits a coordinator receives are those of all it has consumed and  *)
(* of nothing else (run_prefill_range and run_layer_range on the worker,   *)
(* whose cache keeps what earlier connections left), provided the worker's *)
(* context is not shorter than the coordinators'.                          *)
THEOREM Logits ==
    ASSUME Cap <= WorkerCap
    PROVE  Spec => []LogitsOfContext
<1>1. Init => LogitInv
    BY WireInit, FeedingInit DEF LogitInv
<1>2. LogitInv /\ [Next]_vars => LogitInv'
    BY LogitStep
<1>3. LogitInv => LogitsOfContext
    BY DEF LogitInv, Feeding, Own, Told, LogitsOfContext
<1>4. QED
    BY <1>1, <1>2, <1>3, PTL DEF Spec

-----------------------------------------------------------------------------
(* The context a history of answers leaves                                 *)

(* A non-empty set of naturals has a least element.                        *)
LEMMA LeastElement ==
    ASSUME NEW S \in SUBSET Nat, S # {}
    PROVE  \E m \in S : \A k \in S : m <= k
<1> DEFINE R == OpToRel(<, Nat)
<1>1. IsWellFoundedOn(R, Nat)
    BY NatLessThanWellFounded
<1>2. \A x, y \in Nat : y < x => <<y, x>> \in R
    BY DEF OpToRel
<1> HIDE DEF R
<1>3. PICK x \in S : \A y \in S : ~(<<y, x>> \in R)
    BY <1>1, WFMin
<1>4. ASSUME NEW y \in S PROVE x <= y
    <2>1. x \in Nat /\ y \in Nat
        BY <1>3
    <2>2. ~(y < x)
        BY <1>2, <1>3, <2>1, Zenon
    <2>3. QED
        BY <2>1, <2>2
<1>5. QED
    BY <1>3, <1>4, Zenon

(* The context x after one turn more, with the answer a.                   *)
After(x, t, a) ==
    IF One!Accepted(t, Len(x)) THEN SubSeq(x, 1, t.keep) \o t.ids \o a ELSE x
Unfolds(f, n, s, c) ==
    f = [k \in 0..n |-> IF k = 0 THEN <<>> ELSE After(f[k - 1], TurnsOf[c][k], s[k])]

(* The context is the last value of a function that unfolds.               *)
LEMMA ContextIs ==
    ASSUME NEW s, NEW c
    PROVE One!Context(s, c) = (CHOOSE f : Unfolds(f, Len(s), s, c))[Len(s)]
BY DEF One!Context, Unfolds, After

(* The values of such a function.                                          *)
LEMMA UnfoldsAt ==
    ASSUME NEW f, NEW n \in Nat, NEW s, NEW c, Unfolds(f, n, s, c)
    PROVE  /\ f[0] = <<>>
           /\ \A k \in 1..n : f[k] = After(f[k - 1], TurnsOf[c][k], s[k])
<1>1. \A k \in 0..n : f[k] = IF k = 0 THEN <<>> ELSE After(f[k - 1], TurnsOf[c][k], s[k])
    BY Zenon DEF Unfolds
<1>2. 0 \in 0..n
    OBVIOUS
<1>3. ASSUME NEW k \in 1..n PROVE f[k] = After(f[k - 1], TurnsOf[c][k], s[k])
    <2>1. k \in 0..n /\ k # 0
        OBVIOUS
    <2>2. QED
        BY <1>1, <2>1, Zenon
<1>4. QED
    BY <1>1, <1>2, <1>3, Zenon

(* There is such a function.                                               *)
LEMMA Unfolding ==
    ASSUME NEW s, NEW c, NEW n \in Nat
    PROVE  \E f : Unfolds(f, n, s, c)
<1> DEFINE S == {m \in Nat : ~ \E f : Unfolds(f, m, s, c)}
<1>1. SUFFICES ASSUME S # {} PROVE FALSE
    BY Zenon
<1>2. PICK m \in S : \A k \in S : m <= k
    <2>1. S \in SUBSET Nat
        OBVIOUS
    <2> HIDE DEF S
    <2>2. QED
        BY <1>1, <2>1, LeastElement, Zenon
<1>3. m \in Nat /\ ~ \E f : Unfolds(f, m, s, c)
    BY Zenon
<1>4. CASE m = 0
    <2> DEFINE g == [k \in 0..0 |-> <<>>]
    <2>1. 0..0 = {0}
        OBVIOUS
    <2>2. \A k \in 0..0 : k = 0
        BY <2>1, Zenon
    <2>3. g = [k \in 0..0 |-> IF k = 0 THEN <<>> ELSE After(g[k - 1], TurnsOf[c][k], s[k])]
        BY <2>2, Zenon
    <2>4. Unfolds(g, 0, s, c)
        BY <2>3, Zenon DEF Unfolds
    <2>5. QED
        BY <1>3, <1>4, <2>4, Zenon
<1>5. CASE m # 0
    <2>1. m - 1 \in Nat /\ ~(m <= m - 1)
        BY <1>3, <1>5, SMT
    <2>2. PICK f : Unfolds(f, m - 1, s, c)
        BY <1>2, <2>1, Zenon
    <2> DEFINE g == [k \in 0..m |-> IF k = m THEN After(f[k - 1], TurnsOf[c][k], s[k])
                                             ELSE f[k]]
    <2>3. f[0] = <<>> /\ \A k \in 1..(m - 1) : f[k] = After(f[k - 1], TurnsOf[c][k], s[k])
        BY <2>1, <2>2, UnfoldsAt
    <2>4. ASSUME NEW k \in 0..m
          PROVE  g[k] = IF k = 0 THEN <<>> ELSE After(g[k - 1], TurnsOf[c][k], s[k])
        <3>1. CASE k = 0
            <4>1. k # m
                BY <1>5, <3>1
            <4>2. QED
                BY <3>1, <2>3, <4>1, Zenon
        <3>2. CASE k # 0
            <4>1. k - 1 \in 0..m /\ k - 1 # m
                BY <1>3, <3>2, SMT
            <4>2. g[k - 1] = f[k - 1]
                BY <4>1, Zenon
            <4>3. k = m \/ k \in 1..(m - 1)
                BY <1>3, <3>2, SMT
            <4>4. g[k] = After(f[k - 1], TurnsOf[c][k], s[k])
                BY <4>3, <2>3, Zenon
            <4>5. QED
                BY <3>2, <4>2, <4>4, Zenon
        <3>3. QED
            BY <3>1, <3>2, Zenon
    <2>5. g = [k \in 0..m |-> g[k]]
        BY Zenon
    <2> HIDE DEF g
    <2>6. g = [k \in 0..m |-> IF k = 0 THEN <<>> ELSE After(g[k - 1], TurnsOf[c][k], s[k])]
        BY <2>4, <2>5, Zenon
    <2>7. Unfolds(g, m, s, c)
        BY <2>6, Zenon DEF Unfolds
    <2>8. QED
        BY <1>3, <2>7, Zenon
<1>6. QED
    BY <1>4, <1>5, Zenon

(* Two of them agree where the answers do.                                 *)
LEMMA UnfoldedAlike ==
    ASSUME NEW c, NEW s, NEW r, NEW f, NEW g, NEW k \in Nat,
           Unfolds(f, k + 1, s, c), Unfolds(g, k, r, c), \A j \in 1..k : s[j] = r[j]
    PROVE  f[k] = g[k]
<1> DEFINE S == {j \in 0..k : f[j] # g[j]}
<1>0. /\ f[0] = <<>> /\ \A j \in 1..(k + 1) : f[j] = After(f[j - 1], TurnsOf[c][j], s[j])
      /\ g[0] = <<>> /\ \A j \in 1..k : g[j] = After(g[j - 1], TurnsOf[c][j], r[j])
    BY UnfoldsAt
<1>1. SUFFICES ASSUME S # {} PROVE FALSE
    <2>1. k \in 0..k
        OBVIOUS
    <2>2. QED
        BY <1>1, <2>1, Zenon
<1>2. PICK m \in S : \A j \in S : m <= j
    <2>1. S \in SUBSET Nat
        OBVIOUS
    <2> HIDE DEF S
    <2>2. QED
        BY <1>1, <2>1, LeastElement, Zenon
<1>3. m \in 0..k /\ f[m] # g[m]
    BY Zenon
<1>4. m # 0
    BY <1>0, <1>3, Zenon
<1>5. m \in 1..(k + 1) /\ m \in 1..k /\ m - 1 \in 0..k /\ ~(m <= m - 1)
    BY <1>3, <1>4, SMT
<1>6. f[m - 1] = g[m - 1]
    BY <1>2, <1>5, Zenon
<1>7. QED
    BY <1>0, <1>3, <1>5, <1>6, Zenon

(* The context after no turn, and after one more than the earlier ones.    *)
LEMMA ContextFacts ==
    ASSUME NEW c
    PROVE  /\ One!Context(<<>>, c) = <<>>
           /\ \A s : IsSequence(s) /\ s # <<>> =>
                One!Context(s, c) =
                    After(One!Context(One!Earlier(s), c), TurnsOf[c][Len(s)], s[Len(s)])
<1> DEFINE F(s) == CHOOSE f : Unfolds(f, Len(s), s, c)
<1>1. \A s : One!Context(s, c) = F(s)[Len(s)]
    BY ContextIs, Zenon
<1>2. ASSUME NEW s, Len(s) \in Nat
      PROVE  Unfolds(F(s), Len(s), s, c)
    <2>1. \E f : Unfolds(f, Len(s), s, c)
        BY <1>2, Unfolding, Zenon
    <2>2. QED
        BY <2>1, Zenon
<1> HIDE DEF F
<1>3. One!Context(<<>>, c) = <<>>
    <2>1. Len(<<>>) = 0
        OBVIOUS
    <2>2. F(<<>>)[0] = <<>>
        BY <1>2, <2>1, UnfoldsAt
    <2>3. QED
        BY <1>1, <2>1, <2>2, Zenon
<1>4. ASSUME NEW s, IsSequence(s), s # <<>>
      PROVE  One!Context(s, c) =
                    After(One!Context(One!Earlier(s), c), TurnsOf[c][Len(s)], s[Len(s)])
    <2> DEFINE e == One!Earlier(s)
               n == Len(s)
    <2>1. PICK T : s \in Seq(T)
        BY <1>4 DEF IsSequence
    <2>2. n \in Nat \ {0}
        BY <1>4, <2>1, EmptySeq, LenProperties
    <2>3. e = SubSeq(s, 1, n - 1)
        BY Zenon DEF One!Earlier
    <2>4. Len(e) = n - 1 /\ \A j \in 1..(n - 1) : e[j] = s[j]
        <3>1. n - 1 \in 0..n /\ \A j \in 1..(n - 1) : s[j] \in T /\ 1 + j - 1 = j
            BY <2>1, <2>2, ElementOfSeq
        <3>2. Len(SubSeq(s, 1, n - 1)) = n - 1
            BY <1>4, <3>1, Beginnings
        <3>3. \A j \in 1..(n - 1 - 1 + 1) : SubSeq(s, 1, n - 1)[j] = s[1 + j - 1]
            BY <2>2, <3>1, SubSeqProperties
        <3>4. n - 1 - 1 + 1 = n - 1
            BY <2>2
        <3>5. \A j \in 1..(n - 1) : SubSeq(s, 1, n - 1)[j] = s[j]
            BY <3>1, <3>3, <3>4
        <3>6. QED
            BY <2>3, <3>2, <3>5
    <2> HIDE DEF e, n
    <2>5. n - 1 \in Nat /\ n - 1 \in 0..n /\ n - 1 <= n - 1 /\ n \in 1..n /\ n \in Nat
        BY <2>2
    <2>6. Unfolds(F(s), n, s, c) /\ Unfolds(F(e), n - 1, e, c)
        BY <1>2, <2>4, <2>5 DEF n
    <2>7. F(s)[n - 1] = F(e)[n - 1]
        <3>1. PICK q \in Nat : q = n - 1
            BY <2>5, Zenon
        <3>2. \A j \in 1..q : s[j] = e[j]
            BY <2>4, <3>1, Zenon
        <3>3. Unfolds(F(s), q + 1, s, c) /\ Unfolds(F(e), q, e, c)
            BY <2>5, <2>6, <3>1
        <3>4. F(s)[q] = F(e)[q]
            BY <3>2, <3>3, UnfoldedAlike
        <3>5. QED
            BY <3>1, <3>4, Zenon
    <2>8. F(s)[n] = After(F(s)[n - 1], TurnsOf[c][n], s[n])
        BY <2>5, <2>6, UnfoldsAt
    <2>9. One!Context(e, c) = F(e)[n - 1] /\ One!Context(s, c) = F(s)[n]
        BY <1>1, <2>4, Zenon DEF n
    <2>10. QED
        BY <2>7, <2>8, <2>9, Zenon DEF e, n
<1>5. QED
    BY <1>3, <1>4, Zenon

-----------------------------------------------------------------------------
(* The types                                                               *)

(* A message to the worker that is not read is a header, then a body.      *)
Mail(c) ==
    \/ toW[c] = <<>>
    \/ Serving(c) /\ \E b : toW[c] = <<b>>
    \/ ~Serving(c) /\ \E h \in Headers : toW[c] = <<h>> \/ \E b : toW[c] = <<h, b>>
(* The history grows with the positions, not with the failures.            *)
Typed(c) ==
    /\ cpc[c] # "failed" => Len(hist[c]) <= Consumed(c)
    /\ Mail(c)
Tables ==
    /\ cpc \in [Coordinators -> {"off", "idle", "block", "decode", "await",
                                 "ended", "failed"}]
    /\ said \in [Coordinators -> Seq(Contexts)] /\ fed \in [Coordinators -> Contexts]
    /\ hist \in [Coordinators -> Seq(Vocab)]
    /\ tok \in [Coordinators -> Vocab \cup {NoToken}]
    /\ wpc \in {"down", "accept", "header", "body"}
    /\ conn \in Coordinators \cup {None} /\ head \in Headers
    /\ drops \in 0..MaxDrops /\ crashes \in 0..MaxCrashes
TypeInv == LogitInv /\ Tables /\ \A c \in Coordinators : Typed(c)

(* The inductive invariant implies the types, and every step keeps it.     *)
LEMMA TypeInvGives == TypeInv => TypeOK
<1> SUFFICES ASSUME TypeInv PROVE TypeOK
    OBVIOUS
<1>1. /\ Shapes /\ Tables /\ cut \in Cuts /\ wlo \in Owns
    BY DEF TypeInv, LogitInv, WireInv, Feeding
<1>2. cut \in [Coordinators -> 1..(L - 1)] /\ wlo \in Layers
    BY <1>1, LayersAssumption DEF Layers
<1>3. hist \in [Coordinators -> Contexts]
    <2>1. Seq(Vocab) \subseteq Contexts
        BY SeqMonotonic DEF Contexts
    <2>2. QED
        BY <1>1, <2>1 DEF Tables
<1>4. ASSUME NEW c \in Coordinators
      PROVE  /\ Len(toW[c]) <= 2 /\ Len(toC[c]) <= 2
             /\ \A n \in 1..Len(fed[c]) : fed[c][n] \in Vocab \cup {NoToken}
    <2>1. Mail(c) /\ Wire(c) /\ link[c] \in {"none", "up", "down"}
        BY <1>1 DEF TypeInv, LogitInv, WireInv, Typed, Shapes
    <2>2. Len(toW[c]) <= 2
        <3>1. \A h, b : Len(<<h, b>>) = 2 /\ Len(<<b>>) = 1 /\ Len(<<>>) = 0
            BY Pieces
        <3>2. Len(toW[c]) \in {0, 1, 2}
            BY <2>1, <3>1 DEF Mail
        <3>3. PICK k \in {0, 1, 2} : Len(toW[c]) = k
            BY <3>2
        <3>4. QED
            BY <3>3
    <2>3. Len(toC[c]) <= 2
        <3>1. \A h, b : Len(<<h, b>>) = 2 /\ Len(<<b>>) = 1 /\ Len(<<>>) = 0
            BY Pieces
        <3>2. \/ toC[c] = <<>> \/ toC[c] = <<Outstanding(c)>>
              \/ \E b : toC[c] = <<Outstanding(c), b>>
            BY <2>1 DEF Wire, Silent, Requested, Served, Replied, LastReply, Reply
        <3>3. Len(toC[c]) \in {0, 1, 2}
            BY <3>1, <3>2
        <3>4. PICK k \in {0, 1, 2} : Len(toC[c]) = k
            BY <3>3
        <3>5. QED
            BY <3>4
    <2>4. \A n \in 1..Len(fed[c]) : fed[c][n] \in Vocab \cup {NoToken}
        BY <1>1, ElementOfSeq DEF Tables, Contexts
    <2>5. QED
        BY <2>2, <2>3, <2>4
<1>5. QED
    BY <1>1, <1>2, <1>3, <1>4 DEF TypeOK, Shapes, Tables

(* The initial state.                                                      *)
LEMMA TypeInvInit == Init => Tables /\ \A c \in Coordinators : Typed(c)
<1> SUFFICES ASSUME Init PROVE Tables /\ \A c \in Coordinators : Typed(c)
    OBVIOUS
<1>1. Tables
    <2>1. \A S : <<>> \in Seq(S)
        BY EmptySeq
    <2>2. NoHeader \in Headers
        BY DEF NoHeader, Headers
    <2>3. QED
        BY <2>1, <2>2, SizesAssumption DEF Init, Tables, Contexts
<1>2. ASSUME NEW c \in Coordinators PROVE Typed(c)
    <2>1. hist[c] = <<>> /\ toW[c] = <<>> /\ cpc[c] = "off" /\ pos[c] = 0
        BY DEF Init
    <2>2. Len(<<>>) = 0
        BY EmptySeq
    <2>3. Consumed(c) = 0
        BY <2>1 DEF Consumed, Asking
    <2>4. QED
        BY <2>1, <2>2, <2>3 DEF Typed, Mail
<1>3. QED
    BY <1>1, <1>2

(* A coordinator that a step leaves alone.                                 *)
LEMMA TypedStays ==
    ASSUME NEW c \in Coordinators, Typed(c), cut' = cut,
           said'[c] = said[c], pos'[c] = pos[c], off'[c] = off[c], fed'[c] = fed[c],
           hist'[c] = hist[c], cpc'[c] = cpc[c] \/ cpc'[c] = "failed", Mail(c)'
    PROVE  Typed(c)'
<1>1. CASE cpc'[c] = cpc[c]
    <2>1. Consumed(c)' = Consumed(c)
        BY <1>1, SameConsumed
    <2>2. QED
        BY <1>1, <2>1 DEF Typed
<1>2. CASE cpc'[c] = "failed"
    BY <1>2 DEF Typed
<1>3. QED
    BY <1>1, <1>2

(* What is left of the messages to the worker when a connection is lost.   *)
LEMMA CutMail ==
    ASSUME NEW c \in Coordinators, Mail(c), toW'[c] \in Prefix(toW[c]),
           wpc' = wpc, conn' = conn
    PROVE  Mail(c)'
<1>1. Serving(c)' = Serving(c)
    BY DEF Serving
<1>2. CASE toW[c] = <<>>
    BY <1>2, Pieces DEF Mail
<1>3. ASSUME NEW x, toW[c] = <<x>>
      PROVE  toW'[c] \in {<<>>, <<x>>}
    <2>1. Prefix(<<x>>) = {<<>>, <<x>>}
        <3>1. 0..Len(<<x>>) = {0, 1}
            OBVIOUS
        <3>2. SubSeq(<<x>>, 1, 0) = <<>>
            BY SubSeqEmpty
        <3>3. SubSeq(<<x>>, 1, 1) = <<x>>
            <4>1. <<x>> \in Seq({x}) /\ Len(<<x>>) = 1
                OBVIOUS
            <4>2. QED
                BY <4>1, SubSeqFull
        <3>4. Prefix(<<x>>) = {SubSeq(<<x>>, 1, n) : n \in {0, 1}}
            BY <3>1, Zenon DEF Prefix
        <3>5. QED
            BY <3>2, <3>3, <3>4, Zenon
    <2>2. QED
        BY <1>3, <2>1
<1>4. ASSUME NEW h, NEW b, toW[c] = <<h, b>>
      PROVE  toW'[c] \in {<<>>, <<h>>, <<h, b>>}
    <2>1. Prefix(<<h, b>>) = {<<>>, <<h>>, <<h, b>>}
        BY Pieces, Zenon
    <2>2. Prefix(toW[c]) = {<<>>, <<h>>, <<h, b>>}
        BY <1>4, <2>1, Zenon
    <2>3. QED
        BY <2>2
<1>5. QED
    BY <1>1, <1>2, <1>3, <1>4 DEF Mail

(* Each step of a coordinator keeps the types.                             *)
LEMMA ConnectTyped ==
    ASSUME TypeInv, NEW c \in Coordinators, Connect(c)
    PROVE  Tables' /\ \A d \in Coordinators : Typed(d)'
<1>1. Shapes /\ Tables /\ \A d \in Coordinators : Typed(d)
    BY DEF TypeInv, LogitInv, WireInv
<1>2. Tables'
    BY <1>1 DEF Connect, Tables, turnVars, budget
<1>3. ASSUME NEW d \in Coordinators PROVE Typed(d)'
    <2>1. Consumed(d)' = Consumed(d) /\ cpc[c] = "off" 
        BY <1>1 DEF Connect, Tables, turnVars, Consumed, Asking, InPrefill, Turn
    <2>2. (cpc'[d] # "failed" => cpc[d] # "failed") /\ hist' = hist
        BY <1>1 DEF Connect, Tables, turnVars
    <2>3. Mail(d)'
        BY <1>1 DEF Connect, Mail, Serving, Typed
    <2>4. QED
        BY <1>1, <2>1, <2>2, <2>3 DEF Typed
<1>4. QED
    BY <1>2, <1>3

LEMMA BeginTurnTyped ==
    ASSUME TypeInv, NEW c \in Coordinators, BeginTurn(c)
    PROVE  Tables' /\ \A d \in Coordinators : Typed(d)'
<1>1. Shapes /\ Tables /\ \A d \in Coordinators : Typed(d)
    BY DEF TypeInv, LogitInv, WireInv
<1> DEFINE t == TurnsOf[c][Len(said[c]) + 1]
<1>2. /\ cpc[c] = "idle" /\ Len(said[c]) < Len(TurnsOf[c])
      /\ said' = [said EXCEPT ![c] = Append(@, <<>>)]
      /\ \/ /\ Accepted(t, pos[c]) /\ cpc' = [cpc EXCEPT ![c] = "block"]
            /\ pos' = [pos EXCEPT ![c] = t.keep] /\ off' = [off EXCEPT ![c] = 0]
            /\ hist' = [hist EXCEPT ![c] = <<>>]
         \/ cpc' = cpc /\ pos' = pos /\ off' = off /\ hist' = hist
      /\ cut' = cut /\ link' = link /\ toW' = toW /\ toC' = toC /\ fed' = fed
      /\ tok' = tok /\ wpc' = wpc /\ conn' = conn /\ head' = head
      /\ drops' = drops /\ crashes' = crashes
    BY DEF BeginTurn, netVars, workerVars, budget
<1>3. Tables'
    <2>1. <<>> \in Contexts /\ <<>> \in Seq(Vocab)
        BY EmptySeq DEF Contexts
    <2>2. said[c] \in Seq(Contexts)
        BY <1>1 DEF Tables
    <2>3. Append(said[c], <<>>) \in Seq(Contexts)
        BY <2>1, <2>2, AppendProperties
    <2>4. said' \in [Coordinators -> Seq(Contexts)]
        BY <1>1, <1>2, <2>3 DEF Tables
    <2>5. hist' \in [Coordinators -> Seq(Vocab)]
        BY <1>1, <1>2, <2>1 DEF Tables
    <2>6. cpc' \in [Coordinators -> {"off", "idle", "block", "decode", "await",
                                     "ended", "failed"}]
        BY <1>1, <1>2 DEF Tables
    <2>7. QED
        BY <1>1, <1>2, <2>4, <2>5, <2>6 DEF Tables
<1>4. ASSUME NEW d \in Coordinators PROVE Typed(d)'
    <2>1. Mail(d)'
        BY <1>1, <1>2 DEF Mail, Serving, Typed
    <2>2. CASE d # c
        BY <1>1, <1>2, <2>1, <2>2, TypedStays DEF Tables, Shapes
    <2>3. CASE d = c
        <3>1. CASE cpc' = cpc /\ pos' = pos /\ off' = off /\ hist' = hist
            <4>1. Consumed(c)' = pos[c] /\ Consumed(c) = pos[c]
                BY <1>2, <3>1 DEF Consumed, Asking
            <4>2. QED
                BY <1>1, <2>1, <2>3, <3>1, <4>1 DEF Typed
        <3>2. CASE /\ cpc' = [cpc EXCEPT ![c] = "block"]
                   /\ pos' = [pos EXCEPT ![c] = t.keep] /\ off' = [off EXCEPT ![c] = 0]
                   /\ hist' = [hist EXCEPT ![c] = <<>>]
            <4>1. t.keep \in Nat
                <5>1. Len(said[c]) + 1 \in 1..Len(TurnsOf[c])
                    BY <1>1, <1>2, TurnTypes, LenProperties DEF Tables
                <5>2. QED
                    BY <5>1, TurnTypes
            <4>2. cpc'[c] = "block" /\ pos'[c] = t.keep /\ off'[c] = 0 /\ hist'[c] = <<>>
                BY <1>1, <3>2 DEF Tables, Shapes
            <4>3. Consumed(c)' \in Nat
                BY <4>1, <4>2 DEF Consumed
            <4>4. Len(hist'[c]) = 0
                BY <4>2, EmptySeq
            <4>5. QED
                BY <2>1, <2>3, <4>3, <4>4 DEF Typed
        <3>3. QED
            BY <1>2, <3>1, <3>2
    <2>4. QED
        BY <2>2, <2>3
<1>5. QED
    BY <1>3, <1>4

(* Asking the worker: a header and a body, after a queue that was empty as *)
(* long as the connection is up.                                           *)
LEMMA AskTyped ==
    ASSUME TypeInv, NEW c \in Coordinators, NEW h \in Headers, NEW b, NEW ids \in Contexts,
           cpc[c] \in {"block", "decode"}, cpc' = [cpc EXCEPT ![c] = "await"],
           fed' = [fed EXCEPT ![c] = SubSeq(fed[c], 1, Consumed(c)) \o ids],
           toW' = Send(toW, c, h, b), said' \in [Coordinators -> Seq(Contexts)],
           Len(said[c])' = Len(said[c]), pos' = pos, off' = off, cut' = cut,
           tok' = tok, hist' = hist, link' = link, wpc' = wpc, conn' = conn,
           head' = head, drops' = drops, crashes' = crashes,
           \A d \in Coordinators \ {c} : said'[d] = said[d]
    PROVE  Tables' /\ \A d \in Coordinators : Typed(d)'
<1>1. /\ Shapes /\ Tables /\ Place(c) /\ Wire(c) /\ Own(c)
      /\ \A d \in Coordinators : Typed(d)
    BY DEF TypeInv, LogitInv, WireInv, Feeding
<1>2. SubSeq(fed[c], 1, Consumed(c)) \o ids \in Contexts
    <2>1. Consumed(c) \in Nat /\ Consumed(c) <= Len(fed[c])
        BY <1>1, ConsumedNat DEF Own, Eaten
    <2>2. fed[c] \in Seq(Vocab \cup {NoToken}) /\ ids \in Seq(Vocab \cup {NoToken})
        BY <1>1 DEF Tables, Contexts
    <2>3. \A i \in 1..Consumed(c) : fed[c][i] \in Vocab \cup {NoToken}
        BY <2>1, <2>2, ElementOfSeq, LenProperties
    <2>4. SubSeq(fed[c], 1, Consumed(c)) \in Seq(Vocab \cup {NoToken})
        BY <2>1, <2>3, SubSeqProperties
    <2>5. QED
        BY <2>2, <2>4, ConcatProperties DEF Contexts
<1>3. Tables'
    BY <1>1, <1>2 DEF Tables
<1>4. Turn(c)' = Turn(c)
    BY DEF Turn
<1>5. InPrefill(c)' = InPrefill(c)
    BY <1>4 DEF InPrefill
<1>6. cpc'[c] = "await"
    BY <1>1 DEF Tables
<1>7. Consumed(c)' = Consumed(c)
    BY <1>1, <1>5, <1>6 DEF Consumed, Asking, Place
<1>8. ASSUME NEW d \in Coordinators PROVE Typed(d)'
    <2>1. CASE d # c
        <3>1. toW'[d] = toW[d] /\ Serving(d)' = Serving(d)
            BY <1>1, <2>1 DEF Send, Shapes, Serving
        <3>2. Mail(d)'
            BY <1>1, <3>1 DEF Typed, Mail
        <3>3. fed'[d] = fed[d] /\ cpc'[d] = cpc[d]
            BY <1>1, <2>1 DEF Tables
        <3>4. QED
            BY <1>1, <2>1, <3>2, <3>3, TypedStays
    <2>2. CASE d = c
        <3>1. link[c] \in {"none", "up", "down"} /\ cpc[c] # "await"
            BY <1>1 DEF Shapes
        <3>2. Serving(c)' = Serving(c)
            BY DEF Serving
        <3>3. CASE link[c] = "up"
            <4>1. toW[c] = <<>> /\ ~Serving(c)
                BY <1>1, <3>1, <3>3, Unserved
            <4>2. toW'[c] = <<h, b>>
                BY <1>1, <3>3, <4>1, Pieces DEF Send, Shapes
            <4>3. Mail(c)'
                BY <3>2, <4>1, <4>2 DEF Mail
            <4>4. QED
                BY <1>1, <1>7, <2>2, <4>3 DEF Typed
        <3>4. CASE link[c] # "up"
            <4>1. toW' = toW
                BY <3>4 DEF Send
            <4>2. Mail(c)'
                BY <1>1, <3>2, <4>1 DEF Mail, Typed
            <4>3. QED
                BY <1>1, <1>7, <2>2, <4>2 DEF Typed
        <3>5. QED
            BY <3>3, <3>4
    <2>3. QED
        BY <2>1, <2>2
<1>9. QED
    BY <1>3, <1>8

LEMMA SendBlockTyped ==
    ASSUME TypeInv, NEW c \in Coordinators, SendBlock(c)
    PROVE  Tables' /\ \A d \in Coordinators : Typed(d)'
<1>1. Shapes /\ Tables /\ Place(c) /\ cut \in Cuts /\ DOMAIN fed = Coordinators
    BY DEF TypeInv, LogitInv, WireInv, Feeding
<1> DEFINE ids == SubSeq(Turn(c).ids, off[c] + 1, BlockEnd(c))
           base == pos[c] + off[c]
           h == Header("BATCH", Len(ids), base, cut[c])
           b == Residuals(SubSeq(fed[c], 1, base) \o ids, base)
<1>2. /\ cpc[c] = "block" /\ cpc' = [cpc EXCEPT ![c] = "await"] /\ tok' = tok
      /\ hist' = hist /\ cut' = cut /\ said' = said /\ pos' = pos /\ off' = off
      /\ link' = link /\ wpc' = wpc /\ conn' = conn /\ head' = head
      /\ drops' = drops /\ crashes' = crashes
      /\ fed' = [fed EXCEPT ![c] = SubSeq(fed[c], 1, base) \o ids]
      /\ toW' = Send(toW, c, h, b)
    BY DEF SendBlock, Ask, workerVars, budget
<1>3. Len(said[c]) >= 1 /\ InPrefill(c)
    BY <1>1, <1>2 DEF Place
<1>4. Consumed(c) = base
    BY <1>2, <1>3 DEF Consumed, Asking
<1>5. /\ Turn(c).ids \in Seq(Vocab) /\ off[c] \in Nat /\ pos[c] \in Nat
      /\ BlockEnd(c) \in (off[c] + 1)..Len(Turn(c).ids) /\ Len(Turn(c).ids) \in Nat
    BY <1>1, <1>3, TurnFacts
<1>6. ids \in Contexts /\ Len(ids) \in Nat
    <2>1. \A i \in (off[c] + 1)..BlockEnd(c) : Turn(c).ids[i] \in Vocab \cup {NoToken}
        BY <1>5, ElementOfSeq
    <2>2. off[c] + 1 \in Int /\ BlockEnd(c) \in Int
        BY <1>5
    <2>3. ids \in Seq(Vocab \cup {NoToken})
        BY <2>1, <2>2, SubSeqProperties
    <2>4. QED
        BY <2>3, LenProperties DEF Contexts
<1>7. h \in Headers
    <2>1. cut[c] \in Nat /\ base \in Nat
        BY <1>1, <1>5, LayersAssumption
    <2>2. QED
        BY <1>6, <2>1 DEF Header, Headers
<1>8. said' \in [Coordinators -> Seq(Contexts)]
    BY <1>1, <1>2 DEF Tables
<1> HIDE DEF h, b, ids
<1>9. fed' = [fed EXCEPT ![c] = SubSeq(fed[c], 1, Consumed(c)) \o ids]
    BY <1>2, <1>4
<1>10. QED
    BY <1>2, <1>6, <1>7, <1>8, <1>9, AskTyped

(* What the answer of PrintToken is in both cases.                         *)
LEMMA PrintedNow ==
    ASSUME LogitInv, NEW c \in Coordinators, PrintToken(c)
    PROVE  /\ Len(said[c]) \in Nat /\ Len(said[c]) >= 1 /\ ~InPrefill(c)
           /\ said' = [said EXCEPT ![c] = [@ EXCEPT ![Len(said[c])]
                                             = Append(Printed(c), tok[c])]]
           /\ said'[c] = [said[c] EXCEPT ![Len(said[c])] = Append(Printed(c), tok[c])]
           /\ Len(said'[c]) = Len(said[c]) /\ Printed(c)' = Append(Printed(c), tok[c])
           /\ \A d \in Coordinators \ {c} : said'[d] = said[d]
<1>1. Shapes /\ Place(c)
    BY DEF LogitInv, WireInv
<1> DEFINE last == Append(Printed(c), tok[c])
<1>2. cpc[c] = "decode" /\ said' = [said EXCEPT ![c] = [@ EXCEPT ![Len(said[c])] = last]]
    BY DEF PrintToken, Printed
<1>3. Len(said[c]) >= 1 /\ ~InPrefill(c) /\ IsSequence(said[c]) /\ Len(said[c]) \in Nat
    BY <1>1, <1>2, SequenceFacts DEF Place, Shapes
<1>4. said'[c] = [said[c] EXCEPT ![Len(said[c])] = last]
    BY <1>1, <1>2 DEF Shapes
<1>5. Len(said'[c]) = Len(said[c]) /\ Printed(c)' = last
    <2>1. Len(said[c]) \in 1..Len(said[c])
        BY <1>3
    <2>3. PICK S : said[c] \in Seq(S)
        BY <1>3 DEF IsSequence
    <2>4. said[c] \in Seq(S \cup {last}) /\ last \in S \cup {last}
        BY <2>3, SeqMonotonic
    <2> HIDE DEF last
    <2>5. Len(said'[c]) = Len(said[c]) /\ said'[c][Len(said[c])] = last
        BY <2>1, <1>4, <2>4, ExceptSeq
    <2>6. QED
        BY <2>5 DEF Printed
<1>6. \A d \in Coordinators \ {c} : said'[d] = said[d]
    BY <1>1, <1>2 DEF Shapes
<1>7. QED
    BY <1>2, <1>3, <1>4, <1>5, <1>6

LEMMA PrintTokenTyped ==
    ASSUME TypeInv, NEW c \in Coordinators, PrintToken(c)
    PROVE  Tables' /\ \A d \in Coordinators : Typed(d)'
<1>1. /\ Shapes /\ Tables /\ Place(c) /\ cut \in Cuts /\ DOMAIN fed = Coordinators
      /\ LogitInv /\ \A d \in Coordinators : Typed(d)
    BY DEF TypeInv, LogitInv, WireInv, Feeding
<1> DEFINE ids == <<tok[c]>>
           h == Header("FWD", pos[c], pos[c], cut[c])
           b == Residuals(SubSeq(fed[c], 1, pos[c]) \o ids, pos[c])
           last == Append(Printed(c), tok[c])
<1>2. /\ cpc[c] = "decode" /\ tok' = tok
      /\ hist' = hist /\ cut' = cut /\ pos' = pos /\ off' = off
      /\ link' = link /\ wpc' = wpc /\ conn' = conn /\ head' = head
      /\ drops' = drops /\ crashes' = crashes
      /\ \/ cpc' = [cpc EXCEPT ![c] = "idle"] /\ UNCHANGED <<fed, toW>>
         \/ Ask(c, "FWD", pos[c], <<tok[c]>>)
    BY DEF PrintToken, workerVars, budget
<1>3. /\ Len(said[c]) \in Nat /\ Len(said[c]) >= 1 /\ ~InPrefill(c)
      /\ said' = [said EXCEPT ![c] = [@ EXCEPT ![Len(said[c])] = last]]
      /\ Len(said'[c]) = Len(said[c])
      /\ \A d \in Coordinators \ {c} : said'[d] = said[d]
    BY <1>1, PrintedNow
<1>4. Consumed(c) = pos[c] /\ pos[c] \in Nat
    BY <1>1, <1>2 DEF Consumed, Asking, Shapes
<1>5. ids \in Contexts /\ tok[c] \in Vocab \cup {NoToken}
    BY <1>1 DEF Tables, Contexts
<1>6. said' \in [Coordinators -> Seq(Contexts)]
    <2>1. said[c] \in Seq(Contexts) /\ Len(said[c]) \in 1..Len(said[c])
        BY <1>1, <1>3 DEF Tables
    <2>2. Printed(c) \in Contexts
        BY <2>1, ElementOfSeq DEF Printed
    <2>3. last \in Contexts
        BY <1>5, <2>2, AppendProperties DEF Contexts
    <2> HIDE DEF last
    <2>4. [said[c] EXCEPT ![Len(said[c])] = last] \in Seq(Contexts)
        BY <2>1, <2>3, ExceptSeq
    <2>5. QED
        BY <1>1, <1>3, <2>4 DEF Tables
<1>7. h \in Headers
    <2>1. cut[c] \in Nat
        BY <1>1, LayersAssumption
    <2>2. QED
        BY <1>4, <2>1 DEF Header, Headers
<1> HIDE DEF last
<1>8. CASE cpc' = [cpc EXCEPT ![c] = "idle"] /\ UNCHANGED <<fed, toW>>
    <2>1. Tables'
        BY <1>1, <1>2, <1>6, <1>8 DEF Tables
    <2>2. ASSUME NEW d \in Coordinators PROVE Typed(d)'
        <3>1. Mail(d)'
            BY <1>1, <1>2, <1>8 DEF Mail, Typed, Serving
        <3>2. CASE d = c
            <4>1. cpc'[c] = "idle"
                BY <1>1, <1>8 DEF Tables
            <4>2. Consumed(c)' = Consumed(c)
                BY <1>2, <1>4, <4>1 DEF Consumed, Asking
            <4>3. QED
                BY <1>1, <1>2, <3>1, <3>2, <4>2 DEF Typed
        <3>3. CASE d # c
            BY <1>1, <1>2, <1>3, <1>8, <3>1, <3>3, TypedStays DEF Tables
        <3>4. QED
            BY <3>2, <3>3
    <2>3. QED
        BY <2>1, <2>2
<1>9. CASE Ask(c, "FWD", pos[c], ids)
    <2>1. /\ cpc' = [cpc EXCEPT ![c] = "await"] /\ toW' = Send(toW, c, h, b)
          /\ fed' = [fed EXCEPT ![c] = SubSeq(fed[c], 1, pos[c]) \o ids]
        BY <1>9 DEF Ask
    <2> HIDE DEF h, b, ids
    <2>2. fed' = [fed EXCEPT ![c] = SubSeq(fed[c], 1, Consumed(c)) \o ids]
        BY <1>4, <2>1
    <2>3. QED
        BY <1>2, <1>3, <1>5, <1>6, <1>7, <2>1, <2>2, AskTyped
<1>10. QED
    BY <1>2, <1>8, <1>9

LEMMA AnsweredTyped ==
    ASSUME TypeInv, NEW c \in Coordinators, NEW t \in Vocab \cup {NoToken},
           cpc[c] = "await", Answered(c, t),
           hist' = hist \/ (t # NoToken /\ hist' = [hist EXCEPT ![c] = Append(@, t)])
    PROVE  Tables' /\ \A d \in Coordinators : Typed(d)'
<1>1. /\ Shapes /\ Tables /\ Place(c) /\ Own(c)
      /\ \A d \in Coordinators : Typed(d)
    BY DEF TypeInv, LogitInv, WireInv, Feeding
<1>2. /\ cut' = cut /\ said' = said /\ fed' = fed /\ toW' = toW
      /\ wpc' = wpc /\ conn' = conn /\ head' = head
      /\ drops' = drops /\ crashes' = crashes
    BY DEF Answered, workerVars, budget
<1>3. Len(fed[c]) = Reach(c) /\ Consumed(c) \in 0..Len(fed[c]) /\ Consumed(c) < Len(fed[c])
      /\ Len(fed[c]) \in Nat
    BY <1>1, AwaitFacts
<1>4. /\ Len(Turn(c).ids) \in Nat /\ off[c] \in Nat /\ pos[c] \in Nat
      /\ BlockEnd(c) \in Nat
      /\ InPrefill(c) => BlockEnd(c) \in (off[c] + 1)..Len(Turn(c).ids)
    BY <1>1, TurnFacts DEF Place
<1>5. Turn(c)' = Turn(c)
    BY <1>2 DEF Turn
<1>6. Len(hist[c]) \in Nat /\ Len(hist[c]) < Len(fed[c])
      /\ Len(hist'[c]) <= Len(fed[c]) /\ hist' \in [Coordinators -> Seq(Vocab)]
      /\ \A d \in Coordinators \ {c} : hist'[d] = hist[d]
    <2>1. hist[c] \in Seq(Vocab) /\ Len(hist[c]) \in Nat
        BY <1>1, LenProperties DEF Tables
    <2>2. Len(hist[c]) <= Consumed(c)
        BY <1>1 DEF Typed
    <2>3. Len(hist[c]) < Len(fed[c])
        BY <1>3, <2>1, <2>2
    <2>4. CASE hist' = hist
        BY <1>1, <2>1, <2>3, <2>4, <1>3 DEF Tables
    <2>5. CASE t # NoToken /\ hist' = [hist EXCEPT ![c] = Append(@, t)]
        <3>1. Append(hist[c], t) \in Seq(Vocab) /\ Len(Append(hist[c], t)) = Len(hist[c]) + 1
            BY <2>1, <2>5, AppendProperties
        <3>2. hist'[c] = Append(hist[c], t)
            BY <1>1, <2>5 DEF Tables
        <3>3. Len(hist'[c]) <= Len(fed[c])
            BY <1>3, <2>1, <2>3, <3>1, <3>2
        <3>4. QED
            BY <1>1, <2>1, <2>3, <2>5, <3>1, <3>3 DEF Tables
    <2>6. QED
        BY <2>4, <2>5
(* Where the turn goes on.                                                 *)
<1>7. ASSUME NEW s \in {"block", "decode", "idle", "failed"},
             cpc' = [cpc EXCEPT ![c] = s], s # "failed" => Consumed(c)' = Len(fed[c]),
             tok' \in [Coordinators -> Vocab \cup {NoToken}],
             \A d \in Coordinators \ {c} : pos'[d] = pos[d] /\ off'[d] = off[d]
      PROVE  Tables' /\ \A d \in Coordinators : Typed(d)'
    <2>1. Tables'
        BY <1>1, <1>2, <1>6, <1>7 DEF Tables
    <2>2. ASSUME NEW d \in Coordinators PROVE Typed(d)'
        <3>1. Mail(d)'
            BY <1>1, <1>2 DEF Mail, Typed, Serving
        <3>2. CASE d = c
            <4>1. cpc'[c] = s
                BY <1>1, <1>7 DEF Tables
            <4>2. QED
                BY <1>6, <1>7, <3>1, <3>2, <4>1 DEF Typed
        <3>3. CASE d # c
            BY <1>1, <1>2, <1>6, <1>7, <3>1, <3>3, TypedStays DEF Tables
        <3>4. QED
            BY <3>2, <3>3
    <2>3. QED
        BY <2>1, <2>2
<1>8. CASE InPrefill(c)
    <2>1. BlockAnswered(c, t) /\ off' = [off EXCEPT ![c] = BlockEnd(c)]
          /\ tok' = [tok EXCEPT ![c] = t]
        BY <1>8 DEF Answered, BlockAnswered
    <2>2. off'[c] = BlockEnd(c) /\ Reach(c) = pos[c] + BlockEnd(c)
          /\ tok' \in [Coordinators -> Vocab \cup {NoToken}]
        BY <1>1, <1>8, <2>1 DEF Shapes, Reach, Tables
    <2>3. CASE BlockEnd(c) < Len(Turn(c).ids)
        <3>1. cpc' = [cpc EXCEPT ![c] = "block"] /\ pos' = pos
            BY <2>1, <2>3 DEF BlockAnswered
        <3>2. cpc'[c] = "block" /\ pos'[c] = pos[c] /\ InPrefill(c)'
            BY <1>1, <1>5, <2>2, <2>3, <3>1 DEF Shapes, InPrefill
        <3>3. Consumed(c)' = Len(fed[c])
            BY <1>3, <2>2, <3>2 DEF Consumed, Asking
        <3>4. QED
            BY <1>1, <1>7, <2>1, <2>2, <3>1, <3>3 DEF Shapes
    <2>4. CASE ~(BlockEnd(c) < Len(Turn(c).ids))
        <3>1. /\ cpc' = [cpc EXCEPT ![c] = "decode"]
              /\ pos' = [pos EXCEPT ![c] = @ + Len(Turn(c).ids)]
            BY <2>1, <2>4 DEF BlockAnswered
        <3>2. BlockEnd(c) = Len(Turn(c).ids)
            BY <1>4, <1>8, <2>4
        <3>3. cpc'[c] = "decode" /\ pos'[c] = pos[c] + Len(Turn(c).ids)
            BY <1>1, <3>1 DEF Shapes
        <3>4. Consumed(c)' = Len(fed[c])
            BY <1>3, <2>2, <3>2, <3>3 DEF Consumed, Asking
        <3>5. QED
            BY <1>1, <1>7, <2>1, <2>2, <3>1, <3>4 DEF Shapes
    <2>5. QED
        BY <2>3, <2>4
<1>9. CASE ~InPrefill(c)
    <2>1. TokenAnswered(c, t) /\ off' = off
        BY <1>9 DEF Answered, TokenAnswered
    <2>2. Reach(c) = pos[c] + 1
        BY <1>9 DEF Reach
    <2>3. CASE c \in Runs /\ t = NoToken
        <3>1. cpc' = [cpc EXCEPT ![c] = "failed"] /\ pos' = pos /\ tok' = tok
            BY <2>1, <2>3 DEF TokenAnswered
        <3>2. QED
            BY <1>1, <1>7, <2>1, <3>1 DEF Tables
    <2>4. CASE ~(c \in Runs /\ t = NoToken)
        <3>1. /\ pos' = [pos EXCEPT ![c] = @ + 1]
              /\ tok' = [tok EXCEPT ![c] = IF t = NoToken THEN 0 ELSE t]
              /\ \/ cpc' = [cpc EXCEPT ![c] = "idle"]
                 \/ cpc' = [cpc EXCEPT ![c] = "decode"]
            BY <2>1, <2>4 DEF TokenAnswered
        <3>2. cpc'[c] \in {"idle", "decode"} /\ pos'[c] = pos[c] + 1
            BY <1>1, <3>1 DEF Shapes
        <3>3. Consumed(c)' = Len(fed[c])
            BY <1>3, <2>2, <1>9, <3>2, <1>5, <2>1 DEF Consumed, Asking, InPrefill
        <3>4. tok' \in [Coordinators -> Vocab \cup {NoToken}]
            BY <1>1, <3>1, VocabAssumption DEF Tables
        <3>5. \A d \in Coordinators \ {c} : pos'[d] = pos[d] /\ off'[d] = off[d]
            BY <1>1, <2>1, <3>1 DEF Shapes
        <3>6. QED
            BY <1>7, <3>1, <3>3, <3>4, <3>5
    <2>5. QED
        BY <2>3, <2>4
<1>10. QED
    BY <1>8, <1>9

(* The reply taken is the whole of what came, with the logits of the       *)
(* context.                                                                *)
LEMMA Taken ==
    ASSUME LogitInv, NEW c \in Coordinators, TakeReply(c)
    PROVE  /\ cpc[c] = "await" /\ toC[c][2] = fed[c]
           /\ link[c] \in {"up", "down"} /\ toC' = [toC EXCEPT ![c] = <<>>]
<1>1. Shapes /\ Wire(c) /\ Own(c)
    BY DEF LogitInv, WireInv, Feeding
<1>2. cpc[c] = "await" /\ Len(toC[c]) >= 2
    BY DEF TakeReply, Readable
<1>3. link[c] \in {"up", "down"}
    BY <1>1, <1>2 DEF Shapes, Wire
<1>4. toC[c] # <<>> /\ toC[c] # <<Outstanding(c)>>
    <2>1. PICK o : o = Outstanding(c)
        OBVIOUS
    <2>2. Len(<<o>>) = 1 /\ Len(<<>>) = 0
        BY Pieces
    <2>3. ASSUME toC[c] = <<o>> PROVE FALSE
        BY <1>2, <2>2, <2>3
    <2>4. ASSUME toC[c] = <<>> PROVE FALSE
        BY <1>2, <2>2, <2>4
    <2>5. QED
        BY <2>1, <2>3, <2>4
<1>5. Reply(c)
    BY <1>1, <1>2, <1>3, <1>4 DEF Wire, Silent, Requested, Served, Replied, LastReply
<1>6. PICK h, b : toC[c] = <<h, b>>
    BY <1>5 DEF Reply
<1>7. toC' = [toC EXCEPT ![c] = <<>>]
    <2>1. SubSeq(toC[c], 3, Len(toC[c])) = <<>>
        BY <1>6, Pieces
    <2>2. QED
        BY <2>1 DEF TakeReply
<1>8. toC[c][2] = fed[c]
    <2>1. Len(toC[c]) = 2
        BY <1>6, Pieces
    <2>2. QED
        BY <1>1, <2>1 DEF Own, Told
<1>9. QED
    BY <1>2, <1>3, <1>7, <1>8

(* What is sampled from it is a token.                                     *)
LEMMA SampledToken ==
    ASSUME TypeInv, NEW c \in Coordinators, TakeReply(c)
    PROVE  /\ Sampled(toC[c][2], hist[c])
                  = {IF Rep THEN Penalised(fed[c], hist[c]) ELSE Best(fed[c])}
           /\ Sampled(toC[c][2], hist[c]) \subseteq Vocab
<1>1. /\ LogitInv /\ Shapes /\ Tables /\ Place(c) /\ Own(c) /\ Typed(c)
    BY DEF TypeInv, LogitInv, WireInv, Feeding
<1>2. cpc[c] = "await" /\ toC[c][2] = fed[c]
    BY <1>1, Taken
<1>3. fed[c] \in Seq(Vocab \cup {NoToken}) /\ hist[c] \in Seq(Vocab)
    BY <1>1 DEF Tables, Contexts
<1>4. fed[c] # Garbage
    BY <1>3, MarksAssumption
<1>5. Len(fed[c]) \in 0..Cap /\ Len(hist[c]) \in 0..Cap
    <2>1. /\ Len(fed[c]) \in Nat /\ Len(fed[c]) <= Cap
          /\ Consumed(c) \in 0..Len(fed[c])
        BY <1>1, <1>2, AwaitFacts
    <2>2. Len(hist[c]) \in Nat
        BY <1>3, LenProperties
    <2>3. Len(hist[c]) <= Consumed(c)
        BY <1>1, <1>2 DEF Typed
    <2>4. QED
        BY <2>1, <2>2, <2>3, SizesAssumption
<1>6. /\ fed[c] \in [1..Len(fed[c]) -> Vocab \cup {NoToken}]
      /\ hist[c] \in [1..Len(hist[c]) -> Vocab]
    BY <1>3, LenProperties
<1>7. Best(fed[c]) \in Vocab /\ (Rep => Penalised(fed[c], hist[c]) \in Vocab)
    BY <1>5, <1>6, SamplerAssumption
<1>8. QED
    BY <1>2, <1>4, <1>7 DEF Sampled

LEMMA TakeReplyTyped ==
    ASSUME TypeInv, NEW c \in Coordinators, TakeReply(c)
    PROVE  Tables' /\ \A d \in Coordinators : Typed(d)'
<1>1. PICK t \in Sampled(toC[c][2], hist[c]) :
            Answered(c, t) /\ hist' = [hist EXCEPT ![c] = Append(@, t)]
    BY DEF TakeReply
<1>2. cpc[c] = "await"
    BY DEF TakeReply
<1>3. t \in Vocab
    BY <1>1, SampledToken
<1>4. t # NoToken
    BY <1>3, VocabAssumption DEF NoToken
<1>5. QED
    BY <1>1, <1>2, <1>3, <1>4, AnsweredTyped

LEMMA NoReplyTyped ==
    ASSUME TypeInv, NEW c \in Coordinators, NoReply(c)
    PROVE  Tables' /\ \A d \in Coordinators : Typed(d)'
BY AnsweredTyped DEF NoReply

(* The turn or the session ends, or the coordinator is killed.             *)
LEMMA EndTyped ==
    ASSUME TypeInv, NEW c \in Coordinators, EndTurn(c) \/ Leave(c) \/ Die(c)
    PROVE  Tables' /\ \A d \in Coordinators : Typed(d)'
<1>1. /\ Shapes /\ Tables /\ \A d \in Coordinators : Typed(d)
    BY DEF TypeInv, LogitInv, WireInv, Feeding
<1>2. PICK s \in {"idle", "ended", "failed"} : cpc' = [cpc EXCEPT ![c] = s]
            /\ (s # "failed" => cpc[c] \in {"decode", "idle"})
    BY DEF EndTurn, Leave, Die
<1>3. /\ cut' = cut /\ said' = said /\ fed' = fed /\ pos' = pos /\ off' = off
      /\ tok' = tok /\ hist' = hist /\ wpc' = wpc /\ conn' = conn /\ head' = head
      /\ drops' = drops /\ crashes' \in {crashes, crashes + 1}
      /\ crashes' # crashes => crashes < MaxCrashes
      /\ toW' = toW \/ \E w \in Prefix(toW[c]) : toW' = [toW EXCEPT ![c] = w]
    BY DEF EndTurn, Leave, Die, turnVars, netVars, workerVars, budget
<1>4. Tables'
    <2>1. crashes' \in 0..MaxCrashes
        BY <1>1, <1>3, SizesAssumption DEF Tables
    <2>2. QED
        BY <1>1, <1>2, <1>3, <2>1 DEF Tables
<1>5. ASSUME NEW d \in Coordinators PROVE Typed(d)'
    <2>1. Mail(d)'
        <3>1. CASE toW'[d] = toW[d]
            BY <1>1, <1>3, <3>1 DEF Mail, Typed, Serving
        <3>2. CASE toW'[d] # toW[d]
            <4>1. d = c /\ toW'[d] \in Prefix(toW[d])
                BY <1>1, <1>3, <3>2 DEF Shapes
            <4>2. QED
                BY <1>1, <1>3, <4>1, CutMail DEF Typed
        <3>3. QED
            BY <3>1, <3>2
    <2>2. CASE d = c
        <3>1. cpc'[c] = s
            BY <1>1, <1>2 DEF Tables
        <3>2. s # "failed" => Consumed(c)' = Consumed(c) /\ cpc[c] # "failed"
            BY <1>2, <1>3, <3>1 DEF Consumed, Asking
        <3>3. QED
            BY <1>1, <1>3, <2>1, <2>2, <3>1, <3>2 DEF Typed
    <2>3. CASE d # c
        BY <1>1, <1>2, <1>3, <2>1, <2>3, TypedStays DEF Tables
    <2>4. QED
        BY <2>2, <2>3
<1>6. QED
    BY <1>4, <1>5

(* The worker, and what may happen to it and to a connection: only what is *)
(* on the wire changes.                                                    *)
LEMMA WorkerTyped ==
    ASSUME TypeInv, UNCHANGED coordVars, head' \in Headers,
           wpc' \in {"down", "accept", "header", "body"},
           conn' \in Coordinators \cup {None},
           drops' \in 0..MaxDrops, crashes' \in 0..MaxCrashes,
           \A d \in Coordinators : Mail(d)'
    PROVE  Tables' /\ \A d \in Coordinators : Typed(d)'
<1>1. /\ Tables /\ \A d \in Coordinators : Typed(d)
    BY DEF TypeInv
<1>2. /\ cut' = cut /\ said' = said /\ fed' = fed /\ pos' = pos /\ off' = off
      /\ tok' = tok /\ hist' = hist /\ cpc' = cpc
    BY DEF coordVars, turnVars
<1>3. Tables'
    BY <1>1, <1>2 DEF Tables
<1>4. QED
    BY <1>1, <1>2, <1>3, TypedStays

(* Each step of the worker and of the network keeps the types.             *)
LEMMA AcceptTyped ==
    ASSUME TypeInv, Accept
    PROVE  Tables' /\ \A d \in Coordinators : Typed(d)'
<1>1. /\ Shapes /\ Tables /\ \A d \in Coordinators : Typed(d)
    BY DEF TypeInv, LogitInv, WireInv
<1>2. conn' \in Coordinators /\ wpc' = "header" /\ head' = head /\ wpc = "accept"
      /\ toW' = toW /\ drops' = drops /\ crashes' = crashes
    <2>1. Head(backlog) \in Coordinators
        BY <1>1, HeadTailProperties DEF Accept, Shapes
    <2>2. QED
        BY <2>1 DEF Accept, netVars, budget
<1>3. \A d \in Coordinators : Mail(d)'
    BY <1>1, <1>2 DEF Typed, Mail, Serving
<1>4. UNCHANGED coordVars
    BY DEF Accept
<1>5. QED
    BY <1>1, <1>2, <1>3, <1>4, WorkerTyped DEF Tables

LEMMA HangupTyped ==
    ASSUME TypeInv, Hangup, UNCHANGED coordVars, UNCHANGED budget
    PROVE  Tables' /\ \A d \in Coordinators : Typed(d)'
<1>1. /\ Shapes /\ Tables /\ \A d \in Coordinators : Typed(d)
    BY DEF TypeInv, LogitInv, WireInv
<1>2. toW' = [toW EXCEPT ![conn] = <<>>] /\ wpc' = "accept" /\ conn' = None
      /\ head' = NoHeader /\ drops' = drops /\ crashes' = crashes
    BY DEF Hangup, budget
<1>3. ASSUME NEW d \in Coordinators PROVE Mail(d)'
    <2>1. CASE d = conn
        BY <1>1, <1>2, <2>1 DEF Mail, Shapes
    <2>2. CASE d # conn
        BY <1>1, <1>2, <2>2 DEF Mail, Typed, Serving, Shapes
    <2>3. QED
        BY <2>1, <2>2
<1>4. NoHeader \in Headers
    BY DEF NoHeader, Headers
<1>5. QED
    BY <1>1, <1>2, <1>3, <1>4, WorkerTyped DEF Tables

LEMMA TakeHeaderTyped ==
    ASSUME TypeInv, TakeHeader
    PROVE  Tables' /\ \A d \in Coordinators : Typed(d)'
<1>1. /\ Shapes /\ Tables /\ \A d \in Coordinators : Typed(d)
    BY DEF TypeInv, LogitInv, WireInv
<1>2. wpc = "header" /\ conn \in Coordinators /\ Len(toW[conn]) >= 1
      /\ UNCHANGED coordVars /\ UNCHANGED budget
    BY <1>1 DEF TakeHeader, Readable, Shapes
<1>3. PICK h \in Headers : toW[conn] = <<h>> \/ \E b : toW[conn] = <<h, b>>
    <2>1. toW[conn] # <<>>
        BY <1>2, Pieces
    <2>2. QED
        BY <1>1, <1>2, <2>1 DEF Typed, Mail, Serving
<1>4. toW[conn][1] = h /\ (Tail(toW[conn]) = <<>> \/ \E b : Tail(toW[conn]) = <<b>>)
    <2>1. CASE toW[conn] = <<h>>
        BY <2>1, Pieces
    <2>2. ASSUME NEW b, toW[conn] = <<h, b>>
          PROVE  toW[conn][1] = h /\ Tail(toW[conn]) = <<b>>
        BY <2>2, Pieces
    <2>3. QED
        BY <1>3, <2>1, <2>2
<1>5. CASE Owned(h)
    <2>1. head' = h /\ wpc' = "body" /\ conn' = conn /\ toW' = [toW EXCEPT ![conn] = Tail(@)]
        BY <1>4, <1>5 DEF TakeHeader
    <2>2. ASSUME NEW d \in Coordinators PROVE Mail(d)'
        <3>1. CASE d = conn
            BY <1>1, <1>4, <2>1, <3>1 DEF Mail, Shapes, Serving
        <3>2. CASE d # conn
            BY <1>1, <2>1, <3>2 DEF Mail, Typed, Serving, Shapes
        <3>3. QED
            BY <3>1, <3>2
    <2>3. QED
        BY <1>1, <1>2, <1>3, <2>1, <2>2, WorkerTyped DEF Tables, budget
<1>6. CASE ~Owned(h)
    <2>1. Hangup
        BY <1>4, <1>6 DEF TakeHeader
    <2>2. QED
        BY <1>2, <2>1, HangupTyped
<1>7. QED
    BY <1>5, <1>6

LEMMA ServeTyped ==
    ASSUME TypeInv, Serve
    PROVE  Tables' /\ \A d \in Coordinators : Typed(d)'
<1>1. /\ Shapes /\ Tables /\ \A d \in Coordinators : Typed(d)
    BY DEF TypeInv, LogitInv, WireInv
<1>2. wpc = "body" /\ conn \in Coordinators /\ Len(toW[conn]) >= 1
      /\ UNCHANGED coordVars /\ UNCHANGED budget /\ wpc' = "header" /\ conn' = conn
      /\ head' = NoHeader /\ toW' = [toW EXCEPT ![conn] = Tail(@)]
    BY <1>1 DEF Serve, Readable, Shapes
<1>3. Tail(toW[conn]) = <<>>
    <2>1. toW[conn] # <<>>
        BY <1>2, Pieces
    <2>2. \E b : toW[conn] = <<b>>
        BY <1>1, <1>2, <2>1 DEF Typed, Mail, Serving
    <2>3. QED
        BY <2>2, Pieces
<1>4. ASSUME NEW d \in Coordinators PROVE Mail(d)'
    <2>1. CASE d = conn
        BY <1>1, <1>2, <1>3, <2>1 DEF Mail, Shapes
    <2>2. CASE d # conn
        BY <1>1, <1>2, <2>2 DEF Mail, Typed, Serving, Shapes
    <2>3. QED
        BY <2>1, <2>2
<1>5. NoHeader \in Headers
    BY DEF NoHeader, Headers
<1>6. QED
    BY <1>1, <1>2, <1>4, <1>5, WorkerTyped DEF Tables, budget

LEMMA DropTyped ==
    ASSUME TypeInv, NEW c \in Coordinators, Drop(c)
    PROVE  Tables' /\ \A d \in Coordinators : Typed(d)'
<1>1. /\ Shapes /\ Tables /\ \A d \in Coordinators : Typed(d)
    BY DEF TypeInv, LogitInv, WireInv
<1>2. PICK w \in Prefix(toW[c]) : toW' = [toW EXCEPT ![c] = w]
    BY DEF Drop
<1>3. /\ wpc' = wpc /\ conn' = conn /\ head' = head /\ crashes' = crashes
      /\ drops' = drops + 1 /\ drops < MaxDrops /\ UNCHANGED coordVars
    BY DEF Drop, workerVars
<1>4. ASSUME NEW d \in Coordinators PROVE Mail(d)'
    <2>1. CASE d = c
        <3>1. toW'[c] \in Prefix(toW[c])
            BY <1>1, <1>2 DEF Shapes
        <3>2. QED
            BY <1>1, <1>3, <2>1, <3>1, CutMail DEF Typed
    <2>2. CASE d # c
        BY <1>1, <1>2, <1>3, <2>2 DEF Mail, Typed, Serving, Shapes
    <2>3. QED
        BY <2>1, <2>2
<1>5. drops' \in 0..MaxDrops
    BY <1>1, <1>3, SizesAssumption DEF Tables
<1>6. QED
    BY <1>1, <1>3, <1>4, <1>5, WorkerTyped DEF Tables

LEMMA CrashTyped ==
    ASSUME TypeInv, Crash
    PROVE  Tables' /\ \A d \in Coordinators : Typed(d)'
<1>1. Tables
    BY DEF TypeInv
<1>2. /\ wpc' = "down" /\ conn' = None /\ head' = NoHeader /\ drops' = drops
      /\ crashes' = crashes + 1 /\ crashes < MaxCrashes /\ UNCHANGED coordVars
      /\ toW' = [c \in Coordinators |-> <<>>]
    BY DEF Crash
<1>3. \A d \in Coordinators : Mail(d)'
    BY <1>2 DEF Mail
<1>4. crashes' \in 0..MaxCrashes /\ NoHeader \in Headers
    BY <1>1, <1>2, SizesAssumption DEF Tables, NoHeader, Headers
<1>5. QED
    BY <1>1, <1>2, <1>3, <1>4, WorkerTyped DEF Tables

LEMMA RestartTyped ==
    ASSUME TypeInv, Restart \/ UNCHANGED vars
    PROVE  Tables' /\ \A d \in Coordinators : Typed(d)'
<1>1. /\ Tables /\ \A d \in Coordinators : Typed(d)
    BY DEF TypeInv
<1>2. /\ wpc' = wpc \/ (wpc = "down" /\ wpc' = "accept")
      /\ conn' = conn /\ head' = head /\ drops' = drops /\ crashes' = crashes
      /\ toW' = toW /\ UNCHANGED coordVars
    BY DEF Restart, vars, coordVars, netVars, workerVars, budget
<1>3. \A d \in Coordinators : Mail(d)'
    BY <1>1, <1>2 DEF Mail, Typed, Serving
<1>4. QED
    BY <1>1, <1>2, <1>3, WorkerTyped DEF Tables

(* Every step keeps the types.                                             *)
LEMMA TypeStep == Cap <= WorkerCap /\ TypeInv /\ [Next]_vars => TypeInv'
<1>1. Cap <= WorkerCap /\ TypeInv /\ [Next]_vars => LogitInv'
    BY LogitStep DEF TypeInv
<1> SUFFICES ASSUME TypeInv, [Next]_vars
             PROVE  Tables' /\ \A d \in Coordinators : Typed(d)'
    BY <1>1 DEF TypeInv
<1>2. ASSUME NEW c \in Coordinators, Coordinator(c)
      PROVE  Tables' /\ \A d \in Coordinators : Typed(d)'
    BY <1>2, ConnectTyped, BeginTurnTyped, SendBlockTyped, TakeReplyTyped, NoReplyTyped,
       PrintTokenTyped, EndTyped DEF Coordinator
<1>3. CASE Worker
    <2>1. CASE Gone
        BY <2>1, HangupTyped DEF Gone
    <2>2. QED
        BY <1>3, <2>1, AcceptTyped, TakeHeaderTyped, ServeTyped DEF Worker
<1>4. CASE Faults
    BY <1>4, DropTyped, EndTyped, CrashTyped DEF Faults
<1>5. CASE Restart \/ Waiting \/ UNCHANGED vars
    BY <1>5, RestartTyped DEF Waiting
<1>6. QED
    BY <1>2, <1>3, <1>4, <1>5 DEF Next

(* The inductive invariant of the types holds of every behaviour.          *)
LEMMA TypeInvHolds ==
    ASSUME Cap <= WorkerCap
    PROVE  Spec => []TypeInv
<1>1. Init => TypeInv
    BY WireInit, FeedingInit, TypeInvInit DEF LogitInv, TypeInv
<1>2. TypeInv /\ [Next]_vars => TypeInv'
    BY TypeStep
<1>3. QED
    BY <1>1, <1>2, PTL DEF Spec

(* The shapes of the state.                                                *)
THEOREM PipelineTypes ==
    ASSUME Cap <= WorkerCap
    PROVE  Spec => []TypeOK
<1>1. Spec => []TypeInv
    BY TypeInvHolds
<1>2. QED
    BY <1>1, TypeInvGives, PTL

-----------------------------------------------------------------------------
(* The refinement of one machine                                           *)

(* The next piece of a text in two parts.                                  *)
LEMMA NextPiece ==
    ASSUME NEW T, NEW e \in Seq(T), NEW ids \in Seq(T), NEW m \in 0..Len(ids),
           NEW n \in (m + 1)..Len(ids)
    PROVE  SubSeq(e \o ids, 1, Len(e) + m) \o SubSeq(ids, m + 1, n)
              = SubSeq(e \o ids, 1, Len(e) + n)
<1> DEFINE x == e \o ids
           k == Len(e) + m
           o == Len(e) + n
           i == k + 1
<1>1. x \in Seq(T) /\ Len(x) = Len(e) + Len(ids) /\ Len(e) \in Nat /\ Len(ids) \in Nat
    BY ConcatProperties, LenProperties
<1>2. /\ m \in Nat /\ n \in Nat /\ m < n /\ n <= Len(ids)
    BY <1>1
<1>3. /\ i \in (Len(e) + 1)..(Len(e) + Len(ids))
      /\ o \in (Len(e) + 1)..(Len(e) + Len(ids))
      /\ i - Len(e) = m + 1 /\ o - Len(e) = n /\ i = k + 1
      /\ k \in (1 - 1)..Len(x) /\ o \in k..Len(x) /\ 1 \in 1..(Len(x) + 1)
    BY <1>1, <1>2
<1> HIDE DEF i, k, o
<1>4. SubSeq(x, i, o) = SubSeq(ids, m + 1, n)
    <2>1. SubSeq(e \o ids, i, o) = SubSeq(ids, i - Len(e), o - Len(e))
        <3>1. /\ i \in (Len(e) + 1)..(Len(e) + Len(ids))
              /\ o \in (Len(e) + 1)..(Len(e) + Len(ids))
            BY <1>3
        <3>2. QED
            BY <3>1, SubSeqOfConcat2
    <2>2. QED
        BY <1>3, <2>1, Zenon
<1> HIDE DEF x
<1>5. SubSeq(x, 1, k) \o SubSeq(x, k + 1, o) = SubSeq(x, 1, o)
    BY <1>1, <1>3, ConcatAdjacentSubSeq
<1>6. SubSeq(x, 1, k) \o SubSeq(ids, m + 1, n) = SubSeq(x, 1, o)
    BY <1>3, <1>4, <1>5, Zenon
<1>7. QED
    BY <1>6 DEF x, k, o

(* The first part of a text in two parts.                                  *)
LEMMA FirstPart ==
    ASSUME NEW T, NEW e \in Seq(T), NEW ids \in Seq(T)
    PROVE  SubSeq(e \o ids, 1, Len(e)) = e
<1>1. /\ e \o ids \in Seq(T) /\ Len(e) \in Nat /\ Len(ids) \in Nat
      /\ \A i \in 1..(Len(e) + Len(ids)) :
            (e \o ids)[i] = IF i <= Len(e) THEN e[i] ELSE ids[i - Len(e)]
    BY ConcatProperties, LenProperties
<1>2. Len(e \o ids) = Len(e) + Len(ids)
    BY ConcatProperties
<1> DEFINE x == e \o ids
<1>3. Len(e) \in 0..Len(x) /\ IsSequence(x)
    BY <1>1, <1>2 DEF IsSequence
<1>4. \A i \in 1..Len(e) : x[i] = e[i] /\ x[i] \in T
    BY <1>1, ElementOfSeq
<1> HIDE DEF x
<1>5. /\ SubSeq(x, 1, Len(e)) \in Seq(T)
      /\ \A i \in 1..(Len(e) - 1 + 1) : SubSeq(x, 1, Len(e))[i] = x[1 + i - 1]
    BY <1>1, <1>4, SubSeqProperties
<1>6. Len(SubSeq(x, 1, Len(e))) = Len(e)
    BY <1>3, Beginnings
<1>7. \A i \in 1..Len(e) : SubSeq(x, 1, Len(e))[i] = e[i]
    <2>1. \A i \in 1..Len(e) : i \in 1..(Len(e) - 1 + 1) /\ 1 + i - 1 = i
        BY <1>1
    <2>2. QED
        BY <1>4, <1>5, <2>1
<1>8. SubSeq(x, 1, Len(e)) = e
    BY <1>5, <1>6, <1>7, SeqEqual
<1>9. QED
    BY <1>8 DEF x

(* A sequence without its last element, and with another one.              *)
LEMMA EarlierFacts ==
    ASSUME NEW T, NEW s \in Seq(T), NEW a \in T
    PROVE  /\ One!Earlier(Append(s, a)) = s
           /\ s # <<>> => One!Earlier([s EXCEPT ![Len(s)] = a]) = One!Earlier(s)
<1>0. Len(s) \in Nat /\ \A i \in 1..Len(s) : s[i] \in T
    BY LenProperties, ElementOfSeq
<1>1. One!Earlier(Append(s, a)) = s
    <2> DEFINE x == Append(s, a)
    <2>1. x \in Seq(T) /\ Len(x) = Len(s) + 1 /\ \A i \in 1..Len(s) : x[i] = s[i]
        BY AppendProperties
    <2> HIDE DEF x
    <2>2. Len(s) \in 0..Len(x) /\ Len(x) - 1 = Len(s) /\ IsSequence(x)
        BY <1>0, <2>1 DEF IsSequence
    <2>3. /\ SubSeq(x, 1, Len(s)) \in Seq(T)
          /\ \A i \in 1..(Len(s) - 1 + 1) : SubSeq(x, 1, Len(s))[i] = x[1 + i - 1]
        BY <1>0, <2>1, SubSeqProperties
    <2>4. Len(SubSeq(x, 1, Len(s))) = Len(s)
        BY <2>2, Beginnings
    <2>5. \A i \in 1..Len(s) : i \in 1..(Len(s) - 1 + 1) /\ 1 + i - 1 = i
        BY <1>0
    <2>6. \A i \in 1..Len(s) : SubSeq(x, 1, Len(s))[i] = s[i]
        BY <2>1, <2>3, <2>5
    <2>7. SubSeq(x, 1, Len(s)) = s
        BY <2>3, <2>4, <2>6, SeqEqual
    <2>8. QED
        BY <2>2, <2>7 DEF One!Earlier, x
<1>2. ASSUME s # <<>>
      PROVE  One!Earlier([s EXCEPT ![Len(s)] = a]) = One!Earlier(s)
    <2> DEFINE x == [s EXCEPT ![Len(s)] = a]
    <2>1. Len(s) \in 1..Len(s)
        BY <1>0, <1>2, EmptySeq
    <2>2. /\ x \in Seq(T) /\ Len(x) = Len(s)
          /\ \A j \in 1..Len(s) : x[j] = IF j = Len(s) THEN a ELSE s[j]
        BY <2>1, ExceptSeq
    <2> HIDE DEF x
    <2>3. PICK n \in Nat : n = Len(s) - 1
        BY <1>0, <2>1
    <2>4. \A i \in 1..n : x[i] = s[i] /\ s[i] \in T /\ i \in 1..(n - 1 + 1) /\ 1 + i - 1 = i
        BY <1>0, <2>2, <2>3
    <2>5. /\ SubSeq(x, 1, n) \in Seq(T) /\ SubSeq(s, 1, n) \in Seq(T)
          /\ \A i \in 1..(n - 1 + 1) : SubSeq(x, 1, n)[i] = x[1 + i - 1]
          /\ \A i \in 1..(n - 1 + 1) : SubSeq(s, 1, n)[i] = s[1 + i - 1]
        <3>1. \A i \in 1..n : x[i] \in T /\ s[i] \in T
            BY <2>4
        <3>2. QED
            BY <3>1, SubSeqProperties
    <2>6. Len(SubSeq(x, 1, n)) = n /\ Len(SubSeq(s, 1, n)) = n
        <3>1. n \in 0..Len(s) /\ n \in 0..Len(x) /\ IsSequence(s) /\ IsSequence(x)
            BY <1>0, <2>2, <2>3 DEF IsSequence
        <3>2. QED
            BY <3>1, Beginnings
    <2>7. \A i \in 1..n : SubSeq(x, 1, n)[i] = SubSeq(s, 1, n)[i]
        BY <2>4, <2>5
    <2>8. SubSeq(x, 1, n) = SubSeq(s, 1, n)
        BY <2>5, <2>6, <2>7, SeqEqual
    <2>9. QED
        BY <2>2, <2>3, <2>8 DEF One!Earlier, x
<1>3. QED
    BY <1>1, <1>2

(* The context inside a turn, after the answer s[Len(s)] so far.           *)
LEMMA ContextInTurn ==
    ASSUME NEW c \in Coordinators, NEW s \in Seq(Contexts), s # <<>>,
           Len(s) <= Len(TurnsOf[c]), NEW x \in Contexts,
           x = One!Context(One!Earlier(s), c),
           NEW t, t = TurnsOf[c][Len(s)], One!Accepted(t, Len(x))
    PROVE  /\ t.keep \in 0..Len(x) /\ t.ids \in Contexts /\ t.keep + Len(t.ids) <= Cap
           /\ SubSeq(x, 1, t.keep) \in Contexts /\ Len(SubSeq(x, 1, t.keep)) = t.keep
           /\ s[Len(s)] \in Contexts
           /\ One!Context(s, c) = (SubSeq(x, 1, t.keep) \o t.ids) \o s[Len(s)]
<1>1. Len(s) \in 1..Len(s) /\ Len(s) \in 1..Len(TurnsOf[c])
    <2>1. Len(s) \in Nat /\ Len(s) # 0 /\ Len(TurnsOf[c]) \in Nat
        BY TurnTypes, EmptySeq, LenProperties
    <2>2. QED
        BY <2>1
<1>2. s[Len(s)] \in Contexts
    BY <1>1, ElementOfSeq
<1>3. t.keep \in Nat /\ t.ids \in Seq(Vocab)
    BY <1>1, TurnTypes
<1>4. t.ids \in Contexts
    BY <1>3, SeqMonotonic DEF Contexts
<1>5. t.keep \in 0..Len(x) /\ t.keep + Len(t.ids) <= Cap
    BY DEF One!Accepted
<1>6. SubSeq(x, 1, t.keep) \in Contexts /\ Len(SubSeq(x, 1, t.keep)) = t.keep
    <2>1. IsSequence(x) /\ Len(x) \in Nat
        BY LenProperties DEF IsSequence, Contexts
    <2>2. \A i \in 1..t.keep : x[i] \in Vocab \cup {NoToken}
        BY <1>3, <1>5, <2>1, ElementOfSeq DEF Contexts
    <2>3. SubSeq(x, 1, t.keep) \in Contexts
        BY <1>3, <2>2, SubSeqProperties DEF Contexts
    <2>4. QED
        BY <1>5, <2>1, <2>3, Beginnings
<1>7. One!Context(s, c) = After(x, t, s[Len(s)])
    <2>1. IsSequence(s)
        BY DEF IsSequence
    <2>2. QED
        BY <2>1, ContextFacts
<1>8. QED
    BY <1>2, <1>4, <1>5, <1>6, <1>7 DEF After

-----------------------------------------------------------------------------
(* What a coordinator whose connection stands has printed and fed.         *)
Sound(c) == link[c] # "down" /\ ~Over(c)
Known(c) == One!Context(said[c], c)
Base(c) == One!Context(One!Earlier(said[c]), c)
Rested(c) ==
    /\ One!TurnIsOver(said[c], c)
    /\ c \notin Runs \/ said[c] = <<>> =>
          Len(Known(c)) = pos[c] /\ SubSeq(fed[c], 1, pos[c]) = Known(c)
Prompted(c) ==
    /\ Printed(c) = <<>> /\ pos[c] = Turn(c).keep
    /\ SubSeq(fed[c], 1, Consumed(c)) = SubSeq(Known(c), 1, Consumed(c))
    /\ cpc[c] = "await" => fed[c] = SubSeq(Known(c), 1, Reach(c))
Stands(c) ==
    /\ cpc[c] = "off" => said[c] = <<>>
    /\ cpc[c] = "idle" => Rested(c)
    /\ cpc[c] \in {"block", "await", "decode"} =>
          Base(c) \in Contexts /\ One!Accepted(Turn(c), Len(Base(c)))
    /\ Asking(c) => Prompted(c)
    /\ Stepping(c) => /\ fed[c] = Known(c) /\ Printed(c) # <<>>
                      /\ c \in Runs => LastSaid(c) # FirstStop
    /\ cpc[c] = "decode" =>
          /\ Len(Known(c)) = pos[c] /\ SubSeq(fed[c], 1, pos[c]) = Known(c)
          /\ tok[c] = Best(Known(c)) /\ ~One!Stopped(Printed(c))
Agrees(c) == Sound(c) => Stands(c)
AgreeInv == TypeInv /\ \A c \in Coordinators : Agrees(c)

(* A coordinator that a step leaves alone.                                 *)
LEMMA AgreesStays ==
    ASSUME NEW c \in Coordinators, Agrees(c), cut' = cut, cpc'[c] = cpc[c],
           said'[c] = said[c], pos'[c] = pos[c], off'[c] = off[c], fed'[c] = fed[c],
           tok'[c] = tok[c], link'[c] # "down" => link[c] # "down"
    PROVE  Agrees(c)'
<1>1. Turn(c)' = Turn(c) /\ Printed(c)' = Printed(c) /\ LastSaid(c)' = LastSaid(c)
    BY DEF Turn, Printed, LastSaid
<1>2. InPrefill(c)' = InPrefill(c) /\ BlockEnd(c)' = BlockEnd(c)
    BY <1>1 DEF InPrefill, BlockEnd
<1>3. Asking(c)' = Asking(c) /\ Stepping(c)' = Stepping(c) /\ Reach(c)' = Reach(c)
      /\ Consumed(c)' = Consumed(c)
    BY <1>2 DEF Asking, Stepping, Reach, Consumed
<1>4. Known(c)' = Known(c) /\ Base(c)' = Base(c)
    BY DEF Known, Base
<1>5. Rested(c)' = Rested(c) /\ Prompted(c)' = Prompted(c)
    BY <1>1, <1>3, <1>4 DEF Rested, Prompted
<1>6. Sound(c)' => Sound(c)
    BY DEF Sound, Over
<1>7. QED
    BY <1>1, <1>3, <1>4, <1>5, <1>6 DEF Agrees, Stands

(* The initial state, and a coordinator that is lost.                      *)
LEMMA AgreesInit == Init => \A c \in Coordinators : Agrees(c)
BY DEF Init, Agrees, Stands, Asking, Stepping

LEMMA Lost ==
    ASSUME NEW c, link'[c] = "down" \/ cpc'[c] \in {"ended", "failed"}
    PROVE  Agrees(c)'
BY DEF Agrees, Sound, Over

(* Each step of a coordinator keeps the agreement with one machine.        *)
LEMMA ConnectAgrees ==
    ASSUME AgreeInv, NEW c \in Coordinators, Connect(c)
    PROVE  \A d \in Coordinators : Agrees(d)'
<1>1. /\ Shapes /\ Tables /\ Own(c) /\ Wire(c) /\ \A d \in Coordinators : Agrees(d)
    BY DEF AgreeInv, TypeInv, LogitInv, WireInv, Feeding
<1>2. /\ cut' = cut /\ said' = said /\ fed' = fed /\ pos' = pos /\ off' = off /\ tok' = tok
      /\ cpc[c] = "off" /\ cpc' \in {[cpc EXCEPT ![c] = "failed"], [cpc EXCEPT ![c] = "idle"]}
      /\ link' \in {link, [link EXCEPT ![c] = "up"]}
    BY DEF Connect, turnVars
<1>3. ASSUME NEW d \in Coordinators, d # c PROVE Agrees(d)'
    <2>1. cpc'[d] = cpc[d] /\ link'[d] = link[d]
        BY <1>1, <1>2, <1>3 DEF Tables, Shapes
    <2>2. QED
        BY <1>1, <1>2, <2>1, AgreesStays
<1>4. Agrees(c)'
    <2>1. CASE cpc'[c] = "failed"
        BY <2>1, Lost
    <2>2. CASE cpc'[c] = "idle"
        <3>1. link[c] = "none"
            BY <1>1, <1>2 DEF Wire, Shapes
        <3>2. said[c] = <<>>
            BY <1>1, <1>2, <3>1 DEF Agrees, Sound, Over, Stands
        <3>3. Known(c)' = <<>>
            BY <1>2, <3>2, ContextFacts DEF Known
        <3>4. pos'[c] = 0 /\ Len(<<>>) = 0 /\ SubSeq(fed'[c], 1, 0) = <<>>
            BY <1>1, <1>2, SubSeqEmpty DEF Own, Room
        <3>5. One!TurnIsOver(said[c], c)
            BY <3>2 DEF One!TurnIsOver
        <3>6. Rested(c)'
            BY <1>2, <3>2, <3>3, <3>4, <3>5 DEF Rested
        <3>7. QED
            BY <2>2, <3>6 DEF Agrees, Stands, Asking, Stepping
    <2>3. QED
        BY <1>1, <1>2, <2>1, <2>2 DEF Tables
<1>5. QED
    BY <1>3, <1>4

LEMMA BeginTurnAgrees ==
    ASSUME AgreeInv, NEW c \in Coordinators, BeginTurn(c)
    PROVE  \A d \in Coordinators : Agrees(d)'
<1>1. /\ Shapes /\ Tables /\ Own(c) /\ Wire(c) /\ \A d \in Coordinators : Agrees(d)
    BY DEF AgreeInv, TypeInv, LogitInv, WireInv, Feeding
<1> DEFINE t == TurnsOf[c][Len(said[c]) + 1]
           s == Append(said[c], <<>>)
<1>2. /\ cpc[c] = "idle" /\ Len(said[c]) < Len(TurnsOf[c])
      /\ said' = [said EXCEPT ![c] = s]
      /\ \/ /\ Accepted(t, pos[c]) /\ cpc' = [cpc EXCEPT ![c] = "block"]
            /\ pos' = [pos EXCEPT ![c] = t.keep] /\ off' = [off EXCEPT ![c] = 0]
         \/ ~Accepted(t, pos[c]) /\ cpc' = cpc /\ pos' = pos /\ off' = off
      /\ cut' = cut /\ link' = link /\ fed' = fed /\ tok' = tok
    BY DEF BeginTurn, netVars, workerVars, budget
<1>3. ASSUME NEW d \in Coordinators, d # c PROVE Agrees(d)'
    <2>1. cpc'[d] = cpc[d] /\ said'[d] = said[d] /\ pos'[d] = pos[d] /\ off'[d] = off[d]
        BY <1>1, <1>2, <1>3 DEF Tables, Shapes
    <2>2. QED
        BY <1>1, <1>2, <2>1, AgreesStays
<1>4. ASSUME link[c] # "down" PROVE Agrees(c)'
    <2>1. Rested(c)
        BY <1>1, <1>2, <1>4 DEF Agrees, Sound, Over, Stands
    <2>2. said[c] \in Seq(Contexts) /\ fed[c] \in Contexts /\ <<>> \in Contexts
          /\ Len(said[c]) \in Nat /\ Len(TurnsOf[c]) \in Nat /\ pos[c] \in Nat
        BY <1>1, EmptySeq, LenProperties, TurnTypes DEF Tables, Contexts, Shapes
    <2>3. c \notin Runs \/ said[c] = <<>>
        <3>1. c \in Runs => Len(TurnsOf[c]) = 1
            BY TurnsAssumption
        <3>2. c \in Runs => Len(said[c]) = 0
            BY <1>2, <2>2, <3>1
        <3>3. QED
            BY <2>2, <3>2, EmptySeq
    <2>4. Len(Known(c)) = pos[c] /\ SubSeq(fed[c], 1, pos[c]) = Known(c)
        BY <2>1, <2>3 DEF Rested
    <2>5. IsSequence(fed[c]) /\ pos[c] \in 0..Len(fed[c])
        <3>1. Consumed(c) = pos[c] /\ Len(fed[c]) \in Nat
            BY <1>2, <2>2, LenProperties DEF Consumed, Asking, Contexts
        <3>2. QED
            BY <1>1, <2>2, <3>1 DEF Own, Eaten
    <2>6. Known(c) \in Contexts
        <3>1. \A i \in 1..pos[c] : fed[c][i] \in Vocab \cup {NoToken}
            BY <2>2, <2>5, ElementOfSeq, LenProperties DEF Contexts
        <3>2. SubSeq(fed[c], 1, pos[c]) \in Contexts
            BY <2>2, <3>1, SubSeqProperties DEF Contexts
        <3>3. QED
            BY <2>4, <3>2
    <2>7. /\ s \in Seq(Contexts) /\ s # <<>> /\ Len(s) = Len(said[c]) + 1
          /\ s[Len(s)] = <<>> /\ One!Earlier(s) = said[c]
        <3>1. One!Earlier(s) = said[c]
            BY <2>2, EarlierFacts
        <3>2. /\ s \in Seq(Contexts) /\ s # <<>> /\ Len(s) = Len(said[c]) + 1
              /\ s[Len(said[c]) + 1] = <<>>
            BY <2>2, AppendProperties
        <3> HIDE DEF s
        <3>3. QED
            BY <3>1, <3>2
    <2>8. said'[c] = s
        BY <1>1, <1>2 DEF Tables
    <2> HIDE DEF s
    <2>9. Turn(c)' = t /\ Printed(c)' = <<>> /\ Base(c)' = Known(c)
          /\ Known(c)' = One!Context(s, c)
        BY <2>7, <2>8 DEF Turn, Printed, Base, Known
    <2>10. One!Accepted(t, pos[c]) = Accepted(t, pos[c])
        BY DEF One!Accepted, Accepted
    <2>11. CASE ~Accepted(t, pos[c])
        <3>1. cpc' = cpc /\ pos' = pos
            BY <1>2, <2>11
        <3>2. One!TurnIsOver(s, c)
            BY <2>4, <2>7, <2>10, <2>11 DEF One!TurnIsOver, Known
        <3>3. One!Context(s, c) = Known(c)
            <4>1. IsSequence(s)
                BY <2>7 DEF IsSequence
            <4>2. One!Context(s, c) = After(Known(c), t, <<>>)
                BY <2>7, <4>1, ContextFacts DEF Known
            <4>3. QED
                BY <2>4, <2>10, <2>11, <4>2 DEF After
        <3>4. Rested(c)'
            BY <1>2, <2>4, <2>8, <2>9, <3>1, <3>2, <3>3 DEF Rested
        <3>5. QED
            BY <1>2, <3>1, <3>4 DEF Agrees, Stands, Asking, Stepping
    <2>12. CASE Accepted(t, pos[c])
        <3>1. cpc'[c] = "block" /\ pos'[c] = t.keep /\ off'[c] = 0
            BY <1>1, <1>2, <2>12 DEF Tables, Shapes
        <3>2. /\ t.keep \in 0..Len(Known(c)) /\ t.ids \in Contexts
              /\ SubSeq(Known(c), 1, t.keep) \in Contexts
              /\ Len(SubSeq(Known(c), 1, t.keep)) = t.keep
              /\ One!Context(s, c) = (SubSeq(Known(c), 1, t.keep) \o t.ids) \o s[Len(s)]
            <4>1. Len(s) <= Len(TurnsOf[c]) /\ t = TurnsOf[c][Len(s)]
                BY <1>2, <2>2, <2>7
            <4>2. Known(c) = One!Context(One!Earlier(s), c)
                BY <2>7 DEF Known
            <4>3. One!Accepted(t, Len(Known(c)))
                BY <2>4, <2>10, <2>12
            <4> HIDE DEF t
            <4>4. PICK x \in Contexts : x = Known(c)
                BY <2>6
            <4>5. PICK u, r : u = t /\ r = s
                OBVIOUS
            <4>6. /\ r \in Seq(Contexts) /\ r # <<>> /\ Len(r) <= Len(TurnsOf[c])
                  /\ x = One!Context(One!Earlier(r), c)
                  /\ u = TurnsOf[c][Len(r)] /\ One!Accepted(u, Len(x))
                BY <2>7, <4>1, <4>2, <4>3, <4>4, <4>5, Zenon
            <4>7. /\ u.keep \in 0..Len(x) /\ u.ids \in Contexts
                  /\ SubSeq(x, 1, u.keep) \in Contexts /\ Len(SubSeq(x, 1, u.keep)) = u.keep
                BY <4>6, ContextInTurn
            <4>8. One!Context(r, c) = (SubSeq(x, 1, u.keep) \o u.ids) \o r[Len(r)]
                <5>1. IsSequence(r)
                    BY <4>6 DEF IsSequence
                <5>2. One!Context(r, c) = After(x, u, r[Len(r)])
                    BY <4>6, <5>1, ContextFacts
                <5>3. QED
                    BY <4>6, <5>2 DEF After
            <4>9. QED
                BY <4>4, <4>5, <4>7, <4>8, Zenon
        <3> DEFINE e == SubSeq(Known(c), 1, t.keep)
        <3>3. Known(c)' = e \o t.ids
            <4>1. e \o t.ids \in Contexts
                BY <3>2, ConcatProperties DEF Contexts
            <4>2. QED
                BY <2>7, <2>9, <3>2, <4>1, ConcatEmptySeq DEF Contexts
        <3>4. t.keep \in Nat /\ t.keep \in 0..pos[c]
            <4>1. t.keep \in 0..pos[c]
                BY <2>4, <3>2
            <4>2. QED
                BY <2>2, <4>1
        <3>5. Consumed(c)' = t.keep
            BY <3>1, <3>4 DEF Consumed
        <3>6. SubSeq(fed[c], 1, t.keep) = e
            <4>1. CASE t.keep = 0
                BY <4>1, SubSeqEmpty
            <4>2. CASE t.keep # 0
                <5>1. t.keep \in 1..pos[c]
                    BY <2>2, <3>4, <4>2
                <5>2. SubSeq(SubSeq(fed[c], 1, pos[c]), 1, t.keep) = SubSeq(fed[c], 1, t.keep)
                    BY <2>5, <5>1, Beginnings
                <5>3. QED
                    BY <2>4, <5>2
            <4>3. QED
                BY <4>1, <4>2
        <3>7. SubSeq(Known(c)', 1, t.keep) = e
            BY <3>2, <3>3, FirstPart DEF Contexts
        <3>8. Prompted(c)'
            BY <1>2, <2>9, <3>1, <3>5, <3>6, <3>7 DEF Prompted
        <3>9. Base(c)' \in Contexts /\ One!Accepted(Turn(c), Len(Base(c)))'
            BY <2>4, <2>6, <2>9, <2>10, <2>12
        <3>10. QED
            BY <3>1, <3>8, <3>9 DEF Agrees, Stands, Stepping
    <2>13. QED
        BY <2>11, <2>12
<1>5. QED
    BY <1>2, <1>3, <1>4, Lost

(* The context in a turn, and while the prompt is sent.                    *)
LEMMA InTurn ==
    ASSUME TypeInv, NEW c \in Coordinators, Stands(c),
           cpc[c] \in {"block", "await", "decode"}
    PROVE  /\ said[c] \in Seq(Contexts) /\ said[c] # <<>> /\ Printed(c) \in Contexts
           /\ Turn(c).ids \in Contexts /\ Turn(c).keep + Len(Turn(c).ids) <= Cap
           /\ SubSeq(Base(c), 1, Turn(c).keep) \in Contexts
           /\ Len(SubSeq(Base(c), 1, Turn(c).keep)) = Turn(c).keep
           /\ Known(c) = (SubSeq(Base(c), 1, Turn(c).keep) \o Turn(c).ids) \o Printed(c)
           /\ Known(c) \in Contexts
           /\ Len(Known(c)) = Turn(c).keep + Len(Turn(c).ids) + Len(Printed(c))
<1>1. Shapes /\ Tables /\ Place(c)
    BY DEF TypeInv, LogitInv, WireInv
<1>2. Base(c) \in Contexts /\ One!Accepted(Turn(c), Len(Base(c)))
    BY DEF Stands
<1>3. said[c] \in Seq(Contexts) /\ Len(said[c]) >= 1 /\ Len(said[c]) <= Len(TurnsOf[c])
    BY <1>1 DEF Tables, Place
<1>4. said[c] # <<>>
    BY <1>3, EmptySeq
<1>5. /\ Turn(c).keep \in 0..Len(Base(c)) /\ Turn(c).ids \in Contexts
      /\ Turn(c).keep + Len(Turn(c).ids) <= Cap
      /\ SubSeq(Base(c), 1, Turn(c).keep) \in Contexts
      /\ Len(SubSeq(Base(c), 1, Turn(c).keep)) = Turn(c).keep
      /\ Printed(c) \in Contexts
      /\ Known(c) = (SubSeq(Base(c), 1, Turn(c).keep) \o Turn(c).ids) \o Printed(c)
    <2>1. Turn(c) = TurnsOf[c][Len(said[c])] /\ Printed(c) = said[c][Len(said[c])]
          /\ Base(c) = One!Context(One!Earlier(said[c]), c)
          /\ Known(c) = One!Context(said[c], c)
        BY DEF Turn, Printed, Known, Base
    <2>2. PICK t : t = TurnsOf[c][Len(said[c])]
        OBVIOUS
    <2>3. PICK x \in Contexts : x = Base(c)
        BY <1>2
    <2>4. PICK s \in Seq(Contexts) : s = said[c]
        BY <1>3
    <2>5. /\ t.keep \in 0..Len(x) /\ t.ids \in Contexts /\ t.keep + Len(t.ids) <= Cap
          /\ SubSeq(x, 1, t.keep) \in Contexts /\ Len(SubSeq(x, 1, t.keep)) = t.keep
          /\ s[Len(s)] \in Contexts
          /\ One!Context(s, c) = (SubSeq(x, 1, t.keep) \o t.ids) \o s[Len(s)]
        <3>1. s # <<>> /\ Len(s) <= Len(TurnsOf[c]) /\ t = TurnsOf[c][Len(s)]
            BY <1>3, <1>4, <2>2, <2>4
        <3>2. x = One!Context(One!Earlier(s), c)
            BY <2>1, <2>3, <2>4
        <3>3. One!Accepted(t, Len(x))
            BY <1>2, <2>1, <2>2, <2>3
        <3>4. /\ t.keep \in 0..Len(x) /\ t.ids \in Contexts /\ t.keep + Len(t.ids) <= Cap
              /\ SubSeq(x, 1, t.keep) \in Contexts /\ Len(SubSeq(x, 1, t.keep)) = t.keep
              /\ s[Len(s)] \in Contexts
            BY <3>1, <3>2, <3>3, ContextInTurn
        <3>5. One!Context(s, c) = (SubSeq(x, 1, t.keep) \o t.ids) \o s[Len(s)]
            <4>1. IsSequence(s)
                BY DEF IsSequence
            <4>2. One!Context(s, c) = After(x, t, s[Len(s)])
                BY <3>1, <3>2, <4>1, ContextFacts
            <4>3. QED
                BY <3>3, <4>2 DEF After
        <3>6. QED
            BY <3>4, <3>5, Zenon
    <2>6. QED
        BY <2>1, <2>2, <2>3, <2>4, <2>5
<1> DEFINE e == SubSeq(Base(c), 1, Turn(c).keep)
<1>6. e \o Turn(c).ids \in Contexts /\ Len(e \o Turn(c).ids) = Len(e) + Len(Turn(c).ids)
    BY <1>5, ConcatProperties DEF Contexts
<1> DEFINE i == e \o Turn(c).ids
<1>7. i \o Printed(c) \in Contexts /\ Len(i \o Printed(c)) = Len(i) + Len(Printed(c))
    BY <1>5, <1>6, ConcatProperties DEF Contexts
<1>8. QED
    BY <1>3, <1>4, <1>5, <1>6, <1>7

(* Where a coordinator is that sends a block or waits for one.             *)
LEMMA InPrompt ==
    ASSUME TypeInv, NEW c \in Coordinators, Stands(c), Asking(c)
    PROVE  /\ Turn(c).ids \in Contexts
           /\ \E e \in Contexts : Len(e) = pos[c] /\ Known(c) = e \o Turn(c).ids
           /\ Known(c) \in Contexts /\ Len(Known(c)) = pos[c] + Len(Turn(c).ids)
<1>1. Printed(c) = <<>> /\ pos[c] = Turn(c).keep
    BY DEF Stands, Prompted
<1> DEFINE e == SubSeq(Base(c), 1, Turn(c).keep)
<1>2. /\ Turn(c).ids \in Contexts /\ e \in Contexts /\ Len(e) = Turn(c).keep
      /\ Known(c) = (e \o Turn(c).ids) \o Printed(c) /\ Known(c) \in Contexts
    BY InTurn DEF Asking
<1> HIDE DEF e
<1>3. e \o Turn(c).ids \in Contexts /\ Len(e \o Turn(c).ids) = Len(e) + Len(Turn(c).ids)
    BY <1>2, ConcatProperties DEF Contexts
<1>4. Known(c) = e \o Turn(c).ids
    BY <1>1, <1>2, <1>3, ConcatEmptySeq DEF Contexts
<1>5. QED
    BY <1>1, <1>2, <1>3, <1>4

LEMMA SendBlockAgrees ==
    ASSUME AgreeInv, NEW c \in Coordinators, SendBlock(c)
    PROVE  \A d \in Coordinators : Agrees(d)'
<1>1. /\ Shapes /\ Tables /\ Place(c) /\ Own(c) /\ TypeInv /\ DOMAIN fed = Coordinators
      /\ \A d \in Coordinators : Agrees(d)
    BY DEF AgreeInv, TypeInv, LogitInv, WireInv, Feeding
<1> DEFINE ids == Turn(c).ids
           base == pos[c] + off[c]
           piece == SubSeq(ids, off[c] + 1, BlockEnd(c))
<1>2. /\ cpc[c] = "block" /\ cpc' = [cpc EXCEPT ![c] = "await"] /\ tok' = tok
      /\ cut' = cut /\ said' = said /\ pos' = pos /\ off' = off /\ link' = link
      /\ fed' = [fed EXCEPT ![c] = SubSeq(fed[c], 1, base) \o piece]
    BY DEF SendBlock, Ask
<1>3. ASSUME NEW d \in Coordinators, d # c PROVE Agrees(d)'
    <2>1. cpc'[d] = cpc[d] /\ fed'[d] = fed[d]
        BY <1>1, <1>2, <1>3 DEF Tables
    <2>2. QED
        BY <1>1, <1>2, <2>1, AgreesStays
<1>4. ASSUME link[c] # "down" PROVE Agrees(c)'
    <2>1. Stands(c) /\ InPrefill(c) /\ Asking(c)
        BY <1>1, <1>2, <1>4 DEF Agrees, Sound, Over, Place, Asking
    <2>2. Prompted(c) /\ Consumed(c) = base
        BY <2>1 DEF Stands, Consumed
    <2>3. ids \in Contexts /\ Known(c) \in Contexts
        BY <1>1, <2>1, InPrompt
    <2>4. PICK e \in Contexts : Len(e) = pos[c] /\ Known(c) = e \o ids
        BY <1>1, <2>1, InPrompt
    <2>5. /\ off[c] \in Nat /\ pos[c] \in Nat /\ Len(ids) \in Nat
          /\ BlockEnd(c) \in (off[c] + 1)..Len(ids)
        BY <1>1, <1>2, <2>1, TurnFacts DEF Place
    <2>6. fed'[c] = SubSeq(fed[c], 1, base) \o piece
        BY <1>1, <1>2
    <2>7. SubSeq(fed[c], 1, base) = SubSeq(Known(c), 1, base)
        BY <2>2 DEF Prompted
    <2>8. fed'[c] = SubSeq(Known(c), 1, pos[c] + BlockEnd(c))
        <3>1. off[c] \in 0..Len(ids) /\ BlockEnd(c) \in (off[c] + 1)..Len(ids)
            BY <2>5
        <3> HIDE DEF ids
        <3>2. SubSeq(e \o ids, 1, Len(e) + off[c]) \o SubSeq(ids, off[c] + 1, BlockEnd(c))
                = SubSeq(e \o ids, 1, Len(e) + BlockEnd(c))
            BY <2>3, <3>1, NextPiece DEF Contexts
        <3>3. QED
            BY <2>4, <2>6, <2>7, <3>2
    <2>9. Turn(c)' = Turn(c) /\ Printed(c)' = Printed(c) /\ Known(c)' = Known(c)
          /\ Base(c)' = Base(c)
        BY <1>2 DEF Turn, Printed, Known, Base
    <2>10. InPrefill(c)' /\ BlockEnd(c)' = BlockEnd(c)
        BY <1>2, <2>1, <2>9 DEF InPrefill, BlockEnd
    <2>11. cpc'[c] = "await"
        BY <1>1, <1>2 DEF Tables
    <2>12. Consumed(c)' = base /\ Reach(c)' = pos[c] + BlockEnd(c)
        BY <1>2, <2>10, <2>11 DEF Consumed, Asking, Reach
    <2>13. SubSeq(fed'[c], 1, base) = SubSeq(fed[c], 1, base)
        <3>1. IsSequence(piece)
            <4>1. \A j \in (off[c] + 1)..BlockEnd(c) : ids[j] \in Vocab \cup {NoToken}
                BY <2>3, <2>5, ElementOfSeq DEF Contexts
            <4>2. off[c] + 1 \in Int /\ BlockEnd(c) \in Int
                BY <2>5
            <4>3. piece \in Seq(Vocab \cup {NoToken})
                BY <4>1, <4>2, SubSeqProperties
            <4>4. QED
                BY <4>3 DEF IsSequence
        <3>2. IsSequence(fed[c]) /\ base \in 0..Len(fed[c]) /\ base \in Nat
            <4>1. IsSequence(fed[c]) /\ base <= Len(fed[c]) /\ Len(fed[c]) \in Nat
                BY <1>1, <2>2, SequenceFacts DEF Own, Eaten
            <4>2. QED
                BY <2>5, <4>1
        <3> HIDE DEF piece, base
        <3>3. \A q \in 1..base : SubSeq(fed'[c], 1, q) = SubSeq(fed[c], 1, q)
            BY <2>6, <3>1, <3>2, Extended
        <3>4. CASE base = 0
            BY <3>4, SubSeqEmpty
        <3>5. CASE base # 0
            <4>1. base \in 1..base
                BY <3>2, <3>5
            <4>2. QED
                BY <3>3, <4>1
        <3>6. QED
            BY <3>4, <3>5
    <2>14. Prompted(c)'
        BY <1>2, <2>2, <2>7, <2>8, <2>9, <2>12, <2>13 DEF Prompted
    <2>15. Base(c)' \in Contexts /\ One!Accepted(Turn(c), Len(Base(c)))'
        BY <1>2, <2>1, <2>9 DEF Stands
    <2>16. QED
        BY <2>10, <2>11, <2>14, <2>15 DEF Agrees, Stands, Stepping
<1>5. QED
    BY <1>2, <1>3, <1>4, Lost

LEMMA EndTurnAgrees ==
    ASSUME AgreeInv, NEW c \in Coordinators, EndTurn(c)
    PROVE  \A d \in Coordinators : Agrees(d)'
<1>1. /\ Shapes /\ Tables /\ TypeInv /\ \A d \in Coordinators : Agrees(d)
    BY DEF AgreeInv, TypeInv, LogitInv, WireInv
<1>2. /\ cpc[c] = "decode" /\ cpc' = [cpc EXCEPT ![c] = "idle"] /\ tok' = tok
      /\ cut' = cut /\ said' = said /\ pos' = pos /\ off' = off /\ link' = link
      /\ fed' = fed /\ AnswerFull(c)
    BY DEF EndTurn, turnVars, netVars
<1>3. ASSUME NEW d \in Coordinators, d # c PROVE Agrees(d)'
    <2>1. cpc'[d] = cpc[d]
        BY <1>1, <1>2, <1>3 DEF Tables
    <2>2. QED
        BY <1>1, <1>2, <2>1, AgreesStays
<1>4. ASSUME link[c] # "down" PROVE Agrees(c)'
    <2>1. Stands(c)
        BY <1>1, <1>2, <1>4 DEF Agrees, Sound, Over
    <2>2. Len(Known(c)) = pos[c] /\ SubSeq(fed[c], 1, pos[c]) = Known(c)
        BY <1>2, <2>1 DEF Stands
    <2>3. One!TurnIsOver(said[c], c)
        BY <1>2, <2>2 DEF AnswerFull, One!TurnIsOver, One!Answer, Known, Turn
    <2>4. Rested(c)'
        BY <1>2, <2>2, <2>3 DEF Rested, Known
    <2>5. cpc'[c] = "idle"
        BY <1>1, <1>2 DEF Tables
    <2>6. QED
        BY <2>4, <2>5 DEF Agrees, Stands, Asking, Stepping
<1>5. QED
    BY <1>2, <1>3, <1>4, Lost

(* What is printed is what the context asks for, in a turn that is not     *)
(* over, and is added to the context.                                      *)
LEMMA SayFacts ==
    ASSUME AgreeInv, NEW c \in Coordinators, PrintToken(c), link[c] # "down"
    PROVE  /\ Stands(c) /\ tok[c] = Best(Known(c)) /\ ~One!TurnIsOver(said[c], c)
           /\ Known(c) \in Contexts /\ SubSeq(fed[c], 1, pos[c]) = Known(c)
           /\ Known(c)' = Known(c) \o <<tok[c]>>
           /\ Base(c)' = Base(c) /\ Turn(c)' = Turn(c)
           /\ Printed(c)' # <<>> /\ LastSaid(c)' = tok[c]
           /\ One!Stopped(Printed(c))' <=> tok[c] \in Stops
<1>1. /\ Shapes /\ Tables /\ TypeInv /\ LogitInv /\ Place(c) /\ Own(c) /\ Agrees(c)
    BY DEF AgreeInv, TypeInv, LogitInv, WireInv, Feeding
<1>2. cpc[c] = "decode" /\ ~AnswerFull(c)
    BY DEF PrintToken
<1>3. Stands(c)
    BY <1>1, <1>2 DEF Agrees, Sound, Over
<1>4. /\ Len(Known(c)) = pos[c] /\ SubSeq(fed[c], 1, pos[c]) = Known(c)
      /\ tok[c] = Best(Known(c)) /\ ~One!Stopped(Printed(c))
      /\ Base(c) \in Contexts /\ One!Accepted(Turn(c), Len(Base(c)))
    BY <1>2, <1>3 DEF Stands
<1> DEFINE e == SubSeq(Base(c), 1, Turn(c).keep)
           last == Append(Printed(c), tok[c])
<1>5. /\ said[c] \in Seq(Contexts) /\ said[c] # <<>> /\ Printed(c) \in Contexts
      /\ Turn(c).ids \in Contexts /\ e \in Contexts /\ Len(e) = Turn(c).keep
      /\ Known(c) = (e \o Turn(c).ids) \o Printed(c) /\ Known(c) \in Contexts
      /\ Len(Known(c)) = Turn(c).keep + Len(Turn(c).ids) + Len(Printed(c))
    BY <1>1, <1>2, <1>3, InTurn
<1>6. /\ Len(said[c]) \in Nat /\ Len(said[c]) >= 1 /\ ~InPrefill(c)
      /\ said'[c] = [said[c] EXCEPT ![Len(said[c])] = last]
      /\ Len(said'[c]) = Len(said[c]) /\ Printed(c)' = last
    BY <1>1, PrintedNow
<1>7. tok[c] \in Vocab \cup {NoToken} /\ said'[c] \in Seq(Contexts)
    BY <1>1, PrintTokenTyped DEF Tables
<1>8. /\ last \in Contexts /\ last # <<>> /\ Len(last) = Len(Printed(c)) + 1
      /\ last[Len(last)] = tok[c] /\ last = Printed(c) \o <<tok[c]>>
      /\ <<tok[c]>> \in Contexts
    <2>1. /\ last \in Contexts /\ last # <<>> /\ Len(last) = Len(Printed(c)) + 1
          /\ last[Len(Printed(c)) + 1] = tok[c]
        <3>1. Printed(c) \in Seq(Vocab \cup {NoToken})
            BY <1>5 DEF Contexts
        <3>2. /\ last \in Seq(Vocab \cup {NoToken}) /\ last # <<>>
              /\ Len(last) = Len(Printed(c)) + 1 /\ last[Len(Printed(c)) + 1] = tok[c]
            BY <1>7, <3>1, AppendProperties
        <3>3. QED
            BY <3>2 DEF Contexts
    <2>2. last = Printed(c) \o <<tok[c]>>
        BY <1>5, <1>7, AppendIsConcat DEF Contexts
    <2>3. <<tok[c]>> \in Contexts
        BY <1>7 DEF Contexts
    <2> HIDE DEF last
    <2>4. QED
        BY <2>1, <2>2, <2>3
<1>9. Base(c)' = Base(c)
    <2>1. One!Earlier([said[c] EXCEPT ![Len(said[c])] = last]) = One!Earlier(said[c])
        <3>1. PICK s \in Seq(Contexts) : s = said[c] /\ s # <<>>
            BY <1>5
        <3>2. PICK a \in Contexts : a = last
            BY <1>8
        <3>3. One!Earlier([s EXCEPT ![Len(s)] = a]) = One!Earlier(s)
            BY <3>1, EarlierFacts
        <3>4. QED
            BY <3>1, <3>2, <3>3, Zenon
    <2>2. QED
        BY <1>6, <2>1 DEF Base
<1>10. Turn(c)' = Turn(c)
    BY <1>6 DEF Turn
<1>11. Known(c)' = (e \o Turn(c).ids) \o last
    <2>1. said'[c] # <<>>
        BY <1>6, EmptySeq
    <2>2. IsSequence(said'[c])
        BY <1>7 DEF IsSequence
    <2>3. Known(c)' = After(Base(c)', Turn(c)', Printed(c)')
        BY <2>1, <2>2, ContextFacts DEF Known, Base, Turn, Printed
    <2> HIDE DEF last
    <2>4. QED
        BY <1>4, <1>6, <1>9, <1>10, <2>3 DEF After
<1>12. Known(c)' = Known(c) \o <<tok[c]>>
    <2> DEFINE i == e \o Turn(c).ids
    <2>1. i \in Contexts
        BY <1>5, ConcatProperties DEF Contexts
    <2>2. Known(c)' = i \o last /\ Known(c) = i \o Printed(c)
        BY <1>5, <1>11
    <2> HIDE DEF i
    <2>3. (i \o Printed(c)) \o <<tok[c]>> = i \o (Printed(c) \o <<tok[c]>>)
        <3>1. PICK T : Contexts = Seq(T)
            BY DEF Contexts
        <3>2. /\ Printed(c) \in Seq(T) /\ <<tok[c]>> \in Seq(T) /\ i \in Seq(T)
            BY <1>5, <1>8, <2>1, <3>1
        <3>3. QED
            BY <3>2, ConcatAssociative
    <2>4. QED
        BY <1>8, <2>2, <2>3
<1> HIDE DEF last, e
<1>13. ~One!TurnIsOver(said[c], c)
    <2>1. ~(Len(Printed(c)) >= Turn(c).max)
        BY <1>2 DEF AnswerFull, Printed
    <2>2. pos[c] \in Nat /\ Cap \in Nat /\ Len(Printed(c)) \in Nat
        BY <1>1, <1>5, SizesAssumption, LenProperties DEF Shapes, Contexts
    <2>3. pos[c] < Cap
        <3>1. CASE c \in Runs
            <4>1. /\ Turn(c).max \in Nat /\ Len(Turn(c).ids) \in Nat
                  /\ Len(Turn(c).ids) + Turn(c).max <= Cap
                BY <1>1, <1>6, <3>1, RunTurn
            <4>2. pos[c] = Len(Turn(c).ids) + Len(Printed(c))
                BY <1>1, <1>2, <3>1 DEF Own, RunRoom
            <4>3. QED
                BY <2>1, <2>2, <4>1, <4>2
        <3>2. CASE c \notin Runs
            BY <1>2, <2>2, <3>2 DEF AnswerFull
        <3>3. QED
            BY <3>1, <3>2
    <2>4. ~(Len(Known(c)) >= Cap)
        BY <1>4, <2>2, <2>3
    <2>5. QED
        BY <1>4, <1>5, <2>1, <2>4 DEF One!TurnIsOver, One!Answer, Known, Base, Turn, Printed
<1>14. LastSaid(c)' = tok[c] /\ (One!Stopped(Printed(c))' <=> tok[c] \in Stops)
    <2>1. LastSaid(c)' = Printed(c)'[Len(Printed(c)')]
        BY DEF LastSaid, Printed
    <2>2. LastSaid(c)' = tok[c]
        BY <1>6, <1>8, <2>1
    <2>3. One!Stopped(Printed(c))' <=> Printed(c)' # <<>> /\ Printed(c)'[Len(Printed(c)')] \in Stops
        BY DEF One!Stopped
    <2>4. QED
        BY <1>6, <1>8, <2>2, <2>3
<1>15. QED
    BY <1>3, <1>4, <1>5, <1>6, <1>8, <1>9, <1>10, <1>12, <1>13, <1>14

LEMMA PrintTokenAgrees ==
    ASSUME AgreeInv, NEW c \in Coordinators, PrintToken(c)
    PROVE  \A d \in Coordinators : Agrees(d)'
<1>1. /\ Shapes /\ Tables /\ LogitInv /\ DOMAIN fed = Coordinators
      /\ \A d \in Coordinators : Agrees(d)
    BY DEF AgreeInv, TypeInv, LogitInv, WireInv, Feeding
<1>2. /\ cpc[c] = "decode" /\ tok' = tok /\ cut' = cut /\ pos' = pos /\ off' = off
      /\ link' = link
      /\ \/ /\ c \in Runs /\ tok[c] = FirstStop
            /\ cpc' = [cpc EXCEPT ![c] = "idle"] /\ fed' = fed
         \/ /\ ~(c \in Runs /\ tok[c] = FirstStop)
            /\ cpc' = [cpc EXCEPT ![c] = "await"]
            /\ fed' = [fed EXCEPT ![c] = SubSeq(fed[c], 1, pos[c]) \o <<tok[c]>>]
    BY DEF PrintToken, Ask
<1>3. /\ Len(said[c]) \in Nat /\ Len(said[c]) >= 1 /\ ~InPrefill(c)
      /\ Len(said'[c]) = Len(said[c])
      /\ \A d \in Coordinators \ {c} : said'[d] = said[d]
    BY <1>1, PrintedNow
<1>4. ASSUME NEW d \in Coordinators, d # c PROVE Agrees(d)'
    <2>1. cpc'[d] = cpc[d] /\ fed'[d] = fed[d] /\ said'[d] = said[d]
        BY <1>1, <1>2, <1>3, <1>4 DEF Tables
    <2>2. QED
        BY <1>1, <1>2, <2>1, AgreesStays
<1>5. ASSUME link[c] # "down" PROVE Agrees(c)'
    <2>1. /\ Stands(c)
          /\ Known(c) \in Contexts /\ SubSeq(fed[c], 1, pos[c]) = Known(c)
          /\ Known(c)' = Known(c) \o <<tok[c]>>
          /\ Base(c)' = Base(c) /\ Turn(c)' = Turn(c)
          /\ Printed(c)' # <<>> /\ LastSaid(c)' = tok[c]
          /\ One!Stopped(Printed(c))' <=> tok[c] \in Stops
        BY <1>5, SayFacts
    <2>2. ~InPrefill(c)'
        BY <1>2, <1>3, <2>1 DEF InPrefill
    <2>3. CASE c \in Runs /\ tok[c] = FirstStop
        <3>1. cpc'[c] = "idle"
            BY <1>1, <1>2, <2>3 DEF Tables
        <3>2. said'[c] # <<>>
            BY <1>3, EmptySeq
        <3>3. One!TurnIsOver(said[c], c)'
            BY <2>1, <2>3, VocabAssumption DEF One!TurnIsOver, One!Answer, Printed
        <3>4. Rested(c)'
            BY <2>3, <3>2, <3>3 DEF Rested
        <3>5. QED
            BY <3>1, <3>4 DEF Agrees, Stands, Asking, Stepping
    <2>4. CASE ~(c \in Runs /\ tok[c] = FirstStop)
        <3>1. cpc'[c] = "await" /\ fed'[c] = Known(c) \o <<tok[c]>>
            BY <1>1, <1>2, <2>1, <2>4 DEF Tables
        <3>2. fed'[c] = Known(c)'
            BY <2>1, <3>1
        <3>3. Base(c)' \in Contexts /\ One!Accepted(Turn(c), Len(Base(c)))'
            BY <1>2, <2>1 DEF Stands
        <3>4. QED
            BY <2>1, <2>2, <2>4, <3>1, <3>2, <3>3 DEF Agrees, Stands, Asking
    <2>5. QED
        BY <2>3, <2>4
<1>6. QED
    BY <1>2, <1>4, <1>5, Lost

(* The token of the reply is the one that follows the context.             *)
LEMMA TakeReplyAgrees ==
    ASSUME AgreeInv, ~Rep, Runs = {} \/ Stops = {FirstStop},
           NEW c \in Coordinators, TakeReply(c)
    PROVE  \A d \in Coordinators : Agrees(d)'
<1>1. /\ Shapes /\ Tables /\ TypeInv /\ LogitInv /\ Place(c) /\ Own(c)
      /\ \A d \in Coordinators : Agrees(d)
    BY DEF AgreeInv, TypeInv, LogitInv, WireInv, Feeding
<1>2. PICK t \in Sampled(toC[c][2], hist[c]) : Answered(c, t)
    BY DEF TakeReply
<1>3. cpc[c] = "await" /\ t = Best(fed[c]) /\ t \in Vocab /\ t # NoToken
    <2>1. t = Best(fed[c]) /\ t \in Vocab
        BY <1>1, <1>2, SampledToken
    <2>2. QED
        BY <2>1, VocabAssumption DEF TakeReply, NoToken
<1>4. cut' = cut /\ said' = said /\ fed' = fed
    BY <1>2 DEF Answered
<1>5. Len(fed[c]) = Reach(c) /\ fed[c] \in Contexts /\ SubSeq(fed[c], 1, Len(fed[c])) = fed[c]
    <2>1. fed[c] \in Contexts /\ Len(fed[c]) = Reach(c)
        BY <1>1, <1>3, AwaitFacts DEF Tables
    <2>2. QED
        BY <2>1, SubSeqFull DEF Contexts
<1>6. /\ Turn(c)' = Turn(c) /\ Printed(c)' = Printed(c) /\ Known(c)' = Known(c)
      /\ Base(c)' = Base(c) /\ LastSaid(c)' = LastSaid(c)
    BY <1>4 DEF Turn, Printed, Known, Base, LastSaid
<1>7. /\ Len(Turn(c).ids) \in Nat /\ off[c] \in Nat /\ pos[c] \in Nat
      /\ BlockEnd(c) \in Nat
      /\ InPrefill(c) => BlockEnd(c) \in (off[c] + 1)..Len(Turn(c).ids)
    BY <1>1, <1>3, TurnFacts DEF Place
(* Where the turn goes on.                                                 *)
<1>8. ASSUME NEW s \in {"block", "decode", "idle"}, cpc' = [cpc EXCEPT ![c] = s], link' = link,
             \A d \in Coordinators \ {c} : /\ pos'[d] = pos[d] /\ off'[d] = off[d]
                                           /\ tok'[d] = tok[d],
             Stands(c) => Stands(c)'
      PROVE  \A d \in Coordinators : Agrees(d)'
    <2>1. ASSUME NEW d \in Coordinators, d # c PROVE Agrees(d)'
        <3>1. cpc'[d] = cpc[d]
            BY <1>1, <1>8, <2>1 DEF Tables
        <3>2. QED
            BY <1>1, <1>4, <1>8, <2>1, <3>1, AgreesStays
    <2>2. Agrees(c)'
        BY <1>1, <1>3, <1>8 DEF Agrees, Sound, Over
    <2>3. QED
        BY <2>1, <2>2
<1>9. CASE InPrefill(c)
    <2>1. /\ off' = [off EXCEPT ![c] = BlockEnd(c)] /\ tok' = [tok EXCEPT ![c] = t]
          /\ link' = link
          /\ IF BlockEnd(c) < Len(Turn(c).ids)
             THEN cpc' = [cpc EXCEPT ![c] = "block"] /\ pos' = pos
             ELSE /\ cpc' = [cpc EXCEPT ![c] = "decode"]
                  /\ pos' = [pos EXCEPT ![c] = @ + Len(Turn(c).ids)]
        BY <1>2, <1>9 DEF Answered, BlockAnswered
    <2>2. /\ off'[c] = BlockEnd(c) /\ Reach(c) = pos[c] + BlockEnd(c) /\ Asking(c)
          /\ tok'[c] = t
        BY <1>1, <1>3, <1>9, <2>1 DEF Shapes, Tables, Reach, Asking
    <2>3. \A d \in Coordinators \ {c} : /\ pos'[d] = pos[d] /\ off'[d] = off[d]
                                        /\ tok'[d] = tok[d]
        BY <1>1, <2>1 DEF Shapes, Tables
    <2>4. Stands(c) => /\ Printed(c) = <<>> /\ pos[c] = Turn(c).keep
                       /\ fed[c] = SubSeq(Known(c), 1, Reach(c))
                       /\ Base(c) \in Contexts /\ One!Accepted(Turn(c), Len(Base(c)))
        BY <1>3, <2>2 DEF Stands, Prompted
    <2>5. CASE BlockEnd(c) < Len(Turn(c).ids)
        <3>1. cpc'[c] = "block" /\ pos'[c] = pos[c] /\ cpc' = [cpc EXCEPT ![c] = "block"]
            BY <1>1, <2>1, <2>5 DEF Shapes, Tables
        <3>2. InPrefill(c)'
            BY <1>6, <2>2, <2>5 DEF InPrefill
        <3>3. Consumed(c)' = Reach(c)
            BY <2>2, <3>1, <3>2 DEF Consumed, Asking
        <3>4. Stands(c) => Prompted(c)'
            BY <1>4, <1>5, <1>6, <2>4, <3>1, <3>3 DEF Prompted
        <3>5. Stands(c) => Stands(c)'
            BY <1>6, <2>4, <3>1, <3>2, <3>4 DEF Stands, Stepping
        <3>6. QED
            BY <1>8, <2>1, <2>3, <3>1, <3>5
    <2>6. CASE ~(BlockEnd(c) < Len(Turn(c).ids))
        <3>1. cpc'[c] = "decode" /\ pos'[c] = pos[c] + Len(Turn(c).ids)
              /\ cpc' = [cpc EXCEPT ![c] = "decode"]
            BY <1>1, <2>1, <2>6 DEF Shapes, Tables
        <3>2. Reach(c) = pos'[c]
            BY <1>7, <1>9, <2>2, <2>6, <3>1
        <3>3. Stands(c) => fed[c] = Known(c) /\ Len(Known(c)) = pos'[c]
            <4>1. SUFFICES ASSUME Stands(c)
                           PROVE  fed[c] = Known(c) /\ Len(Known(c)) = pos'[c]
                OBVIOUS
            <4>2. Known(c) \in Contexts /\ Len(Known(c)) = pos[c] + Len(Turn(c).ids)
                BY <1>1, <2>2, <4>1, InPrompt
            <4>3. SubSeq(Known(c), 1, Len(Known(c))) = Known(c)
                BY <4>2, SubSeqFull DEF Contexts
            <4>4. QED
                BY <2>4, <3>1, <3>2, <4>1, <4>2, <4>3
        <3>4. Stands(c) => Stands(c)'
            <4>1. SUFFICES ASSUME Stands(c) PROVE Stands(c)'
                OBVIOUS
            <4>2. ~One!Stopped(Printed(c)')
                BY <1>6, <2>4, <4>1 DEF One!Stopped
            <4>3. Len(Known(c)') = pos'[c] /\ SubSeq(fed'[c], 1, pos'[c]) = Known(c)'
                  /\ tok'[c] = Best(Known(c)')
                BY <1>3, <1>4, <1>5, <1>6, <2>2, <3>2, <3>3, <4>1
            <4>4. QED
                BY <1>6, <2>4, <3>1, <4>1, <4>2, <4>3 DEF Stands, Asking, Stepping
        <3>5. QED
            BY <1>8, <2>1, <2>3, <3>1, <3>4
    <2>7. QED
        BY <2>5, <2>6
<1>10. CASE ~InPrefill(c)
    <2>1. /\ off' = off /\ link' = link /\ tok' = [tok EXCEPT ![c] = t]
          /\ pos' = [pos EXCEPT ![c] = @ + 1]
          /\ cpc' = [cpc EXCEPT ![c] = IF c \notin Runs /\ LastSaid(c) \in Stops
                                       THEN "idle" ELSE "decode"]
        BY <1>2, <1>3, <1>10 DEF Answered, TokenAnswered
    <2>2. Reach(c) = pos[c] + 1 /\ Stepping(c) /\ tok'[c] = t /\ pos'[c] = pos[c] + 1
        BY <1>1, <1>3, <1>10, <2>1 DEF Shapes, Tables, Reach, Stepping
    <2>3. \A d \in Coordinators \ {c} : /\ pos'[d] = pos[d] /\ off'[d] = off[d]
                                        /\ tok'[d] = tok[d]
        BY <1>1, <2>1 DEF Shapes, Tables
    <2>4. Stands(c) => /\ fed[c] = Known(c) /\ Printed(c) # <<>>
                       /\ (c \in Runs => LastSaid(c) # FirstStop)
                       /\ Base(c) \in Contexts /\ One!Accepted(Turn(c), Len(Base(c)))
        BY <1>3, <2>2 DEF Stands
    <2>5. Stands(c) => /\ Len(Known(c)') = pos'[c] /\ tok'[c] = Best(Known(c)')
                       /\ SubSeq(fed'[c], 1, pos'[c]) = Known(c)'
        BY <1>3, <1>4, <1>5, <1>6, <2>2, <2>4
    <2>6. One!Stopped(Printed(c)) <=> Printed(c) # <<>> /\ LastSaid(c) \in Stops
        BY DEF One!Stopped, LastSaid, Printed
    <2>7. CASE c \notin Runs /\ LastSaid(c) \in Stops
        <3>1. cpc'[c] = "idle" /\ cpc' = [cpc EXCEPT ![c] = "idle"]
            BY <1>1, <2>1, <2>7 DEF Tables
        <3>2. Stands(c) => One!TurnIsOver(said[c], c)
            BY <2>4, <2>6, <2>7 DEF One!TurnIsOver, One!Answer, Printed
        <3>3. Stands(c) => Rested(c)'
            BY <1>4, <2>5, <3>2 DEF Rested
        <3>4. Stands(c) => Stands(c)'
            BY <3>1, <3>3 DEF Stands, Asking, Stepping
        <3>5. QED
            BY <1>8, <2>1, <2>3, <3>1, <3>4
    <2>8. CASE ~(c \notin Runs /\ LastSaid(c) \in Stops)
        <3>1. cpc'[c] = "decode" /\ cpc' = [cpc EXCEPT ![c] = "decode"]
            BY <1>1, <2>1, <2>8 DEF Tables
        <3>2. Stands(c) => ~One!Stopped(Printed(c)')
            BY <1>6, <2>4, <2>6, <2>8
        <3>3. Stands(c) => Stands(c)'
            BY <1>6, <2>4, <2>5, <3>1, <3>2 DEF Stands, Asking, Stepping
        <3>4. QED
            BY <1>8, <2>1, <2>3, <3>1, <3>3
    <2>9. QED
        BY <2>7, <2>8
<1>11. QED
    BY <1>9, <1>10

(* No reply: the connection is lost.  A coordinator leaves, or is killed.  *)
LEMMA OutAgrees ==
    ASSUME AgreeInv, NEW c \in Coordinators, NoReply(c) \/ Leave(c) \/ Die(c)
    PROVE  \A d \in Coordinators : Agrees(d)'
<1>1. /\ Shapes /\ Tables /\ \A d \in Coordinators : Agrees(d)
    BY DEF AgreeInv, TypeInv, LogitInv, WireInv
<1>2. cut' = cut /\ said' = said /\ fed' = fed
    BY DEF NoReply, Answered, Leave, Die, turnVars
<1>3. \A d \in Coordinators \ {c} : /\ cpc'[d] = cpc[d] /\ pos'[d] = pos[d]
                                    /\ off'[d] = off[d] /\ tok'[d] = tok[d]
                                    /\ link'[d] = link[d]
    <2>1. CASE NoReply(c)
        BY <1>1, <2>1 DEF NoReply, Answered, BlockAnswered, TokenAnswered, Closed, Tables, Shapes
    <2>2. CASE Leave(c) \/ Die(c)
        BY <1>1, <2>2 DEF Leave, Die, turnVars, Closed, Tables, Shapes
    <2>3. QED
        BY <2>1, <2>2
<1>4. link'[c] = "down" \/ cpc'[c] \in {"ended", "failed"}
    <2>1. CASE NoReply(c)
        <3>1. link[c] = "down"
            BY <2>1 DEF NoReply, AtEnd
        <3>2. QED
            BY <1>1, <2>1, <3>1 DEF NoReply, Answered, BlockAnswered, TokenAnswered, Closed, Shapes
    <2>2. CASE Leave(c) \/ Die(c)
        BY <1>1, <2>2 DEF Leave, Die, Tables
    <2>3. QED
        BY <2>1, <2>2
<1>5. ASSUME NEW d \in Coordinators, d # c PROVE Agrees(d)'
    BY <1>1, <1>2, <1>3, <1>5, AgreesStays
<1>6. QED
    BY <1>4, <1>5, Lost

(* The worker and the network lose connections and restore none.           *)
LEMMA Losing ==
    ASSUME AgreeInv, Worker \/ Restart \/ (\E c \in Coordinators : Drop(c)) \/ Crash
    PROVE  /\ UNCHANGED coordVars
           /\ \A d \in Coordinators : link[d] = "down" => link'[d] = "down"
<1>1. Shapes
    BY DEF AgreeInv, TypeInv, LogitInv, WireInv
<1>2. CASE Worker
    <2>1. link' = link \/ Closed(conn)
        BY <1>2 DEF Worker, Accept, TakeHeader, Gone, Serve, Hangup, netVars
    <2>2. QED
        BY <1>1, <1>2, <2>1 DEF Closed, Worker, Accept, TakeHeader, Gone, Serve, Shapes
<1>3. CASE Restart
    BY <1>3 DEF Restart, netVars
<1>4. CASE \E c \in Coordinators : Drop(c)
    BY <1>1, <1>4 DEF Drop, Shapes
<1>5. CASE Crash
    BY <1>1, <1>5 DEF Crash, Shapes
<1>6. QED
    BY <1>2, <1>3, <1>4, <1>5

(* The steps of the worker and of the network keep the agreement.          *)
LEMMA LosingAgrees ==
    ASSUME AgreeInv, Worker \/ Restart \/ (\E c \in Coordinators : Drop(c)) \/ Crash,
           NEW d \in Coordinators
    PROVE  Agrees(d)'
BY Losing, AgreesStays DEF AgreeInv, coordVars, turnVars

(* Every step keeps the agreement.                                         *)
LEMMA AgreeStep ==
    ASSUME Cap <= WorkerCap, ~Rep, Runs = {} \/ Stops = {FirstStop}, AgreeInv, [Next]_vars
    PROVE  AgreeInv'
<1>1. TypeInv'
    BY TypeStep DEF AgreeInv
<1>2. ASSUME NEW c \in Coordinators, Coordinator(c) PROVE \A d \in Coordinators : Agrees(d)'
    BY <1>2, ConnectAgrees, BeginTurnAgrees, SendBlockAgrees, TakeReplyAgrees, OutAgrees,
       EndTurnAgrees, PrintTokenAgrees DEF Coordinator
<1>3. ASSUME NEW d \in Coordinators,
             Worker \/ Restart \/ (\E c \in Coordinators : Drop(c)) \/ Crash
      PROVE  Agrees(d)'
    BY <1>3, LosingAgrees
<1>4. ASSUME NEW c \in Coordinators, Die(c) PROVE \A d \in Coordinators : Agrees(d)'
    BY <1>4, OutAgrees
<1>5. ASSUME NEW d \in Coordinators, UNCHANGED vars PROVE Agrees(d)'
    <2>1. Agrees(d)
        BY DEF AgreeInv
    <2>2. QED
        BY <1>5, <2>1, AgreesStays DEF vars, coordVars, turnVars, netVars
<1>6. Waiting => UNCHANGED vars
    BY DEF Waiting
<1>7. ASSUME NEW d \in Coordinators PROVE Agrees(d)'
    <2>1. CASE \E c \in Coordinators : Coordinator(c)
        BY <1>2, <2>1
    <2>2. CASE Worker \/ Restart
        BY <1>3, <2>2
    <2>3. CASE Faults
        <3>1. CASE \E c \in Coordinators : Die(c)
            BY <1>4, <3>1
        <3>2. CASE ~\E c \in Coordinators : Die(c)
            <4>1. (\E c \in Coordinators : Drop(c)) \/ Crash
                BY <2>3, <3>2 DEF Faults
            <4>2. QED
                BY <1>3, <4>1
        <3>3. QED
            BY <3>1, <3>2
    <2>4. CASE Waiting \/ UNCHANGED vars
        BY <1>5, <1>6, <2>4
    <2>5. QED
        BY <2>1, <2>2, <2>3, <2>4 DEF Next
<1>8. QED
    BY <1>1, <1>7 DEF AgreeInv

-----------------------------------------------------------------------------
(* The steps of one machine                                                *)

LostNow(c) == cpc[c] = "failed" \/ (link[c] = "down" /\ cpc[c] # "ended")

(* A step that prints nothing and ends nothing.                            *)
LEMMA Breaks ==
    ASSUME said' = said,
           \A d \in Coordinators : (cpc'[d] = "ended") <=> (cpc[d] = "ended"),
           \A d \in Coordinators : LostNow(d) => LostNow(d)'
    PROVE  One!Next
<1>1. PICK lost \in SUBSET Coordinators :
           \A d \in Coordinators :
             d \in lost <=> \/ cpc'[d] = "failed"
                            \/ link'[d] = "down" /\ cpc'[d] # "ended"
    <2>1. {d \in Coordinators : \/ cpc'[d] = "failed"
                                \/ link'[d] = "down" /\ cpc'[d] # "ended"}
              \in SUBSET Coordinators
        OBVIOUS
    <2>2. QED
        BY <2>1
<1>2. \A d \in Coordinators : LostNow(d)' <=> (LostNow(d) \/ d \in lost)
    BY <1>1 DEF LostNow
<1>3. One!Break(lost)
    BY <1>2 DEF One!Break, LostNow
<1>4. QED
    BY <1>1, <1>3 DEF One!Next

(* The steps of the two nodes that print nothing are steps of one machine  *)
(* that loses coordinators, or stutter.                                    *)
LEMMA CoordinatorBreaks ==
    ASSUME AgreeInv, NEW c \in Coordinators,
           \/ Connect(c) \/ SendBlock(c) \/ TakeReply(c) \/ NoReply(c) \/ EndTurn(c) \/ Die(c)
    PROVE  One!Next
<1>1. /\ Shapes /\ Tables /\ Wire(c)
    BY DEF AgreeInv, TypeInv, LogitInv, WireInv
<1>2. said' = said
    BY DEF Connect, SendBlock, TakeReply, NoReply, EndTurn, Die, Answered, turnVars
<1>3. ~Over(c) /\ \E s \in {"off", "idle", "block", "decode", "await", "failed"} :
                      cpc' = [cpc EXCEPT ![c] = s]
    BY DEF Connect, SendBlock, Ask, TakeReply, NoReply, EndTurn, Die, Answered,
           BlockAnswered, TokenAnswered, Over
<1>4. \A d \in Coordinators : link[d] = "down" => link'[d] = "down"
    <2>1. CASE Connect(c)
        <3>1. link[c] # "down"
            BY <1>1, <2>1 DEF Connect, Wire
        <3>2. QED
            BY <1>1, <2>1, <3>1 DEF Connect, Shapes
    <2>2. CASE ~Connect(c)
        <3>1. link' = link \/ Closed(c)
            BY <2>2 DEF SendBlock, TakeReply, NoReply, EndTurn, Die, Answered,
                        BlockAnswered, TokenAnswered, netVars
        <3>2. QED
            BY <1>1, <3>1 DEF Closed, Shapes
    <2>3. QED
        BY <2>1, <2>2
<1>5. \A d \in Coordinators : (cpc'[d] = "ended") <=> (cpc[d] = "ended")
    BY <1>1, <1>3 DEF Tables, Over
<1>6. \A d \in Coordinators : LostNow(d) => LostNow(d)'
    BY <1>1, <1>3, <1>4, <1>5 DEF LostNow, Tables, Over
<1>7. QED
    BY <1>2, <1>5, <1>6, Breaks

LEMMA LosingBreaks ==
    ASSUME AgreeInv, Worker \/ Restart \/ (\E c \in Coordinators : Drop(c)) \/ Crash
    PROVE  One!Next
<1>1. said' = said /\ cpc' = cpc
      /\ \A d \in Coordinators : link[d] = "down" => link'[d] = "down"
    BY Losing DEF coordVars, turnVars
<1>2. \A d \in Coordinators : LostNow(d) => LostNow(d)'
    BY <1>1 DEF LostNow
<1>3. QED
    BY <1>1, <1>2, Breaks

(* Beginning a turn, printing a token and leaving are those of one machine.*)
LEMMA BeginTurnBegins ==
    ASSUME AgreeInv, NEW c \in Coordinators, BeginTurn(c)
    PROVE  One!Begin(c)
<1>1. /\ Shapes /\ Tables /\ Agrees(c)
    BY DEF AgreeInv, TypeInv, LogitInv, WireInv
<1>2. /\ cpc[c] = "idle" /\ Len(said[c]) < Len(TurnsOf[c])
      /\ said' = [said EXCEPT ![c] = Append(@, <<>>)] /\ link' = link
      /\ cpc' = cpc \/ cpc' = [cpc EXCEPT ![c] = "block"]
    BY DEF BeginTurn, netVars
<1>3. LostNow(c) \/ One!TurnIsOver(said[c], c)
    BY <1>1, <1>2 DEF LostNow, Agrees, Sound, Over, Stands, Rested
<1>4. \A d \in Coordinators : /\ LostNow(d)' <=> LostNow(d)
                              /\ (cpc'[d] = "ended") <=> (cpc[d] = "ended")
    BY <1>1, <1>2 DEF LostNow, Tables
<1>5. QED
    BY <1>2, <1>3, <1>4 DEF One!Begin, LostNow

LEMMA PrintTokenSays ==
    ASSUME AgreeInv, ~Rep, NEW c \in Coordinators, PrintToken(c)
    PROVE  One!Say(c, tok[c]) /\ tok[c] \in Vocab \cup {NoToken}
<1>1. /\ Shapes /\ Tables /\ LogitInv
    BY DEF AgreeInv, TypeInv, LogitInv, WireInv
<1>2. /\ cpc[c] = "decode" /\ link' = link
      /\ said' = [said EXCEPT ![c][Len(said[c])] = Append(@, tok[c])]
      /\ cpc' = [cpc EXCEPT ![c] = "idle"] \/ cpc' = [cpc EXCEPT ![c] = "await"]
    BY DEF PrintToken, Ask
<1>3. said[c] # <<>>
    <2>1. Len(said[c]) >= 1
        BY <1>1, PrintedNow
    <2>2. QED
        BY <2>1, EmptySeq
<1>4. LostNow(c) \/ (~One!TurnIsOver(said[c], c) /\ tok[c] = One!Following(said[c], c))
    <2>1. CASE link[c] = "down"
        BY <1>2, <2>1 DEF LostNow
    <2>2. CASE link[c] # "down"
        BY <2>2, SayFacts DEF One!Following, One!Sampled, Known
    <2>3. QED
        BY <2>1, <2>2
<1>5. \A d \in Coordinators : /\ LostNow(d)' <=> LostNow(d)
                              /\ (cpc'[d] = "ended") <=> (cpc[d] = "ended")
    BY <1>1, <1>2 DEF LostNow, Tables
<1>6. One!Say(c, tok[c])
    BY <1>2, <1>3, <1>4, <1>5 DEF One!Say, LostNow
<1>7. QED
    BY <1>1, <1>6 DEF Tables

LEMMA LeaveEnds ==
    ASSUME AgreeInv, NEW c \in Coordinators, Leave(c)
    PROVE  One!End(c)
<1>1. /\ Shapes /\ Tables /\ Agrees(c)
    BY DEF AgreeInv, TypeInv, LogitInv, WireInv
<1>2. /\ cpc[c] = "idle" /\ Len(said[c]) = Len(TurnsOf[c]) /\ said' = said
      /\ cpc' = [cpc EXCEPT ![c] = "ended"] /\ Closed(c)
    BY DEF Leave, turnVars
<1>3. LostNow(c) \/ One!TurnIsOver(said[c], c)
    BY <1>1, <1>2 DEF LostNow, Agrees, Sound, Over, Stands, Rested
<1>4. ~LostNow(c)' /\ cpc'[c] = "ended"
    BY <1>1, <1>2 DEF LostNow, Tables
<1>5. \A d \in Coordinators \ {c} : /\ LostNow(d)' <=> LostNow(d)
                                    /\ (cpc'[d] = "ended") <=> (cpc[d] = "ended")
    BY <1>1, <1>2 DEF LostNow, Closed, Tables, Shapes
<1>6. QED
    BY <1>2, <1>3, <1>4, <1>5 DEF One!End, LostNow

(* Two machines print what one would, as long as the connection lasts, if  *)
(* the worker's context is not shorter, the penalty is off, and a raw-ID   *)
(* run, which looks at the first stop token only, has no other.            *)
THEOREM PipelineImplements ==
    ASSUME Cap <= WorkerCap, ~Rep, Runs = {} \/ Stops = {FirstStop}
    PROVE  Spec => ImplementsOneNode
<1>1. Init => AgreeInv
    BY WireInit, FeedingInit, TypeInvInit, AgreesInit DEF LogitInv, TypeInv, AgreeInv
<1>2. AgreeInv /\ [Next]_vars => AgreeInv'
    BY AgreeStep
<1>3. Init => One!Init
    BY DEF Init, One!Init
<1>4. AgreeInv /\ [Next]_vars => [One!Next]_One!vars
    <2> SUFFICES ASSUME AgreeInv, [Next]_vars PROVE [One!Next]_One!vars
        OBVIOUS
    <2>1. ASSUME NEW c \in Coordinators, Coordinator(c) PROVE One!Next
        <3>1. CASE BeginTurn(c)
            BY <3>1, BeginTurnBegins DEF One!Next
        <3>2. CASE PrintToken(c)
            BY <3>2, PrintTokenSays DEF One!Next
        <3>3. CASE Leave(c)
            BY <3>3, LeaveEnds DEF One!Next
        <3>4. QED
            BY <2>1, <3>1, <3>2, <3>3, CoordinatorBreaks DEF Coordinator
    <2>2. CASE Worker \/ Restart \/ Faults
        BY <2>2, LosingBreaks, CoordinatorBreaks DEF Faults
    <2>3. CASE Waiting \/ UNCHANGED vars
        BY <2>3 DEF Waiting, One!vars, vars, coordVars, turnVars, netVars
    <2>4. QED
        BY <2>1, <2>2, <2>3 DEF Next
<1>5. QED
    BY <1>1, <1>2, <1>3, <1>4, PTL DEF Spec, ImplementsOneNode, One!Spec

=============================================================================
