------------------------- MODULE SpecDecodeProofs -------------------------
(***************************************************************************)
(* Theorems about SpecDecode, for every K, context, limit, vocabulary and  *)
(* text: what is printed is the target's greedy continuation whatever the  *)
(* draft proposes, and the caches roll by overwriting.                     *)
(***************************************************************************)
EXTENDS SpecDecode, SequenceTheorems, WellFoundedInduction, TLAPS

(* The positions agree with what has been printed.                         *)
Counted ==
    /\ haveDraft => DraftModel
    /\ pc \in {"draftprefill", "first", "loop", "propose", "emit"} => haveDraft
    /\ pc \in {"load", "prefill"} => pos = 0 /\ emitted = <<>>
    /\ pc \in {"draftprefill", "first"} => pos = NPrompt /\ emitted = <<>>
    /\ pc = "loop" =>
         /\ Produced >= 1
         /\ ~stop /\ Produced < MaxTokens => pos = NPrompt + Produced - 1
    /\ pc = "propose" => Produced >= 1 /\ pos = NPrompt + Produced - 1 /\ MayContinue
    /\ pc = "emit" =>
         /\ Produced >= 1 /\ pos = NPrompt + Produced - shown - 1
         /\ Len(out) >= 1 /\ pos < CtxLen - K - 2
         /\ shown = 0 => ~stop /\ Produced < MaxTokens
    /\ pc = "plain" => pos = NPrompt + Produced /\ Produced <= MaxTokens
    /\ pc = "consume" =>
         Produced >= 1 /\ pos = NPrompt + Produced - 1 /\ Produced <= MaxTokens

(* The token to consume is the last printed; stop tells whether it ends    *)
(* the answer; the arrays of a round are empty outside it.                 *)
Printed ==
    /\ pc \in {"load", "prefill", "draftprefill", "first"} => ~stop
    /\ pc \in {"loop", "propose", "emit"} => (stop <=> emitted[Produced] \in Stops)
    /\ pc = "loop" /\ ~stop /\ Produced < MaxTokens => cur = emitted[Produced]
    /\ pc \in {"propose", "consume"} => cur = emitted[Produced]
    /\ pc \in {"plain", "consume"} => ~stop
    /\ pc = "plain" => (Produced >= 1 => emitted[Produced] \notin PlainStops)
    /\ pc = "emit" => (shown >= 1 => emitted[Produced] = out[shown])
    /\ pc # "emit" /\ pc # "dead" => out = <<>> /\ shown = 0
    /\ pc \notin {"propose", "emit", "dead"} => dt = <<>>
    /\ pc \in {"draftprefill", "propose"} <=> gdb = "draft" /\ pc # "dead"

(* The draft's cache: never written K or more above the position.          *)
Ahead ==
    /\ pc \in {"load", "prefill", "draftprefill"} =>
         \A i \in Positions : dkv[i] = Zero
    /\ pc \in {"first", "loop", "propose", "emit"} =>
         \A i \in Positions : i >= pos + K => dkv[i] = Zero

(* What the target was told, and what it says, is the text.                *)
Below(p) == \A i \in Positions : i < p => dkv[i] \in {text[i], Zero}
Told ==
    /\ Continuation(emitted)
    /\ pc \in {"draftprefill", "first", "propose", "plain", "consume"} =>
         Follows(tkv, pos) /\ cur = text[pos]
    /\ pc \in {"first", "propose"} => Below(pos)
    /\ pc = "loop" /\ ~stop /\ Produced < MaxTokens =>
         Follows(tkv, pos) /\ cur = text[pos] /\ Below(pos)
    /\ pc = "propose" =>
         \A i \in Positions : \A j \in 1..Len(dt) :
            i = pos + j - 1 => dkv[i] = IF j = 1 THEN cur ELSE dt[j - 1]
    /\ pc = "emit" =>
         /\ \A j \in 1..Len(out) : out[j] = text[pos + j]
         /\ Follows(tkv, pos + Len(out)) /\ Below(pos + Len(out))

SpecInv == TypeOK /\ Counted /\ Printed /\ Ahead /\ (~spoilt => Told)

----------------------------------------------------------------------------
(* Lemmas about the operators.                                             *)

(* A non-empty set of naturals has a least element.                        *)
LEMMA LeastElement ==
    ASSUME NEW S \in SUBSET Nat, S # {}
    PROVE  \E m \in S : \A k \in S : m <= k
<1> DEFINE R == OpToRel(<, Nat)
<1>1. IsWellFoundedOn(R, Nat)
    BY NatLessThanWellFounded
<1>2. \A x, y \in Nat : y < x => <<y, x>> \in R
    BY DEF OpToRel
<1> HIDE DEF R
<1>3. PICK x \in S : \A y \in S : ~(<<y, x>> \in R)
    BY <1>1, WFMin
<1>4. ASSUME NEW y \in S PROVE x <= y
    <2>1. x \in Nat /\ y \in Nat
        BY <1>3
    <2>2. ~(y < x)
        BY <1>2, <1>3, <2>1, Zenon
    <2>3. QED
        BY <2>1, <2>2, SMT
<1>5. QED
    BY <1>3, <1>4, Zenon

(* A forward leaves a cache of the same shape.                             *)
LEMMA ConsumeType ==
    ASSUME NEW kv \in Kv, NEW base \in Nat, NEW n \in Nat,
           NEW toks, \A j \in 1..n : toks[j] \in Tokens
    PROVE  Consume(kv, base, n, toks) \in Kv
<1>1. \A i \in Positions : base <= i /\ i < base + n => i - base + 1 \in 1..n
    BY SizeAssumption DEF Positions
<1>2. QED
    BY <1>1 DEF Consume, Kv

(* A forward on tokens of the text, over a cache that holds the text below *)
(* them, leaves the text up to the last of them.                           *)
LEMMA ConsumeText ==
    ASSUME NEW kv \in Kv, NEW base \in Nat, NEW n \in Nat, NEW m \in 0..n,
           NEW toks, \A j \in 1..m : toks[j] = text[base + j - 1],
           Follows(kv, base)
    PROVE  Follows(Consume(kv, base, n, toks), base + m)
<1> SUFFICES ASSUME NEW i \in Positions, i < base + m
             PROVE  Consume(kv, base, n, toks)[i] = text[i]
    BY DEF Follows
<1>1. i \in Nat
    BY SizeAssumption DEF Positions
<1>2. CASE i < base
    BY <1>1, <1>2 DEF Consume, Follows
<1>3. CASE i >= base
    <2>1. i - base + 1 \in 1..m /\ i < base + n
        BY <1>1, <1>3
    <2>2. Consume(kv, base, n, toks)[i] = toks[i - base + 1]
        BY <1>1, <1>3, <2>1 DEF Consume
    <2>3. base + (i - base + 1) - 1 = i
        BY <1>1
    <2>4. toks[i - base + 1] = text[base + (i - base + 1) - 1]
        BY <2>1
    <2>5. QED
        BY <2>2, <2>3, <2>4
<1>4. QED
    BY <1>1, <1>2, <1>3

(* The text has a token at every position up to the horizon.               *)
LEMMA TextToken ==
    ASSUME TypeOK, NEW i \in Nat, i <= Horizon
    PROVE  text[i] \in Tokens
BY SizeAssumption DEF TypeOK, Horizon

----------------------------------------------------------------------------
(* Every action preserves the invariant.                                   *)

(* Loading the draft, or failing to, disturbs nothing.                     *)
LEMMA LoadDraftStep == SpecInv /\ LoadDraft => SpecInv'
<1> SUFFICES ASSUME SpecInv, LoadDraft PROVE SpecInv'
    OBVIOUS
<1> USE SizeAssumption, TextAssumption, NameAssumption
        DEF SpecInv, LoadDraft, cacheVars, roundVars, fetchVars
<1>1. TypeOK'
    BY DEF TypeOK, Produced
<1>2. Counted'
    BY DEF TypeOK, Counted, MayContinue, Produced
<1>3. Printed'
    BY DEF TypeOK, Counted, Printed, MayContinue, Produced
<1>4. Ahead'
    BY DEF TypeOK, Counted, Ahead, Kv
<1>5. ~spoilt' => Told'
    BY DEF TypeOK, Counted, Printed, Told, Below, Follows, Continuation,
           Produced, MayContinue
<1>6. QED
    BY <1>1, <1>2, <1>3, <1>4, <1>5

(* The target's prefill leaves the prompt in its cache.                    *)
LEMMA TargetPrefillStep == SpecInv /\ TargetPrefill => SpecInv'
<1> SUFFICES ASSUME SpecInv, TargetPrefill PROVE SpecInv'
    OBVIOUS
<1> USE SizeAssumption, TextAssumption, NameAssumption
        DEF SpecInv, TargetPrefill, cacheVars, roundVars, fetchVars
<1>1. TypeOK'
    <2>1. \A j \in 1..NPrompt : Prompt[j] \in Tokens
        BY TextToken DEF Prompt, Horizon
    <2>2. tkv' \in Kv
        BY <2>1, ConsumeType DEF TypeOK
    <2>3. text[NPrompt] \in Tokens
        BY TextToken DEF Horizon
    <2>4. QED
        BY <2>2, <2>3 DEF TypeOK
<1>2. Counted'
    BY DEF TypeOK, Counted, MayContinue, Produced
<1>3. Printed'
    BY DEF TypeOK, Counted, Printed, MayContinue, Produced
<1>4. Ahead'
    BY DEF TypeOK, Counted, Ahead, Kv
<1>5. ~spoilt' => Told'
    <2>1. \A j \in 1..NPrompt : Prompt[j] = text[0 + j - 1]
        BY DEF Prompt
    <2>2. Follows(tkv, 0)
        BY DEF Follows, Positions
    <2>6. /\ tkv \in Kv /\ 0 \in Nat /\ NPrompt \in Nat /\ NPrompt \in 0..NPrompt
          /\ tkv' = Consume(tkv, 0, NPrompt, Prompt)
        BY DEF TypeOK
    <2> HIDE DEF TargetPrefill, SpecInv
    <2>3. Follows(tkv', 0 + NPrompt)
        BY <2>1, <2>2, <2>6, ConsumeText
    <2> USE DEF TargetPrefill, SpecInv
    <2>4. Follows(tkv, pos)'
        BY <2>3 DEF Follows
    <2>5. QED
        BY <2>4 DEF Told, Counted, Continuation, Produced
<1>6. QED
    BY <1>1, <1>2, <1>3, <1>4, <1>5

(* The draft's prefill leaves the prompt in the draft's cache.             *)
LEMMA DraftPrefillStep == SpecInv /\ DraftPrefill => SpecInv'
<1> SUFFICES ASSUME SpecInv, DraftPrefill PROVE SpecInv'
    OBVIOUS
<1> USE SizeAssumption, TextAssumption, NameAssumption
        DEF SpecInv, DraftPrefill, cacheVars, roundVars, fetchVars
<1>1. TypeOK'
    <2>1. \A j \in 1..NPrompt : Prompt[j] \in Tokens
        BY TextToken DEF Prompt, Horizon
    <2>2. dkv' \in Kv
        BY <2>1, ConsumeType DEF TypeOK
    <2>3. QED
        BY <2>2 DEF TypeOK
<1>2. Counted'
    BY DEF TypeOK, Counted, MayContinue, Produced
<1>3. Printed'
    BY DEF TypeOK, Counted, Printed, MayContinue, Produced
<1>4. Ahead'
    <2>1. ASSUME NEW i \in Positions, i >= pos + K PROVE dkv'[i] = Zero
        <3>1. i \in Nat /\ pos = NPrompt
            BY DEF Positions, Counted
        <3>2. ~(i < 0 + NPrompt)
            BY <2>1, <3>1
        <3>3. QED
            BY <3>2 DEF Consume, Ahead
    <2>2. QED
        BY <2>1 DEF Ahead
<1>5. ~spoilt' => Told'
    <2>1. ASSUME NEW i \in Positions, i < pos PROVE dkv'[i] = text[i]
        <3>1. i \in Nat /\ pos = NPrompt
            BY DEF Positions, Counted
        <3>2. i - 0 + 1 = i + 1 /\ i + 1 \in 1..NPrompt /\ (i + 1) - 1 = i
            BY <2>1, <3>1
        <3>3. dkv'[i] = Prompt[i + 1]
            BY <2>1, <3>1, <3>2 DEF Consume
        <3>6. \A j \in 1..NPrompt : Prompt[j] = text[j - 1]
            BY DEF Prompt
        <3>5. Prompt[i + 1] = text[(i + 1) - 1]
            BY <3>2, <3>6
        <3>4. QED
            BY <3>2, <3>3, <3>5
    <2>2. Below(pos)'
        BY <2>1 DEF Below
    <2>3. QED
        BY <2>2 DEF Told, Counted, Continuation, Produced, Follows
<1>6. QED
    BY <1>1, <1>2, <1>3, <1>4, <1>5

(* The first token printed is the target's prediction.                     *)
LEMMA FirstStep == SpecInv /\ First => SpecInv'
<1> SUFFICES ASSUME SpecInv, First PROVE SpecInv'
    OBVIOUS
<1> USE SizeAssumption, TextAssumption, NameAssumption
        DEF SpecInv, First, cacheVars, roundVars, fetchVars
<1>0. /\ emitted' \in Seq(Tokens) /\ Len(emitted') = Len(emitted) + 1
      /\ \A i \in 1..Len(emitted) : emitted'[i] = emitted[i]
      /\ emitted'[Len(emitted) + 1] = cur
    BY AppendProperties DEF TypeOK
<1>1. TypeOK'
    BY <1>0 DEF TypeOK
<1>2. Counted'
    BY <1>0 DEF TypeOK, Counted, Produced
<1>3. Printed'
    BY <1>0 DEF TypeOK, Counted, Printed, Produced
<1>4. Ahead'
    BY DEF TypeOK, Counted, Ahead, Kv
<1>5. ~spoilt' => Told'
    BY <1>0 DEF TypeOK, Counted, Printed, Told, Below, Follows, Continuation, Produced
<1>6. QED
    BY <1>1, <1>2, <1>3, <1>4, <1>5

(* A round starts where the text is known.                                 *)
LEMMA StartRoundStep == SpecInv /\ StartRound => SpecInv'
<1> SUFFICES ASSUME SpecInv, StartRound PROVE SpecInv'
    OBVIOUS
<1> USE SizeAssumption, TextAssumption, NameAssumption
        DEF SpecInv, StartRound, cacheVars, roundVars, fetchVars
<1>1. TypeOK'
    BY DEF TypeOK, Produced
<1>2. Counted'
    BY DEF TypeOK, Counted, MayContinue, Produced
<1>3. Printed'
    BY DEF TypeOK, Counted, Printed, MayContinue, Produced
<1>4. Ahead'
    BY DEF TypeOK, Counted, Ahead, Kv
<1>5. ~spoilt' => Told'
    BY DEF TypeOK, Counted, Printed, Told, Below, Follows, Continuation,
           Produced, MayContinue
<1>6. QED
    BY <1>1, <1>2, <1>3, <1>4, <1>5

(* A proposal is written over what the draft holds from the position on.   *)
LEMMA ProposeStep ==
    ASSUME SpecInv, NEW d \in Tokens, Propose(d) PROVE SpecInv'
<1> USE SizeAssumption, TextAssumption, NameAssumption
        DEF SpecInv, Propose, cacheVars, roundVars, fetchVars
<1> DEFINE last == IF dt = <<>> THEN cur ELSE dt[Len(dt)]
<1>0. last \in Tokens /\ dkv' \in Kv
    <2>1. last \in Tokens
        BY DEF TypeOK
    <2>2. \A j \in 1..1 : <<last>>[j] \in Tokens
        BY <2>1
    <2>3. pos + Len(dt) \in Nat
        BY DEF TypeOK
    <2>4. QED
        BY <2>1, <2>2, <2>3, ConsumeType DEF TypeOK
<1>7. /\ dt' \in Seq(Tokens) /\ Len(dt') = Len(dt) + 1
      /\ \A j \in 1..Len(dt) : dt'[j] = dt[j]
    BY AppendProperties DEF TypeOK
<1>8. \A i \in Positions : dkv'[i] = IF i = pos + Len(dt) THEN last ELSE dkv[i]
    <2>1. dkv' = Consume(dkv, pos + Len(dt), 1, <<last>>)
        OBVIOUS
    <2>2. pos + Len(dt) \in Nat /\ <<last>>[1] = last
        BY DEF TypeOK
    <2> HIDE DEF last, Propose, SpecInv
    <2>3. \A i \in Positions, p \in Nat :
            /\ i \in Int
            /\ p <= i /\ i < p + 1 <=> i = p
            /\ i = p => i - p + 1 = 1
        BY DEF Positions
    <2>4. QED
        BY <2>1, <2>2, <2>3 DEF Consume
<1> HIDE DEF last
<1>1. TypeOK'
    BY <1>0, <1>7 DEF TypeOK
<1>2. Counted'
    BY DEF TypeOK, Counted, MayContinue, Produced
<1>3. Printed'
    BY DEF TypeOK, Counted, Printed, MayContinue, Produced
<1>4. Ahead'
    <2>1. ASSUME NEW i \in Positions, i >= pos + K PROVE dkv'[i] = Zero
        <3>1. i \in Int /\ pos \in Int /\ Len(dt) \in Int /\ K \in Int /\ Len(dt) < K
            BY DEF TypeOK, Positions
        <3>2. i # pos + Len(dt)
            BY <2>1, <3>1
        <3>3. QED
            BY <2>1, <3>2, <1>8 DEF Ahead
    <2>2. QED
        BY <2>1 DEF Ahead
<1>5. ~spoilt' => Told'
    <2> SUFFICES ASSUME ~spoilt PROVE Told'
        OBVIOUS
    <2>1. Below(pos)'
        <3>1. ASSUME NEW i \in Positions, i < pos PROVE dkv'[i] = dkv[i]
            <4>1. i \in Int /\ pos \in Int /\ Len(dt) \in Nat
                BY DEF TypeOK, Positions
            <4>2. i # pos + Len(dt)
                BY <3>1, <4>1
            <4>3. QED
                BY <4>2, <1>8
        <3>2. QED
            BY <3>1 DEF Told, Below
    <2>2. ASSUME NEW i \in Positions, NEW j \in 1..Len(dt'), i = pos + j - 1
          PROVE  dkv'[i] = IF j = 1 THEN cur ELSE dt'[j - 1]
        <3>1. CASE j <= Len(dt)
            <4>1. j \in 1..Len(dt) /\ i # pos + Len(dt)
                BY <3>1, <2>2, <1>7 DEF TypeOK
            <4>2. j # 1 => j - 1 \in 1..Len(dt)
                BY <4>1 DEF TypeOK
            <4>3. QED
                BY <4>1, <4>2, <1>8, <1>7, <2>2 DEF Told
        <3>2. CASE j = Len(dt) + 1
            <4>1. i = pos + Len(dt)
                BY <3>2, <2>2 DEF TypeOK
            <4>2. dkv'[i] = last
                BY <4>1, <1>8
            <4>3. dt # <<>> => j # 1 /\ j - 1 \in 1..Len(dt) /\ j - 1 = Len(dt)
                BY <3>2 DEF TypeOK
            <4>4. dt = <<>> => j = 1
                BY <3>2
            <4>5. QED
                BY <4>2, <4>3, <4>4, <1>7 DEF last
        <3>3. QED
            BY <3>1, <3>2, <1>7 DEF TypeOK
    <2>3. QED
        BY <2>1, <2>2 DEF Told, Follows, Continuation, Produced
<1>6. QED
    BY <1>1, <1>2, <1>3, <1>4, <1>5

(* The next token of the round is printed.                                 *)
LEMMA ShowNextStep == SpecInv /\ ShowNext => SpecInv'
<1> SUFFICES ASSUME SpecInv, ShowNext PROVE SpecInv'
    OBVIOUS
<1> USE SizeAssumption, TextAssumption, NameAssumption
        DEF SpecInv, ShowNext, cacheVars, roundVars, fetchVars
<1>0. /\ emitted' \in Seq(Tokens) /\ Len(emitted') = Len(emitted) + 1
      /\ \A i \in 1..Len(emitted) : emitted'[i] = emitted[i]
      /\ emitted'[Len(emitted) + 1] = out[shown + 1]
    <2>1. shown + 1 \in 1..Len(out)
        BY DEF TypeOK, ShowsMore
    <2>2. out[shown + 1] \in Tokens
        BY <2>1 DEF TypeOK
    <2>3. QED
        BY <2>2, AppendProperties DEF TypeOK
<1>1. TypeOK'
    BY <1>0 DEF TypeOK, ShowsMore
<1>2. Counted'
    BY <1>0 DEF TypeOK, Counted, Produced
<1>3. Printed'
    BY <1>0 DEF TypeOK, Counted, Printed, Produced
<1>4. Ahead'
    BY DEF TypeOK, Counted, Ahead, Kv
<1>5. ~spoilt' => Told'
    <2> SUFFICES ASSUME ~spoilt PROVE Told'
        OBVIOUS
    <2>1. shown + 1 \in 1..Len(out) /\ pos + (shown + 1) = NPrompt + Produced
        BY DEF TypeOK, ShowsMore, Counted, Produced
    <2>2. out[shown + 1] = text[NPrompt + Produced]
        BY <2>1 DEF Told
    <2>3. Continuation(emitted)'
        <3>1. ASSUME NEW i \in 1..Len(emitted') PROVE emitted'[i] = text[NPrompt + i - 1]
            <4>1. CASE i \in 1..Len(emitted)
                BY <4>1, <1>0 DEF Told, Continuation
            <4>2. CASE i = Len(emitted) + 1
                <5>1. NPrompt + i - 1 = NPrompt + Produced
                    BY <4>2 DEF Produced, TypeOK
                <5>2. QED
                    BY <5>1, <4>2, <2>2, <1>0
            <4>3. QED
                BY <4>1, <4>2, <1>0 DEF TypeOK
        <3>2. QED
            BY <3>1 DEF Continuation
    <2>4. QED
        BY <2>3 DEF Told, Follows, Below
<1>6. QED
    BY <1>1, <1>2, <1>3, <1>4, <1>5

(* The next round starts after the tokens of this one.                     *)
LEMMA EndRoundStep == SpecInv /\ EndRound => SpecInv'
<1> SUFFICES ASSUME SpecInv, EndRound PROVE SpecInv'
    OBVIOUS
<1> USE SizeAssumption, TextAssumption, NameAssumption
        DEF SpecInv, EndRound, cacheVars, roundVars, fetchVars
<1>0. out[Len(out)] \in Tokens /\ Len(out) \in Nat /\ Len(out) >= 1
    BY DEF TypeOK, Counted
<1>1. TypeOK'
    <2>1. <<>> \in Seq(Tokens) /\ Len(<<>>) = 0
        OBVIOUS
    <2>2. QED
        BY <1>0, <2>1 DEF TypeOK
<1>7. ~stop /\ Produced < MaxTokens => shown = Len(out)
    BY <1>0 DEF ShowsMore, TypeOK
<1>2. Counted'
    <2> HIDE DEF SpecInv
    <2>1. pc = "emit" /\ pc' = "loop" /\ Produced' = Produced /\ stop' = stop
        BY DEF Produced
    <2>2. /\ haveDraft' = haveDraft /\ haveDraft /\ DraftModel
          /\ Produced >= 1 /\ pos = NPrompt + Produced - shown - 1
        BY <2>1 DEF SpecInv, Counted
    <2>3. pos \in Nat /\ shown \in Nat /\ NPrompt \in Nat /\ Produced \in Nat
        BY DEF SpecInv, TypeOK, Produced
    <2>4. pos' = pos + Len(out)
        OBVIOUS
    <2>5. ~stop' /\ Produced' < MaxTokens => pos' = NPrompt + Produced' - 1
        BY <1>0, <1>7, <2>1, <2>2, <2>3, <2>4
    <2>6. QED
        BY <2>1, <2>2, <2>5 DEF Counted
<1>3. Printed'
    BY <1>0, <1>7 DEF TypeOK, Printed, Produced
<1>4. Ahead'
    BY <1>0 DEF TypeOK, Ahead, Positions
<1>5. ~spoilt' => Told'
    BY DEF TypeOK, Counted, Printed, Told, Below, Follows, Continuation,
           Produced, MayContinue
<1>6. QED
    BY <1>1, <1>2, <1>3, <1>4, <1>5

(* The loop's end disturbs nothing.                                        *)
LEMMA EndSpecStep == SpecInv /\ EndSpec => SpecInv'
<1> SUFFICES ASSUME SpecInv, EndSpec PROVE SpecInv'
    OBVIOUS
<1> USE SizeAssumption, TextAssumption, NameAssumption
        DEF SpecInv, EndSpec, cacheVars, roundVars, fetchVars
<1>1. TypeOK'
    BY DEF TypeOK, Produced
<1>2. Counted'
    BY DEF TypeOK, Counted, MayContinue, Produced
<1>3. Printed'
    BY DEF TypeOK, Counted, Printed, MayContinue, Produced
<1>4. Ahead'
    BY DEF TypeOK, Counted, Ahead, Kv
<1>5. ~spoilt' => Told'
    BY DEF TypeOK, Counted, Printed, Told, Below, Follows, Continuation,
           Produced, MayContinue
<1>6. QED
    BY <1>1, <1>2, <1>3, <1>4, <1>5

(* The plain loop prints its token.                                        *)
LEMMA PlainShowStep == SpecInv /\ PlainShow => SpecInv'
<1> SUFFICES ASSUME SpecInv, PlainShow PROVE SpecInv'
    OBVIOUS
<1> USE SizeAssumption, TextAssumption, NameAssumption
        DEF SpecInv, PlainShow, cacheVars, roundVars, fetchVars
<1>0. /\ emitted' \in Seq(Tokens) /\ Len(emitted') = Len(emitted) + 1
      /\ \A i \in 1..Len(emitted) : emitted'[i] = emitted[i]
      /\ emitted'[Len(emitted) + 1] = cur
    BY AppendProperties DEF TypeOK
<1>1. TypeOK'
    BY <1>0 DEF TypeOK
<1>2. Counted'
    BY <1>0 DEF TypeOK, Counted, Produced
<1>3. Printed'
    BY <1>0 DEF TypeOK, Counted, Printed, Produced
<1>4. Ahead'
    BY DEF TypeOK, Counted, Ahead, Kv
<1>5. ~spoilt' => Told'
    <2> SUFFICES ASSUME ~spoilt PROVE Told'
        OBVIOUS
    <2>1. cur = text[NPrompt + Produced]
        BY DEF Told, Counted
    <2>2. Continuation(emitted)'
        <3>1. ASSUME NEW i \in 1..Len(emitted') PROVE emitted'[i] = text[NPrompt + i - 1]
            <4>1. CASE i \in 1..Len(emitted)
                BY <4>1, <1>0 DEF Told, Continuation
            <4>2. CASE i = Len(emitted) + 1
                <5>1. NPrompt + i - 1 = NPrompt + Produced
                    BY <4>2 DEF Produced, TypeOK
                <5>2. QED
                    BY <5>1, <4>2, <2>1, <1>0
            <4>3. QED
                BY <4>1, <4>2, <1>0 DEF TypeOK
        <3>2. QED
            BY <3>1 DEF Continuation
    <2>3. QED
        BY <2>2 DEF Told, Follows
<1>6. QED
    BY <1>1, <1>2, <1>3, <1>4, <1>5

(* A stop token ends the plain loop.                                       *)
LEMMA PlainStopStep == SpecInv /\ PlainStop => SpecInv'
<1> SUFFICES ASSUME SpecInv, PlainStop PROVE SpecInv'
    OBVIOUS
<1> USE SizeAssumption, TextAssumption, NameAssumption
        DEF SpecInv, PlainStop, cacheVars, roundVars, fetchVars
<1>1. TypeOK'
    BY DEF TypeOK, Produced
<1>2. Counted'
    BY DEF TypeOK, Counted, MayContinue, Produced
<1>3. Printed'
    BY DEF TypeOK, Counted, Printed, MayContinue, Produced
<1>4. Ahead'
    BY DEF TypeOK, Counted, Ahead, Kv
<1>5. ~spoilt' => Told'
    BY DEF TypeOK, Counted, Printed, Told, Below, Follows, Continuation,
           Produced, MayContinue
<1>6. QED
    BY <1>1, <1>2, <1>3, <1>4, <1>5

(* The plain loop consumes the token it printed.                           *)
LEMMA PlainForwardStep == SpecInv /\ PlainForward => SpecInv'
<1> SUFFICES ASSUME SpecInv, PlainForward PROVE SpecInv'
    OBVIOUS
<1> USE SizeAssumption, TextAssumption, NameAssumption
        DEF SpecInv, PlainForward, cacheVars, roundVars, fetchVars
<1>0. tkv' \in Kv
    <2>1. \A j \in 1..1 : <<cur>>[j] \in Tokens
        BY DEF TypeOK
    <2>2. QED
        BY <2>1, ConsumeType DEF TypeOK
<1>7. pos + 1 \in Nat /\ pos + 1 <= Horizon
    BY DEF TypeOK, Counted, Horizon, Produced
<1>1. TypeOK'
    BY <1>0 DEF TypeOK, Predicts
<1>2. Counted'
    BY DEF TypeOK, Counted, MayContinue, Produced
<1>3. Printed'
    <2>1. cur = emitted[Produced] /\ emitted[Produced] \notin PlainStops
        BY DEF Printed
    <2>2. pc' = "plain" /\ emitted' = emitted /\ gdb = "target"
        BY DEF Printed, TypeOK
    <2>3. emitted[Produced]' = emitted[Produced]
        BY <2>2 DEF Produced
    <2>4. QED
        BY <2>1, <2>2, <2>3 DEF Printed
<1>4. Ahead'
    BY DEF TypeOK, Counted, Ahead, Kv
<1>5. ~spoilt' => Told'
    <2> SUFFICES ASSUME ~spoilt PROVE Told'
        OBVIOUS
    <2>1. Follows(tkv, pos) /\ cur = text[pos]
        BY DEF Told
    <2>2. \A j \in 1..1 : <<cur>>[j] = text[pos + j - 1]
        BY <2>1 DEF TypeOK
    <2>3. Follows(tkv', pos + 1)
        BY <2>1, <2>2, ConsumeText DEF TypeOK
    <2>7. \A i \in Positions : i \in Int /\ (i < pos => i < pos + 1)
        BY DEF TypeOK, Positions
    <2>4. Follows(tkv', pos)
        <3> HIDE DEF PlainForward, SpecInv
        <3>1. QED
            BY <2>3, <2>7 DEF Follows
    <2>5. cur' = text[pos + 1]
        BY <2>1, <2>4 DEF Predicts
    <2>6. QED
        BY <2>3, <2>5 DEF Told, Follows, Continuation, Produced
<1>6. QED
    BY <1>1, <1>2, <1>3, <1>4, <1>5

(* The limit ends the plain loop.                                          *)
LEMMA PlainEndStep == SpecInv /\ PlainEnd => SpecInv'
<1> SUFFICES ASSUME SpecInv, PlainEnd PROVE SpecInv'
    OBVIOUS
<1> USE SizeAssumption, TextAssumption, NameAssumption
        DEF SpecInv, PlainEnd, cacheVars, roundVars, fetchVars
<1>1. TypeOK'
    BY DEF TypeOK, Produced
<1>2. Counted'
    BY DEF TypeOK, Counted, MayContinue, Produced
<1>3. Printed'
    BY DEF TypeOK, Counted, Printed, MayContinue, Produced
<1>4. Ahead'
    BY DEF TypeOK, Counted, Ahead, Kv
<1>5. ~spoilt' => Told'
    BY DEF TypeOK, Counted, Printed, Told, Below, Follows, Continuation,
           Produced, MayContinue
<1>6. QED
    BY <1>1, <1>2, <1>3, <1>4, <1>5

(* Looking an expert up disturbs nothing.                                  *)
LEMMA FetchFindStep == SpecInv /\ FetchFind => SpecInv'
<1> SUFFICES ASSUME SpecInv, FetchFind PROVE SpecInv'
    OBVIOUS
<1> USE SizeAssumption, TextAssumption, NameAssumption
        DEF SpecInv, FetchFind, Running, cacheVars, roundVars, fetchVars
<1>1. TypeOK'
    BY DEF TypeOK, Produced
<1>2. Counted'
    BY DEF TypeOK, Counted, MayContinue, Produced
<1>3. Printed'
    BY DEF TypeOK, Counted, Printed, MayContinue, Produced
<1>4. Ahead'
    BY DEF TypeOK, Counted, Ahead, Kv
<1>5. ~spoilt' => Told'
    BY DEF TypeOK, Counted, Printed, Told, Below, Follows, Continuation,
           Produced, MayContinue
<1>6. QED
    BY <1>1, <1>2, <1>3, <1>4, <1>5

(* Reading it from the target's files disturbs nothing.                    *)
LEMMA FetchReadStep == SpecInv /\ FetchRead => SpecInv'
<1> SUFFICES ASSUME SpecInv, FetchRead PROVE SpecInv'
    OBVIOUS
<1> USE SizeAssumption, TextAssumption, NameAssumption
        DEF SpecInv, FetchRead, Running, cacheVars, roundVars, fetchVars
<1>1. TypeOK'
    BY DEF TypeOK, Produced
<1>2. Counted'
    BY DEF TypeOK, Counted, MayContinue, Produced
<1>3. Printed'
    BY DEF TypeOK, Counted, Printed, MayContinue, Produced
<1>4. Ahead'
    BY DEF TypeOK, Counted, Ahead, Kv
<1>5. ~spoilt' => Told'
    BY DEF TypeOK, Counted, Printed, Told, Below, Follows, Continuation,
           Produced, MayContinue
<1>6. QED
    BY <1>1, <1>2, <1>3, <1>4, <1>5

(* Reading it from the draft's files excuses the target, or ends the process. *)
LEMMA FetchOtherStep == SpecInv /\ FetchOther => SpecInv'
<1> SUFFICES ASSUME SpecInv, FetchOther PROVE SpecInv'
    OBVIOUS
<1> USE SizeAssumption, TextAssumption, NameAssumption
        DEF SpecInv, FetchOther, Running, cacheVars, roundVars, fetchVars
<1>1. TypeOK'
    BY DEF TypeOK, Produced
<1>2. Counted'
    BY DEF TypeOK, Counted, MayContinue, Produced
<1>3. Printed'
    BY DEF TypeOK, Counted, Printed, MayContinue, Produced
<1>4. Ahead'
    BY DEF TypeOK, Counted, Ahead, Kv
<1>5. ~spoilt' => Told'
    <2> SUFFICES ASSUME ~spoilt' PROVE Told'
        OBVIOUS
    <2>1. /\ UNCHANGED <<text, cur, pos, stop, emitted, dt, out, tkv, dkv>>
          /\ pc' \in {pc, "dead"} /\ ~spoilt
        OBVIOUS
    <2>2. Told
        BY <2>1
    <2> HIDE DEF FetchOther, SpecInv
    <2>3. /\ Continuation(emitted)' /\ \A p \in Nat : Below(p)' = Below(p)
          /\ Produced' = Produced
        BY <2>1, <2>2 DEF Told, Continuation, Below, Produced
    <2>4. QED
        BY <2>1, <2>2, <2>3 DEF Told, Below, Follows
<1>6. QED
    BY <1>1, <1>2, <1>3, <1>4, <1>5

(* A round's tokens are the target's own: the first prediction that were   *)
(* not the text's next token would follow a cache and a token that are the *)
(* text, and the proposals accepted equal the predictions.                 *)
LEMMA VerifyStep == SpecInv /\ Verify => SpecInv'
<1> SUFFICES ASSUME SpecInv, Verify PROVE SpecInv'
    OBVIOUS
<1> USE SizeAssumption, NameAssumption
<1>1. PICK pred \in [1..(K + 1) -> Tokens], a \in 0..K :
         /\ \A j \in 1..(K + 1) : pred[j] \in Predicts(tkv', pos + j - 1, Batch[j])
         /\ AcceptsUpTo(a, pred)
         /\ out' = [j \in 1..(a + 1) |-> IF j <= a THEN dt[j] ELSE pred[j]]
    BY DEF Verify
<1>2. /\ pc = "propose" /\ Len(dt) = K /\ pc' = "emit" /\ gdb' = "target"
      /\ tkv' = Consume(tkv, pos, K + 1, Batch) /\ shown' = 0
      /\ UNCHANGED <<text, haveDraft, dkv, cur, pos, stop, emitted, dt, fetch, spoilt>>
    BY DEF Verify, fetchVars
<1>3. /\ TypeOK /\ Counted /\ Printed /\ Ahead /\ (~spoilt => Told)
      /\ tkv \in Kv /\ dkv \in Kv /\ pos \in Nat /\ a \in Nat /\ K \in Nat
      /\ \A j \in 1..K : dt[j] \in Tokens
    BY <1>2 DEF SpecInv, TypeOK
<1>4. /\ Batch[1] = cur
      /\ \A j \in 1..(K + 1) : j # 1 => j - 1 \in 1..K /\ Batch[j] = dt[j - 1]
      /\ \A j \in 1..(K + 1) : Batch[j] \in Tokens
    BY <1>3 DEF Batch, TypeOK
<1>5. tkv' \in Kv
    BY <1>2, <1>3, <1>4, ConsumeType
<1>6. /\ out' \in Seq(Tokens) /\ Len(out') = a + 1
      /\ \A j \in 1..(a + 1) : out'[j] = pred[j]
    <2>1. \A j \in 1..(a + 1) : pred[j] \in Tokens /\ (j <= a => pred[j] = dt[j])
        BY <1>1, <1>3 DEF AcceptsUpTo
    <2>2. out' = [j \in 1..(a + 1) |-> pred[j]]
        BY <1>1, <2>1
    <2>3. QED
        BY <2>1, <2>2, <1>3
<1>7. TypeOK'
    BY <1>2, <1>3, <1>5, <1>6 DEF TypeOK
<1>8. Counted'
    BY <1>2, <1>3, <1>6 DEF Counted, MayContinue, Produced, TypeOK
<1>9. Printed'
    BY <1>2, <1>3, <1>6 DEF Printed, Produced, TypeOK
<1>10. Ahead'
    BY <1>2, <1>3 DEF Ahead
<1>11. ASSUME ~spoilt PROVE Told'
    <2>1. /\ Follows(tkv, pos) /\ cur = text[pos] /\ Below(pos) /\ Continuation(emitted)
          /\ \A i \in Positions : \A j \in 1..K :
                i = pos + j - 1 => dkv[i] = IF j = 1 THEN cur ELSE dt[j - 1]
        BY <1>2, <1>3, <1>11 DEF Told
    <2>2. ASSUME NEW n \in 1..(a + 1), \A j \in 1..(n - 1) : pred[j] = text[pos + j]
          PROVE  /\ \A j \in 1..n : Batch[j] = text[pos + j - 1]
                 /\ Follows(tkv', pos + n)
        <3>1. ASSUME NEW j \in 1..n PROVE Batch[j] = text[pos + j - 1]
            <4>1. CASE j = 1
                BY <4>1, <1>4, <2>1, <1>3
            <4>2. CASE j # 1
                <5>1. j - 1 \in 1..(n - 1) /\ j - 1 \in 1..a /\ j \in 1..(K + 1)
                    BY <4>2, <1>3
                <5>2. Batch[j] = dt[j - 1] /\ pred[j - 1] = dt[j - 1]
                    BY <4>2, <5>1, <1>1, <1>4 DEF AcceptsUpTo
                <5>3. QED
                    BY <5>1, <5>2, <2>2
            <4>3. QED
                BY <4>1, <4>2
        <3>2. n \in 0..(K + 1) /\ K + 1 \in Nat
            BY <1>3
        <3>3. Follows(Consume(tkv, pos, K + 1, Batch), pos + n)
            BY <3>1, <3>2, <1>3, <2>1, ConsumeText
        <3>4. QED
            BY <3>1, <3>3, <1>2
    <2>3. \A j \in 1..(a + 1) : pred[j] = text[pos + j]
        <3> DEFINE S == {j \in 1..(a + 1) : pred[j] # text[pos + j]}
        <3> SUFFICES ASSUME S # {} PROVE FALSE
            OBVIOUS
        <3>1. S \in SUBSET Nat
            BY <1>3
        <3>2. PICK m \in S : \A k \in S : m <= k
            BY <3>1, LeastElement
        <3>3. m \in 1..(a + 1) /\ m \in 1..(K + 1) /\ pred[m] # text[pos + m]
            BY <1>3
        <3>4. \A j \in 1..(m - 1) : pred[j] = text[pos + j]
            <4> SUFFICES ASSUME NEW j \in 1..(m - 1), pred[j] # text[pos + j] PROVE FALSE
                OBVIOUS
            <4>1. j \in 1..(a + 1) /\ ~(m <= j)
                BY <3>3, <1>3
            <4>2. QED
                BY <4>1, <3>2
        <3>5. Batch[m] = text[pos + m - 1] /\ Follows(tkv', pos + m)
            BY <2>2, <3>3, <3>4, <1>3
        <3>6. Follows(tkv', pos + m - 1)
            <4>1. \A i \in Positions : i < pos + m - 1 => i < pos + m
                BY <1>3, <3>3 DEF Positions
            <4>2. QED
                BY <3>5, <4>1, <1>2 DEF Follows
        <3>7. pred[m] \in Predicts(tkv', pos + m - 1, Batch[m])
            BY <3>3, <1>1
        <3>8. pred[m] = text[(pos + m - 1) + 1]
            BY <3>5, <3>6, <3>7, <1>11 DEF Predicts
        <3>9. (pos + m - 1) + 1 = pos + m
            BY <3>3, <1>3
        <3>10. QED
            BY <3>3, <3>8, <3>9
    <2>4. /\ \A j \in 1..(a + 1) : Batch[j] = text[pos + j - 1]
          /\ Follows(tkv', pos + (a + 1))
        <3>1. a + 1 \in 1..(a + 1) /\ \A j \in 1..((a + 1) - 1) : j \in 1..(a + 1)
            BY <1>3
        <3>2. \A j \in 1..((a + 1) - 1) : pred[j] = text[pos + j]
            BY <3>1, <2>3
        <3>3. QED
            BY <3>1, <3>2, <2>2
    <2>5. ASSUME NEW i \in Positions, i < pos + (a + 1) PROVE dkv[i] \in {text[i], Zero}
        <3>1. i \in Nat
            BY DEF Positions
        <3>2. CASE i < pos
            BY <3>2, <2>1 DEF Below
        <3>3. CASE i = pos + K
            BY <3>1, <3>3, <1>2, <1>3 DEF Ahead
        <3>4. CASE i >= pos /\ i # pos + K
            <4> DEFINE j == i - pos + 1
            <4>1. /\ j \in 1..K /\ j \in 1..(a + 1) /\ j \in 1..(K + 1)
                  /\ i = pos + j - 1 /\ pos + j - 1 = i
                BY <3>1, <3>4, <2>5, <1>3
            <4> HIDE DEF j
            <4>2. dkv[i] = IF j = 1 THEN cur ELSE dt[j - 1]
                BY <4>1, <2>1
            <4>3. dkv[i] = Batch[j]
                BY <4>1, <4>2, <1>4
            <4>4. Batch[j] = text[i]
                BY <4>1, <2>4
            <4>5. QED
                BY <4>3, <4>4
        <3>5. QED
            BY <3>1, <3>2, <3>3, <3>4, <1>3
    <2>6. Below(pos + Len(out))' /\ Follows(tkv, pos + Len(out))' /\ Continuation(emitted)'
        BY <2>1, <2>4, <2>5, <1>2, <1>6 DEF Below, Follows, Continuation
    <2>7. \A j \in 1..Len(out') : out'[j] = text'[pos' + j]
        BY <2>3, <1>2, <1>6
    <2>8. QED
        BY <2>6, <2>7, <1>2 DEF Told
<1>12. QED
    BY <1>2, <1>7, <1>8, <1>9, <1>10, <1>11 DEF SpecInv

----------------------------------------------------------------------------
(* The inductive invariant.                                                *)

(* It holds of the initial states.                                         *)
LEMMA InitInv == Init => SpecInv
<1> SUFFICES ASSUME Init PROVE SpecInv
    OBVIOUS
<1> USE SizeAssumption, TextAssumption DEF Init
<1>1. text \in [0..Horizon -> Tokens] /\ text[0] \in Tokens
    BY DEF Horizon
<1>2. tkv \in Kv /\ dkv \in Kv
    BY DEF Kv
<1>3. <<>> \in Seq(Tokens) /\ Len(<<>>) = 0
    OBVIOUS
<1>4. TypeOK
    <2>1. Len(dt) <= K /\ Len(out) <= K + 1 /\ shown \in 0..Len(out)
        BY <1>3
    <2>2. emitted \in Seq(Tokens) /\ dt \in Seq(Tokens) /\ out \in Seq(Tokens)
        BY <1>3
    <2>3. QED
        BY <1>1, <1>2, <2>1, <2>2 DEF TypeOK
<1>5. Counted /\ Printed /\ Ahead
    BY DEF Counted, Printed, Ahead
<1>6. Told
    BY <1>3 DEF Told, Continuation
<1>7. QED
    BY <1>4, <1>5, <1>6 DEF SpecInv

(* A step that changes nothing.                                            *)
LEMMA StutterStep == SpecInv /\ UNCHANGED vars => SpecInv'
BY DEF SpecInv, TypeOK, Counted, Printed, Ahead, Told, Below, Follows,
       Continuation, Produced, MayContinue, vars, cacheVars, roundVars, fetchVars

(* Every step preserves it.                                                *)
LEMMA NextInv == SpecInv /\ [Next]_vars => SpecInv'
<1> SUFFICES ASSUME SpecInv, [Next]_vars PROVE SpecInv'
    OBVIOUS
<1>1. CASE Main
    <2>1. CASE \E d \in Tokens : Propose(d)
        BY <2>1, ProposeStep
    <2>2. CASE LoadDraft \/ TargetPrefill \/ DraftPrefill \/ First
        BY <2>2, LoadDraftStep, TargetPrefillStep, DraftPrefillStep, FirstStep
    <2>3. CASE StartRound \/ Verify \/ ShowNext \/ EndRound \/ EndSpec
        BY <2>3, StartRoundStep, VerifyStep, ShowNextStep, EndRoundStep, EndSpecStep
    <2>4. CASE PlainShow \/ PlainStop \/ PlainForward \/ PlainEnd
        BY <2>4, PlainShowStep, PlainStopStep, PlainForwardStep, PlainEndStep
    <2>5. QED
        BY <1>1, <2>1, <2>2, <2>3, <2>4 DEF Main
<1>2. CASE FetchFind \/ FetchRead \/ FetchOther
    BY <1>2, FetchFindStep, FetchReadStep, FetchOtherStep
<1>3. CASE Terminated \/ UNCHANGED vars
    BY <1>3, StutterStep DEF Terminated
<1>4. QED
    BY <1>1, <1>2, <1>3 DEF Next

(* It is an invariant of the specification.                                *)
LEMMA InvHolds == Spec => []SpecInv
BY InitInv, NextInv, PTL DEF Spec

----------------------------------------------------------------------------
(* The theorems.                                                           *)

(* The variables keep their types, in particular a round has at most K + 1 *)
(* tokens and never more shown than it has.                                *)
THEOREM DecodeTypes == Spec => []TypeOK
<1>1. SpecInv => TypeOK
    BY DEF SpecInv
<1>2. QED
    BY <1>1, InvHolds, PTL

(* Whatever the draft proposes and wherever the round stops, the tokens    *)
(* printed are the target's greedy continuation (spec_decode, main).       *)
THEOREM GreedyOutput == Spec => []OutputIsGreedy
<1>1. SpecInv => OutputIsGreedy
    BY DEF SpecInv, Told, OutputIsGreedy
<1>2. QED
    BY <1>1, InvHolds, PTL

(* Between rounds the caches hold the text below the position: rejected    *)
(* tokens have been overwritten or lie above it (picchio.c 5096).          *)
THEOREM CachesRoll == Spec => []RollsByOverwrite
<1>1. SpecInv => RollsByOverwrite
    BY DEF SpecInv, Told, Below, Counted, Printed, RollsByOverwrite
<1>2. QED
    BY <1>1, InvHolds, PTL

(* Decoding implements greedy decoding: it prints nothing else, stops only *)
(* at a stop token, at the limit or for want of room, and prints nothing   *)
(* after a stop token.                                                     *)
THEOREM DecodeImplementsGreedy == Spec => ImplementsGreedy
<1> USE SizeAssumption, NameAssumption
<1>1. Init => Promise!Init
    BY DEF Init, Promise!Init
<1>2. SpecInv /\ SpecInv' /\ [Next]_vars => [Promise!Next]_Promise!vars
    <2> SUFFICES ASSUME SpecInv, SpecInv', [Next]_vars
                 PROVE  [Promise!Next]_Promise!vars
        OBVIOUS
    <2>0. TypeOK /\ Counted /\ Printed /\ (~spoilt' => Continuation(emitted)')
        BY DEF SpecInv, Told
    <2>1. ASSUME NEW t \in Tokens, emitted' = Append(emitted, t), pc # "done", pc' # "done",
                 emitted # <<>> =>
                   emitted[Len(emitted)] \notin IF DraftModel THEN Stops ELSE PlainStops,
                 Len(emitted) < MaxTokens \/ (emitted = <<>> /\ DraftModel),
                 UNCHANGED <<text, spoilt>>
          PROVE  Promise!Next
        <3>1. emitted'[Len(emitted) + 1] = t /\ Len(emitted') = Len(emitted) + 1
            BY <2>0, <2>1, AppendProperties DEF TypeOK
        <3>2. spoilt \/ t = text[NPrompt + Len(emitted)]
            <4> SUFFICES ASSUME ~spoilt PROVE t = text[NPrompt + Len(emitted)]
                OBVIOUS
            <4>1. Len(emitted) + 1 \in 1..Len(emitted')
                BY <3>1, <2>0 DEF TypeOK
            <4>2. t = text[NPrompt + (Len(emitted) + 1) - 1]
                BY <2>0, <2>1, <3>1, <4>1 DEF Continuation
            <4>3. NPrompt + (Len(emitted) + 1) - 1 = NPrompt + Len(emitted)
                BY <2>0 DEF TypeOK
            <4>4. QED
                BY <4>2, <4>3
        <3>3. Len(emitted) < (IF MaxTokens = 0 /\ DraftModel THEN 1 ELSE MaxTokens)
            BY <2>0, <2>1 DEF TypeOK
        <3>4. Promise!Emit(t)
            BY <2>1, <3>2, <3>3 DEF Promise!Emit, Promise!EndsIn
        <3>5. QED
            BY <3>4 DEF Promise!Next
    <2>2. ASSUME pc # "done", pc' = "done", UNCHANGED <<text, emitted, spoilt>>,
                 \/ emitted # <<>> /\ emitted[Len(emitted)] \in PlainStops
                 \/ Len(emitted) >= MaxTokens
                 \/ Len(emitted) >= CtxLen - K - 1 - NPrompt
          PROVE  Promise!Next
        BY <2>2 DEF Promise!Next, Promise!End, Promise!EndsIn
    <2>3. ASSUME UNCHANGED <<text, emitted, spoilt>>, (pc = "done") = (pc' = "done")
          PROVE  UNCHANGED Promise!vars
        BY <2>3 DEF Promise!vars
    <2>4. CASE First
        BY <2>4, <2>1, <2>0 DEF First, fetchVars, Counted, TypeOK
    <2>5. CASE ShowNext
        <3>1. out[shown + 1] \in Tokens
            BY <2>5, <2>0 DEF ShowNext, ShowsMore, TypeOK
        <3>2. emitted # <<>> => emitted[Len(emitted)] \notin Stops
            BY <2>5, <2>0 DEF ShowNext, ShowsMore, Printed, Produced, TypeOK
        <3>3. DraftModel
            BY <2>5, <2>0 DEF ShowNext, ShowsMore, Counted
        <3>4. QED
            BY <2>5, <3>1, <3>2, <3>3, <2>1 DEF ShowNext, ShowsMore, Produced, fetchVars
    <2>6. CASE PlainShow
        <3>1. emitted # <<>> => emitted[Len(emitted)] \notin PlainStops
            BY <2>6, <2>0 DEF PlainShow, Printed, Produced, TypeOK
        <3>2. QED
            BY <2>6, <3>1, <2>0, <2>1 DEF PlainShow, Produced, fetchVars, TypeOK
    <2>7. CASE EndSpec
        <3>1. emitted # <<>> /\ (stop => emitted[Len(emitted)] \in Stops)
            BY <2>7, <2>0 DEF EndSpec, Printed, Counted, Produced, TypeOK
        <3>2. \/ stop
              \/ Len(emitted) >= MaxTokens
              \/ Len(emitted) >= CtxLen - K - 1 - NPrompt
            BY <2>7, <2>0 DEF EndSpec, MayContinue, Counted, Produced, TypeOK
        <3>3. QED
            BY <2>7, <3>1, <3>2, <2>2 DEF EndSpec, fetchVars
    <2>8. CASE PlainStop
        <3>1. emitted # <<>> /\ emitted[Len(emitted)] \in PlainStops
            BY <2>8, <2>0 DEF PlainStop, Printed, Counted, Produced, TypeOK
        <3>2. QED
            BY <2>8, <3>1, <2>2 DEF PlainStop, fetchVars
    <2>9. CASE PlainEnd
        BY <2>9, <2>2 DEF PlainEnd, fetchVars, Produced
    <2>10. CASE FetchOther
        <3>1. pc # "done"
            BY <2>10 DEF FetchOther, Running
        <3>2. CASE spoilt' = TRUE /\ UNCHANGED pc
            BY <3>2, <2>10 DEF FetchOther, Promise!Next, Promise!Damage
        <3>3. CASE pc' = "dead" /\ UNCHANGED spoilt
            BY <3>1, <3>3, <2>10, <2>3 DEF FetchOther
        <3>4. CASE UNCHANGED <<pc, spoilt>>
            BY <3>4, <2>10, <2>3 DEF FetchOther
        <3>5. QED
            BY <2>10, <3>2, <3>3, <3>4 DEF FetchOther
    <2>11. CASE LoadDraft \/ TargetPrefill \/ DraftPrefill \/ StartRound
        BY <2>11, <2>3 DEF LoadDraft, TargetPrefill, DraftPrefill, StartRound, fetchVars
    <2>12. CASE \E d \in Tokens : Propose(d)
        BY <2>12, <2>3 DEF Propose, fetchVars
    <2>13. CASE Verify
        BY <2>13, <2>3 DEF Verify, fetchVars
    <2>14. CASE EndRound \/ PlainForward
        BY <2>14, <2>3 DEF EndRound, PlainForward, fetchVars
    <2>15. CASE FetchFind \/ FetchRead \/ Terminated \/ UNCHANGED vars
        BY <2>15, <2>3 DEF FetchFind, FetchRead, Terminated, vars, fetchVars
    <2>16. QED
        BY <2>4, <2>5, <2>6, <2>7, <2>8, <2>9, <2>10, <2>11, <2>12, <2>13, <2>14,
           <2>15 DEF Next, Main
<1>3. QED
    BY <1>1, <1>2, InvHolds, PTL DEF Spec, ImplementsGreedy, Promise!Spec


=============================================================================
