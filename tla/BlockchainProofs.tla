-------------------------- MODULE BlockchainProofs --------------------------
(***************************************************************************)
(* What organizeChain finds is right for every block tree and every order  *)
(* of the blocks, orphans included, and for every number of calls.         *)
(***************************************************************************)
EXTENDS Blockchain, TLAPS

(* A leaf that names no prover is for Zenon, and for SMT if Zenon fails. *)
USE ZenonT(10), SMTT(60)

(* The headers from which the parents lead to the genesis block, or round  *)
(* in a circle: the largest set closed under parents.                      *)
Closed(K) == \A k \in K : k = Genesis \/ prev[k] \in K

Linked == UNION {K \in SUBSET headerMap_ : Closed(K)}

(* The types that the proof needs; the fields of a hash that has no header *)
(* do not matter.                                                          *)
Types ==
  /\ prev \in [Hash -> Hash \cup {NoHash}]
  /\ headerMap_ \subseteq Hash /\ Genesis \in headerMap_ /\ topBlockPtr_ \in headerMap_
  /\ \A i \in DOMAIN headersById_ : headersById_[i] \in headerMap_
  /\ topID_ \in Nat /\ topID \in Nat
  /\ difficultySum_ \in [Hash -> Int]
  /\ blockHeight_ \in [Hash -> Nat \cup {NoHeight}]
  /\ isOrphan_ \in [Hash -> BOOLEAN] /\ isFinishedCalc_ \in [Hash -> BOOLEAN]
  /\ uniqueID_ \in [Hash -> Nat \cup {NoId}]
  /\ pc \in {"idle", "begin", "trace", "down", "walk"}
  /\ unseen \subseteq headerMap_

(* The genesis block is the first one that gets an id. *)
GenesisFirst ==
  /\ \A h \in headerMap_ \ {Genesis} : uniqueID_[h] \in Nat
  /\ uniqueID_[Genesis] = NoId => headerMap_ = {Genesis}

(* A sum is there only for a header that is linked to the genesis block,   *)
(* and such a header is not taken for an orphan.                           *)
Sums ==
  /\ \A h \in headerMap_ :
       /\ difficultySum_[h] = -1 \/ difficultySum_[h] > 0
       /\ difficultySum_[h] > 0 => ~isOrphan_[h] /\ blockHeight_[h] \in Nat
       /\ ~isOrphan_[h] => h \in Linked
  /\ difficultySum_[Genesis] > 0 => difficultySum_[Genesis] = 1 /\ blockHeight_[Genesis] = 0
  /\ pc \in {"trace", "down", "walk"} => difficultySum_[Genesis] = 1 /\ isFinishedCalc_[Genesis]

(* The headers that the loop of organizeChain is done with. *)
Seen == headerMap_ \ (unseen \cup IF pc = "down" THEN {header} ELSE {})

(* The loop: what it is done with has its sum or is an orphan, and weighs  *)
(* no more than the top found so far.                                      *)
Loop ==
  pc \in {"trace", "down"} =>
    /\ \A h \in Seen : /\ difficultySum_[h] > 0 \/ h \notin Linked
                       /\ difficultySum_[h] <= maxDiffSum
    /\ \/ maxDiffSum \in Nat \ {0} /\ difficultySum_[topBlockPtr_] = maxDiffSum
       \/ maxDiffSum = -1 /\ Genesis \notin Seen

(* The headers traceChainDown has put aside lie one above the other. *)
Down ==
  pc = "down" =>
    /\ header \in headerMap_ /\ thisPtr \in headerMap_ /\ headerPtrStack \in Seq(headerMap_)
    /\ \A i \in 1 .. Len(headerPtrStack) : difficultySum_[headerPtrStack[i]] < 0
    /\ \A i \in 1 .. Len(headerPtrStack) - 1 : prev[headerPtrStack[i]] = headerPtrStack[i + 1]
    /\ headerPtrStack # << >> =>
         prev[headerPtrStack[Len(headerPtrStack)]] = thisPtr /\ headerPtrStack[1] = header
    /\ headerPtrStack = << >> => thisPtr = header

(* The walk from the top, and the state between two calls. *)
Heaviest == \A h \in headerMap_ : difficultySum_[h] <= difficultySum_[topBlockPtr_]

Walking ==
  /\ pc = "walk" =>
       /\ difficultySum_[topBlockPtr_] > 0 /\ thisHeaderPtr \in Linked
       /\ \A h \in headerMap_ : difficultySum_[h] > 0 \/ h \notin Linked
  /\ pc \in {"idle", "walk"} => Heaviest

IChain == Types /\ GenesisFirst /\ Sums /\ SumsAddUp /\ Loop /\ Down /\ Walking

-----------------------------------------------------------------------------

(* Linked is closed under parents and has every child of its own. *)
LEMMA LinkedFacts ==
  ASSUME Genesis \in headerMap_
  PROVE  /\ Linked \subseteq headerMap_ /\ Genesis \in Linked
         /\ \A h \in Linked : h = Genesis \/ prev[h] \in Linked
         /\ \A h \in headerMap_ : prev[h] \in Linked => h \in Linked
<1>1. Linked \subseteq headerMap_ BY ZenonT(60) DEF Linked
<1>2. Genesis \in Linked
  <2>1. Closed({Genesis}) BY ZenonT(60) DEF Closed
  <2> QED BY <2>1 DEF Linked
<1>3. ASSUME NEW h \in Linked PROVE h = Genesis \/ prev[h] \in Linked
  <2>1. PICK K \in SUBSET headerMap_ : Closed(K) /\ h \in K BY <1>3 DEF Linked
  <2> QED BY <2>1 DEF Linked, Closed
<1>4. ASSUME NEW h \in headerMap_, prev[h] \in Linked PROVE h \in Linked
  <2>1. PICK K \in SUBSET headerMap_ : Closed(K) /\ prev[h] \in K BY <1>4 DEF Linked
  <2>2. Closed(K \cup {h}) BY <2>1 DEF Closed
  <2> QED BY <2>2 DEF Linked
<1> QED BY <1>1, <1>2, <1>3, <1>4

(* New headers take nothing from it. *)
LEMMA LinkedGrows ==
  ASSUME headerMap_ \subseteq headerMap_', prev' = prev
  PROVE  Linked \subseteq Linked'
<1> SUFFICES ASSUME NEW h \in Linked PROVE h \in Linked' OBVIOUS
<1>1. PICK K \in SUBSET headerMap_ : Closed(K) /\ h \in K BY DEF Linked
<1> QED BY <1>1 DEF Linked, Closed

LEMMA LinkedSame ==
  ASSUME headerMap_' = headerMap_, prev' = prev PROVE Linked' = Linked
BY DEF Linked, Closed

-----------------------------------------------------------------------------
(* The steps *)

LEMMA ChainInitInv == ChainInit => IChain
<1> SUFFICES ASSUME ChainInit PROVE IChain OBVIOUS
<1> USE HashAssumption DEF ChainInit
<1>5. Loop /\ Down BY DEF Loop, Down
<1>6. Walking BY SMTT(60) DEF Walking, Heaviest
<1> QED BY <1>5, <1>6, SMTT(60) DEF IChain, GenesisFirst, Types, Sums, SumsAddUp

LEMMA OrganizeBeginInv == IChain /\ OrganizeBegin => IChain'
<1> SUFFICES ASSUME IChain, OrganizeBegin PROVE IChain' OBVIOUS
<1> USE HashAssumption DEF mapVars, traceVars, walkVars
<1>l. Linked' = Linked BY LinkedSame DEF OrganizeBegin
<1>m. headerMap_' = headerMap_ /\ prev' = prev /\ uniqueID_' = uniqueID_ /\ pc' = "trace"
      /\ unseen' = headerMap_ /\ headersById_' = headersById_
  BY DEF OrganizeBegin
<1>s. \A h \in headerMap_ : difficultySum_'[h] =
        IF h = Genesis THEN 1 ELSE IF forceRebuild THEN -1 ELSE difficultySum_[h]
  BY DEF OrganizeBegin, IChain, Types
<1>h. \A h \in headerMap_ : blockHeight_'[h] =
        IF h = Genesis \/ forceRebuild THEN 0 ELSE blockHeight_[h]
  BY DEF OrganizeBegin, IChain, Types
<1>o. \A h \in headerMap_ : isOrphan_'[h] = IF h = Genesis THEN FALSE ELSE isOrphan_[h]
  BY ZenonT(60) DEF OrganizeBegin, IChain, Types
<1>t. topBlockPtr_' \in headerMap_ /\ maxDiffSum' = difficultySum_'[topBlockPtr_']
  <2>1. topBlockPtr_' \in headerMap_ BY DEF OrganizeBegin, IChain, Types
  <2> QED BY <2>1 DEF OrganizeBegin, IChain, Types
<1>1. Types' BY <1>m, <1>t, SMTT(60) DEF OrganizeBegin, IChain, Types
<1>3. Sums'
  <2>1. isFinishedCalc_'[Genesis] /\ Genesis \in headerMap_
    BY ZenonT(60) DEF OrganizeBegin, IChain, Types
  <2>2. difficultySum_'[Genesis] = 1 /\ blockHeight_'[Genesis] = 0 /\ ~isOrphan_'[Genesis]
    BY <1>s, <1>h, <1>o, <2>1, ZenonT(60)
  <2>3. ASSUME NEW h \in headerMap_, h # Genesis
        PROVE  /\ difficultySum_'[h] = -1 \/ difficultySum_'[h] > 0
               /\ difficultySum_'[h] > 0 => ~isOrphan_'[h] /\ blockHeight_'[h] \in Nat
               /\ ~isOrphan_'[h] => h \in Linked
    <3>1. isOrphan_'[h] = isOrphan_[h] BY <1>o, <2>3, ZenonT(60)
    <3>2. CASE forceRebuild BY <1>s, <2>3, <3>2, <3>1, SMTT(60) DEF IChain, Sums
    <3>3. CASE ~forceRebuild BY <1>s, <1>h, <2>3, <3>3, <3>1 DEF IChain, Sums
    <3> QED BY <3>2, <3>3
  <2> QED BY <1>l, <1>m, <2>1, <2>2, <2>3, LinkedFacts, SMTT(60) DEF Sums
<1>4. SumsAddUp'
  <2> SUFFICES ASSUME NEW h \in headerMap_ \ {Genesis}, difficultySum_'[h] > 0
               PROVE  /\ prev[h] \in headerMap_ /\ difficultySum_'[prev[h]] > 0
                      /\ difficultySum_'[h] = difficultySum_'[prev[h]] + Difficulty[h]
                      /\ blockHeight_'[h] = blockHeight_'[prev[h]] + 1
    BY <1>m DEF SumsAddUp
  <2>1. ~forceRebuild /\ difficultySum_'[h] = difficultySum_[h] /\ blockHeight_'[h] = blockHeight_[h]
    BY <1>s, <1>h, SMTT(60)
  <2> QED BY <2>1, <1>s, <1>h DEF IChain, Sums, SumsAddUp
<1>5. Loop' BY <1>m, <1>3, <1>t, <1>1, SMTT(60) DEF Seen, Sums, Types, Loop
<1> QED BY <1>1, <1>m, <1>3, <1>4, <1>5 DEF IChain, GenesisFirst, Down, Walking

LEMMA TraceDownInv == IChain /\ TraceDown => IChain'
<1> SUFFICES ASSUME IChain, TraceDown PROVE IChain' OBVIOUS
<1> USE HashAssumption DEF mapVars, topVars, fieldVars, walkVars
<1>l. Linked' = Linked BY LinkedSame, ZenonT(60) DEF TraceDown
<1>1. Types' BY ZenonT(60) DEF TraceDown, IChain, Types
<1>3. Sums' BY <1>l DEF TraceDown, IChain, Sums
<1>5. Loop' BY <1>l DEF TraceDown, Seen, IChain, Loop
<1>6. Down'
  <2> DEFINE s == headerPtrStack
  <2>1. s \in Seq(headerMap_) /\ thisPtr \in headerMap_ /\ header \in headerMap_
    BY DEF TraceDown, IChain, Down
  <2>2. s' = Append(s, thisPtr) /\ thisPtr' = prev[thisPtr] /\ header' = header
        /\ headerMap_' = headerMap_ /\ prev' = prev /\ difficultySum_' = difficultySum_
        /\ thisPtr' \in headerMap_
    BY DEF TraceDown
  <2>3. s' \in Seq(headerMap_) /\ Len(s') = Len(s) + 1 /\ s'[Len(s) + 1] = thisPtr
        /\ (\A i \in 1 .. Len(s) : s'[i] = s[i]) /\ Len(s) \in Nat
    BY <2>1, <2>2, SMTT(60)
  <2>4. \A i \in 1 .. Len(s') : difficultySum_[s'[i]] < 0
    BY <2>3, SMTT(60) DEF TraceDown, IChain, Down
  <2>5. \A i \in 1 .. Len(s') - 1 : prev[s'[i]] = s'[i + 1]
    <3> SUFFICES ASSUME NEW i \in 1 .. Len(s) PROVE prev[s[i]] = s'[i + 1] BY <2>3, SMTT(60)
    <3>1. CASE i < Len(s) BY <3>1, <2>3, SMTT(60) DEF TraceDown, IChain, Down
    <3>2. CASE i = Len(s) BY <3>2, <2>3, SMTT(60) DEF TraceDown, IChain, Down
    <3> QED BY <3>1, <3>2, <2>3, SMTT(60)
  <2> QED BY <2>1, <2>2, <2>3, <2>4, <2>5, SMTT(60) DEF Down, TraceDown, IChain
<1> QED BY <1>1, <1>3, <1>5, <1>6 DEF IChain, TraceDown, GenesisFirst, Walking, SumsAddUp

(* If thisPtr, whose parent is not in the map, is not linked, nothing that *)
(* traceChainDown has put aside above it is: StackUnlinked below.          *)
StackLinked == pc = "down" /\ thisPtr \notin Linked => header \notin Linked

LEMMA TraceOrphanInv == ASSUME IChain, TraceOrphan, StackLinked PROVE IChain'
<1> USE HashAssumption DEF mapVars, traceVars, walkVars
<1>m. /\ headerMap_' = headerMap_ /\ prev' = prev /\ uniqueID_' = uniqueID_ /\ pc' = "trace"
      /\ unseen' = unseen /\ headersById_' = headersById_ /\ difficultySum_' = difficultySum_
      /\ blockHeight_' = blockHeight_ /\ isFinishedCalc_' = isFinishedCalc_
      /\ topID_' = topID_ /\ topID' = topID
  BY DEF TraceOrphan
<1>l. Linked' = Linked BY LinkedSame, <1>m
<1>d. /\ pc = "down" /\ header \in headerMap_ /\ thisPtr \in headerMap_
      /\ difficultySum_[thisPtr] < 0
  BY DEF TraceOrphan, IChain, Down
<1>n. header \notin Linked BY <1>d, LinkedFacts, SMTT(60) DEF StackLinked, IChain, Sums, Types, TraceOrphan
<1>o. \A h \in headerMap_ : isOrphan_'[h] = IF h = thisPtr THEN TRUE ELSE isOrphan_[h]
  BY ZenonT(60) DEF TraceOrphan, IChain, Types
<1>p. isOrphan_'[header]
  <2>1. isOrphan_[header] BY <1>n, <1>d DEF IChain, Sums
  <2> QED BY <1>o, <1>d, <2>1, ZenonT(60)
<1>k. topBlockPtr_' = topBlockPtr_ /\ maxDiffSum' = maxDiffSum
  BY <1>p DEF TraceOrphan, TakeTop, topVars
<1>1. Types'
  <2>1. isOrphan_' \in [Hash -> BOOLEAN] BY ZenonT(60) DEF TraceOrphan, IChain, Types
  <2> QED BY <1>m, <1>k, <2>1 DEF IChain, Types
<1>3. Sums'
  <2>1. ASSUME NEW h \in headerMap_, difficultySum_[h] > 0 PROVE ~isOrphan_'[h]
    <3>1. ~isOrphan_[h] /\ difficultySum_[h] \in Int BY <2>1 DEF IChain, Sums, Types
    <3>2. h # thisPtr BY <3>1, <2>1, <1>d, SMTT(60)
    <3> QED BY <1>o, <3>1, <3>2, ZenonT(60)
  <2>2. ASSUME NEW h \in headerMap_, ~isOrphan_'[h] PROVE h \in Linked
    <3>1. h # thisPtr BY <1>o, <2>2, ZenonT(60)
    <3>2. ~isOrphan_[h] BY <1>o, <2>2, <3>1, ZenonT(60)
    <3> QED BY <3>2 DEF IChain, Sums
  <2> QED BY <1>m, <1>l, <2>1, <2>2, <1>d DEF IChain, Sums
<1>5. Loop'
  <2>1. Seen' = headerMap_ \ unseen BY <1>m DEF Seen
  <2>2. Seen = headerMap_ \ (unseen \cup {header}) BY <1>d DEF Seen
  <2>7. \A h \in Seen' : /\ difficultySum_[h] > 0 \/ h \notin Linked
                         /\ difficultySum_[h] <= maxDiffSum
    BY <2>1, <2>2, <1>n, <1>d, SMTT(60) DEF IChain, Loop, Sums
  <2>8. \/ maxDiffSum \in Nat \ {0} /\ difficultySum_[topBlockPtr_] = maxDiffSum
        \/ maxDiffSum = -1 /\ Genesis \notin Seen'
    BY <2>1, <2>2, LinkedFacts, <1>n, <1>d DEF IChain, Loop, Types
  <2> QED BY <1>m, <1>l, <1>k, <2>7, <2>8 DEF Loop
<1> QED BY <1>1, <1>m, <1>3, <1>5 DEF IChain, GenesisFirst, Down, Walking, SumsAddUp

LEMMA TraceEndInv == IChain /\ TraceEnd => IChain'
<1> SUFFICES ASSUME IChain, TraceEnd PROVE IChain' OBVIOUS
<1> USE HashAssumption DEF mapVars, fieldVars, traceVars, walkVars
<1>m. /\ headerMap_' = headerMap_ /\ prev' = prev /\ uniqueID_' = uniqueID_ /\ pc' = "trace"
      /\ unseen' = unseen /\ headersById_' = headersById_ /\ difficultySum_' = difficultySum_
      /\ blockHeight_' = blockHeight_ /\ isFinishedCalc_' = isFinishedCalc_
      /\ isOrphan_' = isOrphan_ /\ topID_' = topID_ /\ topID' = topID
  BY DEF TraceEnd
<1>l. Linked' = Linked BY LinkedSame, <1>m
<1>d. /\ pc = "down" /\ header \in headerMap_ /\ difficultySum_[header] > 0
  BY DEF TraceEnd, IChain, Down
<1>k. IF difficultySum_[header] > maxDiffSum
        THEN maxDiffSum' = difficultySum_[header] /\ topBlockPtr_' = header
        ELSE maxDiffSum' = maxDiffSum /\ topBlockPtr_' = topBlockPtr_
  BY <1>d DEF TraceEnd, TakeTop, topVars, IChain, Sums
<1>i. difficultySum_[header] \in Nat \ {0} /\ maxDiffSum \in Int BY <1>d, SMTT(60) DEF IChain, Types, Loop
<1>1. Types'
  <2>1. topBlockPtr_' \in headerMap_ BY <1>k, <1>d DEF IChain, Types
  <2> QED BY <1>m, <2>1, ZenonT(60) DEF IChain, Types
<1>3. Sums' BY <1>m, <1>l, <1>d DEF IChain, Sums
<1>5. Loop'
  <2>3. maxDiffSum' \in Nat \ {0} /\ difficultySum_[topBlockPtr_'] = maxDiffSum'
    BY <1>k, <1>i, <1>d, SMTT(60) DEF IChain, Loop
  <2>4. maxDiffSum <= maxDiffSum' /\ difficultySum_[header] <= maxDiffSum' BY <1>k, <1>i, SMTT(60)
  <2>5. ASSUME NEW h \in headerMap_ \ unseen
        PROVE  /\ difficultySum_[h] > 0 \/ h \notin Linked
               /\ difficultySum_[h] <= maxDiffSum'
    <3>1. CASE h = header BY <3>1, <1>d, <2>4
    <3>2. CASE h # header BY <3>2, <1>d, <2>4, <2>3, <1>i, SMTT(60) DEF IChain, Loop, Types, Seen
    <3> QED BY <3>1, <3>2
  <2> QED BY <1>m, <1>l, <2>3, <2>5 DEF Loop, Seen
<1> QED BY <1>1, <1>m, <1>3, <1>5 DEF IChain, GenesisFirst, Down, Walking, SumsAddUp

(* A sequence without its last element. *)
LEMMA ButLast ==
  ASSUME NEW S, NEW q \in Seq(S), Len(q) \in Nat \ {0}
  PROVE  /\ SubSeq(q, 1, Len(q) - 1) \in Seq(S)
         /\ Len(SubSeq(q, 1, Len(q) - 1)) = Len(q) - 1
         /\ \A i \in 1 .. Len(q) - 1 : SubSeq(q, 1, Len(q) - 1)[i] = q[i]
<1> DEFINE n == Len(q) - 1
<1>1. n \in Nat /\ n <= Len(q) BY SMTT(60)
<1> HIDE DEF n
<1>3. Len(SubSeq(q, 1, n)) = n BY <1>1, SMTT(60)
<1> QED BY <1>1, <1>3, SMTT(60) DEF n

LEMMA TraceUpInv == IChain /\ TraceUp => IChain'
<1> SUFFICES ASSUME IChain, TraceUp PROVE IChain' OBVIOUS
<1> USE HashAssumption DEF mapVars, topVars, walkVars
<1> DEFINE s == headerPtrStack
           h == s[Len(s)]
<1>m. /\ headerMap_' = headerMap_ /\ prev' = prev /\ uniqueID_' = uniqueID_ /\ pc' = pc
      /\ unseen' = unseen /\ headersById_' = headersById_ /\ topBlockPtr_' = topBlockPtr_
      /\ isFinishedCalc_' = isFinishedCalc_ /\ maxDiffSum' = maxDiffSum /\ header' = header
      /\ topID_' = topID_ /\ topID' = topID /\ pc = "down"
  BY DEF TraceUp
<1>l. Linked' = Linked BY LinkedSame, <1>m
<1>d. /\ s \in Seq(headerMap_) /\ Len(s) \in Nat \ {0}
      /\ header \in headerMap_ /\ thisPtr \in headerMap_ /\ difficultySum_[thisPtr] > 0
      /\ \A i \in 1 .. Len(s) : difficultySum_[s[i]] < 0
      /\ \A i \in 1 .. Len(s) - 1 : prev[s[i]] = s[i + 1]
      /\ prev[h] = thisPtr /\ s[1] = header
  BY SMTT(60) DEF TraceUp, IChain, Down
<1>e. /\ difficultySum_' = [difficultySum_ EXCEPT ![h] = SumAbove(h)]
      /\ blockHeight_' = [blockHeight_ EXCEPT ![h] = blockHeight_[thisPtr] + 1]
      /\ isOrphan_' = [isOrphan_ EXCEPT ![h] = FALSE]
      /\ thisPtr' = h /\ s' = SubSeq(s, 1, Len(s) - 1)
  BY DEF TraceUp, Connected
<1>h. h \in headerMap_ /\ difficultySum_[h] < 0 /\ h \in Hash /\ difficultySum_[h] \in Int
  <2>2. h \in headerMap_ /\ difficultySum_[h] < 0 BY <1>d, SMTT(60)
  <2> QED BY <2>2, ZenonT(60) DEF IChain, Types
<1>g. h # Genesis BY <1>h, <1>m, SMTT(60) DEF IChain, Sums
<1>a. \A i \in 1 .. Len(s) - 1 : s[i] # h
  <2> SUFFICES ASSUME NEW i \in 1 .. Len(s) - 1, s[i] = h PROVE FALSE OBVIOUS
  <2>3. difficultySum_[thisPtr] \in Int BY <1>d DEF IChain, Types
  <2> QED BY <1>d, <2>3, SMTT(60)
<1>t. thisPtr \in Hash /\ thisPtr # h /\ difficultySum_[thisPtr] \in Int
  BY <1>d, <1>h, SMTT(60) DEF IChain, Types
<1>b. blockHeight_[thisPtr] \in Nat BY <1>d DEF IChain, Sums
<1>q. h \in Linked
  <2>1. thisPtr \in Linked BY <1>d DEF IChain, Sums
  <2>2. Genesis \in headerMap_ BY DEF IChain, Types
  <2> QED BY <2>1, <2>2, <1>d, <1>h, LinkedFacts, ZenonT(60)
<1> HIDE DEF h
<1>s. SumAbove(h) \in Nat \ {0} /\ SumAbove(h) = difficultySum_[thisPtr] + Difficulty[h]
  BY <1>t, <1>h, <1>d, SMTT(60) DEF SumAbove
<1>v. /\ difficultySum_'[h] = SumAbove(h) /\ blockHeight_'[h] = blockHeight_[thisPtr] + 1
      /\ isOrphan_'[h] = FALSE
      /\ \A g \in headerMap_ \ {h} : /\ difficultySum_'[g] = difficultySum_[g]
                                     /\ blockHeight_'[g] = blockHeight_[g]
                                     /\ isOrphan_'[g] = isOrphan_[g]
  BY <1>e, <1>h DEF IChain, Types
<1>1. Types'
  <2>1. difficultySum_' \in [Hash -> Int]
    <3>1. SumAbove(h) \in Int /\ difficultySum_ \in [Hash -> Int] BY <1>s, SMTT(60) DEF IChain, Types
    <3> QED BY <3>1, <1>e, ZenonT(60)
  <2>2. blockHeight_' \in [Hash -> Nat \cup {NoHeight}]
    <3>1. /\ blockHeight_[thisPtr] + 1 \in Nat \cup {NoHeight}
          /\ blockHeight_ \in [Hash -> Nat \cup {NoHeight}]
      BY <1>b, SMTT(60) DEF IChain, Types
    <3> QED BY <3>1, <1>e, ZenonT(60)
  <2>3. isOrphan_' \in [Hash -> BOOLEAN] BY <1>e, ZenonT(60) DEF IChain, Types
  <2> QED BY <1>m, <2>1, <2>2, <2>3 DEF IChain, Types
<1>2. GenesisFirst' BY <1>m DEF IChain, GenesisFirst
<1>3. Sums'
  <2>1. ASSUME NEW g \in headerMap_
        PROVE  /\ difficultySum_'[g] = -1 \/ difficultySum_'[g] > 0
               /\ difficultySum_'[g] > 0 => ~isOrphan_'[g] /\ blockHeight_'[g] \in Nat
               /\ ~isOrphan_'[g] => g \in Linked BY <1>v, <1>s, <1>b, <1>q, SMTT(60) DEF IChain, Sums
  <2> QED BY <1>m, <1>l, <2>1, <1>v, <1>g DEF IChain, Sums, Types
<1>4. SumsAddUp'
  <2> SUFFICES ASSUME NEW g \in headerMap_ \ {Genesis}, difficultySum_'[g] > 0
               PROVE  /\ prev[g] \in headerMap_ /\ difficultySum_'[prev[g]] > 0
                      /\ difficultySum_'[g] = difficultySum_'[prev[g]] + Difficulty[g]
                      /\ blockHeight_'[g] = blockHeight_'[prev[g]] + 1
    BY <1>m DEF SumsAddUp
  <2>1. CASE g = h BY <2>1, <1>v, <1>s, <1>d, <1>t
  <2>2. CASE g # h
    <3>2. /\ prev[g] \in headerMap_ /\ difficultySum_[prev[g]] > 0
          /\ difficultySum_[g] = difficultySum_[prev[g]] + Difficulty[g]
          /\ blockHeight_[g] = blockHeight_[prev[g]] + 1 BY <2>2, <1>v DEF IChain, SumsAddUp
    <3>4. prev[g] # h BY <3>2, <1>h, SMTT(60) DEF IChain, Types
    <3> QED BY <3>2, <3>4, <2>2, <1>v
  <2> QED BY <2>1, <2>2
<1>5. Loop'
  <2>1. Seen' = Seen /\ Seen \subseteq headerMap_ BY <1>m DEF Seen
  <2>3. \A g \in Seen : difficultySum_'[g] = difficultySum_[g]
    BY <2>1, <1>h, <1>q, <1>m, <1>v, SMTT(60) DEF IChain, Loop, Sums
  <2>5. maxDiffSum \in Nat \ {0} /\ difficultySum_[topBlockPtr_] = maxDiffSum
          => difficultySum_'[topBlockPtr_] = maxDiffSum BY <1>v, <1>h, SMTT(60) DEF IChain, Types
  <2> QED BY <1>m, <1>l, <2>1, <2>3, <2>5 DEF IChain, Loop
<1>6. Down'
  <2> DEFINE r == SubSeq(s, 1, Len(s) - 1)
  <2>1. r \in Seq(headerMap_) /\ Len(r) = Len(s) - 1 /\ (\A i \in 1 .. Len(s) - 1 : r[i] = s[i])
    BY <1>d, ButLast
  <2> HIDE DEF r
  <2>2. \A i \in 1 .. Len(r) : difficultySum_'[r[i]] < 0
    <3> SUFFICES ASSUME NEW i \in 1 .. Len(s) - 1 PROVE difficultySum_'[s[i]] < 0 BY <2>1
    <3> QED BY <1>d, <1>a, <1>v, SMTT(60)
  <2>3. \A i \in 1 .. Len(r) - 1 : prev[r[i]] = r[i + 1]
    <3> SUFFICES ASSUME NEW i \in 1 .. Len(s) - 2 PROVE prev[s[i]] = s[i + 1] BY <2>1, <1>d, SMTT(60)
    <3> QED BY <1>d, SMTT(60)
  <2>4. r # << >> => prev[r[Len(r)]] = h /\ r[1] = header
    <3> SUFFICES ASSUME r # << >> PROVE prev[r[Len(r)]] = h /\ r[1] = header OBVIOUS
    <3> QED BY <2>1, <1>d, SMTT(60) DEF h
  <2>5. r = << >> => h = header
    <3> SUFFICES ASSUME r = << >> PROVE h = header OBVIOUS
    <3>1. Len(s) = 1 BY <2>1, <1>d, SMTT(60)
    <3> QED BY <3>1, <1>d DEF h
  <2>6. s' = r /\ thisPtr' = h BY <1>e DEF r
  <2> QED BY <1>m, <1>h, <1>d, <2>1, <2>2, <2>3, <2>4, <2>5, <2>6 DEF Down
<1>7. Walking' BY <1>m DEF Walking
<1> QED BY <1>1, <1>2, <1>3, <1>4, <1>5, <1>6, <1>7 DEF IChain

LEMMA WalkBeginInv == IChain /\ WalkBegin => IChain'
<1> SUFFICES ASSUME IChain, WalkBegin PROVE IChain' OBVIOUS
<1> USE HashAssumption DEF mapVars, topVars, traceVars
<1>m. /\ headerMap_' = headerMap_ /\ prev' = prev /\ uniqueID_' = uniqueID_ /\ pc' = "walk"
      /\ unseen' = unseen /\ headersById_' = headersById_ /\ difficultySum_' = difficultySum_
      /\ blockHeight_' = blockHeight_ /\ isFinishedCalc_' = isFinishedCalc_
      /\ isOrphan_' = isOrphan_ /\ topID_' = topID_ /\ topID' = topID
      /\ topBlockPtr_' = topBlockPtr_ /\ thisHeaderPtr' = topBlockPtr_ /\ pc = "trace"
      /\ unseen = {}
  BY DEF WalkBegin
<1>l. Linked' = Linked BY LinkedSame, <1>m
<1>1. Types' BY <1>m DEF IChain, Types
<1>3. Sums' BY <1>m, <1>l DEF IChain, Sums
<1>6. Walking' BY <1>m, <1>l, SMTT(60) DEF Seen, IChain, Types, Loop, Sums, Walking, Heaviest
<1> QED BY <1>1, <1>m, <1>3, <1>6 DEF IChain, Loop, Down, GenesisFirst, SumsAddUp

LEMMA WalkInv == IChain /\ Walk => IChain'
<1> SUFFICES ASSUME IChain, Walk PROVE IChain' OBVIOUS
<1> USE HashAssumption DEF mapVars, topVars, traceVars
<1> DEFINE h == thisHeaderPtr
<1>m. /\ headerMap_' = headerMap_ /\ prev' = prev /\ uniqueID_' = uniqueID_ /\ pc' = pc
      /\ unseen' = unseen /\ headersById_' = headersById_ /\ difficultySum_' = difficultySum_
      /\ blockHeight_' = blockHeight_ /\ topID_' = topID_ /\ topBlockPtr_' = topBlockPtr_
      /\ thisHeaderPtr' = prev[h] /\ pc = "walk"
  BY DEF Walk
<1>l. Linked' = Linked BY LinkedSame, <1>m
<1>h. h \in Linked /\ h \in headerMap_ /\ h # Genesis /\ prev[h] \in Linked
  BY <1>m, LinkedFacts DEF IChain, Walking, Walk, Sums, Types
<1>o. isOrphan_' = [isOrphan_ EXCEPT ![h] = FALSE] /\ isFinishedCalc_' = [isFinishedCalc_ EXCEPT ![h] = TRUE]
  BY DEF Walk
<1>1. Types'
  <2>1. isOrphan_' \in [Hash -> BOOLEAN] /\ isFinishedCalc_' \in [Hash -> BOOLEAN]
    BY <1>o, ZenonT(60) DEF IChain, Types
  <2>2. topID' \in Nat BY <1>h DEF IChain, GenesisFirst, Walk, Types
  <2> QED BY <1>m, <2>1, <2>2 DEF IChain, Types
<1>3. Sums'
  <2>2. ASSUME NEW g \in headerMap_
        PROVE  /\ difficultySum_[g] > 0 => ~isOrphan_'[g]
               /\ ~isOrphan_'[g] => g \in Linked
    <3>1. CASE g = h BY <3>1, <1>o, <1>h DEF IChain, Types
    <3>2. CASE g # h BY <3>2, <1>o DEF IChain, Types, Sums
    <3> QED BY <3>1, <3>2
  <2> QED BY <1>m, <1>l, <1>o, <1>h, <2>2 DEF IChain, Sums, Types
<1>6. Walking' BY <1>m, <1>l, <1>h DEF IChain, Walking, Heaviest
<1> QED BY <1>1, <1>m, <1>3, <1>6 DEF IChain, GenesisFirst, SumsAddUp, Loop, Down

LEMMA WalkEndInv == IChain /\ WalkEnd => IChain'
<1> SUFFICES ASSUME IChain, WalkEnd PROVE IChain' OBVIOUS
<1> USE HashAssumption DEF mapVars, topVars, traceVars, walkVars
<1>m. /\ headerMap_' = headerMap_ /\ prev' = prev /\ uniqueID_' = uniqueID_
      /\ pc' \in {"begin", "idle"}
      /\ unseen' = unseen /\ headersById_' = headersById_ /\ difficultySum_' = difficultySum_
      /\ blockHeight_' = blockHeight_ /\ isFinishedCalc_' = isFinishedCalc_
      /\ isOrphan_' = isOrphan_ /\ topID_' = topID + 1 /\ topID' = topID
      /\ topBlockPtr_' = topBlockPtr_ /\ pc = "walk"
  BY DEF WalkEnd
<1>l. Linked' = Linked BY LinkedSame, <1>m
<1>1. Types' BY <1>m, SMTT(60) DEF IChain, Types
<1>4. SumsAddUp' BY <1>m DEF IChain, SumsAddUp
<1>6. Walking' BY <1>m, <1>l DEF IChain, Walking, Heaviest
<1> QED BY <1>1, <1>m, <1>l, <1>4, <1>6 DEF IChain, Loop, Down, GenesisFirst, Sums

LEMMA OrganizeInv ==
  ASSUME IChain, NEW force, Organize(force),
         UNCHANGED <<prev, mapVars, topVars, topID_, fieldVars, topID, unseen>>
  PROVE  IChain'
<1> USE DEF mapVars, topVars, fieldVars
<1>m. pc' = "begin" BY DEF Organize
<1>5. Loop' /\ Down' /\ Walking' BY <1>m, ZenonT(60) DEF Loop, Down, Walking
<1> QED BY <1>m, LinkedSame, <1>5, ZenonT(60) DEF IChain, GenesisFirst, SumsAddUp, Types, Sums

(* The blocks of a file: what is known keeps its fields, and the           *)
(* placeholder of the genesis block is replaced only while it is alone.    *)
LEMMA AddBlocksInv ==
  ASSUME IChain, pc = "idle", NEW file \in Seq(Hash), addBlocksInBulk(file),
         Known(Genesis) \/ file = << >> \/ file[1] = Genesis,
         UNCHANGED <<prev, topBlockPtr_, pc, topID, unseen>>
  PROVE  IChain' /\ (Known(Genesis) \/ file # << >> => uniqueID_'[Genesis] # NoId)
<1> USE HashAssumption
<1> DEFINE all == {file[i] : i \in DOMAIN file}
           new == {h \in all : ~Known(h)}
<1>a. Len(file) \in Nat /\ DOMAIN file = 1 .. Len(file) /\ all \subseteq Hash BY SMTT(60)
<1>t. topID_ \in Nat /\ headerMap_ \subseteq Hash /\ Genesis \in headerMap_ BY DEF IChain, Types
<1>i. \A h \in new : IdInFile(file, h) \in Nat
  <2> SUFFICES ASSUME NEW h \in new PROVE IdInFile(file, h) \in Nat OBVIOUS
  <2> DEFINE k == CHOOSE i \in 1 .. Len(file) : file[i] = h
  <2>2. k \in 1 .. Len(file) BY <1>a
  <2> HIDE DEF k
  <2> QED BY <2>2, <1>a, <1>t, SMTT(60) DEF IdInFile, k
<1>c. \/ new \cap headerMap_ = {}
      \/ headerMap_ = {Genesis} /\ Genesis \in new
  <2>1. CASE Known(Genesis)
    <3>1. \A h \in headerMap_ : Known(h) BY <2>1 DEF Known, IChain, GenesisFirst
    <3> QED BY <3>1
  <2>2. CASE ~Known(Genesis) /\ file = << >> BY <2>2, <1>a, SMTT(60)
  <2>3. CASE ~Known(Genesis) /\ file # << >> /\ file[1] = Genesis
    BY <2>3, <1>a, <1>t DEF Known, IChain, GenesisFirst
  <2> QED BY <2>1, <2>2, <2>3
<1>m. headerMap_' = headerMap_ \cup new BY DEF addBlocksInBulk, InsertHeaders
<1>n. new \subseteq Hash BY <1>a
<1>f. /\ uniqueID_' = [h \in Hash |-> IF h \in new THEN IdInFile(file, h) ELSE uniqueID_[h]]
      /\ difficultySum_' = [h \in Hash |-> IF h \in new THEN -1 ELSE difficultySum_[h]]
      /\ blockHeight_' = [h \in Hash |-> IF h \in new THEN NoHeight ELSE blockHeight_[h]]
      /\ isFinishedCalc_' = [h \in Hash |-> h \notin new /\ isFinishedCalc_[h]]
      /\ isOrphan_' = [h \in Hash |-> h \in new \/ isOrphan_[h]]
      /\ topID_' = topID_ + Len(file)
  BY ZenonT(60) DEF addBlocksInBulk
<1>b. \A i \in DOMAIN headersById_' : headersById_'[i] \in headerMap_'
  <2> DEFINE ids == {IdInFile(file, h) : h \in new}
  <2>1. headersById_' = [i \in DOMAIN headersById_ \cup ids |->
                           IF i \in ids THEN CHOOSE h \in new : IdInFile(file, h) = i
                                        ELSE headersById_[i]]
    BY ZenonT(60) DEF addBlocksInBulk
  <2>2. ASSUME NEW i \in ids PROVE (CHOOSE h \in new : IdInFile(file, h) = i) \in new BY <2>2
  <2>3. \A i \in DOMAIN headersById_ : headersById_[i] \in headerMap_ BY DEF IChain, Types
  <2> HIDE DEF ids, new
  <2> QED BY <2>1, <2>2, <2>3, <1>m, SMTT(60)
<1> HIDE DEF new, all
<1>1. Types' BY <1>f, <1>i, <1>a, <1>t, <1>m, <1>n, <1>b, SMTT(60) DEF IChain, Types
<1>v. \A h \in new : /\ uniqueID_'[h] \in Nat /\ difficultySum_'[h] = -1 /\ isOrphan_'[h]
  BY <1>f, <1>i, <1>n, ZenonT(60)
<1>w. \A h \in headerMap_ : h \notin new =>
        /\ uniqueID_'[h] = uniqueID_[h] /\ difficultySum_'[h] = difficultySum_[h]
        /\ blockHeight_'[h] = blockHeight_[h] /\ isOrphan_'[h] = isOrphan_[h]
  BY <1>f, <1>t DEF IChain, Types
<1>2. GenesisFirst'
  <2>1. CASE new \cap headerMap_ = {}
    <3>1. \A h \in headerMap_ : uniqueID_'[h] = uniqueID_[h] BY <2>1, <1>w
    <3>2. \A h \in headerMap_' \ {Genesis} : uniqueID_'[h] \in Nat
      BY <3>1, <1>v, <1>m DEF IChain, GenesisFirst
    <3>3. CASE Known(Genesis) BY <3>1, <3>2, <3>3, <1>t DEF Known, GenesisFirst
    <3>4. CASE ~Known(Genesis)
      <4>2. new = {} BY <1>a, <3>4, <2>1, <1>t, SMTT(60) DEF new, all
      <4> QED BY <4>2, <3>1, <3>2, <1>m, <1>t DEF IChain, GenesisFirst
    <3> QED BY <3>3, <3>4
  <2>2. CASE headerMap_ = {Genesis} /\ Genesis \in new
    BY <2>2, <1>v, <1>m DEF GenesisFirst
  <2> QED BY <1>c, <2>1, <2>2
<1>3. Sums' BY <1>v, <1>m, <1>w, LinkedGrows, <1>t, SMTT(60) DEF IChain, Sums
<1>4. SumsAddUp'
  <2> SUFFICES ASSUME NEW h \in headerMap_' \ {Genesis}, difficultySum_'[h] > 0
               PROVE  /\ prev[h] \in headerMap_' /\ difficultySum_'[prev[h]] > 0
                      /\ difficultySum_'[h] = difficultySum_'[prev[h]] + Difficulty[h]
                      /\ blockHeight_'[h] = blockHeight_'[prev[h]] + 1
    BY DEF SumsAddUp
  <2>1. ~(-1 > 0) BY SMTT(60)
  <2>2. h \notin new BY <2>1, <1>v, ZenonT(60)
  <2>3. h \in headerMap_ /\ h # Genesis BY <2>2, <1>m, ZenonT(60)
  <2>4. new \cap headerMap_ = {} BY <2>3, <1>c, ZenonT(60)
  <2>5. difficultySum_[h] > 0 BY <2>2, <2>3, <1>w, ZenonT(60)
  <2>6. /\ prev[h] \in headerMap_ /\ difficultySum_[prev[h]] > 0
        /\ difficultySum_[h] = difficultySum_[prev[h]] + Difficulty[h]
        /\ blockHeight_[h] = blockHeight_[prev[h]] + 1
    BY <2>3, <2>5, ZenonT(60) DEF IChain, SumsAddUp
  <2>7. prev[h] \notin new BY <2>4, <2>6, ZenonT(60)
  <2> QED BY <2>2, <2>3, <2>6, <2>7, <1>w, <1>m, ZenonT(60)
<1>6. Walking'
  <2>1. ASSUME NEW h \in headerMap_' PROVE difficultySum_'[h] <= difficultySum_'[topBlockPtr_]
    BY <1>w, <1>v, <1>m, <1>c, SMTT(60) DEF IChain, Types, Sums, Walking, Heaviest
  <2> QED BY <2>1 DEF Walking, Heaviest
<1>7. ASSUME Known(Genesis) \/ file # << >> PROVE uniqueID_'[Genesis] # NoId
  <2>1. CASE Genesis \in new BY <2>1, <1>v
  <2>2. CASE Genesis \notin new
    <3>1. Known(Genesis)
      <4> SUFFICES ASSUME ~Known(Genesis) PROVE FALSE OBVIOUS
      <4> QED BY <1>7, <1>a, <2>2, SMTT(60) DEF new, all
    <3> QED BY <2>2, <3>1, <1>w, <1>t, ZenonT(60) DEF Known
  <2> QED BY <2>1, <2>2
<1> QED BY <1>1, <1>2, <1>3, <1>4, <1>6, <1>7 DEF IChain, Loop, Down

(* What the invariant is about. *)
chainState == <<prev, headerMap_, headersById_, uniqueID_, topBlockPtr_, topID_, topID,
                difficultySum_, blockHeight_, isFinishedCalc_, isOrphan_, pc, maxDiffSum, unseen,
                header, thisPtr, headerPtrStack, thisHeaderPtr>>

LEMMA ChainSameInv == IChain /\ UNCHANGED chainState => IChain'
<1> SUFFICES ASSUME IChain, UNCHANGED chainState PROVE IChain' OBVIOUS
<1> USE DEF chainState
<1>l. Linked' = Linked BY LinkedSame
<1>5. Loop' BY <1>l DEF Seen, IChain, Loop
<1>6. Down' BY DEF IChain, Down
<1>7. Walking' BY <1>l DEF IChain, Walking, Heaviest
<1> QED BY <1>l, <1>5, <1>6, <1>7, ZenonT(60) DEF IChain, GenesisFirst, Types, Sums, SumsAddUp

LEMMA ChainStutterInv == IChain /\ UNCHANGED chainVars => IChain'
BY ChainSameInv DEF chainState, chainVars, mapVars, topVars, fieldVars, traceVars, walkVars

(* What the invariant says at the end of the loop: a header without a sum  *)
(* is one that cannot be reached from the genesis block.                   *)
LEMMA TracedFromInv == IChain => AllTraced
<1> SUFFICES ASSUME IChain, pc = "walk", NEW h \in headerMap_ \ {Genesis}
             PROVE  IF prev[h] \in headerMap_ /\ difficultySum_[prev[h]] > 0
                      THEN difficultySum_[h] > 0 /\ ~ isOrphan_[h]
                      ELSE isOrphan_[h]
  BY DEF AllTraced
<1>1. \A g \in headerMap_ : difficultySum_[g] > 0 <=> g \in Linked BY DEF IChain, Walking, Sums
<1>3. h \in Linked <=> prev[h] \in headerMap_ /\ prev[h] \in Linked BY LinkedFacts DEF IChain, Types
<1>4. CASE prev[h] \in headerMap_ /\ difficultySum_[prev[h]] > 0
  BY <1>1, <1>3, <1>4 DEF IChain, Sums
<1>5. CASE ~(prev[h] \in headerMap_ /\ difficultySum_[prev[h]] > 0)
  BY <1>1, <1>3, <1>5 DEF IChain, Sums
<1> QED BY <1>4, <1>5

-----------------------------------------------------------------------------
(* Numbers and finite sets.  The library comes in here, after the steps    *)
(* that can do without it: its facts are in the context of whatever        *)
(* follows.                                                                *)
INSTANCE FiniteSetTheorems

(* A set of natural numbers has a lowest one, which Min takes. *)
LEMMA Lowest == ASSUME NEW T \in SUBSET Nat, T # {} PROVE \E x \in T : \A y \in T : x <= y
<1> DEFINE R == OpToRel(<, Nat)
<1>1. ASSUME NEW x \in Nat, NEW y \in Nat, x < y PROVE <<x, y>> \in R
  BY <1>1, ZenonT(60) DEF OpToRel
<1>2. IsWellFoundedOn(R, Nat) BY NatLessThanWellFounded, ZenonT(60) DEF R
<1> HIDE DEF R
<1>3. PICK x \in T : \A y \in T : ~(<<y, x>> \in R) BY <1>2, WFMin, ZenonT(60)
<1>4. ASSUME NEW y \in T PROVE x <= y
  <2>1. x \in Nat /\ y \in Nat OBVIOUS
  <2>2. ~(y < x) BY <1>1, <1>3, <2>1, ZenonT(60)
  <2> QED BY <2>1, <2>2, SMTT(60)
<1> QED BY <1>4

LEMMA MinIsIn == ASSUME NEW T \in SUBSET Nat, T # {} PROVE Min(T) \in T
BY Lowest, ZenonT(60) DEF Min

(* A function on a finite set has a largest value. *)
LEMMA Largest ==
  ASSUME NEW S, IsFiniteSet(S), S # {}, NEW f, \A x \in S : f[x] \in Nat
  PROVE  \E x \in S : \A y \in S : f[y] <= f[x]
<1> DEFINE Has(U) == \E x \in U : \A y \in U : f[y] <= f[x]
           T == {n \in Nat : \E U \in SUBSET S : U # {} /\ Cardinality(U) = n /\ ~Has(U)}
<1>1. T = {}
  <2> SUFFICES ASSUME T # {} PROVE FALSE OBVIOUS
  <2>1. PICK n \in T : \A m \in T : n <= m
    <3>1. T \in SUBSET Nat OBVIOUS
    <3> HIDE DEF T
    <3> QED BY <3>1, Lowest
  <2>2. PICK U \in SUBSET S : U # {} /\ Cardinality(U) = n /\ ~Has(U) BY <2>1
  <2>3. PICK u : u \in U BY <2>2
  <2> DEFINE V == U \ {u}
  <2>5. Cardinality(V) = n - 1 /\ IsFiniteSet(V) BY <2>2, <2>3, FS_Subset, FS_RemoveElement
  <2>6. Cardinality(V) \in Nat BY <2>5, FS_CardinalityType
  <2>7. V # {}
    <3> SUFFICES ASSUME V = {} PROVE FALSE OBVIOUS
    <3> QED BY <2>3, <2>2, SMTT(60)
  <2>8. Has(V)
    <3> SUFFICES ASSUME ~Has(V) PROVE FALSE OBVIOUS
    <3>1. V \in SUBSET S OBVIOUS
    <3> HIDE DEF Has, V
    <3>2. n - 1 \in T BY <3>1, <2>5, <2>6, <2>7
    <3>3. n \in Nat BY <2>1
    <3> HIDE DEF T
    <3> QED BY <3>2, <3>3, <2>1, SMTT(60)
  <2>9. PICK m \in V : \A y \in V : f[y] <= f[m] BY <2>8
  <2>10. f[m] \in Nat /\ f[u] \in Nat /\ \A y \in U : f[y] \in Nat BY <2>3
  <2>11. CASE f[u] <= f[m] BY <2>9, <2>11, <2>2
  <2>12. CASE f[m] < f[u] BY <2>9, <2>10, <2>12, <2>2, <2>3, SMTT(60)
  <2> QED BY <2>10, <2>11, <2>12, SMTT(60)
<1>2. Cardinality(S) \in Nat BY FS_CardinalityType
<1> HIDE DEF Has
<1> QED BY <1>1, <1>2 DEF Has

(* The largest of the values and a number of one's own. *)
LEMMA MaxOfValues ==
  ASSUME NEW S, IsFiniteSet(S), NEW f, \A x \in S : f[x] \in Nat, NEW k \in Nat,
         NEW W, k \in W, \A x \in S : f[x] \in W, \A w \in W : w = k \/ \E x \in S : w = f[x]
  PROVE  Max(W) \in W
<1>1. \E m \in W : \A w \in W : m >= w
  <2>1. CASE S = {} BY <2>1, SMTT(60)
  <2>2. CASE S # {}
    <3>1. PICK x \in S : \A y \in S : f[y] <= f[x] BY <2>2, Largest
    <3>2. f[x] \in Nat BY <3>1
    <3>3. CASE f[x] <= k BY <3>1, <3>2, <3>3, SMTT(60)
    <3>4. CASE k < f[x] BY <3>1, <3>2, <3>4, SMTT(60)
    <3> QED BY <3>2, <3>3, <3>4, SMTT(60)
  <2> QED BY <2>1, <2>2
<1> QED BY <1>1, ZenonT(60) DEF Max

(* Sorted lists a set of hashes. *)
LEMMA SortedExists ==
  ASSUME NEW S \in SUBSET Nat, IsFiniteSet(S)
  PROVE  \E s \in [1 .. Cardinality(S) -> S] : \A i, j \in DOMAIN s : i < j => s[i] < s[j]
<1> DEFINE Has(U) ==
             \E s \in [1 .. Cardinality(U) -> U] : \A i, j \in DOMAIN s : i < j => s[i] < s[j]
           T == {n \in Nat : \E U \in SUBSET S : Cardinality(U) = n /\ ~Has(U)}
<1>1. T = {}
  <2> SUFFICES ASSUME T # {} PROVE FALSE OBVIOUS
  <2>1. PICK n \in T : \A m \in T : n <= m
    <3>1. T \in SUBSET Nat OBVIOUS
    <3> HIDE DEF T
    <3> QED BY <3>1, Lowest
  <2>2. PICK U \in SUBSET S : Cardinality(U) = n /\ ~Has(U) BY <2>1
  <2>3. n \in Nat BY <2>1
  <2>4. IsFiniteSet(U) BY FS_Subset, ZenonT(60)
  <2>5. U # {}
    <3> SUFFICES ASSUME U = {} PROVE FALSE OBVIOUS
    <3> DEFINE e == [i \in 1 .. 0 |-> i]
    <3>3. e \in [1 .. Cardinality(U) -> U] /\ DOMAIN e = {} BY FS_EmptySet, SMTT(60)
    <3> HIDE DEF e
    <3> QED BY <3>3, <2>2, ZenonT(60)
  <2>6. PICK u \in U : \A y \in U : u <= y BY <2>5, Lowest
  <2> DEFINE V == U \ {u}
  <2>7. Cardinality(V) = n - 1 /\ IsFiniteSet(V) BY <2>2, <2>4, FS_RemoveElement
  <2>8. n - 1 \in Nat BY <2>7, FS_CardinalityType
  <2>9. Has(V)
    <3> SUFFICES ASSUME ~Has(V) PROVE FALSE BY ZenonT(60)
    <3>1. V \in SUBSET S OBVIOUS
    <3> HIDE DEF Has, V
    <3>2. n - 1 \in T BY <3>1, <2>7, <2>8
    <3> HIDE DEF T
    <3> QED BY <3>2, <2>3, <2>1, SMTT(60)
  <2>10. PICK t \in [1 .. n - 1 -> V] : \A i, j \in 1 .. n - 1 : i < j => t[i] < t[j]
    BY <2>7, <2>9, ZenonT(60)
  <2> DEFINE s == [i \in 1 .. n |-> IF i = 1 THEN u ELSE t[i - 1]]
  <2>11. \A i \in 1 .. n : i # 1 => i - 1 \in 1 .. n - 1 /\ t[i - 1] \in V BY <2>3, <2>10, SMTT(60)
  <2>12. s \in [1 .. n -> U] /\ DOMAIN s = 1 .. n BY <2>11
  <2>13. ASSUME NEW i \in 1 .. n, NEW j \in 1 .. n, i < j PROVE s[i] < s[j]
    <3>1. j # 1 /\ j - 1 \in 1 .. n - 1 /\ s[j] = t[j - 1] /\ s[j] \in V BY <2>3, <2>11, <2>13, SMTT(60)
    <3>2. CASE i = 1
      <4>1. u <= s[j] /\ u # s[j] /\ u \in Nat /\ s[j] \in Nat BY <3>1, <2>6, ZenonT(60)
      <4> QED BY <3>2, <4>1, SMTT(60)
    <3>3. CASE i # 1 BY <3>3, <2>3, <2>11, <2>13, <3>1, <2>10, SMTT(60)
    <3> QED BY <3>2, <3>3
  <2> HIDE DEF s
  <2> QED BY <2>2, <2>12, <2>13
<1>2. Cardinality(S) \in Nat BY FS_CardinalityType
<1> HIDE DEF Has
<1> QED BY <1>1, <1>2 DEF Has

LEMMA FiniteHashes == ASSUME NEW S \in SUBSET Hash PROVE IsFiniteSet(S)
<1>1. IsFiniteSet(Hash) BY HashAssumption
<1> QED BY <1>1, FS_Subset, ZenonT(60)

LEMMA SortedFacts ==
  ASSUME NEW S \in SUBSET Hash
  PROVE  Sorted(S) \in Seq(S) /\ {Sorted(S)[i] : i \in DOMAIN Sorted(S)} = S
<1> DEFINE s == Sorted(S)
           n == Cardinality(S)
<1>1. S \in SUBSET Nat /\ IsFiniteSet(S)
  <2>1. Hash \in SUBSET Nat BY HashAssumption
  <2> QED BY <2>1, FiniteHashes, ZenonT(60)
<1>2. n \in Nat BY <1>1, FS_CardinalityType
<1>3. s \in [1 .. n -> S] /\ \A i, j \in DOMAIN s : i < j => s[i] < s[j]
  BY <1>1, SortedExists, ZenonT(60) DEF Sorted
<1> HIDE DEF s, n
<1>4. s \in Injection(1 .. n, S)
  <2>1. ASSUME NEW i \in 1 .. n, NEW j \in 1 .. n, s[i] = s[j] PROVE i = j
    <3>1. i \in Nat /\ j \in Nat /\ s[i] \in S /\ s[j] \in S /\ s[i] \in Nat /\ s[j] \in Nat
      <4>1. s[i] \in S /\ s[j] \in S BY <1>3
      <4>3. s[i] \in Nat /\ s[j] \in Nat BY <4>1, <1>1, ZenonT(60)
      <4> QED BY <4>1, <1>2, <4>3, SMTT(60)
    <3> QED BY <3>1, <2>1, <1>3, SMTT(60)
  <2> QED BY <2>1, <1>3 DEF Injection, IsInjective
<1>6. s \in Surjection(1 .. n, S) BY <1>1, <1>4, <1>2, FS_Interval, FS_Injection, SMTT(60) DEF n
<1> QED BY <1>2, <1>3, <1>6, SMTT(60) DEF s, Surjection

-----------------------------------------------------------------------------

LEMMA TraceBeginInv == IChain /\ TraceBegin => IChain'
<1> SUFFICES ASSUME IChain, TraceBegin PROVE IChain' OBVIOUS
<1> USE HashAssumption DEF mapVars, topVars, fieldVars, walkVars
<1>l. Linked' = Linked BY LinkedSame DEF TraceBegin
<1>h. header' \in unseen BY MinIsIn DEF IChain, Types, TraceBegin
<1>1. Types' BY <1>h, ZenonT(60) DEF TraceBegin, IChain, Types
<1>2. GenesisFirst' BY DEF TraceBegin, IChain, GenesisFirst
<1>3. Sums' BY <1>l DEF TraceBegin, IChain, Sums
<1>4. SumsAddUp' BY DEF TraceBegin, IChain, SumsAddUp
<1>5. Loop' BY <1>h, <1>l DEF TraceBegin, Seen, IChain, Loop
<1>6. Down' BY <1>h, SMTT(60) DEF TraceBegin, IChain, Types, Down
<1>7. Walking' BY DEF TraceBegin, Walking
<1> QED BY <1>1, <1>2, <1>3, <1>4, <1>5, <1>6, <1>7 DEF IChain

(* If the parent at the bottom is not linked, nothing above it is. *)
LEMMA StackUnlinked ==
  ASSUME IChain, pc = "down", thisPtr \notin Linked PROVE header \notin Linked
<1> DEFINE s == headerPtrStack
           T == {i \in 0 .. Len(s) : \A j \in 1 .. Len(s) : j > i => s[j] \notin Linked}
<1>1. /\ s \in Seq(headerMap_) /\ Len(s) \in Nat
      /\ \A i \in 1 .. Len(s) : difficultySum_[s[i]] < 0
      /\ \A i \in 1 .. Len(s) - 1 : prev[s[i]] = s[i + 1]
      /\ s # << >> => prev[s[Len(s)]] = thisPtr /\ s[1] = header
      /\ s = << >> => thisPtr = header
  BY SMTT(60) DEF IChain, Down
<1>2. difficultySum_[Genesis] = 1 /\ Genesis \in headerMap_ BY DEF IChain, Sums, Types
<1>3. \A i \in 1 .. Len(s) : s[i] # Genesis BY <1>1, <1>2, SMTT(60)
<1>4. \A h \in Linked : h = Genesis \/ prev[h] \in Linked BY <1>2, LinkedFacts
<1> HIDE DEF s
<1>6. T \in SUBSET Nat /\ T # {} BY <1>1, SMTT(60)
<1> HIDE DEF T
<1>7. PICK x \in T : \A y \in T : x <= y BY <1>6, Lowest
<1>8. x \in 0 .. Len(s) /\ (\A j \in 1 .. Len(s) : j > x => s[j] \notin Linked) BY <1>7 DEF T
<1>9. x = 0
  <2> SUFFICES ASSUME x # 0 PROVE FALSE OBVIOUS
  <2>1. x \in 1 .. Len(s) BY <1>8, <1>1, SMTT(60)
  <2>3. x - 1 \in T BY <2>1, <1>1, <1>3, <1>4, <1>8, SMTT(60) DEF T
  <2> QED BY <2>3, <1>7, <2>1, <1>1, SMTT(60)
<1>10. CASE s = << >> BY <1>10, <1>1
<1>11. CASE s # << >> BY <1>11, <1>1, <1>8, <1>9, SMTT(60)
<1> QED BY <1>10, <1>11

LEMMA OrganizeStepInv == IChain /\ OrganizeStep => IChain'
<1> SUFFICES ASSUME IChain, OrganizeStep PROVE IChain' OBVIOUS
<1>1. StackLinked BY StackUnlinked DEF StackLinked
<1> QED BY <1>1, OrganizeBeginInv, TraceBeginInv, TraceDownInv, TraceOrphanInv, TraceUpInv,
           TraceEndInv, WalkBeginInv, WalkInv, WalkEndInv DEF OrganizeStep

LEMMA ChainNextInv == IChain /\ [ChainNext]_chainVars => IChain'
<1> SUFFICES ASSUME IChain, [ChainNext]_chainVars PROVE IChain' OBVIOUS
<1>1. ASSUME NEW file \in Files, ParseFile(file) PROVE IChain'
  BY HashAssumption, <1>1, AddBlocksInv DEF ParseFile, topVars
<1>2. CASE OrganizeCall BY <1>2, OrganizeInv DEF OrganizeCall
<1>3. CASE OrganizeStep BY <1>3, OrganizeStepInv
<1>4. CASE UNCHANGED chainVars BY <1>4, ChainStutterInv
<1> QED BY <1>1, <1>2, <1>3, <1>4 DEF ChainNext

(* The invariant holds at every step of organizeChain, for every tree and  *)
(* every way in which the files hold its blocks.                           *)
THEOREM ChainInvariance == ChainSpec => []IChain
BY ChainInitInv, ChainNextInv, PTL DEF ChainSpec

(* Between two calls of organizeChain topBlockPtr_ is a header with the    *)
(* most work, whatever the order of the blocks and whichever block it      *)
(* took for the old top.                                                   *)
THEOREM HeaviestHolds == ChainSpec => []HeaviestTop
<1>1. IChain => HeaviestTop BY DEF IChain, Walking, Heaviest, HeaviestTop
<1> QED BY <1>1, ChainInvariance, PTL

(* traceChainDown never leaves a sum or a height that disagrees with the   *)
(* parent's.                                                               *)
THEOREM SumsHold == ChainSpec => []SumsAddUp
<1>1. IChain => SumsAddUp BY DEF IChain
<1> QED BY <1>1, ChainInvariance, PTL

(* When the loop of organizeChain is done, exactly the headers that are    *)
(* connected to the genesis block have their sum; the others are orphans.  *)
THEOREM TracedHolds == ChainSpec => []AllTraced
BY TracedFromInv, ChainInvariance, PTL

=============================================================================
