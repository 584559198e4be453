-------------------------- MODULE HeaderSyncProofs --------------------------
(***************************************************************************)
(* The keys under which the headers are stored stay distinct, the top      *)
(* block is a heaviest one, and the database agrees with memory where the  *)
(* node writes parents first, over any number of restarts.                 *)
(***************************************************************************)
EXTENDS HeaderSync, BlockchainProofs

(* A leaf that names no prover is for Zenon, and for SMT if Zenon fails. *)
USE ZenonT(10), SMTT(60)

(* HEADERS: the lists by height hold each stored header at its dup. *)
Listed(db) ==
  /\ \A n \in DOMAIN db.hhl : db.hhl[n] \in Seq(Hash)
  /\ \A h \in DOMAIN db.headers :
       /\ h \in Hash
       /\ db.headers[h].height \in Nat /\ db.headers[h].id \in Nat /\ db.headers[h].dup \in Nat
       /\ db.headers[h].height \in DOMAIN db.hhl
       /\ db.headers[h].dup + 1 \in DOMAIN db.hhl[db.headers[h].height]
       /\ db.hhl[db.headers[h].height][db.headers[h].dup + 1] = h

(* The databases as putNewBareHeaders finds them. *)
Base == [hhl |-> hhl, headers |-> dbHeaders, valid |-> validDupByHeight_, unput |-> << >>]

(* The block files, and what of them is in memory and in the database. *)
Waiting == {newlyParsedBlocks_[i] : i \in DOMAIN newlyParsedBlocks_}

Blocks ==
  /\ blkfile \in Seq(Hash) /\ blkfile # << >> /\ blkfile[1] = Genesis
  /\ headerMap_ \subseteq OnDisk
  /\ Stored \subseteq headerMap_
  /\ newlyParsedBlocks_ \in Seq(headerMap_)
  /\ topBlockOffset_ \in 1 .. Len(blkfile) + 1
  /\ IF uniqueID_[Genesis] = NoId
       THEN Stored = {} /\ newlyParsedBlocks_ = << >>
            /\ phase \in {"loaded", "organized", "parse"} /\ topBlockOffset_ = 1
       ELSE Genesis \in Stored \cup Waiting
  /\ Stored # {} => Genesis \in Stored

(* organizeChain runs in two phases, and has run after them. *)
Phases ==
  /\ phase \in {"loaded", "organized", "parse", "parsed", "put", "undo", "up"}
  /\ pc # "idle" => phase \in {"organized", "put"}
  /\ phase \in {"organized", "put"} /\ pc = "idle" => difficultySum_[Genesis] > 0

(* The forced rebuild of init lists the whole chain of the top block. *)
Top == blockHeight_[topBlockPtr_]

Rebuilt ==
  phase = "organized" =>
    /\ pc # "idle" => forceRebuild
    /\ pc \in {"trace", "down"} => \A h \in headerMap_ : isFinishedCalc_[h] => h = Genesis
    /\ pc = "walk" =>
         /\ Top \in Nat /\ DOMAIN headersByHeight_ = 0 .. Top
         /\ thisHeaderPtr \in headerMap_ /\ blockHeight_[thisHeaderPtr] \in 0 .. Top
         /\ \A i \in blockHeight_[thisHeaderPtr] + 1 .. Top : headersByHeight_[i] \in headerMap_
         /\ \A h \in headerMap_ : isFinishedCalc_[h] =>
               h = Genesis \/ (blockHeight_[h] \in Nat /\ blockHeight_[h] > blockHeight_[thisHeaderPtr])
    /\ pc = "idle" =>
         /\ Top \in Nat /\ DOMAIN headersByHeight_ = 0 .. Top
         /\ \A i \in 0 .. Top : headersByHeight_[i] \in headerMap_

ISync == IChain /\ Listed(Base) /\ Blocks /\ Phases /\ Rebuilt

-----------------------------------------------------------------------------
(* The steps *)

LEMMA ListedSame == ASSUME Listed(Base), UNCHANGED dbVars PROVE Listed(Base)'
BY ZenonT(60) DEF Listed, Base, dbVars

LEMMA InitSync == Init => ISync
<1> SUFFICES ASSUME Init PROVE ISync OBVIOUS
<1> USE HashAssumption DEF Init
<1>1. IChain BY ChainInitInv
<1>2. Listed(Base)
  <2>1. DOMAIN << >> = {} BY SMTT(60)
  <2>2. Base.hhl = << >> /\ Base.headers = << >> BY DEF Base
  <2> HIDE DEF Base
  <2> QED BY <2>1, <2>2 DEF Listed
<1>3. Blocks BY SMTT(60) DEF Stored, OnDisk, ChainInit, Blocks
<1> QED BY <1>1, <1>2, <1>3 DEF ISync, Phases, Rebuilt, ChainInit

(* Steps that leave the chain alone. *)
LEMMA NodeWritesInv == ASSUME ISync, NEW h \in Hash, NodeWrites(h) PROVE ISync'
<1> USE DEF chainVars, mapVars, topVars, fieldVars, traceVars, walkVars, dbVars
<1>3. Blocks'
  <2>1. blkfile \in Seq(Hash) /\ blkfile # << >> /\ blkfile[1] = Genesis /\ headerMap_ \subseteq OnDisk
        /\ topBlockOffset_ \in 1 .. Len(blkfile) + 1
    BY DEF ISync, Blocks
  <2>3. blkfile' \in Seq(Hash) /\ blkfile' # << >> /\ blkfile'[1] = Genesis
        /\ Len(blkfile') = Len(blkfile) + 1
        /\ \A i \in DOMAIN blkfile : i \in DOMAIN blkfile' /\ blkfile'[i] = blkfile[i]
    BY <2>1, SMTT(60) DEF NodeWrites
  <2>4. OnDisk \subseteq OnDisk' BY <2>3, ZenonT(60) DEF OnDisk
  <2> QED BY <2>1, <2>3, <2>4, SMTT(60) DEF NodeWrites, ISync, Blocks, Stored, Waiting
<1> QED BY ChainStutterInv, ListedSame, <1>3, ZenonT(60) DEF ISync, NodeWrites, Phases, Rebuilt, Top

LEMMA QuietInv ==
  ASSUME ISync, UNCHANGED <<chainVars, blkfile, topBlockOffset_, dbVars>>,
         \/ phase \in {"undo", "up"} /\ phase' \in {"up", "parse"}
         \/ phase' = phase
  PROVE  ISync'
<1> USE DEF chainVars, mapVars, topVars, fieldVars, traceVars, walkVars, dbVars
<1>4. Phases' BY DEF ISync, Phases
<1>5. Rebuilt' BY DEF ISync, Rebuilt, Top
<1> QED BY ChainStutterInv, ListedSame, <1>4, <1>5 DEF ISync, Blocks, Stored, Waiting, OnDisk

LEMMA OrganizeFromInv ==
  ASSUME ISync, NEW force, NEW from, NEW to, OrganizeFrom(from, force, to),
         \/ from = "loaded" /\ force = TRUE /\ to = "organized"
         \/ from = "parsed" /\ to = "put"
  PROVE  ISync'
<1> USE DEF mapVars, topVars, fieldVars, traceVars, walkVars, dbVars
<1>m. /\ pc' = "begin" /\ (phase' = "organized" => forceRebuild')
      /\ \/ phase = "loaded" /\ phase' = "organized"
         \/ phase = "parsed" /\ phase' = "put"
      /\ UNCHANGED <<blkfile, headerMap_, dbHeaders, newlyParsedBlocks_, topBlockOffset_, uniqueID_>>
  BY DEF OrganizeFrom, Organize
<1>3. Blocks' BY <1>m, ZenonT(60) DEF ISync, Blocks, Stored, Waiting, OnDisk
<1> QED BY OrganizeInv, ListedSame, <1>3, <1>m, ZenonT(60) DEF ISync, OrganizeFrom, Phases, Rebuilt

(* What no step of organizeChain changes. *)
LEMMA OrganizeFrame ==
  ASSUME OrganizeStep
  PROVE  /\ UNCHANGED <<headerMap_, newlyParsedBlocks_, uniqueID_, prev>>
         /\ pc # "idle" /\ (pc' = "idle" => WalkEnd)
<1> USE DEF mapVars
<1>1. CASE OrganizeBegin BY <1>1 DEF OrganizeBegin
<1>2. CASE TraceBegin BY <1>2 DEF TraceBegin
<1>3. CASE TraceDown BY <1>3 DEF TraceDown
<1>4. CASE TraceOrphan BY <1>4 DEF TraceOrphan
<1>5. CASE TraceUp BY <1>5 DEF TraceUp
<1>6. CASE TraceEnd BY <1>6 DEF TraceEnd
<1>7. CASE WalkBegin BY <1>7 DEF WalkBegin
<1>8. CASE Walk BY <1>8 DEF Walk
<1>9. CASE WalkEnd BY <1>9 DEF WalkEnd
<1> QED BY <1>1, <1>2, <1>3, <1>4, <1>5, <1>6, <1>7, <1>8, <1>9 DEF OrganizeStep

(* organizeChain: only the forced rebuild of init has to be followed. *)
LEMMA OrganizingInv == ISync /\ Organizing => ISync'
<1> SUFFICES ASSUME ISync, Organizing PROVE ISync' OBVIOUS
<1> USE HashAssumption DEF mapVars, topVars, fieldVars, traceVars, walkVars, dbVars, syncVars
<1>s. OrganizeStep /\ UNCHANGED syncVars BY DEF Organizing
<1>1. IChain' BY <1>s, OrganizeStepInv DEF ISync
<1>2. Listed(Base)' BY <1>s, ListedSame DEF ISync
<1>m. UNCHANGED <<headerMap_, newlyParsedBlocks_, uniqueID_, prev>>
  BY <1>s, OrganizeFrame
<1>3. Blocks' BY <1>s, <1>m, SMTT(60) DEF ISync, Blocks, Stored, Waiting, OnDisk
<1>4. Phases'
  <2>2. ASSUME pc' = "idle" PROVE difficultySum_'[Genesis] > 0
    BY <1>s, <2>2, OrganizeFrame, SMTT(60) DEF WalkEnd, ISync, IChain, Sums
  <2> QED BY <1>s, OrganizeFrame, <2>2 DEF ISync, Phases
<1>5. Rebuilt'
  <2> SUFFICES ASSUME phase = "organized" PROVE Rebuilt' BY <1>s DEF Rebuilt
  <2>f. pc # "idle" => forceRebuild BY DEF ISync, Rebuilt
  <2>1. CASE OrganizeBegin
    <3>1. forceRebuild BY <2>1, <2>f DEF OrganizeBegin
    <3>4. ASSUME NEW h \in headerMap_, isFinishedCalc_'[h] PROVE h = Genesis
      <4>1. isFinishedCalc_'[h] =
              (h = Genesis \/ (isFinishedCalc_[h] /\ ~(forceRebuild /\ h \in headerMap_)))
        BY <2>1 DEF OrganizeBegin, ISync, IChain, Types
      <4> QED BY <4>1, <3>1, <3>4, ZenonT(60)
    <3>5. pc' = "trace" /\ forceRebuild' = forceRebuild BY <2>1 DEF OrganizeBegin
    <3> QED BY <3>1, <3>4, <3>5, <1>m DEF Rebuilt
  <2>2. CASE TraceBegin BY <2>2, <2>f DEF TraceBegin, ISync, Rebuilt
  <2>3. CASE TraceDown BY <2>3, <2>f DEF TraceDown, ISync, Rebuilt
  <2>4. CASE TraceOrphan BY <2>4, <2>f DEF TraceOrphan, ISync, Rebuilt
  <2>5. CASE TraceUp BY <2>5, <2>f DEF TraceUp, ISync, Rebuilt
  <2>6. CASE TraceEnd BY <2>6, <2>f, ZenonT(60) DEF TraceEnd, ISync, Rebuilt
  <2>7. CASE WalkBegin
    <3>1. /\ pc = "trace" /\ pc' = "walk" /\ forceRebuild' = forceRebuild
          /\ thisHeaderPtr' = topBlockPtr_ /\ topBlockPtr_' = topBlockPtr_
          /\ blockHeight_' = blockHeight_ /\ isFinishedCalc_' = isFinishedCalc_
          /\ DOMAIN headersByHeight_' = 0 .. Top /\ difficultySum_' = difficultySum_
      BY <2>7 DEF WalkBegin, Top
    <3>2. topBlockPtr_ \in headerMap_ /\ difficultySum_[topBlockPtr_] > 0
      BY <1>1, <3>1, ZenonT(60) DEF IChain, Walking, ISync, Types
    <3>3. Top \in Nat /\ Top' = Top BY <3>1, <3>2 DEF ISync, IChain, Sums, Top
    <3>4. \A h \in headerMap_ : isFinishedCalc_[h] => h = Genesis
      BY <3>1 DEF ISync, Rebuilt
    <3>5. Top + 1 .. Top = {} BY <3>3, SMTT(60)
    <3>6. Top \in 0 .. Top BY <3>3, SMTT(60)
    <3> QED BY <3>1, <3>2, <3>3, <3>4, <3>5, <3>6, <2>f, <1>m DEF Rebuilt, Top
  <2>8. CASE Walk
    <3> DEFINE h == thisHeaderPtr
               n == blockHeight_[h]
    <3>1. /\ pc = "walk" /\ pc' = "walk" /\ forceRebuild' = forceRebuild
          /\ thisHeaderPtr' = prev[h] /\ topBlockPtr_' = topBlockPtr_ /\ ~isFinishedCalc_[h]
          /\ blockHeight_' = blockHeight_ /\ isFinishedCalc_' = [isFinishedCalc_ EXCEPT ![h] = TRUE]
          /\ headersByHeight_' = [headersByHeight_ EXCEPT ![n] = h]
      BY <2>8, ZenonT(60) DEF Walk
    <3>2. /\ Top \in Nat /\ DOMAIN headersByHeight_ = 0 .. Top
          /\ h \in headerMap_ /\ n \in 0 .. Top
          /\ \A i \in n + 1 .. Top : headersByHeight_[i] \in headerMap_
          /\ \A k \in headerMap_ : isFinishedCalc_[k] => k = Genesis \/ (blockHeight_[k] \in Nat /\ blockHeight_[k] > n)
      BY <3>1 DEF ISync, Rebuilt
    <3>5. prev[h] \in headerMap_ /\ difficultySum_[prev[h]] > 0 /\ n = blockHeight_[prev[h]] + 1
      BY <3>2, <3>1 DEF ISync, IChain, SumsAddUp, Sums, Walking
    <3>6. blockHeight_[prev[h]] \in Nat BY <3>5 DEF ISync, IChain, Sums
    <3> DEFINE p == blockHeight_[prev[h]]
    <3> HIDE DEF n
    <3>7. p \in 0 .. Top /\ p < n /\ p + 1 = n BY <3>2, <3>5, <3>6, SMTT(60)
    <3>8. \A i \in p + 1 .. Top : headersByHeight_'[i] \in headerMap_
      <4> HIDE DEF p
      <4> SUFFICES ASSUME NEW i \in p + 1 .. Top PROVE headersByHeight_'[i] \in headerMap_ OBVIOUS
      <4> QED BY <3>2, <3>7, <3>1, SMTT(60)
    <3>9. ASSUME NEW k \in headerMap_, isFinishedCalc_'[k] 
          PROVE  k = Genesis \/ (blockHeight_[k] \in Nat /\ blockHeight_[k] > p)
      <4>1. CASE k = h BY <4>1, <3>2, <3>7, SMTT(60) DEF n
      <4>2. CASE k # h
        <5>1. isFinishedCalc_[k] BY <4>2, <3>9, <3>1 DEF ISync, IChain, Types
        <5> QED BY <5>1, <3>2, <3>7, SMTT(60)
      <4> QED BY <4>1, <4>2
    <3>10. DOMAIN headersByHeight_' = 0 .. Top /\ Top' = Top BY <3>1, <3>2 DEF Top
    <3> QED BY <3>1, <3>2, <3>5, <3>7, <3>8, <3>9, <3>10, <2>f, <1>m DEF Rebuilt
  <2>9. CASE WalkEnd
    <3> DEFINE h == thisHeaderPtr
    <3>1. /\ pc = "walk" /\ pc' \in {"begin", "idle"} /\ (pc' = "begin" => forceRebuild')
          /\ topBlockPtr_' = topBlockPtr_ /\ isFinishedCalc_[h]
          /\ blockHeight_' = blockHeight_
          /\ headersByHeight_' = [headersByHeight_ EXCEPT ![blockHeight_[h]] = h]
      BY <2>9 DEF WalkEnd
    <3> QED BY <3>1, <1>m, SMTT(60) DEF Rebuilt, Top, ISync, IChain, Sums
  <2> QED BY <1>s, <2>1, <2>2, <2>3, <2>4, <2>5, <2>6, <2>7, <2>8, <2>9 DEF OrganizeStep
<1> QED BY <1>1, <1>2, <1>3, <1>4, <1>5 DEF ISync

LEMMA InitRewindInv == ISync /\ InitRewind => ISync'
<1> SUFFICES ASSUME ISync, InitRewind PROVE ISync' OBVIOUS
<1> USE HashAssumption, SyncAssumption
        DEF chainVars, mapVars, topVars, fieldVars, traceVars, walkVars, dbVars
<1>1. IChain' BY ChainStutterInv DEF InitRewind, ISync
<1>2. Listed(Base)' BY ListedSame DEF InitRewind, ISync
<1>m. /\ phase = "organized" /\ pc = "idle" /\ phase' = "parse"
      /\ UNCHANGED <<blkfile, headerMap_, dbHeaders, newlyParsedBlocks_, uniqueID_, pc>>
  BY DEF InitRewind
<1>3. Blocks'
  <2> DEFINE height == IF Top > Rewind THEN Top - Rewind ELSE 1
  <2>1. /\ Top \in Nat /\ DOMAIN headersByHeight_ = 0 .. Top
        /\ \A i \in 0 .. Top : headersByHeight_[i] \in headerMap_
    BY <1>m DEF ISync, Rebuilt
  <2>2. topBlockOffset_' = IF height \in DOMAIN headersByHeight_
                             THEN Offset(headersByHeight_[height]) ELSE topBlockOffset_
    BY DEF InitRewind, Top
  <2>3. /\ blkfile \in Seq(Hash) /\ topBlockOffset_ \in 1 .. Len(blkfile) + 1
        /\ headerMap_ \subseteq OnDisk
    BY DEF ISync, Blocks
  <2> HIDE DEF height
  <2>4. topBlockOffset_' \in 1 .. Len(blkfile) + 1
    <3>1. CASE height \in DOMAIN headersByHeight_
      <4> DEFINE b == headersByHeight_[height]
      <4>1. b \in OnDisk BY <2>1, <2>3, <3>1
      <4> HIDE DEF b
      <4> QED BY <4>1, <2>2, <3>1, <2>3, SMTT(60) DEF b, Offset, OnDisk
    <3>2. CASE height \notin DOMAIN headersByHeight_ BY <2>2, <2>3, <3>2
    <3> QED BY <3>1, <3>2
  <2>5. ASSUME uniqueID_[Genesis] = NoId PROVE topBlockOffset_' = 1
    <3>1. headerMap_ = {Genesis} /\ topBlockPtr_ = Genesis
      BY <2>5, SMTT(60) DEF ISync, IChain, GenesisFirst, Types
    <3>2. Top = 0 BY <3>1, <1>m DEF ISync, Phases, IChain, Sums, Top
    <3> QED BY <3>2, <2>1, <2>5, <2>2, SMTT(60) DEF ISync, Blocks, height
  <2> QED BY <1>m, <2>4, <2>5, SMTT(60) DEF ISync, Blocks, Stored, Waiting, OnDisk
<1> QED BY <1>1, <1>2, <1>3, <1>m DEF ISync, Phases, Rebuilt

(* The end of a sequence. *)
LEMMA EndOfSeq ==
  ASSUME NEW S, NEW q \in Seq(S), NEW m \in 1 .. Len(q) + 1
  PROVE  /\ SubSeq(q, m, Len(q)) \in Seq(S)
         /\ \A i \in DOMAIN SubSeq(q, m, Len(q)) :
              \E j \in DOMAIN q : SubSeq(q, m, Len(q))[i] = q[j]
         /\ m = 1 => SubSeq(q, m, Len(q)) = q
<1> DEFINE n == Len(q)
           r == SubSeq(q, m, n)
<1>1. n \in Nat /\ m \in Int /\ DOMAIN q = 1 .. n BY SMTT(60)
<1>2. r \in Seq(S) /\ Len(r) = n - m + 1 /\ (\A i \in 1 .. n - m + 1 : r[i] = q[m + i - 1]) BY <1>1, SMTT(60)
<1> HIDE DEF n, r
<1>3. ASSUME NEW i \in DOMAIN r PROVE \E j \in DOMAIN q : r[i] = q[j]
  <2>1. i \in 1 .. n - m + 1 BY <1>2, SMTT(60)
  <2>2. m + i - 1 \in DOMAIN q BY <2>1, <1>1, SMTT(60) DEF n
  <2> QED BY <2>1, <2>2, <1>2
<1>4. m = 1 => r = q
  <2> SUFFICES ASSUME m = 1 PROVE r = q OBVIOUS
  <2> QED BY <1>1, <1>2, SMTT(60) DEF n
<1> QED BY <1>2, <1>3, <1>4 DEF n, r

LEMMA ParseBlocksInv == ISync /\ ParseBlocks => ISync'
<1> SUFFICES ASSUME ISync, ParseBlocks PROVE ISync' OBVIOUS
<1> USE HashAssumption DEF mapVars, topVars, fieldVars, traceVars, walkVars, dbVars
<1> DEFINE file == Unparsed
<1>b. /\ blkfile \in Seq(Hash) /\ blkfile # << >> /\ blkfile[1] = Genesis
      /\ topBlockOffset_ \in 1 .. Len(blkfile) + 1
      /\ headerMap_ \subseteq OnDisk /\ Stored \subseteq headerMap_
      /\ newlyParsedBlocks_ \in Seq(headerMap_) /\ headerMap_ \subseteq Hash /\ Genesis \in headerMap_
      /\ (Stored # {} => Genesis \in Stored)
  BY DEF ISync, Blocks, IChain, Types
<1>u. /\ file \in Seq(Hash) /\ (\A i \in DOMAIN file : file[i] \in OnDisk)
      /\ (topBlockOffset_ = 1 => file = blkfile)
  <2>1. /\ file \in Seq(Hash)
        /\ \A i \in DOMAIN file : \E j \in DOMAIN blkfile : file[i] = blkfile[j]
        /\ topBlockOffset_ = 1 => file = blkfile
    BY <1>b, EndOfSeq DEF Unparsed
  <2> HIDE DEF file
  <2> QED BY <2>1 DEF OnDisk
<1>k. Known(Genesis) \/ (file # << >> /\ file[1] = Genesis)
  <2> HIDE DEF file
  <2> QED BY <1>b, <1>u DEF Known, ISync, Blocks
<1>m. /\ phase = "parse" /\ phase' = "parsed" /\ addBlocksInBulk(file)
      /\ topBlockOffset_' = Len(blkfile) + 1
      /\ UNCHANGED <<prev, topBlockPtr_, pc, topID, unseen, blkfile, dbHeaders, hhl>>
  BY DEF ParseBlocks, EndOfFiles
<1>p. pc = "idle" BY <1>m DEF ISync, Phases
<1> HIDE DEF file
<1>1. IChain' /\ uniqueID_'[Genesis] # NoId BY <1>k, <1>m, <1>p, <1>u, AddBlocksInv DEF ISync
<1>2. Listed(Base)' BY <1>m, ListedSame DEF ISync
<1>3. Blocks'
  <2> DEFINE new == {h \in {file[i] : i \in DOMAIN file} : ~Known(h)}
  <2>1. headerMap_' = headerMap_ \cup new /\ newlyParsedBlocks_' = newlyParsedBlocks_ \o Sorted(new)
    BY <1>m, ZenonT(60) DEF addBlocksInBulk, InsertHeaders, QueueNew
  <2>2. new \subseteq OnDisk /\ new \in SUBSET Hash BY <1>u, SMTT(60)
  <2>3. OnDisk' = OnDisk /\ Stored' = Stored BY <1>m DEF OnDisk, Stored
  <2>4. ~Known(Genesis) => Genesis \in new
    <3> SUFFICES ASSUME ~Known(Genesis) PROVE Genesis \in new OBVIOUS
    <3> QED BY <1>k, <1>u, SMTT(60)
  <2> HIDE DEF new
  <2> DEFINE t == Sorted(new)
  <2>5. t \in Seq(new) /\ {t[i] : i \in DOMAIN t} = new BY <2>2, SortedFacts, ZenonT(60)
  <2> HIDE DEF t
  <2>6. t \in Seq(headerMap_') /\ newlyParsedBlocks_ \in Seq(headerMap_') BY <2>1, <2>5, <1>b, SMTT(60)
  <2>7. /\ newlyParsedBlocks_' \in Seq(headerMap_')
        /\ Waiting \subseteq Waiting' /\ new \subseteq Waiting'
    <3> DEFINE a == newlyParsedBlocks_
               c == a \o t
    <3>1. c \in Seq(headerMap_') /\ Len(c) = Len(a) + Len(t) BY <2>6, SMTT(60)
    <3>2. \A i \in 1 .. Len(a) : c[i] = a[i] BY <2>6, SMTT(60)
    <3>3. \A i \in 1 .. Len(t) : c[Len(a) + i] = t[i] BY <2>6, SMTT(60)
    <3>4. Len(a) \in Nat /\ Len(t) \in Nat /\ DOMAIN a = 1 .. Len(a) /\ DOMAIN t = 1 .. Len(t)
          /\ DOMAIN c = 1 .. Len(c)
      BY <2>6, <3>1, SMTT(60)
    <3>5. newlyParsedBlocks_' = c BY <2>1 DEF t
    <3> HIDE DEF c
    <3>7. \A i \in DOMAIN t : Len(a) + i \in DOMAIN c BY <3>1, <3>4, SMTT(60)
    <3>8. {a[i] : i \in DOMAIN a} \subseteq {c[i] : i \in DOMAIN c} BY <3>2, <3>4, <3>1, SMTT(60)
    <3>9. {t[i] : i \in DOMAIN t} \subseteq {c[i] : i \in DOMAIN c} BY <3>3, <3>4, <3>7
    <3>10. Waiting = {a[i] : i \in DOMAIN a} /\ Waiting' = {c[i] : i \in DOMAIN c} BY <3>5 DEF Waiting
    <3> HIDE DEF a
    <3> QED BY <3>1, <3>5, <3>8, <3>9, <3>10, <2>5, ZenonT(60)
  <2>8. Genesis \in Stored \cup Waiting' BY <2>7, <2>4 DEF Known, ISync, Blocks
  <2>9. topBlockOffset_' \in 1 .. Len(blkfile) + 1 BY <1>m, <1>b, SMTT(60)
  <2> QED BY <1>1, <1>b, <1>m, <2>1, <2>2, <2>3, <2>7, <2>8, <2>9 DEF Blocks
<1> QED BY <1>1, <1>2, <1>3, <1>m, <1>p DEF ISync, Phases, Rebuilt

(* A restart: the headers come back from the database with their ids. *)
LEMMA RestartInv == ISync /\ Restart => ISync'
<1> SUFFICES ASSUME ISync, Restart PROVE ISync' OBVIOUS
<1> USE HashAssumption
<1>m. /\ AddStored /\ FreshHeaders /\ newlyParsedBlocks_' = << >> /\ topBlockPtr_' = Genesis
      /\ topBlockOffset_' = Max({1} \cup {Offset(h) : h \in Stored})
      /\ pc' = "idle" /\ topID' = 0 /\ unseen' = {} /\ phase' = "loaded"
      /\ UNCHANGED <<prev, blkfile, dbHeaders, hhl>>
  BY ZenonT(60) DEF Restart, dbVars
<1>b. /\ headerMap_ \subseteq OnDisk /\ Stored \subseteq headerMap_ /\ headerMap_ \subseteq Hash
      /\ (Stored # {} => Genesis \in Stored) /\ Genesis \in headerMap_
      /\ blkfile \in Seq(Hash) /\ blkfile # << >> /\ blkfile[1] = Genesis
  BY DEF ISync, Blocks, IChain, Types
<1>d. \A h \in Stored : dbHeaders[h].height \in Nat /\ dbHeaders[h].id \in Nat
  <2>1. Base.headers = dbHeaders BY DEF Base
  <2>2. Listed(Base) BY DEF ISync
  <2> HIDE DEF Base
  <2> QED BY <2>1, <2>2, ZenonT(60) DEF Listed, Stored
<1>f. IsFiniteSet(Stored) BY <1>b, FiniteHashes, ZenonT(60)
<1>h. headerMap_' = {Genesis} \cup Stored BY <1>m, ZenonT(60) DEF AddStored
<1>i. uniqueID_' = [h \in Hash |-> IF h \in Stored THEN dbHeaders[h].id ELSE NoId]
  BY <1>m, ZenonT(60) DEF AddStored
<1>1. IChain'
  <2>1. topID_' \in Nat
    <3> DEFINE f == [h \in Stored |-> dbHeaders[h].id]
    <3>1. \A h \in Stored : f[h] \in Nat BY <1>d
    <3> DEFINE W == {0} \cup {dbHeaders[h].id : h \in Stored}
    <3>2. /\ 0 \in Nat /\ 0 \in W /\ (\A h \in Stored : f[h] \in W)
          /\ \A w \in W : w = 0 \/ \E h \in Stored : w = f[h]
      OBVIOUS
    <3>3. topID_' = Max(W) /\ W \subseteq Nat BY <1>m, <1>d, SMTT(60) DEF AddStored
    <3> HIDE DEF f, W
    <3>4. Max(W) \in W BY <1>f, <3>1, <3>2, MaxOfValues, SMTT(60)
    <3> QED BY <3>3, <3>4, ZenonT(60)
  <2>2. \A i \in DOMAIN headersById_' : headersById_'[i] \in headerMap_'
    <3> DEFINE ids == {dbHeaders[h].id : h \in Stored}
    <3>1. headersById_' = [i \in ids |-> Min(StoredWithId(i))] BY <1>m, ZenonT(60) DEF AddStored
    <3>2. ASSUME NEW i \in ids PROVE Min(StoredWithId(i)) \in Stored
      BY <1>b, <3>2, MinIsIn, SMTT(60) DEF StoredWithId
    <3> HIDE DEF ids
    <3> QED BY <3>1, <3>2, <1>h
  <2>3. uniqueID_' \in [Hash -> Nat \cup {NoId}] BY <1>i, <1>d
  <2>4. blockHeight_' \in [Hash -> Nat \cup {NoHeight}] BY <1>m, <1>d, ZenonT(60) DEF AddStored
  <2>5. /\ difficultySum_' = [h \in Hash |-> -1] /\ isOrphan_' = [h \in Hash |-> TRUE]
        /\ isFinishedCalc_' = [h \in Hash |-> FALSE]
    BY <1>m DEF FreshHeaders
  <2>6. headerMap_' \subseteq Hash BY <1>h, <1>b
  <2>7. Types'
    <3>1. difficultySum_' \in [Hash -> Int] BY <2>5, SMTT(60)
    <3>2. isOrphan_' \in [Hash -> BOOLEAN] /\ isFinishedCalc_' \in [Hash -> BOOLEAN] BY <2>5
    <3>3. prev' \in [Hash -> Hash \cup {NoHash}] BY <1>m DEF ISync, IChain, Types
    <3> QED BY <1>m, <1>h, <2>1, <2>2, <2>3, <2>4, <2>6, <3>1, <3>2, <3>3 DEF Types
  <2>8. GenesisFirst' BY <1>h, <1>i, <1>d, <1>b, ZenonT(60) DEF GenesisFirst
  <2>9. \A h \in headerMap_' : difficultySum_'[h] = -1 /\ isOrphan_'[h] BY <2>5, <2>6
  <2>10. Sums' BY <1>m, <1>h, <2>9, SMTT(60) DEF Sums
  <2>11. SumsAddUp' BY <2>9, SMTT(60) DEF SumsAddUp
  <2>12. Loop' /\ Down' BY <1>m DEF Loop, Down
  <2>13. Walking' BY <1>m, <1>h, <2>9, SMTT(60) DEF Walking, Heaviest
  <2> QED BY <2>7, <2>8, <2>10, <2>11, <2>12, <2>13 DEF IChain
<1>2. Listed(Base)' BY <1>m, ListedSame DEF ISync, dbVars
<1>3. Blocks'
  <2> DEFINE f == [h \in Stored |-> Offset(h)]
  <2>1. \A h \in Stored : f[h] \in DOMAIN blkfile
    <3> SUFFICES ASSUME NEW h \in Stored PROVE Offset(h) \in DOMAIN blkfile OBVIOUS
    <3> QED BY <1>b DEF Offset, OnDisk
  <2> DEFINE W == {1} \cup {Offset(h) : h \in Stored}
  <2>2. /\ 1 \in Nat /\ 1 \in W /\ (\A h \in Stored : f[h] \in W)
        /\ \A w \in W : w = 1 \/ \E h \in Stored : w = f[h]
    OBVIOUS
  <2>3. topBlockOffset_' = Max(W) /\ (Stored = {} => W = {1}) BY <1>m
  <2> HIDE DEF f, W
  <2>4. \A h \in Stored : f[h] \in Nat BY <2>1, <1>b, SMTT(60)
  <2>5. topBlockOffset_' \in W BY <1>f, <2>2, <2>3, <2>4, MaxOfValues, ZenonT(60)
  <2>6. topBlockOffset_' \in 1 .. Len(blkfile) + 1 /\ (Stored = {} => topBlockOffset_' = 1)
    BY <2>1, <2>2, <2>3, <2>5, <1>b, SMTT(60)
  <2>7. Stored' = Stored /\ OnDisk' = OnDisk BY <1>m, ZenonT(60) DEF Stored, OnDisk
  <2>8. IF uniqueID_'[Genesis] = NoId THEN Stored = {} ELSE Genesis \in Stored
    BY <1>i, <1>d, <1>b
  <2>9. << >> \in Seq(headerMap_') BY SMTT(60)
  <2> QED BY <1>m, <1>b, <1>h, <2>6, <2>7, <2>8, <2>9 DEF Blocks
<1> QED BY <1>1, <1>2, <1>3, <1>m, ZenonT(60) DEF ISync, Phases, Rebuilt

-----------------------------------------------------------------------------
(* putNewBareHeaders *)

(* Putting one header keeps the lists right: they only grow at the end. *)
LEMMA PutOneListed ==
  ASSUME NEW db, Listed(db), NEW h \in Hash, blockHeight_[h] \in Nat, uniqueID_[h] \in Nat
  PROVE  /\ Listed(PutOne(db, h))
         /\ DOMAIN PutOne(db, h).headers = DOMAIN db.headers \cup {h}
         /\ PutOne(db, h).unput = db.unput
<1> DEFINE n == blockHeight_[h]
           list == At(db.hhl, n)
           there == {i \in DOMAIN list : list[i] = h}
           new == IF there = {} THEN Append(list, h) ELSE list
           dup == DupIn(new, h)
           lists == [m \in DOMAIN db.hhl \cup {n} |-> IF m = n THEN new ELSE db.hhl[m]]
           headers == [g \in DOMAIN db.headers \cup {h} |->
                         IF g = h THEN [height |-> n, dup |-> dup, id |-> uniqueID_[h]]
                                  ELSE db.headers[g]]
<1>1. list \in Seq(Hash) /\ (n \in DOMAIN db.hhl => list = db.hhl[n]) BY SMTT(60) DEF At, Listed
<1> HIDE DEF list
<1>2. /\ new \in Seq(Hash) /\ (\E i \in DOMAIN new : new[i] = h)
      /\ \A i \in DOMAIN list : i \in DOMAIN new /\ new[i] = list[i]
  <2>1. CASE there = {}
    <3>1. new = Append(list, h) BY <2>1
    <3>2. Append(list, h) \in Seq(Hash) /\ Len(list) + 1 \in DOMAIN Append(list, h)
          /\ Append(list, h)[Len(list) + 1] = h
      BY <1>1, SMTT(60)
    <3>3. \A i \in DOMAIN list : i \in DOMAIN Append(list, h) /\ Append(list, h)[i] = list[i]
      BY <1>1, SMTT(60)
    <3> HIDE DEF new
    <3> QED BY <3>1, <3>2, <3>3
  <2>2. CASE there # {}
    <3>1. new = list BY <2>2
    <3>2. \E i \in DOMAIN list : list[i] = h BY <2>2
    <3> HIDE DEF new
    <3> QED BY <3>1, <3>2, <1>1
  <2> QED BY <2>1, <2>2, ZenonT(60)
<1> HIDE DEF new
<1>3. dup \in Nat /\ dup + 1 \in DOMAIN new /\ new[dup + 1] = h
  <2> DEFINE k == CHOOSE i \in DOMAIN new : new[i] = h
  <2>1. k \in DOMAIN new /\ new[k] = h BY <1>2
  <2> HIDE DEF k
  <2>2. k \in Nat \ {0} BY <2>1, <1>2, SMTT(60)
  <2>3. dup = k - 1 BY DEF DupIn, k
  <2> HIDE DEF dup
  <2> QED BY <2>1, <2>2, <2>3, SMTT(60)
<1> HIDE DEF dup
<1>4. PutOne(db, h).hhl = lists /\ PutOne(db, h).headers = headers
      /\ PutOne(db, h).unput = db.unput
  BY ZenonT(60) DEF PutOne, list, new, dup
<1>5. \A m \in DOMAIN lists : lists[m] \in Seq(Hash) BY <1>2, ZenonT(60) DEF Listed
<1>6. ASSUME NEW g \in DOMAIN headers
      PROVE  /\ g \in Hash
             /\ headers[g].height \in Nat /\ headers[g].id \in Nat /\ headers[g].dup \in Nat
             /\ headers[g].height \in DOMAIN lists
             /\ headers[g].dup + 1 \in DOMAIN lists[headers[g].height]
             /\ lists[headers[g].height][headers[g].dup + 1] = g
  <2>1. CASE g = h
    <3>1. headers[g].height = n /\ headers[g].dup = dup /\ headers[g].id = uniqueID_[h]
      BY <2>1, ZenonT(60)
    <3>2. n \in DOMAIN lists /\ lists[n] = new BY ZenonT(60)
    <3> HIDE DEF headers, lists
    <3> QED BY <2>1, <3>1, <3>2, <1>3, ZenonT(60)
  <2>2. CASE g # h
    <3>1. g \in DOMAIN db.headers /\ headers[g] = db.headers[g] BY <2>2, ZenonT(60)
    <3> DEFINE m == db.headers[g].height
               d == db.headers[g].dup
    <3>2. /\ g \in Hash /\ m \in Nat /\ d \in Nat /\ db.headers[g].id \in Nat
          /\ m \in DOMAIN db.hhl /\ d + 1 \in DOMAIN db.hhl[m] /\ db.hhl[m][d + 1] = g
      BY <3>1, ZenonT(60) DEF Listed
    <3>3. m \in DOMAIN lists /\ d + 1 \in DOMAIN lists[m] /\ lists[m][d + 1] = g
      <4> HIDE DEF headers, m, d
      <4>1. CASE m = n
        <5>1. lists[m] = new /\ list = db.hhl[m] BY <4>1, <3>2, <1>1, ZenonT(60)
        <5> HIDE DEF lists
        <5> QED BY <5>1, <3>2, <1>2, <4>1, ZenonT(60) DEF lists
      <4>2. CASE m # n
        <5>1. m \in DOMAIN lists /\ lists[m] = db.hhl[m] BY <4>2, <3>2
        <5> HIDE DEF lists
        <5> QED BY <5>1, <3>2
      <4> QED BY <4>1, <4>2, ZenonT(60)
    <3> HIDE DEF headers, lists
    <3> QED BY <3>1, <3>2, <3>3, ZenonT(60)
  <2> QED BY <2>1, <2>2, ZenonT(60)
<1>7. DOMAIN headers = DOMAIN db.headers \cup {h} OBVIOUS
<1> HIDE DEF headers, lists
<1> QED BY <1>4, <1>5, <1>6, <1>7, ZenonT(60) DEF Listed

(* The loop over the first n new headers. *)
IsLoop(g, n) ==
  g = [i \in 0 .. n |->
         IF i = 0
           THEN [hhl |-> hhl, headers |-> dbHeaders, valid |-> validDupByHeight_, unput |-> << >>]
         ELSE IF blockHeight_[newlyParsedBlocks_[i]] = NoHeight
           THEN Unputted(g[i - 1], newlyParsedBlocks_[i])
         ELSE PutOne(g[i - 1], newlyParsedBlocks_[i])]

(* The recursion of PutAll defines a function. *)

LEMMA LoopExists == ASSUME NEW N \in Nat PROVE \E g : IsLoop(g, N)
<1> DEFINE T == {n \in Nat : ~ \E g : IsLoop(g, n)}
<1> SUFFICES ASSUME T # {} PROVE FALSE OBVIOUS
<1>1. PICK n \in T : \A m \in T : n <= m
  <2>1. T \in SUBSET Nat OBVIOUS
  <2> HIDE DEF T
  <2> QED BY <2>1, Lowest
<1>2. n \in Nat /\ ~ \E g : IsLoop(g, n) BY <1>1
<1>3. n # 0
  <2> SUFFICES ASSUME n = 0 PROVE FALSE OBVIOUS
  <2> DEFINE g == [i \in 0 .. 0 |-> Base]
  <2> HIDE DEF T
  <2>2. IsLoop(g, 0) BY SMTT(60) DEF IsLoop, Base
  <2> HIDE DEF g
  <2> QED BY <2>2, <1>2
<1>4. n - 1 \in Nat /\ n - 1 \notin T
  <2>1. n - 1 \in Nat /\ n - 1 < n BY <1>2, <1>3, SMTT(60)
  <2> HIDE DEF T
  <2> QED BY <2>1, <1>1, <1>2, SMTT(60)
<1>5. PICK p : IsLoop(p, n - 1) BY <1>4
<1> HIDE DEF T
<1> DEFINE next == IF blockHeight_[newlyParsedBlocks_[n]] = NoHeight
                     THEN Unputted(p[n - 1], newlyParsedBlocks_[n])
                     ELSE PutOne(p[n - 1], newlyParsedBlocks_[n])
           g == [i \in 0 .. n |-> IF i = n THEN next ELSE p[i]]
<1>6. \A i \in 0 .. n : i # 0 => g[i - 1] = p[i - 1]
  <2> HIDE DEF next
  <2> QED BY <1>2, SMTT(60)
<1>7. \A i \in 0 .. n - 1 : p[i] = IF i = 0 THEN Base
         ELSE IF blockHeight_[newlyParsedBlocks_[i]] = NoHeight
           THEN Unputted(p[i - 1], newlyParsedBlocks_[i])
         ELSE PutOne(p[i - 1], newlyParsedBlocks_[i])
  BY <1>5, ZenonT(60) DEF IsLoop, Base
<1>8. ASSUME NEW i \in 0 .. n
      PROVE  g[i] = IF i = 0 THEN Base
                    ELSE IF blockHeight_[newlyParsedBlocks_[i]] = NoHeight
                      THEN Unputted(g[i - 1], newlyParsedBlocks_[i])
                    ELSE PutOne(g[i - 1], newlyParsedBlocks_[i])
  <2>1. CASE i = n
    <3>1. g[i] = next /\ i # 0 BY <2>1, <1>3, ZenonT(60)
    <3>2. g[i - 1] = p[n - 1] BY <2>1, <1>6, <3>1, ZenonT(60)
    <3> HIDE DEF g
    <3> QED BY <3>1, <3>2, <2>1, ZenonT(60)
  <2>2. CASE i # n
    <3> HIDE DEF next
    <3>1. i \in 0 .. n - 1 /\ g[i] = p[i] BY <2>2, <1>2, SMTT(60)
    <3>2. i # 0 => g[i - 1] = p[i - 1] BY <1>6, ZenonT(60)
    <3> HIDE DEF g
    <3> QED BY <3>1, <3>2, <1>7, ZenonT(60)
  <2> QED BY <2>1, <2>2, ZenonT(60)
<1>9. IsLoop(g, n)
  <2>1. g = [i \in 0 .. n |-> g[i]] OBVIOUS
  <2> HIDE DEF g
  <2> QED BY <1>8, <2>1, ZenonT(60) DEF IsLoop, Base
<1> QED BY <1>9, <1>2, ZenonT(60)

LEMMA PutAllIsLoop ==
  ASSUME Len(newlyParsedBlocks_) \in Nat
  PROVE  \E g : IsLoop(g, Len(newlyParsedBlocks_)) /\ PutAll = g[Len(newlyParsedBlocks_)]
<1> DEFINE c == CHOOSE g : IsLoop(g, Len(newlyParsedBlocks_))
<1>2. IsLoop(c, Len(newlyParsedBlocks_)) BY LoopExists
<1>3. PutAll = c[Len(newlyParsedBlocks_)] BY ZenonT(60) DEF PutAll, IsLoop
<1> QED BY <1>2, <1>3, ZenonT(60)

(* What the loop has put, and what it has left, after i headers. *)
LoopState(db, i) ==
  /\ Listed(db)
  /\ DOMAIN db.headers =
       Stored \cup {h \in {newlyParsedBlocks_[j] : j \in 1 .. i} : blockHeight_[h] # NoHeight}
  /\ db.unput \in Seq(headerMap_)

LEMMA LoopKeeps ==
  ASSUME NEW N \in Nat, NEW g, IsLoop(g, N),
         Listed(Base), headerMap_ \subseteq Hash,
         \A i \in 1 .. N : /\ newlyParsedBlocks_[i] \in headerMap_
                           /\ uniqueID_[newlyParsedBlocks_[i]] \in Nat
                           /\ blockHeight_[newlyParsedBlocks_[i]] \in Nat \cup {NoHeight}
  PROVE  LoopState(g[N], N)
<1> DEFINE T == {n \in 0 .. N : ~LoopState(g[n], n)}
<1> SUFFICES ASSUME T # {} PROVE FALSE BY SMTT(60)
<1>1. PICK n \in T : \A m \in T : n <= m
  <2>1. T \in SUBSET Nat BY SMTT(60)
  <2> HIDE DEF T
  <2> QED BY <2>1, Lowest
<1>2. n \in 0 .. N /\ ~LoopState(g[n], n) BY <1>1
<1>3. g[n] = IF n = 0 THEN Base
             ELSE IF blockHeight_[newlyParsedBlocks_[n]] = NoHeight
               THEN Unputted(g[n - 1], newlyParsedBlocks_[n])
             ELSE PutOne(g[n - 1], newlyParsedBlocks_[n])
  BY <1>2, ZenonT(60) DEF IsLoop, Base
<1>4. n # 0
  <2> SUFFICES ASSUME n = 0 PROVE FALSE BY ZenonT(60)
  <2>1. g[n] = Base BY <1>3, ZenonT(60)
  <2>3. Base.unput = << >> /\ Base.headers = dbHeaders BY ZenonT(60) DEF Base
  <2>4. {newlyParsedBlocks_[j] : j \in 1 .. 0} = {} BY SMTT(60)
  <2>5. << >> \in Seq(headerMap_) BY SMTT(60)
  <2> HIDE DEF Base
  <2>6. LoopState(Base, 0) BY <2>3, <2>4, <2>5, ZenonT(60) DEF LoopState, Stored
  <2> QED BY <2>1, <2>6, <1>2
<1>5. n - 1 \in 0 .. N /\ n - 1 \notin T
  <2>1. n - 1 \in 0 .. N /\ n - 1 < n BY <1>2, <1>4, SMTT(60)
  <2> HIDE DEF T
  <2> QED BY <2>1, <1>1, <1>2, SMTT(60)
<1>6. LoopState(g[n - 1], n - 1) BY <1>5
<1> DEFINE db == g[n - 1]
           h == newlyParsedBlocks_[n]
<1>7. h \in headerMap_ /\ h \in Hash /\ uniqueID_[h] \in Nat /\ blockHeight_[h] \in Nat \cup {NoHeight}
  BY <1>2, <1>4, SMTT(60)
<1>8. {newlyParsedBlocks_[j] : j \in 1 .. n} = {newlyParsedBlocks_[j] : j \in 1 .. n - 1} \cup {h}
  BY <1>2, <1>4, SMTT(60)
<1>9. CASE blockHeight_[h] = NoHeight
  <2>1. g[n] = Unputted(db, h) BY <1>3, <1>4, <1>9, ZenonT(60)
  <2>2. /\ Unputted(db, h).hhl = db.hhl /\ Unputted(db, h).headers = db.headers
        /\ Unputted(db, h).unput = Append(db.unput, h)
    BY ZenonT(60) DEF Unputted
  <2>3. Listed(db) /\ db.unput \in Seq(headerMap_) BY <1>6, ZenonT(60) DEF LoopState
  <2> HIDE DEF db, h
  <2>4. Listed(g[n]) BY <2>1, <2>2, <2>3, ZenonT(60) DEF Listed
  <2>5. g[n].unput \in Seq(headerMap_) BY <2>1, <2>2, <2>3, <1>7, SMTT(60)
  <2>6. DOMAIN g[n].headers =
          Stored \cup {k \in {newlyParsedBlocks_[j] : j \in 1 .. n} : blockHeight_[k] # NoHeight}
    BY <2>1, <2>2, <1>6, <1>8, <1>9, ZenonT(60) DEF LoopState, db
  <2> QED BY <2>4, <2>5, <2>6, <1>2 DEF LoopState
<1>10. CASE blockHeight_[h] # NoHeight
  <2>1. g[n] = PutOne(db, h) BY <1>3, <1>4, <1>10, ZenonT(60)
  <2>2. Listed(db) /\ db.unput \in Seq(headerMap_) BY <1>6, ZenonT(60) DEF LoopState
  <2> HIDE DEF db, h
  <2>3. /\ Listed(g[n]) /\ DOMAIN g[n].headers = DOMAIN db.headers \cup {h}
        /\ g[n].unput = db.unput
    BY <2>1, <2>2, <1>7, <1>10, PutOneListed, SMTT(60)
  <2>4. DOMAIN g[n].headers =
          Stored \cup {k \in {newlyParsedBlocks_[j] : j \in 1 .. n} : blockHeight_[k] # NoHeight}
    BY <2>3, <1>6, <1>8, <1>10, ZenonT(60) DEF LoopState, db
  <2> QED BY <2>2, <2>3, <2>4, <1>2, ZenonT(60) DEF LoopState
<1> QED BY <1>9, <1>10, ZenonT(60)

LEMMA PutLoop ==
  ASSUME ISync, PutNewBareHeaders
  PROVE  LoopState(PutAll, Len(newlyParsedBlocks_))
<1> DEFINE N == Len(newlyParsedBlocks_)
<1>1. /\ Listed(Base) /\ headerMap_ \subseteq Hash /\ newlyParsedBlocks_ \in Seq(headerMap_)
      /\ N \in Nat
  BY SMTT(60) DEF ISync, Blocks, IChain, Types
<1>2. uniqueID_[Genesis] # NoId /\ uniqueID_[Genesis] \in Nat
  BY HashAssumption, SMTT(60) DEF PutNewBareHeaders, ISync, Blocks, IChain, Types
<1>3. PICK g : IsLoop(g, N) /\ PutAll = g[N] BY <1>1, PutAllIsLoop
<1>4. ASSUME NEW i \in 1 .. N
      PROVE  /\ newlyParsedBlocks_[i] \in headerMap_
             /\ uniqueID_[newlyParsedBlocks_[i]] \in Nat
             /\ blockHeight_[newlyParsedBlocks_[i]] \in Nat \cup {NoHeight}
  <2>1. newlyParsedBlocks_[i] \in headerMap_ BY <1>1, SMTT(60)
  <2>2. uniqueID_[newlyParsedBlocks_[i]] \in Nat BY <2>1, <1>2 DEF ISync, IChain, GenesisFirst
  <2> QED BY <2>1, <2>2, <1>1, ZenonT(60) DEF ISync, IChain, Types
<1> HIDE DEF N
<1>5. LoopState(PutAll, N) BY <1>3, <1>4, <1>1, LoopKeeps
<1> QED BY <1>5 DEF N

LEMMA PutInv == ISync /\ PutNewBareHeaders => ISync'
<1> SUFFICES ASSUME ISync, PutNewBareHeaders PROVE ISync' OBVIOUS
<1> USE HashAssumption DEF mapVars, topVars, fieldVars, traceVars, walkVars, dbVars
<1> DEFINE N == Len(newlyParsedBlocks_)
<1>m. /\ phase = "put" /\ pc = "idle" /\ phase' \in {"undo", "up"} /\ pc' = pc
      /\ hhl' = PutAll.hhl /\ dbHeaders' = PutAll.headers /\ newlyParsedBlocks_' = PutAll.unput
      /\ UNCHANGED <<headerMap_, uniqueID_, blkfile, topBlockOffset_>>
  BY ZenonT(60) DEF PutNewBareHeaders
<1>b. /\ headerMap_ \subseteq Hash /\ newlyParsedBlocks_ \in Seq(headerMap_)
      /\ Stored \subseteq headerMap_ /\ DOMAIN newlyParsedBlocks_ = 1 .. N
  BY SMTT(60) DEF ISync, Blocks, IChain, Types
<1>g. uniqueID_[Genesis] # NoId /\ Genesis \in Stored \cup Waiting
  BY <1>m DEF ISync, Blocks
<1>h. blockHeight_[Genesis] = 0 BY <1>m DEF ISync, Phases, IChain, Sums
<1>l. LoopState(PutAll, N) BY PutLoop
<1>1. IChain' BY ChainSameInv, ZenonT(60) DEF PutNewBareHeaders, ISync, chainState
<1>2. Listed(Base)'
  <2>1. Listed(PutAll) BY <1>l DEF LoopState
  <2>2. Base'.hhl = PutAll.hhl /\ Base'.headers = PutAll.headers BY <1>m DEF Base
  <2> HIDE DEF Base
  <2> QED BY <2>1, <2>2, ZenonT(60) DEF Listed
<1>3. Blocks'
  <2>1. Stored' = Stored \cup {h \in Waiting : blockHeight_[h] # NoHeight}
    <3>1. Stored' = DOMAIN PutAll.headers BY <1>m, ZenonT(60) DEF Stored
    <3> QED BY <3>1, <1>l, <1>b, ZenonT(60) DEF LoopState, Waiting
  <2>2. Waiting \subseteq headerMap_ BY <1>b, SMTT(60) DEF Waiting
  <2>3. Stored' \subseteq headerMap_' BY <2>1, <2>2, <1>b, <1>m, ZenonT(60)
  <2>4. Genesis \in Stored' BY <2>1, <1>g, <1>h, SMTT(60)
  <2>5. newlyParsedBlocks_' \in Seq(headerMap_') BY <1>l, <1>m, ZenonT(60) DEF LoopState
  <2>6. /\ blkfile' \in Seq(Hash) /\ blkfile' # << >> /\ blkfile'[1] = Genesis
        /\ headerMap_' \subseteq OnDisk' /\ topBlockOffset_' \in 1 .. Len(blkfile') + 1
    BY <1>m, ZenonT(60) DEF ISync, Blocks, OnDisk
  <2>7. uniqueID_'[Genesis] # NoId BY <1>m, <1>g, ZenonT(60)
  <2> QED BY <2>3, <2>4, <2>5, <2>6, <2>7, ZenonT(60) DEF Blocks
<1>4. Phases' BY <1>m DEF Phases
<1>5. Rebuilt' BY <1>m DEF Rebuilt
<1> QED BY <1>1, <1>2, <1>3, <1>4, <1>5 DEF ISync

-----------------------------------------------------------------------------

LEMMA NextSync == ISync /\ [Next]_vars => ISync'
<1> SUFFICES ASSUME ISync, [Next]_vars PROVE ISync' OBVIOUS
<1>1. ASSUME NEW h \in Hash, NodeWrites(h) PROVE ISync' BY <1>1, NodeWritesInv
<1>2. CASE Restart BY <1>2, RestartInv
<1>3. CASE InitOrganize BY <1>3, OrganizeFromInv, ZenonT(60) DEF InitOrganize
<1>4. CASE InitRewind BY <1>4, InitRewindInv
<1>5. CASE ParseBlocks BY <1>5, ParseBlocksInv
<1>6. CASE UpdateOrganize BY <1>6, OrganizeFromInv, ZenonT(60) DEF UpdateOrganize
<1>7. CASE PutNewBareHeaders BY <1>7, PutInv
<1>8. CASE UndoHistory BY <1>8, QuietInv DEF UndoHistory
<1>9. CASE InitSkipsUndo BY <1>9, QuietInv DEF InitSkipsUndo
<1>10. CASE Update BY <1>10, QuietInv DEF Update
<1>11. CASE Organizing BY <1>11, OrganizingInv
<1>12. CASE UNCHANGED vars BY <1>12, QuietInv DEF vars, syncVars
<1> QED BY <1>1, <1>2, <1>3, <1>4, <1>5, <1>6, <1>7, <1>8, <1>9, <1>10, <1>11, <1>12
        DEF Next, SyncStep

(* The invariant of the header databases holds however often the process   *)
(* is stopped and started, and in whatever order the node writes blocks.   *)
THEOREM SyncInvariance == Spec => []ISync
BY InitSync, NextSync, PTL DEF Spec

(* putBareHeader never gives two headers the same height and dup, over any *)
(* number of restarts and also where a header is put a second time at      *)
(* another height.                                                         *)
THEOREM DupsHold == Spec => []DupsTellApart
<1>1. ISync => DupsTellApart
  <2> SUFFICES ASSUME ISync, NEW g \in DOMAIN dbHeaders, NEW h \in DOMAIN dbHeaders,
                      dbHeaders[g].height = dbHeaders[h].height,
                      dbHeaders[g].dup = dbHeaders[h].dup
               PROVE  g = h
    BY DEF DupsTellApart
  <2>1. Base.headers = dbHeaders /\ Base.hhl = hhl BY DEF Base
  <2>2. Listed(Base) BY DEF ISync
  <2> HIDE DEF Base
  <2> QED BY <2>1, <2>2, ZenonT(60) DEF Listed
<1> QED BY <1>1, SyncInvariance, PTL

(* The top block is a heaviest one also when the headers come back from    *)
(* the database after a restart.                                           *)
THEOREM HeaviestOverRestarts == Spec => []HeaviestTop
<1>1. ISync => HeaviestTop BY DEF ISync, IChain, Walking, Heaviest, HeaviestTop
<1> QED BY <1>1, SyncInvariance, PTL

-----------------------------------------------------------------------------
(* Where the node writes parents before children, what is in memory and in *)
(* the database is a beginning of the block files, so every header is      *)
(* linked to the genesis block, and has its sum whenever organizeChain has *)
(* run.  With a child written first an orphan can be in between, and a     *)
(* rebuild gives it the height 0 (README).                                 *)

ParentsFirst ==
  /\ \A i, j \in DOMAIN blkfile : blkfile[i] = blkfile[j] => i = j
  /\ \A i \in DOMAIN blkfile :
       blkfile[i] = Genesis \/ \E j \in DOMAIN blkfile : j < i /\ blkfile[j] = prev[blkfile[i]]

Beginning(S) == \A i, j \in DOMAIN blkfile : j < i /\ blkfile[i] \in S => blkfile[j] \in S

Complete ==
  /\ Beginning(headerMap_) /\ Beginning(Stored)
  /\ \A i \in DOMAIN blkfile : i < topBlockOffset_ => Known(blkfile[i])
  /\ \A h \in headerMap_ : Known(h) => h \in Stored \cup Waiting
  /\ phase \in {"undo", "up"} => headerMap_ \subseteq Stored
  /\ pc = "idle" /\ phase \notin {"loaded", "parsed"} =>
       \A h \in headerMap_ : difficultySum_[h] > 0

(* The heights in the database are those of the chain, and memory agrees   *)
(* with them as soon as a header has its sum.                              *)
Agree ==
  \A h \in Stored :
    /\ dbHeaders[h].height = IF h = Genesis THEN 0 ELSE dbHeaders[prev[h]].height + 1
    /\ difficultySum_[h] > 0 => blockHeight_[h] = dbHeaders[h].height
    /\ duplicateID_[h] = dbHeaders[h].dup

IAgree == ISync /\ ParentsFirst /\ Complete /\ Agree
(* A beginning of the files has the parents of its blocks. *)
LEMMA ParentsThere ==
  ASSUME ISync, ParentsFirst, NEW S \in SUBSET headerMap_, Beginning(S)
  PROVE  \A h \in S : h = Genesis \/ prev[h] \in S
<1> SUFFICES ASSUME NEW h \in S, h # Genesis PROVE prev[h] \in S OBVIOUS
<1>1. h \in OnDisk BY DEF ISync, Blocks
<1>2. PICK i \in DOMAIN blkfile : blkfile[i] = h BY <1>1 DEF OnDisk
<1>3. PICK j \in DOMAIN blkfile : j < i /\ blkfile[j] = prev[h] BY <1>2 DEF ParentsFirst
<1> QED BY <1>2, <1>3 DEF Beginning

LEMMA AllLinked == ASSUME IAgree PROVE headerMap_ \subseteq Linked
<1>1. Beginning(headerMap_) BY DEF IAgree, Complete
<1>2. \A h \in headerMap_ : h = Genesis \/ prev[h] \in headerMap_
  BY <1>1, ParentsThere DEF IAgree
<1> QED BY <1>2 DEF Linked, Closed

LEMMA InitAgree == Init => IAgree
<1> SUFFICES ASSUME Init PROVE IAgree OBVIOUS
<1>1. blkfile = <<Genesis>> /\ headerMap_ = {Genesis} /\ dbHeaders = << >> /\ topBlockOffset_ = 1
      /\ uniqueID_ = [h \in Hash |-> NoId] /\ phase = "loaded"
  BY DEF Init, ChainInit
<1>2. Stored = {} /\ DOMAIN blkfile = {1} /\ blkfile[1] = Genesis
  BY <1>1 DEF Stored
<1>3. ParentsFirst BY <1>2, ZenonT(60) DEF ParentsFirst
<1>4. Complete
  <2>1. ~Known(Genesis) BY <1>1, HashAssumption DEF Known
  <2>2. ~(1 < 1) OBVIOUS
  <2> QED BY <1>1, <1>2, <2>1, <2>2, ZenonT(60) DEF Complete, Beginning
<1>5. Agree BY <1>2, ZenonT(60) DEF Agree
<1> QED BY InitSync, <1>3, <1>4, <1>5, ZenonT(60) DEF IAgree

LEMMA NodeWritesAgree ==
  ASSUME ~OutOfOrder, IAgree, NEW h \in Hash, NodeWrites(h)
  PROVE  IAgree'
<1> USE DEF chainVars, mapVars, topVars, fieldVars, traceVars, walkVars, dbVars
<1>1. ISync' BY NodeWritesInv DEF IAgree
<1>2. /\ h \notin OnDisk /\ prev[h] \in OnDisk /\ blkfile' = Append(blkfile, h)
      /\ UNCHANGED <<prev, headerMap_, dbHeaders, newlyParsedBlocks_, uniqueID_, topBlockOffset_,
                     phase, pc, difficultySum_, blockHeight_, duplicateID_>>
  BY ZenonT(60) DEF NodeWrites
<1> DEFINE n == Len(blkfile)
<1>3. /\ blkfile \in Seq(Hash) /\ n \in Nat /\ DOMAIN blkfile = 1 .. n
      /\ topBlockOffset_ \in 1 .. n + 1 /\ headerMap_ \subseteq OnDisk /\ Stored \subseteq headerMap_
  BY SMTT(60) DEF IAgree, ISync, Blocks
<1>4. /\ DOMAIN blkfile' = 1 .. n + 1 /\ blkfile'[n + 1] = h
      /\ \A i \in 1 .. n : blkfile'[i] = blkfile[i]
  BY <1>2, <1>3, SMTT(60)
<1> HIDE DEF n
<1>5. \A i \in 1 .. n + 1 : (i \in 1 .. n \/ i = n + 1) /\ ~(n + 1 < i)
  BY <1>3, SMTT(60)
<1>6. \A i \in 1 .. n : blkfile'[i] # h /\ i < n + 1 /\ i \in 1 .. n + 1
  <2>1. \A i \in 1 .. n : blkfile[i] # h BY <1>2, <1>3, ZenonT(60) DEF OnDisk
  <2> QED BY <2>1, <1>3, <1>4, SMTT(60)
<1>7. ParentsFirst'
  <2>1. ASSUME NEW i \in 1 .. n + 1, NEW j \in 1 .. n + 1, blkfile'[i] = blkfile'[j] PROVE i = j
    BY <2>1, <1>3, <1>4, <1>5, <1>6, ZenonT(60) DEF IAgree, ParentsFirst
  <2>2. ASSUME NEW i \in 1 .. n + 1
        PROVE  \/ blkfile'[i] = Genesis
               \/ \E j \in 1 .. n + 1 : j < i /\ blkfile'[j] = prev[blkfile'[i]]
    <3>1. CASE i = n + 1
      <4>1. PICK j \in 1 .. n : blkfile[j] = prev[h] BY <1>2, <1>3, ZenonT(60) DEF OnDisk
      <4> QED BY <4>1, <3>1, <1>4, <1>6, ZenonT(60)
    <3>2. CASE i \in 1 .. n
      <4>1. \/ blkfile[i] = Genesis
            \/ \E j \in 1 .. n : j < i /\ blkfile[j] = prev[blkfile[i]]
        BY <3>2, <1>3, ZenonT(60) DEF IAgree, ParentsFirst
      <4> QED BY <4>1, <3>2, <1>4, <1>6, ZenonT(60)
    <3> QED BY <3>1, <3>2, <1>5, ZenonT(60)
  <2>3. DOMAIN blkfile' = 1 .. n + 1 /\ prev' = prev BY <1>2, <1>4
  <2> QED BY <2>1, <2>2, <2>3, ZenonT(60) DEF ParentsFirst
<1>8. ASSUME NEW S \in SUBSET headerMap_, Beginning(S),
             NEW i \in 1 .. n + 1, NEW j \in 1 .. n + 1, j < i, blkfile'[i] \in S
      PROVE  blkfile'[j] \in S
  <2>1. i \in 1 .. n BY <1>8, <1>2, <1>3, <1>4, <1>5, ZenonT(60)
  <2>2. j \in 1 .. n BY <2>1, <1>3, <1>8, SMTT(60)
  <2> QED BY <2>1, <2>2, <1>3, <1>4, <1>8, ZenonT(60) DEF Beginning
<1>9. Complete'
  <2>1. Stored' = Stored /\ Waiting' = Waiting BY <1>2, ZenonT(60) DEF Stored, Waiting
  <2>2. Beginning(headerMap_)' /\ Beginning(Stored)'
    BY <1>2, <1>3, <1>4, <1>8, <2>1, ZenonT(60) DEF Beginning, IAgree, Complete
  <2>3. \A i \in 1 .. n + 1 : i < topBlockOffset_ => i \in 1 .. n BY <1>3, SMTT(60)
  <2>4. ASSUME NEW i \in 1 .. n + 1, i < topBlockOffset_ PROVE Known(blkfile'[i])
    BY <2>3, <2>4, <1>3, <1>4, ZenonT(60) DEF IAgree, Complete
  <2> QED BY <1>2, <1>4, <2>1, <2>2, <2>4, ZenonT(60) DEF Complete, IAgree, Known
<1>10. Agree' BY <1>2, ZenonT(60) DEF Agree, IAgree, Stored
<1> QED BY <1>1, <1>7, <1>9, <1>10, ZenonT(60) DEF IAgree

(* Steps that leave the headers alone. *)
LEMMA QuietAgree ==
  ASSUME IAgree, ISync',
         UNCHANGED <<prev, headerMap_, newlyParsedBlocks_, uniqueID_, difficultySum_, blockHeight_,
                     blkfile, topBlockOffset_, dbHeaders, duplicateID_>>,
         \/ phase \in {"undo", "up"} /\ phase' \in {"up", "parse"} /\ pc' = pc
         \/ phase' = phase /\ pc' = pc
         \/ phase' \in {"organized", "put"} /\ pc' = "begin"
  PROVE  IAgree'
<1>1. ParentsFirst' BY ZenonT(60) DEF IAgree, ParentsFirst
<1>2. Stored' = Stored /\ Waiting' = Waiting /\ (\A h : Known(h)' <=> Known(h))
  BY ZenonT(60) DEF Stored, Waiting, Known
<1>3. Beginning(headerMap_)' /\ Beginning(Stored)'
  BY <1>2, ZenonT(60) DEF IAgree, Complete, Beginning
<1>4. (phase' \in {"undo", "up"} => headerMap_' \subseteq Stored')
  BY <1>2, ZenonT(60) DEF IAgree, Complete
<1>5. pc' = "idle" /\ phase' \notin {"loaded", "parsed"} =>
       \A h \in headerMap_' : difficultySum_'[h] > 0
  BY ZenonT(60) DEF IAgree, Complete
<1>6. Complete' BY <1>2, <1>3, <1>4, <1>5, ZenonT(60) DEF IAgree, Complete
<1>7. Agree' BY <1>2, ZenonT(60) DEF IAgree, Agree
<1> QED BY <1>1, <1>6, <1>7, ZenonT(60) DEF IAgree

(* organizeChain: a header gets its height from its parent. *)
LEMMA HeightStep ==
  ASSUME ISync, OrganizeStep, NEW h \in headerMap_, difficultySum_'[h] > 0
  PROVE  \/ difficultySum_[h] > 0 /\ blockHeight_'[h] = blockHeight_[h]
         \/ h = Genesis /\ blockHeight_'[h] = 0
         \/ /\ h # Genesis /\ difficultySum_[prev[h]] > 0
            /\ blockHeight_'[h] = blockHeight_[prev[h]] + 1
<1> USE DEF fieldVars
<1>t. h \in Hash /\ Types BY DEF ISync, IChain, Types
<1>1. CASE OrganizeBegin
  <2>1. /\ difficultySum_'[h] = IF h = Genesis THEN 1
                                ELSE IF forceRebuild THEN -1 ELSE difficultySum_[h]
        /\ blockHeight_'[h] = IF h = Genesis \/ forceRebuild THEN 0 ELSE blockHeight_[h]
    BY <1>1, <1>t, SMTT(60) DEF OrganizeBegin
  <2> QED BY <2>1, SMTT(60)
<1>2. CASE TraceUp
  <2> DEFINE s == headerPtrStack
             k == s[Len(s)]
  <2>1. /\ difficultySum_' = [difficultySum_ EXCEPT ![k] = SumAbove(k)]
        /\ blockHeight_' = [blockHeight_ EXCEPT ![k] = blockHeight_[thisPtr] + 1]
        /\ pc = "down" /\ difficultySum_[thisPtr] > 0 /\ s # << >>
    BY <1>2, ZenonT(60) DEF TraceUp
  <2>2. k \in headerMap_ /\ difficultySum_[k] < 0 /\ prev[k] = thisPtr
    BY <2>1, SMTT(60) DEF ISync, IChain, Down
  <2>3. difficultySum_[Genesis] = 1 BY <2>1, ZenonT(60) DEF ISync, IChain, Sums
  <2> HIDE DEF k
  <2>4. CASE h = k
    <3>1. h # Genesis BY <2>2, <2>3, <2>4, SMTT(60)
    <3>2. blockHeight_'[h] = blockHeight_[thisPtr] + 1 BY <2>1, <2>4, <1>t, SMTT(60) DEF Types
    <3> QED BY <3>1, <3>2, <2>1, <2>2, <2>4, ZenonT(60)
  <2>5. CASE h # k
    <3>1. difficultySum_'[h] = difficultySum_[h] /\ blockHeight_'[h] = blockHeight_[h]
      BY <2>1, <2>5, <1>t, SMTT(60) DEF Types
    <3> QED BY <3>1, ZenonT(60)
  <2> QED BY <2>4, <2>5
<1>3. CASE TraceBegin \/ TraceDown \/ TraceOrphan \/ TraceEnd \/ WalkBegin \/ Walk \/ WalkEnd
  <2>1. difficultySum_' = difficultySum_ /\ blockHeight_' = blockHeight_
    BY <1>3, ZenonT(60) DEF TraceBegin, TraceDown, TraceOrphan, TraceEnd, WalkBegin, Walk, WalkEnd
  <2> QED BY <2>1, ZenonT(60)
<1> QED BY <1>1, <1>2, <1>3, ZenonT(60) DEF OrganizeStep

LEMMA OrganizingAgree == ASSUME IAgree, Organizing PROVE IAgree'
<1>1. ISync /\ ISync' BY OrganizingInv, ZenonT(60) DEF IAgree
<1>2. OrganizeStep /\ UNCHANGED <<blkfile, topBlockOffset_, dbHeaders, duplicateID_, phase>>
  BY ZenonT(60) DEF Organizing, syncVars, dbVars
<1>3. /\ UNCHANGED <<headerMap_, newlyParsedBlocks_, uniqueID_, prev>>
      /\ pc # "idle" /\ (pc' = "idle" => WalkEnd)
  BY <1>2, OrganizeFrame, ZenonT(60)
<1>4. ParentsFirst' BY <1>2, <1>3, ZenonT(60) DEF IAgree, ParentsFirst
<1>5. Stored' = Stored /\ Waiting' = Waiting /\ (\A h : Known(h)' <=> Known(h))
  BY <1>2, <1>3, ZenonT(60) DEF Stored, Waiting, Known
<1>6. Complete'
  <2>1. ASSUME pc' = "idle", NEW h \in headerMap_ PROVE difficultySum_'[h] > 0
    <3>1. WalkEnd BY <2>1, <1>3
    <3>2. pc = "walk" /\ difficultySum_' = difficultySum_ BY <3>1, ZenonT(60) DEF WalkEnd
    <3>3. h \in Linked BY AllLinked
    <3> QED BY <3>2, <3>3, <1>1, ZenonT(60) DEF ISync, IChain, Walking
  <2>2. Beginning(headerMap_)' /\ Beginning(Stored)'
    BY <1>2, <1>3, <1>5, ZenonT(60) DEF IAgree, Complete, Beginning
  <2> QED BY <2>1, <2>2, <1>2, <1>3, <1>5, ZenonT(60) DEF IAgree, Complete
<1>7. Agree'
  <2>1. ASSUME NEW h \in Stored, difficultySum_'[h] > 0 PROVE blockHeight_'[h] = dbHeaders[h].height
    <3>1. h \in headerMap_ BY <1>1, ZenonT(60) DEF ISync, Blocks
    <3>2. h # Genesis => prev[h] \in Stored
      <4>1. Stored \in SUBSET headerMap_ /\ Beginning(Stored) /\ ParentsFirst
        BY <1>1, ZenonT(60) DEF ISync, Blocks, IAgree, Complete
      <4> QED BY <4>1, <1>1, ParentsThere, ZenonT(60)
    <3>3. /\ dbHeaders[h].height = IF h = Genesis THEN 0 ELSE dbHeaders[prev[h]].height + 1
          /\ difficultySum_[h] > 0 => blockHeight_[h] = dbHeaders[h].height
          /\ h # Genesis /\ difficultySum_[prev[h]] > 0 =>
               blockHeight_[prev[h]] = dbHeaders[prev[h]].height
      BY <3>2, ZenonT(60) DEF IAgree, Agree
    <3>4. \/ difficultySum_[h] > 0 /\ blockHeight_'[h] = blockHeight_[h]
          \/ h = Genesis /\ blockHeight_'[h] = 0
          \/ /\ h # Genesis /\ difficultySum_[prev[h]] > 0
             /\ blockHeight_'[h] = blockHeight_[prev[h]] + 1
      BY <1>1, <1>2, <2>1, <3>1, HeightStep, ZenonT(60)
    <3> QED BY <3>3, <3>4, SMTT(60)
  <2> QED BY <2>1, <1>2, <1>3, <1>5, ZenonT(60) DEF IAgree, Agree
<1> QED BY <1>1, <1>4, <1>6, <1>7, ZenonT(60) DEF IAgree

(* init goes back to a block in memory; all before it is there too. *)
LEMMA InitRewindAgree == ASSUME IAgree, InitRewind PROVE IAgree'
<1> USE DEF chainVars, mapVars, topVars, fieldVars, dbVars
<1>1. ISync /\ ISync' BY InitRewindInv, ZenonT(60) DEF IAgree
<1>2. /\ phase = "organized" /\ pc = "idle" /\ phase' = "parse"
      /\ UNCHANGED <<prev, headerMap_, newlyParsedBlocks_, uniqueID_, difficultySum_, blockHeight_,
                     pc, blkfile, dbHeaders, duplicateID_>>
  BY ZenonT(60) DEF InitRewind
<1>3. ParentsFirst' BY <1>2, ZenonT(60) DEF IAgree, ParentsFirst
<1>4. Stored' = Stored /\ Waiting' = Waiting /\ (\A h : Known(h)' <=> Known(h))
  BY <1>2, ZenonT(60) DEF Stored, Waiting, Known
<1>5. \A i \in DOMAIN blkfile : i < topBlockOffset_' => Known(blkfile[i])
  <2> DEFINE height == IF Top > Rewind THEN Top - Rewind ELSE 1
             b == headersByHeight_[height]
  <2>1. topBlockOffset_' = IF height \in DOMAIN headersByHeight_ THEN Offset(b) ELSE topBlockOffset_
    BY ZenonT(60) DEF InitRewind, Top
  <2>2. \A i \in DOMAIN headersByHeight_ : headersByHeight_[i] \in headerMap_
    BY <1>1, <1>2, ZenonT(60) DEF ISync, Rebuilt
  <2> HIDE DEF height
  <2>3. CASE height \in DOMAIN headersByHeight_
    <3>1. b \in headerMap_ BY <2>2, <2>3
    <3> HIDE DEF b
    <3>2. b \in OnDisk BY <3>1, <1>1, ZenonT(60) DEF ISync, Blocks
    <3>3. Offset(b) \in DOMAIN blkfile /\ blkfile[Offset(b)] = b
      BY <3>2, ZenonT(60) DEF OnDisk, Offset
    <3>4. ASSUME NEW i \in DOMAIN blkfile, i < Offset(b) PROVE Known(blkfile[i])
      <4>1. blkfile[i] \in headerMap_
        BY <3>1, <3>3, <3>4, ZenonT(60) DEF IAgree, Complete, Beginning
      <4>2. CASE uniqueID_[Genesis] # NoId
        BY <4>1, <4>2, <1>1, HashAssumption, ZenonT(60) DEF Known, ISync, IChain, GenesisFirst
      <4>3. CASE uniqueID_[Genesis] = NoId
        <5>1. headerMap_ = {Genesis} BY <4>3, <1>1, ZenonT(60) DEF ISync, IChain, GenesisFirst
        <5>2. blkfile[i] = blkfile[Offset(b)] BY <5>1, <4>1, <3>1, <3>3, ZenonT(60)
        <5>3. i = Offset(b) BY <5>2, <3>3, ZenonT(60) DEF IAgree, ParentsFirst
        <5>4. i \in Nat BY <1>1, SMTT(60) DEF ISync, Blocks
        <5> QED BY <5>3, <5>4, <3>4, SMTT(60)
      <4> QED BY <4>2, <4>3
    <3> QED BY <2>1, <2>3, <3>4, ZenonT(60) DEF b
  <2>4. CASE height \notin DOMAIN headersByHeight_
    BY <2>1, <2>4, ZenonT(60) DEF IAgree, Complete
  <2> QED BY <2>3, <2>4
<1>6. Complete'
  <2>1. Beginning(headerMap_)' /\ Beginning(Stored)'
    BY <1>2, <1>4, ZenonT(60) DEF IAgree, Complete, Beginning
  <2>2. \A h \in headerMap_' : difficultySum_'[h] > 0 BY <1>2, ZenonT(60) DEF IAgree, Complete
  <2> QED BY <2>1, <2>2, <1>2, <1>4, <1>5, ZenonT(60) DEF IAgree, Complete
<1>7. Agree' BY <1>2, <1>4, ZenonT(60) DEF IAgree, Agree
<1> QED BY <1>1, <1>3, <1>6, <1>7, ZenonT(60) DEF IAgree

(* Every block from m on is in the end of the sequence. *)
LEMMA EndHasAll ==
  ASSUME NEW S, NEW q \in Seq(S), NEW m \in 1 .. Len(q) + 1, NEW j \in DOMAIN q, ~(j < m)
  PROVE  \E i \in DOMAIN SubSeq(q, m, Len(q)) : SubSeq(q, m, Len(q))[i] = q[j]
<1> DEFINE n == Len(q)
           r == SubSeq(q, m, n)
<1>1. n \in Nat /\ m \in Int /\ j \in 1 .. n OBVIOUS
<1>2. r \in Seq(S) /\ Len(r) = n - m + 1 /\ (\A i \in 1 .. n - m + 1 : r[i] = q[m + i - 1])
  BY <1>1, SMTT(60)
<1>3. j - m + 1 \in 1 .. n - m + 1 /\ m + (j - m + 1) - 1 = j BY <1>1, SMTT(60)
<1> HIDE DEF n, r
<1>4. DOMAIN r = 1 .. n - m + 1 BY <1>2, SMTT(60)
<1>5. j - m + 1 \in DOMAIN r /\ r[j - m + 1] = q[j] BY <1>2, <1>3, <1>4, ZenonT(60)
<1> QED BY <1>5 DEF n, r

(* Parsing goes to the end of the files: all that is there is in memory. *)
LEMMA ParseBlocksAgree == ASSUME IAgree, ParseBlocks PROVE IAgree'
<1> USE DEF mapVars, topVars, dbVars
<1>1. ISync /\ ISync' BY ParseBlocksInv, ZenonT(60) DEF IAgree
<1> DEFINE file == Unparsed
           new == {h \in {file[i] : i \in DOMAIN file} : ~Known(h)}
<1>2. /\ phase' = "parsed" /\ addBlocksInBulk(file) /\ topBlockOffset_' = Len(blkfile) + 1
      /\ UNCHANGED <<prev, blkfile, dbHeaders, duplicateID_>>
  BY ZenonT(60) DEF ParseBlocks, EndOfFiles
<1> HIDE DEF file
<1>3. /\ headerMap_' = headerMap_ \cup new
      /\ uniqueID_' = [h \in Hash |-> IF h \in new THEN IdInFile(file, h) ELSE uniqueID_[h]]
      /\ difficultySum_' = [h \in Hash |-> IF h \in new THEN -1 ELSE difficultySum_[h]]
      /\ blockHeight_' = [h \in Hash |-> IF h \in new THEN NoHeight ELSE blockHeight_[h]]
      /\ newlyParsedBlocks_' = newlyParsedBlocks_ \o Sorted(new)
  BY <1>2, ZenonT(60) DEF addBlocksInBulk, InsertHeaders, QueueNew
<1>4. /\ blkfile \in Seq(Hash) /\ topBlockOffset_ \in 1 .. Len(blkfile) + 1
      /\ headerMap_' \subseteq OnDisk' /\ headerMap_' \subseteq Hash
      /\ newlyParsedBlocks_ \in Seq(headerMap_) /\ Stored \subseteq headerMap_
      /\ headerMap_ \subseteq Hash
  BY <1>1, ZenonT(60) DEF ISync, Blocks, IChain, Types
<1>5. OnDisk' = OnDisk /\ Stored' = Stored BY <1>2, ZenonT(60) DEF OnDisk, Stored
<1>6. \A j \in DOMAIN blkfile : blkfile[j] \in headerMap_'
  <2> SUFFICES ASSUME NEW j \in DOMAIN blkfile PROVE blkfile[j] \in headerMap_ \cup new BY <1>3
  <2>1. CASE j < topBlockOffset_ BY <2>1, ZenonT(60) DEF IAgree, Complete, Known
  <2>2. CASE ~(j < topBlockOffset_)
    <3>1. \E i \in DOMAIN file : file[i] = blkfile[j]
      BY <1>4, <2>2, EndHasAll, ZenonT(60) DEF file, Unparsed
    <3> QED BY <3>1, ZenonT(60) DEF Known
  <2> QED BY <2>1, <2>2
<1>7. new \in SUBSET Hash BY <1>3, <1>4, ZenonT(60)
<1>8. uniqueID_'[Genesis] # NoId
  BY <1>1, <1>2, ZenonT(60) DEF ISync, Blocks
<1>9. \A h \in headerMap_' : Known(h)'
  BY <1>1, <1>8, HashAssumption, ZenonT(60) DEF Known, ISync, IChain, GenesisFirst
<1> HIDE DEF new
<1>10. Waiting' = Waiting \cup new
  <2> DEFINE t == Sorted(new)
             a == newlyParsedBlocks_
             c == a \o t
  <2>1. t \in Seq(new) /\ {t[i] : i \in DOMAIN t} = new BY <1>7, SortedFacts, ZenonT(60)
  <2> HIDE DEF t
  <2>2. a \in Seq(Hash) /\ t \in Seq(Hash) BY <2>1, <1>4, <1>7, SMTT(60)
  <2>3. Len(a) \in Nat /\ Len(t) \in Nat /\ DOMAIN a = 1 .. Len(a) /\ DOMAIN t = 1 .. Len(t)
    BY <2>2, SMTT(60)
  <2>4. /\ DOMAIN c = 1 .. Len(a) + Len(t) /\ (\A i \in 1 .. Len(a) : c[i] = a[i])
        /\ \A i \in 1 .. Len(t) : c[Len(a) + i] = t[i]
    BY <2>2, <2>3, SMTT(60)
  <2> HIDE DEF a, c
  <2>5. /\ \A i \in 1 .. Len(a) : i \in DOMAIN c
        /\ \A i \in 1 .. Len(t) : Len(a) + i \in DOMAIN c
        /\ \A i \in DOMAIN c : i \in 1 .. Len(a) \/ \E j \in 1 .. Len(t) : i = Len(a) + j
    <3>1. ASSUME NEW i \in DOMAIN c, i \notin 1 .. Len(a) PROVE \E j \in 1 .. Len(t) : i = Len(a) + j
      <4>1. i - Len(a) \in 1 .. Len(t) /\ i = Len(a) + (i - Len(a)) BY <2>3, <2>4, <3>1, SMTT(60)
      <4> QED BY <4>1, ZenonT(60)
    <3>2. (\A i \in 1 .. Len(a) : i \in DOMAIN c) /\ (\A i \in 1 .. Len(t) : Len(a) + i \in DOMAIN c)
      BY <2>3, <2>4, SMTT(60)
    <3> QED BY <3>1, <3>2, ZenonT(60)
  <2>6. {c[i] : i \in DOMAIN c} = {a[i] : i \in DOMAIN a} \cup {t[i] : i \in DOMAIN t}
    <3>1. ASSUME NEW i \in DOMAIN c
          PROVE  (\E j \in DOMAIN a : c[i] = a[j]) \/ \E j \in DOMAIN t : c[i] = t[j]
      <4>1. CASE i \in 1 .. Len(a) BY <4>1, <2>3, <2>4, ZenonT(60)
      <4>2. CASE \E j \in 1 .. Len(t) : i = Len(a) + j BY <4>2, <2>3, <2>4, ZenonT(60)
      <4> QED BY <4>1, <4>2, <2>5, ZenonT(60)
    <3>2. \A j \in DOMAIN a : \E i \in DOMAIN c : a[j] = c[i] BY <2>3, <2>4, <2>5, ZenonT(60)
    <3>3. \A j \in DOMAIN t : \E i \in DOMAIN c : t[j] = c[i] BY <2>3, <2>4, <2>5, ZenonT(60)
    <3> QED BY <3>1, <3>2, <3>3, SMTT(60)
  <2>7. Waiting = {a[i] : i \in DOMAIN a} /\ Waiting' = {c[i] : i \in DOMAIN c}
    BY <1>3, ZenonT(60) DEF Waiting, a, c, t
  <2> QED BY <2>1, <2>6, <2>7, ZenonT(60)
<1>11. ParentsFirst' BY <1>2, ZenonT(60) DEF IAgree, ParentsFirst
<1>12. Complete'
  <2>1. Beginning(headerMap_)' BY <1>2, <1>6, ZenonT(60) DEF Beginning
  <2>2. Beginning(Stored)' BY <1>2, <1>5, ZenonT(60) DEF Beginning, IAgree, Complete
  <2>3. (\A i \in DOMAIN blkfile : Known(blkfile[i]))'
    BY <1>2, <1>6, <1>9, ZenonT(60) DEF Known
  <2>4. ASSUME NEW h \in headerMap_' PROVE h \in Stored' \cup Waiting'
    <3>1. CASE h \in new BY <3>1, <1>10
    <3>2. CASE h \notin new
      <4>1. h \in headerMap_ /\ uniqueID_'[h] = uniqueID_[h] BY <3>2, <1>3, <1>4, ZenonT(60)
      <4>2. Known(h) BY <4>1, <1>9, ZenonT(60) DEF Known
      <4> QED BY <4>1, <4>2, <1>5, <1>10, ZenonT(60) DEF IAgree, Complete
    <3> QED BY <3>1, <3>2
  <2> QED BY <2>1, <2>2, <2>3, <2>4, <1>2, ZenonT(60) DEF Complete
<1>13. Agree'
  <2>1. ASSUME NEW h \in Stored
        PROVE  difficultySum_'[h] = difficultySum_[h] /\ blockHeight_'[h] = blockHeight_[h]
    <3>1. h \in headerMap_ /\ h \in Hash BY <1>4
    <3>2. uniqueID_[Genesis] # NoId BY <1>1, ZenonT(60) DEF ISync, Blocks
    <3>3. Known(h)
      BY <3>1, <3>2, <1>1, HashAssumption, ZenonT(60) DEF Known, ISync, IChain, GenesisFirst
    <3>4. h \notin new BY <3>3 DEF new
    <3> QED BY <3>1, <3>4, <1>3, ZenonT(60)
  <2> QED BY <2>1, <1>2, <1>5, ZenonT(60) DEF IAgree, Agree
<1> QED BY <1>1, <1>11, <1>12, <1>13, ZenonT(60) DEF IAgree

(* A restart: nothing has its sum, and the parse starts again no later     *)
(* than behind the last block stored.                                      *)
LEMMA RestartAgree == ASSUME IAgree, Restart PROVE IAgree'
<1>1. ISync /\ ISync' BY RestartInv, ZenonT(60) DEF IAgree
<1>2. /\ AddStored /\ FreshHeaders /\ phase' = "loaded"
      /\ topBlockOffset_' = Max({1} \cup {Offset(h) : h \in Stored})
      /\ UNCHANGED <<prev, blkfile, dbHeaders>>
  BY ZenonT(60) DEF Restart, dbVars
<1>3. /\ headerMap_' = {Genesis} \cup Stored
      /\ duplicateID_' = [h \in Hash |-> IF h \in Stored THEN dbHeaders[h].dup ELSE 0]
      /\ difficultySum_' = [h \in Hash |-> -1]
      /\ uniqueID_' = [h \in Hash |-> IF h \in Stored THEN dbHeaders[h].id ELSE NoId]
  BY <1>2, ZenonT(60) DEF AddStored, FreshHeaders
<1>4. /\ Stored \subseteq headerMap_ /\ headerMap_ \subseteq Hash /\ headerMap_ \subseteq OnDisk
      /\ (Stored # {} => Genesis \in Stored) /\ blkfile \in Seq(Hash) /\ blkfile[1] = Genesis
      /\ blkfile # << >>
  BY <1>1, ZenonT(60) DEF ISync, Blocks, IChain, Types
<1>5. Stored' = Stored BY <1>2, ZenonT(60) DEF Stored
<1>6. ParentsFirst' BY <1>2, ZenonT(60) DEF IAgree, ParentsFirst
<1>7. \A h \in Stored : Known(h)'
  BY <1>1, <1>3, <1>4, <1>5, HashAssumption, ZenonT(60)
     DEF Known, ISync, IChain, GenesisFirst, Blocks
<1>8. \A i \in DOMAIN blkfile : i < topBlockOffset_' => blkfile[i] \in Stored
  <2> DEFINE f == [h \in Stored |-> Offset(h)]
             W == {1} \cup {Offset(h) : h \in Stored}
  <2>1. \A h \in Stored : Offset(h) \in DOMAIN blkfile /\ blkfile[Offset(h)] = h
    BY <1>4, ZenonT(60) DEF OnDisk, Offset
  <2>2. /\ 1 \in W /\ (\A h \in Stored : f[h] \in W /\ f[h] = Offset(h))
        /\ \A w \in W : w = 1 \/ \E h \in Stored : w = f[h]
    BY ZenonT(60)
  <2>3. topBlockOffset_' = Max(W) BY <1>2
  <2>4. DOMAIN blkfile \subseteq Nat BY <1>4, SMTT(60)
  <2>5. IsFiniteSet(Stored) /\ 1 \in Nat BY <1>4, FiniteHashes, ZenonT(60)
  <2> HIDE DEF f, W
  <2>6. (\A h \in Stored : f[h] \in Nat) /\ (\A h \in Stored : f[h] \in W)
    BY <2>1, <2>2, <2>4, ZenonT(60)
  <2>7. 1 \in W /\ \A w \in W : w = 1 \/ \E h \in Stored : w = f[h] BY <2>2
  <2>8. Max(W) \in W BY <2>6, <2>7, <2>5, MaxOfValues, SMTT(60)
  <2>9. ASSUME NEW i \in DOMAIN blkfile, i < topBlockOffset_' PROVE blkfile[i] \in Stored
    <3>1. i # 0 BY <1>4, SMTT(60)
    <3>2. topBlockOffset_' # 1 BY <3>1, <2>4, <2>9, SMTT(60)
    <3>3. PICK h \in Stored : topBlockOffset_' = Offset(h) BY <2>2, <2>3, <2>8, <3>2, ZenonT(60)
    <3> QED BY <3>3, <2>1, <2>9, ZenonT(60) DEF IAgree, Complete, Beginning
  <2> QED BY <2>9
<1>9. Complete'
  <2>1. Beginning(Stored)' BY <1>2, <1>5, ZenonT(60) DEF Beginning, IAgree, Complete
  <2>2. Beginning(headerMap_)'
    <3> SUFFICES ASSUME NEW i \in DOMAIN blkfile, NEW j \in DOMAIN blkfile, j < i,
                        blkfile[i] \in headerMap_'
                 PROVE  blkfile[j] \in headerMap_'
      BY <1>2, ZenonT(60) DEF Beginning
    <3>1. CASE blkfile[i] \in Stored
      BY <3>1, <1>3, ZenonT(60) DEF IAgree, Complete, Beginning
    <3>2. CASE blkfile[i] = Genesis
      <4>1. 1 \in DOMAIN blkfile /\ i \in Nat /\ j \in Nat \ {0} BY <1>4, SMTT(60)
      <4>2. i = 1 BY <3>2, <4>1, <1>4, ZenonT(60) DEF IAgree, ParentsFirst
      <4> QED BY <4>1, <4>2, SMTT(60)
    <3> QED BY <3>1, <3>2, <1>3, ZenonT(60)
  <2>3. (\A i \in DOMAIN blkfile : i < topBlockOffset_ => Known(blkfile[i]))'
    BY <1>2, <1>7, <1>8, ZenonT(60) DEF Known
  <2>4. \A h \in headerMap_' : Known(h)' => h \in Stored' \cup Waiting'
    <3> SUFFICES ASSUME Known(Genesis)' PROVE Genesis \in Stored BY <1>3, <1>5, ZenonT(60)
    <3>1. Genesis \in Hash /\ uniqueID_'[Genesis] # NoId BY HashAssumption, ZenonT(60) DEF Known
    <3> QED BY <3>1, <1>3, ZenonT(60)
  <2> QED BY <2>1, <2>2, <2>3, <2>4, <1>2, ZenonT(60) DEF Complete
<1>10. Agree'
  <2>1. \A h \in Stored : duplicateID_'[h] = dbHeaders[h].dup /\ difficultySum_'[h] = -1
    BY <1>3, <1>4, ZenonT(60)
  <2>2. ~(-1 > 0) BY SMTT(60)
  <2>3. \A h \in Stored : ~(difficultySum_'[h] > 0) BY <2>1, <2>2, ZenonT(60)
  <2> QED BY <2>1, <2>3, <1>2, <1>5, ZenonT(60) DEF IAgree, Agree
<1> QED BY <1>1, <1>6, <1>9, <1>10, ZenonT(60) DEF IAgree

(* The loop of putNewBareHeaders sets the height of what it puts, and      *)
(* leaves the rest alone.                                                  *)
LoopHeights(db, i) ==
  \A h \in DOMAIN db.headers :
    IF \E j \in 1 .. i : newlyParsedBlocks_[j] = h
      THEN db.headers[h].height = blockHeight_[h] ELSE db.headers[h] = dbHeaders[h]

LEMMA PutOneHeaders ==
  ASSUME NEW db, NEW h
  PROVE  /\ DOMAIN PutOne(db, h).headers = DOMAIN db.headers \cup {h}
         /\ PutOne(db, h).headers[h].height = blockHeight_[h]
         /\ \A x \in DOMAIN db.headers : x # h => PutOne(db, h).headers[x] = db.headers[x]
<1> DEFINE list == At(db.hhl, blockHeight_[h])
           there == {i \in DOMAIN list : list[i] = h}
           new == IF there = {} THEN Append(list, h) ELSE list
           dup == DupIn(new, h)
           entry == [height |-> blockHeight_[h], dup |-> dup, id |-> uniqueID_[h]]
<1>1. PutOne(db, h).headers =
        [g \in DOMAIN db.headers \cup {h} |-> IF g = h THEN entry ELSE db.headers[g]]
  BY ZenonT(60) DEF PutOne
<1>2. entry.height = blockHeight_[h] BY ZenonT(60)
<1> HIDE DEF entry
<1> QED BY <1>1, <1>2, ZenonT(60)

LEMMA LoopSets ==
  ASSUME NEW N \in Nat, NEW g, IsLoop(g, N),
         \A i \in 1 .. N : blockHeight_[newlyParsedBlocks_[i]] # NoHeight
  PROVE  LoopHeights(g[N], N)
<1> DEFINE T == {n \in 0 .. N : ~LoopHeights(g[n], n)}
<1> SUFFICES ASSUME T # {} PROVE FALSE BY SMTT(60)
<1>1. PICK n \in T : \A m \in T : n <= m
  <2>1. T \in SUBSET Nat BY SMTT(60)
  <2> HIDE DEF T
  <2> QED BY <2>1, Lowest
<1>2. n \in 0 .. N /\ ~LoopHeights(g[n], n) BY <1>1
<1>3. g[n] = IF n = 0 THEN Base
             ELSE IF blockHeight_[newlyParsedBlocks_[n]] = NoHeight
               THEN Unputted(g[n - 1], newlyParsedBlocks_[n])
             ELSE PutOne(g[n - 1], newlyParsedBlocks_[n])
  BY <1>2, ZenonT(60) DEF IsLoop, Base
<1>4. n # 0
  <2> SUFFICES ASSUME n = 0 PROVE FALSE BY ZenonT(60)
  <2>1. g[n] = Base BY <1>3, ZenonT(60)
  <2>2. Base.headers = dbHeaders BY ZenonT(60) DEF Base
  <2>3. g[n].headers = dbHeaders BY <2>1, <2>2, ZenonT(60)
  <2>4. ~ \E j \in 1 .. 0 : TRUE BY SMTT(60)
  <2>5. LoopHeights(g[n], 0) BY <2>3, <2>4, ZenonT(60) DEF LoopHeights
  <2> QED BY <2>5, <1>2, ZenonT(60)
<1>5. n - 1 \in 0 .. N /\ n - 1 \notin T
  <2>1. n - 1 \in 0 .. N /\ n - 1 < n BY <1>2, <1>4, SMTT(60)
  <2> HIDE DEF T
  <2> QED BY <2>1, <1>1, <1>2, SMTT(60)
<1>6. LoopHeights(g[n - 1], n - 1) BY <1>5
<1> DEFINE h == newlyParsedBlocks_[n]
<1>7. n \in 1 .. N /\ n \in 1 .. n BY <1>2, <1>4, SMTT(60)
<1>8. \A x : (\E j \in 1 .. n : newlyParsedBlocks_[j] = x) <=>
               x = h \/ \E j \in 1 .. n - 1 : newlyParsedBlocks_[j] = x
  <2>1. \A j \in 1 .. n : j = n \/ j \in 1 .. n - 1 BY <1>7, SMTT(60)
  <2>2. \A j \in 1 .. n - 1 : j \in 1 .. n BY <1>7, SMTT(60)
  <2> QED BY <2>1, <2>2, <1>7, ZenonT(60)
<1>9. g[n] = PutOne(g[n - 1], h) BY <1>3, <1>4, <1>7, ZenonT(60)
<1> HIDE DEF h, T
<1>10. /\ DOMAIN g[n].headers = DOMAIN g[n - 1].headers \cup {h}
       /\ g[n].headers[h].height = blockHeight_[h]
       /\ \A x \in DOMAIN g[n - 1].headers : x # h => g[n].headers[x] = g[n - 1].headers[x]
  <2> DEFINE db == g[n - 1]
  <2>1. g[n] = PutOne(db, h) BY <1>9
  <2> HIDE DEF db
  <2>2. /\ DOMAIN PutOne(db, h).headers = DOMAIN db.headers \cup {h}
        /\ PutOne(db, h).headers[h].height = blockHeight_[h]
        /\ \A x \in DOMAIN db.headers : x # h => PutOne(db, h).headers[x] = db.headers[x]
    BY PutOneHeaders, SMTT(60)
  <2> QED BY <2>1, <2>2, ZenonT(60) DEF db
<1>11. LoopHeights(g[n], n)
  <2> SUFFICES ASSUME NEW x \in DOMAIN g[n].headers
               PROVE  IF \E j \in 1 .. n : newlyParsedBlocks_[j] = x
                        THEN g[n].headers[x].height = blockHeight_[x]
                        ELSE g[n].headers[x] = dbHeaders[x]
    BY ZenonT(60) DEF LoopHeights
  <2>1. CASE x = h BY <2>1, <1>8, <1>10, ZenonT(60)
  <2>2. CASE x # h
    <3>1. x \in DOMAIN g[n - 1].headers /\ g[n].headers[x] = g[n - 1].headers[x]
      BY <2>2, <1>10, ZenonT(60)
    <3> QED BY <3>1, <2>2, <1>6, <1>8, ZenonT(60) DEF LoopHeights
  <2> QED BY <2>1, <2>2
<1> QED BY <1>11, <1>2

(* putNewBareHeaders: what organizeChain has worked out is stored. *)
LEMMA PutAgree == ASSUME IAgree, PutNewBareHeaders PROVE IAgree'
<1> USE DEF topVars, fieldVars
<1>1. ISync /\ ISync' BY PutInv, ZenonT(60) DEF IAgree
<1>2. /\ phase = "put" /\ pc = "idle" /\ phase' \in {"undo", "up"}
      /\ dbHeaders' = PutAll.headers /\ duplicateID_' = DupsAfterPut
      /\ UNCHANGED <<prev, headerMap_, uniqueID_, difficultySum_, blockHeight_, blkfile,
                     topBlockOffset_>>
  BY ZenonT(60) DEF PutNewBareHeaders
<1> DEFINE N == Len(newlyParsedBlocks_)
<1>3. /\ headerMap_ \subseteq Hash /\ newlyParsedBlocks_ \in Seq(headerMap_) /\ N \in Nat
      /\ Stored \subseteq headerMap_ /\ DOMAIN newlyParsedBlocks_ = 1 .. N
      /\ \A i \in 1 .. N : newlyParsedBlocks_[i] \in headerMap_
  <2>1. /\ headerMap_ \subseteq Hash /\ newlyParsedBlocks_ \in Seq(headerMap_)
        /\ Stored \subseteq headerMap_
    BY <1>1, ZenonT(60) DEF ISync, Blocks, IChain, Types
  <2> QED BY <2>1, SMTT(60)
<1>4. \A h \in headerMap_ : difficultySum_[h] > 0 BY <1>2, ZenonT(60) DEF IAgree, Complete
<1>5. \A h \in headerMap_ : blockHeight_[h] \in Nat /\ blockHeight_[h] # NoHeight
  <2>1. \A h \in headerMap_ : blockHeight_[h] \in Nat
    BY <1>1, <1>4, ZenonT(60) DEF ISync, IChain, Sums
  <2> QED BY <2>1, HashAssumption, ZenonT(60)
<1> HIDE DEF N
<1>6. LoopState(PutAll, N) BY <1>1, PutLoop DEF N
<1>7. LoopHeights(PutAll, N)
  <2>1. PICK g : IsLoop(g, N) /\ PutAll = g[N] BY <1>3, PutAllIsLoop DEF N
  <2> QED BY <2>1, <1>3, <1>5, LoopSets, ZenonT(60)
<1>8. /\ Waiting \subseteq headerMap_
      /\ \A h : h \in Waiting <=> \E j \in 1 .. N : newlyParsedBlocks_[j] = h
  BY <1>3, ZenonT(60) DEF Waiting
<1>9. Stored' = DOMAIN PutAll.headers BY <1>2, ZenonT(60) DEF Stored
<1>10. headerMap_ \subseteq Stored \cup Waiting
  <2>1. uniqueID_[Genesis] # NoId BY <1>1, <1>2, ZenonT(60) DEF ISync, Blocks
  <2>2. \A h \in headerMap_ : Known(h)
    BY <1>1, <2>1, HashAssumption, ZenonT(60) DEF Known, ISync, IChain, GenesisFirst
  <2> QED BY <2>2, ZenonT(60) DEF IAgree, Complete
<1>11. Stored' = headerMap_
  <2>1. Stored' = Stored \cup {h \in Waiting : blockHeight_[h] # NoHeight}
    BY <1>6, <1>9, <1>3, ZenonT(60) DEF LoopState, Waiting
  <2> QED BY <2>1, <1>3, <1>5, <1>8, <1>10, ZenonT(60)
<1>12. ParentsFirst' BY <1>2, ZenonT(60) DEF IAgree, ParentsFirst
<1>13. Complete'
  <2>1. Beginning(headerMap_)' /\ Beginning(Stored)'
    BY <1>2, <1>11, ZenonT(60) DEF Beginning, IAgree, Complete
  <2>2. (\A i \in DOMAIN blkfile : i < topBlockOffset_ => Known(blkfile[i]))'
    BY <1>2, ZenonT(60) DEF Known, IAgree, Complete
  <2> QED BY <2>1, <2>2, <1>2, <1>4, <1>11, ZenonT(60) DEF Complete
<1>14. \A h \in headerMap_ : /\ dbHeaders'[h].height = blockHeight_[h]
                            /\ duplicateID_'[h] = dbHeaders'[h].dup
  <2> SUFFICES ASSUME NEW h \in headerMap_
               PROVE  dbHeaders'[h].height = blockHeight_[h] /\ duplicateID_'[h] = dbHeaders'[h].dup
    OBVIOUS
  <2>1. h \in DOMAIN PutAll.headers BY <1>9, <1>11
  <2>2. CASE h \in Waiting
    <3>1. dbHeaders'[h].height = blockHeight_[h]
      BY <2>1, <2>2, <1>2, <1>7, <1>8, ZenonT(60) DEF LoopHeights
    <3>2. duplicateID_'[h] = PutAll.headers[h].dup
      BY <2>2, <1>2, <1>3, <1>5, <1>8, ZenonT(60) DEF DupsAfterPut
    <3> QED BY <3>1, <3>2, <1>2, ZenonT(60)
  <2>3. CASE h \notin Waiting
    <3>1. dbHeaders'[h] = dbHeaders[h] BY <2>1, <2>3, <1>2, <1>7, <1>8, ZenonT(60) DEF LoopHeights
    <3>2. duplicateID_'[h] = duplicateID_[h]
      BY <2>3, <1>2, <1>3, <1>8, ZenonT(60) DEF DupsAfterPut
    <3>3. h \in Stored BY <2>3, <1>10
    <3> QED BY <3>1, <3>2, <3>3, <1>4, ZenonT(60) DEF IAgree, Agree
  <2> QED BY <2>2, <2>3
<1>15. Agree'
  <2> SUFFICES ASSUME NEW h \in headerMap_
               PROVE  dbHeaders'[h].height = IF h = Genesis THEN 0 ELSE dbHeaders'[prev[h]].height + 1
    BY <1>2, <1>11, <1>14, ZenonT(60) DEF Agree
  <2>1. CASE h = Genesis
    <3>1. blockHeight_[h] = 0 BY <2>1, <1>1, <1>4, ZenonT(60) DEF ISync, IChain, Sums
    <3> QED BY <2>1, <3>1, <1>14, ZenonT(60)
  <2>2. CASE h # Genesis
    <3>1. prev[h] \in headerMap_ /\ blockHeight_[h] = blockHeight_[prev[h]] + 1
      BY <2>2, <1>1, <1>4, ZenonT(60) DEF ISync, IChain, SumsAddUp
    <3> QED BY <2>2, <3>1, <1>14, ZenonT(60)
  <2> QED BY <2>1, <2>2
<1> QED BY <1>1, <1>12, <1>13, <1>15, ZenonT(60) DEF IAgree

LEMMA NextAgree == ASSUME ~OutOfOrder, IAgree, [Next]_vars PROVE IAgree'
<1> USE DEF chainVars, mapVars, topVars, fieldVars, dbVars
<1>s. ISync' BY NextSync, ZenonT(60) DEF IAgree
<1>1. ASSUME NEW h \in Hash, NodeWrites(h) PROVE IAgree' BY <1>1, NodeWritesAgree
<1>2. CASE Restart BY <1>2, RestartAgree
<1>3. CASE InitOrganize
  BY <1>3, <1>s, QuietAgree, ZenonT(60) DEF InitOrganize, OrganizeFrom, Organize
<1>4. CASE InitRewind BY <1>4, InitRewindAgree
<1>5. CASE ParseBlocks BY <1>5, ParseBlocksAgree
<1>6. CASE UpdateOrganize
  BY <1>6, <1>s, QuietAgree, ZenonT(60) DEF UpdateOrganize, OrganizeFrom, Organize
<1>7. CASE PutNewBareHeaders BY <1>7, PutAgree
<1>8. CASE UndoHistory BY <1>8, <1>s, QuietAgree, ZenonT(60) DEF UndoHistory
<1>9. CASE InitSkipsUndo BY <1>9, <1>s, QuietAgree, ZenonT(60) DEF InitSkipsUndo
<1>10. CASE Update BY <1>10, <1>s, QuietAgree, ZenonT(60) DEF Update
<1>11. CASE Organizing BY <1>11, OrganizingAgree
<1>12. CASE UNCHANGED vars BY <1>12, <1>s, QuietAgree, ZenonT(60) DEF vars, syncVars
<1> QED BY <1>1, <1>2, <1>3, <1>4, <1>5, <1>6, <1>7, <1>8, <1>9, <1>10, <1>11, <1>12, ZenonT(60)
        DEF Next, SyncStep

(* Where the node writes parents before children, the database holds the   *)
(* height and the dup that memory has for every block of the main branch   *)
(* once init or update is done, however often the process is stopped.      *)
THEOREM AgreeHolds == ASSUME ~OutOfOrder PROVE Spec => []MapAndDBAgree
<1>1. Init => IAgree BY InitAgree
<1>2. IAgree /\ [Next]_vars => IAgree' BY NextAgree
<1>3. IAgree => MapAndDBAgree
  <2> SUFFICES ASSUME IAgree, phase = "up", NEW h \in Main
               PROVE  /\ h \in DOMAIN dbHeaders /\ dbHeaders[h].height = blockHeight_[h]
                      /\ dbHeaders[h].dup = duplicateID_[h]
    BY ZenonT(60) DEF MapAndDBAgree
  <2>1. h \in headerMap_ BY ZenonT(60) DEF Main
  <2>2. pc = "idle" BY SMTT(60) DEF IAgree, ISync, Phases
  <2>3. h \in Stored /\ difficultySum_[h] > 0 BY <2>1, <2>2, ZenonT(60) DEF IAgree, Complete
  <2> QED BY <2>3, ZenonT(60) DEF IAgree, Agree, Stored
<1> QED BY <1>1, <1>2, <1>3, PTL DEF Spec

(* Then no block is passed over either. *)
THEOREM NothingMissedHolds == ASSUME ~OutOfOrder PROVE Spec => []NothingMissed
<1>1. Init => IAgree BY InitAgree
<1>2. IAgree /\ [Next]_vars => IAgree' BY NextAgree
<1>3. IAgree => NothingMissed
  <2> SUFFICES ASSUME IAgree, NEW i \in 1 .. topBlockOffset_ - 1 PROVE blkfile[i] \in headerMap_
    BY ZenonT(60) DEF NothingMissed
  <2>1. blkfile \in Seq(Hash) /\ topBlockOffset_ \in 1 .. Len(blkfile) + 1
    BY ZenonT(60) DEF IAgree, ISync, Blocks
  <2>2. i \in DOMAIN blkfile /\ i < topBlockOffset_ BY <2>1, SMTT(60)
  <2> QED BY <2>2, ZenonT(60) DEF IAgree, Complete, Known
<1> QED BY <1>1, <1>2, <1>3, PTL DEF Spec

=============================================================================
