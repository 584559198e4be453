----------------------------- MODULE Blockchain -----------------------------
(***************************************************************************)
(* Blockchain (Blockchain.cpp): the block headers in memory and which of   *)
(* them form the main branch.  A header is named by its hash.  Hashes are  *)
(* numbers, so that headerMap_ can be walked in hash order as the code     *)
(* does; difficulties are small naturals.                                  *)
(*                                                                         *)
(* organizeChain is taken apart into its loops: the trace of every header  *)
(* down to a solved one and back up (traceChainDown), and the walk from    *)
(* the new top down to a finished header.                                  *)
(***************************************************************************)
EXTENDS Integers, Sequences, FiniteSets, FiniteSetsExt

CONSTANTS
  Hash,        \* block hashes
  Genesis,     \* genesisHash_
  Trees,       \* the getPrevHash functions considered
  Difficulty,  \* difficultyDbl_ of each block
  MaxDouble,   \* numeric_limits<double>::max()
  NoHash,      \* EmptyHash, nullptr
  NoHeight,    \* UINT32_MAX as a height
  NoId,        \* UINT32_MAX as a uniqueID_
  Files,       \* the block files parsed: sequences of hashes
  MaxID        \* bound on topID_

ASSUME HashAssumption ==
  /\ Hash \subseteq Nat
  /\ IsFiniteSet(Hash)
  /\ Genesis \in Hash
  /\ NoHash \notin Hash
  /\ \A prev \in Trees : prev \in [Hash -> Hash \cup {NoHash}]
  /\ Difficulty \in [Hash -> Nat \ {0}]
  /\ NoHeight \notin Nat /\ NoId \notin Nat
  /\ MaxDouble \in Nat
  /\ \A file \in Files : file \in Seq(Hash)

VARIABLES
  prev,               \* getPrevHash of every block; never changes
  headerMap_,         \* the hashes with a header
  headersById_,
  headersByHeight_,
  newlyParsedBlocks_,
  topBlockPtr_, topBlockId_, topID_,
  (* fields of the headers *)
  uniqueID_, difficultySum_, blockHeight_, isFinishedCalc_, isMainBranch_, isOrphan_,
  nextHash_,
  (* organizeChain and traceChainDown *)
  pc,                 \* where organizeChain is; "idle" outside it
  forceRebuild,
  topID,
  prevTopBlock,
  maxDiffSum,
  unseen,             \* the headers the loop has still to come to
  header,             \* the one it is at
  thisPtr,
  headerPtrStack,
  thisHeaderPtr,
  prevChainStillValid,
  branchPoint,        \* what the outermost call returns, once it is known
  st                  \* the last ReorganizationState, and whether it was forced

mapVars == <<headerMap_, headersById_, newlyParsedBlocks_, uniqueID_>>
topVars == <<topBlockPtr_, topBlockId_>>
fieldVars == <<difficultySum_, blockHeight_, isFinishedCalc_, isMainBranch_, isOrphan_,
               nextHash_>>
traceVars == <<header, thisPtr, headerPtrStack>>
walkVars == <<thisHeaderPtr, prevChainStillValid>>
chainVars == <<prev, mapVars, headersByHeight_, topVars, topID_, fieldVars, pc, forceRebuild,
               topID, prevTopBlock, maxDiffSum, unseen, traceVars, walkVars, branchPoint, st>>

-----------------------------------------------------------------------------
(* The constructor and clear (29-46): a placeholder for the genesis block. *)
ChainInit ==
  /\ prev \in Trees
  /\ headerMap_ = {Genesis}
  /\ headersById_ = << >>
  /\ headersByHeight_ = << >>
  /\ newlyParsedBlocks_ = << >>
  /\ topBlockPtr_ = Genesis /\ topBlockId_ = 0 /\ topID_ = 0
  /\ uniqueID_ = [h \in Hash |-> NoId]
  /\ difficultySum_ = [h \in Hash |-> -1]
  /\ blockHeight_ = [h \in Hash |-> NoHeight]
  /\ isFinishedCalc_ = [h \in Hash |-> FALSE]
  /\ isMainBranch_ = [h \in Hash |-> FALSE]
  /\ isOrphan_ = [h \in Hash |-> TRUE]
  /\ nextHash_ = [h \in Hash |-> NoHash]
  /\ pc = "idle" /\ forceRebuild = FALSE /\ topID = 0
  /\ prevTopBlock = NoHash /\ maxDiffSum = 0 /\ unseen = {}
  /\ header = NoHash /\ thisPtr = NoHash /\ headerPtrStack = << >>
  /\ thisHeaderPtr = NoHash /\ prevChainStillValid = TRUE /\ branchPoint = NoHash
  /\ st = [prevTop_ |-> NoHash, newTop_ |-> NoHash, reorgBranchPoint_ |-> NoHash,
           forced |-> FALSE]

(* getNewUniqueID (Blockchain.h, 109) for every block of a parsed file,    *)
(* then addBlocksInBulk (510-533): only what has no header yet is added,   *)
(* in hash order, and the placeholder of the genesis block is replaced.    *)
Known(h) == h \in headerMap_ /\ uniqueID_[h] # NoId

IdInFile(file, h) == topID_ + (CHOOSE i \in 1 .. Len(file) : file[i] = h) - 1

Sorted(S) == CHOOSE s \in [1 .. Cardinality(S) -> S] : \A i, j \in DOMAIN s : i < j => s[i] < s[j]

InsertHeaders(new) == headerMap_' = headerMap_ \cup new
QueueNew(new) == newlyParsedBlocks_' = newlyParsedBlocks_ \o Sorted(new)

addBlocksInBulk(file) ==
  LET new == {h \in {file[i] : i \in DOMAIN file} : ~ Known(h)}
      ids == {IdInFile(file, h) : h \in new} IN
  /\ topID_' = topID_ + Len(file)
  /\ InsertHeaders(new)
  /\ uniqueID_' = [h \in Hash |-> IF h \in new THEN IdInFile(file, h) ELSE uniqueID_[h]]
  /\ headersById_' = [i \in DOMAIN headersById_ \cup ids |->
                        IF i \in ids THEN CHOOSE h \in new : IdInFile(file, h) = i
                                     ELSE headersById_[i]]
  /\ QueueNew(new)
  /\ difficultySum_' = [h \in Hash |-> IF h \in new THEN -1 ELSE difficultySum_[h]]
  /\ blockHeight_' = [h \in Hash |-> IF h \in new THEN NoHeight ELSE blockHeight_[h]]
  /\ isFinishedCalc_' = [h \in Hash |-> h \notin new /\ isFinishedCalc_[h]]
  /\ isMainBranch_' = [h \in Hash |-> h \notin new /\ isMainBranch_[h]]
  /\ isOrphan_' = [h \in Hash |-> h \in new \/ isOrphan_[h]]
  /\ nextHash_' = [h \in Hash |-> IF h \in new THEN NoHash ELSE nextHash_[h]]

-----------------------------------------------------------------------------
(* organize and forceOrganize (90-110) enter organizeChain. *)
Organize(force) ==
  /\ pc = "idle"
  /\ pc' = "begin"
  /\ forceRebuild' = force
  /\ branchPoint' = NoHash
  /\ st' = [prevTop_ |-> topBlockPtr_, newTop_ |-> NoHash, reorgBranchPoint_ |-> NoHash,
            forced |-> force]

(* 258-301: forget what was organized, if forced; set the genesis block    *)
(* and start from the top block known by its id.                           *)
OrganizeBegin ==
  LET reset(h) == forceRebuild /\ h \in headerMap_
      top == IF topBlockId_ \in DOMAIN headersById_ THEN headersById_[topBlockId_] ELSE Genesis
      sum(h) == IF h = Genesis THEN 1 ELSE IF reset(h) THEN -1 ELSE difficultySum_[h] IN
  /\ pc = "begin"
  /\ pc' = "trace"
  /\ difficultySum_' = [h \in Hash |-> sum(h)]
  /\ blockHeight_' = [h \in Hash |-> IF h = Genesis \/ reset(h) THEN 0 ELSE blockHeight_[h]]
  /\ isFinishedCalc_' = [h \in Hash |-> h = Genesis \/ (isFinishedCalc_[h] /\ ~ reset(h))]
  /\ isMainBranch_' = [h \in Hash |-> h = Genesis \/ (isMainBranch_[h] /\ ~ reset(h))]
  /\ isOrphan_' = [isOrphan_ EXCEPT ![Genesis] = FALSE]
  /\ nextHash_' = [h \in Hash |-> IF reset(h) THEN NoHash ELSE nextHash_[h]]
  /\ topID_' = IF forceRebuild THEN 0 ELSE topID_
  /\ topID' = topID_'
  /\ topBlockPtr_' = top
  /\ prevTopBlock' = top
  /\ maxDiffSum' = sum(top)
  /\ unseen' = headerMap_
  /\ UNCHANGED <<prev, mapVars, headersByHeight_, topBlockId_, forceRebuild, traceVars,
                 walkVars, branchPoint, st>>

(* 302-309: the next header in hash order. *)
TraceBegin ==
  /\ pc = "trace" /\ unseen # {}
  /\ pc' = "down"
  /\ header' = Min(unseen)
  /\ unseen' = unseen \ {header'}
  /\ thisPtr' = header'
  /\ headerPtrStack' = << >>
  /\ UNCHANGED <<prev, mapVars, headersByHeight_, topVars, topID_, fieldVars, forceRebuild,
                 topID, prevTopBlock, maxDiffSum, walkVars, branchPoint, st>>

(* 394-404: down the chain until a header that has its sum. *)
TraceDown ==
  /\ pc = "down"
  /\ difficultySum_[thisPtr] < 0
  /\ prev[thisPtr] \in headerMap_
  /\ headerPtrStack' = Append(headerPtrStack, thisPtr)
  /\ thisPtr' = prev[thisPtr]
  /\ UNCHANGED <<prev, mapVars, headersByHeight_, topVars, topID_, fieldVars, pc, forceRebuild,
                 topID, prevTopBlock, maxDiffSum, unseen, header, walkVars, branchPoint, st>>

(* Mutant: the maximum is not kept. *)
TakeTopForgets(orphan, sum) ==
  IF ~ orphan /\ sum > maxDiffSum
    THEN /\ topBlockPtr_' = header
         /\ topBlockId_' = uniqueID_[header]
         /\ UNCHANGED maxDiffSum
    ELSE UNCHANGED <<maxDiffSum, topVars>>

(* 311-322: the header becomes the top if it has strictly more work. *)
TakeTop(orphan, sum) ==
  IF ~ orphan /\ sum > maxDiffSum
    THEN /\ maxDiffSum' = sum
         /\ topBlockPtr_' = header
         /\ topBlockId_' = uniqueID_[header]
    ELSE UNCHANGED <<maxDiffSum, topVars>>

(* 406-412: a header whose parent is unknown. *)
TraceOrphan ==
  /\ pc = "down"
  /\ difficultySum_[thisPtr] < 0
  /\ prev[thisPtr] \notin headerMap_
  /\ pc' = "trace"
  /\ isOrphan_' = [isOrphan_ EXCEPT ![thisPtr] = TRUE]
  /\ TakeTop(isOrphan_'[header], MaxDouble)
  /\ UNCHANGED <<prev, mapVars, headersByHeight_, topID_, difficultySum_, blockHeight_,
                 isFinishedCalc_, isMainBranch_, nextHash_, forceRebuild, topID, prevTopBlock,
                 unseen, traceVars, walkVars, branchPoint, st>>

SumAbove(h) == difficultySum_[thisPtr] + Difficulty[h]
Connected(h) == [isOrphan_ EXCEPT ![h] = FALSE]

(* 418-429: back up, adding the difficulties. *)
TraceUp ==
  LET h == headerPtrStack[Len(headerPtrStack)] IN
  /\ pc = "down"
  /\ difficultySum_[thisPtr] > 0
  /\ headerPtrStack # << >>
  /\ difficultySum_' = [difficultySum_ EXCEPT ![h] = SumAbove(h)]
  /\ blockHeight_' = [blockHeight_ EXCEPT ![h] = blockHeight_[thisPtr] + 1]
  /\ isOrphan_' = Connected(h)
  /\ thisPtr' = h
  /\ headerPtrStack' = SubSeq(headerPtrStack, 1, Len(headerPtrStack) - 1)
  /\ UNCHANGED <<prev, mapVars, headersByHeight_, topVars, topID_, isFinishedCalc_,
                 isMainBranch_, nextHash_, pc, forceRebuild, topID, prevTopBlock, maxDiffSum,
                 unseen, header, walkVars, branchPoint, st>>

(* 383-384 and 432: the sum is there. *)
TraceEnd ==
  /\ pc = "down"
  /\ difficultySum_[thisPtr] > 0
  /\ headerPtrStack = << >>
  /\ pc' = "trace"
  /\ TakeTop(isOrphan_[header], difficultySum_[header])
  /\ UNCHANGED <<prev, mapVars, headersByHeight_, topID_, fieldVars, forceRebuild, topID,
                 prevTopBlock, unseen, traceVars, walkVars, branchPoint, st>>

-----------------------------------------------------------------------------
TopStays == topBlockPtr_ = prevTopBlock

(* 328-331 *)
WalkBegin ==
  /\ pc = "trace" /\ unseen = {}
  /\ pc' = "walk"
  /\ prevChainStillValid' = TopStays
  /\ nextHash_' = [nextHash_ EXCEPT ![topBlockPtr_] = NoHash]
  /\ thisHeaderPtr' = topBlockPtr_
  /\ headersByHeight_' = [i \in 0 .. blockHeight_[topBlockPtr_] |->
                            IF i \in DOMAIN headersByHeight_ THEN headersByHeight_[i] ELSE NoHash]
  /\ UNCHANGED <<prev, mapVars, topVars, topID_, difficultySum_, blockHeight_, isFinishedCalc_,
                 isMainBranch_, isOrphan_, forceRebuild, topID, prevTopBlock, maxDiffSum, unseen,
                 traceVars, branchPoint, st>>

(* 332-349 *)
Walk ==
  LET h == thisHeaderPtr
      p == prev[h] IN
  /\ pc = "walk"
  /\ ~ isFinishedCalc_[h]
  /\ isFinishedCalc_' = [isFinishedCalc_ EXCEPT ![h] = TRUE]
  /\ isMainBranch_' = [isMainBranch_ EXCEPT ![h] = TRUE]
  /\ isOrphan_' = [isOrphan_ EXCEPT ![h] = FALSE]
  /\ headersByHeight_' = [headersByHeight_ EXCEPT ![blockHeight_[h]] = h]
  /\ topID' = IF uniqueID_[h] > topID THEN uniqueID_[h] ELSE topID
  /\ thisHeaderPtr' = p
  /\ nextHash_' = [nextHash_ EXCEPT ![p] = h]
  /\ prevChainStillValid' = (prevChainStillValid \/ p = prevTopBlock)
  /\ UNCHANGED <<prev, mapVars, topVars, topID_, difficultySum_, blockHeight_, pc, forceRebuild,
                 prevTopBlock, maxDiffSum, unseen, traceVars, branchPoint, st>>

(* Mutants: no rebuild; the rebuild's own result is returned. *)
RebuildsNever == FALSE
ReturnsInner == IF prevChainStillValid THEN NoHash ELSE thisHeaderPtr

(* 358-373: rebuild if the old top was not met; the caller gets the branch *)
(* point of the first walk.                                                *)
Rebuilds == ~ prevChainStillValid
Returns == IF prevChainStillValid \/ branchPoint # NoHash THEN branchPoint ELSE thisHeaderPtr

(* 350-374: the last header, then a full rebuild if the old top was not    *)
(* met on the way; 94-98 and 105-109: what organize makes of it.           *)
WalkEnd ==
  /\ pc = "walk"
  /\ isFinishedCalc_[thisHeaderPtr]
  /\ isMainBranch_' = [isMainBranch_ EXCEPT ![thisHeaderPtr] = TRUE]
  /\ headersByHeight_' = [headersByHeight_ EXCEPT ![blockHeight_[thisHeaderPtr]] = thisHeaderPtr]
  /\ topID_' = topID + 1
  /\ branchPoint' = Returns
  /\ IF Rebuilds
       THEN /\ pc' = "begin"
            /\ forceRebuild' = TRUE
            /\ UNCHANGED st
       ELSE /\ pc' = "idle"
            /\ st' = [st EXCEPT !.newTop_ = topBlockPtr_, !.reorgBranchPoint_ = branchPoint']
            /\ UNCHANGED forceRebuild
  /\ UNCHANGED <<prev, mapVars, topVars, difficultySum_, blockHeight_, isFinishedCalc_, isOrphan_,
                 nextHash_, topID, prevTopBlock, maxDiffSum, unseen, traceVars, walkVars>>

OrganizeStep ==
  \/ OrganizeBegin \/ TraceBegin \/ TraceDown \/ TraceOrphan \/ TraceUp \/ TraceEnd
  \/ WalkBegin \/ Walk \/ WalkEnd

-----------------------------------------------------------------------------
(* A run of the class by itself, in the order its caller keeps             *)
(* (DatabaseBuilder.cpp, 47 and 72): forceOrganize once, before the first  *)
(* file is parsed, and organize from then on.  The genesis block is the    *)
(* first one parsed.                                                       *)
ParseFile(file) ==
  /\ pc = "idle"
  /\ st.newTop_ # NoHash
  /\ Known(Genesis) \/ file[1] = Genesis
  /\ topID_ + Len(file) <= MaxID
  /\ addBlocksInBulk(file)
  /\ UNCHANGED <<prev, headersByHeight_, topVars, pc, forceRebuild, topID, prevTopBlock,
                 maxDiffSum, unseen, traceVars, walkVars, branchPoint, st>>

OrganizeCall ==
  /\ topID_ < MaxID
  /\ Organize(st.newTop_ = NoHash)
  /\ UNCHANGED <<prev, mapVars, headersByHeight_, topVars, topID_, fieldVars, topID,
                 prevTopBlock, maxDiffSum, unseen, traceVars, walkVars>>

ChainNext ==
  \/ \E file \in Files : ParseFile(file)
  \/ OrganizeCall
  \/ OrganizeStep

ChainSpec == ChainInit /\ [][ChainNext]_chainVars

(* organizeChain runs to its end once it is called. *)
FairChainSpec == ChainSpec /\ WF_chainVars(OrganizeStep)

-----------------------------------------------------------------------------
(* Properties *)
Settled == pc = "idle" /\ isMainBranch_[Genesis]

Main == {h \in headerMap_ : isMainBranch_[h]}

(* The types of the maps, the header fields and the local variables. *)
TypeOK ==
  /\ headerMap_ \subseteq Hash /\ Genesis \in headerMap_
  /\ topBlockPtr_ \in headerMap_
  /\ topID_ \in Nat /\ topBlockId_ \in Nat
  /\ difficultySum_ \in [Hash -> Int]
  /\ blockHeight_ \in [Hash -> Nat \cup {NoHeight}]
  /\ uniqueID_ \in [Hash -> Nat \cup {NoId}]
  /\ unseen \subseteq headerMap_
  /\ pc \in {"idle", "begin", "trace", "down", "walk"}
  /\ \A i \in DOMAIN headersById_ : headersById_[i] \in headerMap_

(* What traceChainDown has computed agrees with the parent's values at     *)
(* every moment, also when headers come in any order and are traced over   *)
(* several calls.                                                          *)
SumsAddUp ==
  \A h \in headerMap_ \ {Genesis} :
    difficultySum_[h] > 0 =>
      /\ prev[h] \in headerMap_
      /\ difficultySum_[prev[h]] > 0
      /\ difficultySum_[h] = difficultySum_[prev[h]] + Difficulty[h]
      /\ blockHeight_[h] = blockHeight_[prev[h]] + 1

(* Once the loop of organizeChain is done no header that connects to the   *)
(* genesis block is left without its sum, and those that do not are        *)
(* orphans.                                                                *)
AllTraced ==
  pc = "walk" =>
    \A h \in headerMap_ \ {Genesis} :
      IF prev[h] \in headerMap_ /\ difficultySum_[prev[h]] > 0
        THEN difficultySum_[h] > 0 /\ ~ isOrphan_[h]
        ELSE isOrphan_[h]

(* The top block has the most work of all headers that were organized. *)
HeaviestTop ==
  pc = "idle" => \A h \in headerMap_ : difficultySum_[h] <= difficultySum_[topBlockPtr_]

(* The main branch is one chain from the genesis block to the top: each    *)
(* block's parent is in it and points back to it, and headersByHeight_     *)
(* lists exactly its blocks.                                               *)
MainBranchIsChain ==
  Settled =>
    /\ topBlockPtr_ \in Main
    /\ nextHash_[topBlockPtr_] = NoHash
    /\ \A h \in Main \ {Genesis} : prev[h] \in Main /\ nextHash_[prev[h]] = h
    /\ DOMAIN headersByHeight_ = 0 .. blockHeight_[topBlockPtr_]
    /\ \A i \in DOMAIN headersByHeight_ :
         headersByHeight_[i] \in Main /\ blockHeight_[headersByHeight_[i]] = i
    /\ \A h \in Main : headersByHeight_[blockHeight_[h]] = h

Chain ==
  LET c[h \in Hash] == {h} \cup (IF prev[h] = NoHash THEN {} ELSE c[prev[h]]) IN c

(* The report that undoHistory works from: there is a branch point exactly *)
(* when the old top left the main branch, and it is the last block the old *)
(* and the new chain share.                                                *)
ReorgReported ==
  pc = "idle" /\ st.newTop_ # NoHash =>
    IF st.prevTop_ \in Chain[st.newTop_]
      THEN st.reorgBranchPoint_ = NoHash
      ELSE /\ st.reorgBranchPoint_ # NoHash
           /\ Chain[st.reorgBranchPoint_] = Chain[st.newTop_] \cap Chain[st.prevTop_]

(* Without a forced rebuild the top only changes for one with strictly     *)
(* more work: of two branches with the same work the first one stays.      *)
FirstSeenStays ==
  pc = "idle" /\ st.newTop_ # NoHash /\ ~ st.forced =>
    \/ st.newTop_ = st.prevTop_
    \/ difficultySum_[st.newTop_] > difficultySum_[st.prevTop_]

(* organizeChain ends, the rebuilds it calls for included. *)
OrganizeEnds == pc = "begin" ~> pc = "idle"
=============================================================================
