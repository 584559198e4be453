----------------------------- MODULE HeaderSync -----------------------------
(***************************************************************************)
(* How block headers get from the block files into memory and into the     *)
(* HEADERS database, and back after a restart: DatabaseBuilder::init and   *)
(* ::update up to the point where history is scanned, with                 *)
(* Blockchain::putNewBareHeaders and LMDBBlockDatabase::putBareHeader.     *)
(*                                                                         *)
(* blkfile is the block data folder of the node, one file with the blocks  *)
(* in the order they were written.  A position in it stands for a          *)
(* BlockOffset.  A database transaction is one step; the process can stop  *)
(* between any two steps and be started again.                             *)
(***************************************************************************)
EXTENDS Blockchain

CONSTANTS
  Rewind,       \* how many blocks init goes back in the files (100 in the code)
  OutOfOrder,   \* whether the node may write a block before its parent
  SkipsUndo,    \* whether init may run without addresses, or with new ones
  MaxRestarts   \* bound: how often the process stops

ASSUME SyncAssumption ==
  Rewind \in Nat /\ OutOfOrder \in BOOLEAN /\ SkipsUndo \in BOOLEAN /\ MaxRestarts \in Nat

VARIABLES
  blkfile,          \* the blocks on disk
  topBlockOffset_,  \* where the next parse starts
  duplicateID_,     \* field of the headers
  dbHeaders,        \* HEADERS: hash |-> height, dup and id
  hhl,              \* HEADERS: height |-> the hashes there, by dup
  validDupByHeight_,
  phase,            \* where DatabaseBuilder is
  initializing,     \* in init, not in update
  restarts

dbVars == <<dbHeaders, hhl>>
syncVars == <<blkfile, topBlockOffset_, duplicateID_, dbVars, validDupByHeight_, phase,
              initializing, restarts>>
vars == <<chainVars, syncVars>>

Init ==
  /\ ChainInit
  /\ blkfile = <<Genesis>>
  /\ topBlockOffset_ = 1
  /\ duplicateID_ = [h \in Hash |-> 0]
  /\ dbHeaders = << >>
  /\ hhl = << >>
  /\ validDupByHeight_ = << >>
  /\ phase = "loaded"
  /\ initializing = TRUE
  /\ restarts = 0

OnDisk == {blkfile[i] : i \in DOMAIN blkfile}
Offset(h) == CHOOSE i \in DOMAIN blkfile : blkfile[i] = h

(* The node writes a block, whether this process runs or not. *)
NodeWrites(h) ==
  /\ h \notin OnDisk
  /\ OutOfOrder \/ prev[h] \in OnDisk
  /\ blkfile' = Append(blkfile, h)
  /\ UNCHANGED <<chainVars, topBlockOffset_, duplicateID_, dbVars, validDupByHeight_, phase,
                 initializing, restarts>>

-----------------------------------------------------------------------------
(* readAllHeaders (lmdb_wrapper.cpp, 1230-1280) in hash order, and the     *)
(* addBlock (Blockchain.cpp, 49-79) it calls: of two headers with the same *)
(* id the first stays in headersById_.                                     *)
Stored == DOMAIN dbHeaders

StoredWithId(i) == {h \in Stored : dbHeaders[h].id = i}

AddStored ==
  LET ids == {dbHeaders[h].id : h \in Stored} IN
  /\ headerMap_' = {Genesis} \cup Stored
  /\ uniqueID_' = [h \in Hash |-> IF h \in Stored THEN dbHeaders[h].id ELSE NoId]
  /\ headersById_' = [i \in ids |-> Min(StoredWithId(i))]
  /\ topID_' = Max({0} \cup ids)
  /\ duplicateID_' = [h \in Hash |-> IF h \in Stored THEN dbHeaders[h].dup ELSE 0]
  /\ blockHeight_' = [h \in Hash |-> IF h \in Stored THEN dbHeaders[h].height ELSE NoHeight]

(* BlockHeader::unserialize (BlockObj.cpp, 26-41) *)
FreshHeaders ==
  /\ difficultySum_' = [h \in Hash |-> -1]
  /\ isFinishedCalc_' = [h \in Hash |-> FALSE]
  /\ isMainBranch_' = [h \in Hash |-> FALSE]
  /\ isOrphan_' = [h \in Hash |-> TRUE]
  /\ nextHash_' = [h \in Hash |-> NoHash]

(* The process stops, at whatever it was doing, and is started again:      *)
(* loadBlockHeadersFromDB (DatabaseBuilder.cpp, 194-241) clears the chain  *)
(* and adds every header in the database.                                  *)
Restart ==
  /\ restarts < MaxRestarts
  /\ restarts' = restarts + 1
  /\ AddStored
  /\ FreshHeaders
  /\ headersByHeight_' = << >>
  /\ newlyParsedBlocks_' = << >>
  /\ topBlockPtr_' = Genesis /\ topBlockId_' = 0
  /\ topBlockOffset_' = Max({1} \cup {Offset(h) : h \in Stored})
  /\ validDupByHeight_' = << >>
  /\ pc' = "idle" /\ forceRebuild' = FALSE /\ topID' = 0
  /\ prevTopBlock' = NoHash /\ maxDiffSum' = 0 /\ unseen' = {}
  /\ header' = NoHash /\ thisPtr' = NoHash /\ headerPtrStack' = << >>
  /\ thisHeaderPtr' = NoHash /\ prevChainStillValid' = TRUE /\ branchPoint' = NoHash
  /\ st' = [prevTop_ |-> NoHash, newTop_ |-> NoHash, reorgBranchPoint_ |-> NoHash,
            forced |-> FALSE]
  /\ phase' = "loaded"
  /\ initializing' = TRUE
  /\ UNCHANGED <<prev, blkfile, dbVars>>

OrganizeFrom(from, force, to) ==
  /\ phase = from
  /\ phase' = to
  /\ Organize(force)
  /\ UNCHANGED <<prev, mapVars, headersByHeight_, topVars, topID_, fieldVars, topID,
                 prevTopBlock, maxDiffSum, unseen, traceVars, walkVars,
                 blkfile, topBlockOffset_, duplicateID_, dbVars, validDupByHeight_,
                 initializing, restarts>>

(* 47 *)
InitOrganize == OrganizeFrom("loaded", TRUE, "organized")

Organizing ==
  /\ OrganizeStep
  /\ UNCHANGED syncVars

(* setDuplicateIDinRAM (Blockchain.cpp, 112-121) *)
WithMainDups(valid) ==
  [n \in DOMAIN valid \cup {blockHeight_[h] : h \in Main} |->
     IF \E h \in Main : blockHeight_[h] = n
       THEN duplicateID_[CHOOSE h \in Main : blockHeight_[h] = n]
       ELSE valid[n]]

(* 48-67: set the duplicate ids and go back in the files, unless there is  *)
(* nothing above the genesis block.                                        *)
InitRewind ==
  LET top == blockHeight_[topBlockPtr_]
      height == IF top > Rewind THEN top - Rewind ELSE 1 IN
  /\ phase = "organized" /\ pc = "idle"
  /\ phase' = "parse"
  /\ validDupByHeight_' = WithMainDups(validDupByHeight_)
  /\ topBlockOffset_' = IF height \in DOMAIN headersByHeight_
                          THEN Offset(headersByHeight_[height]) ELSE topBlockOffset_
  /\ UNCHANGED <<chainVars, blkfile, duplicateID_, dbVars, initializing, restarts>>

-----------------------------------------------------------------------------
Unparsed == SubSeq(blkfile, topBlockOffset_, Len(blkfile))
EndOfFiles == Len(blkfile) + 1

(* updateBlocksInDB (244-331), addBlocksToDB (334-454): parse from         *)
(* topBlockOffset_ to the end of the files.                                *)
ParseBlocks ==
  /\ phase = "parse"
  /\ phase' = "parsed"
  /\ addBlocksInBulk(Unparsed)
  /\ topBlockOffset_' = EndOfFiles
  /\ UNCHANGED <<prev, headersByHeight_, topVars, pc, forceRebuild, topID, prevTopBlock,
                 maxDiffSum, unseen, traceVars, walkVars, branchPoint, st,
                 blkfile, duplicateID_, dbVars, validDupByHeight_, initializing, restarts>>

(* 327 *)
UpdateOrganize == OrganizeFrom("parsed", FALSE, "put")

(* putBareHeader (lmdb_wrapper.cpp, 1372-1469): the dup of a header is its *)
(* place among those stored at the same height.                            *)
At(lists, n) == IF n \in DOMAIN lists THEN lists[n] ELSE << >>

(* Mutant: every header gets the first dup. *)
DupInFirst(list, h) == 0

DupIn(list, h) == (CHOOSE i \in DOMAIN list : list[i] = h) - 1

PutOne(db, h) ==
  LET n == blockHeight_[h]
      list == At(db.hhl, n)
      there == {i \in DOMAIN list : list[i] = h}
      new == IF there = {} THEN Append(list, h) ELSE list
      dup == DupIn(new, h) IN
  [hhl |-> [m \in DOMAIN db.hhl \cup {n} |-> IF m = n THEN new ELSE db.hhl[m]],
   headers |-> [g \in DOMAIN db.headers \cup {h} |->
                  IF g = h THEN [height |-> n, dup |-> dup, id |-> uniqueID_[h]]
                           ELSE db.headers[g]],
   valid |-> IF isMainBranch_[h]
               THEN [m \in DOMAIN db.valid \cup {n} |-> IF m = n THEN dup ELSE db.valid[m]]
               ELSE db.valid,
   unput |-> db.unput]

Unputted(db, h) ==
  [hhl |-> db.hhl, headers |-> db.headers, valid |-> db.valid, unput |-> Append(db.unput, h)]

PutAll ==
  LET f[i \in 0 .. Len(newlyParsedBlocks_)] ==
        IF i = 0
          THEN [hhl |-> hhl, headers |-> dbHeaders, valid |-> validDupByHeight_, unput |-> << >>]
        ELSE IF blockHeight_[newlyParsedBlocks_[i]] = NoHeight
          THEN Unputted(f[i - 1], newlyParsedBlocks_[i])
        ELSE PutOne(f[i - 1], newlyParsedBlocks_[i])
  IN f[Len(newlyParsedBlocks_)]

(* Mutant: the dup is not put back into the header. *)
DupsAfterPutSame == duplicateID_

DupsAfterPut ==
  [h \in Hash |->
     IF /\ \E i \in DOMAIN newlyParsedBlocks_ : newlyParsedBlocks_[i] = h
        /\ blockHeight_[h] # NoHeight
       THEN PutAll.headers[h].dup ELSE duplicateID_[h]]

(* putNewBareHeaders (Blockchain.cpp, 459-507), in one transaction.  What  *)
(* has no height yet waits for the next time.                              *)
PutNewBareHeaders ==
  LET undo == st.reorgBranchPoint_ # NoHash /\ (initializing \/ st.newTop_ # st.prevTop_) IN
  /\ phase = "put" /\ pc = "idle"
  /\ phase' = IF undo THEN "undo" ELSE "up"
  /\ hhl' = PutAll.hhl
  /\ dbHeaders' = PutAll.headers
  /\ validDupByHeight_' = PutAll.valid
  /\ duplicateID_' = DupsAfterPut
  /\ newlyParsedBlocks_' = PutAll.unput
  /\ initializing' = (initializing /\ undo)
  /\ UNCHANGED <<prev, headerMap_, headersById_, uniqueID_, headersByHeight_, topVars, topID_,
                 fieldVars, pc, forceRebuild, topID, prevTopBlock, maxDiffSum, unseen, traceVars,
                 walkVars, branchPoint, st, blkfile, topBlockOffset_, restarts>>

(* undoHistory ends with setDuplicateIDinRAM (DatabaseBuilder.cpp, 602,    *)
(* 128 and 636).                                                           *)
UndoHistory ==
  /\ phase = "undo"
  /\ phase' = "up"
  /\ validDupByHeight_' = WithMainDups(validDupByHeight_)
  /\ initializing' = FALSE
  /\ UNCHANGED <<chainVars, blkfile, topBlockOffset_, duplicateID_, dbVars, restarts>>

(* 92-93 and 116-125: init undoes nothing when no address is registered or *)
(* the history was reset.                                                  *)
InitSkipsUndo ==
  /\ phase = "undo" /\ initializing /\ SkipsUndo
  /\ phase' = "up"
  /\ initializing' = FALSE
  /\ UNCHANGED <<chainVars, blkfile, topBlockOffset_, duplicateID_, dbVars, validDupByHeight_,
                 restarts>>

(* Mutant: the last block of the files is left for the next time. *)
UpdateLate ==
  /\ phase = "up"
  /\ topBlockOffset_ < Len(blkfile)
  /\ phase' = "parse"
  /\ UNCHANGED <<chainVars, blkfile, topBlockOffset_, duplicateID_, dbVars, validDupByHeight_,
                 initializing, restarts>>

(* update (582-615): the node has told of new blocks. *)
Update ==
  /\ phase = "up"
  /\ topBlockOffset_ <= Len(blkfile)
  /\ phase' = "parse"
  /\ UNCHANGED <<chainVars, blkfile, topBlockOffset_, duplicateID_, dbVars, validDupByHeight_,
                 initializing, restarts>>

SyncStep ==
  \/ InitOrganize \/ InitRewind \/ ParseBlocks \/ UpdateOrganize \/ PutNewBareHeaders
  \/ UndoHistory \/ InitSkipsUndo \/ Update \/ Organizing

Next == (\E h \in Hash : NodeWrites(h)) \/ SyncStep \/ Restart

Spec == Init /\ [][Next]_vars

(* The process goes on as long as it is not stopped, and is told of new    *)
(* blocks by the node.                                                     *)
FairSpec == Spec /\ WF_vars(SyncStep)

-----------------------------------------------------------------------------
(* Properties *)

(* The types of Blockchain, and of what is added to it here. *)
SyncTypeOK ==
  /\ TypeOK
  /\ DOMAIN dbHeaders \subseteq OnDisk
  /\ topBlockOffset_ \in 1 .. Len(blkfile) + 1
  /\ phase \in {"loaded", "organized", "parse", "parsed", "put", "undo", "up"}
  /\ restarts \in 0 .. MaxRestarts

(* A (height, dup) pair names one header: it is the key under which the    *)
(* history of a block is stored.                                           *)
DupsTellApart ==
  \A g, h \in DOMAIN dbHeaders :
    dbHeaders[g].height = dbHeaders[h].height /\ dbHeaders[g].dup = dbHeaders[h].dup => g = h

(* After init or update the header in memory and the one in the database   *)
(* agree on height and dup, for every block of the main branch.            *)
MapAndDBAgree ==
  phase = "up" =>
    \A h \in Main :
      h \in DOMAIN dbHeaders /\ dbHeaders[h].height = blockHeight_[h]
                            /\ dbHeaders[h].dup = duplicateID_[h]

(* After init or update, getValidDupIDForHeight leads to the block of the  *)
(* main branch at every height.                                            *)
ValidDupsAreMain ==
  phase = "up" =>
    \A h \in Main : /\ blockHeight_[h] \in DOMAIN validDupByHeight_
                     /\ validDupByHeight_[blockHeight_[h]] = duplicateID_[h]

(* No block is passed over: what lies before topBlockOffset_ has a header. *)
NothingMissed ==
  phase = "up" => \A i \in 1 .. topBlockOffset_ - 1 : blkfile[i] \in headerMap_

(* Every block the node writes gets into the database, whenever the        *)
(* process is stopped in between: time and again nothing on disk is        *)
(* missing from it.                                                        *)
BlocksGetStored == []<>(OnDisk \subseteq DOMAIN dbHeaders)

(* "On a full rebuild, prevChainStillValid should ALWAYS be true".  Does   *)
(* not hold with three restarts (README).                                  *)
FullRebuildKeepsTop ==
  pc = "walk" /\ forceRebuild /\ isFinishedCalc_[thisHeaderPtr] => prevChainStillValid
=============================================================================
