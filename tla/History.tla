------------------------------ MODULE History ------------------------------
(***************************************************************************)
(* The history of an address in the SUBSSH, STXO and SSH databases:        *)
(* DatabaseBuilder::init and ::update from the headers on, with            *)
(* BlockchainScanner::scan, ::undo and ::updateSSH.                        *)
(*                                                                         *)
(* A block stands for what it does to the address: an entry in SUBSSH      *)
(* under its height and dup, an output in STXO, and one count in the       *)
(* summary that SSH keeps.  Every database transaction is a step of its    *)
(* own; the process can stop between two of them and be started again.     *)
(* How the chain itself is found is in Blockchain and HeaderSync: here     *)
(* Chain gives the blocks from the genesis block to each block.            *)
(***************************************************************************)
EXTENDS Integers, FiniteSets

CONSTANTS
  Block,         \* block hashes, as numbers
  Genesis,
  Chain,         \* the blocks from the genesis block to a block
  Height,
  Work,          \* difficultySum_
  StopsInReorg,  \* whether the process may stop with a reorg half undone
  MaxStops       \* bound: how often the process stops

ASSUME HistoryAssumption ==
  /\ Block \subseteq Nat /\ Genesis \in Block
  /\ Chain \in [Block -> SUBSET Block]
  /\ Height \in [Block -> Nat] /\ Height[Genesis] = 0
  /\ Work \in [Block -> Nat]
  /\ StopsInReorg \in BOOLEAN /\ MaxStops \in Nat

(* What makes Chain a tree with the genesis block at its root. *)
ASSUME ChainAssumption ==
  /\ \A b \in Block : b \in Chain[b] /\ Genesis \in Chain[b]
  /\ \A b \in Block : \A c \in Chain[b] :
       Chain[c] = {d \in Chain[b] : Height[d] <= Height[c]}
  /\ \A b \in Block : \A n \in 0 .. Height[b] : \E c \in Chain[b] : Height[c] = n
  /\ \A b \in Block : \A c, d \in Chain[b] : Height[c] = Height[d] => c = d
  /\ \A b \in Block : \A c \in Chain[b] \ {b} : Work[c] < Work[b]

VARIABLES
  disk,          \* the blocks in the node's files
  (* databases *)
  headers,       \* HEADERS
  stxo,          \* STXO: blocks whose outputs are there
  subssh,        \* SUBSSH: blocks whose history is there
  subsshTop,     \* topScannedBlkHash_ of the SUBSSH sdbi
  ssh,           \* SSH: scanHeight_, tallyHeight_ and how often a block was counted
  sshTop,        \* topScannedBlkHash_ of the SSH sdbi
  (* the process *)
  pc,
  initializing,  \* in init, not in update
  known,         \* the headers in memory
  prevTop, top,
  scanFrom,
  batchEnd,
  stops

dbVars == <<headers, stxo, subssh, subsshTop, ssh, sshTop>>
memVars == <<initializing, known, prevTop, top, scanFrom, batchEnd>>
vars == <<disk, dbVars, pc, memVars, stops>>

None == [b \in Block |-> 0]

Init ==
  /\ disk = {Genesis}
  /\ headers = {Genesis} /\ stxo = {} /\ subssh = {}
  /\ subsshTop = Genesis /\ sshTop = Genesis
  /\ ssh = [scanHeight_ |-> -1, tallyHeight_ |-> -1, count |-> None]
  /\ pc = "down"
  /\ initializing = FALSE /\ known = {} /\ prevTop = Genesis /\ top = Genesis
  /\ scanFrom = -1 /\ batchEnd = -1
  /\ stops = 0

(* The node writes a block to its files, after its parent. *)
NodeWrites(b) ==
  /\ b \notin disk
  /\ Chain[b] \ {b} \subseteq disk
  /\ disk' = disk \cup {b}
  /\ UNCHANGED <<dbVars, pc, memVars, stops>>

-----------------------------------------------------------------------------
Main == Chain[top]
Smaller(i, j) == IF i <= j THEN i ELSE j
Heaviest(S) == {b \in S : \A c \in S : Work[c] <= Work[b]}
Between(lo, hi) == {b \in Main : lo <= Height[b] /\ Height[b] <= hi}

(* What organize makes the top: the headers are gone through in hash order *)
(* and only a heavier one replaces the top.  forceOrganize does the same   *)
(* from the genesis block.                                                 *)
Organized(t, S) ==
  IF t \in Heaviest(S) THEN t
  ELSE CHOOSE b \in Heaviest(S) : \A c \in Heaviest(S) : b <= c

ForcedTop == Organized(Genesis, headers)

(* reorgBranchPoint_ of the ReorganizationState, and the blocks above it   *)
(* on the branch that was left.                                            *)
BranchPoint == CHOOSE b \in Chain[prevTop] \cap Main :
                 \A c \in Chain[prevTop] \cap Main : Height[c] <= Height[b]
Reorg == prevTop \notin Main

(* init (36-76): the headers in HEADERS, then those in the files. *)
StartInit ==
  /\ pc = "down"
  /\ pc' = "organized"
  /\ initializing' = TRUE
  /\ known' = disk
  /\ prevTop' = ForcedTop
  /\ top' = Organized(ForcedTop, disk)
  /\ UNCHANGED <<disk, dbVars, scanFrom, batchEnd, stops>>

(* Mutant: only a higher block starts an update. *)
StartUpdateHigher ==
  /\ pc = "idle" /\ \E b \in disk \ known : Height[b] > Height[top]
  /\ pc' = "organized"
  /\ initializing' = FALSE
  /\ known' = disk
  /\ prevTop' = top
  /\ top' = Organized(top, disk)
  /\ UNCHANGED <<disk, dbVars, scanFrom, batchEnd, stops>>

(* update (582-590) *)
StartUpdate ==
  /\ pc = "idle" /\ disk # known
  /\ pc' = "organized"
  /\ initializing' = FALSE
  /\ known' = disk
  /\ prevTop' = top
  /\ top' = Organized(top, disk)
  /\ UNCHANGED <<disk, dbVars, scanFrom, batchEnd, stops>>

(* ScrAddrFilter::scanFrom (BDM_supportClasses.cpp, 636-659) *)
FilterScanFrom == IF ssh.scanHeight_ = -1 THEN -1 ELSE ssh.scanHeight_ + 1

(* init (97-115): go on from SUBSSH where it is ahead of SSH. *)
InitScanFrom ==
  IF Height[subsshTop] > Height[sshTop] THEN Height[subsshTop] ELSE FilterScanFrom

(* 125-132 and 596-605 *)
ReorgScanFrom(from) == Smaller(from, Height[BranchPoint] + 1)

(* putNewBareHeaders, and what init and update conclude from the           *)
(* ReorganizationState before they scan.                                   *)
PutHeaders ==
  LET from == IF initializing THEN InitScanFrom ELSE Height[prevTop] + 1 IN
  /\ pc = "organized"
  /\ headers' = known
  /\ pc' = IF ~initializing /\ top = prevTop THEN "idle"
           ELSE IF Reorg THEN "undoStxo" ELSE "scan"
  /\ scanFrom' = IF Reorg THEN ReorgScanFrom(from) ELSE from
  /\ UNCHANGED <<disk, stxo, subssh, subsshTop, ssh, sshTop, initializing, known, prevTop, top,
                 batchEnd, stops>>

-----------------------------------------------------------------------------
(* undo (BlockchainScanner.cpp, 1292-1531): from the previous top down to  *)
(* the branch point, leaving out what the summary has not come to.         *)
Undone == {b \in Chain[prevTop] \ Main : Height[b] <= ssh.scanHeight_}

(* 1446-1474 *)
UndoStxo ==
  /\ pc = "undoStxo"
  /\ pc' = "undoSsh"
  /\ stxo' = stxo \ Undone
  /\ UNCHANGED <<disk, headers, subssh, subsshTop, ssh, sshTop, memVars, stops>>

(* 1476-1530 *)
UndoSsh ==
  LET height == Height[BranchPoint] IN
  /\ pc = "undoSsh"
  /\ pc' = "scan"
  /\ ssh' = [scanHeight_ |-> Smaller(ssh.scanHeight_, height),
             tallyHeight_ |-> Smaller(ssh.tallyHeight_, height),
             count |-> [b \in Block |-> ssh.count[b] - (IF b \in Undone THEN 1 ELSE 0)]]
  /\ sshTop' = BranchPoint
  /\ UNCHANGED <<disk, headers, stxo, subssh, subsshTop, memVars, stops>>

-----------------------------------------------------------------------------
(* check_merkle (23-59) and the start of scan_nocheck.  A start above the  *)
(* top throws in the commit thread (713, 723), which ends the process.     *)
CheckFrom ==
  IF subsshTop \in Main /\ Height[subsshTop] > scanFrom THEN Height[subsshTop] ELSE scanFrom

Scan ==
  /\ pc = "scan"
  /\ pc' = IF CheckFrom \in 0 .. Height[top] THEN "batch"
           ELSE IF subsshTop \in Main THEN "tally" ELSE "down"
  /\ scanFrom' = CheckFrom
  /\ UNCHANGED <<disk, dbVars, initializing, known, prevTop, top, batchEnd, stops>>

(* Mutant: the sdbi is given the chain's top for the batch's. *)
BatchTopChain == top

(* processOutputsThread (474-572) passes over the heights the address was  *)
(* scanned at before, as getOutScrRefMap read them when the scan began.    *)
Found(end) == {b \in Between(scanFrom, end) : Height[b] > ssh.scanHeight_}

BatchOutputs(end) == Found(end)
BatchTop == CHOOSE b \in Main : Height[b] = batchEnd

(* A batch of writeBlockData (811-844), in two transactions. *)
WriteStxo(end) ==
  /\ pc = "batch"
  /\ end \in scanFrom .. Height[top]
  /\ pc' = "batchSubssh"
  /\ batchEnd' = end
  /\ stxo' = stxo \cup BatchOutputs(end)
  /\ UNCHANGED <<disk, headers, subssh, subsshTop, ssh, sshTop, initializing, known, prevTop,
                 top, scanFrom, stops>>

WriteSubssh ==
  /\ pc = "batchSubssh"
  /\ subssh' = subssh \cup Found(batchEnd)
  /\ subsshTop' = BatchTop
  /\ pc' = IF batchEnd = Height[top] THEN "tally" ELSE "batch"
  /\ scanFrom' = batchEnd + 1
  /\ UNCHANGED <<disk, headers, stxo, ssh, sshTop, initializing, known, prevTop, top, batchEnd,
                 stops>>

(* Mutant: the dup of an entry is not compared with the valid one. *)
ToTallyAnyDup == {b \in subssh : Height[b] > ssh.tallyHeight_}

(* updateSSH (991-1264): count what SUBSSH holds above tallyHeight_ on the *)
(* main branch.                                                            *)
ToTally == {b \in subssh \cap Main : Height[b] > ssh.tallyHeight_}

NoSshToScan == sshTop \in Main /\ Height[sshTop] # 0 /\ Height[sshTop] >= Height[top]

UpdateSsh ==
  /\ pc = "tally"
  /\ pc' = "idle"
  /\ IF NoSshToScan
       THEN UNCHANGED <<ssh, sshTop>>
       ELSE /\ ssh' = [scanHeight_ |-> Height[top], tallyHeight_ |-> Height[top],
                       count |-> [b \in Block |->
                                    ssh.count[b] + (IF b \in ToTally THEN 1 ELSE 0)]]
            /\ sshTop' = top
  /\ UNCHANGED <<disk, headers, stxo, subssh, subsshTop, memVars, stops>>

-----------------------------------------------------------------------------
(* SSH counts nothing but names a block no lower than SUBSSH does: another *)
(* reorg makes init scan from -1, which ends the process, and the start    *)
(* after that goes on from a block of the branch that was left.            *)
SshAhead ==
  /\ ssh.scanHeight_ = -1
  /\ Height[sshTop] # 0 /\ Height[subsshTop] <= Height[sshTop]

(* HEADERS already has the new branch and the history still the old one,   *)
(* or nothing of it was counted yet.                                       *)
HalfUndone ==
  /\ pc \in {"undoStxo", "undoSsh", "scan", "batch", "batchSubssh"}
  /\ Reorg
  /\ subsshTop \notin Main \/ SshAhead

(* The process stops: memory is lost, the databases stay. *)
Stop ==
  /\ pc # "down"
  /\ stops < MaxStops
  /\ StopsInReorg \/ ~HalfUndone
  /\ stops' = stops + 1
  /\ pc' = "down"
  /\ initializing' = FALSE /\ known' = {} /\ prevTop' = Genesis /\ top' = Genesis
  /\ scanFrom' = -1 /\ batchEnd' = -1
  /\ UNCHANGED <<disk, dbVars>>

Step ==
  \/ StartInit \/ StartUpdate \/ PutHeaders \/ UndoStxo \/ UndoSsh \/ Scan
  \/ (\E end \in 0 .. Height[top] : WriteStxo(end)) \/ WriteSubssh \/ UpdateSsh

Next == Step \/ Stop \/ \E b \in Block : NodeWrites(b)

Spec == Init /\ [][Next]_vars

(* The process goes on while it is not stopped, is started again, and the  *)
(* node tells it of new blocks.                                            *)
FairSpec == Spec /\ WF_vars(Step)

-----------------------------------------------------------------------------
(* Properties *)

Once(S) == [b \in Block |-> IF b \in S THEN 1 ELSE 0]

(* The types of the databases and of the process' memory. *)
TypeOK ==
  /\ disk \subseteq Block /\ headers \subseteq disk /\ known \subseteq disk
  /\ stxo \subseteq Block /\ subssh \subseteq Block
  /\ subsshTop \in Block /\ sshTop \in Block /\ prevTop \in Block /\ top \in Block
  /\ ssh \in [scanHeight_ : Int, tallyHeight_ : Int, count : [Block -> Int]]
  /\ pc \in {"down", "organized", "undoStxo", "undoSsh", "scan", "batch", "batchSubssh",
             "tally", "idle"}
  /\ initializing \in BOOLEAN
  /\ scanFrom \in Int /\ batchEnd \in Int /\ stops \in Nat

(* When init or update is done, the summary counts every block of the main *)
(* branch once and no other: neither a stop between two transactions nor a *)
(* reorg loses a block, counts one twice or leaves a stale one in.         *)
CountsMainBranch == pc = "idle" => ssh.count = Once(Main)

(* At every moment the summary in SSH counts the blocks up to its own      *)
(* scanHeight_ on the chain its sdbi names, so a restart can go on from    *)
(* it.  After an undo the sdbi may name a block above that height.         *)
SshMatchesItsTop ==
  /\ ssh.scanHeight_ = ssh.tallyHeight_ /\ ssh.scanHeight_ <= Height[sshTop]
  /\ ssh.count = Once({b \in Chain[sshTop] : Height[b] <= ssh.scanHeight_})

(* "SUBSSH db has scanned ahead of SSH db, no point rescanning these       *)
(* blocks": what init passes over because SUBSSH is ahead is in SUBSSH.    *)
SkippedIsScanned ==
  pc = "scan" /\ initializing /\ Height[subsshTop] > Height[sshTop] =>
    Between(ssh.scanHeight_ + 1, scanFrom - 1) \subseteq subssh

(* When init or update is done, STXO has the outputs of every block of the *)
(* main branch, although it is written before SUBSSH and undone before     *)
(* SSH.                                                                    *)
OutputsKept == pc = "idle" => Main \subseteq stxo

(* When init or update is done, STXO has the outputs of the main branch    *)
(* and no others: undo deletes those of the branch that was left.  Does    *)
(* not hold (README).                                                      *)
StxoIsMainBranch == pc = "idle" => stxo = Main

(* However the process is stopped, time and again it has counted the       *)
(* history of a top that no block on disk outweighs.                       *)
HistoryCatchesUp ==
  []<>(pc = "idle" /\ ssh.count[top] = 1 /\ \A b \in disk : Work[b] <= Work[top])
=============================================================================
