------------------------------ MODULE ZeroConf ------------------------------
(***************************************************************************)
(* Unconfirmed transactions (ZeroConfContainer, BDM_supportClasses.cpp):   *)
(* the node announces transactions, threads fetch them, give each a key    *)
(* and push it on newZcStack_; one parser thread takes them from there,    *)
(* keeps the containers in zc and mirrors them in the ZERO_CONF database.  *)
(* The main thread adds blocks, asks the parser for a purge and waits.     *)
(*                                                                         *)
(* An outpoint is <<tx, n>>.  The key of an output is <<zcKey, n>> while   *)
(* its transaction is a ZC, and the outpoint itself when it is confirmed.  *)
(* txioMap_ is flattened: it takes the key of an output to its address and *)
(* the ZC that spends it, an address with no entry being an empty map.     *)
(***************************************************************************)
EXTENDS Naturals, Sequences, FiniteSets, FiniteSetsExt, SequencesExt, TLC

CONSTANTS
  Base,           \* transactions that are confirmed from the start
  Txs,            \* transactions that may be announced and mined
  TxIns,          \* the outpoints each of Txs spends
  TxOuts,         \* the address of each output, in order
  Registered,     \* scrAddrMap_
  Fee,            \* decides which of two conflicting ones the node keeps
  None,           \* no ZC spends it
  FetchThreads,   \* maxZcThreadCount_
  MaxBlocks,      \* bound: blocks that are mined
  MaxRepeats,     \* bound: transactions announced again
  MaxRestarts     \* bound: restarts

ASSUME ZeroConfAssumption ==
  /\ \A t \in Txs : \A op \in TxIns[t] : op[1] \in Base \cup Txs /\ op[2] \in DOMAIN TxOuts[op[1]]
  /\ Registered # {}
  /\ FetchThreads \in Nat \ {0}
  /\ {MaxBlocks, MaxRepeats, MaxRestarts} \subseteq Nat

VARIABLES
  nodePool,    \* the mempool of the node
  announced,   \* what it has announced
  repeats,     \* how often it has announced something again
  fetching,    \* fetched at the moment
  fetched,     \* fetched and keyed, not yet pushed
  topId_,
  newZcStack_,
  zc,          \* the containers, and ZERO_CONF in zc.db
  chain,       \* the blocks above the base, as sets of transactions
  scanned,     \* how many of them are in the database
  lastParsed,  \* the height of lastParsedBlockHash_
  purged,      \* how many of them the last purge has seen
  main,        \* the main thread
  restarts

node == <<nodePool, announced, repeats>>
threads == <<fetching, fetched, topId_>>
blocks == <<chain, scanned, main>>
vars == <<node, threads, newZcStack_, zc, blocks, lastParsed, purged, restarts>>

Without(f, S) == [x \in DOMAIN f \ S |-> f[x]]

EmptyMemory(db) ==
  [txHashToDBKey_ |-> << >>, txMap_ |-> << >>, txioMap_ |-> << >>, txOutsSpentByZC_ |-> {},
   outPointsSpentByKey_ |-> << >>, keyToSpentScrAddr_ |-> {}, keyToFundedScrAddr_ |-> {},
   allZcTxHashes_ |-> {}, db |-> db]

Init ==
  /\ nodePool = {} /\ announced = {} /\ repeats = 0
  /\ fetching = {} /\ fetched = {} /\ topId_ = 0
  /\ newZcStack_ = << >>
  /\ zc = EmptyMemory(<< >>)
  /\ chain = << >> /\ scanned = 0 /\ lastParsed = 0 /\ purged = 0
  /\ main = "idle"
  /\ restarts = 0

-----------------------------------------------------------------------------
(* What the database and the block chain say *)

ScrAddr(op) == TxOuts[op[1]][op[2]]

MinedIn(from, to) == UNION {chain[i] : i \in from .. to}

(* getTxRef finds the transactions of the scanned blocks that concern a    *)
(* registered address: only those have hints.                              *)
InDB(t) ==
  \/ t \in Base
  \/ /\ t \in MinedIn(1, scanned)
     /\ \/ \E n \in DOMAIN TxOuts[t] : TxOuts[t][n] \in Registered
        \/ \E op \in TxIns[t] : ScrAddr(op) \in Registered

SpentInDB(op) == \E t \in MinedIn(1, scanned) : op \in TxIns[t]

Conflicts(t) == {u \in Txs \ {t} : TxIns[u] \cap TxIns[t] # {}}

Children(S) == {u \in Txs : \E op \in TxIns[u] : op[1] \in S}

Descendants(S) ==
  FoldLeft(LAMBDA D, i : D \cup Children(D), S, [i \in 1 .. Cardinality(Txs) |-> i])

-----------------------------------------------------------------------------
(* ZCisMineBulkFilter (1426-1620): what t, with key k, spends and funds;   *)
(* nothing when it is confirmed already or spends what is spent.  known    *)
(* takes the hashes of the ZCs to their keys.                              *)
NoBulk == [txios |-> << >>, spent |-> {}, outPoints |-> {}, spentSA |-> {}, fundedSA |-> {}]

(* Mutant: a ZC that spends another one is not looked up in the database. *)
FromDBUnlessChained(ins, known) ==
  {op \in ins : /\ \A q \in ins : q[1] \notin DOMAIN known
                /\ InDB(op[1]) /\ ScrAddr(op) \in Registered}

FromDB(ins, known) ==
  {op \in ins : op[1] \notin DOMAIN known /\ InDB(op[1]) /\ ScrAddr(op) \in Registered}

(* Mutant: nothing is taken for mined or spent. *)
NeverInvalid(t, fromDB) == FALSE

Invalid(t, fromDB) == InDB(t) \/ \E op \in fromDB : SpentInDB(op)

ZCisMineBulkFilter(known, t, k) ==
  LET fromZC == {op \in TxIns[t] : op[1] \in DOMAIN known}
      fromDB == FromDB(TxIns[t], known)
      outKey(op) == IF op \in fromZC THEN <<known[op[1]], op[2]>> ELSE op
      funds == {n \in DOMAIN TxOuts[t] : TxOuts[t][n] \in Registered}
      spends == {[out |-> outKey(op), sa |-> ScrAddr(op)] : op \in fromZC \cup fromDB}
      spent == {s.out : s \in spends}
  IN  IF Invalid(t, fromDB)
      THEN NoBulk
      ELSE [txios |-> [o \in spent |-> [sa |-> (CHOOSE s \in spends : s.out = o).sa, by |-> k]]
                      @@ [o \in {k} \X funds |-> [sa |-> TxOuts[t][o[2]], by |-> None]],
            spent |-> spent,
            outPoints |-> TxIns[t],
            spentSA |-> {s.sa : s \in spends},
            fundedSA |-> {TxOuts[t][n] : n \in funds}]

(* dropZC, the loop over the addresses of one ZC (995-1034): rkeys is not  *)
(* emptied from one address to the next.                                   *)
DropTxios(txioMap, acc, k, addrs) ==
  LET At(sa) == {o \in DOMAIN txioMap : txioMap[o].sa = sa}
      OneAddr(a, sa) ==
        LET rkeys == a.rkeys \cup {o \in At(sa) : o[1] = k \/ txioMap[o].by = k} IN
        IF At(sa) = {} THEN a
        ELSE IF rkeys = {} THEN a
        ELSE IF Cardinality(rkeys) = Cardinality(At(sa))
        THEN [a EXCEPT !.rkeys = rkeys, !.delKeys = @ \cup {sa}]
        ELSE [a EXCEPT !.rkeys = rkeys, !.updateMap = (sa :> At(sa) \ rkeys) @@ @]
  IN  FoldLeft(OneAddr, [acc EXCEPT !.rkeys = {}], SetToSeq(addrs))

(* Mutant: the addresses the ZC pays are left out. *)
ScrAddrsSpent(z, k) == {p[2] : p \in {q \in z.keyToSpentScrAddr_ : q[1] = k}}

ScrAddrsOf(z, k) == {p[2] : p \in {q \in z.keyToSpentScrAddr_ \cup z.keyToFundedScrAddr_ : q[1] = k}}

(* One level of dropZC (935-1068): the hashes that are known, and as what  *)
(* is left to do the hashes of their children.                             *)
DropLevel(z, hashes) ==
  LET known == hashes \cap DOMAIN z.txHashToDBKey_
      keys == {z.txHashToDBKey_[h] : h \in known}
      childKeys == {z.outPointsSpentByKey_[op] :
                      op \in {q \in DOMAIN z.outPointsSpentByKey_ : q[1] \in known}}
      acc == FoldLeft(LAMBDA a, h : DropTxios(z.txioMap_, a, z.txHashToDBKey_[h],
                                              ScrAddrsOf(z, z.txHashToDBKey_[h])),
                      [rkeys |-> {}, delKeys |-> {}, updateMap |-> << >>], SetToSeq(known))
      keep == {o \in DOMAIN z.txioMap_ :
                 LET sa == z.txioMap_[o].sa IN
                 IF sa \in DOMAIN acc.updateMap THEN o \in acc.updateMap[sa]
                                                ELSE sa \notin acc.delKeys}
  IN  [z |-> [z EXCEPT !.txMap_ = Without(@, keys),
                       !.txHashToDBKey_ = Without(@, known),
                       !.txioMap_ = [o \in keep |-> @[o]],
                       !.txOutsSpentByZC_ = {o \in @ : o[1] \notin keys},
                       !.keyToSpentScrAddr_ = {p \in @ : p[1] \notin keys},
                       !.keyToFundedScrAddr_ = {p \in @ : p[1] \notin keys},
                       !.db = Without(@, keys)],
       next |-> {z.txMap_[q] : q \in childKeys \cap DOMAIN z.txMap_}]

(* Mutant: the children are kept. *)
dropNoChildren(z, hashes) == DropLevel(z, hashes).z

(* dropZC (935-1072); no chain of children is longer than Txs. *)
dropZC(z, hashes) ==
  FoldLeft(LAMBDA a, i : IF a.next = {} THEN a ELSE DropLevel(a.z, a.next),
           [z |-> z, next |-> hashes], [i \in 1 .. Cardinality(Txs) |-> i]).z
-----------------------------------------------------------------------------
(* Mutant: only what this call has added is compared. *)
ReplacedLocal(opKeys, outPoints, txs, M) ==
  {op \in outPoints \cap DOMAIN opKeys : opKeys[op] \in DOMAIN txs}

(* The outpoints of a new ZC that another one spends, of this call or of   *)
(* an earlier one (1260-1306).                                             *)
Replaced(opKeys, outPoints, txs, M) ==
  {op \in outPoints \cap DOMAIN opKeys : opKeys[op] \in DOMAIN txs \cup DOMAIN M}

(* parseNewZC(zcMap, ...), the body of the loop (1201-1370).  H and M are  *)
(* the copies of txHashToDBKey_ and txMap_ taken before the loop, p.hashes *)
(* and p.txs what the loop has to add to them.  A ZC that spends what      *)
(* another one spends replaces it, also when it is not relevant itself.    *)
ParseOne(H, M, zcMap, p, k) ==
  LET t == zcMap[k]
      bulk == ZCisMineBulkFilter(p.hashes @@ H, t, k)
      opKeys == p.z.outPointsSpentByKey_
      hits == Replaced(opKeys, bulk.outPoints, p.txs, M)
      hitKeys == {opKeys[op] : op \in hits}
      local == hitKeys \cap DOMAIN p.txs
      z == dropZC([p.z EXCEPT !.outPointsSpentByKey_ = Without(@, hits)],
                  {M[q] : q \in hitKeys \ local})
      hashes == Without(p.hashes, {p.txs[q] : q \in local})
      txs == Without(p.txs, local)
  IN  IF t \in DOMAIN H THEN p
      ELSE IF bulk.txios = << >> THEN [z |-> z, hashes |-> hashes, txs |-> txs]
      ELSE [z |-> [z EXCEPT
                     !.txOutsSpentByZC_ = @ \cup bulk.spent,
                     !.outPointsSpentByKey_ = [op \in bulk.outPoints |-> k] @@ @,
                     !.keyToSpentScrAddr_ = @ \cup ({k} \X bulk.spentSA),
                     !.keyToFundedScrAddr_ = @ \cup ({k} \X bulk.fundedSA),
                     !.txioMap_ = bulk.txios @@ @],
            hashes |-> (t :> k) @@ hashes,
            txs |-> (k :> t) @@ txs]

(* Mutant: ZERO_CONF is written before txMap_ is updated. *)
WrittenBefore(keysToWrite, oldTxMap, newTxMap) ==
  [k \in keysToWrite \cap DOMAIN oldTxMap |-> oldTxMap[k]]

(* updateZCinDB (1745-1807) writes the keys that are in txMap_ by then.    *)
Written(keysToWrite, oldTxMap, newTxMap) ==
  [k \in keysToWrite \cap DOMAIN newTxMap |-> newTxMap[k]]

(* parseNewZC(zcMap, updateDB, notify) (1137-1387), in the order of the    *)
(* keys; only what was never seen before is written.                       *)
parseNewZC(z, zcMap, updateDB) ==
  LET p == FoldLeft(LAMBDA a, k : ParseOne(z.txHashToDBKey_, z.txMap_, zcMap, a, k),
                    [z |-> [z EXCEPT !.allZcTxHashes_ = @ \cup {zcMap[k] : k \in DOMAIN zcMap}],
                     hashes |-> << >>, txs |-> << >>],
                    SetToSortSeq(DOMAIN zcMap, <))
      txMap == p.txs @@ p.z.txMap_
      keysToWrite == {k \in DOMAIN zcMap : updateDB /\ zcMap[k] \notin z.allZcTxHashes_}
  IN  [p.z EXCEPT !.txHashToDBKey_ = p.hashes @@ @,
                  !.txMap_ = txMap,
                  !.db = Written(keysToWrite, z.txMap_, txMap) @@ @]

(* purge (836-932): forget what was mined since lastParsedBlockHash_ and   *)
(* empty the containers, all but keyToFundedScrAddr_ and allZcTxHashes_.   *)
purge(z) ==
  LET mined == MinedIn(lastParsed + 1, Len(chain)) \cap z.allZcTxHashes_
      keysToDelete == {z.txHashToDBKey_[h] : h \in mined \cap DOMAIN z.txHashToDBKey_}
  IN  [z |-> [EmptyMemory(Without(z.db, keysToDelete)) EXCEPT
                !.keyToFundedScrAddr_ = z.keyToFundedScrAddr_,
                !.allZcTxHashes_ = z.allZcTxHashes_ \ mined],
       keysToDelete |-> keysToDelete]

-----------------------------------------------------------------------------
(* The node: it takes a transaction whose inputs it knows, drops for it    *)
(* what pays less with all that depends on it, and announces it.  An       *)
(* announcement no thread is free for is lost (1917-1946), and so are the  *)
(* ones that come before the mempool is loaded.                            *)
Busy == Cardinality(fetching) + Cardinality(fetched)

Fetch(t) ==
  fetching' = IF Busy < FetchThreads THEN fetching \cup {t} ELSE fetching

Accepts(t) ==
  /\ main # "loading"
  /\ t \notin nodePool /\ t \notin MinedIn(1, Len(chain))
  /\ \A op \in TxIns[t] : /\ op[1] \in Base \cup nodePool \cup MinedIn(1, Len(chain))
                          /\ \A u \in MinedIn(1, Len(chain)) : op \notin TxIns[u]
  /\ \A u \in Conflicts(t) \cap nodePool : Fee[u] < Fee[t]

Announce(t) ==
  /\ t \notin announced
  /\ Accepts(t)
  /\ nodePool' = (nodePool \ Descendants(Conflicts(t))) \cup {t}
  /\ announced' = announced \cup {t}
  /\ Fetch(t)
  /\ UNCHANGED <<repeats, fetched, topId_, newZcStack_, zc, blocks, lastParsed, purged, restarts>>

(* On a new connection it may announce what it holds again. *)
AnnounceAgain(t) ==
  /\ main # "loading" /\ t \in nodePool \ fetching
  /\ restarts > 0 /\ repeats < MaxRepeats
  /\ repeats' = repeats + 1
  /\ Fetch(t)
  /\ UNCHANGED <<nodePool, announced, fetched, topId_, newZcStack_, zc, blocks, lastParsed,
                 purged, restarts>>

(* processInvTxThread (1950-2004): a key, then the push.  getTx may run    *)
(* out of time, and the thread goes on with the next one.                  *)
FetchTx(t) ==
  /\ t \in fetching
  /\ fetching' = fetching \ {t}
  /\ fetched' = fetched \cup {[key |-> topId_, tx |-> t]}
  /\ topId_' = topId_ + 1
  /\ UNCHANGED <<node, newZcStack_, zc, blocks, lastParsed, purged, restarts>>

FetchFails(t) ==
  /\ t \in fetching
  /\ fetching' = fetching \ {t}
  /\ UNCHANGED <<node, fetched, topId_, newZcStack_, zc, blocks, lastParsed, purged, restarts>>

PushTx(f) ==
  /\ f \in fetched
  /\ fetched' = fetched \ {f}
  /\ newZcStack_' = Append(newZcStack_, f.key :> f.tx)
  /\ UNCHANGED <<node, fetching, topId_, zc, blocks, lastParsed, purged, restarts>>

-----------------------------------------------------------------------------
(* The parser thread (1075-1134); Zc_Purge is the empty element of the     *)
(* stack.  Every parse ends by setting lastParsedBlockHash_ to the top.    *)
ZcPurge == << >>

ParseTx ==
  /\ newZcStack_ # << >> /\ Head(newZcStack_) # ZcPurge
  /\ newZcStack_' = Tail(newZcStack_)
  /\ zc' = parseNewZC(zc, Head(newZcStack_), TRUE)
  /\ lastParsed' = Len(chain)
  /\ UNCHANGED <<node, threads, blocks, purged, restarts>>

ParsePurge ==
  /\ newZcStack_ # << >> /\ Head(newZcStack_) = ZcPurge
  /\ newZcStack_' = Tail(newZcStack_)
  /\ LET p == purge(zc) IN zc' = parseNewZC(p.z, Without(zc.txMap_, p.keysToDelete), TRUE)
  /\ lastParsed' = Len(chain)
  /\ purged' = Len(chain)
  /\ main' = "idle"
  /\ UNCHANGED <<node, threads, chain, scanned, restarts>>

(* The main thread (BDM_mainthread.cpp, 224-249): the headers, the scan,   *)
(* the purge it waits for.  A block is any set of transactions that can    *)
(* follow, whatever the node holds itself.                                 *)
NewBlock(b) ==
  /\ main = "idle" /\ Len(chain) < MaxBlocks
  /\ \A t \in b :
       /\ t \notin MinedIn(1, Len(chain))
       /\ Conflicts(t) \cap (b \cup MinedIn(1, Len(chain))) = {}
       /\ \A op \in TxIns[t] : op[1] \in Base \cup b \cup MinedIn(1, Len(chain))
  /\ chain' = Append(chain, b)
  /\ nodePool' = nodePool \ (b \cup Descendants(UNION {Conflicts(t) : t \in b}))
  /\ main' = "organized"
  /\ UNCHANGED <<announced, repeats, threads, newZcStack_, zc, scanned, lastParsed, purged, restarts>>

ScanBlock ==
  /\ main = "organized"
  /\ scanned' = Len(chain)
  /\ main' = "scanned"
  /\ UNCHANGED <<node, threads, newZcStack_, zc, chain, lastParsed, purged, restarts>>

PushPurge ==
  /\ main = "scanned"
  /\ newZcStack_' = Append(newZcStack_, ZcPurge)
  /\ main' = "waiting"
  /\ UNCHANGED <<node, threads, zc, chain, scanned, lastParsed, purged, restarts>>

(* What is in memory is gone; the blocks are scanned before the mempool is *)
(* loaded.  lastParsedBlockHash_ is unset when nothing is loaded, which is *)
(* the same as the top as long as allZcTxHashes_ is empty.                 *)
Restart(clearMempool) ==
  /\ restarts < MaxRestarts
  /\ restarts' = restarts + 1
  /\ fetching' = {} /\ fetched' = {} /\ newZcStack_' = << >>
  /\ scanned' = Len(chain) /\ main' = "loading"
  /\ zc' = EmptyMemory(IF clearMempool THEN << >> ELSE zc.db)
  /\ topId_' = IF clearMempool \/ zc.db = << >> THEN 0 ELSE Max(DOMAIN zc.db) + 1
  /\ UNCHANGED <<node, chain, lastParsed, purged>>

(* loadZeroConfMempool (1810-1886) and init (1889-1905) *)
Load ==
  /\ main = "loading"
  /\ zc' = parseNewZC(zc, zc.db, FALSE)
  /\ lastParsed' = Len(chain) /\ purged' = Len(chain)
  /\ main' = "idle"
  /\ UNCHANGED <<node, threads, newZcStack_, chain, scanned, restarts>>

Parser == ParseTx \/ ParsePurge

Main == ScanBlock \/ PushPurge \/ Load

Fetchers == (\E t \in Txs : FetchTx(t)) \/ \E f \in fetched : PushTx(f)

Next ==
  \/ \E t \in Txs : Announce(t) \/ AnnounceAgain(t) \/ FetchFails(t)
  \/ Fetchers
  \/ Parser
  \/ Main
  \/ \E b \in SUBSET Txs : NewBlock(b)
  \/ \E clearMempool \in BOOLEAN : Restart(clearMempool)

Spec == Init /\ [][Next]_vars

-----------------------------------------------------------------------------
(* Properties *)

Known == DOMAIN zc.txHashToDBKey_

(* No two transactions the container holds spend the same output: whatever *)
(* arrives, in whatever order the fetching threads push it and the purges  *)
(* parse it again, replaces what it conflicts with (parseNewZC).           *)
NoConflicts == \A t \in Known : Conflicts(t) \cap Known = {}

(* What the wallets are shown is what the container holds: after a drop,   *)
(* which rebuilds the maps of the addresses it touches (dropZC), no entry  *)
(* of txioMap_ is of a transaction or is spent by one that is gone, and no *)
(* output that pays a registered address has lost its entry.               *)
TxiosMatch ==
  /\ \A o \in DOMAIN zc.txioMap_ :
       /\ o[1] \in Base \cup Txs \cup DOMAIN zc.txMap_
       /\ zc.txioMap_[o].by \in {None} \cup DOMAIN zc.txMap_
  /\ \A t \in Known : \A n \in DOMAIN TxOuts[t] :
       TxOuts[t][n] \in Registered => <<zc.txHashToDBKey_[t], n>> \in DOMAIN zc.txioMap_

(* Once the main thread has the answer to its purge no mined transaction   *)
(* is unconfirmed, though threads may still hold it, and push it later,    *)
(* and though lastParsedBlockHash_ may be ahead of the last purge (purge,  *)
(* ZCisMineBulkFilter).                                                    *)
PurgedGone == Known \cap MinedIn(1, purged) = {}

(* A confirmed coin of the wallet that a held transaction spends is in     *)
(* txOutsSpentByZC_, so that it is not offered again; also after purges    *)
(* have turned the transaction's parents into confirmed ones.              *)
CoinsFlagged ==
  \A t \in Known : \A op \in TxIns[t] :
    (op[1] \in Base \cup MinedIn(1, purged) /\ ScrAddr(op) \in Registered)
      => op \in zc.txOutsSpentByZC_

(* Whenever the program is stopped while no block is on its way, loading   *)
(* ZERO_CONF (loadZeroConfMempool) brings back the transactions it held,   *)
(* no more and no fewer, as long as none was announced twice.              *)
RestartLosesNothing ==
  (main = "idle" /\ repeats = 0) =>
    DOMAIN parseNewZC(EmptyMemory(zc.db), zc.db, FALSE).txHashToDBKey_ = Known

(* A replaced transaction takes those that spend it along (dropZC calls    *)
(* itself on the children); purges are apart.                              *)
DropsDescendants ==
  [][main' = main /\ restarts' = restarts
       => Known \cap Known' \cap Children(Known \ Known') = {}]_vars

(* t is shown as the spender of an output of another ZC. *)
Linked(t, op) ==
  LET out == <<zc.txHashToDBKey_[op[1]], op[2]>> IN
  out \in DOMAIN zc.txioMap_ /\ zc.txioMap_[out].by = zc.txHashToDBKey_[t]

Links == {<<t, op>> \in Known \X UNION {TxIns[t] : t \in Known} :
            op \in TxIns[t] /\ op[1] \in Known /\ Linked(t, op)}

(* A purge parses what is left "in the order they appeared" (the comment   *)
(* in purge), so that a chain of ZCs stays one: a spending that is shown   *)
(* before the purge is shown after it when both transactions are left.     *)
PurgeKeepsChains ==
  [][ParsePurge => \A l \in Links : {l[1], l[2][1]} \subseteq Known' => l \in Links']_vars
=============================================================================
