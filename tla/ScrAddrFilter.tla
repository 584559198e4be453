--------------------------- MODULE ScrAddrFilter ---------------------------
(***************************************************************************)
(* Registering addresses while the database runs (ScrAddrFilter,           *)
(* BDM_supportClasses.cpp): clients register sets of addresses, every set  *)
(* that is not known yet is scanned by a thread of its own, and what has   *)
(* been scanned is merged into scrAddrMap_ under mergeLock_.               *)
(*                                                                         *)
(* A request is a WalletInfo.  It has a client thread, and a side scan if  *)
(* it needs one; both are in pc[r].  A callback first sets the promises of *)
(* the requests that were bound to it, then waits for the ones it is bound *)
(* to itself, then signals its client: a request becomes a child only      *)
(* while it registers, so the wrappers of the parent are outside.          *)
(***************************************************************************)
EXTENDS Naturals, Sequences, FiniteSets, SequencesExt

CONSTANTS
  Addr,
  Req,         \* requests
  AddrSets,    \* the functions from requests to sets of addresses considered
  Free,        \* mergeLock_ is not held
  Updater,     \* the thread that runs DatabaseBuilder::update
  MaxUpdates   \* bound: blocks that arrive

ASSUME RegistrationAssumption ==
  /\ AddrSets \subseteq [Req -> SUBSET Addr]
  /\ Free \notin Req /\ Updater \notin Req /\ Free # Updater
  /\ MaxUpdates \in Nat

VARIABLES
  wanted,             \* the addresses each request was made with
  scrAddrSet_,        \* what is left of them to be scanned for it
  scrAddrMap_,        \* the registered addresses
  scraddrmapptr,      \* the copy of it each request filters with
  scanningAddresses_,
  scanDataPile_,      \* last pushed first
  mergeLock_,
  boundTo,            \* the requests whose promises a callback waits for
  fired,              \* the requests whose callback has set its promises
  signalled,          \* the requests whose own callback has run
  merging,            \* scanDataVec of the merge under way
  pc,
  updates             \* how often update has run

vars == <<wanted, scrAddrSet_, scrAddrMap_, scraddrmapptr, scanningAddresses_, scanDataPile_,
          mergeLock_, boundTo, fired, signalled, merging, pc, updates>>

Init ==
  /\ wanted \in AddrSets
  /\ scrAddrSet_ = wanted
  /\ scrAddrMap_ = {} /\ scraddrmapptr = [r \in Req |-> {}]
  /\ scanningAddresses_ = {} /\ scanDataPile_ = << >>
  /\ mergeLock_ = Free
  /\ boundTo = [r \in Req |-> {}]
  /\ fired = {} /\ signalled = {}
  /\ merging = << >>
  /\ pc = [r \in Req |-> "start"]
  /\ updates = 0

At(r, from, to) == pc[r] = from /\ pc' = [pc EXCEPT ![r] = to]

-----------------------------------------------------------------------------
(* Mutant: a collision takes the address away and binds nothing. *)
CollidingNone(r) == {}

(* Mutant: a request is bound to every scan there is. *)
CollidingAll(r) == scanningAddresses_

Colliding(r) == {s \in scanningAddresses_ : scrAddrSet_[s] \cap scrAddrSet_[r] # {}}

StillToScan(r) == scrAddrSet_[r] \ UNION {scrAddrSet_[s] : s \in scanningAddresses_}

(* registerAddressBatch (289-346), under the lock: what is already being   *)
(* scanned is left to those who scan it, and the callback is bound to      *)
(* theirs.                                                                 *)
Register(r) ==
  /\ At(r, "start", "snapshot")
  /\ mergeLock_ = Free
  /\ boundTo' = [boundTo EXCEPT ![r] = Colliding(r)]
  /\ scrAddrSet_' = [scrAddrSet_ EXCEPT ![r] = StillToScan(r)]
  /\ scanningAddresses_' = scanningAddresses_ \cup {r}
  /\ UNCHANGED <<wanted, scraddrmapptr, scrAddrMap_, scanDataPile_, mergeLock_, fired,
                 signalled, merging, updates>>

(* 348, without the lock *)
Snapshot(r) ==
  /\ At(r, "snapshot", "filter")
  /\ scraddrmapptr' = [scraddrmapptr EXCEPT ![r] = scrAddrMap_]
  /\ UNCHANGED <<wanted, scrAddrSet_, scrAddrMap_, scanningAddresses_, scanDataPile_,
                 mergeLock_, boundTo, fired, signalled, merging, updates>>

(* 360-431, without the lock: drop what was registered then; start a side  *)
(* scan for the rest, or call back at once.                                *)
Filter(r) ==
  LET rest == scrAddrSet_[r] \ scraddrmapptr[r] IN
  /\ At(r, "filter", IF rest = {} THEN "fire" ELSE "scan")
  /\ scrAddrSet_' = [scrAddrSet_ EXCEPT ![r] = rest]
  /\ UNCHANGED <<wanted, scraddrmapptr, scrAddrMap_, scanningAddresses_, scanDataPile_,
                 mergeLock_, boundTo, fired, signalled, merging, updates>>

(* parentCallback (325-330) *)
Fired(r) == fired \cup {r}

(* childCallback (332-337) *)
Released(r) == boundTo[r] \subseteq fired

(* 376: the callback in the client's thread. *)
ClientFires(r) ==
  /\ At(r, "fire", "wait")
  /\ fired' = Fired(r)
  /\ UNCHANGED <<wanted, scraddrmapptr, scrAddrSet_, scrAddrMap_, scanningAddresses_,
                 scanDataPile_, mergeLock_, boundTo, signalled, merging, updates>>

ClientSignals(r) ==
  /\ At(r, "wait", "erase")
  /\ Released(r)
  /\ signalled' = signalled \cup {r}
  /\ UNCHANGED <<wanted, scraddrmapptr, scrAddrSet_, scrAddrMap_, scanningAddresses_,
                 scanDataPile_, mergeLock_, boundTo, fired, merging, updates>>

(* 388-392 *)
ClientErases(r) ==
  /\ At(r, "erase", "done")
  /\ mergeLock_ = Free
  /\ scanningAddresses_' = scanningAddresses_ \ {r}
  /\ UNCHANGED <<wanted, scraddrmapptr, scrAddrSet_, scrAddrMap_, scanDataPile_, mergeLock_,
                 boundTo, fired, signalled, merging, updates>>

-----------------------------------------------------------------------------
(* scanScrAddrThread (455-494) and addToMergePile (507-516) *)
SideScan(r) ==
  /\ At(r, "scan", "merge")
  /\ scanDataPile_' = <<r>> \o scanDataPile_
  /\ UNCHANGED <<wanted, scraddrmapptr, scrAddrSet_, scrAddrMap_, scanningAddresses_,
                 mergeLock_, boundTo, fired, signalled, merging, updates>>

Merged == scrAddrMap_ \cup UNION {scrAddrSet_[s] : s \in ToSet(scanDataPile_)}

(* mergeSideScanPile (519-622): all that is on the pile, in one go.  The   *)
(* thread that finds the pile empty has had its work done by another.      *)
Merge(r) ==
  /\ At(r, "merge", IF scanDataPile_ = << >> THEN "done" ELSE "merging")
  /\ mergeLock_ = Free
  /\ mergeLock_' = IF scanDataPile_ = << >> THEN Free ELSE r
  /\ merging' = scanDataPile_
  /\ scanDataPile_' = << >>
  /\ scrAddrMap_' = Merged
  /\ UNCHANGED <<wanted, scraddrmapptr, scrAddrSet_, scanningAddresses_, boundTo, fired,
                 signalled, updates>>

LockAfterCallback(r) == IF Tail(merging) = << >> THEN Free ELSE r

(* 624-632: the callbacks, with the lock held. *)
MergeFires(r) ==
  /\ At(r, "merging", "mergeWait")
  /\ fired' = Fired(Head(merging))
  /\ UNCHANGED <<wanted, scraddrmapptr, scrAddrSet_, scrAddrMap_, scanningAddresses_,
                 scanDataPile_, mergeLock_, boundTo, signalled, merging, updates>>

MergeSignals(r) ==
  /\ At(r, "mergeWait", IF Tail(merging) = << >> THEN "done" ELSE "merging")
  /\ Released(Head(merging))
  /\ signalled' = signalled \cup {Head(merging)}
  /\ scanningAddresses_' = scanningAddresses_ \ {Head(merging)}
  /\ merging' = Tail(merging)
  /\ mergeLock_' = LockAfterCallback(r)
  /\ UNCHANGED <<wanted, scraddrmapptr, scrAddrSet_, scrAddrMap_, scanDataPile_, boundTo,
                 fired, updates>>

(* DatabaseBuilder::update (582-615) holds the lock from start to end. *)
UpdateBegins ==
  /\ updates < MaxUpdates
  /\ mergeLock_ = Free
  /\ mergeLock_' = Updater
  /\ UNCHANGED <<wanted, scraddrmapptr, scrAddrSet_, scrAddrMap_, scanningAddresses_,
                 scanDataPile_, boundTo, fired, signalled, merging, pc, updates>>

UpdateEnds ==
  /\ mergeLock_ = Updater
  /\ mergeLock_' = Free
  /\ updates' = updates + 1
  /\ UNCHANGED <<wanted, scraddrmapptr, scrAddrSet_, scrAddrMap_, scanningAddresses_,
                 scanDataPile_, boundTo, fired, signalled, merging, pc>>

ThreadStep(r) ==
  \/ Snapshot(r) \/ Filter(r)
  \/ ClientFires(r) \/ ClientSignals(r) \/ ClientErases(r)
  \/ SideScan(r) \/ Merge(r) \/ MergeFires(r) \/ MergeSignals(r)

Update == UpdateBegins \/ UpdateEnds

Next == (\E r \in Req : Register(r) \/ ThreadStep(r)) \/ Update

Spec == Init /\ [][Next]_vars

(* Threads that can go on do, and blocks arrive; whether a client          *)
(* registers is its own affair.                                            *)
FairSpec == Spec /\ WF_vars(Update) /\ \A r \in Req : WF_vars(ThreadStep(r))

-----------------------------------------------------------------------------
(* Properties *)

(* The types of the containers, and mergeLock_ held by who is inside. *)
TypeOK ==
  /\ scrAddrSet_ \in [Req -> SUBSET Addr] /\ scrAddrMap_ \subseteq Addr
  /\ scanningAddresses_ \subseteq Req /\ fired \subseteq Req /\ signalled \subseteq fired
  /\ ToSet(scanDataPile_) \cup ToSet(merging) \subseteq Req
  /\ \A r \in Req : pc[r] \in {"merging", "mergeWait"} => mergeLock_ = r
  /\ updates \in 0 .. MaxUpdates

(* "Signal the wallet that the address is ready": when a client is called  *)
(* back, every address it asked for is registered, also those another      *)
(* request was scanning for it.                                            *)
SignalledWhenReady == \A r \in signalled : wanted[r] \subseteq scrAddrMap_

(* No address is scanned by two side scans at a time, nor once it is       *)
(* registered: each would wipe or repeat the other's history.              *)
ScannedOnce ==
  \A r \in Req : pc[r] = "scan" =>
    /\ scrAddrSet_[r] \cap scrAddrMap_ = {}
    /\ \A s \in Req \ {r} : pc[s] = "scan" => scrAddrSet_[r] \cap scrAddrSet_[s] = {}

(* Two requests that share an address ask for the same ones. *)
NoPartialOverlap ==
  \A r, s \in Req : wanted[r] = wanted[s] \/ wanted[r] \cap wanted[s] = {}

(* Whoever registers is called back in the end, unless requests overlap in *)
(* part: the callbacks wait for each other then, with mergeLock_ held.     *)
AllSignalled ==
  NoPartialOverlap => \A r \in Req : pc[r] = "snapshot" ~> r \in signalled

(* Registering does not keep new blocks from being processed, with the     *)
(* same exception.                                                         *)
UpdatesRun == NoPartialOverlap => <>(updates = MaxUpdates)
=============================================================================
