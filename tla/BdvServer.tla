----------------------------- MODULE BdvServer ------------------------------
(***************************************************************************)
(* The server side of one client (Clients, BDV_Server_Object and           *)
(* SocketCallback of BDM_Server.cpp), with the loop in which the client    *)
(* asks for callbacks (PythonCallback::remoteLoop, SwigClient.cpp).        *)
(*                                                                         *)
(* The client registers wallets and goes online; the viewer's init thread  *)
(* registers them, scans the history and tells the client that it is       *)
(* ready; its maintenance thread then follows the new blocks.  A viewer is *)
(* dropped by its client or by the garbage collector, which counts the     *)
(* times it finds no request for callbacks.                                *)
(***************************************************************************)
EXTENDS Naturals, Sequences, FiniteSets, FiniteSetsExt, SequencesExt

CONSTANTS
  Wallets,
  Early,          \* those of them that are registered when the model starts
  MaxBlocks,      \* bound: blocks that come in
  ExpireCount     \* CALLBACK_EXPIRE_COUNT

ASSUME BdvServerAssumption ==
  /\ IsFiniteSet(Wallets) /\ Early \subseteq Wallets
  /\ MaxBlocks \in Nat
  /\ ExpireCount \in Nat \ {0, 1}

VARIABLES
  top,                 \* the height of the blockchain object
  db,                  \* the height the history is scanned to and notified
  BDVs_,               \* the viewer is in the map
  unreg,               \* the threads that unregister it
  initT_,
  tID_,                \* the viewer's maintenance thread
  notificationStack_,
  terminated,
  wltRegMap_,
  batch,               \* wltMap, the part of it that init registers
  wallets,             \* the wallets of the viewer's groups
  user,                \* the wallet the client's request is about to save
  asked,               \* the wallets the client has asked for
  isReady,             \* isReadyPromise_ is set
  topblock,            \* the height that init reports
  seen,                \* the blocks the viewer's wallets have read
  cbStack_,
  count_,
  poll,                \* the client's request for callbacks
  command,
  clientTop,
  alive                \* the client is there

chain == <<top, db>>
regs == <<wltRegMap_, batch, wallets, user, asked>>
client == <<poll, command, clientTop, alive>>
vars == <<chain, BDVs_, unreg, initT_, tID_, notificationStack_, terminated,
          regs, isReady, topblock, seen, cbStack_, count_, client>>

None == "none"
Unregisters == {"gc", "client"}

Init ==
  /\ top = 0 /\ db = 0
  /\ BDVs_ = TRUE
  /\ unreg = [t \in Unregisters |-> "none"]
  /\ initT_ = "none" /\ tID_ = "none"
  /\ notificationStack_ = << >> /\ terminated = FALSE
  /\ wltRegMap_ = Early /\ batch = {} /\ wallets = {} /\ user = None /\ asked = Early
  /\ isReady = FALSE /\ topblock = 0 /\ seen = {}
  /\ cbStack_ = << >> /\ count_ = 0
  /\ poll = "idle" /\ command = "waitOnBDV" /\ clientTop = 0 /\ alive = TRUE

-----------------------------------------------------------------------------
(* The main thread: the chain is organized, then the history is scanned    *)
(* and the viewer notified (readBlkFileUpdate, updateChainLambda).         *)
(* Blocks come in as long as the viewer is there.                          *)
Organize ==
  /\ db = top /\ BDVs_
  /\ \E n \in top + 1 .. MaxBlocks : top' = n
  /\ UNCHANGED <<db, BDVs_, unreg, initT_, tID_, notificationStack_, terminated, regs, isReady,
                 topblock, seen, cbStack_, count_, client>>

(* Clients::maintenanceThread hands the notification on to the viewer; the *)
(* delay of this first queue is that of the second.                        *)
Notify ==
  /\ db < top
  /\ db' = top
  /\ notificationStack_' = IF terminated THEN notificationStack_
                           ELSE Append(notificationStack_, [prevTop |-> db, newTop |-> top])
  /\ UNCHANGED <<top, BDVs_, unreg, initT_, tID_, terminated, regs, isReady, topblock, seen,
                 cbStack_, count_, client>>

-----------------------------------------------------------------------------
(* The requests of the client's own thread.  Each one resets the counter   *)
(* when it is done (runCommand).                                           *)

(* registerWallet: the promise is tested, then the lock is taken. *)
RegisterWallet(w) ==
  /\ alive /\ BDVs_ /\ user = None /\ w \notin asked
  /\ asked' = asked \union {w}
  /\ IF isReady THEN wallets' = wallets \union {w} /\ count_' = 0 /\ UNCHANGED user
                ELSE user' = w /\ UNCHANGED <<wallets, count_>>
  /\ UNCHANGED <<chain, BDVs_, unreg, initT_, tID_, notificationStack_, terminated,
                 wltRegMap_, batch, isReady, topblock, seen, cbStack_, client>>

SaveWallet ==
  /\ user # None
  /\ wltRegMap_' = wltRegMap_ \union {user}
  /\ user' = None
  /\ count_' = 0
  /\ UNCHANGED <<chain, BDVs_, unreg, initT_, tID_, notificationStack_, terminated,
                 batch, wallets, asked, isReady, topblock, seen, cbStack_, client>>

GoOnline ==
  /\ alive /\ BDVs_ /\ user = None /\ initT_ = "none"
  /\ initT_' = "loop"
  /\ tID_' = "running"
  /\ count_' = 0
  /\ UNCHANGED <<chain, BDVs_, unreg, notificationStack_, terminated, regs, isReady,
                 topblock, seen, cbStack_, client>>

-----------------------------------------------------------------------------
(* BDV_Server_Object::init *)

(* Once the BDM is ready, a pass of the loop: the map is taken under the   *)
(* lock, its addresses are registered, and its wallets once they are.      *)
InitTakes ==
  /\ initT_ = "loop"
  /\ initT_' = IF wltRegMap_ = {} THEN "scan" ELSE "batch"
  /\ wltRegMap_' = {}
  /\ batch' = wltRegMap_
  /\ UNCHANGED <<chain, BDVs_, unreg, tID_, notificationStack_, terminated,
                 wallets, user, asked, isReady, topblock, seen, cbStack_, count_, client>>

(* Mutant: the map is cleared after the batch is registered. *)
InitRegistersAndClears ==
  /\ initT_ = "batch"
  /\ initT_' = "loop"
  /\ wallets' = wallets \union batch
  /\ batch' = {}
  /\ wltRegMap_' = {}
  /\ UNCHANGED <<chain, BDVs_, unreg, tID_, notificationStack_, terminated, user, asked,
                 isReady, topblock, seen, cbStack_, count_, client>>

InitRegisters ==
  /\ initT_ = "batch"
  /\ initT_' = "loop"
  /\ wallets' = wallets \union batch
  /\ batch' = {}
  /\ UNCHANGED <<chain, BDVs_, unreg, tID_, notificationStack_, terminated, wltRegMap_, user,
                 asked, isReady, topblock, seen, cbStack_, count_, client>>

(* scanWallets of BDV_Init reads up to the top, as far as it is scanned. *)
InitScans ==
  /\ initT_ = "scan"
  /\ initT_' = "promise"
  /\ seen' = 0 .. db
  /\ UNCHANGED <<chain, BDVs_, unreg, tID_, notificationStack_, terminated, regs,
                 isReady, topblock, cbStack_, count_, client>>

InitSetsReady ==
  /\ initT_ = "promise"
  /\ initT_' = "top"
  /\ isReady' = TRUE
  /\ UNCHANGED <<chain, BDVs_, unreg, tID_, notificationStack_, terminated, regs,
                 topblock, seen, cbStack_, count_, client>>

InitReadsTop ==
  /\ initT_ = "top"
  /\ initT_' = "report"
  /\ topblock' = top
  /\ UNCHANGED <<chain, BDVs_, unreg, tID_, notificationStack_, terminated, regs,
                 isReady, seen, cbStack_, count_, client>>

InitReports ==
  /\ initT_ = "report"
  /\ initT_' = "ended"
  /\ cbStack_' = Append(cbStack_, [order |-> "BDM_Ready", height |-> topblock])
  /\ UNCHANGED <<chain, BDVs_, unreg, tID_, notificationStack_, terminated, regs,
                 isReady, topblock, seen, count_, client>>

-----------------------------------------------------------------------------
(* BDV_Server_Object::maintenanceThread, with scanWallets *)

(* Mutant: only the new top is read. *)
ScannedTopOnly(notif) == {notif.newTop}

Scanned(notif) == notif.prevTop .. notif.newTop

ProcessNotification ==
  /\ tID_ = "running" /\ ~terminated /\ notificationStack_ # << >>
  /\ notificationStack_' = Tail(notificationStack_)
  /\ IF isReady
     THEN LET n == Head(notificationStack_)
          IN  /\ seen' = seen \union Scanned(n)
              /\ cbStack_' = Append(cbStack_, [order |-> "NewBlock", height |-> n.newTop])
     ELSE UNCHANGED <<seen, cbStack_>>
  /\ UNCHANGED <<chain, BDVs_, unreg, initT_, tID_, terminated, regs, isReady,
                 topblock, count_, client>>

MaintenanceEnds ==
  /\ tID_ = "running" /\ terminated
  /\ tID_' = "ended"
  /\ cbStack_' = Append(cbStack_, [order |-> "terminate", height |-> 0])
  /\ UNCHANGED <<chain, BDVs_, unreg, initT_, notificationStack_, terminated, regs,
                 isReady, topblock, seen, count_, client>>

-----------------------------------------------------------------------------
(* registerCallback and SocketCallback::respond, and what remoteLoop makes *)
(* of the answer.  The request holds mu_ while it waits.                   *)
AskExpired ==
  /\ alive /\ BDVs_ /\ poll = "idle" /\ count_ + 1 >= ExpireCount
  /\ count_' = 0
  /\ UNCHANGED <<chain, BDVs_, unreg, initT_, tID_, notificationStack_, terminated, regs,
                 isReady, topblock, seen, cbStack_, client>>

Ask ==
  /\ alive /\ BDVs_ /\ poll = "idle" /\ count_ + 1 < ExpireCount
  /\ count_' = 0
  /\ IF command = "waitOnBDV" /\ isReady
     THEN clientTop' = top /\ command' = "getStatus" /\ UNCHANGED poll
     ELSE poll' = "waiting" /\ UNCHANGED <<command, clientTop>>
  /\ UNCHANGED <<chain, BDVs_, unreg, initT_, tID_, notificationStack_, terminated, regs,
                 isReady, topblock, seen, cbStack_, alive>>

(* Mutant: the first height wins. *)
HeightOfFirst(blocks, ready) == IF blocks # << >> THEN Head(blocks).height ELSE Last(ready).height

(* The heights of NewBlock are consolidated and put behind the rest. *)
HeightOf(blocks, ready) ==
  IF blocks # << >> THEN Max({o.height : o \in ToSet(blocks)}) ELSE Last(ready).height

Answer ==
  /\ poll = "waiting" /\ cbStack_ # << >>
  /\ cbStack_' = << >>
  /\ count_' = 0
  /\ LET Of(order) == SelectSeq(cbStack_, LAMBDA o : o.order = order)
     IN  IF Of("terminate") # << >>
         THEN poll' = "ended" /\ UNCHANGED <<command, clientTop>>
         ELSE /\ poll' = "idle"
              /\ clientTop' = HeightOf(Of("NewBlock"), Of("BDM_Ready"))
              /\ command' = IF Of("BDM_Ready") # << >> THEN "getStatus" ELSE command
  /\ UNCHANGED <<chain, BDVs_, unreg, initT_, tID_, notificationStack_, terminated,
                 regs, isReady, topblock, seen, alive>>

AnswerContinue ==
  /\ poll = "waiting" /\ cbStack_ = << >>
  /\ poll' = "idle"
  /\ count_' = 0
  /\ UNCHANGED <<chain, BDVs_, unreg, initT_, tID_, notificationStack_, terminated,
                 regs, isReady, topblock, seen, cbStack_, command, clientTop, alive>>

(* What it is told after this, or knew, does not matter. *)
ClientLeaves ==
  /\ alive /\ poll # "waiting"
  /\ alive' = FALSE
  /\ poll' = "ended" /\ command' = "waitOnBDV" /\ clientTop' = 0
  /\ UNCHANGED <<chain, BDVs_, unreg, initT_, tID_, notificationStack_, terminated, regs,
                 isReady, topblock, seen, cbStack_, count_>>

-----------------------------------------------------------------------------
(* Clients::garbageCollectorThread, which runs at least every 60 seconds,  *)
(* with isValid; Clients::unregisterBDV, by it or by the client.           *)
CollectGarbage ==
  /\ BDVs_ /\ unreg["gc"] = "none" /\ poll # "waiting"
  /\ count_' = count_ + 1
  /\ unreg' = IF count_' >= ExpireCount THEN [unreg EXCEPT !["gc"] = "erase"] ELSE unreg
  /\ UNCHANGED <<chain, BDVs_, initT_, tID_, notificationStack_, terminated, regs,
                 isReady, topblock, seen, cbStack_, client>>

ClientUnregisters ==
  /\ alive /\ BDVs_ /\ user = None /\ unreg["client"] = "none"
  /\ unreg' = [unreg EXCEPT !["client"] = "erase"]
  /\ UNCHANGED <<chain, BDVs_, initT_, tID_, notificationStack_, terminated, regs,
                 isReady, topblock, seen, cbStack_, count_, client>>

(* haltThreads: once the threads are joined they are not joinable. *)
Joined == \E t \in Unregisters : unreg[t] = "done"

(* Mutant: the stack is not terminated. *)
EraseOnly(t) ==
  /\ unreg[t] = "erase"
  /\ unreg' = [unreg EXCEPT ![t] = IF Joined THEN "done" ELSE "join"]
  /\ BDVs_' = FALSE
  /\ UNCHANGED <<chain, initT_, tID_, notificationStack_, terminated, regs, isReady, topblock,
                 seen, cbStack_, count_, client>>

EraseAndHalt(t) ==
  /\ unreg[t] = "erase"
  /\ unreg' = [unreg EXCEPT ![t] = IF Joined THEN "done" ELSE "join"]
  /\ BDVs_' = FALSE
  /\ terminated' = TRUE
  /\ notificationStack_' = << >>
  /\ UNCHANGED <<chain, initT_, tID_, regs, isReady, topblock, seen, cbStack_, count_, client>>

(* Two threads that join the same ones: undefined, so nothing follows. *)
DoubleJoin == \A t \in Unregisters : unreg[t] = "join"

Stopped == initT_ \in {"none", "ended"} /\ tID_ \in {"none", "ended"}

Join(t) ==
  /\ unreg[t] = "join" /\ ~DoubleJoin /\ Stopped
  /\ unreg' = [unreg EXCEPT ![t] = "done"]
  /\ UNCHANGED <<chain, BDVs_, initT_, tID_, notificationStack_, terminated, regs,
                 isReady, topblock, seen, cbStack_, count_, client>>

-----------------------------------------------------------------------------
InitThread == InitTakes \/ InitRegisters \/ InitScans \/ InitSetsReady
                \/ InitReadsTop \/ InitReports

Maintenance == ProcessNotification \/ MaintenanceEnds

Callbacks == AskExpired \/ Ask \/ Answer \/ AnswerContinue

Unregister(t) == EraseAndHalt(t) \/ Join(t)

Next ==
  \/ Organize \/ Notify
  \/ \E w \in Wallets : RegisterWallet(w)
  \/ SaveWallet \/ GoOnline \/ InitThread \/ Maintenance
  \/ Callbacks \/ ClientLeaves
  \/ CollectGarbage \/ ClientUnregisters
  \/ \E t \in Unregisters : Unregister(t)

Spec == Init /\ [][Next]_vars

(* The threads run on, and a client that is there asks again and again,    *)
(* at times before the garbage collector, with its 60 seconds, has counted *)
(* it out; nothing makes it register, go online or leave.                  *)
FairSpec ==
  /\ Spec
  /\ WF_vars(Notify) /\ WF_vars(SaveWallet)
  /\ WF_vars(InitThread) /\ WF_vars(Maintenance) /\ WF_vars(Callbacks) /\ SF_vars(Ask)
  /\ WF_vars(CollectGarbage)
  /\ \A t \in Unregisters : WF_vars(Unregister(t))

-----------------------------------------------------------------------------
(* Properties *)

(* The wallet was saved when init no longer looks at the map: the window   *)
(* the comment at line 1569 asks about.                                    *)
LateWallet(w) == w \in wltRegMap_ /\ initT_ \notin {"none", "loop", "batch"}

(* A wallet that the client has registered is registered with the viewer   *)
(* once it is online, however the request and init interleave, outside     *)
(* that window (registerWallet, init).                                     *)
WalletsKept ==
  \A w \in Wallets :
    (w \in asked) ~> (w \in wallets \/ LateWallet(w) \/ initT_ = "none" \/ ~BDVs_)

(* A block above the height that init has reported is read by the viewer's *)
(* wallets: maintenanceThread skips notifications only up to that height,  *)
(* for what is organized after the promise is notified after it.           *)
BlocksScanned ==
  \A b \in 1 .. MaxBlocks :
    (initT_ = "ended" /\ topblock < b /\ b <= top) ~> (b \in seen \/ ~BDVs_)

(* A client that keeps asking is told of every height that comes in while  *)
(* it is online, by BDM_Ready or by NewBlock, whatever part of the answers *)
(* is consolidated, skipped or given ahead of the callbacks on the stack   *)
(* (respond).  That it is told so once: init's report may come late and    *)
(* take it back to an older height until the next block.                   *)
TopReachesClient ==
  \A b \in 1 .. MaxBlocks :
    (initT_ # "none" /\ db < b /\ b <= top) ~> (clientTop >= b \/ ~alive \/ ~BDVs_)

(* The viewer of a client that has left or unregistered is dropped and its *)
(* threads end, unless the garbage collector and the client both found it  *)
(* in the map and join its threads at once (unregisterBDV, haltThreads).   *)
Dropped == (~alive \/ unreg["client"] # "none") ~> (Joined \/ DoubleJoin)
=============================================================================
