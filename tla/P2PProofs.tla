------------------------------ MODULE P2PProofs -----------------------------
(***************************************************************************)
(* The connection to the node, the shutdown and the broadcasts, for any    *)
(* number of connections, blocks, broadcasts and fetch threads.            *)
(*                                                                         *)
(* Of the link there are three invariants, each inductive by itself: the   *)
(* order of the shutdown (Ordered), the way of the main thread's callback  *)
(* (Carried), and, where the system gives no descriptor out twice, what    *)
(* belongs to a connection (Apart).                                        *)
(*                                                                         *)
(* That of the broadcasts is IInv.  SuccessIsTrue is not inductive: the    *)
(* status is read two steps after the promise.  Status says what each      *)
(* stage knows of the pair; EntriesOwned is carried by Holds, which ties   *)
(* an entry in the map to the thread that has to remove it.                *)
(***************************************************************************)
EXTENDS NodeLink, Broadcast, TLAPS

(* A leaf that names no prover is for Zenon, and for SMT if Zenon fails. *)
USE ZenonT(10), SMTT(60)

(* An entry of a longer or shorter queue was in the queue, or was added. *)
LEMMA Appended ==
  ASSUME NEW S, NEW s \in Seq(S), NEW e \in S
  PROVE  /\ Append(s, e) \in Seq(S)
         /\ \A i \in DOMAIN Append(s, e) :
              Append(s, e)[i] = e \/ (i \in DOMAIN s /\ Append(s, e)[i] = s[i])
  BY SMTT(60)

LEMMA Taken ==
  ASSUME NEW S, NEW s \in Seq(S), s # << >>
  PROVE  /\ Head(s) \in S /\ Tail(s) \in Seq(S)
         /\ \A i \in DOMAIN Tail(s) : i + 1 \in DOMAIN s /\ Tail(s)[i] = s[i + 1]
  BY SMTT(60)

-----------------------------------------------------------------------------
(* The ZC container is shut down only when the main thread has ended. *)
Ordered == PurgeIsServed /\ (parser # "on" => main = "ended")

LEMMA OrderedNext == Ordered /\ [LinkNext]_linkVars => Ordered'
  <1> SUFFICES ASSUME Ordered, [LinkNext]_linkVars
               PROVE  Ordered'
    OBVIOUS
  <1> USE DEF Ordered, PurgeIsServed
  <1>1. CASE MainThread
    BY <1>1 DEF MainThread, InitialSync, TestNode, RegisterLambda, UpdateChain, GetPurge,
       GetNewBlocks, After
  <1>2. CASE ZcThreads
    BY <1>2 DEF ZcThreads, Purge, ParserEnds
  <1>3. CASE Shutdown
    BY <1>3 DEF Shutdown, ShutCloses, ShutDrains, ShutCalls, ShutCompletes, ShutJoins, mainVars
  <1>4. CASE UNCHANGED <<main, purge, parser>>
    BY <1>4
  <1>5. ConnectLoop => UNCHANGED <<main, purge, parser>>
    BY ZenonT(60) DEF ConnectLoop, NewConnection, LoopEnds, TestRun, OpenSocket, StartThreads,
       SendVersion, GetVerack, JoinProcess, mainVars
  <1>6. Process => UNCHANGED <<main, purge, parser>>
    BY DEF Process, ProcessVerack, ProcessInv, ProcessEnds, InvBlockPops, InvBlockCalls, mainVars
  <1>7. ShutStores \/ NodeMines \/ FetchEnds => UNCHANGED <<main, purge, parser>>
    BY DEF ShutStores, NodeMines, FetchEnds, mainVars
  <1>8. ASSUME NEW c \in Conns, Reader(c) \/ NodeAnswers(c) \/ NodeCloses(c)
        PROVE  UNCHANGED <<main, purge, parser>>
    BY <1>8 DEF Reader, ReadData, ReadEnds, NodeAnswers, NodeCloses, mainVars
  <1> QED BY <1>1, <1>2, <1>3, <1>4, <1>5, <1>6, <1>7, <1>8 DEF LinkNext, linkVars, mainVars

(* The main thread never waits for a purge that nobody will answer, at     *)
(* whatever point of its loop the shutdown comes (updateChainLambda, the   *)
(* order of Clients::shutdown).                                            *)
THEOREM PurgeHolds == LinkSpec => []PurgeIsServed
  <1>1. LinkInit => Ordered
    BY DEF LinkInit, Ordered, PurgeIsServed
  <1>2. Ordered => PurgeIsServed
    BY DEF Ordered
  <1> QED BY <1>1, <1>2, OrderedNext, PTL DEF LinkSpec

-----------------------------------------------------------------------------
(* From the registration of its callback until it is called, the main      *)
(* thread's callback is in invBlockLambdas_ or in the hands of a thread    *)
(* that will call it; there is never more than the one, and a thread that  *)
(* has it is on its way to the call.                                       *)
CallbackCarried ==
  /\ main \in {"update", "purge", "wait"} /\ newBlocksFuture = "unset" => lambda \/ held # "none"
  /\ held = "proc" => proc = "call"
  /\ held = "shut" => shut = "call"

Carried ==
  /\ CallbackCarried
  /\ loop \in {"top", "open", "connect", "start", "ended"} => proc = "ended"
  /\ lambda \in BOOLEAN /\ held \in {"none", "proc", "shut"}
  /\ lambda => held = "none"
  /\ lambda \/ held # "none" => main \in {"update", "purge", "wait"} /\ newBlocksFuture = "unset"

LEMMA CarriedNext == Carried /\ [LinkNext]_linkVars => Carried'
  <1> SUFFICES ASSUME Carried, [LinkNext]_linkVars
               PROVE  Carried'
    OBVIOUS
  <1> USE DEF Carried, CallbackCarried
  <1>1. CASE MainThread
    <2>1. CASE RegisterLambda
      BY <2>1 DEF RegisterLambda, After
    <2>2. CASE GetNewBlocks
      BY <2>2 DEF GetNewBlocks, callbacks
    <2>3. CASE InitialSync \/ TestNode
      BY <2>3, SMTT(60) DEF InitialSync, TestNode, After, callbacks
    <2>4. CASE UpdateChain \/ GetPurge
      BY <2>4, SMTT(60) DEF UpdateChain, GetPurge, After, callbacks
    <2> QED BY <1>1, <2>1, <2>2, <2>3, <2>4 DEF MainThread
  <1>2. CASE Process
    <2>1. CASE InvBlockPops
      BY <2>1, ZenonT(60) DEF InvBlockPops, PopLambdas, mainVars
    <2>2. CASE InvBlockCalls
      BY <2>2 DEF InvBlockCalls, CallLambdas, mainVars
    <2>3. CASE ProcessVerack \/ ProcessInv \/ ProcessEnds
      BY <2>3, SMTT(60) DEF ProcessVerack, ProcessInv, ProcessEnds, mainVars, callbacks
    <2> QED BY <1>2, <2>1, <2>2, <2>3 DEF Process
  <1>3. CASE Shutdown \/ ShutStores
    <2>1. CASE ShutDrains
      BY <2>1, ZenonT(60) DEF ShutDrains, Drain, PopLambdas, mainVars
    <2>2. CASE ShutCalls
      BY <2>2 DEF ShutCalls, CallLambdas, mainVars
    <2>3. CASE ShutStores \/ ShutCloses \/ ShutCompletes \/ ShutJoins
      BY <2>3, SMTT(60) DEF ShutStores, ShutCloses, ShutCompletes, ShutJoins, mainVars, callbacks
    <2> QED BY <1>3, <2>1, <2>2, <2>3 DEF Shutdown
  <1>4. CASE ConnectLoop
    <2>1. UNCHANGED <<callbacks, main, shut>> /\ (proc' = proc \/ loop = "start")
      BY <1>4, ZenonT(60) DEF ConnectLoop, NewConnection, LoopEnds, TestRun, OpenSocket,
         StartThreads, SendVersion, GetVerack, JoinProcess, mainVars
    <2>2. \/ loop' \in {"send", "verack", "join"}
          \/ /\ loop \in {"top", "open", "connect", "start", "ended"} \/ proc = "ended"
             /\ proc' = proc
      BY <1>4, ZenonT(60) DEF ConnectLoop, NewConnection, LoopEnds, TestRun, OpenSocket,
         StartThreads, SendVersion, GetVerack, JoinProcess
    <2> QED BY <2>1, <2>2 DEF callbacks
  <1>5. CASE UNCHANGED <<callbacks, main, proc, shut, loop>>
    BY <1>5 DEF callbacks
  <1>6. ZcThreads \/ NodeMines \/ FetchEnds => UNCHANGED <<callbacks, main, proc, shut, loop>>
    BY DEF ZcThreads, Purge, ParserEnds, NodeMines, FetchEnds, mainVars
  <1>7. ASSUME NEW c \in Conns, Reader(c) \/ NodeAnswers(c) \/ NodeCloses(c)
        PROVE  UNCHANGED <<callbacks, main, proc, shut, loop>>
    BY <1>7 DEF Reader, ReadData, ReadEnds, NodeAnswers, NodeCloses, mainVars
  <1> QED BY <1>1, <1>2, <1>3, <1>4, <1>5, <1>6, <1>7 DEF LinkNext, linkVars, mainVars

(* The callback of the main thread is never lost between the thread that   *)
(* takes it out and the call, also when the shutdown takes what the        *)
(* process thread did not (processInvBlock, 1193-1209; shutdown,           *)
(* 1431-1446).                                                             *)
THEOREM CallbackHolds == LinkSpec => []CallbackCarried
  <1>1. LinkInit => Carried
    BY ZenonT(60) DEF LinkInit, Carried, CallbackCarried
  <1>2. Carried => CallbackCarried
    BY DEF Carried
  <1> QED BY <1>1, <1>2, CarriedNext, PTL DEF LinkSpec

-----------------------------------------------------------------------------
(* What a broadcast tells its client, and what it leaves behind in the maps. *)

BroadcastPC == {"idle", "watch", "payload", "inv", "send", "erase", "get",
                "unregister", "report", "done"}

GetPC == {"idle", "lookup", "register", "send", "wait", "giveUp", "leave", "done"}

ProcPC == {"pop", "sent", "tx", "mark", "set", "ended"}

TypeOK ==
  /\ broadcast \in [Broadcaster -> BroadcastPC]
  /\ verdict \in [Broadcaster -> {"none", "ok", "error"}]
  /\ sent \in [Broadcaster -> BOOLEAN]
  /\ get \in [Caller -> GetPC]
  /\ gdsPtr \in [Caller -> Gds \cup {None}]
  /\ gds \in [Gds -> [received_ : BOOLEAN, prom_ : {"unset", "tx", "reject"}]]
  /\ getTxCallbackMap_ \in Gds \cup {None}
  /\ getDataPayloadMap_ \in Broadcaster \cup {None}
  /\ process \in [at : ProcPC, of : Gds \cup Broadcaster \cup {None}]
  /\ process.at \in {"tx", "mark", "set"} => process.of \in Gds
  /\ process.at = "sent" => process.of \in Broadcaster

(* A rejected object's status is cleared before its promise is set, and is *)
(* never set again; a broadcast goes on to its report with the status      *)
(* cleared or the promise set.                                             *)
Status ==
  /\ \A g \in Gds : gds[g].prom_ = "reject" => ~gds[g].received_
  /\ process.at = "set" => ~gds[process.of].received_
  /\ \A b \in Broadcaster :
       /\ broadcast[b] \in {"erase", "unregister"} => ~gds[Watch(b)].received_
       /\ broadcast[b] = "report" /\ gds[Watch(b)].received_ => gds[Watch(b)].prom_ = "tx"

(* A thread in getTx holds an object, the one it registered itself if that *)
(* is the entry in the map; the thread a broadcast starts is not there     *)
(* before the broadcast starts it.                                         *)
Holds ==
  /\ \A c \in Caller :
       /\ get[c] = "register" => gdsPtr[c] = Own(c)
       /\ get[c] \in {"send", "wait", "giveUp", "leave"} => gdsPtr[c] \in Gds
       /\ getTxCallbackMap_ = Own(c) => gdsPtr[c] = Own(c)
  /\ \A b \in Broadcaster :
       broadcast[b] \in {"idle", "watch", "payload", "inv", "send"} => get[b] = "idle"

IInv == TypeOK /\ Status /\ Holds /\ SuccessIsTrue /\ EntriesOwned

-----------------------------------------------------------------------------
(* The objects of different threads are different, and no entry is none. *)
LEMMA Objects ==
  /\ \A b \in Broadcaster : Watch(b) \in Gds /\ Watch(b) # None /\ b \in Caller
  /\ \A c \in Caller : Own(c) \in Gds /\ Own(c) # None
  /\ \A a, b \in Broadcaster : Watch(a) = Watch(b) => a = b
  /\ \A c, d \in Caller : Own(c) = Own(d) => c = d
  /\ \A b \in Broadcaster, c \in Caller : Watch(b) # Own(c)
  /\ None \notin Gds /\ None \notin Broadcaster
  BY NoObjectAssumption, BroadcastAssumption DEF Gds, Watch, Own, Caller

(* setStatus(false) on one object touches no promise and no other object. *)
LEMMA Clearing ==
  ASSUME TypeOK, NEW x \in Gds, gds' = [gds EXCEPT ![x].received_ = FALSE]
  PROVE  /\ ~gds'[x].received_
         /\ \A g \in Gds : gds'[g].prom_ = gds[g].prom_ /\ (gds'[g].received_ => gds[g].received_)
  <1>1. gds \in [Gds -> [received_ : BOOLEAN, prom_ : {"unset", "tx", "reject"}]]
    BY DEF TypeOK
  <1>2. gds'[x] = [gds[x] EXCEPT !.received_ = FALSE] /\ \A g \in Gds : g # x => gds'[g] = gds[g]
    BY <1>1
  <1>3. ~gds'[x].received_ /\ gds'[x].prom_ = gds[x].prom_
    BY <1>1, <1>2
  <1> QED BY <1>2, <1>3

LEMMA InitInv == Init => IInv
  BY Objects, SMTT(60) DEF Init, IInv, TypeOK, Status, Holds, SuccessIsTrue, EntriesOwned,
     GetDataStatus, Idle, BroadcastPC, GetPC, ProcPC

LEMMA CallInv ==
  ASSUME IInv, NEW b \in Broadcaster, Call(b)
  PROVE  IInv'
  <1> USE Objects DEF IInv, TypeOK, calls, gets, maps, wires, BroadcastPC, GetPC, ProcPC, Call,
                      Goto
  <1>1. TypeOK'
    BY ZenonT(60)
  <1>2. Status'
    <2>1. /\ broadcast'[b] \in {"done", "watch"}
          /\ \A a \in Broadcaster : a # b => broadcast'[a] = broadcast[a]
      OBVIOUS
    <2> QED BY <2>1 DEF Status
  <1>3. Holds'
    BY SMTT(60) DEF Status, Holds, EntriesOwned
  <1>4. SuccessIsTrue'
    BY DEF Status, SuccessIsTrue
  <1>5. EntriesOwned'
    <2>1. /\ broadcast'[b] \in {"done", "watch"}
          /\ \A a \in Broadcaster : a # b => broadcast'[a] = broadcast[a]
      OBVIOUS
    <2> QED BY <2>1 DEF EntriesOwned
  <1> QED BY <1>1, <1>2, <1>3, <1>4, <1>5

LEMMA RegisterInv ==
  ASSUME IInv, NEW b \in Broadcaster, Register(b)
  PROVE  IInv'
  <1> USE Objects DEF IInv, TypeOK, calls, gets, maps, wires, BroadcastPC, GetPC, ProcPC,
                      Register, Goto, Inserted
  <1>1. TypeOK'
    OBVIOUS
  <1>2. Status'
    BY DEF Status
  <1>3. Holds'
    <2>1. \A c \in Caller : getTxCallbackMap_' = Own(c) => getTxCallbackMap_ = Own(c)
      OBVIOUS
    <2> QED BY <2>1 DEF Holds
  <1>4. SuccessIsTrue'
    BY DEF Status, SuccessIsTrue
  <1>5. EntriesOwned'
    <2>1. \A c \in Caller : getTxCallbackMap_' = Own(c) => getTxCallbackMap_ = Own(c)
      OBVIOUS
    <2>2. \A a \in Broadcaster :
            getTxCallbackMap_' = Watch(a) => a = b \/ getTxCallbackMap_ = Watch(a)
      OBVIOUS
    <2>3. /\ broadcast'[b] \in {"payload"}
          /\ \A a \in Broadcaster : a # b => broadcast'[a] = broadcast[a]
      OBVIOUS
    <2> QED BY <2>1, <2>2, <2>3 DEF EntriesOwned
  <1> QED BY <1>1, <1>2, <1>3, <1>4, <1>5

LEMMA RegisterPayloadInv ==
  ASSUME IInv, NEW b \in Broadcaster, RegisterPayload(b)
  PROVE  IInv'
  <1> USE Objects DEF IInv, TypeOK, calls, gets, maps, wires, BroadcastPC, GetPC, ProcPC,
                      RegisterPayload, Goto, Inserted
  <1>1. TypeOK'
    OBVIOUS
  <1>2. Status'
    BY DEF Status
  <1>3. Holds'
    BY DEF Status, Holds, EntriesOwned
  <1>4. SuccessIsTrue'
    BY DEF Status, SuccessIsTrue
  <1>5. EntriesOwned'
    BY DEF Holds, EntriesOwned
  <1> QED BY <1>1, <1>2, <1>3, <1>4, <1>5

LEMMA SendInvInv ==
  ASSUME IInv, NEW b \in Broadcaster, SendInv(b)
  PROVE  IInv'
  <1> USE Objects DEF IInv, TypeOK, calls, gets, maps, wires, BroadcastPC, GetPC, ProcPC,
                      SendInv, Goto
  <1>1. TypeOK'
    OBVIOUS
  <1>2. Status'
    BY DEF Status
  <1>3. Holds'
    BY DEF Status, Holds, EntriesOwned
  <1>4. SuccessIsTrue'
    BY DEF Status, SuccessIsTrue
  <1>5. EntriesOwned'
    BY DEF Holds, EntriesOwned
  <1> QED BY <1>1, <1>2, <1>3, <1>4, <1>5

LEMMA SendTimesOutInv ==
  ASSUME IInv, NEW b \in Broadcaster, SendTimesOut(b)
  PROVE  IInv'
  <1> USE Objects DEF IInv, TypeOK, calls, gets, maps, wires, BroadcastPC, GetPC, ProcPC,
                      SendTimesOut, TimesOut, Goto
  <1>1. TypeOK'
    BY ZenonT(60)
  <1>2. Status'
    <2>1. /\ \A g \in Gds : gds'[g].prom_ = gds[g].prom_ /\ (gds'[g].received_ => gds[g].received_)
          /\ ~gds'[Watch(b)].received_
      BY Clearing
    <2>2. /\ broadcast'[b] \in {"erase"}
          /\ \A a \in Broadcaster : a # b => broadcast'[a] = broadcast[a]
      OBVIOUS
    <2> QED BY <2>1, <2>2 DEF Status
  <1>3. Holds'
    BY DEF Status, Holds, EntriesOwned
  <1>4. SuccessIsTrue'
    BY DEF Status, SuccessIsTrue
  <1>5. EntriesOwned'
    BY DEF Holds, EntriesOwned
  <1> QED BY <1>1, <1>2, <1>3, <1>4, <1>5

LEMMA ErasePayloadInv ==
  ASSUME IInv, NEW b \in Broadcaster, ErasePayload(b)
  PROVE  IInv'
  <1> USE Objects DEF IInv, TypeOK, calls, gets, maps, wires, BroadcastPC, GetPC, ProcPC,
                      ErasePayload, Goto
  <1>1. TypeOK'
    BY ZenonT(60)
  <1>2. Status'
    BY SMTT(60) DEF Status
  <1>3. Holds'
    <2>1. broadcast'[b] \in {"get", "unregister"} /\ get'[b] \in {get[b], "lookup"}
      OBVIOUS
    <2>2. \A a \in Broadcaster : a # b => broadcast'[a] = broadcast[a]
      OBVIOUS
    <2>3. \A c \in Caller : c # b => get'[c] = get[c]
      OBVIOUS
    <2>4. UNCHANGED <<gdsPtr, getTxCallbackMap_>>
      OBVIOUS
    <2> HIDE DEF ErasePayload
    <2> QED BY <2>1, <2>2, <2>3, <2>4 DEF Holds
  <1>4. SuccessIsTrue'
    BY DEF Status, SuccessIsTrue
  <1>5. EntriesOwned'
    <2>1. /\ broadcast'[b] \in {"get", "unregister"}
          /\ get'[b] = get[b] \/ get[b] = "idle"
      BY DEF Holds
    <2>2. \A a \in Broadcaster : a # b => broadcast'[a] = broadcast[a]
      OBVIOUS
    <2>3. \A c \in Caller : c # b => get'[c] = get[c]
      OBVIOUS
    <2>4. getTxCallbackMap_' = getTxCallbackMap_ /\ \A a \in Broadcaster : getDataPayloadMap_' # a
      OBVIOUS
    <2> QED BY <2>1, <2>2, <2>3, <2>4, ZenonT(60) DEF EntriesOwned
  <1> QED BY <1>1, <1>2, <1>3, <1>4, <1>5

LEMMA GetTimesOutInv ==
  ASSUME IInv, NEW b \in Broadcaster, GetTimesOut(b)
  PROVE  IInv'
  <1> USE Objects DEF IInv, TypeOK, calls, gets, maps, wires, BroadcastPC, GetPC, ProcPC,
                      GetTimesOut, TimesOut, Goto
  <1>1. TypeOK'
    BY ZenonT(60)
  <1>2. Status'
    BY DEF Status
  <1>3. Holds'
    BY DEF Status, Holds, EntriesOwned
  <1>4. SuccessIsTrue'
    BY DEF Status, SuccessIsTrue
  <1>5. EntriesOwned'
    BY DEF Holds, EntriesOwned
  <1> QED BY <1>1, <1>2, <1>3, <1>4, <1>5

LEMMA UnregisterInv ==
  ASSUME IInv, NEW b \in Broadcaster, Unregister(b)
  PROVE  IInv'
  <1> USE Objects DEF IInv, TypeOK, calls, gets, maps, wires, BroadcastPC, GetPC, ProcPC,
                      Unregister, Goto
  <1>1. TypeOK'
    OBVIOUS
  <1>2. Status'
    BY DEF Status
  <1>3. Holds'
    BY DEF Status, Holds, EntriesOwned
  <1>4. SuccessIsTrue'
    BY DEF Status, SuccessIsTrue
  <1>5. EntriesOwned'
    BY DEF Holds, EntriesOwned
  <1> QED BY <1>1, <1>2, <1>3, <1>4, <1>5

LEMMA ReportInv ==
  ASSUME IInv, NEW b \in Broadcaster, Report(b)
  PROVE  IInv'
  <1> USE Objects DEF IInv, TypeOK, calls, gets, maps, wires, BroadcastPC, GetPC, ProcPC,
                      Report, Goto
  <1>1. TypeOK'
    OBVIOUS
  <1>2. Status'
    BY DEF Status
  <1>3. Holds'
    BY DEF Status, Holds, EntriesOwned
  <1>4. SuccessIsTrue'
    BY DEF Status, SuccessIsTrue
  <1>5. EntriesOwned'
    BY DEF Holds, EntriesOwned
  <1> QED BY <1>1, <1>2, <1>3, <1>4, <1>5

LEMMA LookupInv ==
  ASSUME IInv, NEW c \in Caller, Lookup(c)
  PROVE  IInv'
  <1> USE Objects DEF IInv, TypeOK, calls, gets, maps, wires, BroadcastPC, GetPC, ProcPC,
                      Lookup, Return
  <1>1. TypeOK'
    BY ZenonT(60)
  <1>2. Status'
    BY DEF Status
  <1>3. Holds'
    <2>1. /\ get'[c] \in {"register", "send", "done"}
          /\ get'[c] = "register" => gdsPtr'[c] = Own(c)
          /\ gdsPtr'[c] \in Gds
      OBVIOUS
    <2>2. \A d \in Caller : d # c => get'[d] = get[d] /\ gdsPtr'[d] = gdsPtr[d]
      OBVIOUS
    <2>3. getTxCallbackMap_ # Own(c)
      BY DEF EntriesOwned
    <2>4. \A b \in Broadcaster : get[b] = "idle" => b # c
      OBVIOUS
    <2> QED BY <2>1, <2>2, <2>3, <2>4 DEF Holds
  <1>4. SuccessIsTrue'
    BY DEF Status, SuccessIsTrue
  <1>5. EntriesOwned'
    BY DEF Holds, EntriesOwned
  <1> QED BY <1>1, <1>2, <1>3, <1>4, <1>5

LEMMA RegisterOwnInv ==
  ASSUME IInv, NEW c \in Caller, RegisterOwn(c)
  PROVE  IInv'
  <1> USE Objects DEF IInv, TypeOK, calls, gets, maps, wires, BroadcastPC, GetPC, ProcPC,
                      RegisterOwn, Inserted
  <1>1. TypeOK'
    OBVIOUS
  <1>2. Status'
    BY DEF Status
  <1>3. Holds'
    BY SMTT(60) DEF Status, Holds, EntriesOwned
  <1>4. SuccessIsTrue'
    BY DEF Status, SuccessIsTrue
  <1>5. EntriesOwned'
    BY SMTT(60) DEF Holds, EntriesOwned
  <1> QED BY <1>1, <1>2, <1>3, <1>4, <1>5

LEMMA SendGetDataInv ==
  ASSUME IInv, NEW c \in Caller, SendGetData(c)
  PROVE  IInv'
  <1> USE Objects DEF IInv, TypeOK, calls, gets, maps, wires, BroadcastPC, GetPC, ProcPC,
                      SendGetData
  <1>1. TypeOK'
    OBVIOUS
  <1>2. Status'
    BY DEF Status
  <1>3. Holds'
    BY DEF Status, Holds, EntriesOwned
  <1>4. SuccessIsTrue'
    BY DEF Status, SuccessIsTrue
  <1>5. EntriesOwned'
    BY DEF Holds, EntriesOwned
  <1> QED BY <1>1, <1>2, <1>3, <1>4, <1>5

LEMMA WaitTimesOutInv ==
  ASSUME IInv, NEW c \in Caller, WaitTimesOut(c)
  PROVE  IInv'
  <1> USE Objects DEF IInv, TypeOK, calls, gets, maps, wires, BroadcastPC, GetPC, ProcPC,
                      WaitTimesOut
  <1>1. TypeOK'
    OBVIOUS
  <1>2. Status'
    BY DEF Status
  <1>3. Holds'
    BY DEF Status, Holds, EntriesOwned
  <1>4. SuccessIsTrue'
    BY DEF Status, SuccessIsTrue
  <1>5. EntriesOwned'
    BY DEF Holds, EntriesOwned
  <1> QED BY <1>1, <1>2, <1>3, <1>4, <1>5

LEMMA GiveUpInv ==
  ASSUME IInv, NEW c \in Caller, GiveUp(c)
  PROVE  IInv'
  <1> USE Objects DEF IInv, TypeOK, calls, gets, maps, wires, BroadcastPC, GetPC, ProcPC, GiveUp
  <1>1. TypeOK'
    BY ZenonT(60)
  <1>2. Status'
    <2>1. gdsPtr[c] \in Gds
      BY DEF Holds
    <2>2. \A g \in Gds : gds'[g].prom_ = gds[g].prom_ /\ (gds'[g].received_ => gds[g].received_)
      BY <2>1, Clearing
    <2> QED BY <2>2 DEF Status
  <1>3. Holds'
    BY DEF Status, Holds, EntriesOwned
  <1>4. SuccessIsTrue'
    BY DEF Status, SuccessIsTrue
  <1>5. EntriesOwned'
    BY DEF Holds, EntriesOwned
  <1> QED BY <1>1, <1>2, <1>3, <1>4, <1>5

LEMMA LeaveInv ==
  ASSUME IInv, NEW c \in Caller, Leave(c)
  PROVE  IInv'
  <1> USE Objects DEF IInv, TypeOK, calls, gets, maps, wires, BroadcastPC, GetPC, ProcPC, Leave,
                      Return
  <1>1. TypeOK'
    OBVIOUS
  <1>2. Status'
    BY DEF Status
  <1>3. Holds'
    BY DEF Status, Holds, EntriesOwned
  <1>4. SuccessIsTrue'
    BY DEF Status, SuccessIsTrue
  <1>5. EntriesOwned'
    BY DEF Holds, EntriesOwned
  <1> QED BY <1>1, <1>2, <1>3, <1>4, <1>5

LEMMA ProcessPayloadInv ==
  ASSUME IInv, ProcessPayload
  PROVE  IInv'
  <1> USE Objects DEF IInv, TypeOK, calls, gets, maps, wires, BroadcastPC, GetPC, ProcPC,
                      ProcessPayload, Handling, Idle
  <1>1. TypeOK'
    BY ZenonT(60)
  <1>2. Status'
    BY DEF Status
  <1>3. Holds'
    <2>1. get' = get \/ \E f \in Fetcher : get' = [get EXCEPT ![f] = "lookup"]
      OBVIOUS
    <2>2. UNCHANGED <<broadcast, gdsPtr, getTxCallbackMap_>>
      OBVIOUS
    <2> HIDE DEF ProcessPayload
    <2>3. \A c \in Caller : get'[c] = get[c] \/ (get'[c] = "lookup" /\ c \in Fetcher)
      BY <2>1 DEF Caller
    <2> QED BY <2>2, <2>3, BroadcastAssumption DEF Holds
  <1>4. SuccessIsTrue'
    BY DEF Status, SuccessIsTrue
  <1>5. EntriesOwned'
    BY DEF Holds, EntriesOwned
  <1> QED BY <1>1, <1>2, <1>3, <1>4, <1>5

LEMMA SetSentInv ==
  ASSUME IInv, SetSent
  PROVE  IInv'
  <1> USE Objects DEF IInv, TypeOK, calls, gets, maps, wires, BroadcastPC, GetPC, ProcPC,
                      SetSent, Idle
  <1>1. TypeOK'
    OBVIOUS
  <1>2. Status'
    BY DEF Status
  <1>3. Holds'
    BY DEF Status, Holds, EntriesOwned
  <1>4. SuccessIsTrue'
    BY DEF Status, SuccessIsTrue
  <1>5. EntriesOwned'
    BY DEF Holds, EntriesOwned
  <1> QED BY <1>1, <1>2, <1>3, <1>4, <1>5

LEMMA SetTxInv ==
  ASSUME IInv, SetTx
  PROVE  IInv'
  <1> USE Objects DEF IInv, TypeOK, calls, gets, maps, wires, BroadcastPC, GetPC, ProcPC, SetTx,
                      Idle
  <1>1. TypeOK'
    BY SMTT(60)
  <1>2. Status'
    BY SMTT(60) DEF Status
  <1>3. Holds'
    BY DEF Status, Holds, EntriesOwned
  <1>4. SuccessIsTrue'
    BY DEF Status, SuccessIsTrue
  <1>5. EntriesOwned'
    BY DEF Holds, EntriesOwned
  <1> QED BY <1>1, <1>2, <1>3, <1>4, <1>5

LEMMA MarkRejectInv ==
  ASSUME IInv, MarkReject
  PROVE  IInv'
  <1> USE Objects DEF IInv, TypeOK, calls, gets, maps, wires, BroadcastPC, GetPC, ProcPC,
                      MarkReject
  <1>1. TypeOK'
    BY ZenonT(60)
  <1>2. Status'
    <2>1. /\ \A g \in Gds : gds'[g].prom_ = gds[g].prom_ /\ (gds'[g].received_ => gds[g].received_)
          /\ ~gds'[process.of].received_
      BY Clearing
    <2>2. process'.of = process.of
      OBVIOUS
    <2> QED BY <2>1, <2>2 DEF Status
  <1>3. Holds'
    BY DEF Status, Holds, EntriesOwned
  <1>4. SuccessIsTrue'
    BY DEF Status, SuccessIsTrue
  <1>5. EntriesOwned'
    BY DEF Holds, EntriesOwned
  <1> QED BY <1>1, <1>2, <1>3, <1>4, <1>5

LEMMA SetRejectInv ==
  ASSUME IInv, SetReject
  PROVE  IInv'
  <1> USE Objects DEF IInv, TypeOK, calls, gets, maps, wires, BroadcastPC, GetPC, ProcPC,
                      SetReject, Idle
  <1>1. TypeOK'
    BY ZenonT(60)
  <1>2. Status'
    BY SMTT(60) DEF Status
  <1>3. Holds'
    BY DEF Status, Holds, EntriesOwned
  <1>4. SuccessIsTrue'
    BY DEF Status, SuccessIsTrue
  <1>5. EntriesOwned'
    BY DEF Holds, EntriesOwned
  <1> QED BY <1>1, <1>2, <1>3, <1>4, <1>5

(* The connection and the node change no object, no map and no thread but  *)
(* the process thread, which they end or start anew.                       *)
LEMMA LinkInv ==
  ASSUME IInv, LoopStep \/ Node
  PROVE  IInv'
  <1>1. /\ UNCHANGED <<calls, gets, gds, maps>>
        /\ process' \in {process, Idle, [at |-> "ended", of |-> None]}
    BY DEF LoopStep, CloseSocket, UpdateNodeStatus, Reconnect, Node, NodeAsks, NodeAccepts,
       NodeRejects, NodeGives, NodeLearns, NodeLeaves, NodeTakes
  <1>2. UNCHANGED <<broadcast, verdict, sent, get, gdsPtr, getTxCallbackMap_, getDataPayloadMap_>>
    BY <1>1 DEF calls, gets, maps
  <1>3. process' = process \/ process'.at \notin {"tx", "mark", "set", "sent"}
    BY <1>1, SMTT(60) DEF Idle
  <1>4. process' \in [at : ProcPC, of : Gds \cup Broadcaster \cup {None}]
    BY <1>1, SMTT(60) DEF IInv, TypeOK, Idle, ProcPC
  <1>5. TypeOK'
    BY <1>1, <1>2, <1>3, <1>4 DEF IInv, TypeOK
  <1>6. UNCHANGED gds
    BY <1>1
  <1>7. Status'
    BY <1>2, <1>3, <1>6 DEF IInv, Status
  <1>8. Holds'
    BY <1>2, <1>3, <1>6 DEF IInv, Holds
  <1>9. SuccessIsTrue' /\ EntriesOwned'
    BY <1>2, <1>6 DEF IInv, SuccessIsTrue, EntriesOwned
  <1> QED BY <1>5, <1>7, <1>8, <1>9 DEF IInv

LEMMA NextInv == IInv /\ [Next]_vars => IInv'
  <1> SUFFICES ASSUME IInv, [Next]_vars
               PROVE  IInv'
    OBVIOUS
  <1>1. ASSUME NEW b \in Broadcaster, Call(b) \/ BroadcastZC(b)
        PROVE  IInv'
    BY <1>1, CallInv, RegisterInv, RegisterPayloadInv, SendInvInv, SendTimesOutInv,
       ErasePayloadInv, GetTimesOutInv, UnregisterInv, ReportInv DEF BroadcastZC
  <1>2. ASSUME NEW c \in Caller, GetTx(c)
        PROVE  IInv'
    BY <1>2, LookupInv, RegisterOwnInv, SendGetDataInv, WaitTimesOutInv, GiveUpInv, LeaveInv
       DEF GetTx
  <1>3. CASE ProcessThread
    BY <1>3, ProcessPayloadInv, SetSentInv, SetTxInv, MarkRejectInv, SetRejectInv
       DEF ProcessThread
  <1>4. CASE LoopStep \/ Node
    BY <1>4, LinkInv
  <1>5. CASE UNCHANGED vars
    BY <1>5, ZenonT(60)
       DEF vars, calls, gets, maps, IInv, TypeOK, Status, Holds, SuccessIsTrue, EntriesOwned
  <1> QED BY <1>1, <1>2, <1>3, <1>4, <1>5 DEF Next

(* The conjunction that makes the two properties inductive holds of every  *)
(* reachable state.                                                        *)
THEOREM Invariance == Spec => []IInv
  BY InitInv, NextInv, PTL DEF Spec

(* Whatever the order in which answers, rejects and time-outs come, and    *)
(* whoever shares the entry: a client is told of a success only after the  *)
(* node has given the transaction back (broadcastZC, 2156-2175).           *)
THEOREM SuccessHolds == Spec => []SuccessIsTrue
  <1>1. IInv => SuccessIsTrue
    BY DEF IInv
  <1> QED BY <1>1, Invariance, PTL

(* No entry outlives the thread that made it, whoever removes the hash: no *)
(* later broadcast of the transaction finds one it did not make and that   *)
(* nobody will answer.                                                     *)
THEOREM EntriesHold == Spec => []EntriesOwned
  <1>1. IInv => EntriesOwned
    BY DEF IInv
  <1> QED BY <1>1, Invariance, PTL

-----------------------------------------------------------------------------
(* What belongs to a connection. *)

Conn == [fd : Conns \cup {0}, open : BOOLEAN, peer : BOOLEAN,
         version : {"none", "sent", "answered"}, wire : Seq(Nat),
         dataStack : Seq([of : Conns, msg : Nat]), terminated : BOOLEAN,
         reader : {"none", "reading", "done"}]

(* The place of connectLoop, and binSocket_: the descriptor of the current *)
(* connection until it is closed.                                          *)
Loop ==
  /\ cur \in 0 .. MaxConns
  /\ loop \in {"top", "open", "connect", "start", "send", "verack", "join", "ended"}
  /\ loop \notin {"top", "ended"} => cur \in Conns
  /\ binSocket_ \in {0, cur}
  /\ loop \in {"top", "open", "connect"} => binSocket_ = 0
  /\ proc # "ended" => cur \in Conns
  /\ disk \in Nat

(* A connection has its own descriptor or none; one that is not opened yet *)
(* has no reader, and the reader that ends is the one that terminates the  *)
(* stack.                                                                  *)
OwnData(c) ==
  /\ link[c] \in Conn
  /\ link[c].fd \in {0, c} /\ (link[c].open => link[c].fd = c)
  /\ c > cur => link[c].reader = "none" /\ ~link[c].open
  /\ c = cur =>
       /\ loop \in {"open", "connect"} => ~link[c].open
       /\ loop = "start" /\ link[c].open => binSocket_ = c
       /\ loop \in {"open", "connect", "start"} => link[c].reader = "none"
  /\ \A i \in DOMAIN link[c].dataStack : link[c].dataStack[i].of = c
  /\ link[c].terminated => link[c].reader = "done"

Apart == Loop /\ DOMAIN link = Conns /\ \A c \in Conns : OwnData(c)

(* Without reuse of descriptors each belongs to one connection, so that    *)
(* closing one closes at most its own connection.                          *)
LEMMA OwnDescriptor ==
  ASSUME Apart
  PROVE  /\ \A c \in Conns : Having(link[c].fd) \subseteq {c}
         /\ \A c \in Conns : c \in Having(link[c].fd) <=> link[c].open
         /\ Having(binSocket_) \subseteq {cur}
  <1>1. ASSUME NEW c \in Conns, NEW d \in Conns, link[d].open, link[d].fd = link[c].fd
        PROVE  d = c
    BY <1>1, NodeLinkAssumption, SMTT(60) DEF Apart, OwnData, Conns
  <1>2. ASSUME NEW d \in Conns, link[d].open, link[d].fd = binSocket_
        PROVE  d = cur
    BY <1>2, NodeLinkAssumption, SMTT(60) DEF Apart, Loop, OwnData, Conns
  <1> QED BY <1>1, <1>2, ZenonT(60) DEF Having

(* A connection whose reader is started. *)
LEMMA Started ==
  ASSUME NEW l \in Conn, NEW b \in Conns \cup {0}, NEW k,
         k = [l EXCEPT !.fd = b, !.reader = "reading"]
  PROVE  k \in Conn
  BY ZenonT(60) DEF Conn

(* A connection whose reader, stack and descriptor stay, and which may be  *)
(* closed.                                                                 *)
LEMMA Untouched ==
  ASSUME NEW c \in Conns, OwnData(c), link'[c] \in Conn, link'[c].fd = link[c].fd,
         link'[c].open => link[c].open, UNCHANGED <<cur, loop>>,
         link'[c].reader = link[c].reader, link'[c].terminated = link[c].terminated,
         link'[c].dataStack = link[c].dataStack,
         loop = "start" /\ c = cur /\ link'[c].open => binSocket_' = binSocket_
  PROVE  OwnData(c)'
  BY ZenonT(60) DEF OwnData

LEMMA InitApart == LinkInit => Apart
  <1> SUFFICES ASSUME LinkInit
               PROVE  Apart
    OBVIOUS
  <1>1. Unused \in Conn
    BY SMTT(60) DEF Unused, Conn
  <1>2. ASSUME NEW c \in Conns
        PROVE  OwnData(c)
    BY <1>1, NodeLinkAssumption, SMTT(60) DEF LinkInit, OwnData, Unused, Conns
  <1> QED BY <1>2, NodeLinkAssumption, SMTT(60) DEF LinkInit, Apart, Loop

LEMMA LoopApart ==
  ASSUME Apart, NewConnection \/ LoopEnds \/ TestRun \/ GetVerack
  PROVE  Apart'
  <1>1. Loop'
    BY NodeLinkAssumption, SMTT(60)
       DEF Apart, Loop, Conns, NewConnection, LoopEnds, TestRun, GetVerack, connection
  <1>2. link' = link
    BY ZenonT(60) DEF NewConnection, LoopEnds, TestRun, GetVerack, connection
  <1>3. ASSUME NEW c \in Conns
        PROVE  OwnData(c)'
    <2>1. OwnData(c) /\ cur \in Nat /\ c \in Nat
      BY NodeLinkAssumption, SMTT(60) DEF Apart, Loop, Conns
    <2>2. CASE cur' = cur + 1 /\ loop = "top" /\ loop' = "open"
      <3>1. c > cur' => c > cur
        BY <2>1, <2>2, SMTT(60)
      <3>2. c = cur' => c > cur
        BY <2>1, <2>2, SMTT(60)
      <3> QED BY <1>2, <2>1, <2>2, <3>1, <3>2, ZenonT(60) DEF OwnData
    <2>3. CASE /\ UNCHANGED <<cur, binSocket_>>
               /\ \/ loop = "open" /\ loop' \in {"connect", "start"}
                  \/ loop' \in {"ended", "join"}
      BY <1>2, <2>1, <2>3, ZenonT(60) DEF OwnData
    <2> QED BY <2>2, <2>3, ZenonT(60)
               DEF NewConnection, LoopEnds, TestRun, GetVerack, connection
  <1> QED BY <1>1, <1>2, <1>3, ZenonT(60) DEF Apart

LEMMA OpenSocketApart ==
  ASSUME Apart, ~ReuseFd, OpenSocket
  PROVE  Apart'
  <1>1. cur \in Conns /\ binSocket_' = cur /\ loop = "connect" /\ loop' = "start"
    BY ZenonT(60) DEF Apart, Loop, OpenSocket
  <1>2. Loop'
    BY <1>1, ZenonT(60) DEF Apart, Loop, OpenSocket
  <1>3. link' = [link EXCEPT ![cur] = [@ EXCEPT !.fd = cur, !.open = TRUE, !.peer = TRUE]]
    BY ZenonT(60) DEF OpenSocket
  <1>4. ASSUME NEW c \in Conns, c # cur
        PROVE  OwnData(c)'
    <2>1. link'[c] = link[c] /\ cur' = cur
      BY <1>3, <1>4, ZenonT(60) DEF Apart, OpenSocket
    <2> QED BY <1>4, <2>1, SMTT(60) DEF Apart, OwnData
  <1>5. OwnData(cur)'
    <2>1. link'[cur] = [link[cur] EXCEPT !.fd = cur, !.open = TRUE, !.peer = TRUE] /\ cur' = cur
      BY <1>1, <1>3, ZenonT(60) DEF Apart, OpenSocket
    <2>2. link[cur] \in Conn
      BY <1>1, ZenonT(60) DEF Apart, OwnData
    <2>3. /\ link'[cur] \in Conn /\ link'[cur].fd = cur
          /\ link'[cur].reader = link[cur].reader /\ link'[cur].terminated = link[cur].terminated
          /\ link'[cur].dataStack = link[cur].dataStack
      BY <1>1, <2>1, <2>2, ZenonT(60) DEF Conn
    <2>4. /\ link[cur].reader = "none" /\ ~link[cur].terminated /\ cur \in Nat
          /\ \A i \in DOMAIN link[cur].dataStack : link[cur].dataStack[i].of = cur
      BY <1>1, SMTT(60) DEF Apart, OwnData, Conns
    <2>5. ASSUME NEW c, c = cur
          PROVE  OwnData(c)'
      <3>1. ~link'[c].terminated /\ \A i \in DOMAIN link'[c].dataStack : link'[c].dataStack[i].of = c
        BY <2>3, <2>4, <2>5, ZenonT(60)
      <3>2. cur' = c /\ loop' = "start" /\ binSocket_' = c /\ ~(c > cur')
        BY <1>1, <2>1, <2>4, <2>5, SMTT(60)
      <3>3. link'[c] \in Conn /\ link'[c].fd = c /\ link'[c].reader = "none"
        BY <2>3, <2>4, <2>5, ZenonT(60)
      <3> QED BY <3>1, <3>2, <3>3, ZenonT(60) DEF OwnData
    <2> QED BY <2>1, <2>5, ZenonT(60)
  <1> QED BY <1>2, <1>3, <1>4, <1>5, ZenonT(60) DEF Apart, OpenSocket

LEMMA StartThreadsApart ==
  ASSUME Apart, StartThreads
  PROVE  Apart'
  <1>1. cur \in Conns /\ UNCHANGED <<cur, binSocket_>> /\ loop = "start" /\ loop' = "send"
    BY ZenonT(60) DEF Apart, Loop, StartThreads
  <1>2. Loop'
    BY <1>1, ZenonT(60) DEF Apart, Loop, StartThreads
  <1>3. link' = [link EXCEPT ![cur] = [@ EXCEPT !.fd = binSocket_, !.reader = "reading"]]
    BY ZenonT(60) DEF StartThreads
  <1>4. ASSUME NEW c \in Conns, c # cur
        PROVE  OwnData(c)'
    <2>1. link'[c] = link[c]
      BY <1>3, <1>4, ZenonT(60) DEF Apart
    <2> QED BY <1>1, <1>4, <2>1, SMTT(60) DEF Apart, OwnData
  <1>5. OwnData(cur)'
    <2>1. link'[cur] = [link[cur] EXCEPT !.fd = binSocket_, !.reader = "reading"]
      BY <1>1, <1>3, ZenonT(60) DEF Apart
    <2>2. link[cur] \in Conn /\ binSocket_ \in {0, cur}
      BY <1>1, ZenonT(60) DEF Apart, OwnData, Loop
    <2>3. link'[cur] \in Conn
      <3>1. binSocket_ \in Conns \cup {0}
        BY <1>1, <2>2, ZenonT(60)
      <3> QED BY <2>1, <2>2, <3>1, Started, ZenonT(60)
    <2>4. /\ link'[cur].fd = binSocket_ /\ link'[cur].open = link[cur].open
          /\ link'[cur].reader = "reading" /\ link'[cur].terminated = link[cur].terminated
          /\ link'[cur].dataStack = link[cur].dataStack
      BY <2>1, <2>2, ZenonT(60) DEF Conn
    <2>5. /\ ~link[cur].terminated /\ (link[cur].open => binSocket_ = cur)
          /\ \A i \in DOMAIN link[cur].dataStack : link[cur].dataStack[i].of = cur
      BY <1>1, ZenonT(60) DEF Apart, OwnData
    <2> QED BY <1>1, <2>2, <2>3, <2>4, <2>5, SMTT(60) DEF OwnData, Conns
  <1> QED BY <1>1, <1>2, <1>3, <1>4, <1>5, ZenonT(60) DEF Apart

LEMMA SendVersionApart ==
  ASSUME Apart, SendVersion
  PROVE  Apart'
  <1>1. cur \in Conns /\ UNCHANGED <<cur, binSocket_>> /\ loop = "send" /\ loop' \in {"verack", "join"}
    BY ZenonT(60) DEF Apart, Loop, SendVersion
  <1>2. Loop'
    BY <1>1, ZenonT(60) DEF Apart, Loop, SendVersion
  <1>3. link' = link \/ link' = [link EXCEPT ![cur].version = "sent"]
    BY ZenonT(60) DEF SendVersion
  <1>4. ASSUME NEW c \in Conns
        PROVE  OwnData(c)'
    <2>1. link'[c] = link[c] \/ link'[c] = [link[c] EXCEPT !.version = "sent"]
      BY <1>3, ZenonT(60) DEF Apart
    <2>2. link[c] \in Conn
      BY ZenonT(60) DEF Apart, OwnData
    <2>3. /\ link'[c] \in Conn /\ link'[c].fd = link[c].fd /\ link'[c].open = link[c].open
          /\ link'[c].reader = link[c].reader /\ link'[c].terminated = link[c].terminated
          /\ link'[c].dataStack = link[c].dataStack
      BY <2>1, <2>2, ZenonT(60) DEF Conn
    <2> QED BY <1>1, <2>3, SMTT(60) DEF Apart, OwnData
  <1> QED BY <1>2, <1>3, <1>4, ZenonT(60) DEF Apart

(* JoinProcess and ShutCloses: the current connection is closed if it was  *)
(* open.                                                                   *)
LEMMA CloseApart ==
  ASSUME Apart, JoinProcess \/ ShutCloses
  PROVE  Apart'
  <1>1. cur' = cur /\ binSocket_' = 0 /\ loop' \in {loop, "top"}
    BY ZenonT(60) DEF JoinProcess, ShutCloses
  <1>2. Loop'
    BY <1>1, ZenonT(60) DEF Apart, Loop, JoinProcess, ShutCloses
  <1>3. link' = Close(binSocket_, link)
    BY ZenonT(60) DEF JoinProcess, ShutCloses
  <1>4. ASSUME NEW c \in Conns
        PROVE  OwnData(c)'
    <2>1. link'[c] = IF c \in Having(binSocket_) THEN [link[c] EXCEPT !.open = FALSE] ELSE link[c]
      BY <1>3, ZenonT(60) DEF Close
    <2>2. link[c] \in Conn
      BY ZenonT(60) DEF Apart, OwnData
    <2>3. /\ link'[c] \in Conn /\ link'[c].fd = link[c].fd
          /\ link'[c].open => link[c].open /\ c \notin Having(binSocket_)
          /\ link'[c].reader = link[c].reader /\ link'[c].terminated = link[c].terminated
          /\ link'[c].dataStack = link[c].dataStack
      BY <2>1, <2>2, ZenonT(60) DEF Conn
    <2>4. loop = "start" /\ c = cur => ~link'[c].open
      BY <2>3, ZenonT(60) DEF Apart, OwnData, Having
    <2>5. OwnData(c)
      BY ZenonT(60) DEF Apart
    <2> QED BY <1>1, <2>3, <2>4, <2>5, ZenonT(60) DEF OwnData
  <1> QED BY <1>2, <1>3, <1>4, ZenonT(60) DEF Apart, Close

LEMMA ReadDataApart ==
  ASSUME Apart, NEW c \in Conns, ReadData(c)
  PROVE  Apart'
  <1>1. UNCHANGED <<cur, binSocket_, loop, proc, disk>> /\ link[c].reader = "reading"
    BY ZenonT(60) DEF ReadData
  <1>2. Loop'
    BY <1>1, ZenonT(60) DEF Apart, Loop
  <1>3. link[c] \in Conn /\ ~link[c].terminated
    BY <1>1, ZenonT(60) DEF Apart, OwnData
  <1> DEFINE l == [link EXCEPT ![c].wire = Tail(@)]
             entry == [of |-> c, msg |-> Head(link[c].wire)]
  <1>4. link[c].wire # << >> /\ link' = IF l[c].terminated THEN l
                                        ELSE [l EXCEPT ![c].dataStack = Append(@, entry)]
    <2>1. PICK d \in Having(link[c].fd) :
            /\ link[d].wire # << >>
            /\ LET k == [link EXCEPT ![d].wire = Tail(@)]
               IN  link' = IF k[c].terminated THEN k
                           ELSE [k EXCEPT ![c].dataStack =
                                   Append(@, [of |-> d, msg |-> Head(link[d].wire)])]
      BY ZenonT(60) DEF ReadData, StackOf
    <2>2. d = c
      BY OwnDescriptor, ZenonT(60)
    <2> QED BY <2>1, <2>2, ZenonT(60)
  <1>5. l[c] = [link[c] EXCEPT !.wire = Tail(@)] /\ \A d \in Conns : d # c => l[d] = link[d]
    BY ZenonT(60) DEF Apart
  <1>6. l[c].terminated = link[c].terminated
    BY <1>3, <1>5 DEF Conn
  <1>7. DOMAIN l = Conns
    BY ZenonT(60) DEF Apart
  <1>8. link' = [l EXCEPT ![c].dataStack = Append(@, entry)]
    BY <1>3, <1>4, <1>6, ZenonT(60)
  <1> HIDE DEF l
  <1>9. ASSUME NEW d \in Conns, d # c
        PROVE  OwnData(d)'
    <2>1. link'[d] = link[d]
      BY <1>5, <1>7, <1>8, <1>9, ZenonT(60)
    <2> QED BY <1>1, <2>1, ZenonT(60) DEF Apart, OwnData
  <1>10. OwnData(c)'
    <2>1. link'[c] = [l[c] EXCEPT !.dataStack = Append(@, entry)]
      BY <1>7, <1>8, ZenonT(60)
    <2>2. entry \in [of : Conns, msg : Nat]
      <3>1. link[c].wire \in Seq(Nat) /\ link[c].wire # << >>
        BY <1>3, <1>4, ZenonT(60) DEF Conn
      <3>2. Head(link[c].wire) \in Nat
        BY <3>1, Taken, ZenonT(60)
      <3> QED BY <3>2, ZenonT(60)
    <2>3. Tail(link[c].wire) \in Seq(Nat) /\ link[c].dataStack \in Seq([of : Conns, msg : Nat])
      <3>1. link[c].wire \in Seq(Nat) /\ link[c].wire # << >>
            /\ link[c].dataStack \in Seq([of : Conns, msg : Nat])
        BY <1>3, <1>4, ZenonT(60) DEF Conn
      <3> QED BY <3>1, Taken, ZenonT(60)
    <2> HIDE DEF entry
    <2>4. /\ Append(link[c].dataStack, entry) \in Seq([of : Conns, msg : Nat])
          /\ \A i \in DOMAIN Append(link[c].dataStack, entry) :
               \/ Append(link[c].dataStack, entry)[i] = entry
               \/ /\ i \in DOMAIN link[c].dataStack
                  /\ Append(link[c].dataStack, entry)[i] = link[c].dataStack[i]
      BY <2>2, <2>3, Appended, SMTT(60)
    <2>5. /\ l[c] \in Conn /\ l[c].fd = link[c].fd /\ l[c].open = link[c].open
          /\ l[c].reader = link[c].reader /\ l[c].dataStack = link[c].dataStack
      BY <1>3, <1>5, <2>3, ZenonT(60) DEF Conn
    <2>6. /\ link'[c] \in Conn /\ link'[c].fd = l[c].fd /\ link'[c].open = l[c].open
          /\ link'[c].reader = l[c].reader /\ link'[c].terminated = l[c].terminated
          /\ link'[c].dataStack = Append(link[c].dataStack, entry)
      <3> DEFINE q == Append(link[c].dataStack, entry)
      <3>1. link'[c] = [l[c] EXCEPT !.dataStack = q] /\ q \in Seq([of : Conns, msg : Nat])
        BY <2>1, <2>4, <2>5, ZenonT(60)
      <3>2. l[c] \in Conn
        BY <2>5, ZenonT(60)
      <3> HIDE DEF q
      <3>3. /\ link'[c] \in Conn /\ link'[c].fd = l[c].fd /\ link'[c].open = l[c].open
            /\ link'[c].reader = l[c].reader /\ link'[c].terminated = l[c].terminated
            /\ link'[c].dataStack = q
        BY <3>1, <3>2, ZenonT(60) DEF Conn
      <3> QED BY <3>3, ZenonT(60) DEF q
    <2>7. ASSUME NEW i \in DOMAIN Append(link[c].dataStack, entry)
          PROVE  Append(link[c].dataStack, entry)[i].of = c
      <3>1. \/ Append(link[c].dataStack, entry)[i] = entry
            \/ /\ i \in DOMAIN link[c].dataStack
               /\ Append(link[c].dataStack, entry)[i] = link[c].dataStack[i]
        BY <2>4, ZenonT(60)
      <3>2. i \in DOMAIN link[c].dataStack => link[c].dataStack[i].of = c
        BY ZenonT(60) DEF Apart, OwnData
      <3>3. entry.of = c
        BY ZenonT(60) DEF entry
      <3> QED BY <3>1, <3>2, <3>3, ZenonT(60)
    <2> QED BY <1>1, <1>3, <1>6, <2>5, <2>6, <2>7, ZenonT(60) DEF Apart, OwnData
  <1> QED BY <1>2, <1>7, <1>8, <1>9, <1>10, ZenonT(60) DEF Apart

LEMMA ReadEndsApart ==
  ASSUME Apart, NEW c \in Conns, ReadEnds(c)
  PROVE  Apart'
  <1>1. UNCHANGED <<cur, binSocket_, loop, proc, disk>> /\ link[c].reader = "reading"
    BY ZenonT(60) DEF ReadEnds
  <1>2. Loop'
    BY <1>1, ZenonT(60) DEF Apart, Loop
  <1> DEFINE l == Close(link[c].fd, link)
  <1>3. /\ DOMAIN l = Conns
        /\ l[c] = link[c] \/ l[c] = [link[c] EXCEPT !.open = FALSE]
        /\ \A d \in Conns : d # c => l[d] = link[d]
    BY OwnDescriptor, ZenonT(60) DEF Close
  <1>4. link' = [[l EXCEPT ![c].reader = "done"] EXCEPT ![c].terminated = TRUE]
    BY ZenonT(60) DEF ReadEnds, EndOfData, StackOf
  <1> HIDE DEF l
  <1>5. ASSUME NEW d \in Conns, d # c
        PROVE  OwnData(d)'
    <2>1. link'[d] = link[d]
      BY <1>3, <1>4, <1>5, ZenonT(60)
    <2> QED BY <1>1, <2>1, ZenonT(60) DEF Apart, OwnData
  <1>6. OwnData(c)'
    <2>1. link'[c] = [[l[c] EXCEPT !.reader = "done"] EXCEPT !.terminated = TRUE]
      BY <1>3, <1>4, ZenonT(60)
    <2>2. link[c] \in Conn
      BY ZenonT(60) DEF Apart, OwnData
    <2>3. l[c] \in Conn /\ l[c].fd = link[c].fd /\ (l[c].open => link[c].open)
          /\ l[c].dataStack = link[c].dataStack
      BY <1>3, <2>2, ZenonT(60) DEF Conn
    <2>4. /\ link'[c] \in Conn /\ link'[c].fd = link[c].fd /\ (link'[c].open => link[c].open)
          /\ link'[c].reader = "done" /\ link'[c].dataStack = link[c].dataStack
      BY <2>1, <2>3, ZenonT(60) DEF Conn
    <2>5. OwnData(c)
      BY ZenonT(60) DEF Apart
    <2> QED BY <1>1, <2>4, <2>5, ZenonT(60) DEF OwnData
  <1> QED BY <1>2, <1>3, <1>4, <1>5, <1>6, ZenonT(60) DEF Apart

LEMMA ProcessApart ==
  ASSUME Apart, ProcessVerack \/ ProcessInv
  PROVE  Apart'
  <1>1. /\ UNCHANGED <<cur, binSocket_, loop, disk>> /\ proc = "pop"
        /\ link[cur].dataStack # << >>
        /\ link' = [link EXCEPT ![cur].dataStack = Tail(@)]
    BY ZenonT(60) DEF ProcessVerack, ProcessInv
  <1>2. cur \in Conns
    BY <1>1, ZenonT(60) DEF Apart, Loop
  <1>3. Loop'
    BY <1>1, <1>2, ZenonT(60) DEF Apart, Loop
  <1>4. ASSUME NEW c \in Conns, c # cur
        PROVE  OwnData(c)'
    <2>1. link'[c] = link[c]
      BY <1>1, <1>4, ZenonT(60) DEF Apart
    <2> QED BY <1>1, <2>1, SMTT(60) DEF Apart, OwnData
  <1>5. ASSUME NEW c \in Conns, c = cur
        PROVE  OwnData(c)'
    <2> DEFINE q == Tail(link[c].dataStack)
    <2>1. link[c] \in Conn /\ link'[c] = [link[c] EXCEPT !.dataStack = q]
      BY <1>1, <1>5, ZenonT(60) DEF Apart, OwnData
    <2>2. link[c].dataStack \in Seq([of : Conns, msg : Nat]) /\ link[c].dataStack # << >>
      BY <1>1, <1>5, <2>1, ZenonT(60) DEF Conn
    <2>3. q \in Seq([of : Conns, msg : Nat]) /\ \A i \in DOMAIN q : q[i].of = c
      <3>1. /\ q \in Seq([of : Conns, msg : Nat])
            /\ \A i \in DOMAIN q :
                 i + 1 \in DOMAIN link[c].dataStack /\ q[i] = link[c].dataStack[i + 1]
        BY <2>2, Taken, ZenonT(60)
      <3>2. \A i \in DOMAIN link[c].dataStack : link[c].dataStack[i].of = c
        BY ZenonT(60) DEF Apart, OwnData
      <3> QED BY <3>1, <3>2, ZenonT(60)
    <2> HIDE DEF q
    <2>4. /\ link'[c] \in Conn /\ link'[c].fd = link[c].fd /\ link'[c].open = link[c].open
          /\ link'[c].reader = link[c].reader /\ link'[c].terminated = link[c].terminated
          /\ link'[c].dataStack = q
      BY <2>1, <2>3, ZenonT(60) DEF Conn
    <2> QED BY <1>1, <2>3, <2>4, ZenonT(60) DEF Apart, OwnData
  <1> QED BY <1>1, <1>3, <1>4, <1>5, ZenonT(60) DEF Apart

(* The node changes the wires and its own end of a connection only. *)
LEMMA NodeApart ==
  ASSUME Apart, NodeMines \/ \E c \in Conns : NodeAnswers(c) \/ NodeCloses(c)
  PROVE  Apart'
  <1>1. UNCHANGED <<cur, binSocket_, loop, proc>>
    BY ZenonT(60) DEF NodeMines, NodeAnswers, NodeCloses
  <1>2. Loop'
    <2>1. disk' \in {disk, disk + 1}
      BY ZenonT(60) DEF NodeMines, NodeAnswers, NodeCloses
    <2> QED BY <1>1, <2>1, SMTT(60) DEF Apart, Loop
  <1>3. DOMAIN link' = Conns
    BY ZenonT(60) DEF Apart, NodeMines, NodeAnswers, NodeCloses
  <1>4. ASSUME NEW c \in Conns
        PROVE  OwnData(c)'
    <2>1. link[c] \in Conn /\ OwnData(c)
      BY ZenonT(60) DEF Apart, OwnData
    <2>2. \E w \in Seq(Nat), v \in {"none", "sent", "answered"}, p \in BOOLEAN :
            link'[c] = [link[c] EXCEPT !.wire = w, !.version = v, !.peer = p]
      <3>1. link[c] = [link[c] EXCEPT !.wire = link[c].wire, !.version = link[c].version,
                                      !.peer = link[c].peer]
        BY <2>1, ZenonT(60) DEF Conn
      <3>2. /\ link[c].wire \in Seq(Nat) /\ link[c].version \in {"none", "sent", "answered"}
            /\ link[c].peer \in BOOLEAN
        BY <2>1, ZenonT(60) DEF Conn
      <3>3. CASE link'[c] = link[c]
        BY <3>1, <3>2, <3>3, ZenonT(60)
      <3>4. CASE link'[c] = [link[c] EXCEPT !.version = "answered", !.wire = Append(@, 0)]
        <4>1. Append(link[c].wire, 0) \in Seq(Nat)
          BY <3>2, Appended
        <4>2. link'[c] = [link[c] EXCEPT !.wire = Append(link[c].wire, 0), !.version = "answered",
                                         !.peer = link[c].peer]
          BY <2>1, <3>4, ZenonT(60) DEF Conn
        <4> QED BY <3>2, <4>1, <4>2, ZenonT(60)
      <3>5. CASE link'[c] = [link[c] EXCEPT !.wire = Append(@, disk + 1)]
        <4>1. Append(link[c].wire, disk + 1) \in Seq(Nat)
          BY <3>2, Appended, SMTT(60) DEF Apart, Loop
        <4>2. link'[c] = [link[c] EXCEPT !.wire = Append(link[c].wire, disk + 1),
                                         !.version = link[c].version, !.peer = link[c].peer]
          BY <2>1, <3>5, ZenonT(60) DEF Conn
        <4> QED BY <3>2, <4>1, <4>2, ZenonT(60)
      <3>6. CASE link'[c] = [link[c] EXCEPT !.peer = FALSE]
        <4>1. link'[c] = [link[c] EXCEPT !.wire = link[c].wire, !.version = link[c].version,
                                         !.peer = FALSE]
          BY <2>1, <3>6, ZenonT(60) DEF Conn
        <4> QED BY <3>2, <4>1, ZenonT(60)
      <3>7. NodeMines => link'[c] \in {link[c], [link[c] EXCEPT !.wire = Append(@, disk + 1)]}
        BY ZenonT(60) DEF NodeMines
      <3>8. ASSUME NEW d \in Conns, NodeAnswers(d) \/ NodeCloses(d)
            PROVE  link'[c] \in {link[c], [link[c] EXCEPT !.peer = FALSE],
                     [link[c] EXCEPT !.version = "answered", !.wire = Append(@, 0)]}
        BY <3>8, ZenonT(60) DEF Apart, NodeAnswers, NodeCloses
      <3> QED BY <3>3, <3>4, <3>5, <3>6, <3>7, <3>8, ZenonT(60)
    <2>3. /\ link'[c] \in Conn /\ link'[c].fd = link[c].fd /\ link'[c].open = link[c].open
          /\ link'[c].reader = link[c].reader /\ link'[c].terminated = link[c].terminated
          /\ link'[c].dataStack = link[c].dataStack
      BY <2>1, <2>2, ZenonT(60) DEF Conn
    <2> QED BY <1>1, <2>1, <2>3, Untouched, ZenonT(60)
  <1> QED BY <1>2, <1>3, <1>4, ZenonT(60) DEF Apart

LEMMA NextApart == ~ReuseFd /\ Apart /\ [LinkNext]_linkVars => Apart'
  <1> SUFFICES ASSUME ~ReuseFd, Apart, [LinkNext]_linkVars
               PROVE  Apart'
    OBVIOUS
  <1>1. CASE ConnectLoop
    BY <1>1, LoopApart, OpenSocketApart, StartThreadsApart, SendVersionApart, CloseApart, ZenonT(60)
       DEF ConnectLoop
  <1>2. CASE ProcessVerack \/ ProcessInv
    BY <1>2, ProcessApart, ZenonT(60)
  <1>3. ASSUME NEW c \in Conns, Reader(c)
        PROVE  Apart'
    BY <1>3, ReadDataApart, ReadEndsApart, ZenonT(60) DEF Reader
  <1>4. CASE NodeMines \/ \E c \in Conns : NodeAnswers(c) \/ NodeCloses(c)
    BY <1>4, NodeApart, ZenonT(60)
  <1>5. CASE ShutCloses
    BY <1>5, CloseApart, ZenonT(60)
  <1>6. CASE /\ UNCHANGED <<link, cur, binSocket_, loop, disk>>
             /\ proc' # "ended" => proc # "ended"
    BY <1>6, ZenonT(60) DEF Apart, Loop, OwnData
  <1>7. ASSUME ProcessEnds \/ InvBlockPops \/ InvBlockCalls
        PROVE  /\ UNCHANGED <<link, cur, binSocket_, loop, disk>>
               /\ proc' # "ended" => proc # "ended"
    BY <1>7, ZenonT(60) DEF ProcessEnds, InvBlockPops, InvBlockCalls, connection
  <1>8. ASSUME \/ MainThread \/ ZcThreads \/ FetchEnds \/ UNCHANGED linkVars
               \/ ShutStores \/ ShutDrains \/ ShutCalls \/ ShutCompletes \/ ShutJoins
        PROVE  UNCHANGED <<link, cur, binSocket_, loop, disk, proc>>
    BY <1>8, ZenonT(60) DEF MainThread, InitialSync, TestNode, RegisterLambda, UpdateChain, GetPurge,
       GetNewBlocks, ZcThreads, Purge, ParserEnds, FetchEnds, ShutStores, ShutDrains, ShutCalls,
       ShutCompletes, ShutJoins, connection, linkVars
  <1> QED BY <1>1, <1>2, <1>3, <1>4, <1>5, <1>6, <1>7, <1>8, ZenonT(60) DEF LinkNext, Process, Shutdown

(* Where the system does not give out a closed descriptor while a detached *)
(* reader still has it, the process thread of a connection is given data   *)
(* of that connection only, and its stack is terminated by its own reader  *)
(* only, however many connections come and go (pollSocketThread, 977-1000; *)
(* connectLoop, 878-974).                                                  *)
THEOREM ApartHolds ==
  ASSUME ~ReuseFd
  PROVE  LinkSpec => []ConnectionsApart
  <1>1. Apart => ConnectionsApart
    BY ZenonT(60) DEF Apart, OwnData, ConnectionsApart
  <1>2. Apart /\ [LinkNext]_linkVars => Apart'
    BY NextApart, ZenonT(60)
  <1> QED BY <1>1, <1>2, InitApart, PTL DEF LinkSpec
=============================================================================
