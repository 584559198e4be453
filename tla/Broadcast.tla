----------------------------- MODULE Broadcast ------------------------------
(***************************************************************************)
(* The broadcast of one transaction: broadcastZC, getTx, and what the      *)
(* process thread does with the node's answers.                            *)
(*                                                                         *)
(* A call of broadcastZC is a detached thread of its own (BDM_Server.cpp,  *)
(* 532-551).  Once the node has asked for the transaction the call starts  *)
(* a second detached thread that fetches it back with getTx, as the fetch  *)
(* threads do with a transaction the node announces.  All of them meet in  *)
(* getTxCallbackMap_ and getDataPayloadMap_, where the transaction's hash  *)
(* has at most one entry, and insert does not replace it.                  *)
(*                                                                         *)
(* Time is a choice: a wait that is not over may time out.                 *)
(***************************************************************************)
EXTENDS Naturals, Sequences

CONSTANTS
  Broadcaster,  \* the calls of broadcastZC
  Fetcher,      \* the fetch threads
  MaxTries,     \* how often getTx asks; 7 times in 10 seconds in the code
  MaxWire,      \* bound: the node's messages that wait to be processed
  MaxDrops,     \* bound: connections the node closes
  None

ASSUME BroadcastAssumption ==
  /\ Broadcaster \cap Fetcher = {}
  /\ MaxTries \in Nat \ {0}
  /\ MaxWire \in Nat \ {0}
  /\ MaxDrops \in Nat
  /\ None \notin Broadcaster

VARIABLES
  broadcast,           \* where broadcastZC is, per call
  verdict,             \* what its client is told
  sent,                \* getDataProm is set
  get,                 \* where getTx is, per thread
  gdsPtr,              \* the object it waits for
  tries,               \* how often its wait ran out
  gds,                 \* the GetDataStatus objects
  getTxCallbackMap_,   \* the object registered for the hash
  getDataPayloadMap_,  \* the call whose payload is registered
  newZcStack_,         \* who handed the transaction to the parser
  process,             \* the process thread
  socket,              \* up; closed, and still nodeConnected_; or down
  drops,
  toNode, fromNode,    \* messages about the hash, in flight
  mempool,             \* the node has the transaction
  running              \* no exception has left a thread

calls == <<broadcast, verdict, sent>>
gets == <<get, gdsPtr, tries, newZcStack_>>
maps == <<getTxCallbackMap_, getDataPayloadMap_>>
wires == <<socket, drops, toNode, fromNode, mempool>>
vars == <<calls, gets, gds, maps, process, wires, running>>

(* The threads that call getTx: that of a broadcast, under its name, and   *)
(* the fetch threads.  The objects: one per broadcast, one a getTx makes.  *)
Caller == Broadcaster \cup Fetcher

Watch(b) == <<"watch", b>>

Own(c) == <<"own", c>>

Gds == {Watch(b) : b \in Broadcaster} \cup {Own(c) : c \in Caller}

ASSUME NoObjectAssumption == None \notin Gds

(* A GetDataStatus when it is made; its message is left out. *)
GetDataStatus == [received_ |-> TRUE, prom_ |-> "unset"]

Idle == [at |-> "pop", of |-> None]

Init ==
  /\ broadcast = [b \in Broadcaster |-> "idle"]
  /\ verdict = [b \in Broadcaster |-> "none"]
  /\ sent = [b \in Broadcaster |-> FALSE]
  /\ get = [c \in Caller |-> "idle"]
  /\ gdsPtr = [c \in Caller |-> None]
  /\ tries = [c \in Caller |-> 0]
  /\ newZcStack_ = {}
  /\ gds = [g \in Gds |-> GetDataStatus]
  /\ getTxCallbackMap_ = None /\ getDataPayloadMap_ = None
  /\ process = Idle
  /\ socket = "up" /\ drops = 0
  /\ toNode = {} /\ fromNode = << >>
  /\ mempool = FALSE
  /\ running = TRUE

(* TransactionalMap::insert, which keeps an entry that is there. *)
Inserted(map, v) == IF map = None THEN v ELSE map

(* sendMessage.  On a closed socket writeToSocket throws a SocketError,    *)
(* which no thread but the process thread catches.                         *)
SendMessage(m) ==
  IF socket = "up"
  THEN toNode' = toNode \cup {m} /\ UNCHANGED running
  ELSE running' = FALSE /\ UNCHANGED toNode

-----------------------------------------------------------------------------
(* broadcastZC (BDM_supportClasses.cpp, 2033-2176).                        *)

Goto(b, to) == broadcast' = [broadcast EXCEPT ![b] = to]

(* With no node the client is told so at once. *)
Call(b) ==
  /\ broadcast[b] = "idle"
  /\ IF socket = "down"
     THEN Goto(b, "done") /\ verdict' = [verdict EXCEPT ![b] = "error"]
     ELSE Goto(b, "watch") /\ UNCHANGED verdict
  /\ UNCHANGED <<sent, gets, gds, maps, process, wires, running>>

Register(b) ==
  /\ broadcast[b] = "watch"
  /\ Goto(b, "payload")
  /\ getTxCallbackMap_' = Inserted(getTxCallbackMap_, Watch(b))
  /\ UNCHANGED <<verdict, sent, gets, gds, getDataPayloadMap_, process, wires, running>>

RegisterPayload(b) ==
  /\ broadcast[b] = "payload"
  /\ Goto(b, "inv")
  /\ getDataPayloadMap_' = Inserted(getDataPayloadMap_, b)
  /\ UNCHANGED <<verdict, sent, gets, gds, getTxCallbackMap_, process, wires, running>>

SendInv(b) ==
  /\ broadcast[b] = "inv"
  /\ SendMessage("inv")
  /\ Goto(b, "send")
  /\ UNCHANGED <<verdict, sent, gets, gds, maps, process, socket, drops, fromNode, mempool>>

(* A time-out of one of its two waits. *)
TimesOut(b, to) ==
  /\ gds' = [gds EXCEPT ![Watch(b)].received_ = FALSE]
  /\ Goto(b, to)
  /\ UNCHANGED <<verdict, sent, gets, maps, process, wires, running>>

SendTimesOut(b) == broadcast[b] = "send" /\ ~sent[b] /\ TimesOut(b, "erase")

(* The payload is taken out; if it was sent, the thread that fetches the   *)
(* transaction back is started.                                            *)
ErasePayload(b) ==
  /\ \/ /\ broadcast[b] = "send" /\ sent[b]
        /\ Goto(b, "get")
        /\ get' = [get EXCEPT ![b] = "lookup"]
     \/ /\ broadcast[b] = "erase"
        /\ Goto(b, "unregister")
        /\ UNCHANGED get
  /\ getDataPayloadMap_' = None
  /\ UNCHANGED <<verdict, sent, gdsPtr, tries, newZcStack_, gds, getTxCallbackMap_, process,
                 wires, running>>

GetTimesOut(b) ==
  /\ broadcast[b] = "get"
  /\ gds[Watch(b)].prom_ = "unset"
  /\ TimesOut(b, "unregister")

(* Mutant: what was never sent is left without the entry's removal. *)
UnregisterWhenSent(b) ==
  /\ \/ broadcast[b] = "get" /\ gds[Watch(b)].prom_ # "unset"
     \/ broadcast[b] = "unregister"
  /\ Goto(b, "report")
  /\ getTxCallbackMap_' = IF sent[b] THEN None ELSE getTxCallbackMap_
  /\ UNCHANGED <<verdict, sent, gets, gds, getDataPayloadMap_, process, wires, running>>

Unregister(b) ==
  /\ \/ broadcast[b] = "get" /\ gds[Watch(b)].prom_ # "unset"
     \/ broadcast[b] = "unregister"
  /\ Goto(b, "report")
  /\ getTxCallbackMap_' = None
  /\ UNCHANGED <<verdict, sent, gets, gds, getDataPayloadMap_, process, wires, running>>

Report(b) ==
  /\ broadcast[b] = "report"
  /\ Goto(b, "done")
  /\ verdict' = [verdict EXCEPT ![b] = IF gds[Watch(b)].received_ THEN "ok" ELSE "error"]
  /\ UNCHANGED <<sent, gets, gds, maps, process, wires, running>>

-----------------------------------------------------------------------------
(* processInvTxThread (1978-2004) and getTx (BitcoinP2P.cpp, 1331-1413).   *)

(* getTx returned: the transaction goes to the parser, a reject does not. *)
Return(c, payload) ==
  /\ get' = [get EXCEPT ![c] = "done"]
  /\ newZcStack_' = IF payload = "tx" THEN newZcStack_ \cup {c} ELSE newZcStack_

(* An entry that is there is used, and its answer if it has one. *)
Lookup(c) ==
  /\ get[c] = "lookup"
  /\ LET e == getTxCallbackMap_
     IN  /\ gdsPtr' = [gdsPtr EXCEPT ![c] = IF e = None THEN Own(c) ELSE e]
         /\ IF e # None /\ gds[e].prom_ # "unset"
            THEN Return(c, gds[e].prom_)
            ELSE /\ get' = [get EXCEPT ![c] = IF e = None THEN "register" ELSE "send"]
                 /\ UNCHANGED newZcStack_
  /\ UNCHANGED <<calls, tries, gds, maps, process, wires, running>>

RegisterOwn(c) ==
  /\ get[c] = "register"
  /\ get' = [get EXCEPT ![c] = "send"]
  /\ getTxCallbackMap_' = Inserted(getTxCallbackMap_, Own(c))
  /\ UNCHANGED <<calls, gdsPtr, tries, newZcStack_, gds, getDataPayloadMap_, process, wires,
                 running>>

SendGetData(c) ==
  /\ get[c] = "send"
  /\ SendMessage("getdata")
  /\ get' = [get EXCEPT ![c] = "wait"]
  /\ UNCHANGED <<calls, gdsPtr, tries, newZcStack_, gds, maps, process, socket, drops, fromNode,
                 mempool>>

GaveUp(c) == tries[c] = MaxTries

(* Mutant: the time that has passed is not added up. *)
WaitTimesOutUntallied(c) ==
  /\ get[c] = "wait"
  /\ gds[gdsPtr[c]].prom_ = "unset"
  /\ get' = [get EXCEPT ![c] = "send"]
  /\ UNCHANGED <<calls, gdsPtr, tries, newZcStack_, gds, maps, process, wires, running>>

(* The wait of one interval ran out. *)
WaitTimesOut(c) ==
  /\ get[c] = "wait"
  /\ gds[gdsPtr[c]].prom_ = "unset"
  /\ tries' = [tries EXCEPT ![c] = @ + 1]
  /\ get' = [get EXCEPT ![c] = IF tries[c] + 1 = MaxTries THEN "giveUp" ELSE "send"]
  /\ UNCHANGED <<calls, gdsPtr, newZcStack_, gds, maps, process, wires, running>>

(* It was the last one: the status is cleared, also that of a broadcast,   *)
(* which may have been answered since.                                     *)
GiveUp(c) ==
  /\ get[c] = "giveUp"
  /\ get' = [get EXCEPT ![c] = "leave"]
  /\ gds' = [gds EXCEPT ![gdsPtr[c]].received_ = FALSE]
  /\ UNCHANGED <<calls, gdsPtr, tries, newZcStack_, maps, process, wires, running>>

(* Mutant: an answer that came on an entry another thread made is not used. *)
LeaveForCreator(c) ==
  /\ \/ get[c] = "wait" /\ gds[gdsPtr[c]].prom_ # "unset"
     \/ get[c] = "leave"
  /\ getTxCallbackMap_' = IF gdsPtr[c] = Own(c) THEN None ELSE getTxCallbackMap_
  /\ Return(c, IF GaveUp(c) \/ gdsPtr[c] # Own(c) THEN "none" ELSE gds[gdsPtr[c]].prom_)
  /\ UNCHANGED <<calls, gdsPtr, tries, gds, getDataPayloadMap_, process, wires, running>>

(* Who made an entry removes the hash, whatever is registered by then. *)
Leave(c) ==
  /\ \/ get[c] = "wait" /\ gds[gdsPtr[c]].prom_ # "unset"
     \/ get[c] = "leave"
  /\ getTxCallbackMap_' = IF gdsPtr[c] = Own(c) THEN None ELSE getTxCallbackMap_
  /\ Return(c, IF GaveUp(c) THEN "none" ELSE gds[gdsPtr[c]].prom_)
  /\ UNCHANGED <<calls, gdsPtr, tries, gds, getDataPayloadMap_, process, wires, running>>

-----------------------------------------------------------------------------
(* The process thread: processPayload (1058-1096) of the next message, and *)
(* the rest of processGetData (1218-1245), processGetTx (1248-1280) and    *)
(* processReject (1283-1313) on the entry it found.                        *)

(* What it does with a message for which the maps have an entry. *)
Handling(m) ==
  CASE m = "getdata" /\ getDataPayloadMap_ # None -> [at |-> "sent", of |-> getDataPayloadMap_]
    [] m = "tx" /\ getTxCallbackMap_ # None -> [at |-> "tx", of |-> getTxCallbackMap_]
    [] m = "reject" /\ getTxCallbackMap_ # None -> [at |-> "mark", of |-> getTxCallbackMap_]
    [] OTHER -> Idle

(* An announcement goes to a fetch thread that waits, if there is one; a   *)
(* getdata is answered with the registered payload.                        *)
ProcessPayload ==
  /\ process.at = "pop" /\ fromNode # << >>
  /\ LET m == Head(fromNode)
     IN  /\ process' = Handling(m)
         /\ toNode' = IF Handling(m).at = "sent" THEN toNode \cup {"tx"} ELSE toNode
         /\ IF m = "inv" /\ \E f \in Fetcher : get[f] = "idle"
            THEN \E f \in Fetcher : /\ get[f] = "idle"
                                    /\ get' = [get EXCEPT ![f] = "lookup"]
            ELSE UNCHANGED get
  /\ fromNode' = Tail(fromNode)
  /\ UNCHANGED <<calls, gdsPtr, tries, newZcStack_, gds, maps, socket, drops, mempool, running>>

SetSent ==
  /\ process.at = "sent"
  /\ sent' = [sent EXCEPT ![process.of] = TRUE]
  /\ process' = Idle
  /\ UNCHANGED <<broadcast, verdict, gets, gds, maps, wires, running>>

SetTx ==
  /\ process.at = "tx"
  /\ gds' = [gds EXCEPT ![process.of].prom_ = IF @ = "unset" THEN "tx" ELSE @]
  /\ process' = Idle
  /\ UNCHANGED <<calls, gets, maps, wires, running>>

(* Mutant: the status is not cleared. *)
MarkRejectNot ==
  /\ process.at = "mark"
  /\ gds' = [gds EXCEPT ![process.of].prom_ = "reject"]
  /\ process' = Idle
  /\ UNCHANGED <<calls, gets, maps, wires, running>>

MarkReject ==
  /\ process.at = "mark"
  /\ gds' = [gds EXCEPT ![process.of].received_ = FALSE]
  /\ process' = [process EXCEPT !.at = "set"]
  /\ UNCHANGED <<calls, gets, maps, wires, running>>

(* A promise that is set already throws, and the thread ends. *)
SetReject ==
  /\ process.at = "set"
  /\ LET unset == gds[process.of].prom_ = "unset"
     IN  /\ gds' = IF unset THEN [gds EXCEPT ![process.of].prom_ = "reject"] ELSE gds
         /\ process' = IF unset THEN Idle ELSE [at |-> "ended", of |-> None]
  /\ UNCHANGED <<calls, gets, maps, wires, running>>

-----------------------------------------------------------------------------
(* connectLoop after the process thread has ended (961-971), and on to the *)
(* next connection.                                                        *)

CloseSocket ==
  /\ socket = "up" /\ process.at = "ended"
  /\ socket' = "closed" /\ toNode' = {} /\ fromNode' = << >>
  /\ UNCHANGED <<calls, gets, gds, maps, process, drops, mempool, running>>

UpdateNodeStatus ==
  /\ socket = "closed"
  /\ socket' = "down"
  /\ UNCHANGED <<calls, gets, gds, maps, process, drops, toNode, fromNode, mempool, running>>

Reconnect ==
  /\ socket = "down"
  /\ socket' = "up" /\ process' = Idle
  /\ UNCHANGED <<calls, gets, gds, maps, drops, toNode, fromNode, mempool, running>>

-----------------------------------------------------------------------------
(* The node: it may take its time or never answer, hear of the transaction *)
(* from others, refuse it, also when it has it, and close the connection.  *)

Answers(m) ==
  /\ Len(fromNode) < MaxWire
  /\ fromNode' = Append(fromNode, m)

NodeTakes(m) ==
  /\ socket = "up" /\ m \in toNode
  /\ toNode' = toNode \ {m}
  /\ UNCHANGED <<calls, gets, gds, maps, process, socket, drops, running>>

NodeAsks == NodeTakes("inv") /\ ~mempool /\ Answers("getdata") /\ UNCHANGED mempool

NodeAccepts == NodeTakes("tx") /\ mempool' = TRUE /\ UNCHANGED fromNode

NodeRejects == NodeTakes("tx") /\ Answers("reject") /\ UNCHANGED mempool

NodeGives == NodeTakes("getdata") /\ mempool /\ Answers("tx") /\ UNCHANGED mempool

NodeLearns ==
  /\ socket = "up" /\ ~mempool
  /\ mempool' = TRUE
  /\ Answers("inv")
  /\ UNCHANGED <<calls, gets, gds, maps, process, socket, drops, toNode, running>>

NodeLeaves ==
  /\ socket = "up" /\ process.at = "pop" /\ drops < MaxDrops
  /\ drops' = drops + 1
  /\ process' = [at |-> "ended", of |-> None]
  /\ UNCHANGED <<calls, gets, gds, maps, socket, toNode, fromNode, mempool, running>>

-----------------------------------------------------------------------------
BroadcastZC(b) ==
  /\ running
  /\ \/ Register(b) \/ RegisterPayload(b) \/ SendInv(b)
     \/ SendTimesOut(b) \/ ErasePayload(b) \/ GetTimesOut(b) \/ Unregister(b) \/ Report(b)

GetTx(c) ==
  /\ running
  /\ Lookup(c) \/ RegisterOwn(c) \/ SendGetData(c) \/ WaitTimesOut(c) \/ GiveUp(c) \/ Leave(c)

ProcessThread ==
  running /\ (ProcessPayload \/ SetSent \/ SetTx \/ MarkReject \/ SetReject)

LoopStep == running /\ (CloseSocket \/ UpdateNodeStatus \/ Reconnect)

Node ==
  /\ running
  /\ NodeAsks \/ NodeAccepts \/ NodeRejects \/ NodeGives \/ NodeLearns \/ NodeLeaves

Next ==
  \/ \E b \in Broadcaster : (running /\ Call(b)) \/ BroadcastZC(b)
  \/ \E c \in Caller : GetTx(c)
  \/ ProcessThread
  \/ LoopStep
  \/ Node

Spec == Init /\ [][Next]_vars

(* The calls go on, and time passes; the client need not call, the node    *)
(* owes no answer, and the process thread may never get to one.            *)
FairSpec ==
  /\ Spec
  /\ \A b \in Broadcaster : WF_vars(BroadcastZC(b))
  /\ \A c \in Caller : WF_vars(GetTx(c))

-----------------------------------------------------------------------------
(* A broadcast that ends well was answered with the transaction: no reject *)
(* and no time-out passes for a success, whoever else waits for the hash   *)
(* and in whatever order the answers and the status are read (2156-2175).  *)
SuccessIsTrue ==
  \A b \in Broadcaster : verdict[b] = "ok" => gds[Watch(b)].prom_ = "tx"

(* An entry is in a map only while the thread that made it is at work.     *)
(* One that stayed would keep every later broadcast of the transaction     *)
(* from being entered, and take its answers (1409-1410, 2123-2130, 2165).  *)
EntriesOwned ==
  /\ \A b \in Broadcaster :
       /\ getTxCallbackMap_ = Watch(b) => broadcast[b] \notin {"idle", "report", "done"}
       /\ getDataPayloadMap_ = b => broadcast[b] \in {"inv", "send", "erase"}
  /\ \A c \in Caller : getTxCallbackMap_ = Own(c) => get[c] \in {"send", "wait", "giveUp", "leave"}

(* The thread of a broadcast did not get the transaction: it ran out of    *)
(* time, or a reject came for what the node has, once it asked on its own. *)
NotFetched(b) == GaveUp(b) \/ gds[Own(b)].prom_ = "reject"

(* A transaction broadcast with success is handed to the parser, so that   *)
(* the wallets see it: the node does not announce it back to who sent it.  *)
(* It need not be where the thread that fetches it back did not get it:    *)
(* its time may run out just before the answer that makes the broadcast    *)
(* succeed (BitcoinP2P.cpp, 1389-1405).                                    *)
SuccessIsParsed ==
  \A b \in Broadcaster :
    verdict[b] = "ok" ~> newZcStack_ # {} \/ NotFetched(b) \/ ~running

UnderWay ==
  \/ \E b \in Broadcaster : broadcast[b] \notin {"idle", "done"}
  \/ \E c \in Caller : get[c] \notin {"idle", "done"}

(* All broadcasts and getTx calls under way end: also when the node answers*)
(* nothing, when another thread has removed the entry the answer would be  *)
(* found by (1410), and when a second answer has ended the process thread  *)
(* (1309).                                                                 *)
CallsEnd ==
  UnderWay ~> ~UnderWay \/ ~running
=============================================================================
