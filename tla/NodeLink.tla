------------------------------ MODULE NodeLink ------------------------------
(***************************************************************************)
(* The connection to the node (BitcoinP2P), the main thread that waits on  *)
(* it for blocks (BlockDataManagerThread::run) and the shutdown of both    *)
(* (Clients::exitRequestLoop, then Clients::shutdown).                     *)
(*                                                                         *)
(* connectLoop opens one connection after the other.  Each has a reader,   *)
(* which is detached and fills the data stack of its connection, and a     *)
(* process thread, which connectLoop joins.  Messages are the verack, 0,   *)
(* and the announcement of the block of a height.  A connection has a      *)
(* descriptor, and a reader reads from whatever has its descriptor.        *)
(***************************************************************************)
EXTENDS Naturals, Sequences

CONSTANTS
  MaxConns,     \* bound: connections that are opened
  MaxBlocks,    \* bound: blocks that are mined
  ReuseFd       \* the system gives a closed descriptor out again

ASSUME NodeLinkAssumption ==
  /\ MaxConns \in Nat \ {0}
  /\ MaxBlocks \in Nat
  /\ ReuseFd \in BOOLEAN

VARIABLES
  run_,
  loop,             \* connectLoop
  cur,              \* the connection of dataStack_
  binSocket_,       \* its descriptor, 0 for SOCK_MAX
  link,             \* the connections
  proc,             \* the process thread
  announced,        \* the block it handles the announcement of
  verackPromise_,   \* null, unset or set
  nodeConnected_,
  lambda,           \* main's callback is in invBlockLambdas_
  held,             \* who has taken it out to call it
  newBlocksFuture,
  main,             \* the main thread
  disk,             \* the height of the block files
  top,              \* the height it has read up to
  purge,            \* the Zc_Purge it waits for
  parser,           \* the parser thread of the ZC container
  fetch,            \* one that fetches transactions, followed from the shutdown on
  shut              \* the thread that shuts down

connection == <<cur, binSocket_, link, verackPromise_, nodeConnected_>>
callbacks == <<lambda, held, newBlocksFuture>>
mainVars == <<main, top, purge, parser, fetch>>
linkVars == <<run_, loop, connection, proc, announced, callbacks, mainVars, disk, shut>>

Conns == 1 .. MaxConns

Unused == [fd |-> 0, open |-> FALSE, peer |-> FALSE, version |-> "none", wire |-> << >>,
           dataStack |-> << >>, terminated |-> FALSE, reader |-> "none"]

LinkInit ==
  /\ run_ = TRUE
  /\ loop = "top" /\ cur = 0 /\ binSocket_ = 0
  /\ link = [c \in Conns |-> Unused]
  /\ proc = "ended" /\ announced = 0
  /\ verackPromise_ = "null" /\ nodeConnected_ = FALSE
  /\ lambda = FALSE /\ held = "none" /\ newBlocksFuture = "unset"
  /\ main = "init" /\ disk = 0 /\ top = 0
  /\ purge = "none" /\ parser = "on" /\ fetch = "on"
  /\ shut = "idle"

(* The open connections with a descriptor, and the close of it. *)
Having(fd) == {c \in Conns : link[c].open /\ link[c].fd = fd}

Close(fd, l) == [c \in Conns |-> IF c \in Having(fd) THEN [l[c] EXCEPT !.open = FALSE] ELSE l[c]]

-----------------------------------------------------------------------------
(* connectLoop (878-974) *)

NewConnection ==
  /\ loop = "top" /\ run_ /\ cur < MaxConns
  /\ loop' = "open"
  /\ cur' = cur + 1
  /\ verackPromise_' = "unset"
  /\ UNCHANGED <<run_, binSocket_, link, nodeConnected_, proc, announced, callbacks, mainVars,
                 disk, shut>>

LoopEnds ==
  /\ loop = "top" /\ ~run_
  /\ loop' = "ended"
  /\ UNCHANGED <<run_, connection, proc, announced, callbacks, mainVars, disk, shut>>

(* The loop that tries to open the socket; shutdown may close what is open *)
(* between its test of run_ and openSocket.                                *)
TestRun ==
  /\ loop = "open"
  /\ loop' = IF run_ THEN "connect" ELSE "start"
  /\ UNCHANGED <<run_, connection, proc, announced, callbacks, mainVars, disk, shut>>

OpenSocket ==
  /\ loop = "connect"
  /\ loop' = "start"
  /\ \E fd \in IF ReuseFd THEN {f \in Conns : Having(f) = {}} ELSE {cur} :
       /\ binSocket_' = fd
       /\ link' = [link EXCEPT ![cur] = [@ EXCEPT !.fd = fd, !.open = TRUE, !.peer = TRUE]]
  /\ UNCHANGED <<run_, cur, verackPromise_, nodeConnected_, proc, announced, callbacks, mainVars,
                 disk, shut>>

(* pollSocketThread and the process thread (903-916). *)
StartThreads ==
  /\ loop = "start"
  /\ loop' = "send"
  /\ link' = [link EXCEPT ![cur] = [@ EXCEPT !.fd = binSocket_, !.reader = "reading"]]
  /\ proc' = "pop"
  /\ UNCHANGED <<run_, cur, binSocket_, verackPromise_, nodeConnected_, announced, callbacks,
                 mainVars, disk, shut>>

(* Any failure is caught, and the loop goes on to the join. *)
SendVersion ==
  /\ loop = "send"
  /\ \/ /\ Having(binSocket_) # {}
        /\ loop' = "verack"
        /\ link' = [link EXCEPT ![cur].version = "sent"]
     \/ /\ Having(binSocket_) = {} \/ ~link[cur].peer
        /\ loop' = "join"
        /\ UNCHANGED link
  /\ UNCHANGED <<run_, cur, binSocket_, verackPromise_, nodeConnected_, proc, announced, callbacks,
                 mainVars, disk, shut>>

GetVerack ==
  /\ loop = "verack" /\ verackPromise_ = "set"
  /\ loop' = "join"
  /\ verackPromise_' = "null"
  /\ nodeConnected_' = TRUE
  /\ UNCHANGED <<run_, cur, binSocket_, link, proc, announced, callbacks, mainVars, disk, shut>>

JoinProcess ==
  /\ loop = "join" /\ proc = "ended"
  /\ loop' = "top"
  /\ link' = Close(binSocket_, link)
  /\ binSocket_' = 0
  /\ nodeConnected_' = FALSE
  /\ UNCHANGED <<run_, cur, verackPromise_, proc, announced, callbacks, mainVars, disk, shut>>

-----------------------------------------------------------------------------
(* readFromSocketThread (SocketObject.cpp, 234-384) with the callback of   *)
(* pollSocketThread (977-1000), which holds the stack it was made with.    *)

(* Mutant: the callback takes the stack that is current when it is called. *)
StackOfCurrent(c) == cur

StackOf(c) == c

ReadData(c) ==
  /\ link[c].reader = "reading"
  /\ \E d \in Having(link[c].fd) :
       /\ link[d].wire # << >>
       /\ LET l == [link EXCEPT ![d].wire = Tail(@)]
              s == StackOf(c)
          IN  link' = IF l[s].terminated THEN l
                      ELSE [l EXCEPT ![s].dataStack =
                              Append(@, [of |-> d, msg |-> Head(link[d].wire)])]
  /\ UNCHANGED <<run_, loop, cur, binSocket_, verackPromise_, nodeConnected_, proc, announced,
                 callbacks,
                 mainVars, disk, shut>>

(* Mutant: nothing is called back when the node closes the connection. *)
EndOfDataQuiet(c, l) == l

EndOfData(c, l) == [l EXCEPT ![StackOf(c)].terminated = TRUE]

ReadEnds(c) ==
  /\ link[c].reader = "reading"
  /\ \A d \in Having(link[c].fd) : ~link[d].peer /\ link[d].wire = << >>
  /\ link' = EndOfData(c, [Close(link[c].fd, link) EXCEPT ![c].reader = "done"])
  /\ UNCHANGED <<run_, loop, cur, binSocket_, verackPromise_, nodeConnected_, proc, announced,
                 callbacks,
                 mainVars, disk, shut>>

(* processDataStackThread and what it calls (1003-1209).  A stack that is  *)
(* terminated gives out no more; any exception ends the thread.            *)
ProcessVerack ==
  /\ proc = "pop" /\ ~link[cur].terminated
  /\ link[cur].dataStack # << >> /\ Head(link[cur].dataStack).msg = 0
  /\ link' = [link EXCEPT ![cur].dataStack = Tail(@)]
  /\ verackPromise_' = IF verackPromise_ = "unset" THEN "set" ELSE verackPromise_
  /\ UNCHANGED <<run_, loop, cur, binSocket_, nodeConnected_, proc, announced, callbacks,
                 mainVars, disk, shut>>

ProcessInv ==
  /\ proc = "pop" /\ ~link[cur].terminated
  /\ link[cur].dataStack # << >> /\ Head(link[cur].dataStack).msg # 0
  /\ link' = [link EXCEPT ![cur].dataStack = Tail(@)]
  /\ announced' = Head(link[cur].dataStack).msg
  /\ proc' = "invBlock"
  /\ UNCHANGED <<run_, loop, cur, binSocket_, verackPromise_, nodeConnected_, callbacks, mainVars,
                 disk, shut>>

ProcessEnds ==
  /\ proc = "pop"
  /\ link[cur].terminated \/ link[cur].dataStack # << >>
  /\ proc' = "ended"
  /\ UNCHANGED <<run_, loop, connection, announced, callbacks, mainVars, disk, shut>>

(* processInvBlock (1193-1209): all lambdas are taken out, then called. *)
PopLambdas(who) ==
  /\ lambda' = FALSE
  /\ held' = IF lambda THEN who ELSE held
  /\ UNCHANGED newBlocksFuture

CallLambdas(who, outcome) ==
  /\ newBlocksFuture' = IF held = who THEN outcome ELSE newBlocksFuture
  /\ held' = IF held = who THEN "none" ELSE held
  /\ UNCHANGED lambda

InvBlockPops ==
  /\ proc = "invBlock"
  /\ PopLambdas("proc")
  /\ proc' = "call"
  /\ UNCHANGED <<run_, loop, connection, announced, mainVars, disk, shut>>

InvBlockCalls ==
  /\ proc = "call"
  /\ CallLambdas("proc", "value")
  /\ proc' = "pop"
  /\ announced' = 0
  /\ UNCHANGED <<run_, loop, connection, mainVars, disk, shut>>

-----------------------------------------------------------------------------
(* The main thread (BDM_mainthread.cpp, 135-311): the initial sync, then   *)
(* in a loop the callback, the update, and the wait.                       *)
InitialSync ==
  /\ main = "init"
  /\ main' = "test"
  /\ top' = disk
  /\ UNCHANGED <<run_, loop, connection, proc, announced, callbacks, purge, parser, fetch, disk,
                 shut>>

(* Mutant: the chain is updated before the callback is registered. *)
AfterLate(step) ==
  CASE step = "test" -> "update" [] step = "update" -> "register" [] step = "register" -> "wait"

After(step) ==
  CASE step = "test" -> "register" [] step = "register" -> "update" [] step = "update" -> "wait"

(* registerInvBlockLambda tests run_ and throws, then pushes. *)
TestNode ==
  /\ main = "test"
  /\ main' = IF run_ THEN After("test") ELSE "ended"
  /\ UNCHANGED <<run_, loop, connection, proc, announced, callbacks, top, purge, parser, fetch,
                 disk, shut>>

RegisterLambda ==
  /\ main = "register"
  /\ main' = After("register")
  /\ lambda' = TRUE
  /\ newBlocksFuture' = "unset"
  /\ UNCHANGED <<run_, loop, connection, proc, announced, held, top, purge, parser, fetch, disk,
                 shut>>

(* updateChainLambda; a purge pushed on a completed stack is dropped. *)
UpdateChain ==
  /\ main = "update"
  /\ IF disk > top
     THEN /\ main' = "purge"
          /\ top' = disk
          /\ purge' = IF parser = "on" THEN "queued" ELSE purge
     ELSE /\ main' = After("update")
          /\ UNCHANGED <<top, purge>>
  /\ UNCHANGED <<run_, loop, connection, proc, announced, callbacks, parser, fetch, disk, shut>>

GetPurge ==
  /\ main = "purge" /\ purge = "done"
  /\ main' = "update"
  /\ purge' = "none"
  /\ UNCHANGED <<run_, loop, connection, proc, announced, callbacks, top, parser, fetch, disk,
                 shut>>

GetNewBlocks ==
  /\ main = "wait" /\ newBlocksFuture # "unset"
  /\ main' = IF newBlocksFuture = "exception" \/ shut \in {"join", "zc"} THEN "ended" ELSE "test"
  /\ UNCHANGED <<run_, loop, connection, proc, announced, callbacks, top, purge, parser, fetch,
                 disk, shut>>

(* The parser thread; newZcStack_ serves what it holds when it is          *)
(* completed.                                                              *)
Purge ==
  /\ purge = "queued" /\ parser # "ended"
  /\ purge' = "done"
  /\ UNCHANGED <<run_, loop, connection, proc, announced, callbacks, main, top, parser, fetch,
                 disk, shut>>

ParserEnds ==
  /\ parser = "completed" /\ purge # "queued"
  /\ parser' = "ended"
  /\ UNCHANGED <<run_, loop, connection, proc, announced, callbacks, main, top, purge, fetch,
                 disk, shut>>

(* processInvTxThread: the transaction comes or the time runs out, and the *)
(* thread waits for the next one.                                          *)
FetchEnds ==
  /\ fetch = "fetching"
  /\ fetch' = "waiting"
  /\ UNCHANGED <<run_, loop, connection, proc, announced, callbacks, main, top, purge, parser,
                 disk, shut>>

-----------------------------------------------------------------------------
(* BitcoinP2P::shutdown (1431-1446), then Clients::shutdown                *)
(* (BDM_Server.cpp, 1041-1055): the main thread, the ZC container.         *)
ShutStores ==
  /\ shut = "idle"
  /\ shut' = "close"
  /\ run_' = FALSE
  /\ UNCHANGED <<loop, connection, proc, announced, callbacks, mainVars, disk>>

ShutCloses ==
  /\ shut = "close"
  /\ shut' = "loop"
  /\ link' = Close(binSocket_, link)
  /\ binSocket_' = 0
  /\ UNCHANGED <<run_, loop, cur, verackPromise_, nodeConnected_, proc, announced, callbacks,
                 mainVars, disk>>

(* Mutant: the remaining lambdas are cleared, not called. *)
DropLambdas(who) == lambda' = FALSE /\ UNCHANGED <<held, newBlocksFuture>>

Drain(who) == PopLambdas(who)

ShutDrains ==
  /\ shut = "loop" /\ loop = "ended"
  /\ shut' = "call"
  /\ Drain("shut")
  /\ UNCHANGED <<run_, loop, connection, proc, announced, mainVars, disk>>

(* Mutant: the ZC container is shut down before the main thread has ended. *)
ShutCallsEarly ==
  /\ shut = "call"
  /\ CallLambdas("shut", "exception")
  /\ shut' = "join"
  /\ parser' = "completed"
  /\ UNCHANGED <<run_, loop, connection, proc, announced, main, top, purge, fetch, disk>>

ShutCalls ==
  /\ shut = "call"
  /\ CallLambdas("shut", "exception")
  /\ shut' = "join"
  /\ UNCHANGED <<run_, loop, connection, proc, announced, mainVars, disk>>

(* ZeroConfContainer::shutdown (BDM_supportClasses.cpp, 2179-2201): the    *)
(* terminate entry is given to a thread that waits at this moment, not to  *)
(* one that is fetching.                                                   *)
ShutCompletes ==
  /\ shut = "join" /\ main = "ended"
  /\ shut' = "zc"
  /\ parser' = "completed"
  /\ fetch' \in {"ended", "fetching"}
  /\ UNCHANGED <<run_, loop, connection, proc, announced, callbacks, main, top, purge, disk>>

ShutJoins ==
  /\ shut = "zc" /\ parser = "ended" /\ fetch = "ended"
  /\ shut' = "done"
  /\ UNCHANGED <<run_, loop, connection, proc, announced, callbacks, mainVars, disk>>

-----------------------------------------------------------------------------
(* The node answers the version, writes a block and announces it to whom   *)
(* it has answered, and may close a connection at any time.                *)
NodeAnswers(c) ==
  /\ link[c].peer /\ link[c].version = "sent"
  /\ link' = [link EXCEPT ![c].version = "answered", ![c].wire = Append(@, 0)]
  /\ UNCHANGED <<run_, loop, cur, binSocket_, verackPromise_, nodeConnected_, proc, announced,
                 callbacks,
                 mainVars, disk, shut>>

NodeMines ==
  /\ disk < MaxBlocks
  /\ disk' = disk + 1
  /\ link' = [c \in Conns |-> IF link[c].peer /\ link[c].version = "answered"
                              THEN [link[c] EXCEPT !.wire = Append(@, disk')] ELSE link[c]]
  /\ UNCHANGED <<run_, loop, cur, binSocket_, verackPromise_, nodeConnected_, proc, announced,
                 callbacks,
                 mainVars, shut>>

NodeCloses(c) ==
  /\ link[c].peer
  /\ link' = [link EXCEPT ![c].peer = FALSE]
  /\ UNCHANGED <<run_, loop, cur, binSocket_, verackPromise_, nodeConnected_, proc, announced,
                 callbacks,
                 mainVars, disk, shut>>

ConnectLoop ==
  NewConnection \/ LoopEnds \/ TestRun \/ OpenSocket \/ StartThreads
    \/ SendVersion \/ GetVerack \/ JoinProcess

Reader(c) == ReadData(c) \/ ReadEnds(c)

Process == ProcessVerack \/ ProcessInv \/ ProcessEnds \/ InvBlockPops \/ InvBlockCalls

MainThread == InitialSync \/ TestNode \/ RegisterLambda \/ UpdateChain \/ GetPurge \/ GetNewBlocks

ZcThreads == Purge \/ ParserEnds

Shutdown == ShutCloses \/ ShutDrains \/ ShutCalls \/ ShutCompletes \/ ShutJoins

LinkNext ==
  \/ ConnectLoop \/ Process \/ MainThread \/ ZcThreads
  \/ ShutStores \/ Shutdown
  \/ NodeMines \/ FetchEnds
  \/ \E c \in Conns : Reader(c) \/ NodeAnswers(c) \/ NodeCloses(c)

LinkSpec == LinkInit /\ [][LinkNext]_linkVars

(* Every thread runs on; nothing makes the node or the user do anything. *)
LinkFairSpec ==
  /\ LinkSpec
  /\ WF_linkVars(ConnectLoop) /\ WF_linkVars(Process) /\ WF_linkVars(MainThread)
  /\ WF_linkVars(ZcThreads) /\ WF_linkVars(FetchEnds) /\ WF_linkVars(Shutdown)
  /\ \A c \in Conns : WF_linkVars(Reader(c))

-----------------------------------------------------------------------------
(* Properties *)

(* What the process thread is given comes from its own connection, and a   *)
(* connection's stack is terminated only by its own reader: the late end   *)
(* of a detached reader does not touch the next connection                 *)
(* (pollSocketThread captures the stack).                                  *)
ConnectionsApart ==
  \A c \in Conns :
    /\ \A i \in DOMAIN link[c].dataStack : link[c].dataStack[i].of = c
    /\ link[c].terminated => link[c].reader = "done"

(* While the main thread waits for its purge there is one, and a thread to *)
(* answer it, whenever the program is shut down (updateChainLambda, the    *)
(* order of Clients::shutdown).                                            *)
PurgeIsServed == main = "purge" => purge = "done" \/ (purge = "queued" /\ parser # "ended")

(* A block whose announcement the process thread has taken is read by the  *)
(* main thread, wherever that is in its loop, unless the node is shut down *)
(* (the callback is registered before the chain is updated).               *)
BlockNoticed == \A n \in 1 .. MaxBlocks : (announced = n) ~> (top >= n \/ ~run_)

(* When the node has closed the connection, connectLoop gets to know and   *)
(* the status says so.                                                     *)
StatusFollows == (nodeConnected_ /\ ~link[cur].peer) ~> ~nodeConnected_

(* The four windows in which a thread waits for what does not come. *)
NoVerack == loop = "verack" /\ verackPromise_ = "unset" /\ proc = "ended"

LateSocket == shut = "loop" /\ \E c \in Conns : link[c].open

LateLambda == shut \in {"call", "join"} /\ main = "wait" /\ lambda

LateFetch == shut = "zc" /\ fetch = "waiting"

(* A shutdown that is requested ends, with the connect loop, the main      *)
(* thread and the threads of the ZC container, outside four windows: the   *)
(* connection ends before the verack (BitcoinP2P.cpp, 945), the socket is  *)
(* opened after shutdown closed it (892-894), the callback is pushed after *)
(* shutdown took the others (BDM_mainthread.cpp, 284), a thread fetches    *)
(* while the terminate entries are given out (BDM_supportClasses.cpp).     *)
ShutdownEnds ==
  (shut # "idle") ~> (shut = "done" \/ NoVerack \/ LateSocket \/ LateLambda \/ LateFetch)
=============================================================================
