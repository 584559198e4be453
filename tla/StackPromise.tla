---------------------------- MODULE StackPromise ----------------------------
(***************************************************************************)
(* The wake-up half of Stack<T> (ThreadSafeClasses.h, 217-267): consumers  *)
(* that found the container empty copy a shared_future (get_future) and    *)
(* block on it; producers satisfy its promise and put a fresh pair in its  *)
(* place (pop_promise).  replaceFut_ keeps the two apart: it counts the    *)
(* threads that are copying, and is -1 while one thread replaces the pair. *)
(*                                                                         *)
(* A pair is a promise, the shared_future made from it and the state both  *)
(* share.  Its objects are deleted by pop_promise; the shared state lives  *)
(* on in the copies (fut).  Pairs are addresses: one that nothing refers   *)
(* to any more can be allocated again.                                     *)
(***************************************************************************)
EXTENDS Integers, FiniteSets

CONSTANTS
  Thread,  \* the threads that use the container
  Pair,    \* the addresses a promise/future pair can be allocated at
  None     \* no pair

ASSUME PromiseAssumption ==
  /\ None \notin Pair
  /\ Pair # {}
  /\ IsFiniteSet(Thread)

VARIABLES
  replaceFut_,  \* -1, or the number of threads copying the future
  promPtr_,     \* the pair of the current promise
  futPtr_,      \* the pair of the current future
  promises,     \* the promises allocated
  futures,      \* the shared_futures allocated
  ready,        \* the pairs whose shared state is set
  pc,           \* where each thread is
  futptr,       \* get_future: the pointer read from futPtr_
  oldprom,      \* pop_promise: the promise it satisfied
  futval,       \* pop_promise: the future it replaced
  fut           \* the copy of the future a thread holds

guardVars == <<replaceFut_, promPtr_, futPtr_, promises, futures, ready>>
holdVars == <<futptr, oldprom, futval, fut>>
promiseVars == <<replaceFut_, promPtr_, futPtr_, promises, futures, ready,
                 futptr, oldprom, futval, fut>>
vars == <<replaceFut_, promPtr_, futPtr_, promises, futures, ready, pc, futptr,
          oldprom, futval, fut>>

Copying == {"load", "copy", "release"}
Replacing == {"setValue", "newPromise", "newFuture", "delete", "unlock"}
PromisePC == {"getFuture", "popPromise"} \cup Copying \cup Replacing

(* The constructor (270-284). *)
PromiseInit ==
  /\ replaceFut_ = 0
  /\ \E p \in Pair : /\ promPtr_ = p
                     /\ futPtr_ = p
                     /\ promises = {p}
                     /\ futures = {p}
  /\ ready = {}
  /\ futptr = [t \in Thread |-> None]
  /\ oldprom = [t \in Thread |-> None]
  /\ futval = [t \in Thread |-> None]
  /\ fut = [t \in Thread |-> None]

Goto(t, from, to) ==
  /\ pc[t] = from
  /\ pc' = [pc EXCEPT ![t] = to]

-----------------------------------------------------------------------------
(* get_future (217-235); exit is where the caller goes on. *)

(* 219-227: count this thread in, unless the pair is being replaced. *)
GetEnter(t) ==
  /\ Goto(t, "getFuture", "load")
  /\ replaceFut_ # -1
  /\ replaceFut_' = replaceFut_ + 1
  /\ UNCHANGED <<promPtr_, futPtr_, promises, futures, ready, holdVars>>

(* 229 *)
GetLoad(t) ==
  /\ Goto(t, "load", "copy")
  /\ futptr' = [futptr EXCEPT ![t] = futPtr_]
  /\ UNCHANGED <<guardVars, oldprom, futval, fut>>

(* 230: copy the future the pointer leads to. *)
GetCopy(t) ==
  /\ Goto(t, "copy", "release")
  /\ fut' = [fut EXCEPT ![t] = futptr[t]]
  /\ futptr' = [futptr EXCEPT ![t] = None]
  /\ UNCHANGED <<guardVars, oldprom, futval>>

(* 232-233 *)
GetRelease(t, exit) ==
  /\ Goto(t, "release", exit)
  /\ replaceFut_' = replaceFut_ - 1
  /\ UNCHANGED <<promPtr_, futPtr_, promises, futures, ready, holdVars>>

-----------------------------------------------------------------------------
(* pop_promise (237-267) *)

(* 239-246: swap -1 for 0; spin while futures are being copied. *)
PopPromiseEnter(t) ==
  /\ Goto(t, "popPromise", "setValue")
  /\ replaceFut_ = 0
  /\ replaceFut_' = -1
  /\ UNCHANGED <<promPtr_, futPtr_, promises, futures, ready, holdVars>>

(* 243-244: another thread is replacing the pair, and wakes everyone. *)
PopPromiseBusy(t, exit) ==
  /\ Goto(t, "popPromise", exit)
  /\ replaceFut_ = -1
  /\ UNCHANGED <<guardVars, holdVars>>

(* Mutant: replaces the promise without satisfying it. *)
PopPromiseSetSilent(t) ==
  /\ Goto(t, "setValue", "newPromise")
  /\ oldprom' = [oldprom EXCEPT ![t] = promPtr_]
  /\ UNCHANGED <<guardVars, futptr, futval, fut>>

(* 249-250 *)
PopPromiseSet(t) ==
  /\ Goto(t, "setValue", "newPromise")
  /\ oldprom' = [oldprom EXCEPT ![t] = promPtr_]
  /\ ready' = ready \cup {promPtr_}
  /\ UNCHANGED <<replaceFut_, promPtr_, futPtr_, promises, futures, futptr, futval, fut>>

InUse(p) ==
  \/ p \in promises \cup futures
  \/ \E t \in Thread : fut[t] = p

(* 252-253 *)
PopPromiseNew(t, p) ==
  /\ Goto(t, "newPromise", "newFuture")
  /\ p \in Pair
  /\ ~ InUse(p)
  /\ promPtr_' = p
  /\ promises' = promises \cup {p}
  /\ ready' = ready \ {p}
  /\ UNCHANGED <<replaceFut_, futPtr_, futures, holdVars>>

(* Mutant: the replaced future is not kept. *)
PopPromiseStoreForgets(t) ==
  /\ Goto(t, "newFuture", "delete")
  /\ futures' = futures \cup {promPtr_}
  /\ futPtr_' = promPtr_
  /\ UNCHANGED <<replaceFut_, promPtr_, promises, ready, holdVars>>

(* 255-261 *)
PopPromiseStore(t) ==
  /\ Goto(t, "newFuture", "delete")
  /\ futures' = futures \cup {promPtr_}
  /\ futval' = [futval EXCEPT ![t] = futPtr_]
  /\ futPtr_' = promPtr_
  /\ UNCHANGED <<replaceFut_, promPtr_, promises, ready, futptr, oldprom, fut>>

(* 263-264 *)
PopPromiseDelete(t) ==
  /\ Goto(t, "delete", "unlock")
  /\ futures' = futures \ {futval[t]}
  /\ promises' = promises \ {oldprom[t]}
  /\ futval' = [futval EXCEPT ![t] = None]
  /\ oldprom' = [oldprom EXCEPT ![t] = None]
  /\ UNCHANGED <<replaceFut_, promPtr_, futPtr_, ready, futptr, fut>>

(* 266 *)
PopPromiseExit(t, exit) ==
  /\ Goto(t, "unlock", exit)
  /\ replaceFut_' = 0
  /\ UNCHANGED <<promPtr_, futPtr_, promises, futures, ready, holdVars>>

-----------------------------------------------------------------------------
(* The copying and the replacing steps, one thread at a time. *)
GetStep(t, exit) == GetEnter(t) \/ GetLoad(t) \/ GetCopy(t) \/ GetRelease(t, exit)

PopPromiseStep(t, exit) ==
  \/ PopPromiseEnter(t) \/ PopPromiseBusy(t, exit) \/ PopPromiseSet(t)
  \/ \E p \in Pair : PopPromiseNew(t, p)
  \/ PopPromiseStore(t) \/ PopPromiseDelete(t) \/ PopPromiseExit(t, exit)

(* Any thread may call either function once it has let go of its copy.     *)
CallGetFuture(t) ==
  /\ Goto(t, "idle", "getFuture")
  /\ fut[t] = None
  /\ UNCHANGED promiseVars

CallPopPromise(t) ==
  /\ Goto(t, "idle", "popPromise")
  /\ fut[t] = None
  /\ UNCHANGED promiseVars

DropFuture(t) ==
  /\ pc[t] = "idle"
  /\ fut' = [fut EXCEPT ![t] = None]
  /\ UNCHANGED <<guardVars, pc, futptr, oldprom, futval>>

Init == PromiseInit /\ pc = [t \in Thread |-> "idle"]

Next ==
  \E t \in Thread :
    \/ CallGetFuture(t) \/ CallPopPromise(t) \/ DropFuture(t)
    \/ GetStep(t, "idle") \/ PopPromiseStep(t, "idle")

Spec == Init /\ [][Next]_vars

-----------------------------------------------------------------------------
(* Properties *)

(* The variables hold what their C++ types allow; the pointers in place are never null. *)
TypeOK ==
  /\ replaceFut_ \in Int
  /\ promPtr_ \in Pair /\ futPtr_ \in Pair
  /\ promises \subseteq Pair /\ futures \subseteq Pair /\ ready \subseteq Pair
  /\ pc \in [Thread -> PromisePC \cup {"idle"}]
  /\ futptr \in [Thread -> Pair \cup {None}]
  /\ oldprom \in [Thread -> Pair \cup {None}]
  /\ futval \in [Thread -> Pair \cup {None}]
  /\ fut \in [Thread -> Pair \cup {None}]

Copiers == {t \in Thread : pc[t] \in Copying}
Replacers == {t \in Thread : pc[t] \in Replacing}

(* replaceFut_ is a readers-writer lock: -1 while exactly one thread       *)
(* replaces the pair and none copies, otherwise the number of copiers.     *)
Guarded ==
  /\ \A t, u \in Replacers : t = u
  /\ Replacers # {} => Copiers = {} /\ replaceFut_ = -1
  /\ Replacers = {} => replaceFut_ = Cardinality(Copiers)

(* get_future never copies a future that pop_promise has deleted, and      *)
(* pop_promise satisfies and deletes objects that exist.                   *)
ObjectsAlive ==
  \A t \in Thread :
    /\ pc[t] = "copy" => futptr[t] \in futures
    /\ pc[t] = "setValue" => promPtr_ \in promises
    /\ pc[t] = "delete" => futval[t] \in futures /\ oldprom[t] \in promises

(* set_value is never called on a promise that is already satisfied, which *)
(* would throw out of push_back.                                           *)
SetOnce == \A t \in Thread : pc[t] = "setValue" => promPtr_ \notin ready

(* Nobody is left with a future that no pop_promise will satisfy: a copy   *)
(* is of the pair in place, or of one that has been satisfied.             *)
NoOrphan ==
  \A t \in Thread : fut[t] # None => fut[t] \in ready \/ fut[t] = promPtr_

(* Between calls exactly one promise and one future exist, of one pair.    *)
OnePair ==
  Replacers = {} =>
    promises = {promPtr_} /\ futures = {futPtr_} /\ promPtr_ = futPtr_
=============================================================================
