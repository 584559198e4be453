---------------------------- MODULE BlockingStack ---------------------------
(***************************************************************************)
(* BlockingStack<T> (ThreadSafeClasses.h, 803-972): the container of Stack *)
(* composed with the wake-ups of StackPromise, and the flags terminated_   *)
(* and completed_.  pop_front blocks while the container is empty; a push, *)
(* terminate() and completed() wake it.                                    *)
(*                                                                         *)
(* A thread inside Stack<T>::push_back or ::pop_front is where spc says;   *)
(* pc is its place in the functions of BlockingStack<T> and in get_future  *)
(* and pop_promise.  Which exception_ptr is rethrown is left out: every    *)
(* way a pop_front can stop is "stopped".                                  *)
(***************************************************************************)
EXTENDS Integers, Sequences, FiniteSets

CONSTANTS
  Thread, Entry, Null, MaxPtr,  \* as in Stack
  Pair, None,                   \* as in StackPromise
  Consumer, Producer, Owner,    \* the threads that pop, that push, that stop the container
  MaxCalls                      \* bound: calls made to the container in one behaviour

ASSUME ContainerAssumption ==
  /\ Null # MaxPtr /\ Null \notin Entry /\ MaxPtr \notin Entry
  /\ None \notin Pair /\ Pair # {}
  /\ IsFiniteSet(Thread)
  /\ MaxCalls \in Nat

VARIABLES
  top_, bottom_, next_, count_, heap, spc, newentry, topentry, valptr, queue, result,
  replaceFut_, promPtr_, futPtr_, promises, futures, ready, futptr, oldprom, futval, fut,
  pc,
  waiting_,     \* the threads inside pop_front, as counted
  terminated_,
  completed_,
  value,        \* what the last pop_front of a thread gave: an entry, or "stopped"
  ret,          \* where pop_promise returns to
  owed,         \* history: the entries in the container when completed_ was set
  calls         \* calls made so far

stackVars == <<top_, bottom_, next_, count_, heap, spc, newentry, topentry, valptr,
               queue, result>>
promiseVars == <<replaceFut_, promPtr_, futPtr_, promises, futures, ready, futptr,
                 oldprom, futval, fut>>
flagVars == <<terminated_, completed_, owed>>
callerVars == <<waiting_, value, ret, calls>>
vars == <<stackVars, promiseVars, flagVars, callerVars, pc>>

S == INSTANCE Stack WITH pc <- spc
P == INSTANCE StackPromise

Stopped == "stopped"

Init ==
  /\ S!Init
  /\ P!PromiseInit
  /\ pc = [t \in Thread |-> "idle"]
  /\ waiting_ = 0
  /\ terminated_ = FALSE /\ completed_ = FALSE
  /\ value = [t \in Thread |-> None]
  /\ ret = [t \in Thread |-> "idle"]
  /\ owed = {}
  /\ calls = 0

Goto(t, from, to) ==
  /\ pc[t] = from
  /\ pc' = [pc EXCEPT ![t] = to]

(* A thread enters one of the functions. *)
Call(t, to) ==
  /\ calls < MaxCalls
  /\ calls' = calls + 1
  /\ Goto(t, "idle", to)

-----------------------------------------------------------------------------
(* pop_front (840-903) *)

(* 845 *)
PopBegin(t) ==
  /\ t \in Consumer
  /\ Call(t, "popTerm")
  /\ waiting_' = waiting_ + 1
  /\ value' = [value EXCEPT ![t] = None]
  /\ UNCHANGED <<stackVars, promiseVars, flagVars, ret>>

(* 893-898: whatever pop_front throws passes through here. *)
Throw(t) ==
  /\ pc' = [pc EXCEPT ![t] = "idle"]
  /\ waiting_' = waiting_ - 1
  /\ value' = [value EXCEPT ![t] = Stopped]
  /\ fut' = [fut EXCEPT ![t] = None]
  /\ UNCHANGED <<stackVars, replaceFut_, promPtr_, futPtr_, promises, futures, ready,
                 futptr, oldprom, futval, flagVars, ret, calls>>

(* 851-858 *)
PopTerm(t) ==
  /\ pc[t] = "popTerm"
  /\ IF terminated_
       THEN Throw(t)
       ELSE /\ pc' = [pc EXCEPT ![t] = "popTry"]
            /\ UNCHANGED <<stackVars, promiseVars, flagVars, callerVars>>

Trying(t) == pc[t] \in {"popTry", "popRetry"}

(* 863 and 875: Stack<T>::pop_front(false), up to its return. *)
PopEnter(t) ==
  /\ Trying(t)
  /\ S!PopEmpty(t) \/ S!PopClaim(t)
  /\ UNCHANGED <<promiseVars, flagVars, callerVars, pc>>

PopInside(t) ==
  /\ S!PopStep(t)
  /\ Trying(t)
  /\ spc[t] \notin {"delete", "thrown"}
  /\ UNCHANGED <<promiseVars, flagVars, callerVars, pc>>

(* 863-865 and 875-877: an entry; return it. *)
PopTake(t) ==
  /\ Trying(t)
  /\ S!PopDelete(t)
  /\ value' = [value EXCEPT ![t] = result[t]]
  /\ waiting_' = waiting_ - 1
  /\ pc' = [pc EXCEPT ![t] = "idle"]
  /\ fut' = [fut EXCEPT ![t] = None]
  /\ UNCHANGED <<replaceFut_, promPtr_, futPtr_, promises, futures, ready, futptr,
                 oldprom, futval, flagVars, ret, calls>>

(* 867 and 879: IsEmpty is caught. *)
PopMiss(t) ==
  /\ S!PopCatch(t)
  /\ \/ Goto(t, "popTry", "popCompleted")
     \/ Goto(t, "popRetry", "popFlagCompleted")
  /\ UNCHANGED <<promiseVars, flagVars, callerVars>>

(* 820-829: get_future throws once the container is completed. *)
PopCompleted(t) ==
  /\ pc[t] = "popCompleted"
  /\ IF completed_
       THEN Throw(t)
       ELSE /\ pc' = [pc EXCEPT ![t] = "getFuture"]
            /\ UNCHANGED <<stackVars, promiseVars, flagVars, callerVars>>

(* 829: Stack<T>::get_future *)
PopGetFuture(t) ==
  /\ P!GetStep(t, "popRetry")
  /\ UNCHANGED <<stackVars, flagVars, callerVars>>

(* 881-883 *)
PopFlagCompleted(t) ==
  /\ pc[t] = "popFlagCompleted"
  /\ IF completed_
       THEN Throw(t)
       ELSE /\ pc' = [pc EXCEPT ![t] = "popFlagTerminated"]
            /\ UNCHANGED <<stackVars, promiseVars, flagVars, callerVars>>

PopFlagTerminated(t) ==
  /\ pc[t] = "popFlagTerminated"
  /\ IF terminated_
       THEN Throw(t)
       ELSE /\ pc' = [pc EXCEPT ![t] = "popWait"]
            /\ UNCHANGED <<stackVars, promiseVars, flagVars, callerVars>>

(* 886-891: the future is satisfied; go round the loop. *)
PopWoken(t) ==
  /\ Goto(t, "popWait", "popTerm")
  /\ fut[t] \in ready
  /\ fut' = [fut EXCEPT ![t] = None]
  /\ UNCHANGED <<stackVars, replaceFut_, promPtr_, futPtr_, promises, futures, ready,
                 futptr, oldprom, futval, flagVars, callerVars>>

-----------------------------------------------------------------------------
(* push_back (905-913) *)
PushBegin(t) ==
  /\ t \in Producer
  /\ Call(t, "pushCheck")
  /\ UNCHANGED <<stackVars, promiseVars, flagVars, waiting_, value, ret>>

(* 907-909 *)
PushCheck(t) ==
  /\ Goto(t, "pushCheck", IF completed_ THEN "idle" ELSE "push")
  /\ UNCHANGED <<stackVars, promiseVars, flagVars, callerVars>>

(* 911: Stack<T>::push_back, up to its return. *)
PushEnter(t) ==
  /\ pc[t] = "push"
  /\ \E e \in Entry : S!PushNew(t, e)
  /\ UNCHANGED <<promiseVars, flagVars, callerVars, pc>>

PushInside(t) ==
  /\ pc[t] = "push"
  /\ S!PushClaim(t) \/ S!PushLink(t) \/ S!PushLinkBottom(t) \/ S!PushCount(t)
  /\ UNCHANGED <<promiseVars, flagVars, callerVars, pc>>

(* Mutants: a push that wakes nobody, and one that enters pop_promise unguarded. *)
PushDoneSilent(t) ==
  /\ S!PushTop(t)
  /\ Goto(t, "push", "idle")
  /\ UNCHANGED <<promiseVars, flagVars, callerVars>>

PushDoneUnguarded(t) ==
  /\ S!PushTop(t)
  /\ Goto(t, "push", "setValue")
  /\ UNCHANGED <<promiseVars, flagVars, callerVars>>

PushDone(t) ==
  /\ S!PushTop(t)
  /\ Goto(t, "push", "popPromise")
  /\ UNCHANGED <<promiseVars, flagVars, callerVars>>

(* 912, 934, 965: Stack<T>::pop_promise *)
Wake(t) ==
  /\ P!PopPromiseStep(t, ret[t])
  /\ UNCHANGED <<stackVars, flagVars, waiting_, value, ret, calls>>

-----------------------------------------------------------------------------
(* terminate (915-935), completed (947-966), clear (937-945) *)
TerminateBegin(t) ==
  /\ t \in Owner
  /\ Call(t, "terminate")
  /\ UNCHANGED <<stackVars, promiseVars, flagVars, waiting_, value, ret>>

(* 930 *)
SetTerminated(t) ==
  /\ Goto(t, "terminate", "complete")
  /\ terminated_' = TRUE
  /\ UNCHANGED <<stackVars, promiseVars, completed_, owed, callerVars>>

CompletedBegin(t) ==
  /\ t \in Owner
  /\ Call(t, "complete")
  /\ UNCHANGED <<stackVars, promiseVars, flagVars, waiting_, value, ret>>

(* Mutant: stops the container and wakes nobody. *)
SetCompletedSilent(t) ==
  /\ Goto(t, "complete", ret[t])
  /\ completed_' = TRUE
  /\ owed' = {queue[i] : i \in 1 .. Len(queue)}
  /\ UNCHANGED <<stackVars, promiseVars, terminated_, callerVars>>

(* 931 and 962 *)
SetCompleted(t) ==
  /\ Goto(t, "complete", "popPromise")
  /\ completed_' = TRUE
  /\ owed' = {queue[i] : i \in 1 .. Len(queue)}
  /\ UNCHANGED <<stackVars, promiseVars, terminated_, callerVars>>

(* 939: clear starts with completed(). *)
ClearBegin(t) ==
  /\ t \in Owner
  /\ Call(t, "complete")
  /\ ret' = [ret EXCEPT ![t] = "clear"]
  /\ UNCHANGED <<stackVars, promiseVars, flagVars, waiting_, value>>

(* 941, 379-387: pop until IsEmpty. *)
ClearPop(t) ==
  /\ pc[t] = "clear"
  /\ S!PopEmpty(t) \/ S!PopClaim(t) \/ (spc[t] # "thrown" /\ S!PopStep(t))
  /\ UNCHANGED <<promiseVars, flagVars, callerVars, pc>>

ClearEmpty(t) ==
  /\ S!PopCatch(t)
  /\ Goto(t, "clear", "clearTerminated")
  /\ UNCHANGED <<promiseVars, flagVars, callerVars>>

(* 943-944 *)
ClearTerminated(t) ==
  /\ Goto(t, "clearTerminated", "clearCompleted")
  /\ terminated_' = FALSE
  /\ UNCHANGED <<stackVars, promiseVars, completed_, owed, callerVars>>

ClearCompleted(t) ==
  /\ Goto(t, "clearCompleted", "idle")
  /\ completed_' = FALSE
  /\ owed' = {}
  /\ ret' = [ret EXCEPT ![t] = "idle"]
  /\ UNCHANGED <<stackVars, promiseVars, terminated_, waiting_, value, calls>>

-----------------------------------------------------------------------------
Step(t) ==
  \/ PopTerm(t) \/ PopEnter(t) \/ PopInside(t) \/ PopTake(t) \/ PopMiss(t)
  \/ PopCompleted(t) \/ PopGetFuture(t) \/ PopFlagCompleted(t) \/ PopFlagTerminated(t)
  \/ PopWoken(t)
  \/ PushCheck(t) \/ PushEnter(t) \/ PushInside(t) \/ PushDone(t) \/ Wake(t)
  \/ SetTerminated(t) \/ SetCompleted(t)
  \/ ClearPop(t) \/ ClearEmpty(t) \/ ClearTerminated(t) \/ ClearCompleted(t)

Begin(t) ==
  \/ PopBegin(t) \/ PushBegin(t) \/ TerminateBegin(t) \/ CompletedBegin(t) \/ ClearBegin(t)

Next == \E t \in Thread : Begin(t) \/ Step(t)

Spec == Init /\ [][Next]_vars

(* A thread inside one of the functions keeps running. *)
FairSpec == Spec /\ \A t \in Thread : WF_vars(Step(t))

-----------------------------------------------------------------------------
(* Properties *)
InPop(t) ==
  pc[t] \in {"popTerm", "popTry", "popCompleted", "getFuture", "load", "copy", "release",
             "popRetry", "popFlagCompleted", "popFlagTerminated", "popWait"}

(* The parts have their types, and waiting_ is the number of threads in    *)
(* pop_front, whichever way they leave it.                                 *)
TypeOK ==
  /\ S!TypeOK
  /\ waiting_ = Cardinality({t \in Thread : InPop(t)})
  /\ terminated_ \in BOOLEAN /\ completed_ \in BOOLEAN
  /\ value \in [Thread -> Entry \cup {None, Stopped}]
  /\ ret \in [Thread -> {"idle", "clear"}]
  /\ owed \subseteq Entry
  /\ calls \in 0 .. MaxCalls

(* A thread that is about to satisfy the current promise. *)
WillWake(t) == pc[t] \in {"push", "complete", "popPromise", "setValue"}

(* No wake-up is lost: while a consumer blocks on a future that is not     *)
(* satisfied, either nothing has happened that it should know of, or some  *)
(* thread is on its way to pop_promise.                                    *)
NoLostWakeup ==
  \A t \in Thread :
    pc[t] = "popWait" /\ fut[t] \notin ready /\ (queue # << >> \/ completed_ \/ terminated_)
      => \E u \in Thread : WillWake(u)

(* The wake-ups are used as StackPromise has it, so that what is proved of *)
(* it holds here: get_future and pop_promise are entered and left in order. *)
promisePC == [t \in Thread |-> IF pc[t] \in P!PromisePC THEN pc[t] ELSE "idle"]
PromisePart == INSTANCE StackPromise WITH pc <- promisePC
UsesPromise == PromisePart!Spec

(* completed() lets the container serve its remaining entries before       *)
(* halting: no consumer is stopped by it while one of them is left and no  *)
(* other consumer is there to take it.  Does not hold (README).            *)
CompletedServes ==
  ~ terminated_ /\ (\E t \in Thread : value[t] = Stopped)
                /\ (\A t \in Thread : ~ InPop(t) /\ pc[t] # "clear")
    => \A i \in 1 .. Len(queue) : queue[i] \notin owed

(* A consumer gets on once there is something in the container.            *)
ConsumerGetsOn ==
  \A t \in Thread : (InPop(t) /\ queue # << >>) ~> (~ InPop(t) \/ queue = << >>)

(* terminate() returns on all waiting threads.  Does not hold (README).    *)
TerminateReturns ==
  \A t \in Thread : (InPop(t) /\ terminated_) ~> (~ InPop(t) \/ ~ terminated_)

(* terminate() returns on every thread in pop_front, but for one that has  *)
(* taken the entry of a push and waits for the next one (322-326).         *)
TerminateReturnsUnlessStalled ==
  \A t \in Thread :
    (InPop(t) /\ terminated_) ~> (~ InPop(t) \/ ~ terminated_ \/ spc[t] = "waitNext")
=============================================================================
