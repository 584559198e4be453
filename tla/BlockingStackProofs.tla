------------------------ MODULE BlockingStackProofs -------------------------
(***************************************************************************)
(* The composed container, for any number of threads and calls: no wake-up *)
(* is lost, and what StackProofs and StackPromiseProofs say of the list    *)
(* and of the promise holds inside BlockingStack too.                      *)
(*                                                                         *)
(* Every step of the composition is a step or a stutter of Stack and of    *)
(* StackPromise (StackStep, PromiseStep), so their invariants are kept by  *)
(* their own proofs; Parts is what the wake-ups need of them.              *)
(* NoLostWakeup speaks of threads that block; Waits follows a thread back  *)
(* to the test by which it came to overlook the entry or the flag.  It     *)
(* holds because the future is copied before the tests are repeated: who   *)
(* changes something after the copy satisfies it, or leaves that to the    *)
(* thread that is replacing the pair.                                      *)
(***************************************************************************)
EXTENDS BlockingStack, TLAPS

(* A leaf that names no prover is for Zenon, and for SMT if Zenon fails. *)
USE ZenonT(10), SMTT(60)

(* The places outside get_future and pop_promise. *)
Outside ==
  {"idle", "popTerm", "popTry", "popCompleted", "popRetry", "popFlagCompleted",
   "popFlagTerminated", "popWait", "pushCheck", "push", "terminate", "complete", "clear",
   "clearTerminated", "clearCompleted"}
Places == Outside \cup P!PromisePC

(* Where a thread has its copy of the future. *)
Holding == {"release", "popRetry", "popFlagCompleted", "popFlagTerminated", "popWait"}

(* Where the threads are, what they hold there, and that IsEmpty is only   *)
(* thrown into a caller that catches it.                                   *)
Control ==
  /\ pc \in [Thread -> Places]
  /\ ret \in [Thread -> {"idle", "clear"}]
  /\ \A t \in Thread : fut[t] # None <=> pc[t] \in Holding
  /\ \A t \in Thread : spc[t] = "thrown" => pc[t] \in {"popTry", "popRetry", "clear"}

(* The second pop_front has found the container empty. *)
Missed(t) ==
  \/ pc[t] \in {"popFlagCompleted", "popFlagTerminated", "popWait"}
  \/ pc[t] = "popRetry" /\ spc[t] = "thrown"

(* What t has tested is no longer so. *)
Overlooked(t) ==
  \/ Missed(t) /\ queue # << >>
  \/ pc[t] \in {"popFlagTerminated", "popWait"} /\ completed_
  \/ pc[t] = "popWait" /\ terminated_

(* Whoever has overlooked something has a satisfied future, or will have. *)
Waits ==
  \A t \in Thread : Overlooked(t) /\ fut[t] \notin ready => \E u \in Thread : WillWake(u)

(* What the proofs of the list and of the pair tell about them: IsEmpty    *)
(* is thrown only when there is nothing, and a pop_promise that finds      *)
(* another one at work (replaceFut_ = -1) can leave the waking to it.      *)
Parts ==
  /\ S!TypeOK
  /\ bottom_ = Null => queue = << >>
  /\ bottom_ \in Entry => queue # << >>
  /\ PromisePart!TypeOK /\ PromisePart!NoOrphan
  /\ \A t \in Thread : pc[t] = "copy" => futptr[t] \in Pair
  /\ replaceFut_ = -1 =>
       \A t \in Thread : fut[t] # None /\ fut[t] \notin ready =>
                           \E u \in Thread : pc[u] = "setValue"

Inv == Control /\ Parts /\ Waits

(* The list *)
LEMMA StackStep == [Next]_vars => [S!Next]_stackVars
  <1>1. ASSUME NEW t \in Thread, PopEnter(t) \/ PopInside(t) \/ PopTake(t) \/ PopMiss(t)
        PROVE  S!Next
    BY <1>1 DEF PopEnter, PopInside, PopTake, PopMiss, S!Next, S!PopStep
  <1>2. ASSUME NEW t \in Thread, PushEnter(t) \/ PushInside(t) \/ PushDone(t)
        PROVE  S!Next
    BY <1>2 DEF PushEnter, PushInside, PushDone, S!Next, S!PushStep
  <1>3. ASSUME NEW t \in Thread, ClearPop(t) \/ ClearEmpty(t)
        PROVE  S!Next
    BY <1>3 DEF ClearPop, ClearEmpty, S!Next, S!PopStep
  <1>4. ASSUME NEW t \in Thread, Begin(t)
        PROVE  UNCHANGED stackVars
    BY <1>4 DEF Begin, PopBegin, PushBegin, TerminateBegin, CompletedBegin, ClearBegin
  <1>5. ASSUME NEW t \in Thread,
               \/ PopTerm(t) \/ PopCompleted(t) \/ PopGetFuture(t) \/ PopFlagCompleted(t)
               \/ PopFlagTerminated(t) \/ PopWoken(t) \/ PushCheck(t) \/ Wake(t)
               \/ SetTerminated(t) \/ SetCompleted(t) \/ ClearTerminated(t) \/ ClearCompleted(t)
        PROVE  UNCHANGED stackVars
    BY <1>5 DEF PopTerm, PopCompleted, PopGetFuture, PopFlagCompleted, PopFlagTerminated, PopWoken,
                Throw, PushCheck, Wake, SetTerminated, SetCompleted, ClearTerminated, ClearCompleted
  <1>6. [Next]_vars => S!Next \/ UNCHANGED stackVars
    BY <1>1, <1>2, <1>3, <1>4, <1>5 DEF Next, Step, vars
  <1> QED BY <1>6

-----------------------------------------------------------------------------
(* The wake-ups *)

Seen(place) == IF place \in P!PromisePC THEN place ELSE "idle"

LEMMA SeenGoto ==
  ASSUME Control, NEW t \in Thread, NEW to, pc' = [pc EXCEPT ![t] = to]
  PROVE  promisePC[t] = Seen(pc[t]) /\ promisePC' = [promisePC EXCEPT ![t] = Seen(to)]
  BY ZenonT(60) DEF Control, promisePC, Seen

LEMMA GetIsPromise ==
  ASSUME Control, NEW t \in Thread, P!GetStep(t, "popRetry")
  PROVE  PromisePart!GetStep(t, "idle")
  <1> USE DEF P!Goto, PromisePart!Goto, P!guardVars, PromisePart!guardVars, P!holdVars, PromisePart!holdVars,
              Seen, P!PromisePC, P!Copying, P!Replacing
  <1>1. CASE P!GetEnter(t) BY <1>1, SeenGoto, ZenonT(60) DEF P!GetEnter, PromisePart!GetEnter, PromisePart!GetStep
  <1>2. CASE P!GetLoad(t) BY <1>2, SeenGoto, ZenonT(60) DEF P!GetLoad, PromisePart!GetLoad, PromisePart!GetStep
  <1>3. CASE P!GetCopy(t) BY <1>3, SeenGoto, ZenonT(60) DEF P!GetCopy, PromisePart!GetCopy, PromisePart!GetStep
  <1>4. CASE P!GetRelease(t, "popRetry")
    BY <1>4, SeenGoto, ZenonT(60) DEF P!GetRelease, PromisePart!GetRelease, PromisePart!GetStep
  <1> QED BY <1>1, <1>2, <1>3, <1>4 DEF P!GetStep

LEMMA WakeIsPromise ==
  ASSUME Control, NEW t \in Thread, P!PopPromiseStep(t, ret[t])
  PROVE  PromisePart!PopPromiseStep(t, "idle")
  <1> USE DEF P!Goto, PromisePart!Goto, P!guardVars, PromisePart!guardVars, P!holdVars, PromisePart!holdVars,
              Seen, P!PromisePC, P!Copying, P!Replacing
  <1>r. ret[t] \in {"idle", "clear"} BY DEF Control
  <1>1. CASE P!PopPromiseEnter(t)
    BY <1>1, SeenGoto, ZenonT(60) DEF P!PopPromiseEnter, PromisePart!PopPromiseEnter, PromisePart!PopPromiseStep
  <1>2. CASE P!PopPromiseBusy(t, ret[t])
    BY <1>2, <1>r, SeenGoto, ZenonT(60) DEF P!PopPromiseBusy, PromisePart!PopPromiseBusy, PromisePart!PopPromiseStep
  <1>3. CASE P!PopPromiseSet(t)
    BY <1>3, SeenGoto, ZenonT(60) DEF P!PopPromiseSet, PromisePart!PopPromiseSet, PromisePart!PopPromiseStep
  <1>4. ASSUME NEW p \in Pair, P!PopPromiseNew(t, p) PROVE PromisePart!PopPromiseStep(t, "idle")
    <2>1. PromisePart!PopPromiseNew(t, p)
      BY <1>4, SeenGoto, ZenonT(60) DEF P!PopPromiseNew, PromisePart!PopPromiseNew, P!InUse, PromisePart!InUse
    <2> QED BY <2>1 DEF PromisePart!PopPromiseStep
  <1>5. CASE P!PopPromiseStore(t)
    BY <1>5, SeenGoto, ZenonT(60) DEF P!PopPromiseStore, PromisePart!PopPromiseStore, PromisePart!PopPromiseStep
  <1>6. CASE P!PopPromiseDelete(t)
    BY <1>6, SeenGoto, ZenonT(60) DEF P!PopPromiseDelete, PromisePart!PopPromiseDelete, PromisePart!PopPromiseStep
  <1>7. CASE P!PopPromiseExit(t, ret[t])
    BY <1>7, <1>r, SeenGoto, ZenonT(60) DEF P!PopPromiseExit, PromisePart!PopPromiseExit, PromisePart!PopPromiseStep
  <1> QED BY <1>1, <1>2, <1>3, <1>4, <1>5, <1>6, <1>7 DEF P!PopPromiseStep

(* A step from one place outside get_future and pop_promise to another. *)
Moves(t, to) == /\ pc[t] \in Outside /\ to \in Outside
                /\ pc' = [pc EXCEPT ![t] = to]

LEMMA OutsideSeen == \A place \in Outside : Seen(place) = "idle"
  BY DEF Seen, Outside, P!PromisePC, P!Copying, P!Replacing

LEMMA MovesUnseen ==
  ASSUME Control, NEW t \in Thread, NEW to, Moves(t, to)
  PROVE  promisePC' = promisePC /\ promisePC[t] = "idle"
  <1>0. Seen(pc[t]) = "idle" /\ Seen(to) = "idle" BY OutsideSeen DEF Moves
  <1>1. promisePC[t] = Seen(pc[t]) /\ promisePC' = [promisePC EXCEPT ![t] = Seen(to)]
    BY SeenGoto, ZenonT(60) DEF Moves
  <1>2. promisePC = [u \in Thread |-> promisePC[u]] BY DEF promisePC
  <1> QED BY <1>0, <1>1, <1>2

LEMMA BeginMoves ==
  ASSUME NEW t \in Thread, Begin(t)
  PROVE  (\E to : Moves(t, to)) /\ UNCHANGED <<stackVars, promiseVars, flagVars>>
  <1> USE DEF Moves, Outside, Call, Goto
  <1>1. CASE PopBegin(t) BY <1>1, ZenonT(60) DEF PopBegin
  <1>2. CASE PushBegin(t) BY <1>2, ZenonT(60) DEF PushBegin
  <1>3. CASE TerminateBegin(t) BY <1>3, ZenonT(60) DEF TerminateBegin
  <1>4. CASE CompletedBegin(t) BY <1>4, ZenonT(60) DEF CompletedBegin
  <1>5. CASE ClearBegin(t) BY <1>5, ZenonT(60) DEF ClearBegin
  <1> QED BY <1>1, <1>2, <1>3, <1>4, <1>5, ZenonT(60) DEF Begin

LEMMA QuietMoves ==
  ASSUME NEW t \in Thread,
         \/ PopMiss(t) \/ PushCheck(t) \/ SetTerminated(t)
         \/ ClearEmpty(t) \/ ClearTerminated(t) \/ ClearCompleted(t)
  PROVE  (\E to : Moves(t, to)) /\ UNCHANGED promiseVars
  <1> USE DEF Moves, Outside, Goto
  <1>1. CASE PopMiss(t) BY <1>1, ZenonT(60) DEF PopMiss
  <1>2. CASE PushCheck(t)
    <2>1. CASE completed_ BY <1>2, <2>1, ZenonT(60) DEF PushCheck
    <2>2. CASE ~completed_ BY <1>2, <2>2, ZenonT(60) DEF PushCheck
    <2> QED BY <2>1, <2>2
  <1>3. CASE SetTerminated(t) BY <1>3, ZenonT(60) DEF SetTerminated
  <1>4. CASE ClearEmpty(t) BY <1>4, ZenonT(60) DEF ClearEmpty
  <1>5. CASE ClearTerminated(t) BY <1>5, ZenonT(60) DEF ClearTerminated
  <1>6. CASE ClearCompleted(t) BY <1>6, ZenonT(60) DEF ClearCompleted
  <1> QED BY <1>1, <1>2, <1>3, <1>4, <1>5, <1>6, ZenonT(60)

(* pop_front lets go of its future, or tests a flag and goes on. *)
Drops(t) ==
  /\ \E to : Moves(t, to)
  /\ fut' = [fut EXCEPT ![t] = None]
  /\ UNCHANGED <<replaceFut_, promPtr_, futPtr_, promises, futures, ready, futptr, oldprom, futval>>

LEMMA PopMoves ==
  ASSUME NEW t \in Thread,
         \/ PopTerm(t) \/ PopFlagCompleted(t) \/ PopFlagTerminated(t) \/ PopTake(t) \/ PopWoken(t)
  PROVE  Drops(t) \/ (\E to : Moves(t, to) /\ UNCHANGED promiseVars)
  <1> USE DEF Moves, Outside, Goto
  <1>t. ASSUME Throw(t), pc[t] \in Outside PROVE Drops(t) BY <1>t, ZenonT(60) DEF Throw, Drops
  <1>1. CASE PopTerm(t) BY <1>1, <1>t, ZenonT(60) DEF PopTerm
  <1>2. CASE PopFlagCompleted(t) BY <1>2, <1>t, ZenonT(60) DEF PopFlagCompleted
  <1>3. CASE PopFlagTerminated(t) BY <1>3, <1>t, ZenonT(60) DEF PopFlagTerminated
  <1>4. CASE PopTake(t) BY <1>4, ZenonT(60) DEF PopTake, Trying, Drops
  <1>5. CASE PopWoken(t) BY <1>5, ZenonT(60) DEF PopWoken, Drops
  <1> QED BY <1>1, <1>2, <1>3, <1>4, <1>5, ZenonT(60)

LEMMA PromiseStep == Control /\ [Next]_vars => [PromisePart!Next]_PromisePart!vars
  <1> SUFFICES ASSUME Control, [Next]_vars PROVE [PromisePart!Next]_PromisePart!vars OBVIOUS
  <1>s. ASSUME UNCHANGED <<promiseVars, promisePC>> PROVE UNCHANGED PromisePart!vars
    BY <1>s, ZenonT(60) DEF promiseVars, PromisePart!vars
  <1>c. ASSUME UNCHANGED pc PROVE UNCHANGED promisePC
    BY <1>c, ZenonT(60) DEF promisePC, P!PromisePC, P!Copying, P!Replacing
  <1>d. ASSUME NEW t \in Thread, Drops(t) PROVE PromisePart!DropFuture(t)
    BY <1>d, MovesUnseen, ZenonT(60) DEF Drops, PromisePart!DropFuture, PromisePart!guardVars
  <1>m. ASSUME NEW t \in Thread, \E to : Moves(t, to), UNCHANGED promiseVars
        PROVE  UNCHANGED <<promiseVars, promisePC>>
    BY <1>m, MovesUnseen, ZenonT(60)
  <1>1. ASSUME NEW t \in Thread, Begin(t) PROVE UNCHANGED <<promiseVars, promisePC>>
    BY <1>1, <1>m, BeginMoves, ZenonT(60)
  <1>2. ASSUME NEW t \in Thread,
               \/ PopEnter(t) \/ PopInside(t) \/ PushEnter(t) \/ PushInside(t) \/ ClearPop(t)
        PROVE  UNCHANGED <<promiseVars, promisePC>>
    BY <1>2, <1>c, ZenonT(60) DEF PopEnter, PopInside, PushEnter, PushInside, ClearPop
  <1>3. ASSUME NEW t \in Thread,
               \/ PopMiss(t) \/ PushCheck(t) \/ SetTerminated(t)
               \/ ClearEmpty(t) \/ ClearTerminated(t) \/ ClearCompleted(t)
        PROVE  UNCHANGED <<promiseVars, promisePC>>
    BY <1>3, <1>m, QuietMoves, ZenonT(60)
  <1>4. ASSUME NEW t \in Thread,
               \/ PopTerm(t) \/ PopFlagCompleted(t) \/ PopFlagTerminated(t)
               \/ PopTake(t) \/ PopWoken(t)
        PROVE  PromisePart!DropFuture(t) \/ UNCHANGED <<promiseVars, promisePC>>
    BY <1>4, <1>d, <1>m, PopMoves, ZenonT(60)
  <1>e. Seen("getFuture") = "getFuture" /\ Seen("popPromise") = "popPromise"
    BY DEF Seen, P!PromisePC, P!Copying, P!Replacing
  <1>7. ASSUME NEW t \in Thread, PopCompleted(t)
        PROVE  PromisePart!DropFuture(t) \/ PromisePart!CallGetFuture(t)
    <2>o. pc[t] = "popCompleted" /\ pc[t] \in Outside
      BY <1>7, ZenonT(60) DEF PopCompleted, Outside
    <2>1. CASE Throw(t)
      <3>1. Drops(t) BY <2>o, <2>1, ZenonT(60) DEF Throw, Drops, Moves, Outside
      <3> QED BY <3>1, <1>d
    <2>2. CASE pc' = [pc EXCEPT ![t] = "getFuture"] /\ UNCHANGED promiseVars
      <3>1. fut[t] = None BY <2>o DEF Control, Holding
      <3>2. promisePC[t] = "idle" /\ promisePC' = [promisePC EXCEPT ![t] = "getFuture"]
        <4>1. /\ promisePC[t] = Seen(pc[t])
              /\ promisePC' = [promisePC EXCEPT ![t] = Seen("getFuture")]
          BY <2>2, SeenGoto, ZenonT(60)
        <4> QED BY <4>1, <2>o, <1>e, OutsideSeen, ZenonT(60)
      <3> QED BY <2>2, <3>1, <3>2, ZenonT(60)
              DEF PromisePart!CallGetFuture, PromisePart!Goto, PromisePart!promiseVars, promiseVars
    <2> QED BY <1>7, <2>1, <2>2, ZenonT(60) DEF PopCompleted
  <1>8. ASSUME NEW t \in Thread, PushDone(t) \/ SetCompleted(t) PROVE PromisePart!CallPopPromise(t)
    <2>1. /\ pc[t] \in {"push", "complete"} /\ pc' = [pc EXCEPT ![t] = "popPromise"]
          /\ UNCHANGED promiseVars
      BY <1>8, ZenonT(60) DEF PushDone, SetCompleted, Goto
    <2>2. fut[t] = None /\ pc[t] \in Outside BY <2>1 DEF Control, Holding, Outside
    <2>3. promisePC[t] = "idle" /\ promisePC' = [promisePC EXCEPT ![t] = "popPromise"]
      <3>1. /\ promisePC[t] = Seen(pc[t])
            /\ promisePC' = [promisePC EXCEPT ![t] = Seen("popPromise")]
        BY <2>1, SeenGoto, ZenonT(60)
      <3> QED BY <3>1, <2>2, <1>e, OutsideSeen, ZenonT(60)
    <2> QED BY <2>1, <2>2, <2>3, ZenonT(60)
            DEF PromisePart!CallPopPromise, PromisePart!Goto, PromisePart!promiseVars, promiseVars
  <1>9. ASSUME NEW t \in Thread, PopGetFuture(t) PROVE PromisePart!GetStep(t, "idle")
    BY <1>9, GetIsPromise, ZenonT(60) DEF PopGetFuture
  <1>10. ASSUME NEW t \in Thread, Wake(t) PROVE PromisePart!PopPromiseStep(t, "idle")
    BY <1>10, WakeIsPromise, ZenonT(60) DEF Wake
  <1>11. ASSUME UNCHANGED vars PROVE UNCHANGED <<promiseVars, promisePC>>
    BY <1>11, <1>c, ZenonT(60) DEF vars
  <1>12. ASSUME NEW t \in Thread, Begin(t) \/ Step(t) PROVE [PromisePart!Next]_PromisePart!vars
    BY <1>12, <1>s, <1>1, <1>2, <1>3, <1>4, <1>7, <1>8, <1>9, <1>10, ZenonT(60)
       DEF Step, PromisePart!Next
  <1> QED BY <1>11, <1>12, <1>s, ZenonT(60) DEF Next

-----------------------------------------------------------------------------
(* The control state *)

(* Only t moves, and only its own copy and its own place in the stack change. *)
Alone(t) ==
  \A u \in Thread : u # t => pc'[u] = pc[u] /\ fut'[u] = fut[u] /\ spc'[u] = spc[u]

LEMMA ControlMoves ==
  ASSUME Control, NEW t \in Thread, NEW to \in Places, pc' = [pc EXCEPT ![t] = to], Alone(t),
         fut'[t] # None <=> to \in Holding,
         spc'[t] = "thrown" => to \in {"popTry", "popRetry", "clear"},
         ret' \in [Thread -> {"idle", "clear"}]
  PROVE  Control'
  BY ZenonT(60) DEF Control, Alone

LEMMA InitControl == Init => Control
  BY DEF Init, Control, P!PromiseInit, S!Init, Holding, Places, Outside

(* What the steps inside Stack<T> do to the place of the thread. *)
LEMMA StackAlone ==
  ASSUME S!TypeOK, NEW t \in Thread,
         S!PopEmpty(t) \/ S!PopClaim(t) \/ S!PushStep(t) \/ S!PopStep(t) \/ \E e \in Entry : S!PushNew(t, e)
  PROVE  /\ \A u \in Thread : u # t => spc'[u] = spc[u]
         /\ spc'[t] = "thrown" => S!PopEmpty(t)
  <1> USE DEF S!TypeOK, S!Goto
  <1>1. CASE S!PopEmpty(t) BY <1>1 DEF S!PopEmpty
  <1>2. CASE S!PopClaim(t) BY <1>2 DEF S!PopClaim
  <1>3. CASE S!PushStep(t)
    BY <1>3 DEF S!PushStep, S!PushClaim, S!PushLink, S!PushLinkBottom, S!PushCount, S!PushTop
  <1>4. CASE S!PopStep(t)
    BY <1>4 DEF S!PopStep, S!PopClaimTop, S!PopWaitNext, S!PopCount, S!PopBottom, S!PopCountLast,
                S!PopBottomLast, S!PopTopLast, S!PopDelete, S!PopCatch
  <1>5. ASSUME NEW e \in Entry, S!PushNew(t, e) PROVE spc' = [spc EXCEPT ![t] = "claim"]
    BY <1>5, ZenonT(60) DEF S!PushNew
  <1> QED BY <1>1, <1>2, <1>3, <1>4, <1>5

LEMMA BeginControl ==
  ASSUME Control, NEW t \in Thread, Begin(t)
  PROVE  Control'
  <1>1. PICK to \in {"popTerm", "pushCheck", "terminate", "complete"} :
          pc' = [pc EXCEPT ![t] = to] /\ pc[t] = "idle"
    BY ZenonT(60) DEF Begin, PopBegin, PushBegin, TerminateBegin, CompletedBegin, ClearBegin, Call, Goto
  <1>2. fut' = fut /\ spc' = spc BY BeginMoves, ZenonT(60) DEF stackVars, promiseVars
  <1>3. ret' \in [Thread -> {"idle", "clear"}]
    BY DEF Control, Begin, PopBegin, PushBegin, TerminateBegin, CompletedBegin, ClearBegin
  <1>4. fut[t] = None /\ spc[t] # "thrown" BY <1>1 DEF Control, Holding
  <1>5. Alone(t) BY <1>1, <1>2 DEF Alone, Control
  <1>6. to \in Places /\ to \notin Holding BY DEF Places, Outside, Holding
  <1> QED BY <1>1, <1>2, <1>3, <1>4, <1>5, <1>6, ControlMoves, ZenonT(60)

(* The steps inside Stack<T> that leave pc as it is. *)
LEMMA InsideControl ==
  ASSUME Control, S!TypeOK, NEW t \in Thread,
         \/ PopEnter(t) \/ PopInside(t) \/ PushEnter(t) \/ PushInside(t) \/ ClearPop(t)
  PROVE  Control'
  <1>1. UNCHANGED <<pc, fut, ret>>
    BY ZenonT(60) DEF PopEnter, PopInside, PushEnter, PushInside, ClearPop, promiseVars, callerVars
  <1>2. S!PopEmpty(t) \/ S!PopClaim(t) \/ S!PushStep(t) \/ S!PopStep(t) \/ \E e \in Entry : S!PushNew(t, e)
    BY ZenonT(60) DEF PopEnter, PopInside, PushEnter, PushInside, ClearPop, S!PushStep
  <1>3. S!PopEmpty(t) => pc[t] \in {"popTry", "popRetry", "clear"}
    <2>1. S!PopEmpty(t) => spc[t] = "idle" BY ZenonT(60) DEF S!PopEmpty, S!Goto
    <2>2. S!PopStep(t) => spc[t] # "idle" 
      BY DEF S!PopStep, S!PopClaimTop, S!PopWaitNext, S!PopCount, S!PopBottom, S!PopCountLast,
             S!PopBottomLast, S!PopTopLast, S!PopDelete, S!PopCatch, S!Goto
    <2>3. PushEnter(t) => ~S!PopEmpty(t)
      <3>1. ASSUME NEW e \in Entry, S!PushNew(t, e) PROVE spc'[t] = "claim"
        BY <3>1 DEF S!PushNew, S!Goto, S!TypeOK
      <3>2. S!PopEmpty(t) => spc'[t] = "thrown" BY DEF S!PopEmpty, S!Goto, S!TypeOK
      <3> QED BY <3>1, <3>2 DEF PushEnter
    <2>4. PushInside(t) => spc[t] # "idle"
      BY DEF PushInside, S!PushClaim, S!PushLink, S!PushLinkBottom, S!PushCount, S!Goto
    <2> QED BY <2>1, <2>2, <2>3, <2>4, ZenonT(60) DEF PopEnter, PopInside, ClearPop, Trying
  <1> QED BY <1>1, <1>2, <1>3, StackAlone, ZenonT(60) DEF Control

(* A pop_front that stops, or that returns what it took. *)
LEMMA LeaveControl ==
  ASSUME Control, S!TypeOK, PromisePart!TypeOK, NEW t \in Thread, NEW to \in {"idle", "popTerm"},
         pc' = [pc EXCEPT ![t] = to], fut' = [fut EXCEPT ![t] = None], ret' = ret,
         \/ spc' = spc /\ spc[t] # "thrown"
         \/ spc' = [spc EXCEPT ![t] = "idle"]
  PROVE  Control'
  <1>1. fut'[t] = None BY DEF PromisePart!TypeOK
  <1>2. spc'[t] # "thrown" BY DEF S!TypeOK
  <1>3. Alone(t) BY DEF Alone, Control, PromisePart!TypeOK, S!TypeOK
  <1>4. to \in Places /\ to \notin Holding BY DEF Places, Outside, Holding
  <1> QED BY <1>1, <1>2, <1>3, <1>4, ControlMoves, ZenonT(60) DEF Control

(* A step that keeps the thread's future, if it has one. *)
LEMMA KeepControl ==
  ASSUME Control, S!TypeOK, NEW t \in Thread, NEW to \in Places,
         pc' = [pc EXCEPT ![t] = to], fut' = fut, pc[t] \in Holding <=> to \in Holding,
         \/ spc' = spc /\ spc[t] # "thrown"
         \/ spc' = [spc EXCEPT ![t] = "idle"],
         ret' \in [Thread -> {"idle", "clear"}]
  PROVE  Control'
  <1>1. fut'[t] # None <=> to \in Holding BY DEF Control
  <1>2. spc'[t] # "thrown" BY DEF S!TypeOK
  <1>3. Alone(t) BY DEF Alone, Control, S!TypeOK
  <1> QED BY <1>1, <1>2, <1>3, ControlMoves, ZenonT(60)

LEMMA PopControl ==
  ASSUME Control, S!TypeOK, PromisePart!TypeOK, NEW t \in Thread,
         \/ PopTerm(t) \/ PopCompleted(t) \/ PopFlagCompleted(t) \/ PopFlagTerminated(t)
         \/ PopTake(t) \/ PopWoken(t) \/ PopMiss(t)
  PROVE  Control'
  <1>r. ret \in [Thread -> {"idle", "clear"}] BY DEF Control
  <1>t. ASSUME pc[t] \in {"popTerm", "popCompleted", "popFlagCompleted", "popFlagTerminated"}
        PROVE  spc[t] # "thrown"
    BY <1>t DEF Control
  <1>1. ASSUME Throw(t), spc[t] # "thrown" PROVE Control'
    BY <1>1, LeaveControl, ZenonT(60) DEF Throw, stackVars
  <1>2. ASSUME PopTerm(t) PROVE Control'
    <2>1. pc[t] = "popTerm" /\ spc[t] # "thrown" BY <1>2, <1>t, ZenonT(60) DEF PopTerm
    <2>2. CASE terminated_ BY <1>2, <1>1, <2>1, <2>2, ZenonT(60) DEF PopTerm
    <2>3. CASE ~terminated_
      <3>1. /\ pc' = [pc EXCEPT ![t] = "popTry"] /\ fut' = fut /\ spc' = spc /\ ret' = ret
        BY <1>2, <2>3, ZenonT(60) DEF PopTerm, stackVars, promiseVars, callerVars
      <3>2. "popTry" \in Places /\ (pc[t] \in Holding <=> "popTry" \in Holding)
        BY <2>1 DEF Places, Outside, Holding
      <3> QED BY <3>1, <3>2, <2>1, <1>r, KeepControl, ZenonT(60)
    <2> QED BY <2>2, <2>3
  <1>3. ASSUME PopCompleted(t) PROVE Control'
    <2>1. pc[t] = "popCompleted" /\ spc[t] # "thrown" BY <1>3, <1>t, ZenonT(60) DEF PopCompleted
    <2>2. CASE completed_ BY <1>3, <1>1, <2>1, <2>2, ZenonT(60) DEF PopCompleted
    <2>3. CASE ~completed_
      <3>1. /\ pc' = [pc EXCEPT ![t] = "getFuture"] /\ fut' = fut /\ spc' = spc /\ ret' = ret
        BY <1>3, <2>3, ZenonT(60) DEF PopCompleted, stackVars, promiseVars, callerVars
      <3>2. "getFuture" \in Places /\ (pc[t] \in Holding <=> "getFuture" \in Holding)
        BY <2>1 DEF Places, Outside, Holding, P!PromisePC
      <3> QED BY <3>1, <3>2, <2>1, <1>r, KeepControl, ZenonT(60)
    <2> QED BY <2>2, <2>3
  <1>4. ASSUME PopFlagCompleted(t) PROVE Control'
    <2>1. pc[t] = "popFlagCompleted" /\ spc[t] # "thrown"
      BY <1>4, <1>t, ZenonT(60) DEF PopFlagCompleted
    <2>2. CASE completed_ BY <1>4, <1>1, <2>1, <2>2, ZenonT(60) DEF PopFlagCompleted
    <2>3. CASE ~completed_
      <3>1. /\ pc' = [pc EXCEPT ![t] = "popFlagTerminated"] /\ fut' = fut /\ spc' = spc /\ ret' = ret
        BY <1>4, <2>3, ZenonT(60) DEF PopFlagCompleted, stackVars, promiseVars, callerVars
      <3>2. "popFlagTerminated" \in Places /\ (pc[t] \in Holding <=> "popFlagTerminated" \in Holding)
        BY <2>1 DEF Places, Outside, Holding
      <3> QED BY <3>1, <3>2, <2>1, <1>r, KeepControl, ZenonT(60)
    <2> QED BY <2>2, <2>3
  <1>5. ASSUME PopFlagTerminated(t) PROVE Control'
    <2>1. pc[t] = "popFlagTerminated" /\ spc[t] # "thrown"
      BY <1>5, <1>t, ZenonT(60) DEF PopFlagTerminated
    <2>2. CASE terminated_ BY <1>5, <1>1, <2>1, <2>2, ZenonT(60) DEF PopFlagTerminated
    <2>3. CASE ~terminated_
      <3>1. /\ pc' = [pc EXCEPT ![t] = "popWait"] /\ fut' = fut /\ spc' = spc /\ ret' = ret
        BY <1>5, <2>3, ZenonT(60) DEF PopFlagTerminated, stackVars, promiseVars, callerVars
      <3>2. "popWait" \in Places /\ (pc[t] \in Holding <=> "popWait" \in Holding)
        BY <2>1 DEF Places, Outside, Holding
      <3> QED BY <3>1, <3>2, <2>1, <1>r, KeepControl, ZenonT(60)
    <2> QED BY <2>2, <2>3
  <1>6. ASSUME PopTake(t) PROVE Control'
    BY <1>6, LeaveControl, ZenonT(60) DEF PopTake, S!PopDelete, S!Goto
  <1>7. ASSUME PopWoken(t) PROVE Control'
    <2>1. spc[t] # "thrown" BY <1>7 DEF PopWoken, Goto, Control
    <2> QED BY <1>7, <2>1, LeaveControl, ZenonT(60) DEF PopWoken, Goto, stackVars, callerVars
  <1>8. ASSUME PopMiss(t) PROVE Control'
    <2>1. spc' = [spc EXCEPT ![t] = "idle"] /\ fut' = fut /\ ret' = ret
      BY <1>8, ZenonT(60) DEF PopMiss, S!PopCatch, S!Goto, promiseVars, callerVars
    <2>2. PICK to \in {"popCompleted", "popFlagCompleted"} :
            /\ pc' = [pc EXCEPT ![t] = to]
            /\ pc[t] = IF to = "popCompleted" THEN "popTry" ELSE "popRetry"
      BY <1>8 DEF PopMiss, Goto
    <2>3. to \in Places /\ (pc[t] \in Holding <=> to \in Holding)
      BY <2>2 DEF Places, Outside, Holding
    <2> QED BY <2>1, <2>2, <2>3, <1>r, KeepControl, ZenonT(60)
  <1> QED BY <1>2, <1>3, <1>4, <1>5, <1>6, <1>7, <1>8

LEMMA OwnerControl ==
  ASSUME Control, S!TypeOK, NEW t \in Thread,
         \/ PushCheck(t) \/ PushDone(t) \/ SetTerminated(t) \/ SetCompleted(t)
         \/ ClearEmpty(t) \/ ClearTerminated(t) \/ ClearCompleted(t)
  PROVE  Control'
  <1>1. ret' \in [Thread -> {"idle", "clear"}]
    BY DEF Control, PushCheck, PushDone, SetTerminated, SetCompleted, ClearEmpty, ClearTerminated,
           ClearCompleted, callerVars
  <1>2. fut' = fut
    BY ZenonT(60) DEF PushCheck, PushDone, SetTerminated, SetCompleted, ClearEmpty, ClearTerminated,
           ClearCompleted, promiseVars
  <1>3. PICK to \in {"idle", "push", "popPromise", "complete", "clearTerminated", "clearCompleted"} :
          pc' = [pc EXCEPT ![t] = to]
    <2>1. CASE PushCheck(t)
      BY <2>1, ZenonT(60) DEF PushCheck, Goto
    <2> QED BY <2>1, ZenonT(60) DEF PushDone, SetTerminated, SetCompleted, ClearEmpty, ClearTerminated,
           ClearCompleted, Goto
  <1>4. /\ pc[t] \in {"pushCheck", "push", "terminate", "complete", "clear", "clearTerminated",
                      "clearCompleted"}
        /\ \/ spc' = spc /\ pc[t] # "clear"
           \/ spc' = [spc EXCEPT ![t] = "idle"]
    BY DEF PushCheck, PushDone, SetTerminated, SetCompleted, ClearEmpty, ClearTerminated,
           ClearCompleted, Goto, S!PushTop, S!PopCatch, S!Goto, stackVars
  <1>5. spc' = spc => spc[t] # "thrown" \/ spc' = [spc EXCEPT ![t] = "idle"] BY <1>4 DEF Control
  <1>6. to \in Places /\ (pc[t] \in Holding <=> to \in Holding)
    BY <1>4 DEF Places, Outside, Holding, P!PromisePC
  <1> QED BY <1>1, <1>2, <1>3, <1>4, <1>5, <1>6, KeepControl, ZenonT(60)

LEMMA GetControl ==
  ASSUME Control, Parts, None \notin Pair, NEW t \in Thread, PopGetFuture(t)
  PROVE  Control'
  <1>1. UNCHANGED <<spc, ret>> /\ P!GetStep(t, "popRetry")
    BY ZenonT(60) DEF PopGetFuture, stackVars, callerVars
  <1>2. ret' \in [Thread -> {"idle", "clear"}] BY <1>1 DEF Control
  <1>3. S!TypeOK /\ PromisePart!TypeOK BY ZenonT(60) DEF Parts
  <1> USE DEF P!guardVars, P!holdVars, P!Goto
  <1>4. CASE P!GetCopy(t)
    <2>1. /\ pc[t] = "copy" /\ pc' = [pc EXCEPT ![t] = "release"]
          /\ fut' = [fut EXCEPT ![t] = futptr[t]]
      BY <1>4, ZenonT(60) DEF P!GetCopy
    <2>2. futptr[t] \in Pair BY <2>1 DEF Parts
    <2>3. fut'[t] # None BY <2>1, <2>2 DEF Parts, PromisePart!TypeOK
    <2>4. Alone(t) BY <1>1, <2>1 DEF Alone, Control, Parts, PromisePart!TypeOK
    <2>5. spc'[t] # "thrown" BY <1>1, <2>1 DEF Control
    <2>6. "release" \in Places /\ "release" \in Holding
      BY DEF Places, Holding, P!PromisePC, P!Copying
    <2> QED BY <2>1, <2>3, <2>4, <2>5, <2>6, <1>2, ControlMoves, ZenonT(60)
  <1>5. CASE P!GetEnter(t) \/ P!GetLoad(t) \/ P!GetRelease(t, "popRetry")
    <2>1. fut' = fut BY <1>5, ZenonT(60) DEF P!GetEnter, P!GetLoad, P!GetRelease
    <2>2. PICK from, to : /\ pc[t] = from /\ pc' = [pc EXCEPT ![t] = to]
                          /\ \/ from = "getFuture" /\ to = "load"
                             \/ from = "load" /\ to = "copy"
                             \/ from = "release" /\ to = "popRetry"
      BY <1>5, ZenonT(60) DEF P!GetEnter, P!GetLoad, P!GetRelease
    <2>3. to \in Places /\ (pc[t] \in Holding <=> to \in Holding)
      BY <2>2 DEF Places, Outside, Holding, P!PromisePC, P!Copying
    <2>4. spc[t] # "thrown" BY <2>2 DEF Control
    <2> QED BY <2>1, <2>2, <2>3, <2>4, <1>1, <1>2, <1>3, KeepControl, ZenonT(60)
  <1> QED BY <1>1, <1>4, <1>5 DEF P!GetStep

LEMMA WakeControl ==
  ASSUME Control, S!TypeOK, NEW t \in Thread, Wake(t)
  PROVE  Control'
  <1>1. UNCHANGED <<spc, ret>> /\ P!PopPromiseStep(t, ret[t])
    BY ZenonT(60) DEF Wake, stackVars
  <1>2. ret' \in [Thread -> {"idle", "clear"}] BY <1>1 DEF Control
  <1> USE DEF P!guardVars, P!holdVars, P!Goto
  <1>3. fut' = fut
    BY <1>1, ZenonT(60) DEF P!PopPromiseStep, P!PopPromiseEnter, P!PopPromiseBusy, P!PopPromiseSet,
       P!PopPromiseNew, P!PopPromiseStore, P!PopPromiseDelete, P!PopPromiseExit
  <1>4. PICK to \in P!Replacing \cup {ret[t]} :
          pc[t] \in P!Replacing \cup {"popPromise"} /\ pc' = [pc EXCEPT ![t] = to]
    BY <1>1, ZenonT(60) DEF P!PopPromiseStep, P!PopPromiseEnter, P!PopPromiseBusy, P!PopPromiseSet,
       P!PopPromiseNew, P!PopPromiseStore, P!PopPromiseDelete, P!PopPromiseExit, P!Replacing
  <1>5. ret[t] \in {"idle", "clear"} BY DEF Control
  <1>6. to \in Places /\ to \notin Holding /\ pc[t] \notin Holding
    BY <1>4, <1>5 DEF Places, Outside, Holding, P!PromisePC, P!Replacing
  <1>7. spc[t] # "thrown" BY <1>4 DEF Control, P!Replacing
  <1> QED BY <1>1, <1>2, <1>3, <1>4, <1>6, <1>7, KeepControl, ZenonT(60)

LEMMA NextControl ==
  ASSUME Control, Parts, [Next]_vars, None \notin Pair
  PROVE  Control'
  <1>1. S!TypeOK /\ PromisePart!TypeOK BY ZenonT(60) DEF Parts
  <1>2. ASSUME UNCHANGED vars PROVE Control'
    <2>1. UNCHANGED <<pc, ret, fut, spc>> BY <1>2, ZenonT(60) DEF vars, stackVars, promiseVars, callerVars
    <2> QED BY <2>1, ZenonT(60) DEF Control
  <1>3. ASSUME NEW t \in Thread, Begin(t) \/ Step(t) PROVE Control'
    BY <1>1, <1>3, BeginControl, InsideControl, PopControl, OwnerControl, GetControl, WakeControl,
       ZenonT(60) DEF Step
  <1> QED BY <1>2, <1>3, ZenonT(60) DEF Next

-----------------------------------------------------------------------------
(* The wake-ups that are owed *)

LEMMA WakerWaits ==
  ASSUME NEW t \in Thread, WillWake(t)'
  PROVE  Waits'
  BY DEF Waits

(* A step that tells no waiting thread anything new. *)
LEMMA AloneWaits ==
  ASSUME Waits, NEW t \in Thread, Alone(t),
         queue' # << >> => queue # << >>, completed_' => completed_, terminated_' => terminated_,
         Overlooked(t)' => Overlooked(t) /\ fut'[t] = fut[t],
         WillWake(t) => WillWake(t)',
         \A u \in Thread : fut[u] \in ready => fut[u] \in ready'
  PROVE  Waits'
  <1> SUFFICES ASSUME NEW u \in Thread, Overlooked(u)', fut'[u] \notin ready'
               PROVE  \E v \in Thread : WillWake(v)'
    BY DEF Waits
  <1>1. Overlooked(u) /\ fut'[u] = fut[u]
    <2>1. CASE u = t BY <2>1, ZenonT(60)
    <2>2. CASE u # t BY <2>2, ZenonT(60) DEF Alone, Overlooked, Missed
    <2> QED BY <2>1, <2>2
  <1>2. PICK v \in Thread : WillWake(v) BY <1>1, ZenonT(60) DEF Waits
  <1>3. WillWake(v)'
    <2>1. CASE v = t BY <1>2, <2>1, ZenonT(60)
    <2>2. CASE v # t BY <1>2, <2>2, ZenonT(60) DEF Alone, WillWake
    <2> QED BY <2>1, <2>2
  <1> QED BY <1>3

LEMMA IsAlone ==
  ASSUME Control, PromisePart!TypeOK, NEW t \in Thread,
         pc' = pc \/ \E to : pc' = [pc EXCEPT ![t] = to],
         fut' = fut \/ \E f : fut' = [fut EXCEPT ![t] = f],
         \A u \in Thread : u # t => spc'[u] = spc[u]
  PROVE  Alone(t)
  <1>1. ASSUME NEW u \in Thread, u # t PROVE pc'[u] = pc[u] /\ fut'[u] = fut[u]
    BY <1>1 DEF Control, PromisePart!TypeOK
  <1> QED BY <1>1 DEF Alone

Waiters == {"popRetry", "popFlagCompleted", "popFlagTerminated", "popWait"}

(* A step of a thread that does not wait after it, and was not on its way  *)
(* to pop_promise.                                                         *)
LEMMA AwayWaits ==
  ASSUME Waits, NEW t \in Thread, Alone(t), pc'[t] \notin Waiters, ~WillWake(t),
         queue' # << >> => queue # << >>, completed_' => completed_, terminated_' => terminated_,
         ready' = ready
  PROVE  Waits'
  <1>1. ~Overlooked(t)' BY ZenonT(60) DEF Overlooked, Missed, Waiters
  <1> QED BY <1>1, AloneWaits, ZenonT(60)

LEMMA BeginWaits ==
  ASSUME Inv, NEW t \in Thread, Begin(t)
  PROVE  Waits'
  <1>1. PICK to \in {"popTerm", "pushCheck", "terminate", "complete"} :
          pc' = [pc EXCEPT ![t] = to] /\ pc[t] = "idle"
    BY ZenonT(60) DEF Begin, PopBegin, PushBegin, TerminateBegin, CompletedBegin, ClearBegin, Call, Goto
  <1>2. UNCHANGED <<fut, spc, queue, completed_, terminated_, ready>>
    BY BeginMoves, ZenonT(60) DEF stackVars, promiseVars, flagVars
  <1>3. Alone(t) BY <1>1, <1>2, IsAlone, ZenonT(60) DEF Inv, Parts
  <1>4. pc'[t] \notin Waiters /\ ~WillWake(t) BY <1>1 DEF Inv, Control, Waiters, WillWake
  <1> QED BY <1>2, <1>3, <1>4, AwayWaits, ZenonT(60) DEF Inv

(* The steps by which pop_front and clear stop, return or go round. *)
LEMMA LeaveWaits ==
  ASSUME Inv, NEW t \in Thread, NEW to, pc' = [pc EXCEPT ![t] = to], to \notin Waiters,
         pc[t] \notin {"push", "complete", "popPromise", "setValue"},
         fut' = fut \/ fut' = [fut EXCEPT ![t] = None],
         \A u \in Thread : u # t => spc'[u] = spc[u],
         queue' = queue, completed_' => completed_, terminated_' => terminated_, ready' = ready
  PROVE  Waits'
  <1>1. Alone(t) BY IsAlone, ZenonT(60) DEF Inv, Parts
  <1>2. pc'[t] = to BY DEF Inv, Control
  <1>3. ~WillWake(t) BY DEF WillWake
  <1> QED BY <1>1, <1>2, <1>3, AwayWaits, ZenonT(60) DEF Inv

(* A test of a flag: if it is set pop_front stops, otherwise it goes on. *)
LEMMA ThrowWaits ==
  ASSUME Inv, NEW t \in Thread, Throw(t), ~WillWake(t)
  PROVE  Waits'
  <1>1. "idle" \notin Waiters BY DEF Waiters
  <1>2. /\ pc' = [pc EXCEPT ![t] = "idle"] /\ fut' = [fut EXCEPT ![t] = None]
        /\ UNCHANGED <<spc, queue, completed_, terminated_, ready>>
    BY ZenonT(60) DEF Throw, stackVars, flagVars
  <1> QED BY <1>1, <1>2, LeaveWaits, ZenonT(60) DEF WillWake

(* The flags are tested in the order in which a waiting thread may have    *)
(* overlooked them.                                                        *)
LEMMA OnwardWaits ==
  ASSUME Inv, NEW t \in Thread, NEW to \in Waiters, pc' = [pc EXCEPT ![t] = to],
         \/ pc[t] = "popRetry" /\ spc[t] = "thrown" /\ to = "popFlagCompleted"
         \/ pc[t] = "popFlagCompleted" /\ ~completed_ /\ to = "popFlagTerminated"
         \/ pc[t] = "popFlagTerminated" /\ ~terminated_ /\ to = "popWait",
         \A u \in Thread : u # t => spc'[u] = spc[u],
         UNCHANGED <<fut, queue, completed_, terminated_, ready>>
  PROVE  Waits'
  <1>1. Alone(t) BY IsAlone, ZenonT(60) DEF Inv, Parts
  <1>2. pc'[t] = to BY DEF Inv, Control
  <1>3. ~WillWake(t) BY DEF WillWake
  <1>4. Overlooked(t)' => Overlooked(t) BY <1>2 DEF Overlooked, Missed
  <1> QED BY <1>1, <1>3, <1>4, AloneWaits, ZenonT(60) DEF Inv

LEMMA PopWaits ==
  ASSUME Inv, NEW t \in Thread,
         \/ PopTerm(t) \/ PopCompleted(t) \/ PopFlagCompleted(t) \/ PopFlagTerminated(t)
         \/ PopTake(t) \/ PopWoken(t) \/ PopMiss(t)
  PROVE  Waits'
  <1>s. S!TypeOK BY ZenonT(60) DEF Inv, Parts
  <1>w. {"popTry", "getFuture", "idle", "popTerm", "popCompleted"} \cap Waiters = {}
    BY DEF Waiters
  <1>v. ASSUME pc[t] \in {"popTerm", "popCompleted", "popFlagCompleted", "popFlagTerminated",
                          "popTry", "popRetry", "popWait"}
        PROVE  /\ ~WillWake(t) /\ pc[t] \notin {"push", "complete", "popPromise", "setValue"}
    BY <1>v DEF WillWake
  <1>1. ASSUME PopTerm(t) PROVE Waits'
    <2>1. pc[t] = "popTerm" /\ ~WillWake(t) BY <1>1, <1>v, ZenonT(60) DEF PopTerm
    <2>2. CASE Throw(t) BY <2>1, <2>2, ThrowWaits
    <2>3. CASE pc' = [pc EXCEPT ![t] = "popTry"] /\ UNCHANGED <<stackVars, promiseVars, flagVars>>
      BY <2>1, <2>3, <1>v, <1>w, LeaveWaits, ZenonT(60) DEF stackVars, promiseVars, flagVars
    <2> QED BY <1>1, <2>2, <2>3, ZenonT(60) DEF PopTerm
  <1>2. ASSUME PopCompleted(t) PROVE Waits'
    <2>1. pc[t] = "popCompleted" /\ ~WillWake(t) BY <1>2, <1>v, ZenonT(60) DEF PopCompleted
    <2>2. CASE Throw(t) BY <2>1, <2>2, ThrowWaits
    <2>3. CASE pc' = [pc EXCEPT ![t] = "getFuture"] /\ UNCHANGED <<stackVars, promiseVars, flagVars>>
      BY <2>1, <2>3, <1>v, <1>w, LeaveWaits, ZenonT(60) DEF stackVars, promiseVars, flagVars
    <2> QED BY <1>2, <2>2, <2>3, ZenonT(60) DEF PopCompleted
  <1>3. ASSUME PopFlagCompleted(t) PROVE Waits'
    <2>1. pc[t] = "popFlagCompleted" /\ ~WillWake(t)
      BY <1>3, <1>v, ZenonT(60) DEF PopFlagCompleted
    <2>2. CASE Throw(t) BY <2>1, <2>2, ThrowWaits
    <2>3. CASE /\ ~completed_ /\ pc' = [pc EXCEPT ![t] = "popFlagTerminated"]
               /\ UNCHANGED <<stackVars, promiseVars, flagVars>>
      BY <2>1, <2>3, OnwardWaits, ZenonT(60) DEF stackVars, promiseVars, flagVars, Waiters
    <2> QED BY <1>3, <2>2, <2>3, ZenonT(60) DEF PopFlagCompleted
  <1>4. ASSUME PopFlagTerminated(t) PROVE Waits'
    <2>1. pc[t] = "popFlagTerminated" /\ ~WillWake(t)
      BY <1>4, <1>v, ZenonT(60) DEF PopFlagTerminated
    <2>2. CASE Throw(t) BY <2>1, <2>2, ThrowWaits
    <2>3. CASE /\ ~terminated_ /\ pc' = [pc EXCEPT ![t] = "popWait"]
               /\ UNCHANGED <<stackVars, promiseVars, flagVars>>
      BY <2>1, <2>3, OnwardWaits, ZenonT(60) DEF stackVars, promiseVars, flagVars, Waiters
    <2> QED BY <1>4, <2>2, <2>3, ZenonT(60) DEF PopFlagTerminated
  <1>5. ASSUME PopTake(t) PROVE Waits'
    <2>1. /\ pc[t] \in {"popTry", "popRetry"} /\ pc' = [pc EXCEPT ![t] = "idle"]
          /\ fut' = [fut EXCEPT ![t] = None] /\ queue' = queue
          /\ UNCHANGED <<completed_, terminated_, ready>> /\ S!PopStep(t)
      BY <1>5, ZenonT(60) DEF PopTake, Trying, S!PopDelete, S!PopStep, flagVars
    <2> QED BY <2>1, <1>s, <1>v, <1>w, StackAlone, LeaveWaits, ZenonT(60)
  <1>6. ASSUME PopWoken(t) PROVE Waits'
    <2>1. /\ pc[t] = "popWait" /\ pc' = [pc EXCEPT ![t] = "popTerm"]
          /\ fut' = [fut EXCEPT ![t] = None] /\ UNCHANGED <<queue, spc, completed_, terminated_, ready>>
      BY <1>6, ZenonT(60) DEF PopWoken, Goto, stackVars, flagVars
    <2> QED BY <2>1, <1>v, <1>w, LeaveWaits, ZenonT(60)
  <1>7. ASSUME PopMiss(t) PROVE Waits'
    <2>1. /\ spc[t] = "thrown" /\ S!PopStep(t)
          /\ UNCHANGED <<fut, queue, completed_, terminated_, ready>>
      BY <1>7, ZenonT(60) DEF PopMiss, S!PopCatch, S!PopStep, S!Goto, promiseVars, flagVars
    <2>2. \A u \in Thread : u # t => spc'[u] = spc[u] BY <2>1, <1>s, StackAlone, ZenonT(60)
    <2>3. CASE Goto(t, "popTry", "popCompleted")
      BY <2>1, <2>2, <2>3, <1>v, <1>w, LeaveWaits, ZenonT(60) DEF Goto
    <2>4. CASE Goto(t, "popRetry", "popFlagCompleted")
      BY <2>1, <2>2, <2>4, OnwardWaits, ZenonT(60) DEF Goto, Waiters
    <2> QED BY <1>7, <2>3, <2>4, ZenonT(60) DEF PopMiss
  <1> QED BY <1>1, <1>2, <1>3, <1>4, <1>5, <1>6, <1>7

LEMMA OwnerWaits ==
  ASSUME Inv, NEW t \in Thread,
         \/ PushCheck(t) \/ ClearEmpty(t) \/ ClearTerminated(t) \/ ClearCompleted(t)
  PROVE  Waits'
  <1>s. S!TypeOK BY ZenonT(60) DEF Inv, Parts
  <1>1. PICK to \in {"idle", "push", "clearTerminated", "clearCompleted"} :
          pc' = [pc EXCEPT ![t] = to]
    <2>1. CASE PushCheck(t) BY <2>1, ZenonT(60) DEF PushCheck, Goto
    <2> QED BY <2>1, ZenonT(60) DEF ClearEmpty, ClearTerminated, ClearCompleted, Goto
  <1>2. pc[t] \notin {"push", "complete", "popPromise", "setValue"} /\ to \notin Waiters
    BY DEF PushCheck, ClearEmpty, ClearTerminated, ClearCompleted, Goto, Waiters
  <1>3. UNCHANGED <<fut, queue, ready>> /\ (spc' = spc \/ S!PopStep(t))
    <2>1. CASE ClearEmpty(t)
      BY <2>1, ZenonT(60) DEF ClearEmpty, S!PopCatch, S!PopStep, promiseVars
    <2>2. CASE PushCheck(t) \/ ClearTerminated(t) \/ ClearCompleted(t)
      BY <2>2, ZenonT(60) DEF PushCheck, ClearTerminated, ClearCompleted, stackVars, promiseVars
    <2> QED BY <2>1, <2>2
  <1>4. (completed_' => completed_) /\ (terminated_' => terminated_)
    <2>1. CASE PushCheck(t) \/ ClearEmpty(t)
      <3>1. UNCHANGED <<completed_, terminated_>>
        BY <2>1, ZenonT(60) DEF PushCheck, ClearEmpty, flagVars
      <3> QED BY <3>1
    <2>2. CASE ClearTerminated(t) BY <2>2, ZenonT(60) DEF ClearTerminated
    <2>3. CASE ClearCompleted(t) BY <2>3, ZenonT(60) DEF ClearCompleted
    <2> QED BY <2>1, <2>2, <2>3
  <1>5. \A u \in Thread : u # t => spc'[u] = spc[u] BY <1>3, <1>s, StackAlone, ZenonT(60)
  <1> QED BY <1>1, <1>2, <1>3, <1>4, <1>5, LeaveWaits, ZenonT(60)

LEMMA WakersWait ==
  ASSUME Inv, NEW t \in Thread,
         PushEnter(t) \/ PushInside(t) \/ PushDone(t) \/ SetTerminated(t) \/ SetCompleted(t)
  PROVE  Waits'
  <1>1. \/ pc' = pc /\ pc[t] = "push"
        \/ \E to \in {"popPromise", "complete"} : pc' = [pc EXCEPT ![t] = to]
    BY ZenonT(60) DEF PushEnter, PushInside, PushDone, SetTerminated, SetCompleted, Goto
  <1>2. pc'[t] \in {"push", "popPromise", "complete"} BY <1>1 DEF Inv, Control
  <1>3. WillWake(t)' BY <1>2, ZenonT(60) DEF WillWake
  <1> QED BY <1>3, WakerWaits

(* IsEmpty is thrown when there is nothing to wake for, and nothing but a  *)
(* push makes the container longer.                                        *)
LEMMA TakeShrinks ==
  ASSUME Parts, NEW t \in Thread, S!PopEmpty(t) \/ S!PopClaim(t) \/ S!PopStep(t)
  PROVE  (queue' # << >> => queue # << >>) /\ (S!PopEmpty(t) => queue' = << >>)
  <1>1. CASE S!PopEmpty(t)
    BY <1>1, ZenonT(60) DEF S!PopEmpty, Parts
  <1>2. CASE S!PopClaim(t)
    <2>1. bottom_ \in Entry BY <1>2 DEF S!PopClaim, Parts, S!TypeOK, S!Pointer
    <2>2. queue # << >> BY <2>1, ZenonT(60) DEF Parts
    <2>3. ~S!PopEmpty(t)
      BY <1>2, ZenonT(60) DEF S!PopClaim, S!PopEmpty
    <2> QED BY <2>2, <2>3
  <1>3. CASE S!PopStep(t)
    <2>1. queue' = queue
      BY <1>3, ZenonT(60) DEF S!PopStep, S!PopClaimTop, S!PopWaitNext, S!PopCount, S!PopBottom,
         S!PopCountLast, S!PopBottomLast, S!PopTopLast, S!PopDelete, S!PopCatch
    <2> QED BY <2>1, <1>1
  <1> QED BY <1>1, <1>2, <1>3

LEMMA InsideWaits ==
  ASSUME Inv, NEW t \in Thread, PopEnter(t) \/ PopInside(t) \/ ClearPop(t)
  PROVE  Waits'
  <1>1. /\ UNCHANGED <<pc, fut, ready, completed_, terminated_>>
        /\ pc[t] \in {"popTry", "popRetry", "clear"}
        /\ S!PopEmpty(t) \/ S!PopClaim(t) \/ S!PopStep(t)
    BY ZenonT(60) DEF PopEnter, PopInside, ClearPop, Trying, promiseVars, flagVars
  <1>2. S!TypeOK /\ Parts BY ZenonT(60) DEF Inv, Parts
  <1>3. /\ \A u \in Thread : u # t => spc'[u] = spc[u]
        /\ spc'[t] = "thrown" => S!PopEmpty(t)
    BY <1>1, <1>2, StackAlone, ZenonT(60)
  <1>4. (queue' # << >> => queue # << >>) /\ (S!PopEmpty(t) => queue' = << >>)
    BY <1>1, <1>2, TakeShrinks, ZenonT(60)
  <1>5. Alone(t) BY <1>1, <1>3, IsAlone, ZenonT(60) DEF Inv, Parts
  <1>6. ~Overlooked(t)' BY <1>1, <1>3, <1>4, ZenonT(60) DEF Overlooked, Missed
  <1>7. ~WillWake(t) BY <1>1 DEF WillWake
  <1> QED BY <1>1, <1>4, <1>5, <1>6, <1>7, AloneWaits, ZenonT(60) DEF Inv

LEMMA GetWaits ==
  ASSUME Inv, NEW t \in Thread, PopGetFuture(t)
  PROVE  Waits'
  <1> USE DEF P!guardVars, P!holdVars, P!Goto
  <1>1. /\ UNCHANGED <<spc, queue, completed_, terminated_>> /\ P!GetStep(t, "popRetry")
    BY ZenonT(60) DEF PopGetFuture, stackVars, flagVars
  <1>2. PICK from, to : /\ pc[t] = from /\ pc' = [pc EXCEPT ![t] = to]
                        /\ from \in {"getFuture", "load", "copy", "release"}
                        /\ to \in {"load", "copy", "release", "popRetry"}
    BY <1>1, ZenonT(60) DEF P!GetStep, P!GetEnter, P!GetLoad, P!GetCopy, P!GetRelease
  <1>3. ready' = ready /\ (fut' = fut \/ \E f : fut' = [fut EXCEPT ![t] = f])
    BY <1>1, ZenonT(60) DEF P!GetStep, P!GetEnter, P!GetLoad, P!GetCopy, P!GetRelease
  <1>4. Alone(t) BY <1>1, <1>2, <1>3, IsAlone, ZenonT(60) DEF Inv, Parts
  <1>5. spc[t] # "thrown" /\ pc'[t] = to BY <1>2 DEF Inv, Control
  <1>6. ~Overlooked(t)' BY <1>1, <1>2, <1>5 DEF Overlooked, Missed
  <1>7. ~WillWake(t) BY <1>2 DEF WillWake
  <1> QED BY <1>1, <1>3, <1>4, <1>6, <1>7, AloneWaits, ZenonT(60) DEF Inv

LEMMA WakeWaits ==
  ASSUME Inv, NEW t \in Thread, Wake(t)
  PROVE  Waits'
  <1> USE DEF P!guardVars, P!holdVars, P!Goto
  <1>1. /\ UNCHANGED <<spc, queue, completed_, terminated_>> /\ P!PopPromiseStep(t, ret[t])
    BY ZenonT(60) DEF Wake, stackVars, flagVars
  <1>2. PICK to \in P!Replacing \cup {ret[t]} :
          pc[t] \in P!Replacing \cup {"popPromise"} /\ pc' = [pc EXCEPT ![t] = to]
    BY <1>1, ZenonT(60) DEF P!PopPromiseStep, P!PopPromiseEnter, P!PopPromiseBusy, P!PopPromiseSet,
       P!PopPromiseNew, P!PopPromiseStore, P!PopPromiseDelete, P!PopPromiseExit, P!Replacing
  <1>3. pc'[t] = to /\ to \notin Waiters /\ ret[t] \in {"idle", "clear"}
    BY <1>2 DEF Inv, Control, Waiters, P!Replacing
  <1>4. fut' = fut
    BY <1>1, ZenonT(60) DEF P!PopPromiseStep, P!PopPromiseEnter, P!PopPromiseBusy, P!PopPromiseSet,
       P!PopPromiseNew, P!PopPromiseStore, P!PopPromiseDelete, P!PopPromiseExit
  <1>5. Alone(t) BY <1>1, <1>2, <1>4, IsAlone, ZenonT(60) DEF Inv, Parts
  <1>6. ~Overlooked(t)' BY <1>3, ZenonT(60) DEF Overlooked, Missed, Waiters
  <1>7. ASSUME NEW u \in Thread, Overlooked(u)' PROVE u # t /\ Overlooked(u) /\ fut[u] # None
    <2>1. u # t BY <1>6, <1>7, ZenonT(60)
    <2>2. Overlooked(u) BY <1>1, <1>5, <1>7, <2>1, ZenonT(60) DEF Alone, Overlooked, Missed
    <2>3. pc[u] \in Holding BY <2>2 DEF Overlooked, Missed, Holding
    <2> QED BY <2>1, <2>2, <2>3, ZenonT(60) DEF Inv, Control
  <1>8. CASE P!PopPromiseEnter(t)
    <2>1. pc'[t] = "setValue" BY <1>8 DEF P!PopPromiseEnter, Inv, Control
    <2> QED BY <2>1, WakerWaits, ZenonT(60) DEF WillWake
  <1>9. CASE P!PopPromiseBusy(t, ret[t])
    <2> SUFFICES ASSUME NEW u \in Thread, Overlooked(u)', fut'[u] \notin ready'
                 PROVE  \E v \in Thread : WillWake(v)'
      BY DEF Waits
    <2>1. replaceFut_ = -1 /\ ready' = ready /\ pc[t] = "popPromise"
      BY <1>9, ZenonT(60) DEF P!PopPromiseBusy
    <2>2. fut[u] # None /\ fut[u] \notin ready BY <1>4, <1>7, <2>1, ZenonT(60)
    <2>3. PICK v \in Thread : pc[v] = "setValue"
      BY <2>1, <2>2, ZenonT(60) DEF Inv, Parts
    <2>4. WillWake(v)' BY <1>5, <2>1, <2>3 DEF Alone, WillWake
    <2> QED BY <2>4
  <1>10. CASE P!PopPromiseSet(t)
    <2> SUFFICES ASSUME NEW u \in Thread, Overlooked(u)' PROVE fut'[u] \in ready'
      BY DEF Waits
    <2>1. ready' = ready \cup {promPtr_} BY <1>10, ZenonT(60) DEF P!PopPromiseSet
    <2> QED BY <1>4, <1>7, <2>1, ZenonT(60) DEF Inv, Parts, PromisePart!NoOrphan
  <1>11. ASSUME \A u \in Thread : fut[u] \in ready => fut[u] \in ready',
                pc[t] \notin {"popPromise", "setValue"}
         PROVE  Waits'
    <2>1. ~WillWake(t) BY <1>2, <1>11 DEF WillWake, P!Replacing
    <2> QED BY <1>1, <1>5, <1>6, <1>11, <2>1, AloneWaits, ZenonT(60) DEF Inv
  <1>12. ASSUME NEW p \in Pair, P!PopPromiseNew(t, p) PROVE Waits'
    <2>1. /\ pc[t] = "newPromise" /\ ready' = ready \ {p} /\ \A u \in Thread : fut[u] # p
      BY <1>12, ZenonT(60) DEF P!PopPromiseNew, P!InUse
    <2> QED BY <2>1, <1>11
  <1>13. CASE P!PopPromiseStore(t) \/ P!PopPromiseDelete(t) \/ P!PopPromiseExit(t, ret[t])
    <2>1. ready' = ready /\ pc[t] \in {"newFuture", "delete", "unlock"}
      BY <1>13, ZenonT(60) DEF P!PopPromiseStore, P!PopPromiseDelete, P!PopPromiseExit
    <2> QED BY <2>1, <1>11
  <1> QED BY <1>1, <1>8, <1>9, <1>10, <1>12, <1>13, ZenonT(60) DEF P!PopPromiseStep

-----------------------------------------------------------------------------
(* The steps together *)

LEMMA NextWaits ==
  ASSUME Inv, [Next]_vars
  PROVE  Waits'
  <1>1. ASSUME UNCHANGED vars PROVE Waits'
    <2>1. UNCHANGED <<pc, fut, spc, ready, queue, completed_, terminated_>>
      BY <1>1, ZenonT(60) DEF vars, stackVars, promiseVars, flagVars
    <2> QED BY <2>1, ZenonT(60) DEF Inv, Waits, Overlooked, Missed, WillWake
  <1>2. ASSUME NEW t \in Thread, Begin(t) \/ Step(t) PROVE Waits'
    BY <1>2, BeginWaits, PopWaits, OwnerWaits, WakersWait, InsideWaits, GetWaits, WakeWaits,
       ZenonT(60) DEF Step
  <1> QED BY <1>1, <1>2, ZenonT(60) DEF Next

LEMMA PromiseInits == Init => PromisePart!Init
  <1> SUFFICES ASSUME Init PROVE PromisePart!Init OBVIOUS
  <1>1. promisePC = [t \in Thread |-> "idle"]
    BY DEF Init, promisePC, P!PromisePC, P!Copying, P!Replacing
  <1> QED BY <1>1, ZenonT(60)
          DEF Init, P!PromiseInit, PromisePart!PromiseInit, PromisePart!Init

LEMMA InitWaits == Init => Waits
  BY DEF Init, Waits, Overlooked, Missed

-----------------------------------------------------------------------------
(* The proofs of the list and of the pair, about the parts of this one. *)
SP == INSTANCE StackProofs WITH pc <- spc
PP == INSTANCE StackPromiseProofs WITH pc <- promisePC

BInv == Control /\ SP!IInv /\ PP!IInv /\ PP!Fresh /\ Waits

LEMMA Assumptions == SP!PointerAssumption /\ PP!PromiseAssumption /\ None \notin Pair
  BY ContainerAssumption, ZenonT(60)
     DEF SP!PointerAssumption, PP!PromiseAssumption, IsFiniteSet, PP!IsFiniteSet

LEMMA SameStack == (S!Init => SP!Init) /\ ([S!Next]_stackVars => [SP!Next]_SP!vars)
  <1>1. S!Init => SP!Init
    BY ZenonT(60) DEF S!Init, SP!Init, S!NoResult, SP!NoResult
  <1>2. S!Next => SP!Next
    BY DEF S!Next, SP!Next, S!PushStep, SP!PushStep, S!PopStep, SP!PopStep, S!PushNew,
       SP!PushNew, S!PushClaim, SP!PushClaim, S!PushLink, SP!PushLink, S!PushLinkBottom,
       SP!PushLinkBottom, S!PushCount, SP!PushCount, S!PushTop, SP!PushTop, S!PopEmpty,
       SP!PopEmpty, S!PopCatch, SP!PopCatch, S!PopClaim, SP!PopClaim, S!PopClaimTop,
       SP!PopClaimTop, S!PopWaitNext, SP!PopWaitNext, S!PopCount, SP!PopCount, S!PopBottom,
       SP!PopBottom, S!PopCountLast, SP!PopCountLast, S!PopBottomLast, SP!PopBottomLast,
       S!PopTopLast, SP!PopTopLast, S!PopDelete, SP!PopDelete, S!Goto, SP!Goto, S!listVars,
       SP!listVars, S!localVars, SP!localVars, S!vars, SP!vars, S!IsEmptyResult,
       SP!IsEmptyResult, S!NoResult, SP!NoResult
  <1> QED BY <1>1, <1>2, ZenonT(60) DEF stackVars, SP!vars

LEMMA SamePromise ==
  (PromisePart!Init => PP!Init) /\ ([PromisePart!Next]_PromisePart!vars => [PP!Next]_PP!vars)
  <1>1. PromisePart!Init => PP!Init
    BY ZenonT(60) DEF PP!Init, PromisePart!Init, PP!PromiseInit, PromisePart!PromiseInit
  <1>2. [PromisePart!Next]_PromisePart!vars => [PP!Next]_PP!vars
    BY ZenonT(60)
       DEF PP!Next, PromisePart!Next, PP!CallGetFuture, PromisePart!CallGetFuture,
           PP!CallPopPromise, PromisePart!CallPopPromise, PP!DropFuture,
           PromisePart!DropFuture, PP!GetStep, PromisePart!GetStep, PP!GetEnter,
           PromisePart!GetEnter, PP!GetLoad, PromisePart!GetLoad, PP!GetCopy,
           PromisePart!GetCopy, PP!GetRelease, PromisePart!GetRelease, PP!PopPromiseStep,
           PromisePart!PopPromiseStep, PP!PopPromiseEnter, PromisePart!PopPromiseEnter,
           PP!PopPromiseBusy, PromisePart!PopPromiseBusy, PP!PopPromiseSet,
           PromisePart!PopPromiseSet, PP!PopPromiseNew, PromisePart!PopPromiseNew, PP!InUse,
           PromisePart!InUse, PP!PopPromiseStore, PromisePart!PopPromiseStore,
           PP!PopPromiseDelete, PromisePart!PopPromiseDelete, PP!PopPromiseExit,
           PromisePart!PopPromiseExit, PP!Goto, PromisePart!Goto, PP!guardVars,
           PromisePart!guardVars, PP!holdVars, PromisePart!holdVars, PP!promiseVars,
           PromisePart!promiseVars, PP!vars, PromisePart!vars
  <1> QED BY <1>1, <1>2

LEMMA PartsHold ==
  ASSUME SP!IInv, PP!IInv, PP!Fresh
  PROVE  Parts
  <1>1. S!TypeOK
    BY ZenonT(60) DEF SP!IInv, SP!TypeOK, S!TypeOK, SP!Pointer, S!Pointer, SP!PC, S!PC,
       SP!PushPC, S!PushPC, SP!PopPC, S!PopPC, SP!IsEmptyResult, S!IsEmptyResult, SP!NoResult,
       S!NoResult
  <1>2. (bottom_ = Null => queue = << >>) /\ (bottom_ \in Entry => queue # << >>)
    BY Assumptions, ZenonT(60) DEF SP!IInv, SP!Shape, SP!Ends
  <1>3. PromisePart!TypeOK /\ PromisePart!NoOrphan
    BY ZenonT(60) DEF PP!IInv, PP!TypeOK, PromisePart!TypeOK, PP!PromisePC,
       PromisePart!PromisePC, PP!Copying, PromisePart!Copying, PP!Replacing,
       PromisePart!Replacing, PP!NoOrphan, PromisePart!NoOrphan
  <1>4. ASSUME NEW t \in Thread, pc[t] = "copy" PROVE futptr[t] \in Pair
    <2>1. promisePC[t] = "copy" BY <1>4 DEF promisePC, P!PromisePC, P!Copying
    <2> QED BY <2>1 DEF PP!IInv, PP!CopiesCurrent, PP!TypeOK
  <1>5. ASSUME replaceFut_ = -1, NEW t \in Thread, fut[t] # None, fut[t] \notin ready
        PROVE  \E u \in Thread : pc[u] = "setValue"
    <2>1. PICK u \in Thread : promisePC[u] = "setValue"
      BY <1>5, Assumptions, PP!BusyWakes, ZenonT(60)
    <2> QED BY <2>1 DEF promisePC
  <1> QED BY <1>1, <1>2, <1>3, <1>4, <1>5, ZenonT(60) DEF Parts

LEMMA InitBInv == Init => BInv
  <1> SUFFICES ASSUME Init PROVE BInv OBVIOUS
  <1>1. Control /\ Waits BY InitControl, InitWaits
  <1>2. SP!Init BY SameStack, ZenonT(60) DEF Init
  <1>3. SP!IInv BY <1>2, Assumptions, SP!InitInv, ZenonT(60)
  <1>4. PP!Init BY PromiseInits, SamePromise, ZenonT(60)
  <1>5. PP!IInv BY <1>4, Assumptions, PP!InitInv, ZenonT(60)
  <1>6. PP!Fresh BY <1>4, ZenonT(60) DEF PP!Init, PP!Fresh
  <1> QED BY <1>1, <1>3, <1>5, <1>6, ZenonT(60) DEF BInv

LEMMA NextBInv == BInv /\ [Next]_vars => BInv'
  <1> SUFFICES ASSUME BInv, [Next]_vars PROVE BInv' OBVIOUS
  <1>1. Control /\ SP!IInv /\ PP!IInv /\ PP!Fresh /\ Waits BY ZenonT(60) DEF BInv
  <1>2. Parts BY <1>1, PartsHold, ZenonT(60)
  <1>3. Control' BY <1>1, <1>2, Assumptions, NextControl, ZenonT(60)
  <1>4. Waits' BY <1>1, <1>2, NextWaits, ZenonT(60) DEF Inv
  <1>5. SP!IInv' BY <1>1, Assumptions, StackStep, SameStack, SP!NextInv, ZenonT(60)
  <1>6. PP!IInv' /\ PP!Fresh'
    BY <1>1, Assumptions, PromiseStep, SamePromise, PP!NextInv, PP!NextFresh, ZenonT(60)
  <1> QED BY <1>3, <1>4, <1>5, <1>6, ZenonT(60) DEF BInv

(* The list, the pair and the wake-ups together are kept by every step of  *)
(* every thread.                                                           *)
THEOREM Invariance == Spec => []BInv
  BY InitBInv, NextBInv, PTL DEF Spec

(* No wake-up is lost, for any number of threads: while a consumer blocks  *)
(* on a future that is not satisfied although there is an entry, or the    *)
(* container has been stopped, a thread is on its way to satisfy it.       *)
THEOREM WakeupNotLost == Spec => []NoLostWakeup
  <1>1. BInv => NoLostWakeup
    <2> SUFFICES ASSUME BInv, NEW t \in Thread, pc[t] = "popWait", fut[t] \notin ready,
                        queue # << >> \/ completed_ \/ terminated_
                 PROVE  \E u \in Thread : WillWake(u)
      BY DEF NoLostWakeup
    <2>1. Overlooked(t) BY DEF Overlooked, Missed
    <2> QED BY <2>1, ZenonT(60) DEF BInv, Waits
  <1> QED BY <1>1, Invariance, PTL

(* BlockingStack enters and leaves get_future and pop_promise as           *)
(* StackPromise has it, so the theorems about StackPromise are about it.   *)
THEOREM UsesPromiseHolds == Spec => UsesPromise
  <1>1. BInv /\ [Next]_vars => [PromisePart!Next]_PromisePart!vars BY PromiseStep DEF BInv
  <1> QED BY <1>1, PromiseInits, Invariance, PTL DEF Spec, UsesPromise, PromisePart!Spec

(* Inside the composed container the list is still a first-in, first-out   *)
(* queue: push_back, pop_front and clear use Stack<T> as Stack has it.     *)
THEOREM ListIsFifo == Spec => SP!IsFifo
  <1>1. Init => SP!Init BY SameStack, ZenonT(60) DEF Init
  <1>2. [Next]_vars => [SP!Next]_SP!vars BY StackStep, SameStack, ZenonT(60)
  <1>3. SP!Spec => SP!IsFifo
    BY Assumptions, SP!ImplementsFifo, PTL
  <1> QED BY <1>1, <1>2, <1>3, PTL DEF Spec, SP!Spec

(* And no thread of it copies, satisfies or deletes a promise or a future  *)
(* that another one has deleted, or satisfies one twice.                   *)
THEOREM PairIsSafe == Spec => [](PP!ObjectsAlive /\ PP!SetOnce)
  <1>1. Init => PP!Init BY PromiseInits, SamePromise, ZenonT(60)
  <1>2. BInv /\ [Next]_vars => [PP!Next]_PP!vars BY PromiseStep, SamePromise DEF BInv
  <1>3. PP!Spec => [](PP!ObjectsAlive /\ PP!SetOnce)
    BY Assumptions, PP!NoUseAfterDelete, PP!NeverSetTwice, PTL
  <1> QED BY <1>1, <1>2, <1>3, Invariance, PTL DEF Spec, PP!Spec
=============================================================================
