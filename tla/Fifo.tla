-------------------------------- MODULE Fifo --------------------------------
(***************************************************************************)
(* What a Stack<T> of ThreadSafeClasses.h promises its callers: "lockless  *)
(* FIFO container class" (ThreadSafeClasses.h:199).  Every push puts one   *)
(* entry at the end of a queue, every successful pop takes the entry that  *)
(* has been in the queue longest, and a pop reports IsEmpty only while the *)
(* queue holds nothing.                                                    *)
(***************************************************************************)
EXTENDS Sequences

CONSTANTS
  Thread,   \* the threads that share the container
  Entry     \* the entries they push

VARIABLES
  queue,    \* the entries in the container, oldest first
  result    \* what the pop a thread is in has taken or thrown

vars == <<queue, result>>

IsEmptyResult == "IsEmpty"
NoResult == "none"

Init ==
  /\ queue = << >>
  /\ result = [t \in Thread |-> NoResult]

(* push_back *)
Enqueue(e) ==
  /\ queue' = Append(queue, e)
  /\ UNCHANGED result

(* pop_front, returning an entry *)
Dequeue(t) ==
  /\ result[t] = NoResult
  /\ queue # << >>
  /\ result' = [result EXCEPT ![t] = Head(queue)]
  /\ queue' = Tail(queue)

(* pop_front, throwing IsEmpty *)
ThrowIsEmpty(t) ==
  /\ result[t] = NoResult
  /\ queue = << >>
  /\ result' = [result EXCEPT ![t] = IsEmptyResult]
  /\ UNCHANGED queue

(* the pop returns to its caller *)
Return(t) ==
  /\ result[t] # NoResult
  /\ result' = [result EXCEPT ![t] = NoResult]
  /\ UNCHANGED queue

Next ==
  \/ \E e \in Entry : Enqueue(e)
  \/ \E t \in Thread : Dequeue(t) \/ ThrowIsEmpty(t) \/ Return(t)

Spec == Init /\ [][Next]_vars
=============================================================================
