-------------------------------- MODULE Stack -------------------------------
(***************************************************************************)
(* Stack<T> of ThreadSafeClasses.h (lines 196-395): the lockless FIFO under *)
(* every queue of the program.  The container is a singly linked list with *)
(* two ends, top_ (where push_back links new entries) and bottom_ (where   *)
(* pop_front takes them).  A thread claims an end by swapping maxptr_ into *)
(* it; every other thread spins until the marker is gone.                  *)
(*                                                                         *)
(* One action is one access to shared memory.  The compare-and-swap loops  *)
(* (303-316 and 358-364) change nothing while they fail, and a successful  *)
(* exchange takes whatever the pointer holds at that moment, so each loop  *)
(* is one action, enabled when the end does not hold the marker.           *)
(*                                                                         *)
(* queue is a history variable: the entries in the order in which they     *)
(* entered the list.  No action reads it.                                  *)
(***************************************************************************)
EXTENDS Integers, Sequences

CONSTANTS
  Thread,   \* the threads that share the container
  Entry,    \* the addresses an AtomicEntry can be allocated at
  Null,     \* nullptr
  MaxPtr    \* maxptr_, the marker of a claimed end

ASSUME PointerAssumption ==
  /\ Null # MaxPtr
  /\ Null \notin Entry
  /\ MaxPtr \notin Entry

VARIABLES
  top_,     \* last entry of the list, Null, or MaxPtr
  bottom_,  \* first entry of the list, Null, or MaxPtr
  next_,    \* next_[e]: the entry linked behind e
  count_,   \* the advertised number of entries
  heap,     \* the entries allocated and not yet deleted
  pc,       \* where each thread is
  newentry, \* push_back: the entry this thread links
  topentry, \* push_back: the value it took out of top_
  valptr,   \* pop_front: the entry it took out of bottom_
  queue,    \* history: the entries, oldest first
  result    \* what the pop_front a thread is in has taken or thrown

listVars == <<top_, bottom_, next_, count_, heap>>
localVars == <<newentry, topentry, valptr>>
vars == <<top_, bottom_, next_, count_, heap, pc, newentry, topentry, valptr,
          queue, result>>

Pointer == Entry \cup {Null, MaxPtr}

IsEmptyResult == "IsEmpty"
NoResult == "none"

(* The places inside push_back, from the claim of top_ to its release. *)
PushPC == {"link", "linkBottom", "countUp", "setTop"}

(* The places inside pop_front while bottom_ is claimed. *)
PopPC == {"claimTop", "waitNext", "countDown", "setBottom",
          "countDownLast", "clearBottom"}

PC == {"idle", "claim", "clearTop", "delete", "thrown"} \cup PushPC \cup PopPC

Init ==
  /\ top_ = Null
  /\ bottom_ = Null
  /\ next_ = [e \in Entry |-> Null]
  /\ count_ = 0
  /\ heap = {}
  /\ pc = [t \in Thread |-> "idle"]
  /\ newentry = [t \in Thread |-> Null]
  /\ topentry = [t \in Thread |-> Null]
  /\ valptr = [t \in Thread |-> Null]
  /\ queue = << >>
  /\ result = [t \in Thread |-> NoResult]

Goto(t, from, to) ==
  /\ pc[t] = from
  /\ pc' = [pc EXCEPT ![t] = to]

-----------------------------------------------------------------------------
(* push_back (348-374) *)

(* 351-352: allocate the entry; its next_ is the marker until it is linked. *)
PushNew(t, e) ==
  /\ Goto(t, "idle", "claim")
  /\ e \in Entry \ heap
  /\ heap' = heap \cup {e}
  /\ next_' = [next_ EXCEPT ![e] = MaxPtr]
  /\ newentry' = [newentry EXCEPT ![t] = e]
  /\ UNCHANGED <<top_, bottom_, count_, topentry, valptr, queue, result>>

(* 356-364: swap the marker into top_. *)
PushClaim(t) ==
  /\ Goto(t, "claim", "link")
  /\ top_ # MaxPtr
  /\ topentry' = [topentry EXCEPT ![t] = top_]
  /\ top_' = MaxPtr
  /\ UNCHANGED <<bottom_, next_, count_, heap, newentry, valptr, queue, result>>

(* A bug: a push waits for the pop that holds bottom_, which waits for it. *)
PushLinkSpins(t) ==
  /\ pc[t] = "link"
  /\ IF bottom_ = MaxPtr
       THEN UNCHANGED vars
       ELSE /\ Goto(t, "link", "linkBottom")
            /\ IF topentry[t] # Null
                 THEN /\ next_' = [next_ EXCEPT ![topentry[t]] = newentry[t]]
                      /\ queue' = Append(queue, newentry[t])
                 ELSE UNCHANGED <<next_, queue>>
            /\ UNCHANGED <<top_, bottom_, count_, heap, localVars, result>>

(* 366-367: link behind the previous last entry, if there was one. *)
PushLink(t) ==
  /\ Goto(t, "link", "linkBottom")
  /\ IF topentry[t] # Null
       THEN /\ next_' = [next_ EXCEPT ![topentry[t]] = newentry[t]]
            /\ queue' = Append(queue, newentry[t])
       ELSE UNCHANGED <<next_, queue>>
  /\ UNCHANGED <<top_, bottom_, count_, heap, localVars, result>>

(* 369-370: compare_exchange_strong of bottom_ from nullptr. *)
PushLinkBottom(t) ==
  /\ Goto(t, "linkBottom", "countUp")
  /\ IF bottom_ = Null
       THEN /\ bottom_' = newentry[t]
            /\ queue' = Append(queue, newentry[t])
       ELSE UNCHANGED <<bottom_, queue>>
  /\ UNCHANGED <<top_, next_, count_, heap, localVars, result>>

(* 372 *)
PushCount(t) ==
  /\ Goto(t, "countUp", "setTop")
  /\ count_' = count_ + 1
  /\ UNCHANGED <<top_, bottom_, next_, heap, localVars, queue, result>>

(* 373: release top_, and return. *)
PushTop(t) ==
  /\ Goto(t, "setTop", "idle")
  /\ top_' = newentry[t]
  /\ newentry' = [newentry EXCEPT ![t] = Null]
  /\ topentry' = [topentry EXCEPT ![t] = Null]
  /\ UNCHANGED <<bottom_, next_, count_, heap, valptr, queue, result>>

-----------------------------------------------------------------------------
(* pop_front (298-346) *)

(* A bug: a claimed end is taken for an empty container. *)
PopEmptyOnMarker(t) ==
  /\ Goto(t, "idle", "thrown")
  /\ bottom_ \in {Null, MaxPtr}
  /\ result' = [result EXCEPT ![t] = IsEmptyResult]
  /\ UNCHANGED <<listVars, localVars, queue>>

(* 301-313: bottom_ is nullptr, throw IsEmpty. *)
PopEmpty(t) ==
  /\ Goto(t, "idle", "thrown")
  /\ bottom_ = Null
  /\ result' = [result EXCEPT ![t] = IsEmptyResult]
  /\ UNCHANGED <<listVars, localVars, queue>>

(* The caller catches IsEmpty. *)
PopCatch(t) ==
  /\ Goto(t, "thrown", "idle")
  /\ result' = [result EXCEPT ![t] = NoResult]
  /\ UNCHANGED <<listVars, localVars, queue>>

(* 301-316: swap the marker into bottom_. *)
PopClaim(t) ==
  /\ Goto(t, "idle", "claimTop")
  /\ bottom_ \notin {Null, MaxPtr}
  /\ valptr' = [valptr EXCEPT ![t] = bottom_]
  /\ bottom_' = MaxPtr
  /\ result' = [result EXCEPT ![t] = bottom_]
  /\ queue' = Tail(queue)
  /\ UNCHANGED <<top_, next_, count_, heap, newentry, topentry>>

(* 318-320: if the entry is also the last one, claim top_ as well. *)
PopClaimTop(t) ==
  /\ pc[t] = "claimTop"
  /\ IF top_ = valptr[t]
       THEN /\ top_' = MaxPtr
            /\ pc' = [pc EXCEPT ![t] = "countDownLast"]
       ELSE /\ pc' = [pc EXCEPT ![t] = "waitNext"]
            /\ UNCHANGED top_
  /\ UNCHANGED <<bottom_, next_, count_, heap, localVars, queue, result>>

(* 322-326: another entry is, or is being, linked behind: wait for it. *)
PopWaitNext(t) ==
  /\ Goto(t, "waitNext", "countDown")
  /\ next_[valptr[t]] # MaxPtr
  /\ UNCHANGED <<listVars, localVars, queue, result>>

(* 328 *)
PopCount(t) ==
  /\ Goto(t, "countDown", "setBottom")
  /\ count_' = count_ - 1
  /\ UNCHANGED <<top_, bottom_, next_, heap, localVars, queue, result>>

(* 329: release bottom_. *)
PopBottom(t) ==
  /\ Goto(t, "setBottom", "delete")
  /\ bottom_' = next_[valptr[t]]
  /\ UNCHANGED <<top_, next_, count_, heap, localVars, queue, result>>

(* 333 *)
PopCountLast(t) ==
  /\ Goto(t, "countDownLast", "clearBottom")
  /\ count_' = count_ - 1
  /\ UNCHANGED <<top_, bottom_, next_, heap, localVars, queue, result>>

(* 334 *)
PopBottomLast(t) ==
  /\ Goto(t, "clearBottom", "clearTop")
  /\ bottom_' = Null
  /\ UNCHANGED <<top_, next_, count_, heap, localVars, queue, result>>

(* 335 *)
PopTopLast(t) ==
  /\ Goto(t, "clearTop", "delete")
  /\ top_' = Null
  /\ UNCHANGED <<bottom_, next_, count_, heap, localVars, queue, result>>

(* A bug: the entry is not deleted. *)
PopDeleteSkip(t) ==
  /\ Goto(t, "delete", "idle")
  /\ valptr' = [valptr EXCEPT ![t] = Null]
  /\ result' = [result EXCEPT ![t] = NoResult]
  /\ UNCHANGED <<listVars, newentry, topentry, queue>>

(* 339-345: take the value, delete the entry, and return. *)
PopDelete(t) ==
  /\ Goto(t, "delete", "idle")
  /\ heap' = heap \ {valptr[t]}
  /\ next_' = [next_ EXCEPT ![valptr[t]] = Null]
  /\ valptr' = [valptr EXCEPT ![t] = Null]
  /\ result' = [result EXCEPT ![t] = NoResult]
  /\ UNCHANGED <<top_, bottom_, count_, newentry, topentry, queue>>

-----------------------------------------------------------------------------
PushStep(t) ==
  PushClaim(t) \/ PushLink(t) \/ PushLinkBottom(t) \/ PushCount(t) \/ PushTop(t)

PopStep(t) ==
  \/ PopClaimTop(t) \/ PopWaitNext(t) \/ PopCount(t) \/ PopBottom(t)
  \/ PopCountLast(t) \/ PopBottomLast(t) \/ PopTopLast(t) \/ PopDelete(t)
  \/ PopCatch(t)

Next ==
  \E t \in Thread :
    \/ \E e \in Entry : PushNew(t, e)
    \/ PopEmpty(t) \/ PopClaim(t)
    \/ PushStep(t) \/ PopStep(t)

Spec == Init /\ [][Next]_vars

(* A thread inside push_back or pop_front keeps running; nothing obliges   *)
(* one to call them.                                                       *)
Fairness == \A t \in Thread : WF_vars(PushStep(t)) /\ WF_vars(PopStep(t))

FairSpec == Spec /\ Fairness

-----------------------------------------------------------------------------
(* Properties *)

TypeOK ==
  /\ top_ \in Pointer
  /\ bottom_ \in Pointer
  /\ next_ \in [Entry -> Pointer]
  /\ count_ \in Int
  /\ heap \subseteq Entry
  /\ pc \in [Thread -> PC]
  /\ newentry \in [Thread -> Entry \cup {Null}]
  /\ topentry \in [Thread -> Entry \cup {Null}]
  /\ valptr \in [Thread -> Entry \cup {Null}]
  /\ queue \in Seq(Entry)
  /\ result \in [Thread -> Entry \cup {IsEmptyResult, NoResult}]

(* Who has claimed which end. *)
HoldsTop(t) == pc[t] \in PushPC \cup {"countDownLast", "clearBottom", "clearTop"}
HoldsBottom(t) == pc[t] \in PopPC

(* The marker is in top_ (bottom_) exactly while one thread is between the *)
(* exchange that put it there and the store that takes it out, so no two   *)
(* threads ever link, or unlink, at the same end at once.                  *)
ExclusiveEnds ==
  /\ (top_ = MaxPtr) <=> (\E t \in Thread : HoldsTop(t))
  /\ (bottom_ = MaxPtr) <=> (\E t \in Thread : HoldsBottom(t))
  /\ \A t, u \in Thread :
       /\ HoldsTop(t) /\ HoldsTop(u) => t = u
       /\ HoldsBottom(t) /\ HoldsBottom(u) => t = u

(* The entry a thread owns: allocated by push_back and not yet linked, or  *)
(* unlinked by pop_front and not yet deleted.                              *)
Unlinked(t) ==
  \/ pc[t] \in {"claim", "link"}
  \/ pc[t] = "linkBottom" /\ topentry[t] = Null
Linked(t) ==
  \/ pc[t] \in {"countUp", "setTop"}
  \/ pc[t] = "linkBottom" /\ topentry[t] # Null
Popping(t) == pc[t] \in PopPC \cup {"clearTop", "delete"}

Owns(t, e) ==
  \/ Unlinked(t) /\ e = newentry[t]
  \/ Popping(t) /\ e = valptr[t]

Elements(s) == {s[i] : i \in 1 .. Len(s)}
InQueue == Elements(queue)

(* Every allocated entry is in the list or owned by exactly one thread, and *)
(* nothing else is: no entry is leaked, deleted twice, or in the list and  *)
(* in a thread's hands at once.  Every entry that push_back or pop_front   *)
(* dereferences is therefore still allocated.                              *)
Ownership ==
  /\ \A e \in Entry \cup {Null} :
       e \in heap <=> e \in InQueue \/ \E t \in Thread : Owns(t, e)
  /\ \A t \in Thread, e \in Entry : Owns(t, e) => e \notin InQueue
  /\ \A t, u \in Thread, e \in Entry : Owns(t, e) /\ Owns(u, e) => t = u
  /\ \A i, j \in 1 .. Len(queue) : queue[i] = queue[j] => i = j

(* e ends the list: it is the youngest entry, or the list is empty and e is *)
(* in the hands of a pop_front that has not yet released bottom_.          *)
EndsList(e) ==
  IF queue # << >>
    THEN e = queue[Len(queue)]
    ELSE \E t \in Thread : HoldsBottom(t) /\ valptr[t] = e

(* The pointers spell out the queue: each entry is linked to the next one, *)
(* the youngest is linked to nothing yet, and an entry just taken from the *)
(* bottom still leads to the rest of the list.                             *)
Links ==
  /\ \A i \in 1 .. Len(queue) :
       next_[queue[i]] = IF i < Len(queue) THEN queue[i + 1] ELSE MaxPtr
  /\ \A t \in Thread : Unlinked(t) => next_[newentry[t]] = MaxPtr
  /\ \A t \in Thread : HoldsBottom(t) =>
       next_[valptr[t]] = IF queue = << >> THEN MaxPtr ELSE Head(queue)

(* bottom_ and top_ are the two ends of the list, both null when it is empty. *)
Ends ==
  /\ bottom_ = Null => queue = << >>
  /\ bottom_ \in Entry => queue # << >> /\ bottom_ = Head(queue)
  /\ top_ = Null => bottom_ = Null
  /\ top_ \in Entry => EndsList(top_)

(* What the threads inside push_back and pop_front rely on. *)
InFlight ==
  \A t \in Thread :
    /\ pc[t] \in {"link", "linkBottom"} /\ topentry[t] = Null => bottom_ = Null
    /\ pc[t] = "link" /\ topentry[t] # Null => EndsList(topentry[t])
    /\ Linked(t) => EndsList(newentry[t])
    /\ pc[t] \in {"countDown", "setBottom"} => queue # << >>
    /\ pc[t] \in {"countDownLast", "clearBottom", "clearTop"} => queue = << >>
    /\ pc[t] = "clearTop" => bottom_ = Null

Shape == Links /\ Ends /\ InFlight

(* A pop_front under way has the entry it took as its result. *)
Results ==
  \A t \in Thread :
    result[t] = IF Popping(t) THEN valptr[t]
                ELSE IF pc[t] = "thrown" THEN IsEmptyResult ELSE NoResult

(* Linked by push_back and not counted yet; unlinked and still counted. *)
Uncounted(t) == Linked(t) /\ pc[t] # "setTop"
StillCounted(t) == pc[t] \in {"claimTop", "waitNext", "countDown", "countDownLast"}

One(P) == IF P THEN 1 ELSE 0

(* count_ is the number of entries, give or take the one push and the one  *)
(* pop under way; being an unsigned size_t, it must never go below zero.   *)
CountExact ==
  /\ count_ = Len(queue) + One(\E t \in Thread : StillCounted(t))
                         - One(\E t \in Thread : Uncounted(t))
  /\ count_ >= 0

(* A pop_front that has taken an entry returns it.                         *)
PopReturns == \A t \in Thread : Popping(t) ~> pc[t] = "idle"

(* A pop_front that waits for the entry behind its own (line 322) gets on  *)
(* as soon as any push_back is under way: the push links behind it.        *)
PushReleasesPop ==
  \A t \in Thread :
    (pc[t] = "waitNext" /\ \E u \in Thread : Unlinked(u)) ~> pc[t] # "waitNext"

(* Stack<T> is a FIFO container: a pop returns the entry that has been in  *)
(* the container longest, and throws IsEmpty only when there is none.      *)
Fifo == INSTANCE Fifo
IsFifo == Fifo!Spec
=============================================================================
