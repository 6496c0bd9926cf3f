--------------------------- MODULE ExclusiveGuard ---------------------------
(***************************************************************************)
(* What an exclusive guard's waiter list promises (spec section 4.3): it  *)
(* is in one of the macro-states empty [1], held0 [2] or heldM [3].  An   *)
(* acquire_or_wait either takes a free guard (1->2, returns true) or      *)
(* parks the event at the back of a FIFO (2->3, 3->3, returns false).  A  *)
(* release by the holder either hands the guard to the oldest waiter      *)
(* (3->(2,3), the popped event is returned) or frees it (2->1).           *)
(*                                                                         *)
(* held[a] is FALSE exactly in state empty [1]; queue[a] holds the ids of *)
(* the parked events, oldest first.                                        *)
(***************************************************************************)
EXTENDS Sequences, SequencesExt, FiniteSets

CONSTANTS Atomics,  \* the guards
          Ids       \* identities of the events that use them

VARIABLES held, queue

vars == <<held, queue>>

TypeOK ==
  /\ held \in [Atomics -> BOOLEAN]
  /\ queue \in [Atomics -> Seq(Ids)]

Init ==
  /\ held = [a \in Atomics |-> FALSE]
  /\ queue = [a \in Atomics |-> <<>>]

\* 1->2: the guard is free and event i takes it.
Acquire(i, a) ==
  /\ ~held[a]
  /\ held' = [held EXCEPT ![a] = TRUE]
  /\ UNCHANGED queue

\* 2->3 and 3->3: the guard is held, the events of s park behind the
\* others, in order.  Concurrent pushes to a lock-free list can take effect
\* in one step (one CAS links a node another pusher has already extended),
\* so s may hold more than one event.
Wait(s, a) ==
  /\ held[a]
  /\ s /= <<>>
  /\ queue' = [queue EXCEPT ![a] = @ \o s]
  /\ UNCHANGED held

\* 3->(2,3): the holder releases and the oldest waiter becomes the holder.
Handoff(a) ==
  /\ held[a]
  /\ queue[a] /= <<>>
  /\ queue' = [queue EXCEPT ![a] = Tail(@)]
  /\ UNCHANGED held

\* 2->1: the holder releases and nobody waits.
Free(a) ==
  /\ held[a]
  /\ queue[a] = <<>>
  /\ held' = [held EXCEPT ![a] = FALSE]
  /\ UNCHANGED queue

Next ==
  \E a \in Atomics :
     \/ \E i \in Ids : Acquire(i, a)
     \/ \E s \in SeqOf(Ids, Cardinality(Ids)) : Wait(s, a)
     \/ Handoff(a)
     \/ Free(a)

Spec == Init /\ [][Next]_vars

\* A parked event is parked once: no id appears twice in one waiter list.
NoDuplicateWaiter == \A a \in Atomics : IsInjective(queue[a])

=============================================================================
