------------------------- MODULE ExclusiveEventList -------------------------
(***************************************************************************)
(* The lock-free waiter list of an exclusive guard, event::EventList in   *)
(* src/src/runtime/lockfree/atomic/test_atomic.cpp, driven by that file's *)
(* test harness run_thread.  Every load, store and CAS on a shared word   *)
(* (head, tail, a node's next, id or has field) is one step; the thread's *)
(* locals (e, h, hn, t, old_t, id) live in loc.  Memory is sequentially   *)
(* consistent.                                                             *)
(*                                                                         *)
(* The list recycles Event objects as its nodes: push(e) makes e the new  *)
(* sentinel at the tail and copies e's id and has into the old tail node, *)
(* so the Event* that pop returns is not the one that was pushed.  An     *)
(* event's identity is therefore its id field, not its node.              *)
(***************************************************************************)
EXTENDS Integers, Sequences, SequencesExt, FiniteSets

CONSTANTS
  Threads,   \* the harness threads (run_thread instances)
  Atomics,   \* the guards, atomic::Exclusive atomics[]
  Ids,       \* event ids; node i is the Event allocated with id i
  Dummy,     \* Dummy[a] is the Event(0) allocated by atomics[a]'s EventList
  Hand0,     \* Hand0[p] is thread p's initial running_evl, a Seq of Ids
  NULL,      \* the pointer value 0x0
  ONE,       \* the pointer value 0x1, mk(NULL)
  NoId,      \* the id value 0 of a sentinel
  NoAtomic   \* the has value -1

Nodes == Ids \cup {Dummy[a] : a \in Atomics}

ASSUME /\ Dummy \in [Atomics -> Nodes]
       /\ \A a, b \in Atomics : a /= b => Dummy[a] /= Dummy[b]
       /\ Hand0 \in [Threads -> Seq(Ids)]
       /\ \A i \in Ids : \E p \in Threads : i \in Range(Hand0[p])

VARIABLES
  head,   \* head[a]: EventList::head of atomics[a]
  tail,   \* tail[a]: EventList::tail of atomics[a]
  next,   \* next[n]: Event::next of node n, a node, NULL or ONE
  id,     \* id[n]:   Event::id of node n (NoId for 0)
  has,    \* has[n]:  Event::has of node n (NoAtomic for -1)
  hand,   \* hand[p]: thread p's running_evl[0..1], in processing order
  pc,     \* pc[p]:   where thread p is in run_thread/push/pop
  loc     \* loc[p]:  thread p's locals e, a, h, hn, t, old_t, id

vars == <<head, tail, next, id, has, hand, pc, loc>>

Ptr == Nodes \cup {NULL}

LocalsInit == [e |-> NULL, a |-> NoAtomic, h |-> NULL, hn |-> NULL,
               t |-> NULL, old_t |-> NULL, id |-> NoId]

Locals == [e : Ptr, a : Atomics \cup {NoAtomic}, h : Ptr, hn : Ptr \cup {ONE},
           t : Ptr, old_t : Ptr, id : Ids \cup {NoId}]

PushPcs == {"p_h", "p_hn", "p_c12", "p_tailhead", "p_t", "p_walk", "p_fix1",
            "p_fix2", "p_fix3", "p_cas", "p_settail", "p_setid", "p_sethas"}
PopPcs  == {"q_h", "q_hn", "q_t", "q_walk", "q_fix1", "q_fix2", "q_fix3",
            "q_c1", "q_c2", "q_c3", "q_rnext", "q_e1"}
Pcs == {"run", "acq", "acq_done", "rel_done"} \cup PushPcs \cup PopPcs

TypeOK ==
  /\ head \in [Atomics -> Nodes]
  /\ tail \in [Atomics -> Nodes]
  /\ next \in [Nodes -> Ptr \cup {ONE}]
  /\ id \in [Nodes -> Ids \cup {NoId}]
  /\ has \in [Nodes -> Atomics \cup {NoAtomic}]
  /\ hand \in [Threads -> Seq(Nodes)]
  /\ pc \in [Threads -> Pcs]
  /\ loc \in [Threads -> Locals]

\* EventList(): head = tail = new Event(0), head->next = mk(NULL).
Init ==
  /\ head = [a \in Atomics |-> Dummy[a]]
  /\ tail = [a \in Atomics |-> Dummy[a]]
  /\ next = [n \in Nodes |-> IF n \in Ids THEN NULL ELSE ONE]
  /\ id = [n \in Nodes |-> IF n \in Ids THEN n ELSE NoId]
  /\ has = [n \in Nodes |-> NoAtomic]
  /\ hand = Hand0
  /\ pc = [p \in Threads |-> "run"]
  /\ loc = [p \in Threads |-> LocalsInit]

Goto(p, from, to) ==
  /\ pc[p] = from
  /\ pc' = [pc EXCEPT ![p] = to]

Set(p, f, v) == loc' = [loc EXCEPT ![p][f] = v]

----------------------------------------------------------------------------
(* run_thread: take the next event; release the guard it holds, if any.  *)

Run(p) ==
  /\ pc[p] = "run"
  /\ hand[p] /= <<>>
  /\ LET e == Head(hand[p]) IN
       /\ loc' = [loc EXCEPT ![p] = [LocalsInit EXCEPT !.e = e, !.a = has[e]]]
       /\ pc' = [pc EXCEPT ![p] = IF has[e] \in Atomics THEN "q_h" ELSE "acq"]
  /\ hand' = [hand EXCEPT ![p] = Tail(@)]
  /\ UNCHANGED <<head, tail, next, id, has>>

\* Mutant: push forgets e->id = 0, so the new sentinel keeps the id.
AcqKeepId(p) ==
  /\ pc[p] = "acq"
  /\ \E a \in Atomics :
       LET e == loc[p].e IN
       /\ next' = [next EXCEPT ![e] = NULL]
       /\ has' = [has EXCEPT ![e] = NoAtomic]
       /\ loc' = [loc EXCEPT ![p].a = a, ![p].id = id[e]]
       /\ pc' = [pc EXCEPT ![p] = "p_h"]
  /\ UNCHANGED <<head, tail, hand, id>>

\* Exclusive::acquire_or_wait(e) on the next target atomic, and the start
\* of EventList::push: e->has = -1, e->next = NULL, id = e->id, e->id = 0.
Acq(p) ==
  /\ pc[p] = "acq"
  /\ \E a \in Atomics :
       LET e == loc[p].e IN
       /\ next' = [next EXCEPT ![e] = NULL]
       /\ id' = [id EXCEPT ![e] = NoId]
       /\ has' = [has EXCEPT ![e] = NoAtomic]
       /\ loc' = [loc EXCEPT ![p].a = a, ![p].id = id[e]]
       /\ pc' = [pc EXCEPT ![p] = "p_h"]
  /\ UNCHANGED <<head, tail, hand>>

\* push returned true: e->id is restored, e->has = index, e runs next round.
AcqDone(p) ==
  /\ Goto(p, "acq_done", "run")
  /\ LET e == loc[p].e IN
       /\ id' = [id EXCEPT ![e] = loc[p].id]
       /\ has' = [has EXCEPT ![e] = loc[p].a]
       /\ hand' = [hand EXCEPT ![p] = Append(@, e)]
  /\ loc' = [loc EXCEPT ![p] = LocalsInit]
  /\ UNCHANGED <<head, tail, next>>

\* Mutant: release without its if(e) test hands out the NULL pop result.
RelDoneNoNullTest(p) ==
  /\ Goto(p, "rel_done", "acq")
  /\ has' = [has EXCEPT ![loc[p].e] = NoAtomic]
  /\ hand' = [hand EXCEPT ![p] = Append(@, loc[p].h)]
  /\ loc' = [loc EXCEPT ![p] = [LocalsInit EXCEPT !.e = loc[p].e]]
  /\ UNCHANGED <<head, tail, next, id>>

\* Exclusive::release after pop: a popped r gets r->has = index and runs
\* next round; then the harness clears e->has.
RelDone(p) ==
  /\ Goto(p, "rel_done", "acq")
  /\ LET r == loc[p].h
         e == loc[p].e
     IN /\ has' = IF r = NULL THEN [has EXCEPT ![e] = NoAtomic]
                  ELSE [has EXCEPT ![r] = loc[p].a, ![e] = NoAtomic]
        /\ hand' = IF r = NULL THEN hand
                   ELSE [hand EXCEPT ![p] = Append(@, r)]
  /\ loc' = [loc EXCEPT ![p] = [LocalsInit EXCEPT !.e = loc[p].e]]
  /\ UNCHANGED <<head, tail, next, id>>

----------------------------------------------------------------------------
(* EventList::push(e)                                                      *)

PH(p) ==
  /\ Goto(p, "p_h", "p_hn")
  /\ Set(p, "h", head[loc[p].a])
  /\ UNCHANGED <<head, tail, next, id, has, hand>>

PHn(p) ==
  /\ pc[p] = "p_hn"
  /\ Set(p, "hn", next[loc[p].h])
  /\ pc' = [pc EXCEPT ![p] = IF next[loc[p].h] = ONE THEN "p_c12" ELSE "p_t"]
  /\ UNCHANGED <<head, tail, next, id, has, hand>>

\* Mutant: the 1->2 CAS replaced by a plain store of NULL.
PC12Store(p) ==
  /\ Goto(p, "p_c12", "p_tailhead")
  /\ next' = [next EXCEPT ![head[loc[p].a]] = NULL]
  /\ UNCHANGED <<head, tail, id, has, hand, loc>>

\* 1->2: CAS(&(head->next), 0x1, NULL); on failure the (2,3)->3 branch.
PC12(p) ==
  /\ pc[p] = "p_c12"
  /\ LET hd == head[loc[p].a] IN
       IF next[hd] = ONE
       THEN /\ next' = [next EXCEPT ![hd] = NULL]
            /\ pc' = [pc EXCEPT ![p] = "p_tailhead"]
       ELSE /\ pc' = [pc EXCEPT ![p] = "p_t"]
            /\ UNCHANGED next
  /\ UNCHANGED <<head, tail, id, has, hand, loc>>

\* tail = head, then return true.
PTailHead(p) ==
  /\ Goto(p, "p_tailhead", "acq_done")
  /\ tail' = [tail EXCEPT ![loc[p].a] = head[loc[p].a]]
  /\ UNCHANGED <<head, next, id, has, hand, loc>>

PT(p) ==
  /\ Goto(p, "p_t", "p_walk")
  /\ loc' = [loc EXCEPT ![p].t = tail[loc[p].a], ![p].old_t = tail[loc[p].a]]
  /\ UNCHANGED <<head, tail, next, id, has, hand>>

\* while(unmk(t) && unmk(t->next)) t = t->next;  one iteration per step.
Walk(p, from, to) ==
  /\ pc[p] = from
  /\ LET tn == next[loc[p].t] IN
       IF tn \in Nodes
       THEN /\ Set(p, "t", tn)
            /\ UNCHANGED pc
       ELSE /\ pc' = [pc EXCEPT ![p] = to]
            /\ UNCHANGED loc
  /\ UNCHANGED <<head, tail, next, id, has, hand>>

\* if(t != tail && t->next == NULL) CAS(&tail, old_t, t);  three steps.
Fix1(p, from, fix, done) ==
  /\ pc[p] = from
  /\ pc' = [pc EXCEPT ![p] = IF loc[p].t /= tail[loc[p].a] THEN fix ELSE done]
  /\ UNCHANGED <<head, tail, next, id, has, hand, loc>>

Fix2(p, from, fix, done) ==
  /\ pc[p] = from
  /\ pc' = [pc EXCEPT ![p] = IF next[loc[p].t] = NULL THEN fix ELSE done]
  /\ UNCHANGED <<head, tail, next, id, has, hand, loc>>

Fix3(p, from, done) ==
  /\ Goto(p, from, done)
  /\ tail' = IF tail[loc[p].a] = loc[p].old_t
             THEN [tail EXCEPT ![loc[p].a] = loc[p].t] ELSE tail
  /\ UNCHANGED <<head, next, id, has, hand, loc>>

\* (2,3)->3: CAS(&(t->next), NULL, e); on failure the loop starts over.
PCas(p) ==
  /\ pc[p] = "p_cas"
  /\ LET t == loc[p].t IN
       IF next[t] = NULL
       THEN /\ next' = [next EXCEPT ![t] = loc[p].e]
            /\ pc' = [pc EXCEPT ![p] = "p_settail"]
       ELSE /\ pc' = [pc EXCEPT ![p] = "p_h"]
            /\ UNCHANGED next
  /\ UNCHANGED <<head, tail, id, has, hand, loc>>

\* tail = e
PSetTail(p) ==
  /\ Goto(p, "p_settail", "p_setid")
  /\ tail' = [tail EXCEPT ![loc[p].a] = loc[p].e]
  /\ UNCHANGED <<head, next, id, has, hand, loc>>

\* t->id = id  (the t->waiting_on store that follows is not modelled)
PSetId(p) ==
  /\ Goto(p, "p_setid", "p_sethas")
  /\ id' = [id EXCEPT ![loc[p].t] = loc[p].id]
  /\ UNCHANGED <<head, tail, next, has, hand, loc>>

\* t->has = hs, where hs is the -1 acquire_or_wait stored; return false.
PSetHas(p) ==
  /\ Goto(p, "p_sethas", "run")
  /\ has' = [has EXCEPT ![loc[p].t] = NoAtomic]
  /\ loc' = [loc EXCEPT ![p] = LocalsInit]
  /\ UNCHANGED <<head, tail, next, id, hand>>

----------------------------------------------------------------------------
(* EventList::pop(), called by the holder from Exclusive::release          *)

QH(p) ==
  /\ Goto(p, "q_h", "q_hn")
  /\ Set(p, "h", head[loc[p].a])
  /\ UNCHANGED <<head, tail, next, id, has, hand>>

QHn(p) ==
  /\ Goto(p, "q_hn", "q_t")
  /\ Set(p, "hn", next[loc[p].h])
  /\ UNCHANGED <<head, tail, next, id, has, hand>>

QT(p) ==
  /\ Goto(p, "q_t", "q_walk")
  /\ loc' = [loc EXCEPT ![p].t = tail[loc[p].a], ![p].old_t = tail[loc[p].a]]
  /\ UNCHANGED <<head, tail, next, id, has, hand>>

\* h != tail && hn != NULL && !is_one(hn)
QC1(p) ==
  /\ pc[p] = "q_c1"
  /\ pc' = [pc EXCEPT ![p] =
              IF loc[p].h /= tail[loc[p].a] /\ loc[p].hn \in Nodes
              THEN "q_c2" ELSE "q_e1"]
  /\ UNCHANGED <<head, tail, next, id, has, hand, loc>>

\* Mutant: pop without the h->id != 0 test.
QC2NoIdTest(p) == Goto(p, "q_c2", "q_c3") /\ UNCHANGED <<head, tail, next, id, has, hand, loc>>

\* && h->id != 0
QC2(p) ==
  /\ pc[p] = "q_c2"
  /\ pc' = [pc EXCEPT ![p] = IF id[loc[p].h] /= NoId THEN "q_c3" ELSE "q_e1"]
  /\ UNCHANGED <<head, tail, next, id, has, hand, loc>>

\* 3->(2,3): CAS(&head, h, hn)
QC3(p) ==
  /\ pc[p] = "q_c3"
  /\ LET a == loc[p].a IN
       IF head[a] = loc[p].h
       THEN /\ head' = [head EXCEPT ![a] = loc[p].hn]
            /\ pc' = [pc EXCEPT ![p] = "q_rnext"]
       ELSE /\ pc' = [pc EXCEPT ![p] = "q_e1"]
            /\ UNCHANGED head
  /\ UNCHANGED <<tail, next, id, has, hand, loc>>

\* r = h; r->next = NULL; return r.
QRNext(p) ==
  /\ Goto(p, "q_rnext", "rel_done")
  /\ next' = [next EXCEPT ![loc[p].h] = NULL]
  /\ UNCHANGED <<head, tail, id, has, hand, loc>>

\* 2->1: hn == NULL && CAS(&(head->next), hn, 0x1); return NULL.
\* Otherwise the loop starts over.
QE1(p) ==
  /\ pc[p] = "q_e1"
  /\ LET hd == head[loc[p].a] IN
       IF loc[p].hn = NULL /\ next[hd] = NULL
       THEN /\ next' = [next EXCEPT ![hd] = ONE]
            /\ pc' = [pc EXCEPT ![p] = "rel_done"]
            /\ Set(p, "h", NULL)
       ELSE /\ pc' = [pc EXCEPT ![p] = "q_h"]
            /\ UNCHANGED <<next, loc>>
  /\ UNCHANGED <<head, tail, id, has, hand>>

----------------------------------------------------------------------------
(* What the list's state means.                                            *)

\* The nodes reachable from head[a] that carry a waiter, oldest first: each
\* node whose next is another node (the last node is the sentinel).
RECURSIVE ChainFrom(_, _)
ChainFrom(n, k) ==
  IF k = 0 \/ next[n] \notin Nodes THEN <<>>
  ELSE <<n>> \o ChainFrom(next[n], k - 1)

WaiterNodes(a) == ChainFrom(head[a], Cardinality(Nodes))

\* A waiter node's event id: its id field, or, between the CAS that linked
\* it and the store t->id = id, the id its pusher saved.
LogicalId(n) ==
  IF id[n] /= NoId \/ ~\E p \in Threads : pc[p] \in {"p_settail", "p_setid"}
                                         /\ loc[p].t = n
  THEN id[n]
  ELSE loc[CHOOSE p \in Threads : pc[p] \in {"p_settail", "p_setid"}
                                  /\ loc[p].t = n].id

WaitingIds(a) == [k \in 1..Len(WaiterNodes(a)) |-> LogicalId(WaiterNodes(a)[k])]

\* The guard is held unless head->next is 0x1 (state empty [1]).
Held(a) == next[head[a]] /= ONE

\* The events that act as holders of a: those in a running list with
\* has == a, an acquirer between the 1->2 CAS and storing has, a releaser
\* before its pop's linearizing CAS, and the waiter that pop handed a to
\* until Exclusive::release stores its has.
Believers(a) ==
  LET on(q, P) == pc[q] \in P /\ loc[q].a = a IN
  {n \in UNION {Range(hand[p]) : p \in Threads} : has[n] = a}
  \cup {loc[p].e : p \in {q \in Threads : on(q, {"p_tailhead", "acq_done"})}}
  \cup {loc[p].e : p \in {q \in Threads : on(q, PopPcs \ {"q_rnext"})}}
  \cup {loc[p].h : p \in {q \in Threads : on(q, {"q_rnext", "rel_done"})
                                          /\ loc[q].h /= NULL}}

\* The ids an event carries while a thread works on it: the releaser's e
\* until it pushes, the pusher's saved id until its CAS links it into a
\* list (then it is a waiter), and a popped node until it is handed on.
InFlightIds ==
  {id[loc[p].e] : p \in {q \in Threads : pc[q] \in PopPcs \cup {"acq", "rel_done"}}}
  \cup {loc[p].id : p \in {q \in Threads :
          pc[q] \in (PushPcs \cup {"acq_done"}) \ {"p_settail", "p_setid", "p_sethas"}}}
  \cup {id[loc[p].h] : p \in {q \in Threads : pc[q] \in {"q_rnext", "rel_done"}
                                               /\ loc[q].h /= NULL}}

Abstract == INSTANCE ExclusiveGuard
              WITH held <- [a \in Atomics |-> Held(a)],
                   queue <- [a \in Atomics |-> WaitingIds(a)]

----------------------------------------------------------------------------

Next ==
  \E p \in Threads :
     \/ Run(p) \/ Acq(p) \/ AcqDone(p) \/ RelDone(p)
     \/ PH(p) \/ PHn(p) \/ PC12(p) \/ PTailHead(p) \/ PT(p)
     \/ Walk(p, "p_walk", "p_fix1")
     \/ Fix1(p, "p_fix1", "p_fix2", "p_cas")
     \/ Fix2(p, "p_fix2", "p_fix3", "p_cas")
     \/ Fix3(p, "p_fix3", "p_cas")
     \/ PCas(p) \/ PSetTail(p) \/ PSetId(p) \/ PSetHas(p)
     \/ QH(p) \/ QHn(p) \/ QT(p)
     \/ Walk(p, "q_walk", "q_fix1")
     \/ Fix1(p, "q_fix1", "q_fix2", "q_c1")
     \/ Fix2(p, "q_fix2", "q_fix3", "q_c1")
     \/ Fix3(p, "q_fix3", "q_c1")
     \/ QC1(p) \/ QC2(p) \/ QC3(p) \/ QRNext(p) \/ QE1(p)

Spec == Init /\ [][Next]_vars

----------------------------------------------------------------------------
(* Properties                                                              *)

\* Mutual exclusion (spec section 8): at no time do two events both act as
\* holders of one guard, whatever the interleaving of push and pop.
MutualExclusion == \A a \in Atomics : Cardinality(Believers(a)) <= 1

\* The guard is never held by nobody: while the list is in state held0 or
\* heldM some event holds it and will release it.  This is what run_thread
\* relies on when it releases e->has.
HolderAccounted == \A a \in Atomics : Held(a) => Believers(a) /= {}

\* The assert(r->id) in EventList::pop: pop never returns a sentinel.
PopReturnsIdentified ==
  \A p \in Threads : pc[p] = "q_rnext" => id[loc[p].h] /= NoId

\* No event is lost: every event of the harness is in a running list, in
\* the hands of a thread, or parked in some guard's waiter list, so it
\* runs again once the guards it waits on are released.
NoLostEvent ==
  \A i \in Ids :
     \/ \E p \in Threads : \E k \in DOMAIN hand[p] : id[hand[p][k]] = i
     \/ i \in InFlightIds
     \/ \E a \in Atomics : i \in Range(WaitingIds(a))

\* A parked event is parked once: no id appears twice among the waiters
\* of a guard, although push copies ids from node to node and pop hands out
\* nodes other than the ones pushed.
WaiterIdsDistinct == Abstract!NoDuplicateWaiter

\* The list implements the exclusive guard of spec section 4.3: every step
\* is a step of ExclusiveGuard under the mapping of Held and WaitingIds, so
\* no parked event is lost, duplicated or overtaken.
ImplementsExclusiveGuard == Abstract!Spec

=============================================================================
