--------------------------- MODULE PoolEventList ---------------------------
(***************************************************************************)
(* The lock-free pool guard of src/src/runtime/lockfree/atomic/           *)
(* OFluxLFAtomicPooled.cpp: PoolEventList::push, pop and complete_pop, and *)
(* AtomicPooled::acquire_or_wait and release that drive them.  One client  *)
(* is one event with its own AtomicPooled (its _by_ebh and _resource_ebh); *)
(* it acquires the pool, holds a resource and releases it, over and over.  *)
(*                                                                         *)
(* The list holds EventBaseHolder nodes behind one head word:             *)
(*   resourcesN [1]  head marked: a chain of resource nodes, then the      *)
(*                   sentinel;                                             *)
(*   empty [2]       head is the unmarked sentinel, head->next == NULL;    *)
(*   waitingM [3]    head unmarked: waiter nodes (ev != 0), then the       *)
(*                   sentinel.                                             *)
(* Every load, store and CAS of a shared word is one step; memory is      *)
(* sequentially consistent.  A pointer is a record [n |-> node, m |-> mark].*)
(*                                                                         *)
(* Three things come from headers that are not in the repository and are  *)
(* modelled from spec sections 3 and 4.5: head is a stamped pointer, so a  *)
(* CAS on it fails once any other CAS on it has succeeded since it was     *)
(* read (the set hstale); the allocator defers the free of a node that a   *)
(* hazard pointer protects (retired, Reclaim); ev_swap moves an event      *)
(* from one holder to another.                                             *)
(***************************************************************************)
EXTENDS Integers, Sequences, SequencesExt, FiniteSets

CONSTANTS
  Clients,    \* the events using the pool, each with its AtomicPooled
  ResNode,    \* ResNode[r]: the EventBaseHolder that carries resource r
  Holders,    \* the plain EventBaseHolders the allocator hands out
  NULL,       \* the pointer 0x0
  NoEv,       \* ev == 0
  NoLoc,      \* resource_loc == NULL
  Sentinel0,  \* the list's initial sentinel
  Slot0,      \* Slot0[c]: c's initial _resource_ebh (a resource node or a holder)
  By0,        \* By0[c]: c's initial _by_ebh
  MaxAcquires \* bound on the calls of acquire_or_wait in one behaviour

Resources == DOMAIN ResNode
ResNodes == {ResNode[r] : r \in Resources}
Nodes == ResNodes \cup Holders

ASSUME /\ ResNodes \cap Holders = {}
       /\ Sentinel0 \in Holders
       /\ Slot0 \in [Clients -> Nodes]
       /\ By0 \in [Clients -> Holders]

VARIABLES
  head,      \* PoolEventList::_head (pointer part)
  hstale,    \* clients whose last read of _head has a stale stamp
  tail,      \* PoolEventList::_tail
  next,      \* next[n]: EventBaseHolder::next, a pointer
  ev,        \* ev[n]: EventBaseHolder::ev, the client whose event it carries
  rloc,      \* rloc[n]: EventBaseHolder::resource_loc, whose _resource_ebh
  slot,      \* slot[c]: c's AtomicPooled::_resource_ebh
  byebh,     \* byebh[c]: c's AtomicPooled::_by_ebh
  free,      \* holders the allocator may hand out
  retired,   \* holders put back while a hazard pointer still named them
  hz,        \* hz[c]: c's two hazard pointers, [h |-> node, t |-> node]
  woken,     \* woken[c]: a release pushed c's event onto its rel_ev_vec
  pc,        \* pc[c]: where c is in acquire_or_wait/push/release/pop
  loc,       \* loc[c]: c's locals
  acquires   \* calls of acquire_or_wait so far (bounded by MaxAcquires)

vars == <<head, hstale, tail, next, ev, rloc, slot, byebh, free, retired, hz,
          woken, pc, loc, acquires>>

Ptr(n, m) == [n |-> n, m |-> m]
NULLP == Ptr(NULL, FALSE)
NodeOrNull == Nodes \cup {NULL}
Ptrs == [n : NodeOrNull, m : BOOLEAN]

LocalsInit == [h |-> NULLP, hn |-> NULLP, t |-> NULL, e |-> NULL, r |-> NULL,
               res |-> NULL, he |-> NULLP, hen |-> NULLP, hen2 |-> NULLP,
               ok |-> FALSE]

Idle == {"idle", "holding", "parked"}
PushPcs == {"a_h", "a_chk", "a_hn", "a_t", "a_walk", "a_br", "a_take",
            "a_park", "a_app", "a_tail", "a_setloc", "a_setev", "a_done"}
PopPcs == {"r_h", "r_chk", "r_hn", "r_t", "r_walk", "r_br", "r_push1",
           "r_push2", "r_pop", "r_give", "c_h", "c_walk", "c_hen", "c_h2",
           "c_hn2", "c_cas", "c_hennext", "c_unlink", "c_give", "c_restore",
           "r_done"}

TypeOK ==
  /\ head \in Ptrs /\ head.n \in Nodes
  /\ hstale \subseteq Clients
  /\ tail \in Nodes
  /\ next \in [Nodes -> Ptrs]
  /\ ev \in [Nodes -> Clients \cup {NoEv}]
  /\ rloc \in [Nodes -> Clients \cup {NoLoc}]
  /\ slot \in [Clients -> NodeOrNull]
  /\ byebh \in [Clients -> Holders]
  /\ free \subseteq Holders /\ retired \subseteq Holders
  /\ hz \in [Clients -> [h : NodeOrNull, t : NodeOrNull]]
  /\ woken \in [Clients -> BOOLEAN]
  /\ pc \in [Clients -> Idle \cup PushPcs \cup PopPcs]
  /\ acquires \in 0..MaxAcquires
  /\ loc \in [Clients -> [h : Ptrs, hn : Ptrs, t : NodeOrNull, e : NodeOrNull,
                          r : NodeOrNull, res : NodeOrNull, he : Ptrs,
                          hen : Ptrs, hen2 : Ptrs, ok : BOOLEAN]]

\* The pool starts empty [2] with its sentinel; the clients whose
\* AtomicPooled was constructed with data hold a resource.
Init ==
  /\ head = Ptr(Sentinel0, FALSE)
  /\ hstale = {}
  /\ tail = Sentinel0
  /\ next = [n \in Nodes |-> NULLP]
  /\ ev = [n \in Nodes |-> NoEv]
  /\ rloc = [n \in Nodes |-> IF \E c \in Clients : By0[c] = n
                             THEN CHOOSE c \in Clients : By0[c] = n ELSE NoLoc]
  /\ slot = Slot0
  /\ byebh = By0
  /\ free = Holders \ ({Sentinel0} \cup {By0[c] : c \in Clients}
                       \cup {Slot0[c] : c \in Clients})
  /\ retired = {}
  /\ hz = [c \in Clients |-> [h |-> NULL, t |-> NULL]]
  /\ woken = [c \in Clients |-> FALSE]
  /\ pc = [c \in Clients |-> IF Slot0[c] \in ResNodes THEN "holding" ELSE "idle"]
  /\ loc = [c \in Clients |-> LocalsInit]
  /\ acquires = 0

Goto(c, from, to) == pc[c] = from /\ pc' = [pc EXCEPT ![c] = to]

\* n is named by a hazard pointer of a client other than c.
HazardedBy(n, C) == \E d \in C : n \in {hz[d].h, hz[d].t}

\* allocator.put(n) by c, after c released its own hazard pointers: n is
\* free at once, or retired until no hazard pointer names it.
FreeAfterPut(n, c) == IF HazardedBy(n, Clients \ {c}) THEN free ELSE free \cup {n}
RetiredAfterPut(n, c) == IF HazardedBy(n, Clients \ {c}) THEN retired \cup {n} ELSE retired

NoHazard == [h |-> NULL, t |-> NULL]

\* A successful CAS on the stamped head makes every other reader stale.
HeadCas(c, new) == /\ head' = new
                   /\ hstale' = Clients \ {c}

----------------------------------------------------------------------------
(* AtomicPooled::acquire_or_wait(ev)                                       *)

\* _by_ebh->ev = ev; an empty _resource_ebh is put back; _by_ebh is
\* replaced by a fresh holder (resource_loc = &_resource_ebh); push starts
\* with the old _by_ebh as e.
AwStart(c) ==
  /\ Goto(c, "idle", "a_h")
  /\ acquires < MaxAcquires
  /\ acquires' = acquires + 1
  /\ LET by == byebh[c]
         s == slot[c]
         fr == IF s = NULL THEN free ELSE FreeAfterPut(s, c)
         nb == CHOOSE n \in fr : TRUE
     IN /\ fr /= {}
        /\ free' = fr \ {nb}
        /\ retired' = IF s = NULL THEN retired ELSE RetiredAfterPut(s, c)
        /\ ev' = [ev EXCEPT ![by] = c, ![nb] = NoEv]
        /\ rloc' = [rloc EXCEPT ![nb] = c]
        /\ next' = [next EXCEPT ![nb] = NULLP]
        /\ byebh' = [byebh EXCEPT ![c] = nb]
        /\ slot' = [slot EXCEPT ![c] = NULL]
        /\ loc' = [loc EXCEPT ![c] = [LocalsInit EXCEPT !.e = by]]
  /\ UNCHANGED <<head, hstale, tail, hz, woken>>

\* Mutant: an acquiring push gives _resource_ebh back to the allocator in
\* place of local_by_ebh.
AwDonePutSlot(c) ==
  /\ pc[c] = "a_done"
  /\ hz' = [hz EXCEPT ![c] = NoHazard]
  /\ IF loc[c].ok
     THEN /\ pc' = [pc EXCEPT ![c] = "holding"]
          /\ free' = FreeAfterPut(slot[c], c)
          /\ retired' = RetiredAfterPut(slot[c], c)
     ELSE /\ pc' = [pc EXCEPT ![c] = "parked"]
          /\ UNCHANGED <<free, retired>>
  /\ loc' = [loc EXCEPT ![c] = LocalsInit]
  /\ UNCHANGED <<acquires, head, hstale, tail, next, ev, rloc, slot, byebh, woken>>

\* Mutant: the event runs whatever push returned.
AwDoneIgnoreResult(c) ==
  /\ pc[c] = "a_done"
  /\ hz' = [hz EXCEPT ![c] = NoHazard]
  /\ pc' = [pc EXCEPT ![c] = "holding"]
  /\ free' = FreeAfterPut(loc[c].e, c)
  /\ retired' = RetiredAfterPut(loc[c].e, c)
  /\ loc' = [loc EXCEPT ![c] = LocalsInit]
  /\ UNCHANGED <<acquires, head, hstale, tail, next, ev, rloc, slot, byebh, woken>>

\* acquire_or_wait returns: an acquiring push gives local_by_ebh back to
\* the allocator, a parking one leaves it in the list.  push released its
\* hazard pointers on the way out.
AwDone(c) ==
  /\ pc[c] = "a_done"
  /\ hz' = [hz EXCEPT ![c] = NoHazard]
  /\ IF loc[c].ok
     THEN /\ pc' = [pc EXCEPT ![c] = "holding"]
          /\ free' = FreeAfterPut(loc[c].e, c)
          /\ retired' = RetiredAfterPut(loc[c].e, c)
     ELSE /\ pc' = [pc EXCEPT ![c] = "parked"]
          /\ UNCHANGED <<acquires, free, retired>>
  /\ loc' = [loc EXCEPT ![c] = LocalsInit]
  /\ UNCHANGED <<acquires, head, hstale, tail, next, ev, rloc, slot, byebh, woken>>

\* The released event runs again once the releaser enqueued it.
Resume(c) ==
  /\ Goto(c, "parked", "holding")
  /\ woken[c]
  /\ woken' = [woken EXCEPT ![c] = FALSE]
  /\ UNCHANGED <<acquires, head, hstale, tail, next, ev, rloc, slot, byebh, free,
                 retired, hz, loc>>

----------------------------------------------------------------------------
(* The loop head shared by push and pop                                    *)

\* h = _head; hazard pointer 0 on it.
ReadHead(c, from, to) ==
  /\ Goto(c, from, to)
  /\ loc' = [loc EXCEPT ![c].h = head]
  /\ hz' = [hz EXCEPT ![c].h = head.n]
  /\ hstale' = hstale \ {c}
  /\ UNCHANGED <<acquires, head, tail, next, ev, rloc, slot, byebh, free, retired, woken>>

\* if(hp != _head.get()) continue;
CheckHead(c, from, to, retry) ==
  /\ pc[c] = from
  /\ pc' = [pc EXCEPT ![c] = IF head = loc[c].h THEN to ELSE retry]
  /\ UNCHANGED <<acquires, head, hstale, tail, next, ev, rloc, slot, byebh, free,
                 retired, hz, woken, loc>>

\* hn = unmk(hp)->next
ReadHn(c, from, to) ==
  /\ Goto(c, from, to)
  /\ loc' = [loc EXCEPT ![c].hn = next[loc[c].h.n]]
  /\ UNCHANGED <<acquires, head, hstale, tail, next, ev, rloc, slot, byebh, free,
                 retired, hz, woken>>

\* HAZARD_PTR_ASSIGN(t, _tail, 1)
ReadTail(c, from, to) ==
  /\ Goto(c, from, to)
  /\ loc' = [loc EXCEPT ![c].t = tail]
  /\ hz' = [hz EXCEPT ![c].t = tail]
  /\ UNCHANGED <<acquires, head, hstale, tail, next, ev, rloc, slot, byebh, free,
                 retired, woken>>

\* while(t->next) t = t->next;  one iteration per step.
Walk(c, from, to) ==
  /\ pc[c] = from
  /\ IF next[loc[c].t] /= NULLP
     THEN /\ loc' = [loc EXCEPT ![c].t = next[loc[c].t].n]
          /\ UNCHANGED pc
     ELSE /\ pc' = [pc EXCEPT ![c] = to]
          /\ UNCHANGED loc
  /\ UNCHANGED <<acquires, head, hstale, tail, next, ev, rloc, slot, byebh, free,
                 retired, hz, woken>>

----------------------------------------------------------------------------
(* PoolEventList::push(e)                                                  *)

\* The three conditions of push's loop body, on the values it read.
PushBranch(c) ==
  LET hp == loc[c].h
      hn == loc[c].hn
      t  == loc[c].t
  IN CASE hp.m /\ hn.n /= NULL                        -> "a_take"
       [] hp.n = t /\ ~hp.m /\ hn = NULLP             -> "a_park"
       [] hp.n /= t /\ ~hp.m /\ ~hn.m /\ hn.n /= NULL -> "a_app"
       [] OTHER                                       -> "a_h"

ABr(c) ==
  /\ pc[c] = "a_br"
  /\ pc' = [pc EXCEPT ![c] = PushBranch(c)]
  /\ UNCHANGED <<acquires, head, hstale, tail, next, ev, rloc, slot, byebh, free,
                 retired, hz, woken, loc>>

\* Mutant: the taker is given unmk(hn), the resource after the one it
\* swings head past.
ATakeNext(c) ==
  /\ pc[c] = "a_take"
  /\ IF c \notin hstale
     THEN /\ HeadCas(c, loc[c].hn)
          /\ slot' = [slot EXCEPT ![c] = loc[c].hn.n]
          /\ loc' = [loc EXCEPT ![c].ok = TRUE]
          /\ pc' = [pc EXCEPT ![c] = "a_done"]
     ELSE /\ pc' = [pc EXCEPT ![c] = "a_h"]
          /\ UNCHANGED <<head, hstale, slot, loc>>
  /\ UNCHANGED <<acquires, tail, next, ev, rloc, byebh, free, retired, hz, woken>>

\* Mutant: head is swung to mk(hn) instead of hn.
ATakeMark(c) ==
  /\ pc[c] = "a_take"
  /\ IF c \notin hstale
     THEN /\ HeadCas(c, Ptr(loc[c].hn.n, TRUE))
          /\ slot' = [slot EXCEPT ![c] = loc[c].h.n]
          /\ loc' = [loc EXCEPT ![c].ok = TRUE]
          /\ pc' = [pc EXCEPT ![c] = "a_done"]
     ELSE /\ pc' = [pc EXCEPT ![c] = "a_h"]
          /\ UNCHANGED <<head, hstale, slot, loc>>
  /\ UNCHANGED <<acquires, tail, next, ev, rloc, byebh, free, retired, hz, woken>>

\* 1->(1,2): *(e->resource_loc) = unmk(hp); CAS(_head, h, hn); on failure
\* the slot is cleared again and the loop restarts.
ATake(c) ==
  /\ pc[c] = "a_take"
  /\ IF c \notin hstale
     THEN /\ HeadCas(c, loc[c].hn)
          /\ slot' = [slot EXCEPT ![c] = loc[c].h.n]
          /\ loc' = [loc EXCEPT ![c].ok = TRUE]
          /\ pc' = [pc EXCEPT ![c] = "a_done"]
     ELSE /\ pc' = [pc EXCEPT ![c] = "a_h"]
          /\ UNCHANGED <<acquires, head, hstale, slot, loc>>
  /\ UNCHANGED <<acquires, tail, next, ev, rloc, byebh, free, retired, hz, woken>>

\* 2->3: e->next = hp; CAS(_head, h, e).
APark(c) ==
  /\ pc[c] = "a_park"
  /\ next' = [next EXCEPT ![loc[c].e] = loc[c].h]
  /\ IF c \notin hstale
     THEN /\ HeadCas(c, Ptr(loc[c].e, FALSE))
          /\ pc' = [pc EXCEPT ![c] = "a_done"]
     ELSE /\ pc' = [pc EXCEPT ![c] = "a_h"]
          /\ UNCHANGED <<acquires, head, hstale>>
  /\ UNCHANGED <<acquires, tail, ev, rloc, slot, byebh, free, retired, hz, woken, loc>>

\* Mutant: e->next = NULL is dropped before e is appended.
AAppKeepNext(c) ==
  /\ pc[c] = "a_app"
  /\ LET t == loc[c].t
         e == loc[c].e
     IN IF next[t] = NULLP
        THEN /\ next' = [next EXCEPT ![t] = Ptr(e, FALSE)]
             /\ ev' = [ev EXCEPT ![e] = NoEv]
             /\ rloc' = [rloc EXCEPT ![e] = NoLoc]
             /\ pc' = [pc EXCEPT ![c] = "a_tail"]
        ELSE /\ pc' = [pc EXCEPT ![c] = "a_h"]
             /\ UNCHANGED <<next, ev, rloc>>
  /\ UNCHANGED <<acquires, head, hstale, tail, slot, byebh, free, retired, hz, woken, loc>>

\* 3->3: e is emptied to become the new sentinel (its event and
\* resource_loc kept aside) and CAS(&(t->next), NULL, e) appends it; on
\* failure e gets its event back and the loop restarts.
AApp(c) ==
  /\ pc[c] = "a_app"
  /\ LET t == loc[c].t
         e == loc[c].e
     IN IF next[t] = NULLP
        THEN /\ next' = [next EXCEPT ![t] = Ptr(e, FALSE), ![e] = NULLP]
             /\ ev' = [ev EXCEPT ![e] = NoEv]
             /\ rloc' = [rloc EXCEPT ![e] = NoLoc]
             /\ pc' = [pc EXCEPT ![c] = "a_tail"]
        ELSE /\ next' = [next EXCEPT ![e] = NULLP]
             /\ pc' = [pc EXCEPT ![c] = "a_h"]
             /\ UNCHANGED <<acquires, ev, rloc>>
  /\ UNCHANGED <<acquires, head, hstale, tail, slot, byebh, free, retired, hz, woken, loc>>

\* CAS(&_tail, t, e)
ATail(c) ==
  /\ Goto(c, "a_tail", "a_setloc")
  /\ tail' = IF tail = loc[c].t THEN loc[c].e ELSE tail
  /\ UNCHANGED <<acquires, head, hstale, next, ev, rloc, slot, byebh, free, retired, hz,
                 woken, loc>>

\* t->resource_loc = resource_loc
ASetLoc(c) ==
  /\ Goto(c, "a_setloc", "a_setev")
  /\ rloc' = [rloc EXCEPT ![loc[c].t] = c]
  /\ UNCHANGED <<acquires, head, hstale, tail, next, ev, slot, byebh, free, retired, hz,
                 woken, loc>>

\* ev_swap(t->ev, ev); return false.
ASetEv(c) ==
  /\ Goto(c, "a_setev", "a_done")
  /\ ev' = [ev EXCEPT ![loc[c].t] = c]
  /\ UNCHANGED <<acquires, head, hstale, tail, next, rloc, slot, byebh, free, retired, hz,
                 woken, loc>>

----------------------------------------------------------------------------
(* AtomicPooled::release and PoolEventList::pop(by_ev)                     *)

\* Mutant: *(by_ev->resource_loc) = NULL is dropped.
RStartKeepSlot(c) ==
  /\ Goto(c, "holding", "r_h")
  /\ loc' = [loc EXCEPT ![c] = [LocalsInit EXCEPT !.r = slot[c]]]
  /\ UNCHANGED <<acquires, slot, head, hstale, tail, next, ev, rloc, byebh, free,
                 retired, hz, woken>>

\* r = *(by_ev->resource_loc); *(by_ev->resource_loc) = NULL;
RStart(c) ==
  /\ Goto(c, "holding", "r_h")
  /\ loc' = [loc EXCEPT ![c] = [LocalsInit EXCEPT !.r = slot[c]]]
  /\ slot' = [slot EXCEPT ![c] = NULL]
  /\ UNCHANGED <<acquires, head, hstale, tail, next, ev, rloc, byebh, free, retired, hz,
                 woken>>

\* The three conditions of pop's loop body; unmk(hp)->resource and hp->ev
\* are read as part of the test.
PopBranch(c) ==
  LET hp == loc[c].h
      hn == loc[c].hn
      t  == loc[c].t
  IN CASE hp.m /\ hn.n /= NULL /\ hp.n \in ResNodes                 -> "r_push1"
       [] ~hp.m /\ hp.n = t /\ ev[hp.n] = NoEv /\ hn = NULLP         -> "r_push2"
       [] ~hp.m /\ hp.n /= t /\ ~hn.m /\ ev[hp.n] /= NoEv /\ hn.n /= NULL
                                                                    -> "r_pop"
       [] OTHER                                                     -> "r_h"

RBr(c) ==
  /\ pc[c] = "r_br"
  /\ pc' = [pc EXCEPT ![c] = PopBranch(c)]
  /\ UNCHANGED <<acquires, head, hstale, tail, next, ev, rloc, slot, byebh, free,
                 retired, hz, woken, loc>>

\* Mutant: r->next is always marked, in 2->1 as in 1->1.
RPushMarkAll(c, from, link) ==
  /\ pc[c] = from
  /\ next' = [next EXCEPT ![loc[c].r] = Ptr(link.n, TRUE)]
  /\ IF c \notin hstale
     THEN /\ HeadCas(c, Ptr(loc[c].r, TRUE))
          /\ pc' = [pc EXCEPT ![c] = "c_h"]
     ELSE /\ pc' = [pc EXCEPT ![c] = "r_h"]
          /\ UNCHANGED <<head, hstale>>
  /\ UNCHANGED <<acquires, tail, ev, rloc, slot, byebh, free, retired, hz, woken, loc>>

\* 1->1 (r->next = mk(hp)) and 2->1 (r->next = hp): CAS(_head, h, mk(r)),
\* then complete_pop.
RPush(c, from, link) ==
  /\ pc[c] = from
  /\ next' = [next EXCEPT ![loc[c].r] = link]
  /\ IF c \notin hstale
     THEN /\ HeadCas(c, Ptr(loc[c].r, TRUE))
          /\ pc' = [pc EXCEPT ![c] = "c_h"]
     ELSE /\ pc' = [pc EXCEPT ![c] = "r_h"]
          /\ UNCHANGED <<acquires, head, hstale>>
  /\ UNCHANGED <<acquires, tail, ev, rloc, slot, byebh, free, retired, hz, woken, loc>>

\* 3->(2,3): CAS(_head, h, unmk(hn))
RPop(c) ==
  /\ pc[c] = "r_pop"
  /\ IF c \notin hstale
     THEN /\ HeadCas(c, Ptr(loc[c].hn.n, FALSE))
          /\ pc' = [pc EXCEPT ![c] = "r_give"]
     ELSE /\ pc' = [pc EXCEPT ![c] = "r_h"]
          /\ UNCHANGED <<acquires, head, hstale>>
  /\ UNCHANGED <<acquires, tail, next, ev, rloc, slot, byebh, free, retired, hz, woken, loc>>

\* *(hp->resource_loc) = r; res = hp.  A NULL resource_loc would be a
\* write through NULL; the model leaves slot alone then, so the resource
\* reaches no slot and ResourceConserved reports it.
RGive(c) ==
  /\ Goto(c, "r_give", "r_done")
  /\ slot' = [slot EXCEPT ![rloc[loc[c].h.n]] = loc[c].r]
  /\ loc' = [loc EXCEPT ![c].res = loc[c].h.n]
  /\ UNCHANGED <<acquires, head, hstale, tail, next, ev, rloc, byebh, free, retired, hz,
                 woken>>

----------------------------------------------------------------------------
(* PoolEventList::complete_pop(): a waiter that was appended behind the     *)
(* sentinel after resources were pushed in front of it gets the first      *)
(* resource.                                                               *)

CH(c) ==
  /\ Goto(c, "c_h", "c_walk")
  /\ loc' = [loc EXCEPT ![c].he = head]
  /\ UNCHANGED <<acquires, head, hstale, tail, next, ev, rloc, slot, byebh, free,
                 retired, hz, woken>>

\* while(mkd(he) && mkd(unmk(he)->next)) he = unmk(he)->next;
CWalk(c) ==
  /\ pc[c] = "c_walk"
  /\ LET he == loc[c].he IN
       IF he.m /\ next[he.n].m
       THEN /\ loc' = [loc EXCEPT ![c].he = next[he.n]]
            /\ UNCHANGED pc
       ELSE /\ pc' = [pc EXCEPT ![c] = "c_hen"]
            /\ UNCHANGED loc
  /\ UNCHANGED <<acquires, head, hstale, tail, next, ev, rloc, slot, byebh, free,
                 retired, hz, woken>>

\* hen = unmk(he)->next; proceed only if hen is an unmarked waiter that
\* has its event and resource_loc and carries no resource.
CHen(c) ==
  /\ pc[c] = "c_hen"
  /\ LET hen == next[loc[c].he.n] IN
       /\ loc' = [loc EXCEPT ![c].hen = hen]
       /\ pc' = [pc EXCEPT ![c] =
                   IF /\ hen.n /= NULL /\ ~hen.m
                      /\ ev[hen.n] /= NoEv /\ rloc[hen.n] /= NoLoc
                      /\ hen.n \notin ResNodes
                   THEN "c_h2" ELSE "r_done"]
  /\ UNCHANGED <<acquires, head, hstale, tail, next, ev, rloc, slot, byebh, free,
                 retired, hz, woken>>

\* h = _head; hp = h.get();
CH2(c) ==
  /\ Goto(c, "c_h2", "c_hn2")
  /\ loc' = [loc EXCEPT ![c].h = head]
  /\ hstale' = hstale \ {c}
  /\ UNCHANGED <<acquires, head, tail, next, ev, rloc, slot, byebh, free, retired, hz,
                 woken>>

\* hn = unmk(hp)->next; if(mkd(hp) && unmk(hn) && ...
CHn2(c) ==
  /\ pc[c] = "c_hn2"
  /\ LET hn == next[loc[c].h.n] IN
       /\ loc' = [loc EXCEPT ![c].hn = hn]
       /\ pc' = [pc EXCEPT ![c] = IF loc[c].h.m /\ hn.n /= NULL
                                  THEN "c_cas" ELSE "r_done"]
  /\ UNCHANGED <<acquires, head, hstale, tail, next, ev, rloc, slot, byebh, free,
                 retired, hz, woken>>

\* ... && _head.cas(h, hn))
CCas(c) ==
  /\ pc[c] = "c_cas"
  /\ IF c \notin hstale
     THEN /\ HeadCas(c, loc[c].hn)
          /\ pc' = [pc EXCEPT ![c] = "c_hennext"]
     ELSE /\ pc' = [pc EXCEPT ![c] = "r_done"]
          /\ UNCHANGED <<acquires, head, hstale>>
  /\ UNCHANGED <<acquires, tail, next, ev, rloc, slot, byebh, free, retired, hz, woken, loc>>

\* the argument hen->next of the unlinking CAS
CHenNext(c) ==
  /\ Goto(c, "c_hennext", "c_unlink")
  /\ loc' = [loc EXCEPT ![c].hen2 = next[loc[c].hen.n]]
  /\ UNCHANGED <<acquires, head, hstale, tail, next, ev, rloc, slot, byebh, free,
                 retired, hz, woken>>

\* CAS(&(unmk(he)->next), hen, hen->next)
CUnlink(c) ==
  /\ pc[c] = "c_unlink"
  /\ LET he == loc[c].he.n IN
       IF next[he] = loc[c].hen
       THEN /\ next' = [next EXCEPT ![he] = loc[c].hen2]
            /\ pc' = [pc EXCEPT ![c] = "c_give"]
       ELSE /\ pc' = [pc EXCEPT ![c] = "c_restore"]
            /\ UNCHANGED next
  /\ UNCHANGED <<acquires, head, hstale, tail, ev, rloc, slot, byebh, free, retired, hz,
                 woken, loc>>

\* *(hen->resource_loc) = unmk(hp); return hen.
CGive(c) ==
  /\ Goto(c, "c_give", "r_done")
  /\ slot' = [slot EXCEPT ![rloc[loc[c].hen.n]] = loc[c].h.n]
  /\ loc' = [loc EXCEPT ![c].res = loc[c].hen.n]
  /\ UNCHANGED <<acquires, head, hstale, tail, next, ev, rloc, byebh, free, retired, hz,
                 woken>>

\* do { h = _head; } while(!_head.cas(h, mk(hp)));  return NULL.
CRestore(c) ==
  /\ Goto(c, "c_restore", "r_done")
  /\ HeadCas(c, Ptr(loc[c].h.n, TRUE))
  /\ UNCHANGED <<acquires, tail, next, ev, rloc, slot, byebh, free, retired, hz, woken, loc>>

\* Mutant: the popped waiter's event is not pushed onto rel_ev_vec.
RDoneNoWake(c) ==
  /\ Goto(c, "r_done", "idle")
  /\ hz' = [hz EXCEPT ![c] = NoHazard]
  /\ LET res == loc[c].res
         fr == IF res = NULL THEN free ELSE FreeAfterPut(res, c)
         ns == CHOOSE n \in fr : TRUE
     IN /\ fr /= {}
        /\ retired' = IF res = NULL THEN retired ELSE RetiredAfterPut(res, c)
        /\ free' = fr \ {ns}
        /\ slot' = [slot EXCEPT ![c] = ns]
        /\ ev' = [ev EXCEPT ![ns] = NoEv]
        /\ rloc' = [rloc EXCEPT ![ns] = NoLoc]
        /\ next' = [next EXCEPT ![ns] = NULLP]
  /\ loc' = [loc EXCEPT ![c] = LocalsInit]
  /\ UNCHANGED <<acquires, head, hstale, tail, byebh, woken>>

\* The end of pop and of AtomicPooled::release: the hazard pointers are
\* dropped; a popped waiter's event goes onto rel_ev_vec and its holder
\* back to the allocator; _resource_ebh becomes a fresh empty holder.
RDone(c) ==
  /\ Goto(c, "r_done", "idle")
  /\ hz' = [hz EXCEPT ![c] = NoHazard]
  /\ LET res == loc[c].res
         fr == IF res = NULL THEN free ELSE FreeAfterPut(res, c)
         ns == CHOOSE n \in fr : TRUE
     IN /\ fr /= {}
        /\ woken' = IF res = NULL THEN woken ELSE [woken EXCEPT ![ev[res]] = TRUE]
        /\ retired' = IF res = NULL THEN retired ELSE RetiredAfterPut(res, c)
        /\ free' = fr \ {ns}
        /\ slot' = [slot EXCEPT ![c] = ns]
        /\ ev' = [ev EXCEPT ![ns] = NoEv]
        /\ rloc' = [rloc EXCEPT ![ns] = NoLoc]
        /\ next' = [next EXCEPT ![ns] = NULLP]
  /\ loc' = [loc EXCEPT ![c] = LocalsInit]
  /\ UNCHANGED <<acquires, head, hstale, tail, byebh>>

\* The deferred free: a retired holder no hazard pointer names is free.
Reclaim(n) ==
  /\ n \in retired
  /\ ~HazardedBy(n, Clients)
  /\ retired' = retired \ {n}
  /\ free' = free \cup {n}
  /\ UNCHANGED <<acquires, head, hstale, tail, next, ev, rloc, slot, byebh, hz, woken,
                 pc, loc>>

----------------------------------------------------------------------------

\* The bound is reached and every client is idle: the behaviour ends.
Done ==
  /\ acquires = MaxAcquires
  /\ \A c \in Clients : pc[c] = "idle"
  /\ UNCHANGED vars

\* Every step of client c once it has called acquire_or_wait or holds the
\* pool: push, pop and complete_pop, the release of a held pool, and the
\* run of a woken event.
ClientStep(c) ==
  \/ AwDone(c) \/ Resume(c)
  \/ ReadHead(c, "a_h", "a_chk") \/ CheckHead(c, "a_chk", "a_hn", "a_h")
  \/ ReadHn(c, "a_hn", "a_t") \/ ReadTail(c, "a_t", "a_walk")
  \/ Walk(c, "a_walk", "a_br")
  \/ ABr(c) \/ ATake(c) \/ APark(c) \/ AApp(c)
  \/ ATail(c) \/ ASetLoc(c) \/ ASetEv(c)
  \/ RStart(c)
  \/ ReadHead(c, "r_h", "r_chk") \/ CheckHead(c, "r_chk", "r_hn", "r_h")
  \/ ReadHn(c, "r_hn", "r_t") \/ ReadTail(c, "r_t", "r_walk")
  \/ Walk(c, "r_walk", "r_br")
  \/ RBr(c)
  \/ RPush(c, "r_push1", Ptr(loc[c].h.n, TRUE))
  \/ RPush(c, "r_push2", loc[c].h)
  \/ RPop(c) \/ RGive(c)
  \/ CH(c) \/ CWalk(c) \/ CHen(c) \/ CH2(c) \/ CHn2(c) \/ CCas(c)
  \/ CHenNext(c) \/ CUnlink(c) \/ CGive(c) \/ CRestore(c)
  \/ RDone(c)

Next ==
  \/ \E n \in Holders : Reclaim(n)
  \/ Done
  \/ \E c \in Clients : AwStart(c) \/ ClientStep(c)

Spec == Init /\ [][Next]_vars

----------------------------------------------------------------------------
(* What the list's state means.                                            *)

\* The nodes reachable from head, following next whatever its mark.
RECURSIVE ChainFrom(_, _)
ChainFrom(n, k) ==
  IF n = NULL \/ k = 0 THEN {}
  ELSE {n} \cup ChainFrom(next[n].n, k - 1)

InList == ChainFrom(head.n, Cardinality(Nodes))

\* Where resource node rn is: in the list, in some AtomicPooled's
\* _resource_ebh, or in the hands of a releaser that has taken it out of
\* its slot and not yet linked or given it, or of a complete_pop that has
\* swung head past it and not yet handed it on or put it back.
InFlight(rn) ==
  {c \in Clients :
     \/ pc[c] \in {"r_h", "r_chk", "r_hn", "r_t", "r_walk", "r_br", "r_push1",
                   "r_push2", "r_pop", "r_give"} /\ loc[c].r = rn
     \/ pc[c] \in {"c_hennext", "c_unlink", "c_give", "c_restore"}
        /\ loc[c].h.n = rn}

Places(rn) ==
  Cardinality({c \in Clients : slot[c] = rn}) + Cardinality(InFlight(rn))
  + (IF rn \in InList THEN 1 ELSE 0)

\* The waiter nodes a release has unlinked and not yet handed on.
Popped ==
  {loc[d].h.n : d \in {x \in Clients : pc[x] = "r_give"}}
  \cup {loc[d].res : d \in {x \in Clients : pc[x] = "r_done" /\ loc[x].res /= NULL}}
  \cup {loc[d].hen.n : d \in {x \in Clients : pc[x] = "c_give"}}

----------------------------------------------------------------------------
(* Properties                                                              *)

\* Every resource is in exactly one place at every moment: the CASes of
\* push, pop and complete_pop (with complete_pop's put-back of the head)
\* never hand one resource to two events, nor lose one.
ResourceConserved == \A r \in Resources : Places(ResNode[r]) = 1

\* An event that acquire_or_wait parked is not lost: its event is carried
\* by a node of the list, or a release has popped it and is handing it on,
\* or it has been pushed onto a rel_ev_vec already.
NoLostWaiter ==
  \A c \in Clients :
     pc[c] = "parked" /\ ~woken[c] =>
        \E n \in InList \cup Popped : ev[n] = c

\* The list never closes on itself: push's and pop's `while(t->next)`
\* walks, and complete_pop's walk over the resources, end.  Nodes are
\* recycled through the allocator while other threads still hold stale
\* pointers to them, so a node could be linked behind its own successor.
ListAcyclic ==
  \A n \in InList : n \notin ChainFrom(next[n].n, Cardinality(Nodes))

\* A marked pointer, in head or in a next field, always names a resource
\* node: pop's 1->1 and 2->1 links and complete_pop's head swings keep the
\* marked prefix of the list made of resources, which is what push's
\* 1->(1,2) relies on when it takes unmk(hp) as its resource.
MarkedAreResources ==
  /\ head.m => head.n \in ResNodes
  /\ \A n \in InList : next[n].m => next[n].n \in ResNodes

\* When no acquire_or_wait or release is in progress, a resource is never
\* left lying in the list while an event is parked waiting for one: every
\* release that finds waiters hands them its resource, and every push that
\* parks behind free resources is picked up by complete_pop.
NoStrandedWaiter ==
  (\A c \in Clients : pc[c] \in Idle) =>
     ~ /\ InList \cap ResNodes /= {}
       /\ \E c \in Clients : pc[c] = "parked" /\ ~woken[c]

\* An event that runs holding the pool has its resource in its
\* _resource_ebh: AtomicPooled::release asserts _resource_ebh->resource.
HolderHasResource ==
  \A c \in Clients : pc[c] = "holding" => slot[c] \in ResNodes

====
