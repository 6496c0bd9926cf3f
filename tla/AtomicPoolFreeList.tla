------------------------- MODULE AtomicPoolFreeList -------------------------
(***************************************************************************)
(* The free list of AtomicPooled objects kept by the lock-free AtomicPool  *)
(* (OFluxLFAtomicPooled.cpp): AtomicPool::get pops an object for an event  *)
(* to hold, or takes a new one from the allocator when the list is empty;  *)
(* AtomicPooled::relinquish gives it back through AtomicPool::release.    *)
(* Both run on any worker thread, with one CAS on head_free each; the      *)
(* list carries no stamp.  Each load, store and CAS is one step.  The      *)
(* callers (HeldAtomic in the AtomicsHolder, absent from the repository)   *)
(* are modelled from spec 4.6: an event gets the object when it acquires   *)
(* the pool guard and relinquishes it when it lets the guard go.           *)
(***************************************************************************)
EXTENDS Integers, FiniteSets

CONSTANTS
    Clients,   \* events (on any worker thread) that get and relinquish
    Objs,      \* addresses the allocator may hand out for AtomicPooled
    NULL,
    MaxGets    \* bound: AtomicPool::get calls in a behaviour

VARIABLES
    headFree,  \* AtomicPool::head_free
    next,      \* next[o]: AtomicPooled::_next of object o
    allocated, \* objects the allocator has handed out
    pc,        \* pc[c]: where client c is
    apOut,     \* apOut[c]: get's ap_out, or relinquish's ap
    nx,        \* nx[c]: ap_out->_next as loaded for get's CAS
    h,         \* h[c]: release's h, the head_free it read
    held,      \* held[c]: the AtomicPooled c holds, or NULL
    gets       \* AtomicPool::get calls so far

vars == <<headFree, next, allocated, pc, apOut, nx, h, held, gets>>

Pcs == {"idle", "g_retry", "g_next", "g_cas", "hold", "r_read", "r_store", "r_cas"}

\* The objects reachable from head_free.
RECURSIVE ChainFrom(_, _)
ChainFrom(o, seen) ==
    IF o = NULL \/ o \in seen THEN seen ELSE ChainFrom(next[o], seen \cup {o})
FreeList == ChainFrom(headFree, {})

\* AtomicPool(): head_free(NULL); nothing is allocated yet.
Init ==
    /\ headFree = NULL
    /\ next = [o \in Objs |-> NULL]
    /\ allocated = {}
    /\ pc = [c \in Clients |-> "idle"]
    /\ apOut = [c \in Clients |-> NULL]
    /\ nx = [c \in Clients |-> NULL]
    /\ h = [c \in Clients |-> NULL]
    /\ held = [c \in Clients |-> NULL]
    /\ gets = 0

-----------------------------------------------------------------------------
(* AtomicPool::get.                                                        *)

\* The loop head ap_out = head_free (entered again after a failed CAS).
\* A NULL head ends the loop: allocator.get makes a new AtomicPooled,
\* whose constructor sets _next to NULL, and it goes to a_out.
GetRead(c) ==
    /\ pc[c] \in {"idle", "g_retry"}
    /\ pc[c] = "idle" => gets < MaxGets
    /\ gets' = IF pc[c] = "idle" THEN gets + 1 ELSE gets
    /\ IF headFree = NULL
       THEN \E o \in Objs \ allocated :
              /\ allocated' = allocated \cup {o}
              /\ next' = [next EXCEPT ![o] = NULL]
              /\ held' = [held EXCEPT ![c] = o]
              /\ pc' = [pc EXCEPT ![c] = "hold"]
              /\ UNCHANGED apOut
       ELSE /\ apOut' = [apOut EXCEPT ![c] = headFree]
            /\ pc' = [pc EXCEPT ![c] = "g_next"]
            /\ UNCHANGED <<allocated, next, held>>
    /\ UNCHANGED <<headFree, nx, h>>

\* The CAS's third argument, ap_out->_next, is loaded first.
GetNext(c) ==
    /\ pc[c] = "g_next"
    /\ nx' = [nx EXCEPT ![c] = next[apOut[c]]]
    /\ pc' = [pc EXCEPT ![c] = "g_cas"]
    /\ UNCHANGED <<headFree, next, allocated, apOut, h, held, gets>>

\* __sync_bool_compare_and_swap(&head_free, ap_out, ap_out->_next): on
\* success ap_out goes to a_out, on failure the loop reads head_free again.
GetCas(c) ==
    /\ pc[c] = "g_cas"
    /\ IF headFree = apOut[c]
       THEN /\ headFree' = nx[c]
            /\ held' = [held EXCEPT ![c] = apOut[c]]
            /\ pc' = [pc EXCEPT ![c] = "hold"]
       ELSE /\ pc' = [pc EXCEPT ![c] = "g_retry"]
            /\ UNCHANGED <<headFree, held>>
    /\ UNCHANGED <<next, allocated, apOut, nx, h, gets>>

-----------------------------------------------------------------------------
(* AtomicPooled::relinquish -> AtomicPool::release.                        *)

\* The event lets the guard go and relinquishes its AtomicPooled; init()
\* resets the resource holders, not _next.
Relinquish(c) ==
    /\ pc[c] = "hold"
    /\ apOut' = [apOut EXCEPT ![c] = held[c]]
    /\ held' = [held EXCEPT ![c] = NULL]
    /\ pc' = [pc EXCEPT ![c] = "r_read"]
    /\ UNCHANGED <<headFree, next, allocated, nx, h, gets>>

\* h = head_free
ReleaseRead(c) ==
    /\ pc[c] = "r_read"
    /\ h' = [h EXCEPT ![c] = headFree]
    /\ pc' = [pc EXCEPT ![c] = "r_store"]
    /\ UNCHANGED <<headFree, next, allocated, apOut, nx, held, gets>>

\* ap->_next = h
ReleaseStore(c) ==
    /\ pc[c] = "r_store"
    /\ next' = [next EXCEPT ![apOut[c]] = h[c]]
    /\ pc' = [pc EXCEPT ![c] = "r_cas"]
    /\ UNCHANGED <<headFree, allocated, apOut, nx, h, held, gets>>

\* __sync_bool_compare_and_swap(&head_free, h, ap), retried from the read.
ReleaseCas(c) ==
    /\ pc[c] = "r_cas"
    /\ IF headFree = h[c]
       THEN /\ headFree' = apOut[c]
            /\ pc' = [pc EXCEPT ![c] = "idle"]
       ELSE /\ pc' = [pc EXCEPT ![c] = "r_read"]
            /\ UNCHANGED headFree
    /\ UNCHANGED <<next, allocated, apOut, nx, h, held, gets>>

\* Every get has been made and every object given back.
Done ==
    /\ gets = MaxGets
    /\ \A c \in Clients : pc[c] = "idle"
    /\ UNCHANGED vars

Next ==
    \/ \E c \in Clients :
          \/ GetRead(c) \/ GetNext(c) \/ GetCas(c)
          \/ Relinquish(c) \/ ReleaseRead(c) \/ ReleaseStore(c) \/ ReleaseCas(c)
    \/ Done

Spec == Init /\ [][Next]_vars

-----------------------------------------------------------------------------
(* Properties.                                                             *)

TypeOK ==
    /\ headFree \in Objs \cup {NULL}
    /\ next \in [Objs -> Objs \cup {NULL}]
    /\ allocated \subseteq Objs
    /\ pc \in [Clients -> Pcs]
    /\ held \in [Clients -> Objs \cup {NULL}]
    /\ gets \in 0..MaxGets

\* AtomicPool::get hands an AtomicPooled to one event at a time: no two
\* events hold the same object, and no held object is still on the free
\* list where a later get would pop it.  The pop's CAS compares head_free
\* with the ap_out it read, and ap_out->_next was loaded before the CAS.
NoSharedAtomic ==
    /\ \A c, d \in Clients :
          c /= d /\ held[c] /= NULL => held[c] /= held[d]
    /\ \A c \in Clients : held[c] \notin FreeList

====
