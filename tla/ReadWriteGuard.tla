--------------------------- MODULE ReadWriteGuard ---------------------------
(***************************************************************************)
(* The lock-free read/write guard of OFluxLFAtomicReadWrite.h:             *)
(* AtomicReadWrite::acquire_or_wait and release, run concurrently by the   *)
(* events of Clients, over the ReadWriteWaiterList.  The list's push and   *)
(* pop are not in the repository; they are modelled from the spec (4.4)    *)
(* as atomic steps on the head word and a FIFO of waiters.  The head word  *)
(* in counter mode is the packed int of RWWaiterPtr (rcount<<2 | mode<<1 | *)
(* mkd); rcount stays far below the 2^29 at which the int would wrap.     *)
(***************************************************************************)
EXTENDS Integers, Sequences, FiniteSets, SequencesExt

CONSTANTS
    Clients,      \* events that take the guard
    Want,         \* Want[c]: the wtype c asks for: "Read", "Write", "Upgradeable"
    MaxAcquires   \* bound: acquire_or_wait calls in a behaviour

VARIABLES
    word,      \* the head word of ReadWriteWaiterList in counter mode
    waiters,   \* the waiter chain: a FIFO of [c, mode]
    wtype,     \* AtomicReadWrite::_wtype
    data,      \* *data(): "null" or "val"
    pc,        \* pc[c]: position of client c
    mode,      \* mode[c]: ebh->mode, the resolved local_wtype
    el,        \* el[c]: the holders pop gave back, not yet walked
    rel,       \* rel[c]: rel_ev, the events the walk handed back
    acquires   \* acquire_or_wait calls so far

vars == <<word, waiters, wtype, data, pc, mode, el, rel, acquires>>

Pcs == {"idle", "a_push", "a_set", "wait", "hold", "r_loop"}
Modes == {"Read", "Write"}

-----------------------------------------------------------------------------
(* RWWaiterPtr in counter mode.                                            *)

\* The constructor / set(rc, md, mk, e): (rc<<2) | (md?2:0) | (mk?1:0);
\* the low two bits of rc<<2 are zero, so | is +.
Pack(rc, md, mk) ==
    rc * 4 + (IF md THEN 2 ELSE 0) + (IF mk THEN 1 ELSE 0)

\* rcount() is an arithmetic shift right by 2, mode() bit 1, mkd() bit 0.
RCount(w) == w \div 4
ReadMode(w) == (w % 4) \div 2 = 1
Mkd(w) == w % 2 = 1

-----------------------------------------------------------------------------
(* ReadWriteWaiterList::push and pop (spec-modelled, spec 4.4).            *)

CanFastPathAnyMode(m) ==
    /\ waiters = <<>>
    /\ RCount(word) >= 0
\* Mutant: a Read joins the readers while a writer waits.
CanFastPathBarge(m) ==
    \/ waiters = <<>> /\ RCount(word) = 0
    \/ RCount(word) > 0 /\ ReadMode(word) /\ m = "Read"
\* Acquire fast path: free, or read-held for a Read with nobody waiting.
CanFastPath(m) ==
    /\ waiters = <<>>
    /\ \/ RCount(word) = 0
       \/ RCount(word) > 0 /\ ReadMode(word) /\ m = "Read"

\* The word after a fast-path acquisition in mode m.
Acquired(m) ==
    IF m = "Read" THEN Pack(RCount(word) + 1, TRUE, FALSE)
                  ELSE Pack(-1, FALSE, FALSE)

\* The group pop hands over: one Write alone, or all the Reads before the
\* first Write (a Write is never skipped to admit later Reads).
Group(ws) ==
    LET w == SelectInSeq(ws, LAMBDA x : x.mode = "Write")
    IN CASE w = 1 -> <<Head(ws)>>
         [] w = 0 -> ws
         [] OTHER -> SubSeq(ws, 1, w - 1)

\* pop(el, by_ev, m): a release in mode m; a writer's release frees the
\* guard, a reader's decrements rcount.  On reaching 0 the next group is
\* handed over.  Returns [word, waiters, el].
PopResult(m) ==
    LET rc == IF m = "Write" THEN 0 ELSE RCount(word) - 1
    IN IF rc = 0 /\ waiters /= <<>>
       THEN LET g == Group(waiters)
                rd == Head(g).mode = "Read"
            IN [word |-> Pack(IF rd THEN Len(g) ELSE -1, rd, FALSE),
                waiters |-> SubSeq(waiters, Len(g) + 1, Len(waiters)),
                el |-> [i \in 1..Len(g) |-> g[i].c]]
       ELSE [word |-> Pack(rc, ReadMode(word), FALSE),
             waiters |-> waiters, el |-> <<>>]

-----------------------------------------------------------------------------
(* AtomicReadWrite.                                                        *)

Init ==
    /\ word = Pack(0, FALSE, FALSE)
    /\ waiters = <<>>
    /\ wtype = "None"
    /\ data \in {"null", "val"}
    /\ pc = [c \in Clients |-> "idle"]
    /\ mode = [c \in Clients |-> "Read"]
    /\ el = [c \in Clients |-> <<>>]
    /\ rel = [c \in Clients |-> {}]
    /\ acquires = 0

\* acquire_or_wait, first part: Upgradeable is resolved on the current
\* *data(): Read when non-null, Write otherwise; ebh->mode records it.
ResolveWtypeUnresolved(w) == w
ResolveWtype(w) ==
    IF w = "Upgradeable" THEN IF data /= "null" THEN "Read" ELSE "Write"
                         ELSE w

AcquireResolve(c) ==
    /\ pc[c] = "idle"
    /\ acquires < MaxAcquires
    /\ acquires' = acquires + 1
    /\ mode' = [mode EXCEPT ![c] = ResolveWtype(Want[c])]
    /\ pc' = [pc EXCEPT ![c] = "a_push"]
    /\ UNCHANGED <<word, waiters, wtype, data, el, rel>>

\* _waiters.push(ebh): acquired on the fast path, or appended as a waiter.
AcquirePush(c) ==
    /\ pc[c] = "a_push"
    /\ IF CanFastPath(mode[c])
       THEN /\ word' = Acquired(mode[c])
            /\ pc' = [pc EXCEPT ![c] = "a_set"]
            /\ UNCHANGED waiters
       ELSE /\ waiters' = Append(waiters, [c |-> c, mode |-> mode[c]])
            /\ pc' = [pc EXCEPT ![c] = "wait"]
            /\ UNCHANGED word
    /\ UNCHANGED <<wtype, data, mode, el, rel, acquires>>

\* acqed: _wtype = local_wtype, then the ebh goes back to the allocator.
AcquireSetWtype(c) ==
    /\ pc[c] = "a_set"
    /\ wtype' = mode[c]
    /\ pc' = [pc EXCEPT ![c] = "hold"]
    /\ UNCHANGED <<word, waiters, data, mode, el, rel, acquires>>

\* The node runs holding the guard; with Write access it may initialise
\* or clear the guarded value.
Mutate(c) ==
    /\ pc[c] = "hold"
    /\ mode[c] = "Write"
    /\ data' \in {"null", "val"} \ {data}
    /\ UNCHANGED <<word, waiters, wtype, pc, mode, el, rel, acquires>>

\* release: _waiters.pop(el, by_e, _wtype), with _wtype read at the call.
ReleasePop(c) ==
    /\ pc[c] = "hold"
    /\ LET r == PopResult(wtype) IN
         /\ word' = r.word
         /\ waiters' = r.waiters
         /\ el' = [el EXCEPT ![c] = r.el]
    /\ pc' = [pc EXCEPT ![c] = "r_loop"]
    /\ UNCHANGED <<wtype, data, mode, rel, acquires>>

ReleaseWalkNoWtype(c) ==
    /\ pc[c] = "r_loop"
    /\ el[c] /= <<>>
    /\ rel' = [rel EXCEPT ![c] = @ \cup {Head(el[c])}]
    /\ el' = [el EXCEPT ![c] = Tail(@)]
    /\ UNCHANGED <<word, waiters, wtype, data, pc, mode, acquires>>

\* The walk of el: _wtype = e->mode, then e->val goes onto rel_ev.
ReleaseWalk(c) ==
    /\ pc[c] = "r_loop"
    /\ el[c] /= <<>>
    /\ LET e == Head(el[c]) IN
         /\ wtype' = mode[e]
         /\ rel' = [rel EXCEPT ![c] = @ \cup {e}]
    /\ el' = [el EXCEPT ![c] = Tail(@)]
    /\ UNCHANGED <<word, waiters, data, pc, mode, acquires>>

\* release returns; handle enqueues rel_ev, and those events now run
\* holding the guard.
ReleaseDone(c) ==
    /\ pc[c] = "r_loop"
    /\ el[c] = <<>>
    /\ pc' = [x \in Clients |-> IF x = c THEN "idle"
                                ELSE IF x \in rel[c] THEN "hold" ELSE pc[x]]
    /\ rel' = [rel EXCEPT ![c] = {}]
    /\ UNCHANGED <<word, waiters, wtype, data, mode, el, acquires>>

\* Every client is idle and the bound is spent: the run is over.
Done ==
    /\ acquires = MaxAcquires
    /\ \A c \in Clients : pc[c] = "idle"
    /\ UNCHANGED vars

Next ==
    \/ \E c \in Clients :
          \/ AcquireResolve(c) \/ AcquirePush(c) \/ AcquireSetWtype(c)
          \/ Mutate(c) \/ ReleasePop(c) \/ ReleaseWalk(c) \/ ReleaseDone(c)
    \/ Done

Spec == Init /\ [][Next]_vars

-----------------------------------------------------------------------------
(* Properties.                                                             *)

TypeOK ==
    /\ word \in Int /\ wtype \in Modes \cup {"None"}
    /\ waiters \in Seq([c : Clients, mode : Modes])
    /\ data \in {"null", "val"}
    /\ pc \in [Clients -> Pcs] /\ mode \in [Clients -> Modes]
    /\ rel \in [Clients -> SUBSET Clients]
    /\ acquires \in 0..MaxAcquires

\* The events that hold the guard: acquired on the fast path, running, or
\* handed back by a pop and not yet enqueued.
Holders ==
    {c \in Clients : pc[c] \in {"a_set", "hold"}}
      \cup UNION {ToSet(el[x]) \cup rel[x] : x \in Clients}

\* Spec 4.4 / 9: while rcount > 0 exactly rcount readers and no writer
\* hold the guard; while it is -1 exactly one writer holds it.  release
\* passes the stale-prone field _wtype to pop, so this needs _wtype to be
\* right whenever a holder releases.
RWExclusion ==
    LET rc == RCount(word) IN
    /\ rc = -1 => \E h \in Holders : Holders = {h} /\ mode[h] = "Write"
    /\ rc >= 0 => /\ rc = Cardinality(Holders)
                  /\ \A h \in Holders : mode[h] = "Read"

\* _wtype, written by every fast-path acquirer after its push and by the
\* release walk for each event it hands back, names the mode of every
\* event running with the guard.
WtypeMatches ==
    \A c \in Clients : pc[c] = "hold" => wtype = mode[c]

\* The guard as spec 4.4 describes it: the events in Holders hold it in
\* their resolved mode, and the waiter chain is its queue.
RW == INSTANCE RWGuard
        WITH granted <- [c \in Clients |-> IF c \in Holders THEN mode[c] ELSE "none"],
             queue <- waiters

\* Spec 4.4 and 8: acquire_or_wait and release, however their steps and
\* the _wtype writes interleave, behave as the atomic guard of RWGuard: a
\* push is granted at once only when nobody waits and the holders' mode
\* allows it, readers are never admitted past a queued writer, and each
\* release of the last holder hands the guard to the front group of the
\* chain in arrival order.
RefinesRWGuard == RW!Spec

\* The comment in acquire_or_wait: "we guarantee that NULL data is not
\* grabbed for Read": an Upgradeable event holding the guard as a reader
\* sees a non-null value.
NoReadOfNull ==
    \A c \in Holders :
        Want[c] = "Upgradeable" /\ mode[c] = "Read" => data = "val"

=============================================================================
