-------------------------- MODULE SuccessorDispatch --------------------------
(***************************************************************************)
(* One worker of the classic runtime turning executed events into         *)
(* successor events: RunTimeThread::handle (OFluxRunTime.cpp), the         *)
(* successor computation of OFluxEventOperations.cpp and the flow lookups  *)
(* of OFluxFlowNode.cpp, with the predecessor references that keep an      *)
(* event's input buffer alive (Event::execute, OFluxEvent.h).              *)
(*                                                                         *)
(* The flow is fixed by CONSTANTS.  An event is an id of EventIds with a   *)
(* node, a predecessor (the strong reference that owns its input) and the  *)
(* event whose output its input converter reads (inFrom).  The           *)
(* AtomicsHolder acquires a node's guards in magic-number order and parks *)
(* the event on the first one it cannot take; the holder's header is not  *)
(* in the repository, so that part is modelled from the specification.    *)
(* A guard is exclusive, or one of Pools: a classic AtomicPool            *)
(* (OFluxAtomic.cpp) that hands each acquirer an AtomicPooled object from  *)
(* its _ap_list (or a new one) and a resource from its _dq, and parks the *)
(* acquirer in its waiter deque when _dq is empty.                        *)
(***************************************************************************)
EXTENDS Integers, Sequences, SequencesExt, FiniteSets, TLC

CONSTANTS
    Nodes,          \* flow nodes
    SourceSeq,      \* flow->sources(), in flow order
    Outputs,        \* output values a node can produce (abstract)
    Guards,         \* guards of the flow
    Pools,          \* the guards of Guards that are AtomicPools; the others are exclusive
    PoolInit,       \* [Pools -> Seq(resources)]: what GuardInserter put into each _dq
    Pooled,         \* bound: the AtomicPooled objects `new` can create
    SuccList,       \* [Nodes -> Seq(Seq([cond : SUBSET Outputs, target : Nodes]))]
    ErrorHandler,   \* [Nodes -> Nodes \cup {NoNode}]
    GuardRefs,      \* [Nodes -> Seq(Guards)]: guard references in lexical order
    Magic,          \* [Guards -> Nat]: Flow::assignMagicNumbers
    MaxEvents,      \* bound: event ids 1..MaxEvents that can be alive at once
    MaxSplay,       \* bound: output values one execution can splay into
    ErrCode,        \* the non-zero return code an execution can fail with
    Lifo,           \* the lifo argument of push_initials_and_sources
    NONE, NoNode

Sources == Range(SourceSeq)
EventIds == 1..MaxEvents
NoCase == [cond |-> {}, target |-> NoNode]

VARIABLES
    started,    \* RunTime::start has pushed the initial and source events
    alive,      \* events some reference still holds
    node,       \* node[e]: flow node of event e
    pred,       \* pred[e]: the predecessor reference e holds, or NONE
    inFrom,     \* inFrom[e]: event whose output is e's input, or NONE
    working,    \* working[e]: guards of e acquired so far (working_on)
    holder,     \* holder[g]: event holding exclusive guard g, or NONE
    waiters,    \* waiters[g]: events parked on g, oldest first
    queue,      \* the runtime event queue
    isInitial,  \* Node::_is_initial cache: -1 unknown, 0, 1
    last        \* the last dispatch: node, return code, outputs, created targets

\* AtomicPool state; waiters[p] is a pool's waiter deque _q.
VARIABLES
    dq,         \* dq[p]: AtomicPool::_dq, the free resources, oldest first
    apList,     \* apList[p]: AtomicPool::_ap_list, front first
    apData,     \* apData[a]: AtomicPooled::_data of object a, or NONE
    made,       \* made[a]: the pool that created object a, or NONE
    hp          \* hp[e][p]: the AtomicPooled e's HeldAtomic for p points to, or NONE

vars == <<started, alive, node, pred, inFrom, working, holder, waiters,
          queue, isInitial, last, dq, apList, apData, made, hp>>

NoPooled == [p \in Pools |-> NONE]

-----------------------------------------------------------------------------
(* Flow lookups (OFluxFlowNode.cpp).                                       *)

SortGuardsLexical(n) == GuardRefs[n]

\* Node::sortGuards: guard references ascending by magic number (once per
\* node, at load time).
SortGuards(n) == SortSeq(GuardRefs[n], LAMBDA a, b : Magic[a] < Magic[b])

SortedGuards == [n \in Nodes |-> SortGuards(n)]

\* Node::sortGuards: the references have pairwise distinct magic numbers.
GuardsCompletelySorted(n) ==
    LET s == SortGuards(n)
    IN \A i \in 1..Len(s) - 1 : Magic[s[i]] < Magic[s[i+1]]

\* Successor::get_successor: the first case whose condition holds.
GetSuccessor(succ, o) ==
    LET sat == {i \in DOMAIN succ : o \in succ[i].cond}
    IN IF sat = {} THEN NoCase ELSE succ[Min(sat)]

\* SuccessorList::has_successor_with_target via Successor::getByTargetNode.
HasSuccessorWithTarget(n, t) ==
    \E i \in DOMAIN SuccList[n] : \E j \in DOMAIN SuccList[n][i] :
        SuccList[n][i][j].target = t

\* Node::getIsInitial, computed value.
InitialFlag(n) ==
    IF n \notin Sources THEN 0
    ELSE IF HasSuccessorWithTarget(n, n) THEN 0 ELSE 1

\* Node::getIsInitial: fills the _is_initial cache of the nodes in ns.
CacheInitial(c, ns) ==
    [m \in Nodes |-> IF m \in ns /\ c[m] < 0 THEN InitialFlag(m) ELSE c[m]]

\* SuccessorList::get_successors: one case per successor that fires.
ListSuccessors(n, o) ==
    LET firsts == [i \in DOMAIN SuccList[n] |-> GetSuccessor(SuccList[n][i], o)]
    IN [i \in 1..Len(SelectSeq(firsts, LAMBDA c : c /= NoCase)) |->
            SelectSeq(firsts, LAMBDA c : c /= NoCase)[i].target]

SuccessorTable == [n \in Nodes, o \in Outputs |-> ListSuccessors(n, o)]

\* Node::get_successors with a zero return code.
GetSuccessors(n, o) == SuccessorTable[n, o]

\* Node::get_successors with a non-zero return code: the error handler
\* case, then the node's own case for a non-initial source.
GetErrorSuccessors(n, c) ==
    (IF ErrorHandler[n] /= NoNode THEN <<ErrorHandler[n]>> ELSE <<>>)
    \o (IF n \in Sources /\ c[n] = 0 THEN <<n>> ELSE <<>>)

-----------------------------------------------------------------------------
(* Successor computation (OFluxEventOperations.cpp).                       *)

\* successors_on_no_error: the targets fired for each output in turn,
\* skipping a source target once one source target was taken (saw_source
\* lives across the whole output walk).
RECURSIVE DropRepeatSources(_, _)
DropRepeatSources(ts, saw) ==
    IF ts = <<>> THEN <<>>
    ELSE IF Head(ts) \in Sources /\ saw
         THEN DropRepeatSources(Tail(ts), saw)
         ELSE <<Head(ts)>> \o DropRepeatSources(Tail(ts), saw \/ Head(ts) \in Sources)

NoErrorTargetsPerOutput(n, outs) ==
    FlattenSeq([i \in DOMAIN outs |-> DropRepeatSources(GetSuccessors(n, outs[i]), FALSE)])
NoErrorTargets(n, outs) ==
    DropRepeatSources(FlattenSeq([i \in DOMAIN outs |-> GetSuccessors(n, outs[i])]), FALSE)

\* The predecessor and input of a successor of event e on node t:
\* successors_on_no_error creates a source with no predecessor and any
\* other target from e and e's output; successors_on_error creates from
\* e's predecessor and e's input unless e's node is a source.
NewLinks(e, t, rc, p) ==
    IF rc = 0
    THEN IF t \in Sources THEN [pred |-> NONE, inFrom |-> NONE]
                          ELSE [pred |-> e, inFrom |-> e]
    ELSE IF node[e] \in Sources THEN [pred |-> NONE, inFrom |-> NONE]
                                ELSE [pred |-> p[e], inFrom |-> inFrom[e]]

\* The first k free event ids, in ascending order.
FreeIds(k) ==
    LET free == SelectSeq([i \in 1..MaxEvents |-> i], LAMBDA x : x \notin alive)
    IN [j \in 1..k |-> free[j]]

-----------------------------------------------------------------------------
(* Guard acquisition and release (AtomicsHolder, exclusive atomics).  G    *)
(* carries the guard state through a sequence of calls; G.ok collects the  *)
(* events that acquired every guard, G.rel the waiters a release handed a  *)
(* guard to, and G.oom is set when `new AtomicPooled` would exceed Pooled. *)

\* AtomicPool::get: the front of _ap_list, taken off it, or else a new
\* AtomicPooled (NONE when the bound is reached).
PoolGet(G, p) ==
    IF G.apList[p] /= <<>> THEN Head(G.apList[p])
    ELSE LET free == {a \in Pooled : G.made[a] = NONE}
         IN IF free = {} THEN NONE ELSE Min(free)

\* AtomicPooled::acquire_or_wait for event e on pool p with object a:
\* get_data takes the front of _dq; with _dq empty, put_waiter parks e.
AcquirePooled(G, e, p, a, i) ==
    LET G1 == [G EXCEPT !.apList[p] = IF @ /= <<>> THEN Tail(@) ELSE @,
                        !.made[a] = p, !.hp[e][p] = a]
    IN IF G1.dq[p] /= <<>>
       THEN [G1 EXCEPT !.apData[a] = Head(G1.dq[p]), !.dq[p] = Tail(@),
                       !.working[e] = i]
       ELSE [G1 EXCEPT !.waiters[p] = Append(@, e)]

\* AtomicsHolder::acquire_all_or_wait: continue from working_on; take each
\* free guard; park on the first held one.
RECURSIVE AcquireAll(_, _)
AcquireAll(G, e) ==
    LET gs == SortedGuards[G.node[e]]
        i  == G.working[e] + 1
    IN IF i > Len(gs) THEN [G EXCEPT !.ok = Append(@, e)]
       ELSE IF gs[i] \in Pools
       THEN LET a  == PoolGet(G, gs[i])
                G1 == AcquirePooled(G, e, gs[i], a, i)
            IN IF a = NONE THEN [G EXCEPT !.oom = TRUE]
               ELSE IF G1.working[e] = i THEN AcquireAll(G1, e) ELSE G1
       ELSE IF G.holder[gs[i]] = NONE
            THEN AcquireAll([G EXCEPT !.holder[gs[i]] = e, !.working[e] = i], e)
            ELSE [G EXCEPT !.waiters[gs[i]] = Append(@, e)]

RECURSIVE AcquireSeq(_, _)
AcquireSeq(G, es) ==
    IF es = <<>> THEN G ELSE AcquireSeq(AcquireAll(G, Head(es)), Tail(es))

\* AtomicPool::put: link a onto the front of _ap_list unless it is already
\* on it (its next is set, or it is _ap_last).
PoolPut(l, a) == IF a \in Range(l) THEN l ELSE <<a>> \o l

\* Mutant: release puts the resource back although an event waits.
ReleasePooledIgnoreWaiters(G, e, p) ==
    LET a == G.hp[e][p] IN
    [G EXCEPT !.dq[p] = IF G.apData[a] /= NONE THEN Append(@, G.apData[a]) ELSE @,
              !.apData[a] = NONE, !.apList[p] = PoolPut(@, a), !.hp[e][p] = NONE]

\* Mutant: the branch without waiters drops the resource (no put_data).
ReleasePooledNoPutData(G, e, p) ==
    LET a == G.hp[e][p] IN
    IF G.waiters[p] /= <<>>
    THEN LET w == Head(G.waiters[p]) IN
         [G EXCEPT !.apData[G.hp[w][p]] = G.apData[a], !.apData[a] = NONE,
                   !.waiters[p] = Tail(@), !.working[w] = @ + 1,
                   !.rel = Append(@, w), !.hp[e][p] = NONE]
    ELSE [G EXCEPT !.apData[a] = NONE, !.apList[p] = PoolPut(@, a), !.hp[e][p] = NONE]

\* AtomicPooled::release of e's object a on pool p: with a waiter
\* (get_waiter), the waiter's own object takes _data, a's is cleared and
\* the waiter joins rel_ev, and a is not put back on _ap_list; otherwise
\* _data returns to _dq (put_data) and a to _ap_list (put).  The holder
\* does not use a after the release.
ReleasePooled(G, e, p) ==
    LET a == G.hp[e][p] IN
    IF G.waiters[p] /= <<>>
    THEN LET w == Head(G.waiters[p]) IN
         [G EXCEPT !.apData[G.hp[w][p]] = G.apData[a], !.apData[a] = NONE,
                   !.waiters[p] = Tail(@), !.working[w] = @ + 1,
                   !.rel = Append(@, w), !.hp[e][p] = NONE]
    ELSE [G EXCEPT !.dq[p] = IF G.apData[a] /= NONE THEN Append(@, G.apData[a]) ELSE @,
                   !.apData[a] = NONE, !.apList[p] = PoolPut(@, a), !.hp[e][p] = NONE]

\* AtomicsHolder::release: each guard of e goes to its oldest waiter, or
\* becomes free.
RECURSIVE ReleaseGuardsUnlisted(_, _, _)
ReleaseGuardsUnlisted(G, e, gs) ==
    IF gs = <<>> THEN G
    ELSE LET g == Head(gs) IN
         IF g \in Pools THEN ReleaseGuardsUnlisted(ReleasePooled(G, e, g), e, Tail(gs))
         ELSE IF G.waiters[g] = <<>>
         THEN ReleaseGuardsUnlisted([G EXCEPT !.holder[g] = NONE], e, Tail(gs))
         ELSE LET w == Head(G.waiters[g]) IN
              ReleaseGuardsUnlisted([G EXCEPT !.holder[g] = w, !.waiters[g] = Tail(@),
                                              !.working[w] = @ + 1], e, Tail(gs))

RECURSIVE ReleaseGuards(_, _, _)
ReleaseGuards(G, e, gs) ==
    IF gs = <<>> THEN G
    ELSE LET g == Head(gs) IN
         IF g \in Pools THEN ReleaseGuards(ReleasePooled(G, e, g), e, Tail(gs))
         ELSE IF G.waiters[g] = <<>>
         THEN ReleaseGuards([G EXCEPT !.holder[g] = NONE], e, Tail(gs))
         ELSE LET w == Head(G.waiters[g]) IN
              ReleaseGuards([G EXCEPT !.holder[g] = w, !.waiters[g] = Tail(@),
                                      !.working[w] = @ + 1, !.rel = Append(@, w)],
                            e, Tail(gs))

\* Events referenced by the queue or a waiter list, and everything their
\* predecessor references keep alive (shared-pointer reachability).
Pending(q, w) == Range(q) \cup UNION {Range(w[g]) : g \in Guards}

LiveFrom(roots, p) ==
    LET RECURSIVE Close(_)
        Close(S) == LET T == S \cup ({p[x] : x \in S} \ {NONE})
                    IN IF T = S THEN S ELSE Close(T)
    IN Close(roots)

CollectQueueOnly(G, p, inF, q) ==
    LET live == LiveFrom(Range(q), p)
    IN /\ alive' = live
       /\ node' = [x \in EventIds |-> IF x \in live THEN G.node[x] ELSE NoNode]
       /\ pred' = [x \in EventIds |-> IF x \in live THEN p[x] ELSE NONE]
       /\ inFrom' = [x \in EventIds |-> IF x \in live THEN inF[x] ELSE NONE]
       /\ working' = [x \in EventIds |-> IF x \in live THEN G.working[x] ELSE 0]
       /\ holder' = G.holder
       /\ waiters' = G.waiters
       /\ queue' = q
       /\ dq' = G.dq
       /\ apList' = G.apList
       /\ apData' = G.apData
       /\ made' = G.made
       /\ hp' = [x \in EventIds |-> IF x \in live THEN G.hp[x] ELSE NoPooled]

\* Freed ids are reset so that a reused id carries nothing of the old event.
Collect(G, p, inF, q) ==
    LET live == LiveFrom(Pending(q, G.waiters), p)
    IN /\ alive' = live
       /\ node' = [x \in EventIds |-> IF x \in live THEN G.node[x] ELSE NoNode]
       /\ pred' = [x \in EventIds |-> IF x \in live THEN p[x] ELSE NONE]
       /\ inFrom' = [x \in EventIds |-> IF x \in live THEN inF[x] ELSE NONE]
       /\ working' = [x \in EventIds |-> IF x \in live THEN G.working[x] ELSE 0]
       /\ holder' = G.holder
       /\ waiters' = G.waiters
       /\ queue' = q
       /\ dq' = G.dq
       /\ apList' = G.apList
       /\ apData' = G.apData
       /\ made' = G.made
       /\ hp' = [x \in EventIds |-> IF x \in live THEN G.hp[x] ELSE NoPooled]

\* vals[j] for the event ids[j], base[x] for every other id.
AtIds(ids, vals, base) ==
    [x \in EventIds |-> IF \E j \in DOMAIN ids : ids[j] = x
                        THEN vals[CHOOSE j \in DOMAIN ids : ids[j] = x]
                        ELSE base[x]]

\* The guard state of G0 with new events on nodes ts under ids.
Fresh(ids, ts) ==
    [node    |-> AtIds(ids, ts, node),
     working |-> AtIds(ids, [j \in DOMAIN ids |-> 0], working),
     holder  |-> holder, waiters |-> waiters, ok |-> <<>>, rel |-> <<>>,
     hp      |-> AtIds(ids, [j \in DOMAIN ids |-> NoPooled], hp),
     dq |-> dq, apList |-> apList, apData |-> apData, made |-> made, oom |-> FALSE]

Splays == UNION {[1..k -> Outputs] : k \in 1..MaxSplay}

-----------------------------------------------------------------------------
Init ==
    /\ started = FALSE
    /\ alive = {}
    /\ node = [x \in EventIds |-> NoNode]
    /\ pred = [x \in EventIds |-> NONE]
    /\ inFrom = [x \in EventIds |-> NONE]
    /\ working = [x \in EventIds |-> 0]
    /\ holder = [g \in Guards |-> NONE]
    /\ waiters = [g \in Guards |-> <<>>]
    /\ queue = <<>>
    /\ isInitial = [n \in Nodes |-> -1]
    /\ last = [node |-> NoNode, rc |-> 0, outs |-> <<>>, created |-> <<>>]
    /\ dq = PoolInit
    /\ apList = [p \in Pools |-> <<>>]
    /\ apData = [a \in Pooled |-> NONE]
    /\ made = [a \in Pooled |-> NONE]
    /\ hp = [x \in EventIds |-> NoPooled]

\* RunTime::start pushing push_initials_and_sources: initial sources are
\* created and acquire first, then the other sources; without lifo the
\* initial ones are queued behind the others.
Start ==
    LET cache == CacheInitial(isInitial, Sources)
        ini   == SelectSeq(SourceSeq, LAMBDA n : cache[n] = 1)
        non   == SelectSeq(SourceSeq, LAMBDA n : cache[n] = 0)
        ids   == FreeIds(Len(ini) + Len(non))
        GI    == AcquireSeq(Fresh(ids, ini \o non), SubSeq(ids, 1, Len(ini)))
        GN    == AcquireSeq([GI EXCEPT !.ok = <<>>], SubSeq(ids, Len(ini) + 1, Len(ids)))
    IN /\ ~started
       /\ ~GN.oom
       /\ Collect(GN, pred, inFrom, IF Lifo THEN GI.ok \o GN.ok ELSE GN.ok \o GI.ok)
       /\ started' = TRUE
       /\ isInitial' = cache
       /\ UNCHANGED last

\* Event::execute: a successful run drops the predecessor reference
\* (EventBase::release); a failed run keeps it for the error successors.
ExecuteReleaseAlways(e, rc) == [pred EXCEPT ![e] = NONE]
ExecuteRelease(e, rc) == IF rc = 0 THEN [pred EXCEPT ![e] = NONE] ELSE pred

RetryReleased(G) == AcquireSeq(G, G.rel)

NoErrorTable == [n \in Nodes, outs \in Splays |-> NoErrorTargets(n, outs)]

\* Node::get_successors consults getIsInitial only for a failed source.
HandleCache(e, rc) ==
    IF rc /= 0 /\ node[e] \in Sources
    THEN CacheInitial(isInitial, {node[e]}) ELSE isInitial

\* The targets handle creates events for, by return code.
HandleTargets(e, rc, outs) ==
    IF rc = 0 THEN NoErrorTable[node[e], outs]
    ELSE GetErrorSuccessors(node[e], HandleCache(e, rc))

\* The guard state after handle has acquired for the successors of e on
\* targets ts, released e's guards and retried the waiters handed one.
HandleGuards(e, ts) ==
    LET ids == FreeIds(Len(ts))
    IN RetryReleased(ReleaseGuards(AcquireSeq(Fresh(ids, ts), ids), e,
                                   SortedGuards[node[e]]))

\* RunTimeThread::handle for the event at position k of the queue:
\* Event::execute (dropping the predecessor on success), successor
\* computation and acquisition, release of the event's guards with a
\* second acquisition attempt by each waiter handed a guard, enqueue_list,
\* and the references dropped when the handler returns.
Handle(k) ==
    LET e == queue[k] IN
    /\ started
    /\ \E rc \in {0, ErrCode}, outs \in Splays :
        LET p0    == ExecuteRelease(e, rc)
            cache == HandleCache(e, rc)
            ts    == HandleTargets(e, rc, outs)
            ids   == FreeIds(Len(ts))
            links == [j \in DOMAIN ids |-> NewLinks(e, ts[j], rc, p0)]
            G3    == HandleGuards(e, ts)
        IN /\ Cardinality(EventIds \ alive) >= Len(ts)
           /\ ~G3.oom
           /\ Collect(G3, AtIds(ids, [j \in DOMAIN ids |-> links[j].pred], p0),
                      AtIds(ids, [j \in DOMAIN ids |-> links[j].inFrom], inFrom),
                      RemoveAt(queue, k) \o G3.ok)
           /\ isInitial' = cache
           /\ last' = [node |-> node[e], rc |-> rc, outs |-> outs, created |-> ts]
           /\ UNCHANGED started

\* Every dispatch needs more event ids, or more AtomicPooled objects, than
\* the bounds allow: the program would allocate further ones.
Exhausted ==
    /\ started
    /\ queue /= <<>>
    /\ \A k \in DOMAIN queue, rc \in {0, ErrCode}, outs \in Splays :
           LET ts == HandleTargets(queue[k], rc, outs)
           IN IF Cardinality(EventIds \ alive) < Len(ts) THEN TRUE
              ELSE HandleGuards(queue[k], ts).oom
    /\ UNCHANGED vars

Next ==
    \/ Start
    \/ \E k \in DOMAIN queue : Handle(k)
    \/ Exhausted

Spec == Init /\ [][Next]_vars

-----------------------------------------------------------------------------
(* Properties.                                                             *)

TypeOK ==
    /\ started \in BOOLEAN
    /\ alive \subseteq EventIds
    /\ node \in [EventIds -> Nodes \cup {NoNode}]
    /\ pred \in [EventIds -> EventIds \cup {NONE}]
    /\ inFrom \in [EventIds -> EventIds \cup {NONE}]
    /\ holder \in [Guards -> EventIds \cup {NONE}]
    /\ \A p \in Pools : holder[p] = NONE /\ Range(apList[p]) \subseteq {a \in Pooled : made[a] = p}
    /\ hp \in [EventIds -> [Pools -> Pooled \cup {NONE}]]
    /\ \A g \in Guards : Range(waiters[g]) \subseteq alive
    /\ Range(queue) \subseteq alive
    /\ isInitial \in [Nodes -> {-1, 0, 1}]

\* Event::execute drops the predecessor reference only after a successful
\* run, and successors_on_error gives the error handler the failed event's
\* predecessor and input: an event that has yet to run (queued or parked)
\* reads its input from a buffer some alive event still holds.
InputOwnedWhileLive ==
    \A e \in Pending(queue, waiters) : inFrom[e] /= NONE => inFrom[e] \in alive

\* e holds guard g: the exclusive guard names e, or e's AtomicPooled for
\* the pool has a resource.
HoldsGuard(e, g) ==
    IF g \in Pools THEN hp[e][g] /= NONE /\ apData[hp[e][g]] /= NONE
    ELSE holder[g] = e

NoStall ==
    started /\ queue = <<>> => \A g \in Guards : waiters[g] = <<>>

\* Non-initial sources are re-emitted after each execution, on success by
\* their self case and on error by Node::get_successors: each such source
\* always has an event queued or parked.
SourceSustained ==
    started =>
        \A s \in Sources :
            HasSuccessorWithTarget(s, s) => \E e \in Pending(queue, waiters) : node[e] = s

\* Reference for one dispatch.  On success: every (output, successor) pair
\* whose successor fires yields one event of a non-source target, and the
\* source targets fired yield exactly one source event between them.  On
\* error: the error handler, if any, and the node itself when it is a
\* source with a self case, each once.
FiredPairs(n, outs) ==
    {pr \in (DOMAIN outs) \X (DOMAIN SuccList[n]) :
        GetSuccessor(SuccList[n][pr[2]], outs[pr[1]]) /= NoCase}

FiredTarget(n, outs, pr) == GetSuccessor(SuccList[n][pr[2]], outs[pr[1]]).target

CountOf(s, m) == Cardinality({i \in DOMAIN s : s[i] = m})

\* successors_on_no_error and successors_on_error create exactly the
\* successors of the reference above for the output list and return code of
\* the execution (saw_source spans all outputs of a splayed execution).
DispatchMatchesCases ==
    LET n == last.node
        outs == last.outs
        cr == last.created
        fired == {FiredTarget(n, outs, pr) : pr \in FiredPairs(n, outs)}
    IN n /= NoNode =>
        IF last.rc = 0
        THEN /\ \A m \in Nodes \ Sources :
                    CountOf(cr, m) = Cardinality({pr \in FiredPairs(n, outs) :
                                                   FiredTarget(n, outs, pr) = m})
             /\ Cardinality({i \in DOMAIN cr : cr[i] \in Sources})
                    = IF fired \cap Sources /= {} THEN 1 ELSE 0
             /\ Range(cr) \subseteq fired
        ELSE /\ Range(cr) = ({ErrorHandler[n]} \ {NoNode})
                             \cup {m \in {n} \cap Sources : HasSuccessorWithTarget(m, m)}
             /\ Len(cr) = Cardinality(Range(cr))

\* Every resource of a pool is in exactly one place at every moment: in
\* _dq, or in the _data of one AtomicPooled.  get_data takes it off _dq,
\* AtomicPooled::release moves it into the oldest waiter's object and
\* clears its own, or returns it with put_data, and an object is put on
\* _ap_list, and taken off it by AtomicPool::get, only once it is empty.
PoolResourceConserved ==
    \A p \in Pools : \A d \in Range(PoolInit[p]) :
        CountOf(dq[p], d) + Cardinality({a \in Pooled : apData[a] = d}) = 1

\* A pool never has a free resource while an event is parked on it (spec
\* 4.5: free resources and parked waiters never both): acquire_or_wait
\* parks only when _dq is empty, and AtomicPooled::release gives the
\* resource to the oldest waiter whenever waiter_count() is non-zero.
PoolIdleOnlyWithoutWaiters ==
    \A p \in Pools : dq[p] /= <<>> => waiters[p] = <<>>
=============================================================================
