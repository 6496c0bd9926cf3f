------------------------------ MODULE RWGuard ------------------------------
(***************************************************************************)
(* What a read/write guard promises (spec sections 4.4 and 8), with each   *)
(* operation one atomic step: a request is granted at once when nobody     *)
(* waits and the mode fits the holders, and is queued otherwise; the      *)
(* release of the last holder hands the guard to the group at the front   *)
(* of the queue: one Write alone, or every Read before the first Write.    *)
(* Readers are never admitted past a queued writer, and the queue is       *)
(* served in arrival order.  ReadWriteGuard refines this module.           *)
(***************************************************************************)
EXTENDS Sequences, SequencesExt

CONSTANTS Clients   \* the events that take the guard

VARIABLES
    granted,   \* granted[c]: the mode c holds the guard in, or "none"
    queue      \* the waiting requests in arrival order: a sequence of [c, mode]

vars == <<granted, queue>>

Modes == {"Read", "Write"}

Holding == {c \in Clients : granted[c] /= "none"}

Queued == {queue[i].c : i \in DOMAIN queue}

\* A request in mode m may be granted without waiting.
Compatible(m) ==
    \/ Holding = {}
    \/ m = "Read" /\ \A h \in Holding : granted[h] = "Read"

\* The group at the front of queue q: a Write alone, or the Reads before
\* the first Write.
FrontGroup(q) ==
    LET w == SelectInSeq(q, LAMBDA x : x.mode = "Write")
    IN CASE w = 1 -> <<Head(q)>>
         [] w = 0 -> q
         [] OTHER -> SubSeq(q, 1, w - 1)

Init ==
    /\ granted = [c \in Clients |-> "none"]
    /\ queue = <<>>

Request(c, m) ==
    /\ granted[c] = "none"
    /\ c \notin Queued
    /\ IF queue = <<>> /\ Compatible(m)
       THEN /\ granted' = [granted EXCEPT ![c] = m]
            /\ UNCHANGED queue
       ELSE /\ queue' = Append(queue, [c |-> c, mode |-> m])
            /\ UNCHANGED granted

Release(c) ==
    /\ granted[c] /= "none"
    /\ LET rest == [granted EXCEPT ![c] = "none"]
           g    == FrontGroup(queue)
           gs   == {g[i].c : i \in DOMAIN g}
       IN IF (\A x \in Clients : rest[x] = "none") /\ queue /= <<>>
          THEN /\ granted' = [x \in Clients |->
                                IF x \in gs THEN g[1].mode ELSE rest[x]]
               /\ queue' = SubSeq(queue, Len(g) + 1, Len(queue))
          ELSE /\ granted' = rest
               /\ UNCHANGED queue

Next ==
    \E c \in Clients :
        \/ \E m \in Modes : Request(c, m)
        \/ Release(c)

Spec == Init /\ [][Next]_vars

=============================================================================
