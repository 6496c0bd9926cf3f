------------------------- MODULE MCSuccessorDispatch -------------------------
(***************************************************************************)
(* Small flows for SuccessorDispatch.                                      *)
(*                                                                         *)
(* Flow A: initial source I feeds Y (output o1) or Z (output o2, first     *)
(* case of the same successor); source S loops on itself and feeds Y on   *)
(* o1; Y feeds Z on o1 and the source S on o2 (a non-source case to a     *)
(* source, as in a splayed fan-in); Y and Z fail into error handler E, and *)
(* so does S.  S, Y, Z and E share guards g1 and g2; Z lists them in the   *)
(* opposite lexical order, which sortGuards must correct.                  *)
(*                                                                         *)
(* Flow B: source S has a case to another looping source T ahead of its    *)
(* own self case.                                                          *)
(***************************************************************************)
EXTENDS SuccessorDispatch

CONSTANTS S, I, T, Y, Z, E, o1, o2, g1, g2, d1, d2

MCNodesA == {S, I, Y, Z, E}
MCSourceSeqA == <<I, S>>
MCSuccListA ==
    S :> << <<[cond |-> {o1}, target |-> Y]>>,
            <<[cond |-> {o1, o2}, target |-> S]>> >>
 @@ I :> << <<[cond |-> {o2}, target |-> Z], [cond |-> {o1, o2}, target |-> Y]>> >>
 @@ Y :> << <<[cond |-> {o1}, target |-> Z]>>,
            <<[cond |-> {o2}, target |-> S]>> >>
 @@ Z :> << >>
 @@ E :> << >>
MCErrorHandlerA == S :> E @@ I :> NoNode @@ Y :> E @@ Z :> E @@ E :> NoNode
MCGuardRefsA ==
    S :> <<g1>> @@ I :> << >> @@ Y :> <<g1, g2>> @@ Z :> <<g2, g1>> @@ E :> <<g2>>

MCNodesB == {S, T, Y}
MCSourceSeqB == <<S, T>>
MCSuccListB ==
    S :> << <<[cond |-> {o1, o2}, target |-> T]>>,
            <<[cond |-> {o1, o2}, target |-> S]>> >>
 @@ T :> << <<[cond |-> {o1}, target |-> T]>>,
            <<[cond |-> {o2}, target |-> Y]>> >>
 @@ Y :> << >>
MCErrorHandlerB == S :> NoNode @@ T :> NoNode @@ Y :> NoNode
MCGuardRefsB == S :> <<g1>> @@ T :> <<g1>> @@ Y :> <<g2>>

MCMagic == g1 :> 1 @@ g2 :> 2

\* g2 is an AtomicPool holding one resource; g1 stays exclusive.
MCPoolInitA == g2 :> <<d1>>
=============================================================================
