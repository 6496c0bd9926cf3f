---------------------------- MODULE MCFlowReader ----------------------------
(***************************************************************************)
(* A flow file and two plugin files for FlowReader.  Plugin p1 depends on  *)
(* p2; both extend node A of the flow through <node external="true">.  p2  *)
(* was built against a flow whose A has a successor s2, which this flow's  *)
(* A does not have.                                                        *)
(***************************************************************************)
EXTENDS FlowReader

CONSTANTS m, p1, p2, A, B, C, H, s1, s2, G, K

\* One expat callback: a start of element el, or its end.
S(el, name) == [t |-> "start", el |-> el, name |-> name, ext |-> FALSE, eh |-> FALSE,
                fn |-> name, door |-> FALSE]
X(name) == [S("node", name) EXCEPT !.ext = TRUE]
EH(name) == [S("node", name) EXCEPT !.eh = TRUE]
E(el) == [S(el, NONE) EXCEPT !.t = "end"]

\* <e name=n/>
Empty(el, name) == <<S(el, name), E(el)>>

\* <successorlist><successor name=s> body </successor></successorlist>
Succ(s, body) ==
    <<S("successorlist", NONE), S("successor", s)>> \o body
      \o <<E("successor"), E("successorlist")>>

\* <node ...> body </node>
Node(start, body) == <<start>> \o body \o <<E("node")>>

\* <add> body </add>
Add(body) == <<S("add", NONE)>> \o body \o <<E("add")>>

MCFlow ==
    <<S("flow", NONE)>>
      \o Empty("guard", G)
      \o Node(S("node", A), Empty("guardref", G)
                             \o Succ(s1, <<S("case", B)>> \o Empty("condition", K)
                                         \o <<E("case")>>)
                             \o Empty("errorhandler", H))
      \o Node(S("node", B), <<>>)
      \o Node(EH(H), <<>>)
      \o <<E("flow")>>

MCPlugin1 ==
    <<S("plugin", NONE), S("library", p1)>> \o Empty("depend", p2) \o <<E("library")>>
      \o Node(X(A), Succ(s1, Add(Empty("case", C))))
      \o Node(S("node", C), Succ(s1, Empty("case", A) \o Empty("case", B)))
      \o <<E("plugin")>>

MCPlugin2 ==
    <<S("plugin", NONE)>> \o Empty("library", p2)
      \o Node(X(A), Succ(s2, Add(Empty("case", B))))
      \o <<E("plugin")>>

\* The program's compiled-in maps have the flow's node functions, guard
\* G's atomic map and translator and condition K; p1's library has C's
\* node function.
MCMaps == Root :> {<<"node", A>>, <<"node", B>>, <<"node", H>>,
                   <<"atomic", G>>, <<"trans", G>>, <<"cond", K>>}
          @@ p1 :> {<<"node", C>>} @@ p2 :> {}

MCDoc == m :> MCFlow @@ p1 :> MCPlugin1 @@ p2 :> MCPlugin2
MCDir == <<p1, p2>>
=============================================================================
