----------------------------- MODULE FlowReader -----------------------------
(***************************************************************************)
(* The XML flow reader of OFluxXML.cpp: Reader::read, readxmlfile,         *)
(* readxmldir, the expat start/end handlers (pushState, popState and the   *)
(* ReaderState destructors that link each element's object to its         *)
(* parent), readPluginIfUnread for <depend>, and the final pass that       *)
(* executes the recorded AddTarget and SetErrorHandler links.              *)
(*                                                                         *)
(* A file is the sequence of start/end callbacks expat makes for it; the   *)
(* attributes are abstracted to a name and the external and iserrhandler   *)
(* flags.  Objects are named, not allocated: a node by its name, a         *)
(* successor by its node and name, a case by a number.  A function map is *)
(* named by the scope that registered it and given by the functions it    *)
(* has.  Guards, guard references and conditions are named; the lookups   *)
(* for them and for node and door functions are modelled, the io         *)
(* conversion lookup and guard precedences are left out.                   *)
(***************************************************************************)
EXTENDS Integers, Sequences, FiniteSets, SequencesExt

CONSTANTS
    Files,     \* the XML files: the flow file and the plugin files
    Main,      \* the flow file given to read()
    Dir,       \* the plugin directory's files in std::set (sorted) order
    Doc,       \* Doc[f]: the start/end callbacks for file f
    Root,      \* the scope name "" of the compiled-in function maps
    Maps,      \* Maps[s]: the <<kind, name>> entries scope s's function maps
               \* have (kinds "node", "door", "cond", "atomic", "trans")
    NONE       \* a NULL object

VARIABLES
    phase,     \* "main", "dir", "final", "done", "error" (ReaderException),
               \* "abort" (a failed assert) or "ub" (undefined behaviour)
    files,     \* the readxmlfile calls in progress: [f, pos, kind, keep]
    rs,        \* the chain of reader states from _reader_state to the root
    allow,     \* Reader::_allow_addition
    scope,     \* Reader::_scope_name
    visited,   \* DependencyTracker _depends_visited
    libs,      \* the libraries the flow has (Flow::haveLibrary)
    nodes,     \* the names of the flow's nodes
    ehs,       \* the flow's nodes read with iserrhandler
    lists,     \* the nodes that have a successor list
    succs,     \* the [n, s] successors linked into a successor list
    cases,     \* cases[[n, s]]: the successor's case ids in order
    made,      \* the cases created so far (ids 1..made)
    deleted,   \* the cases the reader deleted
    targets,   \* Reader::_add_targets: [c, tgt, scope, file]
    ehlinks,   \* Reader::_set_error_handlers: [n, tgt]
    dirIdx,    \* readxmldir's iterator over Dir
    fin,       \* the index of the AddTarget / SetErrorHandler executed next
    ctx,       \* ScopedFunctionMaps::_map: scope name -> its Context
    impl,      \* impl[n]: the maps node n's create and door functions came from
    guards,    \* guards[g]: the maps guard g's atomic map came from
    grefs,     \* the guard references added to nodes: [n, g, found]
    conds      \* the conditions added to cases: [c, fn]

vars == <<phase, files, rs, allow, scope, visited, libs, nodes, ehs, lists,
          succs, cases, made, deleted, targets, ehlinks, dirIdx, fin, ctx, impl,
          guards, grefs, conds>>

\* ReaderState<T>::ObjType::ParentObjType of the elements whose state is a
\* ReaderState<T>.
ParentEl == [flow |-> "holder", library |-> "flow", node |-> "flow",
             successorlist |-> "node", successor |-> "successorlist",
             case |-> "successor", guard |-> "flow", guardref |-> "node",
             condition |-> "case"]
Typed == DOMAIN ParentEl

\* new SuccessorList() made while the node n already has a list: a list of
\* its own, which pc_add<SuccessorList> then drops (it is never the node's).
NewList(n) == [list |-> n]

Frame(el, obj) == [el |-> el, obj |-> obj, old |-> FALSE, ext |-> FALSE,
                   eh |-> FALSE, fn |-> NONE]

\* DependencyTracker::addDependency / isDependency on _depends_set.  File
\* names are kept canonical (none starts with "./", which canonize strips).
AddDependency(f) == visited' = visited \cup {f}
IsDependency(f) == f \in visited

\* ReaderStateDepend::factory, once readPluginIfUnread has returned.
DependFrame == Frame("depend", NONE)

-----------------------------------------------------------------------------
(* ScopedFunctionMaps.                                                     *)

\* ScopedFunctionMaps::add(name, fmaps, deps): the new Context is the
\* library's own maps followed by each dependency's Context (asserted to
\* be there); std::map::insert keeps an existing entry.
AddScope(c, name, deps) ==
    IF name \in DOMAIN c THEN c
    ELSE [x \in DOMAIN c \cup {name} |->
            IF x = name THEN <<name>> \o FlattenSeq([i \in 1..Len(deps) |-> c[deps[i]]])
            ELSE c[x]]

\* The positions in Context c of the maps that have entry <<k, n>>.
Providers(c, k, n) == {i \in 1..Len(c) : <<k, n>> \in Maps[c[i]]}

\* A lookup walking Context c from its back (const_reverse_iterator) or its
\* front: the first maps with the entry; NONE (a NULL function) for none.
FromBack(c, is) == IF is = {} THEN NONE ELSE c[Max(is)]
FromFront(c, is) == IF is = {} THEN NONE ELSE c[Min(is)]

\* Scope::lookup_node_function.
LookupNode(c, n) == FromBack(c, Providers(c, "node", n))

\* Scope::lookup_door_function: the only lookup that walks from the front.
LookupDoor(c, n) == FromFront(c, Providers(c, "door", n))

\* Scope::lookup_conditional (the argno and unionhash are abstracted).
LookupConditional(c, n) == FromBack(c, Providers(c, "cond", n))

\* Scope::lookup_guard_translator (the hashes, wtype and late flag are
\* abstracted to the guard name).
LookupGuardTranslator(c, g) == FromBack(c, Providers(c, "trans", g))

\* Scope::lookup_atomic_map.
LookupAtomicMap(c, g) == FromBack(c, Providers(c, "atomic", g))

-----------------------------------------------------------------------------
(* The reader-state chain.                                                 *)


\* Reader::get<T>(): the object of the closest state named el, NONE when
\* there is none.
Get(el) ==
    LET is == {i \in 1..Len(rs) : rs[i].el = el}
    IN IF is = {} THEN NONE ELSE rs[CHOOSE i \in is : \A j \in is : j <= i].obj

\* readPluginIfUnread: walk parent() until elementName() is "flow".
FlowPrefix ==
    LET is == {i \in 1..Len(rs) : rs[i].el = "flow"}
    IN SubSeq(rs, 1, CHOOSE i \in is : \A j \in is : j <= i)

\* pc_add<Case>: a case is put in front when an "add" state (<add> or
\* <plugin>) is on the chain above it.
IsFront(chain) == \E i \in 1..Len(chain) : chain[i].el = "add"

Cur == files[Len(files)]
Tok == Doc[Cur.f][Cur.pos]

\* A callback of the innermost file being read is pending.
Reading ==
    /\ phase \in {"main", "dir"}
    /\ files /= <<>>
    /\ Cur.pos <= Len(Doc[Cur.f])

\* Advance the current file past the callback just handled.
Advance(fs) == [fs EXCEPT ![Len(fs)].pos = @ + 1]

Init ==
    /\ phase = "main"
    /\ files = <<[f |-> Main, pos |-> 1, kind |-> "main", keep |-> <<>>]>>
    /\ rs = <<Frame("holder", "H")>>
    /\ allow = TRUE
    /\ scope = Root
    /\ visited = {}
    /\ libs = {}
    /\ nodes = {} /\ ehs = {} /\ lists = {} /\ succs = {}
    /\ cases = [x \in {} |-> <<>>]
    /\ made = 0 /\ deleted = {}
    /\ targets = <<>> /\ ehlinks = <<>>
    /\ dirIdx = 1 /\ fin = 1
    /\ ctx = Root :> <<Root>>
    /\ impl = [n \in {} |-> NONE]
    /\ guards = [g \in {} |-> NONE] /\ grefs = {} /\ conds = {}

\* Reader::setErrorHandler: while additions are on, a SetErrorHandler for
\* the current node is recorded for read() to execute.
SetErrorHandler(tgt) ==
    IF allow THEN Append(ehlinks, [n |-> Get("node"), tgt |-> tgt]) ELSE ehlinks

\* Reader::addTarget: an AddTarget keeping case c, the target's name, the
\* scope it is looked up in and (for the properties) the file read.
AddTarget(c, tgt) ==
    Append(targets, [c |-> c, tgt |-> tgt, scope |-> scope, file |-> Cur.f])

\* flow_element_factory<Guard>: a new Guard with the atomic map found in
\* the current scope (NULL when none has it), whether or not additions
\* are on.
GuardFrame(g) == [Frame("guard", g) EXCEPT !.fn = LookupAtomicMap(ctx[scope], g)]

-----------------------------------------------------------------------------
(* startHandler -> pushState: the element's factory makes its state.       *)

Push(fr) == rs' = Append(rs, fr)

StartSimple ==
    LET t == Tok IN
    /\ Reading
    /\ t.t = "start"
    /\ t.el \in {"flow", "plugin", "add", "library", "node", "successorlist",
                 "errorhandler", "guard", "remove"}
    /\ CASE t.el = "flow" ->
              /\ Push(Frame("flow", "F"))
              /\ UNCHANGED <<allow, ehlinks, phase>>
         [] t.el \in {"plugin", "add"} ->
              /\ Push([Frame("add", NONE) EXCEPT !.old = allow])
              /\ allow' = TRUE
              /\ UNCHANGED <<ehlinks, phase>>
         [] t.el = "library" ->
              /\ Push(Frame("library", t.name))
              /\ UNCHANGED <<allow, ehlinks, phase>>
         [] t.el = "node" /\ t.ext ->
              /\ Push([Frame("node", IF t.name \in nodes THEN t.name ELSE NONE)
                         EXCEPT !.ext = TRUE])
              /\ allow' = FALSE
              /\ UNCHANGED <<ehlinks, phase>>
         [] t.el = "node" ->
              /\ Push([Frame("node", IF allow THEN t.name ELSE NONE)
                         EXCEPT !.eh = t.eh,
                                !.fn = [fn |-> LookupNode(ctx[scope], t.fn),
                                        door |-> IF t.door
                                                 THEN LookupDoor(ctx[scope], t.fn)
                                                 ELSE NONE]])
              /\ UNCHANGED <<allow, ehlinks, phase>>
         [] t.el = "successorlist" ->
              LET n == Get("node") IN
              /\ Push(Frame("successorlist",
                            CASE allow /\ n \in lists -> NewList(n)
                              [] allow \/ n \in lists -> n
                              [] OTHER                 -> NONE))
              /\ UNCHANGED <<allow, ehlinks, phase>>
         [] t.el = "errorhandler" ->
              /\ Push(Frame("errorhandler", NONE))
              /\ ehlinks' = SetErrorHandler(t.name)
              /\ UNCHANGED <<allow, phase>>
         [] t.el = "guard" ->
              /\ Push(GuardFrame(t.name))
              /\ UNCHANGED <<allow, ehlinks, phase>>
         [] t.el = "remove" ->
              /\ phase' = "error"
              /\ UNCHANGED <<rs, allow, ehlinks>>
    /\ files' = IF t.el = "remove" THEN files ELSE Advance(files)
    /\ UNCHANGED <<scope, visited, libs, nodes, ehs, lists, succs, cases, made,
                   deleted, targets, dirIdx, fin, ctx, impl, guards, grefs, conds>>

\* <successor>: a new Successor, or, while additions are off (inside an
\* external node), get_successor(name) on the node's list: NULL when the
\* list has none of that name, and a call through NULL when there is no
\* list.
StartSuccessor ==
    LET t == Tok
        sl == Get("successorlist")
        key == [n |-> sl, s |-> t.name]
    IN
    /\ Reading
    /\ t.t = "start" /\ t.el = "successor"
    /\ IF ~allow /\ sl = NONE
       THEN /\ phase' = "ub"
            /\ UNCHANGED <<rs, files>>
       ELSE /\ Push(Frame("successor",
                          IF allow \/ key \in succs THEN key ELSE NONE))
            /\ files' = Advance(files)
            /\ UNCHANGED phase
    /\ UNCHANGED <<allow, scope, visited, libs, nodes, ehs, lists, succs, cases,
                   made, deleted, targets, ehlinks, dirIdx, fin, ctx, impl, guards, grefs, conds>>

\* <case>: from_node->outputUnionHash() (a call through NULL when the node
\* state has none); with additions on, a new Case and an AddTarget that
\* keeps a pointer to it, in the current scope.
StartCase ==
    LET t == Tok IN
    /\ Reading
    /\ t.t = "start" /\ t.el = "case"
    /\ IF Get("node") = NONE
       THEN /\ phase' = "ub"
            /\ UNCHANGED <<rs, files, made, targets>>
       ELSE /\ Push(Frame("case", IF allow THEN made + 1 ELSE NONE))
            /\ made' = IF allow THEN made + 1 ELSE made
            /\ targets' = IF allow THEN AddTarget(made + 1, t.name) ELSE targets
            /\ files' = Advance(files)
            /\ UNCHANGED phase
    /\ UNCHANGED <<allow, scope, visited, libs, nodes, ehs, lists, succs, cases,
                   deleted, ehlinks, dirIdx, fin, ctx, impl, guards, grefs, conds>>

\* <guardref name=g>: find<Guard>(g) on the flow (NULL when the flow has
\* no guard g); with additions on, a GuardReference to it whose
\* translator must be found, else a ReaderException.
StartGuardRef ==
    LET t == Tok
        tr == LookupGuardTranslator(ctx[scope], t.name)
    IN
    /\ Reading
    /\ t.t = "start" /\ t.el = "guardref"
    /\ IF allow /\ tr = NONE
       THEN /\ phase' = "error"
            /\ UNCHANGED <<rs, files>>
       ELSE /\ Push(Frame("guardref",
                          IF allow
                          THEN [n |-> Get("node"), g |-> t.name,
                                found |-> t.name \in DOMAIN guards]
                          ELSE NONE))
            /\ files' = Advance(files)
            /\ UNCHANGED phase
    /\ UNCHANGED <<allow, scope, visited, libs, nodes, ehs, lists, succs, cases,
                   made, deleted, targets, ehlinks, dirIdx, fin, ctx, impl,
                   guards, grefs, conds>>

\* <condition name=fn>: the condition function must be found, else a
\* ReaderException, whether or not additions are on; a Condition is made
\* only while they are.
StartCondition ==
    LET t == Tok
        fn == LookupConditional(ctx[scope], t.name)
    IN
    /\ Reading
    /\ t.t = "start" /\ t.el = "condition"
    /\ IF fn = NONE
       THEN /\ phase' = "error"
            /\ UNCHANGED <<rs, files>>
       ELSE /\ Push(Frame("condition",
                          IF allow THEN [c |-> Get("case"), fn |-> fn] ELSE NONE))
            /\ files' = Advance(files)
            /\ UNCHANGED phase
    /\ UNCHANGED <<allow, scope, visited, libs, nodes, ehs, lists, succs, cases,
                   made, deleted, targets, ehlinks, dirIdx, fin, ctx, impl,
                   guards, grefs, conds>>

\* <depend name=p>: readPluginIfUnread(p).  The plugin source is searched
\* for p's file; when there is none the message is built from a NULL
\* char *.  Unless the flow has library p, a file already in
\* _depends_visited is a circular dependency; otherwise the file is
\* recorded, the state chain is cut back to the flow state and the file is
\* read from there (the ReaderStateDepend is made when it returns).
StartDepend ==
    LET t == Tok
        dep == t.name
    IN
    /\ Reading
    /\ t.t = "start" /\ t.el = "depend"
    /\ CASE dep \notin {Dir[i] : i \in 1..Len(Dir)} ->
              /\ phase' = "ub"
              /\ UNCHANGED <<files, rs, visited>>
         [] dep \in libs ->
              /\ Push(DependFrame)
              /\ files' = Advance(files)
              /\ UNCHANGED <<phase, visited>>
         [] IsDependency(dep) ->
              /\ phase' = "error"
              /\ UNCHANGED <<files, rs, visited>>
         [] OTHER ->
              /\ AddDependency(dep)
              /\ rs' = FlowPrefix
              /\ files' = Append(files, [f |-> dep, pos |-> 1, kind |-> "dep",
                                         keep |-> rs])
              /\ UNCHANGED phase
    /\ UNCHANGED <<allow, scope, libs, nodes, ehs, lists, succs, cases, made,
                   deleted, targets, ehlinks, dirIdx, fin, ctx, impl, guards, grefs, conds>>

-----------------------------------------------------------------------------
(* endHandler: delete popState().  popState turns additions back on when   *)
(* it pops a node state; the destructor of a ReaderState<T> hands its      *)
(* object to the parent state's object (pc_add), or deletes it when the    *)
(* parent has none; ~ReaderStateAddition restores _allow_addition.         *)

\* ReaderState::parent_obj(): the parent state, or the one an "add" state
\* defers to; a parent of another type fails the dynamic_cast.
ParentFrame(chain) ==
    IF chain[Len(chain)].el = "add" THEN chain[Len(chain) - 1]
                                    ELSE chain[Len(chain)]

\* _allow_addition once the state is gone: popState turns it back on for a
\* node state, ~ReaderStateAddition puts back the value it saved.
AllowAfterPop(fr) ==
    CASE fr.el = "add"  -> fr.old
      [] fr.el = "node" -> TRUE
      [] OTHER          -> allow

\* ~ReaderState: delete obj() when parent_obj() is NULL (only cases are
\* followed, as an AddTarget may point at one).
Deleted(fr, p) ==
    IF fr.el = "case" /\ p.obj = NONE /\ fr.obj /= NONE THEN {fr.obj} ELSE {}

\* pc_add(parent_obj(), obj(), reader) for the object fr of a popped state
\* whose parent state p has an object (link), with additions on or off (on).
PcAdd(fr, p, chain, link, on) ==
    \* pc_add<Library>: addLibrary sets _scope_name, registers the
    \* library's maps with the dependency "" the factory gave it, and adds
    \* the flow's library
    /\ scope' = IF link /\ fr.el = "library" THEN fr.obj ELSE scope
    /\ libs' = IF link /\ fr.el = "library" THEN libs \cup {fr.obj} ELSE libs
    /\ ctx' = IF link /\ fr.el = "library" THEN AddScope(ctx, fr.obj, <<Root>>)
             ELSE ctx
    \* pc_add<Node>: added unless the flow has a node of that name
    /\ nodes' = IF link /\ fr.el = "node" THEN nodes \cup {fr.obj} ELSE nodes
    \* pc_add<Guard>, <GuardReference>, <Condition>: the generic pc_add
    /\ guards' = IF link /\ fr.el = "guard" /\ on
                 THEN (fr.obj :> fr.fn) @@ guards ELSE guards
    /\ grefs' = IF link /\ fr.el = "guardref" /\ on THEN grefs \cup {fr.obj}
                ELSE grefs
    /\ conds' = IF link /\ fr.el = "condition" /\ on THEN conds \cup {fr.obj}
                ELSE conds
    /\ impl' = IF link /\ fr.el = "node" /\ fr.obj \notin nodes
               THEN impl @@ (fr.obj :> fr.fn) ELSE impl
    /\ ehs' = IF link /\ fr.el = "node" /\ fr.obj \notin nodes /\ fr.eh
              THEN ehs \cup {fr.obj} ELSE ehs
    \* pc_add<SuccessorList>: kept only if the node has none
    /\ lists' = IF link /\ fr.el = "successorlist" /\ fr.obj = p.obj
                THEN lists \cup {fr.obj}
                ELSE lists
    \* generic pc_add: SuccessorList::add only while additions are on
    /\ succs' = IF link /\ fr.el = "successor" /\ on THEN succs \cup {fr.obj}
                ELSE succs
    \* pc_add<Case>: Successor::add(c, is_front) while additions are on
    /\ cases' = IF link /\ fr.el = "case" /\ on
                THEN LET k == p.obj
                         old == IF k \in DOMAIN cases THEN cases[k] ELSE <<>>
                         new == IF IsFront(chain) THEN <<fr.obj>> \o old
                                                  ELSE Append(old, fr.obj)
                     IN [x \in DOMAIN cases \cup {k} |->
                           IF x = k THEN new ELSE cases[x]]
                ELSE cases

End ==
    LET fr == Last(rs)
        chain == Front(rs)
        p == ParentFrame(chain)
        a0 == IF fr.el = "node" THEN TRUE ELSE allow
        link == fr.el \in Typed /\ p.obj /= NONE /\ fr.obj /= NONE
    IN
    /\ Reading
    /\ Tok.t = "end"
    /\ IF fr.el \in Typed /\ p.el /= ParentEl[fr.el]
       THEN /\ phase' = "ub"
            /\ UNCHANGED <<rs, files, allow, scope, libs, nodes, ehs, lists,
                           succs, cases, deleted, ctx, impl, guards, grefs, conds>>
       ELSE
       /\ rs' = chain
       /\ files' = Advance(files)
       /\ allow' = AllowAfterPop(fr)
       /\ deleted' = deleted \cup Deleted(fr, p)
       /\ PcAdd(fr, p, chain, link, a0)
       /\ UNCHANGED phase
    /\ UNCHANGED <<visited, made, targets, ehlinks, dirIdx, fin>>

-----------------------------------------------------------------------------
(* readxmlfile returning, read() and readxmldir.                           *)

\* The last callback of a file has been handled.  After the flow file,
\* read() records it in _depends_visited and readxmldir pushes a flow
\* state for the holder's flow; after a dependency, readPluginIfUnread
\* restores the state chain and the <depend> gets its ReaderStateDepend.
FileEnd ==
    /\ phase \in {"main", "dir"}
    /\ files /= <<>>
    /\ Cur.pos > Len(Doc[Cur.f])
    /\ CASE Cur.kind = "main" ->
              /\ AddDependency(Main)
              /\ rs' = Append(rs, Frame("flow", "F"))
              /\ files' = <<>>
              /\ phase' = "dir"
         [] Cur.kind = "dep" ->
              /\ rs' = Append(Cur.keep, DependFrame)
              /\ files' = Advance(Front(files))
              /\ UNCHANGED <<visited, phase>>
         [] Cur.kind = "dir" ->
              /\ files' = Front(files)
              /\ UNCHANGED <<rs, visited, phase>>
    /\ UNCHANGED <<allow, scope, libs, nodes, ehs, lists, succs, cases, made,
                   deleted, targets, ehlinks, dirIdx, fin, ctx, impl, guards, grefs, conds>>

\* readxmldir: the directory's files in order, each read unless it is in
\* _depends_visited (checked when the loop reaches it).
DirNext ==
    /\ phase = "dir" /\ files = <<>>
    /\ dirIdx <= Len(Dir)
    /\ dirIdx' = dirIdx + 1
    /\ files' = IF IsDependency(Dir[dirIdx]) THEN files
                ELSE <<[f |-> Dir[dirIdx], pos |-> 1, kind |-> "dir", keep |-> <<>>]>>
    /\ UNCHANGED <<phase, rs, allow, scope, visited, libs, nodes, ehs, lists,
                   succs, cases, made, deleted, targets, ehlinks, fin, ctx, impl, guards, grefs, conds>>

\* delete popState(): the flow state goes, handing the flow to the holder.
DirDone ==
    /\ phase = "dir" /\ files = <<>>
    /\ dirIdx > Len(Dir)
    /\ rs' = Front(rs)
    /\ phase' = "final"
    /\ UNCHANGED <<files, allow, scope, visited, libs, nodes, ehs, lists, succs,
                   cases, made, deleted, targets, ehlinks, dirIdx, fin, ctx, impl, guards, grefs, conds>>

-----------------------------------------------------------------------------
(* read(): finalize the flow.                                              *)

\* AddTarget::execute: the target node is looked up and asserted, then
\* written into the case the AddTarget points at.
FinalTarget ==
    /\ phase = "final"
    /\ fin <= Len(targets)
    /\ LET at == targets[fin] IN
       CASE at.tgt \notin nodes -> phase' = "abort" /\ UNCHANGED fin
         [] at.c \in deleted    -> phase' = "ub" /\ UNCHANGED fin
         [] OTHER               -> fin' = fin + 1 /\ UNCHANGED phase
    /\ UNCHANGED <<files, rs, allow, scope, visited, libs, nodes, ehs, lists,
                   succs, cases, made, deleted, targets, ehlinks, dirIdx, ctx, impl, guards, grefs, conds>>

\* SetErrorHandler::execute: the node must exist and be an error handler.
FinalErrorHandler ==
    /\ phase = "final"
    /\ fin > Len(targets) /\ fin <= Len(targets) + Len(ehlinks)
    /\ LET e == ehlinks[fin - Len(targets)] IN
       IF e.tgt \in nodes \cap ehs
       THEN fin' = fin + 1 /\ UNCHANGED phase
       ELSE phase' = "abort" /\ UNCHANGED fin
    /\ UNCHANGED <<files, rs, allow, scope, visited, libs, nodes, ehs, lists,
                   succs, cases, made, deleted, targets, ehlinks, dirIdx, ctx, impl, guards, grefs, conds>>

FinalDone ==
    /\ phase = "final"
    /\ fin > Len(targets) + Len(ehlinks)
    /\ phase' = "done"
    /\ UNCHANGED <<files, rs, allow, scope, visited, libs, nodes, ehs, lists,
                   succs, cases, made, deleted, targets, ehlinks, dirIdx, fin, ctx, impl, guards, grefs, conds>>

\* read() has returned a flow or thrown.
Stopped ==
    /\ phase \in {"done", "error", "abort", "ub"}
    /\ UNCHANGED vars

Next ==
    \/ StartSimple \/ StartSuccessor \/ StartCase \/ StartGuardRef
    \/ StartCondition \/ StartDepend \/ End
    \/ FileEnd \/ DirNext \/ DirDone
    \/ FinalTarget \/ FinalErrorHandler \/ FinalDone
    \/ Stopped

Spec == Init /\ [][Next]_vars

-----------------------------------------------------------------------------
(* Properties.                                                             *)

\* The pointer an AddTarget keeps (flow_element_factory<Case> calls
\* reader.addTarget before the case is linked) names a case that is still
\* allocated: read() executes every AddTarget, writing into its case, once
\* all files are read.  ~ReaderState<Case> deletes the case when its
\* successor state has no object.
CaseTargetsLive ==
    \A i \in 1..Len(targets) : targets[i].c \notin deleted

\* A successor's cases read from one file are kept in that file's order:
\* Successor::get_successor takes the first case whose conditions hold,
\* so the order of the <case> elements is the order they are tried in.
CasesInFileOrder ==
    LET fileOf(c) == targets[CHOOSE i \in 1..Len(targets) : targets[i].c = c].file
    IN \A k \in DOMAIN cases :
         \A i, j \in 1..Len(cases[k]) :
           i < j /\ fileOf(cases[k][i]) = fileOf(cases[k][j])
             => cases[k][i] < cases[k][j]

====
