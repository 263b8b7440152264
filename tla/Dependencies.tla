----------------------------- MODULE Dependencies -----------------------------
(***************************************************************************)
(* The formula dependency analysis exercised by                            *)
(* src/aux-common/Formulas/Dependencies.spec.ts, modelled from its         *)
(* specification (spec.md, sections 3 and 4.2-4.6), since the              *)
(* implementation is not in the repository: simplify, the aux replacer,    *)
(* flatten, getMemberName and calculateAuxDependencies, as pure recursive  *)
(* operators over raw dependency trees (the Tree Builder's output).        *)
(*                                                                         *)
(* Every node is a record [type, name, obj, deps]: name is a dotted name   *)
(* as the sequence of its parts (a literal's value the same way, with a    *)
(* leading "#" as a part of its own), obj is <<>> or <<the object or       *)
(* callee node>>, and deps the node's dependencies (a call's arguments).   *)
(***************************************************************************)
EXTENDS Naturals, Sequences, SequencesExt

CONSTANT Formulas   \* raw expression trees the formulas parse to

VARIABLES
    formula,   \* the formula the reactive graph last analysed
    deps       \* calculateAuxDependencies of it

vars == <<formula, deps>>

Node(t, nm, o, ds) == [type |-> t, name |-> nm, obj |-> o, deps |-> ds]
Sigils == {"tag", "file"}
All == Node("all", <<>>, <<>>, <<>>)
AmbiguousDependencyError == Node("error", <<>>, <<>>, <<>>)

-----------------------------------------------------------------------------
\* getMemberName: the dotted name of a member, call, tag or file chain.
RECURSIVE getMemberName(_)
getMemberName(n) ==
    CASE n.type = "member" ->
            (IF n.obj = <<>> THEN <<>> ELSE getMemberName(n.obj[1])) \o n.name
      [] n.type = "call" -> getMemberName(n.obj[1]) \o <<"()">>
      [] OTHER -> n.name

\* The node a member or call chain starts from.
RECURSIVE ChainRoot(_)
ChainRoot(n) ==
    IF n.type \in {"member", "call"} /\ n.obj # <<>> THEN ChainRoot(n.obj[1]) ELSE n

\* The part of a chain's dotted name after its tag or file root r.
Suffix(n, r) == LET p == getMemberName(n) IN SubSeq(p, Len(r.name) + 1, Len(p))

RECURSIVE simplify(_), simplifyAll(_)

\* (mutant) a tag or file keeps its raw dependencies.
SimplifySigilRaw(n) == Node(n.type, n.name, <<>>, n.deps)

\* A tag or file node is kept with its dependencies simplified.
SimplifySigil(n) == Node(n.type, n.name, <<>>, simplifyAll(n.deps))

(* simplify: literals pass; a member chain becomes one reduced member and  *)
(* a call one function node, each named by its dotted path, unless the     *)
(* chain starts at a tag or file: then that node is emitted first and the  *)
(* rest of the path after it; an expression is its children's simplified   *)
(* forms, concatenated in order.                                           *)
simplify(n) ==
    CASE n.type = "literal" -> <<n>>
      [] n.type = "expression" -> simplifyAll(n.deps)
      [] n.type \in Sigils -> <<SimplifySigil(n)>>
      [] n.type = "member" ->
            LET r == ChainRoot(n) IN
            IF r.type \in Sigils
            THEN <<SimplifySigil(r), Node("member", Suffix(n, r), <<>>, <<>>)>>
            ELSE <<Node("member", getMemberName(n), <<>>, <<>>)>>
      [] n.type = "call" ->
            LET c == n.obj[1]
                r == ChainRoot(c)
            IN IF r.type \in Sigils
               THEN <<SimplifySigil(r), Node("function", Suffix(c, r), <<>>, simplifyAll(n.deps))>>
               ELSE <<Node("function", getMemberName(c), <<>>, simplifyAll(n.deps))>>

simplifyAll(ns) == IF ns = <<>> THEN <<>> ELSE simplify(Head(ns)) \o simplifyAll(Tail(ns))

-----------------------------------------------------------------------------
(* The aux replacer: the table of built-ins of section 4.4.                *)
ContextTags ==
    (<<"player", "getMenuContext">> :> <<"aux", "_userMenuContext">>) @@
    (<<"player", "getInventoryContext">> :> <<"aux", "_userInventoryContext">>) @@
    (<<"player", "currentContext">> :> <<"aux", "_userContext">>)

BuiltinNames ==
    {<<"getBot">>, <<"getBots">>, <<"getBotsInContext">>, <<"getBotsInStack">>,
     <<"getNeighboringBots">>, <<"getBotTagValues">>, <<"getTag">>,
     <<"player", "isDesigner">>, <<"player", "hasFileInInventory">>} \cup DOMAIN ContextTags

\* A literal string loses one leading "#".
Strip(v) == IF v # <<>> /\ Head(v) = "#" THEN Tail(v) ELSE v

IsLiteral(ds, i) == Len(ds) >= i /\ ds[i].type = "literal"

RECURSIVE replaceAuxDependencies(_)

\* (mutant) the remaining arguments of getBot are dropped.
getBotNoRest(n) ==
    IF IsLiteral(n.deps, 1)
    THEN <<Node("file", Strip(n.deps[1].name), <<>>, <<>>)>>
    ELSE <<AmbiguousDependencyError>>

\* getBot, getBots: a file named by the stripped first argument.
getBot(n) ==
    IF IsLiteral(n.deps, 1)
    THEN <<Node("file", Strip(n.deps[1].name), <<>>, replaceAuxDependencies(Tail(n.deps)))>>
    ELSE <<AmbiguousDependencyError>>

\* getTag: a tag_value per literal argument after the first, each on the
\* resolved first argument.
getTag(n) ==
    IF n.deps = <<>> THEN <<>>
    ELSE LET first == replaceAuxDependencies(<<n.deps[1]>>)
             one(acc, d) == IF d.type = "literal"
                            THEN Append(acc, Node("tag_value", Strip(d.name), <<>>, first))
                            ELSE acc
         IN FoldLeft(one, <<>>, Tail(n.deps))

\* The nodes the built-in function node n is replaced by.
Produce(n) ==
    LET a == n.deps
        file(nm) == Node("file", nm, <<>>, <<>>)
        tag(nm) == Node("tag", nm, <<>>, <<>>)
    IN CASE n.name \in {<<"getBot">>, <<"getBots">>} -> getBot(n)
         [] n.name = <<"getBotsInContext">> ->
               IF IsLiteral(a, 1) THEN <<file(a[1].name)>> ELSE <<AmbiguousDependencyError>>
         [] n.name \in {<<"getBotsInStack">>, <<"getNeighboringBots">>} ->
               IF IsLiteral(a, 2)
               THEN <<file(a[2].name), file(a[2].name \o <<"x">>), file(a[2].name \o <<"y">>)>>
               ELSE <<AmbiguousDependencyError>>
         [] n.name = <<"getBotTagValues">> ->
               IF IsLiteral(a, 1)
               THEN <<Node("tag", Strip(a[1].name), <<>>, replaceAuxDependencies(Tail(a)))>>
               ELSE <<AmbiguousDependencyError>>
         [] n.name = <<"getTag">> -> getTag(n)
         [] n.name = <<"player", "isDesigner">> -> <<tag(<<"aux", "designers">>)>>
         [] n.name = <<"player", "hasFileInInventory">> -> <<All>>
         [] n.name \in DOMAIN ContextTags -> <<tag(ContextTags[n.name])>>

(* replaceDependencies with the aux map: a called built-in is replaced by  *)
(* its producer's nodes, which are not scanned again; any other node keeps *)
(* its place and has its own dependencies replaced.                        *)
replaceNode(n) ==
    IF n.type = "function" /\ n.name \in BuiltinNames
    THEN Produce(n)
    ELSE <<[n EXCEPT !.deps = replaceAuxDependencies(n.deps)]>>

replaceAuxDependencies(ns) ==
    IF ns = <<>> THEN <<>> ELSE replaceNode(Head(ns)) \o replaceAuxDependencies(Tail(ns))

\* flatten: each node, then its flattened dependencies, then its siblings.
RECURSIVE flatten(_)
flatten(ns) ==
    IF ns = <<>> THEN <<>>
    ELSE <<Head(ns)>> \o flatten(Head(ns).deps) \o flatten(Tail(ns))

\* The analysis threw AmbiguousDependencyError.
Failed(ns) == \E n \in Range(flatten(ns)) : n.type = "error"

\* calculateAuxDependencies: simplify and replace; [] when the analysis fails.
calculateAuxDependencies(f) ==
    LET r == replaceAuxDependencies(simplify(f)) IN IF Failed(r) THEN <<>> ELSE r

-----------------------------------------------------------------------------
\* calculateAuxDependencies of every formula, computed once.
Analysis == [f \in Formulas |-> calculateAuxDependencies(f)]

Init ==
    /\ formula \in Formulas
    /\ deps = Analysis[formula]

\* The reactive graph analyses a formula.
Analyze(f) ==
    /\ formula' = f
    /\ deps' = Analysis[f]

Next == \E f \in Formulas : Analyze(f)

Spec == Init /\ [][Next]_vars

-----------------------------------------------------------------------------
(* References.  ReadsOf(n) is what raw tree n reads, read off the tree    *)
(* and the table of section 4.4 directly: a key <<type, name>> per tag,    *)
(* file, tag_value or all, and <<"error", <<>>>> when a required literal   *)
(* argument is missing.                                                    *)
ErrorKey == <<"error", <<>>>>

RECURSIVE ReadsOf(_), ReadsOfAll(_), BuiltinReads(_, _)
ReadsOfAll(ns) == UNION {ReadsOf(ns[i]) : i \in DOMAIN ns}

BuiltinReads(nm, a) ==
    LET lit(i) == Len(a) >= i /\ a[i].type = "literal"
        tv == {<<"tag_value", Strip(a[i].name)>> : i \in {j \in 2..Len(a) : lit(j)}}
    IN CASE nm \in {<<"getBot">>, <<"getBots">>} ->
               IF lit(1) THEN {<<"file", Strip(a[1].name)>>} \cup ReadsOfAll(Tail(a))
               ELSE {ErrorKey}
         [] nm = <<"getBotsInContext">> ->
               IF lit(1) THEN {<<"file", a[1].name>>} ELSE {ErrorKey}
         [] nm \in {<<"getBotsInStack">>, <<"getNeighboringBots">>} ->
               IF lit(2) THEN {<<"file", a[2].name \o s>> : s \in {<<>>, <<"x">>, <<"y">>}}
               ELSE {ErrorKey}
         [] nm = <<"getBotTagValues">> ->
               IF lit(1) THEN {<<"tag", Strip(a[1].name)>>} \cup ReadsOfAll(Tail(a))
               ELSE {ErrorKey}
         [] nm = <<"getTag">> -> tv \cup (IF tv # {} THEN ReadsOf(a[1]) ELSE {})
         [] nm = <<"player", "isDesigner">> -> {<<"tag", <<"aux", "designers">>>>}
         [] nm = <<"player", "hasFileInInventory">> -> {<<"all", <<>>>>}
         [] nm \in DOMAIN ContextTags -> {<<"tag", ContextTags[nm]>>}
         [] OTHER -> ReadsOfAll(a)

ReadsOf(n) ==
    CASE n.type = "literal" -> {}
      [] n.type = "expression" -> ReadsOfAll(n.deps)
      [] n.type \in Sigils -> {<<n.type, n.name>>} \cup ReadsOfAll(n.deps)
      [] n.type = "member" ->
            IF ChainRoot(n).type \in Sigils THEN ReadsOf(ChainRoot(n)) ELSE {}
      [] n.type = "call" ->
            LET r == ChainRoot(n.obj[1]) IN
            IF r.type \in Sigils
            THEN ReadsOf(r) \cup ReadsOfAll(n.deps)
            ELSE BuiltinReads(getMemberName(n.obj[1]), n.deps)

\* The keys of the tag, file, tag_value and all nodes of a dependency list.
Reads(ns) == {<<n.type, n.name>> : n \in {m \in Range(flatten(ns)) :
                                            m.type \in Sigils \cup {"tag_value", "all"}}}

-----------------------------------------------------------------------------
(* Past the simplifier no raw kind is left: no expression or call node,    *)
(* and no member that still has an object, at any depth.                   *)
TypeOK ==
    /\ formula \in Formulas
    /\ \A n \in Range(flatten(deps)) :
          n.type \notin {"expression", "call"} /\ n.obj = <<>>

(* calculateAuxDependencies (simplify, then the aux replacer) reads        *)
(* exactly what the formula's tree and the built-in table say: nothing is  *)
(* lost through a tag or file at the root of a chain, a nested built-in or *)
(* an argument re-analysed, and a failed analysis reads nothing.           *)
ResolvedMatchesTable ==
    LET ref == ReadsOf(formula) IN
    Reads(deps) = IF ErrorKey \in ref THEN {} ELSE ref

=============================================================================
