---------------------------- MODULE MCDependencies ----------------------------
(***************************************************************************)
(* The formulas Dependencies is checked on: raw trees of one or two        *)
(* top-level parts built from literals ("#a" and "b"), free names, this.val,*)
(* the sigils #a() and @b(), the chain #a().num, calls of every kind of    *)
(* built-in and of a plain function, built-ins nested in built-ins, sigils *)
(* with arguments, and arrow-function bodies.                              *)
(***************************************************************************)
EXTENDS Dependencies

Lit(v) == Node("literal", v, <<>>, <<>>)
Var(id) == Node("member", <<id>>, <<>>, <<>>)
Mem(id, o) == Node("member", <<id>>, <<o>>, <<>>)
Call(callee, args) == Node("call", <<>>, <<callee>>, args)
Sig(k, nm, args) == Node(k, <<nm>>, <<>>, args)
Expr(ds) == Node("expression", <<>>, <<>>, ds)
CalleeOf(path) == IF Len(path) = 1 THEN Var(path[1]) ELSE Mem(path[2], Var(path[1]))

Lits == {Lit(<<"#", "a">>), Lit(<<"b">>)}
Chain == Mem("num", Sig("tag", "a", <<>>))
Atoms == Lits \cup {Var("x"), Mem("val", Var("this")), Sig("tag", "a", <<>>),
                    Sig("file", "b", <<>>)}
Callees == {<<"getBot">>, <<"getBotsInContext">>, <<"getBotsInStack">>,
            <<"getBotTagValues">>, <<"getTag">>, <<"player", "isDesigner">>,
            <<"player", "hasFileInInventory">>, <<"player", "currentContext">>,
            <<"toast">>}
\* Calls nested as arguments: built-ins that re-analyse or keep their
\* arguments, and a plain function.
Inner == {Call(CalleeOf(c), <<x>>) :
             c \in {<<"getBot">>, <<"getBotTagValues">>, <<"getTag">>, <<"toast">>},
             x \in {Lit(<<"#", "a">>), Var("x"), Sig("tag", "a", <<>>)}}

(* The formulas whose call arguments are drawn from A: with the chain      *)
(* #a().num among them an argument simplifies to two entries.              *)
FormulasOver(A) ==
    LET args == {<<>>} \cup {<<x>> : x \in A} \cup {<<x, y>> : x, y \in A}
        top ==
            {Call(CalleeOf(c), as) : c \in Callees, as \in args}
            \cup {Call(CalleeOf(c), <<l, i>>) : c \in Callees, l \in {Lit(<<"#", "a">>)}, i \in Inner}
            \cup {Call(CalleeOf(c), <<i, l>>) : c \in Callees, l \in {Lit(<<"b">>)}, i \in Inner}
            \cup {Sig(k, w, <<x>>) : <<k, w>> \in {<<"tag", "a">>, <<"file", "b">>},
                                    x \in Atoms \cup {Chain} \cup Inner}
            \cup {Call(Mem("filter", Sig("tag", "a", <<>>)), <<Expr(<<x>>)>>) : x \in A}
            \cup {Call(Var("toast"), <<Expr(<<x, y>>)>>) : x \in Atoms, y \in Atoms \cup {Chain}}
    IN {Expr(<<t>>) : t \in top \cup {Chain}} \cup {Expr(<<x, y>>) : x, y \in Atoms \cup {Chain}}

\* Every argument of a call is one entry once simplified.
MCFormulas == FormulasOver(Atoms)

\* Arguments include the chain #a().num.
MCFormulasChains == FormulasOver(Atoms \cup {Chain})

=============================================================================
