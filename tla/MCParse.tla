-------------------------------- MODULE MCParse --------------------------------
(***************************************************************************)
(* Instances of ParseProperty for TLC.                                     *)
(***************************************************************************)
EXTENDS ParseProperty

P(id, params) == <<"pred", id, params>>
N(id) == <<"next", id, <<>>>>
Act(id, params) == <<"action", id, params>>
Vars(id, params) == <<"vars", id, params>>
Par(x) == <<"param", x>>
Val(v) == <<"value", v>>
Always(e) == <<"always", e>>
Eventually(e) == <<"eventually", e>>
ForAll(x, e) == <<"forall", <<1, 2>>, x, e>>
Exists(x, e) == <<"exists", <<1, 2>>, x, e>>
Call(n, args) == <<"call", n, args>>
Name(n) == <<"name", n>>
Implies(e, f) == <<"implies", e, f>>
AndOf(e, f) == <<"and", <<e, f>>>>

Def(params, body) == [params |-> params, body |-> body]
MCDefs ==
    [live   |-> Def(<<"x">>, Eventually(P("p", <<"x">>))),
     moves  |-> Def(<<"a", "b">>, <<"leadsTo", P("p1", <<"a">>), P("p2", <<"b">>)>>),
     swap   |-> Def(<<"c", "d">>, Call("moves", <<Par("d"), Par("c")>>)),
     holds  |-> Def(<<"y">>, P("p3", <<"y">>)),
     acts   |-> Def(<<"g">>, <<"mustChange", Act("A", <<"g">>), Vars("v", <<>>)>>),
     all    |-> Def(<<>>, AndOf(ForAll("z", Call("live", <<Par("z")>>)),
                                Always(P("q", <<>>)))),
     pure   |-> Def(<<>>, P("q1", <<>>)),
     premise |-> Def(<<>>, AndOf(<<"strongFair", Act("B", <<>>), Vars("v1", <<>>)>>,
                                 ForAll("f", <<"weakFair", Act("A1", <<"f">>),
                                               Vars("v2", <<"f">>)>>))),
     whole  |-> Def(<<>>, Implies(Name("premise"), Always(Eventually(P("q2", <<>>)))))]

\* One definition by itself.
Alone ==
    {Name("all"), Name("whole"), Name("pure"),
     ForAll("i", ForAll("j", Call("moves", <<Par("i"), Par("j")>>))),
     Exists("i", ForAll("j", Call("swap", <<Par("i"), Par("j")>>))),
     Exists("i", <<"iff", Call("live", <<Par("i")>>), Always(P("r", <<"i">>))>>),
     <<"iff", Call("live", <<Val(2)>>), Call("live", <<Val(1)>>)>>,
     <<"ite", P("q3", <<>>), Call("live", <<Val(1)>>), Always(P("q4", <<>>))>>,
     Implies(Name("premise"), Eventually(P("q5", <<>>))),
     Implies(<<"weakFair", Act("A2", <<>>), Vars("v3", <<>>)>>, Name("whole")),
     Implies(Eventually(P("q8", <<>>)), <<"not", Always(N("n"))>>),
     Always(<<"or", <<<<"not", <<"mustChange", Act("A3", <<>>), Vars("v4", <<>>)>>>>,
                      <<"orKeep", Act("A4", <<>>), Vars("v5", <<>>)>>,
                      <<"enabled", Act("A5", <<>>)>>>>>>),
     Always(AndOf(P("q9", <<>>), N("n1"))),
     <<"forall", StateDependent, "i", Eventually(P("r1", <<"i">>))>>,
     <<"let", P("r2", <<>>), Eventually(P("r3", <<>>))>>,
     Implies(ForAll("i", <<"strongFair", Act("A6", <<"i">>), Vars("v6", <<>>)>>),
             ForAll("j", Eventually(<<"enabled", <<"mustChange", Act("A7", <<"j">>),
                                                   Vars("v7", <<"j">>)>>>>))),
     Eventually(ForAll("i", AndOf(Call("holds", <<Par("i")>>), P("r", <<"i">>)))),
     Name("live"),
     Call("holds", <<Always(P("r2", <<>>))>>),
     Call("live", <<P("r3", <<>>)>>)}

\* Definitions that meet in the tables: operators shared by two of them, quantifiers
\* of other depths around them, a premise that was given up after one constraint.
GivenUp ==
    Implies(<<"and", <<ForAll("k", <<"weakFair", Act("A8", <<"k">>), Vars("v8", <<>>)>>),
                       Name("premise"), P("q6", <<>>),
                       <<"weakFair", Act("A9", <<>>), Vars("v9", <<>>)>>>>>>,
            Eventually(P("q7", <<>>)))
Shared ==
    {<<ForAll("i", Call("live", <<Par("i")>>)), Exists("j", Call("live", <<Par("j")>>))>>,
     <<Call("live", <<Val(2)>>), ForAll("i", ForAll("j", Call("live", <<Par("i")>>))),
       Exists("k", Call("live", <<Par("k")>>))>>,
     <<Call("swap", <<Val(1), Val(2)>>), Call("moves", <<Val(1), Val(2)>>),
       ForAll("i", Exists("j", Call("moves", <<Par("j"), Par("i")>>)))>>,
     <<Exists("i", Call("acts", <<Par("i")>>)),
       ForAll("j", Eventually(Call("acts", <<Par("j")>>)))>>,
     <<Name("whole"), Implies(Name("premise"), Exists("i", Call("live", <<Par("i")>>))),
       GivenUp, Name("all")>>,
     <<Name("all"), Call("live", <<Val(1)>>), Name("premise"), Name("all")>>}

MCInputs == {<<e>> : e \in Alone} \cup Shared

\* The facts of an operator, with these values, on some of the nodes.
PredIds == {"p", "p1", "p2", "p3", "q", "q1", "q2", "q3", "q4", "q5", "q6", "q7", "q8", "q9",
            "r", "r1", "r2", "r3"}
ActIds == {"A", "B", "A1", "A2", "A3", "A4", "A5", "A6", "A7", "A8", "A9"}
Some(op, ids, values) == {<<op, id, v>> : id \in ids, v \in values}
MCLetters ==
    {{},
     Some("pred", PredIds, {<<1>>, <<>>}) \cup Some("enabledChange", ActIds, {<<1>>, <<>>, <<1, 1>>}),
     Some("pred", PredIds \ {"p2", "r"}, {<<2>>})
         \cup Some("enabledChange", ActIds, {<<1>>, <<2>>, <<2, 2>>})
         \cup Some("mustChange", ActIds \ {"B"}, {<<2>>, <<>>, <<2, 2>>})
         \cup Some("enabled", ActIds, {<<>>}) \cup Some("next", {"n"}, {<<>>}),
     Some("pred", PredIds, {<<1>>, <<2>>, <<>>}) \cup Some("mustChange", ActIds, {<<1>>, <<1, 1>>})
         \cup Some("orKeep", ActIds, {<<>>}) \cup Some("next", {"n", "n1"}, {<<>>})}
MCWords == UNION {[letters : [1 .. n -> MCLetters], loop : 1 .. n] : n \in 1 .. 2}
           \cup {w \in [letters : [1 .. 3 -> MCLetters], loop : {2}] : w.letters[1] # {}}
==============================================================================
