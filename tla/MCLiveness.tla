------------------------------ MODULE MCLiveness ------------------------------
(***************************************************************************)
(* Instances of Liveness for TLC.                                          *)
(***************************************************************************)
EXTENDS Liveness, FiniteSetsExt

p == Atom("p")
q == Atom("en")
taken == Atom("taken")
kept == Atom("kept")

\* Rings of three states with chords; every state stutters.
Ring == {<<1, 2>>, <<2, 3>>, <<3, 1>>}
Stutters == {<<s, s>> : s \in 1 .. 3}
Graph(init, edges, pbits, enabled, takes) ==
    [init |-> init,
     edges |-> [s \in 1 .. 3 |-> SetToSortSeq({t \in 1 .. 3 : <<s, t>> \in edges \cup Stutters},
                                              LAMBDA a, b : a > b)],
     stateBits |-> ("p" :> pbits) @@ ("en" :> enabled),
     edgeBits |-> ("taken" :> takes) @@ ("kept" :> takes \cup Stutters)]

ChordGraphs ==
    {Graph(1, Ring \cup chords, pbits, {e[1] : e \in takes} \cup more, takes) :
        chords \in SUBSET {<<2, 1>>, <<3, 2>>}, pbits \in {{3}, {1, 2}},
        takes \in {{<<2, 3>>}, {<<3, 1>>}}, more \in {{}, {1}}}
LineGraphs ==
    {Graph(init, {<<1, 2>>, <<2, 3>>}, pbits, {1, 2}, {<<1, 2>>, <<2, 3>>}) :
        init \in 1 .. 2, pbits \in {{2}, {1, 2}, {3}}}

Fairness(strong) == [strong |-> strong, taken |-> "taken", enabled |-> "en"]
MCFairness == {<<>>, <<Fairness(FALSE)>>, <<Fairness(TRUE)>>}

LivenessBodies ==
    {Always(Eventually(p)), Eventually(Always(Not(p))), LeadsTo(p, Not(p)),
     Eventually(And(<<taken, p>>)),
     Or(<<Eventually(Always(Not(q))), Always(Eventually(taken))>>),
     Always(Or(<<kept, Eventually(p)>>)),
     Not(And(<<Eventually(taken), Always(Eventually(Not(q)))>>)),
     And(<<Always(Or(<<Not(taken), p>>)), Eventually(q)>>)}
EmptyBodies ==
    {Always(Eventually(Or(<<>>))), Eventually(And(<<p, Not(Always(Or(<<>>)))>>)),
     LeadsTo(p, Or(<<>>)), Always(Not(Eventually(And(<<>>))))}

ChordsAndLines == ChordGraphs \cup LineGraphs

Plain == {p, Not(q), Or(<<p, taken>>)}
Once == {Always(f) : f \in Plain} \cup {Eventually(f) : f \in Plain}
Twice == {Always(Eventually(f)) : f \in {p, And(<<p, taken>>)}}
         \cup {Eventually(Always(f)) : f \in {Not(p), taken}}
Mixed == {LeadsTo(p, q), LeadsTo(p, Always(q)),
          Or(<<Eventually(Always(p)), Always(Eventually(q))>>),
          Or(<<Not(Always(Eventually(p))), Always(Eventually(q))>>),
          And(<<Always(Or(<<Not(p), q>>)), Eventually(Not(taken)), q>>),
          Not(And(<<Eventually(p), Eventually(Not(p))>>)),
          Always(Or(<<p, Eventually(And(<<q, Always(Not(p))>>))>>)),
          Eventually(And(<<p, Eventually(q)>>)),
          Or(<<True, Always(p)>>), Or(<<Always(p), True>>), And(<<Eventually(False), p>>)}

\* M or (M implies always(q)) with `temporal M = mustChange(A, v)', which is one atom
\* wherever M is named: the negation asks for not M, for M and for an until, and is
\* dropped at M.
Excluded == Or(<<taken, Or(<<Not(taken), Always(q)>>)>>)

SmallBodies == Plain \cup Once \cup Twice \cup Mixed \cup {Excluded}

AllBodies == SmallBodies \cup LivenessBodies

Letters == {{}, {"p"}, {"en"}, {"p", "taken"}, {"p", "en"}}
LassosOf(n) == [letters : [1 .. n -> Letters], loop : 1 .. n]
UpTo(n) == UNION {LassosOf(k) : k \in 1 .. n}
ThreeLong ==
    UpTo(2) \cup [letters : [1 .. 3 -> {{}, {"p"}, {"p", "en"}}], loop : 1 .. 2]
None == {}

\* Nodes are reached from node 1, as all nodes of a product are from its initial ones.
RECURSIVE Reach(_, _)
Reach(adj, R) ==
    LET more == UNION {ToSet(adj[v]) : v \in R}
    IN  IF more \subseteq R THEN R ELSE Reach(adj, R \cup more)

Sorted(S) == SetToSortSeq(S, LAMBDA v, w : v > w)
GraphsOf(n) == {g \in [1 .. n -> {Sorted(S) : S \in SUBSET (1 .. n)}] :
                   Reach(g, {1}) = 1 .. n}
Problem(adj, acc, constraints) ==
    [adj |-> adj, init |-> <<1>>, acc |-> acc, fairness |-> constraints]
Constraint(strong, steps, enabled) ==
    [strong |-> strong, taken |-> steps, enabled |-> enabled]

\* All graphs of three nodes under one or two constraints.
OneConstraint ==
    {Problem(g, <<{1, 3}, {2, 3}>>, <<Constraint(strong, steps, enabled)>>) :
        g \in {h \in GraphsOf(3) : 1 \notin ToSet(h[1])}, strong \in BOOLEAN,
        steps \in {{}, {<<2, 1>>}}, enabled \in {{1, 2}, {3}, {1, 2, 3}}}
TwoConstraints ==
    {Problem(g, <<{1, 2, 3}>>, <<Constraint(TRUE, {}, {2}),
                                 Constraint(strong, {<<1, 3>>}, enabled)>>) :
        g \in GraphsOf(3), strong \in BOOLEAN, enabled \in {{1, 3}}}
SmallProblems == OneConstraint \cup TwoConstraints

\* Refining twice: graphs of four nodes with two strong constraints.
Rings == {[v \in 1 .. 4 |-> Sorted(more[v] \cup {(v % 4) + 1})] :
             more \in [1 .. 4 -> SUBSET {1, 3}]}
RefinedTwice ==
    {Problem(g, acc, <<Constraint(TRUE, steps, e), Constraint(TRUE, {<<3, 4>>}, {3}),
                       Constraint(FALSE, {<<1, 1>>}, {1, 2})>>) :
        g \in Rings, acc \in {<<{1, 3}>>, <<{2}, {3, 1}>>},
        steps \in {{}, {<<4, 3>>}}, e \in {{4}, {2, 4}, {1, 4}}}

AllProblems == SmallProblems \cup RefinedTwice
==============================================================================
