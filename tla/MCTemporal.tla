------------------------------ MODULE MCTemporal ------------------------------
(* Two variables with two values each; the steps of a program are framed   *)
(* sub-actions, tried in a fixed order.                                    *)
EXTENDS TemporalCheck

S == [1 .. 2 -> 0 .. 1]
X(v) == 1 :> v
Y(v) == 2 :> v

\* The partial runs of each sub-action.
Partials ==
    [raise |-> [s \in S |-> IF s[1] = 0 THEN {X(1)} ELSE {}],
     lower |-> [s \in S |-> IF s[1] = 1 /\ s[2] = 1 THEN {X(0)} ELSE {}],
     mark  |-> [s \in S |-> IF s[1] = 1 THEN {Y(1 - s[2])} ELSE {}],
     both  |-> [s \in S |-> IF s[2] = 0 THEN {X(0) @@ Y(1), X(1) @@ Y(1)} ELSE {}],
     keep  |-> [s \in S |-> {X(s[1])}]]

NextStates(actions, s) ==
    FoldLeft(LAMBDA ts, t : IF t \in ToSet(ts) THEN ts ELSE Append(ts, t), <<>>,
        FlattenSeq([i \in DOMAIN actions |->
            LET runs == Partials[actions[i]][s]
                framed == {run @@ s : run \in runs}
            IN  SelectSeq(<<<<1, 1>>, <<0, 1>>, <<1, 0>>, <<0, 0>>>>,
                          LAMBDA t : t \in framed)]))

\* Where evaluations fail: nowhere, or in one of the ways graph.rs tells apart.
NoFailure == [init |-> FALSE, step |-> {}, pred |-> {}, action |-> {}, edge |-> {}]
Failures ==
    {NoFailure, [NoFailure EXCEPT !.init = TRUE], [NoFailure EXCEPT !.step = {<<1, 1>>}],
     [NoFailure EXCEPT !.pred = {<<1, 0>>}], [NoFailure EXCEPT !.action = {<<0, 1>>}],
     [NoFailure EXCEPT !.edge = {<<<<1, 0>>, <<1, 1>>>>}]}

Spec_(init, actions, invs, fails, fair) ==
    [program |->
        [init |-> IF fails.init THEN <<>> ELSE init, initError |-> fails.init,
         step |-> [s \in S |-> IF s \in fails.step THEN <<>> ELSE NextStates(actions, s)],
         stepError |-> fails.step, invs |-> invs],
     predFails |-> fails.pred, actionFails |-> fails.action, edgeFails |-> fails.edge,
     partials |-> Partials,
     preds |-> [x |-> {s \in S : s[1] = 1}, y |-> {s \in S : s[2] = 1}],
     enabled |-> [en |-> [action |-> fair, changed |-> <<{1, 2}>>],
                  can |-> [action |-> fair, changed |-> <<>>]],
     taken |-> [taken |-> [action |-> fair, vars |-> {1, 2}]],
     kept |-> [kept |-> [action |-> fair, vars |-> {1}]],
     nextPreds |-> [up |-> {<<s, t>> \in S \X S : s[1] <= t[1]}]]

Programs == {<<"raise", "mark">>, <<"raise", "mark", "lower">>, <<"both", "raise">>,
             <<"lower", "mark">>}
Inits == {<<<<0, 0>>>>, <<<<1, 0>>, <<0, 1>>>>}
Holding == [s \in S |-> "holds"]
GraphSpecs ==
    {Spec_(init, actions, invs, fails, fair) :
        init \in Inits, actions \in Programs,
        invs \in {Holding, (<<1, 1>> :> "violated" @@ <<1, 0>> :> "violated") @@ Holding,
                  (<<1, 1>> :> "error") @@ Holding},
        fails \in Failures, fair \in {"keep", "lower"}}
GraphConfigs == [deadlock : BOOLEAN, maxSteps : {NoBound}, maxStates : {1, 3, NoBound}]

x == L!Atom("x")
y == L!Atom("y")
up == L!Atom("up")
taken == L!Atom("taken")
kept == L!Atom("kept")
Plain(body) == [body |-> body, fairness |-> <<>>]
Weak(body) == [body |-> body,
               fairness |-> <<[strong |-> FALSE, taken |-> "taken", enabled |-> "en"]>>]

SafetyBodies ==
    {L!Always(L!Or(<<L!Not(y), x>>)), L!Always(L!Or(<<up, y>>)), L!Always(kept),
     L!Or(<<L!Not(x), taken>>),
     L!And(<<L!Not(y), L!Always(L!Or(<<L!Not(taken), up>>))>>),
     L!And(<<L!Always(L!Not(L!And(<<x, y>>))), L!Always(L!Atom("can"))>>),
     L!And(<<L!Always(L!Or(<<kept, x>>)), L!Always(L!Or(<<up, L!Not(x)>>))>>)}
OneSafety == {<<Plain(b)>> : b \in SafetyBodies}
Mixed == {<<Plain(L!Or(<<L!Eventually(x), L!Always(L!Not(x))>>)),
             Plain(L!Eventually(x)), Weak(L!Always(L!Eventually(y)))>>}
\* Conjuncts about steps together with conjuncts about states.
TwoKinds ==
    {<<Plain(L!And(<<L!Always(up), L!Always(L!Not(L!And(<<x, y>>)))>>))>>,
     <<Plain(L!And(<<L!Always(kept), L!Always(L!Not(x))>>))>>}
GraphProperties == OneSafety \cup TwoKinds \cup Mixed
CleanSpecs ==
    {Spec_(init, actions, Holding, NoFailure, fair) :
        init \in Inits, actions \in Programs, fair \in {"mark", "lower"}}
AllSpecs == GraphSpecs \cup CleanSpecs
AllModels == {sp.program : sp \in AllSpecs}
==============================================================================
