---------------------------- MODULE MCPlanCompiler ----------------------------
(* Instances of PlanCompiler for TLC: three proposed tasks over two artifacts *)
(* and three paths, one below another and one written in two ways.            *)
EXTENDS PlanCompiler

\* The second path is also written with "./" in front, where that matters.
SomePaths == << <<".", "a", "x">>, <<"a">>, <<"a", "x">>, <<"b">> >>

SomeFiles ==
  {<<"a">>, <<"b">>, <<"a", "x">>, <<"a", "y">>, <<"a", "x", "y">>, <<"b", "a">>, <<"y", "x">>,
   <<"y", "b", "x">>}

Shape(ps, makes, needs) ==
  [paths |-> ps, readOnly |-> FALSE, produces |-> makes, requires |-> needs, join |-> FALSE]

\* Scopes with and without overlap; artifacts that chain, cross and loop.
Shapes ==
  {Shape(ps, flow[1], flow[2]) :
     ps \in {{<<"a">>}, {<<"a", "x">>}, {<<"a", "x">>, <<"b">>}},
     flow \in {<<{}, {}>>, <<{"m"}, {}>>, <<{}, {"m"}>>, <<{"m"}, {"n"}>>, <<{"n"}, {"m"}>>}}
  \cup {[Shape({<<"b">>}, {"n"}, {}) EXCEPT !.join = TRUE],
        [Shape({<<"a">>}, {}, {"n"}) EXCEPT !.readOnly = TRUE],
        Shape({<<"b">>}, {}, {"m"}), Shape({<<"b">>}, {}, {}),
        Shape({}, {"n"}, {}), Shape({<<"b">>}, {"n"}, {"n"}),
        [Shape({}, {}, {}) EXCEPT !.readOnly = TRUE], Shape({<<".", "a", "x">>}, {}, {})}

\* No policy, a deny list and an allow list.
Policies == {<<{}, {}>>, <<{}, {<<"**", "x">>}>>, <<{<<"a", "**">>}, {}>>}

AllProposals ==
  {[tasks |-> ts, maxTasks |-> max, allowed |-> policy[1], denied |-> policy[2], external |-> {},
    verifier |-> TRUE] : ts \in [1..3 -> Shapes], max \in {2, 3}, policy \in Policies}

===============================================================================
