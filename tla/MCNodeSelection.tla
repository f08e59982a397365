---------------------------- MODULE MCNodeSelection ----------------------------
EXTENDS NodeSelection

S(p, g, a, k, f) == [prov |-> p, gpus |-> g, warm |-> [x \in Pools |-> a],
                     kinds |-> k, faults |-> f]
MCSetups == {S({}, {"n"}, 0, Faults, 1), S({"n"}, {"n"}, 0, Faults, 1),
             S({}, {"n"}, None, {"delete"}, 2)}

F(a, b) == [x \in Pools |-> IF x = "p" THEN a ELSE b]
MCSelectors == {F({}, {"a"}), F({"a"}, {}), F({"b"}, {"a"})}
================================================================================
