-------------------------- MODULE MCIncidentTracker --------------------------
(* The views that IncidentTracker's callers bring, for TLC.                 *)
EXTENDS IncidentTracker

Inc(ents, end, score) == [ents |-> ents, end |-> end, score |-> score]

\* One trouble at two moments, one that has spread over it and worsened, and
\* one beside it.
Early == Inc({"a"}, 0, 40)
Later == Inc({"a"}, 2, 60)
Spread == Inc({"a", "b", "c"}, 1, 80)
Beside == Inc({"c"}, 1, 60)

ManyViews == {<<>>, <<Early>>, <<Later>>, <<Spread>>, <<Beside, Early>>,
              <<Later, Spread>>, <<Spread, Beside>>}

=============================================================================
