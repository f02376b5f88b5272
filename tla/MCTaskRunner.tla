---------------------------- MODULE MCTaskRunner ----------------------------
(* Instances of TaskRunner for TLC. *)
EXTENDS TaskRunner

CONSTANTS a, b, c, u1, u2

Report(status, uid, gen) == [status |-> status, uid |-> uid, gen |-> gen]

\* u1 is the UID an apply answers, u2 that of an object recreated by another
\* actor; generation 1 is older than the one the apply answers.
MCReports ==
    { Report("InProgress", u1, 2), Report("Current", u1, 1),
      Report("Current", u1, 2),    Report("Failed", u1, 2),
      Report("Current", u2, 2),    Report("NotFound", NoUID, 0) }

MCAnswers == {<<u1, 2>>}

\* a depends on b, c depends on nothing.
ABEdges == {<<a, b>>}

\* The plan for objects to apply and objects to prune.
Plan(applyObjs, pruneObjs) ==
    SortedPlan(SortLayers({a, b, c}, ABEdges), applyObjs, pruneObjs, {})

Untimed(plan1) == [plan1 EXCEPT !.timeout = FALSE]

\* Two layers to apply; two layers to destroy; an apply and a prune, and one
\* layer of two objects, without timeouts; a dry run; a run without pruning; a
\* dependency on an object that failed validation.
MCPlans ==
    { Plan({a, b}, {}),
      [Plan({}, {a, b}) EXCEPT !.destroy = TRUE],
      Untimed(Plan({b}, {a})),
      Untimed(Plan({b, c}, {})),
      [Plan({a, b}, {}) EXCEPT !.dryRun = TRUE],
      [Plan({c}, {a}) EXCEPT !.prune = FALSE],
      SortedPlan(SortLayers({a, b, c}, ABEdges), {a, b, c}, {}, {b}) }
=============================================================================
