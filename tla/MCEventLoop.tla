---------------------------- MODULE MCEventLoop ----------------------------
(***************************************************************************)
(* Instances of EventLoop: every kind of task alone, with several calls    *)
(* and most of them with a fork, and two kinds together without, so that   *)
(* indices of active work are reused.                                      *)
(***************************************************************************)
EXTENDS EventLoop

CONSTANTS t1, t2

MCTasks == {t1, t2}

Pair(a, b) == [t \in MCTasks |-> IF t = t1 THEN a ELSE b]

Alone(k) == Pair(k, "unused")

MCScenarios ==
    {Pair("once", "listen")}
        \cup {Alone(k) : k \in {"repeat", "signal", "watch", "listen", "spawn", "merge"}}

MCPermitSizes == {-1, 0, 1}

MCMaxCalls == [s \in MCScenarios |-> IF s = Pair("once", "listen") THEN 1 ELSE 2]
MCMaxForks ==
    [s \in MCScenarios |->
        IF s \in {Pair("once", "listen"), Alone("spawn"), Alone("merge")} THEN 0 ELSE 1]
=============================================================================
