---------------------------- MODULE MCAgentLoop ----------------------------
(* Small instances of AgentLoop for TLC.                                   *)
EXTENDS AgentLoop

D(deps, prio) == [dependsOn |-> deps, priority |-> prio]

OneStep    == <<D({}, 0)>>
Inverted   == <<D({2}, 0), D({}, 10)>>         \* lower priority value, later
OutOfRange == <<D({2}, 0)>>                    \* the second pass throws

MCInits      == {Inverted}
MCReplans    == {OneStep, OutOfRange}
=============================================================================
