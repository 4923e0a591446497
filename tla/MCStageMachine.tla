--------------------------- MODULE MCStageMachine ---------------------------
(* Instances of StageMachine for TLC.                                      *)
EXTENDS StageMachine, TLC

\* The full workflow in small: 1 initialization, 2 planning (2.8, a phase
\* end), 3 per-Bolt, 4 the last of construction (3.7, a phase end).  A scope
\* without planning has no Bolts to build.
FullPhase == <<0, 2, 3, 3>>
FullScope == [all |-> 1..4]
TwoScopes == [all |-> 1..4, noPlan |-> {1, 3, 4}]

\* Without Bolts: 1 initialization, 2 planning, 3 construction; the short scope
\* leaves out planning.
PlainPhase == <<0, 2, 3>>
PlainScopes == [all |-> 1..3, short |-> {1, 3}]

\* The shortest workflow: one initialization stage, and one gated stage that
\* ends its phase, prepares the Bolts and is merged.
ShortPhase == <<0, 2>>
ShortScope == [all |-> 1..2]

Symmetry == Permutations(Procs)
=============================================================================
