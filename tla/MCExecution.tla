----------------------------- MODULE MCExecution -----------------------------
(***************************************************************************)
(* Instances of Execution for TLC.                                         *)
(***************************************************************************)
EXTENDS Execution, TLC

CONSTANTS e1, e2, s1, s2, c1, c2, g1, g2, a1

\* Two selections: one on each connection, or both on c1 with two targets.
ConnTwo == s1 :> c1 @@ s2 :> c2
ConnOne == s1 :> c1 @@ s2 :> c1

RankMC  == s1 :> 1 @@ s2 :> 2

\* Selection s1 is retried once, s2 never.
RetryMC == s1 :> 1 @@ s2 :> 0

NoRetryMC == [s \in Selections |-> 0]

HostOne == [c \in Connections |-> g1]
HostTwo == c1 :> g1 @@ c2 :> g2

BothJobs == {{s1, s2}, {s1}}
WholeJob == {{s1, s2}}
SingleJobs == {{s1}, {s2}}

SymmetryMC == Permutations(Executions)
=============================================================================
