------------------------- MODULE MCScheduledStarts -------------------------
(***************************************************************************)
(* Instances of ScheduledStarts for TLC.                                   *)
(***************************************************************************)
EXTENDS ScheduledStarts, TLC

CONSTANTS c1, c2, t1, t2

OneClient  == {c1}
TwoClients == {c1, c2}
NoRetry    == {}
OneTarget  == {t1}
TwoTargets == {t1, t2}
NoVersion  == {}
BothOfThem == 1..2
AllThree   == 1..3

\* Sound for invariants: no definition tells one client from another.
ClientSymmetry == Permutations(TwoClients)

\* Bound: the definition stays resolvable, no dispatch attempt is ambiguous, and
\* of the clients that race only one goes on once a schedule update is abandoned.
SureDispatch ==
    /\ active # NoTarget
    /\ lateRun = {}
    /\ lateCommit = {} \/ \E c \in Clients : cli[c].pc = "new"
=============================================================================
