---------------------- MODULE MCConfigurationActivation ----------------------
(***************************************************************************)
(* Instances of ConfigurationActivation for TLC.                           *)
(***************************************************************************)
EXTENDS ConfigurationActivation, TLC

CONSTANTS a1, a2, r0, r1, r2, p1, p2, t1, t2

OneActivation  == {a1}
TwoActivations == {a1, a2}
TwoRevisions   == {r0, r1}
ThreeRevisions == {r0, r1, r2}
OneProcess     == {p1}
TwoProcesses   == {p1, p2}
OneTask        == {t1}
TwoTasks       == {t1, t2}
OnOneProcess   == [t \in OneTask |-> p1]
OnTwoProcesses == (t1 :> p1) @@ (t2 :> p2)

\* r1 changes the workflows and the schedules of r0, r2 its workflows only.
WorkflowParts == (r0 :> "w0") @@ (r1 :> "w1") @@ (r2 :> "w2")
ScheduleParts == (r0 :> "s0") @@ (r1 :> "s1") @@ (r2 :> "s0")

\* Sound for the safety properties: activations are alike, and so are the two
\* processes when their tasks are exchanged with them.
Swap(x, y)  == (x :> y) @@ (y :> x)
Keep(x, y)  == (x :> x) @@ (y :> y)
RaceSymmetry ==
    {f @@ g : f \in {Swap(a1, a2), Keep(a1, a2)},
              g \in {Swap(p1, p2) @@ Swap(t1, t2), Keep(p1, p2) @@ Keep(t1, t2)}}

\* Bound: rivals race while no call fails, no process loses its index and no
\* lease runs out under a holder at work.
Healthy ==
    /\ overtaken = {}
    /\ \A t \in Tasks : task[t].pc # "failing"
    /\ \A p \in Processes : index[p] # NoRevision
=============================================================================
