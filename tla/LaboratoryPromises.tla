--------------------------- MODULE LaboratoryPromises ---------------------------
(***************************************************************************)
(* What exhibits promise together: the two about limited capacity, which   *)
(* the laboratory shows side by side (web/components/                      *)
(* deeper-systems-lab.tsx), admission control in front of a backend and a  *)
(* pool of connections; and the three programs of native/.                 *)
(***************************************************************************)
EXTENDS AdmissionModel, FlowModel, FaultProxy, UdpProbe, ServiceProcesses

\* What limits capacity, the admission policies and the connection pool, limits what it is
\* meant to limit, and no more than that.
LimitsHold == LimitsAsConfigured /\ PoolIsShared

\* The experiments account for exactly what was injected: dropped probes, lost and reordered
\* packets, and stopped services; and what they conclude is what the browser's model predicts.
ExperimentsHold == ProbesFailAsInjected /\ LossIsAccounted /\ ProcessesFailAsModelled

=============================================================================
