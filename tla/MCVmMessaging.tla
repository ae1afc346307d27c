--------------------------- MODULE MCVmMessaging ---------------------------
(* Instances of VmMessaging for TLC. *)
EXTENDS VmMessaging

CONSTANTS a, b

\* Two services: a has two interchangeable VMs, b has one.
TwoServices == {a, b}
ThreeVms == 1 .. 3
ThreeVmsService == <<a, a, b>>

SendsMain == <<0, 1, 2>>
SendsLive == <<0, 1, 0>>
ReportsLive == <<1, 0, 0>>
NoReports == <<0, 0, 0>>

=============================================================================
