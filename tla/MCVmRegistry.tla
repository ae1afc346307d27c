---------------------------- MODULE MCVmRegistry ----------------------------
(* Instances of VmRegistry: two VMs of service a and one of service b.     *)
EXTENDS VmRegistry

CONSTANTS a, b

TwoNames == {a, b}
Threads == {1, 2, 3}
Names == <<a, a, b>>
CallsMain == <<1, 0, 1>>
OneCall == <<1, 0, 0>>
NoCalls == <<0, 0, 0>>
=============================================================================
