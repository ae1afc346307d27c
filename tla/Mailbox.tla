------------------------------ MODULE Mailbox ------------------------------
(***************************************************************************)
(* What the service layer promises to the scripts of the VMs: a message    *)
(* that was accepted is handed out at most once, only to the VM it is      *)
(* addressed to or to a VM of the service it is addressed to, and the      *)
(* messages one VM sends to another VM's id arrive in the order of sending. *)
(* A message to a service may overtake and be overtaken.                   *)
(***************************************************************************)
EXTENDS Naturals, Sequences

CONSTANTS Vm, ServiceOf, Message

VARIABLES
    pending,    \* accepted and not handed out
    got         \* got[v]: what the script of v was given, in order

AddressedTo(m, v) ==
    \/ m.kind = "service" /\ m.dest = ServiceOf[v]
    \/ m.kind # "service" /\ m.dest = v

Direct(m) == m.kind # "service"

\* n must be handed out before m.
Precedes(n, m) ==
    /\ Direct(n) /\ Direct(m)
    /\ n.src = m.src /\ n.dest = m.dest
    /\ n.seq < m.seq

Init ==
    /\ pending = {}
    /\ got = [v \in Vm |-> <<>>]

Accept(m) ==
    /\ m \notin pending
    /\ \A v \in Vm : \A i \in 1 .. Len(got[v]) : got[v][i] # m
    /\ pending' = pending \cup {m}
    /\ UNCHANGED got

HandOut(v, m) ==
    /\ m \in pending
    /\ AddressedTo(m, v)
    /\ \A n \in pending : ~Precedes(n, m)
    /\ pending' = pending \ {m}
    /\ got' = [got EXCEPT ![v] = Append(@, m)]

Next ==
    \/ \E m \in pending' : m \in Message /\ Accept(m)
    \/ \E v \in Vm : \E m \in pending : HandOut(v, m)

Spec == Init /\ [][Next]_<<pending, got>>
=============================================================================
