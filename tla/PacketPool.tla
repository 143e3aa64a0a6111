----------------------------- MODULE PacketPool -----------------------------
(***************************************************************************)
(* What the packet channel of a simulated I/O subsystem promises the       *)
(* mainframe: a packet handed over once arrives once and whole, and        *)
(* nothing arrives that was not handed over.  The order of arrival is left *)
(* open: QueuePacket (sim_iop.cpp:1217) lets a packet overtake those that  *)
(* are still queued.                                                       *)
(***************************************************************************)
EXTENDS Naturals, Sequences

CONSTANT Packets    \* the packets that may ever be sent, each with its identity

VARIABLES pending,  \* handed over and not received yet
          got       \* received, in the order of arrival

vars == <<pending, got>>

Received == {got[i] : i \in 1..Len(got)}

Init == pending = {} /\ got = <<>>

(* A handler may hand over several packets at once.                        *)
Submit == /\ pending \subseteq pending'
          /\ pending' \ pending \subseteq Packets \ Received
          /\ UNCHANGED got

Deliver == \E p \in pending : /\ pending' = pending \ {p}
                              /\ got' = Append(got, p)

Next == Submit \/ Deliver

Spec == Init /\ [][Next]_vars
=============================================================================
