------------------------------ MODULE Forwarder ------------------------------
(***************************************************************************)
(* What the capture loop promises the parent (spec 4.5 and 8): packets are *)
(* read one at a time, and each packet read is forwarded exactly once      *)
(* before the next one is read ("no drops, no duplicates").  The loop may  *)
(* stop at any time, abandoning a packet it has read and not forwarded.    *)
(***************************************************************************)
EXTENDS Naturals

CONSTANT MaxPackets   \* bound on the packets the kernel delivers

VARIABLES
    read,     \* packets the loop has taken from the capture library
    fwd,      \* packets forwarded to the parent
    active    \* the loop still reads and forwards

Init == read = 0 /\ fwd = 0 /\ active = TRUE

\* The next packet is read only once the previous one is forwarded.
Read ==
    /\ active /\ fwd = read /\ read < MaxPackets
    /\ read' = read + 1
    /\ UNCHANGED <<fwd, active>>

\* The packet in hand is forwarded.
Forward ==
    /\ active /\ fwd = read - 1
    /\ fwd' = fwd + 1
    /\ UNCHANGED <<read, active>>

Stop ==
    /\ active
    /\ active' = FALSE
    /\ UNCHANGED <<read, fwd>>

Next == Read \/ Forward \/ Stop

Spec == Init /\ [][Next]_<<read, fwd, active>>

=============================================================================
