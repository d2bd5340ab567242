----------------------------- MODULE CaptureLoop -----------------------------
(***************************************************************************)
(* The capture loop of capture_linux_wifi: capture_thread, which runs      *)
(* pcap_loop on the capture interface with pcap_dispatch_cb as the packet  *)
(* callback, against the capture framework's send path.                    *)
(*                                                                         *)
(* The framework (capture_framework.c, not part of this repository) is     *)
(* modelled from the spec: cf_send_data queues a DATA frame in a ring      *)
(* buffer of BufCap frames and returns 1, returns 0 when the buffer is     *)
(* full, and returns -1 once the source is spinning down;                  *)
(* cf_handler_wait_ringbuffer returns when the main loop has drained a     *)
(* frame or the source spins down; the main loop drains the buffer to the  *)
(* parent until it spins down.                                             *)
(***************************************************************************)
EXTENDS Integers

CONSTANTS
    MaxPackets,  \* bound on the packets the kernel delivers
    BufCap       \* frames the framework's ring buffer holds

ASSUME CaptureAssumption == MaxPackets \in Nat /\ BufCap \in Nat \ {0}

\* The diagnostics the capture thread sends with cf_send_error.
Diagnostics == {"send", "closed", "down"}

VARIABLES
    cpc,        \* where the capture thread is
    got,        \* packets pcap_loop has handed to pcap_dispatch_cb
    sentOk,     \* packets cf_send_data has accepted
    buf,        \* frames queued in the framework's ring buffer
    breakReq,   \* pcap_breakloop has been called
    spindown,   \* the framework is spinning the source down
    ifUp,       \* the capture interface is up
    errors      \* the diagnostics sent

vars == <<cpc, got, sentOk, buf, breakReq, spindown, ifUp, errors>>

Init ==
    /\ cpc = "loop"
    /\ got = 0 /\ sentOk = 0 /\ buf = 0
    /\ breakReq = FALSE /\ spindown = FALSE
    /\ ifUp = TRUE
    /\ errors = {}

-----------------------------------------------------------------------------
(* The capture thread.                                                     *)

\* pcap_loop(pd, -1, ...) hands the next packet to pcap_dispatch_cb.
Deliver ==
    /\ cpc = "loop" /\ ifUp
    /\ got < MaxPackets
    /\ got' = got + 1
    /\ cpc' = "send"
    /\ UNCHANGED <<sentOk, buf, breakReq, spindown, ifUp, errors>>

\* pcap_loop returns: the interface went away under it.
LoopEnds ==
    /\ cpc = "loop" /\ ~ifUp
    /\ cpc' = "exit"
    /\ UNCHANGED <<got, sentOk, buf, breakReq, spindown, ifUp, errors>>

\* (mutant) a full buffer makes cf_send_data return 0 one frame too late
SendResultLate ==
    IF spindown THEN -1 ELSE IF buf > BufCap THEN 0 ELSE 1

\* What cf_send_data returns.
SendResult ==
    IF spindown THEN -1 ELSE IF buf = BufCap THEN 0 ELSE 1

\* pcap_dispatch_cb, one pass of its while (1): on -1 it breaks the pcap
\* loop, sends an error and spins the source down, and then goes round the
\* loop again; on 0 it waits for the ring buffer; on 1 it breaks out.
SendFailed ==
    /\ cpc = "send" /\ SendResult = -1
    /\ breakReq' = TRUE
    /\ errors' = errors \cup {"send"}
    /\ spindown' = TRUE
    /\ UNCHANGED <<cpc, got, sentOk, buf, ifUp>>

SendFull ==
    /\ cpc = "send" /\ SendResult = 0
    /\ cpc' = "wait"
    /\ UNCHANGED <<got, sentOk, buf, breakReq, spindown, ifUp, errors>>

\* (mutant) a queued packet without the break: the same packet is sent again
SendOkNoBreak ==
    /\ cpc = "send" /\ SendResult = 1
    /\ buf' = buf + 1 /\ sentOk' = sentOk + 1
    /\ UNCHANGED <<cpc, got, breakReq, spindown, ifUp, errors>>

SendOk ==
    /\ cpc = "send" /\ SendResult = 1
    /\ buf' = buf + 1 /\ sentOk' = sentOk + 1
    /\ cpc' = "loop"
    /\ UNCHANGED <<got, breakReq, spindown, ifUp, errors>>

\* (mutant) a ring-buffer wait that only a spin-down ends
WaitRingbufferSpindownOnly ==
    /\ cpc = "wait" /\ spindown
    /\ cpc' = "send"
    /\ UNCHANGED <<got, sentOk, buf, breakReq, spindown, ifUp, errors>>

\* cf_handler_wait_ringbuffer returns, and the packet is sent again.
WaitRingbuffer ==
    /\ cpc = "wait" /\ (buf < BufCap \/ spindown)
    /\ cpc' = "send"
    /\ UNCHANGED <<got, sentOk, buf, breakReq, spindown, ifUp, errors>>

\* The rest of capture_thread after pcap_loop: report the close, report a
\* down interface (or a failed flags probe) separately, spin down.
ThreadExit ==
    /\ cpc = "exit"
    /\ \E probeOk \in BOOLEAN :
          errors' = errors \cup {"closed"}
                           \cup (IF probeOk /\ ifUp THEN {} ELSE {"down"})
    /\ spindown' = TRUE
    /\ cpc' = "done"
    /\ UNCHANGED <<got, sentOk, buf, breakReq, ifUp>>

Capture ==
    Deliver \/ LoopEnds \/ SendFailed \/ SendFull \/ SendOk
    \/ WaitRingbuffer \/ ThreadExit

-----------------------------------------------------------------------------
(* The framework's main loop and the environment.                          *)

\* The main loop writes a queued frame to the parent.
Drain ==
    /\ buf > 0 /\ ~spindown
    /\ buf' = buf - 1
    /\ UNCHANGED <<cpc, got, sentOk, breakReq, spindown, ifUp, errors>>

\* The source is spun down from the main thread: a terminal channel error,
\* a failed write to the parent, or the parent's request.
Spindown ==
    /\ ~spindown
    /\ spindown' = TRUE
    /\ UNCHANGED <<cpc, got, sentOk, buf, breakReq, ifUp, errors>>

\* The capture interface is unplugged or taken down by another service.
InterfaceDown ==
    /\ ifUp
    /\ ifUp' = FALSE
    /\ UNCHANGED <<cpc, got, sentOk, buf, breakReq, spindown, errors>>

\* The capture thread has finished.
Finished ==
    /\ cpc = "done"
    /\ UNCHANGED vars

Next == Capture \/ Drain \/ Spindown \/ InterfaceDown \/ Finished

\* The capture thread is always scheduled; the main loop drains the buffer
\* whenever it holds a frame, as long as the parent reads.  Packets, the
\* spin-down and the interface going away are up to the environment.
Fairness == WF_vars(Capture) /\ WF_vars(Drain)

Spec == Init /\ [][Next]_vars /\ Fairness

-----------------------------------------------------------------------------
(* Properties.                                                              *)

TypeOK ==
    /\ cpc \in {"loop", "send", "wait", "exit", "done"}
    /\ got \in 0..MaxPackets
    /\ sentOk \in 0..MaxPackets
    /\ buf \in 0..BufCap
    /\ breakReq \in BOOLEAN /\ spindown \in BOOLEAN /\ ifUp \in BOOLEAN
    /\ errors \subseteq Diagnostics

(* Spec 4.5 and 8: the capture loop forwards every packet it reads exactly  *)
(* once and reads the next only after the last was accepted (no drops, no  *)
(* duplicates), whatever the retries on a full ring buffer: the loop       *)
(* implements the abstract Forwarder.                                      *)
Fwd == INSTANCE Forwarder
           WITH read <- got, fwd <- sentOk,
                active <- cpc \in {"loop", "send", "wait"} /\ ~breakReq
ForwarderSpec == Fwd!Spec

(* Spec 8, scenario 6: a packet held back by a full ring buffer is sent     *)
(* once the main loop drains, unless the source spins down first.          *)
PacketsForwarded ==
    \A n \in 1..MaxPackets : (got = n) ~> (sentOk >= n \/ spindown)

(* Spec 4.5: a send error breaks the read loop and shuts down: once        *)
(* pcap_dispatch_cb has called pcap_breakloop, capture_thread finishes.     *)
SendErrorEndsThread ==
    breakReq ~> (cpc = "done")

=============================================================================
