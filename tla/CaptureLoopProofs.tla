--------------------------- MODULE CaptureLoopProofs ---------------------------
(***************************************************************************)
(* Proofs about the capture loop for every MaxPackets and BufCap: its type *)
(* invariant, and that it implements the abstract Forwarder; and about the *)
(* process around it, that NetworkManager gets the parent back.            *)
(***************************************************************************)
EXTENDS Lifecycle, TLAPS

(* The strengthening the refinement needs: a send error leaves the thread  *)
(* in pcap_dispatch_cb for good, with the source spinning down; in the     *)
(* read loop every packet read has been sent, and inside the callback      *)
(* exactly the packet in hand has not.                                     *)
IInv ==
    /\ TypeOK
    /\ breakReq => spindown /\ cpc = "send"
    /\ cpc = "loop" => sentOk = got
    /\ cpc \in {"send", "wait"} => sentOk = got - 1

LEMMA InitIInv == Init => IInv
<1> SUFFICES ASSUME Init PROVE IInv
  OBVIOUS
<1>1. got \in 0..MaxPackets /\ sentOk \in 0..MaxPackets /\ buf \in 0..BufCap
  BY CaptureAssumption DEF Init
<1>2. errors \subseteq Diagnostics
  BY DEF Init
<1>3. cpc = "loop" /\ breakReq = FALSE /\ spindown = FALSE /\ ifUp = TRUE
      /\ sentOk = got
  BY DEF Init
<1>. QED
  BY <1>1, <1>2, <1>3 DEF IInv, TypeOK

\* One lemma per action, each from IInv to IInv'.
LEMMA DeliverIInv == IInv /\ Deliver => IInv'
BY CaptureAssumption DEF IInv, TypeOK, Deliver

LEMMA LoopEndsIInv == IInv /\ LoopEnds => IInv'
BY DEF IInv, TypeOK, LoopEnds

LEMMA SendFailedIInv == IInv /\ SendFailed => IInv'
BY DEF IInv, TypeOK, SendFailed, SendResult, Diagnostics

LEMMA SendFullIInv == IInv /\ SendFull => IInv'
BY DEF IInv, TypeOK, SendFull, SendResult

LEMMA SendOkIInv == IInv /\ SendOk => IInv'
<1> SUFFICES ASSUME IInv, SendOk PROVE IInv'
  OBVIOUS
<1>1. ~spindown /\ buf # BufCap
  BY DEF SendOk, SendResult
<1>2. ~breakReq
  BY <1>1 DEF IInv
<1>3. buf < BufCap /\ got <= MaxPackets /\ sentOk = got - 1
  BY <1>1, CaptureAssumption DEF IInv, TypeOK, SendOk
<1>. QED
  BY <1>2, <1>3, CaptureAssumption DEF IInv, TypeOK, SendOk

LEMMA WaitIInv == IInv /\ WaitRingbuffer => IInv'
BY DEF IInv, TypeOK, WaitRingbuffer

LEMMA ThreadExitIInv == IInv /\ ThreadExit => IInv'
BY DEF IInv, TypeOK, ThreadExit, Diagnostics

LEMMA EnvIInv == IInv /\ (Drain \/ Spindown \/ InterfaceDown \/ Finished) => IInv'
<1> SUFFICES ASSUME IInv, Drain \/ Spindown \/ InterfaceDown \/ Finished
             PROVE IInv'
  OBVIOUS
<1>1. CASE Drain
  BY <1>1, CaptureAssumption DEF IInv, TypeOK, Drain
<1>2. CASE Spindown
  BY <1>2 DEF IInv, TypeOK, Spindown
<1>3. CASE InterfaceDown
  BY <1>3 DEF IInv, TypeOK, InterfaceDown
<1>4. CASE Finished
  BY <1>4 DEF IInv, TypeOK, Finished, vars
<1>. QED
  BY <1>1, <1>2, <1>3, <1>4

LEMMA StutterIInv == IInv /\ UNCHANGED vars => IInv'
BY DEF IInv, TypeOK, vars

LEMMA NextIInv == IInv /\ [Next]_vars => IInv'
BY DeliverIInv, LoopEndsIInv, SendFailedIInv, SendFullIInv, SendOkIInv,
   WaitIInv, ThreadExitIInv, EnvIInv, StutterIInv DEF Next, Capture

(* Every state of the capture loop is well typed: counters stay within     *)
(* MaxPackets, the ring buffer within BufCap, whatever the interleaving of *)
(* sends, drains, spin-downs and interface loss.                           *)
THEOREM CaptureTypeCorrect == Spec => []TypeOK
<1>1. Spec => []IInv
  BY InitIInv, NextIInv, PTL DEF Spec
<1>. QED
  BY <1>1, PTL DEF IInv

-----------------------------------------------------------------------------
(* The refinement.                                                          *)

FwdVars == <<got, sentOk, cpc \in {"loop", "send", "wait"} /\ ~breakReq>>

LEMMA InitRefines == Init => Fwd!Init
BY DEF Init, Fwd!Init

\* Deliver is a Read, SendOk a Forward, LoopEnds and a first send error a
\* Stop; every other step leaves the mapped variables alone.
LEMMA NextRefines == IInv /\ [Next]_vars => [Fwd!Next]_FwdVars
<1> SUFFICES ASSUME IInv, [Next]_vars PROVE [Fwd!Next]_FwdVars
  OBVIOUS
<1>1. CASE Deliver
  BY <1>1 DEF IInv, TypeOK, Deliver, Fwd!Next, Fwd!Read
<1>2. CASE LoopEnds
  BY <1>2 DEF IInv, LoopEnds, Fwd!Next, Fwd!Stop
<1>3. CASE SendFailed
  <2>1. CASE breakReq
    BY <1>3, <2>1 DEF SendFailed, FwdVars
  <2>2. CASE ~breakReq
    BY <1>3, <2>2 DEF IInv, SendFailed, Fwd!Next, Fwd!Stop
  <2>. QED
    BY <2>1, <2>2
<1>4. CASE SendFull
  BY <1>4 DEF SendFull, FwdVars
<1>5. CASE SendOk
  <2>1. ~breakReq /\ cpc = "send"
    BY <1>5 DEF IInv, SendOk, SendResult
  <2>. QED
    BY <1>5, <2>1 DEF IInv, TypeOK, SendOk, Fwd!Next, Fwd!Forward
<1>6. CASE WaitRingbuffer
  BY <1>6 DEF WaitRingbuffer, FwdVars
<1>7. CASE ThreadExit
  BY <1>7 DEF ThreadExit, FwdVars
<1>8. CASE Drain \/ Spindown \/ InterfaceDown
  <2>1. UNCHANGED <<cpc, got, sentOk, breakReq>>
    BY <1>8 DEF Drain, Spindown, InterfaceDown
  <2>. QED
    BY <2>1 DEF FwdVars
<1>10. CASE Finished
  BY <1>10 DEF Finished, vars, FwdVars
<1>9. CASE UNCHANGED vars
  BY <1>9 DEF vars, FwdVars
<1>. QED
  BY <1>1, <1>2, <1>3, <1>4, <1>5, <1>6, <1>7, <1>8, <1>9, <1>10 DEF Next, Capture

(* Spec 4.5 and 8, for every bound: the capture loop implements the        *)
(* Forwarder (packets read one at a time, each forwarded exactly once      *)
(* before the next is read), through pcap_dispatch_cb's retries on a full  *)
(* ring buffer and its send errors.                                        *)
THEOREM CaptureRefinesForwarder == Spec => ForwarderSpec
<1>1. Spec => []IInv
  BY InitIInv, NextIInv, PTL DEF Spec
<1>. QED
  BY <1>1, InitRefines, NextRefines, PTL DEF Spec, ForwarderSpec, Fwd!Spec, FwdVars

-----------------------------------------------------------------------------
(* NetworkManager across the process.                                       *)

(* What the process knows about the parent's NetworkManager state: before  *)
(* the open nothing is recorded; without a record NetworkManager is as it  *)
(* was found; a record means it was managed; the restore at exit, and only *)
(* it, sets nmExit, and a reached restore leaves the parent managed.        *)
NInv ==
    /\ resetNm \in BOOLEAN /\ nmManaged \in BOOLEAN /\ nmAtStart \in BOOLEAN
    /\ nmExit \in {"none", "ok", "unreached"}
    /\ opened = "no" => resetNm = FALSE
    /\ resetNm = FALSE => nmManaged = nmAtStart
    /\ resetNm = TRUE => nmAtStart = TRUE
    /\ mpc # "parked" => nmExit = "none"
    /\ mpc = "parked" /\ nmExit = "ok" => nmManaged = TRUE
    /\ mpc = "parked" /\ nmExit = "none" => resetNm = FALSE

LEMMA InitNInv == LInit => NInv
BY DEF LInit, NInv

LEMMA OpenNInv == NInv /\ OpenCallback => NInv'
<1> SUFFICES ASSUME NInv, OpenCallback PROVE NInv'
  OBVIOUS
<1>1. resetNm = FALSE /\ nmManaged = nmAtStart /\ mpc = "loop" /\ nmExit = "none"
  BY DEF NInv, OpenCallback
<1>2. CASE opened' = "failed" /\ UNCHANGED <<resetNm, nmManaged>>
  BY <1>1, <1>2 DEF NInv, OpenCallback
<1>3. CASE \E reached \in BOOLEAN : QuiesceNm(reached)
  <2>1. PICK reached \in BOOLEAN : QuiesceNm(reached)
    BY <1>3
  <2>2. /\ resetNm' = IF reached THEN nmManaged ELSE FALSE
        /\ nmManaged' = (nmManaged /\ ~reached)
    BY <1>1, <2>1 DEF QuiesceNm
  <2>3. UNCHANGED <<mpc, nmAtStart, nmExit>> /\ opened' # "no"
    BY DEF OpenCallback
  <2>4. CASE reached
    <3>1. resetNm' = nmManaged /\ nmManaged' = FALSE
      BY <2>2, <2>4, <1>1 DEF NInv
    <3>. QED
      BY <1>1, <2>3, <3>1 DEF NInv
  <2>5. CASE ~reached
    <3>1. resetNm' = FALSE /\ nmManaged' = nmManaged
      BY <2>2, <2>5, <1>1 DEF NInv
    <3>. QED
      BY <1>1, <2>3, <3>1 DEF NInv
  <2>. QED
    BY <2>4, <2>5
<1>. QED
  BY <1>2, <1>3 DEF OpenCallback

LEMMA RestoreNInv == NInv /\ RestoreNm => NInv'
<1> SUFFICES ASSUME NInv, RestoreNm PROVE NInv'
  OBVIOUS
<1>1. mpc' = "parked" /\ nmExit = "none" /\ UNCHANGED <<opened, resetNm, nmAtStart>>
  BY DEF NInv, RestoreNm
<1>2. CASE resetNm = TRUE
  <2>1. PICK reached \in BOOLEAN :
            /\ nmManaged' = (nmManaged \/ reached)
            /\ nmExit' = IF reached THEN "ok" ELSE "unreached"
    BY <1>2 DEF RestoreNm
  <2>. QED
    BY <1>1, <1>2, <2>1, Zenon DEF NInv
<1>3. CASE resetNm = FALSE
  <2>1. UNCHANGED <<nmManaged, nmExit>>
    BY <1>3 DEF NInv, RestoreNm
  <2>. QED
    BY <1>1, <1>3, <2>1, Zenon DEF NInv
<1>. QED
  BY <1>2, <1>3 DEF NInv

\* Every other step leaves NetworkManager and the record alone.
LEMMA OtherNInv ==
    NInv /\ (HandlerInit \/ ParseOpts \/ LoopReturns \/ CaptureStep
             \/ FrameworkStep \/ Parked \/ UNCHANGED allVars) => NInv'
<1> SUFFICES ASSUME NInv, HandlerInit \/ ParseOpts \/ LoopReturns \/ CaptureStep
                    \/ FrameworkStep \/ Parked \/ UNCHANGED allVars
             PROVE NInv'
  OBVIOUS
<1>1. CASE HandlerInit \/ ParseOpts \/ LoopReturns
  <2>1. UNCHANGED <<opened, resetNm, nmManaged, nmAtStart, nmExit>>
        /\ mpc' \in {"opts", "loop", "exited", "restore"} /\ mpc # "parked"
    BY <1>1 DEF HandlerInit, ParseOpts, LoopReturns
  <2>. QED
    BY <2>1 DEF NInv
<1>2. CASE CaptureStep \/ FrameworkStep \/ Parked \/ UNCHANGED allVars
  <2>1. UNCHANGED lvars
    BY <1>2 DEF CaptureStep, FrameworkStep, Parked, allVars
  <2>. QED
    BY <2>1 DEF NInv, lvars
<1>. QED
  BY <1>1, <1>2

LEMMA NextNInv == NInv /\ [LNext]_allVars => NInv'
BY OpenNInv, RestoreNInv, OtherNInv DEF LNext, Main

(* Spec 4.6, for every bound: once main has parked, the parent is managed  *)
(* by NetworkManager exactly as it was when the process started, unless    *)
(* the session at exit could not reach it: open_callback records what it   *)
(* unmanaged and main's exit path hands it back, on every path through     *)
(* open, capture and shutdown.                                             *)
THEOREM NmLeftAsFoundHolds == LSpec => []NmLeftAsFound
<1>1. NInv => NmLeftAsFound
  BY Zenon DEF NInv, NmLeftAsFound
<1>2. LSpec => []NInv
  BY InitNInv, NextNInv, PTL DEF LSpec
<1>. QED
  BY <1>1, <1>2, PTL

-----------------------------------------------------------------------------
(* The capture loop inside the process.                                     *)

\* A step of the process is a step of the capture loop, a step of main that
\* leaves the loop's variables alone, or the open, which may only set the
\* spin-down flag.
LEMMA LNextCases ==
    [LNext]_allVars => \/ [Next]_vars
                       \/ /\ OpenCallback
                          /\ UNCHANGED <<cpc, got, sentOk, buf, breakReq, ifUp, errors>>
                          /\ spindown' \in BOOLEAN
<1> SUFFICES ASSUME [LNext]_allVars
             PROVE  \/ [Next]_vars
                    \/ /\ OpenCallback
                       /\ UNCHANGED <<cpc, got, sentOk, buf, breakReq, ifUp, errors>>
                       /\ spindown' \in BOOLEAN
  OBVIOUS
<1>1. CASE OpenCallback
  BY <1>1 DEF OpenCallback
<1>2. CASE HandlerInit \/ ParseOpts \/ LoopReturns \/ RestoreNm \/ Parked
  BY <1>2 DEF HandlerInit, ParseOpts, LoopReturns, RestoreNm, Parked, allVars
<1>3. CASE CaptureStep \/ FrameworkStep
  BY <1>3 DEF CaptureStep, FrameworkStep, Next
<1>4. CASE UNCHANGED allVars
  BY <1>4 DEF allVars
<1>. QED
  BY <1>1, <1>2, <1>3, <1>4 DEF LNext, Main

LEMMA OpenIInv ==
    IInv /\ UNCHANGED <<cpc, got, sentOk, buf, breakReq, ifUp, errors>>
         /\ spindown' \in BOOLEAN /\ (spindown => spindown')
    => IInv'
BY DEF IInv, TypeOK

\* The open never clears a spin-down: it fails with the flag set, or keeps it.
LEMMA OpenKeepsSpindown == OpenCallback => (spindown => spindown')
BY DEF OpenCallback

LEMMA LNextIInv == IInv /\ [LNext]_allVars => IInv'
BY LNextCases, NextIInv, OpenIInv, OpenKeepsSpindown

\* main's own place and the open's outcome stay in their ranges.
MainTypes ==
    /\ mpc \in {"start", "opts", "loop", "restore", "parked", "exited"}
    /\ opened \in {"no", "ok", "failed"}

LEMMA NextMainTypes == MainTypes /\ [LNext]_allVars => MainTypes'
BY DEF MainTypes, LNext, Main, HandlerInit, ParseOpts, OpenCallback, LoopReturns,
       RestoreNm, CaptureStep, FrameworkStep, Parked, allVars, lvars

(* The composed process is well typed for every bound: the capture thread's *)
(* counters and buffer, main's place, the open's outcome and the            *)
(* NetworkManager record, whatever the order of main's, the capture         *)
(* thread's and the framework's steps.                                      *)
THEOREM LifecycleTypeCorrect == LSpec => []LTypeOK
<1>1. LInit => IInv /\ NInv /\ MainTypes
  BY InitIInv, InitNInv DEF LInit, MainTypes
<1>2. IInv /\ NInv /\ MainTypes /\ [LNext]_allVars => (IInv /\ NInv /\ MainTypes)'
  BY LNextIInv, NextNInv, NextMainTypes
<1>3. IInv /\ NInv /\ MainTypes => LTypeOK
  BY DEF IInv, NInv, MainTypes, LTypeOK
<1>. QED
  BY <1>1, <1>2, <1>3, PTL DEF LSpec

\* The open moves none of the variables the Forwarder sees.
LEMMA LNextRefines == IInv /\ [LNext]_allVars => [Fwd!Next]_FwdVars
BY LNextCases, NextRefines DEF FwdVars

(* Spec 4.5 and 8, for the process as a whole: with main's startup, the    *)
(* open, the framework's drain and spin-down and main's shutdown around it, *)
(* the capture loop still implements the Forwarder.                         *)
THEOREM LifecycleRefinesForwarder == LSpec => ForwarderSpec
<1>1. LSpec => []IInv
  BY InitIInv, LNextIInv, PTL DEF LSpec, LInit
<1>2. LInit => Fwd!Init
  BY InitRefines DEF LInit
<1>. QED
  BY <1>1, <1>2, LNextRefines, PTL DEF LSpec, ForwarderSpec, Fwd!Spec, FwdVars

=============================================================================
