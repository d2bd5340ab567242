--------------------------- MODULE WifiOpenProofs ---------------------------
(***************************************************************************)
(* Proofs about WifiOpen for every choice of the names: open_callback is   *)
(* type-correct, and whenever it reports success the capture interface     *)
(* exists and is up, with the parent down when a vif is used.              *)
(*                                                                         *)
(* CaptureReady is not inductive by itself: a step into "ready" only knows *)
(* what OpenPcap guards, so the invariant carries what each earlier step   *)
(* has established, indexed by the step the callback has reached:          *)
(*   - cap_interface is set from PickCapInterface on;                      *)
(*   - the parent is down from BringDownParent on (for a vif);             *)
(*   - the capture interface is up from BringUpCap on;                     *)
(* and the kernel facts that keep them true: up interfaces exist and the   *)
(* parent is never deleted.                                                *)
(***************************************************************************)
EXTENDS WifiOpen, TLAPS

\* The steps from which cap_interface holds a name.
Picked == {"reprobe", "connect", "monitor", "down", "up", "pcap", "ready"}

IInv ==
    /\ TypeOK
    /\ Parent \in exists
    /\ up \subseteq exists
    /\ pc \in Picked => cap \in Names
    /\ (pc \in {"up", "pcap", "ready"} /\ cap # Parent /\ ~def.ignorePrimary)
           => Parent \notin up
    /\ pc \in {"pcap", "ready"} => cap \in up

\* Facts about the constants the steps use.
LEMMA NamesFacts ==
    /\ Parent \in Names /\ MonName \in Names /\ VifName \in Names
    /\ \A k \in 1..KismonTries : Kismon[k] \in Names
BY NamesAssumption DEF Names, KismonTries, Range

LEMMA InitIInv == Init => IInv
BY DEF Init, IInv, TypeOK, Picked, Steps, Modes

\* Each action preserves IInv; one step per action.
LEMMA NextIInv == IInv /\ [Next]_vars => IInv'
<1> SUFFICES ASSUME IInv, [Next]_vars PROVE IInv'
    OBVIOUS
<1> USE NamesFacts DEF IInv, TypeOK, Picked, Goto, Fail, Steps, local, kernel
<1>1. CASE ParseInterface
    BY <1>1 DEF ParseInterface
<1>2. CASE GetHwaddr
    BY <1>2 DEF GetHwaddr
<1>3. CASE CheckRfkill
    BY <1>3 DEF CheckRfkill, Rfkill
<1>4. CASE GetMode
    BY <1>4 DEF GetMode, GetModeResults, Modes
<1>5. CASE QuiesceNm
    BY <1>5 DEF QuiesceNm, NmStates
<1>6. CASE PickCapInterface
    BY <1>6 DEF PickCapInterface, GetModeResults, Modes, MacMatches,
                FreeKismon, IsFirstFree
<1>7. CASE ReprobeMode
    BY <1>7 DEF ReprobeMode, GetModeResults, Modes
<1>8. CASE Connect
    BY <1>8 DEF Connect
<1>9. CASE CreateVif
    BY <1>9 DEF CreateVif, SetParentMonitor, Modes
<1>10. CASE LegacySetMode
    BY <1>10 DEF LegacySetMode, SetParentMonitor, Modes
<1>11. CASE AlreadyMonitor
    BY <1>11 DEF AlreadyMonitor
<1>12. CASE BringDownParent
    BY <1>12 DEF BringDownParent
<1>13. CASE BringUpCap
    BY <1>13 DEF BringUpCap
<1>14. CASE OpenPcap
    BY <1>14 DEF OpenPcap
<1>15. CASE Returned \/ UNCHANGED vars
    BY <1>15 DEF Returned, vars, kernel, local
<1>16. QED
    BY <1>1, <1>2, <1>3, <1>4, <1>5, <1>6, <1>7, <1>8, <1>9, <1>10, <1>11,
       <1>12, <1>13, <1>14, <1>15 DEF Next

(* open_callback only ever puts values of their types in its variables and *)
(* the kernel's.                                                            *)
THEOREM TypeCorrect == Spec => []TypeOK
BY InitIInv, NextIInv, PTL DEF Spec, IInv

(* Whenever open_callback returns success, pcap captures from an interface *)
(* that exists and is up, and the parent of a vif is down unless           *)
(* ignoreprimary=true (the BRING_UP step of spec 4.3).                     *)
THEOREM CaptureReadyHolds == Spec => []CaptureReady
<1>1. IInv => CaptureReady
    BY DEF IInv, CaptureReady, Picked
<1>2. QED
    BY <1>1, InitIInv, NextIInv, PTL DEF Spec

=============================================================================
