------------------------------ MODULE Lifecycle ------------------------------
(***************************************************************************)
(* The process as main runs it, composed with the capture loop: the        *)
(* framework handle is allocated and the options parsed (either may fail   *)
(* and end the process), the callbacks are registered and cf_handler_loop  *)
(* runs.  Inside it open_callback takes the parent away from               *)
(* NetworkManager (lines 603-652) and, if the open succeeds, the capture   *)
(* thread of CaptureLoop runs.  When the loop returns, main hands the      *)
(* parent back to NetworkManager (lines 1254-1277) and parks.              *)
(*                                                                         *)
(* From open_callback only its NetworkManager step is kept here (WifiOpen  *)
(* models the rest): the open may fail before reaching it, and may fail    *)
(* after it.  Each NetworkManager session (nm_client_new, NM running, the  *)
(* parent among its devices) may or may not reach the parent's device.     *)
(* cf_handler_loop is modelled from the spec: it returns once the source   *)
(* spins down, and a failed open spins the source down.                    *)
(***************************************************************************)
EXTENDS CaptureLoop

VARIABLES
    mpc,         \* where main is
    opened,      \* open_callback: "no", "ok" or "failed"
    resetNm,     \* local_wifi.reset_nm_management
    nmManaged,   \* NetworkManager manages the parent
    nmAtStart,   \* whether it did when the process started (history)
    nmExit       \* the restore at exit: "none", "ok" or "unreached"

lvars == <<mpc, opened, resetNm, nmManaged, nmAtStart, nmExit>>
allVars == <<vars, lvars>>

LInit ==
    /\ Init
    /\ mpc = "start" /\ opened = "no"
    /\ resetNm = FALSE
    /\ nmManaged \in BOOLEAN /\ nmAtStart = nmManaged
    /\ nmExit = "none"

\* cf_handler_init and cf_handler_parse_opts; either failing returns -1.
HandlerInit ==
    /\ mpc = "start"
    /\ \E ok \in BOOLEAN : mpc' = IF ok THEN "opts" ELSE "exited"
    /\ UNCHANGED <<vars, opened, resetNm, nmManaged, nmAtStart, nmExit>>

ParseOpts ==
    /\ mpc = "opts"
    /\ \E ok \in BOOLEAN : mpc' = IF ok THEN "loop" ELSE "exited"
    /\ UNCHANGED <<vars, opened, resetNm, nmManaged, nmAtStart, nmExit>>

\* (mutant) the parent is unmanaged without recording reset_nm_management
QuiesceNmNoRecord(reached) ==
    /\ nmManaged' = (nmManaged /\ ~reached)
    /\ UNCHANGED resetNm

\* open_callback's NetworkManager step: if the session reaches the parent's
\* device, reset_nm_management is its managed flag, and a managed parent
\* is unmanaged.
QuiesceNm(reached) ==
    /\ resetNm' = IF reached THEN nmManaged ELSE resetNm
    /\ nmManaged' = (nmManaged /\ ~reached)

\* open_callback, called once from cf_handler_loop: it fails before the
\* NetworkManager step, or takes it and then succeeds or fails.  A failed
\* open spins the source down.
OpenCallback ==
    /\ mpc = "loop" /\ opened = "no"
    /\ \/ /\ opened' = "failed" /\ spindown' = TRUE
          /\ UNCHANGED <<resetNm, nmManaged>>
       \/ /\ \E reached \in BOOLEAN : QuiesceNm(reached)
          /\ \E ok \in BOOLEAN :
                /\ opened' = IF ok THEN "ok" ELSE "failed"
                /\ spindown' = (spindown \/ ~ok)
    /\ UNCHANGED <<cpc, got, sentOk, buf, breakReq, ifUp, errors,
                   mpc, nmAtStart, nmExit>>

\* cf_handler_loop returns once the source spins down.
LoopReturns ==
    /\ mpc = "loop" /\ spindown
    /\ mpc' = "restore"
    /\ UNCHANGED <<vars, opened, resetNm, nmManaged, nmAtStart, nmExit>>

\* Lines 1254-1277: with reset_nm_management set, a new session looks the
\* parent up by local_wifi.interface and sets it managed; then the handle
\* is freed and main parks in its while (1) sleep.
RestoreNm ==
    /\ mpc = "restore"
    /\ \/ /\ resetNm
          /\ \E reached \in BOOLEAN :
                /\ nmManaged' = (nmManaged \/ reached)
                /\ nmExit' = IF reached THEN "ok" ELSE "unreached"
       \/ /\ ~resetNm
          /\ UNCHANGED <<nmManaged, nmExit>>
    /\ mpc' = "parked"
    /\ UNCHANGED <<vars, opened, resetNm, nmAtStart>>

Main == HandlerInit \/ ParseOpts \/ OpenCallback \/ LoopReturns \/ RestoreNm

\* The capture thread runs once the open has succeeded; nothing in main
\* stops it.  The framework side runs while cf_handler_loop does.
CaptureStep ==
    /\ opened = "ok"
    /\ Capture
    /\ UNCHANGED lvars

FrameworkStep ==
    /\ mpc = "loop"
    /\ (Drain \/ Spindown \/ InterfaceDown)
    /\ UNCHANGED lvars

\* The process has ended (a startup failure) or main is parked.
Parked ==
    /\ mpc \in {"exited", "parked"}
    /\ UNCHANGED allVars

LNext == Main \/ CaptureStep \/ FrameworkStep \/ Parked

\* main and the capture thread are always scheduled, and the main loop
\* drains a queued frame.
LSpec ==
    /\ LInit /\ [][LNext]_allVars
    /\ WF_allVars(Main) /\ WF_allVars(CaptureStep)
    /\ WF_allVars(Drain /\ mpc = "loop" /\ UNCHANGED lvars)

-----------------------------------------------------------------------------
(* Properties.                                                              *)

LTypeOK ==
    /\ TypeOK
    /\ mpc \in {"start", "opts", "loop", "restore", "parked", "exited"}
    /\ opened \in {"no", "ok", "failed"}
    /\ resetNm \in BOOLEAN /\ nmManaged \in BOOLEAN /\ nmAtStart \in BOOLEAN
    /\ nmExit \in {"none", "ok", "unreached"}

(* Spec 4.6: whatever open_callback did to NetworkManager, once main has   *)
(* parked it has handed the parent back as it found it, unless the        *)
(* session at exit could not reach the parent's device.                    *)
NmLeftAsFound ==
    mpc = "parked" /\ nmExit # "unreached" => nmManaged = nmAtStart

=============================================================================
