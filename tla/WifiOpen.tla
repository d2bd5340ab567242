------------------------------ MODULE WifiOpen ------------------------------
(***************************************************************************)
(* The interface preparer of capture_linux_wifi: open_callback, which      *)
(* takes the interface named in a source definition and leaves a          *)
(* capture interface the pcap library can open, driving the kernel through *)
(* the wireless control adapter (ifconfig_*, iwconfig_*, mac80211_*,       *)
(* linux_sys_*rfkill) and NetworkManager.                                  *)
(*                                                                         *)
(* The callback runs on the main thread and is never re-entered, so it is  *)
(* a single sequence of steps; pc names the step about to run.  Every      *)
(* kernel call is an environment choice: it may fail for reasons the code  *)
(* cannot see (permissions, driver refusals, ioctls unsupported by a       *)
(* non-wireless device), and it fails when the object it needs is absent.  *)
(* Interface names are abstracted to the few names the code can compute:   *)
(* the parent, "<parent>mon", the vif= flag's name and the kismonN names.  *)
(***************************************************************************)
EXTENDS Naturals, Sequences, Functions

CONSTANTS
    Parent,     \* the interface named in the source definition
    MonName,    \* the name "<parent>mon"
    VifName,    \* the name given by a vif= flag of the definition
    Kismon      \* <<"kismon0", "kismon1", ...>>, the names find_next_ifnum tries

KismonTries == Len(Kismon)   \* 100 in find_next_ifnum
Names == {Parent, MonName, VifName} \cup Range(Kismon)

ASSUME NamesAssumption ==
    /\ Kismon \in Seq(STRING) \ {<<>>}
    /\ IsInjective(Kismon)
    /\ Parent \notin {MonName, VifName} \cup Range(Kismon)
    /\ MonName \notin {VifName} \cup Range(Kismon)
    /\ VifName \notin Range(Kismon)

\* Wireless modes as returned by iwconfig_get_mode; "unknown" stands for the
\* -1 that open_callback stores when the probe at line 728 fails.
Modes == {"monitor", "managed"}
NoIface == "none"            \* cap_interface == NULL
Rfkill == {"none", "soft", "hard"}
\* NetworkManager's view of the parent: not reachable, running and not
\* managing it, running and managing it.
NmStates == {"absent", "unmanaged", "managed"}
Steps == {"parse", "hwaddr", "rfkill", "getmode", "nm", "pick", "reprobe",
          "connect", "monitor", "down", "up", "pcap", "ready", "failed"}

VARIABLES
    pc,          \* the next step of open_callback
    def,         \* the flags of the source definition (read-only input)
    cap,         \* local_wifi->cap_interface
    mode,        \* open_callback's local 'mode'
    handle,      \* local_wifi->mac80211_handle # NULL
    useMac80211, \* local_wifi->use_mac80211
    resetNm,     \* local_wifi->reset_nm_management
    exists,      \* kernel: interfaces that exist
    kmode,       \* kernel: wireless mode of each interface
    up,          \* kernel: interfaces that are admin-up
    sameMac,     \* kernel: interfaces sharing the parent's hardware address
    rfkill,      \* kernel: rfkill state of the parent's radio
    nm,          \* NetworkManager's state for the parent
    created      \* history: the interfaces open_callback created

kernel == <<exists, kmode, up, sameMac, rfkill>>
local == <<cap, mode, handle, useMac80211, resetNm>>
vars == <<pc, def, local, kernel, nm, created>>

-----------------------------------------------------------------------------
(* Helpers translating the adapter calls the callback makes.               *)

\* (mutant) a probe whose ENODEV error leaks into 'mode' as its own value
GetModeResultsErrno(i) ==
    IF i \in exists THEN {kmode[i], "unknown"} ELSE {"enodev"}

\* The outcomes of iwconfig_get_mode(i): the mode, or a failure (-1) which
\* is certain when i does not exist and possible otherwise.
GetModeResults(i) == IF i \in exists THEN {kmode[i], "unknown"} ELSE {"unknown"}

\* The candidates find_interface_mode_by_mac can return: another interface
\* with the parent's address in monitor mode, or none when getifaddrs or the
\* per-interface ioctls fail.
MacMatches == {i \in exists \ {Parent} : i \in sameMac /\ kmode[i] = "monitor"}

\* find_next_ifnum("kismon"): the indices of the unused kismonN names; the
\* loop returns the least of them.
FreeKismon == {k \in 1..KismonTries : Kismon[k] \notin exists}
IsFirstFree(k) == k \in FreeKismon /\ \A j \in FreeKismon : k <= j

Goto(s) == pc' = s
Fail == pc' = "failed"

-----------------------------------------------------------------------------
(* The initial states: the process has just been spawned (main's          *)
(* initialiser for local_wifi) and the kernel is in any state of the       *)
(* abstraction.  Interfaces other than the parent start admin-down.        *)

Init ==
    /\ pc = "parse"
    /\ def \in [hasIface : BOOLEAN, vif : BOOLEAN, ignorePrimary : BOOLEAN,
                longName : BOOLEAN]
    /\ cap = NoIface
    /\ mode = "unknown"
    /\ handle = FALSE
    /\ useMac80211 = 1
    /\ resetNm = FALSE
    /\ exists \in SUBSET Names /\ Parent \in exists
    /\ kmode \in [Names -> Modes]
    /\ \A i \in Names \ exists : kmode[i] = "managed"
    /\ up \in {{}, {Parent}}
    /\ sameMac \in SUBSET (exists \ {Parent})
    /\ rfkill \in Rfkill
    /\ nm \in NmStates
    /\ created = {}

-----------------------------------------------------------------------------
(* The steps of open_callback, in the order the code takes them.           *)

\* cf_parse_interface: a definition without an interface is refused.
ParseInterface ==
    /\ pc = "parse"
    /\ IF def.hasIface THEN Goto("hwaddr") ELSE Fail
    /\ UNCHANGED <<def, local, kernel, nm, created>>

\* ifconfig_get_hwaddr on the parent; any failure ends the open.
GetHwaddr ==
    /\ pc = "hwaddr"
    /\ \/ Goto("rfkill")
       \/ Fail
    /\ UNCHANGED <<def, local, kernel, nm, created>>

\* Hard rfkill is fatal; soft rfkill is cleared, and a failed clear is fatal.
CheckRfkill ==
    /\ pc = "rfkill"
    /\ \/ /\ rfkill = "hard"
          /\ Fail
          /\ UNCHANGED rfkill
       \/ /\ rfkill = "soft"
          /\ \/ /\ rfkill' = "none"
                /\ Goto("getmode")
             \/ /\ Fail
                /\ UNCHANGED rfkill
       \/ /\ rfkill = "none"
          /\ Goto("getmode")
          /\ UNCHANGED rfkill
    /\ UNCHANGED <<def, local, exists, kmode, up, sameMac, nm, created>>

\* The first iwconfig_get_mode on the parent: a failure is fatal here.
GetMode ==
    /\ pc = "getmode"
    /\ \E m \in GetModeResults(Parent) :
          IF m = "unknown" THEN Fail /\ UNCHANGED mode
                           ELSE Goto("nm") /\ mode' = m
    /\ UNCHANGED <<def, cap, handle, useMac80211, resetNm, kernel, nm, created>>

\* NetworkManager: when it manages the parent, remember that and unmanage it.
\* Every failure of the client is only informational.
QuiesceNm ==
    /\ pc = "nm"
    /\ resetNm' = (nm = "managed")
    /\ nm' = IF nm = "managed" THEN "unmanaged" ELSE nm
    /\ Goto("pick")
    /\ UNCHANGED <<def, cap, mode, handle, useMac80211, kernel, created>>

\* Choosing cap_interface (lines 656-720).  Not in monitor mode: the vif=
\* name, else a monitor interface with the parent's address, else
\* "<parent>mon" (refused when it exists in another mode), or kismonN when
\* the parent's name is too long.  Already in monitor mode: the parent.
PickCapInterface ==
    /\ pc = "pick"
    /\ \/ /\ mode = "monitor"
          /\ cap' = Parent /\ Goto("reprobe") /\ UNCHANGED mode
       \/ /\ mode # "monitor" /\ def.vif
          /\ cap' = VifName /\ Goto("reprobe") /\ UNCHANGED mode
       \/ /\ mode # "monitor" /\ ~def.vif
          /\ \E i \in MacMatches :
                cap' = i /\ Goto("reprobe") /\ UNCHANGED mode
       \/ /\ mode # "monitor" /\ ~def.vif /\ def.longName
          /\ \/ FreeKismon = {} /\ Fail /\ UNCHANGED cap
             \/ \E k \in 1..KismonTries :
                   IsFirstFree(k) /\ cap' = Kismon[k] /\ Goto("reprobe")
          /\ UNCHANGED mode
       \/ /\ mode # "monitor" /\ ~def.vif /\ ~def.longName
          \* a successful mode probe of "<parent>mon" overwrites 'mode'
          /\ \E m \in GetModeResults(MonName) :
                /\ mode' = IF m = "unknown" THEN mode ELSE m
                /\ IF m = "managed"
                      THEN Fail /\ UNCHANGED cap
                      ELSE cap' = MonName /\ Goto("reprobe")
    /\ UNCHANGED <<def, handle, useMac80211, resetNm, kernel, nm, created>>

\* The second iwconfig_get_mode on the parent (line 728); a failure is
\* tolerated as mode -1.
ReprobeMode ==
    /\ pc = "reprobe"
    /\ mode' \in GetModeResults(Parent)
    /\ Goto("connect")
    /\ UNCHANGED <<def, cap, handle, useMac80211, resetNm, kernel, nm, created>>

\* mac80211_connect: a failure leaves the handle NULL and is tolerated.
Connect ==
    /\ pc = "connect"
    /\ handle' \in BOOLEAN
    /\ Goto("monitor")
    /\ UNCHANGED <<def, cap, mode, useMac80211, resetNm, kernel, nm, created>>

\* iwconfig_set_mode(parent, monitor); the kernel refuses it while the
\* interface is up.
SetParentMonitor ==
    /\ Parent \notin up
    /\ kmode' = [kmode EXCEPT ![Parent] = "monitor"]

\* Lines 750-841: a monitor vif is made with nl80211; when that fails the
\* parent itself is put in monitor mode and the netlink handle dropped.
CreateVif ==
    /\ pc = "monitor"
    /\ mode # "monitor" /\ handle /\ cap # Parent
    /\ \/ /\ cap \notin exists
          /\ exists' = exists \cup {cap}
          /\ kmode' = [kmode EXCEPT ![cap] = "monitor"]
          /\ sameMac' = sameMac \cup {cap}
          /\ created' = created \cup {cap}
          /\ useMac80211' = 1
          /\ Goto("down")
          /\ UNCHANGED <<handle, up>>
       \/ /\ SetParentMonitor
          /\ handle' = FALSE
          /\ Goto("down")
          /\ UNCHANGED <<exists, sameMac, created, useMac80211, up>>
       \/ /\ Fail
          /\ UNCHANGED <<exists, kmode, sameMac, created, handle, useMac80211, up>>
    /\ UNCHANGED <<def, cap, mode, resetNm, rfkill, nm>>

\* Lines 842-860: no netlink handle, or the capture interface is the
\* parent: set the parent's mode with the legacy ioctl.
LegacySetMode ==
    /\ pc = "monitor"
    /\ mode # "monitor" /\ ~(handle /\ cap # Parent)
    /\ \/ SetParentMonitor /\ Goto("down")
       \/ Fail /\ UNCHANGED kmode
    /\ UNCHANGED <<def, local, exists, up, sameMac, rfkill, nm, created>>

\* Lines 861-866: the parent is already in monitor mode.
AlreadyMonitor ==
    /\ pc = "monitor"
    /\ mode = "monitor"
    /\ Goto("down")
    /\ UNCHANGED <<def, local, kernel, nm, created>>

\* Lines 868-896: capturing from another interface, the parent is brought
\* down unless ignoreprimary=true; a failure is fatal.
BringDownParent ==
    /\ pc = "down"
    /\ IF cap # Parent /\ ~def.ignorePrimary
          THEN \/ up' = up \ {Parent} /\ Goto("up")
               \/ Fail /\ UNCHANGED up
          ELSE Goto("up") /\ UNCHANGED up
    /\ UNCHANGED <<def, local, exists, kmode, sameMac, rfkill, nm, created>>

\* (mutant) bring-up assumed to succeed without the interface existing
BringUpCapUnchecked ==
    /\ pc = "up"
    /\ up' = up \cup {cap}
    /\ Goto("pcap")
    /\ UNCHANGED <<def, local, exists, kmode, sameMac, rfkill, nm, created>>

\* ifconfig_interface_up(cap_interface); it fails for a missing interface.
BringUpCap ==
    /\ pc = "up"
    /\ \/ /\ cap \in exists
          /\ up' = up \cup {cap}
          /\ Goto("pcap")
       \/ Fail /\ UNCHANGED up
    /\ UNCHANGED <<def, local, exists, kmode, sameMac, rfkill, nm, created>>

\* populate_chanlist (never fatal: it returns 0 or 1) and pcap_open_live on
\* the capture interface, which may fail or leave a warning in the error
\* buffer; both count as failure.
OpenPcap ==
    /\ pc = "pcap"
    /\ \/ Goto("ready")
       \/ Fail
    /\ UNCHANGED <<def, local, kernel, nm, created>>

\* The callback has returned; the process waits for the framework.
Returned ==
    /\ pc \in {"ready", "failed"}
    /\ UNCHANGED vars

Next ==
    \/ ParseInterface \/ GetHwaddr \/ CheckRfkill \/ GetMode \/ QuiesceNm
    \/ PickCapInterface \/ ReprobeMode \/ Connect
    \/ CreateVif \/ LegacySetMode \/ AlreadyMonitor
    \/ BringDownParent \/ BringUpCap \/ OpenPcap \/ Returned

Spec == Init /\ [][Next]_vars /\ WF_vars(Next)

-----------------------------------------------------------------------------
(* Properties.                                                              *)

TypeOK ==
    /\ pc \in Steps
    /\ def \in [hasIface : BOOLEAN, vif : BOOLEAN, ignorePrimary : BOOLEAN,
                longName : BOOLEAN]
    /\ cap \in Names \cup {NoIface}
    /\ mode \in Modes \cup {"unknown"}
    /\ handle \in BOOLEAN
    /\ useMac80211 \in {0, 1}
    /\ resetNm \in BOOLEAN
    /\ exists \in SUBSET Names
    /\ kmode \in [Names -> Modes]
    /\ up \in SUBSET Names
    /\ sameMac \in SUBSET Names
    /\ rfkill \in Rfkill
    /\ nm \in NmStates
    /\ created \in SUBSET Names

(* When open_callback reports success, the interface pcap captures from     *)
(* exists and is up, and when that is a vif the parent has been brought    *)
(* down unless ignoreprimary=true: the state BRING_UP must leave behind     *)
(* whichever of the vif, adopt or legacy paths was taken.                  *)
CaptureReady ==
    pc = "ready" =>
        /\ cap \in exists
        /\ cap \in up
        /\ (cap # Parent /\ ~def.ignorePrimary) => Parent \notin up

(* Spec 4.3: whatever path is taken, a successful open captures from an     *)
(* interface in monitor mode.                                               *)
CaptureIsMonitor ==
    pc = "ready" => kmode[cap] = "monitor"

(* Spec 4.3 (VIF_FAIL -> LEGACY_SETMODE -> LEGACY_OK -> BRING_UP) and the   *)
(* message at lines 823-825 ("will continue using this interface as the    *)
(* capture source"): once the monitor step has succeeded, the capture      *)
(* interface exists.                                                        *)
CaptureExistsAfterMonitor ==
    pc \in {"down", "up", "pcap", "ready"} => cap \in exists

(* Spec 4.2: when the netlink path is abandoned the state records           *)
(* use_netlink = false, so that a successful open never leaves the channel *)
(* controller using mac80211 without a netlink handle.                      *)
UsableBackend ==
    pc = "ready" => (useMac80211 = 1 => handle)

=============================================================================
