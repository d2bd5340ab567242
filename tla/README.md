# TLA+ models of capture_linux_wifi

This directory holds the formal models of `src/capture_linux_wifi.c`, the
Linux Wi-Fi capture helper. It has TLC runs that check the models on small
instances and TLAPS proofs that cover every instance.

## The system

The helper is one process spawned by a parent capture framework. Its parts
are listed below with their source lines.

| Part | Code | Role |
|---|---|---|
| Channel Grammar | `chantranslate_callback` 221-379, `local_channel_to_str` 384-423 | parses and prints channel strings against the HT/VHT table |
| Wireless Control Adapter | `ifconfig_*`, `iwconfig_*`, `mac80211_*`, rfkill (not in this repository) | the kernel calls |
| Interface Preparer | `open_callback` 499-936, `find_interface_mode_by_mac` 170-202, `find_next_ifnum` 204-216 | turns the named interface into a capture interface in monitor mode |
| Channel Controller | `chancontrol_callback` 1009-1112 | tunes the radio for the hop timer (seqno 0) and for CONFIGURE commands |
| Capture Loop | `pcap_dispatch_cb`, `capture_thread` 1114-1182 | forwards packets to the framework, with backpressure |
| Process Lifecycle | `main` 1184-1288 | initialises `local_wifi`, registers the callbacks, restores NetworkManager at exit |
| List/probe | `list_callback` 938-1005, `probe_callback` 468-497, `populate_chanlist` 425-466 | read-only queries |

The parts interact like this:

- The framework calls `open_callback` once.
- It then starts the capture thread.
- While the capture runs, it calls `chancontrol_callback` from two places: the hop timer and the CONFIGURE handler.
- `open_callback` leaves `cap_interface`, `use_mac80211` and `mac80211_handle` behind. The channel controller reads all three.
- The framework turns every configured channel string into a descriptor with `chantranslate_callback`. `chancontrol_callback` prints a descriptor back with `local_channel_to_str` in its configure-response.
- `open_callback` may take the parent away from NetworkManager. `main` hands it back after `cf_handler_loop` returns.

## Modules

### `WifiOpen`: the interface preparer

`open_callback` runs on the main thread and is never re-entered. The model
therefore treats it as one sequence of steps, and `pc` names the next step.

The process variables are:

- `cap` (`cap_interface`)
- `mode` (the local `mode`)
- `handle` (whether `mac80211_handle` is non-NULL)
- `useMac80211`
- `resetNm`

The kernel variables are:

- `exists`
- `kmode`
- `up`
- `sameMac` (the interfaces with the parent's address)
- `rfkill`
- `nm` (NetworkManager's view of the parent)

Interface names are model values for the names the code can compute: the
parent, `<parent>mon`, the `vif=` name and `kismonN`. The definition's flags
are stored in `def`.

Each kernel call is a nondeterministic choice. A call may fail, and it
always fails when the interface it needs does not exist. A mode change is
refused while the interface is up.

There is one action per step, and each follows the code's early returns:

- `ParseInterface`
- `GetHwaddr`
- `CheckRfkill`
- `GetMode` (line 593; a failure is fatal)
- `QuiesceNm`
- `PickCapInterface` (lines 656-720; one disjunct per way of choosing the name)
- `ReprobeMode` (line 728)
- `Connect`
- `CreateVif`, `LegacySetMode` and `AlreadyMonitor` (the three branches at lines 750, 842 and 861)
- `BringDownParent`
- `BringUpCap`
- `OpenPcap`

What is abstracted away:

- the fcsfail/plcpfail flag array;
- message texts;
- the datalink type;
- `populate_chanlist`, which never returns a negative value and so cannot fail the open.

### `ChanControl`: the channel controller

This module models `chancontrol_callback` with its two backends:

- The legacy iwconfig branch. It is dead code, because `use_mac80211` is never 0, but it is kept.
- The mac80211 branch.

A set with a non-NULL handle succeeds or fails. A set with a NULL handle
fails or crashes the process.

The callers are `Hop` (seqno 0) and `Configure`. They are the part of the
framework that the code relies on, and they are modelled from the spec,
because `capture_framework.c` is not in this repository:

- a hop that returns -1 after `cf_send_error` ends the source;
- a CONFIGURE whose callback returns a negative value is answered with a failure.

There are also history variables:

- `hopStreak` counts the consecutive failed hops;
- `setOk` records whether each CONFIGURE's tune succeeded;
- `answers` records the configure-responses sent for each seqno.

### `ChanGrammar`: the channel grammar

This module models `chantranslate_callback` and `local_channel_to_str` as operators.

A channel string is abstracted to what the two `sscanf` patterns read from it:

- the leading number, or none;
- the characters up to the first `-`, as a sequence of one-character strings;
- whether a `-` follows;
- the number after it.

`%uHT40%c` matches `HT40` case-sensitively, and `%c` reads the character after it. `strcasecmp` is modelled by case folding.

The three table searches have no `break`, and the model keeps that:

- The HT40 searches count one INFO message per matching entry that lacks the flag.
- The VHT search returns NULL at the first matching entry that lacks the flag. Otherwise it takes the last match. With no match it leaves `center_freq1 = 0`.

The table (`wifi_ht_channels.h`) and `MAX_WIFI_HT_CHANNEL` are not in this repository, so both are constants. The HT40- search is bounded by `MAX_WIFI_HT_CHANNEL`. Entries it reads past the end of the table are a nondeterministic choice, which models the undefined read.

The state machine is the use of the two operators: translate a configured string, print the descriptor into a configure-response (line 1056), and translate the printed text again.

### `CaptureLoop` and `Forwarder`: the capture loop

`CaptureLoop` models `pcap_dispatch_cb` and `capture_thread`. `cpc` is the thread's place:

- `loop`: in `pcap_loop`;
- `send`: a pass of the callback's `while (1)`;
- `wait`: in `cf_handler_wait_ringbuffer`;
- `exit`, `done`.

Its actions are:

- `Deliver`;
- `SendOk`, `SendFull`, `SendFailed`: the three results of `cf_send_data`;
- `WaitRingbuffer`;
- `LoopEnds` and `ThreadExit`: the post-loop flags probe and its two diagnostics.

`SendFailed` keeps `cpc = "send"`, because the code has no `break` after it (line 1133).

The framework side is modelled from the spec, because `capture_framework.c` is not in this repository:

- `cf_send_data` returns 1 while the ring buffer has room, 0 when it is full, and -1 once the source spins down;
- the wait returns when a frame is drained or the source spins down;
- the main loop drains until spin-down.

`Forwarder` is the abstract specification: packets are read one at a time, each is forwarded once before the next is read, and the loop may stop. `CaptureLoop` maps onto it with `read <- got`, `fwd <- sentOk`, and `active` meaning "in the loop and no break requested".

### `Lifecycle`: the process

`Lifecycle` extends `CaptureLoop` with `main`. Its steps are:

1. `cf_handler_init` and `cf_handler_parse_opts`. Either may fail, and the process returns.
2. `cf_handler_loop`.
3. Inside the loop, `open_callback`'s NetworkManager step (lines 603-652). It records `reset_nm_management` and unmanages a managed parent. The open may fail before or after this step.
4. The NetworkManager restore at exit (lines 1254-1277).
5. The `while (1)` park.

The capture thread runs once the open succeeds, and nothing in `main` stops it. Each NetworkManager session may or may not reach the parent's device, which stands for `nm_client_new` failing, NetworkManager not running, or the device not being listed. `nmAtStart` is a history variable.

## Runs

| Run | cfg | Expect | Shows |
|---|---|---|---|
| open_ready | `MC_WifiOpen_ready.cfg` | pass | `CaptureReady`: after every successful open the capture interface exists and is up, and the parent of a vif is down unless ignoreprimary. About 2.56M distinct states. |
| open_monitor | `MC_WifiOpen_monitor.cfg` | violation | an open can succeed on a non-monitor interface: the probe at line 700 fails, or line 728 probes the parent |
| open_legacy | `MC_WifiOpen_legacy.cfg` | violation | after the legacy fallback at 806-833, `cap_interface` names a vif that was never created |
| open_backend | `MC_WifiOpen_backend.cfg` | violation | `use_mac80211 = 1` with a NULL handle after a successful open |
| chan_policy | `MC_ChanControl_policy.cfg` | pass | every failed CONFIGURE is answered exactly once with a failure, and no CONFIGURE is answered twice |
| chan_escalate | `MC_ChanControl_escalate.cfg` | violation | hop failures never escalate, because `seq_channel_failure` is never incremented |
| chan_answered | `MC_ChanControl_answered.cfg` | violation | a successful CONFIGURE on the mac80211 path is never answered |
| process_capture | `MC_Lifecycle.cfg` | pass | `ForwarderSpec` (the loop implements `Forwarder`: no drops, no duplicates), `PacketsForwarded` (a packet held by a full ring buffer is sent unless the source spins down), `NmLeftAsFound` (NetworkManager gets the parent back as found) |
| capture_stuck | `MC_CaptureLoop_stuck.cfg` | violation | after a send error the capture thread never finishes: `pcap_dispatch_cb` has no `break` (line 1133) |
| grammar_roundtrip | `MC_ChanGrammar_roundtrip.cfg` | pass | `RoundTrip`: every descriptor prints to a string that parses back to it without error; `HT40Diagnosed`: a listed HT40 channel gets an INFO message exactly when the table lacks the flag |
| grammar_wellformed | `MC_ChanGrammar_wellformed.cfg` | violation | `14VHT80`, a channel the table does not list, becomes an 80 MHz descriptor with `center_freq1 = 0` (spec 3 requires a center) |
| grammar_case | `MC_ChanGrammar_case.cfg` | violation | `1ht40-` parses as plain channel 1, because the `HT40` literal of `sscanf` is case-sensitive (spec 4.1 says suffixes are case-insensitive) |

The eight violations are recorded as findings in `PROJECT.json`. Every property of a passing run has a mutant in `PROJECT.json` that TLC catches.

### Bounds

**WifiOpen** uses two `kismon` names, which is enough to reach both outcomes of `find_next_ifnum`:

- a free name is found;
- every name is taken, and the open must fail.

The initial kernel state ranges over every subset of existing interfaces,
every mode assignment, every same-MAC set, every rfkill state and every
NetworkManager state, with all flags of the definition. This is how every
branch of `open_callback` is reached.

**ChanControl** uses two channels, two CONFIGUREs and `HopTolerance = 10`
(the code's constant). With these values a run of 11 failed hops is
reachable, which the escalation property needs.

**CaptureLoop and Lifecycle** use `MaxPackets = 3` and `BufCap = 2`. These values let the buffer fill, the thread wait and a retry succeed after a drain, with one packet still to come. They also reach a spin-down or interface loss at every point.

**ChanGrammar** uses a five-entry table. The table has:

- 2.4 GHz channels with only HT40+ (1) or only HT40- (13);
- 5 GHz channels with VHT80 and VHT160 (36), and with VHT80 only (40);
- a last entry with no flags (165), which is what an off-by-one in the HT40- bound would skip.

The leading numbers are channel numbers, a frequency (5180), and 14, which the table does not list. The suffixes are the canonical ones, lower- and mixed-case variants, `HT40x` and an unknown `XY`. There is one explicit center. `MAX_WIFI_HT_CHANNEL` is set to the table's size, which the spec's open question takes as the intent.

### Fairness

`WifiOpen`'s Spec has `WF_vars(Next)`. `open_callback` is straight-line
code on one thread, so it always reaches `Returned`.

`ChanControl` assumes no fairness. Hops and commands come from the
environment.

`CaptureLoop` has weak fairness on the capture thread and on the drain. The thread is a running thread. The main loop writes queued frames while the parent reads. Packet arrival, spin-down and interface loss are the environment's, so they get no fairness.

`Lifecycle` adds weak fairness on `main`, which is a single thread.

## Proofs

Four modules hold TLAPS proofs. Each proof covers every value of the constants.

`WifiOpenProofs` proves two theorems for every choice of distinct names:

- `TypeCorrect`: `Spec => []TypeOK`.
- `CaptureReadyHolds`: `Spec => []CaptureReady`.

The only assumption is `NamesAssumption`: the names are distinct and the
kismon sequence is injective and non-empty.

`CaptureReady` is not inductive on its own. A step into `ready` only knows
what `OpenPcap` checks, so the invariant `IInv` adds the facts that earlier
steps establish, indexed by `pc`:

- `cap` is a name from `PickCapInterface` on;
- the parent is down from `BringDownParent` on, for a vif;
- `cap` is up from `BringUpCap` on;
- the parent always exists, and `up ⊆ exists`.

`NextIInv` has one case per action.

`ChanControlProofs` proves two theorems: `ChanTypeCorrect` and `ConfigureFailuresReportedHolds`. They rest on `ConstAssumption`.

The inductive invariant adds `Fresh`: a seqno at or after `nextSeq` has no answers yet, so a new CONFIGURE starts unanswered.

The lemma `Answered` states once what any CONFIGURE step leaves behind. The per-action cases cite it.

No passing property claims that hops tolerate failures. The code never increments `seq_channel_failure`, so such a claim would hold whatever the tolerance test says. The defect is shown instead by the violated `HopFailuresEscalate`.

`CaptureLoopProofs` proves three theorems:

- `CaptureTypeCorrect`: `Spec => []TypeOK`.
- `CaptureRefinesForwarder`: `Spec => ForwarderSpec`, for every `MaxPackets` and `BufCap`.
- `NmLeftAsFoundHolds`: `LSpec => []NmLeftAsFound`.
- `LifecycleTypeCorrect`: `LSpec => []LTypeOK`, for the whole process.
- `LifecycleRefinesForwarder`: `LSpec => ForwarderSpec`. The capture loop still implements `Forwarder` when it runs inside `main`.

The refinement needs an invariant `IInv`:

- a break request means the source is spinning down and the thread is in the callback for good;
- in `pcap_loop`, `sentOk = got`;
- in the callback, `sentOk = got - 1`.

With `IInv`, `Deliver` maps to `Read`, `SendOk` to `Forward`, and `LoopEnds` or a first `SendFailed` to `Stop`. Every other step is a stutter of the mapped variables.

`NmLeftAsFound` rests on `NInv`:

- nothing is recorded before the open;
- without a record NetworkManager is as found;
- a record implies the parent was managed at start;
- only the restore sets `nmExit`.

The two `Lifecycle` theorems use the lemma `LNextCases`. It says that a `Lifecycle` step is a `CaptureLoop` step, or an open callback that leaves the loop's variables alone. So `IInv` and the refinement step carry over from `CaptureLoop`. `MainTypes` adds the ranges of `main`'s program counter and of the `opened` flag.

`ChanGrammarProofs` proves three theorems, for every table, bound and set of strings allowed by `GrammarAssumption`:

- `GrammarTypeCorrect`: `Spec => []TypeOK`.
- `RoundTripHolds`: `Spec => []RoundTrip`, under the hypothesis `FreqsIdentify`.
- `HT40DiagnosedHolds`: `Spec => []HT40Diagnosed`, under the hypothesis `MaxHtChannel = Len(HtTable)`.

Both hypotheses are about the table in `wifi_ht_channels.h`, which is not in this repository. They are stated in the theorems and not assumed:

- `FreqsIdentify`: a frequency of the table matches only its own entry, and no channel number is also a frequency. The VHT search prints the frequency of the last entry it matched. Reparsing that frequency must find the same entry. TLC checks that the model's table satisfies it.
- `MaxHtChannel = Len(HtTable)`: this is the open question on the HT40- loop bound. With a larger bound the search reads past the table, and with a smaller one it misses entries.

The inductive invariant `GInv` says, for each phase:

- which `ParseChan` call produced `res` and `res2`;
- that `printed` is `ChannelToStr(res.ch)`;
- that `res` is in `GoodResults`: a descriptor with an explicit center has a center that the string gave.

The last fact is needed because `local_channel_to_str` prints that center. Without it, the printed string could fall outside the type.

Three lemmas carry these proofs:

- `RoundTripStep`, one configure-response, by a case for each branch of `chantranslate_callback`;
- `VhtRoundTrip`, the VHT branch, which needs `FreqsIdentify`;
- `HT40Step`, which counts the INFO messages with the finite-set theorems.

`TypeOK` bounds a printed word by the configured words and the seven suffixes `local_channel_to_str` writes (`PrintedWords`). This is sharper than `Seq(STRING)`. It is also within the provers' reach, which cannot show that a string literal is in `STRING`.

## Only model-checked, or not modelled

These properties are only model-checked:

- liveness (`PacketsForwarded`, and the violated `SendErrorEndsThread`), which TLAPS cannot prove.

Tables that break the hypotheses of `RoundTripHolds` and `HT40DiagnosedHolds` are neither proved nor model-checked. TLC's table meets both hypotheses.

These parts are not modelled:

- **`list_callback`, `probe_callback` and `populate_chanlist`.** These are read-only queries. `list_callback` also has a memory-safety bug at line 971 (a size cast to a pointer), which is outside the state these models keep.
- **The rest of `open_callback` inside `Lifecycle`.** It is kept in `WifiOpen`. Composing the two would multiply `WifiOpen`'s 2.56M states.
- **The framework's teardown of the capture thread.** `main` frees the handle at line 1282 while the capture thread may still run, for example stuck after a send error. Whether `cf_handler_loop` or `cf_handler_free` joins or cancels the thread is decided in `capture_framework.c`, which is not in this repository. This is listed as a hazard without a property.
- **A channel missing from the table under HT40±.** Spec 4.1 asks for an INFO message when the channel is not listed with the flag. The code emits one only for a listed channel without the flag, so an unlisted channel gets none. `HT40Diagnosed` therefore speaks only of listed channels.
