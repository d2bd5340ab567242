----------------------------- MODULE ChanControl -----------------------------
(***************************************************************************)
(* The channel controller of capture_linux_wifi: chancontrol_callback, as  *)
(* the capture framework calls it from the channel-hop timer (seqno = 0)   *)
(* and for CONFIGURE commands of the parent (seqno # 0).                    *)
(*                                                                         *)
(* The backend fields are whatever open_callback left: use_mac80211 is 1   *)
(* (main's initialiser; nothing ever sets it to 0) and the netlink handle  *)
(* may be NULL (WifiOpen shows both).  A channel set through mac80211 with *)
(* a handle may succeed or fail (drivers refuse tunes transiently); with a *)
(* NULL handle the library call cannot reach the kernel: it fails or, on   *)
(* the NULL socket, crashes the process.                                   *)
(*                                                                         *)
(* What the framework does around the callback is modelled from the spec   *)
(* (capture_framework.c is not part of this repository): a negative return *)
(* of a CONFIGURE is answered with a failed configure-response, and a hop  *)
(* that returns -1 after cf_send_error ends the source.                    *)
(***************************************************************************)
EXTENDS Naturals, Sequences

CONSTANTS
    Chans,          \* the parsed channels the hop list and commands carry
    MaxConfigures,  \* bound on the CONFIGURE commands of a behaviour
    HopTolerance    \* the 10 of "seq_channel_failure < 10"

ASSUME ConstAssumption ==
    /\ Chans # {}
    /\ MaxConfigures \in Nat
    /\ HopTolerance \in Nat \ {0}

NoChan == "nochan"
Seqnos == 1..MaxConfigures
\* the cap on the count of consecutive failed hops kept by the model
MaxStreak == HopTolerance + 1

VARIABLES
    useMac80211,  \* local_wifi->use_mac80211
    handle,       \* local_wifi->mac80211_handle # NULL
    seqFailure,   \* local_wifi->seq_channel_failure
    tuned,        \* the radio's channel
    hopStreak,    \* history: consecutive failed hops since the last success
    nextSeq,      \* the seqno of the next CONFIGURE command
    answers,      \* the configure-responses sent for each seqno
    setOk,        \* history: whether the set of each CONFIGURE succeeded
    terminal,     \* cf_send_error has ended the source
    crashed       \* the process died inside the netlink library

vars == <<useMac80211, handle, seqFailure, tuned, hopStreak, nextSeq,
          answers, setOk, terminal, crashed>>

Init ==
    /\ useMac80211 = 1
    /\ handle \in BOOLEAN
    /\ seqFailure = 0
    /\ tuned = NoChan
    /\ hopStreak = 0
    /\ nextSeq = 1
    /\ answers = [s \in Seqnos |-> <<>>]
    /\ setOk = [s \in Seqnos |-> FALSE]
    /\ terminal = FALSE
    /\ crashed = FALSE

-----------------------------------------------------------------------------
(* chancontrol_callback(seqno, chan).                                      *)

\* The outcomes of the channel set the callback makes (lines 1020-1022 and
\* 1063-1080): iwconfig_set_channel on the legacy path, else
\* mac80211_set_frequency_cache for an explicit width and
\* mac80211_set_channel_cache otherwise, both through the cached handle.
SetResults ==
    IF useMac80211 = 0 \/ handle THEN {"ok", "fail"} ELSE {"fail", "crash"}

\* (mutant) the seqno test dropped
ToleratedAnySeqno(seqno) == seqFailure < HopTolerance

\* The failure branch (lines 1033-1049 and 1088-1104): a hop failure with
\* fewer than 10 recorded failures is only reported; otherwise the callback
\* returns -1, after cf_send_error when it is a hop.
Tolerated(seqno) == seqFailure < HopTolerance /\ seqno = 0

\* (mutant) a failed set decrements seq_channel_failure instead of keeping it
ChanControlCountDown(seqno, chan, r) ==
    /\ r = "crash"
       => crashed' = TRUE /\ UNCHANGED <<seqFailure, tuned, answers, terminal>>
    /\ r = "ok"
       => /\ seqFailure' = 0 /\ tuned' = chan /\ UNCHANGED <<terminal, crashed>>
          /\ answers' = IF seqno # 0 /\ useMac80211 = 0
                           THEN [answers EXCEPT ![seqno] = Append(@, "ok")]
                           ELSE answers
    /\ r = "fail"
       => /\ seqFailure' = seqFailure - 1 /\ UNCHANGED <<tuned, crashed>>
          /\ IF Tolerated(seqno) THEN UNCHANGED <<answers, terminal>>
             ELSE IF seqno = 0 THEN terminal' = TRUE /\ UNCHANGED answers
             ELSE answers' = [answers EXCEPT ![seqno] = Append(@, "fail")]
                  /\ UNCHANGED terminal

\* One call of the callback, with the framework's reaction to its result.
ChanControl(seqno, chan, r) ==
    /\ r = "crash"
       => /\ crashed' = TRUE
          /\ UNCHANGED <<seqFailure, tuned, answers, terminal>>
    /\ r = "ok"
       => /\ seqFailure' = 0
          /\ tuned' = chan
          \* only the legacy path answers a successful CONFIGURE
          /\ answers' = IF seqno # 0 /\ useMac80211 = 0
                           THEN [answers EXCEPT ![seqno] = Append(@, "ok")]
                           ELSE answers
          /\ UNCHANGED <<terminal, crashed>>
    /\ r = "fail"
       => /\ UNCHANGED <<seqFailure, tuned, crashed>>
          /\ IF Tolerated(seqno)
                THEN UNCHANGED <<answers, terminal>>
                ELSE IF seqno = 0
                   THEN terminal' = TRUE /\ UNCHANGED answers
                   ELSE answers' = [answers EXCEPT ![seqno] = Append(@, "fail")]
                        /\ UNCHANGED terminal

\* The hop timer tunes the next channel of the hop list.
Hop ==
    /\ ~terminal /\ ~crashed
    /\ hopStreak < MaxStreak
    /\ \E chan \in Chans, r \in SetResults :
          /\ ChanControl(0, chan, r)
          /\ hopStreak' = IF r = "ok" THEN 0 ELSE hopStreak + 1
    /\ UNCHANGED <<useMac80211, handle, nextSeq, setOk>>

\* A CONFIGURE command of the parent carrying one channel.
Configure ==
    /\ ~terminal /\ ~crashed
    /\ nextSeq \in Seqnos
    /\ \E chan \in Chans, r \in SetResults :
          /\ ChanControl(nextSeq, chan, r)
          /\ setOk' = [setOk EXCEPT ![nextSeq] = (r = "ok")]
          /\ hopStreak' = IF r = "ok" THEN 0 ELSE hopStreak
    /\ nextSeq' = nextSeq + 1
    /\ UNCHANGED <<useMac80211, handle>>

\* The source has ended, or the commands of the behaviour are spent: the
\* process parks until the parent kills it.
Parked ==
    /\ terminal \/ crashed \/ nextSeq \notin Seqnos
    /\ UNCHANGED vars

Next == Hop \/ Configure \/ Parked

Spec == Init /\ [][Next]_vars

-----------------------------------------------------------------------------
(* Properties.                                                              *)

TypeOK ==
    /\ useMac80211 \in {0, 1}
    /\ handle \in BOOLEAN
    /\ seqFailure \in Nat
    /\ tuned \in Chans \cup {NoChan}
    /\ hopStreak \in 0..MaxStreak
    /\ nextSeq \in 1..MaxConfigures + 1
    /\ answers \in [Seqnos -> Seq({"ok", "fail"})]
    /\ setOk \in [Seqnos -> BOOLEAN]
    /\ terminal \in BOOLEAN
    /\ crashed \in BOOLEAN

(* Spec 4.4: explicit requests are honest about failure.  Every CONFIGURE   *)
(* whose tune failed is answered, exactly once, with a failure, and none is *)
(* ever answered twice.                                                     *)
ConfigureFailuresReported ==
    \A s \in 1..nextSeq - 1 :
        /\ Len(answers[s]) <= 1
        /\ (~setOk[s] /\ ~crashed) => answers[s] = <<"fail">>

(* Spec 4.4: "When the counter reaches 10 during hopping, escalate to a     *)
(* terminal error": no more than HopTolerance consecutive hop failures are  *)
(* tolerated.                                                               *)
HopFailuresEscalate ==
    hopStreak > HopTolerance => terminal

(* Spec 4.4: on success with seqno # 0 a configure-response carrying the    *)
(* channel is emitted: every CONFIGURE whose tune succeeded is answered.    *)
ConfigureSuccessAnswered ==
    \A s \in 1..nextSeq - 1 : setOk[s] => answers[s] = <<"ok">>

=============================================================================
