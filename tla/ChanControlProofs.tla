-------------------------- MODULE ChanControlProofs --------------------------
(***************************************************************************)
(* Proofs about ChanControl for every channel set, bound on CONFIGUREs and *)
(* hop tolerance: chancontrol_callback with the framework around it is     *)
(* type-correct, and answers every failed CONFIGURE exactly once.          *)
(*                                                                         *)
(* The answer property is not inductive alone: it needs that CONFIGUREs    *)
(* not yet issued have no answer.  The proof uses neither the counter's    *)
(* value nor the backend.                                                   *)
(***************************************************************************)
EXTENDS ChanControl, TLAPS

\* No CONFIGURE not yet issued has an answer.
Fresh == \A s \in Seqnos : s >= nextSeq => answers[s] = <<>>

IInv ==
    /\ TypeOK
    /\ Fresh
    /\ ConfigureFailuresReported

LEMMA InitIInv == Init => IInv
<1> SUFFICES ASSUME Init PROVE IInv
    OBVIOUS
<1> USE DEF Init, IInv, Fresh
<1>1. answers \in [Seqnos -> Seq({"ok", "fail"})]
    <2>1. <<>> \in Seq({"ok", "fail"})
        OBVIOUS
    <2>2. QED
        BY <2>1
<1>2. TypeOK
    <2>1. hopStreak \in 0..MaxStreak /\ nextSeq \in 1..MaxConfigures + 1
        BY ConstAssumption DEF MaxStreak
    <2>2. handle \in BOOLEAN /\ terminal \in BOOLEAN /\ crashed \in BOOLEAN
        BY Zenon
    <2>3. setOk \in [Seqnos -> BOOLEAN]
        OBVIOUS
    <2>4. QED
        BY <1>1, <2>1, <2>2, <2>3 DEF TypeOK
<1>3. \A s \in Seqnos : s >= nextSeq => answers[s] = <<>>
    OBVIOUS
<1>4. ConfigureFailuresReported
    BY DEF ConfigureFailuresReported
<1>5. QED
    BY <1>2, <1>3, <1>4

\* The results a channel set can have.
LEMMA SetResultsType == SetResults \subseteq {"ok", "fail", "crash"}
BY DEF SetResults

\* The typing of one call of the callback, whatever its result: the
\* counter stays a natural, the radio is on a channel of Chans, and the
\* answer to a CONFIGURE grows by one of "ok" and "fail".
LEMMA ChanControlType ==
    ASSUME TypeOK, NEW seqno \in {0} \cup Seqnos, NEW chan \in Chans,
           NEW r \in SetResults, ChanControl(seqno, chan, r),
           UNCHANGED <<useMac80211, handle>>
    PROVE  /\ seqFailure' \in Nat
           /\ tuned' \in Chans \cup {NoChan}
           /\ answers' \in [Seqnos -> Seq({"ok", "fail"})]
           /\ terminal' \in BOOLEAN /\ crashed' \in BOOLEAN
<1> USE DEF TypeOK
<1>0. \A x \in Seq({"ok", "fail"}), e \in {"ok", "fail"} :
          Append(x, e) \in Seq({"ok", "fail"})
    OBVIOUS
<1>1. CASE r = "ok"
    <2>1. /\ seqFailure' \in Nat /\ tuned' \in Chans \cup {NoChan}
          /\ terminal' \in BOOLEAN /\ crashed' \in BOOLEAN
        BY <1>1 DEF ChanControl
    <2>2. CASE seqno # 0 /\ useMac80211 = 0
        <3>1. answers' = [answers EXCEPT ![seqno] = Append(answers[seqno], "ok")]
            BY <1>1, <2>2 DEF ChanControl
        <3>2. QED
            BY <1>0, <2>1, <3>1
    <2>3. CASE ~(seqno # 0 /\ useMac80211 = 0)
        <3>1. answers' = answers
            BY <1>1, <2>3 DEF ChanControl
        <3>2. QED
            BY <2>1, <3>1
    <2>4. QED
        BY <2>2, <2>3
<1>2. CASE r = "fail"
    <2>1. /\ seqFailure' \in Nat /\ tuned' \in Chans \cup {NoChan}
          /\ crashed' \in BOOLEAN
        BY <1>2 DEF ChanControl
    <2>2. CASE Tolerated(seqno)
        BY <1>2, <2>1, <2>2 DEF ChanControl
    <2>3. CASE ~Tolerated(seqno) /\ seqno = 0
        BY <1>2, <2>1, <2>3 DEF ChanControl
    <2>4. CASE ~Tolerated(seqno) /\ seqno # 0
        <3>1. answers' = [answers EXCEPT ![seqno] = Append(answers[seqno], "fail")]
              /\ terminal' = terminal
            BY <1>2, <2>4 DEF ChanControl
        <3>2. QED
            BY <1>0, <2>1, <3>1
    <2>5. QED
        BY <2>2, <2>3, <2>4
<1>3. CASE r = "crash"
    BY <1>3 DEF ChanControl
<1>4. QED
    BY <1>1, <1>2, <1>3, SetResultsType

LEMMA TypeNext == TypeOK /\ [Next]_vars => TypeOK'
<1> SUFFICES ASSUME TypeOK, [Next]_vars PROVE TypeOK'
    OBVIOUS
<1>1. CASE Hop
    <2> PICK chan \in Chans, r \in SetResults :
                /\ ChanControl(0, chan, r)
                /\ hopStreak' = IF r = "ok" THEN 0 ELSE hopStreak + 1
        BY <1>1 DEF Hop
    <2>1. hopStreak' \in 0..MaxStreak
        BY <1>1, ConstAssumption DEF Hop, TypeOK, MaxStreak
    <2>2. QED
        BY <1>1, <2>1, ChanControlType DEF Hop, TypeOK
<1>2. CASE Configure
    <2> PICK chan \in Chans, r \in SetResults :
                /\ ChanControl(nextSeq, chan, r)
                /\ setOk' = [setOk EXCEPT ![nextSeq] = (r = "ok")]
                /\ hopStreak' = IF r = "ok" THEN 0 ELSE hopStreak
        BY <1>2 DEF Configure
    <2>1. nextSeq \in Seqnos /\ nextSeq' = nextSeq + 1
        BY <1>2 DEF Configure
    <2>2. hopStreak' \in 0..MaxStreak /\ nextSeq' \in 1..MaxConfigures + 1
        BY <2>1, ConstAssumption DEF TypeOK, MaxStreak, Seqnos
    <2>3. setOk' \in [Seqnos -> BOOLEAN]
        BY <2>1 DEF TypeOK
    <2>4. QED
        BY <1>2, <2>1, <2>2, <2>3, ChanControlType DEF Configure, TypeOK
<1>3. CASE Parked \/ UNCHANGED vars
    BY <1>3 DEF Parked, vars, TypeOK
<1>4. QED
    BY <1>1, <1>2, <1>3 DEF Next

\* A CONFIGURE with the fresh seqno nextSeq changes only its own answer and
\* outcome; the invariants on the answers survive when that answer is at
\* most one message, a failure unless the tune succeeded or the process
\* crashed, and a crash is never undone.
LEMMA Answered ==
    ASSUME nextSeq \in Seqnos, nextSeq' = nextSeq + 1,
           Fresh, ConfigureFailuresReported,
           answers \in [Seqnos -> Seq({"ok", "fail"})],
           answers' \in [Seqnos -> Seq({"ok", "fail"})],
           \A s \in Seqnos \ {nextSeq} :
               answers'[s] = answers[s] /\ setOk'[s] = setOk[s],
           Len(answers'[nextSeq]) <= 1,
           (~setOk'[nextSeq] /\ ~crashed') => answers'[nextSeq] = <<"fail">>,
           ~crashed' => ~crashed
    PROVE  Fresh' /\ ConfigureFailuresReported'
<1> USE DEF Seqnos
<1>1. Fresh'
    BY DEF Fresh
<1>2. ConfigureFailuresReported'
    <2> SUFFICES ASSUME NEW s \in 1..nextSeq
                 PROVE  /\ Len(answers'[s]) <= 1
                        /\ (~setOk'[s] /\ ~crashed') => answers'[s] = <<"fail">>
        BY DEF ConfigureFailuresReported
    <2>1. CASE s = nextSeq
        BY <2>1
    <2>2. CASE s # nextSeq
        <3>0. s \in Seqnos \ {nextSeq} /\ s \in 1..nextSeq - 1
            BY <2>2, ConstAssumption
        <3>1. answers'[s] = answers[s] /\ setOk'[s] = setOk[s]
              /\ s \in 1..nextSeq - 1
            BY <3>0
        <3>2. Len(answers[s]) <= 1
              /\ ((~setOk[s] /\ ~crashed) => answers[s] = <<"fail">>)
            BY <3>1 DEF ConfigureFailuresReported
        <3>3. QED
            BY <3>1, <3>2, Zenon
    <2>3. QED
        BY <2>1, <2>2
<1>3. QED
    BY <1>1, <1>2

\* The answers: a hop answers nothing, and a CONFIGURE answers its own
\* fresh seqno once, with a failure when its tune failed.
LEMMA AnswersNext ==
    ASSUME TypeOK, TypeOK', Fresh, ConfigureFailuresReported, [Next]_vars
    PROVE  Fresh' /\ ConfigureFailuresReported'
<1>0. /\ answers \in [Seqnos -> Seq({"ok", "fail"})]
      /\ answers' \in [Seqnos -> Seq({"ok", "fail"})]
      /\ setOk \in [Seqnos -> BOOLEAN]
      /\ crashed \in BOOLEAN /\ crashed' \in BOOLEAN
    BY DEF TypeOK
<1>1. CASE Hop
    <2> PICK chan \in Chans, r \in SetResults : ChanControl(0, chan, r)
        BY <1>1 DEF Hop
    <2>1. answers' = answers /\ nextSeq' = nextSeq /\ setOk' = setOk
        BY <1>1, SetResultsType DEF Hop, ChanControl, Tolerated
    <2>2. Fresh'
        BY <2>1 DEF Fresh
    <2>3. ~crashed' => ~crashed
        BY SetResultsType DEF ChanControl
    <2>4. ConfigureFailuresReported'
        BY <2>1, <2>3 DEF ConfigureFailuresReported
    <2>5. QED
        BY <2>2, <2>4
<1>2. CASE Configure
    <2> PICK chan \in Chans, r \in SetResults :
                /\ ChanControl(nextSeq, chan, r)
                /\ setOk' = [setOk EXCEPT ![nextSeq] = (r = "ok")]
        BY <1>2 DEF Configure
    <2>0. /\ nextSeq \in Seqnos /\ nextSeq # 0 /\ nextSeq' = nextSeq + 1
          /\ ~crashed /\ answers[nextSeq] = <<>>
        BY <1>2, ConstAssumption DEF Configure, Fresh, Seqnos
    <2>s. \A s \in Seqnos \ {nextSeq} : setOk'[s] = setOk[s]
        BY <1>0, <2>0
    <2>1. CASE r = "ok" /\ useMac80211 = 0
        <3>0. answers' = [answers EXCEPT ![nextSeq] = Append(answers[nextSeq], "ok")]
            BY <2>0, <2>1 DEF ChanControl
        <3>1. \A s \in Seqnos \ {nextSeq} : answers'[s] = answers[s]
            BY <1>0, <3>0
        <3>2. answers'[nextSeq] = <<"ok">>
            BY <1>0, <2>0, <3>0
        <3>3. setOk'[nextSeq]
            BY <1>0, <2>0, <2>1
        <3>4. QED
            BY <1>0, <2>0, <2>s, <3>1, <3>2, <3>3, Answered
    <2>2. CASE r = "ok" /\ useMac80211 # 0
        <3>1. answers' = answers /\ setOk'[nextSeq]
            BY <1>0, <2>0, <2>2 DEF ChanControl
        <3>2. QED
            BY <1>0, <2>0, <2>s, <3>1, Answered
    <2>3. CASE r = "fail"
        <3>0. answers' = [answers EXCEPT ![nextSeq] = Append(answers[nextSeq], "fail")]
            BY <2>0, <2>3 DEF ChanControl, Tolerated
        <3>1. /\ \A s \in Seqnos \ {nextSeq} : answers'[s] = answers[s]
              /\ answers'[nextSeq] = <<"fail">>
            BY <1>0, <2>0, <3>0
        <3>2. QED
            BY <1>0, <2>0, <2>s, <3>1, Answered
    <2>4. CASE r = "crash"
        <3>1. answers' = answers /\ crashed'
            BY <2>4 DEF ChanControl
        <3>2. QED
            BY <1>0, <2>0, <2>s, <3>1, Answered
    <2>5. QED
        BY <2>1, <2>2, <2>3, <2>4, SetResultsType
<1>3. CASE Parked \/ UNCHANGED vars
    BY <1>3 DEF Parked, vars, Fresh, ConfigureFailuresReported
<1>4. QED
    BY <1>1, <1>2, <1>3 DEF Next

LEMMA NextIInv == IInv /\ [Next]_vars => IInv'
<1> SUFFICES ASSUME IInv, [Next]_vars PROVE IInv'
    OBVIOUS
<1>1. TypeOK'
    BY TypeNext DEF IInv
<1>2. QED
    BY <1>1, AnswersNext DEF IInv

(* chancontrol_callback and the framework around it only put values of     *)
(* their types in the controller's state, for all constants.               *)
THEOREM ChanTypeCorrect == Spec => []TypeOK
BY InitIInv, NextIInv, PTL DEF Spec, IInv

(* Every CONFIGURE whose tune failed in chancontrol_callback is answered   *)
(* once with a failure, and no CONFIGURE is answered twice, for every      *)
(* bound on the commands.                                                   *)
THEOREM ConfigureFailuresReportedHolds == Spec => []ConfigureFailuresReported
BY InitIInv, NextIInv, PTL DEF Spec, IInv

=============================================================================
