-------------------------- MODULE ChanGrammarProofs --------------------------
(***************************************************************************)
(* Proofs about the channel grammar for every HT table, every bound and    *)
(* every set of channel strings: chantranslate_callback and                *)
(* local_channel_to_str are well typed, every descriptor printed into a    *)
(* configure-response parses back to itself, and HT40 channels are         *)
(* diagnosed against the table.                                            *)
(***************************************************************************)
EXTENDS ChanGrammar, FiniteSetTheorems, SequenceTheorems, WellFoundedInduction, TLAPS

\* The strings local_channel_to_str prints: a frequency from the table may
\* stand where a configured number stood, and any word of characters.
PrintedStr ==
    [num : Nums \cup TableFreqs \cup {NoNum}, word : Words \cup PrintedWords,
     dash : BOOLEAN, center : Centers \cup {NoNum}]

\* The descriptors chantranslate_callback returns: an explicit center is
\* one the string gave.
GoodDesc == {d \in Descriptors : d.unusual_center1 => d.center_freq1 \in Centers}

GoodResults == [ch : GoodDesc \cup {Null}, info : Nat, err : BOOLEAN]

(* The table as wifi_ht_channels.h has it: a frequency it lists names one  *)
(* entry, and no channel number is also a frequency, so the lookup by the  *)
(* frequency printed finds the entry the lookup by channel found.          *)
FreqsIdentify ==
    \A i, j \in 1..Len(HtTable) : Matches(HtTable[j], HtTable[i].freq) => i = j

(* The inductive invariant: what each phase has computed, in terms of the  *)
(* two operators, with the descriptor's explicit center one the string     *)
(* gave.                                                                   *)
GInv ==
    /\ TypeOK
    /\ res \in GoodResults
    /\ phase \in {"print", "reparse", "done"} =>
           /\ res.ch # Null
           /\ \E junk \in Junk : res = ParseChan(str, junk)
    /\ phase \in {"reparse", "done"} => printed = ChannelToStr(res.ch)
    /\ phase = "done" => \E junk \in Junk : res2 = ParseChan(printed, junk)


-----------------------------------------------------------------------------
(* Lemmas about the operators.                                             *)

(* A nonempty set of table indices has a last element: the entry the VHT   *)
(* search ends on exists.                                                  *)
LEMMA LastExists ==
    ASSUME NEW n \in Nat, NEW S \in SUBSET (1..n), S # {}
    PROVE  \E m \in S : \A x \in S : x <= m
<1> DEFINE T == {n - x : x \in S}
<1> DEFINE Less == {ss \in Nat \X Nat : ss[1] < ss[2]}
<1>1. T \subseteq Nat /\ T # {}
  <2>1. \A x \in S : n - x \in Nat
    OBVIOUS
  <2>. QED
    BY <2>1
<1>a. IsWellFoundedOn(Less, Nat)
  BY NatLessThanWellFounded DEF OpToRel
<1>2. PICK t \in T : \A y \in T : ~(<<y, t>> \in Less)
  BY <1>1, <1>a, WFMin
<1>3. PICK m \in S : t = n - m
  OBVIOUS
<1>4. \A x \in S : x <= m
  <2> TAKE x \in S
  <2>1. n - x \in T /\ n - x \in Nat /\ t \in Nat
    BY <1>3
  <2>2. ~(n - x < t)
    BY <1>2, <2>1
  <2>. QED
    BY <2>2, <1>3
<1>. QED
  BY <1>4

\* The entries the VHT search matches for p, and the last of them.
Hits(p) == {ci \in 1..Len(HtTable) : Matches(HtTable[ci], p)}
Last(p) == CHOOSE ci \in Hits(p) : \A cj \in Hits(p) : cj <= ci

LEMMA LastInHits ==
    ASSUME NEW p, Hits(p) # {}
    PROVE  /\ Last(p) \in Hits(p)
           /\ \A cj \in Hits(p) : cj <= Last(p)
<1>1. Len(HtTable) \in Nat /\ Hits(p) \in SUBSET (1..Len(HtTable))
  BY GrammarAssumption DEF Hits
<1>2. \E m \in Hits(p) : \A x \in Hits(p) : x <= m
  BY <1>1, LastExists
<1>. QED
  BY <1>2 DEF Last

\* ParseVht, with its search named.
LEMMA ParseVhtDef ==
    ASSUME NEW s, NEW width, NEW flag, NEW field
    PROVE  ParseVht(s, width, flag, field) =
             IF ScanSuffix(s) = 3
             THEN [ch |-> Desc(s.num, "none", width, TRUE, s.center),
                   info |-> 0, err |-> FALSE]
             ELSE IF \E ci \in Hits(s.num) : flag \notin HtTable[ci].flags
             THEN [ch |-> Null, info |-> 0, err |-> TRUE]
             ELSE IF Hits(s.num) = {}
             THEN [ch |-> Desc(s.num, "none", width, FALSE, 0),
                   info |-> 0, err |-> FALSE]
             ELSE [ch |-> Desc(HtTable[Last(s.num)].freq, "none", width, FALSE,
                               HtTable[Last(s.num)][field]),
                   info |-> 0, err |-> FALSE]
BY DEF ParseVht, Hits, Last

\* strcasecmp on the letters of the suffixes.
LEMMA UpperFacts ==
    /\ Upper("H") = "H" /\ Upper("h") = "H" /\ Upper("T") = "T" /\ Upper("t") = "T"
    /\ Upper("V") = "V" /\ Upper("v") = "V" /\ Upper("W") = "W" /\ Upper("w") = "W"
    /\ Upper("0") = "0" /\ Upper("1") = "1" /\ Upper("5") = "5"
    /\ Upper("6") = "6" /\ Upper("8") = "8"
BY DEF Upper, Fold

\* The suffixes local_channel_to_str prints.
W5w    == <<"W", "5">>
W10w   == <<"W", "1", "0">>
VHT80w  == <<"V", "H", "T", "8", "0">>
VHT160w == <<"V", "H", "T", "1", "6", "0">>

\* Each printed suffix is recognised by its own strcasecmp and no other.
LEMMA SuffixMatch ==
    /\ StrCaseEq(W5w, <<"w", "5">>)
    /\ StrCaseEq(W10w, <<"w", "1", "0">>)
    /\ StrCaseEq(VHT80w, <<"v", "h", "t", "8", "0">>)
    /\ StrCaseEq(VHT160w, <<"v", "h", "t", "1", "6", "0">>)
<1>1. StrCaseEq(W5w, <<"w", "5">>)
  BY UpperFacts DEF StrCaseEq, W5w
<1>2. StrCaseEq(W10w, <<"w", "1", "0">>)
  BY UpperFacts DEF StrCaseEq, W10w
<1>3. StrCaseEq(VHT80w, <<"v", "h", "t", "8", "0">>)
  BY UpperFacts DEF StrCaseEq, VHT80w
<1>4. StrCaseEq(VHT160w, <<"v", "h", "t", "1", "6", "0">>)
  BY UpperFacts DEF StrCaseEq, VHT160w
<1>. QED
  BY <1>1, <1>2, <1>3, <1>4


(* chantranslate_callback on the strings local_channel_to_str prints: each *)
(* takes the branch that made the descriptor.                              *)
LEMMA ParsePlain ==
    ASSUME NEW p \in Nat, NEW junk
    PROVE  ParseChan(Str(p, <<>>, FALSE, NoNum), junk)
             = [ch |-> Blank(p), info |-> 0, err |-> FALSE]
<1>1. ScanHT40(Str(p, <<>>, FALSE, NoNum)) = 1 /\ ScanSuffix(Str(p, <<>>, FALSE, NoNum)) = 1
  BY DEF Str, ScanHT40, ScanSuffix, NoNum
<1>. QED
  BY <1>1 DEF ParseChan, Str

HT40Plus == <<"H", "T", "4", "0", "+">>

LEMMA ParseHT40Minus ==
    ASSUME NEW p \in Nat, NEW junk
    PROVE  /\ ParseChan(Str(p, HT40, TRUE, NoNum), junk).ch
                = Desc(p, "HT40-", "default", FALSE, 0)
           /\ ~ParseChan(Str(p, HT40, TRUE, NoNum), junk).err
<1>1. ScanHT40(Str(p, HT40, TRUE, NoNum)) = 2
  BY DEF ScanHT40, Str, HT40, NoNum
<1>2. ModChar(Str(p, HT40, TRUE, NoNum)) = "-"
  BY DEF ModChar, Str, HT40
<1>. QED
  BY <1>1, <1>2 DEF ParseChan, ParseHT40, Str

LEMMA ParseHT40Plus ==
    ASSUME NEW p \in Nat, NEW junk
    PROVE  /\ ParseChan(Str(p, HT40Plus, FALSE, NoNum), junk).ch
                = Desc(p, "HT40+", "default", FALSE, 0)
           /\ ~ParseChan(Str(p, HT40Plus, FALSE, NoNum), junk).err
<1>1. ScanHT40(Str(p, HT40Plus, FALSE, NoNum)) = 2
  BY DEF ScanHT40, Str, HT40, HT40Plus, NoNum
<1>2. ModChar(Str(p, HT40Plus, FALSE, NoNum)) = "+"
  BY DEF ModChar, Str, HT40Plus
<1>3. "+" # "-"
  OBVIOUS
<1>. QED
  BY <1>1, <1>2, <1>3 DEF ParseChan, ParseHT40, Str

\* The printed width suffixes skip the HT40 branch and reach ParseSuffix.
LEMMA ReachSuffix ==
    ASSUME NEW p \in Nat, NEW junk, NEW w \in {W5w, W10w, VHT80w, VHT160w},
           NEW dash, NEW c
    PROVE  ParseChan(Str(p, w, dash, c), junk) = ParseSuffix(Str(p, w, dash, c))
<1>1. ScanHT40(Str(p, w, dash, c)) # 2
  BY DEF ScanHT40, Str, HT40, NoNum, W5w, W10w, VHT80w, VHT160w
<1>2. ~(ScanSuffix(Str(p, w, dash, c)) <= 0) /\ ScanSuffix(Str(p, w, dash, c)) # 1
  BY DEF ScanSuffix, Str, NoNum, W5w, W10w, VHT80w, VHT160w
<1>. QED
  BY <1>1, <1>2, Zenon DEF ParseChan

LEMMA ParseW5 ==
    ASSUME NEW p \in Nat, NEW junk
    PROVE  ParseChan(Str(p, W5w, FALSE, NoNum), junk)
             = [ch |-> Desc(p, "none", "5", FALSE, 0), info |-> 0, err |-> FALSE]
<1>1. ParseChan(Str(p, W5w, FALSE, NoNum), junk) = ParseSuffix(Str(p, W5w, FALSE, NoNum))
  <2>1. NoNum \in Nat \cup {NoNum} /\ FALSE \in BOOLEAN /\ W5w \in {W5w, W10w, VHT80w, VHT160w}
    OBVIOUS
  <2>. QED
    BY <2>1, ReachSuffix, Zenon
<1>. QED
  BY <1>1, SuffixMatch, Zenon DEF ParseSuffix, Str

LEMMA ParseW10 ==
    ASSUME NEW p \in Nat, NEW junk
    PROVE  ParseChan(Str(p, W10w, FALSE, NoNum), junk)
             = [ch |-> Desc(p, "none", "10", FALSE, 0), info |-> 0, err |-> FALSE]
<1>1. ParseChan(Str(p, W10w, FALSE, NoNum), junk) = ParseSuffix(Str(p, W10w, FALSE, NoNum))
  <2>1. NoNum \in Nat \cup {NoNum} /\ FALSE \in BOOLEAN /\ W10w \in {W5w, W10w, VHT80w, VHT160w}
    OBVIOUS
  <2>. QED
    BY <2>1, ReachSuffix, Zenon
<1>2. ~StrCaseEq(W10w, <<"w", "5">>)
  BY DEF StrCaseEq, W10w
<1>. QED
  BY <1>1, <1>2, SuffixMatch, Zenon DEF ParseSuffix, Str

LEMMA ParseVHT80 ==
    ASSUME NEW p \in Nat, NEW junk, NEW dash, NEW c
    PROVE  ParseChan(Str(p, VHT80w, dash, c), junk)
             = ParseVht(Str(p, VHT80w, dash, c), "80", "HT80", "freq80")
<1>1. ParseChan(Str(p, VHT80w, dash, c), junk) = ParseSuffix(Str(p, VHT80w, dash, c))
  BY ReachSuffix
<1>2. ~StrCaseEq(VHT80w, <<"w", "5">>) /\ ~StrCaseEq(VHT80w, <<"w", "1", "0">>)
  BY DEF StrCaseEq, VHT80w
<1>. QED
  BY <1>1, <1>2, SuffixMatch, Zenon DEF ParseSuffix, Str

LEMMA ParseVHT160 ==
    ASSUME NEW p \in Nat, NEW junk, NEW dash, NEW c
    PROVE  ParseChan(Str(p, VHT160w, dash, c), junk)
             = ParseVht(Str(p, VHT160w, dash, c), "160", "HT160", "freq160")
<1>1. ParseChan(Str(p, VHT160w, dash, c), junk) = ParseSuffix(Str(p, VHT160w, dash, c))
  BY ReachSuffix
<1>2. /\ ~StrCaseEq(VHT160w, <<"w", "5">>) /\ ~StrCaseEq(VHT160w, <<"w", "1", "0">>)
      /\ ~StrCaseEq(VHT160w, <<"v", "h", "t", "8", "0">>)
  BY DEF StrCaseEq, VHT160w
<1>. QED
  BY <1>1, <1>2, SuffixMatch, Zenon DEF ParseSuffix, Str


\* The two VHT widths: printed suffix, width, table flag, center field.
VhtRow(w, width, flag, field) ==
    \/ w = VHT80w /\ width = "80" /\ flag = "HT80" /\ field = "freq80"
    \/ w = VHT160w /\ width = "160" /\ flag = "HT160" /\ field = "freq160"

LEMMA ParseVhtRow ==
    ASSUME NEW w, NEW width, NEW flag, NEW field, VhtRow(w, width, flag, field)
    PROVE  \A p \in Nat : \A junk, dash, c :
             ParseChan(Str(p, w, dash, c), junk) = ParseVht(Str(p, w, dash, c), width, flag, field)
<1> SUFFICES ASSUME NEW p \in Nat, NEW junk, NEW dash, NEW c
             PROVE  ParseChan(Str(p, w, dash, c), junk)
                      = ParseVht(Str(p, w, dash, c), width, flag, field)
  OBVIOUS
<1>1. CASE w = VHT80w /\ width = "80" /\ flag = "HT80" /\ field = "freq80"
  BY <1>1, ParseVHT80
<1>2. CASE w = VHT160w /\ width = "160" /\ flag = "HT160" /\ field = "freq160"
  BY <1>2, ParseVHT160
<1>. QED
  BY <1>1, <1>2 DEF VhtRow

LEMMA PrintVhtRow ==
    ASSUME NEW w, NEW width, NEW flag, NEW field, VhtRow(w, width, flag, field)
    PROVE  /\ \A p, c : ChannelToStr(Desc(p, "none", width, TRUE, c)) = Str(p, w, TRUE, c)
           /\ \A p, c : ChannelToStr(Desc(p, "none", width, FALSE, c)) = Str(p, w, FALSE, NoNum)
<1>1. CASE w = VHT80w /\ width = "80"
  BY <1>1 DEF ChannelToStr, WidthStr, VhtStr, Desc, VHT80w
<1>2. CASE w = VHT160w /\ width = "160"
  BY <1>2 DEF ChannelToStr, WidthStr, VhtStr, Desc, VHT160w
<1>. QED
  BY <1>1, <1>2 DEF VhtRow

\* What ParseVht returns once the explicit center is ruled out and no
\* entry for the channel lacks the flag.
LEMMA VhtLookup ==
    ASSUME NEW width, NEW flag, NEW field
    PROVE  \A s : ScanSuffix(s) # 3 /\ ~(\E ci \in Hits(s.num) : flag \notin HtTable[ci].flags)
             => /\ ParseVht(s, width, flag, field).ch
                     = IF Hits(s.num) = {} THEN Desc(s.num, "none", width, FALSE, 0)
                       ELSE Desc(HtTable[Last(s.num)].freq, "none", width, FALSE,
                                 HtTable[Last(s.num)][field])
                /\ ~ParseVht(s, width, flag, field).err
<1> SUFFICES ASSUME NEW s, ScanSuffix(s) # 3,
                    ~\E ci \in Hits(s.num) : flag \notin HtTable[ci].flags
             PROVE  /\ ParseVht(s, width, flag, field).ch
                         = IF Hits(s.num) = {} THEN Desc(s.num, "none", width, FALSE, 0)
                           ELSE Desc(HtTable[Last(s.num)].freq, "none", width, FALSE,
                                     HtTable[Last(s.num)][field])
                    /\ ~ParseVht(s, width, flag, field).err
  OBVIOUS
<1>. QED
  BY ParseVhtDef

(* A VHT descriptor prints to text that parses back to it: an explicit     *)
(* center is printed and read again; a channel the table does not list    *)
(* keeps center 0; a listed one is printed by the frequency of the last     *)
(* entry the search took, which names that entry alone.                    *)
LEMMA VhtRoundTrip ==
    ASSUME FreqsIdentify, NEW w, NEW width, NEW flag, NEW field,
           VhtRow(w, width, flag, field)
    PROVE  \A s \in Strings : \A junk :
             s.num # NoNum /\ ParseVht(s, width, flag, field).ch # Null =>
               /\ ParseChan(ChannelToStr(ParseVht(s, width, flag, field).ch), junk).ch
                    = ParseVht(s, width, flag, field).ch
               /\ ~ParseChan(ChannelToStr(ParseVht(s, width, flag, field).ch), junk).err
<1> SUFFICES ASSUME NEW s \in Strings, NEW junk, s.num # NoNum,
                    ParseVht(s, width, flag, field).ch # Null
             PROVE  /\ ParseChan(ChannelToStr(ParseVht(s, width, flag, field).ch), junk).ch
                         = ParseVht(s, width, flag, field).ch
                    /\ ~ParseChan(ChannelToStr(ParseVht(s, width, flag, field).ch), junk).err
  OBVIOUS
<1>0. /\ s.num \in Nat /\ s.center \in Centers \cup {NoNum} /\ Centers \subseteq Nat
      /\ s.dash \in BOOLEAN /\ s.word \in Seq(STRING)
  BY GrammarAssumption DEF Strings
<1>b. w # <<>>
  BY DEF VhtRow, VHT80w, VHT160w
<1>c1. \A p \in Nat : \A j, dash, c :
           ParseChan(Str(p, w, dash, c), j) = ParseVht(Str(p, w, dash, c), width, flag, field)
  BY ParseVhtRow
<1>c2. /\ \A p, c : ChannelToStr(Desc(p, "none", width, TRUE, c)) = Str(p, w, TRUE, c)
       /\ \A p, c : ChannelToStr(Desc(p, "none", width, FALSE, c)) = Str(p, w, FALSE, NoNum)
  BY PrintVhtRow
<1>c. /\ \A p \in Nat : \A j, dash, c :
           ParseChan(Str(p, w, dash, c), j) = ParseVht(Str(p, w, dash, c), width, flag, field)
      /\ \A p, c : ChannelToStr(Desc(p, "none", width, TRUE, c)) = Str(p, w, TRUE, c)
      /\ \A p, c : ChannelToStr(Desc(p, "none", width, FALSE, c)) = Str(p, w, FALSE, NoNum)
  BY <1>c1, <1>c2
<1>d. NoNum \in Nat \cup {NoNum} /\ TRUE \in BOOLEAN /\ FALSE \in BOOLEAN
  OBVIOUS
<1>1. CASE ScanSuffix(s) = 3
  <2>1. ParseVht(s, width, flag, field).ch = Desc(s.num, "none", width, TRUE, s.center)
    BY <1>1, ParseVhtDef
  <2>2. s.center \in Nat /\ s.center # NoNum
    <3>1. s.dash /\ s.center # NoNum
      BY <1>0, <1>1 DEF ScanSuffix
    <3>. QED
      BY <1>0, <3>1
  <2>3. ChannelToStr(Desc(s.num, "none", width, TRUE, s.center))
          = Str(s.num, w, TRUE, s.center)
    BY <1>c
  <2>4. ParseChan(Str(s.num, w, TRUE, s.center), junk)
          = ParseVht(Str(s.num, w, TRUE, s.center), width, flag, field)
    BY <1>0, <1>c1
  <2>5. ScanSuffix(Str(s.num, w, TRUE, s.center)) = 3
    BY <1>0, <1>b, <2>2 DEF ScanSuffix, Str
  <2>6. ParseVht(Str(s.num, w, TRUE, s.center), width, flag, field)
          = [ch |-> Desc(s.num, "none", width, TRUE, s.center), info |-> 0, err |-> FALSE]
    <3>1. Str(s.num, w, TRUE, s.center).num = s.num
          /\ Str(s.num, w, TRUE, s.center).center = s.center
      BY DEF Str
    <3>. QED
      BY <3>1, <2>5, ParseVhtDef
  <2>7. ChannelToStr(ParseVht(s, width, flag, field).ch) = Str(s.num, w, TRUE, s.center)
    BY <2>1, <2>3
  <2>8. ParseChan(ChannelToStr(ParseVht(s, width, flag, field).ch), junk)
          = [ch |-> Desc(s.num, "none", width, TRUE, s.center), info |-> 0, err |-> FALSE]
    BY <2>4, <2>6, <2>7
  <2>9. ParseChan(ChannelToStr(ParseVht(s, width, flag, field).ch), junk).ch
          = Desc(s.num, "none", width, TRUE, s.center)
    BY <2>8
  <2>10. ~ParseChan(ChannelToStr(ParseVht(s, width, flag, field).ch), junk).err
    BY <2>8
  <2>. QED
    BY <2>1, <2>9, <2>10
<1>2. CASE ScanSuffix(s) # 3
  <2>1. ~\E ci \in Hits(s.num) : flag \notin HtTable[ci].flags
    BY <1>2, ParseVhtDef
  <2>2. \A f : ScanSuffix(Str(f, w, FALSE, NoNum)) # 3
    BY DEF ScanSuffix, Str
  <2>3. \A f : Str(f, w, FALSE, NoNum).num = f
    BY DEF Str
  <2>a. \A t : ScanSuffix(t) # 3 /\ ~(\E ci \in Hits(t.num) : flag \notin HtTable[ci].flags)
          => /\ ParseVht(t, width, flag, field).ch
                  = IF Hits(t.num) = {} THEN Desc(t.num, "none", width, FALSE, 0)
                    ELSE Desc(HtTable[Last(t.num)].freq, "none", width, FALSE,
                              HtTable[Last(t.num)][field])
             /\ ~ParseVht(t, width, flag, field).err
    BY VhtLookup, Zenon
  <2>4. CASE Hits(s.num) = {}
    <3>1. ParseVht(s, width, flag, field).ch = Desc(s.num, "none", width, FALSE, 0)
      BY <1>2, <2>1, <2>4, <2>a
    <3>2. ChannelToStr(Desc(s.num, "none", width, FALSE, 0)) = Str(s.num, w, FALSE, NoNum)
      BY <1>c
    <3>3. ParseChan(Str(s.num, w, FALSE, NoNum), junk)
            = ParseVht(Str(s.num, w, FALSE, NoNum), width, flag, field)
      BY <1>0, <1>c1
    <3>5. /\ ParseVht(Str(s.num, w, FALSE, NoNum), width, flag, field).ch
               = Desc(s.num, "none", width, FALSE, 0)
          /\ ~ParseVht(Str(s.num, w, FALSE, NoNum), width, flag, field).err
      BY <2>2, <2>3, <2>4, <2>a
    <3>. QED
      BY <3>1, <3>2, <3>3, <3>5
  <2>5. CASE Hits(s.num) # {}
    <3>1. Last(s.num) \in Hits(s.num)
      BY <2>5, LastInHits
    <3> DEFINE L == Last(s.num)
    <3>2. /\ L \in 1..Len(HtTable) /\ Matches(HtTable[L], s.num)
          /\ flag \in HtTable[L].flags
      BY <3>1, <2>1 DEF Hits
    <3>a. HtTable[L].freq \in Nat
      <4>1. HtTable \in Seq([chan : Nat, freq : Nat, flags : SUBSET HtFlags,
                             freq80 : Nat, freq160 : Nat])
        BY GrammarAssumption
      <4>2. HtTable[L] \in [chan : Nat, freq : Nat, flags : SUBSET HtFlags,
                             freq80 : Nat, freq160 : Nat]
        BY <3>2, <4>1, ElementOfSeq
      <4>. QED
        BY <4>2
    <3>3. ParseVht(s, width, flag, field).ch
            = Desc(HtTable[L].freq, "none", width, FALSE, HtTable[L][field])
      BY <1>2, <2>1, <2>5, <2>a
    <3>4. ChannelToStr(Desc(HtTable[L].freq, "none", width, FALSE, HtTable[L][field]))
            = Str(HtTable[L].freq, w, FALSE, NoNum)
      BY <1>c
    <3>5. Hits(HtTable[L].freq) = {L}
      BY <3>2 DEF FreqsIdentify, Hits, Matches
    <3>6. Last(HtTable[L].freq) = L
      BY <3>5 DEF Last
    <3>7. ~\E ci \in Hits(HtTable[L].freq) : flag \notin HtTable[ci].flags
      BY <3>2, <3>5
    <3>8. ParseChan(Str(HtTable[L].freq, w, FALSE, NoNum), junk)
            = ParseVht(Str(HtTable[L].freq, w, FALSE, NoNum), width, flag, field)
      BY <3>a, <1>c1
    <3>9. /\ ParseVht(Str(HtTable[L].freq, w, FALSE, NoNum), width, flag, field).ch
               = Desc(HtTable[L].freq, "none", width, FALSE, HtTable[L][field])
          /\ ~ParseVht(Str(HtTable[L].freq, w, FALSE, NoNum), width, flag, field).err
      <4>1. /\ ScanSuffix(Str(HtTable[L].freq, w, FALSE, NoNum)) # 3
            /\ Str(HtTable[L].freq, w, FALSE, NoNum).num = HtTable[L].freq
        BY <2>2, <2>3
      <4>2. /\ ~(\E ci \in Hits(Str(HtTable[L].freq, w, FALSE, NoNum).num) :
                      flag \notin HtTable[ci].flags)
            /\ Hits(Str(HtTable[L].freq, w, FALSE, NoNum).num) # {}
            /\ Last(Str(HtTable[L].freq, w, FALSE, NoNum).num) = L
        BY <4>1, <3>5, <3>6, <3>7
      <4>. QED
        BY <4>1, <4>2, <2>a
    <3>. QED
      BY <3>3, <3>4, <3>8, <3>9
  <2>. QED
    BY <2>4, <2>5
<1>. QED
  BY <1>1, <1>2

(* local_channel_to_str on the descriptors without a table lookup.        *)
LEMMA PrintFixed ==
    \A p : /\ ChannelToStr(Blank(p)) = Str(p, <<>>, FALSE, NoNum)
           /\ ChannelToStr(Desc(p, "HT40-", "default", FALSE, 0)) = Str(p, HT40, TRUE, NoNum)
           /\ ChannelToStr(Desc(p, "HT40+", "default", FALSE, 0))
                = Str(p, HT40Plus, FALSE, NoNum)
           /\ ChannelToStr(Desc(p, "none", "5", FALSE, 0)) = Str(p, W5w, FALSE, NoNum)
           /\ ChannelToStr(Desc(p, "none", "10", FALSE, 0)) = Str(p, W10w, FALSE, NoNum)
BY DEF ChannelToStr, WidthStr, Blank, Desc, HT40Plus, W5w, W10w

(* One configure-response: whatever descriptor chantranslate_callback      *)
(* makes of a channel string, the text local_channel_to_str prints for it  *)
(* is parsed, by any later call, back to it without an error.              *)
LEMMA RoundTripStep ==
    ASSUME FreqsIdentify, NEW s \in Strings, NEW junk, NEW junk2,
           ParseChan(s, junk).ch # Null
    PROVE  /\ ParseChan(ChannelToStr(ParseChan(s, junk).ch), junk2).ch = ParseChan(s, junk).ch
           /\ ~ParseChan(ChannelToStr(ParseChan(s, junk).ch), junk2).err
<1> DEFINE R == ParseChan(s, junk)
           Back(d) == ParseChan(ChannelToStr(d), junk2)
<1> SUFFICES Back(R.ch).ch = R.ch /\ ~Back(R.ch).err
  OBVIOUS
<1> DEFINE p == s.num
<1>0. s.num \in Nums \cup {NoNum} /\ Nums \subseteq Nat
  BY GrammarAssumption DEF Strings
\* The parses of the fixed printed forms, for every number.
<1>a. \A q \in Nat : \A j : ParseChan(Str(q, <<>>, FALSE, NoNum), j)
                          = [ch |-> Blank(q), info |-> 0, err |-> FALSE]
  BY ParsePlain
<1>b. \A q \in Nat : \A j : /\ ParseChan(Str(q, HT40, TRUE, NoNum), j).ch
                             = Desc(q, "HT40-", "default", FALSE, 0)
                        /\ ~ParseChan(Str(q, HT40, TRUE, NoNum), j).err
  BY ParseHT40Minus
<1>c. \A q \in Nat : \A j : /\ ParseChan(Str(q, HT40Plus, FALSE, NoNum), j).ch
                             = Desc(q, "HT40+", "default", FALSE, 0)
                        /\ ~ParseChan(Str(q, HT40Plus, FALSE, NoNum), j).err
  BY ParseHT40Plus
<1>d. \A q \in Nat : \A j : ParseChan(Str(q, W5w, FALSE, NoNum), j)
                          = [ch |-> Desc(q, "none", "5", FALSE, 0), info |-> 0, err |-> FALSE]
  BY ParseW5
<1>e. \A q \in Nat : \A j : ParseChan(Str(q, W10w, FALSE, NoNum), j)
                          = [ch |-> Desc(q, "none", "10", FALSE, 0), info |-> 0, err |-> FALSE]
  BY ParseW10
\* A plain channel prints and parses back.
<1>f. ASSUME NEW q \in Nat PROVE Back(Blank(q)).ch = Blank(q) /\ ~Back(Blank(q)).err
  <2>1. ChannelToStr(Blank(q)) = Str(q, <<>>, FALSE, NoNum)
    BY PrintFixed
  <2>2. ParseChan(Str(q, <<>>, FALSE, NoNum), junk2)
          = [ch |-> Blank(q), info |-> 0, err |-> FALSE]
    BY <1>a
  <2>3. ParseChan(ChannelToStr(Blank(q)), junk2)
          = [ch |-> Blank(q), info |-> 0, err |-> FALSE]
    BY <2>1, <2>2
  <2>4. ParseChan(ChannelToStr(Blank(q)), junk2).ch = Blank(q)
        /\ ~ParseChan(ChannelToStr(Blank(q)), junk2).err
    BY <2>3
  <2>. QED
    BY <2>4 DEF Back
<1>1. CASE ScanHT40(s) = 2
  <2>1. p \in Nat
    <3>1. s.num # NoNum
      BY <1>1 DEF ScanHT40
    <3>. QED
      BY <1>0, <3>1 DEF p
  <2>2. R = ParseHT40(s, junk)
    BY <1>1 DEF ParseChan
  <2>3. CASE ModChar(s) = "-"
    <3>1. R.ch = Desc(p, "HT40-", "default", FALSE, 0)
      BY <2>2, <2>3 DEF ParseHT40
    <3>2. ChannelToStr(R.ch) = Str(p, HT40, TRUE, NoNum)
      BY <3>1, PrintFixed
    <3>3. Back(R.ch).ch = Desc(p, "HT40-", "default", FALSE, 0) /\ ~Back(R.ch).err
      BY <2>1, <3>2, <1>b DEF Back
    <3>. QED
      BY <3>1, <3>3
  <2>4. CASE ModChar(s) # "-" /\ ModChar(s) = "+"
    <3>1. R.ch = Desc(p, "HT40+", "default", FALSE, 0)
      BY <2>2, <2>4 DEF ParseHT40
    <3>2. ChannelToStr(R.ch) = Str(p, HT40Plus, FALSE, NoNum)
      BY <3>1, PrintFixed
    <3>3. Back(R.ch).ch = Desc(p, "HT40+", "default", FALSE, 0) /\ ~Back(R.ch).err
      BY <2>1, <3>2, <1>c DEF Back
    <3>. QED
      BY <3>1, <3>3
  <2>5. CASE ModChar(s) # "-" /\ ModChar(s) # "+"
    <3>1. R.ch = Blank(p)
      BY <2>2, <2>5 DEF ParseHT40
    <3>. QED
      BY <2>1, <3>1, <1>f
  <2>. QED
    BY <2>3, <2>4, <2>5
<1>2. CASE ScanHT40(s) # 2 /\ ScanSuffix(s) <= 0
  <2>1. R.ch = Null
    BY <1>2 DEF ParseChan
  <2>. QED
    BY <2>1
<1>3. CASE ScanHT40(s) # 2 /\ ~(ScanSuffix(s) <= 0)
  <2>1. p \in Nat /\ p # NoNum
    <3>1. s.num # NoNum
      BY <1>3 DEF ScanSuffix
    <3>. QED
      BY <1>0, <3>1 DEF p
  <2>2. CASE ScanSuffix(s) = 1
    <3>1. R.ch = Blank(p)
      BY <1>3, <2>2 DEF ParseChan
    <3>. QED
      BY <2>1, <3>1, <1>f
  <2>3. CASE ScanSuffix(s) # 1
    <3>1. R = ParseSuffix(s)
      BY <1>3, <2>3 DEF ParseChan
    <3>2. CASE StrCaseEq(s.word, <<"w", "5">>)
      <4>1. R.ch = Desc(p, "none", "5", FALSE, 0)
        BY <3>1, <3>2 DEF ParseSuffix
      <4>2. ChannelToStr(R.ch) = Str(p, W5w, FALSE, NoNum)
        BY <4>1, PrintFixed
      <4>3. Back(R.ch) = [ch |-> Desc(p, "none", "5", FALSE, 0), info |-> 0, err |-> FALSE]
        BY <2>1, <4>2, <1>d DEF Back
      <4>4. Back(R.ch).ch = Desc(p, "none", "5", FALSE, 0) /\ ~Back(R.ch).err
        BY <4>3
      <4>. QED
        BY <4>1, <4>4
    <3>3. CASE ~StrCaseEq(s.word, <<"w", "5">>) /\ StrCaseEq(s.word, <<"w", "1", "0">>)
      <4>1. R.ch = Desc(p, "none", "10", FALSE, 0)
        BY <3>1, <3>3 DEF ParseSuffix
      <4>2. ChannelToStr(R.ch) = Str(p, W10w, FALSE, NoNum)
        BY <4>1, PrintFixed
      <4>3. Back(R.ch) = [ch |-> Desc(p, "none", "10", FALSE, 0), info |-> 0, err |-> FALSE]
        BY <2>1, <4>2, <1>e DEF Back
      <4>4. Back(R.ch).ch = Desc(p, "none", "10", FALSE, 0) /\ ~Back(R.ch).err
        BY <4>3
      <4>. QED
        BY <4>1, <4>4
    <3>4. CASE /\ ~StrCaseEq(s.word, <<"w", "5">>) /\ ~StrCaseEq(s.word, <<"w", "1", "0">>)
               /\ StrCaseEq(s.word, <<"v", "h", "t", "8", "0">>)
      <4>1. R = ParseVht(s, "80", "HT80", "freq80")
        BY <3>1, <3>4 DEF ParseSuffix
      <4>2. VhtRow(VHT80w, "80", "HT80", "freq80")
        BY DEF VhtRow
      <4>3. /\ ParseChan(ChannelToStr(ParseVht(s, "80", "HT80", "freq80").ch), junk2).ch
                = ParseVht(s, "80", "HT80", "freq80").ch
            /\ ~ParseChan(ChannelToStr(ParseVht(s, "80", "HT80", "freq80").ch), junk2).err
        <5>1. \A t \in Strings : \A j :
                t.num # NoNum /\ ParseVht(t, "80", "HT80", "freq80").ch # Null =>
                  /\ ParseChan(ChannelToStr(ParseVht(t, "80", "HT80", "freq80").ch), j).ch
                       = ParseVht(t, "80", "HT80", "freq80").ch
                  /\ ~ParseChan(ChannelToStr(ParseVht(t, "80", "HT80", "freq80").ch), j).err
          BY <4>2, VhtRoundTrip, ZenonT(60)
        <5>. QED
          BY <2>1, <4>1, <5>1 DEF p
      <4>. QED
        BY <4>1, <4>3 DEF Back
    <3>5. CASE /\ ~StrCaseEq(s.word, <<"w", "5">>) /\ ~StrCaseEq(s.word, <<"w", "1", "0">>)
               /\ ~StrCaseEq(s.word, <<"v", "h", "t", "8", "0">>)
               /\ StrCaseEq(s.word, <<"v", "h", "t", "1", "6", "0">>)
      <4>1. R = ParseVht(s, "160", "HT160", "freq160")
        BY <3>1, <3>5 DEF ParseSuffix
      <4>2. VhtRow(VHT160w, "160", "HT160", "freq160")
        BY DEF VhtRow
      <4>3. /\ ParseChan(ChannelToStr(ParseVht(s, "160", "HT160", "freq160").ch), junk2).ch
                = ParseVht(s, "160", "HT160", "freq160").ch
            /\ ~ParseChan(ChannelToStr(ParseVht(s, "160", "HT160", "freq160").ch), junk2).err
        <5>1. \A t \in Strings : \A j :
                t.num # NoNum /\ ParseVht(t, "160", "HT160", "freq160").ch # Null =>
                  /\ ParseChan(ChannelToStr(ParseVht(t, "160", "HT160", "freq160").ch), j).ch
                       = ParseVht(t, "160", "HT160", "freq160").ch
                  /\ ~ParseChan(ChannelToStr(ParseVht(t, "160", "HT160", "freq160").ch), j).err
          BY <4>2, VhtRoundTrip, ZenonT(60)
        <5>. QED
          BY <2>1, <4>1, <5>1 DEF p
      <4>. QED
        BY <4>1, <4>3 DEF Back
    <3>6. CASE /\ ~StrCaseEq(s.word, <<"w", "5">>) /\ ~StrCaseEq(s.word, <<"w", "1", "0">>)
               /\ ~StrCaseEq(s.word, <<"v", "h", "t", "8", "0">>)
               /\ ~StrCaseEq(s.word, <<"v", "h", "t", "1", "6", "0">>)
      <4>1. R.ch = Blank(p)
        BY <3>1, <3>6 DEF ParseSuffix
      <4>. QED
        BY <2>1, <4>1, <1>f
    <3>. QED
      BY <3>2, <3>3, <3>4, <3>5, <3>6
  <2>. QED
    BY <2>2, <2>3
<1>. QED
  BY <1>1, <1>2, <1>3

-----------------------------------------------------------------------------
(* Types.                                                                  *)

\* A subset of a bounded interval of table indices has a natural size: the
\* number of INFO messages of a search.
LEMMA CountNat ==
    ASSUME NEW n \in Nat, NEW S \in SUBSET (1..n)
    PROVE  Cardinality(S) \in Nat
<1>1. IsFiniteSet(1..n)
  BY FS_Interval
<1>2. IsFiniteSet(S)
  BY <1>1, FS_Subset
<1>. QED
  BY <1>2, FS_CardinalityType

LEMMA InfoNat ==
    ASSUME NEW p, NEW junk
    PROVE  Ht40MinusInfo(p, junk) \in Nat /\ Ht40PlusInfo(p) \in Nat
<1>1. Len(HtTable) \in Nat /\ MaxHtChannel \in Nat
  BY GrammarAssumption
<1>2. Ht40MinusInfo(p, junk) \in Nat
  <2> DEFINE S == {ci \in 1..MaxHtChannel :
                     IF ci <= Len(HtTable)
                     THEN Matches(HtTable[ci], p) /\ "HT40-" \notin HtTable[ci].flags
                     ELSE junk[ci]}
  <2>1. S \in SUBSET (1..MaxHtChannel)
    OBVIOUS
  <2>2. Cardinality(S) \in Nat
    BY <1>1, <2>1, CountNat
  <2>. QED
    BY <2>2 DEF Ht40MinusInfo
<1>3. Ht40PlusInfo(p) \in Nat
  <2> DEFINE S == {ci \in 1..Len(HtTable) :
                     Matches(HtTable[ci], p) /\ "HT40+" \notin HtTable[ci].flags}
  <2>1. S \in SUBSET (1..Len(HtTable))
    OBVIOUS
  <2>2. Cardinality(S) \in Nat
    BY <1>1, <2>1, CountNat
  <2>. QED
    BY <2>2 DEF Ht40PlusInfo
<1>. QED
  BY <1>2, <1>3

\* The table's entries, as the VHT search reads them.
LEMMA EntryType ==
    ASSUME NEW ci \in 1..Len(HtTable)
    PROVE  /\ HtTable[ci].freq \in TableFreqs
           /\ HtTable[ci].freq80 \in TableCenters /\ HtTable[ci].freq160 \in TableCenters
           /\ HtTable[ci]["freq80"] = HtTable[ci].freq80
           /\ HtTable[ci]["freq160"] = HtTable[ci].freq160
BY DEF TableFreqs, TableCenters

\* The descriptors chantranslate_callback builds.
LEMMA DescType ==
    /\ \A p \in Nums \cup TableFreqs :
         \A t \in {"none", "HT40-", "HT40+"} : \A wd \in {"default", "5", "10", "80", "160"} :
           \A c \in {0} \cup TableCenters : Desc(p, t, wd, FALSE, c) \in GoodDesc
    /\ \A p \in Nums \cup TableFreqs : \A wd \in {"80", "160"} : \A c \in Centers :
           Desc(p, "none", wd, TRUE, c) \in GoodDesc
BY DEF GoodDesc, Descriptors, Desc

LEMMA VhtType ==
    ASSUME NEW width \in {"80", "160"}, NEW flag, NEW field \in {"freq80", "freq160"}
    PROVE  \A s \in PrintedStr :
             s.num # NoNum => ParseVht(s, width, flag, field) \in GoodResults
<1> SUFFICES ASSUME NEW s \in PrintedStr, s.num # NoNum
             PROVE  ParseVht(s, width, flag, field) \in GoodResults
  OBVIOUS
<1>0. s.num \in Nums \cup TableFreqs /\ s.center \in Centers \cup {NoNum}
  BY DEF PrintedStr
<1>d. \A c \in {0} \cup TableCenters : Desc(s.num, "none", width, FALSE, c) \in GoodDesc
  BY <1>0, DescType
<1>1. CASE ScanSuffix(s) = 3
  <2>1. s.center \in Centers
    BY <1>0, <1>1 DEF ScanSuffix
  <2>2. Desc(s.num, "none", width, TRUE, s.center) \in GoodDesc
    BY <1>0, <2>1, DescType
  <2>. QED
    BY <1>1, <2>2, ParseVhtDef DEF GoodResults
<1>2. CASE ScanSuffix(s) # 3 /\ \E ci \in Hits(s.num) : flag \notin HtTable[ci].flags
  BY <1>2, ParseVhtDef DEF GoodResults
<1>3. CASE ScanSuffix(s) # 3 /\ ~(\E ci \in Hits(s.num) : flag \notin HtTable[ci].flags)
           /\ Hits(s.num) = {}
  BY <1>3, <1>d, ParseVhtDef DEF GoodResults
<1>4. CASE ScanSuffix(s) # 3 /\ ~(\E ci \in Hits(s.num) : flag \notin HtTable[ci].flags)
           /\ Hits(s.num) # {}
  <2>1. Last(s.num) \in 1..Len(HtTable)
    BY <1>4, LastInHits DEF Hits
  <2>2. /\ HtTable[Last(s.num)].freq \in TableFreqs
        /\ HtTable[Last(s.num)][field] \in TableCenters
    BY <2>1, EntryType
  <2>3. Desc(HtTable[Last(s.num)].freq, "none", width, FALSE, HtTable[Last(s.num)][field])
          \in GoodDesc
    BY <2>2, DescType
  <2>. QED
    BY <1>4, <2>3, ParseVhtDef DEF GoodResults
<1>. QED
  BY <1>1, <1>2, <1>3, <1>4

(* chantranslate_callback returns a descriptor of the declared type, with  *)
(* an explicit center only one the string gave, on every string the        *)
(* framework or a configure-response may hand it.                          *)
LEMMA ParseType ==
    ASSUME NEW s \in PrintedStr, NEW junk
    PROVE  ParseChan(s, junk) \in GoodResults
<1> DEFINE p == s.num
<1>0. p \in Nums \cup TableFreqs \cup {NoNum}
  BY DEF PrintedStr
<1>i. Ht40MinusInfo(p, junk) \in Nat /\ Ht40PlusInfo(p) \in Nat
  BY InfoNat
<1>g. p # NoNum =>
        /\ \A t \in {"none", "HT40-", "HT40+"} : \A wd \in {"default", "5", "10", "80", "160"} :
             Desc(p, t, wd, FALSE, 0) \in GoodDesc
        /\ Blank(p) \in GoodDesc
  <2>1. p # NoNum => p \in Nums \cup TableFreqs
    BY <1>0
  <2>2. 0 \in {0} \cup TableCenters
    OBVIOUS
  <2>. QED
    BY <2>1, <2>2, DescType DEF Blank
<1>1. CASE ScanHT40(s) = 2
  <2>1. p # NoNum
    BY <1>1 DEF ScanHT40
  <2>. QED
    BY <1>1, <1>g, <1>i, <2>1 DEF ParseChan, ParseHT40, GoodResults
<1>2. CASE ScanHT40(s) # 2 /\ ScanSuffix(s) <= 0
  BY <1>2 DEF ParseChan, GoodResults
<1>3. CASE ScanHT40(s) # 2 /\ ~(ScanSuffix(s) <= 0)
  <2>1. p # NoNum
    BY <1>3 DEF ScanSuffix
  <2>2. ParseVht(s, "80", "HT80", "freq80") \in GoodResults
        /\ ParseVht(s, "160", "HT160", "freq160") \in GoodResults
    <3>1. \A t \in PrintedStr : t.num # NoNum => ParseVht(t, "80", "HT80", "freq80") \in GoodResults
      BY VhtType
    <3>2. \A t \in PrintedStr :
            t.num # NoNum => ParseVht(t, "160", "HT160", "freq160") \in GoodResults
      BY VhtType
    <3>. QED
      BY <2>1, <3>1, <3>2
  <2>. QED
    BY <1>3, <1>g, <2>1, <2>2 DEF ParseChan, ParseSuffix, GoodResults
<1>. QED
  BY <1>1, <1>2, <1>3

(* local_channel_to_str prints, for such a descriptor, a string of the    *)
(* shape chantranslate_callback reads.                                     *)
LEMMA PrintType ==
    ASSUME NEW d \in GoodDesc
    PROVE  ChannelToStr(d) \in PrintedStr
<1>1. /\ <<>> \in PrintedWords /\ HT40 \in PrintedWords
      /\ <<"H", "T", "4", "0", "+">> \in PrintedWords
      /\ <<"W", "5">> \in PrintedWords /\ <<"W", "1", "0">> \in PrintedWords
      /\ <<"V", "H", "T", "8", "0">> \in PrintedWords
      /\ <<"V", "H", "T", "1", "6", "0">> \in PrintedWords
  BY DEF PrintedWords
<1>2. /\ d.control_freq \in Nums \cup TableFreqs
      /\ d.unusual_center1 \in BOOLEAN
      /\ d.unusual_center1 => d.center_freq1 \in Centers
  BY DEF GoodDesc, Descriptors
<1>3. \A w \in PrintedWords : /\ Str(d.control_freq, w, FALSE, NoNum) \in PrintedStr
                               /\ Str(d.control_freq, w, TRUE, NoNum) \in PrintedStr
                               /\ VhtStr(d, w) \in PrintedStr
  BY <1>2 DEF Str, VhtStr, PrintedStr
<1>. QED
  BY <1>1, <1>3 DEF ChannelToStr, WidthStr

\* The configured strings are among the printed ones.
LEMMA StringsPrinted ==
    Strings \subseteq PrintedStr
BY GrammarAssumption DEF Strings, PrintedStr

LEMMA GoodResultsType ==
    GoodResults \subseteq Results
BY DEF GoodResults, Results, GoodDesc

-----------------------------------------------------------------------------
(* The inductive invariant.                                                *)

LEMMA InitGInv ==
    Init => GInv
<1> SUFFICES ASSUME Init PROVE GInv
  OBVIOUS
<1>1. str \in Strings /\ printed = str /\ res = NoResult /\ res2 = NoResult /\ phase = "parse"
  BY DEF Init
<1>2. printed \in PrintedStr
  BY <1>1, StringsPrinted
<1>3. NoResult \in GoodResults
  BY DEF NoResult, GoodResults
<1>. QED
  BY <1>1, <1>2, <1>3, GoodResultsType DEF GInv, TypeOK, PrintedStr

LEMMA NextGInv ==
    GInv /\ [Next]_vars => GInv'
<1> SUFFICES ASSUME GInv, [Next]_vars PROVE GInv'
  OBVIOUS
<1>0. /\ str \in Strings /\ printed \in PrintedStr /\ res \in GoodResults
      /\ res2 \in Results
      /\ phase \in {"parse", "print", "reparse", "done", "skipped"}
  BY DEF GInv, TypeOK, PrintedStr
<1>p. str \in PrintedStr
  BY <1>0, StringsPrinted
<1>1. CASE Translate
  <2>1. PICK junk \in Junk : res' = ParseChan(str, junk)
    BY <1>1 DEF Translate
  <2>2. res' \in GoodResults
    BY <1>p, <2>1, ParseType
  <2>3. /\ phase' = IF res'.ch = Null THEN "skipped" ELSE "print"
        /\ UNCHANGED <<str, printed, res2>>
    BY <1>1 DEF Translate
  <2>. QED
    BY <1>0, <2>1, <2>2, <2>3, GoodResultsType DEF GInv, TypeOK, PrintedStr
<1>2. CASE ReportChannel
  <2>1. phase = "print" /\ printed' = ChannelToStr(res.ch) /\ phase' = "reparse"
        /\ UNCHANGED <<str, res, res2>>
    BY <1>2 DEF ReportChannel
  <2>2. res.ch \in GoodDesc
    BY <1>0, <2>1 DEF GInv, GoodResults
  <2>3. printed' \in PrintedStr
    BY <2>1, <2>2, PrintType
  <2>. QED
    BY <1>0, <2>1, <2>3, GoodResultsType DEF GInv, TypeOK, PrintedStr
<1>3. CASE Retranslate
  <2>1. PICK junk \in Junk : res2' = ParseChan(printed, junk)
    BY <1>3 DEF Retranslate
  <2>2. res2' \in GoodResults
    BY <1>0, <2>1, ParseType
  <2>3. phase = "reparse" /\ phase' = "done" /\ UNCHANGED <<str, res, printed>>
    BY <1>3 DEF Retranslate
  <2>. QED
    BY <1>0, <2>1, <2>2, <2>3, GoodResultsType DEF GInv, TypeOK, PrintedStr
<1>4. CASE Finished \/ UNCHANGED vars
  <2>1. UNCHANGED vars
    BY <1>4 DEF Finished
  <2>. QED
    BY <2>1 DEF GInv, TypeOK, vars
<1>. QED
  BY <1>1, <1>2, <1>3, <1>4 DEF Next

-----------------------------------------------------------------------------
(* The HT40 diagnosis.                                                     *)

\* A search sends an INFO message exactly when some entry it counts exists.
LEMMA CountPositive ==
    ASSUME NEW n \in Nat, NEW S \in SUBSET (1..n)
    PROVE  Cardinality(S) > 0 <=> S # {}
<1>1. IsFiniteSet(1..n)
  BY FS_Interval
<1>2. IsFiniteSet(S)
  BY <1>1, FS_Subset
<1>3. Cardinality(S) \in Nat
  BY <1>2, FS_CardinalityType
<1>4. Cardinality(S) = 0 <=> S = {}
  BY <1>2, FS_EmptySet
<1>5. Cardinality(S) > 0 <=> Cardinality(S) # 0
  BY <1>3
<1>. QED
  BY <1>4, <1>5, Zenon

\* The VHT branches build no HT40 descriptor.
LEMMA VhtNone ==
    ASSUME NEW s, NEW width, NEW flag, NEW field,
           ParseVht(s, width, flag, field).ch # Null
    PROVE  ParseVht(s, width, flag, field).ch.chan_type = "none"
BY ParseVhtDef DEF Desc

(* When MAX_WIFI_HT_CHANNEL is the size of the table, an HT40 descriptor   *)
(* chantranslate_callback returns for a listed channel came with INFO      *)
(* messages exactly when an entry for it lacks the flag.                   *)
LEMMA HT40Step ==
    ASSUME MaxHtChannel = Len(HtTable), NEW s \in Strings, NEW junk,
           ParseChan(s, junk).ch # Null,
           ParseChan(s, junk).ch.chan_type # "none",
           {ci \in 1..Len(HtTable) : Matches(HtTable[ci], ParseChan(s, junk).ch.control_freq)}
             # {}
    PROVE  ParseChan(s, junk).info > 0 <=>
             \E ci \in {cj \in 1..Len(HtTable) :
                          Matches(HtTable[cj], ParseChan(s, junk).ch.control_freq)} :
               ParseChan(s, junk).ch.chan_type \notin HtTable[ci].flags
<1> DEFINE R == ParseChan(s, junk)
           p == s.num
<1>0. Len(HtTable) \in Nat
  BY GrammarAssumption
<1>1. ScanHT40(s) = 2
  <2>1. SUFFICES ASSUME ScanHT40(s) # 2 PROVE R.ch.chan_type = "none"
    OBVIOUS
  <2>2. \A wd, fl, fd : ParseVht(s, wd, fl, fd).ch # Null =>
                          ParseVht(s, wd, fl, fd).ch.chan_type = "none"
    BY VhtNone
  <2>. QED
    BY <2>1, <2>2 DEF ParseChan, ParseSuffix, Blank, Desc
<1>2. R = ParseHT40(s, junk)
  BY <1>1 DEF ParseChan
<1>3. CASE ModChar(s) = "-"
  <2> DEFINE S == {ci \in 1..Len(HtTable) :
                     Matches(HtTable[ci], p) /\ "HT40-" \notin HtTable[ci].flags}
  <2>1. R.ch = Desc(p, "HT40-", "default", FALSE, 0) /\ R.info = Ht40MinusInfo(p, junk)
    BY <1>2, <1>3 DEF ParseHT40
  <2>2. Ht40MinusInfo(p, junk) = Cardinality(S)
    <3>1. {ci \in 1..MaxHtChannel :
             IF ci <= Len(HtTable)
             THEN Matches(HtTable[ci], p) /\ "HT40-" \notin HtTable[ci].flags
             ELSE junk[ci]} = S
      BY <1>0
    <3>. QED
      BY <3>1 DEF Ht40MinusInfo
  <2>3. Cardinality(S) > 0 <=> S # {}
    BY <1>0, CountPositive
  <2>. QED
    BY <2>1, <2>2, <2>3 DEF Desc
<1>4. CASE ModChar(s) # "-" /\ ModChar(s) = "+"
  <2> DEFINE S == {ci \in 1..Len(HtTable) :
                     Matches(HtTable[ci], p) /\ "HT40+" \notin HtTable[ci].flags}
  <2>1. R.ch = Desc(p, "HT40+", "default", FALSE, 0) /\ R.info = Cardinality(S)
    BY <1>2, <1>4 DEF ParseHT40, Ht40PlusInfo
  <2>3. Cardinality(S) > 0 <=> S # {}
    BY <1>0, CountPositive
  <2>. QED
    BY <2>1, <2>3 DEF Desc
<1>5. CASE ModChar(s) # "-" /\ ModChar(s) # "+"
  <2>1. R.ch = Blank(p)
    BY <1>2, <1>5 DEF ParseHT40
  <2>. QED
    BY <2>1 DEF Blank, Desc
<1>. QED
  BY <1>3, <1>4, <1>5

-----------------------------------------------------------------------------
(* Theorems.                                                               *)

(* chantranslate_callback, local_channel_to_str and the configure-response *)
(* keep every variable in its type for every table, bound and set of       *)
(* strings; a printed string carries a configured word or a suffix         *)
(* local_channel_to_str writes.                                            *)
THEOREM GrammarTypeCorrect ==
    Spec => []TypeOK
<1>1. GInv => TypeOK
  BY DEF GInv
<1>. QED
  BY <1>1, InitGInv, NextGInv, PTL DEF Spec

(* Spec 8, for every table whose frequencies name their entries: the text  *)
(* local_channel_to_str prints for a descriptor parses back to it without  *)
(* an error, by table lookup, explicit center and HT40 type alike.         *)
THEOREM RoundTripHolds ==
    ASSUME FreqsIdentify
    PROVE  Spec => []RoundTrip
<1>1. GInv => RoundTrip
  <2> SUFFICES ASSUME GInv, phase = "done" PROVE res2.ch = res.ch /\ ~res2.err
    BY DEF RoundTrip
  <2>1. PICK j1 \in Junk : res = ParseChan(str, j1)
    BY DEF GInv
  <2>2. PICK j2 \in Junk : res2 = ParseChan(printed, j2)
    BY DEF GInv
  <2>3. str \in Strings /\ res.ch # Null /\ printed = ChannelToStr(res.ch)
    BY DEF GInv, TypeOK
  <2>4. \A t \in Strings : \A ja, jb :
          ParseChan(t, ja).ch # Null =>
            /\ ParseChan(ChannelToStr(ParseChan(t, ja).ch), jb).ch = ParseChan(t, ja).ch
            /\ ~ParseChan(ChannelToStr(ParseChan(t, ja).ch), jb).err
    BY RoundTripStep
  <2>. QED
    BY <2>1, <2>2, <2>3, <2>4
<1>. QED
  BY <1>1, InitGInv, NextGInv, PTL DEF Spec

(* Spec 4.1, when MAX_WIFI_HT_CHANNEL is the number of entries of the      *)
(* table: an HT40 channel the table lists is reported with INFO messages   *)
(* exactly when an entry for it lacks the flag.                            *)
THEOREM HT40DiagnosedHolds ==
    ASSUME MaxHtChannel = Len(HtTable)
    PROVE  Spec => []HT40Diagnosed
<1>1. GInv => HT40Diagnosed
  <2> SUFFICES ASSUME GInv, phase \in {"print", "reparse", "done"},
                      res.ch.chan_type # "none",
                      {ci \in 1..Len(HtTable) : Matches(HtTable[ci], res.ch.control_freq)} # {}
               PROVE  res.info > 0 <=>
                        \E ci \in {cj \in 1..Len(HtTable) :
                                     Matches(HtTable[cj], res.ch.control_freq)} :
                          res.ch.chan_type \notin HtTable[ci].flags
    BY DEF HT40Diagnosed
  <2>1. PICK j1 \in Junk : res = ParseChan(str, j1)
    BY DEF GInv
  <2>2. str \in Strings /\ res.ch # Null
    BY DEF GInv, TypeOK
  <2>3. \A t \in Strings : \A j :
          /\ ParseChan(t, j).ch # Null
          /\ ParseChan(t, j).ch.chan_type # "none"
          /\ {ci \in 1..Len(HtTable) : Matches(HtTable[ci], ParseChan(t, j).ch.control_freq)}
               # {}
          => (ParseChan(t, j).info > 0 <=>
                \E ci \in {cj \in 1..Len(HtTable) :
                             Matches(HtTable[cj], ParseChan(t, j).ch.control_freq)} :
                  ParseChan(t, j).ch.chan_type \notin HtTable[ci].flags)
    BY HT40Step
  <2>. QED
    BY <2>1, <2>2, <2>3
<1>. QED
  BY <1>1, InitGInv, NextGInv, PTL DEF Spec

=============================================================================
