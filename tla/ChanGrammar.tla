----------------------------- MODULE ChanGrammar -----------------------------
(***************************************************************************)
(* The channel grammar of capture_linux_wifi: chantranslate_callback, which *)
(* parses a channel string into a local_channel_t against the HT channel    *)
(* table, and local_channel_to_str, which prints one back.                  *)
(*                                                                         *)
(* A channel string is abstracted to what the two sscanf calls read from    *)
(* it: a leading unsigned number (or none), the run of characters up to the *)
(* first '-' (a sequence of one-character strings, at most 15 of them, so   *)
(* that %15[^-] reads it whole), whether a '-' follows, and the number     *)
(* after it.  The table (wifi_ht_channels.h, not in this repository) is a  *)
(* constant; MAX_WIFI_HT_CHANNEL, which bounds the HT40- search only, is    *)
(* another.  Entries the HT40- search reads past the end of the table are  *)
(* undefined: the model lets each one match the channel without the flag   *)
(* or not.  center_freq2 is never set and is left out.                     *)
(*                                                                         *)
(* The framework translates a configured string; chancontrol_callback      *)
(* prints the descriptor into the configure-response it sends the parent,  *)
(* and the parent may configure that text again.                          *)
(***************************************************************************)
EXTENDS Integers, Sequences, FiniteSets

CONSTANTS
    HtTable,       \* wifi_ht_channels: [chan, freq, flags, freq80, freq160]
    MaxHtChannel,  \* MAX_WIFI_HT_CHANNEL
    Nums,          \* leading numbers a channel string may carry
    Centers,       \* numbers after the '-'
    Words,         \* the runs of characters before the '-'
    Null           \* the NULL a failed parse returns (a model value)

\* The flags a table entry may carry.
HtFlags == {"HT40+", "HT40-", "HT80", "HT160"}

ASSUME GrammarAssumption ==
    /\ HtTable \in Seq([chan : Nat, freq : Nat, flags : SUBSET HtFlags,
                        freq80 : Nat, freq160 : Nat])
    /\ MaxHtChannel \in Nat
    /\ Nums \subseteq Nat /\ Centers \subseteq Nat
    /\ Words \subseteq Seq(STRING)
    /\ \A w \in Words : Len(w) <= 15 /\ \A i \in 1..Len(w) : w[i] # "-"

\* No leading number: sscanf converts nothing.
NoNum == -1

\* The channel strings, as the sscanf calls see them.
Strings ==
    {s \in [num : Nums \cup {NoNum}, word : Words, dash : BOOLEAN,
            center : Centers \cup {NoNum}] :
        /\ s.center # NoNum => s.dash
        /\ s.num = NoNum => s.word = <<>> /\ ~s.dash}

\* A local_channel_t with the fields the translation sets.
Desc(p, type, width, unusual, center) ==
    [control_freq |-> p, chan_type |-> type, chan_width |-> width,
     unusual_center1 |-> unusual, center_freq1 |-> center]

\* local_channel_t after the memset, with control_freq set.
Blank(p) == Desc(p, "none", "default", FALSE, 0)

\* Letter case, for strcasecmp: the lower-case letters the suffixes use.
Fold == [h |-> "H", t |-> "T", v |-> "V", w |-> "W"]
Upper(c) == IF c \in DOMAIN Fold THEN Fold[c] ELSE c
StrCaseEq(w, lit) ==
    Len(w) = Len(lit) /\ \A i \in 1..Len(w) : Upper(w[i]) = Upper(lit[i])

HT40 == <<"H", "T", "4", "0">>

-----------------------------------------------------------------------------
(* chantranslate_callback                                                  *)

\* The number of conversions of sscanf(chanstr, "%uHT40%c", ...): the
\* literal HT40 is matched case-sensitively, and %c reads the character
\* after it, a '-' included.
ScanHT40(s) ==
    IF s.num = NoNum THEN 0
    ELSE IF Len(s.word) < 4 \/ \E i \in 1..4 : s.word[i] # HT40[i] THEN 1
    ELSE IF Len(s.word) > 4 \/ s.dash THEN 2 ELSE 1

ModChar(s) == IF Len(s.word) > 4 THEN s.word[5] ELSE "-"

\* The number of conversions of sscanf(chanstr, "%u%15[^-]-%u", ...).
ScanSuffix(s) ==
    IF s.num = NoNum THEN 0
    ELSE IF s.word = <<>> THEN 1
    ELSE IF s.dash /\ s.center # NoNum THEN 3 ELSE 2

Matches(e, p) == e.chan = p \/ e.freq = p

\* The INFO messages of the HT40+ search: one per table entry for the
\* channel without the flag, over sizeof(wifi_ht_channels).
Ht40PlusInfo(p) ==
    Cardinality({ci \in 1..Len(HtTable) :
                    Matches(HtTable[ci], p) /\ "HT40+" \notin HtTable[ci].flags})

\* (mutant) the HT40- search stops one entry short of its bound
Ht40MinusInfoShort(p, junk) ==
    Cardinality({ci \in 1..(MaxHtChannel - 1) :
                    IF ci <= Len(HtTable)
                    THEN Matches(HtTable[ci], p) /\ "HT40-" \notin HtTable[ci].flags
                    ELSE junk[ci]})

\* The INFO messages of the HT40- search, over MAX_WIFI_HT_CHANNEL entries;
\* junk[ci] is what an entry read past the table turns out to be.
Ht40MinusInfo(p, junk) ==
    Cardinality({ci \in 1..MaxHtChannel :
                    IF ci <= Len(HtTable)
                    THEN Matches(HtTable[ci], p) /\ "HT40-" \notin HtTable[ci].flags
                    ELSE junk[ci]})

\* The r == 2 branch of the first sscanf: HT40-, HT40+, or any other
\* character, which gives a plain channel and an INFO message.
ParseHT40(s, junk) ==
    LET p == s.num IN
    IF ModChar(s) = "-"
    THEN [ch |-> Desc(p, "HT40-", "default", FALSE, 0),
          info |-> Ht40MinusInfo(p, junk), err |-> FALSE]
    ELSE IF ModChar(s) = "+"
    THEN [ch |-> Desc(p, "HT40+", "default", FALSE, 0),
          info |-> Ht40PlusInfo(p), err |-> FALSE]
    ELSE [ch |-> Blank(p), info |-> 1, err |-> FALSE]

\* VHT80 / VHT160: an explicit center after the '-', or the table search,
\* which returns NULL at the first entry for the channel without the flag
\* and otherwise takes frequency and center from the last entry for it.
ParseVht(s, width, flag, field) ==
    LET p == s.num
        hits == {ci \in 1..Len(HtTable) : Matches(HtTable[ci], p)}
        last == HtTable[CHOOSE ci \in hits : \A cj \in hits : cj <= ci]
    IN  IF ScanSuffix(s) = 3
        THEN [ch |-> Desc(p, "none", width, TRUE, s.center),
              info |-> 0, err |-> FALSE]
        ELSE IF \E ci \in hits : flag \notin HtTable[ci].flags
        THEN [ch |-> Null, info |-> 0, err |-> TRUE]
        ELSE IF hits = {}
        THEN [ch |-> Desc(p, "none", width, FALSE, 0),
              info |-> 0, err |-> FALSE]
        ELSE [ch |-> Desc(last.freq, "none", width, FALSE, last[field]),
              info |-> 0, err |-> FALSE]

\* The suffix after the number, compared with strcasecmp.
ParseSuffix(s) ==
    LET w == s.word IN
    IF StrCaseEq(w, <<"w", "5">>)
    THEN [ch |-> Desc(s.num, "none", "5", FALSE, 0), info |-> 0, err |-> FALSE]
    ELSE IF StrCaseEq(w, <<"w", "1", "0">>)
    THEN [ch |-> Desc(s.num, "none", "10", FALSE, 0), info |-> 0, err |-> FALSE]
    ELSE IF StrCaseEq(w, <<"v", "h", "t", "8", "0">>)
    THEN ParseVht(s, "80", "HT80", "freq80")
    ELSE IF StrCaseEq(w, <<"v", "h", "t", "1", "6", "0">>)
    THEN ParseVht(s, "160", "HT160", "freq160")
    ELSE [ch |-> Blank(s.num), info |-> 1, err |-> FALSE]

\* chantranslate_callback: the descriptor (or NULL), the INFO messages and
\* whether an ERROR message was sent.
ParseChan(s, junk) ==
    IF ScanHT40(s) = 2 THEN ParseHT40(s, junk)
    ELSE IF ScanSuffix(s) <= 0 THEN [ch |-> Null, info |-> 0, err |-> TRUE]
    ELSE IF ScanSuffix(s) = 1 THEN [ch |-> Blank(s.num), info |-> 0, err |-> FALSE]
    ELSE ParseSuffix(s)

-----------------------------------------------------------------------------
(* local_channel_to_str                                                    *)

Str(p, w, dash, c) == [num |-> p, word |-> w, dash |-> dash, center |-> c]

\* (mutant) the explicit center printed where the frequency goes
VhtStrSwapped(d, w) ==
    IF d.unusual_center1 THEN Str(d.center_freq1, w, TRUE, d.control_freq)
    ELSE Str(d.control_freq, w, FALSE, NoNum)

\* (mutant) the explicit center is not printed
VhtStrNoCenter(d, w) == Str(d.control_freq, w, FALSE, NoNum)

\* A "%uVHTxx" or "%uVHTxx-%u" string.
VhtStr(d, w) ==
    IF d.unusual_center1 THEN Str(d.control_freq, w, TRUE, d.center_freq1)
    ELSE Str(d.control_freq, w, FALSE, NoNum)

\* The width suffixes of the switch on chan_width; any other width prints
\* the bare frequency.
WidthStr(d) ==
    IF d.chan_width = "5" THEN Str(d.control_freq, <<"W", "5">>, FALSE, NoNum)
    ELSE IF d.chan_width = "10" THEN Str(d.control_freq, <<"W", "1", "0">>, FALSE, NoNum)
    ELSE IF d.chan_width = "80" THEN VhtStr(d, <<"V", "H", "T", "8", "0">>)
    ELSE IF d.chan_width = "160" THEN VhtStr(d, <<"V", "H", "T", "1", "6", "0">>)
    ELSE Str(d.control_freq, <<>>, FALSE, NoNum)

\* local_channel_to_str: a plain channel, then HT40-, HT40+, then the width.
ChannelToStr(d) ==
    IF d.chan_type = "none" /\ d.chan_width = "default"
    THEN Str(d.control_freq, <<>>, FALSE, NoNum)
    ELSE IF d.chan_type = "HT40-" THEN Str(d.control_freq, HT40, TRUE, NoNum)
    ELSE IF d.chan_type = "HT40+" THEN Str(d.control_freq, <<"H", "T", "4", "0", "+">>, FALSE, NoNum)
    ELSE WidthStr(d)

-----------------------------------------------------------------------------
(* The use of the two: a configured channel string is translated, the     *)
(* descriptor is printed into a configure-response, and the printed text   *)
(* is configured again.                                                    *)

\* What the HT40- search may read past the end of the table.
Junk == [(Len(HtTable) + 1)..MaxHtChannel -> BOOLEAN]

VARIABLES
    str,      \* the channel string configured
    res,      \* what chantranslate_callback made of it
    printed,  \* local_channel_to_str of that descriptor
    res2,     \* what chantranslate_callback makes of the printed string
    phase

vars == <<str, res, printed, res2, phase>>

NoResult == [ch |-> Null, info |-> 0, err |-> FALSE]

Init ==
    /\ str \in Strings
    /\ res = NoResult /\ res2 = NoResult
    /\ printed = str
    /\ phase = "parse"

\* The framework hands a channel string to chantranslate_callback; a NULL
\* result skips the channel.
Translate ==
    /\ phase = "parse"
    /\ \E junk \in Junk : res' = ParseChan(str, junk)
    /\ phase' = IF res'.ch = Null THEN "skipped" ELSE "print"
    /\ UNCHANGED <<str, printed, res2>>

\* chancontrol_callback: a successful tune is answered with the channel
\* reconstituted by local_channel_to_str.
ReportChannel ==
    /\ phase = "print"
    /\ printed' = ChannelToStr(res.ch)
    /\ phase' = "reparse"
    /\ UNCHANGED <<str, res, res2>>

\* The parent configures the reported text again.
Retranslate ==
    /\ phase = "reparse"
    /\ \E junk \in Junk : res2' = ParseChan(printed, junk)
    /\ phase' = "done"
    /\ UNCHANGED <<str, res, printed>>

Finished ==
    /\ phase \in {"done", "skipped"}
    /\ UNCHANGED vars

Next == Translate \/ ReportChannel \/ Retranslate \/ Finished

Spec == Init /\ [][Next]_vars

-----------------------------------------------------------------------------
(* Properties.                                                              *)

TableFreqs   == {HtTable[ci].freq : ci \in 1..Len(HtTable)}
TableCenters == {HtTable[ci][f] : ci \in 1..Len(HtTable), f \in {"freq80", "freq160"}}

Descriptors ==
    [control_freq : Nums \cup TableFreqs, chan_type : {"none", "HT40-", "HT40+"},
     chan_width : {"default", "5", "10", "80", "160"},
     unusual_center1 : BOOLEAN, center_freq1 : {0} \cup Centers \cup TableCenters]

Results ==
    [ch : Descriptors \cup {Null}, info : Nat, err : BOOLEAN]

\* The suffixes local_channel_to_str writes.
PrintedWords ==
    {<<>>, HT40, <<"H", "T", "4", "0", "+">>, <<"W", "5">>, <<"W", "1", "0">>,
     <<"V", "H", "T", "8", "0">>, <<"V", "H", "T", "1", "6", "0">>}

TypeOK ==
    /\ str \in Strings
    /\ printed \in [num : Nums \cup TableFreqs \cup {NoNum}, word : Words \cup PrintedWords,
                    dash : BOOLEAN, center : Centers \cup {NoNum}]
    /\ res \in Results /\ res2 \in Results
    /\ phase \in {"parse", "print", "reparse", "done", "skipped"}

(* Spec 8: for every descriptor chantranslate_callback produces, the text  *)
(* local_channel_to_str prints for it parses back, without error, to the   *)
(* same descriptor: table lookups, explicit centers and HT40 types alike.  *)
RoundTrip ==
    phase = "done" => res2.ch = res.ch /\ ~res2.err

(* Spec 4.1 and the open question on the loop bounds: an HT40- or HT40+    *)
(* channel the table lists is reported with an INFO message exactly when   *)
(* the table does not give it that flag; the HT40- search, bounded by      *)
(* MAX_WIFI_HT_CHANNEL, must see the whole table as the HT40+ search does. *)
HT40Diagnosed ==
    LET d == res.ch
        hits == {ci \in 1..Len(HtTable) : Matches(HtTable[ci], d.control_freq)}
    IN  phase \in {"print", "reparse", "done"} /\ d.chan_type # "none" /\ hits # {}
          => (res.info > 0 <=> \E ci \in hits : d.chan_type \notin HtTable[ci].flags)

(* Spec 3: the invariants of a ChannelDescriptor hold for every descriptor *)
(* chantranslate_callback returns: an HT40 type has no width or centers,   *)
(* an 80 or 160 MHz width has a center, a 5 or 10 MHz width has none.      *)
DescriptorWellFormed ==
    LET d == res.ch IN
    phase \in {"print", "reparse", "done"} =>
        /\ d.chan_type # "none" => d.chan_width = "default" /\ d.center_freq1 = 0
        /\ d.chan_width \in {"80", "160"} => d.center_freq1 # 0
        /\ d.chan_width \in {"5", "10"} => d.center_freq1 = 0

UpperStr(s) == [s EXCEPT !.word = [i \in DOMAIN s.word |-> Upper(s.word[i])]]

(* Spec 4.1: suffixes are case-insensitive, so the descriptor of a string  *)
(* is the descriptor of the same string with its suffix in upper case.     *)
SuffixCaseInsensitive ==
    phase # "parse" =>
        \E junk \in Junk : ParseChan(UpperStr(str), junk).ch = res.ch

=============================================================================
