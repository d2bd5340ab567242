---------------------------- MODULE MC_ChanGrammar ----------------------------
(* A five-entry HT table with 2.4 and 5 GHz channels: one without any 40,  *)
(* 80 or 160 MHz flag (165, the last entry), channels found by number and  *)
(* by frequency, and 14, which the table does not list.                    *)
EXTENDS ChanGrammar

MCHtTable ==
    << [chan |-> 1,   freq |-> 2412, flags |-> {"HT40+"}, freq80 |-> 0, freq160 |-> 0],
       [chan |-> 13,  freq |-> 2472, flags |-> {"HT40-"}, freq80 |-> 0, freq160 |-> 0],
       [chan |-> 36,  freq |-> 5180, flags |-> {"HT40+", "HT80", "HT160"},
        freq80 |-> 5210, freq160 |-> 5250],
       [chan |-> 40,  freq |-> 5200, flags |-> {"HT40-", "HT80"},
        freq80 |-> 5210, freq160 |-> 5250],
       [chan |-> 165, freq |-> 5825, flags |-> {}, freq80 |-> 0, freq160 |-> 0] >>

MCMaxHtChannel == 5

MCNums == {1, 14, 36, 40, 165, 5180}

MCCenters == {5290}

MCWords ==
    { <<>>, <<"H", "T", "4", "0">>, <<"H", "T", "4", "0", "+">>,
      <<"H", "T", "4", "0", "x">>, <<"h", "t", "4", "0">>, <<"X", "Y">>,
      <<"W", "5">>, <<"w", "1", "0">>, <<"V", "H", "T", "8", "0">>,
      <<"v", "h", "t", "8", "0">>, <<"V", "H", "T", "1", "6", "0">>,
      <<"V", "h", "t", "1", "6", "0">> }

=============================================================================
