---------------------------- MODULE MC_WifiOpen ----------------------------
(* WifiOpen on the smallest name space in which every naming branch of     *)
(* open_callback happens: two kismonN names, so that both "kismon0 taken"   *)
(* and "all kismonN taken" are reachable.                                  *)
EXTENDS WifiOpen

MCKismon == <<"kismon0", "kismon1">>
=============================================================================
