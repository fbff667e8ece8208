------------------------ MODULE MCAdamSheetHistory ------------------------
(* AdamSheetHistory on the sheets of MCAdamSheet. *)
EXTENDS AdamSheetHistory, MCAdamSheet

(* But for those that show why they are needed, the sheets fulfil the hypotheses of the
   theorems about them. *)
ASSUME HypothesesHold ==
  /\ Chosen \cap {"overfiltered", "entangled"} = {} => \A s \in MCSheets : Layered(s) /\ ReadsOnce(s)
  /\ \A s \in MCSheets : DeclaredOnce(s) /\ EvenlyAccessed(s)

(* Sheets of three interface cells are checked with one order of the hash index,
   the others with all. *)
ClientInit == SHInit /\ ("c" \in Names => output_index = <<"a", "b", "c", "o">>)
ClientSpec == ClientInit /\ [][SHNext]_shvars
=============================================================================
