--------------------------- MODULE MCTranslation ---------------------------
(* Two address spaces: space 0 has a page whose mapping software edits and *)
(* a misaligned superpage, space 1 maps the same pages by superpages, one  *)
(* of them execute-only, from a table in ROM.                              *)
EXTENDS Translation, TLC

Root == <<0, 0>>
Leaf == <<0, 1>>
Other == <<1, 0>>

Ptes(flagSets, frame) == {[flags |-> f, ppn |-> frame] : f \in flagSets}

MCEdits ==
  (Root  :> (0 :> Ptes({{"V"}}, Leaf) @@
             1 :> Ptes({{"V", "R"}}, <<0, 1>>))) @@
  (Leaf  :> (0 :> Ptes({{}, {"V", "R", "U"}, {"V", "R", "W"}}, <<1, 1>>) @@
             1 :> Ptes({{"V", "W"}}, <<1, 0>>))) @@
  (Other :> (0 :> Ptes({{"V", "R", "W"}}, <<1, 0>>) @@
             1 :> Ptes({{"V", "X", "U"}}, <<0, 0>>)))

MCTables == {Root, Leaf, Other}
MCRom == {Other}
MCPages == {<<0, 0>>, <<1, 0>>}

MCSatp ==
  {ResetSatp, [sv32 |-> TRUE, asid |-> 0, root |-> Root],
   [sv32 |-> TRUE, asid |-> 1, root |-> Other]}
=============================================================================
