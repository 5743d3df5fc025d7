---------------------------- MODULE MCProjectPicker ----------------------------
(* Small instances of ProjectPicker for TLC.  *)
EXTENDS ProjectPicker

\* A home directory 0, a directory 1 in it and 2 inside that.
MCBelow == {<<1, 0>>, <<2, 0>>, <<2, 1>>}
=============================================================================
