----------------------------- MODULE MCResizeFlow -----------------------------
(* Small instances of ResizeFlow for TLC.  *)
EXTENDS ResizeFlow, TLC

\* Two sizes neither of which fits in the other, and one that holds both.
MCWide == [rows |-> 1, cols |-> 2]
MCTall == [rows |-> 2, cols |-> 1]
MCLarge == [rows |-> 2, cols |-> 2]
MCSizes == {MCWide, MCTall, MCLarge}
MCOneSize == {MCWide}

\* Clients are interchangeable and so are sessions: sound for invariants.
Symmetric == Permutations(Clients) \cup Permutations(Sessions)

\* Nothing is claimed once two threads have overlapped: see FitsIfApart.
Apart == apart
=============================================================================
