---------------------------- MODULE MCSteamSession ----------------------------
EXTENDS SteamSession, TLC

\* A game in the background and a visible Steam.
MCKinds == {<<TRUE, TRUE>>, <<FALSE, FALSE>>}

Symmetry == Permutations(Starts)

==============================================================================
