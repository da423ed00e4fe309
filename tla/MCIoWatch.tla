----------------------------- MODULE MCIoWatch -----------------------------
EXTENDS IoWatch, TLC

Symmetry == Permutations(WatchBlocks) \union Permutations(Fds)

\* Reading with hangups, and writing.
ReadWrite == {{"in", "hup"}, {"out"}}
=============================================================================
