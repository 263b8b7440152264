--------------------------- MODULE MCFilesChannel ---------------------------
EXTENDS FilesChannel, TLC

CONSTANTS i1, i2, i3, t1, t2, v1, v2

MCIds == {i1, i2, i3}
MCTags == {t1, t2}
\* Two values, so that an update overwriting one value by another is seen.
MCVals == {v1, v2}

\* No id is singled out by a constant (the tag Destroyed and the value True
\* are), so the ids are a symmetry set.
symmIds == Permutations(MCIds)
=============================================================================
