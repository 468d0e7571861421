--------------------------- MODULE MCFileSystem ---------------------------
(* Two files on a disk of 16 sectors of two bytes.  The header names two   *)
(* sectors instead of 30, an index sector two instead of 32: a file of 3   *)
(* bytes has direct sectors only, one of 5 an index, one of 9 two levels.  *)
EXTENDS FileSystem, TLC

CONSTANTS f, g

MCName == {f, g}
MCData == {<<1, 2>>}
MCSymmetry == Permutations(MCName)
=============================================================================
