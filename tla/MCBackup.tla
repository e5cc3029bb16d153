------------------------------- MODULE MCBackup -------------------------------
(* Two nodes of two labels with one link between them, two collections.      *)
EXTENDS Backup, TLC

CONSTANTS f, d, function, file

MCLabelOf == [k \in Keys |-> IF k = f THEN function ELSE file]
IdsSymmetry == Permutations(Ids)
MCLinks == {<<f, d>>}

===============================================================================
