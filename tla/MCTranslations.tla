--------------------------- MODULE MCTranslations ---------------------------
(* Kinds of disk for TLC *)
EXTENDS Translations

Kind == [openFails |-> FALSE, sameTick |-> FALSE]
MCDisk == {Kind, [Kind EXCEPT !.openFails = TRUE], [openFails |-> TRUE, sameTick |-> TRUE]}
MCLocked == {[Kind EXCEPT !.openFails = TRUE]}
=============================================================================
