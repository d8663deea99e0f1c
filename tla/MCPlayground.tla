---------------------------- MODULE MCPlayground ----------------------------
(* The playground for TLC: two programs that parse and one that does not,    *)
(* one session at a time, two functions of the page in progress; and the     *)
(* contents of an editor that bring out each part of the highlighter: short  *)
(* texts of characters that start, escape and end strings, then comments and *)
(* prefixes, numbers, operators, and names.                                  *)
EXTENDS Workbench, TLC

CONSTANTS t1, t2, bad

MCText == {t1, t2, bad}
MCBroken == {bad}
Symmetry == Permutations(Id) \cup Permutations(Call) \cup Permutations({t1, t2})

MCValues == BoundedSeq({"\"", "\\", "\n"}, 7)
            \cup BoundedSeq({"\"", "'", "\\", "#", "f", "\n"}, 4)
            \cup BoundedSeq({"0", "x", "1", "_", ".", "e", "+"}, 4)
            \cup BoundedSeq({"*", "/", "<", "=", "?", "-", ">", "&", " "}, 3)
            \cup BoundedSeq({"i", "n", " ", "0", "'"}, 4)
=============================================================================
