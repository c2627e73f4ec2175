------------------------------ MODULE MCDbtBuild ------------------------------
(* Small instances of DbtBuild for TLC. *)
EXTENDS DbtBuild

CONSTANTS w1, w2

Row(ts, wiki) == [ts |-> ts, wiki |-> wiki]

\* Hours 0, 1 and 2; the wiki of the first row is not seen again.
ThreeRows == {Row(1, w2), Row(3, w1), Row(4, w1)}

\* A wiki with one edit, and another that stays active.
TwoRows == {Row(0, w2), Row(5, w1)}

=============================================================================
