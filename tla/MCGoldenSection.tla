-------------------------- MODULE MCGoldenSection --------------------------
(* Instances of GoldenSection for TLC. *)
EXTENDS GoldenSection

\* None, or one of 250 limits from end to end of the range.
SomeOptima == {0, Min, Max} \union {Min + 1009 * i : i \in 0 .. 247}

=============================================================================
