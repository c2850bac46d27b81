------------------------------- MODULE MCDfu -------------------------------
(* Instances of Dfu for TLC: images of one short block, of whole sectors,    *)
(* with a short end; and ones that must not get through: too long, a short   *)
(* block in the middle, a block longer than a sector.                        *)
EXTENDS Dfu

AllImages == {<<1>>, <<2, 2>>, <<2, 1>>, <<2, 2, 1>>, <<1, 1>>, <<1, 2>>, <<2, 3>>}
=============================================================================
