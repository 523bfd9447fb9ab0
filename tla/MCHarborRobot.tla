----------------------------- MODULE MCHarborRobot -----------------------------
(* HarborRobot with two accounts, two metadata values and two markers.     *)
EXTENDS HarborRobot
CONSTANTS m1, m2, v1, v2
=============================================================================
