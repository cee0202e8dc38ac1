------------------------------- MODULE MC_Services -------------------------------
(* TLC instance of the song downloads, with two songs of one size and one twice as *)
(* large, and of the home service, with a lamp and a door.                         *)
EXTENDS SongCache

CONSTANTS ballad, anthem, epic

MCSongs == {ballad, anthem, epic}
MCSize == [v \in MCSongs |-> IF v = epic THEN 2 ELSE 1]

MCDomain == [d \in {"lamp", "door"} |-> IF d = "door" THEN "lock" ELSE "light"]
MCAsked == {-1, 1, 5}
==================================================================================
