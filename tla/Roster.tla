------------------------------- MODULE Roster -------------------------------
(***************************************************************************)
(* The two teams of a match (schemas/enums.py, and _team of                *)
(* producer/simulator.py).                                                 *)
(***************************************************************************)
CONSTANTS CTs, Ts \* player ids of the two sides

Sides == {"CT", "T"}
Opponent(side) == IF side = "CT" THEN "T" ELSE "CT"
Team(side) == IF side = "CT" THEN CTs ELSE Ts
=============================================================================
