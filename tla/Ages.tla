--------------------------------- MODULE Ages ---------------------------------
(***************************************************************************)
(* Time as ages.  An instant is kept as its age, in ticks.  An age stops   *)
(* at a limit where no comparison of the code tells it from a greater one, *)
(* so that time may go on for ever.                                        *)
(***************************************************************************)
EXTENDS Integers

Least(a, b) == IF a <= b THEN a ELSE b

(* An age one tick later. *)
Aged(age, limit) == Least(age + 1, limit)
=============================================================================
