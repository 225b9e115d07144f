-------------------------------- MODULE Ages --------------------------------
(***************************************************************************)
(* Time as the code uses it: a stamp is only ever compared with now, so a  *)
(* module keeps the age of the stamp instead.  An age saturates at the     *)
(* limit the module names, once no comparison in the code can tell it from *)
(* a larger one; NoStamp is a stamp that was never taken.  The clocks are  *)
(* steady: the branches for a stamp that lies in the future are not taken. *)
(***************************************************************************)
EXTENDS Integers

NoStamp == -1

Age(limit) == (0..limit) \cup {NoStamp}

Older(age, limit) == IF age = NoStamp \/ age >= limit THEN age ELSE age + 1

=============================================================================
