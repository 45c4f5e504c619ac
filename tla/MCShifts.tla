------------------------------ MODULE MCShifts ------------------------------
(* Shifts of one owner, who may name every outlet, and two requests.       *)
EXTENDS Shifts, TLC

CONSTANTS owner, branch, r1, r2, x1, x2, s1

MCAccess == owner :> {}

AnyName == Permutations(Requests) \cup Permutations(ShiftIds)
=============================================================================
