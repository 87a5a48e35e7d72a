--------------------------- MODULE MCUserAccounts ---------------------------
(***************************************************************************)
(* Two WeChat users, one of whom logs in twice at once, two numbers, one   *)
(* of them also the id of a user, two profile changes and one face         *)
(* session.                                                                *)
(***************************************************************************)
EXTENDS UserAccounts, TLC

MCLoginOf == [l \in Logins |-> IF l = "l3" THEN "o2" ELSE "o1"]

\* The profile changes differ in nothing but their names.
Symmetry == Permutations(Edits)
=============================================================================
