------------------------------ MODULE MCLogger ------------------------------
(* Threads and files for TLC. *)
EXTENDS Logger

Two == {"main", "other"}

(* main() may add a file and remove it, or add two. *)
FewCalls == [t \in Two |-> IF t = "main" THEN 2 ELSE 1]

(* A file with the errors only, and one with everything. *)
SomeLevels == {ERROR, 1}

(* Every message flushed at once and stderr, or a flush interval and files only. *)
TwoSettings == {<<0, INFO>>, <<1, OFF>>}
=============================================================================
