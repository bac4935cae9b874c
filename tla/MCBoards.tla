------------------------------ MODULE MCBoards ------------------------------
(* Boards for TLC: boards, recipes and requests are interchangeable, and so *)
(* are users, whose default cookbooks carry their names.                   *)
EXTENDS Boards, TLC

BoardsSymmetry ==
  Permutations(User) \cup Permutations(Board) \cup Permutations(Recipe) \cup Permutations(Request)

\* added_by is written and never read: rows that differ in it only count as one.
BoardsView == <<board, role, owner, {<<p[1], p[2]>> : p \in placed}, tx>>
=============================================================================
