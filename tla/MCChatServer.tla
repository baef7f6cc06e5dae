----------------------------- MODULE MCChatServer -----------------------------
(***************************************************************************)
(* Small instances of the chat server and of its room; the numbers are in  *)
(* the .cfg files.  The connections are interchangeable (the table and the *)
(* backlog refer to them only by position), so the runs of safety          *)
(* properties take one representative of each permutation of them.         *)
(***************************************************************************)
EXTENDS ChatServer, TLC

Symmetry == Permutations(Conns)
===============================================================================
