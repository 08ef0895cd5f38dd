----------------------------- MODULE MCStartup ------------------------------
(***************************************************************************)
(* An instance of Startup for TLC: an installed program, its successor     *)
(* with one more migration, and one in which a migration was edited.  The  *)
(* first migration makes the table of users, the second has a statement    *)
(* that can be repeated, and the third is a comment.                       *)
(***************************************************************************)
EXTENDS Startup

CONSTANTS old, new, edited, checker, skipper

MCMode == [p \in Process |-> CASE p = checker -> "check" [] p = skipper -> "skip" [] OTHER -> "auto"]

MCFiles ==
  [p \in Process |->
     CASE p = old -> <<"init", "core">>
       [] p = edited -> <<"init", "core2">>
       [] OTHER -> <<"init", "core", "comment">>]

MCScript ==
  [c \in Content |->
     CASE c = "init" -> <<"users", "projects">>
       [] c = "core" -> <<"drop", "index">>
       [] c = "core2" -> <<"drop", "column">>
       [] c = "comment" -> <<>>]
=============================================================================
