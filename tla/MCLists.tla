------------------------------ MODULE MCLists ------------------------------
(* Small instances of Lists, each with several rows of some tables. *)
EXTENDS Lists

Bound(u, b, p, c, x, n) ==
  [t \in Table \cup {"name"} |->
    CASE t = "user" -> u [] t = "blog" -> b [] t = "post" -> p
      [] t = "comment" -> c [] t = "ban" -> x [] t = "name" -> n]
MCBounds ==
  {Bound(3, 0, 0, 0, 0, 0), Bound(2, 2, 0, 0, 0, 1), Bound(1, 1, 3, 0, 0, 1), Bound(1, 2, 2, 0, 0, 2),
   Bound(2, 1, 1, 2, 0, 1), Bound(2, 1, 1, 1, 1, 1), Bound(2, 1, 0, 0, 2, 1)}
=============================================================================
