---------------------------- MODULE MCReactions -----------------------------
(* Small instances of Reactions for TLC: the cfg files give the model values. *)
EXTENDS Reactions, TLC

MCSymmetry == Permutations(User) \cup Permutations(Post) \cup Permutations(Comment)
              \cup Permutations(Reaction) \cup Permutations(Req)
=============================================================================
