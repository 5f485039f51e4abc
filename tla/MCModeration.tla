---------------------------- MODULE MCModeration ----------------------------
(* Small instances of Moderation for TLC: the cfg files give the model values. *)
EXTENDS Moderation, TLC

MCSymmetry == Permutations(User) \cup Permutations(Blog) \cup Permutations(Post)
              \cup Permutations(Comment) \cup Permutations(Ban) \cup Permutations(Req)
=============================================================================
