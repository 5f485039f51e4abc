----------------------------- MODULE MCSessions -----------------------------
(* Small instances of Sessions for TLC: the cfg files give the model values. *)
EXTENDS Sessions, TLC

(* Users, devices and request slots are interchangeable in the safety runs. *)
MCSymmetry == Permutations(User) \cup Permutations(Device) \cup Permutations(Req)
=============================================================================
