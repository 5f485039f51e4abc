-------------------------- MODULE SessionLifecycle --------------------------
(***************************************************************************)
(* What the session table promises, whatever the order in which the awaited *)
(* database calls of concurrent requests run:                               *)
(*   - a device id is opened at most once, for one user, and never reopened *)
(*     after its session ended or its login failed;                         *)
(*   - the owner of an open session never changes;                          *)
(*   - one step closes sessions of one user only.                           *)
(* Sessions implements this specification (SessionsProofs).                 *)
(***************************************************************************)
CONSTANTS User, Device

VARIABLES
  live,    \* owner of each open session: a function from open device ids to users
  spent    \* device ids that can never be opened again

lvars == <<live, spent>>

Init == live = << >> /\ spent = {}

(* A login for user u completes: device d is opened. *)
Open(d, u) ==
  /\ d \notin spent \cup DOMAIN live
  /\ live' = [e \in DOMAIN live \cup {d} |-> IF e = d THEN u ELSE live[e]]
  /\ UNCHANGED spent

(* Some sessions of user u end: logout, log out elsewhere, ban, deletion.   *)
Close(u, D) ==
  /\ \A d \in D : live[d] = u
  /\ live' = [e \in DOMAIN live \ D |-> live[e]]
  /\ spent' = spent \cup D

(* A login that had drawn id d fails: the id is never used. *)
Abandon(d) ==
  /\ d \notin spent \cup DOMAIN live
  /\ spent' = spent \cup {d}
  /\ UNCHANGED live

Next ==
  \/ \E d \in Device, u \in User : Open(d, u)
  \/ \E u \in User : \E D \in SUBSET DOMAIN live : Close(u, D)
  \/ \E d \in Device : Abandon(d)

Spec == Init /\ [][Next]_lvars
=============================================================================
