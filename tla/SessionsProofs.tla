--------------------------- MODULE SessionsProofs ---------------------------
(* Proofs about Sessions, for any sets of users, devices and requests. *)
EXTENDS Sessions, TLAPS

USE DEF Idle, PC, LoginPC, RefreshPC, EndPC, AdminPC, HolderPC

(* Every step of Sessions.Next keeps the types: what a request carries comes  *)
(* from a row, a token or an id that was drawn.                             *)
LEMMA TypeNext == TypeOK /\ [Next]_vars => TypeOK'
<1> SUFFICES ASSUME TypeOK, [Next]_vars PROVE TypeOK'
  OBVIOUS
<1> USE NoneAssumption DEF TypeOK, Row, Pair, Start, Step, Finish, Owned, Ended, Restrict
<1>1. ASSUME NEW r \in Req, NEW u \in User, NEW d \in Device, LoginFind(r, u, d) PROVE TypeOK'
  BY <1>1 DEF LoginFind
<1>2. ASSUME NEW r \in Req, NEW t \in tokens, NEW d \in created,
             NEW pc \in {"refreshSign", "logout", "deleteOthers", "deleteFind"},
             pc = "deleteFind" \/ d = t.dev, Guarded(r, t, pc, d)
      PROVE TypeOK'
  BY <1>2 DEF Guarded
<1>3. ASSUME NEW r \in Req, NEW u \in User, NEW pc \in {"banUpdate", "unbanUpdate"},
             BanFind(r, u, pc)
      PROVE TypeOK'
  BY <1>3 DEF BanFind
<1>4. ASSUME NEW r \in Req, NEW t \in Nat, LoginSign(r, t) \/ RefreshSign(r, t)
      PROVE TypeOK'
  <2>1. PICK pc \in PC : req' = [req EXCEPT ![r] = [req[r] EXCEPT !.pc = pc, !.at = clock, !.rt = t]]
                         /\ pc \in {"createSession", "refreshUpdate"} /\ req[r].pc \in {"loginSign", "refreshSign"}
    BY <1>4 DEF LoginSign, RefreshSign, Sign
  <2>2. req' \in [Req -> [pc : PC, user : User \cup {None}, dev : Device \cup {None},
                      at : Nat, rt : Nat]]
    BY <2>1
  <2>3. UNCHANGED <<users, banned, sessions, created, tokens, held>> /\ clock' \in Nat
    BY <1>4 DEF LoginSign, RefreshSign, Sign
  <2>4. \A q \in Req : /\ req'[q].pc # "idle" => req'[q].user \in User
                       /\ req'[q].pc \in LoginPC \cup HolderPC => req'[q].dev \in created
    BY <2>1
  <2> QED
    BY <2>2, <2>3, <2>4
<1>5. ASSUME NEW r \in Req, CreateSession(r) PROVE TypeOK'
  BY <1>5 DEF CreateSession
<1>6. ASSUME NEW r \in Req, Respond(r) PROVE TypeOK'
  BY <1>6 DEF Respond
<1>7. ASSUME NEW r \in Req, RefreshUpdate(r) PROVE TypeOK'
  BY <1>7 DEF RefreshUpdate
<1>8. ASSUME NEW r \in Req, DeleteOthers(r) PROVE TypeOK'
  BY <1>8 DEF DeleteOthers
<1>9. ASSUME NEW r \in Req, BanUpdate(r) PROVE TypeOK'
  BY <1>9 DEF BanUpdate
<1>10. ASSUME NEW u \in User, DeleteUser(u) PROVE TypeOK'
  BY <1>10 DEF DeleteUser
<1>11. ASSUME NEW r \in Req, NEW pc \in PC, Finish(r, pc),
              UNCHANGED <<users, banned, sessions, created, tokens, held, clock>>
       PROVE TypeOK'
  BY <1>11
<1>12. ASSUME NEW r \in Req, UnbanUpdate(r) PROVE TypeOK'
  BY <1>12 DEF UnbanUpdate
<1>13. ASSUME NEW r \in Req, DeleteFind(r) PROVE TypeOK'
  BY <1>13 DEF DeleteFind
<1>14. ASSUME NEW r \in Req, BanSessions(r) \/ Logout(r) \/ DeleteSession(r) PROVE TypeOK'
  <2>1. PICK pc \in {"banSessions", "logout", "deleteSession"} :
          /\ Finish(r, pc) /\ \E D : sessions' = Ended(D)
          /\ UNCHANGED <<users, banned, created, tokens, held, clock>>
    BY <1>14 DEF BanSessions, Logout, DeleteSession, DeleteByDevice
  <2> QED
    BY <2>1
<1>15. CASE Tick \/ UNCHANGED vars
  BY <1>15 DEF Tick, vars
<1> HIDE DEF TypeOK, Row, Pair, Start, Step, Finish, Owned, Ended, Restrict
<1>16. ASSUME NEW r \in Req, Continue(r) PROVE TypeOK'
  BY <1>16, <1>4, <1>5, <1>6, <1>7, <1>8, <1>9, <1>11, <1>12, <1>13, <1>14
     DEF Continue, CreateSessionFails, RefreshUpdateFails
<1>17. ASSUME NEW r \in Req, Arrive(r) PROVE TypeOK'
  <2>1. \A t \in tokens : RefreshAccepted(t) => t.dev \in created
    BY DEF TypeOK, RefreshAccepted
  <2> QED
    BY <1>17, <1>1, <1>2, <1>3, <2>1
    DEF Arrive, RefreshGuard, LogoutGuard, DeleteOthersGuard, DeleteSessionGuard, Guarded
<1>18. ASSUME NEW r \in Req, Abort(r) PROVE TypeOK'
  BY <1>18, <1>11 DEF Abort, TypeOK
<1> QED
  BY <1>10, <1>15, <1>16, <1>17, <1>18 DEF Next

(* A step of one request leaves every other request alone. *)
LEMMA OneRequest ==
  ASSUME TypeOK, NEW r \in Req, NEW s \in Req \ {r}, Arrive(s) \/ Continue(s) \/ Abort(s)
  PROVE  req'[r] = req[r]
BY DEF TypeOK, Arrive, Continue, Abort, LoginFind, RefreshGuard, LogoutGuard, DeleteOthersGuard,
   DeleteSessionGuard, Guarded, BanFind, LoginSign, RefreshSign, Sign, CreateSession,
   CreateSessionFails, Respond, RefreshUpdate, RefreshUpdateFails, Logout, DeleteSession,
   DeleteByDevice, DeleteOthers, DeleteFind, BanUpdate, BanSessions, UnbanUpdate, Start, Step, Finish

(* A client gets tokens only in a response. *)
LEMMA TokensStep == [Next]_vars => tokens' = tokens \/ \E r \in Req : Respond(r)
BY DEF Next, vars, Arrive, Continue, LoginFind, RefreshGuard, LogoutGuard, DeleteOthersGuard,
   DeleteSessionGuard, Guarded, BanFind, LoginSign, RefreshSign, Sign, CreateSession,
   CreateSessionFails, RefreshUpdate, RefreshUpdateFails, Logout, DeleteSession,
   DeleteByDevice, DeleteOthers, DeleteFind, BanUpdate, BanSessions, UnbanUpdate,
   DeleteUser, Abort, Tick

(* What a step does to the login device ids and to the owners of sessions:  *)
(* only LoginFind puts an id in flight, and it is a new one; only           *)
(* CreateSession adds a session, with an id that was in flight.             *)
OpeningStep ==
  \A q \in Req : req'[q].pc \in LoginPC =>
    \/ req[q].pc \in LoginPC /\ req'[q].dev = req[q].dev
    \/ req'[q].dev \notin created
OwnerStep ==
  \A d \in DOMAIN sessions' :
    \/ d \in DOMAIN sessions /\ sessions'[d].user = sessions[d].user
    \/ d \in Opening

(* Drawn ids stay drawn, and every step is as the two definitions say. *)
LEMMA StepFacts ==
  ASSUME TypeOK, [Next]_vars
  PROVE  created \subseteq created' /\ OpeningStep /\ OwnerStep
<1> DEFINE G == created \subseteq created' /\ OpeningStep /\ OwnerStep
<1> USE DEF TypeOK, Row, Pair, Start, Step, Finish, Owned, Ended, Restrict, OpeningStep, OwnerStep
<1>1. ASSUME NEW r \in Req, NEW u \in User, NEW d \in Device, LoginFind(r, u, d) PROVE G
  BY <1>1 DEF LoginFind
<1>2. ASSUME NEW r \in Req, NEW t \in tokens, NEW d,
             NEW pc \in {"refreshSign", "logout", "deleteOthers", "deleteFind"}, Guarded(r, t, pc, d)
      PROVE G
  BY <1>2 DEF Guarded
<1>3. ASSUME NEW r \in Req, NEW u \in User, NEW pc \in {"banUpdate", "unbanUpdate"},
             BanFind(r, u, pc)
      PROVE G
  BY <1>3 DEF BanFind
<1>4. ASSUME NEW r \in Req, NEW t \in Nat, LoginSign(r, t) \/ RefreshSign(r, t)
      PROVE G
  <2>1. PICK pc \in {"createSession", "refreshUpdate"} :
          /\ req' = [req EXCEPT ![r] = [req[r] EXCEPT !.pc = pc, !.at = clock, !.rt = t]]
          /\ req[r].pc = "loginSign" <=> pc = "createSession"
    BY <1>4 DEF LoginSign, RefreshSign, Sign
  <2> QED
    BY <1>4, <2>1 DEF LoginSign, RefreshSign, Sign
<1>5. ASSUME NEW r \in Req, CreateSession(r) PROVE G
  BY <1>5 DEF CreateSession, Opening
<1>6. ASSUME NEW r \in Req, Respond(r) PROVE G
  BY <1>6 DEF Respond
<1>7. ASSUME NEW r \in Req, RefreshUpdate(r) PROVE G
  BY <1>7 DEF RefreshUpdate
<1>8. ASSUME NEW r \in Req, DeleteOthers(r) PROVE G
  BY <1>8 DEF DeleteOthers
<1>9. ASSUME NEW r \in Req, BanUpdate(r) \/ UnbanUpdate(r) \/ DeleteFind(r) PROVE G
  BY <1>9 DEF BanUpdate, UnbanUpdate, DeleteFind
<1>10. ASSUME NEW u \in User, DeleteUser(u) PROVE G
  BY <1>10 DEF DeleteUser
<1>11. ASSUME NEW r \in Req, NEW pc \in PC, Finish(r, pc), UNCHANGED <<sessions, created>>
       PROVE G
  BY <1>11
<1>12. ASSUME NEW r \in Req, BanSessions(r) \/ Logout(r) \/ DeleteSession(r) PROVE G
  BY <1>12 DEF BanSessions, Logout, DeleteSession, DeleteByDevice
<1>13. CASE Tick \/ UNCHANGED vars
  BY <1>13 DEF Tick, vars
<1> HIDE DEF G, TypeOK, Row, Pair, Start, Step, Finish, Owned, Ended, Restrict
<1>14. ASSUME NEW r \in Req, Continue(r) PROVE G
  BY <1>14, <1>4, <1>5, <1>6, <1>7, <1>8, <1>9, <1>11, <1>12
     DEF Continue, CreateSessionFails, RefreshUpdateFails
<1>15. ASSUME NEW r \in Req, Arrive(r) PROVE G
  BY <1>15, <1>1, <1>2, <1>3
     DEF Arrive, RefreshGuard, LogoutGuard, DeleteOthersGuard, DeleteSessionGuard
<1>16. ASSUME NEW r \in Req, Abort(r) PROVE G
  BY <1>16, <1>11 DEF Abort, TypeOK
<1> QED
  BY <1>10, <1>13, <1>14, <1>15, <1>16 DEF Next, G

(* What a token holder or an accepted request knows stays true. *)
LEMMA KnowsStable ==
  ASSUME TypeOK, [Next]_vars, NEW u, NEW d, Knows(u, d)
  PROVE  Knows(u, d)'
<1>1. created \subseteq created' /\ OpeningStep /\ OwnerStep
  BY StepFacts
<1>2. d \notin Opening'
  BY <1>1 DEF Knows, Opening, OpeningStep
<1> QED
  BY <1>1, <1>2 DEF Knows, OwnerStep

-----------------------------------------------------------------------------
(* Each part of the invariant is kept by every step. *)
LEMMA TokensNext ==
  ASSUME TypeOK, HoldersKnow, TokensNameTheirOwner, [Next]_vars
  PROVE  TokensNameTheirOwner'
<1>1. \A t \in tokens' : t \in tokens \/ \E r \in Req : /\ req[r].pc = "respond"
                                                    /\ t.user = req[r].user /\ t.dev = req[r].dev
  <2>1. ASSUME NEW r \in Req, Respond(r)
        PROVE \A t \in tokens' : t \in tokens \/ (t.user = req[r].user /\ t.dev = req[r].dev)
    BY <2>1 DEF Respond
  <2>2. tokens' = tokens \/ \E r \in Req : Respond(r)
    BY TokensStep
  <2> QED
    BY <2>1, <2>2 DEF Respond, Finish
<1>2. \A t \in tokens' : Knows(t.user, t.dev)
  BY <1>1 DEF HoldersKnow, TokensNameTheirOwner, HolderPC
<1> QED
  BY <1>2, KnowsStable DEF TokensNameTheirOwner

(* A session is inserted only while its user exists (the foreign key), and a *)
(* deletion takes the user's sessions along (the cascade).                  *)
LEMMA SessionOwnerNext ==
  ASSUME TypeOK, SessionOwnerExists, [Next]_vars
  PROVE  SessionOwnerExists'
<1> USE DEF SessionOwnerExists
<1>1. ASSUME NEW r \in Req, CreateSession(r) PROVE SessionOwnerExists'
  BY <1>1 DEF CreateSession
<1>2. ASSUME NEW u \in User, DeleteUser(u) PROVE SessionOwnerExists'
  BY <1>2 DEF DeleteUser, Ended, Owned, Restrict
<1>3. ASSUME users' = users, NEW D, sessions' = Ended(D) PROVE SessionOwnerExists'
  BY <1>3 DEF Ended, Restrict
<1>4. ASSUME NEW r \in Req, RefreshUpdate(r) PROVE SessionOwnerExists'
  BY <1>4 DEF RefreshUpdate, TypeOK, Row
<1>5. CASE UNCHANGED <<users, sessions>>
  BY <1>5
<1> HIDE DEF SessionOwnerExists
<1>6. ASSUME NEW r \in Req, Continue(r) PROVE SessionOwnerExists'
  BY <1>6, <1>1, <1>3, <1>4, <1>5
  DEF Continue, LoginSign, RefreshSign, Sign, CreateSessionFails, Respond, RefreshUpdateFails,
      Logout, DeleteSession, DeleteByDevice, DeleteOthers, DeleteFind, BanUpdate, BanSessions,
      UnbanUpdate
<1>7. ASSUME NEW r \in Req, Arrive(r) PROVE SessionOwnerExists'
  BY <1>7, <1>5 DEF Arrive, LoginFind, RefreshGuard, LogoutGuard, DeleteOthersGuard,
     DeleteSessionGuard, Guarded, BanFind
<1> QED
  BY <1>2, <1>5, <1>6, <1>7 DEF Next, Abort, Tick, vars

(* randomUUID draws an id no login and no session has, and CreateSession ends *)
(* the login as it inserts the session.                                     *)
LEMMA OpeningNext ==
  ASSUME TypeOK, OpeningFresh, [Next]_vars
  PROVE  OpeningFresh'
<1> USE DEF TypeOK, OpeningFresh, Start, Step, Finish
<1>1. ASSUME NEW r \in Req, NEW u \in User, NEW d \in Device, LoginFind(r, u, d)
      PROVE OpeningFresh'
  BY <1>1 DEF LoginFind
<1>2. ASSUME NEW r \in Req, CreateSession(r) PROVE OpeningFresh'
  BY <1>2 DEF CreateSession
<1>3. ASSUME created' = created, DOMAIN sessions' \subseteq DOMAIN sessions,
             \A q \in Req : req'[q].pc \in LoginPC => req[q].pc \in LoginPC /\ req'[q].dev = req[q].dev
      PROVE OpeningFresh'
  BY <1>3
<1> HIDE DEF OpeningFresh
<1>4. ASSUME NEW r \in Req, Arrive(r) PROVE OpeningFresh'
  <2>1. ASSUME NEW t \in tokens, NEW d,
               NEW pc \in {"refreshSign", "logout", "deleteOthers", "deleteFind"},
               Guarded(r, t, pc, d)
        PROVE OpeningFresh'
    BY <1>3, <2>1 DEF Guarded
  <2>2. ASSUME NEW u \in User, NEW pc \in {"banUpdate", "unbanUpdate"}, BanFind(r, u, pc)
        PROVE OpeningFresh'
    BY <1>3, <2>2 DEF BanFind
  <2> HIDE DEF Start
  <2> QED
    BY <1>1, <1>4, <2>1, <2>2
    DEF Arrive, RefreshGuard, LogoutGuard, DeleteOthersGuard, DeleteSessionGuard
<1>5. ASSUME NEW r \in Req, Continue(r) PROVE OpeningFresh'
  <2>1. ASSUME NEW t \in Nat, LoginSign(r, t) \/ RefreshSign(r, t) PROVE OpeningFresh'
    BY <1>3, <2>1 DEF LoginSign, RefreshSign, Sign
  <2>2. ASSUME NEW pc \in PC, Finish(r, pc), created' = created,
               DOMAIN sessions' \subseteq DOMAIN sessions
        PROVE OpeningFresh'
    BY <1>3, <2>2
  <2>3. ASSUME NEW from \in PC, NEW to \in PC \ LoginPC, Step(r, from, to), created' = created,
               DOMAIN sessions' \subseteq DOMAIN sessions
        PROVE OpeningFresh'
    BY <1>3, <2>3
  <2>4. DOMAIN [sessions EXCEPT ![req[r].dev].last = req[r].rt] = DOMAIN sessions
    OBVIOUS
  <2> HIDE DEF Step, Finish
  <2> QED
    BY <1>2, <1>5, <2>1, <2>2, <2>3, <2>4
    DEF Continue, Respond, CreateSessionFails, RefreshUpdate, RefreshUpdateFails, Logout,
        DeleteSession, DeleteByDevice, DeleteOthers, DeleteFind, BanUpdate, BanSessions,
        UnbanUpdate, Ended, Restrict
<1>6. ASSUME NEW r \in Req, Abort(r) PROVE OpeningFresh'
  BY <1>3, <1>6 DEF Abort
<1>7. ASSUME NEW u \in User, DeleteUser(u) PROVE OpeningFresh'
  BY <1>3, <1>7 DEF DeleteUser, Ended, Restrict
<1>8. CASE Tick \/ UNCHANGED vars
  BY <1>3, <1>8 DEF Tick, vars
<1> QED
  BY <1>4, <1>5, <1>6, <1>7, <1>8 DEF Next

(* A request that comes to hold a device id knows it: from the guard, from   *)
(* the ownership check of DeleteFind, or because it has just opened it.      *)
LEMMA HoldersNext ==
  ASSUME TypeOK, OpeningFresh, HoldersKnow, TokensNameTheirOwner, [Next]_vars
  PROVE  HoldersKnow'
<1> DEFINE New(r) == (req[r].pc \in HolderPC => Knows(req[r].user, req[r].dev))'
           Old(r) == req'[r].pc \in HolderPC => /\ req[r].pc \in HolderPC
                                               /\ req'[r].user = req[r].user
                                               /\ req'[r].dev = req[r].dev
<1>0. \A u, d : Knows(u, d) => Knows(u, d)'
  BY KnowsStable
<1>1. ASSUME NEW r \in Req, Old(r) PROVE New(r)
  BY <1>0, <1>1 DEF HoldersKnow
<1> SUFFICES ASSUME NEW r \in Req PROVE Old(r) \/ New(r)
  BY <1>1 DEF HoldersKnow
<1>2. CASE req'[r] = req[r]
  BY <1>2
<1> USE DEF TypeOK, Start, Step, Finish
<1>3. ASSUME NEW t \in tokens, NEW d \in created,
             NEW pc \in {"refreshSign", "logout", "deleteOthers", "deleteFind"},
             pc = "deleteFind" \/ d = t.dev, Guarded(r, t, pc, d)
      PROVE New(r)
  BY <1>0, <1>3 DEF Guarded, TokensNameTheirOwner
<1>4. ASSUME NEW u \in User, NEW d \in Device, LoginFind(r, u, d) PROVE New(r)
  BY <1>4 DEF LoginFind
<1>5. ASSUME NEW u \in User, NEW pc \in {"banUpdate", "unbanUpdate"}, BanFind(r, u, pc)
      PROVE New(r)
  BY <1>5 DEF BanFind
<1>6. ASSUME CreateSession(r) PROVE New(r)
  <2>1. \A s \in Req \ {r} : req'[s] = req[s]
    BY <1>6 DEF CreateSession
  <2>2. req[r].dev \in created \ Opening'
    BY <1>6, <2>1 DEF CreateSession, Opening, OpeningFresh
  <2> QED
    BY <1>6, <2>2 DEF CreateSession, Knows
<1>7. ASSUME NEW t \in Nat, LoginSign(r, t) \/ RefreshSign(r, t) PROVE Old(r)
  BY <1>7 DEF LoginSign, RefreshSign, Sign
<1>8. ASSUME DeleteFind(r) PROVE New(r)
  <2>1. CASE req[r].dev \in Owned(req[r].user)
    <3>1. Knows(req[r].user, req[r].dev)
      BY <2>1 DEF Owned, OpeningFresh, Opening, Knows
    <3> QED
      BY <1>0, <1>8, <2>1, <3>1 DEF DeleteFind
  <2>2. CASE req[r].dev \notin Owned(req[r].user)
    BY <1>8, <2>2 DEF DeleteFind
  <2> QED
    BY <2>1, <2>2
<1>9. ASSUME NEW pc \in PC, Finish(r, pc) PROVE Old(r)
  BY <1>9
<1>10. ASSUME NEW from \in PC, NEW to \in PC, Step(r, from, to), to \notin HolderPC \/ from \in HolderPC
       PROVE Old(r)
  BY <1>10
<1> HIDE DEF Start, Step, Finish, New, Old
<1>11. ASSUME Arrive(r) PROVE New(r)
  BY <1>11, <1>3, <1>4, <1>5
  DEF Arrive, RefreshGuard, LogoutGuard, DeleteOthersGuard, DeleteSessionGuard, Guarded, RefreshAccepted
<1>12. ASSUME Continue(r) PROVE Old(r) \/ New(r)
  BY <1>12, <1>6, <1>7, <1>8, <1>9, <1>10
  DEF Continue, Respond, CreateSessionFails, RefreshUpdate, RefreshUpdateFails, Logout,
      DeleteSession, DeleteByDevice, DeleteOthers, BanUpdate, BanSessions, UnbanUpdate
<1>13. ASSUME Abort(r) PROVE Old(r)
  BY <1>13, <1>9 DEF Abort
<1>14. CASE \E s \in Req \ {r} : Arrive(s) \/ Continue(s) \/ Abort(s)
  <2>1. req'[r] = req[r]
    BY <1>14, OneRequest
  <2> QED
    BY <1>2, <2>1
<1>15. CASE req' = req
  BY <1>2, <1>15
<1> QED
  BY <1>11, <1>12, <1>13, <1>14, <1>15 DEF Next, DeleteUser, Tick, vars

-----------------------------------------------------------------------------
(* The empty tables satisfy the inductive invariant. *)
LEMMA InitIInv == Init => IInv
  BY DEF Init, IInv, TypeOK, SessionOwnerExists, OpeningFresh, HoldersKnow, TokensNameTheirOwner

(* Every step keeps the inductive invariant, whatever requests interleave. *)
LEMMA NextIInv == IInv /\ [Next]_vars => IInv'
  BY TypeNext, SessionOwnerNext, OpeningNext, HoldersNext, TokensNext DEF IInv

(* The inductive invariant of every specification of sessions. *)
THEOREM Invariance == Spec => []IInv
<1>1. Init => IInv
  BY InitIInv
<1>2. IInv /\ [Next]_vars => IInv'
  BY NextIInv
<1> QED
  BY <1>1, <1>2, PTL DEF Spec

(* The tables, the tokens and the requests' locals keep their types. *)
THEOREM TypeCorrect == Spec => []TypeOK
<1>1. IInv => TypeOK
  BY DEF IInv
<1> QED
  BY <1>1, Invariance, PTL

(* No session outlives its user. *)
THEOREM OwnerExists == Spec => []SessionOwnerExists
<1>1. IInv => SessionOwnerExists
  BY DEF IInv
<1> QED
  BY <1>1, Invariance, PTL

(* No token ever names another user's session. *)
THEOREM TokenOwner == Spec => []TokensNameTheirOwner
<1>1. IInv => TokensNameTheirOwner
  BY DEF IInv
<1> QED
  BY <1>1, Invariance, PTL

(* A request past its guard or its ownership check acts on its own user's    *)
(* session or on none, however late it acts.                                *)
THEOREM HoldersRight == Spec => []HoldersKnow
<1>1. IInv => HoldersKnow
  BY DEF IInv
<1> QED
  BY <1>1, Invariance, PTL

-----------------------------------------------------------------------------
(* The steps behind SessionsEndByRight: only logout, delete, delete-others,   *)
(* the ban and the deletion of a user remove rows of DeviceSessions.        *)
LEMMA EndStep ==
  ASSUME IInv, Next, NEW d \in DOMAIN sessions \ DOMAIN sessions'
  PROVE  EndedByRight(d)
<1> USE DEF IInv, TypeOK, Finish, Owned, Ended, Restrict, EndedByRight
<1>1. ASSUME NEW r \in Req, Logout(r) \/ DeleteSession(r) PROVE EndedByRight(d)
  <2>1. d = req[r].dev /\ req'[r] = Idle /\ req[r].pc \in {"logout", "deleteSession"}
    BY <1>1 DEF Logout, DeleteSession, DeleteByDevice
  <2>2. req[r].user = sessions[d].user
    BY <2>1 DEF HoldersKnow, Knows
  <2> QED
    BY <2>1, <2>2
<1>2. ASSUME NEW r \in Req, DeleteOthers(r) PROVE EndedByRight(d)
  BY <1>2 DEF DeleteOthers
<1>3. ASSUME NEW r \in Req, BanSessions(r) PROVE EndedByRight(d)
  BY <1>3 DEF BanSessions
<1>4. ASSUME NEW u \in User, DeleteUser(u) PROVE EndedByRight(d)
  BY <1>4 DEF DeleteUser
<1>5. ASSUME NEW r \in Req, CreateSession(r) \/ RefreshUpdate(r) PROVE FALSE
  BY <1>5 DEF CreateSession, RefreshUpdate
<1> HIDE DEF IInv, TypeOK, Finish, Owned, Ended, Restrict, EndedByRight
<1> QED
  BY <1>1, <1>2, <1>3, <1>4, <1>5
  DEF Next, Arrive, Continue, Abort, Tick, LoginFind, RefreshGuard, LogoutGuard, DeleteOthersGuard,
      DeleteSessionGuard, Guarded, BanFind, LoginSign, RefreshSign, Sign, CreateSessionFails,
      Respond, RefreshUpdateFails, DeleteFind, BanUpdate, UnbanUpdate

(* A session ends only by right, in whatever order requests interleave. *)
THEOREM EndByRight == Spec => SessionsEndByRight
<1>1. IInv /\ [Next]_vars =>
        [\A d \in DOMAIN sessions \ DOMAIN sessions' : EndedByRight(d)]_vars
  BY EndStep
<1> QED
  BY <1>1, Invariance, PTL DEF Spec, SessionsEndByRight

-----------------------------------------------------------------------------
(* Sessions implements SessionLifecycle. *)
LEMMA LifecycleInit == Init => Lifecycle!Init
<1> SUFFICES ASSUME Init PROVE Lifecycle!Init
  OBVIOUS
<1>1. Opening = {}
  BY DEF Init, Opening
<1> QED
  BY <1>1 DEF Init, Lifecycle!Init, Live, Spent

(* Ending sessions of one user is a Close step. *)
LEMMA CloseStep ==
  ASSUME IInv, NEW u \in User, NEW D, \A d \in D \cap DOMAIN sessions : sessions[d].user = u,
         sessions' = Ended(D), created' = created, Opening' = Opening
  PROVE  Lifecycle!Next
<1> DEFINE E == D \cap DOMAIN sessions
<1>1. E \in SUBSET DOMAIN Live
  BY DEF Live
<1>2. \A d \in E : Live[d] = u
  BY DEF Live
<1>3. Live' = [e \in DOMAIN Live \ E |-> Live[e]]
  BY DEF Live, Ended, Restrict
<1>4. Spent' = Spent \cup E
  <2>1. DOMAIN sessions' = DOMAIN sessions \ E
    BY DEF Ended, Restrict
  <2>2. DOMAIN sessions \subseteq created \ Opening
    BY DEF IInv, TypeOK, OpeningFresh, Opening
  <2> QED
    BY <2>1, <2>2 DEF Spent
<1>5. Lifecycle!Close(u, E)
  BY <1>2, <1>3, <1>4 DEF Lifecycle!Close
<1> QED
  BY <1>1, <1>5 DEF Lifecycle!Next

(* A login that fails or is cut short gives its device id up. *)
LEMMA AbandonStep ==
  ASSUME IInv, NEW r \in Req, req[r].pc \in LoginPC, req' = [req EXCEPT ![r] = Idle],
         UNCHANGED <<sessions, created>>
  PROVE  Lifecycle!Next
<1>1. Opening' = Opening \ {req[r].dev}
  BY DEF IInv, TypeOK, OpeningFresh, Opening
<1>2. req[r].dev \in Opening /\ req[r].dev \in created \ DOMAIN sessions
  BY DEF IInv, OpeningFresh, Opening
<1>3. Lifecycle!Abandon(req[r].dev)
  BY <1>1, <1>2 DEF Lifecycle!Abandon, Live, Spent
<1> QED
  BY <1>2, <1>3 DEF Lifecycle!Next, IInv, TypeOK

(* A step that leaves owners, ids and logins alone is a stutter. *)
LEMMA StutterStep ==
  ASSUME DOMAIN sessions' = DOMAIN sessions, created' = created, Opening' = Opening,
         \A d \in DOMAIN sessions : sessions'[d].user = sessions[d].user
  PROVE  UNCHANGED Lifecycle!lvars
BY DEF Lifecycle!lvars, Live, Spent

(* A step that moves no request into or out of the login keeps Opening. *)
LEMMA OpeningSame ==
  ASSUME TypeOK, NEW r \in Req, \A s \in Req \ {r} : req'[s] = req[s],
         req[r].pc \notin LoginPC /\ req'[r].pc \notin LoginPC
  PROVE  Opening' = Opening
BY DEF TypeOK, Opening

(* Every step of Sessions is a step of SessionLifecycle or a stutter. *)
LEMMA LifecycleStep == IInv /\ [Next]_vars => [Lifecycle!Next]_Lifecycle!lvars
<1> SUFFICES ASSUME IInv, Next PROVE Lifecycle!Next \/ UNCHANGED Lifecycle!lvars
  BY StutterStep DEF vars, Opening
<1> DEFINE G == Lifecycle!Next \/ UNCHANGED Lifecycle!lvars
<1> USE DEF Start, Step, Finish
<1>0. TypeOK
  BY DEF IInv
<1>1. ASSUME NEW r \in Req, NEW u \in User, NEW d \in Device, LoginFind(r, u, d) PROVE G
  <2>1. Opening' = Opening \cup {d}
    BY <1>0, <1>1 DEF LoginFind, Opening, TypeOK
  <2> QED
    BY <1>0, <1>1, <2>1 DEF LoginFind, Lifecycle!lvars, Live, Spent, TypeOK
<1>2. ASSUME NEW r \in Req, NEW t \in tokens, NEW d \in created,
             NEW pc \in {"refreshSign", "logout", "deleteOthers", "deleteFind"}, Guarded(r, t, pc, d)
      PROVE G
  BY <1>0, <1>2, OpeningSame, StutterStep DEF Guarded, TypeOK
<1>3. ASSUME NEW r \in Req, NEW u \in User, NEW pc \in {"banUpdate", "unbanUpdate"},
             BanFind(r, u, pc)
      PROVE G
  BY <1>0, <1>3, OpeningSame, StutterStep DEF BanFind, TypeOK
<1>4. ASSUME NEW r \in Req, NEW t \in Nat, LoginSign(r, t) PROVE G
  <2>1. Opening' = Opening
    BY <1>0, <1>4 DEF LoginSign, Sign, Opening, TypeOK
  <2> QED
    BY <1>4, <2>1, StutterStep DEF LoginSign, Sign
<1>5. ASSUME NEW r \in Req, NEW t \in Nat, RefreshSign(r, t) PROVE G
  BY <1>0, <1>5, OpeningSame, StutterStep DEF RefreshSign, Sign, TypeOK
<1>6. ASSUME NEW r \in Req, CreateSession(r) PROVE G
  <2> DEFINE d == req[r].dev
             u == req[r].user
  <2>1. /\ \A s \in Req \ {r} : req'[s] = req[s]
        /\ req'[r].pc = "respond"
    BY <1>0, <1>6 DEF CreateSession, TypeOK
  <2>2. Opening' = Opening \ {d}
    BY <1>6, <2>1 DEF Opening, CreateSession, IInv, OpeningFresh
  <2>3. d \in Opening /\ d \in created \ DOMAIN sessions /\ u \in User /\ d \in Device
    BY <1>0, <1>6 DEF CreateSession, Opening, IInv, OpeningFresh, TypeOK
  <2>4. Live' = [e \in DOMAIN Live \cup {d} |-> IF e = d THEN u ELSE Live[e]]
    BY <1>6, <2>3 DEF Live, CreateSession
  <2>5. Spent' = Spent
    BY <1>6, <2>2, <2>3 DEF Spent, CreateSession
  <2>6. d \notin Spent \cup DOMAIN Live
    BY <2>3 DEF Spent, Live
  <2>7. Lifecycle!Open(d, u)
    BY <2>4, <2>5, <2>6 DEF Lifecycle!Open
  <2> QED
    BY <2>3, <2>7 DEF Lifecycle!Next
<1>7. ASSUME NEW r \in Req, RefreshUpdate(r) PROVE G
  <2>1. Opening' = Opening
    BY <1>0, <1>7, OpeningSame DEF RefreshUpdate, TypeOK
  <2> QED
    BY <1>0, <1>7, <2>1, StutterStep DEF RefreshUpdate, TypeOK, Row
<1>8. ASSUME NEW r \in Req, NEW pc \in PC \ LoginPC, Finish(r, pc), NEW D, sessions' = Ended(D),
             \A d \in D \cap DOMAIN sessions : sessions[d].user = req[r].user, created' = created,
             pc # "idle"
      PROVE G
  <2>1. Opening' = Opening
    BY <1>0, <1>8, OpeningSame DEF TypeOK
  <2>2. req[r].user \in User
    BY <1>0, <1>8 DEF TypeOK
  <2> QED
    BY <1>8, <2>1, <2>2, CloseStep
<1>9. ASSUME NEW r \in Req, NEW pc \in PC, Finish(r, pc), UNCHANGED <<sessions, created>>
      PROVE G
  <2>1. CASE pc \in LoginPC
    BY <1>9, <2>1, AbandonStep
  <2>2. CASE pc \notin LoginPC
    BY <1>0, <1>9, <2>2, OpeningSame, StutterStep DEF TypeOK
  <2> QED
    BY <2>1, <2>2
<1>10. ASSUME NEW r \in Req, NEW from \in PC \ LoginPC, NEW to \in PC \ LoginPC, Step(r, from, to),
              UNCHANGED <<sessions, created>>
       PROVE G
  BY <1>0, <1>10, OpeningSame, StutterStep DEF TypeOK
<1>11. ASSUME NEW u \in User, DeleteUser(u) PROVE G
  BY <1>11, CloseStep DEF DeleteUser, Owned, Opening
<1>12. CASE Tick
  BY <1>12, StutterStep DEF Tick, Opening
<1> HIDE DEF G, Start, Step, Finish
<1>13. ASSUME NEW r \in Req, Logout(r) \/ DeleteSession(r) PROVE G
  <2>1. \A d \in {req[r].dev} \cap DOMAIN sessions : sessions[d].user = req[r].user
    BY <1>13 DEF Logout, DeleteSession, DeleteByDevice, Finish, IInv, HoldersKnow, Knows
  <2> QED
    BY <1>8, <1>13, <2>1 DEF Logout, DeleteSession, DeleteByDevice
<1>14. ASSUME NEW r \in Req, DeleteOthers(r) PROVE G
  BY <1>8, <1>14 DEF DeleteOthers, Owned
<1>15. ASSUME NEW r \in Req, BanSessions(r) PROVE G
  BY <1>8, <1>15 DEF BanSessions, Owned
<1>16. ASSUME NEW r \in Req, Arrive(r) PROVE G
  <2>1. \A t \in tokens : RefreshAccepted(t) => t.dev \in created
    BY <1>0 DEF RefreshAccepted, TypeOK
  <2> QED
    BY <1>1, <1>2, <1>3, <1>16, <2>1
    DEF Arrive, RefreshGuard, LogoutGuard, DeleteOthersGuard, DeleteSessionGuard, Guarded
<1>17. ASSUME NEW r \in Req, Continue(r) PROVE G
  BY <1>4, <1>5, <1>6, <1>7, <1>9, <1>10, <1>13, <1>14, <1>15, <1>17
  DEF Continue, CreateSessionFails, Respond, RefreshUpdateFails, DeleteFind, BanUpdate, UnbanUpdate
<1>18. ASSUME NEW r \in Req, Abort(r) PROVE G
  BY <1>0, <1>9, <1>18 DEF Abort, TypeOK
<1> QED
  BY <1>11, <1>12, <1>16, <1>17, <1>18 DEF Next, G

(* Every behaviour of Sessions is one of SessionLifecycle: an ended session *)
(* is never reopened, by a late refresh or anything else.                   *)
THEOREM Refinement == Spec => NeverReopened
<1>1. Init => Lifecycle!Init
  BY LifecycleInit
<1>2. IInv /\ [Next]_vars => [Lifecycle!Next]_Lifecycle!lvars
  BY LifecycleStep
<1> QED
  BY <1>1, <1>2, Invariance, PTL DEF Spec, NeverReopened, Lifecycle!Spec

-----------------------------------------------------------------------------
(* No ban is about to be written while its user is logging in: the overlap  *)
(* that lets a banned user in.  Every other interleaving is left in.        *)
NoBanUnderLogin ==
  \A r, s \in Req : req[r].pc \in LoginPC /\ req[s].pc = "banUpdate" => req[r].user # req[s].user

(* A banned user is not logging in, and has sessions only while the ban     *)
(* that will end them is under way.                                         *)
BannedLeave ==
  /\ \A r \in Req : req[r].pc \in LoginPC => req[r].user \notin banned
  /\ \A d \in DOMAIN sessions : sessions[d].user \in banned =>
       \E r \in Req : req[r].pc = "banSessions" /\ req[r].user = sessions[d].user

(* Without that overlap, and when the process stays up, it stays so.        *)
LEMMA BannedLeaveNext ==
  ASSUME IInv, BannedLeave, NoBanUnderLogin, Next, ~Crashes
  PROVE  BannedLeave'
<1> DEFINE G == BannedLeave'
<1>0. TypeOK
  BY DEF IInv
<1> USE DEF BannedLeave, TypeOK, Row, Start, Step, Finish, Owned, Ended, Restrict
<1>1. ASSUME NEW r \in Req, NEW u \in User, NEW d \in Device, LoginFind(r, u, d) PROVE G
  BY <1>0, <1>1 DEF LoginFind
<1>2. ASSUME NEW r \in Req, NEW t \in tokens, NEW d,
             NEW pc \in {"refreshSign", "logout", "deleteOthers", "deleteFind"}, Guarded(r, t, pc, d)
      PROVE G
  BY <1>0, <1>2 DEF Guarded
<1>3. ASSUME NEW r \in Req, NEW u \in User, NEW pc \in {"banUpdate", "unbanUpdate"}, BanFind(r, u, pc) PROVE G
  BY <1>0, <1>3 DEF BanFind
<1>4. ASSUME NEW r \in Req, NEW t \in Nat, LoginSign(r, t) \/ RefreshSign(r, t) PROVE G
  <2>1. PICK pc \in {"createSession", "refreshUpdate"} :
          /\ req' = [req EXCEPT ![r] = [req[r] EXCEPT !.pc = pc, !.at = clock, !.rt = t]]
          /\ req[r].pc = "loginSign" <=> pc = "createSession"
          /\ req[r].pc \in {"loginSign", "refreshSign"}
          /\ UNCHANGED <<banned, sessions>>
    BY <1>4 DEF LoginSign, RefreshSign, Sign
  <2> QED
    BY <1>0, <2>1
<1>5. ASSUME NEW r \in Req, CreateSession(r) PROVE G
  BY <1>0, <1>5 DEF CreateSession
<1>6. ASSUME NEW r \in Req, Respond(r) PROVE G
  BY <1>0, <1>6 DEF Respond
<1>7. ASSUME NEW r \in Req, RefreshUpdate(r) PROVE G
  BY <1>0, <1>7 DEF RefreshUpdate
<1>8. ASSUME NEW r \in Req, DeleteOthers(r) PROVE G
  BY <1>0, <1>8 DEF DeleteOthers
<1>9. ASSUME NEW r \in Req, BanUpdate(r) PROVE G
  <2>1. \A s \in Req : req[s].pc \in LoginPC => req[s].user # req[r].user
    BY <1>9 DEF NoBanUnderLogin, BanUpdate
  <2> QED
    BY <1>0, <1>9, <2>1 DEF BanUpdate
<1>10. ASSUME NEW r \in Req, BanSessions(r) PROVE G
  BY <1>0, <1>10 DEF BanSessions
<1>11. ASSUME NEW r \in Req, UnbanUpdate(r) PROVE G
  BY <1>0, <1>11 DEF UnbanUpdate
<1>12. ASSUME NEW r \in Req, DeleteFind(r) PROVE G
  BY <1>0, <1>12 DEF DeleteFind
<1>13. ASSUME NEW r \in Req, Logout(r) \/ DeleteSession(r) PROVE G
  BY <1>0, <1>13 DEF Logout, DeleteSession, DeleteByDevice
<1>14. ASSUME NEW r \in Req, CreateSessionFails(r) \/ RefreshUpdateFails(r) PROVE G
  BY <1>0, <1>14 DEF CreateSessionFails, RefreshUpdateFails
<1>15. ASSUME NEW u \in User, DeleteUser(u) PROVE G
  BY <1>0, <1>15 DEF DeleteUser
<1>16. ASSUME Tick PROVE G
  BY <1>16 DEF Tick
<1> HIDE DEF BannedLeave, TypeOK, Row, Start, Step, Finish, Owned, Ended, Restrict, G
<1> QED
  BY <1>1, <1>2, <1>3, <1>4, <1>5, <1>6, <1>7, <1>8, <1>9, <1>10, <1>11, <1>12, <1>13, <1>14, <1>15, <1>16
  DEF Next, Arrive, Continue, Abort, RefreshGuard, LogoutGuard, DeleteOthersGuard, DeleteSessionGuard, G

(* A login that overlaps the ban of its user is the only thing that leaves  *)
(* a banned user with a session, when the process stays up.                 *)
THEOREM BannedOut ==
  ASSUME ~Crashes
  PROVE  Spec /\ []NoBanUnderLogin => []BannedLockedOut
<1>1. Init => BannedLeave
  BY DEF Init, BannedLeave
<1>2. IInv /\ BannedLeave /\ NoBanUnderLogin /\ [Next]_vars => BannedLeave'
  <2>1. ASSUME BannedLeave, UNCHANGED vars PROVE BannedLeave'
    BY <2>1 DEF vars, BannedLeave
  <2> QED
    BY <2>1, BannedLeaveNext
<1>3. IInv /\ BannedLeave => BannedLockedOut
  BY DEF IInv, BannedLeave, BannedLockedOut, TokensNameTheirOwner, Knows, RefreshAccepted, AccessAccepted
<1> QED
  BY <1>1, <1>2, <1>3, Invariance, PTL DEF Spec
=============================================================================
