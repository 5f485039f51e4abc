--------------------------- MODULE PlatformProofs ---------------------------
(* Proofs about Platform, for any sets of users, devices, requests and rows. *)
EXTENDS Platform, SessionsProofs

(* Every step of the platform is a step of Sessions or leaves it alone. *)
LEMMA SessionsStep == [PNext]_pvars => [Next]_vars
BY DEF PNext, pvars, SessionStep, WriteStep, DeleteUserRow, Next

(* The session half of the platform is a Sessions: what is proved of Sessions *)
(* holds with the content in front of it.                                     *)
THEOREM SessionsHold == PSpec => Spec
<1>1. PInit => Init
  BY DEF PInit
<1> QED
  BY <1>1, SessionsStep, PTL DEF PSpec, Spec

(* So the invariant of Sessions is one of the platform. *)
LEMMA PInvariance == PSpec => []IInv
  BY SessionsHold, Invariance, PTL

-----------------------------------------------------------------------------
(* The access strategy lets in users that exist only. *)
LEMMA GuardUser ==
  ASSUME IInv, NEW t \in tokens, AccessAccepted(t)
  PROVE  t.user \in users /\ sessions[t.dev].user = t.user
BY DEF IInv, AccessAccepted, TokensNameTheirOwner, Knows, SessionOwnerExists

(* What a request of Sessions does to the users and their bans. *)
LEMMA BansStep ==
  ASSUME TypeOK, NEW r \in Req, Arrive(r) \/ Continue(r) \/ Abort(r)
  PROVE  /\ users' = users
         /\ banned' = banned
            \/ \E u \in users : banned' = banned \cup {u} \/ banned' = banned \ {u}
<1>1. CASE BanUpdate(r) \/ UnbanUpdate(r)
  BY <1>1 DEF BanUpdate, UnbanUpdate, TypeOK
<1>2. CASE ~(BanUpdate(r) \/ UnbanUpdate(r))
  BY <1>2 DEF Arrive, Continue, Abort, LoginFind, RefreshGuard, LogoutGuard, DeleteOthersGuard,
     DeleteSessionGuard, Guarded, BanFind, LoginSign, RefreshSign, Sign, CreateSession,
     CreateSessionFails, Respond, RefreshUpdate, RefreshUpdateFails, Logout, DeleteSession,
     DeleteByDevice, DeleteOthers, DeleteFind, BanSessions
<1> QED
  BY <1>1, <1>2

(* A step that leaves content, bans and requests of the content alone is a    *)
(* stutter of it.                                                             *)
LEMMA ContentStutter ==
  ASSUME overtaken \subseteq Req, UNCHANGED <<users, banned, content, job>>, Content!Watch
  PROVE  UNCHANGED Content!vars
<1>1. \A r \in Req : ~Content!Overtakes(r)
  BY DEF Content!Overtakes, Content!Blogs, Content!Bans, content
<1>2. overtaken' = overtaken
  BY <1>1 DEF Content!Watch
<1> QED
  BY <1>2 DEF Content!vars, content

(* Every step of the platform is a step of Moderation or a stutter of it. *)
LEMMA ContentStep ==
  ASSUME IInv, overtaken \subseteq Req, [PNext]_pvars
  PROVE  [Content!Next]_Content!vars
<1> DEFINE G == Content!Step \/ UNCHANGED Content!vars
<1>1. CASE UNCHANGED pvars
  BY <1>1 DEF pvars, vars, content, Content!vars
<1> SUFFICES ASSUME PNext PROVE G
  BY <1>1 DEF PNext, Content!Next
<1>2. Content!Watch
  BY DEF PNext
<1>3. ASSUME NEW r \in Req, SessionStep(r) PROVE G
  <2>1. job[r] = Content!Idle /\ UNCHANGED <<content, job>> /\ (Arrive(r) \/ Continue(r) \/ Abort(r))
    BY <1>3 DEF SessionStep
  <2>2. CASE banned' = banned
    BY <1>2, <2>1, <2>2, BansStep, ContentStutter DEF IInv
  <2>3. ASSUME NEW u \in users, banned' = banned \cup {u} \/ banned' = banned \ {u} PROVE G
    <3>1. Content!AdminBan(r, u)
      BY <2>1, <2>3, BansStep DEF Content!AdminBan, content, IInv
    <3> QED
      BY <3>1 DEF Content!Step
  <2> QED
    BY <2>1, <2>2, <2>3, BansStep DEF IInv
<1>4. ASSUME NEW r \in Req, WriteStep(r) PROVE G
  <2>1. ASSUME NEW t \in tokens, WriteGuard(r, t) PROVE G
    BY <2>1, GuardUser DEF WriteGuard, Content!Step
  <2>2. CASE AdminGuard(r)
    BY <2>2 DEF AdminGuard, Content!Step
  <2>3. CASE Content!Continue(r)
    BY <2>3 DEF Content!Step
  <2> QED
    BY <1>4, <2>1, <2>2, <2>3 DEF WriteStep
<1>5. ASSUME NEW u \in User, DeleteUserRow(u) PROVE G
  BY <1>5 DEF DeleteUserRow, DeleteUser, Content!Step
<1>6. CASE Tick /\ UNCHANGED <<content, job>>
  BY <1>2, <1>6, ContentStutter DEF Tick
<1> QED
  BY <1>3, <1>4, <1>5, <1>6 DEF PNext

(* The content half of the platform is a Moderation: the strategy that finds *)
(* a session vouches for the user's row, and the super-admin's calls are      *)
(* those of Moderation.                                                       *)
THEOREM ModeratesCorrect == PSpec => Moderates
<1>1. PInit => Content!Init /\ overtaken \subseteq Req
  BY DEF PInit, Content!Init
<1>2. [PNext]_pvars /\ overtaken \subseteq Req => (overtaken \subseteq Req)'
  BY DEF PNext, pvars, Content!Watch
<1>3. IInv /\ overtaken \subseteq Req /\ [PNext]_pvars => [Content!Next]_Content!vars
  BY ContentStep
<1> QED
  BY <1>1, <1>2, <1>3, PInvariance, PTL DEF PSpec, Moderates, Content!Spec

-----------------------------------------------------------------------------
(* What the ban of a user leaves behind: a login of his that has not opened   *)
(* its session yet is slipped too.                                            *)
LoginsSlip ==
  Crashes \/ \A r \in Req :
    req[r].pc \in LoginPC /\ req[r].user \in banned /\ ~Banning(req[r].user) => req[r].dev \in slipped

(* A session comes from a login; a login reads a user who is not banned.      *)
SessionsFrom ==
  \A d \in DOMAIN sessions' :
    \/ d \in DOMAIN sessions /\ sessions'[d].user = sessions[d].user
    \/ \E r \in Req : req[r].pc \in LoginPC /\ req[r].dev = d /\ sessions'[d].user = req[r].user
LoginsFrom ==
  \A r \in Req : req'[r].pc \in LoginPC =>
    \/ req[r].pc \in LoginPC /\ req'[r].user = req[r].user /\ req'[r].dev = req[r].dev
    \/ req'[r].user \notin banned'
(* Whoever is banned anew is being banned, and the last call of a ban, which  *)
(* is never cut short, leaves him no session.                                 *)
BansFrom == \A u \in banned' \ banned : Banning(u)'
BansEnd ==
  \A r \in Req : req[r].pc = "banSessions" =>
    \/ req'[r] = req[r]
    \/ req'[r] = Idle /\ \A d \in DOMAIN sessions' : sessions'[d].user # req[r].user

(* Every step is as the four definitions say. *)
LEMMA BanFacts ==
  ASSUME TypeOK, ~Crashes, [Next]_vars
  PROVE  SessionsFrom /\ LoginsFrom /\ BansFrom /\ BansEnd
<1> DEFINE G == SessionsFrom /\ LoginsFrom /\ BansFrom /\ BansEnd
<1> USE DEF Idle, PC, LoginPC, RefreshPC, EndPC, AdminPC, HolderPC
<1> USE DEF TypeOK, Row, Pair, Start, Step, Finish, Owned, Ended, Restrict,
        SessionsFrom, LoginsFrom, BansFrom, BansEnd, Banning
<1>1. ASSUME NEW r \in Req, NEW u \in User, NEW d \in Device, LoginFind(r, u, d) PROVE G
  BY <1>1 DEF LoginFind
<1>2. ASSUME NEW r \in Req, NEW t \in tokens, NEW d,
             NEW pc \in {"refreshSign", "logout", "deleteOthers", "deleteFind"}, Guarded(r, t, pc, d)
      PROVE G
  BY <1>2 DEF Guarded
<1>3. ASSUME NEW r \in Req, NEW u \in User, NEW pc \in {"banUpdate", "unbanUpdate"},
             BanFind(r, u, pc)
      PROVE G
  BY <1>3 DEF BanFind
<1>4. ASSUME NEW r \in Req, NEW t \in Nat, LoginSign(r, t) \/ RefreshSign(r, t)
      PROVE G
  <2>1. PICK pc \in {"createSession", "refreshUpdate"} :
          /\ req' = [req EXCEPT ![r] = [req[r] EXCEPT !.pc = pc, !.at = clock, !.rt = t]]
          /\ req[r].pc = "loginSign" <=> pc = "createSession"
          /\ req[r].pc \in {"loginSign", "refreshSign"}
    BY <1>4 DEF LoginSign, RefreshSign, Sign
  <2> QED
    BY <1>4, <2>1 DEF LoginSign, RefreshSign, Sign
<1>5. ASSUME NEW r \in Req, CreateSession(r) PROVE G
  BY <1>5 DEF CreateSession
<1>6. ASSUME NEW r \in Req, Respond(r) PROVE G
  BY <1>6 DEF Respond
<1>7. ASSUME NEW r \in Req, RefreshUpdate(r) PROVE G
  BY <1>7 DEF RefreshUpdate
<1>8. ASSUME NEW r \in Req, DeleteOthers(r) PROVE G
  BY <1>8 DEF DeleteOthers
<1>9. ASSUME NEW r \in Req, BanUpdate(r) \/ UnbanUpdate(r) \/ DeleteFind(r) PROVE G
  BY <1>9 DEF BanUpdate, UnbanUpdate, DeleteFind
<1>10. ASSUME NEW u \in User, DeleteUser(u) PROVE G
  BY <1>10 DEF DeleteUser
<1>11. ASSUME NEW r \in Req, CreateSessionFails(r) \/ RefreshUpdateFails(r) PROVE G
  BY <1>11 DEF CreateSessionFails, RefreshUpdateFails
<1>12. ASSUME NEW r \in Req, Logout(r) \/ DeleteSession(r) PROVE G
  BY <1>12 DEF Logout, DeleteSession, DeleteByDevice
<1>13. ASSUME NEW r \in Req, BanSessions(r) PROVE G
  BY <1>13 DEF BanSessions
<1>14. CASE Tick \/ UNCHANGED vars
  BY <1>14 DEF Tick, vars
<1> HIDE DEF G, TypeOK, Row, Pair, Start, Step, Finish, Owned, Ended, Restrict
<1>15. ASSUME NEW r \in Req, Continue(r) PROVE G
  BY <1>15, <1>4, <1>5, <1>6, <1>7, <1>8, <1>9, <1>11, <1>12, <1>13 DEF Continue
<1>16. ASSUME NEW r \in Req, Arrive(r) PROVE G
  BY <1>16, <1>1, <1>2, <1>3
     DEF Arrive, RefreshGuard, LogoutGuard, DeleteOthersGuard, DeleteSessionGuard
<1> QED
  BY <1>10, <1>14, <1>15, <1>16 DEF Next, Abort, G

(* What Platform remembers of logins: they stay slipped as long as they or     *)
(* their session last, and a ban that completes adds those under way.          *)
LEMMA SlippedStep ==
  ASSUME TypeOK, [PNext]_pvars
  PROVE  /\ slipped \cap (DOMAIN sessions' \cup Opening') \subseteq slipped'
         /\ \A s \in Req : req[s].pc \in LoginPC /\ Completes(req[s].user) => req[s].dev \in slipped'
<1>1. ASSUME NEW r \in Req, SessionStep(r)
      PROVE slipped' = (slipped \cap (DOMAIN sessions' \cup Opening'))
                       \cup {req[s].dev : s \in {s \in Req : req[s].pc \in LoginPC /\ Completes(req[s].user)}}
  BY <1>1 DEF SessionStep
<1>2. ASSUME req' = req PROVE Opening' = Opening /\ \A u : ~Completes(u)
  BY <1>2 DEF Opening, Completes, Idle, TypeOK
<1>3. ASSUME NEW u \in User, DeleteUserRow(u)
      PROVE slipped' = slipped \cap (DOMAIN sessions' \cup Opening) /\ req' = req
  BY <1>3 DEF DeleteUserRow, DeleteUser
<1>4. ASSUME NEW r \in Req, WriteStep(r) PROVE slipped' = slipped /\ req' = req
  BY <1>4 DEF WriteStep, vars
<1>5. CASE Tick /\ UNCHANGED slipped
  BY <1>2, <1>5 DEF Tick
<1>6. CASE UNCHANGED pvars
  BY <1>2, <1>6 DEF pvars, vars
<1> QED
  BY <1>1, <1>2, <1>3, <1>4, <1>5, <1>6 DEF PNext

(* Both parts are kept by every step, when no request is cut short. *)
LEMMA BanNext ==
  ASSUME TypeOK, BanEndsSessions, LoginsSlip, [PNext]_pvars
  PROVE  BanEndsSessions' /\ LoginsSlip'
<1> SUFFICES ASSUME ~Crashes PROVE BanEndsSessions' /\ LoginsSlip'
  BY DEF BanEndsSessions, LoginsSlip
<1>1. SessionsFrom /\ LoginsFrom /\ BansFrom /\ BansEnd
  BY SessionsStep, BanFacts
<1>2. /\ slipped \cap (DOMAIN sessions' \cup Opening') \subseteq slipped'
      /\ \A s \in Req : req[s].pc \in LoginPC /\ Completes(req[s].user) => req[s].dev \in slipped'
  BY SlippedStep
<1>3. ASSUME NEW u, Banning(u), ~Banning(u)'
      PROVE Completes(u) /\ \A d \in DOMAIN sessions' : sessions'[d].user # u
  BY <1>1, <1>3 DEF Banning, BansEnd, Completes
<1>4. ASSUME NEW d \in DOMAIN sessions', NEW u, u = sessions'[d].user, u \in banned', ~Banning(u)'
      PROVE d \in slipped'
  <2>1. u \in banned /\ ~Banning(u)
    BY <1>1, <1>3, <1>4 DEF BansFrom
  <2>2. CASE d \in DOMAIN sessions /\ sessions[d].user = u
    BY <1>2, <1>4, <2>1, <2>2 DEF BanEndsSessions
  <2>3. CASE \E r \in Req : req[r].pc \in LoginPC /\ req[r].dev = d /\ req[r].user = u
    BY <1>2, <1>4, <2>1, <2>3 DEF LoginsSlip
  <2> QED
    BY <1>1, <1>4, <2>2, <2>3 DEF SessionsFrom
<1>5. ASSUME NEW r \in Req, req'[r].pc \in LoginPC, NEW u, u = req'[r].user, u \in banned', ~Banning(u)'
      PROVE req'[r].dev \in slipped'
  <2>1. req'[r].dev \in Opening'
    BY <1>5 DEF Opening
  <2>2. req[r].pc \in LoginPC /\ req[r].user = u /\ req[r].dev = req'[r].dev /\ u \in banned
    BY <1>1, <1>5 DEF LoginsFrom, BansFrom
  <2>3. CASE Banning(u)
    BY <1>2, <1>3, <1>5, <2>2, <2>3
  <2>4. CASE ~Banning(u)
    BY <1>2, <2>1, <2>2, <2>4 DEF LoginsSlip
  <2> QED
    BY <2>3, <2>4
<1>6. BanEndsSessions'
  BY <1>4 DEF BanEndsSessions, Banning
<1>7. LoginsSlip'
  BY <1>5 DEF LoginsSlip, Banning
<1> QED
  BY <1>6, <1>7

(* A ban leaves its user no session but that of a login it overtook. *)
LEMMA BanInvariance == PSpec => [](BanEndsSessions /\ LoginsSlip)
<1>1. PInit => BanEndsSessions /\ LoginsSlip
  BY DEF PInit, Init, BanEndsSessions, LoginsSlip, Idle, LoginPC
<1>2. IInv /\ (BanEndsSessions /\ LoginsSlip) /\ [PNext]_pvars => (BanEndsSessions /\ LoginsSlip)'
  BY BanNext DEF IInv
<1> QED
  BY <1>1, <1>2, PInvariance, PTL DEF PSpec

(* A ban ends every session of its user, whatever logins and refreshes run,   *)
(* except that of a login under way.                                          *)
THEOREM BanEnds == PSpec => []BanEndsSessions
  BY BanInvariance, PTL

-----------------------------------------------------------------------------
(* Two requests refresh one device at a time only if it is raced. *)
RacesKnown ==
  \A r, s \in Req : r # s /\ req[r].pc \in RefreshPC /\ req[s].pc \in RefreshPC /\ req[r].dev = req[s].dev
                    => req[r].dev \in raced \/ req[r].dev \notin DOMAIN sessions

(* The iat a session stores, or is about to store, is of the past.            *)
StoredPast ==
  /\ \A d \in DOMAIN sessions : sessions[d].last <= clock
  /\ \A r \in Req : req[r].pc \in {"createSession", "refreshUpdate"} => req[r].rt <= clock

(* The iat stored for a device that is not raced is not before that of any     *)
(* pair given or being given to a client, and not after that of a refresh      *)
(* about to be stored.                                                         *)
Latest(d) ==
  /\ \A t \in tokens : t.dev = d => t.rt <= sessions[d].last
  /\ \A r \in Req : req[r].dev = d =>
       /\ req[r].pc = "respond" => req[r].rt <= sessions[d].last
       /\ req[r].pc = "refreshUpdate" => sessions[d].last <= req[r].rt
Rotation == RacesKnown /\ StoredPast /\ \A d \in DOMAIN sessions \ raced : Latest(d)

(* A session has an id that was drawn before the step that opens it. *)
LEMMA SessionFrom ==
  ASSUME TypeOK, [Next]_vars
  PROVE  DOMAIN sessions' \subseteq created
<1>1. Opening \subseteq created
  BY DEF TypeOK, Opening, LoginPC
<1> QED
  BY <1>1, StepFacts DEF OwnerStep, TypeOK

(* Platform remembers every race. *)
LEMMA RacesStep ==
  ASSUME TypeOK, RacesKnown, [PNext]_pvars
  PROVE  raced \cap DOMAIN sessions' \subseteq raced' /\ RacesKnown'
<1>1. ASSUME NEW q \in Req, SessionStep(q) PROVE raced \cap DOMAIN sessions' \subseteq raced' /\ RacesKnown'
  <2>1. raced' = (raced \cup {d \in created : \E s \in Refreshing(d)' : Refreshing(d)' # {s}})
                 \cap DOMAIN sessions'
    BY <1>1 DEF SessionStep
  <2>2. ASSUME NEW r \in Req, NEW s \in Req, r # s, req'[r].pc \in RefreshPC, req'[s].pc \in RefreshPC,
               req'[r].dev = req'[s].dev
        PROVE req'[r].dev \in raced' \/ req'[r].dev \notin DOMAIN sessions'
    <3> DEFINE d == req'[r].dev
    <3> SUFFICES ASSUME d \in DOMAIN sessions' PROVE d \in raced'
      OBVIOUS
    <3>1. d \in created
      BY SessionFrom, SessionsStep
    <3>2. PICK e \in created : e = d
      BY <3>1
    <3>3. {r, s} \subseteq Refreshing(e)'
      BY <2>2, <3>2 DEF Refreshing
    <3> QED
      BY <2>1, <2>2, <3>2, <3>3
  <2> QED
    BY <2>1, <2>2 DEF RacesKnown
<1>2. CASE raced' = raced /\ req' = req /\ DOMAIN sessions' \subseteq DOMAIN sessions
  BY <1>2 DEF RacesKnown
<1> QED
  BY <1>1, <1>2 DEF PNext, pvars, vars, WriteStep, DeleteUserRow, DeleteUser, Tick, Ended, Restrict

(* Every step of Sessions keeps the rotation. *)
LEMMA RotationNext ==
  ASSUME IInv, Rotation, [Next]_vars, raced \cap DOMAIN sessions' \subseteq raced', RacesKnown'
  PROVE  Rotation'
<1> DEFINE G == StoredPast' /\ \A d \in DOMAIN sessions' \ raced' : Latest(d)'
<1> SUFFICES G
  BY DEF Rotation
<1>0. TypeOK
  BY DEF IInv
<1> USE DEF Idle, PC, LoginPC, RefreshPC, EndPC, AdminPC, HolderPC
<1> USE TimeAssumption DEF TypeOK, Row, Pair, Start, Step, Finish, Owned, Ended, Restrict, Rotation, StoredPast, Latest
<1>1. ASSUME NEW r \in Req, NEW u \in User, NEW d \in Device, LoginFind(r, u, d) PROVE G
  BY <1>0, <1>1 DEF LoginFind
<1>2. ASSUME NEW r \in Req, NEW t \in tokens, NEW d,
             NEW pc \in {"refreshSign", "logout", "deleteOthers", "deleteFind"}, Guarded(r, t, pc, d)
      PROVE G
  BY <1>0, <1>2 DEF Guarded
<1>3. ASSUME NEW r \in Req, NEW u \in User, NEW pc \in {"banUpdate", "unbanUpdate"},
             BanFind(r, u, pc)
      PROVE G
  BY <1>0, <1>3 DEF BanFind
<1>4. ASSUME NEW r \in Req, NEW t \in Nat, LoginSign(r, t) \/ RefreshSign(r, t)
      PROVE G
  <2>1. PICK pc \in {"createSession", "refreshUpdate"} :
          /\ req' = [req EXCEPT ![r] = [req[r] EXCEPT !.pc = pc, !.at = clock, !.rt = t]]
          /\ req[r].pc \in {"loginSign", "refreshSign"}
    BY <1>4 DEF LoginSign, RefreshSign, Sign
  <2>2. clock' = t /\ clock <= t /\ UNCHANGED <<sessions, tokens>>
    BY <1>0, <1>4 DEF LoginSign, RefreshSign, Sign
  <2>3. /\ \A s \in Req \ {r} : req'[s] = req[s]
        /\ req'[r].pc = pc /\ req'[r].rt = t /\ req'[r].dev = req[r].dev
    BY <1>0, <2>1
  <2>4. StoredPast'
    BY <1>0, <2>2, <2>3
  <2>5. ASSUME NEW d \in DOMAIN sessions \ raced' PROVE Latest(d)'
    <3>1. Latest(d) /\ sessions[d].last <= t
      BY <1>0, <2>2, <2>5
    <3> QED
      BY <1>0, <2>2, <2>3, <3>1
  <2> QED
    BY <2>2, <2>4, <2>5
<1>5. ASSUME NEW r \in Req, CreateSession(r) PROVE G
  <2> DEFINE e == req[r].dev
  <2>1. /\ \A s \in Req \ {r} : req'[s] = req[s]
        /\ req'[r].pc = "respond" /\ req'[r].rt = req[r].rt /\ req'[r].dev = e
    BY <1>0, <1>5 DEF CreateSession
  <2>2. /\ DOMAIN sessions' = DOMAIN sessions \cup {e}
        /\ \A d \in DOMAIN sessions \ {e} : sessions'[d] = sessions[d]
        /\ sessions'[e].last = req[r].rt
        /\ tokens' = tokens /\ clock' = clock
    BY <1>0, <1>5 DEF CreateSession
  <2>3. e \in Opening
    BY <1>5 DEF CreateSession, Opening
  <2>4. /\ \A t \in tokens : t.dev # e
        /\ \A s \in Req : req[s].pc \in HolderPC => req[s].dev # e
    BY <2>3 DEF IInv, TokensNameTheirOwner, HoldersKnow, Knows
  <2>5. StoredPast'
    BY <1>0, <1>5, <2>1, <2>2 DEF CreateSession
  <2>6. ASSUME NEW d \in DOMAIN sessions' \ raced' PROVE Latest(d)'
    <3>1. CASE d = e
      BY <1>0, <2>1, <2>2, <2>4, <3>1
    <3>2. CASE d # e
      BY <1>0, <2>1, <2>2, <2>6, <3>2
    <3> QED
      BY <3>1, <3>2
  <2> QED
    BY <2>5, <2>6
<1>6. ASSUME NEW r \in Req, Respond(r) PROVE G
  BY <1>0, <1>6 DEF Respond
<1>7. ASSUME NEW r \in Req, RefreshUpdate(r) PROVE G
  <2> DEFINE e == req[r].dev
  <2>1. /\ \A s \in Req \ {r} : req'[s] = req[s]
        /\ req'[r].pc = "respond" /\ req'[r].rt = req[r].rt /\ req'[r].dev = e
        /\ req[r].pc = "refreshUpdate"
    BY <1>0, <1>7 DEF RefreshUpdate
  <2>2. /\ DOMAIN sessions' = DOMAIN sessions /\ e \in DOMAIN sessions
        /\ \A d \in DOMAIN sessions \ {e} : sessions'[d] = sessions[d]
        /\ sessions'[e].last = req[r].rt
        /\ tokens' = tokens /\ clock' = clock
    BY <1>0, <1>7 DEF RefreshUpdate
  <2>3. StoredPast'
    BY <1>0, <2>1, <2>2
  <2>4. ASSUME NEW d \in DOMAIN sessions' \ raced' PROVE Latest(d)'
    <3>1. CASE d = e
      <4>1. Latest(e) /\ sessions[e].last <= req[r].rt
        BY <2>1, <2>2, <2>4, <3>1
      <4>2. \A s \in Req \ {r} : req[s].pc = "refreshUpdate" => req[s].dev # e
        BY <2>1, <2>2, <2>4, <3>1 DEF RacesKnown
      <4>3. /\ \A t \in tokens : t.rt \in Nat
            /\ \A s \in Req : req[s].rt \in Nat
            /\ sessions[e].last \in Nat
        BY <1>0, <2>2
      <4> QED
        BY <2>1, <2>2, <3>1, <4>1, <4>2, <4>3
    <3>2. CASE d # e
      BY <1>0, <2>1, <2>2, <2>4, <3>2
    <3> QED
      BY <3>1, <3>2
  <2> QED
    BY <2>3, <2>4
<1>8. ASSUME NEW r \in Req, DeleteOthers(r) PROVE G
  BY <1>0, <1>8 DEF DeleteOthers
<1>9. ASSUME NEW r \in Req, BanUpdate(r) \/ UnbanUpdate(r) \/ DeleteFind(r) PROVE G
  BY <1>0, <1>9 DEF BanUpdate, UnbanUpdate, DeleteFind
<1>10. ASSUME NEW u \in User, DeleteUser(u) PROVE G
  BY <1>0, <1>10 DEF DeleteUser
<1>11. ASSUME NEW r \in Req, NEW pc \in PC, Finish(r, pc), UNCHANGED <<sessions, tokens, clock>>
       PROVE G
  BY <1>0, <1>11
<1>12. ASSUME NEW r \in Req, BanSessions(r) \/ Logout(r) \/ DeleteSession(r) PROVE G
  BY <1>0, <1>12 DEF BanSessions, Logout, DeleteSession, DeleteByDevice
<1>13. CASE Tick \/ UNCHANGED vars
  BY <1>0, <1>13 DEF Tick, vars
<1> HIDE DEF G, TypeOK, Row, Pair, Start, Step, Finish, Owned, Ended, Restrict, Rotation, StoredPast, Latest
<1>14. ASSUME NEW r \in Req, Continue(r) PROVE G
  BY <1>14, <1>4, <1>5, <1>6, <1>7, <1>8, <1>9, <1>11, <1>12
     DEF Continue, CreateSessionFails, RefreshUpdateFails
<1>15. ASSUME NEW r \in Req, Arrive(r) PROVE G
  BY <1>15, <1>1, <1>2, <1>3
     DEF Arrive, RefreshGuard, LogoutGuard, DeleteOthersGuard, DeleteSessionGuard
<1>16. ASSUME NEW r \in Req, Abort(r) PROVE G
  BY <1>0, <1>16, <1>11 DEF Abort, TypeOK
<1> QED
  BY <1>10, <1>13, <1>14, <1>15, <1>16 DEF Next

(* A later pair makes every earlier pair of its device worthless, unless two   *)
(* refreshes of the device overlapped: an earlier pair is never accepted again *)
(* however the requests interleave.                                            *)
THEOREM RotationHolds == PSpec => []OldPairsRefused
<1>1. PInit => Rotation
  BY DEF PInit, Init, Rotation, RacesKnown, StoredPast, Idle, RefreshPC
<1>2. IInv /\ Rotation /\ [PNext]_pvars => Rotation'
  <2>1. ASSUME IInv, Rotation, [PNext]_pvars PROVE Rotation'
    <3>1. raced \cap DOMAIN sessions' \subseteq raced' /\ RacesKnown'
      BY <2>1, RacesStep DEF IInv, Rotation
    <3> QED
      BY <2>1, <3>1, RotationNext, SessionsStep
  <2> QED
    BY <2>1
<1>3. IInv /\ Rotation => OldPairsRefused
  BY DEF IInv, TypeOK, Row, Pair, Rotation, Latest, OldPairsRefused, RefreshAccepted, AccessAccepted
<1> QED
  BY <1>1, <1>2, <1>3, PInvariance, PTL DEF PSpec

-----------------------------------------------------------------------------
(* Two answers for one device are under way at a time only if it is crossed.   *)
AnswerPC == RefreshPC \cup {"respond"}
CrossedKnown ==
  \A r, s \in Req : r # s /\ req[r].pc \in AnswerPC /\ req[s].pc \in AnswerPC /\ req[r].dev = req[s].dev
                    => req[r].dev \in crossed \/ req[r].dev \notin DOMAIN sessions
HeldOwn == \A d \in DOMAIN held : held[d].dev = d

(* What is stored for a device that is not crossed is what its client is being *)
(* answered, or else holds.                                                    *)
Matches(d) ==
  /\ \A r \in Req : req[r].pc = "respond" /\ req[r].dev = d => req[r].rt = sessions[d].last
  /\ (\A r \in Req : req[r].pc = "respond" => req[r].dev # d) =>
       d \in DOMAIN held /\ held[d].rt = sessions[d].last
Holding == CrossedKnown /\ HeldOwn /\ \A d \in DOMAIN sessions \ crossed : Matches(d)

(* Platform remembers every crossing. *)
LEMMA CrossedStep ==
  ASSUME TypeOK, CrossedKnown, [PNext]_pvars
  PROVE  crossed \cap DOMAIN sessions' \subseteq crossed' /\ CrossedKnown'
<1>1. ASSUME NEW q \in Req, SessionStep(q)
      PROVE crossed \cap DOMAIN sessions' \subseteq crossed' /\ CrossedKnown'
  <2>1. crossed' = (crossed \cup {d \in created : \E s \in Answering(d)' : Answering(d)' # {s}})
                   \cap DOMAIN sessions'
    BY <1>1 DEF SessionStep
  <2>2. ASSUME NEW r \in Req, NEW s \in Req, r # s, req'[r].pc \in AnswerPC, req'[s].pc \in AnswerPC,
               req'[r].dev = req'[s].dev, req'[r].dev \in DOMAIN sessions'
        PROVE req'[r].dev \in crossed'
    <3>1. PICK e \in created : e = req'[r].dev
      BY <2>2, SessionFrom, SessionsStep
    <3>2. {r, s} \subseteq Answering(e)'
      BY <2>2, <3>1 DEF Answering, AnswerPC
    <3> QED
      BY <2>1, <2>2, <3>1, <3>2
  <2> QED
    BY <2>1, <2>2 DEF CrossedKnown
<1>2. CASE crossed' = crossed /\ req' = req /\ DOMAIN sessions' \subseteq DOMAIN sessions
  BY <1>2 DEF CrossedKnown
<1> QED
  BY <1>1, <1>2 DEF PNext, pvars, vars, WriteStep, DeleteUserRow, DeleteUser, Tick, Ended, Restrict

(* Every step of Sessions keeps it, when no request is cut short: whoever      *)
(* stores an iat answers with it, and nobody else answers for that device.     *)
LEMMA HoldingNext ==
  ASSUME IInv, Holding, ~Crashes, [Next]_vars, crossed \cap DOMAIN sessions' \subseteq crossed'
  PROVE  HeldOwn' /\ \A d \in DOMAIN sessions' \ crossed' : Matches(d)'
<1> DEFINE G == HeldOwn' /\ \A d \in DOMAIN sessions' \ crossed' : Matches(d)'
<1>0. TypeOK
  BY DEF IInv
<1> USE DEF Idle, PC, LoginPC, RefreshPC, EndPC, AdminPC, HolderPC, AnswerPC
<1> USE DEF TypeOK, Row, Pair, Start, Step, Finish, Owned, Ended, Restrict, Holding, HeldOwn, Matches
<1>1. ASSUME held' = held, \A d \in DOMAIN sessions' : d \in DOMAIN sessions /\ sessions'[d] = sessions[d],
             NEW r \in Req, req[r].pc # "respond", req'[r].pc # "respond",
             \A s \in Req \ {r} : req'[s] = req[s]
      PROVE G
  BY <1>1
<1>2. ASSUME held' = held, \A d \in DOMAIN sessions' : d \in DOMAIN sessions /\ sessions'[d] = sessions[d],
             req' = req
      PROVE G
  BY <1>2
<1>3. ASSUME NEW r \in Req, NEW pc \in PC \ {"respond"}, NEW u, NEW d, Start(r, pc, u, d),
             UNCHANGED <<sessions, held>>
      PROVE G
  BY <1>0, <1>1, <1>3
<1>4. ASSUME NEW r \in Req, NEW t \in Nat, LoginSign(r, t) \/ RefreshSign(r, t) PROVE G
  <2>1. PICK pc \in {"createSession", "refreshUpdate"} :
          req' = [req EXCEPT ![r] = [req[r] EXCEPT !.pc = pc, !.at = clock, !.rt = t]]
    BY <1>4 DEF LoginSign, RefreshSign, Sign
  <2>2. req[r].pc # "respond" /\ UNCHANGED <<sessions, held>>
    BY <1>4 DEF LoginSign, RefreshSign, Sign
  <2> QED
    BY <1>0, <1>1, <2>1, <2>2
<1>5. ASSUME NEW r \in Req, CreateSession(r) \/ RefreshUpdate(r) PROVE G
  <2> DEFINE e == req[r].dev
  <2>1. /\ \A s \in Req \ {r} : req'[s] = req[s]
        /\ req'[r].pc = "respond" /\ req'[r].rt = req[r].rt /\ req'[r].dev = e
        /\ req[r].pc \in {"createSession", "refreshUpdate"}
    BY <1>0, <1>5 DEF CreateSession, RefreshUpdate
  <2>2. /\ DOMAIN sessions' = DOMAIN sessions \cup {e}
        /\ \A d \in DOMAIN sessions \ {e} : sessions'[d] = sessions[d]
        /\ sessions'[e].last = req[r].rt
        /\ held' = held
    <3>1. CASE CreateSession(r)
      BY <1>0, <3>1 DEF CreateSession
    <3>2. CASE RefreshUpdate(r)
      <4>1. /\ DOMAIN sessions' = DOMAIN sessions /\ e \in DOMAIN sessions
            /\ \A d \in DOMAIN sessions \ {e} : sessions'[d] = sessions[d]
            /\ sessions'[e].last = req[r].rt
            /\ held' = held
        BY <1>0, <3>2 DEF RefreshUpdate
      <4> QED
        BY <4>1
    <3> QED
      BY <1>5, <3>1, <3>2
  <2>3. ASSUME NEW s \in Req \ {r}, req[s].pc = "respond", req[s].dev = e PROVE e \in crossed'
    <3>1. CASE CreateSession(r)
      <4>1. e \in Opening
        BY <3>1 DEF CreateSession, Opening
      <4> QED
        BY <2>3, <4>1 DEF IInv, HoldersKnow, Knows
    <3>2. CASE RefreshUpdate(r)
      <4>1. e \in DOMAIN sessions /\ req[r].pc = "refreshUpdate"
        BY <3>2 DEF RefreshUpdate
      <4>2. e \in crossed
        BY <2>3, <4>1 DEF CrossedKnown
      <4> QED
        BY <2>2, <4>2
    <3> QED
      BY <1>5, <3>1, <3>2
  <2> QED
    BY <2>1, <2>2, <2>3
<1>6. ASSUME NEW r \in Req, Respond(r) PROVE G
  <2> DEFINE e == req[r].dev
             t == [user |-> req[r].user, dev |-> e, at |-> req[r].at, rt |-> req[r].rt]
  <2>1. /\ \A s \in Req \ {r} : req'[s] = req[s]
        /\ req[r].pc = "respond" /\ req'[r].pc # "respond" /\ sessions' = sessions
    BY <1>0, <1>6 DEF Respond
  <2>2. held' = [d \in DOMAIN held \cup {e} |-> IF d = e THEN t ELSE held[d]]
    BY <1>6 DEF Respond
  <2>3. HeldOwn'
    BY <2>2
  <2>4. ASSUME NEW d \in DOMAIN sessions \ crossed' PROVE Matches(d)'
    BY <2>1, <2>2, <2>4
  <2> QED
    BY <2>1, <2>3, <2>4
<1>7. ASSUME NEW r \in Req, NEW pc \in PC \ {"respond"}, NEW D, Finish(r, pc), sessions' = Ended(D), held' = held
      PROVE G
  BY <1>0, <1>1, <1>7
<1>8. ASSUME NEW r \in Req, NEW pc \in PC \ {"respond"}, Finish(r, pc), UNCHANGED <<sessions, held>> PROVE G
  BY <1>0, <1>1, <1>8
<1>9. ASSUME NEW r \in Req, BanUpdate(r) \/ DeleteFind(r) PROVE G
  BY <1>0, <1>1, <1>9 DEF BanUpdate, DeleteFind
<1>10. ASSUME NEW u \in User, DeleteUser(u) PROVE G
  BY <1>2, <1>10 DEF DeleteUser
<1>11. CASE Tick \/ UNCHANGED vars
  BY <1>2, <1>11 DEF Tick, vars
<1> HIDE DEF G, TypeOK, Row, Pair, Start, Step, Finish, Owned, Ended, Restrict, Holding, HeldOwn, Matches
<1>12. ASSUME NEW r \in Req, Continue(r) PROVE G
  BY <1>12, <1>4, <1>5, <1>6, <1>7, <1>8, <1>9
  DEF Continue, CreateSessionFails, RefreshUpdateFails, Logout, DeleteSession, DeleteByDevice, DeleteOthers,
      BanSessions, UnbanUpdate
<1>13. ASSUME NEW r \in Req, Arrive(r) PROVE G
  BY <1>13, <1>3 DEF Arrive, LoginFind, RefreshGuard, LogoutGuard, DeleteOthersGuard, DeleteSessionGuard,
     Guarded, BanFind
<1> QED
  BY <1>10, <1>11, <1>12, <1>13 DEF Next, Abort, G

(* What a client holds is accepted until it expires, unless two answers for    *)
(* its device crossed or the process died, whatever requests interleave.       *)
THEOREM NeverLockedOut == PSpec => []NoLockout
<1>1. PInit => Crashes \/ Holding
  BY DEF PInit, Init, Holding, CrossedKnown, HeldOwn, Idle, AnswerPC, RefreshPC
<1>2. IInv /\ (Crashes \/ Holding) /\ [PNext]_pvars => (Crashes \/ Holding)'
  <2>1. ASSUME IInv, Holding, ~Crashes, [PNext]_pvars PROVE Holding'
    <3>1. crossed \cap DOMAIN sessions' \subseteq crossed' /\ CrossedKnown'
      BY <2>1, CrossedStep DEF IInv, Holding
    <3> QED
      BY <2>1, <3>1, HoldingNext, SessionsStep DEF Holding
  <2> QED
    BY <2>1
<1>3. IInv /\ (Crashes \/ Holding) => NoLockout
  <2> SUFFICES ASSUME IInv, Holding, NEW d \in DOMAIN sessions \ crossed,
                      \A r \in Req : req[r].pc = "respond" => req[r].dev # d
               PROVE  /\ d \in DOMAIN held
                      /\ LET t == held[d] IN
                           /\ clock < t.rt + RefreshTTL => RefreshAccepted(t)
                           /\ t.at = t.rt /\ clock < t.at + AccessTTL => AccessAccepted(t)
    BY DEF NoLockout
  <2>1. d \in DOMAIN held /\ held[d].rt = sessions[d].last /\ held[d].dev = d
    BY DEF Holding, Matches, HeldOwn
  <2>2. held[d] \in tokens
    BY <2>1 DEF IInv, TypeOK
  <2>3. sessions[d].user = held[d].user
    BY <2>1, <2>2 DEF IInv, TokensNameTheirOwner, Knows
  <2> QED
    BY <2>1, <2>3 DEF RefreshAccepted, AccessAccepted
<1> QED
  BY <1>1, <1>2, <1>3, PInvariance, PTL DEF PSpec

-----------------------------------------------------------------------------
(* A request of the content keeps its actor from its guard to its end. *)
JobShape == DOMAIN job = Req /\ \A r \in Req : "actor" \in DOMAIN job[r]
Carried(r) ==
  \/ job'[r] = Content!Idle
  \/ job[r] # Content!Idle /\ job'[r].actor = job[r].actor

(* A request that arrives acts for the user its guard let in. *)
LEMMA JobArrive ==
  ASSUME JobShape, NEW r \in Req, NEW u, Content!Arrive(r, u)
  PROVE  JobShape' /\ (\A s \in Req \ {r} : job'[s] = job[s]) /\ job'[r].actor = u
<1> DEFINE G == JobShape' /\ (\A s \in Req \ {r} : job'[s] = job[s]) /\ job'[r].actor = u
<1>1. ASSUME NEW q, Content!Start(r, q), "actor" \in DOMAIN q, q.actor = u PROVE G
  BY <1>1 DEF Content!Start, JobShape
<1> HIDE DEF G
<1>2. ASSUME Content!CreateBlogStart(r, u) PROVE G
  <2> DEFINE q == [Content!Idle EXCEPT !.pc = "createBlog", !.actor = u]
  <2>1. "actor" \in DOMAIN q /\ q.actor = u
    BY DEF Content!Idle
  <2>2. Content!Start(r, q)
    BY <1>2 DEF Content!CreateBlogStart
  <2> HIDE DEF q
  <2> QED
    BY <1>1, <2>1, <2>2
<1>3. ASSUME NEW b, NEW pc, Content!OwnBlogFind(r, u, b, pc) PROVE G
  <2> DEFINE q == [Content!Idle EXCEPT !.pc = pc, !.actor = u, !.blog = b]
  <2>1. "actor" \in DOMAIN q /\ q.actor = u
    BY DEF Content!Idle
  <2> QED
    BY <1>1, <1>3, <2>1 DEF Content!OwnBlogFind
<1>4. ASSUME NEW b, Content!CreatePostFind(r, u, b) PROVE G
  <2> DEFINE q == [Content!Idle EXCEPT !.pc = "createPost", !.actor = u, !.blog = b]
  <2>1. "actor" \in DOMAIN q /\ q.actor = u
    BY DEF Content!Idle
  <2> QED
    BY <1>1, <1>4, <2>1 DEF Content!CreatePostFind
<1>5. ASSUME NEW b, NEW p, NEW pc, Content!PostBlogFind(r, u, b, p, pc) PROVE G
  <2> DEFINE q == [Content!Idle EXCEPT !.pc = pc, !.actor = u, !.blog = b, !.item = p]
  <2>1. "actor" \in DOMAIN q /\ q.actor = u
    BY DEF Content!Idle
  <2> QED
    BY <1>1, <1>5, <2>1 DEF Content!PostBlogFind
<1>6. ASSUME NEW p, Content!CommentPostFind(r, u, p) PROVE G
  <2> DEFINE q == [Content!Idle EXCEPT !.pc = "commentUser", !.actor = u, !.item = p, !.blog = post[p].blog,
                                       !.user = blog[post[p].blog].owner]
  <2>1. "actor" \in DOMAIN q /\ q.actor = u
    BY DEF Content!Idle
  <2> QED
    BY <1>1, <1>6, <2>1 DEF Content!CommentPostFind
<1>7. ASSUME NEW c, NEW pc, Content!OwnCommentFind(r, u, c, pc) PROVE G
  <2> DEFINE q == [Content!Idle EXCEPT !.pc = pc, !.actor = u, !.item = c]
  <2>1. "actor" \in DOMAIN q /\ q.actor = u
    BY DEF Content!Idle
  <2> QED
    BY <1>1, <1>7, <2>1 DEF Content!OwnCommentFind
<1>8. ASSUME NEW v, NEW b, NEW on, Content!BloggerBanStart(r, u, v, b, on) PROVE G
  <2> DEFINE q == [Content!Idle EXCEPT !.pc = "bloggerBanBlog", !.actor = u, !.user = v, !.blog = b,
                                       !.on = on]
  <2>1. "actor" \in DOMAIN q /\ q.actor = u
    BY DEF Content!Idle
  <2> QED
    BY <1>1, <1>8, <2>1 DEF Content!BloggerBanStart
<1> QED
  BY <1>2, <1>3, <1>4, <1>5, <1>6, <1>7, <1>8 DEF Content!Arrive, G

(* A request acts for one user to its end. *)
LEMMA JobContinue ==
  ASSUME JobShape, NEW r \in Req, Content!Continue(r)
  PROVE  JobShape' /\ (\A s \in Req \ {r} : job'[s] = job[s]) /\ Carried(r)
<1> DEFINE G == JobShape' /\ (\A s \in Req \ {r} : job'[s] = job[s]) /\ Carried(r)
<1>1. ASSUME NEW from, Content!Finish(r, from) PROVE G
  <2>1. job' = [job EXCEPT ![r] = Content!Idle] /\ "actor" \in DOMAIN Content!Idle
    BY <1>1 DEF Content!Finish, Content!Idle
  <2> QED
    BY <2>1 DEF JobShape, Carried
<1>2. ASSUME NEW q, job' = [job EXCEPT ![r] = q], "actor" \in DOMAIN q, q.actor = job[r].actor,
             job[r].pc # "idle"
      PROVE G
  <2>1. job[r] # Content!Idle
    BY <1>2 DEF Content!Idle
  <2> QED
    BY <1>2, <2>1 DEF JobShape, Carried
<1> HIDE DEF G
<1>3. ASSUME NEW from, NEW to, Content!Goto(r, from, to), from # "idle" PROVE G
  <2> DEFINE q == [job[r] EXCEPT !.pc = to]
  <2>1. "actor" \in DOMAIN q /\ q.actor = job[r].actor
    BY DEF JobShape
  <2>2. job' = [job EXCEPT ![r] = q] /\ job[r].pc # "idle"
    BY <1>3 DEF Content!Goto
  <2> HIDE DEF q
  <2> QED
    BY <1>2, <2>1, <2>2
<1>4. ASSUME Content!BloggerBanRowFind(r) PROVE G
  <2>1. job[r].pc # "idle"
    BY <1>4 DEF Content!BloggerBanRowFind
  <2>2. ASSUME NEW x, job' = [job EXCEPT ![r].pc = "deleteBan", ![r].item = x] PROVE G
    <3> DEFINE q == [job[r] EXCEPT !.pc = "deleteBan", !.item = x]
    <3>1. "actor" \in DOMAIN q /\ q.actor = job[r].actor
      BY DEF JobShape
    <3>2. job' = [job EXCEPT ![r] = q]
      BY <2>2
    <3> HIDE DEF q
    <3> QED
      BY <1>2, <2>1, <3>1, <3>2
  <2>3. \/ Content!Finish(r, "bloggerBanRow")
        \/ Content!Goto(r, "bloggerBanRow", "insertBan")
        \/ \E x : job' = [job EXCEPT ![r].pc = "deleteBan", ![r].item = x]
    BY <1>4 DEF Content!BloggerBanRowFind
  <2> QED
    BY <1>1, <1>3, <2>2, <2>3
<1> QED
  BY <1>1, <1>3, <1>4
  DEF Content!Continue, Content!CreateBlog, Content!UpdateBlog, Content!DeleteBlog, Content!BanBlogUpdate,
      Content!CreatePost, Content!UpdatePost, Content!DeletePost, Content!CreateComment, Content!UpdateComment,
      Content!DeleteComment, Content!InsertBan, Content!DeleteBan, Content!WriteFails, Content!PostFind,
      Content!CommentUserFind, Content!CommentBanFind, Content!BloggerBanBlogFind, G

(* Whoever writes although his ban is complete is late. *)
LateWriters ==
  Crashes \/ \A r \in Req :
    job[r] # Content!Idle /\ job[r].actor \in banned /\ ~Banning(job[r].actor) => r \in late

(* Every step keeps late: of a write let in by a guard, under way, or under   *)
(* way when the ban of its actor is completed.                                *)
LEMMA LateNext ==
  ASSUME IInv, JobShape, BanEndsSessions, LateWriters, [PNext]_pvars
  PROVE  JobShape' /\ LateWriters'
<1> USE DEF IInv
<1>1. ASSUME ~Crashes, NEW u, u \in banned', ~Banning(u)' PROVE u \in banned /\ (~Banning(u) \/ Completes(u))
  <2>1. BansFrom /\ BansEnd
    BY <1>1, BanFacts, SessionsStep
  <2> QED
    BY <1>1, <2>1 DEF BansFrom, BansEnd, Banning, Completes
<1>2. ASSUME req' = req, banned' \subseteq banned, NEW u, u \in banned', ~Banning(u)'
      PROVE u \in banned /\ ~Banning(u)
  BY <1>2 DEF Banning
<1>3. ASSUME NEW q \in Req, SessionStep(q) PROVE JobShape' /\ LateWriters'
  <2>1. job' = job /\ late' = late \cup {s \in Req : Completes(job[s].actor)}
    BY <1>3 DEF SessionStep
  <2>2. ASSUME ~Crashes, NEW r \in Req, job'[r] # Content!Idle, NEW u, u = job'[r].actor,
               u \in banned', ~Banning(u)'
        PROVE r \in late'
    BY <1>1, <2>1, <2>2 DEF LateWriters
  <2> QED
    BY <2>1, <2>2 DEF JobShape, LateWriters, Banning
<1>4. ASSUME req' = req, banned' \subseteq banned, job' = job, late' = late PROVE JobShape' /\ LateWriters'
  BY <1>4 DEF JobShape, LateWriters, Banning
<1>5. ASSUME NEW q \in Req, NEW t \in tokens, WriteGuard(q, t), UNCHANGED <<vars, slipped>>
      PROVE JobShape' /\ LateWriters'
  <2>1. JobShape' /\ (\A s \in Req \ {q} : job'[s] = job[s]) /\ job'[q].actor = t.user
    BY <1>5, JobArrive DEF WriteGuard
  <2>2. req' = req /\ banned' = banned /\ late \subseteq late'
    BY <1>5 DEF vars, WriteGuard
  <2>3. ASSUME ~Crashes, t.user \in banned, ~Banning(t.user) PROVE q \in late'
    <3>1. sessions[t.dev].user = t.user /\ t.dev \in DOMAIN sessions
      BY <1>5, GuardUser DEF WriteGuard, AccessAccepted
    <3>2. t.dev \in slipped
      BY <2>3, <3>1 DEF BanEndsSessions
    <3> QED
      BY <1>5, <3>2 DEF WriteGuard
  <2> QED
    BY <2>1, <2>2, <2>3 DEF LateWriters, Banning
<1>6. ASSUME NEW q \in Req, AdminGuard(q), UNCHANGED vars PROVE JobShape' /\ LateWriters'
  <2>1. PICK b \in Content!Blogs, on \in BOOLEAN : Content!BanBlogFind(q, b, on)
    BY <1>6 DEF AdminGuard, Content!AdminArrive
  <2> DEFINE p == [Content!Idle EXCEPT !.pc = "banBlog", !.blog = b, !.on = on]
  <2>2. "actor" \in DOMAIN p /\ p.actor = None
    BY DEF Content!Idle
  <2>3. job' = [job EXCEPT ![q] = p]
    BY <2>1 DEF Content!BanBlogFind, Content!Start
  <2> HIDE DEF p
  <2>4. JobShape' /\ (\A s \in Req \ {q} : job'[s] = job[s]) /\ job'[q].actor = None
    BY <2>2, <2>3 DEF JobShape
  <2>5. None \notin banned /\ req' = req /\ banned' = banned /\ late' = late
    BY <1>6, NoneAssumption DEF TypeOK, vars, AdminGuard
  <2> QED
    BY <2>4, <2>5 DEF LateWriters, Banning
<1>7. ASSUME NEW q \in Req, Content!Continue(q), late' = {s \in late : job'[s] # Content!Idle}, UNCHANGED vars
      PROVE JobShape' /\ LateWriters'
  <2>1. JobShape' /\ (\A s \in Req \ {q} : job'[s] = job[s]) /\ Carried(q)
    BY <1>7, JobContinue
  <2>2. req' = req /\ banned' = banned
    BY <1>7 DEF vars
  <2> QED
    BY <1>7, <2>1, <2>2 DEF LateWriters, Banning, Carried
<1>8. ASSUME NEW u \in User, DeleteUserRow(u) PROVE JobShape' /\ LateWriters'
  <2>1. req' = req /\ banned' \subseteq banned /\ late' = late /\ job' = job
    BY <1>8 DEF DeleteUserRow, DeleteUser, Content!DeleteUser
  <2> QED
    BY <1>4, <2>1
<1>9. CASE Tick /\ UNCHANGED <<job, late>>
  BY <1>4, <1>9 DEF Tick
<1>10. CASE UNCHANGED pvars
  BY <1>4, <1>10 DEF pvars, vars
<1> QED
  BY <1>3, <1>5, <1>6, <1>7, <1>8, <1>9, <1>10 DEF PNext, WriteStep

(* Nothing is written for a user whose ban is complete, but by a request that  *)
(* the ban overtook or that a login it overtook let in.                        *)
THEOREM BannedSilent == PSpec => BannedWriteNothing
<1> DEFINE Silent == \A r \in Req : Writes(r) /\ job[r].actor \in banned /\ ~Banning(job[r].actor)
                       => Crashes \/ r \in late
<1>1. PInit => JobShape /\ LateWriters
  BY DEF PInit, Content!Init, Content!Idle, JobShape, LateWriters
<1>2. IInv /\ BanEndsSessions /\ LoginsSlip /\ (JobShape /\ LateWriters) /\ [PNext]_pvars => (JobShape /\ LateWriters)'
  BY LateNext
<1>3. LateWriters /\ [PNext]_pvars => [Silent]_pvars
  BY DEF LateWriters, Writes
<1> QED
  BY <1>1, <1>2, <1>3, PInvariance, BanInvariance, PTL DEF PSpec, BannedWriteNothing
=============================================================================
