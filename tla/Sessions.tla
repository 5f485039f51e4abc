------------------------------ MODULE Sessions ------------------------------
(***************************************************************************)
(* Device sessions and the JWT pairs that name them: login, token refresh, *)
(* logout, ending sessions, and the super-admin's ban and deletion of      *)
(* users.  The state is the PostgreSQL tables User, BanInfo and            *)
(* DeviceSessions, the token pairs clients hold and the requests in        *)
(* flight.  Every awaited Prisma call is a transaction of its own and no   *)
(* handler uses $transaction, so each call is one action and requests      *)
(* interleave between the awaits.  A refused request (401, 403, 404, or a  *)
(* database error) changes nothing and ends.                               *)
(***************************************************************************)
EXTENDS Naturals, Functions

CONSTANTS
  User,        \* user ids
  Device,      \* device ids randomUUID can draw
  Req,         \* request slots: how many requests are in flight at once
  None,        \* no user / no device
  AccessTTL,   \* lifetime of an access token, in seconds
  RefreshTTL,  \* lifetime of a refresh token, in seconds
  MaxTime,     \* bound on the clock
  Crashes      \* TRUE iff the process may die in the middle of a request

ASSUME NoneAssumption == None \notin User /\ None \notin Device
ASSUME TimeAssumption == AccessTTL \in Nat /\ RefreshTTL \in Nat /\ MaxTime \in Nat
ASSUME CrashAssumption == Crashes \in BOOLEAN

VARIABLES
  users,     \* rows of User
  banned,    \* users whose BanInfo.isBanned is true
  sessions,  \* rows of DeviceSessions: device id -> owner, lastActiveDate
  created,   \* device ids randomUUID has drawn so far
  tokens,    \* token pairs that ever reached a client, and may be presented again
  held,      \* device id -> the pair its client holds: each response overwrites the
             \* cookie and the access token of the one before
  clock,     \* seconds; jsonwebtoken rounds iat down to a second
  req        \* requests in flight

vars == <<users, banned, sessions, created, tokens, held, clock, req>>

(***************************************************************************)
(* A request: the step it runs next and the locals it still holds.  user   *)
(* and dev come from the row or the token payload the request read, at and *)
(* rt are the iat of the access and refresh token it has signed.           *)
(***************************************************************************)
LoginPC == {"loginSign", "createSession"}
RefreshPC == {"refreshSign", "refreshUpdate"}
EndPC == {"logout", "deleteOthers", "deleteFind", "deleteSession"}
AdminPC == {"banUpdate", "unbanUpdate", "banSessions"}
HolderPC == RefreshPC \cup {"respond", "logout", "deleteOthers", "deleteSession"}
PC == {"idle", "respond"} \cup LoginPC \cup RefreshPC \cup EndPC \cup AdminPC

Idle == [pc |-> "idle", user |-> None, dev |-> None, at |-> 0, rt |-> 0]
Pair == [user : User, dev : Device, at : Nat, rt : Nat]
Row == [user : User, last : Nat]

Start(r, pc, u, d) ==
  /\ req[r].pc = "idle"
  /\ req' = [req EXCEPT ![r] = [Idle EXCEPT !.pc = pc, !.user = u, !.dev = d]]
Step(r, from, to) ==
  /\ req[r].pc = from
  /\ req' = [req EXCEPT ![r].pc = to]
Finish(r, from) ==
  /\ req[r].pc = from
  /\ req' = [req EXCEPT ![r] = Idle]

Owned(u) == {d \in DOMAIN sessions : sessions[d].user = u}
Ended(D) == Restrict(sessions, DOMAIN sessions \ D)

(***************************************************************************)
(* The passport strategies.  Both look the session up by the device id in  *)
(* the payload and compare lastActiveDate with iat; only the refresh       *)
(* strategy compares the owner.                                            *)
(***************************************************************************)
RefreshAccepted(t) ==
  /\ clock < t.rt + RefreshTTL
  /\ t.dev \in DOMAIN sessions
  /\ sessions[t.dev].user = t.user
  /\ sessions[t.dev].last = t.rt
AccessAccepted(t) ==
  /\ clock < t.at + AccessTTL
  /\ t.dev \in DOMAIN sessions
  /\ sessions[t.dev].last = t.at

-----------------------------------------------------------------------------
(* Mutant: the device id is not drawn anew. *)
LoginFindReusesDevice(r, u, d) ==
  /\ u \in users \ banned
  /\ Start(r, "loginSign", u, d)
  /\ created' = created \cup {d}
  /\ UNCHANGED <<users, banned, sessions, tokens, held, clock>>
(* Mutant: the ban flag is not looked at. *)
LoginFindIgnoresBan(r, u, d) ==
  /\ u \in users
  /\ d \in Device \ created
  /\ Start(r, "loginSign", u, d)
  /\ created' = created \cup {d}
  /\ UNCHANGED <<users, banned, sessions, tokens, held, clock>>

(* Login.  The ban flag is read with the user row and not again; the id is  *)
(* drawn after bcrypt.compare, with no database call in between.            *)
LoginFind(r, u, d) ==
  /\ u \in users \ banned
  /\ d \in Device \ created
  /\ Start(r, "loginSign", u, d)
  /\ created' = created \cup {d}
  /\ UNCHANGED <<users, banned, sessions, tokens, held, clock>>

(* getTokens signs both tokens in one turn of the event loop; a second may  *)
(* begin between the two calls.                                             *)
Sign(r, from, to, t) ==
  /\ req[r].pc = from
  /\ t \in {clock, clock + 1} /\ t <= MaxTime
  /\ clock' = t
  /\ req' = [req EXCEPT ![r].pc = to, ![r].at = clock, ![r].rt = t]
  /\ UNCHANGED <<users, banned, sessions, created, tokens, held>>
LoginSign(r, t) == Sign(r, "loginSign", "createSession", t)

(* Mutant: DeviceSessions has no foreign key to User. *)
CreateSessionNoKey(r) ==
  LET q == req[r]
      row == [user |-> q.user, last |-> q.rt] IN
  /\ Step(r, "createSession", "respond")
  /\ sessions' = [d \in DOMAIN sessions \cup {q.dev} |-> IF d = q.dev THEN row ELSE sessions[d]]
  /\ UNCHANGED <<users, banned, created, tokens, held, clock>>
(* Mutant: lastActiveDate is the iat of the access token. *)
CreateSessionAccessIat(r) ==
  LET q == req[r]
      row == [user |-> q.user, last |-> q.at] IN
  /\ q.user \in users
  /\ Step(r, "createSession", "respond")
  /\ sessions' = [d \in DOMAIN sessions \cup {q.dev} |-> IF d = q.dev THEN row ELSE sessions[d]]
  /\ UNCHANGED <<users, banned, created, tokens, held, clock>>

(* The insert fails on its foreign key when the user was deleted meanwhile. *)
CreateSession(r) ==
  LET q == req[r]
      row == [user |-> q.user, last |-> q.rt] IN
  /\ q.user \in users
  /\ Step(r, "createSession", "respond")
  /\ sessions' = [d \in DOMAIN sessions \cup {q.dev} |-> IF d = q.dev THEN row ELSE sessions[d]]
  /\ UNCHANGED <<users, banned, created, tokens, held, clock>>
CreateSessionFails(r) ==
  /\ req[r].user \notin users
  /\ Finish(r, "createSession")
  /\ UNCHANGED <<users, banned, sessions, created, tokens, held, clock>>

(* The response of a login or a refresh reaches the client: the access      *)
(* token in the body, the refresh token in a cookie that replaces the last. *)
(* (The cookie a logout clears names a session that is gone.)               *)
Respond(r) ==
  LET q == req[r]
      t == [user |-> q.user, dev |-> q.dev, at |-> q.at, rt |-> q.rt] IN
  /\ Finish(r, "respond")
  /\ tokens' = tokens \cup {t}
  /\ held' = [d \in DOMAIN held \cup {q.dev} |-> IF d = q.dev THEN t ELSE held[d]]
  /\ UNCHANGED <<users, banned, sessions, created, clock>>

-----------------------------------------------------------------------------
(* A request behind AuthGuard('jwt-refresh'): the guard reads the session,  *)
(* the handler acts later on what the payload says.                         *)
Guarded(r, t, pc, d) ==
  /\ RefreshAccepted(t)
  /\ Start(r, pc, t.user, d)
  /\ UNCHANGED <<users, banned, sessions, created, tokens, held, clock>>
RefreshGuard(r, t) == Guarded(r, t, "refreshSign", t.dev)
LogoutGuard(r, t) == Guarded(r, t, "logout", t.dev)
DeleteOthersGuard(r, t) == Guarded(r, t, "deleteOthers", t.dev)
DeleteSessionGuard(r, t, d) == Guarded(r, t, "deleteFind", d)

RefreshSign(r, t) == Sign(r, "refreshSign", "refreshUpdate", t)

(* Mutant: updateLastActiveDate inserts the session when it is gone. *)
RefreshUpdateUpserts(r) ==
  LET q == req[r] IN
  /\ Step(r, "refreshUpdate", "respond")
  /\ sessions' = [d \in DOMAIN sessions \cup {q.dev} |->
                    IF d = q.dev THEN [user |-> q.user, last |-> q.rt] ELSE sessions[d]]
  /\ UNCHANGED <<users, banned, created, tokens, held, clock>>
(* Mutant: a refresh signs new tokens and does not store their iat. *)
RefreshUpdateForgets(r) ==
  /\ req[r].dev \in DOMAIN sessions
  /\ Step(r, "refreshUpdate", "respond")
  /\ UNCHANGED <<users, banned, sessions, created, tokens, held, clock>>

(* updateLastActiveDate: an update by device id, 404 when the row is gone.  *)
RefreshUpdate(r) ==
  LET q == req[r] IN
  /\ q.dev \in DOMAIN sessions
  /\ Step(r, "refreshUpdate", "respond")
  /\ sessions' = [sessions EXCEPT ![q.dev].last = q.rt]
  /\ UNCHANGED <<users, banned, created, tokens, held, clock>>
RefreshUpdateFails(r) ==
  /\ req[r].dev \notin DOMAIN sessions
  /\ Finish(r, "refreshUpdate")
  /\ UNCHANGED <<users, banned, sessions, created, tokens, held, clock>>

(* Deletes by device id.  A row that is already gone is an error, and then  *)
(* nothing changes.                                                         *)
DeleteByDevice(r, pc) ==
  /\ Finish(r, pc)
  /\ sessions' = Ended({req[r].dev})
  /\ UNCHANGED <<users, banned, created, tokens, held, clock>>
Logout(r) == DeleteByDevice(r, "logout")
DeleteSession(r) == DeleteByDevice(r, "deleteSession")

DeleteOthers(r) ==
  /\ Finish(r, "deleteOthers")
  /\ sessions' = Ended(Owned(req[r].user) \ {req[r].dev})
  /\ UNCHANGED <<users, banned, created, tokens, held, clock>>

(* Mutant: the owner of the session is not compared. *)
DeleteFindAnyOwner(r) ==
  /\ IF req[r].dev \in DOMAIN sessions
     THEN Step(r, "deleteFind", "deleteSession")
     ELSE Finish(r, "deleteFind")
  /\ UNCHANGED <<users, banned, sessions, created, tokens, held, clock>>

(* DELETE security/devices/:deviceId: 404 without a session, 403 on another *)
(* user's; the delete is a later call that does not look at the owner.      *)
DeleteFind(r) ==
  /\ IF req[r].dev \in Owned(req[r].user)
     THEN Step(r, "deleteFind", "deleteSession")
     ELSE Finish(r, "deleteFind")
  /\ UNCHANGED <<users, banned, sessions, created, tokens, held, clock>>

-----------------------------------------------------------------------------
(* PUT sa/users/:id/ban: find the user, update BanInfo (an error when the   *)
(* row went with its user), and for a ban end the sessions in a third call. *)
BanFind(r, u, pc) ==
  /\ u \in users
  /\ Start(r, pc, u, None)
  /\ UNCHANGED <<users, banned, sessions, created, tokens, held, clock>>
BanUpdate(r) ==
  /\ IF req[r].user \in users
     THEN Step(r, "banUpdate", "banSessions") /\ banned' = banned \cup {req[r].user}
     ELSE Finish(r, "banUpdate") /\ UNCHANGED banned
  /\ UNCHANGED <<users, sessions, created, tokens, held, clock>>
(* Mutant: the ban ends one session of the user. *)
BanSessionsOne(r) ==
  /\ Finish(r, "banSessions")
  /\ \/ \E d \in Owned(req[r].user) : sessions' = Ended({d})
     \/ Owned(req[r].user) = {} /\ UNCHANGED sessions
  /\ UNCHANGED <<users, banned, created, tokens, held, clock>>
BanSessions(r) ==
  /\ Finish(r, "banSessions")
  /\ sessions' = Ended(Owned(req[r].user))
  /\ UNCHANGED <<users, banned, created, tokens, held, clock>>
UnbanUpdate(r) ==
  /\ Finish(r, "unbanUpdate")
  /\ banned' = banned \ {req[r].user}
  /\ UNCHANGED <<users, sessions, created, tokens, held, clock>>

(* Mutant: BanInfo does not cascade. *)
DeleteUserKeepsBan(u) ==
  /\ u \in users
  /\ users' = users \ {u}
  /\ sessions' = Ended(Owned(u))
  /\ UNCHANGED <<banned, created, tokens, held, clock, req>>

(* DELETE sa/users/:id: one call; BanInfo and DeviceSessions cascade. *)
DeleteUser(u) ==
  /\ u \in users
  /\ users' = users \ {u}
  /\ banned' = banned \ {u}
  /\ sessions' = Ended(Owned(u))
  /\ UNCHANGED <<created, tokens, held, clock, req>>

-----------------------------------------------------------------------------
(* The process dies, or the platform kills it, with the request anywhere    *)
(* between two awaits; a lost response is a death in "respond".             *)
Abort(r) ==
  /\ Crashes
  /\ req[r].pc # "idle"
  /\ Finish(r, req[r].pc)
  /\ UNCHANGED <<users, banned, sessions, created, tokens, held, clock>>

Tick ==
  /\ clock < MaxTime
  /\ clock' = clock + 1
  /\ UNCHANGED <<users, banned, sessions, created, tokens, held, req>>

Init ==
  /\ users = User
  /\ banned = {}
  /\ sessions = << >>
  /\ created = {}
  /\ tokens = {}
  /\ held = << >>
  /\ clock = 0
  /\ req = [r \in Req |-> Idle]

Arrive(r) ==
  \/ \E u \in User, d \in Device : LoginFind(r, u, d)
  \/ \E t \in tokens : RefreshGuard(r, t)
  \/ \E t \in tokens : LogoutGuard(r, t)
  \/ \E t \in tokens : DeleteOthersGuard(r, t)
  \/ \E t \in tokens, d \in created : DeleteSessionGuard(r, t, d)
  \/ \E u \in User, pc \in {"banUpdate", "unbanUpdate"} : BanFind(r, u, pc)

Continue(r) ==
  \/ \E t \in 0 .. MaxTime : LoginSign(r, t)
  \/ CreateSession(r)
  \/ CreateSessionFails(r)
  \/ Respond(r)
  \/ \E t \in 0 .. MaxTime : RefreshSign(r, t)
  \/ RefreshUpdate(r)
  \/ RefreshUpdateFails(r)
  \/ Logout(r)
  \/ DeleteOthers(r)
  \/ DeleteFind(r)
  \/ DeleteSession(r)
  \/ BanUpdate(r)
  \/ BanSessions(r)
  \/ UnbanUpdate(r)

Next ==
  \/ \E r \in Req : Arrive(r) \/ Continue(r) \/ Abort(r)
  \/ \E u \in User : DeleteUser(u)
  \/ Tick

(* The event loop resumes every handler whose awaited call has been         *)
(* answered; nothing obliges a request to arrive, a user to be deleted or   *)
(* the process to die.                                                      *)
Fairness == \A r \in Req : WF_vars(Continue(r))

Spec == Init /\ [][Next]_vars
FairSpec == Spec /\ Fairness

-----------------------------------------------------------------------------
(***************************************************************************)
(* Properties.                                                             *)
(***************************************************************************)
(* Types of the tables, the tokens and the requests' locals. *)
TypeOK ==
  /\ users \subseteq User
  /\ banned \subseteq users
  /\ created \subseteq Device
  /\ DOMAIN sessions \subseteq created
  /\ sessions \in [DOMAIN sessions -> Row]
  /\ tokens \subseteq Pair
  /\ DOMAIN held \subseteq created
  /\ held \in [DOMAIN held -> tokens]
  /\ clock \in Nat
  /\ req \in [Req -> [pc : PC, user : User \cup {None}, dev : Device \cup {None},
                      at : Nat, rt : Nat]]
  /\ \A r \in Req : req[r].pc # "idle" => req[r].user \in User
  /\ \A r \in Req : req[r].pc \in LoginPC \cup HolderPC => req[r].dev \in created

(* Every session belongs to a user that exists, although a login inserts it *)
(* several calls after it read the user (login-user-use-case.ts:55).        *)
SessionOwnerExists == \A d \in DOMAIN sessions : sessions[d].user \in users

(* The device ids of logins that have not inserted their session yet. *)
Opening == {req[r].dev : r \in {s \in Req : req[s].pc \in LoginPC}}

(* d has been opened, and if it is still open it is u's. *)
Knows(u, d) ==
  /\ d \in created \ Opening
  /\ d \in DOMAIN sessions => sessions[d].user = u

(* Every token a client holds, however old, names a device that is its      *)
(* user's or nobody's: the access strategy, which never compares the owner  *)
(* (jwt.at.strategy.ts:25), accepts no token for another user's session.    *)
TokensNameTheirOwner == \A t \in tokens : Knows(t.user, t.dev)

(* A request that passed a guard or an ownership check and has not acted    *)
(* yet still acts on its own user's session: no interleaving makes the      *)
(* check of delete-session-use-case.ts:22 stale in the dangerous direction. *)
HoldersKnow == \A r \in Req : req[r].pc \in HolderPC => Knows(req[r].user, req[r].dev)

(* Logins in flight hold different device ids, none of them open. *)
OpeningFresh ==
  /\ \A r \in Req : req[r].pc \in LoginPC => req[r].dev \in created \ DOMAIN sessions
  /\ \A r, s \in Req : req[r].pc \in LoginPC /\ req[s].pc \in LoginPC /\ r # s
                       => req[r].dev # req[s].dev

(* The inductive invariant. *)
IInv ==
  /\ TypeOK
  /\ SessionOwnerExists
  /\ OpeningFresh
  /\ HoldersKnow
  /\ TokensNameTheirOwner

(* A session ends only with its user, or by a request of its own user or    *)
(* the ban of its user; logging out ends the caller's session, logging out  *)
(* elsewhere never ends it.                                                 *)
EndedByRight(d) ==
  LET u == sessions[d].user IN
  \/ u \notin users'
  \/ \E r \in Req :
       /\ req[r].user = u /\ req'[r] = Idle
       /\ \/ req[r].pc = "banSessions"
          \/ req[r].pc \in {"logout", "deleteSession"} /\ req[r].dev = d
          \/ req[r].pc = "deleteOthers" /\ req[r].dev # d
SessionsEndByRight == [][\A d \in DOMAIN sessions \ DOMAIN sessions' : EndedByRight(d)]_vars

(* When no request is in flight, a banned user's tokens are all refused,    *)
(* by both strategies: the ban ends every session and login refuses a new   *)
(* one.  It holds when requests run one at a time and none is cut short.    *)
BannedLockedOut ==
  (\A r \in Req : req[r].pc = "idle") =>
    \A t \in tokens : t.user \in banned => ~RefreshAccepted(t) /\ ~AccessAccepted(t)

(* A session that some request is about to end does end, whatever refreshes *)
(* and logins run meanwhile, when the process stays up.                     *)
Doomed(d) ==
  \E r \in Req :
    \/ req[r].pc = "banSessions" /\ d \in Owned(req[r].user)
    \/ req[r].pc = "deleteOthers" /\ d \in Owned(req[r].user) \ {req[r].dev}
    \/ req[r].pc \in {"logout", "deleteSession"} /\ d = req[r].dev
DoomedSessionsEnd == \A d \in Device : Doomed(d) ~> d \notin DOMAIN sessions

(* Sessions implements SessionLifecycle: a device id is opened once, for    *)
(* one user, and an ended session never comes back.                         *)
Live == [d \in DOMAIN sessions |-> sessions[d].user]
Spent == created \ (DOMAIN sessions \cup Opening)
Lifecycle == INSTANCE SessionLifecycle WITH live <- Live, spent <- Spent
NeverReopened == Lifecycle!Spec
=============================================================================
