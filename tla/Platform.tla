------------------------------ MODULE Platform ------------------------------
(***************************************************************************)
(* Sessions and content together.  A request that writes blogs, posts,     *)
(* comments or bans passes the access strategy with a token of Sessions;   *)
(* the super-admin's ban and deletion of a user act on both.  The handlers *)
(* that write content never look at BanInfo.isBanned: a banned user is     *)
(* kept from writing only by the end of his sessions.                      *)
(*   The content half is Moderation, instantiated over the same users and  *)
(* request slots: a slot holds a request of one half or of the other.      *)
(***************************************************************************)
EXTENDS Sessions

CONSTANTS Blog, Post, Comment, Ban

VARIABLES
  blog, post, comment, ban, gone, job, overtaken,  \* those of Moderation, job its req
  slipped,  \* history: device ids of the logins under way when a ban of their user
            \* was completed
  late,     \* history: writes under way at that moment, or let in by such a login
  raced,    \* history: device ids of sessions that two refreshes held at once
  crossed   \* history: those for which two answers were under way at once

content == <<blog, post, comment, ban, gone>>
pvars == <<vars, content, job, overtaken, slipped, late, raced, crossed>>

Content == INSTANCE Moderation WITH req <- job

(* A ban of u is complete when it has ended his sessions. *)
Completes(u) == \E r \in Req : req[r].pc = "banSessions" /\ req[r].user = u /\ req'[r] = Idle
Refreshing(d) == {r \in Req : req[r].pc \in RefreshPC /\ req[r].dev = d}
Answering(d) == {r \in Req : req[r].pc \in RefreshPC \cup {"respond"} /\ req[r].dev = d}

-----------------------------------------------------------------------------
(* A request of Sessions. *)
SessionStep(r) ==
  /\ job[r] = Content!Idle
  /\ Arrive(r) \/ Continue(r) \/ Abort(r)
  /\ UNCHANGED <<content, job>>
  /\ slipped' = (slipped \cap (DOMAIN sessions' \cup Opening'))
                \cup {req[s].dev : s \in {s \in Req : req[s].pc \in LoginPC /\ Completes(req[s].user)}}
  /\ late' = late \cup {s \in Req : Completes(job[s].actor)}
  /\ raced' = (raced \cup {d \in created : \E s \in Refreshing(d)' : Refreshing(d)' # {s}})
              \cap DOMAIN sessions'
  /\ crossed' = (crossed \cup {d \in created : \E s \in Answering(d)' : Answering(d)' # {s}})
                \cap DOMAIN sessions'

(* JwtAtStrategy lets a request in as the user of the token, and the        *)
(* handler runs call by call.                                               *)
(* Mutant: the session is not looked up. *)
WriteGuardNoSession(r, t) ==
  /\ req[r] = Idle
  /\ clock < t.at + AccessTTL
  /\ Content!Arrive(r, t.user)
  /\ late' = IF t.dev \in slipped THEN late \cup {r} ELSE late
WriteGuard(r, t) ==
  /\ req[r] = Idle
  /\ AccessAccepted(t)
  /\ Content!Arrive(r, t.user)
  /\ late' = IF t.dev \in slipped THEN late \cup {r} ELSE late
AdminGuard(r) == req[r] = Idle /\ Content!AdminArrive(r) /\ UNCHANGED late
WriteStep(r) ==
  /\ \/ \E t \in tokens : WriteGuard(r, t)
     \/ AdminGuard(r)
     \/ Content!Continue(r) /\ late' = {s \in late : job'[s] # Content!Idle}
  /\ UNCHANGED <<vars, slipped, raced, crossed>>

(* Deleting a user is one call; its cascades reach sessions and content.    *)
DeleteUserRow(u) ==
  /\ DeleteUser(u)
  /\ \E r \in Req : req[r] = Idle /\ Content!DeleteUser(r, u)
  /\ slipped' = slipped \cap (DOMAIN sessions' \cup Opening)
  /\ UNCHANGED <<late, raced, crossed>>

PInit == Init /\ Content!Init /\ slipped = {} /\ late = {} /\ raced = {} /\ crossed = {}
PNext ==
  /\ \/ \E r \in Req : SessionStep(r) \/ WriteStep(r)
     \/ \E u \in User : DeleteUserRow(u)
     \/ Tick /\ UNCHANGED <<content, job, slipped, late, raced, crossed>>
  /\ Content!Watch
PSpec == PInit /\ [][PNext]_pvars

-----------------------------------------------------------------------------
(***************************************************************************)
(* Properties.                                                             *)
(***************************************************************************)
(* The content half of the platform is a Moderation: a guard lets in none   *)
(* but users that exist, and bans and deletions come at any moment.  So     *)
(* what Moderation promises holds with sessions in front of it              *)
(* (jwt.at.strategy.ts:20).                                                 *)
Moderates == Content!Spec

(* Once a ban is complete the user has no session, except one whose login   *)
(* was under way at that moment (ban-unban-user-admin-user-case.ts:53 and   *)
(* login-user-use-case.ts:55).                                              *)
Banning(u) == \E r \in Req : req[r].pc = "banSessions" /\ req[r].user = u
BanEndsSessions ==
  Crashes \/ \A d \in DOMAIN sessions :
    LET u == sessions[d].user IN u \in banned /\ ~Banning(u) => d \in slipped

(* Nothing is written for a banned user, although no handler that writes    *)
(* looks at the ban, except by a request under way when the ban was         *)
(* complete or let in by such a login                                       *)
(* (create-comment-for-specified-post-use-case.ts:25).                      *)
Writes(r) == job[r] # Content!Idle /\ job'[r] = Content!Idle /\ content' # content
BannedWriteNothing ==
  [][\A r \in Req : Writes(r) /\ job[r].actor \in banned /\ ~Banning(job[r].actor)
       => Crashes \/ r \in late]_pvars

(* Rotation: once a client holds a later pair of a device, every earlier    *)
(* pair is refused, unless two refreshes of that device overlapped: they    *)
(* may store their iat in either order (auth.service.ts:45).                *)
OldPairsRefused ==
  \A t1, t2 \in tokens : t1.dev = t2.dev /\ t1.dev \notin raced =>
    /\ t1.rt < t2.rt => ~RefreshAccepted(t1)
    /\ t1.at < t2.rt => ~AccessAccepted(t1)

(* A client is not locked out of its own session: what it holds is accepted *)
(* until it expires, though a refresh reads, signs, stores and answers in   *)
(* separate steps and other requests come in between.  Left out are devices *)
(* for which two answers crossed (the client may then hold the pair that is *)
(* not stored), a process death, and access tokens signed a second before   *)
(* their refresh token (auth.service.ts:45, auth.controller.ts:130).        *)
NoLockout ==
  Crashes \/ \A d \in DOMAIN sessions \ crossed :
    (\A r \in Req : req[r].pc = "respond" => req[r].dev # d) =>
      /\ d \in DOMAIN held
      /\ LET t == held[d] IN
           /\ clock < t.rt + RefreshTTL => RefreshAccepted(t)
           /\ t.at = t.rt /\ clock < t.at + AccessTTL => AccessAccepted(t)
=============================================================================
