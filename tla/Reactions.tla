----------------------------- MODULE Reactions ------------------------------
(***************************************************************************)
(* Likes and dislikes of posts and comments: the two PUT like-status       *)
(* handlers, which find the user's row and then insert or update one, and  *)
(* the view of a post or comment, whose counts are separate queries.  The  *)
(* state is the tables PostLikeStatus and CommentLikeStatus, the rows they *)
(* refer to and the requests in flight; every awaited Prisma call is one   *)
(* action.  All posts and comments are of one blog.                        *)
(***************************************************************************)
EXTENDS Naturals, FiniteSets, Functions

CONSTANTS
  User,
  Post, Comment,
  Reaction,  \* ids of reaction rows
  Req,       \* request slots
  None,
  Take       \* how many of the newest likes a post shows (3 in the code)

Target == Post \cup Comment
ASSUME NoneAssumption == None \notin User \cup Target \cup Reaction
ASSUME TargetAssumption == Post \cap Comment = {}
ASSUME TakeAssumption == Take \in Nat
ASSUME ReqAssumption == IsFiniteSet(Req)

VARIABLES
  users, banned,  \* rows of User, and those with BanInfo.isBanned
  target,         \* post or comment -> its author (of a post: the blogger)
  blogBanned,     \* BannedBlogs.isBanned of the blog
  reaction,       \* id -> row
  gone,           \* ids drawn so far: they are UUIDs and never reused
  asked,          \* history: the status each user was last answered 204 for
  raced,          \* history: users and targets for which two of his requests had
                  \* looked for his row and not been answered
  req

vars == <<users, banned, target, blogBanned, reaction, gone, asked, raced, req>>
tables == <<users, banned, target, blogBanned, reaction, gone, asked>>

Status == {"Like", "Dislike", "None"}
Row == [user : User, target : Target, status : Status, at : Nat]
PC == {"idle", "user", "find", "create", "update", "answer", "likes", "dislikes", "newest", "mine", "respond"}
Idle == [pc |-> "idle", user |-> None, target |-> None, status |-> "None", item |-> None,
         likes |-> 0, dislikes |-> 0, newest |-> {}]

Targets == DOMAIN target
Rows == DOMAIN reaction
RowsOf(u, t) == {x \in Rows : reaction[x].user = u /\ reaction[x].target = t}
Start(r, q) == req[r] = Idle /\ req' = [req EXCEPT ![r] = q]
Goto(r, from, q) == req[r].pc = from /\ req' = [req EXCEPT ![r] = q]
Finish(r, from) == Goto(r, from, Idle)
Next1(r, pc) == [req[r] EXCEPT !.pc = pc]

(* A hidden post or comment is not found.  Both filters look at the blog's  *)
(* ban and at the author's; for a post the author is the blogger.           *)
Visible(t) == target[t] \notin banned /\ ~blogBanned
(* The reactions the counts see: not those of banned users. *)
Counted(t, s) == {x \in Rows : reaction[x].target = t /\ reaction[x].status = s
                               /\ reaction[x].user \notin banned /\ ~blogBanned}

-----------------------------------------------------------------------------
(* PUT posts/:id/like-status and comments/:id/like-status.  A comment is    *)
(* found only when visible, a post always; a guard found the user.          *)
ReactFind(r, u, t, s) ==
  /\ t \in Comment => Visible(t)
  /\ Start(r, [Idle EXCEPT !.pc = "user", !.user = u, !.target = t, !.status = s])
  /\ UNCHANGED tables
ReactUserFind(r) ==
  /\ IF req[r].user \in users THEN Goto(r, "user", Next1(r, "find")) ELSE Finish(r, "user")
  /\ UNCHANGED tables
(* Mutant: a row whose status is None counts as none. *)
ReactionFindSkipsNone(r) ==
  LET E == {x \in RowsOf(req[r].user, req[r].target) : reaction[x].status # "None"} IN
  /\ \/ E = {} /\ Goto(r, "find", Next1(r, "create"))
     \/ \E x \in E : Goto(r, "find", [Next1(r, "update") EXCEPT !.item = x])
  /\ UNCHANGED tables
ReactionFind(r) ==
  LET E == RowsOf(req[r].user, req[r].target) IN
  /\ \/ E = {} /\ Goto(r, "find", Next1(r, "create"))
     \/ \E x \in E : Goto(r, "find", [Next1(r, "update") EXCEPT !.item = x])
  /\ UNCHANGED tables

(* addedAt is the time of the insert; updating the status leaves it. *)
(* Mutant: the tables have no foreign keys. *)
CreateReactionNoKey(r, x) ==
  LET q == req[r]
      row == [user |-> q.user, target |-> q.target, status |-> q.status, at |-> Cardinality(gone)] IN
  /\ x \in Reaction \ gone
  /\ Goto(r, "create", Next1(r, "answer"))
  /\ reaction' = [y \in Rows \cup {x} |-> IF y = x THEN row ELSE reaction[y]]
  /\ gone' = gone \cup {x}
  /\ UNCHANGED <<users, banned, target, blogBanned, asked>>
CreateReaction(r, x) ==
  LET q == req[r]
      row == [user |-> q.user, target |-> q.target, status |-> q.status, at |-> Cardinality(gone)] IN
  /\ q.user \in users /\ q.target \in Targets /\ x \in Reaction \ gone
  /\ Goto(r, "create", Next1(r, "answer"))
  /\ reaction' = [y \in Rows \cup {x} |-> IF y = x THEN row ELSE reaction[y]]
  /\ gone' = gone \cup {x}
  /\ UNCHANGED <<users, banned, target, blogBanned, asked>>
(* Mutant: the status is toggled off instead of replaced. *)
UpdateReactionToggles(r) ==
  LET q == req[r] IN
  /\ q.item \in Rows
  /\ Goto(r, "update", Next1(r, "answer"))
  /\ reaction' = [reaction EXCEPT ![q.item].status = IF @ = q.status THEN "None" ELSE q.status]
  /\ UNCHANGED <<users, banned, target, blogBanned, gone, asked>>
UpdateReaction(r) ==
  LET q == req[r] IN
  /\ q.item \in Rows
  /\ Goto(r, "update", Next1(r, "answer"))
  /\ reaction' = [reaction EXCEPT ![q.item].status = q.status]
  /\ UNCHANGED <<users, banned, target, blogBanned, gone, asked>>
(* The insert misses a row it refers to, or the update its row. *)
WriteFails(r) ==
  LET q == req[r] IN
  /\ \/ q.pc = "create" /\ (q.user \notin users \/ q.target \notin Targets)
     \/ q.pc = "update" /\ q.item \notin Rows
  /\ Finish(r, q.pc)
  /\ UNCHANGED tables
(* The 204 goes out after the awaited write.                                *)
Answer(r) ==
  /\ Finish(r, "answer")
  /\ asked' = [asked EXCEPT ![req[r].user][req[r].target] = req[r].status]
  /\ UNCHANGED <<users, banned, target, blogBanned, reaction, gone>>

-----------------------------------------------------------------------------
(* GET posts/:id and comments/:id, for a user or (None) an anonymous one.   *)
(* The guard only decodes the access token: the user may be gone.           *)
ViewFind(r, u, t) ==
  /\ Visible(t)
  /\ Start(r, [Idle EXCEPT !.pc = "likes", !.user = u, !.target = t])
  /\ UNCHANGED tables
(* Mutant: the likes of banned users count. *)
ViewLikesOfAll(r) ==
  LET all == {x \in Rows : reaction[x].target = req[r].target /\ reaction[x].status = "Like"} IN
  /\ Goto(r, "likes", [Next1(r, "dislikes") EXCEPT !.likes = Cardinality(all)])
  /\ UNCHANGED tables
ViewLikes(r) ==
  /\ Goto(r, "likes", [Next1(r, "dislikes") EXCEPT !.likes = Cardinality(Counted(req[r].target, "Like"))])
  /\ UNCHANGED tables
ViewDislikes(r) ==
  LET next == IF req[r].target \in Post THEN "newest" ELSE "mine" IN
  /\ Goto(r, "dislikes", [Next1(r, next) EXCEPT !.dislikes = Cardinality(Counted(req[r].target, "Dislike"))])
  /\ UNCHANGED tables
NewestOf(E) == {x \in E : Cardinality({y \in E : reaction[y].at > reaction[x].at}) < Take}
ViewNewest(r) ==
  /\ Goto(r, "newest", [Next1(r, "mine") EXCEPT
       !.newest = {reaction[x].user : x \in NewestOf(Counted(req[r].target, "Like"))}])
  /\ UNCHANGED tables
(* The viewer's own status; the one of a post is hidden with the blog.      *)
ViewMine(r) ==
  LET q == req[r]
      E == IF q.user \in banned \/ (q.target \in Post /\ blogBanned) THEN {} ELSE RowsOf(q.user, q.target) IN
  /\ \/ E = {} /\ Goto(r, "mine", Next1(r, "respond"))
     \/ \E x \in E : Goto(r, "mine", [Next1(r, "respond") EXCEPT !.status = reaction[x].status])
  /\ UNCHANGED tables
Respond(r) == Finish(r, "respond") /\ UNCHANGED tables

-----------------------------------------------------------------------------
(* What the other handlers do to these tables, each in a free request slot: *)
(* bans of users and of the blog, deletions and their cascades.             *)
AdminBan(r, u) ==
  /\ req[r] = Idle
  /\ banned' \in {banned \cup {u}, banned \ {u}}
  /\ UNCHANGED <<users, target, blogBanned, reaction, gone, asked, req>>
BanBlog(r) ==
  /\ req[r] = Idle
  /\ blogBanned' \in BOOLEAN
  /\ UNCHANGED <<users, banned, target, reaction, gone, asked, req>>
Keep(Us, Ts) ==
  LET T == {t \in Ts : target[t] \in Us} IN
  /\ users' = Us /\ banned' = banned \cap Us
  /\ target' = Restrict(target, T)
  /\ reaction' = Restrict(reaction, {x \in Rows : reaction[x].user \in Us /\ reaction[x].target \in T})
(* Mutant: the bans of a deleted user stay. *)
DeleteUserKeepsBan(r, u) ==
  /\ req[r] = Idle
  /\ users' = users \ {u}
  /\ target' = Restrict(target, {t \in Targets : target[t] # u})
  /\ reaction' = Restrict(reaction, {x \in Rows : reaction[x].user # u /\ target[reaction[x].target] # u})
  /\ UNCHANGED <<banned, blogBanned, gone, asked, req>>
DeleteUser(r, u) ==
  /\ req[r] = Idle
  /\ Keep(users \ {u}, Targets)
  /\ UNCHANGED <<blogBanned, gone, asked, req>>
DeleteTarget(r, t) ==
  /\ req[r] = Idle
  /\ Keep(users, Targets \ {t})
  /\ UNCHANGED <<blogBanned, gone, asked, req>>

Init ==
  /\ users = User /\ banned = {}
  /\ target \in [Target -> User]
  /\ blogBanned = FALSE
  /\ reaction = << >> /\ gone = {}
  /\ asked = [u \in User |-> [t \in Target |-> "None"]]
  /\ raced = {}
  /\ req = [r \in Req |-> Idle]

Act == \E r \in Req :
  \/ \E u \in users, t \in Targets, s \in Status : ReactFind(r, u, t, s)
  \/ ReactUserFind(r)
  \/ ReactionFind(r)
  \/ \E x \in Reaction : CreateReaction(r, x)
  \/ UpdateReaction(r)
  \/ WriteFails(r)
  \/ Answer(r)
  \/ \E u \in User \cup {None}, t \in Targets : ViewFind(r, u, t)
  \/ ViewLikes(r)
  \/ ViewDislikes(r)
  \/ ViewNewest(r)
  \/ ViewMine(r)
  \/ Respond(r)
  \/ \E u \in users : AdminBan(r, u) \/ DeleteUser(r, u)
  \/ BanBlog(r)
  \/ \E t \in Targets : DeleteTarget(r, t)

(* The requests that have looked for the user's row, up to their answer;    *)
(* raced remembers whose overlapped.                                        *)
Past(u, t) ==
  {r \in Req : req[r].pc \in {"create", "update", "answer"} /\ req[r].user = u /\ req[r].target = t}
Watch == raced' = {p \in users' \X Targets' :
                     p \in raced \/ \E r \in Past(p[1], p[2])' : Past(p[1], p[2])' # {r}}
Next == Act /\ Watch

Spec == Init /\ [][Next]_vars

-----------------------------------------------------------------------------
(***************************************************************************)
(* Properties.                                                             *)
(***************************************************************************)
TypeOK ==
  /\ users \subseteq User /\ banned \subseteq users
  /\ Targets \subseteq Target /\ target \in [Targets -> User]
  /\ blogBanned \in BOOLEAN
  /\ Rows \subseteq gone /\ gone \subseteq Reaction
  /\ reaction \in [Rows -> Row]
  /\ asked \in [User -> [Target -> Status]]
  /\ raced \subseteq users \X Targets
  /\ req \in [Req -> [pc : PC, user : User \cup {None}, target : Target \cup {None}, status : Status,
                      item : Reaction \cup {None}, likes : Nat, dislikes : Nat, newest : SUBSET User]]

(* Every reaction is of a user and a post or comment that exist, whatever   *)
(* is deleted between the find and the insert (schema.prisma:126 and 136).  *)
NoOrphans == \A x \in Rows : reaction[x].user \in users /\ reaction[x].target \in Targets

(* Nothing in the schema keeps a user from having two reactions to one post *)
(* or comment; only requests of his that overlap can get there, and only as *)
(* many rows as there were such requests (one, when they run one at a time).*)
Creators(u, t) == {r \in Req : req[r].pc = "create" /\ req[r].user = u /\ req[r].target = t}
DuplicatesBounded ==
  \A u \in User, t \in Target :
    Cardinality(RowsOf(u, t)) + Cardinality(Creators(u, t)) <= Cardinality(Req)

(* A user has one reaction row for what he reacted to, with the status he   *)
(* was last answered for, or that of the request whose answer is under way, *)
(* although rows are found, written and answered in separate steps and have *)
(* no unique index (update-reaction-to-post-use-case.ts:37).  It fails only *)
(* for a user whose own requests for one target overlapped.                 *)
LastReactionKept ==
  \A u \in users, t \in Targets :
    /\ RowsOf(u, t) = {} => asked[u][t] = "None"
    /\ <<u, t>> \notin raced => \A x, y \in RowsOf(u, t) :
         /\ x = y
         /\ \/ \E r \in Past(u, t) : req[r].pc = "answer" /\ reaction[x].status = req[r].status
            \/ Past(u, t) \cap {r \in Req : req[r].pc = "answer"} = {} /\ reaction[x].status = asked[u][t]

(* The answer to a GET agrees with what users last asked for: a user counts *)
(* once, on the side he last chose and only while he is not banned; the     *)
(* newest likes are the full count or Take of them, and the viewer sees his *)
(* own choice (posts.query.sql.repository.ts:107).  It holds when requests  *)
(* run one at a time.                                                       *)
Choosing(t, s) == {u \in users \ banned : asked[u][t] = s}
ViewExact ==
  \A r \in Req : req[r].pc = "respond" =>
    LET q == req[r]
        likers == Choosing(q.target, "Like") IN
    /\ q.likes = Cardinality(likers)
    /\ q.dislikes = Cardinality(Choosing(q.target, "Dislike"))
    /\ q.target \in Post => /\ q.newest \subseteq likers
                            /\ Cardinality(q.newest) = IF q.likes < Take THEN q.likes ELSE Take
    /\ q.user \in users \ banned => q.status = asked[q.user][q.target]
=============================================================================
