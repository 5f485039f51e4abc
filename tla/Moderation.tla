----------------------------- MODULE Moderation -----------------------------
(***************************************************************************)
(* Blogs, posts and comments, and who may write, moderate and remove them: *)
(* the blogger who owns a blog bans users from it, the super-admin bans    *)
(* blogs and users and deletes users.  The state is the PostgreSQL tables  *)
(* User, BanInfo, Blog (with BannedBlogs), Post, Comment and BannedUsers,  *)
(* and the requests in flight; every awaited Prisma call is one action and *)
(* a refused request changes nothing and ends.                             *)
(***************************************************************************)
EXTENDS Naturals, FiniteSets, Functions

CONSTANTS
  User, Blog, Post, Comment,
  Ban,    \* ids of rows of BannedUsers
  Req,    \* request slots
  None

ASSUME NoneAssumption == None \notin User \cup Blog \cup Post \cup Comment \cup Ban
ASSUME ReqAssumption == IsFiniteSet(Req)

VARIABLES
  users,    \* rows of User, each with its Blogger row
  banned,   \* users whose BanInfo.isBanned is true
  blog, post, comment,  \* id -> row
  ban,      \* id -> row of BannedUsers: user may not comment in blog
  gone,     \* ids drawn so far: they are UUIDs and never reused
  req,
  overtaken \* history: requests whose check a ban has overtaken since

vars == <<users, banned, blog, post, comment, ban, gone, req, overtaken>>
content == <<users, banned, blog, post, comment, ban, gone>>

(***************************************************************************)
(* by is a history variable: the actor of the request that wrote the row's *)
(* content last.                                                           *)
(***************************************************************************)
BlogRow == [owner : User, isBanned : BOOLEAN, by : User]
PostRow == [blog : Blog, by : User]
CommentRow == [post : Post, user : User, by : User]
BanRow == [user : User, blog : Blog, blogger : User]

Blogs == DOMAIN blog
Posts == DOMAIN post
Comments == DOMAIN comment
Bans == DOMAIN ban
BlogOf(c) == post[comment[c].post].blog
BansOf(u, b, o) == {x \in Bans : ban[x] = [user |-> u, blog |-> b, blogger |-> o]}

PC == {"idle", "createBlog", "updateBlog", "deleteBlog", "banBlog", "createPost",
       "findForUpdate", "findForDelete", "updatePost", "deletePost",
       "commentUser", "commentBan", "createComment", "updateComment", "deleteComment",
       "bloggerBanBlog", "bloggerBanRow", "insertBan", "deleteBan"}
Idle == [pc |-> "idle", actor |-> None, user |-> None, blog |-> None, item |-> None, on |-> FALSE]

(* The guard of a request finds the actor's session, hence his user row,    *)
(* one call before the first find of the handler.  The two are one action:  *)
(* a deletion of the actor between them removes all the find could return.  *)
Start(r, q) == req[r] = Idle /\ req' = [req EXCEPT ![r] = q]
Goto(r, from, to) == req[r].pc = from /\ req' = [req EXCEPT ![r].pc = to]
Finish(r, from) == req[r].pc = from /\ req' = [req EXCEPT ![r] = Idle]

(* The rows left once only these users, blogs and posts are: the cascades  *)
(* of schema.prisma.                                                        *)
Keep(Us, Bs, Ps) ==
  LET B == {b \in Bs : blog[b].owner \in Us}
      P == {p \in Ps : post[p].blog \in B} IN
  /\ users' = Us
  /\ banned' = banned \cap Us
  /\ blog' = Restrict(blog, B)
  /\ post' = Restrict(post, P)
  /\ comment' = Restrict(comment, {c \in Comments : comment[c].post \in P /\ comment[c].user \in Us})
  /\ ban' = Restrict(ban, {x \in Bans : ban[x].blog \in B /\ {ban[x].user, ban[x].blogger} \subseteq Us})
Put(f, k, row) == [i \in DOMAIN f \cup {k} |-> IF i = k THEN row ELSE f[i]]

-----------------------------------------------------------------------------
(* Blogs.  The blog is created for the user of the access token; the insert *)
(* fails on the foreign key when that user is gone by then.                 *)
CreateBlogStart(r, u) ==
  /\ Start(r, [Idle EXCEPT !.pc = "createBlog", !.actor = u])
  /\ UNCHANGED content
CreateBlog(r, b) ==
  LET u == req[r].actor IN
  /\ u \in users /\ b \in Blog \ gone
  /\ Finish(r, "createBlog")
  /\ blog' = Put(blog, b, [owner |-> u, isBanned |-> FALSE, by |-> u])
  /\ gone' = gone \cup {b}
  /\ UNCHANGED <<users, banned, post, comment, ban>>

(* PUT and DELETE blogs/:id: find the blog, compare its owner, act by id.  *)
OwnBlogFind(r, u, b, pc) ==
  /\ blog[b].owner = u
  /\ Start(r, [Idle EXCEPT !.pc = pc, !.actor = u, !.blog = b])
  /\ UNCHANGED content
UpdateBlog(r) ==
  LET b == req[r].blog IN
  /\ b \in Blogs
  /\ Finish(r, "updateBlog")
  /\ blog' = [blog EXCEPT ![b].by = req[r].actor]
  /\ UNCHANGED <<users, banned, post, comment, ban, gone>>
DeleteBlog(r) ==
  /\ req[r].blog \in Blogs
  /\ Finish(r, "deleteBlog")
  /\ Keep(users, Blogs \ {req[r].blog}, Posts)
  /\ UNCHANGED gone

(* PUT sa/blogs/:id/ban: the super-admin bans or unbans any blog. *)
BanBlogFind(r, b, on) ==
  /\ Start(r, [Idle EXCEPT !.pc = "banBlog", !.blog = b, !.on = on])
  /\ UNCHANGED content
BanBlogUpdate(r) ==
  LET b == req[r].blog IN
  /\ b \in Blogs
  /\ Finish(r, "banBlog")
  /\ blog' = [blog EXCEPT ![b].isBanned = req[r].on]
  /\ UNCHANGED <<users, banned, post, comment, ban, gone>>

-----------------------------------------------------------------------------
(* Posts, always through a blog the actor owns. *)
(* Mutant: a banned blog takes posts. *)
CreatePostFindBanned(r, u, b) ==
  /\ blog[b].owner = u
  /\ Start(r, [Idle EXCEPT !.pc = "createPost", !.actor = u, !.blog = b])
  /\ UNCHANGED content
CreatePostFind(r, u, b) ==
  /\ ~blog[b].isBanned
  /\ blog[b].owner = u
  /\ Start(r, [Idle EXCEPT !.pc = "createPost", !.actor = u, !.blog = b])
  /\ UNCHANGED content
CreatePost(r, p) ==
  LET b == req[r].blog IN
  /\ b \in Blogs /\ p \in Post \ gone
  /\ Finish(r, "createPost")
  /\ post' = Put(post, p, [blog |-> b, by |-> req[r].actor])
  /\ gone' = gone \cup {p}
  /\ UNCHANGED <<users, banned, blog, comment, ban>>

(* The blog of the path and its owner, then the post of the path, which     *)
(* must be of that blog.  Deleting compares the owner after the second      *)
(* find; a blog never changes its owner, so only the error differs.         *)
PostBlogFind(r, u, b, p, pc) ==
  /\ blog[b].owner = u
  /\ Start(r, [Idle EXCEPT !.pc = pc, !.actor = u, !.blog = b, !.item = p])
  /\ UNCHANGED content
(* Mutant: the post may be of any blog. *)
PostFindAnyBlog(r, from, to) ==
  /\ IF req[r].item \in Posts THEN Goto(r, from, to) ELSE Finish(r, from)
  /\ UNCHANGED content
PostFind(r, from, to) ==
  /\ IF req[r].item \in Posts /\ post[req[r].item].blog = req[r].blog
     THEN Goto(r, from, to)
     ELSE Finish(r, from)
  /\ UNCHANGED content
UpdatePost(r) ==
  LET p == req[r].item IN
  /\ p \in Posts
  /\ Finish(r, "updatePost")
  /\ post' = [post EXCEPT ![p].by = req[r].actor]
  /\ UNCHANGED <<users, banned, blog, comment, ban, gone>>
DeletePost(r) ==
  /\ req[r].item \in Posts
  /\ Finish(r, "deletePost")
  /\ Keep(users, Blogs, Posts \ {req[r].item})
  /\ UNCHANGED gone

-----------------------------------------------------------------------------
(* Comments: the post with its blogger, the user, the blogger's ban of him, *)
(* then the insert.  Neither a ban of the blog nor one by the super-admin   *)
(* is looked at.                                                            *)
CommentPostFind(r, u, p) ==
  /\ Start(r, [Idle EXCEPT !.pc = "commentUser", !.actor = u, !.item = p, !.blog = post[p].blog,
                           !.user = blog[post[p].blog].owner])
  /\ UNCHANGED content
CommentUserFind(r) ==
  /\ IF req[r].actor \in users THEN Goto(r, "commentUser", "commentBan") ELSE Finish(r, "commentUser")
  /\ UNCHANGED content
(* Mutant: the ban is looked up under the commenter as blogger. *)
CommentBanFindSwapped(r) ==
  LET q == req[r] IN
  /\ IF BansOf(q.user, q.blog, q.actor) = {} THEN Goto(r, "commentBan", "createComment") ELSE Finish(r, "commentBan")
  /\ UNCHANGED content
CommentBanFind(r) ==
  LET q == req[r] IN
  /\ IF BansOf(q.actor, q.blog, q.user) = {} THEN Goto(r, "commentBan", "createComment") ELSE Finish(r, "commentBan")
  /\ UNCHANGED content
(* Mutant: Comment has no foreign keys. *)
CreateCommentNoKey(r, c) ==
  LET q == req[r] IN
  /\ c \in Comment \ gone
  /\ Finish(r, "createComment")
  /\ comment' = Put(comment, c, [post |-> q.item, user |-> q.actor, by |-> q.actor])
  /\ gone' = gone \cup {c}
  /\ UNCHANGED <<users, banned, blog, post, ban>>
CreateComment(r, c) ==
  LET q == req[r] IN
  /\ q.item \in Posts /\ q.actor \in users /\ c \in Comment \ gone
  /\ Finish(r, "createComment")
  /\ comment' = Put(comment, c, [post |-> q.item, user |-> q.actor, by |-> q.actor])
  /\ gone' = gone \cup {c}
  /\ UNCHANGED <<users, banned, blog, post, ban>>

(* The find of comments/:id hides a comment whose author the super-admin    *)
(* banned and one in a banned blog.                                         *)
Visible(c) == comment[c].user \notin banned /\ ~blog[BlogOf(c)].isBanned
(* Mutant: the author is not compared. *)
OwnCommentFindAnyUser(r, u, c, pc) ==
  /\ Visible(c)
  /\ Start(r, [Idle EXCEPT !.pc = pc, !.actor = u, !.item = c])
  /\ UNCHANGED content
OwnCommentFind(r, u, c, pc) ==
  /\ Visible(c)
  /\ comment[c].user = u
  /\ Start(r, [Idle EXCEPT !.pc = pc, !.actor = u, !.item = c])
  /\ UNCHANGED content
UpdateComment(r) ==
  LET c == req[r].item IN
  /\ c \in Comments
  /\ Finish(r, "updateComment")
  /\ comment' = [comment EXCEPT ![c].by = req[r].actor]
  /\ UNCHANGED <<users, banned, blog, post, ban, gone>>
DeleteComment(r) ==
  /\ req[r].item \in Comments
  /\ Finish(r, "deleteComment")
  /\ comment' = Restrict(comment, Comments \ {req[r].item})
  /\ UNCHANGED <<users, banned, blog, post, ban, gone>>

-----------------------------------------------------------------------------
(* PUT blogger/users/:id/ban: the user, the blog and its owner, the ban row *)
(* and then an insert when there is none or a delete of the row found.      *)
BloggerBanStart(r, o, u, b, on) ==
  /\ u # o /\ u \in users
  /\ Start(r, [Idle EXCEPT !.pc = "bloggerBanBlog", !.actor = o, !.user = u, !.blog = b, !.on = on])
  /\ UNCHANGED content
(* Mutant: the owner of the blog is not compared. *)
BloggerBanBlogFindAny(r) ==
  /\ IF req[r].blog \in Blogs THEN Goto(r, "bloggerBanBlog", "bloggerBanRow") ELSE Finish(r, "bloggerBanBlog")
  /\ UNCHANGED content
BloggerBanBlogFind(r) ==
  /\ IF req[r].blog \in Blogs /\ blog[req[r].blog].owner = req[r].actor
     THEN Goto(r, "bloggerBanBlog", "bloggerBanRow")
     ELSE Finish(r, "bloggerBanBlog")
  /\ UNCHANGED content
(* Mutant: a second ban inserts a second row. *)
BloggerBanRowFindAgain(r) ==
  LET q == req[r]
      E == BansOf(q.user, q.blog, q.actor) IN
  /\ q.pc = "bloggerBanRow"
  /\ \/ q.on /\ Goto(r, "bloggerBanRow", "insertBan")
     \/ ~q.on /\ E = {} /\ Finish(r, "bloggerBanRow")
     \/ ~q.on /\ \E x \in E : req' = [req EXCEPT ![r].pc = "deleteBan", ![r].item = x]
  /\ UNCHANGED content
BloggerBanRowFind(r) ==
  LET q == req[r]
      E == BansOf(q.user, q.blog, q.actor) IN
  /\ q.pc = "bloggerBanRow"
  /\ \/ (q.on <=> E # {}) /\ Finish(r, "bloggerBanRow")
     \/ q.on /\ E = {} /\ Goto(r, "bloggerBanRow", "insertBan")
     \/ ~q.on /\ \E x \in E : req' = [req EXCEPT ![r].pc = "deleteBan", ![r].item = x]
  /\ UNCHANGED content
InsertBan(r, x) ==
  LET q == req[r] IN
  /\ q.blog \in Blogs /\ {q.user, q.actor} \subseteq users /\ x \in Ban \ gone
  /\ Finish(r, "insertBan")
  /\ ban' = Put(ban, x, [user |-> q.user, blog |-> q.blog, blogger |-> q.actor])
  /\ gone' = gone \cup {x}
  /\ UNCHANGED <<users, banned, blog, post, comment>>
DeleteBan(r) ==
  /\ req[r].item \in Bans
  /\ Finish(r, "deleteBan")
  /\ ban' = Restrict(ban, Bans \ {req[r].item})
  /\ UNCHANGED <<users, banned, blog, post, comment, gone>>

-----------------------------------------------------------------------------
(* An update, delete or insert whose row, or a row it refers to, is gone by *)
(* then fails in the database and ends the request.                         *)
WriteFails(r) ==
  LET q == req[r] IN
  /\ \/ q.pc = "createBlog" /\ q.actor \notin users
     \/ q.pc \in {"updateBlog", "deleteBlog", "banBlog", "createPost"} /\ q.blog \notin Blogs
     \/ q.pc \in {"updatePost", "deletePost"} /\ q.item \notin Posts
     \/ q.pc = "createComment" /\ (q.item \notin Posts \/ q.actor \notin users)
     \/ q.pc \in {"updateComment", "deleteComment"} /\ q.item \notin Comments
     \/ q.pc = "insertBan" /\ (q.blog \notin Blogs \/ q.user \notin users \/ q.actor \notin users)
     \/ q.pc = "deleteBan" /\ q.item \notin Bans
  /\ Finish(r, q.pc)
  /\ UNCHANGED content

(* The super-admin's ban of a user, of which this module sees the update of *)
(* BanInfo only (Sessions has the rest), and his deletion of one; each in a *)
(* free request slot.                                                       *)
AdminBan(r, u) ==
  /\ req[r] = Idle
  /\ banned' \in {banned \cup {u}, banned \ {u}}
  /\ UNCHANGED <<users, blog, post, comment, ban, gone, req>>
(* Mutant: the bans of a deleted user stay. *)
DeleteUserKeepsBan(r, u) ==
  /\ req[r] = Idle
  /\ users' = users \ {u}
  /\ LET B == {b \in Blogs : blog[b].owner # u}
         P == {p \in Posts : post[p].blog \in B} IN
     /\ blog' = Restrict(blog, B)
     /\ post' = Restrict(post, P)
     /\ comment' = Restrict(comment, {c \in Comments : comment[c].post \in P /\ comment[c].user # u})
  /\ UNCHANGED <<banned, ban, gone, req>>
DeleteUser(r, u) ==
  /\ req[r] = Idle
  /\ Keep(users \ {u}, Blogs, Posts)
  /\ UNCHANGED <<gone, req>>

Init ==
  /\ users = User /\ banned = {}
  /\ blog = << >> /\ post = << >> /\ comment = << >> /\ ban = << >>
  /\ gone = {}
  /\ req = [r \in Req |-> Idle]
  /\ overtaken = {}

(* A request of user u, whose session a guard has found. *)
Arrive(r, u) ==
  \/ CreateBlogStart(r, u)
  \/ \E b \in Blogs, pc \in {"updateBlog", "deleteBlog"} : OwnBlogFind(r, u, b, pc)
  \/ \E b \in Blogs : CreatePostFind(r, u, b)
  \/ \E b \in Blogs, p \in Posts, pc \in {"findForUpdate", "findForDelete"} : PostBlogFind(r, u, b, p, pc)
  \/ \E p \in Posts : CommentPostFind(r, u, p)
  \/ \E c \in Comments, pc \in {"updateComment", "deleteComment"} : OwnCommentFind(r, u, c, pc)
  \/ \E v \in users, b \in Blogs, on \in BOOLEAN : BloggerBanStart(r, u, v, b, on)
(* A request of the super-admin, who has no row. *)
AdminArrive(r) == \E b \in Blogs, on \in BOOLEAN : BanBlogFind(r, b, on)
Continue(r) ==
  \/ \E b \in Blog : CreateBlog(r, b)
  \/ UpdateBlog(r)
  \/ DeleteBlog(r)
  \/ BanBlogUpdate(r)
  \/ \E p \in Post : CreatePost(r, p)
  \/ PostFind(r, "findForUpdate", "updatePost")
  \/ PostFind(r, "findForDelete", "deletePost")
  \/ UpdatePost(r)
  \/ DeletePost(r)
  \/ CommentUserFind(r)
  \/ CommentBanFind(r)
  \/ \E c \in Comment : CreateComment(r, c)
  \/ UpdateComment(r)
  \/ DeleteComment(r)
  \/ BloggerBanBlogFind(r)
  \/ BloggerBanRowFind(r)
  \/ \E x \in Ban : InsertBan(r, x)
  \/ DeleteBan(r)
  \/ WriteFails(r)
Step == \E r \in Req :
  \/ \E u \in users : Arrive(r, u) \/ AdminBan(r, u) \/ DeleteUser(r, u)
  \/ AdminArrive(r)
  \/ Continue(r)

(* The history: a ban is written between the check of r and its insert. *)
Overtakes(r) ==
  \/ /\ req[r].pc = "createPost" /\ req[r].blog \in Blogs \cap Blogs'
     /\ ~blog[req[r].blog].isBanned /\ blog'[req[r].blog].isBanned
  \/ /\ req[r].pc = "createComment"
     /\ \E x \in Bans' \ Bans : ban'[x].user = req[r].actor /\ ban'[x].blog = req[r].blog
Watch == overtaken' = {r \in Req : req'[r] = req[r] /\ (r \in overtaken \/ Overtakes(r))}

Next == Step /\ Watch

Spec == Init /\ [][Next]_vars

-----------------------------------------------------------------------------
(***************************************************************************)
(* Properties.                                                             *)
(***************************************************************************)
TypeOK ==
  /\ users \subseteq User /\ banned \subseteq users
  /\ Blogs \subseteq Blog /\ blog \in [Blogs -> BlogRow]
  /\ Posts \subseteq Post /\ post \in [Posts -> PostRow]
  /\ Comments \subseteq Comment /\ comment \in [Comments -> CommentRow]
  /\ Bans \subseteq Ban /\ ban \in [Bans -> BanRow]
  /\ Blogs \cup Posts \cup Comments \cup Bans \subseteq gone
  /\ req \in [Req -> [pc : PC, actor : User \cup {None}, user : User \cup {None},
                      blog : Blog \cup {None}, item : Post \cup Comment \cup Ban \cup {None},
                      on : BOOLEAN]]
  /\ overtaken \subseteq Req

(* Every row refers to rows that exist, whatever is deleted while a request *)
(* that read them is about to insert one (schema.prisma, onDelete: Cascade).*)
NoOrphans ==
  /\ \A b \in Blogs : blog[b].owner \in users
  /\ \A p \in Posts : post[p].blog \in Blogs
  /\ \A c \in Comments : comment[c].post \in Posts /\ comment[c].user \in users
  /\ \A x \in Bans : ban[x].blog \in Blogs /\ {ban[x].user, ban[x].blogger} \subseteq users

(* A blog and its posts were written by its owner and a comment by its      *)
(* author, although the write goes by the id alone, one or two calls after  *)
(* the check (update-post-use-case.ts:34 and :43).                          *)
WrittenByOwner ==
  /\ \A b \in Blogs : blog[b].by = blog[b].owner
  /\ \A p \in Posts : post[p].by = blog[post[p].blog].owner
  /\ \A c \in Comments : comment[c].by = comment[c].user

(* A user is banned from a blog by the blogger who owns it and by nobody    *)
(* else, and never himself (ban-unban-user-blogger-use-case.ts:36 and :48). *)
BansAreTheOwners ==
  \A x \in Bans : ban[x].blogger = blog[ban[x].blog].owner /\ ban[x].user # ban[x].blogger

(* A blog, post or comment goes only with its owner's account, or with what *)
(* it belongs to, or because its owner asked for it.                        *)
Asks(pc, u, id) == \E r \in Req :
  req[r].pc = pc /\ req[r].actor = u /\ id \in {req[r].blog, req[r].item} /\ req'[r] = Idle
GoesByRight == [][
  /\ \A b \in Blogs \ Blogs' : blog[b].owner \notin users' \/ Asks("deleteBlog", blog[b].owner, b)
  /\ \A p \in Posts \ Posts' :
       post[p].blog \notin Blogs' \/ Asks("deletePost", blog[post[p].blog].owner, p)
  /\ \A c \in Comments \ Comments' :
       \/ comment[c].post \notin Posts' \/ comment[c].user \notin users'
       \/ Asks("deleteComment", comment[c].user, c)]_vars

(* A post appears in a banned blog only when the ban was written between    *)
(* the check and the insert of its request                                  *)
(* (create-post-for-specified-blog-use-case.ts:39 and :49).                 *)
Overtaken(pc, b) ==
  \E r \in overtaken : req[r].pc = pc /\ req[r].blog = b /\ req'[r] = Idle
NoPostWhileBlogBanned ==
  [][\A p \in Posts' \ Posts :
       blog[post'[p].blog].isBanned => Overtaken("createPost", post'[p].blog)]_vars

(* A comment of a user appears in a blog he is banned from only when the    *)
(* ban was written between the look-up and the insert of its request        *)
(* (create-comment-for-specified-post-use-case.ts:44 and :47).              *)
NoCommentWhileBanned ==
  [][\A c \in Comments' \ Comments :
       LET b == post[comment'[c].post].blog IN
       (\E x \in Bans : ban[x].user = comment'[c].user /\ ban[x].blog = b)
         => Overtaken("createComment", b)]_vars

(* Nothing in the schema keeps a user from having two bans in one blog, so  *)
(* that one unban leaves him banned (ban-unban-user-blogger-use-case.ts:59):*)
(* only bans that overlap can get there, and only as many rows as there     *)
(* were such requests (one, when they run one at a time).                   *)
Banning(u, b, o) ==
  {r \in Req : req[r].pc = "insertBan" /\ req[r].user = u /\ req[r].blog = b /\ req[r].actor = o}
BanRowsBounded ==
  \A u, o \in User, b \in Blog :
    Cardinality(BansOf(u, b, o)) + Cardinality(Banning(u, b, o)) <= Cardinality(Req)
=============================================================================
