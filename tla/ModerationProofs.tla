-------------------------- MODULE ModerationProofs --------------------------
(* Proofs about Moderation, for any sets of users, blogs, posts, comments,  *)
(* bans and requests.                                                       *)
EXTENDS Moderation, FiniteSetTheorems, TLAPS

(* The tables' part of the types. *)
Tables ==
  /\ users \subseteq User /\ banned \subseteq users
  /\ Blogs \subseteq Blog /\ blog \in [Blogs -> BlogRow]
  /\ Posts \subseteq Post /\ post \in [Posts -> PostRow]
  /\ Comments \subseteq Comment /\ comment \in [Comments -> CommentRow]
  /\ Bans \subseteq Ban /\ ban \in [Bans -> BanRow]
  /\ Blogs \cup Posts \cup Comments \cup Bans \subseteq gone
Request == [pc : PC, actor : User \cup {None}, user : User \cup {None},
            blog : Blog \cup {None}, item : Post \cup Comment \cup Ban \cup {None}, on : BOOLEAN]
Data == Tables /\ NoOrphans /\ WrittenByOwner /\ BansAreTheOwners

(* What a request has checked stays true of the ids it holds until it acts. *)
Held(q) ==
  /\ q.pc \in {"updateBlog", "deleteBlog", "createPost", "findForUpdate", "findForDelete",
               "bloggerBanRow", "insertBan"} =>
       q.blog \in gone /\ (q.blog \in Blogs => blog[q.blog].owner = q.actor)
  /\ q.pc \in {"updatePost", "deletePost"} =>
       q.item \in gone /\ (q.item \in Posts => blog[post[q.item].blog].owner = q.actor)
  /\ q.pc \in {"updateComment", "deleteComment"} =>
       q.item \in gone /\ (q.item \in Comments => comment[q.item].user = q.actor)
  /\ q.pc \in {"commentUser", "commentBan", "createComment"} =>
       /\ q.item \in gone /\ (q.item \in Posts => post[q.item].blog = q.blog)
       /\ q.blog \in gone /\ (q.blog \in Blogs => blog[q.blog].owner = q.user)
  /\ q.pc \in {"bloggerBanBlog", "bloggerBanRow", "insertBan"} => q.user # q.actor
  /\ q.pc = "bloggerBanBlog" => q.blog \in gone

(* The inductive invariant. *)
IInv == Data /\ req \in [Req -> Request] /\ \A r \in Req : Held(req[r])

(* No id is drawn twice, and what a row refers to never changes. *)
Stable ==
  /\ gone \subseteq gone'
  /\ \A b \in gone \cap Blogs' : b \in Blogs /\ blog'[b].owner = blog[b].owner
  /\ \A p \in gone \cap Posts' : p \in Posts /\ post'[p].blog = post[p].blog
  /\ \A c \in gone \cap Comments' : c \in Comments /\ comment'[c].user = comment[c].user
  /\ \A x \in gone \cap Bans' : x \in Bans /\ ban'[x] = ban[x]

-----------------------------------------------------------------------------
(* The cascades leave no row that refers to a deleted one. *)
LEMMA KeepData ==
  ASSUME Data, NEW Us \in SUBSET users, NEW Bs \in SUBSET Blogs, NEW Ps \in SUBSET Posts,
         Keep(Us, Bs, Ps), gone' = gone
  PROVE  Data' /\ Stable
<1> DEFINE B == {b \in Bs : blog[b].owner \in Us}
           P == {p \in Ps : post[p].blog \in B}
           C == {c \in Comments : comment[c].post \in P /\ comment[c].user \in Us}
           X == {x \in Bans : ban[x].blog \in B /\ {ban[x].user, ban[x].blogger} \subseteq Us}
<1>1. /\ users' = Us /\ banned' = banned \cap Us
      /\ blog' = [b \in B |-> blog[b]] /\ post' = [p \in P |-> post[p]]
      /\ comment' = [c \in C |-> comment[c]] /\ ban' = [x \in X |-> ban[x]]
  BY DEF Keep, Restrict
<1>2. Blogs' = B /\ Posts' = P /\ Comments' = C /\ Bans' = X
  BY <1>1 DEF Blogs, Posts, Comments, Bans
<1>3. /\ \A b \in B : blog'[b] = blog[b]
      /\ \A p \in P : post'[p] = post[p]
      /\ \A c \in C : comment'[c] = comment[c]
      /\ \A x \in X : ban'[x] = ban[x]
  BY <1>1
<1>4. B \subseteq Blogs /\ P \subseteq Posts /\ C \subseteq Comments /\ X \subseteq Bans
  OBVIOUS
<1>5. Tables'
  BY <1>1, <1>2, <1>4 DEF Data, Tables
<1>6. NoOrphans'
  BY <1>1, <1>2, <1>3 DEF Data, NoOrphans
<1>7. WrittenByOwner'
  BY <1>2, <1>3, <1>4 DEF Data, WrittenByOwner
<1>8. BansAreTheOwners'
  BY <1>2, <1>3, <1>4 DEF Data, BansAreTheOwners
<1>9. Stable
  BY <1>2, <1>3, <1>4 DEF Stable
<1> QED
  BY <1>5, <1>6, <1>7, <1>8, <1>9 DEF Data

(* A step that writes no table keeps them all. *)
LEMMA SameData ==
  ASSUME Data, UNCHANGED content
  PROVE  Data' /\ Stable
BY DEF Data, Tables, NoOrphans, WrittenByOwner, BansAreTheOwners, Stable, content, Blogs, Posts, Comments, Bans

(* Every call of a handler keeps the tables consistent. *)
LEMMA DataNext ==
  ASSUME IInv, Step
  PROVE  Data' /\ Stable
<1> DEFINE G == Data' /\ Stable
<1> USE DEF IInv, Data, Tables, NoOrphans, WrittenByOwner, BansAreTheOwners, Stable,
        Blogs, Posts, Comments, Bans, BlogRow, PostRow, CommentRow, BanRow, Put
<1>1. ASSUME NEW r \in Req, NEW b \in Blog, CreateBlog(r, b) PROVE G
  BY <1>1 DEF CreateBlog
<1>2. ASSUME NEW r \in Req, UpdateBlog(r) PROVE G
  BY <1>2 DEF UpdateBlog, Finish, Held
<1>3. ASSUME NEW r \in Req, BanBlogUpdate(r) PROVE G
  BY <1>3 DEF BanBlogUpdate, Finish, Request
<1>4. ASSUME NEW r \in Req, NEW p \in Post, CreatePost(r, p) PROVE G
  BY <1>4 DEF CreatePost, Finish, Held
<1>5. ASSUME NEW r \in Req, UpdatePost(r) PROVE G
  BY <1>5 DEF UpdatePost, Finish, Held
<1>6. ASSUME NEW r \in Req, NEW c \in Comment, CreateComment(r, c) PROVE G
  BY <1>6 DEF CreateComment, Finish
<1>7. ASSUME NEW r \in Req, UpdateComment(r) PROVE G
  BY <1>7 DEF UpdateComment, Finish, Held
<1>8. ASSUME NEW r \in Req, DeleteComment(r) PROVE G
  BY <1>8 DEF DeleteComment, Restrict
<1>9. ASSUME NEW r \in Req, NEW x \in Ban, InsertBan(r, x) PROVE G
  BY <1>9 DEF InsertBan, Finish, Held
<1>10. ASSUME NEW r \in Req, DeleteBan(r) PROVE G
  BY <1>10 DEF DeleteBan, Restrict
<1>11. ASSUME NEW r \in Req, NEW u \in users, AdminBan(r, u) PROVE G
  BY <1>11 DEF AdminBan
<1> HIDE DEF Data, Tables, NoOrphans, WrittenByOwner, BansAreTheOwners, Stable,
        Blogs, Posts, Comments, Bans, BlogRow, PostRow, CommentRow, BanRow, Put
<1>12. ASSUME NEW r \in Req, NEW u \in users, DeleteUser(r, u) PROVE G
  BY <1>12, KeepData DEF DeleteUser
<1>13. ASSUME NEW r \in Req, DeleteBlog(r) PROVE G
  BY <1>13, KeepData DEF DeleteBlog
<1>14. ASSUME NEW r \in Req, DeletePost(r) PROVE G
  BY <1>14, KeepData DEF DeletePost
<1>15. ASSUME UNCHANGED content PROVE G
  BY <1>15, SameData
<1> HIDE DEF G, IInv
<1>16. ASSUME NEW r \in Req, NEW u \in users, Arrive(r, u) PROVE G
  BY <1>15, <1>16 DEF Arrive, CreateBlogStart, OwnBlogFind, CreatePostFind, PostBlogFind, CommentPostFind,
     OwnCommentFind, BloggerBanStart
<1>17. ASSUME NEW r \in Req, Continue(r) PROVE G
  BY <1>17, <1>1, <1>2, <1>3, <1>4, <1>5, <1>6, <1>7, <1>8, <1>9, <1>10, <1>13, <1>14, <1>15
  DEF Continue, PostFind, CommentUserFind, CommentBanFind, BloggerBanBlogFind, BloggerBanRowFind, WriteFails
<1>18. ASSUME NEW r \in Req, AdminArrive(r) PROVE G
  BY <1>15, <1>18 DEF AdminArrive, BanBlogFind
<1> QED
  BY <1>11, <1>12, <1>16, <1>17, <1>18 DEF Step, G

-----------------------------------------------------------------------------
(* What a request holds survives every step of the others. *)
LEMMA HeldStable ==
  ASSUME Data, Data', Stable, NEW q, Held(q)
  PROVE  Held(q)'
<1>1. \A p \in Posts' : p \in gone =>
         /\ p \in Posts /\ post'[p].blog = post[p].blog
         /\ blog'[post'[p].blog].owner = blog[post[p].blog].owner
  BY DEF Data, Tables, NoOrphans, Stable
<1> QED
  BY <1>1 DEF Held, Stable

(* A request that moves is answered or has just checked what it holds. *)
LEMMA ReqNext ==
  ASSUME IInv, Step
  PROVE  /\ req' \in [Req -> Request]
         /\ \A s \in Req : \/ req'[s] = req[s] \/ req'[s].pc = "idle"
                           \/ UNCHANGED content /\ Held(req'[s])
<1> DEFINE R(q) == \/ q = Idle
                   \/ UNCHANGED content /\ Held(q)
           G == /\ req' \in [Req -> Request]
                /\ \A s \in Req : \/ req'[s] = req[s] \/ req'[s].pc = "idle"
                                  \/ UNCHANGED content /\ Held(req'[s])
<1>0. Idle \in Request /\ Idle.pc = "idle"
  BY DEF Idle, Request, PC
<1>1. ASSUME NEW r \in Req, NEW q \in Request, req' = [req EXCEPT ![r] = q], R(q) PROVE G
  BY <1>0, <1>1 DEF IInv
<1>3. ASSUME req' = req PROVE G
  BY <1>3 DEF IInv
<1> HIDE DEF G
<1>2. ASSUME NEW r \in Req, NEW pc \in PC, Finish(r, pc) PROVE G
  <2>1. req' = [req EXCEPT ![r] = Idle] /\ R(Idle)
    BY <1>2 DEF Finish
  <2> HIDE DEF R
  <2> QED
    BY <1>0, <1>1, <2>1
<1>4. ASSUME NEW r \in Req, NEW from \in PC, NEW to \in PC, Goto(r, from, to), UNCHANGED content,
             \A q \in Request : /\ q.pc = to /\ q.actor = req[r].actor /\ q.user = req[r].user
                               /\ q.blog = req[r].blog /\ q.item = req[r].item
                               => Held(q)
      PROVE G
  <2> DEFINE q == [req[r] EXCEPT !.pc = to]
  <2>1. /\ q \in Request
        /\ q.pc = to /\ q.actor = req[r].actor /\ q.user = req[r].user
        /\ q.blog = req[r].blog /\ q.item = req[r].item
    BY DEF IInv, Request
  <2>2. req' = [req EXCEPT ![r] = q]
    BY <1>4 DEF Goto
  <2> HIDE DEF q
  <2>3. R(q)
    BY <1>4, <2>1
  <2> QED
    BY <1>1, <2>1, <2>2, <2>3
<1> HIDE DEF R
<1>5. ASSUME NEW r \in Req, NEW u \in users, Arrive(r, u) PROVE G
  <2> USE DEF Start, Idle, Request, IInv, Data, Tables, PC, BlogRow, PostRow, CommentRow, Blogs, Posts, Comments
  <2>0. u \in User
    OBVIOUS
  <2>1. CASE CreateBlogStart(r, u)
    <3> DEFINE q == [Idle EXCEPT !.pc = "createBlog", !.actor = u]
    <3>1. q \in Request /\ R(q)
      BY <2>0, <2>1 DEF CreateBlogStart, R, Held
    <3> QED
      BY <1>1, <2>1, <3>1 DEF CreateBlogStart
  <2>2. ASSUME NEW b \in Blogs, NEW pc \in {"updateBlog", "deleteBlog"}, OwnBlogFind(r, u, b, pc) PROVE G
    <3> DEFINE q == [Idle EXCEPT !.pc = pc, !.actor = u, !.blog = b]
    <3>1. q \in Request /\ R(q)
      BY <2>0, <2>2 DEF OwnBlogFind, R, Held
    <3> QED
      BY <1>1, <2>2, <3>1 DEF OwnBlogFind
  <2>3. ASSUME NEW b \in Blogs, CreatePostFind(r, u, b) PROVE G
    <3> DEFINE q == [Idle EXCEPT !.pc = "createPost", !.actor = u, !.blog = b]
    <3>1. q \in Request /\ R(q)
      BY <2>0, <2>3 DEF CreatePostFind, R, Held
    <3> QED
      BY <1>1, <2>3, <3>1 DEF CreatePostFind
  <2>4. ASSUME NEW b \in Blogs, NEW p \in Posts, NEW pc \in {"findForUpdate", "findForDelete"},
               PostBlogFind(r, u, b, p, pc)
        PROVE G
    <3> DEFINE q == [Idle EXCEPT !.pc = pc, !.actor = u, !.blog = b, !.item = p]
    <3>1. q \in Request /\ R(q)
      BY <2>0, <2>4 DEF PostBlogFind, R, Held
    <3> QED
      BY <1>1, <2>4, <3>1 DEF PostBlogFind
  <2>5. ASSUME NEW p \in Posts, CommentPostFind(r, u, p) PROVE G
    <3> DEFINE q == [Idle EXCEPT !.pc = "commentUser", !.actor = u, !.item = p, !.blog = post[p].blog,
                                 !.user = blog[post[p].blog].owner]
    <3>1. post[p].blog \in Blogs /\ blog[post[p].blog].owner \in User
      BY DEF NoOrphans
    <3>2. q \in Request /\ R(q)
      BY <2>0, <2>5, <3>1 DEF CommentPostFind, R, Held
    <3> QED
      BY <1>1, <2>5, <3>2 DEF CommentPostFind
  <2>6. ASSUME NEW c \in Comments, NEW pc \in {"updateComment", "deleteComment"}, OwnCommentFind(r, u, c, pc)
        PROVE G
    <3> DEFINE q == [Idle EXCEPT !.pc = pc, !.actor = u, !.item = c]
    <3>1. q \in Request /\ R(q)
      BY <2>0, <2>6 DEF OwnCommentFind, R, Held
    <3> QED
      BY <1>1, <2>6, <3>1 DEF OwnCommentFind
  <2>7. ASSUME NEW v \in users, NEW b \in Blogs, NEW on \in BOOLEAN, BloggerBanStart(r, u, v, b, on) PROVE G
    <3> DEFINE q == [Idle EXCEPT !.pc = "bloggerBanBlog", !.actor = u, !.user = v, !.blog = b, !.on = on]
    <3>1. q \in Request /\ R(q)
      BY <2>0, <2>7 DEF BloggerBanStart, R, Held
    <3> QED
      BY <1>1, <2>7, <3>1 DEF BloggerBanStart
  <2> HIDE DEF Start, Idle, Request, IInv, Data, Tables, PC, BlogRow, PostRow, CommentRow, Blogs, Posts, Comments
  <2> QED
    BY <1>5, <2>1, <2>2, <2>3, <2>4, <2>5, <2>6, <2>7 DEF Arrive
<1>6. ASSUME NEW r \in Req, NEW b \in Blogs, NEW on \in BOOLEAN, BanBlogFind(r, b, on) PROVE G
  <2> DEFINE q == [Idle EXCEPT !.pc = "banBlog", !.blog = b, !.on = on]
  <2>1. q \in Request /\ R(q)
    BY <1>6 DEF BanBlogFind, R, Held, Idle, Request, PC, IInv, Data, Tables
  <2> QED
    BY <1>1, <1>6, <2>1 DEF BanBlogFind, Start
<1>7. ASSUME NEW r \in Req, BloggerBanRowFind(r) PROVE G
  <2>1. CASE Finish(r, "bloggerBanRow")
    BY <1>2, <2>1 DEF PC
  <2>2. CASE Goto(r, "bloggerBanRow", "insertBan")
    <3>1. Held(req[r]) /\ req[r].pc = "bloggerBanRow" /\ UNCHANGED content
      BY <1>7 DEF BloggerBanRowFind, IInv
    <3>2. "bloggerBanRow" \in PC /\ "insertBan" \in PC
      BY DEF PC
    <3> QED
      BY <1>4, <2>2, <3>1, <3>2 DEF Held
  <2>3. ASSUME NEW x \in BansOf(req[r].user, req[r].blog, req[r].actor),
               req' = [req EXCEPT ![r].pc = "deleteBan", ![r].item = x]
        PROVE G
    <3> DEFINE q == [req[r] EXCEPT !.pc = "deleteBan", !.item = x]
    <3>1. q \in Request /\ q.pc = "deleteBan"
      BY <2>3 DEF Request, PC, IInv, Data, Tables, BansOf
    <3>2. R(q)
      BY <1>7, <3>1 DEF BloggerBanRowFind, R, Held
    <3> QED
      BY <1>1, <2>3, <3>1, <3>2
  <2> QED
    BY <1>7, <2>1, <2>2, <2>3 DEF BloggerBanRowFind
<1>8. ASSUME NEW r \in Req,
             \/ PostFind(r, "findForUpdate", "updatePost") \/ PostFind(r, "findForDelete", "deletePost")
             \/ CommentUserFind(r) \/ CommentBanFind(r) \/ BloggerBanBlogFind(r)
      PROVE G
  <2> USE DEF IInv, Data, Tables, Request, PC, Held, Goto
  <2>1. CASE PostFind(r, "findForUpdate", "updatePost") \/ PostFind(r, "findForDelete", "deletePost")
    <3>1. PICK from \in {"findForUpdate", "findForDelete"}, to \in {"updatePost", "deletePost"} : PostFind(r, from, to)
      BY <2>1
    <3>2. CASE req[r].item \in Posts /\ post[req[r].item].blog = req[r].blog
      <4>1. req[r].pc = from /\ Goto(r, from, to) /\ UNCHANGED content
        BY <3>1, <3>2 DEF PostFind
      <4>2. req[r].item \in gone /\ blog[post[req[r].item].blog].owner = req[r].actor
        BY <3>2, <4>1 DEF NoOrphans
      <4> QED
        BY <1>4, <4>1, <4>2
    <3>3. CASE ~(req[r].item \in Posts /\ post[req[r].item].blog = req[r].blog)
      BY <1>2, <3>1, <3>3 DEF PostFind
    <3> QED
      BY <3>2, <3>3
  <2>2. CASE CommentUserFind(r)
    BY <1>2, <1>4, <2>2 DEF CommentUserFind
  <2>3. CASE CommentBanFind(r)
    BY <1>2, <1>4, <2>3 DEF CommentBanFind
  <2>4. CASE BloggerBanBlogFind(r)
    BY <1>2, <1>4, <2>4 DEF BloggerBanBlogFind
  <2> QED
    BY <1>8, <2>1, <2>2, <2>3, <2>4
<1>9. ASSUME NEW r \in Req, Continue(r) PROVE G
  <2>1. req[r].pc \in PC
    BY DEF IInv, Request
  <2> QED
    BY <1>2, <1>7, <1>8, <1>9, <2>1
    DEF Continue, CreateBlog, UpdateBlog, DeleteBlog, BanBlogUpdate, CreatePost, UpdatePost, DeletePost,
        CreateComment, UpdateComment, DeleteComment, InsertBan, DeleteBan, WriteFails, PC
<1> QED
  BY <1>3, <1>5, <1>6, <1>9 DEF Step, AdminArrive, AdminBan, DeleteUser, G

-----------------------------------------------------------------------------
(* The empty tables satisfy the inductive invariant. *)
LEMMA InitIInv == Init => IInv
BY DEF Init, IInv, Data, Tables, NoOrphans, WrittenByOwner, BansAreTheOwners, Held, Idle, Request, PC,
   Blogs, Posts, Comments, Bans

(* Every step keeps the inductive invariant. *)
LEMMA NextIInv == IInv /\ [Next]_vars => IInv'
<1> SUFFICES ASSUME IInv, [Next]_vars PROVE IInv'
  OBVIOUS
<1>1. CASE Step
  <2>1. Data' /\ Stable
    BY <1>1, DataNext
  <2>2. req' \in [Req -> Request]
    BY <1>1, ReqNext
  <2>3. ASSUME NEW s \in Req, NEW q, q = req'[s] PROVE Held(q)'
    <3>1. CASE q = req[s]
      BY <2>1, <3>1, HeldStable DEF IInv
    <3>2. CASE q.pc = "idle"
      BY <3>2 DEF Held
    <3>3. CASE Held(q)
      BY <2>1, <3>3, HeldStable DEF IInv
    <3> QED
      BY <1>1, <2>3, <3>1, <3>2, <3>3, ReqNext
  <2> QED
    BY <2>1, <2>2, <2>3 DEF IInv, Held
<1>2. CASE UNCHANGED vars
  <2>1. Data'
    BY <1>2, SameData DEF IInv, vars, content
  <2> QED
    BY <1>2, <2>1 DEF IInv, Held, vars, Blogs, Posts, Comments
<1> QED
  BY <1>1, <1>2 DEF Next

(* The inductive invariant of every specification of moderation. *)
THEOREM Invariance == Spec => []IInv
<1>1. Init => IInv
  BY InitIInv
<1>2. IInv /\ [Next]_vars => IInv'
  BY NextIInv
<1> QED
  BY <1>1, <1>2, PTL DEF Spec

(* The tables and the requests' locals keep their types. *)
THEOREM TypeCorrect == Spec => []TypeOK
<1>1. Init => overtaken \subseteq Req
  BY DEF Init
<1>2. overtaken \subseteq Req /\ [Next]_vars => (overtaken \subseteq Req)'
  BY DEF Next, Watch, vars
<1>3. IInv /\ overtaken \subseteq Req => TypeOK
  BY DEF IInv, Data, Tables, Request, TypeOK
<1> QED
  BY <1>1, <1>2, <1>3, Invariance, PTL DEF Spec

(* No row refers to a row that was deleted, whatever is inserted meanwhile. *)
THEOREM NeverOrphaned == Spec => []NoOrphans
<1>1. IInv => NoOrphans
  BY DEF IInv, Data
<1> QED
  BY <1>1, Invariance, PTL

(* Nobody's blog, post or comment is ever written by another. *)
THEOREM OwnersWrite == Spec => []WrittenByOwner
<1>1. IInv => WrittenByOwner
  BY DEF IInv, Data
<1> QED
  BY <1>1, Invariance, PTL

(* Only a blog's owner bans users from it. *)
THEOREM OwnersBan == Spec => []BansAreTheOwners
<1>1. IInv => BansAreTheOwners
  BY DEF IInv, Data
<1> QED
  BY <1>1, Invariance, PTL

-----------------------------------------------------------------------------
(* The steps behind GoesByRight: a handler deletes what it has checked, and   *)
(* the cascades take what hangs on it.                                        *)
Goes ==
  /\ \A b \in Blogs \ Blogs' : blog[b].owner \notin users' \/ Asks("deleteBlog", blog[b].owner, b)
  /\ \A p \in Posts \ Posts' :
       post[p].blog \notin Blogs' \/ Asks("deletePost", blog[post[p].blog].owner, p)
  /\ \A c \in Comments \ Comments' :
       \/ comment[c].post \notin Posts' \/ comment[c].user \notin users'
       \/ Asks("deleteComment", comment[c].user, c)

(* What Keep leaves. *)
LEMMA KeepRows ==
  ASSUME NEW Us, NEW Bs, NEW Ps, Keep(Us, Bs, Ps)
  PROVE  /\ users' = Us
         /\ Blogs' = {b \in Bs : blog[b].owner \in Us}
         /\ Posts' = {p \in Ps : post[p].blog \in Blogs'}
         /\ Comments' = {c \in Comments : comment[c].post \in Posts' /\ comment[c].user \in Us}
BY DEF Keep, Restrict, Blogs, Posts, Comments

(* What disappears in a step was asked for by its owner, or goes with what  *)
(* it belongs to.                                                           *)
LEMMA GoesStep ==
  ASSUME IInv, Step
  PROVE  Goes
<1> USE DEF Goes
<1>1. ASSUME NEW r \in Req, NEW u \in users, DeleteUser(r, u) PROVE Goes
  <2>1. /\ users' = users \ {u}
        /\ Blogs' = {b \in Blogs : blog[b].owner \in users'}
        /\ Posts' = {p \in Posts : post[p].blog \in Blogs'}
        /\ Comments' = {c \in Comments : comment[c].post \in Posts' /\ comment[c].user \in users'}
    BY <1>1, KeepRows DEF DeleteUser
  <2> QED
    BY <2>1
<1>2. ASSUME NEW r \in Req, DeleteBlog(r) PROVE Goes
  <2>1. /\ users' = users
        /\ Blogs' = {b \in Blogs \ {req[r].blog} : blog[b].owner \in users'}
        /\ Posts' = {p \in Posts : post[p].blog \in Blogs'}
        /\ Comments' = {c \in Comments : comment[c].post \in Posts' /\ comment[c].user \in users'}
    BY <1>2, KeepRows DEF DeleteBlog
  <2>2. /\ req[r].pc = "deleteBlog" /\ req'[r] = Idle
        /\ blog[req[r].blog].owner = req[r].actor
    BY <1>2 DEF DeleteBlog, Finish, IInv, Held
  <2>3. Asks("deleteBlog", blog[req[r].blog].owner, req[r].blog)
    BY <2>2 DEF Asks
  <2> QED
    BY <2>1, <2>3 DEF IInv, Data, NoOrphans
<1>3. ASSUME NEW r \in Req, DeletePost(r) PROVE Goes
  <2>1. /\ users' = users
        /\ Blogs' = {b \in Blogs : blog[b].owner \in users'}
        /\ Posts' = {p \in Posts \ {req[r].item} : post[p].blog \in Blogs'}
        /\ Comments' = {c \in Comments : comment[c].post \in Posts' /\ comment[c].user \in users'}
    BY <1>3, KeepRows DEF DeletePost
  <2>2. /\ req[r].pc = "deletePost" /\ req'[r] = Idle
        /\ blog[post[req[r].item].blog].owner = req[r].actor
    BY <1>3 DEF DeletePost, Finish, IInv, Held
  <2>3. Asks("deletePost", blog[post[req[r].item].blog].owner, req[r].item)
    BY <2>2 DEF Asks
  <2> QED
    BY <2>1, <2>3 DEF IInv, Data, NoOrphans
<1>4. ASSUME NEW r \in Req, DeleteComment(r) PROVE Goes
  <2>1. /\ req[r].pc = "deleteComment" /\ req'[r] = Idle
        /\ comment[req[r].item].user = req[r].actor
    BY <1>4 DEF DeleteComment, Finish, IInv, Held
  <2>2. Asks("deleteComment", comment[req[r].item].user, req[r].item)
    BY <2>1 DEF Asks
  <2>3. Comments' = Comments \ {req[r].item} /\ Blogs' = Blogs /\ Posts' = Posts
    BY <1>4 DEF DeleteComment, Restrict, Comments, Blogs, Posts
  <2> QED
    BY <2>2, <2>3
<1>5. CASE Blogs \subseteq Blogs' /\ Posts \subseteq Posts' /\ Comments \subseteq Comments'
  BY <1>5
<1> HIDE DEF Goes
<1> USE DEF Blogs, Posts, Comments, content, Put
<1>6. ASSUME NEW r \in Req, NEW u \in users, Arrive(r, u) PROVE Goes
  BY <1>5, <1>6 DEF Arrive, CreateBlogStart, OwnBlogFind, CreatePostFind, PostBlogFind, CommentPostFind,
     OwnCommentFind, BloggerBanStart
<1>7. ASSUME NEW r \in Req, Continue(r) PROVE Goes
  BY <1>2, <1>3, <1>4, <1>5, <1>7
  DEF Continue, CreateBlog, UpdateBlog, BanBlogUpdate, CreatePost, UpdatePost, CreateComment, UpdateComment,
      InsertBan, DeleteBan, PostFind, CommentUserFind, CommentBanFind, BloggerBanBlogFind, BloggerBanRowFind,
      WriteFails
<1> QED
  BY <1>1, <1>5, <1>6, <1>7 DEF Step, AdminArrive, BanBlogFind, AdminBan

(* A blog, post or comment goes only by right, in whatever order requests run. *)
THEOREM OnlyByRight == Spec => GoesByRight
<1>1. IInv /\ [Next]_vars => [Goes]_vars
  BY GoesStep DEF Next
<1> QED
  BY <1>1, Invariance, PTL DEF Spec, GoesByRight, Goes

-----------------------------------------------------------------------------
(* A request that is about to insert what a ban forbids was overtaken by it. *)
WatchedBy(r) ==
  /\ req[r].pc = "createPost" /\ req[r].blog \in Blogs /\ blog[req[r].blog].isBanned => r \in overtaken
  /\ req[r].pc = "createComment" /\ (\E x \in Bans : ban[x].user = req[r].actor /\ ban[x].blog = req[r].blog)
       => r \in overtaken
Watched == \A r \in Req : WatchedBy(r)

(* Only the checks lead to the three inserts, and they find no ban. *)
LEMMA Checked ==
  ASSUME IInv, Step, NEW s \in Req, req'[s] # req[s]
  PROVE  /\ req'[s].pc = "createPost" =>
              UNCHANGED content /\ (req'[s].blog \in Blogs => ~blog[req'[s].blog].isBanned)
         /\ req'[s].pc = "createComment" =>
              /\ UNCHANGED content
              /\ \A x \in Bans : ~(ban[x].user = req'[s].actor /\ ban[x].blog = req'[s].blog)
         /\ req'[s].pc = "insertBan" =>
              UNCHANGED content /\ BansOf(req'[s].user, req'[s].blog, req'[s].actor) = {}
<1> DEFINE G == /\ req'[s].pc = "createPost" =>
                     UNCHANGED content /\ (req'[s].blog \in Blogs => ~blog[req'[s].blog].isBanned)
                /\ req'[s].pc = "createComment" =>
                     /\ UNCHANGED content
                     /\ \A x \in Bans : ~(ban[x].user = req'[s].actor /\ ban[x].blog = req'[s].blog)
                /\ req'[s].pc = "insertBan" =>
                     UNCHANGED content /\ BansOf(req'[s].user, req'[s].blog, req'[s].actor) = {}
<1>0. req \in [Req -> Request]
  BY DEF IInv
<1>1. ASSUME req'[s].pc \notin {"createPost", "createComment", "insertBan"} PROVE G
  BY <1>1
<1>2. ASSUME NEW r \in Req, NEW u \in users, NEW b \in Blogs, CreatePostFind(r, u, b) PROVE G
  <2>1. r = s /\ req'[s].pc = "createPost" /\ req'[s].blog = b
    BY <1>0, <1>2 DEF CreatePostFind, Start, Idle
  <2> QED
    BY <1>2, <2>1 DEF CreatePostFind
<1>3. ASSUME NEW r \in Req, CommentBanFind(r) PROVE G
  <2>1. CASE BansOf(req[r].actor, req[r].blog, req[r].user) = {}
    <3>1. r = s /\ req'[s].pc = "createComment" /\ req'[s].blog = req[r].blog /\ req'[s].actor = req[r].actor
          /\ req[r].pc = "commentBan"
      BY <1>0, <1>3, <2>1 DEF CommentBanFind, Goto, Request
    <3>2. ASSUME NEW x \in Bans, ban[x].user = req[r].actor, ban[x].blog = req[r].blog PROVE FALSE
      <4>1. ban[x].blogger = req[r].user
        BY <3>1, <3>2 DEF IInv, Held, Data, BansAreTheOwners, NoOrphans
      <4>2. ban[x] = [user |-> req[r].actor, blog |-> req[r].blog, blogger |-> req[r].user]
        BY <3>2, <4>1 DEF IInv, Data, Tables, BanRow
      <4> QED
        BY <2>1, <4>2 DEF BansOf
    <3> QED
      BY <1>3, <3>1, <3>2 DEF CommentBanFind
  <2>2. CASE BansOf(req[r].actor, req[r].blog, req[r].user) # {}
    BY <1>0, <1>1, <1>3, <2>2 DEF CommentBanFind, Finish, Idle
  <2> QED
    BY <2>1, <2>2
<1>4. ASSUME NEW r \in Req, NEW q, q.pc \notin {"createPost", "createComment", "insertBan"}, req' = [req EXCEPT ![r] = q] PROVE G
  BY <1>0, <1>1, <1>4
<1> HIDE DEF G
<1>5. ASSUME NEW r \in Req, NEW pc, Finish(r, pc) PROVE G
  <2>1. Idle.pc = "idle"
    BY DEF Idle
  <2> QED
    BY <1>4, <1>5, <2>1 DEF Finish
<1>6. ASSUME NEW r \in Req, NEW from, NEW to, Goto(r, from, to), to \notin {"createPost", "createComment", "insertBan"} PROVE G
  <2>1. [req[r] EXCEPT !.pc = to].pc = to
    BY <1>0 DEF Request
  <2> QED
    BY <1>4, <1>6, <2>1 DEF Goto
<1>7. ASSUME NEW r \in Req, NEW u \in users, Arrive(r, u) PROVE G
  <2>1. ASSUME NEW q, Start(r, q), q.pc \notin {"createPost", "createComment", "insertBan"} PROVE G
    BY <1>4, <2>1 DEF Start
  <2>2. CASE CreateBlogStart(r, u)
    BY <2>1, <2>2 DEF CreateBlogStart, Idle
  <2>3. ASSUME NEW b \in Blogs, NEW pc \in {"updateBlog", "deleteBlog"}, OwnBlogFind(r, u, b, pc) PROVE G
    BY <2>1, <2>3 DEF OwnBlogFind, Idle
  <2>4. ASSUME NEW b \in Blogs, NEW p \in Posts, NEW pc \in {"findForUpdate", "findForDelete"},
               PostBlogFind(r, u, b, p, pc)
        PROVE G
    BY <2>1, <2>4 DEF PostBlogFind, Idle
  <2>5. ASSUME NEW p \in Posts, CommentPostFind(r, u, p) PROVE G
    BY <2>1, <2>5 DEF CommentPostFind, Idle
  <2>6. ASSUME NEW c \in Comments, NEW pc \in {"updateComment", "deleteComment"}, OwnCommentFind(r, u, c, pc)
        PROVE G
    BY <2>1, <2>6 DEF OwnCommentFind, Idle
  <2>7. ASSUME NEW v \in users, NEW b \in Blogs, NEW on \in BOOLEAN, BloggerBanStart(r, u, v, b, on) PROVE G
    BY <2>1, <2>7 DEF BloggerBanStart, Idle
  <2> QED
    BY <1>2, <1>7, <2>2, <2>3, <2>4, <2>5, <2>6, <2>7 DEF Arrive
<1>8. ASSUME NEW r \in Req, BloggerBanRowFind(r) PROVE G
  <2>2. ASSUME BansOf(req[r].user, req[r].blog, req[r].actor) = {}, Goto(r, "bloggerBanRow", "insertBan") PROVE G
    <3>1. /\ r = s /\ req'[s].pc = "insertBan"
          /\ req'[s].user = req[r].user /\ req'[s].blog = req[r].blog /\ req'[s].actor = req[r].actor
      BY <1>0, <2>2 DEF Goto, Request
    <3> QED
      BY <1>8, <2>2, <3>1 DEF BloggerBanRowFind, G
  <2>1. ASSUME NEW x, req' = [req EXCEPT ![r].pc = "deleteBan", ![r].item = x] PROVE G
    <3>1. [req[r] EXCEPT !.pc = "deleteBan", !.item = x].pc = "deleteBan"
      BY <1>0 DEF Request
    <3> QED
      BY <1>4, <2>1, <3>1
  <2> QED
    BY <1>5, <1>8, <2>1, <2>2 DEF BloggerBanRowFind
<1>9. ASSUME NEW r \in Req, Continue(r) PROVE G
  BY <1>3, <1>5, <1>6, <1>8, <1>9
  DEF Continue, CreateBlog, UpdateBlog, DeleteBlog, BanBlogUpdate, CreatePost, UpdatePost, DeletePost,
      CreateComment, UpdateComment, DeleteComment, InsertBan, DeleteBan, WriteFails, PostFind,
      CommentUserFind, BloggerBanBlogFind
<1>10. ASSUME NEW r \in Req, NEW b \in Blogs, NEW on \in BOOLEAN, BanBlogFind(r, b, on) PROVE G
  BY <1>4, <1>10 DEF BanBlogFind, Start, Idle
<1> QED
  BY <1>7, <1>9, <1>10 DEF Step, AdminArrive, AdminBan, DeleteUser, G

(* A request past its check that is not in the history still finds what the *)
(* check found.                                                             *)
LEMMA WatchedNext ==
  ASSUME IInv, Watched, [Next]_vars
  PROVE  Watched'
<1>1. CASE UNCHANGED vars
  BY <1>1 DEF vars, Watched, WatchedBy, Blogs, Bans
<1> SUFFICES ASSUME Step, Watch, NEW r \in Req PROVE WatchedBy(r)'
  BY <1>1 DEF Next, Watched
<1>2. Stable /\ Held(req[r]) /\ WatchedBy(r) /\ Bans \subseteq gone
  BY DataNext DEF IInv, Data, Tables, Watched
<1>3. CASE req'[r] = req[r]
  <2>1. r \in overtaken' <=> r \in overtaken \/ Overtakes(r)
    BY <1>3 DEF Watch
  <2>2. ASSUME req[r].pc = "createPost", req[r].blog \in Blogs', blog'[req[r].blog].isBanned PROVE r \in overtaken'
    BY <1>2, <2>1, <2>2 DEF Stable, Held, WatchedBy, Overtakes
  <2>3. ASSUME req[r].pc = "createComment", NEW x \in Bans', ban'[x].user = req[r].actor, ban'[x].blog = req[r].blog
        PROVE r \in overtaken'
    BY <1>2, <2>1, <2>3 DEF Stable, WatchedBy, Overtakes
  <2> QED
    BY <1>3, <2>2, <2>3 DEF WatchedBy
<1>4. CASE req'[r] # req[r]
  BY <1>4, Checked DEF WatchedBy, content, Blogs, Bans
<1> QED
  BY <1>3, <1>4

(* A request overtaken by a ban is so until it ends. *)
LEMMA WatchedInvariance == Spec => []Watched
<1>1. Init => Watched
  BY DEF Init, Watched, WatchedBy, Idle
<1>2. IInv /\ Watched /\ [Next]_vars => Watched'
  BY WatchedNext
<1> QED
  BY <1>1, <1>2, Invariance, PTL DEF Spec

(* Posts, comments and bans appear only by their inserts. *)
LEMMA Inserts ==
  ASSUME Step
  PROVE  /\ Posts' \subseteq Posts \/ \E r \in Req, p \in Post : CreatePost(r, p)
         /\ Comments' \subseteq Comments \/ \E r \in Req, c \in Comment : CreateComment(r, c)
         /\ Bans' \subseteq Bans \/ \E r \in Req, x \in Ban : InsertBan(r, x)
<1> DEFINE G == /\ Posts' \subseteq Posts \/ \E r \in Req, p \in Post : CreatePost(r, p)
                /\ Comments' \subseteq Comments \/ \E r \in Req, c \in Comment : CreateComment(r, c)
                /\ Bans' \subseteq Bans \/ \E r \in Req, x \in Ban : InsertBan(r, x)
           None3 == Posts' \subseteq Posts /\ Comments' \subseteq Comments /\ Bans' \subseteq Bans
<1>1. ASSUME NEW Us, NEW Bs, NEW Ps \in SUBSET Posts, Keep(Us, Bs, Ps) PROVE None3
  BY <1>1 DEF Keep, Restrict, Posts, Comments, Bans
<1>2. ASSUME UNCHANGED <<post, comment, ban>> PROVE None3
  BY <1>2 DEF Posts, Comments, Bans
<1>3. ASSUME NEW r \in Req, DeleteComment(r) \/ DeleteBan(r) \/ UpdatePost(r) \/ UpdateComment(r) PROVE None3
  BY <1>3 DEF DeleteComment, DeleteBan, UpdatePost, UpdateComment, Restrict, Posts, Comments, Bans
<1>4. ASSUME NEW r \in Req, NEW p \in Post, CreatePost(r, p) PROVE G
  BY <1>4 DEF CreatePost, Comments, Bans
<1>5. ASSUME NEW r \in Req, NEW c \in Comment, CreateComment(r, c) PROVE G
  BY <1>5 DEF CreateComment, Posts, Bans
<1>6. ASSUME NEW r \in Req, NEW x \in Ban, InsertBan(r, x) PROVE G
  BY <1>6 DEF InsertBan, Posts, Comments
<1>7. None3 => G
  OBVIOUS
<1> HIDE DEF G, None3
<1>8. ASSUME NEW r \in Req, NEW u \in users, Arrive(r, u) PROVE G
  BY <1>2, <1>7, <1>8 DEF Arrive, CreateBlogStart, OwnBlogFind, CreatePostFind, PostBlogFind, CommentPostFind,
     OwnCommentFind, BloggerBanStart, content
<1>9. ASSUME NEW r \in Req, Continue(r) PROVE G
  <2>1. ASSUME DeletePost(r) \/ DeleteBlog(r) PROVE None3
    BY <1>1, <2>1 DEF DeletePost, DeleteBlog
  <2> QED
    BY <1>2, <1>3, <1>4, <1>5, <1>6, <1>7, <1>9, <2>1
    DEF Continue, CreateBlog, UpdateBlog, BanBlogUpdate, PostFind, CommentUserFind, CommentBanFind,
        BloggerBanBlogFind, BloggerBanRowFind, WriteFails, content
<1>10. ASSUME NEW r \in Req, NEW u \in users, AdminBan(r, u) \/ DeleteUser(r, u) PROVE G
  BY <1>1, <1>2, <1>7, <1>10 DEF AdminBan, DeleteUser
<1> QED
  BY <1>2, <1>7, <1>8, <1>9, <1>10 DEF Step, AdminArrive, BanBlogFind, content, G

(* No post is created in a blog whose ban was written before its check. *)
THEOREM NoPostInBannedBlog == Spec => NoPostWhileBlogBanned
<1>1. ASSUME IInv, Watched, Step, NEW p \in Posts' \ Posts, blog[post'[p].blog].isBanned
      PROVE Overtaken("createPost", post'[p].blog)
  <2>1. PICK r \in Req, q \in Post : CreatePost(r, q)
    BY <1>1, Inserts
  <2>2. p = q /\ post'[p].blog = req[r].blog
    BY <1>1, <2>1 DEF CreatePost, Put, Posts
  <2>3. req[r].pc = "createPost" /\ req[r].blog \in Blogs /\ req'[r] = Idle
    BY <1>1, <2>1 DEF CreatePost, Finish, IInv
  <2> QED
    BY <1>1, <2>2, <2>3 DEF Watched, WatchedBy, Overtaken
<1>2. IInv /\ Watched /\ [Next]_vars =>
        [\A p \in Posts' \ Posts :
           blog[post'[p].blog].isBanned => Overtaken("createPost", post'[p].blog)]_vars
  BY <1>1 DEF Next
<1> QED
  BY <1>2, Invariance, WatchedInvariance, PTL DEF Spec, NoPostWhileBlogBanned

(* No user comments in a blog he was banned from before the look-up. *)
THEOREM NoCommentOfBanned == Spec => NoCommentWhileBanned
<1> DEFINE Quiet == \A c \in Comments' \ Comments :
             LET b == post[comment'[c].post].blog IN
             (\E x \in Bans : ban[x].user = comment'[c].user /\ ban[x].blog = b)
               => Overtaken("createComment", b)
<1>1. ASSUME IInv, Watched, Step, NEW c \in Comments' \ Comments,
             NEW x \in Bans, ban[x].user = comment'[c].user, ban[x].blog = post[comment'[c].post].blog
      PROVE Overtaken("createComment", post[comment'[c].post].blog)
  <2>1. PICK r \in Req, d \in Comment : CreateComment(r, d)
    BY <1>1, Inserts
  <2>2. c = d /\ comment'[c].post = req[r].item /\ comment'[c].user = req[r].actor
    BY <1>1, <2>1 DEF CreateComment, Put, Comments
  <2>3. req[r].pc = "createComment" /\ req[r].item \in Posts /\ req'[r] = Idle
    BY <1>1, <2>1 DEF CreateComment, Finish, IInv
  <2>4. post[req[r].item].blog = req[r].blog
    BY <1>1, <2>3 DEF IInv, Held
  <2> QED
    BY <1>1, <2>2, <2>3, <2>4 DEF Watched, WatchedBy, Overtaken
<1>2. IInv /\ Watched /\ [Next]_vars => [Quiet]_vars
  BY <1>1 DEF Next
<1> QED
  BY <1>2, Invariance, WatchedInvariance, PTL DEF Spec, NoCommentWhileBanned

-----------------------------------------------------------------------------
(* A ban is inserted for one request that found none. *)
BanRows(u, b, o) ==
  /\ IsFiniteSet(BansOf(u, b, o))
  /\ Cardinality(BansOf(u, b, o)) + Cardinality(Banning(u, b, o)) <= Cardinality(Req)

(* A step adds a row of one user's bans in one blog only by ending a        *)
(* request that was about to insert it.                                     *)
LEMMA BanRowsStep ==
  ASSUME IInv, Step, NEW u, NEW b, NEW o
  PROVE  \/ BansOf(u, b, o)' \subseteq BansOf(u, b, o) /\ Banning(u, b, o)' \subseteq Banning(u, b, o)
         \/ \E r \in Banning(u, b, o) : \E x \in Ban \ BansOf(u, b, o) :
              /\ BansOf(u, b, o)' \subseteq BansOf(u, b, o) \cup {x}
              /\ Banning(u, b, o)' \subseteq Banning(u, b, o) \ {r}
         \/ BansOf(u, b, o)' = {}
<1>1. Stable /\ Bans \subseteq gone
  BY DataNext DEF IInv, Data, Tables
<1>2. CASE \E s \in Req : s \in Banning(u, b, o)' \ Banning(u, b, o)
  <2>1. PICK s \in Req : s \in Banning(u, b, o)' \ Banning(u, b, o)
    BY <1>2
  <2>2. req'[s].pc = "insertBan" /\ req'[s].user = u /\ req'[s].blog = b /\ req'[s].actor = o /\ req'[s] # req[s]
    BY <2>1 DEF Banning
  <2>3. UNCHANGED content /\ BansOf(u, b, o) = {}
    BY <2>2, Checked
  <2> QED
    BY <2>3 DEF BansOf, Bans, content
<1>3. CASE Banning(u, b, o)' \subseteq Banning(u, b, o)
  <2>1. CASE Bans' \subseteq Bans
    BY <1>1, <1>3, <2>1 DEF BansOf, Stable
  <2>2. ASSUME NEW r \in Req, NEW x \in Ban, InsertBan(r, x)
        PROVE \/ BansOf(u, b, o)' \subseteq BansOf(u, b, o)
              \/ /\ r \in Banning(u, b, o) \ Banning(u, b, o)' /\ x \notin BansOf(u, b, o)
                 /\ BansOf(u, b, o)' \subseteq BansOf(u, b, o) \cup {x}
    <3>1. /\ req[r].pc = "insertBan" /\ req'[r] = Idle /\ x \notin Bans
          /\ Bans' = Bans \cup {x} /\ \A y \in Bans : ban'[y] = ban[y]
          /\ ban'[x] = [user |-> req[r].user, blog |-> req[r].blog, blogger |-> req[r].actor]
      BY <1>1, <2>2 DEF InsertBan, Finish, Put, Bans, IInv
    <3>2. CASE u = req[r].user /\ b = req[r].blog /\ o = req[r].actor
      BY <3>1, <3>2 DEF BansOf, Banning, Idle
    <3>3. CASE ~(u = req[r].user /\ b = req[r].blog /\ o = req[r].actor)
      <4>1. ban'[x] # [user |-> u, blog |-> b, blogger |-> o]
        BY <3>1, <3>3
      <4> QED
        BY <3>1, <4>1 DEF BansOf
    <3> QED
      BY <3>2, <3>3
  <2> QED
    BY <1>3, <2>1, <2>2, Inserts
<1> QED
  BY <1>2, <1>3 DEF Banning

(* So rows and inserts to come together stay within the slots: a request    *)
(* starts to insert only when it has found no row.                          *)
LEMMA BanRowsNext ==
  ASSUME IInv, Step, NEW u, NEW b, NEW o, BanRows(u, b, o)
  PROVE  BanRows(u, b, o)'
<1> DEFINE B == BansOf(u, b, o)
           W == Banning(u, b, o)
           n == Cardinality(Req)
<1>1. IsFiniteSet(B) /\ Cardinality(B) \in Nat /\ IsFiniteSet(W) /\ Cardinality(W) \in Nat /\ n \in Nat
  BY ReqAssumption, FS_Subset, FS_CardinalityType DEF BanRows, Banning
<1>2. Cardinality(B) + Cardinality(W) <= n
  BY DEF BanRows
<1> SUFFICES IsFiniteSet(B') /\ Cardinality(B') + Cardinality(W') <= n
  BY DEF BanRows
<1>3. W' \subseteq Req
  BY DEF Banning
<1> HIDE DEF B, W, n
<1>4. CASE B' \subseteq B /\ W' \subseteq W
  <2>1. IsFiniteSet(B') /\ Cardinality(B') <= Cardinality(B) /\ Cardinality(W') <= Cardinality(W)
    BY <1>1, <1>4, FS_Subset
  <2>2. Cardinality(B') \in Nat /\ Cardinality(W') \in Nat
    BY <1>1, <1>4, FS_Subset, FS_CardinalityType
  <2> QED
    BY <1>1, <1>2, <2>1, <2>2
<1>5. ASSUME NEW r \in W, NEW x \in Ban \ B, B' \subseteq B \cup {x}, W' \subseteq W \ {r}
      PROVE IsFiniteSet(B') /\ Cardinality(B') + Cardinality(W') <= n
  <2>1. IsFiniteSet(B \cup {x}) /\ Cardinality(B \cup {x}) = Cardinality(B) + 1
    BY <1>1, FS_AddElement
  <2>2. IsFiniteSet(W \ {r}) /\ Cardinality(W \ {r}) = Cardinality(W) - 1
    BY <1>1, FS_RemoveElement
  <2>3. IsFiniteSet(B') /\ Cardinality(B') <= Cardinality(B \cup {x})
    BY <1>5, <2>1, FS_Subset
  <2>4. IsFiniteSet(W') /\ Cardinality(W') <= Cardinality(W \ {r})
    BY <1>5, <2>2, FS_Subset
  <2>5. Cardinality(B') \in Nat /\ Cardinality(W') \in Nat
    BY <2>3, <2>4, FS_CardinalityType
  <2> QED
    BY <1>1, <1>2, <2>1, <2>2, <2>3, <2>4, <2>5
<1>6. CASE B' = {}
  <2>1. IsFiniteSet({}) /\ Cardinality({}) = 0
    BY FS_EmptySet
  <2>2. Cardinality(W') <= n /\ Cardinality(W') \in Nat
    BY <1>3, ReqAssumption, FS_Subset, FS_CardinalityType DEF n
  <2> QED
    BY <1>1, <1>6, <2>1, <2>2
<1> QED
  BY <1>4, <1>5, <1>6, BanRowsStep DEF B, W

(* A user has no more bans from a blog than requests can run at once. *)
THEOREM BansBounded == Spec => []BanRowsBounded
<1> DEFINE All == \A u, o \in User, b \in Blog : BanRows(u, b, o)
<1>1. Init => All
  <2> SUFFICES ASSUME Init, NEW u, NEW o, NEW b PROVE BanRows(u, b, o)
    OBVIOUS
  <2>1. BansOf(u, b, o) = {} /\ Banning(u, b, o) = {}
    BY DEF Init, BansOf, Banning, Bans, Idle
  <2> QED
    BY <2>1, ReqAssumption, FS_EmptySet, FS_CardinalityType DEF BanRows
<1>2. IInv /\ All /\ [Next]_vars => All'
  <2>1. CASE UNCHANGED vars
    BY <2>1 DEF vars, BanRows, BansOf, Banning, Bans
  <2> QED
    BY <2>1, BanRowsNext DEF Next
<1>3. All => BanRowsBounded
  BY DEF BanRows, BanRowsBounded
<1> QED
  BY <1>1, <1>2, <1>3, Invariance, PTL DEF Spec
=============================================================================
