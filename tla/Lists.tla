------------------------------- MODULE Lists -------------------------------
(***************************************************************************)
(* The paged lists: every one runs findMany with skip and take, then count *)
(* with the same filter, as two separate queries, and answers with both.   *)
(* A client walks a list page by page while other requests write.  Rows    *)
(* are numbered in the order of their createdAt, the default sort key,     *)
(* which a handler sets before it inserts: they come in any order.  The    *)
(* reactions of each row, queries between the two, are in Reactions.  What *)
(* the client may rely on is in Paging.                                    *)
(***************************************************************************)
EXTENDS Integers, FiniteSets, Functions, SequencesExt

CONSTANTS
  Bounds,    \* bounds: each says how many rows of each table are ever created,
             \* and how many names of blogs and titles of posts there are
  MaxRows,   \* the largest of these numbers
  PageSize   \* take; the DTOs keep it at least 1

Table == {"user", "blog", "post", "comment", "ban"}
ASSUME BoundsAssumption == MaxRows \in Nat /\ Bounds \subseteq [Table \cup {"name"} -> 0 .. MaxRows]
ASSUME PageAssumption == PageSize \in Nat \ {0}

VARIABLES
  users, banned,              \* rows of User, and those with BanInfo.isBanned
  blog, post, comment, ban,   \* id -> row
  rows,                       \* the bound chosen at the start
  used,                       \* ids of each table drawn so far
  walk                        \* the client's walk, its request and the rows of its page

tables == <<users, banned, blog, post, comment, ban, used>>
vars == <<users, banned, blog, post, comment, ban, rows, used, walk>>

Id(t) == 1 .. rows[t]
Name == 1 .. rows["name"]
BlogRow == [owner : Id("user"), isBanned : BOOLEAN, name : Name]
PostRow == [blog : Id("blog"), title : Name]
CommentRow == [post : Id("post"), user : Id("user")]
BanRow == [user : Id("user"), blog : Id("blog"), blogger : Id("user")]

Blogs == DOMAIN blog
Posts == DOMAIN post
Comments == DOMAIN comment
Bans == DOMAIN ban
BlogOf(c) == post[comment[c].post].blog

-----------------------------------------------------------------------------
(* The filters (src/helpers/filter).  A search term is a name, or 0 when it *)
(* is left out; what contains it is the rows of that name.                  *)
Matches(name, term) == term \in {0, name}
BlogFilter(b, term) == ~blog[b].isBanned /\ Matches(blog[b].name, term)
PostFilter(p) == ~blog[post[p].blog].isBanned /\ blog[post[p].blog].owner \notin banned
CommentFilter(c) == comment[c].user \notin banned /\ ~blog[BlogOf(c)].isBanned
(* Mutant: the super-admin's ban of the commenter is left out. *)
BloggerCommentFilterShowsBanned(c, u) ==
  /\ blog[BlogOf(c)].owner = u /\ ~blog[BlogOf(c)].isBanned
  /\ \A x \in Bans : ~(ban[x].user = comment[c].user /\ ban[x].blogger = u)
(* A ban from one blog hides its user's comments in all the blogger's blogs. *)
BloggerCommentFilter(c, u) ==
  /\ blog[BlogOf(c)].owner = u /\ ~blog[BlogOf(c)].isBanned
  /\ comment[c].user \notin banned
  /\ \A x \in Bans : ~(ban[x].user = comment[c].user /\ ban[x].blogger = u)
UserFilter(u, status, term) ==
  (status = "all" \/ (u \in banned <=> status = "banned")) /\ Matches(u, term)

(* The rows each list shows. *)
FindBlogs(term) == {b \in Blogs : BlogFilter(b, term)}
FindBlogsForBlogger(u, term) == {b \in Blogs : BlogFilter(b, term) /\ blog[b].owner = u}
FindBlogsForSuperAdmin(term) == {b \in Blogs : Matches(blog[b].name, term)}
FindPosts(Bs) == {p \in Posts : PostFilter(p) /\ post[p].blog \in Bs}
FindComments(p) == {c \in Comments : CommentFilter(c) /\ comment[c].post = p}
AllCommentsOfBlogger(u) == {c \in Comments : BloggerCommentFilter(c, u)}
FindUsers(status, term) == {u \in users : UserFilter(u, status, term)}
BannedUsersForBlog(b, term) == {x \in Bans : ban[x].blog = b /\ Matches(ban[x].user, term)}

(* A list is a tuple of its name and its parameters; a login or e-mail is   *)
(* its user.                                                                *)
Term == Name \cup {0}
Login == Id("user") \cup {0}
List ==
  ({"blogs", "saBlogs"} \X Term)
  \cup ({"bloggerBlogs"} \X Id("user") \X Term)
  \cup {<<"posts">>}
  \cup ({"postsOfBlog"} \X Id("blog"))
  \cup ({"comments"} \X Id("post"))
  \cup ({"bloggerComments"} \X Id("user"))
  \cup ({"users"} \X {"all", "banned", "notBanned"} \X Login)
  \cup ({"bannedUsers"} \X Id("blog") \X Id("user") \X Login)
Shown(l) ==
  CASE l[1] = "blogs" -> FindBlogs(l[2])
    [] l[1] = "saBlogs" -> FindBlogsForSuperAdmin(l[2])
    [] l[1] = "bloggerBlogs" -> FindBlogsForBlogger(l[2], l[3])
    [] l[1] = "posts" -> FindPosts(Blogs)
    [] l[1] = "postsOfBlog" -> FindPosts({l[2]})
    [] l[1] = "comments" -> FindComments(l[2])
    [] l[1] = "bloggerComments" -> AllCommentsOfBlogger(l[2])
    [] l[1] = "users" -> FindUsers(l[2], l[3])
    [] l[1] = "bannedUsers" -> BannedUsersForBlog(l[2], l[4])

(* What the controllers look up before they read a page. *)
FindBlog(b) == b \in Blogs /\ ~blog[b].isBanned
FindPost(p) == p \in Posts /\ PostFilter(p)
Allowed(l) ==
  /\ l[1] = "postsOfBlog" => FindBlog(l[2])
  /\ l[1] = "comments" => FindPost(l[2])
  /\ l[1] = "bannedUsers" => FindBlog(l[2]) /\ blog[l[2]].owner = l[3]
  /\ l[1] \in {"bloggerBlogs", "bloggerComments"} => l[2] \in users

(* orderBy: a column of the row or, for posts, the name of the blog.  The   *)
(* texts of a comment are sorted like the title of a post, logins, which    *)
(* are unique, like createdAt.                                              *)
SortBy(l) ==
  CASE l[1] \in {"blogs", "saBlogs", "bloggerBlogs"} -> {"createdAt", "name"}
    [] l[1] \in {"posts", "postsOfBlog"} -> {"createdAt", "title", "blogName"}
    [] l[1] = "bannedUsers" -> {"createdAt", "login"}
    [] OTHER -> {"createdAt"}
SortKey(by, x) ==
  CASE by = "createdAt" -> x
    [] by = "name" -> blog[x].name
    [] by = "title" -> post[x].title
    [] by = "blogName" -> blog[post[x].blog].name
    [] by = "login" -> ban[x].user
Keys(l, by, asc) ==
  [x \in Shown(l) |-> IF asc THEN SortKey(by, x) ELSE -SortKey(by, x)]

(* skip and take; the database puts equal keys in any order. *)
Ordered(keys) ==
  {o \in SetToSeqs(DOMAIN keys) : \A i, j \in DOMAIN o : i < j => keys[o[i]] <= keys[o[j]]}
PageOf(o, n) == {o[i] : i \in DOMAIN o \cap ((n - 1) * PageSize + 1) .. n * PageSize}
(* PaginationViewModel.calculatePagesCount. *)
PagesCount(total) == IF total = 0 THEN 1 ELSE (total + PageSize - 1) \div PageSize

-----------------------------------------------------------------------------
Idle == [pc |-> "idle", list |-> <<"posts">>, by |-> "createdAt", asc |-> FALSE, n |-> 0, items |-> {}]

StartWalk(l, by, asc) ==
  /\ walk = Idle
  /\ walk' = [pc |-> "check", list |-> l, by |-> by, asc |-> asc, n |-> 1, items |-> {}]
  /\ UNCHANGED tables
(* A refused page ends the walk. *)
Check ==
  /\ walk.pc = "check"
  /\ walk' = IF Allowed(walk.list) THEN [walk EXCEPT !.pc = "page"] ELSE Idle
  /\ UNCHANGED tables
(* Mutant: skip is pageNumber * pageSize. *)
ReadPageSkipsFirst ==
  /\ walk.pc = "page"
  /\ \E o \in Ordered(Keys(walk.list, walk.by, walk.asc)) :
       walk' = [walk EXCEPT !.pc = "count", !.items = PageOf(o, walk.n + 1)]
  /\ UNCHANGED tables
ReadPage ==
  /\ walk.pc = "page"
  /\ \E o \in Ordered(Keys(walk.list, walk.by, walk.asc)) :
       walk' = [walk EXCEPT !.pc = "count", !.items = PageOf(o, walk.n)]
  /\ UNCHANGED tables
(* The answer; the client asks for the next page as long as there is one. *)
CountRows ==
  /\ walk.pc = "count"
  /\ walk' = IF walk.n < PagesCount(Cardinality(Shown(walk.list)))
             THEN [walk EXCEPT !.pc = "check", !.n = @ + 1, !.items = {}]
             ELSE Idle
  /\ UNCHANGED tables

-----------------------------------------------------------------------------
(* The writes of the other handlers (Moderation, Accounts), each the one     *)
(* call that changes the tables.                                             *)
New(t, id) == id \in Id(t) \ used[t] /\ used' = [used EXCEPT ![t] = @ \cup {id}]
Put(f, k, row) == [i \in DOMAIN f \cup {k} |-> IF i = k THEN row ELSE f[i]]

Register(u) ==
  /\ New("user", u)
  /\ users' = users \cup {u}
  /\ UNCHANGED <<banned, blog, post, comment, ban>>
CreateBlog(b, u, name) ==
  /\ New("blog", b)
  /\ blog' = Put(blog, b, [owner |-> u, isBanned |-> FALSE, name |-> name])
  /\ UNCHANGED <<users, banned, post, comment, ban>>
CreatePost(p, b, title) ==
  /\ New("post", p)
  /\ post' = Put(post, p, [blog |-> b, title |-> title])
  /\ UNCHANGED <<users, banned, blog, comment, ban>>
UpdateBlog(b, name) ==
  /\ blog' = [blog EXCEPT ![b].name = name]
  /\ UNCHANGED <<users, banned, post, comment, ban, used>>
UpdatePost(p, title) ==
  /\ post' = [post EXCEPT ![p].title = title]
  /\ UNCHANGED <<users, banned, blog, comment, ban, used>>
CreateComment(c, p, u) ==
  /\ New("comment", c)
  /\ comment' = Put(comment, c, [post |-> p, user |-> u])
  /\ UNCHANGED <<users, banned, blog, post, ban>>
BloggerBan(x, u, b) ==
  /\ New("ban", x) /\ u # blog[b].owner
  /\ ban' = Put(ban, x, [user |-> u, blog |-> b, blogger |-> blog[b].owner])
  /\ UNCHANGED <<users, banned, blog, post, comment>>
AdminBan(u) ==
  /\ banned' = IF u \in banned THEN banned \ {u} ELSE banned \cup {u}
  /\ UNCHANGED <<users, blog, post, comment, ban, used>>
BanBlog(b) ==
  /\ blog' = [blog EXCEPT ![b].isBanned = ~@]
  /\ UNCHANGED <<users, banned, post, comment, ban, used>>
(* Deleting a user, blog, post, comment or ban, with the cascades. *)
(* Mutant: BanInfo does not cascade. *)
KeepBanInfo(Us, Bs, Ps, Cs, Xs) ==
  LET B == {b \in Bs : blog[b].owner \in Us}
      P == {p \in Ps : post[p].blog \in B} IN
  /\ users' = Us
  /\ blog' = Restrict(blog, B)
  /\ post' = Restrict(post, P)
  /\ comment' = Restrict(comment, {c \in Cs : comment[c].post \in P /\ comment[c].user \in Us})
  /\ ban' = Restrict(ban, {x \in Xs : ban[x].blog \in B /\ {ban[x].user, ban[x].blogger} \subseteq Us})
  /\ UNCHANGED <<used, banned>>
Keep(Us, Bs, Ps, Cs, Xs) ==
  LET B == {b \in Bs : blog[b].owner \in Us}
      P == {p \in Ps : post[p].blog \in B} IN
  /\ users' = Us
  /\ banned' = banned \cap Us
  /\ blog' = Restrict(blog, B)
  /\ post' = Restrict(post, P)
  /\ comment' = Restrict(comment, {c \in Cs : comment[c].post \in P /\ comment[c].user \in Us})
  /\ ban' = Restrict(ban, {x \in Xs : ban[x].blog \in B /\ {ban[x].user, ban[x].blogger} \subseteq Us})
  /\ UNCHANGED used
Delete ==
  \/ \E u \in users : Keep(users \ {u}, Blogs, Posts, Comments, Bans)
  \/ \E b \in Blogs : Keep(users, Blogs \ {b}, Posts, Comments, Bans)
  \/ \E p \in Posts : Keep(users, Blogs, Posts \ {p}, Comments, Bans)
  \/ \E c \in Comments : Keep(users, Blogs, Posts, Comments \ {c}, Bans)
  \/ \E x \in Bans : Keep(users, Blogs, Posts, Comments, Bans \ {x})

Write ==
  /\ \/ \E u \in Id("user") : Register(u)
     \/ \E b \in Id("blog"), u \in users, name \in Name : CreateBlog(b, u, name)
     \/ \E p \in Id("post"), b \in Blogs, title \in Name : CreatePost(p, b, title)
     \/ \E b \in Blogs : \E name \in Name \ {blog[b].name} : UpdateBlog(b, name)
     \/ \E p \in Posts : \E title \in Name \ {post[p].title} : UpdatePost(p, title)
     \/ \E c \in Id("comment"), p \in Posts, u \in users : CreateComment(c, p, u)
     \/ \E x \in Id("ban"), b \in Blogs, u \in users : BloggerBan(x, u, b)
     \/ \E u \in users : AdminBan(u)
     \/ \E b \in Blogs : BanBlog(b)
     \/ Delete
  /\ UNCHANGED walk

Init ==
  /\ users = {} /\ banned = {}
  /\ blog = << >> /\ post = << >> /\ comment = << >> /\ ban = << >>
  /\ rows \in Bounds
  /\ used = [t \in Table |-> {}]
  /\ walk = Idle

Step ==
  \/ \E l \in List : \E by \in SortBy(l), asc \in BOOLEAN : StartWalk(l, by, asc)
  \/ Check
  \/ ReadPage
  \/ CountRows
  \/ Write
Next == Step /\ UNCHANGED rows

Spec == Init /\ [][Next]_vars

-----------------------------------------------------------------------------
(***************************************************************************)
(* Properties.                                                             *)
(***************************************************************************)
TypeOK ==
  /\ users \subseteq Id("user") /\ banned \subseteq users
  /\ Blogs \subseteq Id("blog") /\ blog \in [Blogs -> BlogRow]
  /\ Posts \subseteq Id("post") /\ post \in [Posts -> PostRow]
  /\ \A p \in Posts : post[p].blog \in Blogs
  /\ Comments \subseteq Id("comment") /\ comment \in [Comments -> CommentRow]
  /\ Bans \subseteq Id("ban") /\ ban \in [Bans -> BanRow]
  /\ \A t \in Table : used[t] \subseteq Id(t)
  /\ walk \in [pc : {"idle", "check", "page", "count"}, list : List,
                by : {"createdAt", "name", "title", "blogName", "login"},
                asc : BOOLEAN, n : Nat, items : SUBSET Nat]

(* Every list is a walk as Paging has it, whatever is written between its   *)
(* queries: page and total go by one filter and one order, and a page takes *)
(* up where the last one ended (comments.query.sql.repository.ts:38).  So   *)
(* what Paging promises holds of every list.                                *)
W == INSTANCE Paging WITH
  Row <- 1 .. MaxRows, Key <- Int,
  shown <- IF walk = Idle THEN << >> ELSE Keys(walk.list, walk.by, walk.asc),
  walk <- [pc |-> walk.pc, n |-> walk.n, items |-> walk.items],
  due <- {}, read <- {}
Walks == W!WalkSpec

(* The lists agree: what a blogger sees of the comments under his posts is  *)
(* public unless he is banned himself, and the public lists show a post or  *)
(* blog only with what it belongs to (src/helpers/filter).                  *)
Public(c) == comment[c].post \in FindPosts(Blogs) /\ c \in FindComments(comment[c].post)
ListsAgree ==
  /\ \A u \in users \ banned : \A c \in AllCommentsOfBlogger(u) : Public(c)
  /\ \A p \in FindPosts(Blogs) : post[p].blog \in FindBlogs(0)
=============================================================================
