----------------------------- MODULE ListsProofs -----------------------------
(***************************************************************************)
(* Theorems of Lists, for any page size and any bounds on the tables.      *)
(***************************************************************************)
EXTENDS Lists, FiniteSetTheorems, TLAPS

(* The tables: no row points to one that is gone. *)
Tables ==
  /\ users \subseteq Id("user") /\ banned \subseteq users
  /\ Blogs \subseteq Id("blog") /\ blog \in [Blogs -> BlogRow]
  /\ Posts \subseteq Id("post") /\ post \in [Posts -> PostRow]
  /\ Comments \subseteq Id("comment") /\ comment \in [Comments -> CommentRow]
  /\ Bans \subseteq Id("ban") /\ ban \in [Bans -> BanRow]
Orphanless ==
  /\ \A b \in Blogs : blog[b].owner \in users
  /\ \A p \in Posts : post[p].blog \in Blogs
  /\ \A c \in Comments : comment[c].post \in Posts /\ comment[c].user \in users
  /\ \A x \in Bans : ban[x].blog \in Blogs /\ {ban[x].user, ban[x].blogger} \subseteq users
Drawn == used \in [Table -> SUBSET Nat] /\ \A t \in Table : used[t] \subseteq Id(t)
Data == Tables /\ Orphanless /\ Drawn

(* The walk: only an idle one has page 0, and it sorts by a column its list *)
(* has.                                                                     *)
Walk ==
  [pc : {"idle", "check", "page", "count"}, list : List,
   by : {"createdAt", "name", "title", "blogName", "login"},
   asc : BOOLEAN, n : Nat, items : SUBSET Nat]
Walking == walk.pc # "idle" => walk.n \in Nat \ {0} /\ walk.by \in SortBy(walk.list)
Resting == walk.pc = "idle" => walk = Idle

(* The inductive invariant. *)
IInv == rows \in Bounds /\ Data /\ walk \in Walk /\ Walking /\ Resting

-----------------------------------------------------------------------------
(* The bounds are natural numbers. *)
LEMMA RowsFacts ==
  ASSUME rows \in Bounds
  PROVE  /\ \A t \in Table \cup {"name"} : rows[t] \in Nat /\ rows[t] <= MaxRows
         /\ \A t \in Table : Id(t) \subseteq 1 .. MaxRows
<1>1. \A t \in Table \cup {"name"} : rows[t] \in 0 .. MaxRows
  BY BoundsAssumption
<1> QED BY <1>1, BoundsAssumption DEF Id

(* What a list shows are rows of one table, numbered from 1. *)
LEMMA ShownRows ==
  ASSUME rows \in Bounds, Data, NEW l \in List
  PROVE  Shown(l) \subseteq 1 .. MaxRows
<1>1. users \cup Blogs \cup Posts \cup Comments \cup Bans \subseteq 1 .. MaxRows
  BY RowsFacts DEF Data, Tables, Table
<1>2. l[1] \in {"blogs", "saBlogs", "bloggerBlogs", "posts", "postsOfBlog", "comments",
                "bloggerComments", "users", "bannedUsers"}
  BY DEF List
<1> QED
  BY <1>1, <1>2 DEF Shown, FindBlogs, FindBlogsForSuperAdmin, FindBlogsForBlogger, FindPosts,
     FindComments, AllCommentsOfBlogger, FindUsers, BannedUsersForBlog

(* Each column a list is sorted by is one of its rows. *)
LEMMA KeysTyped ==
  ASSUME rows \in Bounds, Data, NEW l \in List, NEW by \in SortBy(l), NEW asc \in BOOLEAN
  PROVE  Keys(l, by, asc) \in [Shown(l) -> Int]
<1>1. SUFFICES ASSUME NEW x \in Shown(l) PROVE SortKey(by, x) \in Int
  BY DEF Keys
<1>2. x \in Int
  BY <1>1, ShownRows, BoundsAssumption
<1>3. CASE l[1] \in {"blogs", "saBlogs", "bloggerBlogs"}
  <2>1. x \in Blogs /\ by \in {"createdAt", "name"}
    BY <1>1, <1>3 DEF SortBy, Shown, FindBlogs, FindBlogsForSuperAdmin, FindBlogsForBlogger
  <2>2. blog[x].name \in Int
    BY <2>1, RowsFacts DEF Data, Tables, BlogRow, Name
  <2> QED BY <1>2, <2>1, <2>2 DEF SortKey
<1>4. CASE l[1] \in {"posts", "postsOfBlog"}
  <2>1. x \in Posts /\ by \in {"createdAt", "title", "blogName"}
    BY <1>1, <1>4 DEF SortBy, Shown, FindPosts
  <2>2. post[x].title \in Int
    BY <2>1, RowsFacts DEF Data, Tables, PostRow, Name
  <2>3. post[x].blog \in Blogs
    BY <2>1 DEF Data, Orphanless
  <2>4. blog[post[x].blog].name \in Int
    BY <2>3, RowsFacts DEF Data, Tables, BlogRow, Name
  <2> QED BY <1>2, <2>1, <2>2, <2>4 DEF SortKey
<1>5. CASE l[1] = "bannedUsers"
  <2>1. x \in Bans /\ by \in {"createdAt", "login"}
    BY <1>1, <1>5 DEF SortBy, Shown, BannedUsersForBlog
  <2>2. ban[x].user \in Int
    BY <2>1, RowsFacts DEF Data, Tables, BanRow, Id, Table
  <2> QED BY <1>2, <2>1, <2>2 DEF SortKey
<1>6. CASE l[1] \notin {"blogs", "saBlogs", "bloggerBlogs", "posts", "postsOfBlog", "bannedUsers"}
  <2>1. by = "createdAt"
    BY <1>6 DEF SortBy
  <2> QED BY <1>2, <2>1 DEF SortKey
<1> QED BY <1>3, <1>4, <1>5, <1>6

(* An order is of the rows shown, so a page has only these. *)
LEMMA PageShown ==
  ASSUME NEW l, NEW by, NEW asc, NEW o \in Ordered(Keys(l, by, asc)), NEW n
  PROVE  PageOf(o, n) \subseteq Shown(l)
<1>1. DOMAIN Keys(l, by, asc) = Shown(l)
  BY DEF Keys
<1>2. o \in [1 .. Cardinality(Shown(l)) -> Shown(l)]
  BY <1>1 DEF Ordered, SetToSeqs
<1> QED BY <1>2 DEF PageOf

-----------------------------------------------------------------------------
(* Drawing an id. *)
LEMMA NewId ==
  ASSUME rows \in Bounds, Drawn, NEW t \in Table, NEW id, New(t, id), UNCHANGED rows
  PROVE  Drawn' /\ id \in Id(t)
<1>1. id \in Id(t) /\ Id(t) \subseteq Nat
  BY RowsFacts, BoundsAssumption DEF New
<1>2. used' = [used EXCEPT ![t] = @ \cup {id}] /\ \A s : Id(s)' = Id(s)
  BY DEF New, Id
<1> QED BY <1>1, <1>2 DEF Drawn

(* A new row, whose references exist, leaves no orphan. *)
LEMMA CreateData ==
  ASSUME rows \in Bounds, Data, UNCHANGED rows
  PROVE  /\ \A u : Register(u) => Data'
         /\ \A b, name : \A u \in users : name \in Name /\ CreateBlog(b, u, name) => Data'
         /\ \A p, title : \A b \in Blogs : title \in Name /\ CreatePost(p, b, title) => Data'
         /\ \A c : \A p \in Posts, u \in users : CreateComment(c, p, u) => Data'
         /\ \A x : \A b \in Blogs, u \in users : BloggerBan(x, u, b) => Data'
<1>1. \A s : Id(s)' = Id(s)
  BY DEF Id
<1>2. Name' = Name /\ BlogRow' = BlogRow /\ PostRow' = PostRow
      /\ CommentRow' = CommentRow /\ BanRow' = BanRow
  BY <1>1 DEF Name, BlogRow, PostRow, CommentRow, BanRow
<1>3. ASSUME NEW u, Register(u) PROVE Data'
  <2>1. Drawn' /\ u \in Id("user")
    BY <1>3, NewId DEF Register, Data, Table
  <2>2. users' = users \cup {u} /\ UNCHANGED <<banned, blog, post, comment, ban>>
    BY <1>3 DEF Register
  <2>3. Tables'
    BY <1>1, <1>2, <2>1, <2>2 DEF Data, Tables, Blogs, Posts, Comments, Bans
  <2>4. Orphanless'
    BY <2>2 DEF Data, Orphanless, Blogs, Posts, Comments, Bans
  <2> QED BY <2>1, <2>3, <2>4 DEF Data
<1>4. ASSUME NEW b, NEW name \in Name, NEW u \in users, CreateBlog(b, u, name) PROVE Data'
  <2>1. Drawn' /\ b \in Id("blog")
    BY <1>4, NewId DEF CreateBlog, Data, Table
  <2> DEFINE row == [owner |-> u, isBanned |-> FALSE, name |-> name]
  <2>2. /\ blog' = [i \in Blogs \cup {b} |-> IF i = b THEN row ELSE blog[i]]
        /\ UNCHANGED <<users, banned, post, comment, ban>>
    BY <1>4 DEF CreateBlog, Put, Blogs
  <2>3. row \in BlogRow /\ row.owner = u
    BY DEF Data, Tables, BlogRow
  <2> HIDE DEF row
  <2>4. Blogs' = Blogs \cup {b} /\ Posts' = Posts /\ Comments' = Comments /\ Bans' = Bans
    BY <2>2 DEF Blogs, Posts, Comments, Bans
  <2>5. Tables'
    BY <1>1, <1>2, <2>1, <2>2, <2>3, <2>4 DEF Data, Tables
  <2>6. Orphanless'
    BY <2>2, <2>3, <2>4 DEF Data, Orphanless
  <2> QED BY <2>1, <2>5, <2>6 DEF Data
<1>5. ASSUME NEW p, NEW title \in Name, NEW b \in Blogs, CreatePost(p, b, title) PROVE Data'
  <2>1. Drawn' /\ p \in Id("post")
    BY <1>5, NewId DEF CreatePost, Data, Table
  <2> DEFINE row == [blog |-> b, title |-> title]
  <2>2. /\ post' = [i \in Posts \cup {p} |-> IF i = p THEN row ELSE post[i]]
        /\ UNCHANGED <<users, banned, blog, comment, ban>>
    BY <1>5 DEF CreatePost, Put, Posts
  <2>3. row \in PostRow /\ row.blog = b
    BY DEF Data, Tables, PostRow
  <2> HIDE DEF row
  <2>4. Blogs' = Blogs /\ Posts' = Posts \cup {p} /\ Comments' = Comments /\ Bans' = Bans
    BY <2>2 DEF Blogs, Posts, Comments, Bans
  <2>5. Tables'
    BY <1>1, <1>2, <2>1, <2>2, <2>3, <2>4 DEF Data, Tables
  <2>6. Orphanless'
    BY <2>2, <2>3, <2>4 DEF Data, Orphanless
  <2> QED BY <2>1, <2>5, <2>6 DEF Data
<1>6. ASSUME NEW c, NEW p \in Posts, NEW u \in users, CreateComment(c, p, u) PROVE Data'
  <2>1. Drawn' /\ c \in Id("comment")
    BY <1>6, NewId DEF CreateComment, Data, Table
  <2> DEFINE row == [post |-> p, user |-> u]
  <2>2. /\ comment' = [i \in Comments \cup {c} |-> IF i = c THEN row ELSE comment[i]]
        /\ UNCHANGED <<users, banned, blog, post, ban>>
    BY <1>6 DEF CreateComment, Put, Comments
  <2>3. row \in CommentRow /\ row.post = p /\ row.user = u
    BY DEF Data, Tables, CommentRow
  <2> HIDE DEF row
  <2>4. Blogs' = Blogs /\ Posts' = Posts /\ Comments' = Comments \cup {c} /\ Bans' = Bans
    BY <2>2 DEF Blogs, Posts, Comments, Bans
  <2>5. Tables'
    BY <1>1, <1>2, <2>1, <2>2, <2>3, <2>4 DEF Data, Tables
  <2>6. Orphanless'
    BY <2>2, <2>3, <2>4 DEF Data, Orphanless
  <2> QED BY <2>1, <2>5, <2>6 DEF Data
<1>7. ASSUME NEW x, NEW b \in Blogs, NEW u \in users, BloggerBan(x, u, b) PROVE Data'
  <2>1. Drawn' /\ x \in Id("ban")
    BY <1>7, NewId DEF BloggerBan, Data, Table
  <2> DEFINE row == [user |-> u, blog |-> b, blogger |-> blog[b].owner]
  <2>2. /\ ban' = [i \in Bans \cup {x} |-> IF i = x THEN row ELSE ban[i]]
        /\ UNCHANGED <<users, banned, blog, post, comment>>
    BY <1>7 DEF BloggerBan, Put, Bans
  <2>3. row \in BanRow /\ row.user = u /\ row.blog = b /\ row.blogger \in users
    BY DEF Data, Tables, Orphanless, BanRow
  <2> HIDE DEF row
  <2>4. Blogs' = Blogs /\ Posts' = Posts /\ Comments' = Comments /\ Bans' = Bans \cup {x}
    BY <2>2 DEF Blogs, Posts, Comments, Bans
  <2>5. Tables'
    BY <1>1, <1>2, <2>1, <2>2, <2>3, <2>4 DEF Data, Tables
  <2>6. Orphanless'
    BY <2>2, <2>3, <2>4 DEF Data, Orphanless
  <2> QED BY <2>1, <2>5, <2>6 DEF Data
<1> QED BY <1>3, <1>4, <1>5, <1>6, <1>7

(* A deletion takes along what refers to the rows deleted. *)
LEMMA KeepData ==
  ASSUME rows \in Bounds, Data, UNCHANGED rows,
         NEW Us \in SUBSET users, NEW Bs \in SUBSET Blogs, NEW Ps \in SUBSET Posts,
         NEW Cs \in SUBSET Comments, NEW Xs \in SUBSET Bans, Keep(Us, Bs, Ps, Cs, Xs)
  PROVE  Data'
<1> DEFINE B == {b \in Bs : blog[b].owner \in Us}
           P == {p \in Ps : post[p].blog \in B}
           C == {c \in Cs : comment[c].post \in P /\ comment[c].user \in Us}
           X == {x \in Xs : ban[x].blog \in B /\ {ban[x].user, ban[x].blogger} \subseteq Us}
<1>1. /\ users' = Us /\ banned' = banned \cap Us /\ used' = used
      /\ blog' = [i \in B |-> blog[i]] /\ post' = [i \in P |-> post[i]]
      /\ comment' = [i \in C |-> comment[i]] /\ ban' = [i \in X |-> ban[i]]
  BY DEF Keep, Restrict
<1>2. Blogs' = B /\ Posts' = P /\ Comments' = C /\ Bans' = X
  BY <1>1 DEF Blogs, Posts, Comments, Bans
<1>3. /\ \A s : Id(s)' = Id(s)
      /\ BlogRow' = BlogRow /\ PostRow' = PostRow /\ CommentRow' = CommentRow /\ BanRow' = BanRow
  BY DEF Id, Name, BlogRow, PostRow, CommentRow, BanRow
<1>4. Tables'
  BY <1>1, <1>2, <1>3 DEF Data, Tables
<1>5. Orphanless'
  BY <1>1, <1>2 DEF Data, Orphanless
<1>6. Drawn'
  BY <1>1, <1>3 DEF Data, Drawn
<1> QED BY <1>4, <1>5, <1>6 DEF Data

(* Whatever is written, no row points to one that is gone. *)
LEMMA WriteData ==
  ASSUME rows \in Bounds, Data, Write, UNCHANGED rows
  PROVE  Data'
<1>1. /\ \A s : Id(s)' = Id(s)
      /\ Name' = Name /\ BlogRow' = BlogRow /\ PostRow' = PostRow
      /\ CommentRow' = CommentRow /\ BanRow' = BanRow
  BY DEF Id, Name, BlogRow, PostRow, CommentRow, BanRow
<1>2. ASSUME NEW b \in Blogs, NEW row \in BlogRow, row.owner = blog[b].owner,
             blog' = [blog EXCEPT ![b] = row],
             UNCHANGED <<users, banned, post, comment, ban, used>>
      PROVE  Data'
  <2>1. Blogs' = Blogs /\ Posts' = Posts /\ Comments' = Comments /\ Bans' = Bans
    BY <1>2 DEF Data, Tables, Blogs, Posts, Comments, Bans
  <2>2. Tables'
    BY <1>1, <1>2, <2>1 DEF Data, Tables
  <2>3. Orphanless'
    BY <1>2, <2>1 DEF Data, Orphanless, Tables
  <2> QED BY <1>1, <1>2, <2>2, <2>3 DEF Data, Drawn
<1>3. ASSUME NEW b \in Blogs, NEW name \in Name, UpdateBlog(b, name) PROVE Data'
  <2> DEFINE row == [blog[b] EXCEPT !.name = name]
  <2>1. row \in BlogRow /\ row.owner = blog[b].owner
    BY DEF Data, Tables, BlogRow
  <2>2. blog' = [blog EXCEPT ![b] = row] /\ UNCHANGED <<users, banned, post, comment, ban, used>>
    BY <1>3 DEF UpdateBlog
  <2> QED BY <1>2, <2>1, <2>2
<1>4. ASSUME NEW b \in Blogs, BanBlog(b) PROVE Data'
  <2> DEFINE row == [blog[b] EXCEPT !.isBanned = ~@]
  <2>1. row \in BlogRow /\ row.owner = blog[b].owner
    BY DEF Data, Tables, BlogRow
  <2>2. blog' = [blog EXCEPT ![b] = row] /\ UNCHANGED <<users, banned, post, comment, ban, used>>
    BY <1>4 DEF BanBlog
  <2> QED BY <1>2, <2>1, <2>2
<1>5. ASSUME NEW p \in Posts, NEW title \in Name, UpdatePost(p, title) PROVE Data'
  <2> DEFINE row == [post[p] EXCEPT !.title = title]
  <2>1. row \in PostRow /\ row.blog = post[p].blog
    BY DEF Data, Tables, PostRow
  <2>2. post' = [post EXCEPT ![p] = row] /\ UNCHANGED <<users, banned, blog, comment, ban, used>>
    BY <1>5 DEF UpdatePost
  <2> HIDE DEF row
  <2>3. Blogs' = Blogs /\ Posts' = Posts /\ Comments' = Comments /\ Bans' = Bans
    BY <2>2 DEF Data, Tables, Blogs, Posts, Comments, Bans
  <2>4. Tables'
    BY <1>1, <2>1, <2>2, <2>3 DEF Data, Tables
  <2>5. Orphanless'
    BY <2>1, <2>2, <2>3 DEF Data, Orphanless, Tables
  <2> QED BY <1>1, <2>2, <2>4, <2>5 DEF Data, Drawn
<1>6. ASSUME NEW u \in users, AdminBan(u) PROVE Data'
  <2>1. banned' \subseteq users' /\ UNCHANGED <<users, blog, post, comment, ban, used>>
    BY <1>6 DEF AdminBan, Data, Tables
  <2>2. Blogs' = Blogs /\ Posts' = Posts /\ Comments' = Comments /\ Bans' = Bans
    BY <2>1 DEF Blogs, Posts, Comments, Bans
  <2>3. Tables'
    BY <1>1, <2>1, <2>2 DEF Data, Tables
  <2> QED BY <1>1, <2>1, <2>2, <2>3 DEF Data, Orphanless, Drawn
<1>7. Delete => Data'
  BY KeepData DEF Delete
<1> QED
  BY <1>3, <1>4, <1>5, <1>6, <1>7, CreateData DEF Write

(* Empty tables and no walk. *)
LEMMA Initially == Init => IInv
<1> SUFFICES ASSUME Init PROVE IInv
  OBVIOUS
<1>1. users = {} /\ banned = {} /\ Blogs = {} /\ Posts = {} /\ Comments = {} /\ Bans = {}
      /\ blog = << >> /\ post = << >> /\ comment = << >> /\ ban = << >>
  BY DEF Init, Blogs, Posts, Comments, Bans
<1>2. Tables /\ Orphanless
  BY <1>1 DEF Tables, Orphanless
<1>3. Drawn
  BY RowsFacts DEF Init, Drawn
<1>4. rows \in Bounds /\ walk = Idle /\ walk.pc = "idle"
  BY DEF Init, Idle
<1>5. Idle \in Walk
  BY DEF Idle, Walk, List
<1> QED BY <1>2, <1>3, <1>4, <1>5 DEF IInv, Data, Walking, Resting

(* Every query and every write keeps the tables whole and the walk typed. *)
LEMMA Preserved == IInv /\ [Next]_vars => IInv'
<1> SUFFICES ASSUME IInv, [Next]_vars PROVE IInv'
  OBVIOUS
<1> USE DEF IInv
<1>1. CASE UNCHANGED vars
  <2>1. UNCHANGED <<users, banned, blog, post, comment, ban, rows, used, walk>>
    BY <1>1 DEF vars
  <2>2. List' = List /\ Walk' = Walk
    BY <2>1 DEF List, Term, Login, Name, Id, Walk
  <2>3. Data'
    BY <2>1 DEF Data, Tables, Orphanless, Drawn, Blogs, Posts, Comments, Bans,
       Id, Name, BlogRow, PostRow, CommentRow, BanRow
  <2> QED BY <2>1, <2>2, <2>3 DEF Walking, Resting
<1>2. ASSUME Step, rows' = rows PROVE IInv'
  <2>1. List' = List /\ Walk' = Walk
    BY <1>2 DEF List, Term, Login, Name, Id, Walk
  <2>2. ASSUME UNCHANGED tables PROVE Data'
    <3>1. UNCHANGED <<users, banned, blog, post, comment, ban, used, rows>>
      BY <1>2, <2>2 DEF tables
    <3> QED
      BY <3>1 DEF Data, Tables, Orphanless, Drawn, Blogs, Posts, Comments, Bans,
         Id, Name, BlogRow, PostRow, CommentRow, BanRow
  <2>3. Idle \in Walk /\ Idle.pc = "idle"
    BY DEF Idle, Walk, List
  <2>4. ASSUME walk' = Idle PROVE walk' \in Walk' /\ Walking' /\ Resting'
    BY <2>1, <2>3, <2>4 DEF Walking, Resting, Idle
  <2>5. ASSUME NEW l \in List, NEW by \in SortBy(l), NEW asc \in BOOLEAN, StartWalk(l, by, asc)
        PROVE  IInv'
    <3>1. walk' \in Walk
      BY <2>5 DEF StartWalk, Walk, SortBy
    <3>2. Walking' /\ Resting'
      BY <2>5 DEF StartWalk, Walking, Resting
    <3>3. Data'
      BY <2>2, <2>5 DEF StartWalk
    <3> QED BY <1>2, <2>1, <3>1, <3>2, <3>3
  <2>6. ASSUME Check PROVE IInv'
    <3>1. Data'
      BY <2>2, <2>6 DEF Check
    <3>2. CASE walk' = Idle
      BY <1>2, <2>4, <3>1, <3>2
    <3>3. CASE walk' = [walk EXCEPT !.pc = "page"]
      <4>1. walk' \in Walk /\ walk'.pc = "page" /\ walk'.n = walk.n /\ walk'.by = walk.by
            /\ walk'.list = walk.list
        BY <3>3 DEF Walk
      <4>2. Walking' /\ Resting'
        BY <2>6, <4>1 DEF Check, Walking, Resting
      <4> QED BY <1>2, <2>1, <3>1, <4>1, <4>2
    <3> QED BY <2>6, <3>2, <3>3 DEF Check
  <2>7. ASSUME ReadPage PROVE IInv'
    <3>1. PICK o \in Ordered(Keys(walk.list, walk.by, walk.asc)) :
               walk' = [walk EXCEPT !.pc = "count", !.items = PageOf(o, walk.n)]
      BY <2>7 DEF ReadPage
    <3>2. walk.list \in List
      BY DEF Walk
    <3>3. PageOf(o, walk.n) \subseteq Nat
      BY <3>2, PageShown, ShownRows, BoundsAssumption
    <3>4. walk' \in Walk /\ walk'.pc = "count" /\ walk'.n = walk.n /\ walk'.by = walk.by
          /\ walk'.list = walk.list
      BY <3>1, <3>3 DEF Walk
    <3>5. Walking' /\ Resting'
      BY <2>7, <3>4 DEF ReadPage, Walking, Resting
    <3>6. Data'
      BY <2>2, <2>7 DEF ReadPage
    <3> QED BY <1>2, <2>1, <3>4, <3>5, <3>6
  <2>8. ASSUME CountRows PROVE IInv'
    <3>1. Data'
      BY <2>2, <2>8 DEF CountRows
    <3>2. CASE walk' = Idle
      BY <1>2, <2>4, <3>1, <3>2
    <3>3. CASE walk' = [walk EXCEPT !.pc = "check", !.n = @ + 1, !.items = {}]
      <4>0. walk.n + 1 \in Nat /\ walk.n + 1 # 0
        BY DEF Walk
      <4> DEFINE m == walk.n + 1
      <4> HIDE DEF m
      <4>1. walk' = [walk EXCEPT !.pc = "check", !.n = m, !.items = {}] /\ m \in Nat \ {0}
        BY <3>3, <4>0 DEF m
      <4>2. walk' \in Walk /\ walk'.pc = "check" /\ walk'.n = m /\ walk'.by = walk.by
            /\ walk'.list = walk.list
        BY <4>1 DEF Walk
      <4>3. Walking' /\ Resting'
        BY <2>8, <4>1, <4>2 DEF CountRows, Walking, Resting
      <4> QED BY <1>2, <2>1, <3>1, <4>2, <4>3
    <3> QED BY <2>8, <3>2, <3>3 DEF CountRows
  <2>9. ASSUME Write PROVE IInv'
    <3>1. Data' /\ walk' = walk
      BY <1>2, <2>9, WriteData DEF Write
    <3> QED BY <1>2, <2>1, <3>1 DEF Walking, Resting
  <2> QED BY <1>2, <2>5, <2>6, <2>7, <2>8, <2>9 DEF Step
<1> QED BY <1>1, <1>2 DEF Next

(* The inductive invariant: whatever the handlers write, and wherever a walk *)
(* is, no row of a table refers to one that was deleted.                     *)
THEOREM Invariance == Spec => []IInv
BY Initially, Preserved, PTL DEF Spec

(* The tables and the walk have their types. *)
THEOREM TypeCorrect == Spec => []TypeOK
<1>1. IInv => TypeOK
  BY DEF IInv, Data, Tables, Orphanless, Drawn, Walk, TypeOK
<1> QED BY <1>1, Invariance, PTL

(* What a blogger sees of the comments under his posts is public unless he  *)
(* is banned himself, and a public post is of a public blog: the filters of *)
(* the lists agree, because no row they look up is gone.                    *)
THEOREM FiltersAgree == Spec => []ListsAgree
<1>1. ASSUME Data, NEW u \in users \ banned, NEW c \in AllCommentsOfBlogger(u) PROVE Public(c)
  <2>1. c \in Comments /\ comment[c].post \in Posts /\ BloggerCommentFilter(c, u)
    BY <1>1 DEF AllCommentsOfBlogger, Data, Orphanless
  <2>2. BlogOf(c) \in Blogs
    BY <1>1, <2>1 DEF BlogOf, Data, Orphanless
  <2>3. comment[c].post \in FindPosts(Blogs)
    BY <2>1, <2>2 DEF FindPosts, PostFilter, BloggerCommentFilter, BlogOf
  <2>4. c \in FindComments(comment[c].post)
    BY <2>1 DEF FindComments, CommentFilter, BloggerCommentFilter
  <2> QED BY <2>3, <2>4 DEF Public
<1>2. ASSUME Data, NEW p \in FindPosts(Blogs) PROVE post[p].blog \in FindBlogs(0)
  BY <1>2 DEF FindPosts, PostFilter, FindBlogs, BlogFilter, Matches
<1>3. IInv => ListsAgree
  BY <1>1, <1>2 DEF IInv, ListsAgree
<1> QED BY <1>3, Invariance, PTL

-----------------------------------------------------------------------------
(* Lists implements Paging's walk.                                           *)

(* What Paging calls shown and walk. *)
View == IF walk = Idle THEN << >> ELSE Keys(walk.list, walk.by, walk.asc)
Request == [pc |-> walk.pc, n |-> walk.n, items |-> walk.items]

(* The last page is the one that PagesCount says is. *)
LEMMA LastPageNumber ==
  ASSUME NEW n \in Nat \ {0}, NEW total \in Nat
  PROVE  n < PagesCount(total) <=> n * PageSize < total
<1>1. PageSize \in Nat /\ PageSize >= 1 /\ n * PageSize \in Nat
  BY PageAssumption
<1>2. CASE total = 0
  BY <1>1, <1>2 DEF PagesCount
<1>3. CASE total # 0
  <2> DEFINE a == total + PageSize - 1
             q == a \div PageSize
  <2>1. a \in Nat /\ PagesCount(total) = q
    BY <1>1, <1>3 DEF PagesCount
  <2>2. q \in Int /\ PageSize * q <= a /\ a < PageSize * (q + 1)
    BY <1>1, <2>1
  <2> HIDE DEF q
  <2>3. ASSUME n < q PROVE n * PageSize < total
    <3>1. PageSize * (n + 1) <= PageSize * q
      BY <1>1, <2>2, <2>3
    <3>2. PageSize * (n + 1) = n * PageSize + PageSize
      BY <1>1
    <3> QED BY <1>1, <2>1, <2>2, <3>1, <3>2
  <2>4. ASSUME ~ n < q PROVE ~ n * PageSize < total
    <3>1. PageSize * (q + 1) <= PageSize * (n + 1)
      BY <1>1, <2>2, <2>4
    <3>2. PageSize * (n + 1) = n * PageSize + PageSize
      BY <1>1
    <3> QED BY <1>1, <2>1, <2>2, <3>1, <3>2
  <2> QED BY <2>1, <2>3, <2>4
<1> QED BY <1>2, <1>3

(* The rows that must come before a row. *)
Before(S, keys, x) == {y \in S : keys[y] < keys[x]}

(* The first k rows of an order are k rows, and no row comes before one of  *)
(* them that is not one of them.                                            *)
LEMMA FirstRows ==
  ASSUME NEW S, IsFiniteSet(S), NEW keys \in [S -> Int], NEW o \in Ordered(keys),
         NEW k \in 0 .. Cardinality(S)
  PROVE  /\ Cardinality({o[i] : i \in 1 .. k}) = k
         /\ \A x \in {o[i] : i \in 1 .. k} :
              Before(S, keys, x) \subseteq {o[i] : i \in 1 .. k}
<1> DEFINE N == Cardinality(S)
           A == {o[i] : i \in 1 .. k}
<1>1. N \in Nat
  BY FS_CardinalityType
<1>2. /\ o \in [1 .. N -> S]
      /\ \A i, j \in 1 .. N : i # j => o[i] # o[j]
      /\ \A i, j \in 1 .. N : i < j => keys[o[i]] <= keys[o[j]]
  BY DEF Ordered, SetToSeqs
<1>3. IsFiniteSet(1 .. N) /\ Cardinality(1 .. N) = N /\ IsFiniteSet(1 .. k) /\ Cardinality(1 .. k) = k
  <2>1. \A m \in Nat : IsFiniteSet(1 .. m) /\ Cardinality(1 .. m) = m
    BY FS_Interval
  <2> QED BY <1>1, <2>1
<1>4. \A y \in S : \E j \in 1 .. N : o[j] = y
  <2>1. o \in Injection(1 .. N, S)
    BY <1>2 DEF Injection, IsInjective
  <2>2. o \in Surjection(1 .. N, S)
    BY <1>3, <2>1, FS_Injection
  <2> QED BY <2>2 DEF Surjection
<1>5. Cardinality(A) = k
  <2> DEFINE f == [i \in 1 .. k |-> o[i]]
  <2>1. f \in [1 .. k -> A] /\ \A i \in 1 .. k : f[i] = o[i]
    OBVIOUS
  <2>2. \A i, j \in 1 .. k : f[i] = f[j] => i = j
    BY <1>1, <1>2
  <2>3. \A x \in A : \E i \in 1 .. k : f[i] = x
    OBVIOUS
  <2> HIDE DEF f
  <2>4. f \in Bijection(1 .. k, A)
    BY <2>1, <2>2, <2>3 DEF Bijection, Injection, Surjection, IsInjective
  <2> QED BY <1>3, <2>4, FS_Bijection DEF ExistsBijection
<1>6. ASSUME NEW x \in A, NEW y \in Before(S, keys, x) PROVE y \in A
  <2>1. PICK i \in 1 .. k : x = o[i]
    OBVIOUS
  <2>2. y \in S /\ keys[y] < keys[x]
    BY DEF Before
  <2>3. PICK j \in 1 .. N : y = o[j]
    BY <1>4, <2>2
  <2>4. i \in 1 .. N /\ keys[o[i]] \in Int /\ keys[o[j]] \in Int
    BY <1>1, <1>2, <2>3
  <2>5. ~ i < j /\ i # j
    BY <1>2, <2>1, <2>2, <2>3, <2>4
  <2>6. j \in 1 .. k
    BY <1>1, <2>4, <2>5
  <2> QED BY <2>3, <2>6
<1> QED BY <1>5, <1>6

(* Paging counts as this module does. *)
LEMMA Counting == \A S : W!Cardinality(S) = Cardinality(S)
BY DEF W!Cardinality, W!IsFiniteSet, Cardinality, IsFiniteSet

(* I is a page of the rows S in some order of their keys, as Paging has it. *)
Paged(S, keys, I, n) ==
  /\ I \subseteq S
  /\ \E A \in SUBSET (S \ I) :
       /\ Cardinality(A) = W!AtMost((n - 1) * PageSize, S)
       /\ Cardinality(A \cup I) = W!AtMost(n * PageSize, S)
       /\ \A x \in A : Before(S, keys, x) \subseteq A
       /\ \A x \in A \cup I : Before(S, keys, x) \subseteq A \cup I

(* A page read with skip and take in any order is a page as Paging has it:  *)
(* what skip passes over, and that with the page, are the first rows.       *)
LEMMA PageIsPage ==
  ASSUME NEW S, IsFiniteSet(S), NEW keys \in [S -> Int], NEW o \in Ordered(keys),
         NEW n \in Nat \ {0}
  PROVE  Paged(S, keys, PageOf(o, n), n)
<1> DEFINE N == Cardinality(S)
           skip == (n - 1) * PageSize
           upto == n * PageSize
           a == W!AtMost(skip, S)
           b == W!AtMost(upto, S)
           A == {o[i] : i \in 1 .. a}
           B == {o[i] : i \in 1 .. b}
           I == {o[i] : i \in 1 .. N \cap (skip + 1) .. upto}
<1>1. N \in Nat
  BY FS_CardinalityType
<1>2. skip \in Nat /\ upto \in Nat /\ skip <= upto
  BY PageAssumption
<1>3. o \in [1 .. N -> S] /\ \A i, j \in 1 .. N : i # j => o[i] # o[j]
  BY DEF Ordered, SetToSeqs
<1>4. PageOf(o, n) = I
  BY <1>3 DEF PageOf
<1> HIDE DEF skip, upto, N
<1>5. /\ a \in 0 .. N /\ b \in 0 .. N
      /\ a = IF N < skip THEN N ELSE skip
      /\ b = IF N < upto THEN N ELSE upto
  BY <1>1, <1>2, Counting DEF W!AtMost, N
<1> HIDE DEF a, b
<1>6. A \cup I = B
  BY <1>1, <1>2, <1>5
<1>7. A \in SUBSET (S \ I)
  BY <1>1, <1>2, <1>3, <1>5
<1>8. I \subseteq S
  BY <1>3
<1> DEFINE P(k) == {o[i] : i \in 1 .. k}
           Firsts(k) == /\ Cardinality(P(k)) = k
                        /\ \A x \in P(k) : Before(S, keys, x) \subseteq P(k)
<1>9. \A k \in 0 .. N : Firsts(k)
  BY FirstRows DEF N
<1>10. Firsts(a) /\ Firsts(b) /\ A = P(a) /\ B = P(b)
  <2> HIDE DEF Firsts
  <2> QED BY <1>5, <1>9
<1>11. Cardinality(A) = a /\ \A x \in A : Before(S, keys, x) \subseteq A
  BY <1>10
<1>12. Cardinality(B) = b /\ \A x \in B : Before(S, keys, x) \subseteq B
  BY <1>10
<1> HIDE DEF A, B, I
<1> QED BY <1>4, <1>6, <1>7, <1>8, <1>11, <1>12 DEF Paged, a, b, skip, upto

(* The rows a walk is about, with their keys. *)
ViewTyped ==
  /\ DOMAIN View \in SUBSET (1 .. MaxRows) /\ View \in [DOMAIN View -> Int]
  /\ walk # Idle => DOMAIN View = Shown(walk.list)
(* A list's rows have numbers, and keys that can be compared. *)
LEMMA ViewFacts == IInv => ViewTyped
<1> SUFFICES ASSUME IInv PROVE ViewTyped
  OBVIOUS
<1>1. CASE walk = Idle
  BY <1>1 DEF View, ViewTyped
<1>2. CASE walk # Idle
  <2>1. walk.list \in List /\ walk.by \in SortBy(walk.list) /\ walk.asc \in BOOLEAN
    BY <1>2 DEF IInv, Walk, Walking, Resting
  <2>2. Keys(walk.list, walk.by, walk.asc) \in [Shown(walk.list) -> Int]
    BY <2>1, KeysTyped DEF IInv
  <2>3. Shown(walk.list) \subseteq 1 .. MaxRows
    BY <2>1, ShownRows DEF IInv
  <2>4. View = Keys(walk.list, walk.by, walk.asc)
    BY <1>2 DEF View
  <2> QED BY <2>2, <2>3, <2>4 DEF ViewTyped
<1> QED BY <1>1, <1>2

(* Where the tables are left alone, every list shows what it showed. *)
LEMMA KeysKept ==
  ASSUME UNCHANGED tables, NEW l, NEW by, NEW asc
  PROVE  Keys(l, by, asc)' = Keys(l, by, asc) /\ Shown(l)' = Shown(l)
<1>1. /\ users' = users /\ banned' = banned /\ blog' = blog /\ post' = post
      /\ comment' = comment /\ ban' = ban
      /\ Blogs' = Blogs /\ Posts' = Posts /\ Comments' = Comments /\ Bans' = Bans
  BY DEF tables, Blogs, Posts, Comments, Bans
<1>2. /\ \A b, term : BlogFilter(b, term)' <=> BlogFilter(b, term)
      /\ \A p : PostFilter(p)' <=> PostFilter(p)
      /\ \A c : CommentFilter(c)' <=> CommentFilter(c)
      /\ \A c, u : BloggerCommentFilter(c, u)' <=> BloggerCommentFilter(c, u)
      /\ \A u, status, term : UserFilter(u, status, term)' <=> UserFilter(u, status, term)
  BY <1>1 DEF BlogFilter, PostFilter, CommentFilter, BloggerCommentFilter, UserFilter, BlogOf
<1>3. /\ \A term : FindBlogs(term)' = FindBlogs(term)
      /\ \A term : FindBlogsForSuperAdmin(term)' = FindBlogsForSuperAdmin(term)
      /\ \A u, term : FindBlogsForBlogger(u, term)' = FindBlogsForBlogger(u, term)
      /\ \A Bs : FindPosts(Bs)' = FindPosts(Bs)
      /\ \A p : FindComments(p)' = FindComments(p)
      /\ \A u : AllCommentsOfBlogger(u)' = AllCommentsOfBlogger(u)
      /\ \A status, term : FindUsers(status, term)' = FindUsers(status, term)
      /\ \A b, term : BannedUsersForBlog(b, term)' = BannedUsersForBlog(b, term)
  BY <1>1, <1>2 DEF FindBlogs, FindBlogsForSuperAdmin, FindBlogsForBlogger, FindPosts,
     FindComments, AllCommentsOfBlogger, FindUsers, BannedUsersForBlog
<1>4. Shown(l)' = Shown(l)
  BY <1>1, <1>3 DEF Shown
<1>5. \A x : SortKey(by, x)' = SortKey(by, x)
  BY <1>1 DEF SortKey
<1> QED BY <1>4, <1>5 DEF Keys

(* An answer, a lookup or a page leaves the rows of the walk alone. *)
LEMMA ViewKept ==
  ASSUME UNCHANGED tables, walk # Idle, walk' # Idle,
         walk'.list = walk.list, walk'.by = walk.by, walk'.asc = walk.asc
  PROVE  View' = View
<1>1. View = Keys(walk.list, walk.by, walk.asc)
  BY DEF View
<1>2. View' = Keys(walk.list, walk.by, walk.asc)'
  BY DEF View, Idle
<1>3. Keys(walk.list, walk.by, walk.asc)' = Keys(walk.list, walk.by, walk.asc)
  BY KeysKept
<1> QED BY <1>1, <1>2, <1>3

(* Where there is a walk again or still, its rows are some rows. *)
LEMMA Reordered == ViewTyped' => W!Reorder
BY DEF ViewTyped, View, W!Reorder

(* The request after its page was read. *)
LEMMA PageTaken ==
  ASSUME NEW q \in [pc : {"page"}, n : Nat, items : SUBSET Nat], NEW I \in SUBSET Nat
  PROVE  [q EXCEPT !.pc = "count", !.items = I] = [pc |-> "count", n |-> q.n, items |-> I]
<1> DEFINE h == [q EXCEPT !.pc = "count", !.items = I]
<1>1. /\ h.pc = "count" /\ h.n = q.n /\ h.items = I
      /\ h \in [pc : {"count"}, n : Nat, items : SUBSET Nat]
  OBVIOUS
<1> HIDE DEF h
<1>2. h = [pc |-> "count", n |-> q.n, items |-> I]
  BY <1>1
<1> QED BY <1>2 DEF h

(* Every step is one of Paging's walk, or leaves walk and rows alone. *)
LEMMA WalkStep ==
  ASSUME IInv, IInv', ViewTyped, ViewTyped', Next
  PROVE  W!WalkNext \/ UNCHANGED W!walkVars
<1>1. W!Idle = [pc |-> "idle", n |-> 0, items |-> {}] /\ walk \in Walk /\ walk' \in Walk'
      /\ Idle = [pc |-> "idle", list |-> <<"posts">>, by |-> "createdAt", asc |-> FALSE,
                 n |-> 0, items |-> {}]
  BY DEF IInv, W!Idle, Idle
<1>2. ASSUME walk' = Idle PROVE W!EndWalk
  BY <1>1, <1>2 DEF W!EndWalk, Idle
<1>3. ASSUME NEW l \in List, NEW by \in SortBy(l), NEW asc \in BOOLEAN, StartWalk(l, by, asc)
      PROVE  W!StartWalk
  <2>1. Request = W!Idle /\ Request' = [pc |-> "check", n |-> 1, items |-> {}]
    BY <1>1, <1>3 DEF StartWalk, Request
  <2> QED BY <2>1, Reordered DEF W!StartWalk, Request
<1>4. ASSUME Check PROVE W!Refuse \/ W!Accept
  <2>1. CASE walk' = Idle
    BY <1>2, <1>4, <2>1 DEF Check, W!Refuse
  <2>2. CASE walk' = [walk EXCEPT !.pc = "page"]
    <3>1. walk # Idle /\ walk' # Idle /\ walk'.list = walk.list /\ walk'.by = walk.by
          /\ walk'.asc = walk.asc /\ walk'.n = walk.n /\ walk'.items = walk.items
          /\ walk'.pc = "page" /\ walk.pc = "check"
      BY <1>1, <1>4, <2>2 DEF Check, Walk
    <3>2. View' = View
      BY <1>4, <3>1, ViewKept DEF Check
    <3> QED BY <3>1, <3>2 DEF W!Accept, View
  <2> QED BY <1>4, <2>1, <2>2 DEF Check
<1>5. ASSUME ReadPage PROVE \E I \in SUBSET W!Shown : W!ReadPage(I)
  <2>0. PICK o \in Ordered(Keys(walk.list, walk.by, walk.asc)) :
          \E I : I = PageOf(o, walk.n) /\ walk' = [walk EXCEPT !.pc = "count", !.items = I]
    BY <1>5 DEF ReadPage
  <2>1. PICK I : I = PageOf(o, walk.n) /\ walk' = [walk EXCEPT !.pc = "count", !.items = I]
    BY <2>0
  <2> DEFINE S == DOMAIN View
  <2> HIDE DEF S
  <2>2. walk # Idle /\ walk' # Idle /\ walk'.list = walk.list /\ walk'.by = walk.by
        /\ walk'.asc = walk.asc /\ walk'.n = walk.n /\ walk'.items = I
        /\ walk'.pc = "count" /\ walk.pc = "page"
    <3>1. walk.pc = "page" /\ walk' = [walk EXCEPT !.pc = "count", !.items = I]
      BY <1>5, <2>1 DEF ReadPage
    <3>2. walk.pc # Idle.pc /\ walk'.pc = "count" /\ walk'.pc # Idle.pc
      BY <1>1, <3>1 DEF Walk
    <3>3. walk'.list = walk.list /\ walk'.by = walk.by /\ walk'.asc = walk.asc /\ walk'.n = walk.n
      BY <1>1, <3>1 DEF Walk
    <3>4. walk'.items = I
      BY <1>1, <3>1 DEF Walk
    <3> QED BY <3>1, <3>2, <3>3, <3>4
  <2>3. View' = View
    BY <1>5, <2>2, ViewKept DEF ReadPage
  <2>4. Keys(walk.list, walk.by, walk.asc) = View
    BY <2>2 DEF View
  <2>5. S \in SUBSET (1 .. MaxRows) /\ IsFiniteSet(S) /\ View \in [S -> Int]
    <3>1. IsFiniteSet(1 .. MaxRows)
      BY FS_Interval, BoundsAssumption
    <3>2. S \in SUBSET (1 .. MaxRows) /\ View \in [S -> Int]
      BY DEF ViewTyped, S
    <3> QED BY <3>1, <3>2, FS_Subset
  <2>6. walk.n \in Nat \ {0} /\ o \in Ordered(View)
    BY <2>0, <2>2, <2>4 DEF IInv, Walking
  <2>7. Paged(S, View, I, walk.n)
    BY <2>1, <2>5, <2>6, PageIsPage
  <2>8. W!Shown = S /\ \A x : W!Before(x) = Before(S, View, x)
    BY DEF W!Shown, W!Before, View, S, Before
  <2>9. W!IsPage(I, walk.n) /\ I \subseteq W!Shown
    BY <2>7, <2>8, Counting DEF W!IsPage, W!Lower, Paged
  <2>10. W!ReadPage(I)
    <3>1. Request.pc = "page" /\ Request.n = walk.n
      BY <2>2 DEF Request
    <3>2. Request \in [pc : {"page"}, n : Nat, items : SUBSET Nat] /\ I \in SUBSET Nat
      BY <1>1, <2>2, <2>5, <2>7, BoundsAssumption DEF Request, Walk, Paged
    <3>3. [Request EXCEPT !.pc = "count", !.items = I] = [pc |-> "count", n |-> walk.n, items |-> I]
      BY <3>1, <3>2, PageTaken
    <3>4. Request' = [Request EXCEPT !.pc = "count", !.items = I]
      BY <2>2, <3>3 DEF Request
    <3>5. W!IsPage(I, Request.n)
      BY <2>9, <3>1
    <3> QED BY <2>3, <3>1, <3>4, <3>5 DEF W!ReadPage, Request, View
  <2> QED BY <2>9, <2>10
<1>6. ASSUME CountRows PROVE W!NextPage \/ W!LastPage
  <2> DEFINE total == Cardinality(Shown(walk.list))
  <2>1. walk # Idle /\ walk.pc = "count" /\ walk.n \in Nat \ {0}
    BY <1>1, <1>6 DEF CountRows, IInv, Walking
  <2>2. total \in Nat /\ W!Cardinality(W!Shown) = total
    <3>1. W!Shown = DOMAIN View
      BY DEF W!Shown, View
    <3>2. DOMAIN View = Shown(walk.list) /\ DOMAIN View \in SUBSET (1 .. MaxRows)
      BY <2>1, <1>1 DEF ViewTyped
    <3>3. IsFiniteSet(1 .. MaxRows)
      BY FS_Interval, BoundsAssumption
    <3>4. IsFiniteSet(DOMAIN View)
      BY <3>2, <3>3, FS_Subset
    <3>5. total \in Nat
      BY <3>2, <3>4, FS_CardinalityType
    <3> QED BY <3>1, <3>2, <3>5, Counting
  <2>3. W!More <=> walk.n < PagesCount(total)
    BY <2>1, <2>2, LastPageNumber DEF W!More
  <2>4. CASE walk.n < PagesCount(total)
    <3>1. walk' = [walk EXCEPT !.pc = "check", !.n = @ + 1, !.items = {}]
      BY <1>6, <2>4 DEF CountRows
    <3>2. walk' # Idle /\ walk'.list = walk.list /\ walk'.by = walk.by /\ walk'.asc = walk.asc
          /\ walk'.n = walk.n + 1 /\ walk'.items = {} /\ walk'.pc = "check"
      BY <1>1, <3>1 DEF Walk
    <3>3. View' = View
      BY <1>6, <2>1, <3>2, ViewKept DEF CountRows
    <3> QED BY <2>1, <2>3, <2>4, <3>2, <3>3 DEF W!NextPage, View
  <2>5. CASE ~ walk.n < PagesCount(total)
    BY <1>2, <1>6, <2>1, <2>3, <2>5 DEF CountRows, W!LastPage
  <2> QED BY <2>4, <2>5
<1>7. ASSUME Write PROVE W!Change \/ UNCHANGED W!walkVars
  <2>1. walk' = walk
    BY <1>7 DEF Write
  <2>2. CASE walk = Idle
    BY <2>1, <2>2 DEF W!walkVars
  <2>3. CASE walk # Idle
    <3>1. Request # W!Idle
      BY <1>1, <2>3 DEF Request, IInv, Resting
    <3> QED BY <2>1, <3>1, Reordered DEF W!Change, Request
  <2> QED BY <2>2, <2>3
<1> QED
  BY <1>3, <1>4, <1>5, <1>6, <1>7 DEF Next, Step, W!WalkNext

(* Every list is a walk as Paging has it, whatever is written between its   *)
(* queries, so PagingProofs' theorems hold of every list: a client who      *)
(* reads to the last page misses no row that was there all along, and reads *)
(* none twice.                                                              *)
THEOREM ListsAreWalks == Spec => Walks
<1>1. Init => W!WalkInit
  BY DEF Init, Idle, W!WalkInit, W!Idle
<1>2. IInv /\ IInv' /\ ViewTyped /\ ViewTyped' /\ [Next]_vars => [W!WalkNext]_(W!walkVars)
  <2> SUFFICES ASSUME IInv, IInv', ViewTyped, ViewTyped', [Next]_vars
               PROVE  W!WalkNext \/ UNCHANGED W!walkVars
    OBVIOUS
  <2>1. CASE Next
    BY <2>1, WalkStep
  <2>2. CASE UNCHANGED vars
    <3>1. walk' = walk /\ UNCHANGED tables
      BY <2>2 DEF vars, tables
    <3>2. View' = View
      BY <3>1, ViewKept DEF View
    <3> QED BY <3>1, <3>2 DEF W!walkVars, View
  <2> QED BY <2>1, <2>2
<1> QED BY <1>1, <1>2, Invariance, ViewFacts, PTL DEF Spec, Walks, W!WalkSpec

=============================================================================
