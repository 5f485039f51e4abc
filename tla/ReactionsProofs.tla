--------------------------- MODULE ReactionsProofs --------------------------
(* Proofs about Reactions, for any sets of users, posts, comments, rows and *)
(* requests.                                                                *)
EXTENDS Reactions, FiniteSetTheorems, TLAPS

Request == [pc : PC, user : User \cup {None}, target : Target \cup {None}, status : Status,
            item : Reaction \cup {None}, likes : Nat, dislikes : Nat, newest : SUBSET User]
(* The tables' part of the types; only finitely many rows were inserted. *)
Tables ==
  /\ users \subseteq User /\ banned \subseteq users
  /\ Targets \subseteq Target /\ target \in [Targets -> User]
  /\ blogBanned \in BOOLEAN
  /\ Rows \subseteq gone /\ gone \subseteq Reaction /\ IsFiniteSet(gone)
  /\ reaction \in [Rows -> Row]
  /\ asked \in [User -> [Target -> Status]]
Data == Tables /\ NoOrphans

(* A request that will write is of a user and a post or comment, and the    *)
(* row it found, if it still exists, is theirs.                             *)
Held(q) ==
  /\ q.pc \in {"user", "find", "create", "update", "answer"} => q.user \in User /\ q.target \in Target
  /\ q.pc = "update" =>
       /\ q.item \in gone
       /\ q.item \in Rows => reaction[q.item].user = q.user /\ reaction[q.item].target = q.target

(* The inductive invariant. *)
IInv ==
  /\ Data
  /\ req \in [Req -> Request] /\ \A r \in Req : Held(req[r])
  /\ raced \subseteq users \X Targets

(* No row id is drawn twice, and whose reaction a row is never changes. *)
Stable ==
  /\ gone \subseteq gone'
  /\ \A x \in gone \cap Rows' : /\ x \in Rows
                               /\ reaction'[x].user = reaction[x].user
                               /\ reaction'[x].target = reaction[x].target

-----------------------------------------------------------------------------
(* The cascades of a deletion leave no row of what was deleted, and all     *)
(* reactions of a user to a post or comment, or none.                       *)
LEMMA KeepData ==
  ASSUME Data, NEW Us \in SUBSET users, NEW Ts \in SUBSET Targets, Keep(Us, Ts),
         UNCHANGED <<blogBanned, gone, asked>>
  PROVE  Data' /\ Stable /\ Rows' \subseteq Rows
<1> DEFINE T == {t \in Ts : target[t] \in Us}
           X == {x \in Rows : reaction[x].user \in Us /\ reaction[x].target \in T}
<1>1. /\ users' = Us /\ banned' = banned \cap Us
      /\ target' = [t \in T |-> target[t]] /\ reaction' = [x \in X |-> reaction[x]]
  BY DEF Keep, Restrict
<1>2. Targets' = T /\ Rows' = X /\ \A x \in X : reaction'[x] = reaction[x]
  BY <1>1 DEF Targets, Rows
<1>3. Tables'
  BY <1>1, <1>2 DEF Data, Tables
<1>4. NoOrphans'
  BY <1>1, <1>2 DEF NoOrphans
<1>6. Stable /\ Rows' \subseteq Rows
  BY <1>2 DEF Stable
<1> QED
  BY <1>3, <1>4, <1>6 DEF Data

(* A step that writes no table keeps them all. *)
LEMMA SameData ==
  ASSUME Data, UNCHANGED tables
  PROVE  Data' /\ Stable /\ Rows' = Rows
BY DEF Data, Tables, NoOrphans, Stable, tables, Targets, Rows

(* The insert: its row is new, and of the request's user and target. *)
LEMMA CreateData ==
  ASSUME IInv, NEW r \in Req, NEW x \in Reaction, CreateReaction(r, x)
  PROVE  /\ Data' /\ Stable
         /\ req[r].pc = "create" /\ req[r].user \in users /\ req[r].target \in Targets
         /\ req' = [req EXCEPT ![r] = Next1(r, "answer")]
         /\ x \notin Rows /\ Rows' = Rows \cup {x} /\ \A y \in Rows : reaction'[y] = reaction[y]
         /\ reaction'[x].user = req[r].user /\ reaction'[x].target = req[r].target
         /\ reaction'[x].status = req[r].status /\ reaction'[x].at = Cardinality(gone)
         /\ gone' = gone \cup {x} /\ x \notin gone
<1> DEFINE q == req[r]
           row == [user |-> q.user, target |-> q.target, status |-> q.status, at |-> Cardinality(gone)]
<1>1. q \in Request /\ q.pc = "create" /\ q.user \in User /\ q.target \in Target
  BY DEF IInv, CreateReaction, Goto, Held
<1>2. row \in Row
  BY <1>1, FS_CardinalityType DEF Row, Request, IInv, Data, Tables
<1>3. /\ x \notin gone /\ x \notin Rows /\ Rows' = Rows \cup {x} /\ gone' = gone \cup {x}
      /\ reaction'[x] = row /\ \A y \in Rows : reaction'[y] = reaction[y]
      /\ reaction' \in [Rows' -> Row]
  BY <1>2 DEF CreateReaction, Rows, IInv, Data, Tables
<1>4. UNCHANGED <<users, banned, target, blogBanned, asked>> /\ q.user \in users /\ q.target \in Targets
  BY DEF CreateReaction
<1>5. IsFiniteSet(gone')
  BY <1>3, FS_AddElement DEF IInv, Data, Tables
<1>6. row.user = q.user /\ row.target = q.target /\ row.status = q.status /\ row.at = Cardinality(gone)
  OBVIOUS
<1> HIDE DEF row, q
<1>7. Targets' = Targets
  BY <1>4 DEF Targets
<1>8. Tables'
  BY <1>3, <1>4, <1>5, <1>7 DEF IInv, Data, Tables
<1>9. NoOrphans'
  BY <1>3, <1>4, <1>6, <1>7 DEF IInv, Data, NoOrphans
<1>10. Stable
  BY <1>3 DEF Stable, IInv, Data, Tables
<1> QED
  BY <1>1, <1>3, <1>4, <1>6, <1>8, <1>9, <1>10 DEF Data, CreateReaction, Goto, q

(* The update: the row keeps all but its status. *)
LEMMA UpdateReactionData ==
  ASSUME IInv, NEW r \in Req, UpdateReaction(r)
  PROVE  /\ Data' /\ Stable /\ Rows' = Rows
         /\ req[r].pc = "update" /\ req' = [req EXCEPT ![r] = Next1(r, "answer")]
         /\ req[r].item \in RowsOf(req[r].user, req[r].target)
         /\ \A y \in Rows : /\ reaction'[y].user = reaction[y].user
                            /\ reaction'[y].target = reaction[y].target
                            /\ reaction'[y].at = reaction[y].at
                            /\ reaction'[y].status = IF y = req[r].item THEN req[r].status ELSE reaction[y].status
<1> DEFINE q == req[r]
<1>1. /\ q \in Request /\ q.pc = "update"
      /\ q.item \in Rows /\ reaction[q.item].user = q.user /\ reaction[q.item].target = q.target
      /\ req' = [req EXCEPT ![r] = Next1(r, "answer")]
  BY DEF IInv, UpdateReaction, Goto, Held
<1>2. q.status \in Status
  BY <1>1 DEF Request
<1>3. /\ reaction' = [reaction EXCEPT ![q.item].status = q.status]
      /\ UNCHANGED <<users, banned, target, blogBanned, gone, asked>>
  BY DEF UpdateReaction
<1> HIDE DEF q
<1>4. /\ Rows' = Rows /\ Targets' = Targets /\ reaction' \in [Rows -> Row]
      /\ \A y \in Rows : /\ reaction'[y].user = reaction[y].user
                         /\ reaction'[y].target = reaction[y].target
                         /\ reaction'[y].at = reaction[y].at
                         /\ reaction'[y].status = IF y = q.item THEN q.status ELSE reaction[y].status
  BY <1>1, <1>2, <1>3 DEF IInv, Data, Tables, Rows, Targets, Row
<1>5. Tables'
  BY <1>3, <1>4 DEF IInv, Data, Tables
<1>6. NoOrphans'
  BY <1>3, <1>4 DEF IInv, Data, NoOrphans
<1>7. Stable
  BY <1>3, <1>4 DEF Stable
<1> QED
  BY <1>1, <1>4, <1>5, <1>6, <1>7 DEF Data, RowsOf, q

(* The answer: the status asked for becomes the one answered. *)
LEMMA AnswerData ==
  ASSUME IInv, NEW r \in Req, Answer(r)
  PROVE  /\ Data' /\ Stable /\ Rows' = Rows /\ reaction' = reaction
         /\ req[r].pc = "answer" /\ req' = [req EXCEPT ![r] = Idle]
         /\ req[r].user \in User /\ req[r].target \in Target
         /\ asked' = [asked EXCEPT ![req[r].user][req[r].target] = req[r].status]
<1>1. /\ req[r] \in Request /\ req[r].pc = "answer" /\ req[r].user \in User /\ req[r].target \in Target
      /\ UNCHANGED <<users, banned, target, blogBanned, reaction, gone>>
      /\ asked' = [asked EXCEPT ![req[r].user][req[r].target] = req[r].status]
  BY DEF IInv, Answer, Finish, Goto, Held
<1>2. asked' \in [User -> [Target -> Status]]
  BY <1>1 DEF IInv, Data, Tables, Request
<1>3. Data' /\ Stable /\ Rows' = Rows
  BY <1>1, <1>2 DEF IInv, Data, Tables, NoOrphans, Stable, Rows, Targets
<1> QED
  BY <1>1, <1>3 DEF Answer, Finish, Goto

(* Every call of a handler keeps the tables consistent, and only the insert *)
(* adds a row.                                                              *)
LEMMA DataNext ==
  ASSUME IInv, Next
  PROVE  /\ Data' /\ Stable
         /\ Rows' \subseteq Rows \/ \E r \in Req, x \in Reaction : CreateReaction(r, x)
<1> DEFINE G == /\ Data' /\ Stable
                /\ Rows' \subseteq Rows \/ \E r \in Req, x \in Reaction : CreateReaction(r, x)
<1>1. ASSUME NEW r \in Req, NEW x \in Reaction, CreateReaction(r, x) PROVE G
  BY <1>1, CreateData
<1>2. ASSUME NEW r \in Req, UpdateReaction(r) PROVE G
  BY <1>2, UpdateReactionData
<1>3. ASSUME UNCHANGED tables PROVE G
  BY <1>3, SameData DEF IInv
<1>4. ASSUME NEW r \in Req, NEW u \in users, AdminBan(r, u) PROVE G
  BY <1>4 DEF AdminBan, IInv, Data, Tables, NoOrphans, Stable, Targets, Rows
<1>5. ASSUME NEW r \in Req, BanBlog(r) PROVE G
  BY <1>5 DEF BanBlog, IInv, Data, Tables, NoOrphans, Stable, Targets, Rows
<1>6. ASSUME NEW r \in Req, NEW u \in users, DeleteUser(r, u) PROVE G
  BY <1>6, KeepData DEF DeleteUser, IInv, Data, Tables
<1>7. ASSUME NEW r \in Req, NEW t \in Targets, DeleteTarget(r, t) PROVE G
  BY <1>7, KeepData DEF DeleteTarget, IInv, Data, Tables
<1>8. ASSUME NEW r \in Req, Answer(r) PROVE G
  BY <1>8, AnswerData
<1> HIDE DEF G
<1> QED
  BY <1>1, <1>2, <1>3, <1>4, <1>5, <1>6, <1>7, <1>8
  DEF Next, Act, ReactFind, ReactUserFind, ReactionFind, WriteFails, ViewFind, ViewLikes, ViewDislikes,
      ViewNewest, ViewMine, Respond, G

-----------------------------------------------------------------------------
(* What a request holds survives every step of the others. *)
LEMMA HeldStable ==
  ASSUME Data, Data', Stable, NEW q, Held(q)
  PROVE  Held(q)'
BY DEF Held, Stable

(* Only a request that found no row goes on to insert one. *)
Found(q) == Held(q) /\ q.pc # "answer" /\ (q.pc = "create" => RowsOf(q.user, q.target) = {})

(* A request that moves ends, has just read what it holds, or has written;   *)
(* and one that has written moves by its answer only.                        *)
Moved(s) ==
  \/ req'[s] = req[s]
  \/ req'[s].pc = "idle" /\ (req[s].pc = "answer" => Answer(s))
  \/ UNCHANGED tables /\ req[s].pc # "answer" /\ Found(req'[s])
  \/ UpdateReaction(s) \/ \E x \in Reaction : CreateReaction(s, x)
LEMMA ReqNext ==
  ASSUME IInv, Next
  PROVE  req' \in [Req -> Request] /\ \A s \in Req : Moved(s)
<1> DEFINE G == req' \in [Req -> Request] /\ \A s \in Req : Moved(s)
<1>0. /\ Idle \in Request /\ Idle.pc = "idle"
      /\ Tables /\ req \in [Req -> Request] /\ \A r \in Req : Held(req[r])
  BY DEF Idle, Request, PC, IInv, Data, Status
<1>1. ASSUME NEW r \in Req, NEW q \in Request, req' = [req EXCEPT ![r] = q],
             \/ q.pc = "idle" /\ (req[r].pc = "answer" => Answer(r))
             \/ UNCHANGED tables /\ req[r].pc # "answer" /\ Found(q)
             \/ UpdateReaction(r) \/ \E x \in Reaction : CreateReaction(r, x)
      PROVE G
  <2>1. req' \in [Req -> Request] /\ req'[r] = q /\ \A s \in Req \ {r} : req'[s] = req[s]
    BY <1>0, <1>1
  <2> QED
    BY <1>1, <2>1 DEF Moved
<1>2. ASSUME req' = req PROVE G
  BY <1>0, <1>2 DEF Moved
<1> HIDE DEF G
<1>3. ASSUME NEW r \in Req, NEW from, Finish(r, from), from = "answer" => Answer(r) PROVE G
  BY <1>0, <1>1, <1>3 DEF Finish, Goto
<1>4. ASSUME NEW r \in Req, NEW u \in users, NEW t \in Targets, NEW s \in Status, ReactFind(r, u, t, s) PROVE G
  <2> DEFINE q == [Idle EXCEPT !.pc = "user", !.user = u, !.target = t, !.status = s]
  <2>1. q \in Request /\ Found(q)
    BY <1>0 DEF Request, Found, Held, Idle, PC, Tables
  <2> QED
    BY <1>0, <1>1, <1>4, <2>1 DEF ReactFind, Start
<1>5. ASSUME NEW r \in Req, ReactUserFind(r) PROVE G
  <2>1. ASSUME Goto(r, "user", Next1(r, "find")) PROVE G
    <3> DEFINE q == [req[r] EXCEPT !.pc = "find"]
    <3>1. q \in Request /\ Found(q)
      BY <1>0, <2>1 DEF Goto, Request, Found, Held, PC
    <3> QED
      BY <1>1, <1>5, <2>1, <3>1 DEF ReactUserFind, Goto, Next1
  <2> QED
    BY <1>3, <1>5, <2>1 DEF ReactUserFind
<1>6. ASSUME NEW r \in Req, ReactionFind(r) PROVE G
  <2>1. ASSUME RowsOf(req[r].user, req[r].target) = {}, Goto(r, "find", Next1(r, "create")) PROVE G
    <3> DEFINE q == [req[r] EXCEPT !.pc = "create"]
    <3>1. q \in Request /\ q.user = req[r].user /\ q.target = req[r].target /\ q.pc = "create"
      BY <1>0 DEF Request, PC
    <3>2. req' = [req EXCEPT ![r] = q]
      BY <2>1 DEF Goto, Next1
    <3> HIDE DEF q
    <3>3. Found(q)
      BY <1>0, <2>1, <3>1 DEF Goto, Found, Held
    <3> QED
      BY <1>1, <1>6, <3>1, <3>2, <3>3 DEF ReactionFind, Goto
  <2>2. ASSUME NEW x \in RowsOf(req[r].user, req[r].target),
               Goto(r, "find", [Next1(r, "update") EXCEPT !.item = x])
        PROVE G
    <3> DEFINE q == [req[r] EXCEPT !.pc = "update", !.item = x]
    <3>1. /\ q \in Request /\ q.user = req[r].user /\ q.target = req[r].target
          /\ q.pc = "update" /\ q.item = x
      BY <1>0 DEF Request, PC, RowsOf, Tables
    <3>2. req' = [req EXCEPT ![r] = q]
      BY <2>2 DEF Goto, Next1
    <3> HIDE DEF q
    <3>3. Found(q)
      BY <1>0, <2>2, <3>1 DEF Goto, Found, Held, RowsOf, Tables
    <3> QED
      BY <1>1, <1>6, <3>1, <3>2, <3>3 DEF ReactionFind, Goto
  <2> QED
    BY <1>6, <2>1, <2>2 DEF ReactionFind
<1>7. \A t \in Target \cup {None}, s \in Status : Cardinality(Counted(t, s)) \in Nat
  <2> SUFFICES ASSUME NEW t, NEW s PROVE Cardinality(Counted(t, s)) \in Nat
    OBVIOUS
  <2>1. Counted(t, s) \subseteq gone /\ IsFiniteSet(gone)
    BY <1>0 DEF Counted, Tables
  <2> QED
    BY <2>1, FS_Subset, FS_CardinalityType
<1>8. ASSUME NEW r \in Req, NEW u \in User \cup {None}, NEW t \in Targets, ViewFind(r, u, t) PROVE G
  <2> DEFINE q == [Idle EXCEPT !.pc = "likes", !.user = u, !.target = t]
  <2>1. q \in Request /\ Found(q)
    BY <1>0 DEF Request, Found, Held, Idle, PC, Tables
  <2> QED
    BY <1>0, <1>1, <1>8, <2>1 DEF ViewFind, Start
<1>9. ASSUME NEW r \in Req, ViewLikes(r) PROVE G
  <2> DEFINE n == Cardinality(Counted(req[r].target, "Like"))
             q == [req[r] EXCEPT !.pc = "dislikes", !.likes = n]
  <2>1. n \in Nat
    BY <1>0, <1>7 DEF Request, Status
  <2>2. req' = [req EXCEPT ![r] = q]
    BY <1>9 DEF ViewLikes, Goto, Next1
  <2> HIDE DEF n
  <2>3. q \in Request /\ Found(q)
    BY <1>0, <2>1 DEF Request, Found, Held, PC
  <2> QED
    BY <1>1, <1>9, <2>2, <2>3 DEF ViewLikes, Goto
<1>10. ASSUME NEW r \in Req, ViewDislikes(r) PROVE G
  <2> DEFINE n == Cardinality(Counted(req[r].target, "Dislike"))
             to == IF req[r].target \in Post THEN "newest" ELSE "mine"
             q == [req[r] EXCEPT !.pc = to, !.dislikes = n]
  <2>1. n \in Nat /\ to \in {"newest", "mine"}
    BY <1>0, <1>7 DEF Request, Status
  <2>2. req' = [req EXCEPT ![r] = q]
    BY <1>10 DEF ViewDislikes, Goto, Next1
  <2> HIDE DEF n, to
  <2>3. q \in Request /\ Found(q)
    BY <1>0, <2>1 DEF Request, Found, Held, PC
  <2> QED
    BY <1>1, <1>10, <2>2, <2>3 DEF ViewDislikes, Goto
<1>11. ASSUME NEW r \in Req, ViewNewest(r) PROVE G
  <2> DEFINE E == {reaction[x].user : x \in NewestOf(Counted(req[r].target, "Like"))}
             q == [req[r] EXCEPT !.pc = "mine", !.newest = E]
  <2>1. E \subseteq User
    BY <1>0 DEF NewestOf, Counted, Tables, Row
  <2>2. req' = [req EXCEPT ![r] = q]
    BY <1>11 DEF ViewNewest, Goto, Next1
  <2> HIDE DEF E
  <2>3. q \in Request /\ Found(q)
    BY <1>0, <2>1 DEF Request, Found, Held, PC
  <2> QED
    BY <1>1, <1>11, <2>2, <2>3 DEF ViewNewest, Goto
<1>12. ASSUME NEW r \in Req, ViewMine(r) PROVE G
  <2>1. ASSUME NEW s \in Status, Goto(r, "mine", [Next1(r, "respond") EXCEPT !.status = s]) PROVE G
    <3> DEFINE q == [req[r] EXCEPT !.pc = "respond", !.status = s]
    <3>1. q \in Request /\ Found(q)
      BY <1>0, <2>1 DEF Request, Found, Held, PC
    <3> QED
      BY <1>1, <1>12, <2>1, <3>1 DEF ViewMine, Goto, Next1
  <2>2. ASSUME Goto(r, "mine", Next1(r, "respond")) PROVE G
    <3> DEFINE q == [req[r] EXCEPT !.pc = "respond"]
    <3>1. q \in Request /\ Found(q)
      BY <1>0, <2>2 DEF Request, Found, Held, PC
    <3> QED
      BY <1>1, <1>12, <2>2, <3>1 DEF ViewMine, Goto, Next1
  <2>3. \A x \in RowsOf(req[r].user, req[r].target) : reaction[x].status \in Status
    BY <1>0 DEF RowsOf, Tables, Row
  <2> QED
    BY <1>12, <2>1, <2>2, <2>3 DEF ViewMine
<1>13. ASSUME NEW r \in Req, UpdateReaction(r) \/ \E x \in Reaction : CreateReaction(r, x) PROVE G
  <2> DEFINE q == [req[r] EXCEPT !.pc = "answer"]
  <2>1. q \in Request
    BY <1>0 DEF Request, PC
  <2>2. req' = [req EXCEPT ![r] = q]
    BY <1>13 DEF UpdateReaction, CreateReaction, Goto, Next1
  <2> HIDE DEF q
  <2> QED
    BY <1>1, <1>13, <2>1, <2>2
<1>14. ASSUME NEW r \in Req, WriteFails(r) PROVE G
  BY <1>3, <1>14 DEF WriteFails
<1> QED
  BY <1>2, <1>3, <1>4, <1>5, <1>6, <1>8, <1>9, <1>10, <1>11, <1>12, <1>13, <1>14
  DEF Next, Act, Respond, Answer, AdminBan, BanBlog, DeleteUser, DeleteTarget, G

-----------------------------------------------------------------------------
(* The initial state satisfies the inductive invariant. *)
LEMMA InitIInv == Init => IInv
<1> SUFFICES ASSUME Init PROVE IInv
  OBVIOUS
<1>1. Tables
  <2>1. reaction = << >> /\ Rows = {} /\ reaction \in [Rows -> Row]
    BY DEF Init, Rows
  <2>2. asked \in [User -> [Target -> Status]] /\ Targets = Target
    BY DEF Init, Status, Targets
  <2> QED
    BY <2>1, <2>2, FS_EmptySet DEF Init, Tables
<1>2. NoOrphans
  BY DEF Init, NoOrphans, Rows
<1>3. req \in [Req -> Request] /\ (\A r \in Req : Held(req[r])) /\ raced \subseteq users \X Targets
  BY DEF Init, Idle, Request, PC, Status, Held
<1> QED
  BY <1>1, <1>2, <1>3 DEF IInv, Data

(* Every step keeps the inductive invariant. *)
LEMMA NextIInv == IInv /\ [Next]_vars => IInv'
<1> SUFFICES ASSUME IInv, [Next]_vars PROVE IInv'
  OBVIOUS
<1>1. CASE UNCHANGED vars
  <2>1. Data'
    BY <1>1, SameData DEF vars, tables, IInv
  <2> QED
    BY <1>1, <2>1 DEF vars, IInv, Held, Rows, Targets
<1>2. CASE Next
  <2>1. Data' /\ Stable
    BY <1>2, DataNext
  <2>2. req' \in [Req -> Request]
    BY <1>2, ReqNext
  <2>3. ASSUME NEW s \in Req PROVE Held(req[s])'
    <3>1. CASE req'[s] = req[s]
      <4>1. PICK q \in Request : q = req[s]
        BY DEF IInv
      <4>2. Held(q)'
        BY <2>1, <4>1, HeldStable DEF IInv
      <4> QED
        BY <3>1, <4>1, <4>2
    <3>2. CASE req'[s].pc = "idle"
      BY <3>2 DEF Held
    <3>3. CASE UNCHANGED tables /\ Found(req'[s])
      BY <3>3 DEF Found, Held, tables, Rows
    <3>4. CASE UpdateReaction(s) \/ \E x \in Reaction : CreateReaction(s, x)
      <4>1. req[s].user \in User /\ req[s].target \in Target /\ req[s] \in Request
        BY <3>4 DEF IInv, Held, UpdateReaction, CreateReaction, Goto
      <4>2. req'[s] = Next1(s, "answer")
        BY <3>4 DEF IInv, UpdateReaction, CreateReaction, Goto
      <4> QED
        BY <4>1, <4>2 DEF Held, Next1, Request
    <3> QED
      BY <1>2, <3>1, <3>2, <3>3, <3>4, ReqNext DEF Moved
  <2>4. raced' \subseteq users' \X Targets'
    BY <1>2 DEF Next, Watch
  <2> QED
    BY <2>1, <2>2, <2>3, <2>4 DEF IInv
<1> QED
  BY <1>1, <1>2

(* The tables and what requests hold are consistent in every state. *)
THEOREM Invariance == Spec => []IInv
BY InitIInv, NextIInv, PTL DEF Spec

(* Every variable keeps its type. *)
THEOREM TypeCorrect == Spec => []TypeOK
<1>1. IInv => TypeOK
  BY DEF IInv, Data, Tables, TypeOK, Request
<1> QED
  BY <1>1, Invariance, PTL

(* Every reaction is of a user and a post or comment that exist. *)
THEOREM NeverOrphaned == Spec => []NoOrphans
<1>1. IInv => NoOrphans
  BY DEF IInv, Data
<1> QED
  BY <1>1, Invariance, PTL

-----------------------------------------------------------------------------
(* A row is inserted for one request that found none. *)
Bounded(u, t) ==
  /\ IsFiniteSet(RowsOf(u, t))
  /\ Cardinality(RowsOf(u, t)) + Cardinality(Creators(u, t)) <= Cardinality(Req)

(* A step makes fewer rows and inserts, trades an insert for its row, or    *)
(* starts an insert while there is no row.                                  *)
LEMMA RowsStep ==
  ASSUME IInv, Next, NEW u, NEW t
  PROVE  \/ RowsOf(u, t)' \subseteq RowsOf(u, t) /\ Creators(u, t)' \subseteq Creators(u, t)
         \/ \E r \in Creators(u, t) : \E x \in Reaction \ RowsOf(u, t) :
              /\ RowsOf(u, t)' \subseteq RowsOf(u, t) \cup {x}
              /\ Creators(u, t)' \subseteq Creators(u, t) \ {r}
         \/ RowsOf(u, t)' = {}
<1>1. CASE \E s \in Req : s \in Creators(u, t)' \ Creators(u, t)
  <2>1. PICK s \in Req : s \in Creators(u, t)' \ Creators(u, t)
    BY <1>1
  <2>2. req'[s].pc = "create" /\ req'[s].user = u /\ req'[s].target = t /\ req'[s] # req[s]
    BY <2>1 DEF Creators
  <2>3. ~UpdateReaction(s) /\ ~\E x \in Reaction : CreateReaction(s, x)
    BY <2>2, UpdateReactionData, CreateData DEF IInv, Next1, Request
  <2>4. UNCHANGED tables /\ RowsOf(u, t) = {}
    BY <2>2, <2>3, ReqNext DEF Found, Moved
  <2> QED
    BY <2>4 DEF RowsOf, Rows, tables
<1>2. CASE Creators(u, t)' \subseteq Creators(u, t)
  <2>1. CASE Rows' \subseteq Rows
    <3>1. Stable /\ Rows \subseteq gone
      BY DataNext DEF IInv, Data, Tables
    <3> QED
      BY <1>2, <2>1, <3>1 DEF RowsOf, Stable
  <2>2. ASSUME NEW r \in Req, NEW x \in Reaction, CreateReaction(r, x)
        PROVE \/ RowsOf(u, t)' \subseteq RowsOf(u, t)
              \/ /\ r \in Creators(u, t) \ Creators(u, t)' /\ x \notin RowsOf(u, t)
                 /\ RowsOf(u, t)' \subseteq RowsOf(u, t) \cup {x}
    <3>1. /\ req[r].pc = "create" /\ req'[r].pc = "answer"
          /\ x \notin Rows /\ Rows' = Rows \cup {x} /\ \A y \in Rows : reaction'[y] = reaction[y]
          /\ reaction'[x].user = req[r].user /\ reaction'[x].target = req[r].target
      BY <2>2, CreateData DEF IInv, Next1, Request
    <3>2. CASE u = req[r].user /\ t = req[r].target
      BY <3>1, <3>2 DEF RowsOf, Creators
    <3>3. CASE ~(u = req[r].user /\ t = req[r].target)
      BY <3>1, <3>3 DEF RowsOf
    <3> QED
      BY <3>2, <3>3
  <2> QED
    BY <1>2, <2>1, <2>2, DataNext
<1> QED
  BY <1>1, <1>2 DEF Creators

(* The bound survives each of these. *)
LEMMA BoundedNext ==
  ASSUME IInv, Next, NEW u, NEW t, Bounded(u, t)
  PROVE  Bounded(u, t)'
<1> DEFINE X == RowsOf(u, t)
           C == Creators(u, t)
           n == Cardinality(Req)
<1>1. IsFiniteSet(X) /\ Cardinality(X) \in Nat /\ IsFiniteSet(C) /\ Cardinality(C) \in Nat /\ n \in Nat
  BY ReqAssumption, FS_Subset, FS_CardinalityType DEF Bounded, Creators
<1>2. Cardinality(X) + Cardinality(C) <= n
  BY DEF Bounded
<1> SUFFICES IsFiniteSet(X') /\ Cardinality(X') + Cardinality(C') <= n
  BY DEF Bounded
<1>3. C' \subseteq Req
  BY DEF Creators
<1> HIDE DEF X, C, n
<1>4. CASE X' \subseteq X /\ C' \subseteq C
  <2>1. IsFiniteSet(X') /\ Cardinality(X') <= Cardinality(X) /\ Cardinality(C') <= Cardinality(C)
    BY <1>1, <1>4, FS_Subset
  <2>2. Cardinality(X') \in Nat /\ Cardinality(C') \in Nat
    BY <1>1, <1>4, FS_Subset, FS_CardinalityType
  <2> QED
    BY <1>1, <1>2, <2>1, <2>2
<1>5. ASSUME NEW r \in C, NEW x \in Reaction \ X, X' \subseteq X \cup {x}, C' \subseteq C \ {r}
      PROVE IsFiniteSet(X') /\ Cardinality(X') + Cardinality(C') <= n
  <2>1. IsFiniteSet(X \cup {x}) /\ Cardinality(X \cup {x}) = Cardinality(X) + 1
    BY <1>1, FS_AddElement
  <2>2. IsFiniteSet(C \ {r}) /\ Cardinality(C \ {r}) = Cardinality(C) - 1
    BY <1>1, FS_RemoveElement
  <2>3. IsFiniteSet(X') /\ Cardinality(X') <= Cardinality(X \cup {x})
    BY <1>5, <2>1, FS_Subset
  <2>4. IsFiniteSet(C') /\ Cardinality(C') <= Cardinality(C \ {r})
    BY <1>5, <2>2, FS_Subset
  <2>5. Cardinality(X') \in Nat /\ Cardinality(C') \in Nat
    BY <2>3, <2>4, FS_CardinalityType
  <2> QED
    BY <1>1, <1>2, <2>1, <2>2, <2>3, <2>4, <2>5
<1>6. CASE X' = {}
  <2>1. IsFiniteSet({}) /\ Cardinality({}) = 0
    BY FS_EmptySet
  <2>2. Cardinality(C') <= n /\ Cardinality(C') \in Nat
    BY <1>3, ReqAssumption, FS_Subset, FS_CardinalityType DEF n
  <2> QED
    BY <1>1, <1>6, <2>1, <2>2
<1> QED
  BY <1>4, <1>5, <1>6, RowsStep DEF X, C

(* A user has no more reactions to a post or comment than requests of his   *)
(* can run at once.                                                         *)
THEOREM FewDuplicates == Spec => []DuplicatesBounded
<1> DEFINE All == \A u \in User, t \in Target : Bounded(u, t)
<1>1. Init => All
  <2> SUFFICES ASSUME Init, NEW u, NEW t PROVE Bounded(u, t)
    OBVIOUS
  <2>1. RowsOf(u, t) = {} /\ Creators(u, t) = {}
    BY DEF Init, RowsOf, Creators, Rows, Idle
  <2> QED
    BY <2>1, ReqAssumption, FS_EmptySet, FS_CardinalityType DEF Bounded
<1>2. IInv /\ All /\ [Next]_vars => All'
  <2>1. CASE UNCHANGED vars
    BY <2>1 DEF vars, Bounded, RowsOf, Creators, Rows
  <2> QED
    BY <2>1, BoundedNext
<1>3. All => DuplicatesBounded
  BY DEF Bounded, DuplicatesBounded
<1> QED
  BY <1>1, <1>2, <1>3, Invariance, PTL DEF Spec

-----------------------------------------------------------------------------
(* What the rows tell of a user's choice: without a row he was not answered  *)
(* for one; and if his requests did not overlap, one row holds what he was   *)
(* answered for, or what the only request past the look-up has written.      *)
Written(u, t) == {r \in Past(u, t) : req[r].pc = "answer"}
Unasked(u, t) == RowsOf(u, t) = {} => asked[u][t] = "None" /\ Written(u, t) = {}
OneRow(u, t) ==
  /\ \A r, s \in Past(u, t) : r = s
  /\ \A x, y \in RowsOf(u, t) : x = y
  /\ \A r \in Past(u, t) : req[r].pc = "create" => RowsOf(u, t) = {}
  /\ \A r \in Written(u, t), x \in RowsOf(u, t) : reaction[x].status = req[r].status
  /\ Written(u, t) = {} => \A x \in RowsOf(u, t) : reaction[x].status = asked[u][t]
Told(u, t) == Unasked(u, t) /\ (<<u, t>> \notin raced => OneRow(u, t))
Choices == \A u \in users, t \in Targets : Told(u, t)

(* Whose requests did not overlap yet had at most one past the look-up.      *)
LEMMA WatchFacts ==
  ASSUME Watch, NEW u \in users', NEW t \in Targets', <<u, t>> \notin raced'
  PROVE  <<u, t>> \notin raced /\ \A r, s \in Past(u, t)' : r = s
BY DEF Watch

(* A step that leaves the rows and the answer alone, and moves requests of   *)
(* the user only past the look-up or, unwritten, to their end.               *)
LEMMA QuietTold ==
  ASSUME Watch, NEW u \in users', NEW t \in Targets', Told(u, t),
         RowsOf(u, t)' = RowsOf(u, t), asked'[u][t] = asked[u][t],
         \A x \in RowsOf(u, t) : reaction'[x].status = reaction[x].status,
         \A r \in Past(u, t)' : \/ r \in Past(u, t) /\ req'[r] = req[r]
                                \/ req'[r].pc = "update"
                                \/ req'[r].pc = "create" /\ RowsOf(u, t) = {},
         \A r \in Written(u, t) : req'[r] = req[r]
  PROVE  Told(u, t)'
<1>1. Written(u, t)' = Written(u, t)
  BY DEF Written, Past
<1>2. Unasked(u, t)'
  BY <1>1 DEF Told, Unasked
<1>3. ASSUME <<u, t>> \notin raced' PROVE OneRow(u, t)'
  <2>1. OneRow(u, t) /\ \A r, s \in Past(u, t)' : r = s
    BY <1>3, WatchFacts DEF Told
  <2>2. \A r \in Past(u, t)' : req'[r].pc = "create" => RowsOf(u, t) = {}
    BY <2>1 DEF OneRow
  <2>3. \A r \in Written(u, t) : req'[r].status = req[r].status
    OBVIOUS
  <2> QED
    BY <1>1, <2>1, <2>2, <2>3 DEF OneRow
<1> QED
  BY <1>2, <1>3 DEF Told

(* A write of a request gives the only row its status.                       *)
LEMMA WriteTold ==
  ASSUME IInv, Watch, NEW u \in users', NEW t \in Targets', u \in users, t \in Targets, Told(u, t), asked' = asked,
         NEW r \in Req, req' = [req EXCEPT ![r] = Next1(r, "answer")], req[r].pc \in {"create", "update"},
         IF req[r].user = u /\ req[r].target = t
         THEN /\ RowsOf(u, t)' # {}
              /\ <<u, t>> \notin raced => \A x, y \in RowsOf(u, t)' : x = y /\ reaction'[x].status = req[r].status
         ELSE RowsOf(u, t)' = RowsOf(u, t) /\ \A x \in RowsOf(u, t) : reaction'[x].status = reaction[x].status
  PROVE  Told(u, t)'
<1>1. /\ \A s \in Req \ {r} : req'[s] = req[s]
      /\ req'[r].pc = "answer" /\ req'[r].user = req[r].user /\ req'[r].target = req[r].target
      /\ req'[r].status = req[r].status
  BY DEF IInv, Next1, Request
<1>2. CASE req[r].user = u /\ req[r].target = t
  <2>1. r \in Written(u, t)'
    BY <1>1, <1>2 DEF Written, Past
  <2>2. ASSUME <<u, t>> \notin raced' PROVE OneRow(u, t)'
    <3>1. <<u, t>> \notin raced /\ \A p, s \in Past(u, t)' : p = s
      BY <2>2, WatchFacts
    <3>2. Past(u, t)' = {r}
      BY <2>1, <3>1 DEF Written
    <3> QED
      BY <1>1, <1>2, <2>1, <3>1, <3>2 DEF OneRow, Written
  <2> QED
    BY <1>2, <2>2 DEF Told, Unasked
<1>3. CASE ~(req[r].user = u /\ req[r].target = t)
  <2>1. Past(u, t)' = Past(u, t) /\ r \notin Past(u, t) /\ Past(u, t) \subseteq Req
    BY <1>1, <1>3 DEF Past
  <2>2. \A s \in Past(u, t)' : s \in Past(u, t) /\ req'[s] = req[s]
    BY <1>1, <2>1
  <2>3. \A s \in Written(u, t) : req'[s] = req[s]
    BY <1>1, <2>1 DEF Written
  <2>4. /\ RowsOf(u, t)' = RowsOf(u, t) /\ \A x \in RowsOf(u, t) : reaction'[x].status = reaction[x].status
        /\ asked'[u][t] = asked[u][t]
    BY <1>3
  <2> QED
    BY <2>2, <2>3, <2>4, QuietTold
<1> QED
  BY <1>2, <1>3

(* The answer leaves what it was for. *)
LEMMA AnswerTold ==
  ASSUME IInv, Watch, NEW u \in users, NEW t \in Targets, u \in users', t \in Targets', Told(u, t),
         NEW r \in Req, Answer(r)
  PROVE  Told(u, t)'
<1> DEFINE q == req[r]
<1>1. /\ Rows' = Rows /\ reaction' = reaction /\ q.pc = "answer"
      /\ asked' = [asked EXCEPT ![q.user][q.target] = q.status] /\ q.user \in User /\ q.target \in Target
      /\ \A s \in Req \ {r} : req'[s] = req[s]
      /\ req'[r].pc = "idle"
  BY AnswerData DEF IInv, Idle
<1>2. RowsOf(u, t)' = RowsOf(u, t) /\ Past(u, t)' = Past(u, t) \ {r}
  BY <1>1 DEF RowsOf, Past
<1>3. u \in User /\ t \in Target /\ asked \in [User -> [Target -> Status]]
  BY DEF IInv, Data, Tables
<1>4. CASE q.user = u /\ q.target = t
  <2>1. r \in Written(u, t) /\ asked'[u][t] = q.status
    BY <1>1, <1>3, <1>4 DEF Written, Past
  <2>2. RowsOf(u, t) # {}
    BY <2>1 DEF Told, Unasked
  <2>3. ASSUME <<u, t>> \notin raced' PROVE OneRow(u, t)'
    <3>1. OneRow(u, t)
      BY <2>3, WatchFacts DEF Told
    <3>2. Past(u, t)' = {}
      BY <1>2, <2>1, <3>1 DEF OneRow, Written
    <3>3. Written(u, t)' = {}
      BY <3>2 DEF Written
    <3> QED
      BY <1>1, <1>2, <2>1, <3>1, <3>2, <3>3 DEF OneRow
  <2> QED
    BY <1>2, <2>2, <2>3 DEF Told, Unasked
<1>5. CASE ~(q.user = u /\ q.target = t)
  <2>1. r \notin Past(u, t) /\ asked'[u][t] = asked[u][t]
    BY <1>1, <1>3, <1>5 DEF Past
  <2>2. \A s \in Past(u, t)' : s \in Past(u, t) /\ req'[s] = req[s]
    <3>1. Past(u, t) \subseteq Req
      BY DEF Past
    <3> QED
      BY <1>1, <1>2, <3>1
  <2>3. \A s \in Written(u, t) : req'[s] = req[s]
    BY <1>1, <2>1 DEF Written, Past
  <2>4. \A x \in RowsOf(u, t) : reaction'[x].status = reaction[x].status
    BY <1>1
  <2> HIDE DEF q
  <2> QED
    BY <1>2, <2>1, <2>2, <2>3, <2>4, QuietTold
<1> QED
  BY <1>4, <1>5

(* A step that leaves rows and answers alone tells no new story. *)
LEMMA SameTold ==
  ASSUME IInv, Next, NEW u \in users', NEW t \in Targets', Told(u, t), asked' = asked,
         RowsOf(u, t)' = RowsOf(u, t), \A x \in RowsOf(u, t) : reaction'[x].status = reaction[x].status,
         \A r \in Req : ~UpdateReaction(r) /\ ~Answer(r) /\ \A x \in Reaction : ~CreateReaction(r, x)
  PROVE  Told(u, t)'
<1>1. ASSUME NEW r \in Past(u, t)'
      PROVE  \/ r \in Past(u, t) /\ req'[r] = req[r]
             \/ req'[r].pc = "update"
             \/ req'[r].pc = "create" /\ RowsOf(u, t) = {}
  <2>1. r \in Req /\ req'[r].pc \in {"create", "update", "answer"} /\ req'[r].user = u /\ req'[r].target = t
    BY DEF Past
  <2>2. Moved(r)
    BY <2>1, ReqNext
  <2>3. CASE req'[r] = req[r]
    BY <2>1, <2>3 DEF Past
  <2>4. CASE Found(req'[r]) /\ UNCHANGED tables
    BY <2>1, <2>4 DEF Found
  <2> QED
    BY <2>1, <2>2, <2>3, <2>4 DEF Moved
<1>2. ASSUME NEW r \in Written(u, t) PROVE req'[r] = req[r]
  BY <1>2, ReqNext DEF Written, Past, Moved
<1>3. Watch /\ asked'[u][t] = asked[u][t]
  BY DEF Next
<1> QED
  BY <1>1, <1>2, <1>3, QuietTold

(* Every step of the system keeps the story. *)
LEMMA ChoicesNext ==
  ASSUME IInv, Choices, Next
  PROVE  Choices'
<1> SUFFICES ASSUME NEW u \in users', NEW t \in Targets' PROVE Told(u, t)'
  BY DEF Choices
<1>0. Watch /\ Act
  BY DEF Next
<1>1. u \in users /\ t \in Targets /\ Told(u, t)
  <2>1. ASSUME NEW Us \in SUBSET users, NEW Ts \in SUBSET Targets, Keep(Us, Ts)
        PROVE  users' \subseteq users /\ Targets' \subseteq Targets
    BY <2>1 DEF Keep, Restrict, Targets
  <2>2. ASSUME UNCHANGED <<users, target>> PROVE users' \subseteq users /\ Targets' \subseteq Targets
    BY <2>2 DEF Targets
  <2>3. users' \subseteq users /\ Targets' \subseteq Targets
    BY <1>0, <2>1, <2>2
    DEF Act, ReactFind, ReactUserFind, ReactionFind, CreateReaction, UpdateReaction, WriteFails, Answer,
        ViewFind, ViewLikes, ViewDislikes, ViewNewest, ViewMine, Respond, AdminBan, BanBlog, DeleteUser,
        DeleteTarget, tables
  <2> QED
    BY <2>3 DEF Choices
<1>2. ASSUME NEW r \in Req, NEW x \in Reaction, CreateReaction(r, x) PROVE Told(u, t)'
  <2>1. /\ req[r].pc = "create" /\ r \in Req
        /\ req' = [req EXCEPT ![r] = Next1(r, "answer")]
        /\ x \notin Rows /\ Rows' = Rows \cup {x} /\ \A y \in Rows : reaction'[y] = reaction[y]
        /\ reaction'[x].user = req[r].user /\ reaction'[x].target = req[r].target
        /\ reaction'[x].status = req[r].status
    BY <1>2, CreateData
  <2>2. asked' = asked
    BY <1>2 DEF CreateReaction
  <2>3. CASE req[r].user = u /\ req[r].target = t
    <3>1. RowsOf(u, t)' = RowsOf(u, t) \cup {x}
      BY <2>1, <2>3 DEF RowsOf
    <3>2. ASSUME <<u, t>> \notin raced PROVE RowsOf(u, t) = {}
      BY <1>1, <2>1, <2>3, <3>2 DEF Told, OneRow, Past
    <3> QED
      BY <1>0, <1>1, <2>1, <2>2, <2>3, <3>1, <3>2, WriteTold
  <2>4. CASE ~(req[r].user = u /\ req[r].target = t)
    <3>1. RowsOf(u, t)' = RowsOf(u, t) /\ \A y \in RowsOf(u, t) : reaction'[y].status = reaction[y].status
      BY <2>1, <2>4 DEF RowsOf
    <3> QED
      BY <1>0, <1>1, <2>1, <2>2, <2>4, <3>1, WriteTold
  <2> QED
    BY <2>3, <2>4
<1>3. ASSUME NEW r \in Req, UpdateReaction(r) PROVE Told(u, t)'
  <2>1. /\ req[r].pc = "update" /\ req' = [req EXCEPT ![r] = Next1(r, "answer")]
        /\ Rows' = Rows /\ req[r].item \in RowsOf(req[r].user, req[r].target)
        /\ \A y \in Rows : /\ reaction'[y].user = reaction[y].user
                           /\ reaction'[y].target = reaction[y].target
                           /\ reaction'[y].status = IF y = req[r].item THEN req[r].status ELSE reaction[y].status
    BY <1>3, UpdateReactionData
  <2>2. asked' = asked /\ RowsOf(u, t)' = RowsOf(u, t)
    BY <1>3, <2>1 DEF UpdateReaction, RowsOf
  <2>5. req' = [req EXCEPT ![r] = Next1(r, "answer")] /\ req[r].pc \in {"create", "update"}
    BY <2>1
  <2>3. CASE req[r].user = u /\ req[r].target = t
    <3>1. ASSUME <<u, t>> \notin raced
          PROVE  \A x, y \in RowsOf(u, t) : x = y /\ reaction'[x].status = req[r].status
      <4>1. \A x \in RowsOf(u, t) : x = req[r].item /\ x \in Rows
        BY <1>1, <2>1, <2>3, <3>1 DEF Told, OneRow, RowsOf
      <4> QED
        BY <2>1, <4>1
    <3>2. RowsOf(u, t)' # {}
      BY <2>1, <2>2, <2>3
    <3>3. <<u, t>> \notin raced => \A x, y \in RowsOf(u, t)' : x = y /\ reaction'[x].status = req[r].status
      BY <2>2, <3>1
    <3> QED
      BY <1>0, <1>1, <2>2, <2>3, <2>5, <3>2, <3>3, WriteTold
  <2>4. CASE ~(req[r].user = u /\ req[r].target = t)
    <3>1. \A x \in RowsOf(u, t) : reaction'[x].status = reaction[x].status
      BY <2>1, <2>4 DEF RowsOf
    <3> QED
      BY <1>0, <1>1, <2>1, <2>2, <2>4, <3>1, WriteTold
  <2> QED
    BY <2>3, <2>4
<1>4. ASSUME NEW r \in Req, Answer(r) PROVE Told(u, t)'
  BY <1>0, <1>1, <1>4, AnswerTold
<1>5. CASE \A r \in Req : ~UpdateReaction(r) /\ ~Answer(r) /\ \A x \in Reaction : ~CreateReaction(r, x)
  <2>1. ASSUME UNCHANGED <<reaction, asked>> PROVE Told(u, t)'
    <3>1. RowsOf(u, t)' = RowsOf(u, t)
      BY <2>1 DEF RowsOf, Rows
    <3> QED
      BY <1>1, <1>5, <2>1, <3>1, SameTold
  <2>2. ASSUME NEW Us \in SUBSET users, NEW Ts \in SUBSET Targets, Keep(Us, Ts), asked' = asked
        PROVE  Told(u, t)'
    <3> DEFINE T == {e \in Ts : target[e] \in Us}
               X == {x \in Rows : reaction[x].user \in Us /\ reaction[x].target \in T}
    <3>1. users' = Us /\ target' = [e \in T |-> target[e]] /\ reaction' = [x \in X |-> reaction[x]]
      BY <2>2 DEF Keep, Restrict
    <3>2. u \in Us /\ t \in T /\ Rows' = X /\ \A x \in X : reaction'[x] = reaction[x]
      BY <3>1 DEF Targets, Rows
    <3>3. RowsOf(u, t)' = RowsOf(u, t) /\ \A x \in RowsOf(u, t) : reaction'[x].status = reaction[x].status
      BY <3>2 DEF RowsOf
    <3> QED
      BY <1>1, <1>5, <2>2, <3>3, SameTold
  <2>3. ASSUME NEW r \in Req,
               (\E v \in users : DeleteUser(r, v)) \/ \E e \in Targets : DeleteTarget(r, e)
        PROVE  Told(u, t)'
    BY <2>2, <2>3 DEF DeleteUser, DeleteTarget
  <2> QED
    BY <1>0, <1>5, <2>1, <2>3
    DEF Act, ReactFind, ReactUserFind, ReactionFind, WriteFails, ViewFind, ViewLikes, ViewDislikes,
        ViewNewest, ViewMine, Respond, AdminBan, BanBlog, tables
<1> QED
  BY <1>2, <1>3, <1>4, <1>5

(* So it is in every state. *)
LEMMA ChoicesHold == Spec => []Choices
<1>1. Init => Choices
  <2> SUFFICES ASSUME Init, NEW u \in users, NEW t \in Targets PROVE Told(u, t)
    BY DEF Choices
  <2>1. RowsOf(u, t) = {} /\ Past(u, t) = {} /\ asked[u][t] = "None"
    BY DEF Init, RowsOf, Rows, Past, Idle, Targets
  <2> QED
    BY <2>1 DEF Told, Unasked, OneRow, Written
<1>2. IInv /\ Choices /\ [Next]_vars => Choices'
  <2>1. ASSUME Choices, UNCHANGED vars PROVE Choices'
    <3>1. \A u, t : RowsOf(u, t)' = RowsOf(u, t) /\ Past(u, t)' = Past(u, t) /\ Written(u, t)' = Written(u, t)
      BY <2>1 DEF vars, RowsOf, Rows, Past, Written
    <3>2. UNCHANGED <<users, Targets, reaction, asked, raced, req>>
      BY <2>1 DEF vars, Targets
    <3>3. \A u, t : Told(u, t)' = Told(u, t)
      BY <3>1, <3>2 DEF Told, Unasked, OneRow
    <3> QED
      BY <2>1, <3>2, <3>3 DEF Choices
  <2> QED
    BY <2>1, ChoicesNext
<1> QED
  BY <1>1, <1>2, Invariance, PTL DEF Spec

(* A user whose requests for a target did not overlap between their look-up  *)
(* and their answer has one row for it, with the status he was last answered *)
(* for, or what the request about to be answered wrote.                      *)
THEOREM LastKept == Spec => []LastReactionKept
<1>1. Choices => LastReactionKept
  <2> SUFFICES ASSUME Choices, NEW u \in users, NEW t \in Targets
               PROVE  /\ RowsOf(u, t) = {} => asked[u][t] = "None"
                      /\ <<u, t>> \notin raced => \A x, y \in RowsOf(u, t) :
                           /\ x = y
                           /\ \/ \E r \in Past(u, t) : req[r].pc = "answer" /\ reaction[x].status = req[r].status
                              \/ /\ Past(u, t) \cap {r \in Req : req[r].pc = "answer"} = {}
                                 /\ reaction[x].status = asked[u][t]
    BY DEF LastReactionKept
  <2>1. RowsOf(u, t) = {} => asked[u][t] = "None"
    BY DEF Choices, Told, Unasked
  <2>2. ASSUME <<u, t>> \notin raced, NEW x \in RowsOf(u, t), NEW y \in RowsOf(u, t)
        PROVE  /\ x = y
               /\ \/ \E r \in Past(u, t) : req[r].pc = "answer" /\ reaction[x].status = req[r].status
                  \/ /\ Past(u, t) \cap {r \in Req : req[r].pc = "answer"} = {}
                     /\ reaction[x].status = asked[u][t]
    <3>1. OneRow(u, t)
      BY <2>2 DEF Choices, Told
    <3>2. CASE Written(u, t) = {}
      BY <2>2, <3>1, <3>2 DEF OneRow, Written
    <3>3. ASSUME NEW r \in Written(u, t)
          PROVE  x = y /\ r \in Past(u, t) /\ req[r].pc = "answer" /\ reaction[x].status = req[r].status
      BY <2>2, <3>1, <3>3 DEF OneRow, Written
    <3> QED
      BY <3>2, <3>3
  <2> QED
    BY <2>1, <2>2
<1> QED
  BY <1>1, ChoicesHold, PTL

-----------------------------------------------------------------------------
(* No two rows were inserted at the same time. *)
Ages ==
  /\ \A x \in Rows : reaction[x].at < Cardinality(gone)
  /\ \A x, y \in Rows : reaction[x].at = reaction[y].at => x = y

(* The insert gives its row the highest time, and nothing changes it. *)
LEMMA AgesNext == IInv /\ Ages /\ [Next]_vars => Ages'
<1> SUFFICES ASSUME IInv, Ages, [Next]_vars PROVE Ages'
  OBVIOUS
<1>1. ASSUME UNCHANGED <<reaction, gone>> PROVE Ages'
  BY <1>1 DEF Ages, Rows
<1>2. ASSUME NEW r \in Req, NEW x \in Reaction, CreateReaction(r, x) PROVE Ages'
  <2>1. /\ x \notin Rows /\ Rows' = Rows \cup {x} /\ gone' = gone \cup {x} /\ x \notin gone
        /\ reaction'[x].at = Cardinality(gone) /\ \A y \in Rows : reaction'[y] = reaction[y]
    BY <1>2, CreateData
  <2>2. Cardinality(gone) \in Nat /\ Cardinality(gone') = Cardinality(gone) + 1
    BY <2>1, FS_AddElement, FS_CardinalityType DEF IInv, Data, Tables
  <2>3. \A y \in Rows : reaction[y].at \in Nat
    BY DEF IInv, Data, Tables, Row
  <2> QED
    BY <2>1, <2>2, <2>3 DEF Ages
<1>3. ASSUME NEW r \in Req, UpdateReaction(r) PROVE Ages'
  <2>1. Rows' = Rows /\ gone' = gone /\ \A y \in Rows : reaction'[y].at = reaction[y].at
    BY <1>3, UpdateReactionData DEF UpdateReaction
  <2> QED
    BY <2>1 DEF Ages
<1>4. ASSUME NEW Us, NEW Ts, Keep(Us, Ts), gone' = gone PROVE Ages'
  BY <1>4 DEF Keep, Restrict, Ages, Rows
<1>5. CASE UNCHANGED vars
  BY <1>1, <1>5 DEF vars
<1>6. CASE Next
  BY <1>1, <1>2, <1>3, <1>4, <1>6
  DEF Next, Act, ReactFind, ReactUserFind, ReactionFind, WriteFails, Answer, ViewFind, ViewLikes, ViewDislikes,
      ViewNewest, ViewMine, Respond, AdminBan, BanBlog, DeleteUser, DeleteTarget, tables
<1> QED
  BY <1>5, <1>6

-----------------------------------------------------------------------------
(* Those with fewer than k after them, in the order of distinct numbers. *)
Latest(E, at, k) == {x \in E : Cardinality({y \in E : at[y] > at[x]}) < k}
(* There are k of them, or fewer when all are taken. *)
LEMMA NewestCount ==
  ASSUME NEW E, IsFiniteSet(E), NEW at \in [E -> Int],
         \A x, y \in E : at[x] = at[y] => x = y, NEW k \in Nat
  PROVE  Cardinality(Latest(E, at, k)) = IF Cardinality(E) < k THEN Cardinality(E) ELSE k
<1> DEFINE Later(x) == {y \in E : at[y] > at[x]}
           N == Cardinality(E)
           rank == [x \in E |-> Cardinality(Later(x))]
           F == {x \in E : rank[x] < k}
           m == IF N < k THEN N ELSE k
<1>1. N \in Nat
  BY FS_CardinalityType
<1>2. ASSUME NEW x \in E
      PROVE  IsFiniteSet(Later(x)) /\ Cardinality(Later(x)) \in 0 .. N - 1
  <2>1. Later(x) \subseteq E /\ Later(x) # E
    OBVIOUS
  <2>2. IsFiniteSet(Later(x)) /\ Cardinality(Later(x)) <= N /\ Cardinality(Later(x)) # N
    BY <2>1, FS_Subset
  <2>3. Cardinality(Later(x)) \in Nat
    BY <2>2, FS_CardinalityType
  <2> QED BY <1>1, <2>2, <2>3
<1>3. ASSUME NEW x \in E, NEW y \in E, at[x] > at[y]
      PROVE  Cardinality(Later(x)) < Cardinality(Later(y))
  <2>1. Later(x) \subseteq Later(y) /\ x \in Later(y) /\ x \notin Later(x)
    BY <1>3
  <2>2. Cardinality(Later(x)) <= Cardinality(Later(y)) /\ Cardinality(Later(x)) # Cardinality(Later(y))
    BY <1>2, <2>1, FS_Subset
  <2>3. Cardinality(Later(x)) \in Nat /\ Cardinality(Later(y)) \in Nat
    BY <1>2, FS_CardinalityType
  <2> QED BY <2>2, <2>3
<1> HIDE DEF Later
<1>4. rank \in [E -> 0 .. N - 1]
  BY <1>2
<1>5. ASSUME NEW x \in E, NEW y \in E, rank[x] = rank[y] PROVE x = y
  <2>1. rank[x] = Cardinality(Later(x)) /\ rank[y] = Cardinality(Later(y))
        /\ rank[x] \in Int /\ rank[y] \in Int
    BY <1>1, <1>4
  <2>2. ~ at[x] > at[y] /\ ~ at[y] > at[x]
    BY <1>3, <1>5, <2>1
  <2> QED BY <2>2
<1>6. F = Latest(E, at, k)
  BY DEF Latest, Later
<1> HIDE DEF rank
<1>7. \A i \in 0 .. N - 1 : \E x \in E : rank[x] = i
  <2>1. IsFiniteSet(0 .. N - 1) /\ Cardinality(0 .. N - 1) = N
    BY <1>1, FS_Interval
  <2>2. rank \in Injection(E, 0 .. N - 1)
    BY <1>4, <1>5 DEF Injection, IsInjective
  <2>3. rank \in Surjection(E, 0 .. N - 1)
    BY <2>1, <2>2, FS_Injection
  <2> QED BY <2>3 DEF Surjection
<1>8. m \in Nat /\ m <= N /\ m <= k /\ (m = N \/ m = k)
  BY <1>1
<1> HIDE DEF m
<1>9. Cardinality(F) = m
  <2> DEFINE f == [x \in F |-> rank[x]]
  <2>1. f \in [F -> 0 .. m - 1]
    BY <1>1, <1>4, <1>8
  <2>2. \A x, y \in F : f[x] = f[y] => x = y
    BY <1>5
  <2>3. \A i \in 0 .. m - 1 : \E x \in F : f[x] = i
    BY <1>1, <1>7, <1>8
  <2> HIDE DEF f
  <2>4. f \in Bijection(F, 0 .. m - 1)
    BY <2>1, <2>2, <2>3 DEF Bijection, Injection, Surjection, IsInjective
  <2>5. IsFiniteSet(F)
    BY FS_Subset
  <2>6. Cardinality(0 .. m - 1) = m
    BY <1>8, FS_Interval
  <2> QED BY <2>4, <2>5, <2>6, FS_Bijection DEF ExistsBijection
<1> QED BY <1>6, <1>9 DEF m

(* Every user has the one row he was answered for: the counts are then of   *)
(* those who chose.                                                         *)
Exact ==
  \A u \in users, t \in Targets :
    /\ RowsOf(u, t) = {} => asked[u][t] = "None"
    /\ \A x, y \in RowsOf(u, t) : x = y /\ reaction[x].status = asked[u][t]

(* The rows counted are one each of the users who last chose that side. *)
LEMMA CountedAreChoosers ==
  ASSUME IInv, Exact, NEW t \in Targets, ~blogBanned, NEW s \in {"Like", "Dislike"}
  PROVE  /\ IsFiniteSet(Counted(t, s))
         /\ \A x, y \in Counted(t, s) : reaction[x].user = reaction[y].user => x = y
         /\ {reaction[x].user : x \in Counted(t, s)} = Choosing(t, s)
         /\ Cardinality(Counted(t, s)) = Cardinality(Choosing(t, s))
<1> DEFINE E == Counted(t, s)
           C == Choosing(t, s)
<1>1. Tables /\ NoOrphans
  BY DEF IInv, Data
<1>2. IsFiniteSet(E)
  BY <1>1, FS_Subset DEF Counted, Tables
<1>3. ASSUME NEW x \in E
      PROVE  /\ reaction[x].user \in C
             /\ x \in RowsOf(reaction[x].user, t) /\ reaction[x].user \in User
  <2>1. /\ x \in Rows /\ reaction[x].target = t /\ reaction[x].status = s
        /\ reaction[x].user \in users \ banned /\ reaction[x].user \in User /\ t \in Target
    BY <1>1 DEF Counted, NoOrphans, Tables, Row
  <2>2. x \in RowsOf(reaction[x].user, t)
    BY <2>1 DEF RowsOf
  <2>3. reaction[x].status = asked[reaction[x].user][t]
    BY <2>1, <2>2 DEF Exact
  <2> QED BY <2>1, <2>2, <2>3 DEF Choosing
<1>4. ASSUME NEW x \in E, NEW y \in E, reaction[x].user = reaction[y].user PROVE x = y
  BY <1>1, <1>3, <1>4 DEF Exact, Choosing
<1>5. ASSUME NEW u \in C PROVE \E x \in E : reaction[x].user = u
  <2>1. u \in users \ banned /\ asked[u][t] = s /\ u \in User /\ t \in Target
    BY <1>1 DEF Choosing, Tables
  <2>2. RowsOf(u, t) # {}
    BY <2>1 DEF Exact
  <2>3. PICK x \in RowsOf(u, t) : reaction[x].status = s
    BY <1>1, <2>1, <2>2 DEF Exact
  <2> QED BY <2>1, <2>3 DEF Counted, RowsOf
<1>6. {reaction[x].user : x \in E} = C
  BY <1>3, <1>5
<1>7. Cardinality(E) = Cardinality(C)
  <2> DEFINE f == [x \in E |-> reaction[x].user]
  <2> HIDE DEF E, C
  <2>1. f \in [E -> C] /\ \A x \in E : f[x] = reaction[x].user
    BY <1>3
  <2> HIDE DEF f
  <2>2. f \in Bijection(E, C)
    BY <1>4, <1>5, <2>1 DEF Bijection, Injection, Surjection, IsInjective
  <2> QED BY <1>2, <2>2, FS_Bijection DEF ExistsBijection
<1> QED BY <1>2, <1>4, <1>6, <1>7

(* What a view has found out so far is what the tables say now. *)
Asking == {"likes", "dislikes", "newest", "mine", "respond"}
Likers(t) == {reaction[x].user : x \in NewestOf(Counted(t, "Like"))}
Seen(q) ==
  /\ q.pc \in Asking => q.target \in Targets /\ Visible(q.target)
  /\ q.pc \in Asking \ {"likes"} => q.likes = Cardinality(Counted(q.target, "Like"))
  /\ q.pc \in Asking \ {"likes", "dislikes"} => q.dislikes = Cardinality(Counted(q.target, "Dislike"))
  /\ q.pc \in {"mine", "respond"} /\ q.target \in Post => q.newest = Likers(q.target)
  /\ q.pc \in Asking \ {"respond"} => q.status = "None"
  /\ q.pc = "respond" /\ q.user \in users \ banned => q.status = asked[q.user][q.target]
AllSeen == \A r \in Req : Seen(req[r])

(***************************************************************************)
(* The overlaps that spoil a view: two requests of one user for one target, *)
(* and a view while something is written or about to be answered.           *)
(* Everything else may overlap, views with views and users with users.      *)
(***************************************************************************)
Viewing == \E r \in Req : req[r].pc \in Asking
QuietView == Viewing => UNCHANGED tables
NoneWaiting == Viewing => \A r \in Req : req[r].pc # "answer"

(* Without them the rows are the answers, while somebody looks. *)
LEMMA ExactView ==
  ASSUME Choices, raced = {}, NoneWaiting, Viewing
  PROVE  Exact
<1> SUFFICES ASSUME NEW u \in users, NEW t \in Targets
             PROVE  /\ RowsOf(u, t) = {} => asked[u][t] = "None"
                    /\ \A x, y \in RowsOf(u, t) : x = y /\ reaction[x].status = asked[u][t]
  BY DEF Exact
<1>1. Unasked(u, t) /\ OneRow(u, t)
  BY DEF Choices, Told
<1>2. Written(u, t) = {}
  BY DEF Written, Past, NoneWaiting
<1> QED
  BY <1>1, <1>2 DEF Unasked, OneRow

(* While a view is in flight no table changes, so what it found stays true. *)
LEMMA SeenNext ==
  ASSUME IInv, Viewing => Exact, AllSeen, Next, QuietView, NEW r0 \in Req
  PROVE  Seen(req[r0])'
<1> DEFINE q == req[r0]
<1>1. Tables /\ req \in [Req -> Request] /\ q \in Request /\ Seen(q)
  BY DEF IInv, Data, AllSeen
<1>2. Idle.pc = "idle" /\ Idle.status = "None"
  BY DEF Idle
<1>3. ASSUME req'[r0].pc \notin Asking PROVE Seen(req[r0])'
  BY <1>3 DEF Seen, Asking
<1>4. ASSUME NEW p, UNCHANGED tables, req'[r0] = p, Seen(p) PROVE Seen(req[r0])'
  <2>1. /\ Targets' = Targets /\ Rows' = Rows
        /\ UNCHANGED <<users, banned, target, blogBanned, reaction, gone, asked>>
    BY <1>4 DEF tables, Targets, Rows
  <2>2. /\ \A t : Visible(t)' = Visible(t)
        /\ \A t, s : Counted(t, s)' = Counted(t, s)
    BY <2>1 DEF Visible, Counted
  <2>3. \A t : Likers(t)' = Likers(t)
    BY <2>1, <2>2 DEF Likers, NewestOf
  <2> QED BY <1>4, <2>1, <2>2, <2>3 DEF Seen
<1>5. ASSUME req'[r0] = req[r0] PROVE Seen(req[r0])'
  <2>1. CASE q.pc \in Asking
    BY <1>1, <1>4, <1>5, <2>1 DEF QuietView, Viewing
  <2>2. CASE q.pc \notin Asking
    BY <1>3, <1>5, <2>2
  <2> QED BY <2>1, <2>2
<1>6. ASSUME NEW r \in Req, NEW p, req' = [req EXCEPT ![r] = p], req'[r0] # req[r0] PROVE r = r0
  BY <1>1, <1>6
<1>8. ASSUME NEW u \in users, NEW t \in Targets, NEW s \in Status, ReactFind(r0, u, t, s)
      PROVE  Seen(req[r0])'
  <2>1. req'[r0].pc = "user"
    BY <1>1, <1>8 DEF ReactFind, Start, Idle
  <2> QED BY <1>3, <2>1 DEF Asking
<1>9. ASSUME ReactUserFind(r0) PROVE Seen(req[r0])'
  <2>1. req'[r0].pc \in {"find", "idle"}
    BY <1>1, <1>2, <1>9 DEF ReactUserFind, Goto, Finish, Next1, Request
  <2> QED BY <1>3, <2>1 DEF Asking
<1>10. ASSUME ReactionFind(r0) PROVE Seen(req[r0])'
  <2>1. req'[r0].pc \in {"create", "update"}
    BY <1>1, <1>10 DEF ReactionFind, Goto, Next1, Request
  <2> QED BY <1>3, <2>1 DEF Asking
<1>11. ASSUME NEW u \in User \cup {None}, NEW t \in Targets, ViewFind(r0, u, t)
       PROVE  Seen(req[r0])'
  <2> DEFINE p == [Idle EXCEPT !.pc = "likes", !.user = u, !.target = t]
  <2>1. p.pc = "likes" /\ p.target = t /\ p.status = "None"
    BY DEF Idle
  <2>2. req'[r0] = p /\ UNCHANGED tables /\ Visible(t)
    BY <1>1, <1>11 DEF ViewFind, Start
  <2> HIDE DEF p
  <2>3. Seen(p)
    BY <2>1, <2>2 DEF Seen, Asking
  <2> QED BY <1>4, <2>2, <2>3
<1>12. ASSUME ViewLikes(r0) PROVE Seen(req[r0])'
  <2>1. PICK n : n = Cardinality(Counted(q.target, "Like"))
    OBVIOUS
  <2> DEFINE p == [q EXCEPT !.pc = "dislikes", !.likes = n]
  <2>2. req'[r0] = p /\ UNCHANGED tables /\ q.pc = "likes"
    BY <1>1, <1>12, <2>1 DEF ViewLikes, Goto, Next1
  <2>3. p.pc = "dislikes" /\ p.target = q.target /\ p.status = q.status /\ p.likes = n
    BY <1>1 DEF Request
  <2> HIDE DEF p
  <2>4. Seen(p)
    BY <1>1, <2>1, <2>2, <2>3 DEF Seen, Asking
  <2> QED BY <1>4, <2>2, <2>4
<1>13. ASSUME ViewDislikes(r0) PROVE Seen(req[r0])'
  <2>1. PICK n : n = Cardinality(Counted(q.target, "Dislike"))
    OBVIOUS
  <2>2. PICK to \in {"newest", "mine"} : to = IF q.target \in Post THEN "newest" ELSE "mine"
    OBVIOUS
  <2> DEFINE p == [q EXCEPT !.pc = to, !.dislikes = n]
  <2>3. req'[r0] = p /\ UNCHANGED tables /\ q.pc = "dislikes"
    BY <1>1, <1>13, <2>1, <2>2 DEF ViewDislikes, Goto, Next1
  <2>4. p.pc = to /\ p.target = q.target /\ p.status = q.status /\ p.likes = q.likes /\ p.dislikes = n
    BY <1>1 DEF Request
  <2> HIDE DEF p
  <2>5. Seen(p)
    BY <1>1, <2>1, <2>2, <2>3, <2>4 DEF Seen, Asking
  <2> QED BY <1>4, <2>3, <2>5
<1>14. ASSUME ViewNewest(r0) PROVE Seen(req[r0])'
  <2>1. PICK n : n = Likers(q.target)
    OBVIOUS
  <2> DEFINE p == [q EXCEPT !.pc = "mine", !.newest = n]
  <2>2. req'[r0] = p /\ UNCHANGED tables /\ q.pc = "newest"
    BY <1>1, <1>14, <2>1 DEF ViewNewest, Goto, Next1, Likers
  <2>3. /\ p.pc = "mine" /\ p.target = q.target /\ p.status = q.status /\ p.likes = q.likes
        /\ p.dislikes = q.dislikes /\ p.newest = n
    BY <1>1 DEF Request
  <2> HIDE DEF p
  <2>4. Seen(p)
    BY <1>1, <2>1, <2>2, <2>3 DEF Seen, Asking
  <2> QED BY <1>4, <2>2, <2>4
<1>15. ASSUME ViewMine(r0) PROVE Seen(req[r0])'
  <2> DEFINE E == IF q.user \in banned \/ (q.target \in Post /\ blogBanned) THEN {}
                  ELSE RowsOf(q.user, q.target)
             mine(s) == q.user \in users \ banned => s = asked[q.user][q.target]
  <2>1. q.pc = "mine" /\ UNCHANGED tables
    BY <1>15 DEF ViewMine, Goto
  <2>2. q.target \in Targets /\ ~blogBanned /\ q.status = "None"
    BY <1>1, <2>1 DEF Seen, Asking, Visible
  <2>5. Exact
    BY <2>1 DEF Viewing, Asking
  <2>3. CASE E = {} /\ Goto(r0, "mine", Next1(r0, "respond"))
    <3> DEFINE p == [q EXCEPT !.pc = "respond"]
    <3>1. req'[r0] = p
      BY <1>1, <2>3 DEF Goto, Next1
    <3>2. /\ p.pc = "respond" /\ p.target = q.target /\ p.status = "None" /\ p.likes = q.likes
          /\ p.dislikes = q.dislikes /\ p.newest = q.newest /\ p.user = q.user
      BY <1>1, <2>2 DEF Request
    <3>3. q.user \in users \ banned => asked[q.user][q.target] = "None"
      BY <2>2, <2>3, <2>5 DEF Exact
    <3> HIDE DEF p
    <3>4. Seen(p)
      BY <1>1, <2>1, <3>2, <3>3 DEF Seen, Asking
    <3> QED BY <1>4, <2>1, <3>1, <3>4
  <2>4. ASSUME NEW x \in E, Goto(r0, "mine", [Next1(r0, "respond") EXCEPT !.status = reaction[x].status])
        PROVE  Seen(req[r0])'
    <3>1. PICK s : s = reaction[x].status
      OBVIOUS
    <3> DEFINE p == [q EXCEPT !.pc = "respond", !.status = s]
    <3>2. req'[r0] = p
      BY <1>1, <2>4, <3>1 DEF Goto, Next1
    <3>3. /\ p.pc = "respond" /\ p.target = q.target /\ p.status = s /\ p.likes = q.likes
          /\ p.dislikes = q.dislikes /\ p.newest = q.newest /\ p.user = q.user
      BY <1>1 DEF Request
    <3>4. ASSUME q.user \in users \ banned PROVE s = asked[q.user][q.target]
      <4>1. x \in RowsOf(q.user, q.target) /\ q.user \in User /\ q.target \in Target
        BY <1>1, <2>2, <3>4 DEF Tables
      <4> QED BY <2>2, <2>5, <3>1, <3>4, <4>1 DEF Exact
    <3> HIDE DEF p
    <3>5. Seen(p)
      BY <1>1, <2>1, <3>3, <3>4 DEF Seen, Asking
    <3> QED BY <1>4, <2>1, <3>2, <3>5
  <2> QED BY <1>15, <2>3, <2>4 DEF ViewMine
<1>16. ASSUME \/ \E x \in Reaction : CreateReaction(r0, x)
              \/ UpdateReaction(r0) \/ Answer(r0) \/ WriteFails(r0) \/ Respond(r0)
       PROVE  Seen(req[r0])'
  <2>1. req'[r0].pc \in {"idle", "answer"}
    BY <1>1, <1>2, <1>16
    DEF CreateReaction, UpdateReaction, Answer, WriteFails, Respond, Finish, Goto, Next1, Request
  <2> QED BY <1>3, <2>1 DEF Asking
<1> DEFINE G == Seen(req[r0])'
<1> HIDE DEF G, q
<1>17. CASE req'[r0] = req[r0]
  BY <1>5, <1>17 DEF G
<1>18. CASE req'[r0] # req[r0]
  <2>1. ASSUME NEW r \in Req,
               \/ \E u \in users, t \in Targets, x \in Status : ReactFind(r, u, t, x)
               \/ \E u \in User \cup {None}, t \in Targets : ViewFind(r, u, t)
        PROVE  G
    <3>1. r = r0
      BY <1>6, <1>18, <2>1 DEF ReactFind, ViewFind, Start
    <3> QED BY <1>8, <1>11, <2>1, <3>1 DEF G
  <2>2. ASSUME NEW r \in Req, ReactUserFind(r) \/ ReactionFind(r) \/ ViewNewest(r) \/ ViewMine(r) PROVE G
    <3>1. r = r0
      BY <1>6, <1>18, <2>2 DEF ReactUserFind, ReactionFind, ViewNewest, ViewMine, Goto, Finish
    <3> QED BY <1>9, <1>10, <1>14, <1>15, <2>2, <3>1 DEF G
  <2>3. ASSUME NEW r \in Req, ViewLikes(r) \/ ViewDislikes(r) PROVE G
    <3>1. r = r0
      BY <1>6, <1>18, <2>3 DEF ViewLikes, ViewDislikes, Goto
    <3> QED BY <1>12, <1>13, <2>3, <3>1 DEF G
  <2>4. ASSUME NEW r \in Req,
               \/ \E x \in Reaction : CreateReaction(r, x)
               \/ UpdateReaction(r) \/ Answer(r) \/ WriteFails(r) \/ Respond(r)
        PROVE  G
    <3>1. r = r0
      BY <1>6, <1>18, <2>4 DEF CreateReaction, UpdateReaction, Answer, WriteFails, Respond, Finish, Goto
    <3> QED BY <1>16, <2>4, <3>1 DEF G
  <2>5. ASSUME NEW r \in Req,
               \/ \E u \in users : AdminBan(r, u) \/ DeleteUser(r, u)
               \/ BanBlog(r) \/ \E t \in Targets : DeleteTarget(r, t)
        PROVE  G
    BY <1>18, <2>5 DEF AdminBan, BanBlog, DeleteUser, DeleteTarget
  <2> QED
    BY <2>1, <2>2, <2>3, <2>4, <2>5 DEF Next, Act, G
<1> QED
  BY <1>17, <1>18 DEF G

(* When no two requests of a user for one target overlap, and nothing is    *)
(* written or about to be answered under a view, the answer to a GET agrees *)
(* with what users were last answered for: the counts, the newest likes and *)
(* the viewer's own choice.                                                 *)
THEOREM ViewsAreExact == Spec /\ [](raced = {}) /\ []NoneWaiting /\ [][QuietView]_vars => []ViewExact
<1>1. Init => Ages
  BY DEF Init, Ages, Rows
<1>2. Choices /\ raced = {} /\ NoneWaiting => (Viewing => Exact)
  BY ExactView
<1>3. Init => AllSeen
  BY DEF Init, AllSeen, Seen, Asking, Idle
<1>4. AllSeen /\ IInv /\ (Viewing => Exact) /\ [Next]_vars /\ [QuietView]_vars => AllSeen'
  <2> SUFFICES ASSUME AllSeen, IInv, Viewing => Exact, [Next]_vars, [QuietView]_vars PROVE AllSeen'
    OBVIOUS
  <2>1. CASE Next /\ QuietView
    BY <2>1, SeenNext DEF AllSeen
  <2>2. CASE UNCHANGED vars
    <3>1. /\ Targets' = Targets /\ Rows' = Rows
          /\ UNCHANGED <<users, banned, target, blogBanned, reaction, asked, req>>
      BY <2>2 DEF vars, Targets, Rows
    <3>2. (\A t : Visible(t)' = Visible(t)) /\ \A t, s : Counted(t, s)' = Counted(t, s)
      BY <3>1 DEF Visible, Counted
    <3>3. \A t : Likers(t)' = Likers(t)
      BY <3>1, <3>2 DEF Likers, NewestOf
    <3> QED BY <3>1, <3>2, <3>3 DEF AllSeen, Seen
  <2> QED BY <2>1, <2>2
<1>5. AllSeen /\ IInv /\ (Viewing => Exact) /\ Ages => ViewExact
  <2> SUFFICES ASSUME AllSeen, IInv, Viewing => Exact, Ages, NEW r \in Req, req[r].pc = "respond"
               PROVE
    LET q == req[r]
        likers == Choosing(q.target, "Like") IN
    /\ q.likes = Cardinality(likers)
    /\ q.dislikes = Cardinality(Choosing(q.target, "Dislike"))
    /\ q.target \in Post => /\ q.newest \subseteq likers
                            /\ Cardinality(q.newest) = IF q.likes < Take THEN q.likes ELSE Take
    /\ q.user \in users \ banned => q.status = asked[q.user][q.target]
    BY DEF ViewExact
  <2> DEFINE q == req[r]
             E == Counted(q.target, "Like")
             A == NewestOf(E)
  <2>1. /\ q.target \in Targets /\ ~blogBanned
        /\ q.likes = Cardinality(E) /\ q.dislikes = Cardinality(Counted(q.target, "Dislike"))
        /\ q.target \in Post => q.newest = Likers(q.target)
        /\ q.user \in users \ banned => q.status = asked[q.user][q.target]
    BY DEF AllSeen, Seen, Asking, Visible
  <2>2. /\ IsFiniteSet(E)
        /\ \A x, y \in E : reaction[x].user = reaction[y].user => x = y
        /\ {reaction[x].user : x \in E} = Choosing(q.target, "Like")
        /\ Cardinality(E) = Cardinality(Choosing(q.target, "Like"))
        /\ Cardinality(Counted(q.target, "Dislike")) = Cardinality(Choosing(q.target, "Dislike"))
    <3>1. Exact
      BY DEF Viewing, Asking
    <3> QED
      BY <2>1, <3>1, CountedAreChoosers
  <2>3. A \subseteq E
    BY DEF NewestOf
  <2>4. Likers(q.target) = {reaction[x].user : x \in A}
    BY DEF Likers
  <2>5. Cardinality(Likers(q.target)) = Cardinality(A)
    <3> DEFINE f == [x \in A |-> reaction[x].user]
    <3> HIDE DEF A, E
    <3>1. f \in [A -> Likers(q.target)] /\ \A x \in A : f[x] = reaction[x].user
      BY <2>4
    <3> HIDE DEF f
    <3>2. f \in Bijection(A, Likers(q.target))
      BY <2>2, <2>3, <2>4, <3>1 DEF Bijection, Injection, Surjection, IsInjective
    <3>3. IsFiniteSet(A)
      BY <2>2, <2>3, FS_Subset
    <3> QED BY <3>2, <3>3, FS_Bijection DEF ExistsBijection
  <2>6. Cardinality(A) = IF Cardinality(E) < Take THEN Cardinality(E) ELSE Take
    <3> DEFINE at == [x \in E |-> reaction[x].at]
    <3>1. E \subseteq Rows /\ \A x \in E : reaction[x].at \in Nat
      BY DEF Counted, IInv, Data, Tables, Row
    <3>2. \A x, y \in E : at[x] = at[y] => x = y
      BY <3>1 DEF Ages
    <3>3. A = Latest(E, at, Take)
      <4>1. \A x \in E : {y \in E : at[y] > at[x]} = {y \in E : reaction[y].at > reaction[x].at}
        OBVIOUS
      <4> HIDE DEF E, at
      <4> QED BY <4>1 DEF NewestOf, Latest
    <3>4. at \in [E -> Int]
      BY <3>1
    <3> HIDE DEF at, E, A
    <3> QED BY <2>2, <3>2, <3>3, <3>4, NewestCount, TakeAssumption
  <2>7. Likers(q.target) \subseteq Choosing(q.target, "Like")
    BY <2>2, <2>3, <2>4
  <2> HIDE DEF E, A
  <2> QED BY <2>1, <2>2, <2>5, <2>6, <2>7
<1> QED
  BY <1>1, <1>2, <1>3, <1>4, <1>5, AgesNext, Invariance, ChoicesHold, PTL DEF Spec

(* One request at a time is such a run: an only request cannot overlap.     *)
COROLLARY ViewsAloneAreExact == ASSUME Cardinality(Req) = 1 PROVE Spec => []ViewExact
<1>1. PICK r0 : Req = {r0}
  BY ReqAssumption, FS_Singleton
<1>2. Init => raced = {}
  BY DEF Init
<1>4. raced = {} /\ [Next]_vars => (raced = {})'
  BY <1>1 DEF Next, Watch, Past, vars
<1>5. NoneWaiting
  BY <1>1 DEF NoneWaiting, Viewing, Asking
<1>3. [Next]_vars => [QuietView]_vars
  <2> SUFFICES ASSUME Next, req[r0].pc \in Asking PROVE UNCHANGED tables
    BY <1>1 DEF QuietView, Viewing
  <2>1. \A r \in Req : req[r] # Idle /\ req[r].pc \notin {"create", "update", "answer"}
    BY <1>1 DEF Idle, Asking
  <2> QED
    BY <2>1 DEF Next, Act, ReactFind, ReactUserFind, ReactionFind, CreateReaction, UpdateReaction, WriteFails,
       Answer, ViewFind, ViewLikes, ViewDislikes, ViewNewest, ViewMine, Respond, AdminBan, BanBlog, DeleteUser,
       DeleteTarget, Goto, Finish
<1> QED
  BY <1>2, <1>3, <1>4, <1>5, ViewsAreExact, PTL DEF Spec
=============================================================================
