------------------------------- MODULE Paging -------------------------------
(***************************************************************************)
(* What a client that walks a list page by page may rely on, whatever the  *)
(* list.  Every list runs findMany with skip, take and one sort key, then  *)
(* count with the same filter, as two queries; between any two queries the *)
(* rows shown may change in any way: rows are added, removed, hidden, and  *)
(* an update of a name or title gives a row another key.  Rows with equal  *)
(* keys come in an order PostgreSQL chooses anew for every query.          *)
(*   Lists implements WalkSpec.                                            *)
(***************************************************************************)
EXTENDS Integers, FiniteSets

CONSTANTS
  Row,       \* ids of rows
  Key,       \* values of the sort key, negated when the direction is desc
  PageSize   \* take; the DTOs keep it at least 1

ASSUME KeyAssumption == Key \subseteq Int
ASSUME RowAssumption == IsFiniteSet(Row)
ASSUME PageAssumption == PageSize \in Nat \ {0}

VARIABLES
  shown,  \* the rows of the list walked, with their keys; empty without a walk
  walk,   \* the client's request: its page number and the rows of its page
  due,    \* history: rows shown ever since the walk began, not read yet, and
          \* with a key of their own at every read; none once a row has left
  read    \* history: rows with a key of their own when they were read; none
          \* once a row has come

vars == <<shown, walk, due, read>>
walkVars == <<shown, walk>>

Shown == DOMAIN shown
Before(x) == {y \in Shown : shown[y] < shown[x]}
Untied(x) == \A y \in Shown \ {x} : shown[y] # shown[x]

Lower(A) == \A x \in A : Before(x) \subseteq A
AtMost(k, S) == IF Cardinality(S) < k THEN Cardinality(S) ELSE k
(* Mutant: skip is pageNumber * pageSize. *)
IsPageSkipsFirst(I, n) ==
  \E A \in SUBSET (Shown \ I) :
    /\ Cardinality(A) = AtMost(n * PageSize, Shown)
    /\ Cardinality(A \cup I) = AtMost((n + 1) * PageSize, Shown)
    /\ Lower(A) /\ Lower(A \cup I)
(* Mutant: skip is (pageNumber - 1) * (pageSize - 1). *)
IsPageOverlaps(I, n) ==
  \E A \in SUBSET (Shown \ I) :
    /\ Cardinality(A) = AtMost((n - 1) * (PageSize - 1), Shown)
    /\ Cardinality(A \cup I) = AtMost((n - 1) * (PageSize - 1) + PageSize, Shown)
    /\ Lower(A) /\ Lower(A \cup I)
(* I is a page of the list in some order of its equal keys: A is what skip  *)
(* passes over, and no row left is before a row taken.                      *)
IsPage(I, n) ==
  \E A \in SUBSET (Shown \ I) :
    /\ Cardinality(A) = AtMost((n - 1) * PageSize, Shown)
    /\ Cardinality(A \cup I) = AtMost(n * PageSize, Shown)
    /\ Lower(A) /\ Lower(A \cup I)

-----------------------------------------------------------------------------
(* The steps of a walk, without the history. *)
Idle == [pc |-> "idle", n |-> 0, items |-> {}]

(* Any rows, with any keys. *)
Reorder == \E S \in SUBSET Row : shown' \in [S -> Key]

StartWalk ==
  /\ walk = Idle
  /\ Reorder
  /\ walk' = [pc |-> "check", n |-> 1, items |-> {}]
EndWalk == walk' = Idle /\ shown' = << >>
(* What the controller looks up first is not there: 404 or 403. *)
Refuse == walk.pc = "check" /\ EndWalk
Accept ==
  /\ walk.pc = "check"
  /\ walk' = [walk EXCEPT !.pc = "page"]
  /\ UNCHANGED shown
ReadPage(I) ==
  /\ walk.pc = "page"
  /\ IsPage(I, walk.n)
  /\ walk' = [walk EXCEPT !.pc = "count", !.items = I]
  /\ UNCHANGED shown
(* The total tells the client whether there is another page. *)
More == walk.n * PageSize < Cardinality(Shown)
NextPage ==
  /\ walk.pc = "count" /\ More
  /\ walk' = [pc |-> "check", n |-> walk.n + 1, items |-> {}]
  /\ UNCHANGED shown
LastPage == walk.pc = "count" /\ ~More /\ EndWalk
Change ==
  /\ walk # Idle
  /\ Reorder
  /\ UNCHANGED walk

WalkInit == shown = << >> /\ walk = Idle
WalkNext ==
  \/ StartWalk \/ Refuse \/ Accept \/ NextPage \/ LastPage \/ Change
  \/ \E I \in SUBSET Shown : ReadPage(I)
WalkSpec == WalkInit /\ [][WalkNext]_walkVars

-----------------------------------------------------------------------------
(* The same with the history.  A row that gets another key has both left   *)
(* and come.                                                               *)
Left == \E x \in Shown : x \notin DOMAIN shown' \/ shown'[x] # shown[x]
Came == \E x \in DOMAIN shown' : x \notin Shown \/ shown'[x] # shown[x]

Init == WalkInit /\ due = {} /\ read = {}

Step ==
  /\ Accept \/ NextPage
  /\ UNCHANGED <<due, read>>
Begin == StartWalk /\ due' = DOMAIN shown' /\ read' = {}
End == (Refuse \/ LastPage) /\ due' = {} /\ read' = {}
Read ==
  \E I \in SUBSET Shown :
    /\ ReadPage(I)
    /\ due' = {x \in due \ I : Untied(x)}
    /\ read' = read \cup {x \in I : Untied(x)}
Watch ==
  /\ Change
  /\ due' = IF Left THEN {} ELSE due
  /\ read' = IF Came THEN {} ELSE read

Next == Begin \/ Step \/ Read \/ End \/ Watch

Spec == Init /\ [][Next]_vars

-----------------------------------------------------------------------------
(***************************************************************************)
(* Properties.                                                             *)
(***************************************************************************)
TypeOK ==
  /\ Shown \subseteq Row /\ shown \in [Shown -> Key]
  /\ walk \in [pc : {"idle", "check", "page", "count"}, n : Nat, items : SUBSET Row]
  /\ walk.pc # "idle" => walk.n \in Nat \ {0}
  /\ due \subseteq Shown
  /\ read \subseteq Row

(* A client that walks a list to its last page has read every row that was  *)
(* there all along and shares its key with no other, whatever rows come     *)
(* between its pages or between the two queries of one page                 *)
(* (comments.query.sql.repository.ts:39 and 63); once a row has left, or a  *)
(* tie was broken by chance, rows may be skipped.                           *)
NothingSkipped == [][walk.pc = "count" /\ ~More /\ walk' = Idle => due = {}]_vars

(* No row with a key of its own is read twice, unless a row came since      *)
(* (comments.query.sql.repository.ts:40).                                   *)
NothingRepeated ==
  [][walk.pc = "page" /\ walk'.pc = "count" => walk'.items \cap read = {}]_vars
=============================================================================
