---------------------------- MODULE PagingProofs ----------------------------
(***************************************************************************)
(* Theorems of Paging, for any rows, any keys and any page size.           *)
(***************************************************************************)
EXTENDS Paging, FiniteSetTheorems, TLAPS

(* The bounds on the places of the rows due and read: how many rows come    *)
(* before one compares with how many rows the pages so far have covered.    *)
Covered == IF walk.pc = "count" THEN walk.n * PageSize ELSE (walk.n - 1) * PageSize
DueBehind == walk.pc # "idle" => \A x \in due : Covered <= Cardinality(Before(x))
ReadAhead ==
  walk.pc # "idle" =>
    \A x \in read \cap Shown : Untied(x) /\ Cardinality(Before(x)) < Covered
IInv == TypeOK /\ DueBehind /\ ReadAhead

(* Rows before a row, and their number. *)
LEMMA BeforeFacts ==
  ASSUME TypeOK
  PROVE  /\ IsFiniteSet(Shown) /\ Cardinality(Shown) \in Nat
         /\ \A S \in SUBSET Shown : IsFiniteSet(S) /\ Cardinality(S) \in Nat
         /\ \A x \in Shown : x \notin Before(x) /\ Before(x) \subseteq Shown
         /\ \A x \in Shown : Cardinality(Before(x)) \in Nat
                             /\ Cardinality(Before(x)) < Cardinality(Shown)
<1>1. IsFiniteSet(Shown) /\ \A S \in SUBSET Shown : IsFiniteSet(S)
  BY RowAssumption, FS_Subset DEF TypeOK
<1>2. \A S \in SUBSET Shown : Cardinality(S) \in Nat
  BY <1>1, FS_CardinalityType
<1>3. \A x \in Shown : shown[x] \in Int
  BY KeyAssumption DEF TypeOK
<1>4. \A x \in Shown : x \notin Before(x) /\ Before(x) \subseteq Shown
  BY <1>3 DEF Before
<1>5. ASSUME NEW x \in Shown
      PROVE  Cardinality(Before(x)) \in Nat /\ Cardinality(Before(x)) < Cardinality(Shown)
  <2>1. Before(x) \subseteq Shown /\ Before(x) # Shown
    BY <1>4
  <2>2. Cardinality(Before(x)) <= Cardinality(Shown) /\ Cardinality(Before(x)) # Cardinality(Shown)
    BY <1>1, <2>1, FS_Subset
  <2>3. Cardinality(Before(x)) \in Nat /\ Cardinality(Shown) \in Nat
    BY <1>2, <2>1
  <2> QED BY <2>2, <2>3
<1> QED BY <1>1, <1>2, <1>4, <1>5

(* A set of rows closed under "before" that holds x holds all rows before   *)
(* it; one that does not hold x, whose key is its own, has only rows before *)
(* it.                                                                      *)
LEMMA LowerSide ==
  ASSUME TypeOK, NEW A \in SUBSET Shown, Lower(A), NEW x \in Shown
  PROVE  /\ x \in A => Cardinality(Before(x)) < Cardinality(A)
         /\ x \notin A /\ Untied(x) =>
              /\ Cardinality(A) <= Cardinality(Before(x))
              /\ Cardinality(A) < Cardinality(Shown)
<1>1. IsFiniteSet(A) /\ Cardinality(A) \in Nat /\ IsFiniteSet(Before(x))
      /\ Cardinality(Before(x)) \in Nat /\ Cardinality(Before(x)) < Cardinality(Shown)
      /\ Cardinality(Shown) \in Nat
  BY BeforeFacts
<1>2. ASSUME x \in A PROVE Cardinality(Before(x)) < Cardinality(A)
  <2>1. Before(x) \subseteq A /\ Before(x) # A
    BY <1>2, BeforeFacts DEF Lower
  <2>2. Cardinality(Before(x)) <= Cardinality(A) /\ Cardinality(Before(x)) # Cardinality(A)
    BY <1>1, <2>1, FS_Subset
  <2> QED BY <1>1, <2>2
<1>3. ASSUME x \notin A, Untied(x)
      PROVE  Cardinality(A) <= Cardinality(Before(x)) /\ Cardinality(A) < Cardinality(Shown)
  <2>1. \A y \in Shown : shown[y] \in Int
    BY KeyAssumption DEF TypeOK
  <2>2. A \subseteq Before(x)
    BY <1>3, <2>1 DEF Lower, Untied, Before
  <2>3. Cardinality(A) <= Cardinality(Before(x))
    BY <1>1, <2>2, FS_Subset
  <2> QED BY <1>1, <2>3
<1> QED BY <1>2, <1>3

(* What reading a page does to the places of the rows. *)
LEMMA PageSides ==
  ASSUME IInv, walk.pc = "page", NEW I \in SUBSET Shown, IsPage(I, walk.n), NEW x \in Shown
  PROVE  /\ x \in due \ I /\ Untied(x) => walk.n * PageSize <= Cardinality(Before(x))
         /\ x \in read => x \notin I
         /\ x \in read \cup I => Cardinality(Before(x)) < walk.n * PageSize
<1> DEFINE m == (walk.n - 1) * PageSize
           k == walk.n * PageSize
           B == Cardinality(Before(x))
<1>1. TypeOK /\ m \in Int /\ k \in Int
  BY PageAssumption DEF IInv, TypeOK
<1>2. PICK A \in SUBSET (Shown \ I) :
        /\ Cardinality(A) = AtMost(m, Shown)
        /\ Cardinality(A \cup I) = AtMost(k, Shown)
        /\ Lower(A) /\ Lower(A \cup I)
  BY DEF IsPage
<1>3. A \in SUBSET Shown /\ A \cup I \in SUBSET Shown
  OBVIOUS
<1>4. Cardinality(A) \in Nat /\ Cardinality(A \cup I) \in Nat /\ Cardinality(Shown) \in Nat /\ B \in Nat
  BY <1>1, <1>3, BeforeFacts
<1>5. /\ Cardinality(A) <= m /\ (Cardinality(A) < Cardinality(Shown) => Cardinality(A) = m)
      /\ Cardinality(A \cup I) <= k
      /\ (Cardinality(A \cup I) < Cardinality(Shown) => Cardinality(A \cup I) = k)
  BY <1>1, <1>2, <1>4 DEF AtMost
<1>6. /\ x \in A => B < Cardinality(A)
      /\ x \notin A /\ Untied(x) => Cardinality(A) <= B /\ Cardinality(A) < Cardinality(Shown)
  BY <1>1, <1>2, <1>3, LowerSide
<1>7. /\ x \in A \cup I => B < Cardinality(A \cup I)
      /\ x \notin A \cup I /\ Untied(x) =>
           Cardinality(A \cup I) <= B /\ Cardinality(A \cup I) < Cardinality(Shown)
  BY <1>1, <1>2, <1>3, LowerSide
<1>8. /\ x \in due => m <= B
      /\ x \in read => Untied(x) /\ B < m
  BY DEF IInv, DueBehind, ReadAhead, Covered
<1>9. ASSUME x \in due \ I, Untied(x) PROVE k <= B
  <2>1. x \notin A
    BY <1>1, <1>4, <1>5, <1>6, <1>8, <1>9
  <2> QED BY <1>1, <1>4, <1>5, <1>7, <1>9, <2>1
<1>10. x \in read => x \in A
  BY <1>1, <1>4, <1>5, <1>6, <1>8
<1>11. x \in read \cup I => B < k
  BY <1>1, <1>4, <1>5, <1>7, <1>10
<1> QED BY <1>2, <1>9, <1>10, <1>11

(* A change of the rows under a walk: with no row come, only rows remain    *)
(* that were there, before the same others; with no row left, all remain.   *)
LEMMA ChangeSides ==
  ASSUME TypeOK, TypeOK', NEW x
  PROVE  /\ ~Came /\ x \in Shown' =>
              /\ x \in Shown /\ (Untied(x) => Untied(x)')
              /\ Cardinality(Before(x))' <= Cardinality(Before(x))
         /\ ~Left /\ x \in Shown =>
              x \in Shown' /\ Cardinality(Before(x)) <= Cardinality(Before(x))'
<1>1. ASSUME ~Came, x \in Shown'
      PROVE  /\ x \in Shown /\ (Untied(x) => Untied(x)')
             /\ Cardinality(Before(x))' <= Cardinality(Before(x))
  <2>1. \A y \in DOMAIN shown' : y \in DOMAIN shown /\ shown'[y] = shown[y]
    BY <1>1 DEF Came, Shown
  <2>2. x \in Shown /\ (Untied(x) => Untied(x)')
    BY <1>1, <2>1 DEF Untied, Shown
  <2>3. Before(x)' \subseteq Before(x)
    BY <1>1, <2>1 DEF Before, Shown
  <2>4. IsFiniteSet(Before(x))
    BY <2>2, BeforeFacts
  <2>5. Cardinality(Before(x)') <= Cardinality(Before(x))
    BY <2>3, <2>4, FS_Subset
  <2> QED BY <2>2, <2>5
<1>2. ASSUME ~Left, x \in Shown
      PROVE  x \in Shown' /\ Cardinality(Before(x)) <= Cardinality(Before(x))'
  <2>1. \A y \in DOMAIN shown : y \in DOMAIN shown' /\ shown'[y] = shown[y]
    BY <1>2 DEF Left, Shown
  <2>2. x \in Shown' /\ Before(x) \subseteq Before(x)'
    BY <1>2, <2>1 DEF Before, Shown
  <2>3. IsFiniteSet(Shown') /\ Before(x)' \subseteq Shown'
    BY RowAssumption, FS_Subset, <2>2 DEF TypeOK, Before
  <2>4. IsFiniteSet(Before(x)')
    BY <2>3, FS_Subset
  <2>5. Cardinality(Before(x)) <= Cardinality(Before(x)')
    BY <2>2, <2>4, FS_Subset
  <2> QED BY <2>2, <2>5
<1> QED BY <1>1, <1>2

-----------------------------------------------------------------------------
(* The inductive invariant holds at the start. *)
LEMMA InitIInv == Init => IInv
  BY DEF Init, WalkInit, Idle, IInv, TypeOK, DueBehind, ReadAhead, Shown

(* Every step keeps the types. *)
LEMMA NextTypeOK == TypeOK /\ [Next]_vars => TypeOK'
<1> SUFFICES ASSUME TypeOK, [Next]_vars PROVE TypeOK'
  OBVIOUS
<1>1. CASE Begin
  BY <1>1 DEF Begin, StartWalk, Reorder, TypeOK, Shown
<1>2. CASE Step
  BY <1>2 DEF Step, Accept, NextPage, TypeOK, Shown
<1>3. CASE Read
  <2>1. PICK I \in SUBSET Shown : ReadPage(I) /\ due' = {x \in due \ I : Untied(x)}
                                /\ read' = read \cup {x \in I : Untied(x)}
    BY <1>3 DEF Read
  <2> QED BY <2>1 DEF ReadPage, TypeOK, Shown
<1>4. CASE End
  <2>1. walk' = Idle /\ shown' = << >> /\ due' = {} /\ read' = {}
    BY <1>4 DEF End, Refuse, LastPage, EndWalk
  <2>2. shown' \in [{} -> Key] /\ Shown' = {}
    BY <2>1 DEF Shown
  <2> QED BY <2>1, <2>2 DEF Idle, TypeOK
<1>5. CASE Watch
  <2>1. PICK S \in SUBSET Row : shown' \in [S -> Key]
    BY <1>5 DEF Watch, Change, Reorder
  <2>2. due' \subseteq Shown'
    BY <1>5 DEF Watch, Left, TypeOK, Shown
  <2> QED BY <1>5, <2>1, <2>2 DEF Watch, Change, TypeOK, Shown
<1>6. CASE UNCHANGED vars
  BY <1>6 DEF vars, TypeOK, Shown
<1> QED BY <1>1, <1>2, <1>3, <1>4, <1>5, <1>6 DEF Next

(* Every step keeps the inductive invariant. *)
LEMMA NextIInv == IInv /\ [Next]_vars => IInv'
<1> SUFFICES ASSUME IInv, [Next]_vars PROVE DueBehind' /\ ReadAhead'
  BY NextTypeOK DEF IInv
<1>1. TypeOK /\ TypeOK'
  BY NextTypeOK DEF IInv
<1>2. CASE Begin
  <2>1. due' = Shown' /\ read' = {} /\ walk' = [pc |-> "check", n |-> 1, items |-> {}]
    BY <1>2 DEF Begin, StartWalk, Shown
  <2>2. Covered' = 0
    BY <2>1, PageAssumption DEF Covered
  <2>3. \A x \in Shown' : Cardinality(Before(x))' \in Nat
    <3> SUFFICES ASSUME NEW x \in Shown' PROVE Cardinality(Before(x)') \in Nat
      OBVIOUS
    <3>1. IsFiniteSet(Shown') /\ Before(x)' \subseteq Shown'
      BY <1>1, RowAssumption, FS_Subset DEF TypeOK, Before
    <3>2. IsFiniteSet(Before(x)')
      BY <3>1, FS_Subset
    <3> QED BY <3>2, FS_CardinalityType
  <2> QED BY <2>1, <2>2, <2>3 DEF DueBehind, ReadAhead
<1>3. CASE Step
  <2>1. Shown' = Shown /\ due' = due /\ read' = read /\ walk.pc # "idle"
    BY <1>3 DEF Step, Accept, NextPage, Shown
  <2>2. \A x : Before(x)' = Before(x) /\ Untied(x)' = Untied(x)
    BY <1>3 DEF Step, Accept, NextPage, Before, Untied, Shown
  <2>3. Covered' = Covered
    BY <1>1, <1>3, PageAssumption DEF Step, Accept, NextPage, Covered, TypeOK
  <2> QED BY <2>1, <2>2, <2>3 DEF IInv, DueBehind, ReadAhead
<1>4. CASE Read
  <2>1. PICK I \in SUBSET Shown : ReadPage(I) /\ due' = {x \in due \ I : Untied(x)}
                                /\ read' = read \cup {x \in I : Untied(x)}
    BY <1>4 DEF Read
  <2>2. Shown' = Shown /\ walk.pc = "page" /\ IsPage(I, walk.n) /\ Covered' = walk.n * PageSize
    BY <1>1, <2>1 DEF ReadPage, Shown, Covered, TypeOK
  <2>3. \A x : Before(x)' = Before(x) /\ Untied(x)' = Untied(x)
    BY <2>1 DEF ReadPage, Before, Untied, Shown
  <2>4. \A x \in due' : Covered' <= Cardinality(Before(x)')
    BY <1>1, <2>1, <2>2, <2>3, PageSides DEF TypeOK
  <2>5. ASSUME NEW x \in read' \cap Shown'
        PROVE  Untied(x)' /\ Cardinality(Before(x)') < Covered'
    <3>1. Untied(x)
      BY <2>1, <2>2, <2>5 DEF IInv, ReadAhead
    <3> QED BY <2>1, <2>2, <2>3, <2>5, <3>1, PageSides
  <2> QED BY <2>4, <2>5 DEF DueBehind, ReadAhead
<1>5. CASE End
  BY <1>5 DEF End, Refuse, LastPage, EndWalk, Idle, DueBehind, ReadAhead
<1>6. CASE Watch
  <2>1. walk' = walk /\ Covered' = Covered
    BY <1>6 DEF Watch, Change, Covered
  <2>2. Covered \in Int \/ walk.pc = "idle"
    BY <1>1, PageAssumption DEF Covered, TypeOK
  <2>3. ASSUME walk.pc # "idle", NEW x \in due'
        PROVE  Covered <= Cardinality(Before(x)')
    <3>1. ~Left /\ x \in due /\ x \in Shown
      BY <1>1, <1>6, <2>3 DEF Watch, TypeOK
    <3>2. Covered <= Cardinality(Before(x)) /\ Cardinality(Before(x)) <= Cardinality(Before(x)')
      BY <1>1, <2>3, <3>1, ChangeSides DEF IInv, DueBehind
    <3>3. Cardinality(Before(x)) \in Nat /\ x \in Shown'
      BY <1>1, <3>1, BeforeFacts, ChangeSides
    <3>4. IsFiniteSet(Shown') /\ Before(x)' \subseteq Shown'
      BY <1>1, RowAssumption, FS_Subset DEF TypeOK, Before
    <3>5. Cardinality(Before(x)') \in Nat
      BY <3>4, FS_Subset, FS_CardinalityType
    <3> QED BY <2>2, <2>3, <3>2, <3>3, <3>5
  <2>4. ASSUME walk.pc # "idle", NEW x \in read' \cap Shown'
        PROVE  Untied(x)' /\ Cardinality(Before(x)') < Covered
    <3>1. ~Came /\ x \in read
      BY <1>6, <2>4 DEF Watch
    <3>2. /\ x \in Shown /\ (Untied(x) => Untied(x)')
          /\ Cardinality(Before(x)') <= Cardinality(Before(x))
      BY <1>1, <2>4, <3>1, ChangeSides
    <3>3. Untied(x) /\ Cardinality(Before(x)) < Covered
      BY <2>4, <3>1, <3>2 DEF IInv, ReadAhead
    <3>4. IsFiniteSet(Before(x)) /\ Before(x)' \subseteq Before(x)
      <4>1. IsFiniteSet(Before(x))
        BY <1>1, <3>2, BeforeFacts
      <4>2. \A y \in DOMAIN shown' : y \in DOMAIN shown /\ shown'[y] = shown[y]
        BY <3>1 DEF Came, Shown
      <4> QED BY <2>4, <4>1, <4>2 DEF Before, Shown
    <3>5. Cardinality(Before(x)') \in Nat /\ Cardinality(Before(x)) \in Nat
      BY <3>4, FS_Subset, FS_CardinalityType
    <3> QED BY <2>2, <2>4, <3>2, <3>3, <3>5
  <2> QED BY <2>1, <2>3, <2>4 DEF DueBehind, ReadAhead
<1>7. CASE UNCHANGED vars
  BY <1>7 DEF vars, IInv, DueBehind, ReadAhead, Covered, Before, Untied, Shown
<1> QED BY <1>2, <1>3, <1>4, <1>5, <1>6, <1>7 DEF Next

(* The places of the rows due and read are bounded in every reachable state.*)
THEOREM Invariance == Spec => []IInv
<1>1. Init => IInv
  BY InitIInv
<1>2. IInv /\ [Next]_vars => IInv'
  BY NextIInv
<1> QED BY <1>1, <1>2, PTL DEF Spec

(* A walk to the last page reads every row that stayed and was untied, for  *)
(* any number of rows and any page size (NothingSkipped).                   *)
THEOREM Complete == Spec => NothingSkipped
<1>1. IInv /\ [Next]_vars => [walk.pc = "count" /\ ~More /\ walk' = Idle => due = {}]_vars
  <2> SUFFICES ASSUME IInv, walk.pc = "count", ~More, NEW x \in due PROVE FALSE
    BY DEF IInv
  <2>1. x \in Shown /\ TypeOK
    BY DEF IInv, TypeOK
  <2>2. Cardinality(Before(x)) \in Nat /\ Cardinality(Shown) \in Nat
        /\ Cardinality(Before(x)) < Cardinality(Shown)
    BY <2>1, BeforeFacts
  <2>3. walk.n * PageSize <= Cardinality(Before(x))
    BY DEF IInv, DueBehind, Covered
  <2>4. walk.n * PageSize \in Int /\ Cardinality(Shown) <= walk.n * PageSize
    BY <2>1, <2>2, PageAssumption DEF More, TypeOK
  <2> QED BY <2>2, <2>3, <2>4
<1> QED BY <1>1, Invariance, PTL DEF Spec, NothingSkipped

(* No untied row is read twice unless a row came in between, for any number *)
(* of rows and any page size (NothingRepeated).                             *)
THEOREM Disjoint == Spec => NothingRepeated
<1>1. IInv /\ [Next]_vars
      => [walk.pc = "page" /\ walk'.pc = "count" => walk'.items \cap read = {}]_vars
  <2> SUFFICES ASSUME IInv, Next, walk.pc = "page", walk'.pc = "count"
               PROVE  walk'.items \cap read = {}
    BY DEF IInv
  <2>1. PICK I \in SUBSET Shown : ReadPage(I)
    <3>1. ~Begin /\ ~Step /\ ~End /\ ~Watch
      BY DEF Begin, StartWalk, Step, Accept, NextPage, End, Refuse, LastPage, EndWalk, Idle,
             Watch, Change
    <3> QED BY <3>1 DEF Next, Read
  <2>2. walk'.items = I
    BY <2>1 DEF ReadPage, IInv, TypeOK
  <2> QED BY <2>1, <2>2, PageSides DEF ReadPage
<1> QED BY <1>1, Invariance, PTL DEF Spec, NothingRepeated
=============================================================================
