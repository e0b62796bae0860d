--------------------------- MODULE ImporterProofs ---------------------------
(***************************************************************************)
(* Theorems about Importer for every value of its constants: what a row    *)
(* says was imported is a title of the athlete's, and a run that says it   *)
(* is complete is, however the listing moves under it.                     *)
(***************************************************************************)
EXTENDS Importer, FunctionTheorems, FiniteSetTheorems, SequenceTheorems, TLAPS

USE DEF walk

-----------------------------------------------------------------------------
(* Pages.  Newest first, every activity has a position of its own, and the *)
(* positions have no gap.                                                  *)

\* The activities on Strava are finitely many numbers.
LEMMA OnStravaFinite ==
  /\ IsFiniteSet(OnStrava) /\ Cardinality(OnStrava) \in Nat
  /\ OnStrava \subseteq Nat
  /\ \A a \in OnStrava : Newer(a) \in 0..(Cardinality(OnStrava) - 1)
<1>1. IsFiniteSet(OnStrava) /\ OnStrava \subseteq Nat
  BY FS_Subset, ImporterAssumption DEF OnStrava
<1>2. Cardinality(OnStrava) \in Nat
  BY <1>1, FS_CardinalityType
<1>3. ASSUME NEW a \in OnStrava
      PROVE  Newer(a) \in 0..(Cardinality(OnStrava) - 1)
  <2> DEFINE N == {b \in OnStrava : b > a}
  <2>1. N \in SUBSET OnStrava /\ a \notin N /\ a \in OnStrava
    BY <1>1, <1>3
  <2>2. IsFiniteSet(N) /\ Cardinality(N) <= Cardinality(OnStrava)
        /\ Cardinality(N) # Cardinality(OnStrava)
    BY <1>1, <2>1, FS_Subset
  <2>3. Cardinality(N) \in Nat
    BY <2>2, FS_CardinalityType
  <2>4. QED
    BY <1>2, <2>2, <2>3 DEF Newer
<1>4. QED
  BY <1>1, <1>2, <1>3

\* Two activities have two positions.
LEMMA PositionsDiffer ==
  ASSUME NEW a \in OnStrava, NEW c \in OnStrava, a # c
  PROVE  Newer(a) # Newer(c)
<1>1. ASSUME NEW x \in OnStrava, NEW y \in OnStrava, x < y
      PROVE  Newer(y) # Newer(x)
  <2> DEFINE X == {b \in OnStrava : b > x}
             Y == {b \in OnStrava : b > y}
  <2>1. x \in Nat /\ y \in Nat /\ OnStrava \subseteq Nat
    BY OnStravaFinite
  <2>2. Y \in SUBSET X
    <3>1. ASSUME NEW b \in OnStrava, b > y PROVE b > x
      <4>1. b \in Nat
        BY <2>1
      <4>2. QED
        BY <1>1, <2>1, <3>1, <4>1
    <3>2. QED
      BY <3>1
  <2>3. y \in X /\ y \notin Y
    BY <1>1, <2>1
  <2>4. IsFiniteSet(X)
    BY OnStravaFinite, FS_Subset
  <2>5. Cardinality(X) # Cardinality(Y)
    BY <2>2, <2>3, <2>4, FS_Subset
  <2>6. QED
    BY <2>5 DEF Newer
<1>2. a \in Nat /\ c \in Nat
  BY OnStravaFinite
<1>3. a < c \/ c < a
  BY <1>2
<1>4. QED
  BY <1>1, <1>3

\* Every position up to the last is taken.
LEMMA PositionsHaveNoGap ==
  ASSUME NEW k \in 0..(Cardinality(OnStrava) - 1)
  PROVE  \E a \in OnStrava : Newer(a) = k
<1> DEFINE n == Cardinality(OnStrava)
           T == 0..(n - 1)
           f == [a \in OnStrava |-> Newer(a)]
<1>1. n \in Nat /\ IsFiniteSet(OnStrava)
  BY OnStravaFinite
<1>2. IsFiniteSet(T) /\ Cardinality(T) = n
  <2>1. 0 \in Int /\ n - 1 \in Int
    BY <1>1
  <2>2. IsFiniteSet(T) /\ Cardinality(T) = IF 0 > n - 1 THEN 0 ELSE n - 1 - 0 + 1
    BY <2>1, FS_Interval
  <2>3. QED
    BY <1>1, <2>2
<1>3. f \in [OnStrava -> T]
  BY OnStravaFinite
<1>4. \A a, c \in OnStrava : f[a] = f[c] => a = c
  BY PositionsDiffer
<1>5. f \in Injection(OnStrava, T)
  BY <1>3, <1>4, Fun_IsInj
<1>6. f \in Surjection(OnStrava, T)
  BY <1>2, <1>5, FS_Injection
<1>7. PICK a \in OnStrava : f[a] = k
  <2> HIDE DEF f, T
  <2>1. \A t \in T : \E a \in OnStrava : f[a] = t
    BY <1>6, Fun_SurjectionProperties
  <2>2. QED
    BY <2>1 DEF T
<1>8. QED
  BY <1>7

\* A page has at most PerPage activities, and that many when one lies beyond it.
LEMMA PageSize ==
  ASSUME NEW n \in Nat \ {0}
  PROVE  /\ IsFiniteSet(OnPage(n)) /\ Cardinality(OnPage(n)) \in Nat
         /\ Cardinality(OnPage(n)) <= PerPage
         /\ (\E a \in OnStrava : Newer(a) >= n * PerPage) =>
              Cardinality(OnPage(n)) = PerPage
<1> DEFINE first == (n - 1) * PerPage
           last == n * PerPage - 1
           T == first .. last
           S == OnPage(n)
           f == [a \in S |-> Newer(a)]
<1>1. /\ first \in Nat /\ last \in Nat /\ last - first + 1 = PerPage /\ first <= last
      /\ n * PerPage = last + 1 /\ PerPage \in Nat \ {0}
  <2>1. PerPage \in Nat \ {0}
    BY ImporterAssumption
  <2>2. (n - 1) * PerPage = n * PerPage - PerPage
    BY <2>1
  <2>3. (n - 1) * PerPage \in Nat /\ n * PerPage \in Nat
    BY <2>1
  <2>4. QED
    BY <2>1, <2>2, <2>3
<1> HIDE DEF first, last
<1>2. IsFiniteSet(T) /\ Cardinality(T) = PerPage
  BY <1>1, FS_Interval
<1>3. IsFiniteSet(S) /\ S \subseteq OnStrava
  BY OnStravaFinite, FS_Subset DEF OnPage
<1>4. f \in [S -> T]
  BY DEF OnPage, first, last
<1>5. \A a, c \in S : f[a] = f[c] => a = c
  BY <1>3, PositionsDiffer
<1>6. f \in Injection(S, T)
  BY <1>4, <1>5, Fun_IsInj
<1>7. Cardinality(S) <= PerPage
  BY <1>2, <1>6, FS_Injection
<1>8. ASSUME NEW a \in OnStrava, Newer(a) >= n * PerPage
      PROVE  Cardinality(S) = PerPage
  <2>1. ASSUME NEW k \in T PROVE \E s \in S : f[s] = k
    <3>1. k \in 0..(Cardinality(OnStrava) - 1)
      BY <1>1, <1>8, OnStravaFinite
    <3>2. PICK c \in OnStrava : Newer(c) = k
      BY <3>1, PositionsHaveNoGap
    <3>3. c \in S
      BY <3>2 DEF OnPage, first, last
    <3>4. QED
      BY <3>2, <3>3
  <2>2. f \in Surjection(S, T)
    BY <1>4, <2>1, Fun_IsSurj
  <2>3. QED
    BY <1>2, <1>6, <2>2, FS_Injection
<1>9. QED
  BY <1>3, <1>7, <1>8, FS_CardinalityType

\* A listing of a page has each of its activities, as Strava holds it.
LEMMA ListingHasPage ==
  ASSUME TypeOK, NEW n \in Nat \ {0}, NEW listing \in Page(n)
  PROVE  /\ listing \in Seq(Item)
         /\ Len(listing) = Cardinality(OnPage(n))
         /\ \A i \in DOMAIN listing :
              /\ listing[i].id \in OnStrava
              /\ listing[i].title = strava[listing[i].id]
         /\ \A a \in OnPage(n) : \E i \in DOMAIN listing :
              listing[i] = [id |-> a, title |-> strava[a]]
<1> DEFINE S == OnPage(n)
           k == Cardinality(S)
<1>1. PICK ids \in [1..k -> S] :
        /\ \A i, j \in 1..k : i < j => ids[i] > ids[j]
        /\ listing = [i \in 1..k |-> [id |-> ids[i], title |-> strava[ids[i]]]]
  BY DEF Page, Listing
<1>2. IsFiniteSet(S) /\ k \in Nat /\ S \subseteq OnStrava
  BY PageSize DEF OnPage
<1>3. \A a \in OnStrava : a \in Activity /\ a \in Nat /\ strava[a] \in Title
  BY OnStravaFinite DEF TypeOK, OnStrava
<1> HIDE DEF S, k
<1>4. \A i \in 1..k : [id |-> ids[i], title |-> strava[ids[i]]] \in Item
  BY <1>2, <1>3 DEF Item
<1>5. listing \in [1..k -> Item]
  BY <1>1, <1>4
<1>6. /\ listing \in Seq(Item) /\ Len(listing) = k
      /\ DOMAIN listing = 1..k
  <2>1. listing \in [1..k -> Item] /\ k \in Nat
    BY <1>2, <1>5
  <2>2. listing \in Seq(Item)
    BY <2>1
  <2>3. DOMAIN listing = 1..k
    BY <2>1
  <2>4. Len(listing) = k
    BY <2>1, <2>2, <2>3
  <2>5. QED
    BY <2>2, <2>3, <2>4
<1>7. ids \in Surjection(1..k, S)
  <2>1. ASSUME NEW i \in 1..k, NEW j \in 1..k, ids[i] = ids[j]
        PROVE  i = j
    <3>1. ids[i] \in Nat /\ ids[j] \in Nat /\ i \in Nat /\ j \in Nat
      BY <1>2, <1>3
    <3>2. ~(i < j) /\ ~(j < i)
      BY <1>1, <2>1, <3>1
    <3>3. QED
      BY <3>1, <3>2
  <2>2. ids \in Injection(1..k, S)
    BY <2>1, Fun_IsInj
  <2>3. Cardinality(1..k) = k
    BY <1>2, FS_Interval
  <2>4. Cardinality(1..k) = Cardinality(S)
    BY <2>3 DEF k
  <2>5. QED
    BY <1>2, <2>2, <2>4, FS_Injection
<1>8. ASSUME NEW a \in S
      PROVE  \E i \in DOMAIN listing : listing[i] = [id |-> a, title |-> strava[a]]
  <2>1. \A b \in S : \E i \in 1..k : ids[i] = b
    <3> DEFINE D == 1..k
    <3>1. ids \in Surjection(D, S)
      BY <1>7
    <3> HIDE DEF D
    <3>2. \A b \in S : \E i \in D : ids[i] = b
      BY <3>1, Fun_SurjectionProperties
    <3>3. QED
      BY <3>2 DEF D
  <2>2. PICK i \in 1..k : ids[i] = a
    BY <1>8, <2>1
  <2>3. QED
    BY <1>1, <1>6, <2>2
<1>9. ASSUME NEW i \in DOMAIN listing
      PROVE  listing[i].id \in OnStrava /\ listing[i].title = strava[listing[i].id]
  <2>1. i \in 1..k /\ ids[i] \in OnStrava
    BY <1>2, <1>6, <1>9
  <2>2. QED
    BY <1>1, <2>1
<1>10. QED
  BY <1>6, <1>8, <1>9 DEF S, k
-----------------------------------------------------------------------------
(* Steps.                                                                  *)

\* A first run finds no row and nothing due.
LEMMA InitInvariant == Init => WalkInv
<1> SUFFICES ASSUME Init PROVE WalkInv
  OBVIOUS
<1>1. <<>> \in Seq(Item) /\ Len(<<>>) = 0 /\ DOMAIN <<>> = {}
  BY EmptySeq
<1>2. TypeOK
  <2>1. strava \in [Activity -> Title \cup {NoTitle, Deleted}]
    BY DEF Init, Title
  <2>2. NoRow \in Row /\ NoRow.source = "none"
    BY DEF NoRow, Source, Row
  <2>3. /\ log \in [Activity -> Row]
        /\ \A a \in Activity : log[a].source = "none"
    <3> HIDE DEF NoRow
    <3> QED
      BY <2>2 DEF Init
  <2>4. sweep \in Sweep
    BY DEF Init, NoSweep, Source, Sweep
  <2>5. items \in Seq(Item) /\ Len(items) <= PerPage
    BY <1>1, ImporterAssumption DEF Init
  <2>6. budget \in [{"runs", "edits", "faults"} -> Nat]
    BY ImporterAssumption DEF Init
  <2>7. QED
    BY <2>1, <2>3, <2>4, <2>5, <2>6 DEF Init, TypeOK
<1>3. NamedBeforeSent
  BY <1>1 DEF Init, NamedBeforeSent, OnStrava, OthersTitles
<1>4. QED
  BY <1>2, <1>3
  DEF Init, WalkInv, SweepKnowsItsRow, MarkedIsTheAthletes,
      DueIsToCome, ImportIsComplete, NoRow, NoSweep

\* What is left of a page when its first item is done with.
LEMMA TailOfItems ==
  ASSUME TypeOK, items # <<>>
  PROVE  /\ Head(items) \in Item /\ Head(items) = items[1] /\ 1 \in DOMAIN items
         /\ Tail(items) \in Seq(Item) /\ Len(Tail(items)) <= PerPage
         /\ \A i \in DOMAIN Tail(items) : Tail(items)[i] = items[i + 1] /\ i + 1 \in DOMAIN items
         /\ \A i \in DOMAIN items :
              i = 1 \/ (i - 1 \in DOMAIN Tail(items) /\ Tail(items)[i - 1] = items[i])
<1>1. items \in Seq(Item) /\ Len(items) <= PerPage /\ PerPage \in Nat
  BY ImporterAssumption DEF TypeOK
<1>2. /\ Head(items) \in Item /\ Tail(items) \in Seq(Item)
      /\ Len(Tail(items)) = Len(items) - 1
      /\ \A i \in 1 .. Len(Tail(items)) : Tail(items)[i] = items[i + 1]
  BY <1>1, HeadTailProperties
<1>3. /\ Len(items) \in Nat /\ DOMAIN items = 1..Len(items)
      /\ DOMAIN Tail(items) = 1..Len(Tail(items)) /\ Len(items) > 0
  BY <1>1, <1>2, EmptySeq
<1>4. Head(items) = items[1]
  BY <1>1, <1>3
<1>5. ASSUME NEW i \in DOMAIN items, i # 1
      PROVE  i - 1 \in DOMAIN Tail(items) /\ Tail(items)[i - 1] = items[i]
  <2>1. i - 1 \in 1..Len(Tail(items)) /\ (i - 1) + 1 = i
    BY <1>2, <1>3, <1>5
  <2>2. Tail(items)[i - 1] = items[(i - 1) + 1]
    BY <1>2, <2>1
  <2>3. QED
    BY <1>3, <2>1, <2>2
<1>6. \A i \in DOMAIN Tail(items) : Tail(items)[i] = items[i + 1] /\ i + 1 \in DOMAIN items
  BY <1>2, <1>3
<1>7. QED
  BY <1>1, <1>2, <1>3, <1>4, <1>5, <1>6

\* A page lists activities.
LEMMA ListedIsActivity ==
  ASSUME TypeOK
  PROVE  \A i \in DOMAIN items : items[i].id \in Activity
<1>1. items \in Seq(Item)
  BY DEF TypeOK
<1>2. \A i \in 1..Len(items) : items[i] \in Item
  BY <1>1, ElementOfSeq
<1>3. DOMAIN items = 1..Len(items)
  BY <1>1
<1>4. QED
  BY <1>2, <1>3 DEF Item

\* Nothing of the pages and positions changes while Strava and the walk do not.
LEMMA SamePlace ==
  ASSUME UNCHANGED <<strava, page, short>>, pc # "list" <=> pc' # "list"
  PROVE  /\ OnStrava' = OnStrava
         /\ \A a : Ahead(a)' <=> Ahead(a)
         /\ \A item : Worthwhile(item)' <=> Worthwhile(item)
BY DEF OnStrava, Ahead, Newer, Worthwhile, NotTheAthletesStyle

\* A run begins: all that is due lies ahead.
LEMMA StartStep == WalkInv /\ Start => WalkInv'
<1> SUFFICES ASSUME WalkInv, Start PROVE WalkInv'
  OBVIOUS
<1>1. <<>> \in Seq(Item) /\ Len(<<>>) = 0 /\ DOMAIN <<>> = {}
  BY EmptySeq
<1>2. budget' \in [{"runs", "edits", "faults"} -> Nat]
  BY DEF Start, Spend, WalkInv, TypeOK
<1>3. TypeOK'
  <2>1. items' \in Seq(Item) /\ Len(items') <= PerPage
    BY <1>1, ImporterAssumption DEF Start
  <2>2. due' \subseteq Activity
    BY DEF Start, OnStrava
  <2>3. /\ strava' \in [Activity -> Title \cup {NoTitle, Deleted}]
        /\ log' \in [Activity -> Row]
    BY DEF Start, WalkInv, TypeOK
  <2>4. sweep' \in Sweep
    BY DEF Start, WalkInv, TypeOK
  <2>5. \A a \in Activity : log'[a].source \in {"human", "imported"} => log'[a].at = a
    BY DEF Start, WalkInv, TypeOK
  <2>6. /\ pc' = "list" /\ page' \in Nat /\ short' = FALSE /\ page' > 0 /\ items' = <<>>
        /\ overtaken' \subseteq Activity
    BY DEF Start, WalkInv, TypeOK
  <2>7. QED
    BY <1>2, <2>1, <2>2, <2>3, <2>4, <2>5, <2>6 DEF TypeOK
<1>4. DueIsToCome'
  <2>1. ASSUME NEW a \in due' PROVE Ahead(a)'
    <3>1. a \in OnStrava /\ Newer(a)' = Newer(a) /\ OnStrava' = OnStrava
      BY <2>1 DEF Start, Newer, OnStrava
    <3>0. Newer(a) \in Nat
      BY <3>1, OnStravaFinite
    <3>2. (page' - 1) * PerPage = 0
      BY ImporterAssumption DEF Start
    <3>3. Newer(a)' >= (page' - 1) * PerPage
      BY <3>0, <3>1, <3>2
    <3>4. QED
      BY <2>1, <3>1, <3>3 DEF Start, Ahead, Worthwhile, NotTheAthletesStyle
  <2>2. QED
    BY <2>1 DEF DueIsToCome
<1>5. NamedBeforeSent'
  BY <1>1 DEF Start, WalkInv, NamedBeforeSent, OnStrava, Known, OthersTitles, NoRow
<1>6. QED
  BY <1>3, <1>4, <1>5
  DEF Start, WalkInv, SweepKnowsItsRow, MarkedIsTheAthletes,
      ImportIsComplete, Known, NoRow

\* A page is read: what is due is on it, or behind it and the page is full.
LEMMA ListPageStep == WalkInv /\ ListPage => WalkInv'
<1> SUFFICES ASSUME WalkInv, ListPage PROVE WalkInv'
  OBVIOUS
<1>1. TypeOK /\ page \in Nat \ {0} /\ items' \in Page(page) /\ items = <<>>
  BY DEF WalkInv, TypeOK, ListPage
<1>2. /\ items' \in Seq(Item) /\ Len(items') = Cardinality(OnPage(page))
      /\ \A i \in DOMAIN items' : /\ items'[i].id \in OnStrava
                                  /\ items'[i].title = strava[items'[i].id]
      /\ \A a \in OnPage(page) : \E i \in DOMAIN items' :
           items'[i] = [id |-> a, title |-> strava[a]]
  BY <1>1, ListingHasPage
<1>3. Cardinality(OnPage(page)) <= PerPage
      /\ ((\E a \in OnStrava : Newer(a) >= page * PerPage) =>
            Cardinality(OnPage(page)) = PerPage)
  BY <1>1, PageSize
<1>4. OnStrava' = OnStrava
  BY DEF ListPage, OnStrava
<1>5. TypeOK'
  <2>1. short' \in BOOLEAN /\ pc' \in {"walk", "done"}
    BY DEF ListPage, IsShort
  <2>2. QED
    BY <1>1, <1>2, <1>3, <2>1 DEF ListPage, WalkInv, TypeOK
<1>6. NamedBeforeSent'
  BY <1>2, <1>4 DEF ListPage, WalkInv, NamedBeforeSent, Known
<1>7. ASSUME NEW a \in due, ~Known(a)
      PROVE  pc' = "walk" /\ (IsListed(a)' \/ Ahead(a)')
  <2>1. Ahead(a)
    <3>1. DOMAIN items = {}
      BY <1>1, EmptySeq
    <3>2. QED
      BY <1>7, <3>1 DEF ListPage, WalkInv, DueIsToCome, IsListed
  <2>2. /\ a \in OnStrava /\ Worthwhile([id |-> a, title |-> strava[a]])
        /\ Newer(a) >= (page - 1) * PerPage
    BY <2>1 DEF Ahead, ListPage
  <2>3. CASE a \in OnPage(page)
    <3>1. PICK i \in DOMAIN items' : items'[i] = [id |-> a, title |-> strava[a]]
      BY <1>2, <2>3
    <3>2. items' # <<>>
      BY <3>1, EmptySeq
    <3>3. QED
      BY <2>2, <3>1, <3>2 DEF ListPage, IsListed, Worthwhile, NotTheAthletesStyle
  <2>4. CASE a \notin OnPage(page)
    <3>1. Newer(a) \in Nat
      BY <2>2, OnStravaFinite
    <3>2. (page - 1) * PerPage \in Nat /\ page * PerPage \in Nat /\ PerPage \in Nat \ {0}
      BY <1>1, ImporterAssumption
    <3>3. Newer(a) >= page * PerPage
      BY <2>2, <2>4, <3>1, <3>2 DEF OnPage
    <3>4. Len(items') = PerPage
      BY <1>2, <1>3, <2>2, <3>3
    <3>5. items' # <<>> /\ ~short'
      <4>1. ~(PerPage < PerPage) /\ PerPage # 0
        BY <3>2
      <4>2. short' = (Len(items') < PerPage) /\ Len(<<>>) = 0
        BY EmptySeq DEF ListPage, IsShort
      <4>3. QED
        BY <3>4, <4>1, <4>2
    <3>6. Newer(a)' = Newer(a) /\ pc' = "walk" /\ page' = page
      BY <1>4, <3>5 DEF ListPage, Newer
    <3>7. QED
      BY <1>4, <2>2, <3>3, <3>5, <3>6
      DEF ListPage, Ahead, Worthwhile, NotTheAthletesStyle
  <2>5. QED
    BY <2>3, <2>4
<1>8. DueIsToCome' /\ ImportIsComplete'
  BY <1>7 DEF ListPage, DueIsToCome, ImportIsComplete, Known
<1>9. pc' # "mark" /\ SweepKnowsItsRow'
  BY DEF ListPage, WalkInv, SweepKnowsItsRow, Known
<1>10. QED
  BY <1>5, <1>6, <1>8, <1>9 DEF WalkInv, MarkedIsTheAthletes

\* A page is done with: after a short one nothing can lie ahead.
LEMMA EndPageStep == WalkInv /\ EndPage => WalkInv'
<1> SUFFICES ASSUME WalkInv, EndPage PROVE WalkInv'
  OBVIOUS
<1>1. TypeOK' /\ NamedBeforeSent' /\ SweepKnowsItsRow'
  <2>1. page \in Nat /\ page' \in Nat /\ (page > 0 => page' > 0)
    BY DEF EndPage, NextPage, WalkInv, TypeOK
  <2>2. TypeOK'
    BY <2>1 DEF EndPage, WalkInv, TypeOK
  <2>3. QED
    BY <2>2 DEF EndPage, WalkInv, NamedBeforeSent, SweepKnowsItsRow, Known, OnStrava
<1>2. ASSUME NEW a \in due, ~Known(a)
      PROVE  pc' = "list" /\ Ahead(a)'
  <2>1. DOMAIN items = {}
    BY EmptySeq DEF EndPage
  <2>2. Ahead(a)
    BY <1>2, <2>1 DEF EndPage, WalkInv, DueIsToCome, IsListed
  <2>3. ~short /\ pc' = "list" /\ page' = page + 1 /\ page \in Nat
    BY <2>2 DEF Ahead, EndPage, NextPage, WalkInv, TypeOK
  <2>4. OnStrava' = OnStrava /\ Newer(a)' = Newer(a) /\ page' - 1 = page
    BY <2>3 DEF EndPage, OnStrava, Newer
  <2>5. QED
    BY <2>2, <2>3, <2>4 DEF EndPage, Ahead, Worthwhile, NotTheAthletesStyle
<1>3. DueIsToCome' /\ ImportIsComplete'
  BY <1>2 DEF EndPage, DueIsToCome, ImportIsComplete, Known
<1>4. pc' # "mark"
  BY DEF EndPage
<1>5. QED
  BY <1>1, <1>3, <1>4 DEF WalkInv, MarkedIsTheAthletes

\* What a passed-over first item leaves of the invariant, given that the walk
\* owes it nothing.
LEMMA TailStep ==
  ASSUME WalkInv, pc = "walk", items # <<>>, items' = Tail(items),
         Known(Head(items).id) \/ ~Worthwhile(Head(items)),
         UNCHANGED <<strava, log, pc, page, short, sweep, due, overtaken, budget>>
  PROVE  WalkInv'
<1>1. TypeOK
  BY DEF WalkInv
<1>2. /\ Head(items) = items[1]
      /\ items' \in Seq(Item) /\ Len(items') <= PerPage
      /\ \A i \in DOMAIN items' : items'[i] = items[i + 1] /\ i + 1 \in DOMAIN items
      /\ \A i \in DOMAIN items :
           i = 1 \/ (i - 1 \in DOMAIN items' /\ items'[i - 1] = items[i])
  BY <1>1, TailOfItems
<1>3. TypeOK'
  BY <1>1, <1>2 DEF TypeOK
<1>4. NamedBeforeSent'
  BY <1>2 DEF WalkInv, NamedBeforeSent, Known, OnStrava
<1>5. \A a : Ahead(a)' <=> Ahead(a)
  BY SamePlace
<1>6. ASSUME NEW a \in Activity, ~Known(a), IsListed(a)
      PROVE  IsListed(a)'
  <2>1. PICK i \in DOMAIN items : items[i].id = a /\ Worthwhile(items[i])
    BY <1>6 DEF IsListed
  <2>2. i # 1
    BY <1>2, <1>6, <2>1
  <2>3. QED
    BY <1>2, <2>1, <2>2 DEF IsListed, Worthwhile, NotTheAthletesStyle
<1>7. DueIsToCome'
  BY <1>1, <1>5, <1>6 DEF WalkInv, TypeOK, DueIsToCome, Known
<1>8. QED
  BY <1>3, <1>4, <1>7
  DEF WalkInv, SweepKnowsItsRow, MarkedIsTheAthletes,
      ImportIsComplete, Known

\* An activity that is no ride, or not titled by the athlete, is owed nothing.
LEMMA SkipOneStep == WalkInv /\ SkipOne => WalkInv'
BY TailStep DEF SkipOne

\* What the log knows is owed nothing; a title it does not know is nobody else's.
LEMMA LookUpStep == WalkInv /\ LookUp => WalkInv'
<1> SUFFICES ASSUME WalkInv, LookUp PROVE WalkInv'
  OBVIOUS
<1>1. CASE Known(Head(items).id)
  BY <1>1, TailStep DEF LookUp
<1>2. CASE ~Known(Head(items).id)
  <2>1. /\ pc = "walk" /\ pc' = "mark" /\ items # <<>> /\ Worthwhile(Head(items))
        /\ UNCHANGED <<items, strava, log, page, short, sweep, due, overtaken, budget>>
    BY <1>2 DEF LookUp
  <2>2. TypeOK'
    BY <2>1 DEF WalkInv, TypeOK
  <2>3. Head(items) = items[1] /\ 1 \in DOMAIN items
    BY <2>1, TailOfItems DEF WalkInv
  <2>4. Head(items).title \in PersonTitles
    BY <1>2, <2>1, <2>3
    DEF WalkInv, NamedBeforeSent, OthersTitles, Worthwhile, NotTheAthletesStyle
  <2>5. MarkedIsTheAthletes'
    BY <2>1, <2>4 DEF MarkedIsTheAthletes, Worthwhile, NotTheAthletesStyle
  <2>6. \A a : Ahead(a)' <=> Ahead(a)
    BY <2>1, SamePlace
  <2>7. \A a : IsListed(a)' <=> IsListed(a)
    BY <2>1 DEF IsListed, Worthwhile, NotTheAthletesStyle
  <2>8. DueIsToCome'
    BY <2>1, <2>6, <2>7 DEF WalkInv, DueIsToCome, Known
  <2>9. QED
    BY <2>1, <2>2, <2>5, <2>8
    DEF WalkInv, NamedBeforeSent, SweepKnowsItsRow,
        ImportIsComplete, Known, OnStrava
<1>3. QED
  BY <1>1, <1>2

\* A row under source imported is one the invariant allows.
LEMMA MarkedRow ==
  ASSUME WalkInv, pc = "mark", MarkNamed
  PROVE  /\ log' \in [Activity -> Row]
         /\ \A a \in Activity : log'[a].source \in {"human", "imported"} => log'[a].at = a
         /\ \A a \in Activity : Known(a) => Known(a)'
         /\ log'[Head(items).id] # NoRow /\ Head(items).id \in Activity
<1> DEFINE h == Head(items)
<1>1. /\ TypeOK /\ h \in Item /\ h.title \in PersonTitles /\ Worthwhile(h)
  BY TailOfItems DEF WalkInv, TypeOK, MarkedIsTheAthletes
<1>2. /\ h.id \in Activity /\ h.id \in RideActivity /\ ImportedRow(h) \in Row
      /\ ImportedRow(h).source = "imported" /\ ImportedRow(h).at = h.id
      /\ ImportedRow(h).title \in PersonTitles /\ ImportedRow(h) # NoRow
  BY <1>1 DEF Item, Worthwhile, ImportedRow, Row, Source, Title, NoRow
<1>3. log' = [log EXCEPT ![h.id] = ImportedRow(h)]
  BY DEF MarkNamed
<1> HIDE DEF h
<1>4. \A a \in Activity : log'[a] = IF a = h.id THEN ImportedRow(h) ELSE log[a]
  BY <1>1, <1>3 DEF TypeOK
<1>5. log' \in [Activity -> Row]
  BY <1>1, <1>2, <1>3 DEF TypeOK
<1>6. \A a \in Activity : Known(a) => Known(a)'
  BY <1>2, <1>4 DEF WalkInv, Known
<1>7. QED
  BY <1>1, <1>2, <1>4, <1>5, <1>6 DEF TypeOK, h

\* The first item of the page gets its row.
LEMMA MarkOneStep == WalkInv /\ MarkOne => WalkInv'
<1> SUFFICES ASSUME WalkInv, MarkOne PROVE WalkInv'
  OBVIOUS
<1>1. /\ TypeOK /\ pc = "mark" /\ pc' = "walk" /\ MarkNamed /\ items # <<>>
      /\ items' = Tail(items)
      /\ UNCHANGED <<strava, page, short, sweep, due, overtaken, budget>>
  BY DEF MarkOne, WalkInv, TypeOK
<1>2. /\ log' \in [Activity -> Row]
      /\ \A a \in Activity : log'[a].source \in {"human", "imported"} => log'[a].at = a
      /\ \A a \in Activity : Known(a) => Known(a)'
      /\ log'[Head(items).id] # NoRow /\ Head(items).id \in Activity
  BY <1>1, MarkedRow
<1>3. /\ Head(items) = items[1]
      /\ items' \in Seq(Item) /\ Len(items') <= PerPage
      /\ \A i \in DOMAIN items' : items'[i] = items[i + 1] /\ i + 1 \in DOMAIN items
      /\ \A i \in DOMAIN items :
           i = 1 \/ (i - 1 \in DOMAIN items' /\ items'[i - 1] = items[i])
  BY <1>1, TailOfItems
<1>4. TypeOK'
  BY <1>1, <1>2, <1>3 DEF TypeOK
<1>5. NamedBeforeSent'
  <2>1. OnStrava' = OnStrava /\ OnStrava \subseteq Activity
    BY <1>1 DEF OnStrava
  <2>2. \A i \in DOMAIN items : items[i].id \in Activity
    BY <1>1, ListedIsActivity
  <2>3. QED
    BY <1>1, <1>2, <1>3, <2>1, <2>2 DEF WalkInv, NamedBeforeSent
<1>6. \A a : Ahead(a)' <=> Ahead(a)
  BY <1>1, SamePlace
<1>7. ASSUME NEW a \in Activity, ~Known(a)', IsListed(a)
      PROVE  IsListed(a)'
  <2>1. PICK i \in DOMAIN items : items[i].id = a /\ Worthwhile(items[i])
    BY <1>7 DEF IsListed
  <2>2. i # 1
    BY <1>2, <1>3, <1>7, <2>1 DEF Known
  <2>3. QED
    BY <1>3, <2>1, <2>2 DEF IsListed, Worthwhile, NotTheAthletesStyle
<1>8. DueIsToCome'
  BY <1>1, <1>2, <1>6, <1>7 DEF WalkInv, TypeOK, DueIsToCome
<1>9. SweepKnowsItsRow'
  BY <1>1, <1>2, ImporterAssumption DEF WalkInv, SweepKnowsItsRow
<1>10. QED
  BY <1>1, <1>2, <1>4, <1>5, <1>8, <1>9
  DEF WalkInv, MarkedIsTheAthletes, ImportIsComplete

\* A run that fails leaves at most the row it was writing.
LEMMA FailStep == WalkInv /\ Fail => WalkInv'
<1> SUFFICES ASSUME WalkInv, Fail PROVE WalkInv'
  OBVIOUS
<1>1. /\ TypeOK /\ pc' = "failed" /\ items' = <<>>
      /\ UNCHANGED <<strava, page, short, sweep, due, overtaken>>
  BY DEF Fail, WalkInv
<1>2. /\ log' \in [Activity -> Row]
      /\ \A a \in Activity : log'[a].source \in {"human", "imported"} => log'[a].at = a
      /\ \A a \in Activity : Known(a) => Known(a)'
  <2>1. CASE UNCHANGED log
    BY <1>1, <2>1 DEF WalkInv, TypeOK, Known
  <2>2. CASE pc = "mark" /\ MarkNamed
    BY <2>2, MarkedRow
  <2>3. QED
    BY <2>1, <2>2 DEF Fail
<1>3. budget' \in [{"runs", "edits", "faults"} -> Nat]
  BY <1>1 DEF Fail, Spend, TypeOK
<1>4. items' \in Seq(Item) /\ Len(items') <= PerPage /\ DOMAIN items' = {}
  BY <1>1, EmptySeq, ImporterAssumption
<1>5. TypeOK'
  BY <1>1, <1>2, <1>3, <1>4 DEF TypeOK
<1>6. NamedBeforeSent'
  <2>1. OnStrava' = OnStrava /\ OnStrava \subseteq Activity
    BY <1>1 DEF OnStrava
  <2>2. QED
    BY <1>1, <1>2, <1>4, <2>1 DEF WalkInv, NamedBeforeSent
<1>7. SweepKnowsItsRow'
  BY <1>1, <1>2, ImporterAssumption DEF WalkInv, SweepKnowsItsRow
<1>8. QED
  BY <1>1, <1>2, <1>5, <1>6, <1>7
  DEF WalkInv, MarkedIsTheAthletes, DueIsToCome, ImportIsComplete

\* The walk is owed no more once rows are added, with Strava and the walk left
\* alone.
LEMMA RowsAdded ==
  ASSUME WalkInv, UNCHANGED <<strava, pc, walk, due, budget>>,
         overtaken' \subseteq Activity,
         log' \in [Activity -> Row], sweep' \in Sweep,
         \A a \in Activity : log'[a].source \in {"human", "imported"} => log'[a].at = a,
         \A a \in Activity : Known(a) => Known(a)',
         SweepKnowsItsRow'
  PROVE  WalkInv'
<1>1. TypeOK' /\ \A i \in DOMAIN items : items[i].id \in Activity
  BY ListedIsActivity DEF WalkInv, TypeOK
<1>2. OnStrava' = OnStrava /\ OnStrava \subseteq Activity
  BY DEF OnStrava
<1>3. NamedBeforeSent'
  BY <1>1, <1>2 DEF WalkInv, NamedBeforeSent
<1>4. \A a : (Ahead(a)' <=> Ahead(a)) /\ (IsListed(a)' <=> IsListed(a))
  BY SamePlace DEF IsListed, Worthwhile, NotTheAthletesStyle
<1>5. DueIsToCome' /\ ImportIsComplete'
  BY <1>4 DEF WalkInv, TypeOK, DueIsToCome, ImportIsComplete
<1>6. QED
  BY <1>1, <1>3, <1>5
  DEF WalkInv, MarkedIsTheAthletes, Worthwhile, NotTheAthletesStyle

\* A sweep takes up a ride.
LEMMA SweepReadsStep == WalkInv /\ (\E a \in Activity : SweepReads(a)) => WalkInv'
<1> SUFFICES ASSUME WalkInv, NEW a \in Activity, SweepReads(a) PROVE WalkInv'
  OBVIOUS
<1>1. a \in OnStrava \cap RideActivity /\ strava[a] \in Title
      /\ UNCHANGED <<strava, log, pc, walk, due, overtaken, budget>>
  BY DEF SweepReads, OnStrava, WalkInv, TypeOK
<1>2. PICK t \in Title, source \in {"service", "human", "imported"} :
        /\ sweep' = [pc |-> "record", id |-> a, title |-> t, source |-> source]
        /\ source = "service" => t \in ModelTitles
  <2>1. CASE NameOne(a)
    BY <1>1, <2>1 DEF NameOne, Title
  <2>2. CASE ReconcileOne(a)
    BY <1>1, <2>2 DEF ReconcileOne
  <2>3. QED
    BY <2>1, <2>2 DEF SweepReads
<1>3. sweep' \in Sweep /\ SweepKnowsItsRow'
  BY <1>1, <1>2 DEF Sweep, Source, SweepKnowsItsRow
<1>4. QED
  BY <1>1, <1>3, RowsAdded DEF WalkInv, TypeOK, Known

\* What a sweep writes.
LEMMA SweptRowWritten ==
  ASSUME WalkInv, SweepRecords
  PROVE  /\ sweep.id \in Activity /\ sweep.id \in RideActivity
         /\ sweep.pc = "record" /\ sweep.source \in {"service", "human", "imported"}
         /\ log' \in [Activity -> Row]
         /\ \A a \in Activity : log'[a] = IF a = sweep.id THEN SweptRow ELSE log[a]
         /\ SweptRow.title = sweep.title /\ SweptRow.source = sweep.source
         /\ SweptRow # NoRow
         /\ SweptRow.source \in {"human", "imported"} => SweptRow.at = sweep.id
<1>1. /\ sweep \in Sweep /\ sweep.id \in RideActivity /\ sweep.id \in Activity
      /\ sweep.source \in {"service", "human", "imported"} /\ sweep.pc = "record"
  BY ImporterAssumption DEF SweepRecords, WalkInv, TypeOK, SweepKnowsItsRow
<1>2. /\ SweptRow \in Row /\ SweptRow # NoRow
      /\ SweptRow.title = sweep.title /\ SweptRow.source = sweep.source
      /\ SweptRow.source \in {"human", "imported"} => SweptRow.at = sweep.id
  BY <1>1 DEF Sweep, SweptRow, Row, Source, NoRow
<1>3. log' = [log EXCEPT ![sweep.id] = SweptRow] /\ log \in [Activity -> Row]
  BY DEF SweepRecords, WalkInv, TypeOK
<1>4. QED
  BY <1>1, <1>2, <1>3

\* A sweep's row is one the walk may meet.
LEMMA SweepRecordsStep == WalkInv /\ SweepRecords => WalkInv'
<1> SUFFICES ASSUME WalkInv, SweepRecords PROVE WalkInv'
  OBVIOUS
<1>1. /\ log' \in [Activity -> Row]
      /\ \A a \in Activity : log'[a].source \in {"human", "imported"} => log'[a].at = a
      /\ \A a \in Activity : Known(a) => Known(a)'
      /\ log'[sweep.id] # NoRow
  BY SweptRowWritten DEF WalkInv, TypeOK, Known
<1>2. UNCHANGED <<strava, pc, walk, due, budget>> /\ overtaken' \subseteq Activity
  BY SweptRowWritten DEF SweepRecords, Overtakes, WalkInv, TypeOK
<1>3. sweep' \in Sweep /\ SweepKnowsItsRow'
  <2>1. CASE sweep.source = "service"
    <3>1. /\ sweep' \in Sweep /\ sweep'.pc = "put" /\ sweep'.id = sweep.id
          /\ sweep'.source = "service" /\ sweep'.title = sweep.title
      BY <2>1 DEF SweepRecords, Sweep, WalkInv, TypeOK
    <3>2. Known(sweep.id)' <=> log'[sweep'.id] # NoRow
      BY DEF Known
    <3>3. Known(sweep.id)'
      BY <1>1, <3>1, <3>2
    <3>4. QED
      BY <2>1, <3>1, <3>3, SweptRowWritten DEF SweepKnowsItsRow, WalkInv
  <2>2. CASE sweep.source # "service"
    <3>1. sweep' = NoSweep
      BY <2>2 DEF SweepRecords
    <3>2. QED
      BY <3>1 DEF NoSweep, Sweep, Source, SweepKnowsItsRow
  <2>3. QED
    BY <2>1, <2>2
<1>4. QED
  BY <1>1, <1>2, <1>3, RowsAdded

\* A title changes: nothing moves, and only what is due of that activity may
\* go unmet.
LEMMA Retitled ==
  ASSUME WalkInv, NEW a \in OnStrava, NEW t \in Title,
         strava' = [strava EXCEPT ![a] = t], UNCHANGED <<log, pc, walk>>,
         sweep' \in Sweep, SweepKnowsItsRow', due' \subseteq due,
         budget' \in [{"runs", "edits", "faults"} -> Nat], overtaken' \subseteq Activity,
         t \in OthersTitles \/ Known(a),
         a \in due' => NotTheAthletesStyle(t) = FALSE \/ Known(a)
  PROVE  WalkInv'
<1>1. TypeOK /\ a \in Activity /\ t \notin {NoTitle, Deleted}
  BY ImporterAssumption DEF WalkInv, OnStrava, Title
<1>2. /\ strava' \in [Activity -> Title \cup {NoTitle, Deleted}]
      /\ \A b \in Activity : strava'[b] = IF b = a THEN t ELSE strava[b]
  BY <1>1 DEF TypeOK
<1>3. OnStrava' = OnStrava /\ OnStrava \subseteq Activity
  BY <1>1, <1>2 DEF OnStrava
<1>4. TypeOK'
  BY <1>1, <1>2 DEF TypeOK
<1>5. NamedBeforeSent'
  BY <1>2, <1>3 DEF WalkInv, NamedBeforeSent, Known
<1>6. ASSUME NEW b \in due', ~Known(b), Ahead(b)
      PROVE  Ahead(b)'
  <2>1. Newer(b)' = Newer(b) /\ b \in OnStrava /\ b \in Activity
    BY <1>3, <1>6 DEF Newer, Ahead
  <2>2. Worthwhile([id |-> b, title |-> strava'[b]])
    <3>1. CASE b = a
      BY <1>2, <1>6, <2>1, <3>1 DEF Ahead, Worthwhile
    <3>2. CASE b # a
      BY <1>2, <1>6, <2>1, <3>2 DEF Ahead
    <3>3. QED
      BY <3>1, <3>2
  <2>3. Worthwhile([id |-> b, title |-> strava[b]])'
    BY <2>2 DEF Worthwhile, NotTheAthletesStyle
  <2>4. QED
    BY <1>3, <1>6, <2>1, <2>3 DEF Ahead
<1>7. \A b : IsListed(b)' <=> IsListed(b)
  BY DEF IsListed, Worthwhile, NotTheAthletesStyle
<1>8. DueIsToCome' /\ ImportIsComplete'
  BY <1>6, <1>7 DEF WalkInv, DueIsToCome, ImportIsComplete, Known
<1>9. QED
  BY <1>4, <1>5, <1>8
  DEF WalkInv, MarkedIsTheAthletes, Worthwhile, NotTheAthletesStyle

\* The service's title arrives where its row already is.
LEMMA SweepPutsStep == WalkInv /\ SweepPuts => WalkInv'
<1> SUFFICES ASSUME WalkInv, SweepPuts PROVE WalkInv'
  OBVIOUS
<1>1. sweep' \in Sweep /\ SweepKnowsItsRow'
  BY DEF SweepPuts, NoSweep, Sweep, Source, SweepKnowsItsRow
<1>2. TypeOK /\ UNCHANGED <<log, pc, walk, due, overtaken, budget>>
  BY DEF SweepPuts, WalkInv
<1>3. CASE UNCHANGED strava
  BY <1>1, <1>2, <1>3, RowsAdded DEF WalkInv, TypeOK, Known
<1>4. CASE /\ sweep.id \in OnStrava
           /\ strava' = [strava EXCEPT ![sweep.id] = sweep.title]
  <2>1. Known(sweep.id) /\ sweep.title \in Title
    BY DEF SweepPuts, WalkInv, SweepKnowsItsRow, Title
  <2>2. budget' \in [{"runs", "edits", "faults"} -> Nat] /\ due' \subseteq due
        /\ overtaken' \subseteq Activity
    BY <1>2 DEF TypeOK
  <2>3. QED
    BY <1>1, <1>2, <1>4, <2>1, <2>2, Retitled
<1>5. QED
  BY <1>3, <1>4 DEF SweepPuts

\* A ride uploaded moves the older ones away from the run, never towards it.
LEMMA UploadStep == WalkInv /\ (\E a \in Activity : Upload(a)) => WalkInv'
<1> SUFFICES ASSUME WalkInv, NEW a \in Activity, Upload(a) PROVE WalkInv'
  OBVIOUS
<1>1. PICK t \in DefaultTitles \cup PersonTitles : strava' = [strava EXCEPT ![a] = t]
  BY DEF Upload
<1>2. TypeOK /\ strava[a] = NoTitle /\ UNCHANGED <<log, pc, walk, sweep, due, overtaken>>
      /\ t \in Title /\ t \in OthersTitles /\ t \notin {NoTitle, Deleted}
  BY ImporterAssumption DEF Upload, WalkInv, Title, OthersTitles
<1>3. /\ strava' \in [Activity -> Title \cup {NoTitle, Deleted}]
      /\ \A b \in Activity : strava'[b] = IF b = a THEN t ELSE strava[b]
  BY <1>1, <1>2 DEF TypeOK
<1>4. OnStrava' = OnStrava \cup {a} /\ a \notin OnStrava /\ OnStrava \subseteq Activity
  BY <1>2, <1>3 DEF OnStrava
<1>5. TypeOK'
  <2>1. budget' \in [{"runs", "edits", "faults"} -> Nat]
    BY <1>2 DEF Upload, Spend, TypeOK
  <2>2. QED
    BY <1>2, <1>3, <2>1 DEF TypeOK
<1>6. NamedBeforeSent'
  BY <1>2, <1>3, <1>4 DEF WalkInv, NamedBeforeSent, Known
<1>7. ASSUME NEW b \in due, Ahead(b)
      PROVE  Ahead(b)'
  <2> DEFINE N == {c \in OnStrava : c > b}
             M == {c \in OnStrava \cup {a} : c > b}
  <2>1. b \in OnStrava /\ b # a /\ b \in Activity
    BY <1>4, <1>7 DEF Ahead
  <2>2. IsFiniteSet(M) /\ N \in SUBSET M
    <3>1. OnStrava \cup {a} \in SUBSET Activity
      BY <1>4
    <3>2. IsFiniteSet(OnStrava \cup {a})
      BY <3>1, FS_Subset, ImporterAssumption
    <3>3. M \in SUBSET (OnStrava \cup {a}) /\ N \in SUBSET M
      OBVIOUS
    <3>4. QED
      BY <3>2, <3>3, FS_Subset
  <2>3. Cardinality(N) <= Cardinality(M) /\ Cardinality(N) \in Nat /\ Cardinality(M) \in Nat
    BY <2>2, FS_Subset, FS_CardinalityType
  <2>4. Newer(b) = Cardinality(N) /\ Newer(b)' = Cardinality(M)
    BY <1>4 DEF Newer
  <2>5. Worthwhile([id |-> b, title |-> strava[b]])'
    BY <1>3, <1>7, <2>1 DEF Ahead, Worthwhile, NotTheAthletesStyle
  <2>6. page \in Nat /\ PerPage \in Nat
    BY <1>2, ImporterAssumption DEF TypeOK
  <2>7. b \in OnStrava' /\ ~short' /\ pc' = pc /\ page' = page
    BY <1>2, <1>4, <1>7, <2>1 DEF Ahead
  <2>8. Newer(b)' >= (IF pc = "list" THEN page - 1 ELSE page) * PerPage
    <3> DEFINE bound == (IF pc = "list" THEN page - 1 ELSE page) * PerPage
    <3>1. Newer(b) >= bound /\ bound \in Int
      BY <1>7, <2>6 DEF Ahead
    <3> HIDE DEF bound
    <3>2. Newer(b)' >= bound
      BY <2>3, <2>4, <3>1
    <3>3. QED
      BY <3>2 DEF bound
  <2>9. QED
    BY <2>5, <2>7, <2>8 DEF Ahead
<1>8. \A b : IsListed(b)' <=> IsListed(b)
  BY <1>2 DEF IsListed, Worthwhile, NotTheAthletesStyle
<1>9. DueIsToCome' /\ ImportIsComplete'
  BY <1>2, <1>7, <1>8 DEF WalkInv, DueIsToCome, ImportIsComplete, Known
<1>10. QED
  BY <1>2, <1>5, <1>6, <1>9
  DEF WalkInv, MarkedIsTheAthletes, Worthwhile, NotTheAthletesStyle, SweepKnowsItsRow, Known

\* A ride renamed by the athlete stays due while the title is the athlete's.
LEMMA RenameStep == WalkInv /\ (\E a \in Activity : Rename(a)) => WalkInv'
<1> SUFFICES ASSUME WalkInv, NEW a \in Activity, Rename(a) PROVE WalkInv'
  OBVIOUS
<1>1. PICK t \in (DefaultTitles \cup PersonTitles) \ {strava[a]} :
        /\ strava' = [strava EXCEPT ![a] = t]
        /\ due' = IF NotTheAthletesStyle(t) THEN due \ {a} ELSE due
  BY DEF Rename
<1>2. a \in OnStrava /\ UNCHANGED <<log, pc, walk, sweep>> /\ TypeOK
      /\ t \in Title /\ t \in OthersTitles
  BY DEF Rename, WalkInv, Title, OthersTitles
<1>3. sweep' \in Sweep /\ SweepKnowsItsRow'
  BY <1>2 DEF WalkInv, TypeOK, SweepKnowsItsRow, Known
<1>4. budget' \in [{"runs", "edits", "faults"} -> Nat] /\ overtaken' \subseteq Activity
  BY <1>2 DEF Rename, Spend, TypeOK
<1>5. due' \subseteq due /\ (a \in due' => NotTheAthletesStyle(t) = FALSE)
  BY <1>1 DEF NotTheAthletesStyle
<1>6. QED
  BY <1>1, <1>2, <1>3, <1>4, <1>5, Retitled

\* A ride deleted moves the older ones up: what is neither known nor on the
\* page that was read is left to the next run.
LEMMA DeleteStep == WalkInv /\ (\E a \in Activity : Delete(a)) => WalkInv'
<1> SUFFICES ASSUME WalkInv, NEW a \in Activity, Delete(a) PROVE WalkInv'
  OBVIOUS
<1>1. TypeOK /\ strava' = [strava EXCEPT ![a] = Deleted]
      /\ due' = {b \in due : Known(b) \/ IsListed(b)}
      /\ UNCHANGED <<log, pc, walk, sweep, overtaken>>
  BY DEF Delete, WalkInv
<1>2. /\ strava' \in [Activity -> Title \cup {NoTitle, Deleted}]
      /\ \A b \in Activity : strava'[b] = IF b = a THEN Deleted ELSE strava[b]
  BY <1>1 DEF TypeOK
<1>3. TypeOK'
  <2>1. budget' \in [{"runs", "edits", "faults"} -> Nat]
    BY <1>1 DEF Delete, Spend, TypeOK
  <2>2. QED
    BY <1>1, <1>2, <2>1 DEF TypeOK
<1>4. NamedBeforeSent'
  BY <1>1, <1>2 DEF WalkInv, NamedBeforeSent, Known, OnStrava
<1>5. \A b : IsListed(b)' <=> IsListed(b)
  BY <1>1 DEF IsListed, Worthwhile, NotTheAthletesStyle
<1>6. DueIsToCome' /\ ImportIsComplete'
  BY <1>1, <1>5 DEF WalkInv, DueIsToCome, ImportIsComplete, Known
<1>7. QED
  BY <1>1, <1>3, <1>4, <1>6
  DEF WalkInv, MarkedIsTheAthletes, Worthwhile, NotTheAthletesStyle, SweepKnowsItsRow, Known
\* Every step, of the run, the service and the athlete, keeps the walk what it is.
LEMMA WalkStep == WalkInv /\ [Next]_vars => WalkInv'
<1> SUFFICES ASSUME WalkInv, [Next]_vars PROVE WalkInv'
  OBVIOUS
<1>1. CASE Start
  BY <1>1, StartStep
<1>2. CASE Run
  BY <1>2, ListPageStep, EndPageStep, SkipOneStep, LookUpStep, MarkOneStep DEF Run
<1>3. CASE Fail
  BY <1>3, FailStep
<1>4. CASE Service
  BY <1>4, SweepReadsStep, SweepRecordsStep, SweepPutsStep DEF Service
<1>5. CASE Athlete
  BY <1>5, UploadStep, RenameStep, DeleteStep DEF Athlete
<1>6. CASE UNCHANGED vars
  <2>1. UNCHANGED <<strava, log, pc, walk, sweep, due, overtaken, budget>>
    BY <1>6 DEF vars
  <2>2. QED
    BY <2>1, RowsAdded DEF WalkInv, TypeOK, SweepKnowsItsRow, Known
<1>7. QED
  BY <1>1, <1>2, <1>3, <1>4, <1>5, <1>6 DEF Next
-----------------------------------------------------------------------------
(* Whose the titles of imported rows are.                                  *)

\* The walk goes on, and nothing more is about to be marked.
LEMMA OwnedSame ==
  ASSUME TitlesAreOwned, UNCHANGED <<strava, log, sweep, overtaken>>,
         pc' # "mark" \/ UNCHANGED <<pc, items>>
  PROVE  TitlesAreOwned'
<1>1. \A a : IsImported(a)' => IsImported(a)
  BY DEF IsImported
<1>2. ImportedIsNotNamed'
  BY <1>1 DEF TitlesAreOwned, ImportedIsNotNamed, OnStrava
<1>3. QED
  BY <1>2 DEF TitlesAreOwned, RenameIsTheAthletes, ImportedTitlesAreTheAthletes

\* What is about to be marked had no row, so the service has not named it.
LEMMA OwnedLookUp == WalkInv /\ TitlesAreOwned /\ LookUp => TitlesAreOwned'
<1> SUFFICES ASSUME WalkInv, TitlesAreOwned, LookUp PROVE TitlesAreOwned'
  OBVIOUS
<1>1. UNCHANGED <<strava, log, sweep, overtaken>> /\ pc = "walk"
  BY DEF LookUp
<1>2. CASE pc' = pc
  BY <1>1, <1>2, OwnedSame
<1>3. CASE pc' # pc
  <2>1. pc' = "mark" /\ items' = items /\ ~Known(Head(items).id)
    BY <1>1, <1>3 DEF LookUp
  <2>2. ASSUME NEW a \in Activity \ overtaken, IsImported(a)'
        PROVE  /\ a \in OnStrava => strava[a] \in OthersTitles
               /\ ~(sweep.pc = "put" /\ sweep.id = a)
    <3>1. CASE log[a].source = "imported"
      BY <2>2, <3>1 DEF IsImported, TitlesAreOwned, ImportedIsNotNamed
    <3>2. CASE log[a].source # "imported"
      <4>1. a = Head(items).id
        BY <1>1, <2>1, <2>2, <3>2 DEF IsImported
      <4>2. QED
        BY <2>1, <4>1 DEF WalkInv, NamedBeforeSent, SweepKnowsItsRow
    <3>3. QED
      BY <3>1, <3>2
  <2>3. ImportedIsNotNamed'
    BY <1>1, <2>2 DEF ImportedIsNotNamed, OnStrava
  <2>4. QED
    BY <1>1, <2>3 DEF TitlesAreOwned, RenameIsTheAthletes, ImportedTitlesAreTheAthletes
<1>4. QED
  BY <1>2, <1>3

\* The title marked is the athlete's, of a ride that was about to be imported.
LEMMA OwnedMark ==
  ASSUME WalkInv, TitlesAreOwned, pc = "mark", MarkNamed, pc' # "mark",
         UNCHANGED <<strava, sweep, overtaken>>
  PROVE  TitlesAreOwned'
<1> DEFINE h == Head(items)
<1>1. h.id \in RideActivity /\ h.title \in PersonTitles /\ h.id \in Activity
  BY MarkedRow DEF WalkInv, MarkedIsTheAthletes, Worthwhile
<1>2. \A a \in Activity : log'[a] = IF a = h.id THEN ImportedRow(h) ELSE log[a]
  BY DEF MarkNamed, WalkInv, TypeOK
<1>3. ImportedRow(h).source = "imported" /\ ImportedRow(h).title \in PersonTitles
  BY <1>1 DEF ImportedRow
<1>4. IsImported(h.id)
  BY DEF IsImported
<1> HIDE DEF h
<1>5. \A a \in Activity : IsImported(a)' => IsImported(a)
  BY <1>2, <1>4 DEF IsImported
<1>6. ImportedIsNotNamed'
  BY <1>5 DEF TitlesAreOwned, ImportedIsNotNamed, OnStrava
<1>7. RenameIsTheAthletes'
  <2>1. sweep.pc # "idle" => sweep.id \in Activity
    BY ImporterAssumption DEF WalkInv, SweepKnowsItsRow
  <2>2. QED
    BY <1>2, <1>3, <2>1 DEF TitlesAreOwned, RenameIsTheAthletes
<1>8. ImportedTitlesAreTheAthletes'
  BY <1>1, <1>2, <1>3 DEF TitlesAreOwned, ImportedTitlesAreTheAthletes
<1>9. QED
  BY <1>6, <1>7, <1>8 DEF TitlesAreOwned

\* reconcileOne: the title that an imported ride carries on Strava is the athlete's.
LEMMA OwnedSweepReads ==
  ASSUME WalkInv, TitlesAreOwned, NEW a \in Activity, SweepReads(a)
  PROVE  TitlesAreOwned'
<1>1. a \in OnStrava /\ UNCHANGED <<strava, log, pc, items, overtaken>> /\ sweep'.id = a
      /\ sweep'.pc = "record"
  BY DEF SweepReads, NameOne, ReconcileOne
<1>2. ImportedIsNotNamed'
  BY <1>1 DEF TitlesAreOwned, ImportedIsNotNamed, IsImported, OnStrava
<1>3. ASSUME sweep'.source = "imported"
      PROVE  log[a].source = "imported" /\ (sweep'.title \in PersonTitles \/ a \in overtaken)
  <2>1. ReconcileOne(a)
    BY <1>3 DEF SweepReads, NameOne
  <2>2. /\ log[a].source = "imported" /\ sweep'.title = strava[a]
        /\ ~NotTheAthletesStyle(strava[a])
    BY <1>3, <2>1 DEF ReconcileOne
  <2>3. a \notin overtaken => strava[a] \in OthersTitles
    BY <1>1, <2>2 DEF TitlesAreOwned, ImportedIsNotNamed, IsImported
  <2>4. QED
    BY <2>2, <2>3 DEF OthersTitles, NotTheAthletesStyle
<1>4. RenameIsTheAthletes'
  BY <1>1, <1>3 DEF RenameIsTheAthletes
<1>5. QED
  BY <1>1, <1>2, <1>4 DEF TitlesAreOwned, ImportedTitlesAreTheAthletes

\* A rename keeps an imported row imported; a naming makes it the service's, and
\* overtakes a run that is about to mark the ride.
LEMMA OwnedSweepRecords == WalkInv /\ TitlesAreOwned /\ SweepRecords => TitlesAreOwned'
<1> SUFFICES ASSUME WalkInv, TitlesAreOwned, SweepRecords PROVE TitlesAreOwned'
  OBVIOUS
<1>1. /\ sweep.id \in RideActivity /\ sweep.id \in Activity /\ sweep.pc = "record"
      /\ \A a \in Activity : log'[a] = IF a = sweep.id THEN SweptRow ELSE log[a]
      /\ SweptRow.title = sweep.title /\ SweptRow.source = sweep.source
  BY SweptRowWritten
<1>2. /\ UNCHANGED <<strava, pc, items>> /\ overtaken \subseteq overtaken'
      /\ \/ sweep.source = "service" /\ sweep'.pc = "put" /\ sweep'.id = sweep.id
            /\ (pc = "mark" /\ Head(items).id = sweep.id => sweep.id \in overtaken')
         \/ sweep.source # "service" /\ sweep'.pc = "idle"
  BY DEF SweepRecords, Overtakes, NoSweep, WalkInv, TypeOK, Sweep
<1>3. ImportedIsNotNamed'
  <2> SUFFICES ASSUME NEW a \in Activity \ overtaken', IsImported(a)'
               PROVE  /\ a \in OnStrava => strava[a] \in OthersTitles
                      /\ ~(sweep'.pc = "put" /\ sweep'.id = a)
    BY <1>2 DEF ImportedIsNotNamed, OnStrava
  <2>1. IsImported(a)
    BY <1>1, <1>2 DEF IsImported, TitlesAreOwned, RenameIsTheAthletes
  <2>2. a \in OnStrava => strava[a] \in OthersTitles
    BY <1>2, <2>1 DEF TitlesAreOwned, ImportedIsNotNamed
  <2>3. ~(sweep'.pc = "put" /\ sweep'.id = a)
    BY <1>1, <1>2 DEF IsImported
  <2>4. QED
    BY <2>2, <2>3
<1>4. RenameIsTheAthletes'
  BY <1>2 DEF RenameIsTheAthletes
<1>5. ImportedTitlesAreTheAthletes'
  BY <1>1, <1>2 DEF TitlesAreOwned, ImportedTitlesAreTheAthletes, RenameIsTheAthletes
<1>6. QED
  BY <1>3, <1>4, <1>5 DEF TitlesAreOwned

\* A title of the service's arrives at no ride that is imported.
LEMMA OwnedSweepPuts == WalkInv /\ TitlesAreOwned /\ SweepPuts => TitlesAreOwned'
<1> SUFFICES ASSUME WalkInv, TitlesAreOwned, SweepPuts PROVE TitlesAreOwned'
  OBVIOUS
<1>1. /\ UNCHANGED <<log, pc, items, overtaken>> /\ sweep'.pc = "idle" /\ sweep.pc = "put"
      /\ \A a \in Activity : a # sweep.id => strava'[a] = strava[a]
  BY DEF SweepPuts, NoSweep, WalkInv, TypeOK
<1>2. strava' = strava \/ (sweep.id \in OnStrava
        /\ \A a \in Activity : strava'[a] = IF a = sweep.id THEN sweep.title ELSE strava[a])
  BY DEF SweepPuts, WalkInv, TypeOK
<1>3. ImportedIsNotNamed'
  <2> SUFFICES ASSUME NEW a \in Activity \ overtaken, IsImported(a), a \in OnStrava'
               PROVE  strava'[a] \in OthersTitles
    BY <1>1 DEF ImportedIsNotNamed, IsImported
  <2>1. a # sweep.id
    BY <1>1 DEF TitlesAreOwned, ImportedIsNotNamed
  <2>2. strava'[a] = strava[a] /\ a \in OnStrava
    BY <1>1, <2>1 DEF OnStrava
  <2>3. QED
    BY <2>2 DEF TitlesAreOwned, ImportedIsNotNamed
<1>4. QED
  BY <1>1, <1>3 DEF TitlesAreOwned, RenameIsTheAthletes, ImportedTitlesAreTheAthletes

\* The athlete gives no ride a title of the service's.
LEMMA OwnedAthlete == WalkInv /\ TitlesAreOwned /\ Athlete => TitlesAreOwned'
<1> SUFFICES ASSUME WalkInv, TitlesAreOwned, Athlete PROVE TitlesAreOwned'
  OBVIOUS
<1>1. UNCHANGED <<log, pc, items, sweep, overtaken>>
  BY DEF Athlete, Upload, Rename, Delete
<1>2. PICK a \in Activity, t \in DefaultTitles \cup PersonTitles \cup {Deleted} :
        strava' = [strava EXCEPT ![a] = t]
  BY DEF Athlete, Upload, Rename, Delete
<1>3. \A b \in Activity : strava'[b] = IF b = a THEN t ELSE strava[b]
  BY <1>2 DEF WalkInv, TypeOK
<1>4. ASSUME NEW b \in Activity, b \in OnStrava'
      PROVE  strava'[b] \in OthersTitles \/ (b \in OnStrava /\ strava'[b] = strava[b])
  BY <1>3, <1>4 DEF OnStrava, OthersTitles
<1>5. ImportedIsNotNamed'
  BY <1>1, <1>4 DEF TitlesAreOwned, ImportedIsNotNamed, IsImported
<1>6. QED
  BY <1>1, <1>5 DEF TitlesAreOwned, RenameIsTheAthletes, ImportedTitlesAreTheAthletes

\* Every step leaves the imported rows the athlete's.
LEMMA OwnedStep == WalkInv /\ TitlesAreOwned /\ [Next]_vars => TitlesAreOwned'
<1> SUFFICES ASSUME WalkInv, TitlesAreOwned, [Next]_vars PROVE TitlesAreOwned'
  OBVIOUS
<1>1. CASE Start \/ ListPage \/ EndPage \/ SkipOne \/ UNCHANGED vars
  <2>1. UNCHANGED <<strava, log, sweep, overtaken>>
        /\ (pc' # "mark" \/ UNCHANGED <<pc, items>>)
    BY <1>1 DEF Start, ListPage, EndPage, SkipOne, vars
  <2>2. QED
    BY <2>1, OwnedSame
<1>2. CASE LookUp
  BY <1>2, OwnedLookUp
<1>3. CASE MarkOne \/ Fail
  <2>1. UNCHANGED <<strava, sweep, overtaken>> /\ pc' # "mark"
        /\ (log' = log \/ (pc = "mark" /\ MarkNamed))
    BY <1>3 DEF MarkOne, Fail
  <2>2. QED
    BY <2>1, OwnedSame, OwnedMark
<1>4. CASE Service
  BY <1>4, OwnedSweepReads, OwnedSweepRecords, OwnedSweepPuts DEF Service
<1>5. CASE Athlete
  BY <1>5, OwnedAthlete
<1>6. QED
  BY <1>1, <1>2, <1>3, <1>4, <1>5 DEF Next, Run

\* No row is imported yet.
LEMMA InitOwned == Init => TitlesAreOwned
<1> SUFFICES ASSUME Init PROVE TitlesAreOwned
  OBVIOUS
<1>1. \A a \in Activity : log[a].source = "none" /\ ~IsImported(a)
  BY DEF Init, NoRow, IsImported
<1>2. sweep.pc = "idle"
  BY DEF Init, NoSweep
<1>3. QED
  BY <1>1, <1>2
  DEF TitlesAreOwned, ImportedIsNotNamed, RenameIsTheAthletes, ImportedTitlesAreTheAthletes
-----------------------------------------------------------------------------
(* The theorems.                                                           *)

\* The inductive invariant holds however runs, sweeps and the athlete
\* interleave (importer.Run, importOne, processOne, write, reconcileOne).
THEOREM ImporterInvariant == Spec => []IInv
<1>1. IInv /\ [Next]_vars => IInv'
  BY WalkStep, OwnedStep DEF IInv
<1>2. Init => IInv
  BY InitInvariant, InitOwned DEF IInv
<1>3. QED
  BY <1>1, <1>2, PTL DEF Spec

\* No title of the service's is ever relabelled as imported (importOne), however
\* rides are named and reconciled meanwhile, but of a ride the service named
\* between a run's lookup and its row.
THEOREM ImportsOnlyTheAthletes == Spec => []ImportedTitlesAreTheAthletes
BY ImporterInvariant, PTL DEF IInv, TitlesAreOwned

\* A run that reports completion has brought in every ride it owed
\* (importer.Run).
THEOREM ImportCompletes == Spec => []ImportIsComplete
BY ImporterInvariant, PTL DEF IInv, WalkInv
=============================================================================
