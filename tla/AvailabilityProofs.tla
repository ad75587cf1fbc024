-------------------------- MODULE AvailabilityProofs --------------------------
(***************************************************************************)
(* Theorems about Availability, for lists of any length, any hours and any *)
(* buffers: what the sort returns, what the loop of getNextAvailableAt     *)
(* computes, and that the three screens answer alike.                      *)
(*                                                                         *)
(* The lists are walked by index.  What a loop keeps is proved from the    *)
(* least index at which it would fail (LeastIndex).                        *)
(***************************************************************************)
EXTENDS Availability, FiniteSetTheorems, SequenceTheorems, TLAPS

\* Every nonempty set of natural numbers has a least element.
LEMMA LeastIndex ==
    ASSUME NEW S \in SUBSET Nat, S # {}
    PROVE  \E n \in S : \A m \in S : n <= m
<1> DEFINE Below == {p \in Nat \X Nat : p[1] < p[2]}
<1>1. IsWellFoundedOn(Below, Nat)
  BY NatLessThanWellFounded, Zenon DEF OpToRel
<1>2. PICK n \in S : \A m \in S : <<m, n>> \notin Below
  BY <1>1, WFMin, Zenon
<1>3. ASSUME NEW m \in S PROVE n <= m
  <2>1. ASSUME m < n PROVE FALSE
    <3> DEFINE pair == <<m, n>>
    <3>1. pair \in Nat \X Nat /\ pair[1] < pair[2]
      BY <2>1
    <3> HIDE DEF pair
    <3>2. pair \in Below
      BY <3>1, Zenon
    <3>3. QED
      BY <1>2, <3>2, Zenon DEF pair
  <2>2. QED
    BY <2>1
<1>4. QED
  BY <1>3

\* Min returns the least element of a nonempty set of natural numbers.
LEMMA MinIsLeast ==
    ASSUME NEW S \in SUBSET Nat, S # {}
    PROVE  Min(S) \in S /\ \A m \in S : Min(S) <= m
<1>1. \E n \in S : \A m \in S : n <= m
  BY LeastIndex
<1>2. QED
  BY <1>1, Zenon DEF Min

-----------------------------------------------------------------------------
(***************************************************************************)
(* The sort.                                                               *)
(***************************************************************************)
\* How many of the kept indexes come before i.
Place(stays, kept, i) == Cardinality({j \in kept : Earlier(stays, j, i)})

\* The indexes of a list are totally ordered.
LEMMA EarlierIsTotal ==
    ASSUME NEW stays \in Seq(Stay), NEW i \in DOMAIN stays,
           NEW j \in DOMAIN stays, NEW k \in DOMAIN stays
    PROVE  /\ ~Earlier(stays, i, i)
           /\ Earlier(stays, i, j) /\ Earlier(stays, j, k) => Earlier(stays, i, k)
           /\ i # j => Earlier(stays, i, j) \/ Earlier(stays, j, i)
<1>1. DOMAIN stays \subseteq Nat
      /\ \A m \in DOMAIN stays : stays[m] \in Stay
  OBVIOUS
<1>2. \A m \in DOMAIN stays : stays[m].checkIn \in Int
  BY <1>1 DEF Stay
<1>3. QED
  BY <1>1, <1>2 DEF Earlier

\* Each kept index has a place of its own, from 0 to their number less one.
LEMMA PlacesDiffer ==
    ASSUME NEW stays \in Seq(Stay), NEW kept \in SUBSET DOMAIN stays
    PROVE  /\ IsFiniteSet(kept)
           /\ \A i \in kept : Place(stays, kept, i) \in 0 .. Cardinality(kept) - 1
           /\ \A i, j \in kept :
                Earlier(stays, i, j) => Place(stays, kept, i) < Place(stays, kept, j)
<1> DEFINE Ahead(i) == {j \in kept : Earlier(stays, j, i)}
<1>1. IsFiniteSet(1 .. Len(stays)) /\ kept \in SUBSET (1 .. Len(stays))
  BY FS_Interval
<1>2. IsFiniteSet(kept) /\ Cardinality(kept) \in Nat
  BY <1>1, FS_Subset, FS_CardinalityType, Zenon
<1>3. ASSUME NEW i \in kept, NEW T \in SUBSET kept, i \notin T
      PROVE  /\ IsFiniteSet(T)
             /\ Cardinality(T) \in Nat
             /\ Cardinality(T) < Cardinality(kept)
  <2>1. IsFiniteSet(T) /\ Cardinality(T) <= Cardinality(kept)
        /\ (Cardinality(kept) = Cardinality(T) => kept = T)
    BY <1>2, FS_Subset, Zenon
  <2>2. QED
    BY <1>2, <1>3, <2>1, FS_CardinalityType
<1>4. ASSUME NEW i \in kept
      PROVE  /\ IsFiniteSet(Ahead(i))
             /\ Cardinality(Ahead(i)) \in 0 .. Cardinality(kept) - 1
  <2>1. Ahead(i) \in SUBSET kept /\ i \notin Ahead(i)
    BY EarlierIsTotal
  <2>2. QED
    BY <1>2, <1>3, <2>1
<1>5. ASSUME NEW i \in kept, NEW j \in kept, Earlier(stays, i, j)
      PROVE  Cardinality(Ahead(i)) < Cardinality(Ahead(j))
  <2>1. Ahead(i) \in SUBSET Ahead(j)
    BY <1>5, EarlierIsTotal
  <2>2. i \in Ahead(j) /\ i \notin Ahead(i)
    BY <1>5, EarlierIsTotal
  <2>3. Cardinality(Ahead(i)) <= Cardinality(Ahead(j))
        /\ (Cardinality(Ahead(j)) = Cardinality(Ahead(i)) => Ahead(j) = Ahead(i))
    BY <1>4, <2>1, FS_Subset, Zenon
  <2>4. Ahead(j) # Ahead(i)
    BY <2>2, Zenon
  <2>5. Cardinality(Ahead(i)) \in 0 .. Cardinality(kept) - 1
        /\ Cardinality(Ahead(j)) \in 0 .. Cardinality(kept) - 1
    BY <1>4, Zenon
  <2> HIDE DEF Ahead
  <2>6. QED
    BY <2>3, <2>4, <2>5
<1>6. QED
  BY <1>2, <1>4, <1>5 DEF Place

\* Every place is taken.
LEMMA PlacesTaken ==
    ASSUME NEW stays \in Seq(Stay), NEW kept \in SUBSET DOMAIN stays,
           NEW p \in 0 .. Cardinality(kept) - 1
    PROVE  \E i \in kept : Place(stays, kept, i) = p
<1> DEFINE n == Cardinality(kept)
           place == [i \in kept |-> Place(stays, kept, i)]
<1>1. IsFiniteSet(kept) /\ n \in Nat
  BY PlacesDiffer, FS_CardinalityType, Zenon
<1>2. place \in [kept -> 0 .. n - 1]
  BY PlacesDiffer
<1>3. ASSUME NEW i \in kept, NEW j \in kept, i # j
      PROVE  place[i] # place[j]
  <2>1. Earlier(stays, i, j) \/ Earlier(stays, j, i)
    BY <1>3, EarlierIsTotal
  <2>2. place[i] < place[j] \/ place[j] < place[i]
    BY <2>1, PlacesDiffer
  <2>3. QED
    BY <1>2, <2>2
<1>4. place \in Injection(kept, 0 .. n - 1)
  BY <1>2, <1>3 DEF Injection, IsInjective
<1>5. IsFiniteSet(0 .. n - 1) /\ Cardinality(0 .. n - 1) = n
  BY <1>1, FS_Interval
<1>6. place \in Surjection(kept, 0 .. n - 1)
  BY <1>4, <1>5, FS_Injection, Zenon
<1>7. QED
  BY <1>6 DEF Surjection

\* The list of the kept stays, by place.
LEMMA InOrderByPlace ==
    ASSUME NEW stays, NEW kept
    PROVE  InOrder(stays, kept) =
             [p \in 1 .. Cardinality(kept) |->
                stays[CHOOSE i \in kept : Place(stays, kept, i) = p - 1]]
  BY Zenon DEF InOrder, Place

(***************************************************************************)
(* What the sort returns: the kept stays, each once, read in an order in   *)
(* which none comes before its predecessors.                               *)
(***************************************************************************)
LEMMA InOrderLists ==
    ASSUME NEW stays \in Seq(Stay), NEW kept \in SUBSET DOMAIN stays
    PROVE  /\ Cardinality(kept) \in Nat
           /\ \E at \in [1 .. Cardinality(kept) -> kept] :
                /\ \A p \in 1 .. Cardinality(kept) :
                     InOrder(stays, kept)[p] = stays[at[p]]
                /\ \A i \in kept : \E p \in 1 .. Cardinality(kept) : at[p] = i
                /\ \A p, q \in 1 .. Cardinality(kept) :
                     p < q => Earlier(stays, at[p], at[q])
<1> DEFINE n == Cardinality(kept)
           at == [p \in 1 .. n |->
                    CHOOSE i \in kept : Place(stays, kept, i) = p - 1]
<1>1. IsFiniteSet(kept) /\ n \in Nat
  BY PlacesDiffer, FS_CardinalityType, Zenon
<1>2. ASSUME NEW p \in 1 .. n
      PROVE  at[p] \in kept /\ Place(stays, kept, at[p]) = p - 1
  <2>1. p - 1 \in 0 .. n - 1
    BY <1>1
  <2>2. \E i \in kept : Place(stays, kept, i) = p - 1
    BY <2>1, PlacesTaken
  <2>3. QED
    BY <2>2, Zenon
<1>3. ASSUME NEW p \in 1 .. n
      PROVE  InOrder(stays, kept)[p] = stays[at[p]]
  <2>1. at[p] = CHOOSE i \in kept : Place(stays, kept, i) = p - 1
    BY Zenon
  <2> HIDE DEF at
  <2>2. QED
    BY <2>1, InOrderByPlace, Zenon
<1>4. ASSUME NEW i \in kept
      PROVE  \E p \in 1 .. n : at[p] = i
  <2> DEFINE p == Place(stays, kept, i) + 1
  <2>1. p \in 1 .. n /\ Place(stays, kept, i) = p - 1
    BY <1>1, PlacesDiffer
  <2>2. Place(stays, kept, at[p]) = Place(stays, kept, i) /\ at[p] \in kept
    BY <1>2, <2>1
  <2>3. ~Earlier(stays, at[p], i) /\ ~Earlier(stays, i, at[p])
    BY <2>2, PlacesDiffer
  <2>4. at[p] = i
    BY <2>2, <2>3, EarlierIsTotal
  <2>5. QED
    BY <2>1, <2>4
<1>5. ASSUME NEW p \in 1 .. n, NEW q \in 1 .. n, p < q
      PROVE  Earlier(stays, at[p], at[q])
  <2>1. /\ at[p] \in kept /\ Place(stays, kept, at[p]) = p - 1
        /\ at[q] \in kept /\ Place(stays, kept, at[q]) = q - 1
    BY <1>2
  <2>2. ~Earlier(stays, at[q], at[p])
    BY <1>5, <2>1, PlacesDiffer
  <2>3. at[p] # at[q]
    BY <1>5, <2>1
  <2>4. QED
    BY <2>1, <2>2, <2>3, EarlierIsTotal
<1>6. at \in [1 .. n -> kept]
  BY <1>2
<1> HIDE DEF at
<1>7. QED
  BY <1>1, <1>3, <1>4, <1>5, <1>6, Zenon

\* A list of stays drawn from another is a list of stays.
LEMMA InOrderType ==
    ASSUME NEW stays \in Seq(Stay), NEW kept \in SUBSET DOMAIN stays
    PROVE  /\ InOrder(stays, kept) \in Seq(Stay)
           /\ Len(InOrder(stays, kept)) = Cardinality(kept)
           /\ DOMAIN InOrder(stays, kept) = 1 .. Cardinality(kept)
<1> DEFINE n == Cardinality(kept)
           L == InOrder(stays, kept)
<1>1. n \in Nat
  BY InOrderLists
<1>2. PICK at \in [1 .. n -> kept] : \A p \in 1 .. n : L[p] = stays[at[p]]
  BY InOrderLists, Zenon
<1>3. \A p \in 1 .. n : L[p] \in Stay
  BY <1>2
<1>4. L = [p \in 1 .. n |-> L[p]]
  <2> DEFINE Chosen(p) == stays[CHOOSE i \in kept : Place(stays, kept, i) = p - 1]
  <2>1. L = [p \in 1 .. n |-> Chosen(p)]
    BY InOrderByPlace, Zenon
  <2> HIDE DEF Chosen, L, n
  <2>2. QED
    BY <2>1
<1> HIDE DEF L, n
<1>5. L \in [1 .. n -> Stay]
  BY <1>3, <1>4, Zenon
<1>6. L \in Seq(Stay)
  BY <1>1, <1>5, SeqDef
<1>7. Len(L) = n /\ DOMAIN L = 1 .. n
  BY <1>1, <1>5, <1>6
<1>8. QED
  BY <1>6, <1>7 DEF L, n

\* The first n positive numbers are n.
LEMMA CountTo ==
    ASSUME NEW n \in Nat
    PROVE  Cardinality(1 .. n) = n
  BY FS_Interval

\* The stays a list holds.
Held(stays) == {stays[i] : i \in DOMAIN stays}

\* The sort loses no stay and invents none, and puts the check-ins in order.
LEMMA SortSorts ==
    ASSUME NEW stays \in Seq(Stay)
    PROVE  LET sorted == SortByCheckIn(stays) IN
           /\ sorted \in Seq(Stay)
           /\ Len(sorted) = Len(stays)
           /\ Held(sorted) = Held(stays)
           /\ \A p, q \in DOMAIN sorted :
                p < q => sorted[p].checkIn <= sorted[q].checkIn
<1> DEFINE kept == DOMAIN stays
           n == Cardinality(kept)
           sorted == SortByCheckIn(stays)
<1>1. n = Len(stays) /\ kept = 1 .. Len(stays) /\ Len(stays) \in Nat
  <2>1. kept = 1 .. Len(stays) /\ Len(stays) \in Nat
    OBVIOUS
  <2>2. Cardinality(1 .. Len(stays)) = Len(stays)
    BY <2>1, CountTo, Zenon
  <2>3. QED
    BY <2>1, <2>2, Zenon
<1>2. sorted \in Seq(Stay) /\ Len(sorted) = n /\ DOMAIN sorted = 1 .. n
  BY InOrderType DEF SortByCheckIn
<1>3. PICK at \in [1 .. n -> kept] :
        /\ \A p \in 1 .. n : sorted[p] = stays[at[p]]
        /\ \A i \in kept : \E p \in 1 .. n : at[p] = i
        /\ \A p, q \in 1 .. n : p < q => Earlier(stays, at[p], at[q])
  BY InOrderLists, Zenon DEF SortByCheckIn
<1> HIDE DEF sorted, n
<1>4. Held(sorted) = Held(stays)
  <2>1. ASSUME NEW i \in kept PROVE \E p \in 1 .. n : sorted[p] = stays[i]
    <3>1. PICK p \in 1 .. n : at[p] = i
      BY <1>3, Zenon
    <3>2. QED
      BY <1>3, <3>1, Zenon
  <2>2. \A p \in 1 .. n : \E i \in kept : sorted[p] = stays[i]
    BY <1>3
  <2>3. Held(sorted) = {sorted[p] : p \in 1 .. n}
    BY <1>2, Zenon DEF Held
  <2>4. Held(stays) = {stays[i] : i \in kept}
    BY Zenon DEF Held
  <2> HIDE DEF kept
  <2>5. QED
    BY <2>1, <2>2, <2>3, <2>4
<1>5. ASSUME NEW p \in 1 .. n, NEW q \in 1 .. n, p < q
      PROVE  sorted[p].checkIn <= sorted[q].checkIn
  <2>1. Earlier(stays, at[p], at[q])
    BY <1>3, <1>5
  <2>2. stays[at[p]] \in Stay /\ stays[at[q]] \in Stay
    <3>1. at[p] \in kept /\ at[q] \in kept
      BY <1>3
    <3>2. QED
      BY <3>1
  <2>3. stays[at[p]].checkIn <= stays[at[q]].checkIn
    BY <2>1, <2>2 DEF Earlier, Stay
  <2>4. QED
    BY <1>3, <2>3
<1>6. QED
  BY <1>1, <1>2, <1>4, <1>5 DEF sorted

\* A list in order is left as it is.
LEMMA SortOfSorted ==
    ASSUME NEW stays \in Seq(Stay),
           \A p, q \in DOMAIN stays :
               p < q => stays[p].checkIn <= stays[q].checkIn
    PROVE  SortByCheckIn(stays) = stays
<1> DEFINE kept == DOMAIN stays
           n == Cardinality(kept)
           sorted == SortByCheckIn(stays)
<1>1. n = Len(stays) /\ kept = 1 .. Len(stays) /\ Len(stays) \in Nat
  <2>1. kept = 1 .. Len(stays) /\ Len(stays) \in Nat
    OBVIOUS
  <2>2. Cardinality(1 .. Len(stays)) = Len(stays)
    BY <2>1, CountTo, Zenon
  <2>3. QED
    BY <2>1, <2>2, Zenon
<1>2. ASSUME NEW p \in kept PROVE stays[p].checkIn \in Int
  <2>1. stays[p] \in Stay
    BY <1>1
  <2>2. QED
    BY <2>1 DEF Stay
<1>3. ASSUME NEW i \in kept PROVE Place(stays, kept, i) = i - 1
  <2>1. {j \in kept : Earlier(stays, j, i)} = 1 .. i - 1
    BY <1>1, <1>2 DEF Earlier
  <2>2. i - 1 \in Nat
    BY <1>1
  <2>3. Cardinality(1 .. i - 1) = i - 1
    BY <2>2, CountTo, Zenon
  <2>4. QED
    BY <2>1, <2>3, Zenon DEF Place
<1>4. ASSUME NEW p \in kept
      PROVE  (CHOOSE i \in kept : Place(stays, kept, i) = p - 1) = p
  <2>1. \A i \in kept : Place(stays, kept, i) = p - 1 <=> i = p
    BY <1>1, <1>3
  <2>2. QED
    BY <2>1, Zenon
<1>5. sorted = [p \in 1 .. n |->
                  stays[CHOOSE i \in kept : Place(stays, kept, i) = p - 1]]
  BY Zenon DEF SortByCheckIn, InOrder, Place
<1>6. sorted = [p \in kept |-> stays[p]]
  BY <1>1, <1>4, <1>5
<1>7. QED
  BY <1>6

-----------------------------------------------------------------------------
(***************************************************************************)
(* The conflict test and the search for the first conflict.                *)
(***************************************************************************)
\* The stays end at an hour, and the stays of a list are stays.
LEMMA StayHours ==
    ASSUME NEW stay \in Stay, NEW buffer \in Int
    PROVE  stay.checkIn \in Int /\ OccupiedUntil(stay, buffer) \in Int
  BY DEF Stay, OccupiedUntil, EffectiveCheckOut

\* A window that is only asked for ends at its check-out.
LEMMA AskedHours ==
    ASSUME NEW askedOut, NEW buffer
    PROVE  OccupiedUntil(Asked(askedOut), buffer) = askedOut + buffer
  BY DEF OccupiedUntil, EffectiveCheckOut, Asked

\* The search returns null when no stay of the list is in the way.
LEMMA NoConflict ==
    ASSUME NEW stays \in Seq(Stay), NEW askedIn, NEW askedOut, NEW buffer
    PROVE  (FindFirstConflict(stays, askedIn, askedOut, buffer) = Null) =
           ~\E stay \in Held(stays) :
                HasOccupancyConflict(stay, askedIn, askedOut, buffer)
<1> DEFINE sorted == SortByCheckIn(stays)
           Hit(stay) == HasOccupancyConflict(stay, askedIn, askedOut, buffer)
           hits == {i \in DOMAIN sorted : Hit(sorted[i])}
           found == FindFirstConflict(stays, askedIn, askedOut, buffer)
<1>1. sorted \in Seq(Stay) /\ Held(sorted) = Held(stays)
  BY SortSorts
<1>2. found = IF hits = {} THEN Null ELSE sorted[Min(hits)]
  BY Zenon DEF FindFirstConflict
<1>3. hits = {} <=> ~\E stay \in Held(stays) : Hit(stay)
  BY <1>1, Zenon DEF Held
<1> HIDE DEF Hit
<1>4. hits # {} => sorted[Min(hits)] \in Stay
  <2>1. hits \in SUBSET Nat /\ hits \in SUBSET DOMAIN sorted
    BY <1>1
  <2>2. hits # {} => Min(hits) \in DOMAIN sorted
    BY <2>1, MinIsLeast
  <2> HIDE DEF hits
  <2>3. QED
    BY <1>1, <2>2
<1> HIDE DEF sorted, hits, found
<1>5. QED
  BY <1>2, <1>3, <1>4, NullIsNoStay, Zenon DEF Hit, found

\* Otherwise it returns the first of the sorted list that is.
LEMMA FirstConflict ==
    ASSUME NEW stays \in Seq(Stay), NEW askedIn, NEW askedOut, NEW buffer,
           FindFirstConflict(stays, askedIn, askedOut, buffer) # Null
    PROVE  LET sorted == SortByCheckIn(stays)
               first  == FindFirstConflict(stays, askedIn, askedOut, buffer)
           IN  \E index \in DOMAIN sorted :
                /\ first = sorted[index]
                /\ HasOccupancyConflict(first, askedIn, askedOut, buffer)
                /\ \A i \in DOMAIN sorted :
                     i < index =>
                       ~HasOccupancyConflict(sorted[i], askedIn, askedOut, buffer)
<1> DEFINE sorted == SortByCheckIn(stays)
           Hit(stay) == HasOccupancyConflict(stay, askedIn, askedOut, buffer)
           hits == {i \in DOMAIN sorted : Hit(sorted[i])}
           found == FindFirstConflict(stays, askedIn, askedOut, buffer)
<1>1. found = IF hits = {} THEN Null ELSE sorted[Min(hits)]
  BY Zenon DEF FindFirstConflict
<1>2. hits # {} /\ found = sorted[Min(hits)]
  BY <1>1, Zenon
<1>3. hits \in SUBSET Nat
  BY SortSorts
<1>4. Min(hits) \in hits /\ \A i \in hits : Min(hits) <= i
  BY <1>2, <1>3, MinIsLeast, Zenon
<1>5. DOMAIN sorted \subseteq Nat
  BY SortSorts
<1> HIDE DEF Hit
<1>6. ASSUME NEW i \in DOMAIN sorted, i < Min(hits)
      PROVE  ~Hit(sorted[i])
  <2>1. i \in Nat /\ Min(hits) \in Nat
    BY <1>3, <1>4, <1>5
  <2>2. ~(Min(hits) <= i)
    BY <1>6, <2>1
  <2>3. i \notin hits
    BY <1>4, <2>2, Zenon
  <2>4. QED
    BY <2>3, Zenon
<1>7. Min(hits) \in DOMAIN sorted /\ Hit(sorted[Min(hits)])
  BY <1>4, Zenon
<1> HIDE DEF sorted, hits, found
<1>8. QED
  BY <1>2, <1>6, <1>7, Zenon DEF Hit, sorted, found

-----------------------------------------------------------------------------
(***************************************************************************)
(* The loop of getNextAvailableAt.                                         *)
(***************************************************************************)
\* One turn of the loop, from what the turn before left.
Turn(c, sorted, buffer, k) == ChainStep(c[k - 1], sorted[k], buffer)

ChainStart(sorted, index, buffer) ==
    [until |-> OccupiedUntil(sorted[index], buffer), done |-> FALSE]

IsChain(c, sorted, index, buffer, last) ==
    c = [k \in index .. last |->
           IF k = index THEN ChainStart(sorted, index, buffer)
           ELSE Turn(c, sorted, buffer, k)]

\* The loop runs: there is a value for every turn, whatever the list.
LEMMA ChainExists ==
    ASSUME NEW sorted, NEW index \in Nat, NEW buffer, NEW last \in Nat,
           index <= last
    PROVE  \E c : IsChain(c, sorted, index, buffer, last)
<1> DEFINE Missing == {n \in Nat : /\ index <= n
                                   /\ ~\E c : IsChain(c, sorted, index, buffer, n)}
<1> SUFFICES ASSUME Missing # {} PROVE FALSE
  OBVIOUS
<1>1. PICK n \in Missing : \A m \in Missing : n <= m
  BY LeastIndex
<1>2. n # index
  <2> DEFINE c == [k \in index .. index |-> ChainStart(sorted, index, buffer)]
  <2>1. c = [k \in index .. index |->
               IF k = index THEN ChainStart(sorted, index, buffer)
               ELSE Turn(c, sorted, buffer, k)]
    OBVIOUS
  <2>2. IsChain(c, sorted, index, buffer, index)
    BY <2>1, Zenon DEF IsChain
  <2>3. QED
    BY <2>2, <1>1
<1>3. n \in Nat /\ index <= n - 1 /\ n - 1 \in Nat
  BY <1>1, <1>2
<1>4. n - 1 \notin Missing
  BY <1>1, <1>3
<1>5. PICK c : IsChain(c, sorted, index, buffer, n - 1)
  BY <1>3, <1>4
<1> DEFINE Start == ChainStart(sorted, index, buffer)
           d == [k \in index .. n |->
                   IF k = n THEN Turn(c, sorted, buffer, n) ELSE c[k]]
<1>6. \A k \in index .. n :
        d[k] = IF k = index THEN Start ELSE Turn(d, sorted, buffer, k)
  <2>1. \A k \in index .. n - 1 :
          c[k] = IF k = index THEN Start ELSE Turn(c, sorted, buffer, k)
    BY <1>5, Zenon DEF IsChain
  <2>2. \A k \in index .. n - 1 : d[k] = c[k]
    BY <1>3
  <2>3. ASSUME NEW k \in index .. n, k # index
        PROVE  Turn(d, sorted, buffer, k) = Turn(c, sorted, buffer, k)
    <3>1. k - 1 \in index .. n - 1
      BY <1>3, <2>3
    <3>2. d[k - 1] = c[k - 1]
      BY <2>2, <3>1, Zenon
    <3>3. QED
      BY <3>2, Zenon DEF Turn
  <2>4. d[n] = Turn(c, sorted, buffer, n)
    BY <1>3
  <2>5. \A k \in index .. n : k = n \/ k \in index .. n - 1
    BY <1>3
  <2>6. n \in index .. n /\ n # index
    BY <1>2, <1>3
  <2> HIDE DEF d, Start
  <2>7. QED
    BY <2>1, <2>2, <2>3, <2>4, <2>5, <2>6, Zenon
<1>7. d = [k \in index .. n |-> d[k]]
  BY Zenon
<1> HIDE DEF d
<1>8. IsChain(d, sorted, index, buffer, n)
  BY <1>6, <1>7, Zenon DEF IsChain
<1>9. QED
  BY <1>1, <1>8

\* The time the loop returns is the one its last turn leaves.
LEMMA ChainTurns ==
    ASSUME NEW sorted \in Seq(Stay), NEW index \in DOMAIN sorted, NEW buffer
    PROVE  \E c : /\ IsChain(c, sorted, index, buffer, Len(sorted))
                 /\ Chain(sorted, index, buffer) = c[Len(sorted)].until
<1>1. index \in Nat /\ Len(sorted) \in Nat /\ index <= Len(sorted)
  OBVIOUS
<1>2. \E c : IsChain(c, sorted, index, buffer, Len(sorted))
  BY <1>1, ChainExists
<1> DEFINE c == CHOOSE c : IsChain(c, sorted, index, buffer, Len(sorted))
<1>3. IsChain(c, sorted, index, buffer, Len(sorted))
  BY <1>2, Zenon
<1>4. Chain(sorted, index, buffer) = c[Len(sorted)].until
  BY Zenon DEF Chain, IsChain, Turn, ChainStart
<1> HIDE DEF c
<1>5. QED
  BY <1>3, <1>4, Zenon

(***************************************************************************)
(* What a turn leaves: until is a time no stay visited lasts beyond,       *)
(* except those that begin after it (the loop has then ended), and every   *)
(* instant from the conflict up to it is taken by a stay visited.          *)
(***************************************************************************)
Covers(stay, t, buffer) == stay.checkIn <= t /\ t < OccupiedUntil(stay, buffer)

TurnKept(c, sorted, index, buffer, k) ==
    /\ c.until \in Int
    /\ c.done \in BOOLEAN
    /\ OccupiedUntil(sorted[index], buffer) <= c.until
    /\ \A j \in index .. k :
         \/ OccupiedUntil(sorted[j], buffer) <= c.until
         \/ c.done /\ sorted[j].checkIn > c.until
    /\ c.done => \E j \in index .. k : sorted[j].checkIn > c.until
    /\ \A t \in Int :
         sorted[index].checkIn <= t /\ t < c.until =>
            \E j \in index .. k : Covers(sorted[j], t, buffer)

\* One turn keeps it.
LEMMA TurnKeeps ==
    ASSUME NEW sorted \in Seq(Stay), NEW buffer \in Int,
           \A p, q \in DOMAIN sorted :
               p < q => sorted[p].checkIn <= sorted[q].checkIn,
           NEW index \in DOMAIN sorted, NEW k \in DOMAIN sorted, index < k,
           NEW c \in [until : Int, done : BOOLEAN],
           TurnKept(c, sorted, index, buffer, k - 1)
    PROVE  TurnKept(ChainStep(c, sorted[k], buffer), sorted, index, buffer, k)
<1> DEFINE d == ChainStep(c, sorted[k], buffer)
           until(j) == OccupiedUntil(sorted[j], buffer)
           from(j) == sorted[j].checkIn
<1>1. /\ index \in Nat /\ k \in Nat
      /\ index .. k \subseteq DOMAIN sorted
      /\ index .. k = (index .. k - 1) \cup {k}
  OBVIOUS
<1>2. \A j \in index .. k : until(j) \in Int /\ from(j) \in Int
  <2>1. \A j \in index .. k : sorted[j] \in Stay
    BY <1>1
  <2>2. QED
    BY <2>1, StayHours
<1>3. \A j \in index .. k - 1 : from(j) <= from(k)
  BY <1>1
<1>4. CASE c.done \/ from(k) > c.until
  <2>1. d = [until |-> c.until, done |-> TRUE]
    BY <1>4 DEF ChainStep
  <2>2. from(k) > c.until
    <3>1. CASE c.done
      <4>1. PICK j \in index .. k - 1 : from(j) > c.until
        BY <3>1 DEF TurnKept
      <4>2. j \in index .. k /\ k \in index .. k
        BY <1>1
      <4>3. from(j) \in Int /\ from(k) \in Int /\ from(j) <= from(k)
        BY <1>2, <1>3, <4>2
      <4>4. c.until \in Int
        BY DEF TurnKept
      <4> HIDE DEF from
      <4>5. QED
        BY <4>1, <4>3, <4>4
    <3>2. CASE from(k) > c.until
      BY <3>2
    <3>3. QED
      BY <1>4, <3>1, <3>2
  <2> HIDE DEF until, from, d
  <2>3. QED
    BY <1>1, <1>2, <2>1, <2>2 DEF TurnKept, until, from, d
<1>5. CASE ~c.done /\ ~(from(k) > c.until)
  <2>1. Max({c.until, until(k)}) = IF c.until >= until(k) THEN c.until ELSE until(k)
    <3> DEFINE m == IF c.until >= until(k) THEN c.until ELSE until(k)
    <3>1. k \in index .. k
      BY <1>1
    <3>2. until(k) \in Int /\ c.until \in Int
      BY <1>2, <3>1
    <3> HIDE DEF until
    <3>3. \A x \in {c.until, until(k)} :
            (\A y \in {c.until, until(k)} : x >= y) <=> x = m
      BY <3>2
    <3>4. m \in {c.until, until(k)}
      BY Zenon
    <3> HIDE DEF m
    <3>5. QED
      BY <3>3, <3>4, Zenon DEF Max, m
  <2>2. d = [until |-> IF c.until >= until(k) THEN c.until ELSE until(k),
             done |-> FALSE]
    BY <1>5, <2>1 DEF ChainStep
  <2>3. ASSUME NEW t \in Int, from(index) <= t, t < d.until
        PROVE  \E j \in index .. k : Covers(sorted[j], t, buffer)
    <3>1. CASE t < c.until
      BY <1>1, <2>3, <3>1 DEF TurnKept
    <3>2. CASE ~(t < c.until)
      <4>1. k \in index .. k
        BY <1>1
      <4>2. from(k) <= t /\ t < until(k)
        BY <1>2, <1>5, <2>2, <2>3, <3>2, <4>1
      <4>3. QED
        BY <4>1, <4>2 DEF Covers
    <3>3. QED
      BY <3>1, <3>2
  <2>4. \A j \in index .. k : until(j) <= d.until
    BY <1>1, <1>2, <1>5, <2>2 DEF TurnKept
  <2>5. until(index) <= d.until /\ d.until \in Int /\ d.done = FALSE
    BY <1>1, <1>2, <2>2, <2>4
  <2> HIDE DEF until, from, d
  <2>6. QED
    BY <2>3, <2>4, <2>5 DEF TurnKept, until, from, d
<1>6. QED
  BY <1>4, <1>5

\* So does the loop.
LEMMA ChainKeeps ==
    ASSUME NEW sorted \in Seq(Stay), NEW buffer \in Int,
           \A p, q \in DOMAIN sorted :
               p < q => sorted[p].checkIn <= sorted[q].checkIn,
           NEW index \in DOMAIN sorted
    PROVE  \E c \in [until : Int, done : BOOLEAN] :
              /\ TurnKept(c, sorted, index, buffer, Len(sorted))
              /\ Chain(sorted, index, buffer) = c.until
<1>1. /\ index \in Nat /\ Len(sorted) \in Nat /\ index <= Len(sorted)
      /\ DOMAIN sorted = 1 .. Len(sorted) /\ 1 <= index
  OBVIOUS
<1>2. PICK c : /\ IsChain(c, sorted, index, buffer, Len(sorted))
               /\ Chain(sorted, index, buffer) = c[Len(sorted)].until
  BY ChainTurns, Zenon
<1> DEFINE Kept(k) == /\ c[k] \in [until : Int, done : BOOLEAN]
                      /\ TurnKept(c[k], sorted, index, buffer, k)
           Failed == {k \in index .. Len(sorted) : ~Kept(k)}
<1>3. c[index] = ChainStart(sorted, index, buffer)
      /\ \A k \in index .. Len(sorted) :
            k # index => c[k] = ChainStep(c[k - 1], sorted[k], buffer)
  <2>1. index \in index .. Len(sorted)
    BY <1>1
  <2>2. QED
    BY <1>2, <2>1, Zenon DEF IsChain, Turn
<1>4. Kept(index)
  <2>1. sorted[index].checkIn \in Int /\ OccupiedUntil(sorted[index], buffer) \in Int
    BY StayHours
  <2>2. index \in index .. index /\ \A j \in index .. index : j = index
    BY <1>1
  <2>3. QED
    BY <1>3, <2>1, <2>2 DEF ChainStart, TurnKept, Covers
<1>5. ASSUME Failed # {} PROVE FALSE
  <2>1. Failed \in SUBSET Nat
    BY <1>1
  <2>2. PICK k \in Failed : \A m \in Failed : k <= m
    BY <1>5, <2>1, LeastIndex
  <2>3. k # index
    BY <1>4, <2>2, Zenon
  <2>4. k \in DOMAIN sorted /\ index < k /\ k \in index .. Len(sorted)
        /\ k - 1 \in index .. Len(sorted) /\ ~(k <= k - 1)
    BY <1>1, <2>2, <2>3
  <2> HIDE DEF Kept
  <2>5. Kept(k - 1)
    BY <2>2, <2>4
  <2>6. c[k] = ChainStep(c[k - 1], sorted[k], buffer)
    BY <1>3, <2>3, <2>4
  <2>7. TurnKept(c[k], sorted, index, buffer, k)
    BY <2>4, <2>5, <2>6, TurnKeeps DEF Kept
  <2>8. c[k] \in [until : Int, done : BOOLEAN]
    <3>1. /\ c[k - 1] \in [until : Int, done : BOOLEAN]
          /\ c[k].until \in Int
      BY <2>5, <2>7 DEF Kept, TurnKept
    <3>2. c[k] = [c[k - 1] EXCEPT !.done = TRUE]
          \/ c[k] = [c[k - 1] EXCEPT !.until = c[k].until]
      BY <2>6, <3>1 DEF ChainStep
    <3>3. QED
      BY <3>1, <3>2
  <2>9. QED
    BY <2>2, <2>7, <2>8 DEF Kept
<1>6. Kept(Len(sorted))
  BY <1>1, <1>5
<1>7. QED
  BY <1>2, <1>6

-----------------------------------------------------------------------------
(***************************************************************************)
(* The calendar.                                                           *)
(***************************************************************************)
\* The calendar is a list of stays.
TypeOK == calendar \in Seq(Stay)

\* However the database lists them, the bookings of a room that it returns are stays.
THEOREM CalendarType == Spec => []TypeOK
<1>1. Init => TypeOK
  BY DEF Init, TypeOK
<1>2. TypeOK /\ [Next]_calendar => TypeOK'
  <2> SUFFICES ASSUME TypeOK, AddStay PROVE TypeOK'
    BY DEF Next, TypeOK
  <2>1. PICK stay \in Stay : calendar' = Append(calendar, stay)
    BY AvailabilityAssumption DEF AddStay, Windows, Stay
  <2>2. QED
    BY <2>1 DEF TypeOK
<1>3. QED
  BY <1>1, <1>2, PTL DEF Spec

\* An hour and a buffer asked for are numbers.
LEMMA WindowHours ==
    ASSUME NEW w \in Windows, NEW buffer \in Buffers
    PROVE  w[1] \in Int /\ w[2] \in Int /\ buffer \in Int
  BY AvailabilityAssumption DEF Windows

(***************************************************************************)
(* The time shown when a stay is in the way: at the index of the first     *)
(* conflict the loop begins, and what it keeps holds of the result.        *)
(***************************************************************************)
LEMMA ShownTime ==
    ASSUME NEW stays \in Seq(Stay), NEW askedIn, NEW askedOut,
           NEW buffer \in Int,
           FindFirstConflict(stays, askedIn, askedOut, buffer) # Null
    PROVE  LET sorted == SortByCheckIn(stays)
               first  == FindFirstConflict(stays, askedIn, askedOut, buffer)
           IN  \E index \in DOMAIN sorted, c \in [until : Int, done : BOOLEAN] :
                /\ first = sorted[index]
                /\ HasOccupancyConflict(first, askedIn, askedOut, buffer)
                /\ \A i \in DOMAIN sorted :
                     i < index =>
                       ~HasOccupancyConflict(sorted[i], askedIn, askedOut, buffer)
                /\ TurnKept(c, sorted, index, buffer, Len(sorted))
                /\ NextAvailableAt(stays, askedIn, askedOut, buffer) = c.until
<1> DEFINE sorted == SortByCheckIn(stays)
           Find(list) == FindFirstConflict(list, askedIn, askedOut, buffer)
           Hit(stay) == HasOccupancyConflict(stay, askedIn, askedOut, buffer)
<1>1. /\ sorted \in Seq(Stay)
      /\ \A p, q \in DOMAIN sorted :
            p < q => sorted[p].checkIn <= sorted[q].checkIn
  BY SortSorts
<1>2. SortByCheckIn(sorted) = sorted
  BY <1>1, SortOfSorted
<1>3. Find(sorted) = Find(stays)
  BY <1>2, Zenon DEF FindFirstConflict
<1>4. PICK index \in DOMAIN sorted :
        /\ Find(stays) = sorted[index]
        /\ Hit(Find(stays))
        /\ \A i \in DOMAIN sorted : i < index => ~Hit(sorted[i])
  BY FirstConflict, Zenon
<1>5. Min({i \in DOMAIN sorted : sorted[i] = Find(stays)}) = index
  <2> DEFINE same == {i \in DOMAIN sorted : sorted[i] = Find(stays)}
  <2> HIDE DEF Find, Hit, sorted
  <2>1. same \in SUBSET Nat /\ index \in same
    BY <1>1, <1>4
  <2>2. Min(same) \in same /\ Min(same) <= index
    BY <2>1, MinIsLeast
  <2>3. ~(Min(same) < index)
    BY <1>4, <2>2
  <2>4. Min(same) \in Nat /\ index \in Nat
    BY <2>1, <2>2, Zenon
  <2> HIDE DEF same
  <2>5. Min(same) = index
    BY <2>2, <2>3, <2>4
  <2>6. QED
    BY <2>5 DEF same
<1>6. NextAvailableAt(stays, askedIn, askedOut, buffer) =
        Chain(sorted, index, buffer)
  BY <1>3, <1>5, Zenon DEF NextAvailableAt
<1>7. PICK c \in [until : Int, done : BOOLEAN] :
        /\ TurnKept(c, sorted, index, buffer, Len(sorted))
        /\ Chain(sorted, index, buffer) = c.until
  BY <1>1, ChainKeeps
<1>8. QED
  BY <1>4, <1>6, <1>7, Zenon

(***************************************************************************)
(* The availability screen shows the first free instant after the stay     *)
(* that is in the way, later than the check-in asked for                   *)
(* (occupancy.service.ts getNextAvailableAt), for calendars of any length. *)
(***************************************************************************)
THEOREM ShownTimeIsFirstFree == Spec => []NextAvailableIsFirstFree
<1>1. TypeOK => NextAvailableIsFirstFree
  <2> SUFFICES ASSUME TypeOK, NEW w \in Windows, NEW buffer \in Buffers,
                      FindFirstConflict(calendar, w[1], w[2], buffer) # Null
               PROVE  LET first == FindFirstConflict(calendar, w[1], w[2], buffer)
                          shown == NextAvailableAt(calendar, w[1], w[2], buffer)
                      IN  /\ shown > w[1]
                          /\ FreeAt(shown, buffer)
                          /\ \A t \in first.checkIn .. (shown - 1) :
                                ~FreeAt(t, buffer)
    BY Zenon DEF NextAvailableIsFirstFree
  <2> DEFINE sorted == SortByCheckIn(calendar)
             first == FindFirstConflict(calendar, w[1], w[2], buffer)
             shown == NextAvailableAt(calendar, w[1], w[2], buffer)
             until(stay) == OccupiedUntil(stay, buffer)
             Hit(stay) == HasOccupancyConflict(stay, w[1], w[2], buffer)
  <2>1. calendar \in Seq(Stay)
    BY DEF TypeOK
  <2>2. w[1] \in Int /\ w[2] \in Int /\ buffer \in Int
    BY WindowHours
  <2>3. PICK index \in DOMAIN sorted, c \in [until : Int, done : BOOLEAN] :
          /\ first = sorted[index]
          /\ Hit(first)
          /\ \A i \in DOMAIN sorted : i < index => ~Hit(sorted[i])
          /\ TurnKept(c, sorted, index, buffer, Len(sorted))
          /\ shown = c.until
    BY <2>1, <2>2, ShownTime
  <2>4. /\ sorted \in Seq(Stay) /\ Held(sorted) = Held(calendar)
        /\ \A p, q \in DOMAIN sorted :
              p < q => sorted[p].checkIn <= sorted[q].checkIn
    BY <2>1, SortSorts
  <2>5. \A t : FreeAt(t, buffer) <=> \A stay \in Held(calendar) : ~Covers(stay, t, buffer)
    BY Zenon DEF FreeAt, Covers, Held
  <2>6. \A t : FreeAt(t, buffer) <=> \A i \in DOMAIN sorted : ~Covers(sorted[i], t, buffer)
    BY <2>4, <2>5, Zenon DEF Held
  <2>7. \A i \in DOMAIN sorted : sorted[i].checkIn \in Int /\ until(sorted[i]) \in Int
    BY <2>2, <2>4, StayHours
  <2>8. \A i \in DOMAIN sorted :
          Hit(sorted[i]) <=> sorted[i].checkIn < w[2] + buffer
                             /\ until(sorted[i]) > w[1]
    BY AskedHours, Zenon DEF HasOccupancyConflict
  <2>9. DOMAIN sorted = 1 .. Len(sorted) /\ Len(sorted) \in Nat
    BY <2>4
  <2> HIDE DEF sorted, first, shown, until, Hit
  <2>10. shown \in Int /\ until(first) <= shown /\ until(first) > w[1]
         /\ first.checkIn \in Int /\ until(first) \in Int
         /\ first.checkIn < w[2] + buffer
    BY <2>3, <2>7, <2>8 DEF TurnKept, until
  <2>11. shown > w[1]
    BY <2>2, <2>10
  <2>12. ASSUME NEW i \in DOMAIN sorted PROVE ~Covers(sorted[i], shown, buffer)
    <3>1. CASE i < index
      <4>1. ~Hit(sorted[i]) /\ sorted[i].checkIn <= first.checkIn
        BY <2>3, <2>4, <3>1
      <4>2. until(sorted[i]) <= w[1]
        BY <2>2, <2>7, <2>8, <2>10, <4>1
      <4>3. QED
        BY <2>2, <2>7, <2>11, <2>10, <4>2 DEF Covers, until
    <3>2. CASE ~(i < index)
      <4>1. i \in index .. Len(sorted)
        BY <2>3, <2>9, <3>2
      <4>2. until(sorted[i]) <= shown \/ sorted[i].checkIn > shown
        BY <2>3, <4>1 DEF TurnKept, until
      <4>3. QED
        BY <2>7, <2>10, <4>2 DEF Covers, until
    <3>3. QED
      BY <3>1, <3>2
  <2>13. FreeAt(shown, buffer)
    BY <2>6, <2>12, Zenon
  <2>14. ASSUME NEW t \in first.checkIn .. (shown - 1) PROVE ~FreeAt(t, buffer)
    <3>1. t \in Int /\ first.checkIn <= t /\ t < shown
      BY <2>10
    <3>2. \E i \in index .. Len(sorted) : Covers(sorted[i], t, buffer)
      BY <2>3, <3>1, Zenon DEF TurnKept
    <3>3. index .. Len(sorted) \subseteq DOMAIN sorted
      BY <2>3, <2>9
    <3>4. QED
      BY <2>6, <3>2, <3>3, Zenon
  <2>15. QED
    BY <2>11, <2>13, <2>14 DEF shown, first
<1>2. QED
  BY <1>1, CalendarType, PTL

\* The candidates are the stays that begin before the end asked for.
LEMMA CandidatesHeld ==
    ASSUME NEW stays \in Seq(Stay), NEW askedOut, NEW buffer
    PROVE  LET candidates == Candidates(stays, askedOut, buffer) IN
           /\ candidates \in Seq(Stay)
           /\ Held(candidates) =
                {stay \in Held(stays) :
                   stay.checkIn < OccupiedUntil(Asked(askedOut), buffer)}
<1> DEFINE Before(stay) == stay.checkIn < OccupiedUntil(Asked(askedOut), buffer)
           kept == {i \in DOMAIN stays : Before(stays[i])}
           n == Cardinality(kept)
           L == InOrder(stays, kept)
<1> HIDE DEF Before
<1>1. kept \in SUBSET DOMAIN stays
  OBVIOUS
<1>2. L \in Seq(Stay) /\ DOMAIN L = 1 .. n
  BY <1>1, InOrderType
<1>3. PICK at \in [1 .. n -> kept] :
        /\ \A p \in 1 .. n : L[p] = stays[at[p]]
        /\ \A i \in kept : \E p \in 1 .. n : at[p] = i
  BY <1>1, InOrderLists, Zenon
<1> HIDE DEF n, L
<1>4. Held(L) = {stay \in Held(stays) : Before(stay)}
  BY <1>2, <1>3 DEF Held
<1>5. Candidates(stays, askedOut, buffer) = L
  BY Zenon DEF Candidates, L, Before
<1>6. QED
  BY <1>2, <1>4, <1>5, Zenon DEF Before

(***************************************************************************)
(* The screen, the booking form and isRoomAvailable agree on the calendar  *)
(* with the reference, and on the room the screen offers no more than the  *)
(* form accepts and no less but for its status (rooms.service.ts,          *)
(* bookings.service.ts, availability.util.ts), for calendars of any length *)
(* and any buffer.                                                         *)
(***************************************************************************)
THEOREM ScreensAgree == Spec => []AnswersAgree
<1>1. TypeOK => AnswersAgree
  <2> SUFFICES ASSUME TypeOK, NEW w \in Windows, NEW buffer \in Buffers
               PROVE  LET free == \A i \in DOMAIN calendar :
                                     Apart(w[1], w[2] + buffer, calendar[i].checkIn,
                                           OccupiedUntil(calendar[i], buffer))
                      IN  /\ IsRoomAvailable(calendar, w[1], w[2], buffer) = free
                          /\ \A row \in RoomRow :
                               LET offered  == ShownAvailable(row, calendar, w[1], w[2], buffer)
                                   accepted == BookingAccepted(row, calendar, w[1], w[2], buffer)
                               IN  /\ accepted = (free /\ ~row.deleted)
                                   /\ offered => accepted
                                   /\ accepted /\ ~offered =>
                                        row.status \in {"MAINTENANCE", "INACTIVE"}
    BY Zenon DEF AnswersAgree
  <2> DEFINE Hit(stay) == HasOccupancyConflict(stay, w[1], w[2], buffer)
             free == \A i \in DOMAIN calendar :
                       Apart(w[1], w[2] + buffer, calendar[i].checkIn,
                             OccupiedUntil(calendar[i], buffer))
             candidates == Candidates(calendar, w[2], buffer)
             first == FindFirstConflict(calendar, w[1], w[2], buffer)
             shown == NextAvailableAt(calendar, w[1], w[2], buffer)
  <2>1. calendar \in Seq(Stay)
    BY DEF TypeOK
  <2>2. w[1] \in Int /\ w[2] \in Int /\ buffer \in Int
    BY WindowHours
  <2>3. ASSUME NEW i \in DOMAIN calendar
        PROVE  Apart(w[1], w[2] + buffer, calendar[i].checkIn,
                     OccupiedUntil(calendar[i], buffer)) <=> ~Hit(calendar[i])
    <3>1. calendar[i] \in Stay
      BY <2>1
    <3>2. calendar[i].checkIn \in Int /\ OccupiedUntil(calendar[i], buffer) \in Int
      BY <2>2, <3>1, StayHours
    <3>3. OccupiedUntil(Asked(w[2]), buffer) = w[2] + buffer
      BY AskedHours
    <3> DEFINE from == calendar[i].checkIn
               until == OccupiedUntil(calendar[i], buffer)
    <3>4. Hit(calendar[i]) <=> from < w[2] + buffer /\ until > w[1]
      BY <3>3, Zenon DEF HasOccupancyConflict
    <3>5. Apart(w[1], w[2] + buffer, from, until)
          <=> w[2] + buffer <= from \/ until <= w[1]
      BY Zenon DEF Apart
    <3> HIDE DEF Hit, from, until
    <3>6. (w[2] + buffer <= from \/ until <= w[1])
          <=> ~(from < w[2] + buffer /\ until > w[1])
      BY <2>2, <3>2 DEF from, until
    <3>7. QED
      BY <3>4, <3>5, <3>6 DEF from, until
  <2>4. free = ~\E stay \in Held(calendar) : Hit(stay)
    BY <2>3, Zenon DEF Held
  <2>5. (first = Null) = free
    BY <2>1, <2>4, NoConflict, Zenon
  <2>6. (shown = Null) = (first = Null)
    <3>1. CASE first # Null
      <4>1. shown \in Int
        BY <2>1, <2>2, <3>1, ShownTime
      <4>2. QED
        BY <3>1, <4>1, NullAssumption, Zenon
    <3>2. CASE first = Null
      <4>1. FindFirstConflict(SortByCheckIn(calendar), w[1], w[2], buffer) = Null
        <5>1. /\ SortByCheckIn(calendar) \in Seq(Stay)
              /\ Held(SortByCheckIn(calendar)) = Held(calendar)
          BY <2>1, SortSorts
        <5>2. QED
          BY <2>1, <3>2, <5>1, NoConflict, Zenon
      <4>2. shown = Null
        BY <4>1, Zenon DEF NextAvailableAt
      <4>3. QED
        BY <3>2, <4>2, Zenon
    <3>3. QED
      BY <3>1, <3>2
  <2>7. /\ candidates \in Seq(Stay)
        /\ Held(candidates) =
             {stay \in Held(calendar) :
                stay.checkIn < OccupiedUntil(Asked(w[2]), buffer)}
    BY <2>1, CandidatesHeld, Zenon
  <2>8. (\E stay \in Held(candidates) : Hit(stay)) =
        (\E stay \in Held(calendar) : Hit(stay))
    BY <2>7, Zenon DEF HasOccupancyConflict
  <2>9. (FindFirstConflict(candidates, w[1], w[2], buffer) = Null) = free
    <3>1. (FindFirstConflict(candidates, w[1], w[2], buffer) = Null) =
          ~\E stay \in Held(candidates) : Hit(stay)
      BY <2>7, NoConflict, Zenon
    <3> HIDE DEF Hit, free, candidates
    <3>2. QED
      BY <2>4, <2>8, <3>1, Zenon
  <2>10. IsRoomAvailable(calendar, w[1], w[2], buffer) = free
    BY <2>4, <2>8, Zenon DEF IsRoomAvailable, Held
  <2>11. ASSUME NEW row \in RoomRow
         PROVE  /\ BookingAccepted(row, calendar, w[1], w[2], buffer)
                     = (free /\ ~row.deleted)
                /\ ShownAvailable(row, calendar, w[1], w[2], buffer)
                     = (free /\ Listed(row))
    <3> DEFINE fits == FindFirstConflict(candidates, w[1], w[2], buffer) = Null
    <3>1. BookingAccepted(row, calendar, w[1], w[2], buffer) <=> ~row.deleted /\ fits
      BY Zenon DEF BookingAccepted
    <3>2. ShownAvailable(row, calendar, w[1], w[2], buffer)
          <=> Listed(row) /\ shown = Null
      BY Zenon DEF ShownAvailable
    <3>3. fits <=> free
      BY <2>9, Zenon
    <3>4. shown = Null <=> free
      BY <2>5, <2>6, Zenon
    <3> HIDE DEF fits, free, shown
    <3>5. row.deleted \in BOOLEAN
      BY DEF RoomRow
    <3>6. QED
      BY <3>1, <3>2, <3>3, <3>4, <3>5, Zenon DEF Listed, BookingAccepted, ShownAvailable
  <2>12. ASSUME NEW row \in RoomRow, ~Listed(row), ~row.deleted
         PROVE  row.status \in {"MAINTENANCE", "INACTIVE"}
    BY <2>12 DEF Listed
  <2>13. ASSUME NEW row \in RoomRow
         PROVE  /\ BookingAccepted(row, calendar, w[1], w[2], buffer) = (free /\ ~row.deleted)
                /\ ShownAvailable(row, calendar, w[1], w[2], buffer)
                     => BookingAccepted(row, calendar, w[1], w[2], buffer)
                /\ BookingAccepted(row, calendar, w[1], w[2], buffer)
                   /\ ~ShownAvailable(row, calendar, w[1], w[2], buffer)
                     => row.status \in {"MAINTENANCE", "INACTIVE"}
    <3> HIDE DEF free
    <3>1. QED
      BY <2>11, <2>12, Zenon DEF Listed
  <2>14. QED
    BY <2>10, <2>13, Zenon
<1>2. QED
  BY <1>1, CalendarType, PTL
==============================================================================
