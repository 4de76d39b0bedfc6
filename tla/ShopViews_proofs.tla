--------------------------- MODULE ShopViews_proofs ---------------------------
(***************************************************************************)
(* What ShopReviews shows, for any rows, viewers, orders and page sizes:    *)
(* lists, details, feed and ranking agree with the one rule of visibility,  *)
(* and who reads a list page by page reads each of its rows once.           *)
(*                                                                          *)
(* A list is an enumeration of a set by a strict total order (Enumerates).  *)
(* Page p of k rows holds the rows (p - 1) * k + 1 .. p * k of it, and is   *)
(* read if (p - 1) * k rows are not all (PageIs), so that the places on the *)
(* pages are, one to one, the places in the list (ReadThrough).             *)
(***************************************************************************)
EXTENDS ShopReviews_proofs, FunctionTheorems, FiniteSetTheorems, SequenceTheorems

\* The list has every element of S, once.
Enumerates(list, S) ==
    /\ list \in Seq(S)
    /\ Len(list) = Cardinality(S)
    /\ \A i, j \in 1 .. Len(list) : list[i] = list[j] => i = j
    /\ \A s \in S : \E i \in 1 .. Len(list) : list[i] = s

\* R is a strict total order of S.
Orders(R, S) ==
    /\ \A x \in S : <<x, x>> \notin R
    /\ \A x, y, z \in S : <<x, y>> \in R /\ <<y, z>> \in R => <<x, z>> \in R
    /\ \A x, y \in S : x = y \/ <<x, y>> \in R \/ <<y, x>> \in R

\* The elements before s.
Below(R, S, s) == {t \in S : <<t, s>> \in R}

\* In a finite order each element has its place, and each place its element.
LEMMA Places ==
    ASSUME NEW S, IsFiniteSet(S), NEW R, Orders(R, S)
    PROVE  /\ Cardinality(S) \in Nat
           /\ \A s \in S : Cardinality(Below(R, S, s)) \in 0 .. Cardinality(S) - 1
           /\ \A s, t \in S : Cardinality(Below(R, S, s)) = Cardinality(Below(R, S, t)) => s = t
           /\ \A i \in 1 .. Cardinality(S) : \E s \in S : Cardinality(Below(R, S, s)) = i - 1
<1> DEFINE n == Cardinality(S)
           B(s) == Below(R, S, s)
<1>1. n \in Nat
  BY FS_CardinalityType
<1>2. ASSUME NEW s \in S
      PROVE  /\ IsFiniteSet(B(s)) /\ Cardinality(B(s)) \in Nat
             /\ Cardinality(B(s)) <= n - 1
  <2>1. B(s) \in SUBSET (S \ {s})
    BY DEF Below, Orders
  <2>2. IsFiniteSet(S \ {s}) /\ Cardinality(S \ {s}) = n - 1
    BY FS_RemoveElement
  <2> QED
    BY <2>1, <2>2, FS_Subset, FS_CardinalityType
<1>3. ASSUME NEW s \in S, NEW t \in S, <<s, t>> \in R
      PROVE  Cardinality(B(s)) < Cardinality(B(t))
  <2>1. B(s) \in SUBSET B(t)
    BY <1>3 DEF Below, Orders
  <2>2. s \in B(t) /\ s \notin B(s)
    BY <1>3 DEF Below, Orders
  <2>3. /\ IsFiniteSet(B(t)) /\ Cardinality(B(t)) \in Nat /\ Cardinality(B(s)) \in Nat
    BY <1>2
  <2> HIDE DEF B
  <2>4. Cardinality(B(s)) <= Cardinality(B(t)) /\ Cardinality(B(s)) # Cardinality(B(t))
    BY <2>1, <2>2, <2>3, FS_Subset
  <2> QED
    BY <2>3, <2>4
<1>4. \A s, t \in S : Cardinality(B(s)) = Cardinality(B(t)) => s = t
  <2>1. ASSUME NEW s \in S, NEW t \in S, Cardinality(B(s)) = Cardinality(B(t)), s # t PROVE FALSE
    <3>1. <<s, t>> \in R \/ <<t, s>> \in R
      BY <2>1 DEF Orders
    <3>2. Cardinality(B(s)) < Cardinality(B(t)) \/ Cardinality(B(t)) < Cardinality(B(s))
      BY <1>3, <3>1
    <3> QED
      BY <1>2, <2>1, <3>2
  <2> QED
    BY <2>1
<1>5. ASSUME NEW i \in 1 .. n PROVE \E s \in S : Cardinality(B(s)) = i - 1
  <2> DEFINE f == [s \in S |-> Cardinality(B(s)) + 1]
  <2>1. \A s \in S : Cardinality(B(s)) + 1 \in 1 .. n
    BY <1>1, <1>2
  <2> HIDE DEF n
  <2>2. f \in [S -> 1 .. n]
    BY <2>1
  <2>3. \A s, t \in S : f[s] = f[t] => s = t
    BY <1>2, <1>4
  <2>4. f \in Injection(S, 1 .. n)
    BY <2>2, <2>3 DEF Injection, IsInjective
  <2>5. IsFiniteSet(1 .. n) /\ Cardinality(1 .. n) = n
    BY <1>1, FS_Interval
  <2> HIDE DEF f
  <2>6. f \in Surjection(S, 1 .. n)
    BY <2>4, <2>5, FS_Injection DEF n
  <2>7. PICK s \in S : f[s] = i
    BY <1>5, <2>6 DEF Surjection
  <2>8. Cardinality(B(s)) + 1 = i
    BY <2>7 DEF f
  <2> QED
    BY <1>1, <1>2, <1>5, <2>8
<1> QED
  BY <1>1, <1>2, <1>4, <1>5

\* A list that has at each place the element of that place enumerates.
LEMMA PlacedEnumerates ==
    ASSUME NEW S, IsFiniteSet(S), NEW R, Orders(R, S), NEW list,
           list \in [1 .. Cardinality(S) -> S],
           \A i \in 1 .. Cardinality(S) : Cardinality(Below(R, S, list[i])) = i - 1
    PROVE  Enumerates(list, S)
<1> DEFINE n == Cardinality(S)
<1>1. n \in Nat
  BY Places
<1>2. list \in Seq(S) /\ Len(list) = n
  BY <1>1
<1>3. ASSUME NEW i \in 1 .. n, NEW j \in 1 .. n, list[i] = list[j] PROVE i = j
  <2>1. i - 1 = j - 1
    BY <1>3
  <2> QED
    BY <1>1, <2>1
<1>4. ASSUME NEW s \in S PROVE \E i \in 1 .. n : list[i] = s
  <2>1. Cardinality(Below(R, S, s)) \in 0 .. n - 1
    BY Places
  <2> DEFINE c == Cardinality(Below(R, S, s))
  <2> HIDE DEF c
  <2>2. c \in 0 .. n - 1
    BY <2>1 DEF c
  <2> HIDE DEF n
  <2>3. c + 1 \in 1 .. n /\ (c + 1) - 1 = c
    BY <1>1, <2>2
  <2>4. PICK i \in 1 .. n : i - 1 = Cardinality(Below(R, S, s))
    BY <2>3 DEF c
  <2> USE DEF n
  <2>5. list[i] \in S /\ Cardinality(Below(R, S, list[i])) = Cardinality(Below(R, S, s))
    BY <2>4
  <2> QED
    BY <2>5, Places
<1> QED
  BY <1>2, <1>3, <1>4 DEF Enumerates

\* An enumeration, its elements renamed one to one.
LEMMA RenamedEnumerates ==
    ASSUME NEW S, IsFiniteSet(S), NEW list, Enumerates(list, S), NEW T, NEW f \in [S -> T],
           \A s, t \in S : f[s] = f[t] => s = t,
           \A y \in T : \E s \in S : f[s] = y
    PROVE  /\ Enumerates([i \in 1 .. Len(list) |-> f[list[i]]], T)
           /\ IsFiniteSet(T) /\ Cardinality(T) = Cardinality(S)
<1>1. IsFiniteSet(T) /\ Cardinality(T) = Cardinality(S)
  <2>1. f \in Bijection(S, T)
    BY DEF Bijection, Injection, Surjection, IsInjective
  <2> QED
    BY <2>1, FS_Bijection DEF ExistsBijection
<1> DEFINE m == [i \in 1 .. Len(list) |-> f[list[i]]]
<1>2. Len(list) \in Nat /\ \A i \in 1 .. Len(list) : list[i] \in S
  BY LenProperties, ElementOfSeq DEF Enumerates
<1>3. m \in Seq(T) /\ Len(m) = Len(list)
  BY <1>2
<1>4. \A i, j \in 1 .. Len(list) : m[i] = m[j] => i = j
  BY <1>2 DEF Enumerates
<1>5. ASSUME NEW y \in T PROVE \E i \in 1 .. Len(list) : m[i] = y
  <2>1. PICK s \in S : f[s] = y
    OBVIOUS
  <2>2. PICK i \in 1 .. Len(list) : list[i] = s
    BY DEF Enumerates
  <2> QED
    BY <2>1, <2>2
<1> HIDE DEF m
<1>6. Len(list) = Cardinality(S)
  BY DEF Enumerates
<1>7. Enumerates(m, T)
  BY <1>1, <1>3, <1>4, <1>5, <1>6 DEF Enumerates
<1> QED
  BY <1>1, <1>7 DEF m

\* A list with a row for each element.
ListOf(list, S) == list = [i \in 1 .. Cardinality(S) |-> list[i]]

\* A list that chooses for each place an element of that place enumerates.
LEMMA ChosenEnumerates ==
    ASSUME NEW S, IsFiniteSet(S), NEW R, Orders(R, S), NEW list,
           ListOf(list, S),
           \A i \in 1 .. Cardinality(S) :
               (\E s \in S : Cardinality(Below(R, S, s)) = i - 1) =>
                   list[i] \in S /\ Cardinality(Below(R, S, list[i])) = i - 1
    PROVE  Enumerates(list, S)
<1>1. ASSUME NEW i \in 1 .. Cardinality(S)
      PROVE  list[i] \in S /\ Cardinality(Below(R, S, list[i])) = i - 1
  <2>1. \E s \in S : Cardinality(Below(R, S, s)) = i - 1
    BY Places
  <2> QED
    BY <2>1
<1>2. list \in [1 .. Cardinality(S) -> S]
  BY <1>1 DEF ListOf
<1>3. \A i \in 1 .. Cardinality(S) : Cardinality(Below(R, S, list[i])) = i - 1
  BY <1>1
<1> QED
  BY <1>2, <1>3, PlacedEnumerates

\* An order of a set that is not empty has a first element.
LEMMA HasFirst ==
    ASSUME NEW S, IsFiniteSet(S), S # {}, NEW R, Orders(R, S)
    PROVE  \E s \in S : \A t \in S : <<t, s>> \notin R
<1>1. Cardinality(S) \in Nat /\ Cardinality(S) # 0
  BY FS_CardinalityType, FS_EmptySet
<1>2. 1 \in 1 .. Cardinality(S) /\ 1 - 1 = 0
  BY <1>1
<1>3. \A i \in 1 .. Cardinality(S) : \E s \in S : Cardinality(Below(R, S, s)) = i - 1
  BY Places
<1>4. PICK s \in S : Cardinality(Below(R, S, s)) = 0
  BY <1>2, <1>3
<1>5. Below(R, S, s) \in SUBSET S
  BY DEF Below
<1>6. Below(R, S, s) = {}
  BY <1>4, <1>5, FS_Subset, FS_EmptySet
<1> QED
  BY <1>6 DEF Below

\* The numbers of a finite set are ordered, and one of them is the first.
LEMMA FirstIs ==
    ASSUME NEW S, S \subseteq Nat, IsFiniteSet(S), S # {}
    PROVE  First(S) \in S /\ IsFirst(First(S), S)
<1>1. PICK R : R = {x \in S \X S : x[1] < x[2]}
  OBVIOUS
<1>2. Orders(R, S)
  BY <1>1 DEF Orders
<1>3. PICK s \in S : \A t \in S : <<t, s>> \notin R
  BY <1>2, HasFirst
<1>4. ASSUME NEW t \in S PROVE s <= t
  <2>1. <<t, s>> \notin R
    BY <1>3
  <2> QED
    BY <1>1, <2>1
<1>5. IsFirst(s, S)
  BY <1>4 DEF IsFirst
<1> QED
  BY <1>5 DEF First, IsFirst

\* By name, and among equal names by age.
LEMMA SortedByName ==
    ASSUME TypeOK, NEW S, S \subseteq Shops
    PROVE  Enumerates(Sorted(S, ByName), S)
<1>1. PICK R : R = {x \in S \X S : ByName(x[1], x[2])}
  OBVIOUS
<1> DEFINE P(s, i) == Cardinality({t \in S : ByName(t, s)}) = i - 1
           at(i) == CHOOSE s \in S : P(s, i)
           list == [i \in 1 .. Cardinality(S) |-> at(i)]
<1>2. IsFiniteSet(S)
  BY ReadsAssumption, FS_Subset
<1>3. \A s \in S : s \in Nat /\ shop[s].name \in Nat
  BY ShopReviewsAssumption DEF TypeOK, ShopRow
<1>4. Orders(R, S)
  BY <1>3, <1>1 DEF Orders, ByName
<1>5. ASSUME NEW s \in S PROVE {t \in S : ByName(t, s)} = Below(R, S, s)
  BY <1>1 DEF Below
<1>6. ASSUME NEW i \in 1 .. Cardinality(S), \E s \in S : Cardinality(Below(R, S, s)) = i - 1
      PROVE  at(i) \in S /\ Cardinality(Below(R, S, at(i))) = i - 1
  <2>1. \E s \in S : P(s, i)
    BY <1>5, <1>6
  <2> HIDE DEF P
  <2>2. at(i) \in S /\ P(at(i), i)
    BY <2>1
  <2> QED
    BY <1>5, <2>2 DEF P
<1>7. PICK m : m = list
  OBVIOUS
<1>8. Sorted(S, ByName) = m
  BY <1>7 DEF Sorted
<1> HIDE DEF at
<1>9. ListOf(m, S)
  BY <1>7 DEF ListOf
<1>10. \A i \in 1 .. Cardinality(S) :
          (\E s \in S : Cardinality(Below(R, S, s)) = i - 1) =>
              m[i] \in S /\ Cardinality(Below(R, S, m[i])) = i - 1
  BY <1>6, <1>7
<1> HIDE DEF list
<1>11. Enumerates(m, S)
  BY <1>2, <1>4, <1>9, <1>10, ChosenEnumerates
<1> QED
  BY <1>8, <1>11

\* Newest first.
LEMMA SortedByNewest ==
    ASSUME NEW S, S \subseteq Nat, IsFiniteSet(S)
    PROVE  Enumerates(Sorted(S, Newer), S)
<1>1. PICK R : R = {x \in S \X S : Newer(x[1], x[2])}
  OBVIOUS
<1> DEFINE P(s, i) == Cardinality({t \in S : Newer(t, s)}) = i - 1
           at(i) == CHOOSE s \in S : P(s, i)
           list == [i \in 1 .. Cardinality(S) |-> at(i)]
<1>2. Orders(R, S)
  BY <1>1 DEF Orders, Newer
<1>3. ASSUME NEW s \in S PROVE {t \in S : Newer(t, s)} = Below(R, S, s)
  BY <1>1 DEF Below
<1>4. ASSUME NEW i \in 1 .. Cardinality(S), \E s \in S : Cardinality(Below(R, S, s)) = i - 1
      PROVE  at(i) \in S /\ Cardinality(Below(R, S, at(i))) = i - 1
  <2>1. \E s \in S : P(s, i)
    BY <1>3, <1>4
  <2> HIDE DEF P
  <2>2. at(i) \in S /\ P(at(i), i)
    BY <2>1
  <2> QED
    BY <1>3, <2>2 DEF P
<1>5. PICK m : m = list
  OBVIOUS
<1>6. Sorted(S, Newer) = m
  BY <1>5 DEF Sorted
<1> HIDE DEF at
<1>7. ListOf(m, S)
  BY <1>5 DEF ListOf
<1>8. \A i \in 1 .. Cardinality(S) :
          (\E s \in S : Cardinality(Below(R, S, s)) = i - 1) =>
              m[i] \in S /\ Cardinality(Below(R, S, m[i])) = i - 1
  BY <1>4, <1>5
<1> HIDE DEF list
<1>9. Enumerates(m, S)
  BY <1>2, <1>7, <1>8, ChosenEnumerates
<1> QED
  BY <1>6, <1>9

\* Whether s comes before t by these averages.
Rated(average, s, t) ==
    average[s] > average[t] \/ (average[s] = average[t] /\ ByName(s, t))

\* By rating, and among equal averages by name.
LEMMA SortedByRating ==
    ASSUME TypeOK, NEW S, S \subseteq Shops, NEW average \in Averages
    PROVE  Enumerates([i \in 1 .. Cardinality(S) |->
               CHOOSE s \in S : Cardinality({t \in S : Rated(average, t, s)}) = i - 1], S)
<1>1. PICK R : R = {x \in S \X S : Rated(average, x[1], x[2])}
  OBVIOUS
<1> DEFINE P(s, i) == Cardinality({t \in S : Rated(average, t, s)}) = i - 1
           at(i) == CHOOSE s \in S : P(s, i)
           list == [i \in 1 .. Cardinality(S) |-> at(i)]
<1>2. IsFiniteSet(S)
  BY ReadsAssumption, FS_Subset
<1>3. \A s \in S : s \in Nat /\ shop[s].name \in Nat /\ average[s] \in Nat
  BY ShopReviewsAssumption, ReadsAssumption DEF TypeOK, ShopRow
<1>4. Orders(R, S)
  BY <1>3, <1>1 DEF Orders, Rated, ByName
<1>5. ASSUME NEW s \in S PROVE {t \in S : Rated(average, t, s)} = Below(R, S, s)
  BY <1>1 DEF Below
<1>6. ASSUME NEW i \in 1 .. Cardinality(S), \E s \in S : Cardinality(Below(R, S, s)) = i - 1
      PROVE  at(i) \in S /\ Cardinality(Below(R, S, at(i))) = i - 1
  <2>1. \E s \in S : P(s, i)
    BY <1>5, <1>6
  <2> HIDE DEF P
  <2>2. at(i) \in S /\ P(at(i), i)
    BY <2>1
  <2> QED
    BY <1>5, <2>2 DEF P
<1>7. PICK m : m = list
  OBVIOUS
<1> HIDE DEF at
<1>8. ListOf(m, S)
  BY <1>7 DEF ListOf
<1>9. \A i \in 1 .. Cardinality(S) :
          (\E s \in S : Cardinality(Below(R, S, s)) = i - 1) =>
              m[i] \in S /\ Cardinality(Below(R, S, m[i])) = i - 1
  BY <1>6, <1>7
<1> HIDE DEF list
<1>10. Enumerates(m, S)
  BY <1>2, <1>4, <1>8, <1>9, ChosenEnumerates
<1> QED
  BY <1>7, <1>10 DEF list, at, P

\* Each order of the shop list has the shops that the viewer may see.
LEMMA ListsSeen ==
    ASSUME TypeOK, NEW vis
    PROVE  LET seen == {s \in ShopRows : CanView(vis, shop[s])} IN
           /\ Enumerates(ListShopsByName(vis), seen)
           /\ Enumerates(ListShopsByNewest(vis), seen)
           /\ \A average \in Averages : Enumerates(ListShopsByRating(vis, average), seen)
<1> DEFINE seen == {s \in ShopRows : CanView(vis, shop[s])}
<1>1. \A s \in ShopRows : ShopStatusCode(shop[s].at) = 1 <=> shop[s].at = "active"
  BY DEF TypeOK, ShopRow, ShopRows, Statuses, ShopStatusCode
<1>2. {s \in ShopRows : \/ vis.all
                        \/ ShopStatusCode(shop[s].at) = 1
                        \/ vis.id # None /\ shop[s].creator = vis.id} = seen
  BY <1>1 DEF CanView
<1>3. seen \subseteq Shops /\ seen \subseteq Nat /\ IsFiniteSet(seen)
  BY ShopReviewsAssumption, ReadsAssumption, FS_Subset DEF ShopRows
<1> HIDE DEF seen
<1>4. PICK S : S = seen
  OBVIOUS
<1>5. Enumerates(ListShopsByName(vis), S)
  BY <1>2, <1>3, <1>4, SortedByName DEF ListShopsByName
<1>6. Enumerates(ListShopsByNewest(vis), S)
  BY <1>2, <1>3, <1>4, SortedByNewest DEF ListShopsByNewest, Sorted, Newer
<1>7. ASSUME NEW average \in Averages PROVE Enumerates(ListShopsByRating(vis, average), S)
  BY <1>2, <1>3, <1>4, SortedByRating DEF ListShopsByRating, Sorted, Rated
<1> QED
  BY <1>4, <1>5, <1>6, <1>7 DEF seen

\* The rows of a page that a request for k of them gets.
Size(k) == NormalizePage(1, k).perPage

\* The page holds the rows number (p - 1) * K + 1 .. p * K of the list.
IsPage(pg, list, p, K) ==
    /\ DOMAIN pg.page = 1 .. (IF p * K < Len(list) THEN K ELSE Len(list) - (p - 1) * K)
    /\ \A i \in DOMAIN pg.page : pg.page[i] = list[(p - 1) * K + i]
    /\ pg.more <=> p * K < Len(list)

\* The statement's limit and offset cut out page p, and tell whether one follows.
LEMMA PageIs ==
    ASSUME NEW S, NEW list, list \in Seq(S), Len(list) <= MaxInt32, NEW k \in Int,
           NEW p \in 1 .. Len(list) + 1, p = 1 \/ p <= Len(list)
    PROVE  /\ PageOf(list, clampPage(p, k)) \in [page : Seq(S), more : BOOLEAN]
           /\ PageOf(list, clampPage(p, k)).more <=> p * Size(k) < Len(list)
           /\ p = 1 \/ (p - 1) * Size(k) < Len(list) =>
                IsPage(PageOf(list, clampPage(p, k)), list, p, Size(k))
<1> DEFINE n == Len(list)
           c == clampPage(p, k)
<1>1. PICK K : K = Size(k)
  OBVIOUS
<1>2. K \in 1 .. 100
  BY <1>1 DEF Size, NormalizePage, DefaultPerPage, MaxPerPage
<1>3. n \in Nat /\ n <= MaxInt32 /\ MaxInt32 \in Nat
  BY DEF MaxInt32
<1>4. PICK a : a = (p - 1) * K
  OBVIOUS
<1>5. a \in Nat /\ p * K = a + K /\ (p = 1 => a = 0)
  BY <1>2, <1>3, <1>4
<1>6. c.limit = K /\ c.offset = IF a > MaxInt32 THEN MaxInt32 ELSE a
  BY <1>1, <1>3, <1>4 DEF clampPage, NormalizePage, Size, MaxInt32
<1> DEFINE last == c.offset + c.limit + 1
           cut == SubSeq(list, c.offset + 1, IF last < n THEN last ELSE n)
<1> HIDE DEF c
<1>7. CASE a >= n
  <2>1. PICK o : o = c.offset
    OBVIOUS
  <2>2. o \in Nat /\ o >= n /\ last = o + K + 1 /\ ~(last < n)
    BY <1>2, <1>3, <1>5, <1>6, <1>7, <2>1
  <2>3. o + 1 \in Int /\ n \in Int /\ n < o + 1
    BY <1>3, <2>2
  <2>4. SubSeq(list, o + 1, n) = <<>>
    BY <2>3, SubSeqEmpty
  <2>5. cut = <<>>
    BY <2>1, <2>2, <2>4
  <2>6. ~(Len(<<>>) > K)
    BY <1>2
  <2>7. PageOf(list, c) = trimPage(cut, K)
    BY <1>6 DEF PageOf
  <2>8. PageOf(list, c) = [page |-> <<>>, more |-> FALSE]
    BY <2>5, <2>6, <2>7 DEF trimPage
  <2>9. p = 1 => n = 0
    BY <1>3, <1>5, <1>7
  <2>10. ASSUME p = 1 PROVE IsPage(PageOf(list, c), list, p, K)
    BY <1>2, <1>4, <1>5, <2>8, <2>9, <2>10 DEF IsPage
  <2>11. ~(p * K < n) /\ ~((p - 1) * K < n)
    BY <1>2, <1>3, <1>4, <1>5, <1>7
  <2>12. PageOf(list, c) \in [page : Seq(S), more : BOOLEAN] /\ ~PageOf(list, c).more
    BY <2>8
  <2> QED
    BY <1>1, <2>10, <2>11, <2>12 DEF c
<1>8. CASE a < n
  <2>1. PICK b : b = IF last < n THEN last ELSE n
    OBVIOUS
  <2>2. c.offset = a /\ last = a + K + 1 /\ b \in Nat /\ a + 1 <= b /\ b <= n
    BY <1>2, <1>3, <1>5, <1>6, <1>8, <2>1
  <2>3. PICK t : t = SubSeq(list, a + 1, b)
    OBVIOUS
  <2>4. \A i \in a + 1 .. b : list[i] \in S
    BY <1>3, <1>5, <2>2, ElementOfSeq
  <2>5. /\ t \in Seq(S)
        /\ Len(t) = b - a
        /\ \A i \in 1 .. b - a : t[i] = list[a + i]
    <3>1. a + 1 \in Int /\ b \in Int
      BY <1>5, <2>2
    <3>2. /\ t \in Seq(S)
          /\ Len(t) = IF a + 1 <= b THEN b - (a + 1) + 1 ELSE 0
          /\ \A i \in 1 .. b - (a + 1) + 1 : t[i] = list[a + 1 + i - 1]
      BY <2>3, <2>4, <3>1, SubSeqProperties
    <3>3. b - (a + 1) + 1 = b - a /\ \A i \in Int : a + 1 + i - 1 = a + i
      BY <1>5, <2>2
    <3>4. ASSUME NEW i \in 1 .. b - a PROVE t[i] = list[a + i]
      <4>1. i \in Int /\ i \in 1 .. b - (a + 1) + 1
        BY <1>5, <2>2, <3>3
      <4>2. t[i] = list[a + 1 + i - 1] /\ a + 1 + i - 1 = a + i
        BY <3>2, <3>3, <4>1
      <4> QED
        BY <4>2
    <3> QED
      BY <2>2, <3>2, <3>3, <3>4
  <2>6. PageOf(list, c) = trimPage(t, K)
    BY <1>6, <2>1, <2>2, <2>3 DEF PageOf
  <2>7. CASE a + K < n
    <3>1. b = a + K + 1 /\ b - a = K + 1
      BY <1>2, <1>3, <1>5, <2>1, <2>2, <2>7
    <3>2. PageOf(list, c) = [page |-> SubSeq(t, 1, K), more |-> TRUE]
      <4>1. Len(t) > K
        BY <1>2, <2>5, <3>1
      <4> QED
        BY <2>6, <4>1 DEF trimPage
    <3>3. \A i \in 1 .. K : t[i] \in S
      <4>1. \A i \in 1 .. K : i \in 1 .. Len(t)
        BY <1>2, <2>5, <3>1
      <4> QED
        BY <2>5, <4>1, ElementOfSeq
    <3>4. PICK u : u = SubSeq(t, 1, K)
      OBVIOUS
    <3>5. u \in Seq(S) /\ Len(u) = K /\ \A i \in 1 .. K : u[i] = t[i]
      <4>1. /\ u \in Seq(S)
            /\ Len(u) = IF 1 <= K THEN K - 1 + 1 ELSE 0
            /\ \A i \in 1 .. K - 1 + 1 : u[i] = t[1 + i - 1]
        BY <1>2, <3>3, <3>4, SubSeqProperties
      <4> QED
        BY <1>2, <4>1
    <3>6. DOMAIN u = 1 .. K /\ \A i \in 1 .. K : u[i] = list[a + i]
      BY <1>2, <2>5, <3>1, <3>5, LenProperties
    <3>7. p * K < n
      BY <1>5, <2>7
    <3>8. IsPage(PageOf(list, c), list, p, K)
      <4>1. PICK g : g = PageOf(list, c)
        OBVIOUS
      <4>2. g = [page |-> u, more |-> TRUE]
        BY ZenonT(30), <3>2, <3>4, <4>1
      <4>3. g.page = u /\ g.more = TRUE
        BY <4>2
      <4>4. DOMAIN g.page = 1 .. (IF p * K < n THEN K ELSE n - (p - 1) * K)
        BY <3>6, <3>7, <4>3
      <4>5. \A i \in DOMAIN g.page : g.page[i] = list[(p - 1) * K + i]
        BY <1>4, <3>6, <4>3
      <4> QED
        BY <3>7, <4>1, <4>3, <4>4, <4>5 DEF IsPage
    <3> QED
      BY <1>1, <1>5, <2>7, <3>2, <3>4, <3>5, <3>8 DEF c
  <2>8. CASE a + K >= n
    <3>1. b = n /\ b - a = n - a /\ ~(n - a > K)
      BY <1>2, <1>3, <1>5, <2>1, <2>2, <2>8
    <3>2. PageOf(list, c) = [page |-> t, more |-> FALSE]
      BY <1>2, <2>5, <2>6, <3>1 DEF trimPage
    <3>3. DOMAIN t = 1 .. n - a
      BY <2>5, <3>1, LenProperties
    <3>4. ~(p * K < n)
      BY <1>2, <1>3, <1>5, <2>8
    <3>5. IsPage(PageOf(list, c), list, p, K)
      BY <1>4, <2>5, <3>1, <3>2, <3>3, <3>4 DEF IsPage
    <3> QED
      BY <1>1, <2>5, <3>2, <3>4, <3>5 DEF c
  <2> QED
    BY <1>2, <1>3, <1>5, <2>7, <2>8
<1> QED
  BY <1>3, <1>5, <1>7, <1>8

\* Multiples of K keep the order of their factors.
LEMMA Multiples ==
    ASSUME NEW K \in Nat, K >= 1, NEW a \in Int, NEW b \in Int
    PROVE  /\ a * K \in Int
           /\ (a + 1) * K = a * K + K
           /\ a <= b => a * K <= b * K
           /\ a * K < b * K + K => a <= b
<1>1. (a + 1) * K = a * K + K /\ a * K \in Int
  OBVIOUS
<1>2. \A c \in Int : c >= 0 => c * K >= 0
  OBVIOUS
<1>3. ASSUME a <= b PROVE a * K <= b * K
  <2>1. b * K = (b - a) * K + a * K
    OBVIOUS
  <2> QED
    BY <1>1, <1>2, <1>3, <2>1
<1>4. ASSUME a > b PROVE a * K >= b * K + K
  <2>1. a * K = (a - b - 1) * K + (b * K + K)
    OBVIOUS
  <2>2. (a - b - 1) * K >= 0
    BY <1>2, <1>4
  <2> QED
    BY <1>1, <2>1, <2>2
<1> QED
  BY <1>1, <1>3, <1>4

\* The place of row m of a list of pages of K.
Place(m, K) == <<(m - 1) \div K + 1, m - ((m - 1) \div K) * K>>

\* The rows 1 .. n of a list have places of their own, on pages that begin before n.
LEMMA PlaceIs ==
    ASSUME NEW K \in Nat, K >= 1, NEW n \in Nat, NEW m \in 1 .. n
    PROVE  /\ Place(m, K)[1] \in 1 .. n
           /\ Place(m, K)[2] \in 1 .. K
           /\ (Place(m, K)[1] - 1) * K + Place(m, K)[2] = m
<1>1. PICK d : d = (m - 1) \div K
  OBVIOUS
<1>2. d \in Int /\ d * K <= m - 1 /\ m - 1 < d * K + K
  BY <1>1
<1>3. 0 <= d
  <2>1. 0 * K < d * K + K
    BY <1>2
  <2> QED
    BY <1>2, <2>1, Multiples
<1>4. d * 1 <= d * K
  <2>1. d * K = d * (K - 1) + d
    BY <1>2
  <2>2. d * (K - 1) >= 0
    BY <1>2, <1>3
  <2> QED
    BY <1>2, <2>1, <2>2
<1>5. d + 1 \in 1 .. n /\ m - d * K \in 1 .. K
  BY <1>2, <1>3, <1>4
<1>6. Place(m, K) = <<d + 1, m - d * K>>
  BY <1>1 DEF Place
<1>7. ((d + 1) - 1) * K + (m - d * K) = m
  BY <1>2
<1> QED
  BY <1>5, <1>6, <1>7

\* The rows of page p, when n rows are read in pages of K.
Count(p, K, n) == IF p * K < n THEN K ELSE n - (p - 1) * K

\* The places on the pages that are read, one for each row.
Shown(K, n) ==
    {x \in (1 .. n + 1) \X (1 .. n) :
        (x[1] = 1 \/ (x[1] - 1) * K < n) /\ x[2] <= Count(x[1], K, n)}

\* Rows and places correspond one to one.
LEMMA PlacesFit ==
    ASSUME NEW K \in Nat, K >= 1, NEW n \in Nat
    PROVE  /\ IsFiniteSet(Shown(K, n)) /\ Cardinality(Shown(K, n)) = n
           /\ \A x \in Shown(K, n) : (x[1] - 1) * K + x[2] \in 1 .. n
           /\ \A m \in 1 .. n : Place(m, K) \in Shown(K, n)
<1>1. ASSUME NEW m \in 1 .. n PROVE Place(m, K) \in Shown(K, n)
  <2>1. PICK p, i : p = Place(m, K)[1] /\ i = Place(m, K)[2]
    OBVIOUS
  <2>2. p \in 1 .. n /\ i \in 1 .. K /\ (p - 1) * K + i = m
    BY <2>1, PlaceIs
  <2>3. (p - 1) * K < n /\ (p - 1) * K >= 0 /\ p * K = (p - 1) * K + K /\ (p - 1) * K \in Int
    <3>1. p - 1 \in Int /\ p \in Int /\ 0 <= p - 1 /\ (p - 1) + 1 = p
      BY <2>2
    <3>2. (p - 1) * K \in Int /\ p * K = (p - 1) * K + K /\ 0 * K <= (p - 1) * K
      BY <3>1, Multiples
    <3> QED
      BY <2>2, <3>2
  <2>4. i <= Count(p, K, n) /\ i \in 1 .. n
    BY <2>2, <2>3 DEF Count
  <2>5. Place(m, K) = <<p, i>>
    BY <2>1 DEF Place
  <2> QED
    BY <2>2, <2>3, <2>4, <2>5 DEF Shown
<1>2. ASSUME NEW x \in Shown(K, n) PROVE (x[1] - 1) * K + x[2] \in 1 .. n /\ x[2] <= K
  <2>1. PICK p \in 1 .. n + 1 : \E i \in 1 .. n : x = <<p, i>>
    BY DEF Shown
  <2>2. PICK i \in 1 .. n : x = <<p, i>>
    BY <2>1
  <2>3. (p = 1 \/ (p - 1) * K < n) /\ i <= Count(p, K, n)
    BY <2>2 DEF Shown
  <2>4. (p - 1) * K \in Int /\ 0 <= (p - 1) * K /\ p * K = (p - 1) * K + K
    <3>1. p - 1 \in Int /\ p \in Int /\ 0 <= p - 1 /\ (p - 1) + 1 = p
      OBVIOUS
    <3>2. (p - 1) * K \in Int /\ p * K = (p - 1) * K + K /\ 0 * K <= (p - 1) * K
      BY <3>1, Multiples
    <3> QED
      BY <3>2
  <2>5. (p - 1) * K + i \in 1 .. n /\ i <= K
    BY <2>3, <2>4 DEF Count
  <2> QED
    BY <2>2, <2>5
<1>3. ASSUME NEW x \in Shown(K, n), NEW y \in Shown(K, n),
             (x[1] - 1) * K + x[2] = (y[1] - 1) * K + y[2]
      PROVE  x = y
  <2>1. PICK p \in Int, i \in Int : x = <<p, i>> /\ i >= 1 /\ i <= K
    BY <1>2 DEF Shown
  <2>2. PICK q \in Int, j \in Int : y = <<q, j>> /\ j >= 1 /\ j <= K
    BY <1>2 DEF Shown
  <2>3. p - 1 \in Int /\ q - 1 \in Int
    OBVIOUS
  <2>4. (p - 1) * K \in Int /\ (q - 1) * K \in Int
    BY <2>3, Multiples
  <2>5. (p - 1) * K + i = (q - 1) * K + j
    BY <1>3, <2>1, <2>2
  <2>6. (p - 1) * K < (q - 1) * K + K /\ (q - 1) * K < (p - 1) * K + K
    BY <2>1, <2>2, <2>4, <2>5
  <2>7. p - 1 <= q - 1 /\ q - 1 <= p - 1
    BY <2>3, <2>6, Multiples
  <2>8. p = q
    BY <2>7
  <2> QED
    BY <2>1, <2>2, <2>4, <2>5, <2>8
<1>4. PICK f : f = [x \in Shown(K, n) |-> (x[1] - 1) * K + x[2]]
  OBVIOUS
<1>5. f \in [Shown(K, n) -> 1 .. n]
  BY <1>2, <1>4
<1>6. \A x, y \in Shown(K, n) : f[x] = f[y] => x = y
  BY <1>3, <1>4
<1>7. ASSUME NEW m \in 1 .. n PROVE \E x \in Shown(K, n) : f[x] = m
  BY <1>1, <1>4, PlaceIs
<1>8. f \in Bijection(Shown(K, n), 1 .. n)
  BY <1>5, <1>6, <1>7 DEF Bijection, Injection, Surjection, IsInjective
<1>9. IsFiniteSet(1 .. n) /\ Cardinality(1 .. n) = n
  BY FS_Interval
<1>10. ExistsBijection(1 .. n, Shown(K, n))
  BY <1>8, Fun_ExistsBijSymmetric DEF ExistsBijection
<1> QED
  BY <1>1, <1>2, <1>9, <1>10, FS_Bijection

\* Who reads an enumeration page by page reads each of its elements once.
LEMMA ReadThrough ==
    ASSUME NEW T, NEW list, Enumerates(list, T), NEW K \in Nat, K >= 1, NEW page,
           \A p \in 1 .. Len(list) : page[p].more <=> p * K < Len(list),
           \A p \in 1 .. Len(list) + 1 :
               p = 1 \/ (p - 1) * K < Len(list) => IsPage(page[p], list, p, K)
    PROVE  ReadsAll(page, T)
<1>1. PICK n : n = Len(list)
  OBVIOUS
<1>2. n \in Nat /\ n = Cardinality(T)
  BY <1>1, LenProperties DEF Enumerates
<1> DEFINE more  == {p \in Upto(Cardinality(T)) : page[p].more}
           pages == {q \in Upto(Cardinality(T)) : q = 1 \/ q - 1 \in more}
           turned == {<<p, page[p].page>> : p \in pages}
           shown == UNION {{<<x[1], i, x[2][i]>> : i \in DOMAIN x[2]} : x \in turned}
           row(x) == <<x[1], x[2], list[(x[1] - 1) * K + x[2]]>>
<1>3. ASSUME NEW p \in 1 .. n + 1
      PROVE  /\ p \in pages <=> p = 1 \/ (p - 1) * K < n
             /\ (p - 1) * K \in Int /\ (p - 1) * K >= 0 /\ p * K = (p - 1) * K + K
  <2>1. p # 1 => p - 1 \in 1 .. n /\ p - 1 \in Upto(Cardinality(T))
    BY <1>2 DEF Upto
  <2>2. p # 1 => (page[p - 1].more <=> (p - 1) * K < n)
    BY <1>1, <2>1
  <2>3. p - 1 \in Int /\ 0 <= p - 1 /\ (p - 1) + 1 = p
    BY <1>2
  <2>4. (p - 1) * K \in Int /\ p * K = (p - 1) * K + K /\ 0 * K <= (p - 1) * K
    BY <2>3, Multiples
  <2>5. p \in pages <=> p = 1 \/ (p - 1) * K < n
    BY <1>2, <2>2 DEF Upto
  <2> QED
    BY <2>4, <2>5
<1>4. pages \subseteq 1 .. n + 1
  BY <1>2 DEF Upto
<1>5. ASSUME NEW p \in pages
      PROVE  /\ DOMAIN page[p].page = 1 .. Count(p, K, n)
             /\ \A i \in 1 .. Count(p, K, n) : page[p].page[i] = list[(p - 1) * K + i]
             /\ Count(p, K, n) <= n
             /\ p # 1 => Count(p, K, n) >= 1
  <2>1. p \in 1 .. n + 1 /\ (p = 1 \/ (p - 1) * K < n)
    BY <1>3, <1>4
  <2>2. IsPage(page[p], list, p, K)
    BY <1>1, <2>1
  <2>3. Count(p, K, n) <= n /\ (p # 1 => Count(p, K, n) >= 1)
    BY <1>2, <1>3, <2>1 DEF Count
  <2> QED
    BY <1>1, <2>2, <2>3 DEF IsPage, Count
<1> HIDE DEF more, pages
<1>6. shown = {row(x) : x \in Shown(K, n)}
  <2>1. ASSUME NEW y \in shown PROVE \E x \in Shown(K, n) : y = row(x)
    <3>1. PICK p \in pages : \E i \in DOMAIN page[p].page : y = <<p, i, page[p].page[i]>>
      OBVIOUS
    <3>2. PICK i \in 1 .. Count(p, K, n) : y = <<p, i, list[(p - 1) * K + i]>>
      BY <1>5, <3>1
    <3>3. p \in 1 .. n + 1 /\ (p = 1 \/ (p - 1) * K < n)
      BY <1>3, <1>4
    <3>4. i \in 1 .. n /\ i <= Count(p, K, n)
      BY <1>2, <1>3, <1>5, <3>2, <3>3 DEF Count
    <3>5. <<p, i>> \in Shown(K, n)
      BY <3>3, <3>4 DEF Shown
    <3> QED
      BY <3>2, <3>5
  <2>2. ASSUME NEW x \in Shown(K, n) PROVE row(x) \in shown
    <3>1. PICK p \in 1 .. n + 1, i \in 1 .. n : x = <<p, i>>
      BY DEF Shown
    <3>2. (p = 1 \/ (p - 1) * K < n) /\ i <= Count(p, K, n)
      BY <3>1 DEF Shown
    <3>3. p \in pages
      BY <1>3, <3>2
    <3>4. i \in 1 .. Count(p, K, n)
      BY <1>2, <1>3, <3>2 DEF Count
    <3>5. i \in DOMAIN page[p].page /\ page[p].page[i] = list[(p - 1) * K + i]
      BY <1>5, <3>3, <3>4
    <3>6. PICK z : z = <<p, page[p].page>>
      OBVIOUS
    <3>7. z \in turned /\ z[1] = p /\ z[2] = page[p].page
      BY <3>3, <3>6
    <3>8. <<z[1], i, z[2][i]>> \in shown
      BY <3>5, <3>7
    <3> QED
      BY <3>1, <3>5, <3>7, <3>8
  <2> QED
    BY <2>1, <2>2
<1>7. {y[3] : y \in shown} = T
  <2>1. ASSUME NEW x \in Shown(K, n) PROVE row(x)[3] \in T
    <3>1. PICK k : k = (x[1] - 1) * K + x[2]
      OBVIOUS
    <3>2. k \in 1 .. n
      BY <1>2, <3>1, PlacesFit
    <3>3. list[k] \in T
      BY <1>1, <3>2, ElementOfSeq DEF Enumerates
    <3> QED
      BY <3>1, <3>3
  <2>2. ASSUME NEW t \in T PROVE \E x \in Shown(K, n) : row(x)[3] = t
    <3>1. PICK m \in 1 .. n : list[m] = t
      BY <1>1 DEF Enumerates
    <3>2. PICK x : x = Place(m, K)
      OBVIOUS
    <3>3. x \in Shown(K, n) /\ (x[1] - 1) * K + x[2] = m
      BY <1>2, <3>2, PlacesFit, PlaceIs
    <3> QED
      BY <3>1, <3>3
  <2>3. ASSUME NEW y \in shown PROVE y[3] \in T
    <3>1. PICK x \in Shown(K, n) : y = row(x)
      BY <1>6
    <3> QED
      BY <2>1, <3>1
  <2>4. ASSUME NEW t \in T PROVE \E y \in shown : y[3] = t
    <3>1. PICK x \in Shown(K, n) : row(x)[3] = t
      BY <2>2
    <3>2. PICK y : y = row(x)
      OBVIOUS
    <3> QED
      BY <1>6, <3>1, <3>2
  <2> HIDE DEF shown
  <2> QED
    BY <2>3, <2>4
<1>8. Cardinality(shown) = n
  <2>1. PICK f : f = [x \in Shown(K, n) |-> row(x)]
    OBVIOUS
  <2>2. f \in [Shown(K, n) -> shown]
    BY <1>6, <2>1
  <2>3. ASSUME NEW x \in Shown(K, n), NEW y \in Shown(K, n), f[x] = f[y]
        PROVE  x = y
    <3>1. x = <<x[1], x[2]>> /\ y = <<y[1], y[2]>>
      BY DEF Shown
    <3>2. row(x) = row(y)
      BY <2>1, <2>3
    <3> QED
      BY <3>1, <3>2
  <2>4. \A y \in shown : \E x \in Shown(K, n) : f[x] = y
    BY <1>6, <2>1
  <2>5. f \in Bijection(Shown(K, n), shown)
    BY <2>2, <2>3, <2>4 DEF Bijection, Injection, Surjection, IsInjective
  <2>6. IsFiniteSet(Shown(K, n)) /\ Cardinality(Shown(K, n)) = n
    BY <1>2, PlacesFit
  <2>7. ExistsBijection(Shown(K, n), shown)
    BY <2>5 DEF ExistsBijection
  <2> QED
    BY <2>6, <2>7, FS_Bijection
<1>9. ASSUME NEW p \in pages, page[p].page = <<>> PROVE p = 1
  <2>1. DOMAIN page[p].page = {}
    BY <1>9
  <2>2. p # 1 => 1 \in 1 .. Count(p, K, n)
    BY <1>2, <1>3, <1>4, <1>5 DEF Count
  <2> QED
    BY <1>5, <2>1, <2>2
<1>10. \A x \in turned : x[2] = <<>> => x[1] = 1
  BY <1>9
<1> QED
  BY <1>2, <1>7, <1>8, <1>10 DEF ReadsAll, more, pages

\* The pages that a list is read in, with each row renamed.
Renamed(page, list, k, f) ==
    \A p \in {1} \cup 1 .. Len(list) :
        LET pg == PageOf(list, clampPage(p, k)) IN
        /\ page[p].more = pg.more
        /\ page[p].page = [i \in DOMAIN pg.page |-> f[pg.page[i]]]

\* The pages of an enumeration, their rows renamed one to one.
LEMMA RenamedRead ==
    ASSUME NEW S, IsFiniteSet(S), NEW list, Enumerates(list, S), Len(list) <= MaxInt32,
           NEW k \in Int, NEW T, NEW f, f \in Bijection(S, T),
           NEW page, Renamed(page, list, k, f)
    PROVE  ReadsAll(page, T)
<1>1. /\ f \in [S -> T]
      /\ \A s, t \in S : f[s] = f[t] => s = t
      /\ \A y \in T : \E s \in S : f[s] = y
  BY DEF Bijection, Injection, Surjection, IsInjective
<1>2. \A p \in {1} \cup 1 .. Len(list) :
           LET pg == PageOf(list, clampPage(p, k)) IN
           /\ page[p].more = pg.more
           /\ page[p].page = [i \in DOMAIN pg.page |-> f[pg.page[i]]]
  BY DEF Renamed
<1>3. PICK m : m = [i \in 1 .. Len(list) |-> f[list[i]]]
  OBVIOUS
<1>4. Enumerates(m, T)
  BY <1>3, <1>1, RenamedEnumerates
<1>5. PICK K : K = Size(k)
  OBVIOUS
<1>6. K \in Nat /\ K >= 1
  BY <1>5 DEF Size, NormalizePage, DefaultPerPage, MaxPerPage
<1>7. list \in Seq(S) /\ Len(list) \in Nat
  BY LenProperties DEF Enumerates
<1>8. Len(m) = Len(list)
  BY <1>3, <1>7
<1>9. ASSUME NEW p \in 1 .. Len(list) PROVE page[p].more <=> p * K < Len(m)
  <2>1. p \in 1 .. Len(list) + 1 /\ p <= Len(list)
    BY <1>7
  <2>2. /\ PageOf(list, clampPage(p, k)) \in [page : Seq(S), more : BOOLEAN]
        /\ PageOf(list, clampPage(p, k)).more <=> p * K < Len(list)
    BY <1>5, <1>7, <2>1, PageIs
  <2>3. page[p].more = PageOf(list, clampPage(p, k)).more
    BY <1>2
  <2> QED
    BY <1>8, <2>2, <2>3
<1>10. ASSUME NEW p \in 1 .. Len(list) + 1, p = 1 \/ (p - 1) * K < Len(list)
      PROVE  IsPage(page[p], m, p, K)
  <2>1. (p - 1) * K \in Int /\ p * K = (p - 1) * K + K /\ 0 <= (p - 1) * K
    <3>1. p - 1 \in Int /\ 0 <= p - 1 /\ (p - 1) + 1 = p
      BY <1>7
    <3>2. (p - 1) * K \in Int /\ p * K = (p - 1) * K + K /\ 0 * K <= (p - 1) * K
      BY <1>6, <3>1, Multiples
    <3> QED
      BY <1>6, <3>2
  <2>2. p = 1 \/ p <= Len(list)
    <3>1. CASE p = Len(list) + 1 /\ p # 1
      <4>1. p - 1 = Len(list) /\ Len(list) \in Int /\ Len(list) >= 0
        BY <1>7, <3>1
      <4>2. Len(list) * K >= Len(list)
        <5>1. Len(list) * K = Len(list) * (K - 1) + Len(list) /\ Len(list) * (K - 1) >= 0
          BY <1>6, <4>1
        <5> QED
          BY <1>6, <4>1, <5>1
      <4> QED
        BY <1>6, <1>10, <3>1, <4>1, <4>2
    <3> QED
      BY <1>7, <3>1
  <2>3. PICK pg : pg = PageOf(list, clampPage(p, k))
    OBVIOUS
  <2>4. /\ pg.more = TRUE \/ pg.more = FALSE
        /\ IsPage(pg, list, p, K)
    BY <1>5, <1>7, <1>10, <2>2, <2>3, PageIs
  <2>5. page[p].more = pg.more /\ page[p].page = [i \in DOMAIN pg.page |-> f[pg.page[i]]]
    <3>1. p \in {1} \cup 1 .. Len(list)
      BY <1>7, <2>2
    <3> QED
      BY <1>2, <2>3, <3>1
  <2>6. /\ DOMAIN pg.page = 1 .. Count(p, K, Len(list))
        /\ \A i \in 1 .. Count(p, K, Len(list)) : pg.page[i] = list[(p - 1) * K + i]
        /\ pg.more <=> p * K < Len(list)
    BY <2>4 DEF IsPage, Count
  <2>7. ASSUME NEW i \in 1 .. Count(p, K, Len(list))
        PROVE  page[p].page[i] = m[(p - 1) * K + i]
    <3>1. PICK a, b : a = (p - 1) * K /\ b = Count(p, K, Len(list))
      OBVIOUS
    <3>2. a \in Nat /\ b \in Int /\ b <= Len(list) - a
      <4>1. b = IF p * K < Len(list) THEN K ELSE Len(list) - a
        BY <3>1 DEF Count
      <4>2. a \in Int /\ p * K = a + K /\ 0 <= a
        BY <2>1, <3>1
      <4> QED
        BY <1>6, <1>7, <4>1, <4>2
    <3>3. i \in 1 .. b
      BY <3>1
    <3>4. (p - 1) * K + i \in 1 .. Len(list)
      BY <1>7, <3>1, <3>2, <3>3
    <3>5. page[p].page[i] = f[list[(p - 1) * K + i]]
      BY <2>5, <2>6
    <3> QED
      BY <1>3, <3>4, <3>5
  <2>8. DOMAIN page[p].page = 1 .. Count(p, K, Len(m))
    BY <1>8, <2>5, <2>6
  <2>9. page[p].more <=> p * K < Len(m)
    BY <1>8, <2>4, <2>5, <2>6
  <2> QED
    BY <1>8, <2>7, <2>8, <2>9 DEF IsPage, Count
<1> QED
  BY <1>4, <1>6, <1>8, <1>9, <1>10, ReadThrough

\* The pages of an enumeration as it is.
LEMMA PagesRead ==
    ASSUME NEW S, IsFiniteSet(S), NEW list, Enumerates(list, S), Len(list) <= MaxInt32,
           NEW k \in Int, NEW page,
           \A p \in {1} \cup 1 .. Len(list) : page[p] = PageOf(list, clampPage(p, k))
    PROVE  ReadsAll(page, S)
<1>1. PICK f : f = [s \in S |-> s]
  OBVIOUS
<1>2. list \in Seq(S) /\ Len(list) \in Nat
  BY LenProperties DEF Enumerates
<1>3. f \in Bijection(S, S)
  BY <1>1 DEF Bijection, Injection, Surjection, IsInjective
<1>4. ASSUME NEW p \in {1} \cup 1 .. Len(list)
      PROVE  LET pg == PageOf(list, clampPage(p, k)) IN
             /\ page[p].more = pg.more
             /\ page[p].page = [i \in DOMAIN pg.page |-> f[pg.page[i]]]
  <2>1. PICK pg : pg = PageOf(list, clampPage(p, k))
    OBVIOUS
  <2>2. p \in 1 .. Len(list) + 1 /\ (p = 1 \/ p <= Len(list))
    BY <1>2
  <2>3. pg.page \in Seq(S)
    BY <1>2, <2>1, <2>2, PageIs
  <2>4. pg.page = [i \in DOMAIN pg.page |-> f[pg.page[i]]]
    BY <1>1, <2>3
  <2> QED
    BY <2>1, <2>4
<1>5. Renamed(page, list, k, f)
  BY <1>4 DEF Renamed
<1> QED
  BY <1>3, <1>5, RenamedRead

\* Sets of shops or of reviews are finite sets of numbers, and small enough.
LEMMA SmallSets ==
    ASSUME NEW S, S \subseteq Shops \/ S \subseteq Reviews
    PROVE  /\ IsFiniteSet(S) /\ S \subseteq Nat
           /\ Cardinality(S) \in Nat /\ Cardinality(S) <= MaxInt32
<1>1. IsFiniteSet(S) /\ Cardinality(S) <= MaxInt32
  <2>1. CASE S \subseteq Shops
    <3>1. IsFiniteSet(S) /\ Cardinality(S) <= Cardinality(Shops)
      BY <2>1, ReadsAssumption, FS_Subset
    <3> QED
      BY <3>1, ReadsAssumption, FS_CardinalityType DEF MaxInt32
  <2>2. CASE S \subseteq Reviews
    <3>1. IsFiniteSet(S) /\ Cardinality(S) <= Cardinality(Reviews)
      BY <2>2, ReadsAssumption, FS_Subset
    <3> QED
      BY <3>1, ReadsAssumption, FS_CardinalityType DEF MaxInt32
  <2> QED
    BY <2>1, <2>2
<1> QED
  BY <1>1, ShopReviewsAssumption, FS_CardinalityType

\* Every order of the shop list shows what the viewer may see, page by page.
LEMMA ShopsRead ==
    ASSUME TypeOK, NEW viewer, NEW sort \in {"name", "newest", "rating"},
           NEW average \in Averages, NEW k \in PerPages
    PROVE  LET seen == {s \in ShopRows : CanView(ShopVisibilityFor(viewer), shop[s])} IN
           ReadsAll([p \in Upto(Cardinality(seen)) |-> List(viewer, sort, average, p, k)], seen)
<1>1. PICK vis : vis = ShopVisibilityFor(viewer)
  OBVIOUS
<1>2. PICK S : S = {s \in ShopRows : CanView(vis, shop[s])}
  OBVIOUS
<1>3. IsFiniteSet(S) /\ Cardinality(S) \in Nat /\ Cardinality(S) <= MaxInt32
  <2>1. S \subseteq Shops
    BY <1>2 DEF ShopRows
  <2> QED
    BY <2>1, SmallSets
<1>4. k \in Int
  BY ReadsAssumption
<1>5. PICK list : list = CASE sort = "newest" -> ListShopsByNewest(vis)
                           [] sort = "rating" -> ListShopsByRating(vis, average)
                           [] OTHER           -> ListShopsByName(vis)
  OBVIOUS
<1>6. Enumerates(list, S)
  <2>1. CASE sort = "newest"
    <3>1. list = ListShopsByNewest(vis)
      BY <1>5, <2>1
    <3> QED
      BY <1>2, <3>1, ListsSeen
  <2>2. CASE sort = "rating"
    <3>1. list = ListShopsByRating(vis, average)
      BY <1>5, <2>2
    <3> QED
      BY <1>2, <3>1, ListsSeen
  <2>3. CASE sort = "name"
    <3>1. list = ListShopsByName(vis)
      BY <1>5, <2>3
    <3> QED
      BY <1>2, <3>1, ListsSeen
  <2> QED
    BY <2>1, <2>2, <2>3
<1>7. PICK page : page = [p \in Upto(Cardinality(S)) |-> List(viewer, sort, average, p, k)]
  OBVIOUS
<1>8. Len(list) = Cardinality(S)
  BY <1>6 DEF Enumerates
<1>9. ASSUME NEW p \in {1} \cup 1 .. Len(list) PROVE page[p] = PageOf(list, clampPage(p, k))
  <2>1. p \in Upto(Cardinality(S))
    BY <1>3, <1>8 DEF Upto
  <2> QED
    BY <1>1, <1>5, <1>7, <2>1 DEF List, ListShops
<1>10. ReadsAll(page, S)
  BY <1>3, <1>4, <1>6, <1>8, <1>9, PagesRead
<1> QED
  BY <1>1, <1>2, <1>7, <1>10

\* A moderator's list shows every shop, page by page, with what it offers.
LEMMA ModeratorsRead ==
    ASSUME TypeOK, NEW u \in Users, CanModerate(u), NEW k \in PerPages
    PROVE  ReadsAll([p \in Upto(Cardinality(ShopRows)) |-> HandleAdminListShops(u, None, p, k)],
                    {newAdminShopResponse(s) : s \in ShopRows})
<1>1. PICK S : S = ShopRows
  OBVIOUS
<1>2. S \subseteq Shops /\ IsFiniteSet(S) /\ S \subseteq Nat /\ Cardinality(S) \in Nat
      /\ Cardinality(S) <= MaxInt32
  <2>1. S \subseteq Shops
    BY <1>1 DEF ShopRows
  <2> QED
    BY <2>1, SmallSets
<1>3. k \in Int
  BY ReadsAssumption
<1>4. PICK list : list = ListShopsForModeration(None)
  OBVIOUS
<1>5. Enumerates(list, S)
  <2> DEFINE D == {s \in ShopRows : None # None =>
                      ShopStatusCode(shop[s].at) = ShopStatusCode(None)}
  <2>1. PICK U : U = D
    OBVIOUS
  <2>2. U = S
    BY <1>1, <2>1
  <2>3. list = Sorted(D, Newer)
    BY <1>4 DEF ListShopsForModeration
  <2> HIDE DEF D
  <2>4. list = Sorted(U, Newer)
    BY <2>1, <2>3 DEF Sorted
  <2> QED
    BY <1>2, <2>2, <2>4, SortedByNewest
<1>6. Len(list) = Cardinality(S)
  BY <1>5 DEF Enumerates
<1>7. list \in Seq(S) /\ list \in Seq(Shops)
  <2>1. list \in Seq(S)
    BY <1>5 DEF Enumerates
  <2>2. Len(list) \in Nat /\ list \in [1 .. Len(list) -> S]
    BY <2>1, LenProperties
  <2>3. list \in [1 .. Len(list) -> Shops]
    BY <1>2, <2>2
  <2> QED
    BY <2>1, <2>2, <2>3
<1>8. PICK f : f = [s \in S |-> newAdminShopResponse(s)]
  OBVIOUS
<1>9. PICK T : T = {newAdminShopResponse(s) : s \in S}
  OBVIOUS
<1>10. f \in Bijection(S, T)
  <2>1. \A s \in S : newAdminShopResponse(s).shop = s
    BY DEF newAdminShopResponse
  <2>2. f \in [S -> T] /\ \A y \in T : \E s \in S : f[s] = y
    BY <1>8, <1>9
  <2>3. \A s, t \in S : f[s] = f[t] => s = t
    BY <1>8, <2>1
  <2> QED
    BY <2>2, <2>3 DEF Bijection, Injection, Surjection, IsInjective
<1>11. PICK page : page = [p \in Upto(Cardinality(S)) |-> HandleAdminListShops(u, None, p, k)]
  OBVIOUS
<1>12. ASSUME NEW p \in {1} \cup 1 .. Len(list)
       PROVE  LET pg == PageOf(list, clampPage(p, k)) IN
              /\ page[p].more = pg.more
              /\ page[p].page = [i \in DOMAIN pg.page |-> f[pg.page[i]]]
  <2>1. p \in Upto(Cardinality(S)) /\ p \in 1 .. Len(list) + 1 /\ (p = 1 \/ p <= Len(list))
    BY <1>2, <1>6 DEF Upto
  <2>2. PICK pg : pg = PageOf(list, clampPage(p, k))
    OBVIOUS
  <2>3. pg \in [page : Seq(S), more : BOOLEAN] /\ pg \in [page : Seq(Shops), more : BOOLEAN]
    BY <1>2, <1>3, <1>6, <1>7, <2>1, <2>2, PageIs
  <2>4. AdminList(u, None, p, k) = pg
    BY <1>4, <2>2 DEF AdminList
  <2>5. HandleAdminListShops(u, None, p, k) =
            [pg EXCEPT !.page = [i \in DOMAIN pg.page |-> newAdminShopResponse(pg.page[i])]]
    <3>1. pg # None
      BY <2>3, ReadsAssumption
    <3> QED
      BY <2>4, <3>1 DEF HandleAdminListShops
  <2>6. \A i \in DOMAIN pg.page : newAdminShopResponse(pg.page[i]) = f[pg.page[i]]
    BY <1>8, <2>3
  <2>7. page[p] = HandleAdminListShops(u, None, p, k)
    BY <1>11, <2>1
  <2> QED
    BY <2>2, <2>3, <2>5, <2>6, <2>7
<1>13. Renamed(page, list, k, f)
  BY <1>12 DEF Renamed
<1>14. ReadsAll(page, T)
  BY <1>2, <1>3, <1>5, <1>6, <1>10, <1>13, RenamedRead
<1> QED
  BY <1>1, <1>9, <1>11, <1>14

\* The reviews in the feed; at a shop, those of the burgers it sells.
InFeed(filter) ==
    {v \in ReviewRows : /\ GetReviewDetail(v)
                        /\ ActiveShops(review[v].burger) # {}
                        /\ filter # None => filter \in ActiveShops(review[v].burger)}

\* What the feed says of a review to one who has not signed in.
Entry(v) == [review |-> v, shop |-> First(ActiveShops(review[v].burger)), edit |-> FALSE]

\* The feed shows every review that it has, page by page.
LEMMA FeedRead ==
    ASSUME NEW filter, NEW k \in PerPages
    PROVE  ReadsAll([p \in Upto(Cardinality(InFeed(filter))) |-> Feed(None, filter, p, k)],
                    {Entry(v) : v \in InFeed(filter)})
<1>1. PICK S : S = InFeed(filter)
  OBVIOUS
<1>2. IsFiniteSet(S) /\ S \subseteq Nat /\ Cardinality(S) \in Nat /\ Cardinality(S) <= MaxInt32
  <2>1. S \subseteq Reviews
    BY <1>1 DEF InFeed, ReviewRows
  <2> QED
    BY <2>1, SmallSets
<1>3. k \in Int
  BY ReadsAssumption
<1>4. PICK rows0 : rows0 = Sorted(S, Newer)
  OBVIOUS
<1>5. Enumerates(rows0, S)
  BY <1>2, <1>4, SortedByNewest
<1>6. PICK g : g = [v \in S |-> [review |-> v, shop |-> First(ActiveShops(review[v].burger))]]
  OBVIOUS
<1>7. PICK E : E = {g[v] : v \in S}
  OBVIOUS
<1>8. PICK list : list = [i \in 1 .. Len(rows0) |-> g[rows0[i]]]
  OBVIOUS
<1>9. Enumerates(list, E) /\ IsFiniteSet(E) /\ Cardinality(E) = Cardinality(S)
  <2>1. g \in [S -> E] /\ \A y \in E : \E v \in S : g[v] = y
    BY <1>6, <1>7
  <2>2. \A v, w \in S : g[v] = g[w] => v = w
    <3>1. \A v \in S : g[v].review = v
      BY <1>6
    <3> QED
      BY <3>1
  <2> QED
    BY <1>2, <1>5, <1>8, <2>1, <2>2, RenamedEnumerates
<1>10. ListPublicReviews(filter) = list
  <2> DEFINE public == {v \in ReviewRows :
                           /\ GetReviewDetail(v)
                           /\ ActiveShops(review[v].burger) # {}
                           /\ filter # None => filter \in ActiveShops(review[v].burger)}
             sorted == Sorted(public, Newer)
  <2>1. public = S
    BY <1>1 DEF InFeed
  <2>2. ListPublicReviews(filter) =
            [i \in DOMAIN sorted |->
                [review |-> sorted[i], shop |-> First(ActiveShops(review[sorted[i]].burger))]]
    BY DEF ListPublicReviews
  <2> HIDE DEF public
  <2>3. sorted = rows0
    BY <1>4, <2>1 DEF Sorted
  <2> HIDE DEF sorted
  <2>4. rows0 \in Seq(S) /\ Len(rows0) \in Nat /\ DOMAIN rows0 = 1 .. Len(rows0)
    BY <1>5, LenProperties DEF Enumerates
  <2>5. \A i \in 1 .. Len(rows0) : g[rows0[i]] =
            [review |-> rows0[i], shop |-> First(ActiveShops(review[rows0[i]].burger))]
    BY <1>6, <2>4, ElementOfSeq
  <2> QED
    BY <1>8, <2>2, <2>3, <2>4, <2>5
<1>11. Len(list) = Cardinality(S) /\ list \in Seq(E)
  BY <1>9 DEF Enumerates
<1>12. PICK f : f = [e \in E |-> [review |-> e.review, shop |-> e.shop, edit |-> FALSE]]
  OBVIOUS
<1>13. PICK T : T = {Entry(v) : v \in S}
  OBVIOUS
<1>14. f \in Bijection(E, T)
  <2>1. ASSUME NEW v \in S PROVE g[v] \in E /\ g[v].review = v /\ f[g[v]] = Entry(v)
    BY <1>6, <1>7, <1>12 DEF Entry
  <2>2. \A e \in E : \E v \in S : e = g[v]
    BY <1>7
  <2>3. f \in [E -> T]
    <3>1. \A e \in E : f[e] \in T
      BY <1>13, <2>1, <2>2
    <3> QED
      BY <1>12, <3>1
  <2>4. \A y \in T : \E e \in E : f[e] = y
    BY <1>13, <2>1
  <2>5. \A v \in S : f[g[v]].review = v
    <3>1. ASSUME NEW v \in S PROVE f[g[v]].review = v
      <4>1. Entry(v).review = v
        BY DEF Entry
      <4>2. f[g[v]] = Entry(v)
        BY <2>1
      <4> QED
        BY <4>1, <4>2
    <3> QED
      BY <3>1
  <2>6. \A e, d \in E : f[e] = f[d] => e = d
    BY <2>2, <2>5
  <2> QED
    BY <2>3, <2>4, <2>6 DEF Bijection, Injection, Surjection, IsInjective
<1>15. PICK page : page = [p \in Upto(Cardinality(S)) |-> Feed(None, filter, p, k)]
  OBVIOUS
<1>16. ASSUME NEW p \in {1} \cup 1 .. Len(list)
       PROVE  LET pg == PageOf(list, clampPage(p, k)) IN
              /\ page[p].more = pg.more
              /\ page[p].page = [i \in DOMAIN pg.page |-> f[pg.page[i]]]
  <2>1. p \in Upto(Cardinality(S)) /\ p \in 1 .. Len(list) + 1 /\ (p = 1 \/ p <= Len(list))
    BY <1>2, <1>11 DEF Upto
  <2>2. PICK pg : pg = PageOf(list, clampPage(p, k))
    OBVIOUS
  <2>3. pg \in [page : Seq(E), more : BOOLEAN]
    BY <1>2, <1>3, <1>11, <2>1, <2>2, PageIs
  <2>4. PICK m : m = [i \in DOMAIN pg.page |->
                          [review |-> pg.page[i].review, shop |-> pg.page[i].shop, edit |-> FALSE]]
    OBVIOUS
  <2>5. Feed(None, filter, p, k) = [pg EXCEPT !.page = m]
    BY <1>10, <2>2, <2>4 DEF Feed, ListReviews
  <2>6. m = [i \in DOMAIN pg.page |-> f[pg.page[i]]]
    BY <1>12, <2>3, <2>4
  <2>7. page[p] = Feed(None, filter, p, k)
    BY <1>15, <2>1
  <2> QED
    BY <2>2, <2>3, <2>5, <2>6, <2>7
<1>17. Renamed(page, list, k, f)
  BY <1>16 DEF Renamed
<1>18. ReadsAll(page, T)
  BY <1>2, <1>3, <1>9, <1>11, <1>14, <1>17, RenamedRead
<1> QED
  BY <1>1, <1>13, <1>15, <1>18

\* The shops that a viewer may see.
Seen(viewer) == {s \in ShopRows : CanView(ShopVisibilityFor(viewer), shop[s])}

\* What the detail of a shop is, for those who may see it and for others.
LEMMA DetailIs ==
    ASSUME TypeOK, NEW viewer, NEW s \in Shops
    PROVE  /\ s \in Seen(viewer) =>
                HandleGetShop(viewer, s) =
                    [code |-> 200, note |-> shop[s].note, reviews |-> ListShopReviews(s),
                     can |-> CanBeReviewedByViewer(shop[s], viewer)]
           /\ s \notin Seen(viewer) => HandleGetShop(viewer, s) = [code |-> 404]
<1>1. ASSUME s \in Seen(viewer)
      PROVE  HandleGetShop(viewer, s) =
                 [code |-> 200, note |-> shop[s].note, reviews |-> ListShopReviews(s),
                  can |-> CanBeReviewedByViewer(shop[s], viewer)]
  <2>1. PICK d : d = [row |-> shop[s], reviews |-> ListShopReviews(s),
                      can |-> CanBeReviewedByViewer(shop[s], viewer)]
    OBVIOUS
  <2>2. Get(viewer, s) = d
    BY <1>1, <2>1 DEF Get, Seen
  <2>3. shop[s] \in ShopRow /\ ListShopReviews(s) \in SUBSET Reviews
    BY DEF TypeOK, ListShopReviews, ReviewRows
  <2>4. CanBeReviewedByViewer(shop[s], viewer) \in BOOLEAN
    BY DEF CanBeReviewedByViewer, CanBeReviewedBy
  <2>5. d \in [row : ShopRow, reviews : SUBSET Reviews, can : BOOLEAN]
    BY <2>1, <2>3, <2>4
  <2>6. d # None
    BY <2>5, ReadsAssumption
  <2>7. HandleGetShop(viewer, s) = newShopDetailResponse(d)
    BY <2>2, <2>6 DEF HandleGetShop
  <2> QED
    BY <2>1, <2>7 DEF newShopDetailResponse
<1>2. ASSUME s \notin Seen(viewer) PROVE HandleGetShop(viewer, s) = [code |-> 404]
  <2>1. Get(viewer, s) = None
    BY <1>2 DEF Get, Seen
  <2> QED
    BY <2>1 DEF HandleGetShop
<1> QED
  BY <1>1, <1>2

\* Who may post may look.
LEMMA PostersSee ==
    ASSUME NEW viewer, NEW row, CanBeReviewedByViewer(row, viewer)
    PROVE  CanView(ShopVisibilityFor(viewer), row)
BY DEF CanBeReviewedByViewer, CanBeReviewedBy, CanView, ShopVisibilityFor

\* The shop of a review is one of its shops that the viewer may see, and offers
\* to post only where the viewer may.
LEMMA ReviewShopIs ==
    ASSUME NEW viewer, NEW S, S \subseteq ShopRows
    PROVE  /\ ReviewShopFor(S, viewer) \in [shop : Shops \cup {None}, can : BOOLEAN]
           /\ ReviewShopFor(S, viewer).shop # None =>
                ReviewShopFor(S, viewer).shop \in S \cap Seen(viewer)
           /\ ReviewShopFor(S, viewer).can =>
                /\ ReviewShopFor(S, viewer).shop \in S \cap Seen(viewer)
                /\ CanBeReviewedByViewer(shop[ReviewShopFor(S, viewer).shop], viewer)
<1> DEFINE can == {s \in S : CanBeReviewedByViewer(shop[s], viewer)}
           see == {s \in S : CanView(ShopVisibilityFor(viewer), shop[s])}
<1>1. can \subseteq Shops /\ see \subseteq Shops /\ can \subseteq see /\ see \subseteq S \cap Seen(viewer)
  BY PostersSee DEF ShopRows, Seen
<1>2. CASE can # {}
  <2>1. ReviewShopFor(S, viewer) = [shop |-> First(can), can |-> TRUE]
    BY <1>2 DEF ReviewShopFor
  <2>2. First(can) \in can
    BY <1>1, <1>2, SmallSets, FirstIs
  <2> QED
    BY <1>1, <2>1, <2>2
<1>3. CASE can = {} /\ see # {}
  <2>1. ReviewShopFor(S, viewer) = [shop |-> First(see), can |-> FALSE]
    BY <1>3 DEF ReviewShopFor
  <2>2. First(see) \in see
    BY <1>1, <1>3, SmallSets, FirstIs
  <2> QED
    BY <1>1, <2>1, <2>2
<1>4. CASE can = {} /\ see = {}
  <2>1. ReviewShopFor(S, viewer) = [shop |-> None, can |-> FALSE]
    BY <1>4 DEF ReviewShopFor
  <2> QED
    BY <2>1
<1> QED
  BY <1>2, <1>3, <1>4

\* A review that is found is an answer, and names a shop the viewer may see.
LEMMA ReviewIs ==
    ASSUME NEW viewer, NEW v \in ReviewRows
    PROVE  /\ GetReview(viewer, v) # None <=> GetReviewDetail(v)
           /\ GetReviewDetail(v) =>
                GetReview(viewer, v).at = ReviewShopFor(ListReviewShops(v), viewer)
<1>1. ASSUME ~GetReviewDetail(v) PROVE GetReview(viewer, v) = None
  BY <1>1 DEF GetReview
<1>2. ASSUME GetReviewDetail(v)
      PROVE  /\ GetReview(viewer, v) # None
             /\ GetReview(viewer, v).at = ReviewShopFor(ListReviewShops(v), viewer)
  <2>1. PICK a : a = ReviewShopFor(ListReviewShops(v), viewer)
    OBVIOUS
  <2>2. a \in [shop : Shops \cup {None}, can : BOOLEAN]
    BY <2>1, ReviewShopIs DEF ListReviewShops
  <2>3. PICK e \in BOOLEAN : e = (viewer # None /\ CanBeModifiedBy(v, viewer))
    OBVIOUS
  <2>4. GetReview(viewer, v) = [at |-> a, edit |-> e]
    BY <1>2, <2>1, <2>3 DEF GetReview
  <2>5. [at |-> a, edit |-> e] \in [at : [shop : Shops \cup {None}, can : BOOLEAN], edit : BOOLEAN]
    BY <2>2
  <2> QED
    BY <2>1, <2>4, <2>5, ReadsAssumption
<1> QED
  BY <1>1, <1>2

\* To one who has not signed in a review names its oldest active shop, if any.
LEMMA NamesActiveShop ==
    ASSUME TypeOK, NEW v \in ReviewRows, GetReviewDetail(v)
    PROVE  /\ GetReview(None, v).at.shop =
                  IF ActiveShops(review[v].burger) = {} THEN None
                  ELSE First(ActiveShops(review[v].burger))
           /\ ActiveShops(review[v].burger) # {} =>
                  First(ActiveShops(review[v].burger)) # None
<1> DEFINE S == ListReviewShops(v)
           A == ActiveShops(review[v].burger)
           can == {s \in S : CanBeReviewedByViewer(shop[s], None)}
           see == {s \in S : CanView(ShopVisibilityFor(None), shop[s])}
<1>1. can = {}
  BY DEF CanBeReviewedByViewer
<1>2. see = A
  <2>1. \A s \in ShopRows : ShopStatusCode(shop[s].at) = 1 <=> shop[s].at = "active"
    BY DEF TypeOK, ShopRow, ShopRows, Statuses, ShopStatusCode
  <2>2. S = {s \in ShopRows : review[v].burger \in sold[s]}
    BY DEF ListReviewShops, GetReviewDetail
  <2>3. \A s \in S : CanView(ShopVisibilityFor(None), shop[s]) <=> shop[s].at = "active"
    BY DEF CanView, ShopVisibilityFor
  <2> HIDE DEF S
  <2> QED
    BY <2>1, <2>2, <2>3 DEF ActiveShops
<1>3. ReviewShopFor(S, None) =
          IF A = {} THEN [shop |-> None, can |-> FALSE] ELSE [shop |-> First(A), can |-> FALSE]
  <2>1. ReviewShopFor(S, None) =
            CASE can # {} -> [shop |-> First(can), can |-> TRUE]
              [] can = {} /\ see # {} -> [shop |-> First(see), can |-> FALSE]
              [] OTHER -> [shop |-> None, can |-> FALSE]
    BY DEF ReviewShopFor
  <2> HIDE DEF can, see, S, A
  <2> QED
    BY <1>1, <1>2, <2>1
<1>4. A # {} => First(A) \in A /\ A \subseteq Nat
  <2>1. A \subseteq Shops
    BY DEF ActiveShops, ShopRows
  <2> QED
    BY <2>1, SmallSets, FirstIs
<1>5. A # {} => First(A) # None
  BY <1>4, ShopReviewsAssumption
<1>6. GetReview(None, v).at = ReviewShopFor(S, None)
  BY ReviewIs
<1> HIDE DEF S, A
<1>7. GetReview(None, v).at.shop = IF A = {} THEN None ELSE First(A)
  BY <1>3, <1>6
<1> QED
  BY <1>5, <1>7 DEF A

\* What the feed has is what the details of the reviews tell.
LEMMA FeedIs ==
    ASSUME TypeOK
    PROVE  /\ ShownReviews = InFeed(None)
           /\ \A V \in SUBSET ShownReviews : Entries(V) = {Entry(v) : v \in V}
           /\ \A s \in ShopRows : shop[s].at = "active" =>
                  HandleGetShop(None, s).reviews = InFeed(s) /\ InFeed(s) \subseteq InFeed(None)
<1>1. ShownReviews = InFeed(None)
  <2>1. ASSUME NEW v \in InFeed(None) PROVE v \in ShownReviews
    <3>1. v \in ReviewRows /\ GetReviewDetail(v) /\ ActiveShops(review[v].burger) # {}
      BY DEF InFeed
    <3>2. GetReview(None, v) # None /\ GetReview(None, v).at.shop # None
      BY <3>1, NamesActiveShop, ReviewIs
    <3> QED
      BY <3>1, <3>2 DEF ShownReviews, ReviewRows
  <2>2. ASSUME NEW v \in ShownReviews PROVE v \in InFeed(None)
    <3>1. v \in Reviews /\ GetReview(None, v) # None /\ GetReview(None, v).at.shop # None
      BY DEF ShownReviews
    <3>2. GetReviewDetail(v)
      BY <3>1 DEF GetReview
    <3>3. v \in ReviewRows
      BY <3>1, <3>2 DEF ReviewRows, GetReviewDetail
    <3>4. ActiveShops(review[v].burger) # {}
      BY <3>1, <3>2, <3>3, NamesActiveShop
    <3> QED
      BY <3>2, <3>3, <3>4 DEF InFeed
  <2> QED
    BY <2>1, <2>2
<1>2. ASSUME NEW v \in ShownReviews
      PROVE  [review |-> v, shop |-> GetReview(None, v).at.shop, edit |-> FALSE] = Entry(v)
  <2>1. v \in ReviewRows /\ GetReviewDetail(v) /\ ActiveShops(review[v].burger) # {}
    BY <1>1 DEF InFeed
  <2>2. GetReview(None, v).at.shop = First(ActiveShops(review[v].burger))
    BY <2>1, NamesActiveShop
  <2> QED
    BY <2>2 DEF Entry
<1>3. ASSUME NEW V \in SUBSET ShownReviews PROVE Entries(V) = {Entry(v) : v \in V}
  BY <1>2 DEF Entries
<1>4. ASSUME NEW s \in ShopRows, shop[s].at = "active"
      PROVE  HandleGetShop(None, s).reviews = InFeed(s) /\ InFeed(s) \subseteq InFeed(None)
  <2>1. s \in Shops /\ s # None
    BY ShopReviewsAssumption DEF ShopRows
  <2>2. s \in Seen(None)
    BY <1>4 DEF Seen, CanView
  <2>3. HandleGetShop(None, s).reviews = ListShopReviews(s)
    BY <2>1, <2>2, DetailIs
  <2>4. \A b : s \in ActiveShops(b) <=> b \in sold[s]
    <3>1. ShopStatusCode(shop[s].at) = 1
      BY <1>4 DEF ShopStatusCode
    <3> QED
      BY <3>1 DEF ActiveShops
  <2>5. ListShopReviews(s) = InFeed(s)
    BY <2>1, <2>4 DEF ListShopReviews, InFeed
  <2>6. InFeed(s) \subseteq InFeed(None)
    BY DEF InFeed
  <2> QED
    BY <2>3, <2>5, <2>6
<1> QED
  BY <1>1, <1>3, <1>4

\* Lists, details, feed, ranking and moderators' list agree in a state of IInv.
LEMMA ViewsAgree == TypeOK /\ StatusExplained => ShownIsVisible
<1> SUFFICES ASSUME TypeOK, StatusExplained PROVE ShownIsVisible
  OBVIOUS
<1>1. ASSUME NEW viewer \in Viewers
      PROVE  LET vis  == ShopVisibilityFor(viewer)
                 seen == {s \in ShopRows : CanView(vis, shop[s])}
             IN  /\ {s \in Shops : HandleGetShop(viewer, s).code = 200} = seen
                 /\ \A sort \in {"name", "newest", "rating"}, average \in Averages, k \in PerPages :
                     ReadsAll([p \in Upto(Cardinality(seen)) |->
                                  List(viewer, sort, average, p, k)], seen)
                 /\ \A v \in ReviewRows : GetReview(viewer, v) # None =>
                     LET at == GetReview(viewer, v).at IN
                     /\ at.shop # None => at.shop \in seen
                     /\ at.can => HandleGetShop(viewer, at.shop).can
                 /\ \A b \in Burgers : burger[b] # None => GetBurger(viewer, b) \subseteq seen
                 /\ \A s \in seen : HandleGetShop(viewer, s).note =>
                     viewer # None /\ (CanModerate(viewer) \/ shop[s].creator = viewer)
  <2>1. Seen(viewer) \subseteq Shops
    BY DEF Seen, ShopRows
  <2>2. {s \in Shops : HandleGetShop(viewer, s).code = 200} = Seen(viewer)
    <3>1. ASSUME NEW s \in Shops PROVE HandleGetShop(viewer, s).code = 200 <=> s \in Seen(viewer)
      <4>1. CASE s \in Seen(viewer)
        <5>1. HandleGetShop(viewer, s).code = 200
          BY <4>1, DetailIs
        <5> QED
          BY <4>1, <5>1
      <4>2. CASE s \notin Seen(viewer)
        <5>1. HandleGetShop(viewer, s).code = 404
          BY <4>2, DetailIs
        <5> QED
          BY <4>2, <5>1
      <4> QED
        BY <4>1, <4>2
    <3> QED
      BY <2>1, <3>1
  <2>3. ASSUME NEW sort \in {"name", "newest", "rating"}, NEW average \in Averages,
               NEW k \in PerPages
        PROVE  ReadsAll([p \in Upto(Cardinality(Seen(viewer))) |->
                            List(viewer, sort, average, p, k)], Seen(viewer))
    BY ShopsRead DEF Seen
  <2>4. ASSUME NEW v \in ReviewRows, GetReview(viewer, v) # None
        PROVE  /\ GetReview(viewer, v).at.shop # None =>
                      GetReview(viewer, v).at.shop \in Seen(viewer)
               /\ GetReview(viewer, v).at.can =>
                      HandleGetShop(viewer, GetReview(viewer, v).at.shop).can
    <3>1. PICK at : at = GetReview(viewer, v).at
      OBVIOUS
    <3>2. at = ReviewShopFor(ListReviewShops(v), viewer)
      BY <2>4, <3>1, ReviewIs
    <3>3. ListReviewShops(v) \subseteq ShopRows
      BY DEF ListReviewShops
    <3>4. at.shop # None => at.shop \in Seen(viewer)
      BY <3>2, <3>3, ReviewShopIs
    <3>5. ASSUME at.can PROVE HandleGetShop(viewer, at.shop).can
      <4>1. at.shop \in Seen(viewer) /\ CanBeReviewedByViewer(shop[at.shop], viewer)
        BY <3>2, <3>3, <3>5, ReviewShopIs
      <4> QED
        BY <2>1, <4>1, DetailIs
    <3> QED
      BY <3>1, <3>4, <3>5
  <2>5. ASSUME NEW b \in Burgers, burger[b] # None PROVE GetBurger(viewer, b) \subseteq Seen(viewer)
    BY <2>5 DEF GetBurger, ListBurgerShops, Seen
  <2>6. ASSUME NEW s \in Seen(viewer), HandleGetShop(viewer, s).note
        PROVE  viewer # None /\ (CanModerate(viewer) \/ shop[s].creator = viewer)
    <3>1. shop[s].note
      BY <2>1, <2>6, DetailIs
    <3>2. s \in ShopRows /\ CanView(ShopVisibilityFor(viewer), shop[s])
      BY DEF Seen
    <3>3. shop[s].at # "active"
      BY <3>1, <3>2 DEF StatusExplained
    <3> QED
      BY <3>2, <3>3 DEF CanView, ShopVisibilityFor
  <2> QED
    BY <2>2, <2>3, <2>4, <2>5, <2>6 DEF Seen
<1>2. ASSUME NEW u \in Users, NEW k \in PerPages
      PROVE  IF CanModerate(u)
             THEN ReadsAll([p \in Upto(Cardinality(ShopRows)) |->
                               HandleAdminListShops(u, None, p, k)],
                           {newAdminShopResponse(s) : s \in ShopRows})
             ELSE HandleAdminListShops(u, None, 1, k) = None
  <2>1. CASE CanModerate(u)
    BY <2>1, ModeratorsRead
  <2>2. CASE ~CanModerate(u)
    <3>1. AdminList(u, None, 1, k) = None
      BY <2>2 DEF AdminList
    <3> QED
      BY <2>2, <3>1 DEF HandleAdminListShops
  <2> QED
    BY <2>1, <2>2
<1>3. ASSUME NEW k \in PerPages
      PROVE  /\ ReadsAll([p \in Upto(Cardinality(ShownReviews)) |-> Feed(None, None, p, k)],
                         Entries(ShownReviews))
             /\ \A s \in ShopRows : shop[s].at = "active" =>
                 LET V == HandleGetShop(None, s).reviews
                 IN  ReadsAll([p \in Upto(Cardinality(V)) |-> Feed(None, s, p, k)], Entries(V))
  <2>1. ReadsAll([p \in Upto(Cardinality(ShownReviews)) |-> Feed(None, None, p, k)],
                 Entries(ShownReviews))
    BY FeedIs, FeedRead
  <2>2. ASSUME NEW s \in ShopRows, shop[s].at = "active", NEW V, V = HandleGetShop(None, s).reviews
        PROVE  ReadsAll([p \in Upto(Cardinality(V)) |-> Feed(None, s, p, k)], Entries(V))
    <3>1. V = InFeed(s) /\ V \in SUBSET ShownReviews
      BY <2>2, FeedIs
    <3>2. Entries(V) = {Entry(v) : v \in InFeed(s)}
      BY <3>1, FeedIs
    <3> QED
      BY <3>1, <3>2, FeedRead
  <2> QED
    BY <2>1, <2>2
<1>4. ASSUME NEW x \in ListBurgerRankings(Burgers), NEW v \in ReviewRows,
             review[v].burger = x.burger, GetReview(None, v) # None
      PROVE  GetReview(None, v).at.shop = x.shop
  <2>1. PICK b \in Burgers : ActiveShops(b) # {} /\ x = [burger |-> b, shop |-> First(ActiveShops(b))]
    BY DEF ListBurgerRankings
  <2>2. GetReviewDetail(v)
    BY <1>4, ReviewIs
  <2> QED
    BY <1>4, <2>1, <2>2, NamesActiveShop
<1>5. (\A k \in PerPages :
          /\ ReadsAll([p \in Upto(Cardinality(ShownReviews)) |-> Feed(None, None, p, k)],
                      Entries(ShownReviews))
          /\ \A s \in ShopRows : shop[s].at = "active" =>
              LET V == HandleGetShop(None, s).reviews
              IN  ReadsAll([p \in Upto(Cardinality(V)) |-> Feed(None, s, p, k)], Entries(V)))
  BY <1>3
<1>6. \A x \in ListBurgerRankings(Burgers), v \in ReviewRows :
          review[v].burger = x.burger /\ GetReview(None, v) # None =>
              GetReview(None, v).at.shop = x.shop
  BY <1>4
<1>7. \A u \in Users, k \in PerPages : IF CanModerate(u)
          THEN ReadsAll([p \in Upto(Cardinality(ShopRows)) |-> HandleAdminListShops(u, None, p, k)],
                        {newAdminShopResponse(s) : s \in ShopRows})
          ELSE HandleAdminListShops(u, None, 1, k) = None
  BY <1>2
<1> QED
  BY <1>1, <1>5, <1>6, <1>7 DEF ShownIsVisible

\* Whatever rows there are, lists, details, feed, ranking and the moderators'
\* list show what the rule of visibility allows: all of it, once, on whatever pages.
THEOREM WhatIsShown == Spec => []ShownIsVisible
<1>1. IInv => ShownIsVisible
  BY ViewsAgree DEF IInv
<1> QED
  BY <1>1, Invariance, PTL
===============================================================================
