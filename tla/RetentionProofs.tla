--------------------------- MODULE RetentionProofs ---------------------------
(***************************************************************************)
(* Proofs about Retention, for any finite set of Backups, any policy and   *)
(* any number of failures.  The sort and the selection are recursive       *)
(* functions; what they compute is proved by smallest counterexamples.  Of *)
(* the sort the proofs use only SortSorts, which any sort gives: the same  *)
(* elements, in order if the comparison is an order.  So they do not rest  *)
(* on sort.Slice being an insertion sort, as it is up to 12 elements.      *)
(***************************************************************************)
EXTENDS Retention, FiniteSetTheorems, SequenceTheorems, WellFoundedInduction, TLAPS

(* A set of natural numbers that is not empty has a smallest one.          *)
LEMMA Smallest ==
    ASSUME NEW T, T \subseteq Nat, T # {}
    PROVE  \E n \in T : \A m \in T : n <= m
<1>1. IsWellFoundedOn({ss \in Nat \X Nat : ss[1] < ss[2]}, Nat)
  BY NatLessThanWellFounded, Zenon DEF OpToRel
<1>2. \E n \in T : \A m \in T : <<m, n>> \notin {ss \in Nat \X Nat : ss[1] < ss[2]}
  BY <1>1, WFMin, Zenon
<1>3. PICK n \in T : \A m \in T : <<m, n>> \notin {ss \in Nat \X Nat : ss[1] < ss[2]}
  BY <1>2
<1>4. ASSUME NEW m \in T PROVE n <= m
  <2>1. ~(m < n)
    BY <1>3
  <2> QED BY <2>1
<1> QED BY <1>4

(* Induction up to n, as a fact about the set of numbers that are right.   *)
LEMMA AllRight ==
    ASSUME NEW n \in Nat, NEW Right, 0 \in Right,
           \A m \in 0 .. n : m # n /\ m \in Right => m + 1 \in Right
    PROVE  0 .. n \subseteq Right
<1> SUFFICES ASSUME (0 .. n) \ Right # {} PROVE FALSE
  OBVIOUS
<1> DEFINE T == (0 .. n) \ Right
<1>1. PICK m \in T : \A l \in T : m <= l
  <2>1. T \subseteq Nat /\ T # {}
    OBVIOUS
  <2> HIDE DEF T
  <2> QED BY <2>1, Smallest
<1>2. m # 0 /\ m - 1 \in 0 .. n /\ m - 1 # n /\ m - 1 \in Right
  BY <1>1
<1> QED BY <1>1, <1>2

-----------------------------------------------------------------------------
(* The sort.                                                               *)

(* There is a place for every element: after the last one that it is not   *)
(* before.                                                                 *)
LEMMA PlaceExists ==
    ASSUME NEW x, NEW done, Len(done) \in Nat
    PROVE  \E p \in 0 .. Len(done) : Fits(x, done, p)
<1> DEFINE T == { p \in 0 .. Len(done) : \A i \in (p + 1) .. Len(done) : Before(x, done[i]) }
<1>1. Len(done) \in T
  OBVIOUS
<1>2. PICK p \in T : \A m \in T : p <= m
  <2>1. T \subseteq Nat /\ T # {}
    BY <1>1
  <2> HIDE DEF T
  <2> QED BY <2>1, Smallest
<1>3. ASSUME p # 0, Before(x, done[p]) PROVE FALSE
  <2>1. p - 1 \in 0 .. Len(done)
    BY <1>3
  <2>2. \A i \in ((p - 1) + 1) .. Len(done) : Before(x, done[i])
    <3> TAKE i \in ((p - 1) + 1) .. Len(done)
    <3>1. i = p \/ i \in (p + 1) .. Len(done)
      OBVIOUS
    <3> QED BY <3>1, <1>3
  <2>3. p - 1 \in T
    BY <2>1, <2>2
  <2>4. p <= p - 1
    <3> HIDE DEF T
    <3> QED BY <2>3, <1>2
  <2> QED BY <2>4, <2>1
<1> QED BY <1>2, <1>3 DEF Fits

(* r is q with x inserted after the first p elements.                      *)
Inserted(r, q, x, p, R) ==
    /\ Fits(x, q, p) /\ r \in Seq(R) /\ Len(r) = Len(q) + 1 /\ r[p + 1] = x
    /\ \A i \in 1 .. p : r[i] = q[i]
    /\ \A i \in (p + 2) .. (Len(q) + 1) : r[i] = q[i - 1]

LEMMA InsertShape ==
    ASSUME NEW R, NEW q \in Seq(R), NEW x \in R
    PROVE  \E p \in 0 .. Len(q) : Inserted(Insert(q, x), q, x, p, R)
<1> DEFINE p == CHOOSE p \in 0 .. Len(q) : Fits(x, q, p)
<1>1. p \in 0 .. Len(q) /\ Fits(x, q, p)
  <2>1. Len(q) \in Nat
    OBVIOUS
  <2> QED BY <2>1, PlaceExists
<1>2. Insert(q, x) = SubSeq(q, 1, p) \o <<x>> \o SubSeq(q, p + 1, Len(q))
  BY DEF Insert
<1> HIDE DEF p
<1> DEFINE a == SubSeq(q, 1, p)
           c == SubSeq(q, p + 1, Len(q))
<1>3. a \in Seq(R) /\ Len(a) = p /\ \A i \in 1 .. p : a[i] = q[i]
  BY <1>1
<1>4. c \in Seq(R) /\ Len(c) = Len(q) - p /\ \A i \in 1 .. (Len(q) - p) : c[i] = q[p + i]
  BY <1>1
<1> HIDE DEF a, c
<1> DEFINE d == a \o <<x>>
<1>5. d \in Seq(R) /\ Len(d) = p + 1 /\ d[p + 1] = x /\ \A i \in 1 .. p : d[i] = q[i]
  <2>1. <<x>> \in Seq(R) /\ Len(<<x>>) = 1
    OBVIOUS
  <2>2. d \in Seq(R)
    BY <2>1, <1>3, Zenon, ConcatProperties
  <2> QED BY <1>1, <1>3, <2>2
<1> HIDE DEF d
<1> DEFINE r == d \o c
<1>c. /\ r \in Seq(R) /\ Len(r) = Len(d) + Len(c)
      /\ \A i \in 1 .. Len(d) + Len(c) :
            r[i] = IF i <= Len(d) THEN d[i] ELSE c[i - Len(d)]
  BY <1>5, <1>4, ConcatProperties, Zenon
<1> HIDE DEF r
<1>6. /\ r \in Seq(R) /\ Len(r) = Len(q) + 1
      /\ \A i \in 1 .. (Len(q) + 1) : r[i] = IF i <= p + 1 THEN d[i] ELSE c[i - (p + 1)]
  <2>1. Len(d) + Len(c) = Len(q) + 1 /\ Len(d) = p + 1
    BY <1>1, <1>5, <1>4
  <2> QED BY <1>c, <2>1
<1>7. /\ r[p + 1] = x /\ \A i \in 1 .. p : r[i] = q[i]
      /\ \A i \in (p + 2) .. (Len(q) + 1) : r[i] = q[i - 1]
  <2>1. \A i \in 1 .. (p + 1) : r[i] = d[i]
    BY <1>1, <1>6
  <2>2. ASSUME NEW i \in (p + 2) .. (Len(q) + 1) PROVE r[i] = q[i - 1]
    <3>1. r[i] = c[i - (p + 1)]
      BY <1>1, <1>6
    <3>2. i - (p + 1) \in 1 .. (Len(q) - p) /\ p + (i - (p + 1)) = i - 1
      BY <1>1
    <3> QED BY <3>1, <3>2, <1>4
  <2> QED BY <2>1, <2>2, <1>1, <1>5
<1>8. Insert(q, x) = r
  BY <1>2 DEF a, c, d, r
<1>9. Inserted(r, q, x, p, R)
  BY <1>1, <1>6, <1>7 DEF Inserted
<1> QED BY <1>1, <1>8, <1>9

(* The recursive function exists: it can be defined up to any length.      *)
LEMMA SortSteps ==
    ASSUME NEW R, NEW s \in Seq(R)
    PROVE  /\ InsertionSort(s)[0] = <<>>
           /\ \A n \in 1 .. Len(s) :
                InsertionSort(s)[n] = Insert(InsertionSort(s)[n - 1], s[n])
<1> DEFINE Sorts(f, n) ==
             f = [m \in 0 .. n |-> IF m = 0 THEN <<>> ELSE Insert(f[m - 1], s[m])]
           Right == { n \in Nat : \E f : Sorts(f, n) }
<1>0. Len(s) \in Nat
  OBVIOUS
<1>1. 0 \in Right
  <2> DEFINE f == [m \in 0 .. 0 |-> <<>>]
  <2>1. Sorts(f, 0)
    OBVIOUS
  <2> QED BY <2>1
<1>2. ASSUME NEW n \in Right PROVE n + 1 \in Right
  <2>1. PICK f : Sorts(f, n)
    BY <1>2
  <2> DEFINE g == [m \in 0 .. (n + 1) |-> IF m <= n THEN f[m] ELSE Insert(f[n], s[n + 1])]
  <2>2. \A m \in 0 .. (n + 1) : g[m] = IF m = 0 THEN <<>> ELSE Insert(g[m - 1], s[m])
    <3> TAKE m \in 0 .. (n + 1)
    <3>1. CASE m = 0
      BY <3>1, <2>1
    <3>2. CASE m # 0 /\ m <= n
      <4>1. g[m] = f[m] /\ g[m - 1] = f[m - 1]
        BY <3>2
      <4>2. f[m] = Insert(f[m - 1], s[m])
        BY <2>1, <3>2
      <4> QED BY <4>1, <4>2, <3>2
    <3>3. CASE m = n + 1
      <4>1. g[m] = Insert(f[n], s[n + 1]) /\ g[m - 1] = f[n]
        BY <3>3
      <4> QED BY <4>1, <3>3
    <3> QED BY <3>1, <3>2, <3>3
  <2>3. Sorts(g, n + 1)
    BY <2>2
  <2> HIDE DEF g, Sorts
  <2> QED BY <2>3
<1>3. Len(s) \in Right
  <2>1. 0 .. Len(s) \subseteq Right
    <3> HIDE DEF Right
    <3> QED BY <1>0, <1>1, <1>2, AllRight
  <2> QED BY <2>1, <1>0
<1>4. \E f : Sorts(f, Len(s))
  BY <1>3
<1>5. InsertionSort(s) = CHOOSE f : Sorts(f, Len(s))
  BY DEF InsertionSort
<1>6. Sorts(InsertionSort(s), Len(s))
  <2> HIDE DEF Sorts
  <2> QED BY <1>4, <1>5
<1> QED BY <1>6, <1>0

(* The first n elements of s, sorted: the same elements under their names, *)
(* and in the order of creation if that is what the comparison looks at.   *)
ByCreation(R) == \A x, y \in R : Before(x, y) <=> x.created < y.created
SortOf(q, s, n, R) ==
    /\ q \in Seq(R) /\ Len(q) = n
    /\ \A i \in 1 .. n : \E j \in 1 .. n : q[i] = s[j]
    /\ \A i, j \in 1 .. n : i # j => q[i].name # q[j].name
    /\ ByCreation(R) => \A i, j \in 1 .. n : i < j => q[i].created <= q[j].created

LEMMA InsertSorts ==
    ASSUME NEW R, \A x \in R : x.created \in Nat, NEW s \in Seq(R),
           \A i, j \in 1 .. Len(s) : i # j => s[i].name # s[j].name,
           NEW n \in 0 .. Len(s), n # Len(s), NEW q, SortOf(q, s, n, R)
    PROVE  SortOf(Insert(q, s[n + 1]), s, n + 1, R)
<1> DEFINE x == s[n + 1]
           r == Insert(q, x)
<1>0. /\ q \in Seq(R) /\ Len(q) = n /\ n \in Nat /\ Len(s) \in Nat
      /\ n + 1 \in 1 .. Len(s) /\ x \in R
      /\ \A i \in 1 .. n : i \in 1 .. Len(s) /\ i # n + 1 /\ q[i] \in R
  BY DEF SortOf
<1>1. PICK p \in 0 .. n : /\ Fits(x, q, p) /\ r \in Seq(R) /\ Len(r) = n + 1 /\ r[p + 1] = x
                          /\ \A i \in 1 .. p : r[i] = q[i]
                          /\ \A i \in (p + 2) .. (n + 1) : r[i] = q[i - 1]
  <2>1. \E p \in 0 .. Len(q) : Inserted(r, q, x, p, R)
    <3> HIDE DEF x
    <3> QED BY <1>0, InsertShape
  <2> QED BY <2>1, <1>0 DEF Inserted
<1> HIDE DEF r, x
<1> DEFINE Old(i) == IF i <= p THEN i ELSE i - 1
<1>2. ASSUME NEW i \in 1 .. (n + 1), i # p + 1 PROVE Old(i) \in 1 .. n /\ r[i] = q[Old(i)]
  <2>1. CASE i <= p
    BY <2>1, <1>1, <1>0
  <2>2. CASE i > p
    <3>1. i \in (p + 2) .. (n + 1)
      BY <1>2, <2>2, <1>0
    <3> QED BY <3>1, <2>2, <1>1, <1>0
  <2> QED BY <2>1, <2>2, <1>0
<1>3. \A i \in 1 .. n : q[i].name # x.name
  <2> TAKE i \in 1 .. n
  <2>1. PICK j \in 1 .. n : q[i] = s[j]
    BY DEF SortOf
  <2> QED BY <2>1, <1>0 DEF x
<1>4. \A i \in 1 .. (n + 1) : \E j \in 1 .. (n + 1) : r[i] = s[j]
  <2> TAKE i \in 1 .. (n + 1)
  <2>1. CASE i = p + 1
    <3>1. r[i] = s[n + 1] /\ n + 1 \in 1 .. (n + 1)
      BY <2>1, <1>1, <1>0 DEF x
    <3> QED BY <3>1
  <2>2. CASE i # p + 1
    <3>1. PICK j \in 1 .. n : q[Old(i)] = s[j]
      BY <2>2, <1>2 DEF SortOf
    <3>2. j \in 1 .. (n + 1)
      BY <1>0
    <3> QED BY <3>1, <3>2, <2>2, <1>2
  <2> QED BY <2>1, <2>2
<1>5. \A i, j \in 1 .. (n + 1) : i # j => r[i].name # r[j].name
  <2> SUFFICES ASSUME NEW i \in 1 .. (n + 1), NEW j \in 1 .. (n + 1), i # j
               PROVE  r[i].name # r[j].name
    OBVIOUS
  <2>1. CASE i = p + 1
    BY <2>1, <1>1, <1>2, <1>3
  <2>2. CASE j = p + 1
    BY <2>2, <1>1, <1>2, <1>3
  <2>3. CASE i # p + 1 /\ j # p + 1
    <3>1. Old(i) # Old(j)
      BY <2>3, <1>0
    <3>2. q[Old(i)].name # q[Old(j)].name
      <4> HIDE DEF Old
      <4> QED BY <2>3, <3>1, <1>2 DEF SortOf
    <3> QED BY <2>3, <3>2, <1>2
  <2> QED BY <2>1, <2>2, <2>3
<1>6. ASSUME ByCreation(R)
      PROVE  \A i, j \in 1 .. (n + 1) : i < j => r[i].created <= r[j].created
  <2>0. ASSUME NEW k \in 1 .. n, NEW l \in 1 .. n, k <= l PROVE q[k].created <= q[l].created
    <3>1. CASE k = l
      BY <3>1, <1>0
    <3>2. CASE k < l
      BY <3>2, <1>6 DEF SortOf
    <3> QED BY <2>0, <3>1, <3>2
  <2>1. \A k \in 1 .. n : k <= p => q[k].created <= x.created
    <3> SUFFICES ASSUME NEW k \in 1 .. n, k <= p PROVE q[k].created <= x.created
      OBVIOUS
    <3>1. p \in 1 .. n /\ ~Before(x, q[p])
      BY <1>1, <1>0 DEF Fits
    <3>2. ~(x.created < q[p].created)
      BY <3>1, <1>0, <1>6 DEF ByCreation
    <3>3. q[k].created <= q[p].created
      BY <2>0, <3>1
    <3>4. q[p].created \in Nat /\ q[k].created \in Nat /\ x.created \in Nat
      BY <3>1, <1>0
    <3> QED BY <3>2, <3>3, <3>4
  <2>2. \A k \in 1 .. n : k > p => x.created <= q[k].created
    <3> SUFFICES ASSUME NEW k \in 1 .. n, k > p PROVE x.created <= q[k].created
      OBVIOUS
    <3>1. Before(x, q[k])
      BY <1>1, <1>0 DEF Fits
    <3>2. x.created < q[k].created
      BY <3>1, <1>0, <1>6 DEF ByCreation
    <3>3. q[k].created \in Nat /\ x.created \in Nat
      BY <1>0
    <3> QED BY <3>2, <3>3
  <2> SUFFICES ASSUME NEW i \in 1 .. (n + 1), NEW j \in 1 .. (n + 1), i < j
               PROVE  r[i].created <= r[j].created
    OBVIOUS
  <2>3. CASE i = p + 1
    <3>1. j # p + 1 /\ Old(j) > p
      BY <2>3, <1>0
    <3> QED BY <2>3, <3>1, <2>2, <1>1, <1>2
  <2>4. CASE j = p + 1
    <3>1. i # p + 1 /\ Old(i) <= p
      BY <2>4, <1>0
    <3> QED BY <2>4, <3>1, <2>1, <1>1, <1>2
  <2>5. CASE i # p + 1 /\ j # p + 1
    <3>1. Old(i) <= Old(j)
      BY <2>5, <1>0
    <3>2. Old(i) \in 1 .. n /\ r[i] = q[Old(i)] /\ Old(j) \in 1 .. n /\ r[j] = q[Old(j)]
      BY <2>5, <1>2
    <3> HIDE DEF Old
    <3> QED BY <3>1, <3>2, <2>0
  <2> QED BY <2>3, <2>4, <2>5
<1>7. SortOf(r, s, n + 1, R)
  BY <1>1, <1>4, <1>5, <1>6 DEF SortOf
<1> QED BY <1>7 DEF r, x

LEMMA SortSorts ==
    ASSUME NEW R, \A x \in R : x.created \in Nat, NEW s \in Seq(R),
           \A i, j \in 1 .. Len(s) : i # j => s[i].name # s[j].name
    PROVE  SortOf(SortBackups(s), s, Len(s), R)
<1> DEFINE Right == { n \in Nat : n <= Len(s) => SortOf(InsertionSort(s)[n], s, n, R) }
<1>0. Len(s) \in Nat
  OBVIOUS
<1>1. 0 \in Right
  <2>1. SortOf(<<>>, s, 0, R)
    BY DEF SortOf
  <2> QED BY <2>1, SortSteps
<1>2. ASSUME NEW n \in 0 .. Len(s), n # Len(s), n \in Right PROVE n + 1 \in Right
  <2>1. SortOf(InsertionSort(s)[n], s, n, R)
    BY <1>2, <1>0
  <2>2. SortOf(Insert(InsertionSort(s)[n], s[n + 1]), s, n + 1, R)
    BY <2>1, <1>2, InsertSorts
  <2>3. n + 1 \in 1 .. Len(s) /\ (n + 1) - 1 = n
    BY <1>2, <1>0
  <2>4. InsertionSort(s)[n + 1] = Insert(InsertionSort(s)[n], s[n + 1])
    BY <2>3, SortSteps
  <2> QED BY <2>2, <2>3, <2>4
<1>3. 0 .. Len(s) \subseteq Right
  <2> HIDE DEF Right
  <2> QED BY <1>0, <1>1, <1>2, AllRight
<1>4. Len(s) \in Right
  BY <1>3, <1>0
<1> QED BY <1>4, <1>0 DEF SortBackups

-----------------------------------------------------------------------------
(* The selection, a recursive function too.                                *)

LEMMA ChoiceSteps ==
    ASSUME NEW R, NEW q \in Seq(R)
    PROVE  /\ Chosen(q)[0] = <<>>
           /\ \A n \in 1 .. Len(q) : Chosen(q)[n] = Select(Chosen(q)[n - 1], q, n)
<1> DEFINE Chooses(f, n) ==
             f = [m \in 0 .. n |-> IF m = 0 THEN <<>> ELSE Select(f[m - 1], q, m)]
           Right == { n \in Nat : \E f : Chooses(f, n) }
<1>0. Len(q) \in Nat
  OBVIOUS
<1>1. 0 \in Right
  <2> DEFINE f == [m \in 0 .. 0 |-> <<>>]
  <2>1. Chooses(f, 0)
    OBVIOUS
  <2> QED BY <2>1
<1>2. ASSUME NEW n \in Right PROVE n + 1 \in Right
  <2>1. PICK f : Chooses(f, n)
    BY <1>2
  <2> DEFINE g == [m \in 0 .. (n + 1) |-> IF m <= n THEN f[m] ELSE Select(f[n], q, n + 1)]
  <2>2. \A m \in 0 .. (n + 1) : g[m] = IF m = 0 THEN <<>> ELSE Select(g[m - 1], q, m)
    <3> TAKE m \in 0 .. (n + 1)
    <3>1. CASE m = 0
      BY <3>1, <2>1
    <3>2. CASE m # 0 /\ m <= n
      <4>1. g[m] = f[m] /\ g[m - 1] = f[m - 1]
        BY <3>2
      <4>2. f[m] = Select(f[m - 1], q, m)
        BY <2>1, <3>2
      <4> QED BY <4>1, <4>2, <3>2
    <3>3. CASE m = n + 1
      <4>1. g[m] = Select(f[n], q, n + 1) /\ g[m - 1] = f[n]
        BY <3>3
      <4> QED BY <4>1, <3>3
    <3> QED BY <3>1, <3>2, <3>3
  <2>3. Chooses(g, n + 1)
    BY <2>2
  <2> HIDE DEF g, Chooses
  <2> QED BY <2>3
<1>3. Len(q) \in Right
  <2>1. 0 .. Len(q) \subseteq Right
    <3> HIDE DEF Right
    <3> QED BY <1>0, <1>1, <1>2, AllRight
  <2> QED BY <2>1, <1>0
<1>4. \E f : Chooses(f, Len(q))
  BY <1>3
<1>5. Chosen(q) = CHOOSE f : Chooses(f, Len(q))
  BY DEF Chosen
<1>6. Chooses(Chosen(q), Len(q))
  <2> HIDE DEF Chooses
  <2> QED BY <1>4, <1>5
<1> QED BY <1>6, <1>0

(* Each name of the list is that of an element to delete, and what comes   *)
(* before it in the list comes before it in q.                             *)
ChoiceOf(list, q, n) ==
    /\ list \in Seq(Backups)
    /\ \A k \in 1 .. Len(list) : \E i \in 1 .. n :
          /\ shouldDeleteBackup(q, i) /\ list[k] = q[i].name
          /\ \A l \in 1 .. k : \E h \in 1 .. i : list[l] = q[h].name

LEMMA ChoiceIsOf ==
    ASSUME NEW R, \A x \in R : x.name \in Backups, NEW q \in Seq(R)
    PROVE  ChoiceOf(Chosen(q)[Len(q)], q, Len(q))
<1> DEFINE Right == { n \in Nat : n <= Len(q) => ChoiceOf(Chosen(q)[n], q, n) }
<1>0. Len(q) \in Nat
  OBVIOUS
<1>1. 0 \in Right
  <2>1. ChoiceOf(<<>>, q, 0)
    BY DEF ChoiceOf
  <2> QED BY <2>1, ChoiceSteps
<1>2. ASSUME NEW n \in 0 .. Len(q), n # Len(q), n \in Right PROVE n + 1 \in Right
  <2> DEFINE old == Chosen(q)[n]
             new == Chosen(q)[n + 1]
             x == q[n + 1].name
  <2>1. ChoiceOf(old, q, n)
    BY <1>2, <1>0
  <2>2. n \in Nat /\ n + 1 \in 1 .. Len(q) /\ (n + 1) - 1 = n /\ x \in Backups
    BY <1>2, <1>0
  <2>3. new = IF shouldDeleteBackup(q, n + 1) THEN Append(old, x) ELSE old
    <3>1. new = Select(old, q, n + 1)
      BY <2>2, ChoiceSteps
    <3> QED BY <3>1 DEF Select
  <2> HIDE DEF old, new, x
  <2>4. \A k \in 1 .. Len(old) : \E i \in 1 .. (n + 1) :
          /\ shouldDeleteBackup(q, i) /\ old[k] = q[i].name
          /\ \A l \in 1 .. k : \E h \in 1 .. i : old[l] = q[h].name
    <3> TAKE k \in 1 .. Len(old)
    <3>1. PICK i \in 1 .. n : /\ shouldDeleteBackup(q, i) /\ old[k] = q[i].name
                              /\ \A l \in 1 .. k : \E h \in 1 .. i : old[l] = q[h].name
      BY <2>1 DEF ChoiceOf
    <3>2. i \in 1 .. (n + 1)
      BY <2>2
    <3> QED BY <3>1, <3>2
  <2>5. CASE ~shouldDeleteBackup(q, n + 1)
    <3>1. ChoiceOf(new, q, n + 1)
      BY <2>1, <2>3, <2>4, <2>5 DEF ChoiceOf
    <3> QED BY <3>1, <2>2 DEF new
  <2>6. CASE shouldDeleteBackup(q, n + 1)
    <3>1. /\ old \in Seq(Backups) /\ new \in Seq(Backups) /\ Len(new) = Len(old) + 1
          /\ new[Len(old) + 1] = x /\ \A k \in 1 .. Len(old) : new[k] = old[k]
      BY <2>1, <2>2, <2>3, <2>6 DEF ChoiceOf
    <3>2. \A l \in 1 .. (Len(old) + 1) : \E h \in 1 .. (n + 1) : new[l] = q[h].name
      <4> TAKE l \in 1 .. (Len(old) + 1)
      <4>1. CASE l = Len(old) + 1
        <5>1. new[l] = q[n + 1].name /\ n + 1 \in 1 .. (n + 1)
          BY <4>1, <3>1, <2>2 DEF x
        <5> QED BY <5>1
      <4>2. CASE l # Len(old) + 1
        <5>1. l \in 1 .. Len(old)
          BY <4>2, <3>1
        <5> QED BY <5>1, <3>1, <2>4
      <4> QED BY <4>1, <4>2
    <3>3. \A k \in 1 .. Len(new) : \E i \in 1 .. (n + 1) :
            /\ shouldDeleteBackup(q, i) /\ new[k] = q[i].name
            /\ \A l \in 1 .. k : \E h \in 1 .. i : new[l] = q[h].name
      <4> TAKE k \in 1 .. Len(new)
      <4>1. CASE k = Len(old) + 1
        <5>1. new[k] = q[n + 1].name /\ n + 1 \in 1 .. (n + 1)
          BY <4>1, <3>1, <2>2 DEF x
        <5> QED BY <5>1, <4>1, <2>6, <3>2
      <4>2. CASE k # Len(old) + 1
        <5>1. k \in 1 .. Len(old) /\ \A l \in 1 .. k : l \in 1 .. Len(old)
          BY <4>2, <3>1
        <5>2. PICK i \in 1 .. (n + 1) :
                 /\ shouldDeleteBackup(q, i) /\ old[k] = q[i].name
                 /\ \A l \in 1 .. k : \E h \in 1 .. i : old[l] = q[h].name
          BY <5>1, <2>4
        <5>3. new[k] = q[i].name /\ \A l \in 1 .. k : new[l] = old[l]
          BY <5>1, <5>2, <3>1
        <5> QED BY <5>2, <5>3
      <4> QED BY <4>1, <4>2
    <3>4. ChoiceOf(new, q, n + 1)
      BY <3>1, <3>3 DEF ChoiceOf
    <3> QED BY <3>4, <2>2 DEF new
  <2> QED BY <2>5, <2>6
<1>3. 0 .. Len(q) \subseteq Right
  <2> HIDE DEF Right
  <2> QED BY <1>0, <1>1, <1>2, AllRight
<1>4. Len(q) \in Right
  BY <1>3, <1>0
<1> QED BY <1>4, <1>0

-----------------------------------------------------------------------------
(* What a sweep lists and what it decides to delete.                       *)

LEMMA CopyFields ==
    ASSUME NEW b
    PROVE  /\ Copy(b).name = b /\ Copy(b).phase = phase[b] /\ Copy(b).created = created[b]
           /\ phase[b] = "completed" => Copy(b).startedAt = {started[b]}
           /\ phase[b] # "completed" => Copy(b).startedAt = {}
BY DEF Copy

(* The copies are listed under different names.                            *)
LEMMA ListOfCopies ==
    ASSUME TypeOK, NEW s \in SetToSeqs(relevant)
    PROVE  LET R == { Copy(b) : b \in relevant }
           IN  /\ Copies(s) \in Seq(R)
               /\ \A x \in R : x.created \in Nat /\ x.name \in Backups
               /\ \A i, j \in 1 .. Len(Copies(s)) :
                     i # j => Copies(s)[i].name # Copies(s)[j].name
<1> DEFINE R == { Copy(b) : b \in relevant }
           n == Cardinality(relevant)
<1>1. relevant \subseteq Backups /\ n \in Nat
  <2>1. relevant \subseteq Backups
    BY DEF relevant
  <2> QED BY <2>1, RetentionAssumption, FS_Subset, FS_CardinalityType
<1>2. s \in [1 .. n -> relevant] /\ \A i, j \in 1 .. n : i # j => s[i] # s[j]
  BY DEF SetToSeqs
<1>3. Copies(s) = [i \in 1 .. n |-> Copy(s[i])]
  BY <1>2 DEF Copies
<1> HIDE DEF n
<1>4. \A i \in 1 .. n : Copy(s[i]) \in R
  BY <1>2
<1>5. Copies(s) \in Seq(R) /\ Len(Copies(s)) = n
  <2> HIDE DEF R
  <2>1. Copies(s) \in [1 .. n -> R]
    BY <1>3, <1>4
  <2> QED BY <2>1, <1>1, SeqDef
<1>6. \A x \in R : x.created \in Nat /\ x.name \in Backups
  <2> TAKE x \in R
  <2>1. PICK b \in relevant : x = Copy(b)
    OBVIOUS
  <2>2. x.name = b /\ x.created = created[b] /\ b \in Backups
    BY <2>1, <1>1, CopyFields
  <2> QED BY <2>2 DEF TypeOK
<1>7. \A i, j \in 1 .. n : i # j => Copies(s)[i].name # Copies(s)[j].name
  <2> SUFFICES ASSUME NEW i \in 1 .. n, NEW j \in 1 .. n, i # j
               PROVE  Copies(s)[i].name # Copies(s)[j].name
    OBVIOUS
  <2>1. Copies(s)[i] = Copy(s[i]) /\ Copies(s)[j] = Copy(s[j])
    BY <1>3
  <2> QED BY <2>1, <1>2, CopyFields
<1> QED BY <1>5, <1>6, <1>7

(* Backups that were pushed at once are compared by their creation.        *)
LEMMA ComparedByCreation ==
    ASSUME TypeOK, CompletedAtOnce
    PROVE  ByCreation({ Copy(b) : b \in relevant })
<1> DEFINE R == { Copy(b) : b \in relevant }
<1> SUFFICES ASSUME NEW x \in R, NEW y \in R PROVE Before(x, y) <=> x.created < y.created
  BY DEF ByCreation
<1>1. PICK a \in relevant : x = Copy(a)
  OBVIOUS
<1>2. PICK b \in relevant : y = Copy(b)
  OBVIOUS
<1> HIDE DEF R
<1>3. a \in Backups /\ b \in Backups
  BY DEF relevant
<1>4. CASE phase[a] = "completed" /\ phase[b] = "completed"
  <2>1. x.startedAt = {created[a]} /\ y.startedAt = {created[b]}
    BY <1>1, <1>2, <1>3, <1>4, CopyFields DEF CompletedAtOnce
  <2>2. x.created = created[a] /\ y.created = created[b]
    BY <1>1, <1>2, CopyFields
  <2> QED BY <2>1, <2>2 DEF Before
<1>5. CASE ~(phase[a] = "completed" /\ phase[b] = "completed")
  <2>1. x.startedAt = {} \/ y.startedAt = {}
    BY <1>1, <1>2, <1>5, CopyFields
  <2> QED BY <2>1 DEF Before
<1> QED BY <1>4, <1>5

(* Different elements of a sequence have different names: then as many     *)
(* names as indices.                                                       *)
LEMMA ManyNames ==
    ASSUME NEW q, NEW J, IsFiniteSet(J), \A i, j \in J : i # j => q[i].name # q[j].name
    PROVE  Cardinality({ q[j].name : j \in J }) = Cardinality(J)
<1> DEFINE K == { q[j].name : j \in J }
           f == [j \in J |-> q[j].name]
<1>1. f \in Bijection(J, K)
  <2>1. f \in [J -> K] /\ \A k \in K : \E j \in J : f[j] = k
    OBVIOUS
  <2>2. \A i, j \in J : f[i] = f[j] => i = j
    OBVIOUS
  <2> QED BY <2>1, <2>2 DEF Bijection, Injection, Surjection, IsInjective
<1> HIDE DEF K, f
<1>2. ExistsBijection(J, K)
  BY <1>1 DEF ExistsBijection
<1>3. Cardinality(K) = Cardinality(J)
  BY <1>2, FS_Bijection
<1> QED BY <1>3 DEF K

(* What a sweep spares when it makes its list: Backups that nobody deletes. *)
SparesLive(list) ==
    \A k \in 1 .. Len(list) :
       /\ phase[list[k]] \in {"completed", "failed"}
       /\ phase[list[k]] = "completed" =>
             \E K \in SUBSET (Backups \ deleting) : Protects(K, list, k)

(* Whatever the order of the list, the sweep spares what it must.          *)
LEMMA ListSpares ==
    ASSUME TypeOK, NewAreYoung, NEW s \in SetToSeqs(relevant)
    PROVE  LET list == getBackupsToDelete(Copies(s))
           IN  list \in Seq(Backups) /\ SparesLive(list)
<1> DEFINE R == { Copy(b) : b \in relevant }
           t == Copies(s)
           q == SortBackups(t)
           list == Chosen(q)[Len(q)]
<1>1. /\ t \in Seq(R) /\ \A x \in R : x.created \in Nat /\ x.name \in Backups
      /\ \A i, j \in 1 .. Len(t) : i # j => t[i].name # t[j].name
  BY ListOfCopies
<1>2. CompletedAtOnce => ByCreation(R)
  BY ComparedByCreation
<1>3. \A x \in R : \E b \in relevant : x = Copy(b)
  OBVIOUS
<1>4. getBackupsToDelete(Copies(s)) = list
  BY DEF getBackupsToDelete
<1> HIDE DEF R, t
<1>5. SortOf(q, t, Len(t), R)
  BY <1>1, SortSorts
<1> HIDE DEF q
<1>6. /\ q \in Seq(R) /\ Len(q) \in Nat
      /\ \A i, j \in 1 .. Len(q) : i # j => q[i].name # q[j].name
      /\ CompletedAtOnce => \A i, j \in 1 .. Len(q) : i < j => q[i].created <= q[j].created
  BY <1>2, <1>5 DEF SortOf
<1>7. ChoiceOf(list, q, Len(q))
  BY <1>1, <1>6, ChoiceIsOf
<1> HIDE DEF list
<1>8. list \in Seq(Backups)
  BY <1>7 DEF ChoiceOf
<1>9. \A i \in 1 .. Len(q) :
         /\ q[i].name \in relevant /\ q[i].phase = phase[q[i].name]
         /\ q[i].created = created[q[i].name]
         /\ q[i].phase # "completed" => q[i].startedAt = {}
  <2> TAKE i \in 1 .. Len(q)
  <2>1. q[i] \in R
    BY <1>6
  <2>2. PICK b \in relevant : q[i] = Copy(b)
    BY <2>1, <1>3
  <2> QED BY <2>2, CopyFields
<1>10. ASSUME NEW k \in 1 .. Len(list)
       PROVE  /\ phase[list[k]] \in {"completed", "failed"}
              /\ phase[list[k]] = "completed" =>
                    \E K \in SUBSET (Backups \ deleting) : Protects(K, list, k)
  <2>1. PICK i \in 1 .. Len(q) :
          /\ shouldDeleteBackup(q, i) /\ list[k] = q[i].name
          /\ \A l \in 1 .. k : \E h \in 1 .. i : list[l] = q[h].name
    BY <1>7 DEF ChoiceOf
  <2> DEFINE b == list[k]
  <2>2. /\ b \in relevant /\ b \in Backups \ deleting /\ phase[b] # "none"
        /\ q[i].phase = phase[b] /\ q[i].created = created[b]
    BY <2>1, <1>9 DEF relevant
  <2>3. /\ phase[b] \notin {"pending", "running"} /\ BeforeThreshold(q[i])
        /\ ~(phase[b] = "completed" /\ remainingSuccessfulBackups(q, i) < MinBackupsToKeep)
    BY <2>1, <2>2 DEF shouldDeleteBackup
  <2> HIDE DEF b
  <2>4. phase[b] # "new"
    <3> SUFFICES ASSUME phase[b] = "new" PROVE FALSE
      OBVIOUS
    <3>1. created[b] = now /\ now \in Nat /\ DeleteBackupsAfter \in Nat
      BY <2>2, RetentionAssumption DEF NewAreYoung, TypeOK
    <3>2. q[i].startedAt = {}
      BY <2>1, <2>2, <1>9
    <3>3. BackupTime(q[i]) = now
      BY <3>1, <3>2, <2>2 DEF BackupTime
    <3> QED BY <2>3, <3>1, <3>3 DEF BeforeThreshold
  <2>5. phase[b] \in {"completed", "failed"}
    BY <2>2, <2>3, <2>4 DEF TypeOK, Phases
  <2>6. ASSUME phase[b] = "completed"
        PROVE  \E K \in SUBSET (Backups \ deleting) : Protects(K, list, k)
    <3> DEFINE J == { j \in (i + 1) .. Len(q) : q[j].phase = "completed" }
               K == { q[j].name : j \in J }
    <3>1. /\ i \in Nat /\ \A j \in J : j \in 1 .. Len(q) /\ i < j /\ q[j].phase = "completed"
      BY <1>6
    <3>2. IsFiniteSet(J)
      <4>1. IsFiniteSet((i + 1) .. Len(q))
        <5>1. i + 1 \in Int /\ Len(q) \in Int
          BY <3>1, <1>6
        <5> QED BY <5>1, FS_Interval
      <4> QED BY <4>1, FS_Subset
    <3>3. Cardinality(J) \in Nat /\ Cardinality(J) >= MinBackupsToKeep
      <4>1. Cardinality(J) \in Nat
        BY <3>2, FS_CardinalityType
      <4>2. ~(Cardinality(J) < MinBackupsToKeep)
        BY <2>3, <2>6 DEF remainingSuccessfulBackups
      <4> HIDE DEF J
      <4> QED BY <4>1, <4>2, RetentionAssumption
    <3> HIDE DEF J
    <3>4. Cardinality(K) >= MinBackupsToKeep
      <4>1. \A h, j \in J : h # j => q[h].name # q[j].name
        BY <3>1, <1>6
      <4>2. Cardinality(K) = Cardinality(J)
        BY <3>2, <4>1, ManyNames
      <4> QED BY <3>3, <4>2
    <3>5. \A c \in K : \E j \in 1 .. Len(q) : i < j /\ q[j].phase = "completed" /\ c = q[j].name
      BY <3>1
    <3> HIDE DEF K
    <3>6. K \subseteq remaining /\ K \subseteq Backups \ deleting
      <4> SUFFICES ASSUME NEW c \in K PROVE c \in remaining /\ c \in Backups \ deleting
        OBVIOUS
      <4>1. PICK j \in 1 .. Len(q) : q[j].phase = "completed" /\ c = q[j].name
        BY <3>5
      <4>2. c \in Backups \ deleting /\ phase[c] = "completed"
        BY <4>1, <1>9 DEF relevant
      <4> QED BY <4>2 DEF remaining, TypeOK
    <3>7. \A l \in 1 .. k : list[l] \notin K
      <4> SUFFICES ASSUME NEW l \in 1 .. k, list[l] \in K PROVE FALSE
        OBVIOUS
      <4>1. PICK h \in 1 .. i : list[l] = q[h].name
        BY <2>1
      <4>2. PICK j \in 1 .. Len(q) : i < j /\ list[l] = q[j].name
        BY <3>5
      <4>3. h \in 1 .. Len(q) /\ h # j
        BY <1>6, <4>2
      <4> QED BY <4>1, <4>2, <4>3, <1>6
    <3>8. ASSUME CompletedAtOnce, NEW c \in K PROVE started[c] >= started[b]
      <4>1. PICK j \in 1 .. Len(q) : i < j /\ q[j].phase = "completed" /\ c = q[j].name
        BY <3>5
      <4>2. q[i].created <= q[j].created
        BY <4>1, <3>8, <1>6
      <4>3. c \in Backups /\ phase[c] = "completed" /\ q[j].created = created[c]
        BY <4>1, <1>9 DEF relevant
      <4>4. started[c] = created[c] /\ started[b] = created[b]
        BY <4>3, <2>2, <2>6, <3>8 DEF CompletedAtOnce
      <4>5. created[b] \in Nat /\ created[c] \in Nat
        BY <4>3, <2>2 DEF TypeOK
      <4> QED BY <4>2, <4>3, <4>4, <4>5, <2>2
    <3>9. K \in SUBSET (Backups \ deleting)
      BY <3>6
    <3>10. Protects(K, list, k)
      BY <3>4, <3>6, <3>7, <3>8 DEF Protects, b
    <3> QED BY <3>9, <3>10
  <2> QED BY <2>5, <2>6 DEF b
<1>11. SparesLive(list)
  BY <1>10 DEF SparesLive
<1> QED BY <1>4, <1>8, <1>11

-----------------------------------------------------------------------------
(* The invariant.                                                          *)

LEMMA SweepInvInit == Init => SweepInv
<1> SUFFICES ASSUME Init PROVE SweepInv
  OBVIOUS
<1>1. TypeOK
  BY DEF Init, TypeOK, Phases
<1>2. NewAreYoung
  BY DEF Init, NewAreYoung
<1>3. SweepSpares(todo)
  BY DEF Init, SweepSpares
<1> QED BY <1>1, <1>2, <1>3 DEF SweepInv

(* What never changes: a finished Backup stays as it is, and what a sweep  *)
(* has not taken before, it takes only with DeleteNext.                    *)
Finished == { b \in Backups : phase[b] \in {"completed", "failed"} }
FinishedStays ==
    /\ \A b \in Finished : phase'[b] = phase[b] /\ started'[b] = started[b]
    /\ CompletedAtOnce' => CompletedAtOnce

LEMMA FinishedKept == ASSUME TypeOK, [Next]_vars PROVE FinishedStays
<1> SUFFICES ASSUME TRUE
             PROVE  \A b \in Finished : /\ phase'[b] = phase[b] /\ started'[b] = started[b]
                                        /\ created'[b] = created[b]
  BY DEF FinishedStays, CompletedAtOnce, Finished
<1>1. CASE UNCHANGED <<phase, created, started>>
  BY <1>1
<1>2. CASE \E b \in Backups : CreateBackup(b) \/ SetPending(b) \/ StartPush(b) \/ FinishPush(b)
  <2>1. PICK b \in Backups : CreateBackup(b) \/ SetPending(b) \/ StartPush(b) \/ FinishPush(b)
    BY <1>2
  <2>2. /\ b \notin Finished
        /\ \A c \in Backups \ {b} : /\ phase'[c] = phase[c] /\ started'[c] = started[c]
                                     /\ created'[c] = created[c]
    BY <2>1 DEF CreateBackup, SetPending, StartPush, FinishPush, Finished, TypeOK
  <2> QED BY <2>2 DEF Finished
<1> QED BY <1>1, <1>2 DEF Next, vars, backupVars, Tick, UserDelete, DeleteNext, EndSweep,
                          Crash, runRetentionForBackupConfig

LEMMA TypeNext == ASSUME TypeOK, NewAreYoung, [Next]_vars PROVE TypeOK'
<1>1. CASE Tick
  BY <1>1 DEF Tick, TypeOK, backupVars, deletions, sweepVars
<1>2. ASSUME NEW b \in Backups, CreateBackup(b) PROVE TypeOK'
  BY <1>2 DEF CreateBackup, TypeOK, Phases, deletions, sweepVars
<1>3. ASSUME NEW b \in Backups, SetPending(b) PROVE TypeOK'
  BY <1>3 DEF SetPending, TypeOK, Phases, deletions, sweepVars
<1>4. ASSUME NEW b \in Backups, StartPush(b) PROVE TypeOK'
  BY <1>4 DEF StartPush, TypeOK, Phases, deletions, sweepVars
<1>5. ASSUME NEW b \in Backups, FinishPush(b) PROVE TypeOK'
  BY <1>5 DEF FinishPush, TypeOK, Phases, deletions, sweepVars
<1>6. ASSUME NEW b \in Backups, UserDelete(b) PROVE TypeOK'
  BY <1>6 DEF UserDelete, TypeOK, backupVars, sweepVars
<1>7. CASE runRetentionForBackupConfig
  <2>1. PICK s \in SetToSeqs(relevant) : todo' = getBackupsToDelete(Copies(s))
    BY <1>7 DEF runRetentionForBackupConfig
  <2>2. todo' \in Seq(Backups)
    BY <2>1, ListSpares
  <2> QED BY <1>7, <2>2 DEF runRetentionForBackupConfig, TypeOK, backupVars, deletions
<1>8. CASE DeleteNext
  <2>1. todo' \in Seq(Backups) /\ Head(todo) \in Backups
    BY <1>8 DEF DeleteNext, TypeOK
  <2> QED BY <1>8, <2>1 DEF DeleteNext, TypeOK, backupVars, deletions
<1>9. CASE EndSweep
  BY <1>9 DEF EndSweep, TypeOK, backupVars, deletions
<1>10. CASE Crash
  BY <1>10 DEF Crash, TypeOK, backupVars, deletions
<1>11. CASE UNCHANGED vars
  BY <1>11 DEF vars, TypeOK, backupVars, deletions, sweepVars
<1> QED BY <1>1, <1>2, <1>3, <1>4, <1>5, <1>6, <1>7, <1>8, <1>9, <1>10, <1>11 DEF Next

LEMMA YoungNext == ASSUME TypeOK, NewAreYoung, [Next]_vars PROVE NewAreYoung'
<1>1. CASE Tick
  BY <1>1 DEF Tick, NewAreYoung, backupVars, deletions
<1>2. CASE now' = now /\ \E b \in Backups : CreateBackup(b) \/ SetPending(b) \/ StartPush(b) \/ FinishPush(b)
  BY <1>2 DEF CreateBackup, SetPending, StartPush, FinishPush, NewAreYoung, TypeOK, deletions
<1>3. CASE /\ UNCHANGED <<now, phase, created>> /\ deleting \subseteq deleting'
  BY <1>3 DEF NewAreYoung
<1> QED BY <1>1, <1>2, <1>3 DEF Next, vars, backupVars, deletions, CreateBackup, SetPending,
           StartPush, FinishPush, UserDelete, DeleteNext, EndSweep, Crash, runRetentionForBackupConfig

(* A list keeps its protection as long as the sweeps take nothing, and     *)
(* when one takes its first Backup.                                        *)
LEMMA SparedStays ==
    ASSUME TypeOK, FinishedStays, SweepSpares(todo), todo' = todo, known' = known
    PROVE  SweepSpares(todo)'
<1> SUFFICES ASSUME NEW k \in 1 .. Len(todo)
             PROVE  /\ phase'[todo[k]] \in {"completed", "failed"}
                    /\ phase'[todo[k]] = "completed" =>
                          \E K \in SUBSET Backups : Protects(K, todo, k)'
  BY DEF SweepSpares
<1>1. todo[k] \in Finished /\ phase'[todo[k]] = phase[todo[k]]
      /\ started'[todo[k]] = started[todo[k]]
  BY DEF TypeOK, SweepSpares, FinishedStays, Finished
<1>2. ASSUME phase[todo[k]] = "completed"
      PROVE  \E K \in SUBSET Backups : Protects(K, todo, k)'
  <2>1. PICK K \in SUBSET Backups : Protects(K, todo, k)
    BY <1>2 DEF SweepSpares
  <2>2. K \subseteq Finished /\ K \subseteq remaining'
    BY <2>1 DEF Protects, remaining, Finished, FinishedStays
  <2>3. Protects(K, todo, k)'
    BY <2>1, <2>2, <1>1 DEF Protects, FinishedStays
  <2> QED BY <2>3
<1> QED BY <1>1, <1>2 DEF Finished

(* What the head of the list leaves when it is deleted.                    *)
LEMMA HeadTaken ==
    ASSUME TypeOK, FinishedStays, DeleteNext
    PROVE  \A K \in SUBSET Backups, k \in 1 .. Len(todo) :
              Protects(K, todo, k) => K \subseteq remaining'
<1> SUFFICES ASSUME NEW K \in SUBSET Backups, NEW k \in 1 .. Len(todo), Protects(K, todo, k)
             PROVE  K \subseteq remaining'
  OBVIOUS
<1>1. known' \subseteq known \cup {todo[1]}
  BY DEF DeleteNext, TypeOK, deletions
<1>2. todo[1] \notin K /\ K \subseteq remaining
  <2>1. Len(todo) \in Nat /\ 1 \in 1 .. k
    BY DEF TypeOK
  <2> QED BY <2>1 DEF Protects
<1>3. K \subseteq Finished
  BY <1>2 DEF remaining, Finished
<1> QED BY <1>1, <1>2, <1>3 DEF remaining, FinishedStays, Finished

LEMMA SparedAfterDelete ==
    ASSUME TypeOK, FinishedStays, SweepSpares(todo), DeleteNext
    PROVE  SweepSpares(todo)'
<1>1. /\ todo \in Seq(Backups) /\ todo' \in Seq(Backups) /\ Len(todo') = Len(todo) - 1
      /\ \A k \in 1 .. Len(todo') : k + 1 \in 1 .. Len(todo) /\ todo'[k] = todo[k + 1]
  BY DEF TypeOK, DeleteNext
<1> SUFFICES ASSUME NEW k \in 1 .. Len(todo')
             PROVE  /\ phase'[todo'[k]] \in {"completed", "failed"}
                    /\ phase'[todo'[k]] = "completed" =>
                          \E K \in SUBSET Backups : Protects(K, todo, k)'
  BY DEF SweepSpares
<1> DEFINE b == todo'[k]
<1>2. k \in Nat /\ k + 1 \in 1 .. Len(todo) /\ b = todo[k + 1]
  BY <1>1
<1>3. b \in Finished /\ phase'[b] = phase[b] /\ started'[b] = started[b]
  BY <1>1, <1>2 DEF SweepSpares, FinishedStays, Finished
<1>4. ASSUME phase[b] = "completed"
      PROVE  \E K \in SUBSET Backups : Protects(K, todo, k)'
  <2>1. PICK K \in SUBSET Backups : Protects(K, todo, k + 1)
    BY <1>2, <1>4 DEF SweepSpares
  <2>2. K \subseteq remaining'
    BY <1>2, <2>1, HeadTaken
  <2>3. K \subseteq Finished
    BY <2>1 DEF Protects, remaining, Finished
  <2>4. \A l \in 1 .. k : todo'[l] \notin K
    <3> TAKE l \in 1 .. k
    <3>1. l + 1 \in 1 .. (k + 1) /\ l \in 1 .. Len(todo')
      BY <1>1, <1>2
    <3>2. todo'[l] = todo[l + 1]
      BY <1>1, <3>1
    <3> QED BY <2>1, <3>1, <3>2 DEF Protects
  <2>5. CompletedAtOnce' => \A c \in K : started'[c] >= started'[b]
    BY <1>2, <1>3, <2>1, <2>3 DEF Protects, FinishedStays
  <2>6. Protects(K, todo, k)'
    BY <2>1, <2>2, <2>4, <2>5 DEF Protects
  <2> QED BY <2>6
<1> QED BY <1>3, <1>4 DEF Finished

LEMMA SweepInvNext == ASSUME SweepInv, [Next]_vars PROVE SweepInv'
<1>1. TypeOK /\ NewAreYoung /\ SweepSpares(todo)
  BY DEF SweepInv
<1>2. TypeOK' /\ NewAreYoung' /\ FinishedStays
  BY <1>1, TypeNext, YoungNext, FinishedKept
<1>3. CASE todo' = todo /\ known' = known
  BY <1>1, <1>2, <1>3, SparedStays DEF SweepInv
<1>4. CASE DeleteNext
  BY <1>1, <1>2, <1>4, SparedAfterDelete DEF SweepInv
<1>5. CASE runRetentionForBackupConfig
  <2>1. PICK s \in SetToSeqs(relevant) : todo' = getBackupsToDelete(Copies(s))
    BY <1>5 DEF runRetentionForBackupConfig
  <2>2. SparesLive(todo')
    BY <2>1, <1>1, ListSpares
  <2>3. UNCHANGED <<phase, started, created>> /\ known' = deleting
    BY <1>5 DEF runRetentionForBackupConfig, backupVars
  <2>4. \A K \in SUBSET (Backups \ deleting) : \A k : Protects(K, todo', k) => Protects(K, todo, k)'
    BY <2>3 DEF Protects, remaining, CompletedAtOnce
  <2>5. SweepSpares(todo)'
    BY <2>2, <2>3, <2>4 DEF SweepSpares, SparesLive
  <2> QED BY <2>5, <1>2 DEF SweepInv
<1>6. CASE todo' = <<>>
  <2>1. SweepSpares(todo)'
    BY <1>6 DEF SweepSpares
  <2> QED BY <2>1, <1>2 DEF SweepInv
<1> QED BY <1>3, <1>4, <1>5, <1>6 DEF Next, vars, deletions, sweepVars, Tick, CreateBackup,
           SetPending, StartPush, FinishPush, UserDelete, EndSweep, Crash

(* A sweep deletes only finished Backups, and as long as a completed one   *)
(* is still in its list, minBackupsToKeep others are not ahead of it there *)
(* and have not been taken: nothing that happens between the list call and *)
(* the last deletion undoes what shouldDeleteBackup counted.               *)
THEOREM SweepSparesEnough == Spec => []SweepInv
<1>1. SweepInv /\ [Next]_vars => SweepInv'
  BY SweepInvNext
<1> QED BY SweepInvInit, <1>1, PTL DEF Spec

-----------------------------------------------------------------------------
(* A completed Backup is taken by a sweep only from the head of its list,  *)
(* and what protects it stays.                                             *)
LEMMA TakenFromHead ==
    ASSUME SweepInv, [Next]_vars, NEW b \in taken
    PROVE  \E K \in SUBSET Backups :
              /\ K \subseteq remaining' /\ Cardinality(K) >= MinBackupsToKeep
              /\ CompletedAtOnce => \A c \in K : started[c] >= started[b]
<1>1. TypeOK /\ SweepSpares(todo) /\ FinishedStays
  BY FinishedKept DEF SweepInv
<1>2. b \in Backups /\ phase[b] = "completed" /\ b \in known' /\ b \notin known
  BY <1>1 DEF taken, remaining, FinishedStays, Finished
<1>3. DeleteNext
  BY <1>2 DEF taken, Next, vars, deletions, Tick, CreateBackup, SetPending, StartPush, FinishPush,
              UserDelete, EndSweep, Crash, runRetentionForBackupConfig
<1>4. b = todo[1] /\ 1 \in 1 .. Len(todo)
  BY <1>1, <1>2, <1>3 DEF DeleteNext, TypeOK, deletions
<1>5. PICK K \in SUBSET Backups : Protects(K, todo, 1)
  BY <1>1, <1>2, <1>4 DEF SweepSpares
<1>6. K \subseteq remaining'
  BY <1>1, <1>3, <1>4, <1>5, HeadTaken
<1> QED BY <1>4, <1>5, <1>6 DEF Protects

(* minBackupsToKeep, for any number of Backups: whatever the order of the  *)
(* list, and whatever is created, completed or deleted by others while it  *)
(* goes on, a sweep never takes a completed Backup without leaving enough. *)
THEOREM EnoughBackupsStay == Spec => EnoughKept
<1>1. ASSUME SweepInv, [Next]_vars
      PROVE  taken # {} => Cardinality(remaining') >= MinBackupsToKeep
  <2> SUFFICES ASSUME taken # {} PROVE Cardinality(remaining') >= MinBackupsToKeep
    OBVIOUS
  <2>1. PICK b : b \in taken
    OBVIOUS
  <2>2. PICK K \in SUBSET Backups : K \subseteq remaining' /\ Cardinality(K) >= MinBackupsToKeep
    BY <1>1, <2>1, TakenFromHead
  <2>3. IsFiniteSet(remaining')
    <3>1. remaining' \subseteq Backups
      BY DEF remaining
    <3> QED BY <3>1, RetentionAssumption, FS_Subset
  <2>4. /\ Cardinality(K) \in Nat /\ Cardinality(remaining') \in Nat
        /\ Cardinality(K) <= Cardinality(remaining')
    BY <2>2, <2>3, FS_Subset, FS_CardinalityType
  <2> QED BY <2>2, <2>4, RetentionAssumption
<1> QED BY <1>1, SweepSparesEnough, PTL DEF Spec, EnoughKept

(* Those that stay are no older than the one taken, as long as every       *)
(* Backup was pushed when it was created: then the comparison given to     *)
(* sort.Slice is an order and the healthy Backups after one are the newer. *)
THEOREM NewestBackupsStay == Spec => NewestKept
<1>1. ASSUME SweepInv, [Next]_vars
      PROVE  NoneWaited =>
               \A b \in taken :
                 Cardinality({ c \in remaining' : started[c] >= started[b] }) >= MinBackupsToKeep
  <2> SUFFICES ASSUME NoneWaited, NEW b \in taken
               PROVE  Cardinality({ c \in remaining' : started[c] >= started[b] }) >= MinBackupsToKeep
    OBVIOUS
  <2> DEFINE N == { c \in remaining' : started[c] >= started[b] }
  <2>1. CompletedAtOnce
    BY DEF NoneWaited, CompletedAtOnce
  <2>2. PICK K \in SUBSET Backups :
              /\ K \subseteq remaining' /\ Cardinality(K) >= MinBackupsToKeep
              /\ \A c \in K : started[c] >= started[b]
    BY <1>1, <2>1, TakenFromHead
  <2>3. K \subseteq N
    BY <2>2
  <2>4. IsFiniteSet(N)
    <3>1. N \subseteq Backups
      BY DEF remaining
    <3> QED BY <3>1, RetentionAssumption, FS_Subset
  <2> HIDE DEF N
  <2>5. Cardinality(K) \in Nat /\ Cardinality(N) \in Nat /\ Cardinality(K) <= Cardinality(N)
    BY <2>3, <2>4, FS_Subset, FS_CardinalityType
  <2>6. Cardinality(N) >= MinBackupsToKeep
    BY <2>2, <2>5, RetentionAssumption
  <2> QED BY <2>6 DEF N
<1> QED BY <1>1, SweepSparesEnough, PTL DEF Spec, NewestKept
==============================================================================
