--------------------------- MODULE HookText_proofs ---------------------------
(***************************************************************************)
(* Proofs about the edits of HookText, on well-formed texts: what they     *)
(* make, that doing them again changes nothing, and that the user's own    *)
(* text comes through.                                                     *)
(***************************************************************************)
EXTENDS HookText, SequenceTheorems, FiniteSetTheorems, TLAPS

\* A marker that is in a text is in it for a first time: a set of places without a
\* least one would map the places at or after one of them injectively, and not onto.
LEMMA LeastExists ==
  ASSUME NEW n \in Nat, NEW W \in SUBSET (1..n), W # {}
  PROVE  \E i \in W : \A j \in W : i <= j
<1> SUFFICES ASSUME \A i \in W : \E j \in W : j < i PROVE FALSE
  OBVIOUS
<1> DEFINE A == {i \in 1..n : \E j \in W : j <= i}
           f == [i \in A |-> i - 1]
<1>1. \A i \in A : i - 1 \in A
  <2> SUFFICES ASSUME NEW i \in 1..n, NEW j \in W, j <= i
               PROVE  i - 1 \in A
    OBVIOUS
  <2> PICK k \in W : k < j
    OBVIOUS
  <2> k \in 1..n /\ j \in 1..n
    OBVIOUS
  <2> QED OBVIOUS
<1>2. f \in Injection(A, A)
  <2>1. f \in [A -> A]
    BY <1>1
  <2>2. \A i, j \in A : f[i] = f[j] => i = j
    OBVIOUS
  <2> QED BY <2>1, <2>2 DEF Injection, IsInjective
<1>3. IsFiniteSet(A)
  <2>1. A \in SUBSET (1..n)
    OBVIOUS
  <2>2. IsFiniteSet(1..n)
    BY FS_Interval
  <2> QED BY <2>1, <2>2, FS_Subset
<1>4. n \in A
  <2> PICK j \in W : TRUE
    OBVIOUS
  <2> j \in 1..n
    OBVIOUS
  <2> QED OBVIOUS
<1>5. ~(f \in Surjection(A, A))
  <2>1. \A i \in A : f[i] # n
    OBVIOUS
  <2> QED BY <1>4, <2>1 DEF Surjection
<1> HIDE DEF A, f
<1>6. Cardinality(A) = Cardinality(A) <=> f \in Surjection(A, A)
  BY <1>2, <1>3, FS_Injection, Zenon
<1> QED BY <1>5, <1>6

LEMMA FirstOf ==
  ASSUME NEW t \in Texts, NEW m, Where(t, m) # {}
  PROVE  /\ First(t, m) \in 1..Len(t) /\ t[First(t, m)] = m
         /\ \A j \in Where(t, m) : First(t, m) <= j
<1>1. Len(t) \in Nat /\ Where(t, m) \in SUBSET (1..Len(t))
  BY DEF Where, Texts
<1>2. \E i \in Where(t, m) : \A j \in Where(t, m) : i <= j
  BY <1>1, LeastExists
<1>3. First(t, m) \in Where(t, m) /\ \A j \in Where(t, m) : First(t, m) <= j
  BY <1>2 DEF First
<1> QED BY <1>3 DEF Where

\* Whatever is in a file, an edit makes a text of it.
LEMMA EditsAreTexts ==
  ASSUME NEW t \in Texts
  PROVE  Inject(t) \in Texts /\ Strip(t) \in Texts
<1>1. HookBlock \in Texts
  BY DEF HookBlock, Texts, Ours, Markers
<1>2. ASSUME HasBlock(t) PROVE Before(t) \in Texts /\ After(t) \in Texts
  <2>1. First(t, "start") \in 1..Len(t) /\ First(t, "end") \in 1..Len(t)
    BY <1>2, FirstOf DEF HasBlock
  <2> QED BY <2>1 DEF Before, After, Texts
<1> QED BY <1>1, <1>2 DEF Inject, Strip, Texts

\* What the user wrote contains no marker.
LEMMA UserPart ==
  ASSUME NEW t \in Texts, \A k \in 1..Len(t) : t[k] \in UserPieces
  PROVE  Where(t, "start") = {} /\ Where(t, "end") = {} /\ ~HasBlock(t)
  BY UserPiecesAssumption DEF Where, HasBlock, Ours, Markers

LEMMA Behind ==
  ASSUME NEW n \in Nat, NEW m \in Nat
  PROVE  \A k \in n+4..n + 3 + m : k \in 1..n + 3 + m /\ ~(k <= n + 3) /\ k - (n + 3) = k - n - 3
OBVIOUS

\* One block between two texts of the user.
LEMMA BlockBetween ==
  ASSUME NEW a \in Seq(UserPieces), NEW c \in Seq(UserPieces)
  PROVE  LET t == a \o HookBlock \o c
         IN  /\ t \in Texts /\ WellFormed(t) /\ Installed(t)
             /\ HasBlock(t) /\ Before(t) = a /\ After(t) = c
             /\ Cardinality(Where(t, "start")) = 1
<1> DEFINE t == a \o HookBlock \o c
           n == Len(a)
           All == UserPieces \cup Ours
<1>1. /\ t \in Seq(All) /\ Len(t) = n + 3 + Len(c)
      /\ \A k \in 1..n : t[k] = a[k]
      /\ t[n+1] = "start" /\ t[n+2] = "body" /\ t[n+3] = "end"
      /\ \A k \in n+4..Len(t) : t[k] = c[k - n - 3]
  <2>1. HookBlock \in Seq(All) /\ a \in Seq(All) /\ c \in Seq(All)
    BY DEF HookBlock, Ours, Markers
  <2>2. /\ a \o HookBlock \in Seq(All) /\ Len(a \o HookBlock) = n + 3
        /\ \A k \in 1..n : (a \o HookBlock)[k] = a[k]
        /\ (a \o HookBlock)[n+1] = "start" /\ (a \o HookBlock)[n+2] = "body"
        /\ (a \o HookBlock)[n+3] = "end"
    BY <2>1 DEF HookBlock
  <2>3. /\ t \in Seq(All) /\ Len(t) = n + 3 + Len(c)
        /\ \A k \in 1..n + 3 + Len(c) :
             t[k] = IF k <= n + 3 THEN (a \o HookBlock)[k] ELSE c[k - (n + 3)]
    <3> DEFINE b == a \o HookBlock
    <3>1. b \in Seq(All) /\ c \in Seq(All) /\ Len(b) = n + 3
      BY <2>1, <2>2
    <3> HIDE DEF b, All
    <3>2. /\ b \o c \in Seq(All) /\ Len(b \o c) = Len(b) + Len(c)
          /\ \A k \in 1..Len(b) + Len(c) :
               (b \o c)[k] = IF k <= Len(b) THEN b[k] ELSE c[k - Len(b)]
      BY <3>1, ConcatProperties
    <3> QED BY <3>1, <3>2 DEF b
  <2>4. \A k \in n+4..n + 3 + Len(c) :
          k \in 1..n + 3 + Len(c) /\ ~(k <= n + 3) /\ k - (n + 3) = k - n - 3
    BY Behind
  <2>5. \A k \in 1..n+3 : k \in 1..n + 3 + Len(c) /\ k <= n + 3
    OBVIOUS
  <2>6. \A k \in 1..n+3 : t[k] = (a \o HookBlock)[k]
    BY <2>3, <2>5
  <2>7. \A k \in n+4..Len(t) : t[k] = c[k - n - 3]
    BY <2>3, <2>4
  <2>8. n+1 \in 1..n+3 /\ n+2 \in 1..n+3 /\ n+3 \in 1..n+3 /\ \A k \in 1..n : k \in 1..n+3
    OBVIOUS
  <2> QED BY <2>2, <2>3, <2>6, <2>7, <2>8
<1>2. \A k \in 1..Len(t) : t[k] \in UserPieces <=> (k < n + 1 \/ k > n + 3)
  <2>1. \A k \in 1..n : t[k] \in UserPieces
    BY <1>1
  <2>2. \A k \in n+4..Len(t) : t[k] \in UserPieces
    <3>1. \A k \in n+4..Len(t) : k - n - 3 \in 1..Len(c)
      BY <1>1
    <3> QED BY <1>1, <3>1
  <2>3. t[n+1] \notin UserPieces /\ t[n+2] \notin UserPieces /\ t[n+3] \notin UserPieces
    BY <1>1, UserPiecesAssumption DEF Ours, Markers
  <2>4. \A k \in 1..Len(t) : k \in 1..n \/ k \in {n+1, n+2, n+3} \/ k \in n+4..Len(t)
    BY <1>1
  <2>5. \A k \in 1..Len(t) : (k < n + 1 \/ k > n + 3) <=> (k \in 1..n \/ k \in n+4..Len(t))
    BY <1>1
  <2>6. \A k \in {n+1, n+2, n+3} : k \notin 1..n /\ k \notin n+4..Len(t)
    BY <1>1
  <2> QED BY <2>1, <2>2, <2>3, <2>4, <2>5, <2>6
<1>3. Where(t, "start") = {n+1} /\ Where(t, "end") = {n+3}
  <2>1. \A k \in 1..Len(t) : k \in {n+1, n+2, n+3} \/ t[k] \in UserPieces
    BY <1>2
  <2>2. "start" \notin UserPieces /\ "end" \notin UserPieces
    BY UserPiecesAssumption DEF Ours, Markers
  <2>3. n+1 \in 1..Len(t) /\ n+3 \in 1..Len(t)
    BY <1>1
  <2>4. Where(t, "start") = {n+1}
    BY <1>1, <2>1, <2>2, <2>3 DEF Where
  <2>5. Where(t, "end") = {n+3}
    BY <1>1, <2>1, <2>2, <2>3 DEF Where
  <2> QED BY <2>4, <2>5
<1>4. n+1 \in 1..Len(t) /\ n+3 \in 1..Len(t) /\ n+1 < n+3 /\ n+1 <= n+3
  BY <1>1
<1>5. WellFormed(t)
  BY <1>2, <1>3, <1>4 DEF WellFormed
<1>6. First(t, "start") = n+1 /\ First(t, "end") = n+3
  BY <1>3, <1>4 DEF First
<1>7. HasBlock(t)
  BY <1>3, <1>4, <1>6 DEF HasBlock
<1>8. Before(t) = a
  <2>1. SubSeq(t, 1, n) = a
    BY <1>1
  <2>2. (n + 1) - 1 = n
    OBVIOUS
  <2> QED BY <1>6, <2>1, <2>2 DEF Before
<1>9. After(t) = c
  <2>1. SubSeq(t, n + 4, Len(t)) = c
    BY <1>1
  <2>2. (n + 3) + 1 = n + 4
    OBVIOUS
  <2> QED BY <1>6, <2>1, <2>2 DEF After
<1>10. Cardinality(Where(t, "start")) = 1
  BY <1>3, FS_Singleton
<1> QED BY <1>1, <1>3, <1>5, <1>7, <1>8, <1>9, <1>10 DEF Texts, Installed

\* A well-formed text is the user's, or has one block that splits it in two.
LEMMA Split ==
  ASSUME NEW t \in Texts, WellFormed(t)
  PROVE  \/ t \in Seq(UserPieces) /\ ~HasBlock(t)
         \/ HasBlock(t) /\ Before(t) \in Seq(UserPieces) /\ After(t) \in Seq(UserPieces)
<1>1. CASE \A k \in 1..Len(t) : t[k] \in UserPieces
  <2>1. t \in Seq(UserPieces)
    BY <1>1 DEF Texts
  <2> QED BY <1>1, <2>1, UserPart
<1>2. CASE \E i \in 1..Len(t), j \in 1..Len(t) :
             /\ i < j
             /\ Where(t, "start") = {i} /\ Where(t, "end") = {j}
             /\ \A k \in 1..Len(t) : t[k] \in UserPieces <=> (k < i \/ k > j)
  <2> PICK i \in 1..Len(t), j \in 1..Len(t) :
             /\ i < j
             /\ Where(t, "start") = {i} /\ Where(t, "end") = {j}
             /\ \A k \in 1..Len(t) : t[k] \in UserPieces <=> (k < i \/ k > j)
    BY <1>2
  <2>1. First(t, "start") = i /\ First(t, "end") = j
    BY DEF First
  <2>2. HasBlock(t)
    <3>1. Where(t, "start") # {} /\ Where(t, "end") # {}
      OBVIOUS
    <3>2. i <= j
      BY DEF Texts
    <3> QED BY <2>1, <3>1, <3>2 DEF HasBlock
  <2>3. Before(t) \in Seq(UserPieces)
    BY <2>1 DEF Before, Texts
  <2>4. After(t) \in Seq(UserPieces)
    BY <2>1 DEF After, Texts
  <2> QED BY <2>2, <2>3, <2>4
<1> QED BY <1>1, <1>2 DEF WellFormed

LEMMA InjectInstalls ==
  ASSUME NEW t \in Texts, WellFormed(t)
  PROVE  Inject(t) \in Texts /\ WellFormed(Inject(t)) /\ Installed(Inject(t))
<1>1. CASE t \in Seq(UserPieces) /\ ~HasBlock(t)
  <2>1. t \o HookBlock \in Seq(UserPieces \cup Ours)
    BY <1>1 DEF HookBlock, Ours, Markers
  <2>2. Inject(t) = t \o HookBlock \o << >>
    BY <1>1, <2>1, ConcatEmptySeq DEF Inject
  <2> QED BY <1>1, <2>2, BlockBetween, EmptySeq
<1>2. CASE HasBlock(t) /\ Before(t) \in Seq(UserPieces) /\ After(t) \in Seq(UserPieces)
  BY <1>2, BlockBetween DEF Inject
<1> QED BY <1>1, <1>2, Split

LEMMA StripRemoves ==
  ASSUME NEW t \in Texts, WellFormed(t)
  PROVE  Strip(t) \in Texts /\ WellFormed(Strip(t)) /\ ~Installed(Strip(t))
<1>1. Strip(t) \in Seq(UserPieces)
  <2>1. CASE t \in Seq(UserPieces) /\ ~HasBlock(t)
    BY <2>1 DEF Strip
  <2>2. CASE HasBlock(t) /\ Before(t) \in Seq(UserPieces) /\ After(t) \in Seq(UserPieces)
    BY <2>2 DEF Strip
  <2> QED BY <2>1, <2>2, Split
<1>2. Strip(t) \in Texts /\ \A k \in 1..Len(Strip(t)) : Strip(t)[k] \in UserPieces
  BY <1>1 DEF Texts
<1> QED BY <1>2, UserPart DEF WellFormed, Installed

-----------------------------------------------------------------------------
(***************************************************************************)
(* Once more changes nothing.                                              *)
(***************************************************************************)
\* What an installation makes is one block between two texts of the user,
\* which a removal leaves.
LEMMA InjectMakes ==
  ASSUME NEW t \in Texts, WellFormed(t)
  PROVE  \E a \in Seq(UserPieces), c \in Seq(UserPieces) :
           Inject(t) = a \o HookBlock \o c /\ Strip(t) = a \o c
<1>1. CASE t \in Seq(UserPieces) /\ ~HasBlock(t)
  <2>1. t \o HookBlock \in Seq(UserPieces \cup Ours)
    BY <1>1 DEF HookBlock, Ours, Markers
  <2>2. Inject(t) = t \o HookBlock \o << >> /\ Strip(t) = t \o << >>
    BY <1>1, <2>1, ConcatEmptySeq DEF Inject, Strip
  <2> QED BY <1>1, <2>2, EmptySeq
<1>2. CASE HasBlock(t) /\ Before(t) \in Seq(UserPieces) /\ After(t) \in Seq(UserPieces)
  BY <1>2 DEF Inject, Strip
<1> QED BY <1>1, <1>2, Split

\* The hook is installed once, and up to date.
LEMMA InjectOnce ==
  ASSUME NEW t \in Texts, WellFormed(t)
  PROVE  /\ Inject(Inject(t)) = Inject(t)
         /\ Cardinality(Where(Inject(t), "start")) = 1
         /\ Strip(Inject(t)) = Strip(t)
<1> PICK a \in Seq(UserPieces), c \in Seq(UserPieces) :
           Inject(t) = a \o HookBlock \o c /\ Strip(t) = a \o c
  BY InjectMakes
<1>1. /\ HasBlock(Inject(t)) /\ Before(Inject(t)) = a /\ After(Inject(t)) = c
      /\ Cardinality(Where(Inject(t), "start")) = 1
  BY BlockBetween
<1> QED BY <1>1 DEF Inject, Strip

\* A removal leaves what the user wrote, and nothing to remove.
LEMMA StripOnce ==
  ASSUME NEW t \in Texts, WellFormed(t)
  PROVE  Strip(t) \in Seq(UserPieces) /\ Strip(Strip(t)) = Strip(t)
<1>1. Strip(t) \in Seq(UserPieces)
  BY InjectMakes, ConcatProperties
<1>2. Strip(t) \in Texts /\ \A k \in 1..Len(Strip(t)) : Strip(t)[k] \in UserPieces
  BY <1>1 DEF Texts
<1>3. ~HasBlock(Strip(t))
  BY <1>2, UserPart
<1> QED BY <1>1, <1>3 DEF Strip

-----------------------------------------------------------------------------
(***************************************************************************)
(* The user's text.                                                        *)
(***************************************************************************)
\* The user's places up to k, in a text with n of his pieces, a block of g others
\* and m of his again.
UserPlaces(n, g, m) == (1..n) \cup (n+g+1..n+g+m)

LEMMA RankBefore ==
  ASSUME NEW n \in Nat, NEW g \in Nat, NEW m \in Nat, NEW k \in 1..n
  PROVE  Cardinality(UserPlaces(n, g, m) \cap 1..k) = k
<1>1. UserPlaces(n, g, m) \cap 1..k = 1..k
  BY DEF UserPlaces
<1>2. Cardinality(1..k) = k
  BY FS_Interval
<1> QED BY <1>1, <1>2

LEMMA RankAfter ==
  ASSUME NEW n \in Nat, NEW g \in Nat, NEW m \in Nat, NEW k \in n+g..n+g+m
  PROVE  Cardinality(UserPlaces(n, g, m) \cap 1..k) = k - g
<1> DEFINE S == 1..n
           T == n+g+1..k
<1>1. UserPlaces(n, g, m) \cap 1..k = S \cup T /\ S \cap T = {}
  BY DEF UserPlaces
<1>2. IsFiniteSet(S) /\ Cardinality(S) = n
  BY FS_Interval
<1>3. IsFiniteSet(T) /\ Cardinality(T) = IF n+g+1 > k THEN 0 ELSE k-(n+g+1)+1
  <2>1. n+g+1 \in Int /\ k \in Int
    OBVIOUS
  <2> QED BY <2>1, FS_Interval
<1>4. Cardinality(T) = k - n - g
  BY <1>3
<1>5. Cardinality(S \cap T) = 0
  BY <1>1, FS_EmptySet
<1> HIDE DEF S, T
<1>6. Cardinality(S \cup T) = Cardinality(S) + Cardinality(T) - Cardinality(S \cap T)
  BY <1>2, <1>3, FS_Union
<1>7. Cardinality(S \cup T) = n + (k - n - g) - 0
  BY <1>2, <1>4, <1>5, <1>6
<1>8. n + (k - n - g) - 0 = k - g
  OBVIOUS
<1> QED BY <1>1, <1>7, <1>8

LEMMA RankOfAll ==
  ASSUME NEW n \in Nat, NEW g \in Nat, NEW m \in Nat
  PROVE  Cardinality(UserPlaces(n, g, m)) = n + m
<1>1. UserPlaces(n, g, m) \cap 1..n+g+m = UserPlaces(n, g, m)
  BY DEF UserPlaces
<1>2. n + g + m \in n+g..n+g+m /\ (n + g + m) - g = n + m
  OBVIOUS
<1>3. Cardinality(UserPlaces(n, g, m) \cap 1..n+g+m) = (n + g + m) - g
  BY <1>2, RankAfter
<1> QED BY <1>1, <1>2, <1>3

\* It is the whole of a text that is all the user's ...
LEMMA UserTextOfUser ==
  ASSUME NEW t \in Seq(UserPieces)
  PROVE  UserText(t) = t
<1> DEFINE n == Len(t)
<1>1. n \in Nat /\ UserAt(t) = 1..n
  BY DEF UserAt
<1> HIDE DEF n
<1>2. \A k \in 1..n : Cardinality((1..n) \cap 1..k) = k
  <2> TAKE k \in 1..n
  <2>1. (1..n) \cap 1..k = 1..k
    BY <1>1
  <2>2. Cardinality(1..k) = k
    BY <1>1, FS_Interval
  <2> QED BY <2>1, <2>2
<1>3. Cardinality(1..n) = n
  BY <1>1, FS_Interval
<1>4. \A k \in 1..n : Nth(t, k) = k
  BY <1>1, <1>2 DEF Nth
<1>5. UserText(t) = [k \in 1..n |-> t[k]]
  BY <1>1, <1>3, <1>4 DEF UserText
<1> QED BY <1>5 DEF n

\* ... and of any other what is around the block.
LEMMA UserTextAround ==
  ASSUME NEW t \in Texts, NEW n \in Nat, NEW g \in Nat, NEW m \in Nat, Len(t) = n + g + m,
         \A k \in 1..Len(t) : t[k] \in UserPieces <=> (k <= n \/ k > n + g)
  PROVE  UserText(t) = SubSeq(t, 1, n) \o SubSeq(t, n + g + 1, n + g + m)
<1> DEFINE U == UserPlaces(n, g, m)
           a == SubSeq(t, 1, n)
           c == SubSeq(t, n + g + 1, n + g + m)
           around == a \o c
<1>1. UserAt(t) = U
  BY DEF UserAt, UserPlaces
<1>2. /\ a \in Texts /\ Len(a) = n /\ \A k \in 1..n : a[k] = t[k]
      /\ c \in Texts /\ Len(c) = m /\ \A k \in 1..m : c[k] = t[k + n + g]
  BY DEF Texts
<1> HIDE DEF a, c
<1>3. /\ around \in Texts /\ Len(around) = n + m
      /\ \A k \in 1..n : around[k] = t[k]
      /\ \A k \in n+1..n+m : around[k] = t[k + g]
  <2>1. /\ around \in Texts /\ Len(around) = n + m
        /\ \A k \in 1..n : around[k] = a[k]
        /\ \A k \in n+1..n+m : around[k] = c[k - n]
    <3>1. /\ around \in Texts /\ Len(around) = Len(a) + Len(c)
          /\ \A k \in 1..Len(a) + Len(c) :
               around[k] = IF k <= Len(a) THEN a[k] ELSE c[k - Len(a)]
      BY <1>2, ConcatProperties DEF Texts
    <3> QED BY <1>2, <3>1
  <2>2. ASSUME NEW k \in n+1..n+m
        PROVE  around[k] = t[k + g]
    <3>1. k - n \in 1..m /\ (k - n) + n + g = k + g
      OBVIOUS
    <3> QED BY <1>2, <2>1, <3>1
  <2>3. \A k \in 1..n : around[k] = t[k]
    BY <1>2, <2>1
  <2> QED BY <2>1, <2>2, <2>3
<1> HIDE DEF around
<1>4. Cardinality(U) = n + m
  BY RankOfAll
<1>5. ASSUME NEW i \in U
      PROVE  Cardinality(U \cap 1..i) = IF i <= n THEN i ELSE i - g
  <2>1. CASE i \in 1..n
    BY <2>1, RankBefore
  <2>2. CASE i \in n+g+1..n+g+m
    <3>1. i \in n+g..n+g+m /\ ~(i <= n)
      BY <2>2
    <3> QED BY <3>1, RankAfter
  <2> QED BY <2>1, <2>2 DEF UserPlaces
<1>6. ASSUME NEW k \in 1..n+m
      PROVE  t[Nth(t, k)] = around[k]
  <2> DEFINE place == IF k <= n THEN k ELSE k + g
  <2>1. place \in U /\ (place <= n <=> k <= n)
    BY DEF UserPlaces
  <2>2. Cardinality(U \cap 1..place) = k
    <3>1. (IF place <= n THEN place ELSE place - g) = k
      OBVIOUS
    <3> HIDE DEF place, U
    <3> QED BY <1>5, <2>1, <3>1
  <2>3. \A i \in U : (IF i <= n THEN i ELSE i - g) = k => i = place
    BY DEF UserPlaces
  <2>4. \A i \in U : Cardinality(U \cap 1..i) = k => i = place
    BY <1>5, <2>3
  <2> HIDE DEF place, U
  <2>5. Nth(t, k) = place
    BY <1>1, <2>1, <2>2, <2>4 DEF Nth
  <2> QED BY <1>3, <2>5 DEF place
<1> HIDE DEF U
<1>7. UserText(t) = [k \in 1..n+m |-> around[k]]
  BY <1>1, <1>4, <1>6 DEF UserText
<1>8. around = [k \in 1..n+m |-> around[k]]
  BY <1>3 DEF Texts
<1> QED BY <1>7, <1>8 DEF around, a, c

\* That is what a removal leaves.
LEMMA UserTextIsStripped ==
  ASSUME NEW t \in Texts, WellFormed(t)
  PROVE  UserText(t) = Strip(t)
<1>1. CASE \A k \in 1..Len(t) : t[k] \in UserPieces
  <2>1. t \in Seq(UserPieces) /\ ~HasBlock(t)
    BY <1>1, UserPart DEF Texts
  <2> QED BY <2>1, UserTextOfUser DEF Strip
<1>2. ASSUME NEW i \in 1..Len(t), NEW j \in 1..Len(t), i < j,
             Where(t, "start") = {i}, Where(t, "end") = {j},
             \A k \in 1..Len(t) : t[k] \in UserPieces <=> (k < i \/ k > j)
      PROVE  UserText(t) = Strip(t)
  <2>1. First(t, "start") = i /\ First(t, "end") = j
    BY <1>2 DEF First
  <2>2. i <= j /\ Len(t) \in Nat
    BY <1>2 DEF Texts
  <2>3. Strip(t) = SubSeq(t, 1, i - 1) \o SubSeq(t, j + 1, Len(t))
    BY <1>2, <2>1, <2>2 DEF Strip, HasBlock, Before, After
  <2> DEFINE n == i - 1
             g == j - i + 1
             m == Len(t) - j
  <2>4. /\ n \in Nat /\ g \in Nat /\ m \in Nat /\ Len(t) = n + g + m
        /\ n + g + 1 = j + 1 /\ n + g + m = Len(t)
    BY <1>2, <2>2
  <2>5. \A k \in 1..Len(t) : t[k] \in UserPieces <=> (k <= n \/ k > n + g)
    BY <1>2, <2>2
  <2>6. i - 1 = n
    OBVIOUS
  <2> HIDE DEF n, g, m
  <2>7. UserText(t) = SubSeq(t, 1, n) \o SubSeq(t, n + g + 1, n + g + m)
    BY <2>4, <2>5, UserTextAround
  <2> QED BY <2>3, <2>4, <2>6, <2>7
<1> QED BY <1>1, <1>2 DEF WellFormed

(***************************************************************************)
(* injectOrUpdateHook and stripHook leave everything that the user wrote,  *)
(* in the order he wrote it, whatever version of the block they replace.   *)
(***************************************************************************)
THEOREM EditsKeepUserText ==
  ASSUME NEW t \in Texts, WellFormed(t)
  PROVE  UserText(Inject(t)) = UserText(t) /\ UserText(Strip(t)) = UserText(t)
BY UserTextIsStripped, InjectInstalls, InjectOnce, StripRemoves, StripOnce
==============================================================================
