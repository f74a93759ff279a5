------------------------ MODULE PlaybackList_proofs -------------------------
(***************************************************************************)
(* What holds of the list of recorded files for every number of entries,   *)
(* length of a minute, an hour and a day, and history of the card.         *)
(***************************************************************************)
EXTENDS PlaybackList, NumberLemmas, TLAPS, FiniteSetTheorems

-----------------------------------------------------------------------------
(* Positions and lists. *)

\* What the entries of a list that are in a set are, and where they come from:
\* h leads from a place in the new list to its place in the old one.
Picked(T, list, set, r, h, n) ==
    /\ r \in Seq(T) /\ Len(r) <= n
    /\ h \in [1..Len(r) -> 1..n]
    /\ \A k \in 1..Len(r) : k <= h[k] /\ r[k] = list[h[k]] /\ list[h[k]] \in set
    /\ \A j, k \in 1..Len(r) : j < k => h[j] < h[k]
    /\ \A i \in 1..n : list[i] \in set => \E k \in 1..Len(r) : h[k] = i

LEMMA KeptExists ==
    ASSUME NEW list, NEW set, Len(list) \in Nat
    PROVE  \E f : f = [i \in 0..Len(list) |->
                 IF i = 0 THEN <<>>
                 ELSE IF list[i] \in set THEN Append(f[i - 1], list[i]) ELSE f[i - 1]]
  <1> DEFINE Kept(n, f) == f = [i \in 0..n |->
                 IF i = 0 THEN <<>>
                 ELSE IF list[i] \in set THEN Append(f[i - 1], list[i]) ELSE f[i - 1]]
             Bad == {n \in Nat : ~ \E f : Kept(n, f)}
  <1>1. SUFFICES ASSUME Bad # {} PROVE FALSE
    BY <1>1
  <1>2. Min(Bad) \in Bad /\ \A y \in Bad : Min(Bad) <= y
    BY <1>1, FirstOf
  <1> DEFINE n == Min(Bad)
  <1>3. n \in Nat /\ ~ \E f : Kept(n, f)
    BY <1>2
  <1>4. n # 0
    <2>1. Kept(0, [i \in 0..0 |-> <<>>])
      OBVIOUS
    <2> QED  BY <2>1, <1>3
  <1>5. PICK f : Kept(n - 1, f)
    <2>1. n - 1 \in Nat /\ ~ n <= n - 1
      BY <1>3, <1>4
    <2>2. n - 1 \notin Bad
      BY <2>1, <1>2
    <2> QED  BY <2>1, <2>2
  <1> HIDE DEF n
  <1> DEFINE g == [i \in 0..n |-> IF i < n THEN f[i]
                     ELSE IF list[i] \in set THEN Append(f[i - 1], list[i]) ELSE f[i - 1]]
  <1>6. ASSUME NEW i \in 0..n
        PROVE  g[i] = IF i = 0 THEN <<>>
                      ELSE IF list[i] \in set THEN Append(g[i - 1], list[i]) ELSE g[i - 1]
    <2>1. CASE i = n
      <3>1. i - 1 \in 0..n /\ i - 1 < n
        BY <2>1, <1>3, <1>4
      <3>2. g[i - 1] = f[i - 1]
        BY <3>1
      <3> QED  BY <2>1, <3>2, <1>3, <1>4
    <2>2. CASE i # n /\ i # 0
      <3>1. i \in 0..(n - 1) /\ i - 1 \in 0..n /\ i - 1 < n /\ i < n
        BY <2>2, <1>3
      <3>2. g[i - 1] = f[i - 1] /\ g[i] = f[i]
        BY <3>1
      <3>3. f[i] = IF i = 0 THEN <<>>
                    ELSE IF list[i] \in set THEN Append(f[i - 1], list[i]) ELSE f[i - 1]
        BY <3>1, <1>5
      <3> QED  BY <3>2, <3>3
    <2>3. CASE i # n /\ i = 0
      <3>1. i \in 0..(n - 1) /\ i < n
        BY <2>3, <1>3
      <3>2. g[i] = f[i]
        BY <3>1
      <3> QED  BY <2>3, <3>1, <3>2, <1>5
    <2> QED  BY <2>1, <2>2, <2>3
  <1>7. Kept(n, g)
    <2> DEFINE G == [i \in 0..n |->
                 IF i = 0 THEN <<>>
                 ELSE IF list[i] \in set THEN Append(g[i - 1], list[i]) ELSE g[i - 1]]
    <2>1. g = [i \in 0..n |-> g[i]]
      OBVIOUS
    <2> HIDE DEF g
    <2>2. [i \in 0..n |-> g[i]] = G
      BY <1>6
    <2> QED  BY <2>1, <2>2
  <1> QED  BY <1>3, <1>7

LEMMA OnlyPicks ==
    ASSUME NEW T, NEW list \in Seq(T), NEW set
    PROVE  \E h : Picked(T, list, set, Only(list, set), h, Len(list))
  <1> DEFINE len == Len(list)
             Body(f) == [i \in 0..len |->
                 IF i = 0 THEN <<>>
                 ELSE IF list[i] \in set THEN Append(f[i - 1], list[i]) ELSE f[i - 1]]
             kept == CHOOSE f : f = Body(f)
  <1>1. len \in Nat /\ \A i \in 1..len : list[i] \in T
    OBVIOUS
  <1>2. kept = Body(kept)
    <2>1. \E f : f = Body(f)
      BY <1>1, KeptExists
    <2> QED  BY <2>1
  <1>3. Only(list, set) = kept[len]
    BY DEF Only
  <1>4. /\ kept[0] = <<>>
        /\ \A i \in 1..len : kept[i] = IF list[i] \in set THEN Append(kept[i - 1], list[i])
                                       ELSE kept[i - 1]
    <2> HIDE DEF kept
    <2>1. \A i \in 0..len : kept[i] = IF i = 0 THEN <<>>
                 ELSE IF list[i] \in set THEN Append(kept[i - 1], list[i]) ELSE kept[i - 1]
      BY <1>2
    <2> QED  BY <1>1, <2>1
  <1> HIDE DEF kept, len
  <1> DEFINE Good(n) == \E h : Picked(T, list, set, kept[n], h, n)
             Bad == {n \in 0..len : ~ Good(n)}
  <1>5. SUFFICES ASSUME Bad # {} PROVE FALSE
    <2>1. Good(len)
      BY <1>1, <1>5
    <2> QED  BY <1>3, <2>1 DEF len
  <1>6. PICK n \in Bad : \A y \in Bad : n <= y
    <2>1. Bad \subseteq Nat
      BY <1>1
    <2> HIDE DEF Bad
    <2> QED  BY <2>1, <1>5, FirstOf
  <1>7. n # 0
    <2>1. Picked(T, list, set, <<>>, [k \in 1..0 |-> 0], 0)
      <3>1. Len(<<>>) = 0 /\ 1..Len(<<>>) = {} /\ 1..0 = {}
        OBVIOUS
      <3>2. <<>> \in Seq(T) /\ [k \in 1..0 |-> 0] \in [1..Len(<<>>) -> 1..0]
        BY <3>1
      <3> QED  BY <3>1, <3>2 DEF Picked
    <2> QED  BY <2>1, <1>4, <1>6
  <1>8. n \in 1..len /\ n - 1 \in 0..len /\ n - 1 < n
    BY <1>1, <1>6, <1>7
  <1>9. Good(n - 1)
    BY <1>6, <1>8
  <1> DEFINE r == kept[n - 1]
  <1>10. PICK h : Picked(T, list, set, r, h, n - 1)
    BY <1>9
  <1> HIDE DEF Bad, r
  <1>11. /\ r \in Seq(T) /\ Len(r) \in Nat /\ Len(r) <= n - 1
         /\ h \in [1..Len(r) -> 1..(n - 1)]
         /\ \A k \in 1..Len(r) : k <= h[k] /\ r[k] = list[h[k]] /\ list[h[k]] \in set
         /\ \A j, k \in 1..Len(r) : j < k => h[j] < h[k]
         /\ \A i \in 1..(n - 1) : list[i] \in set => \E k \in 1..Len(r) : h[k] = i
    BY <1>10 DEF Picked
  <1>12. CASE list[n] \notin set
    <2>1. kept[n] = r
      BY <1>4, <1>8, <1>12 DEF r
    <2>2. Picked(T, list, set, r, h, n)
      <3>1. r \in Seq(T) /\ Len(r) <= n
        BY <1>8, <1>11
      <3>2. h \in [1..Len(r) -> 1..n]
        BY <1>8, <1>11
      <3>3. ASSUME NEW i \in 1..n, list[i] \in set PROVE \E k \in 1..Len(r) : h[k] = i
        <4>1. i \in 1..(n - 1)
          BY <3>3, <1>8, <1>12
        <4> QED  BY <4>1, <3>3, <1>11
      <3> QED  BY <3>1, <3>2, <3>3, <1>11 DEF Picked
    <2> QED  BY <2>1, <2>2, <1>6 DEF Bad
  <1>13. CASE list[n] \in set
    <2> DEFINE q == Append(r, list[n])
               g == [k \in 1..(Len(r) + 1) |-> IF k <= Len(r) THEN h[k] ELSE n]
    <2>1. kept[n] = q
      BY <1>4, <1>8, <1>13 DEF r
    <2>2. /\ q \in Seq(T) /\ Len(q) = Len(r) + 1
          /\ \A k \in 1..Len(r) : q[k] = r[k]
          /\ q[Len(r) + 1] = list[n]
      BY <1>1, <1>8, <1>11
    <2>3. /\ \A k \in 1..Len(r) : g[k] = h[k] /\ h[k] \in 1..(n - 1)
          /\ g[Len(r) + 1] = n
      <3>1. \A k \in 1..Len(r) : k \in 1..(Len(r) + 1) /\ k <= Len(r)
        BY <1>11
      <3>2. Len(r) + 1 \in 1..(Len(r) + 1) /\ ~ Len(r) + 1 <= Len(r)
        BY <1>11
      <3> QED  BY <3>1, <3>2, <1>11
    <2>4. g \in [1..Len(q) -> 1..n]
      BY <1>8, <1>11, <2>2
    <2> HIDE DEF q, g
    <2>5. \A k \in 1..Len(q) : k \in 1..Len(r) \/ k = Len(r) + 1
      BY <1>11, <2>2
    <2>6. \A k \in 1..Len(q) : k <= g[k] /\ q[k] = list[g[k]] /\ list[g[k]] \in set
      BY <1>8, <1>11, <1>13, <2>2, <2>3, <2>5
    <2>7. \A j, k \in 1..Len(q) : j < k => g[j] < g[k]
      BY <1>8, <1>11, <2>2, <2>3, <2>5
    <2>8. ASSUME NEW i \in 1..n, list[i] \in set PROVE \E k \in 1..Len(q) : g[k] = i
      <3>1. CASE i = n
        BY <3>1, <1>11, <2>2, <2>3
      <3>2. CASE i # n
        <4>1. i \in 1..(n - 1)
          BY <3>2, <1>8
        <4>2. PICK k \in 1..Len(r) : h[k] = i
          BY <4>1, <2>8, <1>11
        <4>3. k \in 1..Len(q)
          BY <1>11, <2>2
        <4> QED  BY <4>2, <4>3, <2>3
      <3> QED  BY <3>1, <3>2
    <2>9. Len(q) <= n
      BY <1>8, <1>11, <2>2
    <2>10. Picked(T, list, set, q, g, n)
      BY <2>2, <2>4, <2>6, <2>7, <2>8, <2>9 DEF Picked
    <2> QED  BY <2>1, <2>10, <1>6 DEF Bad
  <1> QED  BY <1>12, <1>13

\* The entries of a list that are in a set: no other, and none twice.
LEMMA OnlyElements ==
    ASSUME NEW T, NEW list \in Seq(T), NEW set, IsInjective(list)
    PROVE  /\ Only(list, set) \in Seq(T) /\ IsInjective(Only(list, set))
           /\ ToSet(Only(list, set)) = ToSet(list) \cap set
  <1> DEFINE r == Only(list, set)
  <1>1. PICK h : Picked(T, list, set, r, h, Len(list))
    BY OnlyPicks
  <1> HIDE DEF r
  <1>2. /\ r \in Seq(T) /\ Len(r) \in Nat /\ DOMAIN r = 1..Len(r)
        /\ Len(list) \in Nat /\ DOMAIN list = 1..Len(list)
        /\ h \in [1..Len(r) -> 1..Len(list)]
        /\ \A k \in 1..Len(r) : r[k] = list[h[k]] /\ list[h[k]] \in set
        /\ \A j, k \in 1..Len(r) : j < k => h[j] < h[k]
        /\ \A i \in 1..Len(list) : list[i] \in set => \E k \in 1..Len(r) : h[k] = i
    BY <1>1 DEF Picked
  <1>3. ASSUME NEW a \in 1..Len(r), NEW b \in 1..Len(r), r[a] = r[b] PROVE a = b
    <2>1. h[a] = h[b]
      BY <1>2, <1>3 DEF IsInjective
    <2>2. ~ a < b /\ ~ b < a
      BY <1>2, <2>1
    <2> QED  BY <2>2
  <1>4. ToSet(r) \subseteq ToSet(list) \cap set
    BY <1>2 DEF ToSet
  <1>5. ASSUME NEW x \in ToSet(list) \cap set PROVE x \in ToSet(r)
    <2>1. PICK i \in 1..Len(list) : list[i] = x
      BY <1>2 DEF ToSet
    <2>2. PICK k \in 1..Len(r) : h[k] = i
      BY <1>2, <2>1
    <2> QED  BY <1>2, <2>1, <2>2 DEF ToSet
  <1> QED  BY <1>2, <1>3, <1>4, <1>5 DEF r, IsInjective

\* A list without repetition is as long as it has elements.
LEMMA LenIsCardinality ==
    ASSUME NEW T, NEW q \in Seq(T), IsInjective(q)
    PROVE  IsFiniteSet(ToSet(q)) /\ Cardinality(ToSet(q)) = Len(q)
  <1>1. Len(q) \in Nat /\ DOMAIN q = 1..Len(q) /\ q \in [1..Len(q) -> ToSet(q)]
    BY DEF ToSet
  <1>2. q \in Surjection(1..Len(q), ToSet(q))
    BY <1>1 DEF Surjection, ToSet
  <1>3. q \in Injection(1..Len(q), ToSet(q))
    BY <1>1 DEF Injection
  <1>4. IsFiniteSet(1..Len(q)) /\ Cardinality(1..Len(q)) = Len(q)
    BY <1>1, FS_Interval
  <1> QED  BY <1>2, <1>3, <1>4, FS_Surjection

\* A sequence with an element put in at number i.
LEMMA InsertAtElements ==
    ASSUME NEW T, NEW q \in Seq(T), NEW e \in T, NEW i \in 1..(Len(q) + 1)
    PROVE  LET r == InsertAt(q, i, e)
           IN  /\ r \in Seq(T) /\ Len(r) = Len(q) + 1
               /\ \A j \in 1..(Len(q) + 1) :
                    r[j] = IF j < i THEN q[j] ELSE IF j = i THEN e ELSE q[j - 1]
  <1> DEFINE front == SubSeq(q, 1, i - 1)
             rest == SubSeq(q, i, Len(q))
             head == front \o <<e>>
  <1>1. Len(q) \in Nat /\ i \in Nat /\ 1 <= i /\ i <= Len(q) + 1
    OBVIOUS
  <1>2. /\ front \in Seq(T) /\ Len(front) = i - 1
        /\ \A j \in 1..(i - 1) : front[j] = q[j]
    BY <1>1
  <1>3. /\ rest \in Seq(T) /\ Len(rest) = Len(q) - i + 1
        /\ \A j \in 1..(Len(q) - i + 1) : rest[j] = q[j + i - 1]
    BY <1>1
  <1> HIDE DEF front, rest
  <1>4. <<e>> \in Seq(T) /\ Len(<<e>>) = 1 /\ <<e>>[1] = e
    OBVIOUS
  <1>5. /\ head \in Seq(T) /\ Len(head) = i
        /\ \A j \in 1..i : head[j] = IF j < i THEN front[j] ELSE e
    BY <1>1, <1>2, <1>4
  <1> HIDE DEF head
  <1>6. /\ head \o rest \in Seq(T) /\ Len(head \o rest) = Len(q) + 1
        /\ \A j \in 1..(Len(q) + 1) : (head \o rest)[j] = IF j <= i THEN head[j] ELSE rest[j - i]
    <2>1. head \in Seq(T) /\ rest \in Seq(T)
      BY <1>3, <1>5
    <2>2. /\ head \o rest \in Seq(T) /\ Len(head \o rest) = Len(head) + Len(rest)
          /\ \A j \in 1..(Len(head) + Len(rest)) :
               (head \o rest)[j] = IF j <= Len(head) THEN head[j] ELSE rest[j - Len(head)]
      BY ONLY <2>1
    <2> QED  BY <2>2, <1>1, <1>3, <1>5
  <1>7. ASSUME NEW j \in 1..(Len(q) + 1)
        PROVE  (head \o rest)[j] = IF j < i THEN q[j] ELSE IF j = i THEN e ELSE q[j - 1]
    <2>1. CASE j <= i
      BY <2>1, <1>1, <1>2, <1>5, <1>6
    <2>2. CASE ~ j <= i
      <3>1. j - i \in 1..(Len(q) - i + 1) /\ j - i + i - 1 = j - 1
        BY <2>2, <1>1
      <3> QED  BY <2>2, <3>1, <1>3, <1>6
    <2> QED  BY <2>1, <2>2
  <1>8. InsertAt(q, i, e) = head \o rest
    BY DEF InsertAt, head, front, rest
  <1> QED  BY <1>6, <1>7, <1>8

LEMMA InsertAtOthers ==
    ASSUME NEW T, NEW q \in Seq(T), NEW e \in T, NEW i \in 1..(Len(q) + 1),
           IsInjective(q), e \notin ToSet(q)
    PROVE  /\ IsInjective(InsertAt(q, i, e))
           /\ ToSet(InsertAt(q, i, e)) = ToSet(q) \cup {e}
  <1> DEFINE r == InsertAt(q, i, e)
  <1> HIDE DEF r
  <1>1. /\ r \in Seq(T) /\ Len(r) = Len(q) + 1 /\ DOMAIN r = 1..(Len(q) + 1)
        /\ Len(q) \in Nat /\ DOMAIN q = 1..Len(q)
        /\ \A j \in 1..(Len(q) + 1) :
              r[j] = IF j < i THEN q[j] ELSE IF j = i THEN e ELSE q[j - 1]
    BY InsertAtElements DEF r
  <1>2. \A j \in 1..Len(q) : q[j] # e
    BY <1>1 DEF ToSet
  <1>3. \A a, b \in 1..Len(q) : q[a] = q[b] => a = b
    BY <1>1 DEF IsInjective
  <1>4. ASSUME NEW a \in DOMAIN r PROVE r[a] \in ToSet(q) \cup {e} /\ (r[a] = e <=> a = i)
    <2>1. CASE a < i
      BY <2>1, <1>1, <1>2 DEF ToSet
    <2>2. CASE a = i
      BY <2>2, <1>1
    <2>3. CASE a > i
      <3>1. a - 1 \in 1..Len(q) /\ r[a] = q[a - 1]
        BY <2>3, <1>1
      <3> QED  BY <2>3, <3>1, <1>1, <1>2 DEF ToSet
    <2> QED  BY <2>1, <2>2, <2>3, <1>1
  <1>5. ASSUME NEW a \in DOMAIN r, NEW b \in DOMAIN r, r[a] = r[b] PROVE a = b
    <2>1. CASE a = i \/ b = i
      BY <2>1, <1>4, <1>5
    <2>2. CASE a < i /\ b < i
      BY <2>2, <1>1, <1>3, <1>5
    <2>3. CASE a < i /\ b > i
      <3>1. b - 1 \in 1..Len(q) /\ r[b] = q[b - 1] /\ a \in 1..Len(q) /\ r[a] = q[a]
        BY <2>3, <1>1
      <3> QED  BY <2>3, <3>1, <1>1, <1>3, <1>5
    <2>4. CASE a > i /\ b < i
      <3>1. a - 1 \in 1..Len(q) /\ r[a] = q[a - 1] /\ b \in 1..Len(q) /\ r[b] = q[b]
        BY <2>4, <1>1
      <3> QED  BY <2>4, <3>1, <1>1, <1>3, <1>5
    <2>5. CASE a > i /\ b > i
      <3>1. /\ b - 1 \in 1..Len(q) /\ r[b] = q[b - 1]
            /\ a - 1 \in 1..Len(q) /\ r[a] = q[a - 1]
        BY <2>5, <1>1
      <3> QED  BY <2>5, <3>1, <1>1, <1>3, <1>5
    <2> QED  BY <2>1, <2>2, <2>3, <2>4, <2>5, <1>1
  <1>6. ASSUME NEW x \in ToSet(q) \cup {e} PROVE x \in ToSet(r)
    <2>1. CASE x = e
      BY <2>1, <1>1 DEF ToSet
    <2>2. CASE x # e
      <3>1. PICK j \in 1..Len(q) : q[j] = x
        BY <2>2, <1>1 DEF ToSet
      <3>2. CASE j < i
        BY <3>1, <3>2, <1>1 DEF ToSet
      <3>3. CASE ~ j < i
        <4>1. j + 1 \in 1..(Len(q) + 1) /\ r[j + 1] = q[j]
          BY <3>3, <1>1
        <4> QED  BY <3>1, <4>1, <1>1 DEF ToSet
      <3> QED  BY <3>2, <3>3
    <2> QED  BY <2>1, <2>2
  <1>7. ToSet(r) = ToSet(q) \cup {e}
    BY <1>4, <1>6 DEF ToSet
  <1> QED  BY <1>5, <1>7 DEF r, IsInjective
\* A sequence without its element number i.
LEMMA RemoveAtElements ==
    ASSUME NEW S, NEW q \in Seq(S), NEW i \in DOMAIN q
    PROVE  LET r == RemoveAt(q, i)
           IN  /\ r \in Seq(S) /\ Len(r) = Len(q) - 1
               /\ \A j \in DOMAIN r : r[j] = IF j < i THEN q[j] ELSE q[j + 1]
  <1> DEFINE front == SubSeq(q, 1, i - 1)
             rest == SubSeq(q, i + 1, Len(q))
  <1>1. Len(q) \in Nat /\ i \in 1..Len(q) /\ DOMAIN q = 1..Len(q)
    OBVIOUS
  <1>2. /\ front \in Seq(S) /\ Len(front) = i - 1
        /\ \A j \in 1..(i - 1) : front[j] = q[j]
    BY <1>1
  <1>3. /\ rest \in Seq(S) /\ Len(rest) = Len(q) - i
        /\ \A j \in 1..(Len(q) - i) : rest[j] = q[j + i]
    BY <1>1
  <1> HIDE DEF front, rest
  <1>4. front \o rest \in Seq(S) /\ Len(front \o rest) = Len(q) - 1
    <2>1. front \in Seq(S) /\ rest \in Seq(S)
      BY <1>2, <1>3
    <2>2. front \o rest \in Seq(S) /\ Len(front \o rest) = Len(front) + Len(rest)
      BY ONLY <2>1
    <2> QED  BY <2>2, <1>1, <1>2, <1>3
  <1>5. ASSUME NEW j \in 1..(Len(q) - 1)
        PROVE  (front \o rest)[j] = IF j < i THEN q[j] ELSE q[j + 1]
    <2>1. CASE j < i
      BY <2>1, <1>1, <1>2, <1>3
    <2>2. CASE ~ j < i
      <3>1. (front \o rest)[j] = rest[j - (i - 1)]
        BY <2>2, <1>1, <1>2, <1>3
      <3>2. j - (i - 1) \in 1..(Len(q) - i) /\ j - (i - 1) + i = j + 1
        BY <2>2, <1>1
      <3> QED  BY <3>1, <3>2, <2>2, <1>3
    <2> QED  BY <2>1, <2>2
  <1>6. DOMAIN (front \o rest) = 1..(Len(q) - 1)
    BY <1>4
  <1>7. RemoveAt(q, i) = front \o rest
    BY DEF RemoveAt, front, rest
  <1> QED  BY <1>4, <1>5, <1>6, <1>7

\* Without it no other element is missing, and none is there twice.
LEMMA RemoveAtOthers ==
    ASSUME NEW S, NEW q \in Seq(S), NEW i \in DOMAIN q, IsInjective(q)
    PROVE  /\ IsInjective(RemoveAt(q, i))
           /\ ToSet(RemoveAt(q, i)) = ToSet(q) \ {q[i]}
  <1> DEFINE r == RemoveAt(q, i)
  <1> HIDE DEF r
  <1>1. /\ r \in Seq(S) /\ Len(r) = Len(q) - 1
        /\ \A j \in DOMAIN r : r[j] = IF j < i THEN q[j] ELSE q[j + 1]
    BY RemoveAtElements DEF r
  <1>2. /\ Len(q) \in Nat /\ DOMAIN q = 1..Len(q) /\ i \in 1..Len(q)
        /\ DOMAIN r = 1..(Len(q) - 1)
    BY <1>1
  <1>3. \A a, b \in DOMAIN q : q[a] = q[b] => a = b
    BY DEF IsInjective
  <1>4. IsInjective(r)
    <2>1. SUFFICES ASSUME NEW a \in DOMAIN r, NEW b \in DOMAIN r, r[a] = r[b]
                   PROVE  a = b
      BY DEF IsInjective
    <2>2. CASE a < i /\ b < i
      BY <2>1, <2>2, <1>1, <1>2, <1>3
    <2>3. CASE a < i /\ ~ b < i
      BY <2>1, <2>3, <1>1, <1>2, <1>3
    <2>4. CASE ~ a < i /\ b < i
      BY <2>1, <2>4, <1>1, <1>2, <1>3
    <2>5. CASE ~ a < i /\ ~ b < i
      BY <2>1, <2>5, <1>1, <1>2, <1>3
    <2> QED  BY <2>2, <2>3, <2>4, <2>5
  <1>5. ASSUME NEW x \in ToSet(r) PROVE x \in ToSet(q) /\ x # q[i]
    <2>1. PICK j \in DOMAIN r : r[j] = x
      BY <1>5 DEF ToSet
    <2>2. CASE j < i
      BY <2>1, <2>2, <1>1, <1>2, <1>3 DEF ToSet
    <2>3. CASE ~ j < i
      BY <2>1, <2>3, <1>1, <1>2, <1>3 DEF ToSet
    <2> QED  BY <2>2, <2>3
  <1>6. ASSUME NEW x \in ToSet(q), x # q[i] PROVE x \in ToSet(r)
    <2>1. PICK j \in DOMAIN q : q[j] = x
      BY <1>6 DEF ToSet
    <2>2. CASE j < i
      <3>1. j \in DOMAIN r /\ r[j] = x
        BY <2>1, <2>2, <1>1, <1>2
      <3> QED  BY <3>1 DEF ToSet
    <2>3. CASE ~ j < i
      <3>1. j - 1 \in DOMAIN r /\ r[j - 1] = x
        BY <2>1, <2>3, <1>6, <1>1, <1>2
      <3> QED  BY <3>1 DEF ToSet
    <2> QED  BY <2>2, <2>3
  <1>7. ToSet(r) = ToSet(q) \ {q[i]}
    BY <1>5, <1>6
  <1> QED  BY <1>4, <1>7 DEF r

\* A new element at the end.
LEMMA AppendOthers ==
    ASSUME NEW S, NEW q \in Seq(S), IsInjective(q), NEW e \in S, e \notin ToSet(q)
    PROVE  /\ Append(q, e) \in Seq(S) /\ IsInjective(Append(q, e))
           /\ ToSet(Append(q, e)) = ToSet(q) \cup {e}
  <1> DEFINE r == Append(q, e)
  <1>1. /\ r \in Seq(S) /\ Len(q) \in Nat /\ DOMAIN q = 1..Len(q) /\ DOMAIN r = 1..(Len(q) + 1)
        /\ r[Len(q) + 1] = e /\ \A j \in DOMAIN q : r[j] = q[j] /\ q[j] # e
    BY DEF ToSet
  <1> HIDE DEF r
  <1>2. \A a, b \in DOMAIN q : q[a] = q[b] => a = b
    BY DEF IsInjective
  <1>3. \A j \in DOMAIN r : j \in DOMAIN q \/ j = Len(q) + 1
    BY <1>1
  <1>4. \A a, b \in DOMAIN r : r[a] = r[b] => a = b
    BY <1>1, <1>2, <1>3
  <1>5. ToSet(r) = ToSet(q) \cup {e}
    <2>1. ToSet(r) \subseteq ToSet(q) \cup {e}
      BY <1>1, <1>3 DEF ToSet
    <2>2. DOMAIN q \subseteq DOMAIN r /\ Len(q) + 1 \in DOMAIN r
      BY <1>1
    <2>3. ToSet(q) \cup {e} \subseteq ToSet(r)
      BY <1>1, <2>2 DEF ToSet
    <2> QED  BY <2>1, <2>3
  <1> QED  BY <1>1, <1>4, <1>5 DEF r, IsInjective

-----------------------------------------------------------------------------
(* The inductive invariant. *)

NewestFirst(list) ==
    \A i, j \in DOMAIN list : i < j => Time(list[i]) >= Time(list[j])

Typed ==
    /\ card \in {"in", "out"} /\ kill \in BOOLEAN
    /\ last \in Times /\ files \subseteq 0..last
    /\ budget \in [Counts -> Nat]
    /\ events \in Seq({"in", "out"}) /\ Len(events) <= MaxEvents
    /\ scan \in [at : {"off", "wait", "scan", "add"}, left : SUBSET Times, slot : 0..NSlots]
    /\ rec \in 0..NSlots
    /\ scan.slot # 0 <=> scan.at = "add"
    /\ scan.slot = rec => rec = 0

\* An entry in use holds a file, and the list of a day has no entry twice and goes
\* back in time.
Linked ==
    /\ info \in [Slots -> [used : BOOLEAN, time : Times \cup {NoTime}]]
    /\ day_list \in [Days -> Seq(Slots)]
    /\ day_cnt = [d \in Days |-> day_cnt[d]]
    /\ \A s \in Slots : info[s].used => Time(s) \in Times
    /\ \A d \in Days : IsInjective(day_list[d]) /\ NewestFirst(day_list[d])
    /\ SlotsAreKept

\* The next event, waiting or to come, is of a card that is put in.
AwaitsCard == IF events = <<>> THEN card = "out" ELSE events[1] = "in"

\* The events not yet handled come in turn, and the last says where the card is.
\* Before a card is put in the scan is over; and while there is none and no event
\* what is listed is the one entry the recorder had.
Handled ==
    /\ \A i \in 1..(Len(events) - 1) : events[i] # events[i + 1]
    /\ events # <<>> => events[Len(events)] = card
    /\ kill => events # <<>> /\ events[1] = "out"
    /\ AwaitsCard => scan.at = "off"
    /\ card = "out" /\ events = <<>> =>
         Listed = {} \/ (rec = 0 /\ \E s \in Slots : Listed = {s})

ListInv == Typed /\ Linked /\ Handled

-----------------------------------------------------------------------------
(* Entries. *)

\* A listed entry is one of the array and holds a file.
LEMMA ListedHolds ==
    ASSUME Linked
    PROVE  /\ Listed \subseteq Slots /\ IsFiniteSet(Listed)
           /\ \A s \in Listed : info[s].used /\ Time(s) \in Times
           /\ \A s \in Slots : Time(s) \in Int
           /\ \A d \in Days : ToSet(day_list[d]) \subseteq Listed
  <1>1. ASSUME NEW d \in Days, NEW s \in ToSet(day_list[d]) PROVE s \in Slots
    BY <1>1 DEF Linked, ToSet
  <1>2. Listed \subseteq Slots
    BY <1>1 DEF Listed
  <1>3. IsFiniteSet(Listed)
    <2>1. NSlots \in Int /\ 1 \in Int
      BY Clock
    <2>2. IsFiniteSet(Slots)
      BY <2>1, FS_Interval DEF Slots
    <2> QED  BY <1>2, <2>2, FS_Subset
  <1>4. \A s \in Listed : info[s].used /\ Time(s) \in Times
    BY <1>2 DEF Linked, SlotsAreKept
  <1>5. ASSUME NEW s \in Slots PROVE Time(s) \in Int
    <2>1. info[s].time \in Times \cup {NoTime}
      BY DEF Linked
    <2> QED  BY <2>1, Bounds DEF Time, Times, NoTime
  <1> QED  BY <1>2, <1>3, <1>4, <1>5 DEF Listed

\* An entry is listed before the first that is older.
LEMMA InsertElements ==
    ASSUME \A x \in Slots : Time(x) \in Int,
           NEW list \in Seq(Slots), IsInjective(list), NewestFirst(list),
           NEW s \in Slots, s \notin ToSet(list)
    PROVE  /\ Insert(list, s) \in Seq(Slots) /\ IsInjective(Insert(list, s))
           /\ Len(Insert(list, s)) = Len(list) + 1
           /\ ToSet(Insert(list, s)) = ToSet(list) \cup {s}
           /\ NewestFirst(Insert(list, s))
  <1> DEFINE older == {i \in DOMAIN list : Time(list[i]) < Time(s)}
             p == IF older = {} THEN Len(list) + 1 ELSE Min(older)
             r == InsertAt(list, p, s)
  <1>1. Len(list) \in Nat /\ DOMAIN list = 1..Len(list) /\ older \subseteq Nat
    OBVIOUS
  <1>2. /\ p \in 1..(Len(list) + 1)
        /\ \A i \in DOMAIN list : i < p => Time(list[i]) >= Time(s)
        /\ p \in DOMAIN list => Time(list[p]) < Time(s)
    <2>1. \A i \in DOMAIN list : Time(list[i]) \in Int /\ i \in Nat /\ i <= Len(list)
      <3>1. \A i \in DOMAIN list : list[i] \in Slots
        OBVIOUS
      <3> QED  BY <3>1, <1>1
    <2>2. \A i \in DOMAIN list : i \notin older => Time(list[i]) >= Time(s)
      BY <2>1
    <2>3. \A i \in older : i \in DOMAIN list /\ Time(list[i]) < Time(s)
      OBVIOUS
    <2> HIDE DEF older
    <2>4. CASE older = {}
      <3>1. p = Len(list) + 1
        BY <2>4
      <3> QED  BY <3>1, <2>1, <2>2, <2>4, <1>1
    <2>5. CASE older # {}
      <3>1. Min(older) \in older /\ \A y \in older : Min(older) <= y
        BY <1>1, <2>5, FirstOf
      <3>2. p \in older /\ \A y \in older : p <= y
        BY <2>5, <3>1
      <3>3. \A i \in DOMAIN list : i < p => i \notin older
        BY <2>1, <2>3, <3>2
      <3>4. p \in DOMAIN list /\ Time(list[p]) < Time(s)
        BY <3>2, <2>3
      <3>5. p \in 1..(Len(list) + 1)
        BY <3>4, <1>1
      <3> QED  BY <3>3, <3>4, <3>5, <2>2
    <2> QED  BY <2>4, <2>5
  <1> HIDE DEF p, r
  <1>3. /\ r \in Seq(Slots) /\ Len(r) = Len(list) + 1 /\ DOMAIN r = 1..(Len(list) + 1)
        /\ \A j \in 1..(Len(list) + 1) :
             r[j] = IF j < p THEN list[j] ELSE IF j = p THEN s ELSE list[j - 1]
    BY <1>1, <1>2, InsertAtElements DEF r
  <1>4. IsInjective(r) /\ ToSet(r) = ToSet(list) \cup {s}
    BY <1>2, InsertAtOthers DEF r
  <1>5. ASSUME NEW i \in DOMAIN r, NEW j \in DOMAIN r, i < j
        PROVE  Time(r[i]) >= Time(r[j])
    <2>1. \A a, b \in DOMAIN list : a < b => Time(list[a]) >= Time(list[b])
      BY DEF NewestFirst
    <2>2. \A a \in DOMAIN list : Time(list[a]) \in Int
      OBVIOUS
    <2>3. Time(s) \in Int
      OBVIOUS
    <2>4. CASE j < p
      <3>1. i \in DOMAIN list /\ j \in DOMAIN list /\ r[i] = list[i] /\ r[j] = list[j]
        BY <2>4, <1>1, <1>2, <1>3, <1>5
      <3> QED  BY <3>1, <2>1, <1>5
    <2>5. CASE j = p
      BY <2>5, <1>1, <1>2, <1>3, <1>5
    <2>6. CASE j > p /\ i < p
      <3>1. i \in DOMAIN list /\ j - 1 \in DOMAIN list /\ (i < j - 1 \/ i = j - 1)
        BY <2>6, <1>1, <1>2, <1>3, <1>5
      <3>2. r[i] = list[i] /\ r[j] = list[j - 1] /\ i \in DOMAIN list /\ j - 1 \in DOMAIN list
        BY <2>6, <1>1, <1>2, <1>3, <1>5
      <3>3. CASE i < j - 1
        BY <3>2, <3>3, <2>1
      <3>4. CASE i = j - 1
        BY <3>2, <3>4, <2>6, <1>1, <1>2
      <3> QED  BY <3>3, <3>4, <2>6, <1>1, <1>2, <1>3, <1>5
    <2>7. CASE j > p /\ i = p
      <3>1. r[i] = s /\ r[j] = list[j - 1] /\ j - 1 \in DOMAIN list /\ p \in DOMAIN list
        BY <2>7, <1>1, <1>2, <1>3
      <3>2. Time(list[p]) < Time(s) /\ Time(list[p]) >= Time(list[j - 1])
        <4>1. CASE p = j - 1
          BY <4>1, <3>1, <2>2, <1>2
        <4>2. CASE p # j - 1
          <5>1. p < j - 1
            BY <4>2, <2>7, <1>1, <1>2, <1>3
          <5> QED  BY <5>1, <3>1, <2>1, <1>2
        <4> QED  BY <4>1, <4>2
      <3> QED  BY <3>1, <3>2, <2>2, <2>3
    <2>8. CASE j > p /\ i > p
      <3>1. /\ r[i] = list[i - 1] /\ r[j] = list[j - 1] /\ i - 1 < j - 1
            /\ i - 1 \in DOMAIN list /\ j - 1 \in DOMAIN list
        BY <2>8, <1>1, <1>2, <1>3, <1>5
      <3> QED  BY <3>1, <2>1
    <2> QED  BY <2>4, <2>5, <2>6, <2>7, <2>8, <1>2, <1>3
  <1>6. Insert(list, s) = r
    BY DEF Insert, r, p
  <1> QED  BY <1>3, <1>4, <1>5, <1>6 DEF NewestFirst

\* An entry that is taken holds its file, and is listed nowhere.
LEMMA TakeStep ==
    ASSUME Linked, NEW s \in Unused, NEW f \in Times, TakeSlot(s, f),
           UNCHANGED <<day_list, day_cnt, total>>,
           {scan.slot', rec'} \ {0} = ({scan.slot, rec} \ {0}) \cup {s}
    PROVE  Linked'
  <1>1. /\ s \in Slots /\ ~info[s].used /\ s \notin Listed
        /\ info' = [info EXCEPT ![s] = [used |-> TRUE, time |-> f]]
    BY DEF Unused, TakeSlot, Linked, SlotsAreKept
  <1>2. /\ info' \in [Slots -> [used : BOOLEAN, time : Times \cup {NoTime}]]
        /\ info'[s].used /\ info'[s].time = f
        /\ \A x \in Slots : x # s => info'[x] = info[x]
    BY <1>1 DEF Linked
  <1>3. Listed' = Listed /\ Listed \subseteq Slots
    BY ListedHolds DEF Listed
  <1>4. \A x \in Slots : info'[x].used => Time(x)' \in Times
    BY <1>2 DEF Linked, Time
  <1>5. ASSUME NEW d \in Days
        PROVE  /\ NewestFirst(day_list[d])'
               /\ \A x \in ToSet(day_list[d]) : Time(x)' = Time(x)
    <2>1. \A x \in ToSet(day_list[d]) : x \in Slots /\ x # s
      BY <1>1, ListedHolds
    <2>2. \A x \in ToSet(day_list[d]) : Time(x)' = Time(x)
      BY <1>2, <2>1 DEF Time
    <2>3. \A i \in DOMAIN day_list[d] : day_list[d][i] \in ToSet(day_list[d])
      BY DEF ToSet
    <2>4. NewestFirst(day_list[d])
      BY DEF Linked
    <2> QED  BY <2>2, <2>3, <2>4 DEF NewestFirst
  <1>6. SlotsAreKept'
    <2>1. \A x \in Slots : info'[x].used <=> x \in Listed' \cup {scan.slot', rec'}
      <3>1. \A x \in Slots : x # 0
        BY Clock DEF Slots
      <3>2. \A x \in Slots : info[x].used <=> x \in Listed \cup {scan.slot, rec}
        BY DEF Linked, SlotsAreKept
      <3> QED  BY <1>2, <1>3, <3>1, <3>2
    <2>2. Listed' \cap {scan.slot', rec'} = {}
      <3>1. 0 \notin Listed
        BY <1>3, Clock DEF Slots
      <3>2. Listed \cap {scan.slot, rec} = {}
        BY DEF Linked, SlotsAreKept
      <3>3. \A x \in {scan.slot', rec'} : x = 0 \/ x = s \/ x \in {scan.slot, rec}
        OBVIOUS
      <3> QED  BY <3>1, <3>2, <3>3, <1>1, <1>3
    <2> QED  BY <1>3, <1>5, <2>1, <2>2 DEF Linked, SlotsAreKept
  <1> QED  BY <1>2, <1>4, <1>5, <1>6 DEF Linked

\* An entry that the scan or the recorder has is put in the list of its day.
LEMMA AddStep ==
    ASSUME Linked, NEW s \in Slots, s \in {scan.slot, rec}, info_add(s), UNCHANGED info,
           {scan.slot', rec'} \ {0} = {scan.slot, rec} \ {0, s}
    PROVE  Linked' /\ Listed' = Listed \cup {s}
  <1> DEFINE d == Day(Time(s))
             r == Insert(day_list[d], s)
  <1>1. info[s].used /\ s \notin Listed /\ Time(s) \in Times /\ d \in Days
    BY DEF Linked, SlotsAreKept, Days
  <1>2. /\ day_list' = [day_list EXCEPT ![d] = r]
        /\ day_cnt' = [day_cnt EXCEPT ![d] = @ + 1]
        /\ total' = total + 1
    BY DEF info_add
  <1>3. s \notin ToSet(day_list[d])
    BY <1>1, ListedHolds
  <1> HIDE DEF d
  <1>4. /\ r \in Seq(Slots) /\ IsInjective(r) /\ Len(r) = Len(day_list[d]) + 1
        /\ ToSet(r) = ToSet(day_list[d]) \cup {s} /\ NewestFirst(r)
    BY <1>1, <1>3, ListedHolds, InsertElements DEF Linked
  <1> HIDE DEF r
  <1>5. /\ day_list' \in [Days -> Seq(Slots)] /\ day_list'[d] = r
        /\ \A e \in Days : e # d => day_list'[e] = day_list[e]
    BY <1>1, <1>2, <1>4 DEF Linked
  <1>6. /\ day_cnt' = [e \in Days |-> day_cnt'[e]] /\ day_cnt'[d] = day_cnt[d] + 1
        /\ \A e \in Days : e # d => day_cnt'[e] = day_cnt[e]
    BY <1>1, <1>2 DEF Linked
  <1>7. \A x : Time(x)' = Time(x)
    BY DEF Time
  <1>8. Listed' = Listed \cup {s}
    <2>1. \A e \in Days : ToSet(day_list'[e]) = ToSet(day_list[e]) \cup (IF e = d THEN {s} ELSE {})
      BY <1>4, <1>5
    <2> QED  BY <2>1, <1>1 DEF Listed
  <1>9. ASSUME NEW e \in Days
        PROVE  /\ IsInjective(day_list'[e]) /\ NewestFirst(day_list[e])'
               /\ day_cnt'[e] = Len(day_list'[e])
               /\ Cardinality(ToSet(day_list'[e])) = Len(day_list'[e])
               /\ \A x \in ToSet(day_list'[e]) : Day(Time(x)) = e
    <2>1. IsInjective(day_list'[e])
      BY <1>4, <1>5 DEF Linked
    <2>2. CASE e = d
      <3>1. day_cnt[e] = Len(day_list[e]) /\ \A x \in ToSet(day_list[e]) : Day(Time(x)) = e
        BY DEF Linked, SlotsAreKept
      <3>2. NewestFirst(day_list[e])'
        BY <1>4, <1>5, <1>7, <2>2 DEF NewestFirst
      <3>3. \A x \in ToSet(day_list'[e]) : Day(Time(x)) = e
        BY <3>1, <1>4, <1>5, <2>2 DEF d
      <3> QED  BY <2>1, <2>2, <3>1, <3>2, <3>3, <1>4, <1>5, <1>6, LenIsCardinality
    <2>3. CASE e # d
      <3>1. NewestFirst(day_list[e])'
        BY <1>5, <1>7, <2>3 DEF Linked, NewestFirst
      <3> QED  BY <2>1, <2>3, <3>1, <1>5, <1>6 DEF Linked, SlotsAreKept
    <2> QED  BY <2>2, <2>3
  <1>10. SlotsAreKept'
    <2>1. \A x \in Slots : x # 0
      BY Clock DEF Slots
    <2>2. \A x \in Slots : info[x].used <=> x \in Listed \cup {scan.slot, rec}
      BY DEF Linked, SlotsAreKept
    <2>3. \A x \in Slots : info'[x].used <=> x \in Listed' \cup {scan.slot', rec'}
      BY <1>8, <2>1, <2>2
    <2>4. Listed' \cap {scan.slot', rec'} = {}
      <3>1. 0 \notin Listed /\ s # 0
        BY ListedHolds, <2>1
      <3>2. Listed \cap {scan.slot, rec} = {}
        BY DEF Linked, SlotsAreKept
      <3> QED  BY <3>1, <3>2, <1>8
    <2>5. total' = Cardinality(Listed')
      BY <1>1, <1>2, <1>8, ListedHolds, FS_AddElement DEF Linked, SlotsAreKept
    <2> QED  BY <1>7, <1>9, <2>3, <2>4, <2>5 DEF SlotsAreKept
  <1>11. \A x \in Slots : info'[x].used => Time(x)' \in Times
    BY <1>7 DEF Linked
  <1> QED  BY <1>5, <1>6, <1>8, <1>9, <1>10, <1>11 DEF Linked

\* Listed entries are taken out, wherever they are, and may be used again.
LEMMA DelStep ==
    ASSUME Linked, NEW gone, gone \subseteq Listed, info_del(gone),
           UNCHANGED <<scan.slot, rec>>
    PROVE  Linked' /\ Listed' = Listed \ gone
  <1>1. /\ day_list' = [d \in Days |-> Only(day_list[d], Slots \ gone)]
        /\ day_cnt' = [d \in Days |-> day_cnt[d] - Cardinality(gone \cap ToSet(day_list[d]))]
        /\ total' = total - Cardinality(gone)
        /\ info' = [s \in Slots |-> IF s \in gone THEN [info[s] EXCEPT !.used = FALSE]
                                      ELSE info[s]]
    BY DEF info_del
  <1>2. /\ info' \in [Slots -> [used : BOOLEAN, time : Times \cup {NoTime}]]
        /\ \A s \in Slots : info'[s].used <=> (info[s].used /\ s \notin gone)
    BY <1>1 DEF Linked
  <1>3. \A s \in Slots : Time(s)' = Time(s)
    <2>1. \A s \in Slots : info'[s].time = info[s].time
      BY <1>1 DEF Linked
    <2> QED  BY <2>1 DEF Time
  <1>4. ASSUME NEW d \in Days
        PROVE  /\ day_list'[d] \in Seq(Slots) /\ IsInjective(day_list'[d])
               /\ ToSet(day_list'[d]) = ToSet(day_list[d]) \ gone
               /\ NewestFirst(day_list[d])'
    <2> DEFINE list == day_list[d]
               r == Only(list, Slots \ gone)
    <2>1. list \in Seq(Slots) /\ IsInjective(list) /\ NewestFirst(list)
      BY DEF Linked
    <2>2. day_list'[d] = r
      BY <1>1
    <2> HIDE DEF list, r
    <2>3. /\ r \in Seq(Slots) /\ IsInjective(r)
          /\ ToSet(r) = ToSet(list) \cap (Slots \ gone)
      BY <2>1, OnlyElements DEF r
    <2>4. ToSet(list) \subseteq Slots
      BY <2>1 DEF ToSet
    <2>5. PICK h : Picked(Slots, list, Slots \ gone, r, h, Len(list))
      BY <2>1, OnlyPicks DEF r
    <2>6. /\ DOMAIN r = 1..Len(r) /\ DOMAIN list = 1..Len(list)
          /\ h \in [1..Len(r) -> 1..Len(list)]
          /\ \A k \in 1..Len(r) : r[k] = list[h[k]]
          /\ \A j, k \in 1..Len(r) : j < k => h[j] < h[k]
      BY <2>1, <2>3, <2>5 DEF Picked
    <2>7. \A k \in DOMAIN r : info'[r[k]].time = Time(list[h[k]])
      <3>1. \A k \in DOMAIN r : r[k] \in Slots
        BY <2>3
      <3>2. \A s \in Slots : info'[s].time = Time(s)
        BY <1>3 DEF Time
      <3> QED  BY <3>1, <3>2, <2>6
    <2>8. \A j, k \in DOMAIN r : j < k => info'[r[j]].time >= info'[r[k]].time
      BY <2>1, <2>6, <2>7 DEF NewestFirst
    <2>9. NewestFirst(day_list[d])'
      BY <2>2, <2>8 DEF NewestFirst, Time
    <2> QED  BY <2>2, <2>3, <2>4, <2>9 DEF list
  <1>5. day_list' \in [Days -> Seq(Slots)] /\ day_cnt' = [d \in Days |-> day_cnt'[d]]
    BY <1>1, <1>4
  <1>6. Listed' = Listed \ gone
    BY <1>4 DEF Listed
  <1>7. ASSUME NEW d \in Days
        PROVE  /\ day_cnt'[d] = Len(day_list'[d])
               /\ Cardinality(ToSet(day_list'[d])) = Len(day_list'[d])
               /\ \A s \in ToSet(day_list'[d]) : Day(Time(s)') = d
    <2>1. /\ day_cnt[d] = Len(day_list[d]) /\ \A s \in ToSet(day_list[d]) : Day(Time(s)) = d
          /\ day_list[d] \in Seq(Slots) /\ IsInjective(day_list[d])
      BY DEF Linked, SlotsAreKept
    <2>2. IsFiniteSet(ToSet(day_list[d])) /\ Cardinality(ToSet(day_list[d])) = Len(day_list[d])
      BY <2>1, LenIsCardinality
    <2>3. Cardinality(ToSet(day_list[d]) \ gone)
            = Cardinality(ToSet(day_list[d])) - Cardinality(ToSet(day_list[d]) \cap gone)
      BY <2>2, FS_Difference
    <2>4. Cardinality(ToSet(day_list'[d])) = Len(day_list'[d])
      BY <1>4, LenIsCardinality
    <2>5. gone \cap ToSet(day_list[d]) = ToSet(day_list[d]) \cap gone
      OBVIOUS
    <2>6. day_cnt'[d] = day_cnt[d] - Cardinality(gone \cap ToSet(day_list[d]))
      BY <1>1
    <2>7. \A s \in ToSet(day_list[d]) : s \in Slots
      BY ListedHolds
    <2> QED  BY <2>1, <2>2, <2>3, <2>4, <2>5, <2>6, <2>7, <1>3, <1>4
  <1>8. SlotsAreKept'
    <2>1. \A s \in Slots : info'[s].used <=> s \in Listed' \cup {scan.slot', rec'}
      BY <1>2, <1>6 DEF Linked, SlotsAreKept
    <2>2. Listed' \cap {scan.slot', rec'} = {}
      BY <1>6 DEF Linked, SlotsAreKept
    <2>3. total' = Cardinality(Listed')
      <3>1. IsFiniteSet(Listed) /\ Listed \cap gone = gone
        BY ListedHolds
      <3>2. Cardinality(Listed \ gone) = Cardinality(Listed) - Cardinality(gone)
        BY <3>1, FS_Difference
      <3> QED  BY <3>2, <1>1, <1>6 DEF Linked, SlotsAreKept
    <2> QED  BY <2>1, <2>2, <2>3, <1>7 DEF SlotsAreKept
  <1>9. \A s \in Slots : info'[s].used => Time(s)' \in Times
    BY <1>2, <1>3 DEF Linked
  <1> QED  BY <1>2, <1>4, <1>5, <1>6, <1>8, <1>9 DEF Linked
-----------------------------------------------------------------------------
(* The steps. *)

LEMMA ListInitHolds == ListInit => ListInv
  <1> SUFFICES ASSUME ListInit PROVE ListInv
    OBVIOUS
  <1>1. PICK t \in Trials : files = t.files /\ budget = [x \in Counts |-> t[x]]
    BY DEF ListInit
  <1>2. t \in [files : SUBSET Times, moves : Nat, records : Nat, deletes : Nat, plays : Nat]
    BY Histories
  <1>3. files \subseteq Times
    BY <1>1, <1>2
  <1>4. budget \in [Counts -> Nat]
    <2>1. \A x \in Counts : t[x] \in Nat
      BY <1>2 DEF Counts
    <2> QED  BY <1>1, <2>1
  <1>5. last \in Times /\ files \subseteq 0..last
    <2>1. last = Max(files \cup {0}) /\ files \cup {0} \subseteq 0..LastTime /\ LastTime \in Nat
      BY <1>3, Bounds DEF ListInit, Times
    <2>2. last \in files \cup {0} /\ \A y \in files \cup {0} : y <= last
      BY <2>1, LastOf
    <2> QED  BY <2>1, <2>2 DEF Times
  <1>6. Typed
    <2>1. \/ card = "in" /\ events = <<"in">>
          \/ card = "out" /\ events = <<>>
      BY DEF ListInit
    <2>2. events \in Seq({"in", "out"}) /\ Len(events) <= MaxEvents
      <3>1. <<"in">> \in Seq({"in", "out"}) /\ Len(<<"in">>) = 1
        OBVIOUS
      <3>2. <<>> \in Seq({"in", "out"}) /\ Len(<<>>) = 0
        OBVIOUS
      <3>3. 0 <= MaxEvents /\ 1 <= MaxEvents
        BY Bounds
      <3> QED  BY <2>1, <3>1, <3>2, <3>3
    <2>3. scan = [at |-> "off", left |-> {}, slot |-> 0] /\ rec = 0 /\ 0 \in 0..NSlots
      BY Clock DEF ListInit, Off
    <2>4. card \in {"in", "out"} /\ kill \in BOOLEAN
      BY <2>1 DEF ListInit
    <2>5. /\ scan \in [at : {"off", "wait", "scan", "add"}, left : SUBSET Times, slot : 0..NSlots]
          /\ scan.slot = 0 /\ scan.at = "off" /\ rec = 0 /\ rec \in 0..NSlots
      BY <2>3
    <2> QED  BY <1>4, <1>5, <2>2, <2>4, <2>5 DEF Typed
  <1>7. Listed = {}
    <2>1. \A d \in Days : ToSet(day_list[d]) = {}
      BY DEF ListInit, ToSet
    <2> QED  BY <2>1 DEF Listed
  <1>8. Linked
    <2>1. /\ info \in [Slots -> [used : BOOLEAN, time : Times \cup {NoTime}]]
          /\ \A s \in Slots : ~info[s].used
      BY DEF ListInit
    <2>2. day_list \in [Days -> Seq(Slots)] /\ day_cnt = [d \in Days |-> day_cnt[d]]
      BY DEF ListInit
    <2>3. ASSUME NEW d \in Days
          PROVE  /\ IsInjective(day_list[d]) /\ NewestFirst(day_list[d])
                 /\ day_cnt[d] = Len(day_list[d])
                 /\ Cardinality(ToSet(day_list[d])) = Len(day_list[d])
                 /\ ToSet(day_list[d]) = {}
      <3>1. day_list[d] = <<>> /\ day_cnt[d] = 0 /\ ToSet(day_list[d]) = {}
        BY DEF ListInit, ToSet
      <3>2. DOMAIN day_list[d] = {} /\ Len(day_list[d]) = 0
        BY <3>1
      <3>3. IsInjective(day_list[d]) /\ NewestFirst(day_list[d])
        BY <3>2 DEF IsInjective, NewestFirst
      <3> QED  BY <3>1, <3>2, <3>3, FS_EmptySet
    <2>4. scan.slot = 0 /\ rec = 0 /\ total = 0
      BY DEF ListInit, Off
    <2>5. \A s \in Slots : s # 0
      BY Clock DEF Slots
    <2>6. SlotsAreKept
      BY <1>7, <2>1, <2>3, <2>4, <2>5, FS_EmptySet DEF SlotsAreKept
    <2> QED  BY <2>1, <2>2, <2>3, <2>6 DEF Linked
  <1>9. Handled
    <2>1. \/ card = "in" /\ events = <<"in">>
          \/ card = "out" /\ events = <<>>
      BY DEF ListInit
    <2>2. ~kill /\ scan.at = "off"
      BY DEF ListInit, Off
    <2>3. CASE card = "in" /\ events = <<"in">>
      BY <2>2, <2>3 DEF Handled, AwaitsCard
    <2>4. CASE card = "out" /\ events = <<>>
      BY <2>2, <2>4, <1>7 DEF Handled, AwaitsCard
    <2> QED  BY <2>1, <2>3, <2>4
  <1> QED  BY <1>6, <1>8, <1>9 DEF ListInv

\* What leaves the entries and their lists as they are.
LEMMA LinkedStays ==
    ASSUME Linked, UNCHANGED <<info, day_list, day_cnt, total, scan.slot, rec>>
    PROVE  Linked' /\ Listed' = Listed
  <1>1. Listed' = Listed /\ \A x : Time(x)' = Time(x)
    BY DEF Listed, Time
  <1>2. \A d \in Days : NewestFirst(day_list[d])'
    BY <1>1 DEF Linked, NewestFirst
  <1>3. SlotsAreKept'
    BY <1>1 DEF Linked, SlotsAreKept
  <1> QED  BY <1>1, <1>2, <1>3 DEF Linked

\* A card that moves adds an event behind those that wait, ...
LEMMA CardMovesNext == ASSUME Typed, CardMoves PROVE AwaitsCard' <=> AwaitsCard
  <1>1. /\ events \in Seq({"in", "out"}) /\ events' = Append(events, card')
        /\ Len(events) \in Nat /\ (card' = "in" <=> card = "out")
    BY DEF Typed, CardMoves
  <1>2. events' # <<>> /\ events'[Len(events) + 1] = card'
    BY <1>1
  <1>3. CASE events = <<>>
    <2>1. events'[1] = card'
      BY <1>1, <1>3
    <2> QED  BY <2>1, <1>1, <1>2, <1>3 DEF AwaitsCard
  <1>4. CASE events # <<>>
    <2>1. events'[1] = events[1]
      BY <1>1, <1>4
    <2> QED  BY <2>1, <1>2, <1>4 DEF AwaitsCard
  <1> QED  BY <1>3, <1>4

LEMMA CardMovesStep == ASSUME ListInv, CardMoves PROVE ListInv'
  <1>1. Linked'
    BY LinkedStays DEF ListInv, CardMoves
  <1>2. Typed'
    <2>1. budget' \in [Counts -> Nat]
      BY DEF ListInv, Typed, CardMoves, Counts
    <2>2. /\ events \in Seq({"in", "out"}) /\ Len(events) \in Nat /\ Len(events) < MaxEvents
          /\ card' \in {"in", "out"} /\ events' = Append(events, card') /\ MaxEvents \in Nat
      BY Bounds DEF ListInv, Typed, CardMoves
    <2>3. events' \in Seq({"in", "out"}) /\ Len(events') <= MaxEvents
      BY <2>2
    <2> QED  BY <2>1, <2>2, <2>3 DEF ListInv, Typed, CardMoves
  <1>3. Handled'
    <2>1. /\ events \in Seq({"in", "out"}) /\ card' # card
          /\ events' = Append(events, card') /\ kill' = kill /\ Len(events) \in Nat
      BY DEF ListInv, Typed, CardMoves
    <2>2. /\ Len(events') = Len(events) + 1 /\ events'[Len(events) + 1] = card'
          /\ \A i \in 1..Len(events) : events'[i] = events[i]
      BY <2>1
    <2>3. events # <<>> => Len(events) > 0 /\ events[Len(events)] = card
      BY <2>1 DEF ListInv, Handled
    <2>4. ASSUME NEW i \in 1..(Len(events') - 1) PROVE events'[i] # events'[i + 1]
      <3>1. CASE i = Len(events)
        BY <3>1, <2>1, <2>2, <2>3
      <3>2. CASE i # Len(events)
        <4>1. i \in 1..(Len(events) - 1) /\ i \in 1..Len(events) /\ i + 1 \in 1..Len(events)
          BY <3>2, <2>1, <2>2
        <4> QED  BY <4>1, <2>2 DEF ListInv, Handled
      <3> QED  BY <3>1, <3>2
    <2>5. events' # <<>>
      BY <2>1
    <2>6. kill' => events'[1] = "out"
      BY <2>1, <2>2, <2>3 DEF ListInv, Handled
    <2>7. AwaitsCard' <=> AwaitsCard
      BY CardMovesNext DEF ListInv
    <2> QED  BY <2>2, <2>4, <2>5, <2>6, <2>7 DEF Handled, ListInv, CardMoves
  <1> QED  BY <1>1, <1>2, <1>3 DEF ListInv

\* ... and the first is handled.
LEMMA TailOfEvents ==
    ASSUME Typed, Handled, events # <<>>, events' = Tail(events), UNCHANGED card
    PROVE  /\ events' \in Seq({"in", "out"}) /\ Len(events') = Len(events) - 1
           /\ \A i \in 1..(Len(events') - 1) : events'[i] # events'[i + 1]
           /\ events' # <<>> => events'[Len(events')] = card'
           /\ AwaitsCard' <=> ~AwaitsCard
  <1>1. events \in Seq({"in", "out"}) /\ Len(events) \in Nat /\ Len(events) > 0
    BY DEF Typed
  <1>2. /\ events' \in Seq({"in", "out"}) /\ Len(events') = Len(events) - 1
        /\ \A i \in 1..(Len(events) - 1) : events'[i] = events[i + 1]
    BY <1>1
  <1>3. ASSUME NEW i \in 1..(Len(events') - 1) PROVE events'[i] # events'[i + 1]
    <2>1. /\ i \in 1..(Len(events) - 1) /\ i + 1 \in 1..(Len(events) - 1)
      BY <1>1, <1>2
    <2> QED  BY <2>1, <1>2 DEF Handled
  <1>4. events' # <<>> => Len(events') > 0
    BY <1>2
  <1>5. events' # <<>> => events'[Len(events')] = card'
    BY <1>1, <1>2, <1>4 DEF Handled
  <1>6. events' = <<>> => events[1] = card
    <2>1. ASSUME events' = <<>> PROVE Len(events) = 1
      <3>1. Len(<<>>) = 0
        OBVIOUS
      <3>2. Len(events') = 0
        BY <3>1, <2>1
      <3> QED  BY <3>2, <1>1, <1>2
    <2> QED  BY <2>1, <1>1 DEF Handled
  <1>7. events' # <<>> => (events'[1] = "in" <=> events[1] # "in")
    <2>1. ASSUME events' # <<>> PROVE events'[1] = events[2] /\ events[1] # events[2]
      BY <2>1, <1>1, <1>2, <1>4 DEF Handled
    <2>2. Len(events') > 0 => events'[1] \in {"in", "out"}
      BY <1>2
    <2>3. events[1] \in {"in", "out"}
      BY <1>1
    <2> QED  BY <2>1, <2>2, <2>3, <1>4
  <1>8. AwaitsCard' <=> ~AwaitsCard
    <2>1. CASE events' = <<>>
      BY <2>1, <1>6 DEF AwaitsCard, Typed
    <2>2. CASE events' # <<>>
      BY <2>2, <1>7 DEF AwaitsCard
    <2> QED  BY <2>1, <2>2
  <1> QED  BY <1>2, <1>3, <1>5, <1>8

LEMMA CardInStep == ASSUME ListInv, CardIn PROVE ListInv'
  <1>1. /\ events # <<>> /\ events[1] = "in" /\ events' = Tail(events)
        /\ scan' = [at |-> "wait", left |-> {}, slot |-> 0]
        /\ UNCHANGED <<budget, card, files, last, kill, info, day_list, day_cnt, total, rec>>
    <2>1. events # <<>> /\ Head(events) = "in" /\ events \in Seq({"in", "out"})
      BY DEF CardIn, ListInv, Typed
    <2>2. events[1] = "in"
      BY <2>1
    <2> QED  BY <2>1, <2>2 DEF CardIn, Off
  <1>2. ~kill /\ AwaitsCard /\ scan.slot = 0
    BY <1>1 DEF ListInv, Handled, AwaitsCard, Typed
  <1>3. Linked'
    BY <1>1, <1>2, LinkedStays DEF ListInv
  <1>4. /\ events' \in Seq({"in", "out"}) /\ Len(events') = Len(events) - 1
        /\ \A i \in 1..(Len(events') - 1) : events'[i] # events'[i + 1]
        /\ events' # <<>> => events'[Len(events')] = card'
        /\ ~AwaitsCard'
    BY <1>1, <1>2, TailOfEvents DEF ListInv
  <1>5. Typed'
    <2>1. Len(events') <= MaxEvents
      BY <1>4, Bounds DEF ListInv, Typed
    <2>2. /\ scan' \in [at : {"off", "wait", "scan", "add"}, left : SUBSET Times, slot : 0..NSlots]
          /\ scan'.slot = 0 /\ scan'.at = "wait"
      BY <1>1, Clock
    <2> QED  BY <1>1, <1>4, <2>1, <2>2 DEF ListInv, Typed
  <1>6. Handled'
    BY <1>1, <1>2, <1>4 DEF Handled, AwaitsCard
  <1> QED  BY <1>3, <1>5, <1>6 DEF ListInv

LEMMA CardOutStep == ASSUME ListInv, CardOut PROVE ListInv'
  <1>1. /\ events # <<>> /\ events[1] = "out" /\ kill'
        /\ kill' \in BOOLEAN
        /\ UNCHANGED <<budget, card, files, last, events, info, day_list, day_cnt, total, scan, rec>>
    BY DEF CardOut, ListInv, Typed
  <1>2. Linked' /\ Listed' = Listed
    BY <1>1, LinkedStays DEF ListInv
  <1> QED  BY <1>1, <1>2 DEF ListInv, Typed, Handled, AwaitsCard

LEMMA ClearStep == ASSUME ListInv, Clear PROVE ListInv'
  <1>1. /\ kill /\ scan.at = "off" /\ ~kill' /\ kill' \in BOOLEAN
        /\ events' = Tail(events) /\ info_del(Listed)
        /\ UNCHANGED <<budget, card, files, last, scan, rec>>
    BY DEF Clear
  <1>2. Linked' /\ Listed' = {}
    BY <1>1, DelStep DEF ListInv
  <1>3. events # <<>>
    BY <1>1 DEF ListInv, Handled
  <1>4. /\ events' \in Seq({"in", "out"}) /\ Len(events') = Len(events) - 1
        /\ \A i \in 1..(Len(events') - 1) : events'[i] # events'[i + 1]
        /\ events' # <<>> => events'[Len(events')] = card'
    BY <1>1, <1>3, TailOfEvents DEF ListInv
  <1>5. Typed'
    <2>1. Len(events') <= MaxEvents
      BY <1>4, Bounds DEF ListInv, Typed
    <2> QED  BY <1>1, <1>4, <2>1 DEF ListInv, Typed
  <1>6. Handled'
    BY <1>1, <1>2, <1>4 DEF Handled
  <1> QED  BY <1>2, <1>5, <1>6 DEF ListInv

LEMMA ScanStep ==
    ASSUME ListInv, ScanStarts \/ ScanEnds \/ ScanSkips \/ ScanTakes \/ ScanAdds
    PROVE  ListInv'
  <1>1. /\ UNCHANGED <<budget, card, files, last, events, kill, rec>>
        /\ scan.at # "off"
    BY DEF ScanStarts, ScanEnds, ScanSkips, ScanTakes, ScanAdds
  <1>2. ~AwaitsCard /\ ~AwaitsCard' /\ ~(card = "out" /\ events = <<>>)
    BY <1>1 DEF ListInv, Handled, AwaitsCard
  <1>3. Handled'
    BY <1>1, <1>2 DEF ListInv, Handled
  <1>4. /\ scan \in [at : {"off", "wait", "scan", "add"}, left : SUBSET Times, slot : 0..NSlots]
        /\ scan.slot # 0 <=> scan.at = "add"
        /\ 0 \in 0..NSlots
    BY Clock DEF ListInv, Typed
  <1>5. files \subseteq Times
    BY Bounds DEF ListInv, Typed, Times
  <1>6. ASSUME scan'.slot = 0, scan.slot = 0, scan'.at # "add",
               UNCHANGED <<info, day_list, day_cnt, total>>,
               scan' \in [at : {"off", "wait", "scan", "add"}, left : SUBSET Times, slot : 0..NSlots]
        PROVE  ListInv'
    <2>1. Linked'
      BY <1>1, <1>6, LinkedStays DEF ListInv
    <2>2. Typed'
      BY <1>1, <1>6 DEF ListInv, Typed
    <2> QED  BY <2>1, <2>2, <1>3 DEF ListInv
  <1>7. CASE ScanStarts
    <2>1. scan' = [at |-> "scan", left |-> files, slot |-> 0]
      BY <1>7 DEF ScanStarts, Off
    <2>2. scan.slot = 0
      BY <1>4, <1>7 DEF ScanStarts
    <2> QED  BY <2>1, <2>2, <1>4, <1>5, <1>6, <1>7 DEF ScanStarts
  <1>8. CASE ScanEnds
    <2>1. scan' = [at |-> "off", left |-> {}, slot |-> 0]
      BY <1>8 DEF ScanEnds, Off
    <2>2. scan.slot = 0
      BY <1>4, <1>8 DEF ScanEnds
    <2> QED  BY <2>1, <2>2, <1>4, <1>6, <1>8 DEF ScanEnds
  <1>9. CASE ScanSkips
    <2>1. scan' = [scan EXCEPT !.left = scan.left \ {Max(scan.left)}] /\ scan.at = "scan"
      BY <1>9 DEF ScanSkips
    <2>2. /\ scan'.slot = scan.slot /\ scan'.at = "scan"
          /\ scan' \in [at : {"off", "wait", "scan", "add"}, left : SUBSET Times, slot : 0..NSlots]
      BY <2>1, <1>4
    <2> QED  BY <2>1, <2>2, <1>4, <1>6, <1>9 DEF ScanSkips
  <1>10. CASE ScanTakes
    <2>1. /\ Max(scan.left) \in Times
          /\ UNCHANGED <<day_list, day_cnt, total>>
          /\ scan.slot = 0
      BY <1>4, <1>5, <1>10 DEF ScanTakes
    <2>2. PICK s \in Unused : /\ TakeSlot(s, Max(scan.left))
                              /\ scan' = [scan EXCEPT !.at = "add", !.slot = s]
      BY <1>10 DEF ScanTakes
    <2>3. s \in 0..NSlots /\ s # 0 /\ s \in Slots /\ ~info[s].used
      BY Clock DEF Unused, Slots
    <2>4. /\ scan'.slot = s /\ scan'.at = "add"
          /\ scan' \in [at : {"off", "wait", "scan", "add"}, left : SUBSET Times, slot : 0..NSlots]
      BY <2>2, <2>3, <1>4
    <2>5. s # rec
      BY <2>3 DEF ListInv, Linked, SlotsAreKept
    <2>6. Linked'
      <3>1. {scan.slot', rec'} \ {0} = ({scan.slot, rec} \ {0}) \cup {s}
        BY <2>1, <2>3, <2>4, <1>1
      <3> QED  BY <3>1, <2>1, <2>2, TakeStep DEF ListInv
    <2>7. Typed'
      BY <2>3, <2>4, <2>5, <1>1 DEF ListInv, Typed
    <2> QED  BY <2>6, <2>7, <1>3 DEF ListInv
  <1>11. CASE ScanAdds
    <2>1. scan.slot # 0 /\ scan.slot \in 0..NSlots /\ info_add(scan.slot) /\ UNCHANGED info
      BY <1>4, <1>11 DEF ScanAdds
    <2>2. scan' = [scan EXCEPT !.at = "scan", !.slot = 0, !.left = scan.left \ {Max(scan.left)}]
      BY <1>11 DEF ScanAdds
    <2>3. /\ scan'.slot = 0 /\ scan'.at = "scan"
          /\ scan' \in [at : {"off", "wait", "scan", "add"}, left : SUBSET Times, slot : 0..NSlots]
      BY <2>2, <1>4
    <2>4. Linked'
      <3>1. scan.slot \in Slots
        BY <2>1, Clock DEF Slots
      <3>2. scan.slot # rec
        BY <2>1 DEF ListInv, Typed
      <3>3. {scan.slot', rec'} \ {0} = {scan.slot, rec} \ {0, scan.slot}
        BY <2>3, <3>2, <1>1
      <3> QED  BY <3>1, <3>3, <2>1, AddStep DEF ListInv
    <2>5. Typed'
      BY <2>3, <1>1 DEF ListInv, Typed
    <2> QED  BY <2>4, <2>5, <1>3 DEF ListInv
  <1> QED  BY <1>7, <1>8, <1>9, <1>10, <1>11

LEMMA RecorderFinishesStep ==
    ASSUME ListInv, NEW f \in Times, RecorderFinishes(f)
    PROVE  ListInv'
  <1>1. /\ rec = 0 /\ card = "in" /\ f > last /\ last' = f /\ files' = files \cup {f}
        /\ UNCHANGED <<card, events, kill, day_list, day_cnt, total, scan>>
    BY DEF RecorderFinishes
  <1>2. PICK s \in Unused : TakeSlot(s, f) /\ rec' = s
    BY DEF RecorderFinishes
  <1>3. s \in 0..NSlots /\ s # 0 /\ s \in Slots /\ ~info[s].used
    BY Clock DEF Unused, Slots
  <1>4. s # scan.slot
    BY <1>3 DEF ListInv, Linked, SlotsAreKept
  <1>5. Linked'
    <2>1. {scan.slot', rec'} \ {0} = ({scan.slot, rec} \ {0}) \cup {s}
      BY <1>1, <1>2, <1>3
    <2> QED  BY <2>1, <1>1, <1>2, TakeStep DEF ListInv
  <1>6. Typed'
    <2>1. budget' \in [Counts -> Nat]
      BY DEF ListInv, Typed, RecorderFinishes, Counts
    <2>2. files' \subseteq 0..f
      BY <1>1, Bounds DEF ListInv, Typed, Times
    <2> QED  BY <2>1, <2>2, <1>1, <1>2, <1>3, <1>4 DEF ListInv, Typed
  <1>7. Handled'
    BY <1>1 DEF ListInv, Handled, AwaitsCard
  <1> QED  BY <1>5, <1>6, <1>7 DEF ListInv

LEMMA RecorderAddsStep == ASSUME ListInv, RecorderAdds PROVE ListInv'
  <1>1. /\ rec # 0 /\ info_add(rec) /\ rec' = 0
        /\ UNCHANGED <<budget, card, files, last, events, kill, info, scan>>
    BY DEF RecorderAdds
  <1>2. rec \in Slots /\ scan.slot # rec
    BY <1>1, Clock DEF ListInv, Typed, Slots
  <1>3. Linked' /\ Listed' = Listed \cup {rec}
    <2>1. {scan.slot', rec'} \ {0} = {scan.slot, rec} \ {0, rec}
      BY <1>1, <1>2
    <2> QED  BY <2>1, <1>1, <1>2, AddStep DEF ListInv
  <1>4. Typed'
    BY <1>1, Clock DEF ListInv, Typed
  <1>5. Handled'
    BY <1>1, <1>2, <1>3 DEF ListInv, Handled, AwaitsCard
  <1> QED  BY <1>3, <1>4, <1>5 DEF ListInv

\* Files are deleted, by the recorder or by a phone, while the card is in.
LEMMA DeletesStep ==
    ASSUME ListInv, NEW gone, gone \subseteq Listed, info_del(gone),
           files' \subseteq files, card = "in",
           budget.deletes > 0, budget' = [budget EXCEPT !.deletes = @ - 1],
           UNCHANGED <<card, last, events, kill, scan, rec>>
    PROVE  ListInv'
  <1>1. Linked'
    BY DelStep DEF ListInv
  <1>2. Typed'
    <2>1. budget' \in [Counts -> Nat]
      BY DEF ListInv, Typed, Counts
    <2> QED  BY <2>1 DEF ListInv, Typed
  <1>3. Handled'
    BY DEF ListInv, Handled, AwaitsCard
  <1> QED  BY <1>1, <1>2, <1>3 DEF ListInv

LEMMA RecorderDeletesStep == ASSUME ListInv, RecorderDeletes PROVE ListInv'
  <1> DEFINE f == Min(files)
             gone == {s \in ToSet(day_list[Day(f)]) : Time(s) # f}
  <1>1. files \subseteq Times /\ files \subseteq Nat /\ files # {}
    BY Bounds DEF ListInv, Typed, Times, RecorderDeletes
  <1>2. f \in Times
    BY <1>1, FirstOf
  <1>3. gone \subseteq Listed
    BY <1>2, ListedHolds DEF ListInv, Days
  <1>4. info_del(gone) /\ files' = files \ {f}
    BY DEF RecorderDeletes
  <1> HIDE DEF gone, f
  <1> QED  BY <1>3, <1>4, DeletesStep DEF RecorderDeletes

LEMMA RemoveStep ==
    ASSUME ListInv, NEW req, req[1] \in Times, cloud_playback_list_remove(req)
    PROVE  ListInv'
  <1>1. Found(req) \subseteq ToSet(day_list[Day(req[1])])
    BY DEF Found, ToSet
  <1>2. Found(req) \subseteq Listed
    BY <1>1, ListedHolds DEF ListInv, Days
  <1> QED  BY <1>2, DeletesStep DEF cloud_playback_list_remove

\* A step that leaves the list alone; it may use up a playback.
LEMMA ListStays ==
    ASSUME ListInv, budget' \in [Counts -> Nat],
           UNCHANGED <<card, files, last, events, kill, info, day_list, day_cnt, total, scan, rec>>
    PROVE  ListInv'
  <1>1. Linked' /\ Listed' = Listed
    BY LinkedStays DEF ListInv
  <1> QED  BY <1>1 DEF ListInv, Typed, Handled, AwaitsCard

LEMMA ListNextStep == ASSUME ListInv, ListNext PROVE ListInv'
  BY CardMovesStep, CardInStep, CardOutStep, ClearStep, ScanStep, RecorderFinishesStep,
     RecorderAddsStep, RecorderDeletesStep DEF ListNext

-----------------------------------------------------------------------------
(* What the list does for the phones. *)

LEMMA LeftoverHolds == ListInv => LeftoverIsOne
  <1> SUFFICES ASSUME ListInv, card = "out", events = <<>>
               PROVE  Cardinality(Listed \cup ({rec} \ {0})) <= 1
    BY DEF LeftoverIsOne
  <1>1. PICK s : Listed \cup ({rec} \ {0}) \subseteq {s}
    <2>1. Listed = {} \/ (rec = 0 /\ \E s \in Slots : Listed = {s})
      BY DEF ListInv, Handled
    <2>2. CASE Listed = {}
      BY <2>2
    <2>3. CASE rec = 0 /\ \E s \in Slots : Listed = {s}
      BY <2>3
    <2> QED  BY <2>1, <2>2, <2>3
  <1>2. IsFiniteSet({s}) /\ Cardinality({s}) = 1
    BY FS_Singleton
  <1> QED  BY <1>1, <1>2, FS_Subset

\* In the same hour the minutes tell how far apart two times are.
LEMMA MinutesOfAnHour ==
    ASSUME NEW f \in Nat, NEW t \in Nat, Day(f) = Day(t), Hour(f) = Hour(t)
    PROVE  /\ t = PerMinute * (t \div PerMinute) + Second(t)
           /\ f = PerMinute * (f \div PerMinute) + Second(f)
           /\ {Second(t), Second(f)} \subseteq 0..(PerMinute - 1)
           /\ {t \div PerMinute, f \div PerMinute, Minute(t), Minute(f)} \subseteq Nat
           /\ (t \div PerMinute) - (f \div PerMinute) = Minute(t) - Minute(f)
  <1> DEFINE hour == PerMinute * PerHour
             q(x) == x \div PerMinute
             h(x) == x \div hour
  <1>1. {PerMinute, PerHour, PerDay, hour} \subseteq Nat \ {0}
    BY Clock
  <1> HIDE DEF hour
  <1>2. ASSUME NEW x \in Nat
        PROVE  /\ q(x) \in Nat /\ Second(x) \in 0..(PerMinute - 1)
               /\ x = PerMinute * q(x) + Second(x)
               /\ Minute(x) \in Nat /\ h(x) \in Nat
               /\ q(x) = PerHour * h(x) + Minute(x)
               /\ h(x) = PerDay * Day(x) + Hour(x)
    <2>1. q(x) \in Nat /\ Second(x) \in 0..(PerMinute - 1) /\ x = PerMinute * q(x) + Second(x)
      BY <1>1, DivMod DEF Second
    <2>2. q(x) \div PerHour = h(x)
      BY <1>1, DivDiv DEF hour
    <2>3. Minute(x) \in Nat /\ h(x) \in Nat /\ q(x) = PerHour * h(x) + Minute(x)
      BY <1>1, <2>1, <2>2, DivMod DEF Minute
    <2>4. h(x) \div PerDay = Day(x) /\ h(x) % PerDay = Hour(x)
      BY <1>1, DivDiv DEF Day, Hour, hour
    <2>5. h(x) = PerDay * Day(x) + Hour(x)
      BY <1>1, <2>3, <2>4, DivMod
    <2> QED  BY <2>1, <2>3, <2>5
  <1> HIDE DEF q, h
  <1>3. h(t) = h(f)
    BY <1>2
  <1>4. q(t) - q(f) = Minute(t) - Minute(f)
    <2>1. PerHour * h(t) \in Int
      BY <1>1, <1>2
    <2> QED  BY <2>1, <1>2, <1>3
  <1> QED  BY <1>2, <1>4 DEF q

\* A file of a minute covers the times at which it is recorded, and none after it.
LEMMA CoversAMinute ==
    ASSUME NEW f \in Nat, NEW t \in Nat, Day(f) = Day(t), Hour(f) = Hour(t)
    PROVE  /\ f <= t /\ t < f + PerMinute => Covers(f, t)
           /\ Covers(f, t) => t < f + PerMinute
  <1> DEFINE qt == t \div PerMinute
             qf == f \div PerMinute
  <1>1. /\ t = PerMinute * qt + Second(t) /\ f = PerMinute * qf + Second(f)
        /\ {Second(t), Second(f)} \subseteq 0..(PerMinute - 1)
        /\ {qt, qf, Minute(t), Minute(f)} \subseteq Nat
        /\ qt - qf = Minute(t) - Minute(f)
    BY MinutesOfAnHour
  <1> HIDE DEF qt, qf
  <1>2. PerMinute \in Nat \ {0}
    BY Clock
  <1>3. PerMinute * qt \in Nat /\ PerMinute * qf \in Nat
    BY <1>1, <1>2
  <1>4. qt = qf + 1 => PerMinute * qt = PerMinute * qf + PerMinute
    BY <1>1, <1>2
  <1>5. qf < qt => PerMinute * qf + PerMinute <= PerMinute * qt
    BY <1>1, <1>2, MulLess
  <1>6. qt < qf => PerMinute * qt + PerMinute <= PerMinute * qf
    BY <1>1, <1>2, MulLess
  <1>7. qf + 1 < qt => PerMinute * qf + PerMinute + PerMinute <= PerMinute * qt
    <2>1. qf + 1 < qt => PerMinute * (qf + 1) + PerMinute <= PerMinute * qt
      BY <1>1, <1>2, MulLess
    <2>2. PerMinute * (qf + 1) = PerMinute * qf + PerMinute
      BY <1>1, <1>2
    <2> QED  BY <2>1, <2>2
  <1>8. ASSUME f <= t, t < f + PerMinute PROVE Covers(f, t)
    <2>1. qt = qf \/ (qt = qf + 1 /\ Second(t) < Second(f))
      BY <1>1, <1>2, <1>3, <1>4, <1>5, <1>6, <1>7, <1>8
    <2> QED  BY <2>1, <1>1 DEF Covers
  <1>9. ASSUME Covers(f, t) PROVE t < f + PerMinute
    <2>1. qt = qf \/ (qt <= qf + 1 /\ Second(t) < Second(f))
      BY <1>1, <1>9 DEF Covers
    <2> QED  BY <2>1, <1>1, <1>2, <1>3, <1>4, <1>6
  <1> QED  BY <1>8, <1>9

LEMMA PlaysHolds == Linked => PlaysTheMinuteAskedFor
  <1> DEFINE OfHour(t) == {f \in {Time(s) : s \in ToSet(day_list[Day(t)])} : Hour(f) = Hour(t)}
             Now(t) == {f \in OfHour(t) : f <= t /\ t < f + PerMinute}
  <1> SUFFICES ASSUME Linked, NEW t \in Times, Now(t) # {},
                      \A f, g \in OfHour(t) : f < g => f + PerMinute <= g
               PROVE  NameFor(t, FALSE) \in Now(t)
    BY DEF PlaysTheMinuteAskedFor
  <1> DEFINE hour == OfHour(t)
             now == Now(t)
  <1> DEFINE day == day_list[Day(t)]
             fit == {i \in DOMAIN day : Covers(Time(day[i]), t)}
  <1>1. t \in Nat /\ Day(t) \in Days /\ Times \subseteq Nat /\ PerMinute \in Nat \ {0}
    BY Bounds, Clock DEF Times, Days
  <1>2. /\ day \in Seq(Slots) /\ NewestFirst(day) /\ DOMAIN day = 1..Len(day) /\ Len(day) \in Nat
        /\ \A s \in ToSet(day) : Day(Time(s)) = Day(t) /\ Time(s) \in Times
    BY <1>1, ListedHolds DEF Linked, SlotsAreKept
  <1> HIDE DEF day
  <1>3. \A i \in DOMAIN day : Day(Time(day[i])) = Day(t) /\ Time(day[i]) \in Nat
    BY <1>1, <1>2 DEF ToSet
  <1>4. PICK f : f \in now
    OBVIOUS
  <1>5. f \in hour /\ f <= t /\ t < f + PerMinute
    BY <1>4
  <1>6. PICK k \in DOMAIN day : f = Time(day[k]) /\ Hour(f) = Hour(t)
    BY <1>5 DEF ToSet, day
  <1>7. f \in Nat /\ Day(f) = Day(t)
    BY <1>3, <1>6
  <1>8. k \in fit
    BY <1>1, <1>5, <1>6, <1>7, CoversAMinute
  <1>9. Max(fit) \in fit /\ \A y \in fit : y <= Max(fit)
    <2>1. fit \subseteq 0..Len(day)
      BY <1>2
    <2> QED  BY <2>1, <1>2, <1>8, LastOf
  <1>10. NameFor(t, FALSE) = Time(day[Max(fit)])
    BY <1>8 DEF NameFor, day
  <1> DEFINE g == Time(day[Max(fit)])
  <1>11. Max(fit) \in DOMAIN day /\ Covers(g, t)
    BY <1>9
  <1>12. g \in Nat /\ Day(g) = Day(t) /\ Hour(g) = Hour(t)
    BY <1>3, <1>11 DEF Covers
  <1>13. g <= f
    <2>1. k <= Max(fit)
      BY <1>8, <1>9
    <2>2. CASE k = Max(fit)
      BY <2>2, <1>6, <1>7
    <2>3. CASE k # Max(fit)
      <3>1. k < Max(fit)
        BY <2>1, <2>3, <1>2, <1>11
      <3>2. f >= g
        BY <3>1, <1>2, <1>6, <1>11 DEF NewestFirst
      <3> QED  BY <3>2, <1>7, <1>12
    <2> QED  BY <2>2, <2>3
  <1>14. g \in hour
    BY <1>11, <1>12 DEF ToSet, day
  <1> HIDE DEF g, fit
  <1>15. t < g + PerMinute
    BY <1>1, <1>11, <1>12, CoversAMinute
  <1>16. ~ g < f
    <2>1. g < f => g + PerMinute <= f
      BY <1>5, <1>14
    <2> QED  BY <2>1, <1>1, <1>5, <1>7, <1>12, <1>15
  <1>17. g = f
    BY <1>7, <1>12, <1>13, <1>16
  <1> QED  BY <1>4, <1>10, <1>17 DEF g

\* Places that go up and leave none out are the places themselves.
NoneSkipped(m, n, h) ==
    /\ m \in Nat /\ n \in Nat /\ h \in [1..m -> 1..n]
    /\ \A k \in 1..m : k <= h[k]
    /\ \A j, k \in 1..m : j < k => h[j] < h[k]
    /\ \A i \in 1..n : \E k \in 1..m : h[k] = i

LEMMA NoneLeftOut ==
    ASSUME NEW m, NEW n, NEW h, NoneSkipped(m, n, h)
    PROVE  \A k \in 1..m : h[k] = k
  <1> USE DEF NoneSkipped
  <1>1. ASSUME NEW k \in 1..m PROVE h[k] = k
    <2>1. k \in 1..n
      OBVIOUS
    <2>2. PICK j \in 1..m : h[j] = k
      BY <2>1
    <2>3. CASE j = k
      BY <2>2, <2>3
    <2>4. CASE j < k
      <3> DEFINE Bad == {x \in 1..m : x < h[x]}
      <3>1. k \in Bad
        BY <2>2, <2>4
      <3>2. Bad \subseteq Nat
        OBVIOUS
      <3> HIDE DEF Bad
      <3>3. PICK b \in Bad : \A x \in Bad : b <= x
        BY <3>1, <3>2, FirstOf
      <3>4. b \in 1..m /\ b < h[b] /\ b \in 1..n
        BY <3>3 DEF Bad
      <3>5. PICK c \in 1..m : h[c] = b
        BY <3>4
      <3>6. c < b
        BY <3>4, <3>5
      <3>7. c \in Bad
        BY <3>5, <3>6 DEF Bad
      <3> QED  BY <3>3, <3>6, <3>7, <3>4
    <2>5. CASE k < j
      BY <2>2, <2>5
    <2> QED  BY <2>3, <2>4, <2>5
  <1> QED  BY <1>1

\* A page shows the entries of its kinds that are at its places in the list, and
\* others of these kinds from behind them when it has room; it has none when every
\* entry is of its kinds.
Shows(list, p, n, size, kinds, at) ==
    /\ p \in Seq(Slots) /\ Len(p) <= size
    /\ at \in [1..Len(p) -> 1..Len(list)]
    /\ \A i \in 1..Len(p) : p[i] = list[at[i]] /\ Kind[Time(list[at[i]])] \in kinds
    /\ \A i, j \in 1..Len(p) : i < j => at[i] < at[j]
    /\ \A k \in 1..Len(list) :
         (n - 1) * size < k /\ k <= (n - 1) * size + size /\ Kind[Time(list[k])] \in kinds
         => \E i \in 1..Len(p) : at[i] = k
    /\ (\A k \in 1..Len(list) : Kind[Time(list[k])] \in kinds)
         => \A i \in 1..Len(p) : at[i] = (n - 1) * size + i

LEMMA ListBehind ==
    ASSUME NEW list \in Seq(Slots), NEW off \in Nat, off < Len(list)
    PROVE  LET behind == SubSeq(list, off + 1, Len(list))
           IN  /\ behind \in Seq(Slots) /\ Len(behind) = Len(list) - off
               /\ \A i \in 1..(Len(list) - off) : behind[i] = list[off + i]
  OBVIOUS

LEMMA PageShows ==
    ASSUME NEW list \in Seq(Slots), NEW n \in Nat \ {0}, NEW size \in Nat \ {0}, NEW kinds,
           (n - 1) * size < Len(list)
    PROVE  \E at : Shows(list, Page(list, n, size, kinds), n, size, kinds, at)
  <1> DEFINE off == (n - 1) * size
             behind == SubSeq(list, off + 1, Len(list))
             fit == {s \in ToSet(behind) : Kind[Time(s)] \in kinds}
             wanted == Only(behind, fit)
             m == Min({size, Len(wanted)})
             p == Page(list, n, size, kinds)
  <1>1. /\ Len(list) \in Nat /\ DOMAIN list = 1..Len(list)
        /\ off \in Nat /\ off < Len(list)
    <2>1. n - 1 \in Nat
      OBVIOUS
    <2> QED  BY <2>1
  <1>2. p = SubSeq(wanted, 1, m)
    BY DEF Page
  <1> HIDE DEF off, p
  <1>3. /\ behind \in Seq(Slots) /\ Len(behind) = Len(list) - off
        /\ \A i \in 1..(Len(list) - off) : behind[i] = list[off + i]
    BY <1>1, ListBehind
  <1> HIDE DEF behind
  <1>4. PICK h : Picked(Slots, behind, fit, wanted, h, Len(behind))
    BY <1>3, OnlyPicks
  <1> HIDE DEF wanted
  <1>5. /\ Len(wanted) \in Nat /\ wanted \in Seq(Slots)
        /\ h \in [1..Len(wanted) -> 1..(Len(list) - off)]
        /\ \A k \in 1..Len(wanted) : k <= h[k] /\ wanted[k] = behind[h[k]] /\ behind[h[k]] \in fit
        /\ \A j, k \in 1..Len(wanted) : j < k => h[j] < h[k]
        /\ \A i \in 1..(Len(list) - off) :
             behind[i] \in fit => \E k \in 1..Len(wanted) : h[k] = i
    BY <1>3, <1>4 DEF Picked
  <1>6. m \in Nat /\ m <= Len(wanted) /\ m <= size /\ (m = size \/ m = Len(wanted))
    <2>1. {size, Len(wanted)} \subseteq Nat /\ {size, Len(wanted)} # {}
      BY <1>5
    <2>2. m \in {size, Len(wanted)} /\ \A y \in {size, Len(wanted)} : m <= y
      BY <2>1, FirstOf
    <2> QED  BY <2>1, <2>2
  <1> HIDE DEF m
  <1> DEFINE at == [i \in 1..m |-> off + h[i]]
  <1>7. p \in Seq(Slots) /\ Len(p) = m /\ \A i \in 1..m : p[i] = wanted[i]
    BY <1>2, <1>5, <1>6
  <1>8. ASSUME NEW i \in 1..m
        PROVE  /\ i \in 1..Len(wanted) /\ h[i] \in 1..(Len(list) - off)
               /\ at[i] = off + h[i] /\ at[i] \in 1..Len(list)
               /\ p[i] = list[at[i]] /\ list[at[i]] \in fit
    <2>1. i \in 1..Len(wanted)
      BY <1>5, <1>6
    <2>2. h[i] \in 1..(Len(list) - off) /\ wanted[i] = behind[h[i]] /\ behind[h[i]] \in fit
      BY <2>1, <1>5
    <2>3. behind[h[i]] = list[off + h[i]] /\ off + h[i] \in 1..Len(list)
      BY <2>2, <1>1, <1>3
    <2> QED  BY <2>1, <2>2, <2>3, <1>7
  <1>9. ASSUME NEW i \in 1..m, NEW j \in 1..m, i < j PROVE at[i] < at[j]
    <2>1. h[i] < h[j]
      BY <1>5, <1>8, <1>9
    <2> QED  BY <2>1, <1>1, <1>8
  <1>10. ASSUME NEW k \in 1..Len(list), off < k, k <= off + size, Kind[Time(list[k])] \in kinds
         PROVE  \E i \in 1..m : at[i] = k
    <2>1. k - off \in 1..(Len(list) - off) /\ behind[k - off] = list[k]
      BY <1>1, <1>3, <1>10
    <2>2. behind[k - off] \in fit
      BY <2>1, <1>3, <1>10 DEF ToSet
    <2>3. PICK i \in 1..Len(wanted) : h[i] = k - off
      BY <2>1, <2>2, <1>5
    <2>4. i <= size
      BY <2>3, <1>1, <1>5, <1>10
    <2>5. i \in 1..m
      BY <2>3, <2>4, <1>5, <1>6
    <2>6. at[i] = k
      BY <2>3, <2>5, <1>1
    <2> QED  BY <2>5, <2>6
  <1>11. ASSUME \A k \in 1..Len(list) : Kind[Time(list[k])] \in kinds
         PROVE  \A i \in 1..m : at[i] = off + i
    <2>1. \A i \in 1..(Len(list) - off) : behind[i] \in fit
      <3>1. ASSUME NEW i \in 1..(Len(list) - off) PROVE behind[i] \in fit
        <4>1. off + i \in 1..Len(list) /\ behind[i] = list[off + i] /\ behind[i] \in ToSet(behind)
          BY <1>1, <1>3 DEF ToSet
        <4> QED  BY <4>1, <1>11
      <3> QED  BY <3>1
    <2>2. Len(list) - off \in Nat
      BY <1>1
    <2> DEFINE w == Len(wanted)
               b == Len(list) - off
    <2>3. \A i \in 1..b : \E k \in 1..w : h[k] = i
      BY <1>5, <2>1
    <2>4. /\ w \in Nat /\ b \in Nat /\ h \in [1..w -> 1..b]
          /\ \A k \in 1..w : k <= h[k]
          /\ \A j, k \in 1..w : j < k => h[j] < h[k]
      BY <1>5, <2>2
    <2> HIDE DEF fit, w, b
    <2>5. NoneSkipped(w, b, h)
      BY <2>3, <2>4 DEF NoneSkipped
    <2>6. \A k \in 1..w : h[k] = k
      BY <2>5, NoneLeftOut
    <2>7. \A k \in 1..Len(wanted) : h[k] = k
      BY <2>6 DEF w
    <2> QED  BY <2>7, <1>8
  <1>12. \A i \in 1..m : Kind[Time(list[at[i]])] \in kinds
    BY <1>8
  <1> HIDE DEF fit
  <1>13. at \in [1..m -> 1..Len(list)] /\ \A i \in 1..m : p[i] = list[at[i]]
    BY <1>8
  <1> HIDE DEF at
  <1>14. Shows(list, p, n, size, kinds, at)
    BY <1>6, <1>7, <1>9, <1>10, <1>11, <1>12, <1>13 DEF Shows, off
  <1> QED  BY <1>14 DEF p

\* As many pages as the count of the day calls for end behind its last file.
LEMMA NumbersFit ==
    ASSUME NEW len \in Nat, NEW size \in Nat \ {0}
    PROVE  LET numbers == PageNumbers(len, size)
           IN  /\ \A n \in numbers : n \in Nat \ {0} /\ (n - 1) * size < len
               /\ \A k \in 1..len :
                    \E n \in numbers : (n - 1) * size < k /\ k <= (n - 1) * size + size
  <1> DEFINE a == len + size - 1
             q == a \div size
             r == a % size
  <1>1. a \in Nat /\ q \in Nat /\ r \in Nat /\ r < size /\ a = size * q + r
    <2>1. a \in Nat
      OBVIOUS
    <2> QED  BY <2>1, DivMod
  <1>2. a = len + size - 1
    OBVIOUS
  <1> HIDE DEF a, q, r
  <1>3. ASSUME NEW n \in 1..q PROVE n \in Nat \ {0} /\ (n - 1) * size < len
    <2>1. n \in Nat \ {0} /\ n - 1 \in Nat /\ n - 1 < q
      BY <1>1
    <2>2. size * (n - 1) + size <= size * q
      BY <1>1, <2>1, MulLess
    <2>3. size * q \in Nat /\ size * (n - 1) \in Nat /\ (n - 1) * size = size * (n - 1)
      BY <1>1, <2>1
    <2> QED  BY <1>1, <1>2, <2>1, <2>2, <2>3
  <1>4. ASSUME NEW k \in 1..len
        PROVE  \E n \in 1..q : (n - 1) * size < k /\ k <= (n - 1) * size + size
    <2> DEFINE p == (k - 1) \div size
               x == (k - 1) % size
    <2>1. p \in Nat /\ x \in Nat /\ x < size /\ k - 1 = size * p + x
      <3>1. k - 1 \in Nat
        OBVIOUS
      <3> QED  BY <3>1, DivMod
    <2> HIDE DEF p, x
    <2>2. size * p \in Nat /\ size * q \in Nat /\ (p + 1 - 1) * size = size * p
      BY <1>1, <2>1
    <2>3. ~ p >= q
      <3>1. q < p => size * q + size <= size * p
        BY <1>1, <2>1, MulLess
      <3>2. size * p < len
        BY <2>1, <2>2
      <3>3. size * q + size > len + size - 1
        BY <1>1, <1>2, <2>2
      <3>4. q = p => size * q = size * p
        OBVIOUS
      <3> QED  BY <1>1, <2>1, <2>2, <3>1, <3>2, <3>3, <3>4
    <2> DEFINE n == p + 1
               before == (n - 1) * size
    <2>4. n \in 1..q
      BY <1>1, <2>1, <2>3
    <2>5. before \in Nat /\ k - 1 = before + x
      BY <2>1, <2>2
    <2> HIDE DEF n, before
    <2>6. before < k /\ k <= before + size
      BY <2>1, <2>5
    <2>7. (n - 1) * size < k /\ k <= (n - 1) * size + size
      BY <2>6 DEF before
    <2> QED  BY <2>4, <2>7
  <1> QED  BY <1>3, <1>4 DEF a, q, PageNumbers

\* A list without repetition that goes on in some order.
Ordered(list, order) ==
    /\ list \in Seq(Slots) /\ IsInjective(list)
    /\ \A i, j \in 1..Len(list) : i < j => order[list[i]] <= order[list[j]]

\* The pages of a list of files, in whatever order, when the count is its length.
LEMMA PagesOfList ==
    ASSUME NEW list, NEW order, Ordered(list, order), NEW size \in Nat \ {0},
           \A s \in ToSet(list) : Time(s) \in Times
    PROVE  /\ ShownInTurn(list, Len(list), size, order)
           /\ \A kinds : ShownSomewhere(list, Len(list), size, kinds)
  <1> DEFINE numbers == PageNumbers(Len(list), size)
  <1>1. /\ list \in Seq(Slots) /\ Len(list) \in Nat /\ DOMAIN list = 1..Len(list)
        /\ \A i, j \in 1..Len(list) : i < j => list[i] # list[j] /\ order[list[i]] <= order[list[j]]
    BY DEF Ordered, IsInjective
  <1>2. ASSUME NEW n \in numbers PROVE n \in Nat \ {0} /\ (n - 1) * size < Len(list)
    BY <1>1, NumbersFit
  <1>3. ASSUME NEW k \in 1..Len(list)
        PROVE  \E n \in numbers : (n - 1) * size < k /\ k <= (n - 1) * size + size
    BY <1>1, NumbersFit
  <1>4. ASSUME NEW kinds, NEW n \in numbers
        PROVE  \E at : Shows(list, Page(list, n, size, kinds), n, size, kinds, at)
    BY <1>1, <1>2, PageShows
  <1> HIDE DEF numbers
  <1>5. ASSUME NEW kinds
        PROVE  UNION {ToSet(Page(list, n, size, kinds)) : n \in numbers} =
                   {s \in ToSet(list) : Kind[Time(s)] \in kinds}
    <2> DEFINE P(n) == Page(list, n, size, kinds)
    <2>1. ASSUME NEW n \in numbers PROVE \E at : Shows(list, P(n), n, size, kinds, at)
      BY <1>4
    <2> HIDE DEF P
    <2>2. ASSUME NEW n \in numbers, NEW s \in ToSet(P(n))
          PROVE  s \in ToSet(list) /\ Kind[Time(s)] \in kinds
      <3>1. PICK at : Shows(list, P(n), n, size, kinds, at)
        BY <2>1
      <3>2. P(n) \in Seq(Slots) /\ DOMAIN P(n) = 1..Len(P(n))
        BY <3>1 DEF Shows
      <3>3. PICK i \in 1..Len(P(n)) : s = P(n)[i]
        BY <3>2 DEF ToSet
      <3>4. at[i] \in 1..Len(list) /\ s = list[at[i]] /\ Kind[Time(list[at[i]])] \in kinds
        BY <3>1, <3>3 DEF Shows
      <3> QED  BY <3>4, <1>1 DEF ToSet
    <2>3. ASSUME NEW s \in ToSet(list), Kind[Time(s)] \in kinds
          PROVE  \E n \in numbers : s \in ToSet(P(n))
      <3>1. PICK k \in 1..Len(list) : s = list[k]
        BY <1>1 DEF ToSet
      <3>2. PICK n \in numbers : (n - 1) * size < k /\ k <= (n - 1) * size + size
        BY <1>3
      <3>3. PICK at : Shows(list, P(n), n, size, kinds, at)
        BY <2>1
      <3>4. PICK i \in 1..Len(P(n)) : at[i] = k
        BY <2>3, <3>1, <3>2, <3>3 DEF Shows
      <3>5. P(n)[i] = s /\ P(n) \in Seq(Slots) /\ DOMAIN P(n) = 1..Len(P(n))
        BY <3>1, <3>3, <3>4 DEF Shows
      <3> QED  BY <3>4, <3>5 DEF ToSet
    <2>4. UNION {ToSet(P(n)) : n \in numbers} = {s \in ToSet(list) : Kind[Time(s)] \in kinds}
      BY <2>2, <2>3
    <2> QED  BY <2>4 DEF P
  <1>6. \A k \in 1..Len(list) : Kind[Time(list[k])] \in Kinds
    BY <1>1 DEF Kinds, ToSet
  <1>7. UNION {ToSet(Page(list, n, size, Kinds)) : n \in numbers} = ToSet(list)
    <2>1. \A s \in ToSet(list) : Kind[Time(s)] \in Kinds
      BY DEF Kinds
    <2> QED  BY <2>1, <1>5
  <1>8. ASSUME NEW m \in numbers, NEW n \in numbers, m <= n
        PROVE  LET p == Page(list, m, size, Kinds)
                   q == Page(list, n, size, Kinds)
               IN  /\ Len(p) <= size
                   /\ \A i \in DOMAIN p, j \in DOMAIN q :
                        m < n \/ i < j => p[i] # q[j] /\ order[p[i]] <= order[q[j]]
    <2> DEFINE p == Page(list, m, size, Kinds)
               q == Page(list, n, size, Kinds)
    <2>1. PICK at : Shows(list, p, m, size, Kinds, at)
      BY <1>4
    <2>2. PICK to : Shows(list, q, n, size, Kinds, to)
      BY <1>4
    <2> HIDE DEF p, q
    <2>3. /\ p \in Seq(Slots) /\ DOMAIN p = 1..Len(p) /\ Len(p) \in Nat /\ Len(p) <= size
          /\ \A i \in 1..Len(p) : /\ p[i] = list[at[i]] /\ at[i] \in 1..Len(list)
                                 /\ at[i] = (m - 1) * size + i
      BY <2>1, <1>6 DEF Shows
    <2>4. /\ q \in Seq(Slots) /\ DOMAIN q = 1..Len(q) /\ Len(q) \in Nat
          /\ \A i \in 1..Len(q) : /\ q[i] = list[to[i]] /\ to[i] \in 1..Len(list)
                                 /\ to[i] = (n - 1) * size + i
      BY <2>2, <1>6 DEF Shows
    <2> DEFINE x == (m - 1) * size
               y == (n - 1) * size
    <2>5. x \in Nat /\ y \in Nat /\ (m = n => x = y) /\ (m < n => x + size <= y)
      <3>1. m - 1 \in Nat /\ n - 1 \in Nat
        BY <1>2
      <3>2. m < n => size * (m - 1) + size <= size * (n - 1)
        <4>1. m < n => m - 1 < n - 1
          BY <1>2
        <4> QED  BY <3>1, <4>1, MulLess
      <3>3. size * (m - 1) = x /\ size * (n - 1) = y /\ x \in Nat /\ y \in Nat
        BY <3>1
      <3> HIDE DEF x, y
      <3>4. m = n => x = y
        BY DEF x, y
      <3> QED  BY <3>2, <3>3, <3>4
    <2>6. /\ \A i \in 1..Len(p) : at[i] = x + i
          /\ \A i \in 1..Len(q) : to[i] = y + i
      BY <2>3, <2>4
    <2> HIDE DEF x, y
    <2>7. ASSUME NEW i \in 1..Len(p), NEW j \in 1..Len(q), m < n \/ i < j
          PROVE  p[i] # q[j] /\ order[p[i]] <= order[q[j]]
      <3>1. at[i] < to[j]
        <4>1. m \in Nat /\ n \in Nat
          BY <1>2
        <4>2. i <= size /\ i \in Nat /\ j \in Nat /\ 1 <= j
          BY <2>3, <2>4
        <4>3. at[i] = x + i /\ to[j] = y + j
          BY <2>6
        <4>4. m = n \/ m < n
          BY <4>1, <1>8
        <4> QED  BY <4>2, <4>3, <4>4, <2>5, <2>7
      <3>2. p[i] = list[at[i]] /\ at[i] \in 1..Len(list) /\ q[j] = list[to[j]] /\ to[j] \in 1..Len(list)
        BY <2>3, <2>4
      <3> QED  BY <3>1, <3>2, <1>1
    <2>8. /\ Len(p) <= size
          /\ \A i \in DOMAIN p, j \in DOMAIN q :
               m < n \/ i < j => p[i] # q[j] /\ order[p[i]] <= order[q[j]]
      BY <2>3, <2>4, <2>7
    <2> QED  BY <2>8 DEF p, q
  <1>9. ShownInTurn(list, Len(list), size, order)
    BY <1>7, <1>8 DEF ShownInTurn, numbers
  <1>10. \A kinds : ShownSomewhere(list, Len(list), size, kinds)
    BY <1>5 DEF ShownSomewhere, numbers
  <1> QED  BY <1>9, <1>10

LEMMA ReverseOrdered ==
    ASSUME NEW list, NEW one, NEW other, Ordered(list, one),
           \A s, t \in ToSet(list) : one[s] <= one[t] => other[t] <= other[s]
    PROVE  /\ Ordered(Reverse(list), other) /\ Len(Reverse(list)) = Len(list)
           /\ ToSet(Reverse(list)) = ToSet(list)
  <1> DEFINE n == Len(list)
             r == Reverse(list)
  <1>1. /\ list \in Seq(Slots) /\ n \in Nat /\ DOMAIN list = 1..n
        /\ \A i, j \in 1..n : i < j => list[i] # list[j] /\ one[list[i]] <= one[list[j]]
        /\ \A i \in 1..n : list[i] \in ToSet(list) /\ list[i] \in Slots
    BY DEF Ordered, IsInjective, ToSet
  <1>2. r = [i \in 1..n |-> list[(n - i) + 1]]
    BY DEF Reverse
  <1> HIDE DEF n, r
  <1>3. \A i \in 1..n : (n - i) + 1 \in 1..n
    BY <1>1
  <1>4. r \in Seq(Slots) /\ Len(r) = n /\ DOMAIN r = 1..n
    BY <1>1, <1>2, <1>3
  <1>5. ASSUME NEW i \in 1..n, NEW j \in 1..n, i < j
        PROVE  r[i] # r[j] /\ other[r[i]] <= other[r[j]]
    <2>1. (n - j) + 1 < (n - i) + 1 /\ (n - j) + 1 \in 1..n /\ (n - i) + 1 \in 1..n
      BY <1>1, <1>5
    <2>2. r[i] = list[(n - i) + 1] /\ r[j] = list[(n - j) + 1]
      BY <1>2
    <2> QED  BY <2>1, <2>2, <1>1
  <1>6. IsInjective(r)
    <2>1. ASSUME NEW i \in 1..n, NEW j \in 1..n, r[i] = r[j] PROVE i = j
      <3>1. ~ i < j /\ ~ j < i
        BY <1>5, <2>1
      <3> QED  BY <3>1, <1>1
    <2> QED  BY <2>1, <1>4 DEF IsInjective
  <1>7. ToSet(r) = ToSet(list)
    <2>1. ToSet(r) \subseteq ToSet(list)
      BY <1>2, <1>3, <1>4, <1>1 DEF ToSet
    <2>2. ASSUME NEW i \in 1..n PROVE list[i] \in ToSet(r)
      <3>1. (n - i) + 1 \in 1..n /\ (n - ((n - i) + 1)) + 1 = i
        BY <1>1
      <3>2. r[(n - i) + 1] = list[i]
        BY <3>1, <1>2
      <3> QED  BY <3>1, <3>2, <1>4 DEF ToSet
    <2> QED  BY <2>1, <2>2, <1>1 DEF ToSet
  <1>8. Ordered(r, other)
    BY <1>4, <1>5, <1>6 DEF Ordered
  <1> QED  BY <1>4, <1>7, <1>8 DEF n, r

LEMMA ConcatOrdered ==
    ASSUME NEW x, NEW y, NEW order, Ordered(x, order), Ordered(y, order),
           \A s \in ToSet(x), t \in ToSet(y) : s # t /\ order[s] <= order[t]
    PROVE  Ordered(x \o y, order) /\ ToSet(x \o y) = ToSet(x) \cup ToSet(y)
  <1> DEFINE r == x \o y
  <1>1. /\ x \in Seq(Slots) /\ Len(x) \in Nat /\ DOMAIN x = 1..Len(x)
        /\ \A i, j \in 1..Len(x) : i < j => x[i] # x[j] /\ order[x[i]] <= order[x[j]]
        /\ \A i \in 1..Len(x) : x[i] \in ToSet(x)
    BY DEF Ordered, IsInjective, ToSet
  <1>2. /\ y \in Seq(Slots) /\ Len(y) \in Nat /\ DOMAIN y = 1..Len(y)
        /\ \A i, j \in 1..Len(y) : i < j => y[i] # y[j] /\ order[y[i]] <= order[y[j]]
        /\ \A i \in 1..Len(y) : y[i] \in ToSet(y)
    BY DEF Ordered, IsInjective, ToSet
  <1>3. /\ r \in Seq(Slots) /\ Len(r) = Len(x) + Len(y) /\ DOMAIN r = 1..Len(r)
        /\ \A i \in 1..Len(r) : r[i] = IF i <= Len(x) THEN x[i] ELSE y[i - Len(x)]
    BY <1>1, <1>2
  <1> HIDE DEF r
  <1>4. ASSUME NEW i \in 1..Len(r), NEW j \in 1..Len(r), i < j
        PROVE  r[i] # r[j] /\ order[r[i]] <= order[r[j]]
    <2>1. CASE j <= Len(x)
      BY <2>1, <1>1, <1>3, <1>4
    <2>2. CASE i <= Len(x) /\ Len(x) < j
      <3>1. i \in 1..Len(x) /\ j - Len(x) \in 1..Len(y) /\ r[i] = x[i] /\ r[j] = y[j - Len(x)]
        BY <2>2, <1>1, <1>2, <1>3
      <3> QED  BY <3>1, <1>1, <1>2
    <2>3. CASE Len(x) < i
      <3>1. /\ i - Len(x) \in 1..Len(y) /\ j - Len(x) \in 1..Len(y) /\ i - Len(x) < j - Len(x)
            /\ r[i] = y[i - Len(x)] /\ r[j] = y[j - Len(x)]
        BY <2>3, <1>1, <1>2, <1>3, <1>4
      <3> QED  BY <3>1, <1>2
    <2> QED  BY <2>1, <2>2, <2>3, <1>1, <1>3
  <1>5. IsInjective(r)
    <2>1. ASSUME NEW i \in 1..Len(r), NEW j \in 1..Len(r), r[i] = r[j] PROVE i = j
      <3>1. ~ i < j /\ ~ j < i
        BY <1>4, <2>1
      <3> QED  BY <3>1
    <2> QED  BY <2>1, <1>3 DEF IsInjective
  <1>6. ToSet(r) = ToSet(x) \cup ToSet(y)
    <2>1. \A i \in 1..Len(r) : r[i] \in ToSet(x) \cup ToSet(y)
      BY <1>1, <1>2, <1>3
    <2>2. \A i \in 1..Len(x) : i \in 1..Len(r) /\ r[i] = x[i]
      BY <1>1, <1>2, <1>3
    <2>3. \A i \in 1..Len(y) : i + Len(x) \in 1..Len(r) /\ r[i + Len(x)] = y[i]
      BY <1>1, <1>2, <1>3
    <2>4. ToSet(r) \subseteq ToSet(x) \cup ToSet(y)
      BY <2>1, <1>3 DEF ToSet
    <2>5. ToSet(x) \subseteq ToSet(r)
      BY <2>2, <1>1, <1>3 DEF ToSet
    <2>6. ToSet(y) \subseteq ToSet(r)
      BY <2>3, <1>2, <1>3 DEF ToSet
    <2> QED  BY <2>4, <2>5, <2>6
  <1>7. Ordered(r, order)
    BY <1>3, <1>4, <1>5 DEF Ordered
  <1> QED  BY <1>6, <1>7 DEF r

\* Joining days in turn is well defined.
Joined(f, len, day, oldest) ==
    f = [n \in 0..len |->
            IF n = 0 THEN <<>>
            ELSE IF oldest THEN f[n - 1] \o day[n - 1] ELSE day[n - 1] \o f[n - 1]]

LEMMA DayAfterDay ==
    ASSUME NEW len \in Nat, NEW day, NEW oldest
    PROVE  \E f : Joined(f, len, day, oldest)
  <1> DEFINE Then(x, n) == IF oldest THEN x \o day[n - 1] ELSE day[n - 1] \o x
             Kept(k, f) == f = [n \in 0..k |-> IF n = 0 THEN <<>> ELSE Then(f[n - 1], n)]
             Bad == {n \in Nat : ~ \E f : Kept(n, f)}
  <1>1. SUFFICES ASSUME Bad # {} PROVE FALSE
    <2>1. \E f : Kept(len, f)
      BY <1>1
    <2> QED  BY <2>1 DEF Joined
  <1> HIDE DEF Then
  <1>2. Min(Bad) \in Bad /\ \A y \in Bad : Min(Bad) <= y
    BY <1>1, FirstOf
  <1> DEFINE n == Min(Bad)
  <1>3. n \in Nat /\ ~ \E f : Kept(n, f)
    BY <1>2
  <1>4. n # 0
    <2>1. Kept(0, [i \in 0..0 |-> <<>>])
      OBVIOUS
    <2> QED  BY <2>1, <1>3
  <1>5. PICK f : Kept(n - 1, f)
    <2>1. n - 1 \in Nat /\ ~ n <= n - 1
      BY <1>3, <1>4
    <2>2. n - 1 \notin Bad
      BY <2>1, <1>2
    <2> QED  BY <2>1, <2>2
  <1> HIDE DEF n
  <1> DEFINE g == [i \in 0..n |-> IF i < n THEN f[i] ELSE Then(f[i - 1], i)]
  <1>6. ASSUME NEW i \in 0..n PROVE g[i] = IF i = 0 THEN <<>> ELSE Then(g[i - 1], i)
    <2>1. CASE i = n
      <3>1. i - 1 \in 0..n /\ i - 1 < n
        BY <2>1, <1>3, <1>4
      <3>2. g[i - 1] = f[i - 1]
        BY <3>1
      <3> QED  BY <2>1, <3>2, <1>3, <1>4
    <2>2. CASE i # n /\ i # 0
      <3>1. i \in 0..(n - 1) /\ i - 1 \in 0..n /\ i - 1 < n /\ i < n
        BY <2>2, <1>3
      <3>2. g[i - 1] = f[i - 1] /\ g[i] = f[i]
        BY <3>1
      <3>3. f[i] = IF i = 0 THEN <<>> ELSE Then(f[i - 1], i)
        BY <3>1, <1>5
      <3> QED  BY <3>2, <3>3
    <2>3. CASE i # n /\ i = 0
      <3>1. i \in 0..(n - 1) /\ i < n
        BY <2>3, <1>3
      <3>2. g[i] = f[i]
        BY <3>1
      <3> QED  BY <2>3, <3>1, <3>2, <1>5
    <2> QED  BY <2>1, <2>2, <2>3
  <1>7. Kept(n, g)
    <2> DEFINE G == [i \in 0..n |-> IF i = 0 THEN <<>> ELSE Then(g[i - 1], i)]
    <2>1. g = [i \in 0..n |-> g[i]]
      OBVIOUS
    <2> HIDE DEF g
    <2>2. [i \in 0..n |-> g[i]] = G
      BY <1>6
    <2> QED  BY <2>1, <2>2
  <1> QED  BY <1>3, <1>7

\* The days are numbered from 0 on, and a later day has later times.
LEMMA DaysInTurn ==
    /\ Day(LastTime) \in Nat /\ Days = 0..Day(LastTime)
    /\ \A f, t \in Times : f <= t => Day(f) <= Day(t)
  <1> DEFINE len == PerMinute * PerHour * PerDay
  <1>1. len \in Nat \ {0} /\ LastTime \in Nat
    BY Clock, Bounds
  <1>2. \A t : Day(t) = t \div len
    BY DEF Day
  <1> HIDE DEF len
  <1>3. ASSUME NEW t \in Nat PROVE Day(t) \in Nat /\ len * Day(t) <= t /\ t < len * Day(t) + len
    <2>1. Day(t) \in Nat /\ t % len \in Nat /\ t % len < len /\ t = len * Day(t) + (t % len)
      BY <1>1, <1>2, DivMod
    <2>2. len * Day(t) \in Nat
      BY <1>1, <2>1
    <2> QED  BY <1>1, <2>1, <2>2
  <1>4. ASSUME NEW f \in Nat, NEW t \in Nat, f <= t PROVE Day(f) <= Day(t)
    <2>1. Day(t) < Day(f) => len * Day(t) + len <= len * Day(f)
      BY <1>1, <1>3, MulLess
    <2>2. len * Day(t) \in Nat /\ len * Day(f) \in Nat
      BY <1>1, <1>3
    <2> QED  BY <2>1, <2>2, <1>1, <1>3, <1>4
  <1>5. \A t \in Times : t \in Nat /\ t <= LastTime
    BY <1>1 DEF Times
  <1>6. Days \subseteq 0..Day(LastTime)
    BY <1>1, <1>3, <1>4, <1>5 DEF Days
  <1>7. ASSUME NEW d \in 0..Day(LastTime) PROVE d \in Days
    <2>1. d \in Nat /\ Day(LastTime) \in Nat /\ d <= Day(LastTime)
      BY <1>1, <1>3
    <2>2. len * d <= len * Day(LastTime) /\ len * d \in Nat /\ len * Day(LastTime) \in Nat
      <3>1. d < Day(LastTime) => len * d + len <= len * Day(LastTime)
        BY <1>1, <2>1, MulLess
      <3>2. len * d \in Nat /\ len * Day(LastTime) \in Nat
        BY <1>1, <2>1
      <3>3. d = Day(LastTime) => len * d = len * Day(LastTime)
        OBVIOUS
      <3> QED  BY <1>1, <2>1, <3>1, <3>2, <3>3
    <2>3. len * d \in Times
      BY <1>1, <1>3, <2>2 DEF Times
    <2>4. Day(len * d) = d
      <3>1. len * d = len * d + 0
        BY <2>2
      <3> QED  BY <3>1, <1>1, <1>2, <2>1, <2>2, DivIs
    <2> QED  BY <2>3, <2>4 DEF Days
  <1> QED  BY <1>1, <1>3, <1>4, <1>5, <1>6, <1>7

\* What a phone goes through is in order: a day ...
LEMMA DayInOrder ==
    ASSUME Linked, NEW d \in Days
    PROVE  /\ Ordered(OfDay(d, FALSE), NewestFile) /\ Ordered(OfDay(d, TRUE), OldestFile)
           /\ \A oldest \in BOOLEAN : /\ ToSet(OfDay(d, oldest)) = ToSet(day_list[d])
                                      /\ Len(OfDay(d, oldest)) = day_cnt[d]
  <1> DEFINE list == day_list[d]
  <1>1. /\ list \in Seq(Slots) /\ Len(list) \in Nat /\ DOMAIN list = 1..Len(list)
        /\ day_cnt[d] = Len(list) /\ NewestFirst(list) /\ IsInjective(list)
    BY DEF Linked, SlotsAreKept
  <1>2. \A s \in Slots : Time(s) \in Int
    BY ListedHolds
  <1> HIDE DEF list
  <1>3. ToSet(list) \subseteq Slots
    BY <1>1 DEF ToSet
  <1>4. /\ \A s \in Slots : NewestFile[s] = -Time(s) /\ OldestFile[s] = Time(s)
        /\ \A s, t \in Slots : NewestFile[s] <= NewestFile[t] <=> OldestFile[t] <= OldestFile[s]
    BY <1>2 DEF NewestFile, OldestFile
  <1>5. Ordered(list, NewestFile)
    <2>1. ASSUME NEW i \in 1..Len(list), NEW j \in 1..Len(list), i < j
          PROVE  NewestFile[list[i]] <= NewestFile[list[j]]
      <3>1. Time(list[i]) >= Time(list[j]) /\ list[i] \in Slots /\ list[j] \in Slots
        BY <2>1, <1>1 DEF NewestFirst
      <3> QED  BY <3>1, <1>2, <1>4
    <2> QED  BY <2>1, <1>1 DEF Ordered
  <1>6. \A s, t \in ToSet(list) : NewestFile[s] <= NewestFile[t] => OldestFile[t] <= OldestFile[s]
    BY <1>3, <1>4
  <1>7. /\ Ordered(Reverse(list), OldestFile) /\ Len(Reverse(list)) = Len(list)
        /\ ToSet(Reverse(list)) = ToSet(list)
    BY <1>5, <1>6, ReverseOrdered
  <1> QED  BY <1>1, <1>5, <1>7 DEF OfDay, list

\* ... and all days.
LEMMA AllDaysInOrder ==
    ASSUME Linked, NEW oldest \in BOOLEAN
    PROVE  /\ Ordered(OfAllDays(oldest), IF oldest THEN OldestDay ELSE NewestFile)
           /\ ToSet(OfAllDays(oldest)) = Listed /\ Len(OfAllDays(oldest)) = total
  <1> DEFINE last_day == Day(LastTime)
             len == last_day + 1
             Body(f) == [n \in 0..len |->
                 IF n = 0 THEN <<>>
                 ELSE IF oldest THEN f[n - 1] \o day_list[n - 1] ELSE day_list[n - 1] \o f[n - 1]]
             of == CHOOSE f : f = Body(f)
             order == IF oldest THEN OldestDay ELSE NewestFile
  <1>1. len \in Nat /\ len = last_day + 1 /\ last_day \in Nat /\ Days = 0..last_day
    BY DaysInTurn
  <1> HIDE DEF len, last_day
  <1>2. of = Body(of)
    <2>1. PICK f : Joined(f, len, day_list, oldest)
      BY <1>1, DayAfterDay
    <2>2. f = Body(f)
      BY <2>1 DEF Joined
    <2> QED  BY <2>2
  <1>3. OfAllDays(oldest) = of[len]
    BY DEF OfAllDays, len, last_day
  <1>4. /\ of[0] = <<>>
        /\ \A n \in 1..len : of[n] = IF oldest THEN of[n - 1] \o day_list[n - 1]
                                     ELSE day_list[n - 1] \o of[n - 1]
    <2> HIDE DEF of
    <2>1. \A n \in 0..len : of[n] = IF n = 0 THEN <<>>
                 ELSE IF oldest THEN of[n - 1] \o day_list[n - 1] ELSE day_list[n - 1] \o of[n - 1]
      BY <1>2
    <2> QED  BY <1>1, <2>1
  <1> HIDE DEF of
  <1>5. ASSUME NEW d \in Days
        PROVE  /\ ToSet(day_list[d]) \subseteq Slots
               /\ \A s \in ToSet(day_list[d]) : Time(s) \in Times /\ Day(Time(s)) = d
    <2>1. \A s \in ToSet(day_list[d]) : Day(Time(s)) = d
      BY DEF Linked, SlotsAreKept
    <2> QED  BY <2>1, ListedHolds
  <1>6. ASSUME NEW d \in Days, NEW e \in Days, d < e,
               NEW s \in ToSet(day_list[d]), NEW t \in ToSet(day_list[e])
        PROVE  s # t /\ OldestDay[s] <= OldestDay[t] /\ NewestFile[t] <= NewestFile[s]
    <2>1. /\ s \in Slots /\ t \in Slots /\ Time(s) \in Times /\ Time(t) \in Times
          /\ Day(Time(s)) = d /\ Day(Time(t)) = e
      BY <1>5
    <2>2. s # t /\ OldestDay[s] <= OldestDay[t]
      BY <1>1, <1>6, <2>1 DEF OldestDay
    <2>3. Time(s) \in Int /\ Time(t) \in Int /\ d \in Int /\ e \in Int
      BY <1>1, <2>1, Bounds DEF Times
    <2>4. ~ Time(t) <= Time(s)
      BY <1>6, <2>1, <2>3, DaysInTurn
    <2>5. NewestFile[s] = -Time(s) /\ NewestFile[t] = -Time(t)
      BY <2>1 DEF NewestFile
    <2> QED  BY <2>2, <2>3, <2>4, <2>5
  <1>7. ASSUME NEW d \in Days PROVE Ordered(day_list[d], order)
    <2>1. Ordered(day_list[d], NewestFile)
      BY DayInOrder DEF OfDay
    <2>2. CASE oldest
      <3>1. \A s \in ToSet(day_list[d]) : OldestDay[s] = d
        BY <1>5 DEF OldestDay
      <3>2. /\ day_list[d] \in Seq(Slots) /\ IsInjective(day_list[d])
            /\ DOMAIN day_list[d] = 1..Len(day_list[d])
        BY <2>1 DEF Ordered
      <3>3. \A i \in 1..Len(day_list[d]) : OldestDay[day_list[d][i]] = d
        BY <3>1, <3>2 DEF ToSet
      <3>4. d <= d
        BY <1>1
      <3>5. Ordered(day_list[d], OldestDay)
        BY <3>2, <3>3, <3>4 DEF Ordered
      <3> QED  BY <2>2, <3>5
    <2> QED  BY <2>1, <2>2
  <1> DEFINE First(n) == UNION {ToSet(day_list[d]) : d \in {d \in Days : d < n}}
             Good(n) == Ordered(of[n], order) /\ ToSet(of[n]) = First(n)
             Bad == {n \in 0..len : ~ Good(n)}
  <1>8. Good(len)
    <2>1. SUFFICES ASSUME Bad # {} PROVE FALSE
      <3>1. len \in 0..len
        BY <1>1
      <3> QED  BY <2>1, <3>1
    <2>2. PICK n \in Bad : \A y \in Bad : n <= y
      <3>1. Bad \subseteq Nat
        BY <1>1
      <3> HIDE DEF Bad
      <3> QED  BY <3>1, <2>1, FirstOf
    <2>3. n # 0
      <3>1. Ordered(<<>>, order)
        <4>1. <<>> \in Seq(Slots) /\ Len(<<>>) = 0 /\ DOMAIN <<>> = {}
          OBVIOUS
        <4> QED  BY <4>1 DEF Ordered, IsInjective
      <3>2. ToSet(<<>>) = {} /\ First(0) = {}
        <4>1. \A d \in Days : ~ d < 0
          BY <1>1
        <4> QED  BY <4>1 DEF ToSet
      <3>3. Good(0)
        BY <3>1, <3>2, <1>4
      <3> QED  BY <3>3, <2>2
    <2>4. n \in 1..len /\ n - 1 \in 0..len /\ n - 1 < n /\ n - 1 \in Days
      BY <1>1, <2>2, <2>3
    <2>5. Good(n - 1)
      <3>1. ~ n <= n - 1
        BY <2>4
      <3> QED  BY <2>2, <2>4, <3>1
    <2> DEFINE day == day_list[n - 1]
               before == of[n - 1]
    <2>6. Ordered(day, order) /\ Ordered(before, order) /\ ToSet(before) = First(n - 1)
      BY <2>4, <2>5, <1>7
    <2>7. ASSUME NEW s \in ToSet(before), NEW t \in ToSet(day)
          PROVE  s # t /\ OldestDay[s] <= OldestDay[t] /\ NewestFile[t] <= NewestFile[s]
      <3>1. PICK d \in Days : d < n - 1 /\ s \in ToSet(day_list[d])
        BY <2>6, <2>7
      <3> QED  BY <3>1, <2>4, <2>7, <1>6
    <2>8. First(n) = First(n - 1) \cup ToSet(day)
      <3>1. \A d \in Days : d < n <=> d < n - 1 \/ d = n - 1
        BY <1>1, <2>4
      <3> QED  BY <3>1, <2>4
    <2> HIDE DEF day, before, First
    <2>9. Ordered(of[n], order) /\ ToSet(of[n]) = First(n)
      <3>1. CASE oldest
        <4>1. of[n] = before \o day
          BY <3>1, <2>4, <1>4 DEF day, before
        <4>2. \A s \in ToSet(before), t \in ToSet(day) : s # t /\ order[s] <= order[t]
          BY <3>1, <2>7
        <4> HIDE DEF order
        <4>3. Ordered(before \o day, order) /\ ToSet(before \o day) = ToSet(before) \cup ToSet(day)
          BY <4>2, <2>6, ConcatOrdered
        <4> QED  BY <4>1, <4>3, <2>6, <2>8
      <3>2. CASE ~ oldest
        <4>1. of[n] = day \o before
          BY <3>2, <2>4, <1>4 DEF day, before
        <4>2. \A s \in ToSet(day), t \in ToSet(before) : s # t /\ order[s] <= order[t]
          BY <3>2, <2>7
        <4> HIDE DEF order
        <4>3. Ordered(day \o before, order) /\ ToSet(day \o before) = ToSet(day) \cup ToSet(before)
          BY <4>2, <2>6, ConcatOrdered
        <4> QED  BY <4>1, <4>3, <2>6, <2>8
      <3> QED  BY <3>1, <3>2
    <2> QED  BY <2>2, <2>9
  <1>9. First(len) = Listed
    <2>1. \A d \in Days : d < len
      BY <1>1
    <2> QED  BY <2>1 DEF Listed
  <1>10. Len(of[len]) = total
    <2>1. of[len] \in Seq(Slots) /\ IsInjective(of[len]) /\ ToSet(of[len]) = Listed
      BY <1>8, <1>9 DEF Ordered
    <2> HIDE DEF First, Good, Bad, order
    <2>2. Cardinality(ToSet(of[len])) = Len(of[len])
      BY <2>1, LenIsCardinality
    <2> QED  BY <2>1, <2>2 DEF Linked, SlotsAreKept
  <1> QED  BY <1>3, <1>8, <1>9, <1>10

LEMMA PagesHold == ASSUME Linked, NEW size \in Nat \ {0} PROVE PagesCover(size)
  <1>1. \A s \in Listed : Time(s) \in Times
    BY ListedHolds
  <1>2. ASSUME NEW d \in Days
        PROVE  /\ ShownInTurn(OfDay(d, FALSE), day_cnt[d], size, NewestFile)
               /\ ShownInTurn(OfDay(d, TRUE), day_cnt[d], size, OldestFile)
               /\ \A kinds : \A oldest \in BOOLEAN :
                    ShownSomewhere(OfDay(d, oldest), day_cnt[d], size, kinds)
    <2> DEFINE new == OfDay(d, FALSE)
               old == OfDay(d, TRUE)
    <2>1. /\ Ordered(new, NewestFile) /\ Ordered(old, OldestFile)
          /\ Len(new) = day_cnt[d] /\ Len(old) = day_cnt[d]
          /\ \A s \in ToSet(new) : Time(s) \in Times
          /\ \A s \in ToSet(old) : Time(s) \in Times
      BY <1>1, DayInOrder, ListedHolds
    <2> HIDE DEF new, old
    <2>2. /\ ShownInTurn(new, day_cnt[d], size, NewestFile)
          /\ \A kinds : ShownSomewhere(new, day_cnt[d], size, kinds)
      BY <2>1, PagesOfList
    <2>3. /\ ShownInTurn(old, day_cnt[d], size, OldestFile)
          /\ \A kinds : ShownSomewhere(old, day_cnt[d], size, kinds)
      BY <2>1, PagesOfList
    <2> QED  BY <2>2, <2>3 DEF new, old
  <1>3. /\ ShownInTurn(OfAllDays(FALSE), total, size, NewestFile)
        /\ ShownInTurn(OfAllDays(TRUE), total, size, OldestDay)
        /\ \A kinds : \A oldest \in BOOLEAN : ShownSomewhere(OfAllDays(oldest), total, size, kinds)
    <2> DEFINE new == OfAllDays(FALSE)
               old == OfAllDays(TRUE)
    <2>1. /\ Ordered(new, NewestFile) /\ Ordered(old, OldestDay)
          /\ Len(new) = total /\ Len(old) = total /\ ToSet(new) = Listed /\ ToSet(old) = Listed
      BY AllDaysInOrder
    <2> HIDE DEF new, old
    <2>2. /\ ShownInTurn(new, total, size, NewestFile)
          /\ \A kinds : ShownSomewhere(new, total, size, kinds)
      BY <1>1, <2>1, PagesOfList
    <2>3. /\ ShownInTurn(old, total, size, OldestDay)
          /\ \A kinds : ShownSomewhere(old, total, size, kinds)
      BY <1>1, <2>1, PagesOfList
    <2> QED  BY <2>2, <2>3 DEF new, old
  <1> QED  BY <1>2, <1>3 DEF PagesCover

-----------------------------------------------------------------------------
(* There is always a free entry. *)

Used == {s \in Slots : info[s].used}

\* How many entries are in use in a history t.  Between two scans only the recorder
\* takes any; a scan takes one for each file it found, which the recorder may have
\* listed too.
Counted(t) ==
    LET r == t.records - budget.records
        n == Cardinality(t.files)
    IN  /\ r >= (IF rec = 0 THEN 0 ELSE 1)
        /\ Cardinality(files) <= n + r
        /\ Cardinality(Used) <= n + 2 * r
        /\ AwaitsCard \/ scan.at = "wait" => Cardinality(Used) <= r
        /\ scan.at = "scan" => Cardinality(Used) + Cardinality(scan.left) <= n + 2 * r
        /\ scan.at = "add" => /\ scan.left # {}
                              /\ Cardinality(Used) + Cardinality(scan.left) <= n + 2 * r + 1

RoomIsLeft == \E t \in Trials : Counted(t)

LEMMA UsedIsFinite == IsFiniteSet(Slots) /\ Cardinality(Slots) = NSlots /\ IsFiniteSet(Used)
  <1>1. NSlots \in Nat /\ NSlots > 0
    BY Clock
  <1>2. IsFiniteSet(Slots) /\ Cardinality(Slots) = NSlots
    BY <1>1, FS_Interval DEF Slots
  <1> QED  BY <1>2, FS_Subset DEF Used

LEMMA TimesAreFinite ==
    ASSUME NEW S, S \subseteq Times
    PROVE  IsFiniteSet(S) /\ Cardinality(S) \in Nat
  <1>1. IsFiniteSet(Times)
    BY Bounds, FS_Interval DEF Times
  <1> QED  BY <1>1, FS_Subset, FS_CardinalityType

LEMMA TrialNumbers ==
    ASSUME NEW t \in Trials
    PROVE  /\ t.records \in Nat /\ Cardinality(t.files) \in Nat /\ t.files \subseteq Times
           /\ Cardinality(t.files) + 2 * t.records < NSlots
  <1>1. /\ t \in [files : SUBSET Times, moves : Nat, records : Nat, deletes : Nat, plays : Nat]
        /\ Cardinality(t.files) + 2 * t.records < NSlots
    BY Histories
  <1>2. t.records \in Nat /\ t.files \subseteq Times
    BY <1>1
  <1> QED  BY <1>1, <1>2, TimesAreFinite

LEMMA RoomInit == ListInit => RoomIsLeft
  <1> SUFFICES ASSUME ListInit PROVE RoomIsLeft
    OBVIOUS
  <1>1. PICK t \in Trials : files = t.files /\ budget = [x \in Counts |-> t[x]]
    BY DEF ListInit
  <1>2. t.records \in Nat /\ Cardinality(t.files) \in Nat
    BY TrialNumbers
  <1>3. budget.records = t.records
    BY <1>1 DEF Counts
  <1>4. Used = {} /\ Cardinality(Used) = 0
    BY FS_EmptySet DEF ListInit, Used
  <1>5. rec = 0 /\ scan.at = "off"
    BY DEF ListInit, Off
  <1> QED  BY <1>1, <1>2, <1>3, <1>4, <1>5 DEF RoomIsLeft, Counted

\* The sets that are counted are finite.
LEMMA CountsAreNumbers ==
    ASSUME Typed, NEW t \in Trials
    PROVE  /\ t.records \in Nat /\ Cardinality(t.files) \in Nat /\ budget.records \in Nat
           /\ IsFiniteSet(files) /\ IsFiniteSet(scan.left)
           /\ {Cardinality(Used), Cardinality(files), Cardinality(scan.left)} \subseteq Nat
  <1>1. files \subseteq Times /\ scan.left \subseteq Times /\ budget.records \in Nat
    BY Bounds DEF Typed, Times, Counts
  <1> QED  BY <1>1, TrialNumbers, TimesAreFinite, UsedIsFinite, FS_CardinalityType

\* The scan has a last file, and goes on with one less.
LEMMA LastLeft ==
    ASSUME Typed, scan.left # {}
    PROVE  Cardinality(scan.left \ {Max(scan.left)}) = Cardinality(scan.left) - 1
  <1>1. scan.left \subseteq 0..LastTime /\ LastTime \in Nat
    BY Bounds DEF Typed, Times
  <1>2. Max(scan.left) \in scan.left
    BY <1>1, LastOf
  <1>3. IsFiniteSet(scan.left)
    BY <1>1, TimesAreFinite DEF Times
  <1> QED  BY <1>2, <1>3, FS_RemoveElement

LEMMA TakenIsUsed ==
    ASSUME Linked, NEW s \in Unused, NEW f, TakeSlot(s, f)
    PROVE  Cardinality(Used') = Cardinality(Used) + 1
  <1>1. Used' = Used \cup {s} /\ s \notin Used
    BY DEF Linked, Unused, Used, TakeSlot
  <1> QED  BY <1>1, UsedIsFinite, FS_AddElement

\* The scan and the events of the card.
LEMMA RoomScanStep ==
    ASSUME ListInv, NEW t \in Trials, Counted(t), t.records - budget.records \in Nat,
           CardIn \/ CardOut \/ ScanStarts \/ ScanEnds \/ ScanSkips \/ ScanTakes \/ ScanAdds
    PROVE  Counted(t)'
  <1> DEFINE r == t.records - budget.records
             n == Cardinality(t.files)
  <1>1. /\ r \in Nat /\ n \in Nat
        /\ {Cardinality(Used), Cardinality(files), Cardinality(scan.left)} \subseteq Nat
    BY CountsAreNumbers DEF ListInv
  <1>2. UNCHANGED <<budget, files, rec, card>>
    BY DEF CardIn, CardOut, ScanStarts, ScanEnds, ScanSkips, ScanTakes, ScanAdds
  <1>3. /\ r >= (IF rec = 0 THEN 0 ELSE 1) /\ Cardinality(files) <= n + r
        /\ Cardinality(Used) <= n + 2 * r
        /\ AwaitsCard \/ scan.at = "wait" => Cardinality(Used) <= r
        /\ scan.at = "scan" => Cardinality(Used) + Cardinality(scan.left) <= n + 2 * r
        /\ scan.at = "add" => /\ scan.left # {}
                              /\ Cardinality(Used) + Cardinality(scan.left) <= n + 2 * r + 1
    BY DEF Counted
  <1>4. r' = r /\ n' = n
    BY <1>2
  <1> HIDE DEF r, n
  <1> SUFFICES /\ Cardinality(Used') <= n + 2 * r
               /\ AwaitsCard' \/ scan'.at = "wait" => Cardinality(Used') <= r
               /\ scan'.at = "scan" => Cardinality(Used') + Cardinality(scan'.left) <= n + 2 * r
               /\ scan'.at = "add" => /\ scan'.left # {}
                     /\ Cardinality(Used') + Cardinality(scan'.left) <= n + 2 * r + 1
    BY <1>2, <1>3, <1>4 DEF Counted, r, n
  <1>5. CASE CardIn
    <2>1. scan'.at = "wait" /\ info' = info /\ events # <<>> /\ Head(events) = "in"
      BY <1>5 DEF CardIn, Off
    <2>2. AwaitsCard
      BY <2>1 DEF AwaitsCard, ListInv, Typed
    <2>3. Used' = Used
      BY <2>1 DEF Used
    <2> QED  BY <2>1, <2>2, <2>3, <1>3
  <1>6. CASE CardOut
    <2>1. UNCHANGED <<info, scan, events, card>>
      BY <1>6 DEF CardOut
    <2>2. Used' = Used /\ AwaitsCard' = AwaitsCard
      BY <2>1 DEF Used, AwaitsCard
    <2> QED  BY <2>1, <2>2, <1>3
  <1>7. ASSUME scan.at # "off", UNCHANGED events PROVE ~AwaitsCard'
    BY <1>2, <1>7 DEF ListInv, Handled, AwaitsCard
  <1>8. CASE ScanStarts
    <2>1. scan.at = "wait" /\ scan'.at = "scan" /\ scan'.left = files /\ UNCHANGED <<info, events>>
      BY <1>8 DEF ScanStarts, Off
    <2>2. Used' = Used /\ ~AwaitsCard'
      BY <2>1, <1>7 DEF Used
    <2> QED  BY <2>1, <2>2, <1>1, <1>3
  <1>9. CASE ScanEnds
    <2>1. scan.at # "off" /\ scan'.at = "off" /\ UNCHANGED <<info, events>>
      BY <1>9 DEF ScanEnds, Off
    <2>2. Used' = Used /\ ~AwaitsCard'
      BY <2>1, <1>7 DEF Used
    <2> QED  BY <2>1, <2>2, <1>3
  <1>10. CASE ScanSkips
    <2>1. /\ scan.at = "scan" /\ scan.left # {} /\ UNCHANGED <<info, events>>
          /\ scan' = [scan EXCEPT !.left = scan.left \ {Max(scan.left)}]
      BY <1>10 DEF ScanSkips
    <2>2. scan'.at = "scan" /\ scan'.left = scan.left \ {Max(scan.left)}
      BY <2>1 DEF ListInv, Typed
    <2>3. Used' = Used /\ ~AwaitsCard'
      BY <2>1, <1>7 DEF Used
    <2>4. Cardinality(scan'.left) = Cardinality(scan.left) - 1
      BY <2>1, <2>2, LastLeft DEF ListInv
    <2> QED  BY <2>1, <2>2, <2>3, <2>4, <1>1, <1>3
  <1>11. CASE ScanTakes
    <2>1. PICK s \in Unused : /\ TakeSlot(s, Max(scan.left))
                              /\ scan' = [scan EXCEPT !.at = "add", !.slot = s]
      BY <1>11 DEF ScanTakes
    <2>2. scan.at = "scan" /\ scan.left # {} /\ UNCHANGED events
      BY <1>11 DEF ScanTakes
    <2>3. scan'.at = "add" /\ scan'.left = scan.left
      BY <2>1 DEF ListInv, Typed
    <2>4. Cardinality(Used') = Cardinality(Used) + 1 /\ ~AwaitsCard'
      BY <2>1, <2>2, <1>7, TakenIsUsed DEF ListInv
    <2>5. Cardinality(scan.left) # 0
      BY <2>2, CountsAreNumbers, FS_EmptySet DEF ListInv
    <2> QED  BY <2>2, <2>3, <2>4, <2>5, <1>1, <1>3
  <1>12. CASE ScanAdds
    <2>1. /\ scan.at = "add" /\ scan.left # {} /\ UNCHANGED <<info, events>>
          /\ scan' = [scan EXCEPT !.at = "scan", !.slot = 0, !.left = scan.left \ {Max(scan.left)}]
      BY <1>3, <1>12 DEF ScanAdds
    <2>2. scan'.at = "scan" /\ scan'.left = scan.left \ {Max(scan.left)}
      BY <2>1 DEF ListInv, Typed
    <2>3. Used' = Used /\ ~AwaitsCard'
      BY <2>1, <1>7 DEF Used
    <2>4. Cardinality(scan'.left) = Cardinality(scan.left) - 1
      BY <2>1, <2>2, LastLeft DEF ListInv
    <2> QED  BY <2>1, <2>2, <2>3, <2>4, <1>1, <1>3
  <1> QED  BY <1>5, <1>6, <1>8, <1>9, <1>10, <1>11, <1>12

\* Whatever takes no entry and leaves the scan and the next event alone.
LEMMA RoomStays ==
    ASSUME ListInv, NEW t \in Trials, Counted(t), Used' \subseteq Used, files' \subseteq files,
           budget'.records = budget.records, UNCHANGED scan, AwaitsCard' <=> AwaitsCard,
           rec' # 0 => rec' = rec
    PROVE  Counted(t)'
  <1> DEFINE r == t.records - budget.records
             n == Cardinality(t.files)
  <1>1. /\ r \in Int /\ n \in Nat
        /\ {Cardinality(Used), Cardinality(files), Cardinality(scan.left)} \subseteq Nat
        /\ IsFiniteSet(files)
    BY CountsAreNumbers DEF ListInv
  <1>2. /\ Cardinality(Used') <= Cardinality(Used) /\ Cardinality(Used') \in Nat
        /\ Cardinality(files') <= Cardinality(files) /\ Cardinality(files') \in Nat
    BY <1>1, UsedIsFinite, FS_Subset, FS_CardinalityType
  <1>3. /\ r >= (IF rec = 0 THEN 0 ELSE 1) /\ Cardinality(files) <= n + r
        /\ Cardinality(Used) <= n + 2 * r
        /\ AwaitsCard \/ scan.at = "wait" => Cardinality(Used) <= r
        /\ scan.at = "scan" => Cardinality(Used) + Cardinality(scan.left) <= n + 2 * r
        /\ scan.at = "add" => /\ scan.left # {}
                              /\ Cardinality(Used) + Cardinality(scan.left) <= n + 2 * r + 1
    BY DEF Counted
  <1>4. r' = r /\ n' = n
    OBVIOUS
  <1> HIDE DEF r, n
  <1>5. /\ r >= (IF rec' = 0 THEN 0 ELSE 1) /\ Cardinality(files') <= n + r
        /\ Cardinality(Used') <= n + 2 * r
        /\ AwaitsCard \/ scan.at = "wait" => Cardinality(Used') <= r
        /\ scan.at = "scan" => Cardinality(Used') + Cardinality(scan.left) <= n + 2 * r
        /\ scan.at = "add" => Cardinality(Used') + Cardinality(scan.left) <= n + 2 * r + 1
    BY <1>1, <1>2, <1>3
  <1> QED  BY <1>3, <1>4, <1>5 DEF Counted, r, n

LEMMA RoomClearStep == ASSUME ListInv, NEW t \in Trials, Counted(t), Clear PROVE Counted(t)'
  <1> DEFINE r == t.records - budget.records
             n == Cardinality(t.files)
  <1>1. scan.at = "off" /\ info_del(Listed) /\ UNCHANGED <<budget, files, scan, rec>>
    BY DEF Clear
  <1>2. Linked' /\ Listed' = {}
    BY <1>1, DelStep DEF ListInv
  <1>3. scan'.slot = 0
    BY <1>1 DEF ListInv, Typed
  <1>4. Used' \subseteq {rec} \ {0}
    <2>1. \A s \in Slots : info'[s].used <=> s \in Listed' \cup {scan'.slot, rec'}
      BY <1>2 DEF Linked, SlotsAreKept
    <2>2. \A s \in Slots : s # 0
      BY Clock DEF Slots
    <2> QED  BY <2>1, <2>2, <1>1, <1>2, <1>3 DEF Used
  <1>5. Cardinality(Used') <= (IF rec = 0 THEN 0 ELSE 1)
    <2>1. CASE rec = 0
      <3>1. Used' = {}
        BY <2>1, <1>4
      <3> QED  BY <3>1, <2>1, FS_EmptySet
    <2>2. CASE rec # 0
      <3>1. IsFiniteSet({rec}) /\ Cardinality({rec}) = 1
        BY FS_Singleton
      <3> QED  BY <3>1, <2>2, <1>4, FS_Subset
    <2> QED  BY <2>1, <2>2
  <1>6. r \in Int /\ n \in Nat /\ Cardinality(Used') \in Nat
    <2>1. IsFiniteSet({rec}) /\ Used' \subseteq {rec}
      BY <1>4, FS_Singleton
    <2>2. Cardinality(Used') \in Nat
      BY <2>1, FS_Subset, FS_CardinalityType
    <2> QED  BY <2>2, CountsAreNumbers DEF ListInv
  <1>7. r >= (IF rec = 0 THEN 0 ELSE 1) /\ Cardinality(files) <= n + r
    BY DEF Counted
  <1>8. r' = r /\ n' = n
    BY <1>1
  <1> HIDE DEF r, n
  <1>9. Cardinality(Used') <= r /\ Cardinality(Used') <= n + 2 * r
    BY <1>5, <1>6, <1>7
  <1> QED  BY <1>1, <1>7, <1>8, <1>9 DEF Counted, r, n

LEMMA RoomRecorderStep ==
    ASSUME ListInv, NEW t \in Trials, Counted(t), NEW f \in Times, RecorderFinishes(f)
    PROVE  Counted(t)'
  <1> DEFINE r == t.records - budget.records
             n == Cardinality(t.files)
  <1>1. /\ r \in Int /\ n \in Nat /\ budget.records \in Nat /\ t.records \in Nat
        /\ {Cardinality(Used), Cardinality(files), Cardinality(scan.left)} \subseteq Nat
        /\ IsFiniteSet(files)
    BY CountsAreNumbers DEF ListInv
  <1>2. /\ rec = 0 /\ files' = files \cup {f} /\ UNCHANGED <<card, events, scan>>
        /\ budget' = [budget EXCEPT !.records = @ - 1]
    BY DEF RecorderFinishes
  <1>3. PICK s \in Unused : TakeSlot(s, f) /\ rec' = s
    BY DEF RecorderFinishes
  <1>4. Cardinality(Used') = Cardinality(Used) + 1
    BY <1>3, TakenIsUsed DEF ListInv
  <1>5. /\ Cardinality(files') <= Cardinality(files) + 1 /\ Cardinality(files') \in Nat
    <2>1. /\ IsFiniteSet(files \cup {f})
          /\ Cardinality(files \cup {f}) = IF f \in files THEN Cardinality(files)
                                           ELSE Cardinality(files) + 1
      BY <1>1, FS_AddElement
    <2> QED  BY <1>1, <1>2, <2>1
  <1>6. n' = n /\ r' = r + 1
    <2>1. budget'.records = budget.records - 1
      BY <1>2 DEF ListInv, Typed, Counts
    <2> QED  BY <2>1, <1>1
  <1>7. AwaitsCard' <=> AwaitsCard
    BY <1>2 DEF AwaitsCard
  <1>8. /\ r >= (IF rec = 0 THEN 0 ELSE 1) /\ Cardinality(files) <= n + r
        /\ Cardinality(Used) <= n + 2 * r
        /\ AwaitsCard \/ scan.at = "wait" => Cardinality(Used) <= r
        /\ scan.at = "scan" => Cardinality(Used) + Cardinality(scan.left) <= n + 2 * r
        /\ scan.at = "add" => /\ scan.left # {}
                              /\ Cardinality(Used) + Cardinality(scan.left) <= n + 2 * r + 1
    BY DEF Counted
  <1> HIDE DEF r, n
  <1>9. /\ r + 1 >= 1 /\ r + 1 >= 0 /\ Cardinality(files') <= n + (r + 1)
        /\ Cardinality(Used') <= n + 2 * (r + 1)
        /\ AwaitsCard \/ scan.at = "wait" => Cardinality(Used') <= r + 1
        /\ scan.at = "scan" => Cardinality(Used') + Cardinality(scan.left) <= n + 2 * (r + 1)
        /\ scan.at = "add" => Cardinality(Used') + Cardinality(scan.left) <= n + 2 * (r + 1) + 1
    BY <1>1, <1>2, <1>4, <1>5, <1>8
  <1> QED  BY <1>2, <1>6, <1>7, <1>8, <1>9 DEF Counted, r, n

\* Deleting and listing take no entry.
LEMMA RoomDelStep ==
    ASSUME ListInv, NEW t \in Trials, Counted(t), NEW gone, gone \subseteq Listed, info_del(gone),
           files' \subseteq files, budget' = [budget EXCEPT !.deletes = @ - 1],
           UNCHANGED <<card, events, scan, rec>>
    PROVE  Counted(t)'
  <1>1. Used' \subseteq Used
    <2>1. info' = [s \in Slots |-> IF s \in gone THEN [info[s] EXCEPT !.used = FALSE] ELSE info[s]]
      BY DEF info_del
    <2> QED  BY <2>1 DEF Used, ListInv, Linked
  <1>2. budget'.records = budget.records
    BY DEF ListInv, Typed, Counts
  <1>3. AwaitsCard' <=> AwaitsCard
    BY DEF AwaitsCard
  <1> QED  BY <1>1, <1>2, <1>3, RoomStays

LEMMA RoomStep == ASSUME ListInv, RoomIsLeft, ListNext PROVE RoomIsLeft'
  <1>1. PICK t \in Trials : Counted(t)
    BY DEF RoomIsLeft
  <1>2. t.records - budget.records \in Nat
    <2>1. t.records \in Nat /\ budget.records \in Nat
      BY CountsAreNumbers DEF ListInv
    <2> QED  BY <2>1, <1>1 DEF Counted
  <1>3. CASE CardMoves
    <2>1. budget'.records = budget.records /\ UNCHANGED <<files, info, scan, rec>>
      BY <1>3 DEF CardMoves, ListInv, Typed, Counts
    <2>2. Used' = Used
      BY <2>1 DEF Used
    <2> QED  BY <2>1, <2>2, <1>1, <1>3, CardMovesNext, RoomStays DEF RoomIsLeft, ListInv
  <1>4. CASE Clear
    BY <1>1, <1>4, RoomClearStep DEF RoomIsLeft
  <1>5. ASSUME NEW f \in Times, RecorderFinishes(f) PROVE RoomIsLeft'
    BY <1>1, <1>5, RoomRecorderStep DEF RoomIsLeft
  <1>6. CASE RecorderAdds
    <2>1. UNCHANGED <<budget, card, events, files, info, scan>> /\ rec' = 0
      BY <1>6 DEF RecorderAdds
    <2>2. Used' = Used /\ (AwaitsCard' <=> AwaitsCard)
      BY <2>1 DEF Used, AwaitsCard
    <2> QED  BY <2>1, <2>2, <1>1, RoomStays DEF RoomIsLeft
  <1>7. CASE RecorderDeletes
    <2> DEFINE f == Min(files)
               gone == {s \in ToSet(day_list[Day(f)]) : Time(s) # f}
    <2>1. files \subseteq Times /\ files \subseteq Nat /\ files # {}
      BY <1>7, Bounds DEF ListInv, Typed, Times, RecorderDeletes
    <2>2. f \in Times
      BY <2>1, FirstOf
    <2>3. gone \subseteq Listed
      BY <2>2, ListedHolds DEF ListInv, Days
    <2>4. info_del(gone) /\ files' = files \ {f}
      BY <1>7 DEF RecorderDeletes
    <2> HIDE DEF gone, f
    <2> QED  BY <2>3, <2>4, <1>1, <1>7, RoomDelStep DEF RecorderDeletes, RoomIsLeft
  <1> QED  BY <1>1, <1>2, <1>3, <1>4, <1>5, <1>6, <1>7, RoomScanStep DEF ListNext, RoomIsLeft

LEMMA RoomRemoveStep ==
    ASSUME ListInv, RoomIsLeft, NEW req, req[1] \in Times, cloud_playback_list_remove(req)
    PROVE  RoomIsLeft'
  <1>1. PICK t \in Trials : Counted(t)
    BY DEF RoomIsLeft
  <1>2. Found(req) \subseteq ToSet(day_list[Day(req[1])])
    BY DEF Found, ToSet
  <1>3. Found(req) \subseteq Listed
    BY <1>2, ListedHolds DEF ListInv, Days
  <1> QED  BY <1>1, <1>3, RoomDelStep DEF cloud_playback_list_remove, RoomIsLeft

LEMMA RoomUnchanged ==
    ASSUME ListInv, RoomIsLeft, budget'.records = budget.records,
           UNCHANGED <<card, files, events, info, scan, rec>>
    PROVE  RoomIsLeft'
  <1>1. Used' = Used /\ (AwaitsCard' <=> AwaitsCard)
    BY DEF Used, AwaitsCard
  <1> QED  BY <1>1, RoomStays DEF RoomIsLeft

\* The entries in use are no more than the history calls for, and one is free.
LEMMA RoomHolds ==
    ASSUME ListInv, RoomIsLeft
    PROVE  /\ \E t \in Trials : Cardinality(Used) <= Cardinality(t.files) + 2 * t.records
           /\ Unused # {}
  <1>1. PICK t \in Trials : Counted(t)
    BY DEF RoomIsLeft
  <1>2. /\ Cardinality(t.files) + 2 * t.records < NSlots /\ NSlots \in Nat
        /\ t.records \in Nat /\ Cardinality(t.files) \in Nat /\ budget.records \in Nat
        /\ Cardinality(Used) \in Nat
    BY TrialNumbers, CountsAreNumbers, Clock DEF ListInv
  <1>3. Cardinality(Used) <= Cardinality(t.files) + 2 * (t.records - budget.records)
    BY <1>1 DEF Counted
  <1>4. Cardinality(Used) <= Cardinality(t.files) + 2 * t.records
    BY <1>2, <1>3
  <1>5. ASSUME Unused = {} PROVE FALSE
    <2>1. Used = Slots
      BY <1>5 DEF Used, Unused
    <2> QED  BY <2>1, <1>2, <1>4, UsedIsFinite
  <1> QED  BY <1>4, <1>5

LEMMA ListTypesHold == ListInv => ListTypeOK
  <1> SUFFICES ASSUME ListInv PROVE ListTypeOK
    OBVIOUS
  <1>1. events \in BoundedSeq({"in", "out"}, MaxEvents)
    <2>1. /\ Len(events) \in 0..MaxEvents
          /\ events \in [1..Len(events) -> {"in", "out"}]
      BY Bounds DEF ListInv, Typed
    <2> QED  BY <2>1 DEF BoundedSeq, SeqOf
  <1>2. Listed \subseteq Slots /\ IsFiniteSet(Listed)
    BY ListedHolds DEF ListInv
  <1>3. total \in 0..NSlots
    <2>1. total = Cardinality(Listed)
      BY DEF ListInv, Linked, SlotsAreKept
    <2> QED  BY <2>1, <1>2, UsedIsFinite, FS_Subset, FS_CardinalityType, Clock
  <1>4. day_cnt \in [Days -> 0..NSlots]
    <2>1. ASSUME NEW d \in Days PROVE day_cnt[d] \in 0..NSlots
      <3>1. ToSet(day_list[d]) \subseteq Slots
        BY <1>2, ListedHolds DEF ListInv
      <3>2. day_cnt[d] = Cardinality(ToSet(day_list[d]))
        BY DEF ListInv, Linked, SlotsAreKept
      <3> QED  BY <3>1, <3>2, UsedIsFinite, FS_Subset, FS_CardinalityType, Clock
    <2> QED  BY <2>1 DEF ListInv, Linked
  <1>5. \A d \in Days : day_list[d] \in Seq(Slots)
    BY DEF ListInv, Linked
  <1> QED  BY <1>1, <1>3, <1>4, <1>5 DEF ListTypeOK, ListInv, Typed, Linked
=============================================================================
