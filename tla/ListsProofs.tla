---------------------------- MODULE ListsProofs -----------------------------
(***************************************************************************)
(* The pointers of include/linux/list.h represent the lists they should,   *)
(* for any number of heads and entries and after any operations.           *)
(***************************************************************************)
EXTENDS Lists, SequenceTheorems, TLAPS

(* Sequences with an entry more, or less.                                  *)
LEMMA InsertedAt ==
    ASSUME NEW S, NEW s \in Seq(S), NEW e \in S, NEW k \in 1 .. Len(s) + 1
    PROVE  /\ InsertAt(s, k, e) \in Seq(S)
           /\ Len(InsertAt(s, k, e)) = Len(s) + 1
           /\ \A j \in 1 .. Len(s) + 1 :
                 InsertAt(s, k, e)[j] = IF j < k THEN s[j]
                                        ELSE IF j = k THEN e ELSE s[j - 1]
<1> DEFINE a == SubSeq(s, 1, k - 1)
           b == SubSeq(s, k, Len(s))
           c == a \o <<e>>
<1>0. Len(s) \in Nat
  BY LenProperties
<1>1. /\ a \in Seq(S) /\ Len(a) = k - 1
      /\ \A j \in 1 .. k - 1 : a[j] = s[j]
  BY <1>0, SubSeqProperties
<1>2. /\ b \in Seq(S) /\ Len(b) = Len(s) + 1 - k
      /\ \A j \in 1 .. Len(b) : b[j] = s[k + j - 1]
  BY <1>0, SubSeqProperties
<1>3. <<e>> \in Seq(S) /\ Len(<<e>>) = 1 /\ <<e>>[1] = e
  OBVIOUS
<1> HIDE DEF a, b
<1>4. /\ c \in Seq(S) /\ Len(c) = k
      /\ \A j \in 1 .. k : c[j] = IF j < k THEN s[j] ELSE e
  BY <1>1, <1>3, ConcatProperties
<1> HIDE DEF c
<1>5. /\ c \o b \in Seq(S) /\ Len(c \o b) = Len(s) + 1
      /\ \A j \in 1 .. Len(s) + 1 : (c \o b)[j] = IF j <= k THEN c[j] ELSE b[j - k]
  <2>1. /\ c \o b \in Seq(S) /\ Len(c \o b) = Len(c) + Len(b)
        /\ \A j \in 1 .. Len(c) + Len(b) :
              (c \o b)[j] = IF j <= Len(c) THEN c[j] ELSE b[j - Len(c)]
    BY <1>2, <1>4, ConcatProperties
  <2>2. Len(c) = k /\ Len(c) + Len(b) = Len(s) + 1
    BY <1>0, <1>2, <1>4
  <2> QED BY <2>1, <2>2
<1>6. InsertAt(s, k, e) = c \o b
  BY DEF InsertAt, a, b, c
<1>7. \A j \in 1 .. Len(s) + 1 : j > k => b[j - k] = s[j - 1]
  BY <1>0, <1>2
<1> QED BY <1>0, <1>4, <1>5, <1>6, <1>7

LEMMA RemovedAt ==
    ASSUME NEW S, NEW s \in Seq(S), NEW k \in 1 .. Len(s)
    PROVE  /\ RemoveAt(s, k) \in Seq(S)
           /\ Len(RemoveAt(s, k)) = Len(s) - 1
           /\ \A j \in 1 .. Len(s) - 1 :
                 RemoveAt(s, k)[j] = IF j < k THEN s[j] ELSE s[j + 1]
<1> DEFINE a == SubSeq(s, 1, k - 1)
           b == SubSeq(s, k + 1, Len(s))
<1>0. Len(s) \in Nat
  BY LenProperties
<1>1. /\ a \in Seq(S) /\ Len(a) = k - 1
      /\ \A j \in 1 .. k - 1 : a[j] = s[j]
  BY <1>0, SubSeqProperties
<1>2. /\ b \in Seq(S) /\ Len(b) = Len(s) - k
      /\ \A j \in 1 .. Len(b) : b[j] = s[k + j]
  BY <1>0, SubSeqProperties
<1> HIDE DEF a, b
<1>3. /\ a \o b \in Seq(S) /\ Len(a \o b) = Len(s) - 1
      /\ \A j \in 1 .. Len(s) - 1 : (a \o b)[j] = IF j < k THEN a[j] ELSE b[j - (k - 1)]
  <2>1. /\ a \o b \in Seq(S) /\ Len(a \o b) = Len(a) + Len(b)
        /\ \A j \in 1 .. Len(a) + Len(b) :
              (a \o b)[j] = IF j <= Len(a) THEN a[j] ELSE b[j - Len(a)]
    BY <1>1, <1>2, ConcatProperties
  <2>2. Len(a) = k - 1 /\ Len(a) + Len(b) = Len(s) - 1
    BY <1>0, <1>1, <1>2
  <2>3. \A j \in 1 .. Len(s) - 1 : j <= Len(a) <=> j < k
    BY <1>0, <2>2
  <2> QED BY <2>1, <2>2, <2>3
<1>4. RemoveAt(s, k) = a \o b
  BY DEF RemoveAt, a, b
<1>5. \A j \in 1 .. Len(s) - 1 : j >= k => b[j - (k - 1)] = s[j + 1]
  BY <1>0, <1>2
<1> QED BY <1>0, <1>1, <1>3, <1>4, <1>5

-----------------------------------------------------------------------------
(* Circles of pointers.  x has the head at places 0 and n + 1 and the n    *)
(* entries between them; f and g are the pointers.                         *)
Circle(f, g, x, n) == \A i \in 0 .. n : f[x[i]] = x[i + 1] /\ g[x[i + 1]] = x[i]

Simple(x, n, C) ==
    /\ x \in [0 .. n + 1 -> C] /\ x[n + 1] = x[0]
    /\ \A i, j \in 0 .. n : x[i] = x[j] => i = j
    /\ \A i, j \in 1 .. n + 1 : x[i] = x[j] => i = j

\* The pointers fn are those of f but for the cells of A, and no place of x
\* has e.
Agree(fn, f, C, A) == \A c \in C : c \notin A => fn[c] = f[c]
Misses(x, n, e) == \A i \in 0 .. n : x[i] # e
Disjoint(x, n, z, m) == \A i \in 0 .. n : Misses(z, m, x[i])

\* The places of a ring after an operation on it.
InsertPlaces(y, x, n, k, e) ==
    \A i \in 0 .. n + 2 : y[i] = IF i < k THEN x[i] ELSE IF i = k THEN e ELSE x[i - 1]
RemovePlaces(y, x, n, k) ==
    \A i \in 0 .. n : y[i] = IF i < k THEN x[i] ELSE x[i + 1]
ReplacePlaces(y, x, n, k, e) ==
    \A i \in 0 .. n + 1 : y[i] = IF i = k THEN e ELSE x[i]
HeadPlaces(y, x, k, e) ==
    \A i \in 0 .. k + 1 : y[i] = IF i \in 1 .. k THEN x[i] ELSE e
SplicePlaces(y, x, n, z, m, k) ==
    \A i \in 0 .. n + m + 1 :
        y[i] = IF i < k THEN z[i] ELSE IF i < k + n THEN x[i - k + 1] ELSE z[i - n]
RestPlaces(z, x, n, k) ==
    \A i \in 0 .. n - k + 1 : z[i] = IF i = 0 THEN x[0] ELSE x[k + i]

(* Pointers that are not those of a circle may change.                     *)
LEMMA CircleKept ==
    ASSUME NEW C, NEW n \in Nat, NEW x, Simple(x, n, C), NEW f, NEW g, Circle(f, g, x, n),
           NEW fn, NEW gn,
           \A i \in 0 .. n : fn[x[i]] = f[x[i]] /\ gn[x[i]] = g[x[i]]
    PROVE  Circle(fn, gn, x, n)
<1> SUFFICES ASSUME NEW i \in 0 .. n
             PROVE  fn[x[i]] = x[i + 1] /\ gn[x[i + 1]] = x[i]
  BY DEF Circle
<1>1. fn[x[i]] = x[i + 1]
  BY DEF Circle
<1>2. gn[x[i + 1]] = g[x[i + 1]]
  <2>1. CASE i = n
    BY <2>1 DEF Simple
  <2>2. CASE i # n
    BY <2>2
  <2> QED BY <2>1, <2>2
<1> QED BY <1>1, <1>2 DEF Circle

(* __list_add() between places k - 1 and k.                                *)
LEMMA CircleInsert ==
    ASSUME NEW C, NEW n \in Nat, NEW x, Simple(x, n, C),
           NEW f, NEW g, Circle(f, g, x, n),
           NEW e \in C, Misses(x, n, e), NEW k \in 1 .. n + 1,
           NEW y, InsertPlaces(y, x, n, k, e),
           NEW fn, fn[e] = x[k], fn[x[k - 1]] = e,
           Agree(fn, f, C, {e, x[k - 1]}),
           NEW gn, gn[e] = x[k - 1], gn[x[k]] = e,
           Agree(gn, g, C, {e, x[k]})
    PROVE  Circle(fn, gn, y, n + 1)
<1> USE DEF Agree, Misses, InsertPlaces
<1>1. \A i, j \in 1 .. n + 1 : x[i] = x[j] => i = j
  BY DEF Simple
<1>2. \A i \in 0 .. n + 1 : x[i] \in C /\ x[i] # e
  <2>1. x[n + 1] # e
    BY DEF Simple
  <2> QED BY <2>1 DEF Simple
<1> SUFFICES ASSUME NEW i \in 0 .. n + 1
             PROVE  fn[y[i]] = y[i + 1] /\ gn[y[i + 1]] = y[i]
  BY DEF Circle
<1>3. CASE i < k - 1
  <2>1. y[i] = x[i] /\ y[i + 1] = x[i + 1] /\ x[i] # x[k - 1] /\ x[i + 1] # x[k]
    BY <1>1, <1>3 DEF Simple
  <2> QED BY <1>2, <1>3, <2>1 DEF Circle
<1>4. CASE i = k - 1
  BY <1>4
<1>5. CASE i = k
  BY <1>5
<1>6. CASE i > k
  <2>1. /\ y[i] = x[i - 1] /\ y[i + 1] = x[i] /\ x[i - 1] # x[k - 1] /\ x[i] # x[k]
        /\ i - 1 \in 0 .. n /\ (i - 1) + 1 = i
    BY <1>1, <1>6 DEF Simple
  <2>2. f[x[i - 1]] = x[i] /\ g[x[i]] = x[i - 1]
    BY <2>1 DEF Circle
  <2> QED BY <1>2, <1>6, <2>1, <2>2
<1> QED BY <1>3, <1>4, <1>5, <1>6

(* __list_del() of the entry at place k.                                   *)
LEMMA CircleRemove ==
    ASSUME NEW C, NEW n \in Nat, NEW x, Simple(x, n, C),
           NEW f, NEW g, Circle(f, g, x, n), NEW k \in 1 .. n,
           NEW y, RemovePlaces(y, x, n, k),
           NEW fn, fn[x[k - 1]] = x[k + 1],
           Agree(fn, f, C, {x[k], x[k - 1]}),
           NEW gn, gn[x[k + 1]] = x[k - 1],
           Agree(gn, g, C, {x[k], x[k + 1]})
    PROVE  Circle(fn, gn, y, n - 1)
<1> USE DEF Agree, RemovePlaces
<1>1. \A i, j \in 1 .. n + 1 : x[i] = x[j] => i = j
  BY DEF Simple
<1>2. \A i \in 0 .. n + 1 : x[i] \in C
  BY DEF Simple
<1> SUFFICES ASSUME NEW i \in 0 .. n - 1
             PROVE  fn[y[i]] = y[i + 1] /\ gn[y[i + 1]] = y[i]
  BY DEF Circle
<1>3. CASE i < k - 1
  <2>1. /\ y[i] = x[i] /\ y[i + 1] = x[i + 1] /\ x[i] # x[k - 1] /\ x[i] # x[k]
        /\ x[i + 1] # x[k] /\ x[i + 1] # x[k + 1]
    BY <1>1, <1>3 DEF Simple
  <2> QED BY <1>2, <1>3, <2>1 DEF Circle
<1>4. CASE i = k - 1
  BY <1>4
<1>5. CASE i > k - 1
  <2>1. /\ y[i] = x[i + 1] /\ y[i + 1] = x[i + 2] /\ x[i + 1] # x[k - 1] /\ x[i + 1] # x[k]
        /\ x[i + 2] # x[k] /\ x[i + 2] # x[k + 1]
    <3>1. y[i] = x[i + 1] /\ y[i + 1] = x[i + 2]
      BY <1>5
    <3>2. x[i + 1] # x[k - 1] /\ x[i + 1] # x[k]
      <4>1. /\ i + 1 \in 0 .. n /\ k - 1 \in 0 .. n /\ k \in 0 .. n
            /\ i + 1 # k - 1 /\ i + 1 # k
        BY <1>5
      <4> QED BY <4>1 DEF Simple
    <3>3. x[i + 2] # x[k] /\ x[i + 2] # x[k + 1]
      <4>1. /\ i + 2 \in 1 .. n + 1 /\ k \in 1 .. n + 1 /\ k + 1 \in 1 .. n + 1
            /\ i + 2 # k /\ i + 2 # k + 1
        BY <1>5
      <4> QED BY <1>1, <4>1
    <3> QED BY <3>1, <3>2, <3>3
  <2>2. f[x[i + 1]] = x[i + 2] /\ g[x[i + 2]] = x[i + 1]
    <3>1. i + 1 \in 0 .. n /\ (i + 1) + 1 = i + 2
      OBVIOUS
    <3> QED BY <3>1 DEF Circle
  <2>3. x[i + 1] \in C /\ x[i + 2] \in C
    BY <1>2
  <2> QED BY <2>1, <2>2, <2>3
<1> QED BY <1>3, <1>4, <1>5

(* list_replace() of the entry at place k.                                 *)
LEMMA CircleReplace ==
    ASSUME NEW C, NEW n \in Nat, NEW x, Simple(x, n, C),
           NEW f, NEW g, Circle(f, g, x, n), NEW k \in 1 .. n,
           NEW e \in C, Misses(x, n, e),
           NEW y, ReplacePlaces(y, x, n, k, e),
           NEW fn, fn[e] = x[k + 1], fn[x[k - 1]] = e,
           Agree(fn, f, C, {x[k], e, x[k - 1]}),
           NEW gn, gn[e] = x[k - 1], gn[x[k + 1]] = e,
           Agree(gn, g, C, {x[k], e, x[k + 1]})
    PROVE  Circle(fn, gn, y, n)
<1> USE DEF Agree, Misses, ReplacePlaces
<1>1. \A i, j \in 1 .. n + 1 : x[i] = x[j] => i = j
  BY DEF Simple
<1>2. \A i \in 0 .. n + 1 : x[i] \in C /\ x[i] # e
  <2>1. x[n + 1] # e
    BY DEF Simple
  <2> QED BY <2>1 DEF Simple
<1> SUFFICES ASSUME NEW i \in 0 .. n
             PROVE  fn[y[i]] = y[i + 1] /\ gn[y[i + 1]] = y[i]
  BY DEF Circle
<1>3. CASE i = k - 1
  BY <1>3
<1>4. CASE i = k
  BY <1>4
<1>5. CASE i # k - 1 /\ i # k
  <2>1. y[i] = x[i] /\ y[i + 1] = x[i + 1]
    BY <1>5
  <2>2. x[i] # x[k - 1] /\ x[i] # x[k]
    <3>1. k - 1 \in 0 .. n /\ k \in 0 .. n
      OBVIOUS
    <3> QED BY <1>5, <3>1 DEF Simple
  <2>3. x[i + 1] # x[k] /\ x[i + 1] # x[k + 1]
    <3>1. /\ i + 1 \in 1 .. n + 1 /\ k \in 1 .. n + 1 /\ k + 1 \in 1 .. n + 1
          /\ i + 1 # k /\ i + 1 # k + 1
      BY <1>5
    <3> QED BY <1>1, <3>1
  <2>4. f[x[i]] = x[i + 1] /\ g[x[i + 1]] = x[i]
    BY DEF Circle
  <2> QED BY <1>2, <2>1, <2>2, <2>3, <2>4
<1> QED BY <1>3, <1>4, <1>5

(* list_replace() of the head of a ring that is not empty.                 *)
LEMMA CircleNewHead ==
    ASSUME NEW C, NEW n \in Nat \ {0}, NEW x, Simple(x, n, C),
           NEW f, NEW g, Circle(f, g, x, n),
           NEW e \in C, Misses(x, n, e),
           NEW y, HeadPlaces(y, x, n, e),
           NEW fn, fn[e] = x[1], fn[x[n]] = e,
           Agree(fn, f, C, {x[0], e, x[n]}),
           NEW gn, gn[e] = x[n], gn[x[1]] = e,
           Agree(gn, g, C, {x[0], e, x[1]})
    PROVE  Circle(fn, gn, y, n)
<1> USE DEF Agree, Misses, HeadPlaces
<1>1. \A i \in 0 .. n + 1 : x[i] \in C /\ x[i] # e
  <2>1. x[n + 1] # e
    BY DEF Simple
  <2> QED BY <2>1 DEF Simple
<1> SUFFICES ASSUME NEW i \in 0 .. n
             PROVE  fn[y[i]] = y[i + 1] /\ gn[y[i + 1]] = y[i]
  BY DEF Circle
<1>2. CASE i = 0
  BY <1>2
<1>3. CASE i = n
  BY <1>3
<1>4. CASE i # 0 /\ i # n
  <2>1. y[i] = x[i] /\ y[i + 1] = x[i + 1]
    BY <1>4
  <2>2. x[i] # x[0] /\ x[i] # x[n]
    BY <1>4 DEF Simple
  <2>3. x[i + 1] # x[0] /\ x[i + 1] # x[1]
    <3>1. i + 1 \in 0 .. n /\ i + 1 # 0 /\ i + 1 # 1
      BY <1>4
    <3> QED BY <3>1 DEF Simple
  <2>4. f[x[i]] = x[i + 1] /\ g[x[i + 1]] = x[i]
    BY DEF Circle
  <2> QED BY <1>1, <2>1, <2>2, <2>3, <2>4
<1> QED BY <1>2, <1>3, <1>4

(* __list_splice() of x between places k - 1 and k of z.                   *)
SpliceLinks(fn, gn, f, g, C, x, n, z, k) ==
    /\ fn[z[k - 1]] = x[1] /\ fn[x[n]] = z[k]
    /\ Agree(fn, f, C, {x[n], z[k - 1], x[0]})
    /\ gn[x[1]] = z[k - 1] /\ gn[z[k]] = x[n]
    /\ Agree(gn, g, C, {x[1], z[k], x[0]})

LEMMA CircleSplice ==
    ASSUME NEW C, NEW n \in Nat \ {0}, NEW x, Simple(x, n, C),
           NEW m \in Nat, NEW z, Simple(z, m, C),
           Disjoint(x, n, z, m),
           NEW f, NEW g, Circle(f, g, x, n), Circle(f, g, z, m), NEW k \in 1 .. m + 1,
           NEW y, SplicePlaces(y, x, n, z, m, k),
           NEW fn, NEW gn, SpliceLinks(fn, gn, f, g, C, x, n, z, k)
    PROVE  Circle(fn, gn, y, n + m)
<1> USE DEF Agree, Misses, Disjoint, SplicePlaces, SpliceLinks
<1>1. \A i \in 0 .. n + 1 : x[i] \in C
  BY DEF Simple
<1>2. \A i \in 0 .. m + 1 : z[i] \in C
  BY DEF Simple
<1>3. \A i \in 0 .. n, j \in 0 .. m + 1 : x[i] # z[j]
  <2>1. \A i \in 0 .. n : x[i] # z[m + 1]
    BY DEF Simple
  <2> QED BY <2>1
<1> SUFFICES ASSUME NEW i \in 0 .. n + m
             PROVE  fn[y[i]] = y[i + 1] /\ gn[y[i + 1]] = y[i]
  BY DEF Circle
<1>4. CASE i < k - 1
  <2>1. y[i] = z[i] /\ y[i + 1] = z[i + 1] /\ i \in 0 .. m
    BY <1>4
  <2>2. z[i] # z[k - 1]
    BY <1>4 DEF Simple
  <2>3. z[i + 1] # z[k]
    <3>1. i + 1 \in 1 .. m + 1 /\ k \in 1 .. m + 1 /\ i + 1 # k
      BY <1>4
    <3> QED BY <3>1 DEF Simple
  <2>4. f[z[i]] = z[i + 1] /\ g[z[i + 1]] = z[i]
    BY <2>1 DEF Circle
  <2>5. fn[z[i]] = f[z[i]]
    BY <1>2, <1>3, <2>1, <2>2
  <2>6. gn[z[i + 1]] = g[z[i + 1]]
    <3>1. z[i + 1] # x[1] /\ z[i + 1] # x[0] /\ z[i + 1] \in C
      BY <1>2, <1>3, <2>1
    <3> QED BY <2>3, <3>1
  <2> QED BY <2>1, <2>4, <2>5, <2>6
<1>5. CASE i = k - 1
  BY <1>5
<1>6. CASE i >= k /\ i < k + n - 1
  <2>1. PICK j \in 1 .. n - 1 : j = i - k + 1
    BY <1>6
  <2>2. y[i] = x[j] /\ y[i + 1] = x[j + 1]
    BY <1>6, <2>1
  <2>3. x[j] # x[n] /\ x[j] # x[0] /\ x[j] # z[k - 1] /\ x[j] \in C
    BY <1>1, <1>3 DEF Simple
  <2>4. /\ x[j + 1] # x[1] /\ x[j + 1] # x[0] /\ x[j + 1] # z[k] /\ x[j + 1] \in C
    <3>1. j + 1 \in 0 .. n /\ j + 1 # 1 /\ j + 1 # 0
      OBVIOUS
    <3> QED BY <1>1, <1>3, <3>1 DEF Simple
  <2>5. f[x[j]] = x[j + 1] /\ g[x[j + 1]] = x[j]
    BY DEF Circle
  <2> QED BY <2>2, <2>3, <2>4, <2>5
<1>7. CASE i = k + n - 1
  <2>1. y[i] = x[n] /\ y[i + 1] = z[k]
    BY <1>7
  <2> QED BY <2>1
<1>8. CASE i > k + n - 1
  <2>1. PICK j \in k .. m : j = i - n
    BY <1>8
  <2>2. y[i] = z[j] /\ y[i + 1] = z[j + 1]
    BY <1>8, <2>1
  <2>3. z[j] # z[k - 1]
    BY DEF Simple
  <2>4. z[j + 1] # z[k]
    <3>1. j + 1 \in 1 .. m + 1 /\ k \in 1 .. m + 1 /\ j + 1 # k
      OBVIOUS
    <3> QED BY <3>1 DEF Simple
  <2>5. f[z[j]] = z[j + 1] /\ g[z[j + 1]] = z[j]
    BY DEF Circle
  <2>6. z[j] # x[n] /\ z[j] # x[0] /\ z[j] \in C
    BY <1>2, <1>3
  <2>7. z[j + 1] # x[1] /\ z[j + 1] # x[0] /\ z[j + 1] \in C
    <3>1. j + 1 \in 0 .. m + 1
      OBVIOUS
    <3> QED BY <1>2, <1>3, <3>1
  <2> QED BY <2>2, <2>3, <2>4, <2>5, <2>6, <2>7
<1> QED BY <1>4, <1>5, <1>6, <1>7, <1>8

(* __list_cut_position() behind place k: the entries up to it get the head *)
(* l, and the others keep theirs.                                          *)
CutLinks(fn, gn, f, g, C, x, l, k) ==
    /\ fn[l] = x[1] /\ fn[x[k]] = l /\ fn[x[0]] = x[k + 1]
    /\ Agree(fn, f, C, {l, x[k], x[0]})
    /\ gn[x[1]] = l /\ gn[l] = x[k] /\ gn[x[k + 1]] = x[0]
    /\ Agree(gn, g, C, {l, x[1], x[k + 1]})

LEMMA CircleCut ==
    ASSUME NEW C, NEW n \in Nat, NEW x, Simple(x, n, C),
           NEW f, NEW g, Circle(f, g, x, n), NEW k \in 1 .. n,
           NEW l \in C, Misses(x, n, l),
           NEW y, HeadPlaces(y, x, k, l),
           NEW z, RestPlaces(z, x, n, k),
           NEW fn, NEW gn, CutLinks(fn, gn, f, g, C, x, l, k)
    PROVE  Circle(fn, gn, y, k) /\ Circle(fn, gn, z, n - k)
<1> USE DEF Agree, Misses, HeadPlaces, RestPlaces, CutLinks
<1>1. \A i \in 0 .. n + 1 : x[i] \in C /\ x[i] # l
  <2>1. x[n + 1] # l
    BY DEF Simple
  <2> QED BY <2>1 DEF Simple
<1>2. ASSUME NEW i \in 1 .. n, i # k
      PROVE  fn[x[i]] = x[i + 1] /\ gn[x[i + 1]] = x[i]
  <2>1. x[i] # x[k] /\ x[i] # x[0]
    BY <1>2 DEF Simple
  <2>2. x[i + 1] # x[1] /\ x[i + 1] # x[k + 1]
    <3>1. /\ i + 1 \in 1 .. n + 1 /\ k + 1 \in 1 .. n + 1 /\ 1 \in 1 .. n + 1
          /\ i + 1 # 1 /\ i + 1 # k + 1
      BY <1>2
    <3> QED BY <3>1 DEF Simple
  <2>3. f[x[i]] = x[i + 1] /\ g[x[i + 1]] = x[i]
    BY DEF Circle
  <2>4. x[i] \in C /\ x[i] # l /\ x[i + 1] \in C /\ x[i + 1] # l
    BY <1>1
  <2> QED BY <2>1, <2>2, <2>3, <2>4
<1>3. Circle(fn, gn, y, k)
  <2> SUFFICES ASSUME NEW i \in 0 .. k
               PROVE  fn[y[i]] = y[i + 1] /\ gn[y[i + 1]] = y[i]
    BY DEF Circle
  <2>1. CASE i = 0
    BY <2>1
  <2>2. CASE i = k
    BY <2>2
  <2>3. CASE i # 0 /\ i # k
    <3>1. y[i] = x[i] /\ y[i + 1] = x[i + 1] /\ i \in 1 .. n
      BY <2>3
    <3> QED BY <1>2, <2>3, <3>1
  <2> QED BY <2>1, <2>2, <2>3
<1>4. Circle(fn, gn, z, n - k)
  <2> SUFFICES ASSUME NEW i \in 0 .. n - k
               PROVE  fn[z[i]] = z[i + 1] /\ gn[z[i + 1]] = z[i]
    BY DEF Circle
  <2>1. CASE i = 0
    BY <2>1
  <2>2. CASE i # 0
    <3>1. PICK j \in k + 1 .. n : j = k + i
      BY <2>2
    <3>2. z[i] = x[j] /\ z[i + 1] = x[j + 1] /\ j \in 1 .. n /\ j # k
      BY <2>2, <3>1
    <3> QED BY <1>2, <3>2
  <2> QED BY <2>1, <2>2
<1> QED BY <1>3, <1>4

-----------------------------------------------------------------------------
(* The state of the rings, as a predicate of its parts.                    *)
Cells == Heads \cup Nodes
Pointers == [Cells -> Cells \cup {LIST_POISON}]
Links == [next : Pointers, prev : Pointers]

\* The ring of the head h with the entries s, place by place.
Places(h, s) == [i \in 0 .. Len(s) + 1 |-> RingAt(h, s, i)]
Turns(L, h, s) == Circle(L.next, L.prev, Places(h, s), Len(s))

\* No entry is in two lists, or twice in one.
Separate(ls) ==
    \A g, h \in Heads : \A i \in 1 .. Len(ls[g]), j \in 1 .. Len(ls[h]) :
        ls[g][i] = ls[h][j] => g = h /\ i = j
Unlinked(n, ls) == \A h \in Heads : \A i \in 1 .. Len(ls[h]) : ls[h][i] # n

RingsState(L, ls, us, id) ==
    /\ L \in Links /\ ls \in [Heads -> Seq(Nodes)]
    /\ us \subseteq Heads /\ id \subseteq Nodes
    /\ Separate(ls)
    /\ \A h \in Heads \ us : ls[h] = <<>>
    /\ \A h \in us : Turns(L, h, ls[h])
    /\ \A n \in id : Unlinked(n, ls) /\ L.next[n] = n /\ L.prev[n] = n

LEMMA PlacesAre ==
    ASSUME NEW h \in Heads, NEW s \in Seq(Nodes)
    PROVE  /\ Len(s) \in Nat
           /\ Places(h, s) \in [0 .. Len(s) + 1 -> Cells]
           /\ Places(h, s)[0] = h /\ Places(h, s)[Len(s) + 1] = h
           /\ \A i \in 1 .. Len(s) : Places(h, s)[i] = s[i] /\ s[i] \in Nodes
<1>1. Len(s) \in Nat /\ DOMAIN s = 1 .. Len(s) /\ \A i \in 1 .. Len(s) : s[i] \in Nodes
  BY LenProperties, ElementOfSeq
<1>2. \A i \in 0 .. Len(s) + 1 :
         Places(h, s)[i] = IF i \in 1 .. Len(s) THEN s[i] ELSE h
  BY <1>1 DEF Places, RingAt
<1>3. Places(h, s) \in [0 .. Len(s) + 1 -> Cells]
  BY <1>1 DEF Places, RingAt, Cells
<1> QED BY <1>1, <1>2, <1>3

LEMMA PlacesOf ==
    ASSUME NEW h \in Heads, NEW s \in Seq(Nodes), NEW i \in 0 .. Len(s) + 1
    PROVE  /\ Places(h, s)[i] \in Cells
           /\ Places(h, s)[i] = h \/ Places(h, s)[i] \in Nodes
<1>1. i \in 1 .. Len(s) \/ i = 0 \/ i = Len(s) + 1
  BY PlacesAre
<1> QED BY <1>1, PlacesAre

LEMMA RingTurns ==
    ASSUME NEW L, NEW h \in Heads, NEW s \in Seq(Nodes)
    PROVE  Ring(L, h, s) <=> Turns(L, h, s)
<1>1. Len(s) \in Nat
  BY LenProperties
<1>2. \A i \in 0 .. Len(s) + 1 : Places(h, s)[i] = RingAt(h, s, i)
  BY DEF Places
<1>3. \A i \in 0 .. Len(s) : i \in 0 .. Len(s) + 1 /\ i + 1 \in 0 .. Len(s) + 1
  BY <1>1
<1> QED BY <1>2, <1>3 DEF Ring, Turns, Circle

LEMMA PlacesSimple ==
    ASSUME NEW ls \in [Heads -> Seq(Nodes)], Separate(ls), NEW h \in Heads
    PROVE  Simple(Places(h, ls[h]), Len(ls[h]), Cells)
<1> DEFINE s == ls[h]
           x == Places(h, s)
<1>0. s \in Seq(Nodes)
  OBVIOUS
<1>1. /\ Len(s) \in Nat /\ x \in [0 .. Len(s) + 1 -> Cells]
      /\ x[0] = h /\ x[Len(s) + 1] = h
      /\ \A i \in 1 .. Len(s) : x[i] = s[i] /\ s[i] \in Nodes
  BY <1>0, PlacesAre
<1>2. \A i, j \in 1 .. Len(s) : s[i] = s[j] => i = j
  BY DEF Separate
<1>3. h \notin Nodes
  BY ListConstants
<1> HIDE DEF s, x
<1>4. \A i, j \in 0 .. Len(s) : x[i] = x[j] => i = j
  BY <1>1, <1>2, <1>3
<1>5. \A i, j \in 1 .. Len(s) + 1 : x[i] = x[j] => i = j
  <2>1. \A i \in 1 .. Len(s) + 1 : i = Len(s) + 1 \/ i \in 1 .. Len(s)
    BY <1>1
  <2>2. \A i, j \in 1 .. Len(s) : x[i] = x[j] => i = j
    BY <1>1, <1>2
  <2>3. \A i \in 1 .. Len(s) : x[i] # x[Len(s) + 1]
    BY <1>1, <1>3
  <2> QED BY <2>1, <2>2, <2>3
<1>6. Simple(x, Len(s), Cells)
  BY <1>1, <1>4, <1>5 DEF Simple
<1> QED BY <1>6 DEF s, x

LEMMA PlacesApart ==
    ASSUME NEW ls \in [Heads -> Seq(Nodes)], Separate(ls),
           NEW g \in Heads, NEW h \in Heads, g # h,
           NEW i \in 0 .. Len(ls[g]) + 1, NEW j \in 0 .. Len(ls[h]) + 1
    PROVE  Places(g, ls[g])[i] # Places(h, ls[h])[j]
<1>1. ls[g] \in Seq(Nodes) /\ ls[h] \in Seq(Nodes)
  OBVIOUS
<1>2. Len(ls[g]) \in Nat /\ Len(ls[h]) \in Nat
  BY <1>1, PlacesAre
<1>3. \/ i \in 1 .. Len(ls[g]) /\ Places(g, ls[g])[i] = ls[g][i] /\ ls[g][i] \in Nodes
      \/ Places(g, ls[g])[i] = g
  BY <1>1, <1>2, PlacesAre
<1>4. \/ j \in 1 .. Len(ls[h]) /\ Places(h, ls[h])[j] = ls[h][j] /\ ls[h][j] \in Nodes
      \/ Places(h, ls[h])[j] = h
  BY <1>1, <1>2, PlacesAre
<1>5. g \notin Nodes /\ h \notin Nodes
  BY ListConstants
<1> QED BY <1>3, <1>4, <1>5 DEF Separate

LEMMA PlacesMiss ==
    ASSUME NEW ls \in [Heads -> Seq(Nodes)], NEW n \in Nodes, Unlinked(n, ls),
           NEW h \in Heads, NEW i \in 0 .. Len(ls[h]) + 1
    PROVE  Places(h, ls[h])[i] # n
<1>1. ls[h] \in Seq(Nodes)
  OBVIOUS
<1>2. Len(ls[h]) \in Nat
  BY <1>1, PlacesAre
<1>3. \/ i \in 1 .. Len(ls[h]) /\ Places(h, ls[h])[i] = ls[h][i]
      \/ Places(h, ls[h])[i] = h
  BY <1>1, <1>2, PlacesAre
<1> QED BY <1>3, ListConstants DEF Unlinked

\* The pointers of a ring are the same in M and L.
Same(M, L, h, s) ==
    \A i \in 0 .. Len(s) : LET c == Places(h, s)[i]
                           IN M.next[c] = L.next[c] /\ M.prev[c] = L.prev[c]

(* A ring whose pointers stay as they are.                                 *)
LEMMA RingKept ==
    ASSUME NEW L, NEW ls, NEW us, NEW id, RingsState(L, ls, us, id), NEW h \in us,
           NEW M, Same(M, L, h, ls[h])
    PROVE  Turns(M, h, ls[h])
<1>1. ls \in [Heads -> Seq(Nodes)] /\ Separate(ls) /\ h \in Heads /\ Turns(L, h, ls[h])
  BY DEF RingsState
<1>2. Simple(Places(h, ls[h]), Len(ls[h]), Cells)
  BY <1>1, PlacesSimple
<1>3. ls[h] \in Seq(Nodes)
  BY <1>1
<1>4. Len(ls[h]) \in Nat
  BY <1>3, LenProperties
<1> DEFINE x == Places(h, ls[h])
           n == Len(ls[h])
<1>5. Circle(L.next, L.prev, x, n)
  BY <1>1 DEF Turns
<1>6. \A i \in 0 .. n : M.next[x[i]] = L.next[x[i]] /\ M.prev[x[i]] = L.prev[x[i]]
  BY DEF Same
<1>7. Simple(x, n, Cells) /\ n \in Nat
  BY <1>2, <1>4
<1> HIDE DEF x, n
<1>8. Circle(M.next, M.prev, x, n)
  BY <1>5, <1>6, <1>7, CircleKept
<1> QED BY <1>8 DEF Turns, x, n

-----------------------------------------------------------------------------
(* What the operations of list.h do to the pointers of each cell.          *)
Differ(M, L, A, B) ==
    Agree(M.next, L.next, Cells, A) /\ Agree(M.prev, L.prev, Cells, B)

LEMMA LinksFields ==
    ASSUME NEW L \in Links
    PROVE  /\ L.next \in Pointers /\ L.prev \in Pointers
           /\ \A c \in Cells : L.next[c] \in Cells \cup {LIST_POISON}
           /\ \A c \in Cells : L.prev[c] \in Cells \cup {LIST_POISON}
BY DEF Links, Pointers

LEMMA InitPointers ==
    ASSUME NEW L \in Links, NEW c \in Cells
    PROVE  LET M == INIT_LIST_HEAD(L, c)
           IN M \in Links /\ M.next[c] = c /\ M.prev[c] = c /\ Differ(M, L, {c}, {c})
BY DEF INIT_LIST_HEAD, Links, Pointers, Differ, Agree

LEMMA PoisonPointers ==
    ASSUME NEW L \in Links, NEW c \in Cells
    PROVE  LET M == [L EXCEPT !.next[c] = LIST_POISON, !.prev[c] = LIST_POISON]
           IN M \in Links /\ Differ(M, L, {c}, {c})
BY DEF Links, Pointers, Differ, Agree

\* M has the entry e between p and q, and is L otherwise.
Between(M, L, e, p, q) ==
    /\ M \in Links
    /\ M.next[e] = q /\ M.next[p] = e
    /\ M.prev[e] = p /\ M.prev[q] = e
    /\ Differ(M, L, {e, p}, {e, q})

LEMMA AddPointers ==
    ASSUME NEW L \in Links, NEW e \in Cells, NEW p \in Cells, NEW q \in Cells,
           e # p, e # q
    PROVE  Between(__list_add(L, e, p, q), L, e, p, q)
BY DEF Between, __list_add, Links, Pointers, Differ, Agree

LEMMA DelPointers ==
    ASSUME NEW L \in Links, NEW p \in Cells, NEW q \in Cells
    PROVE  LET M == __list_del(L, p, q)
           IN M \in Links /\ M.next[p] = q /\ M.prev[q] = p /\ Differ(M, L, {p}, {q})
BY DEF __list_del, Links, Pointers, Differ, Agree

LEMMA ReplacePointers ==
    ASSUME NEW L \in Links, NEW old \in Cells, NEW new \in Cells, old # new,
           NEW p \in Cells, NEW q \in Cells, L.prev[old] = p, L.next[old] = q,
           old # p, old # q, new # p, new # q
    PROVE  Between(list_replace(L, old, new), L, new, p, q)
BY DEF Between, list_replace, Links, Pointers, Differ, Agree

(* A head that is empty gives the new one its own pointers to itself.      *)
LEMMA ReplaceEmptyPointers ==
    ASSUME NEW L \in Links, NEW old \in Cells, NEW new \in Cells, old # new,
           L.prev[old] = old, L.next[old] = old
    PROVE  LET M == list_replace(L, old, new)
           IN /\ M \in Links
              /\ M.next[new] = new /\ M.prev[new] = new
              /\ Differ(M, L, {new}, {new, old})
BY DEF list_replace, Links, Pointers, Differ, Agree

\* M has the entries from a to b between p and q, and is L otherwise.
Joined(M, L, p, a, b, q) ==
    /\ M \in Links
    /\ M.next[p] = a /\ M.next[b] = q
    /\ M.prev[a] = p /\ M.prev[q] = b
    /\ Differ(M, L, {p, b}, {a, q})

LEMMA SplicePointers ==
    ASSUME NEW L \in Links, NEW list \in Cells, NEW p \in Cells, NEW q \in Cells,
           NEW a \in Cells, NEW b \in Cells, L.next[list] = a, L.prev[list] = b,
           b # p, a # q
    PROVE  Joined(__list_splice(L, list, p, q), L, p, a, b, q)
BY DEF Joined, __list_splice, Links, Pointers, Differ, Agree

\* M has the entries from a to e in the ring of list, and those from b on in
\* that of head.
Parted(M, L, list, head, e, a, b) ==
    /\ M \in Links
    /\ M.next[list] = a /\ M.next[e] = list /\ M.next[head] = b
    /\ M.prev[a] = list /\ M.prev[list] = e /\ M.prev[b] = head
    /\ Differ(M, L, {list, e, head}, {list, a, b})

LEMMA CutPointers ==
    ASSUME NEW L \in Links, NEW list \in Cells, NEW head \in Cells, NEW e \in Cells,
           NEW a \in Cells, NEW b \in Cells, L.next[head] = a, L.next[e] = b,
           list \notin {head, e, a, b}, head # e, a # b
    PROVE  Parted(__list_cut_position(L, list, head, e), L, list, head, e, a, b)
BY DEF Parted, __list_cut_position, Links, Pointers, Differ, Agree

-----------------------------------------------------------------------------
(* What the operations do to the state of the rings.                       *)

LEMMA SeparateFewer ==
    ASSUME NEW ls \in [Heads -> Seq(Nodes)], Separate(ls), NEW h \in Heads
    PROVE  Separate([ls EXCEPT ![h] = <<>>])
<1> DEFINE lt == [ls EXCEPT ![h] = <<>>]
<1>1. \A g \in Heads : lt[g] = IF g = h THEN <<>> ELSE ls[g]
  OBVIOUS
<1>2. Len(<<>>) = 0
  OBVIOUS
<1> HIDE DEF lt
<1>3. Separate(lt)
  BY <1>1, <1>2 DEF Separate
<1> QED BY <1>3 DEF lt

\* lt is ls without the entry at place k of h, or with e there.
Removed(lt, ls, h, k) == lt = [ls EXCEPT ![h] = RemoveAt(@, k)]
Inserted(lt, ls, h, k, e) == lt = [ls EXCEPT ![h] = InsertAt(@, k, e)]

LEMMA SeparateAt ==
    ASSUME NEW ls, Separate(ls), NEW f \in Heads, NEW g \in Heads,
           NEW a \in 1 .. Len(ls[f]), NEW b \in 1 .. Len(ls[g]), ls[f][a] = ls[g][b]
    PROVE  f = g /\ a = b
BY DEF Separate

LEMMA SeparateRemoved ==
    ASSUME NEW ls \in [Heads -> Seq(Nodes)], Separate(ls),
           NEW h \in Heads, NEW k \in 1 .. Len(ls[h]), NEW lt, Removed(lt, ls, h, k)
    PROVE  /\ lt \in [Heads -> Seq(Nodes)]
           /\ Separate(lt)
           /\ Unlinked(ls[h][k], lt)
           /\ \A n : Unlinked(n, ls) => Unlinked(n, lt)
<1>0. ls[h] \in Seq(Nodes)
  OBVIOUS
<1>1. Len(ls[h]) \in Nat
  BY <1>0, LenProperties
<1>2. /\ RemoveAt(ls[h], k) \in Seq(Nodes)
      /\ Len(RemoveAt(ls[h], k)) = Len(ls[h]) - 1
      /\ \A j \in 1 .. Len(ls[h]) - 1 :
            RemoveAt(ls[h], k)[j] = IF j < k THEN ls[h][j] ELSE ls[h][j + 1]
  BY <1>0, RemovedAt
<1>3. \A g \in Heads : lt[g] = IF g = h THEN RemoveAt(ls[h], k) ELSE ls[g]
  BY DEF Removed
<1>4. lt \in [Heads -> Seq(Nodes)]
  BY <1>2 DEF Removed
<1>5. \A g \in Heads : \A i \in 1 .. Len(lt[g]) :
         \E j \in 1 .. Len(ls[g]) :
            /\ lt[g][i] = ls[g][j]
            /\ j = IF g = h /\ i >= k THEN i + 1 ELSE i
  <2> SUFFICES ASSUME NEW g \in Heads, NEW i \in 1 .. Len(lt[g])
               PROVE  \E j \in 1 .. Len(ls[g]) :
                         /\ lt[g][i] = ls[g][j]
                         /\ j = IF g = h /\ i >= k THEN i + 1 ELSE i
    OBVIOUS
  <2>1. CASE g = h
    BY <1>1, <1>2, <1>3, <2>1
  <2>2. CASE g # h
    BY <1>3, <2>2
  <2> QED BY <2>1, <2>2
<1>6. Separate(lt)
  <2> SUFFICES ASSUME NEW f \in Heads, NEW g \in Heads,
                      NEW i \in 1 .. Len(lt[f]), NEW j \in 1 .. Len(lt[g]),
                      lt[f][i] = lt[g][j]
               PROVE  f = g /\ i = j
    BY DEF Separate
  <2>1. PICK a \in 1 .. Len(ls[f]) :
           /\ lt[f][i] = ls[f][a]
           /\ a = IF f = h /\ i >= k THEN i + 1 ELSE i
    BY <1>5
  <2>2. PICK b \in 1 .. Len(ls[g]) :
           /\ lt[g][j] = ls[g][b]
           /\ b = IF g = h /\ j >= k THEN j + 1 ELSE j
    BY <1>5
  <2>3. f = g /\ a = b
    <3>1. ls[f][a] = ls[g][b]
      BY <2>1, <2>2
    <3> QED BY <3>1, SeparateAt
  <2>4. lt[f] \in Seq(Nodes) /\ lt[g] \in Seq(Nodes)
    BY <1>4
  <2>5. i \in Int /\ j \in Int
    BY <2>4, LenProperties
  <2> QED BY <2>1, <2>2, <2>3, <2>5
<1>7. Unlinked(ls[h][k], lt)
  <2> SUFFICES ASSUME NEW g \in Heads, NEW i \in 1 .. Len(lt[g]), lt[g][i] = ls[h][k]
               PROVE  FALSE
    BY DEF Unlinked
  <2>1. PICK j \in 1 .. Len(ls[g]) :
           /\ lt[g][i] = ls[g][j]
           /\ j = IF g = h /\ i >= k THEN i + 1 ELSE i
    BY <1>5
  <2>2. g = h /\ j = k
    <3>1. ls[g][j] = ls[h][k]
      BY <2>1
    <3> QED BY <3>1, SeparateAt
  <2>3. lt[g] \in Seq(Nodes)
    BY <1>4
  <2>4. i \in Int
    BY <2>3, LenProperties
  <2> QED BY <1>1, <2>1, <2>2, <2>4
<1>8. \A n : Unlinked(n, ls) => Unlinked(n, lt)
  BY <1>5 DEF Unlinked
<1> QED BY <1>4, <1>6, <1>7, <1>8

LEMMA SeparateInserted ==
    ASSUME NEW ls \in [Heads -> Seq(Nodes)], Separate(ls),
           NEW h \in Heads, NEW k \in 1 .. Len(ls[h]) + 1,
           NEW e \in Nodes, Unlinked(e, ls), NEW lt, Inserted(lt, ls, h, k, e)
    PROVE  /\ lt \in [Heads -> Seq(Nodes)]
           /\ Separate(lt)
           /\ \A n : n # e /\ Unlinked(n, ls) => Unlinked(n, lt)
<1>0. ls[h] \in Seq(Nodes)
  OBVIOUS
<1>1. Len(ls[h]) \in Nat
  BY <1>0, LenProperties
<1>2. /\ InsertAt(ls[h], k, e) \in Seq(Nodes)
      /\ Len(InsertAt(ls[h], k, e)) = Len(ls[h]) + 1
      /\ \A j \in 1 .. Len(ls[h]) + 1 :
            InsertAt(ls[h], k, e)[j] = IF j < k THEN ls[h][j]
                                       ELSE IF j = k THEN e ELSE ls[h][j - 1]
  <2>1. ASSUME NEW s \in Seq(Nodes), NEW a \in 1 .. Len(s) + 1
        PROVE  /\ InsertAt(s, a, e) \in Seq(Nodes)
               /\ Len(InsertAt(s, a, e)) = Len(s) + 1
               /\ \A j \in 1 .. Len(s) + 1 :
                     InsertAt(s, a, e)[j] = IF j < a THEN s[j]
                                            ELSE IF j = a THEN e ELSE s[j - 1]
    BY InsertedAt
  <2> QED BY <1>0, <2>1, Zenon
<1>3. \A g \in Heads : lt[g] = IF g = h THEN InsertAt(ls[h], k, e) ELSE ls[g]
  BY DEF Inserted
<1>4. lt \in [Heads -> Seq(Nodes)]
  BY <1>2 DEF Inserted
<1>5. \A g \in Heads : \A i \in 1 .. Len(lt[g]) :
         \/ lt[g][i] = e /\ g = h /\ i = k
         \/ /\ g = h => i # k
            /\ \E j \in 1 .. Len(ls[g]) :
                  /\ lt[g][i] = ls[g][j]
                  /\ j = IF g = h /\ i > k THEN i - 1 ELSE i
  <2> SUFFICES ASSUME NEW g \in Heads, NEW i \in 1 .. Len(lt[g])
               PROVE  \/ lt[g][i] = e /\ g = h /\ i = k
                      \/ /\ g = h => i # k
                         /\ \E j \in 1 .. Len(ls[g]) :
                               /\ lt[g][i] = ls[g][j]
                               /\ j = IF g = h /\ i > k THEN i - 1 ELSE i
    OBVIOUS
  <2>1. CASE g = h
    BY <1>1, <1>2, <1>3, <2>1
  <2>2. CASE g # h
    BY <1>3, <2>2
  <2> QED BY <2>1, <2>2
<1>6. Separate(lt)
  <2> SUFFICES ASSUME NEW f \in Heads, NEW g \in Heads,
                      NEW i \in 1 .. Len(lt[f]), NEW j \in 1 .. Len(lt[g]),
                      lt[f][i] = lt[g][j]
               PROVE  f = g /\ i = j
    BY DEF Separate
  <2>1. \A g1 \in Heads : \A j1 \in 1 .. Len(ls[g1]) : ls[g1][j1] # e
    BY DEF Unlinked
  <2>2. CASE lt[f][i] = e
    <3>1. f = h /\ i = k
      <4>1. ASSUME NEW a \in 1 .. Len(ls[f]), lt[f][i] = ls[f][a]
            PROVE  FALSE
        BY <2>1, <2>2, <4>1
      <4> QED BY <1>5, <4>1
    <3>2. g = h /\ j = k
      <4>1. ASSUME NEW a \in 1 .. Len(ls[g]), lt[g][j] = ls[g][a]
            PROVE  FALSE
        BY <2>1, <2>2, <4>1
      <4> QED BY <1>5, <4>1
    <3> QED BY <3>1, <3>2
  <2>3. CASE lt[f][i] # e
    <3>1. PICK a \in 1 .. Len(ls[f]) :
             /\ lt[f][i] = ls[f][a]
             /\ a = IF f = h /\ i > k THEN i - 1 ELSE i
             /\ f = h => i # k
      BY <1>5, <2>3
    <3>2. PICK b \in 1 .. Len(ls[g]) :
             /\ lt[g][j] = ls[g][b]
             /\ b = IF g = h /\ j > k THEN j - 1 ELSE j
             /\ g = h => j # k
      BY <1>5, <2>3
    <3>3. f = g /\ a = b
      <4>1. ls[f][a] = ls[g][b]
        BY <3>1, <3>2
      <4> QED BY <4>1, SeparateAt
    <3>4. lt[f] \in Seq(Nodes) /\ lt[g] \in Seq(Nodes)
      BY <1>4
    <3>5. i \in Int /\ j \in Int /\ k \in Int
      BY <1>1, <3>4, LenProperties
    <3> QED BY <3>1, <3>2, <3>3, <3>5
  <2> QED BY <2>2, <2>3
<1>7. ASSUME NEW n, n # e, Unlinked(n, ls)
      PROVE  Unlinked(n, lt)
  <2> SUFFICES ASSUME NEW g \in Heads, NEW i \in 1 .. Len(lt[g])
               PROVE  lt[g][i] # n
    BY DEF Unlinked
  <2>1. \A j \in 1 .. Len(ls[g]) : ls[g][j] # n
    BY <1>7 DEF Unlinked
  <2>2. CASE lt[g][i] = e
    BY <1>7, <2>2
  <2>3. CASE lt[g][i] # e
    <3>1. \E j \in 1 .. Len(ls[g]) : lt[g][i] = ls[g][j]
      BY <1>5, <2>3
    <3> QED BY <2>1, <3>1
  <2> QED BY <2>2, <2>3
<1> QED BY <1>4, <1>6, <1>7

(* What a state says of each ring, in the form the lemmas need.            *)
LEMMA StateFacts ==
    ASSUME NEW L, NEW ls, NEW us, NEW id, RingsState(L, ls, us, id), NEW h \in Heads
    PROVE  /\ L \in Links /\ ls \in [Heads -> Seq(Nodes)] /\ Separate(ls)
           /\ us \in SUBSET Heads /\ id \in SUBSET Nodes
           /\ ls[h] \in Seq(Nodes) /\ Len(ls[h]) \in Nat
           /\ Simple(Places(h, ls[h]), Len(ls[h]), Cells)
           /\ h \in us => Circle(L.next, L.prev, Places(h, ls[h]), Len(ls[h]))
<1>1. L \in Links /\ ls \in [Heads -> Seq(Nodes)] /\ Separate(ls)
  BY DEF RingsState
<1>2. us \in SUBSET Heads /\ id \in SUBSET Nodes
  BY DEF RingsState
<1>3. Simple(Places(h, ls[h]), Len(ls[h]), Cells)
  BY <1>1, PlacesSimple
<1>4. ls[h] \in Seq(Nodes) /\ Len(ls[h]) \in Nat
  BY <1>1, LenProperties
<1>5. h \in us => Circle(L.next, L.prev, Places(h, ls[h]), Len(ls[h]))
  BY DEF RingsState, Turns
<1> QED BY <1>1, <1>2, <1>3, <1>4, <1>5

(* The pointers of a cell that is in no ring may change.                   *)
LEMMA StateStray ==
    ASSUME NEW L, NEW ls, NEW us, NEW id, RingsState(L, ls, us, id), NEW c \in Cells,
           \/ c \in Nodes /\ Unlinked(c, ls) /\ c \notin id
           \/ c \in Heads /\ c \notin us,
           NEW M \in Links, Differ(M, L, {c}, {c})
    PROVE  RingsState(M, ls, us, id)
<1>1. /\ ls \in [Heads -> Seq(Nodes)] /\ Separate(ls)
      /\ us \in SUBSET Heads /\ id \in SUBSET Nodes
      /\ \A h \in Heads \ us : ls[h] = <<>>
      /\ \A n \in id : Unlinked(n, ls) /\ L.next[n] = n /\ L.prev[n] = n
  BY DEF RingsState
<1>2. \A h \in us : \A i \in 0 .. Len(ls[h]) :
         Places(h, ls[h])[i] \in Cells /\ Places(h, ls[h])[i] # c
  <2> SUFFICES ASSUME NEW h \in us, NEW i \in 0 .. Len(ls[h])
               PROVE  Places(h, ls[h])[i] \in Cells /\ Places(h, ls[h])[i] # c
    OBVIOUS
  <2>1. h \in Heads
    BY <1>1
  <2>2. ls[h] \in Seq(Nodes) /\ Len(ls[h]) \in Nat
    BY <1>1, <2>1, LenProperties
  <2>3. i \in 0 .. Len(ls[h]) + 1
    BY <2>2
  <2>4. Places(h, ls[h])[i] \in Cells
    BY <2>1, <2>2, <2>3, PlacesAre
  <2>5. CASE c \in Nodes /\ Unlinked(c, ls)
    BY <1>1, <2>1, <2>3, <2>4, <2>5, PlacesMiss
  <2>6. CASE c \in Heads /\ c \notin us
    <3>1. \/ Places(h, ls[h])[i] \in Nodes
          \/ Places(h, ls[h])[i] = h
      BY <2>1, <2>2, <2>3, PlacesOf
    <3>2. c \notin Nodes /\ c # h
      BY <2>6, ListConstants
    <3> QED BY <2>4, <3>1, <3>2
  <2> QED BY <2>5, <2>6
<1>3. \A h \in us : Turns(M, h, ls[h])
  <2> TAKE h \in us
  <2>1. Same(M, L, h, ls[h])
    BY <1>2 DEF Differ, Agree, Same
  <2> QED BY <2>1, RingKept
<1>4. \A n \in id : M.next[n] = n /\ M.prev[n] = n
  <2> TAKE n \in id
  <2>1. n \in Cells /\ n # c
    BY <1>1, ListConstants DEF Cells
  <2> QED BY <1>1, <2>1 DEF Differ, Agree
<1> QED BY <1>1, <1>3, <1>4 DEF RingsState

LEMMA StateInitHead ==
    ASSUME NEW L, NEW ls, NEW us, NEW id, RingsState(L, ls, us, id), NEW h \in Heads
    PROVE  RingsState(INIT_LIST_HEAD(L, h), [ls EXCEPT ![h] = <<>>], us \cup {h}, id)
<1> DEFINE M == INIT_LIST_HEAD(L, h)
           lt == [ls EXCEPT ![h] = <<>>]
<1>1. /\ ls \in [Heads -> Seq(Nodes)] /\ Separate(ls) /\ L \in Links
      /\ us \in SUBSET Heads /\ id \in SUBSET Nodes
      /\ \A g \in Heads \ us : ls[g] = <<>>
      /\ \A n \in id : Unlinked(n, ls) /\ L.next[n] = n /\ L.prev[n] = n
  BY DEF RingsState
<1>2. h \in Cells
  BY DEF Cells
<1>3. M \in Links /\ M.next[h] = h /\ M.prev[h] = h /\ Differ(M, L, {h}, {h})
  BY <1>1, <1>2, InitPointers
<1>4. /\ lt \in [Heads -> Seq(Nodes)] /\ lt[h] = <<>>
      /\ \A g \in Heads : g # h => lt[g] = ls[g]
  BY <1>1
<1>5. Separate(lt)
  BY <1>1, SeparateFewer
<1> HIDE DEF M, lt
<1>6. Turns(M, h, lt[h])
  <2>1. Ring(M, h, <<>>)
    <3>1. Len(<<>>) = 0 /\ DOMAIN <<>> = {} /\ 0 .. 0 = {0}
      OBVIOUS
    <3>2. RingAt(h, <<>>, 0) = h /\ RingAt(h, <<>>, 0 + 1) = h
      BY <3>1 DEF RingAt
    <3> QED BY <1>3, <3>1, <3>2 DEF Ring
  <2>2. <<>> \in Seq(Nodes)
    OBVIOUS
  <2> QED BY <1>4, <2>1, <2>2, RingTurns
<1>7. ASSUME NEW g \in us, g # h
      PROVE  Same(M, L, g, ls[g])
  <2> SUFFICES ASSUME NEW i \in 0 .. Len(ls[g])
               PROVE  LET c == Places(g, ls[g])[i]
                      IN M.next[c] = L.next[c] /\ M.prev[c] = L.prev[c]
    BY DEF Same
  <2>1. ls[g] \in Seq(Nodes) /\ Len(ls[g]) \in Nat /\ g \in Heads
    BY <1>1, LenProperties
  <2>2. /\ Places(g, ls[g])[i] \in Cells
        /\ Places(g, ls[g])[i] = g \/ Places(g, ls[g])[i] \in Nodes
    BY <2>1, PlacesOf
  <2>3. Places(g, ls[g])[i] # h
    BY <1>7, <2>2, ListConstants
  <2> QED BY <1>3, <2>2, <2>3 DEF Differ, Agree
<1>8. \A n \in id : Unlinked(n, lt) /\ M.next[n] = n /\ M.prev[n] = n
  <2> TAKE n \in id
  <2>1. Unlinked(n, lt)
    <3> SUFFICES ASSUME NEW g \in Heads, NEW i \in 1 .. Len(lt[g]), lt[g][i] = n
                 PROVE  FALSE
      BY DEF Unlinked
    <3>1. g # h
      BY <1>4
    <3> QED BY <1>1, <1>4, <3>1 DEF Unlinked
  <2>2. n \in Cells /\ n # h
    BY <1>1, ListConstants DEF Cells
  <2> QED BY <1>1, <1>3, <2>1, <2>2 DEF Differ, Agree
<1>9. \A g \in Heads \ (us \cup {h}) : lt[g] = <<>>
  BY <1>1, <1>4
<1>10. \A g \in us \cup {h} : Turns(M, g, lt[g])
  <2> TAKE g \in us \cup {h}
  <2>1. CASE g # h
    BY <1>1, <1>4, <1>7, <2>1, RingKept
  <2> QED BY <1>6, <2>1
<1>11. RingsState(M, lt, us \cup {h}, id)
  <2>1. us \cup {h} \in SUBSET Heads
    BY <1>1
  <2> QED BY <1>1, <1>3, <1>4, <1>5, <1>8, <1>9, <1>10, <2>1 DEF RingsState
<1> QED BY <1>11 DEF M, lt

LEMMA StateInitNode ==
    ASSUME NEW L, NEW ls, NEW us, NEW id, RingsState(L, ls, us, id),
           NEW n \in Nodes, Unlinked(n, ls)
    PROVE  RingsState(INIT_LIST_HEAD(L, n), ls, us, id \cup {n})
<1> DEFINE M == INIT_LIST_HEAD(L, n)
<1>1. /\ ls \in [Heads -> Seq(Nodes)] /\ Separate(ls) /\ L \in Links
      /\ us \in SUBSET Heads /\ id \in SUBSET Nodes
      /\ \A g \in Heads \ us : ls[g] = <<>>
      /\ \A e \in id : Unlinked(e, ls) /\ L.next[e] = e /\ L.prev[e] = e
  BY DEF RingsState
<1>2. n \in Cells
  BY DEF Cells
<1>3. M \in Links /\ M.next[n] = n /\ M.prev[n] = n /\ Differ(M, L, {n}, {n})
  BY <1>1, <1>2, InitPointers
<1> HIDE DEF M
<1>4. RingsState(L, ls, us, id \ {n})
  <2>1. \A h \in us : Turns(L, h, ls[h])
    BY DEF RingsState
  <2> QED BY <1>1, <2>1 DEF RingsState
<1>5. RingsState(M, ls, us, id \ {n})
  BY <1>2, <1>3, <1>4, StateStray
<1>6. \A e \in id \cup {n} : Unlinked(e, ls) /\ M.next[e] = e /\ M.prev[e] = e
  BY <1>3, <1>5 DEF RingsState
<1>7. RingsState(M, ls, us, id \cup {n})
  BY <1>1, <1>5, <1>6 DEF RingsState
<1> QED BY <1>7 DEF M

\* The cell c is not in the ring of g.
Off(c, g, ls) == \A i \in 0 .. Len(ls[g]) : Places(g, ls[g])[i] # c

LEMMA OffRings ==
    ASSUME NEW L, NEW ls, NEW us, NEW id, RingsState(L, ls, us, id), NEW g \in Heads
    PROVE  /\ \A h \in Heads : g # h =>
                 \A i \in 0 .. Len(ls[h]) + 1 : Off(Places(h, ls[h])[i], g, ls)
           /\ \A n \in Nodes : Unlinked(n, ls) => Off(n, g, ls)
           /\ \A h \in Heads : g # h => Off(h, g, ls)
<1>1. /\ ls \in [Heads -> Seq(Nodes)] /\ Separate(ls)
      /\ ls[g] \in Seq(Nodes) /\ Len(ls[g]) \in Nat
  BY StateFacts
<1>2. \A i \in 0 .. Len(ls[g]) : i \in 0 .. Len(ls[g]) + 1
  BY <1>1
<1>3. ASSUME NEW h \in Heads, g # h, NEW i \in 0 .. Len(ls[h]) + 1
      PROVE  Off(Places(h, ls[h])[i], g, ls)
  <2> SUFFICES ASSUME NEW j \in 0 .. Len(ls[g])
               PROVE  Places(g, ls[g])[j] # Places(h, ls[h])[i]
    BY DEF Off
  <2> QED BY <1>1, <1>2, <1>3, PlacesApart
<1>4. ASSUME NEW n \in Nodes, Unlinked(n, ls)
      PROVE  Off(n, g, ls)
  <2> SUFFICES ASSUME NEW j \in 0 .. Len(ls[g])
               PROVE  Places(g, ls[g])[j] # n
    BY DEF Off
  <2> QED BY <1>1, <1>2, <1>4, PlacesMiss
<1>5. ASSUME NEW h \in Heads, g # h
      PROVE  Off(h, g, ls)
  <2> SUFFICES ASSUME NEW j \in 0 .. Len(ls[g])
               PROVE  Places(g, ls[g])[j] # h
    BY DEF Off
  <2>1. Places(g, ls[g])[j] = g \/ Places(g, ls[g])[j] \in Nodes
    BY <1>1, <1>2, PlacesOf
  <2> QED BY <1>5, <2>1, ListConstants
<1> QED BY <1>3, <1>4, <1>5

LEMMA RingOff ==
    ASSUME NEW L, NEW ls, NEW us, NEW id, RingsState(L, ls, us, id), NEW g \in us,
           NEW M, NEW A, NEW B, Differ(M, L, A, B),
           \A c \in A : Off(c, g, ls), \A c \in B : Off(c, g, ls)
    PROVE  Turns(M, g, ls[g])
<1>1. g \in Heads /\ ls[g] \in Seq(Nodes) /\ Len(ls[g]) \in Nat
  <2>1. g \in Heads
    BY DEF RingsState
  <2> QED BY <2>1, StateFacts
<1>2. Same(M, L, g, ls[g])
  <2> SUFFICES ASSUME NEW i \in 0 .. Len(ls[g])
               PROVE  LET c == Places(g, ls[g])[i]
                      IN M.next[c] = L.next[c] /\ M.prev[c] = L.prev[c]
    BY DEF Same
  <2>1. i \in 0 .. Len(ls[g]) + 1
    BY <1>1
  <2>2. Places(g, ls[g])[i] \in Cells
    BY <1>1, <2>1, PlacesOf
  <2>3. Places(g, ls[g])[i] \notin A /\ Places(g, ls[g])[i] \notin B
    BY DEF Off
  <2> QED BY <2>2, <2>3 DEF Differ, Agree
<1> QED BY <1>2, RingKept

LEMMA IdleOff ==
    ASSUME NEW L, NEW ls, NEW us, NEW id, RingsState(L, ls, us, id), NEW n \in id
    PROVE  /\ n \in Nodes /\ Unlinked(n, ls) /\ L.next[n] = n /\ L.prev[n] = n
           /\ \A h \in Heads : \A i \in 0 .. Len(ls[h]) + 1 : Places(h, ls[h])[i] # n
<1>1. /\ ls \in [Heads -> Seq(Nodes)] /\ n \in Nodes
      /\ Unlinked(n, ls) /\ L.next[n] = n /\ L.prev[n] = n
  BY DEF RingsState
<1> QED BY <1>1, PlacesMiss

LEMMA IdleKept ==
    ASSUME NEW L, NEW ls, NEW us, NEW id, RingsState(L, ls, us, id), NEW n \in id,
           NEW M, NEW A, NEW B, Differ(M, L, A, B), n \notin A, n \notin B
    PROVE  M.next[n] = n /\ M.prev[n] = n
<1>1. n \in Cells
  BY IdleOff DEF Cells
<1> QED BY <1>1, IdleOff DEF Differ, Agree

(* The ring of h around its place k.                                       *)
LEMMA AroundPlace ==
    ASSUME NEW L, NEW ls, NEW us, NEW id, RingsState(L, ls, us, id), NEW h \in us,
           NEW k \in 0 .. Len(ls[h])
    PROVE  LET x == Places(h, ls[h])
           IN /\ h \in Heads
              /\ x[k] \in Cells /\ x[k + 1] \in Cells
              /\ L.next[x[k]] = x[k + 1] /\ L.prev[x[k + 1]] = x[k]
              /\ k > 0 => x[k] = ls[h][k] /\ x[k] \in Nodes
              /\ k = 0 => x[k] = h
              /\ k = Len(ls[h]) => x[k + 1] = h
<1>1. h \in Heads
  BY DEF RingsState
<1>2. /\ ls[h] \in Seq(Nodes) /\ Len(ls[h]) \in Nat
      /\ Circle(L.next, L.prev, Places(h, ls[h]), Len(ls[h]))
  BY <1>1, StateFacts
<1>3. k \in 0 .. Len(ls[h]) + 1 /\ k + 1 \in 0 .. Len(ls[h]) + 1
  BY <1>2
<1>4. Places(h, ls[h])[k] \in Cells /\ Places(h, ls[h])[k + 1] \in Cells
  BY <1>1, <1>2, <1>3, PlacesOf
<1>5. /\ L.next[Places(h, ls[h])[k]] = Places(h, ls[h])[k + 1]
      /\ L.prev[Places(h, ls[h])[k + 1]] = Places(h, ls[h])[k]
  BY <1>2 DEF Circle
<1> DEFINE x == Places(h, ls[h])
<1>6. /\ x[0] = h /\ x[Len(ls[h]) + 1] = h
      /\ \A i \in 1 .. Len(ls[h]) : x[i] = ls[h][i] /\ ls[h][i] \in Nodes
  BY <1>1, <1>2, PlacesAre
<1> HIDE DEF x
<1>7. k > 0 => k \in 1 .. Len(ls[h])
  BY <1>2
<1>8. k > 0 => x[k] = ls[h][k] /\ x[k] \in Nodes
  BY <1>6, <1>7
<1>9. (k = 0 => x[k] = h) /\ (k = Len(ls[h]) => x[k + 1] = h)
  BY <1>6
<1> QED BY <1>1, <1>4, <1>5, <1>8, <1>9 DEF x

(* The places of a list after an entry has left it, or entered it.         *)
LEMMA PlacesRemoved ==
    ASSUME NEW ls \in [Heads -> Seq(Nodes)], NEW h \in Heads,
           NEW k \in 1 .. Len(ls[h]), NEW lt, Removed(lt, ls, h, k)
    PROVE  /\ Len(lt[h]) = Len(ls[h]) - 1
           /\ \A g \in Heads : g # h => lt[g] = ls[g]
           /\ RemovePlaces(Places(h, lt[h]), Places(h, ls[h]), Len(ls[h]), k)
<1> DEFINE x == Places(h, ls[h])
           m == Len(ls[h])
           y == Places(h, lt[h])
<1>1. ls[h] \in Seq(Nodes) /\ m \in Nat
  <2>1. ls[h] \in Seq(Nodes)
    OBVIOUS
  <2> QED BY <2>1, LenProperties
<1>2. /\ lt[h] = RemoveAt(ls[h], k)
      /\ \A g \in Heads : g # h => lt[g] = ls[g]
  BY DEF Removed
<1> HIDE DEF x, m, y
<1>3. /\ lt[h] \in Seq(Nodes) /\ Len(lt[h]) = m - 1
      /\ \A j \in 1 .. m - 1 : lt[h][j] = IF j < k THEN ls[h][j] ELSE ls[h][j + 1]
  BY <1>1, <1>2, RemovedAt DEF m
<1>4. k \in 1 .. m
  BY DEF m
<1>5. /\ x[0] = h /\ x[m + 1] = h
      /\ \A i \in 1 .. m : x[i] = ls[h][i]
  BY <1>1, PlacesAre DEF x, m
<1>6. /\ y[0] = h /\ y[m] = h
      /\ \A i \in 1 .. m - 1 : y[i] = lt[h][i]
  <2>1. /\ y[0] = h /\ y[Len(lt[h]) + 1] = h
        /\ \A i \in 1 .. Len(lt[h]) : y[i] = lt[h][i]
    BY <1>3, PlacesAre DEF y
  <2>2. (m - 1) + 1 = m
    BY <1>1
  <2> QED BY <1>3, <2>1, <2>2
<1>7. RemovePlaces(y, x, m, k)
  <2> SUFFICES ASSUME NEW i \in 0 .. m
               PROVE  y[i] = IF i < k THEN x[i] ELSE x[i + 1]
    BY DEF RemovePlaces
  <2>1. CASE i = 0
    BY <1>4, <1>5, <1>6, <2>1
  <2>2. CASE i = m
    BY <1>4, <1>5, <1>6, <2>2
  <2>3. CASE i \in 1 .. m - 1
    <3>1. i \in 1 .. m /\ i + 1 \in 1 .. m
      BY <1>1, <2>3
    <3> QED BY <1>3, <1>5, <1>6, <2>3, <3>1
  <2> QED BY <1>1, <2>1, <2>2, <2>3
<1> QED BY <1>2, <1>3, <1>7 DEF x, m, y

LEMMA PlacesInserted ==
    ASSUME NEW ls \in [Heads -> Seq(Nodes)], NEW h \in Heads, NEW e \in Nodes,
           NEW k \in 1 .. Len(ls[h]) + 1, NEW lt, Inserted(lt, ls, h, k, e)
    PROVE  /\ Len(lt[h]) = Len(ls[h]) + 1
           /\ \A g \in Heads : g # h => lt[g] = ls[g]
           /\ InsertPlaces(Places(h, lt[h]), Places(h, ls[h]), Len(ls[h]), k, e)
<1> DEFINE x == Places(h, ls[h])
           m == Len(ls[h])
           y == Places(h, lt[h])
<1>1. ls[h] \in Seq(Nodes) /\ m \in Nat
  <2>1. ls[h] \in Seq(Nodes)
    OBVIOUS
  <2> QED BY <2>1, LenProperties
<1>2. /\ lt[h] = InsertAt(ls[h], k, e)
      /\ \A g \in Heads : g # h => lt[g] = ls[g]
  BY DEF Inserted
<1>3. k \in 1 .. m + 1
  OBVIOUS
<1>4. /\ lt[h] \in Seq(Nodes) /\ Len(lt[h]) = m + 1
      /\ \A j \in 1 .. m + 1 :
            lt[h][j] = IF j < k THEN ls[h][j] ELSE IF j = k THEN e ELSE ls[h][j - 1]
  <2>1. /\ InsertAt(ls[h], k, e) \in Seq(Nodes)
        /\ Len(InsertAt(ls[h], k, e)) = Len(ls[h]) + 1
        /\ \A j \in 1 .. Len(ls[h]) + 1 :
              InsertAt(ls[h], k, e)[j] = IF j < k THEN ls[h][j]
                                         ELSE IF j = k THEN e ELSE ls[h][j - 1]
    <3>1. ASSUME NEW s \in Seq(Nodes), NEW a \in 1 .. Len(s) + 1
          PROVE  /\ InsertAt(s, a, e) \in Seq(Nodes)
                 /\ Len(InsertAt(s, a, e)) = Len(s) + 1
                 /\ \A j \in 1 .. Len(s) + 1 :
                       InsertAt(s, a, e)[j] = IF j < a THEN s[j]
                                              ELSE IF j = a THEN e ELSE s[j - 1]
      BY InsertedAt
    <3>2. ls[h] \in Seq(Nodes)
      BY <1>1
    <3> QED BY <3>1, <3>2, Zenon
  <2> QED BY <1>2, <2>1, Zenon
<1> HIDE DEF x, m, y
<1>5. /\ x[0] = h /\ x[m + 1] = h
      /\ \A i \in 1 .. m : x[i] = ls[h][i]
  BY <1>1, PlacesAre DEF x, m
<1>6. /\ y[0] = h /\ y[m + 2] = h
      /\ \A i \in 1 .. m + 1 : y[i] = lt[h][i]
  <2>1. /\ y[0] = h /\ y[Len(lt[h]) + 1] = h
        /\ \A i \in 1 .. Len(lt[h]) : y[i] = lt[h][i]
    BY <1>4, PlacesAre DEF y
  <2>2. (m + 1) + 1 = m + 2
    BY <1>1
  <2> QED BY <1>4, <2>1, <2>2
<1>7. InsertPlaces(y, x, m, k, e)
  <2> SUFFICES ASSUME NEW i \in 0 .. m + 2
               PROVE  y[i] = IF i < k THEN x[i] ELSE IF i = k THEN e ELSE x[i - 1]
    BY DEF InsertPlaces
  <2>1. CASE i = 0
    BY <1>3, <1>5, <1>6, <2>1
  <2>2. CASE i = m + 2
    <3>1. i # k /\ ~ (i < k) /\ i - 1 = m + 1
      BY <1>1, <1>3, <2>2
    <3> QED BY <1>5, <1>6, <2>2, <3>1
  <2>3. CASE i \in 1 .. m + 1
    <3>1. i < k => i \in 1 .. m
      BY <1>1, <1>3, <2>3
    <3>2. i > k => i - 1 \in 1 .. m
      BY <1>1, <1>3, <2>3
    <3>3. i < k \/ i = k \/ i > k
      BY <1>1, <1>3, <2>3
    <3> QED BY <1>1, <1>3, <1>4, <1>5, <1>6, <2>3, <3>1, <3>2, <3>3
  <2> QED BY <1>1, <2>1, <2>2, <2>3
<1> QED BY <1>2, <1>4, <1>7 DEF x, m, y

(* The entry at place k of the ring of h leaves it.                        *)
LEMMA StateUnlink ==
    ASSUME NEW L, NEW ls, NEW us, NEW id, RingsState(L, ls, us, id), NEW h \in us,
           NEW k \in 1 .. Len(ls[h]), NEW n, n = ls[h][k]
    PROVE  LET M == __list_del(L, L.prev[n], L.next[n])
               lt == [ls EXCEPT ![h] = RemoveAt(@, k)]
           IN /\ RingsState(M, lt, us, id)
              /\ n \in Nodes /\ n \notin id /\ Unlinked(n, lt)
              /\ M.next[n] = L.next[n] /\ M.prev[n] = L.prev[n]
<1> DEFINE x == Places(h, ls[h])
           m == Len(ls[h])
           M == __list_del(L, L.prev[n], L.next[n])
           lt == [ls EXCEPT ![h] = RemoveAt(@, k)]
           y == Places(h, lt[h])
<1> HIDE DEF x, m, M, lt, y
<1>1. /\ h \in Heads /\ L \in Links /\ ls \in [Heads -> Seq(Nodes)] /\ Separate(ls)
      /\ us \in SUBSET Heads /\ id \in SUBSET Nodes
      /\ ls[h] \in Seq(Nodes) /\ m \in Nat
      /\ Simple(x, m, Cells) /\ Circle(L.next, L.prev, x, m)
  <2>1. h \in Heads
    BY DEF RingsState
  <2> QED BY <2>1, StateFacts DEF x, m
<1>2. /\ k \in 1 .. m /\ k \in 0 .. m /\ k - 1 \in 0 .. m /\ k > 0 /\ (k - 1) + 1 = k
      /\ k - 1 \in 0 .. m + 1 /\ k \in 0 .. m + 1 /\ k + 1 \in 0 .. m + 1
  BY <1>1 DEF m
<1>3. /\ x[k] = n /\ n \in Nodes /\ x[k + 1] \in Cells /\ L.next[x[k]] = x[k + 1]
  BY <1>2, AroundPlace DEF x, m
<1>4. x[k - 1] \in Cells /\ L.prev[x[k]] = x[k - 1]
  <2>1. L.prev[x[(k - 1) + 1]] = x[k - 1]
    BY <1>2, AroundPlace DEF x, m
  <2> QED BY <1>2, <2>1, AroundPlace DEF x, m
<1>5. PICK p \in Cells, q \in Cells : p = x[k - 1] /\ q = x[k + 1]
  BY <1>3, <1>4
<1>6. M \in Links /\ M.next[p] = q /\ M.prev[q] = p /\ Differ(M, L, {p}, {q})
  <2>1. M = __list_del(L, p, q)
    BY <1>3, <1>4, <1>5 DEF M
  <2>2. L \in Links
    BY <1>1
  <2>3. LET D == __list_del(L, p, q)
        IN D \in Links /\ D.next[p] = q /\ D.prev[q] = p /\ Differ(D, L, {p}, {q})
    BY <2>2, DelPointers
  <2> QED BY <2>1, <2>3, Zenon
<1>7. /\ lt \in [Heads -> Seq(Nodes)] /\ Separate(lt) /\ Unlinked(n, lt)
      /\ \A e : Unlinked(e, ls) => Unlinked(e, lt)
  <2>1. ls \in [Heads -> Seq(Nodes)] /\ Separate(ls) /\ h \in Heads
    BY <1>1
  <2>2. Removed(lt, ls, h, k)
    BY DEF lt, Removed
  <2>3. /\ lt \in [Heads -> Seq(Nodes)] /\ Separate(lt) /\ Unlinked(ls[h][k], lt)
        /\ \A e : Unlinked(e, ls) => Unlinked(e, lt)
    BY <2>1, <2>2, SeparateRemoved
  <2> QED BY <2>3
<1>8. /\ Len(lt[h]) = m - 1
      /\ \A g \in Heads : g # h => lt[g] = ls[g]
      /\ RemovePlaces(y, x, m, k)
  <2>1. ls \in [Heads -> Seq(Nodes)] /\ h \in Heads
    BY <1>1
  <2>2. Removed(lt, ls, h, k)
    BY DEF lt, Removed
  <2> QED BY <2>1, <2>2, PlacesRemoved DEF x, m, y
<1>9. n # p /\ n # q
  <2>1. k \in 1 .. m + 1 /\ k + 1 \in 1 .. m + 1
    BY <1>1, <1>2
  <2> QED BY <1>1, <1>2, <1>3, <1>5, <2>1 DEF Simple
<1>10. Circle(M.next, M.prev, y, m - 1)
  <2>1. Agree(M.next, L.next, Cells, {x[k], x[k - 1]})
    BY <1>5, <1>6 DEF Differ, Agree
  <2>2. Agree(M.prev, L.prev, Cells, {x[k], x[k + 1]})
    BY <1>5, <1>6 DEF Differ, Agree
  <2>3. M.next[x[k - 1]] = x[k + 1] /\ M.prev[x[k + 1]] = x[k - 1]
    BY <1>5, <1>6
  <2>4. m \in Nat /\ Simple(x, m, Cells) /\ Circle(L.next, L.prev, x, m) /\ k \in 1 .. m
    BY <1>1, <1>2
  <2> QED BY <1>8, <2>1, <2>2, <2>3, <2>4, CircleRemove
<1>11. Turns(M, h, lt[h])
  BY <1>8, <1>10 DEF Turns, y
<1>12. ASSUME NEW g \in us, g # h
       PROVE  Turns(M, g, lt[g])
  <2>1. g \in Heads
    BY <1>1
  <2>2. Off(p, g, ls) /\ Off(q, g, ls)
    BY <1>1, <1>2, <1>5, <1>12, <2>1, OffRings DEF x, m
  <2>3. Turns(M, g, ls[g])
    BY <1>6, <2>2, RingOff
  <2> QED BY <1>8, <1>12, <2>1, <2>3
<1>13. \A e \in id : Unlinked(e, lt) /\ M.next[e] = e /\ M.prev[e] = e
  <2> TAKE e \in id
  <2>1. p # e /\ q # e
    BY <1>1, <1>2, <1>5, IdleOff DEF x, m
  <2>2. M.next[e] = e /\ M.prev[e] = e
    BY <1>6, <2>1, IdleKept
  <2> QED BY <1>7, <2>2, IdleOff
<1>14. \A g \in Heads \ us : lt[g] = <<>>
  BY <1>8 DEF RingsState
<1>15. \A g \in us : Turns(M, g, lt[g])
  BY <1>11, <1>12
<1>16. RingsState(M, lt, us, id)
  BY <1>1, <1>6, <1>7, <1>13, <1>14, <1>15 DEF RingsState
<1>17. n \notin id
  BY <1>1, <1>2, <1>3, IdleOff DEF x, m
<1>18. M.next[n] = L.next[n] /\ M.prev[n] = L.prev[n]
  <2>1. n \in Cells
    BY <1>3 DEF Cells
  <2> QED BY <1>6, <1>9, <2>1 DEF Differ, Agree
<1> QED BY <1>3, <1>7, <1>16, <1>17, <1>18 DEF M, lt

(* An entry enters the ring of h at place k.                               *)
LEMMA StateInsert ==
    ASSUME NEW L, NEW ls, NEW us, NEW id, RingsState(L, ls, us, id), NEW h \in us,
           NEW k \in 1 .. Len(ls[h]) + 1, NEW e \in Nodes, Unlinked(e, ls)
    PROVE  LET x == Places(h, ls[h])
           IN RingsState(__list_add(L, e, x[k - 1], x[k]),
                         [ls EXCEPT ![h] = InsertAt(@, k, e)], us, id \ {e})
<1> DEFINE x == Places(h, ls[h])
           m == Len(ls[h])
           M == __list_add(L, e, x[k - 1], x[k])
           lt == [ls EXCEPT ![h] = InsertAt(@, k, e)]
           y == Places(h, lt[h])
<1> HIDE DEF x, m, M, lt, y
<1>1. /\ h \in Heads /\ L \in Links /\ ls \in [Heads -> Seq(Nodes)] /\ Separate(ls)
      /\ us \in SUBSET Heads /\ id \in SUBSET Nodes
      /\ ls[h] \in Seq(Nodes) /\ m \in Nat
      /\ Simple(x, m, Cells) /\ Circle(L.next, L.prev, x, m)
  <2>1. h \in Heads
    BY DEF RingsState
  <2> QED BY <2>1, StateFacts DEF x, m
<1>2. /\ k \in 1 .. m + 1 /\ k - 1 \in 0 .. m /\ k \in Int
      /\ k - 1 \in 0 .. m + 1 /\ k \in 0 .. m + 1 /\ (k - 1) + 1 = k
  BY <1>1 DEF m
<1>3. x[k - 1] \in Cells /\ x[(k - 1) + 1] \in Cells
  BY <1>2, AroundPlace DEF x, m
<1>4. \A i \in 0 .. m + 1 : x[i] # e
  BY <1>1, PlacesMiss DEF x, m
<1>5. PICK p \in Cells, q \in Cells : p = x[k - 1] /\ q = x[k]
  BY <1>2, <1>3
<1>6. e \in Cells /\ e # p /\ e # q
  BY <1>2, <1>4, <1>5 DEF Cells
<1>7. /\ M \in Links /\ M.next[e] = q /\ M.next[p] = e
      /\ M.prev[e] = p /\ M.prev[q] = e /\ Differ(M, L, {e, p}, {e, q})
  <2>1. M = __list_add(L, e, p, q)
    BY <1>5 DEF M
  <2>2. L \in Links
    BY <1>1
  <2>3. Between(__list_add(L, e, p, q), L, e, p, q)
    BY <1>6, <2>2, AddPointers
  <2> QED BY <2>1, <2>3 DEF Between
<1>8. /\ lt \in [Heads -> Seq(Nodes)] /\ Separate(lt)
      /\ \A n : n # e /\ Unlinked(n, ls) => Unlinked(n, lt)
  <2>1. ls \in [Heads -> Seq(Nodes)] /\ Separate(ls) /\ h \in Heads
    BY <1>1
  <2>2. Inserted(lt, ls, h, k, e)
    BY DEF lt, Inserted
  <2>3. k \in 1 .. Len(ls[h]) + 1
    OBVIOUS
  <2> QED BY <2>1, <2>2, <2>3, SeparateInserted, Zenon
<1>9. /\ Len(lt[h]) = m + 1
      /\ \A g \in Heads : g # h => lt[g] = ls[g]
      /\ InsertPlaces(y, x, m, k, e)
  <2>1. ls \in [Heads -> Seq(Nodes)] /\ h \in Heads
    BY <1>1
  <2>2. Inserted(lt, ls, h, k, e)
    BY DEF lt, Inserted
  <2> QED BY <2>1, <2>2, PlacesInserted DEF x, m, y
<1>10. Circle(M.next, M.prev, y, m + 1)
  <2>1. Agree(M.next, L.next, Cells, {e, x[k - 1]})
    BY <1>5, <1>7 DEF Differ, Agree
  <2>2. Agree(M.prev, L.prev, Cells, {e, x[k]})
    BY <1>5, <1>7 DEF Differ, Agree
  <2>3. /\ M.next[e] = x[k] /\ M.next[x[k - 1]] = e
        /\ M.prev[e] = x[k - 1] /\ M.prev[x[k]] = e
    BY <1>5, <1>7
  <2>4. m \in Nat /\ Simple(x, m, Cells) /\ Circle(L.next, L.prev, x, m) /\ k \in 1 .. m + 1
    BY <1>1, <1>2
  <2>5. e \in Cells /\ Misses(x, m, e)
    BY <1>1, <1>4, <1>6 DEF Misses
  <2> QED BY <1>9, <2>1, <2>2, <2>3, <2>4, <2>5, CircleInsert
<1>11. Turns(M, h, lt[h])
  BY <1>9, <1>10 DEF Turns, y
<1>12. ASSUME NEW g \in us, g # h
       PROVE  Turns(M, g, lt[g])
  <2>1. g \in Heads
    BY <1>1
  <2>2. Off(p, g, ls) /\ Off(q, g, ls) /\ Off(e, g, ls)
    BY <1>1, <1>2, <1>5, <1>12, <2>1, OffRings DEF x, m
  <2>3. Turns(M, g, ls[g])
    <3>1. (\A c \in {e, p} : Off(c, g, ls)) /\ (\A c \in {e, q} : Off(c, g, ls))
      BY <2>2
    <3> QED BY <1>7, <3>1, RingOff
  <2> QED BY <1>9, <1>12, <2>1, <2>3
<1>13. \A n \in id \ {e} : Unlinked(n, lt) /\ M.next[n] = n /\ M.prev[n] = n
  <2> TAKE n \in id \ {e}
  <2>1. p # n /\ q # n /\ e # n
    BY <1>1, <1>2, <1>5, IdleOff DEF x, m
  <2>2. M.next[n] = n /\ M.prev[n] = n
    <3>1. n \in id /\ n \notin {e, p} /\ n \notin {e, q} /\ Differ(M, L, {e, p}, {e, q})
      BY <1>7, <2>1
    <3> QED BY <3>1, IdleKept
  <2> QED BY <1>8, <2>1, <2>2, IdleOff
<1>14. \A g \in Heads \ us : lt[g] = <<>>
  BY <1>9 DEF RingsState
<1>15. \A g \in us : Turns(M, g, lt[g])
  BY <1>11, <1>12
<1>16. RingsState(M, lt, us, id \ {e})
  <2>1. id \ {e} \subseteq Nodes
    BY <1>1
  <2> QED BY <1>1, <1>7, <1>8, <1>13, <1>14, <1>15, <2>1 DEF RingsState
<1> QED BY <1>16 DEF M, lt, x

(* An entry takes the place k of the ring of h.                            *)
Replaced(lt, ls, h, k, e) == lt = [ls EXCEPT ![h][k] = e]

LEMMA SeparateReplaced ==
    ASSUME NEW ls \in [Heads -> Seq(Nodes)], Separate(ls),
           NEW h \in Heads, NEW k \in 1 .. Len(ls[h]),
           NEW e \in Nodes, Unlinked(e, ls), NEW lt, Replaced(lt, ls, h, k, e)
    PROVE  /\ lt \in [Heads -> Seq(Nodes)]
           /\ Len(lt[h]) = Len(ls[h])
           /\ \A j \in 1 .. Len(ls[h]) : lt[h][j] = IF j = k THEN e ELSE ls[h][j]
           /\ \A g \in Heads : g # h => lt[g] = ls[g]
           /\ Separate(lt)
           /\ Unlinked(ls[h][k], lt)
           /\ \A n : n # e /\ Unlinked(n, ls) => Unlinked(n, lt)
<1>0. ls[h] \in Seq(Nodes)
  OBVIOUS
<1>1. \A g \in Heads : lt[g] = IF g = h THEN [ls[h] EXCEPT ![k] = e] ELSE ls[g]
  BY DEF Replaced
<1>2. /\ lt[h] \in Seq(Nodes) /\ Len(lt[h]) = Len(ls[h])
      /\ \A j \in 1 .. Len(ls[h]) : lt[h][j] = IF j = k THEN e ELSE ls[h][j]
  <2>1. lt[h] = [ls[h] EXCEPT ![k] = e]
    BY <1>1
  <2>2. /\ [ls[h] EXCEPT ![k] = e] \in Seq(Nodes)
        /\ Len([ls[h] EXCEPT ![k] = e]) = Len(ls[h])
        /\ \A j \in 1 .. Len(ls[h]) :
              [ls[h] EXCEPT ![k] = e][j] = IF j = k THEN e ELSE ls[h][j]
    BY <1>0, ExceptSeq
  <2> QED BY <2>1, <2>2
<1>3. \A g \in Heads : g # h => lt[g] = ls[g]
  BY <1>1
<1>4. lt \in [Heads -> Seq(Nodes)]
  <2>1. lt = [g \in Heads |-> lt[g]]
    BY DEF Replaced
  <2>2. \A g \in Heads : lt[g] \in Seq(Nodes)
    BY <1>2, <1>3
  <2> QED BY <2>1, <2>2
<1>5. \A g \in Heads : \A i \in 1 .. Len(lt[g]) :
         /\ i \in 1 .. Len(ls[g])
         /\ \/ lt[g][i] = e /\ g = h /\ i = k
            \/ lt[g][i] = ls[g][i] /\ ~ (g = h /\ i = k)
  BY <1>2, <1>3
<1>6. \A g \in Heads : \A i \in 1 .. Len(ls[g]) : ls[g][i] # e
  BY DEF Unlinked
<1>7. Separate(lt)
  <2> SUFFICES ASSUME NEW f \in Heads, NEW g \in Heads,
                      NEW i \in 1 .. Len(lt[f]), NEW j \in 1 .. Len(lt[g]),
                      lt[f][i] = lt[g][j]
               PROVE  f = g /\ i = j
    BY DEF Separate
  <2>1. CASE lt[f][i] = e
    <3>1. ~ (lt[f][i] = ls[f][i]) /\ ~ (lt[g][j] = ls[g][j])
      <4>1. i \in 1 .. Len(ls[f]) /\ j \in 1 .. Len(ls[g])
        BY <1>5
      <4> QED BY <1>6, <2>1, <4>1
    <3>2. f = h /\ i = k /\ g = h /\ j = k
      BY <1>5, <3>1
    <3> QED BY <3>2
  <2>2. CASE lt[f][i] # e
    <3>1. i \in 1 .. Len(ls[f]) /\ j \in 1 .. Len(ls[g]) /\ ls[f][i] = ls[g][j]
      BY <1>5, <2>2
    <3> QED BY <3>1, SeparateAt
  <2> QED BY <2>1, <2>2
<1>8. Unlinked(ls[h][k], lt)
  <2> SUFFICES ASSUME NEW g \in Heads, NEW i \in 1 .. Len(lt[g]), lt[g][i] = ls[h][k]
               PROVE  FALSE
    BY DEF Unlinked
  <2>1. lt[g][i] # e
    BY <1>6
  <2>2. i \in 1 .. Len(ls[g]) /\ ls[g][i] = ls[h][k] /\ ~ (g = h /\ i = k)
    BY <1>5, <2>1
  <2> QED BY <2>2, SeparateAt
<1>9. ASSUME NEW n, n # e, Unlinked(n, ls)
      PROVE  Unlinked(n, lt)
  BY <1>5, <1>9 DEF Unlinked
<1> QED BY <1>2, <1>3, <1>4, <1>7, <1>8, <1>9

LEMMA StateReplace ==
    ASSUME NEW L, NEW ls, NEW us, NEW id, RingsState(L, ls, us, id), NEW h \in us,
           NEW k \in 1 .. Len(ls[h]), NEW e \in Nodes, Unlinked(e, ls),
           NEW n, n = ls[h][k], NEW lt, Replaced(lt, ls, h, k, e)
    PROVE  /\ RingsState(list_replace(L, n, e), lt, us, id \ {e})
           /\ n \in Nodes /\ n \notin id /\ Unlinked(n, lt)
<1> DEFINE x == Places(h, ls[h])
           m == Len(ls[h])
           M == list_replace(L, n, e)
           y == Places(h, lt[h])
<1> HIDE DEF x, m, M, y
<1>1. /\ h \in Heads /\ L \in Links /\ ls \in [Heads -> Seq(Nodes)] /\ Separate(ls)
      /\ us \in SUBSET Heads /\ id \in SUBSET Nodes
      /\ ls[h] \in Seq(Nodes) /\ m \in Nat
      /\ Simple(x, m, Cells) /\ Circle(L.next, L.prev, x, m)
  <2>1. h \in Heads
    BY DEF RingsState
  <2> QED BY <2>1, StateFacts DEF x, m
<1>2. /\ k \in 1 .. m /\ k \in 0 .. m /\ k - 1 \in 0 .. m /\ k > 0 /\ (k - 1) + 1 = k
      /\ k - 1 \in 0 .. m + 1 /\ k \in 0 .. m + 1 /\ k + 1 \in 0 .. m + 1
  BY <1>1 DEF m
<1>3. /\ x[k] = n /\ n \in Nodes /\ x[k + 1] \in Cells /\ L.next[x[k]] = x[k + 1]
  BY <1>2, AroundPlace DEF x, m
<1>4. x[k - 1] \in Cells /\ L.prev[x[k]] = x[k - 1]
  <2>1. L.prev[x[(k - 1) + 1]] = x[k - 1]
    BY <1>2, AroundPlace DEF x, m
  <2> QED BY <1>2, <2>1, AroundPlace DEF x, m
<1>5. PICK p \in Cells, q \in Cells : p = x[k - 1] /\ q = x[k + 1]
  BY <1>3, <1>4
<1>6. \A i \in 0 .. m + 1 : x[i] # e
  BY <1>1, PlacesMiss DEF x, m
<1>7. n # p /\ n # q /\ n # e /\ e # p /\ e # q
  <2>1. k \in 1 .. m + 1 /\ k + 1 \in 1 .. m + 1
    BY <1>1, <1>2
  <2>2. n # p /\ n # q
    BY <1>1, <1>2, <1>3, <1>5, <2>1 DEF Simple
  <2> QED BY <1>2, <1>3, <1>5, <1>6, <2>2
<1>8. Between(M, L, e, p, q)
  <2>1. n \in Cells /\ e \in Cells /\ L \in Links /\ L.prev[n] = p /\ L.next[n] = q
    BY <1>1, <1>3, <1>4, <1>5 DEF Cells
  <2> QED BY <1>7, <2>1, ReplacePointers DEF M
<1>9. /\ M \in Links /\ M.next[e] = q /\ M.next[p] = e
      /\ M.prev[e] = p /\ M.prev[q] = e /\ Differ(M, L, {e, p}, {e, q})
  BY <1>8 DEF Between
<1>10. /\ lt \in [Heads -> Seq(Nodes)]
       /\ Len(lt[h]) = m
       /\ \A j \in 1 .. m : lt[h][j] = IF j = k THEN e ELSE ls[h][j]
       /\ \A g \in Heads : g # h => lt[g] = ls[g]
       /\ Separate(lt)
       /\ Unlinked(n, lt)
       /\ \A c : c # e /\ Unlinked(c, ls) => Unlinked(c, lt)
  <2>1. ls \in [Heads -> Seq(Nodes)] /\ Separate(ls) /\ h \in Heads
    BY <1>1
  <2>2. Replaced(lt, ls, h, k, e)
    OBVIOUS
  <2> QED BY <2>1, <2>2, SeparateReplaced DEF m
<1>11. /\ x[0] = h /\ x[m + 1] = h
       /\ \A i \in 1 .. m : x[i] = ls[h][i]
  BY <1>1, PlacesAre DEF x, m
<1>12. /\ y[0] = h /\ y[m + 1] = h
       /\ \A i \in 1 .. m : y[i] = lt[h][i]
  <2>1. h \in Heads /\ lt[h] \in Seq(Nodes)
    BY <1>1, <1>10
  <2>2. /\ y[0] = h /\ y[Len(lt[h]) + 1] = h
        /\ \A i \in 1 .. Len(lt[h]) : y[i] = lt[h][i]
    BY <2>1, PlacesAre DEF y
  <2> QED BY <1>10, <2>2
<1>13. ReplacePlaces(y, x, m, k, e)
  <2> SUFFICES ASSUME NEW i \in 0 .. m + 1
               PROVE  y[i] = IF i = k THEN e ELSE x[i]
    BY DEF ReplacePlaces
  <2>1. CASE i = 0
    BY <1>2, <1>11, <1>12, <2>1
  <2>2. CASE i = m + 1
    <3>1. i # k
      BY <1>1, <1>2, <2>2
    <3> QED BY <1>11, <1>12, <2>2, <3>1
  <2>3. CASE i \in 1 .. m
    BY <1>10, <1>11, <1>12, <2>3
  <2> QED BY <1>1, <2>1, <2>2, <2>3
<1>14. Circle(M.next, M.prev, y, m)
  <2>1. Agree(M.next, L.next, Cells, {x[k], e, x[k - 1]})
    BY <1>5, <1>9 DEF Differ, Agree
  <2>2. Agree(M.prev, L.prev, Cells, {x[k], e, x[k + 1]})
    BY <1>5, <1>9 DEF Differ, Agree
  <2>3. /\ M.next[e] = x[k + 1] /\ M.next[x[k - 1]] = e
        /\ M.prev[e] = x[k - 1] /\ M.prev[x[k + 1]] = e
    BY <1>5, <1>9
  <2>4. m \in Nat /\ Simple(x, m, Cells) /\ Circle(L.next, L.prev, x, m) /\ k \in 1 .. m
    BY <1>1, <1>2
  <2>5. e \in Cells /\ Misses(x, m, e)
    BY <1>1, <1>6 DEF Misses, Cells
  <2> QED BY <1>13, <2>1, <2>2, <2>3, <2>4, <2>5, CircleReplace
<1>15. Turns(M, h, lt[h])
  BY <1>10, <1>14 DEF Turns, y
<1>16. ASSUME NEW g \in us, g # h
       PROVE  Turns(M, g, lt[g])
  <2>1. g \in Heads
    BY <1>1
  <2>2. Off(p, g, ls) /\ Off(q, g, ls) /\ Off(e, g, ls)
    BY <1>1, <1>2, <1>5, <1>16, <2>1, OffRings DEF x, m
  <2>3. Turns(M, g, ls[g])
    <3>1. (\A c \in {e, p} : Off(c, g, ls)) /\ (\A c \in {e, q} : Off(c, g, ls))
      BY <2>2
    <3> QED BY <1>9, <3>1, RingOff
  <2> QED BY <1>10, <1>16, <2>1, <2>3
<1>17. \A c \in id \ {e} : Unlinked(c, lt) /\ M.next[c] = c /\ M.prev[c] = c
  <2> TAKE c \in id \ {e}
  <2>1. p # c /\ q # c /\ e # c
    BY <1>1, <1>2, <1>5, IdleOff DEF x, m
  <2>2. M.next[c] = c /\ M.prev[c] = c
    <3>1. c \in id /\ c \notin {e, p} /\ c \notin {e, q} /\ Differ(M, L, {e, p}, {e, q})
      BY <1>9, <2>1
    <3> QED BY <3>1, IdleKept
  <2> QED BY <1>10, <2>1, <2>2, IdleOff
<1>18. \A g \in Heads \ us : lt[g] = <<>>
  BY <1>10 DEF RingsState
<1>19. \A g \in us : Turns(M, g, lt[g])
  BY <1>15, <1>16
<1>20. RingsState(M, lt, us, id \ {e})
  <2>1. id \ {e} \subseteq Nodes
    BY <1>1
  <2> QED BY <1>1, <1>9, <1>10, <1>17, <1>18, <1>19, <2>1 DEF RingsState
<1>21. n \notin id
  BY <1>1, <1>2, <1>3, IdleOff DEF x, m
<1> QED BY <1>3, <1>10, <1>20, <1>21 DEF M

(* Another head gets the ring of h.                                        *)
Rehung(lt, ls, h, e) == lt = [ls EXCEPT ![h] = <<>>, ![e] = ls[h]]

LEMMA SeparateRehung ==
    ASSUME NEW ls \in [Heads -> Seq(Nodes)], Separate(ls),
           NEW h \in Heads, NEW e \in Heads, h # e, NEW lt, Rehung(lt, ls, h, e)
    PROVE  /\ lt \in [Heads -> Seq(Nodes)]
           /\ lt[h] = <<>> /\ lt[e] = ls[h]
           /\ \A g \in Heads : g # h /\ g # e => lt[g] = ls[g]
           /\ Separate(lt)
           /\ \A n : Unlinked(n, ls) => Unlinked(n, lt)
<1>1. /\ lt \in [Heads -> Seq(Nodes)]
      /\ lt[h] = <<>> /\ lt[e] = ls[h]
      /\ \A g \in Heads : g # h /\ g # e => lt[g] = ls[g]
  <2>1. DOMAIN lt = Heads /\ lt = [g \in Heads |-> lt[g]]
    BY DEF Rehung
  <2>2. /\ lt[h] = <<>> /\ lt[e] = ls[h]
        /\ \A g \in Heads : g # h /\ g # e => lt[g] = ls[g]
    BY DEF Rehung
  <2>3. \A g \in Heads : lt[g] \in Seq(Nodes)
    <3>1. <<>> \in Seq(Nodes)
      OBVIOUS
    <3>2. \A g \in Heads : ls[g] \in Seq(Nodes)
      OBVIOUS
    <3> QED BY <2>2, <3>1, <3>2, Zenon
  <2> QED BY <2>1, <2>2, <2>3
<1>2. Len(lt[h]) = 0
  BY <1>1
<1>3. \A g \in Heads : \A i \in 1 .. Len(lt[g]) :
         /\ g # h
         /\ g = e => i \in 1 .. Len(ls[h]) /\ lt[g][i] = ls[h][i]
         /\ g # e => i \in 1 .. Len(ls[g]) /\ lt[g][i] = ls[g][i]
  BY <1>1, <1>2
<1>4. Separate(lt)
  <2> SUFFICES ASSUME NEW f \in Heads, NEW g \in Heads,
                      NEW i \in 1 .. Len(lt[f]), NEW j \in 1 .. Len(lt[g]),
                      lt[f][i] = lt[g][j]
               PROVE  f = g /\ i = j
    BY DEF Separate
  <2>1. PICK a \in Heads : /\ i \in 1 .. Len(ls[a]) /\ lt[f][i] = ls[a][i]
                           /\ a = IF f = e THEN h ELSE f
    BY <1>3
  <2>2. PICK b \in Heads : /\ j \in 1 .. Len(ls[b]) /\ lt[g][j] = ls[b][j]
                           /\ b = IF g = e THEN h ELSE g
    BY <1>3
  <2>3. a = b /\ i = j
    <3>1. ls[a][i] = ls[b][j]
      BY <2>1, <2>2
    <3> QED BY <2>1, <2>2, <3>1, SeparateAt
  <2>4. f # h /\ g # h
    BY <1>3
  <2> QED BY <2>1, <2>2, <2>3, <2>4
<1>5. ASSUME NEW n, Unlinked(n, ls)
      PROVE  Unlinked(n, lt)
  <2> SUFFICES ASSUME NEW g \in Heads, NEW i \in 1 .. Len(lt[g])
               PROVE  lt[g][i] # n
    BY DEF Unlinked
  <2>1. PICK a \in Heads : i \in 1 .. Len(ls[a]) /\ lt[g][i] = ls[a][i]
    BY <1>3
  <2> QED BY <1>5, <2>1 DEF Unlinked
<1> QED BY <1>1, <1>4, <1>5

LEMMA StateNewHead ==
    ASSUME NEW L, NEW ls, NEW us, NEW id, RingsState(L, ls, us, id), NEW h \in us,
           NEW e \in Heads, h # e
    PROVE  RingsState(list_replace(L, h, e), [ls EXCEPT ![h] = <<>>, ![e] = ls[h]],
                      (us \ {h}) \cup {e}, id)
<1> DEFINE x == Places(h, ls[h])
           m == Len(ls[h])
           M == list_replace(L, h, e)
           lt == [ls EXCEPT ![h] = <<>>, ![e] = ls[h]]
           ut == (us \ {h}) \cup {e}
           y == Places(e, ls[h])
<1> HIDE DEF x, m, M, lt, y, ut
<1>1. /\ h \in Heads /\ L \in Links /\ ls \in [Heads -> Seq(Nodes)] /\ Separate(ls)
      /\ us \in SUBSET Heads /\ id \in SUBSET Nodes
      /\ ls[h] \in Seq(Nodes) /\ m \in Nat
      /\ Simple(x, m, Cells) /\ Circle(L.next, L.prev, x, m)
  <2>1. h \in Heads
    BY DEF RingsState
  <2> QED BY <2>1, StateFacts DEF x, m
<1>2. 0 \in 0 .. m /\ m \in 0 .. m /\ 1 \in 0 .. m + 1 /\ m \in 0 .. m + 1 /\ 0 + 1 = 1
  BY <1>1
<1>3. x[0] = h /\ x[1] \in Cells /\ L.next[h] = x[1]
  <2>1. /\ x[0] = h /\ L.next[x[0]] = x[0 + 1] /\ x[0 + 1] \in Cells
    BY <1>2, AroundPlace DEF x, m
  <2> QED BY <1>2, <2>1
<1>4. x[m] \in Cells /\ x[m + 1] = h /\ L.prev[h] = x[m]
  <2>1. x[m] \in Cells /\ L.prev[x[m + 1]] = x[m] /\ x[m + 1] = h
    BY <1>2, AroundPlace DEF x, m
  <2> QED BY <2>1
<1>5. PICK p \in Cells, q \in Cells : p = x[m] /\ q = x[1]
  BY <1>3, <1>4
<1>6. /\ lt \in [Heads -> Seq(Nodes)]
      /\ lt[h] = <<>> /\ lt[e] = ls[h]
      /\ \A g \in Heads : g # h /\ g # e => lt[g] = ls[g]
      /\ Separate(lt)
      /\ \A n : Unlinked(n, ls) => Unlinked(n, lt)
  <2>1. ls \in [Heads -> Seq(Nodes)] /\ Separate(ls) /\ h \in Heads
    BY <1>1
  <2>2. Rehung(lt, ls, h, e)
    BY DEF lt, Rehung
  <2> QED BY <2>1, <2>2, SeparateRehung
<1>7. e \in Cells /\ h \in Cells
  BY <1>1 DEF Cells
<1>8. \A i \in 0 .. m + 1 : x[i] # e
  <2> TAKE i \in 0 .. m + 1
  <2>1. x[i] = h \/ x[i] \in Nodes
    BY <1>1, PlacesOf DEF x, m
  <2> QED BY <2>1, ListConstants
<1>9. /\ M \in Links
      /\ Differ(M, L, {e, p}, {e, q})
      /\ Turns(M, e, ls[h])
  <2>1. CASE m = 0
    <3>1. p = h /\ q = h
      BY <1>3, <1>4, <1>5, <2>1
    <3>2. /\ M \in Links
          /\ M.next[e] = e /\ M.prev[e] = e
          /\ Differ(M, L, {e}, {e, h})
      <4>1. L \in Links /\ L.prev[h] = h /\ L.next[h] = h
        BY <1>1, <1>3, <1>4, <1>5, <3>1
      <4> QED BY <1>7, <4>1, ReplaceEmptyPointers DEF M
    <3>3. Ring(M, e, ls[h])
      <4>1. Len(ls[h]) = 0 /\ DOMAIN ls[h] = {}
        BY <1>1, <2>1, LenProperties DEF m
      <4>2. RingAt(e, ls[h], 0) = e /\ RingAt(e, ls[h], 0 + 1) = e /\ 0 .. 0 = {0}
        BY <4>1 DEF RingAt
      <4> QED BY <3>2, <4>1, <4>2 DEF Ring
    <3>4. Turns(M, e, ls[h])
      BY <1>1, <3>3, RingTurns
    <3>5. Differ(M, L, {e, p}, {e, q})
      BY <3>1, <3>2 DEF Differ, Agree
    <3> QED BY <3>2, <3>4, <3>5
  <2>2. CASE m # 0
    <3>1. 1 \in 1 .. m /\ m \in 1 .. m
      BY <1>1, <2>2
    <3>2. p # h /\ q # h /\ e # p /\ e # q /\ h # e
      <4>1. x[1] # x[0] /\ x[m] # x[0]
        BY <1>1, <1>2, <2>2, <3>1 DEF Simple
      <4> QED BY <1>2, <1>3, <1>5, <1>8, <4>1
    <3>3. Between(M, L, e, p, q)
      <4>1. L \in Links /\ L.prev[h] = p /\ L.next[h] = q
        BY <1>1, <1>3, <1>4, <1>5
      <4> QED BY <1>7, <3>2, <4>1, ReplacePointers DEF M
    <3>4. /\ M \in Links /\ M.next[e] = q /\ M.next[p] = e
          /\ M.prev[e] = p /\ M.prev[q] = e /\ Differ(M, L, {e, p}, {e, q})
      BY <3>3 DEF Between
    <3>5. HeadPlaces(y, x, m, e)
      <4> SUFFICES ASSUME NEW i \in 0 .. m + 1
                   PROVE  y[i] = IF i \in 1 .. m THEN x[i] ELSE e
        BY DEF HeadPlaces
      <4>1. \A j \in 1 .. m : x[j] = ls[h][j]
        BY <1>1, PlacesAre DEF x, m
      <4>2. y[0] = e /\ y[m + 1] = e /\ \A j \in 1 .. m : y[j] = ls[h][j]
        BY <1>1, PlacesAre DEF y, m
      <4>3. i = 0 \/ i = m + 1 \/ i \in 1 .. m
        BY <1>1
      <4> QED BY <1>1, <4>1, <4>2, <4>3
    <3>6. Circle(M.next, M.prev, y, m)
      <4>1. Agree(M.next, L.next, Cells, {x[0], e, x[m]})
        BY <1>5, <3>4 DEF Differ, Agree
      <4>2. Agree(M.prev, L.prev, Cells, {x[0], e, x[1]})
        BY <1>5, <3>4 DEF Differ, Agree
      <4>3. /\ M.next[e] = x[1] /\ M.next[x[m]] = e
            /\ M.prev[e] = x[m] /\ M.prev[x[1]] = e
        BY <1>5, <3>4
      <4>4. m \in Nat \ {0} /\ Simple(x, m, Cells) /\ Circle(L.next, L.prev, x, m)
        BY <1>1, <2>2
      <4>5. e \in Cells /\ Misses(x, m, e)
        BY <1>1, <1>7, <1>8 DEF Misses
      <4> QED BY <3>5, <4>1, <4>2, <4>3, <4>4, <4>5, CircleNewHead
    <3> QED BY <3>4, <3>6 DEF Turns, y, m
  <2> QED BY <2>1, <2>2
<1>10. ASSUME NEW g \in us, g # h, g # e
       PROVE  Turns(M, g, lt[g])
  <2>1. g \in Heads
    BY <1>1
  <2>2. Off(p, g, ls) /\ Off(q, g, ls) /\ Off(e, g, ls)
    BY <1>1, <1>2, <1>5, <1>10, <2>1, OffRings DEF x, m
  <2>3. Turns(M, g, ls[g])
    <3>1. (\A c \in {e, p} : Off(c, g, ls)) /\ (\A c \in {e, q} : Off(c, g, ls))
      BY <2>2
    <3> QED BY <1>9, <3>1, RingOff
  <2> QED BY <1>6, <1>10, <2>1, <2>3
<1>11. \A c \in id : Unlinked(c, lt) /\ M.next[c] = c /\ M.prev[c] = c
  <2> TAKE c \in id
  <2>1. p # c /\ q # c /\ e # c
    <3>1. c \in Nodes
      BY IdleOff
    <3>2. p # c /\ q # c
      BY <1>1, <1>2, <1>5, IdleOff DEF x, m
    <3> QED BY <3>1, <3>2, ListConstants
  <2>2. M.next[c] = c /\ M.prev[c] = c
    <3>1. c \in id /\ c \notin {e, p} /\ c \notin {e, q} /\ Differ(M, L, {e, p}, {e, q})
      BY <1>9, <2>1
    <3> QED BY <3>1, IdleKept
  <2> QED BY <1>6, <2>2, IdleOff
<1>12. \A g \in Heads \ ut : lt[g] = <<>>
  BY <1>6 DEF RingsState, ut
<1>13. \A g \in ut : Turns(M, g, lt[g])
  BY <1>6, <1>9, <1>10 DEF ut
<1>14. RingsState(M, lt, ut, id)
  <2>1. ut \subseteq Heads
    BY <1>1 DEF ut
  <2> QED BY <1>1, <1>6, <1>9, <1>11, <1>12, <1>13, <2>1 DEF RingsState
<1> QED BY <1>14 DEF M, lt, ut

(* The entries of h enter the ring of d at place k.                        *)
Spliced(lt, ls, h, d, k) ==
    /\ lt \in [Heads -> Seq(Nodes)] /\ lt[h] = <<>>
    /\ \A g \in Heads : g # h /\ g # d => lt[g] = ls[g]
    /\ Len(lt[d]) = Len(ls[h]) + Len(ls[d])
    /\ \A j \in 1 .. Len(ls[h]) + Len(ls[d]) :
          lt[d][j] = IF j < k THEN ls[d][j]
                     ELSE IF j < k + Len(ls[h]) THEN ls[h][j - k + 1]
                     ELSE ls[d][j - Len(ls[h])]

LEMMA SplicedAre ==
    ASSUME NEW ls \in [Heads -> Seq(Nodes)], NEW h \in Heads, NEW d \in Heads, h # d
    PROVE  /\ Spliced([ls EXCEPT ![h] = <<>>, ![d] = ls[h] \o @], ls, h, d, 1)
           /\ Spliced([ls EXCEPT ![h] = <<>>, ![d] = @ \o ls[h]], ls, h, d, Len(ls[d]) + 1)
<1> DEFINE front == [ls EXCEPT ![h] = <<>>, ![d] = ls[h] \o @]
           back == [ls EXCEPT ![h] = <<>>, ![d] = @ \o ls[h]]
           a == ls[h]
           b == ls[d]
<1>1. a \in Seq(Nodes) /\ b \in Seq(Nodes) /\ Len(a) \in Nat /\ Len(b) \in Nat
  BY LenProperties
<1>2. /\ DOMAIN front = Heads /\ front = [g \in Heads |-> front[g]]
      /\ front[h] = <<>> /\ front[d] = a \o b
      /\ \A g \in Heads : g # h /\ g # d => front[g] = ls[g]
  OBVIOUS
<1>3. /\ DOMAIN back = Heads /\ back = [g \in Heads |-> back[g]]
      /\ back[h] = <<>> /\ back[d] = b \o a
      /\ \A g \in Heads : g # h /\ g # d => back[g] = ls[g]
  OBVIOUS
<1>4. <<>> \in Seq(Nodes) /\ \A g \in Heads : ls[g] \in Seq(Nodes)
  OBVIOUS
<1> HIDE DEF front, back, a, b
<1>5. /\ a \o b \in Seq(Nodes) /\ Len(a \o b) = Len(a) + Len(b)
      /\ \A i \in 1 .. Len(a) + Len(b) :
            (a \o b)[i] = IF i <= Len(a) THEN a[i] ELSE b[i - Len(a)]
  BY <1>1, ConcatProperties
<1>6. /\ b \o a \in Seq(Nodes) /\ Len(b \o a) = Len(b) + Len(a)
      /\ \A i \in 1 .. Len(b) + Len(a) :
            (b \o a)[i] = IF i <= Len(b) THEN b[i] ELSE a[i - Len(b)]
  BY <1>1, ConcatProperties
<1>7. front \in [Heads -> Seq(Nodes)]
  <2>1. \A g \in Heads : front[g] \in Seq(Nodes)
    BY <1>2, <1>4, <1>5, Zenon
  <2> QED BY <1>2, <2>1
<1>8. back \in [Heads -> Seq(Nodes)]
  <2>1. \A g \in Heads : back[g] \in Seq(Nodes)
    BY <1>3, <1>4, <1>6, Zenon
  <2> QED BY <1>3, <2>1
<1>9. Spliced(front, ls, h, d, 1)
  <2>1. \A j \in 1 .. Len(a) + Len(b) :
           front[d][j] = IF j < 1 THEN b[j]
                         ELSE IF j < 1 + Len(a) THEN a[j - 1 + 1] ELSE b[j - Len(a)]
    <3> TAKE j \in 1 .. Len(a) + Len(b)
    <3>1. j \in Int /\ ~ (j < 1) /\ (j < 1 + Len(a) <=> j <= Len(a)) /\ j - 1 + 1 = j
      BY <1>1
    <3> QED BY <1>2, <1>5, <3>1
  <2> QED BY <1>2, <1>5, <1>7, <2>1 DEF Spliced, a, b
<1>10. Spliced(back, ls, h, d, Len(b) + 1)
  <2>1. \A j \in 1 .. Len(a) + Len(b) :
           back[d][j] = IF j < Len(b) + 1 THEN b[j]
                        ELSE IF j < Len(b) + 1 + Len(a) THEN a[j - (Len(b) + 1) + 1]
                        ELSE b[j - Len(a)]
    <3> TAKE j \in 1 .. Len(a) + Len(b)
    <3>1. /\ j \in 1 .. Len(b) + Len(a)
          /\ j < Len(b) + 1 <=> j <= Len(b)
          /\ j < Len(b) + 1 + Len(a)
          /\ j - (Len(b) + 1) + 1 = j - Len(b)
      BY <1>1
    <3> QED BY <1>3, <1>6, <3>1
  <2>2. Len(back[d]) = Len(a) + Len(b)
    BY <1>1, <1>3, <1>6
  <2> QED BY <1>3, <1>8, <2>1, <2>2 DEF Spliced, a, b
<1> QED BY <1>9, <1>10 DEF front, back, b

LEMMA SeparateSpliced ==
    ASSUME NEW ls \in [Heads -> Seq(Nodes)], Separate(ls),
           NEW h \in Heads, NEW d \in Heads, h # d, NEW k \in 1 .. Len(ls[d]) + 1,
           NEW lt, Spliced(lt, ls, h, d, k)
    PROVE  /\ Separate(lt)
           /\ \A n : Unlinked(n, ls) => Unlinked(n, lt)
<1> DEFINE n == Len(ls[h])
           m == Len(ls[d])
\* Where the entry at place i of g was before.
<1> DEFINE From(g, i) == IF g = d /\ i >= k /\ i < k + n THEN h ELSE g
           Was(g, i) == IF g = d /\ i >= k THEN IF i < k + n THEN i - k + 1 ELSE i - n
                        ELSE i
<1> HIDE DEF From, Was
<1>1. n \in Nat /\ m \in Nat /\ k \in 1 .. m + 1
  BY LenProperties
<1>2. \A g \in Heads : \A i \in 1 .. Len(lt[g]) :
         /\ g # h /\ i \in Int
         /\ From(g, i) \in Heads /\ Was(g, i) \in 1 .. Len(ls[From(g, i)])
         /\ lt[g][i] = ls[From(g, i)][Was(g, i)]
  <2> SUFFICES ASSUME NEW g \in Heads, NEW i \in 1 .. Len(lt[g])
               PROVE  /\ g # h /\ i \in Int
                      /\ From(g, i) \in Heads /\ Was(g, i) \in 1 .. Len(ls[From(g, i)])
                      /\ lt[g][i] = ls[From(g, i)][Was(g, i)]
    OBVIOUS
  <2>1. g # h
    <3>1. Len(lt[h]) = 0
      BY DEF Spliced
    <3> QED BY <3>1
  <2>2. CASE g # d
    <3>1. lt[g] = ls[g] /\ From(g, i) = g /\ Was(g, i) = i
      BY <2>1, <2>2 DEF Spliced, From, Was
    <3>2. Len(ls[g]) \in Nat
      BY LenProperties
    <3> QED BY <2>1, <3>1, <3>2
  <2>3. CASE g = d
    <3>1. /\ i \in 1 .. n + m
          /\ lt[g][i] = IF i < k THEN ls[d][i]
                        ELSE IF i < k + n THEN ls[h][i - k + 1] ELSE ls[d][i - n]
      BY <2>3 DEF Spliced
    <3>2. CASE i < k
      <4>1. From(g, i) = d /\ Was(g, i) = i /\ i \in 1 .. m
        BY <1>1, <2>3, <3>1, <3>2 DEF From, Was
      <4> QED BY <2>1, <3>1, <3>2, <4>1
    <3>3. CASE i >= k /\ i < k + n
      <4>1. From(g, i) = h /\ Was(g, i) = i - k + 1 /\ i - k + 1 \in 1 .. n
        BY <1>1, <2>3, <3>1, <3>3 DEF From, Was
      <4>2. ~ (i < k)
        BY <1>1, <3>1, <3>3
      <4> QED BY <2>1, <3>1, <3>3, <4>1, <4>2
    <3>4. CASE i >= k + n
      <4>1. From(g, i) = d /\ Was(g, i) = i - n /\ i - n \in 1 .. m
        BY <1>1, <2>3, <3>1, <3>4 DEF From, Was
      <4>2. ~ (i < k) /\ ~ (i < k + n)
        BY <1>1, <3>1, <3>4
      <4> QED BY <2>1, <3>1, <4>1, <4>2
    <3> QED BY <1>1, <3>1, <3>2, <3>3, <3>4
  <2> QED BY <2>2, <2>3
<1>3. \A f, g \in Heads : \A i, j \in Int :
         f # h /\ g # h /\ From(f, i) = From(g, j) /\ Was(f, i) = Was(g, j) => f = g /\ i = j
  <2> SUFFICES ASSUME NEW f \in Heads, NEW g \in Heads, NEW i \in Int, NEW j \in Int,
                      f # h, g # h, From(f, i) = From(g, j), Was(f, i) = Was(g, j)
               PROVE  f = g /\ i = j
    OBVIOUS
  <2>1. f = g
    BY DEF From
  <2>2. CASE f # d
    BY <2>1, <2>2 DEF Was
  <2>3. CASE f = d
    <3>1. (i >= k /\ i < k + n) <=> (j >= k /\ j < k + n)
      BY <2>1, <2>3 DEF From
    <3>2. /\ i < k => Was(f, i) = i
          /\ i >= k /\ i < k + n => Was(f, i) = i - k + 1
          /\ i >= k + n => Was(f, i) = i - n
      BY <1>1, <2>3 DEF Was
    <3>3. /\ j < k => Was(g, j) = j
          /\ j >= k /\ j < k + n => Was(g, j) = j - k + 1
          /\ j >= k + n => Was(g, j) = j - n
      BY <1>1, <2>1, <2>3 DEF Was
    <3>4. i < k \/ i >= k + n \/ (i >= k /\ i < k + n)
      BY <1>1
    <3>5. j < k \/ j >= k + n \/ (j >= k /\ j < k + n)
      BY <1>1
    <3>6. CASE i < k
      <4>1. j < k
        BY <1>1, <3>1, <3>2, <3>3, <3>5, <3>6
      <4> QED BY <2>1, <3>2, <3>3, <3>6, <4>1
    <3>7. CASE i >= k + n
      <4>1. j >= k + n
        <5>1. ~ (i < k) /\ i - n >= k /\ ~ (j >= k /\ j < k + n)
          BY <1>1, <3>1, <3>7
        <5>2. CASE j < k
          <6>1. i - n = j
            BY <3>2, <3>3, <3>7, <5>2
          <6> QED BY <5>1, <5>2, <6>1
        <5> QED BY <3>5, <5>1, <5>2
      <4>2. i - n = j - n
        BY <3>2, <3>3, <3>7, <4>1
      <4> QED BY <1>1, <2>1, <4>2
    <3>8. CASE i >= k /\ i < k + n
      <4>1. i - k + 1 = j - k + 1
        BY <3>1, <3>2, <3>3, <3>8
      <4> QED BY <1>1, <2>1, <4>1
    <3> QED BY <3>4, <3>6, <3>7, <3>8
  <2> QED BY <2>2, <2>3
<1> HIDE DEF n, m
<1>4. Separate(lt)
  <2> SUFFICES ASSUME NEW f \in Heads, NEW g \in Heads,
                      NEW i \in 1 .. Len(lt[f]), NEW j \in 1 .. Len(lt[g]),
                      lt[f][i] = lt[g][j]
               PROVE  f = g /\ i = j
    BY DEF Separate
  <2>1. /\ f # h /\ g # h /\ i \in Int /\ j \in Int
        /\ From(f, i) \in Heads /\ Was(f, i) \in 1 .. Len(ls[From(f, i)])
        /\ From(g, j) \in Heads /\ Was(g, j) \in 1 .. Len(ls[From(g, j)])
        /\ ls[From(f, i)][Was(f, i)] = ls[From(g, j)][Was(g, j)]
    <3>1. /\ f # h /\ i \in Int
          /\ From(f, i) \in Heads /\ Was(f, i) \in 1 .. Len(ls[From(f, i)])
          /\ lt[f][i] = ls[From(f, i)][Was(f, i)]
      BY <1>2, Zenon
    <3>2. /\ g # h /\ j \in Int
          /\ From(g, j) \in Heads /\ Was(g, j) \in 1 .. Len(ls[From(g, j)])
          /\ lt[g][j] = ls[From(g, j)][Was(g, j)]
      BY <1>2, Zenon
    <3> QED BY <3>1, <3>2
  <2>2. From(f, i) = From(g, j) /\ Was(f, i) = Was(g, j)
    BY <2>1, SeparateAt
  <2> QED BY <1>3, <2>1, <2>2
<1>5. ASSUME NEW c, Unlinked(c, ls)
      PROVE  Unlinked(c, lt)
  <2> SUFFICES ASSUME NEW g \in Heads, NEW i \in 1 .. Len(lt[g])
               PROVE  lt[g][i] # c
    BY DEF Unlinked
  <2>1. /\ From(g, i) \in Heads /\ Was(g, i) \in 1 .. Len(ls[From(g, i)])
        /\ lt[g][i] = ls[From(g, i)][Was(g, i)]
    BY <1>2
  <2> QED BY <1>5, <2>1 DEF Unlinked
<1> QED BY <1>4, <1>5

LEMMA StateSplice ==
    ASSUME NEW L, NEW ls, NEW us, NEW id, RingsState(L, ls, us, id), NEW h \in us,
           NEW d \in us, h # d, ls[h] # <<>>, NEW k \in 1 .. Len(ls[d]) + 1,
           NEW p, p = Places(d, ls[d])[k - 1], NEW q, q = Places(d, ls[d])[k],
           NEW lt, Spliced(lt, ls, h, d, k)
    PROVE  RingsState(__list_splice(L, h, p, q), lt, us \ {h}, id)
<1> DEFINE x == Places(h, ls[h])
           z == Places(d, ls[d])
           n == Len(ls[h])
           m == Len(ls[d])
           M == __list_splice(L, h, p, q)
           y == Places(d, lt[d])
<1> HIDE DEF x, z, n, m, M, y
<1>1. /\ h \in Heads /\ d \in Heads /\ L \in Links
      /\ ls \in [Heads -> Seq(Nodes)] /\ Separate(ls)
      /\ us \in SUBSET Heads /\ id \in SUBSET Nodes
      /\ ls[h] \in Seq(Nodes) /\ n \in Nat /\ ls[d] \in Seq(Nodes) /\ m \in Nat
      /\ Simple(x, n, Cells) /\ Circle(L.next, L.prev, x, n)
      /\ Simple(z, m, Cells) /\ Circle(L.next, L.prev, z, m)
  <2>1. h \in Heads /\ d \in Heads
    BY DEF RingsState
  <2>2. /\ L \in Links /\ ls \in [Heads -> Seq(Nodes)] /\ Separate(ls)
        /\ us \in SUBSET Heads /\ id \in SUBSET Nodes
        /\ ls[h] \in Seq(Nodes) /\ n \in Nat
        /\ Simple(x, n, Cells) /\ Circle(L.next, L.prev, x, n)
    BY <2>1, StateFacts DEF x, n
  <2>3. /\ ls[d] \in Seq(Nodes) /\ m \in Nat
        /\ Simple(z, m, Cells) /\ Circle(L.next, L.prev, z, m)
    BY <2>1, StateFacts DEF z, m
  <2> QED BY <2>1, <2>2, <2>3
<1>2. n # 0
  BY <1>1, EmptySeq DEF n
<1>3. /\ 0 \in 0 .. n /\ n \in 0 .. n /\ 1 \in 0 .. n /\ 0 \in 0 .. n + 1
      /\ n \in 0 .. n + 1 /\ 1 \in 0 .. n + 1 /\ 0 + 1 = 1
      /\ k - 1 \in 0 .. m /\ (k - 1) + 1 = k /\ k \in 1 .. m + 1
      /\ k - 1 \in 0 .. m + 1 /\ k \in 0 .. m + 1
  BY <1>1, <1>2 DEF m
<1>4. x[0] = h /\ x[1] \in Cells /\ L.next[h] = x[1]
  <2>1. x[0] = h /\ L.next[x[0]] = x[0 + 1] /\ x[0 + 1] \in Cells
    BY <1>3, AroundPlace DEF x, n
  <2> QED BY <1>3, <2>1
<1>5. x[n] \in Cells /\ x[n + 1] = h /\ L.prev[h] = x[n]
  <2>1. x[n] \in Cells /\ L.prev[x[n + 1]] = x[n] /\ x[n + 1] = h
    BY <1>3, AroundPlace, SMTT(20) DEF x, n
  <2> QED BY <2>1
<1>6. p = z[k - 1] /\ q = z[k] /\ p \in Cells /\ q \in Cells
  <2>1. z[k - 1] \in Cells /\ z[(k - 1) + 1] \in Cells
    BY <1>3, AroundPlace DEF z, m
  <2> QED BY <1>3, <2>1 DEF z
<1>7. \A i \in 0 .. n + 1, j \in 0 .. m + 1 : x[i] # z[j]
  BY <1>1, PlacesApart DEF x, z, n, m
<1>8. PICK a \in Cells, b \in Cells : a = x[1] /\ b = x[n]
  BY <1>4, <1>5
<1>9. Joined(M, L, p, a, b, q)
  <2>1. h \in Cells /\ L \in Links /\ L.next[h] = a /\ L.prev[h] = b
    BY <1>1, <1>4, <1>5, <1>8 DEF Cells
  <2>2. b # p /\ a # q
    BY <1>3, <1>6, <1>7, <1>8
  <2> QED BY <1>6, <2>1, <2>2, SplicePointers DEF M
<1>10. /\ M \in Links /\ M.next[p] = a /\ M.next[b] = q
       /\ M.prev[a] = p /\ M.prev[q] = b /\ Differ(M, L, {p, b}, {a, q})
  BY <1>9 DEF Joined
<1>11. Separate(lt) /\ \A c : Unlinked(c, ls) => Unlinked(c, lt)
  BY <1>1, SeparateSpliced
<1>12. /\ lt \in [Heads -> Seq(Nodes)] /\ lt[h] = <<>>
       /\ \A g \in Heads : g # h /\ g # d => lt[g] = ls[g]
       /\ Len(lt[d]) = n + m
       /\ \A j \in 1 .. n + m :
             lt[d][j] = IF j < k THEN ls[d][j]
                        ELSE IF j < k + n THEN ls[h][j - k + 1] ELSE ls[d][j - n]
  BY DEF Spliced, n, m
<1>13. SplicePlaces(y, x, n, z, m, k)
  <2> SUFFICES ASSUME NEW i \in 0 .. n + m + 1
               PROVE  y[i] = IF i < k THEN z[i]
                             ELSE IF i < k + n THEN x[i - k + 1] ELSE z[i - n]
    BY DEF SplicePlaces
  <2>1. \A j \in 1 .. n : x[j] = ls[h][j]
    BY <1>1, PlacesAre DEF x, n
  <2>2. z[0] = d /\ z[m + 1] = d /\ \A j \in 1 .. m : z[j] = ls[d][j]
    BY <1>1, PlacesAre DEF z, m
  <2>3. y[0] = d /\ y[n + m + 1] = d /\ \A j \in 1 .. n + m : y[j] = lt[d][j]
    <3>1. lt[d] \in Seq(Nodes) /\ d \in Heads
      BY <1>1, <1>12
    <3>2. /\ y[0] = d /\ y[Len(lt[d]) + 1] = d
          /\ \A j \in 1 .. Len(lt[d]) : y[j] = lt[d][j]
      BY <3>1, PlacesAre DEF y
    <3> QED BY <1>12, <3>2
  <2>4. CASE i = 0
    BY <1>3, <2>2, <2>3, <2>4
  <2>5. CASE i = n + m + 1
    <3>1. ~ (i < k) /\ ~ (i < k + n) /\ i - n = m + 1
      BY <1>1, <1>3, <2>5
    <3> QED BY <2>2, <2>3, <2>5, <3>1
  <2>6. CASE i \in 1 .. n + m
    <3>1. y[i] = IF i < k THEN ls[d][i]
                 ELSE IF i < k + n THEN ls[h][i - k + 1] ELSE ls[d][i - n]
      BY <1>12, <2>3, <2>6
    <3>2. /\ i < k => i \in 1 .. m
          /\ ~ (i < k) /\ i < k + n => i - k + 1 \in 1 .. n
          /\ ~ (i < k) /\ ~ (i < k + n) => i - n \in 1 .. m
      BY <1>1, <1>3, <2>6
    <3> QED BY <2>1, <2>2, <3>1, <3>2
  <2> QED BY <1>1, <2>4, <2>5, <2>6
<1>14. Circle(M.next, M.prev, y, n + m)
  <2>1. Agree(M.next, L.next, Cells, {x[n], z[k - 1], x[0]})
    BY <1>6, <1>8, <1>10 DEF Differ, Agree
  <2>2. Agree(M.prev, L.prev, Cells, {x[1], z[k], x[0]})
    BY <1>6, <1>8, <1>10 DEF Differ, Agree
  <2>3. /\ M.next[z[k - 1]] = x[1] /\ M.next[x[n]] = z[k]
        /\ M.prev[x[1]] = z[k - 1] /\ M.prev[z[k]] = x[n]
    BY <1>6, <1>8, <1>10
  <2>4. /\ n \in Nat \ {0} /\ Simple(x, n, Cells) /\ Circle(L.next, L.prev, x, n)
        /\ m \in Nat /\ Simple(z, m, Cells) /\ Circle(L.next, L.prev, z, m)
        /\ k \in 1 .. m + 1
    BY <1>1, <1>2, <1>3
  <2>5. Disjoint(x, n, z, m)
    BY <1>1, <1>7 DEF Misses, Disjoint
  <2>6. SpliceLinks(M.next, M.prev, L.next, L.prev, Cells, x, n, z, k)
    BY <2>1, <2>2, <2>3 DEF SpliceLinks
  <2> QED BY <1>13, <2>4, <2>5, <2>6, CircleSplice
<1>15. Turns(M, d, lt[d])
  BY <1>12, <1>14 DEF Turns, y
<1>16. ASSUME NEW g \in us, g # h, g # d
       PROVE  Turns(M, g, lt[g])
  <2>1. g \in Heads
    BY <1>1
  <2>2. Off(p, g, ls) /\ Off(q, g, ls)
    BY <1>1, <1>3, <1>6, <1>16, <2>1, OffRings DEF z, m
  <2>3. Off(a, g, ls) /\ Off(b, g, ls)
    BY <1>1, <1>3, <1>8, <1>16, <2>1, OffRings DEF x, n
  <2>4. Turns(M, g, ls[g])
    <3>1. (\A c \in {p, b} : Off(c, g, ls)) /\ (\A c \in {a, q} : Off(c, g, ls))
      BY <2>2, <2>3
    <3> QED BY <1>10, <3>1, RingOff
  <2> QED BY <1>12, <1>16, <2>1, <2>4
<1>17. \A c \in id : Unlinked(c, lt) /\ M.next[c] = c /\ M.prev[c] = c
  <2> TAKE c \in id
  <2>1. p # c /\ q # c
    BY <1>1, <1>3, <1>6, IdleOff DEF z, m
  <2>2. a # c /\ b # c
    BY <1>1, <1>3, <1>8, IdleOff DEF x, n
  <2>3. M.next[c] = c /\ M.prev[c] = c
    <3>1. c \in id /\ c \notin {p, b} /\ c \notin {a, q} /\ Differ(M, L, {p, b}, {a, q})
      BY <1>10, <2>1, <2>2
    <3> QED BY <3>1, IdleKept
  <2> QED BY <1>11, <2>3, IdleOff
<1>18. \A g \in Heads \ (us \ {h}) : lt[g] = <<>>
  BY <1>12 DEF RingsState
<1>19. \A g \in us \ {h} : Turns(M, g, lt[g])
  BY <1>15, <1>16
<1>20. RingsState(M, lt, us \ {h}, id)
  <2>1. us \ {h} \subseteq Heads
    BY <1>1
  <2> QED BY <1>1, <1>10, <1>11, <1>12, <1>17, <1>18, <1>19, <2>1 DEF RingsState
<1> QED BY <1>20 DEF M

(* The entries of h up to place k get the head l.                          *)
CutOff(lt, ls, l, h, k) ==
    /\ lt \in [Heads -> Seq(Nodes)]
    /\ \A g \in Heads : g # h /\ g # l => lt[g] = ls[g]
    /\ Len(lt[l]) = k /\ \A j \in 1 .. k : lt[l][j] = ls[h][j]
    /\ Len(lt[h]) = Len(ls[h]) - k
    /\ \A j \in 1 .. Len(ls[h]) - k : lt[h][j] = ls[h][k + j]

LEMMA CutOffIs ==
    ASSUME NEW ls \in [Heads -> Seq(Nodes)], NEW h \in Heads, NEW l \in Heads, h # l,
           NEW k \in 0 .. Len(ls[h])
    PROVE  CutOff([ls EXCEPT ![l] = SubSeq(ls[h], 1, k),
                             ![h] = SubSeq(@, k + 1, Len(@))], ls, l, h, k)
<1> DEFINE lt == [ls EXCEPT ![l] = SubSeq(ls[h], 1, k), ![h] = SubSeq(@, k + 1, Len(@))]
           s == ls[h]
<1>1. s \in Seq(Nodes) /\ Len(s) \in Nat /\ \A g \in Heads : ls[g] \in Seq(Nodes)
  BY LenProperties
<1>2. /\ lt = [g \in Heads |-> lt[g]]
      /\ lt[l] = SubSeq(s, 1, k) /\ lt[h] = SubSeq(s, k + 1, Len(s))
      /\ \A g \in Heads : g # h /\ g # l => lt[g] = ls[g]
  OBVIOUS
<1> HIDE DEF lt
<1>3. /\ lt[l] \in Seq(Nodes) /\ Len(lt[l]) = k
      /\ \A j \in 1 .. k : lt[l][j] = s[j]
  <2>1. /\ SubSeq(s, 1, k) \in Seq(Nodes) /\ Len(SubSeq(s, 1, k)) = k
        /\ \A j \in 1 .. k : SubSeq(s, 1, k)[j] = s[j]
    BY <1>1, SubSeqProperties
  <2> QED BY <1>2, <2>1
<1>4. /\ lt[h] \in Seq(Nodes) /\ Len(lt[h]) = Len(s) - k
      /\ \A j \in 1 .. Len(s) - k : lt[h][j] = s[k + j]
  <2>1. /\ SubSeq(s, k + 1, Len(s)) \in Seq(Nodes)
        /\ Len(SubSeq(s, k + 1, Len(s))) = Len(s) - k
        /\ \A j \in 1 .. Len(s) - k : SubSeq(s, k + 1, Len(s))[j] = s[k + j]
    BY <1>1, SubSeqProperties
  <2> QED BY <1>2, <2>1
<1>5. lt \in [Heads -> Seq(Nodes)]
  <2>1. \A g \in Heads : lt[g] \in Seq(Nodes)
    BY <1>1, <1>2, <1>3, <1>4
  <2> QED BY <1>2, <2>1
<1> HIDE DEF s
<1>6. CutOff(lt, ls, l, h, k)
  BY <1>2, <1>3, <1>4, <1>5 DEF CutOff, s
<1> QED BY <1>6 DEF lt

LEMMA SeparateCut ==
    ASSUME NEW ls \in [Heads -> Seq(Nodes)], Separate(ls),
           NEW h \in Heads, NEW l \in Heads, h # l, NEW k \in 0 .. Len(ls[h]),
           NEW lt, CutOff(lt, ls, l, h, k)
    PROVE  /\ Separate(lt)
           /\ \A n : Unlinked(n, ls) => Unlinked(n, lt)
\* Where the entry at place i of g was before.
<1> DEFINE From(g) == IF g = l THEN h ELSE g
           Was(g, i) == IF g = h THEN k + i ELSE i
<1> HIDE DEF From, Was
<1>1. Len(ls[h]) \in Nat /\ k \in 0 .. Len(ls[h])
  BY LenProperties
<1>2. \A g \in Heads : \A i \in 1 .. Len(lt[g]) :
         /\ i \in Int /\ (g = l => i <= k) /\ i > 0
         /\ From(g) \in Heads /\ Was(g, i) \in 1 .. Len(ls[From(g)])
         /\ lt[g][i] = ls[From(g)][Was(g, i)]
  <2> SUFFICES ASSUME NEW g \in Heads, NEW i \in 1 .. Len(lt[g])
               PROVE  /\ i \in Int /\ (g = l => i <= k) /\ i > 0
                      /\ From(g) \in Heads /\ Was(g, i) \in 1 .. Len(ls[From(g)])
                      /\ lt[g][i] = ls[From(g)][Was(g, i)]
    OBVIOUS
  <2>1. CASE g = l
    <3>1. From(g) = h /\ Was(g, i) = i
      BY <2>1 DEF From, Was
    <3>2. i \in 1 .. k /\ lt[g][i] = ls[h][i]
      BY <2>1 DEF CutOff
    <3> QED BY <1>1, <3>1, <3>2
  <2>2. CASE g = h
    <3>1. From(g) = h /\ Was(g, i) = k + i
      BY <2>2 DEF From, Was
    <3>2. i \in 1 .. Len(ls[h]) - k /\ lt[g][i] = ls[h][k + i]
      BY <2>2 DEF CutOff
    <3>3. k + i \in 1 .. Len(ls[h]) /\ i \in Int /\ i > 0
      BY <1>1, <3>2
    <3> QED BY <2>2, <3>1, <3>2, <3>3
  <2>3. CASE g # h /\ g # l
    <3>1. From(g) = g /\ Was(g, i) = i
      BY <2>3 DEF From, Was
    <3>2. lt[g] = ls[g]
      BY <2>3 DEF CutOff
    <3>3. Len(ls[g]) \in Nat
      BY LenProperties
    <3> QED BY <2>3, <3>1, <3>2, <3>3
  <2> QED BY <2>1, <2>2, <2>3
<1>3. Separate(lt)
  <2> SUFFICES ASSUME NEW f \in Heads, NEW g \in Heads,
                      NEW i \in 1 .. Len(lt[f]), NEW j \in 1 .. Len(lt[g]),
                      lt[f][i] = lt[g][j]
               PROVE  f = g /\ i = j
    BY DEF Separate
  <2>1. /\ i \in Int /\ (f = l => i <= k) /\ i > 0
        /\ j \in Int /\ (g = l => j <= k) /\ j > 0
        /\ From(f) \in Heads /\ Was(f, i) \in 1 .. Len(ls[From(f)])
        /\ From(g) \in Heads /\ Was(g, j) \in 1 .. Len(ls[From(g)])
        /\ ls[From(f)][Was(f, i)] = ls[From(g)][Was(g, j)]
    BY <1>2
  <2>2. From(f) = From(g) /\ Was(f, i) = Was(g, j)
    BY <2>1, SeparateAt
  <2>3. CASE f = g
    BY <1>1, <2>1, <2>2, <2>3 DEF Was
  <2>4. CASE f # g
    <3>1. \/ f = l /\ g = h
          \/ f = h /\ g = l
      BY <2>2, <2>4 DEF From
    <3>2. f = l /\ g = h => i = k + j
      BY <2>2 DEF Was
    <3>3. f = h /\ g = l => k + i = j
      BY <2>2 DEF Was
    <3>4. i \in Int /\ (f = l => i <= k) /\ i > 0 /\ j \in Int /\ (g = l => j <= k) /\ j > 0
      BY <2>1
    <3>5. k \in Int
      BY <1>1
    <3> QED BY <3>1, <3>2, <3>3, <3>4, <3>5
  <2> QED BY <2>3, <2>4
<1>4. ASSUME NEW c, Unlinked(c, ls)
      PROVE  Unlinked(c, lt)
  <2> SUFFICES ASSUME NEW g \in Heads, NEW i \in 1 .. Len(lt[g])
               PROVE  lt[g][i] # c
    BY DEF Unlinked
  <2>1. /\ From(g) \in Heads /\ Was(g, i) \in 1 .. Len(ls[From(g)])
        /\ lt[g][i] = ls[From(g)][Was(g, i)]
    BY <1>2
  <2> QED BY <1>4, <2>1 DEF Unlinked
<1> QED BY <1>3, <1>4

LEMMA StateCut ==
    ASSUME NEW L, NEW ls, NEW us, NEW id, RingsState(L, ls, us, id), NEW h \in us,
           NEW l \in us, h # l, NEW k \in 1 .. Len(ls[h]), NEW e, e = ls[h][k],
           NEW lt, CutOff(lt, ls, l, h, k)
    PROVE  RingsState(__list_cut_position(L, l, h, e), lt, us, id)
<1> DEFINE x == Places(h, ls[h])
           n == Len(ls[h])
           M == __list_cut_position(L, l, h, e)
           y == Places(l, lt[l])
           z == Places(h, lt[h])
<1> HIDE DEF x, z, n, M, y
<1>1. /\ h \in Heads /\ l \in Heads /\ L \in Links
      /\ ls \in [Heads -> Seq(Nodes)] /\ Separate(ls)
      /\ us \in SUBSET Heads /\ id \in SUBSET Nodes
      /\ ls[h] \in Seq(Nodes) /\ n \in Nat
      /\ Simple(x, n, Cells) /\ Circle(L.next, L.prev, x, n)
  <2>1. h \in Heads /\ l \in Heads
    BY DEF RingsState
  <2>2. /\ L \in Links /\ ls \in [Heads -> Seq(Nodes)] /\ Separate(ls)
        /\ us \in SUBSET Heads /\ id \in SUBSET Nodes
        /\ ls[h] \in Seq(Nodes) /\ n \in Nat
        /\ Simple(x, n, Cells) /\ Circle(L.next, L.prev, x, n)
    BY <2>1, StateFacts DEF x, n
  <2> QED BY <2>1, <2>2
<1>2. /\ 0 \in 0 .. n /\ 1 \in 0 .. n /\ 1 \in 0 .. n + 1 /\ 0 \in 0 .. n + 1
      /\ 0 + 1 = 1 /\ k \in 0 .. n /\ k > 0 /\ k \in 1 .. n
      /\ k \in 0 .. n + 1 /\ k + 1 \in 0 .. n + 1
  BY <1>1 DEF n
<1>3. x[0] = h /\ x[1] \in Cells /\ L.next[h] = x[1]
  <2>1. x[0] = h /\ L.next[x[0]] = x[0 + 1] /\ x[0 + 1] \in Cells
    BY <1>2, AroundPlace DEF x, n
  <2> QED BY <1>2, <2>1
<1>4. x[k] = e /\ e \in Nodes /\ x[k + 1] \in Cells /\ L.next[x[k]] = x[k + 1]
  BY <1>2, AroundPlace DEF x, n
<1>5. PICK a \in Cells, b \in Cells : a = x[1] /\ b = x[k + 1]
  BY <1>3, <1>4
<1>6. \A i \in 0 .. n + 1 : x[i] # l
  <2> TAKE i \in 0 .. n + 1
  <2>1. x[i] = h \/ x[i] \in Nodes
    BY <1>1, PlacesOf DEF x, n
  <2> QED BY <1>1, <2>1, ListConstants
<1>7. Parted(M, L, l, h, e, a, b)
  <2>1. /\ l \in Cells /\ h \in Cells /\ e \in Cells /\ L \in Links
        /\ L.next[h] = a /\ L.next[e] = b
    BY <1>1, <1>3, <1>4, <1>5 DEF Cells
  <2>2. l # h /\ l # e /\ l # a /\ l # b
    BY <1>2, <1>4, <1>5, <1>6
  <2>3. h # e
    BY <1>1, <1>4, ListConstants
  <2>4. a # b
    <3>1. 1 \in 1 .. n + 1 /\ k + 1 \in 1 .. n + 1 /\ k + 1 # 1
      BY <1>1, <1>2
    <3> QED BY <1>1, <1>5, <3>1 DEF Simple
  <2>5. l \notin {h, e, a, b}
    BY <2>2
  <2> QED BY <2>1, <2>3, <2>4, <2>5, CutPointers DEF M
<1>8. /\ M \in Links
      /\ M.next[l] = a /\ M.next[e] = l /\ M.next[h] = b
      /\ M.prev[a] = l /\ M.prev[l] = e /\ M.prev[b] = h
      /\ Differ(M, L, {l, e, h}, {l, a, b})
  BY <1>7 DEF Parted
<1>9. Separate(lt) /\ \A c : Unlinked(c, ls) => Unlinked(c, lt)
  <2>1. k \in 0 .. Len(ls[h])
    BY <1>2 DEF n
  <2> QED BY <1>1, <2>1, SeparateCut
<1>10. /\ lt \in [Heads -> Seq(Nodes)]
       /\ \A g \in Heads : g # h /\ g # l => lt[g] = ls[g]
       /\ Len(lt[l]) = k /\ \A j \in 1 .. k : lt[l][j] = ls[h][j]
       /\ Len(lt[h]) = n - k
       /\ \A j \in 1 .. n - k : lt[h][j] = ls[h][k + j]
  BY DEF CutOff, n
<1>11. x[n + 1] = h /\ \A j \in 1 .. n : x[j] = ls[h][j]
  BY <1>1, PlacesAre DEF x, n
<1>12. HeadPlaces(y, x, k, l)
  <2> SUFFICES ASSUME NEW i \in 0 .. k + 1
               PROVE  y[i] = IF i \in 1 .. k THEN x[i] ELSE l
    BY DEF HeadPlaces
  <2>1. y[0] = l /\ y[k + 1] = l /\ \A j \in 1 .. k : y[j] = lt[l][j]
    <3>1. lt[l] \in Seq(Nodes) /\ l \in Heads
      BY <1>1, <1>10
    <3>2. /\ y[0] = l /\ y[Len(lt[l]) + 1] = l
          /\ \A j \in 1 .. Len(lt[l]) : y[j] = lt[l][j]
      BY <3>1, PlacesAre DEF y
    <3> QED BY <1>10, <3>2
  <2>2. i = 0 \/ i = k + 1 \/ i \in 1 .. k
    BY <1>1, <1>2
  <2>3. i \in 1 .. k => i \in 1 .. n
    BY <1>1, <1>2
  <2>4. 0 \notin 1 .. k /\ k + 1 \notin 1 .. k
    BY <1>1, <1>2
  <2> QED BY <1>10, <1>11, <2>1, <2>2, <2>3, <2>4
<1>13. RestPlaces(z, x, n, k)
  <2> SUFFICES ASSUME NEW i \in 0 .. n - k + 1
               PROVE  z[i] = IF i = 0 THEN x[0] ELSE x[k + i]
    BY DEF RestPlaces
  <2>1. z[0] = h /\ z[n - k + 1] = h /\ \A j \in 1 .. n - k : z[j] = lt[h][j]
    <3>1. lt[h] \in Seq(Nodes) /\ h \in Heads
      BY <1>1, <1>10
    <3>2. /\ z[0] = h /\ z[Len(lt[h]) + 1] = h
          /\ \A j \in 1 .. Len(lt[h]) : z[j] = lt[h][j]
      BY <3>1, PlacesAre DEF z
    <3> QED BY <1>10, <3>2
  <2>2. CASE i = 0
    BY <1>3, <2>1, <2>2
  <2>3. CASE i = n - k + 1
    <3>1. i # 0 /\ k + i = n + 1
      BY <1>1, <1>2, <2>3
    <3> QED BY <1>11, <2>1, <2>3, <3>1
  <2>4. CASE i \in 1 .. n - k
    <3>1. i # 0 /\ k + i \in 1 .. n
      BY <1>1, <1>2, <2>4
    <3> QED BY <1>10, <1>11, <2>1, <2>4, <3>1
  <2> QED BY <1>1, <1>2, <2>2, <2>3, <2>4
<1>14. Circle(M.next, M.prev, y, k) /\ Circle(M.next, M.prev, z, n - k)
  <2>1. CutLinks(M.next, M.prev, L.next, L.prev, Cells, x, l, k)
    BY <1>3, <1>4, <1>5, <1>8 DEF Differ, Agree, CutLinks
  <2>2. /\ n \in Nat /\ Simple(x, n, Cells) /\ Circle(L.next, L.prev, x, n)
        /\ k \in 1 .. n /\ l \in Cells
    BY <1>1, <1>2 DEF Cells
  <2>3. Misses(x, n, l)
    BY <1>1, <1>6 DEF Misses
  <2> QED BY <1>12, <1>13, <2>1, <2>2, <2>3, CircleCut
<1>15. Turns(M, l, lt[l]) /\ Turns(M, h, lt[h])
  BY <1>10, <1>14 DEF Turns, y, z
<1>16. ASSUME NEW g \in us, g # h, g # l
       PROVE  Turns(M, g, lt[g])
  <2>1. g \in Heads
    BY <1>1
  <2>2. Off(h, g, ls) /\ Off(l, g, ls)
    BY <1>1, <1>16, <2>1, OffRings
  <2>3. Off(a, g, ls) /\ Off(b, g, ls) /\ Off(e, g, ls)
    BY <1>1, <1>2, <1>4, <1>5, <1>16, <2>1, OffRings DEF x, n
  <2>4. Turns(M, g, ls[g])
    <3>1. (\A c \in {l, e, h} : Off(c, g, ls)) /\ (\A c \in {l, a, b} : Off(c, g, ls))
      BY <2>2, <2>3
    <3> QED BY <1>8, <3>1, RingOff
  <2> QED BY <1>10, <1>16, <2>1, <2>4
<1>17. \A c \in id : Unlinked(c, lt) /\ M.next[c] = c /\ M.prev[c] = c
  <2> TAKE c \in id
  <2>1. a # c /\ b # c /\ e # c
    BY <1>1, <1>2, <1>4, <1>5, IdleOff DEF x, n
  <2>2. h # c /\ l # c
    <3>1. c \in Nodes
      BY IdleOff
    <3> QED BY <1>1, <3>1, ListConstants
  <2>3. M.next[c] = c /\ M.prev[c] = c
    <3>1. c \in id /\ c \notin {l, e, h} /\ c \notin {l, a, b} /\ Differ(M, L, {l, e, h}, {l, a, b})
      BY <1>8, <2>1, <2>2
    <3> QED BY <3>1, IdleKept
  <2> QED BY <1>9, <2>3, IdleOff
<1>18. \A g \in Heads \ us : lt[g] = <<>>
  BY <1>10 DEF RingsState
<1>19. \A g \in us : Turns(M, g, lt[g])
  BY <1>15, <1>16
<1>20. RingsState(M, lt, us, id)
  BY <1>1, <1>8, <1>9, <1>10, <1>17, <1>18, <1>19 DEF RingsState
<1> QED BY <1>20 DEF M

-----------------------------------------------------------------------------
(* Rings, entries and places, as the module names them.                    *)
RingsInv == RingsState(link, lists, usable, idle)

LEMMA EntryIs ==
    ASSUME lists \in [Heads -> Seq(Nodes)], Separate(lists), NEW h \in Heads,
           NEW k \in 1 .. Len(lists[h]), NEW n, n = lists[h][k]
    PROVE  /\ n \in Nodes /\ n \in Linked /\ n \notin Heads
           /\ ListOf(n) = h /\ Place(n) = k /\ RingOf(n) = h
<1>1. \A g \in Heads : DOMAIN lists[g] = 1 .. Len(lists[g])
  BY LenProperties
<1>2. \A g \in Heads : ToSet(lists[g]) = {lists[g][i] : i \in 1 .. Len(lists[g])}
  BY <1>1 DEF ToSet
<1>3. lists[h] \in Seq(Nodes)
  OBVIOUS
<1>4. n \in Nodes /\ n \notin Heads
  BY <1>3, ElementOfSeq, ListConstants
<1>5. n \in ToSet(lists[h])
  BY <1>2
<1>6. \A g \in Heads : n \in ToSet(lists[g]) => g = h
  <2> SUFFICES ASSUME NEW g \in Heads, NEW i \in 1 .. Len(lists[g]), n = lists[g][i]
               PROVE  g = h
    BY <1>2
  <2> QED BY SeparateAt
<1>7. ListOf(n) = h
  BY <1>5, <1>6 DEF ListOf
<1>8. \A i \in 1 .. Len(lists[h]) : lists[h][i] = n => i = k
  <2> TAKE i \in 1 .. Len(lists[h])
  <2> QED BY SeparateAt
<1>9. Place(n) = k
  <2>1. (CHOOSE i \in DOMAIN lists[h] : lists[h][i] = n) = k
    BY <1>1, <1>8
  <2> QED BY <1>4, <1>7, <2>1 DEF Place
<1>10. RingOf(n) = h
  BY <1>4, <1>7 DEF RingOf
<1>11. n \in Linked
  BY <1>5 DEF Linked
<1> QED BY <1>4, <1>7, <1>9, <1>10, <1>11

LEMMA LinkedAt ==
    ASSUME lists \in [Heads -> Seq(Nodes)], NEW n
    PROVE  /\ n \in Linked => \E h \in Heads : \E k \in 1 .. Len(lists[h]) : n = lists[h][k]
           /\ n \notin Linked => Unlinked(n, lists)
<1>1. \A g \in Heads : DOMAIN lists[g] = 1 .. Len(lists[g])
  BY LenProperties
<1>2. \A g \in Heads : ToSet(lists[g]) = {lists[g][i] : i \in 1 .. Len(lists[g])}
  BY <1>1 DEF ToSet
<1>3. n \in Linked <=> \E g \in Heads : n \in ToSet(lists[g])
  BY DEF Linked
<1> QED BY <1>2, <1>3 DEF Unlinked

(* The entry that leaves its ring.                                         *)
LEMMA WithoutIs ==
    ASSUME RingsInv, NEW n \in Linked
    PROVE  \E h \in usable : \E k \in 1 .. Len(lists[h]) :
              /\ n = lists[h][k] /\ h \in Heads
              /\ Without(n) = [lists EXCEPT ![h] = RemoveAt(@, k)]
<1>1. lists \in [Heads -> Seq(Nodes)] /\ Separate(lists)
  BY DEF RingsInv, RingsState
<1>2. PICK h \in Heads : \E k \in 1 .. Len(lists[h]) : n = lists[h][k]
  BY <1>1, LinkedAt
<1>3. PICK k \in 1 .. Len(lists[h]) : n = lists[h][k]
  BY <1>2
<1>4. ListOf(n) = h /\ Place(n) = k
  BY <1>1, <1>3, EntryIs
<1>5. h \in usable
  <2>1. h \notin usable => lists[h] = <<>>
    BY DEF RingsInv, RingsState
  <2>2. Len(<<>>) = 0
    OBVIOUS
  <2> QED BY <2>1, <2>2
<1> QED BY <1>3, <1>4, <1>5 DEF Without

(* A head, or an entry of a list, and where it is.                         *)
LEMMA PointIs ==
    ASSUME RingsInv, NEW at \in Points
    PROVE  \E h \in usable :
              /\ h \in Heads /\ RingOf(at) = h /\ Place(at) \in 0 .. Len(lists[h])
              /\ Places(h, lists[h])[Place(at)] = at
              /\ at \in Heads <=> Place(at) = 0
              /\ at \in Heads => at = h
<1>1. /\ lists \in [Heads -> Seq(Nodes)] /\ Separate(lists) /\ usable \subseteq Heads
      /\ \A g \in Heads : lists[g] \in Seq(Nodes) /\ Len(lists[g]) \in Nat
  BY LenProperties DEF RingsInv, RingsState
<1>2. CASE at \in usable
  <2>1. at \in Heads /\ RingOf(at) = at /\ Place(at) = 0
    BY <1>1, <1>2 DEF RingOf, Place
  <2>2. Places(at, lists[at])[0] = at /\ 0 \in 0 .. Len(lists[at])
    BY <1>1, <2>1, PlacesAre
  <2> QED BY <1>2, <2>1, <2>2
<1>3. CASE at \in Linked
  <2>1. PICK h \in usable : \E k \in 1 .. Len(lists[h]) :
              /\ at = lists[h][k] /\ h \in Heads
              /\ Without(at) = [lists EXCEPT ![h] = RemoveAt(@, k)]
    BY <1>3, WithoutIs
  <2>2. PICK k \in 1 .. Len(lists[h]) : at = lists[h][k] /\ h \in Heads
    BY <2>1
  <2>3. at \notin Heads /\ RingOf(at) = h /\ Place(at) = k
    BY <1>1, <2>2, EntryIs
  <2>4. Places(h, lists[h])[k] = at
    BY <1>1, <2>2, PlacesAre
  <2>5. k \in 0 .. Len(lists[h]) /\ k # 0
    BY <1>1, <2>2
  <2> QED BY <2>2, <2>3, <2>4, <2>5
<1> QED BY <1>2, <1>3 DEF Points

LEMMA IdleFewer ==
    ASSUME NEW L, NEW ls, NEW us, NEW id, RingsState(L, ls, us, id), NEW n
    PROVE  RingsState(L, ls, us, id \ {n})
<1>1. /\ \A h \in us : Turns(L, h, ls[h])
      /\ L \in Links /\ ls \in [Heads -> Seq(Nodes)]
      /\ us \subseteq Heads /\ id \subseteq Nodes
      /\ Separate(ls)
      /\ \A h \in Heads \ us : ls[h] = <<>>
      /\ \A c \in id : Unlinked(c, ls) /\ L.next[c] = c /\ L.prev[c] = c
  BY DEF RingsState
<1> QED BY <1>1 DEF RingsState

LEMMA InitHeadKeeps ==
    ASSUME RingsInv, NEW h \in Heads, InitHead(h)
    PROVE  RingsInv'
<1>1. /\ link' = INIT_LIST_HEAD(link, h) /\ lists' = [lists EXCEPT ![h] = <<>>]
      /\ usable' = usable \cup {h} /\ idle' = idle
  BY DEF InitHead, Operation
<1>2. RingsState(link', lists', usable', idle')
  BY <1>1, StateInitHead DEF RingsInv
<1> QED BY <1>2 DEF RingsInv

(* list_del() and list_del_init() of an entry of a list.                   *)
LEMMA UnlinkedState ==
    ASSUME RingsInv, NEW n \in Linked
    PROVE  LET M == __list_del(link, link.prev[n], link.next[n])
           IN /\ RingsState(M, Without(n), usable, idle)
              /\ n \in Nodes /\ n \notin idle /\ Unlinked(n, Without(n))
              /\ M.next[n] = link.next[n] /\ M.prev[n] = link.prev[n]
<1>1. PICK h \in usable : \E k \in 1 .. Len(lists[h]) :
            /\ n = lists[h][k] /\ h \in Heads
            /\ Without(n) = [lists EXCEPT ![h] = RemoveAt(@, k)]
  BY WithoutIs
<1>2. PICK k \in 1 .. Len(lists[h]) :
            /\ n = lists[h][k]
            /\ Without(n) = [lists EXCEPT ![h] = RemoveAt(@, k)]
  BY <1>1
<1> QED BY <1>2, StateUnlink DEF RingsInv

LEMMA PoisonedState ==
    ASSUME RingsInv, NEW n \in Linked
    PROVE  RingsState(list_del(link, n), Without(n), usable, idle)
<1> DEFINE M == __list_del(link, link.prev[n], link.next[n])
           N == [M EXCEPT !.next[n] = LIST_POISON, !.prev[n] = LIST_POISON]
<1>1. /\ RingsState(M, Without(n), usable, idle)
      /\ n \in Nodes /\ n \notin idle /\ Unlinked(n, Without(n))
  BY UnlinkedState
<1>2. N = list_del(link, n)
  BY Zenon DEF list_del
<1> HIDE DEF M
<1>3. n \in Cells /\ M \in Links
  BY <1>1 DEF Cells, RingsState
<1>4. N \in Links /\ Differ(N, M, {n}, {n})
  BY <1>3, PoisonPointers
<1> HIDE DEF N
<1>5. RingsState(N, Without(n), usable, idle)
  BY <1>1, <1>3, <1>4, StateStray
<1> QED BY <1>2, <1>5

LEMMA DeleteKeeps ==
    ASSUME RingsInv, NEW n \in Nodes, Delete(n)
    PROVE  RingsInv'
<1>1. /\ n \in Linked /\ link' = list_del(link, n) /\ lists' = Without(n)
      /\ usable' = usable /\ idle' = idle
  BY DEF Delete, Operation
<1>2. RingsState(link', lists', usable', idle')
  BY <1>1, PoisonedState
<1> QED BY <1>2 DEF RingsInv

LEMMA DeleteInitKeeps ==
    ASSUME RingsInv, NEW n \in Nodes, DeleteInit(n)
    PROVE  RingsInv'
<1> DEFINE M == __list_del(link, link.prev[n], link.next[n])
<1>1. /\ n \in Linked \cup idle
      /\ link' = INIT_LIST_HEAD(M, n) /\ lists' = Without(n)
      /\ usable' = usable /\ idle' = idle \cup {n}
  BY DEF DeleteInit, Operation, list_del_init
<1> HIDE DEF M
<1>2. CASE n \in Linked
  <2>1. RingsState(M, Without(n), usable, idle) /\ Unlinked(n, Without(n))
    BY <1>2, UnlinkedState DEF M
  <2>2. RingsState(INIT_LIST_HEAD(M, n), Without(n), usable, idle \cup {n})
    BY <2>1, StateInitNode
  <2> QED BY <1>1, <2>2 DEF RingsInv
<1>3. CASE n \notin Linked
  <2>1. n \in idle
    BY <1>1, <1>3
  <2>2. Without(n) = lists
    BY <1>3 DEF Without
  <2>3. RingsState(link, lists, usable, idle)
    BY DEF RingsInv
  <2>4. Unlinked(n, lists) /\ link.next[n] = n /\ link.prev[n] = n
    BY <2>1, <2>3, IdleOff
  <2>5. RingsState(link, lists, usable, idle \ {n})
    BY <2>3, IdleFewer
  <2>6. n \in Cells /\ link \in Links
    BY <2>3 DEF Cells, RingsState
  <2>7. M \in Links /\ Differ(M, link, {n}, {n})
    <3>1. M = __list_del(link, n, n)
      BY <2>4 DEF M
    <3> QED BY <2>6, <3>1, DelPointers
  <2>8. RingsState(M, lists, usable, idle \ {n})
    BY <2>4, <2>5, <2>6, <2>7, StateStray
  <2>9. RingsState(INIT_LIST_HEAD(M, n), lists, usable, (idle \ {n}) \cup {n})
    BY <2>4, <2>8, StateInitNode
  <2>10. (idle \ {n}) \cup {n} = idle \cup {n}
    OBVIOUS
  <2> QED BY <1>1, <2>2, <2>9, <2>10 DEF RingsInv
<1> QED BY <1>2, <1>3

LEMMA AddKeeps ==
    ASSUME RingsInv, NEW n \in Nodes, NEW at \in Heads \cup Nodes, Add(n, at)
    PROVE  RingsInv'
<1>1. n \notin Linked /\ at \in Points /\ usable' = usable /\ idle' = idle \ {n}
  BY DEF Add, Operation
<1>2. PICK h \in usable :
         /\ h \in Heads /\ RingOf(at) = h /\ Place(at) \in 0 .. Len(lists[h])
         /\ Places(h, lists[h])[Place(at)] = at
         /\ at \in Heads <=> Place(at) = 0
         /\ at \in Heads => at = h
  BY <1>1, PointIs
<1> DEFINE x == Places(h, lists[h])
           m == Len(lists[h])
<1>3. /\ RingsState(link, lists, usable, idle)
      /\ lists \in [Heads -> Seq(Nodes)] /\ m \in Nat /\ Unlinked(n, lists)
  <2>1. lists \in [Heads -> Seq(Nodes)]
    BY DEF RingsInv, RingsState
  <2>2. lists[h] \in Seq(Nodes)
    BY <1>2, <2>1
  <2> QED BY <1>1, <2>1, <2>2, LinkedAt, LenProperties DEF RingsInv
<1> HIDE DEF m, x
<1>4. PICK i \in 0 .. m : i = Place(at)
  BY <1>2 DEF m
<1>5. x[i] = at /\ link.next[at] = x[i + 1]
  <2>1. x[i] = at
    BY <1>2, <1>4 DEF x
  <2>2. link.next[x[i]] = x[i + 1]
    BY <1>3, AroundPlace DEF x, m
  <2> QED BY <2>1, <2>2
<1>6. CASE /\ link' = list_add(link, n, at)
           /\ lists' = [lists EXCEPT ![RingOf(at)] = InsertAt(@, Place(at) + 1, n)]
  <2>1. PICK k \in 1 .. m + 1 : k = i + 1 /\ k - 1 = i
    BY <1>3
  <2>2. link' = __list_add(link, n, x[k - 1], x[k])
    BY <1>5, <1>6, <2>1 DEF list_add
  <2>3. lists' = [lists EXCEPT ![h] = InsertAt(@, k, n)]
    BY <1>2, <1>4, <1>6, <2>1
  <2>4. RingsState(__list_add(link, n, x[k - 1], x[k]),
                   [lists EXCEPT ![h] = InsertAt(@, k, n)], usable, idle \ {n})
    BY <1>3, StateInsert DEF x, m
  <2> QED BY <1>1, <2>2, <2>3, <2>4 DEF RingsInv
<1>7. CASE /\ link' = list_add_tail(link, n, at)
           /\ lists' = [lists EXCEPT ![RingOf(at)] =
                           InsertAt(@, IF at \in Heads THEN Len(@) + 1 ELSE Place(at), n)]
  <2>1. PICK k \in 1 .. m + 1 : k = IF at \in Heads THEN m + 1 ELSE i
    <3>1. at \notin Heads => i \in 1 .. m + 1
      BY <1>2, <1>3, <1>4
    <3>2. m + 1 \in 1 .. m + 1
      BY <1>3
    <3> QED BY <3>1, <3>2
  <2>2. x[k] = at /\ link.prev[at] = x[k - 1]
    <3>1. k - 1 \in 0 .. m /\ (k - 1) + 1 = k
      BY <1>3
    <3>2. link.prev[x[k]] = x[k - 1]
      BY <1>3, <3>1, AroundPlace DEF x, m
    <3>3. at \in Heads => x[m + 1] = h /\ at = h
      <4>1. lists[h] \in Seq(Nodes)
        BY <1>2, <1>3
      <4> QED BY <1>2, <4>1, PlacesAre DEF x, m
    <3> QED BY <1>5, <2>1, <3>2, <3>3
  <2>3. link' = __list_add(link, n, x[k - 1], x[k])
    BY <1>7, <2>2 DEF list_add_tail
  <2>4. lists' = [lists EXCEPT ![h] = InsertAt(@, k, n)]
    BY <1>2, <1>4, <1>7, <2>1 DEF m
  <2>5. RingsState(__list_add(link, n, x[k - 1], x[k]),
                   [lists EXCEPT ![h] = InsertAt(@, k, n)], usable, idle \ {n})
    BY <1>3, StateInsert DEF x, m
  <2> QED BY <1>1, <2>3, <2>4, <2>5 DEF RingsInv
<1> QED BY <1>6, <1>7 DEF Add, Operation

LEMMA ReplaceKeeps ==
    ASSUME RingsInv, NEW old \in Heads \cup Nodes, NEW new \in Heads \cup Nodes,
           Replace(old, new)
    PROVE  RingsInv'
<1>1. /\ RingsState(link, lists, usable, idle)
      /\ lists \in [Heads -> Seq(Nodes)] /\ Separate(lists)
      /\ usable \subseteq Heads /\ idle \subseteq Nodes
  BY DEF RingsInv, RingsState
<1>2. CASE old \in Linked
  <2>1. old \notin usable
    <3>1. old \notin Heads
      BY <1>2, PointIs, WithoutIs, EntryIs, <1>1
    <3> QED BY <1>1, <3>1
  <2>2. PICK h \in usable : \E k \in 1 .. Len(lists[h]) : old = lists[h][k] /\ h \in Heads
    BY <1>2, WithoutIs
  <2>3. PICK k \in 1 .. Len(lists[h]) : old = lists[h][k] /\ h \in Heads
    BY <2>2
  <2>4. ListOf(old) = h /\ Place(old) = k
    BY <1>1, <2>3, EntryIs
  <2> DEFINE M == list_replace(link, old, new)
             lt == [lists EXCEPT ![h][k] = new]
  <2>5. new \in Nodes /\ Unlinked(new, lists) /\ lists' = lt /\ usable' = usable
    <3>1. new \in Nodes \ Linked /\ lists' = lt /\ usable' = usable
      BY <2>1, <2>4 DEF Replace, Operation
    <3> QED BY <1>1, <3>1, LinkedAt
  <2>6. \/ link' = M /\ idle' = idle \ {new}
        \/ link' = INIT_LIST_HEAD(M, old) /\ idle' = (idle \cup {old}) \ {new}
    BY <2>1 DEF Replace, Operation, list_replace_init
  <2> HIDE DEF M, lt
  <2>7. /\ RingsState(M, lt, usable, idle \ {new})
        /\ old \in Nodes /\ old \notin idle /\ Unlinked(old, lt)
    <3>1. Replaced(lt, lists, h, k, new)
      BY DEF Replaced, lt
    <3>2. Unlinked(new, lists) /\ new \in Nodes
      BY <2>5
    <3>3. RingsState(link, lists, usable, idle)
      BY <1>1
    <3>4. old = lists[h][k]
      BY <2>3
    <3>5. /\ RingsState(list_replace(link, old, new), lt, usable, idle \ {new})
          /\ old \in Nodes /\ old \notin idle /\ Unlinked(old, lt)
      BY <3>1, <3>2, <3>3, <3>4, StateReplace, Zenon
    <3> QED BY <3>5 DEF M
  <2>8. RingsState(INIT_LIST_HEAD(M, old), lt, usable, (idle \ {new}) \cup {old})
    BY <2>7, StateInitNode
  <2>9. (idle \ {new}) \cup {old} = (idle \cup {old}) \ {new}
    <3>1. lists[h][k] # new
      BY <2>3, <2>5 DEF Unlinked
    <3>2. old # new
      BY <2>3, <3>1
    <3> QED BY <3>2
  <2> QED BY <2>5, <2>6, <2>7, <2>8, <2>9 DEF RingsInv
<1>3. CASE old \notin Linked
  <2> DEFINE M == list_replace(link, old, new)
             lt == [lists EXCEPT ![old] = <<>>, ![new] = lists[old]]
             ut == (usable \ {old}) \cup {new}
  <2>1. old \in usable /\ new \in Heads /\ old # new /\ lists' = lt /\ idle' = idle
    BY <1>3 DEF Replace, Operation
  <2>2. \/ link' = M /\ usable' = ut
        \/ link' = INIT_LIST_HEAD(M, old) /\ usable' = usable \cup {new}
    BY <1>3 DEF Replace, Operation, list_replace_init
  <2>3. RingsState(M, lt, ut, idle)
    BY <1>1, <2>1, StateNewHead, Zenon
  <2>4. RingsState(INIT_LIST_HEAD(M, old), [lt EXCEPT ![old] = <<>>], ut \cup {old}, idle)
    BY <1>1, <2>1, <2>3, StateInitHead
  <2>5. [lt EXCEPT ![old] = <<>>] = lt
    BY <1>1, <2>1
  <2>6. ut \cup {old} = usable \cup {new}
    BY <2>1
  <2> HIDE DEF M, lt, ut
  <2> QED BY <2>1, <2>2, <2>3, <2>4, <2>5, <2>6 DEF RingsInv
<1> QED BY <1>2, <1>3

(* An entry in front of a list, and one after its end.                     *)
LEMMA InsertedEnds ==
    ASSUME NEW S, NEW s \in Seq(S), NEW e \in S
    PROVE  /\ Len(s) \in Nat
           /\ <<e>> \o s = InsertAt(s, 1, e)
           /\ Append(s, e) = InsertAt(s, Len(s) + 1, e)
<1>1. Len(s) \in Nat
  BY LenProperties
<1>2. <<e>> \in Seq(S) /\ Len(<<e>>) = 1 /\ <<e>>[1] = e
  OBVIOUS
<1>3. /\ <<e>> \o s \in Seq(S) /\ Len(<<e>> \o s) = Len(s) + 1
      /\ \A j \in 1 .. Len(s) + 1 :
            (<<e>> \o s)[j] = IF j = 1 THEN e ELSE s[j - 1]
  BY <1>1, <1>2, ConcatProperties
<1>4. /\ Append(s, e) \in Seq(S) /\ Len(Append(s, e)) = Len(s) + 1
      /\ \A j \in 1 .. Len(s) + 1 :
            Append(s, e)[j] = IF j = Len(s) + 1 THEN e ELSE s[j]
  BY <1>1, AppendProperties
<1>5. /\ InsertAt(s, 1, e) \in Seq(S) /\ Len(InsertAt(s, 1, e)) = Len(s) + 1
      /\ \A j \in 1 .. Len(s) + 1 :
            InsertAt(s, 1, e)[j] = IF j = 1 THEN e ELSE s[j - 1]
  <2>1. 1 \in 1 .. Len(s) + 1
    BY <1>1
  <2>2. \A j \in 1 .. Len(s) + 1 : j < 1 <=> FALSE
    BY <1>1
  <2> QED BY <2>1, <2>2, InsertedAt
<1>6. /\ InsertAt(s, Len(s) + 1, e) \in Seq(S)
      /\ Len(InsertAt(s, Len(s) + 1, e)) = Len(s) + 1
      /\ \A j \in 1 .. Len(s) + 1 :
            InsertAt(s, Len(s) + 1, e)[j] = IF j = Len(s) + 1 THEN e ELSE s[j]
  <2>1. Len(s) + 1 \in 1 .. Len(s) + 1
    BY <1>1
  <2>2. \A j \in 1 .. Len(s) + 1 : j < Len(s) + 1 <=> j # Len(s) + 1
    BY <1>1
  <2> QED BY <2>1, <2>2, InsertedAt
<1>7. <<e>> \o s = InsertAt(s, 1, e)
  <2> DEFINE a == <<e>> \o s
             b == InsertAt(s, 1, e)
  <2> HIDE DEF a, b
  <2>1. /\ a \in Seq(S) /\ b \in Seq(S) /\ Len(a) = Len(b)
        /\ \A j \in 1 .. Len(a) : a[j] = b[j]
    BY <1>3, <1>5 DEF a, b
  <2>2. a = b
    BY <2>1, SeqEqual
  <2> QED BY <2>2 DEF a, b
<1>8. Append(s, e) = InsertAt(s, Len(s) + 1, e)
  <2> DEFINE a == Append(s, e)
             b == InsertAt(s, Len(s) + 1, e)
  <2> HIDE DEF a, b
  <2>1. /\ a \in Seq(S) /\ b \in Seq(S) /\ Len(a) = Len(b)
        /\ \A j \in 1 .. Len(a) : a[j] = b[j]
    BY <1>4, <1>6 DEF a, b
  <2>2. a = b
    BY <2>1, SeqEqual
  <2> QED BY <2>2 DEF a, b
<1> QED BY <1>1, <1>7, <1>8

LEMMA StateAddEnds ==
    ASSUME NEW L, NEW ls, NEW us, NEW id, RingsState(L, ls, us, id), NEW h \in us,
           NEW n \in Nodes, Unlinked(n, ls), n \notin id
    PROVE  /\ RingsState(list_add(L, n, h), [ls EXCEPT ![h] = <<n>> \o @], us, id)
           /\ RingsState(list_add_tail(L, n, h), [ls EXCEPT ![h] = Append(@, n)], us, id)
<1> DEFINE x == Places(h, ls[h])
           m == Len(ls[h])
<1> HIDE DEF x, m
<1>1. h \in Heads /\ ls[h] \in Seq(Nodes) /\ m \in Nat
  <2>1. h \in Heads
    BY DEF RingsState
  <2> QED BY <2>1, StateFacts DEF m
<1>2. /\ 0 \in 0 .. m /\ m \in 0 .. m /\ 1 \in 1 .. m + 1 /\ m + 1 \in 1 .. m + 1
      /\ 1 - 1 = 0 /\ (m + 1) - 1 = m /\ 0 + 1 = 1
  BY <1>1
<1>3. x[0] = h /\ x[m + 1] = h
  BY <1>1, PlacesAre DEF x, m
<1>4. L.next[h] = x[1]
  <2>1. L.next[x[0]] = x[0 + 1]
    BY <1>2, AroundPlace DEF x, m
  <2> QED BY <1>2, <1>3, <2>1
<1>5. L.prev[h] = x[m]
  <2>1. L.prev[x[m + 1]] = x[m]
    BY <1>2, AroundPlace DEF x, m
  <2> QED BY <1>3, <2>1
<1>6. id \ {n} = id
  OBVIOUS
<1>7. /\ <<n>> \o ls[h] = InsertAt(ls[h], 1, n)
      /\ Append(ls[h], n) = InsertAt(ls[h], m + 1, n)
  BY <1>1, InsertedEnds DEF m
<1>8. RingsState(__list_add(L, n, x[0], x[1]), [ls EXCEPT ![h] = InsertAt(@, 1, n)],
                 us, id)
  <2>1. RingsState(__list_add(L, n, x[1 - 1], x[1]), [ls EXCEPT ![h] = InsertAt(@, 1, n)],
                   us, id \ {n})
    BY <1>2, StateInsert DEF x, m
  <2> QED BY <1>2, <1>6, <2>1
<1>9. RingsState(__list_add(L, n, x[m], x[m + 1]),
                 [ls EXCEPT ![h] = InsertAt(@, m + 1, n)], us, id)
  <2>1. RingsState(__list_add(L, n, x[(m + 1) - 1], x[m + 1]),
                   [ls EXCEPT ![h] = InsertAt(@, m + 1, n)], us, id \ {n})
    BY <1>2, StateInsert DEF x, m
  <2> QED BY <1>2, <1>6, <2>1
<1>10. list_add(L, n, h) = __list_add(L, n, x[0], x[1])
  BY <1>3, <1>4 DEF list_add
<1>11. list_add_tail(L, n, h) = __list_add(L, n, x[m], x[m + 1])
  BY <1>3, <1>5 DEF list_add_tail
<1> QED BY <1>7, <1>8, <1>9, <1>10, <1>11

LEMMA MovedState ==
    ASSUME RingsInv, NEW n \in Linked, NEW h \in usable
    PROVE  /\ RingsState(list_move(link, n, h), [Without(n) EXCEPT ![h] = <<n>> \o @],
                         usable, idle)
           /\ RingsState(list_move_tail(link, n, h), [Without(n) EXCEPT ![h] = Append(@, n)],
                         usable, idle)
<1> DEFINE M == __list_del(link, link.prev[n], link.next[n])
           W == Without(n)
<1>1. RingsState(M, W, usable, idle) /\ n \in Nodes /\ n \notin idle /\ Unlinked(n, W)
  BY UnlinkedState
<1>2. list_move(link, n, h) = list_add(M, n, h)
  BY DEF list_move
<1>3. list_move_tail(link, n, h) = list_add_tail(M, n, h)
  BY DEF list_move_tail
<1> HIDE DEF M, W
<1>4. /\ RingsState(list_add(M, n, h), [W EXCEPT ![h] = <<n>> \o @], usable, idle)
      /\ RingsState(list_add_tail(M, n, h), [W EXCEPT ![h] = Append(@, n)], usable, idle)
  BY <1>1, StateAddEnds
<1> QED BY <1>2, <1>3, <1>4 DEF W

LEMMA MoveKeeps ==
    ASSUME RingsInv, NEW n \in Nodes, NEW h \in Heads, Move(n, h)
    PROVE  RingsInv'
<1>1. n \in Linked /\ h \in usable /\ usable' = usable /\ idle' = idle
  BY DEF Move, Operation
<1>2. \/ /\ link' = list_move(link, n, h)
         /\ lists' = [Without(n) EXCEPT ![h] = <<n>> \o @]
      \/ /\ link' = list_move_tail(link, n, h)
         /\ lists' = [Without(n) EXCEPT ![h] = Append(@, n)]
  BY DEF Move, Operation
<1>3. RingsState(link', lists', usable, idle)
  BY <1>1, <1>2, MovedState
<1> QED BY <1>1, <1>3 DEF RingsInv

LEMMA EmptyIs ==
    ASSUME NEW L, NEW ls, NEW us, NEW id, RingsState(L, ls, us, id), NEW h \in us
    PROVE  /\ list_empty(L, h) <=> ls[h] = <<>>
           /\ ls[h] # <<>> => Len(ls[h]) \in Nat /\ 1 \in 1 .. Len(ls[h])
           /\ ls[h] # <<>> => L.next[h] = ls[h][1]
<1> DEFINE x == Places(h, ls[h])
           m == Len(ls[h])
<1> HIDE DEF x, m
<1>1. h \in Heads /\ ls[h] \in Seq(Nodes) /\ m \in Nat
  <2>1. h \in Heads
    BY DEF RingsState
  <2> QED BY <2>1, StateFacts DEF m
<1>2. x[0] = h /\ x[m + 1] = h /\ \A i \in 1 .. m : x[i] = ls[h][i] /\ ls[h][i] \in Nodes
  BY <1>1, PlacesAre DEF x, m
<1>3. L.next[h] = x[1]
  <2>1. 0 \in 0 .. m /\ 0 + 1 = 1
    BY <1>1
  <2>2. L.next[x[0]] = x[0 + 1]
    BY <2>1, AroundPlace DEF x, m
  <2> QED BY <1>2, <2>1, <2>2
<1>4. CASE ls[h] = <<>>
  <2>1. m = 0
    BY <1>4 DEF m
  <2>2. L.next[h] = h
    BY <1>2, <1>3, <2>1
  <2> QED BY <1>4, <2>2 DEF list_empty
<1>5. CASE ls[h] # <<>>
  <2>1. 1 \in 1 .. m
    <3>1. m # 0
      BY <1>1, <1>5, EmptySeq DEF m
    <3> QED BY <1>1, <3>1
  <2>2. L.next[h] = ls[h][1] /\ ls[h][1] \in Nodes
    BY <1>2, <1>3, <2>1
  <2>3. L.next[h] # h
    BY <1>1, <2>2, ListConstants
  <2> QED BY <1>1, <1>5, <2>1, <2>2, <2>3 DEF list_empty, m
<1> QED BY <1>4, <1>5

(* Entries given to another head, and entries taken over.                  *)
LEMMA CutKeeps ==
    ASSUME RingsInv, NEW list \in Heads, NEW head \in Heads,
           NEW entry \in Heads \cup Nodes, Cut(list, head, entry)
    PROVE  RingsInv'
<1> DEFINE k == Place(entry)
           lt == [lists EXCEPT ![list] = SubSeq(lists[head], 1, k),
                               ![head] = SubSeq(@, k + 1, Len(@))]
           M == list_cut_position(link, list, head, entry)
<1>1. /\ list # head /\ list \in usable /\ head \in usable
      /\ entry = head \/ entry \in ToSet(lists[head])
      /\ link' = M /\ usable' = usable /\ idle' = idle
      /\ lists' = IF lists[head] = <<>> THEN lists ELSE lt
  BY DEF Cut, Operation
<1> HIDE DEF k, lt, M
<1>2. /\ RingsState(link, lists, usable, idle)
      /\ lists \in [Heads -> Seq(Nodes)] /\ Separate(lists)
      /\ lists[head] \in Seq(Nodes) /\ Len(lists[head]) \in Nat
  <2>1. RingsState(link, lists, usable, idle)
    BY DEF RingsInv
  <2> QED BY <2>1, StateFacts
<1>3. list_empty(link, head) <=> lists[head] = <<>>
  BY <1>1, <1>2, EmptyIs
<1>4. CASE lists[head] = <<>>
  <2>1. M = link
    BY <1>3, <1>4 DEF M, list_cut_position
  <2> QED BY <1>1, <1>2, <1>4, <2>1 DEF RingsInv
<1>5. CASE lists[head] # <<>> /\ entry = head
  <2>1. M = INIT_LIST_HEAD(link, list)
    BY <1>3, <1>5 DEF M, list_cut_position
  <2>2. k = 0
    BY <1>5 DEF k, Place
  <2>3. lt = [lists EXCEPT ![list] = <<>>]
    <3>1. SubSeq(lists[head], 1, 0) = <<>>
      BY SubSeqEmpty
    <3>2. SubSeq(lists[head], 0 + 1, Len(lists[head])) = lists[head]
      BY <1>2, SubSeqFull
    <3> DEFINE s == lists[head]
    <3>3. lt = [lists EXCEPT ![list] = <<>>, ![head] = s]
      BY <1>1, <2>2, <3>1, <3>2 DEF lt
    <3> QED BY <1>1, <1>2, <3>3
  <2>4. RingsState(M, lt, usable \cup {list}, idle)
    BY <1>2, <2>1, <2>3, StateInitHead
  <2>5. usable \cup {list} = usable
    BY <1>1
  <2> QED BY <1>1, <1>5, <2>4, <2>5 DEF RingsInv
<1>6. CASE lists[head] # <<>> /\ entry # head
  <2>1. PICK j \in 1 .. Len(lists[head]) : entry = lists[head][j]
    <3>1. DOMAIN lists[head] = 1 .. Len(lists[head])
      BY <1>2, LenProperties
    <3> QED BY <1>1, <1>6, <3>1 DEF ToSet
  <2>2. k = j /\ entry \in Nodes
    BY <1>2, <2>1, EntryIs DEF k
  <2>3. M = __list_cut_position(link, list, head, entry)
    <3>1. list_is_singular(link, head) => link.next[head] = entry
      <4>1. link.next[head] = lists[head][1]
        BY <1>1, <1>2, <1>6, EmptyIs
      <4>2. link.prev[head] = lists[head][Len(lists[head])]
        <5> DEFINE m == Len(lists[head])
                   x == Places(head, lists[head])
        <5>1. m \in 0 .. m /\ m > 0
          BY <1>2, <2>1
        <5>2. x[m + 1] = head /\ link.prev[x[m + 1]] = x[m] /\ x[m] = lists[head][m]
          BY <1>1, <1>2, <5>1, AroundPlace
        <5> QED BY <5>2
      <4>3. list_is_singular(link, head) => Len(lists[head]) = 1
        <5>1. 1 \in 1 .. Len(lists[head]) /\ Len(lists[head]) \in 1 .. Len(lists[head])
          BY <1>2, <2>1
        <5>2. lists[head][1] = lists[head][Len(lists[head])] => Len(lists[head]) = 1
          BY <1>2, <5>1, SeparateAt
        <5> QED BY <4>1, <4>2, <5>2 DEF list_is_singular
      <4>4. Len(lists[head]) = 1 => j = 1
        BY <2>1
      <4> QED BY <2>1, <4>1, <4>3, <4>4
    <3> QED BY <1>3, <1>6, <3>1 DEF M, list_cut_position
  <2>4. CutOff(lt, lists, list, head, j)
    <3>1. j \in 0 .. Len(lists[head])
      BY <2>1
    <3> QED BY <1>1, <1>2, <2>2, <3>1, CutOffIs DEF lt
  <2>5. RingsState(__list_cut_position(link, list, head, entry), lt, usable, idle)
    <3>1. list \in usable /\ head \in usable /\ head # list
      BY <1>1
    <3>2. RingsState(link, lists, usable, idle)
      BY <1>2
    <3> QED BY <2>1, <2>4, <3>1, <3>2, StateCut, Zenon
  <2> QED BY <1>1, <1>6, <2>3, <2>5 DEF RingsInv
<1> QED BY <1>4, <1>5, <1>6

LEMMA SplicedState ==
    ASSUME RingsInv, NEW list \in usable, NEW head \in usable, list # head,
           lists[list] # <<>>
    PROVE  /\ RingsState(__list_splice(link, list, head, link.next[head]),
                         [lists EXCEPT ![list] = <<>>, ![head] = lists[list] \o @],
                         usable \ {list}, idle)
           /\ RingsState(__list_splice(link, list, link.prev[head], head),
                         [lists EXCEPT ![list] = <<>>, ![head] = @ \o lists[list]],
                         usable \ {list}, idle)
<1> DEFINE front == [lists EXCEPT ![list] = <<>>, ![head] = lists[list] \o @]
           back == [lists EXCEPT ![list] = <<>>, ![head] = @ \o lists[list]]
           m == Len(lists[head])
           x == Places(head, lists[head])
<1> HIDE DEF front, back, m, x
<1>1. RingsState(link, lists, usable, idle)
  BY DEF RingsInv
<1>2. head \in Heads /\ list \in Heads
  BY <1>1 DEF RingsState
<1>3. lists \in [Heads -> Seq(Nodes)] /\ lists[head] \in Seq(Nodes) /\ m \in Nat
  BY <1>1, <1>2, StateFacts DEF m
<1>4. x[0] = head /\ x[m + 1] = head
  BY <1>2, <1>3, PlacesAre DEF x, m
<1>5. /\ 0 \in 0 .. m /\ m \in 0 .. m /\ 1 \in 1 .. m + 1 /\ m + 1 \in 1 .. m + 1
      /\ 1 - 1 = 0 /\ (m + 1) - 1 = m /\ 0 + 1 = 1
  BY <1>3
<1>6. link.next[head] = x[1]
  <2>1. link.next[x[0]] = x[0 + 1]
    BY <1>1, <1>5, AroundPlace DEF x, m
  <2> QED BY <1>4, <1>5, <2>1
<1>7. link.prev[head] = x[m]
  <2>1. link.prev[x[m + 1]] = x[m]
    BY <1>1, <1>5, AroundPlace DEF x, m
  <2> QED BY <1>4, <2>1
<1>8. /\ Spliced(front, lists, list, head, 1)
      /\ Spliced(back, lists, list, head, m + 1)
  BY <1>2, <1>3, SplicedAre DEF front, back, m
<1>9. RingsState(__list_splice(link, list, head, link.next[head]), front,
                 usable \ {list}, idle)
  <2>1. 1 \in 1 .. Len(lists[head]) + 1
    BY <1>5 DEF m
  <2>2. head = Places(head, lists[head])[1 - 1]
    BY <1>4, <1>5 DEF x
  <2>3. link.next[head] = Places(head, lists[head])[1]
    BY <1>6 DEF x
  <2>4. Spliced(front, lists, list, head, 1)
    BY <1>8
  <2> QED BY <1>1, <2>1, <2>2, <2>3, <2>4, StateSplice, Zenon
<1>10. RingsState(__list_splice(link, list, link.prev[head], head), back,
                  usable \ {list}, idle)
  <2>1. m + 1 \in 1 .. Len(lists[head]) + 1
    BY <1>5 DEF m
  <2>2. link.prev[head] = Places(head, lists[head])[(m + 1) - 1]
    BY <1>5, <1>7 DEF x
  <2>3. head = Places(head, lists[head])[m + 1]
    BY <1>4 DEF x
  <2>4. Spliced(back, lists, list, head, m + 1)
    BY <1>8
  <2> QED BY <1>1, <2>1, <2>2, <2>3, <2>4, StateSplice, Zenon
<1> QED BY <1>9, <1>10 DEF front, back

LEMMA SpliceKeeps ==
    ASSUME RingsInv, NEW list \in Heads, NEW head \in Heads, Splice(list, head)
    PROVE  RingsInv'
<1> DEFINE front == [lists EXCEPT ![list] = <<>>, ![head] = lists[list] \o @]
           back == [lists EXCEPT ![list] = <<>>, ![head] = @ \o lists[list]]
           M == __list_splice(link, list, head, link.next[head])
           N == __list_splice(link, list, link.prev[head], head)
<1>1. /\ list # head /\ list \in usable /\ head \in usable /\ idle' = idle
      /\ \/ /\ link' = list_splice(link, list, head) /\ lists' = front
            /\ usable' = IF lists[list] = <<>> THEN usable ELSE usable \ {list}
         \/ /\ link' = list_splice_tail(link, list, head) /\ lists' = back
            /\ usable' = IF lists[list] = <<>> THEN usable ELSE usable \ {list}
         \/ /\ link' = list_splice_init(link, list, head) /\ lists' = front
            /\ usable' = usable
         \/ /\ link' = list_splice_tail_init(link, list, head) /\ lists' = back
            /\ usable' = usable
  BY DEF Splice, Operation
<1>2. /\ RingsState(link, lists, usable, idle)
      /\ lists \in [Heads -> Seq(Nodes)] /\ lists[head] \in Seq(Nodes)
  <2>1. RingsState(link, lists, usable, idle)
    BY DEF RingsInv
  <2> QED BY <2>1, StateFacts
<1>3. list_empty(link, list) <=> lists[list] = <<>>
  BY <1>1, <1>2, EmptyIs
<1>4. CASE lists[list] = <<>>
  <2>1. front = lists /\ back = lists
    <3>1. <<>> \o lists[head] = lists[head] /\ lists[head] \o <<>> = lists[head]
      BY <1>2, ConcatEmptySeq
    <3>2. front = [lists EXCEPT ![list] = <<>>, ![head] = lists[head]]
      BY <1>1, <1>2, <1>4, <3>1
    <3>3. back = [lists EXCEPT ![list] = <<>>, ![head] = lists[head]]
      BY <1>1, <1>2, <1>4, <3>1
    <3>4. [lists EXCEPT ![list] = <<>>, ![head] = lists[head]] = lists
      BY <1>1, <1>2, <1>4
    <3> QED BY <3>2, <3>3, <3>4
  <2>2. /\ list_splice(link, list, head) = link
        /\ list_splice_tail(link, list, head) = link
        /\ list_splice_init(link, list, head) = link
        /\ list_splice_tail_init(link, list, head) = link
    BY <1>3, <1>4 DEF list_splice, list_splice_tail, list_splice_init,
                      list_splice_tail_init
  <2> HIDE DEF front, back
  <2>3. link' = link /\ lists' = lists /\ usable' = usable
    BY <1>1, <1>4, <2>1, <2>2
  <2> QED BY <1>1, <1>2, <2>3 DEF RingsInv
<1>5. CASE lists[list] # <<>>
  <2>1. /\ RingsState(M, front, usable \ {list}, idle)
        /\ RingsState(N, back, usable \ {list}, idle)
    BY <1>1, <1>5, SplicedState
  <2>2. /\ list_splice(link, list, head) = M
        /\ list_splice_tail(link, list, head) = N
        /\ list_splice_init(link, list, head) = INIT_LIST_HEAD(M, list)
        /\ list_splice_tail_init(link, list, head) = INIT_LIST_HEAD(N, list)
    BY <1>3, <1>5 DEF list_splice, list_splice_tail, list_splice_init,
                      list_splice_tail_init
  <2>3. [front EXCEPT ![list] = <<>>] = front /\ [back EXCEPT ![list] = <<>>] = back
    <3>0. /\ Spliced(front, lists, list, head, 1)
          /\ Spliced(back, lists, list, head, Len(lists[head]) + 1)
      BY <1>1, <1>2, SplicedAre
    <3> HIDE DEF front, back
    <3>1. front \in [Heads -> Seq(Nodes)] /\ front[list] = <<>>
      BY <3>0 DEF Spliced
    <3>2. back \in [Heads -> Seq(Nodes)] /\ back[list] = <<>>
      BY <3>0 DEF Spliced
    <3> QED BY <3>1, <3>2
  <2> HIDE DEF front, back, M, N
  <2>4. /\ RingsState(INIT_LIST_HEAD(M, list), front, (usable \ {list}) \cup {list}, idle)
        /\ RingsState(INIT_LIST_HEAD(N, list), back, (usable \ {list}) \cup {list}, idle)
    <3>1. /\ RingsState(INIT_LIST_HEAD(M, list), [front EXCEPT ![list] = <<>>],
                        (usable \ {list}) \cup {list}, idle)
          /\ RingsState(INIT_LIST_HEAD(N, list), [back EXCEPT ![list] = <<>>],
                        (usable \ {list}) \cup {list}, idle)
      BY <2>1, StateInitHead
    <3> QED BY <2>3, <3>1
  <2>5. (usable \ {list}) \cup {list} = usable
    BY <1>1
  <2>6. \/ link' = M /\ lists' = front /\ usable' = usable \ {list}
        \/ link' = N /\ lists' = back /\ usable' = usable \ {list}
        \/ link' = INIT_LIST_HEAD(M, list) /\ lists' = front /\ usable' = usable
        \/ link' = INIT_LIST_HEAD(N, list) /\ lists' = back /\ usable' = usable
    BY <1>1, <1>5, <2>2
  <2>7. RingsState(link', lists', usable', idle)
    BY <2>1, <2>4, <2>5, <2>6
  <2> QED BY <1>1, <2>7 DEF RingsInv
<1> QED BY <1>4, <1>5

-----------------------------------------------------------------------------
(* Iterations.  Seen from its end, a list is in place j what an iteration  *)
(* in the direction dir visits when j entries are left, and the head       *)
(* when none is.                                                           *)
Ahead(h, s, dir) ==
    [j \in 0 .. Len(s) + 1 |-> Places(h, s)[IF dir = "next" THEN Len(s) + 1 - j ELSE j]]

LEMMA AheadIs ==
    ASSUME NEW h \in Heads, NEW s \in Seq(Nodes), NEW dir \in {"next", "prev"}
    PROVE  /\ Len(s) \in Nat
           /\ Ahead(h, s, dir)[0] = h /\ Ahead(h, s, dir)[Len(s) + 1] = h
           /\ \A j \in 1 .. Len(s) :
                 /\ Ahead(h, s, dir)[j] = s[IF dir = "next" THEN Len(s) + 1 - j ELSE j]
                 /\ Ahead(h, s, dir)[j] \in Nodes
<1> DEFINE x == Places(h, s)
           m == Len(s)
           y == Ahead(h, s, dir)
<1>1. /\ m \in Nat /\ x[0] = h /\ x[m + 1] = h
      /\ \A i \in 1 .. m : x[i] = s[i] /\ s[i] \in Nodes
  BY PlacesAre
<1>2. \A j \in 0 .. m + 1 : y[j] = x[IF dir = "next" THEN m + 1 - j ELSE j]
  BY DEF Ahead
<1> HIDE DEF x, m, y
<1>3. CASE dir = "next"
  <2>1. \A j \in 0 .. m + 1 : y[j] = x[m + 1 - j]
    BY <1>2, <1>3
  <2>2. 0 \in 0 .. m + 1 /\ m + 1 \in 0 .. m + 1 /\ (m + 1) - 0 = m + 1 /\ (m + 1) - (m + 1) = 0
    BY <1>1
  <2>3. y[0] = h /\ y[m + 1] = h
    BY <1>1, <2>1, <2>2
  <2>4. \A j \in 1 .. m : y[j] = s[m + 1 - j] /\ y[j] \in Nodes
    <3> TAKE j \in 1 .. m
    <3>1. j \in 0 .. m + 1 /\ m + 1 - j \in 1 .. m
      BY <1>1
    <3> QED BY <1>1, <2>1, <3>1
  <2> QED BY <1>1, <1>3, <2>3, <2>4 DEF y, m
<1>4. CASE dir # "next"
  <2>1. \A j \in 0 .. m + 1 : y[j] = x[j]
    BY <1>2, <1>4
  <2>2. 0 \in 0 .. m + 1 /\ m + 1 \in 0 .. m + 1
    BY <1>1
  <2>3. \A j \in 1 .. m : y[j] = s[j] /\ y[j] \in Nodes
    <3> TAKE j \in 1 .. m
    <3>1. j \in 0 .. m + 1
      BY <1>1
    <3> QED BY <1>1, <2>1, <3>1
  <2> QED BY <1>1, <1>4, <2>1, <2>2, <2>3 DEF y, m
<1> QED BY <1>3, <1>4

\* The pointer of the direction leads one place on.
LEMMA AheadStep ==
    ASSUME NEW L, NEW ls, NEW us, NEW id, RingsState(L, ls, us, id), NEW h \in us,
           NEW dir \in {"next", "prev"}, NEW j \in 1 .. Len(ls[h]) + 1
    PROVE  L[dir][Ahead(h, ls[h], dir)[j]] = Ahead(h, ls[h], dir)[j - 1]
<1> DEFINE x == Places(h, ls[h])
           m == Len(ls[h])
           y == Ahead(h, ls[h], dir)
<1>1. h \in Heads /\ ls[h] \in Seq(Nodes) /\ m \in Nat
  <2>1. h \in Heads
    BY DEF RingsState
  <2> QED BY <2>1, StateFacts
<1>2. \A i \in 0 .. m + 1 : y[i] = x[IF dir = "next" THEN m + 1 - i ELSE i]
  BY DEF Ahead
<1> HIDE DEF x, m, y
<1>3. j \in 0 .. m + 1 /\ j - 1 \in 0 .. m + 1 /\ j - 1 \in 0 .. m /\ m + 1 - j \in 0 .. m
      /\ (m + 1 - j) + 1 = m + 1 - (j - 1) /\ (j - 1) + 1 = j
  BY <1>1 DEF m
<1>4. CASE dir = "next"
  <2>1. y[j] = x[m + 1 - j] /\ y[j - 1] = x[m + 1 - (j - 1)]
    BY <1>2, <1>3, <1>4
  <2>2. L.next[x[m + 1 - j]] = x[(m + 1 - j) + 1]
    BY <1>3, AroundPlace DEF x, m
  <2>3. L.next[y[j]] = y[j - 1]
    BY <1>3, <2>1, <2>2
  <2> QED BY <1>4, <2>3 DEF y
<1>5. CASE dir = "prev"
  <2>1. y[j] = x[j] /\ y[j - 1] = x[j - 1]
    BY <1>2, <1>3, <1>5
  <2>2. L.prev[x[(j - 1) + 1]] = x[j - 1]
    BY <1>3, AroundPlace DEF x, m
  <2>3. L.prev[y[j]] = y[j - 1]
    BY <1>3, <2>1, <2>2
  <2> QED BY <1>5, <2>3 DEF y
<1> QED BY <1>4, <1>5

\* What is left after an entry stays when the entry is removed.
Turned(m, dir, c) == IF dir = "next" THEN m + 1 - c ELSE c
SameAhead(z, y, k, c) == c > 0 /\ c - 1 <= k /\ \A j \in 0 .. c - 1 : z[j] = y[j]

AtTurn(h, s, dir, c, k) ==
    /\ h \in Heads /\ s \in Seq(Nodes) /\ dir \in {"next", "prev"}
    /\ c \in 1 .. Len(s) /\ k = Turned(Len(s), dir, c)

LEMMA AheadKept ==
    ASSUME NEW h, NEW s, NEW dir, NEW c, NEW k, AtTurn(h, s, dir, c, k)
    PROVE  /\ k \in 1 .. Len(s) /\ Ahead(h, s, dir)[c] = s[k]
           /\ RemoveAt(s, k) \in Seq(Nodes) /\ Len(RemoveAt(s, k)) = Len(s) - 1
           /\ SameAhead(Ahead(h, RemoveAt(s, k), dir), Ahead(h, s, dir), Len(s) - 1, c)
<1> DEFINE m == Len(s)
           t == RemoveAt(s, k)
           y == Ahead(h, s, dir)
           z == Ahead(h, t, dir)
<1>1. /\ h \in Heads /\ s \in Seq(Nodes) /\ dir \in {"next", "prev"}
      /\ c \in 1 .. m /\ k = Turned(m, dir, c)
  BY DEF AtTurn
<1>2. /\ m \in Nat /\ y[0] = h
      /\ \A j \in 1 .. m : y[j] = s[IF dir = "next" THEN m + 1 - j ELSE j]
  <2>1. /\ Len(s) \in Nat /\ Ahead(h, s, dir)[0] = h
        /\ \A j \in 1 .. Len(s) :
              Ahead(h, s, dir)[j] = s[IF dir = "next" THEN Len(s) + 1 - j ELSE j]
    <3>1. h \in Heads /\ s \in Seq(Nodes) /\ dir \in {"next", "prev"}
      BY <1>1
    <3> HIDE DEF m, t, y, z
    <3> QED BY <3>1, AheadIs
  <2> QED BY <2>1
<1>3. k = IF dir = "next" THEN m + 1 - c ELSE c
  BY <1>1 DEF Turned
<1>4. k \in 1 .. m
  BY <1>1, <1>3, <1>2
<1>5. /\ t \in Seq(Nodes) /\ Len(t) = m - 1
      /\ \A j \in 1 .. m - 1 : t[j] = IF j < k THEN s[j] ELSE s[j + 1]
  BY <1>1, <1>4, RemovedAt
<1>6. /\ z[0] = h
      /\ \A j \in 1 .. m - 1 : z[j] = t[IF dir = "next" THEN Len(t) + 1 - j ELSE j]
  <2>1. t \in Seq(Nodes) /\ Len(t) = m - 1
    BY <1>5
  <2> HIDE DEF t, m
  <2>2. /\ z[0] = h
        /\ \A j \in 1 .. Len(t) : z[j] = t[IF dir = "next" THEN Len(t) + 1 - j ELSE j]
    BY <1>1, <2>1, AheadIs
  <2> HIDE DEF z
  <2> QED BY <2>1, <2>2
<1>7. c \in 1 .. m
  BY <1>1
<1> HIDE DEF m, t, y, z
<1>8. \A j \in 1 .. c - 1 : z[j] = y[j]
  <2> TAKE j \in 1 .. c - 1
  <2>1. j \in 1 .. m - 1 /\ j \in 1 .. m
    BY <1>2, <1>7
  <2>2. CASE dir = "next"
    <3>1. k = m + 1 - c
      BY <1>3, <2>2 DEF m
    <3>2. m - j \in 1 .. m - 1 /\ ~ (m - j < k) /\ (m - j) + 1 = m + 1 - j
      BY <1>2, <1>7, <2>1, <3>1
    <3>3. z[j] = t[Len(t) + 1 - j] /\ Len(t) + 1 - j = m - j
      BY <1>2, <1>5, <1>6, <2>1, <2>2
    <3>4. y[j] = s[m + 1 - j]
      BY <1>2, <2>1, <2>2
    <3>5. t[m - j] = s[(m - j) + 1]
      BY <1>5, <3>2
    <3> QED BY <3>2, <3>3, <3>4, <3>5
  <2>3. CASE dir # "next"
    <3>1. k = c
      BY <1>3, <2>3
    <3>2. j < k
      BY <1>2, <1>7, <3>1
    <3>3. z[j] = t[j] /\ y[j] = s[j]
      BY <1>2, <1>6, <2>1, <2>3
    <3> QED BY <1>5, <2>1, <3>2, <3>3
  <2> QED BY <2>2, <2>3
<1>9. \A j \in 0 .. c - 1 : z[j] = y[j]
  <2>1. \A j \in 0 .. c - 1 : j = 0 \/ j \in 1 .. c - 1
    BY <1>2, <1>7
  <2> QED BY <1>2, <1>6, <1>8, <2>1
<1>10. y[c] = s[k]
  BY <1>3, <1>2, <1>7 DEF m
<1>11. SameAhead(z, y, m - 1, c)
  BY <1>2, <1>7, <1>9 DEF SameAhead
<1> QED BY <1>4, <1>5, <1>10, <1>11 DEF m, t, y, z

\* The entries seen are the first of those wanted, and those that are not
\* seen yet are the last of the list, with the walk at the first of them.
Left(w) == Len(w.want) - Len(w.seen)

WalkOn(w, y, m) ==
    /\ Left(w) \in 0 .. m
    /\ \A j \in 1 .. Left(w) : w.want[Len(w.want) - j + 1] = y[j]
    /\ w.pos = y[Left(w)]
    /\ Left(w) > 0 => w.n = y[Left(w) - 1]
    /\ \A i \in 1 .. Len(w.seen) : w.seen[i] = w.want[i]

Walks == [head : Heads, dir : {"next", "prev"}, pos : Cells, n : Cells \cup {LIST_POISON},
          seen : Seq(Nodes), want : Seq(Nodes)]

WalkInv ==
    walk # NoWalk =>
        /\ walk \in Walks /\ walk.head \in usable
        /\ WalkOn(walk, Ahead(walk.head, lists[walk.head], walk.dir), Len(lists[walk.head]))

Order(s, dir) == IF dir = "next" THEN s ELSE Reverse(s)

LEMMA OrderIs ==
    ASSUME NEW h \in Heads, NEW s \in Seq(Nodes), NEW dir \in {"next", "prev"}
    PROVE  /\ Order(s, dir) \in Seq(Nodes)
           /\ Len(Order(s, dir)) = Len(s) /\ Len(s) \in Nat
           /\ ToSet(Order(s, dir)) = ToSet(s)
           /\ \A i \in 1 .. Len(s) : Order(s, dir)[i] = Ahead(h, s, dir)[Len(s) + 1 - i]
<1> DEFINE order == Order(s, dir)
           m == Len(s)
           y == Ahead(h, s, dir)
<1>1. /\ m \in Nat
      /\ \A j \in 1 .. m : y[j] = s[IF dir = "next" THEN m + 1 - j ELSE j]
  BY AheadIs
<1>2. DOMAIN s = 1 .. m /\ \A i \in 1 .. m : s[i] \in Nodes
  BY LenProperties, ElementOfSeq
<1> HIDE DEF m, y, order
<1>3. CASE dir = "next"
  <2>1. order = s
    BY <1>3 DEF order, Order
  <2>2. \A i \in 1 .. m : s[i] = y[m + 1 - i]
    <3> TAKE i \in 1 .. m
    <3>1. m + 1 - i \in 1 .. m /\ m + 1 - (m + 1 - i) = i
      BY <1>1
    <3> QED BY <1>1, <1>3, <3>1
  <2> QED BY <1>1, <2>1, <2>2 DEF m, y, order
<1>4. CASE dir # "next"
  <2>1. order = [i \in 1 .. m |-> s[(m - i) + 1]]
    BY <1>4 DEF order, Order, Reverse, m
  <2>2. \A i \in 1 .. m : (m - i) + 1 \in 1 .. m
    BY <1>1
  <2>3. order \in [1 .. m -> Nodes]
    BY <1>2, <2>1, <2>2
  <2>4. order \in Seq(Nodes) /\ Len(order) = m /\ DOMAIN order = 1 .. m
    BY <1>1, <2>3, IsASeq, SeqDef, LenProperties
  <2>5. \A i \in 1 .. m : order[i] = y[m + 1 - i]
    <3> TAKE i \in 1 .. m
    <3>1. m + 1 - i \in 1 .. m /\ (m - i) + 1 = m + 1 - i
      BY <1>1
    <3>2. y[m + 1 - i] = s[m + 1 - i]
      BY <1>1, <1>4, <3>1
    <3>3. order[i] = s[(m - i) + 1]
      BY <2>1
    <3> QED BY <3>1, <3>2, <3>3
  <2>6. \A i \in 1 .. m : \E j \in 1 .. m : s[i] = order[j]
    <3> TAKE i \in 1 .. m
    <3>1. m + 1 - i \in 1 .. m /\ (m - (m + 1 - i)) + 1 = i
      BY <1>1
    <3> QED BY <2>1, <3>1
  <2>7. \A i \in 1 .. m : \E j \in 1 .. m : order[i] = s[j]
    BY <2>1, <2>2
  <2>8. ToSet(order) = ToSet(s)
    <3>1. ToSet(order) = {order[i] : i \in 1 .. m} /\ ToSet(s) = {s[i] : i \in 1 .. m}
      BY <1>2, <2>4 DEF ToSet
    <3>2. \A n : n \in ToSet(order) <=> n \in ToSet(s)
      BY <2>6, <2>7, <3>1
    <3> QED BY <3>2
  <2> QED BY <1>1, <2>4, <2>5, <2>8 DEF m, y, order
<1> QED BY <1>3, <1>4

\* Where a walk starts: i entries behind the head, in its direction.
LEMMA WalkStartOn ==
    ASSUME RingsInv, NEW h \in usable, NEW dir \in {"next", "prev"},
           NEW order, order = Order(lists[h], dir),
           NEW i \in 0 .. Len(lists[h]),
           NEW pos, pos = Ahead(h, lists[h], dir)[Len(lists[h]) - i],
           NEW w, w = [head |-> h, dir |-> dir, pos |-> pos, n |-> link[dir][pos],
                       seen |-> <<>>, want |-> SubSeq(order, i + 1, Len(order))]
    PROVE  /\ w \in Walks
           /\ WalkOn(w, Ahead(h, lists[h], dir), Len(lists[h]))
<1> DEFINE m == Len(lists[h])
           y == Ahead(h, lists[h], dir)
           want == SubSeq(order, i + 1, Len(order))
<1>1. RingsState(link, lists, usable, idle)
  BY DEF RingsInv
<1>2. h \in Heads /\ lists[h] \in Seq(Nodes) /\ link \in Links
  <2>1. h \in Heads
    BY <1>1 DEF RingsState
  <2> QED BY <1>1, <2>1, StateFacts
<1>3. /\ order \in Seq(Nodes) /\ Len(order) = m /\ m \in Nat
      /\ \A j \in 1 .. m : order[j] = y[m + 1 - j]
  <2>1. order = Order(lists[h], dir)
    OBVIOUS
  <2>2. lists[h] \in Seq(Nodes) /\ h \in Heads
    BY <1>2
  <2>3. /\ order \in Seq(Nodes) /\ Len(order) = m /\ m \in Nat
        /\ ToSet(order) = ToSet(lists[h])
        /\ \A j \in 1 .. m : order[j] = y[m + 1 - j]
    <3> DEFINE s == lists[h]
               o == Order(s, dir)
    <3>1. /\ o \in Seq(Nodes) /\ Len(o) = Len(s) /\ Len(s) \in Nat
          /\ ToSet(o) = ToSet(s)
          /\ \A j \in 1 .. Len(s) : o[j] = Ahead(h, s, dir)[Len(s) + 1 - j]
      <4> HIDE DEF s
      <4> QED BY <2>2, OrderIs DEF s
    <3>2. order = o
      BY <2>1
    <3> HIDE DEF o
    <3> QED BY <3>1, <3>2
  <2> QED BY <2>3, Zenon
<1>4. y[0] = h /\ y[m + 1] = h /\ \A j \in 1 .. m : y[j] \in Nodes
  BY <1>2, AheadIs
<1>5. i \in 0 .. m /\ pos = y[m - i]
  OBVIOUS
<1>6. w = [head |-> h, dir |-> dir, pos |-> pos, n |-> link[dir][pos],
           seen |-> <<>>, want |-> want]
  OBVIOUS
<1>7. /\ want \in Seq(Nodes) /\ Len(want) = m - i
      /\ \A j \in 1 .. m - i : want[j] = order[i + j]
  <2>1. \A j \in i + 1 .. m : order[j] \in Nodes
    BY <1>3, <1>5, ElementOfSeq
  <2>2. /\ want \in Seq(Nodes) /\ Len(want) = IF i + 1 <= m THEN m - (i + 1) + 1 ELSE 0
        /\ \A j \in 1 .. m - (i + 1) + 1 : want[j] = order[(i + 1) + j - 1]
    BY <1>3, <1>5, <2>1, SubSeqProperties
  <2> HIDE DEF want, m
  <2>3. Len(want) = m - i
    BY <1>3, <1>5, <2>2
  <2>4. \A j \in 1 .. m - i : (i + 1) + j - 1 = i + j /\ j \in 1 .. m - (i + 1) + 1
    BY <1>3, <1>5
  <2> QED BY <2>2, <2>3, <2>4
<1> HIDE DEF m, y, want
<1>8. pos \in Cells
  <2>1. m - i = 0 \/ m - i \in 1 .. m
    BY <1>3, <1>5
  <2> QED BY <1>2, <1>4, <1>5, <2>1 DEF Cells
<1>9. link[dir][pos] \in Cells \cup {LIST_POISON}
  BY <1>2, <1>8, LinksFields
<1>10. <<>> \in Seq(Nodes) /\ Len(<<>>) = 0
  OBVIOUS
<1>11. /\ w.pos = pos /\ w.n = link[dir][pos] /\ w.seen = <<>> /\ w.want = want
  BY <1>6
<1>12. w \in Walks
  BY <1>2, <1>6, <1>7, <1>8, <1>9, <1>10 DEF Walks
<1>13. Left(w) = m - i /\ Left(w) \in 0 .. m
  BY <1>3, <1>5, <1>7, <1>10, <1>11 DEF Left
<1>14. \A j \in 1 .. m - i : want[Len(want) - j + 1] = y[j]
  <2> TAKE j \in 1 .. m - i
  <2>1. Len(want) - j + 1 \in 1 .. m - i /\ i + (Len(want) - j + 1) = m + 1 - j
    <3>1. /\ (m - i) - j + 1 \in 1 .. m - i
          /\ i + ((m - i) - j + 1) = m + 1 - j
      BY <1>3, <1>5
    <3> QED BY <1>7, <3>1
  <2>2. m + 1 - j \in 1 .. m /\ m + 1 - (m + 1 - j) = j
    BY <1>3, <1>5
  <2>3. order[m + 1 - j] = y[j]
    BY <1>3, <2>2
  <2> QED BY <1>7, <2>1, <2>3
<1>15. m - i > 0 => w.n = y[(m - i) - 1]
  <2> HAVE m - i > 0
  <2>1. PICK j \in 1 .. m + 1 : j = m - i
    BY <1>3, <1>5
  <2>2. link[dir][y[j]] = y[j - 1]
    <3>1. j \in 1 .. Len(lists[h]) + 1
      BY DEF m
    <3> QED BY <1>1, <3>1, AheadStep DEF y
  <2> QED BY <1>5, <1>11, <2>1, <2>2
<1>16. \A j \in 1 .. Len(w.seen) : w.seen[j] = w.want[j]
  BY <1>10, <1>11
<1>17. WalkOn(w, y, m)
  <2>1. \A j \in 1 .. Left(w) : w.want[Len(w.want) - j + 1] = y[j]
    BY <1>11, <1>13, <1>14
  <2>2. Left(w) \in 0 .. m /\ w.pos = y[Left(w)]
    BY <1>5, <1>11, <1>13
  <2>3. Left(w) > 0 => w.n = y[Left(w) - 1]
    BY <1>13, <1>15
  <2> QED BY <1>16, <2>1, <2>2, <2>3 DEF WalkOn
<1> QED BY <1>12, <1>17 DEF y, m

LEMMA WalkStartKeeps ==
    ASSUME RingsInv, NEW h \in Heads, NEW dir \in {"next", "prev"},
           NEW at \in Heads \cup Nodes, NEW from \in BOOLEAN, WalkStart(h, dir, at, from)
    PROVE  RingsInv' /\ WalkInv'
<1> DEFINE m == Len(lists[h])
           y == Ahead(h, lists[h], dir)
           order == Order(lists[h], dir)
           pos == IF from THEN at ELSE link[dir][at]
           q == CHOOSE i \in DOMAIN order : order[i] = at
           skip == IF at = h THEN 0 ELSE q - (IF from THEN 1 ELSE 0)
<1>1. /\ h \in usable /\ at \in {h} \cup ToSet(lists[h]) /\ (from => at # h)
      /\ link' = link /\ lists' = lists /\ usable' = usable /\ idle' = idle
      /\ walk' = [head |-> h, dir |-> dir, pos |-> pos, n |-> link[dir][pos],
                  seen |-> <<>>, want |-> SubSeq(order, skip + 1, Len(order))]
  BY DEF WalkStart, Order
<1> HIDE DEF m, y, order, pos, q, skip
<1>2. RingsState(link, lists, usable, idle)
  BY DEF RingsInv
<1>3. lists[h] \in Seq(Nodes) /\ m \in Nat
  BY <1>2, StateFacts DEF m
<1>4. /\ order \in Seq(Nodes) /\ Len(order) = m
      /\ ToSet(order) = ToSet(lists[h])
      /\ \A i \in 1 .. m : order[i] = y[m + 1 - i]
  BY <1>3, OrderIs DEF order, m, y
<1>5. y[m + 1] = h
  BY <1>3, AheadIs DEF y, m
<1>6. \A j \in 1 .. m + 1 : link[dir][y[j]] = y[j - 1]
  <2> TAKE j \in 1 .. m + 1
  <2>1. j \in 1 .. Len(lists[h]) + 1 /\ h \in usable
    BY <1>1 DEF m
  <2> QED BY <1>2, <2>1, AheadStep DEF y
<1>7. skip \in 0 .. m /\ pos = y[m - skip]
  <2>1. CASE at = h
    <3>1. skip = 0 /\ pos = link[dir][h]
      BY <1>1, <2>1 DEF skip, pos
    <3>2. m + 1 \in 1 .. m + 1 /\ (m + 1) - 1 = m - 0 /\ 0 \in 0 .. m
      BY <1>3
    <3>3. link[dir][y[m + 1]] = y[(m + 1) - 1]
      BY <1>6, <3>2
    <3> QED BY <1>5, <3>1, <3>2, <3>3
  <2>2. CASE at # h
    <3>1. DOMAIN order = 1 .. m
      BY <1>4, LenProperties
    <3>2. \E i \in DOMAIN order : order[i] = at
      BY <1>1, <1>4, <2>2 DEF ToSet
    <3>3. q \in DOMAIN order /\ order[q] = at
      BY <3>2 DEF q
    <3>4. PICK j \in 1 .. m : j = q
      BY <3>1, <3>3
    <3>5. at = y[m + 1 - j]
      BY <1>4, <3>3, <3>4
    <3>6. CASE from = TRUE
      <4>1. skip = j - 1 /\ pos = at
        BY <2>2, <3>4, <3>6 DEF skip, pos
      <4>2. j - 1 \in 0 .. m /\ m - (j - 1) = m + 1 - j
        BY <1>3
      <4> QED BY <3>5, <4>1, <4>2
    <3>7. CASE from = FALSE
      <4>1. skip = j /\ pos = link[dir][at]
        BY <2>2, <3>4, <3>7 DEF skip, pos
      <4>2. j \in 0 .. m /\ m + 1 - j \in 1 .. m + 1 /\ (m + 1 - j) - 1 = m - j
        BY <1>3
      <4>3. link[dir][y[m + 1 - j]] = y[(m + 1 - j) - 1]
        BY <1>6, <4>2
      <4> QED BY <3>5, <4>1, <4>2, <4>3
    <3> QED BY <3>6, <3>7
  <2> QED BY <2>1, <2>2
<1>8. /\ walk' \in Walks
      /\ WalkOn(walk', y, m)
  <2>1. pos = Ahead(h, lists[h], dir)[Len(lists[h]) - skip] /\ skip \in 0 .. Len(lists[h])
    BY <1>7 DEF y, m
  <2>2. order = Order(lists[h], dir)
    BY DEF order
  <2> DEFINE w == [head |-> h, dir |-> dir, pos |-> pos, n |-> link[dir][pos],
                   seen |-> <<>>, want |-> SubSeq(order, skip + 1, Len(order))]
  <2>3. h \in usable
    BY <1>1
  <2>4. w \in Walks /\ WalkOn(w, Ahead(h, lists[h], dir), Len(lists[h]))
    BY <2>1, <2>2, <2>3, WalkStartOn, Zenon
  <2>5. walk' = w
    BY <1>1
  <2> HIDE DEF w
  <2> QED BY <2>4, <2>5 DEF y, m
<1>9. walk'.head = h /\ walk'.dir = dir
  BY <1>1
<1> QED BY <1>1, <1>2, <1>8, <1>9 DEF RingsInv, WalkInv, y, m

\* A step of a walk, whatever the body did to the entry it was at, if what
\* is left after that entry is still ahead.
Track(y, m) == m \in Nat /\ y[0] \in Heads /\ \A j \in 1 .. m : y[j] \in Nodes
Follows(L, dir, y, m) == L \in Links /\ \A j \in 1 .. m + 1 : L[dir][y[j]] = y[j - 1]
Stepped(v, w, L) ==
    v = [w EXCEPT !.pos = w.n, !.n = L[w.dir][w.n], !.seen = Append(@, w.pos)]

LEMMA WalkStepOn ==
    ASSUME NEW w \in Walks, NEW m, NEW y, WalkOn(w, y, m), Track(y, m),
           NEW k, NEW z, Track(z, k), SameAhead(z, y, k, Left(w)),
           NEW L, Follows(L, w.dir, z, k), NEW v, Stepped(v, w, L)
    PROVE  /\ v \in Walks
           /\ v.head = w.head /\ v.dir = w.dir
           /\ WalkOn(v, z, k)
<1>0. /\ m \in Nat /\ \A j \in 1 .. m : y[j] \in Nodes
      /\ k \in Nat /\ Left(w) > 0 /\ Left(w) - 1 <= k
      /\ \A j \in 0 .. Left(w) - 1 : z[j] = y[j]
      /\ z[0] \in Heads /\ L \in Links
      /\ \A j \in 1 .. k + 1 : L[w.dir][z[j]] = z[j - 1]
      /\ v = [w EXCEPT !.pos = w.n, !.n = L[w.dir][w.n], !.seen = Append(@, w.pos)]
  BY DEF Track, SameAhead, Follows, Stepped
<1>1. /\ w.seen \in Seq(Nodes) /\ w.want \in Seq(Nodes) /\ w.dir \in {"next", "prev"}
      /\ Len(w.seen) \in Nat /\ Len(w.want) \in Nat
  BY LenProperties DEF Walks
<1> DEFINE c == Left(w)
           r == Len(w.seen)
<1>2. /\ c \in 1 .. m /\ c = Len(w.want) - r
      /\ \A j \in 1 .. c : w.want[Len(w.want) - j + 1] = y[j]
      /\ w.pos = y[c] /\ w.n = y[c - 1]
      /\ \A i \in 1 .. r : w.seen[i] = w.want[i]
  <2>1. c \in 0 .. m /\ c > 0 /\ w.pos = y[c] /\ w.n = y[c - 1]
    BY <1>0 DEF WalkOn
  <2>2. c = Len(w.want) - r
    BY DEF Left
  <2>3. \A j \in 1 .. c : w.want[Len(w.want) - j + 1] = y[j]
    BY DEF WalkOn
  <2>4. \A i \in 1 .. r : w.seen[i] = w.want[i]
    BY DEF WalkOn
  <2> HIDE DEF c, r
  <2>5. c \in 1 .. m
    BY <1>0, <2>1
  <2> QED BY <2>1, <2>2, <2>3, <2>4, <2>5
<1> HIDE DEF c, r
<1>3. c - 1 \in 0 .. k /\ c - 1 \in 0 .. c - 1 /\ 0 \in 0 .. c - 1
  BY <1>0, <1>2 DEF c
<1>4. \A j \in 0 .. c - 1 : z[j] = y[j]
  BY <1>0, Zenon DEF c
<1>5. w.pos \in Nodes /\ w.n = z[c - 1]
  BY <1>0, <1>2, <1>3, <1>4
<1>6. w.n \in Cells
  <2>1. c - 1 = 0 \/ c - 1 \in 1 .. m
    BY <1>0, <1>2
  <2> QED BY <1>0, <1>2, <1>5, <2>1 DEF Cells
<1>7. L[w.dir][w.n] \in Cells \cup {LIST_POISON}
  BY <1>0, <1>1, <1>6, LinksFields
<1>8. /\ Append(w.seen, w.pos) \in Seq(Nodes)
      /\ Len(Append(w.seen, w.pos)) = r + 1
      /\ \A i \in 1 .. r : Append(w.seen, w.pos)[i] = w.seen[i]
      /\ Append(w.seen, w.pos)[r + 1] = w.pos
  BY <1>1, <1>5, AppendProperties DEF r
<1>9. /\ v \in Walks /\ v.head = w.head /\ v.dir = w.dir /\ v.want = w.want
      /\ v.pos = w.n /\ v.n = L[w.dir][w.n] /\ v.seen = Append(w.seen, w.pos)
  BY <1>0, <1>6, <1>7, <1>8 DEF Walks
<1>10. Left(v) = c - 1
  <2>1. Left(v) = Len(w.want) - (r + 1)
    BY <1>8, <1>9 DEF Left
  <2>2. r \in Nat
    BY <1>1 DEF r
  <2> QED BY <1>1, <1>2, <2>1, <2>2
<1>11. \A j \in 1 .. c - 1 : v.want[Len(v.want) - j + 1] = z[j]
  <2> TAKE j \in 1 .. c - 1
  <2>1. j \in 1 .. c /\ j \in 0 .. c - 1
    BY <1>2
  <2>2. w.want[Len(w.want) - j + 1] = y[j] /\ z[j] = y[j]
    BY <1>2, <1>4, <2>1, Zenon
  <2> QED BY <1>9, <2>2, Zenon
<1>12. c - 1 > 0 => v.n = z[(c - 1) - 1]
  <2> HAVE c - 1 > 0
  <2>1. c - 1 \in 1 .. k + 1
    BY <1>0, <1>2, <1>3
  <2> QED BY <1>0, <1>5, <1>9, <2>1
<1>13. \A i \in 1 .. Len(v.seen) : v.seen[i] = v.want[i]
  <2> TAKE i \in 1 .. Len(v.seen)
  <2>1. i \in 1 .. r \/ i = r + 1
    BY <1>1, <1>8, <1>9 DEF r
  <2>2. CASE i \in 1 .. r
    BY <1>2, <1>8, <1>9, <2>2
  <2>3. CASE i = r + 1
    <3>1. r + 1 = Len(w.want) - c + 1 /\ c \in 1 .. c
      BY <1>1, <1>2 DEF r
    <3> QED BY <1>2, <1>8, <1>9, <2>3, <3>1
  <2> QED BY <2>1, <2>2, <2>3
<1>14. WalkOn(v, z, k)
  BY <1>3, <1>5, <1>9, <1>10, <1>11, <1>12, <1>13 DEF WalkOn
<1> QED BY <1>9, <1>14

LEMMA WalkStepKeeps ==
    ASSUME RingsInv, WalkInv, WalkStep
    PROVE  RingsInv' /\ WalkInv'
<1> DEFINE h == walk.head
           s == lists[h]
           t == lists'[h]
           dir == walk.dir
           y == Ahead(h, s, dir)
           z == Ahead(h, t, dir)
           c == Left(walk)
           k == Turned(Len(s), dir, c)
<1>1. /\ walk # NoWalk /\ walk.pos # h
      /\ usable' = usable /\ idle' = idle
      /\ walk' = [walk EXCEPT !.pos = walk.n, !.n = link'[dir][walk.n],
                              !.seen = Append(@, walk.pos)]
      /\ \/ link' = link /\ lists' = lists
         \/ link' = list_del(link, walk.pos) /\ lists' = Without(walk.pos)
         \/ \E g \in usable \ {h} :
               /\ link' = list_move_tail(link, walk.pos, g)
               /\ lists' = [Without(walk.pos) EXCEPT ![g] = Append(@, walk.pos)]
  BY DEF WalkStep, AfterBody
<1> HIDE DEF h, s, t, dir, y, z, c, k
<1>2. walk \in Walks /\ h \in usable /\ WalkOn(walk, y, Len(s))
  BY <1>1 DEF WalkInv, h, s, dir, y
<1>3. /\ RingsState(link, lists, usable, idle)
      /\ h \in Heads /\ dir \in {"next", "prev"}
  <2>1. RingsState(link, lists, usable, idle)
    BY DEF RingsInv
  <2>2. h \in Heads
    BY <1>2, <2>1 DEF RingsState
  <2> QED BY <1>2, <2>1, <2>2 DEF Walks, dir
<1>4. lists \in [Heads -> Seq(Nodes)] /\ Separate(lists) /\ s \in Seq(Nodes)
  BY <1>3, StateFacts DEF s
<1>5. Len(s) \in Nat /\ y[0] = h /\ \A j \in 1 .. Len(s) : y[j] \in Nodes
  BY <1>3, <1>4, AheadIs DEF y
<1>6. c \in 1 .. Len(s) /\ walk.pos = y[c]
  <2>1. c \in 0 .. Len(s) /\ walk.pos = y[c]
    BY <1>2 DEF WalkOn, c
  <2>2. c # 0
    BY <1>1, <1>5, <2>1
  <2> QED BY <1>5, <2>1, <2>2
<1>7. /\ k \in 1 .. Len(s) /\ walk.pos = s[k]
      /\ RemoveAt(s, k) \in Seq(Nodes) /\ Len(RemoveAt(s, k)) = Len(s) - 1
      /\ \A j \in 0 .. c - 1 : Ahead(h, RemoveAt(s, k), dir)[j] = y[j]
  <2>1. AtTurn(h, s, dir, c, k)
    BY <1>3, <1>4, <1>6 DEF AtTurn, k
  <2>2. /\ k \in 1 .. Len(s) /\ Ahead(h, s, dir)[c] = s[k]
        /\ RemoveAt(s, k) \in Seq(Nodes) /\ Len(RemoveAt(s, k)) = Len(s) - 1
        /\ SameAhead(Ahead(h, RemoveAt(s, k), dir), Ahead(h, s, dir), Len(s) - 1, c)
    BY <2>1, AheadKept
  <2> QED BY <1>6, <2>2 DEF SameAhead, y
<1>8. /\ walk.pos \in Linked
      /\ Without(walk.pos) = [lists EXCEPT ![h] = RemoveAt(@, k)]
  <2>1. k \in 1 .. Len(lists[h]) /\ walk.pos = lists[h][k]
    BY <1>7 DEF s
  <2>2. walk.pos \in Linked /\ ListOf(walk.pos) = h /\ Place(walk.pos) = k
    BY <1>3, <1>4, <2>1, EntryIs
  <2> QED BY <2>2 DEF Without
<1>9. RingsState(link', lists', usable, idle)
  BY <1>1, <1>3, <1>8, PoisonedState, MovedState
<1>10. t = s \/ t = RemoveAt(s, k)
  <2>1. CASE lists' = lists
    BY <2>1 DEF t, s
  <2>2. CASE lists' = Without(walk.pos)
    BY <1>3, <1>4, <1>8, <2>2 DEF t, s
  <2>3. CASE \E g \in usable \ {h} :
                lists' = [Without(walk.pos) EXCEPT ![g] = Append(@, walk.pos)]
    <3>1. PICK g \in usable \ {h} :
             lists' = [Without(walk.pos) EXCEPT ![g] = Append(@, walk.pos)]
      BY <2>3
    <3>2. lists'[h] = Without(walk.pos)[h]
      BY <1>3, <1>4, <1>8, <3>1
    <3> QED BY <1>3, <1>4, <1>8, <3>2 DEF t, s
  <2> QED BY <1>1, <2>1, <2>2, <2>3
<1>11. /\ t \in Seq(Nodes) /\ Len(t) \in Nat /\ c - 1 <= Len(t)
       /\ \A j \in 0 .. c - 1 : z[j] = y[j]
  <2>1. CASE t = s
    <3>1. z = y
      BY <2>1 DEF z, y
    <3> QED BY <1>4, <1>5, <1>6, <2>1, <3>1
  <2>2. CASE t = RemoveAt(s, k)
    BY <1>5, <1>6, <1>7, <2>2 DEF z
  <2> QED BY <1>10, <2>1, <2>2
<1>12. Track(y, Len(s)) /\ Track(z, Len(t))
  <2>1. z[0] \in Heads /\ \A j \in 1 .. Len(t) : z[j] \in Nodes
    BY <1>3, <1>11, AheadIs DEF z
  <2> QED BY <1>3, <1>5, <1>11, <2>1 DEF Track
<1>13. Follows(link', dir, z, Len(t))
  <2>1. link' \in Links
    BY <1>9 DEF RingsState
  <2>2. \A j \in 1 .. Len(t) + 1 : link'[dir][z[j]] = z[j - 1]
    <3> TAKE j \in 1 .. Len(t) + 1
    <3>1. j \in 1 .. Len(lists'[h]) + 1
      BY DEF t
    <3> QED BY <1>2, <1>3, <1>9, <3>1, AheadStep DEF z, t
  <2> QED BY <2>1, <2>2 DEF Follows
<1>14. /\ walk' \in Walks /\ walk'.head = walk.head /\ walk'.dir = walk.dir
       /\ WalkOn(walk', z, Len(t))
  <2>1. SameAhead(z, y, Len(t), Left(walk))
    BY <1>5, <1>6, <1>11 DEF SameAhead, c
  <2>2. Follows(link', walk.dir, z, Len(t))
    BY <1>13 DEF dir
  <2>3. Stepped(walk', walk, link')
    BY <1>1 DEF Stepped, dir
  <2>4. WalkOn(walk, y, Len(s)) /\ Track(y, Len(s)) /\ Track(z, Len(t))
    BY <1>2, <1>12
  <2>5. walk \in Walks
    BY <1>2
  <2> QED BY <2>1, <2>2, <2>3, <2>4, <2>5, WalkStepOn
<1>15. RingsInv'
  BY <1>1, <1>9 DEF RingsInv
<1>16. WalkInv'
  BY <1>1, <1>2, <1>14 DEF WalkInv, z, t, h, dir
<1> QED BY <1>15, <1>16

-----------------------------------------------------------------------------
(* What the invariant says of the rings, the questions and the walks.      *)
LEMMA RingsOf ==
    ASSUME RingsInv
    PROVE  RingsHold
<1>1. /\ usable \in SUBSET Heads /\ lists \in [Heads -> Seq(Nodes)]
      /\ \A h \in usable : Turns(link, h, lists[h])
  BY DEF RingsInv, RingsState
<1>2. ASSUME NEW h \in usable
      PROVE  Ring(link, h, lists[h])
  <2>1. h \in Heads /\ lists[h] \in Seq(Nodes) /\ Turns(link, h, lists[h])
    BY <1>1
  <2> QED BY <2>1, RingTurns
<1> QED BY <1>2 DEF RingsHold

LEMMA HeadQueries ==
    ASSUME RingsInv, NEW h \in usable
    PROVE  /\ list_empty(link, h) <=> lists[h] = <<>>
           /\ list_empty_careful(link, h) <=> lists[h] = <<>>
           /\ list_is_singular(link, h) <=> Len(lists[h]) = 1
           /\ lists[h] # <<>> => list_first_entry(link, h) = Head(lists[h])
           /\ \A n \in ToSet(lists[h]) :
                 list_is_last(link, n, h) <=> n = Last(lists[h])
<1> DEFINE s == lists[h]
           m == Len(s)
           x == Places(h, s)
<1>1. RingsState(link, lists, usable, idle)
  BY DEF RingsInv
<1>2. h \in Heads /\ s \in Seq(Nodes) /\ m \in Nat /\ Separate(lists)
  <2>1. h \in Heads
    BY <1>1 DEF RingsState
  <2> QED BY <1>1, <2>1, StateFacts
<1>3. x[0] = h /\ x[m + 1] = h /\ \A i \in 1 .. m : x[i] = s[i] /\ s[i] \in Nodes
  BY <1>2, PlacesAre
<1>4. list_empty(link, h) <=> s = <<>>
  BY <1>1, EmptyIs
<1>5. s = <<>> <=> m = 0
  BY <1>2, EmptySeq
<1>6. \A i \in 0 .. m : link.next[x[i]] = x[i + 1] /\ link.prev[x[i + 1]] = x[i]
  BY <1>1, AroundPlace
<1> HIDE DEF s, m, x
<1>7. link.next[h] = x[1] /\ link.prev[h] = x[m]
  <2>1. 0 \in 0 .. m /\ m \in 0 .. m /\ 0 + 1 = 1
    BY <1>2
  <2> QED BY <1>3, <1>6, <2>1
<1>8. list_empty_careful(link, h) <=> s = <<>>
  <2>1. s = <<>> => link.prev[h] = h
    BY <1>3, <1>5, <1>7
  <2> QED BY <1>4, <2>1 DEF list_empty_careful, list_empty
<1>9. \A i \in 1 .. m, j \in 1 .. m : s[i] = s[j] => i = j
  BY <1>2, SeparateAt DEF s, m
<1>10. list_is_singular(link, h) <=> m = 1
  <2>1. CASE m = 0
    BY <1>4, <1>5, <2>1 DEF list_is_singular
  <2>2. CASE m # 0
    <3>1. 1 \in 1 .. m /\ m \in 1 .. m
      BY <1>2, <2>2
    <3>2. x[1] = x[m] <=> m = 1
      BY <1>3, <1>9, <3>1
    <3> QED BY <1>4, <1>5, <1>7, <2>2, <3>2 DEF list_is_singular
  <2> QED BY <2>1, <2>2
<1>11. s # <<>> => list_first_entry(link, h) = Head(s)
  <2> HAVE s # <<>>
  <2>1. 1 \in 1 .. m
    BY <1>2, <1>5
  <2>2. Head(s) = s[1]
    BY <1>2
  <2> QED BY <1>3, <1>7, <2>1, <2>2 DEF list_first_entry
<1>12. \A n \in ToSet(s) : list_is_last(link, n, h) <=> n = Last(s)
  <2> TAKE n \in ToSet(s)
  <2>1. DOMAIN s = 1 .. m
    BY <1>2, LenProperties DEF m
  <2>2. PICK i \in 1 .. m : n = s[i]
    BY <2>1 DEF ToSet
  <2>3. Last(s) = s[m] /\ m \in 1 .. m
    BY <1>2, <2>2 DEF Last, m
  <2>4. link.next[n] = x[i + 1]
    <3>1. i \in 0 .. m
      BY <1>2
    <3> QED BY <1>3, <1>6, <2>2, <3>1
  <2>5. x[i + 1] = h <=> i = m
    <3>1. i = m \/ i + 1 \in 1 .. m
      BY <1>2
    <3>2. i + 1 \in 1 .. m => x[i + 1] # h /\ i # m
      BY <1>2, <1>3, ListConstants
    <3> QED BY <1>3, <3>1, <3>2
  <2>6. n = s[m] <=> i = m
    BY <1>9, <2>2, <2>3
  <2> QED BY <2>3, <2>4, <2>5, <2>6 DEF list_is_last
<1> QED BY <1>4, <1>8, <1>10, <1>11, <1>12 DEF s, m

LEMMA QueriesOf ==
    ASSUME RingsInv
    PROVE  QueriesHold
<1>1. RingsState(link, lists, usable, idle)
  BY DEF RingsInv
<1>2. \A n \in idle : list_empty_careful(link, n)
  <2> TAKE n \in idle
  <2>1. link.next[n] = n /\ link.prev[n] = n
    BY <1>1, IdleOff
  <2> QED BY <2>1 DEF list_empty_careful
<1>3. ASSUME NEW n \in Linked
      PROVE  ~ list_empty(link, n)
  <2>1. PICK h \in usable : \E k \in 1 .. Len(lists[h]) :
              /\ n = lists[h][k] /\ h \in Heads
              /\ Without(n) = [lists EXCEPT ![h] = RemoveAt(@, k)]
    BY WithoutIs
  <2>2. PICK k \in 1 .. Len(lists[h]) : n = lists[h][k] /\ h \in Heads
    BY <2>1
  <2> DEFINE m == Len(lists[h])
             x == Places(h, lists[h])
  <2>3. m \in Nat /\ Simple(x, m, Cells)
    BY <1>1, <2>2, StateFacts
  <2>4. k \in 0 .. m
    BY <2>2, <2>3
  <2>5. link.next[x[k]] = x[k + 1] /\ x[k] = n
    BY <1>1, <2>2, <2>4, AroundPlace
  <2> HIDE DEF x, m
  <2>6. x[k + 1] # x[k]
    <3>1. k \in 1 .. m + 1 /\ k + 1 \in 1 .. m + 1
      BY <2>2, <2>3 DEF m
    <3> QED BY <2>3, <3>1 DEF Simple
  <2> QED BY <2>5, <2>6 DEF list_empty
<1> QED BY <1>2, <1>3, HeadQueries DEF QueriesHold

LEMMA SeesOf ==
    ASSUME RingsInv, WalkInv
    PROVE  WalkSeesAll
<1> SUFFICES ASSUME walk # NoWalk
             PROVE  /\ walk.pos \in {walk.head} \cup Nodes
                    /\ walk.seen = SubSeq(walk.want, 1, Len(walk.seen))
                    /\ walk.pos = walk.head => walk.seen = walk.want
  BY DEF WalkSeesAll
<1> DEFINE h == walk.head
           m == Len(lists[h])
           y == Ahead(h, lists[h], walk.dir)
           c == Left(walk)
           r == Len(walk.seen)
<1>1. walk \in Walks /\ h \in usable /\ WalkOn(walk, y, m)
  BY DEF WalkInv
<1>2. h \in Heads /\ lists[h] \in Seq(Nodes)
  <2>1. RingsState(link, lists, usable, idle)
    BY DEF RingsInv
  <2>2. h \in Heads
    BY <1>1, <2>1 DEF RingsState
  <2> QED BY <2>1, <2>2, StateFacts
<1>3. walk.dir \in {"next", "prev"} /\ walk.seen \in Seq(Nodes) /\ walk.want \in Seq(Nodes)
  BY <1>1 DEF Walks
<1>4. m \in Nat /\ y[0] = h /\ \A j \in 1 .. m : y[j] \in Nodes
  BY <1>2, <1>3, AheadIs
<1> HIDE DEF h, m, y
<1>5. c \in 0 .. m /\ walk.pos = y[c] /\ \A i \in 1 .. r : walk.seen[i] = walk.want[i]
  BY <1>1 DEF WalkOn
<1>6. r \in Nat /\ Len(walk.want) \in Nat /\ c = Len(walk.want) - r
  BY <1>3, LenProperties DEF Left
<1> HIDE DEF c, r
<1>7. walk.pos \in {h} \cup Nodes /\ (walk.pos = h => c = 0)
  <2>1. c = 0 \/ c \in 1 .. m
    BY <1>4, <1>5
  <2> QED BY <1>2, <1>4, <1>5, <2>1, ListConstants
<1>8. walk.seen = SubSeq(walk.want, 1, r)
  <2> DEFINE t == SubSeq(walk.want, 1, r)
  <2>1. \A i \in 1 .. r : i \in 1 .. Len(walk.want)
    BY <1>4, <1>5, <1>6
  <2>2. \A i \in 1 .. r : walk.want[i] \in Nodes
    BY <1>3, <2>1, ElementOfSeq
  <2>3. /\ t \in Seq(Nodes) /\ Len(t) = IF 1 <= r THEN r - 1 + 1 ELSE 0
        /\ \A i \in 1 .. r - 1 + 1 : t[i] = walk.want[1 + i - 1]
    BY <1>6, <2>2, SubSeqProperties
  <2> HIDE DEF t
  <2>4. Len(t) = r /\ \A i \in 1 .. r : t[i] = walk.seen[i]
    <3>1. Len(t) = r
      BY <1>6, <2>3
    <3>2. \A i \in 1 .. r : i \in 1 .. r - 1 + 1 /\ 1 + i - 1 = i
      BY <1>6
    <3> QED BY <1>5, <2>3, <3>1, <3>2
  <2>5. t = walk.seen
    BY <1>3, <2>3, <2>4, SeqEqual DEF r
  <2> QED BY <2>5 DEF t
<1>9. walk.pos = h => walk.seen = walk.want
  <2> HAVE walk.pos = h
  <2>1. r = Len(walk.want)
    BY <1>6, <1>7
  <2> QED BY <1>3, <1>8, <2>1, SubSeqFull
<1> QED BY <1>7, <1>8, <1>9 DEF h, r

-----------------------------------------------------------------------------
(* Chains.  A chain is a run of pointers: from the head through the        *)
(* entries to NULL, and from each entry back to the one before it.         *)
Run(f, g, x, n) ==
    /\ f[x[n]] = NULL
    /\ \A i \in 1 .. n : f[x[i - 1]] = x[i] /\ g[x[i]] = x[i - 1]

\* What is at place k of a run.
RunAt(x, n, k) == IF k \in 1 .. n THEN x[k] ELSE NULL

Entered(fn, gn, f, g, C, D, e, p, q) ==
    /\ fn[e] = q /\ fn[p] = e /\ gn[e] = p
    /\ q # NULL => gn[q] = e
    /\ Agree(fn, f, C, {e, p}) /\ Agree(gn, g, D, {e, q})

Gone(fn, gn, f, g, C, D, e, p, q) ==
    /\ fn[p] = q
    /\ q # NULL => gn[q] = p
    /\ Agree(fn, f, C, {e, p}) /\ Agree(gn, g, D, {e, q})

LEMMA RunInsert ==
    ASSUME NEW C, NULL \notin C, NEW D, NEW n \in Nat, NEW x, Simple(x, n, C),
           \A i \in 1 .. n : x[i] \in D,
           NEW f, NEW g, Run(f, g, x, n),
           NEW e \in C, Misses(x, n, e), NEW k \in 1 .. n + 1,
           NEW y, InsertPlaces(y, x, n, k, e),
           NEW fn, NEW gn, Entered(fn, gn, f, g, C, D, e, x[k - 1], RunAt(x, n, k))
    PROVE  Run(fn, gn, y, n + 1)
<1> DEFINE q == RunAt(x, n, k)
<1>1. /\ fn[e] = q /\ fn[x[k - 1]] = e /\ gn[e] = x[k - 1]
      /\ q # NULL => gn[q] = e
      /\ \A c \in C : c \notin {e, x[k - 1]} => fn[c] = f[c]
      /\ \A c \in D : c \notin {e, q} => gn[c] = g[c]
  BY DEF Entered, Agree
<1>2. /\ \A i \in 0 .. n : x[i] \in C /\ x[i] # e /\ x[i] # NULL
      /\ \A i, j \in 0 .. n : x[i] = x[j] => i = j
      /\ \A i \in 1 .. n : x[i] \in D
  BY DEF Simple, Misses
<1>3. /\ f[x[n]] = NULL
      /\ \A i \in 1 .. n : f[x[i - 1]] = x[i] /\ g[x[i]] = x[i - 1]
  BY DEF Run
<1>4. \A i \in 0 .. n + 1 : y[i] = IF i < k THEN x[i] ELSE IF i = k THEN e ELSE x[i - 1]
  BY DEF InsertPlaces
<1>5. (k \in 1 .. n => q = x[k]) /\ (k = n + 1 => q = NULL) /\ (k \in 1 .. n \/ k = n + 1)
  BY DEF RunAt
<1> HIDE DEF q
<1>6. fn[y[n + 1]] = NULL
  <2>1. n + 1 \in 0 .. n + 1
    OBVIOUS
  <2>2. CASE k = n + 1
    BY <1>1, <1>4, <1>5, <2>1, <2>2
  <2>3. CASE k \in 1 .. n
    <3>1. y[n + 1] = x[n]
      BY <1>4, <2>1, <2>3
    <3>2. n \in 0 .. n /\ k - 1 \in 0 .. n /\ n # k - 1
      BY <2>3
    <3>3. x[n] # x[k - 1] /\ x[n] \in C /\ x[n] # e
      BY <1>2, <3>2
    <3> QED BY <1>1, <1>3, <3>1, <3>3
  <2> QED BY <1>5, <2>2, <2>3
<1>7. ASSUME NEW i \in 1 .. n + 1
      PROVE  fn[y[i - 1]] = y[i] /\ gn[y[i]] = y[i - 1]
  <2>1. i \in 0 .. n + 1 /\ i - 1 \in 0 .. n + 1
    OBVIOUS
  <2>2. CASE i < k
    <3>1. y[i - 1] = x[i - 1] /\ y[i] = x[i]
      BY <1>4, <2>1, <2>2
    <3>2. /\ i \in 1 .. n /\ i - 1 \in 0 .. n /\ k - 1 \in 0 .. n /\ i \in 0 .. n
          /\ i - 1 # k - 1 /\ (k \in 1 .. n => k \in 0 .. n /\ i # k)
      BY <2>2
    <3>3. x[i - 1] # x[k - 1] /\ x[i - 1] # e /\ x[i - 1] \in C
      BY <1>2, <3>2
    <3>4. x[i] # e /\ x[i] # q /\ x[i] \in D
      <4>1. k \in 1 .. n => x[i] # x[k]
        BY <1>2, <3>2
      <4> QED BY <1>2, <1>5, <3>2, <4>1
    <3>5. fn[x[i - 1]] = f[x[i - 1]] /\ gn[x[i]] = g[x[i]]
      BY <1>1, <3>3, <3>4
    <3> QED BY <1>3, <3>1, <3>2, <3>5
  <2>3. CASE i = k
    <3>1. y[i - 1] = x[k - 1] /\ y[i] = e
      BY <1>4, <2>1, <2>3
    <3> QED BY <1>1, <3>1
  <2>4. CASE i = k + 1
    <3>1. y[i - 1] = e /\ y[i] = x[k] /\ k \in 1 .. n /\ k \in 0 .. n
      BY <1>4, <2>1, <2>4
    <3> QED BY <1>1, <1>2, <1>5, <3>1
  <2>5. CASE i > k + 1
    <3>1. y[i - 1] = x[i - 2] /\ y[i] = x[i - 1]
      <4>1. (i - 1) - 1 = i - 2 /\ i - 1 > k
        BY <2>5
      <4> QED BY <1>4, <2>1, <2>5, <4>1
    <3>2. /\ i - 1 \in 1 .. n /\ i - 2 \in 0 .. n /\ i - 1 \in 0 .. n /\ k - 1 \in 0 .. n
          /\ k \in 1 .. n /\ k \in 0 .. n /\ i - 2 # k - 1 /\ i - 1 # k /\ (i - 1) - 1 = i - 2
      BY <2>5
    <3>3. x[i - 2] # x[k - 1] /\ x[i - 2] # e /\ x[i - 2] \in C
      BY <1>2, <3>2
    <3>4. x[i - 1] # e /\ x[i - 1] # q /\ x[i - 1] \in D
      BY <1>2, <1>5, <3>2
    <3>5. fn[x[i - 2]] = f[x[i - 2]] /\ gn[x[i - 1]] = g[x[i - 1]]
      BY <1>1, <3>3, <3>4
    <3>6. f[x[(i - 1) - 1]] = x[i - 1] /\ g[x[i - 1]] = x[(i - 1) - 1]
      BY <1>3, <3>2
    <3> QED BY <3>1, <3>2, <3>5, <3>6
  <2> QED BY <2>2, <2>3, <2>4, <2>5
<1>8. (n + 1) - 1 = n /\ n + 1 \in Nat
  OBVIOUS
<1> QED BY <1>6, <1>7 DEF Run

LEMMA RunRemove ==
    ASSUME NEW C, NULL \notin C, NEW D, NEW n \in Nat, NEW x, Simple(x, n, C),
           \A i \in 1 .. n : x[i] \in D,
           NEW f, NEW g, Run(f, g, x, n), NEW k \in 1 .. n,
           NEW y, RemovePlaces(y, x, n, k),
           NEW fn, NEW gn,
           Gone(fn, gn, f, g, C, D, x[k], x[k - 1], RunAt(x, n, k + 1))
    PROVE  Run(fn, gn, y, n - 1)
<1> DEFINE q == RunAt(x, n, k + 1)
<1>1. /\ fn[x[k - 1]] = q
      /\ q # NULL => gn[q] = x[k - 1]
      /\ \A c \in C : c \notin {x[k], x[k - 1]} => fn[c] = f[c]
      /\ \A c \in D : c \notin {x[k], q} => gn[c] = g[c]
  BY DEF Gone, Agree
<1>2. /\ \A i \in 0 .. n : x[i] \in C /\ x[i] # NULL
      /\ \A i, j \in 0 .. n : x[i] = x[j] => i = j
      /\ \A i \in 1 .. n : x[i] \in D
  BY DEF Simple
<1>3. /\ f[x[n]] = NULL
      /\ \A i \in 1 .. n : f[x[i - 1]] = x[i] /\ g[x[i]] = x[i - 1]
  BY DEF Run
<1>4. \A i \in 0 .. n : y[i] = IF i < k THEN x[i] ELSE x[i + 1]
  BY DEF RemovePlaces
<1>5. /\ k < n => k + 1 \in 0 .. n /\ k + 1 \in 1 .. n /\ q = x[k + 1]
      /\ k = n => q = NULL
      /\ k < n \/ k = n
  <2>1. k < n => k + 1 \in 0 .. n /\ k + 1 \in 1 .. n
    OBVIOUS
  <2>2. k = n => k + 1 \notin 1 .. n
    OBVIOUS
  <2>3. k < n \/ k = n
    OBVIOUS
  <2> QED BY <2>1, <2>2, <2>3 DEF RunAt
<1> HIDE DEF q
<1>6. fn[y[n - 1]] = NULL
  <2>1. n - 1 \in 0 .. n
    OBVIOUS
  <2>2. CASE k = n
    BY <1>1, <1>4, <1>5, <2>1, <2>2
  <2>3. CASE k < n
    <3>1. y[n - 1] = x[n]
      <4>1. (n - 1) + 1 = n /\ ~ (n - 1 < k)
        BY <2>3
      <4> QED BY <1>4, <2>1, <4>1
    <3>2. n \in 0 .. n /\ k - 1 \in 0 .. n /\ k \in 0 .. n /\ n # k - 1 /\ n # k
      BY <2>3
    <3>3. x[n] # x[k - 1] /\ x[n] # x[k] /\ x[n] \in C
      BY <1>2, <3>2
    <3> QED BY <1>1, <1>3, <3>1, <3>3
  <2> QED BY <1>5, <2>2, <2>3
<1>7. ASSUME NEW i \in 1 .. n - 1
      PROVE  fn[y[i - 1]] = y[i] /\ gn[y[i]] = y[i - 1]
  <2>1. i \in 0 .. n /\ i - 1 \in 0 .. n /\ k \in 0 .. n /\ k - 1 \in 0 .. n
    OBVIOUS
  <2>2. CASE i < k
    <3>1. y[i - 1] = x[i - 1] /\ y[i] = x[i]
      BY <1>4, <2>1, <2>2
    <3>2. i \in 1 .. n /\ i - 1 # k - 1 /\ i - 1 # k /\ i # k /\ i # k + 1
      BY <2>2
    <3>3. x[i - 1] # x[k - 1] /\ x[i - 1] # x[k] /\ x[i - 1] \in C
      BY <1>2, <2>1, <3>2
    <3>4. x[i] # x[k] /\ x[i] # q /\ x[i] \in D
      BY <1>2, <1>5, <2>1, <3>2
    <3>5. fn[x[i - 1]] = f[x[i - 1]] /\ gn[x[i]] = g[x[i]]
      BY <1>1, <3>3, <3>4
    <3> QED BY <1>3, <3>1, <3>2, <3>5
  <2>3. CASE i = k
    <3>1. y[i - 1] = x[k - 1] /\ y[i] = x[k + 1] /\ k < n
      BY <1>4, <2>1, <2>3
    <3> QED BY <1>1, <1>2, <1>5, <3>1
  <2>4. CASE i > k
    <3>1. y[i - 1] = x[i] /\ y[i] = x[i + 1]
      <4>1. (i - 1) + 1 = i /\ ~ (i - 1 < k) /\ ~ (i < k)
        BY <2>4
      <4> QED BY <1>4, <2>1, <4>1
    <3>2. /\ i + 1 \in 1 .. n /\ i + 1 \in 0 .. n /\ (i + 1) - 1 = i
          /\ i # k - 1 /\ i # k /\ i + 1 # k /\ i + 1 # k + 1
      BY <2>4
    <3>3. x[i] # x[k - 1] /\ x[i] # x[k] /\ x[i] \in C
      BY <1>2, <2>1, <3>2
    <3>4. x[i + 1] # x[k] /\ x[i + 1] # q /\ x[i + 1] \in D
      BY <1>2, <1>5, <2>1, <3>2
    <3>5. fn[x[i]] = f[x[i]] /\ gn[x[i + 1]] = g[x[i + 1]]
      BY <1>1, <3>3, <3>4
    <3>6. f[x[(i + 1) - 1]] = x[i + 1] /\ g[x[i + 1]] = x[(i + 1) - 1]
      BY <1>3, <3>2
    <3> QED BY <3>1, <3>2, <3>5, <3>6
  <2> QED BY <2>2, <2>3, <2>4
<1> QED BY <1>6, <1>7 DEF Run

-----------------------------------------------------------------------------
(* What the operations on chains do to the pointers.                       *)
HLinks == [next : [Cells -> Cells \cup {NULL, LIST_POISON}],
           pprev : [Nodes -> Cells \cup {NULL, LIST_POISON}]]

HEntered(M, L, e, p, q) ==
    M \in HLinks /\ Entered(M.next, M.pprev, L.next, L.pprev, Cells, Nodes, e, p, q)
HGone(M, L, e, p, q) ==
    M \in HLinks /\ Gone(M.next, M.pprev, L.next, L.pprev, Cells, Nodes, e, p, q)

LEMMA AddHeadPointers ==
    ASSUME NEW L \in HLinks, NEW n \in Nodes, NEW h \in Cells, n # h,
           NEW q \in Nodes \cup {NULL}, L.next[h] = q, q # n
    PROVE  HEntered(hlist_add_head(L, n, h), L, n, h, q)
<1>1. n \in Cells /\ NULL \notin Cells /\ Nodes \subseteq Cells
  BY ListConstants DEF Cells
<1>2. CASE q = NULL
  BY <1>1, <1>2 DEF HEntered, Entered, Agree, hlist_add_head, HLinks
<1>3. CASE q # NULL
  BY <1>1, <1>3 DEF HEntered, Entered, Agree, hlist_add_head, HLinks
<1> QED BY <1>2, <1>3

LEMMA AddBeforePointers ==
    ASSUME NEW L \in HLinks, NEW n \in Nodes, NEW next \in Nodes, n # next,
           NEW p \in Cells, L.pprev[next] = p, p # n
    PROVE  HEntered(hlist_add_before(L, n, next), L, n, p, next)
<1>1. n \in Cells /\ NULL \notin Cells /\ Nodes \subseteq Cells
  BY ListConstants DEF Cells
<1> QED BY <1>1 DEF HEntered, Entered, Agree, hlist_add_before, HLinks

LEMMA AddAfterPointers ==
    ASSUME NEW L \in HLinks, NEW n \in Nodes, NEW at \in Nodes, n # at,
           NEW q \in Nodes \cup {NULL}, L.next[at] = q, q # n
    PROVE  HEntered(hlist_add_after(L, at, n), L, n, at, q)
<1>1. n \in Cells /\ at \in Cells /\ NULL \notin Cells /\ Nodes \subseteq Cells
  BY ListConstants DEF Cells
<1> DEFINE M == [L EXCEPT !.next[n] = L.next[at], !.next[at] = n, !.pprev[n] = at]
<1>2. /\ M \in HLinks /\ M.next[n] = q /\ M.next[at] = n /\ M.pprev[n] = at
      /\ Agree(M.next, L.next, Cells, {n, at}) /\ Agree(M.pprev, L.pprev, Nodes, {n})
  BY <1>1 DEF Agree, HLinks
<1>3. hlist_add_after(L, at, n) = IF q = NULL THEN M ELSE [M EXCEPT !.pprev[q] = n]
  <2>1. hlist_add_after(L, at, n) =
           IF M.next[n] = NULL THEN M ELSE [M EXCEPT !.pprev[M.next[n]] = n]
    BY Zenon DEF hlist_add_after
  <2>2. M.next[n] = q
    BY <1>2
  <2> HIDE DEF M
  <2> QED BY <2>1, <2>2
<1> HIDE DEF M
<1>4. CASE q = NULL
  BY <1>1, <1>2, <1>3, <1>4 DEF HEntered, Entered, Agree
<1>5. CASE q # NULL
  <2>1. hlist_add_after(L, at, n) = [M EXCEPT !.pprev[q] = n]
    BY <1>3, <1>5
  <2> DEFINE K == [M EXCEPT !.pprev[q] = n]
  <2>2. /\ K \in HLinks /\ K.next = M.next /\ K.pprev[q] = n
        /\ \A c \in Nodes : c # q => K.pprev[c] = M.pprev[c]
    BY <1>1, <1>2, <1>5 DEF HLinks
  <2> HIDE DEF K
  <2>3. HEntered(K, L, n, at, q)
    BY <1>1, <1>2, <1>5, <2>2 DEF HEntered, Entered, Agree
  <2> QED BY <2>1, <2>3 DEF K
<1> QED BY <1>4, <1>5

LEMMA HDelPointers ==
    ASSUME NEW L \in HLinks, NEW n \in Nodes, NEW p \in Cells, L.pprev[n] = p, n # p,
           NEW q \in Nodes \cup {NULL}, L.next[n] = q, q # n
    PROVE  /\ HGone(hlist_del(L, n), L, n, p, q)
           /\ hlist_del(L, n).pprev[n] = LIST_POISON
           /\ HGone(hlist_del_init(L, n), L, n, p, q)
           /\ hlist_del_init(L, n).pprev[n] = NULL
<1>1. n \in Cells /\ NULL \notin Cells /\ Nodes \subseteq Cells
  BY ListConstants DEF Cells
<1> DEFINE M == __hlist_del(L, n)
<1>2. /\ M \in HLinks /\ M.next[p] = q
      /\ q # NULL => M.pprev[q] = p
      /\ \A c \in Cells : c # p => M.next[c] = L.next[c]
      /\ \A c \in Nodes : c # q => M.pprev[c] = L.pprev[c]
  <2>1. CASE q = NULL
    BY <1>1, <2>1 DEF __hlist_del, HLinks
  <2>2. CASE q # NULL
    BY <1>1, <2>2 DEF __hlist_del, HLinks
  <2> QED BY <2>1, <2>2
<1>3. /\ hlist_del(L, n) = [M EXCEPT !.next[n] = LIST_POISON, !.pprev[n] = LIST_POISON]
      /\ hlist_del_init(L, n) = [M EXCEPT !.next[n] = NULL, !.pprev[n] = NULL]
  BY <1>1 DEF hlist_del, hlist_del_init, hlist_unhashed, INIT_HLIST_NODE
<1> HIDE DEF M
<1>4. ASSUME NEW v \in {NULL, LIST_POISON}
      PROVE  LET N == [M EXCEPT !.next[n] = v, !.pprev[n] = v]
             IN HGone(N, L, n, p, q) /\ N.pprev[n] = v
  <2> DEFINE N == [M EXCEPT !.next[n] = v, !.pprev[n] = v]
  <2>1. /\ N \in HLinks /\ N.pprev[n] = v
        /\ \A c \in Cells : c # n => N.next[c] = M.next[c]
        /\ \A c \in Nodes : c # n => N.pprev[c] = M.pprev[c]
    BY <1>1, <1>2 DEF HLinks
  <2> HIDE DEF N
  <2>2. HGone(N, L, n, p, q)
    BY <1>1, <1>2, <2>1 DEF HGone, Gone, Agree
  <2> QED BY <2>1, <2>2 DEF N
<1> QED BY <1>3, <1>4

LEMMA HInitPointers ==
    ASSUME NEW L \in HLinks, NEW n \in Nodes
    PROVE  LET M == INIT_HLIST_NODE(L, n)
           IN /\ M \in HLinks /\ M.pprev[n] = NULL
              /\ Agree(M.next, L.next, Cells, {n}) /\ Agree(M.pprev, L.pprev, Nodes, {n})
BY DEF INIT_HLIST_NODE, HLinks, Agree, Cells

-----------------------------------------------------------------------------
(* What the operations do to the state of the chains.                      *)
HTurns(L, h, s) == Run(L.next, L.pprev, Places(h, s), Len(s))

ChainsState(L, ls, pl) ==
    /\ L \in HLinks /\ ls \in [Heads -> Seq(Nodes)] /\ pl \subseteq Nodes
    /\ Separate(ls)
    /\ \A h \in Heads : HTurns(L, h, ls[h])
    /\ \A n \in Nodes : L.pprev[n] = NULL <=> n \in pl

LEMMA ChainFacts ==
    ASSUME NEW L, NEW ls, NEW pl, ChainsState(L, ls, pl), NEW h \in Heads
    PROVE  /\ L \in HLinks /\ ls \in [Heads -> Seq(Nodes)] /\ Separate(ls)
           /\ ls[h] \in Seq(Nodes) /\ Len(ls[h]) \in Nat
           /\ Simple(Places(h, ls[h]), Len(ls[h]), Cells)
           /\ Places(h, ls[h])[0] = h
           /\ \A i \in 1 .. Len(ls[h]) :
                 Places(h, ls[h])[i] = ls[h][i] /\ Places(h, ls[h])[i] \in Nodes
           /\ Run(L.next, L.pprev, Places(h, ls[h]), Len(ls[h]))
<1>1. L \in HLinks /\ ls \in [Heads -> Seq(Nodes)] /\ Separate(ls) /\ HTurns(L, h, ls[h])
  BY DEF ChainsState
<1>2. ls[h] \in Seq(Nodes)
  BY <1>1
<1>3. Simple(Places(h, ls[h]), Len(ls[h]), Cells)
  BY <1>1, PlacesSimple
<1> QED BY <1>1, <1>2, <1>3, PlacesAre DEF HTurns

\* What is before and at place k of a chain, and where the pointers lead.
LEMMA AroundLink ==
    ASSUME NEW L, NEW ls, NEW pl, ChainsState(L, ls, pl), NEW h \in Heads,
           NEW k \in 1 .. Len(ls[h]) + 1, NEW p, p = Places(h, ls[h])[k - 1],
           NEW q, q = RunAt(Places(h, ls[h]), Len(ls[h]), k)
    PROVE  /\ p \in Cells /\ q \in Nodes \cup {NULL} /\ L.next[p] = q
           /\ q # NULL => L.pprev[q] = p /\ q \notin pl
           /\ \A e \in Nodes : Unlinked(e, ls) => e # p /\ e # q
           /\ \A g \in Heads : g # h => Off(p, g, ls) /\ Off(q, g, ls)
<1> DEFINE x == Places(h, ls[h])
           m == Len(ls[h])
<1>1. /\ L \in HLinks /\ ls \in [Heads -> Seq(Nodes)] /\ Separate(ls)
      /\ ls[h] \in Seq(Nodes) /\ m \in Nat /\ Simple(x, m, Cells)
      /\ x[0] = h /\ \A i \in 1 .. m : x[i] = ls[h][i] /\ x[i] \in Nodes
      /\ Run(L.next, L.pprev, x, m)
  BY ChainFacts
<1>2. k \in 1 .. m + 1 /\ p = x[k - 1] /\ q = RunAt(x, m, k)
  OBVIOUS
<1>3. /\ \A g \in Heads : Len(ls[g]) \in Nat /\ ls[g] \in Seq(Nodes)
      /\ NULL \notin Cells /\ Heads \subseteq Cells /\ Nodes \subseteq Cells
      /\ Heads \cap Nodes = {}
  <2>1. \A g \in Heads : ls[g] \in Seq(Nodes)
    BY <1>1
  <2> QED BY <2>1, LenProperties, ListConstants DEF Cells
<1>4. /\ \A e \in Nodes : Unlinked(e, ls) => \A i \in 0 .. m : x[i] # e
      /\ \A g \in Heads : g # h => \A i \in 0 .. m : Off(x[i], g, ls)
  <2>1. \A i \in 0 .. m : i \in 0 .. m + 1
    BY <1>1
  <2>2. ASSUME NEW e \in Nodes, Unlinked(e, ls), NEW i \in 0 .. m
        PROVE  x[i] # e
    BY <1>1, <2>1, <2>2, PlacesMiss
  <2>3. ASSUME NEW g \in Heads, g # h, NEW i \in 0 .. m
        PROVE  Off(x[i], g, ls)
    <3> SUFFICES ASSUME NEW j \in 0 .. Len(ls[g])
                 PROVE  Places(g, ls[g])[j] # x[i]
      BY DEF Off
    <3>1. j \in 0 .. Len(ls[g]) + 1
      BY <1>3
    <3> QED BY <1>1, <2>1, <2>3, <3>1, PlacesApart
  <2> QED BY <2>2, <2>3
<1>5. \A g \in Heads : Off(NULL, g, ls)
  <2> SUFFICES ASSUME NEW g \in Heads, NEW j \in 0 .. Len(ls[g])
               PROVE  Places(g, ls[g])[j] # NULL
    BY DEF Off
  <2>1. j \in 0 .. Len(ls[g]) + 1
    BY <1>3
  <2>2. Places(g, ls[g])[j] \in Cells
    BY <1>3, <2>1, PlacesOf
  <2> QED BY <1>3, <2>2
<1> HIDE DEF x, m
<1>6. k - 1 \in 0 .. m /\ (k - 1 = 0 \/ k - 1 \in 1 .. m) /\ (k - 1) + 1 = k
  BY <1>1, <1>2
<1>7. p \in Cells
  BY <1>1, <1>2, <1>3, <1>6
<1>8. CASE k \in 1 .. m
  <2>1. q = x[k] /\ q \in Nodes /\ k \in 0 .. m
    BY <1>1, <1>2, <1>8 DEF RunAt
  <2>2. L.next[p] = q /\ L.pprev[q] = p
    BY <1>1, <1>2, <1>8, <2>1 DEF Run
  <2>3. q \notin pl
    <3>1. L.pprev[q] # NULL
      BY <1>3, <1>7, <2>2
    <3> QED BY <2>1, <3>1 DEF ChainsState
  <2> QED BY <1>2, <1>4, <1>6, <1>7, <2>1, <2>2, <2>3
<1>9. CASE k \notin 1 .. m
  <2>1. q = NULL /\ k - 1 = m
    BY <1>1, <1>2, <1>9 DEF RunAt
  <2>2. L.next[p] = q
    BY <1>1, <1>2, <2>1 DEF Run
  <2> QED BY <1>2, <1>3, <1>4, <1>5, <1>6, <1>7, <2>1, <2>2
<1> QED BY <1>8, <1>9

(* A chain none of whose pointers has changed.                             *)
LEMMA ChainOff ==
    ASSUME NEW L, NEW ls, NEW pl, ChainsState(L, ls, pl), NEW g \in Heads,
           NEW M, NEW a, NEW b, NEW c, Off(a, g, ls), Off(b, g, ls), Off(c, g, ls),
           Agree(M.next, L.next, Cells, {a, b}), Agree(M.pprev, L.pprev, Nodes, {a, c})
    PROVE  HTurns(M, g, ls[g])
<1> DEFINE x == Places(g, ls[g])
           m == Len(ls[g])
<1>1. /\ m \in Nat /\ Simple(x, m, Cells) /\ \A i \in 1 .. m : x[i] \in Nodes
      /\ Run(L.next, L.pprev, x, m)
  BY ChainFacts
<1>2. \A i \in 0 .. m : x[i] # a /\ x[i] # b /\ x[i] # c
  BY DEF Off
<1> HIDE DEF x, m
<1>3. \A i \in 0 .. m : x[i] \in Cells
  BY <1>1 DEF Simple
<1>4. \A i \in 0 .. m : M.next[x[i]] = L.next[x[i]]
  BY <1>2, <1>3 DEF Agree
<1>5. \A i \in 1 .. m : M.pprev[x[i]] = L.pprev[x[i]]
  <2>1. \A i \in 1 .. m : i \in 0 .. m
    BY <1>1
  <2> QED BY <1>1, <1>2, <2>1 DEF Agree
<1>6. Run(M.next, M.pprev, x, m)
  <2>1. m \in 0 .. m /\ \A i \in 1 .. m : i - 1 \in 0 .. m
    BY <1>1
  <2> QED BY <1>1, <1>4, <1>5, <2>1 DEF Run
<1> QED BY <1>6 DEF HTurns, x, m

(* An entry enters the chain of h at place k.                              *)
LEMMA ChainEnter ==
    ASSUME NEW L, NEW ls, NEW pl, ChainsState(L, ls, pl), NEW h \in Heads,
           NEW k \in 1 .. Len(ls[h]) + 1, NEW p, p = Places(h, ls[h])[k - 1],
           NEW q, q = RunAt(Places(h, ls[h]), Len(ls[h]), k),
           NEW e \in Nodes, Unlinked(e, ls),
           NEW M, HEntered(M, L, e, p, q), NEW lt, Inserted(lt, ls, h, k, e)
    PROVE  ChainsState(M, lt, pl \ {e})
<1> DEFINE x == Places(h, ls[h])
           m == Len(ls[h])
           y == Places(h, lt[h])
<1>1. /\ L \in HLinks /\ ls \in [Heads -> Seq(Nodes)] /\ Separate(ls)
      /\ ls[h] \in Seq(Nodes) /\ m \in Nat /\ Simple(x, m, Cells)
      /\ \A i \in 1 .. m : x[i] \in Nodes
      /\ Run(L.next, L.pprev, x, m)
  BY ChainFacts
<1>2. /\ p \in Cells /\ q \in Nodes \cup {NULL}
      /\ q # NULL => q \notin pl
      /\ e # p /\ e # q
      /\ \A g \in Heads : g # h => Off(p, g, ls) /\ Off(q, g, ls)
  BY AroundLink
<1>3. /\ M \in HLinks
      /\ Entered(M.next, M.pprev, L.next, L.pprev, Cells, Nodes, e, x[k - 1], RunAt(x, m, k))
  BY DEF HEntered
<1>4. /\ lt \in [Heads -> Seq(Nodes)] /\ Separate(lt)
  BY <1>1, SeparateInserted
<1>5. /\ Len(lt[h]) = m + 1
      /\ \A g \in Heads : g # h => lt[g] = ls[g]
      /\ InsertPlaces(y, x, m, k, e)
  BY <1>1, PlacesInserted
<1>6. NULL \notin Cells /\ e \in Cells
  BY ListConstants DEF Cells
<1>7. Misses(x, m, e)
  <2> SUFFICES ASSUME NEW i \in 0 .. m
               PROVE  x[i] # e
    BY DEF Misses
  <2>1. i \in 0 .. m + 1
    BY <1>1
  <2> QED BY <1>1, <2>1, PlacesMiss
<1>8. Agree(M.next, L.next, Cells, {e, p}) /\ Agree(M.pprev, L.pprev, Nodes, {e, q})
      /\ M.pprev[e] = p /\ (q # NULL => M.pprev[q] = e)
  BY DEF HEntered, Entered
<1> HIDE DEF x, m, y
<1>9. HTurns(M, h, lt[h])
  <2>1. k \in 1 .. m + 1
    BY DEF m
  <2>2. Run(M.next, M.pprev, y, m + 1)
    BY <1>1, <1>3, <1>5, <1>6, <1>7, <2>1, RunInsert
  <2> QED BY <1>5, <2>2 DEF HTurns, y
<1>10. ASSUME NEW g \in Heads, g # h
       PROVE  HTurns(M, g, lt[g])
  <2>1. Off(e, g, ls)
    <3> SUFFICES ASSUME NEW j \in 0 .. Len(ls[g])
                 PROVE  Places(g, ls[g])[j] # e
      BY DEF Off
    <3>1. ls[g] \in Seq(Nodes)
      BY <1>1
    <3>2. Len(ls[g]) \in Nat
      BY <3>1, LenProperties
    <3>3. j \in 0 .. Len(ls[g]) + 1
      BY <3>2
    <3> QED BY <1>1, <3>3, PlacesMiss
  <2>2. Off(p, g, ls) /\ Off(q, g, ls)
    BY <1>2, <1>10
  <2>3. HTurns(M, g, ls[g])
    BY <1>8, <2>1, <2>2, ChainOff
  <2> QED BY <1>5, <1>10, <2>3
<1>11. \A n \in Nodes : M.pprev[n] = NULL <=> n \in pl \ {e}
  <2> TAKE n \in Nodes
  <2>1. L.pprev[n] = NULL <=> n \in pl
    BY DEF ChainsState
  <2>2. CASE n = e
    BY <1>2, <1>6, <1>8, <2>2
  <2>3. CASE n # e /\ n = q
    <3>1. n # NULL
      BY <1>6 DEF Cells
    <3> QED BY <1>2, <1>6, <1>8, <2>3, <3>1
  <2>4. CASE n # e /\ n # q
    BY <1>8, <2>1, <2>4 DEF Agree
  <2> QED BY <2>2, <2>3, <2>4
<1>12. pl \ {e} \subseteq Nodes
  BY DEF ChainsState
<1>13. \A g \in Heads : HTurns(M, g, lt[g])
  BY <1>9, <1>10
<1> QED BY <1>3, <1>4, <1>11, <1>12, <1>13 DEF ChainsState

(* The entry at place k of the chain of h leaves it; its own pointers are  *)
(* cleared, or poisoned.                                                   *)
LEMMA ChainLeave ==
    ASSUME NEW L, NEW ls, NEW pl, ChainsState(L, ls, pl), NEW h \in Heads,
           NEW k \in 1 .. Len(ls[h]), NEW n, n = ls[h][k],
           NEW p, p = Places(h, ls[h])[k - 1],
           NEW q, q = RunAt(Places(h, ls[h]), Len(ls[h]), k + 1),
           NEW M, HGone(M, L, n, p, q), NEW lt, Removed(lt, ls, h, k)
    PROVE  /\ M.pprev[n] = NULL => ChainsState(M, lt, pl \cup {n})
           /\ M.pprev[n] # NULL => ChainsState(M, lt, pl)
<1> DEFINE x == Places(h, ls[h])
           m == Len(ls[h])
           y == Places(h, lt[h])
<1>1. /\ L \in HLinks /\ ls \in [Heads -> Seq(Nodes)] /\ Separate(ls)
      /\ ls[h] \in Seq(Nodes) /\ m \in Nat /\ Simple(x, m, Cells)
      /\ \A i \in 1 .. m : x[i] = ls[h][i] /\ x[i] \in Nodes
      /\ Run(L.next, L.pprev, x, m)
  BY ChainFacts
<1>2. /\ k \in 1 .. m /\ k \in 1 .. m + 1 /\ k + 1 \in 1 .. m + 1
      /\ (k + 1) - 1 = k /\ p = x[k - 1] /\ n = x[k] /\ n \in Nodes
      /\ RunAt(x, m, k) = n
  BY <1>1 DEF RunAt
<1>3. p \in Cells /\ L.pprev[n] = p /\ n \notin pl
      /\ \A g \in Heads : g # h => Off(p, g, ls) /\ Off(n, g, ls)
  <2>1. /\ p \in Cells
        /\ n # NULL => L.pprev[n] = p /\ n \notin pl
        /\ \A g \in Heads : g # h => Off(p, g, ls) /\ Off(n, g, ls)
    <3>1. n = RunAt(Places(h, ls[h]), Len(ls[h]), k) /\ k \in 1 .. Len(ls[h]) + 1
      BY <1>2
    <3> QED BY <3>1, AroundLink
  <2>2. n # NULL
    BY <1>2, ListConstants
  <2> QED BY <2>1, <2>2
<1>4. /\ q \in Nodes \cup {NULL}
      /\ q # NULL => q \notin pl
      /\ \A g \in Heads : g # h => Off(q, g, ls)
  <2>1. n = Places(h, ls[h])[(k + 1) - 1] /\ k + 1 \in 1 .. Len(ls[h]) + 1
    BY <1>2
  <2> QED BY <2>1, AroundLink
<1>5. /\ M \in HLinks
      /\ Gone(M.next, M.pprev, L.next, L.pprev, Cells, Nodes, x[k], x[k - 1],
              RunAt(x, m, k + 1))
  BY <1>2 DEF HGone
<1>6. lt \in [Heads -> Seq(Nodes)] /\ Separate(lt)
  BY <1>1, SeparateRemoved
<1>7. /\ Len(lt[h]) = m - 1
      /\ \A g \in Heads : g # h => lt[g] = ls[g]
      /\ RemovePlaces(y, x, m, k)
  BY <1>1, PlacesRemoved
<1>8. NULL \notin Cells
  BY ListConstants DEF Cells
<1>9. /\ Agree(M.next, L.next, Cells, {n, p}) /\ Agree(M.pprev, L.pprev, Nodes, {n, q})
      /\ q # NULL => M.pprev[q] = p
  BY DEF HGone, Gone
<1> HIDE DEF x, m, y
<1>10. HTurns(M, h, lt[h])
  <2>1. Run(M.next, M.pprev, y, m - 1)
    BY <1>1, <1>2, <1>5, <1>7, <1>8, RunRemove
  <2> QED BY <1>7, <2>1 DEF HTurns, y
<1>11. ASSUME NEW g \in Heads, g # h
       PROVE  HTurns(M, g, lt[g])
  <2>1. HTurns(M, g, ls[g])
    BY <1>3, <1>4, <1>9, <1>11, ChainOff
  <2> QED BY <1>7, <1>11, <2>1
<1>12. \A c \in Nodes : c # n => (M.pprev[c] = NULL <=> c \in pl)
  <2> TAKE c \in Nodes
  <2> HAVE c # n
  <2>1. L.pprev[c] = NULL <=> c \in pl
    BY DEF ChainsState
  <2>2. CASE c = q
    <3>1. c # NULL
      BY <1>8 DEF Cells
    <3> QED BY <1>3, <1>4, <1>8, <1>9, <2>2, <3>1
  <2>3. CASE c # q
    BY <1>9, <2>1, <2>3 DEF Agree
  <2> QED BY <2>2, <2>3
<1>13. \A g \in Heads : HTurns(M, g, lt[g])
  BY <1>10, <1>11
<1>14. pl \subseteq Nodes /\ pl \cup {n} \subseteq Nodes
  BY <1>2 DEF ChainsState
<1>15. ASSUME M.pprev[n] = NULL
       PROVE  ChainsState(M, lt, pl \cup {n})
  BY <1>5, <1>6, <1>12, <1>13, <1>14, <1>15 DEF ChainsState
<1>16. ASSUME M.pprev[n] # NULL
       PROVE  ChainsState(M, lt, pl)
  BY <1>3, <1>5, <1>6, <1>12, <1>13, <1>14, <1>16 DEF ChainsState
<1> QED BY <1>15, <1>16

-----------------------------------------------------------------------------
(* The actions on chains.                                                  *)
ChainsInv == ChainsState(hlink, chains, plain)

LEMMA ChainedAt ==
    ASSUME ChainsInv, NEW n
    PROVE  /\ n \in Chained =>
                 \E h \in Heads : \E k \in 1 .. Len(chains[h]) :
                     n = chains[h][k] /\ n \in Nodes /\ Chain(n) = h /\ ChainPlace(n) = k
           /\ n \notin Chained => Unlinked(n, chains)
<1>1. chains \in [Heads -> Seq(Nodes)] /\ Separate(chains)
  BY DEF ChainsInv, ChainsState
<1>2. \A g \in Heads : chains[g] \in Seq(Nodes)
  BY <1>1
<1>3. \A g \in Heads : DOMAIN chains[g] = 1 .. Len(chains[g])
  BY <1>2, LenProperties
<1>4. \A g \in Heads : ToSet(chains[g]) = {chains[g][i] : i \in 1 .. Len(chains[g])}
  BY <1>3 DEF ToSet
<1>5. n \in Chained <=> \E g \in Heads : n \in ToSet(chains[g])
  BY DEF Chained
<1>6. ASSUME NEW h \in Heads, NEW k \in 1 .. Len(chains[h]), n = chains[h][k]
      PROVE  n \in Nodes /\ Chain(n) = h /\ ChainPlace(n) = k
  <2>1. n \in Nodes
    BY <1>2, <1>6, ElementOfSeq
  <2>2. n \in ToSet(chains[h])
    BY <1>4, <1>6
  <2>3. \A g \in Heads : n \in ToSet(chains[g]) => g = h
    <3> SUFFICES ASSUME NEW g \in Heads, NEW i \in 1 .. Len(chains[g]), n = chains[g][i]
                 PROVE  g = h
      BY <1>4
    <3> QED BY <1>1, <1>6, SeparateAt
  <2>4. Chain(n) = h
    BY <2>2, <2>3 DEF Chain
  <2>5. \A i \in 1 .. Len(chains[h]) : chains[h][i] = n => i = k
    <3> TAKE i \in 1 .. Len(chains[h])
    <3> QED BY <1>1, <1>6, SeparateAt
  <2>6. ChainPlace(n) = k
    BY <1>3, <1>6, <2>4, <2>5 DEF ChainPlace
  <2> QED BY <2>1, <2>4, <2>6
<1>7. n \notin Chained => Unlinked(n, chains)
  BY <1>4, <1>5 DEF Unlinked
<1>8. ASSUME n \in Chained
      PROVE  \E h \in Heads : \E k \in 1 .. Len(chains[h]) :
                 n = chains[h][k] /\ n \in Nodes /\ Chain(n) = h /\ ChainPlace(n) = k
  <2>1. PICK h \in Heads : n \in ToSet(chains[h])
    BY <1>5, <1>8
  <2>2. PICK k \in 1 .. Len(chains[h]) : n = chains[h][k]
    BY <1>4, <2>1
  <2> QED BY <1>6, <2>2
<1> QED BY <1>7, <1>8

LEMMA HInitNodeKeeps ==
    ASSUME ChainsInv, NEW n \in Nodes, HInitNode(n)
    PROVE  ChainsInv'
<1> DEFINE M == INIT_HLIST_NODE(hlink, n)
<1>1. n \notin Chained /\ hlink' = M /\ plain' = plain \cup {n} /\ chains' = chains
  BY DEF HInitNode
<1>2. /\ ChainsState(hlink, chains, plain)
      /\ hlink \in HLinks /\ chains \in [Heads -> Seq(Nodes)] /\ plain \subseteq Nodes
      /\ Separate(chains)
      /\ \A c \in Nodes : hlink.pprev[c] = NULL <=> c \in plain
  BY DEF ChainsInv, ChainsState
<1>3. /\ M \in HLinks /\ M.pprev[n] = NULL
      /\ Agree(M.next, hlink.next, Cells, {n}) /\ Agree(M.pprev, hlink.pprev, Nodes, {n})
  BY <1>2, HInitPointers
<1> HIDE DEF M
<1>4. ASSUME NEW g \in Heads
      PROVE  HTurns(M, g, chains[g])
  <2>1. Off(n, g, chains)
    <3> SUFFICES ASSUME NEW j \in 0 .. Len(chains[g])
                 PROVE  Places(g, chains[g])[j] # n
      BY DEF Off
    <3>1. Unlinked(n, chains)
      BY <1>1, ChainedAt
    <3>2. Len(chains[g]) \in Nat
      BY <1>2, ChainFacts
    <3>3. j \in 0 .. Len(chains[g]) + 1
      BY <3>2
    <3> QED BY <1>2, <3>1, <3>3, PlacesMiss
  <2>2. Agree(M.next, hlink.next, Cells, {n, n}) /\ Agree(M.pprev, hlink.pprev, Nodes, {n, n})
    BY <1>3 DEF Agree
  <2> QED BY <1>2, <2>1, <2>2, ChainOff
<1>5. \A c \in Nodes : M.pprev[c] = NULL <=> c \in plain \cup {n}
  BY <1>2, <1>3 DEF Agree
<1>6. plain \cup {n} \subseteq Nodes
  BY <1>2
<1>7. ChainsState(M, chains, plain \cup {n})
  BY <1>2, <1>3, <1>4, <1>5, <1>6 DEF ChainsState
<1> QED BY <1>1, <1>7 DEF ChainsInv

LEMMA HAddKeeps ==
    ASSUME ChainsInv, NEW n \in Nodes, HAdd(n)
    PROVE  ChainsInv'
<1>1. /\ n \notin Chained /\ plain' = plain \ {n}
      /\ \/ \E h \in Heads : /\ hlink' = hlist_add_head(hlink, n, h)
                             /\ chains' = [chains EXCEPT ![h] = <<n>> \o @]
         \/ \E next \in Chained :
               /\ hlink' = hlist_add_before(hlink, n, next)
               /\ chains' = [chains EXCEPT ![Chain(next)] = InsertAt(@, ChainPlace(next), n)]
         \/ \E at \in Chained :
               /\ hlink' = hlist_add_after(hlink, at, n)
               /\ chains' = [chains EXCEPT ![Chain(at)] = InsertAt(@, ChainPlace(at) + 1, n)]
  BY DEF HAdd
<1>2. ChainsState(hlink, chains, plain) /\ hlink \in HLinks
  BY DEF ChainsInv, ChainsState
<1>3. Unlinked(n, chains)
  BY <1>1, ChainedAt
<1>4. ASSUME NEW h \in Heads, NEW k \in 1 .. Len(chains[h]) + 1,
             NEW p, p = Places(h, chains[h])[k - 1],
             NEW q, q = RunAt(Places(h, chains[h]), Len(chains[h]), k),
             HEntered(hlink', hlink, n, p, q),
             chains' = [chains EXCEPT ![h] = InsertAt(@, k, n)]
      PROVE  ChainsInv'
  <2>1. Inserted(chains', chains, h, k, n)
    BY <1>4 DEF Inserted
  <2>2. ChainsState(hlink', chains', plain \ {n})
    BY <1>2, <1>3, <1>4, <2>1, ChainEnter
  <2> QED BY <1>1, <2>2 DEF ChainsInv
<1>5. ASSUME NEW h \in Heads, hlink' = hlist_add_head(hlink, n, h),
             chains' = [chains EXCEPT ![h] = <<n>> \o @]
      PROVE  ChainsInv'
  <2> DEFINE q == RunAt(Places(h, chains[h]), Len(chains[h]), 1)
  <2>1. chains[h] \in Seq(Nodes) /\ Len(chains[h]) \in Nat /\ Places(h, chains[h])[0] = h
    BY <1>2, ChainFacts
  <2>2. 1 \in 1 .. Len(chains[h]) + 1 /\ h = Places(h, chains[h])[1 - 1]
    BY <2>1
  <2>3. h \in Cells /\ q \in Nodes \cup {NULL} /\ hlink.next[h] = q /\ n # h /\ n # q
    BY <1>2, <1>3, <2>2, AroundLink
  <2> HIDE DEF q
  <2>4. HEntered(hlink', hlink, n, h, q)
    BY <1>2, <1>5, <2>3, AddHeadPointers
  <2>5. chains' = [chains EXCEPT ![h] = InsertAt(@, 1, n)]
    <3>1. <<n>> \o chains[h] = InsertAt(chains[h], 1, n)
      BY <2>1, InsertedEnds
    <3> QED BY <1>5, <3>1
  <2> QED BY <1>4, <2>2, <2>4, <2>5 DEF q
<1>6. ASSUME NEW next \in Chained, hlink' = hlist_add_before(hlink, n, next),
             chains' = [chains EXCEPT ![Chain(next)] = InsertAt(@, ChainPlace(next), n)]
      PROVE  ChainsInv'
  <2>1. PICK h \in Heads : \E k \in 1 .. Len(chains[h]) :
              /\ next = chains[h][k] /\ next \in Nodes
              /\ Chain(next) = h /\ ChainPlace(next) = k
    BY ChainedAt
  <2>2. PICK k \in 1 .. Len(chains[h]) :
              /\ next = chains[h][k] /\ next \in Nodes
              /\ Chain(next) = h /\ ChainPlace(next) = k
    BY <2>1
  <2> DEFINE p == Places(h, chains[h])[k - 1]
  <2>3. Len(chains[h]) \in Nat /\ Places(h, chains[h])[k] = next
    BY <1>2, <2>2, ChainFacts
  <2>4. /\ k \in 1 .. Len(chains[h]) + 1
        /\ next = RunAt(Places(h, chains[h]), Len(chains[h]), k)
    BY <2>3 DEF RunAt
  <2>5. p \in Cells /\ (next # NULL => hlink.pprev[next] = p) /\ n # p /\ n # next
    BY <1>2, <1>3, <2>4, AroundLink
  <2>6. next # NULL
    BY <2>2, ListConstants
  <2> HIDE DEF p
  <2>7. HEntered(hlink', hlink, n, p, next)
    BY <1>2, <1>6, <2>2, <2>5, <2>6, AddBeforePointers
  <2>8. chains' = [chains EXCEPT ![h] = InsertAt(@, k, n)]
    BY <1>6, <2>2
  <2> QED BY <1>4, <2>4, <2>7, <2>8 DEF p
<1>7. ASSUME NEW at \in Chained, hlink' = hlist_add_after(hlink, at, n),
             chains' = [chains EXCEPT ![Chain(at)] = InsertAt(@, ChainPlace(at) + 1, n)]
      PROVE  ChainsInv'
  <2>1. PICK h \in Heads : \E k \in 1 .. Len(chains[h]) :
              /\ at = chains[h][k] /\ at \in Nodes
              /\ Chain(at) = h /\ ChainPlace(at) = k
    BY ChainedAt
  <2>2. PICK k \in 1 .. Len(chains[h]) :
              /\ at = chains[h][k] /\ at \in Nodes
              /\ Chain(at) = h /\ ChainPlace(at) = k
    BY <2>1
  <2>3. Len(chains[h]) \in Nat /\ Places(h, chains[h])[k] = at
    BY <1>2, <2>2, ChainFacts
  <2>4. PICK j \in 1 .. Len(chains[h]) + 1 : j = k + 1 /\ j - 1 = k
    BY <2>3
  <2> DEFINE q == RunAt(Places(h, chains[h]), Len(chains[h]), j)
  <2>5. at = Places(h, chains[h])[j - 1]
    BY <2>3, <2>4
  <2>6. q \in Nodes \cup {NULL} /\ hlink.next[at] = q /\ n # at /\ n # q
    BY <1>2, <1>3, <2>5, AroundLink
  <2> HIDE DEF q
  <2>7. HEntered(hlink', hlink, n, at, q)
    BY <1>2, <1>7, <2>2, <2>6, AddAfterPointers
  <2>8. chains' = [chains EXCEPT ![h] = InsertAt(@, j, n)]
    BY <1>7, <2>2, <2>4
  <2> QED BY <1>4, <2>5, <2>7, <2>8 DEF q
<1> QED BY <1>1, <1>5, <1>6, <1>7

LEMMA HDeleteKeeps ==
    ASSUME ChainsInv, NEW n \in Nodes, HDelete(n)
    PROVE  ChainsInv'
<1>1. /\ \/ n \in Chained /\ hlink' = hlist_del(hlink, n) /\ plain' = plain
         \/ /\ n \in Chained \cup plain /\ hlink' = hlist_del_init(hlink, n)
            /\ plain' = plain \cup {n}
      /\ chains' = IF n \in Chained
                   THEN [chains EXCEPT ![Chain(n)] = RemoveAt(@, ChainPlace(n))]
                   ELSE chains
  BY DEF HDelete
<1>2. /\ ChainsState(hlink, chains, plain) /\ hlink \in HLinks
      /\ \A c \in Nodes : hlink.pprev[c] = NULL <=> c \in plain
  BY DEF ChainsInv, ChainsState
<1>3. CASE n \notin Chained
  <2>1. n \in plain /\ hlink' = hlist_del_init(hlink, n) /\ plain' = plain /\ chains' = chains
    BY <1>1, <1>3
  <2>2. hlink' = hlink
    BY <1>2, <2>1 DEF hlist_del_init, hlist_unhashed
  <2> QED BY <1>2, <2>1, <2>2 DEF ChainsInv
<1>4. CASE n \in Chained
  <2>1. PICK h \in Heads : \E k \in 1 .. Len(chains[h]) :
              /\ n = chains[h][k] /\ Chain(n) = h /\ ChainPlace(n) = k
    BY <1>4, ChainedAt
  <2>2. PICK k \in 1 .. Len(chains[h]) :
              /\ n = chains[h][k] /\ Chain(n) = h /\ ChainPlace(n) = k
    BY <2>1
  <2> DEFINE p == Places(h, chains[h])[k - 1]
             q == RunAt(Places(h, chains[h]), Len(chains[h]), k + 1)
  <2>3. /\ Len(chains[h]) \in Nat /\ Places(h, chains[h])[k] = n
        /\ Simple(Places(h, chains[h]), Len(chains[h]), Cells)
        /\ \A i \in 1 .. Len(chains[h]) : Places(h, chains[h])[i] \in Nodes
    BY <1>2, <2>2, ChainFacts
  <2>4. /\ k \in 1 .. Len(chains[h]) + 1 /\ k + 1 \in 1 .. Len(chains[h]) + 1
        /\ (k + 1) - 1 = k /\ k - 1 \in 0 .. Len(chains[h]) /\ k \in 0 .. Len(chains[h])
        /\ n = RunAt(Places(h, chains[h]), Len(chains[h]), k)
    BY <2>3 DEF RunAt
  <2>5. n # NULL
    BY ListConstants
  <2>6. p \in Cells /\ hlink.pprev[n] = p
    BY <1>2, <2>4, <2>5, AroundLink
  <2>7. q \in Nodes \cup {NULL} /\ hlink.next[n] = q
    <3>1. n = Places(h, chains[h])[(k + 1) - 1]
      BY <2>3, <2>4
    <3> QED BY <1>2, <2>4, <3>1, AroundLink
  <2>8. n # p
    BY <2>3, <2>4 DEF Simple
  <2>9. n # q
    <3>1. k + 1 \in 1 .. Len(chains[h]) => k + 1 \in 0 .. Len(chains[h]) /\ k + 1 # k
      BY <2>3
    <3> QED BY <2>3, <2>4, <2>5, <3>1 DEF Simple, RunAt
  <2> HIDE DEF p, q
  <2>10. /\ HGone(hlist_del(hlink, n), hlink, n, p, q)
         /\ hlist_del(hlink, n).pprev[n] = LIST_POISON
         /\ HGone(hlist_del_init(hlink, n), hlink, n, p, q)
         /\ hlist_del_init(hlink, n).pprev[n] = NULL
    BY <1>2, <2>6, <2>7, <2>8, <2>9, HDelPointers
  <2>11. Removed(chains', chains, h, k)
    BY <1>1, <1>4, <2>2 DEF Removed
  <2>12. ASSUME HGone(hlink', hlink, n, p, q)
         PROVE  /\ hlink'.pprev[n] = NULL => ChainsState(hlink', chains', plain \cup {n})
                /\ hlink'.pprev[n] # NULL => ChainsState(hlink', chains', plain)
    <3>1. ChainsState(hlink, chains, plain) /\ n = chains[h][k]
      BY <1>2, <2>2
    <3>2. /\ p = Places(h, chains[h])[k - 1]
          /\ q = RunAt(Places(h, chains[h]), Len(chains[h]), k + 1)
      BY DEF p, q
    <3> QED BY <3>1, <3>2, <2>11, <2>12, ChainLeave
  <2>13. LIST_POISON # NULL
    BY ListConstants
  <2> QED BY <1>1, <2>10, <2>12, <2>13 DEF ChainsInv
<1> QED BY <1>3, <1>4

LEMMA ChainOf ==
    ASSUME ChainsInv, NEW h \in Heads
    PROVE  /\ \A i \in 0 .. Len(chains[h]) :
                 hlink.next[ChainAt(h, chains[h], i)] = ChainAt(h, chains[h], i + 1)
           /\ \A i \in DOMAIN chains[h] :
                 hlink.pprev[chains[h][i]] = ChainAt(h, chains[h], i - 1)
           /\ hlist_empty(hlink, h) <=> chains[h] = <<>>
<1> DEFINE s == chains[h]
           m == Len(s)
           x == Places(h, s)
<1>1. ChainsState(hlink, chains, plain)
  BY DEF ChainsInv
<1>2. /\ s \in Seq(Nodes) /\ m \in Nat /\ x[0] = h
      /\ \A i \in 1 .. m : x[i] = s[i] /\ x[i] \in Nodes
      /\ Run(hlink.next, hlink.pprev, x, m)
  BY <1>1, ChainFacts
<1>3. DOMAIN s = 1 .. m /\ (s = <<>> <=> m = 0)
  BY <1>2, LenProperties, EmptySeq
<1> HIDE DEF s, m, x
<1>4. /\ ChainAt(h, s, 0) = x[0] /\ ChainAt(h, s, m + 1) = NULL
      /\ \A i \in 1 .. m : ChainAt(h, s, i) = x[i]
  BY <1>2, <1>3 DEF ChainAt
<1>5. /\ hlink.next[x[m]] = NULL
      /\ \A i \in 1 .. m : /\ hlink.next[x[i - 1]] = x[i]
                           /\ hlink.pprev[x[i]] = x[i - 1]
  BY <1>2 DEF Run
<1>6. ASSUME NEW i \in 0 .. m
      PROVE  hlink.next[ChainAt(h, s, i)] = ChainAt(h, s, i + 1)
  <2>1. ChainAt(h, s, i) = x[i]
    <3>1. i = 0 \/ i \in 1 .. m
      BY <1>2
    <3> QED BY <3>1, <1>4
  <2>2. CASE i = m
    BY <2>1, <2>2, <1>4, <1>5
  <2>3. CASE i # m
    <3>1. PICK j \in 1 .. m : j = i + 1 /\ j - 1 = i
      BY <1>2, <2>3
    <3>2. hlink.next[x[i]] = x[j] /\ ChainAt(h, s, j) = x[j]
      BY <3>1, <1>4, <1>5
    <3> QED BY <2>1, <3>1, <3>2
  <2> QED BY <2>2, <2>3
<1>7. ASSUME NEW i \in 1 .. m
      PROVE  hlink.pprev[s[i]] = ChainAt(h, s, i - 1)
  <2>1. hlink.pprev[s[i]] = x[i - 1]
    BY <1>2, <1>5
  <2>2. i - 1 = 0 \/ i - 1 \in 1 .. m
    BY <1>2
  <2> QED BY <2>1, <2>2, <1>4
<1>8. hlist_empty(hlink, h) <=> s = <<>>
  <2>1. CASE m = 0
    BY <2>1, <1>2, <1>3, <1>5 DEF hlist_empty
  <2>2. CASE m # 0
    <3>1. PICK j \in 1 .. m : j = 1 /\ j - 1 = 0
      BY <1>2, <2>2
    <3>2. hlink.next[h] = x[j] /\ x[j] \in Nodes
      BY <3>1, <1>2, <1>5
    <3> QED BY <3>2, <2>2, <1>3, ListConstants DEF hlist_empty
  <2> QED BY <2>1, <2>2
<1> QED BY <1>3, <1>6, <1>7, <1>8 DEF s, m

LEMMA ChainsOf ==
    ASSUME ChainsInv
    PROVE  ChainsHold
<1>1. \A n \in Nodes : hlist_unhashed(hlink, n) <=> n \in plain
  BY DEF ChainsInv, ChainsState, hlist_unhashed
<1> QED BY <1>1, ChainOf DEF ChainsHold

-----------------------------------------------------------------------------
(* The inductive invariant and what follows from it.                       *)
ListsInv == RingsInv /\ WalkInv /\ ChainsInv

LEMMA EmptyIsSeq == <<>> \in Seq(Nodes) /\ Len(<<>>) = 0
OBVIOUS

LEMMA RingsStart ==
    ASSUME ListsInit
    PROVE  RingsInv /\ WalkInv
<1>1. /\ link \in Links /\ lists \in [Heads -> Seq(Nodes)]
      /\ \A h \in Heads : lists[h] = <<>>
  BY EmptyIsSeq DEF ListsInit, Links, Pointers, Cells
<1>2. usable = {} /\ idle = {} /\ walk = NoWalk
  BY DEF ListsInit
<1>3. Separate(lists)
  BY <1>1, EmptyIsSeq DEF Separate
<1> QED BY <1>1, <1>2, <1>3 DEF RingsInv, RingsState, WalkInv

LEMMA ChainsStart ==
    ASSUME ListsInit
    PROVE  ChainsInv
<1>1. /\ chains \in [Heads -> Seq(Nodes)] /\ \A h \in Heads : chains[h] = <<>>
  BY EmptyIsSeq DEF ListsInit
<1>2. /\ hlink \in HLinks /\ \A h \in Heads : hlink.next[h] = NULL
      /\ \A n \in Nodes : hlink.pprev[n] = LIST_POISON
  BY DEF ListsInit, HLinks, Cells
<1>3. plain = {}
  BY DEF ListsInit
<1>4. Separate(chains)
  BY <1>1, EmptyIsSeq DEF Separate
<1>5. ASSUME NEW h \in Heads
      PROVE  HTurns(hlink, h, chains[h])
  <2>1. chains[h] = <<>> /\ Len(chains[h]) = 0 /\ chains[h] \in Seq(Nodes)
    BY <1>1, EmptyIsSeq
  <2>2. Places(h, chains[h])[0] = h
    BY <2>1, PlacesAre
  <2> QED BY <1>2, <2>1, <2>2 DEF HTurns, Run
<1>6. \A n \in Nodes : hlink.pprev[n] = NULL <=> n \in plain
  BY <1>2, <1>3, ListConstants
<1> QED BY <1>1, <1>2, <1>3, <1>4, <1>5, <1>6 DEF ChainsInv, ChainsState

LEMMA QuietKeeps ==
    ASSUME walk = NoWalk, UNCHANGED walk
    PROVE  WalkInv'
BY DEF WalkInv, NoWalk

LEMMA RingsStep ==
    ASSUME RingsInv, WalkInv, RingsNext
    PROVE  RingsInv' /\ WalkInv'
<1>1. ASSUME NEW h \in Heads, InitHead(h)
      PROVE  RingsInv' /\ WalkInv'
  BY <1>1, InitHeadKeeps, QuietKeeps DEF InitHead, Operation, Quiet
<1>2. ASSUME NEW n \in Nodes, Delete(n)
      PROVE  RingsInv' /\ WalkInv'
  BY <1>2, DeleteKeeps, QuietKeeps DEF Delete, Operation, Quiet
<1>3. ASSUME NEW n \in Nodes, DeleteInit(n)
      PROVE  RingsInv' /\ WalkInv'
  BY <1>3, DeleteInitKeeps, QuietKeeps DEF DeleteInit, Operation, Quiet
<1>4. ASSUME NEW n \in Nodes, NEW at \in Heads \cup Nodes, Add(n, at)
      PROVE  RingsInv' /\ WalkInv'
  BY <1>4, AddKeeps, QuietKeeps DEF Add, Operation, Quiet
<1>5. ASSUME NEW n \in Nodes, NEW h \in Heads, Move(n, h)
      PROVE  RingsInv' /\ WalkInv'
  BY <1>5, MoveKeeps, QuietKeeps DEF Move, Operation, Quiet
<1>6. ASSUME NEW old \in Heads \cup Nodes, NEW new \in Heads \cup Nodes, Replace(old, new)
      PROVE  RingsInv' /\ WalkInv'
  <2>1. walk = NoWalk /\ UNCHANGED walk
    BY <1>6 DEF Replace, Operation, Quiet
  <2> QED BY <1>6, <2>1, ReplaceKeeps, QuietKeeps
<1>7. ASSUME NEW list \in Heads, NEW head \in Heads, Splice(list, head)
      PROVE  RingsInv' /\ WalkInv'
  <2>1. walk = NoWalk /\ UNCHANGED walk
    BY <1>7 DEF Splice, Operation, Quiet
  <2> QED BY <1>7, <2>1, SpliceKeeps, QuietKeeps
<1>8. ASSUME NEW list \in Heads, NEW head \in Heads, NEW entry \in Heads \cup Nodes,
             Cut(list, head, entry)
      PROVE  RingsInv' /\ WalkInv'
  <2>1. walk = NoWalk /\ UNCHANGED walk
    BY <1>8 DEF Cut, Operation, Quiet
  <2> QED BY <1>8, <2>1, CutKeeps, QuietKeeps
<1>9. ASSUME NEW h \in Heads, NEW dir \in {"next", "prev"}, NEW at \in Heads \cup Nodes,
             NEW from \in BOOLEAN, WalkStart(h, dir, at, from)
      PROVE  RingsInv' /\ WalkInv'
  BY <1>9, WalkStartKeeps
<1>10. ASSUME WalkStep
       PROVE  RingsInv' /\ WalkInv'
  BY <1>10, WalkStepKeeps
<1>11. ASSUME WalkEnd
       PROVE  RingsInv' /\ WalkInv'
  BY <1>11 DEF WalkEnd, RingsInv, WalkInv, NoWalk
<1> QED BY <1>1, <1>2, <1>3, <1>4, <1>5, <1>6, <1>7, <1>8, <1>9, <1>10, <1>11 DEF RingsNext

LEMMA ListsStep ==
    ASSUME ListsInv, [ListsNext]_listVars
    PROVE  ListsInv'
<1>1. CASE RingsNext /\ UNCHANGED chainVars
  <2>1. ChainsInv'
    BY <1>1 DEF ListsInv, chainVars, ChainsInv
  <2> QED BY <1>1, <2>1, RingsStep DEF ListsInv
<1>2. ASSUME UNCHANGED ringVars
      PROVE  RingsInv' /\ WalkInv'
  BY <1>2 DEF ListsInv, ringVars, RingsInv, WalkInv, NoWalk
<1>3. CASE ChainsNext /\ UNCHANGED ringVars
  <2>1. ChainsInv'
    BY <1>3, HInitNodeKeeps, HAddKeeps, HDeleteKeeps DEF ListsInv, ChainsNext
  <2> QED BY <1>2, <1>3, <2>1 DEF ListsInv
<1>4. CASE UNCHANGED listVars
  <2>1. ChainsInv'
    BY <1>4 DEF ListsInv, listVars, chainVars, ChainsInv
  <2> QED BY <1>2, <1>4, <2>1 DEF ListsInv, listVars
<1> QED BY <1>1, <1>3, <1>4 DEF ListsNext

\* The invariant that the operations of list.h keep: no entry is in two
\* lists, the pointers of every usable head turn through its entries, those
\* of an entry list_del_init() left point to itself, the walk under way is at
\* the place of its ring that it has come to, and the chains run through
\* their entries.
THEOREM ListsAlways == ListsSpec => []ListsInv
<1>1. ListsInit => ListsInv
  BY RingsStart, ChainsStart DEF ListsInv
<1>2. ListsInv /\ [ListsNext]_listVars => ListsInv'
  BY ListsStep
<1> QED BY <1>1, <1>2, PTL DEF ListsSpec

\* After any sequence of operations of list.h the next pointers of a ring
\* visit exactly the entries it should have, in order, and the prev pointers
\* visit them backwards; list_empty() and the other questions answer for the
\* list as it is; and the pprev of each entry of a hash chain is where the
\* pointer to it stands.
THEOREM ListsRepresented == ListsSpec => []ListsHold
<1>1. ListsInv => ListsHold
  BY RingsOf, QueriesOf, ChainsOf DEF ListsInv, ListsHold
<1> QED BY <1>1, ListsAlways, PTL

\* list_for_each_safe() and its kin visit every entry that was there when they
\* began, once and in order, though the body deletes each one or moves it to
\* another list.
THEOREM WalksSeeAll == ListsSpec => []WalkSeesAll
<1>1. ListsInv => WalkSeesAll
  BY SeesOf DEF ListsInv
<1> QED BY <1>1, ListsAlways, PTL
=============================================================================
