---------------------------- MODULE MallocLemmas -----------------------------
(***************************************************************************)
(* The heap of malloc.c as a layout of chunks, and what malloc.c's own     *)
(* helpers, free() and the extension of top do to it, for heaps and chunks *)
(* of any size.                                                            *)
(*                                                                         *)
(* A heap is proved sound against a layout: the sizes S of all chunks by   *)
(* their address, the set F of those that are free and the set U of those  *)
(* programs hold. HeapAt(h, S, F, U) says that the words and bins of h     *)
(* represent that layout. Every operation makes a run of neighbouring      *)
(* chunks one or two others, by writing a few words between them: the      *)
(* lemmas say so of the layout, of the words and of the bins in turn, and  *)
(* then of the operations.                                                 *)
(***************************************************************************)
EXTENDS Malloc, SequenceTheorems, WellFoundedInduction, FiniteSetTheorems, TLAPS

-----------------------------------------------------------------------------
(* Chunks side by side: the shape of a heap, without its words.             *)

(* The chunks of a heap, apart from the words that encode them: S gives the *)
(* size of each chunk by its address; N are the chunks programs hold or     *)
(* bins list, X the markers of fences.                                      *)

Placed(S, N, X, top) ==
    /\ DOMAIN S = N \union X \union {c \in {top} : top # 0}
    /\ N \intersect X = {} /\ top \notin N /\ top \notin X
    /\ top \in Nat
    /\ \A c \in DOMAIN S : c \in Nat /\ c > 0 /\ S[c] \in Nat /\ S[c] > 0 /\ S[c] % 4 = 0

Apart(S) == \A c, d \in DOMAIN S : c < d => c + S[c] <= d

Normal(S, N) ==
    \A p \in N : /\ p % 8 = 0 /\ S[p] % 8 = 0 /\ S[p] >= 16
                 /\ p + S[p] \in DOMAIN S

Fenced(S, N, X) ==
    \A p \in N : p + S[p] \in X => p + S[p] + S[p + S[p]] \in X

Topped(S, top) ==
    /\ top # 0 => top % 8 = 0 /\ S[top] % 8 = 0 /\ S[top] >= 16
    /\ \A c \in DOMAIN S : c <= top

Tiled(S, N, X, top) ==
    Placed(S, N, X, top) /\ Apart(S) /\ Normal(S, N) /\ Fenced(S, N, X) /\ Topped(S, top)

\* The chunks outside [a, e) are the same in two layouts.
SameOutside(S, N, T, M, a, e) ==
    \A c : c < a \/ c >= e =>
        /\ c \in DOMAIN S <=> c \in DOMAIN T
        /\ c \in N <=> c \in M
        /\ c \in DOMAIN S => T[c] = S[c]

\* T makes one chunk of all those of S in [a, e).
OneRun(S, N, T, M, X, top, a, e) ==
    /\ Tiled(T, M, X, top)
    /\ a \in N /\ a \in M /\ T[a] = e - a
    /\ SameOutside(S, N, T, M, a, e)

\* T makes two chunks of all those of S in [a, e).
TwoRun(S, N, T, M, X, top, a, r, e) ==
    /\ Tiled(T, M, X, top)
    /\ a \in N /\ a \in M /\ r \in M /\ T[a] = r - a /\ T[r] = e - r
    /\ SameOutside(S, N, T, M, a, e)

SameBelow(S, N, T, M, a) ==
    \A c : c < a =>
        /\ c \in DOMAIN S <=> c \in DOMAIN T
        /\ c \in N <=> c \in M
        /\ c \in DOMAIN S => T[c] = S[c]

\* The top of T is [a, e), for all that is at or above a in S.
TopRun(S, N, T, M, X, a, e) ==
    /\ Tiled(T, M, X, a)
    /\ a # 0 /\ T[a] = e - a
    /\ SameBelow(S, N, T, M, a)

\* T makes a chunk [a, r) and its top [r, e) of all that is at or above a in S.
TopTwo(S, N, T, M, X, a, r, e) ==
    /\ Tiled(T, M, X, r)
    /\ a \in M /\ T[a] = r - a /\ T[r] = e - r
    /\ SameBelow(S, N, T, M, a)

JoinS(S, a, b) == [c \in DOMAIN S \ {b} |-> IF c = a THEN S[a] + S[b] ELSE S[c]]
CutS(S, a, n) ==
    [c \in DOMAIN S \union {a + n} |->
        IF c = a THEN n ELSE IF c = a + n THEN S[a] - n ELSE S[c]]

ResizeS(S, top, n) == [c \in DOMAIN S |-> IF c = top THEN n ELSE S[c]]
\* The old top ends in two markers, and a new one begins elsewhere.
MarkS(S, top, cut, new, n) ==
    [c \in DOMAIN S \union {top + cut, top + cut + 4, new} |->
        IF c = new THEN n
        ELSE IF c \in {top + cut, top + cut + 4} THEN 4
        ELSE IF c = top THEN cut ELSE S[c]]
MarkX(X, top, cut) ==
    X \union {top + cut, top + cut + 4} \union {c \in {top} : cut < 16}

\* Two chunks side by side may become one.
LEMMA JoinTiled ==
    ASSUME NEW S, NEW N, NEW X, NEW top, NEW a \in N, NEW b \in N,
           Tiled(S, N, X, top), b = a + S[a]
    PROVE  Tiled(JoinS(S, a, b), N \ {b}, X, top)
<1> DEFINE T == JoinS(S, a, b)
<1>1. Placed(S, N, X, top) /\ Apart(S) /\ Normal(S, N) /\ Fenced(S, N, X) /\ Topped(S, top)
  BY DEF Tiled
<1>2. a \in DOMAIN S /\ b \in DOMAIN S /\ S[a] \in Nat /\ S[b] \in Nat /\ S[a] > 0 /\ a \in Nat /\ b # a
  BY <1>1 DEF Placed
<1>3. /\ DOMAIN T = DOMAIN S \ {b}
      /\ T[a] = S[a] + S[b]
      /\ \A c \in DOMAIN S \ {a, b} : T[c] = S[c]
  BY <1>2 DEF JoinS, T
<1> HIDE DEF T
<1>4. \A c \in DOMAIN T : c \in DOMAIN S
  BY <1>3
<1>5. S[a] % 8 = 0 /\ S[b] % 8 = 0 /\ S[a] >= 16 /\ S[b] >= 16 /\ b + S[b] \in DOMAIN S
  BY <1>1 DEF Normal
<1>6. T[a] % 8 = 0 /\ T[a] % 4 = 0 /\ T[a] \in Nat /\ T[a] > 16 /\ a + T[a] = b + S[b]
  BY <1>5, <1>3, <1>2
<1>7. Placed(T, N \ {b}, X, top)
  <2>1. b \notin X /\ b # top
    BY <1>1 DEF Placed
  <2>2. DOMAIN T = (N \ {b}) \union X \union {c \in {top} : top # 0}
    BY <2>1, <1>1, <1>3 DEF Placed
  <2>3. ASSUME NEW c \in DOMAIN T
        PROVE  c \in Nat /\ c > 0 /\ T[c] \in Nat /\ T[c] > 0 /\ T[c] % 4 = 0
    BY <1>1, <1>3, <1>4, <1>6 DEF Placed
  <2> QED BY <2>2, <2>3, <1>1 DEF Placed
<1>8. Apart(T)
  <2> SUFFICES ASSUME NEW c \in DOMAIN T, NEW d \in DOMAIN T, c < d PROVE c + T[c] <= d
    BY DEF Apart
  <2>1. c \in DOMAIN S /\ d \in DOMAIN S /\ d # b /\ c \in Nat /\ d \in Nat /\ c + S[c] <= d /\ S[c] \in Nat
    BY <1>3, <1>1 DEF Apart, Placed
  <2>2. CASE c # a BY <2>2, <2>1, <1>3
  <2>3. CASE c = a
    <3>1. b <= d BY <2>1, <2>3
    <3>2. b + S[b] <= d BY <3>1, <2>1, <1>1, <1>2 DEF Apart
    <3> QED BY <3>2, <2>3, <1>6
  <2> QED BY <2>2, <2>3
<1>9. Normal(T, N \ {b})
  <2> SUFFICES ASSUME NEW p \in N \ {b}
               PROVE  p % 8 = 0 /\ T[p] % 8 = 0 /\ T[p] >= 16 /\ p + T[p] \in DOMAIN T
    BY DEF Normal
  <2>1. p \in DOMAIN S /\ p % 8 = 0 /\ S[p] % 8 = 0 /\ S[p] >= 16 /\ p + S[p] \in DOMAIN S /\ p \in Nat /\ S[p] \in Nat
    BY <1>1 DEF Normal, Placed
  <2>2. CASE p = a
    <3>1. b + S[b] # b BY <1>2, <1>5
    <3> QED BY <3>1, <2>1, <2>2, <1>3, <1>5, <1>6
  <2>3. CASE p # a
    <3>1. p + S[p] # b
      <4>1. CASE p < a
        <5>1. p + S[p] <= a BY <4>1, <2>1, <1>1, <1>2 DEF Apart
        <5> QED BY <5>1, <1>2, <2>1
      <4>2. CASE p > a
        <5>1. b <= p BY <4>2, <2>1, <1>1, <1>2 DEF Apart
        <5> QED BY <5>1, <1>2, <2>1
      <4> QED BY <4>1, <4>2, <2>3, <2>1, <1>2
    <3> QED BY <3>1, <2>1, <2>3, <1>3
  <2> QED BY <2>2, <2>3
<1>10. Fenced(T, N \ {b}, X)
  <2> SUFFICES ASSUME NEW p \in N \ {b}, p + T[p] \in X PROVE p + T[p] + T[p + T[p]] \in X
    BY DEF Fenced
  <2>1. p + T[p] \in DOMAIN S /\ p + T[p] # a /\ p + T[p] # b
    BY <1>1 DEF Placed
  <2>2. T[p + T[p]] = S[p + T[p]]
    BY <2>1, <1>3
  <2>3. \E q \in N : q + S[q] = p + T[p]
    <3>1. CASE p = a BY <3>1, <1>6
    <3>2. CASE p # a
      <4>1. p \in DOMAIN S BY <1>1 DEF Placed
      <4> QED BY <3>2, <4>1, <1>3
    <3> QED BY <3>1, <3>2
  <2> QED BY <2>2, <2>3, <1>1 DEF Fenced
<1>11. Topped(T, top)
  <2>1. \A c \in DOMAIN T : c <= top BY <1>1, <1>4 DEF Topped
  <2>2. top # a /\ top # b BY <1>1 DEF Placed
  <2>3. top # 0 => top \in DOMAIN S BY <1>1 DEF Placed
  <2>4. top # 0 => T[top] = S[top] BY <2>2, <2>3, <1>3
  <2> QED BY <2>1, <2>4, <1>1 DEF Topped
<1> QED BY <1>7, <1>8, <1>9, <1>10, <1>11 DEF Tiled, T

\* A chunk may be cut in two, if both parts are chunks.
LEMMA CutTiled ==
    ASSUME NEW S, NEW N, NEW X, NEW top, NEW a \in N, NEW n \in Nat,
           Tiled(S, N, X, top), n >= 16, n % 8 = 0, S[a] - n >= 16
    PROVE  Tiled(CutS(S, a, n), N \union {a + n}, X, top)
<1> DEFINE T == CutS(S, a, n)
           r == a + n
           e == a + S[a]
<1> HIDE DEF r, e
<1>1. Placed(S, N, X, top) /\ Apart(S) /\ Normal(S, N) /\ Fenced(S, N, X) /\ Topped(S, top)
  BY DEF Tiled
<1>2. /\ a \in DOMAIN S /\ S[a] \in Nat /\ a \in Nat /\ a > 0 /\ a % 8 = 0 /\ S[a] % 8 = 0
      /\ e \in DOMAIN S
  BY <1>1 DEF Placed, Normal, e
<1>3. r \in Nat /\ e \in Nat /\ a < r /\ r < e /\ r % 8 = 0 /\ (S[a] - n) % 8 = 0 /\ (S[a] - n) % 4 = 0 /\ n % 4 = 0
      /\ e - r = S[a] - n /\ r - a = n
  BY <1>2 DEF r, e
<1>4. r \notin DOMAIN S
  <2>1. r \in DOMAIN S => a + S[a] <= r BY <1>1, <1>2, <1>3 DEF Apart
  <2> QED BY <2>1, <1>3 DEF e
<1>5. /\ DOMAIN T = DOMAIN S \union {r}
      /\ T[a] = n /\ T[r] = S[a] - n
      /\ \A c \in DOMAIN S \ {a} : T[c] = S[c]
  BY <1>2, <1>3, <1>4 DEF CutS, T, r
<1> HIDE DEF T
<1>6. \A c \in DOMAIN S : T[c] <= S[c] /\ T[c] \in Nat /\ T[c] > 0 /\ T[c] % 4 = 0 /\ c \in Nat /\ c > 0
  <2> TAKE c \in DOMAIN S
  <2>1. CASE c = a BY <2>1, <1>2, <1>3, <1>5
  <2>2. CASE c # a BY <2>2, <1>5, <1>1 DEF Placed
  <2> QED BY <2>1, <2>2
<1>7. Placed(T, N \union {r}, X, top)
  <2>1. r \notin X /\ r # top /\ r \notin N
    BY <1>1, <1>3, <1>4 DEF Placed
  <2>2. DOMAIN T = (N \union {r}) \union X \union {c \in {top} : top # 0}
    BY <1>1, <1>5 DEF Placed
  <2>3. ASSUME NEW c \in DOMAIN T
        PROVE  c \in Nat /\ c > 0 /\ T[c] \in Nat /\ T[c] > 0 /\ T[c] % 4 = 0
    <3>1. CASE c = r BY <3>1, <1>2, <1>3, <1>5
    <3>2. CASE c # r BY <3>2, <1>5, <1>6
    <3> QED BY <3>1, <3>2
  <2> QED BY <2>1, <2>2, <2>3, <1>1 DEF Placed
<1>8. Apart(T)
  <2> SUFFICES ASSUME NEW c \in DOMAIN T, NEW d \in DOMAIN T, c < d PROVE c + T[c] <= d
    BY DEF Apart
  <2>1. CASE c # r /\ d # r
    <3>1. c \in DOMAIN S /\ d \in DOMAIN S BY <2>1, <1>5
    <3>2. c + S[c] <= d BY <3>1, <1>1 DEF Apart
    <3>3. T[c] <= S[c] /\ c \in Nat /\ d \in Nat /\ T[c] \in Nat /\ S[c] \in Nat
      BY <3>1, <1>6, <1>1 DEF Placed
    <3> QED BY <3>2, <3>3
  <2>2. CASE c = r
    <3>1. d \in DOMAIN S /\ d \in Nat BY <2>2, <1>5, <1>3, <1>6
    <3>2. a < d BY <3>1, <2>2, <1>2, <1>3
    <3>3. e <= d BY <3>1, <3>2, <1>2, <1>1 DEF Apart, e
    <3> QED BY <3>3, <2>2, <1>3, <1>5
  <2>3. CASE c # r /\ d = r
    <3>1. c \in DOMAIN S /\ c \in Nat BY <2>3, <1>5, <1>6
    <3>2. CASE c = a BY <3>2, <1>2, <2>3, <1>3, <1>5
    <3>3. CASE c < a
      <4>1. c + S[c] <= a /\ S[c] = T[c] /\ T[c] \in Nat BY <3>1, <3>3, <1>2, <1>1, <1>5, <1>6 DEF Apart
      <4> QED BY <4>1, <3>1, <2>3, <1>2, <1>3
    <3>4. CASE c > a
      <4>1. e <= c BY <3>1, <3>4, <1>2, <1>1 DEF Apart, e
      <4> QED BY <4>1, <3>1, <2>3, <1>2, <1>3
    <3> QED BY <3>1, <3>2, <3>3, <3>4, <1>2
  <2> QED BY <2>1, <2>2, <2>3
<1>9. Normal(T, N \union {r})
  <2> SUFFICES ASSUME NEW p \in N \union {r}
               PROVE  p % 8 = 0 /\ T[p] % 8 = 0 /\ T[p] >= 16 /\ p + T[p] \in DOMAIN T
    BY DEF Normal
  <2>1. CASE p = r BY <2>1, <1>2, <1>3, <1>5
  <2>2. CASE p = a BY <2>2, <1>2, <1>3, <1>5
  <2>3. CASE p # r /\ p # a
    <3>1. p \in N /\ p \in DOMAIN S BY <2>3, <1>1 DEF Placed
    <3> QED BY <3>1, <2>3, <1>1, <1>5 DEF Normal
  <2> QED BY <2>1, <2>2, <2>3
<1>10. Fenced(T, N \union {r}, X)
  <2> SUFFICES ASSUME NEW p \in N \union {r}, p + T[p] \in X PROVE p + T[p] + T[p + T[p]] \in X
    BY DEF Fenced
  <2>1. p + T[p] \in DOMAIN S /\ p + T[p] # a
    BY <1>1 DEF Placed
  <2>2. T[p + T[p]] = S[p + T[p]]
    BY <2>1, <1>5
  <2>3. \E q \in N : q + S[q] = p + T[p]
    <3>1. CASE p = r BY <3>1, <1>2, <1>3, <1>5 DEF e
    <3>2. CASE p = a
      <4>1. p + T[p] = r BY <3>2, <1>3, <1>5, <1>2
      <4> QED BY <4>1, <2>1, <1>4
    <3>3. CASE p # r /\ p # a
      <4>1. p \in N /\ p \in DOMAIN S BY <3>3, <1>1 DEF Placed
      <4> QED BY <3>3, <4>1, <1>5
    <3> QED BY <3>1, <3>2, <3>3
  <2> QED BY <2>2, <2>3, <1>1 DEF Fenced
<1>11. Topped(T, top)
  <2>0. top \in Nat /\ e \in DOMAIN S /\ e <= top BY <1>1, <1>2 DEF Topped, Placed
  <2>1. \A c \in DOMAIN T : c <= top BY <2>0, <1>1, <1>3, <1>5 DEF Topped
  <2>2. top # a BY <1>1 DEF Placed
  <2>3. top # 0 => top \in DOMAIN S BY <1>1 DEF Placed
  <2>4. top # 0 => T[top] = S[top] BY <2>2, <2>3, <1>5
  <2> QED BY <2>1, <2>4, <1>1 DEF Topped
<1>12. Tiled(T, N \union {r}, X, top) BY <1>7, <1>8, <1>9, <1>10, <1>11 DEF Tiled
<1> QED BY <1>12 DEF T, r

\* The chunk before top becomes a part of it.
LEMMA JoinTopTiled ==
    ASSUME NEW S, NEW N, NEW X, NEW top, NEW a \in N,
           Tiled(S, N, X, top), top = a + S[a]
    PROVE  Tiled(JoinS(S, a, top), N \ {a}, X, a)
<1> DEFINE T == JoinS(S, a, top)
<1>1. Placed(S, N, X, top) /\ Apart(S) /\ Normal(S, N) /\ Fenced(S, N, X) /\ Topped(S, top)
  BY DEF Tiled
<1>2. a \in DOMAIN S /\ S[a] \in Nat /\ S[a] >= 16 /\ a \in Nat /\ a > 0 /\ a % 8 = 0 /\ S[a] % 8 = 0 /\ top > a /\ top # 0
  BY <1>1 DEF Placed, Normal
<1>3. top \in DOMAIN S /\ top \in Nat /\ S[top] \in Nat /\ S[top] % 8 = 0 /\ S[top] >= 16
  BY <1>1, <1>2 DEF Placed, Topped
<1>4. /\ DOMAIN T = DOMAIN S \ {top}
      /\ T[a] = S[a] + S[top]
      /\ \A c \in DOMAIN S \ {a, top} : T[c] = S[c]
  BY <1>2 DEF JoinS, T
<1> HIDE DEF T
<1>5. T[a] \in Nat /\ T[a] % 8 = 0 /\ T[a] % 4 = 0 /\ T[a] >= 16 BY <1>2, <1>3, <1>4
<1>6. \A c \in DOMAIN T : c \in DOMAIN S /\ c # top BY <1>4
<1>7. \A c \in DOMAIN T : c <= a
  <2> SUFFICES ASSUME NEW c \in DOMAIN T, ~(c <= a) PROVE FALSE
    OBVIOUS
  <2>1. c \in DOMAIN S /\ c # top /\ c \in Nat /\ a < c /\ c <= top BY <1>6, <1>2, <1>1 DEF Placed, Topped
  <2>2. top <= c BY <2>1, <1>2, <1>1 DEF Apart
  <2> QED BY <2>1, <2>2, <1>3
<1>8. Placed(T, N \ {a}, X, a)
  <2>1. DOMAIN T = (N \ {a}) \union X \union {c \in {a} : a # 0}
    <3>1. DOMAIN S = N \union X \union {top} /\ top \notin N /\ top \notin X BY <1>1, <1>2 DEF Placed
    <3>2. {c \in {a} : a # 0} = {a} BY <1>2
    <3> QED BY <3>1, <3>2, <1>4
  <2>2. ASSUME NEW c \in DOMAIN T
        PROVE  c \in Nat /\ c > 0 /\ T[c] \in Nat /\ T[c] > 0 /\ T[c] % 4 = 0
    <3>1. CASE c = a BY <3>1, <1>2, <1>5
    <3>2. CASE c # a BY <3>2, <1>4, <1>6, <1>1 DEF Placed
    <3> QED BY <3>1, <3>2
  <2>3. a \notin X BY <1>1 DEF Placed
  <2>4. (N \ {a}) \intersect X = {} BY <1>1 DEF Placed
  <2> QED BY <2>1, <2>2, <2>3, <2>4, <1>2 DEF Placed
<1>9. \A c \in DOMAIN T \ {a} : T[c] = S[c] /\ c < a /\ c \in DOMAIN S
  BY <1>4, <1>6, <1>7, <1>8 DEF Placed
<1>10. Apart(T)
  <2> SUFFICES ASSUME NEW c \in DOMAIN T, NEW d \in DOMAIN T, c < d PROVE c + T[c] <= d
    BY DEF Apart
  <2>1. c # a BY <1>2, <1>7, <1>8 DEF Placed
  <2> QED BY <2>1, <1>9, <1>6, <1>1 DEF Apart
<1>11. \A p \in N \ {a} : p \in DOMAIN T /\ p + S[p] \in DOMAIN S /\ p + S[p] # top
  <2> TAKE p \in N \ {a}
  <2>1. p \in DOMAIN T BY <1>8 DEF Placed
  <2>2. p + S[p] \in DOMAIN S BY <1>1 DEF Normal
  <2>3. p \in DOMAIN S /\ p < a BY <2>1, <1>9
  <2>4. p + S[p] <= a BY <2>3, <1>2, <1>1 DEF Apart
  <2> QED BY <2>1, <2>2, <2>4, <1>2, <1>3
<1>12. Normal(T, N \ {a}) BY <1>11, <1>9, <1>4, <1>1 DEF Normal
<1>13. Fenced(T, N \ {a}, X)
  <2> SUFFICES ASSUME NEW p \in N \ {a}, p + T[p] \in X PROVE p + T[p] + T[p + T[p]] \in X
    BY DEF Fenced
  <2>1. p + T[p] = p + S[p] /\ p + T[p] # a /\ p + T[p] \in DOMAIN T
    BY <1>11, <1>9, <1>1, <1>4 DEF Placed
  <2>2. T[p + T[p]] = S[p + S[p]] BY <2>1, <1>9
  <2> QED BY <2>1, <2>2, <1>1 DEF Fenced
<1>14. Topped(T, a) BY <1>2, <1>5, <1>7 DEF Topped
<1>15. Tiled(T, N \ {a}, X, a) BY <1>8, <1>10, <1>12, <1>13, <1>14 DEF Tiled
<1> QED BY <1>15 DEF T

\* A chunk is cut off the front of top.
LEMMA CutTopTiled ==
    ASSUME NEW S, NEW N, NEW X, NEW top, NEW n \in Nat, top # 0,
           Tiled(S, N, X, top), n >= 16, n % 8 = 0, S[top] - n >= 16
    PROVE  Tiled(CutS(S, top, n), N \union {top}, X, top + n)
<1> DEFINE T == CutS(S, top, n)
           r == top + n
<1> HIDE DEF r
<1>1. Placed(S, N, X, top) /\ Apart(S) /\ Normal(S, N) /\ Fenced(S, N, X) /\ Topped(S, top)
  BY DEF Tiled
<1>2. /\ top \in DOMAIN S /\ S[top] \in Nat /\ top \in Nat /\ top > 0 /\ top % 8 = 0 /\ S[top] % 8 = 0
  BY <1>1 DEF Placed, Topped
<1>3. r \in Nat /\ top < r /\ r > 0 /\ r % 8 = 0 /\ (S[top] - n) % 8 = 0 /\ (S[top] - n) % 4 = 0 /\ n % 4 = 0 /\ S[top] - n \in Nat
      /\ r - top = n /\ r # 0 /\ n > 0 /\ S[top] - n > 0
  BY <1>2 DEF r
<1>4. r \notin DOMAIN S /\ \A c \in DOMAIN S : c < r
  BY <1>1, <1>2, <1>3 DEF Topped, Placed
<1>5. /\ DOMAIN T = DOMAIN S \union {r}
      /\ T[top] = n /\ T[r] = S[top] - n
      /\ \A c \in DOMAIN S \ {top} : T[c] = S[c]
  BY <1>2, <1>3, <1>4 DEF CutS, T, r
<1> HIDE DEF T
<1>6. \A c \in DOMAIN T : c \in Nat /\ c > 0 /\ T[c] \in Nat /\ T[c] > 0 /\ T[c] % 4 = 0
  <2> TAKE c \in DOMAIN T
  <2>1. CASE c = r BY <2>1, <1>2, <1>3, <1>5
  <2>2. CASE c = top BY <2>2, <1>2, <1>3, <1>5
  <2>3. CASE c # r /\ c # top BY <2>3, <1>5, <1>1 DEF Placed
  <2> QED BY <2>1, <2>2, <2>3
<1>7. Placed(T, N \union {top}, X, r)
  <2>1. r \notin X /\ r \notin N /\ top \notin X
    BY <1>1, <1>3, <1>4 DEF Placed
  <2>2. DOMAIN T = (N \union {top}) \union X \union {c \in {r} : r # 0}
    <3>1. DOMAIN S = N \union X \union {top} BY <1>1 DEF Placed
    <3>2. {c \in {r} : r # 0} = {r} BY <1>3
    <3> QED BY <3>1, <3>2, <1>5
  <2>3. (N \union {top}) \intersect X = {} /\ r # top BY <1>1, <1>2, <1>3 DEF Placed
  <2> QED BY <2>1, <2>2, <2>3, <1>6, <1>3 DEF Placed
<1>8. Apart(T)
  <2> SUFFICES ASSUME NEW c \in DOMAIN T, NEW d \in DOMAIN T, c < d PROVE c + T[c] <= d
    BY DEF Apart
  <2>1. c # r BY <1>4, <1>5, <1>6, <1>3
  <2>2. c \in DOMAIN S /\ c \in Nat /\ d \in Nat /\ (d = r \/ d \in DOMAIN S) BY <2>1, <1>5, <1>6
  <2>3. CASE c = top
    <3>1. d = r BY <2>2, <2>3, <1>2, <1>1 DEF Topped
    <3> QED BY <3>1, <2>3, <1>5, <1>2, <1>3
  <2>4. CASE c # top /\ d = r
    <3>1. c < top BY <2>2, <2>4, <1>1, <1>2 DEF Topped
    <3>2. c + S[c] <= top /\ T[c] = S[c] /\ T[c] \in Nat BY <3>1, <2>4, <2>2, <1>1, <1>2, <1>5, <1>6 DEF Apart
    <3> QED BY <3>2, <2>4, <2>2, <1>2, <1>3
  <2>5. CASE c # top /\ d # r BY <2>5, <2>2, <1>5, <1>1 DEF Apart
  <2> QED BY <2>3, <2>4, <2>5
<1>9. Normal(T, N \union {top})
  <2> SUFFICES ASSUME NEW p \in N \union {top}
               PROVE  p % 8 = 0 /\ T[p] % 8 = 0 /\ T[p] >= 16 /\ p + T[p] \in DOMAIN T
    BY DEF Normal
  <2>1. CASE p = top
    <3>1. p + T[p] = r BY <2>1, <1>2, <1>3, <1>5
    <3> QED BY <3>1, <2>1, <1>2, <1>3, <1>5
  <2>2. CASE p # top
    <3>1. p \in N /\ p \in DOMAIN S BY <2>2, <1>1 DEF Placed
    <3> QED BY <3>1, <2>2, <1>1, <1>5 DEF Normal
  <2> QED BY <2>1, <2>2
<1>10. Fenced(T, N \union {top}, X)
  <2> SUFFICES ASSUME NEW p \in N \union {top}, p + T[p] \in X PROVE p + T[p] + T[p + T[p]] \in X
    BY DEF Fenced
  <2>1. p + T[p] \in DOMAIN S /\ p + T[p] # top
    BY <1>1 DEF Placed
  <2>2. T[p + T[p]] = S[p + T[p]]
    BY <2>1, <1>5
  <2>3. p # top
    <3>1. CASE p = top
      <4>1. p + T[p] = r BY <3>1, <1>2, <1>3, <1>5
      <4> QED BY <4>1, <2>1, <1>4
    <3> QED BY <3>1
  <2>4. p \in N /\ p \in DOMAIN S BY <2>3, <1>1 DEF Placed
  <2>5. T[p] = S[p] BY <2>3, <2>4, <1>5
  <2> QED BY <2>2, <2>4, <2>5, <1>1 DEF Fenced
<1>11. Topped(T, r)
  <2>1. \A c \in DOMAIN T : c <= r BY <1>3, <1>4, <1>5, <1>6
  <2> QED BY <2>1, <1>2, <1>3, <1>5 DEF Topped
<1>12. Tiled(T, N \union {top}, X, r) BY <1>7, <1>8, <1>9, <1>10, <1>11 DEF Tiled
<1> QED BY <1>12 DEF T, r

\* Top may take any size that is a chunk's.
LEMMA ResizeTiled ==
    ASSUME NEW S, NEW N, NEW X, NEW top, NEW n \in Nat, top # 0,
           Tiled(S, N, X, top), n >= 16, n % 8 = 0
    PROVE  Tiled(ResizeS(S, top, n), N, X, top)
<1> DEFINE T == ResizeS(S, top, n)
<1>1. Placed(S, N, X, top) /\ Apart(S) /\ Normal(S, N) /\ Fenced(S, N, X) /\ Topped(S, top)
  BY DEF Tiled
<1>2. top \in DOMAIN S /\ top \in Nat /\ n % 4 = 0 BY <1>1 DEF Placed
<1>3. /\ DOMAIN T = DOMAIN S /\ T[top] = n
      /\ \A c \in DOMAIN S \ {top} : T[c] = S[c]
  BY <1>2 DEF ResizeS, T
<1> HIDE DEF T
<1>4. \A c \in DOMAIN S : c < top \/ c = top BY <1>1, <1>2 DEF Topped, Placed
<1>5. Placed(T, N, X, top)
  <2>1. ASSUME NEW c \in DOMAIN T
        PROVE  c \in Nat /\ c > 0 /\ T[c] \in Nat /\ T[c] > 0 /\ T[c] % 4 = 0
    <3>1. CASE c = top BY <3>1, <1>1, <1>2, <1>3 DEF Placed
    <3>2. CASE c # top BY <3>2, <1>1, <1>3 DEF Placed
    <3> QED BY <3>1, <3>2
  <2> QED BY <2>1, <1>1, <1>3 DEF Placed
<1>6. Apart(T)
  <2> SUFFICES ASSUME NEW c \in DOMAIN T, NEW d \in DOMAIN T, c < d PROVE c + T[c] <= d
    BY DEF Apart
  <2>1. c # top BY <1>2, <1>3, <1>4, <1>1 DEF Placed
  <2> QED BY <2>1, <1>3, <1>1 DEF Apart
<1>7. \A p \in N : p \in DOMAIN S /\ T[p] = S[p]
  BY <1>1, <1>3 DEF Placed
<1>8. Normal(T, N) BY <1>7, <1>3, <1>1 DEF Normal
<1>9. \A c \in X : c # top /\ c \in DOMAIN S BY <1>1 DEF Placed
<1>10. Fenced(T, N, X) BY <1>7, <1>9, <1>3, <1>1 DEF Fenced
<1>11. Topped(T, top) BY <1>1, <1>3 DEF Topped
<1>12. Tiled(T, N, X, top) BY <1>5, <1>6, <1>8, <1>10, <1>11 DEF Tiled
<1> QED BY <1>12 DEF T

\* The first top of a heap that has none.
LEMMA FirstTiled ==
    ASSUME NEW S, NEW N, NEW X, NEW new \in Nat, NEW n \in Nat,
           Tiled(S, N, X, 0), new > 0, new % 8 = 0, n >= 16, n % 8 = 0
    PROVE  /\ N = {} /\ X = {}
           /\ Tiled([c \in {new} |-> n], {}, {}, new)
<1> DEFINE T == [c \in {new} |-> n]
<1>1. \A c \in DOMAIN S : c <= 0 /\ c > 0 /\ c \in Nat BY DEF Tiled, Placed, Topped
<1>2. DOMAIN S = {} BY <1>1
<1>3. N = {} /\ X = {} BY <1>2 DEF Tiled, Placed
<1>4. DOMAIN T = {new} /\ T[new] = n OBVIOUS
<1> HIDE DEF T
<1>5. Placed(T, {}, {}, new) BY <1>4 DEF Placed
<1>6. Apart(T) BY <1>4 DEF Apart
<1>7. Normal(T, {}) /\ Fenced(T, {}, {}) /\ Topped(T, new) BY <1>4 DEF Normal, Fenced, Topped
<1>8. Tiled(T, {}, {}, new) BY <1>5, <1>6, <1>7 DEF Tiled
<1> QED BY <1>3, <1>8 DEF T

\* The old top may end in two markers, when a new one begins behind it.
LEMMA MarkTiled ==
    ASSUME NEW S, NEW N, NEW X, NEW top, NEW new \in Nat, NEW n \in Nat, NEW cut \in Nat,
           Tiled(S, N, X, top), top # 0, S[top] = cut + 16,
           new >= top + S[top], new % 8 = 0, n >= 16, n % 8 = 0
    PROVE  Tiled(MarkS(S, top, cut, new, n), N \union {c \in {top} : cut >= 16},
                 MarkX(X, top, cut), new)
<1> DEFINE T == MarkS(S, top, cut, new, n)
           M == N \union {c \in {top} : cut >= 16}
           Y == MarkX(X, top, cut)
           r == top + cut
           s == top + cut + 4
<1> HIDE DEF r, s, M, Y
<1>1. Placed(S, N, X, top) /\ Apart(S) /\ Normal(S, N) /\ Fenced(S, N, X) /\ Topped(S, top)
  BY DEF Tiled
<1>2. /\ top \in DOMAIN S /\ S[top] \in Nat /\ top \in Nat /\ top > 0 /\ top % 8 = 0 /\ S[top] % 8 = 0
  BY <1>1 DEF Placed, Topped
<1>3. /\ r \in Nat /\ s \in Nat /\ s = r + 4 /\ r > 0 /\ s > 0 /\ s + 4 <= new /\ r = top + cut
      /\ cut % 8 = 0 /\ cut % 4 = 0 /\ new > top
      /\ cut = 0 \/ cut = 8 \/ cut >= 16
  BY <1>2 DEF r, s
<1>a. /\ r \in Nat /\ s \in Nat /\ s = r + 4 /\ r > 0 /\ s + 4 <= new /\ top <= r /\ top > 0
      /\ new > top /\ new # r /\ new # s /\ new # top /\ r # s /\ s # top /\ new > 0 /\ top \in Nat
  <2>1. top \in Nat /\ top > 0 /\ r = top + cut /\ s = r + 4 /\ s + 4 <= new BY <1>2, <1>3
  <2> QED BY <2>1
<1>b. n \in Nat /\ n > 0 /\ n % 4 = 0 OBVIOUS
<1>4. \A c \in DOMAIN S : c \in Nat /\ c <= top /\ c # s /\ c # new /\ (c = r => cut = 0)
  BY <1>1, <1>2, <1>3 DEF Topped, Placed
<1>5. /\ DOMAIN T = DOMAIN S \union {r, s, new}
      /\ T[r] = 4 /\ T[s] = 4 /\ T[new] = n
      /\ cut # 0 => T[top] = cut
      /\ \A c \in DOMAIN S \ {top} : T[c] = S[c]
  BY <1>2, <1>a, <1>4 DEF MarkS, T, r, s
<1> HIDE DEF T
<1>6. cut = 0 => r = top BY <1>2, <1>3
<1>7. Y = X \union {r, s} \union {c \in {top} : cut < 16} BY DEF Y, r, s, MarkX
<1>8. /\ top \in M <=> cut >= 16
      /\ \A c : c # top => (c \in M <=> c \in N)
      /\ top \in Y <=> cut < 16
      /\ r \in Y /\ s \in Y
      /\ \A c : c \in Y <=> c \in X \/ c = r \/ c = s \/ (c = top /\ cut < 16)
  <2>1. top \notin N /\ top \notin X BY <1>1 DEF Placed
  <2>2. cut \in Nat OBVIOUS
  <2>3. s # top /\ (r = top => cut = 0) BY <1>2, <1>3
  <2> QED BY <2>1, <2>2, <2>3, <1>7 DEF M
<1>9. ASSUME NEW c \in DOMAIN T
      PROVE  c \in Nat /\ c > 0 /\ T[c] \in Nat /\ T[c] > 0 /\ T[c] % 4 = 0
  <2>1. CASE c = r \/ c = s BY <2>1, <1>3, <1>5
  <2>2. CASE c = new BY <2>2, <1>a, <1>b, <1>5
  <2>3. CASE c = top /\ c # r
    <3>1. cut # 0 BY <2>3, <1>6
    <3> QED BY <3>1, <2>3, <1>2, <1>3, <1>5
  <2>4. CASE c # r /\ c # s /\ c # new /\ c # top BY <2>4, <1>5, <1>1 DEF Placed
  <2> QED BY <2>1, <2>2, <2>3, <2>4
<1>10. Placed(T, M, Y, new)
  <2>1. new \notin N /\ new \notin X /\ new # r /\ new # s /\ new # top /\ s # top /\ r # s
    BY <1>1, <1>2, <1>3, <1>4 DEF Placed
  <2>2. new \notin M /\ new \notin Y BY <2>1, <1>8
  <2>3. r \notin N /\ s \notin N
    BY <1>1, <1>4, <1>6 DEF Placed
  <2>4. M \intersect Y = {}
    <3> SUFFICES ASSUME NEW c \in M, c \in Y PROVE FALSE
      OBVIOUS
    <3>1. c # top BY <1>8
    <3>2. c \in N BY <3>1, <1>8
    <3>3. c \notin X BY <3>2, <1>1 DEF Placed
    <3> QED BY <3>1, <3>2, <3>3, <2>3, <1>8
  <2>5. DOMAIN T = M \union Y \union {c \in {new} : new # 0}
    <3>1. DOMAIN S = N \union X \union {top} BY <1>1, <1>2 DEF Placed
    <3>2. {c \in {new} : new # 0} = {new} BY <1>a
    <3>3. top \in M \/ top \in Y BY <1>8
    <3>4. \A c : c \in M \/ c \in Y <=> c \in N \/ c \in X \/ c = top \/ c = r \/ c = s
      BY <1>8, <3>3
    <3> QED BY <3>1, <3>2, <3>4, <1>5
  <2> QED BY <2>2, <2>4, <2>5, <1>9 DEF Placed
<1>11. Apart(T)
  <2> SUFFICES ASSUME NEW c \in DOMAIN T, NEW d \in DOMAIN T, c < d PROVE c + T[c] <= d
    BY DEF Apart
  <2>0. c \in Nat /\ d \in Nat /\ T[c] \in Nat BY <1>9
  <2>1. CASE d \in DOMAIN S
    <3>1. d <= top BY <2>1, <1>4
    <3>2. c \in DOMAIN S /\ c # top BY <3>1, <2>0, <1>a, <1>5
    <3> QED BY <3>2, <2>1, <1>1, <1>5 DEF Apart
  <2>2. CASE d \notin DOMAIN S /\ c \in DOMAIN S /\ c # top
    <3>1. c < top /\ T[c] = S[c] BY <2>2, <1>4, <1>5, <1>2
    <3>2. c + S[c] <= top BY <3>1, <2>2, <1>1, <1>2 DEF Apart
    <3>3. d >= r BY <2>2, <1>a, <1>5
    <3> QED BY <3>1, <3>2, <3>3, <2>0, <1>a
  <2>3. CASE d \notin DOMAIN S /\ c = top /\ cut # 0
    <3>1. T[c] = cut /\ d >= r BY <2>3, <1>3, <1>5
    <3> QED BY <3>1, <2>3, <1>2, <1>3
  <2>4. CASE d \notin DOMAIN S /\ c = r
    <3>1. T[c] = 4 /\ (d = s \/ d = new) BY <2>4, <1>a, <1>4, <1>5
    <3> QED BY <3>1, <2>4, <1>3
  <2>5. CASE d \notin DOMAIN S /\ c = s
    <3>1. T[c] = 4 /\ d = new BY <2>5, <1>5, <1>3
    <3> QED BY <3>1, <2>5, <1>3
  <2>6. c # new BY <1>a, <1>4, <1>5, <2>0
  <2> QED BY <2>1, <2>2, <2>3, <2>4, <2>5, <2>6, <1>5, <1>6
<1>12. ASSUME NEW p \in M, p # top
       PROVE  p \in N /\ p \in DOMAIN S /\ T[p] = S[p] /\ p + T[p] \in DOMAIN S
  BY <1>12, <1>8, <1>5, <1>1 DEF Placed, Normal
<1>13. top + cut = r BY <1>3
<1>14. Normal(T, M)
  <2> SUFFICES ASSUME NEW p \in M
               PROVE  p % 8 = 0 /\ T[p] % 8 = 0 /\ T[p] >= 16 /\ p + T[p] \in DOMAIN T
    BY DEF Normal
  <2>1. CASE p = top
    <3>1. cut >= 16 /\ T[p] = cut BY <2>1, <1>5, <1>8
    <3> QED BY <3>1, <2>1, <1>2, <1>3, <1>5, <1>13
  <2>2. CASE p # top BY <2>2, <1>12, <1>5, <1>1 DEF Normal
  <2> QED BY <2>1, <2>2
<1>15. Fenced(T, M, Y)
  <2> SUFFICES ASSUME NEW p \in M, p + T[p] \in Y PROVE p + T[p] + T[p + T[p]] \in Y
    BY DEF Fenced
  <2>1. CASE p = top
    <3>1. cut >= 16 /\ T[p] = cut BY <2>1, <1>5, <1>8
    <3>2. p + T[p] = r /\ r + T[r] = s BY <3>1, <2>1, <1>2, <1>3, <1>5
    <3> QED BY <3>2, <1>8
  <2>2. CASE p # top /\ p + T[p] # top
    <3>1. p + T[p] \in X
      <4>1. p + T[p] # s BY <2>2, <1>12, <1>4
      <4>2. p + T[p] = r => r = top BY <2>2, <1>12, <1>4, <1>6
      <4> QED BY <4>1, <4>2, <2>2, <1>8
    <3>2. T[p + T[p]] = S[p + T[p]] BY <2>2, <1>12, <1>5
    <3>3. p + S[p] + S[p + S[p]] \in X BY <3>1, <2>2, <1>12, <1>1 DEF Fenced
    <3> QED BY <3>2, <3>3, <2>2, <1>12, <1>8
  <2>3. CASE p + T[p] = top
    <3>1. cut < 16 BY <2>3, <1>8
    <3>2. CASE cut = 0
      <4>1. top + T[top] = s BY <3>2, <1>5, <1>6, <1>3
      <4> QED BY <4>1, <2>3, <1>8
    <3>3. CASE cut = 8
      <4>1. top + T[top] = r BY <3>3, <1>5, <1>3
      <4> QED BY <4>1, <2>3, <1>8
    <3> QED BY <3>1, <3>2, <3>3, <1>3
  <2> QED BY <2>1, <2>2, <2>3
<1>16. Topped(T, new)
  <2>1. \A c \in DOMAIN T : c <= new BY <1>a, <1>4, <1>5
  <2> QED BY <2>1, <1>5 DEF Topped
<1>17. Tiled(T, M, Y, new) BY <1>10, <1>11, <1>14, <1>15, <1>16 DEF Tiled
<1> QED BY <1>17 DEF T, M, Y

\* Address and size of a chunk of a program or a bin.
LEMMA Sizes ==
    ASSUME NEW S, NEW N, NEW X, NEW top, NEW p \in N, Tiled(S, N, X, top)
    PROVE  /\ p \in Nat /\ p > 0 /\ p \in DOMAIN S /\ S[p] \in Nat /\ S[p] >= 16
           /\ p % 8 = 0 /\ S[p] % 8 = 0 /\ S[p] % 4 = 0 /\ p + S[p] \in DOMAIN S
           /\ p \notin X /\ p # top
BY DEF Tiled, Placed, Normal

\* Address and size of any chunk, and of top.
LEMMA Chunk ==
    ASSUME NEW S, NEW N, NEW X, NEW top, NEW p \in DOMAIN S, Tiled(S, N, X, top)
    PROVE  /\ p \in Nat /\ p > 0 /\ S[p] \in Nat /\ S[p] > 0 /\ S[p] % 4 = 0
           /\ p <= top /\ top \in Nat /\ top # 0 /\ top \in DOMAIN S
           /\ S[top] \in Nat /\ S[top] >= 16 /\ S[top] % 8 = 0 /\ top % 8 = 0
BY DEF Tiled, Placed, Topped

\* A chunk is a run of one.
LEMMA RunBase ==
    ASSUME NEW S, NEW N, NEW X, NEW top, NEW a \in N, Tiled(S, N, X, top)
    PROVE  OneRun(S, N, S, N, X, top, a, a + S[a])
<1>1. a \in Nat /\ S[a] \in Nat BY Sizes
<1>2. S[a] = (a + S[a]) - a BY <1>1
<1> QED BY <1>2 DEF OneRun, SameOutside

\* A run takes in the chunk behind it.
LEMMA RunMerge ==
    ASSUME NEW S, NEW N, NEW T, NEW M, NEW X, NEW top, NEW a, NEW e \in N,
           Tiled(S, N, X, top), OneRun(S, N, T, M, X, top, a, e)
    PROVE  OneRun(S, N, JoinS(T, a, e), M \ {e}, X, top, a, e + S[e])
<1> DEFINE P == JoinS(T, a, e)
<1>1. Tiled(T, M, X, top) /\ a \in N /\ a \in M /\ T[a] = e - a /\ SameOutside(S, N, T, M, a, e)
  BY DEF OneRun
<1>2. a \in Nat /\ a \in DOMAIN T /\ T[a] \in Nat /\ T[a] >= 16 BY <1>1, Sizes
<1>3. e \in Nat /\ e \in DOMAIN S /\ S[e] \in Nat /\ S[e] >= 16 BY Sizes
<1>4. e \in M /\ T[e] = S[e] /\ e \in DOMAIN T
  <2>1. e >= e BY <1>3
  <2> QED BY <2>1, <1>1, <1>3 DEF SameOutside
<1>5. a < e /\ e = a + T[a] /\ a # e BY <1>1, <1>2, <1>3
<1>6. Tiled(P, M \ {e}, X, top) BY <1>1, <1>4, <1>5, JoinTiled
<1>7. /\ DOMAIN P = DOMAIN T \ {e}
      /\ P[a] = T[a] + T[e]
      /\ \A c \in DOMAIN T \ {a, e} : P[c] = T[c]
  BY <1>2, <1>5 DEF JoinS, P
<1> HIDE DEF P
<1>8. P[a] = (e + S[e]) - a BY <1>7, <1>4, <1>1, <1>2, <1>3
<1>9. SameOutside(S, N, P, M \ {e}, a, e + S[e])
  <2> SUFFICES ASSUME NEW c, c < a \/ c >= e + S[e]
               PROVE  /\ c \in DOMAIN S <=> c \in DOMAIN P
                      /\ c \in N <=> c \in M \ {e}
                      /\ c \in DOMAIN S => P[c] = S[c]
    BY DEF SameOutside
  <2>0. c # e /\ c # a /\ e < e + S[e]
    BY <1>2, <1>3, <1>5
  <2>1. CASE c < a BY <2>1, <2>0, <1>1, <1>7 DEF SameOutside
  <2>2. CASE c >= e + S[e] /\ c \in DOMAIN S
    <3>1. c \in Nat BY <2>2, Chunk
    <3>2. c >= e BY <3>1, <2>2, <1>3
    <3> QED BY <3>2, <2>0, <1>1, <1>7 DEF SameOutside
  <2>3. CASE c >= e + S[e] /\ c \notin DOMAIN S
    <3>1. c \notin N BY <2>3, Sizes
    <3>2. c \notin DOMAIN T
      <4> SUFFICES ASSUME c \in DOMAIN T PROVE FALSE
        OBVIOUS
      <4>1. c \in Nat BY <1>1, Chunk
      <4>2. c >= e BY <4>1, <2>3, <1>3
      <4> QED BY <4>2, <2>3, <1>1 DEF SameOutside
    <3>3. c \notin M BY <3>2, <1>1, Sizes
    <3> QED BY <3>1, <3>2, <3>3, <2>3, <1>7
  <2> QED BY <2>1, <2>2, <2>3
<1>10. a \in M \ {e} BY <1>1, <1>5
<1>11. OneRun(S, N, P, M \ {e}, X, top, a, e + S[e]) BY <1>1, <1>6, <1>8, <1>9, <1>10 DEF OneRun
<1> QED BY <1>11 DEF P

\* A run may be cut in two.
LEMMA RunCut ==
    ASSUME NEW S, NEW N, NEW T, NEW M, NEW X, NEW top, NEW a, NEW e, NEW n \in Nat,
           Tiled(S, N, X, top), OneRun(S, N, T, M, X, top, a, e), e \in Nat,
           n >= 16, n % 8 = 0, e - a - n >= 16
    PROVE  TwoRun(S, N, CutS(T, a, n), M \union {a + n}, X, top, a, a + n, e)
<1> DEFINE P == CutS(T, a, n)
           r == a + n
<1>1. Tiled(T, M, X, top) /\ a \in N /\ a \in M /\ T[a] = e - a /\ SameOutside(S, N, T, M, a, e)
  BY DEF OneRun
<1>2. a \in Nat /\ a \in DOMAIN T /\ T[a] \in Nat /\ T[a] >= 16 /\ T[a] - n >= 16 BY <1>1, Sizes
<1>3. Tiled(P, M \union {r}, X, top) BY <1>1, <1>2, CutTiled
<1> HIDE DEF r
<1>4. r \in Nat /\ a < r /\ r < e /\ r = a + n BY <1>2 DEF r
<1>5. /\ DOMAIN P = DOMAIN T \union {r}
      /\ P[a] = n /\ P[r] = T[a] - n
      /\ \A c \in DOMAIN T \ {a, r} : P[c] = T[c]
  BY <1>2, <1>4 DEF CutS, P, r
<1> HIDE DEF P
<1>6. P[a] = r - a /\ P[r] = e - r BY <1>1, <1>2, <1>4, <1>5
<1>7. SameOutside(S, N, P, M \union {r}, a, e)
  <2> SUFFICES ASSUME NEW c, c < a \/ c >= e
               PROVE  /\ c \in DOMAIN S <=> c \in DOMAIN P
                      /\ c \in N <=> c \in M \union {r}
                      /\ c \in DOMAIN S => P[c] = S[c]
    BY DEF SameOutside
  <2>1. c # r /\ c # a BY <1>2, <1>4
  <2> QED BY <2>1, <1>1, <1>5 DEF SameOutside
<1> QED BY <1>1, <1>3, <1>6, <1>7 DEF TwoRun, P, r

\* Top is the last run.
LEMMA TopBase ==
    ASSUME NEW S, NEW N, NEW X, NEW top, Tiled(S, N, X, top), top # 0
    PROVE  TopRun(S, N, S, N, X, top, top + S[top])
<1>1. top \in Nat /\ top \in DOMAIN S BY DEF Tiled, Placed
<1>2. S[top] \in Nat BY <1>1, Chunk
<1>3. S[top] = (top + S[top]) - top BY <1>1, <1>2
<1>4. SameBelow(S, N, S, N, top) BY DEF SameBelow
<1> QED BY <1>3, <1>4 DEF TopRun

\* A run of chunks that ends at top becomes the new top.
LEMMA TopMerge ==
    ASSUME NEW S, NEW N, NEW T, NEW M, NEW X, NEW top, NEW a,
           Tiled(S, N, X, top), OneRun(S, N, T, M, X, top, a, top)
    PROVE  TopRun(S, N, JoinS(T, a, top), M \ {a}, X, a, top + S[top])
<1> DEFINE P == JoinS(T, a, top)
<1>1. Tiled(T, M, X, top) /\ a \in N /\ a \in M /\ T[a] = top - a /\ SameOutside(S, N, T, M, a, top)
  BY DEF OneRun
<1>2. a \in Nat /\ a \in DOMAIN T /\ T[a] \in Nat /\ T[a] >= 16 /\ a > 0 BY <1>1, Sizes
<1>3. top \in Nat /\ top # 0 /\ top \in DOMAIN T BY <1>1, <1>2, Chunk
<1>4. top \in DOMAIN S BY <1>3 DEF Tiled, Placed
<1>5. T[top] = S[top] /\ S[top] \in Nat
  <2>1. top >= top BY <1>3
  <2> QED BY <2>1, <1>4, <1>1, Chunk DEF SameOutside
<1>6. top = a + T[a] /\ a # top BY <1>1, <1>2, <1>3
<1>7. Tiled(P, M \ {a}, X, a) BY <1>1, <1>6, JoinTopTiled
<1>8. /\ DOMAIN P = DOMAIN T \ {top}
      /\ P[a] = T[a] + T[top]
      /\ \A c \in DOMAIN T \ {a, top} : P[c] = T[c]
  BY <1>2, <1>6 DEF JoinS, P
<1> HIDE DEF P
<1>9. P[a] = (top + S[top]) - a BY <1>8, <1>5, <1>1, <1>2, <1>3
<1>10. SameBelow(S, N, P, M \ {a}, a)
  <2> SUFFICES ASSUME NEW c, c < a
               PROVE  /\ c \in DOMAIN S <=> c \in DOMAIN P
                      /\ c \in N <=> c \in M \ {a}
                      /\ c \in DOMAIN S => P[c] = S[c]
    BY DEF SameBelow
  <2>1. c # top /\ c # a BY <1>1, <1>2, <1>3
  <2> QED BY <2>1, <1>1, <1>8 DEF SameOutside
<1>11. TopRun(S, N, P, M \ {a}, X, a, top + S[top]) BY <1>2, <1>7, <1>9, <1>10 DEF TopRun
<1> QED BY <1>11 DEF P

\* The front of the last run may be cut off, as a chunk in use.
LEMMA TopCut ==
    ASSUME NEW S, NEW N, NEW T, NEW M, NEW X, NEW a, NEW e, NEW n \in Nat, e \in Nat,
           TopRun(S, N, T, M, X, a, e), n >= 16, n % 8 = 0, e - a - n >= 16
    PROVE  TopTwo(S, N, CutS(T, a, n), M \union {a}, X, a, a + n, e)
<1> DEFINE P == CutS(T, a, n)
           r == a + n
<1>1. Tiled(T, M, X, a) /\ a # 0 /\ T[a] = e - a /\ SameBelow(S, N, T, M, a) BY DEF TopRun
<1>2. a \in DOMAIN T /\ a \in Nat /\ a > 0 /\ T[a] \in Nat /\ T[a] - n >= 16
  <2>1. a \in DOMAIN T BY <1>1 DEF Tiled, Placed
  <2> QED BY <2>1, <1>1, Chunk
<1>3. Tiled(P, M \union {a}, X, r) BY <1>1, <1>2, CutTopTiled
<1> HIDE DEF r
<1>4. r \in Nat /\ a < r /\ r < e /\ r = a + n BY <1>2 DEF r
<1>5. /\ DOMAIN P = DOMAIN T \union {r}
      /\ P[a] = n /\ P[r] = T[a] - n
      /\ \A c \in DOMAIN T \ {a, r} : P[c] = T[c]
  BY <1>2, <1>4 DEF CutS, P, r
<1> HIDE DEF P
<1>6. P[a] = r - a /\ P[r] = e - r BY <1>1, <1>2, <1>4, <1>5
<1>7. SameBelow(S, N, P, M \union {a}, a)
  <2> SUFFICES ASSUME NEW c, c < a
               PROVE  /\ c \in DOMAIN S <=> c \in DOMAIN P
                      /\ c \in N <=> c \in M \union {a}
                      /\ c \in DOMAIN S => P[c] = S[c]
    BY DEF SameBelow
  <2>1. c # r /\ c # a BY <1>2, <1>4
  <2> QED BY <2>1, <1>1, <1>5 DEF SameBelow
<1> QED BY <1>3, <1>6, <1>7 DEF TopTwo, P, r

\* The end of the last run may move.
LEMMA TopResize ==
    ASSUME NEW S, NEW N, NEW T, NEW M, NEW X, NEW a, NEW e, NEW n \in Nat,
           TopRun(S, N, T, M, X, a, e), n >= 16, n % 8 = 0
    PROVE  TopRun(S, N, ResizeS(T, a, n), M, X, a, a + n)
<1> DEFINE P == ResizeS(T, a, n)
<1>1. Tiled(T, M, X, a) /\ a # 0 /\ SameBelow(S, N, T, M, a) BY DEF TopRun
<1>2. a \in DOMAIN T /\ a \in Nat /\ a > 0
  <2>1. a \in DOMAIN T BY <1>1 DEF Tiled, Placed
  <2> QED BY <2>1, <1>1, Chunk
<1>3. Tiled(P, M, X, a) BY <1>1, ResizeTiled
<1>4. /\ DOMAIN P = DOMAIN T /\ P[a] = n
      /\ \A c \in DOMAIN T \ {a} : P[c] = T[c]
  BY <1>2 DEF ResizeS, P
<1> HIDE DEF P
<1>5. P[a] = (a + n) - a BY <1>2, <1>4
<1>6. SameBelow(S, N, P, M, a)
  <2>1. \A c : c < a => c # a BY <1>2
  <2> QED BY <2>1, <1>1, <1>4 DEF SameBelow
<1>7. TopRun(S, N, P, M, X, a, a + n) BY <1>1, <1>3, <1>5, <1>6 DEF TopRun
<1> QED BY <1>7 DEF P

-----------------------------------------------------------------------------
(* The words that encode the chunks: sizes, PREV_INUSE and feet.            *)

FreeBefore(S, F, c) == \E q \in F : q + S[q] = c
Bit(S, F, c) == IF FreeBefore(S, F, c) THEN 0 ELSE 1

\* The words of h say what the chunks are.
Encoded(h, S, F) ==
    /\ \A c \in DOMAIN S : HeadOf(h, c) = S[c] + Bit(S, F, c)
    /\ \A p \in F : Word(h, p + S[p]) = S[p]

SameFree(F, G, a, e) == \A c : c < a \/ c >= e => (c \in F <=> c \in G)
FreeBelow(F, G, a) == \A c : c < a => (c \in F <=> c \in G)
LocalWords(h, g, a, e) ==
    \A x \in Nat : x < a + 4 \/ x > e + 4 => Word(g, x) = Word(h, x)
WordsBelow(h, g, a) == \A x \in Nat : x < a + 4 => Word(g, x) = Word(h, x)

\* At most one chunk ends where another does.
LEMMA OneBefore ==
    ASSUME NEW S, NEW N, NEW X, NEW top, NEW p \in DOMAIN S, NEW q \in DOMAIN S,
           Tiled(S, N, X, top), q + S[q] = p + S[p]
    PROVE  q = p
<1>1. p \in Nat /\ q \in Nat /\ S[p] \in Nat /\ S[q] \in Nat /\ S[p] > 0 /\ S[q] > 0 BY Chunk
<1>2. q < p => q + S[q] <= p BY DEF Tiled, Apart
<1>3. p < q => p + S[p] <= q BY DEF Tiled, Apart
<1> QED BY <1>1, <1>2, <1>3

\* The chunk before the next one is the chunk itself.
LEMMA BeforeNext ==
    ASSUME NEW S, NEW N, NEW X, NEW top, NEW F, NEW p \in DOMAIN S,
           Tiled(S, N, X, top), F \subseteq N
    PROVE  FreeBefore(S, F, p + S[p]) <=> p \in F
<1>1. p \in F => FreeBefore(S, F, p + S[p]) BY DEF FreeBefore
<1>2. ASSUME FreeBefore(S, F, p + S[p]) PROVE p \in F
  <2>1. PICK q \in F : q + S[q] = p + S[p] BY <1>2 DEF FreeBefore
  <2>2. q \in DOMAIN S BY Sizes
  <2>3. q = p BY <2>1, <2>2, OneBefore
  <2> QED BY <2>1, <2>3
<1> QED BY <1>1, <1>2

\* What the size word of a chunk says: chunksize(), prev_inuse().
LEMMA ReadHead ==
    ASSUME NEW h, NEW S, NEW N, NEW X, NEW top, NEW F, NEW c \in DOMAIN S,
           Tiled(S, N, X, top), Encoded(h, S, F)
    PROVE  /\ chunksize(h, c) = S[c]
           /\ prev_inuse(h, c) <=> ~FreeBefore(S, F, c)
           /\ HeadOf(h, c) % 2 = Bit(S, F, c)
           /\ (HeadOf(h, c) \div 2) * 2 + 1 = S[c] + 1
           /\ Bit(S, F, c) \in {0, 1}
<1> DEFINE w == HeadOf(h, c)
           b == Bit(S, F, c)
           s == S[c]
<1>1. w = s + b BY DEF Encoded
<1>2. b = 0 \/ b = 1 BY DEF Bit
<1>3. s \in Nat /\ s % 4 = 0 /\ c # 0 BY Chunk
<1> HIDE DEF w, b, s
<1>4. (w \div 4) * 4 = s /\ w % 2 = b /\ (w \div 2) * 2 + 1 = s + 1
  <2>1. CASE b = 0 BY <2>1, <1>1, <1>3
  <2>2. CASE b = 1 BY <2>2, <1>1, <1>3
  <2> QED BY <2>1, <2>2, <1>2
<1>5. chunksize(h, c) = s BY <1>3, <1>4 DEF chunksize, w, InitialTop
<1>6. prev_inuse(h, c) <=> b = 1 BY <1>4 DEF prev_inuse, w
<1>7. b = 1 <=> ~FreeBefore(S, F, c) BY DEF b, Bit
<1> QED BY <1>2, <1>4, <1>5, <1>6, <1>7 DEF w, b, s

\* What do_check_inuse_chunk() and free() ask of a chunk's neighbour.
LEMMA ReadInuse ==
    ASSUME NEW h, NEW S, NEW N, NEW X, NEW top, NEW F, NEW p \in DOMAIN S,
           Tiled(S, N, X, top), Encoded(h, S, F), F \subseteq N, p + S[p] \in DOMAIN S
    PROVE  inuse(h, p) <=> p \notin F
<1>1. next_chunk(h, p) = p + S[p] BY ReadHead DEF next_chunk
<1>2. prev_inuse(h, p + S[p]) <=> ~FreeBefore(S, F, p + S[p]) BY ReadHead
<1>3. FreeBefore(S, F, p + S[p]) <=> p \in F BY BeforeNext
<1> QED BY <1>1, <1>2, <1>3 DEF inuse

\* The chunk that ends where p begins is free: its size is in the word before p.
LEMMA ReadBack ==
    ASSUME NEW h, NEW S, NEW N, NEW X, NEW top, NEW F, NEW p \in DOMAIN S,
           Tiled(S, N, X, top), Encoded(h, S, F), F \subseteq N, ~prev_inuse(h, p)
    PROVE  \E q \in F : /\ p - Word(h, p) = q /\ q + S[q] = p /\ Word(h, p) = S[q] /\ q < p
<1>1. FreeBefore(S, F, p) BY ReadHead
<1>2. PICK q \in F : q + S[q] = p BY <1>1 DEF FreeBefore
<1>3. Word(h, p) = S[q] BY <1>2 DEF Encoded
<1>4. q \in Nat /\ S[q] \in Nat /\ S[q] >= 16 BY Sizes
<1> QED BY <1>2, <1>3, <1>4

\* PREV_INUSE of the chunks outside a run is as before.
LEMMA BitOutside ==
    ASSUME NEW S, NEW N, NEW X, NEW top, NEW T, NEW M, NEW F, NEW G, NEW a, NEW e,
           NEW c \in DOMAIN S,
           Tiled(S, N, X, top), Tiled(T, M, X, top), SameOutside(S, N, T, M, a, e),
           F \subseteq N, G \subseteq M, SameFree(F, G, a, e),
           e \in DOMAIN S, a \in DOMAIN S, a < e, c <= a \/ c > e
    PROVE  Bit(T, G, c) = Bit(S, F, c)
<1>0. /\ a \in Nat /\ e \in Nat /\ c \in Nat
      /\ e \in DOMAIN T
  <2>1. a \in Nat /\ e \in Nat /\ c \in Nat BY Chunk
  <2>2. e >= e BY <2>1
  <2> QED BY <2>1, <2>2 DEF SameOutside
<1>1. ASSUME NEW q \in F, q + S[q] = c PROVE q \in G /\ q + T[q] = c
  <2>1. q \in DOMAIN S /\ q \in Nat /\ S[q] \in Nat /\ S[q] >= 16 BY Sizes
  <2>2. q < a \/ q >= e
    <3>1. CASE c <= a BY <3>1, <2>1, <1>0, <1>1
    <3>2. CASE c > e
      <4>1. q < e => q + S[q] <= e BY <2>1 DEF Tiled, Apart
      <4> QED BY <4>1, <3>2, <2>1, <1>0, <1>1
    <3> QED BY <3>1, <3>2
  <2> QED BY <2>1, <2>2, <1>1 DEF SameOutside, SameFree
<1>2. ASSUME NEW q \in G, q + T[q] = c PROVE q \in F /\ q + S[q] = c
  <2>1. q \in DOMAIN T /\ q \in Nat /\ T[q] \in Nat /\ T[q] >= 16 BY Sizes
  <2>2. q < a \/ q >= e
    <3>1. CASE c <= a BY <3>1, <2>1, <1>0, <1>2
    <3>2. CASE c > e
      <4>1. q < e => q + T[q] <= e BY <2>1, <1>0 DEF Tiled, Apart
      <4> QED BY <4>1, <3>2, <2>1, <1>0, <1>2
    <3> QED BY <3>1, <3>2
  <2> QED BY <2>1, <2>2, <1>2 DEF SameOutside, SameFree
<1>3. FreeBefore(S, F, c) <=> FreeBefore(T, G, c) BY <1>1, <1>2 DEF FreeBefore
<1> QED BY <1>3 DEF Bit

\* PREV_INUSE of the chunks below a new top is as before.
LEMMA BitBelow ==
    ASSUME NEW S, NEW N, NEW X, NEW top, NEW T, NEW M, NEW Y, NEW newtop, NEW F, NEW G,
           NEW a \in Nat,
           NEW c \in Nat,
           Tiled(S, N, X, top), Tiled(T, M, Y, newtop), SameBelow(S, N, T, M, a),
           F \subseteq N, G \subseteq M, FreeBelow(F, G, a), c <= a
    PROVE  Bit(T, G, c) = Bit(S, F, c)
<1>1. ASSUME NEW q \in F, q + S[q] = c PROVE q \in G /\ q + T[q] = c
  <2>1. q \in DOMAIN S /\ q \in Nat /\ S[q] \in Nat /\ S[q] >= 16 BY Sizes
  <2>2. q < a BY <2>1, <1>1
  <2> QED BY <2>1, <2>2, <1>1 DEF SameBelow, FreeBelow
<1>2. ASSUME NEW q \in G, q + T[q] = c PROVE q \in F /\ q + S[q] = c
  <2>1. q \in DOMAIN T /\ q \in Nat /\ T[q] \in Nat /\ T[q] >= 16 BY Sizes
  <2>2. q < a BY <2>1, <1>2
  <2> QED BY <2>1, <2>2, <1>2 DEF SameBelow, FreeBelow
<1>3. FreeBefore(S, F, c) <=> FreeBefore(T, G, c) BY <1>1, <1>2 DEF FreeBefore
<1> QED BY <1>3 DEF Bit

\* The words that a chunk [a, e) needs, or two chunks [a, r) and [r, e) of
\* which the first is in use.
OneHeads(g, S, F, a, e, free) ==
    /\ HeadOf(g, a) = (e - a) + Bit(S, F, a)
    /\ HeadOf(g, e) = S[e] + (IF free THEN 0 ELSE 1)
    /\ free => Word(g, e) = e - a
TwoHeads(g, S, F, a, r, e, free) ==
    /\ HeadOf(g, a) = (r - a) + Bit(S, F, a)
    /\ HeadOf(g, r) = (e - r) + 1
    /\ HeadOf(g, e) = S[e] + (IF free THEN 0 ELSE 1)
    /\ free => Word(g, e) = e - r
TopHeads(g, S, F, a, e) == HeadOf(g, a) = (e - a) + Bit(S, F, a)
TopTwoHeads(g, S, F, a, r, e) ==
    HeadOf(g, a) = (r - a) + Bit(S, F, a) /\ HeadOf(g, r) = (e - r) + 1

\* The chunks outside a run are encoded as before.
LEMMA OutsideEncoded ==
    ASSUME NEW h, NEW g, NEW S, NEW N, NEW X, NEW top, NEW T, NEW M, NEW F, NEW G, NEW a, NEW e,
           Tiled(S, N, X, top), Tiled(T, M, X, top), SameOutside(S, N, T, M, a, e),
           F \subseteq N, G \subseteq M, SameFree(F, G, a, e),
           e \in DOMAIN S, a \in DOMAIN S, a < e, Encoded(h, S, F), LocalWords(h, g, a, e)
    PROVE  /\ \A c \in DOMAIN T : c < a \/ c > e => HeadOf(g, c) = T[c] + Bit(T, G, c)
           /\ \A p \in G : p < a \/ p >= e => Word(g, p + T[p]) = T[p]
<1>1. a \in Nat /\ e \in Nat BY Chunk
<1>2. ASSUME NEW c \in DOMAIN T, c < a \/ c > e PROVE HeadOf(g, c) = T[c] + Bit(T, G, c)
  <2>1. c \in Nat BY Chunk
  <2>2. c < a \/ c >= e BY <2>1, <1>1, <1>2
  <2>3. c \in DOMAIN S /\ T[c] = S[c] BY <2>2 DEF SameOutside
  <2>4. c <= a \/ c > e BY <2>1, <1>1, <1>2
  <2>5. Bit(T, G, c) = Bit(S, F, c) BY <2>3, <2>4, BitOutside
  <2>6. c + 4 \in Nat /\ (c + 4 < a + 4 \/ c + 4 > e + 4) BY <2>1, <1>1, <1>2
  <2>7. Word(g, c + 4) = Word(h, c + 4) BY <2>6 DEF LocalWords
  <2>8. HeadOf(g, c) = HeadOf(h, c) BY <2>7 DEF HeadOf, SIZE_SZ
  <2>9. HeadOf(h, c) = S[c] + Bit(S, F, c) BY <2>3 DEF Encoded
  <2> QED BY <2>3, <2>5, <2>8, <2>9
<1>3. ASSUME NEW p \in G, p < a \/ p >= e PROVE Word(g, p + T[p]) = T[p]
  <2>1. p \in F BY <1>3 DEF SameFree
  <2>2. p \in DOMAIN S /\ p \in Nat /\ S[p] \in Nat /\ S[p] >= 16 BY <2>1, Sizes
  <2>3. T[p] = S[p] BY <2>2, <1>3 DEF SameOutside
  <2>4. p < a => p + S[p] <= a BY <2>2 DEF Tiled, Apart
  <2>5. p + S[p] \in Nat /\ (p + S[p] < a + 4 \/ p + S[p] > e + 4) BY <2>2, <2>4, <1>1, <1>3
  <2>6. Word(g, p + S[p]) = Word(h, p + S[p]) BY <2>5 DEF LocalWords
  <2>7. Word(h, p + S[p]) = S[p] BY <2>1 DEF Encoded
  <2> QED BY <2>3, <2>6, <2>7
<1> QED BY <1>2, <1>3

\* Three words suffice to make a run one chunk.
LEMMA OneEncoded ==
    ASSUME NEW h, NEW g, NEW S, NEW N, NEW X, NEW top, NEW T, NEW M, NEW F, NEW G, NEW a, NEW e,
           Tiled(S, N, X, top), OneRun(S, N, T, M, X, top, a, e),
           F \subseteq N, G \subseteq M, SameFree(F, G, a, e),
           e \in DOMAIN S, Encoded(h, S, F), LocalWords(h, g, a, e),
           OneHeads(g, S, F, a, e, a \in G)
    PROVE  Encoded(g, T, G)
<1>1. Tiled(T, M, X, top) /\ a \in N /\ a \in M /\ T[a] = e - a /\ SameOutside(S, N, T, M, a, e)
  BY DEF OneRun
<1>2. a \in DOMAIN S /\ a \in Nat /\ a \in DOMAIN T /\ T[a] \in Nat /\ T[a] >= 16 BY <1>1, Sizes
<1>3. e \in Nat BY Chunk
<1>4. a < e /\ a + T[a] = e BY <1>1, <1>2, <1>3
<1>5. e \in DOMAIN T /\ T[e] = S[e]
  <2>1. e >= e BY <1>3
  <2> QED BY <2>1, <1>1 DEF SameOutside
<1>6. /\ \A c \in DOMAIN T : c < a \/ c > e => HeadOf(g, c) = T[c] + Bit(T, G, c)
      /\ \A p \in G : p < a \/ p >= e => Word(g, p + T[p]) = T[p]
  BY <1>1, <1>2, <1>4, OutsideEncoded
<1>7. \A c \in DOMAIN T : c <= a \/ c >= e
  <2> TAKE c \in DOMAIN T
  <2>0. c \in Nat BY <1>1, Chunk
  <2>1. a < c => e <= c
    <3>1. a < c => a + T[a] <= c BY <1>1, <1>2 DEF Tiled, Apart
    <3> QED BY <3>1, <1>4
  <2> QED BY <2>0, <2>1, <1>2, <1>3
<1>8. HeadOf(g, a) = T[a] + Bit(T, G, a)
  <2>1. Bit(T, G, a) = Bit(S, F, a)
    <3>1. a <= a BY <1>2
    <3> QED BY <3>1, <1>1, <1>2, <1>4, BitOutside
  <2> QED BY <2>1, <1>1 DEF OneHeads
<1>9. HeadOf(g, e) = T[e] + Bit(T, G, e)
  <2>1. FreeBefore(T, G, a + T[a]) <=> a \in G BY <1>1, <1>2, BeforeNext
  <2>2. FreeBefore(T, G, e) <=> a \in G BY <2>1, <1>4
  <2>3. Bit(T, G, e) = IF a \in G THEN 0 ELSE 1 BY <2>2 DEF Bit
  <2> QED BY <2>3, <1>5 DEF OneHeads
<1>10. \A c \in DOMAIN T : HeadOf(g, c) = T[c] + Bit(T, G, c)
  <2> TAKE c \in DOMAIN T
  <2>1. c \in Nat BY <1>1, Chunk
  <2>2. c = a \/ c = e \/ c < a \/ c > e BY <2>1, <1>2, <1>3, <1>7
  <2> QED BY <2>2, <1>6, <1>8, <1>9
<1>11. \A p \in G : Word(g, p + T[p]) = T[p]
  <2> TAKE p \in G
  <2>1. p \in Nat /\ p \in DOMAIN T BY <1>1, Sizes
  <2>2. p = a \/ p < a \/ p >= e BY <2>1, <1>2, <1>3, <1>7
  <2>3. CASE p = a
    <3>1. Word(g, e) = e - a BY <2>3 DEF OneHeads
    <3> QED BY <3>1, <2>3, <1>1, <1>4
  <2> QED BY <2>2, <2>3, <1>6
<1> QED BY <1>10, <1>11 DEF Encoded

\* Four words suffice to make a run two chunks.
LEMMA TwoEncoded ==
    ASSUME NEW h, NEW g, NEW S, NEW N, NEW X, NEW top, NEW T, NEW M, NEW F, NEW G, NEW a,
           NEW r, NEW e,
           Tiled(S, N, X, top), TwoRun(S, N, T, M, X, top, a, r, e),
           F \subseteq N, G \subseteq M, SameFree(F, G, a, e), a \notin G,
           e \in DOMAIN S, Encoded(h, S, F), LocalWords(h, g, a, e),
           TwoHeads(g, S, F, a, r, e, r \in G)
    PROVE  Encoded(g, T, G)
<1>1. /\ Tiled(T, M, X, top) /\ a \in N /\ a \in M /\ r \in M /\ T[a] = r - a /\ T[r] = e - r
      /\ SameOutside(S, N, T, M, a, e)
  BY DEF TwoRun
<1>2. a \in DOMAIN S /\ a \in Nat /\ a \in DOMAIN T /\ T[a] \in Nat /\ T[a] >= 16 BY <1>1, Sizes
<1>2b. r \in Nat /\ r \in DOMAIN T /\ T[r] \in Nat /\ T[r] >= 16 BY <1>1, Sizes
<1>3. e \in Nat BY Chunk
<1>4. a < r /\ r < e /\ a < e /\ a + T[a] = r /\ r + T[r] = e BY <1>1, <1>2, <1>2b, <1>3
<1>5. e \in DOMAIN T /\ T[e] = S[e]
  <2>1. e >= e BY <1>3
  <2> QED BY <2>1, <1>1 DEF SameOutside
<1>6. /\ \A c \in DOMAIN T : c < a \/ c > e => HeadOf(g, c) = T[c] + Bit(T, G, c)
      /\ \A p \in G : p < a \/ p >= e => Word(g, p + T[p]) = T[p]
  BY <1>1, <1>2, <1>4, OutsideEncoded
<1>7. \A c \in DOMAIN T : c <= a \/ c = r \/ c >= e
  <2> TAKE c \in DOMAIN T
  <2>0. c \in Nat BY <1>1, Chunk
  <2>1. a < c => r <= c
    <3>1. a < c => a + T[a] <= c BY <1>1, <1>2 DEF Tiled, Apart
    <3> QED BY <3>1, <1>4
  <2>2. r < c => e <= c
    <3>1. r < c => r + T[r] <= c BY <1>1, <1>2b DEF Tiled, Apart
    <3> QED BY <3>1, <1>4
  <2> QED BY <2>0, <2>1, <2>2, <1>2, <1>2b, <1>3
<1>8. HeadOf(g, a) = T[a] + Bit(T, G, a)
  <2>1. Bit(T, G, a) = Bit(S, F, a)
    <3>1. a <= a BY <1>2
    <3> QED BY <3>1, <1>1, <1>2, <1>4, BitOutside
  <2> QED BY <2>1, <1>1 DEF TwoHeads
<1>9. HeadOf(g, e) = T[e] + Bit(T, G, e)
  <2>1. FreeBefore(T, G, r + T[r]) <=> r \in G BY <1>1, <1>2b, BeforeNext
  <2>2. FreeBefore(T, G, e) <=> r \in G BY <2>1, <1>4
  <2>3. Bit(T, G, e) = IF r \in G THEN 0 ELSE 1 BY <2>2 DEF Bit
  <2> QED BY <2>3, <1>5 DEF TwoHeads
<1>9b. HeadOf(g, r) = T[r] + Bit(T, G, r)
  <2>1. FreeBefore(T, G, a + T[a]) <=> a \in G BY <1>1, <1>2, BeforeNext
  <2>2. ~FreeBefore(T, G, r) BY <2>1, <1>4
  <2>3. Bit(T, G, r) = 1 BY <2>2 DEF Bit
  <2> QED BY <2>3, <1>1 DEF TwoHeads
<1>10. \A c \in DOMAIN T : HeadOf(g, c) = T[c] + Bit(T, G, c)
  <2> TAKE c \in DOMAIN T
  <2>1. c \in Nat BY <1>1, Chunk
  <2>2. c = a \/ c = r \/ c = e \/ c < a \/ c > e BY <2>1, <1>2, <1>3, <1>7
  <2> QED BY <2>2, <1>6, <1>8, <1>9, <1>9b
<1>11. \A p \in G : Word(g, p + T[p]) = T[p]
  <2> TAKE p \in G
  <2>1. p \in Nat /\ p \in DOMAIN T /\ p # a BY <1>1, Sizes
  <2>2. p = r \/ p < a \/ p >= e BY <2>1, <1>2, <1>3, <1>7
  <2>3. CASE p = r
    <3>1. Word(g, e) = e - r BY <2>3 DEF TwoHeads
    <3> QED BY <3>1, <2>3, <1>1, <1>4
  <2> QED BY <2>2, <2>3, <1>6
<1> QED BY <1>10, <1>11 DEF Encoded

\* The chunks below a new top are encoded as before.
LEMMA BelowEncoded ==
    ASSUME NEW h, NEW g, NEW S, NEW N, NEW X, NEW top, NEW T, NEW M, NEW Y, NEW newtop,
           NEW F, NEW G, NEW a \in DOMAIN S,
           Tiled(S, N, X, top), Tiled(T, M, Y, newtop), SameBelow(S, N, T, M, a),
           F \subseteq N, G \subseteq M, FreeBelow(F, G, a),
           Encoded(h, S, F), WordsBelow(h, g, a)
    PROVE  /\ \A c \in DOMAIN T : c < a => HeadOf(g, c) = T[c] + Bit(T, G, c)
           /\ \A p \in G : p < a => Word(g, p + T[p]) = T[p]
           /\ Bit(T, G, a) = Bit(S, F, a)
<1>1. a \in Nat BY Chunk
<1>2. ASSUME NEW c \in DOMAIN T, c < a PROVE HeadOf(g, c) = T[c] + Bit(T, G, c)
  <2>1. c \in Nat BY Chunk
  <2>3. c \in DOMAIN S /\ T[c] = S[c] BY <1>2 DEF SameBelow
  <2>4. c <= a BY <2>1, <1>1, <1>2
  <2>5. Bit(T, G, c) = Bit(S, F, c) BY <2>1, <2>4, <1>1, BitBelow
  <2>6. c + 4 \in Nat /\ c + 4 < a + 4 BY <2>1, <1>1, <1>2
  <2>7. Word(g, c + 4) = Word(h, c + 4) BY <2>6 DEF WordsBelow
  <2>8. HeadOf(g, c) = HeadOf(h, c) BY <2>7 DEF HeadOf, SIZE_SZ
  <2>9. HeadOf(h, c) = S[c] + Bit(S, F, c) BY <2>3 DEF Encoded
  <2> QED BY <2>3, <2>5, <2>8, <2>9
<1>3. ASSUME NEW p \in G, p < a PROVE Word(g, p + T[p]) = T[p]
  <2>1. p \in F BY <1>3 DEF FreeBelow
  <2>2. p \in DOMAIN S /\ p \in Nat /\ S[p] \in Nat /\ S[p] >= 16 BY <2>1, Sizes
  <2>3. T[p] = S[p] BY <2>2, <1>3 DEF SameBelow
  <2>4. p + S[p] <= a BY <2>2, <1>3 DEF Tiled, Apart
  <2>5. p + S[p] \in Nat /\ p + S[p] < a + 4 BY <2>2, <2>4, <1>1
  <2>6. Word(g, p + S[p]) = Word(h, p + S[p]) BY <2>5 DEF WordsBelow
  <2>7. Word(h, p + S[p]) = S[p] BY <2>1 DEF Encoded
  <2> QED BY <2>3, <2>6, <2>7
<1>4. a <= a BY <1>1
<1>5. Bit(T, G, a) = Bit(S, F, a) BY <1>1, <1>4, BitBelow
<1> QED BY <1>2, <1>3, <1>5

\* One word suffices for a new top.
LEMMA TopEncoded ==
    ASSUME NEW h, NEW g, NEW S, NEW N, NEW X, NEW top, NEW T, NEW M, NEW F, NEW G,
           NEW a \in DOMAIN S, NEW e,
           Tiled(S, N, X, top), TopRun(S, N, T, M, X, a, e),
           F \subseteq N, G \subseteq M, FreeBelow(F, G, a),
           Encoded(h, S, F), WordsBelow(h, g, a), TopHeads(g, S, F, a, e)
    PROVE  Encoded(g, T, G)
<1>1. Tiled(T, M, X, a) /\ a # 0 /\ T[a] = e - a /\ SameBelow(S, N, T, M, a) BY DEF TopRun
<1>2. a \in Nat BY Chunk
<1>3. /\ \A c \in DOMAIN T : c < a => HeadOf(g, c) = T[c] + Bit(T, G, c)
      /\ \A p \in G : p < a => Word(g, p + T[p]) = T[p]
      /\ Bit(T, G, a) = Bit(S, F, a)
  BY <1>1, BelowEncoded
<1>4. HeadOf(g, a) = T[a] + Bit(T, G, a) BY <1>1, <1>3 DEF TopHeads
<1>5. \A c \in DOMAIN T : HeadOf(g, c) = T[c] + Bit(T, G, c)
  <2> TAKE c \in DOMAIN T
  <2>1. c \in Nat /\ c <= a BY <1>1, Chunk
  <2>2. c = a \/ c < a BY <2>1, <1>2
  <2> QED BY <2>2, <1>3, <1>4
<1>6. \A p \in G : Word(g, p + T[p]) = T[p]
  <2> TAKE p \in G
  <2>1. p \in Nat /\ p \in DOMAIN T /\ p # a BY <1>1, Sizes
  <2>2. p <= a BY <2>1, <1>1, Chunk
  <2>3. p < a BY <2>1, <2>2, <1>2
  <2> QED BY <2>3, <1>3
<1> QED BY <1>5, <1>6 DEF Encoded

\* Two words suffice for a chunk in use and a new top.
LEMMA TopTwoEncoded ==
    ASSUME NEW h, NEW g, NEW S, NEW N, NEW X, NEW top, NEW T, NEW M, NEW F, NEW G,
           NEW a \in DOMAIN S, NEW r, NEW e,
           Tiled(S, N, X, top), TopTwo(S, N, T, M, X, a, r, e),
           F \subseteq N, G \subseteq M, FreeBelow(F, G, a), a \notin G,
           Encoded(h, S, F), WordsBelow(h, g, a), TopTwoHeads(g, S, F, a, r, e)
    PROVE  Encoded(g, T, G)
<1>1. /\ Tiled(T, M, X, r) /\ a \in M /\ T[a] = r - a /\ T[r] = e - r /\ SameBelow(S, N, T, M, a)
  BY DEF TopTwo
<1>2. a \in Nat /\ a \in DOMAIN T /\ T[a] \in Nat /\ T[a] >= 16 BY <1>1, Sizes
<1>2b. r \in Nat /\ r \in DOMAIN T /\ T[r] \in Nat
  <2>1. r \in Nat /\ r \in DOMAIN T BY <1>1, <1>2, Chunk
  <2> QED BY <2>1, <1>1, Chunk
<1>2c. a < r /\ a + T[a] = r BY <1>1, <1>2, <1>2b
<1>3. /\ \A c \in DOMAIN T : c < a => HeadOf(g, c) = T[c] + Bit(T, G, c)
      /\ \A p \in G : p < a => Word(g, p + T[p]) = T[p]
      /\ Bit(T, G, a) = Bit(S, F, a)
  BY <1>1, BelowEncoded
<1>4. HeadOf(g, a) = T[a] + Bit(T, G, a) BY <1>1, <1>3 DEF TopTwoHeads
<1>4b. HeadOf(g, r) = T[r] + Bit(T, G, r)
  <2>1. FreeBefore(T, G, a + T[a]) <=> a \in G BY <1>1, <1>2, BeforeNext
  <2>2. ~FreeBefore(T, G, r) BY <2>1, <1>2c
  <2>3. Bit(T, G, r) = 1 BY <2>2 DEF Bit
  <2> QED BY <2>3, <1>1 DEF TopTwoHeads
<1>4c. \A c \in DOMAIN T : c < a \/ c = a \/ c = r
  <2> TAKE c \in DOMAIN T
  <2>1. c \in Nat /\ c <= r BY <1>1, Chunk
  <2>2. a < c => r <= c
    <3>1. a < c => a + T[a] <= c BY <1>1, <1>2 DEF Tiled, Apart
    <3> QED BY <3>1, <1>2c
  <2> QED BY <2>1, <2>2, <1>2, <1>2b
<1>5. \A c \in DOMAIN T : HeadOf(g, c) = T[c] + Bit(T, G, c)
  BY <1>3, <1>4, <1>4b, <1>4c
<1>6. \A p \in G : Word(g, p + T[p]) = T[p]
  <2> TAKE p \in G
  <2>1. p \in DOMAIN T /\ p # a /\ p # r BY <1>1, Sizes
  <2>2. p < a BY <2>1, <1>4c
  <2> QED BY <2>2, <1>3
<1> QED BY <1>5, <1>6 DEF Encoded

-----------------------------------------------------------------------------
(* No two free chunks side by side, and blocks that are kept.               *)

\* No free chunk borders a free chunk or top.
NoTwoFree(S, F, top) == \A p \in F : p + S[p] \notin F /\ p + S[p] # top

\* The words of the blocks in V are as they were.
Kept(h, g, S, T, V) ==
    \A p \in V : /\ T[p] = S[p]
                 /\ \A x \in Nat : p + 8 <= x /\ x < p + S[p] + 4 => Word(g, x) = Word(h, x)

Outside(V, a, e) == \A p \in V : p < a \/ p >= e
Below(V, a) == \A p \in V : p < a

\* A run that becomes one chunk borders no free chunk, if free.
LEMMA OneNoTwo ==
    ASSUME NEW S, NEW N, NEW X, NEW top, NEW T, NEW M, NEW F, NEW G, NEW a, NEW e,
           Tiled(S, N, X, top), OneRun(S, N, T, M, X, top, a, e),
           F \subseteq N, G \subseteq M, SameFree(F, G, a, e),
           e \in DOMAIN S, NoTwoFree(S, F, top),
           a \in G => ~FreeBefore(S, F, a) /\ e \notin F /\ e # top
    PROVE  NoTwoFree(T, G, top)
<1>1. Tiled(T, M, X, top) /\ a \in N /\ a \in M /\ T[a] = e - a /\ SameOutside(S, N, T, M, a, e)
  BY DEF OneRun
<1>2. a \in DOMAIN S /\ a \in Nat /\ a \in DOMAIN T /\ T[a] \in Nat /\ T[a] >= 16 BY <1>1, Sizes
<1>3. e \in Nat BY Chunk
<1>4. a < e /\ a + T[a] = e BY <1>1, <1>2, <1>3
<1>5. e \in G => e \in F
  <2>1. e >= e BY <1>3
  <2> QED BY <2>1 DEF SameFree
<1> SUFFICES ASSUME NEW p \in G PROVE p + T[p] \notin G /\ p + T[p] # top
  BY DEF NoTwoFree
<1>6. p \in Nat /\ p \in DOMAIN T /\ T[p] \in Nat /\ T[p] >= 16 BY <1>1, Sizes
<1>7. CASE p = a BY <1>7, <1>4, <1>5
<1>8. CASE p # a
  <2>1. p < a \/ p >= e
    <3>1. a < p => a + T[a] <= p BY <1>1, <1>2, <1>6 DEF Tiled, Apart
    <3> QED BY <3>1, <1>8, <1>4, <1>6, <1>2
  <2>2. p \in F BY <2>1 DEF SameFree
  <2>3. p \in DOMAIN S BY <2>2, Sizes
  <2>4. T[p] = S[p] BY <2>1, <2>3, <1>1 DEF SameOutside
  <2>5. p + S[p] \notin F /\ p + S[p] # top BY <2>2 DEF NoTwoFree
  <2>6. p < a => p + T[p] <= a BY <1>1, <1>2, <1>6 DEF Tiled, Apart
  <2>7. p + T[p] < a \/ p + T[p] = a \/ p + T[p] >= e BY <2>1, <2>6, <1>2, <1>3, <1>6
  <2>8. CASE p + T[p] = a
    <3>1. FreeBefore(S, F, a) BY <2>8, <2>4, <2>2 DEF FreeBefore
    <3> QED BY <3>1, <2>8, <2>5, <2>4
  <2>9. CASE p + T[p] < a \/ p + T[p] >= e BY <2>9, <2>5, <2>4 DEF SameFree
  <2> QED BY <2>7, <2>8, <2>9
<1> QED BY <1>7, <1>8

\* Nor does the second of the two chunks of a run.
LEMMA TwoNoTwo ==
    ASSUME NEW S, NEW N, NEW X, NEW top, NEW T, NEW M, NEW F, NEW G, NEW a, NEW r, NEW e,
           Tiled(S, N, X, top), TwoRun(S, N, T, M, X, top, a, r, e),
           F \subseteq N, G \subseteq M, SameFree(F, G, a, e), a \notin G,
           e \in DOMAIN S, NoTwoFree(S, F, top),
           r \in G => e \notin F /\ e # top
    PROVE  NoTwoFree(T, G, top)
<1>1. /\ Tiled(T, M, X, top) /\ a \in N /\ a \in M /\ r \in M /\ T[a] = r - a /\ T[r] = e - r
      /\ SameOutside(S, N, T, M, a, e)
  BY DEF TwoRun
<1>2. a \in DOMAIN S /\ a \in Nat /\ a \in DOMAIN T /\ T[a] \in Nat /\ T[a] >= 16 BY <1>1, Sizes
<1>2b. r \in Nat /\ r \in DOMAIN T /\ T[r] \in Nat /\ T[r] >= 16 BY <1>1, Sizes
<1>3. e \in Nat BY Chunk
<1>4. a < r /\ r < e /\ a < e /\ a + T[a] = r /\ r + T[r] = e BY <1>1, <1>2, <1>2b, <1>3
<1>5. e \in G => e \in F
  <2>1. e >= e BY <1>3
  <2> QED BY <2>1 DEF SameFree
<1> SUFFICES ASSUME NEW p \in G PROVE p + T[p] \notin G /\ p + T[p] # top
  BY DEF NoTwoFree
<1>6. p \in Nat /\ p \in DOMAIN T /\ T[p] \in Nat /\ T[p] >= 16 /\ p # a BY <1>1, Sizes
<1>7. CASE p = r BY <1>7, <1>4, <1>5
<1>8. CASE p # r
  <2>1. p < a \/ p >= e
    <3>1. a < p => a + T[a] <= p BY <1>1, <1>2, <1>6 DEF Tiled, Apart
    <3>2. r < p => r + T[r] <= p BY <1>1, <1>2b, <1>6 DEF Tiled, Apart
    <3> QED BY <3>1, <3>2, <1>8, <1>4, <1>6, <1>2, <1>2b
  <2>2. p \in F BY <2>1 DEF SameFree
  <2>3. p \in DOMAIN S BY <2>2, Sizes
  <2>4. T[p] = S[p] BY <2>1, <2>3, <1>1 DEF SameOutside
  <2>5. p + S[p] \notin F /\ p + S[p] # top BY <2>2 DEF NoTwoFree
  <2>6. p < a => p + T[p] <= a BY <1>1, <1>2, <1>6 DEF Tiled, Apart
  <2>7. p + T[p] < a \/ p + T[p] = a \/ p + T[p] >= e BY <2>1, <2>6, <1>2, <1>3, <1>6
  <2>8. CASE p + T[p] = a BY <2>8, <2>5, <2>4
  <2>9. CASE p + T[p] < a \/ p + T[p] >= e BY <2>9, <2>5, <2>4 DEF SameFree
  <2> QED BY <2>7, <2>8, <2>9
<1> QED BY <1>7, <1>8

\* A new top borders no free chunk.
LEMMA TopNoTwo ==
    ASSUME NEW S, NEW N, NEW X, NEW top, NEW T, NEW M, NEW F, NEW G, NEW a \in DOMAIN S, NEW e,
           Tiled(S, N, X, top), TopRun(S, N, T, M, X, a, e),
           F \subseteq N, G \subseteq M, FreeBelow(F, G, a),
           NoTwoFree(S, F, top), ~FreeBefore(S, F, a)
    PROVE  NoTwoFree(T, G, a)
<1>1. Tiled(T, M, X, a) /\ a # 0 /\ T[a] = e - a /\ SameBelow(S, N, T, M, a) BY DEF TopRun
<1>2. a \in Nat BY Chunk
<1> SUFFICES ASSUME NEW p \in G PROVE p + T[p] \notin G /\ p + T[p] # a
  BY DEF NoTwoFree
<1>3. p \in Nat /\ p \in DOMAIN T /\ p # a BY <1>1, Sizes
<1>4. p < a
  <2>1. p <= a BY <1>1, <1>3, Chunk
  <2> QED BY <2>1, <1>2, <1>3
<1>5. p \in F BY <1>4 DEF FreeBelow
<1>6. p \in DOMAIN S /\ S[p] \in Nat BY <1>5, Sizes
<1>7. T[p] = S[p] BY <1>4, <1>6, <1>1 DEF SameBelow
<1>8. p + S[p] \notin F /\ p + S[p] # top BY <1>5 DEF NoTwoFree
<1>9. p + S[p] # a BY <1>5 DEF FreeBefore
<1>10. p + S[p] <= a BY <1>4, <1>6 DEF Tiled, Apart
<1>11. p + S[p] < a BY <1>9, <1>10, <1>2, <1>3, <1>6
<1> QED BY <1>11, <1>7, <1>8, <1>9 DEF FreeBelow

\* Nor does a new top behind a chunk in use.
LEMMA TopTwoNoTwo ==
    ASSUME NEW S, NEW N, NEW X, NEW top, NEW T, NEW M, NEW F, NEW G, NEW a \in DOMAIN S,
           NEW r, NEW e,
           Tiled(S, N, X, top), TopTwo(S, N, T, M, X, a, r, e),
           F \subseteq N, G \subseteq M, FreeBelow(F, G, a), a \notin G,
           NoTwoFree(S, F, top)
    PROVE  NoTwoFree(T, G, r)
<1>1. /\ Tiled(T, M, X, r) /\ a \in M /\ T[a] = r - a /\ T[r] = e - r /\ SameBelow(S, N, T, M, a)
  BY DEF TopTwo
<1>2. a \in Nat /\ a \in DOMAIN T /\ T[a] \in Nat /\ T[a] >= 16 BY <1>1, Sizes
<1>2b. r \in Nat /\ r \in DOMAIN T BY <1>1, <1>2, Chunk
<1>2c. a < r /\ a + T[a] = r BY <1>1, <1>2, <1>2b
<1> SUFFICES ASSUME NEW p \in G PROVE p + T[p] \notin G /\ p + T[p] # r
  BY DEF NoTwoFree
<1>3. p \in Nat /\ p \in DOMAIN T /\ p # a /\ p # r BY <1>1, Sizes
<1>4. p < a
  <2>1. p <= r BY <1>1, <1>3, Chunk
  <2>2. a < p => a + T[a] <= p BY <1>1, <1>2, <1>3 DEF Tiled, Apart
  <2> QED BY <2>1, <2>2, <1>2, <1>2b, <1>2c, <1>3
<1>5. p \in F BY <1>4 DEF FreeBelow
<1>6. p \in DOMAIN S /\ S[p] \in Nat BY <1>5, Sizes
<1>7. T[p] = S[p] BY <1>4, <1>6, <1>1 DEF SameBelow
<1>8. p + S[p] \notin F /\ p + S[p] # top BY <1>5 DEF NoTwoFree
<1>10. p + S[p] <= a BY <1>4, <1>6 DEF Tiled, Apart
<1>11. p + S[p] < a \/ p + S[p] = a BY <1>10, <1>2, <1>3, <1>6
<1>12. p + S[p] # r BY <1>11, <1>2, <1>2b, <1>2c
<1> QED BY <1>11, <1>12, <1>7, <1>8 DEF FreeBelow

\* Blocks outside a run are kept.
LEMMA LocalKept ==
    ASSUME NEW h, NEW g, NEW S, NEW N, NEW X, NEW top, NEW T, NEW M, NEW a, NEW e, NEW V,
           Tiled(S, N, X, top), SameOutside(S, N, T, M, a, e), LocalWords(h, g, a, e),
           a \in DOMAIN S, e \in DOMAIN S, a < e, V \subseteq N, Outside(V, a, e)
    PROVE  Kept(h, g, S, T, V)
<1>1. a \in Nat /\ e \in Nat BY Chunk
<1> SUFFICES ASSUME NEW p \in V
             PROVE  /\ T[p] = S[p]
                    /\ \A x \in Nat : p + 8 <= x /\ x < p + S[p] + 4 => Word(g, x) = Word(h, x)
  BY DEF Kept
<1>2. p \in Nat /\ p \in DOMAIN S /\ S[p] \in Nat BY Sizes
<1>3. p < a \/ p >= e BY DEF Outside
<1>4. T[p] = S[p] BY <1>2, <1>3 DEF SameOutside
<1>5. p < a => p + S[p] <= a BY <1>2 DEF Tiled, Apart
<1>6. ASSUME NEW x \in Nat, p + 8 <= x, x < p + S[p] + 4 PROVE Word(g, x) = Word(h, x)
  <2>1. x < a + 4 \/ x > e + 4 BY <1>1, <1>2, <1>3, <1>5, <1>6
  <2> QED BY <2>1 DEF LocalWords
<1> QED BY <1>4, <1>6

\* Blocks below a new top are kept.
LEMMA BelowKept ==
    ASSUME NEW h, NEW g, NEW S, NEW N, NEW X, NEW top, NEW T, NEW M, NEW a \in DOMAIN S, NEW V,
           Tiled(S, N, X, top), SameBelow(S, N, T, M, a), WordsBelow(h, g, a),
           V \subseteq N, Below(V, a)
    PROVE  Kept(h, g, S, T, V)
<1>1. a \in Nat BY Chunk
<1> SUFFICES ASSUME NEW p \in V
             PROVE  /\ T[p] = S[p]
                    /\ \A x \in Nat : p + 8 <= x /\ x < p + S[p] + 4 => Word(g, x) = Word(h, x)
  BY DEF Kept
<1>2. p \in Nat /\ p \in DOMAIN S /\ S[p] \in Nat BY Sizes
<1>3. p < a BY DEF Below
<1>4. T[p] = S[p] BY <1>2, <1>3 DEF SameBelow
<1>5. p + S[p] <= a BY <1>2, <1>3 DEF Tiled, Apart
<1>6. ASSUME NEW x \in Nat, p + 8 <= x, x < p + S[p] + 4 PROVE Word(g, x) = Word(h, x)
  <2>1. x < a + 4 BY <1>1, <1>2, <1>5, <1>6
  <2> QED BY <2>1 DEF WordsBelow
<1> QED BY <1>4, <1>6

\* Blocks kept by two steps are kept by both.
LEMMA KeptTrans ==
    ASSUME NEW h, NEW g, NEW k, NEW S, NEW T, NEW P, NEW V, NEW W,
           Kept(h, g, S, T, V), Kept(g, k, T, P, W)
    PROVE  Kept(h, k, S, P, V \intersect W)
<1> SUFFICES ASSUME NEW p \in V \intersect W
             PROVE  /\ P[p] = S[p]
                    /\ \A x \in Nat : p + 8 <= x /\ x < p + S[p] + 4 => Word(k, x) = Word(h, x)
  BY DEF Kept
<1>1. T[p] = S[p] /\ P[p] = T[p] BY DEF Kept
<1>2. ASSUME NEW x \in Nat, p + 8 <= x, x < p + S[p] + 4 PROVE Word(k, x) = Word(h, x)
  <2>1. Word(g, x) = Word(h, x) BY <1>2 DEF Kept
  <2>2. x < p + T[p] + 4 BY <1>1, <1>2
  <2>3. Word(k, x) = Word(g, x) BY <2>2, <1>2 DEF Kept
  <2> QED BY <2>1, <2>3
<1> QED BY <1>1, <1>2

\* Fewer blocks are kept, too.
LEMMA KeptSubset ==
    ASSUME NEW h, NEW g, NEW S, NEW T, NEW V, NEW W, Kept(h, g, S, T, V), W \subseteq V
    PROVE  Kept(h, g, S, T, W)
BY DEF Kept

\* Doing nothing keeps every block.
LEMMA KeptRefl ==
    ASSUME NEW h, NEW S, NEW V
    PROVE  Kept(h, h, S, S, V)
BY DEF Kept

\* So does a step that writes no word.
LEMMA KeptSameWords ==
    ASSUME NEW h, NEW g, NEW S, NEW V, \A x \in Nat : Word(g, x) = Word(h, x)
    PROVE  Kept(h, g, S, S, V)
BY DEF Kept

-----------------------------------------------------------------------------
(* Writing a word.                                                          *)

\* A heap is a record of the fields that mem_malloc_init() gives it.
IsHeap(h) ==
    /\ h = [mem |-> h.mem, bin |-> h.bin, marked |-> h.marked, top |-> h.top,
            brk |-> h.brk, start |-> h.start, end |-> h.end, base |-> h.base,
            high |-> h.high, fence |-> h.fence,
            trim_threshold |-> h.trim_threshold, top_pad |-> h.top_pad]
    /\ h.mem = [a \in DOMAIN h.mem |-> h.mem[a]]
    /\ h.bin = [i \in DOMAIN h.bin |-> h.bin[i]]

\* What malloc.c and the system keep outside of chunks and bins.
SameSys(h, g) ==
    /\ g.brk = h.brk /\ g.start = h.start /\ g.end = h.end /\ g.base = h.base
    /\ g.fence = h.fence /\ g.top_pad = h.top_pad

\* Writing a word changes that word and nothing else.
LEMMA PutIs ==
    ASSUME NEW h, NEW a, NEW v, IsHeap(h)
    PROVE  /\ IsHeap(Put(h, a, v)) /\ SameSys(h, Put(h, a, v))
           /\ Put(h, a, v).top = h.top /\ Put(h, a, v).bin = h.bin
           /\ Put(h, a, v).marked = h.marked
           /\ \A x : Word(Put(h, a, v), x) = IF x = a THEN v ELSE Word(h, x)
<1> DEFINE m == [x \in DOMAIN h.mem \union {a} |-> IF x = a THEN v ELSE h.mem[x]]
           g == Put(h, a, v)
<1>1. g = [mem |-> m, bin |-> h.bin, marked |-> h.marked, top |-> h.top,
            brk |-> h.brk, start |-> h.start, end |-> h.end, base |-> h.base,
            high |-> h.high, fence |-> h.fence,
            trim_threshold |-> h.trim_threshold, top_pad |-> h.top_pad]
  BY DEF Put, IsHeap
<1>2. \A x : Word(g, x) = IF x = a THEN v ELSE Word(h, x)
  BY <1>1 DEF Word
<1>3. DOMAIN m = DOMAIN h.mem \union {a} /\ m = [x \in DOMAIN m |-> m[x]] OBVIOUS
<1> HIDE DEF m, g
<1>4. g.mem = m /\ g.bin = h.bin /\ g.marked = h.marked /\ g.top = h.top /\ SameSys(h, g) BY <1>1 DEF SameSys
<1>5. h.bin = [i \in DOMAIN h.bin |-> h.bin[i]] BY DEF IsHeap
<1>6. IsHeap(g) BY <1>1, <1>3, <1>5 DEF IsHeap
<1> QED BY <1>2, <1>4, <1>6 DEF g

-----------------------------------------------------------------------------
(* Bins: sequences of free chunks.                                          *)

\* A length that is at most one and not zero is one.
LEMMA AtMostOne ==
    ASSUME NEW l \in Nat, l <= 1, l # 0
    PROVE  l = 1
  OBVIOUS

\* A set of naturals has a least element.
LEMMA LeastOf ==
    ASSUME NEW T, T \subseteq Nat, T # {}
    PROVE  \E x \in T : \A y \in T : x <= y
<1> DEFINE R == OpToRel(<, Nat)
<1>1. IsWellFoundedOn(R, Nat) BY NatLessThanWellFounded, Zenon DEF R
<1>2. \A x, y \in Nat : <<y, x>> \in R <=> y < x BY DEF R, OpToRel
<1> HIDE DEF R
<1>2b. \E x \in T : \A y \in T : ~ (<<y, x>> \in R) BY <1>1, WFMin, Zenon
<1>3. PICK x \in T : \A y \in T : ~(<<y, x>> \in R) BY <1>2b
<1>4. \A y \in T : x <= y
  <2> TAKE y \in T
  <2>1. x \in Nat /\ y \in Nat OBVIOUS
  <2>2. ~(<<y, x>> \in R) BY <1>3
  <2>3. ~(y < x) BY <2>1, <2>2, <1>2
  <2> QED BY <2>1, <2>3
<1> QED BY <1>4

\* Min is that element.
LEMMA MinIs ==
    ASSUME NEW T, T \subseteq Nat, T # {}
    PROVE  Min(T) \in T /\ \A y \in T : Min(T) <= y
BY LeastOf DEF Min

\* Max of a set of positions is its greatest element.
LEMMA MaxIs ==
    ASSUME NEW T, NEW n \in Nat, T \subseteq 1 .. n, T # {}
    PROVE  Max(T) \in T /\ \A y \in T : Max(T) >= y
<1> DEFINE W == {n - x : x \in T}
<1>0. PICK z \in T : TRUE OBVIOUS
<1>1a. n - z \in W BY <1>0
<1>1. W \subseteq Nat /\ W # {} BY <1>1a
<1>2. PICK w \in W : \A v \in W : w <= v BY <1>1, LeastOf
<1>3. PICK x \in T : w = n - x OBVIOUS
<1>4. \A y \in T : x >= y
  <2> TAKE y \in T
  <2>1. n - y \in W OBVIOUS
  <2>2. n - x <= n - y BY <2>1, <1>2, <1>3
  <2> QED BY <2>2
<1> QED BY <1>4 DEF Max

\* A sequence with an element more, by positions.
LEMMA InsertedAt ==
    ASSUME NEW S, NEW s \in Seq(S), NEW e \in S, NEW k \in 1 .. Len(s) + 1
    PROVE  /\ InsertAt(s, k, e) \in Seq(S)
           /\ Len(InsertAt(s, k, e)) = Len(s) + 1
           /\ \A j \in 1 .. Len(s) + 1 :
                 InsertAt(s, k, e)[j] = IF j < k THEN s[j]
                                        ELSE IF j = k THEN e ELSE s[j - 1]
<1> DEFINE a == SubSeq(s, 1, k - 1)
           b == SubSeq(s, k, Len(s))
           c == a \o <<e>>
<1>0. Len(s) \in Nat
  BY LenProperties
<1>1. /\ a \in Seq(S) /\ Len(a) = k - 1
      /\ \A j \in 1 .. k - 1 : a[j] = s[j]
  BY <1>0, SubSeqProperties
<1>2. /\ b \in Seq(S) /\ Len(b) = Len(s) + 1 - k
      /\ \A j \in 1 .. Len(b) : b[j] = s[k + j - 1]
  BY <1>0, SubSeqProperties
<1>3. <<e>> \in Seq(S) /\ Len(<<e>>) = 1 /\ <<e>>[1] = e
  OBVIOUS
<1> HIDE DEF a, b
<1>4. /\ c \in Seq(S) /\ Len(c) = k
      /\ \A j \in 1 .. k : c[j] = IF j < k THEN s[j] ELSE e
  BY <1>1, <1>3, ConcatProperties
<1> HIDE DEF c
<1>5. /\ c \o b \in Seq(S) /\ Len(c \o b) = Len(s) + 1
      /\ \A j \in 1 .. Len(s) + 1 : (c \o b)[j] = IF j <= k THEN c[j] ELSE b[j - k]
  <2>1. /\ c \o b \in Seq(S) /\ Len(c \o b) = Len(c) + Len(b)
        /\ \A j \in 1 .. Len(c) + Len(b) :
              (c \o b)[j] = IF j <= Len(c) THEN c[j] ELSE b[j - Len(c)]
    BY <1>2, <1>4, ConcatProperties
  <2>2. Len(c) = k /\ Len(c) + Len(b) = Len(s) + 1
    BY <1>0, <1>2, <1>4
  <2> QED BY <2>1, <2>2
<1>6. InsertAt(s, k, e) = c \o b
  BY DEF InsertAt, a, b, c
<1>7. \A j \in 1 .. Len(s) + 1 : j > k => b[j - k] = s[j - 1]
  BY <1>0, <1>2
<1> DEFINE r == InsertAt(s, k, e)
<1>8. r \in Seq(S) /\ Len(r) = Len(s) + 1 BY <1>5, <1>6
<1>9. ASSUME NEW j \in 1 .. Len(s) + 1
      PROVE  r[j] = IF j < k THEN s[j] ELSE IF j = k THEN e ELSE s[j - 1]
  <2>1. r[j] = IF j <= k THEN c[j] ELSE b[j - k] BY <1>5, <1>6
  <2> HIDE DEF r
  <2>2. CASE j <= k
    <3>1. j \in 1 .. k BY <1>0, <2>2
    <3>2. c[j] = IF j < k THEN s[j] ELSE e BY <3>1, <1>4
    <3> QED BY <2>1, <2>2, <3>2, <1>0
  <2>3. CASE j > k BY <1>0, <2>1, <2>3, <1>7
  <2> QED BY <2>2, <2>3, <1>0
<1> QED BY <1>8, <1>9

\* A sequence with an element less, by positions.
LEMMA RemovedAt ==
    ASSUME NEW S, NEW s \in Seq(S), NEW k \in 1 .. Len(s)
    PROVE  /\ RemoveAt(s, k) \in Seq(S)
           /\ Len(RemoveAt(s, k)) = Len(s) - 1
           /\ \A j \in 1 .. Len(s) - 1 :
                 RemoveAt(s, k)[j] = IF j < k THEN s[j] ELSE s[j + 1]
<1> DEFINE a == SubSeq(s, 1, k - 1)
           b == SubSeq(s, k + 1, Len(s))
<1>0. Len(s) \in Nat
  BY LenProperties
<1>1. /\ a \in Seq(S) /\ Len(a) = k - 1
      /\ \A j \in 1 .. k - 1 : a[j] = s[j]
  BY <1>0, SubSeqProperties
<1>2. /\ b \in Seq(S) /\ Len(b) = Len(s) - k
      /\ \A j \in 1 .. Len(b) : b[j] = s[k + j]
  BY <1>0, SubSeqProperties
<1> HIDE DEF a, b
<1>3. /\ a \o b \in Seq(S) /\ Len(a \o b) = Len(s) - 1
      /\ \A j \in 1 .. Len(s) - 1 : (a \o b)[j] = IF j < k THEN a[j] ELSE b[j - (k - 1)]
  <2>1. /\ a \o b \in Seq(S) /\ Len(a \o b) = Len(a) + Len(b)
        /\ \A j \in 1 .. Len(a) + Len(b) :
              (a \o b)[j] = IF j <= Len(a) THEN a[j] ELSE b[j - Len(a)]
    BY <1>1, <1>2, ConcatProperties
  <2>2. Len(a) = k - 1 /\ Len(a) + Len(b) = Len(s) - 1
    BY <1>0, <1>1, <1>2
  <2>3. \A j \in 1 .. Len(s) - 1 : j <= Len(a) <=> j < k
    BY <1>0, <2>2
  <2> QED BY <2>1, <2>2, <2>3
<1>4. RemoveAt(s, k) = a \o b
  BY DEF RemoveAt, a, b
<1>5. \A j \in 1 .. Len(s) - 1 : j >= k => b[j - (k - 1)] = s[j + 1]
  BY <1>0, <1>2
<1> QED BY <1>0, <1>1, <1>3, <1>4, <1>5


(* Bins: b gives the chunks of each bin, m the marked blocks, S their sizes, *)
(* F are the free chunks.                                                    *)
In(s, p) == \E k \in DOMAIN s : s[k] = p
OfBin(b, i) == IF i \in DOMAIN b THEN b[i] ELSE << >>
NoDup(s) == \A k, l \in DOMAIN s : s[k] = s[l] => k = l
Descending(S, s) == \A k, l \in DOMAIN s : k < l => S[s[k]] >= S[s[l]]
Indexed(S, s, i) == \A k \in DOMAIN s : bin_index(S[s[k]]) = i

BinsShape(b, F) == \A i \in DOMAIN b : i \in Nat /\ i > 0 /\ b[i] \in Seq(F) /\ b[i] # << >>
BinsEach(b, F) == \A p \in F : \E i \in DOMAIN b : In(b[i], p)
BinsOnce(b) ==
    /\ \A i \in DOMAIN b : NoDup(b[i])
    /\ \A i, j \in DOMAIN b : \A p : In(b[i], p) /\ In(b[j], p) => i = j
BinsSized(b, m, S) ==
    /\ 1 \in DOMAIN b => Len(b[1]) = 1
    /\ \A i \in DOMAIN b \ {1} :
          Indexed(S, b[i], i) /\ Descending(S, b[i]) /\ idx2binblock(i) \in m
BinsOk(b, m, S, F) ==
    BinsShape(b, F) /\ BinsEach(b, F) /\ BinsOnce(b) /\ BinsSized(b, m, S)

\* The bins b with s in place of bin i.
WithBin(b, i, s) ==
    [j \in (DOMAIN b \union {i}) \ {k \in {i} : s = << >>} |-> IF j = i THEN s ELSE b[j]]

\* s in place of bin i takes the free chunks from F to G.
Replaces(b, i, s, F, G) ==
    /\ s \in Seq(G) /\ NoDup(s)
    /\ \A p \in G : In(s, p) \/ (p \in F /\ ~In(OfBin(b, i), p))
    /\ \A p \in F : In(OfBin(b, i), p) \/ (p \in G /\ ~In(s, p))

\* Another sequence for bin i keeps the bins sound for the chunks it leaves.
LEMMA WithBinOk ==
    ASSUME NEW b, NEW m, NEW n, NEW S, NEW F, NEW G, NEW i \in Nat, NEW s, i > 0,
           BinsOk(b, m, S, F), Replaces(b, i, s, F, G), m \subseteq n,
           i = 1 => Len(s) <= 1,
           i # 1 => /\ Indexed(S, s, i) /\ Descending(S, s)
                    /\ s # << >> => idx2binblock(i) \in n
    PROVE  BinsOk(WithBin(b, i, s), n, S, G)
<1> DEFINE c == WithBin(b, i, s)
<1>1. /\ DOMAIN c = (DOMAIN b \union {i}) \ {k \in {i} : s = << >>}
      /\ \A j \in DOMAIN c : c[j] = IF j = i THEN s ELSE b[j]
  BY DEF WithBin
<1> HIDE DEF c
<1>2. \A j \in DOMAIN c : j # i => j \in DOMAIN b /\ c[j] = b[j]
  BY <1>1
<1>3. i \in DOMAIN c => c[i] = s /\ s # << >> BY <1>1
<1>4. \A j \in DOMAIN b : j # i => j \in DOMAIN c /\ c[j] = b[j] BY <1>1
<1>5. s # << >> => i \in DOMAIN c BY <1>1
<1>6. BinsShape(b, F) /\ BinsEach(b, F) /\ BinsOnce(b) /\ BinsSized(b, m, S) BY DEF BinsOk
<1>7. s \in Seq(G) /\ NoDup(s) BY DEF Replaces
<1>8. ASSUME NEW j \in DOMAIN b, j # i, NEW p, In(b[j], p)
      PROVE  p \in G /\ ~In(s, p)
  <2>1. p \in F
    <3>1. b[j] \in Seq(F) BY <1>6 DEF BinsShape
    <3>2. PICK k \in DOMAIN b[j] : b[j][k] = p BY <1>8 DEF In
    <3>3. DOMAIN b[j] = 1 .. Len(b[j]) BY <3>1, LenProperties
    <3> QED BY <3>1, <3>2, <3>3, ElementOfSeq
  <2>2. ~In(OfBin(b, i), p)
    <3>1. CASE i \in DOMAIN b
      <4>1. OfBin(b, i) = b[i] BY <3>1 DEF OfBin
      <4> QED BY <4>1, <3>1, <1>6, <1>8 DEF BinsOnce
    <3>2. CASE i \notin DOMAIN b
      <4>1. OfBin(b, i) = << >> BY <3>2 DEF OfBin
      <4> QED BY <4>1 DEF In
    <3> QED BY <3>1, <3>2
  <2> QED BY <2>1, <2>2 DEF Replaces
<1>9. BinsShape(c, G)
  <2> SUFFICES ASSUME NEW j \in DOMAIN c
               PROVE  j \in Nat /\ j > 0 /\ c[j] \in Seq(G) /\ c[j] # << >>
    BY DEF BinsShape
  <2>1. CASE j = i BY <2>1, <1>3, <1>7
  <2>2. CASE j # i
    <3>1. j \in DOMAIN b /\ c[j] = b[j] BY <2>2, <1>2
    <3>2. j \in Nat /\ j > 0 /\ b[j] \in Seq(F) /\ b[j] # << >> BY <3>1, <1>6 DEF BinsShape
    <3>3. b[j] \in Seq(G)
      <4>1. /\ DOMAIN b[j] = 1 .. Len(b[j]) /\ Len(b[j]) \in Nat
            /\ b[j] = [k \in 1 .. Len(b[j]) |-> b[j][k]]
        BY <3>2, LenProperties
      <4>2. \A k \in 1 .. Len(b[j]) : b[j][k] \in G
        <5> TAKE k \in 1 .. Len(b[j])
        <5>1. In(b[j], b[j][k]) BY <4>1 DEF In
        <5> QED BY <5>1, <3>1, <2>2, <1>8
      <4> QED BY <4>1, <4>2, IsASeq
    <3> QED BY <3>1, <3>2, <3>3
  <2> QED BY <2>1, <2>2
<1>10. BinsEach(c, G)
  <2> SUFFICES ASSUME NEW p \in G PROVE \E j \in DOMAIN c : In(c[j], p)
    BY DEF BinsEach
  <2>1. CASE In(s, p)
    <3>1. s # << >> BY <2>1 DEF In
    <3> QED BY <3>1, <2>1, <1>3, <1>5
  <2>2. CASE ~In(s, p)
    <3>1. p \in F /\ ~In(OfBin(b, i), p) BY <2>2 DEF Replaces
    <3>2. PICK j \in DOMAIN b : In(b[j], p) BY <3>1, <1>6 DEF BinsEach
    <3>3. j # i BY <3>1, <3>2 DEF OfBin
    <3> QED BY <3>2, <3>3, <1>4
  <2> QED BY <2>1, <2>2
<1>11. BinsOnce(c)
  <2>1. \A j \in DOMAIN c : NoDup(c[j])
    <3> TAKE j \in DOMAIN c
    <3>1. CASE j = i BY <3>1, <1>3, <1>7
    <3>2. CASE j # i BY <3>2, <1>2, <1>6 DEF BinsOnce
    <3> QED BY <3>1, <3>2
  <2>2. ASSUME NEW j \in DOMAIN c, NEW l \in DOMAIN c, NEW p, In(c[j], p), In(c[l], p)
        PROVE  j = l
    <3>1. CASE j = i /\ l # i
      <4>1. l \in DOMAIN b /\ In(b[l], p) BY <3>1, <2>2, <1>2
      <4>2. ~In(s, p) BY <4>1, <3>1, <1>8
      <4> QED BY <4>2, <3>1, <2>2, <1>3
    <3>2. CASE j # i /\ l = i
      <4>1. j \in DOMAIN b /\ In(b[j], p) BY <3>2, <2>2, <1>2
      <4>2. ~In(s, p) BY <4>1, <3>2, <1>8
      <4> QED BY <4>2, <3>2, <2>2, <1>3
    <3>3. CASE j # i /\ l # i
      <4>1. j \in DOMAIN b /\ In(b[j], p) BY <3>3, <2>2, <1>2
      <4>2. l \in DOMAIN b /\ In(b[l], p) BY <3>3, <2>2, <1>2
      <4> QED BY <4>1, <4>2, <1>6 DEF BinsOnce
    <3> QED BY <3>1, <3>2, <3>3
  <2> QED BY <2>1, <2>2 DEF BinsOnce
<1>12. BinsSized(c, n, S)
  <2>1. ASSUME 1 \in DOMAIN c PROVE Len(c[1]) = 1
    <3>1. CASE i = 1
      <4>1. c[1] = s /\ s # << >> BY <3>1, <2>1, <1>3
      <4>2. Len(s) <= 1 /\ Len(s) \in Nat BY <3>1, <1>7, LenProperties
      <4>3. Len(s) # 0 BY <4>1, <1>7, EmptySeq
      <4>4. \A l \in Nat : l <= 1 /\ l # 0 => l = 1 BY AtMostOne
      <4>5. Len(s) = 1 BY ONLY <4>2, <4>3, <4>4, Zenon
      <4> QED BY <4>1, <4>5
    <3>2. CASE i # 1 BY <3>2, <2>1, <1>2, <1>6 DEF BinsSized
    <3> QED BY <3>1, <3>2
  <2>2. ASSUME NEW j \in DOMAIN c \ {1}
        PROVE  Indexed(S, c[j], j) /\ Descending(S, c[j]) /\ idx2binblock(j) \in n
    <3>1. CASE j = i BY <3>1, <2>2, <1>3
    <3>2. CASE j # i BY <3>2, <2>2, <1>2, <1>6 DEF BinsSized
    <3> QED BY <3>1, <3>2
  <2> QED BY <2>1, <2>2 DEF BinsSized
<1> QED BY <1>9, <1>10, <1>11, <1>12 DEF BinsOk, c

-----------------------------------------------------------------------------
(* bin_index().                                                             *)

\* The bin of a chunk is never one of the first two; small ones have their own.
LEMMA BinIndexIs ==
    ASSUME NEW x \in Nat, x >= 16
    PROVE  /\ bin_index(x) \in Nat /\ bin_index(x) >= 2
           /\ x < 512 => bin_index(x) = smallbin_index(x)
<1> DEFINE pages == x \div 512
<1>1. pages \in Nat /\ (x < 512 => pages = 0) OBVIOUS
<1>2. x \div 8 >= 2 /\ x \div 8 \in Nat OBVIOUS
<1>3. x \div 64 \in Nat /\ x \div 512 \in Nat /\ x \div 4096 \in Nat /\ x \div 32768 \in Nat /\ x \div 262144 \in Nat OBVIOUS
<1>4. bin_index(x) = CASE pages = 0 -> x \div 8
         [] pages \in 1 .. 4 -> 56 + x \div 64
         [] pages \in 5 .. 20 -> 91 + x \div 512
         [] pages \in 21 .. 84 -> 110 + x \div 4096
         [] pages \in 85 .. 340 -> 119 + x \div 32768
         [] pages \in 341 .. 1364 -> 124 + x \div 262144
         [] OTHER -> 126
  BY DEF bin_index
<1> HIDE DEF pages
<1>5. pages = 0 \/ pages \in 1 .. 4 \/ pages \in 5 .. 20 \/ pages \in 21 .. 84 \/ pages \in 85 .. 340 \/ pages \in 341 .. 1364 \/ pages > 1364
  BY <1>1
<1>6. CASE pages = 0 BY <1>1, <1>2, <1>4, <1>6 DEF smallbin_index
<1>7. CASE pages # 0 BY <1>1, <1>3, <1>4, <1>5, <1>7
<1> QED BY <1>6, <1>7

\* The sizes of each range of bins.
LEMMA PageRange ==
    ASSUME NEW x \in Nat, NEW p \in Nat, 512 * p <= x, x < 512 * p + 512
    PROVE  /\ p = 0 => x < 512
           /\ p \in 1 .. 4 => 512 <= x /\ x < 2560
           /\ p \in 5 .. 20 => 2560 <= x /\ x < 10752
           /\ p \in 21 .. 84 => 10752 <= x /\ x < 43520
           /\ p \in 85 .. 340 => 43520 <= x /\ x < 174592
           /\ p \in 341 .. 1364 => 174592 <= x /\ x < 698880
           /\ p > 1364 => x >= 698880
OBVIOUS

pages(x) == x \div 512
\* The branches of bin_index(), by the sizes they take.
LEMMA BinRange ==
    ASSUME NEW x \in Nat
    PROVE  /\ pages(x) = 0 => bin_index(x) = x \div 8 /\ x < 512
           /\ pages(x) \in 1 .. 4 => bin_index(x) = 56 + x \div 64 /\ 512 <= x /\ x < 2560
           /\ pages(x) \in 5 .. 20 => bin_index(x) = 91 + x \div 512 /\ 2560 <= x /\ x < 10752
           /\ pages(x) \in 21 .. 84 => bin_index(x) = 110 + x \div 4096 /\ 10752 <= x /\ x < 43520
           /\ pages(x) \in 85 .. 340 => bin_index(x) = 119 + x \div 32768 /\ 43520 <= x /\ x < 174592
           /\ pages(x) \in 341 .. 1364 => bin_index(x) = 124 + x \div 262144 /\ 174592 <= x /\ x < 698880
           /\ pages(x) > 1364 => bin_index(x) = 126 /\ x >= 698880
<1> DEFINE p == pages(x)
<1>1. bin_index(x) = CASE p = 0 -> x \div 8
         [] p \in 1 .. 4 -> 56 + x \div 64
         [] p \in 5 .. 20 -> 91 + x \div 512
         [] p \in 21 .. 84 -> 110 + x \div 4096
         [] p \in 85 .. 340 -> 119 + x \div 32768
         [] p \in 341 .. 1364 -> 124 + x \div 262144
         [] OTHER -> 126
  BY DEF bin_index, pages
<1>c. p \in Nat /\ 512 * p <= x /\ x < 512 * p + 512 BY DEF pages
<1> HIDE DEF p
<1>b. /\ p = 0 => x < 512
      /\ p \in 1 .. 4 => 512 <= x /\ x < 2560
      /\ p \in 5 .. 20 => 2560 <= x /\ x < 10752
      /\ p \in 21 .. 84 => 10752 <= x /\ x < 43520
      /\ p \in 85 .. 340 => 43520 <= x /\ x < 174592
      /\ p \in 341 .. 1364 => 174592 <= x /\ x < 698880
      /\ p > 1364 => x >= 698880
  BY <1>c, PageRange
<1>3. ASSUME p = 0 PROVE bin_index(x) = x \div 8 /\ x < 512
  <2>1. bin_index(x) = x \div 8 BY <1>1, <1>3
  <2>2. x < 512 BY <1>b, <1>3
  <2> QED BY <2>1, <2>2
<1>4. ASSUME p \in 1 .. 4 PROVE bin_index(x) = 56 + x \div 64 /\ 512 <= x /\ x < 2560
  <2>0. p # 0 /\ p \notin 5 .. 20 /\ p \notin 21 .. 84 /\ p \notin 85 .. 340 /\ p \notin 341 .. 1364 BY <1>c, <1>4
  <2>1. bin_index(x) = 56 + x \div 64 BY <1>1, <1>4, <2>0
  <2>2. 512 <= x /\ x < 2560 BY <1>b, <1>4
  <2> QED BY <2>1, <2>2
<1>5. ASSUME p \in 5 .. 20 PROVE bin_index(x) = 91 + x \div 512 /\ 2560 <= x /\ x < 10752
  <2>0. p # 0 /\ p \notin 1 .. 4 /\ p \notin 21 .. 84 /\ p \notin 85 .. 340 /\ p \notin 341 .. 1364 BY <1>c, <1>5
  <2>1. bin_index(x) = 91 + x \div 512 BY <1>1, <1>5, <2>0
  <2>2. 2560 <= x /\ x < 10752 BY <1>b, <1>5
  <2> QED BY <2>1, <2>2
<1>6. ASSUME p \in 21 .. 84 PROVE bin_index(x) = 110 + x \div 4096 /\ 10752 <= x /\ x < 43520
  <2>0. p # 0 /\ p \notin 1 .. 4 /\ p \notin 5 .. 20 /\ p \notin 85 .. 340 /\ p \notin 341 .. 1364 BY <1>c, <1>6
  <2>1. bin_index(x) = 110 + x \div 4096 BY <1>1, <1>6, <2>0
  <2>2. 10752 <= x /\ x < 43520 BY <1>b, <1>6
  <2> QED BY <2>1, <2>2
<1>7. ASSUME p \in 85 .. 340 PROVE bin_index(x) = 119 + x \div 32768 /\ 43520 <= x /\ x < 174592
  <2>0. p # 0 /\ p \notin 1 .. 4 /\ p \notin 5 .. 20 /\ p \notin 21 .. 84 /\ p \notin 341 .. 1364 BY <1>c, <1>7
  <2>1. bin_index(x) = 119 + x \div 32768 BY <1>1, <1>7, <2>0
  <2>2. 43520 <= x /\ x < 174592 BY <1>b, <1>7
  <2> QED BY <2>1, <2>2
<1>8. ASSUME p \in 341 .. 1364 PROVE bin_index(x) = 124 + x \div 262144 /\ 174592 <= x /\ x < 698880
  <2>0. p # 0 /\ p \notin 1 .. 4 /\ p \notin 5 .. 20 /\ p \notin 21 .. 84 /\ p \notin 85 .. 340 BY <1>c, <1>8
  <2>1. bin_index(x) = 124 + x \div 262144 BY <1>1, <1>8, <2>0
  <2>2. 174592 <= x /\ x < 698880 BY <1>b, <1>8
  <2> QED BY <2>1, <2>2
<1>9. ASSUME p > 1364 PROVE bin_index(x) = 126 /\ x >= 698880
  <2>1. bin_index(x) = 126 BY <1>1, <1>9, SMTT(30)
  <2>2. x >= 698880 BY <1>b, <1>9
  <2> QED BY <2>1, <2>2
<1> QED BY <1>3, <1>4, <1>5, <1>6, <1>7, <1>8, <1>9 DEF p

\* bin_index() is monotonic: what the search for larger chunks relies on.
LEMMA BinIndexGrows ==
    ASSUME NEW x \in Nat, NEW y \in Nat, x <= y
    PROVE  bin_index(x) <= bin_index(y)
<1> DEFINE p == pages(x)
           q == pages(y)
<1>1. p \in Nat /\ q \in Nat /\ p <= q BY DEF pages
<1>2. /\ p = 0 => bin_index(x) = x \div 8 /\ x < 512
      /\ p \in 1 .. 4 => bin_index(x) = 56 + x \div 64 /\ 512 <= x /\ x < 2560
      /\ p \in 5 .. 20 => bin_index(x) = 91 + x \div 512 /\ 2560 <= x /\ x < 10752
      /\ p \in 21 .. 84 => bin_index(x) = 110 + x \div 4096 /\ 10752 <= x /\ x < 43520
      /\ p \in 85 .. 340 => bin_index(x) = 119 + x \div 32768 /\ 43520 <= x /\ x < 174592
      /\ p \in 341 .. 1364 => bin_index(x) = 124 + x \div 262144 /\ 174592 <= x /\ x < 698880
      /\ p > 1364 => bin_index(x) = 126 /\ x >= 698880
  BY BinRange
<1>3. /\ q = 0 => bin_index(y) = y \div 8 /\ y < 512
      /\ q \in 1 .. 4 => bin_index(y) = 56 + y \div 64 /\ 512 <= y /\ y < 2560
      /\ q \in 5 .. 20 => bin_index(y) = 91 + y \div 512 /\ 2560 <= y /\ y < 10752
      /\ q \in 21 .. 84 => bin_index(y) = 110 + y \div 4096 /\ 10752 <= y /\ y < 43520
      /\ q \in 85 .. 340 => bin_index(y) = 119 + y \div 32768 /\ 43520 <= y /\ y < 174592
      /\ q \in 341 .. 1364 => bin_index(y) = 124 + y \div 262144 /\ 174592 <= y /\ y < 698880
      /\ q > 1364 => bin_index(y) = 126 /\ y >= 698880
  BY BinRange
<1> HIDE DEF p, q
<1>a. p \in Nat /\ q \in Nat /\ p <= q BY <1>1
<1>4. p = 0 \/ p \in 1 .. 4 \/ p \in 5 .. 20 \/ p \in 21 .. 84 \/ p \in 85 .. 340 \/ p \in 341 .. 1364 \/ p > 1364
  BY <1>a
<1>5. q = 0 \/ q \in 1 .. 4 \/ q \in 5 .. 20 \/ q \in 21 .. 84 \/ q \in 85 .. 340 \/ q \in 341 .. 1364 \/ q > 1364
  BY <1>a
<1>6. CASE p = 0 BY <1>a, <1>2, <1>3, <1>5, <1>6
<1>7. CASE p \in 1 .. 4 BY <1>a, <1>2, <1>3, <1>5, <1>7
<1>8. CASE p \in 5 .. 20 BY <1>a, <1>2, <1>3, <1>5, <1>8
<1>9. CASE p \in 21 .. 84 BY <1>a, <1>2, <1>3, <1>5, <1>9
<1>10. CASE p \in 85 .. 340 BY <1>a, <1>2, <1>3, <1>5, <1>10
<1>11. CASE p \in 341 .. 1364 BY <1>a, <1>2, <1>3, <1>5, <1>11
<1>12. CASE p > 1364 BY <1>a, <1>2, <1>3, <1>5, <1>12
<1> QED BY <1>4, <1>6, <1>7, <1>8, <1>9, <1>10, <1>11, <1>12

-----------------------------------------------------------------------------
(* Heaps that differ in their bins only.                                    *)

\* g differs from h in its bins only, or not even in them.
SameMem(h, g) ==
    /\ IsHeap(g) /\ SameSys(h, g) /\ g.top = h.top
    /\ \A x : Word(g, x) = Word(h, x)

\* Two changes of the bins are one.
LEMMA SameMemTrans ==
    ASSUME NEW h, NEW g, NEW k, SameMem(h, g), SameMem(g, k)
    PROVE  SameMem(h, k)
BY DEF SameMem, SameSys

\* A change of the bins changes no chunk.
LEMMA SameMemHeads ==
    ASSUME NEW h, NEW g, SameMem(h, g)
    PROVE  /\ \A p : HeadOf(g, p) = HeadOf(h, p) /\ chunksize(g, p) = chunksize(h, p)
           /\ \A p : prev_inuse(g, p) <=> prev_inuse(h, p)
           /\ \A p : inuse(g, p) <=> inuse(h, p)
<1>1. \A p : HeadOf(g, p) = HeadOf(h, p) BY DEF SameMem, HeadOf
<1>2. \A p : chunksize(g, p) = chunksize(h, p) BY <1>1 DEF chunksize
<1>3. \A p : prev_inuse(g, p) <=> prev_inuse(h, p) BY <1>1 DEF prev_inuse
<1>4. \A p : inuse(g, p) <=> inuse(h, p)
  <2> TAKE p
  <2>1. next_chunk(g, p) = next_chunk(h, p) BY <1>2 DEF next_chunk
  <2> QED BY <2>1, <1>3 DEF inuse
<1> QED BY <1>1, <1>2, <1>3, <1>4

\* No change at all is one of the bins.
LEMMA SameMemRefl ==
    ASSUME NEW h, IsHeap(h)
    PROVE  SameMem(h, h)
BY DEF SameMem, SameSys

\* SetBin() changes one bin.
LEMMA SetBinIs ==
    ASSUME NEW h, NEW i, NEW s, IsHeap(h)
    PROVE  /\ SameMem(h, SetBin(h, i, s))
           /\ SetBin(h, i, s).bin = WithBin(h.bin, i, s)
           /\ SetBin(h, i, s).marked = h.marked
<1> DEFINE g == SetBin(h, i, s)
           c == WithBin(h.bin, i, s)
<1>1. g = [mem |-> h.mem, bin |-> c, marked |-> h.marked, top |-> h.top,
            brk |-> h.brk, start |-> h.start, end |-> h.end, base |-> h.base,
            high |-> h.high, fence |-> h.fence,
            trim_threshold |-> h.trim_threshold, top_pad |-> h.top_pad]
  BY DEF SetBin, WithBin, IsHeap
<1>2. c = [j \in DOMAIN c |-> c[j]] BY DEF WithBin
<1> HIDE DEF g, c
<1>3. g.bin = c /\ g.mem = h.mem /\ g.marked = h.marked /\ g.top = h.top /\ SameSys(h, g) BY <1>1 DEF SameSys
<1>4. \A x : Word(g, x) = Word(h, x) BY <1>3 DEF Word
<1>5. h.mem = [a \in DOMAIN h.mem |-> h.mem[a]] BY DEF IsHeap
<1>6. IsHeap(g) BY <1>1, <1>2, <1>5 DEF IsHeap
<1> QED BY <1>3, <1>4, <1>6 DEF g, c, SameMem

\* Marks of blocks of bins are no part of the rest.
LEMMA MarkedIs ==
    ASSUME NEW h, NEW m, IsHeap(h)
    PROVE  /\ SameMem(h, [h EXCEPT !.marked = m])
           /\ [h EXCEPT !.marked = m].bin = h.bin
           /\ [h EXCEPT !.marked = m].marked = m
<1> DEFINE g == [h EXCEPT !.marked = m]
<1>1. g = [mem |-> h.mem, bin |-> h.bin, marked |-> m, top |-> h.top,
            brk |-> h.brk, start |-> h.start, end |-> h.end, base |-> h.base,
            high |-> h.high, fence |-> h.fence,
            trim_threshold |-> h.trim_threshold, top_pad |-> h.top_pad]
  BY DEF IsHeap
<1> HIDE DEF g
<1>3. g.bin = h.bin /\ g.mem = h.mem /\ g.marked = m /\ g.top = h.top /\ SameSys(h, g) BY <1>1 DEF SameSys
<1>4. \A x : Word(g, x) = Word(h, x) BY <1>3 DEF Word
<1>5. h.mem = [a \in DOMAIN h.mem |-> h.mem[a]] /\ h.bin = [a \in DOMAIN h.bin |-> h.bin[a]] BY DEF IsHeap
<1>6. IsHeap(g) BY <1>1, <1>5 DEF IsHeap
<1> QED BY <1>3, <1>4, <1>6 DEF g, SameMem

\* Bin() reads a bin.
LEMMA BinIs ==
    ASSUME NEW h, NEW i
    PROVE  Bin(h, i) = OfBin(h.bin, i)
BY DEF Bin, OfBin

\* The bins after one is replaced.
LEMMA WithBinOf ==
    ASSUME NEW b, NEW i, NEW s, NEW j
    PROVE  OfBin(WithBin(b, i, s), j) = IF j = i THEN s ELSE OfBin(b, j)
BY DEF OfBin, WithBin

\* A bin that is listed: its chunks, once each.
LEMMA BinIn ==
    ASSUME NEW b, NEW m, NEW S, NEW F, BinsOk(b, m, S, F), NEW i \in DOMAIN b
    PROVE  /\ i \in Nat /\ i > 0 /\ b[i] \in Seq(F) /\ b[i] # << >> /\ NoDup(b[i])
           /\ Len(b[i]) \in Nat /\ Len(b[i]) > 0 /\ DOMAIN b[i] = 1 .. Len(b[i])
           /\ \A k \in DOMAIN b[i] : b[i][k] \in F
<1>1. i \in Nat /\ i > 0 /\ b[i] \in Seq(F) /\ b[i] # << >> BY DEF BinsOk, BinsShape
<1>2. NoDup(b[i]) BY DEF BinsOk, BinsOnce
<1>3. Len(b[i]) \in Nat /\ DOMAIN b[i] = 1 .. Len(b[i]) BY <1>1, LenProperties
<1>4. Len(b[i]) # 0 BY <1>1, EmptySeq
<1>5. Len(b[i]) > 0 BY <1>3, <1>4
<1>6. \A k \in DOMAIN b[i] : b[i][k] \in F BY <1>1, <1>3, ElementOfSeq
<1> QED BY <1>1, <1>2, <1>3, <1>5, <1>6

\* Taking the chunk at place k out of a bin.
LEMMA WithoutOk ==
    ASSUME NEW b, NEW m, NEW S, NEW F, BinsOk(b, m, S, F), NEW i \in DOMAIN b,
           NEW k \in DOMAIN b[i], NEW p, b[i][k] = p
    PROVE  /\ BinsOk(WithBin(b, i, RemoveAt(b[i], k)), m, S, F \ {p})
           /\ p \in F
<1> DEFINE s == b[i]
           t == RemoveAt(b[i], k)
           n == Len(b[i])
<1>1. /\ i \in Nat /\ i > 0 /\ s \in Seq(F) /\ s # << >> /\ NoDup(s)
      /\ n \in Nat /\ n > 0 /\ DOMAIN s = 1 .. n
      /\ \A l \in DOMAIN s : s[l] \in F
  BY BinIn
<1>2. k \in 1 .. n BY <1>1, Zenon
<1>3. /\ t \in Seq(F) /\ Len(t) = n - 1
      /\ \A j \in 1 .. n - 1 : t[j] = IF j < k THEN s[j] ELSE s[j + 1]
  BY ONLY <1>1, <1>2, RemovedAt, ZenonT(40)
<1>4. p = s[k] OBVIOUS
<1>4b. OfBin(b, i) = s BY DEF OfBin
<1>4c. /\ i = 1 => n = 1
       /\ i # 1 => Indexed(S, s, i) /\ Descending(S, s) /\ idx2binblock(i) \in m
  BY DEF BinsOk, BinsSized
<1> HIDE DEF s, t, n
<1>5. DOMAIN t = 1 .. n - 1 BY <1>3, LenProperties
<1> DEFINE at(j) == IF j < k THEN j ELSE j + 1
<1>6. \A j \in DOMAIN t : at(j) \in DOMAIN s /\ t[j] = s[at(j)] /\ at(j) # k
  <2> TAKE j \in DOMAIN t
  <2>1. CASE j < k BY <2>1, <1>1, <1>2, <1>3, <1>5
  <2>2. CASE ~(j < k) BY <2>2, <1>1, <1>2, <1>3, <1>5
  <2> QED BY <2>1, <2>2
<1>7. \A j, l \in DOMAIN t : (at(j) = at(l) => j = l) /\ (j < l => at(j) < at(l))
  BY <1>1, <1>2, <1>5
<1>8. \A j \in DOMAIN s : j # k => \E l \in DOMAIN t : at(l) = j
  <2> TAKE j \in DOMAIN s
  <2>1. CASE j < k
    <3>1. j \in DOMAIN t /\ at(j) = j BY <2>1, <1>1, <1>2, <1>5
    <3> QED BY <3>1
  <2>2. CASE j > k
    <3>1. j - 1 \in DOMAIN t /\ at(j - 1) = j BY <2>2, <1>1, <1>2, <1>5
    <3> QED BY <3>1
  <2> QED BY <2>1, <2>2, <1>1, <1>2
<1> HIDE DEF at
<1>9. NoDup(t)
  <2> SUFFICES ASSUME NEW j \in DOMAIN t, NEW l \in DOMAIN t, t[j] = t[l] PROVE j = l
    BY DEF NoDup
  <2>1. at(j) = at(l) BY <1>1, <1>6 DEF NoDup
  <2> QED BY <2>1, <1>7
<1>10. \A j \in DOMAIN t : t[j] # p
  <2> TAKE j \in DOMAIN t
  <2>1. k \in DOMAIN s BY <1>1, <1>2
  <2> QED BY <2>1, <1>1, <1>4, <1>6 DEF NoDup
<1>11. t \in Seq(F \ {p})
  <2>1. \A j \in 1 .. n - 1 : t[j] \in F \ {p} BY <1>1, <1>5, <1>6, <1>10
  <2>2. t = [j \in 1 .. n - 1 |-> t[j]] /\ n - 1 \in Nat BY <1>1, <1>3, <1>5, LenProperties
  <2> QED BY <2>1, <2>2, IsASeq
<1>12. \A q : In(t, q) <=> In(s, q) /\ q # p
  <2> TAKE q
  <2>1. ASSUME In(t, q) PROVE In(s, q) /\ q # p
    <3>1. PICK j \in DOMAIN t : t[j] = q BY <2>1 DEF In
    <3> QED BY <3>1, <1>6, <1>10 DEF In
  <2>2. ASSUME In(s, q), q # p PROVE In(t, q)
    <3>1. PICK j \in DOMAIN s : s[j] = q BY <2>2 DEF In
    <3>2. j # k BY <3>1, <2>2, <1>4
    <3>3. PICK l \in DOMAIN t : at(l) = j BY <3>2, <1>8
    <3> QED BY <3>1, <3>3, <1>6 DEF In
  <2> QED BY <2>1, <2>2
<1>13. Replaces(b, i, t, F, F \ {p})
  <2>1. \A q \in F \ {p} : In(t, q) \/ (q \in F /\ ~In(s, q)) BY <1>12
  <2>2. In(s, p) BY <1>1, <1>2, <1>4 DEF In
  <2>3. \A q \in F : In(s, q) \/ (q \in F \ {p} /\ ~In(t, q)) BY <2>2, <1>12
  <2> QED BY <2>1, <2>3, <1>9, <1>11, <1>4b DEF Replaces
<1>14. i = 1 => Len(t) <= 1 BY <1>3, <1>4c
<1>15. i # 1 => Indexed(S, t, i) /\ Descending(S, t) /\ (t # << >> => idx2binblock(i) \in m)
  <2> SUFFICES ASSUME i # 1 PROVE Indexed(S, t, i) /\ Descending(S, t) /\ idx2binblock(i) \in m
    OBVIOUS
  <2>1. Indexed(S, s, i) /\ Descending(S, s) /\ idx2binblock(i) \in m BY <1>4c
  <2>2. Indexed(S, t, i) BY <2>1, <1>6 DEF Indexed
  <2>3. Descending(S, t) BY <2>1, <1>6, <1>7 DEF Descending
  <2> QED BY <2>1, <2>2, <2>3
<1>16. BinsOk(WithBin(b, i, t), m, S, F \ {p})
  <2>1. m \subseteq m OBVIOUS
  <2> QED BY <2>1, <1>1, <1>13, <1>14, <1>15, WithBinOk
<1>17. p \in F BY <1>1, <1>2, <1>4
<1> QED BY <1>16, <1>17 DEF t

-----------------------------------------------------------------------------
(* unlink() and frontlink().                                                *)

\* The free chunks are those in the bins.
LEMMA FreeOfBins ==
    ASSUME NEW h, NEW S, NEW m, NEW F, BinsOk(h.bin, m, S, F)
    PROVE  FreeChunks(h) = F
<1> DEFINE b == h.bin
<1>1. FreeChunks(h) = UNION {ToSet(b[i]) : i \in DOMAIN b} BY DEF FreeChunks
<1>2. \A i \in DOMAIN b : ToSet(b[i]) = {b[i][k] : k \in DOMAIN b[i]} BY DEF ToSet
<1>3. \A i \in DOMAIN b : \A k \in DOMAIN b[i] : b[i][k] \in F BY BinIn
<1>4. \A p \in F : \E i \in DOMAIN b : \E k \in DOMAIN b[i] : b[i][k] = p
  BY DEF BinsOk, BinsEach, In
<1> HIDE DEF b
<1>5. \A p \in FreeChunks(h) : p \in F BY <1>1, <1>2, <1>3
<1>6. \A p \in F : p \in FreeChunks(h)
  <2> TAKE p \in F
  <2>1. PICK i \in DOMAIN b : \E k \in DOMAIN b[i] : b[i][k] = p BY <1>4
  <2>2. p \in ToSet(b[i]) BY <2>1, <1>2
  <2> QED BY <2>1, <2>2, <1>1
<1> QED BY <1>5, <1>6

\* unlink() takes one chunk out of the bins, and nothing else.
LEMMA Unlinked ==
    ASSUME NEW h, NEW S, NEW F, NEW p \in F,
           IsHeap(h), BinsOk(h.bin, h.marked, S, F)
    PROVE  /\ SameMem(h, unlink(h, p))
           /\ BinsOk(unlink(h, p).bin, h.marked, S, F \ {p})
           /\ unlink(h, p).marked = h.marked
           /\ Bin(h, 1) # <<p>> => Bin(unlink(h, p), 1) = Bin(h, 1)
<1> DEFINE b == h.bin
           i == CHOOSE i \in DOMAIN h.bin : p \in ToSet(h.bin[i])
           k == CHOOSE k \in DOMAIN h.bin[i] : h.bin[i][k] = p
<1>1. unlink(h, p) = SetBin(h, i, RemoveAt(b[i], k)) BY DEF unlink
<1>2. \E j \in DOMAIN b : p \in ToSet(b[j])
  <2>1. PICK j \in DOMAIN b : \E l \in DOMAIN b[j] : b[j][l] = p BY DEF BinsOk, BinsEach, In
  <2> QED BY <2>1 DEF ToSet
<1>3. i \in DOMAIN b /\ p \in ToSet(b[i]) BY <1>2
<1> HIDE DEF i
<1>4. \E l \in DOMAIN b[i] : b[i][l] = p BY <1>3 DEF ToSet
<1>5. k \in DOMAIN b[i] /\ b[i][k] = p BY <1>4
<1> DEFINE t == RemoveAt(b[i], k)
<1> HIDE DEF k, t
<1>6. BinsOk(WithBin(b, i, t), h.marked, S, F \ {p})
  BY <1>3, <1>5, WithoutOk DEF t
<1>7. /\ SameMem(h, SetBin(h, i, t)) /\ SetBin(h, i, t).bin = WithBin(b, i, t)
      /\ SetBin(h, i, t).marked = h.marked
  BY SetBinIs
<1>8. unlink(h, p) = SetBin(h, i, t) BY <1>1 DEF t
<1>9. OfBin(WithBin(b, i, t), 1) = IF 1 = i THEN t ELSE OfBin(b, 1) BY WithBinOf
<1>10. /\ b[i] \in Seq(F) /\ Len(b[i]) \in Nat /\ DOMAIN b[i] = 1 .. Len(b[i])
  BY <1>3, BinIn
<1>11. CASE i = 1
  <2>1. Len(b[i]) = 1 BY <1>3, <1>11 DEF BinsOk, BinsSized
  <2>2. k = 1 /\ b[i][1] = p BY <2>1, <1>5, <1>10
  <2>3. b[i] = <<p>>
    <3>1. Len(<<p>>) = 1 /\ <<p>>[1] = p /\ <<p>> \in Seq(F) OBVIOUS
    <3> QED BY <3>1, <2>1, <2>2, <1>10, SeqEqual
  <2>4. t \in Seq(F) /\ Len(t) = 0 BY <2>1, <2>2, <1>10, RemovedAt DEF t
  <2>5. t = << >> BY <2>4, EmptySeq
  <2>6. OfBin(b, 1) = <<p>> BY <2>3, <1>11, <1>3 DEF OfBin
  <2>7. Bin(h, 1) = <<p>> BY <2>6, BinIs
  <2>8. Bin(SetBin(h, i, t), 1) = << >> BY <2>5, <1>7, <1>9, <1>11, BinIs
  <2> QED BY <2>7, <2>8, <1>6, <1>7, <1>8
<1>12. CASE i # 1
  <2>1. Bin(SetBin(h, i, t), 1) = Bin(h, 1) BY <1>12, <1>7, <1>9, BinIs
  <2>2. ASSUME Bin(h, 1) = <<p>> PROVE FALSE
    <3>1. 1 \in DOMAIN b /\ b[1] = <<p>>
      <4>1. <<p>> # << >> OBVIOUS
      <4> QED BY <4>1, <2>2 DEF Bin
    <3>2. In(b[1], p)
      <4>1. 1 \in DOMAIN <<p>> /\ <<p>>[1] = p OBVIOUS
      <4> QED BY <4>1, <3>1 DEF In
    <3>3. In(b[i], p) BY <1>5 DEF In
    <3> QED BY <3>1, <3>2, <3>3, <1>3, <1>12 DEF BinsOk, BinsOnce
  <2> QED BY <2>1, <2>2, <1>6, <1>7, <1>8
<1> QED BY <1>11, <1>12

\* A small bin has chunks of one size.
LEMMA SmallSizes ==
    ASSUME NEW x \in Nat, NEW y \in Nat, x >= 16, x < 512, x % 8 = 0, y >= 16, y % 8 = 0,
           bin_index(y) = bin_index(x)
    PROVE  y = x
<1>1. bin_index(x) = x \div 8 BY BinIndexIs DEF smallbin_index
<1>2. bin_index(512) >= 64
  <2>1. 512 \in Nat /\ pages(512) = 1 BY DEF pages
  <2>2. bin_index(512) = 56 + 512 \div 64 BY <2>1, BinRange
  <2> QED BY <2>2
<1>3. y < 512
  <2> SUFFICES ASSUME y >= 512 PROVE FALSE OBVIOUS
  <2>1. bin_index(512) <= bin_index(y) BY BinIndexGrows
  <2>2. x \div 8 < 64 OBVIOUS
  <2> QED BY <2>1, <2>2, <1>1, <1>2, BinIndexIs
<1>4. bin_index(y) = y \div 8 BY <1>3, BinIndexIs DEF smallbin_index
<1>5. x \div 8 = y \div 8 BY <1>1, <1>4
<1> QED BY <1>5

Descends(S, s, at, q) ==
    /\ Descending(S, s)
    /\ \A k \in DOMAIN s : k < at => S[s[k]] >= S[q]
    /\ \A k \in DOMAIN s : k >= at => S[s[k]] <= S[q]

\* A chunk put where the order has its place keeps a bin sorted.
LEMMA InsertedOk ==
    ASSUME NEW S, NEW F, NEW s \in Seq(F), NEW q, q \notin F, NEW at \in 1 .. Len(s) + 1,
           NoDup(s), Descends(S, s, at, q), \A x \in F \union {q} : S[x] \in Nat
    PROVE  LET t == InsertAt(s, at, q)
           IN /\ t \in Seq(F \union {q}) /\ NoDup(t) /\ Descending(S, t) /\ t # << >>
              /\ \A x : In(t, x) <=> In(s, x) \/ x = q
<1> DEFINE t == InsertAt(s, at, q)
           n == Len(s)
<1>1. n \in Nat /\ DOMAIN s = 1 .. n /\ at \in 1 .. n + 1 BY LenProperties
<1>2. \A k \in DOMAIN s : s[k] \in F BY <1>1, ElementOfSeq
<1>3. s \in Seq(F \union {q})
  <2>1. F \subseteq F \union {q} OBVIOUS
  <2> QED BY <2>1, SeqMonotonic
<1>4. /\ t \in Seq(F \union {q}) /\ Len(t) = n + 1
      /\ \A j \in 1 .. n + 1 : t[j] = IF j < at THEN s[j] ELSE IF j = at THEN q ELSE s[j - 1]
  <2> DEFINE G == F \union {q}
  <2>1. q \in G OBVIOUS
  <2>2. s \in Seq(G) BY <1>3
  <2>3. at \in 1 .. Len(s) + 1 BY <1>1
  <2> HIDE DEF G, t, n
  <2>4. /\ InsertAt(s, at, q) \in Seq(G) /\ Len(InsertAt(s, at, q)) = Len(s) + 1
        /\ \A j \in 1 .. Len(s) + 1 :
              InsertAt(s, at, q)[j] = IF j < at THEN s[j] ELSE IF j = at THEN q ELSE s[j - 1]
    BY ONLY <2>1, <2>2, <2>3, InsertedAt
  <2> QED BY ONLY <2>4 DEF t, n, G
<1> HIDE DEF t, n
<1>5. DOMAIN t = 1 .. n + 1 BY <1>4, LenProperties
<1> DEFINE from(j) == IF j < at THEN j ELSE j - 1
<1>6. \A j \in DOMAIN t : j # at => from(j) \in DOMAIN s /\ t[j] = s[from(j)]
  <2> TAKE j \in DOMAIN t
  <2>1. CASE j < at BY <2>1, <1>1, <1>4, <1>5
  <2>2. CASE j > at BY <2>2, <1>1, <1>4, <1>5
  <2> QED BY <2>1, <2>2, <1>1, <1>5
<1>7. at \in DOMAIN t /\ t[at] = q BY <1>1, <1>4, <1>5
<1>8. \A j, l \in DOMAIN t : j # at /\ l # at =>
          /\ from(j) = from(l) => j = l
          /\ j < l => from(j) < from(l)
  BY <1>1, <1>5
<1>9. \A j \in DOMAIN t : /\ j < at => from(j) < at
                          /\ j > at => from(j) >= at
  BY <1>1, <1>5
<1>10. \A k \in DOMAIN s : \E j \in DOMAIN t : j # at /\ from(j) = k
  <2> TAKE k \in DOMAIN s
  <2>1. CASE k < at
    <3>1. k \in DOMAIN t /\ k # at /\ from(k) = k BY <2>1, <1>1, <1>5
    <3> QED BY <3>1
  <2>2. CASE k >= at
    <3>1. k + 1 \in DOMAIN t /\ k + 1 # at /\ from(k + 1) = k BY <2>2, <1>1, <1>5
    <3> QED BY <3>1
  <2> QED BY <2>1, <2>2, <1>1
<1> HIDE DEF from
<1>11. NoDup(t)
  <2> SUFFICES ASSUME NEW j \in DOMAIN t, NEW l \in DOMAIN t, t[j] = t[l] PROVE j = l
    BY DEF NoDup
  <2>1. CASE j = at \/ l = at BY <2>1, <1>2, <1>6, <1>7
  <2>2. CASE j # at /\ l # at
    <3>1. from(j) \in DOMAIN s /\ from(l) \in DOMAIN s /\ s[from(j)] = s[from(l)]
      BY <2>2, <1>6
    <3>2. from(j) = from(l) BY <3>1 DEF NoDup
    <3> QED BY <3>2, <2>2, <1>8
  <2> QED BY <2>1, <2>2
<1>12. Descending(S, t)
  <2> SUFFICES ASSUME NEW j \in DOMAIN t, NEW l \in DOMAIN t, j < l PROVE S[t[j]] >= S[t[l]]
    BY DEF Descending
  <2>1. CASE j = at
    <3>1. l # at /\ l > at BY <2>1, <1>5, <1>1
    <3>2. from(l) \in DOMAIN s /\ t[l] = s[from(l)] /\ from(l) >= at BY <3>1, <1>6, <1>9
    <3>3. S[s[from(l)]] <= S[q] BY <3>2 DEF Descends
    <3>4. S[q] \in Nat /\ S[s[from(l)]] \in Nat BY <3>2, <1>2
    <3> QED BY <3>2, <3>3, <3>4, <2>1, <1>7
  <2>2. CASE l = at
    <3>1. j # at /\ j < at BY <2>2, <1>5, <1>1
    <3>2. from(j) \in DOMAIN s /\ t[j] = s[from(j)] /\ from(j) < at BY <3>1, <1>6, <1>9
    <3>3. S[s[from(j)]] >= S[q] BY <3>2 DEF Descends
    <3> QED BY <3>2, <3>3, <2>2, <1>7
  <2>3. CASE j # at /\ l # at
    <3>1. /\ from(j) \in DOMAIN s /\ t[j] = s[from(j)]
          /\ from(l) \in DOMAIN s /\ t[l] = s[from(l)] /\ from(j) < from(l)
      BY <2>3, <1>6, <1>8
    <3> QED BY <3>1 DEF Descends, Descending
  <2> QED BY <2>1, <2>2, <2>3
<1>13. \A x : In(t, x) <=> In(s, x) \/ x = q
  <2> TAKE x
  <2>1. ASSUME In(t, x), x # q PROVE In(s, x)
    <3>1. PICK j \in DOMAIN t : t[j] = x BY <2>1 DEF In
    <3>2. j # at BY <3>1, <2>1, <1>7
    <3> QED BY <3>1, <3>2, <1>6 DEF In
  <2>2. ASSUME In(s, x) PROVE In(t, x)
    <3>1. PICK k \in DOMAIN s : s[k] = x BY <2>2 DEF In
    <3>2. PICK j \in DOMAIN t : j # at /\ from(j) = k BY <1>10
    <3> QED BY <3>1, <3>2, <1>6 DEF In
  <2>3. In(t, q) BY <1>7 DEF In
  <2> QED BY <2>1, <2>2, <2>3
<1>14. t # << >>
  <2>1. Len(t) # 0 BY <1>1, <1>4
  <2>2. Len(<< >>) = 0 BY EmptySeq
  <2> QED BY <2>1, <2>2
<1>15. t \in Seq(F \union {q}) BY <1>4
<1> QED BY <1>11, <1>12, <1>13, <1>14, <1>15 DEF t

\* Sizes as free chunks have them.
SizedFree(S, F) == \A x \in F : S[x] \in Nat /\ S[x] >= 16 /\ S[x] % 8 = 0

\* The sequence and the index of a bin, as frontlink() leaves them.
FrontAt(h, s, size) ==
    IF size < 512 THEN 1
    ELSE IF {k \in DOMAIN s : chunksize(h, s[k]) <= size} = {} THEN Len(s) + 1
    ELSE Min({k \in DOMAIN s : chunksize(h, s[k]) <= size})

\* frontlink() finds that place.
LEMMA FrontPlace ==
    ASSUME NEW h, NEW S, NEW F, NEW q, NEW s \in Seq(F),
           SizedFree(S, F \union {q}), Descending(S, s), Indexed(S, s, bin_index(S[q])),
           \A x \in F : chunksize(h, x) = S[x]
    PROVE  FrontAt(h, s, S[q]) \in 1 .. Len(s) + 1 /\ Descends(S, s, FrontAt(h, s, S[q]), q)
<1> DEFINE n == Len(s)
           low == {k \in DOMAIN s : chunksize(h, s[k]) <= S[q]}
           small == S[q] < 512
           at == FrontAt(h, s, S[q])
<1>1. n \in Nat /\ DOMAIN s = 1 .. n BY LenProperties
<1>2. \A k \in DOMAIN s : s[k] \in F BY <1>1, ElementOfSeq
<1>3. \A k \in DOMAIN s : S[s[k]] \in Nat /\ chunksize(h, s[k]) = S[s[k]] BY <1>2 DEF SizedFree
<1>4. S[q] \in Nat BY DEF SizedFree
<1>5. low = {k \in DOMAIN s : S[s[k]] <= S[q]} BY <1>3
<1>6. at = IF small THEN 1 ELSE IF low = {} THEN n + 1 ELSE Min(low) BY DEF FrontAt
<1> HIDE DEF n, low, at
<1> SUFFICES at \in 1 .. n + 1 /\ Descends(S, s, at, q) BY DEF at, n
<1>7. CASE small
  <2>1. at = 1 BY <1>6, <1>7
  <2>2. \A k \in DOMAIN s : S[s[k]] = S[q]
    <3> TAKE k \in DOMAIN s
    <3>1. S[q] < 512 BY <1>7
    <3>2. bin_index(S[s[k]]) = bin_index(S[q]) BY DEF Indexed
    <3>3. S[s[k]] \in Nat /\ S[s[k]] >= 16 /\ S[s[k]] % 8 = 0 /\ S[q] >= 16 /\ S[q] % 8 = 0
      BY <1>2 DEF SizedFree
    <3> QED BY <3>1, <3>2, <3>3, <1>4, SmallSizes
  <2>3. \A k \in DOMAIN s : k >= 1 BY <1>1
  <2> QED BY <2>1, <2>2, <2>3, <1>1, <1>4 DEF Descends
<1>8. CASE ~small /\ low = {}
  <2>1. at = n + 1 BY <1>6, <1>8
  <2>2. \A k \in DOMAIN s : S[s[k]] >= S[q] BY <1>3, <1>4, <1>5, <1>8
  <2>3. \A k \in DOMAIN s : ~(k >= at) BY <1>1, <2>1
  <2> QED BY <2>1, <2>2, <2>3, <1>1 DEF Descends
<1>9. CASE ~small /\ low # {}
  <2>1. at = Min(low) BY <1>6, <1>9
  <2>2. low \subseteq Nat BY <1>1, <1>5
  <2>3. at \in low /\ \A y \in low : at <= y BY <2>1, <2>2, <1>9, MinIs
  <2>4. at \in 1 .. n BY <2>3, <1>1, <1>5
  <2>5. \A k \in DOMAIN s : k < at => S[s[k]] >= S[q]
    <3> SUFFICES ASSUME NEW k \in DOMAIN s, k < at PROVE S[s[k]] >= S[q] OBVIOUS
    <3>1. k \notin low BY <2>3, <2>4, <1>1
    <3> QED BY <3>1, <1>3, <1>4, <1>5
  <2>6. \A k \in DOMAIN s : k >= at => S[s[k]] <= S[q]
    <3> SUFFICES ASSUME NEW k \in DOMAIN s, k >= at PROVE S[s[k]] <= S[q] OBVIOUS
    <3>1. S[s[at]] <= S[q] /\ at \in DOMAIN s BY <2>3, <1>5
    <3>2. CASE k = at BY <3>1, <3>2
    <3>3. CASE k > at
      <4>1. S[s[at]] >= S[s[k]] BY <3>1, <3>3 DEF Descending
      <4> QED BY <4>1, <3>1, <1>3, <1>4
    <3> QED BY <3>2, <3>3, <2>4, <1>1
  <2>7. at \in 1 .. n + 1 BY <2>4, <1>1
  <2> QED BY <2>5, <2>6, <2>7 DEF Descends
<1> QED BY <1>7, <1>8, <1>9

\* frontlink() puts one chunk into the bin of its size, and marks it.
LEMMA Frontlinked ==
    ASSUME NEW h, NEW S, NEW F, NEW q, NEW size, IsHeap(h), BinsOk(h.bin, h.marked, S, F),
           q \notin F, S[q] = size, SizedFree(S, F \union {q}),
           \A x \in F : chunksize(h, x) = S[x]
    PROVE  /\ SameMem(h, frontlink(h, q, size))
           /\ BinsOk(frontlink(h, q, size).bin, frontlink(h, q, size).marked, S, F \union {q})
           /\ Bin(frontlink(h, q, size), 1) = Bin(h, 1)
<1> DEFINE small == size < 512
           i == bin_index(size)
           s == Bin(h, i)
           low == {k \in DOMAIN s : chunksize(h, s[k]) <= size}
           at == IF small THEN 1 ELSE IF low = {} THEN Len(s) + 1 ELSE Min(low)
           t == InsertAt(s, at, q)
           new == IF small \/ s = << >> THEN {idx2binblock(i)} ELSE {}
           g == SetBin(h, i, t)
           m == g.marked \union new
<1>1. size \in Nat /\ size >= 16 BY DEF SizedFree
<1>2. i \in Nat /\ i >= 2 /\ (small => i = smallbin_index(size)) BY <1>1, BinIndexIs
<1>3. frontlink(h, q, size) = [g EXCEPT !.marked = m]
  <2>1. (IF small THEN smallbin_index(size) ELSE bin_index(size)) = i BY <1>2, ZenonT(40)
  <2> HIDE DEF i
  <2> QED BY <2>1, ZenonT(40) DEF frontlink, MAX_SMALLBIN_SIZE
<1>4. s = OfBin(h.bin, i) BY BinIs
<1> HIDE DEF s, i
<1>5. s \in Seq(F) /\ NoDup(s) /\ Descending(S, s) /\ Indexed(S, s, i)
  <2>1. CASE i \in DOMAIN h.bin
    <3>1. s = h.bin[i] BY <2>1, <1>4 DEF OfBin
    <3>2. i # 1 BY <1>2
    <3> QED BY <3>1, <3>2, <2>1 DEF BinsOk, BinsShape, BinsOnce, BinsSized
  <2>2. CASE i \notin DOMAIN h.bin
    <3>1. s = << >> BY <2>2, <1>4 DEF OfBin
    <3>2. << >> \in Seq(F) /\ Len(<< >>) = 0 BY EmptySeq
    <3>3. DOMAIN s = {} BY <3>1, <3>2, LenProperties
    <3> QED BY <3>1, <3>2, <3>3 DEF NoDup, Descending, Indexed
  <2> QED BY <2>1, <2>2
<1>6. at \in 1 .. Len(s) + 1 /\ Descends(S, s, at, q)
  <2>1. at = FrontAt(h, s, S[q]) BY DEF FrontAt
  <2>2. i = bin_index(S[q]) BY DEF i
  <2> HIDE DEF at
  <2> QED BY <2>1, <2>2, <1>5, FrontPlace
<1>7. \A x \in F \union {q} : S[x] \in Nat BY DEF SizedFree
<1> HIDE DEF at
<1>8. /\ t \in Seq(F \union {q}) /\ NoDup(t) /\ Descending(S, t) /\ t # << >>
      /\ \A x : In(t, x) <=> In(s, x) \/ x = q
  BY <1>5, <1>6, <1>7, InsertedOk
<1> HIDE DEF t
<1>9. Replaces(h.bin, i, t, F, F \union {q})
  <2>1. \A p \in F \union {q} : In(t, p) \/ (p \in F /\ ~In(s, p)) BY <1>8
  <2>2. \A p \in F : In(s, p) \/ (p \in F \union {q} /\ ~In(t, p)) BY <1>8
  <2> QED BY <2>1, <2>2, <1>4, <1>8 DEF Replaces
<1>10. /\ SameMem(h, g) /\ g.bin = WithBin(h.bin, i, t) /\ g.marked = h.marked
  BY SetBinIs
<1>11. idx2binblock(i) \in m
  <2>1. CASE small \/ s = << >> BY <2>1
  <2>2. CASE ~small /\ s # << >>
    <3>1. i \in DOMAIN h.bin BY <2>2, <1>4 DEF OfBin
    <3>2. i # 1 BY <1>2
    <3>3. idx2binblock(i) \in h.marked BY <3>1, <3>2 DEF BinsOk, BinsSized
    <3> QED BY <3>3, <1>10
  <2> QED BY <2>1, <2>2
<1>12. h.marked \subseteq m BY <1>10
<1>13. Indexed(S, t, i)
  <2>1. \A k \in DOMAIN t : t[k] = q \/ In(s, t[k])
    <3> TAKE k \in DOMAIN t
    <3>1. In(t, t[k]) BY DEF In
    <3> QED BY <3>1, <1>8
  <2>2. \A k \in DOMAIN t : In(s, t[k]) => bin_index(S[t[k]]) = i BY <1>5 DEF In, Indexed
  <2>3. bin_index(S[q]) = i BY DEF i
  <2> QED BY <2>1, <2>2, <2>3 DEF Indexed
<1> HIDE DEF m
<1>14. BinsOk(WithBin(h.bin, i, t), m, S, F \union {q})
  <2>1. i # 1 /\ i > 0 BY <1>2
  <2> QED BY <2>1, <1>2, <1>8, <1>9, <1>11, <1>12, <1>13, WithBinOk
<1>15. IsHeap(g) BY <1>10 DEF SameMem
<1> HIDE DEF g
<1>16. /\ SameMem(g, [g EXCEPT !.marked = m]) /\ [g EXCEPT !.marked = m].bin = g.bin
       /\ [g EXCEPT !.marked = m].marked = m
  BY <1>15, MarkedIs
<1>17. SameMem(h, [g EXCEPT !.marked = m]) BY <1>10, <1>16, SameMemTrans
<1>18. Bin([g EXCEPT !.marked = m], 1) = Bin(h, 1)
  <2>1. 1 # i BY <1>2
  <2>2. OfBin(WithBin(h.bin, i, t), 1) = OfBin(h.bin, 1) BY <2>1, WithBinOf
  <2> QED BY <2>2, <1>10, <1>16, BinIs
<1> QED BY <1>3, <1>10, <1>14, <1>16, <1>17, <1>18

-----------------------------------------------------------------------------
(* The last remainder.                                                      *)

\* Membership in a sequence.
LEMMA InToSet ==
    ASSUME NEW s
    PROVE  \A p : p \in ToSet(s) <=> In(s, p)
BY DEF ToSet, In

\* Sequences of one element, and of none.
LEMMA ToSetOne ==
    ASSUME NEW p
    PROVE  ToSet(<<p>>) = {p} /\ ToSet(<< >>) = {} /\ <<p>> # << >>
<1>1. DOMAIN <<p>> = {1} /\ <<p>>[1] = p
  <2>1. <<p>> \in Seq({p}) /\ Len(<<p>>) = 1 /\ <<p>>[1] = p OBVIOUS
  <2>2. 1 .. 1 = {1} OBVIOUS
  <2> QED BY <2>1, <2>2, LenProperties
<1>2. DOMAIN << >> = {}
  <2>1. << >> \in Seq({p}) /\ Len(<< >>) = 0 BY EmptySeq
  <2> QED BY <2>1, LenProperties
<1> QED BY <1>1, <1>2 DEF ToSet

\* The last remainder is one chunk, or none.
LEMMA LastShape ==
    ASSUME NEW h, NEW S, NEW m, NEW F, BinsOk(h.bin, m, S, F)
    PROVE  /\ ToSet(Bin(h, 1)) \subseteq F
           /\ Bin(h, 1) = << >> \/ \E p \in F : Bin(h, 1) = <<p>>
<1>1. CASE 1 \in DOMAIN h.bin
  <2>1. Bin(h, 1) = h.bin[1] BY <1>1 DEF Bin
  <2>2. h.bin[1] \in Seq(F) /\ DOMAIN h.bin[1] = 1 .. Len(h.bin[1])
        /\ \A k \in DOMAIN h.bin[1] : h.bin[1][k] \in F
    BY <1>1, BinIn
  <2>3. Len(h.bin[1]) = 1 BY <1>1 DEF BinsOk, BinsSized
  <2> DEFINE p == h.bin[1][1]
  <2>4. p \in F BY <2>2, <2>3
  <2>5. h.bin[1] = <<p>>
    <3> HIDE DEF p
    <3>1. <<p>> \in Seq(F) /\ Len(<<p>>) = 1 /\ <<p>>[1] = p BY <2>4
    <3>2. \A i \in 1 .. Len(h.bin[1]) : h.bin[1][i] = <<p>>[i] BY <2>3, <3>1 DEF p
    <3> QED BY <3>1, <3>2, <2>2, <2>3, SeqEqual
  <2>6. ToSet(Bin(h, 1)) = {p} BY <2>1, <2>5, ToSetOne
  <2> QED BY <2>1, <2>4, <2>5, <2>6
<1>2. CASE 1 \notin DOMAIN h.bin
  <2>1. Bin(h, 1) = << >> BY <1>2 DEF Bin
  <2> QED BY <2>1, ToSetOne
<1> QED BY <1>1, <1>2

\* link_last_remainder() replaces the last remainder.
LEMMA LastLinked ==
    ASSUME NEW h, NEW S, NEW F, NEW q, IsHeap(h), BinsOk(h.bin, h.marked, S, F),
           q \notin F \ ToSet(Bin(h, 1))
    PROVE  /\ SameMem(h, link_last_remainder(h, q))
           /\ BinsOk(link_last_remainder(h, q).bin, h.marked, S,
                     (F \ ToSet(Bin(h, 1))) \union {q})
           /\ link_last_remainder(h, q).marked = h.marked
           /\ Bin(link_last_remainder(h, q), 1) = <<q>>
<1> DEFINE L == ToSet(Bin(h, 1))
           G == (F \ L) \union {q}
           s == <<q>>
<1>1. /\ SameMem(h, SetBin(h, 1, s)) /\ SetBin(h, 1, s).bin = WithBin(h.bin, 1, s)
      /\ SetBin(h, 1, s).marked = h.marked
  BY SetBinIs
<1>2. link_last_remainder(h, q) = SetBin(h, 1, s) BY DEF link_last_remainder, last_remainder
<1>3. \A x : In(s, x) <=> x = q BY InToSet, ToSetOne
<1>4. \A x : In(OfBin(h.bin, 1), x) <=> x \in L BY InToSet, BinIs
<1>5. s \in Seq(G) /\ Len(s) = 1 OBVIOUS
<1>6. NoDup(s)
  <2>1. DOMAIN s = 1 .. 1 BY <1>5, LenProperties
  <2> HIDE DEF s
  <2> QED BY <2>1 DEF NoDup
<1>7. s # << >> BY ToSetOne
<1> HIDE DEF s, L
<1>8. Replaces(h.bin, 1, s, F, G)
  <2>1. \A x \in G : In(s, x) \/ (x \in F /\ ~In(OfBin(h.bin, 1), x)) BY <1>3, <1>4
  <2>2. q \notin F \ L BY DEF L
  <2>3. \A x \in F : In(OfBin(h.bin, 1), x) \/ (x \in G /\ ~In(s, x)) BY <2>2, <1>3, <1>4
  <2> QED BY <2>1, <2>3, <1>5, <1>6 DEF Replaces
<1> HIDE DEF G
<1>9. BinsOk(WithBin(h.bin, 1, s), h.marked, S, G)
  <2>1. h.marked \subseteq h.marked /\ Len(s) <= 1 /\ 1 \in Nat /\ 1 > 0 BY <1>5
  <2> QED BY <2>1, <1>8, WithBinOk
<1>10. Bin(SetBin(h, 1, s), 1) = s BY <1>1, WithBinOf, BinIs
<1> QED BY <1>1, <1>2, <1>9, <1>10 DEF G, L, s

\* clear_last_remainder() takes it away.
LEMMA LastCleared ==
    ASSUME NEW h, NEW S, NEW F, IsHeap(h), BinsOk(h.bin, h.marked, S, F)
    PROVE  /\ SameMem(h, clear_last_remainder(h))
           /\ BinsOk(clear_last_remainder(h).bin, h.marked, S, F \ ToSet(Bin(h, 1)))
           /\ clear_last_remainder(h).marked = h.marked
           /\ Bin(clear_last_remainder(h), 1) = << >>
<1> DEFINE L == ToSet(Bin(h, 1))
           s == << >>
<1>1. /\ SameMem(h, SetBin(h, 1, s)) /\ SetBin(h, 1, s).bin = WithBin(h.bin, 1, s)
      /\ SetBin(h, 1, s).marked = h.marked
  BY SetBinIs
<1>2. clear_last_remainder(h) = SetBin(h, 1, s) BY DEF clear_last_remainder, last_remainder
<1>3. \A x : ~In(s, x) BY InToSet, ToSetOne
<1>4. \A x : In(OfBin(h.bin, 1), x) <=> x \in L BY InToSet, BinIs
<1>5. s \in Seq(F \ L) /\ Len(s) = 0 BY EmptySeq
<1>6. NoDup(s) BY <1>3 DEF NoDup, In
<1> HIDE DEF s, L
<1>8. Replaces(h.bin, 1, s, F, F \ L) BY <1>3, <1>4, <1>5, <1>6 DEF Replaces
<1>9. BinsOk(WithBin(h.bin, 1, s), h.marked, S, F \ L)
  <2>1. h.marked \subseteq h.marked /\ Len(s) <= 1 /\ 1 \in Nat /\ 1 > 0 BY <1>5
  <2> QED BY <2>1, <1>8, WithBinOk
<1>10. Bin(SetBin(h, 1, s), 1) = s BY <1>1, WithBinOf, BinIs
<1> QED BY <1>1, <1>2, <1>9, <1>10 DEF L, s

\* Only the sizes of chunks in bins by size matter.
LEMMA BinsSizes ==
    ASSUME NEW b, NEW m, NEW S, NEW T, NEW F, BinsOk(b, m, S, F),
           \A p \in F : In(OfBin(b, 1), p) \/ T[p] = S[p]
    PROVE  BinsOk(b, m, T, F)
<1> SUFFICES BinsSized(b, m, T) BY DEF BinsOk
<1>1. \A i \in DOMAIN b \ {1} : \A k \in DOMAIN b[i] : T[b[i][k]] = S[b[i][k]]
  <2> TAKE i \in DOMAIN b \ {1}
  <2> TAKE k \in DOMAIN b[i]
  <2>1. b[i][k] \in F BY BinIn
  <2>2. In(b[i], b[i][k]) BY DEF In
  <2>3. 1 \in DOMAIN b => ~In(b[1], b[i][k]) BY <2>2 DEF BinsOk, BinsOnce
  <2>4. ~In(OfBin(b, 1), b[i][k])
    <3>1. \A x : ~In(<< >>, x) BY InToSet, ToSetOne
    <3> QED BY <3>1, <2>3 DEF OfBin
  <2> QED BY <2>1, <2>4
<1>2. \A i \in DOMAIN b \ {1} :
          Indexed(S, b[i], i) /\ Descending(S, b[i]) /\ idx2binblock(i) \in m
  BY DEF BinsOk, BinsSized
<1>3. \A i \in DOMAIN b \ {1} : Indexed(T, b[i], i) BY <1>1, <1>2 DEF Indexed
<1>4. \A i \in DOMAIN b \ {1} : Descending(T, b[i]) BY <1>1, <1>2 DEF Descending
<1>5. 1 \in DOMAIN b => Len(b[1]) = 1 BY DEF BinsOk, BinsSized
<1> QED BY <1>2, <1>3, <1>4, <1>5 DEF BinsSized

\* Only the marks of bins that are not empty matter.
LEMMA BinsMarks ==
    ASSUME NEW b, NEW m, NEW n, NEW S, NEW F, BinsOk(b, m, S, F),
           \A i \in DOMAIN b \ {1} : idx2binblock(i) \in n
    PROVE  BinsOk(b, n, S, F)
BY DEF BinsOk, BinsSized

-----------------------------------------------------------------------------
(* The bins while free() merges a chunk with its neighbours.                *)

\* The bins hold F, and q only as the last remainder.
LooseAt(g, S, F, q) ==
    IsHeap(g) /\ BinsOk(g.bin, g.marked, S, F) /\ (q \in F => Bin(g, 1) = <<q>>)

\* The bins hold D, and perhaps q as the last remainder.
LooseSet(g, S, D, q) == \E F : LooseAt(g, S, F, q) /\ F \ {q} = D

\* IsLastRemainder() compares.
LEMMA LastIs ==
    ASSUME NEW h, NEW q
    PROVE  IsLastRemainder(h, q) <=> Bin(h, 1) = <<q>>
BY DEF IsLastRemainder, last_remainder

\* Sequences of one element are equal if the elements are.
LEMMA OneIs ==
    ASSUME NEW p, NEW q, <<p>> = <<q>>
    PROVE  p = q
<1>1. <<p>>[1] = p /\ <<q>>[1] = q OBVIOUS
<1> QED BY <1>1

Loosen(h, q) == IF IsLastRemainder(h, q) THEN h ELSE unlink(h, q)

\* The chunk before leaves its bin, unless it is the last remainder.
LEMMA Loosened ==
    ASSUME NEW h, NEW S, NEW F, NEW q \in F, IsHeap(h), BinsOk(h.bin, h.marked, S, F)
    PROVE  SameMem(h, Loosen(h, q)) /\ LooseSet(Loosen(h, q), S, F \ {q}, q)
<1> DEFINE g == Loosen(h, q)
<1>0. g = IF IsLastRemainder(h, q) THEN h ELSE unlink(h, q) BY DEF Loosen
<1> HIDE DEF g
<1> SUFFICES SameMem(h, g) /\ \E G : LooseAt(g, S, G, q) /\ G \ {q} = F \ {q} BY DEF g, LooseSet
<1>1. CASE IsLastRemainder(h, q)
  <2>1. g = h /\ Bin(h, 1) = <<q>> BY <1>0, <1>1, LastIs
  <2>2. LooseAt(g, S, F, q) BY <2>1 DEF LooseAt
  <2>3. SameMem(h, g) BY <2>1, SameMemRefl
  <2> QED BY <2>2, <2>3
<1>2. CASE ~IsLastRemainder(h, q)
  <2>1. g = unlink(h, q) BY <1>0, <1>2
  <2>2. SameMem(h, g) /\ BinsOk(g.bin, h.marked, S, F \ {q}) /\ g.marked = h.marked
    BY ONLY <2>1, Unlinked, IsHeap(h), BinsOk(h.bin, h.marked, S, F), q \in F
  <2>3. IsHeap(g) BY <2>2 DEF SameMem
  <2>4. LooseAt(g, S, F \ {q}, q) BY <2>2, <2>3 DEF LooseAt
  <2>5. (F \ {q}) \ {q} = F \ {q} OBVIOUS
  <2> QED BY <2>2, <2>4, <2>5
<1> QED BY <1>1, <1>2

\* The chunk behind leaves its bin; the last remainder may become the merged chunk.
LEMMA NextTaken ==
    ASSUME NEW h, NEW S, NEW D, NEW q, NEW next \in D, LooseSet(h, S, D, q)
    PROVE  /\ SameMem(h, TakeNext(h, q, next))
           /\ LooseSet(TakeNext(h, q, next), S, D \ {next}, q)
<1>0. PICK F : LooseAt(h, S, F, q) /\ F \ {q} = D BY DEF LooseSet
<1> SUFFICES /\ SameMem(h, TakeNext(h, q, next))
             /\ \E G : LooseAt(TakeNext(h, q, next), S, G, q) /\ G \ {q} = D \ {next}
  BY DEF LooseSet
<1>a. next \in F /\ next # q BY <1>0
<1>1. IsHeap(h) /\ BinsOk(h.bin, h.marked, S, F) /\ (q \in F => Bin(h, 1) = <<q>>)
  BY <1>0 DEF LooseAt
<1>2. CASE Bin(h, 1) = <<next>>
  <2>1. q \notin F
    <3> SUFFICES ASSUME q \in F PROVE FALSE OBVIOUS
    <3>1. <<next>> = <<q>> BY <1>1, <1>2
    <3> QED BY <3>1, <1>a, OneIs
  <2>2. ToSet(Bin(h, 1)) = {next} BY <1>2, ToSetOne
  <2> DEFINE g == link_last_remainder(h, q)
             G == (F \ {next}) \union {q}
  <2>3. TakeNext(h, q, next) = g BY <1>2, LastIs DEF TakeNext
  <2>4. /\ SameMem(h, g) /\ BinsOk(g.bin, h.marked, S, G) /\ g.marked = h.marked
        /\ Bin(g, 1) = <<q>>
    BY <1>1, <2>1, <2>2, LastLinked
  <2> HIDE DEF g
  <2>5. IsHeap(g) BY <2>4 DEF SameMem
  <2>6. LooseAt(g, S, G, q) BY <2>4, <2>5 DEF LooseAt
  <2>7. G \ {q} = D \ {next} BY <1>0, <1>a
  <2> HIDE DEF G
  <2> QED BY <2>3, <2>4, <2>6, <2>7
<1>3. CASE Bin(h, 1) # <<next>>
  <2> DEFINE g == unlink(h, next)
             G == F \ {next}
  <2>1. TakeNext(h, q, next) = g BY <1>3, LastIs DEF TakeNext
  <2>2. SameMem(h, g) /\ BinsOk(g.bin, h.marked, S, G) /\ g.marked = h.marked
        /\ Bin(g, 1) = Bin(h, 1)
    BY ONLY <1>1, <1>3, <1>a, Unlinked
  <2> HIDE DEF g
  <2>3. IsHeap(g) BY <2>2 DEF SameMem
  <2>4. LooseAt(g, S, G, q) BY <1>1, <2>2, <2>3 DEF LooseAt
  <2>5. G \ {q} = D \ {next} BY <1>0, <1>a
  <2> HIDE DEF G
  <2> QED BY <2>1, <2>2, <2>4, <2>5
<1> QED BY <1>2, <1>3

\* The merged chunk goes into its bin, or stays the last remainder.
LEMMA BinnedAt ==
    ASSUME NEW h, NEW S, NEW F, NEW q, NEW size, LooseAt(h, S, F, q), S[q] = size,
           SizedFree(S, F \union {q}), \A x \in F : chunksize(h, x) = S[x]
    PROVE  /\ SameMem(h, PutInBin(h, q, size))
           /\ BinsOk(PutInBin(h, q, size).bin, PutInBin(h, q, size).marked, S, F \union {q})
<1>1. IsHeap(h) /\ BinsOk(h.bin, h.marked, S, F) /\ (q \in F => Bin(h, 1) = <<q>>)
  BY DEF LooseAt
<1>2. CASE Bin(h, 1) = <<q>>
  <2>1. PutInBin(h, q, size) = h BY <1>2, LastIs DEF PutInBin
  <2>2. q \in F
    <3>1. ToSet(Bin(h, 1)) = {q} BY <1>2, ToSetOne
    <3> QED BY <3>1, <1>1, LastShape
  <2>3. F \union {q} = F BY <2>2
  <2>4. SameMem(h, h) BY <1>1, SameMemRefl
  <2> QED BY <1>1, <2>1, <2>3, <2>4
<1>3. CASE Bin(h, 1) # <<q>>
  <2>1. PutInBin(h, q, size) = frontlink(h, q, size) BY <1>3, LastIs DEF PutInBin
  <2>2. q \notin F BY <1>1, <1>3
  <2> QED BY <1>1, <2>1, <2>2, Frontlinked
<1> QED BY <1>2, <1>3

-----------------------------------------------------------------------------
(* Heaps that differ in words, and what a heap is.                          *)

\* g has other words than h, and is the same otherwise.
Wrote(h, g) ==
    /\ IsHeap(g) /\ SameSys(h, g)
    /\ g.top = h.top /\ g.bin = h.bin /\ g.marked = h.marked

\* Two steps that write words are one.
LEMMA WroteTrans ==
    ASSUME NEW h, NEW g, NEW k, Wrote(h, g), Wrote(g, k)
    PROVE  Wrote(h, k)
BY DEF Wrote, SameSys

\* No step at all writes no word.
LEMMA WroteRefl ==
    ASSUME NEW h, IsHeap(h)
    PROVE  Wrote(h, h)
BY DEF Wrote, SameSys

\* set_head() writes a size, with PREV_INUSE.
LEMMA SetHeadIs ==
    ASSUME NEW h, NEW p, NEW n, IsHeap(h)
    PROVE  /\ Wrote(h, set_head(h, p, n))
           /\ \A x : Word(set_head(h, p, n), x) = IF x = p + 4 THEN n + 1 ELSE Word(h, x)
BY PutIs DEF set_head, Wrote, SIZE_SZ

\* set_head_size() writes a size and keeps PREV_INUSE.
LEMMA SetHeadSizeIs ==
    ASSUME NEW h, NEW p, NEW n, IsHeap(h)
    PROVE  /\ Wrote(h, set_head_size(h, p, n))
           /\ \A x : Word(set_head_size(h, p, n), x) =
                        IF x = p + 4 THEN n + (HeadOf(h, p) % 2) ELSE Word(h, x)
BY PutIs DEF set_head_size, Wrote, SIZE_SZ

\* SetFree() writes the size of a free chunk at both ends.
LEMMA SetFreeIs ==
    ASSUME NEW h, NEW p, NEW n, IsHeap(h)
    PROVE  /\ Wrote(h, SetFree(h, p, n))
           /\ \A x : Word(SetFree(h, p, n), x) =
                        IF x = p + n THEN n ELSE IF x = p + 4 THEN n + 1 ELSE Word(h, x)
<1> DEFINE g == set_head(h, p, n)
<1>1. /\ Wrote(h, g)
      /\ \A x : Word(g, x) = IF x = p + 4 THEN n + 1 ELSE Word(h, x)
  BY SetHeadIs
<1>2. SetFree(h, p, n) = Put(g, p + n, n) BY DEF SetFree, set_foot
<1> HIDE DEF g
<1>3. IsHeap(g) BY <1>1 DEF Wrote
<1>4. Wrote(g, Put(g, p + n, n)) BY <1>3, PutIs DEF Wrote
<1>5. \A x : Word(Put(g, p + n, n), x) = IF x = p + n THEN n ELSE Word(g, x) BY <1>3, PutIs
<1>6. Wrote(h, Put(g, p + n, n)) BY <1>1, <1>4, WroteTrans
<1> QED BY <1>1, <1>2, <1>5, <1>6

\* set_inuse_bit_at_offset() sets PREV_INUSE of the next chunk.
LEMMA SetInuseIs ==
    ASSUME NEW h, NEW p, IsHeap(h)
    PROVE  /\ Wrote(h, set_inuse_bit(h, p))
           /\ \A x : Word(set_inuse_bit(h, p), x) =
                        IF x = p + 4 THEN (HeadOf(h, p) \div 2) * 2 + 1 ELSE Word(h, x)
BY PutIs DEF set_inuse_bit, Wrote, SIZE_SZ

\* clear_inuse_bit_at_offset() clears it.
LEMMA ClearInuseIs ==
    ASSUME NEW h, NEW p, IsHeap(h)
    PROVE  /\ Wrote(h, clear_inuse_bit(h, p))
           /\ \A x : Word(clear_inuse_bit(h, p), x) =
                        IF x = p + 4 THEN chunksize(h, p) ELSE Word(h, x)
BY PutIs DEF clear_inuse_bit, Wrote, SIZE_SZ

\* g differs from h in its top only.
LEMMA SetTopIs ==
    ASSUME NEW h, NEW t, IsHeap(h)
    PROVE  LET g == [h EXCEPT !.top = t]
           IN /\ IsHeap(g) /\ SameSys(h, g) /\ g.top = t
              /\ g.bin = h.bin /\ g.marked = h.marked
              /\ \A x : Word(g, x) = Word(h, x)
<1> DEFINE g == [h EXCEPT !.top = t]
<1>1. g = [mem |-> h.mem, bin |-> h.bin, marked |-> h.marked, top |-> t,
            brk |-> h.brk, start |-> h.start, end |-> h.end, base |-> h.base,
            high |-> h.high, fence |-> h.fence,
            trim_threshold |-> h.trim_threshold, top_pad |-> h.top_pad]
  BY DEF IsHeap
<1> HIDE DEF g
<1>3. g.bin = h.bin /\ g.mem = h.mem /\ g.marked = h.marked /\ g.top = t /\ SameSys(h, g)
  BY <1>1 DEF SameSys
<1>4. \A x : Word(g, x) = Word(h, x) BY <1>3 DEF Word
<1>5. h.mem = [a \in DOMAIN h.mem |-> h.mem[a]] /\ h.bin = [a \in DOMAIN h.bin |-> h.bin[a]] BY DEF IsHeap
<1>6. IsHeap(g) BY <1>1, <1>5 DEF IsHeap
<1> QED BY <1>3, <1>4, <1>6 DEF g

\* What the system gave contains the chunks.
SysOk(h, S) ==
    /\ h.start \in Nat /\ h.start > 0 /\ h.brk \in Nat /\ h.end \in Nat
    /\ h.start <= h.brk /\ h.brk <= h.end
    /\ h.top_pad \in TopPads \union {0}
    /\ h.top # 0 => h.top + S[h.top] <= h.brk /\ h.base # -1

\* The chunks of h: S their sizes, F the free ones, U those of programs.
Layout(h, S, F, U) ==
    /\ Tiled(S, F \union U, h.fence, h.top) /\ F \intersect U = {}
    /\ NoTwoFree(S, F, h.top)
    /\ Encoded(h, S, F)

HeapAt(h, S, F, U) ==
    /\ IsHeap(h) /\ Layout(h, S, F, U) /\ SysOk(h, S)
    /\ BinsOk(h.bin, h.marked, S, F)

\* The same heap, with other words, in which [a, e) is one chunk.
OneChange(h, g, S, F, U, T, G, V, a, e) ==
    /\ Layout(h, S, F, U) /\ SysOk(h, S) /\ SameSys(h, g) /\ g.top = h.top
    /\ OneRun(S, F \union U, T, G \union V, h.fence, h.top, a, e) /\ G \intersect V = {}
    /\ SameFree(F, G, a, e) /\ e \in DOMAIN S /\ LocalWords(h, g, a, e)
    /\ OneHeads(g, S, F, a, e, a \in G)
    /\ a \in G => ~FreeBefore(S, F, a) /\ e \notin F /\ e # h.top

\* A heap in which a run became one chunk.
LEMMA OneLayout ==
    ASSUME NEW h, NEW g, NEW S, NEW F, NEW U, NEW T, NEW G, NEW V, NEW a, NEW e, NEW W,
           OneChange(h, g, S, F, U, T, G, V, a, e), W \subseteq F \union U, Outside(W, a, e)
    PROVE  /\ Layout(g, T, G, V) /\ SysOk(g, T) /\ Kept(h, g, S, T, W)
           /\ T[h.top] = S[h.top] /\ h.top # 0
<1> SUFFICES ASSUME
           Layout(h, S, F, U), SysOk(h, S), SameSys(h, g), g.top = h.top,
           OneRun(S, F \union U, T, G \union V, h.fence, h.top, a, e), G \intersect V = {},
           SameFree(F, G, a, e), e \in DOMAIN S, LocalWords(h, g, a, e),
           OneHeads(g, S, F, a, e, a \in G),
           a \in G => ~FreeBefore(S, F, a) /\ e \notin F /\ e # h.top
    PROVE  /\ Layout(g, T, G, V) /\ SysOk(g, T) /\ Kept(h, g, S, T, W)
           /\ T[h.top] = S[h.top] /\ h.top # 0
  BY DEF OneChange
<1> DEFINE N == F \union U
           M == G \union V
<1>1. /\ Tiled(S, N, h.fence, h.top) /\ NoTwoFree(S, F, h.top) /\ Encoded(h, S, F)
      /\ OneRun(S, N, T, M, h.fence, h.top, a, e)
  BY DEF Layout
<1>2. F \subseteq N /\ G \subseteq M /\ W \subseteq N OBVIOUS
<1> HIDE DEF N, M
<1>3. Encoded(g, T, G) BY <1>1, <1>2, OneEncoded
<1>4. NoTwoFree(T, G, h.top) BY <1>1, <1>2, OneNoTwo
<1>5. /\ Tiled(T, M, h.fence, h.top) /\ a \in N /\ a \in M /\ T[a] = e - a
      /\ SameOutside(S, N, T, M, a, e)
  BY <1>1 DEF OneRun
<1>6. e \in Nat /\ a \in DOMAIN S /\ e <= h.top /\ h.top \in DOMAIN S /\ h.top \in Nat /\ h.top # 0
  <2>1. a \in DOMAIN S BY <1>1, <1>5, Sizes
  <2> QED BY <2>1, <1>1, Chunk
<1>7. a < e
  <2>1. a \in Nat /\ T[a] \in Nat /\ T[a] >= 16 BY <1>5, Sizes
  <2> QED BY <2>1, <1>5, <1>6
<1>8. Kept(h, g, S, T, W) BY <1>1, <1>2, <1>5, <1>6, <1>7, LocalKept
<1>9. T[h.top] = S[h.top] BY <1>5, <1>6 DEF SameOutside
<1>10. SysOk(g, T) BY <1>9 DEF SysOk, SameSys
<1>11. g.fence = h.fence BY DEF SameSys
<1>12. Layout(g, T, G, V) BY <1>3, <1>4, <1>5, <1>11 DEF Layout, M
<1> QED BY <1>6, <1>8, <1>9, <1>10, <1>12

TwoChange(h, g, S, F, U, T, G, V, a, r, e) ==
    /\ Layout(h, S, F, U) /\ SysOk(h, S) /\ SameSys(h, g) /\ g.top = h.top
    /\ TwoRun(S, F \union U, T, G \union V, h.fence, h.top, a, r, e) /\ G \intersect V = {}
    /\ SameFree(F, G, a, e) /\ a \notin G /\ e \in DOMAIN S /\ LocalWords(h, g, a, e)
    /\ TwoHeads(g, S, F, a, r, e, r \in G)
    /\ r \in G => e \notin F /\ e # h.top

\* A heap in which a run became two chunks.
LEMMA TwoLayout ==
    ASSUME NEW h, NEW g, NEW S, NEW F, NEW U, NEW T, NEW G, NEW V, NEW a, NEW r, NEW e, NEW W,
           TwoChange(h, g, S, F, U, T, G, V, a, r, e), W \subseteq F \union U, Outside(W, a, e)
    PROVE  /\ Layout(g, T, G, V) /\ SysOk(g, T) /\ Kept(h, g, S, T, W)
           /\ T[h.top] = S[h.top] /\ h.top # 0 /\ T[a] = r - a /\ T[r] = e - r
<1> SUFFICES ASSUME
           Layout(h, S, F, U), SysOk(h, S), SameSys(h, g), g.top = h.top,
           TwoRun(S, F \union U, T, G \union V, h.fence, h.top, a, r, e), G \intersect V = {},
           SameFree(F, G, a, e), a \notin G, e \in DOMAIN S, LocalWords(h, g, a, e),
           TwoHeads(g, S, F, a, r, e, r \in G),
           r \in G => e \notin F /\ e # h.top
    PROVE  /\ Layout(g, T, G, V) /\ SysOk(g, T) /\ Kept(h, g, S, T, W)
           /\ T[h.top] = S[h.top] /\ h.top # 0 /\ T[a] = r - a /\ T[r] = e - r
  BY DEF TwoChange
<1> DEFINE N == F \union U
           M == G \union V
<1>1. /\ Tiled(S, N, h.fence, h.top) /\ NoTwoFree(S, F, h.top) /\ Encoded(h, S, F)
      /\ TwoRun(S, N, T, M, h.fence, h.top, a, r, e)
  BY DEF Layout
<1>2. F \subseteq N /\ G \subseteq M /\ W \subseteq N OBVIOUS
<1> HIDE DEF N, M
<1>3. Encoded(g, T, G) BY <1>1, <1>2, TwoEncoded
<1>4. NoTwoFree(T, G, h.top) BY <1>1, <1>2, TwoNoTwo
<1>5. /\ Tiled(T, M, h.fence, h.top) /\ a \in N /\ a \in M /\ r \in M /\ T[a] = r - a /\ T[r] = e - r
      /\ SameOutside(S, N, T, M, a, e)
  BY <1>1 DEF TwoRun
<1>6. e \in Nat /\ a \in DOMAIN S /\ e <= h.top /\ h.top \in DOMAIN S /\ h.top \in Nat /\ h.top # 0
  <2>1. a \in DOMAIN S BY <1>1, <1>5, Sizes
  <2> QED BY <2>1, <1>1, Chunk
<1>7. a < e
  <2>1. a \in Nat /\ T[a] \in Nat /\ T[a] >= 16 BY <1>5, Sizes
  <2>2. r \in Nat /\ T[r] \in Nat /\ T[r] >= 16 BY <1>5, Sizes
  <2> QED BY <2>1, <2>2, <1>5, <1>6
<1>8. Kept(h, g, S, T, W) BY <1>1, <1>2, <1>5, <1>6, <1>7, LocalKept
<1>9. T[h.top] = S[h.top] BY <1>5, <1>6 DEF SameOutside
<1>10. SysOk(g, T) BY <1>9 DEF SysOk, SameSys
<1>11. g.fence = h.fence BY DEF SameSys
<1>12. Layout(g, T, G, V) BY <1>3, <1>4, <1>5, <1>11 DEF Layout, M
<1> QED BY <1>5, <1>6, <1>8, <1>9, <1>10, <1>12

\* The same heap, in which top begins at a.
TopChange(h, g, S, F, U, T, G, V, a, e) ==
    /\ Layout(h, S, F, U) /\ g.top = a /\ g.fence = h.fence
    /\ TopRun(S, F \union U, T, G \union V, h.fence, a, e) /\ G \intersect V = {}
    /\ FreeBelow(F, G, a) /\ WordsBelow(h, g, a) /\ TopHeads(g, S, F, a, e)
    /\ ~FreeBefore(S, F, a)

\* A heap in which a run became top.
LEMMA TopLayout ==
    ASSUME NEW h, NEW g, NEW S, NEW F, NEW U, NEW T, NEW G, NEW V, NEW a \in DOMAIN S,
           NEW e, NEW W,
           TopChange(h, g, S, F, U, T, G, V, a, e), W \subseteq F \union U, Below(W, a)
    PROVE  Layout(g, T, G, V) /\ Kept(h, g, S, T, W) /\ T[a] = e - a /\ a # 0
<1> SUFFICES ASSUME
           Layout(h, S, F, U), g.top = a, g.fence = h.fence,
           TopRun(S, F \union U, T, G \union V, h.fence, a, e), G \intersect V = {},
           FreeBelow(F, G, a), WordsBelow(h, g, a), TopHeads(g, S, F, a, e),
           ~FreeBefore(S, F, a)
    PROVE  Layout(g, T, G, V) /\ Kept(h, g, S, T, W) /\ T[a] = e - a /\ a # 0
  BY DEF TopChange
<1> DEFINE N == F \union U
           M == G \union V
<1>1. /\ Tiled(S, N, h.fence, h.top) /\ NoTwoFree(S, F, h.top) /\ Encoded(h, S, F)
      /\ TopRun(S, N, T, M, h.fence, a, e)
  BY DEF Layout
<1>2. F \subseteq N /\ G \subseteq M /\ W \subseteq N OBVIOUS
<1> HIDE DEF N, M
<1>3. Encoded(g, T, G) BY <1>1, <1>2, TopEncoded
<1>4. NoTwoFree(T, G, a) BY <1>1, <1>2, TopNoTwo
<1>5. Tiled(T, M, h.fence, a) /\ a # 0 /\ T[a] = e - a /\ SameBelow(S, N, T, M, a)
  BY <1>1 DEF TopRun
<1>8. Kept(h, g, S, T, W) BY <1>1, <1>2, <1>5, BelowKept
<1>12. Layout(g, T, G, V) BY <1>3, <1>4, <1>5 DEF Layout, M
<1> QED BY <1>5, <1>8, <1>12

TopTwoChange(h, g, S, F, U, T, G, V, a, r, e) ==
    /\ Layout(h, S, F, U) /\ g.top = r /\ g.fence = h.fence
    /\ TopTwo(S, F \union U, T, G \union V, h.fence, a, r, e) /\ G \intersect V = {}
    /\ FreeBelow(F, G, a) /\ a \notin G /\ WordsBelow(h, g, a)
    /\ TopTwoHeads(g, S, F, a, r, e)

\* A heap in which a run became a chunk in use and top.
LEMMA TopTwoLayout ==
    ASSUME NEW h, NEW g, NEW S, NEW F, NEW U, NEW T, NEW G, NEW V, NEW a \in DOMAIN S,
           NEW r, NEW e, NEW W,
           TopTwoChange(h, g, S, F, U, T, G, V, a, r, e), W \subseteq F \union U, Below(W, a)
    PROVE  /\ Layout(g, T, G, V) /\ Kept(h, g, S, T, W)
           /\ T[a] = r - a /\ T[r] = e - r /\ a \in G \union V
<1> SUFFICES ASSUME
           Layout(h, S, F, U), g.top = r, g.fence = h.fence,
           TopTwo(S, F \union U, T, G \union V, h.fence, a, r, e), G \intersect V = {},
           FreeBelow(F, G, a), a \notin G, WordsBelow(h, g, a), TopTwoHeads(g, S, F, a, r, e)
    PROVE  /\ Layout(g, T, G, V) /\ Kept(h, g, S, T, W)
           /\ T[a] = r - a /\ T[r] = e - r /\ a \in G \union V
  BY DEF TopTwoChange
<1> DEFINE N == F \union U
           M == G \union V
<1>1. /\ Tiled(S, N, h.fence, h.top) /\ NoTwoFree(S, F, h.top) /\ Encoded(h, S, F)
      /\ TopTwo(S, N, T, M, h.fence, a, r, e)
  BY DEF Layout
<1>2. F \subseteq N /\ G \subseteq M /\ W \subseteq N OBVIOUS
<1> HIDE DEF N, M
<1>3. Encoded(g, T, G) BY <1>1, <1>2, TopTwoEncoded
<1>4. NoTwoFree(T, G, r) BY <1>1, <1>2, TopTwoNoTwo
<1>5. Tiled(T, M, h.fence, r) /\ a \in M /\ T[a] = r - a /\ T[r] = e - r /\ SameBelow(S, N, T, M, a)
  BY <1>1 DEF TopTwo
<1>8. Kept(h, g, S, T, W) BY <1>1, <1>2, <1>5, BelowKept
<1>12. Layout(g, T, G, V) BY <1>3, <1>4, <1>5 DEF Layout, M
<1>13. a \in G \union V BY <1>5 DEF M
<1> QED BY <1>5, <1>8, <1>12, <1>13

\* What an operation that changes no word and no chunk leaves.
LEMMA SameLayout ==
    ASSUME NEW h, NEW g, NEW S, NEW F, NEW U, Layout(h, S, F, U), SysOk(h, S), SameMem(h, g)
    PROVE  Layout(g, S, F, U) /\ SysOk(g, S) /\ IsHeap(g)
<1>1. /\ g.fence = h.fence /\ g.top = h.top /\ \A x : Word(g, x) = Word(h, x)
  BY DEF SameMem, SameSys
<1>2. Encoded(g, S, F) BY <1>1 DEF Layout, Encoded, HeadOf
<1>3. Layout(g, S, F, U) BY <1>1, <1>2 DEF Layout
<1>4. SysOk(g, S) BY <1>1 DEF SysOk, SameMem, SameSys
<1> QED BY <1>3, <1>4 DEF SameMem

\* Facts about a chunk that the code reads.
LEMMA ReadAt ==
    ASSUME NEW h, NEW S, NEW F, NEW U, NEW c \in DOMAIN S, Layout(h, S, F, U)
    PROVE  /\ chunksize(h, c) = S[c]
           /\ prev_inuse(h, c) <=> ~FreeBefore(S, F, c)
           /\ HeadOf(h, c) % 2 = Bit(S, F, c)
           /\ (HeadOf(h, c) \div 2) * 2 + 1 = S[c] + 1
           /\ Bit(S, F, c) \in {0, 1}
           /\ HeadOf(h, c) = S[c] + Bit(S, F, c)
           /\ c \in Nat /\ c > 0 /\ S[c] \in Nat /\ S[c] > 0 /\ c <= h.top
           /\ h.top \in Nat /\ h.top # 0 /\ h.top \in DOMAIN S
           /\ S[h.top] \in Nat /\ S[h.top] >= 16 /\ S[h.top] % 8 = 0 /\ h.top % 8 = 0
<1> DEFINE N == F \union U
<1>1. /\ Tiled(S, N, h.fence, h.top) /\ NoTwoFree(S, F, h.top) /\ Encoded(h, S, F)
  BY DEF Layout
<1> HIDE DEF N
<1>2. HeadOf(h, c) = S[c] + Bit(S, F, c) BY <1>1 DEF Encoded
<1>3. /\ chunksize(h, c) = S[c]
      /\ prev_inuse(h, c) <=> ~FreeBefore(S, F, c)
      /\ HeadOf(h, c) % 2 = Bit(S, F, c)
      /\ (HeadOf(h, c) \div 2) * 2 + 1 = S[c] + 1
      /\ Bit(S, F, c) \in {0, 1}
  BY <1>1, ReadHead
<1>4. /\ c \in Nat /\ c > 0 /\ S[c] \in Nat /\ S[c] > 0 /\ c <= h.top
      /\ h.top \in Nat /\ h.top # 0 /\ h.top \in DOMAIN S
      /\ S[h.top] \in Nat /\ S[h.top] >= 16 /\ S[h.top] % 8 = 0 /\ h.top % 8 = 0
  BY <1>1, Chunk
<1> QED BY <1>2, <1>3, <1>4

\* A chunk of a program or a bin: aligned, of 16 bytes at least, before another.
LEMMA NormalAt ==
    ASSUME NEW h, NEW S, NEW F, NEW U, NEW p \in F \union U, Layout(h, S, F, U)
    PROVE  /\ p \in Nat /\ p > 0 /\ p \in DOMAIN S /\ S[p] \in Nat /\ S[p] >= 16
           /\ p % 8 = 0 /\ S[p] % 8 = 0 /\ p + S[p] \in DOMAIN S
           /\ p \notin h.fence /\ p # h.top
           /\ chunksize(h, p) = S[p] /\ p + S[p] <= h.top /\ h.top \in Nat
<1>1. Tiled(S, F \union U, h.fence, h.top) BY DEF Layout
<1>2. /\ p \in Nat /\ p > 0 /\ p \in DOMAIN S /\ S[p] \in Nat /\ S[p] >= 16
      /\ p % 8 = 0 /\ S[p] % 8 = 0 /\ p + S[p] \in DOMAIN S
      /\ p \notin h.fence /\ p # h.top
  BY ONLY <1>1, p \in F \union U, Sizes, ZenonT(40)
<1>3. chunksize(h, p) = S[p] BY <1>2, ReadAt
<1>4. p + S[p] <= h.top /\ h.top \in Nat BY <1>2, ReadAt
<1> QED BY <1>2, <1>3, <1>4

\* No chunk begins inside another.
LEMMA NoneInside ==
    ASSUME NEW h, NEW S, NEW F, NEW U, NEW c \in DOMAIN S,
           NEW d \in DOMAIN S, Layout(h, S, F, U),
           c <= d, d < c + S[c]
    PROVE  d = c
<1>1. Apart(S) BY DEF Layout, Tiled
<1>2. c \in Nat /\ d \in Nat /\ S[c] \in Nat BY ReadAt
<1> SUFFICES ASSUME c < d PROVE FALSE BY <1>2
<1>3. c + S[c] <= d BY <1>1 DEF Apart
<1> QED BY <1>2, <1>3

\* The size of any chunk.
LEMMA SizeAt ==
    ASSUME NEW h, NEW S, NEW F, NEW U, NEW c \in DOMAIN S, Layout(h, S, F, U)
    PROVE  /\ chunksize(h, c) = S[c] /\ c \in Nat /\ c > 0 /\ S[c] \in Nat /\ S[c] > 0
           /\ c <= h.top /\ h.top \in Nat /\ h.top # 0 /\ h.top \in DOMAIN S
<1> DEFINE N == F \union U
<1>1. Tiled(S, N, h.fence, h.top) /\ Encoded(h, S, F) BY DEF Layout
<1> HIDE DEF N
<1>2. chunksize(h, c) = S[c] BY <1>1, ReadHead
<1>3. /\ c \in Nat /\ c > 0 /\ S[c] \in Nat /\ S[c] > 0 /\ c <= h.top
      /\ h.top \in Nat /\ h.top # 0 /\ h.top \in DOMAIN S
  BY <1>1, Chunk
<1> QED BY <1>2, <1>3

-----------------------------------------------------------------------------
(* free() of a chunk that does not border top.                              *)

\* free() merges p with the free chunk before it, if there is one, to q.
Backs(S, F, p, q) ==
    \/ q = p /\ ~FreeBefore(S, F, p)
    \/ q \in F /\ q + S[q] = p

\* The end of what free() makes one chunk.
EndOf(S, F, next) == IF next \in F THEN next + S[next] ELSE next

\* The chunks that free() and realloc() make one: p, perhaps the free chunk q
\* before it, and a free chunk behind it.
Joins(S, F, p, q) == q = p \/ (q \in F /\ q + S[q] = p)

\* A chunk in use and its free neighbours are a run.
LEMMA JoinRun ==
    ASSUME NEW h, NEW S, NEW F, NEW U, NEW p \in U, NEW q, NEW next, Layout(h, S, F, U),
           Joins(S, F, p, q), next = p + S[p]
    PROVE  \E T : OneRun(S, F \union U, T, ((F \ {next}) \union {q}) \union (U \ {p}),
                         h.fence, h.top, q, EndOf(S, F, next))
<1> DEFINE N == F \union U
           X == h.fence
           t == h.top
           M == (N \ {p}) \union {q}
<1>1. Tiled(S, N, X, t) /\ F \intersect U = {} BY DEF Layout
<1>2. p \in N /\ F \subseteq N /\ p \notin F BY <1>1
<1>3. p \in Nat /\ S[p] \in Nat /\ S[p] >= 16 BY <1>2, NormalAt
<1> HIDE DEF X, t
<1>4. \E T : OneRun(S, N, T, M, X, t, q, next)
  <2>1. CASE q = p
    <3>1. M = N BY <1>2, <2>1
    <3>2. OneRun(S, N, S, N, X, t, p, p + S[p]) BY ONLY <1>1, <1>2, RunBase
    <3> QED BY <2>1, <3>1, <3>2
  <2>2. CASE q \in F /\ q + S[q] = p
    <3>1. q \in N /\ q # p BY <1>2, <2>2
    <3>2. OneRun(S, N, S, N, X, t, q, q + S[q]) BY ONLY <1>1, <3>1, RunBase
    <3>3. OneRun(S, N, S, N, X, t, q, p) BY <2>2, <3>2
    <3>4. OneRun(S, N, JoinS(S, q, p), N \ {p}, X, t, q, p + S[p])
      BY ONLY <1>1, <1>2, <3>3, RunMerge
    <3>5. M = N \ {p} BY <3>1
    <3> HIDE DEF M, N
    <3> QED BY <3>4, <3>5
  <2> QED BY <2>1, <2>2 DEF Joins
<1> DEFINE G == (F \ {next}) \union {q}
           K == G \union (U \ {p})
<1>5. q # next
  <2>1. CASE q = p BY <1>3, <2>1
  <2>2. CASE q \in F /\ q + S[q] = p
    <3>1. q \in Nat /\ S[q] \in Nat BY <2>2, NormalAt
    <3> QED BY <3>1, <1>3, <2>2
  <2> QED BY <2>1, <2>2 DEF Joins
<1>6. CASE next \notin F
  <2>1. K = M BY <1>1, <1>2, <1>6
  <2>2. EndOf(S, F, next) = next BY <1>6 DEF EndOf
  <2> HIDE DEF M, K
  <2>3. \E T : OneRun(S, N, T, K, X, t, q, EndOf(S, F, next)) BY <1>4, <2>1, <2>2
  <2> QED BY <2>3 DEF K, X, t
<1>7. CASE next \in F
  <2>1. K = M \ {next} BY <1>1, <1>2, <1>5, <1>7
  <2>2. EndOf(S, F, next) = next + S[next] BY <1>7 DEF EndOf
  <2>3. next \in N BY <1>7
  <2> HIDE DEF M, K, N
  <2>4. PICK T : OneRun(S, N, T, M, X, t, q, next) BY <1>4
  <2>5. OneRun(S, N, JoinS(T, q, next), M \ {next}, X, t, q, next + S[next])
    BY ONLY <1>1, <2>3, <2>4, RunMerge
  <2>6. \E P : OneRun(S, N, P, K, X, t, q, EndOf(S, F, next)) BY <2>1, <2>2, <2>5
  <2> QED BY <2>6 DEF K, X, t, N
<1> QED BY <1>6, <1>7

\* The chunks in [q, e) are q, p and the one behind p.
LEMMA JoinSpan ==
    ASSUME NEW h, NEW S, NEW F, NEW U, NEW p \in U, NEW q, NEW next, Layout(h, S, F, U),
           Joins(S, F, p, q), next = p + S[p]
    PROVE  /\ q \in Nat /\ q <= p /\ p < next /\ next <= EndOf(S, F, next)
           /\ EndOf(S, F, next) \in DOMAIN S /\ EndOf(S, F, next) \in Nat
           /\ \A c \in DOMAIN S : q <= c /\ c < EndOf(S, F, next) => c \in {q, p, next}
           /\ q \in DOMAIN S /\ p \in DOMAIN S /\ next \in DOMAIN S
           /\ next \in F => next # q
<1> DEFINE e == EndOf(S, F, next)
<1>1. p \in F \union U OBVIOUS
<1>2. p \in Nat /\ S[p] \in Nat /\ S[p] >= 16 /\ p \in DOMAIN S /\ next \in DOMAIN S
  BY <1>1, NormalAt
<1>3. next \in Nat /\ S[next] \in Nat BY <1>2, ReadAt
<1>4. e \in DOMAIN S /\ next <= e /\ e \in Nat
  <2>1. CASE next \in F
    <3>1. next + S[next] \in DOMAIN S BY <2>1, NormalAt
    <3> QED BY <3>1, <2>1, <1>3 DEF EndOf
  <2>2. CASE next \notin F BY <2>2, <1>2, <1>3 DEF EndOf
  <2> QED BY <2>1, <2>2
<1>5. q \in Nat /\ q <= p /\ q \in DOMAIN S /\ S[q] \in Nat /\ (q # p => q + S[q] = p)
  <2>1. CASE q = p BY <1>2, <2>1
  <2>2. CASE q \in F /\ q + S[q] = p
    <3>1. q \in Nat /\ S[q] \in Nat /\ q \in DOMAIN S BY <2>2, NormalAt
    <3> QED BY <3>1, <1>2, <2>2
  <2> QED BY <2>1, <2>2 DEF Joins
<1>6. \A c \in DOMAIN S : q <= c /\ c < e => c \in {q, p, next}
  <2> SUFFICES ASSUME NEW c \in DOMAIN S, q <= c, c < e PROVE c \in {q, p, next} OBVIOUS
  <2>1. c \in Nat BY ReadAt
  <2>2. CASE c < p
    <3>1. q + S[q] = p BY <1>5, <2>2, <1>2, <2>1
    <3>2. c < q + S[q] BY <3>1, <2>2
    <3> QED BY <3>2, <1>5, NoneInside
  <2>3. CASE p <= c /\ c < next
    <3>1. c < p + S[p] BY <2>3
    <3> QED BY <3>1, <2>3, <1>2, NoneInside
  <2>4. CASE next <= c
    <3>1. next \in F BY <2>4, <2>1, <1>3 DEF EndOf
    <3>2. c < next + S[next] BY <3>1 DEF EndOf
    <3> QED BY <3>2, <2>4, <1>2, NoneInside
  <2> QED BY <2>1, <2>2, <2>3, <2>4, <1>2, <1>3
<1>7. p < next BY <1>2
<1>8. next # q BY <1>2, <1>5, <1>7
<1> HIDE DEF e
<1> QED BY <1>2, <1>3, <1>4, <1>5, <1>6, <1>7, <1>8 DEF e

\* So are those that free() merges.
LEMMA FreeRun ==
    ASSUME NEW h, NEW S, NEW F, NEW U, NEW p \in U, NEW q, NEW next, Layout(h, S, F, U),
           Backs(S, F, p, q), next = p + S[p]
    PROVE  \E T : OneRun(S, F \union U, T, ((F \ {next}) \union {q}) \union (U \ {p}),
                         h.fence, h.top, q, EndOf(S, F, next))
<1>1. Joins(S, F, p, q) BY DEF Backs, Joins
<1> QED BY <1>1, JoinRun

\* The chunks of that run.
LEMMA FreeSpan ==
    ASSUME NEW h, NEW S, NEW F, NEW U, NEW p \in U, NEW q, NEW next, Layout(h, S, F, U),
           Backs(S, F, p, q), next = p + S[p]
    PROVE  /\ q \in Nat /\ q <= p /\ p < next /\ next <= EndOf(S, F, next)
           /\ EndOf(S, F, next) \in DOMAIN S /\ EndOf(S, F, next) \in Nat
           /\ \A c \in DOMAIN S : q <= c /\ c < EndOf(S, F, next) => c \in {q, p, next}
           /\ q \in DOMAIN S /\ p \in DOMAIN S /\ next \in DOMAIN S
           /\ next \in F => next # q
<1>1. Joins(S, F, p, q) BY DEF Backs, Joins
<1> QED BY <1>1, JoinSpan

\* The words that FreeIntoBin() writes.
FreedWords(h, g, S, q, next, e) ==
    \A x : Word(g, x) = IF x = e THEN e - q
                        ELSE IF x = q + 4 THEN (e - q) + 1
                        ELSE IF x = next + 4 THEN S[next] ELSE Word(h, x)

FreedAs(h, g, S, F, U, p, q, next, T, e) ==
    /\ Backs(S, F, p, q) /\ next = p + S[p] /\ next # h.top /\ e = EndOf(S, F, next)
    /\ OneRun(S, F \union U, T, ((F \ {next}) \union {q}) \union (U \ {p}),
               h.fence, h.top, q, e)
    /\ SameSys(h, g) /\ g.top = h.top /\ FreedWords(h, g, S, q, next, e)

\* The three words free() writes make them one free chunk.
LEMMA FreeWords ==
    ASSUME NEW h, NEW g, NEW S, NEW F, NEW U, NEW p \in U, NEW q, NEW next, NEW T, NEW e,
           Layout(h, S, F, U), SysOk(h, S), FreedAs(h, g, S, F, U, p, q, next, T, e)
    PROVE  /\ Layout(g, T, (F \ {next}) \union {q}, U \ {p}) /\ SysOk(g, T)
           /\ Kept(h, g, S, T, U \ {p}) /\ T[h.top] = S[h.top]
<1> SUFFICES ASSUME
           Backs(S, F, p, q), next = p + S[p], next # h.top, e = EndOf(S, F, next),
           OneRun(S, F \union U, T, ((F \ {next}) \union {q}) \union (U \ {p}),
                  h.fence, h.top, q, e),
           SameSys(h, g), g.top = h.top, FreedWords(h, g, S, q, next, e)
    PROVE  /\ Layout(g, T, (F \ {next}) \union {q}, U \ {p}) /\ SysOk(g, T)
           /\ Kept(h, g, S, T, U \ {p}) /\ T[h.top] = S[h.top]
  BY DEF FreedAs
<1> DEFINE G == (F \ {next}) \union {q}
           V == U \ {p}
<1>1. /\ q \in Nat /\ q <= p /\ p < next /\ next <= e
      /\ e \in DOMAIN S /\ e \in Nat
      /\ \A c \in DOMAIN S : q <= c /\ c < e => c \in {q, p, next}
      /\ q \in DOMAIN S /\ p \in DOMAIN S /\ next \in DOMAIN S
      /\ next \in F => next # q
  BY FreeSpan
<1>2. p \in Nat /\ next \in Nat /\ S[p] \in Nat /\ S[p] >= 16
  BY <1>1, ReadAt, NormalAt
<1>3. F \intersect U = {} /\ Tiled(S, F \union U, h.fence, h.top) /\ NoTwoFree(S, F, h.top)
      /\ Encoded(h, S, F)
  BY DEF Layout
<1>4. \A c : c \in F => c \in DOMAIN S /\ c \in Nat BY NormalAt
<1>5. \A c : c \in U => c \in DOMAIN S /\ c \in Nat BY NormalAt
<1>6. G \intersect V = {}
  <2>1. q \notin V BY <1>3 DEF Backs
  <2> QED BY <2>1, <1>3
<1>7. SameFree(F, G, q, e)
  <2>1. \A c : c < q \/ c >= e => c # q \/ c \notin F
    BY <1>1, <1>2, <1>4
  <2>2. \A c : (c < q \/ c >= e) /\ c \in F => c \in G
    <3> SUFFICES ASSUME NEW c \in F, c < q \/ c >= e, c = next PROVE FALSE OBVIOUS
    <3>1. e = next + S[next] /\ S[next] \in Nat /\ S[next] >= 16 BY NormalAt DEF EndOf
    <3> QED BY <3>1, <1>1, <1>2
  <2>3. \A c : (c < q \/ c >= e) /\ c \in G => c \in F
    <3> SUFFICES q < e /\ q >= q BY <1>1 
    <3> QED BY <1>1, <1>2
  <2> HIDE DEF G
  <2> QED BY <2>2, <2>3 DEF SameFree
<1>8. LocalWords(h, g, q, e)
  <2> SUFFICES ASSUME NEW x \in Nat, x < q + 4 \/ x > e + 4 PROVE Word(g, x) = Word(h, x)
    BY DEF LocalWords
  <2>1. x # e /\ x # q + 4 /\ x # next + 4
    <3>1. CASE x < q + 4
      <4>1. q + 16 <= next /\ q + 16 <= e BY <1>1, <1>2
      <4> QED BY <3>1, <4>1, <1>1, <1>2
    <3>2. CASE x > e + 4 BY <3>2, <1>1, <1>2
    <3> QED BY <3>1, <3>2
  <2> QED BY <2>1 DEF FreedWords
<1>9. ~FreeBefore(S, F, q) /\ e \notin F /\ e # h.top
  <2>1. CASE q = p /\ ~FreeBefore(S, F, p) /\ next \notin F
    BY <2>1 DEF EndOf
  <2>2. ~FreeBefore(S, F, q)
    <3>1. CASE q = p /\ ~FreeBefore(S, F, p) BY <3>1
    <3>2. CASE q \in F
      BY <3>2, <1>3 DEF FreeBefore, NoTwoFree
    <3> QED BY <3>1, <3>2 DEF Backs
  <2>3. CASE next \in F
    <3>1. e = next + S[next] BY <2>3 DEF EndOf
    <3> QED BY <3>1, <2>2, <2>3, <1>3 DEF NoTwoFree
  <2>4. CASE next \notin F
    <3>1. e = next BY <2>4 DEF EndOf
    <3> QED BY <3>1, <2>2, <2>4
  <2> QED BY <2>3, <2>4
<1>10. OneHeads(g, S, F, q, e, TRUE)
  <2>1. Bit(S, F, q) = 1 BY <1>9 DEF Bit
  <2>2. q + 16 <= e BY <1>1, <1>2
  <2>3. HeadOf(g, q) = (e - q) + 1
    <3>1. q + 4 # e BY <2>2, <1>1
    <3> QED BY <3>1 DEF HeadOf, FreedWords, SIZE_SZ
  <2>4. Word(g, e) = e - q BY DEF FreedWords
  <2>5. HeadOf(g, e) = S[e] + 0
    <3>1. e + 4 # e /\ e + 4 # q + 4 BY <2>2, <1>1
    <3>2. S[e] \in Nat BY <1>1, ReadAt
    <3>3. CASE next \in F
      <4>1. e = next + S[next] /\ S[next] \in Nat /\ S[next] >= 16 BY <3>3, NormalAt DEF EndOf
      <4>2. e + 4 # next + 4 BY <4>1, <1>1, <1>2
      <4>3. HeadOf(g, e) = HeadOf(h, e) BY <3>1, <4>2 DEF HeadOf, FreedWords, SIZE_SZ
      <4>4. Bit(S, F, e) = 0 BY <3>3, <4>1 DEF Bit, FreeBefore
      <4> QED BY <4>3, <4>4, <1>1, <1>3 DEF Encoded
    <3>4. CASE next \notin F
      <4>1. e = next BY <3>4 DEF EndOf
      <4>2. HeadOf(g, e) = S[e] BY <3>1, <4>1 DEF HeadOf, FreedWords, SIZE_SZ
      <4> QED BY <4>2, <3>2
    <3> QED BY <3>3, <3>4
  <2> QED BY <2>1, <2>3, <2>4, <2>5 DEF OneHeads
<1>11. Outside(V, q, e)
  <2> SUFFICES ASSUME NEW c \in V, ~(c < q \/ c >= e) PROVE FALSE BY DEF Outside
  <2>1. c \in Nat /\ c \in DOMAIN S /\ c # p BY <1>5
  <2>2. q <= c /\ c < e BY <2>1, <1>1
  <2>3. c = q \/ c = next BY <2>1, <2>2, <1>1
  <2>4. c \notin F BY <1>3
  <2>5. c # q BY <2>1, <2>4 DEF Backs
  <2>6. e = next BY <2>3, <2>4, <2>5 DEF EndOf
  <2> QED BY <2>2, <2>3, <2>5, <2>6, <1>2
<1>12. V \subseteq F \union U /\ q \in G OBVIOUS
<1> HIDE DEF G, V
<1>13. OneRun(S, F \union U, T, G \union V, h.fence, h.top, q, e) BY DEF G, V
<1>14. OneChange(h, g, S, F, U, T, G, V, q, e)
  <2>1. OneHeads(g, S, F, q, e, q \in G) BY <1>10, <1>12 DEF OneHeads
  <2> QED BY <2>1, <1>1, <1>6, <1>7, <1>8, <1>9, <1>13 DEF OneChange
<1>15. V \subseteq F \union U BY <1>12
<1>16. /\ Layout(g, T, G, V) /\ SysOk(g, T) /\ Kept(h, g, S, T, V)
       /\ T[h.top] = S[h.top] /\ h.top # 0
  BY ONLY <1>11, <1>14, <1>15, OneLayout
<1> QED BY <1>16 DEF G, V

\* The chunk next to a chunk of a program is followed by another, but for top.
LEMMA NextInuse ==
    ASSUME NEW h, NEW S, NEW F, NEW U, NEW p \in F \union U, Layout(h, S, F, U),
           p + S[p] # h.top
    PROVE  inuse(h, p + S[p]) <=> p + S[p] \notin F
<1> DEFINE next == p + S[p]
           N == F \union U
<1>1. Tiled(S, N, h.fence, h.top) /\ Encoded(h, S, F) BY DEF Layout
<1>2. next \in DOMAIN S BY NormalAt
<1>3. next + S[next] \in DOMAIN S
  <2>1. DOMAIN S = N \union h.fence \union {c \in {h.top} : h.top # 0} BY <1>1 DEF Tiled, Placed
  <2>2. CASE next \in N BY <2>2, NormalAt
  <2>3. CASE next \in h.fence
    <3>1. next + S[next] \in h.fence BY <1>1, <2>3 DEF Tiled, Fenced
    <3> QED BY <3>1, <2>1
  <2> HIDE DEF next
  <2>4. next # h.top BY DEF next
  <2> QED BY <2>1, <2>2, <2>3, <2>4, <1>2
<1>4. F \subseteq N OBVIOUS
<1> HIDE DEF next, N
<1>5. inuse(h, next) <=> next \notin F BY <1>1, <1>2, <1>3, <1>4, ReadInuse
<1> QED BY <1>5 DEF next

\* free() reads from the words whether and where the chunk before p is free.
LEMMA BackIs ==
    ASSUME NEW h, NEW S, NEW F, NEW U, NEW p \in DOMAIN S, Layout(h, S, F, U)
    PROVE  /\ prev_inuse(h, p) => Backs(S, F, p, p)
           /\ ~prev_inuse(h, p) => /\ Backs(S, F, p, p - Word(h, p))
                                   /\ p - Word(h, p) \in F /\ p - Word(h, p) < p
                                   /\ p - Word(h, p) + Word(h, p) = p
                                   /\ Word(h, p) = S[p - Word(h, p)] /\ Word(h, p) \in Nat
<1> DEFINE N == F \union U
<1>1. Tiled(S, N, h.fence, h.top) /\ Encoded(h, S, F) BY DEF Layout
<1>2. F \subseteq N OBVIOUS
<1>3. prev_inuse(h, p) <=> ~FreeBefore(S, F, p) BY ReadAt
<1>4. ASSUME ~prev_inuse(h, p) PROVE
          \E q \in F : /\ p - Word(h, p) = q /\ q + S[q] = p /\ Word(h, p) = S[q] /\ q < p
  <2> HIDE DEF N
  <2> QED BY <1>1, <1>2, <1>4, ReadBack
<1>5. ASSUME ~prev_inuse(h, p) PROVE
      /\ Backs(S, F, p, p - Word(h, p))
      /\ p - Word(h, p) \in F /\ p - Word(h, p) < p
      /\ p - Word(h, p) + Word(h, p) = p
      /\ Word(h, p) = S[p - Word(h, p)] /\ Word(h, p) \in Nat
  <2>1. PICK q \in F : p - Word(h, p) = q /\ q + S[q] = p /\ Word(h, p) = S[q] /\ q < p BY <1>4, <1>5
  <2>2. q \in Nat /\ S[q] \in Nat BY NormalAt
  <2> QED BY <2>1, <2>2 DEF Backs
<1> QED BY <1>3, <1>5 DEF Backs

Unbinned(h, h1, h2, h3, F, p, q, next) ==
    /\ h2 = IF q # p /\ ~IsLastRemainder(h, q) THEN unlink(h1, q) ELSE h1
    /\ h3 = IF next \in F THEN TakeNext(h2, q, next) ELSE h2

\* The bins, while free() takes the neighbours of p out of them.
LEMMA FreeBins ==
    ASSUME NEW h, NEW S, NEW F, NEW p, NEW q, NEW next, NEW h1, NEW h2, NEW h3,
           IsHeap(h), BinsOk(h.bin, h.marked, S, F), Wrote(h, h1),
           Backs(S, F, p, q), p \notin F, next \in F => next # q,
           Unbinned(h, h1, h2, h3, F, p, q, next)
    PROVE  /\ SameMem(h1, h3)
           /\ LooseSet(h3, S, F \ {q, next}, q)
<1>0. /\ h2 = IF q # p /\ ~IsLastRemainder(h, q) THEN unlink(h1, q) ELSE h1
      /\ h3 = IF next \in F THEN TakeNext(h2, q, next) ELSE h2
  BY DEF Unbinned
<1>1. IsHeap(h1) /\ h1.bin = h.bin /\ h1.marked = h.marked BY DEF Wrote
<1>2. BinsOk(h1.bin, h1.marked, S, F) BY <1>1
<1>3. IsLastRemainder(h, q) <=> IsLastRemainder(h1, q) BY <1>1 DEF IsLastRemainder, Bin
<1>4. SameMem(h1, h2) /\ LooseSet(h2, S, F \ {q}, q)
  <2>1. CASE q = p
    <3>1. h2 = h1 BY <2>1, <1>0
    <3>2. LooseAt(h1, S, F, q) BY <1>1, <1>2, <2>1 DEF LooseAt
    <3>3. SameMem(h1, h1) BY <1>1, SameMemRefl
    <3> QED BY <3>1, <3>2, <3>3 DEF LooseSet
  <2>2. CASE q # p
    <3>1. h2 = Loosen(h1, q) BY <2>2, <1>0, <1>3 DEF Loosen
    <3>2. q \in F BY <2>2 DEF Backs
    <3>3. SameMem(h1, Loosen(h1, q)) /\ LooseSet(Loosen(h1, q), S, F \ {q}, q)
      BY ONLY <3>2, <1>1, <1>2, Loosened
    <3> QED BY ONLY <3>1, <3>3
  <2> QED BY <2>1, <2>2
<1>6. CASE next \in F
  <2>1. h3 = TakeNext(h2, q, next) BY <1>0, <1>6
  <2>2. next \in F \ {q} BY <1>6
  <2>3. /\ SameMem(h2, TakeNext(h2, q, next))
        /\ LooseSet(TakeNext(h2, q, next), S, (F \ {q}) \ {next}, q)
    BY ONLY <2>2, <1>4, NextTaken
  <2>4. (F \ {q}) \ {next} = F \ {q, next} OBVIOUS
  <2>5. SameMem(h1, h3) BY <2>1, <2>3, <1>4, SameMemTrans
  <2> QED BY <2>1, <2>3, <2>4, <2>5
<1>7. CASE next \notin F
  <2>1. h3 = h2 BY <1>0, <1>7
  <2>2. F \ {q} = F \ {q, next} BY <1>7
  <2> QED BY <2>1, <2>2, <1>4
<1> QED BY <1>6, <1>7

\* SetFree(), and putting the chunk into its bin.
LEMMA FreeEnds ==
    ASSUME NEW h3, NEW h4, NEW S, NEW T, NEW F, NEW V, NEW q, NEW size, NEW D,
           LooseSet(h3, S, D, q), Wrote(h3, h4),
           \A c \in D : T[c] = S[c], T[q] = size, F = D \union {q},
           Layout(h4, T, F, V), SysOk(h4, T)
    PROVE  /\ SameMem(h4, PutInBin(h4, q, size))
           /\ HeapAt(PutInBin(h4, q, size), T, F, V)
<1> DEFINE g == PutInBin(h4, q, size)
<1>0. PICK K : LooseAt(h3, S, K, q) /\ K \ {q} = D BY DEF LooseSet
<1>1. IsHeap(h4) /\ h4.bin = h3.bin /\ h4.marked = h3.marked BY DEF Wrote
<1>2. BinsOk(h3.bin, h3.marked, S, K) /\ (q \in K => Bin(h3, 1) = <<q>>) BY <1>0 DEF LooseAt
<1>3. \A c \in K : In(OfBin(h3.bin, 1), c) \/ T[c] = S[c]
  <2> TAKE c \in K
  <2>1. CASE c = q
    <3>1. OfBin(h3.bin, 1) = <<q>> BY <2>1, <1>2, BinIs
    <3>2. In(<<q>>, q) BY InToSet, ToSetOne
    <3> QED BY <3>1, <3>2, <2>1
  <2>2. CASE c # q BY <2>2, <1>0
  <2> QED BY <2>1, <2>2
<1>4. BinsOk(h3.bin, h3.marked, T, K) BY <1>2, <1>3, BinsSizes
<1>5. LooseAt(h4, T, K, q)
  <2>1. BinsOk(h4.bin, h4.marked, T, K) BY <1>1, <1>4
  <2>2. Bin(h4, 1) = Bin(h3, 1) BY <1>1, BinIs
  <2> QED BY <2>1, <2>2, <1>1, <1>2 DEF LooseAt
<1>6. K \union {q} = F BY <1>0
<1>7. \A c \in F : /\ T[c] \in Nat /\ T[c] >= 16 /\ T[c] % 8 = 0 /\ chunksize(h4, c) = T[c]
  BY NormalAt
<1>8. SizedFree(T, K \union {q}) BY <1>6, <1>7 DEF SizedFree
<1>9. \A c \in K : chunksize(h4, c) = T[c] BY <1>6, <1>7
<1>10. SameMem(h4, g) /\ BinsOk(g.bin, g.marked, T, K \union {q})
  <2>1. T[q] = size OBVIOUS
  <2> QED BY ONLY <2>1, <1>5, <1>8, <1>9, BinnedAt
<1> HIDE DEF g
<1>11. Layout(g, T, F, V) /\ SysOk(g, T) /\ IsHeap(g) BY <1>10, SameLayout
<1>12. HeapAt(g, T, F, V) BY <1>6, <1>10, <1>11 DEF HeapAt
<1> QED BY <1>10, <1>12 DEF g

-----------------------------------------------------------------------------
(* FreeIntoBin(), as a whole.                                               *)

\* g is a heap of other chunks, that keeps the blocks in W and top.
Keeps(h, g, S, U, W) ==
    \E T, G : /\ HeapAt(g, T, G, U) /\ Kept(h, g, S, T, W)
              /\ SameSys(h, g) /\ g.top = h.top /\ T[h.top] = S[h.top]

\* free() of a chunk that does not border top keeps the heap and all other blocks.
LEMMA FreeIntoBinKeeps ==
    ASSUME NEW h, NEW S, NEW F, NEW U, NEW p \in U, HeapAt(h, S, F, U), p + S[p] # h.top
    PROVE  Keeps(h, FreeIntoBin(h, p, S[p]), S, U \ {p}, U \ {p})
<1> DEFINE size == S[p]
           next == p + size
           q == IF prev_inuse(h, p) THEN p ELSE p - Word(h, p)
           forward == ~inuse(h, next)
           all == size + (p - q) + (IF forward THEN chunksize(h, next) ELSE 0)
           h1 == clear_inuse_bit(h, next)
           h2 == IF q # p /\ ~IsLastRemainder(h, q) THEN unlink(h1, q) ELSE h1
           h3 == IF forward THEN TakeNext(h2, q, next) ELSE h2
           h4 == SetFree(h3, q, all)
           g == PutInBin(h4, q, all)
           e == EndOf(S, F, next)
           D == F \ {q, next}
           G == (F \ {next}) \union {q}
           V == U \ {p}
<1>1. FreeIntoBin(h, p, S[p]) = g BY DEF FreeIntoBin
<1>2. /\ IsHeap(h) /\ Layout(h, S, F, U) /\ SysOk(h, S)
      /\ BinsOk(h.bin, h.marked, S, F)
  BY DEF HeapAt
<1>3. p \in F \union U OBVIOUS
<1>4. forward <=> next \in F BY <1>2, <1>3, NextInuse
<1>5. /\ p \in DOMAIN S /\ p \in Nat /\ size \in Nat /\ size >= 16 /\ next \in DOMAIN S
  BY <1>2, <1>3, NormalAt
<1>6. Backs(S, F, p, q)
  <2>1. CASE prev_inuse(h, p) BY <2>1, <1>2, <1>5, BackIs
  <2>2. CASE ~prev_inuse(h, p) BY <2>2, <1>2, <1>5, BackIs
  <2> QED BY <2>1, <2>2
<1>7. next = p + S[p] /\ next # h.top OBVIOUS
<1>8. chunksize(h, next) = S[next] /\ S[next] \in Nat /\ next \in Nat
  <2> HIDE DEF next, size
  <2> QED BY ONLY <1>2, <1>5, SizeAt
<1>9. IsHeap(h1) /\ Wrote(h, h1)
      /\ \A x : Word(h1, x) = IF x = next + 4 THEN S[next] ELSE Word(h, x)
  <2> HIDE DEF next
  <2> QED BY <1>2, <1>8, ClearInuseIs DEF Wrote
<1> HIDE DEF next, h1, q, forward
<1>10. /\ q \in Nat /\ q <= p /\ p < next /\ next <= e
       /\ e \in DOMAIN S /\ e \in Nat
       /\ q \in DOMAIN S /\ p \in DOMAIN S /\ next \in DOMAIN S
       /\ next \in F => next # q
       /\ \A c \in DOMAIN S : q <= c /\ c < e => c \in {q, p, next}
  BY ONLY <1>2, <1>6, <1>7, FreeSpan, p \in U
<1>11. all = e - q
  <2>1. CASE next \in F
    <3>1. e = next + S[next] BY <2>1 DEF EndOf
    <3>2. all = size + (p - q) + S[next] BY <2>1, <1>4, <1>8
    <3> QED BY <3>1, <3>2, <1>5, <1>7, <1>8, <1>10
  <2>2. CASE next \notin F
    <3>1. e = next BY <2>2 DEF EndOf
    <3>2. all = size + (p - q) + 0 BY <2>2, <1>4
    <3> QED BY <3>1, <3>2, <1>5, <1>7, <1>8, <1>10
  <2> QED BY <2>1, <2>2
<1> HIDE DEF all
<1>12. p \notin F BY <1>2 DEF Layout
<1>13. SameMem(h1, h3) /\ LooseSet(h3, S, D, q)
  <2>1. h3 = IF next \in F THEN TakeNext(h2, q, next) ELSE h2 BY <1>4
  <2>2. h2 = IF q # p /\ ~IsLastRemainder(h, q) THEN unlink(h1, q) ELSE h1 OBVIOUS
  <2>3. next \in F => next # q BY <1>10
  <2> HIDE DEF h2, h3
  <2>4. Unbinned(h, h1, h2, h3, F, p, q, next) BY <2>1, <2>2 DEF Unbinned
  <2> QED BY ONLY <2>3, <2>4, <1>2, <1>6, <1>9, <1>12, FreeBins DEF D
<1> HIDE DEF h2, h3
<1>14. IsHeap(h3) BY <1>13 DEF SameMem
<1>15. Wrote(h3, h4) /\ \A x : Word(h4, x) = IF x = q + all THEN all
                                            ELSE IF x = q + 4 THEN all + 1 ELSE Word(h3, x)
  BY <1>14, SetFreeIs
<1> HIDE DEF h4
<1>16. FreedWords(h, h4, S, q, next, e)
  <2>1. q + all = e BY <1>10, <1>11
  <2>2. \A x : Word(h3, x) = Word(h1, x) BY <1>13 DEF SameMem
  <2> QED BY <2>1, <2>2, <1>9, <1>11, <1>15 DEF FreedWords
<1>17. SameSys(h, h4) /\ h4.top = h.top
  <2>1. SameSys(h, h1) /\ h1.top = h.top BY <1>9 DEF Wrote
  <2>2. SameSys(h1, h3) /\ h3.top = h1.top BY <1>13 DEF SameMem
  <2>3. SameSys(h3, h4) /\ h4.top = h3.top BY <1>15 DEF Wrote
  <2> QED BY <2>1, <2>2, <2>3 DEF SameSys
<1> HIDE DEF e
<1>18. PICK T : OneRun(S, F \union U, T, G \union V, h.fence, h.top, q, e)
  BY <1>2, <1>6, <1>7, FreeRun DEF e
<1>19. /\ Layout(h4, T, G, V) /\ SysOk(h4, T) /\ Kept(h, h4, S, T, V) /\ T[h.top] = S[h.top]
  <2>1. e = EndOf(S, F, next) BY DEF e
  <2>2. FreedAs(h, h4, S, F, U, p, q, next, T, e)
    BY <2>1, <1>6, <1>7, <1>16, <1>17, <1>18 DEF FreedAs, G, V
  <2>3. Layout(h, S, F, U) /\ SysOk(h, S) BY <1>2
  <2>4. /\ Layout(h4, T, (F \ {next}) \union {q}, U \ {p}) /\ SysOk(h4, T)
        /\ Kept(h, h4, S, T, U \ {p}) /\ T[h.top] = S[h.top]
    BY ONLY <2>2, <2>3, FreeWords, p \in U
  <2> QED BY <2>4 DEF G, V
<1>20. T[q] = all /\ \A c \in D : T[c] = S[c]
  <2>1. T[q] = e - q /\ SameOutside(S, F \union U, T, G \union V, q, e) BY <1>18 DEF OneRun
  <2>2. ASSUME NEW c \in D PROVE T[c] = S[c]
    <3>1. c \in DOMAIN S /\ c \in Nat
      <4>1. c \in F \union U OBVIOUS
      <4> QED BY <4>1, <1>2, NormalAt
    <3>2. c # q /\ c # next /\ c # p BY <1>12
    <3>3. c < q \/ c >= e BY <3>1, <3>2, <1>10
    <3> QED BY <3>1, <3>3, <2>1 DEF SameOutside
  <2> QED BY <2>1, <2>2, <1>11
<1>21. G = D \union {q} BY <1>10
<1> HIDE DEF D, G, V
<1>22. SameMem(h4, g) /\ HeapAt(g, T, G, V)
  BY <1>13, <1>15, <1>19, <1>20, <1>21, FreeEnds
<1> HIDE DEF g
<1>23. Kept(h, g, S, T, V)
  <2>1. \A x \in Nat : Word(g, x) = Word(h4, x) BY <1>22 DEF SameMem
  <2>2. Kept(h4, g, T, T, V) BY <2>1, KeptSameWords
  <2>3. V \intersect V = V OBVIOUS
  <2> QED BY <1>19, <2>2, <2>3, KeptTrans
<1>24. SameSys(h, g) /\ g.top = h.top BY <1>17, <1>22 DEF SameMem, SameSys
<1>25. Keeps(h, g, S, V, V) BY <1>19, <1>22, <1>23, <1>24 DEF Keeps
<1> QED BY <1>1, <1>25 DEF V

-----------------------------------------------------------------------------
(* Arithmetic on sizes and pages.                                           *)

\* Division with remainder.
LEMMA DivMod ==
    ASSUME NEW n \in Int, NEW d \in Nat, d > 0
    PROVE  /\ n \div d \in Int /\ n % d \in Nat
           /\ n = d * (n \div d) + (n % d)
           /\ n % d < d
           /\ n \in Nat => n \div d \in Nat
           /\ n \in Nat /\ n < d => n % d = n
  OBVIOUS

\* Whole pages are multiples of 8.
LEMMA MultipleOf8 ==
    ASSUME NEW k \in Int, NEW P \in Nat, P % 8 = 0
    PROVE  k * P \in Int /\ (k * P) % 8 = 0
<1>1. PICK j \in Nat : P = 8 * j
  <2>1. P \div 8 \in Nat /\ P = 8 * (P \div 8) OBVIOUS
  <2> QED BY <2>1
<1>2. k * P = 8 * (k * j) /\ k * j \in Int
  <2>1. P = 8 * j /\ j \in Int /\ k \in Int BY <1>1
  <2>2. k * (8 * j) = 8 * (k * j) BY ONLY <2>1
  <2> QED BY ONLY <2>1, <2>2
<1>3. \A m \in Int : \A x : x = 8 * m => x \in Int /\ x % 8 = 0 OBVIOUS
<1> DEFINE x == k * P
           m == k * j
<1>4. x = 8 * m /\ m \in Int BY <1>2
<1> HIDE DEF x, m
<1>5. x \in Int /\ x % 8 = 0 BY ONLY <1>3, <1>4
<1> QED BY ONLY <1>5 DEF x

\* Rounding up to pages.
LEMMA RoundUpIs ==
    ASSUME NEW x \in Nat, NEW P \in Nat, P > 0
    PROVE  /\ RoundUp(x, P) \in Nat /\ x <= RoundUp(x, P) /\ RoundUp(x, P) < x + P
           /\ x > 0 => RoundUp(x, P) >= P
           /\ P % 8 = 0 => RoundUp(x, P) % 8 = 0
<1> DEFINE n == x + P - 1
           k == n \div P
           r == n % P
<1>1. RoundUp(x, P) = k * P BY DEF RoundUp
<1>2. n \in Nat /\ n = x + P - 1 OBVIOUS
<1> HIDE DEF n
<1>3. k \in Nat /\ r \in Nat /\ n = P * k + r /\ r < P BY <1>2, DivMod
<1> HIDE DEF k, r
<1>4. k * P \in Nat /\ k * P = P * k BY <1>3
<1>5. x <= k * P /\ k * P < x + P BY <1>2, <1>3, <1>4
<1>6. x > 0 => k * P >= P
  <2> SUFFICES ASSUME x > 0 PROVE k * P >= P OBVIOUS
  <2>1. k # 0 BY <1>2, <1>3
  <2>2. PICK j \in Nat : k = j + 1
    <3>1. k - 1 \in Nat /\ k = (k - 1) + 1 BY <2>1, <1>3
    <3> QED BY <3>1
  <2>3. k * P = j * P + P /\ j * P \in Nat BY <2>2
  <2> QED BY <2>3
<1>7. P % 8 = 0 => (k * P) % 8 = 0
  <2>1. k \in Int BY <1>3
  <2> QED BY ONLY <2>1, MultipleOf8, P \in Nat
<1> QED BY <1>1, <1>4, <1>5, <1>6, <1>7

\* An unsigned word, read as a long.
LEMMA LongIs ==
    ASSUME NEW x \in Nat, TopBit \in Nat, TopBit > 0, x < 2 * TopBit
    PROVE  /\ x < TopBit => Long(x) = x
           /\ x >= TopBit => Long(x) < 0
           /\ Long(x) \in Int
<1>1. x % (2 * TopBit) = x
  <2>1. 2 * TopBit \in Nat /\ 2 * TopBit > 0 OBVIOUS
  <2> DEFINE w == 2 * TopBit
  <2> HIDE DEF w
  <2>2. x % w = x BY <2>1, DivMod DEF w
  <2> QED BY <2>2 DEF w
<1>2. Long(x) = IF x >= TopBit THEN x - 2 * TopBit ELSE x BY <1>1 DEF Long
<1> QED BY <1>2

\* A small negative number is itself as a long.
LEMMA LongNegative ==
    ASSUME NEW x \in Int, TopBit \in Nat, TopBit > 0, x < 0, x >= -TopBit
    PROVE  Long(x) = x
<1> DEFINE w == 2 * TopBit
<1>1. w \in Nat /\ w > 0 /\ w = TopBit + TopBit OBVIOUS
<1> HIDE DEF w
<1>2. x \div w \in Int /\ x % w \in Nat /\ x = w * (x \div w) + (x % w) /\ x % w < w
  BY <1>1, DivMod
<1>3. x \div w = -1
  <2> DEFINE k == x \div w
  <2>1. k \in Int /\ x < w * k + w /\ w * k <= x BY <1>1, <1>2
  <2> HIDE DEF k
  <2>2. ASSUME k >= 0 PROVE FALSE
    <3>1. k \in Nat /\ w * k \in Nat BY <2>1, <2>2, <1>1
    <3> QED BY <3>1, <2>1
  <2>3. ASSUME k <= -2 PROVE FALSE
    <3>1. PICK j \in Nat : k = -2 - j
      <4>1. -2 - k \in Nat /\ k = -2 - (-2 - k) BY <2>1, <2>3
      <4> QED BY <4>1
    <3>2. w * k = 0 - w - w - w * j /\ w * j \in Nat BY <3>1, <1>1
    <3> QED BY <3>2, <2>1, <1>1
  <2> QED BY <2>1, <2>2, <2>3 DEF k
<1>4. x % w = x + w BY <1>1, <1>2, <1>3
<1>5. Long(x) = IF x % w >= TopBit THEN (x % w) - w ELSE x % w BY DEF Long, w
<1> QED BY <1>1, <1>4, <1>5

\* What malloc_trim() gives back of a top of size bytes.
TrimExtra(size, pad) ==
    LET spare == (size - pad - MINSIZE + PageSize - 1) % (2 * TopBit)
    IN Long((spare \div PageSize - 1) * PageSize)

PadFits(pad) == pad \in Nat /\ pad + 2 * PageSize + 64 < TopBit

\* malloc_trim() gives back whole pages, and leaves MINSIZE bytes of top.
LEMMA TrimExtraIs ==
    ASSUME NEW size \in Nat, NEW pad, PadFits(pad),
           PageSize \in Nat, PageSize >= 16, PageSize % 8 = 0, TopBit \in Nat,
           TrimExtra(size, pad) >= PageSize, size % 8 = 0
    PROVE  /\ TrimExtra(size, pad) \in Nat
           /\ TrimExtra(size, pad) % 8 = 0
           /\ size - TrimExtra(size, pad) >= 16
<1> DEFINE P == PageSize
           w == 2 * TopBit
           v == size - pad - MINSIZE + P - 1
           spare == v % w
           k == spare \div P
           x == (k - 1) * P
<1>1. TrimExtra(size, pad) = Long(x) BY DEF TrimExtra
<1>2. P \in Nat /\ P >= 16 /\ pad \in Nat /\ pad + 2 * P + 64 < TopBit BY DEF PadFits
<1>3. w \in Nat /\ w > 0 /\ w = TopBit + TopBit /\ TopBit > 0 BY <1>2
<1>4. v \in Int /\ v = (size - pad) - 16 + (P - 1) BY <1>2 DEF MINSIZE
<1> HIDE DEF v, w
<1>5. spare \in Nat /\ v = w * (v \div w) + spare /\ spare < w /\ v \div w \in Int
      /\ (v \in Nat /\ v < w => spare = v)
  BY <1>3, <1>4, DivMod
<1> HIDE DEF spare
<1>6. k \in Nat /\ P * k <= spare /\ spare < P * k + P
  <2>1. k \in Nat /\ spare % P \in Nat /\ spare = P * k + (spare % P) /\ spare % P < P
    BY <1>2, <1>5, DivMod
  <2> DEFINE r == spare % P
  <2> HIDE DEF r, k
  <2>2. k \in Nat /\ r \in Nat /\ spare = P * k + r /\ r < P BY <2>1 DEF r
  <2>3. P * k \in Nat BY <2>2, <1>2
  <2> QED BY <2>2, <2>3, <1>2
<1> HIDE DEF k, P
<1>7. x = P * k - P /\ P * k \in Nat BY <1>2, <1>6
<1>8. x % 8 = 0
  <2>1. P % 8 = 0 BY DEF P
  <2>2. k - 1 \in Int BY <1>6
  <2> QED BY <2>1, <2>2, <1>2, MultipleOf8
<1> DEFINE Pk == P * k
<1>9. Pk \in Nat /\ x = Pk - P /\ Pk <= spare /\ spare < Pk + P BY <1>6, <1>7
<1> HIDE DEF x, Pk
<1>10. x \in Int /\ x <= spare - P /\ x > spare - (P + P) BY <1>2, <1>5, <1>9
<1>11. Long(x) >= P BY <1>1 DEF P
<1>12. x >= 0
  <2> SUFFICES ASSUME x < 0 PROVE FALSE BY <1>10
  <2>1. x >= 0 - P BY <1>9, <1>2
  <2>2. Long(x) = x
    <3>1. x >= -TopBit BY <2>1, <1>2, <1>10
    <3> QED BY <3>1, <1>3, <1>10, LongNegative
  <2> QED BY <2>2, <1>11, <1>2, <1>10
<1>13. x \in Nat /\ x < w BY <1>12, <1>10, <1>5, <1>2, <1>3
<1>14. Long(x) = x /\ x < TopBit
  <2>1. x < 2 * TopBit BY <1>13 DEF w
  <2>2. ~(x >= TopBit)
    <3> SUFFICES ASSUME x >= TopBit PROVE FALSE OBVIOUS
    <3>1. Long(x) < 0 /\ Long(x) \in Int BY <2>1, <1>3, <1>13, LongIs
    <3> QED BY <3>1, <1>11, <1>2
  <2> QED BY <2>1, <2>2, <1>3, <1>13, LongIs
<1>15. v >= 0
  <2> SUFFICES ASSUME v < 0 PROVE FALSE BY <1>4
  <2>1. v > 0 - TopBit + (P + P) BY <1>2, <1>4
  <2>2. v >= -TopBit BY <2>1, <1>2, <1>4
  <2>3. spare = v + w
    <3> DEFINE j == v \div w
    <3>1. j \in Int /\ v = w * j + spare BY <1>5
    <3> HIDE DEF j
    <3>2. ASSUME j >= 0 PROVE FALSE
      <4>1. w * j \in Nat
        <5>1. j \in Nat BY <3>1, <3>2
        <5> QED BY <5>1, <1>3
      <4> QED BY <4>1, <3>1, <1>4, <1>5
    <3>3. ASSUME j <= -2 PROVE FALSE
      <4>1. PICK i \in Nat : j = -2 - i
        <5>1. -2 - j \in Nat /\ j = -2 - (-2 - j) BY <3>1, <3>3
        <5> QED BY <5>1
      <4>2. w * j = 0 - w - w - w * i /\ w * i \in Nat BY <4>1, <1>3
      <4>3. v < 0 - w
        <5> DEFINE wi == w * i
                   wj == w * j
        <5>1. wi \in Nat /\ wj = 0 - w - w - wi /\ v = wj + spare BY <4>2, <3>1
        <5> HIDE DEF wi, wj
        <5> QED BY <5>1, <1>3, <1>5
      <4> QED BY <4>3, <2>2, <1>3, <1>4
    <3>4. j = -1 BY <3>1, <3>2, <3>3
    <3>5. w * j = 0 - w BY <3>4, <1>3
    <3> QED BY <3>1, <3>5, <1>3, <1>4, <1>5
  <2>4. x >= TopBit BY <2>1, <2>3, <1>2, <1>3, <1>4, <1>5, <1>10
  <2> QED BY <2>4, <1>14, <1>2, <1>10
<1>16. spare <= v
  <2>1. v \in Nat BY <1>4, <1>15
  <2> DEFINE j == v \div w
             wj == w * j
  <2>2. j \in Nat /\ v = w * j + spare BY <2>1, <1>3, <1>5, DivMod
  <2> HIDE DEF j
  <2>3. wj \in Nat /\ v = wj + spare BY <2>2, <1>3
  <2> HIDE DEF wj
  <2> QED BY <2>3, <1>5
<1>17. size - x >= 16
  <2>1. x <= ((size - pad) - 16 + (P - 1)) - P BY <1>2, <1>4, <1>5, <1>10, <1>16
  <2>2. size - x >= 17 BY <2>1, <1>2, <1>13
  <2> QED BY <2>2, <1>13
<1> QED BY <1>1, <1>8, <1>13, <1>14, <1>17

-----------------------------------------------------------------------------
(* sbrk() and malloc_trim().                                                *)

\* g differs from h in words, top, the break and the base.
Around(h, g) ==
    /\ IsHeap(g) /\ g.start = h.start /\ g.end = h.end /\ g.fence = h.fence
    /\ g.top_pad = h.top_pad /\ g.bin = h.bin /\ g.marked = h.marked

\* sbrk() moves the break.
LEMMA SbrkIs ==
    ASSUME NEW h, NEW n, IsHeap(h), ~SbrkFails(h, n)
    PROVE  LET g == sbrk(h, n)
           IN /\ Around(h, g) /\ g.top = h.top /\ g.base = h.base
              /\ g.brk = h.brk + n
              /\ \A x : Word(g, x) = Word(h, x)
<1> DEFINE g == sbrk(h, n)
           hi == Max({h.high, h.brk + n})
<1>1. g = [h EXCEPT !.brk = @ + n, !.high = hi] BY DEF sbrk
<1> HIDE DEF hi, g
<1>2. g = [mem |-> h.mem, bin |-> h.bin, marked |-> h.marked, top |-> h.top,
            brk |-> h.brk + n, start |-> h.start, end |-> h.end, base |-> h.base,
            high |-> hi, fence |-> h.fence,
            trim_threshold |-> h.trim_threshold, top_pad |-> h.top_pad]
  BY <1>1 DEF IsHeap
<1>3. /\ g.bin = h.bin /\ g.mem = h.mem /\ g.marked = h.marked /\ g.top = h.top
      /\ g.start = h.start /\ g.end = h.end /\ g.fence = h.fence /\ g.top_pad = h.top_pad
      /\ g.base = h.base /\ g.brk = h.brk + n
  BY <1>2
<1>4. \A x : Word(g, x) = Word(h, x) BY <1>3 DEF Word
<1>5. h.mem = [a \in DOMAIN h.mem |-> h.mem[a]] /\ h.bin = [a \in DOMAIN h.bin |-> h.bin[a]] BY DEF IsHeap
<1>6. IsHeap(g) BY <1>2, <1>5 DEF IsHeap
<1> QED BY <1>3, <1>4, <1>6 DEF g, Around

\* sbrk() that fails changes nothing.
LEMMA SbrkNot ==
    ASSUME NEW h, NEW n, SbrkFails(h, n)
    PROVE  sbrk(h, n) = h
BY DEF sbrk

\* A free chunk's size is that of another layout, below a.
LEMMA SizesBelow ==
    ASSUME NEW h, NEW g, NEW S, NEW F, NEW U, NEW T, NEW M, NEW G, NEW V, NEW a,
           Layout(h, S, F, U), Layout(g, T, G, V), G \subseteq F, a \notin G,
           SameBelow(S, F \union U, T, M, a), \A c \in G : c < a,
           NEW b, NEW m, BinsOk(b, m, S, G)
    PROVE  BinsOk(b, m, T, G)
<1>1. \A c \in G : T[c] = S[c]
  <2> TAKE c \in G
  <2>1. c \in F \union U OBVIOUS
  <2>2. c \in DOMAIN S BY <2>1, NormalAt
  <2> QED BY <2>2 DEF SameBelow
<1> QED BY <1>1, BinsSizes

\* Top gets a new size, and the break may move.
LEMMA TopResized ==
    ASSUME NEW h, NEW S, NEW F, NEW U, HeapAt(h, S, F, U), h.top # 0,
           NEW g, NEW n \in Nat, n >= 16, n % 8 = 0, Around(h, g), g.top = h.top,
           HeadOf(g, h.top) = n + 1, \A x : x # h.top + 4 => Word(g, x) = Word(h, x),
           g.brk \in Nat, g.start <= g.brk, h.top + n <= g.brk, g.brk <= g.end, g.base # -1
    PROVE  \E T : HeapAt(g, T, F, U) /\ Kept(h, g, S, T, U) /\ T[h.top] = n
<1> DEFINE t == h.top
           T == ResizeS(S, t, n)
           N == F \union U
<1>1. /\ IsHeap(h) /\ Layout(h, S, F, U) /\ SysOk(h, S) /\ BinsOk(h.bin, h.marked, S, F)
  BY DEF HeapAt
<1>2. Tiled(S, N, h.fence, t) /\ F \intersect U = {} /\ NoTwoFree(S, F, t) BY <1>1 DEF Layout
<1>3. t \in DOMAIN S /\ t \in Nat
  <2>1. t \in DOMAIN S BY <1>2 DEF Tiled, Placed
  <2> QED BY <2>1, <1>1, SizeAt
<1>4. \A c \in N : c < t
  <2> TAKE c \in N
  <2>1. c \in Nat /\ S[c] \in Nat /\ S[c] >= 16 /\ c + S[c] <= t BY <1>1, NormalAt
  <2> QED BY <2>1, <1>3
<1> HIDE DEF t, N, T
<1>5. TopRun(S, N, T, N, h.fence, t, t + n)
  <2>1. t # 0 BY DEF t
  <2>2. TopRun(S, N, S, N, h.fence, t, t + S[t]) BY ONLY <2>1, <1>2, TopBase
  <2>3. n \in Nat /\ n >= 16 /\ n % 8 = 0 OBVIOUS
  <2> QED BY ONLY <2>2, <2>3, TopResize DEF T
<1>6. ~FreeBefore(S, F, t) BY <1>2 DEF NoTwoFree, FreeBefore
<1>7. TopChange(h, g, S, F, U, T, F, U, t, t + n)
  <2>1. g.top = t /\ g.fence = h.fence BY DEF t, Around
  <2>2. FreeBelow(F, F, t) BY DEF FreeBelow
  <2>3. WordsBelow(h, g, t)
    <3>1. \A x \in Nat : x < t + 4 => x # h.top + 4 BY <1>3 DEF t
    <3> QED BY <3>1 DEF WordsBelow
  <2>4. TopHeads(g, S, F, t, t + n)
    <3>1. Bit(S, F, t) = 1 BY <1>6 DEF Bit
    <3>2. HeadOf(g, t) = n + 1 BY DEF t
    <3>3. (t + n) - t = n BY <1>3
    <3> QED BY <3>1, <3>2, <3>3 DEF TopHeads
  <2> QED BY <2>1, <2>2, <2>3, <2>4, <1>1, <1>2, <1>5, <1>6 DEF TopChange, N
<1>8. Below(U, t) BY <1>4 DEF Below, N
<1>9. Layout(g, T, F, U) /\ Kept(h, g, S, T, U) /\ T[t] = (t + n) - t
  <2>1. U \subseteq F \union U OBVIOUS
  <2>2. t \in DOMAIN S BY <1>3
  <2> DEFINE e == t + n
  <2>3. TopChange(h, g, S, F, U, T, F, U, t, e) BY ONLY <1>7
  <2> HIDE DEF e
  <2>4. Layout(g, T, F, U) /\ Kept(h, g, S, T, U) /\ T[t] = e - t
    BY ONLY <2>1, <2>2, <2>3, <1>8, TopLayout
  <2> QED BY <2>4 DEF e
<1>10. T[t] = n BY <1>9, <1>3
<1>11. SysOk(g, T)
  <2>1. g.top = t /\ T[g.top] = n BY <1>10 DEF t
  <2> QED BY <2>1, <1>1 DEF SysOk, Around, t
<1>12. BinsOk(g.bin, g.marked, T, F)
  <2>1. \A c \in F : T[c] = S[c]
    <3> TAKE c \in F
    <3>1. c \in N /\ c < t BY <1>4 DEF N
    <3>2. c \in DOMAIN S
      <4>1. c \in F \union U OBVIOUS
      <4> QED BY <4>1, <1>1, NormalAt
    <3> QED BY <3>1, <3>2, <1>5 DEF TopRun, SameBelow
  <2>2. g.bin = h.bin /\ g.marked = h.marked BY DEF Around
  <2> QED BY <2>1, <2>2, <1>1, BinsSizes
<1>13. HeapAt(g, T, F, U) BY <1>9, <1>11, <1>12 DEF HeapAt, Around
<1> QED BY <1>9, <1>10, <1>13 DEF t

\* malloc_trim() keeps the heap and every block.
LEMMA TrimKeeps ==
    ASSUME NEW h, NEW S, NEW F, NEW U, NEW pad, HeapAt(h, S, F, U), h.top # 0, PadFits(pad)
    PROVE  \E T : HeapAt(malloc_trim(h, pad), T, F, U) /\ Kept(h, malloc_trim(h, pad), S, T, U)
<1> DEFINE t == h.top
           size == chunksize(h, t)
           extra == TrimExtra(size, pad)
           k == sbrk(h, -extra)
           g == set_head(k, t, size - extra)
<1>1. malloc_trim(h, pad) = IF \/ extra < PageSize
                               \/ h.brk # t + size
                               \/ SbrkFails(h, -extra) THEN h ELSE g
  BY DEF malloc_trim, TrimExtra
<1>2. /\ IsHeap(h) /\ Layout(h, S, F, U) /\ SysOk(h, S) /\ BinsOk(h.bin, h.marked, S, F)
  BY DEF HeapAt
<1>3. t \in DOMAIN S
  <2>1. Tiled(S, F \union U, h.fence, t) BY <1>2 DEF Layout
  <2> QED BY <2>1 DEF Tiled, Placed
<1>4. size = S[t] /\ t \in Nat /\ size \in Nat /\ size % 8 = 0
  <2>1. Tiled(S, F \union U, h.fence, t) BY <1>2 DEF Layout
  <2>2. S[t] % 8 = 0 /\ size = S[t] /\ t \in Nat /\ S[t] \in Nat BY <1>2, <1>3, <2>1, SizeAt, Chunk
  <2> QED BY <2>2
<1> HIDE DEF extra
<1>5. CASE extra < PageSize \/ h.brk # t + size \/ SbrkFails(h, -extra)
  <2>1. malloc_trim(h, pad) = h BY <1>1, <1>5
  <2>2. Kept(h, h, S, S, U) BY KeptRefl
  <2> QED BY <2>1, <2>2
<1>6. CASE ~(extra < PageSize) /\ h.brk = t + size /\ ~SbrkFails(h, -extra)
  <2>1. malloc_trim(h, pad) = g BY <1>1, <1>6
  <2>2. extra \in Nat /\ extra % 8 = 0 /\ size - extra >= 16 /\ PageSize \in Nat /\ PageSize >= 16
    <3>1. extra \in Int
      <4> DEFINE y == ((size - pad - MINSIZE + PageSize - 1) % (2 * TopBit)) \div PageSize
                 z == (y - 1) * PageSize
      <4>1. PageSize \in Nat /\ TopBit \in Nat /\ PageSize > 0 BY MallocConstants
      <4>2. pad \in Nat /\ TopBit > 0 BY <4>1 DEF PadFits
      <4> DEFINE v == size - pad - MINSIZE + PageSize - 1
                 w == 2 * TopBit
      <4>3. v \in Int /\ w \in Nat /\ w > 0 BY <4>1, <4>2, <1>4 DEF MINSIZE
      <4> HIDE DEF v, w
      <4>4. v % w \in Nat BY <4>3, DivMod
      <4>5. y = (v % w) \div PageSize BY DEF v, w
      <4>6. y \in Int BY <4>1, <4>4, <4>5, DivMod
      <4>7. z \in Int BY <4>1, <4>6
      <4>8. extra = Long(z) BY DEF extra, TrimExtra
      <4> HIDE DEF z
      <4>9. z % w \in Nat BY <4>3, <4>7, DivMod
      <4> QED BY <4>3, <4>8, <4>9 DEF Long, w
    <3>2. extra >= PageSize BY <3>1, <1>6, MallocConstants
    <3> QED BY <3>2, <1>4, MallocConstants, TrimExtraIs DEF extra
  <2> DEFINE n == size - extra
  <2>3. n \in Nat /\ n >= 16 /\ n % 8 = 0 BY <2>2, <1>4
  <2>4. /\ Around(h, k) /\ k.top = h.top /\ k.base = h.base /\ k.brk = h.brk + (-extra)
        /\ \A x : Word(k, x) = Word(h, x)
    BY <1>2, <1>6, SbrkIs
  <2>5. IsHeap(k) BY <2>4 DEF Around
  <2> HIDE DEF k, n
  <2>6. /\ Wrote(k, g) /\ \A x : Word(g, x) = IF x = t + 4 THEN n + 1 ELSE Word(k, x)
    BY <2>5, SetHeadIs DEF n
  <2> HIDE DEF g
  <2>7. /\ Around(h, g) /\ g.top = h.top /\ g.brk = k.brk /\ g.base = h.base
    BY <2>4, <2>6 DEF Around, Wrote, SameSys
  <2>8. HeadOf(g, h.top) = n + 1 /\ \A x : x # h.top + 4 => Word(g, x) = Word(h, x)
    BY <2>4, <2>6 DEF HeadOf, SIZE_SZ
  <2>9. h.brk \in Nat /\ h.start \in Nat /\ h.end \in Nat /\ h.brk <= h.end /\ h.base # -1
    BY <1>2 DEF SysOk
  <2>10. g.brk = h.brk - extra BY <2>2, <2>4, <2>7, <2>9
  <2>11. h.brk - extra >= h.start
    <3>1. ~(h.brk + (-extra) < h.start) BY <1>6 DEF SbrkFails
    <3> QED BY <3>1, <2>2, <2>9
  <2>12. g.brk \in Nat /\ g.start <= g.brk /\ h.top + n <= g.brk /\ g.brk <= g.end /\ g.base # -1
    BY <2>2, <2>3, <2>7, <2>9, <2>10, <2>11, <1>4, <1>6 DEF Around, n
  <2>13. \E T : HeapAt(g, T, F, U) /\ Kept(h, g, S, T, U) /\ T[h.top] = n
    BY <2>3, <2>7, <2>8, <2>12, TopResized
  <2> QED BY <2>1, <2>13
<1> QED BY <1>5, <1>6

-----------------------------------------------------------------------------
(* free() of a chunk that borders top, and all of free().                   *)

\* The heap after free() made p, and a free chunk before it, a part of top.
FreedTop(h, p, q, all) ==
    [set_head(IF q # p THEN unlink(h, q) ELSE h, q, all) EXCEPT !.top = q]

Merged(F, p, q) == p \notin F /\ (q # p => q \in F)
\* g differs from h in the word at x only, which is v.
OneWord(h, g, x, v) == \A y : Word(g, y) = IF y = x THEN v ELSE Word(h, y)

\* What free() writes when it merges a chunk into top.
LEMMA FreedTopIs ==
    ASSUME NEW h, NEW S, NEW F, NEW p, NEW q, NEW all,
           IsHeap(h), BinsOk(h.bin, h.marked, S, F), Merged(F, p, q)
    PROVE  LET g == FreedTop(h, p, q, all)
           IN /\ IsHeap(g) /\ SameSys(h, g) /\ g.top = q
              /\ BinsOk(g.bin, g.marked, S, F \ {q})
              /\ OneWord(h, g, q + 4, all + 1)
<1>0. p \notin F /\ (q # p => q \in F) BY DEF Merged
<1> DEFINE h1 == IF q # p THEN unlink(h, q) ELSE h
           k == set_head(h1, q, all)
           g == [k EXCEPT !.top = q]
<1>1. SameMem(h, h1) /\ BinsOk(h1.bin, h1.marked, S, F \ {q})
  <2>1. CASE q # p
    <3>1. q \in F /\ h1 = unlink(h, q) BY <1>0, <2>1
    <3> HIDE DEF h1
    <3>2. /\ SameMem(h, unlink(h, q))
          /\ BinsOk(unlink(h, q).bin, h.marked, S, F \ {q})
          /\ unlink(h, q).marked = h.marked
      BY ONLY <3>1, IsHeap(h), BinsOk(h.bin, h.marked, S, F), Unlinked
    <3> QED BY <3>1, <3>2
  <2>2. CASE q = p
    <3>1. h1 = h /\ F \ {q} = F BY <1>0, <2>2
    <3> QED BY <3>1, SameMemRefl
  <2> QED BY <2>1, <2>2
<1>2. FreedTop(h, p, q, all) = g BY DEF FreedTop
<1> HIDE DEF h1
<1>3. IsHeap(h1) /\ SameSys(h, h1) /\ \A x : Word(h1, x) = Word(h, x) BY <1>1 DEF SameMem
<1>4. Wrote(h1, k) /\ \A x : Word(k, x) = IF x = q + 4 THEN all + 1 ELSE Word(h1, x)
  BY <1>3, SetHeadIs
<1> HIDE DEF k
<1>5. IsHeap(k) /\ SameSys(h1, k) /\ k.bin = h1.bin /\ k.marked = h1.marked BY <1>4 DEF Wrote
<1>6. /\ IsHeap(g) /\ SameSys(k, g) /\ g.top = q /\ g.bin = k.bin /\ g.marked = k.marked
      /\ \A x : Word(g, x) = Word(k, x)
  BY <1>5, SetTopIs, ZenonT(40)
<1> HIDE DEF g
<1>7. SameSys(h, g) BY <1>3, <1>5, <1>6 DEF SameSys
<1>8. BinsOk(g.bin, g.marked, S, F \ {q}) BY <1>1, <1>5, <1>6
<1>9. \A x : Word(g, x) = IF x = q + 4 THEN all + 1 ELSE Word(h, x) BY <1>3, <1>4, <1>6
<1>10. OneWord(h, g, q + 4, all + 1) BY <1>9 DEF OneWord
<1> QED BY <1>2, <1>6, <1>7, <1>8, <1>10

\* The chunks it merges are the last ones.
LEMMA TopSpan ==
    ASSUME NEW h, NEW S, NEW F, NEW U, NEW p \in U, NEW q, Layout(h, S, F, U),
           Backs(S, F, p, q), p + S[p] = h.top
    PROVE  /\ \A c \in (F \ {q}) \union (U \ {p}) : c < q
           /\ ~FreeBefore(S, F, q)
           /\ h.top \notin F /\ h.top # 0 /\ (q # p => q \in F)
           /\ q \in DOMAIN S /\ q \in Nat /\ q <= p
           /\ \E T : TopRun(S, F \union U, T, (F \ {q}) \union (U \ {p}), h.fence,
                            q, h.top + S[h.top])
<1> DEFINE t == h.top
           N == F \union U
<1>1. Tiled(S, N, h.fence, t) /\ F \intersect U = {} /\ NoTwoFree(S, F, t) BY DEF Layout
<1>2. t \notin N BY <1>1 DEF Tiled, Placed
<1>3. /\ q \in Nat /\ q <= p /\ p < t /\ t <= EndOf(S, F, t)
      /\ EndOf(S, F, t) \in DOMAIN S /\ EndOf(S, F, t) \in Nat
      /\ \A c \in DOMAIN S : q <= c /\ c < EndOf(S, F, t) => c \in {q, p, t}
      /\ q \in DOMAIN S
  BY FreeSpan
<1>4. EndOf(S, F, t) = t BY <1>2 DEF EndOf
<1>5. p \notin F BY <1>1
<1>6. q # p => q \in F BY DEF Backs
<1>7. \A c \in (F \ {q}) \union (U \ {p}) : c < q
  <2> TAKE c \in (F \ {q}) \union (U \ {p})
  <2>1. c \in N /\ c # p /\ c # q /\ c # t BY <1>1, <1>2, <1>5, <1>6
  <2>2. c \in F \union U BY <2>1
  <2>3. c \in Nat /\ c \in DOMAIN S /\ S[c] \in Nat /\ S[c] >= 16 /\ c + S[c] <= t /\ t \in Nat
    BY <2>2, NormalAt
  <2>4. ~(q <= c /\ c < t) BY <2>1, <2>3, <1>3, <1>4
  <2> QED BY <2>3, <2>4, <1>3
<1>8. ~FreeBefore(S, F, q)
  <2>1. CASE q = p /\ ~FreeBefore(S, F, p) BY <2>1
  <2>2. CASE q \in F /\ q + S[q] = p BY <2>2, <1>1 DEF FreeBefore, NoTwoFree
  <2> QED BY <2>1, <2>2 DEF Backs
<1>9. \E T : TopRun(S, N, T, (F \ {q}) \union (U \ {p}), h.fence, q, t + S[t])
  <2>1. PICK T : OneRun(S, N, T, ((F \ {t}) \union {q}) \union (U \ {p}), h.fence, t, q,
                        EndOf(S, F, t))
    BY FreeRun
  <2> DEFINE M == ((F \ {t}) \union {q}) \union (U \ {p})
  <2>2. M \ {q} = (F \ {q}) \union (U \ {p}) BY <1>1, <1>2, <1>5, <1>6
  <2> HIDE DEF M, N, t
  <2>3. OneRun(S, N, T, M, h.fence, t, q, t) BY <2>1, <1>4 DEF M
  <2>4. TopRun(S, N, JoinS(T, q, t), M \ {q}, h.fence, q, t + S[t])
    BY ONLY <2>3, <1>1, TopMerge
  <2> QED BY <2>2, <2>4
<1>10. t # 0
  <2>1. p \in F \union U OBVIOUS
  <2>2. p + S[p] \in DOMAIN S BY <2>1, NormalAt
  <2>3. t \in DOMAIN S BY <2>2
  <2> QED BY <2>3, SizeAt
<1> QED BY <1>2, <1>3, <1>6, <1>7, <1>8, <1>9, <1>10

\* The result is a heap, without the block.
LEMMA FreedTopAt ==
    ASSUME NEW h, NEW S, NEW F, NEW U, NEW p \in U, NEW q, NEW all, HeapAt(h, S, F, U),
           Backs(S, F, p, q), p + S[p] = h.top, all = S[p] + S[h.top] + (p - q)
    PROVE  \E T : /\ HeapAt(FreedTop(h, p, q, all), T, F \ {q}, U \ {p})
                  /\ Kept(h, FreedTop(h, p, q, all), S, T, U \ {p})
                  /\ FreedTop(h, p, q, all).top # 0
<1> DEFINE g == FreedTop(h, p, q, all)
           t == h.top
           e == t + S[t]
           G == F \ {q}
           V == U \ {p}
<1>1. /\ IsHeap(h) /\ Layout(h, S, F, U) /\ SysOk(h, S) /\ BinsOk(h.bin, h.marked, S, F)
  BY DEF HeapAt
<1>2. F \intersect U = {} BY <1>1 DEF Layout
<1>3. /\ \A c \in (F \ {q}) \union (U \ {p}) : c < q
      /\ ~FreeBefore(S, F, q)
      /\ h.top \notin F /\ h.top # 0 /\ (q # p => q \in F)
      /\ q \in DOMAIN S /\ q \in Nat /\ q <= p
      /\ \E T : TopRun(S, F \union U, T, (F \ {q}) \union (U \ {p}), h.fence,
                       q, h.top + S[h.top])
  BY <1>1, TopSpan
<1>4. PICK T : TopRun(S, F \union U, T, G \union V, h.fence, q, e) BY <1>3
<1>5. t # 0 /\ q \in DOMAIN S /\ q \in Nat /\ ~FreeBefore(S, F, q) BY <1>3
<1>6. p \in DOMAIN S /\ p \in Nat /\ S[p] \in Nat /\ t \in Nat /\ S[t] \in Nat /\ t \in DOMAIN S
  <2>1. p \in F \union U OBVIOUS
  <2>2. p \in DOMAIN S /\ p \in Nat /\ S[p] \in Nat BY <2>1, <1>1, NormalAt
  <2>3. t \in DOMAIN S /\ t \in Nat BY <2>2, <1>1, SizeAt
  <2> QED BY <2>2, <2>3, <1>1, SizeAt
<1>7. p \notin F /\ (q # p => q \in F)
  BY <1>2 DEF Backs
<1>8. /\ IsHeap(g) /\ SameSys(h, g) /\ g.top = q
      /\ BinsOk(g.bin, g.marked, S, F \ {q})
      /\ \A x : Word(g, x) = IF x = q + 4 THEN all + 1 ELSE Word(h, x)
  <2>1. Merged(F, p, q) BY <1>7 DEF Merged
  <2>2. IsHeap(h) /\ BinsOk(h.bin, h.marked, S, F) BY <1>1
  <2>3. /\ IsHeap(g) /\ SameSys(h, g) /\ g.top = q
        /\ BinsOk(g.bin, g.marked, S, F \ {q})
        /\ OneWord(h, g, q + 4, all + 1)
    BY ONLY <2>1, <2>2, FreedTopIs
  <2> QED BY <2>3 DEF OneWord
<1> HIDE DEF g, t, e, G, V
<1>9. TopChange(h, g, S, F, U, T, G, V, q, e)
  <2>1. g.fence = h.fence BY <1>8 DEF SameSys
  <2>2. G \intersect V = {} BY <1>2 DEF G, V
  <2>3. FreeBelow(F, G, q) BY <1>5 DEF FreeBelow, G
  <2>4. WordsBelow(h, g, q)
    <3>1. \A x \in Nat : x < q + 4 => x # q + 4 BY <1>5
    <3> QED BY <3>1, <1>8 DEF WordsBelow
  <2>5. TopHeads(g, S, F, q, e)
    <3>1. Bit(S, F, q) = 1 BY <1>5 DEF Bit
    <3>2. HeadOf(g, q) = all + 1 BY <1>8 DEF HeadOf, SIZE_SZ
    <3>3. all = e - q BY <1>5, <1>6 DEF e, t
    <3> QED BY <3>1, <3>2, <3>3 DEF TopHeads
  <2> QED BY <2>1, <2>2, <2>3, <2>4, <2>5, <1>1, <1>4, <1>5, <1>8 DEF TopChange
<1>10. Below(V, q) BY <1>3 DEF Below, V
<1>11. Layout(g, T, G, V) /\ Kept(h, g, S, T, V) /\ T[q] = e - q /\ q # 0
  <2>1. V \subseteq F \union U BY DEF V
  <2>2. q \in DOMAIN S BY <1>5
  <2> QED BY ONLY <2>1, <2>2, <1>9, <1>10, TopLayout
<1>12. SysOk(g, T)
  <2>1. q + T[q] = e BY <1>11, <1>5, <1>6 DEF e
  <2>2. e <= h.brk /\ h.base # -1 BY <1>1, <1>5 DEF SysOk, e, t
  <2> QED BY <2>1, <2>2, <1>1, <1>8 DEF SysOk, SameSys
<1>13. BinsOk(g.bin, g.marked, T, G)
  <2>1. G \subseteq F /\ q \notin G /\ \A c \in G : c < q BY <1>3 DEF G
  <2>2. SameBelow(S, F \union U, T, G \union V, q) BY <1>4 DEF TopRun
  <2>3. BinsOk(g.bin, g.marked, S, G) BY <1>8 DEF G
  <2> QED BY ONLY <2>1, <2>2, <2>3, <1>1, <1>11, SizesBelow
<1>14. HeapAt(g, T, G, V) BY <1>8, <1>11, <1>12, <1>13 DEF HeapAt
<1> QED BY <1>8, <1>11, <1>14 DEF g, G, V

\* g is a heap with the chunks U of programs, and keeps the blocks in W.
After(h, g, S, U, W) == \E T, G : HeapAt(g, T, G, U) /\ Kept(h, g, S, T, W)

\* ... also when free() trims top.
LEMMA AfterTrim ==
    ASSUME NEW h, NEW g, NEW S, NEW T, NEW G, NEW U, NEW pad, PadFits(pad),
           HeapAt(g, T, G, U), Kept(h, g, S, T, U), g.top # 0
    PROVE  After(h, malloc_trim(g, pad), S, U, U)
<1> DEFINE k == malloc_trim(g, pad)
<1>1. PICK P : HeapAt(k, P, G, U) /\ Kept(g, k, T, P, U) BY TrimKeeps
<1> HIDE DEF k
<1>2. Kept(h, k, S, P, U)
  <2>1. Kept(h, k, S, P, U \intersect U) BY <1>1, KeptTrans
  <2> QED BY <2>1
<1> QED BY <1>1, <1>2 DEF After, k

\* free() of a chunk that borders top keeps the heap and all other blocks.
LEMMA FreeIntoTopAt ==
    ASSUME NEW h, NEW S, NEW F, NEW U, NEW p \in U, HeapAt(h, S, F, U),
           p + S[p] = h.top
    PROVE  After(h, FreeIntoTop(h, p, S[p]), S, U \ {p}, U \ {p})
<1> DEFINE back == ~prev_inuse(h, p)
           q == IF back THEN p - Word(h, p) ELSE p
           all == S[p] + chunksize(h, h.top) + (p - q)
           g == FreedTop(h, p, q, all)
<1>1. IsHeap(h) /\ Layout(h, S, F, U) /\ SysOk(h, S) BY DEF HeapAt
<1>2. /\ p \in DOMAIN S /\ p \in Nat /\ h.top = p + S[p] /\ h.top \in DOMAIN S
  <2>1. p \in F \union U OBVIOUS
  <2> QED BY <2>1, <1>1, NormalAt
<1>3. chunksize(h, h.top) = S[h.top] BY <1>1, <1>2, SizeAt
<1>4. Backs(S, F, p, q) /\ (q # p <=> back)
  <2>1. /\ prev_inuse(h, p) => Backs(S, F, p, p)
        /\ ~prev_inuse(h, p) => Backs(S, F, p, p - Word(h, p)) /\ p - Word(h, p) < p
    BY <1>1, <1>2, BackIs
  <2>2. CASE back
    <3>1. q = p - Word(h, p) BY <2>2
    <3> HIDE DEF q
    <3> QED BY <3>1, <2>1, <2>2, <1>2
  <2>3. CASE ~back
    <3>1. q = p BY <2>3
    <3> HIDE DEF q
    <3> QED BY <3>1, <2>1, <2>3
  <2> QED BY <2>2, <2>3
<1>5. FreeIntoTop(h, p, S[p]) = IF all >= h.trim_threshold THEN malloc_trim(g, h.top_pad) ELSE g
  <2> DEFINE h1 == IF back THEN unlink(h, q) ELSE h
             h2 == [set_head(h1, q, all) EXCEPT !.top = q]
  <2>1. FreeIntoTop(h, p, S[p]) = IF all >= h.trim_threshold THEN malloc_trim(h2, h.top_pad) ELSE h2
    BY DEF FreeIntoTop
  <2> HIDE DEF q, back, all
  <2>2. h1 = IF q # p THEN unlink(h, q) ELSE h BY <1>4
  <2>3. h2 = g BY <2>2 DEF FreedTop
  <2> QED BY <2>1, <2>3
<1>6. all = S[p] + S[h.top] + (p - q) BY <1>3
<1> HIDE DEF q, back, all
<1>7. PICK T : /\ HeapAt(g, T, F \ {q}, U \ {p}) /\ Kept(h, g, S, T, U \ {p}) /\ g.top # 0
  BY <1>4, <1>6, FreedTopAt
<1> HIDE DEF g
<1>8. PadFits(h.top_pad)
  <2>1. \A pad \in TopPads \union {0} : pad \in Nat /\ pad + 2 * PageSize + 64 < TopBit
    BY MallocConstants
  <2>2. h.top_pad \in TopPads \union {0} BY <1>1 DEF SysOk
  <2> QED BY <2>1, <2>2 DEF PadFits
<1>9. After(h, malloc_trim(g, h.top_pad), S, U \ {p}, U \ {p})
  <2> DEFINE V == U \ {p}
             G == F \ {q}
  <2>1. HeapAt(g, T, G, V) /\ Kept(h, g, S, T, V) /\ g.top # 0 BY <1>7
  <2> HIDE DEF V, G
  <2>2. After(h, malloc_trim(g, h.top_pad), S, V, V) BY ONLY <2>1, <1>8, AfterTrim
  <2> QED BY <2>2 DEF V
<1>10. After(h, g, S, U \ {p}, U \ {p}) BY <1>7 DEF After
<1> QED BY <1>5, <1>9, <1>10

\* free() keeps the heap and all other blocks.
LEMMA FreeKeeps ==
    ASSUME NEW h, NEW S, NEW F, NEW U, NEW p \in U, HeapAt(h, S, F, U)
    PROVE  After(h, fREe(h, chunk2mem(p)), S, U \ {p}, U \ {p})
<1>1. Layout(h, S, F, U) BY DEF HeapAt
<1>2. p \in Nat /\ chunksize(h, p) = S[p] /\ p > 0 /\ S[p] \in Nat
  <2>1. p \in F \union U OBVIOUS
  <2> QED BY <2>1, <1>1, NormalAt
<1>3. mem2chunk(chunk2mem(p)) = p /\ chunk2mem(p) # 0
  BY <1>2 DEF mem2chunk, chunk2mem, SIZE_SZ
<1> DEFINE m == chunk2mem(p)
<1> HIDE DEF m
<1>4. /\ p + S[p] = h.top => fREe(h, m) = FreeIntoTop(h, p, S[p])
      /\ p + S[p] # h.top => fREe(h, m) = FreeIntoBin(h, p, S[p])
  BY <1>2, <1>3 DEF fREe, m
<1>5. CASE p + S[p] = h.top BY <1>4, <1>5, FreeIntoTopAt DEF m
<1>6. CASE p + S[p] # h.top
  <2>1. Keeps(h, FreeIntoBin(h, p, S[p]), S, U \ {p}, U \ {p}) BY <1>6, FreeIntoBinKeeps
  <2>2. After(h, FreeIntoBin(h, p, S[p]), S, U \ {p}, U \ {p}) BY <2>1 DEF Keeps, After
  <2> QED BY <1>4, <1>6, <2>2 DEF m
<1> QED BY <1>5, <1>6

-----------------------------------------------------------------------------
(* malloc_extend_top(): the break moves, and the old top is fenced.         *)

\* g differs from h in the break and the base only.
LEMMA BreakMoved ==
    ASSUME NEW h, NEW g, NEW S, NEW F, NEW U, HeapAt(h, S, F, U), Around(h, g),
           g.top = h.top, \A x : Word(g, x) = Word(h, x),
           g.brk \in Nat, h.brk <= g.brk, g.brk <= g.end, h.top # 0 => g.base # -1
    PROVE  HeapAt(g, S, F, U) /\ Kept(h, g, S, S, U)
<1>1. IsHeap(h) /\ Layout(h, S, F, U) /\ SysOk(h, S) /\ BinsOk(h.bin, h.marked, S, F)
  BY DEF HeapAt
<1>2. Encoded(g, S, F)
  <2>1. Encoded(h, S, F) BY <1>1 DEF Layout
  <2> QED BY <2>1 DEF Encoded, HeadOf
<1>3. Layout(g, S, F, U) BY <1>1, <1>2 DEF Layout, Around
<1>4. SysOk(g, S)
  <2>1. h.top # 0 => h.top \in Nat /\ S[h.top] \in Nat
    <3>1. Tiled(S, F \union U, h.fence, h.top) BY <1>1 DEF Layout
    <3> QED BY <3>1 DEF Tiled, Placed
  <2>2. h.top # 0 => h.top + S[h.top] <= g.brk BY <1>1, <2>1 DEF SysOk
  <2> QED BY <1>1, <2>2 DEF SysOk, Around
<1>5. Kept(h, g, S, S, U) BY KeptSameWords
<1> QED BY <1>1, <1>3, <1>4, <1>5 DEF HeapAt, Around

\* The top of g has n bytes.
TopOf(h, g, S, U, n) ==
    \E T, G : HeapAt(g, T, G, U) /\ Kept(h, g, S, T, U) /\ g.top # 0 /\ T[g.top] >= n

\* A top that the system extends in place.
LEMMA ExtendContiguousAt ==
    ASSUME NEW h, NEW S, NEW F, NEW U, HeapAt(h, S, F, U), h.top # 0,
           NEW n \in Nat, n % 8 = 0, ~SbrkFails(h, n), h.brk = h.top + S[h.top]
    PROVE  TopOf(h, ExtendContiguous(h, n), S, U, n)
<1> DEFINE t == h.top
           k == sbrk(h, n)
           m == n + S[t]
           g == set_head(k, t, m)
<1>1. IsHeap(h) /\ Layout(h, S, F, U) /\ SysOk(h, S) BY DEF HeapAt
<1>2. t \in DOMAIN S
  <2>1. Tiled(S, F \union U, h.fence, t) BY <1>1 DEF Layout
  <2> QED BY <2>1 DEF Tiled, Placed
<1>3. t \in Nat /\ S[t] \in Nat /\ S[t] >= 16 /\ S[t] % 8 = 0 /\ chunksize(h, t) = S[t]
  BY <1>1, <1>2, ReadAt
<1>4. ExtendContiguous(h, n) = g BY <1>3 DEF ExtendContiguous
<1>5. Around(h, k) /\ k.top = t /\ k.base = h.base /\ k.brk = h.brk + n
      /\ \A x : Word(k, x) = Word(h, x)
  BY <1>1, SbrkIs
<1> HIDE DEF k
<1>6. Wrote(k, g) /\ \A x : Word(g, x) = IF x = t + 4 THEN m + 1 ELSE Word(k, x)
  <2>1. IsHeap(k) BY <1>5 DEF Around
  <2> QED BY <2>1, SetHeadIs
<1> HIDE DEF g, t, m
<1>7. Around(h, g) /\ g.top = h.top /\ g.base = h.base /\ g.brk = h.brk + n
  BY <1>5, <1>6 DEF Around, Wrote, SameSys, t
<1>8. HeadOf(g, h.top) = m + 1 BY <1>6 DEF HeadOf, SIZE_SZ, t
<1>9. \A x : x # h.top + 4 => Word(g, x) = Word(h, x) BY <1>5, <1>6 DEF t
<1>10. m \in Nat /\ m >= 16 /\ m % 8 = 0 /\ m >= n BY <1>3 DEF m
<1>11. /\ g.brk \in Nat /\ g.start <= g.brk /\ h.top + m <= g.brk /\ g.brk <= g.end
       /\ g.base # -1
  <2>1. h.brk \in Nat /\ h.start \in Nat /\ h.start <= h.brk /\ h.base # -1 /\ h.end \in Nat
    BY <1>1 DEF SysOk
  <2>2. g.start = h.start /\ g.end = h.end BY <1>7 DEF Around
  <2>3. h.brk + n <= h.end BY <2>1 DEF SbrkFails
  <2>4. h.brk = t + S[t] BY DEF t
  <2>5. h.top + m = h.brk + n BY <2>4, <1>3 DEF m, t
  <2> QED BY <2>1, <2>2, <2>3, <2>5, <1>7
<1>12. PICK T : HeapAt(g, T, F, U) /\ Kept(h, g, S, T, U) /\ T[h.top] = m
  BY <1>7, <1>8, <1>9, <1>10, <1>11, TopResized
<1> QED BY <1>4, <1>7, <1>10, <1>12 DEF TopOf

\* g is h, but for a top of n bytes at new.
TopBegun(h, g, new, n) ==
    /\ Around(h, g) /\ g.top = new /\ OneWord(h, g, new + 4, n + 1)
    /\ g.brk \in Nat /\ g.start <= g.brk /\ new + n <= g.brk /\ g.brk <= g.end
    /\ g.base # -1
    /\ new \in Nat /\ new > 0 /\ new % 8 = 0 /\ n \in Nat /\ n >= 16 /\ n % 8 = 0

\* The first top.
LEMMA FirstTop ==
    ASSUME NEW h, NEW g, NEW S, NEW F, NEW U, NEW new, NEW n, HeapAt(h, S, F, U), h.top = 0,
           TopBegun(h, g, new, n)
    PROVE  TopOf(h, g, S, U, n)
<1> DEFINE T == [c \in {new} |-> n]
<1>1. IsHeap(h) /\ Layout(h, S, F, U) /\ SysOk(h, S) /\ BinsOk(h.bin, h.marked, S, F)
  BY DEF HeapAt
<1>2. Tiled(S, F \union U, h.fence, 0) BY <1>1 DEF Layout
<1>3. new \in Nat /\ n \in Nat /\ new > 0 /\ new % 8 = 0 /\ n >= 16 /\ n % 8 = 0 BY DEF TopBegun
<1>4. /\ F \union U = {} /\ h.fence = {}
      /\ Tiled(T, {}, {}, new)
  BY ONLY <1>2, <1>3, FirstTiled, ZenonT(40)
<1>5. F = {} /\ U = {} BY <1>4
<1>6. IsHeap(g) /\ g.fence = {} /\ g.top = new /\ g.bin = h.bin /\ g.marked = h.marked
  BY <1>4 DEF TopBegun, Around
<1>7. Encoded(g, T, F)
  <2>1. HeadOf(g, new) = n + 1 BY DEF TopBegun, OneWord, HeadOf, SIZE_SZ
  <2>2. Bit(T, F, new) = 1 BY <1>5 DEF Bit, FreeBefore
  <2>3. DOMAIN T = {new} /\ T[new] = n OBVIOUS
  <2> HIDE DEF T
  <2>4. \A c \in DOMAIN T : HeadOf(g, c) = T[c] + Bit(T, F, c) BY <2>1, <2>2, <2>3
  <2> QED BY <2>4, <1>5 DEF Encoded
<1>8. T[new] = n OBVIOUS
<1> HIDE DEF T
<1>9. Layout(g, T, F, U) BY <1>4, <1>5, <1>6, <1>7 DEF Layout, NoTwoFree
<1>10. SysOk(g, T) BY <1>1, <1>3, <1>6, <1>8 DEF SysOk, TopBegun, Around
<1>11. BinsOk(g.bin, g.marked, T, F)
  <2>1. \A c \in F : T[c] = S[c] BY <1>5
  <2> QED BY <2>1, <1>1, <1>6, BinsSizes
<1>12. Kept(h, g, S, T, U) BY <1>5 DEF Kept
<1> QED BY <1>3, <1>6, <1>8, <1>9, <1>10, <1>11, <1>12 DEF TopOf, HeapAt

\* The words of the markers.
FenceCut(h, old, size) == ((size - 3 * SIZE_SZ) \div MALLOC_ALIGNMENT) * MALLOC_ALIGNMENT
Marker(h, old, cut) ==
    [set_head(set_head(set_head_size(h, old, cut), old + cut, SIZE_SZ),
              old + cut + SIZE_SZ, SIZE_SZ) EXCEPT
        !.fence = @ \union {old + cut, old + cut + SIZE_SZ} \union {p \in {old} : cut < MINSIZE}]

\* Where the markers go: 16 bytes before the end of the old top, 8 of them unused.
LEMMA FenceCutIs ==
    ASSUME NEW h, NEW old, NEW size \in Nat, size % 8 = 0, size >= 16
    PROVE  FenceCut(h, old, size) \in Nat /\ size = FenceCut(h, old, size) + 16
<1>1. PICK j \in Nat : size = 8 * j
  <2>1. size \div 8 \in Nat /\ size = 8 * (size \div 8) + (size % 8) BY DivMod
  <2> QED BY <2>1
<1>2. size - 3 * SIZE_SZ = 8 * (j - 2) + 4 BY <1>1 DEF SIZE_SZ
<1>3. (8 * (j - 2) + 4) \div 8 = j - 2 BY <1>1
<1>4. FenceCut(h, old, size) = (j - 2) * 8 BY <1>2, <1>3 DEF FenceCut, MALLOC_ALIGNMENT
<1> QED BY <1>1, <1>4

MarkerWords(h, g, old, cut) ==
    \A x : Word(g, x) = IF x = old + cut + 8 THEN 5
                        ELSE IF x = old + cut + 4 THEN 5
                        ELSE IF x = old + 4 THEN cut + (HeadOf(h, old) % 2)
                        ELSE Word(h, x)
MarkedFrom(h, g, old, cut) ==
    /\ IsHeap(g) /\ g.top = h.top /\ g.bin = h.bin /\ g.marked = h.marked
    /\ g.brk = h.brk /\ g.start = h.start /\ g.end = h.end /\ g.base = h.base
    /\ g.top_pad = h.top_pad
    /\ g.fence = MarkX(h.fence, old, cut)
    /\ MarkerWords(h, g, old, cut)

\* The words of the two markers.
LEMMA MarkerIs ==
    ASSUME NEW h, IsHeap(h), NEW old \in Nat, NEW cut \in Nat
    PROVE  MarkedFrom(h, Marker(h, old, cut), old, cut)
<1> DEFINE h1 == set_head_size(h, old, cut)
           h2 == set_head(h1, old + cut, SIZE_SZ)
           h3 == set_head(h2, old + cut + SIZE_SZ, SIZE_SZ)
           X == h.fence \union {old + cut, old + cut + SIZE_SZ} \union {p \in {old} : cut < MINSIZE}
           g == Marker(h, old, cut)
<1>1. Wrote(h, h1) /\ \A x : Word(h1, x) = IF x = old + 4 THEN cut + (HeadOf(h, old) % 2)
                                           ELSE Word(h, x)
  BY SetHeadSizeIs
<1> HIDE DEF h1
<1>2. Wrote(h1, h2) /\ \A x : Word(h2, x) = IF x = old + cut + 4 THEN SIZE_SZ + 1 ELSE Word(h1, x)
  <2>1. IsHeap(h1) BY <1>1 DEF Wrote
  <2> QED BY <2>1, SetHeadIs
<1> HIDE DEF h2
<1>3. Wrote(h2, h3) /\ \A x : Word(h3, x) = IF x = old + cut + SIZE_SZ + 4 THEN SIZE_SZ + 1
                                            ELSE Word(h2, x)
  <2>1. IsHeap(h2) BY <1>2 DEF Wrote
  <2> QED BY <2>1, SetHeadIs
<1>4. g = [h3 EXCEPT !.fence = @ \union {old + cut, old + cut + SIZE_SZ}
                                 \union {p \in {old} : cut < MINSIZE}]
  BY DEF Marker, h1, h2
<1> HIDE DEF h3, g
<1>5. Wrote(h, h3) BY <1>1, <1>2, <1>3, WroteTrans
<1>6. g = [h3 EXCEPT !.fence = X]
  <2>1. h3.fence = h.fence BY <1>5 DEF Wrote, SameSys
  <2> QED BY <1>4, <2>1
<1>7. X = MarkX(h.fence, old, cut)
  BY DEF MarkX, SIZE_SZ, MINSIZE
<1> HIDE DEF X
<1>8. IsHeap(h3) BY <1>5 DEF Wrote
<1>9. g = [mem |-> h3.mem, bin |-> h3.bin, marked |-> h3.marked, top |-> h3.top,
            brk |-> h3.brk, start |-> h3.start, end |-> h3.end, base |-> h3.base,
            high |-> h3.high, fence |-> X,
            trim_threshold |-> h3.trim_threshold, top_pad |-> h3.top_pad]
  BY <1>6, <1>8 DEF IsHeap
<1>10. h3.mem = [a \in DOMAIN h3.mem |-> h3.mem[a]] /\ h3.bin = [a \in DOMAIN h3.bin |-> h3.bin[a]]
  BY <1>8 DEF IsHeap
<1>11. IsHeap(g) BY <1>9, <1>10 DEF IsHeap
<1>12. /\ g.mem = h3.mem /\ g.top = h3.top /\ g.bin = h3.bin /\ g.marked = h3.marked
       /\ g.brk = h3.brk /\ g.start = h3.start /\ g.end = h3.end /\ g.base = h3.base
       /\ g.top_pad = h3.top_pad /\ g.fence = X
  BY <1>9
<1>13. \A x : Word(g, x) = Word(h3, x) BY <1>12 DEF Word
<1>14. MarkerWords(h, g, old, cut)
  <2>1. old + cut + SIZE_SZ + 4 = old + cut + 8 /\ SIZE_SZ + 1 = 5 BY DEF SIZE_SZ
  <2> QED BY <2>1, <1>1, <1>2, <1>3, <1>13 DEF MarkerWords
<1> QED BY <1>5, <1>7, <1>11, <1>12, <1>14 DEF MarkedFrom, Wrote, SameSys, g

\* g is h with two markers in its old top, and a new top.
Fencing(h, k, g, S, new, n, cut) ==
    /\ TopBegun(h, k, new, n) /\ MarkedFrom(k, g, h.top, cut)
    /\ h.top # 0 /\ cut \in Nat /\ S[h.top] = cut + 16 /\ new >= h.top + S[h.top]

\* The chunk that is left of the old top, in use.
Left(t, cut) == {c \in {t} : cut >= 16}

FencedSizes(T, t, cut, new, n) ==
    \A c \in DOMAIN T : c >= t =>
        \/ c = t /\ cut >= 16 /\ T[c] = cut
        \/ c = t /\ cut = 8 /\ T[c] = cut
        \/ c = t + cut /\ T[c] = 4
        \/ c = t + cut + 4 /\ T[c] = 4
        \/ c = new /\ T[c] = n

\* The chunks after the old top is fenced off.
LEMMA FencingTiled ==
    ASSUME NEW h, NEW k, NEW g, NEW S, NEW F, NEW U, NEW new, NEW n, NEW cut,
           HeapAt(h, S, F, U), Fencing(h, k, g, S, new, n, cut)
    PROVE  LET T == MarkS(S, h.top, cut, new, n)
           IN /\ Tiled(T, F \union (U \union Left(h.top, cut)), g.fence, new)
              /\ SameBelow(S, F \union U, T, F \union (U \union Left(h.top, cut)), h.top)
              /\ T[new] = n
              /\ FencedSizes(T, h.top, cut, new, n)
<1> DEFINE t == h.top
           N == F \union U
           M == F \union (U \union Left(t, cut))
           T == MarkS(S, t, cut, new, n)
<1>1. Layout(h, S, F, U) BY DEF HeapAt
<1>2. Tiled(S, N, h.fence, t) BY <1>1 DEF Layout
<1>3. /\ new \in Nat /\ new % 8 = 0 /\ n \in Nat /\ n >= 16 /\ n % 8 = 0
      /\ cut \in Nat /\ t # 0 /\ S[t] = cut + 16 /\ new >= t + S[t]
      /\ g.fence = MarkX(h.fence, t, cut)
  BY DEF Fencing, TopBegun, MarkedFrom, MarkX, Around
<1>4. M = N \union {c \in {t} : cut >= 16} BY DEF Left
<1>5. Tiled(T, M, g.fence, new)
  <2>1. Tiled(T, N \union {c \in {t} : cut >= 16}, MarkX(h.fence, t, cut), new)
    BY <1>2, <1>3, MarkTiled
  <2> QED BY <2>1, <1>3, <1>4
<1>6. t \in DOMAIN S /\ t \in Nat /\ S[t] % 8 = 0 BY <1>2, <1>3 DEF Tiled, Placed, Topped
<1>7. DOMAIN T = DOMAIN S \union {t + cut, t + cut + 4, new} BY DEF MarkS
<1>8. T[new] = n BY DEF MarkS
<1>9. \A c \in DOMAIN S : c < t => T[c] = S[c]
  <2> TAKE c \in DOMAIN S
  <2> HAVE c < t
  <2>1. c \in Nat BY <1>2 DEF Tiled, Placed
  <2>2. c # new /\ c # t /\ c # t + cut /\ c # t + cut + 4 BY <2>1, <1>3, <1>6
  <2> QED BY <2>2, <1>7 DEF MarkS
<1>10. T[t + cut] = 4 /\ T[t + cut + 4] = 4
  <2>1. t + cut # new /\ t + cut + 4 # new BY <1>3, <1>6
  <2> QED BY <2>1, <1>7 DEF MarkS
<1>11. cut # 0 => T[t] = cut
  <2>1. cut # 0 => t # new /\ t # t + cut /\ t # t + cut + 4 BY <1>3, <1>6
  <2> QED BY <2>1, <1>6, <1>7 DEF MarkS
<1>12. \A c \in DOMAIN S : c <= t BY <1>2 DEF Tiled, Topped
<1>13. \A c \in DOMAIN S : c \in Nat BY <1>2 DEF Tiled, Placed
<1>14. cut = 0 \/ cut = 8 \/ cut >= 16
  <2>1. (cut + 16) % 8 = 0 BY <1>3, <1>6
  <2> QED BY <2>1, <1>3
<1> HIDE DEF T
<1>15. \A c \in DOMAIN T : c >= t =>
                    \/ c = t /\ cut >= 16 /\ T[c] = cut
                    \/ c = t /\ cut = 8 /\ T[c] = cut
                    \/ c = t + cut /\ T[c] = 4
                    \/ c = t + cut + 4 /\ T[c] = 4
                    \/ c = new /\ T[c] = n
  <2> TAKE c \in DOMAIN T
  <2> HAVE c >= t
  <2>1. CASE c \in {t + cut, t + cut + 4, new} BY <2>1, <1>8, <1>10
  <2>2. CASE c \in DOMAIN S
    <3>1. c = t BY <2>2, <1>6, <1>12, <1>13
    <3>2. CASE cut = 0
      <4>1. t + cut = t BY <1>6, <3>2
      <4> QED BY <3>1, <4>1, <1>10
    <3> QED BY <3>1, <3>2, <1>11, <1>14
  <2> QED BY <2>1, <2>2, <1>7
<1>16. SameBelow(S, N, T, M, t)
  <2>1. \A c : c < t => (c \in DOMAIN S <=> c \in DOMAIN T)
    <3> TAKE c
    <3> HAVE c < t
    <3>1. c # new /\ c # t + cut /\ c # t + cut + 4 BY <1>3, <1>6
    <3> QED BY <3>1, <1>7
  <2>2. \A c : c < t => (c \in N <=> c \in M)
    <3> TAKE c
    <3> HAVE c < t
    <3>1. c # t BY <1>6
    <3> QED BY <3>1, <1>4
  <2> QED BY <2>1, <2>2, <1>9 DEF SameBelow
<1> QED BY <1>5, <1>8, <1>15, <1>16 DEF T, FencedSizes

\* Their size words.
LEMMA FencingHeads ==
    ASSUME NEW h, NEW k, NEW g, NEW S, NEW F, NEW U, NEW new, NEW n, NEW cut, NEW c,
           HeapAt(h, S, F, U), Fencing(h, k, g, S, new, n, cut)
    PROVE  /\ c = h.top /\ cut >= 16 => HeadOf(g, c) = cut + 1
           /\ c = h.top /\ cut = 8 => HeadOf(g, c) = cut + 1
           /\ c = h.top + cut => HeadOf(g, c) = 5
           /\ c = h.top + cut + 4 => HeadOf(g, c) = 5
           /\ c = new => HeadOf(g, c) = n + 1
           /\ WordsBelow(h, g, h.top)
<1> DEFINE t == h.top
<1>1. Layout(h, S, F, U) BY DEF HeapAt
<1>2. Tiled(S, F \union U, h.fence, t) /\ NoTwoFree(S, F, t) BY <1>1 DEF Layout
<1>3. cut \in Nat /\ t # 0 /\ S[t] = cut + 16 /\ new \in Nat /\ new >= t + S[t]
  BY DEF Fencing, TopBegun
<1>4. t \in DOMAIN S /\ t \in Nat BY <1>2, <1>3 DEF Tiled, Placed
<1>5. HeadOf(h, t) % 2 = 1
  <2>1. ~FreeBefore(S, F, t) BY <1>2 DEF NoTwoFree, FreeBefore
  <2>2. Bit(S, F, t) = 1 BY <2>1 DEF Bit
  <2> QED BY ONLY <2>2, <1>1, <1>4, ReadAt, ZenonT(40)
<1>6. \A x : Word(k, x) = IF x = new + 4 THEN n + 1 ELSE Word(h, x)
  BY DEF Fencing, TopBegun, OneWord
<1>7. HeadOf(k, t) = HeadOf(h, t)
  <2>1. t + 4 # new + 4 BY <1>3, <1>4
  <2> QED BY <2>1, <1>6 DEF HeadOf, SIZE_SZ
<1>8. \A x : Word(g, x) = IF x = t + cut + 8 THEN 5
                          ELSE IF x = t + cut + 4 THEN 5
                          ELSE IF x = t + 4 THEN cut + 1
                          ELSE IF x = new + 4 THEN n + 1 ELSE Word(h, x)
  <2>1. MarkerWords(k, g, t, cut) BY DEF Fencing, MarkedFrom
  <2> HIDE DEF t
  <2>2. HeadOf(k, t) % 2 = 1 BY <1>5, <1>7
  <2> QED BY <2>1, <2>2, <1>6 DEF MarkerWords
<1> HIDE DEF t
<1>9. \A d : HeadOf(g, d) = Word(g, d + 4) BY DEF HeadOf, SIZE_SZ
<1>10. c = t /\ cut >= 8 => HeadOf(g, c) = cut + 1
  <2>1. cut >= 8 => t + 4 # t + cut + 8 /\ t + 4 # t + cut + 4 BY <1>3, <1>4
  <2> QED BY <2>1, <1>8, <1>9
<1>11. c = t + cut => HeadOf(g, c) = 5
  <2>1. t + cut + 4 # t + cut + 8 BY <1>3, <1>4
  <2> QED BY <2>1, <1>8, <1>9
<1>12. c = t + cut + 4 => HeadOf(g, c) = 5
  <2>1. (t + cut + 4) + 4 = t + cut + 8 BY <1>3, <1>4
  <2> QED BY <2>1, <1>8, <1>9
<1>13. c = new => HeadOf(g, c) = n + 1
  <2>1. new + 4 # t + cut + 8 /\ new + 4 # t + cut + 4 /\ new + 4 # t + 4 BY <1>3, <1>4
  <2> QED BY <2>1, <1>8, <1>9
<1>14. WordsBelow(h, g, t)
  <2>1. \A x \in Nat : x < t + 4 => Word(g, x) = Word(h, x)
    <3> TAKE x \in Nat
    <3> HAVE x < t + 4
    <3>1. x # t + cut + 8 /\ x # t + cut + 4 /\ x # t + 4 /\ x # new + 4 BY <1>3, <1>4
    <3> QED BY <3>1, <1>8
  <2> QED BY <2>1 DEF WordsBelow
<1>15. cut >= 16 => cut >= 8 BY <1>3
<1> QED BY <1>10, <1>11, <1>12, <1>13, <1>14, <1>15 DEF t

FencingLeaves(h, g, S, T, F, U, new, n, cut) ==
    /\ HeapAt(g, T, F, U \union Left(h.top, cut)) /\ Kept(h, g, S, T, U)
    /\ g.top = new /\ T[new] = n /\ new # 0
    /\ cut >= 16 => T[h.top] = cut /\ h.top + cut # new

\* The result is a heap, in which the rest of the old top is in use.
LEMMA FencingAt ==
    ASSUME NEW h, NEW k, NEW g, NEW S, NEW F, NEW U, NEW new, NEW n, NEW cut,
           HeapAt(h, S, F, U), Fencing(h, k, g, S, new, n, cut)
    PROVE  \E T : FencingLeaves(h, g, S, T, F, U, new, n, cut)
<1> DEFINE t == h.top
           T == MarkS(S, t, cut, new, n)
           V == U \union Left(t, cut)
<1>1. IsHeap(h) /\ Layout(h, S, F, U) /\ SysOk(h, S) /\ BinsOk(h.bin, h.marked, S, F)
  BY DEF HeapAt
<1>2. Tiled(S, F \union U, h.fence, t) /\ NoTwoFree(S, F, t) /\ F \intersect U = {}
      /\ Encoded(h, S, F)
  BY <1>1 DEF Layout
<1>3. /\ cut \in Nat /\ t # 0 /\ S[t] = cut + 16 /\ new \in Nat /\ n \in Nat
      /\ new >= t + S[t] /\ new # 0
  BY DEF Fencing, TopBegun
<1>4. t \in DOMAIN S /\ t \in Nat BY <1>2, <1>3 DEF Tiled, Placed
<1>5. /\ Tiled(T, F \union V, g.fence, new)
      /\ SameBelow(S, F \union U, T, F \union V, t)
      /\ T[new] = n
      /\ FencedSizes(T, t, cut, new, n)
  BY FencingTiled
<1> HIDE DEF T, V
<1>6. /\ IsHeap(g) /\ g.top = new /\ g.bin = h.bin /\ g.marked = h.marked
      /\ g.start = h.start /\ g.end = h.end /\ g.top_pad = h.top_pad
      /\ g.brk \in Nat /\ g.start <= g.brk /\ new + n <= g.brk /\ g.brk <= g.end /\ g.base # -1
  BY DEF Fencing, MarkedFrom, TopBegun, Around
<1>7. \A c \in F \union U : c \in Nat /\ c < t /\ c \in DOMAIN S /\ c + S[c] <= t /\ S[c] \in Nat
  <2> TAKE c \in F \union U
  <2>1. /\ c \in Nat /\ c \in DOMAIN S /\ c + S[c] <= t /\ S[c] \in Nat /\ S[c] >= 16
        /\ t \in Nat
    BY <1>1, NormalAt
  <2> QED BY <2>1
<1>8. \A c \in F : T[c] = S[c]
  <2> TAKE c \in F
  <2>1. c \in F \union U OBVIOUS
  <2> QED BY <2>1, <1>5, <1>7 DEF SameBelow
<1>9. \A c : c >= t /\ c \in Nat => Bit(T, F, c) = 1
  <2> TAKE c
  <2> HAVE c >= t /\ c \in Nat
  <2>1. ~FreeBefore(T, F, c)
    <3> SUFFICES ASSUME NEW q \in F, q + T[q] = c PROVE FALSE BY DEF FreeBefore
    <3>1. q \in F \union U OBVIOUS
    <3>2. q + S[q] = c BY <1>8
    <3>3. c = t BY <3>1, <3>2, <1>4, <1>7
    <3> QED BY <3>2, <3>3, <1>2 DEF NoTwoFree
  <2> QED BY <2>1 DEF Bit
<1>10. WordsBelow(h, g, t) BY FencingHeads
<1>11. FreeBelow(F, F, t) BY DEF FreeBelow
<1>12. /\ \A c \in DOMAIN T : c < t => HeadOf(g, c) = T[c] + Bit(T, F, c)
       /\ \A p \in F : p < t => Word(g, p + T[p]) = T[p]
  <2>1. F \subseteq F \union U /\ F \subseteq F \union V OBVIOUS
  <2>2. t \in DOMAIN S BY <1>4
  <2>3. Tiled(S, F \union U, h.fence, t) /\ Encoded(h, S, F) BY <1>2
  <2>4. Tiled(T, F \union V, g.fence, new) /\ SameBelow(S, F \union U, T, F \union V, t) BY <1>5
  <2> QED BY ONLY <2>1, <2>2, <2>3, <2>4, <1>10, <1>11, BelowEncoded
<1>13. \A c \in DOMAIN T : c \in Nat BY <1>5 DEF Tiled, Placed
<1>14. \A c \in DOMAIN T : c >= t => HeadOf(g, c) = T[c] + 1
  <2> TAKE c \in DOMAIN T
  <2> HAVE c >= t
  <2>1. /\ c = t /\ cut >= 16 => HeadOf(g, c) = cut + 1
        /\ c = t /\ cut = 8 => HeadOf(g, c) = cut + 1
        /\ c = t + cut => HeadOf(g, c) = 5
        /\ c = t + cut + 4 => HeadOf(g, c) = 5
        /\ c = new => HeadOf(g, c) = n + 1
    BY FencingHeads
  <2>2.             \/ c = t /\ cut >= 16 /\ T[c] = cut
                    \/ c = t /\ cut = 8 /\ T[c] = cut
                    \/ c = t + cut /\ T[c] = 4
                    \/ c = t + cut + 4 /\ T[c] = 4
                    \/ c = new /\ T[c] = n
    BY <1>5 DEF FencedSizes
  <2> QED BY ONLY <2>1, <2>2
<1>15. Encoded(g, T, F)
  <2>1. \A c \in DOMAIN T : HeadOf(g, c) = T[c] + Bit(T, F, c)
    <3> TAKE c \in DOMAIN T
    <3>1. CASE c < t BY <3>1, <1>12
    <3>2. CASE c >= t
      <4>1. Bit(T, F, c) = 1 BY <3>2, <1>9, <1>13
      <4> QED BY <3>2, <4>1, <1>14
    <3> QED BY <3>1, <3>2, <1>4, <1>13
  <2>2. \A p \in F : Word(g, p + T[p]) = T[p]
    <3> TAKE p \in F
    <3>1. p \in F \union U OBVIOUS
    <3> QED BY <3>1, <1>7, <1>12
  <2> QED BY <2>1, <2>2 DEF Encoded
<1>16. NoTwoFree(T, F, new)
  <2> SUFFICES ASSUME NEW p \in F PROVE p + T[p] \notin F /\ p + T[p] # new BY DEF NoTwoFree
  <2>1. T[p] = S[p] /\ p \in F \union U BY <1>8
  <2>2. p + S[p] \notin F BY <1>2 DEF NoTwoFree
  <2>3. p + S[p] # new BY <2>1, <1>3, <1>4, <1>7
  <2> QED BY <2>1, <2>2, <2>3
<1>17. F \intersect V = {}
  <2>1. t \notin F BY <1>4, <1>7
  <2> QED BY <2>1, <1>2 DEF V, Left
<1>18. Layout(g, T, F, V) BY <1>5, <1>6, <1>15, <1>16, <1>17 DEF Layout
<1>19. SysOk(g, T) BY <1>1, <1>3, <1>5, <1>6 DEF SysOk
<1>20. BinsOk(g.bin, g.marked, T, F) BY <1>1, <1>6, <1>8, BinsSizes
<1>21. Kept(h, g, S, T, U)
  <2>1. U \subseteq F \union U OBVIOUS
  <2>2. Below(U, t) BY <1>7 DEF Below
  <2>3. t \in DOMAIN S BY <1>4
  <2>4. Tiled(S, F \union U, h.fence, t) BY <1>2
  <2>5. SameBelow(S, F \union U, T, F \union V, t) BY <1>5
  <2> QED BY ONLY <2>1, <2>2, <2>3, <2>4, <2>5, <1>10, BelowKept
<1>22. HeapAt(g, T, F, V) BY <1>6, <1>18, <1>19, <1>20 DEF HeapAt
<1>23. cut >= 16 => T[t] = cut /\ t + cut # new
  <2> HAVE cut >= 16
  <2>1. t \in Left(t, cut) BY DEF Left
  <2>2. t \in F \union V BY <2>1 DEF V
  <2>3. t \in DOMAIN T BY <2>2, <1>5 DEF Tiled, Placed
  <2>4. t # t + cut /\ t # t + cut + 4 /\ t # new /\ t + cut # new BY <1>3, <1>4
  <2> QED BY <2>3, <2>4, <1>4, <1>5 DEF FencedSizes
<1> QED BY <1>3, <1>5, <1>6, <1>21, <1>22, <1>23 DEF V, FencingLeaves

\* ... and becomes free, if it is a chunk: the heap and every block are kept.
LEMMA FenceKeeps ==
    ASSUME NEW h, NEW k, NEW S, NEW F, NEW U, NEW new, NEW n, HeapAt(h, S, F, U), h.top # 0,
           TopBegun(h, k, new, n), new >= h.top + S[h.top]
    PROVE  TopOf(h, Fence(k, h.top, S[h.top]), S, U, n)
<1> DEFINE t == h.top
           cut == FenceCut(k, t, S[t])
           g == Marker(k, t, cut)
<1>1. Layout(h, S, F, U) BY DEF HeapAt
<1>2. Tiled(S, F \union U, h.fence, t) BY <1>1 DEF Layout
<1>3. t \in DOMAIN S /\ t \in Nat /\ t > 0 /\ S[t] \in Nat /\ S[t] % 8 = 0 /\ S[t] >= 16
      /\ t \notin U
  BY <1>2 DEF Tiled, Placed, Topped
<1>4. cut \in Nat /\ S[t] = cut + 16 BY <1>3, FenceCutIs
<1>5. Fence(k, t, S[t]) = IF cut >= 16 THEN fREe(g, chunk2mem(t)) ELSE g
  BY DEF Fence, Marker, FenceCut, MINSIZE
<1> HIDE DEF cut, g
<1>6. MarkedFrom(k, g, t, cut)
  <2>1. IsHeap(k) BY DEF TopBegun, Around
  <2> QED BY <2>1, <1>3, <1>4, MarkerIs DEF g
<1>7. Fencing(h, k, g, S, new, n, cut) BY <1>4, <1>6 DEF Fencing
<1>8. PICK T : /\ HeapAt(g, T, F, U \union Left(t, cut)) /\ Kept(h, g, S, T, U)
               /\ g.top = new /\ T[new] = n /\ new # 0
               /\ cut >= 16 => T[t] = cut /\ t + cut # new
  <2>1. \E T : FencingLeaves(h, g, S, T, F, U, new, n, cut) BY <1>7, FencingAt
  <2> QED BY <2>1 DEF FencingLeaves
<1> HIDE DEF t
<1>9. n \in Nat BY DEF TopBegun
<1>10. CASE ~(cut >= 16)
  <2>1. U \union Left(t, cut) = U BY <1>10 DEF Left
  <2>2. Fence(k, t, S[t]) = g BY <1>5, <1>10
  <2>3. n >= n BY <1>9
  <2> QED BY <2>1, <2>2, <2>3, <1>8 DEF TopOf, t
<1>11. CASE cut >= 16
  <2> DEFINE V == U \union Left(t, cut)
             k2 == FreeIntoBin(g, t, T[t])
  <2>1. t \in V /\ V \ {t} = U BY <1>3, <1>11 DEF Left
  <2>2. HeapAt(g, T, F, V) BY <1>8
  <2> HIDE DEF V
  <2>3. t + T[t] # g.top /\ T[t] = cut BY <1>8, <1>11
  <2>4. Keeps(g, k2, T, V \ {t}, V \ {t}) BY ONLY <2>1, <2>2, <2>3, FreeIntoBinKeeps
  <2>5. chunksize(g, t) = T[t]
    <3>1. Layout(g, T, F, V) /\ t \in F \union V BY <2>1, <2>2 DEF HeapAt
    <3> QED BY ONLY <3>1, NormalAt
  <2>6. fREe(g, chunk2mem(t)) = k2
    <3>1. mem2chunk(chunk2mem(t)) = t /\ chunk2mem(t) # 0
      BY <1>3 DEF mem2chunk, chunk2mem, SIZE_SZ
    <3> DEFINE m == chunk2mem(t)
    <3> HIDE DEF m
    <3> QED BY <3>1, <2>3, <2>5 DEF fREe, m
  <2> HIDE DEF k2
  <2>7. PICK P, G : /\ HeapAt(k2, P, G, U) /\ Kept(g, k2, T, P, U)
                    /\ SameSys(g, k2) /\ k2.top = g.top /\ P[g.top] = T[g.top]
    BY <2>1, <2>4 DEF Keeps
  <2>8. Kept(h, k2, S, P, U)
    <3>1. Kept(h, g, S, T, U) BY <1>8
    <3>2. Kept(h, k2, S, P, U \intersect U) BY <2>7, <3>1, KeptTrans
    <3> QED BY <3>2
  <2>9. k2.top # 0 /\ P[k2.top] >= n BY <2>7, <1>8, <1>9
  <2> QED BY <2>6, <2>7, <2>8, <2>9, <1>5, <1>11 DEF TopOf, t
<1> QED BY <1>10, <1>11

\* No more memory is to be had for a chunk of nb bytes.
NotExtended(h, g, S, F, U, nb) ==
    /\ HeapAt(g, S, F, U) /\ Kept(h, g, S, S, U) /\ g.top = h.top
    /\ g.brk + RoundUp(nb + g.top_pad + MINSIZE, PageSize) + MALLOC_ALIGNMENT > g.end

\* sbrk_base is no part of the rest.
LEMMA BaseIs ==
    ASSUME NEW h, NEW b, IsHeap(h)
    PROVE  LET g == [h EXCEPT !.base = b]
           IN /\ Around(h, g) /\ g.top = h.top /\ g.brk = h.brk /\ g.base = b
              /\ \A x : Word(g, x) = Word(h, x)
<1> DEFINE g == [h EXCEPT !.base = b]
<1>1. g = [mem |-> h.mem, bin |-> h.bin, marked |-> h.marked, top |-> h.top,
            brk |-> h.brk, start |-> h.start, end |-> h.end, base |-> b,
            high |-> h.high, fence |-> h.fence,
            trim_threshold |-> h.trim_threshold, top_pad |-> h.top_pad]
  BY DEF IsHeap
<1> HIDE DEF g
<1>2. /\ g.bin = h.bin /\ g.mem = h.mem /\ g.marked = h.marked /\ g.top = h.top
      /\ g.start = h.start /\ g.end = h.end /\ g.fence = h.fence /\ g.top_pad = h.top_pad
      /\ g.base = b /\ g.brk = h.brk
  BY <1>1
<1>3. h.mem = [a \in DOMAIN h.mem |-> h.mem[a]] /\ h.bin = [a \in DOMAIN h.bin |-> h.bin[a]] BY DEF IsHeap
<1>4. IsHeap(g) BY <1>1, <1>3 DEF IsHeap
<1>5. \A x : Word(g, x) = Word(h, x) BY <1>2 DEF Word
<1> QED BY <1>2, <1>4, <1>5 DEF g, Around

Correction(brk, size) ==
    LET front == (-brk) % MALLOC_ALIGNMENT
        new == brk + front
    IN front + RoundUp(new + size, PageSize) - (new + size)

NewAt(brk) == brk + ((-brk) % MALLOC_ALIGNMENT)
NewEnd(brk, size) == RoundUp(NewAt(brk) + size, PageSize)
PageFacts == PageSize \in Nat /\ PageSize >= 16 /\ PageSize % 8 = 0

\* The correction aligns the start of the new top, and its end to a page.
LEMMA CorrectionIs ==
    ASSUME NEW brk \in Nat, NEW size \in Nat, size >= 16, PageFacts
    PROVE  LET new == NewAt(brk)
               end == NewEnd(brk, size)
           IN
           /\ new \in Nat /\ brk <= new /\ new % 8 = 0
           /\ end \in Nat /\ end % 8 = 0 /\ end >= new + size
           /\ Correction(brk, size) \in Nat /\ Correction(brk, size) < PageSize + 8
           /\ brk + size + Correction(brk, size) = end
<1> DEFINE front == (-brk) % MALLOC_ALIGNMENT
           new == NewAt(brk)
           end == NewEnd(brk, size)
<1>1. front \in 0 .. 7 /\ (brk + front) % 8 = 0
  <2>1. front = (-brk) % 8 BY DEF MALLOC_ALIGNMENT
  <2> HIDE DEF front
  <2>2. PICK j \in Nat, r \in 0 .. 7 : brk = 8 * j + r
    <3>1. brk \div 8 \in Nat /\ brk % 8 \in 0 .. 7 /\ brk = 8 * (brk \div 8) + (brk % 8) BY DivMod
    <3> QED BY <3>1
  <2> QED BY <2>1, <2>2
<1>2. new = brk + front BY DEF NewAt
<1>3. Correction(brk, size) = front + (end - (new + size)) BY DEF Correction, NewAt, NewEnd
<1>0. end = RoundUp(new + size, PageSize) BY DEF NewEnd
<1> HIDE DEF front, new, end
<1>4. new \in Nat /\ brk <= new /\ new % 8 = 0 BY <1>1, <1>2
<1>5. new + size \in Nat BY <1>4
<1>6. PageSize > 0 /\ PageSize \in Nat /\ PageSize % 8 = 0 BY DEF PageFacts
<1>7. end \in Nat /\ new + size <= end /\ end < new + size + PageSize /\ end % 8 = 0
  <2> DEFINE x == new + size
  <2>1. end = RoundUp(x, PageSize) BY <1>0
  <2>2. x \in Nat BY <1>5
  <2> HIDE DEF x
  <2>3. end \in Nat /\ x <= end /\ end < x + PageSize /\ end % 8 = 0
    BY ONLY <2>1, <2>2, <1>6, RoundUpIs
  <2> QED BY <2>3 DEF x
<1>8. front \in Nat /\ front < 8 BY <1>1
<1>9. new \in Nat /\ end \in Nat /\ new + size <= end /\ end < new + size + PageSize BY <1>4, <1>7
<1>10. size \in Nat /\ brk \in Nat /\ PageSize \in Nat BY <1>6
<1>11. /\ Correction(brk, size) \in Nat /\ Correction(brk, size) < PageSize + 8
       /\ brk + size + Correction(brk, size) = end
  BY ONLY <1>2, <1>3, <1>8, <1>9, <1>10
<1> QED BY <1>4, <1>7, <1>11 DEF new, end

-----------------------------------------------------------------------------
(* malloc_extend_top(), as a whole.                                         *)

\* ExtendElsewhere() with its values named.
Sbrked(h, size) == [sbrk(h, size) EXCEPT !.base = IF @ = -1 THEN h.brk ELSE @]
NewTop(k, new) == set_head([k EXCEPT !.top = new], new, k.brk - new)

\* The first sbrk() of malloc_extend_top().
LEMMA SbrkedIs ==
    ASSUME NEW h, NEW size, IsHeap(h), ~SbrkFails(h, size), h.brk \in Nat
    PROVE  LET g == Sbrked(h, size)
           IN /\ Around(h, g) /\ g.top = h.top /\ g.brk = h.brk + size /\ g.base # -1
              /\ \A x : Word(g, x) = Word(h, x)
<1> DEFINE k == sbrk(h, size)
           b == IF k.base = -1 THEN h.brk ELSE k.base
           g == [k EXCEPT !.base = b]
<1>1. /\ Around(h, k) /\ k.top = h.top /\ k.brk = h.brk + size
      /\ \A x : Word(k, x) = Word(h, x)
  BY SbrkIs
<1>2. Sbrked(h, size) = g BY DEF Sbrked
<1> HIDE DEF k
<1>3. b # -1 OBVIOUS
<1> HIDE DEF b
<1>4. Around(k, g) /\ g.top = k.top /\ g.brk = k.brk /\ g.base = b /\ \A x : Word(g, x) = Word(k, x)
  <2>1. IsHeap(k) BY <1>1 DEF Around
  <2> QED BY <2>1, BaseIs
<1> HIDE DEF g
<1>5. Around(h, g) BY <1>1, <1>4 DEF Around
<1> QED BY <1>1, <1>2, <1>3, <1>4, <1>5

\* A top that begins behind memory which is not malloc()'s.
LEMMA NewTopIs ==
    ASSUME NEW h, NEW k, NEW new, Around(h, k), \A x : Word(k, x) = Word(h, x),
           k.base # -1, k.brk \in Nat, k.start <= k.brk, k.brk <= k.end,
           new \in Nat, new > 0, new % 8 = 0, k.brk % 8 = 0, k.brk >= new + 16
    PROVE  TopBegun(h, NewTop(k, new), new, k.brk - new)
<1> DEFINE n == k.brk - new
           k1 == [k EXCEPT !.top = new]
           g == set_head(k1, new, n)
<1>1. IsHeap(k) BY DEF Around
<1>2. /\ IsHeap(k1) /\ SameSys(k, k1) /\ k1.top = new /\ k1.bin = k.bin /\ k1.marked = k.marked
      /\ \A x : Word(k1, x) = Word(k, x)
  BY <1>1, SetTopIs
<1> HIDE DEF k1
<1>3. Wrote(k1, g) /\ \A x : Word(g, x) = IF x = new + 4 THEN n + 1 ELSE Word(k1, x)
  BY <1>2, SetHeadIs
<1>4. NewTop(k, new) = g BY DEF NewTop, k1
<1> HIDE DEF g
<1>5. Around(h, g) BY <1>2, <1>3 DEF Around, Wrote, SameSys
<1>6. OneWord(h, g, new + 4, n + 1) BY <1>2, <1>3 DEF OneWord
<1>7. /\ g.top = new /\ g.brk = k.brk /\ g.start = k.start /\ g.end = k.end /\ g.base = k.base
  BY <1>2, <1>3 DEF Wrote, SameSys
<1>8. n \in Nat /\ n >= 16 /\ n % 8 = 0 /\ new + n = k.brk OBVIOUS
<1> HIDE DEF n
<1>9. g.brk \in Nat /\ g.start <= g.brk /\ new + n <= g.brk /\ g.brk <= g.end /\ g.base # -1
  BY <1>7, <1>8
<1> QED BY <1>4, <1>5, <1>6, <1>7, <1>8, <1>9 DEF TopBegun, n

\* Memory that does not follow top: a new top, or none at all.
LEMMA ExtendElsewhereAt ==
    ASSUME NEW h, NEW S, NEW F, NEW U, HeapAt(h, S, F, U), NEW size \in Nat, size >= 16,
           ~SbrkFails(h, size), PageFacts, NEW nb \in Nat
    PROVE  \/ TopOf(h, ExtendElsewhere(h, size), S, U, size)
           \/ NotExtended(h, ExtendElsewhere(h, size), S, F, U, nb)
<1> DEFINE new == NewAt(h.brk)
           end == NewEnd(h.brk, size)
           correction == Correction(h.brk, size)
           h1 == Sbrked(h, size)
           h2 == sbrk(h1, correction)
           h3 == NewTop(h2, new)
           E == ExtendElsewhere(h, size)
<1>1. /\ IsHeap(h) /\ Layout(h, S, F, U) /\ SysOk(h, S)
  BY DEF HeapAt
<1>2. /\ h.brk \in Nat /\ h.start \in Nat /\ h.start <= h.brk /\ h.end \in Nat /\ h.brk > 0
      /\ h.top # 0 => h.top + S[h.top] <= h.brk
      /\ h.top_pad \in TopPads \union {0}
  BY <1>1 DEF SysOk
<1>3. PageSize \in Nat /\ PageSize >= 16 /\ PageSize % 8 = 0 BY DEF PageFacts
<1>4. E = CASE SbrkFails(h1, correction) -> h1
            [] ~SbrkFails(h1, correction) /\ h.top = InitialTop -> h3
            [] OTHER -> Fence(h3, h.top, chunksize(h, h.top))
  BY DEF ExtendElsewhere, Sbrked, NewTop, Correction, NewAt
<1>5. h.top # 0 => chunksize(h, h.top) = S[h.top] /\ h.top \in Nat /\ S[h.top] \in Nat
  <2> HAVE h.top # 0
  <2>1. h.top \in DOMAIN S
    <3>1. Tiled(S, F \union U, h.fence, h.top) BY <1>1 DEF Layout
    <3> QED BY <3>1 DEF Tiled, Placed
  <2> QED BY <2>1, <1>1, SizeAt
<1>6. /\ new \in Nat /\ h.brk <= new /\ new % 8 = 0
      /\ end \in Nat /\ end % 8 = 0 /\ end >= new + size
      /\ correction \in Nat /\ correction < PageSize + 8
      /\ h.brk + size + correction = end
  <2>1. h.brk \in Nat BY <1>2
  <2>2. size \in Nat /\ size >= 16 OBVIOUS
  <2> QED BY ONLY <2>1, <2>2, PageFacts, CorrectionIs
<1>7. /\ Around(h, h1) /\ h1.top = h.top /\ h1.brk = h.brk + size /\ h1.base # -1
      /\ \A x : Word(h1, x) = Word(h, x)
  BY <1>1, <1>2, SbrkedIs
<1> HIDE DEF E, h1, h3, correction, end, new
<1>8. h1.brk \in Nat /\ h.brk <= h1.brk /\ h1.brk <= h1.end /\ h1.start = h.start /\ h1.end = h.end
      /\ h1.top_pad = h.top_pad
  <2>1. h.brk + size <= h.end BY <1>2 DEF SbrkFails
  <2>2. h1.start = h.start /\ h1.end = h.end /\ h1.top_pad = h.top_pad BY <1>7 DEF Around
  <2> QED BY <2>1, <2>2, <1>2, <1>7
<1>9. CASE SbrkFails(h1, correction)
  <2>1. E = h1 BY <1>4, <1>9
  <2>2. HeapAt(h1, S, F, U) /\ Kept(h, h1, S, S, U) BY <1>7, <1>8, BreakMoved
  <2>3. h1.brk + correction > h1.end BY <1>9, <1>2, <1>6, <1>8 DEF SbrkFails
  <2>4. h.top_pad \in Nat
    <3>1. \A pad \in TopPads \union {0} : pad \in Nat BY MallocConstants
    <3>2. h.top_pad \in TopPads \union {0} BY <1>2
    <3> QED BY ONLY <3>1, <3>2
  <2> DEFINE least == nb + h1.top_pad + MINSIZE
  <2>5. least \in Nat /\ least > 0 BY <2>4, <1>8 DEF MINSIZE
  <2> HIDE DEF least
  <2>6. RoundUp(least, PageSize) \in Nat /\ RoundUp(least, PageSize) >= PageSize BY <2>5, <1>3, RoundUpIs
  <2>7. h1.brk + RoundUp(least, PageSize) + MALLOC_ALIGNMENT > h1.end
    <3> DEFINE r == RoundUp(least, PageSize)
    <3>1. r \in Nat /\ r >= PageSize BY <2>6
    <3>2. h1.end \in Nat BY <1>2, <1>8
    <3>3. correction \in Nat /\ correction < PageSize + 8 BY <1>6
    <3>4. h1.brk \in Nat BY <1>8
    <3> HIDE DEF r
    <3>5. h1.brk + r + 8 > h1.end BY ONLY <3>1, <3>2, <3>3, <3>4, <2>3, <1>3
    <3> QED BY <3>5 DEF r, MALLOC_ALIGNMENT
  <2> QED BY <2>1, <2>2, <2>7, <1>7 DEF NotExtended, least, E
<1>10. CASE ~SbrkFails(h1, correction)
  <2>1. /\ Around(h1, h2) /\ h2.top = h1.top /\ h2.base = h1.base
        /\ h2.brk = h1.brk + correction
        /\ \A x : Word(h2, x) = Word(h1, x)
    <3>1. IsHeap(h1) BY <1>7 DEF Around
    <3> QED BY <3>1, <1>10, SbrkIs
  <2> HIDE DEF h2
  <2>2. Around(h, h2) BY <1>7, <2>1 DEF Around
  <2>3. h2.brk = end /\ h2.start = h.start /\ h2.end = h.end /\ h2.base # -1
    BY <1>6, <1>7, <2>1, <2>2 DEF Around
  <2>4. h2.brk <= h2.end BY <1>10, <1>2, <1>6, <1>8, <2>1, <2>3 DEF SbrkFails
  <2>5. new > 0 /\ end >= new + 16 /\ new \in Nat BY <1>2, <1>6
  <2> DEFINE n == end - new
  <2>6. TopBegun(h, h3, new, n)
    <3>1. \A x : Word(h2, x) = Word(h, x) BY <1>7, <2>1
    <3>2. h2.brk \in Nat /\ h2.start <= h2.brk BY <1>2, <1>6, <2>3
    <3>3. TopBegun(h, NewTop(h2, new), new, h2.brk - new)
      <4>1. h2.brk % 8 = 0 /\ h2.brk >= new + 16 BY <2>3, <2>5, <1>6
      <4>2. new % 8 = 0 BY <1>6
      <4> QED BY <2>2, <2>3, <2>4, <2>5, <3>1, <3>2, <4>1, <4>2, NewTopIs
    <3> QED BY <3>3, <2>3 DEF h3
  <2>7. n \in Nat /\ n >= size BY <1>6
  <2> HIDE DEF n
  <2>8. TopOf(h, E, S, U, n)
    <3>1. CASE h.top = 0
      <4>1. E = h3 BY <1>4, <1>10, <3>1 DEF InitialTop
      <4>2. TopOf(h, h3, S, U, n) BY <3>1, <2>6, FirstTop
      <4> QED BY <4>1, <4>2
    <3>2. CASE h.top # 0
      <4>1. E = Fence(h3, h.top, S[h.top]) BY <1>4, <1>5, <1>10, <3>2 DEF InitialTop
      <4>2. new >= h.top + S[h.top] BY <1>2, <1>5, <1>6, <3>2
      <4>3. TopOf(h, Fence(h3, h.top, S[h.top]), S, U, n) BY <3>2, <2>6, <4>2, FenceKeeps
      <4> QED BY <4>1, <4>3
    <3> QED BY <3>1, <3>2
  <2>9. TopOf(h, E, S, U, size)
    <3>1. PICK T, G : HeapAt(E, T, G, U) /\ Kept(h, E, S, T, U) /\ E.top # 0 /\ T[E.top] >= n
      BY <2>8 DEF TopOf
    <3>2. T[E.top] \in Nat
      <4>1. Tiled(T, G \union U, E.fence, E.top) BY <3>1 DEF HeapAt, Layout
      <4> QED BY <4>1, <3>1 DEF Tiled, Placed
    <3>3. T[E.top] >= size BY <3>1, <3>2, <2>7
    <3> QED BY <3>1, <3>3 DEF TopOf
  <2> QED BY <2>9 DEF E
<1> QED BY <1>9, <1>10 DEF E

\* What malloc_extend_top() leaves: a top for nb bytes, or the same chunks.
Extended(h, g, S, F, U, nb) ==
    TopOf(h, g, S, U, nb + MINSIZE) \/ NotExtended(h, g, S, F, U, nb)

\* A top of more bytes has fewer as well.
LEMMA TopOfLess ==
    ASSUME NEW h, NEW g, NEW S, NEW U, NEW n \in Nat,
           NEW m \in Nat, m <= n, TopOf(h, g, S, U, n)
    PROVE  TopOf(h, g, S, U, m)
<1>1. PICK T, G : HeapAt(g, T, G, U) /\ Kept(h, g, S, T, U) /\ g.top # 0 /\ T[g.top] >= n
  BY DEF TopOf
<1>2. T[g.top] \in Nat
  <2>1. Tiled(T, G \union U, g.fence, g.top) BY <1>1 DEF HeapAt, Layout
  <2> QED BY <2>1, <1>1 DEF Tiled, Placed
<1>3. T[g.top] >= m BY <1>1, <1>2
<1> QED BY <1>1, <1>3 DEF TopOf

\* malloc_extend_top() leaves a top large enough, or the system has no more.
LEMMA ExtendTopAt ==
    ASSUME NEW h, NEW S, NEW F, NEW U, HeapAt(h, S, F, U), NEW nb \in Nat, PageFacts
    PROVE  Extended(h, malloc_extend_top(h, nb), S, F, U, nb)
<1> DEFINE least == nb + h.top_pad + MINSIZE
           size == IF h.base # -1 THEN RoundUp(least, PageSize) ELSE least
           g == malloc_extend_top(h, nb)
<1>1. /\ IsHeap(h) /\ Layout(h, S, F, U) /\ SysOk(h, S)
  BY DEF HeapAt
<1>2. /\ h.brk \in Nat /\ h.start \in Nat /\ h.start <= h.brk /\ h.end \in Nat /\ h.start > 0
  BY <1>1 DEF SysOk
<1>3. h.top_pad \in Nat
  <2>1. \A pad \in TopPads \union {0} : pad \in Nat BY MallocConstants
  <2>2. h.top_pad \in TopPads \union {0} BY <1>1 DEF SysOk
  <2> QED BY ONLY <2>1, <2>2
<1>4. g = CASE SbrkFails(h, size) -> h
            [] ~SbrkFails(h, size) /\ h.brk = next_chunk(h, h.top) -> ExtendContiguous(h, size)
            [] OTHER -> ExtendElsewhere(h, size)
  BY DEF malloc_extend_top
<1>5. least \in Nat /\ least > 0 /\ least >= nb + MINSIZE /\ least >= 16 BY <1>3 DEF MINSIZE
<1> HIDE DEF least, g
<1>6. PageSize \in Nat /\ PageSize > 0 /\ PageSize % 8 = 0 BY DEF PageFacts
<1>7. /\ RoundUp(least, PageSize) \in Nat /\ least <= RoundUp(least, PageSize)
      /\ RoundUp(least, PageSize) % 8 = 0
  BY <1>5, <1>6, RoundUpIs
<1>8. size \in Nat /\ least <= size /\ size <= RoundUp(least, PageSize) BY <1>5, <1>7
<1>9. h.base # -1 => size % 8 = 0 BY <1>7
<1> HIDE DEF size
<1>10. CASE SbrkFails(h, size)
  <2>1. g = h BY <1>4, <1>10
  <2>2. h.brk + size > h.end BY <1>10, <1>2, <1>8 DEF SbrkFails
  <2>3. h.brk + RoundUp(least, PageSize) + MALLOC_ALIGNMENT > h.end
    BY <2>2, <1>2, <1>7, <1>8 DEF MALLOC_ALIGNMENT
  <2>4. Kept(h, h, S, S, U) BY KeptRefl
  <2> QED BY <2>1, <2>3, <2>4 DEF Extended, NotExtended, least, g
<1>11. nb + MINSIZE \in Nat /\ nb + MINSIZE <= size BY <1>5, <1>8 DEF MINSIZE
<1>12. CASE ~SbrkFails(h, size) /\ h.brk = next_chunk(h, h.top)
  <2>1. g = ExtendContiguous(h, size) BY <1>4, <1>12
  <2>2. h.top # 0
    <3>1. h.top = 0 => next_chunk(h, h.top) = 0 BY DEF next_chunk, chunksize, InitialTop
    <3> QED BY <3>1, <1>2, <1>12
  <2>3. h.base # -1 BY <1>1, <2>2 DEF SysOk
  <2>4. h.brk = h.top + S[h.top]
    <3>1. h.top \in DOMAIN S
      <4>1. Tiled(S, F \union U, h.fence, h.top) BY <1>1 DEF Layout
      <4> QED BY <4>1, <2>2 DEF Tiled, Placed
    <3>2. chunksize(h, h.top) = S[h.top] BY <3>1, <1>1, SizeAt
    <3> QED BY <3>2, <1>12 DEF next_chunk
  <2>5. TopOf(h, g, S, U, size) BY <2>1, <2>2, <2>3, <2>4, <1>8, <1>9, <1>12, ExtendContiguousAt
  <2>6. TopOf(h, g, S, U, nb + MINSIZE) BY <2>5, <1>8, <1>11, TopOfLess
  <2> QED BY <2>6 DEF Extended, g
<1>13. CASE ~SbrkFails(h, size) /\ h.brk # next_chunk(h, h.top)
  <2>1. g = ExtendElsewhere(h, size) BY <1>4, <1>13
  <2>2. size >= 16 BY <1>5, <1>8
  <2>3. TopOf(h, g, S, U, size) \/ NotExtended(h, g, S, F, U, nb)
    BY <2>1, <2>2, <1>8, <1>13, ExtendElsewhereAt
  <2>4. TopOf(h, g, S, U, size) => TopOf(h, g, S, U, nb + MINSIZE) BY <1>8, <1>11, TopOfLess
  <2> QED BY <2>3, <2>4 DEF Extended, g
<1> QED BY <1>10, <1>12, <1>13

-----------------------------------------------------------------------------
(* Giving a chunk out: from top, from a bin, or by splitting one.           *)

\* A chunk of nb bytes or more is given out, and every block is kept.
GivenAt(h, r, S, U, nb, T, G, p) ==
    /\ r.mem = chunk2mem(p) /\ p \notin U
    /\ HeapAt(r.h, T, G, U \union {p}) /\ Kept(h, r.h, S, T, U) /\ T[p] >= nb
Given(h, r, S, U, nb) == \E T, G, p : GivenAt(h, r, S, U, nb, T, G, p)

Size8(nb) == nb \in Nat /\ nb >= 16 /\ nb % 8 = 0

\* Sizes of chunks, as numbers.
LEMMA Size8Is ==
    ASSUME NEW nb, Size8(nb)
    PROVE  nb \in Nat /\ nb >= 16
BY DEF Size8

\* What is read of top.
LEMMA TopIs ==
    ASSUME NEW h, NEW S, NEW F, NEW U, Layout(h, S, F, U), h.top # 0
    PROVE  /\ h.top \in DOMAIN S /\ h.top \in Nat /\ S[h.top] \in Nat
           /\ chunksize(h, h.top) = S[h.top] /\ h.top \notin F /\ h.top \notin U
           /\ ~FreeBefore(S, F, h.top)
<1>1. Tiled(S, F \union U, h.fence, h.top) /\ NoTwoFree(S, F, h.top) BY DEF Layout
<1>2. h.top \in DOMAIN S /\ h.top \notin F \union U BY <1>1 DEF Tiled, Placed
<1>3. ~FreeBefore(S, F, h.top) BY <1>1 DEF FreeBefore, NoTwoFree
<1> QED BY <1>2, <1>3, SizeAt

\* A chunk off the front of top.
LEMMA TakeFromTopAt ==
    ASSUME NEW h, NEW S, NEW F, NEW U, NEW nb, HeapAt(h, S, F, U), h.top # 0,
           Size8(nb), S[h.top] >= nb + MINSIZE
    PROVE  Given(h, TakeFromTop(h, nb), S, U, nb)
<1> DEFINE t == h.top
           r == t + nb
           e == t + S[t]
           T == CutS(S, t, nb)
           V == U \union {t}
           h1 == [h EXCEPT !.top = r]
           h2 == set_head(h1, t, nb)
           g == set_head(h2, r, S[t] - nb)
<1>1. IsHeap(h) /\ Layout(h, S, F, U) /\ SysOk(h, S) /\ BinsOk(h.bin, h.marked, S, F)
  BY DEF HeapAt
<1>2. /\ t \in DOMAIN S /\ t \in Nat /\ S[t] \in Nat /\ chunksize(h, t) = S[t]
      /\ t \notin F /\ t \notin U /\ ~FreeBefore(S, F, t)
  BY <1>1, TopIs
<1>3. nb \in Nat /\ nb >= 16 /\ nb % 8 = 0 BY DEF Size8
<1>4. S[t] >= nb + 16 BY DEF MINSIZE
<1>5. TakeFromTop(h, nb) = Found(g, t)
  <2>1. ~(chunksize(h, t) - nb < MINSIZE) BY <1>2, <1>3, <1>4 DEF MINSIZE
  <2>2. SpareInTop(h, nb) = S[t] - nb BY <1>2 DEF SpareInTop
  <2> QED BY <2>1, <2>2, <1>2 DEF TakeFromTop, SpareInTop
<1>6. /\ IsHeap(h1) /\ SameSys(h, h1) /\ h1.top = r /\ h1.bin = h.bin /\ h1.marked = h.marked
      /\ \A x : Word(h1, x) = Word(h, x)
  BY <1>1, SetTopIs
<1> HIDE DEF h1
<1>7. Wrote(h1, h2) /\ \A x : Word(h2, x) = IF x = t + 4 THEN nb + 1 ELSE Word(h1, x)
  BY <1>6, SetHeadIs
<1> HIDE DEF h2
<1>8. Wrote(h2, g) /\ \A x : Word(g, x) = IF x = r + 4 THEN (S[t] - nb) + 1 ELSE Word(h2, x)
  <2>1. IsHeap(h2) BY <1>7 DEF Wrote
  <2> QED BY <2>1, SetHeadIs
<1> HIDE DEF g
<1>9. /\ IsHeap(g) /\ g.top = r /\ g.bin = h.bin /\ g.marked = h.marked /\ SameSys(h, g)
  BY <1>6, <1>7, <1>8 DEF Wrote, SameSys
<1>10. TopTwo(S, F \union U, T, F \union V, h.fence, t, r, e)
  <2> DEFINE N == F \union U
  <2>1. Tiled(S, N, h.fence, t) BY <1>1 DEF Layout
  <2>2. t # 0 OBVIOUS
  <2>3. F \union V = N \union {t} OBVIOUS
  <2> HIDE DEF N, t, e, V
  <2>4. TopRun(S, N, S, N, h.fence, t, t + S[t]) BY ONLY <2>1, <2>2, TopBase
  <2>5. TopRun(S, N, S, N, h.fence, t, e) BY <2>4 DEF e
  <2>6. e \in Nat /\ e - t - nb >= 16 BY <1>2, <1>3, <1>4 DEF e
  <2>7. TopTwo(S, N, CutS(S, t, nb), N \union {t}, h.fence, t, t + nb, e)
    BY ONLY <2>5, <2>6, <1>3, TopCut
  <2> QED BY <2>3, <2>7 DEF N
<1>11. /\ HeadOf(g, t) = nb + 1 /\ HeadOf(g, r) = (e - r) + 1 /\ WordsBelow(h, g, t)
  <2>1. t + 4 # r + 4 BY <1>2, <1>3
  <2>2. HeadOf(g, t) = nb + 1 BY <2>1, <1>7, <1>8 DEF HeadOf, SIZE_SZ
  <2>3. HeadOf(g, r) = (S[t] - nb) + 1 BY <1>8 DEF HeadOf, SIZE_SZ
  <2>4. S[t] - nb = e - r BY <1>2, <1>3
  <2>5. \A x \in Nat : x < t + 4 => Word(g, x) = Word(h, x)
    <3> TAKE x \in Nat
    <3> HAVE x < t + 4
    <3>1. x # t + 4 /\ x # r + 4 BY <1>2, <1>3
    <3> QED BY <3>1, <1>6, <1>7, <1>8
  <2> QED BY <2>2, <2>3, <2>4, <2>5 DEF WordsBelow
<1> HIDE DEF t, r, e, T, V
<1>12. TopTwoChange(h, g, S, F, U, T, F, V, t, r, e)
  <2>1. F \intersect V = {}
    <3>1. F \intersect U = {} BY <1>1 DEF Layout
    <3> QED BY <3>1, <1>2 DEF V
  <2>2. FreeBelow(F, F, t) BY DEF FreeBelow
  <2>3. TopTwoHeads(g, S, F, t, r, e)
    <3>1. Bit(S, F, t) = 1 BY <1>2 DEF Bit
    <3>2. r - t = nb BY <1>2, <1>3 DEF r
    <3> QED BY <3>1, <3>2, <1>11 DEF TopTwoHeads
  <2>4. g.fence = h.fence BY <1>9 DEF SameSys
  <2> QED BY <2>1, <2>2, <2>3, <2>4, <1>1, <1>2, <1>9, <1>10, <1>11 DEF TopTwoChange
<1>13. \A c \in F \union U : c < t
  <2> TAKE c \in F \union U
  <2>1. c \in Nat /\ S[c] \in Nat /\ S[c] >= 16 /\ c + S[c] <= h.top BY <1>1, NormalAt
  <2> QED BY <2>1, <1>2 DEF t
<1>14. /\ Layout(g, T, F, V) /\ Kept(h, g, S, T, U)
       /\ T[t] = r - t /\ T[r] = e - r
  <2>1. U \subseteq F \union U OBVIOUS
  <2>2. Below(U, t) BY <1>13 DEF Below
  <2>3. t \in DOMAIN S BY <1>2
  <2> QED BY ONLY <2>1, <2>2, <2>3, <1>12, TopTwoLayout
<1>15. SysOk(g, T)
  <2>1. r + T[r] = e BY <1>2, <1>3, <1>14 DEF r, e
  <2>2. e <= h.brk /\ h.base # -1 BY <1>1 DEF SysOk, e, t
  <2> QED BY <2>1, <2>2, <1>1, <1>9 DEF SysOk, SameSys
<1>16. BinsOk(g.bin, g.marked, T, F)
  <2>1. F \subseteq F /\ t \notin F /\ \A c \in F : c < t BY <1>2, <1>13
  <2>2. SameBelow(S, F \union U, T, F \union V, t) BY <1>10 DEF TopTwo
  <2>3. BinsOk(g.bin, g.marked, S, F) BY <1>1, <1>9
  <2> QED BY ONLY <2>1, <2>2, <2>3, <1>1, <1>14, SizesBelow
<1>17. HeapAt(g, T, F, V) BY <1>9, <1>14, <1>15, <1>16 DEF HeapAt
<1>18. T[t] >= nb BY <1>14, <1>2, <1>3 DEF r
<1>19. GivenAt(h, Found(g, t), S, U, nb, T, F, t)
  BY <1>2, <1>14, <1>17, <1>18 DEF GivenAt, Found, V
<1> QED BY <1>5, <1>19 DEF Given, t

\* The free chunk p is in no bin.
OffBins(h, S, F, U, p) ==
    /\ IsHeap(h) /\ Layout(h, S, F, U) /\ SysOk(h, S)
    /\ p \in F /\ BinsOk(h.bin, h.marked, S, F \ {p})

\* A free chunk, its words and its neighbours.
FreeFacts(h, S, F, U, p) ==
    /\ p \in DOMAIN S /\ p \in Nat /\ S[p] \in Nat /\ S[p] >= 16 /\ chunksize(h, p) = S[p]
    /\ p \notin U /\ p + S[p] \in DOMAIN S /\ ~FreeBefore(S, F, p)
    /\ p + S[p] \notin F /\ p + S[p] # h.top
    /\ HeadOf(h, p) = S[p] + 1 /\ HeadOf(h, p + S[p]) = S[p + S[p]]
    /\ S[p + S[p]] \in Nat
    /\ Word(h, p + S[p]) = S[p]
    /\ \A c \in U : c < p \/ c >= p + S[p]

\* What is read of a free chunk and its neighbours.
LEMMA FreeAt ==
    ASSUME NEW h, NEW S, NEW F, NEW U, NEW p \in F, Layout(h, S, F, U)
    PROVE  FreeFacts(h, S, F, U, p)
<1> DEFINE e == p + S[p]
<1>1. Tiled(S, F \union U, h.fence, h.top) /\ NoTwoFree(S, F, h.top) /\ F \intersect U = {}
      /\ Encoded(h, S, F)
  BY DEF Layout
<1>2. /\ p \in DOMAIN S /\ p \in Nat /\ S[p] \in Nat /\ S[p] >= 16 /\ chunksize(h, p) = S[p]
      /\ e \in DOMAIN S
  <2>1. p \in F \union U OBVIOUS
  <2> QED BY <2>1, NormalAt
<1>3. e \notin F /\ e # h.top BY <1>1 DEF NoTwoFree
<1>4. ~FreeBefore(S, F, p) BY <1>1 DEF NoTwoFree, FreeBefore
<1>5. Bit(S, F, p) = 1 /\ Bit(S, F, e) = 0
  <2>1. FreeBefore(S, F, e) BY DEF FreeBefore
  <2> QED BY <1>4, <2>1 DEF Bit
<1>6. HeadOf(h, p) = S[p] + 1 /\ HeadOf(h, e) = S[e] /\ S[e] \in Nat /\ Word(h, e) = S[p]
  <2>1. HeadOf(h, p) = S[p] + Bit(S, F, p) /\ HeadOf(h, e) = S[e] + Bit(S, F, e)
        /\ Word(h, e) = S[p]
    BY <1>1, <1>2 DEF Encoded
  <2>2. S[e] \in Nat BY <1>1, <1>2 DEF Tiled, Placed
  <2> QED BY <2>1, <2>2, <1>5
<1>7. p \notin U BY <1>1
<1>8. \A c \in U : c < p \/ c >= e
  <2> TAKE c \in U
  <2>1. c \in F \union U OBVIOUS
  <2>2. c \in DOMAIN S /\ c \in Nat BY <2>1, NormalAt
  <2>3. c # p BY <1>7
  <2> QED BY <2>2, <2>3, <1>2, NoneInside
<1> QED BY <1>2, <1>3, <1>4, <1>6, <1>7, <1>8 DEF FreeFacts

\* A free chunk as a whole.
LEMMA UseAllAt ==
    ASSUME NEW h, NEW S, NEW F, NEW U, NEW p, NEW nb, OffBins(h, S, F, U, p),
           S[p] >= nb
    PROVE  Given(h, UseAll(h, p), S, U, nb)
<1> DEFINE e == p + S[p]
           g == set_inuse_bit(h, e)
           G == F \ {p}
           V == U \union {p}
<1>1. /\ IsHeap(h) /\ Layout(h, S, F, U) /\ SysOk(h, S) /\ p \in F
      /\ BinsOk(h.bin, h.marked, S, G)
  BY DEF OffBins
<1>2. /\ p \in DOMAIN S /\ p \in Nat /\ S[p] \in Nat /\ S[p] >= 16 /\ chunksize(h, p) = S[p]
      /\ p \notin U /\ e \in DOMAIN S /\ ~FreeBefore(S, F, p)
      /\ e \notin F /\ e # h.top
      /\ HeadOf(h, p) = S[p] + 1 /\ \A c \in U : c < p \/ c >= e
  <2>1. FreeFacts(h, S, F, U, p) BY <1>1, FreeAt
  <2> QED BY <2>1 DEF FreeFacts
<1>3. UseAll(h, p) = Found(g, p) BY <1>2 DEF UseAll, next_chunk
<1>4. Wrote(h, g) /\ \A x : Word(g, x) = IF x = e + 4 THEN (HeadOf(h, e) \div 2) * 2 + 1 ELSE Word(h, x)
  BY <1>1, SetInuseIs
<1> HIDE DEF g
<1>5. (HeadOf(h, e) \div 2) * 2 + 1 = S[e] + 1
  <2>1. e \in DOMAIN S /\ Layout(h, S, F, U) BY <1>1, <1>2
  <2> HIDE DEF e
  <2> QED BY ONLY <2>1, ReadAt
<1>6. e \in Nat /\ p < e BY <1>2
<1>7. OneRun(S, F \union U, S, G \union V, h.fence, h.top, p, e)
  <2>1. Tiled(S, F \union U, h.fence, h.top) BY <1>1 DEF Layout
  <2>2. p \in F \union U BY <1>1
  <2>3. OneRun(S, F \union U, S, F \union U, h.fence, h.top, p, p + S[p])
    BY ONLY <2>1, <2>2, RunBase
  <2>4. F \union U = G \union V BY <1>1
  <2> QED BY <2>3, <2>4
<1>8. Outside(U, p, e) BY <1>2 DEF Outside
<1> HIDE DEF e, V, G
<1>9. OneChange(h, g, S, F, U, S, G, V, p, e)
  <2>1. SameSys(h, g) /\ g.top = h.top BY <1>4 DEF Wrote
  <2>2. G \intersect V = {}
    <3>1. F \intersect U = {} BY <1>1 DEF Layout
    <3> QED BY <3>1 DEF G, V
  <2>3. SameFree(F, G, p, e) BY <1>2, <1>6 DEF SameFree, G
  <2>4. LocalWords(h, g, p, e)
    <3>1. \A x \in Nat : x < p + 4 \/ x > e + 4 => x # e + 4 BY <1>2, <1>6
    <3> QED BY <3>1, <1>4 DEF LocalWords
  <2>5. p \notin G BY DEF G
  <2>6. OneHeads(g, S, F, p, e, p \in G)
    <3>1. HeadOf(g, e) = S[e] + 1 BY <1>4, <1>5 DEF HeadOf, SIZE_SZ
    <3>2. HeadOf(g, p) = HeadOf(h, p)
      <4>1. p + 4 # e + 4 BY <1>2, <1>6
      <4> QED BY <4>1, <1>4 DEF HeadOf, SIZE_SZ
    <3>3. Bit(S, F, p) = 1 /\ e - p = S[p] BY <1>2, <1>6 DEF Bit, e
    <3> QED BY <2>5, <3>1, <3>2, <3>3, <1>2 DEF OneHeads
  <2> QED BY <2>1, <2>2, <2>3, <2>4, <2>5, <2>6, <1>1, <1>2, <1>7 DEF OneChange
<1>10. Layout(g, S, G, V) /\ SysOk(g, S) /\ Kept(h, g, S, S, U)
  <2>1. U \subseteq F \union U OBVIOUS
  <2> QED BY ONLY <2>1, <1>8, <1>9, OneLayout
<1>11. HeapAt(g, S, G, V) BY <1>1, <1>4, <1>10 DEF HeapAt, Wrote
<1>12. GivenAt(h, Found(g, p), S, U, nb, S, G, p)
  BY <1>2, <1>10, <1>11 DEF GivenAt, Found, V
<1> QED BY <1>3, <1>12 DEF Given

\* The free chunk p is in no bin, or is the last remainder.
SplitFrom(h, S, F, U, p) ==
    /\ IsHeap(h) /\ Layout(h, S, F, U) /\ SysOk(h, S) /\ p \in F
    /\ \E D : BinsOk(h.bin, h.marked, S, D) /\ D \ ToSet(Bin(h, 1)) = F \ {p}

SplitHeap(h, p, nb) ==
    SetFree(set_head(link_last_remainder(h, p + nb), p, nb), p + nb, chunksize(h, p) - nb)

\* The words of h after a free chunk [p, e) is cut at r.
SplitWords(h, g, p, r, e) ==
    \A x : Word(g, x) = IF x = e THEN e - r
                        ELSE IF x = r + 4 THEN (e - r) + 1
                        ELSE IF x = p + 4 THEN (r - p) + 1 ELSE Word(h, x)

SplitIs(h, g, S, F, p, r, e) ==
    /\ IsHeap(g) /\ SameSys(h, g) /\ g.top = h.top
    /\ BinsOk(g.bin, g.marked, S, (F \ {p}) \union {r}) /\ OfBin(g.bin, 1) = <<r>>
    /\ SplitWords(h, g, p, r, e)

\* What splitting a free chunk writes.
LEMMA SplitHeapIs ==
    ASSUME NEW h, NEW S, NEW F, NEW U, NEW p, NEW nb, SplitFrom(h, S, F, U, p), Size8(nb),
           p + nb \notin F
    PROVE  SplitIs(h, SplitHeap(h, p, nb), S, F, p, p + nb, p + S[p])
<1> DEFINE r == p + nb
           e == p + S[p]
           h1 == link_last_remainder(h, r)
           h2 == set_head(h1, p, nb)
           g == SetFree(h2, r, S[p] - nb)
<1>1. IsHeap(h) /\ Layout(h, S, F, U) /\ p \in F BY DEF SplitFrom
<1>2. p \in Nat /\ S[p] \in Nat /\ chunksize(h, p) = S[p]
  <2>1. FreeFacts(h, S, F, U, p) BY <1>1, FreeAt
  <2> QED BY <2>1 DEF FreeFacts
<1>3. nb \in Nat BY DEF Size8
<1>4. SplitHeap(h, p, nb) = g BY <1>2 DEF SplitHeap
<1>5. PICK D : BinsOk(h.bin, h.marked, S, D) /\ D \ ToSet(Bin(h, 1)) = F \ {p} BY DEF SplitFrom
<1>6. /\ SameMem(h, h1)
      /\ BinsOk(h1.bin, h.marked, S, (F \ {p}) \union {r})
      /\ h1.marked = h.marked /\ Bin(h1, 1) = <<r>>
  <2>1. r \notin D \ ToSet(Bin(h, 1)) BY <1>5
  <2> HIDE DEF r
  <2>2. /\ SameMem(h, link_last_remainder(h, r))
        /\ BinsOk(link_last_remainder(h, r).bin, h.marked, S,
                     (D \ ToSet(Bin(h, 1))) \union {r})
        /\ link_last_remainder(h, r).marked = h.marked
        /\ Bin(link_last_remainder(h, r), 1) = <<r>>
    BY ONLY <2>1, <1>1, <1>5, LastLinked
  <2> QED BY <2>2, <1>5
<1> HIDE DEF h1
<1>7. IsHeap(h1) /\ SameSys(h, h1) /\ h1.top = h.top /\ \A x : Word(h1, x) = Word(h, x)
  BY <1>6 DEF SameMem
<1>8. Wrote(h1, h2) /\ \A x : Word(h2, x) = IF x = p + 4 THEN nb + 1 ELSE Word(h1, x)
  BY <1>7, SetHeadIs
<1> HIDE DEF h2
<1>9. /\ Wrote(h2, g)
      /\ \A x : Word(g, x) = IF x = r + (S[p] - nb) THEN S[p] - nb
                             ELSE IF x = r + 4 THEN (S[p] - nb) + 1 ELSE Word(h2, x)
  <2>1. IsHeap(h2) BY <1>8 DEF Wrote
  <2> QED BY <2>1, SetFreeIs
<1> HIDE DEF g
<1>10. r + (S[p] - nb) = e /\ S[p] - nb = e - r /\ nb = r - p BY <1>2, <1>3
<1>11. SplitWords(h, g, p, r, e) BY <1>7, <1>8, <1>9, <1>10 DEF SplitWords
<1>12. IsHeap(g) /\ SameSys(h, g) /\ g.top = h.top /\ g.bin = h1.bin /\ g.marked = h.marked
  BY <1>6, <1>7, <1>8, <1>9 DEF Wrote, SameSys
<1>13. OfBin(g.bin, 1) = <<r>> BY <1>6, <1>12, BinIs
<1> QED BY <1>4, <1>6, <1>11, <1>12, <1>13 DEF SplitIs

\* The front of a free chunk; the rest is the last remainder.
LEMMA SplitAt ==
    ASSUME NEW h, NEW S, NEW F, NEW U, NEW p, NEW nb, SplitFrom(h, S, F, U, p), Size8(nb),
           S[p] >= nb + MINSIZE
    PROVE  Given(h, Split(h, p, nb), S, U, nb)
<1> DEFINE r == p + nb
           e == p + S[p]
           g == SplitHeap(h, p, nb)
           G == (F \ {p}) \union {r}
           V == U \union {p}
           T == CutS(S, p, nb)
<1>1. IsHeap(h) /\ Layout(h, S, F, U) /\ SysOk(h, S) /\ p \in F BY DEF SplitFrom
<1>2. /\ p \in DOMAIN S /\ p \in Nat /\ S[p] \in Nat /\ chunksize(h, p) = S[p]
      /\ p \notin U /\ e \in DOMAIN S /\ ~FreeBefore(S, F, p)
      /\ e \notin F /\ e # h.top
      /\ HeadOf(h, e) = S[e] /\ S[e] \in Nat /\ \A c \in U : c < p \/ c >= e
  <2>1. FreeFacts(h, S, F, U, p) BY <1>1, FreeAt
  <2> QED BY <2>1 DEF FreeFacts
<1>3. nb \in Nat /\ nb >= 16 /\ nb % 8 = 0 BY DEF Size8
<1>4. S[p] >= nb + 16 BY DEF MINSIZE
<1>5. Split(h, p, nb) = Found(g, p) BY DEF Split, SplitHeap
<1>6. r \in Nat /\ e \in Nat /\ p + 16 <= r /\ r + 16 <= e /\ r - p = nb /\ e - p - nb >= 16
  BY <1>2, <1>3, <1>4
<1>7. r \notin DOMAIN S
  <2> SUFFICES ASSUME r \in DOMAIN S PROVE FALSE OBVIOUS
  <2>1. p <= r /\ r < p + S[p] BY <1>2, <1>3, <1>4
  <2> HIDE DEF r
  <2>2. r = p BY <2>1, <1>1, <1>2, NoneInside
  <2> QED BY <2>2, <1>2, <1>6
<1>8. r \notin F /\ r \notin U
  <2>1. F \union U \subseteq DOMAIN S
    <3>1. Tiled(S, F \union U, h.fence, h.top) BY <1>1 DEF Layout
    <3> QED BY <3>1 DEF Tiled, Placed
  <2> QED BY <1>7, <2>1
<1>9. SplitIs(h, g, S, F, p, r, e) BY <1>8, SplitHeapIs
<1> HIDE DEF g
<1>10. /\ IsHeap(g) /\ SameSys(h, g) /\ g.top = h.top
       /\ BinsOk(g.bin, g.marked, S, G) /\ OfBin(g.bin, 1) = <<r>>
       /\ SplitWords(h, g, p, r, e)
  BY <1>9 DEF SplitIs
<1>11. TwoRun(S, F \union U, T, G \union V, h.fence, h.top, p, r, e)
  <2>1. Tiled(S, F \union U, h.fence, h.top) BY <1>1 DEF Layout
  <2>2. p \in F \union U BY <1>1
  <2>3. OneRun(S, F \union U, S, F \union U, h.fence, h.top, p, p + S[p])
    BY ONLY <2>1, <2>2, RunBase
  <2>4. (F \union U) \union {p + nb} = G \union V BY <1>1
  <2>5. OneRun(S, F \union U, S, F \union U, h.fence, h.top, p, e) BY <2>3
  <2> DEFINE N == F \union U
  <2> HIDE DEF e, N
  <2>6. TwoRun(S, N, CutS(S, p, nb), N \union {p + nb}, h.fence, h.top, p, p + nb, e)
    BY <2>1, <2>5, <1>3, <1>6, RunCut DEF N
  <2> QED BY <2>4, <2>6 DEF N
<1>12. Outside(U, p, e) BY <1>2 DEF Outside
<1>13. \A x : x \in F \ {p} => T[x] = S[x]
  <2> TAKE x
  <2> HAVE x \in F \ {p}
  <2>1. x \in DOMAIN S /\ x # p /\ x # p + nb
    <3>1. x \in F \union U OBVIOUS
    <3> QED BY <3>1, <1>1, <1>8, NormalAt
  <2> QED BY <2>1 DEF CutS
<1> HIDE DEF e, V, G, T, r
<1>14. TwoChange(h, g, S, F, U, T, G, V, p, r, e)
  <2>1. SameSys(h, g) /\ g.top = h.top BY <1>10
  <2>2. G \intersect V = {}
    <3>1. F \intersect U = {} BY <1>1 DEF Layout
    <3>2. r # p BY <1>2, <1>6
    <3> QED BY <3>1, <3>2, <1>8 DEF G, V
  <2>3. SameFree(F, G, p, e)
    <3>1. p < e BY <1>2, <1>6
    <3>2. \A c : c < p \/ c >= e => c # p /\ c # r BY <1>2, <1>6
    <3> QED BY <3>2 DEF SameFree, G
  <2>4. LocalWords(h, g, p, e)
    <3>1. \A x \in Nat : x < p + 4 \/ x > e + 4 => x # e /\ x # r + 4 /\ x # p + 4 BY <1>2, <1>6
    <3> QED BY <3>1, <1>10 DEF LocalWords, SplitWords
  <2>5. p \notin G /\ r \in G
    <3>1. r # p BY <1>2, <1>6
    <3> QED BY <3>1 DEF G
  <2>6. TwoHeads(g, S, F, p, r, e, r \in G)
    <3>1. HeadOf(g, e) = S[e] + 0
      <4>1. e + 4 # e /\ e + 4 # r + 4 /\ e + 4 # p + 4 BY <1>2, <1>6
      <4>2. HeadOf(g, e) = HeadOf(h, e) BY <4>1, <1>10 DEF HeadOf, SIZE_SZ, SplitWords
      <4> QED BY <4>2, <1>2
    <3>2. HeadOf(g, r) = (e - r) + 1
      <4>1. r + 4 # e BY <1>6
      <4> QED BY <4>1, <1>10 DEF HeadOf, SIZE_SZ, SplitWords
    <3>3. HeadOf(g, p) = (r - p) + 1
      <4>1. p + 4 # e /\ p + 4 # r + 4 BY <1>2, <1>6
      <4> QED BY <4>1, <1>10 DEF HeadOf, SIZE_SZ, SplitWords
    <3>4. Word(g, e) = e - r BY <1>10 DEF SplitWords
    <3>5. Bit(S, F, p) = 1 BY <1>2 DEF Bit
    <3> QED BY <2>5, <3>1, <3>2, <3>3, <3>4, <3>5 DEF TwoHeads
  <2> QED BY <2>1, <2>2, <2>3, <2>4, <2>5, <2>6, <1>1, <1>2, <1>11 DEF TwoChange
<1>15. /\ Layout(g, T, G, V) /\ SysOk(g, T) /\ Kept(h, g, S, T, U)
       /\ T[p] = r - p
  <2>1. U \subseteq F \union U OBVIOUS
  <2> QED BY ONLY <2>1, <1>12, <1>14, TwoLayout
<1>16. BinsOk(g.bin, g.marked, T, G)
  <2>1. In(OfBin(g.bin, 1), r)
    <3>1. OfBin(g.bin, 1) = <<r>> BY <1>10
    <3> QED BY <3>1 DEF In
  <2>2. \A x \in G : In(OfBin(g.bin, 1), x) \/ T[x] = S[x] BY <2>1, <1>13 DEF G
  <2>3. BinsOk(g.bin, g.marked, S, G) BY <1>10
  <2> QED BY ONLY <2>2, <2>3, BinsSizes
<1>17. HeapAt(g, T, G, V) BY <1>10, <1>15, <1>16 DEF HeapAt
<1>18. T[p] >= nb BY <1>3, <1>6, <1>15
<1>19. GivenAt(h, Found(g, p), S, U, nb, T, G, p)
  BY <1>2, <1>15, <1>17, <1>18 DEF GivenAt, Found, V
<1> QED BY <1>5, <1>19 DEF Given
=============================================================================
