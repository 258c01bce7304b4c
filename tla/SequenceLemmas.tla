--------------------------- MODULE SequenceLemmas ---------------------------
(***************************************************************************)
(* What the community operators on sequences and sets return, as far as    *)
(* the proofs about the components need it.                                *)
(***************************************************************************)
EXTENDS Integers, SequencesExt, SequenceTheorems, WellFoundedInduction, TLAPS

(***************************************************************************)
(* Min, of which getFreeBlock (first block of a channel) and               *)
(* doGarbageCollection (next valid page) are uses, is an element of the    *)
(* set and below all others.                                               *)
(***************************************************************************)
LEMMA MinLemma ==
  ASSUME NEW T, T \subseteq Nat, T # {}
  PROVE  /\ Min(T) \in T
         /\ \A y \in T : Min(T) <= y
<1>1. \E x \in T : \A y \in T : ~(<<y, x>> \in OpToRel(<, Nat))
  BY NatLessThanWellFounded, WFMin
<1>2. PICK x \in T : \A y \in T : ~(<<y, x>> \in OpToRel(<, Nat))
  BY <1>1
<1>3. \A y \in T : ~(y < x)
  BY <1>2 DEF OpToRel
<1>4. \A y \in T : x <= y
  BY <1>3
<1> QED BY <1>4 DEF Min

(***************************************************************************)
(* Max of a set of positions, as in the reverse search of eraseInternal.   *)
(***************************************************************************)
LEMMA MaxLemma ==
  ASSUME NEW n \in Nat, NEW T, T \subseteq 1 .. n, T # {}
  PROVE  /\ Max(T) \in T
         /\ \A y \in T : y <= Max(T)
<1> DEFINE D == {n - x : x \in T}
<1>1. D \subseteq Nat /\ D # {}
  <2>1. \A x \in T : n - x \in Nat
    OBVIOUS
  <2>2. PICK x \in T : TRUE
    OBVIOUS
  <2>3. n - x \in D
    OBVIOUS
  <2> QED BY <2>1, <2>3
<1>2. Min(D) \in D /\ \A d \in D : Min(D) <= d
  BY <1>1, MinLemma
<1>3. PICK x \in T : Min(D) = n - x
  BY <1>2
<1>4. \A y \in T : y <= x
  <2> TAKE y \in T
  <2>1. n - y \in D
    OBVIOUS
  <2>2. n - x <= n - y
    BY <2>1, <1>2, <1>3
  <2> QED BY <2>2
<1> QED BY <1>4 DEF Max

(***************************************************************************)
(* erase(iterator) of a list: one element less, the rest in order.         *)
(***************************************************************************)
LEMMA RemoveAtLemma ==
  ASSUME NEW S, NEW s \in Seq(S), NEW i \in 1 .. Len(s)
  PROVE  /\ RemoveAt(s, i) \in Seq(S)
         /\ Len(RemoveAt(s, i)) = Len(s) - 1
         /\ \A j \in 1 .. Len(s) - 1 :
              RemoveAt(s, i)[j] = IF j < i THEN s[j] ELSE s[j + 1]
<1> DEFINE u == SubSeq(s, 1, i - 1)
           v == SubSeq(s, i + 1, Len(s))
<1>1. u \in Seq(S) /\ Len(u) = i - 1 /\ \A j \in 1 .. i - 1 : u[j] = s[j]
  OBVIOUS
<1>2. /\ v \in Seq(S) /\ Len(v) = Len(s) - i
      /\ \A j \in 1 .. Len(s) - i : v[j] = s[i + j]
  OBVIOUS
<1>3. RemoveAt(s, i) = u \o v
  BY DEF RemoveAt
<1>4. Len(s) \in Nat
  OBVIOUS
<1> HIDE DEF u, v
<1>5. /\ u \o v \in Seq(S) /\ Len(u \o v) = Len(u) + Len(v)
      /\ \A j \in 1 .. Len(u) + Len(v) :
           (u \o v)[j] = IF j <= Len(u) THEN u[j] ELSE v[j - Len(u)]
  BY <1>1, <1>2, ConcatProperties
<1>6. ASSUME NEW j \in 1 .. Len(s) - 1
      PROVE  (u \o v)[j] = IF j < i THEN s[j] ELSE s[j + 1]
  <2>1. i \in Int /\ j \in Int /\ (j < i \/ j >= i)
    BY <1>4
  <2>2. CASE j < i
    BY <2>2, <1>1, <1>2, <1>5
  <2>3. CASE j >= i
    <3>1. (u \o v)[j] = v[j - (i - 1)]
      BY <2>3, <1>1, <1>2, <1>5
    <3>2. j - (i - 1) \in 1 .. Len(s) - i
      BY <2>3
    <3> QED BY <3>1, <3>2, <2>3, <1>2
  <2> QED BY <2>1, <2>2, <2>3
<1> QED BY <1>1, <1>2, <1>3, <1>5, <1>6

(***************************************************************************)
(* insert(iterator, element) of a list.                                    *)
(***************************************************************************)
LEMMA InsertAtLemma ==
  ASSUME NEW S, NEW s \in Seq(S), NEW i \in 1 .. Len(s) + 1, NEW e \in S
  PROVE  /\ InsertAt(s, i, e) \in Seq(S)
         /\ Len(InsertAt(s, i, e)) = Len(s) + 1
         /\ \A j \in 1 .. Len(s) + 1 :
              InsertAt(s, i, e)[j] = IF j < i THEN s[j]
                                     ELSE IF j = i THEN e ELSE s[j - 1]
<1> DEFINE u == SubSeq(s, 1, i - 1)
           v == SubSeq(s, i, Len(s))
           w == u \o <<e>>
<1>1. u \in Seq(S) /\ Len(u) = i - 1 /\ \A j \in 1 .. i - 1 : u[j] = s[j]
  OBVIOUS
<1>2. /\ v \in Seq(S) /\ Len(v) = Len(s) + 1 - i
      /\ \A j \in 1 .. Len(s) + 1 - i : v[j] = s[i - 1 + j]
  OBVIOUS
<1>3. InsertAt(s, i, e) = w \o v
  BY DEF InsertAt
<1>4. Len(s) \in Nat
  OBVIOUS
<1> HIDE DEF u, v
<1>5. /\ w \in Seq(S) /\ Len(w) = i
      /\ \A j \in 1 .. i : w[j] = IF j < i THEN s[j] ELSE e
  <2>1. <<e>> \in Seq(S) /\ Len(<<e>>) = 1 /\ <<e>>[1] = e
    OBVIOUS
  <2> QED BY <2>1, <1>1, ConcatProperties
<1> HIDE DEF w
<1>6. /\ w \o v \in Seq(S) /\ Len(w \o v) = Len(w) + Len(v)
      /\ \A j \in 1 .. Len(w) + Len(v) :
           (w \o v)[j] = IF j <= Len(w) THEN w[j] ELSE v[j - Len(w)]
  BY <1>5, <1>2, ConcatProperties
<1>7. ASSUME NEW j \in 1 .. Len(s) + 1
      PROVE  (w \o v)[j] = IF j < i THEN s[j]
                           ELSE IF j = i THEN e ELSE s[j - 1]
  <2>1. i \in Int /\ j \in Int /\ (j <= i \/ j > i)
    BY <1>4
  <2>2. CASE j <= i
    BY <2>2, <1>5, <1>2, <1>6
  <2>3. CASE j > i
    <3>1. (w \o v)[j] = v[j - i]
      BY <2>3, <1>5, <1>2, <1>6
    <3>2. j - i \in 1 .. Len(s) + 1 - i
      BY <2>3
    <3> QED BY <3>1, <3>2, <2>3, <1>2
  <2> QED BY <2>1, <2>2, <2>3
<1> QED BY <1>5, <1>2, <1>3, <1>6, <1>7

(***************************************************************************)
(* Removing an element from an LRU list leaves a list.                     *)
(***************************************************************************)
LEMMA RemoveFirstLemma ==
  ASSUME NEW S, NEW s \in Seq(S), NEW e
  PROVE  RemoveFirst(s, e) \in Seq(S)
<1>1. CASE \E i \in 1 .. Len(s) : s[i] = e
  <2> DEFINE I == {i \in 1 .. Len(s) : s[i] = e}
  <2>1. I \subseteq Nat /\ I # {}
    BY <1>1
  <2>2. Min(I) \in I
    BY <2>1, MinLemma
  <2>3. RemoveFirst(s, e) = RemoveAt(s, Min(I))
    BY <1>1 DEF RemoveFirst, SelectInSeq
  <2>4. Min(I) \in 1 .. Len(s)
    BY <2>2
  <2> HIDE DEF I
  <2> QED BY <2>3, <2>4, RemoveAtLemma
<1>2. CASE ~\E i \in 1 .. Len(s) : s[i] = e
  BY <1>2 DEF RemoveFirst
<1> QED BY <1>1, <1>2

(***************************************************************************)
(* A list that is put behind another, and one element more.                *)
(***************************************************************************)
LEMMA ConcatAppend ==
  ASSUME NEW S, NEW a \in Seq(S), NEW b \in Seq(S), NEW x \in S
  PROVE  a \o Append(b, x) = Append(a \o b, x)
<1>1. <<x>> \in Seq(S)
  OBVIOUS
<1>2. (a \o b) \o <<x>> = a \o (b \o <<x>>)
  BY <1>1, ConcatAssociative
<1> QED BY <1>1, <1>2, AppendIsConcat

(***************************************************************************)
(* Induction up to a bound: what holds of 0 and goes on holding.           *)
(***************************************************************************)
LEMMA UpTo ==
  ASSUME NEW n \in Nat, NEW T, 0 \in T, \A i \in 1 .. n : i - 1 \in T => i \in T
  PROVE  \A i \in 0 .. n : i \in T
<1> SUFFICES ASSUME NEW k \in 0 .. n, k \notin T PROVE FALSE
  OBVIOUS
<1> DEFINE D == {i \in 0 .. n : i \notin T}
<1>1. D \subseteq Nat /\ D # {}
  OBVIOUS
<1>2. Min(D) \in D /\ \A y \in D : Min(D) <= y
  BY <1>1, MinLemma
<1>3. PICK m : m = Min(D)
  OBVIOUS
<1>4. m \in 1 .. n /\ m \notin T
  BY <1>2, <1>3
<1>5. m - 1 \notin D
  BY <1>2, <1>3, <1>4
<1> QED BY <1>4, <1>5

(***************************************************************************)
(* A loop that carries a value from one turn to the next has a trace.      *)
(***************************************************************************)
IsTrace(g, n, S, a, step) ==
  /\ g \in [0 .. n -> S] /\ g[0] = a
  /\ \A i \in 1 .. n : g[i] = step[i][g[i - 1]]

LEMMA LoopTrace ==
  ASSUME NEW n \in Nat, NEW S, NEW a \in S, NEW step \in [1 .. n -> [S -> S]]
  PROVE  \E g : IsTrace(g, n, S, a, step)
<1> DEFINE T == {j \in 0 .. n : \E g \in [0 .. j -> S] :
                   g[0] = a /\ \A i \in 1 .. j : g[i] = step[i][g[i - 1]]}
<1>1. 0 \in T
  <2>1. PICK g : g = [i \in 0 .. 0 |-> a]
    OBVIOUS
  <2>2. g \in [0 .. 0 -> S] /\ g[0] = a
    BY <2>1
  <2>3. \A i \in 1 .. 0 : g[i] = step[i][g[i - 1]]
    OBVIOUS
  <2> QED BY <2>2, <2>3
<1>2. ASSUME NEW j \in 1 .. n, j - 1 \in T
      PROVE  j \in T
  <2>1. PICK g \in [0 .. j - 1 -> S] :
          g[0] = a /\ \A i \in 1 .. j - 1 : g[i] = step[i][g[i - 1]]
    BY <1>2
  <2>2. step[j][g[j - 1]] \in S
    OBVIOUS
  <2>3. PICK h : h = [i \in 0 .. j |-> IF i < j THEN g[i] ELSE step[j][g[j - 1]]]
    OBVIOUS
  <2>4. h \in [0 .. j -> S]
    BY <2>2, <2>3
  <2>5. \A i \in 0 .. j - 1 : h[i] = g[i]
    BY <2>3
  <2>6. h[0] = a /\ h[j] = step[j][h[j - 1]]
    BY <2>1, <2>3, <2>5
  <2>7. \A i \in 1 .. j - 1 : h[i] = step[i][h[i - 1]]
    BY <2>1, <2>5
  <2>8. \A i \in 1 .. j : h[i] = step[i][h[i - 1]]
    BY <2>6, <2>7
  <2> QED BY <2>4, <2>6, <2>8
<1> HIDE DEF T
<1>3. \A i \in 1 .. n : i - 1 \in T => i \in T
  BY <1>2
<1>4. \A i \in 0 .. n : i \in T
  BY <1>1, <1>3, UpTo
<1>5. n \in T
  BY <1>4
<1> QED BY <1>5 DEF T, IsTrace
=============================================================================
