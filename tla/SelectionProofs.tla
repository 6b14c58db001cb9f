---------------------------- MODULE SelectionProofs ----------------------------
(***************************************************************************)
(* What filtering a sequence gives, for every sequence and set.  The       *)
(* provers have no induction of their own; it is had here from the         *)
(* smallest number with a property, stated of a set.                       *)
(***************************************************************************)
EXTENDS Selection, WellFoundedInduction, TLAPS

Less == {p \in Nat \X Nat : p[1] < p[2]}

(* A set of numbers that is not empty has a smallest one.                   *)
LEMMA Smallest ==
  ASSUME NEW T \in SUBSET Nat, T # {}
  PROVE  \E x \in T : \A y \in T : x <= y
<1>1. IsWellFoundedOn(Less, Nat)
  <2>1. IsWellFoundedOn(OpToRel(<, Nat), Nat)
    BY NatLessThanWellFounded
  <2>2. OpToRel(<, Nat) = Less
    BY DEF OpToRel, Less
  <2>q. QED
    BY <2>1, <2>2
<1>2. PICK x \in T : \A y \in T : ~(<<y, x>> \in Less)
  BY <1>1, WFMin
<1>3. \A y \in T : x <= y
  <2> SUFFICES ASSUME NEW y \in T PROVE ~(y < x)
    OBVIOUS
  <2>1. x \in Nat /\ y \in Nat /\ <<y, x>> \notin Less
    BY <1>2
  <2>q. QED
    BY <2>1 DEF Less
<1>q. QED
  BY <1>3

(* A set of numbers with 0 and each successor is all of them.               *)
LEMMA Induction ==
  ASSUME NEW T \in SUBSET Nat, 0 \in T, \A n \in T : n + 1 \in T
  PROVE  T = Nat
<1> SUFFICES ASSUME Nat \ T # {} PROVE FALSE
  OBVIOUS
<1>1. PICK n \in Nat \ T : \A m \in Nat \ T : n <= m
  BY Smallest
<1>2. n # 0 /\ n - 1 \in Nat /\ n - 1 < n
  OBVIOUS
<1>3. n - 1 \in T
  BY <1>1, <1>2
<1>4. (n - 1) + 1 = n
  OBVIOUS
<1>q. QED
  BY <1>3, <1>4

(* A value for each number from the value of a smaller one.                 *)
Recursive(T, b, prev, h) ==
  \E p \in [Nat -> T] : \A n \in Nat : p[n] = IF n = 0 THEN b ELSE h[n][p[prev[n]]]

(* There is such a function.                                                *)
LEMMA Recursion ==
  ASSUME NEW T, NEW b \in T, NEW prev \in [Nat \ {0} -> Nat],
         \A n \in Nat \ {0} : prev[n] < n, NEW h \in [Nat \ {0} -> [T -> T]]
  PROVE  Recursive(T, b, prev, h)
<1> DEFINE Val(g, i) == IF i = 0 THEN b ELSE h[i][g[prev[i]]]
           Good(n, g) == g \in [0..n -> T] /\ \A i \in 0..n : g[i] = Val(g, i)
<1>1. \A n \in Nat : \E g : Good(n, g)
  <2> DEFINE D == {n \in Nat : \E g : Good(n, g)}
  <2>1. 0 \in D
    <3>1. Good(0, [i \in 0..0 |-> b])
      OBVIOUS
    <3>q. QED
      BY <3>1
  <2>2. ASSUME NEW n \in D PROVE n + 1 \in D
    <3>1. PICK g : Good(n, g)
      OBVIOUS
    <3> DEFINE e == [i \in 0..n + 1 |-> IF i <= n THEN g[i] ELSE h[n + 1][g[prev[n + 1]]]]
    <3>2. prev[n + 1] \in 0..n /\ n \in Nat /\ n + 1 \in Nat \ {0}
      OBVIOUS
    <3>3. g[prev[n + 1]] \in T
      BY <3>1, <3>2
    <3>4. h[n + 1][g[prev[n + 1]]] \in T
      BY <3>2, <3>3
    <3>5. e \in [0..n + 1 -> T]
      BY <3>1, <3>4
    <3>6. \A i \in 0..n : e[i] = g[i]
      BY <3>2
    <3>7. ASSUME NEW i \in 0..n + 1 PROVE e[i] = Val(e, i)
      <4>1. CASE i = 0
        <5>1. 0 \in 0..n /\ g[0] = b
          <6>1. 0 \in 0..n
            BY <3>2
          <6>2. \A k \in 0..n : g[k] = Val(g, k)
            BY <3>1
          <6>q. QED
            BY <6>1, <6>2
        <5>2. e[0] = g[0]
          BY <3>6, <5>1
        <5>q. QED
          BY <4>1, <5>1, <5>2
      <4>2. CASE i \in 1..n
        <5>1. prev[i] \in 0..n /\ i \in 0..n /\ i # 0
          BY <3>2, <4>2
        <5>2. e[i] = g[i] /\ e[prev[i]] = g[prev[i]]
          BY <3>6, <5>1
        <5>3. g[i] = Val(g, i)
          BY <3>1, <5>1
        <5> HIDE DEF e
        <5>q. QED
          BY <5>1, <5>2, <5>3
      <4>3. CASE i = n + 1
        <5>1. e[i] = h[i][g[prev[i]]] /\ i # 0
          BY <3>2, <4>3
        <5>2. e[prev[i]] = g[prev[i]]
          BY <3>2, <3>6, <4>3
        <5> HIDE DEF e
        <5>q. QED
          BY <5>1, <5>2
      <4>q. QED
        BY <3>2, <4>1, <4>2, <4>3
    <3> HIDE DEF e
    <3>8. Good(n + 1, e)
      BY <3>5, <3>7
    <3>q. QED
      BY <3>2, <3>8
  <2>3. D = Nat
    BY <2>1, <2>2, Induction
  <2>q. QED
    BY <2>3
<1>2. ASSUME NEW m \in Nat, NEW n \in Nat, NEW f, NEW g, Good(m, f), Good(n, g),
             NEW j \in Nat, j <= m, j <= n
      PROVE  f[j] = g[j]
  <2> DEFINE D == {i \in Nat : i <= m /\ i <= n /\ f[i] # g[i]}
  <2> SUFFICES ASSUME D # {} PROVE FALSE
    BY <1>2
  <2>1. PICK i \in D : \A k \in D : i <= k
    BY Smallest
  <2>2. i \in 0..m /\ i \in 0..n /\ f[i] = Val(f, i) /\ g[i] = Val(g, i)
    BY <1>2
  <2>3. i # 0 /\ prev[i] \in Nat /\ prev[i] < i
    BY <2>2
  <2>4. f[prev[i]] = g[prev[i]]
    BY <2>1, <2>3
  <2>q. QED
    BY <2>2, <2>4
<1> DEFINE G(n) == CHOOSE g : Good(n, g)
           p == [n \in Nat |-> G(n)[n]]
<1>3. \A n \in Nat : Good(n, G(n))
  BY <1>1
<1> HIDE DEF G
<1>4. p \in [Nat -> T]
  BY <1>3
<1>5. ASSUME NEW n \in Nat PROVE p[n] = Val(p, n)
  <2>1. p[n] = Val(G(n), n)
    BY <1>3
  <2>2. CASE n = 0
    BY <2>1, <2>2
  <2>3. CASE n # 0
    <3>1. prev[n] \in Nat /\ prev[n] < n
      BY <2>3
    <3>2. G(n)[prev[n]] = G(prev[n])[prev[n]]
      <4>1. Good(n, G(n)) /\ Good(prev[n], G(prev[n]))
        BY <1>3, <3>1
      <4>2. prev[n] <= n /\ prev[n] <= prev[n]
        BY <3>1
      <4> HIDE DEF Good
      <4>q. QED
        BY <1>2, <3>1, <4>1, <4>2
    <3>q. QED
      BY <2>1, <2>3, <3>1, <3>2
  <2>q. QED
    BY <2>2, <2>3
<1>q. QED
  BY <1>4, <1>5 DEF Recursive

------------------------------------------------------------------------------
(* Filtering.                                                               *)

(* What the recursive function of a selection satisfies.                    *)
Selecting(s, S, f) ==
  \A n \in Nat : f[n] = IF n \in DOMAIN s
                      THEN IF s[n] \in S THEN Append(f[n - 1], s[n]) ELSE f[n - 1]
                      ELSE <<>>

HasSelection(T, s, S) ==
  \E f \in [Nat -> Seq(T)] : Selected(s, S) = f[Len(s)] /\ Selecting(s, S, f)

(* It exists.                                                               *)
LEMMA Selects ==
  ASSUME NEW T, NEW s \in Seq(T), NEW S
  PROVE  HasSelection(T, s, S)
<1>1. PICK prev : prev = [n \in Nat \ {0} |-> n - 1]
  OBVIOUS
<1>2. PICK h : h = [n \in Nat \ {0} |-> [x \in Seq(T) |->
                      IF n \in DOMAIN s THEN IF s[n] \in S THEN Append(x, s[n]) ELSE x
                                        ELSE <<>>]]
  OBVIOUS
<1>3. prev \in [Nat \ {0} -> Nat] /\ \A n \in Nat \ {0} : prev[n] = n - 1 /\ prev[n] < n
  BY <1>1
<1>4. <<>> \in Seq(T)
  OBVIOUS
<1>5. h \in [Nat \ {0} -> [Seq(T) -> Seq(T)]]
  <2>1. ASSUME NEW n \in Nat \ {0}, NEW x \in Seq(T)
        PROVE  (IF n \in DOMAIN s THEN IF s[n] \in S THEN Append(x, s[n]) ELSE x ELSE <<>>)
                 \in Seq(T)
    BY <1>4
  <2>q. QED
    BY <1>2, <2>1
<1>6. \A n \in Nat \ {0}, x \in Seq(T) :
        h[n][x] = IF n \in DOMAIN s THEN IF s[n] \in S THEN Append(x, s[n]) ELSE x ELSE <<>>
  BY <1>2
<1>7. PICK p \in [Nat -> Seq(T)] :
        \A n \in Nat : p[n] = IF n = 0 THEN <<>> ELSE h[n][p[prev[n]]]
  <2>1. \A n \in Nat \ {0} : prev[n] < n
    BY <1>3
  <2>2. prev \in [Nat \ {0} -> Nat]
    BY <1>3
  <2>3. Recursive(Seq(T), <<>>, prev, h)
    BY <1>4, <1>5, <2>1, <2>2, Recursion
  <2>q. QED
    BY <2>3 DEF Recursive
<1>8. Selecting(s, S, p)
  <2>1. ASSUME NEW n \in Nat
        PROVE  p[n] = IF n \in DOMAIN s
                      THEN IF s[n] \in S THEN Append(p[n - 1], s[n]) ELSE p[n - 1]
                      ELSE <<>>
    <3>1. CASE n = 0
      <4>1. 0 \notin DOMAIN s
        OBVIOUS
      <4>q. QED
        BY <1>7, <3>1, <4>1
    <3>2. CASE n # 0
      <4>1. n \in Nat \ {0} /\ n - 1 \in Nat /\ prev[n] = n - 1
        BY <1>3, <3>2
      <4>2. p[n] = h[n][p[n - 1]] /\ p[n - 1] \in Seq(T)
        BY <1>7, <4>1
      <4>q. QED
        BY <1>6, <4>1, <4>2
    <3>q. QED
      BY <3>1, <3>2
  <2>q. QED
    BY <2>1 DEF Selecting
<1> DEFINE Body(f) == [n \in Nat |->
                         IF n \in DOMAIN s
                         THEN IF s[n] \in S THEN Append(f[n - 1], s[n]) ELSE f[n - 1]
                         ELSE <<>>]
           f == CHOOSE g : g = Body(g)
<1>9. p = Body(p)
  BY <1>8 DEF Selecting
<1>10. Selected(s, S) = f[Len(s)]
  BY DEF Selected
<1>11. f = Body(f)
  <2> HIDE DEF Body
  <2>q. QED
    BY <1>9
<1> HIDE DEF f
<1>12. Selecting(s, S, f)
  BY <1>11 DEF Selecting
<1>13. f \in [Nat -> Seq(T)]
  <2>1. f[0] \in Seq(T)
    <3>1. 0 \notin DOMAIN s
      OBVIOUS
    <3>q. QED
      BY <1>4, <1>12, <3>1 DEF Selecting
  <2>2. ASSUME NEW n \in Nat, f[n] \in Seq(T) PROVE f[n + 1] \in Seq(T)
    <3>1. (n + 1) - 1 = n /\ n + 1 \in Nat
      OBVIOUS
    <3>2. f[n + 1] = IF n + 1 \in DOMAIN s
                     THEN IF s[n + 1] \in S THEN Append(f[n], s[n + 1]) ELSE f[n]
                     ELSE <<>>
      BY <1>12, <3>1 DEF Selecting
    <3>3. n + 1 \in DOMAIN s => s[n + 1] \in T
      OBVIOUS
    <3>q. QED
      BY <1>4, <2>2, <3>2, <3>3
  <2> DEFINE D == {n \in Nat : f[n] \in Seq(T)}
  <2>3. 0 \in D /\ \A n \in D : n + 1 \in D
    <3>1. \A n \in D : n \in Nat /\ n + 1 \in Nat /\ f[n] \in Seq(T)
      OBVIOUS
    <3>2. \A n \in D : f[n + 1] \in Seq(T)
      BY <2>2, <3>1
    <3>q. QED
      BY <2>1, <3>1, <3>2
  <2>4. D = Nat
    <3>1. D \in SUBSET Nat
      OBVIOUS
    <3> HIDE DEF D
    <3>q. QED
      BY <2>3, <3>1, Induction
  <2>5. f = [n \in Nat |-> f[n]]
    BY <1>11
  <2>q. QED
    BY <2>4, <2>5
<1>q. QED
  BY <1>10, <1>12, <1>13 DEF HasSelection

(* Nothing is selected from nothing.                                        *)
LEMMA SelectedEmpty == \A S : Selected(<<>>, S) = <<>>
<1> SUFFICES ASSUME NEW S PROVE Selected(<<>>, S) = <<>>
  OBVIOUS
<1>1. <<>> \in Seq(Nat) /\ Len(<<>>) = 0 /\ 0 \notin DOMAIN <<>>
  OBVIOUS
<1>2. HasSelection(Nat, <<>>, S)
  BY <1>1, Selects
<1>3. PICK f : Selected(<<>>, S) = f[0] /\ Selecting(<<>>, S, f)
  BY <1>1, <1>2 DEF HasSelection
<1>4. f[0] = <<>>
  BY <1>1, <1>3 DEF Selecting
<1>q. QED
  BY <1>3, <1>4

(* A selection is of the kind of what it is selected from.                  *)
LEMMA SelectedType ==
  ASSUME NEW T, NEW s \in Seq(T), NEW S
  PROVE  Selected(s, S) \in Seq(T)
<1>1. HasSelection(T, s, S) /\ Len(s) \in Nat
  BY Selects
<1>q. QED
  BY <1>1 DEF HasSelection

(* A further element is selected last, or not at all.                       *)
LEMMA SelectedAppend ==
  ASSUME NEW T, NEW s \in Seq(T), NEW x \in T, NEW S
  PROVE  Selected(Append(s, x), S) =
           IF x \in S THEN Append(Selected(s, S), x) ELSE Selected(s, S)
<1> DEFINE t == Append(s, x)
<1>1. /\ t \in Seq(T) /\ Len(s) \in Nat /\ Len(t) = Len(s) + 1 /\ t[Len(s) + 1] = x
      /\ DOMAIN s = 1..Len(s) /\ DOMAIN t = 1..Len(s) + 1 /\ \A n \in DOMAIN s : t[n] = s[n]
  OBVIOUS
<1>0. \A n \in Nat : n + 1 <= Len(s) =>
        /\ n + 1 \in DOMAIN s /\ n + 1 \in DOMAIN t /\ (n + 1) - 1 = n
        /\ s[n + 1] = t[n + 1] /\ n + 1 \in Nat
  OBVIOUS
<1>2. PICK f \in [Nat -> Seq(T)] : Selected(s, S) = f[Len(s)] /\ Selecting(s, S, f)
  <2>1. HasSelection(T, s, S)
    BY Selects
  <2>q. QED
    BY <2>1 DEF HasSelection
<1> HIDE DEF t
<1>3. PICK g \in [Nat -> Seq(T)] : Selected(t, S) = g[Len(t)] /\ Selecting(t, S, g)
  <2>1. HasSelection(T, t, S)
    BY <1>1, Selects
  <2>q. QED
    BY <2>1 DEF HasSelection
<1>4. \A n \in Nat : n <= Len(s) => g[n] = f[n]
  <2>1. g[0] = f[0]
    <3>1. 0 \notin DOMAIN s /\ 0 \notin DOMAIN t
      BY <1>1
    <3>q. QED
      BY <1>2, <1>3, <3>1 DEF Selecting
  <2>2. ASSUME NEW n \in Nat, n <= Len(s) => g[n] = f[n], n + 1 <= Len(s)
        PROVE  g[n + 1] = f[n + 1]
    <3>1. /\ n + 1 \in DOMAIN s /\ n + 1 \in DOMAIN t /\ (n + 1) - 1 = n
          /\ s[n + 1] = t[n + 1] /\ n + 1 \in Nat
      BY <1>0, <2>2
    <3>2. g[n] = f[n]
      BY <1>1, <2>2
    <3>q. QED
      BY <1>2, <1>3, <3>1, <3>2 DEF Selecting
  <2> DEFINE D == {n \in Nat : n <= Len(s) => g[n] = f[n]}
  <2>3. 0 \in D /\ \A n \in D : n + 1 \in D
    <3>1. 0 \in D
      BY <2>1
    <3>2. ASSUME NEW n \in D PROVE n + 1 \in D
      <4>1. n \in Nat /\ (n <= Len(s) => g[n] = f[n])
        OBVIOUS
      <4>2. n + 1 <= Len(s) => g[n + 1] = f[n + 1]
        BY <2>2, <4>1
      <4>q. QED
        BY <4>1, <4>2
    <3>q. QED
      BY <3>1, <3>2
  <2>4. D = Nat
    <3>1. D \in SUBSET Nat
      OBVIOUS
    <3> HIDE DEF D
    <3>q. QED
      BY <2>3, <3>1, Induction
  <2>q. QED
    BY <2>4
<1>5. Len(t) \in DOMAIN t /\ Len(t) \in Nat /\ Len(t) - 1 = Len(s) /\ t[Len(t)] = x
  BY <1>1
<1>6. g[Len(t)] = IF x \in S THEN Append(g[Len(s)], x) ELSE g[Len(s)]
  BY <1>3, <1>5 DEF Selecting
<1>7. g[Len(s)] = f[Len(s)]
  BY <1>1, <1>4
<1>q. QED
  BY <1>2, <1>3, <1>6, <1>7 DEF t

(* A sequence that is not empty is a shorter one and its last element.      *)
EndsIn(T, n, s) == \E r \in Seq(T), x \in T : Len(r) = n /\ s = Append(r, x)

LEMMA LastSplit ==
  ASSUME NEW T, NEW n \in Nat, NEW s \in Seq(T), Len(s) = n + 1
  PROVE  EndsIn(T, n, s)
<1>1. PICK r : r = SubSeq(s, 1, n)
  OBVIOUS
<1>2. r \in Seq(T) /\ Len(r) = n /\ \A i \in 1..n : r[i] = s[i]
  BY <1>1
<1>3. s[n + 1] \in T
  OBVIOUS
<1>4. PICK a : a = Append(r, s[n + 1])
  OBVIOUS
<1>5. a \in Seq(T) /\ Len(a) = n + 1 /\ \A i \in 1..n + 1 : a[i] = s[i]
  BY <1>2, <1>3, <1>4
<1>6. a = s
  BY <1>5
<1>q. QED
  BY <1>2, <1>3, <1>4, <1>6 DEF EndsIn

(* A set of sequences with the empty one and each one element longer is all *)
(* of them.                                                                 *)
LEMMA SequenceInduction ==
  ASSUME NEW T, NEW Good \in SUBSET Seq(T), <<>> \in Good,
         \A s \in Good, x \in T : Append(s, x) \in Good
  PROVE  Good = Seq(T)
<1>1. ASSUME NEW n \in Nat, NEW s \in Seq(T), Len(s) = n + 1 PROVE EndsIn(T, n, s)
  BY <1>1, LastSplit
<1> DEFINE D == {n \in Nat : \A s \in Seq(T) : Len(s) = n => s \in Good}
<1>2. 0 \in D
  <2>1. \A s \in Seq(T) : Len(s) = 0 => s = <<>>
    OBVIOUS
  <2>q. QED
    BY <2>1
<1>3. ASSUME NEW n \in D PROVE n + 1 \in D
  <2>1. n \in Nat /\ \A r \in Seq(T) : Len(r) = n => r \in Good
    OBVIOUS
  <2>2. ASSUME NEW s \in Seq(T), Len(s) = n + 1 PROVE s \in Good
    <3>1. PICK r \in Seq(T), x \in T : Len(r) = n /\ s = Append(r, x)
      BY <1>1, <2>1, <2>2 DEF EndsIn
    <3>q. QED
      BY <2>1, <3>1
  <2>q. QED
    BY <2>1, <2>2
<1>4. D = Nat
  BY <1>2, <1>3, Induction
<1>5. \A s \in Seq(T) : Len(s) \in Nat
  OBVIOUS
<1>q. QED
  BY <1>4, <1>5

(* A selection from two parts is what is selected from each.                *)
LEMMA SelectedConcat ==
  ASSUME NEW T, NEW s \in Seq(T), NEW t \in Seq(T), NEW S
  PROVE  Selected(s \o t, S) = Selected(s, S) \o Selected(t, S)
<1>1. Selected(s \o <<>>, S) = Selected(s, S) \o Selected(<<>>, S) /\ <<>> \in Seq(T)
  <2>1. s \o <<>> = s /\ Selected(s, S) \o <<>> = Selected(s, S) /\ <<>> \in Seq(T)
    BY SelectedType
  <2>q. QED
    BY <2>1, SelectedEmpty
<1>2. ASSUME NEW r \in Seq(T), NEW x \in T, Selected(s \o r, S) = Selected(s, S) \o Selected(r, S)
      PROVE  Selected(s \o Append(r, x), S) = Selected(s, S) \o Selected(Append(r, x), S)
  <2>1. s \o r \in Seq(T) /\ s \o Append(r, x) = Append(s \o r, x)
    OBVIOUS
  <2>2. PICK sr \in Seq(T) : sr = s \o r
    BY <2>1
  <2>3. Selected(s, S) \in Seq(T) /\ Selected(r, S) \in Seq(T)
    BY SelectedType
  <2>4. Selected(s, S) \o Append(Selected(r, S), x) = Append(Selected(s, S) \o Selected(r, S), x)
    BY <2>3
  <2>5. Selected(Append(sr, x), S) =
          IF x \in S THEN Append(Selected(sr, S), x) ELSE Selected(sr, S)
    BY SelectedAppend
  <2>6. Selected(Append(r, x), S) =
          IF x \in S THEN Append(Selected(r, S), x) ELSE Selected(r, S)
    BY SelectedAppend
  <2>q. QED
    BY <1>2, <2>1, <2>2, <2>4, <2>5, <2>6
<1> DEFINE Good == {r \in Seq(T) : Selected(s \o r, S) = Selected(s, S) \o Selected(r, S)}
<1>3. Good \in SUBSET Seq(T) /\ <<>> \in Good
  BY <1>1
<1>4. ASSUME NEW r \in Good, NEW x \in T PROVE Append(r, x) \in Good
  <2>1. r \in Seq(T) /\ Selected(s \o r, S) = Selected(s, S) \o Selected(r, S)
    OBVIOUS
  <2>2. Selected(s \o Append(r, x), S) = Selected(s, S) \o Selected(Append(r, x), S)
    BY <1>2, <2>1
  <2>q. QED
    BY <2>1, <2>2
<1>5. Good = Seq(T)
  <2> HIDE DEF Good
  <2>q. QED
    BY <1>3, <1>4, SequenceInduction
<1>q. QED
  BY <1>5

(* When everything is in the set, nothing is left out.                      *)
LEMMA SelectedAll ==
  ASSUME NEW S, NEW s \in Seq(S)
  PROVE  Selected(s, S) = s
<1> DEFINE Good == {r \in Seq(S) : Selected(r, S) = r}
<1>1. <<>> \in Good
  BY SelectedEmpty
<1>2. ASSUME NEW r \in Good, NEW x \in S PROVE Append(r, x) \in Good
  BY SelectedAppend
<1>3. Good = Seq(S)
  <2> HIDE DEF Good
  <2>1. Good \in SUBSET Seq(S)
    BY DEF Good
  <2>q. QED
    BY <1>1, <1>2, <2>1, SequenceInduction
<1>q. QED
  BY <1>3

(* When nothing is in the set, everything is.                               *)
LEMMA SelectedNone ==
  ASSUME NEW T, NEW s \in Seq(T), NEW S, T \intersect S = {}
  PROVE  Selected(s, S) = <<>>
<1> DEFINE Good == {r \in Seq(T) : Selected(r, S) = <<>>}
<1>1. <<>> \in Good
  BY SelectedEmpty
<1>2. ASSUME NEW r \in Good, NEW x \in T PROVE Append(r, x) \in Good
  BY SelectedAppend
<1>3. Good = Seq(T)
  <2> HIDE DEF Good
  <2>1. Good \in SUBSET Seq(T)
    BY DEF Good
  <2>q. QED
    BY <1>1, <1>2, <2>1, SequenceInduction
<1>q. QED
  BY <1>3

(* What is selected is in the set.                                          *)
LEMMA SelectedIn ==
  ASSUME NEW T, NEW s \in Seq(T), NEW S
  PROVE  Selected(s, S) \in Seq(T \intersect S)
<1> DEFINE Good == {r \in Seq(T) : Selected(r, S) \in Seq(T \intersect S)}
<1>1. <<>> \in Good
  <2>1. <<>> \in Seq(T \intersect S) /\ <<>> \in Seq(T)
    OBVIOUS
  <2>q. QED
    BY <2>1, SelectedEmpty
<1>2. ASSUME NEW r \in Good, NEW x \in T PROVE Append(r, x) \in Good
  <2>1. Selected(r, S) \in Seq(T \intersect S) /\ r \in Seq(T) /\ Append(r, x) \in Seq(T)
    OBVIOUS
  <2>2. Selected(Append(r, x), S) = IF x \in S THEN Append(Selected(r, S), x) ELSE Selected(r, S)
    BY <2>1, SelectedAppend
  <2>3. x \in S => Append(Selected(r, S), x) \in Seq(T \intersect S)
    BY <2>1
  <2>q. QED
    BY <2>1, <2>2, <2>3
<1>3. Good = Seq(T)
  <2> HIDE DEF Good
  <2>1. Good \in SUBSET Seq(T)
    BY DEF Good
  <2>q. QED
    BY <1>1, <1>2, <2>1, SequenceInduction
<1>q. QED
  BY <1>3
================================================================================
