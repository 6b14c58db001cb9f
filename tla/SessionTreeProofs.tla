--------------------------- MODULE SessionTreeProofs ---------------------------
(***************************************************************************)
(* The inductive invariant of SessionTree, and what follows from it, for   *)
(* any number of managers, files, entries and failing writes.              *)
(***************************************************************************)
EXTENDS SessionTree, SelectionProofs, FiniteSetTheorems

(* An entry that was handed out: its parent is older than itself.           *)
Stored == {e \in Entry : e.id \in 1..ids /\ e.parent < e.id}
StoredLine == [entry : Stored \union {Header, Malformed}, newline : BOOLEAN]
Session == [file : 0..names, entries : Seq(Stored), leaf : Nat, flushed : BOOLEAN, failed : BOOLEAN]

DiskType ==
  /\ names \in 0..MaxFiles /\ ids \in Nat /\ faults \in 0..MaxFaults
  /\ exists \subseteq 1..names /\ damaged \subseteq exists
  /\ lines \in [Files -> Seq(StoredLine)]
TypeInv == DiskType /\ mem \in [Managers -> Session]

(* Every parent stands before its children, and no id stands twice.         *)
ParentsFirst(es) ==
  \A i \in DOMAIN es : es[i].parent = 0 \/ \E j \in 1..(i - 1) : es[j].id = es[i].parent
Unique(es) == \A i, j \in DOMAIN es : es[i].id = es[j].id => i = j
Tree(es) == ParentsFirst(es) /\ Unique(es)

(* Only the first line is a header, only the last may lack its newline.     *)
Shaped(ls) ==
  \A i \in DOMAIN ls : /\ ls[i].entry = Header => i = 1
                       /\ ~ls[i].newline => i = Len(ls)
FileInv == \A f \in Files : Shaped(lines[f]) /\ (f \notin exists => lines[f] = <<>>)

(* A file no failed write has touched is a header and a tree.               *)
Whole(f) == Loadable(f) /\ lines[f] = LinesOf(Loaded(f)) /\ Tree(Loaded(f))
WholeInv == \A f \in exists \ damaged : Whole(f)

(* What a manager knows is a tree, and in its file once it has written to   *)
(* it, unless a failed write touched the file.                              *)
SessionOK(s) ==
  /\ s.leaf \in IdsOf(s.entries) \union {0}
  /\ s.flushed => s.file \in exists /\ lines[s.file] /= <<>>
  /\ ~s.flushed \/ s.file \notin damaged => Tree(s.entries)
  /\ s.flushed /\ s.file \notin damaged => Range(s.entries) \subseteq Range(Loaded(s.file))
  /\ s.file /= 0 /\ Answered(s.entries) /\ ~s.failed => s.flushed
MemInv == \A m \in Managers : SessionOK(mem[m])

Bad(ls) == {i \in DOMAIN ls : ls[i].entry = Malformed \/ ~ls[i].newline}
FaultInv == \A f \in Files : Cardinality(Bad(lines[f])) <= faults

DiskInv == DiskType /\ FileInv /\ WholeInv /\ FaultInv
IInv == TypeInv /\ DiskInv /\ MemInv

------------------------------------------------------------------------------
(* What a write leaves in a file.                                           *)

(* The lines of some set of entries, with those that are no entry.          *)
LineSet(L) == \E E : Malformed \in E /\ L = [entry : E, newline : BOOLEAN]

(* The line an unterminated one and a new one become is a line too.         *)
LEMMA Spoilt ==
  ASSUME NEW L, LineSet(L), NEW x \in L, NEW y, y = [x EXCEPT !.entry = Malformed]
  PROVE  y \in L /\ y.entry = Malformed /\ y.newline = x.newline
BY DEF LineSet

(* So is a line without its end.                                            *)
LEMMA UnfinishedIn ==
  ASSUME NEW L, LineSet(L), NEW x \in L, NEW e \in {Malformed, x.entry}, NEW y, y = Unfinished(e)
  PROVE  y \in L /\ y.entry = e
BY DEF LineSet, Unfinished

(* Facts about sequences that the provers find only when few others are     *)
(* around.                                                                  *)
LEMMA ElementIn ==
  ASSUME NEW T, NEW s \in Seq(T), NEW i \in 1..Len(s)
  PROVE  s[i] \in T
OBVIOUS

LEMMA Beginning ==
  ASSUME NEW T, NEW s \in Seq(T), NEW n \in Nat, n <= Len(s), NEW p, p = SubSeq(s, 1, n)
  PROVE  p \in Seq(T) /\ Len(p) = n /\ \A i \in 1..n : p[i] = s[i]
OBVIOUS

(* How many lines of a file stay as they are when something is appended.    *)
Kept(b) == IF b = <<>> \/ Last(b).newline THEN Len(b) ELSE Len(b) - 1

(* Lines ls of which the last ones are missing, and the last one there is   *)
(* perhaps not whole.                                                       *)
CutTo(ls, c) ==
  /\ c # <<>> /\ Len(c) <= Len(ls)
  /\ \A i \in DOMAIN c : /\ c[i].entry \in {ls[i].entry, Malformed}
                         /\ i < Len(c) => c[i] = ls[i]

(* r is the file b with c behind it.                                        *)
Joined(b, c, r) ==
  /\ Len(r) = Kept(b) + Len(c)
  /\ \A i \in 1..Kept(b) : r[i] = b[i]
  /\ \A i \in DOMAIN c :
       r[Kept(b) + i] = IF i = 1 /\ Kept(b) < Len(b) THEN [c[1] EXCEPT !.entry = Malformed]
                                                     ELSE c[i]

(* All lines of a file are kept but a last one without its end.             *)
LEMMA KeptIs ==
  ASSUME NEW L, NEW b \in Seq(L)
  PROVE  /\ Kept(b) \in Nat /\ Kept(b) <= Len(b) /\ Len(b) <= Kept(b) + 1
         /\ Kept(b) < Len(b) => b # <<>> /\ ~b[Len(b)].newline /\ Kept(b) = Len(b) - 1
         /\ Kept(b) = Len(b) => b = <<>> \/ b[Len(b)].newline
<1>1. Len(b) \in Nat /\ (b # <<>> => Len(b) > 0)
  OBVIOUS
<1>2. CASE b = <<>> \/ b[Len(b)].newline
  BY <1>1, <1>2 DEF Kept, Last
<1>3. CASE ~(b = <<>> \/ b[Len(b)].newline)
  BY <1>1, <1>3 DEF Kept, Last
<1>q. QED
  BY <1>2, <1>3

(* Appended puts new lines behind those it keeps, the first of them spoilt  *)
(* where it continues a line.                                               *)
LEMMA AppendedIs ==
  ASSUME NEW L, LineSet(L), NEW b \in Seq(L), NEW c \in Seq(L), c # <<>>
  PROVE  Appended(b, c) \in Seq(L) /\ Joined(b, c, Appended(b, c))
<1>1. b \in Seq(L) /\ c \in Seq(L) /\ Len(b) \in Nat /\ Len(c) \in Nat \ {0}
  OBVIOUS
<1>2. CASE b = <<>> \/ Last(b).newline
  <2>1. Appended(b, c) = b \o c /\ Kept(b) = Len(b)
    BY <1>2 DEF Appended, Kept
  <2>2. /\ b \o c \in Seq(L) /\ Len(b \o c) = Len(b) + Len(c)
        /\ \A i \in 1..Len(b) : (b \o c)[i] = b[i]
        /\ \A i \in DOMAIN c : (b \o c)[Len(b) + i] = c[i]
    BY <1>1
  <2>q. QED
    BY <1>1, <2>1, <2>2 DEF Joined
<1>3. CASE ~(b = <<>> \/ Last(b).newline)
  <2>1. PICK x : x = [c[1] EXCEPT !.entry = Malformed]
    OBVIOUS
  <2>2. x \in L
    <3>1. 1 \in 1..Len(c)
      BY <1>1
    <3>2. c[1] \in L
      BY <3>1, ElementIn
    <3>q. QED
      BY <2>1, <3>2, Spoilt
  <2>3. PICK f : f = SubSeq(b, 1, Len(b) - 1)
    OBVIOUS
  <2>4. Len(b) - 1 \in Nat /\ Kept(b) = Len(b) - 1
    BY <1>1, <1>3 DEF Kept
  <2>5. f \in Seq(L) /\ Len(f) = Len(b) - 1 /\ \A i \in 1..Len(b) - 1 : f[i] = b[i]
    <3>1. PICK n \in Nat : n = Len(b) - 1
      BY <2>4
    <3>2. f = SubSeq(b, 1, n) /\ n <= Len(b)
      BY <1>1, <2>3, <3>1
    <3>3. f \in Seq(L) /\ Len(f) = n /\ \A i \in 1..n : f[i] = b[i]
      BY <3>2, Beginning
    <3>q. QED
      BY <3>1, <3>3
  <2>6. PICK t : t = Tail(c)
    OBVIOUS
  <2>7. t \in Seq(L) /\ Len(t) = Len(c) - 1 /\ \A i \in 1..Len(c) - 1 : t[i] = c[i + 1]
    BY <1>1, <2>6
  <2>8. PICK r : r = f \o <<x>> \o t
    OBVIOUS
  <2>9. Appended(b, c) = r
    BY <1>1, <1>3, <2>1, <2>3, <2>6, <2>8 DEF Appended, Front, Last
  <2>10. /\ r \in Seq(L) /\ Len(r) = Len(f) + 1 + Len(t)
         /\ \A i \in 1..Len(f) : r[i] = f[i]
         /\ r[Len(f) + 1] = x
         /\ \A i \in 1..Len(t) : r[Len(f) + 1 + i] = t[i]
    <3>1. PICK g : g = f \o <<x>>
      OBVIOUS
    <3>2. /\ g \in Seq(L) /\ Len(g) = Len(f) + 1 /\ g[Len(f) + 1] = x
          /\ \A i \in 1..Len(f) : g[i] = f[i]
      BY <2>2, <2>5, <3>1
    <3>3. /\ r = g \o t /\ Len(f) \in Nat
      BY <2>5, <2>8, <3>1
    <3>4. /\ r \in Seq(L) /\ Len(r) = Len(g) + Len(t)
          /\ \A i \in 1..Len(g) : r[i] = g[i]
          /\ \A i \in 1..Len(t) : r[Len(g) + i] = t[i]
      <4>1. g \in Seq(L) /\ t \in Seq(L) /\ r = g \o t
        BY <2>7, <3>2, <3>3
      <4>q. QED
        BY <4>1
    <3>q. QED
      BY <3>2, <3>3, <3>4
  <2>11. \A i \in DOMAIN c : i # 1 => r[Kept(b) + i] = c[i]
    <3> SUFFICES ASSUME NEW i \in 1..Len(c), i # 1 PROVE r[Kept(b) + i] = c[i]
      BY <1>1
    <3>1. i - 1 \in 1..Len(t) /\ i - 1 \in 1..Len(c) - 1 /\ Len(f) + 1 + (i - 1) = Kept(b) + i
      BY <1>1, <2>4, <2>5, <2>7
    <3>2. t[i - 1] = c[(i - 1) + 1]
      BY <2>7, <3>1
    <3>3. r[Len(f) + 1 + (i - 1)] = t[i - 1]
      BY <2>10, <3>1
    <3>q. QED
      BY <3>1, <3>2, <3>3
  <2>12. Len(r) = Kept(b) + Len(c) /\ \A i \in 1..Kept(b) : r[i] = b[i]
    BY <1>1, <2>4, <2>5, <2>7, <2>10
  <2>13. r[Kept(b) + 1] = x /\ Kept(b) < Len(b)
    BY <1>1, <2>4, <2>5, <2>10
  <2>q. QED
    BY <2>1, <2>9, <2>10, <2>11, <2>12, <2>13 DEF Joined
<1>q. QED
  BY <1>2, <1>3

(* Whole lines, to be written behind b: no header but at the start.         *)
Clean(b, ls) ==
  /\ ls # <<>>
  /\ \A i \in DOMAIN ls : /\ ls[i].newline /\ ls[i].entry # Malformed
                          /\ ls[i].entry = Header => i = 1 /\ b = <<>>

(* Each line of a joined file is a line of b, or one of c at its place.     *)
LEMMA JoinedLine ==
  ASSUME NEW L, NEW b \in Seq(L), NEW c \in Seq(L), NEW r \in Seq(L), Joined(b, c, r),
         NEW i \in DOMAIN r
  PROVE  \/ i \in 1..Kept(b) /\ i \in DOMAIN b /\ r[i] = b[i]
         \/ /\ i - Kept(b) \in DOMAIN c
            /\ r[i] = IF i - Kept(b) = 1 /\ Kept(b) < Len(b)
                        THEN [c[1] EXCEPT !.entry = Malformed] ELSE c[i - Kept(b)]
<1>1. /\ Len(b) \in Nat /\ Len(c) \in Nat /\ DOMAIN b = 1..Len(b) /\ DOMAIN c = 1..Len(c)
      /\ DOMAIN r = 1..Len(r)
  OBVIOUS
<1>2. Kept(b) \in Nat /\ Kept(b) <= Len(b)
  BY KeptIs
<1>3. Len(r) = Kept(b) + Len(c)
  BY DEF Joined
<1>4. CASE i <= Kept(b)
  BY <1>1, <1>2, <1>4 DEF Joined
<1>5. CASE i > Kept(b)
  <2>1. PICK j : j = i - Kept(b)
    OBVIOUS
  <2>2. j \in DOMAIN c /\ Kept(b) + j = i
    BY <1>1, <1>2, <1>3, <1>5, <2>1
  <2>3. r[Kept(b) + j] = IF j = 1 /\ Kept(b) < Len(b) THEN [c[1] EXCEPT !.entry = Malformed]
                                                      ELSE c[j]
    BY <2>2 DEF Joined
  <2>q. QED
    BY <2>1, <2>2, <2>3
<1>q. QED
  BY <1>1, <1>2, <1>4, <1>5

(* What is appended to a shaped file leaves it shaped, and spoils at most   *)
(* its last line or the one it continues.                                   *)
LEMMA JoinedShape ==
  ASSUME NEW L, LineSet(L),
         NEW b \in Seq(L), NEW ls \in Seq(L), NEW c \in Seq(L), NEW r \in Seq(L),
         Shaped(b), Clean(b, ls), CutTo(ls, c), Joined(b, c, r)
  PROVE  /\ r # <<>> /\ Shaped(r)
         /\ Bad(r) \subseteq Bad(b) \union {Len(r)}
         /\ c = ls => Bad(r) \subseteq Bad(b)
<1>1. /\ Len(b) \in Nat /\ Len(c) \in Nat \ {0} /\ DOMAIN b = 1..Len(b) /\ DOMAIN c = 1..Len(c)
      /\ DOMAIN r = 1..Len(r) /\ Len(ls) \in Nat /\ DOMAIN ls = 1..Len(ls)
  BY DEF CutTo
<1>2. Kept(b) \in Nat /\ Kept(b) <= Len(b) /\ Len(b) <= Kept(b) + 1
  BY KeptIs
<1>3. Kept(b) < Len(b) => b # <<>> /\ ~b[Len(b)].newline /\ Kept(b) = Len(b) - 1
  BY KeptIs
<1>3a. Kept(b) = Len(b) => b = <<>> \/ b[Len(b)].newline
  BY KeptIs
<1>4. Len(r) = Kept(b) + Len(c) /\ Len(r) \in Nat \ {0}
  BY <1>1, <1>2 DEF Joined
<1>5. Malformed # Header
  BY DEF Malformed, Header
<1>6. ASSUME NEW i \in DOMAIN b, i \in 1..Kept(b) PROVE b[i].newline
  <2>1. i # Len(b) \/ b[Len(b)].newline
    BY <1>1, <1>2, <1>3, <1>3a, <1>6
  <2>q. QED
    BY <1>6, <2>1 DEF Shaped
<1>7. ASSUME NEW j \in DOMAIN c
      PROVE  /\ j \in DOMAIN ls /\ j <= Len(c) /\ c[j].entry \in {ls[j].entry, Malformed}
             /\ j < Len(c) \/ c = ls => c[j].newline /\ c[j].entry # Malformed
             /\ c[j].entry = Header => j = 1 /\ b = <<>>
  <2>1. j \in DOMAIN ls /\ j <= Len(c)
    BY <1>1 DEF CutTo
  <2>2. c[j].entry \in {ls[j].entry, Malformed} /\ (j < Len(c) => c[j] = ls[j])
    BY DEF CutTo
  <2>3. ls[j].newline /\ ls[j].entry # Malformed /\ (ls[j].entry = Header => j = 1 /\ b = <<>>)
    BY <2>1 DEF Clean
  <2>q. QED
    BY <1>5, <2>1, <2>2, <2>3
<1>8. ASSUME NEW j \in DOMAIN c, NEW x, x = [c[1] EXCEPT !.entry = Malformed]
      PROVE  x.entry = Malformed /\ (x.newline = c[1].newline)
  <2>1. c[1] \in L
    <3>1. 1 \in 1..Len(c)
      BY <1>1
    <3>q. QED
      BY <3>1, ElementIn
  <2>q. QED
    BY <1>8, <2>1, Spoilt
<1>9. Shaped(r)
  <2> SUFFICES ASSUME NEW i \in DOMAIN r
               PROVE  (r[i].entry = Header => i = 1) /\ (~r[i].newline => i = Len(r))
    BY DEF Shaped
  <2>1. CASE i \in 1..Kept(b) /\ i \in DOMAIN b /\ r[i] = b[i]
    BY <1>6, <2>1 DEF Shaped
  <2>2. ASSUME NEW j, j = i - Kept(b), j \in DOMAIN c,
               r[i] = IF j = 1 /\ Kept(b) < Len(b) THEN [c[1] EXCEPT !.entry = Malformed]
                                                   ELSE c[j]
        PROVE  (r[i].entry = Header => i = 1) /\ (~r[i].newline => i = Len(r))
    <3>1. CASE j = 1 /\ Kept(b) < Len(b)
      <4>1. r[i].entry = Malformed /\ r[i].newline = c[1].newline
        BY <1>8, <2>2, <3>1
      <4>2. ~c[1].newline => j = Len(c)
        BY <1>7, <2>2, <3>1, <1>1
      <4>3. j = Len(c) => i = Len(r)
        BY <1>1, <1>2, <1>4, <2>2
      <4>q. QED
        BY <1>5, <4>1, <4>2, <4>3
    <3>2. CASE ~(j = 1 /\ Kept(b) < Len(b))
      <4>1. r[i] = c[j]
        BY <2>2, <3>2
      <4>2. ~c[j].newline => j = Len(c)
        BY <1>7, <2>2, <1>1
      <4>3. j = Len(c) => i = Len(r)
        BY <1>1, <1>2, <1>4, <2>2
      <4>4. c[j].entry = Header => j = 1 /\ b = <<>>
        BY <1>7, <2>2
      <4>5. b = <<>> => Kept(b) = 0
        BY <1>1, <1>2
      <4>6. j = 1 /\ Kept(b) = 0 => i = 1
        BY <1>1, <1>2, <2>2
      <4>q. QED
        BY <4>1, <4>2, <4>3, <4>4, <4>5, <4>6
    <3>q. QED
      BY <3>1, <3>2
  <2>q. QED
    BY <2>1, <2>2, JoinedLine
<1>10. ASSUME NEW i \in Bad(r) PROVE i \in Bad(b) \/ (i = Len(r) /\ c # ls)
  <2>0. i \in DOMAIN r /\ (r[i].entry = Malformed \/ ~r[i].newline)
    BY DEF Bad
  <2>1. CASE i \in 1..Kept(b) /\ i \in DOMAIN b /\ r[i] = b[i]
    BY <2>0, <2>1 DEF Bad
  <2>2. ASSUME NEW j, j = i - Kept(b), j \in DOMAIN c,
               r[i] = IF j = 1 /\ Kept(b) < Len(b) THEN [c[1] EXCEPT !.entry = Malformed]
                                                   ELSE c[j]
        PROVE  i \in Bad(b) \/ (i = Len(r) /\ c # ls)
    <3>1. CASE j = 1 /\ Kept(b) < Len(b)
      <4>1. i = Len(b) /\ ~b[Len(b)].newline /\ Len(b) \in DOMAIN b
        BY <1>1, <1>2, <1>3, <2>0, <2>2, <3>1
      <4>q. QED
        BY <4>1 DEF Bad
    <3>2. CASE ~(j = 1 /\ Kept(b) < Len(b))
      <4>1. r[i] = c[j]
        BY <2>2, <3>2
      <4>2. j = Len(c) /\ c # ls
        <5>1. ~(j < Len(c) \/ c = ls)
          BY <1>7, <2>0, <2>2, <4>1
        <5>2. j <= Len(c) /\ j \in 1..Len(c)
          BY <1>1, <1>7, <2>2
        <5>3. ~(j < Len(c)) /\ c # ls
          BY <5>1
        <5>4. j \in Int /\ Len(c) \in Int /\ j <= Len(c) /\ ~(j < Len(c))
          BY <1>1, <5>2, <5>3
        <5>5. j = Len(c)
          BY <5>4
        <5>q. QED
          BY <5>3, <5>5
      <4>3. j = Len(c) => i = Len(r)
        BY <1>1, <1>2, <1>4, <2>0, <2>2
      <4>q. QED
        BY <4>2, <4>3
    <3>q. QED
      BY <3>1, <3>2
  <2>q. QED
    BY <2>0, <2>1, <2>2, JoinedLine
<1>11. r # <<>>
  BY <1>4
<1>q. QED
  BY <1>9, <1>10, <1>11

(* What stays of b.                                                         *)
Survives(b, r) == Kept(b) <= Len(r) /\ \A i \in 1..Kept(b) : r[i] = b[i]

(* What is appended leaves the finished lines of a file alone.              *)
LEMMA JoinedSurvives ==
  ASSUME NEW L, NEW b \in Seq(L), NEW c \in Seq(L), NEW r \in Seq(L), Joined(b, c, r)
  PROVE  Survives(b, r)
<1>1. Kept(b) \in Nat /\ Len(c) \in Nat
  BY KeptIs
<1>q. QED
  BY <1>1 DEF Joined, Survives

(* Everything is written.                                                   *)
Written(L, b, r) ==
  r \in Seq(L) /\ r # <<>> /\ Shaped(r) /\ Survives(b, r) /\ Bad(r) \subseteq Bad(b)

(* A write that succeeds spoils no line but one that was unfinished before. *)
LEMMA WrittenIs ==
  ASSUME NEW L, LineSet(L),
         NEW b \in Seq(L), NEW ls \in Seq(L), Shaped(b), Clean(b, ls)
  PROVE  Written(L, b, Appended(b, ls)) /\ Joined(b, ls, Appended(b, ls))
<1>1. ls # <<>>
  BY DEF Clean
<1>2. PICK r : r = Appended(b, ls)
  OBVIOUS
<1>3. r \in Seq(L) /\ Joined(b, ls, r)
  BY <1>1, <1>2, AppendedIs
<1>4. CutTo(ls, ls)
  BY <1>1 DEF CutTo
<1>5. r # <<>> /\ Shaped(r) /\ Bad(r) \subseteq Bad(b)
  BY <1>3, <1>4, JoinedShape
<1>6. Survives(b, r)
  BY <1>3, JoinedSurvives
<1>q. QED
  BY <1>2, <1>3, <1>5, <1>6 DEF Written

(* The write is cut short, or nothing is written.                           *)
PartOf(L, b, ls, r) == \E c \in Seq(L) : CutTo(ls, c) /\ r = Appended(b, c)

(* What a failed write may leave is what was there, or some of the new      *)
(* lines behind it, the last perhaps cut short.                             *)
LEMMA PartialsAre ==
  ASSUME NEW L, LineSet(L),
         NEW b \in Seq(L), NEW ls \in Seq(L), NEW r \in Partials(b, ls)
  PROVE  r = b \/ PartOf(L, b, ls, r)
<1>0. Len(ls) \in Nat /\ DOMAIN ls = 1..Len(ls)
  OBVIOUS
<1>1. ASSUME NEW k \in 1..(Len(ls) - 1), NEW c, c = SubSeq(ls, 1, k), r = Appended(b, c)
      PROVE  PartOf(L, b, ls, r)
  <2>1. k \in Nat \ {0} /\ k <= Len(ls)
    BY <1>0
  <2>2. c \in Seq(L) /\ Len(c) = k /\ \A i \in 1..k : c[i] = ls[i]
    BY <1>1, <2>1, Beginning
  <2>3. DOMAIN c = 1..k /\ c # <<>>
    BY <2>1, <2>2
  <2>4. CutTo(ls, c)
    BY <2>1, <2>2, <2>3 DEF CutTo
  <2>q. QED
    BY <1>1, <2>2, <2>4 DEF PartOf
<1>2. ASSUME NEW k \in DOMAIN ls, NEW e \in {Malformed, ls[k].entry}, NEW c,
             c = Append(SubSeq(ls, 1, k - 1), Unfinished(e)), r = Appended(b, c)
      PROVE  PartOf(L, b, ls, r)
  <2>1. k \in Nat \ {0} /\ k <= Len(ls) /\ k - 1 \in Nat
    BY <1>0
  <2>2. PICK f : f = SubSeq(ls, 1, k - 1)
    OBVIOUS
  <2>3. f \in Seq(L) /\ Len(f) = k - 1 /\ \A i \in 1..k - 1 : f[i] = ls[i]
    <3>1. PICK n \in Nat : n = k - 1
      BY <2>1
    <3>2. f = SubSeq(ls, 1, n) /\ n <= Len(ls)
      BY <1>0, <2>1, <2>2, <3>1
    <3>3. f \in Seq(L) /\ Len(f) = n /\ \A i \in 1..n : f[i] = ls[i]
      BY <3>2, Beginning
    <3>q. QED
      BY <3>1, <3>3
  <2>4. PICK x : x = Unfinished(e)
    OBVIOUS
  <2>5. x \in L /\ x.entry = e
    <3>1. k \in 1..Len(ls)
      BY <1>0
    <3>2. ls[k] \in L
      BY <3>1, ElementIn
    <3>q. QED
      BY <2>4, <3>2, UnfinishedIn
  <2>6. c = Append(f, x)
    BY <1>2, <2>2, <2>4
  <2>7. /\ c \in Seq(L) /\ Len(c) = Len(f) + 1 /\ c[Len(f) + 1] = x
        /\ \A i \in 1..Len(f) : c[i] = f[i]
    <3>1. f \in Seq(L) /\ x \in L
      BY <2>3, <2>5
    <3>q. QED
      BY <2>6, <3>1
  <2>8. Len(c) = k /\ c[k] = x /\ \A i \in 1..k - 1 : c[i] = ls[i]
    BY <2>1, <2>3, <2>7
  <2>9. DOMAIN c = 1..k /\ c # <<>>
    BY <2>1, <2>7, <2>8
  <2>10. c[k].entry \in {ls[k].entry, Malformed}
    BY <2>5, <2>8
  <2>11. \A i \in 1..k : i = k \/ i \in 1..k - 1
    BY <2>1
  <2>12. \A i \in DOMAIN c : c[i].entry \in {ls[i].entry,
       Malformed} /\ (i < Len(c) => c[i] = ls[i])
    BY <2>8, <2>9, <2>10, <2>11
  <2>13. CutTo(ls, c)
    BY <2>1, <2>8, <2>9, <2>12 DEF CutTo
  <2>q. QED
    BY <1>2, <2>7, <2>13 DEF PartOf
<1>3. \/ \E k \in 1..(Len(ls) - 1) : r = Appended(b, SubSeq(ls, 1, k))
      \/ \E k \in DOMAIN ls : \E e \in {Malformed, ls[k].entry} :
           r = Appended(b, Append(SubSeq(ls, 1, k - 1), Unfinished(e)))
      \/ r = b
  BY DEF Partials
<1>q. QED
  BY <1>1, <1>2, <1>3

Partly(L, b, r) ==
  /\ r \in Seq(L) /\ (b # <<>> => r # <<>>) /\ Shaped(r) /\ Survives(b, r)
  /\ Bad(r) \subseteq Bad(b) \union {Len(r)}

(* A failed write leaves a shaped file, its finished lines, and at most one *)
(* more bad line, the last one.                                             *)
LEMMA PartlyIs ==
  ASSUME NEW L, LineSet(L),
         NEW b \in Seq(L), NEW ls \in Seq(L), Shaped(b), Clean(b, ls), NEW r \in Partials(b, ls)
  PROVE  Partly(L, b, r)
<1>1. CASE r = b
  <2>1. Kept(b) \in Nat /\ Kept(b) <= Len(b)
    BY KeptIs
  <2>q. QED
    BY <1>1, <2>1 DEF Partly, Survives
<1>2. CASE PartOf(L, b, ls, r)
  <2>1. PICK c \in Seq(L) : CutTo(ls, c) /\ r = Appended(b, c)
    BY <1>2 DEF PartOf
  <2>2. c # <<>>
    BY <2>1 DEF CutTo
  <2>3. r \in Seq(L) /\ Joined(b, c, r)
    BY <2>1, <2>2, AppendedIs
  <2>4. r # <<>> /\ Shaped(r) /\ Bad(r) \subseteq Bad(b) \union {Len(r)}
    BY <2>1, <2>3, JoinedShape
  <2>5. Survives(b, r)
    BY <2>3, JoinedSurvives
  <2>q. QED
    BY <2>3, <2>4, <2>5 DEF Partly
<1>q. QED
  BY <1>1, <1>2, PartialsAre

(* A surviving file has all its finished lines.                             *)
LEMMA FinishedSurvives ==
  ASSUME NEW L, NEW b \in Seq(L), NEW r \in Seq(L), Survives(b, r)
  PROVE  IsPrefix(Finished(b), r)
<1>1. Kept(b) \in Nat /\ Kept(b) <= Len(b) /\ Len(b) \in Nat /\ Len(r) \in Nat
  BY KeptIs
<1>2. PICK n \in Nat : n = Kept(b)
  BY <1>1
<1>3. Finished(b) = SubSeq(b, 1, n)
  <2>1. CASE b = <<>> \/ Last(b).newline
    <3>1. Finished(b) = b /\ n = Len(b)
      BY <1>2, <2>1 DEF Finished, Kept
    <3>2. SubSeq(b, 1, Len(b)) = b
      OBVIOUS
    <3>q. QED
      BY <3>1, <3>2
  <2>2. CASE ~(b = <<>> \/ Last(b).newline)
    BY <1>2, <2>2 DEF Finished, Kept, Front
  <2>q. QED
    BY <2>1, <2>2
<1>4. PICK p : p = SubSeq(b, 1, n)
  OBVIOUS
<1>5. n <= Len(b) /\ n <= Len(r) /\ \A i \in 1..n : r[i] = b[i]
  BY <1>1, <1>2 DEF Survives
<1>6. p \in Seq(L) /\ Len(p) = n /\ \A i \in 1..n : p[i] = b[i]
  BY <1>1, <1>4, <1>5
<1>7. PICK q : q = SubSeq(r, 1, n)
  OBVIOUS
<1>8. q \in Seq(L) /\ Len(q) = n /\ \A i \in 1..n : q[i] = r[i]
  BY <1>1, <1>5, <1>7
<1>9. p = q
  BY <1>5, <1>6, <1>8
<1>10. SubSeq(p, 1, n) = p
  BY <1>6
<1>q. QED
  BY <1>3, <1>4, <1>5, <1>6, <1>7, <1>9, <1>10 DEF IsPrefix

------------------------------------------------------------------------------
(* Reading a file.                                                          *)

ParsedOf(ls) == Selected([i \in DOMAIN ls |-> ls[i].entry], Entry \union {Header})

(* Parsed looks at nothing but the lines of the file.                       *)
LEMMA ParsedIs == \A f : Parsed(f) = ParsedOf(lines[f])
BY DEF Parsed, ParsedOf

(* A sequence with one element before it.                                   *)
LEMMA Prefixed ==
  ASSUME NEW T, NEW x \in T, NEW t \in Seq(T), NEW w, w = <<x>> \o t
  PROVE  /\ w \in Seq(T) /\ Len(w) = 1 + Len(t) /\ w[1] = x
         /\ \A i \in 1..Len(t) : w[1 + i] = t[i]
<1>1. PICK o \in Seq(T) : o = <<x>>
  <2>1. <<x>> \in Seq(T)
    OBVIOUS
  <2>q. QED
    BY <2>1
<1>2. Len(o) = 1 /\ o[1] = x
  BY <1>1
<1>3. w = o \o t
  BY <1>1
<1>4. w \in Seq(T) /\ Len(w) = Len(o) + Len(t)
  BY <1>3
<1>5. \A i \in 1..Len(o) : w[i] = o[i]
  BY <1>3
<1>6. \A i \in 1..Len(t) : w[Len(o) + i] = t[i]
  BY <1>3
<1>q. QED
  BY <1>2, <1>4, <1>5, <1>6

LEMMA LineIs == \A e : Line(e).entry = e /\ Line(e).newline = TRUE
BY DEF Line

(* The file of a session is the header and a line for each entry.           *)
LEMMA LinesOfIs ==
  ASSUME NEW T, NEW es \in Seq(T)
  PROVE  /\ Len(LinesOf(es)) = Len(es) + 1 /\ DOMAIN LinesOf(es) = 1..Len(es) + 1
         /\ LinesOf(es)[1] = Line(Header)
         /\ \A i \in DOMAIN es : LinesOf(es)[i + 1] = Line(es[i])
         /\ LinesOf(es) \in Seq({Line(e) : e \in T \union {Header}})
<1>1. PICK K : K = {Line(e) : e \in T \union {Header}}
  OBVIOUS
<1>2. PICK t : t = [i \in DOMAIN es |-> Line(es[i])]
  OBVIOUS
<1>3. \A i \in DOMAIN es : es[i] \in T
  OBVIOUS
<1>4. DOMAIN es = 1..Len(es) /\ Len(es) \in Nat
  OBVIOUS
<1>5. t \in Seq(K) /\ Len(t) = Len(es) /\ \A i \in DOMAIN es : t[i] = Line(es[i])
  <2>1. \A i \in 1..Len(es) : Line(es[i]) \in K
    BY <1>1, <1>3, <1>4
  <2>2. t = [i \in 1..Len(es) |-> Line(es[i])]
    BY <1>2, <1>4
  <2>q. QED
    BY <1>4, <2>1, <2>2
<1>6. PICK h : h = Line(Header)
  OBVIOUS
<1>7. PICK one : one = <<h>>
  OBVIOUS
<1>8. h \in K
  BY <1>1, <1>6
<1>9. one \in Seq(K) /\ Len(one) = 1 /\ one[1] = h
  BY <1>7, <1>8
<1>10. PICK all : all = one \o t
  OBVIOUS
<1>11. /\ all \in Seq(K) /\ Len(all) = 1 + Len(t) /\ all[1] = h
       /\ \A i \in 1..Len(t) : all[1 + i] = t[i]
  BY <1>5, <1>7, <1>8, <1>10, Prefixed
<1>12. all = LinesOf(es)
  BY <1>2, <1>6, <1>7, <1>10 DEF LinesOf
<1>13. \A i \in DOMAIN es : all[i + 1] = Line(es[i])
  BY <1>4, <1>5, <1>11
<1>q. QED
  BY <1>1, <1>4, <1>5, <1>6, <1>11, <1>12, <1>13

(* A header and entries are read as they were written.                      *)
LEMMA LinesOfParse ==
  ASSUME NEW es \in Seq(Entry)
  PROVE  /\ ParsedOf(LinesOf(es)) # <<>> /\ Head(ParsedOf(LinesOf(es))) = Header
         /\ Tail(ParsedOf(LinesOf(es))) = es
<1>1. PICK E : E = Entry \union {Header}
  OBVIOUS
<1>2. PICK ls : ls = LinesOf(es)
  OBVIOUS
<1>3. /\ Len(ls) = Len(es) + 1 /\ DOMAIN ls = 1..Len(es) + 1 /\ ls[1] = Line(Header)
      /\ \A i \in DOMAIN es : ls[i + 1] = Line(es[i])
  BY <1>2, LinesOfIs
<1>4. DOMAIN es = 1..Len(es) /\ Len(es) \in Nat /\ \A i \in DOMAIN es : es[i] \in Entry
  OBVIOUS
<1>5. PICK p : p = [i \in DOMAIN ls |-> ls[i].entry]
  OBVIOUS
<1>6. p[1] = Header /\ \A i \in DOMAIN es : p[i + 1] = es[i]
  <2>1. ls[1].entry = Header /\ \A i \in DOMAIN es : ls[i + 1].entry = es[i]
    BY <1>3, LineIs
  <2>2. 1 \in DOMAIN ls /\ \A i \in DOMAIN es : i + 1 \in DOMAIN ls
    BY <1>3, <1>4
  <2>q. QED
    BY <1>5, <2>1, <2>2
<1>7. \A i \in 1..Len(es) + 1 : i = 1 \/ (i - 1 \in DOMAIN es /\ (i - 1) + 1 = i)
  BY <1>4
<1>8. \A i \in 1..Len(es) + 1 : p[i] \in E
  BY <1>1, <1>4, <1>6, <1>7
<1>9. p \in Seq(E) /\ Len(p) = Len(es) + 1
  <2>1. p = [i \in 1..Len(es) + 1 |-> p[i]] /\ Len(es) + 1 \in Nat
    BY <1>3, <1>4, <1>5
  <2>q. QED
    BY <1>8, <2>1
<1>10. Selected(p, E) = p
  BY <1>9, SelectedAll
<1>11. ParsedOf(ls) = p
  BY <1>1, <1>5, <1>10 DEF ParsedOf
<1>12. p # <<>> /\ Head(p) = Header
  BY <1>4, <1>6, <1>9
<1>13. Tail(p) = es
  <2>1. PICK t : t = Tail(p)
    OBVIOUS
  <2>2. t \in Seq(E) /\ Len(t) = Len(es) /\ \A i \in 1..Len(es) : t[i] = p[i + 1]
    BY <1>4, <1>9, <1>12, <2>1
  <2>3. \A i \in 1..Len(es) : t[i] = es[i]
    BY <1>4, <1>6, <2>2
  <2>4. es \in Seq(E)
    BY <1>1
  <2>5. t = es
    BY <2>2, <2>3, <2>4
  <2>q. QED
    BY <2>1, <2>5
<1>q. QED
  BY <1>2, <1>11, <1>12, <1>13

(* What is read behind a header are entries.                                *)
LEMMA ReadsEntries ==
  ASSUME NEW S \in SUBSET Entry, \A e \in S : e.id # 0,
         NEW L, L = [entry : S \union {Header, Malformed}, newline : BOOLEAN],
         NEW ls \in Seq(L), Shaped(ls), ParsedOf(ls) # <<>>, Head(ParsedOf(ls)) = Header
  PROVE  ls # <<>> /\ Tail(ParsedOf(ls)) \in Seq(S)
<1>1. PICK E : E = Entry \union {Header}
  OBVIOUS
<1>2. PICK p : p = [i \in DOMAIN ls |-> ls[i].entry]
  OBVIOUS
<1>3. PICK R : R = S \union {Malformed}
  OBVIOUS
<1>3a. PICK A : A = S \union {Header, Malformed}
  OBVIOUS
<1>4. /\ DOMAIN ls = 1..Len(ls) /\ Len(ls) \in Nat
      /\ \A i \in DOMAIN ls : p[i] \in A /\ p[i] = ls[i].entry
  <2>1. DOMAIN ls = 1..Len(ls) /\ Len(ls) \in Nat
    OBVIOUS
  <2>2. ASSUME NEW i \in DOMAIN ls PROVE p[i] \in A /\ p[i] = ls[i].entry
    <3>1. ls[i] \in L
      BY <2>1, ElementIn
    <3>q. QED
      BY <1>2, <1>3a, <3>1
  <2>q. QED
    BY <2>1, <2>2
<1>5. ParsedOf(ls) = Selected(p, E)
  BY <1>1, <1>2 DEF ParsedOf
<1>6. p \in Seq(A) /\ Len(p) = Len(ls)
  <2>1. p = [i \in 1..Len(ls) |-> p[i]]
    BY <1>2, <1>4
  <2>q. QED
    BY <1>4, <2>1
<1>7. p # <<>>
  BY <1>5, SelectedEmpty
<1>8. Len(p) \in Nat \ {0} /\ p[1] \in A
  BY <1>6, <1>7
<1>9. PICK t : t = Tail(p)
  OBVIOUS
<1>10. t \in Seq(A) /\ Len(t) = Len(p) - 1 /\ \A i \in 1..Len(p) - 1 : t[i] = p[i + 1]
  BY <1>6, <1>7, <1>9
<1>11. t \in Seq(R)
  <2>1. ASSUME NEW i \in 1..Len(t) PROVE t[i] \in R
    <3>1. i + 1 \in DOMAIN ls /\ i + 1 # 1 /\ t[i] = p[i + 1]
      BY <1>4, <1>6, <1>8, <1>10
    <3>2. p[i + 1] \in A /\ p[i + 1] = ls[i + 1].entry
      BY <1>4, <3>1
    <3>3. ls[i + 1].entry # Header
      BY <3>1 DEF Shaped
    <3>q. QED
      BY <1>3, <1>3a, <3>1, <3>2, <3>3
  <2>2. t = [i \in 1..Len(t) |-> t[i]] /\ Len(t) \in Nat
    BY <1>10
  <2>q. QED
    BY <2>1, <2>2
<1>12. PICK o : o = <<p[1]>>
  OBVIOUS
<1>13. o \in Seq(A) /\ Len(o) = 1 /\ o[1] = p[1]
  BY <1>8, <1>12
<1>14. p = o \o t
  <2>1. PICK w : w = o \o t
    OBVIOUS
  <2>2. /\ w \in Seq(A) /\ Len(w) = 1 + Len(t) /\ w[1] = o[1]
        /\ \A i \in 1..Len(t) : w[1 + i] = t[i]
    <3>1. w = <<p[1]>> \o t
      BY <1>12, <2>1
    <3>q. QED
      BY <1>8, <1>10, <1>13, <3>1, Prefixed
  <2>3. \A i \in 1..Len(p) : i = 1 \/ (i - 1 \in 1..Len(t) /\ 1 + (i - 1) = i /\ (i - 1) + 1 = i)
    BY <1>8, <1>10
  <2>4. ASSUME NEW i \in 1..Len(p) PROVE w[i] = p[i]
    <3>1. CASE i = 1
      BY <1>13, <2>2, <3>1
    <3>2. CASE i # 1
      <4>1. i - 1 \in 1..Len(t) /\ 1 + (i - 1) = i /\ (i - 1) + 1 = i
        BY <2>3, <3>2
      <4>2. w[i] = t[i - 1] /\ t[i - 1] = p[i]
        BY <1>10, <2>2, <4>1
      <4>q. QED
        BY <4>2
    <3>q. QED
      BY <3>1, <3>2
  <2>5. Len(w) = Len(p)
    BY <1>8, <1>10, <2>2
  <2>6. w = p
    BY <1>6, <2>2, <2>4, <2>5
  <2>q. QED
    BY <2>1, <2>6
<1>15. Selected(p, E) = Selected(o, E) \o Selected(t, E)
  BY <1>10, <1>13, <1>14, SelectedConcat
<1>16. R \intersect E = S
  BY <1>1, <1>3 DEF Malformed, Header, Entry, Kinds, PlainKinds
<1>17. PICK q : q = Selected(t, E)
  OBVIOUS
<1>18. q \in Seq(S)
  BY <1>11, <1>16, <1>17, SelectedIn
<1>19. Header \notin S
  BY DEF Header
<1>20. CASE p[1] \in E
  <2>1. o \in Seq(E)
    BY <1>12, <1>20
  <2>2. Selected(o, E) = o
    BY <2>1, SelectedAll
  <2>3. Selected(p, E) = <<p[1]>> \o q
    BY <1>12, <1>15, <1>17, <2>2
  <2>4. Tail(<<p[1]>> \o q) = q
    BY <1>18
  <2>q. QED
    BY <1>4, <1>5, <1>6, <1>8, <1>18, <2>3, <2>4
<1>21. CASE p[1] \notin E
  <2>1. PICK M : M = {p[1]}
    OBVIOUS
  <2>2. o \in Seq(M) /\ M \intersect E = {}
    BY <1>12, <1>21, <2>1
  <2>3. Selected(o, E) = <<>>
    BY <2>2, SelectedNone
  <2>4. Selected(p, E) = q
    BY <1>15, <1>17, <1>18, <2>3
  <2>5. q # <<>> /\ Head(q) = Header
    BY <1>5, <2>4
  <2>6. Head(q) \in S
    BY <1>18, <2>5
  <2>q. QED
    BY <1>19, <2>5, <2>6
<1>q. QED
  BY <1>20, <1>21

(* What survives of a file that was whole is read again.                    *)
LEMMA ReadAgain ==
  ASSUME NEW T, NEW es \in Seq(T), NEW fs \in Seq(T), Survives(LinesOf(es), LinesOf(fs))
  PROVE  Range(es) \subseteq Range(fs)
<1>1. PICK b : b = LinesOf(es)
  OBVIOUS
<1>2. PICK r : r = LinesOf(fs)
  OBVIOUS
<1>3. /\ Len(b) = Len(es) + 1 /\ DOMAIN b = 1..Len(es) + 1 /\ b[1] = Line(Header)
      /\ \A i \in DOMAIN es : b[i + 1] = Line(es[i])
  BY <1>1, LinesOfIs
<1>4. Len(r) = Len(fs) + 1 /\ \A i \in DOMAIN fs : r[i + 1] = Line(fs[i])
  BY <1>2, LinesOfIs
<1>5. /\ DOMAIN es = 1..Len(es) /\ Len(es) \in Nat /\ DOMAIN fs = 1..Len(fs) /\ Len(fs) \in Nat
  OBVIOUS
<1>6. \A e : Line(e).newline = TRUE /\ Line(e).entry = e
  BY DEF Line
<1>7. Last(b).newline
  <2>1. CASE Len(es) = 0
    BY <1>3, <1>6, <2>1 DEF Last
  <2>2. CASE Len(es) # 0
    <3>1. Len(es) \in DOMAIN es
      BY <1>5, <2>2
    <3>2. b[Len(b)] = Line(es[Len(es)])
      BY <1>3, <3>1
    <3>q. QED
      BY <1>6, <3>2 DEF Last
  <2>q. QED
    BY <2>1, <2>2
<1>8. Kept(b) = Len(es) + 1
  BY <1>3, <1>7 DEF Kept
<1>9. Len(es) + 1 <= Len(r) /\ \A i \in 1..Len(es) + 1 : r[i] = b[i]
  BY <1>1, <1>2, <1>8 DEF Survives
<1>10. ASSUME NEW i \in DOMAIN es PROVE i \in DOMAIN fs /\ fs[i] = es[i]
  <2>1. i \in DOMAIN fs /\ i + 1 \in 1..Len(es) + 1
    BY <1>4, <1>5, <1>9
  <2>2. Line(fs[i]) = Line(es[i])
    BY <1>3, <1>4, <1>9, <2>1
  <2>q. QED
    BY <1>6, <2>1, <2>2
<1>q. QED
  BY <1>10 DEF Range

------------------------------------------------------------------------------
(* A step on a file, and what it leaves of the invariant.                   *)

(* The lines of the model are lines in the sense of the lemmas above, now   *)
(* and after a step.                                                        *)
LEMMA StoredLines == LineSet(StoredLine)
<1>1. PICK E : E = Stored \union {Header, Malformed}
  OBVIOUS
<1>2. Malformed \in E /\ StoredLine = [entry : E, newline : BOOLEAN]
  BY <1>1 DEF StoredLine
<1>q. QED
  BY <1>2 DEF LineSet

LEMMA LaterLines == (LineSet(StoredLine))'
BY StoredLines, PTL

(* A larger set has more sequences.                                         *)
LEMMA SeqGrows ==
  ASSUME NEW S, NEW T, S \subseteq T
  PROVE  Seq(S) \subseteq Seq(T)
OBVIOUS

(* What was handed out stays handed out.                                    *)
LEMMA StoredGrows ==
  ASSUME ids \in Nat, ids' \in Nat, ids <= ids'
  PROVE  /\ Stored \subseteq Stored' /\ Seq(Stored) \subseteq Seq(Stored')
         /\ StoredLine \subseteq StoredLine' /\ Seq(StoredLine) \subseteq Seq(StoredLine')
<1>1. Stored \subseteq Stored'
  <2>1. \A i \in 1..ids : i \in 1..ids'
    OBVIOUS
  <2>q. QED
    BY <2>1 DEF Stored
<1>2. StoredLine \subseteq StoredLine'
  BY <1>1 DEF StoredLine
<1>q. QED
  BY <1>1, <1>2, SeqGrows

Changed(f, r) == exists' = exists \union {f} /\ lines' = [lines EXCEPT ![f] = r]

(* Every file keeps its finished lines.                                     *)
Grown ==
  \A g \in Files : Survives(lines[g], lines'[g]) /\ (lines[g] # <<>> => lines'[g] # <<>>)

(* A file that is not touched survives.                                     *)
LEMMA SurvivesSame ==
  ASSUME NEW T, NEW b \in Seq(T)
  PROVE  Survives(b, b)
<1>1. Kept(b) \in Nat /\ Kept(b) <= Len(b)
  BY KeptIs
<1>q. QED
  BY <1>1 DEF Survives

(* A file has finitely many bad lines, so they can be counted.              *)
LEMMA BadIsFinite ==
  ASSUME NEW T, NEW b \in Seq(T)
  PROVE  IsFiniteSet(Bad(b)) /\ Cardinality(Bad(b)) \in Nat
<1>1. Bad(b) \subseteq 1..Len(b) /\ Len(b) \in Nat
  BY DEF Bad
<1>2. IsFiniteSet(1..Len(b))
  BY <1>1, FS_Interval
<1>3. IsFiniteSet(Bad(b))
  BY <1>1, <1>2, FS_Subset
<1>q. QED
  BY <1>3, FS_CardinalityType

(* One more, or none.                                                       *)
LEMMA BadGrows ==
  ASSUME NEW T, NEW b \in Seq(T), NEW r \in Seq(T), NEW n \in Nat, Cardinality(Bad(b)) <= n
  PROVE  /\ Bad(r) \subseteq Bad(b) => Cardinality(Bad(r)) <= n
         /\ Bad(r) \subseteq Bad(b) \union {Len(r)} => Cardinality(Bad(r)) <= n + 1
<1>1. IsFiniteSet(Bad(b)) /\ Cardinality(Bad(b)) \in Nat
  BY BadIsFinite
<1>2. Cardinality(Bad(r)) \in Nat
  BY BadIsFinite
<1>3. ASSUME Bad(r) \subseteq Bad(b) PROVE Cardinality(Bad(r)) <= n
  <2>1. Cardinality(Bad(r)) <= Cardinality(Bad(b))
    BY <1>1, <1>3, FS_Subset
  <2>q. QED
    BY <1>1, <1>2, <2>1
<1>4. ASSUME Bad(r) \subseteq Bad(b) \union {Len(r)} PROVE Cardinality(Bad(r)) <= n + 1
  <2>1. PICK U : U = Bad(b) \union {Len(r)}
    OBVIOUS
  <2>2. /\ IsFiniteSet(U)
        /\ Cardinality(U) = IF Len(r) \in Bad(b) THEN Cardinality(Bad(b)) ELSE Cardinality(Bad(b)) + 1
    BY <1>1, <2>1, FS_AddElement
  <2>3. Cardinality(Bad(r)) <= Cardinality(U)
    BY <1>4, <2>1, <2>2, FS_Subset
  <2>q. QED
    BY <1>1, <1>2, <2>2, <2>3
<1>q. QED
  BY <1>3, <1>4

(* One file changes: when its new lines are shaped, keep the finished ones  *)
(* and have at most one more bad line per new failure, the whole disk is as *)
(* it must be.                                                              *)
LEMMA DiskStep ==
  ASSUME DiskType, FileInv, FaultInv, names' \in Nat, names <= names', ids' \in Nat, ids <= ids',
         faults' \in Nat,
         NEW f \in Files, f <= names', NEW r, Changed(f, r), Partly(StoredLine', lines[f], r),
         \/ faults' = faults /\ Bad(r) \subseteq Bad(lines[f])
         \/ faults' = faults + 1
  PROVE  /\ lines' \in [Files -> Seq(StoredLine')] /\ exists' \subseteq 1..names'
         /\ FileInv' /\ FaultInv' /\ Grown
<1>0. PICK L : L = StoredLine'
  OBVIOUS
<1>1. lines \in [Files -> Seq(L)]
  <2>1. Seq(StoredLine) \subseteq Seq(StoredLine')
    BY StoredGrows DEF DiskType
  <2>q. QED
    BY <1>0, <2>1 DEF DiskType
<1>2. /\ r \in Seq(L) /\ (lines[f] # <<>> => r # <<>>) /\ Shaped(r) /\ Survives(lines[f], r)
      /\ Bad(r) \subseteq Bad(lines[f]) \union {Len(r)}
  BY <1>0 DEF Partly
<1>3. \A g \in Files : lines'[g] = IF g = f THEN r ELSE lines[g]
  BY <1>1 DEF Changed
<1>4. lines' \in [Files -> Seq(L)]
  BY <1>1, <1>2 DEF Changed
<1>5. exists' \subseteq 1..names'
  <2>1. names \in Nat /\ exists \subseteq 1..names /\ f \in Nat /\ 1 <= f
    BY DEF DiskType, Files
  <2>q. QED
    BY <2>1 DEF Changed
<1>6. FileInv'
  <2>1. ASSUME NEW g \in Files PROVE Shaped(lines'[g]) /\ (g \notin exists' => lines'[g] = <<>>)
    <3>1. CASE g = f
      <4>1. f \in exists'
        BY DEF Changed
      <4>q. QED
        BY <1>2, <1>3, <3>1, <4>1
    <3>2. CASE g # f
      <4>1. Shaped(lines[g]) /\ (g \notin exists => lines[g] = <<>>)
        BY DEF FileInv
      <4>2. lines'[g] = lines[g] /\ (g \notin exists' => g \notin exists)
        BY <1>3, <3>2 DEF Changed
      <4>q. QED
        BY <4>1, <4>2
    <3>q. QED
      BY <3>1, <3>2
  <2>q. QED
    BY <2>1 DEF FileInv, Shaped, Files
<1>7. FaultInv'
  <2>0. faults \in Nat /\ faults <= faults'
    BY DEF DiskType
  <2>1. ASSUME NEW g \in Files PROVE Cardinality(Bad(lines'[g])) <= faults'
    <3>0. lines[g] \in Seq(L) /\ Cardinality(Bad(lines[g])) <= faults
      BY <1>1 DEF FaultInv
    <3>1. CASE g = f
      <4>1. /\ Bad(r) \subseteq Bad(lines[g]) => Cardinality(Bad(r)) <= faults
            /\ Cardinality(Bad(r)) <= faults + 1
        BY <1>2, <2>0, <3>0, <3>1, BadGrows
      <4>q. QED
        BY <1>3, <3>1, <4>1
    <3>2. CASE g # f
      <4>1. Cardinality(Bad(lines[g])) \in Nat
        BY <3>0, BadIsFinite
      <4>q. QED
        BY <1>3, <2>0, <3>0, <3>2, <4>1
    <3>q. QED
      BY <3>1, <3>2
  <2>q. QED
    BY <2>1 DEF FaultInv, Bad, Files
<1>8. Grown
  <2>1. ASSUME NEW g \in Files
        PROVE  Survives(lines[g], lines'[g]) /\ (lines[g] # <<>> => lines'[g] # <<>>)
    <3>1. CASE g = f
      BY <1>2, <1>3, <3>1
    <3>2. CASE g # f
      <4>1. lines[g] \in Seq(L) /\ lines'[g] = lines[g]
        BY <1>1, <1>3, <3>2
      <4>2. Survives(lines[g], lines[g])
        BY <4>1, SurvivesSame
      <4>q. QED
        BY <4>1, <4>2
    <3>q. QED
      BY <3>1, <3>2
  <2>q. QED
    BY <2>1 DEF Grown
<1>q. QED
  BY <1>0, <1>4, <1>5, <1>6, <1>7, <1>8

------------------------------------------------------------------------------
(* What the other managers know.                                            *)

(* Loaded and Loadable look at nothing but the lines of the file, and       *)
(* whether it is there.                                                     *)
LEMMA LoadedIs ==
  \A f : Loaded(f) = Tail(ParsedOf(lines[f]))
BY ParsedIs DEF Loaded

LEMMA LoadableIs ==
  \A f : Loadable(f) <=> /\ f \in exists /\ ParsedOf(lines[f]) # <<>>
                         /\ Head(ParsedOf(lines[f])) = Header
BY ParsedIs DEF Loadable

(* What is loaded from a shaped file are entries that were handed out.      *)
LEMMA LoadedType ==
  ASSUME DiskType, FileInv, NEW f \in Files, Loadable(f)
  PROVE  lines[f] # <<>> /\ Loaded(f) \in Seq(Stored)
<1>1. PICK S : S = Stored
  OBVIOUS
<1>2. PICK L : L = [entry : S \union {Header, Malformed}, newline : BOOLEAN]
  OBVIOUS
<1>3. S \in SUBSET Entry /\ \A e \in S : e.id # 0
  <2>1. ids \in Nat
    BY DEF DiskType
  <2>q. QED
    BY <1>1, <2>1 DEF Stored
<1>4. PICK ls : ls = lines[f]
  OBVIOUS
<1>5. ls \in Seq(L)
  BY <1>1, <1>2, <1>4 DEF DiskType, StoredLine
<1>6. Shaped(ls)
  BY <1>4 DEF FileInv
<1>7. ParsedOf(ls) # <<>> /\ Head(ParsedOf(ls)) = Header
  BY <1>4, LoadableIs
<1>8. ls # <<>> /\ Tail(ParsedOf(ls)) \in Seq(S)
  BY <1>2, <1>3, <1>5, <1>6, <1>7, ReadsEntries
<1>q. QED
  BY <1>1, <1>4, <1>8, LoadedIs

LEMMA StoredAreEntries == Stored \subseteq Entry /\ Seq(Stored) \subseteq Seq(Entry)
<1>1. Stored \subseteq Entry
  BY DEF Stored
<1>q. QED
  BY <1>1, SeqGrows

(* A file that was written as a tree of entries is whole.                   *)
LEMMA WrittenWhole ==
  \A f : \A es \in Seq(Entry) :
    f \in exists /\ lines[f] = LinesOf(es) => Loadable(f) /\ Loaded(f) = es /\ (Tree(es) => Whole(f))
<1> SUFFICES ASSUME NEW f, NEW es \in Seq(Entry), f \in exists, lines[f] = LinesOf(es)
             PROVE  Loadable(f) /\ Loaded(f) = es /\ (Tree(es) => Whole(f))
  OBVIOUS
<1>1. ParsedOf(lines[f]) # <<>> /\ Head(ParsedOf(lines[f])) = Header /\ Tail(ParsedOf(lines[f])) = es
  BY LinesOfParse
<1>2. Loadable(f)
  BY <1>1, LoadableIs
<1>3. Loaded(f) = es
  BY <1>1, LoadedIs
<1>q. QED
  BY <1>2, <1>3 DEF Whole

(* The same facts after a step.                                             *)
LEMMA LaterFacts ==
  /\ (\A f : \A es \in Seq(Entry) :
        f \in exists /\ lines[f] = LinesOf(es) => Loadable(f) /\ Loaded(f) = es /\ (Tree(es) => Whole(f)))'
  /\ (Stored \subseteq Entry /\ Seq(Stored) \subseteq Seq(Entry))'
BY WrittenWhole, StoredAreEntries, PTL

LEMMA LaterLoadedType ==
  (DiskType /\ FileInv => \A f \in Files : Loadable(f) => lines[f] # <<>> /\ Loaded(f) \in Seq(Stored))'
<1>1. DiskType /\ FileInv => \A f \in Files : Loadable(f) => lines[f] # <<>> /\ Loaded(f) \in Seq(Stored)
  BY LoadedType
<1>q. QED
  BY <1>1, PTL

(* The files that are whole stay so, and nothing that was written is lost.  *)
Continues ==
  /\ names <= names' /\ ids <= ids' /\ exists \subseteq exists' /\ Grown
  /\ \A g \in exists : lines[g] # <<>> /\ g \notin damaged' => g \notin damaged

(* What a manager knows stays right when files only grow.                   *)
LEMMA Others ==
  ASSUME DiskInv, DiskInv', Continues, NEW s \in Session, SessionOK(s)
  PROVE  s \in Session' /\ SessionOK(s)'
<1>0. /\ names \in Nat /\ ids \in Nat /\ names' \in Nat /\ ids' \in Nat /\ names <= names' /\ ids <= ids'
      /\ exists \subseteq Files /\ exists \subseteq 1..names /\ Files = 1..MaxFiles
  BY BoundAssumption DEF DiskInv, DiskType, Continues, Files
<1>1. s \in Session'
  <2>1. Seq(Stored) \subseteq Seq(Stored')
    BY <1>0, StoredGrows
  <2>2. 0..names \subseteq 0..names'
    BY <1>0
  <2>q. QED
    BY <2>1, <2>2 DEF Session
<1>2. ASSUME s.flushed
      PROVE  s.file \in exists' /\ lines'[s.file] # <<>> /\ (s.file \notin damaged' => s.file \notin damaged)
  <2>1. s.file \in exists /\ lines[s.file] # <<>> /\ s.file \in Files
    BY <1>0, <1>2 DEF SessionOK
  <2>q. QED
    BY <2>1 DEF Continues, Grown
<1>3. ASSUME s.flushed, s.file \notin damaged'
      PROVE  Range(s.entries) \subseteq Range(Loaded(s.file)')
  <2>1. s.file \in exists /\ s.file \in exists' /\ s.file \in Files /\ s.file \notin damaged
    BY <1>0, <1>2, <1>3 DEF SessionOK
  <2>2. Whole(s.file) /\ Whole(s.file)'
    BY <1>3, <2>1 DEF DiskInv, WholeInv
  <2>3. PICK es : es = Loaded(s.file)
    OBVIOUS
  <2>4. PICK fs : fs = Loaded(s.file)'
    OBVIOUS
  <2>5. es \in Seq(Entry) /\ lines[s.file] = LinesOf(es)
    <3>1. Loaded(s.file) \in Seq(Stored)
      BY <2>1, <2>2, LoadedType DEF DiskInv, Whole
    <3>q. QED
      BY <2>2, <2>3, <3>1, StoredAreEntries DEF Whole
  <2>6. fs \in Seq(Entry) /\ lines'[s.file] = LinesOf(fs)
    <3>1. Loadable(s.file)' /\ lines'[s.file] = LinesOf(Loaded(s.file)')
      BY <2>2 DEF Whole, LinesOf
    <3>2. Files' = Files
      BY DEF Files
    <3>3. Loaded(s.file)' \in Seq(Stored')
      BY <2>1, <3>1, <3>2, LaterLoadedType DEF DiskInv
    <3>q. QED
      BY <2>4, <3>1, <3>3, LaterFacts
  <2>7. Survives(LinesOf(es), LinesOf(fs))
    BY <2>1, <2>5, <2>6 DEF Continues, Grown
  <2>8. Range(es) \subseteq Range(fs)
    BY <2>5, <2>6, <2>7, ReadAgain
  <2>9. Range(s.entries) \subseteq Range(es)
    BY <1>3, <2>1, <2>3 DEF SessionOK
  <2>q. QED
    BY <2>4, <2>8, <2>9
<1>4. s.leaf \in IdsOf(s.entries) \union {0}
  BY DEF SessionOK
<1>5. ~s.flushed \/ s.file \notin damaged' => Tree(s.entries)
  BY <1>2 DEF SessionOK
<1>6. s.file /= 0 /\ Answered(s.entries) /\ ~s.failed => s.flushed
  BY DEF SessionOK
<1>q. QED
  BY <1>1, <1>2, <1>3, <1>4, <1>5, <1>6 DEF SessionOK, IdsOf, Tree, ParentsFirst, Unique, Range,
     Answered

(* A file nobody writes to is what it was.                                  *)
LEMMA StaysWhole ==
  ASSUME DiskInv, NEW g \in Files, Whole(g), lines'[g] = lines[g], g \in exists'
  PROVE  Whole(g)'
<1>1. PICK gs : gs = Loaded(g)
  OBVIOUS
<1>2. gs \in Seq(Entry) /\ lines'[g] = LinesOf(gs) /\ Tree(gs)
  <2>1. Loaded(g) \in Seq(Stored)
    BY LoadedType DEF DiskInv, Whole
  <2>q. QED
    BY <1>1, <2>1, StoredAreEntries DEF Whole
<1>q. QED
  BY <1>2, LaterFacts DEF LinesOf, Tree, ParentsFirst, Unique

(* A step that writes nothing.                                              *)
LEMMA NothingWritten ==
  ASSUME DiskInv, UNCHANGED <<disk, faults, damaged>>, names' \in 0..MaxFiles, names <= names',
         ids' \in Nat, ids <= ids'
  PROVE  DiskInv' /\ Continues
<1>1. /\ exists' = exists /\ lines' = lines /\ faults' = faults /\ damaged' = damaged
  BY DEF disk
<1>2. DiskType'
  <2>1. Seq(StoredLine) \subseteq Seq(StoredLine')
    BY StoredGrows DEF DiskInv, DiskType
  <2>2. lines' \in [Files -> Seq(StoredLine')]
    BY <1>1, <2>1 DEF DiskInv, DiskType
  <2>3. exists' \subseteq 1..names'
    BY <1>1 DEF DiskInv, DiskType
  <2>q. QED
    BY <1>1, <2>2, <2>3 DEF DiskInv, DiskType, Files
<1>3. FileInv'
  BY <1>1 DEF DiskInv, FileInv, Shaped, Files
<1>4. WholeInv'
  <2>1. ASSUME NEW g \in exists', g \notin damaged' PROVE Whole(g)'
    BY <1>1, <2>1, StaysWhole, BoundAssumption DEF DiskInv, DiskType, WholeInv, Files
  <2>q. QED
    BY <2>1 DEF WholeInv
<1>5. FaultInv'
  BY <1>1 DEF DiskInv, FaultInv, Bad, Files
<1>6. Grown
  <2>1. ASSUME NEW g \in Files PROVE Survives(lines[g], lines'[g])
    <3>1. lines[g] \in Seq(StoredLine)
      BY DEF DiskInv, DiskType
    <3>q. QED
      BY <1>1, <3>1, SurvivesSame
  <2>q. QED
    BY <1>1, <2>1 DEF Grown
<1>q. QED
  BY <1>1, <1>2, <1>3, <1>4, <1>5, <1>6 DEF Continues, DiskInv

(* A step that writes the lines ls to f: what it leaves when all is         *)
(* written, and when not.                                                   *)
WholeWrite(m, f, done, harmed, es) ==
  /\ mem' = [mem EXCEPT ![m] = done] /\ damaged' = harmed /\ lines'[f] # <<>>
  /\ f \notin damaged' => Loaded(f)' = es
FailedWrite(m, f, thrown) ==
  /\ mem' = [mem EXCEPT ![m] = thrown] \/ mem' = [mem EXCEPT ![m] = Closed]
  /\ f \in damaged'

(* The file f as the write finds it and should leave it.                    *)
Writable(f, ls, harmed, es) ==
  /\ Clean(lines[f], ls)
  /\ harmed \subseteq exists \union {f} /\ damaged \ {f} \subseteq harmed
  /\ f \in damaged /\ lines[f] # <<>> => f \in harmed
  /\ f \notin harmed => Appended(lines[f], ls) = LinesOf(es) /\ Tree(es)

(* A write to one file, whole or failed, keeps the disk as it must be.      *)
LEMMA SomethingWritten ==
  ASSUME DiskInv, names' \in 0..MaxFiles, names <= names', ids' \in Nat, ids <= ids',
         NEW m, NEW f \in Files, f <= names', NEW ls \in Seq(StoredLine'), NEW es \in Seq(Entry),
         NEW harmed, Writable(f, ls, harmed, es),
         NEW done, NEW thrown, Write(m, f, lines[f], ls, done, thrown, harmed)
  PROVE  /\ DiskInv' /\ Continues /\ f \in exists'
         /\ WholeWrite(m, f, done, harmed, es) \/ FailedWrite(m, f, thrown)
<1>0. PICK L : L = StoredLine'
  OBVIOUS
<1>1. LineSet(L)
  BY <1>0, LaterLines
<1>2. PICK b : b = lines[f]
  OBVIOUS
<1>3. b \in Seq(L) /\ ls \in Seq(L)
  <2>1. Seq(StoredLine) \subseteq Seq(StoredLine')
    BY StoredGrows DEF DiskInv, DiskType
  <2>q. QED
    BY <1>0, <1>2, <2>1 DEF DiskInv, DiskType
<1>4. Shaped(b) /\ Clean(b, ls)
  BY <1>2 DEF DiskInv, FileInv, Writable
<1>5. f \in exists' /\ exists \subseteq exists'
  BY DEF Write
<1>6. CASE /\ lines' = [lines EXCEPT ![f] = Appended(b, ls)]
           /\ mem' = [mem EXCEPT ![m] = done]
           /\ damaged' = harmed /\ UNCHANGED faults
  <2>1. PICK r : r = Appended(b, ls)
    OBVIOUS
  <2>2. Written(L, b, r)
    BY <1>1, <1>3, <1>4, <2>1, WrittenIs
  <2>3. Partly(L, b, r) /\ Bad(r) \subseteq Bad(b) /\ r # <<>>
    BY <2>2 DEF Written, Partly
  <2>4. Changed(f, r)
    BY <1>6, <2>1 DEF Changed, Write
  <2>5. faults' = faults /\ faults' \in Nat
    BY <1>6 DEF DiskInv, DiskType
  <2>6. /\ lines' \in [Files -> Seq(StoredLine')] /\ exists' \subseteq 1..names'
        /\ FileInv' /\ FaultInv' /\ Grown
    BY <1>0, <1>2, <2>3, <2>4, <2>5, DiskStep DEF DiskInv
  <2>7. damaged' = harmed /\ harmed \subseteq exists'
    BY <1>5, <1>6 DEF Writable
  <2>8. DiskType'
    BY <2>5, <2>6, <2>7 DEF DiskType, DiskInv, Files
  <2>9. \A g \in Files : lines'[g] = IF g = f THEN r ELSE lines[g]
    BY <2>4 DEF Changed, DiskInv, DiskType
  <2>10. f \notin damaged' => Loaded(f)' = es /\ Whole(f)'
    <3> SUFFICES ASSUME f \notin damaged' PROVE Loaded(f)' = es /\ Whole(f)'
      OBVIOUS
    <3>1. lines'[f] = LinesOf(es) /\ Tree(es)
      BY <1>2, <2>1, <2>7, <2>9 DEF Writable
    <3>2. (Loaded(f) = es /\ Whole(f))'
      BY <1>5, <3>1, LaterFacts DEF LinesOf, Tree, ParentsFirst, Unique
    <3>q. QED
      BY <3>2
  <2>11. \A g \in exists : g # f /\ g \notin damaged' => g \notin damaged
    BY <2>7 DEF Writable
  <2>12. WholeInv'
    <3>1. ASSUME NEW g \in exists', g \notin damaged', g # f PROVE Whole(g)'
      <4>1. g \in exists /\ g \in Files /\ g \notin damaged
        BY <2>4, <2>11, <3>1, BoundAssumption DEF Changed, DiskInv, DiskType, Files
      <4>2. Whole(g) /\ lines'[g] = lines[g]
        BY <2>9, <3>1, <4>1 DEF DiskInv, WholeInv
      <4>q. QED
        BY <3>1, <4>1, <4>2, StaysWhole
    <3>q. QED
      BY <2>10, <3>1 DEF WholeInv
  <2>13. Continues
    <3>1. \A g \in exists : lines[g] # <<>> /\ g \notin damaged' => g \notin damaged
      BY <2>7, <2>11 DEF Writable
    <3>q. QED
      BY <1>5, <2>6, <3>1 DEF Continues
  <2>14. WholeWrite(m, f, done, harmed, es)
    BY <1>6, <2>3, <2>9, <2>10 DEF WholeWrite
  <2>q. QED
    BY <1>5, <2>6, <2>8, <2>12, <2>13, <2>14 DEF DiskInv
<1>7. CASE /\ faults < MaxFaults
           /\ faults' = faults + 1 /\ damaged' = damaged \union {f}
           /\ \E ls2 \in Partials(b, ls) : lines' = [lines EXCEPT ![f] = ls2]
           /\ \E after \in {thrown, Closed} : mem' = [mem EXCEPT ![m] = after]
  <2>1. PICK r \in Partials(b, ls) : lines' = [lines EXCEPT ![f] = r]
    BY <1>7
  <2>2. Partly(L, b, r)
    BY <1>1, <1>3, <1>4, PartlyIs
  <2>4. Changed(f, r)
    BY <2>1 DEF Changed, Write
  <2>5. faults' = faults + 1 /\ faults' \in 0..MaxFaults
    BY <1>7, BoundAssumption DEF DiskInv, DiskType
  <2>6. /\ lines' \in [Files -> Seq(StoredLine')] /\ exists' \subseteq 1..names'
        /\ FileInv' /\ FaultInv' /\ Grown
    BY <1>0, <1>2, <2>2, <2>4, <2>5, DiskStep DEF DiskInv
  <2>7. damaged' = damaged \union {f} /\ damaged' \subseteq exists'
    BY <1>5, <1>7 DEF DiskInv, DiskType
  <2>8. DiskType'
    BY <2>5, <2>6, <2>7 DEF DiskType, DiskInv, Files
  <2>9. \A g \in Files : lines'[g] = IF g = f THEN r ELSE lines[g]
    BY <2>4 DEF Changed, DiskInv, DiskType
  <2>12. WholeInv'
    <3>1. ASSUME NEW g \in exists', g \notin damaged' PROVE Whole(g)'
      <4>1. g \in exists /\ g \in Files /\ g \notin damaged /\ g # f
        BY <2>4, <2>7, <3>1, BoundAssumption DEF Changed, DiskInv, DiskType, Files
      <4>2. Whole(g) /\ lines'[g] = lines[g]
        BY <2>9, <3>1, <4>1 DEF DiskInv, WholeInv
      <4>q. QED
        BY <3>1, <4>1, <4>2, StaysWhole
    <3>q. QED
      BY <3>1 DEF WholeInv
  <2>13. Continues
    BY <1>5, <2>6, <2>7 DEF Continues
  <2>14. FailedWrite(m, f, thrown)
    BY <1>7 DEF FailedWrite
  <2>q. QED
    BY <1>5, <2>6, <2>8, <2>12, <2>13, <2>14 DEF DiskInv
<1>q. QED
  BY <1>2, <1>6, <1>7 DEF Write

(* What holds of a value after a step holds of the manager that has it.     *)
LEMMA KnownAs == (\A n, t : mem[n] = t /\ SessionOK(t) => SessionOK(mem[n]))'
<1>1. \A n, t : mem[n] = t /\ SessionOK(t) => SessionOK(mem[n])
  OBVIOUS
<1>q. QED
  BY <1>1, PTL

(* What one manager does, the others need not know.                         *)
LEMMA OthersKnow ==
  ASSUME IInv, DiskInv', Continues, NEW m \in Managers, NEW s, mem' = [mem EXCEPT ![m] = s],
         s \in Session', SessionOK(s)'
  PROVE  IInv' /\ Continues
<1>1. mem \in [Managers -> Session] /\ \A n \in Managers : SessionOK(mem[n])
  BY DEF IInv, TypeInv, MemInv
<1>2. \A n \in Managers : mem'[n] = IF n = m THEN s ELSE mem[n]
  BY <1>1
<1>3. ASSUME NEW n \in Managers, n # m, NEW t, t = mem[n]
      PROVE  t \in Session' /\ SessionOK(t)'
  <2>1. t \in Session /\ SessionOK(t)
    BY <1>1, <1>3
  <2>q. QED
    BY <2>1, Others DEF IInv
<1>4. ASSUME NEW n \in Managers PROVE mem'[n] \in Session' /\ SessionOK(mem[n])'
  <2>1. CASE n = m
    <3>1. mem'[n] = s
      BY <1>2, <2>1
    <3>q. QED
      BY <3>1, KnownAs
  <2>2. CASE n # m
    <3>1. PICK t : t = mem[n]
      OBVIOUS
    <3>2. mem'[n] = t /\ t \in Session' /\ SessionOK(t)'
      BY <1>2, <1>3, <2>2, <3>1
    <3>q. QED
      BY <3>2, KnownAs
  <2>q. QED
    BY <2>1, <2>2
<1>5. mem' \in [Managers -> Session']
  BY <1>1, <1>4
<1>q. QED
  BY <1>4, <1>5 DEF IInv, TypeInv, MemInv, DiskInv

(* A manager that is closed knows nothing wrong.                            *)
LEMMA ClosedKnows ==
  ASSUME names' \in Nat
  PROVE  Closed \in Session' /\ SessionOK(Closed)'
<1>1. <<>> \in Seq(Stored') /\ DOMAIN <<>> = {}
  <2>1. <<>> \in Seq(Stored')
    OBVIOUS
  <2>q. QED
    BY <2>1
<1>q. QED
  BY <1>1 DEF Closed, Session, SessionOK, Tree, ParentsFirst, Unique

LEMMA ClosedStep ==
  ASSUME IInv, DiskInv', Continues, NEW m \in Managers, mem' = [mem EXCEPT ![m] = Closed]
  PROVE  IInv' /\ Continues
<1>1. PICK s : s = Closed
  OBVIOUS
<1>2. names' \in Nat
  BY DEF DiskInv, DiskType
<1>3. s \in Session' /\ SessionOK(s)'
  BY <1>1, <1>2, ClosedKnows DEF SessionOK, Session
<1>q. QED
  BY <1>1, <1>3, OthersKnow

(* What a manager has to know rightly, after a step.                        *)
LEMMA KnowsIf ==
  ASSUME NEW s, s.leaf \in IdsOf(s.entries) \union {0},
         s.flushed => s.file \in exists' /\ lines'[s.file] # <<>>,
         ~s.flushed \/ s.file \notin damaged' => Tree(s.entries),
         s.flushed /\ s.file \notin damaged' => Range(s.entries) \subseteq Range(Loaded(s.file)'),
         s.file # 0 /\ Answered(s.entries) /\ ~s.failed => s.flushed
  PROVE  SessionOK(s)'
BY DEF SessionOK, IdsOf, Tree, ParentsFirst, Unique, Range, Answered

(* The empty sequence.                                                      *)
LEMMA EmptyIs ==
  ASSUME NEW T
  PROVE  <<>> \in Seq(T) /\ Tree(<<>>) /\ IdsOf(<<>>) = {} /\ ~Answered(<<>>) /\ Range(<<>>) = {}
<1>1. DOMAIN <<>> = {}
  OBVIOUS
<1>2. <<>> \in Seq(T)
  OBVIOUS
<1>q. QED
  BY <1>1, <1>2 DEF Tree, ParentsFirst, Unique, IdsOf, Answered, Range

(* Sessions that were not written yet, and have nothing to write.           *)
LEMMA FreshKnows ==
  ASSUME names' \in Nat, NEW f \in 0..names', NEW s, s = Fresh(f)
  PROVE  s \in Session' /\ SessionOK(s)'
<1>1. <<>> \in Seq(Stored') /\ Tree(<<>>) /\ IdsOf(<<>>) = {} /\ ~Answered(<<>>)
  BY EmptyIs
<1>2. s = [file |-> f, entries |-> <<>>, leaf |-> 0, flushed |-> FALSE, failed |-> FALSE]
  BY DEF Fresh, Closed
<1>3. s \in Session'
  BY <1>1, <1>2 DEF Session
<1>4. SessionOK(s)'
  BY <1>1, <1>2, KnowsIf
<1>q. QED
  BY <1>3, <1>4

(* One lemma for each action: it keeps the invariant, and no file loses     *)
(* anything.                                                                *)
LEMMA NewSessionStep ==
  ASSUME IInv, NEW m \in Managers, NewSession(m)
  PROVE  IInv' /\ Continues
<1>1. names \in Nat /\ names' = names + 1 /\ names' \in 0..MaxFiles /\ ids \in Nat /\ ids' = ids
  BY BoundAssumption DEF NewSession, IInv, DiskInv, DiskType
<1>2. PICK s : s = Fresh(names')
  OBVIOUS
<1>3. mem' = [mem EXCEPT ![m] = s] /\ UNCHANGED <<disk, faults, damaged>>
  BY <1>1, <1>2 DEF NewSession, Remember
<1>4. DiskInv' /\ Continues
  BY <1>1, <1>3, NothingWritten DEF IInv
<1>5. s \in Session' /\ SessionOK(s)'
  BY <1>1, <1>2, FreshKnows
<1>q. QED
  BY <1>3, <1>4, <1>5, OthersKnow

LEMMA OpenMissingStep ==
  ASSUME IInv, NEW m \in Managers, NEW f \in Files, OpenMissing(m, f)
  PROVE  IInv' /\ Continues
<1>1. names \in Nat /\ names' = names /\ names' \in 0..MaxFiles /\ ids \in Nat /\ ids' = ids /\ f \in 0..names'
  BY DEF OpenMissing, IInv, DiskInv, DiskType, Files
<1>2. PICK s : s = Fresh(f)
  OBVIOUS
<1>3. mem' = [mem EXCEPT ![m] = s] /\ UNCHANGED <<disk, faults, damaged>>
  BY <1>1, <1>2 DEF OpenMissing, Remember
<1>4. DiskInv' /\ Continues
  BY <1>1, <1>3, NothingWritten DEF IInv
<1>5. s \in Session' /\ SessionOK(s)'
  BY <1>1, <1>2, FreshKnows
<1>q. QED
  BY <1>3, <1>4, <1>5, OthersKnow

LEMMA CloseStep ==
  ASSUME IInv, NEW m \in Managers, Close(m)
  PROVE  IInv' /\ Continues
<1>1. names \in Nat /\ names' = names /\ names' \in 0..MaxFiles /\ ids \in Nat /\ ids' = ids
  BY DEF Close, IInv, DiskInv, DiskType, Files
<1>2. PICK s : s = Closed
  OBVIOUS
<1>3. mem' = [mem EXCEPT ![m] = s] /\ UNCHANGED <<disk, faults, damaged>>
  BY <1>1, <1>2 DEF Close, Remember
<1>4. DiskInv' /\ Continues
  BY <1>1, <1>3, NothingWritten DEF IInv
<1>5. s \in Session' /\ SessionOK(s)'
  BY <1>1, <1>2, ClosedKnows DEF SessionOK, Session
<1>q. QED
  BY <1>3, <1>4, <1>5, OthersKnow

LEMMA MoveLeafStep ==
  ASSUME IInv, NEW m \in Managers, NEW id \in IdsOf(mem[m].entries) \union {0}, MoveLeaf(m, id)
  PROVE  IInv' /\ Continues
<1>1. names \in Nat /\ names' = names /\ names' \in 0..MaxFiles /\ ids \in Nat /\ ids' = ids
  BY DEF MoveLeaf, IInv, DiskInv, DiskType, Files
<1>2. PICK t : t = mem[m]
  OBVIOUS
<1>3. PICK s : s = [t EXCEPT !.leaf = id]
  OBVIOUS
<1>4. mem' = [mem EXCEPT ![m] = s] /\ UNCHANGED <<disk, faults, damaged>>
  BY <1>2, <1>3 DEF MoveLeaf, Remember
<1>5. DiskInv' /\ Continues
  BY <1>1, <1>4, NothingWritten DEF IInv
<1>6. t \in Session /\ SessionOK(t)
  BY <1>2 DEF IInv, TypeInv, MemInv
<1>7. /\ s.file = t.file /\ s.entries = t.entries /\ s.leaf = id /\ s.flushed = t.flushed
      /\ s.failed = t.failed
  BY <1>3, <1>6 DEF Session
<1>8. s \in Session /\ SessionOK(s)
  <2>1. id \in Nat
    <3>1. t.entries \in Seq(Stored)
      BY <1>6 DEF Session
    <3>2. \A i \in DOMAIN t.entries : t.entries[i] \in Stored
      BY <3>1
    <3>3. \A e \in Stored : e.id \in Nat
      BY DEF Stored, Entry
    <3>4. \A x \in IdsOf(t.entries) : x \in Nat
      BY <3>2, <3>3 DEF IdsOf
    <3>q. QED
      BY <1>2, <3>4
  <2>2. s \in Session
    BY <1>3, <1>6, <2>1 DEF Session
  <2>3. id \in IdsOf(s.entries) \union {0}
    BY <1>2, <1>7
  <2>4. SessionOK(s)
    BY <1>6, <1>7, <2>3 DEF SessionOK
  <2>q. QED
    BY <2>2, <2>4
<1>9. s \in Session' /\ SessionOK(s)'
  BY <1>5, <1>8, Others DEF IInv
<1>q. QED
  BY <1>4, <1>5, <1>9, OthersKnow

(* What opening a file gives.                                               *)
LEMMA IndexKnows ==
  ASSUME names' \in Nat, NEW f \in 1..names', NEW es \in Seq(Stored'), NEW s, s = Index(f, es)
  PROVE  /\ s \in Session' /\ s.file = f /\ s.entries = es /\ s.flushed
         /\ s.leaf \in IdsOf(s.entries) \union {0}
<1>1. PICK x : x = IF es = <<>> THEN 0 ELSE Last(es).id
  OBVIOUS
<1>2. s = [file |-> f, entries |-> es, leaf |-> x, flushed |-> TRUE, failed |-> FALSE]
  BY <1>1 DEF Index, Fresh, Closed
<1>3. x \in IdsOf(es) \union {0}
  <2>1. es # <<>> => Len(es) \in DOMAIN es
    OBVIOUS
  <2>q. QED
    BY <1>1, <2>1 DEF Last, IdsOf
<1>4. x \in Nat
  <2>1. \A i \in DOMAIN es : es[i] \in Stored'
    OBVIOUS
  <2>2. \A e \in Stored' : e.id \in Nat
    BY DEF Stored, Entry
  <2>q. QED
    BY <1>3, <2>1, <2>2 DEF IdsOf
<1>q. QED
  BY <1>2, <1>3, <1>4 DEF Session

LEMMA OpenStep ==
  ASSUME IInv, NEW m \in Managers, NEW f \in Files, Open(m, f)
  PROVE  IInv' /\ Continues
<1>1. /\ names \in Nat /\ names' = names /\ names' \in 0..MaxFiles /\ ids \in Nat /\ ids' = ids
      /\ exists \subseteq 1..names
  BY DEF Open, IInv, DiskInv, DiskType, Files
<1>2. PICK es : es = Loaded(f)
  OBVIOUS
<1>3. PICK s : s = Index(f, es)
  OBVIOUS
<1>4. mem' = [mem EXCEPT ![m] = s] /\ UNCHANGED <<disk, faults, damaged>>
  BY <1>2, <1>3 DEF Open, Remember
<1>4a. exists' = exists /\ lines' = lines /\ damaged' = damaged
  BY <1>4 DEF disk
<1>5. DiskInv' /\ Continues
  BY <1>1, <1>4, NothingWritten DEF IInv
<1>6. f \in exists /\ Loadable(f)
  BY DEF Open, Loadable
<1>7. lines[f] # <<>> /\ es \in Seq(Stored)
  BY <1>2, <1>6, LoadedType DEF IInv, DiskInv
<1>8. es \in Seq(Stored')
  BY <1>1, <1>7, StoredGrows
<1>9. /\ s \in Session' /\ s.file = f /\ s.entries = es /\ s.flushed
      /\ s.leaf \in IdsOf(s.entries) \union {0}
  <2>1. f \in 1..names' /\ names' \in Nat
    BY <1>1, <1>6
  <2>q. QED
    BY <1>3, <1>8, <2>1, IndexKnows
<1>10. f \notin damaged => Tree(es)
  BY <1>2, <1>6 DEF IInv, DiskInv, WholeInv, Whole
<1>11. Loaded(f)' = es
  BY <1>2, <1>4a DEF Loaded, Parsed
<1>12. SessionOK(s)'
  BY <1>4a, <1>6, <1>7, <1>9, <1>10, <1>11, KnowsIf
<1>q. QED
  BY <1>4, <1>5, <1>9, <1>12, OthersKnow

------------------------------------------------------------------------------
(* Writing a file from its start, and appending to one.                     *)

(* No entry is a header or a malformed line.                                *)
LEMMA EntriesAreNot ==
  /\ Header \notin Entry /\ Malformed \notin Entry /\ Header # Malformed
BY DEF Header, Malformed, Entry, Kinds, PlainKinds

(* The lines of a session, for an empty file.                               *)
LEMMA FromStart ==
  ASSUME NEW es \in Seq(Entry)
  PROVE  Clean(<<>>, LinesOf(es)) /\ Appended(<<>>, LinesOf(es)) = LinesOf(es)
<1>1. PICK ls : ls = LinesOf(es)
  OBVIOUS
<1>2. PICK K : K = {Line(e) : e \in Entry \union {Header}}
  OBVIOUS
<1>3. /\ Len(ls) = Len(es) + 1 /\ DOMAIN ls = 1..Len(es) + 1 /\ ls[1] = Line(Header)
      /\ \A i \in DOMAIN es : ls[i + 1] = Line(es[i])
      /\ ls \in Seq(K)
  BY <1>1, <1>2, LinesOfIs
<1>4. DOMAIN es = 1..Len(es) /\ Len(es) \in Nat /\ \A i \in DOMAIN es : es[i] \in Entry
  OBVIOUS
<1>5. ls # <<>>
  BY <1>3, <1>4
<1>6. ASSUME NEW i \in DOMAIN ls
      PROVE  ls[i].newline /\ ls[i].entry # Malformed /\ (ls[i].entry = Header => i = 1)
  <2>1. CASE i = 1
    BY <1>3, <2>1, LineIs, EntriesAreNot
  <2>2. CASE i # 1
    <3>1. i - 1 \in DOMAIN es /\ (i - 1) + 1 = i
      BY <1>3, <1>4, <2>2
    <3>2. ls[i] = Line(es[i - 1]) /\ es[i - 1] \in Entry
      BY <1>3, <1>4, <3>1
    <3>q. QED
      BY <3>2, LineIs, EntriesAreNot
  <2>q. QED
    BY <2>1, <2>2
<1>7. Clean(<<>>, ls)
  BY <1>5, <1>6 DEF Clean
<1>8. Appended(<<>>, ls) = <<>> \o ls
  BY DEF Appended
<1>9. <<>> \o ls = ls
  BY <1>3
<1>q. QED
  BY <1>1, <1>7, <1>8, <1>9

(* Their types.                                                             *)
LEMMA LinesOfStored ==
  ASSUME NEW es \in Seq(Stored')
  PROVE  LinesOf(es) \in Seq(StoredLine') /\ es \in Seq(Entry)
<1>1. PICK S : S = Stored'
  OBVIOUS
<1>2. LinesOf(es) \in Seq({Line(e) : e \in S \union {Header}})
  BY <1>1, LinesOfIs
<1>3. {Line(e) : e \in S \union {Header}} \subseteq StoredLine'
  <2>1. PICK A : A = S \union {Header, Malformed}
    OBVIOUS
  <2>2. StoredLine' = [entry : A, newline : BOOLEAN]
    BY <1>1, <2>1 DEF StoredLine, Header, Malformed
  <2>3. \A e \in S \union {Header} : e \in A
    BY <2>1
  <2>4. \A e \in A : Line(e) \in [entry : A, newline : BOOLEAN]
    BY DEF Line
  <2>q. QED
    BY <2>2, <2>3, <2>4
<1>4. Seq({Line(e) : e \in S \union {Header}}) \subseteq Seq(StoredLine')
  BY <1>3, SeqGrows
<1>q. QED
  BY <1>2, <1>4, LaterFacts

(* A file that is written from its start becomes a header and a tree.       *)
LEMMA Rewritten ==
  ASSUME DiskInv, names' \in 0..MaxFiles, names <= names', ids' \in Nat, ids <= ids',
         NEW m, NEW f \in Files, f <= names', lines[f] = <<>>,
         NEW es \in Seq(Stored'), NEW harmed,
         harmed \subseteq exists \union {f}, damaged \ {f} \subseteq harmed,
         f \notin harmed => Tree(es),
         NEW done, NEW thrown, Rewrite(m, f, LinesOf(es), done, thrown, harmed)
  PROVE  /\ DiskInv' /\ Continues /\ f \in exists'
         /\ WholeWrite(m, f, done, harmed, es) \/ FailedWrite(m, f, thrown)
<1>1. PICK ls : ls = LinesOf(es)
  OBVIOUS
<1>2. es \in Seq(Entry) /\ ls \in Seq(StoredLine')
  BY <1>1, LinesOfStored
<1>3. Clean(<<>>, ls) /\ Appended(<<>>, ls) = ls
  BY <1>1, <1>2, FromStart
<1>4. Writable(f, ls, harmed, es)
  BY <1>1, <1>3 DEF Writable
<1>5. Write(m, f, lines[f], ls, done, thrown, harmed)
  BY <1>1 DEF Rewrite
<1>q. QED
  BY <1>2, <1>4, <1>5, SomethingWritten

(* A line is appended to a whole file.                                      *)
LEMMA AppendedLine ==
  ASSUME NEW es \in Seq(Entry), NEW e \in Entry
  PROVE  Appended(LinesOf(es), <<Line(e)>>) = LinesOf(Append(es, e))
<1>1. PICK b : b = LinesOf(es)
  OBVIOUS
<1>2. PICK fs : fs = Append(es, e)
  OBVIOUS
<1>3. PICK c : c = LinesOf(fs)
  OBVIOUS
<1>4. PICK K : K = {Line(x) : x \in Entry \union {Header}}
  OBVIOUS
<1>5. /\ Len(b) = Len(es) + 1 /\ b[1] = Line(Header) /\ b \in Seq(K)
      /\ \A i \in DOMAIN es : b[i + 1] = Line(es[i])
  BY <1>1, <1>4, LinesOfIs
<1>6. /\ fs \in Seq(Entry) /\ Len(fs) = Len(es) + 1 /\ fs[Len(es) + 1] = e
      /\ \A i \in 1..Len(es) : fs[i] = es[i]
      /\ DOMAIN es = 1..Len(es) /\ Len(es) \in Nat
  BY <1>2
<1>7. /\ Len(c) = Len(fs) + 1 /\ c[1] = Line(Header) /\ c \in Seq(K)
      /\ \A i \in DOMAIN fs : c[i + 1] = Line(fs[i])
  BY <1>3, <1>4, <1>6, LinesOfIs
<1>8. Last(b).newline
  <2>1. CASE Len(es) = 0
    BY <1>5, <2>1, LineIs DEF Last
  <2>2. CASE Len(es) # 0
    <3>1. Len(es) \in DOMAIN es
      BY <1>6, <2>2
    <3>2. b[Len(b)] = Line(es[Len(es)])
      BY <1>5, <3>1
    <3>q. QED
      BY <3>2, LineIs DEF Last
  <2>q. QED
    BY <2>1, <2>2
<1>9. PICK x : x = Line(e)
  OBVIOUS
<1>10. PICK a : a = Append(b, x)
  OBVIOUS
<1>11. x \in K
  BY <1>4, <1>9
<1>12. /\ a \in Seq(K) /\ Len(a) = Len(b) + 1 /\ a[Len(b) + 1] = x
       /\ \A i \in 1..Len(b) : a[i] = b[i]
  BY <1>5, <1>10, <1>11
<1>13. Appended(b, <<x>>) = a
  <2>1. Appended(b, <<x>>) = b \o <<x>>
    BY <1>8 DEF Appended
  <2>2. b \o <<x>> = Append(b, x)
    BY <1>5, <1>11
  <2>q. QED
    BY <1>10, <2>1, <2>2
<1>14. ASSUME NEW i \in 1..Len(a) PROVE a[i] = c[i]
  <2>1. CASE i = 1
    <3>1. 1 \in 1..Len(b)
      BY <1>5, <1>6
    <3>q. QED
      BY <1>5, <1>7, <1>12, <2>1, <3>1
  <2>2. CASE i # 1 /\ i <= Len(b)
    <3>1. i - 1 \in 1..Len(es) /\ (i - 1) + 1 = i /\ i \in 1..Len(b) /\ i - 1 \in DOMAIN es
      BY <1>5, <1>6, <1>12, <2>2
    <3>2. i - 1 \in DOMAIN fs
      BY <1>6, <3>1
    <3>3. a[i] = b[i] /\ b[i] = Line(es[i - 1]) /\ c[i] = Line(fs[i - 1]) /\ fs[i - 1] = es[i - 1]
      BY <1>5, <1>6, <1>7, <1>12, <3>1, <3>2
    <3>q. QED
      BY <3>3
  <2>3. CASE i = Len(b) + 1
    <3>1. i - 1 = Len(es) + 1 /\ i - 1 \in DOMAIN fs /\ (i - 1) + 1 = i
      BY <1>5, <1>6, <2>3
    <3>2. c[i] = Line(fs[i - 1]) /\ fs[i - 1] = e
      BY <1>6, <1>7, <3>1
    <3>q. QED
      BY <1>9, <1>12, <2>3, <3>2
  <2>q. QED
    BY <1>5, <1>6, <1>12, <2>1, <2>2, <2>3
<1>15. Len(a) = Len(c)
  BY <1>5, <1>6, <1>7, <1>12
<1>16. a = c
  BY <1>7, <1>12, <1>14, <1>15
<1>q. QED
  BY <1>1, <1>2, <1>3, <1>9, <1>13, <1>16

(* A new entry below an entry of a tree makes a tree.                       *)
LEMMA TreeGrows ==
  ASSUME NEW T, NEW es \in Seq(T), NEW e \in T, Tree(es), e.parent \in IdsOf(es) \union {0},
  e.id \notin IdsOf(es)
  PROVE  Tree(Append(es, e))
<1>1. PICK fs : fs = Append(es, e)
  OBVIOUS
<1>2. /\ Len(fs) = Len(es) + 1 /\ fs[Len(es) + 1] = e /\ Len(es) \in Nat
      /\ DOMAIN fs = 1..Len(es) + 1 /\ DOMAIN es = 1..Len(es)
      /\ \A i \in 1..Len(es) : fs[i] = es[i]
  BY <1>1
<1>3. ASSUME NEW i \in DOMAIN fs
      PROVE  fs[i].parent = 0 \/ \E j \in 1..(i - 1) : fs[j].id = fs[i].parent
  <2>1. CASE i \in 1..Len(es)
    <3>1. fs[i] = es[i] /\ i \in DOMAIN es
      BY <1>2, <2>1
    <3>2. es[i].parent = 0 \/ \E j \in 1..(i - 1) : es[j].id = es[i].parent
      BY <3>1 DEF Tree, ParentsFirst
    <3>3. \A j \in 1..(i - 1) : fs[j] = es[j]
      BY <1>2, <2>1
    <3>q. QED
      BY <3>1, <3>2, <3>3
  <2>2. CASE i = Len(es) + 1
    <3>1. e.parent = 0 \/ \E j \in DOMAIN es : es[j].id = e.parent
      BY DEF IdsOf
    <3>2. i - 1 = Len(es)
      BY <1>2, <2>2
    <3>q. QED
      BY <1>2, <2>2, <3>1, <3>2
  <2>q. QED
    BY <1>2, <2>1, <2>2
<1>4. ASSUME NEW i \in DOMAIN fs, NEW j \in DOMAIN fs, fs[i].id = fs[j].id PROVE i = j
  <2>1. \A k \in DOMAIN fs : k = Len(es) + 1 \/ (k \in DOMAIN es /\ fs[k] = es[k])
    BY <1>2
  <2>2. \A k \in DOMAIN es : es[k].id # e.id
    BY DEF IdsOf
  <2>q. QED
    BY <1>2, <1>4, <2>1, <2>2 DEF Tree, Unique
<1>q. QED
  BY <1>1, <1>3, <1>4 DEF Tree, ParentsFirst, Unique

(* An entry more.                                                           *)
LEMMA EntryMore ==
  ASSUME NEW T, NEW es \in Seq(T), NEW e \in T
  PROVE  LET fs == Append(es, e)
         IN  /\ fs \in Seq(T) /\ Range(fs) = Range(es) \union {e} /\ IdsOf(fs) = IdsOf(es) \union {e.id}
<1>1. PICK fs : fs = Append(es, e)
  OBVIOUS
<1>2. /\ fs \in Seq(T) /\ Len(fs) = Len(es) + 1 /\ fs[Len(es) + 1] = e /\ Len(es) \in Nat
      /\ DOMAIN fs = 1..Len(es) + 1 /\ DOMAIN es = 1..Len(es)
      /\ \A i \in 1..Len(es) : fs[i] = es[i]
  BY <1>1
<1>3. \A k \in DOMAIN fs : k = Len(es) + 1 \/ (k \in DOMAIN es /\ fs[k] = es[k])
  BY <1>2
<1>4. \A k \in DOMAIN es : k \in DOMAIN fs /\ fs[k] = es[k]
  BY <1>2
<1>5. Len(es) + 1 \in DOMAIN fs
  BY <1>2
<1>6. Range(fs) = Range(es) \union {e}
  BY <1>2, <1>3, <1>4, <1>5 DEF Range
<1>7. IdsOf(fs) = IdsOf(es) \union {e.id}
  BY <1>2, <1>3, <1>4, <1>5 DEF IdsOf
<1>q. QED
  BY <1>1, <1>2, <1>6, <1>7

------------------------------------------------------------------------------
(* Appending.                                                               *)

(* A session that has one entry more in memory.                             *)
Longer(t, s, e) ==
  /\ s.file = t.file /\ s.entries = Append(t.entries, e) /\ s.leaf = e.id
  /\ s.flushed = t.flushed /\ s.failed = t.failed

(* Every id of a file was handed out.                                       *)
LEMMA NewId ==
  ASSUME NEW es \in Seq(Stored), ids \in Nat
  PROVE  ids + 1 \notin IdsOf(es)
<1>1. \A i \in DOMAIN es : es[i] \in Stored
  OBVIOUS
<1>2. \A e \in Stored : e.id # ids + 1
  BY DEF Stored
<1>q. QED
  BY <1>1, <1>2 DEF IdsOf

(* A part of a session has a part of its ids.                               *)
LEMMA IdsOfPart ==
  ASSUME NEW es, NEW fs, Range(es) \subseteq Range(fs)
  PROVE  IdsOf(es) \subseteq IdsOf(fs)
BY DEF Range, IdsOf

(* A session with one more entry is a tree as long as it was one.           *)
LEMMA LongerKnows ==
  ASSUME IInv, NEW m \in Managers, NEW e \in Stored', e.id = ids + 1, ids' = ids + 1,
  names' = names,
         e.parent \in IdsOf(mem[m].entries) \union {0},
         NEW t, t = mem[m], NEW s, Longer(t, s, e)
  PROVE  /\ s.leaf \in IdsOf(s.entries)
         /\ Range(s.entries) = Range(t.entries) \union {e}
         /\ s.entries \in Seq(Stored')
         /\ Tree(t.entries) => Tree(s.entries)
<1>1. t \in Session /\ ids \in Nat /\ ids' \in Nat /\ ids <= ids'
  BY DEF IInv, TypeInv, DiskType
<1>2. PICK es : es = t.entries
  OBVIOUS
<1>3. PICK S : S = Stored'
  OBVIOUS
<1>4. es \in Seq(Stored) /\ es \in Seq(S)
  <2>1. es \in Seq(Stored)
    BY <1>1, <1>2 DEF Session
  <2>q. QED
    BY <1>1, <1>3, <2>1, StoredGrows
<1>5. s.entries = Append(es, e) /\ s.leaf = e.id
  BY <1>2 DEF Longer
<1>6. ids + 1 \notin IdsOf(es)
  BY <1>1, <1>4, NewId
<1>7. e \in S /\ e.parent \in IdsOf(es) \union {0} /\ e.id \notin IdsOf(es)
  BY <1>2, <1>3, <1>6
<1>8. /\ Append(es, e) \in Seq(S) /\ Range(Append(es, e)) = Range(es) \union {e}
      /\ IdsOf(Append(es, e)) = IdsOf(es) \union {e.id}
  BY <1>4, <1>7, EntryMore
<1>9. Tree(es) => Tree(Append(es, e))
  BY <1>4, <1>7, TreeGrows
<1>q. QED
  BY <1>2, <1>3, <1>5, <1>8, <1>9

(* The entry is appended to the file.                                       *)
LEMMA LineAppended ==
  ASSUME IInv, NEW m \in Managers, NEW e \in Stored', e.id = ids + 1, ids' = ids + 1,
  names' = names,
         e.parent \in IdsOf(mem[m].entries) \union {0},
         NEW t, t = mem[m], t.flushed, NEW s, Longer(t, s, e),
         NEW thrown, AppendTo(m, s.file, <<Line(e)>>, s, thrown)
  PROVE  /\ DiskInv' /\ Continues /\ s.file \in exists' /\ lines'[s.file] # <<>>
         /\ \/ /\ mem' = [mem EXCEPT ![m] = s]
               /\ s.file \notin damaged' => /\ Tree(s.entries)
                                            /\ Range(s.entries) \subseteq Range(Loaded(s.file)')
            \/ FailedWrite(m, s.file, thrown)
<1>1. /\ t \in Session /\ SessionOK(t) /\ ids \in Nat /\ ids' \in Nat /\ ids <= ids' /\ DiskInv
      /\ names' \in 0..MaxFiles /\ names \in Nat /\ exists \subseteq 1..names /\ damaged \subseteq exists
  BY DEF IInv, TypeInv, DiskType, MemInv
<1>2. PICK f : f = s.file
  OBVIOUS
<1>3. f = t.file /\ f \in exists /\ f \in Files /\ f <= names' /\ lines[f] # <<>>
  <2>1. f = t.file
    BY <1>2 DEF Longer
  <2>2. f \in exists /\ lines[f] # <<>>
    BY <1>1, <2>1 DEF SessionOK
  <2>3. f \in 1..names /\ names' = names /\ Files = 1..MaxFiles /\ MaxFiles \in Nat
    BY <1>1, <2>2, BoundAssumption DEF Files
  <2>4. f \in Files /\ f <= names'
    BY <1>1, <2>3
  <2>q. QED
    BY <2>1, <2>2, <2>4
<1>4. /\ Range(s.entries) = Range(t.entries) \union {e}
      /\ Tree(t.entries) => Tree(s.entries)
  BY LongerKnows
<1>5. PICK ls : ls = <<Line(e)>>
  OBVIOUS
<1>6. PICK fs : fs = IF f \in damaged THEN <<>> ELSE Append(Loaded(f), e)
  OBVIOUS
<1>7. e \in Entry
  BY LaterFacts
<1>8. ls \in Seq(StoredLine')
  <2>1. Line(e) \in StoredLine'
    BY DEF Line, StoredLine
  <2>q. QED
    BY <1>5, <2>1
<1>9. Clean(lines[f], ls)
  <2>1. ls # <<>> /\ \A i \in DOMAIN ls : ls[i] = Line(e)
    BY <1>5
  <2>q. QED
    BY <1>7, <2>1, LineIs, EntriesAreNot DEF Clean
<1>10. ASSUME f \notin damaged
       PROVE  /\ fs = Append(Loaded(f), e) /\ fs \in Seq(Entry) /\ Tree(fs)
              /\ lines[f] = LinesOf(Loaded(f)) /\ Tree(t.entries)
              /\ Range(t.entries) \union {e} \subseteq Range(fs)
              /\ Appended(lines[f], ls) = LinesOf(fs)
  <2>1. Whole(f)
    BY <1>1, <1>3, <1>10 DEF DiskInv, WholeInv
  <2>2. PICK gs : gs = Loaded(f)
    OBVIOUS
  <2>3. gs \in Seq(Stored) /\ lines[f] = LinesOf(gs) /\ Tree(gs)
    BY <1>1, <1>3, <2>1, <2>2, LoadedType DEF Whole, DiskInv
  <2>4. gs \in Seq(Entry)
    BY <2>3, StoredAreEntries
  <2>5. Tree(t.entries) /\ Range(t.entries) \subseteq Range(gs)
    BY <1>1, <1>3, <1>10, <2>2 DEF SessionOK
  <2>6. e.parent \in IdsOf(gs) \union {0}
    BY <2>5, IdsOfPart
  <2>7. e.id \notin IdsOf(gs)
    BY <1>1, <2>3, NewId
  <2>8. Tree(Append(gs, e))
    BY <1>7, <2>3, <2>4, <2>6, <2>7, TreeGrows
  <2>9. Append(gs, e) \in Seq(Entry) /\ Range(Append(gs, e)) = Range(gs) \union {e}
    BY <1>7, <2>4, EntryMore
  <2>10. Appended(LinesOf(gs), <<Line(e)>>) = LinesOf(Append(gs, e))
    BY <1>7, <2>4, AppendedLine
  <2>11. fs = Append(gs, e)
    BY <1>6, <1>10, <2>2
  <2>q. QED
    BY <1>5, <2>2, <2>3, <2>5, <2>8, <2>9, <2>10, <2>11
<1>11. fs \in Seq(Entry)
  <2>1. <<>> \in Seq(Entry)
    BY EmptyIs
  <2>q. QED
    BY <1>6, <1>10, <2>1
<1>12. Writable(f, ls, damaged, fs)
  BY <1>1, <1>3, <1>9, <1>10 DEF Writable
<1>13. Write(m, f, lines[f], ls, s, thrown, damaged)
  BY <1>2, <1>5 DEF AppendTo
<1>14. names <= names'
  BY <1>1
<1>15. /\ DiskInv' /\ Continues /\ f \in exists'
       /\ WholeWrite(m, f, s, damaged, fs) \/ FailedWrite(m, f, thrown)
  BY <1>1, <1>3, <1>8, <1>11, <1>12, <1>13, <1>14, SomethingWritten
<1>16. lines'[f] # <<>>
  BY <1>3, <1>15 DEF Continues, Grown
<1>17. CASE WholeWrite(m, f, s, damaged, fs)
  <2>1. mem' = [mem EXCEPT ![m] = s] /\ damaged' = damaged /\ (f \notin damaged' => Loaded(f)' = fs)
    BY <1>17 DEF WholeWrite
  <2>2. f \notin damaged => /\ Tree(s.entries) /\ Range(s.entries) \subseteq Range(fs)
    BY <1>4, <1>10
  <2>q. QED
    BY <1>2, <1>15, <1>16, <2>1, <2>2
<1>q. QED
  BY <1>2, <1>15, <1>16, <1>17

(* _appendEntry and _persist: the entry is a child of one the session has,  *)
(* and is written, kept for the first write, or lost by a write that fails. *)
LEMMA AppendStep ==
  ASSUME IInv, NEW m \in Managers, NEW parent \in IdsOf(mem[m].entries) \union {0},
         NEW kind \in Kinds, NEW ref \in Nat, AppendEntry(m, parent, kind, ref)
  PROVE  IInv' /\ Continues
<1>1. PICK t : t = mem[m]
  OBVIOUS
<1>2. PICK e : e = [id |-> ids + 1, parent |-> parent, kind |-> kind, ref |-> ref]
  OBVIOUS
<1>3. PICK s : s = [t EXCEPT !.entries = Append(@, e), !.leaf = e.id]
  OBVIOUS
<1>4. PICK thrown : thrown = [s EXCEPT !.failed = TRUE]
  OBVIOUS
<1>5. /\ ids' = ids + 1 /\ names' = names /\ IsOpen(m) /\ Persist(m, s, e)
  BY <1>1, <1>2, <1>3 DEF AppendEntry
<1>6. /\ t \in Session /\ SessionOK(t) /\ ids \in Nat /\ ids' \in Nat /\ ids <= ids' /\ DiskInv
      /\ names' \in 0..MaxFiles /\ names \in Nat /\ names <= names'
      /\ exists \subseteq 1..names /\ damaged \subseteq exists
      /\ t.file # 0
  BY <1>1, <1>5 DEF IInv, TypeInv, DiskType, MemInv, IsOpen
<1>7. /\ e.id = ids + 1 /\ e.parent = parent /\ e \in Stored'
  <2>1. \A i \in DOMAIN t.entries : t.entries[i] \in Stored
    BY <1>6 DEF Session
  <2>2. parent \in Nat /\ parent <= ids
    BY <1>1, <1>6, <2>1 DEF IdsOf, Stored
  <2>3. e \in Entry /\ e.id = ids + 1 /\ e.parent = parent
    BY <1>2, <1>6, <2>2 DEF Entry
  <2>q. QED
    BY <1>5, <1>6, <2>2, <2>3 DEF Stored
<1>8. Longer(t, s, e)
  BY <1>3, <1>6 DEF Longer, Session
<1>9. /\ s.leaf \in IdsOf(s.entries)
      /\ s.entries \in Seq(Stored')
      /\ Tree(t.entries) => Tree(s.entries)
  BY <1>1, <1>5, <1>7, <1>8, LongerKnows
<1>10. /\ s.file = t.file /\ s.flushed = t.flushed /\ s.failed = t.failed /\ s.leaf = ids + 1
       /\ s.file \in 0..names' /\ s.flushed \in BOOLEAN /\ s.failed \in BOOLEAN
  BY <1>5, <1>6, <1>7, <1>8 DEF Longer, Session
<1>11. s \in Session' /\ thrown \in Session'
  <2>1. s = [file |-> s.file, entries |-> s.entries, leaf |-> s.leaf, flushed |-> s.flushed,
             failed |-> s.failed]
    BY <1>3, <1>6 DEF Session
  <2>2. s \in Session'
    BY <1>6, <1>9, <1>10, <2>1 DEF Session
  <2>q. QED
    BY <1>4, <2>2 DEF Session
<1>12. /\ thrown.file = s.file /\ thrown.entries = s.entries /\ thrown.leaf = s.leaf
       /\ thrown.flushed = s.flushed /\ thrown.failed = TRUE
  BY <1>4, <1>11 DEF Session
<1>13. CASE AppendsNow(s) /\ AppendTo(m, s.file, <<Line(e)>>, s, thrown)
  <2>1. s.flushed /\ t.flushed
    BY <1>10, <1>13 DEF AppendsNow
  <2>2. /\ DiskInv' /\ Continues /\ s.file \in exists' /\ lines'[s.file] # <<>>
        /\ \/ /\ mem' = [mem EXCEPT ![m] = s]
              /\ s.file \notin damaged' => /\ Tree(s.entries)
                                           /\ Range(s.entries) \subseteq Range(Loaded(s.file)')
           \/ FailedWrite(m, s.file, thrown)
    BY <1>1, <1>5, <1>7, <1>8, <1>13, <2>1, LineAppended
  <2>3. CASE /\ mem' = [mem EXCEPT ![m] = s]
             /\ s.file \notin damaged' => /\ Tree(s.entries)
                                          /\ Range(s.entries) \subseteq Range(Loaded(s.file)')
    <3>1. SessionOK(s)'
      BY <1>9, <2>1, <2>2, <2>3, KnowsIf
    <3>q. QED
      BY <1>11, <2>2, <2>3, <3>1, OthersKnow
  <2>4. CASE FailedWrite(m, s.file, thrown)
    <3>1. SessionOK(thrown)'
      <4>1. s.file \in damaged'
        BY <2>4 DEF FailedWrite
      <4>q. QED
        BY <1>9, <1>12, <2>1, <2>2, <4>1, KnowsIf
    <3>2. CASE mem' = [mem EXCEPT ![m] = thrown]
      BY <1>11, <2>2, <3>1, <3>2, OthersKnow
    <3>3. CASE mem' = [mem EXCEPT ![m] = Closed]
      BY <2>2, <3>3, ClosedStep
    <3>q. QED
      BY <2>4, <3>2, <3>3 DEF FailedWrite
  <2>q. QED
    BY <2>2, <2>3, <2>4
<1>14. ASSUME ~s.flushed PROVE Tree(s.entries)
  BY <1>6, <1>9, <1>10, <1>14 DEF SessionOK
<1>15. CASE /\ FirstWrite(s) /\ MayCreate(s.file)
            /\ Rewrite(m, s.file, LinesOf(s.entries), [s EXCEPT !.flushed = TRUE], thrown, damaged)
  <2>1. ~s.flushed /\ s.file \notin exists
    BY <1>15 DEF FirstWrite, MayCreate
  <2>2. PICK f : f = s.file
    OBVIOUS
  <2>3. f \in Files /\ f <= names' /\ lines[f] = <<>> /\ f \notin damaged
    <3>1. f \in 1..names'
      BY <1>6, <1>10, <2>2
    <3>2. f \in Files
      BY <1>6, <3>1, BoundAssumption DEF Files
    <3>q. QED
      BY <1>6, <2>1, <2>2, <3>1, <3>2 DEF DiskInv, FileInv
  <2>4. PICK d : d = [s EXCEPT !.flushed = TRUE]
    OBVIOUS
  <2>5. /\ d.file = s.file /\ d.entries = s.entries /\ d.leaf = s.leaf /\ d.flushed = TRUE
        /\ d \in Session'
    BY <1>11, <2>4 DEF Session
  <2>6. Tree(s.entries)
    BY <1>14, <2>1
  <2>7. damaged \subseteq exists \union {f} /\ damaged \ {f} \subseteq damaged
    BY <1>6
  <2>8. Rewrite(m, f, LinesOf(s.entries), d, thrown, damaged)
    BY <1>15, <2>2, <2>4
  <2>9. PICK es : es = s.entries
    OBVIOUS
  <2>10. /\ DiskInv' /\ Continues /\ f \in exists'
         /\ WholeWrite(m, f, d, damaged, es) \/ FailedWrite(m, f, thrown)
    <3>1. es \in Seq(Stored') /\ Tree(es) /\ Rewrite(m, f, LinesOf(es), d, thrown, damaged)
      BY <1>9, <2>6, <2>8, <2>9
    <3>q. QED
      BY <1>6, <2>3, <2>7, <3>1, Rewritten
  <2>11. CASE WholeWrite(m, f, d, damaged, es)
    <3>1. /\ mem' = [mem EXCEPT ![m] = d] /\ lines'[f] # <<>>
          /\ f \notin damaged' => Loaded(f)' = es
      BY <2>11 DEF WholeWrite
    <3>2. SessionOK(d)'
      BY <1>9, <2>2, <2>5, <2>6, <2>9, <2>10, <3>1, KnowsIf
    <3>q. QED
      BY <2>5, <2>10, <3>1, <3>2, OthersKnow
  <2>12. CASE FailedWrite(m, f, thrown)
    <3>1. SessionOK(thrown)'
      BY <1>9, <1>12, <2>1, <2>6, KnowsIf
    <3>2. CASE mem' = [mem EXCEPT ![m] = thrown]
      BY <1>11, <2>10, <3>1, <3>2, OthersKnow
    <3>3. CASE mem' = [mem EXCEPT ![m] = Closed]
      BY <2>10, <3>3, ClosedStep
    <3>q. QED
      BY <2>12, <3>2, <3>3 DEF FailedWrite
  <2>q. QED
    BY <2>10, <2>11, <2>12
<1>16. CASE FirstWrite(s) /\ ~MayCreate(s.file) /\ Remember(m, thrown)
  <2>1. mem' = [mem EXCEPT ![m] = thrown] /\ UNCHANGED <<disk, faults, damaged>>
    BY <1>16 DEF Remember
  <2>2. DiskInv' /\ Continues
    BY <1>6, <2>1, NothingWritten
  <2>3. ~s.flushed /\ Tree(s.entries)
    BY <1>14, <1>16 DEF FirstWrite
  <2>4. SessionOK(thrown)'
    BY <1>9, <1>12, <2>3, KnowsIf
  <2>q. QED
    BY <1>11, <2>1, <2>2, <2>4, OthersKnow
<1>17. CASE ~AppendsNow(s) /\ ~FirstWrite(s) /\ Remember(m, s)
  <2>1. mem' = [mem EXCEPT ![m] = s] /\ UNCHANGED <<disk, faults, damaged>>
    BY <1>17 DEF Remember
  <2>2. DiskInv' /\ Continues
    BY <1>6, <2>1, NothingWritten
  <2>3. ~s.flushed /\ ~Answered(s.entries) /\ Tree(s.entries)
    BY <1>14, <1>17 DEF FirstWrite, AppendsNow
  <2>4. SessionOK(s)'
    BY <1>9, <2>3, KnowsIf
  <2>q. QED
    BY <1>11, <2>1, <2>2, <2>4, OthersKnow
<1>q. QED
  BY <1>4, <1>5, <1>13, <1>15, <1>16, <1>17 DEF Persist

------------------------------------------------------------------------------
(* Opening an empty file, and copying one.                                  *)

(* A manager whose write failed goes on with what it had, or dies.          *)
LEMMA ThrownBack ==
  ASSUME IInv, DiskInv', Continues, NEW m \in Managers, NEW f, FailedWrite(m, f, mem[m])
  PROVE  IInv' /\ Continues
<1>1. CASE mem' = [mem EXCEPT ![m] = mem[m]]
  <2>1. PICK s : s = mem[m]
    OBVIOUS
  <2>2. s \in Session /\ SessionOK(s)
    BY <2>1 DEF IInv, TypeInv, MemInv
  <2>3. s \in Session' /\ SessionOK(s)'
    BY <2>2, Others DEF IInv
  <2>4. mem' = [mem EXCEPT ![m] = s]
    BY <1>1, <2>1
  <2>q. QED
    BY <2>3, <2>4, OthersKnow
<1>2. CASE mem' = [mem EXCEPT ![m] = Closed]
  BY <1>2, ClosedStep
<1>q. QED
  BY <1>1, <1>2 DEF FailedWrite

(* A manager whose session is what it wrote.                                *)
LEMMA WriterKnows ==
  ASSUME IInv, DiskInv', Continues, NEW m \in Managers, NEW f, NEW es, NEW harmed, NEW s,
         f \in exists', WholeWrite(m, f, s, harmed, es), f \notin damaged' => Tree(es),
         s \in Session', s.file = f, s.entries = es, s.flushed,
         s.leaf \in IdsOf(s.entries) \union {0}
  PROVE  IInv' /\ Continues
<1>1. /\ mem' = [mem EXCEPT ![m] = s] /\ lines'[f] # <<>> /\ (f \notin damaged' => Loaded(f)' = es)
  BY DEF WholeWrite
<1>2. SessionOK(s)'
  BY <1>1, KnowsIf
<1>q. QED
  BY <1>1, <1>2, OthersKnow

LEMMA OpenEmptyStep ==
  ASSUME IInv, NEW m \in Managers, NEW f \in Files, OpenEmpty(m, f)
  PROVE  IInv' /\ Continues
<1>1. /\ names \in Nat /\ names' = names /\ names' \in 0..MaxFiles /\ ids \in Nat /\ ids' = ids
      /\ exists \subseteq 1..names /\ damaged \subseteq exists /\ f \in exists /\ lines[f] = <<>>
      /\ DiskInv
  BY DEF OpenEmpty, IInv, DiskInv, DiskType
<1>2. PICK es : es = <<>>
  OBVIOUS
<1>3. es \in Seq(Stored') /\ Tree(es) /\ IdsOf(es) = {}
  BY <1>2, EmptyIs
<1>4. PICK s : s = [Fresh(f) EXCEPT !.flushed = TRUE]
  OBVIOUS
<1>5. s = [file |-> f, entries |-> es, leaf |-> 0, flushed |-> TRUE, failed |-> FALSE]
  BY <1>2, <1>4 DEF Fresh, Closed
<1>6. s \in Session'
  BY <1>1, <1>3, <1>5 DEF Session
<1>7. PICK harmed : harmed = damaged \ {f}
  OBVIOUS
<1>8. LinesOf(es) = <<Line(Header)>>
  <2>1. PICK c : c = LinesOf(es)
    OBVIOUS
  <2>2. es \in Seq(Entry) /\ Len(es) = 0
    BY <1>2, EmptyIs
  <2>3. Len(c) = 1 /\ c[1] = Line(Header) /\ c \in Seq({Line(e) : e \in Entry \union {Header}})
    <3>1. /\ Len(c) = Len(es) + 1 /\ c[1] = Line(Header)
          /\ c \in Seq({Line(e) : e \in Entry \union {Header}})
      BY <2>1, <2>2, LinesOfIs
    <3>q. QED
      BY <2>2, <3>1
  <2>4. c = <<c[1]>>
    BY <2>3
  <2>q. QED
    BY <2>1, <2>3, <2>4
<1>9. PICK thrown : thrown = mem[m]
  OBVIOUS
<1>10. Rewrite(m, f, LinesOf(es), s, thrown, harmed)
  BY <1>4, <1>7, <1>8, <1>9 DEF OpenEmpty
<1>11. f <= names' /\ names <= names' /\ ids' \in Nat /\ ids <= ids'
  BY <1>1
<1>12. harmed \subseteq exists \union {f} /\ damaged \ {f} \subseteq harmed
  BY <1>1, <1>7
<1>13. /\ DiskInv' /\ Continues /\ f \in exists'
       /\ WholeWrite(m, f, s, harmed, es) \/ FailedWrite(m, f, thrown)
  BY <1>1, <1>3, <1>10, <1>11, <1>12, Rewritten
<1>14. CASE WholeWrite(m, f, s, harmed, es)
  <2>1. s.file = f /\ s.entries = es /\ s.flushed /\ s.leaf \in IdsOf(s.entries) \union {0}
    BY <1>5
  <2>q. QED
    BY <1>3, <1>6, <1>13, <1>14, <2>1, WriterKnows
<1>15. CASE FailedWrite(m, f, thrown)
  BY <1>9, <1>13, <1>15, ThrownBack
<1>q. QED
  BY <1>13, <1>14, <1>15

(* A new file.                                                              *)
LEMMA NewFile ==
  ASSUME IInv, names < MaxFiles, names' = names + 1, NEW g, g = names + 1
  PROVE  /\ g \in Files /\ g <= names' /\ g \notin exists /\ g \notin damaged /\ lines[g] = <<>>
         /\ names' \in 0..MaxFiles /\ names <= names' /\ g \in 1..names' /\ names' \in Nat
<1>1. names \in Nat /\ exists \subseteq 1..names /\ damaged \subseteq exists
  BY DEF IInv, DiskInv, DiskType
<1>2. g \in Files /\ g <= names' /\ g \notin exists
  BY <1>1, BoundAssumption DEF Files
<1>3. names' \in 0..MaxFiles /\ names <= names' /\ g \in 1..names'
  BY <1>1, BoundAssumption
<1>4. lines[g] = <<>>
  BY <1>2 DEF IInv, DiskInv, FileInv
<1>q. QED
  BY <1>1, <1>2, <1>3, <1>4

LEMMA ForkFromStep ==
  ASSUME IInv, NEW m \in Managers, NEW f \in Files, ForkFrom(m, f)
  PROVE  IInv' /\ Continues
<1>1. PICK g : g = names + 1
  OBVIOUS
<1>2. names < MaxFiles /\ Loadable(f) /\ names' = names + 1 /\ ids' = ids
  BY DEF ForkFrom
<1>3. /\ g \in Files /\ g <= names' /\ g \notin exists /\ g \notin damaged /\ lines[g] = <<>>
      /\ names' \in 0..MaxFiles /\ names <= names' /\ g \in 1..names' /\ names' \in Nat
  BY <1>1, <1>2, NewFile
<1>4. ids \in Nat /\ ids' \in Nat /\ ids <= ids' /\ damaged \subseteq exists /\ DiskInv
  BY <1>2 DEF IInv, DiskInv, DiskType
<1>5. PICK es : es = Loaded(f)
  OBVIOUS
<1>6. es \in Seq(Stored')
  <2>1. es \in Seq(Stored)
    BY <1>2, <1>4, <1>5, LoadedType DEF DiskInv
  <2>q. QED
    BY <1>4, <2>1, StoredGrows
<1>7. PICK s : s = Index(g, es)
  OBVIOUS
<1>8. /\ s \in Session' /\ s.file = g /\ s.entries = es /\ s.flushed
      /\ s.leaf \in IdsOf(s.entries) \union {0}
  BY <1>3, <1>6, <1>7, IndexKnows
<1>9. PICK harmed : harmed = damaged \union {names + 1 : x \in damaged \intersect {f}}
  OBVIOUS
<1>10. harmed \subseteq exists \union {g} /\ damaged \ {g} \subseteq harmed
  BY <1>1, <1>4, <1>9
<1>11. g \notin harmed => Tree(es)
  <2> SUFFICES ASSUME g \notin harmed PROVE Tree(es)
    OBVIOUS
  <2>1. f \notin damaged
    BY <1>1, <1>9
  <2>2. f \in exists
    BY <1>2 DEF Loadable
  <2>q. QED
    BY <1>4, <1>5, <2>1, <2>2 DEF DiskInv, WholeInv, Whole
<1>12. PICK thrown : thrown = mem[m]
  OBVIOUS
<1>13. Rewrite(m, g, LinesOf(es), s, thrown, harmed)
  BY <1>1, <1>5, <1>7, <1>9, <1>12 DEF ForkFrom
<1>14. /\ DiskInv' /\ Continues /\ g \in exists'
       /\ WholeWrite(m, g, s, harmed, es) \/ FailedWrite(m, g, thrown)
  BY <1>3, <1>4, <1>6, <1>10, <1>11, <1>13, Rewritten
<1>15. CASE WholeWrite(m, g, s, harmed, es)
  <2>1. damaged' = harmed
    BY <1>15 DEF WholeWrite
  <2>2. g \notin damaged' => Tree(es)
    BY <1>11, <2>1
  <2>q. QED
    BY <1>8, <1>14, <1>15, <2>2, WriterKnows
<1>16. CASE FailedWrite(m, g, thrown)
  BY <1>12, <1>14, <1>16, ThrownBack
<1>q. QED
  BY <1>14, <1>15, <1>16

------------------------------------------------------------------------------
(* Branches.                                                                *)

(* Arithmetic, apart from everything else.                                  *)
LEMMA Older ==
  ASSUME NEW a \in Nat, NEW b \in Nat, NEW c \in Nat, a <= b, b < c
  PROVE  a < c /\ a <= c
OBVIOUS

LEMMA Earlier ==
  ASSUME NEW a \in Nat, NEW b \in Nat, a < b
  PROVE  ~(b <= a)
OBVIOUS

(* Entries with an older parent each.                                       *)
Aged(S) == S \subseteq Entry /\ \A e \in S : e.parent < e.id

(* Entries that were handed out are younger than their parents.             *)
LEMMA StoredAged ==
  ASSUME ids \in Nat
  PROVE  Aged(Stored)
BY DEF Aged, Stored

LEMMA AgedIs ==
  ASSUME NEW S, Aged(S), NEW e \in S
  PROVE  e.id \in Nat \ {0} /\ e.parent \in Nat /\ e.parent < e.id
<1>1. e \in Entry /\ e.parent < e.id
  BY DEF Aged
<1>2. e.id \in Nat /\ e.parent \in Nat
  BY <1>1 DEF Entry
<1>q. QED
  BY <1>1, <1>2

(* byId finds an entry of the session with the id.                          *)
LEMMA ByIdIs ==
  ASSUME NEW es, NEW id \in IdsOf(es)
  PROVE  ById(es, id) \in Range(es) /\ ById(es, id).id = id
<1>1. \E i \in DOMAIN es : es[i].id = id
  BY DEF IdsOf
<1>2. PICK k : k = CHOOSE i \in DOMAIN es : es[i].id = id
  OBVIOUS
<1>3. k \in DOMAIN es /\ es[k].id = id
  BY <1>1, <1>2
<1>4. ById(es, id) = es[k]
  BY <1>2 DEF ById
<1>q. QED
  BY <1>3, <1>4 DEF Range

LEMMA RangeIn ==
  ASSUME NEW S, NEW es \in Seq(S)
  PROVE  Range(es) \subseteq S
BY DEF Range

(* What the function that walks to the root satisfies.                      *)
Walk(es, p) ==
  \A n \in Nat :
    p[n] = IF n \in IdsOf(es) THEN Append(p[ById(es, n).parent], ById(es, n)) ELSE <<>>
HasWalk(S, es) ==
  \E p \in [Nat -> Seq(S)] : Walk(es, p) /\ \A leaf \in Nat : Branch(es, leaf) = p[leaf]

(* It exists.                                                               *)
LEMMA BranchWalks ==
  ASSUME NEW S, Aged(S), NEW es \in Seq(S)
  PROVE  HasWalk(S, es)
<1>0. ASSUME NEW n \in IdsOf(es)
      PROVE  /\ ById(es, n) \in S /\ ById(es, n).id = n /\ n \in Nat \ {0}
             /\ ById(es, n).parent \in Nat /\ ById(es, n).parent < n
  <2>1. ById(es, n) \in S /\ ById(es, n).id = n
    BY <1>0, ByIdIs, RangeIn
  <2>q. QED
    BY <2>1, AgedIs
<1>1. PICK prev : prev = [n \in Nat \ {0} |-> IF n \in IdsOf(es) THEN ById(es, n).parent ELSE 0]
  OBVIOUS
<1>2. PICK h : h = [n \in Nat \ {0} |-> [x \in Seq(S) |->
                      IF n \in IdsOf(es) THEN Append(x, ById(es, n)) ELSE <<>>]]
  OBVIOUS
<1>3. prev \in [Nat \ {0} -> Nat] /\ \A n \in Nat \ {0} : prev[n] < n
  <2>1. \A n \in Nat \ {0} : prev[n] \in Nat /\ prev[n] < n
    BY <1>0, <1>1
  <2>q. QED
    BY <1>1, <2>1
<1>4. <<>> \in Seq(S)
  BY EmptyIs
<1>5. h \in [Nat \ {0} -> [Seq(S) -> Seq(S)]]
  <2>1. ASSUME NEW n \in Nat \ {0}, NEW x \in Seq(S)
        PROVE  (IF n \in IdsOf(es) THEN Append(x, ById(es, n)) ELSE <<>>) \in Seq(S)
    BY <1>0, <1>4
  <2>q. QED
    BY <1>2, <2>1
<1>6. \A n \in Nat \ {0}, x \in Seq(S) :
        h[n][x] = IF n \in IdsOf(es) THEN Append(x, ById(es, n)) ELSE <<>>
  BY <1>2
<1>7. PICK p \in [Nat -> Seq(S)] :
        \A n \in Nat : p[n] = IF n = 0 THEN <<>> ELSE h[n][p[prev[n]]]
  <2>1. \A n \in Nat \ {0} : prev[n] < n
    BY <1>3
  <2>2. prev \in [Nat \ {0} -> Nat]
    BY <1>3
  <2>3. Recursive(Seq(S), <<>>, prev, h)
    BY <1>4, <1>5, <2>1, <2>2, Recursion
  <2>q. QED
    BY <2>3 DEF Recursive
<1>8. Walk(es, p)
  <2>1. ASSUME NEW n \in Nat
        PROVE  p[n] = IF n \in IdsOf(es) THEN Append(p[ById(es, n).parent], ById(es, n)) ELSE <<>>
    <3>1. CASE n = 0
      <4>1. 0 \notin IdsOf(es)
        BY <1>0
      <4>q. QED
        BY <1>7, <3>1, <4>1
    <3>2. CASE n # 0
      <4>1. n \in Nat \ {0} /\ p[n] = h[n][p[prev[n]]]
        BY <1>7, <3>2
      <4>2. p[prev[n]] \in Seq(S)
        BY <1>3, <1>7, <4>1
      <4>3. p[n] = IF n \in IdsOf(es) THEN Append(p[prev[n]], ById(es, n)) ELSE <<>>
        BY <1>6, <4>1, <4>2
      <4>4. n \in IdsOf(es) => prev[n] = ById(es, n).parent
        BY <1>1, <4>1
      <4>q. QED
        BY <4>3, <4>4
    <3>q. QED
      BY <3>1, <3>2
  <2>q. QED
    BY <2>1 DEF Walk
<1> DEFINE Body(f) == [n \in Nat |-> IF n \in IdsOf(es)
                                     THEN Append(f[ById(es, n).parent], ById(es, n)) ELSE <<>>]
           f == CHOOSE g : g = Body(g)
<1>9. p = Body(p)
  BY <1>7, <1>8 DEF Walk
<1>10. \A leaf \in Nat : Branch(es, leaf) = f[leaf]
  BY DEF Branch
<1>11. f = Body(f)
  <2> HIDE DEF Body
  <2>q. QED
    BY <1>9
<1> HIDE DEF f
<1>12. Walk(es, f)
  BY <1>11 DEF Walk
<1>13. f \in [Nat -> Seq(S)]
  <2> DEFINE D == {n \in Nat : f[n] \notin Seq(S)}
  <2>1. ASSUME D # {} PROVE FALSE
    <3>1. D \in SUBSET Nat
      OBVIOUS
    <3>2. PICK n \in D : \A k \in D : n <= k
      <4> HIDE DEF D
      <4>q. QED
        BY <2>1, <3>1, Smallest
    <3>3. n \in Nat /\ f[n] \notin Seq(S)
      OBVIOUS
    <3>4. n \in IdsOf(es)
      BY <1>4, <1>12, <3>3 DEF Walk
    <3>5. PICK e : e = ById(es, n)
      OBVIOUS
    <3>6. e \in S /\ e.parent \in Nat /\ e.parent < n
      BY <1>0, <3>4, <3>5
    <3>7. f[e.parent] \in Seq(S)
      <4>1. e.parent \notin D
        <5> HIDE DEF D
        <5>q. QED
          BY <3>2, <3>3, <3>6, Earlier
      <4>q. QED
        BY <3>6, <4>1
    <3>8. f[n] = Append(f[e.parent], e)
      BY <1>12, <3>3, <3>4, <3>5 DEF Walk
    <3>q. QED
      BY <3>3, <3>6, <3>7, <3>8
  <2>2. \A n \in Nat : f[n] \in Seq(S)
    BY <2>1
  <2>3. f = [n \in Nat |-> f[n]]
    BY <1>11
  <2>q. QED
    BY <2>2, <2>3
<1>q. QED
  BY <1>10, <1>12, <1>13 DEF HasWalk

(* The ids of a branch rise.                                                *)
Rising(s) == \A i, j \in DOMAIN s : i < j => s[i].id < s[j].id

(* A younger entry may follow a rising path.                                *)
LEMMA RisingAppend ==
  ASSUME NEW S, Aged(S), NEW s \in Seq(S), NEW x \in S
  PROVE  Rising(Append(s, x)) <=> Rising(s) /\ \A y \in Range(s) : y.id < x.id
<1>1. PICK t : t = Append(s, x)
  OBVIOUS
<1>2. /\ Len(t) = Len(s) + 1 /\ t[Len(s) + 1] = x /\ Len(s) \in Nat
      /\ DOMAIN t = 1..Len(s) + 1 /\ DOMAIN s = 1..Len(s)
      /\ \A i \in 1..Len(s) : t[i] = s[i]
  BY <1>1
<1>3. ASSUME Rising(t) PROVE Rising(s) /\ \A y \in Range(s) : y.id < x.id
  <2>1. Rising(s)
    <3> SUFFICES ASSUME NEW i \in DOMAIN s, NEW j \in DOMAIN s, i < j PROVE s[i].id < s[j].id
      BY DEF Rising
    <3>1. i \in DOMAIN t /\ j \in DOMAIN t /\ t[i] = s[i] /\ t[j] = s[j]
      BY <1>2
    <3>q. QED
      BY <1>3, <3>1 DEF Rising
  <2>2. ASSUME NEW i \in DOMAIN s PROVE s[i].id < x.id
    <3>1. i \in DOMAIN t /\ Len(s) + 1 \in DOMAIN t /\ i < Len(s) + 1 /\ t[i] = s[i]
      BY <1>2
    <3>q. QED
      BY <1>2, <1>3, <3>1 DEF Rising
  <2>q. QED
    BY <2>1, <2>2 DEF Range
<1>4. ASSUME Rising(s), \A y \in Range(s) : y.id < x.id PROVE Rising(t)
  <2> SUFFICES ASSUME NEW i \in DOMAIN t, NEW j \in DOMAIN t, i < j PROVE t[i].id < t[j].id
    BY DEF Rising
  <2>1. i \in DOMAIN s /\ t[i] = s[i]
    BY <1>2
  <2>2. CASE j \in DOMAIN s
    <3>1. t[j] = s[j]
      BY <1>2, <2>2
    <3>q. QED
      BY <1>4, <2>1, <2>2, <3>1 DEF Rising
  <2>3. CASE j \notin DOMAIN s
    <3>1. t[j] = x
      BY <1>2, <2>3
    <3>2. s[i] \in Range(s)
      BY <2>1 DEF Range
    <3>q. QED
      BY <1>4, <2>1, <3>1, <3>2
  <2>q. QED
    BY <2>2, <2>3
<1>q. QED
  BY <1>1, <1>3, <1>4

(* A branch is made of entries of the session, the oldest first.            *)
BranchOf(S, es, leaf, path) ==
  /\ path \in Seq(S) /\ Rising(path) /\ Range(path) \subseteq Range(es)
  /\ \A y \in Range(path) : y.id <= leaf

LEMMA BranchIs ==
  ASSUME NEW S, Aged(S), NEW es \in Seq(S), NEW leaf \in Nat
  PROVE  BranchOf(S, es, leaf, Branch(es, leaf))
<1>1. PICK p \in [Nat -> Seq(S)] : Walk(es, p) /\ \A n \in Nat : Branch(es, n) = p[n]
  BY BranchWalks DEF HasWalk
<1> DEFINE D == {n \in Nat : ~BranchOf(S, es, n, p[n])}
<1>2. ASSUME D # {} PROVE FALSE
  <2>1. D \in SUBSET Nat
    OBVIOUS
  <2>2. PICK n \in D : \A k \in D : n <= k
    <3> HIDE DEF D
    <3>q. QED
      BY <1>2, <2>1, Smallest
  <2>3. n \in Nat /\ ~BranchOf(S, es, n, p[n])
    OBVIOUS
  <2>4. CASE n \notin IdsOf(es)
    <3>1. p[n] = <<>>
      BY <1>1, <2>3, <2>4 DEF Walk
    <3>2. <<>> \in Seq(S) /\ Range(<<>>) = {}
      BY EmptyIs
    <3>3. Rising(<<>>)
      BY DEF Rising
    <3>q. QED
      BY <2>3, <3>1, <3>2, <3>3 DEF BranchOf
  <2>5. CASE n \in IdsOf(es)
    <3>1. PICK e : e = ById(es, n)
      OBVIOUS
    <3>2. e \in S /\ e \in Range(es) /\ e.id = n
      BY <2>5, <3>1, ByIdIs, RangeIn
    <3>3. e.parent \in Nat /\ e.parent < n
      BY <3>2, AgedIs
    <3>4. BranchOf(S, es, e.parent, p[e.parent])
      BY <2>2, <2>3, <3>3
    <3>5. PICK s : s = p[e.parent]
      OBVIOUS
    <3>6. s \in Seq(S) /\ Rising(s) /\ Range(s) \subseteq Range(es) /\ \A y \in Range(s) : y.id <= e.parent
      BY <3>4, <3>5 DEF BranchOf
    <3>7. p[n] = Append(s, e)
      BY <1>1, <2>3, <2>5, <3>1, <3>5 DEF Walk
    <3>8. \A y \in Range(s) : y.id \in Nat /\ y.id < n /\ y.id <= n
      <4> SUFFICES ASSUME NEW y \in Range(s) PROVE y.id \in Nat /\ y.id < n /\ y.id <= n
        OBVIOUS
      <4>1. y.id \in Nat
        BY <3>6, RangeIn, AgedIs
      <4>2. y.id <= e.parent
        BY <3>6
      <4>q. QED
        BY <2>3, <3>3, <4>1, <4>2, Older
    <3>9. Rising(Append(s, e))
      BY <3>2, <3>6, <3>8, RisingAppend
    <3>10. Append(s, e) \in Seq(S) /\ Range(Append(s, e)) = Range(s) \union {e}
      BY <3>2, <3>6, EntryMore
    <3>11. \A y \in Range(Append(s, e)) : y.id <= n
      BY <2>3, <3>2, <3>8, <3>10
    <3>12. Range(Append(s, e)) \subseteq Range(es)
      BY <3>2, <3>6, <3>10
    <3>q. QED
      BY <2>3, <3>7, <3>9, <3>10, <3>11, <3>12 DEF BranchOf
  <2>q. QED
    BY <2>4, <2>5
<1>3. BranchOf(S, es, leaf, p[leaf])
  BY <1>2
<1>q. QED
  BY <1>1, <1>3

(* A part of a session has the branches of the session.                     *)
LEMMA SameBranch ==
  ASSUME NEW S, Aged(S), NEW es \in Seq(S), NEW fs \in Seq(S), Range(es) \subseteq Range(fs),
         Unique(fs), ParentsFirst(es), NEW leaf \in IdsOf(es) \union {0}
  PROVE  Branch(fs, leaf) = Branch(es, leaf)
<1>1. PICK p \in [Nat -> Seq(S)] : Walk(es, p) /\ \A n \in Nat : Branch(es, n) = p[n]
  BY BranchWalks DEF HasWalk
<1>2. PICK q \in [Nat -> Seq(S)] : Walk(fs, q) /\ \A n \in Nat : Branch(fs, n) = q[n]
  BY BranchWalks DEF HasWalk
<1>3. \A x \in IdsOf(es) \union {0} : x \in Nat
  <2>1. \A x \in IdsOf(es) : ById(es, x) \in S /\ ById(es, x).id = x
    BY ByIdIs, RangeIn
  <2>q. QED
    BY <2>1, AgedIs
<1> DEFINE D == {n \in Nat : n \in IdsOf(es) \union {0} /\ q[n] # p[n]}
<1>4. ASSUME D # {} PROVE FALSE
  <2>1. D \in SUBSET Nat
    OBVIOUS
  <2>2. PICK n \in D : \A k \in D : n <= k
    <3> HIDE DEF D
    <3>q. QED
      BY <1>4, <2>1, Smallest
  <2>3. n \in Nat /\ n \in IdsOf(es) \union {0} /\ q[n] # p[n]
    OBVIOUS
  <2>4. CASE n \in IdsOf(es)
    <3>1. PICK e : e = ById(es, n)
      OBVIOUS
    <3>2. e \in Range(es) /\ e.id = n /\ e \in S
      BY <2>4, <3>1, ByIdIs, RangeIn
    <3>3. n \in IdsOf(fs)
      BY <2>4, IdsOfPart
    <3>4. ById(fs, n) \in Range(fs) /\ ById(fs, n).id = n
      BY <3>3, ByIdIs
    <3>5. ById(fs, n) = e
      <4>1. PICK i \in DOMAIN fs : fs[i] = e
        BY <3>2 DEF Range
      <4>2. PICK j \in DOMAIN fs : fs[j] = ById(fs, n)
        BY <3>4 DEF Range
      <4>q. QED
        BY <3>2, <3>4, <4>1, <4>2 DEF Unique
    <3>6. e.parent \in Nat /\ e.parent < n
      BY <3>2, AgedIs
    <3>7. e.parent \in IdsOf(es) \union {0}
      <4>1. PICK i \in DOMAIN es : es[i] = e
        BY <3>2 DEF Range
      <4>2. e.parent = 0 \/ \E j \in 1..(i - 1) : es[j].id = e.parent
        BY <4>1 DEF ParentsFirst
      <4>3. 1..(i - 1) \subseteq DOMAIN es
        OBVIOUS
      <4>q. QED
        BY <4>2, <4>3 DEF IdsOf
    <3>8. q[e.parent] = p[e.parent]
      <4>1. e.parent \notin D
        <5> HIDE DEF D
        <5>q. QED
          BY <2>2, <2>3, <3>6, Earlier
      <4>q. QED
        BY <3>6, <3>7, <4>1
    <3>9. p[n] = Append(p[e.parent], e)
      BY <1>1, <2>3, <2>4, <3>1 DEF Walk
    <3>10. q[n] = Append(q[e.parent], e)
      BY <1>2, <2>3, <3>3, <3>5 DEF Walk
    <3>q. QED
      BY <2>3, <3>8, <3>9, <3>10
  <2>5. CASE n = 0 /\ n \notin IdsOf(es)
    <3>1. 0 \notin IdsOf(fs)
      <4>1. \A x \in IdsOf(fs) : ById(fs, x) \in S /\ ById(fs, x).id = x
        BY ByIdIs, RangeIn
      <4>q. QED
        BY <4>1, AgedIs
    <3>2. p[0] = <<>> /\ q[0] = <<>>
      BY <1>1, <1>2, <2>5, <3>1 DEF Walk
    <3>q. QED
      BY <2>3, <2>5, <3>2
  <2>q. QED
    BY <2>3, <2>4, <2>5
<1>5. leaf \in Nat
  BY <1>3
<1>6. q[leaf] = p[leaf]
  BY <1>4, <1>5
<1>q. QED
  BY <1>1, <1>2, <1>5, <1>6

------------------------------------------------------------------------------
(* A fork: the branch without its labels, then the labels to write again.   *)

(* A filtered sequence has the elements that pass the test.                 *)
LEMMA SelectedRange ==
  ASSUME NEW T, NEW s \in Seq(T), NEW S
  PROVE  Range(Selected(s, S)) = Range(s) \intersect S
<1> DEFINE Good == {r \in Seq(T) : Range(Selected(r, S)) = Range(r) \intersect S}
<1>1. <<>> \in Good
  <2>1. <<>> \in Seq(T) /\ Range(<<>>) = {}
    BY EmptyIs
  <2>q. QED
    BY <2>1, SelectedEmpty
<1>2. ASSUME NEW r \in Good, NEW x \in T PROVE Append(r, x) \in Good
  <2>1. r \in Seq(T) /\ Range(Selected(r, S)) = Range(r) \intersect S
    OBVIOUS
  <2>2. PICK q : q = Selected(r, S)
    OBVIOUS
  <2>3. q \in Seq(T)
    BY <2>1, <2>2, SelectedType
  <2>4. Selected(Append(r, x), S) = IF x \in S THEN Append(q, x) ELSE q
    BY <2>1, <2>2, SelectedAppend
  <2>5. Append(r, x) \in Seq(T) /\ Range(Append(r, x)) = Range(r) \union {x}
    BY <2>1, EntryMore
  <2>6. Range(Append(q, x)) = Range(q) \union {x}
    BY <2>3, EntryMore
  <2>q. QED
    BY <2>1, <2>2, <2>4, <2>5, <2>6
<1>3. Good = Seq(T)
  <2> HIDE DEF Good
  <2>1. Good \in SUBSET Seq(T)
    BY DEF Good
  <2>q. QED
    BY <1>1, <1>2, <2>1, SequenceInduction
<1>q. QED
  BY <1>3

(* Filtering keeps the order of ids.                                        *)
LEMMA SelectedRising ==
  ASSUME NEW T, Aged(T), NEW s \in Seq(T), NEW S, Rising(s)
  PROVE  Rising(Selected(s, S))
<1> DEFINE Good == {r \in Seq(T) : Rising(r) => Rising(Selected(r, S))}
<1>1. <<>> \in Good
  <2>1. <<>> \in Seq(T)
    BY EmptyIs
  <2>2. Rising(<<>>)
    BY DEF Rising
  <2>q. QED
    BY <2>1, <2>2, SelectedEmpty
<1>2. ASSUME NEW r \in Good, NEW x \in T PROVE Append(r, x) \in Good
  <2>1. r \in Seq(T) /\ (Rising(r) => Rising(Selected(r, S)))
    OBVIOUS
  <2>2. PICK q : q = Selected(r, S)
    OBVIOUS
  <2>3. q \in Seq(T) /\ Range(q) = Range(r) \intersect S
    BY <2>1, <2>2, SelectedType, SelectedRange
  <2>4. Selected(Append(r, x), S) = IF x \in S THEN Append(q, x) ELSE q
    BY <2>1, <2>2, SelectedAppend
  <2>5. Rising(Append(r, x)) => Rising(r) /\ \A y \in Range(r) : y.id < x.id
    BY <2>1, RisingAppend
  <2>6. Rising(q) /\ (\A y \in Range(q) : y.id < x.id) => Rising(Append(q, x))
    BY <2>3, RisingAppend
  <2>7. Append(r, x) \in Seq(T)
    BY <2>1
  <2>8. Rising(Append(r, x)) => Rising(Selected(Append(r, x), S))
    BY <2>1, <2>2, <2>3, <2>4, <2>5, <2>6
  <2>q. QED
    BY <2>7, <2>8
<1>3. Good = Seq(T)
  <2> HIDE DEF Good
  <2>1. Good \in SUBSET Seq(T)
    BY DEF Good
  <2>q. QED
    BY <1>1, <1>2, <2>1, SequenceInduction
<1>q. QED
  BY <1>3

(* A root, and each further entry a child of the one before it.             *)
Chain(es) == \A i \in DOMAIN es : es[i].parent = IF i = 1 THEN 0 ELSE es[i - 1].id

(* A path of entries, each a child of the one before, is a tree.            *)
LEMMA ChainIsTree ==
  ASSUME NEW S, Aged(S), NEW es \in Seq(S), Rising(es), Chain(es)
  PROVE  Tree(es)
<1>1. DOMAIN es = 1..Len(es) /\ Len(es) \in Nat
  OBVIOUS
<1>2. \A i \in DOMAIN es : es[i].id \in Nat
  BY <1>1, ElementIn, AgedIs
<1>3. ParentsFirst(es)
  <2> SUFFICES ASSUME NEW i \in DOMAIN es, es[i].parent # 0
               PROVE  \E j \in 1..(i - 1) : es[j].id = es[i].parent
    BY DEF ParentsFirst
  <2>1. i # 1 /\ es[i - 1].id = es[i].parent
    BY DEF Chain
  <2>2. i - 1 \in 1..(i - 1)
    BY <1>1, <2>1
  <2>q. QED
    BY <2>1, <2>2
<1>4. Unique(es)
  <2> SUFFICES ASSUME NEW i \in DOMAIN es, NEW j \in DOMAIN es, es[i].id = es[j].id PROVE i = j
    BY DEF Unique
  <2>1. ~(i < j) /\ ~(j < i)
    <3>1. i < j => es[i].id < es[j].id
      BY DEF Rising
    <3>2. j < i => es[j].id < es[i].id
      BY DEF Rising
    <3>q. QED
      BY <1>2, <3>1, <3>2
  <2>q. QED
    BY <1>1, <2>1
<1>q. QED
  BY <1>3, <1>4 DEF Tree

(* The branch without its labels.                                           *)
LEMMA RechainedIs ==
  ASSUME NEW S, Aged(S), \A e \in S : \A n \in Nat : n < e.id => [e EXCEPT !.parent = n] \in S,
         NEW path \in Seq(S), Rising(path)
  PROVE  /\ Rechained(path) \in Seq(S) /\ Rising(Rechained(path)) /\ Chain(Rechained(path))
         /\ \A e \in Range(Rechained(path)) : ~IsLabel(e)
         /\ IdsOf(Rechained(path)) = {e.id : e \in {x \in Range(path) : ~IsLabel(x)}}
<1>1. PICK kept : kept = Selected(path, Unlabelled)
  OBVIOUS
<1>2. kept \in Seq(S) /\ Rising(kept) /\ Range(kept) = Range(path) \intersect Unlabelled
  BY <1>1, SelectedType, SelectedRising, SelectedRange
<1>3. PICK q : q = [i \in DOMAIN kept |-> [kept[i] EXCEPT !.parent = IF i = 1 THEN 0 ELSE kept[i - 1].id]]
  OBVIOUS
<1>4. Rechained(path) = q
  BY <1>1, <1>3 DEF Rechained
<1>5. DOMAIN kept = 1..Len(kept) /\ Len(kept) \in Nat /\ DOMAIN q = 1..Len(kept)
  BY <1>2, <1>3
<1>6. ASSUME NEW i \in DOMAIN kept
      PROVE  /\ q[i] \in S /\ q[i].id = kept[i].id /\ q[i].kind = kept[i].kind
             /\ q[i].parent = IF i = 1 THEN 0 ELSE kept[i - 1].id
  <2>1. PICK n : n = IF i = 1 THEN 0 ELSE kept[i - 1].id
    OBVIOUS
  <2>2. PICK e : e = kept[i]
    OBVIOUS
  <2>3. e \in S /\ e \in Entry /\ e.id \in Nat \ {0}
    <3>1. e \in S
      BY <1>2, <1>5, <2>2, ElementIn
    <3>q. QED
      BY <3>1, AgedIs DEF Aged
  <2>4. n \in Nat /\ n < e.id
    <3>1. CASE i = 1
      BY <2>1, <2>3, <3>1
    <3>2. CASE i # 1
      <4>1. i - 1 \in DOMAIN kept /\ i - 1 < i
        BY <1>5, <3>2
      <4>2. kept[i - 1] \in S
        BY <1>2, <1>5, <4>1, ElementIn
      <4>3. kept[i - 1].id \in Nat
        BY <4>2, AgedIs
      <4>4. kept[i - 1].id < kept[i].id
        BY <1>2, <4>1 DEF Rising
      <4>q. QED
        BY <2>1, <2>2, <3>2, <4>3, <4>4
    <3>q. QED
      BY <3>1, <3>2
  <2>5. PICK x : x = [e EXCEPT !.parent = n]
    OBVIOUS
  <2>6. x \in S
    BY <2>3, <2>4, <2>5
  <2>7. x.id = e.id /\ x.kind = e.kind /\ x.parent = n
    BY <2>3, <2>5 DEF Entry
  <2>8. q[i] = x
    BY <1>3, <2>1, <2>2, <2>5
  <2>q. QED
    BY <2>1, <2>2, <2>6, <2>7, <2>8
<1>7. q \in Seq(S) /\ Len(q) = Len(kept)
  <2>1. q = [i \in 1..Len(kept) |-> q[i]]
    BY <1>3, <1>5
  <2>2. \A i \in 1..Len(kept) : q[i] \in S
    BY <1>5, <1>6
  <2>q. QED
    BY <1>5, <2>1, <2>2
<1>8. Rising(q)
  <2> SUFFICES ASSUME NEW i \in DOMAIN q, NEW j \in DOMAIN q, i < j PROVE q[i].id < q[j].id
    BY DEF Rising
  <2>1. i \in DOMAIN kept /\ j \in DOMAIN kept
    BY <1>5
  <2>2. kept[i].id < kept[j].id
    BY <1>2, <2>1 DEF Rising
  <2>q. QED
    BY <1>6, <2>1, <2>2
<1>9. Chain(q)
  <2> SUFFICES ASSUME NEW i \in DOMAIN q PROVE q[i].parent = IF i = 1 THEN 0 ELSE q[i - 1].id
    BY DEF Chain
  <2>1. i \in DOMAIN kept /\ (i # 1 => i - 1 \in DOMAIN kept)
    BY <1>5
  <2>q. QED
    BY <1>6, <2>1
<1>10. \A e \in S : e \in Unlabelled <=> ~IsLabel(e)
  BY DEF Unlabelled, Aged
<1>11. Range(path) \subseteq S /\ Range(kept) \subseteq S
  BY <1>2, RangeIn
<1>12. \A e \in Range(q) : ~IsLabel(e)
  <2> SUFFICES ASSUME NEW i \in DOMAIN q PROVE ~IsLabel(q[i])
    BY DEF Range
  <2>1. i \in DOMAIN kept /\ q[i].kind = kept[i].kind
    BY <1>5, <1>6
  <2>2. kept[i] \in Range(kept)
    BY <2>1 DEF Range
  <2>3. ~IsLabel(kept[i])
    BY <1>2, <1>10, <1>11, <2>2
  <2>q. QED
    BY <2>1, <2>3 DEF IsLabel
<1>13. IdsOf(q) = IdsOf(kept)
  BY <1>5, <1>6 DEF IdsOf
<1>14. IdsOf(kept) = {e.id : e \in Range(kept)}
  BY DEF IdsOf, Range
<1>15. Range(kept) = {x \in Range(path) : ~IsLabel(x)}
  BY <1>2, <1>10, <1>11
<1>q. QED
  BY <1>4, <1>7, <1>8, <1>9, <1>12, <1>13, <1>14, <1>15

(* The elements of a finite set, one after the other.                       *)
Lists(s, S) == s \in Seq(S) /\ Range(s) = S

LEMMA SetAsSeq ==
  ASSUME NEW S, IsFiniteSet(S)
  PROVE  Lists(SetToSeq(S), S)
<1>1. PICK n \in Nat : n = Cardinality(S)
  BY FS_CardinalityType
<1>2. ExistsBijection(1..n, S)
  BY <1>1, FS_CardinalityType
<1>3. PICK b : b \in [1..n -> S] /\ IsInjective(b)
  BY <1>2 DEF ExistsBijection, Bijection, Injection, IsInjective
<1>4. PICK f : f = SetToSeq(S)
  OBVIOUS
<1>5. f \in [1..n -> S] /\ IsInjective(f)
  BY <1>1, <1>3, <1>4 DEF SetToSeq
<1>6. f \in Injection(1..n, S)
  BY <1>5 DEF Injection, IsInjective
<1>7. Cardinality(1..n) = n
  BY FS_Interval
<1>8. f \in Surjection(1..n, S)
  BY <1>1, <1>6, <1>7, FS_Injection
<1>9. f \in Seq(S) /\ DOMAIN f = 1..n
  BY <1>5
<1>10. Range(f) = S
  BY <1>5, <1>8, <1>9 DEF Range, Surjection
<1>q. QED
  BY <1>4, <1>9, <1>10 DEF Lists

(* A session has finitely many ids.                                         *)
LEMMA IdsAreFinite ==
  ASSUME NEW S, NEW es \in Seq(S)
  PROVE  IsFiniteSet(IdsOf(es))
<1>1. PICK n \in Nat : n = Len(es)
  OBVIOUS
<1>2. DOMAIN es = 1..n
  BY <1>1
<1>3. PICK f : f = [i \in 1..n |-> es[i].id]
  OBVIOUS
<1>4. f \in Surjection(1..n, IdsOf(es))
  BY <1>2, <1>3 DEF Surjection, IdsOf
<1>5. IsFiniteSet(1..n)
  BY FS_Interval
<1>q. QED
  BY <1>4, <1>5, FS_Surjection

(* What a concatenation is made of.                                         *)
LEMMA ConcatIs ==
  ASSUME NEW T, NEW s \in Seq(T), NEW t \in Seq(T), NEW w, w = s \o t
  PROVE  /\ w \in Seq(T) /\ Len(w) = Len(s) + Len(t)
         /\ \A i \in 1..Len(s) : w[i] = s[i]
         /\ \A i \in 1..Len(t) : w[Len(s) + i] = t[i]
<1>1. w \in Seq(T) /\ Len(w) = Len(s) + Len(t)
  OBVIOUS
<1>2. \A i \in 1..Len(s) : w[i] = s[i]
  OBVIOUS
<1>3. \A i \in 1..Len(t) : w[Len(s) + i] = t[i]
  OBVIOUS
<1>q. QED
  BY <1>1, <1>2, <1>3

(* The labels that are written behind a path, one a child of the other.     *)
LabelsBehind(path, targets) ==
  [i \in DOMAIN targets |->
     [id |-> ids + i,
      parent |-> IF i = 1 THEN IF path = <<>> THEN 0 ELSE Last(path).id ELSE ids + i - 1,
      kind |-> "label", ref |-> targets[i]]]

(* The labels written behind a path are new entries, each a child of the    *)
(* one before.                                                              *)
AreBehind(T, ls, path, targets) ==
  /\ ls \in Seq(T) /\ Len(ls) = Len(targets)
  /\ \A i \in 1..Len(ls) :
       /\ ls[i].id = ids + i /\ ls[i].kind = "label" /\ ls[i].ref = targets[i]
       /\ ls[i].parent = IF i = 1 THEN IF path = <<>> THEN 0 ELSE Last(path).id ELSE ids + i - 1

LEMMA LabelsAre ==
  ASSUME ids \in Nat, ids' \in Nat, NEW path \in Seq(Stored), NEW targets \in Seq(Nat),
         ids' = ids + Len(targets)
  PROVE  AreBehind(Stored', LabelsBehind(path, targets), path, targets)
<1>0. PICK ls : ls = LabelsBehind(path, targets)
  OBVIOUS
<1>1. DOMAIN targets = 1..Len(targets) /\ Len(targets) \in Nat
  OBVIOUS
<1>2. (IF path = <<>> THEN 0 ELSE Last(path).id) \in 0..ids
  <2>1. path # <<>> => Len(path) \in 1..Len(path)
    OBVIOUS
  <2>2. path # <<>> => Last(path) \in Stored
    BY <2>1, ElementIn DEF Last
  <2>q. QED
    BY <2>2 DEF Stored
<1>3. ASSUME NEW i \in 1..Len(targets)
      PROVE  /\ ls[i] \in Stored'
             /\ ls[i].id = ids + i /\ ls[i].kind = "label" /\ ls[i].ref = targets[i]
             /\ ls[i].parent = IF i = 1 THEN IF path = <<>> THEN 0 ELSE Last(path).id ELSE ids + i - 1
  <2>1. PICK n : n = IF i = 1 THEN IF path = <<>> THEN 0 ELSE Last(path).id ELSE ids + i - 1
    OBVIOUS
  <2>2. PICK e : e = [id |-> ids + i, parent |-> n, kind |-> "label", ref |-> targets[i]]
    OBVIOUS
  <2>3. ls[i] = e
    BY <1>0, <1>1, <2>1, <2>2 DEF LabelsBehind
  <2>4. n \in Nat /\ n < ids + i /\ ids + i \in 1..ids'
    BY <1>2, <2>1
  <2>5. targets[i] \in Nat
    BY ElementIn
  <2>6. e \in Entry
    BY <2>2, <2>4, <2>5 DEF Entry, Kinds
  <2>7. e.id = ids + i /\ e.parent = n
    BY <2>2
  <2>8. e \in Stored'
    BY <2>4, <2>6, <2>7 DEF Stored
  <2>q. QED
    BY <2>1, <2>2, <2>3, <2>8
<1>4. ls = [i \in 1..Len(targets) |-> ls[i]]
  BY <1>0, <1>1 DEF LabelsBehind
<1>5. ls \in Seq(Stored') /\ Len(ls) = Len(targets)
  BY <1>1, <1>3, <1>4
<1>q. QED
  BY <1>0, <1>3, <1>5 DEF AreBehind

(* The entries of a fork are a tree.                                        *)
LEMMA ForkIsTree ==
  ASSUME ids \in Nat, ids' \in Nat, NEW path \in Seq(Stored), NEW targets \in Seq(Nat),
         ids' = ids + Len(targets), Rising(path), Chain(path),
         NEW w, w = path \o LabelsBehind(path, targets)
  PROVE  w \in Seq(Stored') /\ Tree(w) /\ Rising(w) /\ Chain(w)
<1>1. PICK ls : ls = LabelsBehind(path, targets)
  OBVIOUS
<1>2. /\ ls \in Seq(Stored') /\ Len(ls) = Len(targets)
      /\ \A i \in 1..Len(ls) :
           /\ ls[i].id = ids + i
           /\ ls[i].parent = IF i = 1 THEN IF path = <<>> THEN 0 ELSE Last(path).id ELSE ids + i - 1
  <2>1. AreBehind(Stored', LabelsBehind(path, targets), path, targets)
    BY LabelsAre
  <2>q. QED
    BY <1>1, <2>1 DEF AreBehind
<1>3. PICK T : T = Stored'
  OBVIOUS
<1>4. path \in Seq(T) /\ ls \in Seq(T) /\ w = path \o ls /\ Aged(T)
  <2>1. path \in Seq(Stored')
    BY StoredGrows
  <2>2. Aged(T)
    BY <1>3 DEF Aged, Stored, Entry, Kinds, PlainKinds
  <2>q. QED
    BY <1>1, <1>2, <1>3, <2>1, <2>2
<1>5. /\ w \in Seq(T) /\ Len(w) = Len(path) + Len(ls)
      /\ \A i \in 1..Len(path) : w[i] = path[i]
      /\ \A i \in 1..Len(ls) : w[Len(path) + i] = ls[i]
  BY <1>4, ConcatIs
<1>6. /\ Len(path) \in Nat /\ Len(ls) \in Nat /\ DOMAIN w = 1..Len(path) + Len(ls)
      /\ DOMAIN path = 1..Len(path)
  BY <1>4, <1>5
<1>7. ASSUME NEW i \in DOMAIN w
      PROVE  \/ i \in 1..Len(path) /\ w[i] = path[i] /\ w[i].id \in 1..ids
             \/ /\ i - Len(path) \in 1..Len(ls) /\ w[i] = ls[i - Len(path)]
                /\ w[i].id = ids + (i - Len(path))
  <2>1. CASE i <= Len(path)
    <3>1. i \in 1..Len(path)
      BY <1>6, <2>1
    <3>2. path[i] \in Stored
      BY <3>1, ElementIn
    <3>q. QED
      BY <1>5, <3>1, <3>2 DEF Stored
  <2>2. CASE i > Len(path)
    <3>1. PICK j : j = i - Len(path)
      OBVIOUS
    <3>2. j \in 1..Len(ls) /\ Len(path) + j = i
      BY <1>6, <2>2, <3>1
    <3>3. w[Len(path) + j] = ls[j] /\ ls[j].id = ids + j
      BY <1>2, <1>5, <3>2
    <3>q. QED
      BY <3>1, <3>2, <3>3
  <2>3. i \in 1..Len(path) + Len(ls)
    BY <1>6
  <2>4. i <= Len(path) \/ i > Len(path)
    BY <1>6, <2>3
  <2>q. QED
    BY <2>1, <2>2, <2>4
<1>8. Rising(w)
  <2> SUFFICES ASSUME NEW i \in DOMAIN w, NEW j \in DOMAIN w, i < j PROVE w[i].id < w[j].id
    BY DEF Rising
  <2>1. CASE j \in 1..Len(path)
    <3>1. i \in 1..Len(path)
      BY <1>6, <2>1
    <3>2. w[i] = path[i] /\ w[j] = path[j]
      BY <1>5, <2>1, <3>1
    <3>q. QED
      BY <1>6, <2>1, <3>1, <3>2 DEF Rising
  <2>2. CASE j \notin 1..Len(path)
    <3>1. j - Len(path) \in 1..Len(ls) /\ w[j].id = ids + (j - Len(path))
      BY <1>7, <2>2
    <3>1a. PICK k \in Nat \ {0} : k = j - Len(path)
      BY <1>6, <3>1
    <3>1b. w[j].id = ids + k
      BY <3>1, <3>1a
    <3>2. CASE w[i].id \in 1..ids
      <4>1. PICK a \in 1..ids : a = w[i].id
        BY <3>2
      <4>2. a < ids + k
        OBVIOUS
      <4>q. QED
        BY <3>1b, <4>1, <4>2
    <3>3. CASE w[i].id = ids + (i - Len(path))
      <4>1. PICK a \in Int : a = i - Len(path)
        BY <1>6
      <4>2. a < k
        BY <1>6, <3>1a, <4>1
      <4>3. ids + a < ids + k
        BY <4>2
      <4>q. QED
        BY <3>1b, <3>3, <4>1, <4>3
    <3>q. QED
      BY <1>7, <3>2, <3>3
  <2>q. QED
    BY <2>1, <2>2
<1>9. Chain(w)
  <2> SUFFICES ASSUME NEW i \in DOMAIN w PROVE w[i].parent = IF i = 1 THEN 0 ELSE w[i - 1].id
    BY DEF Chain
  <2>1. CASE i \in 1..Len(path)
    <3>1. w[i] = path[i] /\ i \in DOMAIN path
      BY <1>5, <1>6, <2>1
    <3>2. path[i].parent = IF i = 1 THEN 0 ELSE path[i - 1].id
      BY <3>1 DEF Chain
    <3>3. i # 1 => w[i - 1] = path[i - 1]
      BY <1>5, <1>6, <2>1
    <3>q. QED
      BY <3>1, <3>2, <3>3
  <2>2. CASE i \notin 1..Len(path)
    <3>0. PICK j : j = i - Len(path)
      OBVIOUS
    <3>1. j \in 1..Len(ls) /\ w[i] = ls[j] /\ i = Len(path) + j
      <4>1. j \in 1..Len(ls) /\ w[i] = ls[j]
        BY <1>7, <2>2, <3>0
      <4>2. i \in Nat /\ Len(path) \in Nat
        BY <1>6
      <4>q. QED
        BY <3>0, <4>1, <4>2
    <3>2. ls[j].parent = IF j = 1 THEN IF path = <<>> THEN 0 ELSE Last(path).id ELSE ids + j - 1
      BY <1>2, <3>1
    <3>3. CASE j = 1 /\ path = <<>>
      <4>1. i = 1
        BY <1>6, <3>1, <3>3
      <4>q. QED
        BY <3>1, <3>2, <3>3, <4>1
    <3>4. CASE j = 1 /\ path # <<>>
      <4>1. w[i].parent = path[Len(path)].id
        BY <3>1, <3>2, <3>4 DEF Last
      <4>2. Len(path) \in 1..Len(path) /\ i - 1 = Len(path) /\ i # 1
        BY <1>4, <1>6, <3>1, <3>4
      <4>3. w[i - 1] = path[Len(path)]
        BY <1>5, <4>2
      <4>q. QED
        BY <4>1, <4>2, <4>3
    <3>5. CASE j # 1
      <4>1. j - 1 \in 1..Len(ls) /\ Len(path) + (j - 1) = i - 1 /\ i # 1
        BY <1>6, <3>1, <3>5
      <4>2. w[Len(path) + (j - 1)] = ls[j - 1] /\ ls[j - 1].id = ids + (j - 1)
        BY <1>2, <1>5, <4>1
      <4>3. ids + (j - 1) = ids + j - 1
        BY <1>6, <3>1
      <4>q. QED
        BY <3>1, <3>2, <3>5, <4>1, <4>2, <4>3
    <3>q. QED
      BY <3>3, <3>4, <3>5
  <2>q. QED
    BY <2>1, <2>2
<1>10. Tree(w)
  BY <1>4, <1>5, <1>8, <1>9, ChainIsTree
<1>q. QED
  BY <1>3, <1>5, <1>8, <1>9, <1>10

(* What a fork of a session is made of.                                     *)
ForkPath(m, leaf) == Rechained(Branch(Loaded(mem[m].file), leaf))
ForkTargets(m, leaf) == LabelsToWrite(Loaded(mem[m].file), ForkPath(m, leaf))
ForkEntries(m, leaf) == ForkPath(m, leaf) \o LabelsBehind(ForkPath(m, leaf), ForkTargets(m, leaf))

(* The path of a fork has no label and the ids of the branch without its    *)
(* labels, and the labels to write again are those of the session that name *)
(* one of them.                                                             *)
LEMMA ForkParts ==
  ASSUME IInv, NEW m \in Managers, IsOpen(m), Loadable(mem[m].file),
  NEW leaf \in IdsOf(Loaded(mem[m].file)),
         NEW es, es = Loaded(mem[m].file), NEW path, path = ForkPath(m, leaf),
         NEW targets, targets = ForkTargets(m, leaf)
  PROVE  /\ es \in Seq(Stored) /\ leaf \in Nat
         /\ path \in Seq(Stored) /\ Rising(path) /\ Chain(path)
         /\ \A e \in Range(path) : ~IsLabel(e)
         /\ IdsOf(path) = {e.id : e \in {x \in Range(Branch(es, leaf)) : ~IsLabel(x)}}
         /\ targets \in Seq(Nat) /\ Range(targets) = Labelled(es) \intersect IdsOf(path)
<1>1. mem[m].file \in Files /\ ids \in Nat /\ DiskType /\ FileInv
  <2>1. mem[m] \in Session /\ names \in 0..MaxFiles /\ mem[m].file # 0
    BY DEF IInv, TypeInv, DiskType, IsOpen
  <2>2. mem[m].file \in 0..names
    BY <2>1 DEF Session
  <2>q. QED
    BY <2>1, <2>2, BoundAssumption DEF IInv, DiskInv, DiskType, Files
<1>2. es \in Seq(Stored)
  BY <1>1, LoadedType
<1>3. PICK S : S = Stored
  OBVIOUS
<1>4. Aged(S) /\ es \in Seq(S)
  BY <1>1, <1>2, <1>3, StoredAged
<1>5. leaf \in Nat
  <2>1. ById(es, leaf) \in S /\ ById(es, leaf).id = leaf
    BY <1>4, ByIdIs, RangeIn
  <2>q. QED
    BY <1>4, <2>1, AgedIs
<1>6. PICK b : b = Branch(es, leaf)
  OBVIOUS
<1>7. b \in Seq(S) /\ Rising(b)
  BY <1>4, <1>5, <1>6, BranchIs DEF BranchOf
<1>8. \A e \in S : \A n \in Nat : n < e.id => [e EXCEPT !.parent = n] \in S
  <2> SUFFICES ASSUME NEW e \in S, NEW n \in Nat, n < e.id PROVE [e EXCEPT !.parent = n] \in S
    OBVIOUS
  <2>1. e \in Entry /\ e.id \in 1..ids
    BY <1>3 DEF Stored
  <2>2. PICK x : x = [e EXCEPT !.parent = n]
    OBVIOUS
  <2>3. x \in Entry /\ x.id = e.id /\ x.parent = n
    BY <2>1, <2>2 DEF Entry
  <2>q. QED
    BY <1>3, <2>1, <2>2, <2>3 DEF Stored
<1>9. path = Rechained(b)
  BY <1>6 DEF ForkPath
<1>10. /\ path \in Seq(S) /\ Rising(path) /\ Chain(path)
       /\ \A e \in Range(path) : ~IsLabel(e)
       /\ IdsOf(path) = {e.id : e \in {x \in Range(b) : ~IsLabel(x)}}
  BY <1>4, <1>7, <1>8, <1>9, RechainedIs
<1>11. PICK K : K = Labelled(es) \intersect IdsOf(path)
  OBVIOUS
<1>12. IsFiniteSet(K)
  <2>1. IsFiniteSet(IdsOf(path))
    BY <1>10, IdsAreFinite
  <2>q. QED
    BY <1>11, <2>1, FS_Subset
<1>13. targets = SetToSeq(K)
  BY <1>11 DEF ForkTargets, LabelsToWrite
<1>14. Lists(targets, K)
  BY <1>12, <1>13, SetAsSeq
<1>15. K \subseteq Nat
  <2>1. \A i \in DOMAIN path : path[i] \in S
    BY <1>10
  <2>q. QED
    BY <1>4, <1>11, <2>1, AgedIs DEF IdsOf
<1>16. targets \in Seq(Nat) /\ Range(targets) = K
  <2>1. Seq(K) \subseteq Seq(Nat)
    BY <1>15, SeqGrows
  <2>q. QED
    BY <1>14, <2>1 DEF Lists
<1>q. QED
  BY <1>2, <1>3, <1>5, <1>6, <1>10, <1>11, <1>16

(* createBranchedSession in these terms.                                    *)
LEMMA ForkDone ==
  ASSUME NEW m, NEW leaf, CreateBranchedSession(m, leaf),
         NEW s, s = Index(names + 1, ForkEntries(m, leaf))
  PROVE  /\ names < MaxFiles /\ IsOpen(m) /\ Loadable(mem[m].file)
         /\ leaf \in IdsOf(Loaded(mem[m].file)) /\ names' = names + 1 /\ ids' = ids + Len(ForkTargets(m, leaf))
         /\ IF Answered(s.entries) THEN Rewrite(m, s.file, LinesOf(s.entries), s, mem[m], damaged)
                                   ELSE Remember(m, Unwritten(s))
BY DEF CreateBranchedSession, ForkEntries, ForkPath, ForkTargets, LabelsBehind

(* A fork keeps the invariant: its new file is whole, or a failed write is  *)
(* the first to touch it.                                                   *)
LEMMA CreateBranchedSessionStep ==
  ASSUME IInv, NEW m \in Managers, NEW leaf, CreateBranchedSession(m, leaf)
  PROVE  IInv' /\ Continues
<1>1. PICK s : s = Index(names + 1, ForkEntries(m, leaf))
  OBVIOUS
<1>2. /\ names < MaxFiles /\ IsOpen(m) /\ Loadable(mem[m].file)
      /\ leaf \in IdsOf(Loaded(mem[m].file)) /\ names' = names + 1 /\ ids' = ids + Len(ForkTargets(m, leaf))
      /\ IF Answered(s.entries) THEN Rewrite(m, s.file, LinesOf(s.entries), s, mem[m], damaged)
                                ELSE Remember(m, Unwritten(s))
  BY <1>1, ForkDone
<1>3. PICK g : g = names + 1
  OBVIOUS
<1>4. /\ g \in Files /\ g <= names' /\ g \notin exists /\ g \notin damaged /\ lines[g] = <<>>
      /\ names' \in 0..MaxFiles /\ names <= names' /\ g \in 1..names' /\ names' \in Nat
  BY <1>2, <1>3, NewFile
<1>5. PICK path : path = ForkPath(m, leaf)
  OBVIOUS
<1>6. PICK targets : targets = ForkTargets(m, leaf)
  OBVIOUS
<1>7. /\ path \in Seq(Stored) /\ Rising(path) /\ Chain(path) /\ targets \in Seq(Nat)
  <2>1. PICK es : es = Loaded(mem[m].file)
    OBVIOUS
  <2>q. QED
    BY <1>2, <1>5, <1>6, <2>1, ForkParts
<1>8. /\ ids \in Nat /\ ids' \in Nat /\ ids <= ids' /\ ids' = ids + Len(targets)
      /\ damaged \subseteq exists /\ DiskInv
  <2>1. ids \in Nat /\ damaged \subseteq exists /\ DiskInv
    BY DEF IInv, DiskInv, DiskType
  <2>2. Len(targets) \in Nat
    BY <1>7
  <2>q. QED
    BY <1>2, <1>6, <2>1, <2>2
<1>9. PICK w : w = path \o LabelsBehind(path, targets)
  OBVIOUS
<1>10. w \in Seq(Stored') /\ Tree(w)
  BY <1>7, <1>8, <1>9, ForkIsTree
<1>11. s = Index(g, w)
  BY <1>1, <1>3, <1>5, <1>6, <1>9 DEF ForkEntries
<1>12. /\ s \in Session' /\ s.file = g /\ s.entries = w /\ s.flushed
       /\ s.leaf \in IdsOf(s.entries) \union {0}
  BY <1>4, <1>10, <1>11, IndexKnows
<1>13. CASE Answered(s.entries)
  <2>1. PICK thrown : thrown = mem[m]
    OBVIOUS
  <2>2. Rewrite(m, g, LinesOf(w), s, thrown, damaged)
    BY <1>2, <1>12, <1>13, <2>1
  <2>3. damaged \subseteq exists \union {g} /\ damaged \ {g} \subseteq damaged
    BY <1>8
  <2>4. /\ DiskInv' /\ Continues /\ g \in exists'
        /\ WholeWrite(m, g, s, damaged, w) \/ FailedWrite(m, g, thrown)
    BY <1>4, <1>8, <1>10, <2>2, <2>3, Rewritten
  <2>5. CASE WholeWrite(m, g, s, damaged, w)
    BY <1>10, <1>12, <2>4, <2>5, WriterKnows
  <2>6. CASE FailedWrite(m, g, thrown)
    BY <2>1, <2>4, <2>6, ThrownBack
  <2>q. QED
    BY <2>4, <2>5, <2>6
<1>14. CASE ~Answered(s.entries)
  <2>1. PICK u : u = [s EXCEPT !.flushed = FALSE]
    OBVIOUS
  <2>2. mem' = [mem EXCEPT ![m] = u] /\ UNCHANGED <<disk, faults, damaged>>
    BY <1>2, <1>14, <2>1 DEF Remember, Unwritten
  <2>3. DiskInv' /\ Continues
    BY <1>4, <1>8, <2>2, NothingWritten
  <2>4. /\ u \in Session' /\ u.file = s.file /\ u.entries = s.entries /\ u.leaf = s.leaf
        /\ u.flushed = FALSE
    BY <1>12, <2>1 DEF Session
  <2>5. SessionOK(u)'
    BY <1>10, <1>12, <1>14, <2>4, KnowsIf
  <2>q. QED
    BY <2>2, <2>3, <2>4, <2>5, OthersKnow
<1>q. QED
  BY <1>13, <1>14

------------------------------------------------------------------------------
(* The inductive invariant.                                                 *)

(* There is a latest compaction where there is one at all.                  *)
LEMMA LatestIs ==
  ASSUME NEW S, NEW path \in Seq(S), Compactions(path) # {}
  PROVE  /\ LatestCompaction(path) \in Compactions(path)
         /\ \A d \in Compactions(path) : d <= LatestCompaction(path)
<1>1. PICK C : C = Compactions(path)
  OBVIOUS
<1>2. PICK n \in Nat : n = Len(path)
  OBVIOUS
<1>3. C # {} /\ C \subseteq 1..n
  BY <1>1, <1>2 DEF Compactions
<1>4. PICK D : D = {k \in Nat : n - k \in C}
  OBVIOUS
<1>5. D \in SUBSET Nat /\ D # {}
  <2>1. PICK c \in C : TRUE
    BY <1>3
  <2>2. n - c \in Nat /\ n - (n - c) = c
    BY <1>3
  <2>q. QED
    BY <1>4, <2>1, <2>2
<1>6. PICK k \in D : \A j \in D : k <= j
  BY <1>5, Smallest
<1>7. n - k \in C /\ \A d \in C : d <= n - k
  <2>1. n - k \in C /\ k \in Nat
    BY <1>4, <1>6
  <2>2. ASSUME NEW d \in C PROVE d <= n - k
    <3>1. n - d \in Nat /\ n - (n - d) = d
      BY <1>3
    <3>2. n - d \in D
      BY <1>4, <2>2, <3>1
    <3>3. k <= n - d
      BY <1>6, <3>2
    <3>4. d \in Nat
      BY <1>3
    <3>q. QED
      BY <2>1, <3>1, <3>3, <3>4
  <2>q. QED
    BY <2>1, <2>2
<1>q. QED
  BY <1>1, <1>7 DEF LatestCompaction

(* A compaction keeps entries from one that has an id.                      *)
LEMMA CutPointsAreIds ==
  ASSUME NEW S, Aged(S), NEW path \in Seq(S)
  PROVE  CutPoints(path) \subseteq Nat
<1>1. PICK c : c = IF Compactions(path) = {} THEN 0 ELSE LatestCompaction(path)
  OBVIOUS
<1>2. PICK kept : kept = IF c = 0 THEN {} ELSE PositionOf(path, path[c].ref)
  OBVIOUS
<1>3. PICK start : start = IF kept = {} THEN c + 1 ELSE CHOOSE i \in kept : TRUE
  OBVIOUS
<1>4. DOMAIN path = 1..Len(path) /\ Len(path) \in Nat
  OBVIOUS
<1>5. c \in Nat
  <2>1. Compactions(path) # {} => LatestCompaction(path) \in DOMAIN path
    BY LatestIs DEF Compactions
  <2>q. QED
    BY <1>1, <1>4, <2>1
<1>6. start \in Nat \ {0}
  <2>1. CASE kept = {}
    <3>1. start = c + 1
      BY <1>3, <2>1
    <3>q. QED
      BY <1>5, <3>1
  <2>2. CASE kept # {}
    <3>1. start \in kept
      BY <1>3, <2>2
    <3>2. kept \subseteq 1..Len(path)
      BY <1>2, <1>4 DEF PositionOf
    <3>q. QED
      BY <1>4, <3>1, <3>2
  <2>q. QED
    BY <2>1, <2>2
<1>7. ASSUME NEW x \in CutPoints(path) PROVE x \in Nat
  <2>1. \E i \in start..Len(path) : x = path[i].id
    BY <1>1, <1>2, <1>3, <1>7 DEF CutPoints
  <2>2. PICK i \in start..Len(path) : x = path[i].id
    BY <2>1
  <2>3. i \in 1..Len(path)
    BY <1>4, <1>6
  <2>4. path[i] \in S
    BY <2>3, ElementIn
  <2>q. QED
    BY <2>2, <2>4, AgedIs
<1>q. QED
  BY <1>7

(* Without managers and files the invariant holds.                          *)
LEMMA InitIInv == Init => IInv
<1> SUFFICES ASSUME Init PROVE IInv
  OBVIOUS
<1>1. \A f \in Files : lines[f] = <<>>
  BY DEF Init
<1>2. <<>> \in Seq(Stored) /\ <<>> \in Seq(StoredLine)
  BY EmptyIs
<1>3. DiskType
  BY <1>2, BoundAssumption DEF Init, DiskType
<1>4. FileInv
  <2>1. Shaped(<<>>)
    BY DEF Shaped
  <2>q. QED
    BY <1>1, <2>1 DEF FileInv
<1>5. WholeInv
  BY DEF Init, WholeInv
<1>6. FaultInv
  <2>1. DOMAIN <<>> = {}
    OBVIOUS
  <2>2. Bad(<<>>) = {}
    BY <2>1 DEF Bad
  <2>3. Cardinality({}) = 0
    BY FS_EmptySet
  <2>4. faults = 0
    BY DEF Init
  <2>5. ASSUME NEW f \in Files PROVE Cardinality(Bad(lines[f])) <= faults
    <3>1. lines[f] = <<>>
      BY <1>1
    <3>2. Cardinality(Bad(lines[f])) = 0
      BY <2>2, <2>3, <3>1
    <3>q. QED
      BY <2>4, <3>2
  <2>q. QED
    BY <2>5 DEF FaultInv
<1>7. mem \in [Managers -> Session] /\ \A m \in Managers : mem[m] = Closed
  BY <1>2 DEF Init, Session, Closed
<1>8. SessionOK(Closed)
  <2>1. Tree(<<>>)
    BY EmptyIs
  <2>q. QED
    BY <2>1 DEF SessionOK, Closed
<1>9. MemInv
  BY <1>7, <1>8 DEF MemInv
<1>q. QED
  BY <1>3, <1>4, <1>5, <1>6, <1>7, <1>9 DEF IInv, TypeInv, DiskInv

(* The leaf of a session can be the parent of its next entry.               *)
LEMMA LeafIs ==
  ASSUME IInv, NEW m \in Managers
  PROVE  /\ mem[m].leaf \in IdsOf(mem[m].entries) \union {0} /\ mem[m].leaf \in Nat
         /\ mem[m].entries \in Seq(Stored) /\ IdsOf(mem[m].entries) \subseteq Nat
<1>1. mem[m] \in Session /\ SessionOK(mem[m])
  BY DEF IInv, TypeInv, MemInv
<1>2. mem[m].entries \in Seq(Stored) /\ mem[m].leaf \in Nat
  BY <1>1 DEF Session
<1>3. \A i \in DOMAIN mem[m].entries : mem[m].entries[i] \in Stored
  BY <1>2
<1>4. \A e \in Stored : e.id \in Nat
  BY DEF Stored, Entry
<1>5. IdsOf(mem[m].entries) \subseteq Nat
  BY <1>3, <1>4 DEF IdsOf
<1>q. QED
  BY <1>1, <1>2, <1>5 DEF SessionOK

(* The operations that append one entry.                                    *)
LEMMA AppendSteps ==
  ASSUME IInv, NEW m \in Managers,
         \/ AppendMessage(m) \/ AppendCompaction(m)
         \/ \E id \in 0..MaxEntries : AppendLabelChange(m, id) \/ BranchWithSummary(m, id)
  PROVE  IInv' /\ Continues
<1>1. /\ mem[m].leaf \in IdsOf(mem[m].entries) \union {0} /\ mem[m].leaf \in Nat
      /\ mem[m].entries \in Seq(Stored) /\ IdsOf(mem[m].entries) \subseteq Nat
  BY LeafIs
<1>2. CASE AppendMessage(m)
  <2>1. PICK kind \in PlainKinds : AppendEntry(m, mem[m].leaf, kind, 0)
    BY <1>2 DEF AppendMessage
  <2>2. kind \in Kinds
    BY DEF Kinds
  <2>q. QED
    BY <1>1, <2>1, <2>2, AppendStep
<1>3. CASE AppendCompaction(m)
  <2>1. PICK kept \in CutPoints(Branch(mem[m].entries, mem[m].leaf)) :
          AppendEntry(m, mem[m].leaf, "compaction", kept)
    BY <1>3 DEF AppendCompaction
  <2>2. PICK S : S = Stored
    OBVIOUS
  <2>3. Aged(S)
    BY <2>2, StoredAged DEF IInv, TypeInv, DiskType
  <2>4. PICK path : path = Branch(mem[m].entries, mem[m].leaf)
    OBVIOUS
  <2>5. path \in Seq(S)
    BY <1>1, <2>2, <2>3, <2>4, BranchIs DEF BranchOf
  <2>6. kept \in Nat
    BY <2>1, <2>3, <2>4, <2>5, CutPointsAreIds
  <2>7. "compaction" \in Kinds
    BY DEF Kinds
  <2>q. QED
    BY <1>1, <2>1, <2>6, <2>7, AppendStep
<1>4. ASSUME NEW id \in 0..MaxEntries, AppendLabelChange(m, id) PROVE IInv' /\ Continues
  <2>1. PICK kind \in {"label", "unlabel"} : AppendEntry(m, mem[m].leaf, kind, id)
    BY <1>4 DEF AppendLabelChange
  <2>2. kind \in Kinds /\ id \in Nat
    BY BoundAssumption DEF Kinds
  <2>q. QED
    BY <1>1, <2>1, <2>2, AppendStep
<1>5. ASSUME NEW id \in 0..MaxEntries, BranchWithSummary(m, id) PROVE IInv' /\ Continues
  <2>1. id \in IdsOf(mem[m].entries) \union {0} /\ AppendEntry(m, id, "branch_summary", id)
    BY <1>5 DEF BranchWithSummary
  <2>2. "branch_summary" \in Kinds /\ id \in Nat
    BY BoundAssumption DEF Kinds
  <2>q. QED
    BY <2>1, <2>2, AppendStep
<1>q. QED
  BY <1>2, <1>3, <1>4, <1>5

(* Every step keeps the invariant, and what is finished in a file.          *)
LEMMA NextIInv == IInv /\ [Next]_vars => IInv' /\ Continues
<1> SUFFICES ASSUME IInv, [Next]_vars PROVE IInv' /\ Continues
  OBVIOUS
<1>1. CASE UNCHANGED vars
  <2>1. /\ UNCHANGED <<disk, faults, damaged>> /\ mem' = mem /\ names' = names /\ ids' = ids
    BY <1>1 DEF vars, disk
  <2>2. names' \in 0..MaxFiles /\ names <= names' /\ ids' \in Nat /\ ids <= ids' /\ DiskInv
    BY <2>1 DEF IInv, DiskInv, DiskType
  <2>3. DiskInv' /\ Continues
    BY <2>1, <2>2, NothingWritten
  <2>4. ASSUME NEW n \in Managers PROVE mem'[n] \in Session' /\ SessionOK(mem[n])'
    <3>1. PICK t : t = mem[n]
      OBVIOUS
    <3>2. t \in Session /\ SessionOK(t)
      BY <3>1 DEF IInv, TypeInv, MemInv
    <3>3. t \in Session' /\ SessionOK(t)'
      BY <2>2, <2>3, <3>2, Others
    <3>4. mem'[n] = t
      BY <2>1, <3>1
    <3>q. QED
      BY <3>3, <3>4, KnownAs
  <2>5. mem' \in [Managers -> Session']
    <3>1. mem' = [n \in Managers |-> mem'[n]]
      BY <2>1 DEF IInv, TypeInv
    <3>q. QED
      BY <2>4, <3>1
  <2>q. QED
    BY <2>3, <2>4, <2>5 DEF IInv, TypeInv, MemInv, DiskInv
<1>2. CASE Next
  <2>1. PICK m \in Managers :
          \/ NewSession(m) \/ Close(m) \/ AppendMessage(m) \/ AppendCompaction(m) \/ ResetLeaf(m)
          \/ \E f \in Files : OpenMissing(m, f) \/ OpenEmpty(m, f) \/ Open(m, f) \/ ForkFrom(m, f)
          \/ \E id \in 0..MaxEntries : \/ AppendLabelChange(m, id) \/ BranchTo(m, id)
                                       \/ BranchWithSummary(m, id) \/ CreateBranchedSession(m, id)
    BY <1>2 DEF Next
  <2>2. CASE NewSession(m)
    BY <2>2, NewSessionStep
  <2>3. CASE Close(m)
    BY <2>3, CloseStep
  <2>4. CASE AppendMessage(m) \/ AppendCompaction(m)
    BY <2>4, AppendSteps
  <2>5. CASE ResetLeaf(m)
    BY <2>5, MoveLeafStep DEF ResetLeaf
  <2>6. ASSUME NEW f \in Files, OpenMissing(m, f) \/ OpenEmpty(m, f) \/ Open(m, f) \/ ForkFrom(m,
       f)
        PROVE  IInv' /\ Continues
    BY <2>6, OpenMissingStep, OpenEmptyStep, OpenStep, ForkFromStep
  <2>7. ASSUME NEW id \in 0..MaxEntries, AppendLabelChange(m, id) \/ BranchWithSummary(m, id)
        PROVE  IInv' /\ Continues
    BY <2>7, AppendSteps
  <2>8. ASSUME NEW id, BranchTo(m, id) PROVE IInv' /\ Continues
    BY <2>8, MoveLeafStep DEF BranchTo
  <2>9. ASSUME NEW id, CreateBranchedSession(m, id) PROVE IInv' /\ Continues
    BY <2>9, CreateBranchedSessionStep
  <2>q. QED
    BY <2>1, <2>2, <2>3, <2>4, <2>5, <2>6, <2>7, <2>8, <2>9
<1>q. QED
  BY <1>1, <1>2

------------------------------------------------------------------------------
(* What follows.                                                            *)

(* In every state of SessionManager, whichever managers share a file, die   *)
(* or fail to write, the inductive invariant holds.                         *)
THEOREM Invariance == Spec => []IInv
BY InitIInv, NextIInv, PTL DEF Spec

(* The variables have their types: what managers and files hold are entries *)
(* as _appendEntry makes them, and a leaf is one of the session or none.    *)
THEOREM TypeCorrect == Spec => []TypeOK
<1>1. ASSUME IInv PROVE TypeOK
  <2>1. /\ names \in 0..MaxFiles /\ ids \in Nat /\ faults \in 0..MaxFaults
        /\ exists \subseteq 1..names /\ damaged \subseteq exists
    BY <1>1 DEF IInv, TypeInv, DiskType
  <2>2. ASSUME NEW m \in Managers
        PROVE  /\ mem[m].file \in 0..names
               /\ mem[m].entries \in Seq(Entry)
               /\ mem[m].leaf \in IdsOf(mem[m].entries) \union {0}
               /\ {mem[m].flushed, mem[m].failed} \subseteq BOOLEAN
    <3>1. mem[m] \in Session /\ SessionOK(mem[m])
      BY <1>1 DEF IInv, TypeInv, MemInv
    <3>2. /\ mem[m].file \in 0..names /\ mem[m].entries \in Seq(Stored)
          /\ mem[m].flushed \in BOOLEAN /\ mem[m].failed \in BOOLEAN
      BY <3>1 DEF Session
    <3>q. QED
      BY <3>1, <3>2, StoredAreEntries DEF SessionOK
  <2>3. ASSUME NEW f \in Files, NEW i \in DOMAIN lines[f]
        PROVE  lines[f][i].entry \in Entry \union {Header, Malformed}
    <3>1. lines[f] \in Seq(StoredLine)
      BY <1>1 DEF IInv, TypeInv, DiskType
    <3>2. i \in 1..Len(lines[f])
      BY <3>1
    <3>3. lines[f][i] \in StoredLine
      BY <3>1, <3>2, ElementIn
    <3>4. lines[f][i].entry \in Stored \union {Header, Malformed}
      BY <3>3 DEF StoredLine
    <3>q. QED
      BY <3>4, StoredAreEntries
  <2>q. QED
    BY <2>1, <2>2, <2>3 DEF TypeOK
<1>q. QED
  BY <1>1, Invariance, PTL

(* In a session file that no failed write has touched, every entry has its  *)
(* parent before it, whichever managers appended to it: getBranch finds a   *)
(* root from every entry.                                                   *)
THEOREM ParentsStandFirst == Spec => []ParentsComeFirst
<1>1. ASSUME IInv PROVE ParentsComeFirst
  <2>1. ASSUME NEW f \in exists \ damaged PROVE ParentsFirst(Loaded(f))
    BY <1>1, <2>1 DEF IInv, DiskInv, WholeInv, Whole, Tree
  <2>q. QED
    BY <2>1 DEF ParentsComeFirst, ParentsFirst
<1>q. QED
  BY <1>1, Invariance, PTL

(* A write of _persist that fails or is cut short, with what any manager    *)
(* appends behind it, spoils at most one line of a file.                    *)
THEOREM FailuresSpoilOneLine == Spec => []OneLinePerFailure
<1>1. ASSUME IInv PROVE OneLinePerFailure
  <2>1. exists \subseteq Files
    BY <1>1, BoundAssumption DEF IInv, TypeInv, DiskType, Files
  <2>2. \A f \in exists : Cardinality(Bad(lines[f])) <= faults
    BY <1>1, <2>1 DEF IInv, DiskInv, FaultInv
  <2>q. QED
    BY <2>2 DEF OneLinePerFailure, Bad
<1>q. QED
  BY <1>1, Invariance, PTL

(* No step of any manager, a failing one included, takes a line that was    *)
(* written to its end out of a session file, or changes it.                 *)
THEOREM FilesAreAppendOnly == Spec => FilesOnlyGrow
<1>1. ASSUME IInv, IInv', Continues
      PROVE  \A f \in exists : f \in exists' /\ IsPrefix(Finished(lines[f]), lines'[f])
  <2>1. exists \subseteq Files /\ exists \subseteq exists'
    BY <1>1, BoundAssumption DEF IInv, TypeInv, DiskType, Files, Continues
  <2>2. /\ lines \in [Files -> Seq(StoredLine)] /\ lines' \in [Files -> Seq(StoredLine')]
        /\ Seq(StoredLine) \subseteq Seq(StoredLine')
    <3>1. ids \in Nat /\ ids' \in Nat /\ ids <= ids'
      BY <1>1 DEF IInv, TypeInv, DiskType, Continues
    <3>q. QED
      BY <1>1, <3>1, StoredGrows DEF IInv, TypeInv, DiskType
  <2>3. ASSUME NEW f \in exists PROVE IsPrefix(Finished(lines[f]), lines'[f])
    <3>1. PICK L : L = StoredLine'
      OBVIOUS
    <3>2. PICK b : b = lines[f]
      OBVIOUS
    <3>3. PICK r : r = lines'[f]
      OBVIOUS
    <3>4. b \in Seq(L) /\ r \in Seq(L)
      BY <2>1, <2>2, <3>1, <3>2, <3>3
    <3>5. Survives(b, r)
      BY <1>1, <2>1, <3>2, <3>3 DEF Continues, Grown
    <3>6. IsPrefix(Finished(b), r)
      BY <3>4, <3>5, FinishedSurvives
    <3>q. QED
      BY <3>2, <3>3, <3>6
  <2>q. QED
    BY <2>1, <2>3
<1>2. IInv /\ [Next]_vars =>
        \A f \in exists : f \in exists' /\ IsPrefix(Finished(lines[f]), lines'[f])
  BY <1>1, NextIInv
<1>q. QED
  BY <1>2, Invariance, PTL DEF Spec, FilesOnlyGrow

(* Once a session has its first answer, its branch can be read from its     *)
(* file again, unless a write was refused or cut short: the next process    *)
(* sends the model what this one would.                                     *)
THEOREM AnswersAreSaved == Spec => []AnsweredIsSaved
<1>1. ASSUME IInv PROVE AnsweredIsSaved
  <2> SUFFICES ASSUME NEW m \in Managers, NEW s, s = mem[m], s.file # 0, Answered(s.entries),
                      ~s.failed, s.file \notin damaged
               PROVE  Loadable(s.file) /\ Branch(Loaded(s.file), s.leaf) = Branch(s.entries,
               s.leaf)
    BY DEF AnsweredIsSaved, IsOpen
  <2>1. s \in Session /\ SessionOK(s) /\ DiskType /\ FileInv /\ WholeInv /\ ids \in Nat
    BY <1>1 DEF IInv, TypeInv, MemInv, DiskInv, DiskType
  <2>2. s.flushed /\ s.file \in exists
    BY <2>1 DEF SessionOK
  <2>3. /\ s.leaf \in IdsOf(s.entries) \union {0} /\ Tree(s.entries)
        /\ Range(s.entries) \subseteq Range(Loaded(s.file))
    BY <2>1, <2>2 DEF SessionOK
  <2>4. Loadable(s.file) /\ Tree(Loaded(s.file))
    BY <2>1, <2>2 DEF WholeInv, Whole
  <2>5. s.file \in Files
    <3>1. exists \subseteq Files
      BY <2>1, BoundAssumption DEF DiskType, Files
    <3>q. QED
      BY <2>2, <3>1
  <2>6. PICK S : S = Stored
    OBVIOUS
  <2>7. PICK es : es = s.entries
    OBVIOUS
  <2>8. PICK fs : fs = Loaded(s.file)
    OBVIOUS
  <2>9. es \in Seq(S) /\ fs \in Seq(S) /\ Aged(S)
    <3>1. fs \in Seq(Stored)
      BY <2>1, <2>4, <2>5, <2>8, LoadedType
    <3>2. es \in Seq(Stored)
      BY <2>1, <2>7 DEF Session
    <3>q. QED
      BY <2>1, <2>6, <3>1, <3>2, StoredAged
  <2>10. Branch(fs, s.leaf) = Branch(es, s.leaf)
    <3>1. Range(es) \subseteq Range(fs) /\ Unique(fs) /\ ParentsFirst(es)
      BY <2>3, <2>4, <2>7, <2>8 DEF Tree
    <3>2. PICK leaf \in IdsOf(es) \union {0} : leaf = s.leaf
      BY <2>3, <2>7
    <3>3. Branch(fs, leaf) = Branch(es, leaf)
      BY <2>9, <3>1, SameBranch
    <3>q. QED
      BY <3>2, <3>3
  <2>q. QED
    BY <2>4, <2>7, <2>8, <2>10
<1>q. QED
  BY <1>1, Invariance, PTL

(* The labels of a fork are the labels that were written behind its path.   *)
HasNoLabel(path) == \A e \in Range(path) : ~IsLabel(e)
AreLabels(ls, targets) ==
  /\ DOMAIN targets = 1..Len(ls)
  /\ \A i \in 1..Len(ls) : ls[i].kind = "label" /\ ls[i].ref = targets[i]

LEMMA ForkLabels ==
  ASSUME NEW T, NEW path \in Seq(T), NEW ls \in Seq(T), NEW targets,
         HasNoLabel(path), AreLabels(ls, targets)
  PROVE  Labelled(path \o ls) = Range(targets)
<1>0. /\ DOMAIN targets = 1..Len(ls)
      /\ \A i \in 1..Len(ls) : ls[i].kind = "label" /\ ls[i].ref = targets[i]
  BY DEF AreLabels
<1> DEFINE w == path \o ls
<1> HIDE DEF w
<1>1. /\ w \in Seq(T) /\ Len(w) = Len(path) + Len(ls)
      /\ \A i \in 1..Len(path) : w[i] = path[i]
      /\ \A i \in 1..Len(ls) : w[Len(path) + i] = ls[i]
  BY ConcatIs DEF w
<1>2. DOMAIN w = 1..Len(path) + Len(ls) /\ Len(path) \in Nat /\ Len(ls) \in Nat
  BY <1>1
<1>3. \A i \in 1..Len(path) : ~IsLabel(w[i])
  BY <1>1 DEF HasNoLabel, Range
<1>4. ASSUME NEW k \in DOMAIN w, IsLabel(w[k])
      PROVE  /\ w[k].kind = "label" /\ k - Len(path) \in 1..Len(ls)
             /\ w[k].ref = targets[k - Len(path)]
  <2>1. k \notin 1..Len(path)
    BY <1>3, <1>4
  <2>2. k - Len(path) \in 1..Len(ls) /\ Len(path) + (k - Len(path)) = k
    BY <1>2, <2>1
  <2>3. w[k] = ls[k - Len(path)]
    BY <1>1, <2>2
  <2>q. QED
    BY <1>0, <2>2, <2>3
<1>5. PICK J : J = {j \in DOMAIN w :
                      /\ w[j].kind = "label"
                      /\ \A k \in DOMAIN w : k > j /\ IsLabel(w[k]) /\ w[k].ref = w[j].ref
                                               => w[k].kind = "label"}
  OBVIOUS
<1>6. Labelled(w) = {w[i].ref : i \in J}
  BY <1>5 DEF Labelled
<1>7. ASSUME NEW j \in J PROVE w[j].ref \in Range(targets)
  <2>1. j \in DOMAIN w /\ IsLabel(w[j])
    BY <1>5 DEF IsLabel
  <2>q. QED
    BY <1>0, <1>4, <2>1 DEF Range
<1>8. ASSUME NEW i \in 1..Len(ls) PROVE \E j \in J : w[j].ref = targets[i]
  <2>1. Len(path) + i \in DOMAIN w /\ w[Len(path) + i] = ls[i]
    BY <1>1, <1>2
  <2>2. Len(path) + i \in J
    BY <1>0, <1>4, <1>5, <2>1
  <2>q. QED
    BY <1>0, <2>1, <2>2
<1>9. ASSUME NEW x \in Range(targets) PROVE x \in Labelled(w)
  <2>1. PICK i \in 1..Len(ls) : x = targets[i]
    BY <1>0, <1>9 DEF Range
  <2>2. PICK j \in J : w[j].ref = x
    BY <1>8, <2>1
  <2>q. QED
    BY <1>6, <2>2
<1>10. ASSUME NEW x \in Labelled(w) PROVE x \in Range(targets)
  BY <1>6, <1>7
<1>q. QED
  BY <1>9, <1>10 DEF w

(* The id of the last entry, where a new index puts the leaf.               *)
LastId(w) == IF w = <<>> THEN 0 ELSE Last(w).id

(* A manager whose file is a new one after a fork knows the fork, and has   *)
(* its leaf at the end of it.                                               *)
LEMMA ForkKnown ==
  ASSUME IInv, NEW m \in Managers, NEW leaf, Fork(m, leaf)
  PROVE  mem'[m].entries = ForkEntries(m, leaf) /\ mem'[m].leaf = LastId(ForkEntries(m, leaf))
<1>1. PICK s : s = Index(names + 1, ForkEntries(m, leaf))
  OBVIOUS
<1>2. CreateBranchedSession(m, leaf) /\ names' = names + 1 /\ mem'[m].file = names + 1
  BY DEF Fork, Forks
<1>3. IF Answered(s.entries) THEN Rewrite(m, s.file, LinesOf(s.entries), s, mem[m], damaged)
                             ELSE Remember(m, Unwritten(s))
  BY <1>1, <1>2, ForkDone
<1>4. /\ s.entries = ForkEntries(m, leaf) /\ Unwritten(s).entries = s.entries
      /\ s.leaf = LastId(ForkEntries(m, leaf)) /\ Unwritten(s).leaf = s.leaf
  BY <1>1 DEF Index, Fresh, Closed, Unwritten, LastId
<1>5. mem[m].file # names + 1 /\ Closed.file # names + 1 /\ m \in DOMAIN mem
  <2>1. mem[m] \in Session /\ m \in DOMAIN mem /\ names \in Nat
    BY DEF IInv, TypeInv, DiskType
  <2>2. mem[m].file \in 0..names
    BY <2>1 DEF Session
  <2>3. Closed.file = 0
    BY DEF Closed
  <2>q. QED
    BY <2>1, <2>2, <2>3
<1>6. CASE Answered(s.entries)
  <2>1. \/ mem' = [mem EXCEPT ![m] = s]
        \/ \E after \in {mem[m], Closed} : mem' = [mem EXCEPT ![m] = after]
    BY <1>3, <1>6 DEF Rewrite, Write
  <2>2. mem'[m] = s \/ mem'[m] = mem[m] \/ mem'[m] = Closed
    BY <1>5, <2>1
  <2>3. mem'[m] = s
    BY <1>2, <1>5, <2>2
  <2>q. QED
    BY <1>4, <2>3
<1>7. CASE ~Answered(s.entries)
  <2>1. mem' = [mem EXCEPT ![m] = Unwritten(s)]
    BY <1>3, <1>7 DEF Remember
  <2>2. mem'[m] = Unwritten(s)
    BY <1>5, <2>1
  <2>q. QED
    BY <1>4, <2>2
<1>q. QED
  BY <1>6, <1>7

(* createBranchedSession keeps exactly the labels the session has of the    *)
(* entries the fork keeps, however often each was set and cleared, and      *)
(* wherever in the tree.                                                    *)
THEOREM LabelsAreForked == Spec => ForkKeepsLabels
<1>1. ASSUME IInv, IInv', Continues, NEW m \in Managers, NEW id, Fork(m, id)
      PROVE  Labelled(mem'[m].entries)
               = Labelled(Loaded(mem[m].file))
                   \intersect {e.id : e \in {x \in Range(Branch(Loaded(mem[m].file), id)) : ~IsLabel(x)}}
  <2>1. PICK es : es = Loaded(mem[m].file)
    OBVIOUS
  <2>2. PICK path : path = ForkPath(m, id)
    OBVIOUS
  <2>3. PICK targets : targets = ForkTargets(m, id)
    OBVIOUS
  <2>4. CreateBranchedSession(m, id)
    BY <1>1 DEF Fork
  <2>5. /\ IsOpen(m) /\ Loadable(mem[m].file) /\ id \in IdsOf(Loaded(mem[m].file))
        /\ ids' = ids + Len(ForkTargets(m, id))
    <3>1. PICK s : s = Index(names + 1, ForkEntries(m, id))
      OBVIOUS
    <3>q. QED
      BY <2>4, <3>1, ForkDone
  <2>6. /\ path \in Seq(Stored) /\ \A e \in Range(path) : ~IsLabel(e)
        /\ IdsOf(path) = {e.id : e \in {x \in Range(Branch(es, id)) : ~IsLabel(x)}}
        /\ targets \in Seq(Nat) /\ Range(targets) = Labelled(es) \intersect IdsOf(path)
    BY <1>1, <2>1, <2>2, <2>3, <2>5, ForkParts
  <2>7. ids \in Nat /\ ids' \in Nat /\ ids <= ids'
    BY <1>1 DEF IInv, TypeInv, DiskType, Continues
  <2>8. PICK ls : ls = LabelsBehind(path, targets)
    OBVIOUS
  <2>9. /\ ls \in Seq(Stored') /\ Len(ls) = Len(targets)
        /\ \A i \in 1..Len(ls) : ls[i].kind = "label" /\ ls[i].ref = targets[i]
    <3>1. path \in Seq(Stored) /\ targets \in Seq(Nat) /\ ids' = ids + Len(targets)
      BY <2>3, <2>5, <2>6
    <3>2. AreBehind(Stored', LabelsBehind(path, targets), path, targets)
      BY <2>7, <3>1, LabelsAre
    <3>q. QED
      BY <2>8, <3>2 DEF AreBehind
  <2>10. path \in Seq(Stored')
    BY <2>6, <2>7, StoredGrows
  <2>11. PICK T : T = Stored'
    OBVIOUS
  <2>12. PICK w : w = path \o ls
    OBVIOUS
  <2>13. DOMAIN targets = 1..Len(ls)
    BY <2>6, <2>9
  <2>14. Labelled(w) = Range(targets)
    <3>1. path \in Seq(T) /\ ls \in Seq(T)
      BY <2>9, <2>10, <2>11
    <3>2. HasNoLabel(path)
      BY <2>6 DEF HasNoLabel
    <3>3. AreLabels(ls, targets)
      BY <2>9, <2>13 DEF AreLabels
    <3>4. Labelled(path \o ls) = Range(targets)
      BY <3>1, <3>2, <3>3, ForkLabels
    <3>q. QED
      BY <2>12, <3>4
  <2>15. mem'[m].entries = w
    BY <1>1, <2>2, <2>3, <2>8, <2>12, ForkKnown DEF ForkEntries
  <2>q. QED
    BY <2>1, <2>6, <2>14, <2>15
<1>2. IInv /\ [Next]_vars =>
        \A m \in Managers : Forks(m) => \A id \in 1..MaxEntries :
          LET es == Loaded(mem[m].file)
              kept == {e \in Range(Branch(es, id)) : ~IsLabel(e)}
          IN  Fork(m,
          id) => Labelled(mem'[m].entries) = Labelled(es) \intersect {e.id : e \in kept}
  BY <1>1, NextIInv
<1>q. QED
  BY <1>2, Invariance, PTL DEF Spec, ForkKeepsLabels

------------------------------------------------------------------------------
(* A fork keeps the context: its branch is its whole file, it shows what    *)
(* the path forked from shows, and its latest compaction is the same and    *)
(* keeps the same entries.                                                  *)

(* The ids of a sequence of entries.                                        *)
Ids(s) == [i \in DOMAIN s |-> s[i].id]

(* The ids are as many as the entries.                                      *)
LEMMA IdsType ==
  ASSUME NEW I, NEW s \in Seq({e \in Entry : e.id \in I})
  PROVE  Ids(s) \in Seq(I) /\ Len(Ids(s)) = Len(s)
<1>1. DOMAIN s = 1..Len(s) /\ Len(s) \in Nat
  OBVIOUS
<1>2. \A i \in 1..Len(s) : s[i].id \in I
  OBVIOUS
<1>3. Ids(s) = [i \in 1..Len(s) |-> s[i].id]
  BY <1>1 DEF Ids
<1>q. QED
  BY <1>1, <1>2, <1>3

(* The ids of a concatenation are those of its parts.                       *)
LEMMA IdsOfConcat ==
  ASSUME NEW s \in Seq(Entry), NEW t \in Seq(Entry)
  PROVE  Ids(s \o t) = Ids(s) \o Ids(t)
<1>1. PICK w : w = s \o t
  OBVIOUS
<1>2. /\ w \in Seq(Entry) /\ Len(w) = Len(s) + Len(t)
      /\ \A i \in 1..Len(s) : w[i] = s[i]
      /\ \A i \in 1..Len(t) : w[Len(s) + i] = t[i]
  BY <1>1, ConcatIs
<1>3. Entry = {e \in Entry : e.id \in Nat}
  BY DEF Entry
<1>4. /\ Ids(s) \in Seq(Nat) /\ Len(Ids(s)) = Len(s) /\ Ids(t) \in Seq(Nat) /\ Len(Ids(t)) = Len(t)
      /\ Ids(w) \in Seq(Nat) /\ Len(Ids(w)) = Len(w)
  BY <1>2, <1>3, IdsType
<1>5. PICK v : v = Ids(s) \o Ids(t)
  OBVIOUS
<1>6. /\ v \in Seq(Nat) /\ Len(v) = Len(s) + Len(t)
      /\ \A i \in 1..Len(Ids(s)) : v[i] = Ids(s)[i]
      /\ \A i \in 1..Len(Ids(t)) : v[Len(Ids(s)) + i] = Ids(t)[i]
  <2>1. /\ v \in Seq(Nat) /\ Len(v) = Len(Ids(s)) + Len(Ids(t))
        /\ \A i \in 1..Len(Ids(s)) : v[i] = Ids(s)[i]
        /\ \A i \in 1..Len(Ids(t)) : v[Len(Ids(s)) + i] = Ids(t)[i]
    <3>1. PICK p : p = Ids(s)
      OBVIOUS
    <3>2. PICK q : q = Ids(t)
      OBVIOUS
    <3>3. p \in Seq(Nat) /\ q \in Seq(Nat) /\ v = p \o q
      BY <1>4, <1>5, <3>1, <3>2
    <3>4. /\ v \in Seq(Nat) /\ Len(v) = Len(p) + Len(q)
          /\ \A i \in 1..Len(p) : v[i] = p[i]
          /\ \A i \in 1..Len(q) : v[Len(p) + i] = q[i]
      BY <3>3, ConcatIs
    <3>q. QED
      BY <3>1, <3>2, <3>4
  <2>q. QED
    BY <1>4, <2>1
<1>7. ASSUME NEW i \in 1..Len(s) PROVE Ids(w)[i] = v[i]
  <2>1. Ids(w)[i] = w[i].id /\ Ids(s)[i] = s[i].id
    BY <1>2 DEF Ids
  <2>q. QED
    BY <1>2, <1>4, <1>6, <2>1
<1>8. ASSUME NEW i \in 1..Len(t) PROVE Ids(w)[Len(s) + i] = v[Len(s) + i]
  <2>1. Len(s) + i \in DOMAIN w /\ i \in DOMAIN t
    BY <1>2
  <2>2. Ids(w)[Len(s) + i] = w[Len(s) + i].id /\ Ids(t)[i] = t[i].id
    BY <2>1 DEF Ids
  <2>q. QED
    BY <1>2, <1>4, <1>6, <2>2
<1>9. ASSUME NEW i \in 1..Len(w) PROVE Ids(w)[i] = v[i]
  <2>1. CASE i \in 1..Len(s)
    BY <1>7, <2>1
  <2>2. CASE i \notin 1..Len(s)
    <3>1. i - Len(s) \in 1..Len(t) /\ Len(s) + (i - Len(s)) = i
      BY <1>2, <2>2
    <3>q. QED
      BY <1>8, <3>1
  <2>q. QED
    BY <2>1, <2>2
<1>10. Ids(w) = v
  BY <1>2, <1>4, <1>6, <1>9
<1>q. QED
  BY <1>1, <1>5, <1>10

(* The ids a summary is followed by: those of the unlabelled entries from   *)
(* the one with id lo to the compaction c, and those after it.              *)
ContextOf(V, lo, c) ==
  (<<c>> \o Selected(V, {n \in Nat : lo <= n /\ n < c})) \o Selected(V, {n \in Nat : n > c})

(* Of ids that rise from those below lo over lo and c to those above c, the *)
(* context keeps all but the first.                                         *)
LEMMA Pieces ==
  ASSUME NEW lo \in Nat, NEW c \in Nat, lo <= c,
         NEW a \in Seq({n \in Nat : n < lo}),
         NEW k \in Seq({n \in Nat : lo <= n /\ n < c}),
         NEW z \in Seq({n \in Nat : n > c})
  PROVE  ContextOf(((a \o k) \o <<c>>) \o z, lo, c) = (<<c>> \o k) \o z
<1> DEFINE A == {n \in Nat : n < lo}
           K == {n \in Nat : lo <= n /\ n < c}
           Z == {n \in Nat : n > c}
           C == {c}
<1>1. A \in SUBSET Nat /\ K \in SUBSET Nat /\ Z \in SUBSET Nat /\ C \in SUBSET Nat
  OBVIOUS
<1>2. /\ A \intersect K = {} /\ C \intersect K = {} /\ Z \intersect K = {}
      /\ A \intersect Z = {} /\ K \intersect Z = {} /\ C \intersect Z = {}
  OBVIOUS
<1>3. a \in Seq(A) /\ k \in Seq(K) /\ z \in Seq(Z) /\ <<c>> \in Seq(C)
  OBVIOUS
<1> HIDE DEF A, K, Z, C
<1>4. Seq(A) \subseteq Seq(Nat) /\ Seq(K) \subseteq Seq(Nat) /\ Seq(Z) \subseteq Seq(Nat)
      /\ Seq(C) \subseteq Seq(Nat)
  BY <1>1, SeqGrows
<1>5. a \in Seq(Nat) /\ k \in Seq(Nat) /\ z \in Seq(Nat) /\ <<c>> \in Seq(Nat)
  BY <1>3, <1>4
<1>6. PICK p : p = a \o k
  OBVIOUS
<1>6a. PICK d : d = <<c>>
  OBVIOUS
<1>6b. PICK q : q = p \o d
  OBVIOUS
<1>6c. p \in Seq(Nat) /\ d \in Seq(Nat) /\ q \in Seq(Nat)
  BY <1>5, <1>6, <1>6a, <1>6b
<1>7. ASSUME NEW S
      PROVE  Selected(((a \o k) \o <<c>>) \o z, S)
               = ((Selected(a, S) \o Selected(k, S)) \o Selected(<<c>>, S)) \o Selected(z, S)
  <2>0. q \in Seq(Nat) /\ z \in Seq(Nat)
    BY <1>5, <1>6c
  <2>1. Selected(q \o z, S) = Selected(q, S) \o Selected(z, S)
    BY <2>0, SelectedConcat
  <2>2. Selected(p \o d, S) = Selected(p, S) \o Selected(d, S)
    BY <1>6c, SelectedConcat
  <2>3. Selected(a \o k, S) = Selected(a, S) \o Selected(k, S)
    BY <1>5, SelectedConcat
  <2>q. QED
    BY <1>6, <1>6a, <1>6b, <2>1, <2>2, <2>3
<1>8. Selected(a, K) = <<>> /\ Selected(k, K) = k /\ Selected(<<c>>, K) = <<>> /\ Selected(z,
       K) = <<>>
  BY <1>2, <1>3, SelectedAll, SelectedNone
<1>9. Selected(a, Z) = <<>> /\ Selected(k, Z) = <<>> /\ Selected(<<c>>, Z) = <<>> /\ Selected(z,
       Z) = z
  BY <1>2, <1>3, SelectedAll, SelectedNone
<1>10. Selected(((a \o k) \o <<c>>) \o z, K) = k
  <2>1. Selected(((a \o k) \o <<c>>) \o z, K) = ((<<>> \o k) \o <<>>) \o <<>>
    BY <1>7, <1>8
  <2>q. QED
    BY <1>5, <2>1
<1>11. Selected(((a \o k) \o <<c>>) \o z, Z) = z
  <2>1. Selected(((a \o k) \o <<c>>) \o z, Z) = ((<<>> \o <<>>) \o <<>>) \o z
    BY <1>7, <1>9
  <2>q. QED
    BY <1>5, <2>1
<1>q. QED
  BY <1>10, <1>11 DEF ContextOf, K, Z

(* The ids of the entries of a path that carry messages.                    *)
Shown(s) == Ids(Selected(s, Unlabelled))

(* What the model is sent are the entries of the context that are no        *)
(* labels.                                                                  *)
LEMMA ContextIsShown == \A path : ContextMessages(path) = Shown(ContextEntries(path))
BY DEF ContextMessages, Shown, Ids

(* The ids shown are ids of the sequence.                                   *)
LEMMA ShownType ==
  ASSUME NEW I, NEW s \in Seq({e \in Entry : e.id \in I})
  PROVE  Shown(s) \in Seq(I)
<1>1. PICK E : E = {e \in Entry : e.id \in I}
  OBVIOUS
<1>2. PICK r : r = Selected(s, Unlabelled)
  OBVIOUS
<1>3. r \in Seq(E)
  <2>1. s \in Seq(E)
    BY <1>1
  <2>q. QED
    BY <1>2, <2>1, SelectedType
<1>4. r \in Seq({e \in Entry : e.id \in I})
  BY <1>1, <1>3
<1>5. Ids(r) \in Seq(I) /\ Len(Ids(r)) = Len(r)
  BY <1>4, IdsType
<1>q. QED
  BY <1>2, <1>5 DEF Shown

(* What a concatenation shows is what its parts show.                       *)
LEMMA ShownConcat ==
  ASSUME NEW s \in Seq(Entry), NEW t \in Seq(Entry)
  PROVE  Shown(s \o t) = Shown(s) \o Shown(t)
<1>1. Selected(s \o t, Unlabelled) = Selected(s, Unlabelled) \o Selected(t, Unlabelled)
  BY SelectedConcat
<1>2. Selected(s, Unlabelled) \in Seq(Entry) /\ Selected(t, Unlabelled) \in Seq(Entry)
  BY SelectedType
<1>3. Ids(Selected(s, Unlabelled) \o Selected(t, Unlabelled))
        = Ids(Selected(s, Unlabelled)) \o Ids(Selected(t, Unlabelled))
  <2>1. PICK p : p = Selected(s, Unlabelled)
    OBVIOUS
  <2>2. PICK q : q = Selected(t, Unlabelled)
    OBVIOUS
  <2>3. p \in Seq(Entry) /\ q \in Seq(Entry)
    BY <1>2, <2>1, <2>2
  <2>4. Ids(p \o q) = Ids(p) \o Ids(q)
    BY <2>3, IdsOfConcat
  <2>q. QED
    BY <2>1, <2>2, <2>4
<1>q. QED
  BY <1>1, <1>3 DEF Shown

(* An entry that is no label shows itself.                                  *)
LEMMA ShownOne ==
  ASSUME NEW x \in Unlabelled
  PROVE  Shown(<<x>>) = <<x.id>>
<1>1. <<x>> \in Seq(Unlabelled) /\ DOMAIN <<x>> = {1}
  OBVIOUS
<1>2. Selected(<<x>>, Unlabelled) = <<x>>
  BY <1>1, SelectedAll
<1>3. Ids(<<x>>) = <<x.id>>
  BY <1>1 DEF Ids
<1>q. QED
  BY <1>2, <1>3 DEF Shown

(* A sequence of elements of S is a sequence over S.                        *)
LEMMA SeqIn ==
  ASSUME NEW T, NEW s \in Seq(T), NEW S, \A i \in 1..Len(s) : s[i] \in S
  PROVE  s \in Seq(S)
OBVIOUS

(* A sequence in four parts.                                                *)
Parts(T, s, from, c, A, M, Z) ==
  /\ A \in Seq(T) /\ M \in Seq(T) /\ Z \in Seq(T)
  /\ Len(A) = from - 1 /\ \A i \in 1..Len(A) : A[i] = s[i]
  /\ Len(M) = c - from /\ \A i \in 1..Len(M) : M[i] = s[from + i - 1]
  /\ Len(Z) = Len(s) - c /\ \A i \in 1..Len(Z) : Z[i] = s[c + i]
  /\ s = ((A \o M) \o <<s[c]>>) \o Z

(* A sequence is what stands before from, from there to c, c itself, and    *)
(* what follows it.                                                         *)
LEMMA Split ==
  ASSUME NEW T, NEW s \in Seq(T), NEW c \in 1..Len(s), NEW from \in 1..c
  PROVE  Parts(T, s, from, c, SubSeq(s, 1, from - 1), SubSeq(s, from, c - 1),
                              SubSeq(s, c + 1, Len(s)))
<1>a. PICK A : A = SubSeq(s, 1, from - 1)
  OBVIOUS
<1>b. PICK M : M = SubSeq(s, from, c - 1)
  OBVIOUS
<1>c. PICK Z : Z = SubSeq(s, c + 1, Len(s))
  OBVIOUS
<1>0. Len(s) \in Nat /\ c \in Nat /\ from \in Nat /\ from <= c /\ c <= Len(s) /\ 1 <= from
  OBVIOUS
<1>1. A \in Seq(T) /\ Len(A) = from - 1 /\ \A i \in 1..Len(A) : A[i] = s[i]
  BY <1>0, <1>a
<1>2. M \in Seq(T) /\ Len(M) = c - from /\ \A i \in 1..Len(M) : M[i] = s[from + i - 1]
  BY <1>0, <1>b
<1>3. Z \in Seq(T) /\ Len(Z) = Len(s) - c /\ \A i \in 1..Len(Z) : Z[i] = s[c + i]
  BY <1>0, <1>c
<1>4. s = ((A \o M) \o <<s[c]>>) \o Z
  <2>1. PICK p : p = A \o M
    OBVIOUS
  <2>2. /\ p \in Seq(T) /\ Len(p) = c - 1
        /\ \A i \in 1..(c - 1) : p[i] = s[i]
    <3>1. /\ p \in Seq(T) /\ Len(p) = Len(A) + Len(M)
          /\ \A i \in 1..Len(A) : p[i] = A[i]
          /\ \A i \in 1..Len(M) : p[Len(A) + i] = M[i]
      <4>1. A \in Seq(T) /\ M \in Seq(T)
        BY <1>1, <1>2
      <4>q. QED
        BY <2>1, <4>1, ConcatIs
    <3>2. Len(p) = c - 1
      BY <1>0, <1>1, <1>2, <3>1
    <3>3. ASSUME NEW i \in 1..(c - 1) PROVE p[i] = s[i]
      <4>1. CASE i < from
        BY <1>0, <1>1, <3>1, <4>1
      <4>2. CASE i >= from
        <5>1. i - (from - 1) \in 1..Len(M) /\ Len(A) + (i - (from - 1)) = i
              /\ from + (i - (from - 1)) - 1 = i
          BY <1>0, <1>1, <1>2, <4>2
        <5>q. QED
          BY <1>2, <3>1, <5>1
      <4>q. QED
        BY <1>0, <4>1, <4>2
    <3>q. QED
      BY <3>1, <3>2, <3>3
  <2>3. PICK e \in T : e = s[c]
    OBVIOUS
  <2>3a. PICK q : q = Append(p, e)
    OBVIOUS
  <2>4. /\ q \in Seq(T) /\ Len(q) = c /\ \A i \in 1..c : q[i] = s[i]
    <3>1. /\ q \in Seq(T) /\ Len(q) = (c - 1) + 1 /\ q[(c - 1) + 1] = e
          /\ \A i \in 1..(c - 1) : q[i] = p[i]
      BY <2>2, <2>3a
    <3>2. (c - 1) + 1 = c /\ \A i \in 1..c : i \in 1..(c - 1) \/ i = c
      BY <1>0
    <3>q. QED
      BY <2>2, <2>3, <3>1, <3>2
  <2>5. q = p \o <<s[c]>>
    BY <2>2, <2>3, <2>3a
  <2>6. PICK r : r = q \o Z
    OBVIOUS
  <2>7. /\ r \in Seq(T) /\ Len(r) = Len(s) /\ \A i \in 1..Len(s) : r[i] = s[i]
    <3>1. /\ r \in Seq(T) /\ Len(r) = Len(q) + Len(Z)
          /\ \A i \in 1..Len(q) : r[i] = q[i]
          /\ \A i \in 1..Len(Z) : r[Len(q) + i] = Z[i]
      <4>1. q \in Seq(T) /\ Z \in Seq(T)
        BY <1>3, <2>4
      <4>q. QED
        BY <2>6, <4>1, ConcatIs
    <3>2. Len(r) = Len(s)
      BY <1>0, <1>3, <2>4, <3>1
    <3>3. ASSUME NEW i \in 1..Len(s) PROVE r[i] = s[i]
      <4>1. CASE i <= c
        <5>1. i \in 1..c /\ i \in 1..Len(q)
          BY <1>0, <2>4, <4>1
        <5>2. r[i] = q[i] /\ q[i] = s[i]
          BY <2>4, <3>1, <5>1
        <5>q. QED
          BY <5>2
      <4>2. CASE i > c
        <5>1. i - c \in 1..Len(Z) /\ Len(q) + (i - c) = i /\ c + (i - c) = i
          BY <1>0, <1>3, <2>4, <4>2
        <5>q. QED
          BY <1>3, <3>1, <5>1
      <4>q. QED
        BY <1>0, <4>1, <4>2
    <3>q. QED
      BY <3>1, <3>2, <3>3
  <2>8. s = r
    BY <2>7
  <2>q. QED
    BY <2>1, <2>5, <2>6, <2>8
<1>q. QED
  BY <1>1, <1>2, <1>3, <1>4, <1>a, <1>b, <1>c DEF Parts

(* The id of the entry from which on a compaction keeps the path: its own   *)
(* if it keeps none.                                                        *)
KeptId(path, x) == IF \E y \in Range(path) : y.id = x.ref /\ y.id < x.id THEN x.ref ELSE x.id

(* With a compaction on it, what a rising path makes the context show is a  *)
(* matter of three things: the ids it shows without one, the id from which  *)
(* on the compaction keeps them, and the id of the compaction.              *)
LEMMA ContextIs ==
  ASSUME NEW path \in Seq(Entry), Rising(path), Compactions(path) # {},
         NEW x, x = path[LatestCompaction(path)]
  PROVE  ContextMessages(path) = ContextOf(Shown(path), KeptId(path, x), x.id)
<1>1. PICK c : c = LatestCompaction(path)
  OBVIOUS
<1>2. c \in DOMAIN path /\ x = path[c] /\ x.kind = "compaction"
  <2>1. c \in Compactions(path)
    BY <1>1, LatestIs
  <2>q. QED
    BY <1>1, <2>1 DEF Compactions
<1>3. PICK n : n = Len(path)
  OBVIOUS
<1>4. n \in Nat /\ DOMAIN path = 1..n /\ c \in 1..n /\ x \in Entry /\ x.id \in Nat /\ x.ref \in Nat
      /\ x \in Unlabelled
  <2>1. n \in Nat /\ DOMAIN path = 1..n
    BY <1>3
  <2>2. x \in Entry
    BY <1>2
  <2>q. QED
    BY <1>2, <2>1, <2>2 DEF Entry, Unlabelled, IsLabel
<1>5. \A i \in 1..n : path[i] \in Entry /\ path[i].id \in Nat
  <2>1. \A i \in 1..n : path[i] \in Entry
    BY <1>3
  <2>q. QED
    BY <2>1 DEF Entry
<1>6. \A i, j \in 1..n : i < j => path[i].id < path[j].id
  BY <1>4 DEF Rising
<1>7. PICK kept : kept = {i \in PositionOf(path, path[c].ref) : i < c}
  OBVIOUS
<1>8. kept = {i \in 1..n : path[i].id = x.ref /\ i < c}
  BY <1>2, <1>4, <1>7 DEF PositionOf
<1>9. PICK from : from = IF kept = {} THEN c ELSE CHOOSE i \in kept : TRUE
  OBVIOUS
<1>10. PICK lo : lo = KeptId(path, x)
  OBVIOUS
<1>11. from \in 1..c /\ lo = path[from].id /\ lo \in Nat
  <2>1. CASE kept = {}
    <3>1. from = c
      BY <1>9, <2>1
    <3>2. ASSUME NEW y \in Range(path), y.id = x.ref, y.id < x.id PROVE FALSE
      <4>1. PICK i \in 1..n : y = path[i]
        BY <1>4 DEF Range
      <4>2. ~(i < c)
        BY <1>8, <2>1, <3>2, <4>1
      <4>3. ~(c < i)
        <5>1. c < i => x.id < y.id
          BY <1>2, <1>4, <1>6, <4>1
        <5>2. y.id \in Nat
          BY <1>5, <4>1
        <5>q. QED
          BY <1>4, <3>2, <5>1, <5>2
      <4>4. i # c
        BY <1>2, <1>4, <3>2, <4>1
      <4>q. QED
        BY <1>4, <4>2, <4>3, <4>4
    <3>3. lo = x.id
      BY <1>10, <3>2 DEF KeptId
    <3>q. QED
      BY <1>2, <1>4, <3>1, <3>3
  <2>2. CASE kept # {}
    <3>1. from \in kept
      BY <1>9, <2>2
    <3>2. from \in 1..n /\ path[from].id = x.ref /\ from < c
      BY <1>8, <3>1
    <3>3. path[from].id < x.id /\ path[from] \in Range(path)
      BY <1>2, <1>4, <1>6, <3>2 DEF Range
    <3>4. lo = x.ref
      BY <1>10, <3>2, <3>3 DEF KeptId
    <3>q. QED
      BY <1>4, <3>2, <3>4
  <2>q. QED
    BY <2>1, <2>2
<1>12. PICK A : A = SubSeq(path, 1, from - 1)
  OBVIOUS
<1>13. PICK M : M = SubSeq(path, from, c - 1)
  OBVIOUS
<1>14. PICK Z : Z = SubSeq(path, c + 1, Len(path))
  OBVIOUS
<1>15. /\ A \in Seq(Entry) /\ M \in Seq(Entry) /\ Z \in Seq(Entry)
       /\ Len(A) = from - 1 /\ \A i \in 1..Len(A) : A[i] = path[i]
       /\ Len(M) = c - from /\ \A i \in 1..Len(M) : M[i] = path[from + i - 1]
       /\ Len(Z) = Len(path) - c /\ \A i \in 1..Len(Z) : Z[i] = path[c + i]
       /\ path = ((A \o M) \o <<path[c]>>) \o Z
  <2>1. c \in 1..Len(path) /\ from \in 1..c
    BY <1>3, <1>4, <1>11
  <2>2. Parts(Entry, path, from, c, SubSeq(path, 1, from - 1), SubSeq(path, from, c - 1),
                                     SubSeq(path, c + 1, Len(path)))
    BY <2>1, Split
  <2>3. Parts(Entry, path, from, c, A, M, Z)
    BY <1>12, <1>13, <1>14, <2>2
  <2>q. QED
    BY <2>3 DEF Parts
<1>16. ContextEntries(path) = (<<x>> \o M) \o Z
  BY <1>1, <1>2, <1>7, <1>9, <1>13, <1>14 DEF ContextEntries
<1>17. Shown(A) \in Seq({k \in Nat : k < lo})
  <2>1. ASSUME NEW i \in 1..Len(A) PROVE A[i] \in Entry /\ A[i].id \in {k \in Nat : k < lo}
    <3>1. i \in 1..n /\ from \in 1..n /\ i < from
      BY <1>4, <1>11, <1>15
    <3>q. QED
      BY <1>5, <1>6, <1>11, <1>15, <3>1
  <2>2. A \in Seq({e \in Entry : e.id \in {k \in Nat : k < lo}})
    <3>1. A \in Seq(Entry)
      BY <1>15
    <3>2. PICK E : E = {e \in Entry : e.id \in {k \in Nat : k < lo}}
      OBVIOUS
    <3>3. \A i \in 1..Len(A) : A[i] \in E
      BY <2>1, <3>2
    <3>4. A \in Seq(E)
      BY <3>1, <3>3, SeqIn
    <3>q. QED
      BY <3>2, <3>4
  <2>q. QED
    BY <2>2, ShownType
<1>18. Shown(M) \in Seq({k \in Nat : lo <= k /\ k < x.id})
  <2>1. ASSUME NEW i \in 1..Len(M)
        PROVE  M[i] \in Entry /\ M[i].id \in {k \in Nat : lo <= k /\ k < x.id}
    <3>1. PICK j : j = from + i - 1
      OBVIOUS
    <3>2. j \in 1..n /\ from \in 1..n /\ from <= j /\ j < c /\ M[i] = path[j]
      BY <1>4, <1>11, <1>15, <3>1
    <3>3. path[j].id < x.id
      BY <1>2, <1>4, <1>6, <3>2
    <3>4. lo <= path[j].id
      <4>1. from = j \/ from < j
        BY <1>4, <3>2
      <4>2. from < j => path[from].id < path[j].id
        BY <1>6, <3>2
      <4>3. path[j].id \in Nat
        BY <1>5, <3>2
      <4>q. QED
        BY <1>11, <4>1, <4>2, <4>3
    <3>q. QED
      BY <1>5, <3>2, <3>3, <3>4
  <2>2. M \in Seq({e \in Entry : e.id \in {k \in Nat : lo <= k /\ k < x.id}})
    <3>1. M \in Seq(Entry)
      BY <1>15
    <3>2. PICK E : E = {e \in Entry : e.id \in {k \in Nat : lo <= k /\ k < x.id}}
      OBVIOUS
    <3>3. \A i \in 1..Len(M) : M[i] \in E
      BY <2>1, <3>2
    <3>4. M \in Seq(E)
      BY <3>1, <3>3, SeqIn
    <3>q. QED
      BY <3>2, <3>4
  <2>q. QED
    BY <2>2, ShownType
<1>19. Shown(Z) \in Seq({k \in Nat : k > x.id})
  <2>1. ASSUME NEW i \in 1..Len(Z) PROVE Z[i] \in Entry /\ Z[i].id \in {k \in Nat : k > x.id}
    <3>1. c + i \in 1..n /\ c < c + i /\ Z[i] = path[c + i]
      BY <1>3, <1>4, <1>15
    <3>2. x.id < path[c + i].id /\ path[c + i].id \in Nat
      BY <1>2, <1>4, <1>5, <1>6, <3>1
    <3>q. QED
      BY <1>4, <1>5, <3>1, <3>2
  <2>2. Z \in Seq({e \in Entry : e.id \in {k \in Nat : k > x.id}})
    <3>1. Z \in Seq(Entry)
      BY <1>15
    <3>2. PICK E : E = {e \in Entry : e.id \in {k \in Nat : k > x.id}}
      OBVIOUS
    <3>3. \A i \in 1..Len(Z) : Z[i] \in E
      BY <2>1, <3>2
    <3>4. Z \in Seq(E)
      BY <3>1, <3>3, SeqIn
    <3>q. QED
      BY <3>2, <3>4
  <2>q. QED
    BY <2>2, ShownType
<1>20. lo <= x.id
  <2>1. from = c \/ from < c
    BY <1>4, <1>11
  <2>2. from < c => path[from].id < path[c].id
    BY <1>4, <1>6, <1>11
  <2>q. QED
    BY <1>2, <1>4, <1>11, <2>1, <2>2
<1>21. <<x>> \in Seq(Entry) /\ Shown(<<x>>) = <<x.id>>
  BY <1>4, ShownOne
<1>22. Shown(path) = ((Shown(A) \o Shown(M)) \o <<x.id>>) \o Shown(Z)
  <2>1. PICK d : d = <<x>>
    OBVIOUS
  <2>2. PICK p : p = A \o M
    OBVIOUS
  <2>3. PICK q : q = p \o d
    OBVIOUS
  <2>4. A \in Seq(Entry) /\ M \in Seq(Entry) /\ Z \in Seq(Entry) /\ d \in Seq(Entry)
    BY <1>15, <1>21, <2>1
  <2>5. p \in Seq(Entry) /\ q \in Seq(Entry)
    BY <2>2, <2>3, <2>4
  <2>6. path = q \o Z
    BY <1>2, <1>15, <2>1, <2>2, <2>3
  <2>7. Shown(q \o Z) = Shown(q) \o Shown(Z)
    BY <2>4, <2>5, ShownConcat
  <2>8. Shown(p \o d) = Shown(p) \o Shown(d)
    BY <2>4, <2>5, ShownConcat
  <2>9. Shown(A \o M) = Shown(A) \o Shown(M)
    BY <2>4, ShownConcat
  <2>q. QED
    BY <1>21, <2>1, <2>2, <2>3, <2>6, <2>7, <2>8, <2>9
<1>23. ContextMessages(path) = (<<x.id>> \o Shown(M)) \o Shown(Z)
  <2>1. PICK d : d = <<x>>
    OBVIOUS
  <2>2. PICK p : p = d \o M
    OBVIOUS
  <2>3. M \in Seq(Entry) /\ Z \in Seq(Entry) /\ d \in Seq(Entry)
    BY <1>15, <1>21, <2>1
  <2>4. p \in Seq(Entry)
    BY <2>2, <2>3
  <2>5. Shown(p \o Z) = Shown(p) \o Shown(Z)
    BY <2>3, <2>4, ShownConcat
  <2>6. Shown(d \o M) = Shown(d) \o Shown(M)
    BY <2>3, ShownConcat
  <2>7. ContextMessages(path) = Shown(ContextEntries(path))
    BY ContextIsShown
  <2>q. QED
    BY <1>16, <1>21, <2>1, <2>2, <2>5, <2>6, <2>7
<1>24. ContextOf(((Shown(A) \o Shown(M)) \o <<x.id>>) \o Shown(Z), lo, x.id)
         = (<<x.id>> \o Shown(M)) \o Shown(Z)
  BY <1>4, <1>11, <1>17, <1>18, <1>19, <1>20, Pieces
<1>q. QED
  BY <1>10, <1>22, <1>23, <1>24
(* The first k elements and the next one are the first k + 1.               *)
LEMMA BeginningGrows ==
  ASSUME NEW T, NEW w \in Seq(T), NEW k \in Nat, k < Len(w)
  PROVE  Append(SubSeq(w, 1, k), w[k + 1]) = SubSeq(w, 1, k + 1)
<1>1. PICK a : a = SubSeq(w, 1, k)
  OBVIOUS
<1>2. PICK b : b = SubSeq(w, 1, k + 1)
  OBVIOUS
<1>3. a \in Seq(T) /\ Len(a) = k /\ \A i \in 1..k : a[i] = w[i]
  BY <1>1
<1>4. b \in Seq(T) /\ Len(b) = k + 1 /\ \A i \in 1..(k + 1) : b[i] = w[i]
  BY <1>2
<1>5. PICK e \in T : e = w[k + 1]
  OBVIOUS
<1>6. PICK q : q = Append(a, e)
  OBVIOUS
<1>7. /\ q \in Seq(T) /\ Len(q) = k + 1 /\ q[k + 1] = e
      /\ \A i \in 1..k : q[i] = a[i]
  BY <1>3, <1>6
<1>8. \A i \in 1..(k + 1) : q[i] = b[i]
  BY <1>3, <1>4, <1>5, <1>7
<1>9. q = b
  BY <1>4, <1>7, <1>8
<1>q. QED
  BY <1>1, <1>2, <1>5, <1>6, <1>9

(* A chain is the branch of its last entry.                                 *)
LEMMA ChainIsBranch ==
  ASSUME NEW S, Aged(S), NEW w \in Seq(S), Rising(w), Chain(w)
  PROVE  Branch(w, LastId(w)) = w
<1>1. PICK p \in [Nat -> Seq(S)] : Walk(w, p) /\ \A leaf \in Nat : Branch(w, leaf) = p[leaf]
  BY BranchWalks DEF HasWalk
<1>2. PICK n \in Nat : n = Len(w)
  OBVIOUS
<1>3. DOMAIN w = 1..n
  BY <1>2
<1>4. \A i \in 1..n : w[i] \in S /\ w[i].id \in Nat \ {0}
  <2>1. \A i \in 1..n : w[i] \in S
    BY <1>2
  <2>q. QED
    BY <2>1, AgedIs
<1>5. Unique(w)
  BY ChainIsTree DEF Tree
<1>6. PICK pos : pos = [k \in 0..n |-> IF k = 0 THEN 0 ELSE w[k].id]
  OBVIOUS
<1>7. ASSUME NEW k \in 0..n PROVE pos[k] \in Nat
  <2>1. CASE k = 0
    BY <1>6, <2>1
  <2>2. CASE k # 0
    <3>1. k \in 1..n
      BY <2>2
    <3>2. w[k].id \in Nat
      BY <1>4, <3>1
    <3>q. QED
      BY <1>6, <2>2, <3>2
  <2>q. QED
    BY <2>1, <2>2
<1> DEFINE D == {k \in Nat : k <= n => p[pos[k]] = SubSeq(w, 1, k)}
<1>8. 0 \in D
  <2>1. 0 \notin IdsOf(w)
    BY <1>3, <1>4 DEF IdsOf
  <2>2. p[0] = <<>>
    BY <1>1, <2>1 DEF Walk
  <2>3. pos[0] = 0 /\ SubSeq(w, 1, 0) = <<>>
    BY <1>6
  <2>q. QED
    BY <2>2, <2>3
<1>9. ASSUME NEW k \in D PROVE k + 1 \in D
  <2> SUFFICES ASSUME k + 1 <= n PROVE p[pos[k + 1]] = SubSeq(w, 1, k + 1)
    OBVIOUS
  <2>1. k \in Nat /\ k \in 0..n /\ k + 1 \in 1..n /\ k + 1 \in 0..n
    OBVIOUS
  <2>2. p[pos[k]] = SubSeq(w, 1, k)
    BY <2>1
  <2>3. PICK e : e = w[k + 1]
    OBVIOUS
  <2>4. e \in S /\ e.id \in Nat /\ e.id \in IdsOf(w) /\ pos[k + 1] = e.id
    <3>1. e \in S /\ e.id \in Nat
      BY <1>4, <2>1, <2>3
    <3>2. e.id \in IdsOf(w)
      BY <1>3, <2>1, <2>3 DEF IdsOf
    <3>3. k + 1 # 0
      BY <2>1
    <3>4. pos[k + 1] = e.id
      BY <1>6, <2>1, <2>3, <3>3
    <3>q. QED
      BY <3>1, <3>2, <3>4
  <2>5. ById(w, e.id) = e
    <3>1. ById(w, e.id) \in Range(w) /\ ById(w, e.id).id = e.id
      BY <2>4, ByIdIs
    <3>2. PICK j \in DOMAIN w : w[j] = ById(w, e.id)
      BY <3>1 DEF Range
    <3>3. j = k + 1
      BY <1>3, <1>5, <2>1, <2>3, <3>1, <3>2 DEF Unique
    <3>q. QED
      BY <2>3, <3>2, <3>3
  <2>6. e.parent = pos[k]
    <3>1. e.parent = IF k + 1 = 1 THEN 0 ELSE w[(k + 1) - 1].id
      BY <1>3, <2>1, <2>3 DEF Chain
    <3>2. (k + 1) - 1 = k /\ (k + 1 = 1 <=> k = 0)
      BY <2>1
    <3>q. QED
      BY <1>6, <2>1, <3>1, <3>2
  <2>7. p[e.id] = Append(p[pos[k]], e)
    BY <1>1, <2>4, <2>5, <2>6 DEF Walk
  <2>8. Append(SubSeq(w, 1, k), w[k + 1]) = SubSeq(w, 1, k + 1)
    <3>1. k < Len(w)
      BY <1>2, <2>1
    <3>q. QED
      BY <2>1, <3>1, BeginningGrows
  <2>q. QED
    BY <2>2, <2>3, <2>4, <2>7, <2>8
<1>10. D = Nat
  <2> HIDE DEF D
  <2>1. D \in SUBSET Nat
    BY DEF D
  <2>q. QED
    BY <1>8, <1>9, <2>1, Induction
<1>11. p[pos[n]] = SubSeq(w, 1, n)
  <2>1. n \in D
    BY <1>10
  <2>q. QED
    BY <2>1
<1>12. SubSeq(w, 1, n) = w
  BY <1>2
<1>13. LastId(w) = pos[n] /\ pos[n] \in Nat
  <2>1. w = <<>> <=> n = 0
    BY <1>2
  <2>2. n \in 0..n
    OBVIOUS
  <2>q. QED
    BY <1>2, <1>6, <1>7, <2>1, <2>2 DEF LastId, Last
<1>q. QED
  BY <1>1, <1>11, <1>12, <1>13

(* Entries that differ in their parents only.                               *)
Alike(s, t) ==
  /\ DOMAIN s = DOMAIN t
  /\ \A i \in DOMAIN s : s[i].id = t[i].id /\ s[i].kind = t[i].kind /\ s[i].ref = t[i].ref

(* The path of a fork is the path without its labels, but for the parents.  *)
LEMMA RechainedAlike ==
  ASSUME NEW path \in Seq(Entry)
  PROVE  Alike(Rechained(path), Selected(path, Unlabelled))
<1>1. PICK kept : kept = Selected(path, Unlabelled)
  OBVIOUS
<1>2. kept \in Seq(Entry)
  BY <1>1, SelectedType
<1>3. PICK q : q = [i \in DOMAIN kept |->
                      [kept[i] EXCEPT !.parent = IF i = 1 THEN 0 ELSE kept[i - 1].id]]
  OBVIOUS
<1>4. Rechained(path) = q
  BY <1>1, <1>3 DEF Rechained
<1>5. ASSUME NEW i \in DOMAIN kept
      PROVE  q[i].id = kept[i].id /\ q[i].kind = kept[i].kind /\ q[i].ref = kept[i].ref
  <2>1. PICK n : n = IF i = 1 THEN 0 ELSE kept[i - 1].id
    OBVIOUS
  <2>2. PICK e \in Entry : e = kept[i]
    BY <1>2
  <2>3. q[i] = [e EXCEPT !.parent = n]
    BY <1>3, <2>1, <2>2
  <2>q. QED
    BY <2>2, <2>3 DEF Entry
<1>q. QED
  BY <1>1, <1>3, <1>4, <1>5 DEF Alike

(* The latest compaction of a path is the one with the greatest id.         *)
LatestById(path, x) ==
  /\ x \in Range(path) /\ x.kind = "compaction"
  /\ \A y \in Range(path) : y.kind = "compaction" => y.id <= x.id

(* The ids of a path rise, so that the compaction that stands last is the   *)
(* youngest.                                                                *)
LEMMA LatestHasGreatestId ==
  ASSUME NEW path \in Seq(Entry), Rising(path), Compactions(path) # {}
  PROVE  LatestById(path, path[LatestCompaction(path)])
<1>1. PICK C : C = Compactions(path)
  OBVIOUS
<1>2. PICK c : c = LatestCompaction(path)
  OBVIOUS
<1>3. C = {i \in DOMAIN path : path[i].kind = "compaction"}
  BY <1>1 DEF Compactions
<1>4. c \in C /\ \A d \in C : d <= c
  BY <1>1, <1>2, LatestIs
<1>5. \A i \in DOMAIN path : path[i].id \in Nat /\ i \in Nat
  <2>1. \A i \in DOMAIN path : path[i] \in Entry /\ i \in Nat
    OBVIOUS
  <2>q. QED
    BY <2>1 DEF Entry
<1>6. path[c] \in Range(path) /\ path[c].kind = "compaction"
  BY <1>3, <1>4 DEF Range
<1>7. ASSUME NEW y \in Range(path), y.kind = "compaction" PROVE y.id <= path[c].id
  <2>1. PICK i \in DOMAIN path : y = path[i]
    BY DEF Range
  <2>2. i \in C /\ c \in DOMAIN path
    BY <1>3, <1>4, <1>7, <2>1
  <2>3. i <= c
    BY <1>4, <2>2
  <2>4. i = c \/ i < c
    BY <1>5, <2>2, <2>3
  <2>5. i < c => path[i].id < path[c].id
    BY <2>2 DEF Rising
  <2>q. QED
    BY <1>5, <2>1, <2>2, <2>4, <2>5
<1>q. QED
  BY <1>2, <1>6, <1>7 DEF LatestById

(* No two entries of a rising path have the same id.                        *)
LEMMA OneOfAnId ==
  ASSUME NEW path \in Seq(Entry), Rising(path), NEW x \in Range(path), NEW y \in Range(path),
  x.id = y.id
  PROVE  x = y
<1>1. PICK i \in DOMAIN path : x = path[i]
  BY DEF Range
<1>2. PICK j \in DOMAIN path : y = path[j]
  BY DEF Range
<1>3. i \in Nat /\ j \in Nat /\ path[i].id \in Nat /\ path[j].id \in Nat
  <2>1. i \in Nat /\ j \in Nat /\ path[i] \in Entry /\ path[j] \in Entry
    OBVIOUS
  <2>q. QED
    BY <2>1 DEF Entry
<1>4. (i < j => path[i].id < path[j].id) /\ (j < i => path[j].id < path[i].id)
  BY DEF Rising
<1>5. i = j
  BY <1>1, <1>2, <1>3, <1>4
<1>q. QED
  BY <1>1, <1>2, <1>5

(* A concatenation has the elements of its parts.                           *)
LEMMA RangeOfConcat ==
  ASSUME NEW T, NEW s \in Seq(T), NEW t \in Seq(T)
  PROVE  Range(s \o t) = Range(s) \union Range(t)
<1>1. PICK w : w = s \o t
  OBVIOUS
<1>2. /\ w \in Seq(T) /\ Len(w) = Len(s) + Len(t)
      /\ \A i \in 1..Len(s) : w[i] = s[i]
      /\ \A i \in 1..Len(t) : w[Len(s) + i] = t[i]
  BY <1>1, ConcatIs
<1>3. DOMAIN w = 1..(Len(s) + Len(t)) /\ DOMAIN s = 1..Len(s) /\ DOMAIN t = 1..Len(t)
      /\ Len(s) \in Nat /\ Len(t) \in Nat
  BY <1>2
<1>4. ASSUME NEW y \in Range(w) PROVE y \in Range(s) \union Range(t)
  <2>1. PICK i \in 1..(Len(s) + Len(t)) : y = w[i]
    BY <1>3 DEF Range
  <2>2. CASE i <= Len(s)
    BY <1>2, <1>3, <2>1, <2>2 DEF Range
  <2>3. CASE i > Len(s)
    <3>1. i - Len(s) \in 1..Len(t) /\ Len(s) + (i - Len(s)) = i
      BY <1>3, <2>3
    <3>2. y = t[i - Len(s)]
      BY <1>2, <2>1, <3>1
    <3>q. QED
      BY <1>3, <3>1, <3>2 DEF Range
  <2>q. QED
    BY <1>3, <2>2, <2>3
<1>5. ASSUME NEW y \in Range(s) PROVE y \in Range(w)
  <2>1. PICK i \in 1..Len(s) : y = s[i]
    BY <1>3 DEF Range
  <2>2. i \in DOMAIN w /\ w[i] = y
    BY <1>2, <1>3, <2>1
  <2>q. QED
    BY <2>2 DEF Range
<1>6. ASSUME NEW y \in Range(t) PROVE y \in Range(w)
  <2>1. PICK i \in 1..Len(t) : y = t[i]
    BY <1>3 DEF Range
  <2>2. Len(s) + i \in DOMAIN w /\ w[Len(s) + i] = y
    BY <1>2, <1>3, <2>1
  <2>q. QED
    BY <2>2 DEF Range
<1>q. QED
  BY <1>1, <1>4, <1>5, <1>6

(* Each entry of s that is no label stands in t too, but for its parent.    *)
Has(t, s) ==
  \A y \in Range(s) : ~IsLabel(y) =>
    \E z \in Range(t) : z.id = y.id /\ z.kind = y.kind /\ z.ref = y.ref

(* A compaction is no label.                                                *)
LEMMA SomeCompaction ==
  ASSUME NEW s \in Seq(Entry), NEW t \in Seq(Entry), Has(t, s), Compactions(s) # {}
  PROVE  Compactions(t) # {}
<1>1. PICK i \in DOMAIN s : s[i].kind = "compaction"
  BY DEF Compactions
<1>2. s[i] \in Range(s) /\ ~IsLabel(s[i])
  BY <1>1 DEF Range, IsLabel
<1>3. PICK z \in Range(t) : z.kind = "compaction"
  BY <1>1, <1>2 DEF Has
<1>4. PICK j \in DOMAIN t : z = t[j]
  BY DEF Range
<1>q. QED
  BY <1>3, <1>4 DEF Compactions

(* What has the entries of s has its latest compaction, too.                *)
LEMMA LatestNotOlder ==
  ASSUME NEW s \in Seq(Entry), NEW t \in Seq(Entry), Has(t, s),
         NEW x, LatestById(s, x), NEW y, LatestById(t, y)
  PROVE  \E z \in Range(t) : z.id = x.id /\ z.ref = x.ref /\ z.id <= y.id
<1>1. x \in Range(s) /\ x.kind = "compaction" /\ ~IsLabel(x)
  BY DEF LatestById, IsLabel
<1>2. PICK z \in Range(t) : z.id = x.id /\ z.kind = "compaction" /\ z.ref = x.ref
  BY <1>1 DEF Has
<1>3. z.id <= y.id
  BY <1>2 DEF LatestById
<1>q. QED
  BY <1>2, <1>3

(* Sequences with the same entries but labels have the same latest          *)
(* compaction.                                                              *)
LEMMA SameCompaction ==
  ASSUME NEW s \in Seq(Entry), NEW t \in Seq(Entry), Rising(t), Has(t, s), Has(s, t),
         NEW x, LatestById(s, x), NEW y, LatestById(t, y)
  PROVE  x.id = y.id /\ x.ref = y.ref
<1>1. PICK z \in Range(t) : z.id = x.id /\ z.ref = x.ref /\ z.id <= y.id
  BY LatestNotOlder
<1>2. PICK u \in Range(s) : u.id = y.id /\ u.ref = y.ref /\ u.id <= x.id
  BY LatestNotOlder
<1>3. y \in Range(t) /\ x \in Range(s)
  BY DEF LatestById
<1>4. y \in Entry /\ z \in Entry /\ x \in Entry
  <2>1. Range(t) \subseteq Entry /\ Range(s) \subseteq Entry
    BY DEF Range
  <2>q. QED
    BY <1>1, <1>3, <2>1
<1>5. x.id \in Nat /\ y.id \in Nat
  BY <1>4 DEF Entry
<1>6. x.id = y.id
  BY <1>1, <1>2, <1>5
<1>7. z = y
  BY <1>1, <1>3, <1>6, OneOfAnId
<1>q. QED
  BY <1>1, <1>6, <1>7

(* Labels only behind everything else.                                      *)
LabelsLater(s, t) == \A y \in Range(s) : IsLabel(y) => \A z \in Range(t) : z.id < y.id

(* They keep their entries from the same one on, as that is no label and    *)
(* the labels of the one are younger than the compaction.                   *)
LEMMA SameKept ==
  ASSUME NEW s \in Seq(Entry), NEW t \in Seq(Entry), Has(t, s), Has(s, t), LabelsLater(s, t),
         NEW x, NEW y, LatestById(t, y), y = t[LatestCompaction(t)], x.id = y.id, x.ref = y.ref,
         Compactions(t) # {}, ~KeptFromLabel(t)
  PROVE  KeptId(s, x) = KeptId(t, y)
<1>0. y \in Range(t) /\ y.id \in Nat
  <2>1. y \in Range(t) /\ Range(t) \subseteq Entry
    BY DEF LatestById, Range
  <2>q. QED
    BY <2>1 DEF Entry
<1>1. ASSUME NEW u \in Range(s), u.id = x.ref, u.id < x.id
      PROVE  \E v \in Range(t) : v.id = y.ref /\ v.id < y.id
  <2>1. ~IsLabel(u)
    <3>1. ~(y.id < u.id)
      <4>1. u \in Entry
        BY DEF Range
      <4>2. u.id \in Nat
        BY <4>1 DEF Entry
      <4>q. QED
        BY <1>0, <1>1, <4>2
    <3>q. QED
      BY <1>0, <3>1 DEF LabelsLater
  <2>2. PICK v \in Range(t) : v.id = u.id
    BY <2>1 DEF Has
  <2>q. QED
    BY <1>1, <2>2
<1>2. ASSUME NEW v \in Range(t), v.id = y.ref, v.id < y.id
      PROVE  \E u \in Range(s) : u.id = x.ref /\ u.id < x.id
  <2>1. PICK i \in DOMAIN t : v = t[i]
    BY DEF Range
  <2>2. i \in PositionOf(t, t[LatestCompaction(t)].ref)
    BY <1>2, <2>1 DEF PositionOf
  <2>3. ~IsLabel(v)
    BY <2>1, <2>2 DEF KeptFromLabel
  <2>4. PICK u \in Range(s) : u.id = v.id
    BY <2>3 DEF Has
  <2>q. QED
    BY <1>2, <2>4
<1>q. QED
  BY <1>1, <1>2 DEF KeptId

(* A path with the same entries, but labels only behind them, shows the     *)
(* model what the other shows it.                                           *)
LEMMA SameContext ==
  ASSUME NEW s \in Seq(Entry), NEW t \in Seq(Entry), Rising(s), Rising(t),
         Has(t, s), Has(s, t), LabelsLater(s, t), Shown(s) = Shown(t), ~KeptFromLabel(t)
  PROVE  ContextMessages(s) = ContextMessages(t)
<1>1. Compactions(s) = {} <=> Compactions(t) = {}
  BY SomeCompaction
<1>2. CASE Compactions(t) = {}
  <2>1. ContextEntries(s) = s /\ ContextEntries(t) = t
    BY <1>1, <1>2 DEF ContextEntries
  <2>2. /\ ContextMessages(s) = Shown(ContextEntries(s))
        /\ ContextMessages(t) = Shown(ContextEntries(t))
    BY ContextIsShown
  <2>q. QED
    BY <2>1, <2>2
<1>3. CASE Compactions(t) # {}
  <2>1. PICK x : x = s[LatestCompaction(s)]
    OBVIOUS
  <2>2. PICK y : y = t[LatestCompaction(t)]
    OBVIOUS
  <2>3. LatestById(s, x) /\ LatestById(t, y)
    BY <1>1, <1>3, <2>1, <2>2, LatestHasGreatestId
  <2>4. x.id = y.id /\ x.ref = y.ref
    BY <2>3, SameCompaction
  <2>5. KeptId(s, x) = KeptId(t, y)
    BY <1>3, <2>2, <2>3, <2>4, SameKept
  <2>6. ContextMessages(s) = ContextOf(Shown(s), KeptId(s, x), x.id)
    BY <1>1, <1>3, <2>1, ContextIs
  <2>7. ContextMessages(t) = ContextOf(Shown(t), KeptId(t, y), y.id)
    BY <1>3, <2>2, ContextIs
  <2>q. QED
    BY <2>4, <2>5, <2>6, <2>7
<1>q. QED
  BY <1>2, <1>3

(* Entries that differ in their parents only have the same ids.             *)
LEMMA AlikeIds ==
  ASSUME NEW s, NEW t, Alike(s, t)
  PROVE  Ids(s) = Ids(t)
BY DEF Alike, Ids

(* They stand for each other.                                               *)
LEMMA AlikeHas ==
  ASSUME NEW s, NEW t, Alike(s, t)
  PROVE  /\ \A y \in Range(s) : \E z \in Range(t) : z.id = y.id /\ z.kind = y.kind /\ z.ref = y.ref
         /\ \A z \in Range(t) : \E y \in Range(s) : z.id = y.id /\ z.kind = y.kind /\ z.ref = y.ref
<1>1. ASSUME NEW y \in Range(s)
      PROVE  \E z \in Range(t) : z.id = y.id /\ z.kind = y.kind /\ z.ref = y.ref
  <2>1. PICK i \in DOMAIN s : y = s[i]
    BY DEF Range
  <2>2. i \in DOMAIN t /\ t[i].id = y.id /\ t[i].kind = y.kind /\ t[i].ref = y.ref
    BY <2>1 DEF Alike
  <2>q. QED
    BY <2>2 DEF Range
<1>2. ASSUME NEW z \in Range(t)
      PROVE  \E y \in Range(s) : z.id = y.id /\ z.kind = y.kind /\ z.ref = y.ref
  <2>1. PICK i \in DOMAIN t : z = t[i]
    BY DEF Range
  <2>2. i \in DOMAIN s /\ s[i].id = z.id /\ s[i].kind = z.kind /\ s[i].ref = z.ref
    BY <2>1 DEF Alike
  <2>q. QED
    BY <2>2 DEF Range
<1>q. QED
  BY <1>1, <1>2

(* A path without its labels, with labels behind, shows the model the same. *)
LEMMA RelabelledContext ==
  ASSUME NEW t \in Seq(Entry), Rising(t), ~KeptFromLabel(t),
         NEW r \in Seq(Entry), Alike(r, Selected(t, Unlabelled)),
         NEW l \in Seq(Entry),
         \A e \in Range(l) : e.kind = "label" /\ \A z \in Range(t) : z.id < e.id,
         Rising(r \o l)
  PROVE  ContextMessages(r \o l) = ContextMessages(t)
<1>1. PICK s : s = r \o l
  OBVIOUS
<1>2. PICK u : u = Selected(t, Unlabelled)
  OBVIOUS
<1>3. s \in Seq(Entry) /\ Rising(s) /\ Range(s) = Range(r) \union Range(l)
  BY <1>1, RangeOfConcat
<1>4. u \in Seq(Entry) /\ Range(u) = Range(t) \intersect Unlabelled /\ Alike(r, u)
  BY <1>2, SelectedType, SelectedRange
<1>5. \A e \in Range(t) : e \in Entry
  BY DEF Range
<1>6. \A y \in Range(r) :
        ~IsLabel(y) /\ \E z \in Range(t) : z.id = y.id /\ z.kind = y.kind /\ z.ref = y.ref
  <2>1. \A y \in Range(r) : \E z \in Range(u) : z.id = y.id /\ z.kind = y.kind /\ z.ref = y.ref
    BY <1>4, AlikeHas
  <2>q. QED
    BY <1>4, <2>1 DEF Unlabelled, IsLabel
<1>7. Has(t, s)
  BY <1>3, <1>6 DEF Has, IsLabel
<1>8. Has(s, t)
  <2> SUFFICES ASSUME NEW z \in Range(t), ~IsLabel(z)
               PROVE  \E y \in Range(s) : y.id = z.id /\ y.kind = z.kind /\ y.ref = z.ref
    BY DEF Has
  <2>1. z \in Range(u)
    BY <1>4, <1>5 DEF Unlabelled
  <2>2. PICK y \in Range(r) : z.id = y.id /\ z.kind = y.kind /\ z.ref = y.ref
    BY <1>4, <2>1, AlikeHas
  <2>q. QED
    BY <1>3, <2>2
<1>9. LabelsLater(s, t)
  BY <1>3, <1>6 DEF LabelsLater
<1>10. Shown(s) = Shown(t)
  <2>1. Shown(r \o l) = Shown(r) \o Shown(l)
    BY ShownConcat
  <2>2. Selected(l, Unlabelled) = <<>>
    <3>1. PICK Z : Z = {e \in Entry : e.kind = "label"}
      OBVIOUS
    <3>2. \A i \in 1..Len(l) : l[i] \in Z
      BY <3>1 DEF Range
    <3>3. l \in Seq(Z)
      BY <3>2, SeqIn
    <3>4. Z \intersect Unlabelled = {}
      BY <3>1 DEF Unlabelled, IsLabel
    <3>q. QED
      BY <3>3, <3>4, SelectedNone
  <2>3. Selected(r, Unlabelled) = r
    <3>1. \A i \in 1..Len(r) : r[i] \in Entry /\ r[i] \in Range(r)
      BY DEF Range
    <3>2. \A i \in 1..Len(r) : r[i] \in Unlabelled
      BY <1>6, <3>1 DEF Unlabelled
    <3>3. r \in Seq(Unlabelled)
      BY <3>2, SeqIn
    <3>q. QED
      BY <3>3, SelectedAll
  <2>4. Ids(<<>>) = <<>>
    BY DEF Ids
  <2>5. Ids(r) = Ids(u)
    BY <1>4, AlikeIds
  <2>6. Ids(r) \in Seq(Nat)
    <3>1. Entry = {e \in Entry : e.id \in Nat}
      BY DEF Entry
    <3>q. QED
      BY <3>1, IdsType
  <2>7. Ids(r) \o <<>> = Ids(r)
    BY <2>6
  <2>q. QED
    BY <1>1, <1>2, <2>1, <2>2, <2>3, <2>4, <2>5, <2>7 DEF Shown
<1>11. ContextMessages(s) = ContextMessages(t)
  BY <1>3, <1>7, <1>8, <1>9, <1>10, SameContext
<1>q. QED
  BY <1>1, <1>11

(* createBranchedSession keeps what the model is sent: the branch of the    *)
(* new leaf has the messages, and the summary, of the branch forked from,   *)
(* in their order, unless its compaction keeps the path from a label on or  *)
(* from an entry that is not on it.                                         *)
THEOREM ContextIsForked == Spec => ForkKeepsContext
<1>1. ASSUME IInv, IInv', Continues, NEW m \in Managers, NEW id, Fork(m, id),
             ~KeptFromLabel(Branch(Loaded(mem[m].file), id))
      PROVE  ContextMessages(Branch(mem'[m].entries, mem'[m].leaf))
               = ContextMessages(Branch(Loaded(mem[m].file), id))
  <2>1. PICK es : es = Loaded(mem[m].file)
    OBVIOUS
  <2>2. PICK path : path = ForkPath(m, id)
    OBVIOUS
  <2>3. PICK targets : targets = ForkTargets(m, id)
    OBVIOUS
  <2>4. CreateBranchedSession(m, id)
    BY <1>1 DEF Fork
  <2>5. /\ IsOpen(m) /\ Loadable(mem[m].file) /\ id \in IdsOf(Loaded(mem[m].file))
        /\ ids' = ids + Len(ForkTargets(m, id))
    <3>1. PICK s : s = Index(names + 1, ForkEntries(m, id))
      OBVIOUS
    <3>q. QED
      BY <2>4, <3>1, ForkDone
  <2>6. /\ es \in Seq(Stored) /\ id \in Nat
        /\ path \in Seq(Stored) /\ Rising(path) /\ Chain(path)
        /\ targets \in Seq(Nat)
    BY <1>1, <2>1, <2>2, <2>3, <2>5, ForkParts
  <2>7. ids \in Nat /\ ids' \in Nat /\ ids <= ids'
    BY <1>1 DEF IInv, TypeInv, DiskType, Continues
  <2>8. PICK ls : ls = LabelsBehind(path, targets)
    OBVIOUS
  <2>9. /\ ls \in Seq(Stored') /\ \A i \in 1..Len(ls) : ls[i].id = ids + i /\ ls[i].kind = "label"
    <3>1. path \in Seq(Stored) /\ targets \in Seq(Nat) /\ ids' = ids + Len(targets)
      BY <2>3, <2>5, <2>6
    <3>2. AreBehind(Stored', LabelsBehind(path, targets), path, targets)
      BY <2>7, <3>1, LabelsAre
    <3>q. QED
      BY <2>8, <3>2 DEF AreBehind
  <2>10. PICK w : w = path \o ls
    OBVIOUS
  <2>11. w \in Seq(Stored') /\ Rising(w) /\ Chain(w)
    BY <2>3, <2>5, <2>6, <2>7, <2>8, <2>10, ForkIsTree
  <2>12. Branch(w, LastId(w)) = w
    <3>1. PICK T : T = Stored'
      OBVIOUS
    <3>2. Aged(T)
      BY <3>1 DEF Aged, Stored, Entry, Kinds, PlainKinds
    <3>3. w \in Seq(T)
      BY <2>11, <3>1
    <3>q. QED
      BY <2>11, <3>2, <3>3, ChainIsBranch
  <2>13. mem'[m].entries = w /\ mem'[m].leaf = LastId(w)
    <3>1. w = ForkEntries(m, id)
      BY <2>2, <2>3, <2>8, <2>10 DEF ForkEntries
    <3>q. QED
      BY <1>1, <3>1, ForkKnown
  <2>14. PICK t : t = Branch(es, id)
    OBVIOUS
  <2>15. t \in Seq(Stored) /\ Rising(t)
    <3>1. PICK S : S = Stored
      OBVIOUS
    <3>2. Aged(S) /\ es \in Seq(S)
      BY <2>6, <2>7, <3>1, StoredAged
    <3>3. BranchOf(S, es, id, Branch(es, id))
      BY <2>6, <3>2, BranchIs
    <3>q. QED
      BY <2>14, <3>1, <3>3 DEF BranchOf
  <2>16. /\ t \in Seq(Entry) /\ path \in Seq(Entry) /\ ls \in Seq(Entry)
    <3>1. Stored \subseteq Entry /\ Stored' \subseteq Entry
      BY DEF Stored, Entry, Kinds, PlainKinds
    <3>2. Seq(Stored) \subseteq Seq(Entry) /\ Seq(Stored') \subseteq Seq(Entry)
      BY <3>1, SeqGrows
    <3>q. QED
      BY <2>6, <2>9, <2>15, <3>2
  <2>17. Alike(path, Selected(t, Unlabelled))
    <3>1. path = Rechained(t)
      BY <2>1, <2>2, <2>14 DEF ForkPath
    <3>q. QED
      BY <2>16, <3>1, RechainedAlike
  <2>18. ASSUME NEW e \in Range(ls) PROVE e.kind = "label" /\ \A z \in Range(t) : z.id < e.id
    <3>1. PICK i \in 1..Len(ls) : e = ls[i]
      BY <2>16 DEF Range
    <3>2. e.id = ids + i /\ e.kind = "label" /\ i \in Nat \ {0}
      BY <2>9, <2>16, <3>1
    <3>3. ASSUME NEW z \in Range(t) PROVE z.id < e.id
      <4>1. z \in Stored
        BY <2>15 DEF Range
      <4>2. z.id \in 1..ids
        BY <4>1 DEF Stored
      <4>q. QED
        BY <2>7, <3>2, <4>2
    <3>q. QED
      BY <3>2, <3>3
  <2>19. ~KeptFromLabel(t)
    BY <1>1, <2>1, <2>14
  <2>20. ContextMessages(path \o ls) = ContextMessages(t)
    <3>1. Rising(path \o ls)
      BY <2>10, <2>11
    <3>q. QED
      BY <2>15, <2>16, <2>17, <2>18, <2>19, <3>1, RelabelledContext
  <2>q. QED
    BY <2>1, <2>10, <2>12, <2>13, <2>14, <2>20
<1>2. IInv /\ [Next]_vars =>
        \A m \in Managers : Forks(m) => \A id \in 1..MaxEntries :
          LET path == Branch(Loaded(mem[m].file), id)
          IN  Fork(m, id) /\ ~KeptFromLabel(path) =>
                ContextMessages(Branch(mem'[m].entries, mem'[m].leaf)) = ContextMessages(path)
  BY <1>1, NextIInv
<1>q. QED
  BY <1>2, Invariance, PTL DEF Spec, ForkKeepsContext
==============================================================================
