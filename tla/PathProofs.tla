----------------------------- MODULE PathProofs -------------------------------
(***************************************************************************)
(* What the operators of Connection on paths do, for any directories and   *)
(* any sequences of names: isInsideHome, the path handleCd sends, and      *)
(* normalize_path.  The theorems about sessions rest on these.             *)
(***************************************************************************)
EXTENDS Connection, SequenceTheorems, WellFoundedInduction, TLAPS

-----------------------------------------------------------------------------
(* Homes.                                                                  *)

LEMMA HomeTyped ==
  ASSUME NEW u \in Users
  PROVE  /\ HomeOf(u) \in Dirs /\ HomeOf(u) \in Seq(STRING) /\ HomeOf(u) # <<>>
         /\ Len(HomeOf(u)) \in Nat \ {0}
<1>1. HomeOf(u) \in Dirs /\ HomeOf(u) \in Seq(STRING) /\ Root \in Seq(STRING)
  BY ConnectionConstants DEF HomeOf
<1>2. Root \in Seq(STRING \cup {u})
  BY <1>1, SeqMonotonic
<1>3. HomeOf(u) # <<>>
  BY <1>2, AppendProperties DEF HomeOf
<1>4. Len(HomeOf(u)) \in Nat \ {0}
  BY <1>1, <1>3, LenProperties, EmptySeq
<1> QED BY <1>1, <1>3, <1>4

(* A path that passes isInsideHome has the home as its first names: the    *)
(* test of the character behind the text that strncmp compares rules out a *)
(* neighbour whose name begins like the user's.                            *)
THEOREM InsideIsPrefix ==
  ASSUME NEW d \in Seq(STRING), d # <<>>, NEW p, IsInside(d, p)
  PROVE  IsPrefix(d, p)
<1> DEFINE n == Len(d)
           S == STRING \cup {p[i] : i \in 1..n}
<1>1. n \in Nat \ {0} /\ d \in Seq(S)
  <2>1. n \in Nat \ {0}
    BY LenProperties, EmptySeq
  <2> QED BY <2>1, SeqMonotonic, STRING \subseteq S
<1>2. /\ Len(p) >= n /\ SubSeq(p, 1, n - 1) = SubSeq(d, 1, n - 1)
      /\ p[n] = d[n]
  BY DEF IsInside, Begins
<1>3. \A i \in 1..n : d[i] \in S /\ p[i] \in S
  <2>1. \A i \in 1..n : d[i] \in S
    BY <1>1, ElementOfSeq
  <2> QED BY <2>1
<1> HIDE DEF n, S
<1>4. \A i \in 1..n - 1 : p[i] = d[i]
  <2>1. \A i \in 1..n - 1 : d[i] \in S /\ p[i] \in S
    BY <1>1, <1>3
  <2>2. \A i \in 1..(n - 1) - 1 + 1 : SubSeq(d, 1, n - 1)[i] = d[1 + i - 1]
    BY <1>1, <2>1, SubSeqProperties, n - 1 \in Int
  <2>3. \A i \in 1..(n - 1) - 1 + 1 : SubSeq(p, 1, n - 1)[i] = p[1 + i - 1]
    BY <1>1, <2>1, SubSeqProperties, n - 1 \in Int
  <2>4. \A i \in 1..n - 1 : i \in 1..(n - 1) - 1 + 1 /\ 1 + i - 1 = i
    BY <1>1
  <2> QED BY <1>2, <2>2, <2>3, <2>4
<1>5. \A i \in 1..n : p[i] = d[i]
  BY <1>1, <1>2, <1>4
<1>6. /\ SubSeq(d, 1, n) \in Seq(S) /\ Len(SubSeq(d, 1, n)) = n
      /\ \A i \in 1..n : SubSeq(d, 1, n)[i] = d[i]
  <2>1. /\ SubSeq(d, 1, n) \in Seq(S)
        /\ Len(SubSeq(d, 1, n)) = IF 1 <= n THEN n - 1 + 1 ELSE 0
        /\ \A i \in 1..n - 1 + 1 : SubSeq(d, 1, n)[i] = d[1 + i - 1]
    BY <1>1, <1>3, SubSeqProperties
  <2>2. \A i \in 1..n : i \in 1..n - 1 + 1 /\ 1 + i - 1 = i
    BY <1>1
  <2>3. (IF 1 <= n THEN n - 1 + 1 ELSE 0) = n
    BY <1>1
  <2> QED BY <2>1, <2>2, <2>3
<1>7. /\ SubSeq(p, 1, n) \in Seq(S) /\ Len(SubSeq(p, 1, n)) = n
      /\ \A i \in 1..n : SubSeq(p, 1, n)[i] = p[i]
  <2>1. /\ SubSeq(p, 1, n) \in Seq(S)
        /\ Len(SubSeq(p, 1, n)) = IF 1 <= n THEN n - 1 + 1 ELSE 0
        /\ \A i \in 1..n - 1 + 1 : SubSeq(p, 1, n)[i] = p[1 + i - 1]
    BY <1>1, <1>3, SubSeqProperties
  <2>2. \A i \in 1..n : i \in 1..n - 1 + 1 /\ 1 + i - 1 = i
    BY <1>1
  <2>3. (IF 1 <= n THEN n - 1 + 1 ELSE 0) = n
    BY <1>1
  <2> QED BY <2>1, <2>2, <2>3
<1>8. SubSeq(d, 1, n) = SubSeq(p, 1, n)
  BY <1>5, <1>6, <1>7, SeqEqual
<1> QED BY <1>2, <1>8 DEF IsPrefix, n

LEMMA PrefixOfItself ==
  ASSUME NEW S, NEW s \in Seq(S)
  PROVE  IsPrefix(s, s)
BY LenProperties DEF IsPrefix

(* The path that handleCd sends is what follows the home.                  *)
LEMMA InsidePath ==
  ASSUME NEW u \in Users, NEW p \in Seq(STRING), IsInside(HomeOf(u), p)
  PROVE  p = HomeOf(u) \o Display(u, p)
<1> DEFINE d == HomeOf(u)
           n == Len(d)
<1>1. d \in Seq(STRING) /\ d # <<>> /\ n \in Nat \ {0}
  BY HomeTyped
<1>2. IsPrefix(d, p)
  BY <1>1, InsideIsPrefix
<1>3. Len(p) \in Nat /\ n <= Len(p) /\ SubSeq(p, 1, n) = d
  <2>1. SubSeq(d, 1, n) = d
    BY <1>1, SubSeqFull
  <2> QED BY <1>2, <2>1, LenProperties DEF IsPrefix
<1>4. Display(u, p) = SubSeq(p, n + 1, Len(p))
  BY DEF Display
<1> HIDE DEF d, n
<1>5. /\ 1 \in 1..Len(p) + 1 /\ n \in 1 - 1..Len(p) /\ Len(p) \in n..Len(p)
  BY <1>1, <1>3
<1>6. SubSeq(p, 1, n) \o SubSeq(p, n + 1, Len(p)) = SubSeq(p, 1, Len(p))
  BY <1>5, ConcatAdjacentSubSeq
<1>7. d \o Display(u, p) = p
  BY <1>3, <1>4, <1>6, SubSeqFull
<1> QED BY <1>7 DEF d

-----------------------------------------------------------------------------
(* resolvePath.  An induction over the rounds of normalize_path, which     *)
(* takes the least round that breaks the rule.                             *)

NatLess == {ss \in Nat \X Nat : ss[1] < ss[2]}

LEMMA Upward ==
  ASSUME NEW T, 0 \in T, \A k \in Nat : k \in T => k + 1 \in T
  PROVE  Nat \subseteq T
<1> DEFINE Bad == {k \in Nat : k \notin T}
<1>1. SUFFICES ASSUME Bad # {} PROVE FALSE
  OBVIOUS
<1>2. IsWellFoundedOn(NatLess, Nat)
  BY NatLessThanWellFounded DEF OpToRel, NatLess
<1>3. PICK x \in Bad : \A y \in Bad : ~(<<y, x>> \in NatLess)
  BY <1>1, <1>2, WFMin
<1>4. \A y \in Bad : <<y, x>> \in Nat \X Nat
  OBVIOUS
<1>5. \A y \in Bad : ~(y < x)
  BY <1>3, <1>4 DEF NatLess
<1>6. x # 0 /\ x \in Nat
  OBVIOUS
<1>7. x - 1 \in Nat /\ (x - 1) + 1 = x /\ x - 1 < x
  BY <1>6
<1>8. x - 1 \in T
  BY <1>5, <1>7
<1>9. x \in T
  BY <1>7, <1>8
<1> QED BY <1>9

\* The loop of normalize_path, as far as round k.
Rounds(parts, k, g) ==
  g = [i \in 0..k |-> IF i = 0 THEN <<>> ELSE Push(g[i - 1], parts[i])]

LEMMA OneMoreRound ==
  ASSUME NEW parts, NEW k \in Nat, NEW g, Rounds(parts, k, g)
  PROVE  \E h : Rounds(parts, k + 1, h)
<1> DEFINE h == [i \in 0..k + 1 |-> IF i <= k THEN g[i] ELSE Push(g[k], parts[k + 1])]
<1>1. ASSUME NEW i \in 0..k + 1
      PROVE  h[i] = IF i = 0 THEN <<>> ELSE Push(h[i - 1], parts[i])
  <2>1. CASE i = 0
    BY <2>1 DEF Rounds
  <2>2. CASE i # 0 /\ i <= k
    <3>1. h[i] = g[i] /\ h[i - 1] = g[i - 1] /\ i \in 0..k
      BY <2>2
    <3>2. g[i] = Push(g[i - 1], parts[i])
      BY <2>2, <3>1 DEF Rounds
    <3> QED BY <2>2, <3>1, <3>2
  <2>3. CASE i = k + 1
    BY <2>3
  <2> QED BY <2>1, <2>2, <2>3
<1>2. h = [i \in 0..k + 1 |-> h[i]]
  OBVIOUS
<1> HIDE DEF h
<1>3. Rounds(parts, k + 1, h)
  BY <1>1, <1>2 DEF Rounds
<1> QED BY <1>3

LEMMA NormalizeRounds ==
  ASSUME NEW parts, Len(parts) \in Nat
  PROVE  \E g : Rounds(parts, Len(parts), g) /\ Normalize(parts) = g[Len(parts)]
<1> DEFINE T == {k \in Nat : \E g : Rounds(parts, k, g)}
<1>1. Rounds(parts, 0, [i \in 0..0 |-> <<>>])
  BY DEF Rounds
<1>2. 0 \in T
  BY <1>1
<1>3. \A k \in Nat : k \in T => k + 1 \in T
  BY OneMoreRound
<1>4. Len(parts) \in T
  <2> HIDE DEF T
  <2> QED BY <1>2, <1>3, Upward
<1>5. PICK g : Rounds(parts, Len(parts), g)
  BY <1>4
<1> DEFINE f == CHOOSE g1 : Rounds(parts, Len(parts), g1)
<1>6. Rounds(parts, Len(parts), f)
  BY <1>5
<1>7. Normalize(parts) = f[Len(parts)]
  BY DEF Normalize, Rounds
<1> QED BY <1>6, <1>7

\* What satisfies the rule of the rounds is what they compute.
LEMMA NormalizeIs ==
  ASSUME NEW parts, Len(parts) \in Nat, NEW way, way[0] = <<>>,
         \A i \in 1..Len(parts) : Push(way[i - 1], parts[i]) = way[i]
  PROVE  Normalize(parts) = way[Len(parts)]
<1>1. PICK g : Rounds(parts, Len(parts), g) /\ Normalize(parts) = g[Len(parts)]
  BY NormalizeRounds
<1> DEFINE T == {k \in Nat : k <= Len(parts) => g[k] = way[k]}
<1>2. 0 \in T
  BY <1>1 DEF Rounds
<1>3. \A k \in Nat : k \in T => k + 1 \in T
  <2>1. SUFFICES ASSUME NEW k \in Nat, k \in T, k + 1 <= Len(parts)
                 PROVE  g[k + 1] = way[k + 1]
    OBVIOUS
  <2>2. g[k] = way[k]
    BY <2>1
  <2>3. k + 1 \in 0..Len(parts) /\ k + 1 \in 1..Len(parts) /\ k + 1 # 0 /\ (k + 1) - 1 = k
    BY <2>1
  <2>4. g[k + 1] = Push(g[k], parts[k + 1])
    BY <1>1, <2>3 DEF Rounds
  <2>5. Push(way[k], parts[k + 1]) = way[k + 1]
    BY <2>3
  <2> QED BY <2>2, <2>4, <2>5
<1>4. Len(parts) \in T
  <2> HIDE DEF T
  <2> QED BY <1>2, <1>3, Upward
<1> QED BY <1>1, <1>4

\* One round does what the kernel does with one name.
LEMMA PushIsStep ==
  ASSUME NEW d, NEW c, NEW e, Len(d) # MaxParts, StepTo(d, c, e)
  PROVE  Push(d, c) = e
BY DEF Push, StepTo

\* A step lengthens the directory by at most one name.
LEMMA StepLength ==
  ASSUME NEW d \in Seq(STRING), NEW c \in STRING, NEW e, StepTo(d, c, e)
  PROVE  Len(e) <= Len(d) + 1
<1>1. Len(d) \in Nat
  BY LenProperties
<1>2. CASE e = d
  BY <1>1, <1>2
<1>3. CASE e = Append(d, c)
  BY <1>1, <1>3, AppendProperties
<1>4. CASE d # <<>> /\ e = Front(d)
  <2>1. \A i \in 1..Len(d) - 1 : d[i] \in STRING
    BY <1>1, ElementOfSeq
  <2>2. Len(SubSeq(d, 1, Len(d) - 1)) = IF 1 <= Len(d) - 1 THEN (Len(d) - 1) - 1 + 1 ELSE 0
    BY <1>1, <2>1, SubSeqProperties, Len(d) - 1 \in Int
  <2> QED BY <1>1, <1>4, <2>2 DEF Front
<1> QED BY <1>2, <1>3, <1>4 DEF StepTo

\* The text of a directory is walked name by name.
LEMMA StepDown ==
  ASSUME NEW d \in Seq(STRING), NEW i \in 1..Len(d)
  PROVE  /\ SubSeq(d, 1, i) = Append(SubSeq(d, 1, i - 1), d[i])
         /\ Len(SubSeq(d, 1, i - 1)) = i - 1
<1> DEFINE a == SubSeq(d, 1, i - 1)
           b == Append(a, d[i])
           c == SubSeq(d, 1, i)
<1>1. Len(d) \in Nat /\ i \in Nat /\ i - 1 \in Nat /\ (i - 1) - 1 + 1 = i - 1 /\ i - 1 + 1 = i
      /\ 1 <= i /\ i <= Len(d)
  BY LenProperties
<1>2. \A j \in 1..i : d[j] \in STRING
  BY <1>1, ElementOfSeq
<1>3. /\ a \in Seq(STRING)
      /\ Len(a) = IF 1 <= i - 1 THEN (i - 1) - 1 + 1 ELSE 0
      /\ \A j \in 1..(i - 1) - 1 + 1 : a[j] = d[1 + j - 1]
  BY <1>1, <1>2, SubSeqProperties
<1>4. /\ c \in Seq(STRING)
      /\ Len(c) = IF 1 <= i THEN i - 1 + 1 ELSE 0
      /\ \A j \in 1..i - 1 + 1 : c[j] = d[1 + j - 1]
  BY <1>1, <1>2, SubSeqProperties
<1> HIDE DEF a, c
<1>5. Len(a) = i - 1
  BY <1>1, <1>3
<1>6. /\ b \in Seq(STRING) /\ Len(b) = Len(a) + 1
      /\ \A j \in 1..Len(a) : b[j] = a[j]
      /\ b[Len(a) + 1] = d[i]
  BY <1>1, <1>2, <1>3, AppendProperties
<1> HIDE DEF b
<1>7. Len(b) = i /\ Len(c) = i
  BY <1>1, <1>4, <1>5, <1>6
<1>8. ASSUME NEW j \in 1..i
      PROVE  c[j] = b[j]
  <2>1. c[j] = d[j]
    BY <1>1, <1>4
  <2>2. CASE j = i
    BY <1>1, <1>5, <1>6, <2>1, <2>2
  <2>3. CASE j # i
    <3>1. j \in 1..i - 1 /\ 1 + j - 1 = j
      BY <1>1, <2>3
    <3>2. b[j] = a[j] /\ a[j] = d[j]
      BY <1>1, <1>3, <1>5, <1>6, <3>1
    <3> QED BY <2>1, <3>2
  <2> QED BY <2>2, <2>3
<1>9. c = b
  BY <1>4, <1>6, <1>7, <1>8, SeqEqual
<1> QED BY <1>5, <1>9 DEF a, b, c

(* On the text of a directory and names that lead from it over existing    *)
(* directories, normalize_path goes the same way as the kernel, unless its *)
(* array of names is full.  So a path with ".." never names another        *)
(* directory than the one it leads to.                                     *)
THEOREM NormalizeWalks ==
  ASSUME NEW start \in Dirs, NEW parts \in Seq(STRING), NEW e, Walks(start, parts, e),
         Len(start) + Len(parts) <= MaxParts
  PROVE  Normalize(start \o parts) = e
<1>1. PICK way \in [0..Len(parts) -> Dirs] :
        /\ way[0] = start /\ way[Len(parts)] = e
        /\ \A i \in 1..Len(parts) : StepTo(way[i - 1], parts[i], way[i])
  BY DEF Walks
<1> DEFINE m == Len(start)
           n == Len(parts)
           full == start \o parts
<1>2. /\ start \in Seq(STRING) /\ m \in Nat /\ n \in Nat /\ MaxParts \in Nat
      /\ m + n <= MaxParts
  BY ConnectionConstants, LenProperties
<1>3. /\ Len(full) = m + n
      /\ \A i \in 1..m : full[i] = start[i] /\ start[i] \notin {"", ".", ".."}
      /\ \A i \in 1..n : full[m + i] = parts[i]
  <2>1. /\ Len(full) = m + n
        /\ \A i \in 1..m + n : full[i] = IF i <= m THEN start[i] ELSE parts[i - m]
    BY <1>2, ConcatProperties
  <2>2. \A i \in 1..m : start[i] \notin {"", ".", ".."}
    BY ConnectionConstants
  <2> HIDE DEF full, m, n
  <2>3. \A i \in 1..m : i \in 1..m + n /\ i <= m
    BY <1>2
  <2>4. \A i \in 1..n : m + i \in 1..m + n /\ ~(m + i <= m) /\ (m + i) - m = i
    BY <1>2
  <2>5. \A i \in 1..m : full[i] = start[i]
    BY <2>1, <2>3
  <2>6. \A i \in 1..n : full[m + i] = parts[i]
    BY <2>1, <2>4
  <2> QED BY <2>1, <2>2, <2>5, <2>6
\* The array is not full before the last name.
<1>4. \A k \in Nat : k <= n => way[k] \in Seq(STRING) /\ Len(way[k]) <= m + k
  <2> DEFINE T == {k \in Nat : k <= n => Len(way[k]) <= m + k}
  <2>1. \A k \in 0..n : way[k] \in Seq(STRING) /\ Len(way[k]) \in Nat
    BY <1>1, ConnectionConstants, LenProperties
  <2>2. 0 \in T
    BY <1>1, <1>2
  <2>3. \A k \in Nat : k \in T => k + 1 \in T
    <3>0. SUFFICES ASSUME NEW k \in Nat, k \in T
                   PROVE  k + 1 \in T
      BY Zenon
    <3>1. SUFFICES ASSUME k + 1 <= n
                   PROVE  Len(way[k + 1]) <= m + (k + 1)
      <4> HIDE DEF m, n
      <4> QED OBVIOUS
    <3>2. k \in 0..n /\ k + 1 \in 0..n /\ k + 1 \in 1..n /\ (k + 1) - 1 = k /\ k <= n
      BY <1>2, <3>1
    <3>3. StepTo(way[k], parts[k + 1], way[k + 1]) /\ parts[k + 1] \in STRING
      BY <1>1, <3>2, ElementOfSeq
    <3>4. Len(way[k + 1]) <= Len(way[k]) + 1
      BY <2>1, <3>2, <3>3, StepLength
    <3>5. Len(way[k]) <= m + k /\ Len(way[k]) \in Nat /\ Len(way[k + 1]) \in Nat
      BY <2>1, <3>0, <3>2
    <3> HIDE DEF m, n
    <3> QED BY <1>2, <3>4, <3>5
  <2>4. Nat \subseteq T
    <3> HIDE DEF T
    <3> QED BY <2>2, <2>3, Upward
  <2>5. \A k \in Nat : k <= n => k \in 0..n
    BY <1>2
  <2> QED BY <2>1, <2>4, <2>5
<1> DEFINE walk == [i \in 0..m + n |-> IF i <= m THEN SubSeq(start, 1, i) ELSE way[i - m]]
<1>5. way[0] = start /\ SubSeq(start, 1, m) = start /\ SubSeq(start, 1, 0) = <<>>
  BY <1>1, <1>2, SubSeqFull, SubSeqEmpty
<1> HIDE DEF full
<1>6. ASSUME NEW i \in 1..m + n
      PROVE  Push(walk[i - 1], full[i]) = walk[i]
  <2>0. i \in 0..m + n /\ i - 1 \in 0..m + n
    BY <1>2
  <2>1. CASE i <= m
    <3>1. i \in 1..m /\ i - 1 <= m
      BY <1>2, <2>1
    <3>2. /\ walk[i] = Append(SubSeq(start, 1, i - 1), start[i])
          /\ Len(SubSeq(start, 1, i - 1)) = i - 1
      BY <1>2, <2>0, <2>1, <3>1, StepDown
    <3>3. walk[i - 1] = SubSeq(start, 1, i - 1)
      BY <2>0, <3>1
    <3>4. i - 1 # MaxParts /\ full[i] = start[i] /\ start[i] \notin {"", ".", ".."}
      <4>1. full[i] = start[i] /\ start[i] \notin {"", ".", ".."}
        BY <1>3, <3>1, Zenon
      <4> HIDE DEF m, n
      <4>2. i - 1 # MaxParts
        BY <1>2, <2>1
      <4> QED BY <4>1, <4>2
    <3> HIDE DEF walk
    <3> QED BY <3>2, <3>3, <3>4 DEF Push
  <2>2. CASE ~(i <= m)
    <3> DEFINE j == i - m
    <3>1. j \in 1..n /\ j - 1 \in Nat /\ j - 1 <= n /\ i = m + j
      BY <1>2, <2>2
    <3>2. walk[i] = way[j]
      BY <2>0, <2>2
    <3>3. walk[i - 1] = way[j - 1]
      <4>1. CASE i - 1 <= m
        <5>1. i - 1 = m /\ j - 1 = 0
          BY <1>2, <2>2, <4>1
        <5>2. walk[i - 1] = SubSeq(start, 1, m)
          BY <2>0, <5>1
        <5> QED BY <1>5, <5>1, <5>2
      <4>2. CASE ~(i - 1 <= m)
        <5>1. (i - 1) - m = j - 1
          BY <1>2
        <5> QED BY <2>0, <4>2, <5>1
      <4> QED BY <4>1, <4>2
    <3>4. full[i] = parts[j] /\ StepTo(way[j - 1], parts[j], way[j])
      BY <1>1, <1>3, <3>1
    <3>5. Len(way[j - 1]) # MaxParts
      <4>1. Len(way[j - 1]) \in Nat /\ Len(way[j - 1]) <= m + (j - 1)
        BY <1>4, <3>1, LenProperties
      <4> HIDE DEF m, n
      <4> QED BY <1>2, <3>1, <4>1
    <3> HIDE DEF walk, j
    <3> QED BY <3>2, <3>3, <3>4, <3>5, PushIsStep
  <2> QED BY <2>1, <2>2
<1>7. walk[0] = <<>>
  BY <1>2, <1>5
<1>8. walk[m + n] = e
  <2>1. CASE n = 0
    BY <1>1, <1>2, <1>5, <2>1
  <2>2. CASE n # 0
    <3>1. ~(m + n <= m) /\ m + n \in 0..m + n /\ (m + n) - m = n
      BY <1>2, <2>2
    <3> QED BY <1>1, <3>1
  <2> QED BY <2>1, <2>2
<1>9. Normalize(full) = walk[Len(full)]
  <2> HIDE DEF walk, m, n
  <2>0. Len(full) = m + n
    BY <1>3
  <2>1. Len(full) \in Nat
    BY <1>2, <2>0
  <2>2. \A i \in 1..Len(full) : Push(walk[i - 1], full[i]) = walk[i]
    BY <1>6, <2>0
  <2> QED BY <1>7, <2>1, <2>2, NormalizeIs
<1> QED BY <1>3, <1>8, <1>9 DEF full

LEMMA PrefixBegins ==
  ASSUME NEW d \in Seq(STRING), d # <<>>, NEW p \in Seq(STRING), IsPrefix(d, p)
  PROVE  Begins(p, d)
<1> DEFINE n == Len(d)
<1>1. n \in Nat \ {0} /\ Len(p) \in Nat /\ n <= Len(p) /\ SubSeq(d, 1, n) = SubSeq(p, 1, n)
  BY LenProperties, EmptySeq DEF IsPrefix
<1>2. n \in 1..Len(d) /\ n \in 1..Len(p)
  BY <1>1
<1>3. /\ SubSeq(d, 1, n) = Append(SubSeq(d, 1, n - 1), d[n])
      /\ SubSeq(p, 1, n) = Append(SubSeq(p, 1, n - 1), p[n])
  BY <1>2, StepDown
<1>4. /\ SubSeq(d, 1, n - 1) \in Seq(STRING) /\ SubSeq(p, 1, n - 1) \in Seq(STRING)
      /\ d[n] \in STRING /\ p[n] \in STRING
  <2>1. \A i \in 1..n : d[i] \in STRING /\ p[i] \in STRING
    BY <1>1, ElementOfSeq
  <2>2. \A i \in 1..n - 1 : i \in 1..n
    BY <1>1
  <2>3. n - 1 \in Int /\ n \in 1..n
    BY <1>1
  <2> QED BY <2>1, <2>2, <2>3, SubSeqProperties
<1>5. SubSeq(d, 1, n - 1) = SubSeq(p, 1, n - 1) /\ d[n] = p[n]
  BY <1>1, <1>3, <1>4, AppendInjective
<1> QED BY <1>1, <1>5 DEF Begins

LEMMA WalkEndsAre ==
  ASSUME NEW d \in Dirs, NEW a \in Args, NEW e \in WalkEnds[<<d, a>>]
  PROVE  e \in Dirs /\ Walks(d, a.parts, e)
BY DEF WalkEnds
=============================================================================
