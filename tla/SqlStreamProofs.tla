--------------------------- MODULE SqlStreamProofs ---------------------------
(***************************************************************************)
(* Rewriting and validating a dump do not depend on how it is cut into     *)
(* chunks: for texts, chunks, statements and alphabets of any size.        *)
(*                                                                         *)
(* The scanner and the regular expressions are first followed from         *)
(* character to character.  Where the scanner ends a string or a comment   *)
(* that it entered from code, the regular expressions do as well, so at    *)
(* a boundary both are in code (BoundarySplits): the code of a text is     *)
(* that of the piece and that of what is behind (CodeOfPieces), and the    *)
(* scanner goes on as if the text began there (Pieces).  While the file is *)
(* read, whatever may still come would be treated as in the whole (Along). *)
(*                                                                         *)
(* Induction over positions is by the least number of a set.               *)
(***************************************************************************)
EXTENDS MCArtifacts, FiniteSetTheorems, SequenceTheorems, WellFoundedInduction, TLAPS

-----------------------------------------------------------------------------
(* Numbers *)

\* A non-empty set of numbers has a least one.
LEMMA LeastNumber ==
  ASSUME NEW T, T \subseteq Nat, T # {}
  PROVE  \E n \in T : \A k \in T : n <= k
<1>1. \E n \in T : \A k \in T : <<k, n>> \notin OpToRel(<, Nat)
  BY ONLY WFMin, NatLessThanWellFounded, T \subseteq Nat, T # {}, Zenon
<1>2. \A k, n \in Nat : k < n => <<k, n>> \in OpToRel(<, Nat)
  BY DEF OpToRel
<1>3. PICK n \in T : \A k \in T : <<k, n>> \notin OpToRel(<, Nat)
  BY <1>1
<1>4. ASSUME NEW k \in T
      PROVE  n <= k
  <2>1. k \in Nat /\ n \in Nat
    OBVIOUS
  <2>2. ~(k < n)
    BY <1>2, <1>3, <2>1
  <2> QED
    BY <2>1, <2>2
<1> QED
  BY <1>4

\* What holds at 0 and goes on to the next number holds up to b.
LEMMA Upward ==
  ASSUME NEW b \in Nat, NEW T, 0 \in T, \A i \in 0 .. b : i \in T /\ i < b => i + 1 \in T
  PROVE  \A i \in 0 .. b : i \in T
<1> DEFINE U == {i \in 0 .. b : i \notin T}
<1>1. SUFFICES ASSUME U # {} PROVE FALSE
  OBVIOUS
<1>2. U \subseteq Nat
  OBVIOUS
<1> HIDE DEF U
<1>3. PICK i \in U : \A k \in U : i <= k
  BY <1>1, <1>2, LeastNumber
<1>4. i \in 0 .. b /\ i \notin T /\ i # 0
  BY <1>3 DEF U
<1>5. i - 1 \in 0 .. b /\ i - 1 < b /\ ~(i <= i - 1) /\ (i - 1) + 1 = i
  BY <1>4
<1>6. i - 1 \in T
  BY <1>3, <1>5 DEF U
<1> QED
  BY <1>4, <1>5, <1>6

\* What holds of a number of which it holds of the greater ones, holds of all up to b.
LEMMA Downward ==
  ASSUME NEW b \in Nat, NEW T, \A i \in 0 .. b : (\A j \in i + 1 .. b : j \in T) => i \in T
  PROVE  \A i \in 0 .. b : i \in T
<1> DEFINE U == {m \in 0 .. b : b - m \notin T}
<1>1. SUFFICES ASSUME U # {} PROVE FALSE
  <2> SUFFICES ASSUME U = {}, NEW i \in 0 .. b PROVE i \in T
    BY <1>1
  <2>1. b - i \in 0 .. b /\ b - (b - i) = i
    OBVIOUS
  <2> QED
    BY <2>1
<1>2. U \subseteq Nat
  OBVIOUS
<1> HIDE DEF U
<1>3. PICK m \in U : \A k \in U : m <= k
  BY <1>1, <1>2, LeastNumber
<1>4. m \in 0 .. b /\ b - m \notin T
  BY <1>3 DEF U
<1>5. b - m \in 0 .. b
  BY <1>4
<1>6. ASSUME NEW j \in (b - m) + 1 .. b PROVE j \in T
  <2>1. b - j \in 0 .. b /\ b - (b - j) = j /\ ~(m <= b - j)
    BY <1>4
  <2>2. b - j \notin U
    BY <1>3, <2>1
  <2> QED
    BY <2>1, <2>2 DEF U
<1> QED
  BY <1>4, <1>5, <1>6

-----------------------------------------------------------------------------
(* What the functions of SqlStream are *)

\* Before the first character, and behind the i-th: g is the function.
Scanning == [mode |-> "code", skip |-> FALSE, boundary |-> 0]
ScanBody(g, s, i) ==
  IF i = 0 THEN Scanning ELSE Dumped!Scan(g[i - 1], s[i], Dumped!At(s, i + 1), Dumped!At(s, i + 2), i)

\* The scanner goes from one character to the next.
LEMMA ScannedIs ==
  ASSUME NEW s, Len(s) \in Nat
  PROVE  LET M == Dumped!Scanned(s) IN
         /\ M[0] = Scanning
         /\ \A i \in 1 .. Len(s) : M[i] = Dumped!Scan(M[i - 1], s[i], Dumped!At(s, i + 1), Dumped!At(s, i + 2), i)
<1> DEFINE L == Len(s)
           Upto(g, m) == \A i \in 0 .. m : g[i] = ScanBody(g, s, i)
           T == {m \in 0 .. L : \E g : Upto(g, m)}
<1>1. 0 \in T
  <2> DEFINE g == [i \in 0 .. L |-> Scanning]
  <2>1. g[0] = Scanning /\ 0 .. 0 = {0}
    OBVIOUS
  <2>2. Upto(g, 0)
    BY <2>1 DEF ScanBody
  <2> QED
    BY <2>2
<1>2. ASSUME NEW m \in 0 .. L, m \in T, m < L PROVE m + 1 \in T
  <2>1. PICK g : Upto(g, m)
    BY <1>2
  <2> DEFINE h == [i \in 0 .. L |-> IF i <= m THEN g[i] ELSE ScanBody(g, s, i)]
  <2>2. \A i \in 0 .. m : h[i] = g[i]
    OBVIOUS
  <2>3. ASSUME NEW i \in 0 .. m + 1 PROVE h[i] = ScanBody(h, s, i)
    <3>1. h[i] = ScanBody(g, s, i)
      <4>1. CASE i <= m
        <5>1. i \in 0 .. m
          BY <2>3, <4>1
        <5> QED
          BY <2>1, <2>2, <5>1
      <4>2. CASE ~(i <= m)
        BY <4>2, <1>2
      <4> QED
        BY <4>1, <4>2
    <3>2. i # 0 => h[i - 1] = g[i - 1]
      BY <2>2
    <3> HIDE DEF h
    <3> QED
      BY <3>1, <3>2 DEF ScanBody
  <2> HIDE DEF h
  <2>4. Upto(h, m + 1)
    BY <2>3
  <2>5. m + 1 \in 0 .. L
    BY <1>2
  <2> QED
    BY <2>4, <2>5
<1> HIDE DEF T
<1>3. L \in T
  <2>1. L \in Nat /\ L \in 0 .. L
    OBVIOUS
  <2>2. \A i \in 0 .. L : i \in T /\ i < L => i + 1 \in T
    BY <1>2
  <2> HIDE DEF L
  <2> QED
    BY <1>1, <2>1, <2>2, Upward
<1>4. PICK g : Upto(g, L)
  BY <1>3 DEF T
<1> DEFINE h == [i \in 0 .. L |-> g[i]]
<1>5. \A i \in 0 .. L : h[i] = ScanBody(h, s, i)
  <2> SUFFICES ASSUME NEW i \in 0 .. L PROVE h[i] = ScanBody(h, s, i)
    OBVIOUS
  <2>1. h[i] = ScanBody(g, s, i)
    BY <1>4
  <2>2. i # 0 => h[i - 1] = g[i - 1]
    OBVIOUS
  <2> HIDE DEF h
  <2> QED
    BY <2>1, <2>2 DEF ScanBody
<1>6. h = [i \in 0 .. L |-> ScanBody(h, s, i)]
  <2>1. h = [i \in 0 .. L |-> h[i]]
    OBVIOUS
  <2> HIDE DEF h
  <2> QED
    BY <1>5, <2>1
<1>7. Dumped!Scanned(s) = CHOOSE M : M = [i \in 0 .. L |-> ScanBody(M, s, i)]
  BY DEF Dumped!Scanned, ScanBody, Scanning
<1> DEFINE M == Dumped!Scanned(s)
<1> HIDE DEF h
<1>8. M = [i \in 0 .. L |-> ScanBody(M, s, i)]
  BY <1>6, <1>7
<1> HIDE DEF M
<1>9. \A i \in 0 .. L : M[i] = ScanBody(M, s, i)
  BY <1>8
<1> QED
  BY <1>9 DEF ScanBody, M

\* Where a string ends, by what the function g says of the positions behind k.
EndBody(g, s, q, n, k) ==
  LET escaped == IF k < n /\ s[k] = "backslash" /\ s[k + 1] # "newline" THEN g[k + 2] ELSE 0
      doubled == IF k < n /\ s[k] = q /\ s[k + 1] = q THEN g[k + 2] ELSE 0
      other == IF s[k] # q THEN g[k + 1] ELSE k
  IN IF k > n THEN 0 ELSE IF escaped # 0 THEN escaped ELSE IF doubled # 0 THEN doubled ELSE other

\* The end of a string follows from those further on.
LEMMA StringEndsAre ==
  ASSUME NEW s, NEW q, NEW n \in Nat
  PROVE  LET g == Dumped!StringEnds(s, q, n) IN \A k \in Nat : g[k] = EndBody(g, s, q, n, k)
<1> DEFINE From(g, m) == \A k \in Nat : k >= m => g[k] = EndBody(g, s, q, n, k)
           T == {m \in 0 .. n + 1 : \E g : From(g, m)}
<1>1. n + 1 \in T
  <2> DEFINE g == [k \in Nat |-> 0]
  <2>1. ASSUME NEW k \in Nat, k >= n + 1 PROVE g[k] = EndBody(g, s, q, n, k)
    BY <2>1 DEF EndBody
  <2>2. From(g, n + 1)
    BY <2>1
  <2> QED
    BY <2>2
<1>2. ASSUME NEW m \in 0 .. n + 1, \A j \in m + 1 .. n + 1 : j \in T PROVE m \in T
  <2>1. CASE m = n + 1
    BY <1>1, <2>1
  <2>2. CASE m # n + 1
    <3>1. m + 1 \in T
      BY <1>2, <2>2
    <3>2. PICK g : From(g, m + 1)
      BY <3>1
    <3> DEFINE h == [k \in Nat |-> IF k > m THEN g[k] ELSE EndBody(g, s, q, n, k)]
    <3>3. \A k \in Nat : k > m => h[k] = g[k]
      OBVIOUS
    <3>4. ASSUME NEW k \in Nat, k >= m PROVE h[k] = EndBody(h, s, q, n, k)
      <4>1. h[k] = EndBody(g, s, q, n, k)
        <5>1. k >= m + 1 => h[k] = EndBody(g, s, q, n, k)
          BY <3>2
        <5>2. k = m => h[k] = EndBody(g, s, q, n, k)
          OBVIOUS
        <5> QED
          BY <3>4, <5>1, <5>2
      <4>2. h[k + 1] = g[k + 1] /\ h[k + 2] = g[k + 2]
        BY <3>3, <3>4
      <4> HIDE DEF h
      <4> QED
        BY <4>1, <4>2 DEF EndBody
    <3>5. From(h, m)
      BY <3>4
    <3> QED
      BY <3>5
  <2> QED
    BY <2>1, <2>2
<1> HIDE DEF T
<1>3. 0 \in T
  <2>1. n + 1 \in Nat /\ 0 \in 0 .. n + 1
    OBVIOUS
  <2> QED
    BY <1>2, <2>1, Downward
<1>4. PICK g : From(g, 0)
  BY <1>3 DEF T
<1> DEFINE h == [k \in Nat |-> g[k]]
<1>5. \A k \in Nat : h[k] = EndBody(h, s, q, n, k)
  <2> SUFFICES ASSUME NEW k \in Nat PROVE h[k] = EndBody(h, s, q, n, k)
    OBVIOUS
  <2>1. h[k] = EndBody(g, s, q, n, k)
    BY <1>4
  <2>2. h[k + 1] = g[k + 1] /\ h[k + 2] = g[k + 2]
    OBVIOUS
  <2> HIDE DEF h
  <2> QED
    BY <2>1, <2>2 DEF EndBody
<1>6. h = [k \in Nat |-> EndBody(h, s, q, n, k)]
  <2>1. h = [k \in Nat |-> h[k]]
    OBVIOUS
  <2> HIDE DEF h
  <2> QED
    BY <1>5, <2>1
<1>7. Dumped!StringEnds(s, q, n) = CHOOSE e : e = [k \in Nat |-> EndBody(e, s, q, n, k)]
  BY DEF Dumped!StringEnds, EndBody
<1> DEFINE e == Dumped!StringEnds(s, q, n)
<1> HIDE DEF h
<1>8. e = [k \in Nat |-> EndBody(e, s, q, n, k)]
  BY <1>6, <1>7
<1> HIDE DEF e
<1>9. \A k \in Nat : e[k] = EndBody(e, s, q, n, k)
  BY <1>8
<1> QED
  BY <1>9 DEF e

\* Words of two and of three characters.
LEMMA WordsAre ==
  ASSUME NEW s, NEW i \in Nat, NEW n \in Nat
  PROVE  /\ \A a, b : Dumped!Is(s, i, n, <<a, b>>) <=> i + 1 <= n /\ s[i] = a /\ s[i + 1] = b
         /\ \A a, b, c : Dumped!Is(s, i, n, <<a, b, c>>) <=> i + 2 <= n /\ s[i] = a /\ s[i + 1] = b /\ s[i + 2] = c
<1>1. ASSUME NEW a, NEW b PROVE Dumped!Is(s, i, n, <<a, b>>) <=> i + 1 <= n /\ s[i] = a /\ s[i + 1] = b
  <2> DEFINE w == <<a, b>>
  <2>1. Len(w) = 2 /\ DOMAIN w = {1, 2} /\ w[1] = a /\ w[2] = b
    OBVIOUS
  <2>2. i + 2 - 1 = i + 1 /\ i + 1 - 1 = i
    OBVIOUS
  <2> HIDE DEF w
  <2> QED
    BY <2>1, <2>2 DEF Dumped!Is
<1>2. ASSUME NEW a, NEW b, NEW c
      PROVE Dumped!Is(s, i, n, <<a, b, c>>) <=> i + 2 <= n /\ s[i] = a /\ s[i + 1] = b /\ s[i + 2] = c
  <2> DEFINE w == <<a, b, c>>
  <2>1. Len(w) = 3 /\ DOMAIN w = {1, 2, 3} /\ w[1] = a /\ w[2] = b /\ w[3] = c
    OBVIOUS
  <2>2. i + 3 - 1 = i + 2 /\ i + 1 - 1 = i /\ i + 2 - 1 = i + 1
    OBVIOUS
  <2> HIDE DEF w
  <2> QED
    BY <2>1, <2>2 DEF Dumped!Is
<1> QED
  BY <1>1, <1>2

\* The first of some positions.
LEMMA FirstIs ==
  ASSUME NEW S, S \subseteq Nat
  PROVE  /\ S = {} => Dumped!FirstIn(S) = 0
         /\ S # {} => Dumped!FirstIn(S) \in S /\ \A k \in S : Dumped!FirstIn(S) <= k
         /\ \A k \in S : (\A l \in S : k <= l) => Dumped!FirstIn(S) = k
<1>1. S = {} => Dumped!FirstIn(S) = 0
  BY DEF Dumped!FirstIn
<1>2. S # {} => Dumped!FirstIn(S) \in S /\ \A k \in S : Dumped!FirstIn(S) <= k
  BY LeastNumber DEF Dumped!FirstIn
<1>3. ASSUME NEW k \in S, \A l \in S : k <= l PROVE Dumped!FirstIn(S) = k
  <2>1. k <= Dumped!FirstIn(S) /\ Dumped!FirstIn(S) <= k /\ k \in Nat /\ Dumped!FirstIn(S) \in Nat
    BY <1>2, <1>3
  <2> QED
    BY <2>1
<1> QED
  BY <1>1, <1>2, <1>3

\* Where a comment that starts at i may end, up to n; to the end of a line, from j on.
BlockEnds(s, i, n) == {k + 1 : k \in {k \in i + 2 .. n - 1 : Dumped!Is(s, k, n, <<"*", "/">>)}}
LineEnds(s, j, n) == {l \in j .. n : l = n \/ s[l + 1] = "newline"}

\* What starts at i.
OpensString(s, i) == s[i] \in {"'", "double"}
OpensBlock(s, i, n) == i < n /\ s[i] = "/" /\ s[i + 1] = "*"
OpensDashes(s, i, n) == i + 2 <= n /\ s[i] = "-" /\ s[i + 1] = "-" /\ s[i + 2] = "blank"
OpensHash(s, i) == s[i] = "hash"

\* Where the string or the comment ends that starts at i.
LEMMA PartEndIs ==
  ASSUME NEW s, NEW i \in Nat, NEW n \in Nat
  PROVE  /\ OpensString(s, i) => Dumped!PartEnd(s, i, n) = Dumped!StringEnds(s, s[i], n)[i + 1]
         /\ OpensBlock(s, i, n) => Dumped!PartEnd(s, i, n) = Dumped!FirstIn(BlockEnds(s, i, n))
         /\ OpensDashes(s, i, n) => Dumped!PartEnd(s, i, n) = Dumped!FirstIn(LineEnds(s, i + 2, n))
         /\ OpensHash(s, i) => Dumped!PartEnd(s, i, n) = Dumped!FirstIn(LineEnds(s, i, n))
         /\ ~OpensString(s, i) /\ ~OpensBlock(s, i, n) /\ ~OpensDashes(s, i, n) /\ ~OpensHash(s, i) =>
              Dumped!PartEnd(s, i, n) = 0
<1> DEFINE str == s[i] \in {"'", "double"}
           blk == Dumped!Is(s, i, n, <<"/", "*">>)
           lin == Dumped!Is(s, i, n, <<"-", "-", "blank">>)
           hash == s[i] = "hash"
<1>1. blk <=> i + 1 <= n /\ s[i] = "/" /\ s[i + 1] = "*"
  BY WordsAre
<1>2. (lin <=> OpensDashes(s, i, n)) /\ (hash <=> OpensHash(s, i))
  BY WordsAre DEF OpensDashes, OpensHash
<1>3. i + 1 <= n <=> i < n
  OBVIOUS
<1>4. blk <=> OpensBlock(s, i, n)
  BY <1>1, <1>3 DEF OpensBlock
<1>5. (str <=> OpensString(s, i)) /\ (str => ~blk /\ ~lin /\ ~hash) /\ (blk => ~lin /\ ~hash) /\ (lin => ~hash)
  BY <1>2, <1>4 DEF OpensString, OpensBlock, OpensDashes, OpensHash
<1>6. Dumped!PartEnd(s, i, n) =
        CASE str -> Dumped!StringEnds(s, s[i], n)[i + 1]
          [] blk -> Dumped!FirstIn(BlockEnds(s, i, n))
          [] lin -> Dumped!FirstIn(LineEnds(s, i + 2, n))
          [] hash -> Dumped!FirstIn(LineEnds(s, i, n))
          [] OTHER -> 0
  BY DEF Dumped!PartEnd, Dumped!LineEnd, BlockEnds, LineEnds
<1> HIDE DEF str, blk, lin, hash
<1> QED
  BY <1>2, <1>4, <1>5, <1>6

\* A string ends where its contents have begun, or later.
LEMMA StringEndsBounded ==
  ASSUME NEW s, NEW q, NEW n \in Nat
  PROVE  LET g == Dumped!StringEnds(s, q, n) IN \A k \in Nat \ {0} : g[k] = 0 \/ g[k] \in k .. n
<1> DEFINE g == Dumped!StringEnds(s, q, n)
           T == {k \in 0 .. n : k = 0 \/ g[k] = 0 \/ g[k] \in k .. n}
<1>1. \A k \in Nat : g[k] = EndBody(g, s, q, n, k)
  BY StringEndsAre
<1> HIDE DEF g
<1>2. \A k \in Nat : k > n => g[k] = 0
  BY <1>1 DEF EndBody
<1>3. ASSUME NEW k \in 0 .. n, \A j \in k + 1 .. n : j \in T PROVE k \in T
  <2> SUFFICES ASSUME k # 0 PROVE g[k] = 0 \/ g[k] \in k .. n
    OBVIOUS
  <2>1. ASSUME NEW j \in {k + 1, k + 2} PROVE g[j] = 0 \/ g[j] \in k .. n
    <3>1. CASE j > n
      BY <1>2, <3>1
    <3>2. CASE j <= n
      <4>1. j \in k + 1 .. n /\ j # 0
        BY <3>2
      <4>2. g[j] = 0 \/ g[j] \in j .. n
        BY <1>3, <4>1
      <4> QED
        BY <4>1, <4>2
    <3> QED
      BY <3>1, <3>2
  <2>2. g[k] = EndBody(g, s, q, n, k)
    BY <1>1
  <2>3. k \in k .. n /\ ~(k > n)
    OBVIOUS
  <2>4. EndBody(g, s, q, n, k) \in {0, g[k + 1], g[k + 2], k}
    BY <2>3 DEF EndBody
  <2> QED
    BY <2>1, <2>2, <2>3, <2>4
<1> HIDE DEF T
<1>4. \A k \in 0 .. n : k \in T
  BY <1>3, Downward
<1>5. ASSUME NEW k \in Nat \ {0} PROVE g[k] = 0 \/ g[k] \in k .. n
  <2>1. CASE k > n
    BY <1>2, <2>1
  <2>2. CASE k <= n
    BY <1>4, <2>2 DEF T
  <2> QED
    BY <2>1, <2>2
<1> QED
  BY <1>5 DEF g

\* A part ends at its beginning or behind it, and within the text.
LEMMA PartEndBounded ==
  ASSUME NEW s, NEW i \in Nat \ {0}, NEW n \in Nat
  PROVE  LET e == Dumped!PartEnd(s, i, n) IN
         /\ e = 0 \/ e \in i .. n
         /\ e # 0 /\ Dumped!Is(s, i, n, <<"/", "*", "!">>) => i + 3 <= e
<1> DEFINE e == Dumped!PartEnd(s, i, n)
<1>1. OpensString(s, i) => e = 0 \/ e \in i + 1 .. n
  <2>1. i + 1 \in Nat \ {0}
    OBVIOUS
  <2> QED
    BY <2>1, PartEndIs, StringEndsBounded
<1>2. OpensBlock(s, i, n) => e = 0 \/ e \in i + 3 .. n
  <2>1. BlockEnds(s, i, n) \subseteq i + 3 .. n
    BY DEF BlockEnds
  <2>2. i + 3 .. n \subseteq Nat
    OBVIOUS
  <2> HIDE DEF e
  <2>3. OpensBlock(s, i, n) => e = Dumped!FirstIn(BlockEnds(s, i, n))
    BY PartEndIs DEF e
  <2>4. BlockEnds(s, i, n) \subseteq Nat
    BY <2>1, <2>2
  <2> QED
    BY <2>1, <2>3, <2>4, FirstIs
<1>3. ASSUME NEW j \in {i, i + 2}, e = Dumped!FirstIn(LineEnds(s, j, n)) PROVE e = 0 \/ e \in i .. n
  <2>1. LineEnds(s, j, n) \subseteq i .. n
    BY DEF LineEnds
  <2>2. i .. n \subseteq Nat
    OBVIOUS
  <2> HIDE DEF e
  <2>4. LineEnds(s, j, n) \subseteq Nat
    BY <2>1, <2>2
  <2> QED
    BY <1>3, <2>1, <2>4, FirstIs
<1>3a. OpensDashes(s, i, n) \/ OpensHash(s, i) => e = 0 \/ e \in i .. n
  <2>1. OpensDashes(s, i, n) \/ OpensHash(s, i) => \E j \in {i, i + 2} : e = Dumped!FirstIn(LineEnds(s, j, n))
    BY PartEndIs
  <2> HIDE DEF e
  <2> QED
    BY <1>3, <2>1
<1>4. ~OpensString(s, i) /\ ~OpensBlock(s, i, n) /\ ~OpensDashes(s, i, n) /\ ~OpensHash(s, i) => e = 0
  BY PartEndIs
<1>5. Dumped!Is(s, i, n, <<"/", "*", "!">>) => OpensBlock(s, i, n)
  <2>1. Dumped!Is(s, i, n, <<"/", "*", "!">>) => i + 2 <= n /\ s[i] = "/" /\ s[i + 1] = "*"
    BY WordsAre
  <2> QED
    BY <2>1 DEF OpensBlock
<1> HIDE DEF e
<1>6. e = 0 \/ e \in i .. n
  BY <1>1, <1>2, <1>3a, <1>4
<1>7. e # 0 /\ Dumped!Is(s, i, n, <<"/", "*", "!">>) => i + 3 <= e
  BY <1>2, <1>5
<1> QED
  BY <1>6, <1>7 DEF e

\* The positions of code from i to n, by what the function g says of what is behind.
Bounds(s) == (1 .. Len(s) + 1) \X (0 .. Len(s))
CodeBody(g, s, i, n) ==
  LET end == Dumped!PartEnd(s, i, n) IN
  IF i > n THEN {} ELSE
  IF end = 0 THEN {i} \cup g[<<i + 1, n>>] ELSE
  (IF Dumped!Is(s, i, n, <<"/", "*", "!">>) THEN g[<<i + 3, end - 2>>] ELSE {}) \cup g[<<end + 1, n>>]

\* Two functions agree on what is shorter.
AgreeOnShorter(g, h, s, i, n) ==
  \A j \in 1 .. Len(s) + 1 : \A m \in 0 .. Len(s) : m + i < n + j => g[<<j, m>>] = h[<<j, m>>]

\* Then they give the same.
LEMMA CodeBodyAgrees ==
  ASSUME NEW s, Len(s) \in Nat, NEW g, NEW h, NEW i \in 1 .. Len(s) + 1, NEW n \in 0 .. Len(s),
         AgreeOnShorter(g, h, s, i, n)
  PROVE  CodeBody(g, s, i, n) = CodeBody(h, s, i, n)
<1> DEFINE end == Dumped!PartEnd(s, i, n)
<1>0. CASE i > n
  BY <1>0 DEF CodeBody
<1>1. CASE i <= n
  <2>1. end = 0 \/ end \in i .. n
    BY PartEndBounded
  <2>2. end # 0 /\ Dumped!Is(s, i, n, <<"/", "*", "!">>) => i + 3 <= end
    BY PartEndBounded
  <2> HIDE DEF end
  <2>3. g[<<i + 1, n>>] = h[<<i + 1, n>>]
    <3>1. i + 1 \in 1 .. Len(s) + 1 /\ n + i < n + (i + 1)
      BY <1>1
    <3> QED
      BY <3>1 DEF AgreeOnShorter
  <2>4. end # 0 => g[<<end + 1, n>>] = h[<<end + 1, n>>]
    <3> SUFFICES ASSUME end # 0 PROVE g[<<end + 1, n>>] = h[<<end + 1, n>>]
      OBVIOUS
    <3>1. end + 1 \in 1 .. Len(s) + 1 /\ n + i < n + (end + 1)
      BY <1>1, <2>1
    <3> QED
      BY <3>1 DEF AgreeOnShorter
  <2>5. end # 0 /\ Dumped!Is(s, i, n, <<"/", "*", "!">>) => g[<<i + 3, end - 2>>] = h[<<i + 3, end - 2>>]
    <3> SUFFICES ASSUME end # 0, i + 3 <= end PROVE g[<<i + 3, end - 2>>] = h[<<i + 3, end - 2>>]
      BY <2>2
    <3>1. i + 3 \in 1 .. Len(s) + 1 /\ end - 2 \in 0 .. Len(s) /\ (end - 2) + i < n + (i + 3)
      BY <1>1, <2>1
    <3> QED
      BY <3>1 DEF AgreeOnShorter
  <2>6. end = Dumped!PartEnd(s, i, n)
    BY DEF end
  <2> QED
    BY <2>3, <2>4, <2>5, <2>6 DEF CodeBody
<1> QED
  BY <1>0, <1>1

\* The positions of code follow from those of shorter parts.
LEMMA CodesAre ==
  ASSUME NEW s, Len(s) \in Nat
  PROVE  LET g == Dumped!Codes(s) IN
         \A i \in 1 .. Len(s) + 1 : \A n \in 0 .. Len(s) : g[<<i, n>>] = CodeBody(g, s, i, n)
<1> DEFINE L == Len(s)
           Upto(g, m) == \A i \in 1 .. L + 1 : \A n \in 0 .. L : n + 1 <= m + i => g[<<i, n>>] = CodeBody(g, s, i, n)
           T == {m \in 0 .. L + 1 : \E g : Upto(g, m)}
<1>0. L \in Nat /\ L = Len(s) /\ Bounds(s) = (1 .. L + 1) \X (0 .. L)
  BY DEF Bounds
<1> HIDE DEF L
<1>1. 0 \in T
  <2> DEFINE g == [p \in Bounds(s) |-> {}]
  <2>1. ASSUME NEW i \in 1 .. L + 1, NEW n \in 0 .. L, n + 1 <= 0 + i PROVE g[<<i, n>>] = CodeBody(g, s, i, n)
    <3>1. i > n
      BY <2>1, <1>0
    <3>2. g[<<i, n>>] = {}
      BY <1>0
    <3> QED
      BY <3>1, <3>2 DEF CodeBody
  <2>2. Upto(g, 0)
    BY <2>1
  <2>3. 0 \in 0 .. L + 1
    BY <1>0
  <2> HIDE DEF g
  <2> QED
    BY <2>2, <2>3
<1>2. ASSUME NEW m \in 0 .. L + 1, m \in T, m < L + 1 PROVE m + 1 \in T
  <2>1. PICK g : Upto(g, m)
    BY <1>2
  <2> DEFINE h == [p \in Bounds(s) |-> IF p[2] + 1 <= m + p[1] THEN g[p] ELSE CodeBody(g, s, p[1], p[2])]
  <2>2. ASSUME NEW i \in 1 .. L + 1, NEW n \in 0 .. L
        PROVE  h[<<i, n>>] = IF n + 1 <= m + i THEN g[<<i, n>>] ELSE CodeBody(g, s, i, n)
    <3>1. <<i, n>> \in Bounds(s) /\ <<i, n>>[1] = i /\ <<i, n>>[2] = n
      BY <1>0
    <3> QED
      BY <3>1
  <2> HIDE DEF h
  <2>3. ASSUME NEW i \in 1 .. L + 1, NEW n \in 0 .. L, n + 1 <= m + 1 + i PROVE h[<<i, n>>] = CodeBody(h, s, i, n)
    <3>1. h[<<i, n>>] = CodeBody(g, s, i, n)
      BY <2>1, <2>2
    <3>2. ASSUME NEW j \in 1 .. Len(s) + 1, NEW l \in 0 .. Len(s), l + i < n + j PROVE g[<<j, l>>] = h[<<j, l>>]
      <4>1. j \in 1 .. L + 1 /\ l \in 0 .. L
        BY <1>0
      <4>2. l + 1 <= m + j
        <5>1. m \in Nat /\ i \in Nat /\ n \in Nat /\ j \in Nat /\ l \in Nat
          BY <1>0, <4>1
        <5> QED
          BY ONLY <2>3, <3>2, <5>1
      <4> QED
        BY <2>2, <4>1, <4>2
    <3>3. CodeBody(g, s, i, n) = CodeBody(h, s, i, n)
      <4>1. AgreeOnShorter(g, h, s, i, n)
        BY <1>0, <3>2 DEF AgreeOnShorter
      <4>2. Len(s) \in Nat /\ i \in 1 .. Len(s) + 1 /\ n \in 0 .. Len(s)
        BY <1>0
      <4> QED
        BY ONLY <4>1, <4>2, CodeBodyAgrees
    <3> QED
      BY <3>1, <3>3
  <2>4. Upto(h, m + 1)
    BY <2>3
  <2>5. m + 1 \in 0 .. L + 1
    BY <1>0, <1>2
  <2> QED
    BY <2>4, <2>5
<1> HIDE DEF T
<1>3. L + 1 \in T
  <2>1. L + 1 \in Nat /\ L + 1 \in 0 .. L + 1
    BY <1>0
  <2>2. \A i \in 0 .. L + 1 : i \in T /\ i < L + 1 => i + 1 \in T
    BY <1>2
  <2> QED
    BY <1>1, <2>1, <2>2, Upward
<1>4. PICK g : Upto(g, L + 1)
  BY <1>3 DEF T
<1>5. ASSUME NEW i \in 1 .. L + 1, NEW n \in 0 .. L PROVE g[<<i, n>>] = CodeBody(g, s, i, n)
  <2>1. n + 1 <= L + 1 + i
    BY <1>0
  <2> QED
    BY <1>4, <2>1
<1> DEFINE h == [p \in Bounds(s) |-> g[p]]
<1>6. \A i \in 1 .. L + 1 : \A n \in 0 .. L : h[<<i, n>>] = g[<<i, n>>]
  BY <1>0
<1>7. h = [p \in Bounds(s) |-> h[p]]
  OBVIOUS
<1> HIDE DEF h
<1>8. ASSUME NEW i \in 1 .. L + 1, NEW n \in 0 .. L PROVE h[<<i, n>>] = CodeBody(h, s, i, n)
  <2>1. CodeBody(g, s, i, n) = CodeBody(h, s, i, n)
    <3>1. AgreeOnShorter(g, h, s, i, n)
      <4>1. \A j \in 1 .. L + 1 : \A m \in 0 .. L : g[<<j, m>>] = h[<<j, m>>]
        BY ONLY <1>6
      <4> QED
        BY ONLY <1>0, <4>1 DEF AgreeOnShorter
    <3>2. Len(s) \in Nat /\ i \in 1 .. Len(s) + 1 /\ n \in 0 .. Len(s)
      BY <1>0
    <3> QED
      BY ONLY <3>1, <3>2, CodeBodyAgrees
  <2> QED
    BY <1>5, <1>6, <2>1
<1>9. h = [p \in Bounds(s) |-> CodeBody(h, s, p[1], p[2])]
  <2>1. \A p \in Bounds(s) : h[p] = CodeBody(h, s, p[1], p[2])
    <3> SUFFICES ASSUME NEW p \in Bounds(s) PROVE h[p] = CodeBody(h, s, p[1], p[2])
      OBVIOUS
    <3>1. PICK i \in 1 .. L + 1, n \in 0 .. L : p = <<i, n>>
      BY <1>0
    <3> QED
      BY <1>8, <3>1
  <2> QED
    BY <1>7, <2>1
<1>10. Dumped!Codes(s) = CHOOSE c : c = [p \in Bounds(s) |-> CodeBody(c, s, p[1], p[2])]
  BY DEF Dumped!Codes, CodeBody, Bounds
<1> DEFINE c == Dumped!Codes(s)
<1>11. c = [p \in Bounds(s) |-> CodeBody(c, s, p[1], p[2])]
  BY <1>9, <1>10
<1> HIDE DEF c
<1>12. ASSUME NEW i \in 1 .. L + 1, NEW n \in 0 .. L PROVE c[<<i, n>>] = CodeBody(c, s, i, n)
  <2>1. <<i, n>> \in Bounds(s) /\ <<i, n>>[1] = i /\ <<i, n>>[2] = n
    BY <1>0
  <2> QED
    BY <1>11, <2>1
<1> QED
  BY <1>0, <1>12 DEF c

-----------------------------------------------------------------------------
(* Texts that differ only in what the databases are called *)

\* s behind d reads like t, as far as n.
Alike(s, d, t, n) == \A j \in 1 .. n : \A c : c \notin {"ref", "new"} => (s[d + j] = c <=> t[j] = c)
\* A position moved by d, where 0 is no position.
Shifted(d, e) == IF e = 0 THEN 0 ELSE d + e

\* Words are at the same places.
LEMMA WordsAlike ==
  ASSUME NEW s, NEW d \in Nat, NEW t, NEW n \in Nat, Alike(s, d, t, n), NEW i \in 1 .. n, NEW m \in 0 .. n
  PROVE  /\ \A a, b : {a, b} \cap {"ref", "new"} = {} =>
                        (Dumped!Is(s, d + i, d + m, <<a, b>>) <=> Dumped!Is(t, i, m, <<a, b>>))
         /\ \A a, b, c : {a, b, c} \cap {"ref", "new"} = {} =>
                           (Dumped!Is(s, d + i, d + m, <<a, b, c>>) <=> Dumped!Is(t, i, m, <<a, b, c>>))
<1>0. d + i \in Nat /\ d + m \in Nat /\ i \in Nat /\ m \in Nat
  OBVIOUS
<1>1. /\ d + i + 1 = d + (i + 1) /\ d + i + 2 = d + (i + 2)
      /\ (d + i + 1 <= d + m <=> i + 1 <= m) /\ (d + i + 2 <= d + m <=> i + 2 <= m)
  OBVIOUS
<1>2. (i + 1 <= m => i + 1 \in 1 .. n) /\ (i + 2 <= m => i + 1 \in 1 .. n /\ i + 2 \in 1 .. n)
  OBVIOUS
<1>3. ASSUME NEW a, NEW b, {a, b} \cap {"ref", "new"} = {}
      PROVE  Dumped!Is(s, d + i, d + m, <<a, b>>) <=> Dumped!Is(t, i, m, <<a, b>>)
  <2>1. Dumped!Is(s, d + i, d + m, <<a, b>>) <=> d + i + 1 <= d + m /\ s[d + i] = a /\ s[d + i + 1] = b
    BY <1>0, WordsAre
  <2>2. Dumped!Is(t, i, m, <<a, b>>) <=> i + 1 <= m /\ t[i] = a /\ t[i + 1] = b
    BY <1>0, WordsAre
  <2>3. a \notin {"ref", "new"} /\ b \notin {"ref", "new"}
    BY <1>3
  <2> QED
    BY <1>1, <1>2, <2>1, <2>2, <2>3 DEF Alike
<1>4. ASSUME NEW a, NEW b, NEW c, {a, b, c} \cap {"ref", "new"} = {}
      PROVE  Dumped!Is(s, d + i, d + m, <<a, b, c>>) <=> Dumped!Is(t, i, m, <<a, b, c>>)
  <2>1. Dumped!Is(s, d + i, d + m, <<a, b, c>>)
           <=> d + i + 2 <= d + m /\ s[d + i] = a /\ s[d + i + 1] = b /\ s[d + i + 2] = c
    BY <1>0, WordsAre
  <2>2. Dumped!Is(t, i, m, <<a, b, c>>) <=> i + 2 <= m /\ t[i] = a /\ t[i + 1] = b /\ t[i + 2] = c
    BY <1>0, WordsAre
  <2>3. a \notin {"ref", "new"} /\ b \notin {"ref", "new"} /\ c \notin {"ref", "new"}
    BY <1>4
  <2> QED
    BY <1>1, <1>2, <2>1, <2>2, <2>3 DEF Alike
<1> QED
  BY <1>3, <1>4

\* The ends of strings with q, up to m.
EndsAlike(s, d, t, m, q) ==
  \A k \in Nat \ {0} : Dumped!StringEnds(s, q, d + m)[d + k] = Shifted(d, Dumped!StringEnds(t, q, m)[k])

\* Strings end at the same places.
LEMMA StringEndsAlike ==
  ASSUME NEW s, NEW d \in Nat, NEW t, NEW n \in Nat, Alike(s, d, t, n), NEW m \in 0 .. n,
         NEW q, q \notin {"ref", "new"}
  PROVE  EndsAlike(s, d, t, m, q)
<1> DEFINE g == Dumped!StringEnds(s, q, d + m)
           h == Dumped!StringEnds(t, q, m)
           T == {k \in 0 .. m : k = 0 \/ g[d + k] = Shifted(d, h[k])}
<1>0. m \in Nat /\ d + m \in Nat
  OBVIOUS
<1>1. \A k \in Nat : g[k] = EndBody(g, s, q, d + m, k)
  BY <1>0, StringEndsAre
<1>2. \A k \in Nat : h[k] = EndBody(h, t, q, m, k)
  BY <1>0, StringEndsAre
<1>2a. \A k \in Nat \ {0} : h[k] = 0 \/ h[k] \in k .. m
  BY <1>0, StringEndsBounded
<1> HIDE DEF g, h
<1>3. ASSUME NEW k \in Nat, k > m PROVE g[d + k] = Shifted(d, h[k])
  <2>1. d + k \in Nat /\ d + k > d + m
    BY <1>3
  <2>2. g[d + k] = EndBody(g, s, q, d + m, d + k) /\ h[k] = EndBody(h, t, q, m, k)
    BY <1>1, <1>2, <2>1
  <2> QED
    BY <1>3, <2>1, <2>2 DEF EndBody, Shifted
<1>4. ASSUME NEW k \in 0 .. m, \A j \in k + 1 .. m : j \in T PROVE k \in T
  <2> SUFFICES ASSUME k # 0 PROVE g[d + k] = Shifted(d, h[k])
    OBVIOUS
  <2>1. ASSUME NEW j \in {k + 1, k + 2} PROVE g[d + j] = Shifted(d, h[j]) /\ (h[j] = 0 <=> g[d + j] = 0)
    <3>1. j \in Nat \ {0} /\ (j > m \/ j \in k + 1 .. m)
      OBVIOUS
    <3>2. g[d + j] = Shifted(d, h[j])
      BY <1>3, <1>4, <3>1
    <3>3. h[j] = 0 \/ h[j] \in j .. m
      BY <1>2a, <3>1
    <3> QED
      BY <3>1, <3>2, <3>3 DEF Shifted
  <2>2. g[d + k] = EndBody(g, s, q, d + m, d + k) /\ h[k] = EndBody(h, t, q, m, k)
    BY <1>1, <1>2
  <2>3. d + k + 1 = d + (k + 1) /\ d + k + 2 = d + (k + 2) /\ (d + k < d + m <=> k < m) /\ ~(d + k > d + m) /\ ~(k > m)
    OBVIOUS
  <2>4. \A c : c \notin {"ref", "new"} => (s[d + k] = c <=> t[k] = c)
    BY DEF Alike
  <2>5. k < m => \A c : c \notin {"ref", "new"} => (s[d + (k + 1)] = c <=> t[k + 1] = c)
    <3>1. k < m => k + 1 \in 1 .. n
      OBVIOUS
    <3> QED
      BY <3>1 DEF Alike
  <2> DEFINE esc == k < m /\ t[k] = "backslash" /\ t[k + 1] # "newline"
             dbl == k < m /\ t[k] = q /\ t[k + 1] = q
             quo == t[k] = q
  <2>6. (d + k < d + m /\ s[d + k] = "backslash" /\ s[d + k + 1] # "newline") <=> esc
    BY <2>3, <2>4, <2>5
  <2>7. (d + k < d + m /\ s[d + k] = q /\ s[d + k + 1] = q) <=> dbl
    BY <2>3, <2>4, <2>5
  <2>8. s[d + k] = q <=> quo
    BY <2>4
  <2>9. h[k] = LET escaped == IF esc THEN h[k + 2] ELSE 0
                   doubled == IF dbl THEN h[k + 2] ELSE 0
                   other == IF ~quo THEN h[k + 1] ELSE k
               IN IF escaped # 0 THEN escaped ELSE IF doubled # 0 THEN doubled ELSE other
    BY <2>2, <2>3 DEF EndBody
  <2>10. g[d + k] = LET escaped == IF esc THEN g[d + (k + 2)] ELSE 0
                        doubled == IF dbl THEN g[d + (k + 2)] ELSE 0
                        other == IF ~quo THEN g[d + (k + 1)] ELSE d + k
                    IN IF escaped # 0 THEN escaped ELSE IF doubled # 0 THEN doubled ELSE other
    BY <2>2, <2>3, <2>6, <2>7, <2>8 DEF EndBody
  <2>11. Shifted(d, k) = d + k
    BY DEF Shifted
  <2> HIDE DEF esc, dbl, quo
  <2> QED
    BY <2>1, <2>9, <2>10, <2>11
<1> HIDE DEF T
<1>5. \A k \in 0 .. m : k \in T
  BY <1>0, <1>4, Downward
<1>6. ASSUME NEW k \in Nat \ {0} PROVE g[d + k] = Shifted(d, h[k])
  <2>1. CASE k > m
    BY <1>3, <2>1
  <2>2. CASE k <= m
    BY <1>5, <2>2 DEF T
  <2> QED
    BY <2>1, <2>2
<1> QED
  BY <1>6 DEF g, h, EndsAlike

\* Positions that are d further on have a first that is.
LEMMA FirstAlike ==
  ASSUME NEW d \in Nat, NEW S, S \subseteq Nat \ {0}
  PROVE  Dumped!FirstIn({d + k : k \in S}) = Shifted(d, Dumped!FirstIn(S))
<1> DEFINE R == {d + k : k \in S}
<1>1. R \subseteq Nat /\ S \subseteq Nat
  OBVIOUS
<1>2. CASE S = {}
  <2>1. R = {}
    BY <1>2
  <2> HIDE DEF R
  <2> QED
    BY <1>1, <1>2, <2>1, FirstIs DEF Shifted
<1>3. CASE S # {}
  <2> DEFINE f == Dumped!FirstIn(S)
  <2>1. f \in S /\ \A k \in S : f <= k
    BY <1>1, <1>3, FirstIs
  <2> HIDE DEF f
  <2>2. d + f \in R
    BY <2>1
  <2>3. \A l \in R : d + f <= l
    <3> SUFFICES ASSUME NEW k \in S PROVE d + f <= d + k
      OBVIOUS
    <3>1. f <= k /\ f \in Nat /\ k \in Nat
      BY <2>1
    <3> QED
      BY <3>1
  <2> HIDE DEF R
  <2>4. Dumped!FirstIn(R) = d + f
    BY <1>1, <2>2, <2>3, FirstIs
  <2>5. f # 0
    BY <2>1
  <2> QED
    BY <2>4, <2>5 DEF Shifted, f, R
<1> QED
  BY <1>2, <1>3

\* Where a line ends, from j on.
LineEndAlike(s, d, t, m, j) == Dumped!FirstIn(LineEnds(s, d + j, d + m)) = Shifted(d, Dumped!FirstIn(LineEnds(t, j, m)))

\* Lines end at the same places.
LEMMA LineEndsAlike ==
  ASSUME NEW s, NEW d \in Nat, NEW t, NEW n \in Nat, Alike(s, d, t, n), NEW m \in 0 .. n, NEW j \in Nat \ {0}
  PROVE  LineEndAlike(s, d, t, m, j)
<1>1. LineEnds(t, j, m) \subseteq Nat \ {0}
  BY DEF LineEnds
<1>2. LineEnds(s, d + j, d + m) = {d + k : k \in LineEnds(t, j, m)}
  <2>1. ASSUME NEW k \in j .. m, k # m PROVE s[d + (k + 1)] = "newline" <=> t[k + 1] = "newline"
    <3>1. k + 1 \in 1 .. n
      BY <2>1
    <3> QED
      BY <3>1 DEF Alike
  <2>2. ASSUME NEW l \in LineEnds(s, d + j, d + m) PROVE \E k \in LineEnds(t, j, m) : l = d + k
    <3>1. l \in d + j .. d + m /\ (l = d + m \/ s[l + 1] = "newline")
      BY <2>2 DEF LineEnds
    <3>2. /\ l - d \in j .. m /\ l = d + (l - d) /\ d + ((l - d) + 1) = l + 1
          /\ (l - d = m <=> l = d + m)
      BY <3>1
    <3>3. l - d = m \/ t[(l - d) + 1] = "newline"
      BY <2>1, <3>1, <3>2
    <3>4. l - d \in LineEnds(t, j, m)
      BY <3>2, <3>3 DEF LineEnds
    <3> QED
      BY <3>2, <3>4
  <2>3. ASSUME NEW k \in LineEnds(t, j, m) PROVE d + k \in LineEnds(s, d + j, d + m)
    <3>1. k \in j .. m /\ (k = m \/ t[k + 1] = "newline")
      BY <2>3 DEF LineEnds
    <3>2. d + k \in d + j .. d + m /\ d + (k + 1) = d + k + 1
      BY <3>1
    <3>3. d + k = d + m \/ s[d + k + 1] = "newline"
      BY <2>1, <3>1, <3>2
    <3> QED
      BY <3>2, <3>3 DEF LineEnds
  <2> QED
    BY <2>2, <2>3
<1> QED
  BY <1>1, <1>2, FirstAlike DEF LineEndAlike

\* Strings and comments end at the same places.
LEMMA PartEndAlike ==
  ASSUME NEW s, NEW d \in Nat, NEW t, NEW n \in Nat, Alike(s, d, t, n), NEW m \in 0 .. n, NEW i \in 1 .. n, i <= m
  PROVE  Dumped!PartEnd(s, d + i, d + m) = Shifted(d, Dumped!PartEnd(t, i, m))
<1>0. /\ d + i \in Nat /\ d + m \in Nat /\ i \in Nat /\ m \in Nat
      /\ d + i + 1 = d + (i + 1) /\ d + i + 2 = d + (i + 2)
      /\ (d + i < d + m <=> i < m) /\ (d + i + 2 <= d + m <=> i + 2 <= m)
  OBVIOUS
<1>1. \A c : c \notin {"ref", "new"} => (s[d + i] = c <=> t[i] = c)
  BY DEF Alike
<1>2. i < m => \A c : c \notin {"ref", "new"} => (s[d + (i + 1)] = c <=> t[i + 1] = c)
  <2>1. i < m => i + 1 \in 1 .. n
    OBVIOUS
  <2> QED
    BY <2>1 DEF Alike
<1>3. i + 2 <= m => \A c : c \notin {"ref", "new"} => (s[d + (i + 2)] = c <=> t[i + 2] = c)
  <2>1. i + 2 <= m => i + 2 \in 1 .. n
    OBVIOUS
  <2> QED
    BY <2>1 DEF Alike
<1>4. OpensString(s, d + i) <=> OpensString(t, i)
  BY <1>1 DEF OpensString
<1>5. OpensBlock(s, d + i, d + m) <=> OpensBlock(t, i, m)
  BY <1>0, <1>1, <1>2 DEF OpensBlock
<1>6. OpensDashes(s, d + i, d + m) <=> OpensDashes(t, i, m)
  <2>1. i + 2 <= m => i < m
    OBVIOUS
  <2> QED
    BY <1>0, <1>1, <1>2, <1>3, <2>1 DEF OpensDashes
<1>6a. OpensHash(s, d + i) <=> OpensHash(t, i)
  BY <1>1 DEF OpensHash
<1>7. CASE OpensString(t, i)
  <2>1. PICK q : q \notin {"ref", "new"} /\ t[i] = q /\ s[d + i] = q
    BY <1>1, <1>7 DEF OpensString
  <2>2. Dumped!StringEnds(s, q, d + m)[d + (i + 1)] = Shifted(d, Dumped!StringEnds(t, q, m)[i + 1])
    <3>1. i + 1 \in Nat \ {0}
      OBVIOUS
    <3>2. q \notin {"ref", "new"}
      BY <2>1
    <3>3. EndsAlike(s, d, t, m, q)
      BY <3>2, StringEndsAlike
    <3> QED
      BY <3>1, <3>3 DEF EndsAlike
  <2>3. Dumped!PartEnd(t, i, m) = Dumped!StringEnds(t, t[i], m)[i + 1]
    BY <1>0, <1>7, PartEndIs
  <2>4. Dumped!PartEnd(s, d + i, d + m) = Dumped!StringEnds(s, s[d + i], d + m)[d + i + 1]
    BY <1>0, <1>4, <1>7, PartEndIs
  <2> QED
    BY <1>0, <2>1, <2>2, <2>3, <2>4
<1>8. CASE OpensBlock(t, i, m)
  <2>1. BlockEnds(t, i, m) \subseteq Nat \ {0}
    BY DEF BlockEnds
  <2>2. BlockEnds(s, d + i, d + m) = {d + k : k \in BlockEnds(t, i, m)}
    <3>1. ASSUME NEW k \in i + 2 .. m - 1
          PROVE  Dumped!Is(s, d + k, d + m, <<"*", "/">>) <=> Dumped!Is(t, k, m, <<"*", "/">>)
      <4>1. k \in 1 .. n
        OBVIOUS
      <4>2. {"*", "/"} \cap {"ref", "new"} = {}
        OBVIOUS
      <4> QED
        BY <4>1, <4>2, WordsAlike
    <3>2. ASSUME NEW l \in BlockEnds(s, d + i, d + m) PROVE \E k \in BlockEnds(t, i, m) : l = d + k
      <4>1. PICK j \in d + i + 2 .. d + m - 1 : l = j + 1 /\ Dumped!Is(s, j, d + m, <<"*", "/">>)
        BY <3>2 DEF BlockEnds
      <4>2. j - d \in i + 2 .. m - 1 /\ d + (j - d) = j /\ l = d + ((j - d) + 1)
        BY <1>0, <4>1
      <4>3. Dumped!Is(t, j - d, m, <<"*", "/">>)
        BY <3>1, <4>1, <4>2
      <4>4. (j - d) + 1 \in BlockEnds(t, i, m)
        BY <4>2, <4>3 DEF BlockEnds
      <4> QED
        BY <4>2, <4>4
    <3>3. ASSUME NEW k \in BlockEnds(t, i, m) PROVE d + k \in BlockEnds(s, d + i, d + m)
      <4>1. PICK j \in i + 2 .. m - 1 : k = j + 1 /\ Dumped!Is(t, j, m, <<"*", "/">>)
        BY <3>3 DEF BlockEnds
      <4>2. d + j \in d + i + 2 .. d + m - 1 /\ d + k = (d + j) + 1
        BY <1>0, <4>1
      <4>3. Dumped!Is(s, d + j, d + m, <<"*", "/">>)
        BY <3>1, <4>1
      <4> QED
        BY <4>2, <4>3 DEF BlockEnds
    <3> QED
      BY <3>2, <3>3
  <2>3. Dumped!PartEnd(t, i, m) = Dumped!FirstIn(BlockEnds(t, i, m))
    BY <1>0, <1>8, PartEndIs
  <2>4. Dumped!PartEnd(s, d + i, d + m) = Dumped!FirstIn(BlockEnds(s, d + i, d + m))
    BY <1>0, <1>5, <1>8, PartEndIs
  <2> QED
    BY <2>1, <2>2, <2>3, <2>4, FirstAlike
<1>9. CASE OpensDashes(t, i, m)
  <2>1. Dumped!PartEnd(t, i, m) = Dumped!FirstIn(LineEnds(t, i + 2, m))
    BY <1>0, <1>9, PartEndIs
  <2>2. Dumped!PartEnd(s, d + i, d + m) = Dumped!FirstIn(LineEnds(s, d + i + 2, d + m))
    BY <1>0, <1>6, <1>9, PartEndIs
  <2>3. PICK j : j = i + 2 /\ d + j = d + i + 2 /\ j \in Nat \ {0}
    BY <1>0
  <2>4. Dumped!FirstIn(LineEnds(s, d + j, d + m)) = Shifted(d, Dumped!FirstIn(LineEnds(t, j, m)))
    <3>1. d \in Nat /\ n \in Nat /\ m \in 0 .. n /\ j \in Nat \ {0} /\ Alike(s, d, t, n)
      BY <2>3
    <3>2. LineEndAlike(s, d, t, m, j)
      BY ONLY <3>1, LineEndsAlike
    <3> QED
      BY ONLY <3>2 DEF LineEndAlike
  <2> QED
    BY ONLY <2>1, <2>2, <2>3, <2>4
<1>10. CASE OpensHash(t, i)
  <2>1. Dumped!PartEnd(t, i, m) = Dumped!FirstIn(LineEnds(t, i, m))
    BY <1>0, <1>10, PartEndIs
  <2>2. Dumped!PartEnd(s, d + i, d + m) = Dumped!FirstIn(LineEnds(s, d + i, d + m))
    BY <1>0, <1>6a, <1>10, PartEndIs
  <2>3. i \in Nat \ {0}
    OBVIOUS
  <2>4. Dumped!FirstIn(LineEnds(s, d + i, d + m)) = Shifted(d, Dumped!FirstIn(LineEnds(t, i, m)))
    <3>1. d \in Nat /\ n \in Nat /\ m \in 0 .. n /\ i \in Nat \ {0} /\ Alike(s, d, t, n)
      BY <2>3
    <3>2. LineEndAlike(s, d, t, m, i)
      BY ONLY <3>1, LineEndsAlike
    <3> QED
      BY ONLY <3>2 DEF LineEndAlike
  <2> QED
    BY ONLY <2>1, <2>2, <2>4
<1>11. CASE ~OpensString(t, i) /\ ~OpensBlock(t, i, m) /\ ~OpensDashes(t, i, m) /\ ~OpensHash(t, i)
  <2>1. Dumped!PartEnd(t, i, m) = 0
    BY <1>0, <1>11, PartEndIs
  <2>2. Dumped!PartEnd(s, d + i, d + m) = 0
    BY <1>0, <1>4, <1>5, <1>6, <1>6a, <1>11, PartEndIs
  <2> QED
    BY <2>1, <2>2 DEF Shifted
<1> QED
  BY <1>7, <1>8, <1>9, <1>10, <1>11

\* The positions of code, up to n.
CodeAlike(s, d, t, n) ==
  \A i \in 1 .. n + 1 : \A m \in 0 .. n :
    Dumped!Codes(s)[<<d + i, d + m>>] = {d + j : j \in Dumped!Codes(t)[<<i, m>>]}

\* Code is at the same places.
LEMMA CodesAlike ==
  ASSUME NEW s, Len(s) \in Nat, NEW d \in Nat, NEW t, Len(t) \in Nat, NEW n \in Nat, n <= Len(t), d + n <= Len(s),
         Alike(s, d, t, n)
  PROVE  CodeAlike(s, d, t, n)
<1> DEFINE g == Dumped!Codes(s)
           h == Dumped!Codes(t)
           Holds(i, m) == g[<<d + i, d + m>>] = {d + j : j \in h[<<i, m>>]}
           T == {z \in 0 .. n + 1 : \A i \in 1 .. n + 1 : \A m \in 0 .. n : m + 1 <= z + i => Holds(i, m)}
<1>1. \A i \in 1 .. Len(s) + 1 : \A m \in 0 .. Len(s) : g[<<i, m>>] = CodeBody(g, s, i, m)
  BY CodesAre
<1>2. \A i \in 1 .. Len(t) + 1 : \A m \in 0 .. Len(t) : h[<<i, m>>] = CodeBody(h, t, i, m)
  BY CodesAre
<1> HIDE DEF g, h
<1>3. ASSUME NEW i \in 1 .. n + 1, NEW m \in 0 .. n
      PROVE  g[<<d + i, d + m>>] = CodeBody(g, s, d + i, d + m) /\ h[<<i, m>>] = CodeBody(h, t, i, m)
  <2>1. d + i \in 1 .. Len(s) + 1 /\ d + m \in 0 .. Len(s) /\ i \in 1 .. Len(t) + 1 /\ m \in 0 .. Len(t)
    OBVIOUS
  <2> QED
    BY <1>1, <1>2, <2>1
<1>4. ASSUME NEW i \in 1 .. n + 1, NEW m \in 0 .. n, i > m PROVE Holds(i, m)
  <2>1. d + i > d + m
    BY <1>4
  <2>2. g[<<d + i, d + m>>] = {} /\ h[<<i, m>>] = {}
    BY <1>3, <1>4, <2>1 DEF CodeBody
  <2> QED
    BY <2>2
<1>5. 0 \in T
  <2>1. ASSUME NEW i \in 1 .. n + 1, NEW m \in 0 .. n, m + 1 <= 0 + i PROVE Holds(i, m)
    <3>1. i > m
      BY ONLY <2>1
    <3> HIDE DEF Holds
    <3> QED
      BY <1>4, <3>1
  <2> HIDE DEF Holds
  <2>2. 0 \in 0 .. n + 1
    OBVIOUS
  <2> QED
    BY <2>1, <2>2
<1>6. ASSUME NEW z \in 0 .. n + 1, z \in T, z < n + 1 PROVE z + 1 \in T
  <2>1. \A i \in 1 .. n + 1 : \A m \in 0 .. n : m + 1 <= z + i => Holds(i, m)
    BY <1>6
  <2> HIDE DEF Holds
  <2>2. ASSUME NEW i \in 1 .. n + 1, NEW m \in 0 .. n, m + 1 <= z + 1 + i PROVE Holds(i, m)
    <3>1. CASE i > m
      BY <1>4, <3>1
    <3>2. CASE i <= m
      <4> DEFINE e == Dumped!PartEnd(t, i, m)
                 v == Dumped!Is(t, i, m, <<"/", "*", "!">>)
      <4>0. i \in 1 .. n /\ i \in Nat \ {0} /\ m \in Nat
        BY <3>2
      <4>1. Dumped!PartEnd(s, d + i, d + m) = Shifted(d, e)
        BY <3>2, <4>0, PartEndAlike
      <4>2. Dumped!Is(s, d + i, d + m, <<"/", "*", "!">>) <=> v
        <5>1. {"/", "*", "!"} \cap {"ref", "new"} = {}
          OBVIOUS
        <5> QED
          BY <4>0, <5>1, WordsAlike
      <4>3. (e = 0 \/ e \in i .. m) /\ (e # 0 /\ v => i + 3 <= e)
        BY <4>0, PartEndBounded
      <4>4. h[<<i, m>>] = IF e = 0 THEN {i} \cup h[<<i + 1, m>>] ELSE
                          (IF v THEN h[<<i + 3, e - 2>>] ELSE {}) \cup h[<<e + 1, m>>]
        <5>1. ~(i > m)
          BY <3>2
        <5> QED
          BY <1>3, <5>1 DEF CodeBody
      <4>5. /\ e = 0 => g[<<d + i, d + m>>] = {d + i} \cup g[<<d + (i + 1), d + m>>]
            /\ e # 0 => g[<<d + i, d + m>>] =
                          (IF v THEN g[<<d + (i + 3), d + (e - 2)>>] ELSE {}) \cup g[<<d + (e + 1), d + m>>]
        <5>1. PICK i2, m2, e2 : i2 = d + i /\ m2 = d + m /\ e2 = d + e
          OBVIOUS
        <5>2. ~(i2 > m2)
          BY <3>2, <5>1
        <5>3. g[<<i2, m2>>] = CodeBody(g, s, i2, m2)
          BY <1>3, <5>1
        <5>4. e = 0 => Dumped!PartEnd(s, i2, m2) = 0
          BY <4>1, <5>1 DEF Shifted
        <5>5. e # 0 => Dumped!PartEnd(s, i2, m2) = e2 /\ e2 # 0
          BY <4>1, <4>3, <5>1 DEF Shifted
        <5>6. Dumped!Is(s, i2, m2, <<"/", "*", "!">>) <=> v
          BY <4>2, <5>1
        <5> HIDE DEF e, v
        <5>7. /\ e = 0 => g[<<i2, m2>>] = {i2} \cup g[<<i2 + 1, m2>>]
              /\ e # 0 => g[<<i2, m2>>] = (IF v THEN g[<<i2 + 3, e2 - 2>>] ELSE {}) \cup g[<<e2 + 1, m2>>]
          BY <5>2, <5>3, <5>4, <5>5, <5>6 DEF CodeBody
        <5>8. i2 + 1 = d + (i + 1) /\ i2 + 3 = d + (i + 3) /\ (e # 0 => e2 - 2 = d + (e - 2) /\ e2 + 1 = d + (e + 1))
          BY <4>0, <4>3, <5>1
        <5>9. /\ e = 0 => g[<<i2, m2>>] = {i2} \cup g[<<d + (i + 1), m2>>]
              /\ e # 0 => g[<<i2, m2>>] = (IF v THEN g[<<d + (i + 3), d + (e - 2)>>] ELSE {}) \cup g[<<d + (e + 1), m2>>]
          BY ONLY <5>7, <5>8
        <5> QED
          BY ONLY <5>1, <5>9
      <4> HIDE DEF e, v
      <4>6. CASE e = 0
        <5>1. i + 1 \in 1 .. n + 1 /\ m + 1 <= z + (i + 1) 
          BY <2>2, <4>0
        <5>2. Holds(i + 1, m)
          BY <2>1, <5>1
        <5>3. g[<<d + (i + 1), d + m>>] = {d + j : j \in h[<<i + 1, m>>]}
          BY <5>2 DEF Holds
        <5>4. h[<<i, m>>] = {i} \cup h[<<i + 1, m>>] /\ g[<<d + i, d + m>>] = {d + i} \cup g[<<d + (i + 1), d + m>>]
          BY <4>4, <4>5, <4>6, <5>1
        <5>5. g[<<d + i, d + m>>] = {d + j : j \in h[<<i, m>>]}
          BY <5>3, <5>4
        <5> QED
          BY <5>5 DEF Holds
      <4>7. CASE e # 0
        <5>1. e + 1 \in 1 .. n + 1 /\ m + 1 <= z + (e + 1)
          BY <2>2, <4>0, <4>3, <4>7
        <5>2. Holds(e + 1, m)
          BY <2>1, <5>1
        <5>3. g[<<d + (e + 1), d + m>>] = {d + j : j \in h[<<e + 1, m>>]}
          BY <5>2 DEF Holds
        <5>4. v => g[<<d + (i + 3), d + (e - 2)>>] = {d + j : j \in h[<<i + 3, e - 2>>]}
          <6> SUFFICES ASSUME v PROVE Holds(i + 3, e - 2)
            BY DEF Holds
          <6>1. i + 3 \in 1 .. n + 1 /\ e - 2 \in 0 .. n /\ (e - 2) + 1 <= z + (i + 3)
            BY <2>2, <4>0, <4>3, <4>7
          <6> QED
            BY <2>1, <6>1
        <5>6. h[<<i, m>>] = (IF v THEN h[<<i + 3, e - 2>>] ELSE {}) \cup h[<<e + 1, m>>]
          BY <4>4, <4>7
        <5>5. g[<<d + i, d + m>>] = (IF v THEN g[<<d + (i + 3), d + (e - 2)>>] ELSE {}) \cup g[<<d + (e + 1), d + m>>]
          BY <4>5, <4>7
        <5>7. g[<<d + i, d + m>>] = {d + j : j \in h[<<i, m>>]}
          BY <5>3, <5>4, <5>5, <5>6
        <5> QED
          BY <5>7 DEF Holds
      <4> QED
        BY <4>6, <4>7
    <3> QED
      BY <3>1, <3>2
  <2>3. z + 1 \in 0 .. n + 1
    BY <1>6
  <2> QED
    BY <2>2, <2>3
<1> HIDE DEF T
<1>7. n + 1 \in T
  <2>1. n + 1 \in Nat /\ n + 1 \in 0 .. n + 1
    OBVIOUS
  <2>2. \A z \in 0 .. n + 1 : z \in T /\ z < n + 1 => z + 1 \in T
    BY <1>6
  <2> QED
    BY <1>5, <2>1, <2>2, Upward
<1>8. ASSUME NEW i \in 1 .. n + 1, NEW m \in 0 .. n PROVE Holds(i, m)
  <2>1. m + 1 <= n + 1 + i
    OBVIOUS
  <2> HIDE DEF Holds
  <2> QED
    BY <1>7, <2>1 DEF T
<1> QED
  BY <1>8 DEF g, h, CodeAlike

\* Code is between the beginning and the end.
LEMMA CodesBetween ==
  ASSUME NEW s, Len(s) \in Nat
  PROVE  \A i \in 1 .. Len(s) + 1 : \A n \in 0 .. Len(s) : Dumped!Codes(s)[<<i, n>>] \subseteq i .. n
<1> DEFINE L == Len(s)
           g == Dumped!Codes(s)
           T == {z \in 0 .. L + 1 : \A i \in 1 .. L + 1 : \A n \in 0 .. L : n + 1 <= z + i => g[<<i, n>>] \subseteq i .. n}
<1>1. \A i \in 1 .. L + 1 : \A n \in 0 .. L : g[<<i, n>>] = CodeBody(g, s, i, n)
  BY CodesAre
<1>0. L \in Nat
  OBVIOUS
<1> HIDE DEF g, L
<1>2. ASSUME NEW i \in 1 .. L + 1, NEW n \in 0 .. L, i > n PROVE g[<<i, n>>] = {}
  BY <1>1, <1>2 DEF CodeBody
<1>3. 0 \in T
  <2>1. ASSUME NEW i \in 1 .. L + 1, NEW n \in 0 .. L, n + 1 <= 0 + i PROVE g[<<i, n>>] \subseteq i .. n
    <3>1. i > n
      BY <1>0, <2>1
    <3> QED
      BY <1>2, <3>1
  <2>2. 0 \in 0 .. L + 1
    BY <1>0
  <2> QED
    BY <2>1, <2>2
<1>4. ASSUME NEW z \in 0 .. L + 1, z \in T, z < L + 1 PROVE z + 1 \in T
  <2>1. \A i \in 1 .. L + 1 : \A n \in 0 .. L : n + 1 <= z + i => g[<<i, n>>] \subseteq i .. n
    BY <1>4
  <2>2. ASSUME NEW i \in 1 .. L + 1, NEW n \in 0 .. L, n + 1 <= z + 1 + i PROVE g[<<i, n>>] \subseteq i .. n
    <3>1. CASE i > n
      BY <1>2, <3>1
    <3>2. CASE i <= n
      <4> DEFINE e == Dumped!PartEnd(s, i, n)
                 v == Dumped!Is(s, i, n, <<"/", "*", "!">>)
      <4>0. i \in Nat \ {0} /\ n \in Nat /\ z \in Nat /\ n <= L
        BY <1>0
      <4>3. (e = 0 \/ e \in i .. n) /\ (e # 0 /\ v => i + 3 <= e)
        BY <4>0, PartEndBounded
      <4>4. g[<<i, n>>] = IF e = 0 THEN {i} \cup g[<<i + 1, n>>] ELSE
                          (IF v THEN g[<<i + 3, e - 2>>] ELSE {}) \cup g[<<e + 1, n>>]
        <5>1. ~(i > n)
          BY <3>2, <4>0
        <5> QED
          BY <1>1, <5>1 DEF CodeBody
      <4> HIDE DEF e, v
      <4>6. CASE e = 0
        <5>1. i + 1 \in 1 .. L + 1 /\ n + 1 <= z + (i + 1)
          BY ONLY <1>0, <2>2, <3>2, <4>0
        <5>2. g[<<i + 1, n>>] \subseteq i + 1 .. n
          BY <2>1, <5>1
        <5>3. {i} \cup (i + 1 .. n) \subseteq i .. n
          BY <3>2, <4>0
        <5> QED
          BY <4>4, <4>6, <5>2, <5>3
      <4>7. CASE e # 0
        <5>1. e + 1 \in 1 .. L + 1 /\ n + 1 <= z + (e + 1) /\ e + 1 .. n \subseteq i .. n
          BY ONLY <1>0, <2>2, <4>0, <4>3, <4>7
        <5>2. g[<<e + 1, n>>] \subseteq e + 1 .. n
          BY <2>1, <5>1
        <5>4. v => g[<<i + 3, e - 2>>] \subseteq i .. n
          <6> SUFFICES ASSUME v PROVE g[<<i + 3, e - 2>>] \subseteq i .. n
            OBVIOUS
          <6>1. i + 3 \in 1 .. L + 1 /\ e - 2 \in 0 .. L /\ (e - 2) + 1 <= z + (i + 3) /\ i + 3 .. e - 2 \subseteq i .. n
            BY ONLY <1>0, <2>2, <4>0, <4>3, <4>7, v
          <6>2. g[<<i + 3, e - 2>>] \subseteq i + 3 .. e - 2
            BY <2>1, <6>1
          <6> QED
            BY <6>1, <6>2
        <5> QED
          BY <4>4, <4>7, <5>1, <5>2, <5>4
      <4> QED
        BY <4>6, <4>7
    <3>3. i > n \/ i <= n
      BY <1>0
    <3> QED
      BY <3>1, <3>2, <3>3
  <2>3. z + 1 \in 0 .. L + 1
    BY <1>0, <1>4
  <2> QED
    BY <2>2, <2>3
<1> HIDE DEF T
<1>5. L + 1 \in T
  <2>1. L + 1 \in Nat /\ L + 1 \in 0 .. L + 1
    BY <1>0
  <2>2. \A z \in 0 .. L + 1 : z \in T /\ z < L + 1 => z + 1 \in T
    BY <1>4
  <2> QED
    BY <1>3, <2>1, <2>2, Upward
<1>6. ASSUME NEW i \in 1 .. L + 1, NEW n \in 0 .. L PROVE g[<<i, n>>] \subseteq i .. n
  <2>1. n + 1 <= L + 1 + i
    BY <1>0
  <2> QED
    BY <1>5, <2>1 DEF T
<1> QED
  BY <1>6 DEF g, L

-----------------------------------------------------------------------------
(* The scanner *)

\* The scanner's states.
Modes == {"code", "line", "block", "'", "double", "backtick"}
ScanStates == [mode : Modes, skip : BOOLEAN, boundary : Nat]

\* The scanner is in code, or in something that may end.
LEMMA ScannedType ==
  ASSUME NEW s, Len(s) \in Nat
  PROVE  \A i \in 0 .. Len(s) : Dumped!Scanned(s)[i] \in ScanStates
<1> DEFINE M == Dumped!Scanned(s)
           L == Len(s)
           T == {i \in 0 .. L : M[i] \in ScanStates}
<1>0. L \in Nat
  OBVIOUS
<1>1. M[0] = Scanning
  BY ScannedIs
<1>2. \A i \in 1 .. L : M[i] = Dumped!Scan(M[i - 1], s[i], Dumped!At(s, i + 1), Dumped!At(s, i + 2), i)
  BY ScannedIs
<1> HIDE DEF M, L
<1>3. 0 \in T
  <2>1. Scanning \in ScanStates
    BY DEF Scanning, ScanStates, Modes
  <2> QED
    BY <1>0, <1>1, <2>1
<1>4. ASSUME NEW i \in 0 .. L, i \in T, i < L PROVE i + 1 \in T
  <2>1. i + 1 \in 1 .. L /\ (i + 1) - 1 = i /\ i + 1 \in 0 .. L /\ i + 1 \in Nat
    BY <1>0, <1>4
  <2>2. PICK now, nxt, aft : M[i + 1] = Dumped!Scan(M[i], now, nxt, aft, i + 1)
    BY <1>2, <2>1
  <2>3. PICK st : st = M[i]
    OBVIOUS
  <2>4. st \in ScanStates
    BY <1>4, <2>3
  <2>5. Dumped!Scan(st, now, nxt, aft, i + 1) \in ScanStates
    BY <2>1, <2>4 DEF Dumped!Scan, Dumped!Quotes, ScanStates, Modes
  <2> QED
    BY <2>1, <2>2, <2>3, <2>5
<1> HIDE DEF T
<1>5. \A i \in 0 .. L : i \in T
  <2>1. \A i \in 0 .. L : i \in T /\ i < L => i + 1 \in T
    BY <1>4
  <2> QED
    BY <1>0, <1>3, <2>1, Upward
<1> QED
  BY <1>5 DEF T, M, L

\* Behind the i-th character the scanner is in this mode, and does or does not pass over
\* the next character; the characters behind i.
In(s, i, mode) == Dumped!Scanned(s)[i].mode = mode /\ ~Dumped!Scanned(s)[i].skip
Skips(s, i, mode) == Dumped!Scanned(s)[i].mode = mode /\ Dumped!Scanned(s)[i].skip
Next1(s, i, c) == i < Len(s) /\ s[i + 1] = c
Next2(s, i, c) == i + 2 <= Len(s) /\ s[i + 2] = c

\* What the next characters are.
LEMMA AtIs ==
  ASSUME NEW S, NEW s \in Seq(S), NEW i \in 1 .. Len(s), NEW c, c # "end"
  PROVE  (Dumped!At(s, i + 1) = c <=> Next1(s, i, c)) /\ (Dumped!At(s, i + 2) = c <=> Next2(s, i, c))
<1>1. Len(s) \in Nat /\ DOMAIN s = 1 .. Len(s)
  OBVIOUS
<1>2. (i + 1 \in DOMAIN s <=> i < Len(s)) /\ (i + 2 \in DOMAIN s <=> i + 2 <= Len(s))
  BY <1>1
<1> QED
  BY <1>2 DEF Dumped!At, Next1, Next2

\* How the scanner goes on, outside of code.
LEMMA ScanOutside ==
  ASSUME NEW S, NEW s \in Seq(S), NEW i \in 1 .. Len(s)
  PROVE  /\ \A m \in Modes : Skips(s, i - 1, m) => In(s, i, m)
         /\ In(s, i - 1, "line") => IF s[i] = "newline" THEN In(s, i, "code") ELSE In(s, i, "line")
         /\ In(s, i - 1, "block") =>
              IF s[i] = "*" /\ Next1(s, i, "/") THEN Skips(s, i, "code") ELSE In(s, i, "block")
         /\ \A q \in Dumped!Quotes : In(s, i - 1, q) =>
              IF s[i] = "backslash" \/ (s[i] = q /\ Next1(s, i, q)) THEN Skips(s, i, q) ELSE
              IF s[i] = q THEN In(s, i, "code") ELSE In(s, i, q)
<1>0. Len(s) \in Nat /\ i - 1 \in 0 .. Len(s)
  OBVIOUS
<1>1. Dumped!Scanned(s)[i] = Dumped!Scan(Dumped!Scanned(s)[i - 1], s[i], Dumped!At(s, i + 1), Dumped!At(s, i + 2), i)
  BY <1>0, ScannedIs
<1>2. Dumped!Scanned(s)[i - 1] \in ScanStates
  BY <1>0, ScannedType
<1>3. PICK a, z, now, nxt, aft :
        /\ a = Dumped!Scanned(s)[i - 1] /\ z = Dumped!Scanned(s)[i]
        /\ now = s[i] /\ nxt = Dumped!At(s, i + 1) /\ aft = Dumped!At(s, i + 2)
  OBVIOUS
<1>4. z = Dumped!Scan(a, now, nxt, aft, i) /\ a \in ScanStates
  BY <1>1, <1>2, <1>3
<1>5. /\ \A m \in Modes : a.mode = m /\ a.skip => z.mode = m /\ ~z.skip
      /\ a.mode = "line" /\ ~a.skip =>
           IF now = "newline" THEN z.mode = "code" /\ ~z.skip ELSE z.mode = "line" /\ ~z.skip
      /\ a.mode = "block" /\ ~a.skip =>
           IF now = "*" /\ nxt = "/" THEN z.mode = "code" /\ z.skip ELSE z.mode = "block" /\ ~z.skip
      /\ \A q \in Dumped!Quotes : a.mode = q /\ ~a.skip =>
           IF now = "backslash" \/ (now = q /\ nxt = q) THEN z.mode = q /\ z.skip ELSE
           IF now = q THEN z.mode = "code" /\ ~z.skip ELSE z.mode = q /\ ~z.skip
  <2>1. a = [mode |-> a.mode, skip |-> a.skip, boundary |-> a.boundary] /\ a.mode \in Modes /\ a.skip \in BOOLEAN
    BY <1>4 DEF ScanStates
  <2>2. ASSUME NEW m \in Modes, a.mode = m /\ a.skip PROVE z.mode = m /\ ~z.skip
    BY <1>4, <2>1, <2>2 DEF Dumped!Scan
  <2>3. ASSUME a.mode = "line" /\ ~a.skip
        PROVE  IF now = "newline" THEN z.mode = "code" /\ ~z.skip ELSE z.mode = "line" /\ ~z.skip
    BY <1>4, <2>1, <2>3 DEF Dumped!Scan, Dumped!Quotes
  <2>4. ASSUME a.mode = "block" /\ ~a.skip
        PROVE  IF now = "*" /\ nxt = "/" THEN z.mode = "code" /\ z.skip ELSE z.mode = "block" /\ ~z.skip
    BY <1>4, <2>1, <2>4 DEF Dumped!Scan, Dumped!Quotes
  <2>5. ASSUME NEW q \in Dumped!Quotes, a.mode = q /\ ~a.skip
        PROVE  IF now = "backslash" \/ (now = q /\ nxt = q) THEN z.mode = q /\ z.skip ELSE
               IF now = q THEN z.mode = "code" /\ ~z.skip ELSE z.mode = q /\ ~z.skip
    BY <1>4, <2>1, <2>5 DEF Dumped!Scan, Dumped!Quotes
  <2> QED
    BY <2>2, <2>3, <2>4, <2>5
<1>6. \A q \in Dumped!Quotes \cup {"/"} : nxt = q <=> Next1(s, i, q)
  <2>1. \A q \in Dumped!Quotes \cup {"/"} : q # "end"
    BY DEF Dumped!Quotes
  <2> QED
    BY <1>3, <2>1, AtIs
<1> QED
  BY <1>3, <1>5, <1>6 DEF In, Skips

\* How the scanner goes on in code.
LEMMA ScanInside ==
  ASSUME NEW S, NEW s \in Seq(S), NEW i \in 1 .. Len(s), In(s, i - 1, "code")
  PROVE  LET line == s[i] = "-" /\ Next1(s, i, "-") /\ (Next2(s, i, "blank") \/ Next2(s, i, "newline"))
             block == s[i] = "/" /\ Next1(s, i, "*")
         IN /\ line => Skips(s, i, "line")
            /\ s[i] = "hash" => In(s, i, "line")
            /\ block => Skips(s, i, "block")
            /\ \A q \in Dumped!Quotes : s[i] = q => In(s, i, q)
            /\ ~line /\ s[i] # "hash" /\ ~block /\ s[i] \notin Dumped!Quotes => In(s, i, "code")
<1>0. Len(s) \in Nat /\ i - 1 \in 0 .. Len(s)
  OBVIOUS
<1>1. Dumped!Scanned(s)[i] = Dumped!Scan(Dumped!Scanned(s)[i - 1], s[i], Dumped!At(s, i + 1), Dumped!At(s, i + 2), i)
  BY <1>0, ScannedIs
<1>2. Dumped!Scanned(s)[i - 1] \in ScanStates
  BY <1>0, ScannedType
<1>3. PICK a, z, now, nxt, aft :
        /\ a = Dumped!Scanned(s)[i - 1] /\ z = Dumped!Scanned(s)[i]
        /\ now = s[i] /\ nxt = Dumped!At(s, i + 1) /\ aft = Dumped!At(s, i + 2)
  OBVIOUS
<1>4. z = Dumped!Scan(a, now, nxt, aft, i) /\ a \in ScanStates /\ a.mode = "code" /\ ~a.skip
  BY <1>1, <1>2, <1>3 DEF In
<1> DEFINE ln == now = "-" /\ nxt = "-" /\ aft \in {"blank", "newline"}
           hash == now = "hash"
           bl == now = "/" /\ nxt = "*"
<1>5. z = IF ln THEN [a EXCEPT !.mode = "line", !.skip = TRUE] ELSE
          IF hash THEN [a EXCEPT !.mode = "line"] ELSE
          IF bl THEN [a EXCEPT !.mode = "block", !.skip = TRUE] ELSE
          IF now \in Dumped!Quotes THEN [a EXCEPT !.mode = now] ELSE
          IF now = ";" THEN [a EXCEPT !.boundary = i] ELSE a
  BY <1>4 DEF Dumped!Scan, Dumped!Quotes
<1>6. /\ now \in Dumped!Quotes => ~ln /\ ~bl /\ ~hash
      /\ bl => ~ln /\ ~hash
      /\ hash => ~ln
  BY DEF Dumped!Quotes
<1>7. a = [mode |-> "code", skip |-> FALSE, boundary |-> a.boundary]
  BY <1>4 DEF ScanStates
<1>8. /\ ln => z.mode = "line" /\ z.skip
      /\ hash => z.mode = "line" /\ ~z.skip
      /\ bl => z.mode = "block" /\ z.skip
      /\ \A q \in Dumped!Quotes : now = q => z.mode = q /\ ~z.skip
      /\ ~ln /\ ~hash /\ ~bl /\ now \notin Dumped!Quotes => z.mode = "code" /\ ~z.skip
  <2> HIDE DEF ln, bl, hash
  <2>1. ln => z.mode = "line" /\ z.skip
    BY <1>5, <1>7
  <2>2. bl => z.mode = "block" /\ z.skip
    BY <1>5, <1>6, <1>7
  <2>3. now \in Dumped!Quotes => z.mode = now /\ ~z.skip
    BY <1>5, <1>6, <1>7
  <2>1a. hash => z.mode = "line" /\ ~z.skip
    BY <1>5, <1>6, <1>7
  <2>4. ~ln /\ ~hash /\ ~bl /\ now \notin Dumped!Quotes => z.mode = "code" /\ ~z.skip
    <3>1. ~ln /\ ~hash /\ ~bl /\ now \notin Dumped!Quotes => z \in {a, [a EXCEPT !.boundary = i]}
      BY <1>5
    <3>2. [a EXCEPT !.boundary = i].mode = a.mode /\ [a EXCEPT !.boundary = i].skip = a.skip
      BY <1>4 DEF ScanStates
    <3> QED
      BY <1>4, <3>1, <3>2
  <2> QED
    BY <2>1, <2>1a, <2>2, <2>3, <2>4
<1>9. /\ nxt = "-" <=> Next1(s, i, "-")
      /\ nxt = "*" <=> Next1(s, i, "*")
      /\ aft = "blank" <=> Next2(s, i, "blank")
      /\ aft = "newline" <=> Next2(s, i, "newline")
  <2>1. "-" # "end" /\ "*" # "end" /\ "blank" # "end" /\ "newline" # "end"
    OBVIOUS
  <2> QED
    BY <1>3, <2>1, AtIs
<1>10. (ln <=> s[i] = "-" /\ Next1(s, i, "-") /\ (Next2(s, i, "blank") \/ Next2(s, i, "newline")))
       /\ (bl <=> s[i] = "/" /\ Next1(s, i, "*"))
  BY <1>3, <1>9 DEF ln, bl
<1> QED
  BY <1>3, <1>8, <1>10 DEF In, Skips

\* What is not code remains what it is until it ends, and it ends where code is.
LEMMA Leaves ==
  ASSUME NEW S, NEW s \in Seq(S), NEW m \in Modes \ {"code"}, NEW i \in 0 .. Len(s), NEW n \in i .. Len(s),
         Dumped!Scanned(s)[i].mode = m, Dumped!Scanned(s)[n].mode = "code"
  PROVE  \E e \in i + 1 .. n :
           /\ \A k \in i .. e - 1 : Dumped!Scanned(s)[k].mode = m
           /\ Dumped!Scanned(s)[e].mode = "code" /\ In(s, e - 1, m)
<1> DEFINE M == Dumped!Scanned(s)
           U == {k \in i .. n : M[k].mode = "code"}
<1>1. n \in U /\ U \subseteq Nat
  OBVIOUS
<1> HIDE DEF U
<1>2. PICK e \in U : \A k \in U : e <= k
  BY <1>1, LeastNumber
<1>3. e \in i .. n /\ M[e].mode = "code"
  BY <1>2 DEF U
<1>4. e # i /\ e \in i + 1 .. n
  BY <1>3
<1> DEFINE T == {k \in 0 .. e - 1 : k < i \/ M[k].mode = m}
<1>5. ASSUME NEW k \in 0 .. e - 1, k \in T, k < e - 1 PROVE k + 1 \in T
  <2>1. CASE k + 1 <= i
    <3>1. k + 1 = i \/ k + 1 < i
      BY <2>1
    <3>2. k + 1 \in 0 .. e - 1
      BY <1>4, <1>5
    <3> QED
      BY <3>1, <3>2
  <2>2. CASE ~(k + 1 <= i)
    <3>1. k + 1 \in 1 .. Len(s) /\ (k + 1) - 1 = k /\ k \in 0 .. Len(s) /\ k + 1 \in i .. n /\ k + 1 \in 0 .. e - 1 /\ ~(e <= k + 1)
          /\ ~(k < i)
      BY <1>4, <1>5, <2>2
    <3>2. M[k + 1].mode # "code"
      BY <1>2, <3>1 DEF U
    <3>3. M[k].mode = m
      BY <1>5, <3>1
    <3>4. In(s, k, m) \/ Skips(s, k, m)
      BY <3>3 DEF In, Skips
    <3>5. m \in {"line", "block"} \cup Dumped!Quotes
      BY DEF Modes, Dumped!Quotes
    <3>6. Skips(s, k, m) => In(s, k + 1, m)
      BY <3>1, ScanOutside
    <3>7. In(s, k, m) => In(s, k + 1, m) \/ Skips(s, k + 1, m) \/ In(s, k + 1, "code") \/ Skips(s, k + 1, "code")
      <4>1. m = "line" /\ In(s, k, m) => In(s, k + 1, m) \/ In(s, k + 1, "code")
        BY <3>1, ScanOutside
      <4>2. m = "block" /\ In(s, k, m) => In(s, k + 1, m) \/ Skips(s, k + 1, "code")
        BY <3>1, ScanOutside
      <4>3. m \in Dumped!Quotes /\ In(s, k, m) => In(s, k + 1, m) \/ Skips(s, k + 1, m) \/ In(s, k + 1, "code")
        BY <3>1, ScanOutside
      <4> QED
        BY <3>5, <4>1, <4>2, <4>3
    <3> QED
      BY <3>1, <3>2, <3>4, <3>6, <3>7 DEF In, Skips
  <2> QED
    BY <2>1, <2>2
<1>6. 0 \in T
  BY <1>4
<1> HIDE DEF T
<1>7. \A k \in 0 .. e - 1 : k \in T
  <2>1. e - 1 \in Nat
    BY <1>4
  <2>2. \A k \in 0 .. e - 1 : k \in T /\ k < e - 1 => k + 1 \in T
    BY <1>5
  <2> QED
    BY <1>6, <2>1, <2>2, Upward
<1>8. \A k \in i .. e - 1 : M[k].mode = m
  BY <1>4, <1>7 DEF T
<1>9. In(s, e - 1, m)
  <2>1. M[e - 1].mode = m
    BY <1>4, <1>8
  <2>2. e \in 1 .. Len(s)
    BY <1>4
  <2>3. Skips(s, e - 1, m) => In(s, e, m)
    BY <2>2, ScanOutside
  <2> QED
    BY <1>3, <2>1, <2>3 DEF In, Skips
<1> QED
  BY <1>3, <1>4, <1>8, <1>9

-----------------------------------------------------------------------------
(* Where the scanner is behind a part, the regular expression ends it: what was a *)
(* string or a comment for the scanner when it came to a boundary behind, is one  *)
(* of the same length for them, on the piece and on the whole. *)

\* The scanner is at a semicolon in code.
Cut(s, b) == b \in 1 .. Len(s) /\ s[b] = ";" /\ In(s, b - 1, "code")

\* A string ends where the scanner leaves it.
LEMMA StringFound ==
  ASSUME NEW S, NEW s \in Seq(S), NEW b, Cut(s, b), NEW i \in 1 .. b - 1, In(s, i - 1, "code"), OpensString(s, i)
  PROVE  \E e \in i + 1 .. b - 1 : In(s, e, "code") /\ \A n \in {b, Len(s)} : Dumped!PartEnd(s, i, n) = e
<1>0. Len(s) \in Nat /\ b \in 1 .. Len(s) /\ i \in 1 .. Len(s) /\ b - 1 \in i .. Len(s) /\ i \in 0 .. Len(s)
  <2>1. b \in 1 .. Len(s)
    BY DEF Cut
  <2>2. Len(s) \in Nat
    OBVIOUS
  <2> QED
    BY <2>1, <2>2
<1>1. PICK q : q = s[i] /\ q \in Dumped!Quotes /\ q \in Modes \ {"code"} /\ q # "backslash"
  BY DEF OpensString, Dumped!Quotes, Modes
<1>2. In(s, i, q)
  BY <1>0, <1>1, ScanInside
<1>3. Dumped!Scanned(s)[i].mode = q /\ Dumped!Scanned(s)[b - 1].mode = "code"
  BY <1>2 DEF In, Cut
<1>4. PICK e \in i + 1 .. b - 1 :
        /\ \A k \in i .. e - 1 : Dumped!Scanned(s)[k].mode = q
        /\ Dumped!Scanned(s)[e].mode = "code" /\ In(s, e - 1, q)
  <2>1. PICK c : c = b - 1
    OBVIOUS
  <2>2. /\ q \in Modes \ {"code"} /\ i \in 0 .. Len(s) /\ c \in i .. Len(s) /\ s \in Seq(S)
        /\ Dumped!Scanned(s)[i].mode = q /\ Dumped!Scanned(s)[c].mode = "code"
    BY <1>0, <1>1, <1>3, <2>1
  <2>3. \E e \in i + 1 .. c :
          /\ \A k \in i .. e - 1 : Dumped!Scanned(s)[k].mode = q
          /\ Dumped!Scanned(s)[e].mode = "code" /\ In(s, e - 1, q)
    BY ONLY <2>2, Leaves
  <2> QED
    BY ONLY <2>1, <2>3
<1>5. e \in 1 .. Len(s) /\ e \in Nat /\ e < b /\ e < Len(s)
  BY <1>0
<1>6. s[e] = q /\ In(s, e, "code") /\ ~Next1(s, e, q)
  <2>1. IF s[e] = "backslash" \/ (s[e] = q /\ Next1(s, e, q)) THEN Skips(s, e, q) ELSE
        IF s[e] = q THEN In(s, e, "code") ELSE In(s, e, q)
    BY <1>1, <1>4, <1>5, ScanOutside
  <2>2. ~Skips(s, e, q) /\ ~In(s, e, q)
    BY <1>1, <1>4 DEF Skips, In
  <2> QED
    BY <2>1, <2>2
<1>7. ASSUME NEW n \in {b, Len(s)} PROVE Dumped!StringEnds(s, q, n)[i + 1] = e
  <2> DEFINE g == Dumped!StringEnds(s, q, n)
             T == {k \in 0 .. e : k >= i + 1 /\ In(s, k - 1, q) => g[k] = e}
  <2>0. n \in Nat /\ e < n /\ n <= Len(s)
    BY <1>0, <1>5
  <2>1. \A k \in Nat : g[k] = EndBody(g, s, q, n, k)
    BY <2>0, StringEndsAre
  <2> HIDE DEF g
  <2>2. ASSUME NEW k \in 0 .. e, \A j \in k + 1 .. e : j \in T PROVE k \in T
    <3> SUFFICES ASSUME k >= i + 1, In(s, k - 1, q) PROVE g[k] = e
      OBVIOUS
    <3>0. k \in Nat /\ k \in 1 .. Len(s) /\ k <= e /\ k < n /\ ~(k > n)
      BY <1>5, <2>0
    <3>1. g[k] = EndBody(g, s, q, n, k)
      BY <2>1, <3>0
    <3>2. IF s[k] = "backslash" \/ (s[k] = q /\ Next1(s, k, q)) THEN Skips(s, k, q) ELSE
          IF s[k] = q THEN In(s, k, "code") ELSE In(s, k, q)
      BY <1>1, <3>0, ScanOutside
    <3>3. Next1(s, k, q) <=> s[k + 1] = q
      BY <1>5, <3>0 DEF Next1
    <3>4. CASE k = e
      <4>1. ~(s[k + 1] = q) /\ s[k] = q
        BY <1>6, <3>3, <3>4
      <4> QED
        BY <1>1, <3>0, <3>1, <3>4, <4>1 DEF EndBody
    <3>5. CASE k # e
      <4>0. k < e /\ k \in i .. e - 1
        BY <3>0, <3>5
      <4>1. Dumped!Scanned(s)[k].mode = q
        BY <1>4, <4>0
      <4>2. In(s, k, q) => g[k + 1] = e
        <5>1. k + 1 \in k + 1 .. e /\ (k + 1) - 1 = k /\ k + 1 >= i + 1
          BY <4>0, <1>5
        <5>2. k + 1 \in T
          BY <2>2, <5>1
        <5> QED
          BY <5>1, <5>2
      <4>3. Skips(s, k, q) => k + 2 <= e /\ In(s, k + 1, q) /\ g[k + 2] = e
        <5> SUFFICES ASSUME Skips(s, k, q) PROVE k + 2 <= e /\ In(s, k + 1, q) /\ g[k + 2] = e
          OBVIOUS
        <5>1. k # e - 1
          BY <1>4 DEF Skips, In
        <5>2. k + 2 \in k + 1 .. e /\ k + 2 >= i + 1 /\ (k + 2) - 1 = k + 1 /\ k + 1 \in 1 .. Len(s) /\ (k + 1) - 1 = k
              /\ k + 2 <= e
          BY <1>5, <4>0, <5>1
        <5>3. In(s, k + 1, q)
          BY <1>1, <5>2, ScanOutside
        <5>4. k + 2 \in T
          BY <2>2, <5>2
        <5> QED
          BY <5>2, <5>3, <5>4
      <4>4. e # 0
        BY <1>5
      <4>5. CASE s[k] = "backslash"
        <5>1. Skips(s, k, q)
          BY <3>2, <4>5
        <5>2. CASE s[k + 1] # "newline"
          BY <3>0, <3>1, <4>3, <4>4, <4>5, <5>1, <5>2 DEF EndBody
        <5>3. CASE s[k + 1] = "newline"
          <6>1. s[k] # q /\ s[k + 1] # q /\ s[k + 1] # "backslash"
            BY <1>1, <4>5, <5>3 DEF Dumped!Quotes
          <6>2. k + 1 \in Nat /\ ~(k + 1 > n) /\ (k + 1) + 1 = k + 2
            BY <1>5, <2>0, <3>0, <4>0
          <6>3. g[k + 1] = EndBody(g, s, q, n, k + 1)
            BY <2>1, <6>2
          <6>4. g[k + 1] = g[k + 2]
            BY <6>1, <6>2, <6>3 DEF EndBody
          <6> QED
            BY <3>0, <3>1, <4>3, <4>4, <5>1, <5>3, <6>1, <6>4 DEF EndBody
        <5> QED
          BY <5>2, <5>3
      <4>6. CASE s[k] # "backslash" /\ s[k] = q
        <5>1. ~In(s, k, "code")
          BY <1>1, <4>1 DEF In
        <5>2. Skips(s, k, q) /\ s[k + 1] = q
          BY <3>2, <3>3, <4>6, <5>1
        <5> QED
          BY <3>0, <3>1, <4>3, <4>4, <4>6, <5>2 DEF EndBody
      <4>7. CASE s[k] # "backslash" /\ s[k] # q
        <5>1. In(s, k, q)
          BY <3>2, <4>7
        <5> QED
          BY <3>0, <3>1, <4>2, <4>4, <4>7, <5>1 DEF EndBody
      <4> QED
        BY <4>5, <4>6, <4>7
    <3> QED
      BY <3>4, <3>5
  <2> HIDE DEF T
  <2>3. \A k \in 0 .. e : k \in T
    BY <1>5, <2>2, Downward
  <2>4. i + 1 \in 0 .. e /\ i + 1 >= i + 1 /\ (i + 1) - 1 = i
    BY <1>4
  <2>5. i + 1 \in T
    BY <2>3, <2>4
  <2> QED
    BY <1>2, <2>4, <2>5 DEF T, g
<1>8. ASSUME NEW n \in {b, Len(s)} PROVE Dumped!PartEnd(s, i, n) = e
  <2>1. n \in Nat /\ i \in Nat
    BY <1>0
  <2>2. Dumped!PartEnd(s, i, n) = Dumped!StringEnds(s, s[i], n)[i + 1]
    BY <2>1, PartEndIs
  <2> QED
    BY <1>1, <1>7, <2>2
<1> QED
  BY <1>6, <1>8

\* So does a comment.
LEMMA BlockFound ==
  ASSUME NEW S, NEW s \in Seq(S), NEW b, Cut(s, b), NEW i \in 1 .. b - 1, In(s, i - 1, "code"),
         OpensBlock(s, i, Len(s))
  PROVE  \E e \in i + 3 .. b - 1 : In(s, e, "code") /\ \A n \in {b, Len(s)} : Dumped!PartEnd(s, i, n) = e
<1>0. Len(s) \in Nat /\ b \in 1 .. Len(s) /\ i \in 1 .. Len(s) /\ b - 1 \in i .. Len(s) /\ i \in 0 .. Len(s)
  <2>1. b \in 1 .. Len(s)
    BY DEF Cut
  <2>2. Len(s) \in Nat
    OBVIOUS
  <2> QED
    BY <2>1, <2>2
<1>1. s[i] = "/" /\ s[i + 1] = "*" /\ i < Len(s)
  BY DEF OpensBlock
<1>2. Skips(s, i, "block")
  BY <1>0, <1>1, ScanInside DEF Next1
<1>3. "block" \in Modes \ {"code"}
  BY DEF Modes
<1>4. Dumped!Scanned(s)[i].mode = "block" /\ Dumped!Scanned(s)[b - 1].mode = "code"
  BY <1>2 DEF Skips, In, Cut
<1>5. PICK e \in i + 1 .. b - 1 :
        /\ \A k \in i .. e - 1 : Dumped!Scanned(s)[k].mode = "block"
        /\ Dumped!Scanned(s)[e].mode = "code" /\ In(s, e - 1, "block")
  <2>1. PICK c, m : c = b - 1 /\ m = "block"
    OBVIOUS
  <2>2. /\ m \in Modes \ {"code"} /\ i \in 0 .. Len(s) /\ c \in i .. Len(s) /\ s \in Seq(S)
        /\ Dumped!Scanned(s)[i].mode = m /\ Dumped!Scanned(s)[c].mode = "code"
    BY <1>0, <1>3, <1>4, <2>1
  <2>3. \E e \in i + 1 .. c :
          /\ \A k \in i .. e - 1 : Dumped!Scanned(s)[k].mode = m
          /\ Dumped!Scanned(s)[e].mode = "code" /\ In(s, e - 1, m)
    BY ONLY <2>2, Leaves
  <2> QED
    BY ONLY <2>1, <2>3
<1>6. e \in 1 .. Len(s) /\ e \in Nat /\ e < b /\ e < Len(s) /\ e >= i + 2
  <2>1. e # i + 1
    BY <1>2, <1>5 DEF Skips, In
  <2> QED
    BY <1>0, <2>1
<1>7. s[e] = "*" /\ Next1(s, e, "/") /\ Skips(s, e, "code")
  <2>1. IF s[e] = "*" /\ Next1(s, e, "/") THEN Skips(s, e, "code") ELSE In(s, e, "block")
    BY <1>5, <1>6, ScanOutside
  <2>2. ~In(s, e, "block")
    BY <1>5 DEF In
  <2> QED
    BY <2>1, <2>2
<1>8. e + 1 \in i + 3 .. b - 1 /\ s[e + 1] = "/" /\ In(s, e + 1, "code")
  <2>1. e # b - 1
    BY <1>7 DEF Skips, In, Cut
  <2>2. e + 1 \in i + 3 .. b - 1 /\ e + 1 \in 1 .. Len(s) /\ (e + 1) - 1 = e
    BY <1>0, <1>6, <2>1
  <2>3. "code" \in Modes
    BY DEF Modes
  <2>4. In(s, e + 1, "code")
    BY <1>7, <2>2, <2>3, ScanOutside
  <2> QED
    BY <1>7, <2>2, <2>4 DEF Next1
\* Before, the scanner has not seen the end of it.
<1>9. ASSUME NEW k \in i + 1 .. e - 1 PROVE In(s, k, "block")
  <2> DEFINE T == {l \in 0 .. e - 1 : l < i + 1 \/ In(s, l, "block")}
  <2>1. ASSUME NEW l \in 0 .. e - 1, l \in T, l < e - 1 PROVE l + 1 \in T
    <3>1. l + 1 \in 0 .. e - 1 /\ l + 1 \in 1 .. Len(s) /\ (l + 1) - 1 = l
      BY <1>6, <2>1
    <3>2. CASE l < i
      <4>1. l + 1 < i + 1
        BY <3>2, <1>0
      <4> QED
        BY <3>1, <4>1
    <3>3. CASE l = i
      <4>1. In(s, l + 1, "block")
        BY <1>2, <1>3, <3>1, <3>3, ScanOutside
      <4> QED
        BY <3>1, <4>1
    <3>4. CASE l > i
      <4>1. ~(l < i + 1) /\ l + 1 \in i .. e - 1
        BY <3>1, <3>4, <1>0
      <4>2. In(s, l, "block") /\ Dumped!Scanned(s)[l + 1].mode = "block"
        BY <1>5, <2>1, <4>1
      <4>3. IF s[l + 1] = "*" /\ Next1(s, l + 1, "/") THEN Skips(s, l + 1, "code") ELSE In(s, l + 1, "block")
        BY <3>1, <4>2, ScanOutside
      <4>4. ~Skips(s, l + 1, "code")
        BY <4>2 DEF Skips
      <4>5. In(s, l + 1, "block")
        BY <4>3, <4>4
      <4> QED
        BY <3>1, <4>5
    <3>5. l < i \/ l = i \/ l > i
      BY <1>0
    <3> QED
      BY <3>2, <3>3, <3>4, <3>5
  <2>2. 0 \in T /\ e - 1 \in Nat
    BY <1>0, <1>6
  <2> HIDE DEF T
  <2>3. \A l \in 0 .. e - 1 : l \in T
    <3>1. \A l \in 0 .. e - 1 : l \in T /\ l < e - 1 => l + 1 \in T
      BY <2>1
    <3> QED
      BY <2>2, <3>1, Upward
  <2>4. k \in 0 .. e - 1 /\ ~(k < i + 1)
    BY <1>0
  <2> QED
    BY <2>3, <2>4 DEF T
<1>10. ASSUME NEW n \in {b, Len(s)} PROVE Dumped!PartEnd(s, i, n) = e + 1
  <2>1. n \in Nat /\ i \in Nat /\ i < n /\ e + 1 <= n - 1 + 1 /\ e + 1 <= n /\ n <= Len(s) /\ b <= n
    BY <1>0, <1>8
  <2>2. OpensBlock(s, i, n)
    BY <1>1, <2>1 DEF OpensBlock
  <2>3. Dumped!PartEnd(s, i, n) = Dumped!FirstIn(BlockEnds(s, i, n))
    BY <2>1, <2>2, PartEndIs
  <2>4. e + 1 \in BlockEnds(s, i, n)
    <3>1. Dumped!Is(s, e, n, <<"*", "/">>)
      BY <1>6, <1>7, <1>8, <2>1, WordsAre
    <3>2. e \in i + 2 .. n - 1
      BY <1>6, <1>8, <2>1
    <3> QED
      BY <3>1, <3>2 DEF BlockEnds
  <2>5. BlockEnds(s, i, n) \subseteq Nat
    BY DEF BlockEnds
  <2>6. ASSUME NEW l \in BlockEnds(s, i, n) PROVE e + 1 <= l
    <3>1. PICK k \in i + 2 .. n - 1 : l = k + 1 /\ Dumped!Is(s, k, n, <<"*", "/">>)
      BY <2>6 DEF BlockEnds
    <3>2. k \in Nat /\ s[k] = "*" /\ s[k + 1] = "/"
      BY <2>1, <3>1, WordsAre
    <3>3. ASSUME k < e PROVE FALSE
      <4>1. k - 1 \in i + 1 .. e - 1 /\ k \in i + 1 .. e - 1 /\ k \in 1 .. Len(s) /\ k < Len(s)
        BY <1>6, <3>1, <3>2, <3>3
      <4>2. In(s, k - 1, "block") /\ In(s, k, "block")
        BY <1>9, <4>1
      <4>3. Skips(s, k, "code")
        BY <3>2, <4>1, <4>2, ScanOutside DEF Next1
      <4> QED
        BY <4>2, <4>3 DEF In, Skips
    <3> QED
      BY <1>6, <3>1, <3>2, <3>3
  <2> QED
    BY <2>3, <2>4, <2>5, <2>6, FirstIs
<1> QED
  BY <1>8, <1>10

\* A comment that starts at i ends before the end of a line, from f on, before b.
LineFoundAt(s, b, i, f) ==
  \E e \in f .. b - 2 :
    In(s, e, "line") /\ s[e + 1] = "newline" /\ \A n \in {b, Len(s)} : Dumped!PartEnd(s, i, n) = e

\* A comment at the end of a line ends where the scanner leaves it.
LEMMA LineFound ==
  ASSUME NEW S, NEW s \in Seq(S), NEW b, Cut(s, b), NEW i \in 1 .. b - 1, In(s, i - 1, "code"),
         NEW f, (OpensDashes(s, i, Len(s)) /\ f = i + 2) \/ (OpensHash(s, i) /\ f = i)
  PROVE  LineFoundAt(s, b, i, f)
<1>0. Len(s) \in Nat /\ b \in 1 .. Len(s) /\ i \in 1 .. Len(s) /\ b - 1 \in i .. Len(s) /\ i \in 0 .. Len(s)
  <2>1. b \in 1 .. Len(s)
    BY DEF Cut
  <2>2. Len(s) \in Nat
    OBVIOUS
  <2> QED
    BY <2>1, <2>2
<1>1. OpensDashes(s, i, Len(s)) => s[i] = "-" /\ s[i + 1] = "-" /\ s[i + 2] = "blank" /\ i + 2 <= Len(s) /\ i < Len(s)
  BY <1>0 DEF OpensDashes
<1>2. \/ OpensDashes(s, i, Len(s)) /\ f = i + 2 /\ Skips(s, i, "line")
      \/ OpensHash(s, i) /\ f = i /\ In(s, i, "line")
  <2>1. OpensDashes(s, i, Len(s)) => Skips(s, i, "line")
    BY <1>0, <1>1, ScanInside DEF Next1, Next2
  <2>2. OpensHash(s, i) => In(s, i, "line")
    BY <1>0, ScanInside DEF OpensHash
  <2> QED
    BY <2>1, <2>2
<1>3. "line" \in Modes \ {"code"}
  BY DEF Modes
<1>4. Dumped!Scanned(s)[i].mode = "line" /\ Dumped!Scanned(s)[b - 1].mode = "code"
  BY <1>2 DEF Skips, In, Cut
<1>5. PICK e \in i + 1 .. b - 1 :
        /\ \A k \in i .. e - 1 : Dumped!Scanned(s)[k].mode = "line"
        /\ Dumped!Scanned(s)[e].mode = "code" /\ In(s, e - 1, "line")
  <2>1. PICK c, m : c = b - 1 /\ m = "line"
    OBVIOUS
  <2>2. /\ m \in Modes \ {"code"} /\ i \in 0 .. Len(s) /\ c \in i .. Len(s) /\ s \in Seq(S)
        /\ Dumped!Scanned(s)[i].mode = m /\ Dumped!Scanned(s)[c].mode = "code"
    BY <1>0, <1>3, <1>4, <2>1
  <2>3. \E e \in i + 1 .. c :
          /\ \A k \in i .. e - 1 : Dumped!Scanned(s)[k].mode = m
          /\ Dumped!Scanned(s)[e].mode = "code" /\ In(s, e - 1, m)
    BY ONLY <2>2, Leaves
  <2> QED
    BY ONLY <2>1, <2>3
<1>6. e \in 1 .. Len(s) /\ e \in Nat /\ e < b
  BY <1>0
<1>7. s[e] = "newline"
  <2>1. IF s[e] = "newline" THEN In(s, e, "code") ELSE In(s, e, "line")
    BY <1>5, <1>6, ScanOutside
  <2>2. ~In(s, e, "line")
    BY <1>5 DEF In
  <2> QED
    BY <2>1, <2>2
<1>8. e >= f + 1 /\ f \in i .. i + 2
  <2>1. CASE OpensDashes(s, i, Len(s)) /\ f = i + 2 /\ Skips(s, i, "line")
    <3>1. e # i + 1
      BY <1>5, <2>1 DEF Skips, In
    <3>2. e # i + 2
      BY <1>1, <1>7, <2>1
    <3> QED
      BY <1>0, <2>1, <3>1, <3>2
  <2>2. CASE f = i
    BY <1>0, <2>2
  <2> QED
    BY <1>2, <2>1, <2>2
<1>9. ASSUME NEW k \in i + 1 .. e - 1 PROVE In(s, k, "line")
  <2> DEFINE T == {l \in 0 .. e - 1 : l < i + 1 \/ In(s, l, "line")}
  <2>1. ASSUME NEW l \in 0 .. e - 1, l \in T, l < e - 1 PROVE l + 1 \in T
    <3>1. l + 1 \in 0 .. e - 1 /\ l + 1 \in 1 .. Len(s) /\ (l + 1) - 1 = l
      BY <1>6, <2>1
    <3>2. CASE l < i
      <4>1. l + 1 < i + 1
        BY <3>2, <1>0
      <4> QED
        BY <3>1, <4>1
    <3>3. CASE l = i
      <4>1. In(s, l + 1, "line")
        <5>1. CASE Skips(s, i, "line")
          BY <1>3, <3>1, <3>3, <5>1, ScanOutside
        <5>2. CASE In(s, i, "line")
          <6>1. In(s, l + 1, "code") \/ In(s, l + 1, "line")
            BY <3>1, <3>3, <5>2, ScanOutside
          <6>2. Dumped!Scanned(s)[l + 1].mode = "line"
            BY <1>0, <1>5, <3>1, <3>3
          <6> QED
            BY <6>1, <6>2 DEF In
        <5> QED
          BY <1>2, <5>1, <5>2
      <4> QED
        BY <3>1, <4>1
    <3>4. CASE l > i
      <4>1. ~(l < i + 1) /\ l + 1 \in i .. e - 1
        BY <3>1, <3>4, <1>0
      <4>2. In(s, l, "line") /\ Dumped!Scanned(s)[l + 1].mode = "line"
        BY <1>5, <2>1, <4>1
      <4>3. IF s[l + 1] = "newline" THEN In(s, l + 1, "code") ELSE In(s, l + 1, "line")
        BY <3>1, <4>2, ScanOutside
      <4>4. ~In(s, l + 1, "code")
        BY <4>2 DEF In
      <4>5. In(s, l + 1, "line")
        BY <4>3, <4>4
      <4> QED
        BY <3>1, <4>5
    <3>5. l < i \/ l = i \/ l > i
      BY <1>0
    <3> QED
      BY <3>2, <3>3, <3>4, <3>5
  <2>2. 0 \in T /\ e - 1 \in Nat
    BY <1>0, <1>6
  <2> HIDE DEF T
  <2>3. \A l \in 0 .. e - 1 : l \in T
    <3>1. \A l \in 0 .. e - 1 : l \in T /\ l < e - 1 => l + 1 \in T
      BY <2>1
    <3> QED
      BY <2>2, <3>1, Upward
  <2>4. k \in 0 .. e - 1 /\ ~(k < i + 1)
    BY <1>0
  <2> QED
    BY <2>3, <2>4 DEF T
<1>10. ASSUME NEW n \in {b, Len(s)} PROVE Dumped!PartEnd(s, i, n) = e - 1
  <2>1. n \in Nat /\ i \in Nat /\ f \in Nat /\ e < n /\ n <= Len(s)
    BY <1>0, <1>6, <1>8
  <2>2. Dumped!PartEnd(s, i, n) = Dumped!FirstIn(LineEnds(s, f, n))
    <3>1. CASE OpensDashes(s, i, Len(s)) /\ f = i + 2
      <4>1. i + 2 <= n
        BY <1>8, <2>1, <3>1
      <4>2. OpensDashes(s, i, n)
        BY <1>1, <3>1, <4>1 DEF OpensDashes
      <4> QED
        BY <2>1, <3>1, <4>2, PartEndIs
    <3>2. CASE OpensHash(s, i) /\ f = i
      BY <2>1, <3>2, PartEndIs
    <3> QED
      BY <3>1, <3>2
  <2>4. e - 1 \in LineEnds(s, f, n)
    <3>1. e - 1 \in f .. n /\ (e - 1) + 1 = e
      BY <1>6, <1>8, <2>1
    <3> QED
      BY <1>7, <3>1 DEF LineEnds
  <2>5. LineEnds(s, f, n) \subseteq Nat
    BY <2>1 DEF LineEnds
  <2>6. ASSUME NEW l \in LineEnds(s, f, n) PROVE e - 1 <= l
    <3>1. l \in f .. n /\ (l = n \/ s[l + 1] = "newline")
      BY <2>6 DEF LineEnds
    <3>2. ASSUME l < e - 1 PROVE FALSE
      <4>1. l \in i .. e - 1 /\ l + 1 \in i + 1 .. e - 1 /\ l + 1 \in 1 .. Len(s) /\ (l + 1) - 1 = l /\ l # n
        BY <1>0, <1>6, <1>8, <2>1, <3>1, <3>2
      <4>2. In(s, l + 1, "line")
        BY <1>9, <4>1
      <4>3. In(s, l, "line")
        <5>1. CASE l = i
          <6>1. f # i + 2
            BY <2>1, <3>1, <5>1
          <6> QED
            BY <1>2, <5>1, <6>1
        <5>2. CASE l # i
          <6>1. l \in i + 1 .. e - 1
            BY <2>1, <4>1, <5>2
          <6> QED
            BY <1>9, <6>1
        <5> QED
          BY <5>1, <5>2
      <4>4. In(s, l + 1, "code")
        BY <3>1, <4>1, <4>3, ScanOutside
      <4> QED
        BY <4>2, <4>4 DEF In
    <3> QED
      BY <1>6, <2>1, <3>1, <3>2
  <2> QED
    BY <2>2, <2>4, <2>5, <2>6, FirstIs
<1>11. e - 1 \in f .. b - 2 /\ (e - 1) + 1 = e /\ In(s, e - 1, "line")
  BY <1>5, <1>6, <1>8, <1>0
<1> QED
  BY <1>7, <1>10, <1>11 DEF LineFoundAt

\* The scanner and the regular expressions agree that i is no part of something that
\* began before: it is code for both, or the scanner is in a name in backticks, or in a
\* comment that is empty and none to the regular expressions.
Agree(s, i) ==
  \/ In(s, i - 1, "code")
  \/ Dumped!Scanned(s)[i - 1].mode = "backtick"
  \/ Skips(s, i - 1, "line") /\ s[i] = "-" /\ s[i + 1] = "newline"
  \/ In(s, i - 1, "line") /\ s[i] = "newline"

\* What is code on both sides.
Splits(s, i, b) ==
  Dumped!Codes(s)[<<i, Len(s)>>] = Dumped!Codes(s)[<<i, b>>] \cup Dumped!Codes(s)[<<b + 1, Len(s)>>]

\* A name in backticks is code.
LEMMA NameIsCode ==
  ASSUME NEW s, Len(s) \in Nat, DOMAIN s = 1 .. Len(s), Dumped!NamesArePlain(s), NEW i \in 1 .. Len(s),
         Dumped!Scanned(s)[i - 1].mode = "backtick"
  PROVE  ~OpensString(s, i) /\ ~OpensBlock(s, i, Len(s)) /\ ~OpensDashes(s, i, Len(s)) /\ ~OpensHash(s, i)
<1>1. /\ s[i] \notin {"'", "double", "hash"}
      /\ \A word \in {<<"/", "*">>, <<"-", "-", "blank">>} : ~Dumped!Is(s, i, Len(s), word)
  BY DEF Dumped!NamesArePlain
<1>2. ~Dumped!Is(s, i, Len(s), <<"/", "*">>) /\ ~Dumped!Is(s, i, Len(s), <<"-", "-", "blank">>)
  BY <1>1
<1>3. i \in Nat
  OBVIOUS
<1>4. i + 1 <= Len(s) <=> i < Len(s)
  OBVIOUS
<1> QED
  BY <1>1, <1>2, <1>3, <1>4, WordsAre DEF OpensString, OpensBlock, OpensDashes, OpensHash

\* Neither a string nor a comment goes over a boundary: what is code in the piece and
\* what is code behind it is what is code.
LEMMA BoundarySplits ==
  ASSUME NEW S, NEW s \in Seq(S), NEW b, Cut(s, b), Dumped!NamesArePlain(s)
  PROVE  \A i \in 1 .. b : Agree(s, i) => Splits(s, i, b)
<1> DEFINE N == Len(s)
           g == Dumped!Codes(s)
           Split(i) == g[<<i, N>>] = g[<<i, b>>] \cup g[<<b + 1, N>>]
           T == {i \in 0 .. b : i # 0 /\ Agree(s, i) => Split(i)}
           v(i, n) == Dumped!Is(s, i, n, <<"/", "*", "!">>)
<1>0. N \in Nat /\ b \in 1 .. N /\ b \in Nat
  <2>1. b \in 1 .. Len(s)
    BY DEF Cut
  <2>2. Len(s) \in Nat
    OBVIOUS
  <2> QED
    BY <2>1, <2>2
<1>1. \A i \in 1 .. N + 1 : \A n \in 0 .. N : g[<<i, n>>] = CodeBody(g, s, i, n)
  BY <1>0, CodesAre
<1> HIDE DEF g
<1>2. ASSUME NEW i \in 1 .. b, i < b, Dumped!PartEnd(s, i, b) = 0, Dumped!PartEnd(s, i, N) = 0, Split(i + 1)
      PROVE  Split(i)
  <2>1. i \in 1 .. N + 1 /\ b \in 0 .. N /\ N \in 0 .. N /\ ~(i > b) /\ ~(i > N)
    BY <1>0
  <2>2. g[<<i, b>>] = {i} \cup g[<<i + 1, b>>]
    BY <1>1, <1>2, <2>1 DEF CodeBody
  <2>3. g[<<i, N>>] = {i} \cup g[<<i + 1, N>>]
    BY <1>1, <1>2, <2>1 DEF CodeBody
  <2> QED
    BY <1>2, <2>2, <2>3
<1>3. ASSUME NEW i \in 1 .. b, NEW e \in i .. b - 1, Dumped!PartEnd(s, i, b) = e, Dumped!PartEnd(s, i, N) = e,
             v(i, b) <=> v(i, N), Split(e + 1)
      PROVE  Split(i)
  <2>1. i \in 1 .. N + 1 /\ b \in 0 .. N /\ N \in 0 .. N /\ ~(i > b) /\ ~(i > N) /\ e # 0
    BY <1>0
  <2>2. g[<<i, b>>] = (IF v(i, N) THEN g[<<i + 3, e - 2>>] ELSE {}) \cup g[<<e + 1, b>>]
    <3>1. g[<<i, b>>] = CodeBody(g, s, i, b)
      BY <1>1, <2>1
    <3> HIDE DEF v
    <3> QED
      BY <1>3, <2>1, <3>1 DEF CodeBody, v
  <2>3. g[<<i, N>>] = (IF v(i, N) THEN g[<<i + 3, e - 2>>] ELSE {}) \cup g[<<e + 1, N>>]
    <3>1. g[<<i, N>>] = CodeBody(g, s, i, N)
      BY <1>1, <2>1
    <3> QED
      BY <1>3, <2>1, <3>1 DEF CodeBody
  <2> HIDE DEF v
  <2> QED
    BY <1>3, <2>2, <2>3
<1>4. ASSUME NEW i \in 0 .. b, \A j \in i + 1 .. b : j \in T PROVE i \in T
  <2> SUFFICES ASSUME i # 0, Agree(s, i) PROVE Split(i)
    OBVIOUS
  <2>0. i \in 1 .. b /\ i \in 1 .. N /\ i \in Nat /\ i - 1 \in 0 .. N
    BY <1>0
  <2> DEFINE Plain == ~OpensString(s, i) /\ ~OpensBlock(s, i, N) /\ ~OpensDashes(s, i, N) /\ ~OpensHash(s, i)
  <2>1. CASE i = b
    <3>1. s[i] = ";"
      BY <2>1 DEF Cut
    <3>2. ~OpensString(s, i) /\ ~OpensHash(s, i) /\ (\A n : ~OpensBlock(s, i, n) /\ ~OpensDashes(s, i, n))
      BY <3>1 DEF OpensString, OpensBlock, OpensDashes, OpensHash
    <3>3. Dumped!PartEnd(s, i, b) = 0 /\ Dumped!PartEnd(s, i, N) = 0
      BY <1>0, <2>0, <3>2, PartEndIs
    <3>4. i \in 1 .. N + 1 /\ i + 1 \in 1 .. N + 1 /\ b \in 0 .. N /\ N \in 0 .. N /\ ~(i > b) /\ ~(i > N) /\ i + 1 > b
      BY <1>0, <2>1
    <3>5. g[<<i, b>>] = {i} \cup g[<<i + 1, b>>]
      BY <1>1, <3>3, <3>4 DEF CodeBody
    <3>6. g[<<i, N>>] = {i} \cup g[<<i + 1, N>>]
      BY <1>1, <3>3, <3>4 DEF CodeBody
    <3>7. g[<<i + 1, b>>] = {}
      BY <1>1, <3>4 DEF CodeBody
    <3> QED
      BY <2>1, <3>5, <3>6, <3>7
  <2>2. CASE i # b
    <3>0. i < b /\ i \in 1 .. b - 1 /\ i < N /\ i + 1 \in 1 .. b /\ i + 1 \in i + 1 .. b /\ (i + 1) - 1 = i /\ i + 1 # 0
      BY <1>0, <2>0, <2>2
    \* One character of code.
    <3>1. ASSUME Plain, Agree(s, i + 1) PROVE Split(i)
      <4>1. ~OpensBlock(s, i, b) /\ ~OpensDashes(s, i, b)
        <5>1. i + 2 <= b => i + 2 <= N
          BY <1>0, <2>0
        <5> QED
          BY <3>0, <3>1, <5>1 DEF OpensBlock, OpensDashes
      <4>2. Dumped!PartEnd(s, i, b) = 0 /\ Dumped!PartEnd(s, i, N) = 0
        BY <1>0, <2>0, <3>1, <4>1, PartEndIs
      <4>3. Split(i + 1)
        BY <1>4, <3>0, <3>1
      <4> HIDE DEF Split
      <4> QED
        BY <1>2, <2>0, <3>0, <4>2, <4>3
    \* A part.
    <3>2. ASSUME NEW e \in i .. b - 1, \A n \in {b, N} : Dumped!PartEnd(s, i, n) = e, Agree(s, e + 1),
                 v(i, b) <=> v(i, N)
          PROVE  Split(i)
      <4>1. e + 1 \in i + 1 .. b /\ e + 1 # 0
        BY <1>0, <2>0
      <4>2. Split(e + 1)
        BY <1>4, <3>2, <4>1
      <4> HIDE DEF Split, v
      <4> QED
        BY <1>3, <2>0, <3>2, <4>2
    <3>3. ASSUME NEW c, Dumped!Is(s, i, c, <<"/", "*", "!">>), c \in {b, N} PROVE OpensBlock(s, i, N)
      <4>1. c \in Nat /\ s[i] = "/" /\ s[i + 1] = "*"
        BY <1>0, <2>0, <3>3, WordsAre
      <4> QED
        BY <3>0, <4>1 DEF OpensBlock
    <3>4. CASE In(s, i - 1, "code") /\ OpensString(s, i)
      <4>1. PICK e \in i + 1 .. b - 1 : In(s, e, "code") /\ \A n \in {b, N} : Dumped!PartEnd(s, i, n) = e
        BY <3>0, <3>4, StringFound
      <4>2. ~v(i, b) /\ ~v(i, N)
        BY <3>3, <3>4 DEF OpensString, OpensBlock
      <4>3. (e + 1) - 1 = e /\ e \in i .. b - 1
        BY <1>0, <2>0
      <4>4. Agree(s, e + 1)
        BY <4>1, <4>3 DEF Agree
      <4> HIDE DEF Split, v
      <4> QED
        BY <3>2, <4>1, <4>2, <4>3, <4>4
    <3>5. CASE In(s, i - 1, "code") /\ OpensBlock(s, i, N)
      <4>1. PICK e \in i + 3 .. b - 1 : In(s, e, "code") /\ \A n \in {b, N} : Dumped!PartEnd(s, i, n) = e
        BY <3>0, <3>5, BlockFound
      <4>2. v(i, b) <=> v(i, N)
        <5>1. i + 2 <= b /\ i + 2 <= N
          BY <1>0, <2>0, <4>1
        <5>2. b \in Nat /\ N \in Nat
          BY <1>0
        <5> QED
          BY <2>0, <5>1, <5>2, WordsAre
      <4>3. (e + 1) - 1 = e /\ e \in i .. b - 1
        BY <1>0, <2>0
      <4>4. Agree(s, e + 1)
        BY <4>1, <4>3 DEF Agree
      <4> HIDE DEF Split, v
      <4> QED
        BY <3>2, <4>1, <4>2, <4>3, <4>4
    <3>6. CASE In(s, i - 1, "code") /\ (OpensDashes(s, i, N) \/ OpensHash(s, i))
      <4>1. PICK f : (OpensDashes(s, i, N) /\ f = i + 2) \/ (OpensHash(s, i) /\ f = i)
        BY <3>6
      <4>2. PICK e \in f .. b - 2 :
              In(s, e, "line") /\ s[e + 1] = "newline" /\ \A n \in {b, N} : Dumped!PartEnd(s, i, n) = e
        <5>1. LineFoundAt(s, b, i, f)
          BY <3>0, <3>6, <4>1, LineFound
        <5> QED
          BY <5>1 DEF LineFoundAt
      <4>3. ~v(i, b) /\ ~v(i, N)
        BY <3>3, <3>6 DEF OpensDashes, OpensHash, OpensBlock
      <4>4. (e + 1) - 1 = e /\ e \in i .. b - 1
        BY <1>0, <2>0, <4>1
      <4>5. Agree(s, e + 1)
        BY <4>2, <4>4 DEF Agree
      <4> HIDE DEF Split, v
      <4> QED
        BY <3>2, <4>2, <4>3, <4>4, <4>5
    <3>7. CASE In(s, i - 1, "code") /\ Plain
      <4>1. ~(s[i] = "/" /\ Next1(s, i, "*"))
        BY <3>7 DEF OpensBlock, Next1
      <4>2. CASE s[i] = "-" /\ Next1(s, i, "-") /\ (Next2(s, i, "blank") \/ Next2(s, i, "newline"))
        <5>1. Skips(s, i, "line")
          BY <2>0, <3>7, <4>2, ScanInside
        <5>2. ~Next2(s, i, "blank")
          BY <3>7, <4>2 DEF OpensDashes, Next1, Next2
        <5>3. s[i + 1] = "-" /\ s[(i + 1) + 1] = "newline"
          <6>1. (i + 1) + 1 = i + 2
            BY <2>0
          <6> QED
            BY <4>2, <5>2, <6>1 DEF Next1, Next2
        <5> QED
          BY <3>0, <3>1, <3>7, <5>1, <5>3 DEF Agree
      <4>3. CASE s[i] = "backtick"
        <5>1. "backtick" \in Dumped!Quotes
          BY DEF Dumped!Quotes
        <5>2. In(s, i, "backtick")
          BY <2>0, <3>7, <4>3, <5>1, ScanInside
        <5> QED
          BY <3>0, <3>1, <3>7, <5>2 DEF Agree, In
      <4>4. CASE ~(s[i] = "-" /\ Next1(s, i, "-") /\ (Next2(s, i, "blank") \/ Next2(s, i, "newline"))) /\ s[i] # "backtick"
        <5>1. s[i] \notin Dumped!Quotes
          BY <3>7, <4>4 DEF Dumped!Quotes, OpensString
        <5>2. s[i] # "hash"
          BY <3>7 DEF OpensHash
        <5>3. In(s, i, "code")
          BY <2>0, <3>7, <4>1, <4>4, <5>1, <5>2, ScanInside
        <5> QED
          BY <3>0, <3>1, <3>7, <5>3 DEF Agree
      <4> QED
        BY <4>2, <4>3, <4>4
    <3>8. CASE Dumped!Scanned(s)[i - 1].mode = "backtick"
      <4>1. Plain
        <5>1. DOMAIN s = 1 .. Len(s)
          OBVIOUS
        <5> QED
          BY <1>0, <2>0, <3>8, <5>1, NameIsCode
      <4>2. "backtick" \in Modes /\ "backtick" \in Dumped!Quotes
        BY DEF Modes, Dumped!Quotes
      <4>3. In(s, i - 1, "backtick") \/ Skips(s, i - 1, "backtick")
        BY <3>8 DEF In, Skips
      <4>4. In(s, i, "backtick") \/ Skips(s, i, "backtick") \/ In(s, i, "code")
        BY <2>0, <4>2, <4>3, ScanOutside
      <4>5. Agree(s, i + 1)
        BY <3>0, <4>4 DEF Agree, In, Skips
      <4> QED
        BY <3>1, <4>1, <4>5
    <3>9. CASE Skips(s, i - 1, "line") /\ s[i] = "-" /\ s[i + 1] = "newline"
      <4>1. Plain
        BY <3>9 DEF OpensString, OpensBlock, OpensDashes, OpensHash
      <4>2. "line" \in Modes
        BY DEF Modes
      <4>3. In(s, i, "line")
        BY <2>0, <3>9, <4>2, ScanOutside
      <4>4. Agree(s, i + 1)
        BY <3>0, <3>9, <4>3 DEF Agree
      <4> QED
        BY <3>1, <4>1, <4>4
    <3>10. CASE In(s, i - 1, "line") /\ s[i] = "newline"
      <4>1. Plain
        BY <3>10 DEF OpensString, OpensBlock, OpensDashes, OpensHash
      <4>2. In(s, i, "code")
        BY <2>0, <3>10, ScanOutside
      <4>3. Agree(s, i + 1)
        BY <3>0, <4>2 DEF Agree
      <4> QED
        BY <3>1, <4>1, <4>3
    <3>11. In(s, i - 1, "code") => OpensString(s, i) \/ OpensBlock(s, i, N) \/ OpensDashes(s, i, N) \/ OpensHash(s, i) \/ Plain
      OBVIOUS
    <3> HIDE DEF Split, Plain
    <3> QED
      BY <3>4, <3>5, <3>6, <3>7, <3>8, <3>9, <3>10, <3>11 DEF Agree
  <2> QED
    BY <2>1, <2>2
<1> HIDE DEF T
<1>5. \A i \in 0 .. b : i \in T
  BY <1>0, <1>4, Downward
<1>6. ASSUME NEW i \in 1 .. b, Agree(s, i) PROVE Split(i)
  <2>1. i \in 0 .. b /\ i # 0
    BY <1>0
  <2> HIDE DEF Split
  <2> QED
    BY <1>5, <1>6, <2>1 DEF T
<1> QED
  BY <1>6 DEF Splits, g

-----------------------------------------------------------------------------
(* A piece and the text behind it *)

\* The characters of two texts, one behind the other.
LEMMA Joined ==
  ASSUME NEW S, NEW p \in Seq(S), NEW r \in Seq(S)
  PROVE  /\ p \o r \in Seq(S) /\ Len(p \o r) = Len(p) + Len(r)
         /\ \A i \in 1 .. Len(p) : (p \o r)[i] = p[i]
         /\ \A i \in 1 .. Len(r) : (p \o r)[Len(p) + i] = r[i]
<1>1. /\ p \o r \in Seq(S) /\ Len(p \o r) = Len(p) + Len(r)
      /\ \A i \in 1 .. Len(p) + Len(r) : (p \o r)[i] = IF i <= Len(p) THEN p[i] ELSE r[i - Len(p)]
  BY ConcatProperties
<1>2. Len(p) \in Nat /\ Len(r) \in Nat
  OBVIOUS
<1>3. ASSUME NEW i \in 1 .. Len(p) PROVE (p \o r)[i] = p[i]
  <2>1. i \in 1 .. Len(p) + Len(r) /\ i <= Len(p)
    BY <1>2
  <2> QED
    BY <1>1, <2>1
<1>4. ASSUME NEW i \in 1 .. Len(r) PROVE (p \o r)[Len(p) + i] = r[i]
  <2>1. Len(p) + i \in 1 .. Len(p) + Len(r) /\ ~(Len(p) + i <= Len(p)) /\ (Len(p) + i) - Len(p) = i
    BY <1>2
  <2> QED
    BY <1>1, <2>1
<1> QED
  BY <1>1, <1>3, <1>4

\* Code is among the characters.
LEMMA CodeWithin ==
  ASSUME NEW S, NEW s \in Seq(S)
  PROVE  Dumped!Code(s) \subseteq 1 .. Len(s)
<1>1. Len(s) \in Nat /\ 1 \in 1 .. Len(s) + 1 /\ Len(s) \in 0 .. Len(s)
  OBVIOUS
<1> QED
  BY <1>1, CodesBetween DEF Dumped!Code

\* What is code in a piece that ends at a boundary and in what is behind it is what is
\* code in the whole.
LEMMA CodeOfPieces ==
  ASSUME NEW S, NEW p \in Seq(S), NEW r \in Seq(S), Cut(p \o r, Len(p)), Dumped!NamesArePlain(p \o r)
  PROVE  Dumped!Code(p \o r) = Dumped!Code(p) \cup {Len(p) + j : j \in Dumped!Code(r)}
<1> DEFINE s == p \o r
           b == Len(p)
<1>0. Len(p) \in Nat /\ Len(r) \in Nat
  OBVIOUS
<1>1. /\ s \in Seq(S) /\ Len(s) = b + Len(r)
      /\ \A i \in 1 .. b : s[i] = p[i]
      /\ \A i \in 1 .. Len(r) : s[b + i] = r[i]
  BY Joined
<1>2. Cut(s, b) /\ Dumped!NamesArePlain(s)
  OBVIOUS
<1>3. PICK l : l = Len(r)
  OBVIOUS
<1>4. b \in Nat /\ l \in Nat /\ Len(s) = b + l /\ Len(s) \in Nat
  BY <1>0, <1>1, <1>3
<1> HIDE DEF s
<1>5. Dumped!Codes(s)[<<1, Len(s)>>] = Dumped!Codes(s)[<<1, b>>] \cup Dumped!Codes(s)[<<b + 1, Len(s)>>]
  <2>1. In(s, 0, "code")
    <3>1. Dumped!Scanned(s)[0] = Scanning
      BY <1>4, ScannedIs
    <3> QED
      BY <3>1 DEF Scanning, In
  <2>2. 1 \in 1 .. b /\ 1 - 1 = 0
    <3>1. b \in 1 .. Len(s)
      BY <1>2 DEF Cut
    <3> QED
      BY <1>4, <3>1
  <2>3. Agree(s, 1)
    BY <2>1, <2>2 DEF Agree
  <2>4. Splits(s, 1, b)
    BY <1>1, <1>2, <2>2, <2>3, BoundarySplits
  <2> QED
    BY <2>4 DEF Splits
<1>6. Dumped!Codes(s)[<<1, b>>] = Dumped!Code(p)
  <2>1. Alike(s, 0, p, b)
    <3> SUFFICES ASSUME NEW j \in 1 .. b PROVE s[0 + j] = p[j]
      BY DEF Alike
    <3>1. 0 + j = j
      BY <1>4
    <3> QED
      BY <1>1, <3>1
  <2>2. 0 \in Nat /\ Len(p) \in Nat /\ b <= Len(p) /\ 0 + b <= Len(s) /\ 1 \in 1 .. b + 1 /\ b \in 0 .. b
    BY <1>0, <1>4
  <2>3. CodeAlike(s, 0, p, b)
    <3> HIDE DEF b
    <3> QED
      BY <1>4, <2>1, <2>2, CodesAlike
  <2>4. Dumped!Codes(s)[<<0 + 1, 0 + b>>] = {0 + j : j \in Dumped!Codes(p)[<<1, b>>]}
    BY <2>2, <2>3 DEF CodeAlike
  <2>5. Dumped!Codes(p)[<<1, b>>] = Dumped!Code(p)
    BY DEF Dumped!Code
  <2>6. Dumped!Code(p) \subseteq Nat
    <3>1. 1 .. Len(p) \subseteq Nat
      OBVIOUS
    <3> QED
      BY <3>1, CodeWithin
  <2>7. 0 + 1 = 1 /\ 0 + b = b
    BY <1>4
  <2>8. {0 + j : j \in Dumped!Code(p)} = Dumped!Code(p)
    <3>1. PICK C : C = Dumped!Code(p)
      OBVIOUS
    <3>2. \A j \in C : 0 + j = j
      BY <2>6, <3>1
    <3> QED
      BY <3>1, <3>2
  <2> QED
    BY <2>4, <2>5, <2>7, <2>8
<1>7. Dumped!Codes(s)[<<b + 1, Len(s)>>] = {b + j : j \in Dumped!Code(r)}
  <2>1. Alike(s, b, r, l)
    BY <1>1, <1>3 DEF Alike
  <2>2. Len(r) \in Nat /\ l <= Len(r) /\ b + l <= Len(s) /\ 1 \in 1 .. l + 1 /\ l \in 0 .. l
    BY <1>0, <1>3, <1>4
  <2>3. CodeAlike(s, b, r, l)
    <3> HIDE DEF b
    <3> QED
      BY <1>4, <2>1, <2>2, CodesAlike
  <2>4. Dumped!Codes(s)[<<b + 1, b + l>>] = {b + j : j \in Dumped!Codes(r)[<<1, l>>]}
    BY <2>2, <2>3 DEF CodeAlike
  <2>5. Dumped!Codes(r)[<<1, l>>] = Dumped!Code(r)
    BY <1>3 DEF Dumped!Code
  <2> QED
    BY <1>4, <2>4, <2>5
<1>8. Dumped!Code(s) = Dumped!Codes(s)[<<1, Len(s)>>]
  BY DEF Dumped!Code
<1>9. Dumped!Code(s) = Dumped!Code(p) \cup {b + j : j \in Dumped!Code(r)}
  BY <1>5, <1>6, <1>7, <1>8
<1> QED
  BY <1>9 DEF s

\* The characters of what is rewritten.
Rewritten(S) == S \cup {"new"}

\* A text that is rewritten is as long.
LEMMA RewriteIs ==
  ASSUME NEW S, NEW s \in Seq(S)
  PROVE  /\ Dumped!Rewrite(s) \in Seq(Rewritten(S)) /\ Len(Dumped!Rewrite(s)) = Len(s)
         /\ \A i \in 1 .. Len(s) :
              Dumped!Rewrite(s)[i] = IF s[i] = "ref" /\ i \in Dumped!Code(s) THEN "new" ELSE s[i]
<1> DEFINE R == [i \in 1 .. Len(s) |-> IF s[i] = "ref" /\ i \in Dumped!Code(s) THEN "new" ELSE s[i]]
<1>1. DOMAIN s = 1 .. Len(s) /\ Len(s) \in Nat
  OBVIOUS
<1>2. Dumped!Rewrite(s) = R
  BY <1>1 DEF Dumped!Rewrite
<1>3. \A i \in 1 .. Len(s) : R[i] \in Rewritten(S)
  <2>1. \A i \in 1 .. Len(s) : s[i] \in S
    OBVIOUS
  <2> QED
    BY <2>1 DEF Rewritten
<1>4. R \in Seq(Rewritten(S)) /\ Len(R) = Len(s)
  <2>1. R \in [1 .. Len(s) -> Rewritten(S)]
    BY <1>3
  <2>2. DOMAIN R = 1 .. Len(s)
    OBVIOUS
  <2> HIDE DEF R
  <2>3. R \in Seq(Rewritten(S))
    BY <1>1, <2>1, IsASeq
  <2> QED
    BY <1>1, <2>2, <2>3
<1> QED
  BY <1>2, <1>4

\* Pieces are rewritten as the whole is.
LEMMA RewriteOfPieces ==
  ASSUME NEW S, NEW p \in Seq(S), NEW r \in Seq(S), Cut(p \o r, Len(p)), Dumped!NamesArePlain(p \o r)
  PROVE  Dumped!Rewrite(p \o r) = Dumped!Rewrite(p) \o Dumped!Rewrite(r)
<1> DEFINE s == p \o r
           A == Dumped!Rewrite(s)
           P == Dumped!Rewrite(p)
           R == Dumped!Rewrite(r)
<1>0. Len(p) \in Nat /\ Len(r) \in Nat
  OBVIOUS
<1>1. /\ s \in Seq(S) /\ Len(s) = Len(p) + Len(r)
      /\ \A i \in 1 .. Len(p) : s[i] = p[i]
      /\ \A i \in 1 .. Len(r) : s[Len(p) + i] = r[i]
  BY Joined
<1>2. Dumped!Code(s) = Dumped!Code(p) \cup {Len(p) + j : j \in Dumped!Code(r)}
  BY CodeOfPieces
<1>3. Dumped!Code(p) \subseteq 1 .. Len(p) /\ Dumped!Code(r) \subseteq 1 .. Len(r)
  BY CodeWithin
<1> HIDE DEF s
<1>4. /\ A \in Seq(Rewritten(S)) /\ Len(A) = Len(s)
      /\ \A i \in 1 .. Len(s) : A[i] = IF s[i] = "ref" /\ i \in Dumped!Code(s) THEN "new" ELSE s[i]
  BY <1>1, RewriteIs
<1>5. /\ P \in Seq(Rewritten(S)) /\ Len(P) = Len(p)
      /\ \A i \in 1 .. Len(p) : P[i] = IF p[i] = "ref" /\ i \in Dumped!Code(p) THEN "new" ELSE p[i]
  BY RewriteIs
<1>6. /\ R \in Seq(Rewritten(S)) /\ Len(R) = Len(r)
      /\ \A i \in 1 .. Len(r) : R[i] = IF r[i] = "ref" /\ i \in Dumped!Code(r) THEN "new" ELSE r[i]
  BY RewriteIs
<1> HIDE DEF A, P, R
<1>7. /\ P \o R \in Seq(Rewritten(S)) /\ Len(P \o R) = Len(p) + Len(r)
      /\ \A i \in 1 .. Len(p) : (P \o R)[i] = P[i]
      /\ \A i \in 1 .. Len(r) : (P \o R)[Len(p) + i] = R[i]
  <2>1. /\ P \o R \in Seq(Rewritten(S)) /\ Len(P \o R) = Len(P) + Len(R)
        /\ \A i \in 1 .. Len(P) : (P \o R)[i] = P[i]
        /\ \A i \in 1 .. Len(R) : (P \o R)[Len(P) + i] = R[i]
    <3>1. PICK Q : Q = Rewritten(S)
      OBVIOUS
    <3>2. P \in Seq(Q) /\ R \in Seq(Q)
      BY <1>5, <1>6, <3>1
    <3> QED
      BY <3>1, <3>2, Joined
  <2> QED
    BY <1>5, <1>6, <2>1
<1>8. ASSUME NEW i \in 1 .. Len(s) PROVE A[i] = (P \o R)[i]
  <2>1. CASE i <= Len(p)
    <3>1. i \in 1 .. Len(p)
      BY <1>0, <1>1, <2>1
    <3>2. i \in Dumped!Code(s) <=> i \in Dumped!Code(p)
      <4>1. \A j \in Dumped!Code(r) : Len(p) + j # i
        BY <1>0, <1>3, <3>1
      <4> QED
        BY <1>2, <4>1
    <3> QED
      BY <1>1, <1>4, <1>5, <1>7, <3>1, <3>2
  <2>2. CASE ~(i <= Len(p))
    <3>1. PICK k \in 1 .. Len(r) : i = Len(p) + k
      <4>1. i - Len(p) \in 1 .. Len(r) /\ i = Len(p) + (i - Len(p))
        BY <1>0, <1>1, <2>2
      <4> QED
        BY <4>1
    <3>2. i \in Dumped!Code(s) <=> k \in Dumped!Code(r)
      <4>1. i \notin Dumped!Code(p)
        BY <1>0, <1>3, <2>2
      <4>2. \A j \in Dumped!Code(r) : Len(p) + j = i <=> j = k
        BY <1>0, <1>3, <3>1
      <4> QED
        BY <1>2, <4>1, <4>2
    <3>3. s[i] = r[k] /\ (P \o R)[i] = R[k]
      BY <1>1, <1>7, <3>1
    <3> QED
      BY <1>4, <1>6, <3>1, <3>2, <3>3
  <2> QED
    BY <2>1, <2>2
<1>9. A = P \o R
  <2>1. Len(A) = Len(P \o R)
    BY <1>1, <1>4, <1>7
  <2>2. \A i \in 1 .. Len(A) : A[i] = (P \o R)[i]
    BY <1>4, <1>8
  <2> QED
    BY <1>4, <1>7, <2>1, <2>2, SeqEqual
<1> QED
  BY <1>9 DEF A, P, R, s

\* The references in code.
Refs(s) == {i \in Dumped!Code(s) : s[i] = "ref"}

\* References are counted.
LEMMA ReferencesAre ==
  ASSUME NEW S, NEW s \in Seq(S)
  PROVE  /\ Dumped!References(s) = Cardinality(Refs(s)) /\ Dumped!References(s) \in Nat
         /\ IsFiniteSet(Refs(s)) /\ Refs(s) \subseteq 1 .. Len(s)
<1>1. \A T : Dumped!Cardinality(T) = Cardinality(T)
  BY DEF Cardinality, Dumped!Cardinality
<1>2. Dumped!References(s) = Cardinality(Refs(s))
  BY <1>1 DEF Dumped!References, Refs
<1>3. Refs(s) \subseteq 1 .. Len(s)
  BY CodeWithin DEF Refs
<1>4. IsFiniteSet(1 .. Len(s))
  <2>1. 1 \in Int /\ Len(s) \in Int
    OBVIOUS
  <2> QED
    BY <2>1, FS_Interval
<1>5. IsFiniteSet(Refs(s))
  <2>1. Refs(s) \in SUBSET (1 .. Len(s))
    BY <1>3
  <2> QED
    BY <1>4, <2>1, FS_Subset
<1> QED
  BY <1>2, <1>3, <1>5, FS_CardinalityType

\* Moving numbers on does not change how many there are.
LEMMA ShiftedCount ==
  ASSUME NEW d \in Nat, NEW T, T \subseteq Nat, IsFiniteSet(T)
  PROVE  IsFiniteSet({d + j : j \in T}) /\ Cardinality({d + j : j \in T}) = Cardinality(T)
<1> DEFINE U == {d + j : j \in T}
           f == [j \in T |-> d + j]
<1>1. f \in [T -> U] /\ (\A i, j \in T : f[i] = f[j] => i = j) /\ \A u \in U : \E j \in T : f[j] = u
  <2>1. \A i, j \in T : d + i = d + j => i = j
    OBVIOUS
  <2> QED
    BY <2>1
<1>2. f \in Bijection(T, U)
  <2> HIDE DEF f, U
  <2> QED
    BY <1>1 DEF Bijection, Injection, Surjection, IsInjective
<1>3. ExistsBijection(T, U)
  BY <1>2 DEF ExistsBijection
<1> HIDE DEF U
<1>4. IsFiniteSet(U) /\ Cardinality(U) = Cardinality(T)
  BY <1>3, FS_Bijection
<1> QED
  BY <1>4 DEF U

\* Validation finds in the pieces what it finds in the whole.
LEMMA ReferencesOfPieces ==
  ASSUME NEW S, NEW p \in Seq(S), NEW r \in Seq(S), Cut(p \o r, Len(p)), Dumped!NamesArePlain(p \o r)
  PROVE  Dumped!References(p \o r) = Dumped!References(p) + Dumped!References(r)
<1> DEFINE s == p \o r
           B == {Len(p) + j : j \in Refs(r)}
<1>0. Len(p) \in Nat /\ Len(r) \in Nat
  OBVIOUS
<1>1. /\ s \in Seq(S) /\ Len(s) = Len(p) + Len(r)
      /\ \A i \in 1 .. Len(p) : s[i] = p[i]
      /\ \A i \in 1 .. Len(r) : s[Len(p) + i] = r[i]
  BY Joined
<1>2. Dumped!Code(s) = Dumped!Code(p) \cup {Len(p) + j : j \in Dumped!Code(r)}
  BY CodeOfPieces
<1>3. Dumped!Code(p) \subseteq 1 .. Len(p) /\ Dumped!Code(r) \subseteq 1 .. Len(r)
  BY CodeWithin
<1> HIDE DEF s
<1>4. Refs(s) = Refs(p) \cup B
  <2>1. ASSUME NEW i \in Dumped!Code(p) PROVE s[i] = p[i]
    BY <1>1, <1>3
  <2>2. ASSUME NEW j \in Dumped!Code(r) PROVE s[Len(p) + j] = r[j]
    BY <1>1, <1>3
  <2> QED
    BY <1>2, <2>1, <2>2 DEF Refs
<1>5. /\ Dumped!References(s) = Cardinality(Refs(s))
      /\ Dumped!References(p) = Cardinality(Refs(p)) /\ IsFiniteSet(Refs(p)) /\ Refs(p) \subseteq 1 .. Len(p)
      /\ Dumped!References(r) = Cardinality(Refs(r)) /\ IsFiniteSet(Refs(r)) /\ Refs(r) \subseteq 1 .. Len(r)
      /\ Dumped!References(p) \in Nat /\ Dumped!References(r) \in Nat
  BY <1>1, ReferencesAre
<1>6. IsFiniteSet(B) /\ Cardinality(B) = Cardinality(Refs(r))
  <2>1. Refs(r) \subseteq Nat
    <3>1. 1 .. Len(r) \subseteq Nat
      OBVIOUS
    <3> QED
      BY <1>5, <3>1
  <2> QED
    BY <1>0, <1>5, <2>1, ShiftedCount
<1>7. Refs(p) \cap B = {}
  BY <1>0, <1>5
<1> HIDE DEF B
<1>8. Cardinality(Refs(s)) = Cardinality(Refs(p)) + Cardinality(B) - 0
  <2>1. Cardinality({}) = 0
    BY FS_EmptySet
  <2> QED
    <3>1. PICK X, Y : X = Refs(p) /\ Y = B
      OBVIOUS
    <3>2. IsFiniteSet(X) /\ IsFiniteSet(Y) /\ X \cap Y = {} /\ Refs(s) = X \cup Y
      BY <1>4, <1>5, <1>6, <1>7, <3>1
    <3>3. Cardinality(X \cup Y) = Cardinality(X) + Cardinality(Y) - Cardinality(X \cap Y)
      BY ONLY <3>2, FS_Union
    <3> QED
      BY ONLY <2>1, <3>1, <3>2, <3>3
<1>9. Dumped!References(s) = Dumped!References(p) + Dumped!References(r)
  BY <1>5, <1>6, <1>8
<1> QED
  BY <1>9 DEF s

\* What is rewritten has no reference left.
LEMMA NothingLeft ==
  ASSUME NEW S, NEW s \in Seq(S)
  PROVE  Dumped!References(Dumped!Rewrite(s)) = 0
<1> DEFINE R == Dumped!Rewrite(s)
           n == Len(s)
<1>1. /\ R \in Seq(Rewritten(S)) /\ Len(R) = n
      /\ \A i \in 1 .. n : R[i] = IF s[i] = "ref" /\ i \in Dumped!Code(s) THEN "new" ELSE s[i]
  BY RewriteIs
<1>2. n \in Nat /\ Len(s) \in Nat
  OBVIOUS
<1> HIDE DEF R
<1>3. Alike(R, 0, s, n)
  <2> SUFFICES ASSUME NEW j \in 1 .. n, NEW c, c \notin {"ref", "new"} PROVE R[0 + j] = c <=> s[j] = c
    BY DEF Alike
  <2>1. 0 + j = j
    BY <1>2
  <2> QED
    BY <1>1, <2>1
<1>4. Dumped!Codes(R)[<<1, n>>] = Dumped!Codes(s)[<<1, n>>]
  <2>1. Len(R) \in Nat /\ n <= Len(s) /\ 0 + n <= Len(R) /\ 1 \in 1 .. n + 1 /\ n \in 0 .. n /\ 0 + 1 = 1 /\ 0 + n = n
        /\ 0 \in Nat /\ 1 \in 1 .. Len(s) + 1 /\ n \in 0 .. Len(s)
    BY <1>1, <1>2
  <2>2. CodeAlike(R, 0, s, n)
    BY <1>2, <1>3, <2>1, CodesAlike
  <2>3. PICK C : C = Dumped!Codes(s)[<<1, n>>]
    OBVIOUS
  <2>4. Dumped!Codes(R)[<<0 + 1, 0 + n>>] = {0 + j : j \in C}
    BY <2>1, <2>2, <2>3 DEF CodeAlike
  <2>5. C \subseteq 1 .. n
    BY <1>2, <2>1, <2>3, CodesBetween
  <2>6. \A j \in C : 0 + j = j
    BY <1>2, <2>5
  <2>7. {0 + j : j \in C} = C
    BY <2>6
  <2> QED
    BY <2>1, <2>3, <2>4, <2>7
<1>5. Dumped!Code(R) = Dumped!Code(s)
  BY <1>1, <1>4 DEF Dumped!Code
<1>6. Refs(R) = {}
  <2> SUFFICES ASSUME NEW i \in Dumped!Code(R) PROVE R[i] # "ref"
    BY DEF Refs
  <2>1. i \in Dumped!Code(s) /\ i \in 1 .. n
    BY <1>5, CodeWithin
  <2> QED
    BY <1>1, <2>1
<1>7. Dumped!References(R) = Cardinality(Refs(R))
  BY <1>1, ReferencesAre
<1> QED
  BY <1>6, <1>7, FS_EmptySet DEF R

-----------------------------------------------------------------------------
(* The scanner on a piece, and on what is behind it *)

\* The same mode, and it skips as well.
SameScan(x, y) == x.mode = y.mode /\ x.skip = y.skip

\* What is skipped and where the scanner is does not depend on where the text began, and
\* on the character after the next only if that may begin a comment.
LEMMA ScanOfSame ==
  ASSUME NEW x \in ScanStates, NEW y \in ScanStates, SameScan(x, y), NEW now, NEW nxt, NEW aft, NEW aft2,
         nxt = "-" => aft = aft2, NEW i, NEW j
  PROVE  SameScan(Dumped!Scan(x, now, nxt, aft, i), Dumped!Scan(y, now, nxt, aft2, j))
<1>1. /\ x.mode \in Modes /\ x.skip \in BOOLEAN /\ y.mode = x.mode /\ y.skip = x.skip
  BY DEF SameScan, ScanStates
<1> DEFINE ln(a) == now = "-" /\ nxt = "-" /\ a \in {"blank", "newline"}
           hash == now = "hash"
           bl == now = "/" /\ nxt = "*"
           end == now = "*" /\ nxt = "/"
           out(st, a, k) ==
             CASE st.skip -> [st EXCEPT !.skip = FALSE]
               [] ~st.skip /\ st.mode = "line" -> IF now = "newline" THEN [st EXCEPT !.mode = "code"] ELSE st
               [] ~st.skip /\ st.mode = "block" -> IF end THEN [st EXCEPT !.mode = "code", !.skip = TRUE] ELSE st
               [] ~st.skip /\ st.mode \in Dumped!Quotes ->
                    IF now = "backslash" \/ (now = st.mode /\ nxt = now) THEN [st EXCEPT !.skip = TRUE] ELSE
                    IF now = st.mode THEN [st EXCEPT !.mode = "code"] ELSE st
               [] OTHER ->
                    IF ln(a) THEN [st EXCEPT !.mode = "line", !.skip = TRUE] ELSE
                    IF hash THEN [st EXCEPT !.mode = "line"] ELSE
                    IF bl THEN [st EXCEPT !.mode = "block", !.skip = TRUE] ELSE
                    IF now \in Dumped!Quotes THEN [st EXCEPT !.mode = now] ELSE
                    IF now = ";" THEN [st EXCEPT !.boundary = k] ELSE st
           mode(st, a) ==
             IF st.skip THEN st.mode ELSE
             IF st.mode = "line" THEN IF now = "newline" THEN "code" ELSE "line" ELSE
             IF st.mode = "block" THEN IF end THEN "code" ELSE "block" ELSE
             IF st.mode \in Dumped!Quotes
               THEN IF now = "backslash" \/ (now = st.mode /\ nxt = now) THEN st.mode ELSE
                    IF now = st.mode THEN "code" ELSE st.mode
               ELSE IF ln(a) \/ hash THEN "line" ELSE IF bl THEN "block" ELSE IF now \in Dumped!Quotes THEN now ELSE st.mode
           skip(st, a) ==
             IF st.skip THEN FALSE ELSE
             IF st.mode = "line" THEN FALSE ELSE
             IF st.mode = "block" THEN end ELSE
             IF st.mode \in Dumped!Quotes
               THEN now = "backslash" \/ (now = st.mode /\ nxt = now)
               ELSE ln(a) \/ bl
<1>2. ASSUME NEW st \in ScanStates, NEW a, NEW k
      PROVE  Dumped!Scan(st, now, nxt, a, k).mode = mode(st, a) /\ Dumped!Scan(st, now, nxt, a, k).skip = skip(st, a)
  <2>1. Dumped!Scan(st, now, nxt, a, k) = out(st, a, k)
    BY DEF Dumped!Scan
  <2>2. st.mode \in Modes /\ st.skip \in BOOLEAN
    BY DEF ScanStates
  <2>3. /\ "line" \notin Dumped!Quotes /\ "block" \notin Dumped!Quotes
    BY DEF Dumped!Quotes
  <2>5. ~(bl /\ ln(a)) /\ ~(hash /\ (bl \/ ln(a))) /\ (now \in Dumped!Quotes => ~bl /\ ~ln(a) /\ ~hash)
    BY DEF Dumped!Quotes
  <2> HIDE DEF bl, end, ln, hash
  <2> DEFINE z == Dumped!Scan(st, now, nxt, a, k)
  <2>6. CASE st.skip
    <3>1. z = [st EXCEPT !.skip = FALSE]
      BY <2>1, <2>6
    <3>2. z.mode = st.mode /\ z.skip = FALSE
      BY <3>1 DEF ScanStates
    <3> HIDE DEF z
    <3> QED
      BY <2>6, <3>2 DEF z
  <2>7. CASE ~st.skip /\ st.mode = "line"
    <3>1. z = IF now = "newline" THEN [st EXCEPT !.mode = "code"] ELSE st
      BY <2>1, <2>3, <2>7
    <3>2. z.mode = (IF now = "newline" THEN "code" ELSE "line") /\ z.skip = FALSE
      BY <2>2, <2>7, <3>1 DEF ScanStates
    <3> HIDE DEF z
    <3> QED
      BY <2>7, <3>2 DEF z
  <2>8. CASE ~st.skip /\ st.mode = "block"
    <3>1. z = IF end THEN [st EXCEPT !.mode = "code", !.skip = TRUE] ELSE st
      BY <2>1, <2>3, <2>8
    <3>2. z.mode = (IF end THEN "code" ELSE "block") /\ z.skip = end
      <4>1. CASE end
        BY <2>2, <2>8, <3>1, <4>1 DEF ScanStates
      <4>2. CASE ~end
        BY <2>2, <2>8, <3>1, <4>2 DEF end
      <4> QED
        BY <4>1, <4>2
    <3> HIDE DEF z
    <3> QED
      BY <2>8, <3>2 DEF z
  <2>9. CASE ~st.skip /\ st.mode \in Dumped!Quotes
    <3> DEFINE twice == now = "backslash" \/ (now = st.mode /\ nxt = now)
    <3>1. z = IF twice THEN [st EXCEPT !.skip = TRUE] ELSE IF now = st.mode THEN [st EXCEPT !.mode = "code"] ELSE st
      BY <2>1, <2>3, <2>9
    <3> HIDE DEF twice, z
    <3>2. twice => z.mode = st.mode /\ z.skip = TRUE
      BY <3>1 DEF ScanStates
    <3>3. ~twice /\ now = st.mode => z.mode = "code" /\ z.skip = FALSE
      BY <2>2, <2>9, <3>1 DEF ScanStates
    <3>4. ~twice /\ now # st.mode => z.mode = st.mode /\ z.skip = FALSE
      BY <2>2, <2>9, <3>1
    <3>5. twice \in BOOLEAN
      BY DEF twice
    <3>6. mode(st, a) = (IF twice THEN st.mode ELSE IF now = st.mode THEN "code" ELSE st.mode) /\ skip(st, a) = twice
      BY <2>3, <2>9 DEF twice
    <3> QED
      BY <3>2, <3>3, <3>4, <3>5, <3>6 DEF z
  <2>10. CASE ~st.skip /\ st.mode # "line" /\ st.mode # "block" /\ st.mode \notin Dumped!Quotes
    <3>1. z = IF ln(a) THEN [st EXCEPT !.mode = "line", !.skip = TRUE] ELSE
              IF hash THEN [st EXCEPT !.mode = "line"] ELSE
              IF bl THEN [st EXCEPT !.mode = "block", !.skip = TRUE] ELSE
              IF now \in Dumped!Quotes THEN [st EXCEPT !.mode = now] ELSE
              IF now = ";" THEN [st EXCEPT !.boundary = k] ELSE st
      BY <2>1, <2>10
    <3>2. PICK isln, isbl : isln = ln(a) /\ isbl = bl /\ isln \in BOOLEAN /\ isbl \in BOOLEAN
      BY DEF ln, bl, hash
    <3> HIDE DEF z
    <3>3. ln(a) => z.mode = "line" /\ z.skip = TRUE
      BY <3>1 DEF ScanStates
    <3>3a. ~ln(a) /\ hash => z.mode = "line" /\ z.skip = FALSE
      BY <2>2, <2>10, <3>1 DEF ScanStates
    <3>4. ~ln(a) /\ ~hash /\ bl => z.mode = "block" /\ z.skip = TRUE
      BY <3>1 DEF ScanStates
    <3>5. ~ln(a) /\ ~hash /\ ~bl /\ now \in Dumped!Quotes => z.mode = now /\ z.skip = FALSE
      BY <2>2, <2>10, <3>1 DEF ScanStates
    <3>6. ~ln(a) /\ ~hash /\ ~bl /\ now \notin Dumped!Quotes => z.mode = st.mode /\ z.skip = FALSE
      <4>1. ~ln(a) /\ ~hash /\ ~bl /\ now \notin Dumped!Quotes => z \in {st, [st EXCEPT !.boundary = k]}
        BY <3>1
      <4>2. [st EXCEPT !.boundary = k].mode = st.mode /\ [st EXCEPT !.boundary = k].skip = st.skip
        BY DEF ScanStates
      <4> QED
        BY <2>2, <2>10, <4>1, <4>2
    <3>7. /\ mode(st, a) = IF ln(a) \/ hash THEN "line" ELSE IF bl THEN "block" ELSE IF now \in Dumped!Quotes THEN now ELSE st.mode
          /\ skip(st, a) = (ln(a) \/ bl)
      BY <2>10
    <3> HIDE DEF mode, skip
    <3>8. (ln(a) \/ bl) \in BOOLEAN
      BY <3>2
    <3> QED
      BY <2>5, <3>3, <3>3a, <3>4, <3>5, <3>6, <3>7, <3>8 DEF z
  <2> HIDE DEF mode, skip
  <2> QED
    BY <2>6, <2>7, <2>8, <2>9, <2>10
<1>3. ln(aft) <=> ln(aft2)
  OBVIOUS
<1> HIDE DEF ln, bl, end, hash
<1>4. mode(x, aft) = mode(y, aft2) /\ skip(x, aft) = skip(y, aft2)
  BY <1>1, <1>3
<1> HIDE DEF mode, skip
<1> QED
  BY <1>2, <1>4 DEF SameScan

\* Where two texts read alike, and in what comes next, the scanner is in the same mode.
LEMMA ScannedAlike ==
  ASSUME NEW s, Len(s) \in Nat, NEW t, Len(t) \in Nat, NEW d \in Nat, NEW n \in 0 .. Len(t), d + n <= Len(s),
         \A j \in 1 .. n : /\ s[d + j] = t[j] /\ Dumped!At(s, d + j + 1) = Dumped!At(t, j + 1)
                           /\ Dumped!At(t, j + 1) = "-" => Dumped!At(s, d + j + 2) = Dumped!At(t, j + 2),
         In(s, d, "code")
  PROVE  \A j \in 0 .. n : SameScan(Dumped!Scanned(s)[d + j], Dumped!Scanned(t)[j])
<1> DEFINE M == Dumped!Scanned(s)
           K == Dumped!Scanned(t)
           T == {j \in 0 .. n : SameScan(M[d + j], K[j])}
<1>1. /\ \A i \in 1 .. Len(s) : M[i] = Dumped!Scan(M[i - 1], s[i], Dumped!At(s, i + 1), Dumped!At(s, i + 2), i)
      /\ \A i \in 0 .. Len(s) : M[i] \in ScanStates
  BY ScannedIs, ScannedType
<1>2. /\ K[0] = Scanning
      /\ \A i \in 1 .. Len(t) : K[i] = Dumped!Scan(K[i - 1], t[i], Dumped!At(t, i + 1), Dumped!At(t, i + 2), i)
      /\ \A i \in 0 .. Len(t) : K[i] \in ScanStates
  BY ScannedIs, ScannedType
<1>3. M[d].mode = "code" /\ ~M[d].skip /\ M[d].skip \in BOOLEAN
  <2>1. d \in 0 .. Len(s)
    OBVIOUS
  <2>2. M[d].skip \in BOOLEAN
    BY <1>1, <2>1 DEF ScanStates
  <2> QED
    BY <2>2 DEF In
<1> HIDE DEF M, K
<1>4. 0 \in T
  <2>1. d + 0 = d /\ 0 \in 0 .. n
    OBVIOUS
  <2>2. K[0].mode = "code" /\ K[0].skip = FALSE
    BY <1>2 DEF Scanning
  <2>3. SameScan(M[d + 0], K[0])
    BY <1>3, <2>1, <2>2 DEF SameScan
  <2> QED
    BY <2>1, <2>3
<1>5. ASSUME NEW j \in 0 .. n, j \in T, j < n PROVE j + 1 \in T
  <2>1. /\ j + 1 \in 1 .. n /\ j + 1 \in 1 .. Len(t) /\ j + 1 \in 0 .. n /\ (j + 1) - 1 = j /\ j \in 0 .. Len(t)
        /\ d + (j + 1) \in 1 .. Len(s) /\ (d + (j + 1)) - 1 = d + j /\ d + j \in 0 .. Len(s)
    BY <1>5
  <2>2. PICK now, nxt, aft, aft2 :
          /\ now = t[j + 1] /\ nxt = Dumped!At(t, j + 1 + 1)
          /\ aft = Dumped!At(s, d + (j + 1) + 2) /\ aft2 = Dumped!At(t, j + 1 + 2)
    OBVIOUS
  <2>3. s[d + (j + 1)] = now /\ Dumped!At(s, d + (j + 1) + 1) = nxt /\ (nxt = "-" => aft = aft2)
    BY <2>1, <2>2
  <2>4. M[d + (j + 1)] = Dumped!Scan(M[d + j], now, nxt, aft, d + (j + 1))
    BY <1>1, <2>1, <2>2, <2>3
  <2>5. K[j + 1] = Dumped!Scan(K[j], now, nxt, aft2, j + 1)
    BY <1>2, <2>1, <2>2
  <2>6. M[d + j] \in ScanStates /\ K[j] \in ScanStates /\ SameScan(M[d + j], K[j])
    BY <1>1, <1>2, <1>5, <2>1
  <2>7. PICK x, y, i, k : x = M[d + j] /\ y = K[j] /\ i = d + (j + 1) /\ k = j + 1
    OBVIOUS
  <2>8. SameScan(Dumped!Scan(x, now, nxt, aft, i), Dumped!Scan(y, now, nxt, aft2, k))
    <3>1. x \in ScanStates /\ y \in ScanStates /\ SameScan(x, y)
      BY <2>6, <2>7
    <3> QED
      BY <2>3, <3>1, ScanOfSame
  <2> QED
    BY <2>1, <2>4, <2>5, <2>7, <2>8
<1> HIDE DEF T
<1>6. \A j \in 0 .. n : j \in T
  <2>1. n \in Nat /\ \A j \in 0 .. n : j \in T /\ j < n => j + 1 \in T
    BY <1>5
  <2> QED
    BY <1>4, <2>1, Upward
<1> QED
  BY <1>6 DEF T, M, K

\* The boundary is a semicolon in code, or there is none.
LEMMA BoundaryIs ==
  ASSUME NEW S, NEW s \in Seq(S)
  PROVE  Dumped!Boundary(s) = 0 \/ Cut(s, Dumped!Boundary(s))
<1> DEFINE M == Dumped!Scanned(s)
           T == {i \in 0 .. Len(s) : M[i].boundary = 0 \/ Cut(s, M[i].boundary)}
<1>0. Len(s) \in Nat
  OBVIOUS
<1>1. /\ M[0] = Scanning
      /\ \A i \in 1 .. Len(s) : M[i] = Dumped!Scan(M[i - 1], s[i], Dumped!At(s, i + 1), Dumped!At(s, i + 2), i)
      /\ \A i \in 0 .. Len(s) : M[i] \in ScanStates
  BY <1>0, ScannedIs, ScannedType
<1> HIDE DEF M
<1>2. 0 \in T
  <2>1. M[0].boundary = 0
    BY <1>1 DEF Scanning
  <2> QED
    BY <1>0, <2>1
<1>3. ASSUME NEW i \in 0 .. Len(s), i \in T, i < Len(s) PROVE i + 1 \in T
  <2>1. i + 1 \in 1 .. Len(s) /\ i + 1 \in 0 .. Len(s) /\ (i + 1) - 1 = i
    BY <1>0, <1>3
  <2>2. PICK now, nxt, aft, x, k : now = s[i + 1] /\ x = M[i] /\ k = i + 1 /\ M[i + 1] = Dumped!Scan(x, now, nxt, aft, k)
    BY <1>1, <2>1
  <2>3. x \in ScanStates
    BY <1>1, <2>2
  <2> DEFINE z == Dumped!Scan(x, now, nxt, aft, k)
  <2>4. z.boundary = x.boundary \/ (z.boundary = k /\ now = ";" /\ x.mode = "code" /\ ~x.skip)
    <3>1. x.mode \in Modes /\ x.skip \in BOOLEAN
      BY <2>3 DEF ScanStates
    <3>2. CASE ~x.skip /\ x.mode = "code" /\ now = ";"
      <4>1. z = [x EXCEPT !.boundary = k]
        BY <3>2 DEF Dumped!Scan, Dumped!Quotes
      <4>2. z.boundary = k
        BY <2>3, <4>1 DEF ScanStates
      <4> QED
        BY <3>2, <4>2
    <3>3. CASE ~(~x.skip /\ x.mode = "code" /\ now = ";")
      <4>1. \/ z = x \/ z = [x EXCEPT !.skip = FALSE] \/ z = [x EXCEPT !.skip = TRUE] \/ z = [x EXCEPT !.mode = "code"]
            \/ z = [x EXCEPT !.mode = now] \/ z = [x EXCEPT !.mode = "code", !.skip = TRUE]
            \/ z = [x EXCEPT !.mode = "line"] \/ z = [x EXCEPT !.mode = "line", !.skip = TRUE] \/ z = [x EXCEPT !.mode = "block", !.skip = TRUE]
        BY <3>1, <3>3 DEF Dumped!Scan, Dumped!Quotes, Modes
      <4> HIDE DEF z
      <4>2. z.boundary = x.boundary
        BY <2>3, <4>1 DEF ScanStates
      <4> QED
        BY <4>2
    <3> QED
      BY <3>2, <3>3
  <2> HIDE DEF z
  <2>5. M[i + 1].boundary = z.boundary
    BY <2>2 DEF z
  <2>6. CASE z.boundary = x.boundary
    BY <1>3, <2>1, <2>2, <2>5, <2>6
  <2>7. CASE z.boundary = k /\ now = ";" /\ x.mode = "code" /\ ~x.skip
    <3>1. In(s, i, "code")
      BY <2>2, <2>7 DEF In, M
    <3>2. Cut(s, i + 1)
      BY <2>1, <2>2, <2>7, <3>1 DEF Cut
    <3> QED
      BY <2>1, <2>2, <2>5, <2>7, <3>2
  <2> QED
    BY <2>4, <2>6, <2>7
<1> HIDE DEF T
<1>4. Len(s) \in T
  <2>1. Len(s) \in 0 .. Len(s) /\ \A i \in 0 .. Len(s) : i \in T /\ i < Len(s) => i + 1 \in T
    BY <1>0, <1>3
  <2> QED
    BY <1>0, <1>2, <2>1, Upward
<1>5. Dumped!Boundary(s) = M[Len(s)].boundary
  BY DEF Dumped!Boundary, M
<1> QED
  BY <1>4, <1>5 DEF T

\* What comes behind does not move a boundary.
LEMMA CutCarries ==
  ASSUME NEW S, NEW c \in Seq(S), NEW x \in Seq(S), NEW b, Cut(c, b)
  PROVE  Cut(c \o x, b)
<1> DEFINE s == c \o x
<1>0. Len(c) \in Nat /\ Len(x) \in Nat /\ DOMAIN c = 1 .. Len(c)
  OBVIOUS
<1>1. /\ s \in Seq(S) /\ Len(s) = Len(c) + Len(x)
      /\ \A i \in 1 .. Len(c) : s[i] = c[i]
  BY Joined
<1>2. DOMAIN s = 1 .. Len(s)
  BY <1>1
<1> HIDE DEF s
<1>3. c[b] = ";" /\ In(c, b - 1, "code")
  BY DEF Cut
<1>3a. b \in 1 .. Len(c) /\ b \in Nat
  <2>1. b \in 1 .. Len(c)
    BY DEF Cut
  <2> QED
    BY <1>0, <2>1
<1>3b. Len(s) \in Nat /\ Len(c) <= Len(s)
  BY <1>0, <1>1
<1>4. In(s, 0, "code")
  <2>1. Dumped!Scanned(s)[0] = Scanning
    BY <1>0, <1>1, ScannedIs
  <2> QED
    BY <2>1 DEF Scanning, In
<1>5. ASSUME NEW j \in 1 .. b - 1
      PROVE  /\ s[0 + j] = c[j] /\ Dumped!At(s, 0 + j + 1) = Dumped!At(c, j + 1)
             /\ Dumped!At(c, j + 1) = "-" => Dumped!At(s, 0 + j + 2) = Dumped!At(c, j + 2)
  <2>1. 0 + j = j /\ j \in 1 .. Len(c) /\ j + 1 \in 1 .. Len(c) /\ j + 1 \in 1 .. Len(s)
    BY ONLY <1>0, <1>3a, <1>3b, j \in 1 .. b - 1
  <2>2. Dumped!At(c, j + 1) = c[j + 1] /\ Dumped!At(s, j + 1) = s[j + 1]
    BY <1>0, <1>2, <2>1 DEF Dumped!At
  <2>3. ASSUME c[j + 1] = "-" PROVE Dumped!At(s, j + 2) = Dumped!At(c, j + 2)
    <3>1. j + 1 # b
      BY <1>3, <2>3
    <3>2. j + 2 \in 1 .. Len(c) /\ j + 2 \in 1 .. Len(s)
      BY ONLY <1>0, <1>3a, <1>3b, <3>1, j \in 1 .. b - 1
    <3> QED
      BY <1>0, <1>1, <1>2, <3>2 DEF Dumped!At
  <2> QED
    BY <1>1, <2>1, <2>2, <2>3
<1>6. \A j \in 0 .. b - 1 : SameScan(Dumped!Scanned(s)[0 + j], Dumped!Scanned(c)[j])
  <2>1. Len(s) \in Nat /\ 0 \in Nat /\ b - 1 \in 0 .. Len(c) /\ 0 + (b - 1) <= Len(s)
    BY ONLY <1>0, <1>3a, <1>3b
  <2> QED
    BY <1>0, <1>4, <1>5, <2>1, ScannedAlike
<1>7. In(s, b - 1, "code")
  <2>1. b - 1 \in 0 .. b - 1 /\ 0 + (b - 1) = b - 1
    BY ONLY <1>0, <1>3a
  <2>2. SameScan(Dumped!Scanned(s)[b - 1], Dumped!Scanned(c)[b - 1])
    BY <1>6, <2>1
  <2> QED
    BY <1>3, <2>2 DEF SameScan, In
<1>8. b \in 1 .. Len(s) /\ s[b] = ";"
  <2>1. b \in 1 .. Len(s)
    BY ONLY <1>0, <1>3a, <1>3b
  <2> QED
    BY <1>1, <1>3, <1>3a, <2>1
<1>9. Cut(s, b)
  BY <1>7, <1>8 DEF Cut
<1> QED
  BY <1>9 DEF s

\* Behind a boundary the scanner goes on as if the text began there.
LEMMA PlainBehind ==
  ASSUME NEW S, NEW p \in Seq(S), NEW r \in Seq(S), Cut(p \o r, Len(p)), Dumped!NamesArePlain(p \o r)
  PROVE  Dumped!NamesArePlain(r)
<1> DEFINE s == p \o r
           b == Len(p)
<1>0. Len(p) \in Nat /\ Len(r) \in Nat /\ DOMAIN r = 1 .. Len(r)
  OBVIOUS
<1>1. /\ s \in Seq(S) /\ Len(s) = b + Len(r)
      /\ \A i \in 1 .. Len(r) : s[b + i] = r[i]
  BY Joined
<1>2. Cut(s, b) /\ Dumped!NamesArePlain(s)
  OBVIOUS
<1>3. DOMAIN s = 1 .. Len(s) /\ Len(s) \in Nat
  BY <1>0, <1>1
<1> HIDE DEF s
<1>4. In(s, b, "code")
  <2>1. b \in 1 .. Len(s) /\ s[b] = ";" /\ In(s, b - 1, "code")
    BY <1>2 DEF Cut
  <2>2. s[b] \notin Dumped!Quotes
    BY <2>1 DEF Dumped!Quotes
  <2> QED
    BY <1>1, <2>1, <2>2, ScanInside
<1>5. ASSUME NEW j \in 1 .. Len(r)
      PROVE  /\ s[b + j] = r[j] /\ Dumped!At(s, b + j + 1) = Dumped!At(r, j + 1)
             /\ Dumped!At(r, j + 1) = "-" => Dumped!At(s, b + j + 2) = Dumped!At(r, j + 2)
  <2>1. ASSUME NEW k \in {j + 1, j + 2} PROVE Dumped!At(s, b + k) = Dumped!At(r, k)
    <3>1. b + k \in DOMAIN s <=> k \in DOMAIN r
      BY <1>0, <1>1, <1>3
    <3>2. k \in DOMAIN r => s[b + k] = r[k]
      BY <1>0, <1>1
    <3> QED
      BY <3>1, <3>2 DEF Dumped!At
  <2>2. b + j + 1 = b + (j + 1) /\ b + j + 2 = b + (j + 2)
    BY <1>0
  <2> QED
    BY <1>1, <2>1, <2>2
<1>6. \A j \in 0 .. Len(r) : SameScan(Dumped!Scanned(s)[b + j], Dumped!Scanned(r)[j])
  <2>1. PICK d, n : d = b /\ n = Len(r)
    OBVIOUS
  <2>2. d \in Nat /\ n \in 0 .. Len(r) /\ d + n <= Len(s) /\ In(s, d, "code")
    BY <1>0, <1>1, <1>4, <2>1
  <2>3. \A j \in 1 .. n : /\ s[d + j] = r[j] /\ Dumped!At(s, d + j + 1) = Dumped!At(r, j + 1)
                          /\ Dumped!At(r, j + 1) = "-" => Dumped!At(s, d + j + 2) = Dumped!At(r, j + 2)
    BY <1>5, <2>1
  <2>4. \A j \in 0 .. n : SameScan(Dumped!Scanned(s)[d + j], Dumped!Scanned(r)[j])
    BY <1>0, <1>3, <2>2, <2>3, ScannedAlike
  <2> QED
    BY <2>1, <2>4
<1>7. ASSUME NEW i \in DOMAIN r, Dumped!Scanned(r)[i - 1].mode = "backtick"
      PROVE  /\ r[i] \notin {"'", "double", "hash"}
             /\ \A word \in {<<"/", "*">>, <<"-", "-", "blank">>} : ~Dumped!Is(r, i, Len(r), word)
  <2>1. i \in 1 .. Len(r) /\ b + i \in 1 .. Len(s) /\ i - 1 \in 0 .. Len(r) /\ (b + i) - 1 = b + (i - 1)
    BY <1>0, <1>1
  <2>2. Dumped!Scanned(s)[(b + i) - 1].mode = "backtick"
    BY <1>6, <1>7, <2>1 DEF SameScan
  <2>3. ~OpensString(s, b + i) /\ ~OpensBlock(s, b + i, Len(s)) /\ ~OpensDashes(s, b + i, Len(s)) /\ ~OpensHash(s, b + i)
    BY <1>2, <1>3, <2>1, <2>2, NameIsCode
  <2>4. s[b + i] = r[i] /\ (i < Len(r) => s[b + i + 1] = r[i + 1]) /\ (i + 2 <= Len(r) => s[b + i + 1] = r[i + 1] /\ s[b + i + 2] = r[i + 2])
    <3>1. i < Len(r) => s[b + (i + 1)] = r[i + 1]
      <4>1. i < Len(r) => i + 1 \in 1 .. Len(r)
        BY <2>1
      <4> QED
        BY <1>1, <4>1
    <3>2. i + 2 <= Len(r) => s[b + (i + 1)] = r[i + 1] /\ s[b + (i + 2)] = r[i + 2]
      <4>1. i + 2 <= Len(r) => i + 1 \in 1 .. Len(r) /\ i + 2 \in 1 .. Len(r)
        <5>1. i \in 1 .. Len(r) /\ Len(r) \in Nat
          BY <1>0, <2>1
        <5> QED
          BY ONLY <5>1
      <4> QED
        BY <1>1, <4>1
    <3>3. b + i + 1 = b + (i + 1) /\ b + i + 2 = b + (i + 2)
      BY <1>0, <2>1
    <3> QED
      BY <1>1, <2>1, <3>1, <3>2, <3>3
  <2>5. r[i] \notin {"'", "double", "hash"}
    BY <2>3, <2>4 DEF OpensString, OpensHash
  <2>6. i \in Nat /\ Len(r) \in Nat /\ (i + 1 <= Len(r) => i < Len(r) /\ b + i < Len(s)) /\ (i + 2 <= Len(r) => b + i + 2 <= Len(s))
    BY <1>0, <1>1, <2>1
  <2>7. ~Dumped!Is(r, i, Len(r), <<"/", "*">>)
    <3>1. Dumped!Is(r, i, Len(r), <<"/", "*">>) <=> i + 1 <= Len(r) /\ r[i] = "/" /\ r[i + 1] = "*"
      BY <2>6, WordsAre
    <3> QED
      BY <2>3, <2>4, <2>6, <3>1 DEF OpensBlock
  <2>8. ~Dumped!Is(r, i, Len(r), <<"-", "-", "blank">>)
    <3>1. Dumped!Is(r, i, Len(r), <<"-", "-", "blank">>) <=> i + 2 <= Len(r) /\ r[i] = "-" /\ r[i + 1] = "-" /\ r[i + 2] = "blank"
      BY <2>6, WordsAre
    <3> QED
      BY <2>3, <2>4, <2>6, <3>1 DEF OpensDashes
  <2> QED
    BY <2>5, <2>7, <2>8
<1> QED
  BY <1>7 DEF Dumped!NamesArePlain

\* Nothing is rewritten and found in nothing.
LEMMA NothingIs == Dumped!Rewrite(<<>>) = <<>> /\ Dumped!References(<<>>) = 0
<1> DEFINE s == <<>>
<1>1. s \in Seq({}) /\ Len(s) = 0
  OBVIOUS
<1> HIDE DEF s
<1>2. Dumped!Rewrite(s) \in Seq(Rewritten({})) /\ Len(Dumped!Rewrite(s)) = 0
  BY <1>1, RewriteIs
<1>3. Dumped!Rewrite(s) = <<>>
  BY <1>2, EmptySeq
<1>4. Refs(s) = {}
  <2>1. Refs(s) \subseteq 1 .. 0
    BY <1>1, ReferencesAre
  <2>2. 1 .. 0 = {}
    OBVIOUS
  <2> QED
    BY <2>1, <2>2
<1>5. Dumped!References(s) = 0
  <2>1. Dumped!References(s) = Cardinality(Refs(s))
    BY <1>1, ReferencesAre
  <2> QED
    BY <1>4, <2>1, FS_EmptySet
<1> QED
  BY <1>3, <1>5 DEF s

\* What a text c parted into p and r says with x behind it, piece by piece.
PiecesAlike(c, x, p, r) ==
  /\ Dumped!NamesArePlain(r \o x)
  /\ Dumped!Rewrite(c \o x) = Dumped!Rewrite(p) \o Dumped!Rewrite(r \o x)
  /\ Dumped!References(c \o x) = Dumped!References(p) + Dumped!References(r \o x)

\* The piece that is taken of what is read so far, and what is carried over, are
\* rewritten and validated as if they had not been parted, whatever comes behind.
LEMMA Pieces ==
  ASSUME NEW S, NEW c \in Seq(S), NEW x \in Seq(S), Dumped!NamesArePlain(c \o x), NEW b, b = Dumped!Boundary(c),
         NEW p, p = SubSeq(c, 1, b), NEW r, r = SubSeq(c, b + 1, Len(c))
  PROVE  p \in Seq(S) /\ r \in Seq(S) /\ PiecesAlike(c, x, p, r)
<1>0. Len(c) \in Nat /\ \A i \in 1 .. Len(c) : c[i] \in S
  OBVIOUS
<1>1. CASE b = 0
  <2>1. p = <<>>
    BY <1>1, SubSeqEmpty
  <2>2. r = c
    BY <1>1, SubSeqFull
  <2>3. c \o x \in Seq(S)
    BY Joined
  <2>4. Dumped!Rewrite(p) = <<>> /\ Dumped!References(p) = 0
    BY <2>1, NothingIs
  <2>5. PICK R, k : R = Dumped!Rewrite(c \o x) /\ k = Dumped!References(c \o x)
    OBVIOUS
  <2>6. R \in Seq(Rewritten(S)) /\ k \in Nat
    BY <2>3, <2>5, RewriteIs, ReferencesAre
  <2>7. <<>> \o R = R /\ 0 + k = k
    BY <2>6, ConcatEmptySeq
  <2>8. p \in Seq(S)
    BY <2>1, EmptySeq
  <2> QED
    BY <2>2, <2>4, <2>5, <2>7, <2>8 DEF PiecesAlike
<1>2. CASE b # 0
  <2>1. Cut(c, b)
    BY <1>2, BoundaryIs
  <2>2. b \in 1 .. Len(c)
    BY <2>1 DEF Cut
  <2>3. p \in Seq(S) /\ Len(p) = b
    <3>1. 1 \in Int /\ b \in Int /\ 1 <= b /\ b - 1 + 1 = b /\ \A i \in 1 .. b : c[i] \in S
      BY <1>0, <2>2
    <3> QED
      BY <3>1, SubSeqProperties
  <2>4. r \in Seq(S)
    <3>1. b + 1 \in Int /\ Len(c) \in Int /\ \A i \in b + 1 .. Len(c) : c[i] \in S
      BY <1>0, <2>2
    <3> QED
      BY <3>1, SubSeqProperties
  <2>5. c = p \o r
    <3>1. 1 \in 1 .. Len(c) + 1 /\ b \in 1 - 1 .. Len(c) /\ Len(c) \in b .. Len(c)
      BY <1>0, <2>2
    <3>2. SubSeq(c, 1, b) \o SubSeq(c, b + 1, Len(c)) = SubSeq(c, 1, Len(c))
      BY <3>1, ConcatAdjacentSubSeq
    <3>3. SubSeq(c, 1, Len(c)) = c
      BY SubSeqFull
    <3> QED
      BY <3>2, <3>3
  <2>6. c \o x = p \o (r \o x)
    <3>1. (p \o r) \o x = p \o (r \o x)
      <4>1. p \in Seq(S) /\ r \in Seq(S) /\ x \in Seq(S)
        BY <2>3, <2>4
      <4> QED
        BY ONLY <4>1, ConcatAssociative
    <3> QED
      BY ONLY <2>5, <3>1
  <2>7. PICK y : y = r \o x
    OBVIOUS
  <2>8. y \in Seq(S)
    BY <2>4, <2>7, Joined
  <2>9. Cut(p \o y, Len(p)) /\ Dumped!NamesArePlain(p \o y)
    <3>1. Cut(c \o x, b)
      BY <2>1, CutCarries
    <3> QED
      BY <2>3, <2>6, <2>7, <3>1
  <2>10. Dumped!NamesArePlain(y)
    BY <2>3, <2>8, <2>9, PlainBehind
  <2>11. Dumped!Rewrite(p \o y) = Dumped!Rewrite(p) \o Dumped!Rewrite(y)
    BY <2>3, <2>8, <2>9, RewriteOfPieces
  <2>12. Dumped!References(p \o y) = Dumped!References(p) + Dumped!References(y)
    BY <2>3, <2>8, <2>9, ReferencesOfPieces
  <2> QED
    BY <2>3, <2>4, <2>6, <2>7, <2>10, <2>11, <2>12 DEF PiecesAlike
<1> QED
  BY <1>1, <1>2

-----------------------------------------------------------------------------
(* The stream *)

\* The characters of all alphabets.
Chars == UNION Alphabets

\* Whatever is still to come, what is written and found, with what is carried over and
\* comes, is what the whole would give.
Along(x) ==
  /\ Dumped!NamesArePlain(carry \o x)
  /\ Dumped!Rewrite(text \o x) = rewritten \o Dumped!Rewrite(carry \o x)
  /\ Dumped!References(text \o x) = found + Dumped!References(carry \o x)

\* The types.
DumpType ==
  /\ alphabet \in Alphabets /\ text \in Seq(Chars) /\ carry \in Seq(Chars)
  /\ rewritten \in Seq(Rewritten(Chars)) /\ found \in Nat
  /\ scan \in {"reading", "done", "refused"}

\* The inductive invariant: while the file is read, all that may come behind is to be
\* rewritten and validated alike.
Carried == scan = "reading" => \A x \in Seq(Chars) : Dumped!NamesArePlain(text \o x) => Along(x)

DumpInv == DumpType /\ Carried /\ CutsDoNotMatter

\* A chunk is a text.
LEMMA ChunkIs ==
  ASSUME alphabet \in Alphabets, NEW n \in 1 .. MaxChunk, NEW chunk \in [1 .. n -> alphabet]
  PROVE  chunk \in Seq(Chars)
<1>1. n \in Nat
  OBVIOUS
<1>2. chunk \in [1 .. n -> Chars]
  BY DEF Chars
<1> QED
  BY <1>1, <1>2, IsASeq

\* Three texts, one behind the other.
LEMMA JoinedTwice ==
  ASSUME NEW S, NEW p \in Seq(S), NEW q \in Seq(S), NEW r \in Seq(S)
  PROVE  (p \o q) \o r = p \o (q \o r) /\ p \o q \in Seq(S)
BY ConcatAssociative, ConcatProperties

\* Nothing is read at first.
LEMMA InitDump == ASSUME Dumped!StreamInit PROVE DumpInv
<1>1. /\ alphabet \in Alphabets /\ text = <<>> /\ carry = <<>> /\ rewritten = <<>> /\ found = 0 /\ scan = "reading"
  BY DEF Dumped!StreamInit
<1>2. <<>> \in Seq(Chars) /\ <<>> \in Seq(Rewritten(Chars))
  BY EmptySeq
<1>3. DumpType
  BY <1>1, <1>2 DEF DumpType
<1>4. ASSUME NEW x \in Seq(Chars), Dumped!NamesArePlain(text \o x) PROVE Along(x)
  <2>1. text \o x = x /\ carry \o x = x
    BY <1>1, ConcatEmptySeq
  <2>2. PICK R, k : R = Dumped!Rewrite(x) /\ k = Dumped!References(x)
    OBVIOUS
  <2>3. R \in Seq(Rewritten(Chars)) /\ k \in Nat
    BY <2>2, RewriteIs, ReferencesAre
  <2>4. rewritten \o R = R /\ found + k = k
    BY <1>1, <2>3, ConcatEmptySeq
  <2> QED
    BY <1>4, <2>1, <2>2, <2>4 DEF Along
<1>5. Carried
  BY <1>4 DEF Carried
<1>6. CutsDoNotMatter
  BY <1>1 DEF CutsDoNotMatter, Dumped!CutsDoNotMatter
<1> QED
  BY <1>3, <1>5, <1>6 DEF DumpInv

\* A chunk: what is taken of it and what is carried over are parts of what was to come.
LEMMA ReadKeeps ==
  ASSUME DumpInv, NEW chunk \in Seq(Chars), Dumped!Read(chunk)
  PROVE  DumpInv'
<1> DEFINE c == carry \o chunk
           b == Dumped!Boundary(c)
           p == SubSeq(c, 1, b)
           r == SubSeq(c, b + 1, Len(c))
<1>1. /\ scan = "reading" /\ text' = text \o chunk /\ carry' = r /\ alphabet' = alphabet
      /\ \/ scan' = "refused" /\ rewritten' = rewritten /\ found' = found
         \/ scan' = scan /\ rewritten' = rewritten \o Dumped!Rewrite(p) /\ found' = found + Dumped!References(p)
  BY DEF Dumped!Read, Dumped!Take
<1>2. DumpType
  BY DEF DumpInv
<1>3. c \in Seq(Chars) /\ text \o chunk \in Seq(Chars)
  BY <1>2, Joined DEF DumpType
<1> HIDE DEF c, b
<1>4. p \in Seq(Chars) /\ r \in Seq(Chars)
  <2>1. Len(c) \in Nat /\ (b = 0 \/ Cut(c, b))
    BY <1>3, BoundaryIs DEF b
  <2>2. b \in 0 .. Len(c)
    <3>1. Cut(c, b) => b \in 1 .. Len(c)
      BY DEF Cut
    <3> QED
      BY <2>1, <3>1
  <2>3. \A i \in 1 .. Len(c) : c[i] \in Chars
    BY <1>3
  <2>4. /\ 1 \in Int /\ b \in Int /\ b + 1 \in Int /\ Len(c) \in Int
        /\ \A i \in 1 .. b : c[i] \in Chars
        /\ \A i \in b + 1 .. Len(c) : c[i] \in Chars
    BY <2>1, <2>2, <2>3
  <2> QED
    BY <2>4, SubSeqProperties
<1> HIDE DEF p, r
<1>5. /\ Dumped!Rewrite(p) \in Seq(Rewritten(Chars)) /\ Dumped!References(p) \in Nat
  BY <1>4, RewriteIs, ReferencesAre
<1>6. DumpType'
  <2>1. rewritten \in Seq(Rewritten(Chars)) /\ found \in Nat
    BY <1>2 DEF DumpType
  <2>2. rewritten' \in Seq(Rewritten(Chars)) /\ found' \in Nat
    <3>1. PICK Q : Q = Rewritten(Chars)
      OBVIOUS
    <3>2. rewritten \o Dumped!Rewrite(p) \in Seq(Q)
      <4>1. rewritten \in Seq(Q) /\ Dumped!Rewrite(p) \in Seq(Q)
        BY <1>5, <2>1, <3>1
      <4> QED
        BY <4>1, Joined
    <3>3. found + Dumped!References(p) \in Nat
      BY <1>5, <2>1
    <3> QED
      BY <1>1, <2>1, <3>1, <3>2, <3>3
  <2> QED
    BY <1>1, <1>2, <1>3, <1>4, <2>2 DEF DumpType
<1>7. ASSUME scan' = "reading", NEW x \in Seq(Chars), Dumped!NamesArePlain(text' \o x) PROVE Along(x)'
  <2>1. PICK y : y = chunk \o x
    OBVIOUS
  <2>2. y \in Seq(Chars)
    BY <2>1, Joined
  <2>3. text' \o x = text \o y
    <3>1. text \in Seq(Chars)
      BY <1>2 DEF DumpType
    <3>2. (text \o chunk) \o x = text \o (chunk \o x)
      BY <3>1, JoinedTwice
    <3> QED
      BY <1>1, <2>1, <3>2
  <2>4. carry \o y = c \o x
    <3>1. carry \in Seq(Chars)
      BY <1>2 DEF DumpType
    <3>2. (carry \o chunk) \o x = carry \o (chunk \o x)
      BY <3>1, JoinedTwice
    <3> QED
      BY <2>1, <3>2 DEF c
  <2>5. Along(y)
    BY <1>1, <1>7, <2>2, <2>3 DEF DumpInv, Carried
  <2>6. /\ Dumped!NamesArePlain(c \o x)
        /\ Dumped!Rewrite(text' \o x) = rewritten \o Dumped!Rewrite(c \o x)
        /\ Dumped!References(text' \o x) = found + Dumped!References(c \o x)
    BY <2>3, <2>4, <2>5 DEF Along
  <2>7. /\ Dumped!NamesArePlain(r \o x)
        /\ Dumped!Rewrite(c \o x) = Dumped!Rewrite(p) \o Dumped!Rewrite(r \o x)
        /\ Dumped!References(c \o x) = Dumped!References(p) + Dumped!References(r \o x)
    <3>1. PICK K, c2, b2, p2, r2 : /\ K = Chars /\ c2 = c /\ b2 = Dumped!Boundary(c2)
                                   /\ p2 = SubSeq(c2, 1, b2) /\ r2 = SubSeq(c2, b2 + 1, Len(c2))
      OBVIOUS
    <3>2. c2 \in Seq(K) /\ x \in Seq(K) /\ Dumped!NamesArePlain(c2 \o x)
      BY <1>3, <1>7, <2>6, <3>1
    <3>3. PiecesAlike(c2, x, p2, r2)
      BY ONLY <3>1, <3>2, Pieces
    <3>4. p2 = p /\ r2 = r
      BY <3>1 DEF b, p, r
    <3> QED
      BY ONLY <3>1, <3>3, <3>4 DEF PiecesAlike
  <2>8. rewritten' = rewritten \o Dumped!Rewrite(p) /\ found' = found + Dumped!References(p)
    BY <1>1, <1>7
  <2>9. PICK R, k : R = Dumped!Rewrite(r \o x) /\ k = Dumped!References(r \o x)
    OBVIOUS
  <2>10. R \in Seq(Rewritten(Chars)) /\ k \in Nat
    <3>1. PICK z : z = r \o x
      OBVIOUS
    <3>2. z \in Seq(Chars)
      BY <1>4, <3>1, Joined
    <3> QED
      BY <2>9, <3>1, <3>2, RewriteIs, ReferencesAre
  <2>11. rewritten' \o R = rewritten \o (Dumped!Rewrite(p) \o R)
    <3>1. PICK u, w, Q : u = rewritten /\ w = Dumped!Rewrite(p) /\ Q = Rewritten(Chars)
      OBVIOUS
    <3>2. u \in Seq(Q) /\ w \in Seq(Q) /\ R \in Seq(Q)
      BY <1>2, <1>5, <2>10, <3>1 DEF DumpType
    <3>3. (u \o w) \o R = u \o (w \o R)
      BY ONLY <3>2, JoinedTwice
    <3> QED
      BY <2>8, <3>1, <3>3
  <2>12. found' + k = found + (Dumped!References(p) + k)
    <3>1. found \in Nat
      BY <1>2 DEF DumpType
    <3> QED
      BY <1>5, <2>8, <2>10, <3>1
  <2> QED
    BY <1>1, <2>6, <2>7, <2>9, <2>11, <2>12 DEF Along
<1>8. Carried'
  BY <1>7 DEF Carried
<1>9. CutsDoNotMatter'
  <2>1. scan' # "done"
    BY <1>1
  <2> QED
    BY <2>1 DEF CutsDoNotMatter, Dumped!CutsDoNotMatter
<1> QED
  BY <1>6, <1>8, <1>9 DEF DumpInv

\* The end of the file: nothing is to come.
LEMMA FlushKeeps ==
  ASSUME DumpInv, Dumped!Flush
  PROVE  DumpInv'
<1>1. /\ scan = "reading" /\ scan' = "done" /\ carry' = <<>> /\ text' = text /\ alphabet' = alphabet
      /\ rewritten' = rewritten \o Dumped!Rewrite(carry) /\ found' = found + Dumped!References(carry)
  BY DEF Dumped!Flush, Dumped!Take
<1>2. /\ alphabet \in Alphabets /\ text \in Seq(Chars) /\ carry \in Seq(Chars)
      /\ rewritten \in Seq(Rewritten(Chars)) /\ found \in Nat
  BY DEF DumpInv, DumpType
<1>3. Dumped!Rewrite(carry) \in Seq(Rewritten(Chars)) /\ Dumped!References(carry) \in Nat
  BY <1>2, RewriteIs, ReferencesAre
<1>4. DumpType'
  <2>1. <<>> \in Seq(Chars)
    BY EmptySeq
  <2>2. rewritten \o Dumped!Rewrite(carry) \in Seq(Rewritten(Chars))
    <3>1. PICK Q : Q = Rewritten(Chars)
      OBVIOUS
    <3>2. rewritten \in Seq(Q) /\ Dumped!Rewrite(carry) \in Seq(Q)
      BY <1>2, <1>3, <3>1
    <3> QED
      BY <3>1, <3>2, Joined
  <2>3. found + Dumped!References(carry) \in Nat
    BY <1>2, <1>3
  <2> QED
    BY <1>1, <1>2, <2>1, <2>2, <2>3 DEF DumpType
<1>5. Carried'
  <2>1. scan' # "reading"
    BY <1>1
  <2> QED
    BY <2>1 DEF Carried
<1>6. ASSUME Dumped!NamesArePlain(text)
      PROVE  rewritten' = Dumped!Rewrite(text) /\ found' = Dumped!References(text) /\ Dumped!References(rewritten') = 0
  <2>1. <<>> \in Seq(Chars) /\ text \o <<>> = text /\ carry \o <<>> = carry
    BY <1>2, EmptySeq, ConcatEmptySeq
  <2>2. Along(<<>>)
    BY <1>1, <1>6, <2>1 DEF DumpInv, Carried
  <2>3. /\ Dumped!Rewrite(text) = rewritten \o Dumped!Rewrite(carry)
        /\ Dumped!References(text) = found + Dumped!References(carry)
    BY <2>1, <2>2 DEF Along
  <2>4. Dumped!References(Dumped!Rewrite(text)) = 0
    BY <1>2, NothingLeft
  <2> QED
    BY <1>1, <2>3, <2>4
<1>7. CutsDoNotMatter'
  BY <1>1, <1>6 DEF CutsDoNotMatter, Dumped!CutsDoNotMatter
<1> QED
  BY <1>4, <1>5, <1>7 DEF DumpInv

\* No other side touches the dump.
LEMMA DumpStep == ASSUME DumpInv, [ArtifactsNext]_<<rest, people, side>> PROVE DumpInv'
<1>1. CASE UNCHANGED dump
  BY <1>1 DEF dump, DumpInv, DumpType, Carried, Along, CutsDoNotMatter, Dumped!CutsDoNotMatter
<1>2. CASE Dumped!StreamNext
  <2>1. alphabet \in Alphabets
    BY DEF DumpInv, DumpType
  <2>2. ASSUME NEW n \in 1 .. MaxChunk, NEW chunk \in [1 .. n -> alphabet], Dumped!Read(chunk) PROVE DumpInv'
    BY <2>1, <2>2, ChunkIs, ReadKeeps
  <2> QED
    BY <1>2, <2>2, FlushKeeps DEF Dumped!StreamNext
<1>3. UNCHANGED dump \/ Dumped!StreamNext
  BY DEF ArtifactsNext, rest, dump
<1> QED
  BY <1>1, <1>2, <1>3

\* For texts of any length and of any alphabets, chunks of any size and any limit on a
\* statement: where the file is cut does not matter to what is written and validated.
THEOREM CutsCorrect == ArtifactsSpec => []CutsDoNotMatter
<1>1. ArtifactsInit => DumpInv
  BY InitDump DEF ArtifactsInit
<1>2. DumpInv => CutsDoNotMatter
  BY DEF DumpInv
<1> QED
  BY <1>1, <1>2, DumpStep, PTL DEF ArtifactsSpec
=============================================================================
