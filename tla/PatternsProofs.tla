--------------------------- MODULE PatternsProofs ---------------------------
(***************************************************************************)
(* The slash of a pattern takes a slash of the text: a text matches if at  *)
(* one of its slashes it falls in two parts that match those of the        *)
(* pattern.  A match is a cut of the text, and cuts come apart, and        *)
(* together, at the slash.                                                 *)
(***************************************************************************)
EXTENDS Patterns, Extremes, SequenceTheorems

(* A way to match. *)
CutOf(cut, pattern, text) ==
  cut \in [0 .. Len(pattern) -> 0 .. Len(text)] /\ Takes(cut, pattern, text)

(* A text matches if there is a way. *)
LEMMA MatchesIsCut ==
  ASSUME NEW pattern, NEW text
  PROVE  Matches(pattern, text) <=> \E cut : CutOf(cut, pattern, text)
BY DEF Matches, CutOf

(* Where a cut is. *)
LEMMA CutType ==
  ASSUME NEW S, NEW pattern \in Seq(S), NEW text \in Seq(S),
         NEW cut, CutOf(cut, pattern, text), NEW k \in 0 .. Len(pattern)
  PROVE  cut[k] \in Nat /\ cut[k] <= Len(text)
<1>1. cut[k] \in 0 .. Len(text)
  BY DEF CutOf
<1> QED
  BY <1>1

(* What a pattern has taken never shrinks. *)
LEMMA CutsGrow ==
  ASSUME NEW S, NEW pattern \in Seq(S), NEW text \in Seq(S),
         NEW cut, CutOf(cut, pattern, text),
         NEW i \in 0 .. Len(pattern), NEW j \in 0 .. Len(pattern), i <= j
  PROVE  cut[i] <= cut[j]
<1> SUFFICES ASSUME ~(cut[i] <= cut[j]) PROVE FALSE
  OBVIOUS
<1> DEFINE T == {k \in 0 .. j : cut[k] > cut[j]}
<1>1. Len(pattern) \in Nat /\ Len(text) \in Nat
  BY LenProperties
<1>2. \A k \in 0 .. Len(pattern) : cut[k] \in Nat
  BY <1>1, CutType
<1>3. i \in T /\ T \subseteq 0 .. j /\ j \in Nat
  BY <1>1, <1>2
<1>4. PICK k \in T : \A l \in T : l <= k
  BY <1>3, GreatestExists
<1>5. k \in 0 .. j /\ cut[k] > cut[j] /\ k # j /\ k + 1 \in 1 .. j /\ k + 1 \notin T
  BY <1>1, <1>2, <1>3, <1>4
<1>6. cut[k + 1] <= cut[j]
  BY <1>1, <1>2, <1>5
<1>7. k + 1 \in 1 .. Len(pattern) /\ (k + 1) - 1 = k
  BY <1>1, <1>5
<1>8. cut[k + 1] >= cut[k]
  BY <1>1, <1>2, <1>5, <1>7 DEF CutOf, Takes
<1> QED
  BY <1>1, <1>2, <1>5, <1>6, <1>7, <1>8

(* A string made of two. *)
Split(whole, first, rest) ==
  /\ Len(whole) = Len(first) + Len(rest)
  /\ \A i \in 1 .. Len(first) : whole[i] = first[i]
  /\ \A i \in 1 .. Len(rest) : whole[Len(first) + i] = rest[i]

(* What one character of a pattern takes, x characters before and y after. *)
One(char, x, y, text) ==
  \/ char = "*" /\ x <= y
  \/ y = x + 1 /\ char \in {"?", text[y]}

(* Takes, character by character. *)
LEMMA TakesIs ==
  ASSUME NEW cut, NEW pattern, NEW text
  PROVE  Takes(cut, pattern, text) <=>
           /\ cut[0] = 0 /\ cut[Len(pattern)] = Len(text)
           /\ \A i \in 1 .. Len(pattern) : One(pattern[i], cut[i - 1], cut[i], text)
BY DEF Takes, One

(* What a character takes within the first part it takes of the whole, and the same
   for the rest. *)
LEMMA OneInFirst ==
  ASSUME NEW whole, NEW first, NEW rest, Split(whole, first, rest),
         NEW x \in Nat, NEW y \in Nat, y <= Len(first), Len(first) \in Nat, NEW char
  PROVE  One(char, x, y, whole) <=> One(char, x, y, first)
<1>1. y = x + 1 => y \in 1 .. Len(first)
  OBVIOUS
<1>2. y = x + 1 => whole[y] = first[y]
  BY <1>1 DEF Split
<1> QED
  BY <1>2 DEF One

(* See OneInFirst. *)
LEMMA OneInRest ==
  ASSUME NEW whole, NEW first, NEW rest, Split(whole, first, rest), NEW n \in Nat,
         n = Len(first),
         NEW x \in Nat, NEW y \in Nat, y <= Len(rest), Len(rest) \in Nat, NEW char
  PROVE  One(char, n + x, n + y, whole) <=> One(char, x, y, rest)
<1>1. y = x + 1 => y \in 1 .. Len(rest)
  OBVIOUS
<1>2. y = x + 1 => whole[n + y] = rest[y]
  BY <1>1 DEF Split
<1>3. (n + y = (n + x) + 1 <=> y = x + 1) /\ (n + x <= n + y <=> x <= y)
  OBVIOUS
<1> QED
  BY <1>2, <1>3 DEF One

(* Of a cut of the whole, cuts of the two parts. *)
LEMMA CutAtSplit ==
  ASSUME NEW S, NEW pattern \in Seq(S), NEW p \in Seq(S), NEW q \in Seq(S),
         NEW text \in Seq(S), NEW t \in Seq(S), NEW u \in Seq(S),
         Split(pattern, p, q), Split(text, t, u),
         NEW m \in Nat, m = Len(p), NEW n \in Nat, n = Len(t),
         NEW cut, CutOf(cut, pattern, text), cut[m] = n
  PROVE  Matches(p, t) /\ Matches(q, u)
<1>1. Len(q) \in Nat /\ Len(u) \in Nat
  BY LenProperties
<1> DEFINE l == Len(q)
           k == Len(u)
<1>2. l \in Nat /\ k \in Nat /\ Len(pattern) = m + l /\ Len(text) = n + k
  BY <1>1 DEF Split
<1>3. /\ \A i \in 1 .. m : pattern[i] = p[i]
      /\ \A i \in 1 .. l : pattern[m + i] = q[i]
  BY DEF Split
<1> HIDE DEF l, k
<1>4. \A i \in 0 .. m + l : cut[i] \in Nat /\ cut[i] <= n + k
  BY <1>2, CutType
<1>5. /\ cut[0] = 0 /\ cut[m + l] = n + k
      /\ \A i \in 1 .. m + l : One(pattern[i], cut[i - 1], cut[i], text)
  BY <1>2, TakesIs DEF CutOf
<1>6. \A i, j \in 0 .. m + l : i <= j => cut[i] <= cut[j]
  BY <1>2, CutsGrow
<1>7. Matches(p, t)
  <2> DEFINE cutP == [i \in 0 .. m |-> cut[i]]
  <2>1. ASSUME NEW i \in 0 .. m PROVE cut[i] \in 0 .. n
    <3>1. i \in 0 .. m + l /\ m \in 0 .. m + l /\ i <= m
      BY <1>2
    <3>2. cut[i] \in Nat /\ cut[i] <= n
      BY <1>4, <1>6, <3>1
    <3> QED
      BY <3>2
  <2>2. cutP \in [0 .. m -> 0 .. n] /\ cutP[0] = 0 /\ cutP[m] = n
    BY <1>5, <2>1
  <2>3. ASSUME NEW i \in 1 .. m PROVE One(p[i], cutP[i - 1], cutP[i], t)
    <3>1. i \in 1 .. m + l /\ i \in 0 .. m /\ i - 1 \in 0 .. m
      BY <1>2
    <3>2. cutP[i] = cut[i] /\ cutP[i - 1] = cut[i - 1] /\ pattern[i] = p[i]
      BY <1>3, <3>1
    <3>3. cut[i] \in Nat /\ cut[i - 1] \in Nat /\ cut[i] <= n
      BY <2>1, <3>1
    <3>4. One(p[i], cut[i - 1], cut[i], text)
      BY <1>5, <3>1, <3>2
    <3>5. One(p[i], cut[i - 1], cut[i], t)
      BY <3>3, <3>4, OneInFirst
    <3> QED
      BY <3>2, <3>5
  <2> HIDE DEF cutP
  <2>4. Takes(cutP, p, t)
    BY <2>2, <2>3, TakesIs
  <2> QED
    BY <2>2, <2>4 DEF Matches
<1>8. Matches(q, u)
  <2> DEFINE cutQ == [i \in 0 .. l |-> cut[m + i] - n]
  <2>1. ASSUME NEW i \in 0 .. l
        PROVE  cut[m + i] - n \in 0 .. k /\ cut[m + i] = n + (cut[m + i] - n)
    <3>1. m + i \in 0 .. m + l /\ m \in 0 .. m + l /\ m <= m + i
      BY <1>2
    <3>2. cut[m + i] \in Nat /\ cut[m + i] <= n + k /\ n <= cut[m + i]
      BY <1>4, <1>6, <3>1
    <3> DEFINE c == cut[m + i]
    <3>3. c \in Nat /\ c <= n + k /\ n <= c
      BY <3>2
    <3> HIDE DEF c
    <3>4. c - n \in 0 .. k /\ c = n + (c - n)
      BY <1>2, <3>3
    <3> QED
      BY <3>4 DEF c
  <2>2. \A i \in 0 .. l : cutQ[i] \in 0 .. k /\ cut[m + i] = n + cutQ[i]
    BY <2>1
  <2>3. cutQ \in [0 .. l -> 0 .. k]
    BY <2>1
  <2> HIDE DEF cutQ
  <2>4. cutQ[0] = 0
    <3>1. cut[m + 0] = n + cutQ[0] /\ cutQ[0] \in Nat
      BY <1>2, <2>2
    <3>2. m + 0 = m
      OBVIOUS
    <3>3. n = n + cutQ[0]
      BY <3>1, <3>2
    <3> QED
      BY <3>1, <3>3
  <2>5. cutQ[l] = k
    <3>1. cut[m + l] = n + cutQ[l] /\ cutQ[l] \in Nat
      BY <1>2, <2>2
    <3>2. n + k = n + cutQ[l]
      BY <1>5, <3>1
    <3> DEFINE c == cutQ[l]
    <3>3. c \in Nat /\ n + k = n + c
      BY <3>1, <3>2
    <3> HIDE DEF c
    <3>4. c = k
      BY <1>2, <3>3
    <3> QED
      BY <3>4 DEF c
  <2>6. ASSUME NEW i \in 1 .. l PROVE One(q[i], cutQ[i - 1], cutQ[i], u)
    <3>1. m + i \in 1 .. m + l /\ i \in 0 .. l /\ i - 1 \in 0 .. l /\ (m + i) - 1 = m + (i - 1)
      BY <1>2
    <3>2. cut[m + i] = n + cutQ[i] /\ cut[m + (i - 1)] = n + cutQ[i - 1]
      BY <2>2, <3>1
    <3>3. cutQ[i] \in Nat /\ cutQ[i - 1] \in Nat /\ cutQ[i] <= k
      BY <2>2, <3>1
    <3>4. One(q[i], cut[m + (i - 1)], cut[m + i], text)
      BY <1>3, <1>5, <3>1
    <3>5. One(q[i], n + cutQ[i - 1], n + cutQ[i], text)
      BY <3>2, <3>4
    <3> QED
      BY <1>2, <3>3, <3>5, OneInRest DEF k
  <2>7. Takes(cutQ, q, u)
    BY <2>4, <2>5, <2>6, TakesIs DEF l, k
  <2> QED
    BY <2>3, <2>7 DEF Matches, l, k
<1> QED
  BY <1>7, <1>8

(* Of cuts of the parts, a cut of the whole. *)
LEMMA Glued ==
  ASSUME NEW S, NEW pattern \in Seq(S), NEW p \in Seq(S), NEW q \in Seq(S),
         NEW text \in Seq(S), NEW t \in Seq(S), NEW u \in Seq(S),
         Split(pattern, p, q), Split(text, t, u),
         Matches(p, t), Matches(q, u)
  PROVE  Matches(pattern, text)
<1> DEFINE m == Len(p)
           n == Len(t)
           l == Len(q)
           k == Len(u)
<1>1. m \in Nat /\ n \in Nat /\ l \in Nat /\ k \in Nat
  BY LenProperties
<1>2. Len(pattern) = m + l /\ Len(text) = n + k
  BY DEF Split
<1>3. /\ \A i \in 1 .. m : pattern[i] = p[i]
      /\ \A i \in 1 .. l : pattern[m + i] = q[i]
  BY DEF Split
<1>4. PICK a : CutOf(a, p, t)
  BY MatchesIsCut
<1>5. PICK b : CutOf(b, q, u)
  BY MatchesIsCut
<1>6. /\ a \in [0 .. m -> 0 .. n] /\ a[0] = 0 /\ a[m] = n
      /\ \A i \in 1 .. m : One(p[i], a[i - 1], a[i], t)
  BY <1>4, TakesIs DEF CutOf
<1>7. /\ b \in [0 .. l -> 0 .. k] /\ b[0] = 0 /\ b[l] = k
      /\ \A i \in 1 .. l : One(q[i], b[i - 1], b[i], u)
  BY <1>5, TakesIs DEF CutOf
<1> HIDE DEF m, n, l, k
<1> DEFINE cut == [i \in 0 .. m + l |-> IF i <= m THEN a[i] ELSE n + b[i - m]]
<1>8. ASSUME NEW i \in 0 .. m PROVE cut[i] = a[i] /\ a[i] \in Nat /\ a[i] <= n
  <2>1. i \in 0 .. m + l /\ i <= m /\ a[i] \in 0 .. n
    BY <1>1, <1>6
  <2> QED
    BY <1>1, <2>1
<1>9. ASSUME NEW i \in 0 .. l PROVE cut[m + i] = n + b[i] /\ b[i] \in Nat /\ b[i] <= k
  <2>1. m + i \in 0 .. m + l /\ (m + i <= m <=> i = 0) /\ (m + i) - m = i
    BY <1>1
  <2>2. b[i] \in Nat /\ b[i] <= k
    BY <1>1, <1>7
  <2>3. CASE i = 0
    <3>1. cut[m] = n /\ b[i] = 0
      BY <1>1, <1>6, <1>7, <1>8, <2>3
    <3>2. m + i = m /\ n + 0 = n
      BY <1>1, <2>3
    <3> QED
      BY <2>2, <3>1, <3>2
  <2>4. CASE i # 0
    <3>1. cut[m + i] = n + b[(m + i) - m]
      BY <2>1, <2>4
    <3> QED
      BY <2>1, <2>2, <3>1
  <2> QED
    BY <2>3, <2>4
<1>10. ASSUME NEW i \in 0 .. m + l PROVE cut[i] \in 0 .. n + k
  <2>1. CASE i <= m
    <3>1. i \in 0 .. m
      BY <1>1, <2>1
    <3>2. cut[i] \in Nat /\ cut[i] <= n
      BY <1>8, <3>1
    <3> QED
      BY <1>1, <3>2
  <2>2. CASE ~(i <= m)
    <3>1. i - m \in 0 .. l /\ m + (i - m) = i
      BY <1>1, <2>2
    <3>2. cut[i] = n + b[i - m] /\ b[i - m] \in Nat /\ b[i - m] <= k
      BY <1>9, <3>1
    <3> DEFINE c == b[i - m]
    <3>3. c \in Nat /\ c <= k /\ cut[i] = n + c
      BY <3>2
    <3> HIDE DEF c, cut
    <3> QED
      BY <1>1, <3>3
  <2> QED
    BY <2>1, <2>2
<1>11. cut \in [0 .. m + l -> 0 .. n + k]
  BY <1>10
<1> HIDE DEF cut
<1>12. cut[0] = 0
  BY <1>1, <1>6, <1>8
<1>13. cut[m + l] = n + k
  BY <1>1, <1>7, <1>9
<1>14. ASSUME NEW i \in 1 .. m + l PROVE One(pattern[i], cut[i - 1], cut[i], text)
  <2>1. CASE i <= m
    <3>1. i \in 1 .. m /\ i \in 0 .. m /\ i - 1 \in 0 .. m
      BY <1>1, <2>1
    <3>2. One(p[i], a[i - 1], a[i], t)
      BY <1>6, <3>1
    <3>3. a[i - 1] \in Nat /\ a[i] \in Nat /\ a[i] <= n
      BY <1>8, <3>1
    <3>4. One(p[i], a[i - 1], a[i], text)
      BY <1>1, <3>2, <3>3, OneInFirst DEF n
    <3> QED
      BY <1>3, <1>8, <3>1, <3>4
  <2>2. CASE ~(i <= m)
    <3> DEFINE j == i - m
    <3>1. j \in 1 .. l /\ j \in 0 .. l /\ j - 1 \in 0 .. l /\ i = m + j /\ i - 1 = m + (j - 1)
      BY <1>1, <2>2
    <3> HIDE DEF j
    <3>2. One(q[j], b[j - 1], b[j], u)
      BY <1>7, <3>1
    <3>3. b[j - 1] \in Nat /\ b[j] \in Nat /\ b[j] <= k
      BY <1>9, <3>1
    <3>4. One(q[j], n + b[j - 1], n + b[j], text)
      BY <1>1, <3>2, <3>3, OneInRest DEF n, k
    <3>5. cut[m + j] = n + b[j] /\ cut[m + (j - 1)] = n + b[j - 1] /\ pattern[m + j] = q[j]
      BY <1>3, <1>9, <3>1
    <3> QED
      BY <3>1, <3>4, <3>5
  <2> QED
    BY <2>1, <2>2
<1>15. Takes(cut, pattern, text)
  BY <1>2, <1>12, <1>13, <1>14, TakesIs
<1> QED
  BY <1>2, <1>11, <1>15 DEF Matches

(* A string without its first characters; SubSeq as Split sees it. *)
LEMMA SplitAt ==
  ASSUME NEW S, NEW string \in Seq(S), NEW i \in 1 .. Len(string)
  PROVE  /\ SubSeq(string, 1, i - 1) \in Seq(S)
         /\ SubSeq(string, i, Len(string)) \in Seq(S)
         /\ Split(string, SubSeq(string, 1, i - 1), SubSeq(string, i, Len(string)))
         /\ Len(SubSeq(string, 1, i - 1)) = i - 1
<1> DEFINE first == SubSeq(string, 1, i - 1)
           rest == SubSeq(string, i, Len(string))
<1>1. Len(string) \in Nat /\ i \in Nat /\ i >= 1
  BY LenProperties
<1>2. \A j \in 1 .. Len(string) : string[j] \in S
  BY ElementOfSeq
<1>3. /\ first \in Seq(S) /\ Len(first) = i - 1
      /\ \A j \in 1 .. i - 1 : first[j] = string[j]
  BY <1>1, <1>2, SubSeqProperties
<1>4. /\ rest \in Seq(S) /\ Len(rest) = Len(string) - (i - 1)
      /\ \A j \in 1 .. Len(string) - (i - 1) : rest[j] = string[(i - 1) + j]
  BY <1>1, <1>2, SubSeqProperties
<1> HIDE DEF first, rest
<1>5. Split(string, first, rest)
  BY <1>1, <1>3, <1>4 DEF Split
<1> QED
  BY <1>3, <1>4, <1>5 DEF first, rest

(* Two strings, joined. *)
LEMMA SplitJoined ==
  ASSUME NEW S, NEW first \in Seq(S), NEW rest \in Seq(S)
  PROVE  first \o rest \in Seq(S) /\ Split(first \o rest, first, rest)
<1>1. Len(first) \in Nat /\ Len(rest) \in Nat
  BY LenProperties
<1>2. /\ first \o rest \in Seq(S) /\ Len(first \o rest) = Len(first) + Len(rest)
      /\ \A i \in 1 .. Len(first) + Len(rest) :
           (first \o rest)[i] = IF i <= Len(first) THEN first[i] ELSE rest[i - Len(first)]
  BY ConcatProperties
<1> DEFINE whole == first \o rest
<1> HIDE DEF whole
<1>3. \A i \in 1 .. Len(first) : whole[i] = first[i]
  BY <1>1, <1>2 DEF whole
<1>4. \A i \in 1 .. Len(rest) : whole[Len(first) + i] = rest[i]
  BY <1>1, <1>2 DEF whole
<1> QED
  BY <1>2, <1>3, <1>4 DEF Split, whole

Slash == <<"/">>

(* The rest of a string from a slash on: the slash, and what follows it. *)
LEMMA SplitAfterSlash ==
  ASSUME NEW S, NEW string \in Seq(S), NEW i \in 1 .. Len(string), string[i] = "/"
  PROVE  /\ SubSeq(string, i + 1, Len(string)) \in Seq(S)
         /\ Split(SubSeq(string, i, Len(string)), Slash,
                  SubSeq(string, i + 1, Len(string)))
<1> DEFINE rest == SubSeq(string, i, Len(string))
           after == SubSeq(string, i + 1, Len(string))
<1>1. Len(string) \in Nat /\ i \in Nat /\ i >= 1
  BY LenProperties
<1>2. \A j \in 1 .. Len(string) : string[j] \in S
  BY ElementOfSeq
<1>3. /\ Len(rest) = Len(string) - (i - 1)
      /\ \A j \in 1 .. Len(string) - (i - 1) : rest[j] = string[(i - 1) + j]
  BY <1>1, <1>2, SubSeqProperties
<1>4. /\ after \in Seq(S) /\ Len(after) = Len(string) - i
      /\ \A j \in 1 .. Len(string) - i : after[j] = string[i + j]
  <2>1. \A j \in i + 1 .. Len(string) : string[j] \in S
    BY <1>1, <1>2
  <2>2. /\ after \in Seq(S)
        /\ Len(after) = IF i + 1 <= Len(string) THEN Len(string) - (i + 1) + 1 ELSE 0
        /\ \A j \in 1 .. Len(string) - (i + 1) + 1 : after[j] = string[(i + 1) + j - 1]
    BY <1>1, <2>1, SubSeqProperties
  <2> QED
    BY <1>1, <2>2
<1>5. Len(Slash) = 1 /\ Slash[1] = "/"
  BY DEF Slash
<1> HIDE DEF rest, after
<1>6. Len(rest) = 1 + Len(after)
  BY <1>1, <1>3, <1>4
<1>7. rest[1] = "/"
  BY <1>1, <1>3
<1>8. ASSUME NEW j \in 1 .. Len(after) PROVE rest[1 + j] = after[j]
  <2>1. j \in 1 .. Len(string) - i /\ 1 + j \in 1 .. Len(string) - (i - 1)
        /\ (i - 1) + (1 + j) = i + j
    BY <1>1, <1>4
  <2> QED
    BY <1>3, <1>4, <2>1
<1>9. \A j \in 1 .. Len(Slash) : rest[j] = Slash[j]
  BY <1>5, <1>7
<1> QED
  BY <1>4, <1>5, <1>6, <1>8, <1>9 DEF Split, rest, after

(* A slash is matched by itself. *)
LEMMA SlashMatches == Matches(Slash, Slash)
<1> DEFINE cut == [i \in 0 .. 1 |-> i]
<1>1. Len(Slash) = 1 /\ Slash[1] = "/"
  BY DEF Slash
<1>2. cut \in [0 .. 1 -> 0 .. 1] /\ cut[0] = 0 /\ cut[1] = 1
  OBVIOUS
<1> HIDE DEF cut
<1>3. ASSUME NEW i \in 1 .. 1 PROVE One(Slash[i], cut[i - 1], cut[i], Slash)
  <2>1. i = 1 /\ i - 1 = 0 /\ 1 = 0 + 1
    OBVIOUS
  <2> QED
    BY <1>1, <1>2, <2>1 DEF One
<1>4. Takes(cut, Slash, Slash)
  BY <1>1, <1>2, <1>3, TakesIs
<1> QED
  BY <1>1, <1>2, <1>4 DEF Matches

(* "*" is matched by everything. *)
LEMMA StarMatches ==
  ASSUME NEW S, NEW text \in Seq(S)
  PROVE  Matches(<<"*">>, text)
<1> DEFINE star == <<"*">>
           n == Len(text)
           cut == [i \in 0 .. 1 |-> IF i = 0 THEN 0 ELSE n]
<1>1. Len(star) = 1 /\ star[1] = "*" /\ n \in Nat
  BY LenProperties
<1>2. cut \in [0 .. 1 -> 0 .. n] /\ cut[0] = 0 /\ cut[1] = n
  BY <1>1
<1> HIDE DEF star, cut
<1>3. ASSUME NEW i \in 1 .. 1 PROVE One(star[i], cut[i - 1], cut[i], text)
  <2>1. i = 1 /\ i - 1 = 0 /\ 0 <= n
    BY <1>1
  <2> QED
    BY <1>1, <1>2, <2>1 DEF One
<1>4. Takes(cut, star, text)
  BY <1>1, <1>2, <1>3, TakesIs
<1>5. Matches(star, text)
  BY <1>1, <1>2, <1>4 DEF Matches
<1> QED
  BY <1>5 DEF star

(* The slash of a pattern takes a slash, and what is before and behind it takes what
   is before and behind that one. *)
LEMMA SlashSeparates ==
  ASSUME NEW S, "/" \in S, NEW text \in Seq(S),
         NEW pattern \in Seq(S), NEW s \in Slashes(pattern)
  PROVE  Matches(pattern, text) <=>
           \E j \in Slashes(text) :
             /\ Matches(SubSeq(pattern, 1, s - 1), SubSeq(text, 1, j - 1))
             /\ Matches(SubSeq(pattern, s + 1, Len(pattern)), SubSeq(text, j + 1, Len(text)))
<1> DEFINE left == SubSeq(pattern, 1, s - 1)
           rest == SubSeq(pattern, s, Len(pattern))
           right == SubSeq(pattern, s + 1, Len(pattern))
           Before(j) == SubSeq(text, 1, j - 1)
           From(j) == SubSeq(text, j, Len(text))
           Behind(j) == SubSeq(text, j + 1, Len(text))
<1>1. Slash \in Seq(S) /\ Len(Slash) = 1 /\ Slash[1] = "/"
  BY DEF Slash
<1>2. \A j \in Slashes(text) :
        /\ Before(j) \in Seq(S) /\ From(j) \in Seq(S) /\ Behind(j) \in Seq(S)
        /\ Split(text, Before(j), From(j)) /\ Len(Before(j)) = j - 1
        /\ Split(From(j), Slash, Behind(j))
  BY SplitAt, SplitAfterSlash DEF Slashes
<1>3. s \in 1 .. Len(pattern) /\ pattern[s] = "/"
  BY DEF Slashes
<1>4. /\ left \in Seq(S) /\ rest \in Seq(S)
      /\ Split(pattern, left, rest) /\ Len(left) = s - 1
  BY <1>3, SplitAt
<1>5. right \in Seq(S) /\ Split(rest, Slash, right)
  BY <1>3, SplitAfterSlash
<1>6. Len(left) \in Nat /\ Len(text) \in Nat /\ Len(pattern) \in Nat
  BY <1>4, LenProperties
<1> HIDE DEF left, rest, right, Before, From, Behind
<1>7. ASSUME Matches(pattern, text)
      PROVE  \E j \in Slashes(text) : Matches(left, Before(j)) /\ Matches(right, Behind(j))
  <2>1. PICK cut : CutOf(cut, pattern, text)
    BY <1>7, MatchesIsCut
  <2> DEFINE j == cut[s]
  <2>2. j = cut[s - 1] + 1 /\ text[j] = "/"
    BY <1>3, <2>1 DEF CutOf, Takes
  <2>3. cut[s - 1] \in Nat /\ j \in Nat /\ j <= Len(text)
    <3>1. s - 1 \in 0 .. Len(pattern) /\ s \in 0 .. Len(pattern)
      BY <1>3, <1>6
    <3> QED
      BY <2>1, <3>1, CutType
  <2>4. j \in Slashes(text)
    BY <1>6, <2>2, <2>3 DEF Slashes
  <2>5. cut[Len(left)] = Len(Before(j)) /\ Len(Before(j)) \in Nat
    BY <1>2, <1>4, <2>2, <2>3, <2>4
  <2> HIDE DEF j
  <2>6. Matches(left, Before(j)) /\ Matches(rest, From(j))
    BY <1>2, <1>4, <1>6, <2>1, <2>4, <2>5, CutAtSplit
  <2>7. PICK b : CutOf(b, rest, From(j))
    BY <2>6, MatchesIsCut
  <2>8. b[1] = 1
    <3>1. Len(rest) = 1 + Len(right) /\ Len(right) \in Nat /\ rest[1] = "/"
      <4>1. Len(right) \in Nat
        BY <1>5, LenProperties
      <4>2. 1 \in 1 .. Len(Slash)
        BY <1>1
      <4> QED
        BY <1>1, <1>5, <4>1, <4>2 DEF Split
    <3>2. 1 \in 1 .. Len(rest) /\ b[0] = 0 /\ 1 - 1 = 0
      BY <2>7, <3>1 DEF CutOf, Takes
    <3>3. One(rest[1], b[1 - 1], b[1], From(j))
      BY <2>7, <3>2, TakesIs DEF CutOf
    <3> QED
      BY <3>1, <3>2, <3>3 DEF One
  <2>9. Matches(right, Behind(j))
    BY <1>1, <1>2, <1>4, <1>5, <2>4, <2>7, <2>8, CutAtSplit
  <2> QED
    BY <2>4, <2>6, <2>9
<1>8. ASSUME NEW j \in Slashes(text), Matches(left, Before(j)), Matches(right, Behind(j))
      PROVE  Matches(pattern, text)
  <2>1. Matches(Slash, Slash)
    BY SlashMatches
  <2>2. Matches(rest, From(j))
    BY <1>1, <1>2, <1>4, <1>5, <1>8, <2>1, Glued
  <2> QED
    BY <1>2, <1>4, <1>8, <2>2, Glued
<1> QED
  BY <1>7, <1>8 DEF left, right, Before, Behind

(* A pattern Config::validate accepts, other than "*", matches a text just if the text
   falls, at one of its slashes, in a part that matches what the pattern has before its
   slash and a part that matches what it has behind it.  The text (service.rs,
   authorize_github_app) may hold any number of slashes: main.rs takes owner and name
   from the path, where %2F stands for one. *)
THEOREM PatternsMatchAtASlash ==
  ASSUME NEW S, "/" \in S, NEW text \in Seq(S),
         NEW pattern \in Seq(S), IsValidRepoPattern(pattern)
  PROVE  Matches(pattern, text) <=> MatchesAtASlash(pattern, text)
<1>1. CASE pattern = <<"*">>
  BY <1>1, StarMatches DEF MatchesAtASlash
<1>2. CASE pattern # <<"*">>
  <2>1. PICK s : Slashes(pattern) = {s}
    BY <1>2 DEF IsValidRepoPattern
  <2>2. MatchesAtASlash(pattern, text) <=>
          \E j \in Slashes(text) :
            /\ Matches(SubSeq(pattern, 1, s - 1), SubSeq(text, 1, j - 1))
            /\ Matches(SubSeq(pattern, s + 1, Len(pattern)), SubSeq(text, j + 1, Len(text)))
    BY <1>2, <2>1 DEF MatchesAtASlash
  <2>3. s \in Slashes(pattern)
    BY <2>1
  <2> QED
    BY <2>2, <2>3, SlashSeparates
<1> QED
  BY <1>1, <1>2

-----------------------------------------------------------------------------
(* NAMES WITHOUT A SLASH *)

(* The string of an owner and a name without a slash has the one in between, and they
   are before and behind it. *)
LEMMA FullNameIs ==
  ASSUME NEW S, "/" \in S, NEW owner \in Seq(S), NEW name \in Seq(S),
         Slashes(owner) = {}, Slashes(name) = {}
  PROVE  LET text == FullName(owner, name)
             n == Len(owner)
         IN /\ text \in Seq(S) /\ n \in Nat /\ Slashes(text) = {n + 1}
            /\ SubSeq(text, 1, (n + 1) - 1) = owner
            /\ SubSeq(text, (n + 1) + 1, Len(text)) = name
<1> DEFINE text == FullName(owner, name)
           tail == Slash \o name
           n == Len(owner)
           k == Len(name)
<1>1. Slash \in Seq(S) /\ Len(Slash) = 1 /\ Slash[1] = "/"
  BY DEF Slash
<1>2. tail \in Seq(S) /\ Split(tail, Slash, name)
  BY <1>1, SplitJoined
<1>3. text \in Seq(S) /\ Split(text, owner, tail)
  BY <1>2, SplitJoined DEF FullName, Slash
<1>4. n \in Nat /\ k \in Nat
  BY LenProperties
<1> HIDE DEF tail, text
<1>5. /\ Len(text) = n + (1 + k) /\ Len(tail) = 1 + k
      /\ \A i \in 1 .. n : text[i] = owner[i]
      /\ \A i \in 1 .. 1 + k : text[n + i] = tail[i]
      /\ \A i \in 1 .. k : tail[1 + i] = name[i]
      /\ tail[1] = "/"
  BY <1>1, <1>2, <1>3 DEF Split
<1>6. \A i \in 1 .. n : owner[i] # "/"
  BY DEF Slashes
<1>7. \A i \in 1 .. k : name[i] # "/"
  BY DEF Slashes
<1> HIDE DEF n, k
<1>8. text[n + 1] = "/"
  BY <1>4, <1>5
<1>9. \A i \in 1 .. k : text[(n + 1) + i] = name[i]
  <2> SUFFICES ASSUME NEW i \in 1 .. k PROVE text[(n + 1) + i] = name[i]
    OBVIOUS
  <2>1. 1 + i \in 1 .. 1 + k /\ n + (1 + i) = (n + 1) + i
    BY <1>4
  <2> QED
    BY <1>5, <2>1
<1>10. Slashes(text) = {n + 1}
  <2>1. ASSUME NEW j \in 1 .. Len(text), text[j] = "/" PROVE j = n + 1
    <3>1. CASE j <= n
      BY <1>4, <1>5, <1>6, <2>1, <3>1
    <3>2. CASE j > n + 1
      <4> DEFINE i == j - (n + 1)
      <4>1. i \in 1 .. k /\ (n + 1) + i = j
        BY <1>4, <1>5, <3>2
      <4> HIDE DEF i
      <4> QED
        BY <1>7, <1>9, <2>1, <4>1
    <3> QED
      BY <1>4, <3>1, <3>2
  <2>2. n + 1 \in 1 .. Len(text)
    BY <1>4, <1>5
  <2> QED
    BY <1>8, <2>1, <2>2 DEF Slashes
<1>11. SubSeq(text, 1, (n + 1) - 1) = owner
  <2> DEFINE before == SubSeq(text, 1, (n + 1) - 1)
  <2>1. n + 1 \in 1 .. Len(text)
    BY <1>4, <1>5
  <2>2. before \in Seq(S) /\ Len(before) = n /\ \A i \in 1 .. n : before[i] = text[i]
    BY <1>3, <1>4, <2>1, SplitAt DEF Split
  <2> HIDE DEF before
  <2>3. before = owner
    BY <1>5, <2>2, SeqEqual DEF n
  <2> QED
    BY <2>3 DEF before
<1>12. SubSeq(text, (n + 1) + 1, Len(text)) = name
  <2> DEFINE rest == SubSeq(text, n + 1, Len(text))
             behind == SubSeq(text, (n + 1) + 1, Len(text))
  <2>1. n + 1 \in 1 .. Len(text)
    BY <1>4, <1>5
  <2>2. behind \in Seq(S) /\ Split(rest, Slash, behind)
    BY <1>3, <1>8, <2>1, SplitAfterSlash
  <2>3. /\ Len(rest) = Len(text) - n
        /\ \A j \in 1 .. Len(rest) : rest[j] = text[n + j]
    <3>1. \A j \in n + 1 .. Len(text) : text[j] \in S
      BY <1>3, <1>4, <2>1, ElementOfSeq
    <3>2. Len(text) \in Nat /\ n + 1 <= Len(text)
      BY <1>4, <1>5
    <3> QED
      BY <1>4, <3>1, <3>2, SubSeqProperties
  <2> HIDE DEF rest, behind
  <2>4. Len(behind) \in Nat
    BY <2>2, LenProperties
  <2>5. Len(behind) = k
    BY <1>1, <1>4, <1>5, <2>2, <2>3, <2>4 DEF Split
  <2>6. \A i \in 1 .. k : behind[i] = name[i]
    <3> SUFFICES ASSUME NEW i \in 1 .. k PROVE behind[i] = name[i]
      OBVIOUS
    <3>1. behind[i] = rest[1 + i]
      BY <1>1, <2>2, <2>5 DEF Split
    <3>2. 1 + i \in 1 .. Len(rest) /\ n + (1 + i) = (n + 1) + i
      BY <1>4, <1>5, <2>3
    <3> QED
      BY <1>9, <2>3, <3>1, <3>2
  <2>7. behind = name
    BY <2>2, <2>5, <2>6, SeqEqual DEF k
  <2> QED
    BY <2>7 DEF behind
<1> QED
  BY <1>3, <1>4, <1>10, <1>11, <1>12 DEF text, n

(* Of an owner and a name without a slash, the part before the slash of the pattern
   matches the owner and the one behind it the name. *)
LEMMA PatternsMatchByPart ==
  ASSUME NEW S, "/" \in S, NEW owner \in Seq(S), NEW name \in Seq(S),
         Slashes(owner) = {}, Slashes(name) = {},
         NEW pattern \in Seq(S), IsValidRepoPattern(pattern)
  PROVE  Matches(pattern, FullName(owner, name)) <=> MatchesByPart(pattern, owner, name)
<1> DEFINE text == FullName(owner, name)
           j == Len(owner) + 1
<1>1. /\ text \in Seq(S) /\ Slashes(text) = {j}
      /\ SubSeq(text, 1, j - 1) = owner /\ SubSeq(text, j + 1, Len(text)) = name
  BY FullNameIs
<1> HIDE DEF text, j
<1>2. Matches(pattern, text) <=> MatchesAtASlash(pattern, text)
  BY <1>1, PatternsMatchAtASlash
<1>3. MatchesAtASlash(pattern, text) <=> MatchesByPart(pattern, owner, name)
  BY <1>1 DEF MatchesAtASlash, MatchesByPart
<1> QED
  BY <1>2, <1>3 DEF text
=============================================================================
