--------------------------- MODULE FileURLsProofs ---------------------------
(***************************************************************************)
(* Proofs about FileURLs, for all URLs that a program is given, all names,  *)
(* snapshots and values to sign, and any number of URLs made of each other. *)
(***************************************************************************)
EXTENDS FileURLs, SequenceTheorems, FiniteSetTheorems, TLAPS

-----------------------------------------------------------------------------
(* Texts. *)

\* A function on 1 .. n is a text.
LEMMA TextIs ==
    ASSUME NEW n \in Nat, NEW s, s = [i \in 1 .. n |-> s[i]]
    PROVE  Text(s) /\ Len(s) = n /\ DOMAIN s = 1 .. n
<1>1. s \in [1 .. n -> ToSet(s)]
  BY DEF ToSet
<1> QED
  BY <1>1 DEF Text

\* And a text is a function on 1 .. Len.
LEMMA TextHas ==
    ASSUME NEW s, Text(s)
    PROVE  Len(s) \in Nat /\ DOMAIN s = 1 .. Len(s) /\ s = [i \in 1 .. Len(s) |-> s[i]]
BY LenProperties DEF Text

\* Texts are equal if their tokens are.
LEMMA SameText ==
    ASSUME NEW s, NEW t, Text(s), Text(t), Len(s) = Len(t), \A i \in 1 .. Len(s) : s[i] = t[i]
    PROVE  s = t
BY TextHas

\* What the concatenation of two texts is.
LEMMA Glued ==
    ASSUME NEW s, NEW t, Text(s), Text(t)
    PROVE  /\ Text(s \o t) /\ Len(s \o t) = Len(s) + Len(t)
           /\ \A i \in 1 .. Len(s) : (s \o t)[i] = s[i]
           /\ \A i \in Nat : i > Len(s) /\ i <= Len(s) + Len(t) => (s \o t)[i] = t[i - Len(s)]
<1> DEFINE S == ToSet(s) \cup ToSet(t)
<1>1. s \in Seq(S) /\ t \in Seq(S)
  <2>1. s \in [1 .. Len(s) -> S] /\ t \in [1 .. Len(t) -> S]
    BY TextHas DEF ToSet
  <2>2. Len(s) \in Nat /\ Len(t) \in Nat
    BY TextHas
  <2> HIDE DEF S
  <2> QED
    BY <2>1, <2>2
<1> HIDE DEF S
<1>2. /\ s \o t \in Seq(S) /\ Len(s \o t) = Len(s) + Len(t)
      /\ \A i \in 1 .. Len(s) + Len(t) : (s \o t)[i] = IF i <= Len(s) THEN s[i] ELSE t[i - Len(s)]
  BY <1>1, ConcatProperties
<1>3. Text(s \o t)
  BY <1>2, LenProperties, TextIs
<1> QED
  BY <1>2, <1>3, TextHas

\* Short texts.
LEMMA ShortTexts ==
    /\ Text(<< >>) /\ Len(<< >>) = 0
    /\ \A a : Text(<< a >>) /\ Len(<< a >>) = 1 /\ << a >>[1] = a
    /\ \A a, b : Text(<< a, b >>) /\ Len(<< a, b >>) = 2 /\ << a, b >>[1] = a /\ << a, b >>[2] = b
    /\ \A a, b, c : /\ Text(<< a, b, c >>) /\ Len(<< a, b, c >>) = 3
                    /\ << a, b, c >>[1] = a /\ << a, b, c >>[2] = b /\ << a, b, c >>[3] = c
BY DEF Text, ToSet

\* Only the empty text has no tokens.
LEMMA EmptyText == ASSUME NEW s, Text(s) PROVE (s = << >>) <=> (Len(s) = 0)
BY SameText, ShortTexts, TextHas

\* Parts of a text.
LEMMA Parts ==
    ASSUME NEW s, Text(s), NEW i \in Nat \ {0}, NEW j \in Nat, j <= Len(s)
    PROVE  /\ Text(SubSeq(s, i, j)) /\ Len(SubSeq(s, i, j)) = IF i <= j THEN j - i + 1 ELSE 0
           /\ \A k \in Nat \ {0} : k <= j - i + 1 => SubSeq(s, i, j)[k] = s[i + k - 1]
           /\ i > j => SubSeq(s, i, j) = << >>
<1> DEFINE n == IF i <= j THEN j - i + 1 ELSE 0
           t == SubSeq(s, i, j)
<1>1. n \in Nat /\ 1 .. (1 + j - i) = 1 .. n
  OBVIOUS
<1>2. t = [k \in 1 .. n |-> s[i + k - 1]]
  BY <1>1
<1>3. t = [k \in 1 .. n |-> t[k]]
  BY <1>2
<1> HIDE DEF n, t
<1>4. Text(t) /\ Len(t) = n
  BY <1>1, <1>3, TextIs
<1>5. i > j => t = << >>
  BY <1>4, EmptyText DEF n
<1>6. \A k \in Nat \ {0} : k <= j - i + 1 => t[k] = s[i + k - 1]
  <2> SUFFICES ASSUME NEW k \in Nat \ {0}, k <= j - i + 1 PROVE t[k] = s[i + k - 1]
    OBVIOUS
  <2>1. k \in 1 .. n
    BY DEF n
  <2> QED
    BY <1>2, <2>1
<1> QED
  BY <1>4, <1>5, <1>6 DEF n, t

\* A part of one token.
LEMMA OnePart ==
    ASSUME NEW s, Text(s), NEW i \in 1 .. Len(s)
    PROVE  Text(SubSeq(s, i, i)) /\ Len(SubSeq(s, i, i)) = 1 /\ SubSeq(s, i, i)[1] = s[i]
<1>1. i \in Nat \ {0} /\ i \in Nat /\ i <= Len(s)
  BY TextHas
<1>2. Len(SubSeq(s, i, i)) = IF i <= i THEN i - i + 1 ELSE 0
  BY <1>1, Parts
<1>3. 1 <= i - i + 1 /\ i + 1 - 1 = i
  BY <1>1
<1>4. SubSeq(s, i, i)[1] = s[i + 1 - 1]
  BY <1>1, <1>3, Parts
<1> QED
  BY <1>1, <1>2, <1>3, <1>4, Parts

\* It is that token.
LEMMA OnePartIs ==
    ASSUME NEW s, Text(s), NEW i \in 1 .. Len(s)
    PROVE  SubSeq(s, i, i) = << s[i] >>
<1> DEFINE a == SubSeq(s, i, i)
           b == << s[i] >>
<1>1. Text(a) /\ Len(a) = 1 /\ a[1] = s[i]
  BY OnePart
<1>2. Text(b) /\ Len(b) = 1 /\ b[1] = s[i]
  BY ShortTexts
<1> HIDE DEF a, b
<1>3. a = b
  BY <1>1, <1>2, SameText
<1> QED
  BY <1>3 DEF a, b

\* Single tokens one after the other.
LEMMA GluedTokens ==
    /\ \A a, b : << a >> \o << b >> = << a, b >>
    /\ \A a, b, c : << a, b >> \o << c >> = << a, b, c >>
<1>1. ASSUME NEW a, NEW b PROVE << a >> \o << b >> = << a, b >>
  <2> DEFINE s == << a >>
             t == << b >>
             w == << a, b >>
  <2>1. /\ Text(s) /\ Len(s) = 1 /\ s[1] = a /\ Text(t) /\ Len(t) = 1 /\ t[1] = b
        /\ Text(w) /\ Len(w) = 2 /\ w[1] = a /\ w[2] = b
    BY ShortTexts
  <2> HIDE DEF s, t, w
  <2>2. /\ Text(s \o t) /\ Len(s \o t) = Len(s) + Len(t)
        /\ \A i \in 1 .. Len(s) : (s \o t)[i] = s[i]
        /\ \A i \in Nat : i > Len(s) /\ i <= Len(s) + Len(t) => (s \o t)[i] = t[i - Len(s)]
    BY <2>1, Glued
  <2>3. Len(s \o t) = 2 /\ (s \o t)[1] = a /\ (s \o t)[2] = b
    BY <2>1, <2>2
  <2>4. \A i \in 1 .. 2 : (s \o t)[i] = w[i]
    BY <2>1, <2>3
  <2>5. s \o t = w
    BY <2>1, <2>2, <2>3, <2>4, SameText
  <2> QED
    BY <2>5 DEF s, t, w
<1>2. ASSUME NEW a, NEW b, NEW c PROVE << a, b >> \o << c >> = << a, b, c >>
  <2> DEFINE s == << a, b >>
             t == << c >>
             w == << a, b, c >>
  <2>1. /\ Text(s) /\ Len(s) = 2 /\ s[1] = a /\ s[2] = b /\ Text(t) /\ Len(t) = 1 /\ t[1] = c
        /\ Text(w) /\ Len(w) = 3 /\ w[1] = a /\ w[2] = b /\ w[3] = c
    BY ShortTexts
  <2> HIDE DEF s, t, w
  <2>2. /\ Text(s \o t) /\ Len(s \o t) = Len(s) + Len(t)
        /\ \A i \in 1 .. Len(s) : (s \o t)[i] = s[i]
        /\ \A i \in Nat : i > Len(s) /\ i <= Len(s) + Len(t) => (s \o t)[i] = t[i - Len(s)]
    BY <2>1, Glued
  <2>3. Len(s \o t) = 3 /\ (s \o t)[1] = a /\ (s \o t)[2] = b /\ (s \o t)[3] = c
    BY <2>1, <2>2
  <2>4. \A i \in 1 .. 3 : (s \o t)[i] = w[i]
    BY <2>1, <2>3
  <2>5. s \o t = w
    BY <2>1, <2>2, <2>3, <2>4, SameText
  <2> QED
    BY <2>5 DEF s, t, w
<1> QED
  BY <1>1, <1>2

\* Adjacent parts make one.
LEMMA Adjacent ==
    ASSUME NEW s, Text(s), NEW i \in Nat \ {0}, NEW j \in Nat, NEW m \in Nat,
           i <= j + 1, j <= m, m <= Len(s)
    PROVE  SubSeq(s, i, j) \o SubSeq(s, j + 1, m) = SubSeq(s, i, m)
<1> DEFINE a == SubSeq(s, i, j)
           b == SubSeq(s, j + 1, m)
           c == SubSeq(s, i, m)
<1>0. Len(s) \in Nat /\ j <= Len(s) /\ j + 1 \in Nat \ {0}
  BY TextHas
<1>1. /\ Text(a) /\ Len(a) = j - i + 1
      /\ \A k \in Nat \ {0} : k <= j - i + 1 => a[k] = s[i + k - 1]
  <2>1. Len(a) = IF i <= j THEN j - i + 1 ELSE 0
    BY <1>0, Parts
  <2> QED
    BY <1>0, <2>1, Parts
<1>2. /\ Text(b) /\ Len(b) = m - j
      /\ \A k \in Nat \ {0} : k <= m - j => b[k] = s[j + 1 + k - 1]
  <2>1. Len(b) = IF j + 1 <= m THEN m - (j + 1) + 1 ELSE 0
    BY <1>0, Parts
  <2>2. \A k \in Nat \ {0} : k <= m - (j + 1) + 1 => b[k] = s[j + 1 + k - 1]
    BY <1>0, Parts
  <2> QED
    BY <1>0, <2>1, <2>2, Parts
<1>3. /\ Text(c) /\ Len(c) = m - i + 1
      /\ \A k \in Nat \ {0} : k <= m - i + 1 => c[k] = s[i + k - 1]
  <2>1. Len(c) = IF i <= m THEN m - i + 1 ELSE 0
    BY <1>0, Parts
  <2> QED
    BY <1>0, <2>1, Parts
<1> HIDE DEF a, b, c
<1>4. Text(a \o b) /\ Len(a \o b) = m - i + 1
  <2>1. Text(a \o b) /\ Len(a \o b) = Len(a) + Len(b)
    BY <1>1, <1>2, Glued
  <2>2. (j - i + 1) + (m - j) = m - i + 1
    OBVIOUS
  <2> QED
    BY <1>1, <1>2, <2>1, <2>2
<1>5. ASSUME NEW k \in 1 .. (m - i + 1) PROVE (a \o b)[k] = c[k]
  <2>0. k <= j - i + 1 \/ k > j - i + 1
    OBVIOUS
  <2>1. CASE k <= j - i + 1
    BY <1>1, <1>2, <1>3, <2>1, Glued
  <2>2. CASE k > j - i + 1
    <3>1. (a \o b)[k] = b[k - (j - i + 1)]
      BY <1>0, <1>1, <1>2, <2>2, Glued
    <3>2. k - (j - i + 1) \in Nat \ {0} /\ k - (j - i + 1) <= m - j
      BY <2>2
    <3>3. j + 1 + (k - (j - i + 1)) - 1 = i + k - 1
      OBVIOUS
    <3> QED
      BY <1>2, <1>3, <3>1, <3>2, <3>3
  <2> QED
    BY <2>0, <2>1, <2>2
<1>6. a \o b = c
  BY <1>3, <1>4, <1>5, SameText
<1> QED
  BY <1>6 DEF a, b, c

\* A text with nothing before or after it.
LEMMA GluedToNothing == ASSUME NEW s, Text(s) PROVE s \o << >> = s /\ << >> \o s = s
BY ConcatEmptySeq DEF Text

-----------------------------------------------------------------------------
(* Paths. *)

\* A path is a text: slashes at odd positions, names at even ones.
LEMMA PathTokens ==
    ASSUME NEW names, NEW m \in Nat
    PROVE  /\ Text(PathOf(names, m)) /\ Len(PathOf(names, m)) = m
           /\ \A i \in 1 .. m : PathOf(names, m)[i] = IF i % 2 = 1 THEN "/" ELSE names[i \div 2]
<1>1. PathOf(names, m) = [i \in 1 .. m |-> PathOf(names, m)[i]]
  BY DEF PathOf
<1> QED
  BY <1>1, TextIs DEF PathOf

\* A path begins with the shorter one.
LEMMA PathBegins ==
    ASSUME NEW names, NEW m \in Nat, NEW j \in Nat, j <= m
    PROVE  SubSeq(PathOf(names, m), 1, j) = PathOf(names, j)
<1> DEFINE s == SubSeq(PathOf(names, m), 1, j)
           t == PathOf(names, j)
<1>1. Text(s) /\ Len(s) = j /\ \A k \in Nat \ {0} : k <= j => s[k] = PathOf(names, m)[k]
  <2>1. Len(s) = IF 1 <= j THEN j - 1 + 1 ELSE 0
    BY PathTokens, Parts
  <2>2. \A k \in Nat \ {0} : k <= j - 1 + 1 => s[k] = PathOf(names, m)[1 + k - 1]
    BY PathTokens, Parts
  <2> QED
    BY <2>1, <2>2, PathTokens, Parts
<1>2. Text(t) /\ Len(t) = j
  BY PathTokens
<1>3. \A k \in 1 .. j : s[k] = t[k]
  BY <1>1, PathTokens
<1> HIDE DEF s, t
<1>4. s = t
  BY <1>1, <1>2, <1>3, SameText
<1> QED
  BY <1>4 DEF s, t

\* The least number of a set that has one.
LEMMA MinIs ==
    ASSUME NEW S, NEW i \in S, \A j \in S : i <= j, S \subseteq Int
    PROVE  Min(S) = i
<1>1. Min(S) \in S /\ \A j \in S : Min(S) <= j
  BY DEF Min
<1>2. Min(S) <= i /\ i <= Min(S) /\ Min(S) \in Int /\ i \in Int
  BY <1>1
<1> QED
  BY <1>2

\* No name of a list is a slash.
NoSlash(names) == \A i \in 1 .. Len(names) : names[i] # "/"

\* CutAtSlash of the rest of a path, from the position k of a name (parsing_urls.go:70-92).
LEMMA CutPath ==
    ASSUME NEW names, Text(names), NoSlash(names), NEW m \in Nat, m <= 2 * Len(names) + 1,
           NEW k \in Nat \ {0}, k % 2 = 0
    PROVE  LET P == PathOf(names, m) IN
           CutAtSlash(SubSeq(P, k, m))
             = << IF k <= m THEN SubSeq(P, k, k) ELSE << >>, SubSeq(P, k + 2, m) >>
<1> DEFINE P == PathOf(names, m)
           t == SubSeq(P, k, m)
           I == {i \in 1 .. Len(t) : t[i] = "/"}
<1>1. Text(P) /\ Len(P) = m /\ \A i \in 1 .. m : P[i] = IF i % 2 = 1 THEN "/" ELSE names[i \div 2]
  BY PathTokens
<1>2. /\ Text(t) /\ Len(t) = IF k <= m THEN m - k + 1 ELSE 0
      /\ \A i \in Nat \ {0} : i <= m - k + 1 => t[i] = P[k + i - 1]
      /\ k > m => t = << >>
  BY <1>1, Parts
<1>3. CutAtSlash(t) = IF I = {} THEN << t, << >> >>
                      ELSE IF Min(I) = 0 THEN << t, << >> >>
                      ELSE << SubSeq(t, 1, Min(I) - 1), SubSeq(t, Min(I) + 1, Len(t)) >>
  BY DEF CutAtSlash, SelectInSeq
<1>4. k <= m => t[1] # "/"
  <2> SUFFICES ASSUME k <= m PROVE t[1] # "/"
    OBVIOUS
  <2>1. t[1] = P[k]
    <3>1. 1 <= m - k + 1 /\ k + 1 - 1 = k
      OBVIOUS
    <3> QED
      BY <1>2, <3>1
  <2>2. P[k] = names[k \div 2]
    BY <1>1
  <2>3. Len(names) \in Nat
    BY TextHas
  <2>4. k \div 2 \in 1 .. Len(names)
    BY <2>3
  <2> QED
    BY <2>1, <2>2, <2>4 DEF NoSlash
<1>5. CASE k >= m
  <2>1. I = {}
    <3>1. Len(t) = IF k = m THEN 1 ELSE 0
      BY <1>2, <1>5
    <3> QED
      BY <1>4, <3>1
  <2>2. SubSeq(P, k + 2, m) = << >>
    <3>1. k + 2 \in Nat \ {0} /\ k + 2 > m
      BY <1>5
    <3> QED
      BY <1>1, <3>1, Parts
  <2>3. t = IF k <= m THEN SubSeq(P, k, k) ELSE << >>
    <3>1. CASE k = m
      <4> HIDE DEF P
      <4> QED
        BY <3>1
    <3>2. CASE k > m
      <4>1. t = << >> /\ ~ k <= m
        BY <1>2, <3>2
      <4> HIDE DEF t, P
      <4> QED
        BY <4>1
    <3> QED
      BY <1>5, <3>1, <3>2
  <2> HIDE DEF P, t, I
  <2> QED
    BY <1>3, <2>1, <2>2, <2>3 DEF P, t
<1>6. CASE k + 1 <= m
  <2>1. Len(t) = m - k + 1 /\ Len(t) >= 2
    BY <1>2, <1>6
  <2>2. t[2] = "/"
    <3>1. 2 \in Nat \ {0} /\ 2 <= m - k + 1 /\ k + 2 - 1 = k + 1
      BY <1>6
    <3>2. t[2] = P[k + 1]
      BY <1>2, <3>1
    <3>3. k + 1 \in 1 .. m /\ (k + 1) % 2 = 1
      BY <1>6
    <3> QED
      BY <1>1, <3>2, <3>3
  <2>3. 2 \in I /\ \A j \in I : 2 <= j
    <3>1. \A j \in 1 .. Len(t) : j # 1 => 2 <= j
      BY <2>1
    <3>2. 1 \notin I
      BY <1>4, <1>6
    <3> QED
      BY <2>1, <2>2, <3>1, <3>2
  <2>4. I \subseteq Int
    OBVIOUS
  <2>5. Min(I) = 2
    <3> HIDE DEF I
    <3> QED
      BY <2>3, <2>4, MinIs
  <2>6. CutAtSlash(t) = << SubSeq(t, 1, 1), SubSeq(t, 3, Len(t)) >>
    <3> HIDE DEF I, t
    <3>1. Min(I) - 1 = 1 /\ Min(I) + 1 = 3 /\ Min(I) # 0
      BY <2>5
    <3> QED
      BY <1>3, <2>3, <3>1
  <2>7. SubSeq(t, 1, 1) = SubSeq(P, k, k)
    <3> DEFINE a == SubSeq(t, 1, 1)
               b == SubSeq(P, k, k)
    <3>1. Text(a) /\ Len(a) = 1 /\ a[1] = t[1]
      <4>1. Text(t) /\ 1 \in 1 .. Len(t)
        BY <1>2, <2>1
      <4> HIDE DEF t
      <4> QED
        BY <4>1, OnePart
    <3>2. Text(b) /\ Len(b) = 1 /\ b[1] = P[k]
      <4>1. Text(P) /\ k \in 1 .. Len(P)
        BY <1>1, <1>6
      <4> HIDE DEF P
      <4> QED
        BY <4>1, OnePart
    <3>3. t[1] = P[k]
      <4>1. 1 <= m - k + 1 /\ k + 1 - 1 = k
        BY <1>6
      <4> QED
        BY <1>2, <4>1
    <3> HIDE DEF a, b, t, P
    <3>4. a = b
      BY <3>1, <3>2, <3>3, SameText
    <3> QED
      BY <3>4 DEF a, b
  <2>8. SubSeq(t, 3, Len(t)) = SubSeq(P, k + 2, m)
    <3> DEFINE a == SubSeq(t, 3, Len(t))
               b == SubSeq(P, k + 2, m)
    <3>0. 3 \in Nat \ {0} /\ k + 2 \in Nat \ {0} /\ Len(t) \in Nat
      BY <2>1
    <3>1. /\ Text(a) /\ Len(a) = IF 3 <= Len(t) THEN Len(t) - 3 + 1 ELSE 0
          /\ \A i \in Nat \ {0} : i <= Len(t) - 3 + 1 => a[i] = t[3 + i - 1]
      <4>1. Text(t) /\ Len(t) <= Len(t)
        BY <1>2, <3>0
      <4> HIDE DEF t
      <4> QED
        BY <3>0, <4>1, Parts
    <3>2. /\ Text(b) /\ Len(b) = IF k + 2 <= m THEN m - (k + 2) + 1 ELSE 0
          /\ \A i \in Nat \ {0} : i <= m - (k + 2) + 1 => b[i] = P[(k + 2) + i - 1]
      BY <1>1, <3>0, Parts
    <3>3. Len(a) = Len(b)
      BY <2>1, <3>1, <3>2
    <3>4. ASSUME NEW i \in 1 .. Len(a) PROVE a[i] = b[i]
      <4>1. i \in Nat \ {0} /\ i <= Len(t) - 3 + 1 /\ i <= m - (k + 2) + 1
        BY <2>1, <3>1
      <4>2. a[i] = t[3 + i - 1] /\ b[i] = P[(k + 2) + i - 1]
        BY <3>1, <3>2, <4>1
      <4>3. 3 + i - 1 \in Nat \ {0} /\ 3 + i - 1 <= m - k + 1 /\ k + (3 + i - 1) - 1 = (k + 2) + i - 1
        BY <2>1, <4>1
      <4>4. t[3 + i - 1] = P[k + (3 + i - 1) - 1]
        BY <1>2, <4>3
      <4> QED
        BY <4>2, <4>3, <4>4
    <3> HIDE DEF a, b, t, P
    <3>5. a = b
      BY <3>1, <3>2, <3>3, <3>4, SameText
    <3> QED
      BY <3>5 DEF a, b
  <2> HIDE DEF P, t, I
  <2>9. k <= m
    BY <1>6
  <2> QED
    BY <2>6, <2>7, <2>8, <2>9 DEF P, t
<1>7. k >= m \/ k + 1 <= m
  OBVIOUS
<1> QED
  BY <1>5, <1>6, <1>7
\* What URL puts in front of a part of the path (parsing_urls.go:123-134).
Part(text) == IF text = << >> THEN << >> ELSE << "/" >> \o text

\* A name and what follows it come back with the slash that was before them.
LEMMA PartOfPath ==
    ASSUME NEW names, NEW m \in Nat, NEW k \in Nat, k >= 2, k % 2 = 0, NEW j \in Nat, k <= j, j <= m
    PROVE  Part(SubSeq(PathOf(names, m), k, j)) = SubSeq(PathOf(names, m), k - 1, j)
<1> DEFINE P == PathOf(names, m)
           s == SubSeq(P, k - 1, k - 1)
<1>1. Text(P) /\ Len(P) = m /\ \A i \in 1 .. m : P[i] = IF i % 2 = 1 THEN "/" ELSE names[i \div 2]
  BY PathTokens
<1> HIDE DEF P
<1>2. SubSeq(P, k, j) # << >>
  <2>1. k \in Nat \ {0} /\ j <= Len(P) /\ j - k + 1 # 0
    BY <1>1
  <2>2. Text(SubSeq(P, k, j)) /\ Len(SubSeq(P, k, j)) = IF k <= j THEN j - k + 1 ELSE 0
    BY <1>1, <2>1, Parts
  <2> QED
    BY <2>1, <2>2, EmptyText
<1>3. s = << "/" >>
  <2>1. k - 1 \in 1 .. Len(P) /\ (k - 1) % 2 = 1
    BY <1>1
  <2>2. Text(s) /\ Len(s) = 1 /\ s[1] = P[k - 1]
    BY <1>1, <2>1, OnePart
  <2>3. P[k - 1] = "/"
    BY <1>1, <2>1
  <2>4. Text(<< "/" >>) /\ Len(<< "/" >>) = 1 /\ << "/" >>[1] = "/"
    BY ShortTexts
  <2> HIDE DEF s
  <2> QED
    BY <2>2, <2>3, <2>4, SameText
<1>4. s \o SubSeq(P, k, j) = SubSeq(P, k - 1, j)
  <2>1. k - 1 \in Nat \ {0} /\ k - 1 \in Nat /\ k - 1 <= (k - 1) + 1 /\ k - 1 <= j /\ j <= Len(P)
    BY <1>1
  <2>2. SubSeq(P, k - 1, k - 1) \o SubSeq(P, (k - 1) + 1, j) = SubSeq(P, k - 1, j)
    BY <1>1, <2>1, Adjacent
  <2>3. (k - 1) + 1 = k
    OBVIOUS
  <2> QED
    BY <2>2, <2>3
<1> HIDE DEF s
<1> QED
  BY <1>2, <1>3, <1>4 DEF Part, P

\* The path without the slash in front.
LEMMA Unrooted ==
    ASSUME NEW names, NEW m \in Nat, NEW path, path = PathOf(names, m)
    PROVE  (IF path # << >> /\ path[1] = "/" THEN Tail(path) ELSE path) = SubSeq(PathOf(names, m), 2, m)
<1> DEFINE P == PathOf(names, m)
<1>1. Text(P) /\ Len(P) = m /\ \A i \in 1 .. m : P[i] = IF i % 2 = 1 THEN "/" ELSE names[i \div 2]
  BY PathTokens
<1> HIDE DEF P
<1>2. CASE m = 0
  <2>1. P = << >>
    BY <1>1, <1>2, EmptyText
  <2>2. SubSeq(P, 2, m) = << >>
    BY <1>1, <1>2, Parts
  <2> QED
    BY <2>1, <2>2 DEF P
<1>3. CASE m >= 1
  <2>1. P # << >> /\ P[1] = "/"
    <3>1. P[1] = "/"
      BY <1>1, <1>3
    <3> QED
      BY <1>1, <1>3, <3>1, EmptyText
  <2>2. Tail(P) = SubSeq(P, 2, Len(P))
    <3>1. P \in Seq(ToSet(P))
      BY <1>1 DEF Text
    <3> QED
      BY <2>1, <3>1, HeadTailProperties
  <2> QED
    BY <1>1, <2>1, <2>2 DEF P
<1> QED
  BY <1>2, <1>3

\* The names that NewFileURLParts finds in a path.
LEMMA PartNames ==
    ASSUME NEW u, NEW seen, NEW path,
           path = IF u.Path # << >> /\ u.Path[1] = "/" THEN Tail(u.Path) ELSE u.Path
    PROVE  LET up == NewFileURLParts(u, seen) IN
           /\ up.Host = u.Host
           /\ ~ isIPEndpointStyle(u.Host) =>
                /\ up.ShareName = CutAtSlash(path)[1] /\ up.DirectoryOrFilePath = CutAtSlash(path)[2]
           /\ isIPEndpointStyle(u.Host) =>
                /\ up.AccountName = CutAtSlash(path)[1]
                /\ up.ShareName = CutAtSlash(CutAtSlash(path)[2])[1]
                /\ up.DirectoryOrFilePath = CutAtSlash(CutAtSlash(path)[2])[2]
<1> DEFINE up == NewFileURLParts(u, seen)
           account == IF isIPEndpointStyle(u.Host) THEN CutAtSlash(path) ELSE << << >>, path >>
<1>1. /\ up.Host = u.Host /\ up.AccountName = account[1] /\ up.ShareName = CutAtSlash(account[2])[1]
      /\ up.DirectoryOrFilePath = CutAtSlash(account[2])[2]
  BY DEF NewFileURLParts, PartsLeaving
<1>2. << << >>, path >>[2] = path
  OBVIOUS
<1> HIDE DEF up
<1> QED
  BY <1>1, <1>2 DEF up

\* Taken apart and put together again a path keeps its names; what it may lose is a
\* slash at the end (parsing_urls.go:63-93 and 123-134).
LEMMA PathKept ==
    ASSUME NEW names, Text(names), NoSlash(names), NEW m \in {2 * Len(names), 2 * Len(names) + 1},
           NEW u, u.Path = PathOf(names, m), NEW seen, NEW up,
           up.Host = u.Host, up.AccountName = NewFileURLParts(u, seen).AccountName,
           up.ShareName = NewFileURLParts(u, seen).ShareName,
           up.DirectoryOrFilePath = NewFileURLParts(u, seen).DirectoryOrFilePath
    PROVE  \E n \in {2 * Len(names), 2 * Len(names) + 1} : URL(up).Path = PathOf(names, n)
<1> DEFINE P == PathOf(names, m)
           one(k) == IF k <= m THEN SubSeq(P, k, k) ELSE << >>
           rest == SubSeq(P, 2, m)
<1>1. Len(names) \in Nat /\ m \in Nat /\ m <= 2 * Len(names) + 1
  BY TextHas
<1>2. /\ CutAtSlash(rest) = << one(2), SubSeq(P, 4, m) >>
      /\ CutAtSlash(SubSeq(P, 4, m)) = << one(4), SubSeq(P, 6, m) >>
  <2>1. CutAtSlash(rest) = << one(2), SubSeq(P, 2 + 2, m) >>
    BY <1>1, CutPath
  <2>2. CutAtSlash(SubSeq(P, 4, m)) = << one(4), SubSeq(P, 4 + 2, m) >>
    BY <1>1, CutPath
  <2>3. 2 + 2 = 4 /\ 4 + 2 = 6
    OBVIOUS
  <2> HIDE DEF rest, P, one
  <2> QED
    BY <2>1, <2>2, <2>3
<1>3. (IF u.Path # << >> /\ u.Path[1] = "/" THEN Tail(u.Path) ELSE u.Path) = rest
  BY <1>1, Unrooted
<1>4. /\ SubSeq(P, 1, m) = P
      /\ \A j \in Nat : j <= m => SubSeq(P, 1, j) = PathOf(names, j)
  BY <1>1, PathBegins
<1>5. /\ Part(one(2)) = IF 2 <= m THEN SubSeq(P, 1, 2) ELSE << >>
      /\ Part(one(4)) = IF 4 <= m THEN SubSeq(P, 3, 4) ELSE << >>
      /\ 4 <= m => Part(SubSeq(P, 4, m)) = SubSeq(P, 3, m)
      /\ 6 <= m => Part(SubSeq(P, 6, m)) = SubSeq(P, 5, m)
      /\ 2 <= m => one(2) # << >>
      /\ 4 <= m => one(4) # << >>
  <2>0. \A k \in Nat : k >= 2 /\ k % 2 = 0 /\ k <= m => Part(SubSeq(P, k, k)) = SubSeq(P, k - 1, k)
    <3> SUFFICES ASSUME NEW k \in Nat, k >= 2, k % 2 = 0, k <= m
                 PROVE  Part(SubSeq(P, k, k)) = SubSeq(P, k - 1, k)
      OBVIOUS
    <3>1. k <= k
      OBVIOUS
    <3> QED
      BY <1>1, <3>1, PartOfPath
  <2>1. 2 <= m => Part(SubSeq(P, 2, 2)) = SubSeq(P, 2 - 1, 2)
    <3> HIDE DEF P
    <3> QED
      BY <2>0
  <2>2. 4 <= m => Part(SubSeq(P, 4, 4)) = SubSeq(P, 4 - 1, 4)
    <3> HIDE DEF P
    <3> QED
      BY <2>0
  <2>3. 4 <= m => Part(SubSeq(P, 4, m)) = SubSeq(P, 4 - 1, m)
    BY <1>1, PartOfPath
  <2>4. 6 <= m => Part(SubSeq(P, 6, m)) = SubSeq(P, 6 - 1, m)
    BY <1>1, PartOfPath
  <2>5. /\ 2 <= m => SubSeq(P, 2, 2) # << >>
        /\ 4 <= m => SubSeq(P, 4, 4) # << >>
    <3>1. Text(P) /\ Len(P) = m
      BY <1>1, PathTokens
    <3> HIDE DEF P
    <3>2. \A i \in 1 .. m : SubSeq(P, i, i) # << >>
      BY <3>1, OnePart, ShortTexts
    <3> QED
      BY <1>1, <3>2
  <2>6. Part(<< >>) = << >>
    BY DEF Part
  <2>7. 2 - 1 = 1 /\ 4 - 1 = 3 /\ 6 - 1 = 5
    OBVIOUS
  <2> HIDE DEF P
  <2> QED
    BY <2>1, <2>2, <2>3, <2>4, <2>5, <2>6, <2>7
<1>6. /\ 4 <= m => SubSeq(P, 1, 2) \o SubSeq(P, 3, m) = P
      /\ 4 <= m => SubSeq(P, 1, 2) \o SubSeq(P, 3, 4) = PathOf(names, 4)
      /\ 6 <= m => PathOf(names, 4) \o SubSeq(P, 5, m) = P
  <2>1. Text(P) /\ Len(P) = m
    BY <1>1, PathTokens
  <2> HIDE DEF P
  <2>2. 4 <= m => SubSeq(P, 1, 2) \o SubSeq(P, 2 + 1, m) = SubSeq(P, 1, m)
    BY <1>1, <2>1, Adjacent
  <2>3. 4 <= m => SubSeq(P, 1, 2) \o SubSeq(P, 2 + 1, 4) = SubSeq(P, 1, 4)
    BY <1>1, <2>1, Adjacent
  <2>4. 6 <= m => SubSeq(P, 1, 4) \o SubSeq(P, 4 + 1, m) = SubSeq(P, 1, m)
    BY <1>1, <2>1, Adjacent
  <2>5. 4 <= m => SubSeq(P, 1, 4) = PathOf(names, 4)
    BY <1>4
  <2>6. 6 <= m => 4 <= m
    BY <1>1
  <2>7. 2 + 1 = 3 /\ 4 + 1 = 5
    OBVIOUS
  <2> QED
    BY <1>4, <2>2, <2>3, <2>4, <2>5, <2>6, <2>7
<1>7. Text(PathOf(names, 0)) /\ PathOf(names, 0) = << >>
  BY PathTokens, EmptyText
<1>8. \A n \in Nat : << >> \o PathOf(names, n) = PathOf(names, n) /\ PathOf(names, n) \o << >> = PathOf(names, n)
  BY PathTokens, GluedToNothing
<1>9. CASE ~ isIPEndpointStyle(u.Host)
  <2>1. up.ShareName = one(2) /\ up.DirectoryOrFilePath = SubSeq(P, 4, m)
    <3> HIDE DEF P, one, rest
    <3> QED
      BY <1>2, <1>3, <1>9, PartNames
  <2>2. URL(up).Path = << >> \o Part(one(2)) \o (IF one(2) = << >> THEN << >> ELSE Part(SubSeq(P, 4, m)))
    <3> HIDE DEF P, one
    <3> QED
      BY <1>9, <2>1 DEF URL, Part
  <2>3. CASE m < 2
    <3>1. URL(up).Path = PathOf(names, 0)
      <4>1. one(2) = << >> /\ Part(one(2)) = << >>
        BY <1>1, <1>5, <2>3
      <4>2. << >> \o << >> \o << >> = << >>
        BY <1>7, <1>8
      <4> HIDE DEF P, one
      <4> QED
        BY <1>7, <2>2, <4>1, <4>2
    <3>2. 0 \in {2 * Len(names), 2 * Len(names) + 1}
      BY <1>1, <2>3
    <3> QED
      BY <3>1, <3>2
  <2>4. CASE 2 <= m /\ m < 4
    <3>1. SubSeq(P, 4, m) = << >> /\ Part(<< >>) = << >>
      <4>1. Text(P) /\ Len(P) = m
        BY <1>1, PathTokens
      <4> HIDE DEF P
      <4> QED
        BY <1>1, <2>4, <4>1, Parts DEF Part
    <3>2. URL(up).Path = PathOf(names, 2)
      <4>1. Part(one(2)) = PathOf(names, 2)
        BY <1>4, <1>5, <2>4
      <4>2. << >> \o PathOf(names, 2) \o << >> = PathOf(names, 2)
        BY <1>8
      <4> HIDE DEF P, one
      <4> QED
        BY <2>2, <3>1, <4>1, <4>2
    <3>3. 2 \in {2 * Len(names), 2 * Len(names) + 1}
      BY <1>1, <2>4
    <3> QED
      BY <3>2, <3>3
  <2>5. CASE 4 <= m
    <3>1. 2 <= m
      BY <1>1, <2>5
    <3>2. << >> \o SubSeq(P, 1, 2) = SubSeq(P, 1, 2)
      <4>1. SubSeq(P, 1, 2) = PathOf(names, 2)
        BY <1>4, <3>1
      <4> HIDE DEF P
      <4> QED
        BY <1>8, <4>1
    <3>3. URL(up).Path = P
      <4> HIDE DEF P, one
      <4> QED
        BY <1>5, <1>6, <2>2, <2>5, <3>1, <3>2
    <3> QED
      BY <3>3
  <2>6. m < 2 \/ (2 <= m /\ m < 4) \/ 4 <= m
    BY <1>1
  <2> QED
    BY <2>3, <2>4, <2>5, <2>6
<1>10. CASE isIPEndpointStyle(u.Host)
  <2>1. up.AccountName = one(2) /\ up.ShareName = one(4) /\ up.DirectoryOrFilePath = SubSeq(P, 6, m)
    <3> HIDE DEF P, one, rest
    <3>1. /\ up.AccountName = CutAtSlash(rest)[1]
          /\ up.ShareName = CutAtSlash(CutAtSlash(rest)[2])[1]
          /\ up.DirectoryOrFilePath = CutAtSlash(CutAtSlash(rest)[2])[2]
      BY <1>3, <1>10, PartNames
    <3>2. CutAtSlash(rest)[1] = one(2) /\ CutAtSlash(rest)[2] = SubSeq(P, 4, m)
      BY <1>2
    <3>3. CutAtSlash(SubSeq(P, 4, m))[1] = one(4) /\ CutAtSlash(SubSeq(P, 4, m))[2] = SubSeq(P, 6, m)
      BY <1>2
    <3> QED
      BY <3>1, <3>2, <3>3
  <2>2. URL(up).Path = Part(one(2)) \o Part(one(4)) \o (IF one(4) = << >> THEN << >> ELSE Part(SubSeq(P, 6, m)))
    <3> HIDE DEF P, one
    <3> QED
      BY <1>10, <2>1 DEF URL, Part
  <2>3. CASE m < 4
    <3>1. one(4) = << >> /\ Part(one(4)) = << >>
      BY <1>1, <1>5, <2>3
    <3>2. PICK n \in {0, 2} : Part(one(2)) = PathOf(names, n) /\ n \in {2 * Len(names), 2 * Len(names) + 1}
      <4>1. CASE m < 2
        BY <1>1, <1>5, <1>7, <4>1
      <4>2. CASE 2 <= m
        <5>1. Part(one(2)) = PathOf(names, 2)
          BY <1>4, <1>5, <4>2
        <5>2. 2 \in {2 * Len(names), 2 * Len(names) + 1}
          BY <1>1, <2>3, <4>2
        <5> QED
          BY <5>1, <5>2
      <4> QED
        BY <1>1, <4>1, <4>2
    <3>3. PathOf(names, n) \o << >> \o << >> = PathOf(names, n)
      BY <1>8
    <3> HIDE DEF P, one
    <3> QED
      BY <2>2, <3>1, <3>2, <3>3
  <2>4. CASE 4 <= m /\ m < 6
    <3>1. SubSeq(P, 6, m) = << >> /\ Part(<< >>) = << >>
      <4>1. Text(P) /\ Len(P) = m
        BY <1>1, PathTokens
      <4> HIDE DEF P
      <4> QED
        BY <1>1, <2>4, <4>1, Parts DEF Part
    <3>2. 2 <= m
      BY <1>1, <2>4
    <3>3. URL(up).Path = PathOf(names, 4)
      <4>1. PathOf(names, 4) \o << >> = PathOf(names, 4)
        BY <1>8
      <4> HIDE DEF P, one
      <4> QED
        BY <1>5, <1>6, <2>2, <2>4, <3>1, <3>2, <4>1
    <3>4. 4 \in {2 * Len(names), 2 * Len(names) + 1}
      BY <1>1, <2>4
    <3> QED
      BY <3>3, <3>4
  <2>5. CASE 6 <= m
    <3>1. 2 <= m /\ 4 <= m
      BY <1>1, <2>5
    <3>2. URL(up).Path = P
      <4> HIDE DEF P, one
      <4> QED
        BY <1>5, <1>6, <2>2, <2>5, <3>1
    <3> QED
      BY <3>2
  <2>6. m < 4 \/ (4 <= m /\ m < 6) \/ 6 <= m
    BY <1>1
  <2> QED
    BY <2>3, <2>4, <2>5, <2>6
<1> QED
  BY <1>9, <1>10

\* One more token at the end.
LEMMA Appended ==
    ASSUME NEW s, Text(s), NEW a
    PROVE  /\ Text(Append(s, a)) /\ Len(Append(s, a)) = Len(s) + 1
           /\ \A i \in 1 .. Len(s) : Append(s, a)[i] = s[i]
           /\ Append(s, a)[Len(s) + 1] = a
<1> DEFINE S == ToSet(s) \cup {a}
<1>1. s \in Seq(S)
  <2>1. s \in [1 .. Len(s) -> S] /\ Len(s) \in Nat
    BY TextHas DEF ToSet
  <2> HIDE DEF S
  <2> QED
    BY <2>1
<1>2. a \in S
  OBVIOUS
<1> HIDE DEF S
<1>3. /\ Append(s, a) \in Seq(S) /\ Len(Append(s, a)) = Len(s) + 1
      /\ \A i \in 1 .. Len(s) : Append(s, a)[i] = s[i]
      /\ Append(s, a)[Len(s) + 1] = a
  BY <1>1, <1>2, AppendProperties
<1>4. Text(Append(s, a))
  BY <1>3, LenProperties, TextIs
<1> QED
  BY <1>3, <1>4

\* appendToURLPath adds a name to those of the path, whether or not the path ends with a slash.
LEMMA PathGrows ==
    ASSUME NEW names, Text(names), NoSlash(names), NEW m \in {2 * Len(names), 2 * Len(names) + 1},
           NEW path, path = PathOf(names, m), NEW name
    PROVE  (IF path = << >> \/ Last(path) # "/" THEN path \o << "/", name >> ELSE Append(path, name))
             = PathOf(Append(names, name), 2 * (Len(names) + 1))
<1> DEFINE L == Len(names)
           N == Append(names, name)
           Q == PathOf(N, 2 * (L + 1))
           R == IF path = << >> \/ Last(path) # "/" THEN path \o << "/", name >> ELSE Append(path, name)
<1>1. L \in Nat /\ m \in Nat /\ 2 * (L + 1) = 2 * L + 2 /\ 2 * L + 2 \in Nat
  BY TextHas
<1>2. Text(path) /\ Len(path) = m /\ \A i \in 1 .. m : path[i] = IF i % 2 = 1 THEN "/" ELSE names[i \div 2]
  BY <1>1, PathTokens
<1>3. /\ Text(Q) /\ Len(Q) = 2 * L + 2
      /\ \A i \in 1 .. 2 * L + 2 : Q[i] = IF i % 2 = 1 THEN "/" ELSE N[i \div 2]
  <2> HIDE DEF L, N
  <2> QED
    BY <1>1, PathTokens
<1>4. (\A i \in 1 .. L : N[i] = names[i]) /\ N[L + 1] = name
  BY Appended
<1> HIDE DEF L, N, Q
<1>5. (\A i \in 1 .. 2 * L : path[i] = Q[i]) /\ Q[2 * L + 1] = "/" /\ Q[2 * L + 2] = name
  <2>1. ASSUME NEW i \in 1 .. 2 * L PROVE path[i] = Q[i]
    <3>1. i \in 1 .. m /\ i \in 1 .. 2 * L + 2
      BY <1>1 DEF L
    <3>2. CASE i % 2 = 1
      BY <1>2, <1>3, <3>1, <3>2
    <3>3. CASE i % 2 # 1
      <4>1. i \div 2 \in 1 .. L
        BY <1>1, <3>3
      <4> QED
        BY <1>2, <1>3, <1>4, <3>1, <3>3, <4>1
    <3> QED
      BY <3>2, <3>3
  <2>2. 2 * L + 1 \in 1 .. 2 * L + 2 /\ (2 * L + 1) % 2 = 1
    BY <1>1
  <2>3. 2 * L + 2 \in 1 .. 2 * L + 2 /\ (2 * L + 2) % 2 = 0 /\ (2 * L + 2) \div 2 = L + 1
    BY <1>1
  <2> QED
    BY <1>3, <1>4, <2>1, <2>2, <2>3
<1>6. CASE m = 2 * L
  <2>1. path = << >> \/ Last(path) # "/"
    <3>1. CASE L = 0
      BY <1>1, <1>2, <1>6, <3>1, EmptyText
    <3>2. CASE L >= 1
      <4>1. m \in 1 .. m /\ m % 2 = 0 /\ m \div 2 = L /\ L \in 1 .. L
        BY <1>1, <1>6, <3>2
      <4>2. Last(path) = names[L]
        BY <1>2, <4>1 DEF Last
      <4>3. names[L] # "/"
        BY <4>1 DEF NoSlash, L
      <4> QED
        BY <4>2, <4>3
    <3> QED
      BY <1>1, <3>1, <3>2
  <2>2. R = path \o << "/", name >>
    BY <2>1
  <2>3. /\ Text(R) /\ Len(R) = m + 2
        /\ \A i \in 1 .. m : R[i] = path[i]
        /\ \A i \in Nat : i > m /\ i <= m + 2 => R[i] = << "/", name >>[i - m]
    <3> DEFINE e == << "/", name >>
    <3>1. Text(e) /\ Len(e) = 2
      BY ShortTexts
    <3>2. R = path \o e
      BY <2>2
    <3> HIDE DEF R, e
    <3>3. /\ Text(R) /\ Len(R) = m + 2
          /\ \A i \in 1 .. m : R[i] = path[i]
          /\ \A i \in Nat : i > m /\ i <= m + 2 => R[i] = e[i - m]
      <4>1. Text(path) /\ Len(path) = m
        BY <1>2
      <4>2. /\ Text(path \o e) /\ Len(path \o e) = Len(path) + Len(e)
            /\ \A i \in 1 .. Len(path) : (path \o e)[i] = path[i]
            /\ \A i \in Nat : i > Len(path) /\ i <= Len(path) + Len(e) => (path \o e)[i] = e[i - Len(path)]
        BY <3>1, <4>1, Glued
      <4> QED
        BY <3>1, <3>2, <4>1, <4>2
    <3> QED
      BY <3>3 DEF e
  <2>4. R[2 * L + 1] = "/" /\ R[2 * L + 2] = name
    <3> HIDE DEF R
    <3>1. /\ 2 * L + 1 \in Nat /\ 2 * L + 1 > m /\ 2 * L + 1 <= m + 2 /\ (2 * L + 1) - m = 1
          /\ 2 * L + 2 > m /\ 2 * L + 2 <= m + 2 /\ (2 * L + 2) - m = 2
      BY <1>1, <1>6
    <3>2. R[2 * L + 1] = << "/", name >>[1] /\ R[2 * L + 2] = << "/", name >>[2]
      BY <1>1, <2>3, <3>1
    <3> QED
      BY <3>2
  <2>5. \A i \in 1 .. 2 * L + 2 : i \in 1 .. 2 * L \/ i = 2 * L + 1 \/ i = 2 * L + 2
    BY <1>1
  <2>6. Len(R) = Len(Q)
    BY <1>3, <1>6, <2>3
  <2> HIDE DEF R
  <2>7. \A i \in 1 .. Len(R) : R[i] = Q[i]
    BY <1>3, <1>5, <1>6, <2>3, <2>4, <2>5, <2>6
  <2>8. R = Q
    BY <1>3, <2>3, <2>6, <2>7, SameText
  <2> QED
    BY <2>8 DEF R, Q, N, L
<1>7. CASE m = 2 * L + 1
  <2>1. path # << >> /\ Last(path) = "/" /\ path[2 * L + 1] = "/"
    <3>1. m \in 1 .. m /\ m % 2 = 1 /\ m # 0
      BY <1>1, <1>7
    <3> QED
      BY <1>2, <1>7, <3>1, EmptyText DEF Last
  <2>2. R = Append(path, name)
    BY <2>1
  <2> HIDE DEF R
  <2>3. /\ Text(R) /\ Len(R) = m + 1
        /\ \A i \in 1 .. m : R[i] = path[i]
        /\ R[m + 1] = name
    BY <1>2, <2>2, Appended
  <2>4. m + 1 = 2 * L + 2 /\ \A i \in 1 .. 2 * L + 2 :
                                (i \in 1 .. m /\ (i \in 1 .. 2 * L \/ i = 2 * L + 1)) \/ i = 2 * L + 2
    BY <1>1, <1>7
  <2>5. Len(R) = Len(Q)
    BY <1>3, <2>3, <2>4
  <2>6. \A i \in 1 .. Len(R) : R[i] = Q[i]
    BY <1>3, <1>5, <2>1, <2>3, <2>4
  <2>7. R = Q
    BY <1>3, <2>3, <2>5, <2>6, SameText
  <2> QED
    BY <2>7 DEF R, Q, N, L
<1> QED
  BY <1>6, <1>7 DEF L

\* The names of a path, the account among them if the host is an address.
LEMMA RootedNames ==
    ASSUME NEW host, NEW k, NEW names, NamesMeant(k, names)
    PROVE  LET all == RootNames(host) \o names IN
           /\ Text(RootNames(host)) /\ Text(all) /\ NoSlash(all) /\ Len(all) = Len(RootNames(host)) + Len(names)
           /\ \A name : /\ RootNames(host) \o Append(names, name) = Append(all, name)
                        /\ Len(Append(all, name)) = Len(all) + 1
<1> DEFINE r == RootNames(host)
           all == r \o names
<1>1. Text(r) /\ \A i \in 1 .. Len(r) : r[i] = Account
  BY ShortTexts DEF RootNames
<1>2. Text(names) /\ \A i \in 1 .. Len(names) : names[i] # "/"
  <2>1. Text(names) /\ ToSet(names) \cap {"/", "\\"} = {}
    BY DEF NamesMeant
  <2>2. \A i \in 1 .. Len(names) : names[i] \in ToSet(names)
    BY <2>1, TextHas DEF ToSet
  <2> QED
    BY <2>1, <2>2
<1> HIDE DEF r
<1>3. /\ Text(all) /\ Len(all) = Len(r) + Len(names)
      /\ \A i \in 1 .. Len(r) : all[i] = r[i]
      /\ \A i \in Nat : i > Len(r) /\ i <= Len(r) + Len(names) => all[i] = names[i - Len(r)]
  BY <1>1, <1>2, Glued
<1>4. Len(r) \in Nat /\ Len(names) \in Nat
  BY <1>1, <1>2, TextHas
<1> HIDE DEF all
<1>5. NoSlash(all)
  <2> SUFFICES ASSUME NEW i \in 1 .. Len(all) PROVE all[i] # "/"
    BY DEF NoSlash
  <2>1. CASE i \in 1 .. Len(r)
    BY <1>1, <1>3, <2>1 DEF Account
  <2>2. CASE i > Len(r)
    <3>1. i \in Nat /\ i <= Len(r) + Len(names) /\ i - Len(r) \in 1 .. Len(names)
      BY <1>3, <1>4, <2>2
    <3> QED
      BY <1>2, <1>3, <2>2, <3>1
  <2> QED
    BY <1>3, <1>4, <2>1, <2>2
<1>6. ASSUME NEW name PROVE r \o Append(names, name) = Append(all, name) /\ Len(Append(all, name)) = Len(all) + 1
  <2> DEFINE more == Append(names, name)
             a == r \o more
             b == Append(all, name)
  <2>1. /\ Text(more) /\ Len(more) = Len(names) + 1
        /\ \A i \in 1 .. Len(names) : more[i] = names[i]
        /\ more[Len(names) + 1] = name
    BY <1>2, Appended
  <2>2. /\ Text(b) /\ Len(b) = Len(all) + 1
        /\ \A i \in 1 .. Len(all) : b[i] = all[i]
        /\ b[Len(all) + 1] = name
    BY <1>3, Appended
  <2> HIDE DEF more, b
  <2>3. /\ Text(a) /\ Len(a) = Len(r) + Len(more)
        /\ \A i \in 1 .. Len(r) : a[i] = r[i]
        /\ \A i \in Nat : i > Len(r) /\ i <= Len(r) + Len(more) => a[i] = more[i - Len(r)]
    BY <1>1, <2>1, Glued
  <2> HIDE DEF a
  <2>4. Len(a) = Len(b)
    BY <1>3, <1>4, <2>1, <2>2, <2>3
  <2>5. ASSUME NEW i \in 1 .. Len(a) PROVE a[i] = b[i]
    <3>1. CASE i <= Len(r)
      <4>1. i \in 1 .. Len(r) /\ i \in 1 .. Len(all)
        BY <1>3, <1>4, <3>1
      <4> QED
        BY <1>3, <2>2, <2>3, <4>1
    <3>2. CASE i > Len(r) /\ i <= Len(r) + Len(names)
      <4>1. i \in Nat /\ i <= Len(r) + Len(more) /\ i - Len(r) \in 1 .. Len(names) /\ i \in 1 .. Len(all)
        BY <1>3, <1>4, <2>1, <3>2
      <4> QED
        BY <1>3, <2>1, <2>2, <2>3, <3>2, <4>1
    <3>3. CASE i > Len(r) + Len(names)
      <4>1. i \in Nat /\ i > Len(r) /\ i <= Len(r) + Len(more) /\ i - Len(r) = Len(names) + 1 /\ i = Len(all) + 1
        <5>1. Len(a) = Len(r) + Len(more) /\ Len(more) = Len(names) + 1 /\ Len(all) = Len(r) + Len(names)
          BY <1>3, <2>1, <2>3
        <5>2. i = Len(r) + Len(names) + 1
          BY <1>4, <3>3, <5>1
        <5> QED
          BY <1>4, <5>1, <5>2
      <4> QED
        BY <2>1, <2>2, <2>3, <4>1
    <3> QED
      BY <1>4, <3>1, <3>2, <3>3
  <2>6. a = b
    BY <2>2, <2>3, <2>4, <2>5, SameText
  <2> QED
    BY <2>2, <2>6 DEF a, b, more
<1> QED
  BY <1>1, <1>3, <1>5, <1>6 DEF all, r

\* The URL of the parts of a URL has the names of its path.
LEMMA PathOfParts ==
    ASSUME NEW k, NEW u, NEW names, NamesMeant(k, names), PathMeant(u, names), NEW seen, NEW up,
           up.Host = u.Host, up.AccountName = NewFileURLParts(u, seen).AccountName,
           up.ShareName = NewFileURLParts(u, seen).ShareName,
           up.DirectoryOrFilePath = NewFileURLParts(u, seen).DirectoryOrFilePath
    PROVE  PathMeant(URL(up), names) /\ URL(up).Host = u.Host
<1> DEFINE all == RootNames(u.Host) \o names
<1>1. Text(all) /\ NoSlash(all)
  BY RootedNames
<1>2. URL(up).Host = u.Host
  BY DEF URL
<1>3. PICK m \in {2 * Len(all), 2 * Len(all) + 1} : u.Path = PathOf(all, m)
  BY DEF PathMeant
<1> HIDE DEF all
<1>4. \E n \in {2 * Len(all), 2 * Len(all) + 1} : URL(up).Path = PathOf(all, n)
  BY <1>1, <1>3, PathKept
<1> QED
  BY <1>2, <1>4 DEF PathMeant, all

\* appendToURLPath adds its name and changes nothing else.
LEMMA PathOfAppend ==
    ASSUME NEW k, NEW u, DOMAIN u = {"Host", "Path", "Query"}, NEW names, NamesMeant(k, names),
           PathMeant(u, names), NEW name
    PROVE  LET w == appendToURLPath(u, name) IN
           /\ DOMAIN w = DOMAIN u /\ w.Host = u.Host /\ w.Query = u.Query
           /\ PathMeant(w, Append(names, name))
<1> DEFINE all == RootNames(u.Host) \o names
           w == appendToURLPath(u, name)
<1>1. Text(all) /\ NoSlash(all) /\ Len(all) \in Nat
  BY RootedNames, TextHas
<1>2. /\ DOMAIN w = DOMAIN u /\ w.Host = u.Host /\ w.Query = u.Query
      /\ w.Path = IF u.Path = << >> \/ Last(u.Path) # "/" THEN u.Path \o << "/", name >> ELSE Append(u.Path, name)
  BY DEF appendToURLPath
<1>3. RootNames(w.Host) \o Append(names, name) = Append(all, name) /\ Len(Append(all, name)) = Len(all) + 1
  BY <1>2, RootedNames
<1>4. PICK m \in {2 * Len(all), 2 * Len(all) + 1} : u.Path = PathOf(all, m)
  BY DEF PathMeant
<1> HIDE DEF all, w
<1>5. w.Path = PathOf(Append(all, name), 2 * (Len(all) + 1))
  BY <1>1, <1>2, <1>4, PathGrows
<1>6. PathMeant(w, Append(names, name))
  BY <1>3, <1>5 DEF PathMeant
<1> QED
  BY <1>2, <1>6 DEF w

-----------------------------------------------------------------------------
(* Queries. *)

\* The parameters that are kept as they are (parsing_urls.go:97-105).
Unparsed(query) == {k \in DOMAIN query : k # lower(shareSnapshot) /\ k[1] \notin SASParams}

\* The share snapshot is not a parameter of a SAS.
LEMMA SnapshotIsNotSAS == shareSnapshot \notin SASParams
BY DEF shareSnapshot, SASParams, TextParams

\* The parameters of an encoded SAS are in lower case.
LEMMA EncodedKeys ==
    ASSUME NEW p, NEW k \in DOMAIN Encode(p)
    PROVE  k[1] \in SASParams /\ k = lower(k[1]) /\ Text(Encode(p)[k]) /\ Len(Encode(p)[k]) = 1
<1>1. PICK name \in SASParams : k = lower(name)
  BY DEF Encode
<1>2. \E v : Encode(p)[k] = << v >>
  BY DEF Encode
<1>3. lower(name)[1] = name
  BY DEF lower
<1> QED
  BY <1>1, <1>2, <1>3, ShortTexts

\* The query of a URL that is put together: the unparsed parameters with all their values,
\* the snapshot if there is one, and the SAS.
LEMMA QueryMade ==
    ASSUME NEW u, \A k \in DOMAIN u.Query : Text(u.Query[k]), NEW seen, NEW up,
           up.UnparsedParams = NewFileURLParts(u, seen).UnparsedParams
    PROVE  LET Q == URL(up).Query
               E == Encode(up.SAS)
           IN /\ DOMAIN Q = Unparsed(u.Query) \cup (IF up.ShareSnapshot = << >> THEN {} ELSE {lower(shareSnapshot)})
                              \cup DOMAIN E
              /\ \A k \in Unparsed(u.Query) : Q[k] = u.Query[k]
              /\ up.ShareSnapshot # << >> => Q[lower(shareSnapshot)] = << up.ShareSnapshot >>
              /\ \A k \in DOMAIN E : Q[k] = E[k]
<1> DEFINE low == lower(shareSnapshot)
           q == u.Query
           U == up.UnparsedParams
           S == IF up.ShareSnapshot = << >> THEN << >> ELSE [k \in {low} |-> << up.ShareSnapshot >>]
           E == Encode(up.SAS)
           Q == URL(up).Query
           Qk(k) == (Get(U, k) \o Get(S, k)) \o Get(E, k)
<1>1. DOMAIN U = Unparsed(q) /\ \A k \in Unparsed(q) : U[k] = q[k]
  <2> DEFINE q1 == Without(q, {low})
  <2>1. U = Without(q1, {k \in DOMAIN q1 : k[1] \in SASParams})
    BY DEF NewFileURLParts, PartsLeaving
  <2> QED
    BY <2>1 DEF Without, Unparsed
<1>2. /\ up.ShareSnapshot = << >> => DOMAIN S = {}
      /\ up.ShareSnapshot # << >> => DOMAIN S = {low} /\ S[low] = << up.ShareSnapshot >>
  BY ShortTexts, TextHas
<1>3. Q = Join(Join(U, S), E)
  BY DEF URL
<1>4. low[1] = shareSnapshot /\ low \notin Unparsed(q)
  BY DEF lower, Unparsed
<1>5. \A k \in DOMAIN E : k[1] \in SASParams /\ Text(E[k])
  BY EncodedKeys
<1> HIDE DEF low, q, U, S, E, Q
<1>6. /\ DOMAIN Q = DOMAIN U \cup DOMAIN S \cup DOMAIN E
      /\ \A k \in DOMAIN Q : Q[k] = Qk(k)
  <2>1. /\ DOMAIN Join(U, S) = DOMAIN U \cup DOMAIN S
        /\ \A k \in DOMAIN U \cup DOMAIN S : Join(U, S)[k] = Get(U, k) \o Get(S, k)
    BY DEF Join
  <2>2. \A k : k \notin DOMAIN U \cup DOMAIN S => Get(Join(U, S), k) = << >> /\ Get(U, k) \o Get(S, k) = << >>
    <3>1. << >> \o << >> = << >>
      BY ShortTexts, GluedToNothing
    <3> QED
      BY <2>1, <3>1 DEF Get
  <2>3. \A k : Get(Join(U, S), k) = Get(U, k) \o Get(S, k)
    BY <2>1, <2>2 DEF Get
  <2>4. /\ DOMAIN Q = DOMAIN Join(U, S) \cup DOMAIN E
        /\ \A k \in DOMAIN Q : Q[k] = Get(Join(U, S), k) \o Get(E, k)
    BY <1>3 DEF Join
  <2> QED
    BY <2>1, <2>3, <2>4
<1>7. DOMAIN Q = Unparsed(q) \cup (IF up.ShareSnapshot = << >> THEN {} ELSE {low}) \cup DOMAIN E
  BY <1>1, <1>2, <1>6
<1>8. ASSUME NEW k \in Unparsed(q) PROVE Q[k] = q[k]
  <2>1. k \notin DOMAIN S /\ k \notin DOMAIN E
    BY <1>2, <1>4, <1>5 DEF Unparsed
  <2>2. Get(U, k) = q[k] /\ Get(S, k) = << >> /\ Get(E, k) = << >>
    BY <1>1, <2>1 DEF Get
  <2>3. Text(q[k]) /\ q[k] \o << >> = q[k]
    BY GluedToNothing DEF Unparsed, q
  <2> QED
    BY <1>1, <1>6, <2>2, <2>3
<1>9. ASSUME up.ShareSnapshot # << >> PROVE Q[low] = << up.ShareSnapshot >>
  <2>1. low \notin DOMAIN U /\ low \notin DOMAIN E
    BY <1>1, <1>4, <1>5, SnapshotIsNotSAS
  <2>2. Get(U, low) = << >> /\ Get(S, low) = << up.ShareSnapshot >> /\ Get(E, low) = << >>
    BY <1>2, <1>9, <2>1 DEF Get
  <2>3. \A a : (<< >> \o << a >>) \o << >> = << a >>
    BY ShortTexts, GluedToNothing
  <2> QED
    BY <1>2, <1>6, <1>9, <2>2, <2>3
<1>10. ASSUME NEW k \in DOMAIN E PROVE Q[k] = E[k]
  <2>1. k \notin DOMAIN U /\ k \notin DOMAIN S
    BY <1>1, <1>2, <1>4, <1>5, SnapshotIsNotSAS DEF Unparsed
  <2>2. Get(U, k) = << >> /\ Get(S, k) = << >> /\ Get(E, k) = E[k]
    BY <2>1 DEF Get
  <2>3. << >> \o << >> = << >> /\ << >> \o E[k] = E[k]
    BY <1>5, ShortTexts, GluedToNothing
  <2> QED
    BY <1>6, <2>2, <2>3
<1> QED
  BY <1>7, <1>8, <1>9, <1>10 DEF low, q, Q, E

\* Whatever SAS and snapshot go into it, the URL keeps the other parameters.
LEMMA QueryKept ==
    ASSUME NEW u, NEW others, QueryMeant(u, others), NEW seen, NEW up,
           up.UnparsedParams = NewFileURLParts(u, seen).UnparsedParams
    PROVE  QueryMeant(URL(up), others)
<1> DEFINE low == lower(shareSnapshot)
           q == u.Query
           Q == URL(up).Query
           E == Encode(up.SAS)
           ours(r) == {k \in DOMAIN r : k[1] \in SASParams \cup {shareSnapshot}}
<1>1. \A k \in DOMAIN q : Text(q[k]) /\ q[k] # << >>
  BY DEF QueryMeant
<1>2. /\ DOMAIN Q = Unparsed(q) \cup (IF up.ShareSnapshot = << >> THEN {} ELSE {low}) \cup DOMAIN E
      /\ \A k \in Unparsed(q) : Q[k] = q[k]
      /\ up.ShareSnapshot # << >> => Q[low] = << up.ShareSnapshot >>
      /\ \A k \in DOMAIN E : Q[k] = E[k]
  BY <1>1, QueryMade
<1>3. \A k \in DOMAIN E : k[1] \in SASParams /\ Text(E[k]) /\ Len(E[k]) = 1
  BY EncodedKeys
<1>4. low[1] = shareSnapshot
  BY DEF lower
<1> HIDE DEF low, q, Q, E
<1>5. \A k \in DOMAIN Q : Text(Q[k]) /\ Q[k] # << >>
  <2>1. \A k \in Unparsed(q) : k \in DOMAIN q
    BY DEF Unparsed
  <2>2. \A a : Text(<< a >>) /\ << a >> # << >>
    BY ShortTexts
  <2>3. \A k \in DOMAIN E : E[k] # << >>
    BY <1>3, ShortTexts
  <2> QED
    BY <1>1, <1>2, <1>3, <2>1, <2>2, <2>3
<1>6. DOMAIN Q \ ours(Q) = DOMAIN q \ ours(q)
  BY <1>2, <1>3, <1>4 DEF Unparsed, low
<1>7. \A k \in DOMAIN q \ ours(q) : Q[k] = q[k]
  <2>1. \A k \in DOMAIN q \ ours(q) : k \in Unparsed(q)
    BY <1>4 DEF Unparsed, low
  <2> QED
    BY <1>2, <2>1
<1>8. Without(Q, ours(Q)) = Without(q, ours(q))
  BY <1>6, <1>7 DEF Without
<1>9. Without(q, ours(q)) = others
  BY DEF QueryMeant, q
<1> QED
  BY <1>5, <1>8, <1>9 DEF QueryMeant, Q

\* What ranging over the map finds for a name: one of its spellings.
LEMMA Seen ==
    ASSUME NEW query, NEW seen \in Orders(query)
    PROVE  /\ DOMAIN seen = {k[1] : k \in DOMAIN query}
           /\ \A name \in DOMAIN seen : seen[name] \in DOMAIN query /\ seen[name][1] = name
<1> DEFINE spelt(name) == {k \in DOMAIN query : k[1] = name}
           names == {k[1] : k \in DOMAIN query}
           several == {name \in names : Cardinality(spelt(name)) > 1}
<1>1. PICK pick \in {f \in [several -> DOMAIN query] : \A name \in several : f[name] \in spelt(name)} :
          seen = [name \in names |-> IF name \in several THEN pick[name] ELSE CHOOSE k \in spelt(name) : TRUE]
  BY DEF Orders
<1>2. \A name \in several : pick[name] \in spelt(name)
  OBVIOUS
<1> HIDE DEF several
<1>3. DOMAIN seen = names
  BY <1>1
<1>4. ASSUME NEW name \in names PROVE seen[name] \in spelt(name)
  <2>1. spelt(name) # {}
    OBVIOUS
  <2>2. (CHOOSE k \in spelt(name) : TRUE) \in spelt(name)
    BY <2>1
  <2>3. seen[name] = IF name \in several THEN pick[name] ELSE CHOOSE k \in spelt(name) : TRUE
    BY <1>1
  <2> HIDE DEF spelt
  <2> QED
    BY <1>2, <2>2, <2>3
<1> QED
  BY <1>3, <1>4

\* A URL made with a snapshot names this one.
LEMMA SnapshotSet ==
    ASSUME NEW u, NEW others, QueryMeant(u, others), NEW seen, NEW up,
           up.UnparsedParams = NewFileURLParts(u, seen).UnparsedParams
    PROVE  SnapshotMeant(URL(up), up.ShareSnapshot)
<1> DEFINE low == lower(shareSnapshot)
           Q == URL(up).Query
           E == Encode(up.SAS)
<1>1. \A k \in DOMAIN u.Query : Text(u.Query[k])
  BY DEF QueryMeant
<1>2. /\ DOMAIN Q = Unparsed(u.Query) \cup (IF up.ShareSnapshot = << >> THEN {} ELSE {low}) \cup DOMAIN E
      /\ up.ShareSnapshot # << >> => Q[low] = << up.ShareSnapshot >>
  BY <1>1, QueryMade
<1>3. low \notin DOMAIN E
  BY EncodedKeys, SnapshotIsNotSAS DEF lower
<1>4. low \notin Unparsed(u.Query)
  BY DEF Unparsed
<1> HIDE DEF low, Q, E
<1> QED
  BY <1>2, <1>3, <1>4 DEF SnapshotMeant, low, Q

\* A URL made with the snapshot of another one names what that one named.
LEMMA SnapshotKept ==
    ASSUME NEW u, NEW others, QueryMeant(u, others), NEW snapshot, SnapshotMeant(u, snapshot),
           NEW seen \in Orders(u.Query), NEW up,
           up.UnparsedParams = NewFileURLParts(u, seen).UnparsedParams,
           up.ShareSnapshot = NewFileURLParts(u, seen).ShareSnapshot
    PROVE  SnapshotMeant(URL(up), snapshot)
<1> DEFINE low == lower(shareSnapshot)
           q == u.Query
           Q == URL(up).Query
<1>1. SUFFICES ASSUME \A k \in DOMAIN Q : k[1] = shareSnapshot => k = low
               PROVE  up.ShareSnapshot = snapshot
  <2>1. SnapshotMeant(URL(up), up.ShareSnapshot)
    BY SnapshotSet
  <2> HIDE DEF low, Q
  <2> QED
    BY <2>1 DEF SnapshotMeant, low, Q
<1>2. \A k \in DOMAIN q : k[1] = shareSnapshot => k = low
  <2>1. \A k \in DOMAIN q : Text(q[k])
    BY DEF QueryMeant
  <2>2. Unparsed(q) \subseteq DOMAIN Q
    BY <2>1, QueryMade
  <2> HIDE DEF Q
  <2> QED
    BY <1>1, <2>2, SnapshotIsNotSAS DEF Unparsed
<1>3. IF snapshot = << >> THEN low \notin DOMAIN q ELSE low \in DOMAIN q /\ q[low] = << snapshot >>
  BY <1>2 DEF SnapshotMeant
<1>4. up.ShareSnapshot = IF shareSnapshot \in DOMAIN seen THEN q[seen[shareSnapshot]][1] ELSE << >>
  BY DEF NewFileURLParts, PartsLeaving
<1>5. /\ DOMAIN seen = {k[1] : k \in DOMAIN q}
      /\ \A name \in DOMAIN seen : seen[name] \in DOMAIN q /\ seen[name][1] = name
  BY Seen
<1>6. low[1] = shareSnapshot
  BY DEF lower
<1> HIDE DEF low, q, Q
<1>7. CASE snapshot = << >>
  BY <1>2, <1>3, <1>4, <1>5, <1>7
<1>8. CASE snapshot # << >>
  <2>1. shareSnapshot \in DOMAIN seen /\ seen[shareSnapshot] = low
    BY <1>2, <1>3, <1>5, <1>6, <1>8
  <2>2. << snapshot >>[1] = snapshot
    OBVIOUS
  <2> QED
    BY <1>3, <1>4, <1>8, <2>1, <2>2
<1> QED
  BY <1>7, <1>8

-----------------------------------------------------------------------------
(* The parameters of a SAS. *)

\* At most one spelling of a parameter is there, with one value.
Sole(query, name) ==
    \A k \in DOMAIN query : k[1] = name =>
        /\ Text(query[k]) /\ Len(query[k]) = 1
        /\ \A l \in DOMAIN query : l[1] = name => l = k

\* Reading a parameter that is not there.
LEMMA ReadNone ==
    ASSUME NEW query, NEW name, \A k \in DOMAIN query : k[1] # name
    PROVE  Occurrences(query, name) = {} /\ Read(query, name) = << >>
<1>1. Occurrences(query, name) = {}
  BY DEF Occurrences
<1> QED
  BY <1>1 DEF Read

\* Reading a parameter that is there once.
LEMMA ReadSole ==
    ASSUME NEW query, NEW name, Sole(query, name), NEW k \in DOMAIN query, k[1] = name
    PROVE  Occurrences(query, name) = {<< k, 1 >>} /\ Read(query, name) = query[k][1]
<1>1. DOMAIN query[k] = 1 .. 1 /\ \A l \in DOMAIN query : l[1] = name => l = k
  BY TextHas DEF Sole
<1>2. Occurrences(query, name) = {<< k, 1 >>}
  <2>1. ASSUME NEW o \in Occurrences(query, name) PROVE o = << k, 1 >>
    <3>1. PICK l \in DOMAIN query, i \in {1, 2} : o = << l, i >>
      BY DEF Occurrences
    <3>2. l[1] = name /\ i \in DOMAIN query[l]
      BY <3>1 DEF Occurrences
    <3> QED
      BY <1>1, <3>1, <3>2
  <2>2. << k, 1 >> \in Occurrences(query, name)
    BY <1>1 DEF Occurrences
  <2> QED
    BY <2>1, <2>2
<1>3. (CHOOSE p \in {<< k, 1 >>} : TRUE) = << k, 1 >>
  OBVIOUS
<1> QED
  BY <1>2, <1>3 DEF Read

\* The text of a parameter in SASQueryParameters.Encode.
TimeText(t) == IF t.time = << >> THEN << >> ELSE formatSASTime(t.time, t.format)
Value(p, name) ==
    CASE name = "st" -> TimeText(p.st)
      [] name = "se" -> TimeText(p.se)
      [] name = "sip" -> IPRangeText(p.ipRange)
      [] OTHER -> p.text[name]

\* Encode writes the parameters that are not empty.
LEMMA Encoded ==
    ASSUME NEW p, NEW name \in SASParams
    PROVE  /\ lower(name) \in DOMAIN Encode(p) <=> Value(p, name) # << >>
           /\ Value(p, name) # << >> => Encode(p)[lower(name)] = << Value(p, name) >>
<1> DEFINE value == [n \in SASParams |-> Value(p, n)]
           keys == {lower(n) : n \in {n \in SASParams : value[n] # << >>}}
<1>1. Encode(p) = [k \in keys |-> << value[k[1]] >>]
  BY DEF Encode, Value, TimeText
<1>2. \A n : lower(n)[1] = n
  BY DEF lower
<1>3. value[name] = Value(p, name)
  OBVIOUS
<1> HIDE DEF value
<1>4. lower(name) \in keys <=> value[name] # << >>
  BY <1>2
<1> HIDE DEF keys
<1> QED
  BY <1>1, <1>2, <1>3, <1>4

\* What the service reads of a SAS in the URL that the library made with it.
LEMMA ReadMade ==
    ASSUME NEW u, NEW others, QueryMeant(u, others), NEW seen, NEW up,
           up.UnparsedParams = NewFileURLParts(u, seen).UnparsedParams, NEW name \in SASParams
    PROVE  /\ Sole(URL(up).Query, name) /\ Read(URL(up).Query, name) = Value(up.SAS, name)
           /\ Value(up.SAS, name) = << >> => \A k \in DOMAIN URL(up).Query : k[1] # name
<1> DEFINE q == u.Query
           Q == URL(up).Query
           E == Encode(up.SAS)
           low == lower(shareSnapshot)
           val == Value(up.SAS, name)
           key == lower(name)
<1>1. \A k \in DOMAIN q : Text(q[k])
  BY DEF QueryMeant
<1>2. /\ DOMAIN Q = Unparsed(q) \cup (IF up.ShareSnapshot = << >> THEN {} ELSE {low}) \cup DOMAIN E
      /\ \A k \in DOMAIN E : Q[k] = E[k]
  BY <1>1, QueryMade
<1>3. \A k \in DOMAIN E : k = lower(k[1]) /\ Text(E[k]) /\ Len(E[k]) = 1
  BY EncodedKeys
<1>4. (key \in DOMAIN E <=> val # << >>) /\ (val # << >> => E[key] = << val >>)
  BY Encoded
<1>5. low[1] = shareSnapshot /\ key[1] = name
  BY DEF lower
<1> HIDE DEF q, Q, E, low, val
<1>6. \A k \in DOMAIN Q : k[1] = name => k \in DOMAIN E /\ k = key
  BY <1>2, <1>3, <1>5, SnapshotIsNotSAS DEF Unparsed
<1>7. val = << >> => \A k \in DOMAIN Q : k[1] # name
  BY <1>4, <1>6
<1> HIDE DEF key
<1>8. Sole(Q, name)
  BY <1>2, <1>3, <1>6 DEF Sole
<1>9. Read(Q, name) = val
  <2>1. CASE val = << >>
    <3>1. \A k \in DOMAIN Q : k[1] # name
      BY <1>7, <2>1
    <3> QED
      BY <2>1, <3>1, ReadNone
  <2>2. CASE val # << >>
    <3>1. key \in DOMAIN Q /\ Q[key] = << val >>
      BY <1>2, <1>4, <2>2
    <3>2. Read(Q, name) = Q[key][1]
      BY <1>5, <1>8, <3>1, ReadSole
    <3>3. << val >>[1] = val
      OBVIOUS
    <3> QED
      BY <3>1, <3>2, <3>3
  <2> QED
    BY <2>1, <2>2
<1> QED
  BY <1>8, <1>9, <1>7 DEF Q, val

\* parseSASTimeString finds the format that has as many parts as the text
\* (zc_sas_query_params.go:55-68).
LEMMA TimeParsed ==
    ASSUME NEW t, SASTimeText(t)
    PROVE  parseSASTimeString(t)
             = IF Len(t) = 0 THEN [time |-> << >>, format |-> 0]
               ELSE [time |-> [n \in 1 .. 4 |-> IF n <= Len(t) THEN t[n] ELSE 0], format |-> Len(t)]
<1> DEFINE F == SASTimeFormats
           I == {i \in 1 .. Len(F) : Parses(t, F[i])}
           i0 == SelectInSeq(F, LAMBDA format : Parses(t, format))
<1>1. Len(F) = 3 /\ F[1] = 3 /\ F[2] = 2 /\ F[3] = 1
  BY DEF SASTimeFormats
<1>2. Len(t) \in Nat /\ Len(t) <= 3
  <2>1. Text(t) /\ Len(t) <= F[1]
    BY DEF SASTimeText
  <2>2. Len(t) \in Nat
    BY <2>1, TextHas
  <2> HIDE DEF F
  <2> QED
    BY <1>1, <2>1, <2>2
<1>3. i0 = IF I = {} THEN 0 ELSE Min(I)
  BY DEF SelectInSeq
<1> HIDE DEF F
<1>4. \A i \in 1 .. 3 : Parses(t, F[i]) <=> Len(t) = F[i]
  <2>1. Len(t) # 4
    BY <1>2
  <2> QED
    BY <2>1 DEF Parses
<1>5. /\ Len(t) = 0 => i0 = 0
      /\ Len(t) # 0 => i0 = 4 - Len(t)
  <2>1. CASE Len(t) = 0
    BY <1>1, <1>3, <1>4, <2>1
  <2>2. CASE Len(t) # 0
    <3>1. I = {4 - Len(t)}
      <4>1. \A i \in 1 .. 3 : F[i] = 4 - i
        BY <1>1
      <4>2. I = {i \in 1 .. 3 : Len(t) = 4 - i}
        BY <1>1, <1>4, <4>1
      <4>3. \A i \in 1 .. 3 : Len(t) = 4 - i <=> i = 4 - Len(t)
        BY <1>2
      <4>4. 4 - Len(t) \in 1 .. 3
        BY <1>2, <2>2
      <4> HIDE DEF I
      <4> QED
        BY <4>2, <4>3, <4>4
    <3> HIDE DEF I
    <3>2. Min(I) = 4 - Len(t)
      BY <1>2, <3>1, MinIs
    <3> QED
      BY <1>3, <2>2, <3>1, <3>2
  <2> QED
    BY <2>1, <2>2
<1>6. parseSASTimeString(t)
        = IF i0 = 0 THEN [time |-> << >>, format |-> 0]
          ELSE [time |-> [n \in 1 .. 4 |-> IF n <= Len(t) THEN t[n] ELSE 0], format |-> F[i0]]
  BY DEF parseSASTimeString, F
<1> HIDE DEF i0
<1>7. Len(t) # 0 => i0 # 0 /\ F[i0] = Len(t)
  <2>1. \A n \in Nat : n <= 3 /\ n # 0 => 4 - n # 0 /\ F[4 - n] = n
    BY <1>1
  <2> QED
    BY <1>2, <1>5, <2>1
<1> QED
  BY <1>5, <1>6, <1>7

\* A time comes back in the format it was read in.
LEMMA TimeTrip ==
    ASSUME NEW t, SASTimeText(t)
    PROVE  TimeText(parseSASTimeString(t)) = t
<1> DEFINE w == [n \in 1 .. 4 |-> IF n <= Len(t) THEN t[n] ELSE 0]
<1>1. Text(t) /\ Len(t) \in Nat /\ Len(t) <= 3
  BY TextHas DEF SASTimeText, SASTimeFormats
<1>2. CASE Len(t) = 0
  <2>1. t = << >>
    BY <1>1, <1>2, EmptyText
  <2> QED
    BY <1>2, <2>1, TimeParsed DEF TimeText
<1>3. CASE Len(t) # 0
  <2>1. parseSASTimeString(t) = [time |-> w, format |-> Len(t)]
    BY <1>3, TimeParsed
  <2>2. w = [n \in 1 .. 4 |-> w[n]] /\ \A n \in 1 .. 4 : n <= Len(t) => w[n] = t[n]
    OBVIOUS
  <2> HIDE DEF w
  <2>3. Text(w) /\ Len(w) = 4
    BY <2>2, TextIs
  <2>4. w # << >>
    BY <2>3, EmptyText
  <2>5. TimeText(parseSASTimeString(t)) = SubSeq(w, 1, Len(t))
    BY <1>3, <2>1, <2>4 DEF TimeText, formatSASTime
  <2> DEFINE a == SubSeq(w, 1, Len(t))
  <2>6. Text(a) /\ Len(a) = Len(t) /\ \A n \in 1 .. Len(t) : a[n] = t[n]
    <3>1. Len(t) <= Len(w) /\ 1 <= Len(t) /\ Len(t) - 1 + 1 = Len(t)
      BY <1>1, <1>3, <2>3
    <3>2. /\ Text(a) /\ Len(a) = IF 1 <= Len(t) THEN Len(t) - 1 + 1 ELSE 0
          /\ \A k \in Nat \ {0} : k <= Len(t) - 1 + 1 => a[k] = w[1 + k - 1]
      <4> DEFINE j == Len(t)
      <4>1. j \in Nat /\ j <= Len(w)
        BY <1>1, <3>1
      <4> HIDE DEF j
      <4>2. Text(SubSeq(w, 1, j))
        <5>1. \A i \in Nat \ {0} : Text(SubSeq(w, i, j))
          BY <2>3, <4>1, Parts
        <5> QED
          BY <5>1
      <4>3. Len(SubSeq(w, 1, j)) = IF 1 <= j THEN j - 1 + 1 ELSE 0
        BY <2>3, <4>1, Parts
      <4>4. \A k \in Nat \ {0} : k <= j - 1 + 1 => SubSeq(w, 1, j)[k] = w[1 + k - 1]
        BY <2>3, <4>1, Parts
      <4> QED
        BY <4>2, <4>3, <4>4 DEF j
    <3> HIDE DEF a
    <3>3. Len(a) = Len(t)
      BY <3>1, <3>2
    <3>4. ASSUME NEW n \in 1 .. Len(t) PROVE a[n] = t[n]
      <4>1. n \in Nat \ {0} /\ n <= Len(t) - 1 + 1 /\ 1 + n - 1 = n /\ n \in 1 .. 4 /\ n <= Len(t)
        BY <1>1
      <4> QED
        BY <2>2, <3>2, <4>1
    <3> QED
      BY <3>2, <3>3, <3>4
  <2> HIDE DEF a
  <2>7. a = t
    BY <1>1, <2>6, SameText
  <2> QED
    BY <2>5, <2>7 DEF a
<1> QED
  BY <1>2, <1>3

\* A time to sign goes into the URL as it is signed, to the second.
LEMMA TimeSigned ==
    ASSUME NEW t, Text(t), Len(t) \in {0, 4}
    PROVE  LET f == FormatTimeForSASSigning(t) IN
           TimeText([time |-> t, format |-> 0]) = f /\ SASTimeText(f) /\ Seconds(f) = Seconds(t)
<1>1. SASTimeFormats[1] = 3
  BY DEF SASTimeFormats
<1>2. TimeText([time |-> t, format |-> 0]) = FormatTimeForSASSigning(t)
  BY DEF TimeText, FormatTimeForSASSigning
<1>3. CASE Len(t) = 0
  <2>1. t = << >>
    BY <1>3, EmptyText
  <2>2. SASTimeText(<< >>)
    BY <1>1, ShortTexts DEF SASTimeText
  <2> QED
    BY <1>2, <2>1, <2>2 DEF FormatTimeForSASSigning, Seconds
<1>4. CASE Len(t) = 4
  <2> DEFINE f == SubSeq(t, 1, 3)
  <2>1. t # << >>
    BY <1>4, EmptyText
  <2>2. FormatTimeForSASSigning(t) = f
    BY <1>1, <2>1 DEF FormatTimeForSASSigning, formatSASTime
  <2>3. Text(f) /\ Len(f) = 3 /\ \A n \in 1 .. 3 : f[n] = t[n]
    <3> DEFINE j == 3
               i == 1
    <3>1. i \in Nat \ {0} /\ j \in Nat /\ j <= Len(t) /\ j - i + 1 = 3 /\ i <= j /\ \A k \in 1 .. 3 : i + k - 1 = k
      BY <1>4
    <3> HIDE DEF i, j
    <3>2. /\ Text(SubSeq(t, i, j)) /\ Len(SubSeq(t, i, j)) = IF i <= j THEN j - i + 1 ELSE 0
          /\ \A k \in Nat \ {0} : k <= j - i + 1 => SubSeq(t, i, j)[k] = t[i + k - 1]
      BY <3>1, Parts
    <3>3. /\ Text(SubSeq(t, i, j)) /\ Len(SubSeq(t, i, j)) = 3
          /\ \A k \in 1 .. 3 : SubSeq(t, i, j)[k] = t[k]
      BY <3>1, <3>2
    <3> QED
      BY <3>3 DEF i, j
  <2> HIDE DEF f
  <2>4. f # << >>
    BY <2>3, EmptyText
  <2>5. SASTimeText(f)
    BY <1>1, <2>3 DEF SASTimeText
  <2>6. Seconds(f) = Seconds(t)
    <3>1. \A n \in 1 .. 3 : n <= Len(f) /\ n <= Len(t)
      BY <1>4, <2>3
    <3> QED
      BY <2>1, <2>3, <2>4, <3>1 DEF Seconds
  <2> QED
    BY <1>2, <2>2, <2>5, <2>6
<1> QED
  BY <1>3, <1>4

\* A time with a fraction of a second is read, and written without it.
LEMMA FractionDropped ==
    ASSUME NEW t, Text(t), Len(t) = 4
    PROVE  TimeText(parseSASTimeString(t)) = FormatTimeForSASSigning(t)
<1> DEFINE F == SASTimeFormats
           I == {i \in 1 .. Len(F) : Parses(t, F[i])}
           i0 == SelectInSeq(F, LAMBDA format : Parses(t, format))
           w == [n \in 1 .. 4 |-> IF n <= Len(t) THEN t[n] ELSE 0]
<1>1. Len(F) = 3 /\ F[1] = 3 /\ F[2] = 2 /\ F[3] = 1
  BY DEF SASTimeFormats
<1>2. i0 = IF I = {} THEN 0 ELSE Min(I)
  BY DEF SelectInSeq
<1> HIDE DEF F
<1>3. I = {1}
  <2>1. Parses(t, F[1]) /\ ~Parses(t, F[2]) /\ ~Parses(t, F[3])
    BY <1>1 DEF Parses
  <2> QED
    BY <1>1, <2>1
<1>4. i0 = 1
  <2> HIDE DEF I
  <2>1. Min({1}) = 1
    BY MinIs
  <2> QED
    BY <1>2, <1>3, <2>1
<1> HIDE DEF I, i0
<1>5. parseSASTimeString(t) = [time |-> w, format |-> 3]
  <2>1. parseSASTimeString(t) = IF i0 = 0 THEN [time |-> << >>, format |-> 0]
                                ELSE [time |-> w, format |-> F[i0]]
    BY DEF parseSASTimeString, F, i0
  <2> QED
    BY <1>1, <1>4, <2>1
<1>6. w = t
  <2>1. w = [n \in 1 .. 4 |-> w[n]] /\ \A n \in 1 .. 4 : w[n] = t[n]
    OBVIOUS
  <2> HIDE DEF w
  <2>2. Text(w) /\ Len(w) = 4
    BY <2>1, TextIs
  <2> QED
    BY <2>1, <2>2, SameText
<1> HIDE DEF w
<1>7. t # << >>
  BY EmptyText
<1>8. SASTimeFormats[1] = 3
  BY DEF SASTimeFormats
<1> QED
  BY <1>5, <1>6, <1>7, <1>8 DEF TimeText, FormatTimeForSASSigning, formatSASTime

\* A time that is read is written as the same time to the second, in a format that is
\* written; one in such a format stays as it is.
LEMMA TimeRewritten ==
    ASSUME NEW t, SASTimeRead(t)
    PROVE  LET f == TimeText(parseSASTimeString(t)) IN
           SASTimeText(f) /\ Seconds(f) = Seconds(t) /\ (SASTimeText(t) => f = t)
<1> DEFINE f == TimeText(parseSASTimeString(t))
<1>1. Text(t) /\ Len(t) \in Nat /\ Len(t) <= 4 /\ SASTimeFormats[1] = 3
  BY TextHas DEF SASTimeRead, SASTimeFormats
<1>2. CASE Len(t) <= 3
  <2>1. SASTimeText(t)
    BY <1>1, <1>2 DEF SASTimeText
  <2>2. f = t
    BY <2>1, TimeTrip
  <2> HIDE DEF f
  <2>3. SASTimeText(f) /\ Seconds(f) = Seconds(t) /\ (SASTimeText(t) => f = t)
    BY <2>1, <2>2
  <2> QED
    BY <2>3 DEF f
<1>3. CASE Len(t) = 4
  <2>1. ~SASTimeText(t)
    BY <1>1, <1>3 DEF SASTimeText
  <2>2. f = FormatTimeForSASSigning(t)
    BY <1>1, <1>3, FractionDropped
  <2>3. Len(t) \in {0, 4}
    BY <1>3
  <2>4. SASTimeText(FormatTimeForSASSigning(t)) /\ Seconds(FormatTimeForSASSigning(t)) = Seconds(t)
    BY <1>1, <2>3, TimeSigned
  <2> HIDE DEF f
  <2>5. SASTimeText(f) /\ Seconds(f) = Seconds(t) /\ (SASTimeText(t) => f = t)
    BY <2>1, <2>2, <2>4
  <2> QED
    BY <2>5 DEF f
<1>4. Len(t) <= 3 \/ Len(t) = 4
  <2>1. \A n \in Nat : n <= 4 => n <= 3 \/ n = 4
    OBVIOUS
  <2> QED
    BY <1>1, <2>1
<1> QED
  BY <1>2, <1>3, <1>4

\* What the texts of one address, or of two, are read as (zc_sas_query_params.go:202-209).
LEMMA RangeParsed ==
    /\ IPRangeOf(<< >>) = [Start |-> << >>, End |-> << >>]
    /\ \A a \in AddressTexts : IPRangeOf(<< a >>) = [Start |-> << AddressOf(a) >>, End |-> << >>]
    /\ \A a, b \in AddressTexts :
         IPRangeOf(<< a, "-", b >>) = [Start |-> << AddressOf(a) >>, End |-> << AddressOf(b) >>]
<1> DEFINE find(s) == SelectInSeq(s, LAMBDA t : t = "-")
           D(s) == {i \in 1 .. Len(s) : s[i] = "-"}
<1>0. \A s : find(s) = IF D(s) = {} THEN 0 ELSE Min(D(s))
  BY DEF SelectInSeq
<1>1. \A s : IPRangeOf(s) =
                IF find(s) = 0 THEN [Start |-> ParseIP(s), End |-> << >>]
                ELSE [Start |-> ParseIP(SubSeq(s, 1, find(s) - 1)),
                      End |-> ParseIP(SubSeq(s, find(s) + 1, Len(s)))]
  BY DEF IPRangeOf
<1>2. "-" \notin AddressTexts
  BY DEF AddressTexts, Addresses
<1>3. \A a \in AddressTexts : ParseIP(<< a >>) = << AddressOf(a) >>
  BY ShortTexts DEF ParseIP
<1>4. IPRangeOf(<< >>) = [Start |-> << >>, End |-> << >>]
  <2>2. D(<< >>) = {}
    BY ShortTexts
  <2>3. find(<< >>) = 0
    BY <1>0, <2>2
  <2>4. ParseIP(<< >>) = << >>
    BY ShortTexts DEF ParseIP
  <2> HIDE DEF find
  <2> QED
    BY <1>1, <2>3, <2>4
<1>5. ASSUME NEW a \in AddressTexts
      PROVE  IPRangeOf(<< a >>) = [Start |-> << AddressOf(a) >>, End |-> << >>]
  <2>2. D(<< a >>) = {}
    BY <1>2, ShortTexts
  <2>3. find(<< a >>) = 0
    BY <1>0, <2>2
  <2> HIDE DEF find
  <2> QED
    BY <1>1, <1>3, <2>3
<1>6. ASSUME NEW a \in AddressTexts, NEW b \in AddressTexts
      PROVE  IPRangeOf(<< a, "-", b >>) = [Start |-> << AddressOf(a) >>, End |-> << AddressOf(b) >>]
  <2> DEFINE s == << a, "-", b >>
  <2>2. D(s) = {2}
    BY <1>2, ShortTexts
  <2>3. find(s) = 2
    <3>1. Min({2}) = 2
      BY MinIs
    <3> QED
      BY <1>0, <2>2, <3>1
  <2>4. SubSeq(s, 1, 2 - 1) = << a >> /\ SubSeq(s, 2 + 1, Len(s)) = << b >>
    <3>1. Text(s) /\ Len(s) = 3 /\ s[1] = a /\ s[3] = b
      BY ShortTexts
    <3> HIDE DEF s
    <3>2. \A i \in 1 .. 3 : SubSeq(s, i, i) = << s[i] >>
      BY <3>1, OnePartIs
    <3>3. 2 - 1 = 1 /\ 2 + 1 = 3
      OBVIOUS
    <3> QED
      BY <3>1, <3>2, <3>3
  <2> HIDE DEF find, s
  <2>5. IPRangeOf(s) = [Start |-> ParseIP(<< a >>), End |-> ParseIP(<< b >>)]
    <3>1. find(s) # 0 /\ find(s) - 1 = 2 - 1 /\ find(s) + 1 = 2 + 1
      BY <2>3
    <3>2. IPRangeOf(s) = [Start |-> ParseIP(SubSeq(s, 1, find(s) - 1)),
                          End |-> ParseIP(SubSeq(s, find(s) + 1, Len(s)))]
      BY <1>1, <3>1
    <3> QED
      BY <2>4, <3>1, <3>2
  <2> QED
    BY <1>3, <2>5 DEF s
<1> QED
  BY <1>4, <1>5, <1>6

\* An address has one text that is written, which is read as that address.
LEMMA WrittenAddresses ==
    /\ \A a \in Addresses : a \in AddressTexts /\ AddressOf(a) = a
    /\ \A a \in AddressTexts : AddressOf(a) \in Addresses
BY DEF Addresses, AddressTexts, AddressOf

\* The texts of ranges (zc_sas_query_params.go:169-178).
LEMMA RangeWritten ==
    /\ IPRangeText([Start |-> << >>, End |-> << >>]) = << >>
    /\ \A a : IPRangeText([Start |-> << a >>, End |-> << >>]) = << a >>
    /\ \A a, b : IPRangeText([Start |-> << a >>, End |-> << b >>]) = << a, "-", b >>
<1>0. \A a : << a >> # << >>
  BY ShortTexts
<1>1. IPRangeText([Start |-> << >>, End |-> << >>]) = << >>
  BY DEF IPRangeText
<1>2. ASSUME NEW a PROVE IPRangeText([Start |-> << a >>, End |-> << >>]) = << a >>
  BY <1>0 DEF IPRangeText
<1>3. ASSUME NEW a, NEW b PROVE IPRangeText([Start |-> << a >>, End |-> << b >>]) = << a, "-", b >>
  <2>1. IPRangeText([Start |-> << a >>, End |-> << b >>]) = << a >> \o << "-" >> \o << b >>
    BY <1>0 DEF IPRangeText
  <2>2. << a >> \o << "-" >> = << a, "-" >> /\ << a, "-" >> \o << b >> = << a, "-", b >>
    BY GluedTokens
  <2> QED
    BY <2>1, <2>2
<1> QED
  BY <1>1, <1>2, <1>3

\* A range of addresses comes back from its text, which is one that can be read.
LEMMA RangeTrip ==
    ASSUME NEW range \in IPRanges
    PROVE  IPRangeText(range) \in IPTexts /\ IPRangeOf(IPRangeText(range)) = range
<1>1. CASE range = [Start |-> << >>, End |-> << >>]
  BY <1>1, RangeParsed, RangeWritten DEF IPTexts
<1>2. ASSUME NEW a \in Addresses, range = [Start |-> << a >>, End |-> << >>]
      PROVE  IPRangeText(range) \in IPTexts /\ IPRangeOf(IPRangeText(range)) = range
  BY <1>2, RangeParsed, RangeWritten, WrittenAddresses DEF IPTexts
<1>3. ASSUME NEW a \in Addresses, NEW b \in Addresses, range = [Start |-> << a >>, End |-> << b >>]
      PROVE  IPRangeText(range) \in IPTexts /\ IPRangeOf(IPRangeText(range)) = range
  BY <1>3, RangeParsed, RangeWritten, WrittenAddresses DEF IPTexts
<1> QED
  BY <1>1, <1>2, <1>3 DEF IPRanges

\* What can be read is a range.
LEMMA RangeRead == ASSUME NEW s \in IPTexts PROVE IPRangeOf(s) \in IPRanges
<1>1. CASE s = << >>
  BY <1>1, RangeParsed DEF IPRanges
<1>2. ASSUME NEW a \in AddressTexts, s = << a >> PROVE IPRangeOf(s) \in IPRanges
  BY <1>2, RangeParsed, WrittenAddresses DEF IPRanges
<1>3. ASSUME NEW a \in AddressTexts, NEW b \in AddressTexts, s = << a, "-", b >>
      PROVE  IPRangeOf(s) \in IPRanges
  BY <1>3, RangeParsed, WrittenAddresses DEF IPRanges
<1> QED
  BY <1>1, <1>2, <1>3 DEF IPTexts

\* The parameters of the SAS of u can be read, each in a format that the library reads.
Readable(u) ==
    /\ \A name \in SASParams : Sole(u.Query, name)
    /\ SASTimeRead(Read(u.Query, "st")) /\ SASTimeRead(Read(u.Query, "se"))
    /\ Read(u.Query, "sip") \in IPTexts

\* A parameter of a SAS once it has been read and written again.
Rewritten(name, text) ==
    CASE name \in {"st", "se"} -> TimeText(parseSASTimeString(text))
      [] name = "sip" -> IPRangeText(IPRangeOf(text))
      [] OTHER -> text

\* What is left out stays so.
LEMMA NothingRewritten == ASSUME NEW name PROVE Rewritten(name, << >>) = << >>
<1>1. SASTimeText(<< >>)
  BY ShortTexts DEF SASTimeText, SASTimeFormats
<1>2. TimeText(parseSASTimeString(<< >>)) = << >>
  BY <1>1, TimeTrip
<1>3. IPRangeText(IPRangeOf(<< >>)) = << >>
  BY RangeParsed, RangeWritten
<1> QED
  BY <1>2, <1>3 DEF Rewritten

\* The query r grants what q does: its times are the same to the second and its addresses
\* are the same, and all else is the same text.
SameGrant(q, r) ==
    /\ \A name \in TextParams : Read(r, name) = Read(q, name)
    /\ \A name \in {"st", "se"} :
         SASTimeRead(Read(r, name)) /\ Seconds(Read(r, name)) = Seconds(Read(q, name))
    /\ Read(r, "sip") \in IPTexts /\ IPRangeOf(Read(r, "sip")) = IPRangeOf(Read(q, "sip"))

\* A SAS that is read and written again grants the same, and is the same if it was written
\* as the library does.
LEMMA GrantRewritten ==
    ASSUME NEW u, Readable(u), NEW r,
           \A name \in SASParams : Read(r, name) = Rewritten(name, Read(u.Query, name))
    PROVE  /\ SameGrant(u.Query, r)
           /\ AsWritten(u.Query) => \A name \in SASParams : Read(r, name) = Read(u.Query, name)
<1> DEFINE q == u.Query
<1>0. /\ "st" \in SASParams /\ "se" \in SASParams /\ "sip" \in SASParams
      /\ TextParams \subseteq SASParams /\ SASParams = TextParams \cup {"st", "se", "sip"}
      /\ \A name \in TextParams : name \notin {"st", "se", "sip"}
  BY DEF SASParams, TextParams
<1>1. ASSUME NEW name \in {"st", "se"}
      PROVE  /\ SASTimeRead(Read(r, name)) /\ Seconds(Read(r, name)) = Seconds(Read(q, name))
             /\ SASTimeText(Read(q, name)) => Read(r, name) = Read(q, name)
  <2> DEFINE t == Read(q, name)
             f == TimeText(parseSASTimeString(t))
  <2>1. SASTimeRead(t)
    BY DEF Readable
  <2>2. Read(r, name) = f
    BY <1>0 DEF Rewritten
  <2> HIDE DEF t
  <2>3. SASTimeText(f) /\ Seconds(f) = Seconds(t) /\ (SASTimeText(t) => f = t)
    BY <2>1, TimeRewritten
  <2> HIDE DEF f
  <2>4. SASTimeRead(f)
    <3>1. Text(f) /\ Len(f) <= 3 /\ Len(f) \in Nat
      BY <2>3, TextHas DEF SASTimeText, SASTimeFormats
    <3>2. Len(f) <= 4
      BY <3>1
    <3> QED
      BY <3>1, <3>2 DEF SASTimeRead
  <2> QED
    BY <2>2, <2>3, <2>4 DEF t
<1>2. /\ Read(r, "sip") \in IPTexts /\ IPRangeOf(Read(r, "sip")) = IPRangeOf(Read(q, "sip"))
      /\ (\E range \in IPRanges : Read(q, "sip") = IPRangeText(range)) => Read(r, "sip") = Read(q, "sip")
  <2> DEFINE x == Read(q, "sip")
  <2>1. x \in IPTexts
    BY DEF Readable
  <2>2. Read(r, "sip") = IPRangeText(IPRangeOf(x))
    BY <1>0 DEF Rewritten
  <2> HIDE DEF x
  <2>3. IPRangeOf(x) \in IPRanges
    BY <2>1, RangeRead
  <2>4. ASSUME NEW range \in IPRanges, x = IPRangeText(range) PROVE IPRangeText(IPRangeOf(x)) = x
    BY <2>4, RangeTrip
  <2> QED
    BY <2>2, <2>3, <2>4, RangeTrip DEF x
<1>3. ASSUME NEW name \in TextParams PROVE Read(r, name) = Read(q, name)
  BY <1>0 DEF Rewritten
<1>4. SameGrant(q, r)
  BY <1>1, <1>2, <1>3 DEF SameGrant
<1>5. ASSUME AsWritten(q), NEW name \in SASParams PROVE Read(r, name) = Read(q, name)
  <2>1. /\ SASTimeText(Read(q, "st")) /\ SASTimeText(Read(q, "se"))
        /\ \E range \in IPRanges : Read(q, "sip") = IPRangeText(range)
    BY <1>5 DEF AsWritten
  <2> QED
    BY <1>0, <1>1, <1>2, <1>3, <2>1
<1> QED
  BY <1>4, <1>5

\* The SAS of the parts of a URL has every parameter, as it is written.
LEMMA SASParsed ==
    ASSUME NEW u, Readable(u), NEW seen \in Orders(u.Query), NEW name \in SASParams
    PROVE  Value(NewFileURLParts(u, seen).SAS, name) = Rewritten(name, Read(u.Query, name))
<1> DEFINE q == u.Query
           low == lower(shareSnapshot)
           values == Without(q, {low})
           val(n) == IF n \in DOMAIN seen THEN values[seen[n]][1] ELSE << >>
           p == NewFileURLParts(u, seen).SAS
<1>1. /\ DOMAIN seen = {k[1] : k \in DOMAIN q}
      /\ \A n \in DOMAIN seen : seen[n] \in DOMAIN q /\ seen[n][1] = n
  BY Seen
<1>2. p = newSASQueryParameters(values, seen)
  BY DEF NewFileURLParts, PartsLeaving
<1>3. /\ p.st = parseSASTimeString(val("st")) /\ p.se = parseSASTimeString(val("se"))
      /\ p.ipRange = IPRangeOf(val("sip"))
      /\ \A n \in TextParams : p.text[n] = val(n)
  <2> HIDE DEF p, values
  <2> QED
    BY <1>2 DEF newSASQueryParameters
<1>4. ASSUME NEW n \in SASParams PROVE val(n) = Read(q, n)
  <2>1. CASE n \in DOMAIN seen
    <3>1. seen[n] # low
      BY <1>1, <2>1, SnapshotIsNotSAS DEF lower
    <3>2. values[seen[n]] = q[seen[n]]
      BY <1>1, <2>1, <3>1 DEF Without
    <3>3. Sole(q, n)
      BY DEF Readable
    <3> HIDE DEF q, values
    <3>4. Read(q, n) = q[seen[n]][1]
      BY <1>1, <2>1, <3>3, ReadSole
    <3> QED
      BY <2>1, <3>2, <3>4
  <2>2. CASE n \notin DOMAIN seen
    <3> HIDE DEF q, values
    <3>1. \A k \in DOMAIN q : k[1] # n
      BY <1>1, <2>2
    <3> QED
      BY <2>2, <3>1, ReadNone
  <2> QED
    BY <2>1, <2>2
<1>5. "st" \in SASParams /\ "se" \in SASParams /\ "sip" \in SASParams
  BY DEF SASParams
<1> HIDE DEF p, val
<1>6. CASE name = "st"
  <2>1. Value(p, name) = TimeText(p.st) /\ p.st = parseSASTimeString(Read(q, "st"))
    BY <1>3, <1>4, <1>5, <1>6 DEF Value
  <2> QED
    BY <1>6, <2>1 DEF p, Rewritten
<1>7. CASE name = "se"
  <2>1. Value(p, name) = TimeText(p.se) /\ p.se = parseSASTimeString(Read(q, "se"))
    BY <1>3, <1>4, <1>5, <1>7 DEF Value
  <2> QED
    BY <1>7, <2>1 DEF p, Rewritten
<1>8. CASE name = "sip"
  <2>1. Value(p, name) = IPRangeText(p.ipRange) /\ p.ipRange = IPRangeOf(Read(q, "sip"))
    BY <1>3, <1>4, <1>5, <1>8 DEF Value
  <2> QED
    BY <1>8, <2>1 DEF p, Rewritten
<1>9. CASE name \notin {"st", "se", "sip"}
  <2>1. name \in TextParams /\ Value(p, name) = p.text[name]
    BY <1>9 DEF Value, SASParams
  <2>2. Rewritten(name, Read(q, name)) = Read(q, name)
    BY <1>9 DEF Rewritten
  <2> QED
    BY <1>3, <1>4, <2>1, <2>2 DEF p
<1> QED
  BY <1>6, <1>7, <1>8, <1>9 DEF p

-----------------------------------------------------------------------------
(* Signatures. *)

\* The path of the resource is made of the names asked for.
LEMMA ResourceOf ==
    ASSUME NEW k, NEW u, NEW names, NamesMeant(k, names), PathMeant(u, names)
    PROVE  ResourcePath(u) = PathOf(names, 2 * Len(names))
<1> DEFINE r == RootNames(u.Host)
           all == r \o names
           L == Len(all)
           path == IF u.Path # << >> /\ Last(u.Path) = "/" THEN Front(u.Path) ELSE u.Path
<1>1. Text(r) /\ Text(all) /\ NoSlash(all) /\ L = Len(r) + Len(names) /\ Text(names)
  BY RootedNames DEF NamesMeant
<1>2. L \in Nat /\ Len(names) \in Nat
  BY <1>1, TextHas
<1>3. PICK m \in {2 * L, 2 * L + 1} : u.Path = PathOf(all, m)
  BY DEF PathMeant
<1> HIDE DEF all, r
<1>4. m \in Nat /\ 2 * L \in Nat
  BY <1>2
<1>5. /\ Text(u.Path) /\ Len(u.Path) = m
      /\ \A i \in 1 .. m : u.Path[i] = IF i % 2 = 1 THEN "/" ELSE all[i \div 2]
  BY <1>3, <1>4, PathTokens
<1>6. path = PathOf(all, 2 * L)
  <2>1. CASE m = 2 * L + 1
    <3>1. m \in 1 .. m /\ m % 2 = 1 /\ m # 0 /\ m - 1 = 2 * L /\ 2 * L <= m
      BY <1>2, <2>1
    <3>2. u.Path # << >> /\ Last(u.Path) = "/"
      BY <1>5, <3>1, EmptyText DEF Last
    <3>3. path = SubSeq(PathOf(all, m), 1, 2 * L)
      BY <1>3, <1>5, <3>1, <3>2 DEF Front
    <3> QED
      BY <1>4, <3>1, <3>3, PathBegins
  <2>2. CASE m = 2 * L
    <3>1. u.Path = << >> \/ Last(u.Path) # "/"
      <4>1. CASE L = 0
        BY <1>2, <1>5, <2>2, <4>1, EmptyText
      <4>2. CASE L # 0
        <5>1. m \in 1 .. m /\ m % 2 = 0 /\ m \div 2 = L /\ L \in 1 .. L
          BY <1>2, <2>2, <4>2
        <5>2. Last(u.Path) = all[L]
          BY <1>5, <5>1 DEF Last
        <5> QED
          BY <1>1, <5>1, <5>2 DEF NoSlash
      <4> QED
        BY <4>1, <4>2
    <3> QED
      BY <1>3, <2>2, <3>1
  <2> QED
    BY <2>1, <2>2
<1>7. ResourcePath(u) = IF isIPEndpointStyle(u.Host) THEN SubSeq(path, 3, Len(path)) ELSE path
  BY DEF ResourcePath
<1> HIDE DEF path
<1>8. CASE ~ isIPEndpointStyle(u.Host)
  <2>1. r = << >>
    BY <1>8 DEF RootNames, r
  <2>2. all = names
    BY <1>1, <2>1, GluedToNothing DEF all
  <2> QED
    BY <1>6, <1>7, <1>8, <2>2
<1>9. CASE isIPEndpointStyle(u.Host)
  <2> DEFINE N == 2 * Len(names)
             P == PathOf(all, 2 * L)
             a == SubSeq(P, 3, 2 * L)
             b == PathOf(names, N)
  <2>1. r = << Account >>
    BY <1>9 DEF RootNames, r
  <2>2. Len(r) = 1
    BY <2>1, ShortTexts
  <2>3. 2 * L = N + 2 /\ N \in Nat
    BY <1>1, <1>2, <2>2
  <2>4. \A i \in 1 .. Len(names) : all[i + 1] = names[i]
    <3> SUFFICES ASSUME NEW i \in 1 .. Len(names) PROVE all[i + 1] = names[i]
      OBVIOUS
    <3>1. i + 1 \in Nat /\ i + 1 > Len(r) /\ i + 1 <= Len(r) + Len(names) /\ (i + 1) - Len(r) = i
      BY <1>2, <2>2
    <3>2. \A j \in Nat : j > Len(r) /\ j <= Len(r) + Len(names) => (r \o names)[j] = names[j - Len(r)]
      BY <1>1, Glued
    <3> QED
      BY <3>1, <3>2 DEF all
  <2>5. Text(P) /\ Len(P) = N + 2 /\ \A i \in 1 .. N + 2 : P[i] = IF i % 2 = 1 THEN "/" ELSE all[i \div 2]
    BY <1>4, <2>3, PathTokens
  <2>6. Text(b) /\ Len(b) = N /\ \A i \in 1 .. N : b[i] = IF i % 2 = 1 THEN "/" ELSE names[i \div 2]
    BY <2>3, PathTokens
  <2>7. ResourcePath(u) = a
    BY <1>6, <1>7, <1>9, <2>3, <2>5
  <2> HIDE DEF P, b, L
  <2>8. /\ Text(a) /\ Len(a) = IF 3 <= N + 2 THEN (N + 2) - 3 + 1 ELSE 0
        /\ \A i \in Nat \ {0} : i <= (N + 2) - 3 + 1 => a[i] = P[3 + i - 1]
    <3> DEFINE j == N + 2
    <3>1. j \in Nat /\ j <= Len(P)
      BY <2>3, <2>5
    <3>2. a = SubSeq(P, 3, j)
      BY <2>3
    <3> HIDE DEF j, a
    <3>3. \A i \in Nat \ {0} : Text(SubSeq(P, i, j)) /\ Len(SubSeq(P, i, j)) = IF i <= j THEN j - i + 1 ELSE 0
      BY <2>5, <3>1, Parts
    <3>4. \A i \in Nat \ {0} : i <= j - 3 + 1 => SubSeq(P, 3, j)[i] = P[3 + i - 1]
      BY <2>5, <3>1, Parts
    <3>5. Text(a) /\ Len(a) = IF 3 <= j THEN j - 3 + 1 ELSE 0
      <4>1. 3 \in Nat \ {0}
        OBVIOUS
      <4>2. Text(SubSeq(P, 3, j)) /\ Len(SubSeq(P, 3, j)) = IF 3 <= j THEN j - 3 + 1 ELSE 0
        BY <3>3, <4>1, Zenon
      <4> QED
        BY <3>2, <4>2, Zenon
    <3> QED
      BY <3>2, <3>4, <3>5 DEF j
  <2> HIDE DEF a
  <2>9. Len(a) = N
    <3> HIDE DEF N
    <3>1. N = 0 \/ 3 <= N + 2
      BY <1>2, <2>3 DEF N
    <3> QED
      BY <2>3, <2>8, <3>1
  <2>10. ASSUME NEW i \in 1 .. N PROVE a[i] = b[i]
    <3>1. i \in Nat \ {0} /\ i <= (N + 2) - 3 + 1 /\ 3 + i - 1 = i + 2 /\ i + 2 \in 1 .. N + 2
      BY <2>3
    <3>2. a[i] = P[i + 2]
      BY <2>8, <3>1
    <3>3. CASE i % 2 = 1
      <4>1. (i + 2) % 2 = 1
        BY <3>1, <3>3
      <4> QED
        BY <2>5, <2>6, <3>1, <3>2, <3>3, <4>1
    <3>4. CASE i % 2 # 1
      <4>1. (i + 2) % 2 # 1 /\ (i + 2) \div 2 = (i \div 2) + 1 /\ i \div 2 \in 1 .. Len(names)
        BY <1>2, <3>1, <3>4
      <4>2. P[i + 2] = all[(i + 2) \div 2]
        BY <2>5, <3>1, <4>1
      <4>3. all[(i \div 2) + 1] = names[i \div 2]
        BY <2>4, <4>1
      <4>4. b[i] = names[i \div 2]
        BY <2>6, <3>4
      <4> QED
        BY <3>2, <4>1, <4>2, <4>3, <4>4
    <3> QED
      BY <3>3, <3>4
  <2>11. a = b
    BY <2>6, <2>8, <2>9, <2>10, SameText
  <2> QED
    BY <2>7, <2>11 DEF b
<1> QED
  BY <1>8, <1>9

\* The service signs what it reads of a SAS and, unless the SAS is one of the account, the
\* path of the share or of the file.
LEMMA SameSignature ==
    ASSUME NEW u, NEW w, \A name \in SASParams : Read(w.Query, name) = Read(u.Query, name),
           \/ Read(u.Query, "ss") # << >>
           \/ Read(u.Query, "sr") = << "s" >> /\ SubSeq(ResourcePath(w), 1, 2) = SubSeq(ResourcePath(u), 1, 2)
           \/ ResourcePath(w) = ResourcePath(u)
    PROVE  SignedByService(w) = SignedByService(u)
<1> DEFINE canonical(x) == << "/file/", Account >>
                              \o (IF Read(x.Query, "sr") = << "s" >> THEN SubSeq(ResourcePath(x), 1, 2) ELSE ResourcePath(x))
<1>1. /\ Read(w.Query, "sp") = Read(u.Query, "sp") /\ Read(w.Query, "ss") = Read(u.Query, "ss")
      /\ Read(w.Query, "srt") = Read(u.Query, "srt") /\ Read(w.Query, "st") = Read(u.Query, "st")
      /\ Read(w.Query, "se") = Read(u.Query, "se") /\ Read(w.Query, "sip") = Read(u.Query, "sip")
      /\ Read(w.Query, "spr") = Read(u.Query, "spr") /\ Read(w.Query, "sv") = Read(u.Query, "sv")
      /\ Read(w.Query, "sr") = Read(u.Query, "sr") /\ Read(w.Query, "si") = Read(u.Query, "si")
      /\ Read(w.Query, "rscc") = Read(u.Query, "rscc") /\ Read(w.Query, "rscd") = Read(u.Query, "rscd")
      /\ Read(w.Query, "rsce") = Read(u.Query, "rsce") /\ Read(w.Query, "rscl") = Read(u.Query, "rscl")
      /\ Read(w.Query, "rsct") = Read(u.Query, "rsct")
  BY DEF SASParams, TextParams
<1>2. Read(u.Query, "ss") = << >> => canonical(w) = canonical(u)
  BY <1>1
<1> HIDE DEF canonical
<1> QED
  BY <1>1, <1>2 DEF SignedByService, canonical

\* A SAS that means something can be read.
LEMMA MeantIsReadable ==
    ASSUME NEW k, NEW u, NEW others, QueryMeant(u, others), NEW sas, SASMeant(k, u, sas)
    PROVE  Readable(u)
<1> DEFINE q == u.Query
           keys == {key \in DOMAIN q : key[1] \in SASParams}
<1>0. \A key \in DOMAIN q : Text(q[key])
  BY DEF QueryMeant
<1>1. CASE sas = << >>
  <2>1. keys = {}
    BY <1>1 DEF SASMeant
  <2>2. \A name \in SASParams : Sole(q, name) /\ Read(q, name) = << >>
    <3> SUFFICES ASSUME NEW name \in SASParams PROVE Sole(q, name) /\ Read(q, name) = << >>
      OBVIOUS
    <3>1. \A key \in DOMAIN q : key[1] # name
      BY <2>1
    <3> QED
      BY <3>1, ReadNone DEF Sole
  <2>3. "st" \in SASParams /\ "se" \in SASParams /\ "sip" \in SASParams
    BY DEF SASParams
  <2>4. SASTimeRead(<< >>)
    BY ShortTexts DEF SASTimeRead
  <2>5. << >> \in IPTexts
    BY DEF IPTexts
  <2> QED
    BY <2>2, <2>3, <2>4, <2>5 DEF Readable
<1>2. CASE sas # << >>
  <2>1. /\ \A key \in keys : Len(q[key]) = 1 /\ \A l \in keys : l[1] = key[1] => l = key
        /\ SASTimeRead(Read(q, "st")) /\ SASTimeRead(Read(q, "se"))
        /\ Read(q, "sip") \in IPTexts
    BY <1>2 DEF SASMeant
  <2>2. \A name \in SASParams : Sole(q, name)
    BY <1>0, <2>1 DEF Sole
  <2> QED
    BY <2>1, <2>2 DEF Readable
<1> QED
  BY <1>1, <1>2

\* A SAS goes on meaning the same as long as it grants the same, and its parameters and
\* signature are the same if it came as the library writes it.
LEMMA SASCarried ==
    ASSUME NEW k, NEW u, NEW sas, SASMeant(k, u, sas), NEW l, NEW w,
           \A name \in SASParams : Sole(w.Query, name), SameGrant(u.Query, w.Query),
           sas = << >> => \A key \in DOMAIN w.Query : key[1] \notin SASParams,
           k # "service" => l # "service", k = "file" => l = "file",
           sas # << >> /\ AsWritten(u.Query) =>
             /\ \A name \in SASParams : Read(w.Query, name) = Read(u.Query, name)
             /\ SignedByService(w) = SignedByService(u)
    PROVE  SASMeant(l, w, sas)
<1> DEFINE keys == {key \in DOMAIN w.Query : key[1] \in SASParams}
<1>1. CASE sas = << >>
  BY <1>1 DEF SASMeant
<1>2. CASE sas # << >>
  <2>1. \A key \in keys : Len(w.Query[key]) = 1 /\ \A m \in keys : m[1] = key[1] => m = key
    BY DEF Sole
  <2>2. /\ "st" \in SASParams /\ "se" \in SASParams /\ "sip" \in SASParams /\ "sig" \in SASParams
        /\ "ss" \in TextParams /\ "sr" \in TextParams /\ "sp" \in TextParams
    BY DEF SASParams, TextParams
  <2>3. /\ Read(w.Query, "ss") = Read(u.Query, "ss") /\ Read(w.Query, "sr") = Read(u.Query, "sr")
        /\ Read(w.Query, "sp") = Read(u.Query, "sp")
        /\ SASTimeRead(Read(w.Query, "st")) /\ Seconds(Read(w.Query, "st")) = Seconds(Read(u.Query, "st"))
        /\ SASTimeRead(Read(w.Query, "se")) /\ Seconds(Read(w.Query, "se")) = Seconds(Read(u.Query, "se"))
        /\ Read(w.Query, "sip") \in IPTexts /\ IPRangeOf(Read(w.Query, "sip")) = IPRangeOf(Read(u.Query, "sip"))
    BY <2>2 DEF SameGrant
  <2>4. ASSUME sas[1].asWritten PROVE AsWritten(w.Query) /\ Read(w.Query, "sig") = SignedByService(w)
    <3>1. AsWritten(u.Query) /\ Read(u.Query, "sig") = SignedByService(u)
      BY <1>2, <2>4 DEF SASMeant
    <3>2. \A name \in SASParams : Read(w.Query, name) = Read(u.Query, name)
      BY <1>2, <3>1
    <3>3. SignedByService(w) = SignedByService(u)
      BY <1>2, <3>1
    <3> QED
      BY <2>2, <3>1, <3>2, <3>3 DEF AsWritten
  <2>5. /\ Read(w.Query, "ss") # << >> \/ (Read(w.Query, "sr") = << "s" >> /\ l # "service") \/ l = "file"
        /\ ToSet(Read(w.Query, "sp")) = sas[1].permissions
        /\ Seconds(Read(w.Query, "st")) = Seconds(sas[1].start)
        /\ Seconds(Read(w.Query, "se")) = Seconds(sas[1].expiry)
        /\ IPRangeOf(Read(w.Query, "sip")) = sas[1].ip
    BY <1>2, <2>3 DEF SASMeant
  <2> QED
    BY <1>2, <2>1, <2>3, <2>4, <2>5 DEF SASMeant
<1> QED
  BY <1>1, <1>2

\* A query grants what it grants.
LEMMA SameQuery == ASSUME NEW u, Readable(u) PROVE SameGrant(u.Query, u.Query)
BY DEF Readable, SameGrant

\* The SAS of a URL survives being taken apart and put together again.
LEMMA SASKept ==
    ASSUME NEW k, NEW u, NEW names, NamesMeant(k, names), PathMeant(u, names),
           NEW others, QueryMeant(u, others), NEW sas, SASMeant(k, u, sas),
           NEW seen \in Orders(u.Query), NEW up, PathMeant(URL(up), names),
           up.UnparsedParams = NewFileURLParts(u, seen).UnparsedParams,
           up.SAS = NewFileURLParts(u, seen).SAS
    PROVE  SASMeant(k, URL(up), sas)
<1> DEFINE w == URL(up)
<1>1. Readable(u)
  BY MeantIsReadable
<1>2. ASSUME NEW name \in SASParams
      PROVE  /\ Sole(w.Query, name) /\ Read(w.Query, name) = Rewritten(name, Read(u.Query, name))
             /\ Read(u.Query, name) = << >> => \A key \in DOMAIN w.Query : key[1] # name
  <2>1. Value(up.SAS, name) = Rewritten(name, Read(u.Query, name))
    BY <1>1, SASParsed
  <2>2. Read(u.Query, name) = << >> => Value(up.SAS, name) = << >>
    BY <2>1, NothingRewritten
  <2> QED
    BY <2>1, <2>2, ReadMade
<1>3. ResourcePath(w) = ResourcePath(u)
  BY ResourceOf
<1> HIDE DEF w
<1>4. /\ SameGrant(u.Query, w.Query)
      /\ AsWritten(u.Query) => /\ \A name \in SASParams : Read(w.Query, name) = Read(u.Query, name)
                               /\ SignedByService(w) = SignedByService(u)
  <2>1. /\ SameGrant(u.Query, w.Query)
        /\ AsWritten(u.Query) => \A name \in SASParams : Read(w.Query, name) = Read(u.Query, name)
    BY <1>1, <1>2, GrantRewritten
  <2> QED
    BY <1>3, <2>1, SameSignature
<1>5. ASSUME sas = << >> PROVE \A key \in DOMAIN w.Query : key[1] \notin SASParams
  <2>1. \A name \in SASParams : Read(u.Query, name) = << >>
    <3>1. \A key \in DOMAIN u.Query : key[1] \notin SASParams
      BY <1>5 DEF SASMeant
    <3> QED
      BY <3>1, ReadNone
  <2> QED
    BY <1>2, <2>1
<1>6. SASMeant(k, w, sas)
  BY <1>2, <1>4, <1>5, SASCarried
<1> QED
  BY <1>6 DEF w

\* One more name fits the kind of the URL that is made.
LEMMA NamesGrow ==
    ASSUME NEW k, NEW names, NamesMeant(k, names), NEW name \in Names, NEW l,
           \/ k = "service" /\ l = "share"
           \/ k \in {"share", "directory"} /\ l \in {"directory", "file"}
    PROVE  NamesMeant(l, Append(names, name))
<1> DEFINE more == Append(names, name)
<1>1. /\ Text(names) /\ ToSet(names) \cap {"/", "\\"} = {} /\ name \notin {"/", "\\"}
      /\ k = "service" => Len(names) = 0
      /\ k \in {"share", "directory"} => Len(names) >= 1
  BY NamesAssumption DEF NamesMeant
<1>2. Len(names) \in Nat /\ DOMAIN names = 1 .. Len(names)
  BY <1>1, TextHas
<1>3. /\ Text(more) /\ Len(more) = Len(names) + 1
      /\ \A i \in 1 .. Len(names) : more[i] = names[i]
      /\ more[Len(names) + 1] = name
  BY <1>1, Appended
<1> HIDE DEF more
<1>4. DOMAIN more = 1 .. Len(names) + 1
  BY <1>3, TextHas
<1>5. \A i \in DOMAIN more : more[i] \in ToSet(names) \/ more[i] = name
  <2>1. \A i \in 1 .. Len(names) + 1 : i \in 1 .. Len(names) \/ i = Len(names) + 1
    BY <1>2
  <2> QED
    BY <1>2, <1>3, <1>4, <2>1 DEF ToSet
<1>6. ToSet(more) \cap {"/", "\\"} = {}
  BY <1>1, <1>5 DEF ToSet
<1>7. /\ l = "share" => Len(more) = 1
      /\ l = "directory" => Len(more) >= 1
      /\ l = "file" => Len(more) >= 2
  BY <1>1, <1>2, <1>3
<1> QED
  BY <1>3, <1>6, <1>7 DEF NamesMeant, more

\* A SAS stays good in the URLs made of a service, share or directory URL: it was
\* signed for the account or for the share.
LEMMA SASGrown ==
    ASSUME NEW k \in {"service", "share", "directory"}, NEW u, DOMAIN u = {"Host", "Path", "Query"},
           NEW names, NamesMeant(k, names), PathMeant(u, names),
           NEW others, QueryMeant(u, others), NEW sas, SASMeant(k, u, sas), NEW name,
           NEW l \in {"share", "directory", "file"}, NamesMeant(l, Append(names, name))
    PROVE  SASMeant(l, appendToURLPath(u, name), sas)
<1> DEFINE w == appendToURLPath(u, name)
           more == Append(names, name)
<1>1. w.Query = u.Query /\ PathMeant(w, more)
  BY PathOfAppend
<1>2. Readable(u)
  BY MeantIsReadable
<1>3. ResourcePath(u) = PathOf(names, 2 * Len(names)) /\ ResourcePath(w) = PathOf(more, 2 * Len(more))
  <2> HIDE DEF w, more
  <2> QED
    BY <1>1, ResourceOf DEF more
<1>4. Text(names) /\ Len(names) \in Nat /\ Len(more) = Len(names) + 1 /\ \A i \in 1 .. Len(names) : more[i] = names[i]
  BY Appended, TextHas DEF NamesMeant
<1> HIDE DEF w, more
<1>5. k # "service" => SubSeq(ResourcePath(w), 1, 2) = SubSeq(ResourcePath(u), 1, 2)
  <2> SUFFICES ASSUME k # "service" PROVE SubSeq(ResourcePath(w), 1, 2) = SubSeq(ResourcePath(u), 1, 2)
    OBVIOUS
  <2>1. Len(names) >= 1
    BY <1>4 DEF NamesMeant
  <2>2. 2 * Len(names) \in Nat /\ 2 * Len(more) \in Nat /\ 2 <= 2 * Len(names) /\ 2 <= 2 * Len(more)
    BY <1>4, <2>1
  <2>3. SubSeq(ResourcePath(w), 1, 2) = PathOf(more, 2) /\ SubSeq(ResourcePath(u), 1, 2) = PathOf(names, 2)
    BY <1>3, <2>2, PathBegins
  <2>4. more[1] = names[1]
    BY <1>4, <2>1
  <2>5. PathOf(more, 2) = PathOf(names, 2)
    <3>1. \A i \in 1 .. 2 : i % 2 = 1 \/ i \div 2 = 1
      OBVIOUS
    <3> QED
      BY <2>4, <3>1 DEF PathOf
  <2> QED
    BY <2>3, <2>5
<1>6. sas # << >> => SignedByService(w) = SignedByService(u)
  <2>1. sas # << >> => Read(u.Query, "ss") # << >> \/ (Read(u.Query, "sr") = << "s" >> /\ k # "service")
    BY DEF SASMeant
  <2> QED
    BY <1>1, <1>5, <2>1, SameSignature
<1>7. sas = << >> => \A key \in DOMAIN w.Query : key[1] \notin SASParams
  BY <1>1 DEF SASMeant
<1>8. \A n \in SASParams : Sole(w.Query, n) /\ Read(w.Query, n) = Read(u.Query, n)
  BY <1>1, <1>2 DEF Readable
<1>9. SameGrant(u.Query, w.Query)
  BY <1>1, <1>2, SameQuery
<1>10. SASMeant(l, w, sas)
  BY <1>6, <1>7, <1>8, <1>9, SASCarried
<1> QED
  BY <1>10 DEF w

\* The letters of a type of flags that are in a text, in whatever order, and no others.
LEMMA PermissionsKept ==
    ASSUME NEW flags, Text(flags), Len(flags) <= 8, NEW text, ~ ParseError(flags, text)
    PROVE  ToSet(InOrder(flags, text)) = ToSet(text)
<1> DEFINE letter(i) == IF i \in DOMAIN flags /\ flags[i] \in ToSet(text) THEN << flags[i] >> ELSE << >>
<1>1. \A i : Text(letter(i))
  BY ShortTexts
<1>2. \A i : ToSet(letter(i)) = IF i \in DOMAIN flags /\ flags[i] \in ToSet(text) THEN {flags[i]} ELSE {}
  <2>1. ToSet(<< >>) = {} /\ \A a : ToSet(<< a >>) = {a}
    BY DEF ToSet
  <2> QED
    BY <2>1
<1>3. ASSUME NEW s, NEW t, Text(s), Text(t)
      PROVE  Text(s \o t) /\ ToSet(s \o t) = ToSet(s) \cup ToSet(t)
  <2>1. /\ Text(s \o t) /\ Len(s \o t) = Len(s) + Len(t)
        /\ \A i \in 1 .. Len(s) : (s \o t)[i] = s[i]
        /\ \A i \in Nat : i > Len(s) /\ i <= Len(s) + Len(t) => (s \o t)[i] = t[i - Len(s)]
    BY <1>3, Glued
  <2>2. /\ Len(s) \in Nat /\ Len(t) \in Nat /\ DOMAIN s = 1 .. Len(s) /\ DOMAIN t = 1 .. Len(t)
        /\ DOMAIN (s \o t) = 1 .. Len(s) + Len(t)
    BY <1>3, <2>1, TextHas
  <2>3. ASSUME NEW i \in DOMAIN (s \o t) PROVE (s \o t)[i] \in ToSet(s) \cup ToSet(t)
    <3>1. CASE i <= Len(s)
      <4>1. i \in DOMAIN s /\ (s \o t)[i] = s[i]
        BY <2>1, <2>2, <3>1
      <4> QED
        BY <4>1 DEF ToSet
    <3>2. CASE i > Len(s)
      <4>1. i \in Nat /\ i <= Len(s) + Len(t) /\ i - Len(s) \in DOMAIN t
        BY <2>2, <3>2
      <4>2. (s \o t)[i] = t[i - Len(s)]
        BY <2>1, <3>2, <4>1
      <4> QED
        BY <4>1, <4>2 DEF ToSet
    <3> QED
      BY <2>2, <3>1, <3>2
  <2>4. ASSUME NEW i \in DOMAIN s PROVE s[i] \in ToSet(s \o t)
    <3>1. i \in DOMAIN (s \o t) /\ (s \o t)[i] = s[i]
      BY <2>1, <2>2
    <3> QED
      BY <3>1 DEF ToSet
  <2>5. ASSUME NEW i \in DOMAIN t PROVE t[i] \in ToSet(s \o t)
    <3>1. /\ i + Len(s) \in DOMAIN (s \o t) /\ i + Len(s) \in Nat /\ i + Len(s) > Len(s)
          /\ i + Len(s) <= Len(s) + Len(t) /\ (i + Len(s)) - Len(s) = i
      BY <2>2
    <3>2. (s \o t)[i + Len(s)] = t[i]
      BY <2>1, <3>1
    <3> QED
      BY <3>1, <3>2 DEF ToSet
  <2> QED
    BY <2>1, <2>3, <2>4, <2>5 DEF ToSet
<1> HIDE DEF letter
<1>4. InOrder(flags, text) = letter(1) \o letter(2) \o letter(3) \o letter(4) \o letter(5) \o letter(6) \o letter(7) \o letter(8)
  BY DEF InOrder, letter
<1> DEFINE L2 == letter(1) \o letter(2)
           L3 == L2 \o letter(3)
           L4 == L3 \o letter(4)
           L5 == L4 \o letter(5)
           L6 == L5 \o letter(6)
           L7 == L6 \o letter(7)
           L8 == L7 \o letter(8)
<1>5. InOrder(flags, text) = L8
  BY <1>4
<1>6. Text(L2) /\ ToSet(L2) = ToSet(letter(1)) \cup ToSet(letter(2))
  BY <1>1, <1>3
<1> HIDE DEF L2
<1>7. Text(L3) /\ ToSet(L3) = ToSet(L2) \cup ToSet(letter(3))
  BY <1>1, <1>3, <1>6
<1> HIDE DEF L3
<1>8. Text(L4) /\ ToSet(L4) = ToSet(L3) \cup ToSet(letter(4))
  BY <1>1, <1>3, <1>7
<1> HIDE DEF L4
<1>9. Text(L5) /\ ToSet(L5) = ToSet(L4) \cup ToSet(letter(5))
  BY <1>1, <1>3, <1>8
<1> HIDE DEF L5
<1>10. Text(L6) /\ ToSet(L6) = ToSet(L5) \cup ToSet(letter(6))
  BY <1>1, <1>3, <1>9
<1> HIDE DEF L6
<1>11. Text(L7) /\ ToSet(L7) = ToSet(L6) \cup ToSet(letter(7))
  BY <1>1, <1>3, <1>10
<1> HIDE DEF L7
<1>12. ToSet(L8) = ToSet(L7) \cup ToSet(letter(8))
  BY <1>1, <1>3, <1>11
<1> HIDE DEF L8
<1>13. \A e : e \in ToSet(L8) <=> \E i \in 1 .. 8 : e \in ToSet(letter(i))
  <2>1. 1 .. 8 = {1, 2, 3, 4, 5, 6, 7, 8}
    OBVIOUS
  <2> QED
    BY <1>6, <1>7, <1>8, <1>9, <1>10, <1>11, <1>12, <2>1, Zenon
<1>14. DOMAIN flags \subseteq 1 .. 8
  BY TextHas
<1>15. \A e : e \in ToSet(text) => \E i \in DOMAIN flags : e = flags[i]
  BY DEF ParseError, ToSet
<1>16. ASSUME NEW e PROVE e \in ToSet(L8) <=> e \in ToSet(text)
  <2>1. ASSUME e \in ToSet(L8) PROVE e \in ToSet(text)
    <3>1. PICK i \in 1 .. 8 : e \in ToSet(letter(i))
      BY <1>13, <2>1
    <3> QED
      BY <1>2, <3>1
  <2>2. ASSUME e \in ToSet(text) PROVE e \in ToSet(L8)
    <3>1. PICK i \in DOMAIN flags : e = flags[i]
      BY <1>15, <2>2
    <3>2. e \in ToSet(letter(i)) /\ i \in 1 .. 8
      BY <1>2, <1>14, <2>2, <3>1
    <3> QED
      BY <1>13, <3>2
  <2> QED
    BY <2>1, <2>2
<1> QED
  BY <1>5, <1>16

\* The canonical name of a file, as the library and as the service put it together.
LEMMA CanonicalPath ==
    ASSUME NEW names, Text(names), Len(names) >= 1, NEW rest, Text(rest),
           Len(rest) = Len(names) - 1, \A i \in 1 .. Len(rest) : rest[i] = names[i + 1]
    PROVE  << "/file/", Account, "/" >> \o << names[1] >> \o PathOf(rest, 2 * Len(rest))
             = << "/file/", Account >> \o PathOf(names, 2 * Len(names))
<1> DEFINE L == Len(names)
           R == Len(rest)
           a == << "/file/", Account, "/" >>
           h == << names[1] >>
           b == << "/file/", Account >>
           P == PathOf(rest, 2 * R)
           Q == PathOf(names, 2 * L)
           c == a \o h
           x == c \o P
           y == b \o Q
<1>1. L \in Nat /\ R \in Nat /\ L = R + 1 /\ L >= 1
  BY TextHas
<1>2. /\ Text(a) /\ Len(a) = 3 /\ a[1] = "/file/" /\ a[2] = Account /\ a[3] = "/"
      /\ Text(h) /\ Len(h) = 1 /\ h[1] = names[1]
      /\ Text(b) /\ Len(b) = 2 /\ b[1] = "/file/" /\ b[2] = Account
  BY ShortTexts
<1>3. /\ Text(P) /\ Len(P) = 2 * R /\ \A i \in 1 .. 2 * R : P[i] = IF i % 2 = 1 THEN "/" ELSE rest[i \div 2]
      /\ Text(Q) /\ Len(Q) = 2 * L /\ \A i \in 1 .. 2 * L : Q[i] = IF i % 2 = 1 THEN "/" ELSE names[i \div 2]
  <2>1. 2 * R \in Nat /\ 2 * L \in Nat
    BY <1>1
  <2> HIDE DEF R, L
  <2> QED
    BY <2>1, PathTokens
<1> HIDE DEF a, h, b, P, Q
<1>4. /\ Text(c) /\ Len(c) = 4 /\ c[1] = "/file/" /\ c[2] = Account /\ c[3] = "/" /\ c[4] = names[1]
  <2>1. /\ Text(c) /\ Len(c) = Len(a) + Len(h)
        /\ \A i \in 1 .. Len(a) : c[i] = a[i]
        /\ \A i \in Nat : i > Len(a) /\ i <= Len(a) + Len(h) => c[i] = h[i - Len(a)]
    BY <1>2, Glued
  <2> HIDE DEF c
  <2>2. c[4] = h[4 - 3]
    BY <1>2, <2>1
  <2> QED
    BY <1>2, <2>1, <2>2
<1> HIDE DEF c
<1>5. /\ Text(x) /\ Len(x) = 4 + 2 * R
      /\ \A i \in 1 .. 4 : x[i] = c[i]
      /\ \A i \in Nat : i > 4 /\ i <= 4 + 2 * R => x[i] = P[i - 4]
  <2>1. /\ Text(x) /\ Len(x) = Len(c) + Len(P)
        /\ \A i \in 1 .. Len(c) : x[i] = c[i]
        /\ \A i \in Nat : i > Len(c) /\ i <= Len(c) + Len(P) => x[i] = P[i - Len(c)]
    BY <1>3, <1>4, Glued
  <2> HIDE DEF x, R
  <2> QED
    BY <1>3, <1>4, <2>1
<1>6. /\ Text(y) /\ Len(y) = 2 + 2 * L
      /\ \A i \in 1 .. 2 : y[i] = b[i]
      /\ \A i \in Nat : i > 2 /\ i <= 2 + 2 * L => y[i] = Q[i - 2]
  <2>1. /\ Text(y) /\ Len(y) = Len(b) + Len(Q)
        /\ \A i \in 1 .. Len(b) : y[i] = b[i]
        /\ \A i \in Nat : i > Len(b) /\ i <= Len(b) + Len(Q) => y[i] = Q[i - Len(b)]
    BY <1>2, <1>3, Glued
  <2> HIDE DEF y, L
  <2> QED
    BY <1>2, <1>3, <2>1
<1>7. \A i \in 1 .. R : rest[i] = names[i + 1]
  OBVIOUS
<1> HIDE DEF x, y, R, L
<1>8. Len(x) = Len(y)
  BY <1>1, <1>5, <1>6
<1>9. ASSUME NEW i \in 1 .. Len(x) PROVE x[i] = y[i]
  <2>0. i \in Nat /\ i >= 1 /\ i <= 4 + 2 * R /\ i <= 2 + 2 * L
    BY <1>1, <1>5
  <2>1. CASE i = 1 \/ i = 2
    BY <1>2, <1>4, <1>5, <1>6, <2>1
  <2>2. CASE i > 2
    <3>1. y[i] = Q[i - 2] /\ i - 2 \in 1 .. 2 * L
      BY <1>1, <1>6, <2>0, <2>2
    <3>2. Q[i - 2] = IF (i - 2) % 2 = 1 THEN "/" ELSE names[(i - 2) \div 2]
      BY <1>3, <3>1
    <3>3. CASE i = 3
      <4>1. (i - 2) % 2 = 1
        BY <3>3
      <4> QED
        BY <1>4, <1>5, <3>1, <3>2, <3>3, <4>1
    <3>4. CASE i = 4
      <4>1. (i - 2) % 2 # 1 /\ (i - 2) \div 2 = 1
        BY <3>4
      <4> QED
        BY <1>4, <1>5, <3>1, <3>2, <3>4, <4>1
    <3>5. CASE i > 4
      <4>1. x[i] = P[i - 4] /\ i - 4 \in 1 .. 2 * R
        BY <1>1, <1>5, <2>0, <3>5
      <4>2. P[i - 4] = IF (i - 4) % 2 = 1 THEN "/" ELSE rest[(i - 4) \div 2]
        BY <1>3, <4>1
      <4>3. (i - 4) % 2 = (i - 2) % 2
        BY <2>0, <3>5
      <4>4. CASE (i - 4) % 2 = 1
        BY <3>1, <3>2, <4>1, <4>2, <4>3, <4>4
      <4>5. CASE (i - 4) % 2 # 1
        <5>1. (i - 4) \div 2 \in 1 .. R /\ (i - 4) \div 2 + 1 = (i - 2) \div 2
          BY <1>1, <2>0, <3>5, <4>1, <4>5
        <5>2. rest[(i - 4) \div 2] = names[(i - 2) \div 2]
          BY <1>7, <5>1
        <5> QED
          BY <3>1, <3>2, <4>1, <4>2, <4>3, <4>5, <5>2
      <4> QED
        BY <4>4, <4>5
    <3> QED
      BY <2>0, <2>2, <3>3, <3>4, <3>5
  <2> QED
    BY <2>0, <2>1, <2>2
<1>10. x = y
  BY <1>5, <1>6, <1>8, <1>9, SameText
<1> QED
  BY <1>10 DEF x, y, a, b, c, h, P, Q, L, R

\* However its path is spelt, the file is signed for under the same name
\* (sas_service.go:101-114).
LEMMA SpelledPath ==
    ASSUME NEW rest, Text(rest), ToSet(rest) \cap {"/", "\\"} = {}, Len(rest) >= 1,
           NEW filePath \in Spellings(rest), NEW dfp,
           dfp = [i \in DOMAIN filePath |-> IF filePath[i] = "\\" THEN "/" ELSE filePath[i]]
    PROVE  /\ filePath # << >>
           /\ dfp # << >>
           /\ << "/" >> \o (IF dfp[1] = "/" THEN Tail(dfp) ELSE dfp) = PathOf(rest, 2 * Len(rest))
<1> DEFINE N == 2 * Len(rest)
           P == PathOf(rest, N)
           spelt(sep) == [i \in DOMAIN P |-> IF P[i] = "/" THEN sep ELSE P[i]]
<1>1. PICK sep \in {"/", "\\"} : filePath = spelt(sep) \/ filePath = Tail(spelt(sep))
  BY DEF Spellings
<1>2. Len(rest) \in Nat /\ DOMAIN rest = 1 .. Len(rest) /\ N \in Nat /\ N >= 2
  BY TextHas
<1>3. Text(P) /\ Len(P) = N /\ \A i \in 1 .. N : P[i] = IF i % 2 = 1 THEN "/" ELSE rest[i \div 2]
  <2> HIDE DEF N
  <2> QED
    BY <1>2, PathTokens
<1>4. \A i \in 1 .. Len(rest) : rest[i] # "/" /\ rest[i] # "\\"
  BY <1>2 DEF ToSet
<1>5. DOMAIN P = 1 .. N
  BY <1>3, TextHas
<1>6. \A i \in 1 .. N : P[i] # "\\"
  <2> SUFFICES ASSUME NEW i \in 1 .. N PROVE P[i] # "\\"
    OBVIOUS
  <2>1. CASE i % 2 = 1
    BY <1>3, <2>1
  <2>2. CASE i % 2 # 1
    <3>1. i \div 2 \in 1 .. Len(rest)
      BY <1>2, <2>2
    <3> QED
      BY <1>3, <1>4, <2>2, <3>1
  <2> QED
    BY <2>1, <2>2
<1>7. P[1] = "/" /\ P[2] # "/"
  <2>1. 1 \in 1 .. N /\ 2 \in 1 .. N /\ 1 % 2 = 1 /\ 2 % 2 # 1 /\ 2 \div 2 = 1 /\ 1 \in 1 .. Len(rest)
    BY <1>2
  <2> QED
    BY <1>3, <1>4, <2>1
<1> DEFINE s == spelt(sep)
           T == SubSeq(P, 2, N)
<1>8. s = [i \in 1 .. N |-> s[i]] /\ \A i \in 1 .. N : s[i] = IF P[i] = "/" THEN sep ELSE P[i]
  BY <1>5
<1> HIDE DEF P, s
<1>9. Text(s) /\ Len(s) = N /\ DOMAIN s = 1 .. N
  BY <1>2, <1>8, TextIs
<1>10. << "/" >> \o T = P
  <2>1. Part(T) = P
    <3>1. Part(SubSeq(P, 2, N)) = SubSeq(P, 2 - 1, N)
      BY <1>2, PartOfPath DEF P
    <3>2. SubSeq(P, 1, N) = P
      BY <1>2, PathBegins DEF P
    <3>3. 2 - 1 = 1
      OBVIOUS
    <3> QED
      BY <3>1, <3>2, <3>3
  <2>2. P # << >>
    BY <1>2, <1>3, EmptyText
  <2> HIDE DEF T
  <2> QED
    BY <2>1, <2>2 DEF Part
<1>11. Tail(P) = T
  <2>1. P \in Seq(ToSet(P)) /\ P # << >>
    BY <1>2, <1>3, EmptyText DEF Text
  <2>2. Tail(P) = SubSeq(P, 2, Len(P))
    BY <2>1, TailIsSubSeq
  <2> QED
    BY <1>3, <2>2
<1>12. CASE filePath = spelt(sep)
  <2>1. filePath = s
    BY <1>12 DEF s
  <2>2. dfp = P
    <3>1. DOMAIN dfp = 1 .. N /\ dfp = [i \in 1 .. N |-> dfp[i]]
      BY <1>9, <2>1
    <3>2. Text(dfp) /\ Len(dfp) = N
      BY <1>2, <3>1, TextIs
    <3>3. \A i \in 1 .. N : dfp[i] = P[i]
      BY <1>6, <1>8, <1>9, <2>1
    <3> QED
      BY <1>3, <3>2, <3>3, SameText
  <2>3. P # << >> /\ s # << >>
    BY <1>2, <1>3, <1>9, EmptyText
  <2> QED
    BY <1>7, <1>10, <1>11, <2>1, <2>2, <2>3 DEF P
<1>13. CASE filePath = Tail(spelt(sep))
  <2>1. filePath = Tail(s)
    BY <1>13 DEF s
  <2>2. s \in Seq(ToSet(s)) /\ s # << >>
    BY <1>2, <1>9, EmptyText DEF Text
  <2>3. filePath = SubSeq(s, 2, N)
    BY <1>9, <2>1, <2>2, TailIsSubSeq
  <2>4. /\ Text(filePath) /\ Len(filePath) = N - 1
        /\ \A i \in Nat \ {0} : i <= N - 1 => filePath[i] = s[i + 1]
    <3>1. /\ Text(SubSeq(s, 2, N)) /\ Len(SubSeq(s, 2, N)) = IF 2 <= N THEN N - 2 + 1 ELSE 0
          /\ \A i \in Nat \ {0} : i <= N - 2 + 1 => SubSeq(s, 2, N)[i] = s[2 + i - 1]
      <4> DEFINE j == 2
                 M == N
      <4>1. j \in Nat \ {0} /\ M \in Nat /\ M <= Len(s)
        BY <1>2, <1>9
      <4> HIDE DEF j, M
      <4>2. /\ Text(SubSeq(s, j, M)) /\ Len(SubSeq(s, j, M)) = IF j <= M THEN M - j + 1 ELSE 0
            /\ \A i \in Nat \ {0} : i <= M - j + 1 => SubSeq(s, j, M)[i] = s[j + i - 1]
        BY <1>9, <4>1, Parts
      <4> QED
        BY <4>2 DEF j, M
    <3>2. N - 2 + 1 = N - 1 /\ \A i \in Nat : 2 + i - 1 = i + 1
      BY <1>2
    <3> HIDE DEF N
    <3> QED
      BY <1>2, <2>3, <3>1, <3>2
  <2>5. /\ Text(T) /\ Len(T) = N - 1
        /\ \A i \in Nat \ {0} : i <= N - 1 => T[i] = P[i + 1]
    <3>1. /\ Text(SubSeq(P, 2, N)) /\ Len(SubSeq(P, 2, N)) = IF 2 <= N THEN N - 2 + 1 ELSE 0
          /\ \A i \in Nat \ {0} : i <= N - 2 + 1 => SubSeq(P, 2, N)[i] = P[2 + i - 1]
      <4> DEFINE j == 2
                 M == N
      <4>1. j \in Nat \ {0} /\ M \in Nat /\ M <= Len(P)
        BY <1>2, <1>3
      <4> HIDE DEF j, M
      <4>2. /\ Text(SubSeq(P, j, M)) /\ Len(SubSeq(P, j, M)) = IF j <= M THEN M - j + 1 ELSE 0
            /\ \A i \in Nat \ {0} : i <= M - j + 1 => SubSeq(P, j, M)[i] = P[j + i - 1]
        BY <1>3, <4>1, Parts
      <4> QED
        BY <4>2 DEF j, M
    <3>2. N - 2 + 1 = N - 1 /\ \A i \in Nat : 2 + i - 1 = i + 1
      BY <1>2
    <3> HIDE DEF N
    <3> QED
      BY <1>2, <3>1, <3>2
  <2> HIDE DEF T
  <2>6. dfp = T
    <3>1. DOMAIN filePath = 1 .. N - 1
      BY <2>4, TextHas
    <3>2. N - 1 \in Nat
      BY <1>2
    <3>3. dfp = [i \in 1 .. N - 1 |-> dfp[i]]
      BY <3>1
    <3>4. Text(dfp) /\ Len(dfp) = N - 1
      BY <3>2, <3>3, TextIs
    <3>5. ASSUME NEW i \in 1 .. N - 1 PROVE dfp[i] = T[i]
      <4>1. i \in Nat \ {0} /\ i <= N - 1 /\ i + 1 \in 1 .. N
        BY <3>2
      <4>2. filePath[i] = s[i + 1] /\ T[i] = P[i + 1]
        BY <2>4, <2>5, <4>1
      <4>3. s[i + 1] = IF P[i + 1] = "/" THEN sep ELSE P[i + 1]
        BY <1>8, <4>1
      <4>4. P[i + 1] # "\\"
        BY <1>6, <4>1
      <4>5. dfp[i] = IF filePath[i] = "\\" THEN "/" ELSE filePath[i]
        BY <3>1
      <4> QED
        BY <4>2, <4>3, <4>4, <4>5
    <3> QED
      BY <2>5, <3>4, <3>5, SameText
  <2>7. filePath # << >> /\ T # << >>
    <3>1. N - 1 # 0
      BY <1>2
    <3> QED
      BY <2>4, <2>5, <3>1, EmptyText
  <2>8. T[1] # "/"
    <3>1. 1 \in Nat \ {0} /\ 1 <= N - 1 /\ 1 + 1 = 2
      BY <1>2
    <3>2. T[1] = P[1 + 1]
      BY <2>5, <3>1
    <3> QED
      BY <1>7, <3>1, <3>2
  <2> QED
    BY <1>10, <2>6, <2>7, <2>8 DEF P
<1> QED
  BY <1>1, <1>12, <1>13

\* A record of a SAS's parameters has one for each name that is kept as text.
LEMMA TextValues ==
    ASSUME NEW p, NEW name \in TextParams
    PROVE  Value(p, name) = p.text[name] /\ name \in SASParams
<1>1. name \notin {"st", "se", "sip"}
  BY DEF TextParams
<1> QED
  BY <1>1 DEF Value, SASParams

\* A parameter that is not set is empty.
LEMMA NoValues == \A name \in TextParams : NoSAS.text[name] = << >>
<1>1. DOMAIN << >> = {}
  BY ShortTexts, TextHas
<1> QED
  BY <1>1 DEF NoSAS, newSASQueryParameters

\* The string that FileSASSignatureValues signs (sas_service.go:59-73).
FileStringToSign(v, shareName, filePath) ==
    << InOrder(IF filePath = << >> THEN ShareSASPermissions ELSE FileSASPermissions, v.Permissions),
       FormatTimeForSASSigning(v.StartTime), FormatTimeForSASSigning(v.ExpiryTime),
       getCanonicalName(Account, shareName, filePath), v.Identifier, IPRangeText(v.IPRange),
       v.Protocol, Version(v), v.CacheControl, v.ContentDisposition, v.ContentEncoding,
       v.ContentLanguage, v.ContentType >>

\* The parameters p of the SAS of a share or a file.
IsFileSAS(p, v, shareName, filePath, flags) ==
    /\ ~ ParseError(flags, v.Permissions)
    /\ p.st = [time |-> v.StartTime, format |-> 0] /\ p.se = [time |-> v.ExpiryTime, format |-> 0]
    /\ p.ipRange = v.IPRange
    /\ p.text["sp"] = InOrder(flags, v.Permissions)
    /\ p.text["sr"] = << IF filePath = << >> THEN "s" ELSE "f" >>
    /\ p.text["sig"] = FileStringToSign(v, shareName, filePath)
    /\ p.text["ss"] = << >> /\ p.text["sv"] = Version(v) /\ p.text["spr"] = v.Protocol
    /\ p.text["si"] = v.Identifier /\ p.text["rscc"] = v.CacheControl
    /\ p.text["rscd"] = v.ContentDisposition /\ p.text["rsce"] = v.ContentEncoding
    /\ p.text["rscl"] = v.ContentLanguage /\ p.text["rsct"] = v.ContentType

\* What FileSASSignatureValues.NewSASQueryParameters returns, if it is not an error.
LEMMA FileValues ==
    ASSUME NEW v, NEW shareName, NEW filePath, FileSAS(v, shareName, filePath) # << >>, NEW flags,
           flags = IF filePath = << >> THEN ShareSASPermissions ELSE FileSASPermissions
    PROVE  IsFileSAS(FileSAS(v, shareName, filePath)[1], v, shareName, filePath, flags)
<1> DEFINE T == [name \in TextParams |->
                    CASE name = "sv" -> Version(v)
                      [] name = "spr" -> v.Protocol
                      [] name = "sp" -> InOrder(flags, v.Permissions)
                      [] name = "sr" -> << IF filePath = << >> THEN "s" ELSE "f" >>
                      [] name = "si" -> v.Identifier
                      [] name = "rscc" -> v.CacheControl
                      [] name = "rscd" -> v.ContentDisposition
                      [] name = "rsce" -> v.ContentEncoding
                      [] name = "rscl" -> v.ContentLanguage
                      [] name = "rsct" -> v.ContentType
                      [] name = "sig" -> FileStringToSign(v, shareName, filePath)
                      [] OTHER -> NoSAS.text[name]]
           rec == [text |-> T, st |-> [time |-> v.StartTime, format |-> 0],
                   se |-> [time |-> v.ExpiryTime, format |-> 0], ipRange |-> v.IPRange]
<1>1. FileSAS(v, shareName, filePath) = IF ParseError(flags, v.Permissions) THEN << >> ELSE << rec >>
  BY DEF FileSAS, FileStringToSign
<1>2. /\ T["sp"] = InOrder(flags, v.Permissions)
      /\ T["sr"] = << IF filePath = << >> THEN "s" ELSE "f" >>
      /\ T["sig"] = FileStringToSign(v, shareName, filePath)
      /\ T["ss"] = NoSAS.text["ss"] /\ T["sv"] = Version(v) /\ T["spr"] = v.Protocol
      /\ T["si"] = v.Identifier /\ T["rscc"] = v.CacheControl
      /\ T["rscd"] = v.ContentDisposition /\ T["rsce"] = v.ContentEncoding
      /\ T["rscl"] = v.ContentLanguage /\ T["rsct"] = v.ContentType
  BY DEF TextParams
<1>3. NoSAS.text["ss"] = << >>
  BY NoValues DEF TextParams
<1> HIDE DEF T
<1>4. ~ ParseError(flags, v.Permissions) /\ FileSAS(v, shareName, filePath)[1] = rec
  <2> HIDE DEF rec
  <2> QED
    BY <1>1
<1>5. /\ rec.text = T /\ rec.st = [time |-> v.StartTime, format |-> 0]
      /\ rec.se = [time |-> v.ExpiryTime, format |-> 0] /\ rec.ipRange = v.IPRange
  OBVIOUS
<1> HIDE DEF rec
<1> QED
  BY <1>2, <1>3, <1>4, <1>5 DEF IsFileSAS

\* The string that AccountSASSignatureValues signs (zc_sas_account.go:42-53).
AccountStringToSign(v) ==
    << << Account >>, InOrder(AccountSASPermissions, v.Permissions), v.Services, v.ResourceTypes,
       FormatTimeForSASSigning(v.StartTime), FormatTimeForSASSigning(v.ExpiryTime),
       IPRangeText(v.IPRange), v.Protocol, Version(v), << >> >>

\* The parameters of the SAS of an account.
LEMMA AccountValues ==
    ASSUME NEW v, AccountSAS(v) # << >>, NEW p, p = AccountSAS(v)[1]
    PROVE  /\ ~ ParseError(AccountSASPermissions, v.Permissions) /\ v.Services # << >>
           /\ p.st = [time |-> v.StartTime, format |-> 0] /\ p.se = [time |-> v.ExpiryTime, format |-> 0]
           /\ p.ipRange = v.IPRange
           /\ p.text["sp"] = InOrder(AccountSASPermissions, v.Permissions)
           /\ p.text["sig"] = AccountStringToSign(v)
           /\ p.text["ss"] = v.Services /\ p.text["srt"] = v.ResourceTypes
           /\ p.text["sv"] = Version(v) /\ p.text["spr"] = v.Protocol
<1> DEFINE T == [name \in TextParams |->
                    CASE name = "sv" -> Version(v)
                      [] name = "spr" -> v.Protocol
                      [] name = "sp" -> InOrder(AccountSASPermissions, v.Permissions)
                      [] name = "ss" -> v.Services
                      [] name = "srt" -> v.ResourceTypes
                      [] name = "sig" -> AccountStringToSign(v)
                      [] OTHER -> NoSAS.text[name]]
           rec == [text |-> T, st |-> [time |-> v.StartTime, format |-> 0],
                   se |-> [time |-> v.ExpiryTime, format |-> 0], ipRange |-> v.IPRange]
           wrong == \/ v.ExpiryTime = << >> \/ v.Permissions = << >>
                    \/ v.ResourceTypes = << >> \/ v.Services = << >>
                    \/ ParseError(AccountSASPermissions, v.Permissions)
<1>1. AccountSAS(v) = IF wrong THEN << >> ELSE << rec >>
  BY DEF AccountSAS, AccountStringToSign
<1>2. /\ T["sp"] = InOrder(AccountSASPermissions, v.Permissions)
      /\ T["sig"] = AccountStringToSign(v)
      /\ T["ss"] = v.Services /\ T["srt"] = v.ResourceTypes
      /\ T["sv"] = Version(v) /\ T["spr"] = v.Protocol
  BY DEF TextParams
<1> HIDE DEF T
<1>4. ~ wrong /\ p = rec
  <2> HIDE DEF rec, wrong
  <2> QED
    BY <1>1
<1>5. /\ rec.text = T /\ rec.st = [time |-> v.StartTime, format |-> 0]
      /\ rec.se = [time |-> v.ExpiryTime, format |-> 0] /\ rec.ipRange = v.IPRange
  OBVIOUS
<1> HIDE DEF rec
<1> QED
  BY <1>2, <1>4, <1>5

\* The types of flags have at most eight letters.
LEMMA FlagTypes ==
    \A flags \in {ShareSASPermissions, FileSASPermissions, AccountSASPermissions} :
        Text(flags) /\ Len(flags) <= 8
<1>1. Text(ShareSASPermissions) /\ Len(ShareSASPermissions) <= 8
  BY DEF ShareSASPermissions, Text, ToSet
<1>2. Text(FileSASPermissions) /\ Len(FileSASPermissions) <= 8
  BY DEF FileSASPermissions, Text, ToSet
<1>3. Text(AccountSASPermissions) /\ Len(AccountSASPermissions) <= 8
  BY DEF AccountSASPermissions, Text, ToSet
<1> QED
  BY <1>1, <1>2, <1>3

\* A SAS in which the service reads what was signed means what was asked for.
LEMMA SASAttached ==
    ASSUME NEW k, NEW w, NEW v \in Signable, NEW p, NEW flags,
           flags \in {ShareSASPermissions, FileSASPermissions, AccountSASPermissions},
           \A name \in SASParams : Sole(w.Query, name) /\ Read(w.Query, name) = Value(p, name),
           p.st = [time |-> v.StartTime, format |-> 0], p.se = [time |-> v.ExpiryTime, format |-> 0],
           p.ipRange = v.IPRange,
           p.text["ss"] # << >> \/ (p.text["sr"] = << "s" >> /\ k # "service") \/ k = "file",
           p.text["sig"] = SignedByService(w),
           ~ ParseError(flags, v.Permissions), p.text["sp"] = InOrder(flags, v.Permissions)
    PROVE  SASMeant(k, w, << [permissions |-> ToSet(v.Permissions), start |-> v.StartTime,
                              expiry |-> v.ExpiryTime, ip |-> v.IPRange, asWritten |-> TRUE] >>)
<1> DEFINE rec == [permissions |-> ToSet(v.Permissions), start |-> v.StartTime,
                   expiry |-> v.ExpiryTime, ip |-> v.IPRange, asWritten |-> TRUE]
           sas == << rec >>
           keys == {key \in DOMAIN w.Query : key[1] \in SASParams}
           q(name) == Read(w.Query, name)
<1>1. /\ sas # << >> /\ sas[1] = rec /\ rec.permissions = ToSet(v.Permissions)
      /\ rec.start = v.StartTime /\ rec.expiry = v.ExpiryTime /\ rec.ip = v.IPRange
      /\ rec.asWritten = TRUE
  BY ShortTexts
<1> HIDE DEF rec, sas
<1>2. /\ q("st") = TimeText(p.st) /\ q("se") = TimeText(p.se) /\ q("sip") = IPRangeText(p.ipRange)
  <2>1. Value(p, "st") = TimeText(p.st) /\ Value(p, "se") = TimeText(p.se) /\ Value(p, "sip") = IPRangeText(p.ipRange)
    BY DEF Value
  <2>2. "st" \in SASParams /\ "se" \in SASParams /\ "sip" \in SASParams
    BY DEF SASParams
  <2> QED
    BY <2>1, <2>2
<1>3. /\ q("ss") = p.text["ss"] /\ q("sr") = p.text["sr"] /\ q("sig") = p.text["sig"] /\ q("sp") = p.text["sp"]
  <2>1. "ss" \in TextParams /\ "sr" \in TextParams /\ "sig" \in TextParams /\ "sp" \in TextParams
    BY DEF TextParams
  <2> QED
    BY <2>1, TextValues
<1>4. /\ SASTimeText(q("st")) /\ Seconds(q("st")) = Seconds(v.StartTime)
      /\ SASTimeText(q("se")) /\ Seconds(q("se")) = Seconds(v.ExpiryTime)
  <2>1. /\ Text(v.StartTime) /\ Len(v.StartTime) \in {0, 4}
        /\ Text(v.ExpiryTime) /\ Len(v.ExpiryTime) \in {0, 4}
    BY SignableAssumption
  <2> QED
    BY <1>2, <2>1, TimeSigned
<1>5. q("sip") = IPRangeText(v.IPRange) /\ v.IPRange \in IPRanges /\ IPRangeOf(q("sip")) = v.IPRange
  BY <1>2, SignableAssumption, RangeTrip
<1>6. ToSet(q("sp")) = ToSet(v.Permissions)
  BY <1>3, FlagTypes, PermissionsKept
<1>7. \A key \in keys : Len(w.Query[key]) = 1 /\ \A m \in keys : m[1] = key[1] => m = key
  BY DEF Sole
<1>8. AsWritten(w.Query)
  BY <1>4, <1>5 DEF AsWritten
<1>9. SASTimeRead(q("st")) /\ SASTimeRead(q("se")) /\ q("sip") \in IPTexts
  <2>1. \A t : SASTimeText(t) => SASTimeRead(t)
    <3> SUFFICES ASSUME NEW t, SASTimeText(t) PROVE SASTimeRead(t)
      OBVIOUS
    <3>1. Text(t) /\ Len(t) <= 3 /\ Len(t) \in Nat
      BY TextHas DEF SASTimeText, SASTimeFormats
    <3>2. Len(t) <= 4
      BY <3>1
    <3> QED
      BY <3>1, <3>2 DEF SASTimeRead
  <2> QED
    BY <1>4, <1>5, <2>1, RangeTrip
<1>10. SASMeant(k, w, sas)
  BY <1>1, <1>3, <1>4, <1>5, <1>6, <1>7, <1>8, <1>9 DEF SASMeant
<1> QED
  BY <1>10 DEF sas, rec

\* The service computes the signature of the SAS of a share or of a file.
LEMMA FileSigned ==
    ASSUME NEW k \in {"share", "directory", "file"}, NEW names, NamesMeant(k, names),
           NEW w, PathMeant(w, names), NEW v \in Signable, NEW filePath,
           filePath = << >> \/ (k = "file" /\ filePath \in Spellings(Tail(names))),
           FileSAS(v, << Head(names) >>, filePath) # << >>, NEW p, p = FileSAS(v, << Head(names) >>, filePath)[1],
           \A name \in SASParams : Sole(w.Query, name) /\ Read(w.Query, name) = Value(p, name)
    PROVE  SASMeant(k, w, << [permissions |-> ToSet(v.Permissions), start |-> v.StartTime,
                              expiry |-> v.ExpiryTime, ip |-> v.IPRange, asWritten |-> TRUE] >>)
<1> DEFINE flags == IF filePath = << >> THEN ShareSASPermissions ELSE FileSASPermissions
           q(name) == Read(w.Query, name)
           path == ResourcePath(w)
           h == Head(names)
           canonical == << "/file/", Account >> \o (IF q("sr") = << "s" >> THEN SubSeq(path, 1, 2) ELSE path)
<1>1. IsFileSAS(p, v, << h >>, filePath, flags)
  <2> DEFINE share == << h >>
  <2>1. FileSAS(v, share, filePath) # << >> /\ p = FileSAS(v, share, filePath)[1]
    OBVIOUS
  <2>2. flags = IF filePath = << >> THEN ShareSASPermissions ELSE FileSASPermissions
    OBVIOUS
  <2> HIDE DEF share, flags
  <2>3. IsFileSAS(p, v, share, filePath, flags)
    BY <2>1, <2>2, FileValues
  <2> QED
    BY <2>3 DEF share
<1>2. /\ q("sp") = p.text["sp"] /\ q("sr") = p.text["sr"] /\ q("ss") = p.text["ss"] /\ q("sv") = p.text["sv"]
      /\ q("spr") = p.text["spr"] /\ q("si") = p.text["si"] /\ q("rscc") = p.text["rscc"]
      /\ q("rscd") = p.text["rscd"] /\ q("rsce") = p.text["rsce"] /\ q("rscl") = p.text["rscl"]
      /\ q("rsct") = p.text["rsct"]
  <2>1. \A n \in {"sp", "sr", "ss", "sv", "spr", "si", "rscc", "rscd", "rsce", "rscl", "rsct"} : n \in TextParams
    BY DEF TextParams
  <2>2. \A n \in TextParams : q(n) = p.text[n]
    BY TextValues
  <2> HIDE DEF q
  <2> QED
    BY <2>1, <2>2
<1>3. /\ q("st") = FormatTimeForSASSigning(v.StartTime) /\ q("se") = FormatTimeForSASSigning(v.ExpiryTime)
      /\ q("sip") = IPRangeText(v.IPRange)
  <2>1. /\ Text(v.StartTime) /\ Len(v.StartTime) \in {0, 4}
        /\ Text(v.ExpiryTime) /\ Len(v.ExpiryTime) \in {0, 4}
    BY SignableAssumption
  <2>2. Value(p, "st") = TimeText(p.st) /\ Value(p, "se") = TimeText(p.se) /\ Value(p, "sip") = IPRangeText(p.ipRange)
    BY DEF Value
  <2>3. "st" \in SASParams /\ "se" \in SASParams /\ "sip" \in SASParams
    BY DEF SASParams
  <2> QED
    BY <1>1, <2>1, <2>2, <2>3, TimeSigned DEF IsFileSAS
<1>4. /\ Text(names) /\ ToSet(names) \cap {"/", "\\"} = {} /\ Len(names) \in Nat /\ Len(names) >= 1
      /\ k = "file" => Len(names) >= 2
  BY TextHas DEF NamesMeant
<1>5. path = PathOf(names, 2 * Len(names))
  BY ResourceOf
<1>6. h = names[1]
  OBVIOUS
<1>7. canonical = getCanonicalName(Account, << h >>, filePath)
  <2> DEFINE dfp == [i \in DOMAIN filePath |-> IF filePath[i] = "\\" THEN "/" ELSE filePath[i]]
             tail == IF dfp = << >> THEN << >> ELSE << "/" >> \o (IF dfp[1] = "/" THEN Tail(dfp) ELSE dfp)
  <2>0. getCanonicalName(Account, << h >>, filePath) = << "/file/", Account, "/" >> \o << h >> \o tail
    BY DEF getCanonicalName
  <2>1. CASE filePath = << >>
    <3>1. tail = << >>
      <4>1. dfp = [i \in 1 .. 0 |-> dfp[i]]
        BY <2>1
      <4> HIDE DEF dfp
      <4>2. Text(dfp) /\ Len(dfp) = 0
        BY <4>1, TextIs
      <4>3. dfp = << >>
        BY <4>2, EmptyText
      <4> QED
        BY <4>3
    <3>2. q("sr") = << "s" >>
      BY <1>1, <1>2, <2>1 DEF IsFileSAS
    <3>3. SubSeq(path, 1, 2) = PathOf(names, 2)
      <4>1. 2 * Len(names) \in Nat /\ 2 <= 2 * Len(names)
        BY <1>4
      <4> QED
        BY <1>5, <4>1, PathBegins
    <3>4. PathOf(<< h >>, 2) = PathOf(names, 2)
      <4>1. << h >>[1] = names[1]
        BY <1>6
      <4>2. \A i \in 1 .. 2 : i % 2 = 1 \/ i \div 2 = 1
        OBVIOUS
      <4> HIDE DEF h
      <4> QED
        BY <4>1, <4>2 DEF PathOf
    <3>5. << "/file/", Account, "/" >> \o << h >> \o << >> = << "/file/", Account >> \o PathOf(<< h >>, 2)
      <4> DEFINE one == << h >>
      <4>1. Text(one) /\ Len(one) = 1 /\ one[1] = h
        BY ShortTexts
      <4>2. Text(<< >>) /\ Len(<< >>) = 0
        BY ShortTexts
      <4> HIDE DEF one
      <4>3. << "/file/", Account, "/" >> \o << one[1] >> \o PathOf(<< >>, 2 * Len(<< >>))
              = << "/file/", Account >> \o PathOf(one, 2 * Len(one))
        <5>1. Len(one) >= 1 /\ Len(<< >>) = Len(one) - 1 /\ \A i \in 1 .. Len(<< >>) : << >>[i] = one[i + 1]
          BY <4>1, <4>2
        <5> QED
          BY <4>1, <4>2, <5>1, CanonicalPath
      <4>4. PathOf(<< >>, 2 * Len(<< >>)) = << >>
        BY <4>2, PathTokens, EmptyText
      <4>5. 2 * Len(one) = 2
        BY <4>1
      <4> QED
        BY <4>1, <4>3, <4>4, <4>5 DEF one
    <3>6. canonical = << "/file/", Account >> \o PathOf(names, 2)
      <4> HIDE DEF path, q
      <4> QED
        BY <3>2, <3>3
    <3> HIDE DEF canonical, tail, h
    <3> QED
      BY <2>0, <3>1, <3>4, <3>5, <3>6
  <2>2. CASE filePath # << >>
    <3> DEFINE rest == Tail(names)
    <3>1. k = "file" /\ filePath \in Spellings(rest) /\ Len(names) >= 2
      BY <1>4, <2>2
    <3>2. /\ Text(rest) /\ Len(rest) = Len(names) - 1
          /\ \A i \in 1 .. Len(rest) : rest[i] = names[i + 1]
      <4>1. names \in Seq(ToSet(names)) /\ names # << >>
        BY <1>4, <3>1, EmptyText DEF Text
      <4>2. /\ rest \in Seq(ToSet(names)) /\ Len(rest) = Len(names) - 1
            /\ \A i \in 1 .. Len(rest) : rest[i] = names[i + 1]
        BY <4>1, HeadTailProperties
      <4> HIDE DEF rest
      <4> QED
        BY <4>2, LenProperties, TextIs
    <3> HIDE DEF rest
    <3>3. ToSet(rest) \cap {"/", "\\"} = {}
      <4>1. DOMAIN rest = 1 .. Len(rest) /\ DOMAIN names = 1 .. Len(names)
        BY <1>4, <3>2, TextHas
      <4>2. \A i \in 1 .. Len(rest) : i + 1 \in DOMAIN names
        BY <1>4, <3>2, <4>1
      <4> QED
        BY <1>4, <3>2, <4>1, <4>2 DEF ToSet
    <3>4. Len(rest) >= 1
      BY <1>4, <3>1, <3>2
    <3>5. dfp # << >> /\ << "/" >> \o (IF dfp[1] = "/" THEN Tail(dfp) ELSE dfp) = PathOf(rest, 2 * Len(rest))
      BY <3>1, <3>2, <3>3, <3>4, SpelledPath
    <3> HIDE DEF dfp
    <3>6. tail = PathOf(rest, 2 * Len(rest))
      BY <3>5
    <3>7. << "/file/", Account, "/" >> \o << names[1] >> \o PathOf(rest, 2 * Len(rest))
            = << "/file/", Account >> \o PathOf(names, 2 * Len(names))
      BY <1>4, <3>2, CanonicalPath
    <3>8. q("sr") # << "s" >>
      <4>1. q("sr") = << "f" >>
        BY <1>1, <1>2, <2>2 DEF IsFileSAS
      <4> QED
        BY <4>1
    <3> HIDE DEF tail
    <3> QED
      BY <1>5, <1>6, <2>0, <3>6, <3>7, <3>8
  <2> QED
    BY <2>1, <2>2
<1>8. SignedByService(w) = FileStringToSign(v, << h >>, filePath)
  <2>1. SignedByService(w) =
            << q("sp"), q("st"), q("se"), canonical, q("si"), q("sip"), q("spr"), q("sv"),
               q("rscc"), q("rscd"), q("rsce"), q("rscl"), q("rsct") >>
    BY <1>1, <1>2 DEF SignedByService, IsFileSAS
  <2> HIDE DEF canonical, h, q
  <2> QED
    BY <1>1, <1>2, <1>3, <1>7, <2>1 DEF FileStringToSign, IsFileSAS
<1>9. /\ flags \in {ShareSASPermissions, FileSASPermissions, AccountSASPermissions}
      /\ p.text["ss"] # << >> \/ (p.text["sr"] = << "s" >> /\ k # "service") \/ k = "file"
  BY <1>1 DEF IsFileSAS
<1> HIDE DEF flags, h
<1> QED
  BY <1>1, <1>8, <1>9, SASAttached DEF IsFileSAS

\* The service computes the signature of the SAS of an account, whatever the URL.
LEMMA AccountSigned ==
    ASSUME NEW k, NEW w, NEW v \in Signable, AccountSAS(v) # << >>, NEW p, p = AccountSAS(v)[1],
           \A name \in SASParams : Sole(w.Query, name) /\ Read(w.Query, name) = Value(p, name)
    PROVE  SASMeant(k, w, << [permissions |-> ToSet(v.Permissions), start |-> v.StartTime,
                              expiry |-> v.ExpiryTime, ip |-> v.IPRange, asWritten |-> TRUE] >>)
<1> DEFINE q(name) == Read(w.Query, name)
<1>1. /\ ~ ParseError(AccountSASPermissions, v.Permissions) /\ v.Services # << >>
      /\ p.st = [time |-> v.StartTime, format |-> 0] /\ p.se = [time |-> v.ExpiryTime, format |-> 0]
      /\ p.ipRange = v.IPRange
      /\ p.text["sp"] = InOrder(AccountSASPermissions, v.Permissions)
      /\ p.text["sig"] = AccountStringToSign(v)
      /\ p.text["ss"] = v.Services /\ p.text["srt"] = v.ResourceTypes
      /\ p.text["sv"] = Version(v) /\ p.text["spr"] = v.Protocol
  BY AccountValues
<1>2. /\ q("sp") = p.text["sp"] /\ q("ss") = p.text["ss"] /\ q("srt") = p.text["srt"]
      /\ q("sv") = p.text["sv"] /\ q("spr") = p.text["spr"]
  <2>1. "sp" \in TextParams /\ "ss" \in TextParams /\ "srt" \in TextParams /\ "sv" \in TextParams /\ "spr" \in TextParams
    BY DEF TextParams
  <2>2. \A n \in TextParams : q(n) = p.text[n]
    BY TextValues
  <2> HIDE DEF q
  <2> QED
    BY <2>1, <2>2
<1>3. /\ q("st") = FormatTimeForSASSigning(v.StartTime) /\ q("se") = FormatTimeForSASSigning(v.ExpiryTime)
      /\ q("sip") = IPRangeText(v.IPRange)
  <2>1. /\ Text(v.StartTime) /\ Len(v.StartTime) \in {0, 4}
        /\ Text(v.ExpiryTime) /\ Len(v.ExpiryTime) \in {0, 4}
    BY SignableAssumption
  <2>2. Value(p, "st") = TimeText(p.st) /\ Value(p, "se") = TimeText(p.se) /\ Value(p, "sip") = IPRangeText(p.ipRange)
    BY DEF Value
  <2>3. "st" \in SASParams /\ "se" \in SASParams /\ "sip" \in SASParams
    BY DEF SASParams
  <2> QED
    BY <1>1, <2>1, <2>2, <2>3, TimeSigned
<1>4. SignedByService(w) = AccountStringToSign(v)
  <2>1. SignedByService(w) =
            << << Account >>, q("sp"), q("ss"), q("srt"), q("st"), q("se"), q("sip"),
               q("spr"), q("sv"), << >> >>
    BY <1>1, <1>2 DEF SignedByService
  <2> HIDE DEF q
  <2> QED
    BY <1>1, <1>2, <1>3, <2>1 DEF AccountStringToSign
<1>5. AccountSASPermissions \in {ShareSASPermissions, FileSASPermissions, AccountSASPermissions}
  OBVIOUS
<1> QED
  BY <1>1, <1>4, <1>5, SASAttached

-----------------------------------------------------------------------------
(* The invariant. *)

\* The URL at hand means what was asked for.
IInv == Meant(kind, url, asked)

\* The parts of a URL with another snapshot or another SAS.
LEMMA OtherParts ==
    ASSUME NEW u, NEW seen, NEW x
    PROVE  LET up == NewFileURLParts(u, seen)
               other(w) == /\ w.Host = u.Host /\ w.AccountName = up.AccountName /\ w.ShareName = up.ShareName
                           /\ w.DirectoryOrFilePath = up.DirectoryOrFilePath
                           /\ w.UnparsedParams = up.UnparsedParams
           IN /\ other([up EXCEPT !.ShareSnapshot = x])
              /\ [up EXCEPT !.ShareSnapshot = x].ShareSnapshot = x
              /\ [up EXCEPT !.ShareSnapshot = x].SAS = up.SAS
              /\ other([up EXCEPT !.SAS = x])
              /\ [up EXCEPT !.SAS = x].SAS = x
              /\ [up EXCEPT !.SAS = x].ShareSnapshot = up.ShareSnapshot
<1> DEFINE up == NewFileURLParts(u, seen)
<1>1. \E account, share, dir, snapshot, sas, unparsed :
        up = [Host |-> u.Host, AccountName |-> account, ShareName |-> share, DirectoryOrFilePath |-> dir,
              ShareSnapshot |-> snapshot, SAS |-> sas, UnparsedParams |-> unparsed]
  BY DEF NewFileURLParts, PartsLeaving
<1> HIDE DEF up
<1> QED
  BY <1>1 DEF up

\* A constructor adds a name (url_service.go:49, url_share.go:53, url_directory.go:43 and 53).
LEMMA NamedStep ==
    ASSUME IInv, NEW name \in Names, NEW k,
           \/ kind = "service" /\ k = "share"
           \/ kind \in {"share", "directory"} /\ k \in {"directory", "file"},
           Make(k, appendToURLPath(url, name), NamesToo(name))
    PROVE  IInv'
<1> DEFINE w == appendToURLPath(url, name)
           a == NamesToo(name)
<1>1. kind' = k /\ url' = w /\ asked' = a
  BY DEF Make
<1>2. /\ DOMAIN url = {"Host", "Path", "Query"} /\ DOMAIN asked = {"names", "snapshot", "sas", "others"}
      /\ NamesMeant(kind, asked.names) /\ PathMeant(url, asked.names) /\ QueryMeant(url, asked.others)
      /\ SnapshotMeant(url, asked.snapshot) /\ SASMeant(kind, url, asked.sas)
  BY DEF IInv, Meant
<1>3. /\ DOMAIN a = DOMAIN asked /\ a.names = Append(asked.names, name) /\ a.snapshot = asked.snapshot
      /\ a.sas = asked.sas /\ a.others = asked.others
  BY <1>2 DEF NamesToo
<1>4. NamesMeant(k, a.names)
  BY <1>2, <1>3, NamesGrow
<1>5. DOMAIN w = DOMAIN url /\ w.Host = url.Host /\ w.Query = url.Query /\ PathMeant(w, a.names)
  BY <1>2, <1>3, PathOfAppend
<1>6. QueryMeant(w, a.others) /\ SnapshotMeant(w, a.snapshot)
  BY <1>2, <1>3, <1>5 DEF QueryMeant, SnapshotMeant
<1>7. SASMeant(k, w, a.sas)
  BY <1>2, <1>3, <1>4, SASGrown
<1> HIDE DEF w, a
<1>8. Meant(k, w, a)
  BY <1>2, <1>3, <1>4, <1>5, <1>6, <1>7 DEF Meant
<1> QED
  BY <1>1, <1>8 DEF IInv

\* The root directory has the URL of its share.
LEMMA RootStep == ASSUME IInv, NewRootDirectoryURL PROVE IInv'
<1>1. kind = "share" /\ kind' = "directory" /\ url' = url /\ asked' = asked
  BY DEF NewRootDirectoryURL, Make
<1>2. /\ DOMAIN url = {"Host", "Path", "Query"} /\ DOMAIN asked = {"names", "snapshot", "sas", "others"}
      /\ NamesMeant(kind, asked.names) /\ PathMeant(url, asked.names) /\ QueryMeant(url, asked.others)
      /\ SnapshotMeant(url, asked.snapshot) /\ SASMeant(kind, url, asked.sas)
  BY DEF IInv, Meant
<1>3. NamesMeant("directory", asked.names)
  <2>1. Len(asked.names) = 1
    BY <1>1, <1>2 DEF NamesMeant
  <2>2. Len(asked.names) >= 1
    BY <2>1
  <2> QED
    BY <1>2, <2>2 DEF NamesMeant
<1>4. SASMeant("directory", url, asked.sas)
  <2>1. Readable(url)
    BY <1>2, MeantIsReadable
  <2>2. asked.sas = << >> => \A key \in DOMAIN url.Query : key[1] \notin SASParams
    BY <1>2 DEF SASMeant
  <2>3. \A name \in SASParams : Sole(url.Query, name)
    BY <2>1 DEF Readable
  <2>4. SameGrant(url.Query, url.Query)
    BY <2>1, SameQuery
  <2> QED
    BY <1>1, <1>2, <2>2, <2>3, <2>4, SASCarried
<1>5. Meant("directory", url, asked)
  BY <1>2, <1>3, <1>4 DEF Meant
<1> QED
  BY <1>1, <1>5 DEF IInv

\* WithSnapshot (url_share.go:42, url_file.go:53).
LEMMA SnapshotStep == ASSUME IInv, NEW snapshot, WithSnapshot(snapshot) PROVE IInv'
<1>1. PICK seen \in Orders(url.Query) :
          Make(kind, URL([NewFileURLParts(url, seen) EXCEPT !.ShareSnapshot = snapshot]),
               [asked EXCEPT !.snapshot = snapshot])
  BY DEF WithSnapshot
<1> DEFINE parts == NewFileURLParts(url, seen)
           up == [parts EXCEPT !.ShareSnapshot = snapshot]
           w == URL(up)
           a == [asked EXCEPT !.snapshot = snapshot]
<1>2. kind' = kind /\ url' = w /\ asked' = a
  BY <1>1 DEF Make
<1>3. /\ DOMAIN url = {"Host", "Path", "Query"} /\ DOMAIN asked = {"names", "snapshot", "sas", "others"}
      /\ NamesMeant(kind, asked.names) /\ PathMeant(url, asked.names) /\ QueryMeant(url, asked.others)
      /\ SASMeant(kind, url, asked.sas)
  BY DEF IInv, Meant
<1>4. /\ DOMAIN a = DOMAIN asked /\ a.names = asked.names /\ a.snapshot = snapshot
      /\ a.sas = asked.sas /\ a.others = asked.others
  BY <1>3
<1>5. /\ up.Host = url.Host /\ up.AccountName = parts.AccountName /\ up.ShareName = parts.ShareName
      /\ up.DirectoryOrFilePath = parts.DirectoryOrFilePath /\ up.UnparsedParams = parts.UnparsedParams
      /\ up.ShareSnapshot = snapshot /\ up.SAS = parts.SAS
  BY OtherParts
<1> HIDE DEF up, a
<1>6. DOMAIN w = {"Host", "Path", "Query"}
  BY DEF URL
<1>7. PathMeant(w, a.names)
  BY <1>3, <1>4, <1>5, PathOfParts
<1>8. QueryMeant(w, a.others) /\ SnapshotMeant(w, a.snapshot)
  BY <1>3, <1>4, <1>5, QueryKept, SnapshotSet
<1>9. SASMeant(kind, w, a.sas)
  BY <1>3, <1>4, <1>5, <1>7, SASKept
<1> HIDE DEF w
<1>10. Meant(kind, w, a)
  BY <1>3, <1>4, <1>6, <1>7, <1>8, <1>9 DEF Meant
<1> QED
  BY <1>2, <1>10 DEF IInv

\* A program signs values and puts the SAS into its URL (sas_service.go:31, zc_sas_account.go:26).
LEMMA AttachStep ==
    ASSUME IInv, NEW v \in Signable, NEW sas, Attach(sas, v),
           \/ sas = AccountSAS(v)
           \/ kind # "service" /\ sas = FileSAS(v, << Head(asked.names) >>, << >>)
           \/ /\ kind = "file"
              /\ \E filePath \in Spellings(Tail(asked.names)) : sas = FileSAS(v, << Head(asked.names) >>, filePath)
    PROVE  IInv'
<1>1. CASE sas = << >>
  BY <1>1 DEF Attach, IInv, vars
<1>2. CASE sas # << >>
  <2>1. PICK seen \in Orders(url.Query) :
           Make(kind, URL([NewFileURLParts(url, seen) EXCEPT !.SAS = sas[1]]),
                [asked EXCEPT !.sas = << [permissions |-> ToSet(v.Permissions), start |-> v.StartTime,
                                          expiry |-> v.ExpiryTime, ip |-> v.IPRange, asWritten |-> TRUE] >>])
    BY <1>2 DEF Attach
  <2> DEFINE parts == NewFileURLParts(url, seen)
             p == sas[1]
             up == [parts EXCEPT !.SAS = p]
             w == URL(up)
             new == << [permissions |-> ToSet(v.Permissions), start |-> v.StartTime,
                        expiry |-> v.ExpiryTime, ip |-> v.IPRange, asWritten |-> TRUE] >>
             a == [asked EXCEPT !.sas = new]
  <2>2. kind' = kind /\ url' = w /\ asked' = a
    BY <2>1 DEF Make
  <2>3. /\ DOMAIN url = {"Host", "Path", "Query"} /\ DOMAIN asked = {"names", "snapshot", "sas", "others"}
        /\ NamesMeant(kind, asked.names) /\ PathMeant(url, asked.names) /\ QueryMeant(url, asked.others)
        /\ SnapshotMeant(url, asked.snapshot)
    BY DEF IInv, Meant
  <2> HIDE DEF new
  <2>4. /\ DOMAIN a = DOMAIN asked /\ a.names = asked.names /\ a.snapshot = asked.snapshot
        /\ a.sas = new /\ a.others = asked.others
    BY <2>3
  <2>5. /\ up.Host = url.Host /\ up.AccountName = parts.AccountName /\ up.ShareName = parts.ShareName
        /\ up.DirectoryOrFilePath = parts.DirectoryOrFilePath /\ up.UnparsedParams = parts.UnparsedParams
        /\ up.ShareSnapshot = parts.ShareSnapshot /\ up.SAS = p
    BY OtherParts
  <2> HIDE DEF up, a, p
  <2>6. DOMAIN w = {"Host", "Path", "Query"}
    BY DEF URL
  <2>7. PathMeant(w, a.names)
    BY <2>3, <2>4, <2>5, PathOfParts
  <2>8. QueryMeant(w, a.others) /\ SnapshotMeant(w, a.snapshot)
    BY <2>3, <2>4, <2>5, QueryKept, SnapshotKept
  <2>9. \A name \in SASParams : Sole(w.Query, name) /\ Read(w.Query, name) = Value(p, name)
    BY <2>3, <2>5, ReadMade
  <2> HIDE DEF w
  <2>10. kind \in {"service", "share", "directory", "file"}
    BY <2>3 DEF NamesMeant
  <2>11. SASMeant(kind, w, new)
    <3>1. CASE sas = AccountSAS(v)
      BY <1>2, <2>9, <3>1, AccountSigned DEF p, new
    <3>2. CASE kind # "service" /\ sas = FileSAS(v, << Head(asked.names) >>, << >>)
      <4> DEFINE filePath == << >>
      <4>1. filePath = << >> /\ sas = FileSAS(v, << Head(asked.names) >>, filePath)
        BY <3>2
      <4> HIDE DEF filePath
      <4> QED
        BY <1>2, <2>3, <2>4, <2>7, <2>9, <2>10, <3>2, <4>1, FileSigned DEF p, new
    <3>3. ASSUME kind = "file", NEW filePath \in Spellings(Tail(asked.names)),
                 sas = FileSAS(v, << Head(asked.names) >>, filePath)
          PROVE  SASMeant(kind, w, new)
      BY <1>2, <2>3, <2>4, <2>7, <2>9, <3>3, FileSigned DEF p, new
    <3> QED
      BY <3>1, <3>2, <3>3
  <2>12. Meant(kind, w, a)
    BY <2>3, <2>4, <2>6, <2>7, <2>8, <2>11 DEF Meant
  <2> QED
    BY <2>2, <2>12 DEF IInv
<1> QED
  BY <1>1, <1>2

\* From every URL that a program is given, through every sequence of constructors, snapshots
\* and signatures, the URL at hand means what the calls asked for.
THEOREM URLInvariant == Spec => []IInv
<1>1. Init => IInv
  BY GivenAssumption DEF Init, IInv
<1>2. IInv /\ [Next]_vars => IInv'
  <2> SUFFICES ASSUME IInv, [Next]_vars PROVE IInv'
    OBVIOUS
  <2>1. CASE NewRootDirectoryURL
    BY <2>1, RootStep
  <2>2. ASSUME NEW name \in Names, NewShareURL(name) \/ NewDirectoryURL(name) \/ NewFileURL(name) PROVE IInv'
    BY <2>2, NamedStep DEF NewShareURL, NewDirectoryURL, NewFileURL
  <2>3. ASSUME NEW snapshot \in Snapshots, WithSnapshot(snapshot) PROVE IInv'
    BY <2>3, SnapshotStep
  <2>4. ASSUME NEW v \in Signable, SignShare(v) \/ SignFile(v) \/ SignAccount(v) PROVE IInv'
    <3>1. CASE SignShare(v)
      BY <3>1, AttachStep DEF SignShare
    <3>2. CASE SignFile(v)
      BY <3>2, AttachStep DEF SignFile
    <3>3. CASE SignAccount(v)
      BY <3>3, AttachStep DEF SignAccount
    <3> QED
      BY <2>4, <3>1, <3>2, <3>3
  <2>5. CASE UNCHANGED vars
    BY <2>5 DEF IInv, vars
  <2> QED
    BY <2>1, <2>2, <2>3, <2>4, <2>5 DEF Next
<1> QED
  BY <1>1, <1>2, PTL DEF Spec

\* A URL keeps denoting the account, share, directories and file that were named, and keeps
\* the parameters that are nobody's business here (appendToURLPath, NewFileURLParts, URL).
THEOREM DenotesWhatWasAskedHolds == Spec => []DenotesWhatWasAsked
<1>1. IInv => DenotesWhatWasAsked
  BY DEF IInv, Meant, PathMeant, QueryMeant, DenotesWhatWasAsked
<1> QED
  BY <1>1, URLInvariant, PTL

\* A URL names the snapshot that was asked for last, once, or none at all.
THEOREM SnapshotAsAskedHolds == Spec => []SnapshotAsAsked
<1>1. IInv => SnapshotAsAsked
  <2> DEFINE q == url.Query
             low == lower(shareSnapshot)
             places == Occurrences(q, shareSnapshot)
             values == {q[o[1]][o[2]] : o \in places}
  <2> SUFFICES ASSUME IInv, \A o \in places : o[1] = low
               PROVE  /\ values = (IF asked.snapshot = << >> THEN {} ELSE {asked.snapshot})
                      /\ Cardinality(places) <= 1
    BY DEF SnapshotAsAsked
  <2>1. QueryMeant(url, asked.others) /\ SnapshotMeant(url, asked.snapshot)
    BY DEF IInv, Meant
  <2>2. ASSUME NEW k \in DOMAIN q, k[1] = shareSnapshot PROVE k = low
    <3>1. Text(q[k]) /\ q[k] # << >>
      BY <2>1 DEF QueryMeant
    <3>2. 1 \in DOMAIN q[k]
      BY <3>1, TextHas, EmptyText
    <3>3. << k, 1 >> \in places
      BY <2>2, <3>2 DEF Occurrences
    <3>4. << k, 1 >>[1] = low
      BY <3>3
    <3> QED
      BY <3>4
  <2>3. IF asked.snapshot = << >> THEN low \notin DOMAIN q ELSE low \in DOMAIN q /\ q[low] = << asked.snapshot >>
    BY <2>1, <2>2 DEF SnapshotMeant
  <2>4. low[1] = shareSnapshot
    BY DEF lower
  <2>5. CASE asked.snapshot = << >>
    <3>1. places = {}
      BY <2>2, <2>3, <2>5, ReadNone
    <3>2. values = {} /\ Cardinality(places) = 0
      BY <3>1, FS_EmptySet
    <3> HIDE DEF values, places
    <3> QED
      BY <2>5, <3>2
  <2>6. CASE asked.snapshot # << >>
    <3>1. Sole(q, shareSnapshot)
      <4>1. Text(q[low]) /\ Len(q[low]) = 1
        BY <2>3, <2>6, ShortTexts
      <4> HIDE DEF q, low
      <4> QED
        BY <2>2, <4>1 DEF Sole
    <3>2. places = {<< low, 1 >>}
      BY <2>3, <2>4, <2>6, <3>1, ReadSole
    <3>3. q[low][1] = asked.snapshot
      BY <2>3, <2>6
    <3> HIDE DEF q, low, places
    <3>4. values = {asked.snapshot}
      BY <3>2, <3>3
    <3>5. Cardinality(places) = 1
      BY <3>2, FS_Singleton
    <3> QED
      BY <2>6, <3>4, <3>5
  <2> QED
    BY <2>5, <2>6
<1> QED
  BY <1>1, URLInvariant, PTL

\* The SAS of a URL, made here or by somebody else, is carried by every call: it grants what
\* was asked for, to the second and to the address, and the service computes the signature
\* that is in the URL if the SAS came without fractions of a second and with its addresses
\* spelled as net.IP.String does.
THEOREM SASIntactHolds == Spec => []SASIntact
<1>1. IInv => SASIntact
  <2> DEFINE q == url.Query
  <2> SUFFICES ASSUME IInv PROVE SASIntact
    OBVIOUS
  <2>1. QueryMeant(url, asked.others) /\ SASMeant(kind, url, asked.sas)
    BY DEF IInv, Meant
  <2>2. CASE asked.sas = << >>
    <3>1. \A key \in DOMAIN q : key[1] \notin SASParams
      BY <2>1, <2>2 DEF SASMeant
    <3>2. \A name \in SASParams : Occurrences(q, name) = {}
      BY <3>1, ReadNone
    <3> QED
      BY <2>2, <3>2 DEF SASIntact
  <2>3. CASE asked.sas # << >>
    <3>1. Readable(url)
      BY <2>1, MeantIsReadable
    <3>2. ASSUME NEW name \in SASParams PROVE Cardinality(Occurrences(q, name)) <= 1
      <4>1. Sole(q, name)
        BY <3>1 DEF Readable
      <4>2. CASE \A key \in DOMAIN q : key[1] # name
        <5>1. Occurrences(q, name) = {}
          BY <4>2, ReadNone
        <5>2. Cardinality(Occurrences(q, name)) = 0
          BY <5>1, FS_EmptySet
        <5> QED
          BY <5>2
      <4>3. ASSUME NEW key \in DOMAIN q, key[1] = name PROVE Cardinality(Occurrences(q, name)) <= 1
        <5>1. Occurrences(q, name) = {<< key, 1 >>}
          BY <4>1, <4>3, ReadSole
        <5>2. Cardinality(Occurrences(q, name)) = 1
          BY <5>1, FS_Singleton
        <5> QED
          BY <5>2
      <4> QED
        BY <4>2, <4>3
    <3> QED
      BY <2>1, <2>3, <3>2 DEF SASMeant, SASIntact
  <2> QED
    BY <2>2, <2>3
<1> QED
  BY <1>1, URLInvariant, PTL

=============================================================================
