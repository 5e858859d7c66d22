-------------------------- MODULE StreamConfigProofs --------------------------
(***************************************************************************)
(* What toJSON() wrote fromJSON() reads back: every field when the names are  *)
(* plain, every stream when they hold no bracket, a file that was cut short   *)
(* whole or not at all, and from any file only streams that can be saved      *)
(* again, for any number of streams and names of any length.  The text of a   *)
(* stream is known token by token and the file is such texts one after        *)
(* another; what the reader counts is followed along it from its beginning    *)
(* (UpTo) and bound to the least place where something holds (LeastNumber).   *)
(***************************************************************************)
EXTENDS StreamConfigFile, PTPTimingProofs, FiniteSetTheorems

-----------------------------------------------------------------------------
(* What a file is made of                                                   *)

\* What a text is made of.
LEMMA TokensAre ==
  /\ Keywords \subseteq Tokens /\ Brackets \subseteq Tokens /\ Chars \subseteq Tokens
  /\ Interfaces \cup {"0", AnyInterface, Resolved} \subseteq Tokens
  /\ Quote \in Chars /\ Backslash \in Chars /\ Chars \cap Keywords = {}
  /\ Quote \notin Keywords \cup Brackets /\ Backslash \notin Keywords \cup Brackets \cup {Quote}
  /\ Keywords \cap Brackets = {}
  /\ (Interfaces \cup {"0", AnyInterface, Resolved}) \cap (Keywords \cup Brackets) = {}
<1>1. Quote \notin Keywords \cup Brackets /\ Backslash \notin Keywords \cup Brackets \cup {Quote}
  BY DEF Quote, Backslash, Keywords, Brackets
<1>2. Keywords \cap Brackets = {} /\ {"0", AnyInterface, Resolved} \cap (Keywords \cup Brackets) = {}
  BY DEF Keywords, Brackets, AnyInterface, Resolved
<1> QED BY <1>1, <1>2, ConfigAssumption DEF Tokens

\* The words a file holds are tokens.
LEMMA WordsAre ==
  /\ "{" \in Tokens /\ "}" \in Tokens /\ "[" \in Tokens /\ "]" \in Tokens
  /\ "streams" \in Tokens /\ "enabled" \in Tokens /\ "true" \in Tokens /\ "false" \in Tokens
  /\ "jitterBufferDepth" \in Tokens /\ "64" \in Tokens /\ "0" \in Tokens
  /\ "networkInterface" \in Tokens /\ "sdp" \in Tokens /\ "sessionName" \in Tokens
  /\ "connectionAddress" \in Tokens /\ "mapping" \in Tokens /\ "streamName" \in Tokens
  /\ "channelCount" \in Tokens /\ "channelMap" \in Tokens
BY TokensAre DEF Keywords, Brackets

-----------------------------------------------------------------------------
(* Sequences                                                                *)

\* A sequence: its length, its places, and the empty one next to it.
LEMMA SeqAt ==
  ASSUME NEW S, NEW s \in Seq(S)
  PROVE  /\ Len(s) \in Nat /\ DOMAIN s = 1 .. Len(s) /\ \A i \in 1 .. Len(s) : s[i] \in S
         /\ s \o <<>> = s /\ <<>> \o s = s /\ (Len(s) = 0 <=> s = <<>>)
<1>1. Len(s) = 0 <=> s = <<>>
  BY EmptySeq, LenProperties
<1> QED BY <1>1, LenProperties, ElementOfSeq, ConcatEmptySeq

\* One text after another.
LEMMA JoinIs ==
  ASSUME NEW S, NEW s \in Seq(S), NEW t \in Seq(S), NEW v, v = s \o t
  PROVE  /\ v \in Seq(S) /\ Len(v) = Len(s) + Len(t)
         /\ \A i \in 1 .. Len(s) + Len(t) : v[i] = IF i <= Len(s) THEN s[i] ELSE t[i - Len(s)]
BY ConcatProperties

\* The places of the first text and of the second.
LEMMA JoinAt ==
  ASSUME NEW S, NEW s \in Seq(S), NEW t \in Seq(S), NEW v, v = s \o t,
         NEW m \in Nat, NEW n \in Nat, m = Len(s), n = Len(t)
  PROVE  /\ v \in Seq(S) /\ Len(v) = m + n
         /\ \A i \in 1 .. m : v[i] = s[i]
         /\ \A i \in 1 .. n : v[m + i] = t[i]
<1>1. /\ v \in Seq(S) /\ Len(v) = m + n
      /\ \A i \in 1 .. m + n : v[i] = IF i <= m THEN s[i] ELSE t[i - m]
  BY JoinIs
<1>2. ASSUME NEW i \in 1 .. n PROVE v[m + i] = t[i]
  <2>1. m + i \in 1 .. m + n /\ ~(m + i <= m) /\ (m + i) - m = i
    OBVIOUS
  <2> QED BY <1>1, <2>1
<1>3. ASSUME NEW i \in 1 .. m PROVE v[i] = s[i]
  <2>1. i \in 1 .. m + n /\ i <= m
    OBVIOUS
  <2> QED BY <1>1, <2>1
<1> QED BY <1>1, <1>2, <1>3

\* A part of a text.
LEMMA PartIs ==
  ASSUME NEW S, NEW s \in Seq(S), NEW a \in 1 .. Len(s) + 1, NEW b \in 0 .. Len(s)
  PROVE  /\ SubSeq(s, a, b) \in Seq(S)
         /\ Len(SubSeq(s, a, b)) = IF a <= b THEN b - a + 1 ELSE 0
         /\ \A i \in 1 .. b - a + 1 : SubSeq(s, a, b)[i] = s[a + i - 1]
<1>1. Len(s) \in Nat /\ \A i \in 1 .. Len(s) : s[i] \in S
  BY SeqAt
<1>2. a \in Int /\ b \in Int /\ \A i \in a .. b : s[i] \in S
  BY <1>1
<1> QED BY <1>2, SubSeqProperties

\* g[i] is what the first i sequences of s are, one after the other.
Joins(s, n, S, g) ==
  /\ g \in [0 .. n -> Seq(S)] /\ g[0] = <<>>
  /\ \A i \in 1 .. n : g[i] = g[i - 1] \o s[i]

\* There are such joins.
LEMMA JoinsExist ==
  ASSUME NEW S, NEW n \in Nat, NEW s \in [1 .. n -> Seq(S)]
  PROVE  \E g : Joins(s, n, S, g)
<1> DEFINE T == {k \in 0 .. n : ~\E g : Joins(s, k, S, g)}
<1>1. ASSUME NEW k \in 1 .. n, k - 1 \notin T PROVE k \notin T
  <2>1. k \in Nat /\ k - 1 \in 0 .. n /\ s[k] \in Seq(S)
    OBVIOUS
  <2>2. PICK g : Joins(s, k - 1, S, g)
    BY <1>1, <2>1
  <2> DEFINE h == [i \in 0 .. k |-> IF i = k THEN g[k - 1] \o s[k] ELSE g[i]]
  <2>3. \A i \in 0 .. k - 1 : g[i] \in Seq(S)
    BY <2>1, <2>2 DEF Joins
  <2>4. g[k - 1] \o s[k] \in Seq(S)
    BY <2>1, <2>3, ConcatProperties
  <2>5. h \in [0 .. k -> Seq(S)]
    BY <2>1, <2>3, <2>4
  <2>6. \A i \in 0 .. k : h[i] = IF i = k THEN g[k - 1] \o s[k] ELSE g[i]
    OBVIOUS
  <2>7. h[0] = <<>>
    BY <2>1, <2>2, <2>6 DEF Joins
  <2>8. \A i \in 1 .. k : h[i] = h[i - 1] \o s[i]
    <3> HIDE DEF h
    <3> TAKE i \in 1 .. k
    <3>1. i \in 0 .. k /\ i - 1 \in 0 .. k /\ i - 1 # k
      BY <2>1
    <3>2. h[i - 1] = g[i - 1]
      BY <2>6, <3>1
    <3>3. CASE i = k
      BY <2>6, <3>1, <3>2, <3>3
    <3>4. CASE i # k
      <4>1. i \in 1 .. k - 1
        BY <2>1, <3>4
      <4>2. g[i] = g[i - 1] \o s[i]
        BY <2>2, <4>1 DEF Joins
      <4> QED BY <2>6, <3>1, <3>2, <3>4, <4>2
    <3> QED BY <3>3, <3>4
  <2>9. Joins(s, k, S, h)
    <3> HIDE DEF h
    <3> QED BY <2>5, <2>7, <2>8 DEF Joins
  <2> QED BY <2>9
<1>2. 0 \notin T
  <2> DEFINE h == [i \in 0 .. 0 |-> <<>>]
  <2>1. <<>> \in Seq(S)
    BY EmptySeq
  <2>2. Joins(s, 0, S, h)
    BY <2>1 DEF Joins
  <2> QED BY <2>2
<1>3. ASSUME T # {} PROVE FALSE
  <2>1. T \in SUBSET Nat
    OBVIOUS
  <2>2. PICK m \in T : \A k \in T : m <= k
    <3> HIDE DEF T
    <3> QED BY <1>3, <2>1, LeastNumber
  <2>3. m \in 0 .. n
    OBVIOUS
  <2>4. m # 0 /\ m - 1 \notin T
    <3> HIDE DEF T
    <3> QED BY <1>2, <2>2, <2>3
  <2> HIDE DEF T
  <2> QED BY <1>1, <2>3, <2>4
<1>4. n \in 0 .. n
  OBVIOUS
<1> QED BY <1>3, <1>4

\* FlattenSeq is the last of them.
LEMMA FlattenIs ==
  ASSUME NEW S, NEW n \in Nat, NEW s \in [1 .. n -> Seq(S)]
  PROVE  \E g : Joins(s, n, S, g) /\ FlattenSeq(s) = g[n]
<1>1. PICK g : Joins(s, n, S, g)
  BY JoinsExist
<1>2. s \in Seq(Seq(S)) /\ Len(s) = n
  <2>1. s \in Seq(Seq(S))
    BY SeqDef
  <2>2. DOMAIN s = 1 .. n /\ Len(s) \in Nat /\ DOMAIN s = 1 .. Len(s)
    BY <2>1, LenProperties
  <2> QED BY <2>1, <2>2
<1>3. CASE n = 0
  <2>1. s = <<>>
    BY <1>2, <1>3, SeqAt
  <2>2. FlattenSeq(s) = s
    BY <1>2, <1>3 DEF FlattenSeq
  <2> QED BY <1>1, <1>3, <2>1, <2>2 DEF Joins
<1>4. CASE n # 0
  <2> DEFINE step(f) == [i \in 1 .. Len(s) |-> IF i = 1 THEN s[i] ELSE f[i - 1] \o s[i]]
             f == CHOOSE f : f = step(f)
             h == [i \in 1 .. n |-> g[i]]
  <2>1. n \in Nat \ {0} /\ \A i \in 1 .. n : s[i] \in Seq(S) /\ i - 1 \in 0 .. n
    BY <1>4
  <2>2. \A i \in 1 .. n : g[i] = IF i = 1 THEN s[i] ELSE g[i - 1] \o s[i]
    <3> TAKE i \in 1 .. n
    <3>1. g[i] = g[i - 1] \o s[i] /\ g[0] = <<>>
      BY <1>1 DEF Joins
    <3>2. CASE i = 1
      BY <2>1, <3>1, <3>2, SeqAt
    <3> QED BY <3>1, <3>2
  <2>3. h = step(h)
    <3>1. \A i \in 1 .. n : h[i] = g[i]
      OBVIOUS
    <3>2. \A i \in 1 .. n : i # 1 => h[i - 1] = g[i - 1]
      BY <2>1
    <3>3. \A i \in 1 .. n : g[i] = IF i = 1 THEN s[i] ELSE h[i - 1] \o s[i]
      <4> HIDE DEF h
      <4> QED BY <2>2, <3>2
    <3> QED BY <1>2, <3>3
  <2>4. f = step(f)
    <3> HIDE DEF step
    <3>1. \E p : p = step(p)
      BY <2>3
    <3> QED BY <3>1, Zenon
  <2>5. FlattenSeq(s) = f[Len(s)]
    BY <1>2, <1>4 DEF FlattenSeq
  <2>6. \A i \in 1 .. n : f[i] = IF i = 1 THEN s[i] ELSE f[i - 1] \o s[i]
    <3> HIDE DEF f
    <3> QED BY <1>2, <2>4
  <2> HIDE DEF f
  <2> DEFINE T == {k \in 1 .. n : f[k] # g[k]}
  <2>7. ASSUME T # {} PROVE FALSE
    <3>1. T \in SUBSET Nat
      OBVIOUS
    <3>2. PICK m \in T : \A k \in T : m <= k
      <4> HIDE DEF T
      <4> QED BY <2>7, <3>1, LeastNumber
    <3>3. m \in 1 .. n /\ f[m] # g[m]
      OBVIOUS
    <3>4. m # 1
      BY <2>1, <2>2, <2>6, <3>3
    <3>5. m - 1 \in 1 .. n /\ m - 1 \notin T
      <4> HIDE DEF T
      <4> QED BY <3>2, <3>3, <3>4
    <3>6. f[m - 1] = g[m - 1]
      BY <3>5
    <3> HIDE DEF T
    <3> QED BY <2>2, <2>6, <3>3, <3>4, <3>6
  <2>8. n \in 1 .. n
    BY <2>1
  <2>9. f[n] = g[n]
    BY <2>7, <2>8
  <2> QED BY <1>1, <1>2, <2>5, <2>9
<1> QED BY <1>3, <1>4

\* What holds of 0 and of the number after one it holds of, holds up to n.
LEMMA UpTo ==
  ASSUME NEW n \in Nat, NEW G, 0 \in G, \A k \in 0 .. n - 1 : k \in G => k + 1 \in G
  PROVE  \A k \in 0 .. n : k \in G
<1> DEFINE T == (0 .. n) \ G
<1>1. ASSUME T # {} PROVE FALSE
  <2>1. T \in SUBSET Nat
    OBVIOUS
  <2>2. PICK m \in T : \A k \in T : m <= k
    <3> HIDE DEF T
    <3> QED BY <1>1, <2>1, LeastNumber
  <2>3. m \in 0 .. n /\ m # 0 /\ m \notin G
    OBVIOUS
  <2>4. m - 1 \in 0 .. n - 1 /\ (m - 1) + 1 = m
    BY <2>3
  <2>5. m - 1 \notin T
    <3> HIDE DEF T
    <3> QED BY <2>2, <2>3
  <2>6. m - 1 \in G
    BY <2>4, <2>5
  <2> QED BY <2>3, <2>4, <2>6
<1> QED BY <1>1

\* A join begins with the joins before it.
BeginsWith(t, s, S) == \E u \in Seq(S) : t = s \o u

\* Backwards from the last join to the i-th.
LEMMA JoinBegins ==
  ASSUME NEW S, NEW n \in Nat, NEW s \in [1 .. n -> Seq(S)], NEW g, Joins(s, n, S, g),
         NEW i \in 0 .. n
  PROVE  BeginsWith(g[n], g[i], S)
<1> DEFINE G == {k \in 0 .. n - i : \E u \in Seq(S) : g[i + k] = g[i] \o u}
<1>1. \A k \in 0 .. n : g[k] \in Seq(S)
  BY DEF Joins
<1>2. 0 \in G
  <2>1. g[i] = g[i] \o <<>> /\ i + 0 = i
    BY <1>1, SeqAt
  <2>2. <<>> \in Seq(S) /\ 0 \in 0 .. n - i
    BY EmptySeq
  <2> QED BY <2>1, <2>2
<1>3. ASSUME NEW k \in 0 .. (n - i) - 1, k \in G PROVE k + 1 \in G
  <2>1. PICK u \in Seq(S) : g[i + k] = g[i] \o u
    BY <1>3
  <2>2. i + (k + 1) \in 1 .. n /\ (i + (k + 1)) - 1 = i + k /\ k + 1 \in 0 .. n - i
    OBVIOUS
  <2>3. PICK v \in Seq(S) : g[i + (k + 1)] = g[i + k] \o v
    BY <2>2 DEF Joins
  <2>4. PICK t \in Seq(S) : t = g[i]
    BY <1>1
  <2>5. g[i + (k + 1)] = t \o (u \o v)
    <3>1. g[i + (k + 1)] = (t \o u) \o v
      BY <2>1, <2>3, <2>4
    <3>2. (t \o u) \o v = t \o (u \o v)
      BY ConcatAssociative
    <3> QED BY <3>1, <3>2
  <2>6. u \o v \in Seq(S)
    BY ConcatProperties
  <2> QED BY <2>2, <2>4, <2>5, <2>6
<1>4. n - i \in Nat /\ n - i \in 0 .. n - i /\ i + (n - i) = n
  OBVIOUS
<1>5. n - i \in G
  <2> HIDE DEF G
  <2> QED BY <1>2, <1>3, <1>4, UpTo
<1>6. \E u \in Seq(S) : g[n] = g[i] \o u
  BY <1>4, <1>5
<1> QED BY <1>6 DEF BeginsWith

\* The same of every i.
LEMMA JoinsBegin ==
  ASSUME NEW S, NEW n \in Nat, NEW s \in [1 .. n -> Seq(S)], NEW g, Joins(s, n, S, g)
  PROVE  \A i \in 0 .. n : BeginsWith(g[n], g[i], S)
BY JoinBegins

\* Sequences of one element each.
LEMMA JoinsOfOnes ==
  ASSUME NEW S, NEW n \in Nat, NEW s \in [1 .. n -> Seq(S)], NEW g, Joins(s, n, S, g),
         NEW r \in Seq(S), Len(r) = n, \A i \in 1 .. n : s[i] = <<r[i]>>
  PROVE  g[n] = r
<1> DEFINE G == {k \in 0 .. n : Len(g[k]) = k /\ \A i \in 1 .. k : g[k][i] = r[i]}
<1>1. \A k \in 0 .. n : g[k] \in Seq(S)
  BY DEF Joins
<1>2. 0 \in G
  BY EmptySeq DEF Joins
<1>3. ASSUME NEW k \in 0 .. n - 1, k \in G PROVE k + 1 \in G
  <2>1. Len(g[k]) = k /\ \A i \in 1 .. k : g[k][i] = r[i]
    BY <1>3
  <2>2. k + 1 \in 1 .. n /\ (k + 1) - 1 = k
    OBVIOUS
  <2>3. PICK a \in S : a = r[k + 1] /\ s[k + 1] = <<a>>
    BY <2>2, SeqAt
  <2>4. g[k + 1] = g[k] \o <<a>>
    BY <2>2, <2>3 DEF Joins
  <2>5. PICK t \in Seq(S) : t = g[k]
    BY <1>1
  <2>6. <<a>> \in Seq(S) /\ Len(<<a>>) = 1 /\ <<a>>[1] = a
    OBVIOUS
  <2>7. /\ Len(t \o <<a>>) = k + 1
        /\ \A i \in 1 .. k + 1 : (t \o <<a>>)[i] = IF i <= k THEN t[i] ELSE <<a>>[i - k]
    <3>1. PICK w \in Seq(S) : w = <<a>> /\ Len(w) = 1
      BY <2>6
    <3>2. Len(t \o w) = k + 1 /\ \A i \in 1 .. k + 1 : (t \o w)[i] = IF i <= k THEN t[i] ELSE w[i - k]
      BY <2>1, <2>5, <3>1, ConcatProperties
    <3> QED BY <3>1, <3>2
  <2>8. ASSUME NEW i \in 1 .. k + 1 PROVE (t \o <<a>>)[i] = r[i]
    <3>1. CASE i <= k
      BY <2>1, <2>5, <2>7, <3>1
    <3>2. CASE ~(i <= k)
      <4>1. i = k + 1 /\ i - k = 1
        BY <3>2
      <4>2. (t \o <<a>>)[i] = <<a>>[i - k]
        BY <2>7, <3>2
      <4> QED BY <2>3, <2>6, <4>1, <4>2
    <3> QED BY <3>1, <3>2
  <2>9. PICK u : u = g[k + 1]
    OBVIOUS
  <2>10. Len(u) = k + 1 /\ \A i \in 1 .. k + 1 : u[i] = r[i]
    BY <2>4, <2>5, <2>7, <2>8, <2>9
  <2>11. k + 1 \in 0 .. n
    BY <2>2
  <2> QED BY <2>9, <2>10, <2>11
<1>4. n \in G
  <2>1. n \in 0 .. n
    OBVIOUS
  <2> HIDE DEF G
  <2> QED BY <1>2, <1>3, <2>1, UpTo
<1>5. g[n] \in Seq(S) /\ Len(g[n]) = n /\ \A i \in 1 .. n : g[n][i] = r[i]
  BY <1>1, <1>4
<1> QED BY <1>5, SeqEqual

-----------------------------------------------------------------------------
(* Counting tokens                                                          *)

\* How often x is among the first i tokens.
UntilNow(t, x, i) == {k \in Where(t, x) : 1 <= k /\ k <= i}
Seen(t, x, i) == Cardinality(UntilNow(t, x, i))

\* Depth from the start counts what is opened less what is closed.
LEMMA DepthIsSeen ==
  \A t, i, open, close : Depth(t, 1, i, open, close) = Seen(t, open, i) - Seen(t, close, i)
BY DEF Depth, Seen, UntilNow

\* The count goes up by one where the token is.
LEMMA SeenIs ==
  ASSUME NEW t \in Seq(Tokens), NEW x \in Tokens
  PROVE  /\ \A i \in Nat : Seen(t, x, i) \in Nat /\ IsFiniteSet(UntilNow(t, x, i))
         /\ Seen(t, x, 0) = 0
         /\ \A i \in 0 .. Len(t) - 1 :
              Seen(t, x, i + 1) = Seen(t, x, i) + IF t[i + 1] = x THEN 1 ELSE 0
<1>1. Len(t) \in Nat /\ DOMAIN t = 1 .. Len(t)
  BY SeqAt
<1>2. ASSUME NEW i \in Nat PROVE IsFiniteSet(UntilNow(t, x, i)) /\ Seen(t, x, i) \in Nat
  <2>1. UntilNow(t, x, i) \subseteq 1 .. i /\ IsFiniteSet(1 .. i)
    BY <1>1, FS_Interval DEF UntilNow, Where
  <2>2. IsFiniteSet(UntilNow(t, x, i))
    BY <2>1, FS_Subset
  <2> QED BY <2>2, FS_CardinalityType DEF Seen
<1>3. Seen(t, x, 0) = 0
  <2>1. UntilNow(t, x, 0) = {}
    BY <1>1 DEF UntilNow, Where
  <2> QED BY <2>1, FS_EmptySet DEF Seen
<1>4. ASSUME NEW i \in 0 .. Len(t) - 1
      PROVE  Seen(t, x, i + 1) = Seen(t, x, i) + IF t[i + 1] = x THEN 1 ELSE 0
  <2>1. i \in Nat /\ i + 1 \in DOMAIN t
    BY <1>1
  <2>2. UntilNow(t, x, i + 1) =
          IF t[i + 1] = x THEN UntilNow(t, x, i) \cup {i + 1} ELSE UntilNow(t, x, i)
    BY <1>1, <2>1 DEF UntilNow, Where
  <2>3. i + 1 \notin UntilNow(t, x, i)
    BY <2>1 DEF UntilNow
  <2>4. PICK A : A = UntilNow(t, x, i)
    OBVIOUS
  <2>5. IsFiniteSet(A) /\ Cardinality(A) \in Nat
    BY <1>2, <2>1, <2>4 DEF Seen
  <2>6. Cardinality(A \cup {i + 1}) = Cardinality(A) + 1
    BY <2>3, <2>4, <2>5, FS_AddElement
  <2> QED BY <2>2, <2>4, <2>5, <2>6 DEF Seen
<1> QED BY <1>2, <1>3, <1>4

\* The count looks at the tokens so far only.
LEMMA SeenAgrees ==
  ASSUME NEW t \in Seq(Tokens), NEW u \in Seq(Tokens), NEW i \in 0 .. Len(t), i <= Len(u),
         \A k \in 1 .. i : t[k] = u[k], NEW x \in Tokens
  PROVE  Seen(t, x, i) = Seen(u, x, i)
<1>1. DOMAIN t = 1 .. Len(t) /\ DOMAIN u = 1 .. Len(u) /\ Len(t) \in Nat /\ Len(u) \in Nat
  BY SeqAt
<1>2. UntilNow(t, x, i) = UntilNow(u, x, i)
  BY <1>1 DEF UntilNow, Where
<1> QED BY <1>2 DEF Seen

\* The count along two texts, one after the other.
LEMMA SeenJoined ==
  ASSUME NEW t \in Seq(Tokens), NEW u \in Seq(Tokens), NEW x \in Tokens
  PROVE  /\ \A i \in 0 .. Len(t) : Seen(t \o u, x, i) = Seen(t, x, i)
         /\ \A i \in 0 .. Len(u) :
              Seen(t \o u, x, Len(t) + i) = Seen(t, x, Len(t)) + Seen(u, x, i)
<1>1. PICK m \in Nat, n \in Nat, v \in Seq(Tokens) :
        /\ m = Len(t) /\ n = Len(u) /\ v = t \o u /\ Len(v) = m + n
        /\ \A i \in 1 .. m + n : v[i] = IF i <= m THEN t[i] ELSE u[i - m]
  <2>1. PICK m \in Nat, n \in Nat : m = Len(t) /\ n = Len(u)
    BY SeqAt
  <2>2. /\ t \o u \in Seq(Tokens) /\ Len(t \o u) = m + n
        /\ \A i \in 1 .. m + n : (t \o u)[i] = IF i <= m THEN t[i] ELSE u[i - m]
    BY <2>1, ConcatProperties
  <2> QED BY <2>1, <2>2
<1>2. ASSUME NEW i \in 0 .. m PROVE Seen(v, x, i) = Seen(t, x, i)
  <2>1. /\ i \in 0 .. Len(t) /\ i <= Len(v)
        /\ \A k \in 1 .. i : t[k] = v[k]
    BY <1>1
  <2> QED BY <2>1, SeenAgrees
<1>6. /\ \A i \in Nat : Seen(t, x, i) \in Nat /\ Seen(u, x, i) \in Nat
      /\ \A i \in 0 .. Len(v) - 1 :
           Seen(v, x, i + 1) = Seen(v, x, i) + IF v[i + 1] = x THEN 1 ELSE 0
      /\ \A i \in 0 .. n - 1 :
           Seen(u, x, i + 1) = Seen(u, x, i) + IF u[i + 1] = x THEN 1 ELSE 0
  <2>1. /\ \A i \in 0 .. Len(v) - 1 :
             Seen(v, x, i + 1) = Seen(v, x, i) + IF v[i + 1] = x THEN 1 ELSE 0
        /\ \A i \in 0 .. Len(u) - 1 :
             Seen(u, x, i + 1) = Seen(u, x, i) + IF u[i + 1] = x THEN 1 ELSE 0
        /\ \A i \in Nat : Seen(t, x, i) \in Nat /\ Seen(u, x, i) \in Nat
    BY SeenIs
  <2> QED BY <1>1, <2>1
<1> DEFINE G == {i \in 0 .. n : Seen(v, x, m + i) = Seen(t, x, m) + Seen(u, x, i)}
<1>3. 0 \in G
  BY <1>1, <1>2, SeenIs
<1>4. ASSUME NEW i \in 0 .. n - 1, i \in G PROVE i + 1 \in G
  <2>1. /\ m + i \in 0 .. Len(v) - 1 /\ m + (i + 1) = (m + i) + 1 /\ i + 1 \in 0 .. n
        /\ v[(m + i) + 1] = u[i + 1]
    BY <1>1
  <2>2. Seen(v, x, m + i) = Seen(t, x, m) + Seen(u, x, i)
    BY <1>4
  <2>3. Seen(v, x, (m + i) + 1) = Seen(v, x, m + i) + IF v[(m + i) + 1] = x THEN 1 ELSE 0
    BY <1>6, <2>1
  <2>4. Seen(u, x, i + 1) = Seen(u, x, i) + IF u[i + 1] = x THEN 1 ELSE 0
    BY <1>6
  <2>5. Seen(t, x, m) \in Nat /\ Seen(u, x, i) \in Nat
    <3>1. i \in Nat
      BY <1>1
    <3> QED BY <1>6, <3>1
  <2>6. Seen(v, x, m + (i + 1)) = Seen(t, x, m) + Seen(u, x, i + 1)
    BY <2>1, <2>2, <2>3, <2>4, <2>5
  <2> QED BY <2>1, <2>6
<1>5. \A i \in 0 .. n : i \in G
  <2> HIDE DEF G
  <2> QED BY <1>3, <1>4, UpTo
<1> QED BY <1>1, <1>2, <1>5

-----------------------------------------------------------------------------
(* What a stream's text is                                                  *)

\* What one character is written as.
LEMMA EscapeCharIs ==
  ASSUME NEW U, Backslash \in U, NEW c \in U
  PROVE  /\ EscapeChar(c) \in Seq(U) /\ Len(EscapeChar(c)) >= 1 /\ EscapeChar(c)[1] # Quote
         /\ c \notin {Quote, Backslash} => EscapeChar(c) = <<c>>
<1>1. CASE c \in {Quote, Backslash}
  <2>1. EscapeChar(c) = <<Backslash, c>>
    BY <1>1 DEF EscapeChar
  <2>2. <<Backslash, c>> \in Seq(U) /\ Len(<<Backslash, c>>) = 2 /\ <<Backslash, c>>[1] = Backslash
    OBVIOUS
  <2> QED BY <1>1, <2>1, <2>2, TokensAre
<1>2. CASE c \notin {Quote, Backslash}
  <2>1. EscapeChar(c) = <<c>>
    BY <1>2 DEF EscapeChar
  <2>2. <<c>> \in Seq(U) /\ Len(<<c>>) = 1 /\ <<c>>[1] = c
    OBVIOUS
  <2> QED BY <1>2, <2>1, <2>2
<1> QED BY <1>1, <1>2

\* What escaping makes of a name.
LEMMA EscapeIs ==
  ASSUME NEW s \in Seq(Chars)
  PROVE  \E e \in Seq(Chars) :
           /\ e = EscapeJSON(s)
           /\ \A k \in 1 .. Len(e) : e[k] = Backslash \/ \E i \in 1 .. Len(s) : e[k] = s[i]
           /\ s # <<>> => Len(e) >= 1 /\ e[1] # Quote
           /\ (\A i \in 1 .. Len(s) : s[i] \notin {Quote, Backslash}) => e = s
<1>1. PICK n \in Nat : n = Len(s) /\ DOMAIN s = 1 .. n /\ \A i \in 1 .. n : s[i] \in Chars
  BY SeqAt
<1>2. PICK U : U = {Backslash} \cup {s[i] : i \in 1 .. n}
  OBVIOUS
<1>3. PICK d : d = [i \in 1 .. n |-> EscapeChar(s[i])]
  OBVIOUS
<1>4. \A i \in 1 .. n : s[i] \in U /\ d[i] = EscapeChar(s[i])
  BY <1>2, <1>3
<1>5. \A i \in 1 .. n :
        /\ d[i] \in Seq(U) /\ Len(d[i]) >= 1 /\ d[i][1] # Quote
        /\ s[i] \notin {Quote, Backslash} => d[i] = <<s[i]>>
  BY <1>2, <1>4, EscapeCharIs
<1>6. d \in [1 .. n -> Seq(U)]
  BY <1>3, <1>5
<1>7. PICK g : Joins(d, n, U, g) /\ FlattenSeq(d) = g[n]
  BY <1>6, FlattenIs
<1>8. EscapeJSON(s) = g[n]
  BY <1>1, <1>3, <1>7 DEF EscapeJSON
<1>9. PICK e \in Seq(U) : e = g[n] /\ \A k \in 1 .. Len(e) : e[k] \in U
  <2>1. g[n] \in Seq(U)
    BY <1>7 DEF Joins
  <2> QED BY <2>1, SeqAt
<1>10. U \subseteq Chars
  BY <1>1, <1>2, TokensAre
<1>11. e \in Seq(Chars)
  BY <1>10, SeqMonotonic
<1>12. \A k \in 1 .. Len(e) : e[k] = Backslash \/ \E i \in 1 .. Len(s) : e[k] = s[i]
  BY <1>1, <1>2, <1>9
<1>13. ASSUME s # <<>> PROVE Len(e) >= 1 /\ e[1] # Quote
  <2>1. n # 0
    BY <1>1, <1>13, SeqAt
  <2>2. 1 \in 0 .. n /\ 1 \in 1 .. n
    BY <2>1
  <2>3. PICK u \in Seq(U) : e = g[1] \o u
    <3>1. PICK i \in 0 .. n : i = 1
      BY <2>2
    <3>2. n \in Nat /\ d \in [1 .. n -> Seq(U)] /\ Joins(d, n, U, g)
      BY <1>1, <1>6, <1>7
    <3>3. BeginsWith(g[n], g[i], U)
      BY <3>2, JoinsBegin
    <3> QED BY <1>9, <3>1, <3>3 DEF BeginsWith
  <2>4. PICK t \in Seq(U) : t = d[1] /\ Len(t) >= 1 /\ t[1] # Quote
    BY <1>5, <2>2
  <2>5. g[1] = g[0] \o d[1] /\ g[0] = <<>>
    <3>1. g[1] = g[1 - 1] \o d[1] /\ g[0] = <<>>
      BY <1>7, <2>2 DEF Joins
    <3>2. 1 - 1 = 0
      OBVIOUS
    <3> QED BY <3>1, <3>2
  <2>6. g[1] = t
    BY <2>4, <2>5, SeqAt
  <2>7. Len(t) \in Nat /\ Len(u) \in Nat /\ e = t \o u
    BY <2>3, <2>6, SeqAt
  <2>8. /\ Len(t \o u) = Len(t) + Len(u)
        /\ \A k \in 1 .. Len(t) + Len(u) : (t \o u)[k] = IF k <= Len(t) THEN t[k] ELSE u[k - Len(t)]
    BY ConcatProperties
  <2>9. 1 \in 1 .. Len(t) + Len(u)
    BY <2>4, <2>7
  <2> QED BY <2>4, <2>7, <2>8, <2>9
<1>14. ASSUME \A i \in 1 .. Len(s) : s[i] \notin {Quote, Backslash} PROVE e = s
  <2>1. \A i \in 1 .. n : d[i] = <<s[i]>>
    BY <1>1, <1>5, <1>14
  <2>2. s \in Seq(U)
    <3>1. s = [i \in 1 .. n |-> s[i]]
      BY <1>1, LenProperties
    <3>2. s \in [1 .. n -> U]
      BY <1>4, <3>1
    <3> QED BY <3>2, SeqDef
  <2>3. g[n] = s
    BY <1>1, <1>6, <1>7, <2>1, <2>2, JoinsOfOnes
  <2> QED BY <1>9, <2>3
<1> QED BY <1>8, <1>9, <1>11, <1>12, <1>13, <1>14

\* A name between quotes: it does not begin with another quote, and what is
\* special comes from the name only.
QuoteOf(w, s) ==
  /\ w \in Seq(Chars) /\ Len(w) >= 2 /\ w[1] = Quote /\ w[Len(w)] = Quote
  /\ s # <<>> => Len(w) >= 3 /\ w[2] # Quote
  /\ (\A i \in 1 .. Len(s) : s[i] \notin Brackets) =>
       \A k \in 1 .. Len(w) : w[k] \notin Brackets
  /\ (\A i \in 1 .. Len(s) : s[i] \notin {Quote, Backslash}) =>
       Len(w) = Len(s) + 2 /\ \A k \in 1 .. Len(s) : w[k + 1] = s[k]

\* A name between quotes.
LEMMA QuotedIs ==
  ASSUME NEW s \in Seq(Chars)
  PROVE  QuoteOf(Quoted(s), s)
<1>1. PICK e \in Seq(Chars) :
        /\ e = EscapeJSON(s)
        /\ \A k \in 1 .. Len(e) : e[k] = Backslash \/ \E i \in 1 .. Len(s) : e[k] = s[i]
        /\ s # <<>> => Len(e) >= 1 /\ e[1] # Quote
        /\ (\A i \in 1 .. Len(s) : s[i] \notin {Quote, Backslash}) => e = s
  BY EscapeIs
<1>2. PICK n \in Nat : n = Len(e) /\ \A k \in 1 .. n : e[k] \in Chars
  BY SeqAt
<1>3. PICK b \in Seq(Chars) : b = <<Quote>> /\ Len(b) = 1 /\ b[1] = Quote
  <2>1. Quote \in Chars
    BY TokensAre
  <2>2. <<Quote>> \in Seq(Chars) /\ Len(<<Quote>>) = 1 /\ <<Quote>>[1] = Quote
    BY <2>1
  <2> QED BY <2>2
<1>4. PICK t : t = b \o e
  OBVIOUS
<1>4a. /\ t \in Seq(Chars) /\ Len(t) = 1 + n /\ 1 + n \in Nat
       /\ t[1] = b[1] /\ \A k \in 1 .. n : t[1 + k] = e[k]
  <2>1. /\ t \in Seq(Chars) /\ Len(t) = 1 + n
        /\ \A k \in 1 .. 1 : t[k] = b[k]
        /\ \A k \in 1 .. n : t[1 + k] = e[k]
    BY <1>2, <1>3, <1>4, JoinAt
  <2> QED BY <2>1
<1>5. PICK w : w = t \o b
  OBVIOUS
<1>5a. /\ w \in Seq(Chars) /\ Len(w) = (1 + n) + 1
       /\ \A k \in 1 .. 1 + n : w[k] = t[k]
       /\ \A k \in 1 .. 1 : w[(1 + n) + k] = b[k]
  <2>1. PICK m \in Nat : m = 1 + n
    BY <1>4a
  <2>2. 1 \in Nat /\ m = Len(t) /\ 1 = Len(b)
    BY <1>3, <1>4a, <2>1
  <2>3. /\ w \in Seq(Chars) /\ Len(w) = m + 1
        /\ \A k \in 1 .. m : w[k] = t[k]
        /\ \A k \in 1 .. 1 : w[m + k] = b[k]
    BY <1>3, <1>4a, <1>5, <2>2, JoinAt
  <2> QED BY <2>1, <2>3
<1>6. Quoted(s) = w
  BY <1>1, <1>3, <1>4, <1>5 DEF Quoted
<1>7. Len(w) = n + 2 /\ w[1] = Quote /\ w[n + 2] = Quote
  <2>1. 1 \in 1 .. 1 + n /\ (1 + n) + 1 = n + 2 /\ 1 \in 1 .. 1
    OBVIOUS
  <2>2. w[1] = t[1] /\ w[(1 + n) + 1] = b[1]
    BY <1>5a, <2>1
  <2> QED BY <1>3, <1>4a, <1>5a, <2>1, <2>2
<1>8. \A k \in 1 .. n : w[k + 1] = e[k]
  <2> TAKE k \in 1 .. n
  <2>1. k + 1 \in 1 .. 1 + n /\ k + 1 = 1 + k
    OBVIOUS
  <2>2. w[k + 1] = t[k + 1] /\ t[1 + k] = e[k]
    BY <1>4a, <1>5a, <2>1
  <2> QED BY <2>1, <2>2
<1>9. ASSUME s # <<>> PROVE Len(w) >= 3 /\ w[2] # Quote
  <2>1. 1 \in 1 .. n /\ e[1] # Quote
    BY <1>1, <1>2, <1>9
  <2>2. w[1 + 1] = e[1]
    BY <1>8, <2>1
  <2> QED BY <1>7, <2>1, <2>2
<1>10. ASSUME \A i \in 1 .. Len(s) : s[i] \notin Brackets, NEW k \in 1 .. Len(w)
       PROVE  w[k] \notin Brackets
  <2>1. CASE k = 1 \/ k = n + 2
    BY <1>7, <2>1, TokensAre
  <2>2. CASE k \in 2 .. n + 1
    <3>1. k - 1 \in 1 .. n /\ (k - 1) + 1 = k
      BY <2>2
    <3>2. w[k] = e[k - 1]
      BY <1>8, <3>1
    <3> QED BY <1>1, <1>2, <1>10, <3>1, <3>2, TokensAre
  <2> QED BY <1>7, <2>1, <2>2
<1>11. ASSUME \A i \in 1 .. Len(s) : s[i] \notin {Quote, Backslash}
       PROVE  Len(w) = Len(s) + 2 /\ \A k \in 1 .. Len(s) : w[k + 1] = s[k]
  BY <1>1, <1>2, <1>7, <1>8, <1>11
<1>12. Len(w) >= 2 /\ w[Len(w)] = Quote
  BY <1>7
<1> QED BY <1>5a, <1>6, <1>7, <1>9, <1>10, <1>11, <1>12 DEF QuoteOf

\* The streams a file is written from.
Configs == [name : Seq(Chars) \ {<<>>}, enabled : BOOLEAN, depth : {0, 64},
            interface : Interfaces \cup {AnyInterface}]

\* A stream's text, position by position; w is its name between quotes.
Object(o, w, c) ==
  /\ Len(o) = 2 * Len(w) + 21
  /\ o[1] = "{" /\ o[2] = "enabled" /\ o[3] = IF c.enabled THEN "true" ELSE "false"
  /\ o[4] = "jitterBufferDepth" /\ o[5] = IF c.depth = 0 THEN "0" ELSE "64"
  /\ o[6] = "networkInterface" /\ o[7] = c.interface
  /\ o[8] = "sdp" /\ o[9] = "{" /\ o[10] = "sessionName"
  /\ \A k \in 1 .. Len(w) : o[10 + k] = w[k]
  /\ o[11 + Len(w)] = "connectionAddress" /\ o[12 + Len(w)] = "}"
  /\ o[13 + Len(w)] = "mapping" /\ o[14 + Len(w)] = "{" /\ o[15 + Len(w)] = "streamName"
  /\ \A k \in 1 .. Len(w) : o[15 + Len(w) + k] = w[k]
  /\ o[16 + 2 * Len(w)] = "channelCount" /\ o[17 + 2 * Len(w)] = "channelMap"
  /\ o[18 + 2 * Len(w)] = "[" /\ o[19 + 2 * Len(w)] = "]"
  /\ o[20 + 2 * Len(w)] = "}" /\ o[21 + 2 * Len(w)] = "}"

\* Five tokens.
LEMMA FewTokens ==
  ASSUME NEW a \in Tokens, NEW b \in Tokens, NEW c \in Tokens, NEW d \in Tokens, NEW e \in Tokens
  PROVE  LET s == <<a, b, c, d, e>>
         IN /\ s \in Seq(Tokens) /\ Len(s) = 5
            /\ s[1] = a /\ s[2] = b /\ s[3] = c /\ s[4] = d /\ s[5] = e
OBVIOUS

\* Six tokens.
LEMMA ManyTokens ==
  ASSUME NEW a \in Tokens, NEW b \in Tokens, NEW c \in Tokens, NEW d \in Tokens, NEW e \in Tokens,
         NEW f \in Tokens
  PROVE  LET s == <<a, b, c, d, e, f>>
         IN /\ s \in Seq(Tokens) /\ Len(s) = 6
            /\ s[1] = a /\ s[2] = b /\ s[3] = c /\ s[4] = d /\ s[5] = e /\ s[6] = f
OBVIOUS

\* Ten tokens.
LEMMA MostTokens ==
  ASSUME NEW a \in Tokens, NEW b \in Tokens, NEW c \in Tokens, NEW d \in Tokens, NEW e \in Tokens,
         NEW f \in Tokens, NEW g \in Tokens, NEW h \in Tokens, NEW i \in Tokens, NEW j \in Tokens
  PROVE  LET s == <<a, b, c, d, e, f, g, h, i, j>>
         IN /\ s \in Seq(Tokens) /\ Len(s) = 10
            /\ s[1] = a /\ s[2] = b /\ s[3] = c /\ s[4] = d /\ s[5] = e
            /\ s[6] = f /\ s[7] = g /\ s[8] = h /\ s[9] = i /\ s[10] = j
OBVIOUS

\* configToJSON writes such a text.
LEMMA ObjectIs ==
  ASSUME NEW c \in Configs
  PROVE  \E o \in Seq(Tokens), w \in Seq(Tokens) :
           o = ConfigToJSON(c) /\ QuoteOf(w, c.name) /\ Object(o, w, c)
<1>1. PICK w \in Seq(Tokens) : w = Quoted(c.name) /\ QuoteOf(w, c.name)
  <2>1. c.name \in Seq(Chars) /\ Chars \subseteq Tokens
    BY TokensAre DEF Configs
  <2>2. QuoteOf(Quoted(c.name), c.name)
    BY <2>1, QuotedIs
  <2>3. Quoted(c.name) \in Seq(Chars)
    BY <2>2 DEF QuoteOf
  <2> QED BY <2>1, <2>2, <2>3, SeqMonotonic
<1>2. PICK q \in Nat : q = Len(w)
  BY SeqAt
<1>3. PICK on \in Tokens, dp \in Tokens, ifc \in Tokens :
        /\ on = IF c.enabled THEN "true" ELSE "false"
        /\ dp = IF c.depth = 0 THEN "0" ELSE "64"
        /\ ifc = c.interface
  <2>1. c.interface \in Tokens
    BY TokensAre DEF Configs
  <2>2. (IF c.enabled THEN "true" ELSE "false") \in Tokens
    BY WordsAre
  <2>3. (IF c.depth = 0 THEN "0" ELSE "64") \in Tokens
    BY WordsAre
  <2> QED BY <2>1, <2>2, <2>3
<1>4. PICK a : a = <<"{", "enabled", on, "jitterBufferDepth", dp, "networkInterface", ifc,
                    "sdp", "{", "sessionName">>
  OBVIOUS
<1>4a. /\ a \in Seq(Tokens)
       /\ Len(a) = 10 /\ a[1] = "{" /\ a[2] = "enabled" /\ a[3] = on
       /\ a[4] = "jitterBufferDepth" /\ a[5] = dp /\ a[6] = "networkInterface"
       /\ a[7] = ifc /\ a[8] = "sdp" /\ a[9] = "{" /\ a[10] = "sessionName"
  <2>1. PICK x1 \in Tokens, x2 \in Tokens, x4 \in Tokens, x6 \in Tokens, x8 \in Tokens, x10 \in Tokens :
          /\ x1 = "{" /\ x2 = "enabled" /\ x4 = "jitterBufferDepth"
          /\ x6 = "networkInterface" /\ x8 = "sdp" /\ x10 = "sessionName"
    BY WordsAre
  <2>2. a = <<x1, x2, on, x4, dp, x6, ifc, x8, x1, x10>>
    BY <1>4, <2>1
  <2>3. /\ a \in Seq(Tokens)
        /\ Len(a) = 10 /\ a[1] = x1 /\ a[2] = x2 /\ a[3] = on /\ a[4] = x4 /\ a[5] = dp
        /\ a[6] = x6 /\ a[7] = ifc /\ a[8] = x8 /\ a[9] = x1 /\ a[10] = x10
    BY <2>2, MostTokens
  <2> QED BY <2>1, <2>3
<1>5. PICK b : b = <<"connectionAddress", "}", "mapping", "{", "streamName">>
  OBVIOUS
<1>5a. /\ b \in Seq(Tokens)
       /\ Len(b) = 5 /\ b[1] = "connectionAddress" /\ b[2] = "}"
       /\ b[3] = "mapping" /\ b[4] = "{" /\ b[5] = "streamName"
  <2>1. PICK x1 \in Tokens, x2 \in Tokens, x3 \in Tokens, x4 \in Tokens, x5 \in Tokens :
          /\ x1 = "connectionAddress" /\ x2 = "}" /\ x3 = "mapping" /\ x4 = "{" /\ x5 = "streamName"
    BY WordsAre
  <2>2. b = <<x1, x2, x3, x4, x5>>
    BY <1>5, <2>1
  <2>3. /\ b \in Seq(Tokens)
        /\ Len(b) = 5 /\ b[1] = x1 /\ b[2] = x2 /\ b[3] = x3 /\ b[4] = x4 /\ b[5] = x5
    BY <2>2, FewTokens
  <2> QED BY <2>1, <2>3
<1>6. PICK e : e = <<"channelCount", "channelMap", "[", "]", "}", "}">>
  OBVIOUS
<1>6a. /\ e \in Seq(Tokens)
       /\ Len(e) = 6 /\ e[1] = "channelCount" /\ e[2] = "channelMap"
       /\ e[3] = "[" /\ e[4] = "]" /\ e[5] = "}" /\ e[6] = "}"
  <2>1. PICK x1 \in Tokens, x2 \in Tokens, x3 \in Tokens, x4 \in Tokens, x5 \in Tokens :
          /\ x1 = "channelCount" /\ x2 = "channelMap" /\ x3 = "[" /\ x4 = "]" /\ x5 = "}"
    BY WordsAre
  <2>2. e = <<x1, x2, x3, x4, x5, x5>>
    BY <1>6, <2>1
  <2>3. /\ e \in Seq(Tokens)
        /\ Len(e) = 6 /\ e[1] = x1 /\ e[2] = x2 /\ e[3] = x3 /\ e[4] = x4 /\ e[5] = x5 /\ e[6] = x5
    BY <2>2, ManyTokens
  <2> QED BY <2>1, <2>3
<1>7. PICK t : t = a \o w
  OBVIOUS
<1>7a. /\ t \in Seq(Tokens) /\ Len(t) = 10 + q
       /\ \A k \in 1 .. 10 : t[k] = a[k]
       /\ \A k \in 1 .. q : t[10 + k] = w[k]
  <2>1. PICK m \in Nat : m = 10
    OBVIOUS
  <2>2. a \in Seq(Tokens) /\ m = Len(a)
    BY <1>4a, <2>1
  <2>3. /\ t \in Seq(Tokens) /\ Len(t) = m + q
        /\ \A k \in 1 .. m : t[k] = a[k]
        /\ \A k \in 1 .. q : t[m + k] = w[k]
    BY <1>2, <1>7, <2>2, JoinAt
  <2> QED BY <2>1, <2>3
<1>8. PICK u : u = t \o b
  OBVIOUS
<1>8a. PICK tq \in Nat : tq = 10 + q
  OBVIOUS
<1>8b. /\ u \in Seq(Tokens) /\ Len(u) = tq + 5
       /\ \A k \in 1 .. tq : u[k] = t[k]
       /\ \A k \in 1 .. 5 : u[tq + k] = b[k]
  <2>1. PICK m \in Nat : m = 5
    OBVIOUS
  <2>2. t \in Seq(Tokens) /\ b \in Seq(Tokens) /\ tq = Len(t) /\ m = Len(b)
    BY <1>5a, <1>7a, <1>8a, <2>1
  <2>3. /\ u \in Seq(Tokens) /\ Len(u) = tq + m
        /\ \A k \in 1 .. tq : u[k] = t[k]
        /\ \A k \in 1 .. m : u[tq + k] = b[k]
    BY <1>8, <2>2, JoinAt
  <2> QED BY <2>1, <2>3
<1>9. PICK v : v = u \o w
  OBVIOUS
<1>9a. PICK uq \in Nat : uq = 15 + q
  OBVIOUS
<1>9b. /\ v \in Seq(Tokens) /\ Len(v) = uq + q
       /\ \A k \in 1 .. uq : v[k] = u[k]
       /\ \A k \in 1 .. q : v[uq + k] = w[k]
  <2>1. u \in Seq(Tokens) /\ uq = Len(u)
    BY <1>8a, <1>8b, <1>9a
  <2> QED BY <1>2, <1>9, <2>1, JoinAt
<1>10. PICK o : o = v \o e
  OBVIOUS
<1>10a. PICK vq \in Nat : vq = 15 + 2 * q
  OBVIOUS
<1>10b. /\ o \in Seq(Tokens) /\ Len(o) = vq + 6
        /\ \A k \in 1 .. vq : o[k] = v[k]
        /\ \A k \in 1 .. 6 : o[vq + k] = e[k]
  <2>1. PICK m \in Nat : m = 6
    OBVIOUS
  <2>2. vq = Len(v) /\ m = Len(e)
    <3>1. uq + q = vq
      BY <1>9a, <1>10a
    <3>2. Len(v) = uq + q /\ Len(e) = 6
      BY <1>6a, <1>9b
    <3> QED BY <2>1, <3>1, <3>2
  <2>3. v \in Seq(Tokens) /\ e \in Seq(Tokens)
    BY <1>6a, <1>9b
  <2>4. /\ o \in Seq(Tokens) /\ Len(o) = vq + m
        /\ \A k \in 1 .. vq : o[k] = v[k]
        /\ \A k \in 1 .. m : o[vq + k] = e[k]
    BY <1>10, <2>2, <2>3, JoinAt
  <2> QED BY <2>1, <2>4
<1>11. o = ConfigToJSON(c)
  BY <1>1, <1>3, <1>4, <1>5, <1>6, <1>7, <1>8, <1>9, <1>10 DEF ConfigToJSON
<1>12. \A k \in 1 .. 10 : o[k] = a[k]
  <2> TAKE k \in 1 .. 10
  <2>1. k \in 1 .. tq /\ k \in 1 .. uq /\ k \in 1 .. vq
    BY <1>8a, <1>9a, <1>10a
  <2>2. o[k] = v[k] /\ v[k] = u[k] /\ u[k] = t[k] /\ t[k] = a[k]
    BY <1>7a, <1>8b, <1>9b, <1>10b, <2>1
  <2> QED BY <2>2
<1>13. \A k \in 1 .. q : o[10 + k] = w[k]
  <2> TAKE k \in 1 .. q
  <2>1. PICK j \in Int : j = 10 + k
    OBVIOUS
  <2>2. j \in 1 .. tq /\ j \in 1 .. uq /\ j \in 1 .. vq
    BY <1>8a, <1>9a, <1>10a, <2>1
  <2>3. o[j] = v[j] /\ v[j] = u[j] /\ u[j] = t[j] /\ t[10 + k] = w[k]
    BY <1>7a, <1>8b, <1>9b, <1>10b, <2>2
  <2> QED BY <2>1, <2>3
<1>14. \A k \in 1 .. 5 : o[10 + q + k] = b[k]
  <2> TAKE k \in 1 .. 5
  <2>1. PICK j \in Int : j = tq + k
    OBVIOUS
  <2>2. j \in 1 .. uq /\ j \in 1 .. vq
    BY <1>8a, <1>9a, <1>10a, <2>1
  <2>3. o[j] = v[j] /\ v[j] = u[j] /\ u[tq + k] = b[k]
    BY <1>8b, <1>9b, <1>10b, <2>2
  <2> QED BY <1>8a, <2>1, <2>3
<1>15. \A k \in 1 .. q : o[15 + q + k] = w[k]
  <2> TAKE k \in 1 .. q
  <2>1. PICK j \in Int : j = uq + k
    OBVIOUS
  <2>2. j \in 1 .. vq
    BY <1>9a, <1>10a, <2>1
  <2>3. o[j] = v[j] /\ v[uq + k] = w[k]
    BY <1>9b, <1>10b, <2>2
  <2> QED BY <1>9a, <2>1, <2>3
<1>16. \A k \in 1 .. 6 : o[15 + 2 * q + k] = e[k]
  BY <1>10a, <1>10b
<1>17. /\ o[11 + q] = "connectionAddress" /\ o[12 + q] = "}"
       /\ o[13 + q] = "mapping" /\ o[14 + q] = "{" /\ o[15 + q] = "streamName"
  <2>1. /\ 10 + q + 1 = 11 + q /\ 10 + q + 2 = 12 + q /\ 10 + q + 3 = 13 + q
        /\ 10 + q + 4 = 14 + q /\ 10 + q + 5 = 15 + q
    OBVIOUS
  <2>2. /\ o[10 + q + 1] = b[1] /\ o[10 + q + 2] = b[2] /\ o[10 + q + 3] = b[3]
        /\ o[10 + q + 4] = b[4] /\ o[10 + q + 5] = b[5]
    BY <1>14
  <2> QED BY <1>5a, <2>1, <2>2
<1>18. /\ o[16 + 2 * q] = "channelCount" /\ o[17 + 2 * q] = "channelMap"
       /\ o[18 + 2 * q] = "[" /\ o[19 + 2 * q] = "]" /\ o[20 + 2 * q] = "}" /\ o[21 + 2 * q] = "}"
  <2>1. /\ 15 + 2 * q + 1 = 16 + 2 * q /\ 15 + 2 * q + 2 = 17 + 2 * q /\ 15 + 2 * q + 3 = 18 + 2 * q
        /\ 15 + 2 * q + 4 = 19 + 2 * q /\ 15 + 2 * q + 5 = 20 + 2 * q /\ 15 + 2 * q + 6 = 21 + 2 * q
    OBVIOUS
  <2>2. /\ o[15 + 2 * q + 1] = e[1] /\ o[15 + 2 * q + 2] = e[2] /\ o[15 + 2 * q + 3] = e[3]
        /\ o[15 + 2 * q + 4] = e[4] /\ o[15 + 2 * q + 5] = e[5] /\ o[15 + 2 * q + 6] = e[6]
    BY <1>16
  <2> QED BY <1>6a, <2>1, <2>2
<1>19. /\ o[1] = "{" /\ o[2] = "enabled" /\ o[3] = on /\ o[4] = "jitterBufferDepth" /\ o[5] = dp
       /\ o[6] = "networkInterface" /\ o[7] = ifc /\ o[8] = "sdp" /\ o[9] = "{"
       /\ o[10] = "sessionName"
  <2>1. /\ o[1] = a[1] /\ o[2] = a[2] /\ o[3] = a[3] /\ o[4] = a[4] /\ o[5] = a[5]
        /\ o[6] = a[6] /\ o[7] = a[7] /\ o[8] = a[8] /\ o[9] = a[9] /\ o[10] = a[10]
    BY <1>12
  <2> QED BY <1>4a, <2>1
<1>20. Len(o) = 2 * q + 21
  BY <1>10a, <1>10b
<1>21. Object(o, w, c)
  <2>1. o[3] = (IF c.enabled THEN "true" ELSE "false") /\ o[5] = (IF c.depth = 0 THEN "0" ELSE "64")
        /\ o[7] = c.interface
    BY <1>3, <1>19
  <2> QED BY <1>2, <1>13, <1>15, <1>17, <1>18, <1>19, <1>20, <2>1 DEF Object
<1> QED BY <1>1, <1>10b, <1>11, <1>21

\* The text of a stream and its name.
ObjectOf(o, w, c) ==
  /\ c \in Configs /\ o \in Seq(Tokens) /\ w \in Seq(Tokens)
  /\ QuoteOf(w, c.name) /\ Object(o, w, c)

\* Where the words of a stream's text are, whatever its name holds.
WordsAt(o, q, i) ==
  /\ o[i] # "streams"
  /\ o[i] = "sdp" <=> i = 8
  /\ o[i] = "sessionName" <=> i = 10
  /\ o[i] = "connectionAddress" <=> i = 11 + q
  /\ o[i] = "mapping" <=> i = 13 + q
  /\ o[i] = "channelCount" <=> i = 16 + 2 * q
  /\ o[i] = "networkInterface" <=> i = 6
  /\ o[i] = "true" => i = 3
  /\ o[i] = "false" => i = 3
  /\ o[i] = "64" => i = 5

\* Where its brackets are, when the name holds none.
BracketsAt(o, q, i) ==
  /\ o[i] = "{" <=> i = 1 \/ i = 9 \/ i = 14 + q
  /\ o[i] = "}" <=> i = 12 + q \/ i = 20 + 2 * q \/ i = 21 + 2 * q
  /\ o[i] = "[" <=> i = 18 + 2 * q
  /\ o[i] = "]" <=> i = 19 + 2 * q

\* What is no key is none of the keys looked for.
LEMMA NoWord ==
  ASSUME NEW x \in Tokens, x \notin Keywords
  PROVE  /\ x # "streams" /\ x # "sdp" /\ x # "sessionName" /\ x # "connectionAddress"
         /\ x # "mapping" /\ x # "channelCount" /\ x # "networkInterface" /\ x # "true"
         /\ x # "false" /\ x # "64"
BY DEF Keywords

\* What is no bracket is neither kind of them.
LEMMA NoBracket ==
  ASSUME NEW x \in Tokens, x \notin Brackets
  PROVE  x # "{" /\ x # "}" /\ x # "[" /\ x # "]"
BY DEF Brackets

\* The five parts of a text that a place can be in.
LEMMA PlaceIs ==
  ASSUME NEW q \in Nat, NEW i \in 1 .. 21 + 2 * q
  PROVE  \/ i \in 1 .. 10 \/ i \in 11 .. 10 + q \/ i \in 11 + q .. 15 + q
         \/ i \in 16 + q .. 15 + 2 * q \/ i \in 16 + 2 * q .. 21 + 2 * q
OBVIOUS

\* The words and the brackets are there and nowhere else.
LEMMA ObjectTokens ==
  ASSUME NEW o, NEW w, NEW c, ObjectOf(o, w, c), NEW q \in Nat, q = Len(w),
         NEW i \in 1 .. 21 + 2 * q
  PROVE  /\ WordsAt(o, q, i)
         /\ (\A k \in 1 .. q : w[k] \notin Brackets) => BracketsAt(o, q, i)
<1>1. /\ o[1] = "{" /\ o[2] = "enabled" /\ (o[3] = "true" \/ o[3] = "false")
      /\ o[4] = "jitterBufferDepth" /\ (o[5] = "0" \/ o[5] = "64")
      /\ o[6] = "networkInterface" /\ o[7] = c.interface
      /\ o[8] = "sdp" /\ o[9] = "{" /\ o[10] = "sessionName"
  BY DEF ObjectOf, Object
<1>2. /\ o[11 + q] = "connectionAddress" /\ o[12 + q] = "}"
      /\ o[13 + q] = "mapping" /\ o[14 + q] = "{" /\ o[15 + q] = "streamName"
  BY DEF ObjectOf, Object
<1>3. /\ o[16 + 2 * q] = "channelCount" /\ o[17 + 2 * q] = "channelMap"
      /\ o[18 + 2 * q] = "[" /\ o[19 + 2 * q] = "]"
      /\ o[20 + 2 * q] = "}" /\ o[21 + 2 * q] = "}"
  BY DEF ObjectOf, Object
<1>4. /\ \A k \in 1 .. q : o[10 + k] = w[k]
      /\ \A k \in 1 .. q : o[15 + q + k] = w[k]
  BY DEF ObjectOf, Object
<1>5. \A k \in 1 .. q : w[k] \notin Keywords
  <2>1. w \in Seq(Chars)
    BY DEF ObjectOf, QuoteOf
  <2>2. \A k \in 1 .. q : w[k] \in Chars
    BY <2>1, SeqAt
  <2> QED BY <2>2, TokensAre
<1>6. o[7] \notin Keywords /\ o[7] \notin Brackets
  <2>1. o[7] \in Interfaces \cup {AnyInterface}
    BY <1>1 DEF ObjectOf, Configs
  <2> QED BY <2>1, TokensAre
<1>6c. o[i] \in Tokens
  <2>1. o \in Seq(Tokens) /\ Len(o) = 21 + 2 * q
    <3>1. o \in Seq(Tokens)
      BY DEF ObjectOf
    <3>2. Len(o) = 2 * Len(w) + 21
      BY DEF ObjectOf, Object
    <3> QED BY <3>1, <3>2
  <2>2. i \in 1 .. Len(o)
    BY <2>1
  <2> QED BY <2>1, <2>2, SeqAt
<1>6a. ASSUME o[i] \notin Keywords, i \notin {6, 8, 10, 11 + q, 13 + q, 16 + 2 * q}
       PROVE  WordsAt(o, q, i)
  <2>1. PICK x \in Tokens : x = o[i]
    BY <1>6c
  <2>2. /\ x # "streams" /\ x # "sdp" /\ x # "sessionName" /\ x # "connectionAddress"
        /\ x # "mapping" /\ x # "channelCount" /\ x # "networkInterface" /\ x # "true"
        /\ x # "false" /\ x # "64"
    BY <1>6a, <2>1, NoWord
  <2> QED BY <1>6a, <2>1, <2>2 DEF WordsAt
<1>6b. ASSUME o[i] \notin Brackets, i \notin {1, 9, 12 + q, 14 + q},
              i \notin 18 + 2 * q .. 21 + 2 * q
       PROVE  BracketsAt(o, q, i)
  <2>1. PICK x \in Tokens : x = o[i]
    BY <1>6c
  <2>2. x # "{" /\ x # "}" /\ x # "[" /\ x # "]"
    BY <1>6b, <2>1, NoBracket
  <2>3. i \notin {1, 9, 14 + q} /\ i \notin {12 + q, 20 + 2 * q, 21 + 2 * q}
        /\ i # 18 + 2 * q /\ i # 19 + 2 * q
    BY <1>6b
  <2> QED BY <2>1, <2>2, <2>3 DEF BracketsAt
<1>7. CASE i \in 1 .. 10
  <2>1. i # 11 + q /\ i # 13 + q /\ i # 16 + 2 * q
        /\ i \notin {14 + q, 12 + q, 20 + 2 * q, 21 + 2 * q} /\ i # 18 + 2 * q /\ i # 19 + 2 * q
    BY <1>7
  <2>2. i = 1 \/ i = 2 \/ i = 3 \/ i = 4 \/ i = 5 \/ i = 6 \/ i = 7 \/ i = 8 \/ i = 9 \/ i = 10
    BY <1>7
  <2>3. CASE i = 7
    BY <1>6, <1>6a, <1>6b, <2>1, <2>3
  <2>4. CASE i # 7
    BY <1>1, <2>1, <2>2, <2>4 DEF WordsAt, BracketsAt
  <2> QED BY <2>3, <2>4
<1>8. CASE i \in 11 .. 10 + q
  <2>1. /\ i \notin {6, 8, 10, 11 + q, 13 + q, 16 + 2 * q} /\ i \notin {1, 9, 12 + q, 14 + q}
        /\ i \notin 18 + 2 * q .. 21 + 2 * q
    BY <1>8
  <2>2. i - 10 \in 1 .. q /\ 10 + (i - 10) = i
    BY <1>8
  <2>3. o[i] = w[i - 10]
    BY <1>4, <2>2
  <2>4. o[i] \notin Keywords /\ ((\A k \in 1 .. q : w[k] \notin Brackets) => o[i] \notin Brackets)
    BY <1>5, <2>2, <2>3
  <2> QED BY <1>6a, <1>6b, <2>1, <2>4
<1>9. CASE i \in 11 + q .. 15 + q
  <2>1. /\ i \notin 1 .. 10 /\ i # 16 + 2 * q
        /\ i \notin {20 + 2 * q, 21 + 2 * q} /\ i # 18 + 2 * q /\ i # 19 + 2 * q
    BY <1>9
  <2>2. i = 11 + q \/ i = 12 + q \/ i = 13 + q \/ i = 14 + q \/ i = 15 + q
    BY <1>9
  <2>3. CASE i = 11 + q
    <3>1. i # 12 + q /\ i # 13 + q /\ i # 14 + q /\ i # 15 + q
      BY <2>1, <2>3
    <3>2. o[i] = "connectionAddress"
      BY <1>2, <2>3
    <3>3. o[i] \notin Brackets
      BY <3>2 DEF Brackets
    <3>4. /\ o[i] # "streams" /\ o[i] # "sdp" /\ o[i] # "sessionName"
          /\ o[i] # "mapping" /\ o[i] # "channelCount" /\ o[i] # "networkInterface"
          /\ o[i] # "true" /\ o[i] # "false" /\ o[i] # "64"
      BY <3>2
    <3>5. BracketsAt(o, q, i)
      BY <1>6b, <2>1, <2>3, <3>1, <3>3
    <3>6. WordsAt(o, q, i)
      BY <2>1, <2>3, <3>1, <3>2, <3>4 DEF WordsAt
    <3> QED BY <3>5, <3>6
  <2>4. CASE i = 12 + q
    <3>1. i # 11 + q /\ i # 13 + q /\ i # 14 + q /\ i # 15 + q
      BY <2>1, <2>4
    <3>2. o[i] = "}"
      BY <1>2, <2>4
    <3>3. o[i] \notin Keywords
      BY <3>2 DEF Keywords
    <3>4. o[i] # "{" /\ o[i] # "[" /\ o[i] # "]"
      BY <3>2
    <3>5. WordsAt(o, q, i)
      BY <1>6a, <2>1, <2>4, <3>1, <3>3
    <3>6. i # 1 /\ i # 9 /\ i # 14 + q /\ i # 18 + 2 * q /\ i # 19 + 2 * q
      BY <2>1, <2>4, <3>1
    <3>7. o[i] = "}" <=> i = 12 + q \/ i = 20 + 2 * q \/ i = 21 + 2 * q
      BY <2>4, <3>2
    <3>8. BracketsAt(o, q, i)
      BY <3>4, <3>6, <3>7 DEF BracketsAt
    <3> QED BY <3>5, <3>8
  <2>5. CASE i = 13 + q
    <3>1. i # 11 + q /\ i # 12 + q /\ i # 14 + q /\ i # 15 + q
      BY <2>1, <2>5
    <3>2. o[i] = "mapping"
      BY <1>2, <2>5
    <3>3. o[i] \notin Brackets
      BY <3>2 DEF Brackets
    <3>4. /\ o[i] # "streams" /\ o[i] # "sdp" /\ o[i] # "sessionName"
          /\ o[i] # "connectionAddress" /\ o[i] # "channelCount" /\ o[i] # "networkInterface"
          /\ o[i] # "true" /\ o[i] # "false" /\ o[i] # "64"
      BY <3>2
    <3>5. BracketsAt(o, q, i)
      BY <1>6b, <2>1, <2>5, <3>1, <3>3
    <3>6. WordsAt(o, q, i)
      BY <2>1, <2>5, <3>1, <3>2, <3>4 DEF WordsAt
    <3> QED BY <3>5, <3>6
  <2>6. CASE i = 14 + q
    <3>1. i # 11 + q /\ i # 12 + q /\ i # 13 + q /\ i # 15 + q
      BY <2>1, <2>6
    <3>2. o[i] = "{"
      BY <1>2, <2>6
    <3>3. o[i] \notin Keywords
      BY <3>2 DEF Keywords
    <3>4. o[i] # "}" /\ o[i] # "[" /\ o[i] # "]"
      BY <3>2
    <3>5. WordsAt(o, q, i)
      BY <1>6a, <2>1, <2>6, <3>1, <3>3
    <3>6. BracketsAt(o, q, i)
      BY <2>1, <2>6, <3>1, <3>2, <3>4 DEF BracketsAt
    <3> QED BY <3>5, <3>6
  <2>7. CASE i = 15 + q
    <3>1. i # 11 + q /\ i # 12 + q /\ i # 13 + q /\ i # 14 + q
      BY <2>1, <2>7
    <3>2. o[i] = "streamName"
      BY <1>2, <2>7
    <3>3. o[i] \notin Brackets
      BY <3>2 DEF Brackets
    <3>4. /\ o[i] # "streams" /\ o[i] # "sdp" /\ o[i] # "sessionName" /\ o[i] # "connectionAddress"
          /\ o[i] # "mapping" /\ o[i] # "channelCount" /\ o[i] # "networkInterface" /\ o[i] # "true"
          /\ o[i] # "false" /\ o[i] # "64"
      BY <3>2
    <3>5. BracketsAt(o, q, i)
      BY <1>6b, <2>1, <2>7, <3>1, <3>3
    <3>6. WordsAt(o, q, i)
      BY <2>1, <2>7, <3>1, <3>2, <3>4 DEF WordsAt
    <3> QED BY <3>5, <3>6
  <2> QED BY <2>2, <2>3, <2>4, <2>5, <2>6, <2>7
<1>10. CASE i \in 16 + q .. 15 + 2 * q
  <2>1. /\ i \notin {6, 8, 10, 11 + q, 13 + q, 16 + 2 * q} /\ i \notin {1, 9, 12 + q, 14 + q}
        /\ i \notin 18 + 2 * q .. 21 + 2 * q
    BY <1>10
  <2>2. PICK k \in 1 .. q : i = 15 + q + k
    <3>1. i - (15 + q) \in 1 .. q /\ i = 15 + q + (i - (15 + q))
      BY <1>10
    <3> QED BY <3>1
  <2>3. o[i] = w[k]
    BY <1>4, <2>2
  <2>4. o[i] \notin Keywords /\ ((\A j \in 1 .. q : w[j] \notin Brackets) => o[i] \notin Brackets)
    BY <1>5, <2>2, <2>3
  <2> QED BY <1>6a, <1>6b, <2>1, <2>4
<1>11. CASE i \in 16 + 2 * q .. 21 + 2 * q
  <2>1. /\ i \notin 1 .. 10 /\ i # 11 + q /\ i # 13 + q /\ i \notin {14 + q, 12 + q}
    BY <1>11
  <2>2. \/ i = 16 + 2 * q \/ i = 17 + 2 * q \/ i = 18 + 2 * q \/ i = 19 + 2 * q
        \/ i = 20 + 2 * q \/ i = 21 + 2 * q
    BY <1>11
  <2>3. CASE i = 16 + 2 * q
    <3>1. i # 17 + 2 * q /\ i # 18 + 2 * q /\ i # 19 + 2 * q /\ i # 20 + 2 * q /\ i # 21 + 2 * q
      BY <2>1, <2>3
    <3>2. o[i] = "channelCount"
      BY <1>3, <2>3
    <3>3. o[i] \notin Brackets
      BY <3>2 DEF Brackets
    <3>4. /\ o[i] # "streams" /\ o[i] # "sdp" /\ o[i] # "sessionName"
          /\ o[i] # "connectionAddress" /\ o[i] # "mapping" /\ o[i] # "networkInterface"
          /\ o[i] # "true" /\ o[i] # "false" /\ o[i] # "64"
      BY <3>2
    <3>5. BracketsAt(o, q, i)
      BY <1>6b, <2>1, <2>3, <3>1, <3>3
    <3>6. WordsAt(o, q, i)
      BY <2>1, <2>3, <3>1, <3>2, <3>4 DEF WordsAt
    <3> QED BY <3>5, <3>6
  <2>4. CASE i = 17 + 2 * q
    <3>1. i # 16 + 2 * q /\ i # 18 + 2 * q /\ i # 19 + 2 * q /\ i # 20 + 2 * q /\ i # 21 + 2 * q
      BY <2>1, <2>4
    <3>2. o[i] = "channelMap"
      BY <1>3, <2>4
    <3>3. o[i] \notin Brackets
      BY <3>2 DEF Brackets
    <3>4. /\ o[i] # "streams" /\ o[i] # "sdp" /\ o[i] # "sessionName" /\ o[i] # "connectionAddress"
          /\ o[i] # "mapping" /\ o[i] # "channelCount" /\ o[i] # "networkInterface" /\ o[i] # "true"
          /\ o[i] # "false" /\ o[i] # "64"
      BY <3>2
    <3>5. BracketsAt(o, q, i)
      BY <1>6b, <2>1, <2>4, <3>1, <3>3
    <3>6. WordsAt(o, q, i)
      BY <2>1, <2>4, <3>1, <3>2, <3>4 DEF WordsAt
    <3> QED BY <3>5, <3>6
  <2>5. CASE i = 18 + 2 * q
    <3>1. i # 16 + 2 * q /\ i # 17 + 2 * q /\ i # 19 + 2 * q /\ i # 20 + 2 * q /\ i # 21 + 2 * q
      BY <2>1, <2>5
    <3>2. o[i] = "["
      BY <1>3, <2>5
    <3>3. o[i] \notin Keywords
      BY <3>2 DEF Keywords
    <3>4. o[i] # "{" /\ o[i] # "}" /\ o[i] # "]"
      BY <3>2
    <3>5. WordsAt(o, q, i)
      BY <1>6a, <2>1, <2>5, <3>1, <3>3
    <3>6. BracketsAt(o, q, i)
      BY <2>1, <2>5, <3>1, <3>2, <3>4 DEF BracketsAt
    <3> QED BY <3>5, <3>6
  <2>6. CASE i = 19 + 2 * q
    <3>1. i # 16 + 2 * q /\ i # 17 + 2 * q /\ i # 18 + 2 * q /\ i # 20 + 2 * q /\ i # 21 + 2 * q
      BY <2>1, <2>6
    <3>2. o[i] = "]"
      BY <1>3, <2>6
    <3>3. o[i] \notin Keywords
      BY <3>2 DEF Keywords
    <3>4. o[i] # "{" /\ o[i] # "}" /\ o[i] # "["
      BY <3>2
    <3>5. WordsAt(o, q, i)
      BY <1>6a, <2>1, <2>6, <3>1, <3>3
    <3>6. BracketsAt(o, q, i)
      BY <2>1, <2>6, <3>1, <3>2, <3>4 DEF BracketsAt
    <3> QED BY <3>5, <3>6
  <2>7. CASE i = 20 + 2 * q
    <3>1. i # 16 + 2 * q /\ i # 17 + 2 * q /\ i # 18 + 2 * q /\ i # 19 + 2 * q /\ i # 21 + 2 * q
      BY <2>1, <2>7
    <3>2. o[i] = "}"
      BY <1>3, <2>7
    <3>3. o[i] \notin Keywords
      BY <3>2 DEF Keywords
    <3>4. o[i] # "{" /\ o[i] # "[" /\ o[i] # "]"
      BY <3>2
    <3>5. WordsAt(o, q, i)
      BY <1>6a, <2>1, <2>7, <3>1, <3>3
    <3>6. i # 1 /\ i # 9 /\ i # 14 + q /\ i # 18 + 2 * q /\ i # 19 + 2 * q
      BY <2>1, <2>7, <3>1
    <3>7. o[i] = "}" <=> i = 12 + q \/ i = 20 + 2 * q \/ i = 21 + 2 * q
      BY <2>7, <3>2
    <3>8. BracketsAt(o, q, i)
      BY <3>4, <3>6, <3>7 DEF BracketsAt
    <3> QED BY <3>5, <3>8
  <2>8. CASE i = 21 + 2 * q
    <3>1. i # 16 + 2 * q /\ i # 17 + 2 * q /\ i # 18 + 2 * q /\ i # 19 + 2 * q /\ i # 20 + 2 * q
      BY <2>1, <2>8
    <3>2. o[i] = "}"
      BY <1>3, <2>8
    <3>3. o[i] \notin Keywords
      BY <3>2 DEF Keywords
    <3>4. o[i] # "{" /\ o[i] # "[" /\ o[i] # "]"
      BY <3>2
    <3>5. WordsAt(o, q, i)
      BY <1>6a, <2>1, <2>8, <3>1, <3>3
    <3>6. i # 1 /\ i # 9 /\ i # 14 + q /\ i # 18 + 2 * q /\ i # 19 + 2 * q
      BY <2>1, <2>8, <3>1
    <3>7. o[i] = "}" <=> i = 12 + q \/ i = 20 + 2 * q \/ i = 21 + 2 * q
      BY <2>8, <3>2
    <3>8. BracketsAt(o, q, i)
      BY <3>4, <3>6, <3>7 DEF BracketsAt
    <3> QED BY <3>5, <3>8
  <2> QED BY <2>2, <2>3, <2>4, <2>5, <2>6, <2>7, <2>8
<1> QED BY <1>7, <1>8, <1>9, <1>10, <1>11, PlaceIs

\* How deep in braces token i of a stream's text is.
Braces(q, i) ==
  IF i = 0 \/ i = 21 + 2 * q THEN 0
  ELSE IF (9 <= i /\ i < 12 + q) \/ (14 + q <= i /\ i < 20 + 2 * q) THEN 2 ELSE 1

\* The depth changes where a brace is.
LEMMA BracesStep ==
  ASSUME NEW q \in Nat, NEW i \in 0 .. 20 + 2 * q, NEW a \in {0, 1}, NEW b \in {0, 1},
         a = 1 <=> i + 1 = 1 \/ i + 1 = 9 \/ i + 1 = 14 + q,
         b = 1 <=> i + 1 = 12 + q \/ i + 1 = 20 + 2 * q \/ i + 1 = 21 + 2 * q
  PROVE  Braces(q, i + 1) = Braces(q, i) + a - b
<1>1. CASE i = 0
  BY <1>1 DEF Braces
<1>2. CASE i # 0 /\ i + 1 < 12 + q
  BY <1>2 DEF Braces
<1>3. CASE i + 1 = 12 + q
  BY <1>3 DEF Braces
<1>4. CASE 12 + q < i + 1 /\ i + 1 < 20 + 2 * q
  BY <1>4 DEF Braces
<1>5. CASE i + 1 = 20 + 2 * q
  BY <1>5 DEF Braces
<1>6. CASE i + 1 = 21 + 2 * q
  BY <1>6 DEF Braces
<1> QED BY <1>1, <1>2, <1>3, <1>4, <1>5, <1>6

\* A stream has one session description, the eighth token.
LEMMA ObjectCounts ==
  ASSUME NEW o, NEW w, NEW c, ObjectOf(o, w, c), NEW q \in Nat, q = Len(w)
  PROVE  /\ Len(o) = 21 + 2 * q /\ o \in Seq(Tokens)
         /\ \A i \in 0 .. 21 + 2 * q : Seen(o, "sdp", i) = IF i >= 8 THEN 1 ELSE 0
<1>1. o \in Seq(Tokens) /\ Len(o) = 21 + 2 * q
  <2>1. Len(o) = 2 * Len(w) + 21
    BY DEF ObjectOf, Object
  <2> QED BY <2>1 DEF ObjectOf
<1>2. PICK x \in Tokens : x = "sdp"
  BY WordsAre
<1>3. /\ Seen(o, x, 0) = 0
      /\ \A i \in 0 .. 20 + 2 * q : Seen(o, x, i + 1) = Seen(o, x, i) + IF o[i + 1] = x THEN 1 ELSE 0
  <2>1. /\ Seen(o, x, 0) = 0
        /\ \A i \in 0 .. Len(o) - 1 : Seen(o, x, i + 1) = Seen(o, x, i) + IF o[i + 1] = x THEN 1 ELSE 0
    BY <1>1, SeenIs
  <2>2. Len(o) - 1 = 20 + 2 * q
    BY <1>1
  <2> QED BY <2>1, <2>2
<1> DEFINE G == {i \in 0 .. 21 + 2 * q : Seen(o, x, i) = IF i >= 8 THEN 1 ELSE 0}
<1>4. 0 \in G
  BY <1>3
<1>5. ASSUME NEW i \in 0 .. (21 + 2 * q) - 1, i \in G PROVE i + 1 \in G
  <2>1. i \in 0 .. 20 + 2 * q /\ i + 1 \in 1 .. 21 + 2 * q /\ i + 1 \in 0 .. 21 + 2 * q
    OBVIOUS
  <2>2. o[i + 1] = x <=> i + 1 = 8
    BY <1>2, <2>1, ObjectTokens DEF WordsAt
  <2>3. Seen(o, x, i) = IF i >= 8 THEN 1 ELSE 0
    BY <1>5
  <2>4. Seen(o, x, i + 1) = Seen(o, x, i) + IF o[i + 1] = x THEN 1 ELSE 0
    BY <1>3, <2>1
  <2>5. Seen(o, x, i + 1) = IF i + 1 >= 8 THEN 1 ELSE 0
    BY <2>1, <2>2, <2>3, <2>4
  <2> QED BY <2>1, <2>5
<1>6. \A i \in 0 .. 21 + 2 * q : i \in G
  <2> HIDE DEF G
  <2>1. 21 + 2 * q \in Nat
    OBVIOUS
  <2> QED BY <1>4, <1>5, <2>1, UpTo
<1> QED BY <1>1, <1>2, <1>6

\* The depths along the text of a stream whose name holds no bracket.
LEMMA ObjectDepths ==
  ASSUME NEW o, NEW w, NEW c, ObjectOf(o, w, c), NEW q \in Nat, q = Len(w),
         \A k \in 1 .. q : w[k] \notin Brackets
  PROVE  \A i \in 0 .. 21 + 2 * q :
           /\ Seen(o, "{", i) - Seen(o, "}", i) = Braces(q, i)
           /\ Seen(o, "[", i) - Seen(o, "]", i) = IF i = 18 + 2 * q THEN 1 ELSE 0
<1>1. o \in Seq(Tokens) /\ Len(o) = 21 + 2 * q
  BY ObjectCounts
<1>2. PICK x1 \in Tokens, x2 \in Tokens, x3 \in Tokens, x4 \in Tokens :
        x1 = "{" /\ x2 = "}" /\ x3 = "[" /\ x4 = "]"
  BY WordsAre
<1>3. ASSUME NEW x \in Tokens
      PROVE  /\ Seen(o, x, 0) = 0
             /\ \A i \in 0 .. 20 + 2 * q :
                  /\ Seen(o, x, i) \in Nat
                  /\ Seen(o, x, i + 1) = Seen(o, x, i) + IF o[i + 1] = x THEN 1 ELSE 0
  <2>1. /\ Seen(o, x, 0) = 0
        /\ \A i \in 0 .. Len(o) - 1 : Seen(o, x, i + 1) = Seen(o, x, i) + IF o[i + 1] = x THEN 1 ELSE 0
        /\ \A i \in Nat : Seen(o, x, i) \in Nat
    BY <1>1, SeenIs
  <2>2. Len(o) - 1 = 20 + 2 * q
    BY <1>1
  <2> QED BY <2>1, <2>2
<1> DEFINE B(i) == Seen(o, x1, i) - Seen(o, x2, i) = Braces(q, i)
           S(i) == Seen(o, x3, i) - Seen(o, x4, i) = IF i = 18 + 2 * q THEN 1 ELSE 0
           G == {i \in 0 .. 21 + 2 * q : B(i) /\ S(i)}
<1>4. 0 \in G
  BY <1>3 DEF Braces
<1>5. ASSUME NEW i \in 0 .. (21 + 2 * q) - 1, i \in G PROVE i + 1 \in G
  <2>1. i \in 0 .. 20 + 2 * q /\ i + 1 \in 1 .. 21 + 2 * q /\ i + 1 \in 0 .. 21 + 2 * q
    OBVIOUS
  <2>2. BracketsAt(o, q, i + 1)
    BY <2>1, ObjectTokens
  <2>2a. /\ o[i + 1] = x1 <=> i + 1 = 1 \/ i + 1 = 9 \/ i + 1 = 14 + q
         /\ o[i + 1] = x2 <=> i + 1 = 12 + q \/ i + 1 = 20 + 2 * q \/ i + 1 = 21 + 2 * q
         /\ o[i + 1] = x3 <=> i + 1 = 18 + 2 * q
         /\ o[i + 1] = x4 <=> i + 1 = 19 + 2 * q
    <3>1. PICK j \in 1 .. 21 + 2 * q : j = i + 1
      BY <2>1
    <3>2. BracketsAt(o, q, j)
      BY <2>2, <3>1
    <3>3. /\ o[j] = x1 <=> j = 1 \/ j = 9 \/ j = 14 + q
          /\ o[j] = x2 <=> j = 12 + q \/ j = 20 + 2 * q \/ j = 21 + 2 * q
          /\ o[j] = x3 <=> j = 18 + 2 * q
          /\ o[j] = x4 <=> j = 19 + 2 * q
      BY <1>2, <3>2, Zenon DEF BracketsAt
    <3> QED BY <3>1, <3>3
  <2>3. B(i) /\ S(i)
    BY <1>5
  <2>4. B(i + 1)
    <3>1. PICK a \in {0, 1}, b \in {0, 1} :
            a = (IF o[i + 1] = x1 THEN 1 ELSE 0) /\ b = (IF o[i + 1] = x2 THEN 1 ELSE 0)
      OBVIOUS
    <3>2. a = 1 <=> i + 1 = 1 \/ i + 1 = 9 \/ i + 1 = 14 + q
      BY <2>2a, <3>1
    <3>3. b = 1 <=> i + 1 = 12 + q \/ i + 1 = 20 + 2 * q \/ i + 1 = 21 + 2 * q
      BY <2>2a, <3>1
    <3>4. Braces(q, i + 1) = Braces(q, i) + a - b
      BY <2>1, <3>2, <3>3, BracesStep
    <3>5. /\ Seen(o, x1, i + 1) = Seen(o, x1, i) + a /\ Seen(o, x2, i + 1) = Seen(o, x2, i) + b
          /\ Seen(o, x1, i) \in Nat /\ Seen(o, x2, i) \in Nat
      BY <1>3, <2>1, <3>1
    <3> QED BY <2>3, <3>4, <3>5
  <2>5. S(i + 1)
    <3>1. PICK a \in {0, 1}, b \in {0, 1} :
            a = (IF o[i + 1] = x3 THEN 1 ELSE 0) /\ b = (IF o[i + 1] = x4 THEN 1 ELSE 0)
      OBVIOUS
    <3>2. a = 1 <=> i + 1 = 18 + 2 * q
      BY <2>2a, <3>1
    <3>3. b = 1 <=> i + 1 = 19 + 2 * q
      BY <2>2a, <3>1
    <3>4. /\ Seen(o, x3, i + 1) = Seen(o, x3, i) + a /\ Seen(o, x4, i + 1) = Seen(o, x4, i) + b
          /\ Seen(o, x3, i) \in Nat /\ Seen(o, x4, i) \in Nat
      BY <1>3, <2>1, <3>1
    <3>5. (IF i + 1 = 18 + 2 * q THEN 1 ELSE 0) = (IF i = 18 + 2 * q THEN 1 ELSE 0) + a - b
      BY <2>1, <3>2, <3>3
    <3> QED BY <2>3, <3>4, <3>5
  <2> QED BY <2>1, <2>4, <2>5
<1>6. \A i \in 0 .. 21 + 2 * q : i \in G
  <2> HIDE DEF G
  <2>1. 21 + 2 * q \in Nat
    OBVIOUS
  <2> QED BY <1>4, <1>5, <2>1, UpTo
<1>7. \A i \in 0 .. 21 + 2 * q : B(i) /\ S(i)
  BY <1>6
<1> QED BY <1>2, <1>7

-----------------------------------------------------------------------------
(* The streams one after another                                            *)

\* cs is written: stream i as objs[i], with the name ws[i], so that L[i] tokens
\* of F hold the first i of them.
Laid(cs, n, objs, ws, F, L) ==
  /\ cs \in Seq(Configs) /\ n = Len(cs) /\ F \in Seq(Tokens)
  /\ L \in [0 .. n -> Nat] /\ L[0] = 0 /\ L[n] = Len(F)
  /\ \A i \in 1 .. n :
       /\ ObjectOf(objs[i], ws[i], cs[i])
       /\ L[i] = L[i - 1] + Len(objs[i])
       /\ \A j \in 1 .. Len(objs[i]) : F[L[i - 1] + j] = objs[i][j]
       /\ \A x \in Tokens, j \in 0 .. Len(objs[i]) :
            Seen(F, x, L[i - 1] + j) = Seen(F, x, L[i - 1]) + Seen(objs[i], x, j)

ObjectTexts(cs) == [i \in DOMAIN cs |-> ConfigToJSON(cs[i])]

\* Where one of several texts is.
Piece(g, s, n, i) ==
  /\ Len(g[i]) = Len(g[i - 1]) + Len(s[i])
  /\ \A j \in 1 .. Len(s[i]) : g[n][Len(g[i - 1]) + j] = s[i][j]
  /\ \A x \in Tokens, j \in 0 .. Len(s[i]) :
       Seen(g[n], x, Len(g[i - 1]) + j) = Seen(g[n], x, Len(g[i - 1])) + Seen(s[i], x, j)

\* A text is found in the join behind those before it.
LEMMA JoinPiece ==
  ASSUME NEW n \in Nat, NEW s \in [1 .. n -> Seq(Tokens)], NEW g, Joins(s, n, Tokens, g),
         NEW i \in 1 .. n
  PROVE  Piece(g, s, n, i)
<1>1. i \in 0 .. n /\ i - 1 \in 0 .. n
  OBVIOUS
<1>2. PICK a \in Seq(Tokens) : a = g[i - 1]
  BY <1>1 DEF Joins
<1>3. PICK b \in Seq(Tokens) : b = g[i]
  BY <1>1 DEF Joins
<1>4. PICK t \in Seq(Tokens) : t = s[i]
  OBVIOUS
<1>5. b = a \o t
  BY <1>2, <1>3, <1>4 DEF Joins
<1>6. PICK u \in Seq(Tokens) : g[n] = b \o u
  <2>1. BeginsWith(g[n], g[i], Tokens)
    BY <1>1, JoinsBegin
  <2> QED BY <1>3, <2>1 DEF BeginsWith
<1>7. PICK la \in Nat, lt \in Nat, lu \in Nat : la = Len(a) /\ lt = Len(t) /\ lu = Len(u)
  BY SeqAt
<1>8. /\ Len(b) = la + lt
      /\ \A j \in 1 .. lt : b[la + j] = t[j]
  BY <1>5, <1>7, JoinAt
<1>9. PICK v : v = b \o u
  OBVIOUS
<1>10. PICK lb \in Nat : lb = la + lt
  OBVIOUS
<1>11. v \in Seq(Tokens) /\ \A j \in 1 .. lb : v[j] = b[j]
  BY <1>7, <1>8, <1>9, <1>10, JoinAt
<1>12. \A j \in 1 .. lt : v[la + j] = t[j]
  <2> TAKE j \in 1 .. lt
  <2>1. PICK k \in Int : k = la + j
    OBVIOUS
  <2>2. k \in 1 .. lb
    BY <1>10, <2>1
  <2> QED BY <1>8, <1>11, <2>1, <2>2
<1>13. ASSUME NEW x \in Tokens, NEW j \in 0 .. lt
       PROVE  Seen(v, x, la + j) = Seen(v, x, la) + Seen(t, x, j)
  <2>1. /\ \A k \in 0 .. lb : Seen(v, x, k) = Seen(b, x, k)
        /\ Seen(b, x, la + j) = Seen(a, x, la) + Seen(t, x, j)
        /\ Seen(b, x, la) = Seen(a, x, la)
    <3>1. \A k \in 0 .. Len(b) : Seen(b \o u, x, k) = Seen(b, x, k)
      BY SeenJoined
    <3>2. /\ \A k \in 0 .. Len(a) : Seen(a \o t, x, k) = Seen(a, x, k)
          /\ \A k \in 0 .. Len(t) : Seen(a \o t, x, Len(a) + k) = Seen(a, x, Len(a)) + Seen(t, x, k)
      BY SeenJoined
    <3>3. la \in 0 .. Len(a) /\ j \in 0 .. Len(t)
      BY <1>7
    <3> QED BY <1>5, <1>7, <1>8, <1>9, <1>10, <3>1, <3>2, <3>3
  <2>2. PICK k \in 0 .. lb, m \in 0 .. lb : k = la + j /\ m = la
    BY <1>10
  <2>3. Seen(v, x, k) = Seen(b, x, k) /\ Seen(v, x, m) = Seen(b, x, m)
    BY <2>1
  <2> QED BY <2>1, <2>2, <2>3
<1>14. /\ Len(g[i]) = Len(g[i - 1]) + Len(s[i])
       /\ \A j \in 1 .. Len(s[i]) : g[n][Len(g[i - 1]) + j] = s[i][j]
       /\ \A x \in Tokens, j \in 0 .. Len(s[i]) :
            Seen(g[n], x, Len(g[i - 1]) + j) = Seen(g[n], x, Len(g[i - 1])) + Seen(s[i], x, j)
  BY <1>2, <1>3, <1>4, <1>6, <1>7, <1>8, <1>9, <1>12, <1>13
<1> QED BY <1>14 DEF Piece

\* toJSON lays the streams out one after another.
LEMMA IsLaid ==
  ASSUME NEW cs \in Seq(Configs), NEW n, n = Len(cs)
  PROVE  \E objs, ws, F, L :
           Laid(cs, n, objs, ws, F, L) /\ objs = ObjectTexts(cs) /\ F = FlattenSeq(objs)
<1>1. n \in Nat /\ DOMAIN cs = 1 .. n /\ \A i \in 1 .. n : cs[i] \in Configs
  BY SeqAt
<1>2. PICK objs : objs = ObjectTexts(cs)
  OBVIOUS
<1>3. \A i \in 1 .. n : objs[i] = ConfigToJSON(cs[i])
  BY <1>1, <1>2 DEF ObjectTexts
<1>4. \A i \in 1 .. n : \E w : ObjectOf(objs[i], w, cs[i])
  <2> TAKE i \in 1 .. n
  <2>1. PICK c \in Configs : c = cs[i]
    BY <1>1
  <2>2. PICK o \in Seq(Tokens), w \in Seq(Tokens) :
          o = ConfigToJSON(c) /\ QuoteOf(w, c.name) /\ Object(o, w, c)
    BY ObjectIs
  <2>3. objs[i] = o
    BY <1>3, <2>1, <2>2
  <2>4. ObjectOf(o, w, c)
    BY <2>2 DEF ObjectOf
  <2> QED BY <2>1, <2>3, <2>4
<1>5. PICK ws : ws = [i \in 1 .. n |-> CHOOSE w : ObjectOf(objs[i], w, cs[i])]
  OBVIOUS
<1>6. \A i \in 1 .. n : ObjectOf(objs[i], ws[i], cs[i])
  <2> TAKE i \in 1 .. n
  <2>1. ws[i] = CHOOSE w : ObjectOf(objs[i], w, cs[i])
    BY <1>5
  <2>2. \E w : ObjectOf(objs[i], w, cs[i])
    BY <1>4
  <2> QED BY <2>1, <2>2, Zenon
<1>7. objs \in [1 .. n -> Seq(Tokens)]
  <2>1. \A i \in 1 .. n : objs[i] \in Seq(Tokens)
    BY <1>6 DEF ObjectOf
  <2>2. objs = [i \in 1 .. n |-> objs[i]]
    BY <1>1, <1>2 DEF ObjectTexts
  <2> QED BY <2>1, <2>2
<1>8. PICK g : Joins(objs, n, Tokens, g) /\ FlattenSeq(objs) = g[n]
  BY <1>1, <1>7, FlattenIs
<1>9. PICK F : F = g[n]
  OBVIOUS
<1>10. PICK L : L = [i \in 0 .. n |-> Len(g[i])]
  OBVIOUS
<1>11. /\ L \in [0 .. n -> Nat] /\ L[0] = 0 /\ L[n] = Len(F) /\ F \in Seq(Tokens)
       /\ \A i \in 0 .. n : L[i] = Len(g[i])
  <2>1. \A i \in 0 .. n : g[i] \in Seq(Tokens)
    BY <1>8 DEF Joins
  <2>2. \A i \in 0 .. n : Len(g[i]) \in Nat
    BY <2>1, SeqAt
  <2>3. 0 \in 0 .. n /\ n \in 0 .. n
    BY <1>1
  <2>4. g[0] = <<>> /\ Len(<<>>) = 0
    BY <1>8 DEF Joins
  <2> QED BY <1>9, <1>10, <2>1, <2>2, <2>3, <2>4
<1>12. ASSUME NEW i \in 1 .. n
       PROVE  /\ L[i] = L[i - 1] + Len(objs[i])
              /\ \A j \in 1 .. Len(objs[i]) : F[L[i - 1] + j] = objs[i][j]
              /\ \A x \in Tokens, j \in 0 .. Len(objs[i]) :
                   Seen(F, x, L[i - 1] + j) = Seen(F, x, L[i - 1]) + Seen(objs[i], x, j)
  <2>1. L[i] = Len(g[i]) /\ L[i - 1] = Len(g[i - 1])
    <3>1. i \in 0 .. n /\ i - 1 \in 0 .. n
      BY <1>1
    <3> QED BY <1>11, <3>1
  <2>2. Piece(g, objs, n, i)
    BY <1>1, <1>7, <1>8, JoinPiece
  <2> QED BY <1>9, <2>1, <2>2 DEF Piece
<1>13. Laid(cs, n, objs, ws, F, L)
  BY <1>6, <1>11, <1>12 DEF Laid
<1> QED BY <1>2, <1>8, <1>9, <1>13

\* The ends of the streams follow one another, and every token is in one.
LEMMA Places ==
  ASSUME NEW cs, NEW n, NEW objs, NEW ws, NEW F, NEW L, Laid(cs, n, objs, ws, F, L)
  PROVE  /\ n \in Nat /\ \A i \in 1 .. n : Len(objs[i]) \in Nat /\ Len(objs[i]) >= 21
         /\ \A i, k \in 0 .. n : i < k => L[i] < L[k]
         /\ \A p \in 1 .. Len(F) : \E i \in 1 .. n : L[i - 1] < p /\ p <= L[i]
<1>1. n \in Nat /\ \A i \in 0 .. n : L[i] \in Nat
  BY SeqAt DEF Laid
<1>2. \A i \in 1 .. n : Len(objs[i]) \in Nat /\ Len(objs[i]) >= 21 /\ L[i] = L[i - 1] + Len(objs[i])
  <2> TAKE i \in 1 .. n
  <2>1. PICK o, w, c : o = objs[i] /\ w = ws[i] /\ c = cs[i]
    OBVIOUS
  <2>2. ObjectOf(o, w, c)
    BY <2>1 DEF Laid
  <2>3. PICK q \in Nat : q = Len(w)
    BY <2>2, SeqAt DEF ObjectOf
  <2>4. Len(o) = 21 + 2 * q
    BY <2>2, <2>3, ObjectCounts
  <2> QED BY <2>1, <2>3, <2>4 DEF Laid
<1>3. \A i \in 1 .. n : L[i - 1] < L[i]
  <2> TAKE i \in 1 .. n
  <2>1. i - 1 \in 0 .. n /\ i \in 0 .. n
    BY <1>1
  <2>2. PICK a \in Nat, b \in Nat, l \in Nat : a = L[i - 1] /\ b = L[i] /\ l = Len(objs[i])
    BY <1>1, <1>2, <2>1
  <2>3. b = a + l /\ l >= 21
    BY <1>2, <2>2
  <2> QED BY <2>2, <2>3
<1> DEFINE G == {k \in 0 .. n : /\ \A i \in 0 .. n : i < k => L[i] < L[k]
                                /\ \A p \in 1 .. L[k] : \E i \in 1 .. n : L[i - 1] < p /\ p <= L[i]}
<1>4. 0 \in G
  BY <1>1 DEF Laid
<1>5. ASSUME NEW k \in 0 .. n - 1, k \in G PROVE k + 1 \in G
  <2>1. k + 1 \in 1 .. n /\ (k + 1) - 1 = k /\ k + 1 \in 0 .. n /\ k \in 0 .. n
    BY <1>1
  <2>2. L[k] < L[k + 1] /\ L[k] \in Nat /\ L[k + 1] \in Nat
    BY <1>1, <1>3, <2>1
  <2>3. ASSUME NEW i \in 0 .. n, i < k + 1 PROVE L[i] < L[k + 1]
    <3>1. CASE i = k
      BY <2>2, <3>1
    <3>2. CASE i < k
      <4>1. L[i] < L[k] /\ L[i] \in Nat
        BY <1>1, <1>5, <3>2
      <4> QED BY <2>2, <4>1
    <3> QED BY <2>1, <2>3, <3>1, <3>2
  <2>4. ASSUME NEW p \in 1 .. L[k + 1] PROVE \E i \in 1 .. n : L[i - 1] < p /\ p <= L[i]
    <3>1. CASE p <= L[k]
      <4>1. p \in 1 .. L[k]
        BY <2>2, <3>1
      <4> QED BY <1>5, <4>1
    <3>2. CASE p > L[k]
      <4>1. L[(k + 1) - 1] < p /\ p <= L[k + 1]
        BY <2>1, <2>2, <3>2
      <4> QED BY <2>1, <4>1
    <3> QED BY <2>2, <3>1, <3>2
  <2> QED BY <2>1, <2>3, <2>4
<1>6. \A k \in 0 .. n : k \in G
  <2> HIDE DEF G
  <2> QED BY <1>1, <1>4, <1>5, UpTo
<1>7. \A i, k \in 0 .. n : i < k => L[i] < L[k]
  BY <1>6
<1>8. \A p \in 1 .. Len(F) : \E i \in 1 .. n : L[i - 1] < p /\ p <= L[i]
  <2>1. n \in G /\ L[n] = Len(F)
    <3>1. n \in 0 .. n
      BY <1>1
    <3> HIDE DEF G
    <3> QED BY <1>6, <3>1 DEF Laid
  <2> QED BY <2>1
<1> QED BY <1>1, <1>2, <1>7, <1>8

-----------------------------------------------------------------------------
(* The objects of an array whose names hold no brackets                     *)

Unbracketed(ws, n) == \A i \in 1 .. n : \A k \in 1 .. Len(ws[i]) : ws[i][k] \notin Brackets

\* Every stream has one session description.
LEMMA SdpCount ==
  ASSUME NEW cs, NEW n, NEW objs, NEW ws, NEW F, NEW L, Laid(cs, n, objs, ws, F, L)
  PROVE  \A k \in 0 .. n : Seen(F, "sdp", L[k]) = k
<1>1. n \in Nat
  BY Places
<1>2. PICK x \in Tokens : x = "sdp"
  BY WordsAre
<1> DEFINE G == {k \in 0 .. n : Seen(F, x, L[k]) = k}
<1>3. 0 \in G
  <2>1. F \in Seq(Tokens) /\ L[0] = 0
    BY DEF Laid
  <2> QED BY <1>1, <2>1, SeenIs
<1>4. ASSUME NEW k \in 0 .. n - 1, k \in G PROVE k + 1 \in G
  <2>1. PICK i \in 1 .. n : i = k + 1 /\ i - 1 = k
    BY <1>1
  <2>2. PICK o, w, c : o = objs[i] /\ w = ws[i] /\ c = cs[i]
    OBVIOUS
  <2>3. ObjectOf(o, w, c) /\ L[i] = L[i - 1] + Len(o)
    BY <2>2 DEF Laid
  <2>4. PICK q \in Nat : q = Len(w)
    BY <2>3, SeqAt DEF ObjectOf
  <2>5. Len(o) = 21 + 2 * q /\ \A j \in 0 .. 21 + 2 * q : Seen(o, x, j) = IF j >= 8 THEN 1 ELSE 0
    BY <1>2, <2>3, <2>4, ObjectCounts
  <2>6. PICK j \in 0 .. Len(objs[i]) : j = 21 + 2 * q
    BY <2>2, <2>5
  <2>7. Seen(F, x, L[i - 1] + j) = Seen(F, x, L[i - 1]) + Seen(o, x, j)
    BY <2>2 DEF Laid
  <2>8. Seen(o, x, j) = 1
    BY <2>5, <2>6
  <2>9. Seen(F, x, L[i]) = Seen(F, x, L[k]) + 1
    BY <2>1, <2>3, <2>5, <2>6, <2>7, <2>8
  <2> QED BY <1>1, <1>4, <2>1, <2>9
<1>5. \A k \in 0 .. n : k \in G
  <2> HIDE DEF G
  <2> QED BY <1>1, <1>3, <1>4, UpTo
<1> QED BY <1>2, <1>5

\* How deep in brackets the tokens of the array are.
Level(n, F, L) ==
  \A k \in 0 .. n : /\ Seen(F, "{", L[k]) - Seen(F, "}", L[k]) = 0
                    /\ Seen(F, "[", L[k]) - Seen(F, "]", L[k]) = 0

Deep(n, objs, ws, F, L) ==
  \A i \in 1 .. n : \A j \in 0 .. Len(objs[i]) :
    /\ Seen(F, "{", L[i - 1] + j) - Seen(F, "}", L[i - 1] + j) = Braces(Len(ws[i]), j)
    /\ Seen(F, "[", L[i - 1] + j) - Seen(F, "]", L[i - 1] + j) =
         IF j = 18 + 2 * Len(ws[i]) THEN 1 ELSE 0

\* The depth is 0 between the streams and 1 or more inside them.
LEMMA Depths ==
  ASSUME NEW cs, NEW n, NEW objs, NEW ws, NEW F, NEW L, Laid(cs, n, objs, ws, F, L),
         Unbracketed(ws, n)
  PROVE  Level(n, F, L) /\ Deep(n, objs, ws, F, L)
<1>1. n \in Nat /\ F \in Seq(Tokens) /\ \A k \in 0 .. n : L[k] \in Nat
  BY Places DEF Laid
<1>2. PICK x1 \in Tokens, x2 \in Tokens, x3 \in Tokens, x4 \in Tokens :
        x1 = "{" /\ x2 = "}" /\ x3 = "[" /\ x4 = "]"
  BY WordsAre
<1> DEFINE B(p) == Seen(F, x1, p) - Seen(F, x2, p)
           S(p) == Seen(F, x3, p) - Seen(F, x4, p)
           G == {k \in 0 .. n : B(L[k]) = 0 /\ S(L[k]) = 0}
<1>3. 0 \in G
  <2>1. L[0] = 0
    BY DEF Laid
  <2>2. Seen(F, x1, 0) = 0 /\ Seen(F, x2, 0) = 0 /\ Seen(F, x3, 0) = 0 /\ Seen(F, x4, 0) = 0
    BY <1>1, SeenIs
  <2> QED BY <1>1, <2>1, <2>2
<1>4. ASSUME NEW i \in 1 .. n, i - 1 \in G
      PROVE  /\ \A j \in 0 .. Len(objs[i]) :
                  /\ B(L[i - 1] + j) = Braces(Len(ws[i]), j)
                  /\ S(L[i - 1] + j) = IF j = 18 + 2 * Len(ws[i]) THEN 1 ELSE 0
             /\ i \in G
  <2>1. PICK o, w, c : o = objs[i] /\ w = ws[i] /\ c = cs[i]
    OBVIOUS
  <2>2. ObjectOf(o, w, c) /\ L[i] = L[i - 1] + Len(o) /\ o \in Seq(Tokens)
    BY <2>1 DEF Laid, ObjectOf
  <2>3. PICK q \in Nat : q = Len(w)
    BY <2>2, SeqAt DEF ObjectOf
  <2>4. Len(o) = 21 + 2 * q
    BY <2>2, <2>3, ObjectCounts
  <2>5. \A j \in 0 .. 21 + 2 * q :
          /\ Seen(o, x1, j) - Seen(o, x2, j) = Braces(q, j)
          /\ Seen(o, x3, j) - Seen(o, x4, j) = IF j = 18 + 2 * q THEN 1 ELSE 0
    <3>1. \A k \in 1 .. q : w[k] \notin Brackets
      BY <2>1, <2>3 DEF Unbracketed
    <3> QED BY <1>2, <2>2, <2>3, <3>1, ObjectDepths
  <2>6. PICK l \in Nat : l = L[i - 1]
    <3>1. i - 1 \in 0 .. n
      BY <1>1
    <3> QED BY <1>1, <3>1
  <2>7. B(l) = 0 /\ S(l) = 0
    BY <1>4, <2>6
  <2>8. ASSUME NEW j \in 0 .. 21 + 2 * q
        PROVE  B(l + j) = Braces(q, j) /\ S(l + j) = IF j = 18 + 2 * q THEN 1 ELSE 0
    <3>1. ASSUME NEW x \in Tokens
          PROVE  /\ Seen(F, x, l + j) = Seen(F, x, l) + Seen(o, x, j)
                 /\ Seen(F, x, l) \in Nat /\ Seen(o, x, j) \in Nat
      <4>1. Seen(F, x, l + j) = Seen(F, x, l) + Seen(o, x, j)
        BY <2>1, <2>4, <2>6 DEF Laid
      <4>2. \A k \in Nat : Seen(F, x, k) \in Nat /\ Seen(o, x, k) \in Nat
        BY <1>1, <2>2, SeenIs
      <4> QED BY <4>1, <4>2
    <3>2. B(l + j) = B(l) + (Seen(o, x1, j) - Seen(o, x2, j))
      BY <3>1
    <3>3. S(l + j) = S(l) + (Seen(o, x3, j) - Seen(o, x4, j))
      BY <3>1
    <3>4. (Seen(o, x1, j) - Seen(o, x2, j)) \in Int /\ (Seen(o, x3, j) - Seen(o, x4, j)) \in Int
      BY <3>1
    <3> QED BY <2>5, <2>7, <3>2, <3>3, <3>4
  <2>9. \A j \in 0 .. Len(objs[i]) :
          /\ B(L[i - 1] + j) = Braces(Len(ws[i]), j)
          /\ S(L[i - 1] + j) = IF j = 18 + 2 * Len(ws[i]) THEN 1 ELSE 0
    BY <2>1, <2>3, <2>4, <2>6, <2>8
  <2>10. i \in G
    <3>1. PICK j \in 0 .. 21 + 2 * q : j = 21 + 2 * q
      OBVIOUS
    <3>2. Braces(q, j) = 0 /\ j # 18 + 2 * q
      BY <3>1 DEF Braces
    <3>3. L[i] = l + j
      BY <2>2, <2>4, <2>6, <3>1
    <3>4. B(l + j) = 0 /\ S(l + j) = 0
      BY <2>8, <3>2
    <3> QED BY <1>1, <3>3, <3>4
  <2> QED BY <2>9, <2>10
<1>5. \A k \in 0 .. n : k \in G
  <2>1. ASSUME NEW k \in 0 .. n - 1, k \in G PROVE k + 1 \in G
    <3>1. PICK i \in 1 .. n : i = k + 1 /\ i - 1 = k
      BY <1>1
    <3> HIDE DEF G
    <3>2. i \in G
      BY <1>4, <2>1, <3>1
    <3> QED BY <3>1, <3>2
  <2> HIDE DEF G
  <2> QED BY <1>1, <1>3, <2>1, UpTo
<1>6. \A i \in 1 .. n : \A j \in 0 .. Len(objs[i]) :
         /\ B(L[i - 1] + j) = Braces(Len(ws[i]), j)
         /\ S(L[i - 1] + j) = IF j = 18 + 2 * Len(ws[i]) THEN 1 ELSE 0
  <2> TAKE i \in 1 .. n
  <2>1. i - 1 \in G
    <3>1. i - 1 \in 0 .. n
      BY <1>1
    <3> HIDE DEF G
    <3> QED BY <1>5, <3>1
  <2> QED BY <1>4, <2>1
<1>7. \A k \in 0 .. n : B(L[k]) = 0 /\ S(L[k]) = 0
  BY <1>5
<1>8. Level(n, F, L)
  BY <1>2, <1>7 DEF Level
<1>9. Deep(n, objs, ws, F, L)
  BY <1>2, <1>6 DEF Deep
<1> QED BY <1>8, <1>9

\* Where the objects end.
EndsOf(t) == {i \in Where(t, "}") : Depth(t, 1, i, "{", "}") = 0}

\* The objects end where the streams end.
LEMMA EndsAre ==
  ASSUME NEW cs, NEW n, NEW objs, NEW ws, NEW F, NEW L, Laid(cs, n, objs, ws, F, L),
         Unbracketed(ws, n)
  PROVE  EndsOf(F) = {L[k] : k \in 1 .. n}
<1>1. n \in Nat /\ F \in Seq(Tokens) /\ \A k \in 0 .. n : L[k] \in Nat
  BY Places DEF Laid
<1>2. DOMAIN F = 1 .. Len(F) /\ Len(F) \in Nat
  BY <1>1, SeqAt
<1>3. ASSUME NEW i \in 1 .. n, NEW j \in 1 .. Len(objs[i])
      PROVE  L[i - 1] + j \in EndsOf(F) <=> j = Len(objs[i])
  <2>1. PICK o, w, c : o = objs[i] /\ w = ws[i] /\ c = cs[i]
    OBVIOUS
  <2>2. ObjectOf(o, w, c) /\ F[L[i - 1] + j] = o[j] /\ L[i] = L[i - 1] + Len(o)
    BY <2>1 DEF Laid
  <2>3. PICK q \in Nat : q = Len(w)
    BY <2>2, SeqAt DEF ObjectOf
  <2>4. Len(o) = 21 + 2 * q
    BY <2>2, <2>3, ObjectCounts
  <2>5. j \in 1 .. 21 + 2 * q /\ j \in 0 .. Len(objs[i])
    BY <2>1, <2>4
  <2>6. Depth(F, 1, L[i - 1] + j, "{", "}") = Braces(q, j)
    <3>1. Seen(F, "{", L[i - 1] + j) - Seen(F, "}", L[i - 1] + j) = Braces(Len(ws[i]), j)
      <4>1. Deep(n, objs, ws, F, L)
        BY Depths
      <4> QED BY <2>5, <4>1 DEF Deep
    <3>2. PICK m : m = L[i - 1] + j
      OBVIOUS
    <3>3. Depth(F, 1, m, "{", "}") = Seen(F, "{", m) - Seen(F, "}", m)
      BY DepthIsSeen
    <3> QED BY <2>1, <2>3, <3>1, <3>2, <3>3
  <2>7. Braces(q, j) = 0 <=> j = 21 + 2 * q
    BY <2>5 DEF Braces
  <2>8. o[21 + 2 * q] = "}"
    BY <2>2, <2>3 DEF ObjectOf, Object
  <2>9. L[i - 1] + j \in DOMAIN F
    <3>1. i - 1 \in 0 .. n /\ i \in 0 .. n /\ n \in 0 .. n
      BY <1>1
    <3>2. L[i] <= L[n]
      <4>1. i < n => L[i] < L[n]
        BY <3>1, Places
      <4> QED BY <1>1, <3>1, <4>1
    <3>3. L[n] = Len(F)
      BY DEF Laid
    <3> QED BY <1>1, <1>2, <2>2, <2>4, <2>5, <3>1, <3>2, <3>3
  <2> QED BY <2>1, <2>2, <2>4, <2>6, <2>7, <2>8, <2>9 DEF EndsOf, Where
<1>4. ASSUME NEW p \in EndsOf(F) PROVE p \in {L[k] : k \in 1 .. n}
  <2>1. p \in 1 .. Len(F)
    BY <1>2 DEF EndsOf, Where
  <2>2. PICK i \in 1 .. n : L[i - 1] < p /\ p <= L[i]
    BY <2>1, Places
  <2>3. i - 1 \in 0 .. n /\ i \in 0 .. n /\ L[i] = L[i - 1] + Len(objs[i]) /\ Len(objs[i]) \in Nat
    <3>1. Len(objs[i]) \in Nat
      BY Places
    <3> QED BY <1>1, <3>1 DEF Laid
  <2>4. PICK j \in 1 .. Len(objs[i]) : p = L[i - 1] + j
    <3>1. p - L[i - 1] \in 1 .. Len(objs[i]) /\ p = L[i - 1] + (p - L[i - 1])
      BY <1>1, <2>1, <2>2, <2>3
    <3> QED BY <3>1
  <2>5. j = Len(objs[i])
    BY <1>3, <2>4
  <2> QED BY <2>3, <2>4, <2>5
<1>5. ASSUME NEW k \in 1 .. n PROVE L[k] \in EndsOf(F)
  <2>1. L[k] = L[k - 1] + Len(objs[k])
    BY DEF Laid
  <2>2. PICK j \in 1 .. Len(objs[k]) : j = Len(objs[k])
    <3>1. Len(objs[k]) \in Nat /\ Len(objs[k]) >= 21
      BY Places
    <3>2. Len(objs[k]) \in 1 .. Len(objs[k])
      BY <3>1
    <3> QED BY <3>2
  <2>3. L[k - 1] + j \in EndsOf(F)
    BY <1>3, <2>2
  <2> QED BY <2>1, <2>2, <2>3
<1> QED BY <1>4, <1>5

\* The first k of growing numbers.
LEMMA FirstOf ==
  ASSUME NEW n \in Nat, NEW L \in [0 .. n -> Nat], \A i, k \in 0 .. n : i < k => L[i] < L[k]
  PROVE  \A k \in 0 .. n : /\ IsFiniteSet({L[m] : m \in 1 .. k})
                           /\ Cardinality({L[m] : m \in 1 .. k}) = k
<1> DEFINE A(k) == {L[m] : m \in 1 .. k}
           G == {k \in 0 .. n : IsFiniteSet(A(k)) /\ Cardinality(A(k)) = k}
<1>1. 0 \in G
  <2>1. A(0) = {}
    OBVIOUS
  <2>2. IsFiniteSet({}) /\ Cardinality({}) = 0 /\ 0 \in 0 .. n
    BY FS_EmptySet
  <2> QED BY <2>1, <2>2
<1>2. ASSUME NEW k \in 0 .. n - 1, k \in G PROVE k + 1 \in G
  <2>1. A(k + 1) = A(k) \cup {L[k + 1]}
    OBVIOUS
  <2>2. L[k + 1] \notin A(k)
    <3>1. ASSUME NEW m \in 1 .. k PROVE L[m] # L[k + 1]
      <4>1. m \in 0 .. n /\ k + 1 \in 0 .. n /\ m < k + 1
        OBVIOUS
      <4>2. L[m] < L[k + 1] /\ L[m] \in Nat /\ L[k + 1] \in Nat
        BY <4>1
      <4> QED BY <4>2
    <3> QED BY <3>1
  <2>3. PICK B : B = A(k)
    OBVIOUS
  <2>4. IsFiniteSet(B) /\ Cardinality(B) = k /\ L[k + 1] \notin B
    BY <1>2, <2>2, <2>3
  <2>5. IsFiniteSet(B \cup {L[k + 1]}) /\ Cardinality(B \cup {L[k + 1]}) = k + 1
    <3> HIDE DEF A, G
    <3> QED BY <2>4, FS_AddElement
  <2>6. k + 1 \in 0 .. n /\ A(k + 1) = B \cup {L[k + 1]}
    BY <2>1, <2>3
  <2>7. IsFiniteSet(A(k + 1)) /\ Cardinality(A(k + 1)) = k + 1
    <3> HIDE DEF A
    <3> QED BY <2>5, <2>6
  <2> HIDE DEF A
  <2> QED BY <2>6, <2>7
<1>3. \A k \in 0 .. n : k \in G
  <2> HIDE DEF G
  <2> QED BY <1>1, <1>2, UpTo
<1> QED BY <1>3

\* The k-th number of a set, and the one before a number of it.
KthOf(E, k) == CHOOSE x \in E : Cardinality({y \in E : y <= x}) = k
Before(E, e) == {x \in E : x < e}
LastBefore(E, e) ==
  IF Before(E, e) = {} THEN 0 ELSE CHOOSE x \in Before(E, e) : \A y \in Before(E, e) : y <= x

\* The k-th of them is the one with k up to it.
LEMMA RankOf ==
  ASSUME NEW n \in Nat, NEW L \in [0 .. n -> Nat], \A i, k \in 0 .. n : i < k => L[i] < L[k],
         NEW E, E = {L[m] : m \in 1 .. n}, NEW k \in 1 .. n,
         L[0] = 0
  PROVE  KthOf(E, k) = L[k] /\ LastBefore(E, L[k]) = L[k - 1]
<1>1. \A m \in 0 .. n : L[m] \in Nat
  OBVIOUS
<1>2. \A i, m \in 1 .. n : /\ L[i] <= L[m] <=> i <= m
                           /\ L[i] < L[m] <=> i < m
  <2> TAKE i, m \in 1 .. n
  <2>1. i \in 0 .. n /\ m \in 0 .. n
    OBVIOUS
  <2>2. /\ i < m => L[i] < L[m]
        /\ m < i => L[m] < L[i]
        /\ L[i] \in Nat /\ L[m] \in Nat
    BY <1>1, <2>1
  <2>3. CASE i < m
    BY <2>2, <2>3
  <2>4. CASE m < i
    BY <2>2, <2>4
  <2>5. CASE i = m
    BY <2>2, <2>5
  <2> QED BY <2>3, <2>4, <2>5
<1>3. \A m \in 1 .. n : {y \in E : y <= L[m]} = {L[i] : i \in 1 .. m}
  <2> TAKE m \in 1 .. n
  <2>1. ASSUME NEW y \in E, y <= L[m] PROVE y \in {L[i] : i \in 1 .. m}
    <3>1. PICK i \in 1 .. n : y = L[i]
      OBVIOUS
    <3>2. i \in 1 .. m
      BY <1>2, <2>1, <3>1
    <3> QED BY <3>1, <3>2
  <2>2. ASSUME NEW i \in 1 .. m PROVE L[i] \in E /\ L[i] <= L[m]
    BY <1>2
  <2> QED BY <2>1, <2>2
<1>4. \A m \in 1 .. n : Cardinality({y \in E : y <= L[m]}) = m
  <2> TAKE m \in 1 .. n
  <2>1. \A j \in 0 .. n : Cardinality({L[i] : i \in 1 .. j}) = j
    BY FirstOf
  <2>2. Cardinality({L[i] : i \in 1 .. m}) = m
    BY <2>1
  <2> QED BY <1>3, <2>2
<1>5. (CHOOSE x \in E : Cardinality({y \in E : y <= x}) = k) = L[k]
  <2>1. L[k] \in E /\ Cardinality({y \in E : y <= L[k]}) = k
    BY <1>4
  <2>2. ASSUME NEW x \in E, Cardinality({y \in E : y <= x}) = k PROVE x = L[k]
    <3>1. PICK m \in 1 .. n : x = L[m]
      OBVIOUS
    <3> QED BY <1>4, <2>2, <3>1
  <2> QED BY <2>1, <2>2
<1>6. ASSUME k = 1 PROVE Before(E, L[k]) = {}
  <2>1. ASSUME NEW x \in E, x < L[k] PROVE FALSE
    <3>1. PICK m \in 1 .. n : x = L[m]
      OBVIOUS
    <3>2. m < k
      BY <1>2, <2>1, <3>1
    <3> QED BY <1>6, <3>2
  <2> QED BY <2>1 DEF Before
<1>7. ASSUME k # 1
      PROVE  /\ Before(E, L[k]) # {}
             /\ (CHOOSE x \in Before(E, L[k]) : \A y \in Before(E, L[k]) : y <= x) = L[k - 1]
  <2> DEFINE before == {x \in E : x < L[k]}
  <2>0. Before(E, L[k]) = before
    BY DEF Before
  <2>1. k - 1 \in 1 .. n /\ k - 1 < k
    BY <1>7
  <2>2. L[k - 1] \in before
    BY <1>2, <2>1
  <2>3. ASSUME NEW y \in before PROVE y <= L[k - 1]
    <3>1. PICK m \in 1 .. n : y = L[m]
      OBVIOUS
    <3>2. m < k
      BY <1>2, <3>1
    <3>3. m <= k - 1
      BY <3>2
    <3> QED BY <1>2, <2>1, <3>1, <3>3
  <2>4. before \subseteq Nat
    BY <1>1
  <2>5. ASSUME NEW x \in before, \A y \in before : y <= x PROVE x = L[k - 1]
    <3>1. x <= L[k - 1] /\ L[k - 1] <= x
      BY <2>2, <2>3, <2>5
    <3>2. x \in Nat /\ L[k - 1] \in Nat
      BY <2>2, <2>4
    <3> QED BY <3>1, <3>2
  <2>6. (CHOOSE x \in before : \A y \in before : y <= x) = L[k - 1]
    <3> HIDE DEF before
    <3> QED BY <2>2, <2>3, <2>5
  <2> HIDE DEF before
  <2> QED BY <2>0, <2>2, <2>6
<1>8. KthOf(E, k) = L[k]
  BY <1>5 DEF KthOf
<1>9. LastBefore(E, L[k]) = L[k - 1]
  <2>1. CASE k = 1
    <3>1. k - 1 = 0
      BY <2>1
    <3> QED BY <1>6, <2>1, <3>1 DEF LastBefore
  <2>2. CASE k # 1
    BY <1>7, <2>2 DEF LastBefore
  <2> QED BY <2>1, <2>2
<1> QED BY <1>8, <1>9

\* StreamObjects, with its parts named.
LEMMA StreamObjectsAre ==
  ASSUME NEW t
  PROVE  StreamObjects(t) =
           [k \in 1 .. Cardinality(EndsOf(t)) |->
              SubSeq(t, LastBefore(EndsOf(t), KthOf(EndsOf(t), k)) + 1, KthOf(EndsOf(t), k))]
BY DEF StreamObjects, EndsOf, LastBefore, Before, KthOf

\* The streams array is taken apart as it was put together.
LEMMA ObjectsAre ==
  ASSUME NEW cs, NEW n, NEW objs, NEW ws, NEW F, NEW L, Laid(cs, n, objs, ws, F, L),
         Unbracketed(ws, n), objs = ObjectTexts(cs)
  PROVE  StreamObjects(F) = objs
<1>1. n \in Nat /\ F \in Seq(Tokens) /\ L \in [0 .. n -> Nat] /\ L[0] = 0 /\ L[n] = Len(F)
  BY Places DEF Laid
<1>2. \A i, k \in 0 .. n : i < k => L[i] < L[k]
  BY Places
<1>3. PICK E : E = EndsOf(F)
  OBVIOUS
<1>4. E = {L[k] : k \in 1 .. n}
  BY <1>3, EndsAre
<1>5. Cardinality(E) = n
  <2>1. \A k \in 0 .. n : Cardinality({L[m] : m \in 1 .. k}) = k
    BY <1>1, <1>2, FirstOf
  <2> QED BY <1>1, <1>4, <2>1
<1>6. \A k \in 1 .. n : KthOf(E, k) = L[k] /\ LastBefore(E, L[k]) = L[k - 1]
  BY <1>1, <1>2, <1>4, RankOf
<1>8. \A k \in 1 .. n : SubSeq(F, L[k - 1] + 1, L[k]) = objs[k]
  <2> TAKE k \in 1 .. n
  <2>1. PICK o \in Seq(Tokens) : o = objs[k]
    BY DEF Laid, ObjectOf
  <2>2. PICK a \in Nat, b \in Nat, l \in Nat : a = L[k - 1] /\ b = L[k] /\ l = Len(o)
    <3>1. k - 1 \in 0 .. n /\ k \in 0 .. n
      BY <1>1
    <3>2. L[k - 1] \in Nat /\ L[k] \in Nat
      BY <1>1, <3>1
    <3> QED BY <3>2, SeqAt
  <2>3. b = a + l /\ (\A j \in 1 .. l : F[a + j] = o[j])
    BY <2>1, <2>2 DEF Laid
  <2>4. b <= Len(F) /\ l >= 21
    <3>1. k \in 0 .. n /\ n \in 0 .. n
      BY <1>1
    <3>2. k < n => L[k] < L[n]
      BY <1>2, <3>1
    <3>3. l >= 21
      BY <2>1, <2>2, Places
    <3> QED BY <1>1, <2>2, <3>1, <3>2, <3>3
  <2>5. PICK v : v = SubSeq(F, a + 1, b)
    OBVIOUS
  <2>6. v \in Seq(Tokens) /\ Len(v) = l /\ \A j \in 1 .. l : v[j] = F[a + j]
    <3>1. PICK x \in 1 .. Len(F) + 1, y \in 0 .. Len(F) : x = a + 1 /\ y = b
      <4>1. Len(F) \in Nat
        BY <1>1, SeqAt
      <4>2. a + 1 \in 1 .. Len(F) + 1 /\ b \in 0 .. Len(F)
        BY <2>3, <2>4, <4>1
      <4> QED BY <4>2
    <3>2. /\ SubSeq(F, x, y) \in Seq(Tokens)
          /\ Len(SubSeq(F, x, y)) = IF x <= y THEN y - x + 1 ELSE 0
          /\ \A i \in 1 .. y - x + 1 : SubSeq(F, x, y)[i] = F[x + i - 1]
      BY <1>1, PartIs
    <3>3. y - x + 1 = l /\ x <= y /\ \A j \in 1 .. l : x + j - 1 = a + j
      BY <2>3, <2>4, <3>1
    <3> QED BY <2>5, <3>1, <3>2, <3>3
  <2>7. v = o
    BY <2>2, <2>3, <2>6, SeqEqual
  <2> QED BY <2>1, <2>2, <2>5, <2>7
<1>9. StreamObjects(F) =
        [k \in 1 .. Cardinality(E) |-> SubSeq(F, LastBefore(E, KthOf(E, k)) + 1, KthOf(E, k))]
  BY <1>3, StreamObjectsAre
<1>10. StreamObjects(F) = [k \in 1 .. n |-> objs[k]]
  BY <1>5, <1>6, <1>8, <1>9
<1>11. objs = [k \in 1 .. n |-> objs[k]]
  <2>1. DOMAIN cs = 1 .. n
    BY SeqAt DEF Laid
  <2> QED BY <2>1 DEF ObjectTexts
<1> QED BY <1>10, <1>11

-----------------------------------------------------------------------------
(* The file                                                                 *)

\* T is the file of the streams laid out in F, m tokens.
FileOf(T, F, m) ==
  /\ T \in Seq(Tokens) /\ F \in Seq(Tokens) /\ m = Len(F) /\ Len(T) = m + 5
  /\ T[1] = "{" /\ T[2] = "streams" /\ T[3] = "["
  /\ \A p \in 1 .. m : T[3 + p] = F[p]
  /\ T[m + 4] = "]" /\ T[m + 5] = "}"
  /\ \A x \in Tokens, p \in 0 .. m : Seen(T, x, 3 + p) = Seen(T, x, 3) + Seen(F, x, p)

\* Three tokens.
LEMMA HeadIs ==
  ASSUME NEW a \in Tokens, NEW b \in Tokens, NEW c \in Tokens
  PROVE  LET s == <<a, b, c>>
         IN  s \in Seq(Tokens) /\ Len(s) = 3 /\ s[1] = a /\ s[2] = b /\ s[3] = c
OBVIOUS

\* Two tokens.
LEMMA TailIs ==
  ASSUME NEW a \in Tokens, NEW b \in Tokens
  PROVE  LET s == <<a, b>>
         IN  s \in Seq(Tokens) /\ Len(s) = 2 /\ s[1] = a /\ s[2] = b
OBVIOUS

\* toJSON writes a head, the streams and a tail.
LEMMA FileIs ==
  ASSUME NEW cs, NEW F \in Seq(Tokens), F = FlattenSeq(ObjectTexts(cs)), NEW m, m = Len(F)
  PROVE  FileOf(ToJSON(cs), F, m)
<1>1. m \in Nat
  BY SeqAt
<1>2. PICK h : h = <<"{", "streams", "[">>
  OBVIOUS
<1>3. h \in Seq(Tokens) /\ Len(h) = 3 /\ h[1] = "{" /\ h[2] = "streams" /\ h[3] = "["
  <2>1. PICK x1 \in Tokens, x2 \in Tokens, x3 \in Tokens : x1 = "{" /\ x2 = "streams" /\ x3 = "["
    BY WordsAre
  <2>2. h = <<x1, x2, x3>>
    BY <1>2, <2>1
  <2>3. h \in Seq(Tokens) /\ Len(h) = 3 /\ h[1] = x1 /\ h[2] = x2 /\ h[3] = x3
    BY <2>2, HeadIs
  <2> QED BY <2>1, <2>3
<1>4. PICK r : r = <<"]", "}">>
  OBVIOUS
<1>5. r \in Seq(Tokens) /\ Len(r) = 2 /\ r[1] = "]" /\ r[2] = "}"
  <2>1. PICK x1 \in Tokens, x2 \in Tokens : x1 = "]" /\ x2 = "}"
    BY WordsAre
  <2>2. r = <<x1, x2>>
    BY <1>4, <2>1
  <2>3. r \in Seq(Tokens) /\ Len(r) = 2 /\ r[1] = x1 /\ r[2] = x2
    BY <2>2, TailIs
  <2> QED BY <2>1, <2>3
<1>6. PICK u : u = h \o F
  OBVIOUS
<1>7. PICK three \in Nat, two \in Nat, lu \in Nat : three = 3 /\ two = 2 /\ lu = 3 + m
  BY <1>1
<1>8. /\ u \in Seq(Tokens) /\ Len(u) = three + m
      /\ \A i \in 1 .. three : u[i] = h[i]
      /\ \A i \in 1 .. m : u[three + i] = F[i]
  <2>1. three = Len(h)
    BY <1>3, <1>7
  <2>2. h \in Seq(Tokens)
    BY <1>3
  <2> QED BY <1>1, <1>6, <2>1, <2>2, JoinAt
<1>9. PICK T : T = u \o r
  OBVIOUS
<1>10. /\ T \in Seq(Tokens) /\ Len(T) = lu + two
       /\ \A i \in 1 .. lu : T[i] = u[i]
       /\ \A i \in 1 .. two : T[lu + i] = r[i]
  <2>1. lu = Len(u) /\ two = Len(r)
    BY <1>5, <1>7, <1>8
  <2>2. u \in Seq(Tokens) /\ r \in Seq(Tokens)
    BY <1>5, <1>8
  <2> QED BY <1>9, <2>1, <2>2, JoinAt
<1>11. T = ToJSON(cs)
  BY <1>2, <1>4, <1>6, <1>9 DEF ToJSON, ObjectTexts
<1>12. Len(T) = m + 5 /\ T[1] = "{" /\ T[2] = "streams" /\ T[3] = "["
  <2>1. /\ 1 \in 1 .. lu /\ 2 \in 1 .. lu /\ 3 \in 1 .. lu
        /\ 1 \in 1 .. three /\ 2 \in 1 .. three /\ 3 \in 1 .. three
    BY <1>1, <1>7
  <2>2. T[1] = u[1] /\ T[2] = u[2] /\ T[3] = u[3] /\ u[1] = h[1] /\ u[2] = h[2] /\ u[3] = h[3]
    BY <1>8, <1>10, <2>1
  <2>3. Len(T) = m + 5
    BY <1>1, <1>7, <1>10
  <2> QED BY <1>3, <2>2, <2>3
<1>13. \A p \in 1 .. m : T[3 + p] = F[p]
  <2> TAKE p \in 1 .. m
  <2>1. PICK k \in Int : k = 3 + p
    BY <1>1
  <2>2. k \in 1 .. lu /\ k = three + p
    BY <1>1, <1>7, <2>1
  <2> QED BY <1>8, <1>10, <2>1, <2>2
<1>14. T[m + 4] = "]" /\ T[m + 5] = "}"
  <2>1. 1 \in 1 .. two /\ 2 \in 1 .. two /\ lu + 1 = m + 4 /\ lu + 2 = m + 5
    BY <1>1, <1>7
  <2>2. T[lu + 1] = r[1] /\ T[lu + 2] = r[2]
    BY <1>10, <2>1
  <2> QED BY <1>5, <2>1, <2>2
<1>15. ASSUME NEW x \in Tokens, NEW p \in 0 .. m
       PROVE  Seen(T, x, 3 + p) = Seen(T, x, 3) + Seen(F, x, p)
  <2>1. \A k \in 0 .. Len(u) : Seen(u \o r, x, k) = Seen(u, x, k)
    BY <1>5, <1>8, SeenJoined
  <2>2. \A k \in 0 .. Len(F) : Seen(h \o F, x, Len(h) + k) = Seen(h, x, Len(h)) + Seen(F, x, k)
    BY <1>3, SeenJoined
  <2>3. Seen(F, x, 0) = 0 /\ Seen(h, x, 3) \in Nat
    BY <1>3, SeenIs
  <2>4. PICK a \in Int, b \in Int : a = 3 + p /\ b = 3
    BY <1>1
  <2>5. a \in 0 .. Len(u) /\ b \in 0 .. Len(u)
    BY <1>1, <1>7, <1>8, <2>4
  <2>6. Seen(T, x, a) = Seen(u, x, a) /\ Seen(T, x, b) = Seen(u, x, b)
    BY <1>9, <2>1, <2>5
  <2>7. \A k \in 0 .. m : Seen(u, x, 3 + k) = Seen(h, x, 3) + Seen(F, x, k)
    BY <1>3, <1>6, <2>2
  <2>8. /\ Seen(u, x, 3 + p) = Seen(h, x, 3) + Seen(F, x, p)
        /\ Seen(u, x, 3 + 0) = Seen(h, x, 3) + Seen(F, x, 0)
    BY <1>1, <2>7
  <2>9. Seen(u, x, b) = Seen(h, x, 3)
    <3>1. 3 + 0 = b
      BY <2>4
    <3> QED BY <2>3, <2>8, <3>1
  <2> QED BY <2>4, <2>6, <2>8, <2>9
<1> QED BY <1>10, <1>11, <1>12, <1>13, <1>14, <1>15 DEF FileOf

\* v is the file, or what a crash left of it.
PartOf(v, T) ==
  v \in Seq(Tokens) /\ Len(v) <= Len(T) /\ \A i \in 1 .. Len(v) : v[i] = T[i]

\* What is read of it lies between the first bracket and another.
LEMMA ContentIs ==
  ASSUME NEW T, NEW F, NEW m, FileOf(T, F, m), NEW v, PartOf(v, T),
         NEW ends, ends = {i \in Where(v, "]") : i > 3 /\ Depth(v, 3, i, "[", "]") = 0}
  PROVE  StreamsContent(v) =
           IF Len(v) < 3 \/ ends = {} THEN <<FALSE, <<>>>>
           ELSE <<TRUE, SubSeq(v, 4, First(ends) - 1)>>
<1>1. m \in Nat /\ Len(v) \in Nat /\ DOMAIN v = 1 .. Len(v)
  BY SeqAt DEF FileOf, PartOf
<1>2. /\ Len(v) >= 1 => v[1] = "{"
      /\ Len(v) >= 2 => v[2] = "streams"
      /\ Len(v) >= 3 => v[3] = "["
  <2>1. T[1] = "{" /\ T[2] = "streams" /\ T[3] = "[" /\ \A i \in 1 .. Len(v) : v[i] = T[i]
    BY DEF FileOf, PartOf
  <2>2. /\ Len(v) >= 1 => 1 \in 1 .. Len(v)
        /\ Len(v) >= 2 => 2 \in 1 .. Len(v)
        /\ Len(v) >= 3 => 3 \in 1 .. Len(v)
    BY <1>1
  <2> QED BY <2>1, <2>2
<1> DEFINE keys == Where(v, "streams")
           starts == {i \in Where(v, "[") : keys # {} /\ i > First(keys)}
<1>3. CASE Len(v) < 3
  <2>1. Where(v, "[") = {}
    <3>1. ASSUME NEW i \in DOMAIN v, v[i] = "[" PROVE FALSE
      <4>1. i = 1 \/ i = 2
        BY <1>1, <1>3
      <4>2. CASE i = 1
        <5>1. Len(v) >= 1
          BY <1>1, <3>1, <4>2
        <5>2. v[1] = "{"
          BY <1>2, <5>1
        <5> QED BY <3>1, <4>2, <5>2
      <4>3. CASE i = 2
        <5>1. Len(v) >= 2
          BY <1>1, <3>1, <4>3
        <5>2. v[2] = "streams"
          BY <1>2, <5>1
        <5> QED BY <3>1, <4>3, <5>2
      <4> QED BY <4>1, <4>2, <4>3
    <3> QED BY <3>1 DEF Where
  <2>2. starts = {}
    BY <2>1
  <2> QED BY <1>3, <2>2 DEF StreamsContent
<1>4. CASE Len(v) >= 3
  <2>1. 1 \in DOMAIN v /\ 2 \in DOMAIN v /\ 3 \in DOMAIN v
    BY <1>1, <1>4
  <2>2. v[1] = "{" /\ v[2] = "streams" /\ v[3] = "["
    <3>1. Len(v) >= 1 /\ Len(v) >= 2
      BY <1>1, <1>4
    <3> QED BY <1>2, <1>4, <3>1
  <2>3. First(keys) = 2 /\ keys # {}
    <3>1. 2 \in keys /\ keys \subseteq 1 .. Len(v) /\ 1 \notin keys
      BY <1>1, <2>1, <2>2 DEF Where
    <3> HIDE DEF keys
    <3>2. \A j \in keys : 2 <= j
      BY <3>1
    <3>3. \A i \in keys : (\A j \in keys : i <= j) => i = 2
      BY <3>1, <3>2
    <3> QED BY <3>1, <3>2, <3>3 DEF First
  <2>4. First(starts) = 3 /\ starts # {}
    <3>1. 3 \in starts
      <4>1. 3 > First(keys)
        BY <2>3
      <4>2. 3 \in Where(v, "[")
        BY <2>1, <2>2 DEF Where
      <4> HIDE DEF keys
      <4> QED BY <2>3, <4>1, <4>2
    <3>2. starts \subseteq 1 .. Len(v) /\ \A i \in starts : i > 2
      BY <1>1, <2>3 DEF Where
    <3> HIDE DEF starts
    <3>3. \A j \in starts : 3 <= j
      BY <3>2
    <3>4. \A i \in starts : (\A j \in starts : i <= j) => i = 3
      BY <3>1, <3>2, <3>3
    <3> QED BY <3>1, <3>3, <3>4 DEF First
  <2>5. StreamsContent(v) =
          IF starts = {} THEN <<FALSE, <<>>>>
          ELSE LET from == First(starts)
                   es == {i \in Where(v, "]") : i > from /\ Depth(v, from, i, "[", "]") = 0}
               IN  IF es = {} THEN <<FALSE, <<>>>>
                   ELSE <<TRUE, SubSeq(v, from + 1, First(es) - 1)>>
    BY DEF StreamsContent
  <2> HIDE DEF starts
  <2> QED BY <1>4, <2>4, <2>5
<1>5. Len(v) < 3 \/ Len(v) >= 3
  BY <1>1
<1> QED BY <1>3, <1>4, <1>5

\* The array is read whole or not at all, when no name holds a bracket.
LEMMA ContentWhole ==
  ASSUME NEW cs, NEW n, NEW objs, NEW ws, NEW F, NEW L, Laid(cs, n, objs, ws, F, L),
         Unbracketed(ws, n), NEW T, NEW m, FileOf(T, F, m), NEW v, PartOf(v, T)
  PROVE  StreamsContent(v) = IF Len(v) < m + 4 THEN <<FALSE, <<>>>> ELSE <<TRUE, F>>
<1>1. /\ m \in Nat /\ Len(v) \in Nat /\ DOMAIN v = 1 .. Len(v) /\ Len(T) = m + 5
      /\ T \in Seq(Tokens) /\ F \in Seq(Tokens) /\ v \in Seq(Tokens) /\ m = Len(F) /\ Len(v) <= m + 5
  BY SeqAt DEF FileOf, PartOf
<1>2. PICK x3 \in Tokens, x4 \in Tokens : x3 = "[" /\ x4 = "]"
  BY WordsAre
<1>3. \A i \in 1 .. Len(v) : v[i] = T[i]
  BY DEF PartOf
<1>4. /\ T[1] # x3 /\ T[2] # x3 /\ T[3] = x3 /\ T[1] # x4 /\ T[2] # x4 /\ T[3] # x4
      /\ T[m + 4] = x4 /\ T[m + 5] # x4
  <2>1. T[1] = "{" /\ T[2] = "streams" /\ T[3] = "[" /\ T[m + 4] = "]" /\ T[m + 5] = "}"
    BY DEF FileOf
  <2> QED BY <1>2, <2>1
<1>5. Seen(T, x3, 3) = 1 /\ Seen(T, x4, 3) = 0
  <2>1. ASSUME NEW x \in Tokens
        PROVE  /\ Seen(T, x, 0) = 0
               /\ Seen(T, x, 1) = Seen(T, x, 0) + IF T[1] = x THEN 1 ELSE 0
               /\ Seen(T, x, 2) = Seen(T, x, 1) + IF T[2] = x THEN 1 ELSE 0
               /\ Seen(T, x, 3) = Seen(T, x, 2) + IF T[3] = x THEN 1 ELSE 0
    <3>1. /\ Seen(T, x, 0) = 0
          /\ \A i \in 0 .. Len(T) - 1 : Seen(T, x, i + 1) = Seen(T, x, i) + IF T[i + 1] = x THEN 1 ELSE 0
      BY <1>1, SeenIs
    <3>2. 0 \in 0 .. Len(T) - 1 /\ 1 \in 0 .. Len(T) - 1 /\ 2 \in 0 .. Len(T) - 1
      BY <1>1
    <3>3. /\ Seen(T, x, 0 + 1) = Seen(T, x, 0) + IF T[0 + 1] = x THEN 1 ELSE 0
          /\ Seen(T, x, 1 + 1) = Seen(T, x, 1) + IF T[1 + 1] = x THEN 1 ELSE 0
          /\ Seen(T, x, 2 + 1) = Seen(T, x, 2) + IF T[2 + 1] = x THEN 1 ELSE 0
      BY <3>1, <3>2
    <3>4. 0 + 1 = 1 /\ 1 + 1 = 2 /\ 2 + 1 = 3
      OBVIOUS
    <3> QED BY <3>1, <3>3, <3>4
  <2> QED BY <1>4, <2>1
\* The depth of a token of the array.
<1>6. ASSUME NEW p \in 0 .. m
      PROVE  Seen(T, x3, 3 + p) - Seen(T, x4, 3 + p) >= 1 /\
             (p = m => Seen(T, x3, 3 + p) - Seen(T, x4, 3 + p) = 1)
  <2>1. /\ Seen(T, x3, 3 + p) = 1 + Seen(F, x3, p) /\ Seen(T, x4, 3 + p) = Seen(F, x4, p)
        /\ Seen(F, x3, p) \in Nat /\ Seen(F, x4, p) \in Nat
    <3>1. \A x \in Tokens : Seen(T, x, 3 + p) = Seen(T, x, 3) + Seen(F, x, p)
      BY DEF FileOf
    <3>2. \A x \in Tokens : Seen(F, x, p) \in Nat
      BY <1>1, SeenIs
    <3> QED BY <1>5, <3>1, <3>2
  <2>2. Level(n, F, L) /\ Deep(n, objs, ws, F, L) /\ n \in Nat
    BY Depths, Places
  <2>3. ASSUME p = m PROVE Seen(F, x3, p) - Seen(F, x4, p) = 0
    <3>1. L[n] = p /\ n \in 0 .. n
      BY <1>1, <2>2, <2>3 DEF Laid
    <3>2. Seen(F, "[", L[n]) - Seen(F, "]", L[n]) = 0
      BY <2>2, <3>1 DEF Level
    <3> QED BY <1>2, <3>1, <3>2
  <2>4. Seen(F, x3, p) - Seen(F, x4, p) >= 0
    <3>1. CASE p = 0
      BY <1>1, <3>1, SeenIs
    <3>2. CASE p # 0
      <4>1. p \in 1 .. Len(F)
        BY <1>1, <3>2
      <4>2. PICK i \in 1 .. n : L[i - 1] < p /\ p <= L[i]
        BY <4>1, Places
      <4>3. /\ L[i] = L[i - 1] + Len(objs[i]) /\ L[i - 1] \in Nat /\ Len(objs[i]) \in Nat
        <5>1. Len(objs[i]) \in Nat
          BY Places
        <5>2. i - 1 \in 0 .. n
          BY <2>2
        <5> QED BY <5>1, <5>2 DEF Laid
      <4>4. PICK j \in 0 .. Len(objs[i]) : p = L[i - 1] + j
        <5>1. p - L[i - 1] \in 0 .. Len(objs[i]) /\ p = L[i - 1] + (p - L[i - 1])
          BY <4>1, <4>2, <4>3
        <5> QED BY <5>1
      <4>5. Seen(F, "[", p) - Seen(F, "]", p) = IF j = 18 + 2 * Len(ws[i]) THEN 1 ELSE 0
        BY <2>2, <4>4 DEF Deep
      <4> QED BY <1>2, <4>5
    <3> QED BY <3>1, <3>2
  <2> QED BY <2>1, <2>3, <2>4
<1>7. Seen(T, x3, m + 4) - Seen(T, x4, m + 4) = 0
  <2>1. \A x \in Tokens :
          /\ Seen(T, x, (m + 3) + 1) = Seen(T, x, m + 3) + IF T[(m + 3) + 1] = x THEN 1 ELSE 0
          /\ Seen(T, x, m + 3) \in Nat
    <3>1. m + 3 \in 0 .. Len(T) - 1 /\ m + 3 \in Nat
      BY <1>1
    <3> QED BY <1>1, <3>1, SeenIs
  <2>2. (m + 3) + 1 = m + 4 /\ 3 + m = m + 3 /\ m \in 0 .. m
    BY <1>1
  <2>3. Seen(T, x3, m + 3) - Seen(T, x4, m + 3) = 1
    BY <1>6, <2>2
  <2>4. T[m + 4] = x4 /\ T[m + 4] # x3
    BY <1>2, <1>4
  <2> QED BY <2>1, <2>2, <2>3, <2>4
<1>8. ASSUME NEW i \in 3 .. Len(v)
      PROVE  Depth(v, 3, i, "[", "]") = Seen(T, x3, i) - Seen(T, x4, i)
  <2>1. ASSUME NEW x \in {x3, x4}
        PROVE  Cardinality({k \in Where(v, x) : 3 <= k /\ k <= i}) = Seen(T, x, i)
    <3>1. {k \in Where(v, x) : 3 <= k /\ k <= i} = UntilNow(v, x, i)
      <4>1. \A k \in Where(v, x) : k \in 1 .. Len(v) /\ k # 1 /\ k # 2
        <5> TAKE k \in Where(v, x)
        <5>1. k \in 1 .. Len(v) /\ v[k] = x /\ v[k] = T[k]
          BY <1>1, <1>3 DEF Where
        <5> QED BY <1>4, <5>1
      <4>2. \A k \in Where(v, x) : 3 <= k /\ 1 <= k
        BY <1>1, <4>1
      <4> QED BY <4>2 DEF UntilNow
    <3>2. Seen(v, x, i) = Seen(T, x, i)
      <4>1. i \in 0 .. Len(v) /\ i <= Len(T) /\ \A k \in 1 .. i : v[k] = T[k]
        BY <1>1, <1>3
      <4>2. x \in Tokens /\ v \in Seq(Tokens) /\ T \in Seq(Tokens)
        BY <1>1
      <4> QED BY <4>1, <4>2, SeenAgrees
    <3> QED BY <3>1, <3>2 DEF Seen
  <2> QED BY <1>2, <2>1 DEF Depth
<1> DEFINE ends == {i \in Where(v, "]") : i > 3 /\ Depth(v, 3, i, "[", "]") = 0}
<1>9. ASSUME NEW i \in ends PROVE i = m + 4
  <2>1. i \in 1 .. Len(v) /\ v[i] = x4 /\ i > 3 /\ Depth(v, 3, i, "[", "]") = 0
    BY <1>1, <1>2 DEF Where
  <2>2. i \in 3 .. Len(v)
    BY <1>1, <2>1
  <2>3. Seen(T, x3, i) - Seen(T, x4, i) = 0
    BY <1>8, <2>1, <2>2
  <2>4. CASE i <= m + 3
    <3>1. PICK p \in 0 .. m : i = 3 + p
      <4>1. i - 3 \in 0 .. m /\ i = 3 + (i - 3)
        BY <1>1, <2>1, <2>4
      <4> QED BY <4>1
    <3> QED BY <1>6, <2>3, <3>1
  <2>5. CASE i = m + 5
    <3>1. v[i] = T[i]
      BY <1>3, <2>1
    <3> QED BY <1>4, <2>1, <2>5, <3>1
  <2> QED BY <1>1, <2>1, <2>4, <2>5
<1>10. CASE Len(v) < m + 4
  <2>1. ends = {}
    <3>1. \A i \in ends : i <= Len(v)
      BY <1>1 DEF Where
    <3> HIDE DEF ends
    <3> QED BY <1>1, <1>9, <1>10, <3>1
  <2> HIDE DEF ends
  <2>2. StreamsContent(v) = IF Len(v) < 3 \/ ends = {} THEN <<FALSE, <<>>>>
                            ELSE <<TRUE, SubSeq(v, 4, First(ends) - 1)>>
    BY ContentIs DEF ends
  <2> QED BY <1>10, <2>1, <2>2
<1>11. CASE Len(v) >= m + 4
  <2>1. m + 4 \in ends
    <3>1. PICK i \in 3 .. Len(v) : i = m + 4
      <4>1. m + 4 \in 3 .. Len(v)
        BY <1>1, <1>11
      <4> QED BY <4>1
    <3>2. i \in DOMAIN v /\ i > 3
      BY <1>1, <3>1
    <3>3. v[i] = "]"
      BY <1>1, <1>2, <1>3, <1>4, <3>1, <3>2
    <3>4. Depth(v, 3, i, "[", "]") = 0
      BY <1>7, <1>8, <3>1
    <3> QED BY <3>1, <3>2, <3>3, <3>4 DEF Where
  <2> HIDE DEF ends
  <2>2. First(ends) = m + 4
    <3>1. \A i \in ends : (\A j \in ends : i <= j) => i = m + 4
      BY <1>9
    <3>2. \A j \in ends : m + 4 <= j
      BY <1>1, <1>9
    <3> QED BY <2>1, <3>1, <3>2 DEF First
  <2>3. StreamsContent(v) = IF Len(v) < 3 \/ ends = {} THEN <<FALSE, <<>>>>
                            ELSE <<TRUE, SubSeq(v, 4, First(ends) - 1)>>
    BY ContentIs DEF ends
  <2>4. StreamsContent(v) = <<TRUE, SubSeq(v, 4, m + 3)>>
    <3>1. ~(Len(v) < 3) /\ (m + 4) - 1 = m + 3
      BY <1>1, <1>11
    <3> QED BY <2>1, <2>2, <2>3, <3>1
  <2>5. SubSeq(v, 4, m + 3) = F
    <3>1. PICK a \in 1 .. Len(v) + 1, b \in 0 .. Len(v) : a = 4 /\ b = m + 3
      <4>1. 4 \in 1 .. Len(v) + 1 /\ m + 3 \in 0 .. Len(v)
        BY <1>1, <1>11
      <4> QED BY <4>1
    <3>2. PICK s : s = SubSeq(v, a, b)
      OBVIOUS
    <3>3. s \in Seq(Tokens) /\ Len(s) = m /\ \A i \in 1 .. m : s[i] = v[a + i - 1]
      <4>1. /\ SubSeq(v, a, b) \in Seq(Tokens)
            /\ Len(SubSeq(v, a, b)) = IF a <= b THEN b - a + 1 ELSE 0
            /\ \A i \in 1 .. b - a + 1 : SubSeq(v, a, b)[i] = v[a + i - 1]
        BY <1>1, PartIs
      <4>2. b - a + 1 = m
        BY <1>1, <3>1
      <4>3. (IF a <= b THEN b - a + 1 ELSE 0) = m
        BY <1>1, <3>1
      <4> QED BY <3>2, <4>1, <4>2, <4>3
    <3>4. \A i \in 1 .. m : v[a + i - 1] = F[i]
      <4> TAKE i \in 1 .. m
      <4>1. PICK k \in 1 .. Len(v) : k = 3 + i
        <5>1. 3 + i \in 1 .. Len(v)
          BY <1>1, <1>11
        <5> QED BY <5>1
      <4>2. a + i - 1 = k
        BY <1>1, <3>1, <4>1
      <4>3. T[3 + i] = F[i]
        BY DEF FileOf
      <4> QED BY <1>3, <4>1, <4>2, <4>3
    <3>5. s = F
      BY <1>1, <3>3, <3>4, SeqEqual
    <3> QED BY <3>1, <3>2, <3>5
  <2>6. ~(Len(v) < m + 4)
    BY <1>1, <1>11
  <2> QED BY <2>4, <2>5, <2>6
<1>12. Len(v) < m + 4 \/ Len(v) >= m + 4
  BY <1>1
<1> QED BY <1>10, <1>11, <1>12

-----------------------------------------------------------------------------
(* Reading one object                                                       *)

\* The least number of a set is its first.
LEMMA FirstIs ==
  ASSUME NEW S \in SUBSET Nat, NEW m \in S, \A j \in S : m <= j
  PROVE  First(S) = m
<1>1. \A i \in S : (\A j \in S : i <= j) => i = m
  <2> TAKE i \in S
  <2> HAVE \A j \in S : i <= j
  <2>1. i <= m /\ m <= i /\ i \in Nat /\ m \in Nat
    OBVIOUS
  <2> QED BY <2>1
<1> QED BY <1>1 DEF First

\* A set of numbers has a first.
LEMMA FirstExists ==
  ASSUME NEW S \in SUBSET Nat, S # {}
  PROVE  First(S) \in S /\ \A j \in S : First(S) <= j
<1>1. PICK m \in S : \A k \in S : m <= k
  BY LeastNumber
<1>2. First(S) = m
  BY <1>1, FirstIs
<1> QED BY <1>1, <1>2

\* A token that is in a text once, and the first brace after a token.
OnlyAt(t, n, x, i) == \A j \in 1 .. n : t[j] = x <=> j = i
ClosedAt(t, n, a, b) == a < b /\ t[b] = "}" /\ \A j \in 1 .. n : t[j] = "}" /\ j > a => b <= j

\* A token that is there once is found where it is.
LEMMA OnlyOne ==
  ASSUME NEW t \in Seq(Tokens), NEW n \in Nat, n = Len(t), NEW x \in Tokens, NEW i \in 1 .. n,
         OnlyAt(t, n, x, i)
  PROVE  Where(t, x) = {i} /\ First(Where(t, x)) = i /\ Has(t, x)
<1>1. DOMAIN t = 1 .. n
  BY SeqAt
<1>2. Where(t, x) = {i}
  BY <1>1 DEF Where, OnlyAt
<1>3. First({i}) = i
  <2>1. i \in {i} /\ {i} \in SUBSET Nat
    OBVIOUS
  <2> QED BY <2>1, FirstIs
<1> QED BY <1>2, <1>3 DEF Has

\* The part of a text that a nested object is.
PartAt(s, t, a, l) ==
  s \in Seq(Tokens) /\ Len(s) = l /\ \A j \in 1 .. l : s[j] = t[a + j - 1]

\* A nested object reaches from its key to the first brace that closes.
LEMMA NestedIs ==
  ASSUME NEW t \in Seq(Tokens), NEW n \in Nat, n = Len(t), NEW x \in Tokens,
         NEW a \in 1 .. n, NEW b \in 1 .. n, OnlyAt(t, n, x, a), ClosedAt(t, n, a, b),
         NEW s, s = Nested(t, x)
  PROVE  PartAt(s, t, a, b - a)
<1>1. DOMAIN t = 1 .. n
  BY SeqAt
<1>2. First(Where(t, x)) = a /\ Where(t, x) # {}
  <2>1. Where(t, x) = {a} /\ First(Where(t, x)) = a /\ Has(t, x)
    BY OnlyOne
  <2> QED BY <2>1
<1> DEFINE ends == {i \in Where(t, "}") : Where(t, x) # {} /\ i > First(Where(t, x))}
<1>3. ends = {i \in 1 .. n : t[i] = "}" /\ i > a}
  BY <1>1, <1>2 DEF Where
<1>4. b \in ends /\ ends \in SUBSET Nat /\ \A j \in ends : b <= j
  <2>1. a < b /\ t[b] = "}" /\ \A j \in 1 .. n : t[j] = "}" /\ j > a => b <= j
    BY DEF ClosedAt
  <2>2. b \in {i \in 1 .. n : t[i] = "}" /\ i > a}
    BY <2>1
  <2>3. \A j \in {i \in 1 .. n : t[i] = "}" /\ i > a} : b <= j
    BY <2>1
  <2>4. {i \in 1 .. n : t[i] = "}" /\ i > a} \in SUBSET Nat
    <3>1. 1 .. n \subseteq Nat
      OBVIOUS
    <3>2. {i \in 1 .. n : t[i] = "}" /\ i > a} \subseteq 1 .. n
      BY Zenon
    <3> QED BY <3>1, <3>2, Zenon
  <2> HIDE DEF ends
  <2> QED BY <1>3, <2>2, <2>3, <2>4
<1>5. First(ends) = b /\ ends # {}
  <2> HIDE DEF ends
  <2> QED BY <1>4, FirstIs
<1>6. s = SubSeq(t, a, b - 1)
  BY <1>2, <1>5 DEF Nested
<1>7. a < b
  BY DEF ClosedAt
<1>8. PICK y \in 0 .. Len(t) : y = b - 1
  OBVIOUS
<1>9. /\ SubSeq(t, a, y) \in Seq(Tokens)
      /\ Len(SubSeq(t, a, y)) = IF a <= y THEN y - a + 1 ELSE 0
      /\ \A i \in 1 .. y - a + 1 : SubSeq(t, a, y)[i] = t[a + i - 1]
  <2>1. a \in 1 .. Len(t) + 1
    OBVIOUS
  <2> QED BY <2>1, PartIs
<1>10. a <= y /\ y - a + 1 = b - a
  BY <1>7, <1>8
<1>11. s \in Seq(Tokens) /\ Len(s) = b - a /\ \A j \in 1 .. b - a : s[j] = t[a + j - 1]
  BY <1>6, <1>8, <1>9, <1>10
<1> QED BY <1>11 DEF PartAt

\* The name that is read back from a session description.
LEMMA NameIs ==
  ASSUME NEW s \in Seq(Tokens), NEW w \in Seq(Chars), NEW q \in Nat, q = Len(w), q >= 3,
         w[1] = Quote, w[2] # Quote, w[q] = Quote, Len(s) = q + 4,
         \A k \in 1 .. q : s[3 + k] = w[k],
         \A j \in 1 .. q + 4 : s[j] = "sessionName" <=> j = 3
  PROVE  \E nm \in Seq(Chars) :
           /\ ExtractString(s, "sessionName") = nm /\ nm # <<>>
           /\ \A name \in Seq(Chars) :
                (/\ q = Len(name) + 2 /\ \A k \in 1 .. Len(name) : w[k + 1] = name[k]
                 /\ \A k \in 1 .. Len(name) : name[k] # Quote) => nm = name
<1>1. DOMAIN s = 1 .. q + 4
  BY SeqAt
<1>2. Where(s, "sessionName") = {3}
  BY <1>1 DEF Where
<1>3. s[4] = Quote /\ s[5] # Quote /\ s[3 + q] = Quote
  <2>1. 1 \in 1 .. q /\ 2 \in 1 .. q /\ q \in 1 .. q /\ 3 + 1 = 4 /\ 3 + 2 = 5
    OBVIOUS
  <2>2. s[3 + 1] = w[1] /\ s[3 + 2] = w[2] /\ s[3 + q] = w[q]
    BY <2>1
  <2> QED BY <2>1, <2>2
<1> DEFINE keys == {i \in Where(s, "sessionName") : i + 1 \in DOMAIN s /\ s[i + 1] = Quote}
<1>4. keys # {} /\ First(keys) + 2 = 5
  <2>1. keys = {3}
    <3>1. 3 + 1 = 4 /\ 4 \in DOMAIN s
      BY <1>1
    <3> QED BY <1>2, <1>3, <3>1
  <2>2. First({3}) = 3
    <3>1. 3 \in {3} /\ {3} \in SUBSET Nat
      OBVIOUS
    <3> QED BY <3>1, FirstIs
  <2> HIDE DEF keys
  <2> QED BY <2>1, <2>2
<1> DEFINE ends == {i \in Where(s, Quote) : i >= 5}
<1>5. ExtractString(s, "sessionName") =
        IF ends = {} THEN <<>> ELSE SubSeq(s, 5, First(ends) - 1)
  <2>1. ExtractString(s, "sessionName") =
          IF keys = {} THEN <<>>
          ELSE LET from == First(keys) + 2
                   es == {i \in Where(s, Quote) : i >= from}
               IN  IF es = {} THEN <<>> ELSE SubSeq(s, from, First(es) - 1)
    BY DEF ExtractString
  <2> HIDE DEF keys
  <2> QED BY <1>4, <2>1
<1>6. 3 + q \in ends /\ ends \in SUBSET Nat /\ ends = {i \in 5 .. q + 4 : s[i] = Quote}
  <2>1. ends = {i \in 5 .. q + 4 : s[i] = Quote}
    BY <1>1 DEF Where
  <2>2. 3 + q \in 5 .. q + 4
    OBVIOUS
  <2> QED BY <1>3, <2>1, <2>2
<1>7. PICK e \in 6 .. 3 + q : e = First(ends) /\ \A i \in ends : e <= i
  <2>1. First(ends) \in ends /\ \A i \in ends : First(ends) <= i
    <3> HIDE DEF ends
    <3> QED BY <1>6, FirstExists
  <2>2. First(ends) # 5 /\ First(ends) \in 5 .. q + 4 /\ First(ends) <= 3 + q
    <3> HIDE DEF ends
    <3> QED BY <1>3, <1>6, <2>1
  <2>3. First(ends) \in 6 .. 3 + q
    <3> HIDE DEF ends
    <3> QED BY <2>2
  <2> QED BY <2>1, <2>3
<1>8. PICK nm : nm = SubSeq(s, 5, e - 1)
  OBVIOUS
<1>9. ExtractString(s, "sessionName") = nm
  <2> HIDE DEF ends
  <2> QED BY <1>5, <1>6, <1>7, <1>8
<1>10. nm \in Seq(Tokens) /\ Len(nm) = e - 5 /\ \A i \in 1 .. e - 5 : nm[i] = s[4 + i]
  <2>1. PICK a \in 1 .. Len(s) + 1, b \in 0 .. Len(s) : a = 5 /\ b = e - 1
    <3>1. 5 \in 1 .. Len(s) + 1 /\ e - 1 \in 0 .. Len(s)
      OBVIOUS
    <3> QED BY <3>1
  <2>2. /\ SubSeq(s, a, b) \in Seq(Tokens)
        /\ Len(SubSeq(s, a, b)) = IF a <= b THEN b - a + 1 ELSE 0
        /\ \A i \in 1 .. b - a + 1 : SubSeq(s, a, b)[i] = s[a + i - 1]
    BY PartIs
  <2>3. a <= b /\ b - a + 1 = e - 5 /\ \A i \in 1 .. e - 5 : a + i - 1 = 4 + i
    BY <2>1
  <2> QED BY <1>8, <2>1, <2>2, <2>3
<1>11. \A i \in 1 .. e - 5 : s[4 + i] = w[i + 1] /\ w[i + 1] \in Chars
  <2> TAKE i \in 1 .. e - 5
  <2>1. PICK k \in 1 .. q : k = i + 1 /\ 3 + k = 4 + i
    <3>1. i + 1 \in 1 .. q /\ 3 + (i + 1) = 4 + i
      OBVIOUS
    <3> QED BY <3>1
  <2> QED BY <2>1, SeqAt
<1>12. nm \in Seq(Chars) /\ nm # <<>>
  <2>1. PICK l \in Nat : l = e - 5 /\ l >= 1
    <3>1. e - 5 \in Nat /\ e - 5 >= 1
      OBVIOUS
    <3> QED BY <3>1
  <2>2. nm = [i \in 1 .. l |-> nm[i]] /\ DOMAIN nm = 1 .. l
    <3>1. DOMAIN nm = 1 .. l
      BY <1>10, <2>1, SeqAt
    <3>2. nm = [i \in DOMAIN nm |-> nm[i]]
      BY <1>10, LenProperties
    <3> QED BY <3>1, <3>2
  <2>3. \A i \in 1 .. l : nm[i] \in Chars
    BY <1>10, <1>11, <2>1
  <2>4. nm \in [1 .. l -> Chars]
    BY <2>2, <2>3
  <2>5. nm # <<>>
    BY <1>10, <2>1, SeqAt
  <2> QED BY <2>4, <2>5, SeqDef
<1>13. ASSUME NEW name \in Seq(Chars), q = Len(name) + 2,
              \A k \in 1 .. Len(name) : w[k + 1] = name[k],
              \A k \in 1 .. Len(name) : name[k] # Quote
       PROVE  nm = name
  <2>1. PICK l \in Nat : l = Len(name)
    BY SeqAt
  <2>2. e = 3 + q
    <3>1. ASSUME e # 3 + q PROVE FALSE
      <4>1. e - 4 \in 1 .. l /\ e - 5 \in 1 .. e - 5
        BY <1>13, <2>1, <3>1
      <4>2. e \in ends
        <5> HIDE DEF ends
        <5> QED BY <1>6, <1>7, FirstExists
      <4>3. s[e] = Quote
        BY <1>6, <4>2
      <4>4. PICK k \in 1 .. q : 3 + k = e /\ k = (e - 4) + 1
        <5>1. e - 3 \in 1 .. q /\ 3 + (e - 3) = e /\ e - 3 = (e - 4) + 1
          BY <1>13, <2>1, <4>1
        <5> QED BY <5>1
      <4>5. s[e] = w[k]
        BY <4>4
      <4>6. w[(e - 4) + 1] = name[e - 4] /\ name[e - 4] # Quote
        BY <1>13, <2>1, <4>1
      <4> QED BY <4>3, <4>4, <4>5, <4>6
    <3> QED BY <3>1
  <2>3. Len(nm) = Len(name) /\ e - 5 = Len(name)
    BY <1>10, <1>13, <2>1, <2>2
  <2>4. \A i \in 1 .. Len(name) : nm[i] = name[i]
    BY <1>10, <1>11, <1>13, <2>3
  <2> QED BY <1>12, <2>3, <2>4, SeqEqual
<1> QED BY <1>9, <1>12, <1>13

\* What is read of a stream that is c.
Reads(c, nm) ==
  [name |-> nm, enabled |-> c.enabled, depth |-> c.depth,
   interface |-> ResolveInterface(c.interface)]

PlainName(s) == \A k \in 1 .. Len(s) : s[k] \notin Special

\* A stream whose name holds no bracket is read, and by its own name if that
\* is plain.
LEMMA ObjectIsRead ==
  ASSUME NEW o, NEW w, NEW c, ObjectOf(o, w, c), \A k \in 1 .. Len(w) : w[k] \notin Brackets
  PROVE  \E nm \in Seq(Chars) \ {<<>>} :
           ConfigFromJSON(o) = <<Reads(c, nm)>> /\ (PlainName(c.name) => nm = c.name)
<1>1. PICK q \in Nat : q = Len(w)
  BY SeqAt DEF ObjectOf
<1>2. o \in Seq(Tokens) /\ Len(o) = 21 + 2 * q
  BY <1>1, ObjectCounts
<1>3. PICK n \in Nat : n = Len(o) /\ n = 21 + 2 * q
  BY <1>2
<1>4. \A j \in 1 .. n : WordsAt(o, q, j) /\ BracketsAt(o, q, j)
  <2> TAKE j \in 1 .. n
  <2>1. j \in 1 .. 21 + 2 * q
    BY <1>3
  <2> QED BY <1>1, <2>1, ObjectTokens
<1>5. /\ c \in Configs /\ c.name \in Seq(Chars) /\ c.name # <<>>
      /\ w \in Seq(Chars) /\ q >= 3 /\ w[1] = Quote /\ w[2] # Quote /\ w[q] = Quote
      /\ (\A i \in 1 .. Len(c.name) : c.name[i] \notin {Quote, Backslash}) =>
           q = Len(c.name) + 2 /\ \A k \in 1 .. Len(c.name) : w[k + 1] = c.name[k]
  <2>1. c \in Configs /\ c.name \in Seq(Chars) /\ c.name # <<>> /\ QuoteOf(w, c.name)
    BY DEF ObjectOf, Configs
  <2> QED BY <1>1, <2>1 DEF QuoteOf
<1>6. \A k \in 1 .. q : o[10 + k] = w[k]
  BY <1>1 DEF ObjectOf, Object
<1>7. PICK sd \in Tokens, mp \in Tokens, sn \in Tokens, ca \in Tokens, cc \in Tokens :
        /\ sd = "sdp" /\ mp = "mapping" /\ sn = "sessionName"
        /\ ca = "connectionAddress" /\ cc = "channelCount"
  BY WordsAre
\* The session description.
<1>8. PICK s : s = Nested(o, "sdp")
  OBVIOUS
<1>9. /\ s \in Seq(Tokens) /\ Len(s) = q + 4
      /\ \A j \in 1 .. q + 4 : s[j] = o[7 + j]
  <2>1. PICK a \in 1 .. n, b \in 1 .. n : a = 8 /\ b = 12 + q
    <3>1. 8 \in 1 .. n /\ 12 + q \in 1 .. n
      BY <1>3
    <3> QED BY <3>1
  <2>2. OnlyAt(o, n, sd, a)
    BY <1>4, <1>7, <2>1 DEF OnlyAt, WordsAt
  <2>3. ClosedAt(o, n, a, b)
    <3>1. o[b] = "}"
      BY <1>4, <2>1 DEF BracketsAt
    <3>2. \A j \in 1 .. n : o[j] = "}" => j = 12 + q \/ j = 20 + 2 * q \/ j = 21 + 2 * q
      BY <1>4 DEF BracketsAt
    <3>3. ASSUME NEW j \in 1 .. n, o[j] = "}", j > a PROVE b <= j
      <4>1. j = 12 + q \/ j = 20 + 2 * q \/ j = 21 + 2 * q
        BY <3>2, <3>3
      <4>2. j > a
        BY <3>3
      <4> QED BY <2>1, <4>1, <4>2
    <3>4. a < b
      BY <2>1
    <3> QED BY <3>1, <3>3, <3>4 DEF ClosedAt
  <2>4. s = Nested(o, sd) /\ o \in Seq(Tokens) /\ n = Len(o)
    BY <1>2, <1>3, <1>7, <1>8
  <2>5. s \in Seq(Tokens) /\ Len(s) = b - a /\ \A j \in 1 .. b - a : s[j] = o[a + j - 1]
    <3>1. PartAt(s, o, a, b - a)
      BY <2>2, <2>3, <2>4, NestedIs
    <3> QED BY <3>1 DEF PartAt
  <2>6. b - a = q + 4 /\ \A j \in 1 .. q + 4 : a + j - 1 = 7 + j
    BY <2>1
  <2> QED BY <2>5, <2>6
<1>10. PICK nm \in Seq(Chars) :
         /\ ExtractString(s, "sessionName") = nm /\ nm # <<>>
         /\ \A name \in Seq(Chars) :
              (/\ q = Len(name) + 2 /\ \A k \in 1 .. Len(name) : w[k + 1] = name[k]
               /\ \A k \in 1 .. Len(name) : name[k] # Quote) => nm = name
  <2>1. \A k \in 1 .. q : s[3 + k] = w[k]
    <3> TAKE k \in 1 .. q
    <3>1. PICK j \in 1 .. q + 4 : j = 3 + k /\ 7 + j = 10 + k
      <4>1. 3 + k \in 1 .. q + 4 /\ 7 + (3 + k) = 10 + k
        OBVIOUS
      <4> QED BY <4>1
    <3> QED BY <1>6, <1>9, <3>1
  <2>2. \A j \in 1 .. q + 4 : s[j] = "sessionName" <=> j = 3
    <3> TAKE j \in 1 .. q + 4
    <3>1. PICK i \in 1 .. n : i = 7 + j
      <4>1. 7 + j \in 1 .. n
        BY <1>3
      <4> QED BY <4>1
    <3>2. o[i] = "sessionName" <=> i = 10
      BY <1>4 DEF WordsAt
    <3> QED BY <1>9, <3>1, <3>2
  <2> QED BY <1>1, <1>5, <1>9, <2>1, <2>2, NameIs
<1>11. Has(s, "connectionAddress")
  <2>1. s[q + 4] = o[11 + q] /\ q + 4 \in 1 .. Len(s)
    <3>1. q + 4 \in 1 .. q + 4 /\ 7 + (q + 4) = 11 + q
      OBVIOUS
    <3> QED BY <1>9, <3>1
  <2>2. o[11 + q] = "connectionAddress"
    BY <1>1 DEF ObjectOf, Object
  <2> QED BY <1>9, <2>1, <2>2, SeqAt DEF Has, Where
\* The channel mapping.
<1>12. PICK m : m = Nested(o, "mapping")
  OBVIOUS
<1>13. Has(m, "channelCount")
  <2>1. PICK a \in 1 .. n, b \in 1 .. n : a = 13 + q /\ b = 20 + 2 * q
    <3>1. 13 + q \in 1 .. n /\ 20 + 2 * q \in 1 .. n
      BY <1>3
    <3> QED BY <3>1
  <2>2. OnlyAt(o, n, mp, a)
    BY <1>4, <1>7, <2>1 DEF OnlyAt, WordsAt
  <2>3. ClosedAt(o, n, a, b)
    <3>1. o[b] = "}"
      BY <1>4, <2>1 DEF BracketsAt
    <3>2. \A j \in 1 .. n : o[j] = "}" => j = 12 + q \/ j = 20 + 2 * q \/ j = 21 + 2 * q
      BY <1>4 DEF BracketsAt
    <3>3. ASSUME NEW j \in 1 .. n, o[j] = "}", j > a PROVE b <= j
      <4>1. j = 12 + q \/ j = 20 + 2 * q \/ j = 21 + 2 * q
        BY <3>2, <3>3
      <4>2. j > a
        BY <3>3
      <4> QED BY <2>1, <4>1, <4>2
    <3>4. a < b
      BY <2>1
    <3> QED BY <3>1, <3>3, <3>4 DEF ClosedAt
  <2>4. m = Nested(o, mp) /\ o \in Seq(Tokens) /\ n = Len(o)
    BY <1>2, <1>3, <1>7, <1>12
  <2>5. m \in Seq(Tokens) /\ Len(m) = b - a /\ \A j \in 1 .. b - a : m[j] = o[a + j - 1]
    <3>1. PartAt(m, o, a, b - a)
      BY <2>2, <2>3, <2>4, NestedIs
    <3> QED BY <3>1 DEF PartAt
  <2>6. PICK j \in 1 .. b - a : a + j - 1 = 16 + 2 * q
    <3>1. 4 + q \in 1 .. b - a /\ a + (4 + q) - 1 = 16 + 2 * q
      BY <2>1
    <3> QED BY <3>1
  <2>7. m[j] = "channelCount"
    BY <1>1, <2>5, <2>6 DEF ObjectOf, Object
  <2> QED BY <2>5, <2>7, SeqAt DEF Has, Where
\* The other fields.
<1>14. o[3] = (IF c.enabled THEN "true" ELSE "false") /\ o[5] = (IF c.depth = 0 THEN "0" ELSE "64")
       /\ o[6] = "networkInterface" /\ o[7] = c.interface
  BY DEF ObjectOf, Object
<1>15. 3 \in DOMAIN o /\ 5 \in DOMAIN o /\ DOMAIN o = 1 .. n
  BY <1>2, <1>3, SeqAt
<1>16. (Has(o, "true") \/ ~Has(o, "false")) = c.enabled
  <2>1. c.enabled \in BOOLEAN
    BY <1>5 DEF Configs
  <2>2. CASE c.enabled
    <3>1. o[3] = "true"
      BY <1>14, <2>2
    <3> QED BY <1>15, <2>2, <3>1 DEF Has, Where
  <2>3. CASE ~c.enabled
    <3>1. o[3] = "false"
      BY <1>14, <2>3
    <3>2. Has(o, "false")
      BY <1>15, <3>1 DEF Has, Where
    <3>3. \A j \in 1 .. n : o[j] = "true" => j = 3
      BY <1>4 DEF WordsAt
    <3>4. ~Has(o, "true")
      <4>1. o[3] # "true"
        BY <3>1
      <4> QED BY <1>15, <3>3, <4>1 DEF Has, Where
    <3> QED BY <2>1, <2>3, <3>2, <3>4
  <2> QED BY <2>1, <2>2, <2>3
<1>17. (IF Has(o, "64") THEN 64 ELSE 0) = c.depth
  <2>1. c.depth \in {0, 64}
    BY <1>5 DEF Configs
  <2>2. CASE c.depth = 64
    <3>1. o[5] = "64"
      BY <1>14, <2>2
    <3>2. Has(o, "64")
      BY <1>15, <3>1 DEF Has, Where
    <3> QED BY <2>2, <3>2
  <2>3. CASE c.depth = 0
    <3>1. o[5] = "0"
      BY <1>14, <2>3
    <3>2. \A j \in 1 .. n : o[j] = "64" => j = 5
      BY <1>4 DEF WordsAt
    <3>3. ~Has(o, "64")
      <4>1. o[5] # "64"
        BY <3>1
      <4> QED BY <1>15, <3>2, <4>1 DEF Has, Where
    <3> QED BY <2>3, <3>3
  <2> QED BY <2>1, <2>2, <2>3
<1>18. Has(o, "networkInterface") /\ After(o, "networkInterface") = c.interface
  <2>1. PICK x \in Tokens, i \in 1 .. n : x = "networkInterface" /\ i = 6
    <3>1. 6 \in 1 .. n
      BY <1>3
    <3> QED BY <3>1, WordsAre
  <2>2. OnlyAt(o, n, x, i)
    BY <1>4, <2>1 DEF OnlyAt, WordsAt
  <2>3. First(Where(o, x)) = i /\ Has(o, x)
    BY <1>2, <1>3, <2>2, OnlyOne
  <2>4. i + 1 = 7
    BY <2>1
  <2> QED BY <1>14, <2>1, <2>3, <2>4 DEF After
<1>19. ConfigFromJSON(o) = <<Reads(c, nm)>>
  BY <1>8, <1>10, <1>11, <1>12, <1>13, <1>16, <1>17, <1>18 DEF ConfigFromJSON, Reads
<1>20. ASSUME PlainName(c.name) PROVE nm = c.name
  <2>1. \A k \in 1 .. Len(c.name) : c.name[k] \notin {Quote, Backslash} /\ c.name[k] # Quote
    BY <1>20 DEF PlainName, Special
  <2> QED BY <1>5, <1>10, <2>1
<1> QED BY <1>10, <1>19, <1>20

-----------------------------------------------------------------------------
(* Reading the file                                                         *)

\* R is what is read of cs.
ReadOf(cs, R) ==
  /\ DOMAIN R = DOMAIN cs /\ Len(R) = Len(cs) /\ R = [i \in DOMAIN cs |-> R[i]]
  /\ \A i \in DOMAIN cs :
       \E nm \in Seq(Chars) \ {<<>>} :
         R[i] = Reads(cs[i], nm) /\ (PlainName(cs[i].name) => nm = cs[i].name)

NoBrackets(cs) == \A i \in DOMAIN cs : \A k \in 1 .. Len(cs[i].name) : cs[i].name[k] \notin Brackets

\* A name without brackets is written without brackets.
LEMMA NamesUnbracketed ==
  ASSUME NEW cs, NEW n, NEW objs, NEW ws, NEW F, NEW L, Laid(cs, n, objs, ws, F, L),
         NoBrackets(cs)
  PROVE  Unbracketed(ws, n)
<1>1. DOMAIN cs = 1 .. n
  BY SeqAt DEF Laid
<1>2. ASSUME NEW i \in 1 .. n, NEW k \in 1 .. Len(ws[i]) PROVE ws[i][k] \notin Brackets
  <2>1. QuoteOf(ws[i], cs[i].name)
    BY DEF Laid, ObjectOf
  <2>2. \A j \in 1 .. Len(cs[i].name) : cs[i].name[j] \notin Brackets
    BY <1>1 DEF NoBrackets
  <2> QED BY <2>1, <2>2 DEF QuoteOf
<1> QED BY <1>2 DEF Unbracketed

\* Sequences of one each, joined.
LEMMA OnesJoined ==
  ASSUME NEW S, NEW n \in Nat, NEW d \in [1 .. n -> Seq(S)], NEW r \in Seq(S), Len(r) = n,
         \A i \in 1 .. n : d[i] = <<r[i]>>
  PROVE  FlattenSeq(d) = r
<1>1. PICK g : Joins(d, n, S, g) /\ FlattenSeq(d) = g[n]
  BY FlattenIs
<1>2. g[n] = r
  BY <1>1, JoinsOfOnes
<1> QED BY <1>1, <1>2

\* The same of a function that gives one each.
LEMMA FlattenOnes ==
  ASSUME NEW n \in Nat, NEW S, NEW R \in [1 .. n -> S], NEW d, d = [i \in 1 .. n |-> <<R[i]>>]
  PROVE  FlattenSeq(d) = R /\ DOMAIN R = 1 .. n /\ Len(R) = n
<1>1. d \in [1 .. n -> Seq(S)]
  <2>1. \A i \in 1 .. n : <<R[i]>> \in Seq(S)
    <3> TAKE i \in 1 .. n
    <3>1. PICK r \in S : r = R[i]
      OBVIOUS
    <3>2. <<r>> \in Seq(S)
      OBVIOUS
    <3> QED BY <3>1, <3>2
  <2> QED BY <2>1
<1>2. R \in Seq(S) /\ DOMAIN R = 1 .. n /\ Len(R) = n
  <2>1. R \in Seq(S)
    BY SeqDef
  <2>2. DOMAIN R = 1 .. n
    OBVIOUS
  <2>3. DOMAIN R = 1 .. Len(R) /\ Len(R) \in Nat
    BY <2>1, SeqAt
  <2> QED BY <2>1, <2>2, <2>3
<1>3. \A i \in 1 .. n : d[i] = <<R[i]>>
  OBVIOUS
<1>4. FlattenSeq(d) = R
  BY <1>1, <1>2, <1>3, OnesJoined
<1> QED BY <1>2, <1>4

\* A file whose names hold no bracket is read whole; the beginning of one is
\* read whole or not at all.
LEMMA IsRead ==
  ASSUME NEW cs \in Seq(Configs), NoBrackets(cs), NEW T, T = ToJSON(cs), NEW v, PartOf(v, T)
  PROVE  \/ FromJSON(v) = <<FALSE, <<>>>> /\ Len(v) < Len(T)
         \/ \E R : FromJSON(v) = <<TRUE, R>> /\ ReadOf(cs, R)
<1>1. PICK n \in Nat : n = Len(cs) /\ DOMAIN cs = 1 .. n
  BY SeqAt
<1>2. PICK objs, ws, F, L : Laid(cs, n, objs, ws, F, L) /\ objs = ObjectTexts(cs) /\ F = FlattenSeq(objs)
  BY <1>1, IsLaid
<1>3. Unbracketed(ws, n)
  BY <1>2, NamesUnbracketed
<1>4. PICK m \in Nat : m = Len(F)
  BY <1>2, SeqAt DEF Laid
<1>5. FileOf(T, F, m)
  <2>1. F \in Seq(Tokens) /\ F = FlattenSeq(ObjectTexts(cs))
    BY <1>2 DEF Laid
  <2> QED BY <1>4, <2>1, FileIs
<1>6. StreamsContent(v) = IF Len(v) < m + 4 THEN <<FALSE, <<>>>> ELSE <<TRUE, F>>
  BY <1>2, <1>3, <1>5, ContentWhole
<1>7. CASE Len(v) < m + 4
  <2>1. StreamsContent(v) = <<FALSE, <<>>>>
    BY <1>6, <1>7
  <2>2. FromJSON(v) = <<FALSE, <<>>>>
    BY <2>1 DEF FromJSON
  <2>3. Len(T) = m + 5 /\ Len(v) \in Nat
    BY <1>5, SeqAt DEF FileOf, PartOf
  <2>4. Len(v) < Len(T)
    BY <1>7, <2>3
  <2> QED BY <2>2, <2>4
<1>8. CASE ~(Len(v) < m + 4)
  <2>1. StreamsContent(v) = <<TRUE, F>>
    BY <1>6, <1>8
  <2>2. StreamObjects(F) = objs
    BY <1>2, <1>3, ObjectsAre
  <2>3. DOMAIN objs = 1 .. n
    BY <1>1, <1>2 DEF ObjectTexts
  <2>4. \A i \in 1 .. n :
          \E nm \in Seq(Chars) \ {<<>>} :
            ConfigFromJSON(objs[i]) = <<Reads(cs[i], nm)>> /\ (PlainName(cs[i].name) => nm = cs[i].name)
    <3> TAKE i \in 1 .. n
    <3>1. PICK o, w, c : o = objs[i] /\ w = ws[i] /\ c = cs[i]
      OBVIOUS
    <3>2. ObjectOf(o, w, c)
      BY <1>2, <3>1 DEF Laid
    <3>3. \A k \in 1 .. Len(w) : w[k] \notin Brackets
      BY <1>3, <3>1 DEF Unbracketed
    <3>4. \E nm \in Seq(Chars) \ {<<>>} :
            ConfigFromJSON(o) = <<Reads(c, nm)>> /\ (PlainName(c.name) => nm = c.name)
      BY <3>2, <3>3, ObjectIsRead
    <3> QED BY <3>1, <3>4
  <2>5. PICK N : N = [i \in 1 .. n |-> CHOOSE nm \in Seq(Chars) \ {<<>>} :
            ConfigFromJSON(objs[i]) = <<Reads(cs[i], nm)>> /\ (PlainName(cs[i].name) => nm = cs[i].name)]
    OBVIOUS
  <2>6. \A i \in 1 .. n :
          /\ N[i] \in Seq(Chars) \ {<<>>}
          /\ ConfigFromJSON(objs[i]) = <<Reads(cs[i], N[i])>>
          /\ PlainName(cs[i].name) => N[i] = cs[i].name
    <3> TAKE i \in 1 .. n
    <3>1. N[i] = CHOOSE nm \in Seq(Chars) \ {<<>>} :
            ConfigFromJSON(objs[i]) = <<Reads(cs[i], nm)>> /\ (PlainName(cs[i].name) => nm = cs[i].name)
      BY <2>5
    <3>2. \E nm \in Seq(Chars) \ {<<>>} :
            ConfigFromJSON(objs[i]) = <<Reads(cs[i], nm)>> /\ (PlainName(cs[i].name) => nm = cs[i].name)
      BY <2>4
    <3> QED BY <3>1, <3>2, Zenon
  <2>7. PICK R : R = [i \in 1 .. n |-> Reads(cs[i], N[i])]
    OBVIOUS
  <2>8. PICK d : d = [i \in DOMAIN objs |-> ConfigFromJSON(objs[i])]
    OBVIOUS
  <2>9. d = [i \in 1 .. n |-> <<R[i]>>] /\ R = [i \in 1 .. n |-> R[i]]
    <3>1. \A i \in 1 .. n : R[i] = Reads(cs[i], N[i])
      BY <2>7
    <3>2. \A i \in 1 .. n : ConfigFromJSON(objs[i]) = <<R[i]>>
      BY <2>6, <3>1
    <3>3. d = [i \in 1 .. n |-> <<R[i]>>]
      BY <2>3, <2>8, <3>2
    <3>4. R = [i \in 1 .. n |-> R[i]]
      BY <2>7, <3>1
    <3> QED BY <3>3, <3>4
  <2>10. FlattenSeq(d) = R /\ DOMAIN R = 1 .. n /\ Len(R) = n
    <3>1. PICK S : S = {Reads(cs[i], N[i]) : i \in 1 .. n}
      OBVIOUS
    <3>2. R \in [1 .. n -> S]
      BY <2>7, <3>1
    <3>3. d = [i \in 1 .. n |-> <<R[i]>>]
      BY <2>9
    <3> QED BY <3>2, <3>3, FlattenOnes
  <2>11. FromJSON(v) = <<TRUE, R>>
    <3>1. FromJSON(v) = <<TRUE, FlattenSeq([i \in DOMAIN objs |-> ConfigFromJSON(objs[i])])>>
      BY <2>1, <2>2 DEF FromJSON
    <3> QED BY <2>8, <2>10, <3>1
  <2>12. ReadOf(cs, R)
    <3>1. \A i \in DOMAIN cs :
            \E nm \in Seq(Chars) \ {<<>>} :
              R[i] = Reads(cs[i], nm) /\ (PlainName(cs[i].name) => nm = cs[i].name)
      BY <1>1, <2>6, <2>7
    <3>2. R = [i \in DOMAIN cs |-> R[i]]
      BY <1>1, <2>9
    <3> QED BY <1>1, <2>10, <3>1, <3>2 DEF ReadOf
  <2> QED BY <2>11, <2>12
<1> QED BY <1>7, <1>8

-----------------------------------------------------------------------------
(* ObjectTexts that a name has damaged                                            *)

\* The numbers of E up to one.
RankIn(E, i) == Cardinality({y \in E : y <= i})

\* Along the numbers the rank goes up by one where one of E is.
LEMMA RankIs ==
  ASSUME NEW N \in Nat, NEW E \in SUBSET (1 .. N)
  PROVE  /\ \A i \in Nat : RankIn(E, i) \in Nat /\ IsFiniteSet({y \in E : y <= i})
         /\ RankIn(E, 0) = 0 /\ RankIn(E, N) = Cardinality(E) /\ Cardinality(E) \in Nat
         /\ \A i \in Nat : RankIn(E, i + 1) = RankIn(E, i) + IF i + 1 \in E THEN 1 ELSE 0
         /\ \A i, j \in Nat : i <= j => RankIn(E, i) <= RankIn(E, j)
<1>0. \A y \in E : y \in Nat /\ 1 <= y /\ y <= N
  OBVIOUS
<1>1. IsFiniteSet(E)
  <2>1. IsFiniteSet(1 .. N)
    <3>1. 1 \in Int /\ N \in Int
      OBVIOUS
    <3> QED BY <3>1, FS_Interval
  <2> QED BY <2>1, FS_Subset
<1>2. \A i \in Nat : IsFiniteSet({y \in E : y <= i}) /\ RankIn(E, i) \in Nat
  <2> TAKE i \in Nat
  <2>1. {y \in E : y <= i} \in SUBSET E
    OBVIOUS
  <2>2. IsFiniteSet({y \in E : y <= i})
    BY <1>1, <2>1, FS_Subset
  <2> QED BY <2>2, FS_CardinalityType DEF RankIn
<1>3. RankIn(E, 0) = 0
  <2>1. {y \in E : y <= 0} = {}
    <3>1. \A y \in E : ~(y <= 0)
      BY <1>0
    <3> QED BY <3>1, Zenon
  <2> QED BY <2>1, FS_EmptySet DEF RankIn
<1>4. RankIn(E, N) = Cardinality(E) /\ Cardinality(E) \in Nat
  <2>1. {y \in E : y <= N} = E
    BY <1>0, Zenon
  <2> QED BY <1>1, <2>1, FS_CardinalityType DEF RankIn
<1>5. ASSUME NEW i \in Nat
      PROVE  RankIn(E, i + 1) = RankIn(E, i) + IF i + 1 \in E THEN 1 ELSE 0
  <2>1. PICK A : A = {y \in E : y <= i}
    OBVIOUS
  <2>2. IsFiniteSet(A) /\ Cardinality(A) = RankIn(E, i) /\ RankIn(E, i) \in Nat
    BY <1>2, <2>1 DEF RankIn
  <2>3. CASE i + 1 \in E
    <3>1. {y \in E : y <= i + 1} = A \cup {i + 1} /\ i + 1 \notin A
      <4>1. \A y \in E : y <= i + 1 <=> y <= i \/ y = i + 1
        BY <1>0
      <4>2. ~(i + 1 <= i)
        OBVIOUS
      <4>3. {y \in E : y <= i + 1} = {y \in E : y <= i \/ y = i + 1}
        BY <4>1, Zenon
      <4>4. {y \in E : y <= i \/ y = i + 1} = {y \in E : y <= i} \cup {i + 1}
        BY <2>3, Zenon
      <4> QED BY <2>1, <4>2, <4>3, <4>4, Zenon
    <3>2. Cardinality(A \cup {i + 1}) = Cardinality(A) + 1
      BY <2>2, <3>1, FS_AddElement
    <3> QED BY <2>2, <2>3, <3>1, <3>2 DEF RankIn
  <2>4. CASE i + 1 \notin E
    <3>1. {y \in E : y <= i + 1} = A
      <4>1. \A y \in E : y <= i + 1 <=> y <= i
        <5> TAKE y \in E
        <5>1. y \in Nat /\ y # i + 1
          BY <1>0, <2>4
        <5> QED BY <5>1
      <4> QED BY <2>1, <4>1, Zenon
    <3> QED BY <2>2, <2>4, <3>1 DEF RankIn
  <2> QED BY <2>3, <2>4
<1>6. ASSUME NEW i \in Nat, NEW j \in Nat, i <= j PROVE RankIn(E, i) <= RankIn(E, j)
  <2>1. {y \in E : y <= i} \in SUBSET {y \in E : y <= j}
    <3>1. \A y \in E : y <= i => y <= j
      BY <1>0, <1>6
    <3> QED BY <3>1, Zenon
  <2> QED BY <1>2, <2>1, FS_Subset DEF RankIn
<1> QED BY <1>2, <1>3, <1>4, <1>5, <1>6

\* The k-th number is there.
LEMMA KthIs ==
  ASSUME NEW N \in Nat, NEW E \in SUBSET (1 .. N), NEW k \in 1 .. Cardinality(E)
  PROVE  KthOf(E, k) \in E /\ RankIn(E, KthOf(E, k)) = k
<1>1. Cardinality(E) \in Nat /\ k \in Nat /\ k >= 1 /\ k <= Cardinality(E)
  BY RankIs
<1>2. PICK S : S = {i \in Nat : RankIn(E, i) >= k}
  OBVIOUS
<1>3. N \in S /\ S \in SUBSET Nat
  <2>1. RankIn(E, N) = Cardinality(E)
    BY RankIs
  <2> QED BY <1>1, <1>2, <2>1
<1>4. PICK m \in S : \A n \in S : m <= n
  BY <1>3, LeastNumber
<1>5. m \in Nat /\ RankIn(E, m) >= k /\ RankIn(E, m) \in Nat
  BY <1>2, <1>4, RankIs
<1>6. m # 0
  <2>1. RankIn(E, 0) = 0
    BY RankIs
  <2> QED BY <1>1, <1>5, <2>1
<1>7. PICK p \in Nat : m = p + 1
  <2>1. m - 1 \in Nat /\ m = (m - 1) + 1
    BY <1>5, <1>6
  <2> QED BY <2>1
<1>8. RankIn(E, p) \in Nat /\ ~(RankIn(E, p) >= k)
  <2>1. ~(m <= p)
    BY <1>7
  <2>2. p \notin S
    BY <1>4, <2>1
  <2> QED BY <1>2, <2>2, RankIs
<1>9. RankIn(E, m) = RankIn(E, p) + IF m \in E THEN 1 ELSE 0
  <2>1. RankIn(E, p + 1) = RankIn(E, p) + IF p + 1 \in E THEN 1 ELSE 0
    BY RankIs
  <2> QED BY <1>7, <2>1
<1>10. m \in E /\ RankIn(E, m) = k
  BY <1>1, <1>5, <1>8, <1>9
<1>11. \E x \in E : Cardinality({y \in E : y <= x}) = k
  BY <1>10 DEF RankIn
<1>12. KthOf(E, k) \in E /\ Cardinality({y \in E : y <= KthOf(E, k)}) = k
  BY <1>11 DEF KthOf
<1> QED BY <1>12 DEF RankIn

\* The greatest of some numbers.
LEMMA GreatestIs ==
  ASSUME NEW N \in Nat, NEW B \in SUBSET (1 .. N), B # {}
  PROVE  \E x \in B : \A y \in B : y <= x
<1>1. PICK S : S = {N - x : x \in B}
  OBVIOUS
<1>2. S \in SUBSET Nat /\ S # {}
  <2>1. \A x \in B : N - x \in Nat
    OBVIOUS
  <2> QED BY <1>1, <2>1, Zenon
<1>3. PICK m \in S : \A n \in S : m <= n
  BY <1>2, LeastNumber
<1>4. PICK x \in B : m = N - x
  BY <1>1, <1>3
<1>5. ASSUME NEW y \in B PROVE y <= x
  <2>1. N - y \in S
    BY <1>1
  <2>2. N - x <= N - y
    BY <1>3, <1>4, <2>1
  <2> QED BY <2>2
<1> QED BY <1>5

\* One of them ends after the one before it.
KthFrom(E, k) == IF k = 0 THEN 0 ELSE KthOf(E, k)

\* The k-th number comes after the one before it, and that not before the
\* last but one.
LEMMA KthAfter ==
  ASSUME NEW N \in Nat, NEW E \in SUBSET (1 .. N), NEW k \in 1 .. Cardinality(E)
  PROVE  /\ KthFrom(E, k - 1) \in 0 .. N /\ LastBefore(E, KthOf(E, k)) \in 0 .. N
         /\ KthOf(E, k) \in 1 .. N
         /\ KthFrom(E, k - 1) <= LastBefore(E, KthOf(E, k))
         /\ LastBefore(E, KthOf(E, k)) < KthOf(E, k)
<1>1. PICK e : e = KthOf(E, k)
  OBVIOUS
<1>2. e \in E /\ e \in 1 .. N /\ RankIn(E, e) = k
  BY <1>1, KthIs
<1>3. Cardinality(E) \in Nat
  BY RankIs
<1>4. PICK B : B = Before(E, e)
  OBVIOUS
<1>5. B = {x \in E : x < e} /\ B \in SUBSET (1 .. N)
  BY <1>4 DEF Before
<1>6. ASSUME B # {}
      PROVE  LastBefore(E, e) \in B /\ \A y \in B : y <= LastBefore(E, e)
  <2>1. \E x \in B : \A y \in B : y <= x
    BY <1>5, <1>6, GreatestIs
  <2>2. LastBefore(E, e) = CHOOSE x \in B : \A y \in B : y <= x
    BY <1>4, <1>6 DEF LastBefore
  <2> HIDE <1>6
  <2> QED BY <2>1, <2>2
<1>7. ASSUME B = {} PROVE LastBefore(E, e) = 0
  BY <1>4, <1>7 DEF LastBefore
<1>8. LastBefore(E, e) \in 0 .. N /\ LastBefore(E, e) < e
  <2>1. CASE B = {}
    <3>1. LastBefore(E, e) = 0
      BY <1>7, <2>1
    <3> QED BY <1>2, <3>1
  <2>2. CASE B # {}
    <3>1. LastBefore(E, e) \in B
      BY <1>6, <2>2
    <3> QED BY <1>2, <1>5, <3>1
  <2> QED BY <2>1, <2>2
<1>9. KthFrom(E, k - 1) \in 0 .. N /\ KthFrom(E, k - 1) <= LastBefore(E, e)
  <2>1. CASE k = 1
    <3>1. KthFrom(E, k - 1) = 0
      BY <2>1 DEF KthFrom
    <3> QED BY <1>8, <3>1
  <2>2. CASE k # 1
    <3>1. k - 1 \in 1 .. Cardinality(E)
      BY <1>3, <2>2
    <3>2. PICK d : d = KthOf(E, k - 1)
      OBVIOUS
    <3>3. d \in E /\ d \in 1 .. N /\ RankIn(E, d) = k - 1
      BY <3>1, <3>2, KthIs
    <3>4. ASSUME ~(d < e) PROVE FALSE
      <4>1. d \in Nat /\ e \in Nat /\ e <= d
        BY <1>2, <3>3, <3>4
      <4>2. RankIn(E, e) <= RankIn(E, d)
        BY <4>1, RankIs
      <4> QED BY <1>2, <3>3, <4>2
    <3>5. d \in B
      BY <1>5, <3>3, <3>4
    <3>6. d <= LastBefore(E, e)
      BY <1>6, <3>5
    <3>7. KthFrom(E, k - 1) = d
      <4>1. k - 1 # 0
        BY <2>2
      <4> QED BY <3>2, <4>1 DEF KthFrom
    <3> QED BY <3>3, <3>6, <3>7
  <2> QED BY <2>1, <2>2
<1> QED BY <1>1, <1>2, <1>8, <1>9

\* A token is seen no less often further on, and more often if it is between.
LEMMA SeenMore ==
  ASSUME NEW t \in Seq(Tokens), NEW x \in Tokens, NEW a \in Nat, NEW b \in Nat, a <= b, b <= Len(t)
  PROVE  /\ Seen(t, x, a) \in Nat /\ Seen(t, x, b) \in Nat /\ Seen(t, x, a) <= Seen(t, x, b)
         /\ (\E j \in 1 .. Len(t) : a < j /\ j <= b /\ t[j] = x) => Seen(t, x, a) + 1 <= Seen(t, x, b)
<1>1. DOMAIN t = 1 .. Len(t) /\ Len(t) \in Nat
  BY SeqAt
<1>2. PICK A, B : A = UntilNow(t, x, a) /\ B = UntilNow(t, x, b)
  OBVIOUS
<1>3. /\ IsFiniteSet(A) /\ IsFiniteSet(B) /\ Cardinality(A) = Seen(t, x, a)
      /\ Cardinality(B) = Seen(t, x, b) /\ Seen(t, x, a) \in Nat /\ Seen(t, x, b) \in Nat
  <2>1. \A i \in Nat : Seen(t, x, i) \in Nat /\ IsFiniteSet(UntilNow(t, x, i))
    BY SeenIs
  <2> QED BY <1>2, <2>1 DEF Seen
<1>4. A \subseteq B
  <2>1. \A k \in 1 .. Len(t) : k <= a => k <= b
    BY <1>1
  <2>2. \A k \in DOMAIN t : k <= a => k <= b
    BY <1>1, <2>1
  <2> QED BY <1>2, <2>2 DEF UntilNow, Where
<1>5. Seen(t, x, a) <= Seen(t, x, b)
  <2>1. A \in SUBSET B
    BY <1>4
  <2> QED BY <1>3, <2>1, FS_Subset
<1>6. ASSUME NEW j \in 1 .. Len(t), a < j, j <= b, t[j] = x
      PROVE  Seen(t, x, a) + 1 <= Seen(t, x, b)
  <2>1. 1 <= j /\ ~(j <= a)
    BY <1>1, <1>6
  <2>2. j \in B /\ j \notin A
    BY <1>1, <1>2, <1>6, <2>1 DEF UntilNow, Where
  <2>3. Cardinality(A \cup {j}) = Cardinality(A) + 1
    BY <1>3, <2>2, FS_AddElement
  <2>4. (A \cup {j}) \in SUBSET B
    BY <1>4, <2>2
  <2>5. Cardinality(A \cup {j}) <= Cardinality(B)
    BY <1>3, <2>4, FS_Subset
  <2> QED BY <1>3, <2>3, <2>5
<1> QED BY <1>3, <1>5, <1>6

\* What is read of an object has a name, and the object a session description.
ReadAs(o, r) ==
  /\ ConfigFromJSON(o) = <<r>> /\ r.enabled \in BOOLEAN /\ r.name # <<>>
  /\ r.name = ExtractString(Nested(o, "sdp"), "sessionName") /\ Has(o, "sdp")

\* In an empty text no name is found.
LEMMA NothingIn ==
  ExtractString(<<>>, "sessionName") = <<>>
<1>1. Where(<<>>, "sessionName") = {}
  <2>1. DOMAIN <<>> = {}
    BY EmptySeq
  <2> QED BY <2>1 DEF Where
<1> QED BY <1>1 DEF ExtractString

\* Every object is passed over or read so.
LEMMA ReadAny ==
  ASSUME NEW o
  PROVE  ConfigFromJSON(o) = <<>> \/ \E r : ReadAs(o, r)
<1>1. PICK nm : nm = ExtractString(Nested(o, "sdp"), "sessionName")
  OBVIOUS
<1>2. PICK r : r =
        [name |-> nm, enabled |-> Has(o, "true") \/ ~Has(o, "false"),
         depth |-> IF Has(o, "64") THEN 64 ELSE 0,
         interface |-> ResolveInterface(
           IF Has(o, "networkInterface") THEN After(o, "networkInterface") ELSE AnyInterface)]
  OBVIOUS
<1>3. ASSUME ConfigFromJSON(o) # <<>> PROVE ReadAs(o, r)
  <2>1. nm # <<>> /\ ConfigFromJSON(o) = <<r>>
    BY <1>1, <1>2, <1>3 DEF ConfigFromJSON
  <2>2. r.name = nm /\ r.enabled \in BOOLEAN
    BY <1>2
  <2>3. ASSUME ~Has(o, "sdp") PROVE FALSE
    <3>1. Where(o, "sdp") = {}
      BY <2>3 DEF Has
    <3>2. Nested(o, "sdp") = <<>>
      BY <3>1 DEF Nested
    <3> QED BY <1>1, <2>1, <3>2, NothingIn
  <2> QED BY <1>1, <2>1, <2>2, <2>3 DEF ReadAs
<1> QED BY <1>3

\* The content of a streams array, as far as the file goes, is what the
\* beginning of the array was.
LEMMA ContentPart ==
  ASSUME NEW T, NEW F, NEW m, FileOf(T, F, m), NEW v, PartOf(v, T)
  PROVE  \/ StreamsContent(v) = <<FALSE, <<>>>>
         \/ \E C : StreamsContent(v) = <<TRUE, C>> /\ PartOf(C, F)
<1>1. PICK ends : ends = {i \in Where(v, "]") : i > 3 /\ Depth(v, 3, i, "[", "]") = 0}
  OBVIOUS
<1>2. StreamsContent(v) = IF Len(v) < 3 \/ ends = {} THEN <<FALSE, <<>>>>
                          ELSE <<TRUE, SubSeq(v, 4, First(ends) - 1)>>
  BY <1>1, ContentIs
<1>3. /\ m \in Nat /\ Len(v) \in Nat /\ DOMAIN v = 1 .. Len(v) /\ Len(v) <= m + 5
      /\ v \in Seq(Tokens) /\ F \in Seq(Tokens) /\ m = Len(F)
  BY SeqAt DEF FileOf, PartOf
<1>4. CASE ~(Len(v) < 3) /\ ends # {}
  <2>1. ends \in SUBSET Nat
    BY <1>1, <1>3 DEF Where
  <2>2. PICK e \in ends : e = First(ends)
    BY <1>4, <2>1, FirstExists
  <2>3. e \in 1 .. Len(v) /\ v[e] = "]" /\ e > 3
    BY <1>1, <1>3, <2>2 DEF Where
  <2>4. e <= m + 4
    <3>1. ASSUME e = m + 5 PROVE FALSE
      <4>1. T[m + 5] = "}" /\ v[e] = T[e]
        BY <2>3 DEF FileOf, PartOf
      <4>2. T[e] = "}"
        BY <3>1, <4>1
      <4>3. "}" # "]"
        OBVIOUS
      <4> QED BY <2>3, <4>1, <4>2, <4>3
    <3> QED BY <1>3, <2>3, <3>1
  <2>5. PICK C : C = SubSeq(v, 4, e - 1)
    OBVIOUS
  <2>6. C \in Seq(Tokens) /\ Len(C) = e - 4 /\ \A i \in 1 .. e - 4 : C[i] = v[3 + i]
    <3>1. PICK a \in 1 .. Len(v) + 1, b \in 0 .. Len(v) : a = 4 /\ b = e - 1
      <4>1. 4 \in 1 .. Len(v) + 1 /\ e - 1 \in 0 .. Len(v)
        BY <1>3, <2>3
      <4> QED BY <4>1
    <3>2. /\ SubSeq(v, a, b) \in Seq(Tokens)
          /\ Len(SubSeq(v, a, b)) = IF a <= b THEN b - a + 1 ELSE 0
          /\ \A i \in 1 .. b - a + 1 : SubSeq(v, a, b)[i] = v[a + i - 1]
      BY <1>3, PartIs
    <3>3. b - a + 1 = e - 4 /\ (a <= b \/ e - 4 = 0) /\ \A i \in 1 .. e - 4 : a + i - 1 = 3 + i
      BY <2>3, <3>1
    <3> QED BY <2>5, <3>1, <3>2, <3>3
  <2>7. \A i \in 1 .. e - 4 : C[i] = F[i]
    <3> TAKE i \in 1 .. e - 4
    <3>1. i \in 1 .. m /\ 3 + i \in 1 .. Len(v)
      BY <1>3, <2>3, <2>4
    <3>2. T[3 + i] = F[i] /\ v[3 + i] = T[3 + i]
      BY <3>1 DEF FileOf, PartOf
    <3> QED BY <2>6, <3>2
  <2>8. PartOf(C, F)
    <3>1. Len(C) <= Len(F)
      BY <1>3, <2>3, <2>4, <2>6
    <3> QED BY <2>6, <2>7, <3>1 DEF PartOf
  <2>9. StreamsContent(v) = <<TRUE, C>>
    BY <1>2, <1>4, <2>2, <2>5
  <2> QED BY <2>8, <2>9
<1>5. CASE Len(v) < 3 \/ ends = {}
  BY <1>2, <1>5
<1> QED BY <1>4, <1>5

\* The objects of a text are parts of it, one after the other.
LEMMA ObjectParts ==
  ASSUME NEW t \in Seq(Tokens), NEW N \in Nat, N = Len(t), NEW E, E = EndsOf(t)
  PROVE  /\ E \in SUBSET (1 .. N) /\ Cardinality(E) \in Nat
         /\ DOMAIN StreamObjects(t) = 1 .. Cardinality(E)
         /\ \A k \in 1 .. Cardinality(E) :
              PartAt(StreamObjects(t)[k], t, LastBefore(E, KthOf(E, k)) + 1,
                     KthOf(E, k) - LastBefore(E, KthOf(E, k)))
<1>1. E \in SUBSET (1 .. N)
  <2>1. DOMAIN t = 1 .. N
    BY SeqAt
  <2> QED BY <2>1 DEF EndsOf, Where
<1>2. Cardinality(E) \in Nat
  BY <1>1, RankIs
<1>3. StreamObjects(t) = [k \in 1 .. Cardinality(E) |->
              SubSeq(t, LastBefore(E, KthOf(E, k)) + 1, KthOf(E, k))]
  BY StreamObjectsAre
<1>4. DOMAIN StreamObjects(t) = 1 .. Cardinality(E)
  BY <1>3
<1>5. ASSUME NEW k \in 1 .. Cardinality(E)
      PROVE  PartAt(StreamObjects(t)[k], t, LastBefore(E, KthOf(E, k)) + 1,
                    KthOf(E, k) - LastBefore(E, KthOf(E, k)))
  <2>1. PICK a, e : a = LastBefore(E, KthOf(E, k)) /\ e = KthOf(E, k)
    OBVIOUS
  <2>2. a \in 0 .. N /\ e \in 1 .. N /\ a < e
    BY <1>1, <2>1, KthAfter
  <2>3. PICK o : o = SubSeq(t, a + 1, e)
    OBVIOUS
  <2>4. PICK x \in 1 .. Len(t) + 1, y \in 0 .. Len(t) : x = a + 1 /\ y = e
    <3>1. a + 1 \in 1 .. Len(t) + 1 /\ e \in 0 .. Len(t)
      BY <2>2
    <3> QED BY <3>1
  <2>5. /\ SubSeq(t, x, y) \in Seq(Tokens)
        /\ Len(SubSeq(t, x, y)) = IF x <= y THEN y - x + 1 ELSE 0
        /\ \A i \in 1 .. y - x + 1 : SubSeq(t, x, y)[i] = t[x + i - 1]
    BY PartIs
  <2>6. x <= y /\ y - x + 1 = e - a
    BY <2>2, <2>4
  <2>7. o \in Seq(Tokens) /\ Len(o) = e - a /\ \A i \in 1 .. e - a : o[i] = t[(a + 1) + i - 1]
    BY <2>3, <2>4, <2>5, <2>6
  <2>8. StreamObjects(t)[k] = o
    BY <1>3, <2>1, <2>3
  <2> QED BY <2>1, <2>7, <2>8 DEF PartAt
<1> QED BY <1>1, <1>2, <1>4, <1>5

\* No more streams are read than the text has session descriptions.
LEMMA ReadCount ==
  ASSUME NEW t \in Seq(Tokens), NEW objs, objs = StreamObjects(t),
         NEW d, d = [i \in DOMAIN objs |-> ConfigFromJSON(objs[i])]
  PROVE  \E S : /\ FlattenSeq(d) \in Seq(S) /\ Len(FlattenSeq(d)) <= Seen(t, "sdp", Len(t))
                /\ \A r \in S : \E k \in DOMAIN objs : ReadAs(objs[k], r)
<1>1. PICK N \in Nat : N = Len(t)
  BY SeqAt
<1>2. PICK E : E = EndsOf(t)
  OBVIOUS
<1>3. PICK K : K = Cardinality(E)
  OBVIOUS
<1>4. /\ E \in SUBSET (1 .. N) /\ K \in Nat /\ DOMAIN objs = 1 .. K
      /\ \A k \in 1 .. K :
           PartAt(objs[k], t, LastBefore(E, KthOf(E, k)) + 1,
                  KthOf(E, k) - LastBefore(E, KthOf(E, k)))
  BY <1>1, <1>2, <1>3, ObjectParts
<1>5. PICK sd \in Tokens : sd = "sdp"
  BY WordsAre
<1>6. PICK S : S = {d[k][1] : k \in {i \in 1 .. K : d[i] # <<>>}}
  OBVIOUS
<1>7. \A k \in 1 .. K : d[k] = <<>> \/ (d[k] = <<d[k][1]>> /\ d[k][1] \in S /\ ReadAs(objs[k], d[k][1]))
  <2> TAKE k \in 1 .. K
  <2>1. d[k] = ConfigFromJSON(objs[k])
    BY <1>4
  <2>2. CASE d[k] = <<>>
    BY <2>2
  <2>3. CASE d[k] # <<>>
    <3>1. PICK r : ReadAs(objs[k], r)
      BY <2>1, <2>3, ReadAny
    <3>2. d[k] = <<r>>
      BY <2>1, <3>1 DEF ReadAs
    <3>3. d[k][1] = r
      <4>1. <<r>>[1] = r
        OBVIOUS
      <4> QED BY <3>2, <4>1, Zenon
    <3>4. d[k][1] \in S
      BY <1>6, <2>3
    <3> QED BY <3>1, <3>2, <3>3, <3>4
  <2> QED BY <2>2, <2>3
<1>8. \A r \in S : \E k \in DOMAIN objs : ReadAs(objs[k], r)
  <2> TAKE r \in S
  <2>1. PICK k \in 1 .. K : d[k] # <<>> /\ r = d[k][1]
    BY <1>6
  <2>2. ReadAs(objs[k], r)
    BY <1>7, <2>1
  <2> QED BY <1>4, <2>2
<1>9. d \in [1 .. K -> Seq(S)] /\ \A k \in 1 .. K : d[k] \in Seq(S) /\ Len(d[k]) \in {0, 1}
  <2>1. \A k \in 1 .. K : d[k] \in Seq(S) /\ Len(d[k]) \in {0, 1}
    <3> TAKE k \in 1 .. K
    <3>1. CASE d[k] = <<>>
      BY <3>1, EmptySeq
    <3>2. CASE d[k] # <<>>
      <4>1. PICK r \in S : d[k] = <<r>>
        BY <1>7, <3>2
      <4>2. <<r>> \in Seq(S) /\ Len(<<r>>) = 1
        OBVIOUS
      <4> QED BY <4>1, <4>2
    <3> QED BY <3>1, <3>2
  <2>2. d = [i \in 1 .. K |-> d[i]]
    BY <1>4
  <2> QED BY <2>1, <2>2
<1>10. PICK g : Joins(d, K, S, g) /\ FlattenSeq(d) = g[K]
  BY <1>4, <1>9, FlattenIs
<1>11. g[0] = <<>> /\ \A k \in 0 .. K : g[k] \in Seq(S) /\ Len(g[k]) \in Nat
  <2>1. g \in [0 .. K -> Seq(S)] /\ g[0] = <<>>
    BY <1>10 DEF Joins
  <2>2. \A k \in 0 .. K : g[k] \in Seq(S)
    BY <2>1
  <2> QED BY <2>1, <2>2, SeqAt
<1>12. KthFrom(E, 0) = 0
  BY DEF KthFrom
<1> DEFINE G == {k \in 0 .. K : KthFrom(E, k) \in 0 .. N /\ Len(g[k]) <= Seen(t, sd, KthFrom(E, k))}
<1>13. 0 \in G
  <2>1. Seen(t, sd, 0) = 0
    BY SeenIs
  <2>2. Len(g[0]) = 0
    BY <1>11, EmptySeq
  <2> QED BY <1>4, <1>12, <2>1, <2>2
<1>14. ASSUME NEW k \in 0 .. K - 1, k \in G PROVE k + 1 \in G
  <2>1. PICK h \in 1 .. K : h = k + 1 /\ h - 1 = k
    <3>1. k + 1 \in 1 .. K /\ (k + 1) - 1 = k
      BY <1>4
    <3> QED BY <3>1
  <2>2. PICK e, a, p : e = KthOf(E, h) /\ a = LastBefore(E, e) /\ p = KthFrom(E, k)
    OBVIOUS
  <2>3. a \in 0 .. N /\ e \in 1 .. N /\ a < e /\ p \in 0 .. N /\ p <= a
    BY <1>3, <1>4, <2>1, <2>2, KthAfter
  <2>4. KthFrom(E, h) = e
    <3>1. h # 0
      OBVIOUS
    <3> QED BY <2>2, <3>1 DEF KthFrom
  <2>5. Len(g[k]) <= Seen(t, sd, p) /\ Len(g[k]) \in Nat /\ g[k] \in Seq(S)
    BY <1>11, <1>14, <2>2
  <2>6. g[h] = g[k] \o d[h]
    BY <1>10, <2>1 DEF Joins
  <2>7. Len(g[h]) = Len(g[k]) + Len(d[h])
    BY <1>9, <2>5, <2>6, ConcatProperties
  <2>8. /\ Seen(t, sd, p) \in Nat /\ Seen(t, sd, e) \in Nat /\ Seen(t, sd, p) <= Seen(t, sd, e)
        /\ (\E j \in 1 .. Len(t) : p < j /\ j <= e /\ t[j] = sd) => Seen(t, sd, p) + 1 <= Seen(t, sd, e)
    <3>1. p \in Nat /\ e \in Nat /\ p <= e /\ e <= Len(t)
      BY <1>1, <2>3
    <3> QED BY <3>1, SeenMore
  <2>9. Len(g[h]) <= Seen(t, sd, e)
    <3>0. PICK lh, lk, ld, sp, se :
            /\ lh = Len(g[h]) /\ lk = Len(g[k]) /\ ld = Len(d[h])
            /\ sp = Seen(t, sd, p) /\ se = Seen(t, sd, e)
      OBVIOUS
    <3>4. lh = lk + ld /\ lk \in Nat /\ sp \in Nat /\ se \in Nat /\ lk <= sp /\ sp <= se
      BY <2>5, <2>7, <2>8, <3>0
    <3>1. CASE Len(d[h]) = 0
      <4>1. ld = 0
        BY <3>0, <3>1
      <4>2. lh <= se
        BY <3>4, <4>1
      <4> QED BY <3>0, <4>2
    <3>2. CASE Len(d[h]) = 1
      <4>1. d[h] # <<>>
        <5>1. Len(<<>>) # 1
          OBVIOUS
        <5> QED BY <3>2, <5>1, Zenon
      <4>2. ReadAs(objs[h], d[h][1])
        BY <1>7, <4>1
      <4>3. PICK o : o = objs[h]
        OBVIOUS
      <4>4. Has(o, sd)
        BY <1>5, <4>2, <4>3 DEF ReadAs
      <4>5. PartAt(o, t, a + 1, e - a)
        BY <1>4, <2>2, <4>3
      <4>6. o \in Seq(Tokens) /\ Len(o) = e - a /\ \A i \in 1 .. e - a : o[i] = t[(a + 1) + i - 1]
        BY <4>5 DEF PartAt
      <4>7. PICK i \in 1 .. e - a : o[i] = sd
        <5>1. DOMAIN o = 1 .. e - a
          BY <4>6, SeqAt
        <5> QED BY <4>4, <5>1 DEF Has, Where
      <4>8. PICK j \in 1 .. N : j = (a + 1) + i - 1 /\ p < j /\ j <= e
        <5>1. (a + 1) + i - 1 \in 1 .. N /\ p < (a + 1) + i - 1 /\ (a + 1) + i - 1 <= e
          BY <2>3
        <5> QED BY <5>1
      <4>9. t[j] = sd
        BY <4>6, <4>7, <4>8
      <4>10. sp + 1 <= se
        BY <1>1, <2>8, <3>0, <4>8, <4>9
      <4>11. ld = 1
        BY <3>0, <3>2
      <4>12. lh <= se
        BY <3>4, <4>10, <4>11
      <4> QED BY <3>0, <4>12
    <3>3. Len(d[h]) = 0 \/ Len(d[h]) = 1
      BY <1>9
    <3> QED BY <3>1, <3>2, <3>3
  <2>10. KthFrom(E, h) \in 0 .. N /\ Len(g[h]) <= Seen(t, sd, KthFrom(E, h)) /\ h \in 0 .. K
    BY <2>3, <2>4, <2>9
  <2> QED BY <2>1, <2>10
<1>15. K \in G
  <2>1. \A k \in 0 .. K : k \in G
    <3> HIDE DEF G
    <3> QED BY <1>4, <1>13, <1>14, UpTo
  <2>2. K \in 0 .. K
    BY <1>4
  <2> QED BY <2>1, <2>2
<1>16. Len(g[K]) <= Seen(t, sd, N)
  <2>1. PICK p : p = KthFrom(E, K)
    OBVIOUS
  <2>2. p \in 0 .. N /\ Len(g[K]) <= Seen(t, sd, p)
    BY <1>15, <2>1
  <2>3. p \in Nat /\ N \in Nat /\ p <= N /\ N <= Len(t)
    BY <1>1, <2>2
  <2>4. Seen(t, sd, p) \in Nat /\ Seen(t, sd, N) \in Nat /\ Seen(t, sd, p) <= Seen(t, sd, N)
    BY <2>3, SeenMore
  <2>5. K \in 0 .. K
    BY <1>4
  <2> QED BY <1>11, <2>2, <2>4, <2>5
<1>17. FlattenSeq(d) \in Seq(S) /\ Len(FlattenSeq(d)) <= Seen(t, "sdp", Len(t))
  <2>1. K \in 0 .. K
    BY <1>4
  <2> QED BY <1>1, <1>5, <1>10, <1>11, <1>16, <2>1
<1> QED BY <1>8, <1>17

\* After "sessionName" and a quote come characters up to the next quote.
Tame(t, n) ==
  \A i \in 1 .. n : t[i] = "sessionName" =>
    \A j \in i + 2 .. n : (\A k \in i + 2 .. j : t[k] # Quote) => t[j] \in Chars

\* A part of such a text is such a text.
LEMMA TamePart ==
  ASSUME NEW t, NEW n \in Nat, Tame(t, n), NEW s, NEW a \in Nat, NEW l \in Nat, a >= 1,
         a + l - 1 <= n, PartAt(s, t, a, l)
  PROVE  Tame(s, l)
<1>1. \A j \in 1 .. l : s[j] = t[a + j - 1]
  BY DEF PartAt
<1>2. ASSUME NEW i \in 1 .. l, s[i] = "sessionName", NEW j \in i + 2 .. l,
             \A k \in i + 2 .. j : s[k] # Quote
      PROVE  s[j] \in Chars
  <2>1. PICK p \in 1 .. n, q \in 1 .. n : p = a + i - 1 /\ q = a + j - 1
    <3>1. a + i - 1 \in 1 .. n /\ a + j - 1 \in 1 .. n
      OBVIOUS
    <3> QED BY <3>1
  <2>2. t[p] = "sessionName" /\ s[j] = t[q] /\ q \in p + 2 .. n
    <3>1. j \in 1 .. l
      OBVIOUS
    <3>2. s[i] = t[p] /\ s[j] = t[q]
      BY <1>1, <2>1, <3>1
    <3>3. q \in p + 2 .. n
      BY <2>1
    <3> QED BY <1>2, <3>2, <3>3
  <2>3. ASSUME NEW k \in p + 2 .. q PROVE t[k] # Quote
    <3>1. PICK m \in i + 2 .. j : k = a + m - 1
      <4>1. k - a + 1 \in i + 2 .. j /\ k = a + (k - a + 1) - 1
        BY <2>1
      <4> QED BY <4>1
    <3>2. m \in 1 .. l
      OBVIOUS
    <3>3. s[m] = t[k]
      BY <1>1, <3>1, <3>2
    <3> QED BY <1>2, <3>3
  <2>4. t[q] \in Chars
    BY <2>2, <2>3 DEF Tame
  <2> QED BY <2>2, <2>4
<1> QED BY <1>2 DEF Tame

\* What is read as a name in such a text is made of characters.
LEMMA TameName ==
  ASSUME NEW s \in Seq(Tokens), NEW n \in Nat, n = Len(s), Tame(s, n),
         NEW nm, nm = ExtractString(s, "sessionName"), nm # <<>>
  PROVE  nm \in Seq(Chars)
<1>1. DOMAIN s = 1 .. n
  BY SeqAt
<1> DEFINE keys == {i \in Where(s, "sessionName") : i + 1 \in DOMAIN s /\ s[i + 1] = Quote}
<1>2. keys = {i \in 1 .. n : s[i] = "sessionName" /\ i + 1 \in 1 .. n /\ s[i + 1] = Quote}
  BY <1>1 DEF Where
<1>3. nm = IF keys = {} THEN <<>>
           ELSE LET from == First(keys) + 2
                    es == {i \in Where(s, Quote) : i >= from}
                IN  IF es = {} THEN <<>> ELSE SubSeq(s, from, First(es) - 1)
  BY DEF ExtractString
<1>4. keys # {}
  <2> HIDE DEF keys
  <2> QED BY <1>3
<1>5. PICK i \in 1 .. n : i = First(keys) /\ s[i] = "sessionName" /\ i + 1 \in 1 .. n
  <2>1. keys \in SUBSET Nat
    <3>1. \A j \in 1 .. n : j \in Nat
      OBVIOUS
    <3>2. \A j \in keys : j \in 1 .. n
      BY <1>2, Zenon
    <3> HIDE DEF keys
    <3> QED BY <3>1, <3>2
  <2>2. First(keys) \in keys
    <3> HIDE DEF keys
    <3> QED BY <1>4, <2>1, FirstExists
  <2> QED BY <1>2, <2>2, Zenon
<1>6. PICK f \in Nat : f = i + 2 /\ f = First(keys) + 2 /\ f >= 3 /\ f <= n + 1
  <2>1. i + 2 \in Nat /\ i + 2 >= 3 /\ i + 2 <= n + 1
    BY <1>5
  <2> HIDE DEF keys
  <2> QED BY <1>5, <2>1
<1> DEFINE es == {j \in Where(s, Quote) : j >= f}
<1>7. nm = IF es = {} THEN <<>> ELSE SubSeq(s, f, First(es) - 1)
  <2> HIDE DEF keys
  <2> QED BY <1>3, <1>4, <1>6
<1>8. es # {}
  <2> HIDE DEF es
  <2> QED BY <1>7
<1>9. es = {j \in 1 .. n : s[j] = Quote /\ j >= f}
  BY <1>1 DEF Where
<1>10. PICK e \in 1 .. n : e = First(es) /\ e >= f /\ \A j \in es : e <= j
  <2>1. es \in SUBSET Nat
    <3>1. \A j \in 1 .. n : j \in Nat
      OBVIOUS
    <3>2. \A j \in es : j \in 1 .. n
      BY <1>9, Zenon
    <3> HIDE DEF es
    <3> QED BY <3>1, <3>2
  <2>2. First(es) \in es /\ \A j \in es : First(es) <= j
    <3> HIDE DEF es
    <3> QED BY <1>8, <2>1, FirstExists
  <2>3. First(es) \in 1 .. n /\ First(es) >= f
    BY <1>9, <2>2, Zenon
  <2> HIDE DEF es
  <2> QED BY <2>2, <2>3
<1>11. nm = SubSeq(s, f, e - 1)
  <2> HIDE DEF es
  <2> QED BY <1>7, <1>8, <1>10
<1>12. \A j \in f .. e - 1 : s[j] # Quote
  <2> TAKE j \in f .. e - 1
  <2>1. j \in 1 .. n /\ ~(e <= j) /\ j >= f
    BY <1>6
  <2>2. j \notin es
    <3> HIDE DEF es
    <3> QED BY <1>10, <2>1
  <2> QED BY <1>9, <2>1, <2>2
<1>13. PICK a \in 1 .. Len(s) + 1, b \in 0 .. Len(s) : a = f /\ b = e - 1
  <2>1. f \in 1 .. Len(s) + 1 /\ e - 1 \in 0 .. Len(s)
    BY <1>6
  <2> QED BY <2>1
<1>14. PICK l \in Nat : l = e - f
  <2>1. e - f \in Nat
    BY <1>10
  <2> QED BY <2>1
<1>15. nm \in Seq(Tokens) /\ Len(nm) = l /\ \A k \in 1 .. l : nm[k] = s[f + k - 1]
  <2>1. /\ SubSeq(s, a, b) \in Seq(Tokens)
        /\ Len(SubSeq(s, a, b)) = IF a <= b THEN b - a + 1 ELSE 0
        /\ \A k \in 1 .. b - a + 1 : SubSeq(s, a, b)[k] = s[a + k - 1]
    BY PartIs
  <2>2. b - a + 1 = l /\ (a <= b \/ l = 0)
    BY <1>10, <1>13, <1>14
  <2> QED BY <1>11, <1>13, <2>1, <2>2
<1>16. \A k \in 1 .. l : nm[k] \in Chars
  <2> TAKE k \in 1 .. l
  <2>1. PICK j \in i + 2 .. n : j = f + k - 1 /\ j <= e - 1
    <3>1. f + k - 1 \in i + 2 .. n /\ f + k - 1 <= e - 1
      BY <1>6, <1>14
    <3> QED BY <3>1
  <2>2. \A h \in i + 2 .. j : s[h] # Quote
    <3> TAKE h \in i + 2 .. j
    <3>1. h \in f .. e - 1
      BY <1>6, <2>1
    <3> QED BY <1>12, <3>1
  <2>3. s[j] \in Chars
    BY <1>5, <2>2 DEF Tame
  <2> QED BY <1>15, <2>1, <2>3
<1>17. nm \in [1 .. l -> Chars]
  <2>1. DOMAIN nm = 1 .. l
    BY <1>15, SeqAt
  <2>2. nm = [k \in DOMAIN nm |-> nm[k]]
    BY <1>15, LenProperties
  <2> QED BY <1>16, <2>1, <2>2
<1> QED BY <1>17, SeqDef

\* The streams of a file are such a text, whatever their names hold.
LEMMA FileIsTame ==
  ASSUME NEW cs, NEW n, NEW objs, NEW ws, NEW F, NEW L, Laid(cs, n, objs, ws, F, L),
         NEW m \in Nat, m = Len(F)
  PROVE  Tame(F, m)
<1>1. ASSUME NEW i \in 1 .. m, F[i] = "sessionName", NEW j \in i + 2 .. m,
             \A k \in i + 2 .. j : F[k] # Quote
      PROVE  F[j] \in Chars
  <2>1. PICK h \in 1 .. n : L[h - 1] < i /\ i <= L[h]
    BY Places
  <2>2. PICK o, w, c : o = objs[h] /\ w = ws[h] /\ c = cs[h]
    OBVIOUS
  <2>3. ObjectOf(o, w, c)
    BY <2>2 DEF Laid
  <2>4. PICK q \in Nat : q = Len(w)
    BY <2>3, SeqAt DEF ObjectOf
  <2>5. Len(o) = 21 + 2 * q
    BY <2>3, <2>4, ObjectCounts
  <2>6. PICK b \in Nat : b = L[h - 1]
    <3>1. L \in [0 .. n -> Nat] /\ n \in Nat
      BY Places DEF Laid
    <3>2. h - 1 \in 0 .. n
      BY <3>1
    <3> QED BY <3>1, <3>2
  <2>7. L[h] = b + 21 + 2 * q /\ \A p \in 1 .. 21 + 2 * q : F[b + p] = o[p]
    <3>1. L[h] = L[h - 1] + Len(objs[h]) /\ \A p \in 1 .. Len(objs[h]) : F[L[h - 1] + p] = objs[h][p]
      BY DEF Laid
    <3>2. L[h] = b + (21 + 2 * q) /\ \A p \in 1 .. 21 + 2 * q : F[b + p] = o[p]
      BY <2>2, <2>5, <2>6, <3>1
    <3> QED BY <3>2
  <2>8. PICK p \in 1 .. 21 + 2 * q : i = b + p
    <3>1. i - b \in 1 .. 21 + 2 * q /\ i = b + (i - b)
      BY <2>1, <2>6, <2>7
    <3> QED BY <3>1
  <2>9. o[p] = "sessionName"
    BY <1>1, <2>7, <2>8
  <2>10. p = 10
    <3>1. WordsAt(o, q, p)
      BY <2>3, <2>4, ObjectTokens
    <3> QED BY <2>9, <3>1 DEF WordsAt
  <2>11. w \in Seq(Chars) /\ q >= 3 /\ w[q] = Quote
    <3>1. QuoteOf(w, c.name) /\ c.name # <<>>
      BY <2>3 DEF ObjectOf, Configs
    <3> QED BY <2>4, <3>1 DEF QuoteOf
  <2>12. \A k \in 1 .. q : F[b + 10 + k] = w[k]
    <3> TAKE k \in 1 .. q
    <3>1. PICK x \in 1 .. 21 + 2 * q : x = 10 + k /\ b + x = b + 10 + k
      <4>1. 10 + k \in 1 .. 21 + 2 * q /\ b + (10 + k) = b + 10 + k
        OBVIOUS
      <4> QED BY <4>1
    <3>2. o[10 + k] = w[k]
      BY <2>3, <2>4 DEF ObjectOf, Object
    <3> QED BY <2>7, <3>1, <3>2
  <2>13. j <= b + 10 + q
    <3>1. ASSUME ~(j <= b + 10 + q) PROVE FALSE
      <4>1. PICK x \in i + 2 .. j : x = b + 10 + q
        <5>1. b + 10 + q \in i + 2 .. j
          BY <2>8, <2>10, <2>11, <3>1
        <5> QED BY <5>1
      <4>2. q \in 1 .. q
        BY <2>11
      <4>3. F[x] = Quote
        BY <2>11, <2>12, <4>1, <4>2
      <4> QED BY <1>1, <4>1, <4>3
    <3> QED BY <3>1
  <2>14. PICK k \in 1 .. q : j = b + 10 + k
    <3>1. j - b - 10 \in 1 .. q /\ j = b + 10 + (j - b - 10)
      BY <2>8, <2>10, <2>13
    <3> QED BY <3>1
  <2>15. F[j] = w[k]
    BY <2>12, <2>14
  <2> QED BY <2>4, <2>11, <2>15, SeqAt
<1> QED BY <1>1 DEF Tame

\* What is read of an object of a tame text has a name of characters.
LEMMA NestedTame ==
  ASSUME NEW o \in Seq(Tokens), NEW n \in Nat, n = Len(o), Tame(o, n)
  PROVE  \A nm : nm = ExtractString(Nested(o, "sdp"), "sessionName") /\ nm # <<>> => nm \in Seq(Chars)
<1> SUFFICES ASSUME NEW nm, nm = ExtractString(Nested(o, "sdp"), "sessionName"), nm # <<>>
             PROVE  nm \in Seq(Chars)
  OBVIOUS
<1>1. DOMAIN o = 1 .. n
  BY SeqAt
<1>2. PICK s : s = Nested(o, "sdp")
  OBVIOUS
<1>3. s # <<>>
  BY <1>2, NothingIn
<1>4. PICK K : K = Where(o, "sdp")
  OBVIOUS
<1>5. PICK es : es = {i \in Where(o, "}") : K # {} /\ i > First(K)}
  OBVIOUS
<1>6. s = IF es = {} THEN <<>> ELSE SubSeq(o, First(K), First(es) - 1)
  BY <1>2, <1>4, <1>5 DEF Nested
<1>7. es # {} /\ K # {}
  <2>1. es # {}
    BY <1>3, <1>6
  <2> QED BY <1>5, <2>1
<1>8. PICK a \in 1 .. n : a = First(K)
  <2>1. K \in SUBSET Nat /\ \A k \in K : k \in 1 .. n
    BY <1>1, <1>4 DEF Where
  <2>2. First(K) \in K
    BY <1>7, <2>1, FirstExists
  <2> QED BY <2>1, <2>2
<1>9. PICK e \in 1 .. n : e = First(es) /\ e > a
  <2>1. es \in SUBSET Nat /\ \A k \in es : k \in 1 .. n /\ k > a
    <3>1. \A k \in es : k \in DOMAIN o /\ k > First(K)
      BY <1>5 DEF Where
    <3>2. \A k \in es : k \in 1 .. n /\ k > a
      BY <1>1, <1>8, <3>1
    <3> QED BY <3>2
  <2>2. First(es) \in es
    BY <1>7, <2>1, FirstExists
  <2> QED BY <2>1, <2>2
<1>10. PICK x \in 1 .. Len(o) + 1, y \in 0 .. Len(o) : x = a /\ y = e - 1
  <2>1. a \in 1 .. Len(o) + 1 /\ e - 1 \in 0 .. Len(o)
    OBVIOUS
  <2> QED BY <2>1
<1>11. PICK l \in Nat : l = e - a
  <2>1. e - a \in Nat
    BY <1>9
  <2> QED BY <2>1
<1>12. /\ SubSeq(o, x, y) \in Seq(Tokens)
       /\ Len(SubSeq(o, x, y)) = IF x <= y THEN y - x + 1 ELSE 0
       /\ \A i \in 1 .. y - x + 1 : SubSeq(o, x, y)[i] = o[x + i - 1]
  BY PartIs
<1>13. x <= y /\ y - x + 1 = l
  BY <1>9, <1>10, <1>11
<1>14. s = SubSeq(o, x, y)
  BY <1>6, <1>7, <1>8, <1>9, <1>10
<1>15. s \in Seq(Tokens) /\ Len(s) = l /\ \A i \in 1 .. l : s[i] = o[a + i - 1]
  BY <1>10, <1>12, <1>13, <1>14
<1>16. PartAt(s, o, a, l)
  BY <1>15 DEF PartAt
<1>17. Tame(s, l)
  <2>1. a \in Nat /\ a >= 1 /\ a + l - 1 <= n
    BY <1>11
  <2> QED BY <1>16, <2>1, TamePart
<1> QED BY <1>2, <1>15, <1>17, TameName

\* A stream that is loaded, whatever the names in the file hold.
Usable(r) == r.name \in Seq(Chars) \ {<<>>} /\ r.enabled \in BOOLEAN

\* What is loaded can be saved again, and there is no more of it than was
\* saved.
LEMMA LoadedAny ==
  ASSUME NEW cs \in Seq(Configs), NEW T, T = ToJSON(cs), NEW v, PartOf(v, T)
  PROVE  \/ FromJSON(v) = <<FALSE, <<>>>>
         \/ \E S : \E R \in Seq(S) :
              FromJSON(v) = <<TRUE, R>> /\ Len(R) <= Len(cs) /\ \A r \in S : Usable(r)
<1>1. PICK n \in Nat : n = Len(cs)
  BY SeqAt
<1>2. PICK objs, ws, F, L : Laid(cs, n, objs, ws, F, L) /\ objs = ObjectTexts(cs) /\ F = FlattenSeq(objs)
  BY <1>1, IsLaid
<1>3. PICK m \in Nat : m = Len(F)
  BY <1>2, SeqAt DEF Laid
<1>4. FileOf(T, F, m)
  <2>1. F \in Seq(Tokens) /\ F = FlattenSeq(ObjectTexts(cs))
    BY <1>2 DEF Laid
  <2> QED BY <1>3, <2>1, FileIs
<1>5. CASE StreamsContent(v) = <<FALSE, <<>>>>
  BY <1>5 DEF FromJSON
<1>6. ASSUME NEW C, StreamsContent(v) = <<TRUE, C>>, PartOf(C, F)
      PROVE  \E S : \E R \in Seq(S) :
               FromJSON(v) = <<TRUE, R>> /\ Len(R) <= Len(cs) /\ \A r \in S : Usable(r)
  <2>1. C \in Seq(Tokens) /\ F \in Seq(Tokens)
    BY <1>2, <1>6 DEF PartOf, Laid
  <2>2. PICK l \in Nat : l = Len(C)
    BY <2>1, SeqAt
  <2>3. l <= m /\ \A i \in 1 .. l : C[i] = F[i]
    BY <1>3, <1>6, <2>2 DEF PartOf
  <2>4. PICK ob, d : ob = StreamObjects(C) /\ d = [i \in DOMAIN ob |-> ConfigFromJSON(ob[i])]
    OBVIOUS
  <2>5. PICK S : /\ FlattenSeq(d) \in Seq(S) /\ Len(FlattenSeq(d)) <= Seen(C, "sdp", Len(C))
                 /\ \A r \in S : \E k \in DOMAIN ob : ReadAs(ob[k], r)
    BY <2>1, <2>4, ReadCount
  <2>6. Seen(C, "sdp", l) <= n /\ Seen(C, "sdp", l) \in Nat
    <3>1. PICK sd \in Tokens : sd = "sdp"
      BY WordsAre
    <3>2. Seen(C, sd, l) = Seen(F, sd, l)
      <4>1. l \in 0 .. Len(C) /\ l <= Len(F)
        BY <1>3, <2>2, <2>3
      <4> QED BY <2>1, <2>3, <4>1, SeenAgrees
    <3>3. Seen(F, sd, l) <= Seen(F, sd, m) /\ Seen(F, sd, l) \in Nat
      <4>1. m <= Len(F)
        BY <1>3
      <4> QED BY <2>1, <2>3, <4>1, SeenMore
    <3>4. Seen(F, sd, m) = n
      <4>1. \A k \in 0 .. n : Seen(F, "sdp", L[k]) = k
        BY <1>2, SdpCount
      <4>2. L[n] = m /\ n \in 0 .. n
        BY <1>2, <1>3 DEF Laid
      <4> QED BY <3>1, <4>1, <4>2
    <3> QED BY <3>1, <3>2, <3>3, <3>4
  <2>7. Len(FlattenSeq(d)) <= Len(cs)
    <3>1. Len(FlattenSeq(d)) \in Nat
      BY <2>5, SeqAt
    <3> QED BY <1>1, <2>2, <2>5, <2>6, <3>1
  <2>8. Tame(C, l)
    <3>1. Tame(F, m)
      BY <1>2, <1>3, FileIsTame
    <3>2. PICK a \in Nat : a = 1
      OBVIOUS
    <3>3. PartAt(C, F, a, l)
      BY <2>1, <2>2, <2>3, <3>2 DEF PartAt
    <3>4. a >= 1 /\ a + l - 1 <= m
      BY <2>3, <3>2
    <3> QED BY <3>1, <3>3, <3>4, TamePart
  <2>9. \A r \in S : Usable(r)
    <3> TAKE r \in S
    <3>1. PICK k \in DOMAIN ob : ReadAs(ob[k], r)
      BY <2>5
    <3>2. PICK E : E = EndsOf(C)
      OBVIOUS
    <3>3. k \in 1 .. Cardinality(E) /\ E \in SUBSET (1 .. l)
      BY <2>1, <2>2, <2>4, <3>2, ObjectParts
    <3>4. PICK o, a, e : o = ob[k] /\ e = KthOf(E, k) /\ a = LastBefore(E, e)
      OBVIOUS
    <3>5. PartAt(o, C, a + 1, e - a)
      BY <2>1, <2>2, <2>4, <3>2, <3>3, <3>4, ObjectParts
    <3>6. a \in 0 .. l /\ e \in 1 .. l /\ a < e
      BY <3>3, <3>4, KthAfter
    <3>7. PICK x \in Nat, h \in Nat : x = a + 1 /\ h = e - a
      <4>1. a + 1 \in Nat /\ e - a \in Nat
        BY <3>6
      <4> QED BY <4>1
    <3>8. PartAt(o, C, x, h)
      BY <3>5, <3>7
    <3>9. Tame(o, h)
      <4>1. x >= 1 /\ x + h - 1 <= l
        BY <3>6, <3>7
      <4> QED BY <2>8, <3>8, <4>1, TamePart
    <3>10. o \in Seq(Tokens) /\ Len(o) = h
      BY <3>8 DEF PartAt
    <3>11. PICK nm : nm = ExtractString(Nested(o, "sdp"), "sessionName")
      OBVIOUS
    <3>12. r.name = nm /\ nm # <<>> /\ r.enabled \in BOOLEAN
      BY <3>1, <3>4, <3>11 DEF ReadAs
    <3>13. nm \in Seq(Chars)
      BY <3>9, <3>10, <3>11, <3>12, NestedTame
    <3> QED BY <3>12, <3>13 DEF Usable
  <2>10. FromJSON(v) = <<TRUE, FlattenSeq(d)>>
    BY <1>6, <2>4 DEF FromJSON
  <2> QED BY <2>5, <2>7, <2>9, <2>10
<1>7. StreamsContent(v) = <<FALSE, <<>>>> \/ \E C : StreamsContent(v) = <<TRUE, C>> /\ PartOf(C, F)
  BY <1>4, ContentPart
<1> QED BY <1>5, <1>6, <1>7

\* The enabled streams are some of the streams.
LEMMA EnabledIs ==
  ASSUME NEW S, NEW R \in Seq(S)
  PROVE  EnabledOf(R) \in Seq({r \in S : r.enabled}) /\ Len(EnabledOf(R)) <= Len(R)
<1>1. PICK n \in Nat : n = Len(R) /\ DOMAIN R = 1 .. n
  BY SeqAt
<1>2. PICK U : U = {r \in S : r.enabled}
  OBVIOUS
<1>3. PICK d : d = [i \in 1 .. n |-> IF R[i].enabled THEN <<R[i]>> ELSE <<>>]
  OBVIOUS
<1>4. EnabledOf(R) = FlattenSeq(d)
  BY <1>1, <1>3 DEF EnabledOf
<1>5. \A i \in 1 .. n : d[i] \in Seq(U) /\ Len(d[i]) \in {0, 1}
  <2> TAKE i \in 1 .. n
  <2>1. PICK r \in S : r = R[i]
    BY <1>1, SeqAt
  <2>2. CASE r.enabled
    <3>1. PICK u \in U : u = r
      BY <1>2, <2>2
    <3>2. <<u>> \in Seq(U) /\ Len(<<u>>) = 1
      OBVIOUS
    <3>3. d[i] = <<u>>
      BY <1>3, <2>1, <2>2, <3>1
    <3> QED BY <3>2, <3>3
  <2>3. CASE ~r.enabled
    <3>1. d[i] = <<>>
      BY <1>3, <2>1, <2>3
    <3> QED BY <3>1, EmptySeq
  <2> QED BY <2>2, <2>3
<1>6. d \in [1 .. n -> Seq(U)]
  <2>1. d = [i \in 1 .. n |-> d[i]]
    BY <1>3
  <2> QED BY <1>5, <2>1
<1>7. PICK g : Joins(d, n, U, g) /\ FlattenSeq(d) = g[n]
  BY <1>6, FlattenIs
<1>8. g[0] = <<>> /\ \A k \in 0 .. n : g[k] \in Seq(U) /\ Len(g[k]) \in Nat
  <2>1. g \in [0 .. n -> Seq(U)] /\ g[0] = <<>>
    BY <1>7 DEF Joins
  <2>2. \A k \in 0 .. n : g[k] \in Seq(U)
    BY <2>1
  <2> QED BY <2>1, <2>2, SeqAt
<1> DEFINE G == {k \in 0 .. n : Len(g[k]) <= k}
<1>9. 0 \in G
  <2>1. Len(g[0]) = 0
    BY <1>8, EmptySeq
  <2> QED BY <2>1
<1>10. ASSUME NEW k \in 0 .. n - 1, k \in G PROVE k + 1 \in G
  <2>1. PICK h \in 1 .. n : h = k + 1 /\ h - 1 = k
    <3>1. k + 1 \in 1 .. n /\ (k + 1) - 1 = k
      OBVIOUS
    <3> QED BY <3>1
  <2>2. g[h] = g[k] \o d[h] /\ g[k] \in Seq(U) /\ d[h] \in Seq(U) /\ Len(g[k]) \in Nat
    <3>1. g[h] = g[h - 1] \o d[h]
      BY <1>7 DEF Joins
    <3>2. k \in 0 .. n
      OBVIOUS
    <3>3. g[k] \in Seq(U) /\ Len(g[k]) \in Nat
      BY <1>8, <3>2
    <3> QED BY <1>5, <2>1, <3>1, <3>3
  <2>3. Len(g[h]) = Len(g[k]) + Len(d[h])
    BY <2>2, ConcatProperties
  <2>4. Len(d[h]) = 0 \/ Len(d[h]) = 1
    BY <1>5
  <2>5. PICK lk, ld : lk = Len(g[k]) /\ ld = Len(d[h])
    OBVIOUS
  <2>6. lk \in Nat /\ lk <= k /\ (ld = 0 \/ ld = 1) /\ Len(g[h]) = lk + ld
    BY <1>10, <2>2, <2>3, <2>4, <2>5
  <2>7. Len(g[h]) <= h
    BY <2>1, <2>6
  <2> QED BY <2>1, <2>7
<1>11. \A k \in 0 .. n : k \in G
  <2> HIDE DEF G
  <2> QED BY <1>9, <1>10, UpTo
<1>12. Len(g[n]) <= n /\ g[n] \in Seq(U)
  <2>1. n \in 0 .. n
    OBVIOUS
  <2> QED BY <1>8, <1>11, <2>1
<1> QED BY <1>1, <1>2, <1>4, <1>7, <1>12

-----------------------------------------------------------------------------
(* What is saved is loaded                                                  *)

\* The streams of the manager can be saved; the file is what was written, or
\* the beginning of it.
HeldOK == \E S : /\ held \in Seq(S) /\ Len(held) <= MaxStreams
                 /\ \A r \in S : Usable(r) /\ r.enabled
FileOK ==
  /\ onFile \in Seq(Configs) /\ Len(onFile) <= MaxStreams
  /\ ~torn /\ file # NoText => file = ToJSON(onFile)
  /\ torn => PartOf(file, ToJSON(onFile))
ConfigIInv ==
  /\ pc \in {"up", "saving", "starting"} /\ torn \in BOOLEAN
  /\ HeldOK /\ FileOK

\* The file is its own beginning.
LEMMA TextIs ==
  ASSUME NEW cs \in Seq(Configs), NEW T, T = ToJSON(cs)
  PROVE  T \in Seq(Tokens) /\ PartOf(T, T) /\ Len(T) \in Nat
<1>1. PICK n \in Nat : n = Len(cs)
  BY SeqAt
<1>2. PICK objs, ws, F, L : Laid(cs, n, objs, ws, F, L) /\ objs = ObjectTexts(cs) /\ F = FlattenSeq(objs)
  BY <1>1, IsLaid
<1>3. PICK m \in Nat : m = Len(F)
  BY <1>2, SeqAt DEF Laid
<1>4. FileOf(T, F, m)
  <2>1. F \in Seq(Tokens) /\ F = FlattenSeq(ObjectTexts(cs))
    BY <1>2 DEF Laid
  <2> QED BY <1>3, <2>1, FileIs
<1>5. T \in Seq(Tokens)
  BY <1>4 DEF FileOf
<1>6. Len(T) \in Nat
  BY <1>5, SeqAt
<1> QED BY <1>5, <1>6 DEF PartOf

\* A file that was cut short is the beginning of the whole.
LEMMA BeginningIs ==
  ASSUME NEW T \in Seq(Tokens), NEW n \in 0 .. Len(T) - 1
  PROVE  PartOf(SubSeq(T, 1, n), T)
<1>1. Len(T) \in Nat
  BY SeqAt
<1>2. PICK a \in 1 .. Len(T) + 1, b \in 0 .. Len(T) : a = 1 /\ b = n
  <2>1. 1 \in 1 .. Len(T) + 1 /\ n \in 0 .. Len(T)
    BY <1>1
  <2> QED BY <2>1
<1>3. PICK v : v = SubSeq(T, a, b)
  OBVIOUS
<1>4. /\ v \in Seq(Tokens) /\ Len(v) = IF a <= b THEN b - a + 1 ELSE 0
      /\ \A i \in 1 .. b - a + 1 : v[i] = T[a + i - 1]
  BY <1>3, PartIs
<1>5. Len(v) = n /\ b - a + 1 = n /\ \A i \in 1 .. n : a + i - 1 = i
  BY <1>1, <1>2, <1>4
<1>6. Len(v) <= Len(T) /\ \A i \in 1 .. Len(v) : v[i] = T[i]
  <2>1. \A i \in 1 .. n : v[i] = T[a + i - 1]
    BY <1>4, <1>5
  <2>2. \A i \in 1 .. n : v[i] = T[i]
    <3> TAKE i \in 1 .. n
    <3>1. v[i] = T[a + i - 1] /\ a + i - 1 = i
      BY <1>5, <2>1
    <3> QED BY <3>1
  <2>3. n <= Len(T)
    BY <1>1
  <2> QED BY <1>5, <2>2, <2>3
<1>7. PartOf(v, T)
  BY <1>4, <1>6 DEF PartOf
<1> QED BY <1>2, <1>3, <1>7

\* What createConfig makes can be saved.
LEMMA CreatedIs ==
  ASSUME NEW nm \in Seq(Chars) \ {<<>>}, NEW c, c = CreateConfig(nm)
  PROVE  c \in Configs /\ Usable(c) /\ c.enabled /\ c.name = nm
BY DEF CreateConfig, Configs, Usable

\* What is saved has the types of configurations.
LEMMA SavedIs ==
  ASSUME HeldOK
  PROVE  Saved \in Seq(Configs) /\ Len(Saved) <= MaxStreams
<1>1. PICK S : held \in Seq(S) /\ Len(held) <= MaxStreams /\ \A r \in S : Usable(r) /\ r.enabled
  BY DEF HeldOK
<1>2. PICK n \in Nat : n = Len(held) /\ DOMAIN held = 1 .. n
  BY <1>1, SeqAt
<1>3. \A i \in 1 .. n : CreateConfig(held[i].name) \in Configs
  <2> TAKE i \in 1 .. n
  <2>1. PICK r \in S : r = held[i]
    BY <1>1, <1>2, SeqAt
  <2>2. r.name \in Seq(Chars) \ {<<>>}
    BY <1>1 DEF Usable
  <2> QED BY <2>1, <2>2, CreatedIs
<1>4. Saved \in [1 .. n -> Configs] /\ DOMAIN Saved = 1 .. n
  BY <1>2, <1>3 DEF Saved
<1>5. Saved \in Seq(Configs)
  BY <1>4, SeqDef
<1>6. Len(Saved) = n
  <2>1. Len(Saved) \in Nat /\ DOMAIN Saved = 1 .. Len(Saved)
    BY <1>5, SeqAt
  <2> QED BY <1>4, <2>1
<1> QED BY <1>1, <1>2, <1>5, <1>6

\* An empty manager can be saved.
LEMMA NoneHeld ==
  ASSUME NEW h, h = <<>>
  PROVE  \E S : h \in Seq(S) /\ Len(h) <= MaxStreams /\ \A r \in S : Usable(r) /\ r.enabled
<1>1. PICK S : S = {}
  OBVIOUS
<1>2. h \in Seq(S) /\ Len(h) = 0
  BY EmptySeq
<1>3. 0 <= MaxStreams
  BY ConfigAssumption
<1>4. \A r \in S : Usable(r) /\ r.enabled
  BY <1>1
<1> QED BY <1>2, <1>3, <1>4

\* Nothing is held and nothing written at first.
LEMMA ConfigInitOK == ConfigInit => ConfigIInv
<1> SUFFICES ASSUME ConfigInit PROVE ConfigIInv
  OBVIOUS
<1>1. HeldOK
  BY NoneHeld DEF ConfigInit, HeldOK
<1>2. onFile \in Seq(Configs) /\ Len(onFile) = 0
  BY EmptySeq DEF ConfigInit
<1>3. FileOK
  BY <1>2, ConfigAssumption DEF ConfigInit, FileOK
<1> QED BY <1>1, <1>3 DEF ConfigInit, ConfigIInv

\* A stream that is added can be saved.
LEMMA AddOK ==
  ASSUME ConfigIInv, NEW name \in Names, AddStream(name)
  PROVE  HeldOK'
<1>1. PICK S : held \in Seq(S) /\ Len(held) <= MaxStreams /\ \A r \in S : Usable(r) /\ r.enabled
  BY DEF ConfigIInv, HeldOK
<1>2. PICK c : c = CreateConfig(name)
  OBVIOUS
<1>3. Usable(c) /\ c.enabled
  <2>1. name \in Seq(Chars) \ {<<>>}
    BY ConfigAssumption
  <2> QED BY <1>2, <2>1, CreatedIs
<1>4. PICK U : U = S \cup {c}
  OBVIOUS
<1>5. held \in Seq(U) /\ c \in U
  <2>1. PICK n \in Nat : n = Len(held) /\ DOMAIN held = 1 .. n
    BY <1>1, SeqAt
  <2>2. \A i \in 1 .. n : held[i] \in U
    <3> TAKE i \in 1 .. n
    <3>1. held[i] \in S
      BY <1>1, <2>1, SeqAt
    <3> QED BY <1>4, <3>1
  <2>3. held = [i \in 1 .. n |-> held[i]]
    BY <1>1, <2>1, LenProperties
  <2>4. held \in [1 .. n -> U]
    BY <2>2, <2>3
  <2> QED BY <1>4, <2>4, SeqDef
<1>6. held' = Append(held, c) /\ Len(held) < MaxStreams
  BY <1>2 DEF AddStream
<1>7. held' \in Seq(U) /\ Len(held') = Len(held) + 1
  BY <1>5, <1>6, AppendProperties
<1>8. Len(held') <= MaxStreams
  <2>1. Len(held) \in Nat /\ MaxStreams \in Nat
    BY <1>1, SeqAt, ConfigAssumption
  <2> QED BY <1>6, <1>7, <2>1
<1>9. \A r \in U : Usable(r) /\ r.enabled
  BY <1>1, <1>3, <1>4
<1> QED BY <1>7, <1>8, <1>9 DEF HeldOK

\* What is left after a removal can be saved.
LEMMA RemoveOK ==
  ASSUME ConfigIInv, RemoveStream
  PROVE  HeldOK'
<1>1. PICK S : held \in Seq(S) /\ Len(held) <= MaxStreams /\ \A r \in S : Usable(r) /\ r.enabled
  BY DEF ConfigIInv, HeldOK
<1>2. held # <<>> /\ held' = Tail(held)
  BY DEF RemoveStream
<1>3. Tail(held) \in Seq(S) /\ Len(Tail(held)) = Len(held) - 1
  BY <1>1, <1>2, HeadTailProperties
<1>4. Len(held') <= MaxStreams
  <2>1. Len(held) \in Nat /\ MaxStreams \in Nat
    BY <1>1, SeqAt, ConfigAssumption
  <2> QED BY <1>1, <1>2, <1>3, <2>1
<1> QED BY <1>1, <1>2, <1>3, <1>4 DEF HeldOK

\* An edited file is what would have been written from the edited fields.
LEMMA EditOK ==
  ASSUME ConfigIInv, EditConfigFile
  PROVE  FileOK'
<1>1. PICK i \in Interfaces, on \in BOOLEAN, d \in {0, 64} :
        LET new == [onFile EXCEPT ![1].interface = i, ![1].enabled = on, ![1].depth = d]
        IN  file' = ToJSON(new) /\ onFile' = new
  BY DEF EditConfigFile
<1>2. PICK n \in Nat : /\ onFile \in Seq(Configs) /\ n = Len(onFile)
                     /\ n <= MaxStreams /\ DOMAIN onFile = 1 .. n
  BY SeqAt DEF ConfigIInv, FileOK
<1>3. n # 0 /\ ~torn /\ torn' = torn
  BY <1>2, SeqAt DEF EditConfigFile
<1>4. PICK c \in Configs : c = onFile[1]
  <2>1. 1 \in 1 .. n
    BY <1>3
  <2> QED BY <1>2, <2>1, SeqAt
<1>5. PICK e : e = [c EXCEPT !.interface = i, !.enabled = on, !.depth = d]
  OBVIOUS
<1>6. e \in Configs
  BY <1>5 DEF Configs
<1>7. PICK new : new = [onFile EXCEPT ![1] = e]
  OBVIOUS
<1>8. onFile \in [1 .. n -> Configs]
  BY <1>2, LenProperties, SeqAt
<1>9. new \in [1 .. n -> Configs]
  BY <1>6, <1>7, <1>8
<1>10. [onFile EXCEPT ![1].interface = i, ![1].enabled = on, ![1].depth = d] = new
  <2>1. 1 \in DOMAIN onFile
    BY <1>3, <1>8
  <2>2. PICK f, f1, f2, f3 :
          /\ f = onFile /\ f1 = [f EXCEPT ![1].interface = i]
          /\ f2 = [f1 EXCEPT ![1].enabled = on] /\ f3 = [f2 EXCEPT ![1].depth = d]
    OBVIOUS
  <2>3. f1 = [f EXCEPT ![1] = [c EXCEPT !.interface = i]]
    BY <1>4, <2>2
  <2>4. f1[1] = [c EXCEPT !.interface = i]
    BY <2>1, <2>2, <2>3
  <2>5. f2 = [f EXCEPT ![1] = [[c EXCEPT !.interface = i] EXCEPT !.enabled = on]]
    <3>1. f2 = [f1 EXCEPT ![1] = [[c EXCEPT !.interface = i] EXCEPT !.enabled = on]]
      BY <2>2, <2>4
    <3> QED BY <2>3, <3>1
  <2>6. f2[1] = [[c EXCEPT !.interface = i] EXCEPT !.enabled = on]
    BY <2>1, <2>2, <2>5
  <2>7. f3 = [f2 EXCEPT ![1] = [[[c EXCEPT !.interface = i] EXCEPT !.enabled = on] EXCEPT !.depth = d]]
    BY <2>2, <2>6
  <2>8. f3 = [f EXCEPT ![1] = [[[c EXCEPT !.interface = i] EXCEPT !.enabled = on] EXCEPT !.depth = d]]
    BY <2>5, <2>7
  <2>9. [[[c EXCEPT !.interface = i] EXCEPT !.enabled = on] EXCEPT !.depth = d] = e
    BY <1>5
  <2>10. f3 = new
    BY <1>7, <2>2, <2>8, <2>9
  <2>11. [onFile EXCEPT ![1].interface = i, ![1].enabled = on, ![1].depth = d] = f3
    BY <2>2
  <2> QED BY <2>10, <2>11
<1>11. new \in Seq(Configs) /\ Len(new) = n
  <2>1. new \in Seq(Configs) /\ DOMAIN new = 1 .. n
    BY <1>9, SeqDef
  <2>2. Len(new) \in Nat /\ DOMAIN new = 1 .. Len(new)
    BY <2>1, SeqAt
  <2> QED BY <2>1, <2>2
<1>12. file' = ToJSON(new) /\ onFile' = new
  BY <1>1, <1>10
<1> QED BY <1>2, <1>3, <1>11, <1>12 DEF FileOK

\* What is loaded can be saved, from a whole file or from a torn one.
LEMMA LoadOK ==
  ASSUME ConfigIInv, LoadConfig
  PROVE  HeldOK'
<1>1. CASE held' = <<>>
  BY <1>1, NoneHeld DEF HeldOK
<1>2. CASE held' # <<>>
  <2>1. file # NoText /\ FromJSON(file)[1] /\ held' = EnabledOf(FromJSON(file)[2])
    BY <1>2 DEF LoadConfig
  <2>2. PICK cs, T : cs \in Seq(Configs) /\ cs = onFile /\ T = ToJSON(cs) /\ Len(cs) <= MaxStreams
    BY DEF ConfigIInv, FileOK
  <2>3. PartOf(file, T)
    <3>1. CASE torn
      BY <2>2, <3>1 DEF ConfigIInv, FileOK
    <3>2. CASE ~torn
      <4>1. file = T
        BY <2>1, <2>2, <3>2 DEF ConfigIInv, FileOK
      <4> QED BY <2>2, <4>1, TextIs
    <3> QED BY <3>1, <3>2
  <2>4. \/ FromJSON(file) = <<FALSE, <<>>>>
        \/ \E S : \E R \in Seq(S) :
             FromJSON(file) = <<TRUE, R>> /\ Len(R) <= Len(cs) /\ \A r \in S : Usable(r)
    BY <2>2, <2>3, LoadedAny
  <2>5. FromJSON(file) # <<FALSE, <<>>>>
    <3>1. <<FALSE, <<>>>>[1] = FALSE
      OBVIOUS
    <3> QED BY <2>1, <3>1, Zenon
  <2>6. PICK S : \E R \in Seq(S) :
             FromJSON(file) = <<TRUE, R>> /\ Len(R) <= Len(cs) /\ \A r \in S : Usable(r)
    BY <2>4, <2>5
  <2>7. PICK R \in Seq(S) :
             FromJSON(file) = <<TRUE, R>> /\ Len(R) <= Len(cs) /\ \A r \in S : Usable(r)
    BY <2>6
  <2>8. PICK U : U = {r \in S : r.enabled}
    OBVIOUS
  <2>9. held' = EnabledOf(R)
    BY <2>1, <2>7
  <2>10. held' \in Seq(U) /\ Len(held') <= Len(R)
    BY <2>8, <2>9, EnabledIs
  <2>11. Len(held') <= MaxStreams
    <3>1. Len(held') \in Nat /\ Len(R) \in Nat /\ Len(cs) \in Nat /\ MaxStreams \in Nat
      BY <2>10, SeqAt, ConfigAssumption
    <3> QED BY <2>2, <2>7, <2>10, <3>1
  <2>12. \A r \in U : Usable(r) /\ r.enabled
    BY <2>7, <2>8
  <2> QED BY <2>10, <2>11, <2>12 DEF HeldOK
<1> QED BY <1>1, <1>2

\* Every step keeps the invariant.
LEMMA ConfigNextOK == ConfigIInv /\ [ConfigNext]_configVars => ConfigIInv'
<1> SUFFICES ASSUME ConfigIInv, [ConfigNext]_configVars PROVE ConfigIInv'
  OBVIOUS
<1>1. ASSUME NEW n \in Names, AddStream(n) PROVE ConfigIInv'
  <2>1. HeldOK'
    BY <1>1, AddOK
  <2>2. FileOK' /\ pc' \in {"up", "saving", "starting"} /\ torn' \in BOOLEAN
    BY <1>1 DEF AddStream, ConfigIInv, FileOK
  <2> QED BY <2>1, <2>2 DEF ConfigIInv
<1>2. CASE RemoveStream
  <2>1. HeldOK'
    BY <1>2, RemoveOK
  <2>2. FileOK' /\ pc' \in {"up", "saving", "starting"} /\ torn' \in BOOLEAN
    BY <1>2 DEF RemoveStream, ConfigIInv, FileOK
  <2> QED BY <2>1, <2>2 DEF ConfigIInv
<1>3. CASE SaveConfig
  <2>1. HeldOK'
    BY <1>3 DEF SaveConfig, ConfigIInv, HeldOK
  <2>2. Saved \in Seq(Configs) /\ Len(Saved) <= MaxStreams
    BY SavedIs DEF ConfigIInv
  <2>3. file' = ToJSON(Saved) /\ onFile' = Saved /\ torn' = FALSE /\ pc' = "up"
    BY <1>3 DEF SaveConfig
  <2>4. FileOK'
    BY <2>2, <2>3 DEF FileOK
  <2> QED BY <2>1, <2>3, <2>4 DEF ConfigIInv
<1>4. CASE Crash
  <2>1. held' = <<>> /\ pc' = "starting"
    BY <1>4 DEF Crash
  <2>2. HeldOK'
    BY <2>1, NoneHeld DEF HeldOK
  <2>3. CASE UNCHANGED <<file, onFile, torn>>
    BY <2>1, <2>2, <2>3 DEF ConfigIInv, FileOK
  <2>4. CASE /\ pc = "saving" /\ onFile' = Saved /\ torn' = TRUE
             /\ \E n \in 0 .. Len(ToJSON(Saved)) - 1 : file' = SubSeq(ToJSON(Saved), 1, n)
    <3>1. PICK cs, T : cs \in Seq(Configs) /\ cs = Saved /\ T = ToJSON(cs) /\ Len(cs) <= MaxStreams
      BY SavedIs DEF ConfigIInv
    <3>2. PICK n \in 0 .. Len(T) - 1 : file' = SubSeq(T, 1, n)
      BY <2>4, <3>1
    <3>3. PartOf(file', T)
      BY <3>1, <3>2, TextIs, BeginningIs
    <3>4. FileOK'
      BY <2>4, <3>1, <3>3 DEF FileOK
    <3> QED BY <2>1, <2>2, <2>4, <3>4 DEF ConfigIInv
  <2> QED BY <1>4, <2>3, <2>4 DEF Crash
<1>5. CASE EditConfigFile
  <2>1. FileOK'
    BY <1>5, EditOK
  <2>2. HeldOK' /\ pc' \in {"up", "saving", "starting"} /\ torn' \in BOOLEAN
    BY <1>5 DEF EditConfigFile, ConfigIInv, HeldOK
  <2> QED BY <2>1, <2>2 DEF ConfigIInv
<1>6. CASE LoadConfig
  <2>1. HeldOK' /\ pc' = "up"
    BY <1>6, LoadOK DEF LoadConfig
  <2>2. CASE UNCHANGED <<file, onFile, torn>>
    BY <2>1, <2>2 DEF ConfigIInv, FileOK
  <2>3. CASE file' = NoText /\ onFile' = <<>> /\ torn' = FALSE
    <3>1. onFile' \in Seq(Configs) /\ Len(onFile') = 0
      BY <2>3, EmptySeq
    <3>2. FileOK'
      BY <2>3, <3>1, ConfigAssumption DEF FileOK
    <3> QED BY <2>1, <2>3, <3>2 DEF ConfigIInv
  <2> QED BY <1>6, <2>2, <2>3 DEF LoadConfig
<1>7. CASE UNCHANGED configVars
  BY <1>7 DEF configVars, ConfigIInv, HeldOK, FileOK
<1> QED BY <1>1, <1>2, <1>3, <1>4, <1>5, <1>6, <1>7 DEF ConfigNext

\* What the named parts of ConfigSafe say of a file written whole.
LEMMA WholeIs ==
  ASSUME ConfigIInv, ~torn, file # NoText, NoBrackets(onFile)
  PROVE  \E R : FromJSON(file) = <<TRUE, R>> /\ ReadOf(onFile, R)
<1>1. PICK cs, T : cs \in Seq(Configs) /\ cs = onFile /\ T = ToJSON(cs) /\ file = T
  BY DEF ConfigIInv, FileOK
<1>2. PartOf(file, T) /\ Len(file) = Len(T) /\ Len(T) \in Nat
  BY <1>1, TextIs
<1>3. \/ FromJSON(file) = <<FALSE, <<>>>> /\ Len(file) < Len(T)
      \/ \E R : FromJSON(file) = <<TRUE, R>> /\ ReadOf(cs, R)
  BY <1>1, <1>2, IsRead
<1>4. ~(Len(file) < Len(T))
  BY <1>2
<1>5. PICK R : FromJSON(file) = <<TRUE, R>> /\ ReadOf(cs, R)
  BY <1>3, <1>4, Zenon
<1> QED BY <1>1, <1>5

\* The file's names, one by one.
LEMMA NamesAre ==
  ASSUME ConfigIInv
  PROVE  \A i \in DOMAIN onFile :
           /\ onFile[i] \in Configs /\ DOMAIN onFile[i].name = 1 .. Len(onFile[i].name)
           /\ Plain(onFile[i]) <=> PlainName(onFile[i].name)
<1>1. onFile \in Seq(Configs)
  BY DEF ConfigIInv, FileOK
<1>2. ASSUME NEW i \in DOMAIN onFile
      PROVE  /\ onFile[i] \in Configs /\ DOMAIN onFile[i].name = 1 .. Len(onFile[i].name)
             /\ Plain(onFile[i]) <=> PlainName(onFile[i].name)
  <2>1. PICK c \in Configs : c = onFile[i]
    BY <1>1, SeqAt
  <2>2. c.name \in Seq(Chars)
    BY DEF Configs
  <2>3. DOMAIN c.name = 1 .. Len(c.name)
    BY <2>2, SeqAt
  <2>4. Plain(c) <=> PlainName(c.name)
    BY <2>3 DEF Plain, PlainName
  <2> QED BY <2>1, <2>3, <2>4
<1> QED BY <1>2

\* A plain name holds no bracket.
LEMMA PlainHasNone ==
  ASSUME ConfigIInv, AllPlain(onFile)
  PROVE  NoBrackets(onFile) /\ \A i \in DOMAIN onFile : PlainName(onFile[i].name)
<1>1. \A i \in DOMAIN onFile : PlainName(onFile[i].name)
  BY NamesAre DEF AllPlain
<1>2. NoBrackets(onFile)
  BY <1>1 DEF NoBrackets, PlainName, Special
<1> QED BY <1>1, <1>2

\* A stream read by its own name has every field but the interface.
LEMMA ReadName ==
  ASSUME NEW c \in Configs
  PROVE  Reads(c, c.name) = [c EXCEPT !.interface = ResolveInterface(@)]
BY DEF Reads, Configs

\* The invariant gives the four properties.
LEMMA ConfigIsSafe == ConfigIInv => ConfigSafe
<1> SUFFICES ASSUME ConfigIInv PROVE ConfigSafe
  OBVIOUS
<1>1. ConfigTypeOK
  <2>1. PICK S : held \in Seq(S) /\ Len(held) <= MaxStreams /\ \A r \in S : Usable(r) /\ r.enabled
    BY DEF ConfigIInv, HeldOK
  <2>2. \A i \in DOMAIN held : held[i] \in S
    BY <2>1, SeqAt
  <2>3. \A i \in DOMAIN held : held[i].enabled /\ held[i].name # <<>>
    BY <2>1, <2>2 DEF Usable
  <2> QED BY <2>1, <2>3 DEF ConfigIInv, ConfigTypeOK
<1>2. PlainIsLoaded
  <2> SUFFICES ASSUME ~torn, file # NoText, AllPlain(onFile)
               PROVE  FromJSON(file) =
                        <<TRUE, [i \in DOMAIN onFile |->
                                   [onFile[i] EXCEPT !.interface = ResolveInterface(@)]]>>
    BY DEF PlainIsLoaded
  <2>1. NoBrackets(onFile) /\ \A i \in DOMAIN onFile : PlainName(onFile[i].name)
    BY PlainHasNone
  <2>2. PICK R : FromJSON(file) = <<TRUE, R>> /\ ReadOf(onFile, R)
    BY <2>1, WholeIs
  <2>3. \A i \in DOMAIN onFile : R[i] = [onFile[i] EXCEPT !.interface = ResolveInterface(@)]
    <3> TAKE i \in DOMAIN onFile
    <3>1. PICK c \in Configs : c = onFile[i]
      BY NamesAre
    <3>2. R[i] = Reads(c, c.name)
      BY <2>1, <2>2, <3>1 DEF ReadOf
    <3>3. Reads(c, c.name) = [c EXCEPT !.interface = ResolveInterface(@)]
      BY ReadName
    <3> QED BY <3>1, <3>2, <3>3
  <2>4. R = [i \in DOMAIN onFile |-> R[i]]
    BY <2>2 DEF ReadOf
  <2>5. R = [i \in DOMAIN onFile |-> [onFile[i] EXCEPT !.interface = ResolveInterface(@)]]
    BY <2>3, <2>4
  <2> QED BY <2>2, <2>5
<1>3. TornIsAllOrNothing
  <2> SUFFICES ASSUME torn, AllPlain(onFile)
               PROVE  ~FromJSON(file)[1] \/ Len(FromJSON(file)[2]) = Len(onFile)
    BY DEF TornIsAllOrNothing
  <2>1. NoBrackets(onFile)
    BY PlainHasNone
  <2>2. PICK cs, T : cs \in Seq(Configs) /\ cs = onFile /\ T = ToJSON(cs) /\ PartOf(file, T)
    BY DEF ConfigIInv, FileOK
  <2>3. \/ FromJSON(file) = <<FALSE, <<>>>> /\ Len(file) < Len(T)
        \/ \E R : FromJSON(file) = <<TRUE, R>> /\ ReadOf(cs, R)
    BY <2>1, <2>2, IsRead
  <2>4. CASE FromJSON(file) = <<FALSE, <<>>>>
    <3>1. <<FALSE, <<>>>>[1] = FALSE
      OBVIOUS
    <3> QED BY <2>4, <3>1, Zenon
  <2>5. ASSUME NEW R, FromJSON(file) = <<TRUE, R>>, ReadOf(cs, R)
        PROVE  Len(FromJSON(file)[2]) = Len(onFile)
    <3>1. <<TRUE, R>>[2] = R
      OBVIOUS
    <3>2. Len(R) = Len(onFile)
      BY <2>2, <2>5 DEF ReadOf
    <3> QED BY <2>5, <3>1, <3>2, Zenon
  <2> QED BY <2>3, <2>4, <2>5
<1>4. QuotesStayInTheirName
  <2> SUFFICES ASSUME ~torn, file # NoText,
                      \A i \in DOMAIN onFile, c \in Brackets :
                        \A k \in DOMAIN onFile[i].name : onFile[i].name[k] # c
               PROVE  /\ FromJSON(file)[1] /\ Len(FromJSON(file)[2]) = Len(onFile)
                      /\ \A i \in DOMAIN onFile :
                           Plain(onFile[i]) => FromJSON(file)[2][i].name = onFile[i].name
    BY DEF QuotesStayInTheirName
  <2>1. NoBrackets(onFile)
    BY NamesAre DEF NoBrackets
  <2>2. PICK R : FromJSON(file) = <<TRUE, R>> /\ ReadOf(onFile, R)
    BY <2>1, WholeIs
  <2>3. <<TRUE, R>>[1] = TRUE /\ <<TRUE, R>>[2] = R
    OBVIOUS
  <2>4. FromJSON(file)[1] /\ FromJSON(file)[2] = R
    BY <2>2, <2>3, Zenon
  <2>5. Len(R) = Len(onFile)
    BY <2>2 DEF ReadOf
  <2>6. \A i \in DOMAIN onFile : Plain(onFile[i]) => R[i].name = onFile[i].name
    <3> TAKE i \in DOMAIN onFile
    <3> HAVE Plain(onFile[i])
    <3>1. PlainName(onFile[i].name)
      BY NamesAre
    <3>2. R[i] = Reads(onFile[i], onFile[i].name)
      BY <2>2, <3>1 DEF ReadOf
    <3> QED BY <3>2 DEF Reads
  <2> QED BY <2>4, <2>5, <2>6
<1> QED BY <1>1, <1>2, <1>3, <1>4 DEF ConfigSafe

\* What is saved is loaded: every field of every stream when the names are
\* plain, every stream when they hold no bracket, a file that a crash cut short
\* not in part, and whatever the names hold nothing that cannot be saved again
\* (StreamConfig::toJSON and fromJSON, StreamManager's save and load), for any
\* number of streams and names of any length.
THEOREM SavedIsLoaded == ConfigSpec => []ConfigSafe
<1>1. ConfigInit => ConfigIInv
  BY ConfigInitOK
<1>2. ConfigIInv /\ [ConfigNext]_configVars => ConfigIInv'
  BY ConfigNextOK
<1>3. ConfigIInv => ConfigSafe
  BY ConfigIsSafe
<1> QED BY <1>1, <1>2, <1>3, PTL DEF ConfigSpec
=============================================================================
