--------------------------- MODULE SDPParserProofs ---------------------------
(***************************************************************************)
(* For every text: what parseString() makes of it has the types of a session, *)
(* and what generate() wrote is read back, whatever the order of its lines.   *)
(* The parser's states along a text are typed and bound to the lines read so  *)
(* far by an argument about the least position where that fails (LeastNumber).*)
(***************************************************************************)
EXTENDS SDPParser, PTPTimingProofs, FiniteSetTheorems

-----------------------------------------------------------------------------
(* Sets and sequences of lines                                              *)

SessionOK(s) == s \in SdpSessions /\ IsFiniteSet(s.custom)

LEMMA SetToSeqIs ==
  ASSUME NEW S, IsFiniteSet(S)
  PROVE  SetToSeq(S) \in Seq(S) /\ ToSet(SetToSeq(S)) = S
<1> DEFINE n == Cardinality(S)
           Q == {f \in [1 .. n -> S] : IsInjective(f)}
<1>1. n \in Nat /\ Bijection(1 .. n, S) # {}
  BY FS_CardinalityType DEF ExistsBijection
<1>2. Q # {}
  BY <1>1 DEF Bijection, Injection
<1>3. SetToSeq(S) \in Q
  <2>1. \E f \in [1 .. n -> S] : IsInjective(f)
    BY <1>2
  <2>2. SetToSeq(S) \in [1 .. n -> S] /\ IsInjective(SetToSeq(S))
    BY <2>1, Zenon DEF SetToSeq
  <2> QED BY <2>2
<1>4. PICK f \in [1 .. n -> S] : f = SetToSeq(S) /\ f \in Injection(1 .. n, S)
  BY <1>3 DEF Injection
<1>5. Cardinality(1 .. n) = n
  <2> HIDE DEF n
  <2> QED BY <1>1, FS_Interval
<1>6. f \in Surjection(1 .. n, S)
  <2> HIDE DEF n
  <2>1. f \in Injection(1 .. n, S)
    BY <1>4
  <2>2. Cardinality(1 .. n) = Cardinality(S) <=> f \in Surjection(1 .. n, S)
    BY <2>1, FS_Injection
  <2> QED BY <1>5, <2>2 DEF n
<1>7. \A x \in S : \E i \in 1 .. n : f[i] = x
  BY <1>6 DEF Surjection
<1>8. f \in Seq(S) /\ DOMAIN f = 1 .. n
  BY <1>1, <1>4, SeqDef
<1>9. ToSet(f) = S
  BY <1>4, <1>7, <1>8 DEF ToSet
<1> QED BY <1>4, <1>8, <1>9

LEMMA ToSetJoins ==
  ASSUME NEW S, NEW s \in Seq(S), NEW t \in Seq(S)
  PROVE  s \o t \in Seq(S) /\ ToSet(s \o t) = ToSet(s) \cup ToSet(t)
<1>1. PICK m \in Nat, n \in Nat : m = Len(s) /\ n = Len(t)
  BY LenProperties
<1>2. /\ s \o t \in Seq(S) /\ Len(s \o t) = m + n
      /\ \A i \in 1 .. m + n : (s \o t)[i] = IF i <= m THEN s[i] ELSE t[i - m]
  BY <1>1, ConcatProperties
<1>3. DOMAIN s = 1 .. m /\ DOMAIN t = 1 .. n /\ DOMAIN (s \o t) = 1 .. m + n
  BY <1>1, <1>2, LenProperties
<1>4. ASSUME NEW x \in ToSet(s \o t) PROVE x \in ToSet(s) \cup ToSet(t)
  <2>1. PICK i \in 1 .. m + n : x = (s \o t)[i]
    BY <1>3 DEF ToSet
  <2>2. CASE i <= m
    BY <1>2, <1>3, <2>1, <2>2 DEF ToSet
  <2>3. CASE ~(i <= m)
    <3>1. i - m \in 1 .. n /\ x = t[i - m]
      BY <1>2, <2>1, <2>3
    <3> QED BY <1>3, <3>1 DEF ToSet
  <2> QED BY <2>2, <2>3
<1>5. ASSUME NEW x \in ToSet(s) PROVE x \in ToSet(s \o t)
  <2>1. PICK i \in 1 .. m : x = s[i]
    BY <1>3 DEF ToSet
  <2>2. i \in 1 .. m + n /\ (s \o t)[i] = x
    BY <1>2, <2>1
  <2> QED BY <1>3, <2>2 DEF ToSet
<1>6. ASSUME NEW x \in ToSet(t) PROVE x \in ToSet(s \o t)
  <2>1. PICK i \in 1 .. n : x = t[i]
    BY <1>3 DEF ToSet
  <2>2. i + m \in 1 .. m + n /\ ~(i + m <= m) /\ (i + m) - m = i
    OBVIOUS
  <2>3. (s \o t)[i + m] = x
    BY <1>2, <2>1, <2>2
  <2> QED BY <1>3, <2>2, <2>3 DEF ToSet
<1> QED BY <1>2, <1>4, <1>5, <1>6

LEMMA ReverseIs ==
  ASSUME NEW S, NEW s \in Seq(S)
  PROVE  Reverse(s) \in Seq(S) /\ ToSet(Reverse(s)) = ToSet(s)
<1>1. PICK n \in Nat : n = Len(s) /\ DOMAIN s = 1 .. n /\ \A i \in 1 .. n : s[i] \in S
  BY LenProperties, ElementOfSeq
<1>2. Reverse(s) = [i \in 1 .. n |-> s[(n - i) + 1]]
  BY <1>1 DEF Reverse
<1>3. \A i \in 1 .. n : (n - i) + 1 \in 1 .. n /\ (n - ((n - i) + 1)) + 1 = i
  OBVIOUS
<1>4. Reverse(s) \in [1 .. n -> S]
  BY <1>1, <1>2, <1>3
<1>5. Reverse(s) \in Seq(S) /\ DOMAIN Reverse(s) = 1 .. n
  BY <1>4, SeqDef
<1>6. ASSUME NEW x \in ToSet(s) PROVE x \in ToSet(Reverse(s))
  <2>1. PICK i \in 1 .. n : x = s[i]
    BY <1>1 DEF ToSet
  <2>2. Reverse(s)[(n - i) + 1] = x
    BY <1>2, <1>3, <2>1
  <2> QED BY <1>3, <1>5, <2>2 DEF ToSet
<1>7. ASSUME NEW x \in ToSet(Reverse(s)) PROVE x \in ToSet(s)
  <2>1. PICK i \in 1 .. n : x = Reverse(s)[i]
    BY <1>5 DEF ToSet
  <2>2. x = s[(n - i) + 1]
    BY <1>2, <2>1
  <2> QED BY <1>1, <1>3, <2>2 DEF ToSet
<1> QED BY <1>5, <1>6, <1>7

-----------------------------------------------------------------------------
(* What generate() writes                                                   *)

HasSource(s) == s.from # Blank
HasClock(s)  == s.domain >= 0 /\ s.mac # Blank
SourceLine(s) == Line("source-filter", s.from, 0, 0)
ClockLine(s)  == Line("ts-refclk", s.mac, s.domain, 0)
CustomLines(s) == {Line("custom", key, 0, 0) : key \in s.custom}

LinesOf(s) ==
  {OriginLine(s), Line("s", s.name, 0, 0), ConnectionLine(s), MediaLine(s),
   RtpMapLine(s), Line("direction", s.direction, 0, 0)}
  \cup (IF HasSource(s) THEN {SourceLine(s)} ELSE {})
  \cup (IF HasClock(s) THEN {ClockLine(s)} ELSE {})
  \cup CustomLines(s)

LEMMA SessionFields ==
  ASSUME NEW s \in SdpSessions
  PROVE  /\ s.name \in Texts /\ s.origin \in Texts /\ s.group \in Texts
         /\ s.ttl \in 0 .. TtlMod - 1 /\ s.port \in 0 .. PortMod - 1
         /\ s.payloadType \in Int /\ s.encoding \in Texts /\ s.rate \in Int
         /\ s.channels \in 0 .. PortMod - 1 /\ s.direction \in Texts
         /\ s.from \in Texts /\ s.domain \in Int /\ s.mac \in Texts
         /\ s.custom \in SUBSET Texts
BY DEF SdpSessions

LEMMA LineIs ==
  ASSUME NEW k \in {"o", "s", "c", "m"} \cup Attributes,
         NEW p \in Texts, NEW v \in Int, NEW c \in Int
  PROVE  /\ Line(k, p, v, c) \in SdpLines
         /\ Line(k, p, v, c).type = k /\ Line(k, p, v, c).part = p
         /\ Line(k, p, v, c).number = v /\ Line(k, p, v, c).code = c
BY DEF Line, SdpLines

LEMMA LinesTyped ==
  ASSUME NEW s, SessionOK(s)
  PROVE  /\ LinesOf(s) \subseteq SdpLines
         /\ SourceLine(s) \in SdpLines /\ ClockLine(s) \in SdpLines
         /\ CustomLines(s) \subseteq SdpLines
<1>0. s \in SdpSessions /\ PortMod \in Nat /\ TtlMod \in Nat /\ Blank \in Texts
  BY SdpAssumption DEF SessionOK
<1>1. /\ s.name \in Texts /\ s.origin \in Texts /\ s.group \in Texts /\ s.ttl \in Int
      /\ s.port \in Int /\ s.payloadType \in Int /\ s.encoding \in Texts
      /\ s.rate \in Int /\ s.channels \in Int /\ s.direction \in Texts /\ s.from \in Texts
      /\ s.domain \in Int /\ s.mac \in Texts /\ \A key \in s.custom : key \in Texts
  <2>1. /\ s.ttl \in 0 .. TtlMod - 1 /\ s.port \in 0 .. PortMod - 1
        /\ s.channels \in 0 .. PortMod - 1
    BY <1>0, SessionFields
  <2>2. s.ttl \in Int /\ s.port \in Int /\ s.channels \in Int
    BY <2>1
  <2> QED BY <1>0, <2>2, SessionFields
<1>2. ASSUME NEW k \in {"o", "s", "c", "m"} \cup Attributes,
             NEW p \in Texts, NEW v \in Int, NEW c \in Int
      PROVE  Line(k, p, v, c) \in SdpLines
  BY LineIs
<1>3. OriginLine(s) \in SdpLines /\ ConnectionLine(s) \in SdpLines
  <2> DEFINE v == IF s.origin = Blank THEN Absent ELSE 0
             w == IF s.ttl = 0 THEN Absent ELSE s.ttl
  <2>1. v \in Int /\ w \in Int
    BY <1>1 DEF Absent
  <2>2. OriginLine(s) = Line("o", s.origin, v, 0) /\ ConnectionLine(s) = Line("c", s.group, w, 0)
    BY DEF OriginLine, ConnectionLine
  <2> HIDE DEF v, w
  <2> QED BY <1>1, <1>2, <2>1, <2>2
<1>4. MediaLine(s) \in SdpLines /\ RtpMapLine(s) \in SdpLines
  BY <1>0, <1>1, <1>2 DEF MediaLine, RtpMapLine, Attributes
<1>5. /\ Line("s", s.name, 0, 0) \in SdpLines
      /\ Line("direction", s.direction, 0, 0) \in SdpLines
      /\ SourceLine(s) \in SdpLines /\ ClockLine(s) \in SdpLines
  BY <1>1, <1>2 DEF SourceLine, ClockLine, Attributes
<1>6. CustomLines(s) \subseteq SdpLines
  <2>1. \A key \in s.custom : Line("custom", key, 0, 0) \in SdpLines
    BY <1>1, <1>2 DEF Attributes
  <2> QED BY <2>1 DEF CustomLines
<1> QED BY <1>3, <1>4, <1>5, <1>6 DEF LinesOf

LEMMA WhenIs ==
  ASSUME NEW S, NEW l \in S, NEW cond \in BOOLEAN
  PROVE  When(cond, l) \in Seq(S) /\ ToSet(When(cond, l)) = IF cond THEN {l} ELSE {}
<1>1. <<l>> \in Seq(S) /\ <<>> \in Seq(S) /\ DOMAIN <<l>> = {1} /\ <<l>>[1] = l
      /\ DOMAIN <<>> = {}
  OBVIOUS
<1>2. ToSet(<<l>>) = {l} /\ ToSet(<<>>) = {}
  BY <1>1 DEF ToSet
<1> QED BY <1>1, <1>2 DEF When

\* generate() writes the lines of the session and no others.
LEMMA GeneratedLines ==
  ASSUME NEW s, SessionOK(s)
  PROVE  Generate(s) \in Seq(SdpLines) /\ ToSet(Generate(s)) = LinesOf(s)
<1> DEFINE six == <<OriginLine(s), Line("s", s.name, 0, 0), ConnectionLine(s), MediaLine(s),
                    RtpMapLine(s), Line("direction", s.direction, 0, 0)>>
           src == When(HasSource(s), SourceLine(s))
           clk == When(HasClock(s), ClockLine(s))
           own == SetToSeq(CustomLines(s))
<1>0. s \in SdpSessions /\ IsFiniteSet(s.custom)
  BY DEF SessionOK
<1>1. /\ OriginLine(s) \in SdpLines /\ Line("s", s.name, 0, 0) \in SdpLines
      /\ ConnectionLine(s) \in SdpLines /\ MediaLine(s) \in SdpLines
      /\ RtpMapLine(s) \in SdpLines /\ Line("direction", s.direction, 0, 0) \in SdpLines
  BY LinesTyped DEF LinesOf
<1>2. /\ six \in Seq(SdpLines)
      /\ ToSet(six) = {OriginLine(s), Line("s", s.name, 0, 0), ConnectionLine(s),
                       MediaLine(s), RtpMapLine(s), Line("direction", s.direction, 0, 0)}
  <2> PICK l1, l2, l3, l4, l5, l6 \in SdpLines :
        /\ l1 = OriginLine(s) /\ l2 = Line("s", s.name, 0, 0) /\ l3 = ConnectionLine(s)
        /\ l4 = MediaLine(s) /\ l5 = RtpMapLine(s) /\ l6 = Line("direction", s.direction, 0, 0)
    BY <1>1
  <2>1. <<l1, l2, l3, l4, l5, l6>> \in Seq(SdpLines)
    OBVIOUS
  <2>2. ToSet(<<l1, l2, l3, l4, l5, l6>>) = {l1, l2, l3, l4, l5, l6}
    <3>1. DOMAIN <<l1, l2, l3, l4, l5, l6>> = {1, 2, 3, 4, 5, 6}
      OBVIOUS
    <3> QED BY <3>1 DEF ToSet
  <2> QED BY <2>1, <2>2
<1>3. SourceLine(s) \in SdpLines /\ ClockLine(s) \in SdpLines /\ CustomLines(s) \subseteq SdpLines
  BY LinesTyped
<1>4. /\ src \in Seq(SdpLines) /\ ToSet(src) = IF HasSource(s) THEN {SourceLine(s)} ELSE {}
      /\ clk \in Seq(SdpLines) /\ ToSet(clk) = IF HasClock(s) THEN {ClockLine(s)} ELSE {}
  <2>1. HasSource(s) \in BOOLEAN /\ HasClock(s) \in BOOLEAN
    BY DEF HasSource, HasClock
  <2> QED BY <1>3, <2>1, WhenIs
<1>5. own \in Seq(SdpLines) /\ ToSet(own) = CustomLines(s)
  <2>1. IsFiniteSet(CustomLines(s))
    <3>1. PICK S : S = s.custom /\ IsFiniteSet(S)
      BY <1>0
    <3> DEFINE f == [key \in S |-> Line("custom", key, 0, 0)]
    <3>2. CustomLines(s) = {f[key] : key \in S}
      BY <3>1 DEF CustomLines
    <3>3. f \in Surjection(S, CustomLines(s))
      BY <3>2 DEF Surjection
    <3> HIDE DEF f
    <3> QED BY <3>1, <3>3, FS_Surjection
  <2>2. own \in Seq(CustomLines(s)) /\ ToSet(own) = CustomLines(s)
    BY <2>1, SetToSeqIs
  <2> QED BY <1>3, <2>2, SeqMonotonic
<1>6. Generate(s) = ((six \o src) \o clk) \o own
  BY DEF Generate, HasSource, HasClock, SourceLine, ClockLine, CustomLines
<1> HIDE DEF six, src, clk, own
<1>7. six \o src \in Seq(SdpLines) /\ ToSet(six \o src) = ToSet(six) \cup ToSet(src)
  BY <1>2, <1>4, ToSetJoins
<1>8. /\ (six \o src) \o clk \in Seq(SdpLines)
      /\ ToSet((six \o src) \o clk) = ToSet(six \o src) \cup ToSet(clk)
  <2>1. PICK u, v \in Seq(SdpLines) : u = six \o src /\ v = clk
    BY <1>4, <1>7
  <2>2. u \o v \in Seq(SdpLines) /\ ToSet(u \o v) = ToSet(u) \cup ToSet(v)
    BY ToSetJoins
  <2> QED BY <2>1, <2>2
<1>9. /\ ((six \o src) \o clk) \o own \in Seq(SdpLines)
      /\ ToSet(((six \o src) \o clk) \o own) = ToSet((six \o src) \o clk) \cup ToSet(own)
  <2>1. PICK u, v \in Seq(SdpLines) : u = (six \o src) \o clk /\ v = own
    BY <1>5, <1>8
  <2>2. u \o v \in Seq(SdpLines) /\ ToSet(u \o v) = ToSet(u) \cup ToSet(v)
    BY ToSetJoins
  <2> QED BY <2>1, <2>2
<1> QED BY <1>2, <1>4, <1>5, <1>6, <1>7, <1>8, <1>9 DEF LinesOf

-----------------------------------------------------------------------------
(* What parseString() does with one line after another                      *)

Start == [s |-> Default, result |-> "ok"]

\* The parser's states along the text, and what it makes of the last one.
Parses(t, n, f) == f[0] = Start /\ \A i \in 1 .. n : f[i] = ParseLine(f[i - 1], t[i])
Finished(st) == IF st.result = "ok" /\ ~Valid(st.s) THEN Reject(st) ELSE st

LEMMA ParsesExist ==
  ASSUME NEW t \in Seq(SdpLines)
  PROVE  \E f : Parses(t, Len(t), f)
<1> DEFINE T == {n \in 0 .. Len(t) : ~ \E f : Parses(t, n, f)}
<1>0. Len(t) \in Nat
  BY LenProperties
<1>1. ASSUME NEW n \in 1 .. Len(t), n - 1 \notin T PROVE n \notin T
  <2>1. n - 1 \in 0 .. Len(t) /\ n \in Nat
    BY <1>0
  <2>2. PICK f : Parses(t, n - 1, f)
    BY <1>1, <2>1
  <2> DEFINE h == [i \in 0 .. n |-> IF i = n THEN ParseLine(f[n - 1], t[n]) ELSE f[i]]
  <2>3. \A i \in 0 .. n : h[i] = IF i = n THEN ParseLine(f[n - 1], t[n]) ELSE f[i]
    OBVIOUS
  <2> HIDE DEF h
  <2>4. f[0] = Start /\ \A i \in 1 .. n - 1 : f[i] = ParseLine(f[i - 1], t[i])
    BY <2>2 DEF Parses
  <2>5. h[0] = Start
    BY <2>1, <2>3, <2>4
  <2>6. \A i \in 1 .. n : h[i] = ParseLine(h[i - 1], t[i])
    <3> TAKE i \in 1 .. n
    <3>1. i \in 0 .. n /\ i - 1 \in 0 .. n /\ i - 1 # n
      BY <2>1
    <3>2. h[i - 1] = f[i - 1]
      BY <2>3, <3>1
    <3>3. CASE i = n
      BY <2>3, <3>1, <3>2, <3>3
    <3>4. CASE i # n
      BY <2>1, <2>3, <2>4, <3>1, <3>2, <3>4
    <3> QED BY <3>3, <3>4
  <2>7. Parses(t, n, h)
    BY <2>5, <2>6 DEF Parses
  <2> QED BY <2>7
<1>2. 0 \notin T
  <2>1. Parses(t, 0, [i \in 0 .. 0 |-> Start])
    BY DEF Parses
  <2> QED BY <2>1
<1>3. ASSUME Len(t) \in T PROVE FALSE
  <2>1. T # {} /\ T \in SUBSET Nat
    BY <1>0, <1>3
  <2>2. PICK m \in T : \A n \in T : m <= n
    <3> HIDE DEF T
    <3> QED BY <2>1, LeastNumber
  <2>3. m \in 0 .. Len(t)
    OBVIOUS
  <2>4. m # 0 /\ m - 1 \notin T
    <3> HIDE DEF T
    <3> QED BY <1>0, <1>2, <2>2, <2>3
  <2> HIDE DEF T
  <2> QED BY <1>0, <1>1, <2>3, <2>4
<1>4. Len(t) \in 0 .. Len(t)
  BY <1>0
<1> QED BY <1>3, <1>4

LEMMA ParseStringIs ==
  ASSUME NEW t \in Seq(SdpLines)
  PROVE  \E f : Parses(t, Len(t), f) /\ ParseString(t) = Finished(f[Len(t)])
<1> DEFINE step(g) == [i \in 0 .. Len(t) |-> IF i = 0 THEN [s |-> Default, result |-> "ok"]
                                             ELSE ParseLine(g[i - 1], t[i])]
           f == CHOOSE g : g = step(g)
<1>0. Len(t) \in Nat
  BY LenProperties
<1>1. PICK p : Parses(t, Len(t), p)
  BY ParsesExist
<1>2. \E g : g = step(g)
  <2> DEFINE g == [i \in 0 .. Len(t) |-> p[i]]
  <2>1. \A i \in 0 .. Len(t) : g[i] = p[i]
    OBVIOUS
  <2>2. p[0] = Start /\ \A i \in 1 .. Len(t) : p[i] = ParseLine(p[i - 1], t[i])
    BY <1>1 DEF Parses
  <2>3. \A i \in 0 .. Len(t) :
          p[i] = IF i = 0 THEN [s |-> Default, result |-> "ok"] ELSE ParseLine(g[i - 1], t[i])
    <3> HIDE DEF g
    <3> TAKE i \in 0 .. Len(t)
    <3>1. CASE i = 0
      BY <2>2, <3>1 DEF Start
    <3>2. CASE i # 0
      <4>1. i \in 1 .. Len(t) /\ i - 1 \in 0 .. Len(t)
        BY <1>0, <3>2
      <4> QED BY <2>1, <2>2, <3>2, <4>1
    <3> QED BY <3>1, <3>2
  <2>4. g = step(g)
    BY <2>3
  <2> QED BY <2>4
<1>3. f = step(f)
  <2> HIDE DEF step
  <2> QED BY <1>2, Zenon
<1>4. ParseString(t) = Finished(f[Len(t)])
  BY DEF ParseString, Finished
<1>5. \A i \in 0 .. Len(t) : f[i] = IF i = 0 THEN [s |-> Default, result |-> "ok"]
                                    ELSE ParseLine(f[i - 1], t[i])
  <2> HIDE DEF f
  <2> QED BY <1>3
<1> HIDE DEF f
<1>6. Parses(t, Len(t), f)
  <2>1. f[0] = Start
    BY <1>0, <1>5 DEF Start
  <2>2. \A i \in 1 .. Len(t) : f[i] = ParseLine(f[i - 1], t[i])
    <3> TAKE i \in 1 .. Len(t)
    <3>1. i \in 0 .. Len(t) /\ i # 0
      BY <1>0
    <3> QED BY <1>5, <3>1
  <2> QED BY <2>1, <2>2 DEF Parses
<1> QED BY <1>4, <1>6

\* Which type of line carries a field of the session.
Owner ==
  [name |-> "s", origin |-> "o", group |-> "c", ttl |-> "c", port |-> "m", payloadType |-> "m",
   encoding |-> "rtpmap", rate |-> "rtpmap", channels |-> "rtpmap",
   direction |-> "direction", from |-> "source-filter", domain |-> "ts-refclk",
   mac |-> "ts-refclk"]
FieldNames ==
  {"name", "origin", "group", "ttl", "port", "payloadType", "encoding", "rate",
   "channels", "direction", "from", "domain", "mac"}

KeyOf(l) == IF l.type = "custom" THEN {l.part} ELSE {}

\* Nothing but the fields F of the session of state st has changed.
Leaves(st, q, F) == \A x \in FieldNames \ F : q.s[x] = st.s[x]

LEMMA SessionIs ==
  ASSUME NEW r \in SdpSessions
  PROVE  r = [x \in FieldNames \cup {"custom"} |-> r[x]]
BY DEF SdpSessions, FieldNames

LEMMA SameSession ==
  ASSUME NEW r \in SdpSessions, NEW q \in SdpSessions,
         \A x \in FieldNames : r[x] = q[x], r.custom = q.custom
  PROVE  r = q
<1>1. \A x \in FieldNames \cup {"custom"} : r[x] = q[x]
  OBVIOUS
<1> QED BY <1>1, SessionIs

LEMMA KeptIs ==
  ASSUME NEW s \in SdpSessions
  PROVE  /\ Kept(s) \in SdpSessions /\ Kept(s).custom = s.custom
         /\ Kept(s).ttl = (IF s.ttl = 0 THEN 32 ELSE s.ttl)
         /\ Kept(s).domain = (IF HasClock(s) THEN s.domain ELSE 0)
         /\ Kept(s).mac = (IF HasClock(s) THEN s.mac ELSE Blank)
         /\ \A x \in FieldNames \ {"ttl", "domain", "mac"} : Kept(s)[x] = s[x]
<1>1. PortMod \in Nat /\ TtlMod \in Nat /\ TtlMod > 32 /\ Blank \in Texts
  BY SdpAssumption DEF Default
<1>2. s.ttl \in 0 .. TtlMod - 1 /\ s.domain \in Int /\ s.mac \in Texts
  BY DEF SdpSessions
<1> DEFINE t == IF s.ttl = 0 THEN 32 ELSE s.ttl
           d == IF HasClock(s) THEN s.domain ELSE 0
           m == IF HasClock(s) THEN s.mac ELSE Blank
           r1 == [s EXCEPT !.ttl = t]
           r2 == [r1 EXCEPT !.domain = d]
           r3 == [r2 EXCEPT !.mac = m]
<1>3. t \in 0 .. TtlMod - 1 /\ d \in Int /\ m \in Texts
  BY <1>1, <1>2
<1>4. Kept(s) = r3
  BY DEF Kept, HasClock
<1> HIDE DEF t, d, m
<1>5. r1 \in SdpSessions /\ r1.ttl = t /\ r1.custom = s.custom
      /\ \A x \in FieldNames \ {"ttl"} : r1[x] = s[x]
  BY <1>3 DEF SdpSessions, FieldNames
<1> HIDE DEF r1
<1>6. r2 \in SdpSessions /\ r2.domain = d /\ r2.custom = r1.custom
      /\ \A x \in FieldNames \ {"domain"} : r2[x] = r1[x]
  BY <1>3, <1>5 DEF SdpSessions, FieldNames
<1> HIDE DEF r2
<1>7. r3 \in SdpSessions /\ r3.mac = m /\ r3.custom = r2.custom
      /\ \A x \in FieldNames \ {"mac"} : r3[x] = r2[x]
  BY <1>3, <1>6 DEF SdpSessions, FieldNames
<1> HIDE DEF r3
<1>8. r3.ttl = t /\ r3.domain = d
  BY <1>5, <1>6, <1>7 DEF FieldNames
<1>9. \A x \in FieldNames \ {"ttl", "domain", "mac"} : r3[x] = s[x]
  BY <1>5, <1>6, <1>7
<1> QED BY <1>4, <1>5, <1>6, <1>7, <1>8, <1>9 DEF t, d, m

States == [s : SdpSessions, result : {"ok", "rejected", "threw"}]

\* A line of an accepted text was read: it changed the fields F.
Read(st, q, F) ==
  q \in States /\ q.result = "ok" /\ q.s.custom = st.s.custom /\ Leaves(st, q, F)

LEMMA SetIs ==
  ASSUME NEW st \in States, NEW new \in SdpSessions
  PROVE  /\ Set(st, new) \in States /\ Set(st, new).s = new /\ Set(st, new).result = st.result
         /\ Reject(st) \in States /\ Reject(st).s = st.s /\ Reject(st).result = "rejected"
BY DEF Set, Reject, States

LEMMA LineParts ==
  ASSUME NEW l \in SdpLines
  PROVE  l.part \in Texts /\ l.number \in Int /\ l.code \in Int
BY DEF SdpLines

LEMMA NumberFits ==
  ASSUME NEW n \in Int
  PROVE  n % PortMod \in 0 .. PortMod - 1 /\ n % TtlMod \in 0 .. TtlMod - 1
<1>1. PortMod \in Nat \ {0} /\ TtlMod \in Nat \ {0}
  BY SdpAssumption DEF Default
<1>2. PICK p \in Nat \ {0}, t \in Nat \ {0} : p = PortMod /\ t = TtlMod
  BY <1>1
<1>3. n % p \in 0 .. p - 1 /\ n % t \in 0 .. t - 1
  BY <1>2
<1> QED BY <1>2, <1>3

LEMMA OriginRead ==
  ASSUME NEW st \in States, NEW l \in SdpLines, st.result = "ok", l.type = "o",
         l.number \notin {Absent, Junk, Huge}
  PROVE  Read(st, ParseLine(st, l), {"origin"}) /\ ParseLine(st, l).s.origin = l.part
<1> DEFINE new == [st.s EXCEPT !.origin = l.part]
<1>1. ParseLine(st, l) = Set(st, new)
  <2>1. ParseLine(st, l) = ParseOrigin(st, l)
    BY DEF ParseLine, Attributes
  <2> QED BY <2>1 DEF ParseOrigin
<1>2. st.s \in SdpSessions /\ l.part \in Texts
  BY LineParts DEF States
<1>3. /\ new \in SdpSessions /\ new.origin = l.part /\ new.custom = st.s.custom
      /\ \A x \in FieldNames \ {"origin"} : new[x] = st.s[x]
  BY <1>2 DEF SdpSessions, FieldNames
<1> HIDE DEF new
<1> QED BY <1>1, <1>3, SetIs DEF Read, Leaves

LEMMA OriginRejected ==
  ASSUME NEW st \in States, NEW l \in SdpLines, st.result = "ok", l.type = "o",
         l.number \in {Absent, Junk, Huge}
  PROVE  ParseLine(st, l) = Reject(st)
<1>1. ParseLine(st, l) = ParseOrigin(st, l)
  BY DEF ParseLine, Attributes
<1> QED BY <1>1 DEF ParseOrigin

LEMMA NameRead ==
  ASSUME NEW st \in States, NEW l \in SdpLines, st.result = "ok", l.type = "s"
  PROVE  Read(st, ParseLine(st, l), {"name"}) /\ ParseLine(st, l).s.name = l.part
<1> DEFINE new == [st.s EXCEPT !.name = l.part]
<1>1. ParseLine(st, l) = Set(st, new)
  BY DEF ParseLine, Attributes
<1>2. st.s \in SdpSessions /\ l.part \in Texts
  BY LineParts DEF States
<1>3. /\ new \in SdpSessions /\ new.name = l.part /\ new.custom = st.s.custom
      /\ \A x \in FieldNames \ {"name"} : new[x] = st.s[x]
  BY <1>2 DEF SdpSessions, FieldNames
<1> HIDE DEF new
<1> QED BY <1>1, <1>3, SetIs DEF Read, Leaves

LEMMA ConnectionRead ==
  ASSUME NEW st \in States, NEW l \in SdpLines, st.result = "ok", l.type = "c"
  PROVE  /\ Read(st, ParseLine(st, l), {"group", "ttl"})
         /\ ParseLine(st, l).s.group = l.part
         /\ ParseLine(st, l).s.ttl = IF l.number = Absent THEN st.s.ttl
                                     ELSE IF NotANumber(l.number) THEN 32
                                     ELSE l.number % TtlMod
<1> DEFINE v == IF l.number = Absent THEN st.s.ttl
                ELSE IF NotANumber(l.number) THEN 32 ELSE l.number % TtlMod
           r1 == [st.s EXCEPT !.group = l.part]
           r2 == [r1 EXCEPT !.ttl = v]
<1>1. ParseLine(st, l) = Set(st, r2)
  <2>1. ParseLine(st, l) = ParseConnection(st, l)
    BY DEF ParseLine, Attributes
  <2>2. r1.ttl = st.s.ttl
    BY DEF States, SdpSessions
  <2> QED BY <2>1, <2>2 DEF ParseConnection
<1>2. st.s \in SdpSessions /\ l.part \in Texts /\ l.number \in Int
  BY LineParts DEF States
<1>3. v \in 0 .. TtlMod - 1
  <2>1. l.number % TtlMod \in 0 .. TtlMod - 1
    BY <1>2, NumberFits
  <2>2. TtlMod \in Nat /\ TtlMod > 32
    BY SdpAssumption DEF Default
  <2>3. st.s.ttl \in 0 .. TtlMod - 1
    BY <1>2 DEF SdpSessions
  <2>4. 32 \in 0 .. TtlMod - 1
    BY <2>2
  <2> QED BY <2>1, <2>3, <2>4
<1> HIDE DEF v
<1>4. /\ r1 \in SdpSessions /\ r1.group = l.part /\ r1.custom = st.s.custom
      /\ \A x \in FieldNames \ {"group"} : r1[x] = st.s[x]
  BY <1>2 DEF SdpSessions, FieldNames
<1> HIDE DEF r1
<1>5. /\ r2 \in SdpSessions /\ r2.ttl = v /\ r2.custom = r1.custom
      /\ \A x \in FieldNames \ {"ttl"} : r2[x] = r1[x]
  BY <1>3, <1>4 DEF SdpSessions, FieldNames
<1> HIDE DEF r2
<1>6. r2.group = l.part
  BY <1>4, <1>5 DEF FieldNames
<1>7. \A x \in FieldNames \ {"group", "ttl"} : r2[x] = st.s[x]
  BY <1>4, <1>5
<1>8. ParseLine(st, l).s = r2 /\ Read(st, ParseLine(st, l), {"group", "ttl"})
  BY <1>1, <1>4, <1>5, <1>7, SetIs DEF Read, Leaves
<1> QED BY <1>5, <1>6, <1>8 DEF v

LEMMA MediaRead ==
  ASSUME NEW st \in States, NEW l \in SdpLines, st.result = "ok", l.type = "m",
         ~NotANumber(l.number)
  PROVE  /\ Read(st, ParseLine(st, l), {"port", "payloadType"})
         /\ ParseLine(st, l).s.port = l.number % PortMod
         /\ ParseLine(st, l).s.payloadType = l.code
<1> DEFINE v == l.number % PortMod
           r1 == [st.s EXCEPT !.port = v]
           r2 == [r1 EXCEPT !.payloadType = l.code]
<1>1. ParseLine(st, l) = Set(st, r2)
  <2>1. ParseLine(st, l) = ParseMedia(st, l)
    BY DEF ParseLine, Attributes
  <2> QED BY <2>1 DEF ParseMedia
<1>2. st.s \in SdpSessions /\ l.code \in Int /\ v \in 0 .. PortMod - 1
  BY LineParts, NumberFits DEF States
<1> HIDE DEF v
<1>3. /\ r1 \in SdpSessions /\ r1.port = v /\ r1.custom = st.s.custom
      /\ \A x \in FieldNames \ {"port"} : r1[x] = st.s[x]
  BY <1>2 DEF SdpSessions, FieldNames
<1> HIDE DEF r1
<1>4. /\ r2 \in SdpSessions /\ r2.payloadType = l.code /\ r2.custom = r1.custom
      /\ \A x \in FieldNames \ {"payloadType"} : r2[x] = r1[x]
  BY <1>2, <1>3 DEF SdpSessions, FieldNames
<1> HIDE DEF r2
<1>5. r2.port = v
  BY <1>3, <1>4 DEF FieldNames
<1>6. \A x \in FieldNames \ {"port", "payloadType"} : r2[x] = st.s[x]
  BY <1>3, <1>4
<1>7. ParseLine(st, l).s = r2 /\ Read(st, ParseLine(st, l), {"port", "payloadType"})
  BY <1>1, <1>3, <1>4, <1>6, SetIs DEF Read, Leaves
<1> QED BY <1>4, <1>5, <1>7 DEF v

LEMMA RtpMapRead ==
  ASSUME NEW st \in States, NEW l \in SdpLines, st.result = "ok", l.type = "rtpmap",
         ~NotANumber(l.number)
  PROVE  /\ Read(st, ParseLine(st, l), {"encoding", "rate", "channels"})
         /\ ParseLine(st, l).s.encoding = l.part /\ ParseLine(st, l).s.rate = l.code
         /\ l.number # Absent => ParseLine(st, l).s.channels = l.number % PortMod
<1> DEFINE v == IF l.number = Absent THEN st.s.channels ELSE l.number % PortMod
           r1 == [st.s EXCEPT !.encoding = l.part]
           r2 == [r1 EXCEPT !.rate = l.code]
           r3 == [r2 EXCEPT !.channels = v]
<1>1. ParseLine(st, l) = Set(st, r3)
  <2>1. ParseLine(st, l) = ParseRtpMap(st, l)
    BY DEF ParseLine, ParseAttribute, Attributes
  <2>2. r2.channels = st.s.channels
    BY DEF States, SdpSessions
  <2> QED BY <2>1, <2>2 DEF ParseRtpMap
<1>2. st.s \in SdpSessions /\ l.part \in Texts /\ l.code \in Int /\ v \in 0 .. PortMod - 1
  <2>1. st.s \in SdpSessions /\ l.part \in Texts /\ l.code \in Int /\ l.number \in Int
    BY LineParts DEF States
  <2>2. st.s.channels \in 0 .. PortMod - 1
    BY <2>1 DEF SdpSessions
  <2> QED BY <2>1, <2>2, NumberFits
<1> HIDE DEF v
<1>3. /\ r1 \in SdpSessions /\ r1.encoding = l.part /\ r1.custom = st.s.custom
      /\ \A x \in FieldNames \ {"encoding"} : r1[x] = st.s[x]
  BY <1>2 DEF SdpSessions, FieldNames
<1> HIDE DEF r1
<1>4. /\ r2 \in SdpSessions /\ r2.rate = l.code /\ r2.custom = r1.custom
      /\ \A x \in FieldNames \ {"rate"} : r2[x] = r1[x]
  BY <1>2, <1>3 DEF SdpSessions, FieldNames
<1> HIDE DEF r2
<1>5. /\ r3 \in SdpSessions /\ r3.channels = v /\ r3.custom = r2.custom
      /\ \A x \in FieldNames \ {"channels"} : r3[x] = r2[x]
  BY <1>2, <1>4 DEF SdpSessions, FieldNames
<1> HIDE DEF r3
<1>6. r3.encoding = l.part /\ r3.rate = l.code
  BY <1>3, <1>4, <1>5 DEF FieldNames
<1>7. \A x \in FieldNames \ {"encoding", "rate", "channels"} : r3[x] = st.s[x]
  BY <1>3, <1>4, <1>5
<1>8. /\ ParseLine(st, l).s = r3
      /\ Read(st, ParseLine(st, l), {"encoding", "rate", "channels"})
  BY <1>1, <1>3, <1>4, <1>5, <1>7, SetIs DEF Read, Leaves
<1> QED BY <1>5, <1>6, <1>8 DEF v

LEMMA NumberRejected ==
  ASSUME NEW st \in States, NEW l \in SdpLines, st.result = "ok", l.type \in {"m", "rtpmap"},
         NotANumber(l.number)
  PROVE  ParseLine(st, l) = Reject(st)
<1>1. CASE l.type = "m"
  <2>1. ParseLine(st, l) = ParseMedia(st, l)
    BY <1>1 DEF ParseLine, Attributes
  <2> QED BY <2>1 DEF ParseMedia
<1>2. CASE l.type = "rtpmap"
  <2>1. ParseLine(st, l) = ParseRtpMap(st, l)
    BY <1>2 DEF ParseLine, ParseAttribute, Attributes
  <2> QED BY <2>1 DEF ParseRtpMap
<1> QED BY <1>1, <1>2

LEMMA DirectionRead ==
  ASSUME NEW st \in States, NEW l \in SdpLines, st.result = "ok", l.type = "direction"
  PROVE  Read(st, ParseLine(st, l), {"direction"}) /\ ParseLine(st, l).s.direction = l.part
<1> DEFINE new == [st.s EXCEPT !.direction = l.part]
<1>1. ParseLine(st, l) = Set(st, new)
  BY DEF ParseLine, ParseAttribute, Attributes
<1>2. st.s \in SdpSessions /\ l.part \in Texts
  BY LineParts DEF States
<1>3. /\ new \in SdpSessions /\ new.direction = l.part /\ new.custom = st.s.custom
      /\ \A x \in FieldNames \ {"direction"} : new[x] = st.s[x]
  BY <1>2 DEF SdpSessions, FieldNames
<1> HIDE DEF new
<1> QED BY <1>1, <1>3, SetIs DEF Read, Leaves

LEMMA SourceFilterRead ==
  ASSUME NEW st \in States, NEW l \in SdpLines, st.result = "ok", l.type = "source-filter",
         l.number # Absent
  PROVE  Read(st, ParseLine(st, l), {"from"}) /\ ParseLine(st, l).s.from = l.part
<1> DEFINE new == [st.s EXCEPT !.from = l.part]
<1>1. ParseLine(st, l) = Set(st, new)
  <2>1. ParseLine(st, l) = ParseSourceFilter(st, l)
    BY DEF ParseLine, ParseAttribute, Attributes
  <2> QED BY <2>1 DEF ParseSourceFilter
<1>2. st.s \in SdpSessions /\ l.part \in Texts
  BY LineParts DEF States
<1>3. /\ new \in SdpSessions /\ new.from = l.part /\ new.custom = st.s.custom
      /\ \A x \in FieldNames \ {"from"} : new[x] = st.s[x]
  BY <1>2 DEF SdpSessions, FieldNames
<1> HIDE DEF new
<1> QED BY <1>1, <1>3, SetIs DEF Read, Leaves

LEMMA ClockRead ==
  ASSUME NEW st \in States, NEW l \in SdpLines, st.result = "ok", l.type = "ts-refclk",
         ~NotANumber(l.number)
  PROVE  /\ Read(st, ParseLine(st, l), {"mac", "domain"})
         /\ ParseLine(st, l).s.mac = l.part /\ ParseLine(st, l).s.domain = l.number
<1> DEFINE r1 == [st.s EXCEPT !.mac = l.part]
           r2 == [r1 EXCEPT !.domain = l.number]
<1>1. ParseLine(st, l) = Set(st, r2)
  <2>1. ParseLine(st, l) = ParseTsRefClk(st, l)
    BY DEF ParseLine, ParseAttribute, Attributes
  <2> QED BY <2>1 DEF ParseTsRefClk, NotANumber
<1>2. st.s \in SdpSessions /\ l.part \in Texts /\ l.number \in Int
  BY LineParts DEF States
<1>3. /\ r1 \in SdpSessions /\ r1.mac = l.part /\ r1.custom = st.s.custom
      /\ \A x \in FieldNames \ {"mac"} : r1[x] = st.s[x]
  BY <1>2 DEF SdpSessions, FieldNames
<1> HIDE DEF r1
<1>4. /\ r2 \in SdpSessions /\ r2.domain = l.number /\ r2.custom = r1.custom
      /\ \A x \in FieldNames \ {"domain"} : r2[x] = r1[x]
  BY <1>2, <1>3 DEF SdpSessions, FieldNames
<1> HIDE DEF r2
<1>5. r2.mac = l.part
  BY <1>3, <1>4 DEF FieldNames
<1>6. \A x \in FieldNames \ {"mac", "domain"} : r2[x] = st.s[x]
  BY <1>3, <1>4
<1>7. ParseLine(st, l).s = r2 /\ Read(st, ParseLine(st, l), {"mac", "domain"})
  BY <1>1, <1>3, <1>4, <1>6, SetIs DEF Read, Leaves
<1> QED BY <1>4, <1>5, <1>7

LEMMA CustomRead ==
  ASSUME NEW st \in States, NEW l \in SdpLines, st.result = "ok", l.type = "custom"
  PROVE  /\ ParseLine(st, l) \in States /\ ParseLine(st, l).result = "ok"
         /\ Leaves(st, ParseLine(st, l), {})
         /\ ParseLine(st, l).s.custom = st.s.custom \cup {l.part}
<1> DEFINE v == st.s.custom \cup {l.part}
           new == [st.s EXCEPT !.custom = v]
<1>1. ParseLine(st, l) = Set(st, new)
  BY DEF ParseLine, ParseAttribute, Attributes
<1>2. st.s \in SdpSessions /\ v \in SUBSET Texts
  <2>1. st.s \in SdpSessions /\ l.part \in Texts
    BY LineParts DEF States
  <2> QED BY <2>1 DEF SdpSessions
<1> HIDE DEF v
<1>3. /\ new \in SdpSessions /\ new.custom = v
      /\ \A x \in FieldNames : new[x] = st.s[x]
  BY <1>2 DEF SdpSessions, FieldNames
<1> HIDE DEF new
<1> QED BY <1>1, <1>3, SetIs DEF Leaves, v

-----------------------------------------------------------------------------
(* Whatever the lines, the parser's state keeps its types                   *)

StateOK(st) == st \in States /\ IsFiniteSet(st.s.custom)

LEMMA StartOK == StateOK(Start) /\ Start.s = Default /\ Start.result = "ok"
<1>1. /\ PortMod \in Nat /\ TtlMod \in Nat /\ PortMod > 5004 /\ TtlMod > 32
      /\ Blank \in Texts /\ "L24" \in Texts /\ "recvonly" \in Texts
  BY SdpAssumption DEF Default, Encodings
<1>2. 32 \in 0 .. TtlMod - 1 /\ 5004 \in 0 .. PortMod - 1 /\ 2 \in 0 .. PortMod - 1
  BY <1>1
<1>3. Default \in SdpSessions /\ Default.custom = {}
  BY <1>1, <1>2 DEF Default, SdpSessions
<1> QED BY <1>3, FS_EmptySet DEF StateOK, States, Start

\* And only the clock line's unguarded number throws.
LEMMA LineKeepsState ==
  ASSUME NEW st, StateOK(st), NEW l \in SdpLines
  PROVE  /\ StateOK(ParseLine(st, l))
         /\ ParseLine(st, l).result = "threw" =>
              st.result = "threw" \/ (l.type = "ts-refclk" /\ l.number = Huge)
<1> PICK q : q = ParseLine(st, l)
  OBVIOUS
<1> DEFINE Typed == /\ StateOK(q)
                    /\ q.result = "threw" =>
                         st.result = "threw" \/ (l.type = "ts-refclk" /\ l.number = Huge)
<1> SUFFICES Typed
  OBVIOUS
<1>0. st \in States /\ IsFiniteSet(st.s.custom) /\ st.s \in SdpSessions
  BY DEF StateOK, States
<1>1. l.type \in {"o", "s", "c", "m", "rtpmap", "direction", "source-filter", "ts-refclk", "custom"}
  BY DEF SdpLines, Attributes
<1>2. CASE st.result # "ok"
  BY <1>2 DEF ParseLine
<1>3. ASSUME q = Reject(st) PROVE Typed
  <2>1. q \in States /\ q.s = st.s /\ q.result = "rejected"
    BY <1>0, <1>3, SetIs
  <2> QED BY <1>0, <2>1 DEF StateOK
<1>4. ASSUME NEW F, Read(st, q, F) PROVE Typed
  BY <1>0, <1>4 DEF Read, StateOK
<1>5. CASE st.result = "ok"
  <2>1. CASE l.type = "o"
    BY <1>0, <1>3, <1>4, <1>5, <2>1, OriginRead, OriginRejected
  <2>2. CASE l.type = "s"
    BY <1>0, <1>4, <1>5, <2>2, NameRead
  <2>3. CASE l.type = "c"
    BY <1>0, <1>4, <1>5, <2>3, ConnectionRead
  <2>4. CASE l.type = "m"
    BY <1>0, <1>3, <1>4, <1>5, <2>4, MediaRead, NumberRejected
  <2>5. CASE l.type = "rtpmap"
    BY <1>0, <1>3, <1>4, <1>5, <2>5, RtpMapRead, NumberRejected
  <2>6. CASE l.type = "direction"
    BY <1>0, <1>4, <1>5, <2>6, DirectionRead
  <2>7. CASE l.type = "source-filter"
    <3>1. ParseLine(st, l) = ParseSourceFilter(st, l)
      BY <1>5, <2>7 DEF ParseLine, ParseAttribute, Attributes
    <3>2. l.number = Absent => q = Reject(st)
      BY <3>1 DEF ParseSourceFilter
    <3> QED BY <1>0, <1>3, <1>4, <1>5, <2>7, <3>2, SourceFilterRead
  <2>8. CASE l.type = "ts-refclk"
    <3>1. q = ParseTsRefClk(st, l)
      BY <1>5, <2>8 DEF ParseLine, ParseAttribute, Attributes
    <3>2. CASE l.number = Huge
      <4>1. q = [st EXCEPT !.result = "threw"]
        BY <3>1, <3>2 DEF ParseTsRefClk
      <4>2. q \in States /\ q.s = st.s
        BY <1>0, <4>1 DEF States
      <4> QED BY <1>0, <2>8, <3>2, <4>2 DEF StateOK
    <3>3. CASE l.number = Junk
      <4>1. q = Reject(st)
        BY <3>1, <3>3 DEF ParseTsRefClk, Junk, Huge
      <4> QED BY <1>3, <4>1
    <3>4. CASE l.number # Huge /\ l.number # Junk
      <4>1. ~NotANumber(l.number)
        BY <3>4 DEF NotANumber
      <4> QED BY <1>0, <1>4, <1>5, <2>8, <4>1, ClockRead
    <3> QED BY <3>2, <3>3, <3>4
  <2>9. CASE l.type = "custom"
    <3>1. q \in States /\ q.s.custom = st.s.custom \cup {l.part} /\ q.result = "ok"
      BY <1>0, <1>5, <2>9, CustomRead
    <3>2. IsFiniteSet(st.s.custom \cup {l.part})
      BY <1>0, FS_AddElement
    <3> QED BY <3>1, <3>2 DEF StateOK
  <2> QED BY <1>1, <2>1, <2>2, <2>3, <2>4, <2>5, <2>6, <2>7, <2>8, <2>9
<1> QED BY <1>2, <1>5

LEMMA ParsedOK ==
  ASSUME NEW t \in Seq(SdpLines), NEW f, Parses(t, Len(t), f)
  PROVE  \A i \in 0 .. Len(t) : StateOK(f[i])
<1> DEFINE T == {i \in 0 .. Len(t) : ~StateOK(f[i])}
<1>0. PICK n \in Nat : n = Len(t)
  BY LenProperties
<1>1. \A i \in 1 .. n : t[i] \in SdpLines
  BY <1>0, ElementOfSeq
<1>2. f[0] = Start /\ \A i \in 1 .. n : f[i] = ParseLine(f[i - 1], t[i])
  BY <1>0 DEF Parses
<1>3. ASSUME NEW m \in T, \A k \in T : m <= k PROVE FALSE
  <2>1. m \in 0 .. n /\ ~StateOK(f[m])
    BY <1>0
  <2>2. m # 0
    BY <1>2, <2>1, StartOK
  <2>3. m \in 1 .. n /\ m - 1 \in 0 .. n /\ ~(m <= m - 1)
    BY <2>1, <2>2
  <2>4. StateOK(f[m - 1])
    BY <1>0, <1>3, <2>3
  <2> QED BY <1>1, <1>2, <2>1, <2>3, <2>4, LineKeepsState
<1>4. T = {}
  <2>1. T \in SUBSET Nat
    BY <1>0
  <2> HIDE DEF T
  <2> QED BY <1>3, <2>1, LeastNumber
<1> QED BY <1>4

\* Nothing wider than its field gets into a session, whatever the text.
LEMMA ParseStringTyped ==
  ASSUME NEW t \in Seq(SdpLines)
  PROVE  /\ StateOK(ParseString(t))
         /\ ParseString(t).result = "ok" => Valid(ParseString(t).s)
<1>1. PICK f : Parses(t, Len(t), f) /\ ParseString(t) = Finished(f[Len(t)])
  BY ParseStringIs
<1>2. Len(t) \in Nat /\ Len(t) \in 0 .. Len(t)
  BY LenProperties
<1>3. PICK st : st = f[Len(t)] /\ StateOK(st)
  BY <1>1, <1>2, ParsedOK
<1>4. Reject(st) \in States /\ Reject(st).s = st.s /\ Reject(st).result = "rejected"
  BY <1>3, SetIs DEF StateOK, States
<1>5. StateOK(Reject(st))
  BY <1>3, <1>4 DEF StateOK
<1> QED BY <1>1, <1>3, <1>4, <1>5 DEF Finished

-----------------------------------------------------------------------------
(* Reading back what was written                                            *)

\* The session's fields whose lines were read have their values, the others
\* their defaults.
Fits(s, st, K) ==
  /\ st \in States /\ st.result = "ok"
  /\ \A x \in FieldNames : st.s[x] = IF Owner[x] \in K THEN Kept(s)[x] ELSE Default[x]

LEMMA OwnerIs ==
  /\ \A x \in FieldNames : Owner[x] = "o" <=> x \in {"origin"}
  /\ \A x \in FieldNames : Owner[x] = "s" <=> x \in {"name"}
  /\ \A x \in FieldNames : Owner[x] = "c" <=> x \in {"group", "ttl"}
  /\ \A x \in FieldNames : Owner[x] = "m" <=> x \in {"port", "payloadType"}
  /\ \A x \in FieldNames : Owner[x] = "rtpmap" <=> x \in {"encoding", "rate", "channels"}
  /\ \A x \in FieldNames : Owner[x] = "direction" <=> x \in {"direction"}
  /\ \A x \in FieldNames : Owner[x] = "source-filter" <=> x \in {"from"}
  /\ \A x \in FieldNames : Owner[x] = "ts-refclk" <=> x \in {"domain", "mac"}
  /\ \A x \in FieldNames : Owner[x] # "custom"
BY DEF Owner, FieldNames

LEMMA SmallNumbers ==
  ASSUME NEW s \in SdpSessions
  PROVE  /\ s.port % PortMod = s.port /\ s.channels % PortMod = s.channels
         /\ s.ttl % TtlMod = s.ttl
         /\ \A n \in {s.port, s.channels, s.ttl} : n \in Nat /\ ~NotANumber(n) /\ n # Absent
<1>1. PICK p \in Nat \ {0}, m \in Nat \ {0} : p = PortMod /\ m = TtlMod
  BY SdpAssumption DEF Default
<1>2. PICK a \in 0 .. p - 1, b \in 0 .. p - 1, c \in 0 .. m - 1 :
        a = s.port /\ b = s.channels /\ c = s.ttl
  BY <1>1, SessionFields
<1>3. a % p = a /\ b % p = b /\ c % m = c
  OBVIOUS
<1>4. \A n \in {a, b, c} : n \in Nat /\ ~NotANumber(n) /\ n # Absent
  BY DEF NotANumber, Junk, Huge, Absent
<1> QED BY <1>1, <1>2, <1>3, <1>4

\* The line kinds of a written description.
LEMMA LineOfSession ==
  ASSUME NEW s, NEW l \in LinesOf(s)
  PROVE  \/ l = OriginLine(s) \/ l = Line("s", s.name, 0, 0) \/ l = ConnectionLine(s)
         \/ l = MediaLine(s) \/ l = RtpMapLine(s) \/ l = Line("direction", s.direction, 0, 0)
         \/ (HasSource(s) /\ l = SourceLine(s)) \/ (HasClock(s) /\ l = ClockLine(s))
         \/ \E key \in s.custom : l = Line("custom", key, 0, 0)
BY DEF LinesOf, CustomLines

LEMMA LineFields ==
  ASSUME NEW k, NEW p, NEW v, NEW c
  PROVE  /\ Line(k, p, v, c).type = k /\ Line(k, p, v, c).part = p
         /\ Line(k, p, v, c).number = v /\ Line(k, p, v, c).code = c
BY DEF Line

LEMMA LineFits ==
  ASSUME NEW s, SessionOK(s), s.origin # Blank, NEW l \in LinesOf(s),
         NEW st, NEW K, Fits(s, st, K)
  PROVE  /\ Fits(s, ParseLine(st, l), K \cup {l.type})
         /\ ParseLine(st, l).s.custom = st.s.custom \cup KeyOf(l)
<1> PICK q : q = ParseLine(st, l)
  OBVIOUS
<1> SUFFICES Fits(s, q, K \cup {l.type}) /\ q.s.custom = st.s.custom \cup KeyOf(l)
  OBVIOUS
<1>0. /\ s \in SdpSessions /\ l \in SdpLines /\ st \in States /\ st.result = "ok"
      /\ Kept(s).custom = s.custom
      /\ Kept(s).ttl = (IF s.ttl = 0 THEN 32 ELSE s.ttl)
      /\ Kept(s).domain = (IF HasClock(s) THEN s.domain ELSE 0)
      /\ Kept(s).mac = (IF HasClock(s) THEN s.mac ELSE Blank)
      /\ \A x \in FieldNames \ {"ttl", "domain", "mac"} : Kept(s)[x] = s[x]
  <2>1. s \in SdpSessions /\ l \in SdpLines /\ st \in States /\ st.result = "ok"
    BY LinesTyped DEF SessionOK, Fits
  <2> QED BY <2>1, KeptIs
<1>00. /\ Kept(s).origin = s.origin /\ Kept(s).name = s.name /\ Kept(s).group = s.group
       /\ Kept(s).port = s.port /\ Kept(s).payloadType = s.payloadType
       /\ Kept(s).encoding = s.encoding /\ Kept(s).rate = s.rate
       /\ Kept(s).channels = s.channels /\ Kept(s).direction = s.direction
       /\ Kept(s).from = s.from
  BY <1>0 DEF FieldNames
<1>1. ASSUME NEW F, Read(st, q, F), l.type # "custom",
             \A x \in FieldNames : Owner[x] = l.type <=> x \in F,
             \A x \in F : q.s[x] = Kept(s)[x]
      PROVE  Fits(s, q, K \cup {l.type}) /\ q.s.custom = st.s.custom \cup KeyOf(l)
  <2>1. KeyOf(l) = {}
    BY <1>1 DEF KeyOf
  <2>2. PICK k : k = l.type
    OBVIOUS
  <2>3. /\ Read(st, q, F) /\ \A x \in FieldNames : Owner[x] = k <=> x \in F
        /\ \A x \in F : q.s[x] = Kept(s)[x]
    BY <1>1, <2>2
  <2>4. /\ q \in States /\ q.result = "ok" /\ q.s.custom = st.s.custom
        /\ \A x \in FieldNames \ F : q.s[x] = st.s[x]
    BY <2>3 DEF Read, Leaves
  <2>5. \A x \in FieldNames : IF Owner[x] = k THEN q.s[x] = Kept(s)[x] ELSE q.s[x] = st.s[x]
    BY <2>3, <2>4
  <2>6. Fits(s, q, K \cup {k})
    BY <2>4, <2>5 DEF Fits
  <2> QED BY <2>1, <2>2, <2>4, <2>6
<1>2. CASE l = OriginLine(s)
  <2>1. l.type = "o" /\ l.part = s.origin /\ l.number = 0
    BY <1>2, LineFields DEF OriginLine
  <2>2. Read(st, q, {"origin"}) /\ q.s.origin = s.origin
    BY <1>0, <2>1, OriginRead DEF Absent, Junk, Huge
  <2>3. \A x \in {"origin"} : q.s[x] = Kept(s)[x]
    BY <1>00, <2>2
  <2>4. \A x \in FieldNames : Owner[x] = l.type <=> x \in {"origin"}
    BY <2>1, OwnerIs
  <2>5. Read(st, q, {"origin"}) /\ l.type # "custom"
    BY <2>1, <2>2
  <2> QED BY <1>1, <2>3, <2>4, <2>5
<1>3. CASE l = Line("s", s.name, 0, 0)
  <2>1. l.type = "s" /\ l.part = s.name
    BY <1>3, LineFields
  <2>2. Read(st, q, {"name"}) /\ q.s.name = s.name
    BY <1>0, <2>1, NameRead
  <2>3. \A x \in {"name"} : q.s[x] = Kept(s)[x]
    BY <1>00, <2>2
  <2>4. \A x \in FieldNames : Owner[x] = l.type <=> x \in {"name"}
    BY <2>1, OwnerIs
  <2>5. Read(st, q, {"name"}) /\ l.type # "custom"
    BY <2>1, <2>2
  <2> QED BY <1>1, <2>3, <2>4, <2>5
<1>4. CASE l = ConnectionLine(s)
  <2>1. l.type = "c" /\ l.part = s.group /\ l.number = (IF s.ttl = 0 THEN Absent ELSE s.ttl)
    BY <1>4, LineFields DEF ConnectionLine
  <2>2. /\ Read(st, q, {"group", "ttl"}) /\ q.s.group = s.group
        /\ q.s.ttl = IF l.number = Absent THEN st.s.ttl
                     ELSE IF NotANumber(l.number) THEN 32 ELSE l.number % TtlMod
    BY <1>0, <2>1, ConnectionRead
  <2>3. q.s.ttl = Kept(s).ttl
    <3>1. CASE s.ttl = 0
      <4>1. st.s.ttl = 32
        <5>1. Kept(s).ttl = 32 /\ Default.ttl = 32
          BY <1>0, <3>1 DEF Default
        <5> QED BY <5>1 DEF Fits, FieldNames
      <4> QED BY <1>0, <2>1, <2>2, <3>1, <4>1
    <3>2. CASE s.ttl # 0
      BY <1>0, <2>1, <2>2, <3>2, SmallNumbers
    <3> QED BY <3>1, <3>2
  <2>4. \A x \in {"group", "ttl"} : q.s[x] = Kept(s)[x]
    BY <1>00, <2>2, <2>3
  <2>5. \A x \in FieldNames : Owner[x] = l.type <=> x \in {"group", "ttl"}
    BY <2>1, OwnerIs
  <2>6. Read(st, q, {"group", "ttl"}) /\ l.type # "custom"
    BY <2>1, <2>2
  <2> QED BY <1>1, <2>4, <2>5, <2>6
<1>5. CASE l = MediaLine(s)
  <2>1. l.type = "m" /\ l.number = s.port /\ l.code = s.payloadType
    BY <1>5, LineFields DEF MediaLine
  <2>2. s.port % PortMod = s.port /\ ~NotANumber(s.port)
    BY <1>0, SmallNumbers
  <2>3. /\ Read(st, q, {"port", "payloadType"}) /\ q.s.port = s.port
        /\ q.s.payloadType = s.payloadType
    BY <1>0, <2>1, <2>2, MediaRead
  <2>4. \A x \in {"port", "payloadType"} : q.s[x] = Kept(s)[x]
    BY <1>00, <2>3
  <2>5. \A x \in FieldNames : Owner[x] = l.type <=> x \in {"port", "payloadType"}
    BY <2>1, OwnerIs
  <2>6. Read(st, q, {"port", "payloadType"}) /\ l.type # "custom"
    BY <2>1, <2>3
  <2> QED BY <1>1, <2>4, <2>5, <2>6
<1>6. CASE l = RtpMapLine(s)
  <2>1. l.type = "rtpmap" /\ l.part = s.encoding /\ l.number = s.channels /\ l.code = s.rate
    BY <1>6, LineFields DEF RtpMapLine
  <2>2. s.channels % PortMod = s.channels /\ ~NotANumber(s.channels) /\ s.channels # Absent
    BY <1>0, SmallNumbers
  <2>3. /\ Read(st, q, {"encoding", "rate", "channels"})
        /\ q.s.encoding = s.encoding /\ q.s.rate = s.rate /\ q.s.channels = s.channels
    BY <1>0, <2>1, <2>2, RtpMapRead
  <2>4. \A x \in {"encoding", "rate", "channels"} : q.s[x] = Kept(s)[x]
    BY <1>00, <2>3
  <2>5. \A x \in FieldNames : Owner[x] = l.type <=> x \in {"encoding", "rate", "channels"}
    BY <2>1, OwnerIs
  <2>6. Read(st, q, {"encoding", "rate", "channels"}) /\ l.type # "custom"
    BY <2>1, <2>3
  <2> QED BY <1>1, <2>4, <2>5, <2>6
<1>7. CASE l = Line("direction", s.direction, 0, 0)
  <2>1. l.type = "direction" /\ l.part = s.direction
    BY <1>7, LineFields
  <2>2. Read(st, q, {"direction"}) /\ q.s.direction = s.direction
    BY <1>0, <2>1, DirectionRead
  <2>3. \A x \in {"direction"} : q.s[x] = Kept(s)[x]
    BY <1>00, <2>2
  <2>4. \A x \in FieldNames : Owner[x] = l.type <=> x \in {"direction"}
    BY <2>1, OwnerIs
  <2>5. Read(st, q, {"direction"}) /\ l.type # "custom"
    BY <2>1, <2>2
  <2> QED BY <1>1, <2>3, <2>4, <2>5
<1>8. CASE l = SourceLine(s)
  <2>1. l.type = "source-filter" /\ l.part = s.from /\ l.number = 0
    BY <1>8, LineFields DEF SourceLine
  <2>2. Read(st, q, {"from"}) /\ q.s.from = s.from
    BY <1>0, <2>1, SourceFilterRead DEF Absent
  <2>3. \A x \in {"from"} : q.s[x] = Kept(s)[x]
    BY <1>00, <2>2
  <2>4. \A x \in FieldNames : Owner[x] = l.type <=> x \in {"from"}
    BY <2>1, OwnerIs
  <2>5. Read(st, q, {"from"}) /\ l.type # "custom"
    BY <2>1, <2>2
  <2> QED BY <1>1, <2>3, <2>4, <2>5
<1>9. CASE HasClock(s) /\ l = ClockLine(s)
  <2>1. l.type = "ts-refclk" /\ l.part = s.mac /\ l.number = s.domain
    BY <1>9, LineFields DEF ClockLine
  <2>2. s.domain \in Int /\ s.domain >= 0
    BY <1>0, <1>9, SessionFields DEF HasClock
  <2>3. ~NotANumber(l.number)
    BY <2>1, <2>2 DEF NotANumber, Junk, Huge
  <2>4. Read(st, q, {"mac", "domain"}) /\ q.s.mac = s.mac /\ q.s.domain = s.domain
    BY <1>0, <2>1, <2>3, ClockRead
  <2>5. Kept(s).mac = s.mac /\ Kept(s).domain = s.domain
    BY <1>0, <1>9
  <2>6. \A x \in {"mac", "domain"} : q.s[x] = Kept(s)[x]
    BY <2>4, <2>5
  <2>7. \A x \in FieldNames : Owner[x] = l.type <=> x \in {"mac", "domain"}
    BY <2>1, OwnerIs
  <2>8. Read(st, q, {"mac", "domain"}) /\ l.type # "custom"
    BY <2>1, <2>4
  <2> QED BY <1>1, <2>6, <2>7, <2>8
<1>10. CASE \E key \in s.custom : l = Line("custom", key, 0, 0)
  <2>1. l.type = "custom"
    BY <1>10, LineFields
  <2>2. /\ q \in States /\ q.result = "ok" /\ \A x \in FieldNames : q.s[x] = st.s[x]
        /\ q.s.custom = st.s.custom \cup {l.part}
    BY <1>0, <2>1, CustomRead DEF Leaves
  <2>3. KeyOf(l) = {l.part}
    BY <2>1 DEF KeyOf
  <2>4. \A x \in FieldNames : Owner[x] # l.type
    BY <2>1, OwnerIs
  <2>5. PICK k : k = l.type
    OBVIOUS
  <2>6. \A x \in FieldNames : IF Owner[x] = k THEN q.s[x] = Kept(s)[x] ELSE q.s[x] = st.s[x]
    BY <2>2, <2>4, <2>5
  <2>7. Fits(s, q, K \cup {k})
    BY <2>2, <2>6 DEF Fits
  <2> QED BY <2>2, <2>3, <2>5, <2>7
<1> QED BY <1>2, <1>3, <1>4, <1>5, <1>6, <1>7, <1>8, <1>9, <1>10, LineOfSession

TypesRead(t, i) == {t[j].type : j \in 1 .. i}
KeysRead(t, i)  == UNION {KeyOf(t[j]) : j \in 1 .. i}

LEMMA OneMoreRead ==
  ASSUME NEW t, NEW n \in Nat, NEW i \in 1 .. n
  PROVE  /\ TypesRead(t, i) = TypesRead(t, i - 1) \cup {t[i].type}
         /\ KeysRead(t, i) = KeysRead(t, i - 1) \cup KeyOf(t[i])
<1>1. \A j : j \in 1 .. i <=> j \in 1 .. i - 1 \/ j = i
  OBVIOUS
<1> QED BY <1>1 DEF TypesRead, KeysRead

\* The text of a session with an origin, its lines in any order.
LEMMA PrefixFits ==
  ASSUME NEW s, SessionOK(s), s.origin # Blank,
         NEW t \in Seq(SdpLines), ToSet(t) = LinesOf(s), NEW f, Parses(t, Len(t), f)
  PROVE  \A i \in 0 .. Len(t) : /\ Fits(s, f[i], TypesRead(t, i))
                                /\ f[i].s.custom = KeysRead(t, i)
<1> DEFINE Good(i) == /\ Fits(s, f[i], TypesRead(t, i))
                      /\ f[i].s.custom = KeysRead(t, i)
           T == {i \in 0 .. Len(t) : ~Good(i)}
<1>0. PICK n \in Nat : n = Len(t)
  BY LenProperties
<1>1. \A i \in 1 .. n : t[i] \in LinesOf(s)
  BY <1>0, LenProperties DEF ToSet
<1>2. f[0] = Start /\ \A i \in 1 .. n : f[i] = ParseLine(f[i - 1], t[i])
  BY <1>0 DEF Parses
<1>3. Good(0)
  <2>1. TypesRead(t, 0) = {} /\ KeysRead(t, 0) = {}
    BY DEF TypesRead, KeysRead
  <2>2. Start \in States /\ Start.s = Default /\ Start.result = "ok" /\ Default.custom = {}
    BY StartOK DEF StateOK, Default
  <2> QED BY <1>2, <2>1, <2>2 DEF Fits
<1>4. ASSUME NEW m \in T, \A k \in T : m <= k PROVE FALSE
  <2>1. m \in 0 .. n /\ ~Good(m)
    BY <1>0
  <2>2. m # 0
    BY <1>3, <2>1
  <2>3. m \in 1 .. n /\ m - 1 \in 0 .. n /\ ~(m <= m - 1)
    BY <2>1, <2>2
  <2>4. Good(m - 1)
    BY <1>0, <1>4, <2>3
  <2>5. PICK st, l, K : st = f[m - 1] /\ l = t[m] /\ K = TypesRead(t, m - 1)
    OBVIOUS
  <2>6. l \in LinesOf(s) /\ Fits(s, st, K) /\ st.s.custom = KeysRead(t, m - 1)
    BY <1>1, <2>3, <2>4, <2>5
  <2>7. /\ Fits(s, ParseLine(st, l), K \cup {l.type})
        /\ ParseLine(st, l).s.custom = st.s.custom \cup KeyOf(l)
    BY <2>6, LineFits
  <2>8. f[m] = ParseLine(st, l)
    BY <1>2, <2>3, <2>5
  <2>9. TypesRead(t, m) = K \cup {l.type} /\ KeysRead(t, m) = st.s.custom \cup KeyOf(l)
    <3>1. /\ TypesRead(t, m) = TypesRead(t, m - 1) \cup {t[m].type}
          /\ KeysRead(t, m) = KeysRead(t, m - 1) \cup KeyOf(t[m])
      BY <2>3, OneMoreRead
    <3> QED BY <2>5, <2>6, <3>1
  <2>10. Good(m)
    BY <2>7, <2>8, <2>9
  <2> QED BY <2>1, <2>10
<1>5. T = {}
  <2>1. T \in SUBSET Nat
    BY <1>0
  <2> HIDE DEF T
  <2> QED BY <1>4, <2>1, LeastNumber
<1> QED BY <1>5

\* All lines read, the session is what the description keeps of it.
LEMMA AllRead ==
  ASSUME NEW s, SessionOK(s), NEW st, NEW K, Fits(s, st, K),
         K = {l.type : l \in LinesOf(s)}, st.s.custom = s.custom
  PROVE  st = [s |-> Kept(s), result |-> "ok"]
<1>0. /\ s \in SdpSessions /\ st \in States /\ st.result = "ok" /\ st.s \in SdpSessions
      /\ Kept(s) \in SdpSessions /\ Kept(s).custom = s.custom
      /\ Kept(s).domain = (IF HasClock(s) THEN s.domain ELSE 0)
      /\ Kept(s).mac = (IF HasClock(s) THEN s.mac ELSE Blank)
      /\ Kept(s).from = s.from
  <2>1. s \in SdpSessions /\ st \in States /\ st.result = "ok" /\ st.s \in SdpSessions
    BY DEF SessionOK, Fits, States
  <2> QED BY <2>1, KeptIs DEF FieldNames
<1>1. {"o", "s", "c", "m", "rtpmap", "direction"} \subseteq K
  <2>1. /\ OriginLine(s).type = "o" /\ Line("s", s.name, 0, 0).type = "s"
        /\ ConnectionLine(s).type = "c" /\ MediaLine(s).type = "m"
        /\ RtpMapLine(s).type = "rtpmap" /\ Line("direction", s.direction, 0, 0).type = "direction"
    BY LineFields DEF OriginLine, ConnectionLine, MediaLine, RtpMapLine
  <2> QED BY <2>1 DEF LinesOf
<1>2. HasSource(s) => "source-filter" \in K
  <2>1. SourceLine(s).type = "source-filter"
    BY LineFields DEF SourceLine
  <2> QED BY <2>1 DEF LinesOf
<1>3. HasClock(s) => "ts-refclk" \in K
  <2>1. ClockLine(s).type = "ts-refclk"
    BY LineFields DEF ClockLine
  <2> QED BY <2>1 DEF LinesOf
<1>4. \A x \in FieldNames : st.s[x] = IF Owner[x] \in K THEN Kept(s)[x] ELSE Default[x]
  BY DEF Fits
<1>5. \A x \in FieldNames : st.s[x] = Kept(s)[x]
  <2> TAKE x \in FieldNames
  <2>1. CASE x = "from"
    <3>1. Owner[x] = "source-filter" /\ Default[x] = Blank
      BY <2>1 DEF Owner, Default
    <3>2. ~HasSource(s) => Kept(s)[x] = Blank
      BY <1>0, <2>1 DEF HasSource
    <3> QED BY <1>2, <1>4, <3>1, <3>2
  <2>2. CASE x = "domain"
    <3>1. Owner[x] = "ts-refclk" /\ Default[x] = 0
      BY <2>2 DEF Owner, Default
    <3>2. ~HasClock(s) => Kept(s)[x] = 0
      BY <1>0, <2>2
    <3> QED BY <1>3, <1>4, <3>1, <3>2
  <2>3. CASE x = "mac"
    <3>1. Owner[x] = "ts-refclk" /\ Default[x] = Blank
      BY <2>3 DEF Owner, Default
    <3>2. ~HasClock(s) => Kept(s)[x] = Blank
      BY <1>0, <2>3
    <3> QED BY <1>3, <1>4, <3>1, <3>2
  <2>4. CASE x \notin {"from", "domain", "mac"}
    <3>1. Owner[x] \in {"o", "s", "c", "m", "rtpmap", "direction"}
      BY <2>4 DEF FieldNames, Owner
    <3> QED BY <1>1, <1>4, <3>1
  <2> QED BY <2>1, <2>2, <2>3, <2>4
<1>6. st.s = Kept(s)
  BY <1>0, <1>5, SameSession
<1> QED BY <1>0, <1>6 DEF States

\* The keys of the description are the session's.
LEMMA KeysOfSession ==
  ASSUME NEW s, SessionOK(s)
  PROVE  UNION {KeyOf(l) : l \in LinesOf(s)} = s.custom
<1>1. \A l \in LinesOf(s) : KeyOf(l) \subseteq s.custom
  <2> TAKE l \in LinesOf(s)
  <2>1. l.type # "custom" \/ \E key \in s.custom : l = Line("custom", key, 0, 0)
    BY LineOfSession, LineFields
         DEF OriginLine, ConnectionLine, MediaLine, RtpMapLine, SourceLine, ClockLine
  <2> QED BY <2>1, LineFields DEF KeyOf
<1>2. \A key \in s.custom : Line("custom", key, 0, 0) \in LinesOf(s)
                            /\ KeyOf(Line("custom", key, 0, 0)) = {key}
  BY LineFields DEF KeyOf, LinesOf, CustomLines
<1> QED BY <1>1, <1>2

\* What any order of the lines of a session with an origin parses to.
LEMMA OriginatedText ==
  ASSUME NEW s, SessionOK(s), s.origin # Blank,
         NEW t \in Seq(SdpLines), ToSet(t) = LinesOf(s)
  PROVE  ParseString(t) = Finished([s |-> Kept(s), result |-> "ok"])
<1>1. PICK f : Parses(t, Len(t), f) /\ ParseString(t) = Finished(f[Len(t)])
  BY ParseStringIs
<1>2. PICK n \in Nat : n = Len(t) /\ DOMAIN t = 1 .. n
  BY LenProperties
<1>3. n \in 0 .. n
  OBVIOUS
<1>4. Fits(s, f[n], TypesRead(t, n)) /\ f[n].s.custom = KeysRead(t, n)
  BY <1>1, <1>2, <1>3, PrefixFits
<1>5. LinesOf(s) = {t[j] : j \in 1 .. n}
  BY <1>2 DEF ToSet
<1>6. TypesRead(t, n) = {l.type : l \in LinesOf(s)}
  BY <1>5 DEF TypesRead
<1>7. KeysRead(t, n) = s.custom
  <2>1. KeysRead(t, n) = UNION {KeyOf(l) : l \in LinesOf(s)}
    BY <1>5 DEF KeysRead
  <2> QED BY <2>1, KeysOfSession
<1>8. f[n] = [s |-> Kept(s), result |-> "ok"]
  BY <1>4, <1>6, <1>7, AllRead
<1> QED BY <1>1, <1>2, <1>8

\* Without an origin every order of the lines is rejected at the o= line.
LEMMA AnonymousText ==
  ASSUME NEW s, SessionOK(s), s.origin = Blank,
         NEW t \in Seq(SdpLines), ToSet(t) = LinesOf(s)
  PROVE  ParseString(t).result = "rejected"
<1>1. PICK f : Parses(t, Len(t), f) /\ ParseString(t) = Finished(f[Len(t)])
  BY ParseStringIs
<1>2. PICK n \in Nat : n = Len(t) /\ DOMAIN t = 1 .. n
  BY LenProperties
<1>3. f[0] = Start /\ \A i \in 1 .. n : f[i] = ParseLine(f[i - 1], t[i])
  BY <1>1, <1>2 DEF Parses
<1>4. \A i \in 0 .. n : StateOK(f[i])
  BY <1>1, <1>2, ParsedOK
<1>5. PICK o \in 1 .. n : t[o] = OriginLine(s)
  <2>1. OriginLine(s) \in ToSet(t)
    BY DEF LinesOf
  <2> QED BY <1>2, <2>1 DEF ToSet
<1>6. \A i \in 1 .. n : t[i] \in LinesOf(s) /\ t[i] \in SdpLines
  <2>1. \A i \in 1 .. n : t[i] \in LinesOf(s)
    BY <1>2 DEF ToSet
  <2> QED BY <2>1, LinesTyped
<1>7. \A i \in 1 .. n : ~(t[i].type = "ts-refclk" /\ t[i].number = Huge)
  <2> TAKE i \in 1 .. n
  <2> PICK l \in LinesOf(s) : l = t[i]
    BY <1>6
  <2>1. l.type # "ts-refclk" \/ (HasClock(s) /\ l = ClockLine(s))
    BY LineOfSession, LineFields
         DEF OriginLine, ConnectionLine, MediaLine, RtpMapLine, SourceLine
  <2>2. HasClock(s) => s.domain # Huge
    BY SessionFields DEF HasClock, Huge, SessionOK
  <2> QED BY <2>1, <2>2, LineFields DEF ClockLine
<1> DEFINE Good(i) == f[i].result # "threw" /\ (i >= o => f[i].result # "ok")
           T == {i \in 0 .. n : ~Good(i)}
<1>8. ASSUME NEW m \in T, \A k \in T : m <= k PROVE FALSE
  <2>1. m \in 0 .. n /\ ~Good(m)
    OBVIOUS
  <2>2. m # 0
    BY <1>3, <2>1, StartOK
  <2>3. m \in 1 .. n /\ m - 1 \in 0 .. n /\ ~(m <= m - 1)
    BY <2>1, <2>2
  <2>4. Good(m - 1)
    BY <1>8, <2>3
  <2>5. PICK st, l : st = f[m - 1] /\ l = t[m]
    OBVIOUS
  <2>6. /\ StateOK(st) /\ l \in SdpLines /\ st.result # "threw" /\ st \in States
        /\ ~(l.type = "ts-refclk" /\ l.number = Huge)
    BY <1>4, <1>6, <1>7, <2>3, <2>4, <2>5 DEF StateOK
  <2>7. f[m] = ParseLine(st, l)
    BY <1>3, <2>3, <2>5
  <2>8. f[m].result # "threw"
    BY <2>6, <2>7, LineKeepsState
  <2>9. m >= o => f[m].result # "ok"
    <3>1. CASE st.result # "ok"
      BY <2>7, <3>1 DEF ParseLine
    <3>2. CASE st.result = "ok"
      <4>1. ~(m - 1 >= o)
        BY <2>4, <2>5, <3>2
      <4>2. CASE m = o
        <5>1. l.type = "o" /\ l.number = Absent
          BY <1>5, <2>5, <4>2, LineFields DEF OriginLine
        <5>2. f[m] = Reject(st)
          BY <2>6, <2>7, <3>2, <5>1, OriginRejected
        <5>3. Reject(st).result = "rejected"
          BY <2>6, SetIs DEF States
        <5> QED BY <5>2, <5>3
      <4>3. CASE m # o
        BY <2>3, <4>1, <4>3
      <4> QED BY <4>2, <4>3
    <3> QED BY <3>1, <3>2
  <2> QED BY <2>1, <2>8, <2>9
<1>9. T = {}
  <2>1. T \in SUBSET Nat
    OBVIOUS
  <2> HIDE DEF T
  <2> QED BY <1>8, <2>1, LeastNumber
<1>10. n \in 0 .. n /\ n >= o
  OBVIOUS
<1>11. f[n].result # "threw" /\ f[n].result # "ok" /\ f[n] \in States
  BY <1>4, <1>9, <1>10 DEF StateOK
<1> QED BY <1>1, <1>2, <1>11 DEF Finished, States

-----------------------------------------------------------------------------
(* Converting to a StreamInfo and back                                      *)

LEMMA ConvertedIs ==
  ASSUME NEW s, SessionOK(s)
  PROVE  LET r == FromStreamInfo(ToStreamInfo(s))
         IN  /\ SessionOK(r) /\ r.origin = s.from /\ r.from = s.from /\ r.name = s.name
             /\ r.group = s.group /\ r.port = s.port /\ r.rate = s.rate
             /\ r.channels = s.channels /\ r.payloadType = s.payloadType
             /\ r.encoding = IF s.encoding \in {"L16", "L24"} THEN s.encoding ELSE "L24"
<1> DEFINE e == IF s.encoding \in {"L16", "L24"} THEN s.encoding ELSE "L24"
<1>0. /\ s.name \in Texts /\ s.from \in Texts /\ s.group \in Texts
      /\ s.ttl \in 0 .. TtlMod - 1 /\ s.port \in 0 .. PortMod - 1
      /\ s.channels \in 0 .. PortMod - 1 /\ s.rate \in Int /\ s.payloadType \in Int
      /\ s.domain \in Int /\ s.mac \in Texts /\ s.encoding \in Texts
      /\ "L24" \in Texts /\ "recvonly" \in Texts /\ e \in Texts
  BY SessionFields, SdpAssumption DEF SessionOK, Encodings
<1> PICK i : i = ToStreamInfo(s)
  OBVIOUS
<1>1. /\ i.name = s.name /\ i.source = s.from /\ i.group = s.group /\ i.port = s.port
      /\ i.ttl = s.ttl /\ i.rate = s.rate /\ i.channels = s.channels
      /\ i.payloadType = s.payloadType /\ i.domain = s.domain /\ i.mac = s.mac
      /\ i.encoding = IF s.encoding \in {"L16", "L24"} THEN s.encoding ELSE "Unknown"
  BY DEF ToStreamInfo
<1>2. e = IF i.encoding = "Unknown" THEN "L24" ELSE i.encoding
  BY <1>1
<1> HIDE DEF e
<1> PICK r : r = FromStreamInfo(i)
  OBVIOUS
<1>3. /\ r.name = s.name /\ r.origin = s.from /\ r.group = s.group /\ r.port = s.port
      /\ r.ttl = s.ttl /\ r.rate = s.rate /\ r.channels = s.channels
      /\ r.payloadType = s.payloadType /\ r.from = s.from /\ r.domain = s.domain
      /\ r.mac = s.mac /\ r.encoding = e /\ r.direction = "recvonly" /\ r.custom = {}
  BY <1>1, <1>2 DEF FromStreamInfo, Default
<1>4. r \in SdpSessions /\ r.custom = {}
  <2>1. r = [x \in DOMAIN Default |-> r[x]]
    BY DEF FromStreamInfo
  <2>2. DOMAIN Default = FieldNames \cup {"custom"}
    BY DEF Default, FieldNames
  <2>3. r = [x \in FieldNames \cup {"custom"} |-> r[x]]
    BY <2>1, <2>2
  <2> QED BY <1>0, <1>3, <2>3 DEF SdpSessions, FieldNames
<1>5. SessionOK(r)
  BY <1>4, FS_EmptySet DEF SessionOK
<1>6. /\ r.origin = s.from /\ r.from = s.from /\ r.name = s.name
      /\ r.group = s.group /\ r.port = s.port /\ r.rate = s.rate
      /\ r.channels = s.channels /\ r.payloadType = s.payloadType /\ r.encoding = e
  BY <1>3
<1> QED BY <1>5, <1>6 DEF e

-----------------------------------------------------------------------------
(* The file and the program's session                                       *)

SdpInv ==
  /\ SessionOK(session) /\ text \in Seq(SdpLines)
  /\ result \in {"none", "ok", "rejected", "threw"}
  /\ source \in {None, "written", "edited"} /\ edits \in 0 .. MaxEdits
  /\ source = "written" => \E s : SessionOK(s) /\ text = Generate(s)

LEMMA EditedText ==
  ASSUME NEW S, NEW t \in Seq(S), NEW i \in 1 .. Len(t), NEW l \in S
  PROVE  /\ RemoveAt(t, i) \in Seq(S) /\ ReplaceAt(t, i, l) \in Seq(S)
         /\ Append(t, l) \in Seq(S)
<1>1. PICK n \in Nat : n = Len(t) /\ \A j \in 1 .. n : t[j] \in S
  BY LenProperties, ElementOfSeq
<1>2. SubSeq(t, 1, i - 1) \in Seq(S)
  <2>1. \A j \in 1 .. i - 1 : t[j] \in S
    BY <1>1
  <2> QED BY <2>1, SubSeqProperties
<1>3. SubSeq(t, i + 1, Len(t)) \in Seq(S)
  <2>1. \A j \in i + 1 .. n : t[j] \in S
    BY <1>1
  <2>2. SubSeq(t, i + 1, n) \in Seq(S)
    BY <2>1, SubSeqProperties
  <2> QED BY <1>1, <2>2
<1>4. SubSeq(t, 1, i - 1) \o SubSeq(t, i + 1, Len(t)) \in Seq(S)
  BY <1>2, <1>3, ConcatProperties
<1>5. ReplaceAt(t, i, l) \in Seq(S)
  BY ExceptSeq DEF ReplaceAt
<1>6. Append(t, l) \in Seq(S)
  BY AppendProperties
<1> QED BY <1>4, <1>5, <1>6 DEF RemoveAt

LEMMA SdpInvIsInvariant == SdpSpec => []SdpInv
<1>1. SdpInit => SdpInv
  <2> SUFFICES ASSUME SdpInit PROVE SdpInv
    OBVIOUS
  <2>1. SessionOK(session) /\ MaxEdits \in Nat
    BY SdpAssumption DEF SdpInit, SessionOK
  <2>2. text \in Seq(SdpLines) /\ result = "none" /\ source = None /\ edits = 0
    BY DEF SdpInit
  <2> QED BY <2>1, <2>2 DEF SdpInv, None
<1>2. SdpInv /\ [SdpNext]_sdpVars => SdpInv'
  <2> SUFFICES ASSUME SdpInv, [SdpNext]_sdpVars PROVE SdpInv'
    OBVIOUS
  <2>0. /\ SessionOK(session) /\ text \in Seq(SdpLines) /\ MaxEdits \in Nat
        /\ result \in {"none", "ok", "rejected", "threw"}
        /\ source \in {None, "written", "edited"} /\ edits \in 0 .. MaxEdits
        /\ source = "written" => \E s : SessionOK(s) /\ text = Generate(s)
    BY SdpAssumption DEF SdpInv
  <2>1. CASE WriteFile
    <3>1. /\ text' = Generate(session) /\ source' = "written" /\ edits' = 0
          /\ result' = "none" /\ session' = session
      BY <2>1 DEF WriteFile
    <3>2. Generate(session) \in Seq(SdpLines)
      BY <2>0, GeneratedLines
    <3> QED BY <2>0, <3>1, <3>2 DEF SdpInv
  <2>2. CASE EditSdpFile
    <3>1. /\ edits < MaxEdits /\ edits' = edits + 1 /\ source' = "edited"
          /\ result' = "none" /\ session' = session
      BY <2>2 DEF EditSdpFile
    <3>2. text' \in Seq(SdpLines)
      <4>1. ForeignLines \subseteq SdpLines
        BY SdpAssumption
      <4>2. DOMAIN text = 1 .. Len(text)
        BY <2>0, LenProperties
      <4>3. CASE \E i \in DOMAIN text : text' = RemoveAt(text, i)
        <5>1. PICK i \in 1 .. Len(text) : text' = RemoveAt(text, i)
          BY <4>2, <4>3
        <5>2. text[i] \in SdpLines
          BY <2>0, ElementOfSeq
        <5> QED BY <2>0, <5>1, <5>2, EditedText
      <4>4. CASE \E l \in ForeignLines : text' = Append(text, l)
        BY <2>0, <4>1, <4>4, AppendProperties
      <4>5. CASE \E i \in DOMAIN text, l \in ForeignLines : text' = ReplaceAt(text, i, l)
        BY <2>0, <4>1, <4>2, <4>5, EditedText
      <4> QED BY <2>2, <4>3, <4>4, <4>5 DEF EditSdpFile
    <3>3. edits' \in 0 .. MaxEdits
      BY <2>0, <3>1
    <3> QED BY <2>0, <3>1, <3>2, <3>3 DEF SdpInv
  <2>3. CASE ParseFile
    <3>1. PICK st : /\ st = ParseString(text) /\ result' = st.result
                    /\ session' = IF st.result = "ok" THEN st.s ELSE session
                    /\ text' = text /\ source' = source /\ edits' = edits
      BY <2>3 DEF ParseFile
    <3>2. StateOK(st)
      BY <2>0, <3>1, ParseStringTyped
    <3>3. result' \in {"none", "ok", "rejected", "threw"} /\ SessionOK(session')
      BY <2>0, <3>1, <3>2 DEF StateOK, States, SessionOK
    <3> QED BY <2>0, <3>1, <3>3 DEF SdpInv
  <2>4. CASE Convert
    <3>1. /\ session' = FromStreamInfo(ToStreamInfo(session)) /\ result' = "none"
          /\ text' = text /\ source' = source /\ edits' = edits
      BY <2>4 DEF Convert
    <3>2. SessionOK(session')
      BY <2>0, <3>1, ConvertedIs
    <3> QED BY <2>0, <3>1, <3>2 DEF SdpInv
  <2>5. CASE UNCHANGED sdpVars
    BY <2>0, <2>5 DEF SdpInv, sdpVars
  <2> QED BY <2>1, <2>2, <2>3, <2>4, <2>5 DEF SdpNext
<1> QED BY <1>1, <1>2, PTL DEF SdpSpec

LEMMA KeptStaysValid ==
  ASSUME NEW s, SessionOK(s), Valid(s)
  PROVE  Finished([s |-> Kept(s), result |-> "ok"]) = [s |-> Kept(s), result |-> "ok"]
<1>1. \A x \in FieldNames \ {"ttl", "domain", "mac"} : Kept(s)[x] = s[x]
  BY KeptIs DEF SessionOK
<1>2. /\ Kept(s).name = s.name /\ Kept(s).group = s.group /\ Kept(s).port = s.port
      /\ Kept(s).encoding = s.encoding /\ Kept(s).rate = s.rate
      /\ Kept(s).channels = s.channels
  BY <1>1 DEF FieldNames
<1>3. Valid(Kept(s))
  BY <1>2 DEF Valid
<1> QED BY <1>3 DEF Finished

LEMMA WrittenRead ==
  ASSUME NEW s, SessionOK(s), Valid(s), s.origin # Blank
  PROVE  ParseString(Generate(s)) = [s |-> Kept(s), result |-> "ok"]
BY GeneratedLines, OriginatedText, KeptStaysValid

LEMMA SdpInvIsSafe == SdpInv => SdpSafe
<1> SUFFICES ASSUME SdpInv PROVE SdpSafe
  OBVIOUS
<1>0. /\ SessionOK(session) /\ text \in Seq(SdpLines)
      /\ source = "written" => \E s : SessionOK(s) /\ text = Generate(s)
  BY DEF SdpInv
<1>1. SdpTypeOK
  <2>1. /\ session.port \in 0 .. PortMod - 1 /\ session.ttl \in 0 .. TtlMod - 1
        /\ session.channels \in 0 .. PortMod - 1
    BY <1>0, SessionFields DEF SessionOK
  <2>2. DOMAIN session = DOMAIN Default
    <3>1. session = [x \in FieldNames \cup {"custom"} |-> session[x]]
      BY <1>0, SessionIs DEF SessionOK
    <3>2. DOMAIN session = FieldNames \cup {"custom"}
      BY <3>1
    <3> QED BY <3>2 DEF Default, FieldNames
  <2> QED BY <2>1, <2>2 DEF SdpInv, SdpTypeOK
<1>2. RoundTrip
  BY <1>0, WrittenRead DEF RoundTrip
<1>3. OrderIrrelevant
  <2> SUFFICES ASSUME source = "written"
               PROVE  /\ ParseString(Reverse(text)).result = ParseString(text).result
                      /\ ParseString(text).result = "ok" =>
                           ParseString(Reverse(text)) = ParseString(text)
    BY DEF OrderIrrelevant
  <2>1. PICK s : SessionOK(s) /\ text = Generate(s)
    BY <1>0
  <2>2. /\ text \in Seq(SdpLines) /\ ToSet(text) = LinesOf(s)
        /\ Reverse(text) \in Seq(SdpLines) /\ ToSet(Reverse(text)) = LinesOf(s)
    BY <2>1, GeneratedLines, ReverseIs
  <2>3. CASE s.origin = Blank
    BY <2>1, <2>2, <2>3, AnonymousText
  <2>4. CASE s.origin # Blank
    <3>1. /\ ParseString(text) = Finished([s |-> Kept(s), result |-> "ok"])
          /\ ParseString(Reverse(text)) = Finished([s |-> Kept(s), result |-> "ok"])
      BY <2>1, <2>2, <2>4, OriginatedText
    <3> QED BY <3>1
  <2> QED BY <2>3, <2>4
<1>4. InfoThenFile
  <2> DEFINE r == FromStreamInfo(ToStreamInfo(session))
  <2> SUFFICES ASSUME Valid(session), session.from # Blank
               PROVE  /\ ParseString(Generate(r)).result = "ok"
                      /\ \A f \in {"name", "group", "port", "rate", "channels",
                                   "payloadType", "from"} :
                           ParseString(Generate(r)).s[f] = session[f]
                      /\ session.encoding # "AM824" =>
                           ParseString(Generate(r)).s.encoding = session.encoding
    BY DEF InfoThenFile
  <2>1. /\ SessionOK(r) /\ r.origin = session.from /\ r.from = session.from
        /\ r.name = session.name /\ r.group = session.group /\ r.port = session.port
        /\ r.rate = session.rate /\ r.channels = session.channels
        /\ r.payloadType = session.payloadType
        /\ r.encoding = IF session.encoding \in {"L16", "L24"} THEN session.encoding ELSE "L24"
    BY <1>0, ConvertedIs
  <2> HIDE DEF r
  <2>2. Valid(r)
    BY <2>1 DEF Valid, Encodings
  <2>3. ParseString(Generate(r)) = [s |-> Kept(r), result |-> "ok"]
    BY <2>1, <2>2, WrittenRead
  <2>4. \A x \in FieldNames \ {"ttl", "domain", "mac"} : Kept(r)[x] = r[x]
    BY <2>1, KeptIs DEF SessionOK
  <2>5. \A f \in {"name", "group", "port", "rate", "channels", "payloadType", "from"} :
          Kept(r)[f] = session[f]
    BY <2>1, <2>4 DEF FieldNames
  <2>6. session.encoding # "AM824" => Kept(r).encoding = session.encoding
    BY <2>1, <2>4 DEF FieldNames, Valid, Encodings
  <2> QED BY <2>3, <2>5, <2>6
<1> QED BY <1>1, <1>2, <1>3, <1>4 DEF SdpSafe

\* Whatever was written into the file, by the driver or by anyone else, a
\* session parsed from it has the types of SDPSession, what generate() writes
\* for a valid session parseString() reads back up to what a description
\* keeps, the order of its lines does not matter, and the way through a
\* StreamInfo keeps addresses, port and format (Driver/SDPParser.cpp).
THEOREM DescriptionsHold == SdpSpec => []SdpSafe
<1>1. SdpInv => SdpSafe
  BY SdpInvIsSafe
<1>2. SdpSpec => []SdpInv
  BY SdpInvIsInvariant
<1> QED BY <1>1, <1>2, PTL
=============================================================================
