------------------------------ MODULE SDPParser ------------------------------
(***************************************************************************)
(* Driver/SDPParser: session descriptions written to files, edited or made   *)
(* by other equipment, and parsed.  A description is a sequence of lines and *)
(* a line is its type with its parsed parts; a number in the text may be     *)
(* wider than the field it is stored in, and a part may be Junk where a      *)
(* number is wanted.  Lines no property needs (v=, i=, t=, ptime,            *)
(* framecount, mediaclk) are kept or dropped like the ones modelled.         *)
(***************************************************************************)
EXTENDS Integers, Sequences, SequencesExt

CONSTANTS Sessions,      \* sessions built by the program
          Texts,         \* what the textual fields and parts of lines can be
          ForeignLines,  \* lines other equipment or an editor puts into a file
          PortMod, TtlMod,   \* uint16_t and uint8_t
          MaxEdits       \* bound on the edits of one file

Junk == -1      \* not a number
Huge == -2      \* a number std::stoi refuses
Absent == -3    \* the part is not there
None == "none"
Blank == ""      \* an empty std::string

VARIABLES session,   \* SDPSession in the program
          text,      \* the file's lines
          result,    \* of the last parse: "none", "ok", "rejected", "threw"
          source,    \* history: the session the file was written from, or edited
          edits

sdpVars == <<session, text, result, source, edits>>

\* SDPSession's default member values.
Default ==
  [name |-> Blank, origin |-> Blank, group |-> Blank, ttl |-> 32, port |-> 5004,
   payloadType |-> 96, encoding |-> "L24", rate |-> 48000, channels |-> 2,
   direction |-> "recvonly", from |-> Blank, domain |-> 0, mac |-> Blank, custom |-> {}]

Encodings == {"L16", "L24", "AM824"}
Attributes == {"rtpmap", "direction", "source-filter", "ts-refclk", "custom"}

\* What SDPSession and a line of a description can be: fields keep their width.
SdpSessions ==
  [name : Texts, origin : Texts, group : Texts, ttl : 0 .. TtlMod - 1,
   port : 0 .. PortMod - 1, payloadType : Int, encoding : Texts, rate : Int,
   channels : 0 .. PortMod - 1, direction : Texts, from : Texts, domain : Int,
   mac : Texts, custom : SUBSET Texts]

SdpLines ==
  [type : {"o", "s", "c", "m"} \cup Attributes, part : Texts, number : Int, code : Int]

ASSUME SdpAssumption ==
  /\ PortMod \in Nat /\ TtlMod \in Nat /\ MaxEdits \in Nat
  /\ PortMod > Default.port /\ TtlMod > Default.ttl
  /\ {Blank, "recvonly", "sendonly", "Unknown"} \cup Encodings \subseteq Texts
  /\ Sessions \subseteq SdpSessions /\ \A s \in Sessions : IsFiniteSet(s.custom)
  /\ ForeignLines \subseteq SdpLines

Valid(s) ==
  /\ s.name # Blank /\ s.group # Blank /\ s.port # 0
  /\ s.encoding \in Encodings /\ s.rate # 0 /\ s.channels # 0

-----------------------------------------------------------------------------
(* generate()                                                               *)

Line(type, part, number, code) ==
  [type |-> type, part |-> part, number |-> number, code |-> code]

\* An empty address at the end of the o= line is no part at all.
OriginLine(s) == Line("o", s.origin, IF s.origin = Blank THEN Absent ELSE 0, 0)

\* Fault: the TTL is not written.
BareConnectionLine(s) == Line("c", s.group, Absent, 0)

\* "/ttl" is written for a TTL other than 0.
ConnectionLine(s) == Line("c", s.group, IF s.ttl = 0 THEN Absent ELSE s.ttl, 0)

MediaLine(s) == Line("m", Blank, s.port, s.payloadType)
RtpMapLine(s) == Line("rtpmap", s.encoding, s.channels, s.rate)

When(cond, line) == IF cond THEN <<line>> ELSE <<>>

\* The domain is written with the master's MAC, and only with it.
Generate(s) ==
  <<OriginLine(s), Line("s", s.name, 0, 0), ConnectionLine(s), MediaLine(s),
    RtpMapLine(s), Line("direction", s.direction, 0, 0)>>
  \o When(s.from # Blank, Line("source-filter", s.from, 0, 0))
  \o When(s.domain >= 0 /\ s.mac # Blank, Line("ts-refclk", s.mac, s.domain, 0))
  \o SetToSeq({Line("custom", key, 0, 0) : key \in s.custom})

-----------------------------------------------------------------------------
(* parseString()                                                            *)

Reject(st) == [st EXCEPT !.result = "rejected"]

\* std::stoi fails on both, and the handlers give up or fall back.
NotANumber(n) == n \in {Junk, Huge}

Set(st, new) == [st EXCEPT !.s = new]

ParseOrigin(st, l) ==
  IF l.number \in {Absent, Junk, Huge} THEN Reject(st)
  ELSE Set(st, [st.s EXCEPT !.origin = l.part])

\* A TTL that is no number becomes the default.
ParseConnection(st, l) ==
  Set(st, [st.s EXCEPT !.group = l.part,
             !.ttl = IF l.number = Absent THEN @
                     ELSE IF NotANumber(l.number) THEN 32 ELSE l.number % TtlMod])

\* Fault: the port is stored wider than it is.
WideMedia(st, l) ==
  IF NotANumber(l.number) THEN Reject(st)
  ELSE Set(st, [st.s EXCEPT !.port = l.number, !.payloadType = l.code])

\* Fault: a media line starts the description of the format anew.
FreshMedia(st, l) ==
  IF NotANumber(l.number) THEN Reject(st)
  ELSE Set(st, [st.s EXCEPT !.port = l.number % PortMod, !.payloadType = l.code,
                  !.encoding = Default.encoding, !.rate = Default.rate])

ParseMedia(st, l) ==
  IF NotANumber(l.number) THEN Reject(st)
  ELSE Set(st, [st.s EXCEPT !.port = l.number % PortMod, !.payloadType = l.code])

\* The channel count may be left out.
ParseRtpMap(st, l) ==
  IF NotANumber(l.number) THEN Reject(st)
  ELSE Set(st, [st.s EXCEPT !.encoding = l.part, !.rate = l.code,
                  !.channels = IF l.number = Absent THEN @ ELSE l.number % PortMod])

ParseSourceFilter(st, l) ==
  IF l.number = Absent THEN Reject(st) ELSE Set(st, [st.s EXCEPT !.from = l.part])

\* The regular expression lets only digits through to an stoi that nothing
\* guards.
ParseTsRefClk(st, l) ==
  IF l.number = Huge THEN [st EXCEPT !.result = "threw"]
  ELSE IF l.number = Junk THEN Reject(st)
  ELSE Set(st, [st.s EXCEPT !.mac = l.part, !.domain = l.number])

\* parseAttribute: an attribute nobody knows is kept as it is.
ParseAttribute(st, l) ==
  CASE l.type = "rtpmap" -> ParseRtpMap(st, l)
    [] l.type = "direction" -> Set(st, [st.s EXCEPT !.direction = l.part])
    [] l.type = "source-filter" -> ParseSourceFilter(st, l)
    [] l.type = "ts-refclk" -> ParseTsRefClk(st, l)
    [] l.type = "custom" -> Set(st, [st.s EXCEPT !.custom = @ \cup {l.part}])

\* One line into the session; a handler that returns false ends the parse,
\* unknown types and comments are ignored.
ParseLine(st, l) ==
  IF st.result # "ok" THEN st
  ELSE CASE l.type = "o" -> ParseOrigin(st, l)
         [] l.type = "s" -> Set(st, [st.s EXCEPT !.name = l.part])
         [] l.type = "c" -> ParseConnection(st, l)
         [] l.type = "m" -> ParseMedia(st, l)
         [] l.type \in Attributes -> ParseAttribute(st, l)
         [] OTHER -> st

ParseString(lines) ==
  LET after[i \in 0 .. Len(lines)] ==
        IF i = 0 THEN [s |-> Default, result |-> "ok"]
        ELSE ParseLine(after[i - 1], lines[i])
      st == after[Len(lines)]
  IN  IF st.result = "ok" /\ ~Valid(st.s) THEN Reject(st) ELSE st

-----------------------------------------------------------------------------
(* StreamInfo conversions                                                   *)

\* toStreamInfo: an encoding other than L16 and L24 becomes Unknown.
ToStreamInfo(s) ==
  [name |-> s.name, source |-> s.from, group |-> s.group, port |-> s.port,
   ttl |-> s.ttl, rate |-> s.rate, channels |-> s.channels,
   payloadType |-> s.payloadType, domain |-> s.domain, mac |-> s.mac,
   encoding |-> IF s.encoding \in {"L16", "L24"} THEN s.encoding ELSE "Unknown"]

\* Fault: the payload type is not copied back.
FromHalfInfo(i) ==
  [Default EXCEPT !.name = i.name, !.origin = i.source, !.group = i.group,
     !.port = i.port, !.ttl = i.ttl, !.rate = 48000, !.channels = i.channels,
     !.from = i.source, !.domain = i.domain, !.mac = i.mac,
     !.encoding = IF i.encoding = "Unknown" THEN "L24" ELSE i.encoding]

\* fromStreamInfo: the source is also the origin; Unknown becomes L24.
FromStreamInfo(i) ==
  [Default EXCEPT !.name = i.name, !.origin = i.source, !.group = i.group,
     !.port = i.port, !.ttl = i.ttl, !.rate = i.rate, !.channels = i.channels,
     !.payloadType = i.payloadType, !.from = i.source, !.domain = i.domain,
     !.mac = i.mac,
     !.encoding = IF i.encoding = "Unknown" THEN "L24" ELSE i.encoding]

\* createDefaultTxSession
CreateDefaultTxSession(name, ip, group, port, channels, rate, encoding) ==
  [Default EXCEPT !.name = name, !.origin = ip, !.group = group, !.port = port,
     !.channels = channels, !.rate = rate, !.encoding = encoding, !.from = ip,
     !.direction = "sendonly"]

-----------------------------------------------------------------------------
SdpInit ==
  /\ session \in Sessions /\ text = <<>> /\ result = "none"
  /\ source = None /\ edits = 0

WriteFile ==
  /\ text' = Generate(session) /\ source' = "written" /\ edits' = 0
  /\ result' = "none" /\ UNCHANGED session

\* Other equipment or an editor replaces, adds or removes a line.
EditSdpFile ==
  /\ edits < MaxEdits /\ edits' = edits + 1 /\ source' = "edited"
  /\ \/ \E i \in DOMAIN text : text' = RemoveAt(text, i)
     \/ \E l \in ForeignLines : text' = Append(text, l)
     \/ \E i \in DOMAIN text, l \in ForeignLines : text' = ReplaceAt(text, i, l)
  /\ result' = "none" /\ UNCHANGED session

\* parseFile: nothing of a description that is not accepted reaches anyone.
ParseFile ==
  /\ LET st == ParseString(text)
     IN  /\ result' = st.result
         /\ session' = IF st.result = "ok" THEN st.s ELSE session
  /\ UNCHANGED <<text, source, edits>>

Convert ==
  /\ session' = FromStreamInfo(ToStreamInfo(session))
  /\ result' = "none" /\ UNCHANGED <<text, source, edits>>

SdpNext == WriteFile \/ EditSdpFile \/ ParseFile \/ Convert

SdpSpec == SdpInit /\ [][SdpNext]_sdpVars
-----------------------------------------------------------------------------
(* Properties                                                               *)

\* The parser's state keeps its types: nothing wider than a field gets in.
SdpTypeOK ==
  /\ result \in {"none", "ok", "rejected", "threw"}
  /\ source \in {None, "written", "edited"} /\ edits \in 0 .. MaxEdits
  /\ session.port \in 0 .. PortMod - 1 /\ session.ttl \in 0 .. TtlMod - 1
  /\ session.channels \in 0 .. PortMod - 1
  /\ DOMAIN session = DOMAIN Default

\* What a description keeps of a session: a TTL of 0 and a PTP domain without
\* a master are not written, so the parser's defaults come back for them.
Kept(s) ==
  LET clock == s.domain >= 0 /\ s.mac # Blank
  IN  [s EXCEPT !.ttl = IF @ = 0 THEN 32 ELSE @,
                !.domain = IF clock THEN @ ELSE 0,
                !.mac = IF clock THEN @ ELSE Blank]

\* generate() and parseString() are inverse on every valid session with an
\* origin, up to Kept, also on one that was parsed from an edited file.
RoundTrip ==
  Valid(session) /\ session.origin # Blank =>
    ParseString(Generate(session)) = [s |-> Kept(session), result |-> "ok"]

\* No line of a description generate() wrote depends on one before it: other
\* equipment may order the lines as it likes.
OrderIrrelevant ==
  source = "written" =>
    LET there == ParseString(text)
        back  == ParseString(Reverse(text))
    IN  back.result = there.result /\ (there.result = "ok" => back = there)

\* A session that goes through a StreamInfo and a file keeps its addresses,
\* its port and its format; only AM824 becomes another encoding.
InfoThenFile ==
  Valid(session) /\ session.from # Blank =>
    LET st == ParseString(Generate(FromStreamInfo(ToStreamInfo(session))))
        kept == {"name", "group", "port", "rate", "channels", "payloadType", "from"}
    IN  /\ st.result = "ok"
        /\ \A f \in kept : st.s[f] = session[f]
        /\ session.encoding # "AM824" => st.s.encoding = session.encoding

\* "-1 = no PTP" (SDPParser.h:65): a session without PTP is still without PTP
\* after it was written and read.
PtpStaysOff ==
  Valid(session) /\ session.origin # Blank /\ session.domain = -1 =>
    ParseString(Generate(session)).s.domain = -1

\* "Parses and generates SDP files according to RFC 4566"
\* (SDPParser.h:81): what generate() writes for a valid session is accepted.
WrittenIsAccepted == Valid(session) => ParseString(Generate(session)).result = "ok"

\* Sessions survive the way through text and StreamInfo.
SdpSafe == SdpTypeOK /\ RoundTrip /\ OrderIrrelevant /\ InfoThenFile
=============================================================================
