--------------------------- MODULE StreamConfigFile ---------------------------
(***************************************************************************)
(* NetworkEngine/StreamConfig with the StreamManager's save and load: the    *)
(* configurations written as JSON text and read back by bracket counting and *)
(* regular expressions, a crash while the file is written, edits by hand.    *)
(* The text is a sequence of tokens: a key, a number, or one character of a  *)
(* string, so that what a name contains meets the code that looks for        *)
(* brackets and quotes.  Fields the reader treats alike are one field.       *)
(***************************************************************************)
EXTENDS Integers, Sequences, SequencesExt

CONSTANTS Chars,       \* characters of a name, quotes and brackets among them
          Names,       \* session names: sequences of characters
          Interfaces,  \* values of networkInterface; "" and "auto" among them
          MaxStreams,  \* bound on the streams in the manager
          MaxName      \* bound on the names that go through another restart

VARIABLES
  held,     \* streams of the StreamManager
  file,     \* tokens of streams.json, or NoText
  onFile,   \* history: configurations the file was written from
  torn,     \* history: the last write was cut short
  pc        \* "up", "saving", "starting"

\* The words of the file, which no single character is, and what it is made of.
Keywords ==
  {"streams", "enabled", "true", "false", "jitterBufferDepth", "64", "networkInterface",
   "sdp", "sessionName", "connectionAddress", "mapping", "streamName", "channelCount",
   "channelMap"}
Brackets == {"[", "]", "{", "}"}
Quote == "\""
Backslash == "\\"
AnyInterface == ""     \* no interface was chosen
Resolved == "ip"       \* NetworkUtils::resolveInterfaceToIP

Tokens == Keywords \cup Brackets \cup Chars \cup Interfaces
            \cup {"0", AnyInterface, Resolved}

ASSUME ConfigAssumption ==
  /\ MaxStreams \in Nat /\ MaxName \in Nat
  /\ {Quote, Backslash} \subseteq Chars /\ Chars \cap Keywords = {}
  /\ Names \subseteq Seq(Chars) \ {<<>>}
  /\ Interfaces \cap (Keywords \cup Brackets) = {}

configVars == <<held, file, onFile, torn, pc>>

NoText == <<"no file">>

\* createConfig: every save describes a stream with the defaults.
CreateConfig(name) ==
  [name |-> name, enabled |-> TRUE, depth |-> 0, interface |-> AnyInterface]

-----------------------------------------------------------------------------
(* toJSON                                                                   *)

\* Fault: quotes are written as they are.
UnescapedChar(c) == <<c>>

EscapeChar(c) == IF c \in {Quote, Backslash} THEN <<Backslash, c>> ELSE <<c>>
EscapeJSON(s) == FlattenSeq([i \in DOMAIN s |-> EscapeChar(s[i])])
Quoted(s) == <<Quote>> \o EscapeJSON(s) \o <<Quote>>

ConfigToJSON(c) ==
  <<"{", "enabled", IF c.enabled THEN "true" ELSE "false",
    "jitterBufferDepth", IF c.depth = 0 THEN "0" ELSE "64",
    "networkInterface", c.interface, "sdp", "{", "sessionName">> \o Quoted(c.name)
  \o <<"connectionAddress", "}", "mapping", "{", "streamName">> \o Quoted(c.name)
  \o <<"channelCount", "channelMap", "[", "]", "}", "}">>

ToJSON(configs) ==
  <<"{", "streams", "[">>
  \o FlattenSeq([i \in DOMAIN configs |-> ConfigToJSON(configs[i])])
  \o <<"]", "}">>

-----------------------------------------------------------------------------
(* fromJSON                                                                 *)

First(S) == CHOOSE i \in S : \A j \in S : i <= j
Where(text, token) == {i \in DOMAIN text : text[i] = token}

\* The bracket depth after token i, counted from a position on, brackets
\* inside strings included.
Depth(text, from, i, open, close) ==
  Cardinality({k \in Where(text, open) : from <= k /\ k <= i})
  - Cardinality({k \in Where(text, close) : from <= k /\ k <= i})

\* Fault: an array that is not closed ends with the text.
UnclosedContent(text) ==
  LET keys   == Where(text, "streams")
      starts == {i \in Where(text, "[") : keys # {} /\ i > First(keys)}
  IN  IF starts = {} THEN <<FALSE, <<>>>>
      ELSE <<TRUE, SubSeq(text, First(starts) + 1, Len(text))>>

\* Between the brackets of the streams array: <<found, tokens>>.
StreamsContent(text) ==
  LET keys   == Where(text, "streams")
      starts == {i \in Where(text, "[") : keys # {} /\ i > First(keys)}
  IN  IF starts = {} THEN <<FALSE, <<>>>>
      ELSE LET from == First(starts)
               ends == {i \in Where(text, "]") : i > from /\ Depth(text, from, i, "[", "]") = 0}
           IN  IF ends = {} THEN <<FALSE, <<>>>>
               ELSE <<TRUE, SubSeq(text, from + 1, First(ends) - 1)>>

\* An object ends where a closing brace brings the depth back to 0.
StreamObjects(content) ==
  LET ends == {i \in Where(content, "}") : Depth(content, 1, i, "{", "}") = 0}
      prev(e) == LET before == {x \in ends : x < e}
                 IN  IF before = {} THEN 0 ELSE CHOOSE x \in before : \A y \in before : y <= x
  IN  [k \in 1 .. Cardinality(ends) |->
         LET e == CHOOSE x \in ends : Cardinality({y \in ends : y <= x}) = k
         IN  SubSeq(content, prev(e) + 1, e)]

\* Fault: the closing quote is taken for a part of the string.
ExtractQuoted(obj, key) ==
  LET keys == {i \in Where(obj, key) : i + 1 \in DOMAIN obj /\ obj[i + 1] = Quote}
  IN  IF keys = {} THEN <<>>
      ELSE LET from == First(keys) + 2
               ends == {i \in Where(obj, Quote) : i >= from}
           IN  IF ends = {} THEN <<>> ELSE SubSeq(obj, from, First(ends))

\* extractStringField: from the quote after the key to the next quote.
ExtractString(obj, key) ==
  LET keys == {i \in Where(obj, key) : i + 1 \in DOMAIN obj /\ obj[i + 1] = Quote}
  IN  IF keys = {} THEN <<>>
      ELSE LET from == First(keys) + 2
               ends == {i \in Where(obj, Quote) : i >= from}
           IN  IF ends = {} THEN <<>> ELSE SubSeq(obj, from, First(ends) - 1)

\* The regular expression of a nested object stops at the first closing brace.
Nested(obj, key) ==
  LET keys == Where(obj, key)
      ends == {i \in Where(obj, "}") : keys # {} /\ i > First(keys)}
  IN  IF ends = {} THEN <<>> ELSE SubSeq(obj, First(keys), First(ends) - 1)

Has(obj, token) == Where(obj, token) # {}

\* An interface that is no address is looked up; "" and "auto" are detected.
ResolveInterface(i) == IF i \in {AnyInterface, "auto"} THEN Resolved ELSE i

After(obj, key) == obj[First(Where(obj, key)) + 1]

\* configFromJSON: fields that are missing keep their defaults, and a
\* configuration without a connection address or channels is not valid.
ConfigFromJSON(obj) ==
  LET sdp == Nested(obj, "sdp")
      map == Nested(obj, "mapping")
      name == ExtractString(sdp, "sessionName")
  IN  IF name = <<>> \/ ~Has(sdp, "connectionAddress") \/ ~Has(map, "channelCount")
      THEN <<>>
      ELSE <<[name |-> name,
              enabled |-> Has(obj, "true") \/ ~Has(obj, "false"),
              depth |-> IF Has(obj, "64") THEN 64 ELSE 0,
              interface |-> ResolveInterface(
                IF Has(obj, "networkInterface") THEN After(obj, "networkInterface")
                ELSE AnyInterface)]>>

FromJSON(text) ==
  LET content == StreamsContent(text)
      objs == StreamObjects(content[2])
  IN  <<content[1],
        IF content[1] THEN FlattenSeq([i \in DOMAIN objs |-> ConfigFromJSON(objs[i])])
        ELSE <<>>>>

-----------------------------------------------------------------------------
ConfigInit ==
  /\ held = <<>> /\ file = NoText
  /\ onFile = <<>> /\ torn = FALSE /\ pc = "up"

\* A stream is added, and saved by autoSaveIfEnabled.
AddStream(name) ==
  /\ pc = "up" /\ Len(held) < MaxStreams
  /\ held' = Append(held, CreateConfig(name)) /\ pc' = "saving"
  /\ UNCHANGED <<file, onFile, torn>>

RemoveStream ==
  /\ pc = "up" /\ held # <<>>
  /\ held' = Tail(held) /\ pc' = "saving"
  /\ UNCHANGED <<file, onFile, torn>>

\* saveAllStreams: every stream anew through createConfig, over the old file.
Saved == [i \in DOMAIN held |-> CreateConfig(held[i].name)]

SaveConfig ==
  /\ pc = "saving" /\ pc' = "up"
  /\ file' = ToJSON(Saved) /\ onFile' = Saved /\ torn' = FALSE
  /\ UNCHANGED held

\* The process dies while it writes, or at any other time.  (The bound: a
\* backslash in a name is doubled by every save and load.)
Crash ==
  /\ \A c \in ToSet(held \o onFile) : Len(c.name) <= MaxName
  /\ pc \in {"up", "saving"} /\ pc' = "starting" /\ held' = <<>>
  /\ \/ UNCHANGED <<file, onFile, torn>>
     \/ /\ pc = "saving" /\ onFile' = Saved /\ torn' = TRUE
        /\ \E n \in 0 .. Len(ToJSON(Saved)) - 1 : file' = SubSeq(ToJSON(Saved), 1, n)

\* While the driver is down the file is edited by hand, as its fields invite.
EditConfigFile ==
  /\ pc = "starting" /\ ~torn /\ file # NoText /\ onFile # <<>>
  /\ \E i \in Interfaces, on \in BOOLEAN, d \in {0, 64} :
       LET new == [onFile EXCEPT ![1].interface = i, ![1].enabled = on, ![1].depth = d]
       IN  file' = ToJSON(new) /\ onFile' = new
  /\ UNCHANGED <<held, torn, pc>>

\* Fault: disabled streams are loaded too.
LoadDisabled ==
  /\ pc = "starting" /\ pc' = "up" /\ file # NoText
  /\ held' = FromJSON(file)[2]
  /\ UNCHANGED <<file, onFile, torn>>

\* Disabled streams are passed over.
EnabledOf(configs) ==
  FlattenSeq([i \in DOMAIN configs |-> IF configs[i].enabled THEN <<configs[i]>> ELSE <<>>])

\* loadSavedStreams: a text without a streams array is removed (a copy is
\* kept, which nothing reads again); disabled streams are passed over.
LoadConfig ==
  /\ pc = "starting" /\ pc' = "up"
  /\ LET loaded == FromJSON(file)
     IN  IF file = NoText \/ loaded[1]
         THEN /\ held' = IF file = NoText THEN <<>>
                         ELSE EnabledOf(loaded[2])
              /\ UNCHANGED <<file, onFile, torn>>
         ELSE /\ held' = <<>> /\ file' = NoText
              /\ onFile' = <<>> /\ torn' = FALSE

ConfigNext ==
  \/ (\E n \in Names : AddStream(n)) \/ RemoveStream
  \/ SaveConfig \/ Crash \/ EditConfigFile \/ LoadConfig

ConfigSpec == ConfigInit /\ [][ConfigNext]_configVars

-----------------------------------------------------------------------------
Special == {Quote, Backslash} \cup Brackets
Plain(c) == \A i \in DOMAIN c.name : c.name[i] \notin Special
AllPlain(configs) == \A i \in DOMAIN configs : Plain(configs[i])

\* The manager, the file and its copy keep their types.
ConfigTypeOK ==
  /\ pc \in {"up", "saving", "starting"} /\ torn \in BOOLEAN
  /\ Len(held) <= MaxStreams
  /\ \A i \in DOMAIN held : held[i].enabled /\ held[i].name # <<>>

\* What is saved is loaded, in order and with every edited field, when no
\* name contains a bracket, a brace, a quote or a backslash.
PlainIsLoaded ==
  ~torn /\ file # NoText /\ AllPlain(onFile) =>
    FromJSON(file) =
      <<TRUE, [i \in DOMAIN onFile |->
                 [onFile[i] EXCEPT !.interface = ResolveInterface(@)]]>>

\* A file cut short by a crash is loaded whole or not at all, never in part:
\* the array's closing bracket is written after the last stream.
TornIsAllOrNothing ==
  torn /\ AllPlain(onFile) =>
    ~FromJSON(file)[1] \/ Len(FromJSON(file)[2]) = Len(onFile)

\* Quotes and backslashes in a name damage that name and nothing else: every
\* stream is still loaded, and the names that are plain unchanged.
QuotesStayInTheirName ==
  (/\ ~torn /\ file # NoText
   /\ \A i \in DOMAIN onFile, c \in Brackets :
        \A k \in DOMAIN onFile[i].name : onFile[i].name[k] # c
   /\ \A i \in DOMAIN onFile : onFile[i].name # <<>>)
  => /\ FromJSON(file)[1] /\ Len(FromJSON(file)[2]) = Len(onFile)
     /\ \A i \in DOMAIN onFile :
          Plain(onFile[i]) => FromJSON(file)[2][i].name = onFile[i].name

\* A stream with a plain name is loaded whatever the others are called.
DamageIsContained ==
  ~torn /\ file # NoText =>
    \A i \in DOMAIN onFile : Plain(onFile[i]) =>
      \E j \in DOMAIN FromJSON(file)[2] : FromJSON(file)[2][j].name = onFile[i].name

\* "Complete stream configuration ... Used for saving/loading stream
\* configurations across driver restarts" (StreamConfig.h:20): a save keeps
\* what was loaded with a stream.
SaveKeepsFields ==
  [][pc = "saving" /\ pc' = "up" =>
       \A i \in DOMAIN held : held[i].depth = onFile'[i].depth]_configVars

\* What was saved is loaded, what was torn is not loaded in part, and what is in
\* a name does not leak into other fields.
ConfigSafe ==
  ConfigTypeOK /\ PlainIsLoaded /\ TornIsAllOrNothing /\ QuotesStayInTheirName
=============================================================================
