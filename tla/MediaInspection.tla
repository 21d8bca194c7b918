--------------------------- MODULE MediaInspection ---------------------------
(***************************************************************************)
(* How a request's body is looked through before anything is done with it: *)
(* src/protocol_adapter.go, src/responses_input.go, src/media_scan.go and  *)
(* the walk of src/image_media.go, as operators over JSON trees.           *)
(*                                                                         *)
(*   Str(word, form)   a string; form is how it is written:                *)
(*                     "plain", "long" (padded beyond 256 bytes), "odd"    *)
(*                     (with an escape such as \/ that JSON knows and      *)
(*                     strconv.Unquote does not)                           *)
(*   Obj(fields)       [key, form, value] in their order, keys may repeat  *)
(*   Arr(items)                                                            *)
(* A word is lower case and trimmed, as the code makes it; a body is a     *)
(* well-formed JSON object.                                                *)
(***************************************************************************)
EXTENDS Integers, SequencesExt, FiniteSetsExt

Str(word, form) == [kind |-> "str", word |-> word, form |-> form]
Obj(fields) == [kind |-> "obj", fields |-> fields]
Arr(items) == [kind |-> "arr", items |-> items]
Null == [kind |-> "null"]
Text(word) == Str(word, "plain")
At(key, value) == [key |-> key, form |-> "plain", value |-> value]

Protocols == {"openai", "openai-response", "claude"}
ConversationField == [p \in Protocols |-> IF p = "openai-response" THEN "input" ELSE "messages"]
ImageBlockType == [p \in Protocols |->
    CASE p = "openai" -> "image_url" [] p = "openai-response" -> "input_image" [] OTHER -> "image"]
ImageTypes == {ImageBlockType[p] : p \in Protocols}

Refused == [way |-> "refused"]

-----------------------------------------------------------------------------
\* The decoded tree: of a repeated key the last field counts.

Keys(v) == {v.fields[k].key : k \in DOMAIN v.fields}
Field(v, key) ==
    LET at == IF v.kind = "obj" THEN SelectLastInSeq(v.fields, LAMBDA f : f.key = key) ELSE 0
    IN  IF at = 0 THEN Null ELSE v.fields[at].value
Word(v, key) == IF Field(v, key).kind = "str" THEN Field(v, key).word ELSE ""
Items(v, key) == IF Field(v, key).kind = "arr" THEN Field(v, key).items ELSE <<>>

Children(v) ==
    CASE v.kind = "obj" -> {Field(v, key) : key \in Keys(v)}
      [] v.kind = "arr" -> ToSet(v.items)
      [] OTHER -> {}

-----------------------------------------------------------------------------
\* The scan of the raw bytes, which meets repeated fields too.

\* Mutant of Discriminates: the media type of a source is not looked at.
DiscriminatesType(key, word) == key = "type" /\ word \in ImageTypes \cup {"document"}

Discriminates(key, word) ==
    IF key = "media_type" THEN word \in {"image/png", "application/pdf"}
    ELSE word \in ImageTypes \cup {"document"}

\* What ends the scan or is noted by it, in the order of the bytes.  The string
\* of a type is read only up to 256 bytes.
RECURSIVE Events(_)
FieldEvents(f) ==
    IF f.form = "odd" THEN <<"unreadable">>
    ELSE IF f.key \notin {"type", "media_type"} \/ f.value.kind # "str" THEN Events(f.value)
    ELSE IF f.value.form = "odd" THEN <<"unreadable">>
    ELSE IF f.value.form = "plain" /\ Discriminates(f.key, f.value.word) THEN <<"media">>
    ELSE <<>>
Events(v) ==
    CASE v.kind = "obj" /\ v.fields # <<>> -> FieldEvents(Head(v.fields)) \o Events(Obj(Tail(v.fields)))
      [] v.kind = "arr" /\ v.items # <<>> -> Events(Head(v.items)) \o Events(Arr(Tail(v.items)))
      [] OTHER -> <<>>

\* requestMayContainMedia stops at the first event.
MayContainMedia(body) == Events(body) # <<>> /\ Events(body)[1] = "media"
ScanValid(body) == Events(body) = <<>> \/ Events(body)[1] = "media"

-----------------------------------------------------------------------------
\* The protocol.

SignalOf(word) ==
    CASE word \in {"image_url", "tool_calls"} -> {"openai"}
      [] word \in {"input_image", "input_text"} -> {"openai-response"}
      [] word \in {"image", "tool_result"} -> {"claude"}
      [] OTHER -> {}

RECURSIVE Signals(_)
Signals(v) == SignalOf(Word(v, "type")) \cup UNION {Signals(c) : c \in Children(v)}

ToolSignals(tools) ==
    UNION {(IF Field(t, "function").kind = "obj" THEN {"openai"} ELSE {})
           \cup (IF Field(t, "input_schema").kind = "obj" THEN {"claude"} ELSE {}) : t \in ToSet(tools)}

\* The protocols a body with messages shows signs of.
Shown(body) ==
    Signals(body)
    \cup (IF Field(body, "input").kind \in {"arr", "str"} THEN {"openai-response"} ELSE {})
    \cup (IF Field(body, "messages").kind = "arr"
          THEN ToolSignals(Items(body, "tools"))
               \cup (IF "system" \in Keys(body) THEN {"claude"} ELSE {})
          ELSE {})

\* "none" is an error: no sign, or signs of two protocols.
Detect(body, strict) ==
    LET messages == body.kind = "obj" /\ Field(body, "messages").kind = "arr"
        input == body.kind = "obj" /\ Field(body, "input").kind \in {"arr", "str"}
    IN  IF body.kind # "obj" THEN "none"
        ELSE IF input /\ ~messages THEN "openai-response"
        ELSE IF Cardinality(Shown(body)) = 1 THEN CHOOSE p \in Shown(body) : TRUE
        ELSE IF Shown(body) = {} /\ ~strict /\ messages THEN "openai"
        ELSE "none"

\* The host's word first, the body only without it.
Resolve(source, body) ==
    IF source = "" THEN Detect(body, TRUE)
    ELSE IF source \in Protocols THEN source ELSE "none"

-----------------------------------------------------------------------------
\* A string input of the Responses protocol becomes one message, and the scan
\* it takes is the only one: its hint decides below.

MessageOf(input) ==
    Arr(<<Obj(<<At("type", Text("message")), At("role", Text("user")),
                At("content", Arr(<<Obj(<<At("type", Text("input_text")), At("text", input)>>)>>))>>)>>)

Go(body, hint) == [way |-> "go", body |-> body, hint |-> hint]

\* Of a repeated input the last one counts, and null decodes into an empty string.
NormalizeInput(body) ==
    LET events == ToSet(Events(body))
        inputs == {k \in DOMAIN body.fields : body.fields[k].key = "input"}
        last == Field(body, "input")
        text == IF Cardinality(inputs) > 1 /\ last.kind = "null" THEN Text("") ELSE last
        rewritten == Obj([body.fields EXCEPT ![Max(inputs)].value = MessageOf(text)])
        decoded == Obj(SelectSeq(rewritten.fields, LAMBDA f : f.value = Field(rewritten, f.key)))
    IN  IF "unreadable" \in events \/ body.kind # "obj" THEN Refused
        ELSE IF text.kind # "str" THEN Go(body, "media" \in events)
        ELSE IF Cardinality(inputs) = 1 THEN Go(rewritten, "media" \in events)
        ELSE IF ScanValid(decoded) THEN Go(decoded, MayContainMedia(decoded))
        ELSE Refused

Normalize(body, p) ==
    IF p = "openai-response" THEN NormalizeInput(body)
    ELSE IF ScanValid(body) THEN Go(body, MayContainMedia(body))
    ELSE Refused

-----------------------------------------------------------------------------
\* The inspection of the decoded tree.

HasURL(v) == Word(v, "url") # ""

Decodes(v, p) ==
    LET source == Field(v, "source") IN
    \/ HasURL(v)
    \/ /\ p = "claude" /\ source.kind = "obj"
       /\ \/ Word(source, "type") = "base64" /\ Word(source, "media_type") = "image/png"
          \/ Word(source, "type") = "url" /\ HasURL(source)

Unsupported(v) ==
    Word(v, "type") = "document"
    \/ Word(Field(v, "source"), "media_type") \in {"image/png", "application/pdf"}

\* walkVisualMedia: an object is an image, unsupported, or walked through.
RECURSIVE Walk(_, _)
Walk(v, p) ==
    CASE Word(v, "type") \in ImageTypes ->
           IF Word(v, "type") = ImageBlockType[p] /\ Decodes(v, p) THEN {"image"} ELSE {"issue"}
      [] Word(v, "type") \notin ImageTypes /\ Unsupported(v) -> {"issue"}
      [] OTHER -> UNION {Walk(c, p) : c \in Children(v)}

\* An image beside the conversation is an issue.
Inspect(body, p) ==
    LET beside == {Field(body, key) : key \in Keys(body) \ {ConversationField[p]}}
    IN  UNION {Walk(i, p) : i \in ToSet(Items(body, ConversationField[p]))}
        \cup IF UNION {Walk(v, p) : v \in beside} = {} THEN {} ELSE {"issue"}

\* replaceAsset for every image of the conversation.
RECURSIVE WithTexts(_, _)
WithTexts(v, p) ==
    CASE Word(v, "type") = ImageBlockType[p] -> Obj(<<At("type", Text("text")), At("text", Text("described"))>>)
      [] v.kind = "obj" /\ Word(v, "type") # ImageBlockType[p] ->
           Obj([k \in DOMAIN v.fields |-> [v.fields[k] EXCEPT !.value = WithTexts(@, p)]])
      [] v.kind = "arr" -> Arr([k \in DOMAIN v.items |-> WithTexts(v.items[k], p)])
      [] OTHER -> v

-----------------------------------------------------------------------------
\* What becomes of a body that comes with the host's word for its protocol.
Outcome(source, body) ==
    LET p == Resolve(source, body)
        normal == Normalize(body, p)
        found == Inspect(normal.body, p)
        described == WithTexts(normal.body, p)
    IN  IF p = "none" THEN Refused
        ELSE IF normal = Refused THEN Refused
        ELSE IF ~normal.hint \/ found = {} THEN [way |-> "passed", body |-> normal.body]
        ELSE IF "issue" \in found \/ Inspect(described, p) # {} THEN Refused
        ELSE [way |-> "described", body |-> described]
=============================================================================
