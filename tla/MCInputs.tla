------------------------------- MODULE MCInputs -------------------------------
(***************************************************************************)
(* Inputs for TLC: bodies with up to two messages, each with a block of    *)
(* any protocol, nested or not, with repeated keys, odd escapes and long   *)
(* types, images beside the conversation, string inputs.  And Settings:    *)
(* what is done with a body depends on no setting, so that the settings    *)
(* change under one of the bodies only.                                    *)
(***************************************************************************)
EXTENDS Inputs, MCSettings

Type(word) == At("type", Text(word))
URL == At("url", Text("x"))
Source(type, mime) == At("source", Obj(<<At("type", Text(type)), At("media_type", mime)>>))
Png == Text("image/png")

MCBlocks ==
    {Obj(<<Type(w)>>) : w \in {"text", "tool_result", "document", "tool_calls", "input_text"}}
    \cup {Obj(<<Type(w), URL>>) : w \in ImageTypes}
    \cup {Obj(<<Type("image"), Source("base64", m)>>) : m \in {Png, Text("application/pdf"), Str("image/png", "odd")}}
    \cup {Obj(<<Source("base64", m), Type(w)>>) :
            m \in {Png, Str("image/png", "odd")}, w \in {"image", "text"}}
    \cup {Obj(<<Source("url", Text("text"))>>), Obj(<<Source("base64", Text("application/pdf"))>>),
          Obj(<<Type("image")>>), Obj(<<Type("image_url"), Type("text"), URL>>),
          Obj(<<Type("text"), URL, Type("image_url")>>), Obj(<<At("type", Str("image_url", "long")), URL>>),
          Obj(<<At("type", Obj(<<Type("image_url"), URL>>)), At("text", Text("image"))>>),
          Obj(<<[key |-> "text", form |-> "odd", value |-> Text("text")], Type("input_image"), URL>>),
          Obj(<<Type("input_image"), URL, [key |-> "text", form |-> "odd", value |-> Text("text")]>>)}

Plain == Obj(<<At("role", Text("user")), At("content", Text("text"))>>)
Around(b) == {b, Obj(<<At("content", Arr(<<b>>))>>),
              Obj(<<At("content", Arr(<<Obj(<<Type("tool_result"), At("content", Arr(<<b>>))>>)>>))>>)}
MCItems == UNION {Around(b) : b \in MCBlocks}

Tool(key) == At("tools", Arr(<<Obj(<<At(key, Obj(<<>>))>>)>>))
Roots(i) ==
    {Obj(<<At(base, Arr(<<i>>))>>) : base \in {"messages", "input"}}
    \cup {Obj(<<At(base, i)>>) : base \in {"messages", "input"}}
    \cup {Obj(<<At("messages", Arr(<<Plain>>)), At("metadata", i)>>),
          Obj(<<At("messages", Arr(<<i>>)), At("system", Text("text"))>>),
          Obj(<<At("messages", Arr(<<i>>)), Tool("function")>>),
          Obj(<<Tool("input_schema"), At("messages", Arr(<<i>>))>>),
          Obj(<<At("messages", Arr(<<i>>)), At("input", Text("text"))>>),
          Obj(<<At("input", Text("text")), At("metadata", i)>>),
          Obj(<<At("input", Text("text")), At("input", Arr(<<i>>))>>),
          Obj(<<At("input", Arr(<<i>>)), At("input", Text("text"))>>),
          Obj(<<At("input", Arr(<<i>>)), At("input", Null)>>)}
MCRoots ==
    UNION {Roots(i) : i \in MCItems}
    \cup {Obj(<<At("messages", Arr(<<i, Obj(<<At("content", Arr(<<b>>))>>)>>))>>) : i \in MCItems, b \in MCBlocks}
    \cup {Obj(<<At("input", Text("text"))>>), Obj(<<>>), Obj(<<At("messages", Arr(<<Plain>>))>>)}

MCBodies == [source : Protocols \cup {"", "gemini"}, body : MCRoots]

MCInit == Init /\ SettingsInit
MCNext ==
    \/ Next /\ UNCHANGED settings
    \/ input = [source |-> "", body |-> Obj(<<>>)] /\ SettingsNext /\ UNCHANGED input
MCSpec == MCInit /\ [][MCNext]_<<input, settings>>
=============================================================================
