----------------------------- MODULE MCPipeline -----------------------------
(***************************************************************************)
(* Values for ProxyRequest. A text of four bytes: in the first field       *)
(* claims overlap in every way two and three spans can: nested, chained,   *)
(* equal but for the type, touching. The allow list rejects A over the     *)
(* first two bytes and a guard rejects a stretch that only a merge can     *)
(* claim. Streams of up to two lines, with and without the last newline:   *)
(* whole events, one cut short, an empty line, and a line over the cap     *)
(* that ends like an event.                                                *)
(***************************************************************************)
EXTENDS ProxyRequest

Claim(s, e, t, c) == [start |-> s, end |-> e, type |-> t, conf |-> c]

MCDetectors == <<"regex", "presidio">>
Byte(b) == <<"byte", b>>
MCText == <<Byte(1), Byte(2), Byte(3), Byte(4)>>
MCClaims ==
    <<[regex |-> {Claim(0, 2, "A", 2), Claim(0, 2, "B", 1), Claim(1, 3, "B", 2),
                  Claim(2, 4, "A", 3), Claim(0, 4, "B", 1)},
       presidio |-> {Claim(0, 1, "B", 1), Claim(0, 2, "A", 1), Claim(1, 3, "A", 3),
                     Claim(3, 4, "B", 2)}],
      [regex |-> {Claim(1, 2, "A", 2)},
       presidio |-> {Claim(1, 3, "B", 2)}]>>
MCVetoed == {<<"A", 0, 2>>, <<"B", 0, 3>>}

MCUsageOf == [start |-> [in |-> 3, out |-> 1], delta |-> [in |-> 0, out |-> 2]]
MCLines == {<<"head", "start", "tail">>, <<"head", "delta", "tail">>, <<"head", "start">>,
            <<>>, <<"x", "x", "head", "delta", "tail">>}
MCStreams ==
    LET one == {Append(l, "newline") : l \in MCLines}
        two == one \cup {a \o b : <<a, b>> \in one \X one}
    IN  two \cup {Front(s) : s \in two}

\* Values of a body. Its indices are "0" and "1".
Str(s) == <<"string", s>>
Obj(of) == <<"object", of>>
Arr(a) == <<"array", "0" :> a>>
Arr2(a, b) == <<"array", ("0" :> a) @@ ("1" :> b)>>
Number == <<"number", "">>
pii == Str("pii")
Typed(type, key, v) == Obj("type" :> Str(type) @@ key :> v)
TextBlock == Typed("text", "text", pii)
Source(type) == Obj([type |-> Str(type), data |-> pii])
Input == Obj([a |-> pii, b |-> Arr2(pii, Obj([c |-> pii, d |-> Arr(pii)])), e |-> Number])

LeafBlocks ==
    {TextBlock, Typed("text", "text", Number), Typed("thinking", "text", pii),
     Typed("image", "source", Source("base64")), Typed("tool_use", "input", Input),
     Typed("tool_use", "input", pii), Typed("tool_use", "input", Arr2(pii, Obj([a |-> pii]))),
     Typed("document", "title", pii),
     Typed("document", "source", Source("text")), Typed("document", "source", Source("base64")),
     Obj([type |-> Str("document"), context |-> pii, text |-> pii]), pii}
Results(contents) == {Typed("tool_result", "content", c) : c \in contents}
Nested == Results({pii, Number} \cup {Arr(b) : b \in LeafBlocks})
Blocks == LeafBlocks \cup Nested \cup Results({Arr2(TextBlock, b) : b \in Nested})

Contents == {pii, Number} \cup {Arr(b) : b \in Blocks} \cup {Arr2(TextBlock, b) : b \in Blocks}
Message(c) == Obj([role |-> Str("user"), content |-> c])
Body(msgs) == Obj([model |-> Str("m"), messages |-> msgs])
AnthropicBodies ==
    {Body(Arr(Message(c))) : c \in Contents}
    \cup {Obj([system |-> s, messages |-> Arr2(pii, Message(Arr(TextBlock))),
              tools |-> Arr2(Obj([name |-> pii, description |-> d]), pii)]) :
            s \in Contents, d \in {pii, Number}}

Call(v) == Obj([id |-> pii, function |-> v])
Function(key) == Obj("name" :> pii @@ key :> pii)
OpenAIContents ==
    {pii, Number, Arr(pii), Arr2(TextBlock, Typed("image_url", "image_url", pii)),
     Arr2(Typed("input_audio", "text", pii), Typed("text", "text", Number))}
OpenAIBodies ==
    {Body(Arr2(Obj([role |-> Str("user"), content |-> c, name |-> n, tool_calls |-> calls]),
               Obj([reasoning |-> pii, function_call |-> f]))) :
        c \in OpenAIContents, n \in {pii, Number}, f \in {Function("arguments"), pii},
        calls \in {Number, Arr2(Call(Function("arguments")), pii), Arr(Call(pii))}}
    \cup {Obj([messages |-> m, tools |-> Arr2(Call(Function(key)), v)]) :
            m \in {pii, Arr(pii)}, key \in {"description", "parameters"}, v \in {pii, Call(Number)}}
MCDocuments == [anthropic |-> AnthropicBodies, openai |-> OpenAIBodies]

\* Card numbers and accounts whose digits are all alike, mixed, or carry.
Digits(n, d) == [i \in 1 .. n |-> d]
Counting(n, d) == [i \in 1 .. n |-> (d * i) % 10]
Starting(start) == {start \o Digits(15 - Len(start), d) : d \in {0, 9}}
                   \cup {start \o Counting(15 - Len(start), d) : d \in {1, 7}}
MCCardStarts == Starting(<<4>>) \cup Starting(<<5, 1>>)
MCBbans == {Digits(18, 0), Digits(18, 9), Counting(18, 1), Counting(18, 7)}
MCParts == UNION {[1 .. n -> {0, 1, 2, 5, 6, 9}] : n \in 1 .. 3}

MCBodies == {[in |-> 3, out |-> 2, fits |-> TRUE], [in |-> 3, out |-> 2, fits |-> FALSE]}
=============================================================================
