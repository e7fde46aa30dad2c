------------------------------ MODULE BodyWalk -------------------------------
(***************************************************************************)
(* The walk at the beginning of proxyRequest (Pipeline): which of a body's *)
(* strings are its text fields. There are two dialects, Anthropic Messages *)
(* and OpenAI chat completions; what is walked of each is fixed by where a *)
(* string is and by the type of the block it is in.                        *)
(*                                                                         *)
(* A JSON value is <<kind, of>>. Of an object or an array, of maps its     *)
(* keys or its indices, both strings here, to values; of a string it is    *)
(* the string. A path is the sequence of the keys and indices that lead to *)
(* a value; a text field is the path its setter writes to.                 *)
(*                                                                         *)
(* The fields of Pipeline stand for those found in any body, so a body is  *)
(* looked at when it is walked and forgotten with the next step.           *)
(***************************************************************************)
EXTENDS Validators

CONSTANTS
    Documents,     \* dialect -> decoded bodies a caller may send
    MaxWalkDepth,
    NoWalk

Dialects == {"anthropic", "openai"}

ASSUME WalkAssumptions ==
    /\ DOMAIN Documents = Dialects
    /\ MaxWalkDepth \in Nat

VARIABLE walk   \* the body being walked, its dialect and the fields found

Absent == <<"absent", "">>
Kind(v) == v[1]
Steps(v) == IF Kind(v) \in {"object", "array"} THEN DOMAIN v[2] ELSE {}
At(v, key) == IF key \in Steps(v) THEN v[2][key] ELSE Absent
IsText(v, s) == Kind(v) = "string" /\ v[2] = s
Elements(v) == IF Kind(v) = "array" THEN Steps(v) ELSE {}

StringField(v, key, path) ==
    IF Kind(v) = "object" /\ Kind(At(v, key)) = "string" THEN {Append(path, key)} ELSE {}

\* walkJSONStrings: every string leaf, unless it is too deep.
RECURSIVE WalkJSONStrings(_, _, _)
WalkJSONStrings(v, path, depth) ==
    IF depth > MaxWalkDepth THEN {}
    ELSE UNION {IF Kind(At(v, key)) = "string" THEN {Append(path, key)}
                ELSE WalkJSONStrings(At(v, key), Append(path, key), depth + 1) :
                    key \in Steps(v)}

\* What a block has by its own type; blocks in it are not looked at here.
BlockStrings(b, path) ==
    LET source == At(b, "source")
        is(type) == IsText(At(b, "type"), type)
    IN  CASE is("text") -> StringField(b, "text", path)
          [] is("tool_result") -> StringField(b, "content", path)
          [] is("tool_use") ->
                IF Kind(At(b, "input")) = "object"
                THEN WalkJSONStrings(At(b, "input"), Append(path, "input"), 0) ELSE {}
          [] is("document") ->
                StringField(b, "title", path) \cup StringField(b, "context", path)
                \cup (IF IsText(At(source, "type"), "text")
                      THEN StringField(source, "data", Append(path, "source")) ELSE {})
          [] OTHER -> {}

\* Fault: the content of a tool's result is a string.
WalkContentBlocksFlat(blocks, path) ==
    UNION {BlockStrings(At(blocks, j), Append(path, j)) : j \in Elements(blocks)}

\* walkContentBlocks: a tool's result may hold blocks of its own.
RECURSIVE WalkContentBlocks(_, _)
WalkContentBlocks(blocks, path) ==
    UNION {LET b == At(blocks, j) IN
           BlockStrings(b, Append(path, j)) \cup
           (IF IsText(At(b, "type"), "tool_result")
            THEN WalkContentBlocks(At(b, "content"), path \o <<j, "content">>) ELSE {}) :
               j \in Elements(blocks)}

WalkContent(v, key, path) ==
    StringField(v, key, path) \cup WalkContentBlocks(At(v, key), Append(path, key))

WalkAnthropicBody(body) ==
    LET msgs == At(body, "messages")
        tools == At(body, "tools")
    IN  WalkContent(body, "system", <<>>)
        \cup UNION {WalkContent(At(msgs, i), "content", <<"messages", i>>) : i \in Elements(msgs)}
        \cup UNION {StringField(At(tools, i), "description", <<"tools", i>>) : i \in Elements(tools)}

WalkOpenAIParts(parts, path) ==
    UNION {StringField(At(parts, j), "text", Append(path, j)) :
            j \in {i \in Elements(parts) : IsText(At(At(parts, i), "type"), "text")}}

WalkOpenAIMessage(m, path) ==
    LET calls == At(m, "tool_calls") IN
    StringField(m, "content", path)
    \cup WalkOpenAIParts(At(m, "content"), Append(path, "content"))
    \cup StringField(m, "name", path)
    \cup UNION {StringField(At(At(calls, j), "function"), "arguments",
                            path \o <<"tool_calls", j, "function">>) : j \in Elements(calls)}
    \cup StringField(At(m, "function_call"), "arguments", Append(path, "function_call"))

WalkOpenAIBody(body) ==
    LET msgs == At(body, "messages")
        tools == At(body, "tools")
    IN  UNION {WalkOpenAIMessage(At(msgs, i), <<"messages", i>>) : i \in Elements(msgs)}
        \cup UNION {StringField(At(At(tools, i), "function"), "description",
                                <<"tools", i, "function">>) : i \in Elements(tools)}

Walk(dialect, body) ==
    IF dialect = "anthropic" THEN WalkAnthropicBody(body) ELSE WalkOpenAIBody(body)
-----------------------------------------------------------------------------
\* The body was read and decoded: its fields are located before the first scan.
ReadAndWalk ==
    /\ ReadBody
    /\ \E dialect \in Dialects : \E body \in Documents[dialect] :
        walk' = [dialect |-> dialect, body |-> body, fields |-> Walk(dialect, body)]
-----------------------------------------------------------------------------
(***************************************************************************)
(* What is text, by the path alone and the types of the blocks on it.      *)
(***************************************************************************)
RECURSIVE Leaves(_, _)
Leaves(v, path) ==
    IF Kind(v) = "string" THEN {path}
    ELSE UNION {Leaves(At(v, key), Append(path, key)) : key \in Steps(v)}

ValueAt(body, path) == FoldLeft(LAMBDA v, key : At(v, key), body, path)
Prefix(path, n) == SubSeq(path, 1, n)
Rest(path, n) == SubSeq(path, n + 1, Len(path))
TypeAt(body, path) == At(ValueAt(body, path), "type")[2]

\* Where the array of a content begins, in the path of something in it.
ContentAt(path) == IF path[1] = "system" THEN 1 ELSE 3

\* The n steps lead to a block: by way of contents, and results with contents.
ToBlock(body, path, n) ==
    LET c == ContentAt(path) IN
    /\ n \in c + 1 .. Len(path) - 1 /\ (n - c) % 2 = 1
    /\ path[c] \in {"system", "content"}
    /\ \A k \in c .. n - 1 : Kind(ValueAt(body, Prefix(path, k))) =
            IF (k - c) % 2 = 0 THEN "array" ELSE "object"
    /\ \A k \in c + 1 .. n - 2 : (k - c) % 2 = 1 =>
            path[k + 1] = "content" /\ TypeAt(body, Prefix(path, k)) = "tool_result"

BlockTexts == {<<"text", <<"text">>>>, <<"tool_result", <<"content">>>>,
               <<"document", <<"title">>>>, <<"document", <<"context">>>>}

AnthropicText(body, path) ==
    \/ path = <<"system">>
    \/ Len(path) = 3 /\ path[1] = "messages" /\ path[3] = "content"
    \/ Len(path) = 3 /\ path[1] = "tools" /\ path[3] = "description"
    \/ /\ path[1] \in {"system", "messages"}
       /\ \E n \in 2 .. Len(path) - 1 :
        /\ ToBlock(body, path, n)
        /\ LET type == TypeAt(body, Prefix(path, n))
               rest == Rest(path, n)
           IN  \/ <<type, rest>> \in BlockTexts
               \/ /\ type = "document" /\ rest = <<"source", "data">>
                  /\ TypeAt(body, Append(Prefix(path, n), "source")) = "text"
               \/ /\ type = "tool_use" /\ rest[1] = "input" /\ Len(rest) <= MaxWalkDepth + 2
                  /\ Kind(ValueAt(body, Prefix(path, n + 1))) = "object"

OpenAIText(body, path) ==
    \/ Len(path) = 3 /\ path[1] = "messages" /\ path[3] \in {"content", "name"}
    \/ /\ Len(path) = 5 /\ path[1] = "messages" /\ path[3] = "content" /\ path[5] = "text"
       /\ TypeAt(body, Prefix(path, 4)) = "text"
    \/ path[1] = "messages" /\ Rest(path, 2) = <<"function_call", "arguments">>
    \/ /\ Len(path) = 6 /\ path[1] = "messages" /\ path[3] = "tool_calls"
       /\ Rest(path, 4) = <<"function", "arguments">>
    \/ path[1] = "tools" /\ Rest(path, 2) = <<"function", "description">>

(***************************************************************************)
(* What is scanned, and what may be rewritten, are exactly the strings the *)
(* adapters' comments call text-bearing, however blocks and results nest,  *)
(* and of a tool's input that is an object every string within the depth   *)
(* bound. An input that is an array or a string is walked nowhere          *)
(* (adapter_anthropic.go:102), which EveryInputLeafIsWalked is about. What *)
(* is signed or encoded, ids, types and roles are left as the caller sent  *)
(* them.                                                                   *)
(***************************************************************************)
EveryTextIsWalked ==
    walk # NoWalk =>
        walk.fields = {path \in Leaves(walk.body, <<>>) :
            IF walk.dialect = "anthropic" THEN AnthropicText(walk.body, path)
            ELSE OpenAIText(walk.body, path)}

(***************************************************************************)
(* The comments of the Anthropic adapter: the walk covers "tool_use        *)
(* (arbitrary JSON input)", and "input is caller-shaped JSON: walk every   *)
(* string leaf" (adapter_anthropic.go:23, 101), within the depth bound.    *)
(* The code walks an input that is an object, and nothing of any other.    *)
(***************************************************************************)
InputLeaf(body, path) ==
    \E n \in 2 .. Len(path) - 1 :
        /\ ToBlock(body, path, n) /\ TypeAt(body, Prefix(path, n)) = "tool_use"
        /\ path[n + 1] = "input" /\ Len(path) - n <= MaxWalkDepth + 2

EveryInputLeafIsWalked ==
    walk # NoWalk /\ walk.dialect = "anthropic" =>
        \A path \in Leaves(walk.body, <<>>) :
            path[1] \in {"system", "messages"} /\ InputLeaf(walk.body, path) =>
                path \in walk.fields
=============================================================================
