------------------------------ MODULE TextWire ------------------------------
(***************************************************************************)
(* The wire side of the text providers: a batch turned into a provider's   *)
(* request, and a provider's events and documents turned into TokenChunks. *)
(* Text is a sequence of marks, one per piece the provider sent; a lift    *)
(* returns the sequence of items one event contributes (none or one).      *)
(***************************************************************************)
EXTENDS Sequences, SequencesExt, FiniteSets, ProviderErrors

TextApis == {"openai", "litellm", "anthropic", "aistudio", "vertex"}

OpenAiApis == {"openai", "litellm"}
GeminiApis == {"aistudio", "vertex"}

(* TokenChunk, or the error item of a stream.                              *)
Chunk(text, tool, usage, finish) ==
    [err |-> None, text |-> text, tool |-> tool, usage |-> usage, finish |-> finish]

Failed(kind) == [err |-> kind, text |-> <<>>, tool |-> FALSE, usage |-> FALSE, finish |-> None]

----------------------------------------------------------------------------
(* Requests.                                                               *)

Roles == {"system", "user", "assistant", "tool"}
Messages == [role : Roles, parts : BOOLEAN, mark : Nat]

(* A conversation as a provider receives it: the system text apart, or     *)
(* among the messages.                                                     *)
ChatRequest(messages) ==
    [system |-> <<>>,
     turns |-> [i \in 1..Len(messages) |-> [role |-> messages[i].role, mark |-> messages[i].mark]]]

(* Turns with the roles a provider knows: a tool result is user input.     *)
TurnAs(m, assistant) ==
    [role |-> IF m.role = "assistant" THEN assistant ELSE "user", mark |-> m.mark]

(* The loop of from_batch, for the system text or for the turns, of which  *)
(* "to" is then the assistant's role.  A system message made of Parts goes *)
(* to neither.                                                             *)
GoesTo(to, m) == IF to = "system" THEN m.role = "system" /\ ~m.parts ELSE m.role # "system"
PushedAs(to, m) == IF to = "system" THEN m.mark ELSE TurnAs(m, to)

Gathered(messages, to) ==
    LET Push(pushed, m) ==
            IF GoesTo(to, m) THEN Append(pushed, PushedAs(to, m)) ELSE pushed
    IN  FoldLeft(Push, <<>>, messages)

MessagesRequest(messages) ==
    [system |-> Gathered(messages, "system"), turns |-> Gathered(messages, "assistant")]

GenerateContentRequest(messages) ==
    [system |-> Gathered(messages, "system"), turns |-> Gathered(messages, "model")]

FromBatch(api, messages) ==
    CASE api \in OpenAiApis -> ChatRequest(messages)
      [] api = "anthropic"  -> MessagesRequest(messages)
      [] api \in GeminiApis -> GenerateContentRequest(messages)

----------------------------------------------------------------------------
(* Reasons a provider gives for stopping.                                  *)

MapFinishReason(s) ==
    CASE s \in {"stop", "end_turn"} -> "Stop"
      [] s = "length" -> "Length"
      [] s \in {"tool_calls", "function_call"} -> "ToolCalls"
      [] s = "content_filter" -> "ContentFilter"
      [] OTHER -> "Stop"

MapStopReason(s) ==
    CASE s \in {"end_turn", "stop_sequence"} -> "Stop"
      [] s = "max_tokens" -> "Length"
      [] s = "tool_use" -> "ToolCalls"
      [] OTHER -> "Stop"

MapFinish(s) ==
    CASE s = "STOP" -> "Stop"
      [] s = "MAX_TOKENS" -> "Length"
      [] s = "SAFETY" -> "ContentFilter"
      [] OTHER -> "Stop"

ProviderReasons(api) ==
    CASE api \in OpenAiApis -> {"stop", "length", "tool_calls"}
      [] api = "anthropic"  -> {"end_turn", "max_tokens", "tool_use"}
      [] api \in GeminiApis -> {"STOP", "MAX_TOKENS", "SAFETY"}

----------------------------------------------------------------------------
(* Events.  A choice (OpenAI) or candidate (Gemini) holds a piece of text  *)
(* and possibly a reason.                                                  *)

ChoiceText(choices) ==
    FlattenSeq([i \in 1..Len(choices) |-> choices[i].text])

(* OpenAI: the reason of the last choice, present or not.                  *)
LastChoiceFinish(choices) ==
    IF choices = <<>> \/ Last(choices).finish = None
    THEN None
    ELSE MapFinishReason(Last(choices).finish)

(* Gemini: the last reason any candidate gives.                            *)
LastGivenFinish(choices) ==
    LET Given(c) == c.finish # None
        given == SelectSeq(choices, Given)
    IN  IF given = <<>> THEN None ELSE MapFinish(Last(given).finish)

LiftOpenAiChunk(e) ==
    CASE e.kind = "done" -> <<>>
      [] e.kind = "bad" -> <<Failed("Internal")>>
      [] OTHER -> <<Chunk(ChoiceText(e.choices), e.tool, e.usage, LastChoiceFinish(e.choices))>>

LiftAnthropicEvent(e) ==
    CASE e.kind \in {"ping", "empty", "start", "block"} -> <<>>
      [] e.kind \in {"bad", "error"} -> <<Failed("Internal")>>
      [] e.kind = "text" -> <<Chunk(e.choices[1].text, FALSE, FALSE, None)>>
      [] e.kind = "json" -> <<Chunk(<<>>, TRUE, FALSE, None)>>
      [] e.kind = "delta" ->
            <<Chunk(<<>>, FALSE, e.usage, IF e.choices[1].finish = None THEN None
                                          ELSE MapStopReason(e.choices[1].finish))>>
      [] e.kind = "done" -> <<Chunk(<<>>, FALSE, FALSE, "Stop")>>

LiftGeminiChunk(e) ==
    CASE e.kind = "empty" -> <<>>
      [] e.kind = "bad" -> <<Failed("Internal")>>
      [] OTHER -> <<Chunk(ChoiceText(e.choices), FALSE, e.usage, LastGivenFinish(e.choices))>>

Lift(api, e) ==
    CASE api \in OpenAiApis -> LiftOpenAiChunk(e)
      [] api = "anthropic"  -> LiftAnthropicEvent(e)
      [] api \in GeminiApis -> LiftGeminiChunk(e)

(* A whole answer in one document: one chunk that always has a reason.     *)
OrStop(finish) == IF finish = None THEN "Stop" ELSE finish

OpenAiDocument(e) ==
    Chunk(ChoiceText(e.choices), FALSE, e.usage, OrStop(LastChoiceFinish(e.choices)))

AnthropicDocument(e) ==
    Chunk(ChoiceText(e.choices), FALSE, e.usage,
          OrStop(IF e.choices[1].finish = None THEN None ELSE MapStopReason(e.choices[1].finish)))

GeminiDocument(e) ==
    Chunk(ChoiceText(e.choices), FALSE, e.usage, OrStop(LastGivenFinish(e.choices)))

LiftDocument(api, e) ==
    CASE api \in OpenAiApis -> <<OpenAiDocument(e)>>
      [] api = "anthropic"  -> <<AnthropicDocument(e)>>
      [] api \in GeminiApis -> <<GeminiDocument(e)>>

(***************************************************************************)
(* Tokens::append: what the request actor makes of the chunks.             *)
(***************************************************************************)
Append1(tokens, item) ==
    [text |-> tokens.text \o item.text,
     usages |-> tokens.usages + (IF item.usage THEN 1 ELSE 0),
     finish |-> IF item.finish = None THEN tokens.finish ELSE item.finish]

Tokens(items) ==
    FoldLeft(Append1, [text |-> <<>>, usages |-> 0, finish |-> None], items)
=============================================================================
