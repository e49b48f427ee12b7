---------------------------- MODULE LocalModels ----------------------------
(***************************************************************************)
(* What the in-process runners compute before and between the calls of     *)
(* their engines, as far as it decides how a batch goes: the ONNX graph's  *)
(* layout, refusals, the streaming decoder and the finish reasons.  Text   *)
(* is a sequence of characters that are only told apart.                   *)
(***************************************************************************)
EXTENDS Integers, Sequences, SequencesExt, FiniteSetsExt

None == "none"

(* render_chat of the ONNX runner refuses an empty conversation.           *)
OrtRenderRejects(messages) == messages = <<>>

(* map_finish_reason of mistral.rs.                                        *)
MistralFinishReason(s) ==
    CASE s = "length" -> "Length"
      [] s = "tool_calls" -> "ToolCalls"
      [] s = "content_filter" -> "ContentFilter"
      [] OTHER -> "Stop"

----------------------------------------------------------------------------
(* pick_first: the first name of the list that the graph has.              *)
PickFirst(have, names) ==
    LET hits == SelectSeq(names, LAMBDA n : n \in have)
    IN  IF hits = <<>> THEN None ELSE Head(hits)

(* pair_kv_layers: the layers all four of whose tensors exist.  A cache    *)
(* tensor is <<"past" or "present", layer, "key" or "value">>.             *)
PairKvLayers(pasts, presents) ==
    {l \in {t[2] : t \in pasts} :
        \A part \in {"key", "value"} :
            <<"past", l, part>> \in pasts /\ <<"present", l, part>> \in presents}

(* Topology::probe.                                                        *)
TopologyKind(inputs, outputs, pasts, presents) ==
    LET ids    == PickFirst(inputs, <<"input_ids", "inputs", "tokens">>)
        logits == PickFirst(outputs, <<"logits", "output", "last_hidden_state">>)
    IN  CASE PairKvLayers(pasts, presents) # {} -> "TextGenWithKv"
          [] PairKvLayers(pasts, presents) = {} /\ ids # None /\ logits = "logits" ->
                 "TextGenStateless"
          [] PairKvLayers(pasts, presents) = {} /\ ids # None
                 /\ logits \notin {None, "logits"} -> "EncoderOnly"
          [] OTHER -> "Unknown"

(* infer_kv_dims: rank four, with concrete head count and head size.       *)
KvDimsReject(shape) == Len(shape) # 4 \/ shape[2] <= 0 \/ shape[4] <= 0

(* What run_generation checks first: the graph, the tokenizer, the chat.   *)
GenerationRejects(m) ==
    \/ m.topology # "TextGenWithKv"
    \/ m.tokenizer # "loaded"
    \/ OrtRenderRejects(m.messages)

(* tokenizer.encode fails, or gives no ids.                                *)
EncodeErrors == {"Internal", "BadRequest"}

(* map_ort_err.                                                            *)
MapOrtErr(says) ==
    IF says \in {"invalid", "shape", "missing", "expected"} THEN "BadRequest"
    ELSE "Internal"

(* Why an engine does not come up: an execution provider the build does    *)
(* not have, an argument TensorRT refuses, or anything else.               *)
LaunchErrors(kind) ==
    IF kind \in {"ort", "tensorrt"} THEN {"BadRequest", "Internal"} ELSE {"Internal"}

----------------------------------------------------------------------------
(* The streaming decoder.  The tokens of the model are a whole character   *)
(* "w", half of a two-byte character "h", the stop word "s" and the end of *)
(* sequence "e"; a half that is not completed decodes to "?" (U+FFFD).     *)

Decode(ids) ==
    LET Add(acc, t) ==
            CASE t = "e" -> acc
              [] t = "h" /\ acc.half -> [text |-> Append(Front(acc.text), "c"), half |-> FALSE]
              [] t = "h" /\ ~acc.half -> [text |-> Append(acc.text, "?"), half |-> TRUE]
              [] OTHER -> [text |-> Append(acc.text, t), half |-> FALSE]
    IN  FoldLeft(Add, [text |-> <<>>, half |-> FALSE], ids).text

Suffix(full, prev) == SubSeq(full, Len(prev) + 1, Len(full))

(* Fault: a text that ends in a broken character is emitted at once.       *)
DecodeDeltaEager(prev, full) ==
    IF IsPrefix(prev, full) THEN [delta |-> Suffix(full, prev), advance |-> TRUE]
    ELSE [delta |-> full, advance |-> TRUE]

(* decode_delta.                                                           *)
DecodeDelta(prev, full) ==
    IF ~IsPrefix(prev, full) THEN [delta |-> full, advance |-> TRUE]
    ELSE IF Suffix(full, prev) # <<>> /\ Last(Suffix(full, prev)) = "?"
         THEN [delta |-> <<>>, advance |-> FALSE]
         ELSE [delta |-> Suffix(full, prev), advance |-> TRUE]

(* The tail the final chunk carries.                                       *)
FinalTail(prev, full) == IF IsPrefix(prev, full) THEN Suffix(full, prev) ELSE <<>>

(* The stop conditions of run_loop, asked after each token.                *)
StopReason(ids, maxNew) ==
    CASE Last(ids) = "e" -> "Stop"
      [] Last(ids) # "e" /\ Len(ids) >= maxNew -> "Length"
      [] Last(ids) # "e" /\ Len(ids) < maxNew /\ Contains(Decode(ids), "s") -> "Stop"
      [] OTHER -> None

(* drive_generation's delta: what the cumulative text has beyond what was  *)
(* already sent.                                                           *)
VllmDelta(full, sent) ==
    IF Len(full) > sent THEN SubSeq(full, sent + 1, Len(full)) ELSE <<>>

(* Which rebuild causes make a runner forget its engine.                   *)
RebuildClears(kind, cause) ==
    CASE kind \in {"vllm", "ort", "mistralrs"} -> cause \in {"CudaContextPoisoned", "Manual"}
      [] kind = "tensorrt" -> TRUE
      [] OTHER -> FALSE
=============================================================================
