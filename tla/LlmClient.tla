----------------------------- MODULE LlmClient ------------------------------
(***************************************************************************)
(* The client of the language model: the operations of LLMClient, their    *)
(* cost cap (llm/client.py), and the adapter that posts them to OpenRouter *)
(* with retries and translates the messages (llm/openrouter.py).           *)
(*                                                                         *)
(* A client belongs to one request or job and makes one call at a time.  A *)
(* step ends where the code waits: at a post.                              *)
(*                                                                         *)
(* Abstractions.  Money is counted in units, and an answered call costs at *)
(* most MaxCost.  The texts are left out: of a content block there is its  *)
(* type, the tool call it belongs to, and whether it holds an image.  How  *)
(* long a retry waits is left out.                                         *)
(***************************************************************************)
EXTENDS Absent, Sequences, SequencesExt, Naturals

CONSTANTS
  CostCap,        \* the cap of this client
  MaxCost,
  MaxRetries,     \* settings.llm_max_retries
  MaxIterations,  \* of the tool loop
  CallLists       \* the lists of tool calls an answer may hold

ASSUME LlmAssumption ==
  /\ {CostCap, MaxCost, MaxRetries, MaxIterations} \subseteq Nat
  /\ CostCap > 0 /\ MaxIterations > 0
  /\ None \notin Nat
  /\ CallLists \subseteq Seq(STRING)

VARIABLES
  spent,    \* _spent_usd
  charged,  \* what the answered calls cost, by the provider's account
  op,       \* the operation under way: kind, place in the code, round, post
  turns     \* its messages, in Anthropic's shape

llmVars == <<spent, charged, op, turns>>

Operation == {"structured", "chat", "loop"}
Rounds(kind) == CASE kind = "structured" -> 2 [] kind = "chat" -> 1 [] kind = "loop" -> MaxIterations

BlockType == {"text", "image", "tool_use", "tool_result"}
Block(type, id, image) == [type |-> type, id |-> id, image |-> image]
IdleOp == [kind |-> None, at |-> "idle", round |-> 0, post |-> 0]

LlmTypeOK ==
  /\ spent \in Nat /\ charged \in Nat
  /\ op.kind \in Operation \cup {None} /\ op.at \in {"idle", "check", "post"}
  /\ op.round \in Nat /\ op.post \in 0..MaxRetries
  /\ op.kind # None => op.round < Rounds(op.kind)
  /\ \A i \in 1..Len(turns) : turns[i].role \in {"user", "assistant"}

LlmInit ==
  /\ spent = 0 /\ charged = 0
  /\ op = IdleOp
  /\ turns = <<>>

-----------------------------------------------------------------------------
(* openrouter.py: translation *)

OfTypes(content, types) ==
  LET blocks[i \in 0..Len(content)] ==
        IF i = 0 THEN <<>>
        ELSE IF content[i].type \in types THEN Append(blocks[i - 1], content[i]) ELSE blocks[i - 1]
  IN  blocks[Len(content)]

Calls(content) == OfTypes(content, {"tool_use"})
Results(content) == OfTypes(content, {"tool_result"})
HasImage(content) == \E i \in 1..Len(content) : content[i].image
Others(content) == OfTypes(content, BlockType \ {"tool_result"})

WireMessage(role, id, calls, image) == [role |-> role, id |-> id, calls |-> calls, image |-> image]
ToolMessages(content) ==
  [i \in 1..Len(Results(content)) |-> WireMessage("tool", Results(content)[i].id, <<>>, FALSE)]

\* Mutant of UserMessages: images next to the results they came with.
UserMessagesInPlace(content) ==
  FlattenSeq([i \in 1..Len(content) |->
     IF content[i].type = "tool_result"
     THEN <<WireMessage("tool", content[i].id, <<>>, FALSE)>>
            \o IF content[i].image THEN <<WireMessage("user", None, <<>>, TRUE)>> ELSE <<>>
     ELSE <<WireMessage("user", None, <<>>, content[i].image)>>])

\* A user turn: its tool results first, then one message for the rest and for the images
\* of the results.
UserMessages(content) ==
  ToolMessages(content)
    \o IF Others(content) # <<>> \/ HasImage(content)
       THEN <<WireMessage("user", None, <<>>, HasImage(content))>> ELSE <<>>

AssistantMessage(content) ==
  WireMessage("assistant", None, [i \in 1..Len(Calls(content)) |-> Calls(content)[i].id], FALSE)

Wire ==
  FlattenSeq([i \in 1..Len(turns) |->
                IF turns[i].role = "assistant" THEN <<AssistantMessage(turns[i].content)>>
                ELSE UserMessages(turns[i].content)])

\* The finish_reason of the answer, as _FINISH_REASON_TO_STOP_REASON has it: a provider may
\* say tool_calls and make none.
Reason == {"end_turn", "refusal", "tool_use", "other"}

\* _parse_response: tool calls count for more than the reason given.
StopReason(answer) == IF answer.calls # <<>> THEN "tool_use" ELSE answer.reason
Content(answer) ==
  (IF answer.text THEN <<Block("text", None, FALSE)>> ELSE <<>>)
    \o [i \in 1..Len(answer.calls) |-> Block("tool_use", answer.calls[i], FALSE)]

-----------------------------------------------------------------------------
(* client.py: an operation *)

Begin ==
  /\ op.at = "idle"
  /\ \E kind \in Operation, image \in BOOLEAN :
       /\ op' = [IdleOp EXCEPT !.kind = kind, !.at = "check"]
       /\ turns' = <<[role |-> "user",
                      content |-> <<Block(IF image THEN "image" ELSE "text", None, image)>>]>>
  /\ UNCHANGED <<spent, charged>>

End == op' = IdleOp /\ turns' = <<>>

\* _check_cost_cap, before every call.
CheckCostCap ==
  /\ op.at = "check"
  /\ IF spent >= CostCap THEN End
     ELSE op' = [op EXCEPT !.at = "post", !.post = 0] /\ UNCHANGED turns
  /\ UNCHANGED <<spent, charged>>

\* Mutant of Recorded: usage recorded after validation, as with messages.parse.
RecordedWhenValid(cost, valid) == IF valid THEN spent + cost ELSE spent

\* _record_usage; an error of the recorder is logged.
Recorded(cost, valid) == spent + cost

\* Mutant of NextRound: one more than the code allows.
NextRoundPast(messages) ==
  IF op.round = Rounds(op.kind) THEN End
  ELSE op' = [op EXCEPT !.at = "check", !.round = @ + 1] /\ turns' = turns \o messages

\* The next round of an operation that is not settled by an answer.
NextRound(messages) ==
  IF op.round + 1 = Rounds(op.kind) THEN End
  ELSE op' = [op EXCEPT !.at = "check", !.round = @ + 1] /\ turns' = turns \o messages

\* One repair of an answer that does not validate.
Repair == NextRound(<<[role |-> "user", content |-> <<Block("text", None, FALSE)>>]>>)

\* The tools run; what fails in them is a result too.  Without a call the round is spent on
\* an empty turn, of which nothing is posted.
RunTools(answer) ==
  \E images \in [1..Len(answer.calls) -> BOOLEAN] :
    NextRound(<<[role |-> "assistant", content |-> Content(answer)],
                [role |-> "user",
                 content |-> [i \in 1..Len(answer.calls) |->
                                Block("tool_result", answer.calls[i], images[i])]]>>)

Answered ==
  /\ op.at = "post"
  /\ \E cost \in 0..MaxCost, valid, text \in BOOLEAN, calls \in CallLists,
        reason \in Reason :
       LET answer == [text |-> text, reason |-> reason,
                      calls |-> IF op.kind = "loop" THEN calls ELSE <<>>]
       IN  /\ charged' = charged + cost
           /\ spent' = Recorded(cost, valid)
           /\ CASE op.kind = "loop" /\ StopReason(answer) = "tool_use" -> RunTools(answer)
                [] op.kind = "structured" /\ reason # "refusal" /\ text /\ ~valid -> Repair
                [] OTHER -> End

-----------------------------------------------------------------------------
(* openrouter.py: _post *)

\* Mutant of TryAgain: an operation that makes its call anew once the retries are used up.
TryAgainAnew ==
  IF op.post = MaxRetries THEN op' = [op EXCEPT !.at = "check"] /\ UNCHANGED turns
  ELSE op' = [op EXCEPT !.post = @ + 1] /\ UNCHANGED turns

TryAgain ==
  IF op.post = MaxRetries THEN End ELSE op' = [op EXCEPT !.post = @ + 1] /\ UNCHANGED turns

\* A transport error, after which nobody knows if the call was made, a rate limit, or an
\* error of the server.
NoAnswer == op.at = "post" /\ TryAgain /\ UNCHANGED <<spent, charged>>

Rejected == op.at = "post" /\ End /\ UNCHANGED <<spent, charged>>

LlmStep == CheckCostCap \/ Answered \/ NoAnswer \/ Rejected
LlmNext == Begin \/ LlmStep

\* Every post has a timeout.
LlmFairness == WF_llmVars(LlmStep)
LlmSpec == LlmInit /\ [][LlmNext]_llmVars /\ LlmFairness

-----------------------------------------------------------------------------
(* Properties *)

\* Whatever the operations and however their answers fail, a client spends less than its
\* cap and one call: an answer that does not validate is paid for and counted.
CapHolds == charged < CostCap + MaxCost

\* What is posted is a conversation OpenAI's format allows: right after an assistant's
\* message come the results of its tool calls, in order, and results come nowhere else.
ToolCallsAnswered ==
  LET wire == Wire
  IN  \A i \in 1..Len(wire) :
        /\ wire[i].role = "assistant" =>
             /\ Len(wire) >= i + Len(wire[i].calls)
             /\ \A n \in 1..Len(wire[i].calls) :
                  wire[i + n].role = "tool" /\ wire[i + n].id = wire[i].calls[n]
        /\ wire[i].role = "tool" =>
             \E j \in 1..(i - 1) : wire[j].role = "assistant" /\ i - j <= Len(wire[j].calls)

\* Every operation ends: posts, repairs and rounds are bounded.
OperationsEnd == op.at # "idle" ~> op.at = "idle"

=============================================================================
