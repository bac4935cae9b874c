--------------------------- MODULE ServicesProofs ---------------------------
(***************************************************************************)
(* Theorems about the services the application calls and bounds: the client*)
(* of the language model (LlmClient), the tiers of a url (UrlTiers), the   *)
(* rate limiter (RateLimiter), the assistant (Assistant, Conversations)    *)
(* and what it all shows a reader (Quantities).                            *)
(***************************************************************************)
EXTENDS LlmClient, UrlTiers, RateLimiter, Assistant, Quantities, Induction, FiniteSetTheorems,
        SequenceTheorems

-----------------------------------------------------------------------------
(* LlmClient, for any cap, price and bounds.                               *)

\* An operation's record.
OpType == [kind : Operation \cup {None}, at : {"idle", "check", "post"}, round : Nat,
           post : 0..MaxRetries]

\* The client has counted all it was charged, and posts only below the cap.
Counted ==
  /\ spent = charged /\ charged \in Nat
  /\ op \in OpType
  /\ op.at = "post" => charged < CostCap

\* Rounds and posts are within their bounds, so that every operation has a last call.
Bounded == op.at # "idle" => op.kind \in Operation /\ op.round < Rounds(op.kind)

\* The inductive invariant.
ClientInv == Counted /\ Bounded /\ CapHolds

\* A client starts with nothing spent.
LEMMA ClientStart == LlmInit => ClientInv
<1> SUFFICES ASSUME LlmInit PROVE ClientInv
  OBVIOUS
<1>1. IdleOp \in OpType /\ IdleOp.at = "idle"
  BY LlmAssumption DEF IdleOp, OpType
<1> QED
  BY <1>1, LlmAssumption DEF LlmInit, ClientInv, Counted, Bounded, CapHolds

\* An operation may always end: the client keeps its count.
LEMMA EndKeeps ==
  ASSUME ClientInv, End, spent' = charged', charged' \in Nat, CapHolds'
  PROVE  ClientInv'
<1>1. IdleOp \in OpType /\ IdleOp.at = "idle"
  BY LlmAssumption DEF IdleOp, OpType
<1> QED
  BY <1>1 DEF End, ClientInv, Counted, Bounded

\* The next round comes under a check of the cap, within the bound on rounds.
LEMMA NextRoundKeeps ==
  ASSUME ClientInv, NEW messages, op.at = "post", NextRound(messages),
         spent' = charged', charged' \in Nat, CapHolds'
  PROVE  ClientInv'
<1>1. CASE End
  BY <1>1, EndKeeps
<1>2. CASE op.round + 1 # Rounds(op.kind) /\ op' = [op EXCEPT !.at = "check", !.round = @ + 1]
  <2>0. op \in OpType
    BY DEF ClientInv, Counted
  <2>1. op' = [kind |-> op.kind, at |-> "check", round |-> op.round + 1, post |-> op.post]
    BY <1>2, <2>0 DEF OpType
  <2>2. op.kind \in Operation /\ op.round < Rounds(op.kind) /\ op.round \in Nat
    BY DEF ClientInv, Counted, Bounded, OpType
  <2>3. Rounds(op.kind) \in Nat
    BY <2>2, LlmAssumption DEF Rounds, Operation
  <2>4. op' \in OpType
    BY <2>0, <2>1 DEF OpType
  <2> QED
    BY <1>2, <2>1, <2>2, <2>3, <2>4 DEF ClientInv, Counted, Bounded
<1> QED
  BY <1>1, <1>2 DEF NextRound

\* An operation starts with a check.
LEMMA StartsKeep == ASSUME ClientInv, Begin PROVE ClientInv'
<1>1. PICK kind \in Operation : op' = [IdleOp EXCEPT !.kind = kind, !.at = "check"]
  BY DEF Begin
<1>2. op' = [kind |-> kind, at |-> "check", round |-> 0, post |-> 0]
  BY <1>1 DEF IdleOp
<1>5. op' \in OpType
  BY <1>2, LlmAssumption DEF OpType
<1>3. 0 < Rounds(kind)
  BY LlmAssumption DEF Rounds, Operation
<1>4. UNCHANGED <<spent, charged>>
  BY DEF Begin
<1> QED
  BY <1>2, <1>3, <1>4, <1>5 DEF ClientInv, Counted, Bounded, CapHolds

\* A call is made only if the count is below the cap.
LEMMA CheckKeeps == ASSUME ClientInv, CheckCostCap PROVE ClientInv'
<1>1. UNCHANGED <<spent, charged>> /\ op.at = "check"
  BY DEF CheckCostCap
<1>2. CASE spent >= CostCap
  BY <1>1, <1>2, EndKeeps DEF CheckCostCap, ClientInv, Counted, CapHolds
<1>3. CASE ~(spent >= CostCap)
  <2>0. op \in OpType
    BY DEF ClientInv, Counted
  <2>1. op' = [kind |-> op.kind, at |-> "post", round |-> op.round, post |-> 0]
    BY <1>3, <2>0 DEF CheckCostCap, OpType
  <2>2. op' \in OpType
    BY <2>0, <2>1, LlmAssumption DEF OpType
  <2> QED
    BY <1>1, <1>3, <2>1, <2>2, LlmAssumption DEF ClientInv, Counted, Bounded, CapHolds
<1> QED
  BY <1>2, <1>3

\* An answer is counted before anything else is done with it.
LEMMA AnsweredKeeps == ASSUME ClientInv, Answered PROVE ClientInv'
<1>1. PICK cost \in 0..MaxCost, valid, text \in BOOLEAN, calls \in CallLists,
           reason \in Reason :
        LET answer == [text |-> text, reason |-> reason,
                       calls |-> IF op.kind = "loop" THEN calls ELSE <<>>]
        IN  /\ charged' = charged + cost
            /\ spent' = Recorded(cost, valid)
            /\ CASE op.kind = "loop" /\ StopReason(answer) = "tool_use" -> RunTools(answer)
                 [] op.kind = "structured" /\ reason # "refusal" /\ text /\ ~valid -> Repair
                 [] OTHER -> End
  BY DEF Answered
<1>2. op.at = "post"
  BY DEF Answered
<1>3. spent' = charged' /\ charged' \in Nat /\ CapHolds'
  BY <1>1, <1>2, LlmAssumption DEF Recorded, ClientInv, Counted, CapHolds
<1> DEFINE answer == [text |-> text, reason |-> reason,
                      calls |-> IF op.kind = "loop" THEN calls ELSE <<>>]
<1>4. CASE RunTools(answer)
  BY <1>2, <1>3, <1>4, NextRoundKeeps DEF RunTools
<1>5. CASE Repair
  BY <1>2, <1>3, <1>5, NextRoundKeeps DEF Repair
<1>6. CASE End
  BY <1>3, <1>6, EndKeeps
<1> QED
  BY <1>1, <1>4, <1>5, <1>6

\* A post without an answer is tried again, or is the last.
LEMMA NoAnswerKeeps == ASSUME ClientInv, NoAnswer \/ Rejected PROVE ClientInv'
<1>1. UNCHANGED <<spent, charged>> /\ op.at = "post"
  BY DEF NoAnswer, Rejected
<1>2. CASE End
  BY <1>1, <1>2, EndKeeps DEF ClientInv, Counted, CapHolds
<1>3. CASE op.post # MaxRetries /\ op' = [op EXCEPT !.post = @ + 1]
  <2>1. op' \in OpType /\ op'.at = "post" /\ op'.kind = op.kind /\ op'.round = op.round
    BY <1>1, <1>3, LlmAssumption DEF ClientInv, Counted, OpType
  <2> QED
    BY <1>1, <2>1 DEF ClientInv, Counted, Bounded, CapHolds
<1> QED
  BY <1>2, <1>3 DEF NoAnswer, Rejected, TryAgain

\* Count, bounds and cap, always.
THEOREM ClientInvariance == LlmSpec => []ClientInv
<1>1. LlmInit => ClientInv
  BY ClientStart
<1>2. ClientInv /\ [LlmNext]_llmVars => ClientInv'
  <2> SUFFICES ASSUME ClientInv, [LlmNext]_llmVars PROVE ClientInv'
    OBVIOUS
  <2>1. CASE LlmNext
    BY <2>1, StartsKeep, CheckKeeps, AnsweredKeeps, NoAnswerKeeps DEF LlmNext, LlmStep
  <2>2. CASE UNCHANGED llmVars
    BY <2>2 DEF llmVars, ClientInv, Counted, Bounded, CapHolds
  <2> QED
    BY <2>1, <2>2
<1> QED
  BY <1>1, <1>2, PTL DEF LlmSpec

\* Whatever is asked, answered, repaired and retried, a client is charged less than its cap
\* and one call: every call follows a check, and every answer is counted.
THEOREM CapKept == LlmSpec => []CapHolds
BY ClientInvariance, PTL DEF ClientInv

\* An operation under way that takes a step ends, or goes on towards its last call: to its next
\* round, to the post of its round, or to the next try of its post.
OperationAdvances ==
  \/ op'.at = "idle"
  \/ /\ op'.kind = op.kind /\ op'.round < Rounds(op.kind) /\ op'.post <= MaxRetries
     /\ \/ op'.round > op.round
        \/ op'.round = op.round /\ op.at = "check" /\ op'.at = "post"
        \/ op'.round = op.round /\ op.at = "post" /\ op'.at = "post" /\ op'.post > op.post

\* No operation goes in circles, whatever is answered, repaired and retried: each step brings it
\* nearer to a last call, at most MaxRetries tries of which there are in each of its rounds.
THEOREM OperationsBounded == LlmSpec => [][op.at # "idle" => OperationAdvances]_llmVars
<1>1. ASSUME ClientInv, ClientInv', [LlmNext]_llmVars, op.at # "idle", llmVars' # llmVars
      PROVE  OperationAdvances
  <2>0. /\ op \in OpType /\ op.kind \in Operation /\ op.round \in Nat /\ op.post \in 0..MaxRetries
        /\ op.at \in {"check", "post"}
    BY <1>1 DEF ClientInv, Counted, Bounded, OpType
  <2>1. op' \in OpType /\ (op'.at # "idle" => op'.round < Rounds(op'.kind)) /\ op'.post <= MaxRetries
    <3>1. op' \in OpType /\ (op'.at # "idle" => op'.round < Rounds(op'.kind))
      BY <1>1 DEF ClientInv, Counted, Bounded, OpType
    <3> QED  BY <3>1, LlmAssumption DEF OpType
  <2>2. CASE End
    <3>1. IdleOp.at = "idle"
      BY DEF IdleOp
    <3> QED  BY <2>2, <3>1 DEF End, OperationAdvances
  <2>3. CASE op.at = "check" /\ op' = [op EXCEPT !.at = "post", !.post = 0]
    BY <2>0, <2>1, <2>3 DEF OperationAdvances, OpType
  <2>4. CASE op.at = "post" /\ op' = [op EXCEPT !.post = @ + 1]
    BY <2>0, <2>1, <2>4 DEF OperationAdvances, OpType
  <2>5. ASSUME NEW messages, NextRound(messages), op.at = "post" PROVE OperationAdvances
    <3>1. CASE op' = [op EXCEPT !.at = "check", !.round = @ + 1]
      BY <2>0, <2>1, <3>1 DEF OperationAdvances, OpType
    <3> QED  BY <2>2, <2>5, <3>1 DEF NextRound
  <2>6. CASE Answered
    <3>1. op.at = "post" /\ (End \/ Repair \/ \E answer : RunTools(answer))
      <4>1. op.at = "post"
        BY <2>6 DEF Answered
      <4>2. PICK text \in BOOLEAN, calls \in CallLists, reason \in Reason :
              LET answer == [text |-> text, reason |-> reason,
                             calls |-> IF op.kind = "loop" THEN calls ELSE <<>>]
              IN  RunTools(answer) \/ Repair \/ End
        BY <2>6 DEF Answered
      <4> QED  BY <4>1, <4>2
    <3> QED  BY <2>2, <2>5, <3>1 DEF Repair, RunTools
  <2>7. CASE CheckCostCap \/ NoAnswer \/ Rejected
    BY <2>2, <2>3, <2>4, <2>7 DEF CheckCostCap, NoAnswer, Rejected, TryAgain
  <2> QED  BY <1>1, <2>6, <2>7 DEF LlmNext, LlmStep, Begin
<1>2. ClientInv /\ ClientInv' /\ [LlmNext]_llmVars => [op.at # "idle" => OperationAdvances]_llmVars
  BY <1>1
<1> QED  BY <1>2, ClientInvariance, PTL DEF LlmSpec

-----------------------------------------------------------------------------
(* LlmClient, the messages of an operation: what holds of its turns, of    *)
(* the list that each of them becomes, and of these lists strung together. *)

\* What is in a turn, and in what is posted.
Id == STRING \cup {None}
Blocks == [type : BlockType, id : Id, image : BOOLEAN]
WireMessages == [role : {"user", "assistant", "tool"}, id : Id, calls : Seq(Id), image : BOOLEAN]

\* The filter of a content, block by block.
LEMMA Filtering ==
  ASSUME NEW B, NEW s \in Seq(B), NEW types
  PROVE  \E f \in [0..Len(s) -> Seq(B)] :
           /\ f[0] = <<>> /\ OfTypes(s, types) = f[Len(s)]
           /\ \A i \in 1..Len(s) :
                f[i] = IF s[i].type \in types THEN Append(f[i - 1], s[i]) ELSE f[i - 1]
<1> DEFINE n == Len(s)
           Takes(f) == f = [i \in 0..n |-> IF i = 0 THEN <<>>
                              ELSE IF s[i].type \in types THEN Append(f[i - 1], s[i]) ELSE f[i - 1]]
           f == CHOOSE f : Takes(f)
<1>1. OfTypes(s, types) = f[n]
  BY Zenon DEF OfTypes
<1>2. n \in Nat /\ \A i \in 1..n : s[i] \in B
  BY ElementOfSeq
<1> HIDE DEF n
<1>3. \E g \in [0..n -> Seq(B)] : Takes(g)
  <2> DEFINE step == [p \in (1..n) \X Seq(B) |->
                        IF s[p[1]].type \in types THEN Append(p[2], s[p[1]]) ELSE p[2]]
             T == Seq(B)
             none == <<>>
  <2>1. step \in [(1..n) \X Seq(B) -> Seq(B)]
    BY <1>2
  <2>2. none \in T
    OBVIOUS
  <2>3. \A i \in 1..n, q \in Seq(B) : step[i, q] = IF s[i].type \in types THEN Append(q, s[i]) ELSE q
    OBVIOUS
  <2> HIDE DEF step
  <2>4. n \in Nat /\ step \in Steps(n, T)
    BY <1>2, <2>1 DEF Steps
  <2> HIDE DEF T, none
  <2>5. PICK g : ByRecursion(g, n, T, none, step)
    BY <2>2, <2>4, Recursion
  <2>6. g \in [0..n -> Seq(B)] /\ g[0] = <<>> /\ \A i \in 1..n : g[i] = step[i, g[i - 1]]
    BY <2>5 DEF ByRecursion, T, none
  <2>7. ASSUME NEW i \in 0..n
        PROVE  g[i] = IF i = 0 THEN <<>>
                      ELSE IF s[i].type \in types THEN Append(g[i - 1], s[i]) ELSE g[i - 1]
    <3>1. CASE i = 0
      BY <2>6, <3>1
    <3>2. CASE i # 0
      <4>1. i \in 1..n /\ i - 1 \in 0..n
        BY <1>2, <3>2
      <4> QED  BY <2>3, <2>6, <3>2, <4>1
    <3> QED  BY <3>1, <3>2
  <2>8. Takes(g)
    BY <2>6, <2>7
  <2> HIDE DEF Takes
  <2> QED  BY <2>6, <2>8
<1>4. Takes(f)
  <2> HIDE DEF Takes
  <2> QED  BY <1>3
<1>5. f[0] = <<>> /\ \A i \in 1..n : f[i] = IF s[i].type \in types THEN Append(f[i - 1], s[i]) ELSE f[i - 1]
  <2> DEFINE h == [i \in 0..n |-> IF i = 0 THEN <<>>
                              ELSE IF s[i].type \in types THEN Append(f[i - 1], s[i]) ELSE f[i - 1]]
  <2>1. f = h
    BY <1>4
  <2> HIDE DEF f
  <2>2. h[0] = <<>> /\ \A i \in 1..n : h[i] = IF s[i].type \in types THEN Append(f[i - 1], s[i]) ELSE f[i - 1]
    BY <1>2
  <2> QED BY <2>1, <2>2
<1>6. DOMAIN f = 0..n /\ f = [i \in 0..n |-> f[i]]
  <2> DEFINE h == [i \in 0..n |-> IF i = 0 THEN <<>>
                              ELSE IF s[i].type \in types THEN Append(f[i - 1], s[i]) ELSE f[i - 1]]
  <2>1. f = h
    BY <1>4
  <2> HIDE DEF f
  <2>2. DOMAIN h = 0..n /\ h = [i \in 0..n |-> h[i]]
    OBVIOUS
  <2> QED BY <2>1, <2>2
<1> HIDE DEF f
<1> DEFINE S == {i \in Nat : i <= n => f[i] \in Seq(B)}
<1>7. 0 \in S
  <2>1. f[0] \in Seq(B) /\ 0 \in Nat
    BY <1>5
  <2> QED  BY <2>1
<1>8. ASSUME NEW i \in Nat, i \in S PROVE i + 1 \in S
  <2> SUFFICES ASSUME i + 1 <= n PROVE f[i + 1] \in Seq(B)
    OBVIOUS
  <2>1. i + 1 \in 1..n /\ (i + 1) - 1 = i /\ f[i] \in Seq(B)
    BY <1>2, <1>8
  <2>2. f[i + 1] = IF s[i + 1].type \in types THEN Append(f[i], s[i + 1]) ELSE f[i]
    BY <1>5, <2>1
  <2>3. s[i + 1] \in B
    BY <1>2, <2>1
  <2> QED  BY <2>1, <2>2, <2>3, AppendProperties
<1>9. \A i \in 0..n : f[i] \in Seq(B)
  <2>1. \A i \in Nat : i \in S
    <3> HIDE DEF S
    <3> QED  BY <1>7, <1>8, Numbers
  <2> QED  BY <1>2, <2>1
<1>10. f \in [0..n -> Seq(B)]
  BY <1>6, <1>9
<1> QED  BY <1>1, <1>5, <1>10 DEF n

\* The blocks of some types, where all that are of them come last.
LEMMA LastBlocks ==
  ASSUME NEW B, NEW s \in Seq(B), NEW types, NEW k \in 0..Len(s),
         \A i \in 1..k : s[i].type \notin types, \A i \in (k + 1)..Len(s) : s[i].type \in types
  PROVE  /\ OfTypes(s, types) \in Seq(B) /\ Len(OfTypes(s, types)) = Len(s) - k
         /\ \A j \in 1..(Len(s) - k) : OfTypes(s, types)[j] = s[k + j]
<1> DEFINE n == Len(s)
<1>1. PICK f \in [0..n -> Seq(B)] :
        /\ f[0] = <<>> /\ OfTypes(s, types) = f[n]
        /\ \A i \in 1..n : f[i] = IF s[i].type \in types THEN Append(f[i - 1], s[i]) ELSE f[i - 1]
  BY Filtering
<1>2. n \in Nat /\ k \in 0..n /\ (\A i \in 1..n : s[i] \in B) /\ \A i \in (k + 1)..n : s[i].type \in types
  BY ElementOfSeq
<1> HIDE DEF n
<1> DEFINE Right(i) == /\ f[i] \in Seq(B) /\ Len(f[i]) = (IF i <= k THEN 0 ELSE i - k)
                       /\ \A j \in 1..Len(f[i]) : f[i][j] = s[k + j]
           S == {i \in Nat : i <= n => Right(i)}
<1>5. 0 \in S
  <2>1. f[0] \in Seq(B) /\ Len(f[0]) = 0 /\ 0 <= k
    BY <1>1, <1>2
  <2>2. Right(0)
    BY <2>1
  <2>3. 0 \in Nat
    OBVIOUS
  <2> HIDE DEF Right
  <2> QED  BY <2>2, <2>3
<1>6. ASSUME NEW i \in Nat, i \in S PROVE i + 1 \in S
  <2> SUFFICES ASSUME i + 1 <= n PROVE Right(i + 1)
    <3> HIDE DEF Right
    <3> QED  OBVIOUS
  <2>1. Right(i)
    <3>1. i <= n
      BY <1>2
    <3> HIDE DEF Right
    <3> QED  BY <1>6, <3>1
  <2>2. i + 1 \in 1..n /\ (i + 1) - 1 = i
    BY <1>2
  <2> DEFINE q == f[i]
  <2>3. f[i + 1] = IF s[i + 1].type \in types THEN Append(q, s[i + 1]) ELSE q
    BY <1>1, <2>2
  <2>4. q \in Seq(B) /\ Len(q) = (IF i <= k THEN 0 ELSE i - k) /\ \A j \in 1..Len(q) : q[j] = s[k + j]
    BY <2>1
  <2> HIDE DEF q
  <2>5. CASE i + 1 <= k
    <3>1. f[i + 1] = q
      <4>1. i + 1 \in 1..k
        BY <2>2, <2>5
      <4> QED  BY <2>3, <4>1
    <3> QED  BY <1>2, <2>4, <2>5, <3>1
  <2>6. CASE ~(i + 1 <= k)
    <3> DEFINE b == s[i + 1]
    <3>1. f[i + 1] = Append(q, b) /\ b \in B
      <4>1. i + 1 \in (k + 1)..n
        BY <1>2, <2>2, <2>6
      <4> QED  BY <1>2, <2>2, <2>3, <4>1
    <3>2. Len(q) = i - k /\ k + (Len(q) + 1) = i + 1
      BY <1>2, <2>4, <2>6
    <3>4. b = s[k + (Len(q) + 1)]
      BY <3>2
    <3> HIDE DEF b
    <3>3. /\ f[i + 1] \in Seq(B) /\ Len(f[i + 1]) = Len(q) + 1 /\ f[i + 1][Len(q) + 1] = b
          /\ \A j \in 1..Len(q) : f[i + 1][j] = q[j]
      BY <2>4, <3>1, AppendProperties
    <3>5. ASSUME NEW j \in 1..(Len(q) + 1) PROVE f[i + 1][j] = s[k + j]
      <4>1. CASE j = Len(q) + 1
        BY <3>3, <3>4, <4>1
      <4>2. CASE j # Len(q) + 1
        <5>1. j \in 1..Len(q)
          BY <2>4, <4>2
        <5> QED  BY <2>4, <3>3, <5>1
      <4> QED  BY <4>1, <4>2
    <3>6. Len(f[i + 1]) = (i + 1) - k
      BY <1>2, <3>2, <3>3
    <3> QED  BY <2>6, <3>3, <3>5, <3>6
  <2> QED  BY <2>5, <2>6
<1>7. n \in S
  <2> HIDE DEF S
  <2> QED  BY <1>2, <1>5, <1>6, Numbers
<1>8. Right(n)
  <2> HIDE DEF Right
  <2> QED  BY <1>2, <1>7
<1>9. Len(f[n]) = n - k
  BY <1>2, <1>8
<1> QED  BY <1>1, <1>8, <1>9 DEF n

\* Two sequences strung together, place by place.
LEMMA Joining ==
  ASSUME NEW B, NEW w \in Seq(B), NEW v \in Seq(B)
  PROVE  /\ w \o v \in Seq(B) /\ Len(w \o v) = Len(w) + Len(v)
         /\ Len(w) \in Nat /\ Len(v) \in Nat
         /\ \A i \in 1..Len(w) : (w \o v)[i] = w[i]
         /\ \A i \in 1..Len(v) : (w \o v)[Len(w) + i] = v[i]
BY ConcatProperties, LenProperties

\* Sequences strung together, one by one.
LEMMA Flattening ==
  ASSUME NEW B, NEW s \in Seq(Seq(B)), Len(s) > 0
  PROVE  \E f \in [1..Len(s) -> Seq(B)] :
           /\ f[1] = s[1] /\ FlattenSeq(s) = f[Len(s)]
           /\ \A i \in 2..Len(s) : f[i] = f[i - 1] \o s[i]
<1> DEFINE n == Len(s)
           Takes(f) == f = [i \in 1..n |-> IF i = 1 THEN s[i] ELSE f[i - 1] \o s[i]]
           f == CHOOSE f : Takes(f)
<1>1. FlattenSeq(s) = f[n]
  <2>1. Len(s) # 0
    OBVIOUS
  <2> QED  BY <2>1, Zenon DEF FlattenSeq
<1>2. n \in Nat /\ n > 0 /\ \A i \in 1..n : s[i] \in Seq(B)
  BY ElementOfSeq
<1> HIDE DEF n
<1>3. \E g : Takes(g)
  <2> DEFINE step == [p \in (1..n) \X Seq(B) |-> p[2] \o s[p[1]]]
             T == Seq(B)
             none == <<>>
  <2>1. step \in [(1..n) \X Seq(B) -> Seq(B)]
    BY <1>2
  <2>2. none \in T
    OBVIOUS
  <2>3. \A i \in 1..n, q \in Seq(B) : step[i, q] = q \o s[i]
    OBVIOUS
  <2> HIDE DEF step
  <2>4. n \in Nat /\ step \in Steps(n, T)
    BY <1>2, <2>1 DEF Steps
  <2> HIDE DEF T, none
  <2>5. PICK g : ByRecursion(g, n, T, none, step)
    BY <2>2, <2>4, Recursion
  <2>6. g \in [0..n -> Seq(B)] /\ g[0] = <<>> /\ \A i \in 1..n : g[i] = step[i, g[i - 1]]
    BY <2>5 DEF ByRecursion, T, none
  <2> DEFINE h == [i \in 1..n |-> g[i]]
  <2>7. \A i \in 1..n : h[i] = g[i]
    OBVIOUS
  <2>8. ASSUME NEW i \in 1..n PROVE h[i] = IF i = 1 THEN s[i] ELSE h[i - 1] \o s[i]
    <3>1. g[i] = g[i - 1] \o s[i] /\ s[i] \in Seq(B)
      <4>1. i - 1 \in 0..n
        BY <1>2
      <4> QED  BY <1>2, <2>3, <2>6, <4>1
    <3>2. CASE i = 1
      <4>1. g[i - 1] = <<>>
        <5>1. i - 1 = 0
          BY <3>2
        <5> QED  BY <2>6, <5>1
      <4> QED  BY <2>7, <3>1, <3>2, <4>1, ConcatEmptySeq
    <3>3. CASE i # 1
      <4>1. i - 1 \in 1..n
        BY <1>2, <3>3
      <4> QED  BY <2>7, <3>1, <3>3, <4>1
    <3> QED  BY <3>2, <3>3
  <2>9. DOMAIN h = 1..n /\ h = [i \in 1..n |-> h[i]]
    OBVIOUS
  <2> HIDE DEF h
  <2>10. Takes(h)
    BY <2>8, <2>9
  <2> HIDE DEF Takes
  <2> QED  BY <2>10
<1>4. Takes(f)
  <2> HIDE DEF Takes
  <2> QED  BY <1>3
<1>5. f[1] = s[1] /\ \A i \in 2..n : f[i] = f[i - 1] \o s[i]
  <2> DEFINE h == [i \in 1..n |-> IF i = 1 THEN s[i] ELSE f[i - 1] \o s[i]]
  <2>1. f = h
    BY <1>4
  <2> HIDE DEF f
  <2>2. h[1] = s[1] /\ \A i \in 2..n : h[i] = f[i - 1] \o s[i]
    <3>1. 1 \in 1..n /\ \A i \in 2..n : i \in 1..n /\ i # 1
      BY <1>2
    <3> QED  BY <3>1
  <2> QED  BY <2>1, <2>2
<1>6. DOMAIN f = 1..n /\ f = [i \in 1..n |-> f[i]]
  <2> DEFINE h == [i \in 1..n |-> IF i = 1 THEN s[i] ELSE f[i - 1] \o s[i]]
  <2>1. f = h
    BY <1>4
  <2> HIDE DEF f
  <2>2. DOMAIN h = 1..n /\ h = [i \in 1..n |-> h[i]]
    OBVIOUS
  <2> QED  BY <2>1, <2>2
<1> HIDE DEF f
<1> DEFINE S == {i \in Nat : i + 1 <= n => f[i + 1] \in Seq(B)}
<1>7. 0 \in S
  <2>1. f[0 + 1] \in Seq(B) /\ 0 \in Nat
    <3>1. f[1] \in Seq(B) /\ 0 + 1 = 1
      BY <1>2, <1>5
    <3> QED  BY <3>1
  <2> QED  BY <2>1
<1>8. ASSUME NEW i \in Nat, i \in S PROVE i + 1 \in S
  <2> SUFFICES ASSUME (i + 1) + 1 <= n PROVE f[(i + 1) + 1] \in Seq(B)
    OBVIOUS
  <2>1. (i + 1) + 1 \in 2..n /\ ((i + 1) + 1) - 1 = i + 1 /\ i + 1 <= n
    BY <1>2
  <2>2. f[i + 1] \in Seq(B)
    BY <1>8, <2>1
  <2>3. s[(i + 1) + 1] \in Seq(B)
    BY <1>2, <2>1
  <2>4. f[(i + 1) + 1] = f[i + 1] \o s[(i + 1) + 1]
    BY <1>5, <2>1
  <2> QED  BY <2>2, <2>3, <2>4, ConcatProperties
<1>9. \A i \in 1..n : f[i] \in Seq(B)
  <2>1. \A i \in Nat : i \in S
    <3> HIDE DEF S
    <3> QED  BY <1>7, <1>8, Numbers
  <2>2. ASSUME NEW i \in 1..n PROVE f[i] \in Seq(B)
    <3>1. i - 1 \in Nat /\ (i - 1) + 1 = i /\ i <= n
      BY <1>2
    <3>2. i - 1 \in S
      BY <2>1, <3>1
    <3> QED  BY <3>1, <3>2
  <2> QED  BY <2>2
<1>10. f \in [1..n -> Seq(B)]
  BY <1>6, <1>9
<1> QED  BY <1>1, <1>5, <1>10 DEF n

\* The calls of message m are answered right after it; the results of message m were asked for.
Replied(w, m) ==
  /\ Len(w) >= m + Len(w[m].calls)
  /\ \A n \in 1..Len(w[m].calls) : w[m + n].role = "tool" /\ w[m + n].id = w[m].calls[n]
Asked(w, m) == \E j \in 1..(m - 1) : w[j].role = "assistant" /\ m - j <= Len(w[j].calls)
InOrder(w, m) ==
  (w[m].role = "assistant" => Replied(w, m)) /\ (w[m].role = "tool" => Asked(w, m))

\* Messages that are all in order, and messages whose last is an assistant's with more to come.
AllAnswered(w) == w \in Seq(WireMessages) /\ \A m \in 1..Len(w) : InOrder(w, m)
Owed(w) ==
  /\ w \in Seq(WireMessages) /\ Len(w) > 0 /\ w[Len(w)].role = "assistant"
  /\ \A m \in 1..(Len(w) - 1) : InOrder(w, m)

\* What is in order stays so when messages follow.
LEMMA Extending ==
  ASSUME NEW w \in Seq(WireMessages), NEW v \in Seq(WireMessages), NEW m \in 1..Len(w),
         InOrder(w, m)
  PROVE  InOrder(w \o v, m)
<1> DEFINE u == w \o v
<1>1. /\ u \in Seq(WireMessages) /\ Len(u) = Len(w) + Len(v) /\ Len(v) \in Nat /\ Len(w) \in Nat
      /\ \A i \in 1..Len(w) : u[i] = w[i]
  BY ConcatProperties, LenProperties
<1>2. w[m].calls \in Seq(Id)
  <2>1. w[m] \in WireMessages
    BY ElementOfSeq
  <2> QED  BY <2>1 DEF WireMessages
<1> HIDE DEF u
<1>3. u[m] = w[m]
  BY <1>1
<1>4. ASSUME Replied(w, m) PROVE Replied(u, m)
  <2> DEFINE k == Len(w[m].calls)
  <2>1. k \in Nat /\ m + k <= Len(w)
    BY <1>1, <1>2, <1>4 DEF Replied
  <2> HIDE DEF k
  <2>2. m + k <= Len(u) /\ \A n \in 1..k : u[m + n] = w[m + n]
    <3>1. \A n \in 1..k : m + n \in 1..Len(w)
      BY <1>1, <2>1
    <3>2. m + k <= Len(u)
      BY <1>1, <2>1
    <3> QED  BY <1>1, <3>1, <3>2
  <2>3. Len(u[m].calls) = k /\ Len(w[m].calls) = k
    BY <1>3 DEF k
  <2>4. \A n \in 1..k : w[m + n].role = "tool" /\ w[m + n].id = w[m].calls[n]
    BY <1>4, <2>3 DEF Replied
  <2>5. Len(u) >= m + k
    BY <1>1, <2>1, <2>2
  <2> QED  BY <1>3, <2>2, <2>3, <2>4, <2>5 DEF Replied
<1>5. ASSUME Asked(w, m) PROVE Asked(u, m)
  <2>1. PICK j \in 1..(m - 1) : w[j].role = "assistant" /\ m - j <= Len(w[j].calls)
    BY <1>5 DEF Asked
  <2>2. u[j] = w[j]
    <3>1. j \in 1..Len(w)
      BY <1>1
    <3> QED  BY <1>1, <3>1
  <2> QED  BY <2>1, <2>2 DEF Asked
<1>6. InOrder(u, m)
  BY <1>3, <1>4, <1>5 DEF InOrder
<1> QED  BY <1>6 DEF u

\* An assistant's message after messages in order.
LEMMA AssistantFollows ==
  ASSUME NEW w, AllAnswered(w), NEW a \in WireMessages, a.role = "assistant"
  PROVE  Owed(w \o <<a>>) /\ (w \o <<a>>)[Len(w \o <<a>>)] = a
<1> DEFINE v == <<a>>
           u == w \o v
<1>1. w \in Seq(WireMessages) /\ v \in Seq(WireMessages) /\ Len(v) = 1 /\ v[1] = a
  BY DEF AllAnswered
<1> HIDE DEF v
<1>2. /\ u \in Seq(WireMessages) /\ Len(u) = Len(w) + 1 /\ Len(w) \in Nat
      /\ \A i \in 1..Len(v) : u[Len(w) + i] = v[i]
  BY <1>1, ConcatProperties, LenProperties
<1>3. u[Len(u)] = a
  <2>1. 1 \in 1..Len(v)
    BY <1>1
  <2> HIDE DEF u
  <2> QED  BY <1>1, <1>2, <2>1
<1>4. \A m \in 1..(Len(u) - 1) : InOrder(u, m)
  <2>1. ASSUME NEW m \in 1..Len(w) PROVE InOrder(u, m)
    BY <1>1, Extending DEF AllAnswered
  <2>2. Len(u) - 1 = Len(w)
    BY <1>2
  <2> HIDE DEF u
  <2> QED  BY <2>1, <2>2
<1>5. Len(u) > 0
  <2> HIDE DEF u
  <2> QED  BY <1>2
<1>6. Owed(u) /\ u[Len(u)] = a
  <2> HIDE DEF u
  <2> QED  BY <1>2, <1>3, <1>4, <1>5 DEF Owed
<1> QED  BY <1>6 DEF u, v

\* Messages of a user's own after messages in order.
LEMMA UserFollows ==
  ASSUME NEW w, AllAnswered(w), NEW v \in Seq(WireMessages), \A n \in 1..Len(v) : v[n].role = "user"
  PROVE  AllAnswered(w \o v)
<1> DEFINE u == w \o v
<1>1. w \in Seq(WireMessages)
  BY DEF AllAnswered
<1>2. /\ u \in Seq(WireMessages) /\ Len(u) = Len(w) + Len(v) /\ Len(w) \in Nat /\ Len(v) \in Nat
      /\ \A i \in 1..Len(v) : u[Len(w) + i] = v[i]
  BY <1>1, ConcatProperties, LenProperties
<1>3. ASSUME NEW m \in 1..Len(u) PROVE InOrder(u, m)
  <2>1. CASE m \in 1..Len(w)
    BY <1>1, <2>1, Extending DEF AllAnswered
  <2>2. CASE m \notin 1..Len(w)
    <3> HIDE DEF u
    <3>1. m - Len(w) \in 1..Len(v) /\ Len(w) + (m - Len(w)) = m
      BY <1>2, <2>2
    <3>2. u[m].role = "user"
      BY <1>2, <3>1
    <3> QED  BY <3>2 DEF InOrder
  <2> QED  BY <2>1, <2>2
<1>4. AllAnswered(u)
  <2> HIDE DEF u
  <2> QED  BY <1>2, <1>3 DEF AllAnswered
<1> QED  BY <1>4 DEF u

\* The results of an assistant's calls, and more of the user's, after an assistant's message.
LEMMA ResultsFollow ==
  ASSUME NEW w, Owed(w), NEW v \in Seq(WireMessages), Len(w[Len(w)].calls) <= Len(v),
         \A n \in 1..Len(v) : v[n].role = IF n <= Len(w[Len(w)].calls) THEN "tool" ELSE "user",
         \A n \in 1..Len(w[Len(w)].calls) : v[n].id = w[Len(w)].calls[n]
  PROVE  AllAnswered(w \o v)
<1> DEFINE u == w \o v
           a == w[Len(w)]
           k == Len(a.calls)
           l == Len(w)
<1>1. w \in Seq(WireMessages) /\ l \in Nat /\ l > 0 /\ a \in WireMessages /\ a.role = "assistant"
  BY LenProperties, ElementOfSeq DEF Owed
<1>2. /\ u \in Seq(WireMessages) /\ Len(u) = l + Len(v) /\ Len(v) \in Nat
      /\ \A i \in 1..l : u[i] = w[i]
      /\ \A i \in 1..Len(v) : u[l + i] = v[i]
  BY <1>1, ConcatProperties, LenProperties
<1>3. k \in Nat /\ k <= Len(v)
  BY <1>1, LenProperties DEF WireMessages
<1>4. u[l] = a
  <2>1. l \in 1..l
    BY <1>1
  <2> HIDE DEF u, l
  <2> QED  BY <1>2, <2>1 DEF l
<1>5. \A n \in 1..Len(v) : v[n].role = IF n <= k THEN "tool" ELSE "user"
  OBVIOUS
<1>6. \A n \in 1..k : v[n].id = a.calls[n]
  OBVIOUS
<1>7. ASSUME NEW m \in 1..(l - 1) PROVE InOrder(u, m)
  <2>1. InOrder(w, m) /\ m \in 1..Len(w)
    BY <1>1 DEF Owed
  <2> QED  BY <1>1, <2>1, Extending
<1>8. k = Len(a.calls)
  OBVIOUS
<1> HIDE DEF u, a, k, l
<1>9. InOrder(u, l)
  <2>1. \A n \in 1..k : u[l + n] = v[n] /\ v[n].role = "tool"
    BY <1>2, <1>3, <1>5
  <2>2. Len(u) >= l + k
    BY <1>1, <1>2, <1>3
  <2>3. Replied(u, l)
    BY <1>4, <1>6, <1>8, <2>1, <2>2 DEF Replied
  <2> QED  BY <1>1, <1>4, <2>3 DEF InOrder
<1>10. ASSUME NEW n \in 1..Len(v) PROVE InOrder(u, l + n)
  <2>1. u[l + n] = v[n]
    BY <1>2
  <2>2. CASE n <= k
    <3>1. l \in 1..((l + n) - 1) /\ (l + n) - l <= k
      BY <1>1, <1>2, <2>2
    <3>2. Asked(u, l + n)
      BY <1>1, <1>4, <1>8, <3>1 DEF Asked
    <3>3. u[l + n].role = "tool"
      BY <1>5, <2>1, <2>2
    <3> QED  BY <3>2, <3>3 DEF InOrder
  <2>3. CASE ~(n <= k)
    <3>1. u[l + n].role = "user"
      BY <1>5, <2>1, <2>3
    <3> QED  BY <3>1 DEF InOrder
  <2> QED  BY <2>2, <2>3
<1>11. ASSUME NEW m \in 1..Len(u) PROVE InOrder(u, m)
  <2>1. CASE m <= l - 1
    <3>1. m \in 1..(l - 1)
      BY <1>1, <2>1
    <3> QED  BY <1>7, <3>1
  <2>2. CASE m = l
    BY <1>9, <2>2
  <2>3. CASE ~(m <= l - 1) /\ m # l
    <3>1. m - l \in 1..Len(v) /\ l + (m - l) = m
      BY <1>1, <1>2, <2>3
    <3> QED  BY <1>10, <3>1
  <2> QED  BY <2>1, <2>2, <2>3
<1>12. AllAnswered(u)
  BY <1>2, <1>11 DEF AllAnswered
<1> QED  BY <1>12 DEF u

\* The messages of a user's turn: the results of tool calls, then the user's own.
LEMMA UserTurn ==
  ASSUME NEW c \in Seq(Blocks)
  PROVE  LET u == UserMessages(c)
             k == Len(Results(c))
         IN  /\ u \in Seq(WireMessages) /\ k \in Nat /\ k <= Len(u)
             /\ \A n \in 1..Len(u) : u[n].role = IF n <= k THEN "tool" ELSE "user"
             /\ \A n \in 1..k : u[n].id = Results(c)[n].id
<1> DEFINE r == Results(c)
           t == ToolMessages(c)
           v == IF Others(c) # <<>> \/ HasImage(c)
                THEN <<WireMessage("user", None, <<>>, HasImage(c))>> ELSE <<>>
           k == Len(r)
           u == t \o v
<1>1. r \in Seq(Blocks)
  BY Filtering DEF Results
<1>2. k \in Nat /\ \A n \in 1..k : r[n] \in Blocks
  BY <1>1, LenProperties, ElementOfSeq
<1>3. t = [n \in 1..k |-> WireMessage("tool", r[n].id, <<>>, FALSE)]
  BY DEF ToolMessages
<1>4. \A id \in Id : WireMessage("tool", id, <<>>, FALSE) \in WireMessages
  BY DEF WireMessage, WireMessages
<1> HIDE DEF r, k, t
<1>5. t \in Seq(WireMessages) /\ Len(t) = k
  <2> DEFINE m(n) == WireMessage("tool", r[n].id, <<>>, FALSE)
  <2>1. \A n \in 1..k : m(n) \in WireMessages
    BY <1>2, <1>4 DEF Blocks
  <2>2. t = [n \in 1..k |-> m(n)]
    BY <1>3
  <2> HIDE DEF m
  <2> QED  BY <1>2, <2>1, <2>2, SeqDef, LenProperties
<1>6. \A n \in 1..k : t[n].role = "tool" /\ t[n].id = r[n].id
  BY <1>3 DEF WireMessage
<1>7. v \in Seq(WireMessages) /\ \A n \in 1..Len(v) : v[n].role = "user"
  <2>1. HasImage(c) \in BOOLEAN
    BY DEF HasImage
  <2>2. WireMessage("user", None, <<>>, HasImage(c)) \in WireMessages
    BY <2>1 DEF WireMessage, WireMessages, Id
  <2>3. WireMessage("user", None, <<>>, HasImage(c)).role = "user"
    BY DEF WireMessage
  <2> QED  BY <2>2, <2>3
<1> HIDE DEF v
<1>8. /\ u \in Seq(WireMessages) /\ Len(u) = k + Len(v) /\ Len(v) \in Nat
      /\ \A n \in 1..k : u[n] = t[n]
      /\ \A n \in 1..Len(v) : u[k + n] = v[n]
  <2>1. /\ t \o v \in Seq(WireMessages) /\ Len(t \o v) = Len(t) + Len(v)
        /\ \A n \in 1..Len(t) : (t \o v)[n] = t[n]
        /\ \A n \in 1..Len(v) : (t \o v)[Len(t) + n] = v[n]
    <3>1. t \in Seq(WireMessages) /\ v \in Seq(WireMessages)
      BY <1>5, <1>7
    <3> QED  BY <3>1, ConcatProperties
  <2>2. Len(v) \in Nat
    BY <1>7, LenProperties
  <2> QED  BY <1>5, <2>1, <2>2
<1> HIDE DEF u
<1>9. ASSUME NEW n \in 1..Len(u) PROVE u[n].role = IF n <= k THEN "tool" ELSE "user"
  <2>1. CASE n <= k
    <3>1. n \in 1..k
      BY <1>2, <1>8, <2>1
    <3> QED  BY <1>6, <1>8, <2>1, <3>1
  <2>2. CASE ~(n <= k)
    <3>1. n - k \in 1..Len(v) /\ k + (n - k) = n
      BY <1>2, <1>8, <2>2
    <3>2. u[n] = v[n - k]
      BY <1>8, <3>1
    <3> QED  BY <1>7, <2>2, <3>1, <3>2
  <2> QED  BY <2>1, <2>2
<1>10. k <= Len(u)
  BY <1>2, <1>8
<1>11. \A n \in 1..k : u[n].id = r[n].id
  BY <1>6, <1>8
<1> QED  BY <1>2, <1>8, <1>9, <1>10, <1>11 DEF u, r, k, t, v, UserMessages

\* What an assistant's turn becomes.
LEMMA AssistantTurn ==
  ASSUME NEW c \in Seq(Blocks)
  PROVE  /\ Calls(c) \in Seq(Blocks)
         /\ AssistantMessage(c) \in WireMessages /\ AssistantMessage(c).role = "assistant"
         /\ Len(AssistantMessage(c).calls) = Len(Calls(c))
         /\ \A n \in 1..Len(Calls(c)) : AssistantMessage(c).calls[n] = Calls(c)[n].id
<1> DEFINE r == Calls(c)
           k == Len(r)
           ids == [n \in 1..k |-> r[n].id]
<1>1. r \in Seq(Blocks)
  BY Filtering DEF Calls
<1>2. k \in Nat /\ \A n \in 1..k : r[n] \in Blocks
  BY <1>1, LenProperties, ElementOfSeq
<1>3. AssistantMessage(c) = WireMessage("assistant", None, ids, FALSE)
  BY DEF AssistantMessage
<1>4. k = Len(r)
  OBVIOUS
<1> HIDE DEF r, k
<1>5. ids \in Seq(Id) /\ Len(ids) = k
  <2>1. \A n \in 1..k : r[n].id \in Id
    BY <1>2 DEF Blocks
  <2> QED  BY <1>2, <2>1, SeqDef, LenProperties
<1>6. \A n \in 1..k : ids[n] = r[n].id
  OBVIOUS
<1> HIDE DEF ids
<1>7. AssistantMessage(c) \in WireMessages /\ AssistantMessage(c).role = "assistant" /\ AssistantMessage(c).calls = ids
  BY <1>3, <1>5 DEF WireMessage, WireMessages, Id
<1> QED  BY <1>1, <1>4, <1>5, <1>6, <1>7 DEF r, k

\* The turns of an operation: an assistant's is followed by the results of its calls, and
\* results come nowhere else.
Turns == [role : {"user", "assistant"}, content : Seq(Blocks)]
Matched(calls, results) ==
  Len(results) = Len(calls) /\ \A n \in 1..Len(calls) : results[n].id = calls[n].id
TurnsMatched(ts) ==
  /\ ts \in Seq(Turns)
  /\ \A i \in 1..Len(ts) : ts[i].role = "assistant" =>
       i + 1 <= Len(ts) /\ ts[i + 1].role = "user"
         /\ Matched(Calls(ts[i].content), Results(ts[i + 1].content))
  /\ \A i \in 1..Len(ts) : ts[i].role = "user" =>
       Len(Results(ts[i].content)) = 0 \/ (i > 1 /\ ts[i - 1].role = "assistant")

\* What is posted for such turns is in order.
LEMMA WireInOrder == ASSUME TurnsMatched(turns) PROVE ToolCallsAnswered
<1> DEFINE ts == turns
           n == Len(ts)
           Said(i) == IF ts[i].role = "assistant" THEN <<AssistantMessage(ts[i].content)>>
                      ELSE UserMessages(ts[i].content)
           s == [i \in 1..n |-> Said(i)]
<1>1. n \in Nat /\ ts \in Seq(Turns)
  BY LenProperties DEF TurnsMatched
<1>2. ASSUME NEW i \in 1..n
      PROVE  ts[i].role \in {"user", "assistant"} /\ ts[i].content \in Seq(Blocks)
  <2>1. ts[i] \in Turns
    BY <1>1, ElementOfSeq
  <2> QED  BY <2>1 DEF Turns
<1>3. ASSUME NEW i \in 1..n PROVE Said(i) \in Seq(WireMessages)
  <2> DEFINE a == AssistantMessage(ts[i].content)
             v == UserMessages(ts[i].content)
  <2>1. a \in WireMessages
    BY <1>2, AssistantTurn
  <2>2. v \in Seq(WireMessages)
    BY <1>2, UserTurn
  <2> HIDE DEF a
  <2>3. <<a>> \in Seq(WireMessages)
    BY <2>1
  <2> HIDE DEF v
  <2> QED  BY <2>2, <2>3 DEF a, v
<1>4. Wire = FlattenSeq(s)
  BY DEF Wire
<1>5. s \in Seq(Seq(WireMessages)) /\ Len(s) = n
  <2> HIDE DEF Said, n
  <2> QED  BY <1>1, <1>3, SeqDef, LenProperties
<1>6. CASE n = 0
  <2>1. Wire = s
    BY <1>4, <1>5, <1>6 DEF FlattenSeq
  <2>2. Len(Wire) = 0
    BY <1>5, <1>6, <2>1
  <2> HIDE DEF n, s
  <2> QED  BY <2>2 DEF ToolCallsAnswered
<1>7. CASE n > 0
  <2>1. PICK f \in [1..n -> Seq(WireMessages)] :
          f[1] = s[1] /\ Wire = f[n] /\ \A i \in 2..n : f[i] = f[i - 1] \o s[i]
    <3> HIDE DEF s, n
    <3>1. PICK g \in [1..Len(s) -> Seq(WireMessages)] :
            g[1] = s[1] /\ FlattenSeq(s) = g[Len(s)] /\ \A i \in 2..Len(s) : g[i] = g[i - 1] \o s[i]
      BY <1>5, <1>7, Flattening
    <3> QED  BY <1>4, <1>5, <3>1
  <2> DEFINE Right(i) == IF ts[i].role = "assistant"
                         THEN Owed(f[i]) /\ f[i][Len(f[i])] = AssistantMessage(ts[i].content)
                         ELSE AllAnswered(f[i])
  <2>2. ASSUME NEW i \in 1..n, NEW w \in Seq(WireMessages), f[i] = w \o Said(i),
               IF i = 1 THEN w = <<>> ELSE w = f[i - 1] /\ Right(i - 1)
        PROVE  Right(i)
    <3> DEFINE c == ts[i].content
    <3>1. c \in Seq(Blocks)
      BY <1>2
    <3>2. CASE ts[i].role = "assistant"
      <4>1. AllAnswered(w)
        <5>1. CASE i = 1
          <6>1. w = <<>> /\ Len(w) = 0
            BY <2>2, <5>1
          <6> QED  BY <6>1 DEF AllAnswered
        <5>2. CASE i # 1
          <6>1. i - 1 \in 1..n /\ (i - 1) + 1 = i
            BY <1>1, <5>2
          <6>2. ts[i - 1].role # "assistant"
            BY <3>2, <6>1 DEF TurnsMatched
          <6> QED  BY <2>2, <5>2, <6>2
        <5> QED  BY <5>1, <5>2
      <4> DEFINE a == AssistantMessage(c)
      <4>2. a \in WireMessages /\ a.role = "assistant"
        BY <3>1, AssistantTurn
      <4>3. f[i] = w \o <<a>>
        BY <2>2, <3>2
      <4> HIDE DEF a
      <4>4. Owed(f[i]) /\ f[i][Len(f[i])] = a
        BY <4>1, <4>2, <4>3, AssistantFollows
      <4> QED  BY <3>2, <4>4 DEF a
    <3>3. CASE ts[i].role # "assistant"
      <4> DEFINE v == UserMessages(c)
                 r == Results(c)
                 k == Len(r)
      <4>1. /\ v \in Seq(WireMessages) /\ k \in Nat /\ k <= Len(v)
            /\ \A j \in 1..Len(v) : v[j].role = IF j <= k THEN "tool" ELSE "user"
            /\ \A j \in 1..k : v[j].id = r[j].id
        BY <3>1, UserTurn
      <4>2. f[i] = w \o v
        BY <2>2, <3>3
      <4>3. ts[i].role = "user"
        BY <1>2, <3>3
      <4>4. CASE i > 1 /\ ts[i - 1].role = "assistant"
        <5> DEFINE d == ts[i - 1].content
                   a == AssistantMessage(d)
        <5>1. i - 1 \in 1..n /\ (i - 1) + 1 = i
          BY <1>1, <4>4
        <5>2. d \in Seq(Blocks)
          BY <1>2, <5>1
        <5>3. Matched(Calls(d), r)
          BY <4>4, <5>1 DEF TurnsMatched
        <5>4. Len(a.calls) = Len(Calls(d)) /\ \A j \in 1..Len(Calls(d)) : a.calls[j] = Calls(d)[j].id
          BY <5>2, AssistantTurn
        <5>5. Len(a.calls) = k /\ \A j \in 1..k : a.calls[j] = r[j].id
          <6> HIDE DEF a, r, d
          <6> QED  BY <5>3, <5>4 DEF Matched
        <5>6. Owed(w) /\ w[Len(w)] = a
          BY <2>2, <4>4
        <5> HIDE DEF a, v, r, k, d, c, Right
        <5>7. AllAnswered(w \o v)
          BY <4>1, <5>5, <5>6, ResultsFollow
        <5> QED  BY <3>3, <4>2, <5>7 DEF Right
      <4>5. CASE ~(i > 1 /\ ts[i - 1].role = "assistant")
        <5>1. k = 0
          BY <4>3, <4>5 DEF TurnsMatched
        <5>2. AllAnswered(w)
          <6>1. CASE i = 1
            <7>1. w = <<>> /\ Len(w) = 0
              BY <2>2, <6>1
            <7> QED  BY <7>1 DEF AllAnswered
          <6>2. CASE i # 1
            <7>1. i > 1
              BY <1>1, <6>2
            <7> QED  BY <2>2, <4>5, <6>2, <7>1
          <6> QED  BY <6>1, <6>2
        <5> HIDE DEF v, r, k, c
        <5>3. \A j \in 1..Len(v) : v[j].role = "user"
          BY <4>1, <5>1
        <5>4. AllAnswered(w \o v)
          BY <4>1, <5>2, <5>3, UserFollows
        <5> QED  BY <3>3, <4>2, <5>4
      <4> QED  BY <4>4, <4>5
    <3> QED  BY <3>2, <3>3
  <2>3. \A i \in 1..n : s[i] = Said(i)
    OBVIOUS
  <2> HIDE DEF Right, s, Said, n
  <2> DEFINE S == {i \in Nat : i + 1 <= n => Right(i + 1)}
  <2>4. 0 \in S
    <3> SUFFICES Right(1)
      OBVIOUS
    <3>1. 1 \in 1..n /\ f[1] = Said(1) /\ Said(1) \in Seq(WireMessages)
      BY <1>1, <1>3, <1>7, <2>1, <2>3
    <3>2. <<>> \in Seq(WireMessages) /\ f[1] = <<>> \o Said(1)
      BY <3>1, ConcatEmptySeq
    <3> QED  BY <2>2, <3>1, <3>2
  <2>5. ASSUME NEW i \in Nat, i \in S PROVE i + 1 \in S
    <3> SUFFICES ASSUME (i + 1) + 1 <= n PROVE Right((i + 1) + 1)
      OBVIOUS
    <3> DEFINE j == (i + 1) + 1
    <3>1. j \in 2..n /\ j \in 1..n /\ j # 1 /\ j - 1 = i + 1 /\ i + 1 \in 1..n
      BY <1>1
    <3>2. Right(i + 1)
      BY <2>5, <3>1
    <3> HIDE DEF j
    <3>3. f[j] = f[j - 1] \o Said(j) /\ f[j - 1] \in Seq(WireMessages)
      BY <2>1, <2>3, <3>1
    <3>4. Right(j)
      BY <2>2, <3>1, <3>2, <3>3
    <3> QED  BY <3>4 DEF j
  <2>6. Right(n)
    <3>1. \A i \in Nat : i \in S
      <4> HIDE DEF S
      <4> QED  BY <2>4, <2>5, Numbers
    <3>2. n - 1 \in Nat /\ (n - 1) + 1 = n
      BY <1>1, <1>7
    <3>3. n - 1 \in S
      BY <3>1, <3>2
    <3> QED  BY <1>1, <3>2, <3>3
  <2>7. AllAnswered(Wire)
    <3>1. ts[n].role # "assistant"
      <4>1. n \in 1..n /\ ~(n + 1 <= n)
        BY <1>1, <1>7
      <4> QED  BY <4>1 DEF TurnsMatched, n
    <3> QED  BY <2>1, <2>6, <3>1 DEF Right
  <2> QED  BY <2>7 DEF AllAnswered, InOrder, Replied, Asked, ToolCallsAnswered
<1> QED  BY <1>1, <1>6, <1>7

\* The turns of an operation that go on with one of the user's, without results.
LEMMA QuestionFollows ==
  ASSUME NEW ts, TurnsMatched(ts), NEW c \in Seq(Blocks), Len(Results(c)) = 0
  PROVE  TurnsMatched(ts \o <<[role |-> "user", content |-> c]>>)
<1> DEFINE b == [role |-> "user", content |-> c]
           v == <<b>>
           us == ts \o v
           n == Len(ts)
<1>1. b \in Turns /\ b.role = "user" /\ b.content = c
  BY DEF Turns
<1> HIDE DEF b
<1>2. v \in Seq(Turns) /\ Len(v) = 1 /\ v[1] = b
  BY <1>1
<1>3. ts \in Seq(Turns) /\ n \in Nat
  BY LenProperties DEF TurnsMatched
<1> HIDE DEF v
<1>4. /\ us \in Seq(Turns) /\ Len(us) = n + 1 /\ us[n + 1] = b
      /\ \A i \in 1..n : us[i] = ts[i]
  <2>1. /\ ts \o v \in Seq(Turns) /\ Len(ts \o v) = Len(ts) + Len(v)
        /\ \A i \in 1..Len(ts) : (ts \o v)[i] = ts[i]
        /\ \A i \in 1..Len(v) : (ts \o v)[Len(ts) + i] = v[i]
    <3>1. ts \in Seq(Turns) /\ v \in Seq(Turns)
      BY <1>2, <1>3
    <3> QED  BY <3>1, Joining
  <2> QED  BY <1>2, <2>1
<1> HIDE DEF us, n
<1>5. ASSUME NEW i \in 1..(n + 1)
      PROVE  /\ us[i].role = "assistant" =>
                  i + 1 <= n + 1 /\ us[i + 1].role = "user"
                    /\ Matched(Calls(us[i].content), Results(us[i + 1].content))
             /\ us[i].role = "user" =>
                  Len(Results(us[i].content)) = 0 \/ (i > 1 /\ us[i - 1].role = "assistant")
  <2>1. CASE i = n + 1
    BY <1>1, <1>4, <2>1
  <2>2. CASE i # n + 1
    <3>1. i \in 1..n /\ us[i] = ts[i]
      BY <1>3, <1>4, <2>2
    <3>2. ASSUME us[i].role = "assistant"
          PROVE  i + 1 <= n + 1 /\ us[i + 1].role = "user"
                   /\ Matched(Calls(us[i].content), Results(us[i + 1].content))
      <4>1. /\ i + 1 <= n /\ ts[i + 1].role = "user"
            /\ Matched(Calls(ts[i].content), Results(ts[i + 1].content))
        BY <3>1, <3>2 DEF TurnsMatched, n
      <4>2. i + 1 \in 1..n
        BY <1>3, <4>1
      <4> QED  BY <1>3, <1>4, <3>1, <4>1, <4>2
    <3>3. ASSUME us[i].role = "user"
          PROVE  Len(Results(us[i].content)) = 0 \/ (i > 1 /\ us[i - 1].role = "assistant")
      <4>1. Len(Results(ts[i].content)) = 0 \/ (i > 1 /\ ts[i - 1].role = "assistant")
        BY <3>1, <3>3 DEF TurnsMatched, n
      <4>2. i > 1 => i - 1 \in 1..n
        BY <1>3, <3>1
      <4> QED  BY <1>4, <3>1, <4>1, <4>2
    <3> QED  BY <3>2, <3>3
  <2> QED  BY <2>1, <2>2
<1>6. TurnsMatched(us)
  BY <1>4, <1>5 DEF TurnsMatched
<1> QED  BY <1>6 DEF us, v, b

\* The turns of an operation that go on with tool calls and their results.
LEMMA ToolsFollow ==
  ASSUME NEW ts, TurnsMatched(ts), NEW c \in Seq(Blocks), NEW d \in Seq(Blocks),
         Matched(Calls(c), Results(d))
  PROVE  TurnsMatched(ts \o <<[role |-> "assistant", content |-> c],
                              [role |-> "user", content |-> d]>>)
<1> DEFINE a == [role |-> "assistant", content |-> c]
           b == [role |-> "user", content |-> d]
           v == <<a, b>>
           us == ts \o v
           n == Len(ts)
<1>1. a \in Turns /\ a.role = "assistant" /\ a.content = c
  BY DEF Turns
<1>2. b \in Turns /\ b.role = "user" /\ b.content = d
  BY DEF Turns
<1> HIDE DEF a, b
<1>3. v \in Seq(Turns) /\ Len(v) = 2 /\ v[1] = a /\ v[2] = b
  BY <1>1, <1>2
<1>4. ts \in Seq(Turns) /\ n \in Nat
  BY LenProperties DEF TurnsMatched
<1> HIDE DEF v
<1>5. /\ us \in Seq(Turns) /\ Len(us) = n + 2 /\ us[n + 1] = a /\ us[n + 2] = b
      /\ \A i \in 1..n : us[i] = ts[i]
  <2>1. /\ ts \o v \in Seq(Turns) /\ Len(ts \o v) = Len(ts) + Len(v)
        /\ \A i \in 1..Len(ts) : (ts \o v)[i] = ts[i]
        /\ \A i \in 1..Len(v) : (ts \o v)[Len(ts) + i] = v[i]
    <3>1. ts \in Seq(Turns) /\ v \in Seq(Turns)
      BY <1>3, <1>4
    <3> QED  BY <3>1, Joining
  <2>2. 1 \in 1..Len(v) /\ 2 \in 1..Len(v)
    BY <1>3
  <2> QED  BY <1>3, <2>1, <2>2
<1> HIDE DEF us, n
<1>6. ASSUME NEW i \in 1..(n + 2)
      PROVE  /\ us[i].role = "assistant" =>
                  i + 1 <= n + 2 /\ us[i + 1].role = "user"
                    /\ Matched(Calls(us[i].content), Results(us[i + 1].content))
             /\ us[i].role = "user" =>
                  Len(Results(us[i].content)) = 0 \/ (i > 1 /\ us[i - 1].role = "assistant")
  <2>1. CASE i = n + 1
    <3>1. i + 1 = n + 2
      BY <1>4, <2>1
    <3> QED  BY <1>1, <1>2, <1>5, <2>1, <3>1
  <2>2. CASE i = n + 2
    <3>1. i - 1 = n + 1 /\ i > 1
      BY <1>4, <2>2
    <3> QED  BY <1>1, <1>2, <1>5, <2>2, <3>1
  <2>3. CASE i # n + 1 /\ i # n + 2
    <3>1. i \in 1..n /\ us[i] = ts[i]
      BY <1>4, <1>5, <2>3
    <3>2. ASSUME us[i].role = "assistant"
          PROVE  i + 1 <= n + 2 /\ us[i + 1].role = "user"
                   /\ Matched(Calls(us[i].content), Results(us[i + 1].content))
      <4>1. /\ i + 1 <= n /\ ts[i + 1].role = "user"
            /\ Matched(Calls(ts[i].content), Results(ts[i + 1].content))
        BY <3>1, <3>2 DEF TurnsMatched, n
      <4>2. i + 1 \in 1..n
        BY <1>4, <4>1
      <4> QED  BY <1>4, <1>5, <3>1, <4>1, <4>2
    <3>3. ASSUME us[i].role = "user"
          PROVE  Len(Results(us[i].content)) = 0 \/ (i > 1 /\ us[i - 1].role = "assistant")
      <4>1. Len(Results(ts[i].content)) = 0 \/ (i > 1 /\ ts[i - 1].role = "assistant")
        BY <3>1, <3>3 DEF TurnsMatched, n
      <4>2. i > 1 => i - 1 \in 1..n
        BY <1>4, <3>1
      <4> QED  BY <1>5, <3>1, <4>1, <4>2
    <3> QED  BY <3>2, <3>3
  <2> QED  BY <2>1, <2>2, <2>3
<1>7. TurnsMatched(us)
  BY <1>5, <1>6 DEF TurnsMatched
<1> QED  BY <1>7 DEF us, v, a, b

\* A turn of one block that is no result.
LEMMA OneBlock ==
  ASSUME NEW type \in {"text", "image"}, NEW image \in BOOLEAN
  PROVE  /\ <<Block(type, None, image)>> \in Seq(Blocks)
         /\ Len(Results(<<Block(type, None, image)>>)) = 0
<1> DEFINE b == Block(type, None, image)
           c == <<b>>
<1>1. b \in Blocks /\ b.type = type
  BY DEF Block, Blocks, BlockType, Id
<1> HIDE DEF b
<1>2. c \in Seq(Blocks) /\ Len(c) = 1 /\ c[1] = b
  BY <1>1
<1> HIDE DEF c
<1>3. Len(OfTypes(c, {"tool_result"})) = Len(c) - 1
  <2>1. 1 \in 0..Len(c)
    BY <1>2
  <2>2. \A i \in 1..1 : c[i].type \notin {"tool_result"}
    BY <1>1, <1>2
  <2>3. \A i \in (1 + 1)..Len(c) : c[i].type \in {"tool_result"}
    BY <1>2
  <2> QED  BY <1>2, <2>1, <2>2, <2>3, LastBlocks
<1> QED  BY <1>2, <1>3 DEF c, b, Results

\* What an answer says before its calls, and the calls, match the results of the tools.
LEMMA ToolsMatch ==
  ASSUME NEW answer, answer.text \in BOOLEAN, answer.calls \in Seq(STRING),
         NEW images \in [1..Len(answer.calls) -> BOOLEAN]
  PROVE  LET d == [i \in 1..Len(answer.calls) |-> Block("tool_result", answer.calls[i], images[i])]
         IN  /\ Content(answer) \in Seq(Blocks) /\ d \in Seq(Blocks)
             /\ Matched(Calls(Content(answer)), Results(d))
<1> DEFINE calls == answer.calls
           n == Len(calls)
           used(i) == Block("tool_use", calls[i], FALSE)
           done(i) == Block("tool_result", calls[i], images[i])
           t == IF answer.text THEN <<Block("text", None, FALSE)>> ELSE <<>>
           u == [i \in 1..n |-> used(i)]
           d == [i \in 1..n |-> done(i)]
           c == t \o u
           k == Len(t)
<1>1. n \in Nat /\ \A i \in 1..n : calls[i] \in STRING
  BY LenProperties, ElementOfSeq
<1>2. \A i \in 1..n : used(i) \in Blocks /\ used(i).type = "tool_use" /\ used(i).id = calls[i]
  BY <1>1 DEF Block, Blocks, BlockType, Id
<1>3. \A i \in 1..n : done(i) \in Blocks /\ done(i).type = "tool_result" /\ done(i).id = calls[i]
  BY <1>1 DEF Block, Blocks, BlockType, Id
<1>4. t \in Seq(Blocks) /\ k \in Nat /\ \A i \in 1..k : t[i].type = "text"
  <2>1. Block("text", None, FALSE) \in Blocks /\ Block("text", None, FALSE).type = "text"
    BY DEF Block, Blocks, BlockType, Id
  <2>2. CASE answer.text
    <3> DEFINE b == Block("text", None, FALSE)
    <3>1. t = <<b>>
      BY <2>2
    <3>2. b \in Blocks /\ b.type = "text"
      BY <2>1
    <3> HIDE DEF b, t
    <3> QED  BY <3>1, <3>2
  <2>3. CASE ~answer.text
    <3>1. t = <<>>
      BY <2>3
    <3> HIDE DEF t
    <3> QED  BY <3>1
  <2> QED  BY <2>2, <2>3
<1> HIDE DEF used, done, t, n
<1>5. u \in Seq(Blocks) /\ Len(u) = n /\ \A i \in 1..n : u[i] = used(i)
  BY <1>1, <1>2, SeqDef, LenProperties
<1>6. d \in Seq(Blocks) /\ Len(d) = n /\ \A i \in 1..n : d[i] = done(i)
  BY <1>1, <1>3, SeqDef, LenProperties
<1>11. c = Content(answer)
  BY DEF Content, t, used, n
<1>12. d = [i \in 1..Len(answer.calls) |-> Block("tool_result", answer.calls[i], images[i])]
  BY DEF done, n
<1> HIDE DEF u, d, k
<1>7. /\ c \in Seq(Blocks) /\ Len(c) = k + n
      /\ \A i \in 1..k : c[i] = t[i]
      /\ \A i \in 1..n : c[k + i] = used(i)
  <2>1. /\ t \o u \in Seq(Blocks) /\ Len(t \o u) = Len(t) + Len(u)
        /\ \A i \in 1..Len(t) : (t \o u)[i] = t[i]
        /\ \A i \in 1..Len(u) : (t \o u)[Len(t) + i] = u[i]
    <3>1. t \in Seq(Blocks) /\ u \in Seq(Blocks)
      BY <1>4, <1>5
    <3> QED  BY <3>1, Joining
  <2> QED  BY <1>5, <2>1 DEF k
<1> HIDE DEF c
<1>8. Len(Calls(c)) = n /\ \A i \in 1..n : Calls(c)[i] = used(i)
  <2>1. k \in 0..Len(c)
    BY <1>1, <1>4, <1>7
  <2>2. \A i \in 1..k : c[i].type \notin {"tool_use"}
    BY <1>4, <1>7
  <2>3. \A i \in (k + 1)..Len(c) : c[i].type \in {"tool_use"}
    <3>1. ASSUME NEW i \in (k + 1)..Len(c) PROVE c[i].type = "tool_use"
      <4>1. i - k \in 1..n /\ k + (i - k) = i
        BY <1>1, <1>4, <1>7
      <4>2. c[k + (i - k)] = used(i - k)
        BY <1>7, <4>1
      <4> QED  BY <1>2, <4>1, <4>2
    <3> QED  BY <3>1
  <2>4. /\ Len(OfTypes(c, {"tool_use"})) = Len(c) - k
        /\ \A j \in 1..(Len(c) - k) : OfTypes(c, {"tool_use"})[j] = c[k + j]
    <3> DEFINE types == {"tool_use"}
    <3>1. c \in Seq(Blocks)
      BY <1>7
    <3>2. /\ \A i \in 1..k : c[i].type \notin types
          /\ \A i \in (k + 1)..Len(c) : c[i].type \in types
      BY <2>2, <2>3
    <3> HIDE DEF types
    <3>3. /\ Len(OfTypes(c, types)) = Len(c) - k
          /\ \A j \in 1..(Len(c) - k) : OfTypes(c, types)[j] = c[k + j]
      BY <2>1, <3>1, <3>2, LastBlocks
    <3> QED  BY <3>3 DEF types
  <2>5. Len(c) - k = n
    BY <1>1, <1>4, <1>7
  <2> QED  BY <1>7, <2>4, <2>5 DEF Calls
<1>9. Len(Results(d)) = n /\ \A i \in 1..n : Results(d)[i] = done(i)
  <2>1. 0 \in 0..Len(d)
    BY <1>1, <1>6
  <2>2. \A i \in 1..0 : d[i].type \notin {"tool_result"}
    OBVIOUS
  <2>3. \A i \in (0 + 1)..Len(d) : d[i].type \in {"tool_result"}
    BY <1>3, <1>6
  <2>4. /\ Len(OfTypes(d, {"tool_result"})) = Len(d) - 0
        /\ \A j \in 1..(Len(d) - 0) : OfTypes(d, {"tool_result"})[j] = d[0 + j]
    BY <1>6, <2>1, <2>2, <2>3, LastBlocks
  <2>5. Len(d) - 0 = n /\ \A j \in 1..n : 0 + j = j
    BY <1>1, <1>6
  <2> QED  BY <1>6, <2>4, <2>5 DEF Results
<1>10. Matched(Calls(c), Results(d))
  BY <1>2, <1>3, <1>8, <1>9 DEF Matched
<1> QED  BY <1>6, <1>7, <1>10, <1>11, <1>12

\* No turns at all.
LEMMA NoTurns == TurnsMatched(<<>>)
BY DEF TurnsMatched

\* The next round, or the end, keeps the turns matched if what it adds does.
LEMMA RoundMatched ==
  ASSUME TurnsMatched(turns), NEW messages, TurnsMatched(turns \o messages), NextRound(messages)
  PROVE  TurnsMatched(turns)'
<1>1. turns' = <<>> \/ turns' = turns \o messages
  BY DEF NextRound, End
<1> QED  BY <1>1, NoTurns

\* Every step keeps the turns matched.
LEMMA TurnsStep == TurnsMatched(turns) /\ [LlmNext]_llmVars => TurnsMatched(turns)'
<1> SUFFICES ASSUME TurnsMatched(turns), [LlmNext]_llmVars PROVE TurnsMatched(turns)'
  OBVIOUS
<1>1. CASE Begin
  <2>1. PICK image \in BOOLEAN :
          turns' = <<[role |-> "user",
                      content |-> <<Block(IF image THEN "image" ELSE "text", None, image)>>]>>
    BY <1>1 DEF Begin
  <2> DEFINE type == IF image THEN "image" ELSE "text"
             c == <<Block(type, None, image)>>
             v == <<[role |-> "user", content |-> c]>>
  <2>2. c \in Seq(Blocks) /\ Len(Results(c)) = 0
    BY OneBlock
  <2> HIDE DEF c
  <2>3. TurnsMatched(<<>> \o v)
    BY <2>2, NoTurns, QuestionFollows
  <2>4. <<>> \o v = v
    <3>1. v \in Seq(Turns)
      BY <2>2 DEF Turns
    <3> QED  BY <3>1, ConcatEmptySeq
  <2> QED  BY <2>1, <2>3, <2>4 DEF c
<1>2. CASE turns' = turns
  BY <1>2
<1>3. CASE turns' = <<>>
  BY <1>3, NoTurns
<1>4. CASE Answered
  <2>1. PICK text \in BOOLEAN, calls \in CallLists, reason \in Reason :
          LET answer == [text |-> text, reason |-> reason,
                         calls |-> IF op.kind = "loop" THEN calls ELSE <<>>]
          IN  RunTools(answer) \/ Repair \/ End
    BY <1>4 DEF Answered
  <2> DEFINE answer == [text |-> text, reason |-> reason,
                        calls |-> IF op.kind = "loop" THEN calls ELSE <<>>]
  <2>2. CASE End
    BY <1>3, <2>2 DEF End
  <2>3. CASE Repair
    <3> DEFINE c == <<Block("text", None, FALSE)>>
               v == <<[role |-> "user", content |-> c]>>
    <3>1. c \in Seq(Blocks) /\ Len(Results(c)) = 0
      BY OneBlock
    <3> HIDE DEF c
    <3>2. TurnsMatched(turns \o v)
      BY <3>1, QuestionFollows
    <3>3. NextRound(v)
      BY <2>3 DEF Repair, c
    <3> HIDE DEF v
    <3> QED  BY <3>2, <3>3, RoundMatched
  <2>4. CASE RunTools(answer)
    <3>1. answer.text \in BOOLEAN /\ answer.calls \in Seq(STRING)
      <4>1. calls \in Seq(STRING)
        BY LlmAssumption
      <4>2. answer.calls = IF op.kind = "loop" THEN calls ELSE <<>>
        OBVIOUS
      <4>3. answer.calls \in Seq(STRING)
        <5>1. <<>> \in Seq(STRING)
          OBVIOUS
        <5> HIDE DEF answer
        <5> QED  BY <4>1, <4>2, <5>1
      <4> QED  BY <4>3
    <3> HIDE DEF answer
    <3>2. PICK images \in [1..Len(answer.calls) -> BOOLEAN] :
            NextRound(<<[role |-> "assistant", content |-> Content(answer)],
                        [role |-> "user",
                         content |-> [i \in 1..Len(answer.calls) |->
                                        Block("tool_result", answer.calls[i], images[i])]]>>)
      BY <2>4 DEF RunTools
    <3> DEFINE c == Content(answer)
               d == [i \in 1..Len(answer.calls) |-> Block("tool_result", answer.calls[i], images[i])]
               v == <<[role |-> "assistant", content |-> c], [role |-> "user", content |-> d]>>
    <3>3. c \in Seq(Blocks) /\ d \in Seq(Blocks) /\ Matched(Calls(c), Results(d))
      BY <3>1, ToolsMatch
    <3>4. NextRound(v)
      BY <3>2
    <3> HIDE DEF c, d
    <3>5. TurnsMatched(turns \o v)
      BY <3>3, ToolsFollow
    <3> HIDE DEF v
    <3> QED  BY <3>4, <3>5, RoundMatched
  <2> QED  BY <2>1, <2>2, <2>3, <2>4
<1>5. CASE CheckCostCap \/ NoAnswer \/ Rejected
  BY <1>2, <1>3, <1>5 DEF CheckCostCap, NoAnswer, Rejected, TryAgain, End
<1> QED  BY <1>1, <1>2, <1>4, <1>5 DEF LlmNext, LlmStep, llmVars

\* The turns of every operation are matched.
THEOREM TurnsInvariance == LlmSpec => []TurnsMatched(turns)
<1>1. LlmInit => TurnsMatched(turns)
  BY NoTurns DEF LlmInit
<1>2. TurnsMatched(turns) /\ [LlmNext]_llmVars => TurnsMatched(turns)'
  BY TurnsStep
<1> QED  BY <1>1, <1>2, PTL DEF LlmSpec

\* Whatever is repaired and however many tools run, what is posted is a conversation OpenAI's
\* format allows: _translate_messages puts the results of a turn right after the calls they
\* answer, before everything else the turn holds.
THEOREM CallsAnswered == LlmSpec => []ToolCallsAnswered
<1>1. TurnsMatched(turns) => ToolCallsAnswered
  BY WireInOrder
<1> QED  BY <1>1, TurnsInvariance, PTL

\* A client without an operation has forgotten the last one.
Forgotten == op.at = "idle" => op.kind = None

\* An operation ends by its reset.
LEMMA ForgottenStep == Forgotten /\ ClientInv /\ [LlmNext]_llmVars => Forgotten'
<1> SUFFICES ASSUME Forgotten, ClientInv, [LlmNext]_llmVars PROVE Forgotten'
  OBVIOUS
<1>1. op \in OpType
  BY DEF ClientInv, Counted
<1>2. CASE End
  BY <1>2 DEF End, IdleOp, Forgotten
<1>3. ASSUME NEW messages, NextRound(messages) PROVE Forgotten'
  <2>1. CASE op' = [op EXCEPT !.at = "check", !.round = @ + 1]
    BY <1>1, <2>1 DEF Forgotten, OpType
  <2> QED  BY <1>2, <1>3, <2>1 DEF NextRound
<1>4. CASE Answered
  <2>1. PICK text \in BOOLEAN, calls \in CallLists, reason \in Reason :
          LET answer == [text |-> text, reason |-> reason,
                         calls |-> IF op.kind = "loop" THEN calls ELSE <<>>]
          IN  RunTools(answer) \/ Repair \/ End
    BY <1>4 DEF Answered
  <2> QED  BY <1>2, <1>3, <2>1 DEF Repair, RunTools
<1>5. CASE op' = [op EXCEPT !.post = @ + 1] \/ op' = [op EXCEPT !.at = "post", !.post = 0]
  BY <1>1, <1>5 DEF Forgotten, OpType
<1>6. CASE Begin
  <2>1. op'.at = "check"
    BY <1>6 DEF Begin, IdleOp
  <2> QED  BY <2>1 DEF Forgotten
<1>7. CASE UNCHANGED llmVars
  BY <1>7 DEF llmVars, Forgotten
<1> QED  BY <1>2, <1>4, <1>5, <1>6, <1>7
         DEF LlmNext, LlmStep, CheckCostCap, NoAnswer, Rejected, TryAgain

\* Every variable of a client keeps its type: no operation outlives its rounds.
THEOREM LlmTypes == LlmSpec => []LlmTypeOK
<1>1. LlmInit => Forgotten
  BY DEF LlmInit, IdleOp, Forgotten
<1>2. LlmSpec => []Forgotten
  BY <1>1, ForgottenStep, ClientInvariance, PTL DEF LlmSpec
<1>3. ClientInv /\ Forgotten /\ TurnsMatched(turns) => LlmTypeOK
  <2> SUFFICES ASSUME ClientInv, Forgotten, TurnsMatched(turns) PROVE LlmTypeOK
    OBVIOUS
  <2>1. /\ spent \in Nat /\ charged \in Nat /\ op \in OpType
        /\ op.kind # None => op.round < Rounds(op.kind)
    BY DEF ClientInv, Counted, Bounded, OpType, Forgotten
  <2>2. \A i \in 1..Len(turns) : turns[i].role \in {"user", "assistant"}
    <3>1. \A i \in 1..Len(turns) : turns[i] \in Turns
      BY DEF TurnsMatched
    <3> QED  BY <3>1 DEF Turns
  <2> QED  BY <2>1, <2>2 DEF LlmTypeOK, OpType
<1> QED  BY <1>2, <1>3, ClientInvariance, TurnsInvariance, PTL

-----------------------------------------------------------------------------
(* The tiers of a url.  Where the acquisition stands says what it has kept *)
(* and whether the browser's loop has begun; what it leaves with is as the *)
(* two properties say.                                                     *)

\* What acquire holds at each of its places.
UrlInv ==
  /\ UrlTypeOK
  /\ stage \in {"idle", "fetch"} => kept = {}
  /\ stage \in {"tier1", "tier2", "tier3", "loop"} => "html" \in kept
  /\ stage \in {"idle", "fetch", "tier1", "tier2", "tier3"} => loop.calls = 0
  /\ kept # {} => "html" \in kept
  /\ FailureKeepsPage /\ SignalEndsLoop

\* The types of what a step may leave with.
LEMMA LeaveType ==
  ASSUME UrlInv, NEW kind \in {"acquired"} \cup Failure, NEW tier \in 0..3,
         NEW artifacts \in SUBSET Artifact, Leave(kind, tier, artifacts)
  PROVE  /\ stage' = "done"
         /\ result' \in [kind : {"acquired"} \cup Failure, tier : 0..3, artifacts : SUBSET Artifact]
         /\ result'.kind = kind /\ result'.artifacts = artifacts
BY DEF Leave

\* Leaving the loop or the tiers in any way but with the error of a failed tier.
LEMMA LeaveKeeps ==
  ASSUME UrlInv, stage # "done", NEW kind \in {"acquired"} \cup Failure, NEW tier \in 0..3,
         NEW artifacts \in SUBSET Artifact, Leave(kind, tier, artifacts),
         kept' \subseteq {"html", "text"}, kept' # {} => "html" \in kept', UNCHANGED hops,
         loop' \in [calls : 0..MaxActions, tools : 0..MaxTools, late : BOOLEAN],
         signal' \in Signal \cup {None},
         signal' # None => kind = IF signal' = "captured" THEN "acquired" ELSE "tier_failed",
         Playwright /\ kind = "tier_failed" /\ kept' # {} =>
           /\ "html" \in artifacts
           /\ loop'.calls > 0 /\ signal' # "moved" => "log" \in artifacts
           /\ signal' = "moved" => artifacts \cap {"log", "screenshot"} = {}
  PROVE  UrlInv'
<1>1. /\ stage' = "done"
      /\ result' \in [kind : {"acquired"} \cup Failure, tier : 0..3, artifacts : SUBSET Artifact]
      /\ result'.kind = kind /\ result'.artifacts = artifacts
  BY LeaveType
<1>2. UrlTypeOK'
  BY <1>1 DEF UrlInv, UrlTypeOK
<1>3. FailureKeepsPage' /\ SignalEndsLoop'
  BY <1>1 DEF FailureKeepsPage, SignalEndsLoop
<1> QED  BY <1>1, <1>2, <1>3 DEF UrlInv

\* A failure of the browser takes along what the tiers before it kept.
LEMMA BrowserKeeps ==
  ASSUME UrlInv, stage \in {"tier3", "loop"}, NEW kind \in {"acquired", "tier_failed"},
         NEW artifacts \in SUBSET {"log", "screenshot"}, Browser3(kind, artifacts),
         UNCHANGED <<hops, kept>>,
         loop' \in [calls : 0..MaxActions, tools : 0..MaxTools, late : BOOLEAN],
         signal' \in Signal \cup {None},
         signal' # None => kind = IF signal' = "captured" THEN "acquired" ELSE "tier_failed",
         kind = "tier_failed" =>
           /\ loop'.calls > 0 /\ signal' # "moved" => "log" \in artifacts
           /\ signal' = "moved" => artifacts = {}
  PROVE  UrlInv'
<1>1. Merged(artifacts) \in SUBSET Artifact /\ "html" \in Merged(artifacts)
  BY DEF Merged, Artifact, UrlInv, UrlTypeOK
<1>2. Leave(kind, 3, Merged(artifacts)) /\ kind \in {"acquired"} \cup Failure
  BY DEF Browser3, Failure
<1>3. /\ "log" \in artifacts => "log" \in Merged(artifacts)
      /\ artifacts = {} => Merged(artifacts) \cap {"log", "screenshot"} = {}
  BY DEF Merged, UrlInv, UrlTypeOK
<1>4. /\ kept' = kept /\ kept \subseteq {"html", "text"} /\ "html" \in kept /\ hops' = hops
      /\ 3 \in 0..3 /\ stage # "done"
  BY DEF UrlInv, UrlTypeOK
<1> DEFINE M == Merged(artifacts)
<1>5. M \in SUBSET Artifact /\ "html" \in M /\ Leave(kind, 3, M)
  BY <1>1, <1>2
<1>6. Playwright /\ kind = "tier_failed" /\ kept' # {} =>
           /\ "html" \in M
           /\ loop'.calls > 0 /\ signal' # "moved" => "log" \in M
           /\ signal' = "moved" => M \cap {"log", "screenshot"} = {}
  BY <1>1, <1>3
<1> HIDE DEF M
<1> QED  BY <1>2, <1>4, <1>5, <1>6, LeaveKeeps

\* The browser's loop stays within its counters.
LEMMA LoopType ==
  ASSUME UrlInv PROVE
    /\ loop \in [calls : 0..MaxActions, tools : 0..MaxTools, late : BOOLEAN]
    /\ stage = "loop" /\ loop.calls # MaxActions =>
         \A n \in 0..MaxTools :
           /\ Used(n) \in [calls : 0..MaxActions, tools : 0..MaxTools, late : BOOLEAN]
           /\ Used(n).calls > 0
    /\ loop.tools > 0 =>
         [loop EXCEPT !.tools = @ - 1] \in [calls : 0..MaxActions, tools : 0..MaxTools, late : BOOLEAN]
    /\ [loop EXCEPT !.late = TRUE] \in [calls : 0..MaxActions, tools : 0..MaxTools, late : BOOLEAN]
<1>1. loop \in [calls : 0..MaxActions, tools : 0..MaxTools, late : BOOLEAN]
  BY DEF UrlInv, UrlTypeOK
<1>2. /\ loop.calls # MaxActions => loop.calls + 1 \in 0..MaxActions /\ loop.calls + 1 > 0
      /\ loop.tools > 0 => loop.tools - 1 \in 0..MaxTools
  BY <1>1, UrlAssumption
<1>3. ASSUME NEW n \in 0..MaxTools, loop.calls # MaxActions
      PROVE  /\ Used(n) \in [calls : 0..MaxActions, tools : 0..MaxTools, late : BOOLEAN]
             /\ Used(n).calls > 0
  BY <1>1, <1>2, <1>3 DEF Used
<1> QED  BY <1>1, <1>2, <1>3

\* Every tier, every tool and every way out.
LEMMA UrlNextInv == UrlInv /\ [UrlNext]_urlVars => UrlInv'
<1> SUFFICES ASSUME UrlInv, [UrlNext]_urlVars PROVE UrlInv'
  OBVIOUS
<1>0. /\ hops \in 0..MaxRedirects /\ kept \subseteq {"html", "text"}
      /\ loop \in [calls : 0..MaxActions, tools : 0..MaxTools, late : BOOLEAN]
      /\ signal \in Signal \cup {None} /\ (signal # None => stage = "done")
      /\ {"tier_failed", "cap", "error", "outage", "crash"} = Failure
      /\ None \notin Signal \/ signal \in Signal \/ signal = None
  BY DEF UrlInv, UrlTypeOK, SignalEndsLoop, Failure
<1>1. CASE UNCHANGED urlVars
  BY <1>1 DEF urlVars, UrlInv, UrlTypeOK, FailureKeepsPage, SignalEndsLoop
\* Steps that go on.
<1>2. ASSUME NEW s \in {"fetch", "tier1", "tier2", "tier3", "loop"}, GoTo(s), UNCHANGED signal,
             stage # "done", hops' \in 0..MaxRedirects, kept' \subseteq {"html", "text"},
             loop' \in [calls : 0..MaxActions, tools : 0..MaxTools, late : BOOLEAN],
             s = "fetch" => kept' = {}, s # "fetch" => "html" \in kept',
             s # "loop" => loop'.calls = 0
      PROVE  UrlInv'
  BY <1>0, <1>2 DEF GoTo, UrlInv, UrlTypeOK, FailureKeepsPage, SignalEndsLoop
<1>3. CASE Acquire
  BY <1>0, <1>2, <1>3 DEF Acquire, UrlInv
<1>4. CASE Redirect
  <2>1. CASE hops < MaxRedirects
    <3>1. hops' \in 0..MaxRedirects
      BY <1>0, <1>4, <2>1, UrlAssumption DEF Redirect
    <3> QED  BY <1>0, <1>2, <1>4, <2>1, <3>1 DEF Redirect, UrlInv
  <2>2. CASE ~(hops < MaxRedirects)
    <3>1. /\ stage = "fetch" /\ Leave("tier_failed", 0, {}) /\ UNCHANGED <<hops, kept, loop, signal>>
          /\ kept = {}
      BY <1>4, <2>2 DEF Redirect, UrlInv
    <3>2. "tier_failed" \in {"acquired"} \cup Failure /\ {} \in SUBSET Artifact /\ 0 \in 0..3
      BY <1>0
    <3> QED  BY <1>0, <3>1, <3>2, LeaveKeeps
  <2> QED  BY <2>1, <2>2
<1>5. CASE Fetch
  <2>0. stage = "fetch" /\ kept = {} /\ UNCHANGED <<hops, loop, signal>> /\ loop.calls = 0
    BY <1>5 DEF Fetch, UrlInv
  <2>1. CASE GoTo("tier1") /\ kept' = {"html"}
    BY <1>0, <1>2, <2>0, <2>1
  <2>2. CASE Leave("tier_failed", 0, {}) /\ UNCHANGED kept
    <3>1. "tier_failed" \in {"acquired"} \cup Failure /\ {} \in SUBSET Artifact /\ 0 \in 0..3
      BY <1>0
    <3> QED  BY <1>0, <2>0, <2>2, <3>1, LeaveKeeps
  <2> QED  BY <1>5, <2>1, <2>2 DEF Fetch
<1>6. CASE Tier1
  <2>0. /\ stage = "tier1" /\ "html" \in kept /\ UNCHANGED <<hops, kept, loop, signal>>
        /\ loop.calls = 0 /\ kept \in SUBSET Artifact
    BY <1>6 DEF Tier1, UrlInv, UrlTypeOK, Artifact
  <2>1. CASE GoTo("tier2")
    BY <1>0, <1>2, <2>0, <2>1
  <2>2. ASSUME NEW kind \in {"acquired", "cap", "outage"}, NEW artifacts \in SUBSET Artifact,
               Leave(kind, 1, artifacts)
        PROVE  UrlInv'
    <3>1. kind \in {"acquired"} \cup Failure /\ 1 \in 0..3
      BY <1>0
    <3> QED  BY <1>0, <2>0, <2>2, <3>1, LeaveKeeps
  <2>3. {} \in SUBSET Artifact
    OBVIOUS
  <2> QED  BY <1>6, <2>0, <2>1, <2>2, <2>3 DEF Tier1, Sinks
<1>7. CASE Tier2
  <2>0. /\ stage = "tier2" /\ "html" \in kept /\ UNCHANGED <<hops, loop, signal>>
        /\ loop.calls = 0 /\ kept \cup {"text"} \in SUBSET Artifact
    BY <1>7 DEF Tier2, UrlInv, UrlTypeOK, Artifact
  <2>1. CASE GoTo("tier3") /\ UNCHANGED kept
    BY <1>0, <1>2, <2>0, <2>1
  <2>2. ASSUME NEW kind \in {"acquired", "tier_failed", "error", "cap", "outage"},
               NEW artifacts \in SUBSET Artifact, Leave(kind, 2, artifacts),
               kind = "tier_failed" => ~Playwright, kept' \in {kept, kept \cup {"text"}}
        PROVE  UrlInv'
    <3>1. kind \in {"acquired"} \cup Failure /\ 2 \in 0..3
      BY <1>0
    <3> QED  BY <1>0, <2>0, <2>2, <3>1, LeaveKeeps
  <2>3. {} \in SUBSET Artifact
    OBVIOUS
  <2> QED  BY <1>7, <2>0, <2>1, <2>2, <2>3 DEF Tier2, Escalate
<1>8. CASE OpenPage
  <2>0. /\ stage = "tier3" /\ "html" \in kept /\ UNCHANGED <<hops, kept, loop, signal>>
        /\ loop.calls = 0 /\ {} \in SUBSET {"log", "screenshot"} /\ signal = None
    BY <1>0, <1>8 DEF OpenPage, UrlInv
  <2>1. CASE GoTo("loop")
    BY <1>0, <1>2, <2>0, <2>1
  <2>2. CASE Browser3("tier_failed", {})
    BY <1>0, <2>0, <2>2, BrowserKeeps
  <2>3. CASE Leave("crash", 3, {})
    <3>1. "crash" \in {"acquired"} \cup Failure /\ 3 \in 0..3 /\ {} \in SUBSET Artifact
      BY <1>0
    <3> QED  BY <1>0, <2>0, <2>3, <3>1, LeaveKeeps
  <2> QED  BY <1>8, <2>1, <2>2, <2>3 DEF OpenPage
\* The end of the loop: the log, and maybe a screenshot.
<1>9. ASSUME stage = "loop", Fail3, UNCHANGED <<hops, kept>>, signal' \in {None, "late"},
             loop' \in [calls : 0..MaxActions, tools : 0..MaxTools, late : BOOLEAN]
      PROVE  UrlInv'
  <2>1. PICK shot \in SUBSET {"screenshot"} : Browser3("tier_failed", {"log"} \cup shot)
    BY <1>9 DEF Fail3
  <2>2. {"log"} \cup shot \in SUBSET {"log", "screenshot"} /\ signal' \in Signal \cup {None}
    BY <1>9 DEF Signal
  <2> DEFINE arts == {"log"} \cup shot
  <2>3. arts \in SUBSET {"log", "screenshot"} /\ "log" \in arts /\ Browser3("tier_failed", arts)
    BY <2>1, <2>2
  <2>4. signal' = "moved" => arts = {}
    BY <1>9, UrlAssumption
  <2>5. signal' # None => "tier_failed" = IF signal' = "captured" THEN "acquired" ELSE "tier_failed"
    BY <1>9
  <2> HIDE DEF arts
  <2> QED  BY <1>9, <2>2, <2>3, <2>4, <2>5, BrowserKeeps
<1>10. CASE AskModel
  <2>0. stage = "loop" /\ "html" \in kept /\ UNCHANGED <<hops, kept, signal>> /\ signal = None
    BY <1>0, <1>10 DEF AskModel, UrlInv
  <2>1. CASE Fail3 /\ UNCHANGED loop
    BY <1>0, <1>9, <2>0, <2>1
  <2>2. ASSUME loop.calls # MaxActions, NEW n \in 1..MaxTools, loop' = Used(n), GoTo("loop")
        PROVE  UrlInv'
    BY <1>0, <1>2, <2>0, <2>2, LoopType, UrlAssumption
  <2>3. CASE loop.calls # MaxActions /\ loop' = Used(0) /\ Fail3
    BY <1>9, <2>0, <2>3, LoopType, UrlAssumption
  <2>4. ASSUME NEW reply \in {"error", "cap", "outage"}, Leave(reply, 3, {}), UNCHANGED loop
        PROVE  UrlInv'
    <3>1. reply \in {"acquired"} \cup Failure /\ 3 \in 0..3 /\ {} \in SUBSET Artifact
      BY <1>0
    <3> QED  BY <1>0, <2>0, <2>4, <3>1, LeaveKeeps
  <2> QED  BY <1>10, <2>1, <2>2, <2>3, <2>4 DEF AskModel
<1>11. CASE RunTool
  <2>0. stage = "loop" /\ "html" \in kept /\ UNCHANGED <<hops, kept>> /\ loop.tools > 0
    BY <1>11 DEF RunTool, UrlInv
  <2>1. ASSUME NEW s \in Signal, signal' = s, Raise(s) PROVE UrlInv'
    <3>0. UNCHANGED loop
      BY <2>1 DEF Raise
    <3>1. CASE s = "captured"
      <4>1. PICK shot \in SUBSET {"screenshot"} : Browser3("acquired", shot)
        BY <2>1, <3>1 DEF Raise
      <4>2. shot \in SUBSET {"log", "screenshot"}
        OBVIOUS
      <4> QED  BY <1>0, <2>0, <2>1, <3>0, <3>1, <4>1, <4>2, BrowserKeeps
    <3>2. CASE s = "late"
      <4>1. Fail3
        BY <2>1, <3>2 DEF Raise
      <4> QED  BY <1>0, <1>9, <2>0, <2>1, <3>0, <3>2, <4>1
    <3>3. CASE s = "moved"
      <4>1. Browser3("tier_failed", {}) /\ {} \in SUBSET {"log", "screenshot"}
        BY <2>1, <3>3 DEF Raise
      <4> QED  BY <1>0, <2>0, <2>1, <3>0, <3>3, <4>1, BrowserKeeps
    <3> QED  BY <3>1, <3>2, <3>3 DEF Signal
  <2>2. CASE ToolDone /\ GoTo("loop") /\ UNCHANGED signal
    BY <1>0, <1>2, <2>0, <2>2, LoopType DEF ToolDone
  <2> QED  BY <1>11, <2>1, <2>2 DEF RunTool, Signal
<1>12. CASE TimeIsUp
  <2>1. /\ stage = "loop" /\ loop' = [loop EXCEPT !.late = TRUE]
        /\ UNCHANGED <<stage, hops, kept, signal, result>>
    BY <1>12 DEF TimeIsUp
  <2> QED  BY <1>0, <2>1, LoopType DEF UrlInv, UrlTypeOK, FailureKeepsPage, SignalEndsLoop
<1> QED
  BY <1>1, <1>3, <1>4, <1>5, <1>6, <1>7, <1>8, <1>10, <1>11, <1>12 DEF UrlNext, UrlStep

\* The invariant of an acquisition, for any artifacts and bounds.
THEOREM UrlInvariance == UrlSpec => []UrlInv
<1>1. UrlInit => UrlInv
  BY UrlAssumption DEF UrlInit, UrlInv, UrlTypeOK, FailureKeepsPage, SignalEndsLoop
<1> QED  BY <1>1, UrlNextInv, PTL DEF UrlSpec

\* With a browser, an acquisition that fails after its fetch leaves with the page it fetched, and
\* with the log of the browser's actions unless the page moved to an unsafe address (_fail).
THEOREM PageKept == UrlSpec => []FailureKeepsPage
BY UrlInvariance, PTL DEF UrlInv

\* A signal raised in a tool ends the browser's loop at once: what was captured is acquired, a
\* spent budget or an unsafe address fails the tier (browse_for_recipe's except clauses).
THEOREM SignalsEnd == UrlSpec => []SignalEndsLoop
BY UrlInvariance, PTL DEF UrlInv

\* The places of an acquisition, in order.
StageNumber(s) == CASE s = "idle" -> 0 [] s = "fetch" -> 1 [] s = "tier1" -> 2 [] s = "tier2" -> 3
              [] s = "tier3" -> 4 [] s = "loop" -> 5 [] s = "done" -> 6

\* An acquisition that takes a step goes on to a later place, follows one more redirect,
\* asks the model once more, has one tool less to run, or runs out of time.
AcquisitionAdvances ==
  \/ StageNumber(stage') > StageNumber(stage)
  \/ /\ stage' = stage
     /\ \/ hops' > hops
        \/ /\ hops' = hops
           /\ \/ loop'.calls > loop.calls
              \/ loop'.calls = loop.calls /\ loop'.tools < loop.tools
              \/ loop' = [loop EXCEPT !.late = TRUE] /\ ~loop.late

\* No acquisition goes in circles, in whatever circles the model and the site lead it: each step
\* brings it nearer to its end, within the bounds on redirects, rounds and tools.
THEOREM AcquisitionsBounded == UrlSpec => [][AcquisitionAdvances /\ UrlTypeOK']_urlVars
<1>1. ASSUME UrlInv, UrlInv', UrlNext PROVE AcquisitionAdvances
  <2>0. /\ loop \in [calls : 0..MaxActions, tools : 0..MaxTools, late : BOOLEAN]
        /\ hops \in Nat /\ stage \in {"idle", "fetch", "tier1", "tier2", "tier3", "loop", "done"}
    BY <1>1 DEF UrlInv, UrlTypeOK
  <2>1. ASSUME stage' = "done", stage # "done" PROVE AcquisitionAdvances
    BY <2>0, <2>1 DEF AcquisitionAdvances, StageNumber
  <2>2. CASE Acquire
    BY <2>2 DEF Acquire, GoTo, AcquisitionAdvances, StageNumber
  <2>3. CASE Redirect
    <3>1. stage = "fetch" /\ ((hops' = hops + 1 /\ stage' = stage) \/ stage' = "done")
      BY <2>3 DEF Redirect, GoTo, Leave
    <3> QED  BY <2>0, <2>1, <3>1 DEF AcquisitionAdvances
  <2>4. CASE Fetch
    <3>1. stage = "fetch" /\ (stage' = "tier1" \/ stage' = "done")
      BY <2>4 DEF Fetch, GoTo, Leave
    <3> QED  BY <2>1, <3>1 DEF AcquisitionAdvances, StageNumber
  <2>5. CASE Tier1
    <3>1. stage = "tier1" /\ (stage' = "tier2" \/ stage' = "done")
      BY <2>5 DEF Tier1, GoTo, Leave
    <3> QED  BY <2>1, <3>1 DEF AcquisitionAdvances, StageNumber
  <2>6. CASE Tier2
    <3>1. stage = "tier2" /\ (stage' = "tier3" \/ stage' = "done")
      BY <2>6 DEF Tier2, Escalate, GoTo, Leave
    <3> QED  BY <2>1, <3>1 DEF AcquisitionAdvances, StageNumber
  <2>7. CASE OpenPage
    <3>1. stage = "tier3" /\ (stage' = "loop" \/ stage' = "done")
      BY <2>7 DEF OpenPage, Browser3, GoTo, Leave
    <3> QED  BY <2>1, <3>1 DEF AcquisitionAdvances, StageNumber
  <2>8. CASE AskModel
    <3>1. stage = "loop" /\ hops' = hops
      BY <2>8 DEF AskModel
    <3>2. \/ stage' = "done"
          \/ \E n \in 1..MaxTools : loop' = Used(n) /\ stage' = stage
      BY <2>8, <3>1 DEF AskModel, Fail3, Browser3, Leave, GoTo
    <3>3. ASSUME NEW n \in 1..MaxTools, loop' = Used(n), stage' = stage PROVE AcquisitionAdvances
      <4>1. loop'.calls > loop.calls
        BY <2>0, <3>3 DEF Used
      <4> QED  BY <3>1, <3>3, <4>1 DEF AcquisitionAdvances
    <3> QED  BY <2>1, <3>1, <3>2, <3>3
  <2>9. CASE RunTool
    <3>1. stage = "loop" /\ hops' = hops
      BY <2>9 DEF RunTool
    <3>2. stage' = "done" \/ (ToolDone /\ stage' = stage)
      <4>1. ASSUME NEW s \in Signal, Raise(s) PROVE stage' = "done"
        <5>1. CASE s = "captured"
          BY <4>1, <5>1 DEF Raise, Browser3, Leave
        <5>2. CASE s = "late"
          BY <4>1, <5>2 DEF Raise, Fail3, Browser3, Leave
        <5>3. CASE s = "moved"
          BY <4>1, <5>3 DEF Raise, Browser3, Leave
        <5> QED  BY <5>1, <5>2, <5>3 DEF Signal
      <4>2. (\E s \in Signal : Raise(s)) \/ (ToolDone /\ GoTo("loop"))
        BY <2>9 DEF RunTool, Signal
      <4> QED  BY <3>1, <4>1, <4>2 DEF GoTo
    <3>3. ASSUME ToolDone, stage' = stage PROVE AcquisitionAdvances
      <4>1. loop'.calls = loop.calls /\ loop'.tools < loop.tools
        BY <2>0, <3>3 DEF ToolDone
      <4> QED  BY <3>1, <3>3, <4>1 DEF AcquisitionAdvances
    <3> QED  BY <2>1, <3>1, <3>2, <3>3
  <2>10. CASE TimeIsUp
    BY <2>10 DEF TimeIsUp, AcquisitionAdvances
  <2> QED
    BY <1>1, <2>2, <2>3, <2>4, <2>5, <2>6, <2>7, <2>8, <2>9, <2>10 DEF UrlNext, UrlStep
<1>2. UrlInv /\ UrlInv' /\ [UrlNext]_urlVars => [AcquisitionAdvances /\ UrlTypeOK']_urlVars
  BY <1>1 DEF UrlInv
<1> QED  BY <1>2, UrlInvariance, PTL DEF UrlSpec

-----------------------------------------------------------------------------
(* The rate limiter.  The deque holds the stamps of the last calls that    *)
(* passed, each at most MaxStall old when its call did; all that left it   *)
(* had expired.                                                            *)

\* The stamps popped are the first k, and the next has not expired.
LEMMA PopsExpired ==
  ASSUME events \in Seq(Nat), NEW now \in Nat
  PROVE  \E k \in 0..Len(events) :
           /\ Recent(now) = SubSeq(events, k + 1, Len(events))
           /\ \A i \in 1..k : Expired(events[i], now)
           /\ k < Len(events) => ~Expired(events[k + 1], now)
<1> DEFINE popped == {i \in DOMAIN events : \A j \in 1..i : Expired(events[j], now)}
           rest == (1..Len(events)) \ popped
<1>1. DOMAIN events = 1..Len(events) /\ Len(events) \in Nat
  OBVIOUS
<1>2. Recent(now) = SubSeq(events, Cardinality(popped) + 1, Len(events))
  BY DEF Recent
<1>3. popped \subseteq 1..Len(events) /\ \A i \in popped : \A j \in 1..i : Expired(events[j], now)
  BY <1>1
<1>4. \A i \in 1..Len(events) : (\A j \in 1..i : Expired(events[j], now)) => i \in popped
  BY <1>1
<1>5. rest \subseteq Nat /\ rest = (1..Len(events)) \ popped
  BY <1>1
<1> HIDE DEF popped, rest
<1>6. CASE rest = {}
  <2>1. popped = 1..Len(events)
    BY <1>3, <1>5, <1>6
  <2> DEFINE n == Len(events)
  <2>2. Cardinality(popped) = n
    <3>1. n \in Nat /\ popped = 1..n
      BY <1>1, <2>1
    <3> HIDE DEF n
    <3>2. Cardinality(1..n) = n
      BY <3>1, FS_Interval
    <3> QED  BY <3>1, <3>2
  <2>3. \A i \in 1..Len(events) : Expired(events[i], now)
    BY <1>1, <1>3, <2>1
  <2> WITNESS Len(events) \in 0..Len(events)
  <2> QED  BY <1>1, <1>2, <2>2, <2>3
<1>7. CASE rest # {}
  <2>1. PICK n \in rest : \A m \in rest : n <= m
    BY <1>5, <1>7, LeastNumber
  <2>2. n \in 1..Len(events) /\ n \notin popped
    BY <1>5, <2>1
  <2>3. \A i \in 1..(n - 1) : i \in popped
    BY <1>1, <1>5, <2>1, <2>2
  <2>4. \A i \in 1..(n - 1) : Expired(events[i], now)
    <3> TAKE i \in 1..(n - 1)
    <3>1. i \in popped /\ i \in 1..i
      BY <2>2, <2>3
    <3> QED  BY <1>3, <3>1
  <2>5. ~Expired(events[n], now)
    <3>1. PICK j \in 1..n : ~Expired(events[j], now)
      BY <1>4, <2>2
    <3>2. j \in 1..(n - 1) \/ j = n
      BY <2>2
    <3> QED  BY <2>4, <3>1, <3>2
  <2>6. popped = 1..(n - 1)
    <3>1. ASSUME NEW i \in popped PROVE i \in 1..(n - 1)
      <4>1. i \in 1..Len(events) /\ n \notin 1..i
        BY <1>3, <2>5
      <4> QED  BY <1>1, <2>2, <4>1
    <3> QED  BY <2>3, <3>1
  <2>7. Cardinality(popped) = n - 1
    BY <2>2, <2>6, FS_Interval
  <2> DEFINE k == n - 1
  <2>8. k + 1 = n /\ k \in 0..Len(events) /\ k = Cardinality(popped) /\ \A i \in 1..k : Expired(events[i], now)
    BY <1>1, <2>2, <2>4, <2>7
  <2> HIDE DEF k
  <2> QED  BY <1>2, <2>5, <2>8
<1> QED  BY <1>6, <1>7

Behind == Len(passed) - Len(events)   \* calls whose stamps have left the deque

\* The deque against the log of the calls that passed.
LimiterInv ==
  /\ LimiterTypeOK
  /\ \A c \in Call : stamp[c] # None => stamp[c] <= clock /\ clock <= stamp[c] + MaxStall
  /\ Len(events) <= Len(passed)
  /\ \A i \in 1..Len(events) :
       events[i] <= passed[Behind + i] /\ passed[Behind + i] <= events[i] + MaxStall
  /\ \A i \in 1..Behind : passed[i] + Window <= clock + MaxStall

\* What a call that takes the lock finds: k stamps expire.
Finds(now, k) ==
  /\ k \in 0..Len(events)
  /\ Recent(now) = SubSeq(events, k + 1, Len(events))
  /\ Recent(now) \in Seq(0..Horizon) /\ Len(Recent(now)) = Len(events) - k
  /\ \A i \in 1..(Len(events) - k) : Recent(now)[i] = events[k + i]
  /\ \A i \in 1..(Behind + k) : passed[i] + Window <= clock + MaxStall
  /\ k < Len(events) => events[k + 1] + Window > now

\* The stamps a call drops are those of calls too old to count.
LEMMA Finding ==
  ASSUME LimiterInv, NEW c \in Call, stamp[c] # None
  PROVE  stamp[c] \in Nat /\ \E k \in Nat : Finds(stamp[c], k)
<1>0. /\ stamp[c] \in Nat /\ stamp[c] <= clock /\ events \in Seq(0..Horizon) /\ clock \in Nat
      /\ events \in Seq(Nat) /\ Len(events) \in Nat /\ passed \in Seq(0..Horizon)
      /\ Len(passed) \in Nat /\ Len(events) <= Len(passed) /\ Horizon \in Nat
  BY LimiterAssumption DEF LimiterInv, LimiterTypeOK
<1>1. PICK k \in 0..Len(events) :
        /\ Recent(stamp[c]) = SubSeq(events, k + 1, Len(events))
        /\ \A i \in 1..k : Expired(events[i], stamp[c])
        /\ k < Len(events) => ~Expired(events[k + 1], stamp[c])
  BY <1>0, PopsExpired
<1>2. /\ SubSeq(events, k + 1, Len(events)) \in Seq(0..Horizon)
      /\ Len(SubSeq(events, k + 1, Len(events))) = Len(events) - k
      /\ \A i \in 1..(Len(events) - k) : SubSeq(events, k + 1, Len(events))[i] = events[k + i]
  <2> DEFINE n == Len(events)
             rest == SubSeq(events, k + 1, n)
  <2>1. n \in Int /\ k \in 0..n /\ k + 1 \in Int /\ \A i \in (k + 1)..n : i \in 1..n
    BY <1>0
  <2>5. \A i \in (k + 1)..n : events[i] \in 0..Horizon
    BY <1>0, <2>1, ElementOfSeq
  <2>2. /\ rest \in Seq(0..Horizon) /\ Len(rest) = (IF k + 1 <= n THEN n - (k + 1) + 1 ELSE 0)
        /\ \A i \in 1..(n - (k + 1) + 1) : rest[i] = events[k + 1 + i - 1]
    BY <2>1, <2>5, SubSeqProperties
  <2> HIDE DEF rest, n
  <2>3. Len(rest) = n - k /\ n - (k + 1) + 1 = n - k /\ \A i \in Nat : k + 1 + i - 1 = k + i
    BY <2>1, <2>2
  <2>4. \A i \in 1..(n - k) : rest[i] = events[k + i]
    BY <2>1, <2>2, <2>3
  <2> QED  BY <2>2, <2>3, <2>4 DEF rest, n
<1>3. ASSUME NEW i \in 1..(Behind + k) PROVE passed[i] + Window <= clock + MaxStall
  <2>1. CASE i <= Behind
    BY <1>0, <2>1 DEF LimiterInv, Behind
  <2>2. CASE i > Behind
    <3>1. i - Behind \in 1..k /\ Behind + (i - Behind) = i /\ i \in Nat
      BY <1>0, <2>2 DEF Behind
    <3>2. i - Behind \in 1..Len(events) /\ i \in 1..Len(passed)
      BY <1>0, <3>1 DEF Behind
    <3>3. events[i - Behind] \in Nat /\ passed[i] \in Nat
      <4> DEFINE at == i - Behind
      <4>1. passed[i] \in 0..Horizon
        BY <1>0, <3>2, ElementOfSeq
      <4>2. at \in 1..Len(events)
        BY <3>2
      <4> HIDE DEF at
      <4>3. events[at] \in 0..Horizon
        BY <1>0, <4>2, ElementOfSeq
      <4> QED  BY <1>0, <4>1, <4>3 DEF at
    <3>4. events[i - Behind] + Window <= stamp[c]
      BY <1>1, <3>1 DEF Expired
    <3>5. passed[i] <= events[i - Behind] + MaxStall
      BY <3>1, <3>2 DEF LimiterInv
    <3> DEFINE e == events[i - Behind]
               p == passed[i]
               s == stamp[c]
    <3>6. e \in Nat /\ p \in Nat /\ s \in Nat /\ e + Window <= s /\ p <= e + MaxStall /\ s <= clock
      BY <1>0, <3>3, <3>4, <3>5
    <3> HIDE DEF e, p, s
    <3>7. p + Window <= clock + MaxStall
      BY <1>0, <3>6, LimiterAssumption
    <3> QED  BY <3>7 DEF p
  <2> QED  BY <1>0, <2>1, <2>2 DEF Behind
<1>4. k < Len(events) => events[k + 1] + Window > stamp[c]
  <2> HAVE k < Len(events)
  <2>1. k + 1 \in 1..Len(events)
    BY <1>0
  <2>2. events[k + 1] \in Nat
    BY <1>0, <2>1
  <2> DEFINE e == events[k + 1]
             s == stamp[c]
  <2>3. e \in Nat /\ s \in Nat /\ ~(e + Window <= s)
    BY <1>0, <1>1, <2>2 DEF Expired
  <2> HIDE DEF e, s
  <2>4. e + Window > s
    BY <2>3, LimiterAssumption
  <2> QED  BY <2>4 DEF e, s
<1>5. Finds(stamp[c], k)
  BY <1>1, <1>2, <1>3, <1>4 DEF Finds
<1> QED  BY <1>0, <1>5

\* Every thread's step keeps the deque and the log together.
LEMMA LimiterNextInv == LimiterInv /\ [LimiterNext]_limiterVars => LimiterInv'
<1> SUFFICES ASSUME LimiterInv, [LimiterNext]_limiterVars PROVE LimiterInv'
  OBVIOUS
<1>0. /\ clock \in 0..Horizon /\ stamp \in [Call -> 0..Horizon \cup {None}]
      /\ events \in Seq(0..Horizon) /\ Len(events) <= MaxEvents /\ passed \in Seq(0..Horizon)
      /\ Len(events) \in Nat /\ Len(passed) \in Nat /\ Len(events) <= Len(passed) /\ Behind \in Nat
      /\ Horizon \in Nat /\ MaxStall \in Nat /\ Window \in Nat /\ MaxEvents \in Nat
      /\ None \notin Nat
  BY LimiterAssumption DEF LimiterInv, LimiterTypeOK, Behind
<1>1. CASE UNCHANGED limiterVars
  BY <1>1 DEF limiterVars, LimiterInv, LimiterTypeOK, Behind
<1>2. CASE Tick
  <2>1. clock' = clock + 1 /\ clock' \in 0..Horizon /\ UNCHANGED <<stamp, events, passed>>
    BY <1>0, <1>2 DEF Tick
  <2>2. ASSUME NEW c \in Call, stamp[c] # None
        PROVE  stamp[c] <= clock' /\ clock' <= stamp[c] + MaxStall
    BY <1>0, <1>2, <2>1, <2>2 DEF Tick, LimiterInv
  <2>3. ASSUME NEW i \in 1..Behind PROVE passed[i] + Window <= clock' + MaxStall
    <3>1. passed[i] \in Nat /\ passed[i] + Window <= clock + MaxStall
      BY <1>0 DEF LimiterInv, Behind
    <3> QED  BY <1>0, <2>1, <3>1
  <2> QED  BY <1>0, <2>1, <2>2, <2>3 DEF LimiterInv, LimiterTypeOK, Behind
<1>3. ASSUME NEW c \in Call, ReadClock(c) PROVE LimiterInv'
  <2>1. stamp' = [stamp EXCEPT ![c] = clock] /\ UNCHANGED <<clock, events, passed>>
    BY <1>3 DEF ReadClock
  <2>2. stamp' \in [Call -> 0..Horizon \cup {None}]
    BY <1>0, <2>1
  <2>3. \A d \in Call : stamp'[d] # None => stamp'[d] <= clock /\ clock <= stamp'[d] + MaxStall
    BY <1>0, <2>1 DEF LimiterInv
  <2> QED  BY <1>0, <2>1, <2>2, <2>3 DEF LimiterInv, LimiterTypeOK, Behind
<1>4. ASSUME NEW c \in Call, Check(c) PROVE LimiterInv'
  <2>1. stamp[c] # None /\ stamp' = [stamp EXCEPT ![c] = None] /\ UNCHANGED clock
    BY <1>4 DEF Check
  <2>2. /\ stamp' \in [Call -> 0..Horizon \cup {None}]
        /\ \A d \in Call : stamp'[d] # None => stamp'[d] <= clock' /\ clock' <= stamp'[d] + MaxStall
    BY <1>0, <2>1 DEF LimiterInv
  <2>3. PICK k \in Nat : Finds(stamp[c], k)
    BY <2>1, Finding
  <2> DEFINE recent == Recent(stamp[c])
             n == Len(events)
             m == Len(passed)
             b == Behind
  <2>4. stamp[c] \in 0..Horizon /\ stamp[c] <= clock /\ clock <= stamp[c] + MaxStall
    BY <1>0, <2>1 DEF LimiterInv
  <2>5. /\ n \in Nat /\ m \in Nat /\ b = m - n /\ b \in Nat /\ k \in 0..n /\ n <= MaxEvents
        /\ MaxEvents \in Nat
    BY <1>0, <2>3 DEF Finds, Behind
  <2>6. /\ recent \in Seq(0..Horizon) /\ Len(recent) = n - k
        /\ \A i \in 1..(b + k) : passed[i] + Window <= clock + MaxStall
    BY <2>3 DEF Finds
  <2>7. ASSUME NEW i \in 1..(n - k)
        PROVE  recent[i] <= passed[b + k + i] /\ passed[b + k + i] <= recent[i] + MaxStall
    <3>1. k + i \in 1..n /\ b + (k + i) = b + k + i
      BY <2>5
    <3>2. recent[i] = events[k + i]
      BY <2>3 DEF Finds
    <3> QED  BY <3>1, <3>2 DEF LimiterInv
  <2> HIDE DEF recent, n, m, b
  <2>8. CASE events' = recent /\ passed' = passed
    <3>1. Len(events') = n - k /\ Len(passed') = m
      BY <2>6, <2>8 DEF m
    <3>2. Behind' = b + k /\ Len(events') <= MaxEvents /\ Len(events') <= Len(passed')
      BY <2>5, <3>1 DEF Behind
    <3>3. LimiterTypeOK'
      BY <1>0, <2>1, <2>2, <2>6, <2>8, <3>2 DEF LimiterTypeOK
    <3>4. \A i \in 1..Len(events') :
            events'[i] <= passed'[Behind' + i] /\ passed'[Behind' + i] <= events'[i] + MaxStall
      BY <2>7, <2>8, <3>1, <3>2
    <3>5. \A i \in 1..Behind' : passed'[i] + Window <= clock' + MaxStall
      BY <2>1, <2>6, <2>8, <3>2
    <3> QED  BY <2>2, <3>2, <3>3, <3>4, <3>5 DEF LimiterInv
  <2>9. CASE /\ Len(recent) < MaxEvents
             /\ events' = Append(recent, stamp[c]) /\ passed' = Append(passed, clock)
    <3>1. /\ events' \in Seq(0..Horizon) /\ Len(events') = n - k + 1
          /\ \A i \in 1..(n - k) : events'[i] = recent[i]
          /\ events'[n - k + 1] = stamp[c]
      BY <2>4, <2>6, <2>9, AppendProperties
    <3>2. /\ passed' \in Seq(0..Horizon) /\ Len(passed') = m + 1
          /\ \A i \in 1..m : passed'[i] = passed[i]
          /\ passed'[m + 1] = clock
      BY <1>0, <2>9, AppendProperties DEF m
    <3>3. /\ Behind' = b + k /\ Len(events') <= MaxEvents /\ Len(events') <= Len(passed')
          /\ b + k + (n - k + 1) = m + 1
      <4>1. Behind' = (m + 1) - (n - k + 1)
        BY <3>1, <3>2 DEF Behind
      <4>2. Len(recent) = n - k /\ Len(recent) < MaxEvents
        BY <2>6, <2>9
      <4> HIDE DEF recent
      <4>3. b + k + (n - k + 1) = m + 1 /\ (m + 1) - (n - k + 1) = b + k /\ n - k + 1 <= m + 1
        BY <2>5
      <4>4. n - k + 1 <= MaxEvents
        BY <1>0, <2>5, <4>2
      <4> QED  BY <3>1, <3>2, <4>1, <4>3, <4>4
    <3>4. LimiterTypeOK'
      BY <1>0, <2>1, <2>2, <3>1, <3>2, <3>3 DEF LimiterTypeOK
    <3>5. ASSUME NEW i \in 1..Len(events')
          PROVE  events'[i] <= passed'[Behind' + i] /\ passed'[Behind' + i] <= events'[i] + MaxStall
      <4>1. CASE i \in 1..(n - k)
        <5>1. b + k + i \in 1..m
          BY <2>5, <4>1
        <5>2. events'[i] = recent[i] /\ passed'[Behind' + i] = passed[b + k + i]
          BY <3>1, <3>2, <3>3, <4>1, <5>1
        <5> QED  BY <2>7, <4>1, <5>2
      <4>2. CASE i = n - k + 1
        <5>1. events'[i] = stamp[c] /\ passed'[Behind' + i] = clock
          BY <3>1, <3>2, <3>3, <4>2
        <5> QED  BY <2>4, <5>1
      <4> QED  BY <2>5, <3>1, <4>1, <4>2
    <3>6. ASSUME NEW i \in 1..Behind' PROVE passed'[i] + Window <= clock' + MaxStall
      <4>1. i \in 1..(b + k) /\ i \in 1..m
        BY <2>5, <3>3
      <4> QED  BY <2>1, <2>6, <3>2, <4>1
    <3> QED  BY <2>2, <3>3, <3>4, <3>5, <3>6 DEF LimiterInv
  <2> QED  BY <1>4, <2>5, <2>6, <2>8, <2>9 DEF Check, recent
<1> QED
  BY <1>1, <1>2, <1>3, <1>4 DEF LimiterNext

\* A call that passes finds an expired stamp in the place of the first of the last MaxEvents
\* calls; one that is refused finds them all, and the first not expired.
LEMMA LimiterStep ==
  ASSUME LimiterInv, LimiterNext, NEW c \in Call, stamp[c] # None, stamp'[c] = None
  PROVE  LET full == Len(passed) >= MaxEvents
             first == passed[Len(passed) - MaxEvents + 1]
         IN  IF passed' # passed
             THEN full => clock + MaxStall >= first + Window
             ELSE full /\ clock < first + Window + MaxStall
<1>0. /\ clock \in 0..Horizon /\ stamp \in [Call -> 0..Horizon \cup {None}]
      /\ events \in Seq(0..Horizon) /\ Len(events) <= MaxEvents /\ passed \in Seq(0..Horizon)
      /\ Len(events) \in Nat /\ Len(passed) \in Nat /\ Len(events) <= Len(passed) /\ Behind \in Nat
      /\ Horizon \in Nat /\ MaxStall \in Nat /\ Window \in Nat /\ MaxEvents \in Nat \ {0}
      /\ None \notin Nat /\ stamp[c] \in Nat /\ clock <= stamp[c] + MaxStall
  BY LimiterAssumption DEF LimiterInv, LimiterTypeOK, Behind
<1>1. Check(c)
  BY <1>0 DEF LimiterNext, Tick, ReadClock, Check
<1>2. PICK k \in Nat : Finds(stamp[c], k)
  BY Finding
<1> DEFINE f == Len(passed) - MaxEvents + 1
           n == Len(events)
           m == Len(passed)
           s == stamp[c]
<1>3. /\ n \in Nat /\ m \in Nat /\ n <= m /\ n <= MaxEvents /\ MaxEvents \in Nat \ {0} /\ k \in 0..n
      /\ Behind = m - n /\ f = m - MaxEvents + 1 /\ Len(Recent(s)) = n - k
  BY <1>0, <1>2 DEF Finds, Behind
<1>4. clock \in Nat /\ s \in Nat /\ clock <= s + MaxStall /\ MaxStall \in Nat /\ Window \in Nat
  BY <1>0
<1>5. passed \in Seq(0..Horizon) /\ events \in Seq(0..Horizon) /\ Horizon \in Nat
  BY <1>0
<1> HIDE DEF n, m, s, f
<1>6. CASE Len(Recent(s)) >= MaxEvents
  <2>1. k = 0 /\ n = MaxEvents /\ f = Behind + 1 /\ m >= MaxEvents /\ f \in 1..m /\ 1 \in 1..n
    BY <1>3, <1>6
  <2>2. passed' = passed
    BY <1>1, <1>6 DEF Check, s
  <2> DEFINE p == passed[f]
             e == events[1]
  <2>3. e \in Nat /\ p \in Nat
    BY <1>5, <2>1, ElementOfSeq DEF n, m
  <2>4. e <= p /\ e + Window > s
    <3>1. e <= p
      BY <2>1 DEF LimiterInv, n
    <3>2. e + Window > s
      BY <1>2, <1>3, <2>1 DEF Finds, s, n
    <3> QED  BY <3>1, <3>2
  <2> HIDE DEF p, e
  <2>5. clock < p + Window + MaxStall
    BY <1>4, <2>3, <2>4
  <2> QED  BY <2>1, <2>2, <2>5 DEF p, f, m
<1>7. CASE ~(Len(Recent(s)) >= MaxEvents)
  <2>1. passed' = Append(passed, clock)
    BY <1>1, <1>7 DEF Check, s
  <2>2. passed' # passed
    <3>1. Len(passed') = m + 1
      BY <1>0, <2>1, AppendProperties DEF m
    <3> QED  BY <1>3, <3>1 DEF m
  <2>3. ASSUME m >= MaxEvents PROVE clock + MaxStall >= passed[f] + Window
    <3>1. f \in 1..(Behind + k) /\ f \in 1..m
      BY <1>3, <1>7, <2>3
    <3> DEFINE p == passed[f]
    <3>2. p + Window <= clock + MaxStall /\ p \in Nat
      <4>1. p + Window <= clock + MaxStall
        BY <1>2, <3>1 DEF Finds
      <4>2. p \in 0..Horizon
        BY <1>5, <3>1, ElementOfSeq DEF m
      <4> HIDE DEF p
      <4> QED  BY <1>5, <4>1, <4>2
    <3> HIDE DEF p
    <3>3. clock + MaxStall >= p + Window
      BY <1>4, <3>2
    <3> QED  BY <3>3 DEF p
  <2> QED  BY <2>2, <2>3 DEF f, m
<1> QED  BY <1>6, <1>7

\* The deque holds the last calls that passed, whatever order the threads take the lock in.
THEOREM LimiterInvariance == LimiterSpec => []LimiterInv
<1>1. LimiterInit => LimiterInv
  BY LimiterAssumption DEF LimiterInit, LimiterInv, LimiterTypeOK, Behind
<1> QED  BY <1>1, LimiterNextInv, PTL DEF LimiterSpec

\* The limit holds for any number of threads, whatever order they take the lock in.
THEOREM LimitKept == LimiterSpec => LimitHolds
<1>1. ASSUME LimiterInv, [LimiterNext]_limiterVars
      PROVE  [\A c \in Call : stamp[c] # None /\ stamp'[c] = None =>
                LET full == Len(passed) >= MaxEvents
                    first == passed[Len(passed) - MaxEvents + 1]
                IN  IF passed' # passed
                    THEN full => clock + MaxStall >= first + Window
                    ELSE full /\ clock < first + Window + MaxStall]_limiterVars
  BY <1>1, LimiterStep
<1> QED  BY <1>1, LimiterInvariance, PTL DEF LimiterSpec, LimitHolds

-----------------------------------------------------------------------------
(* The assistant's conversations.  What a turn has appended is said by its *)
(* place in the code; at most one turn holds a conversation's lock; and    *)
(* the turn that holds it after its second append fits under the cap with  *)
(* everything committed.                                                   *)

\* The rows of a turn, and the places of its code at which it has them and holds the lock.
Question(t) == [turn |-> t, talk |-> turn[t].talk, at |-> 1, role |-> "user"]
Reply(t) == [turn |-> t, talk |-> turn[t].talk, at |-> 2, role |-> "assistant"]
Open(t) == turn[t].talk # None /\ talk[turn[t].talk] # None
HoldsLock == {"asked", "complete"}
Writing == {"waiting"} \cup HoldsLock

\* What a turn has in the log, by its place in the code.
Exchange(t) ==
  IF turn[t].phase \in {"waiting", "asked"} THEN {Question(t)}
  ELSE IF turn[t].phase = "complete" \/ (turn[t].phase = "done" /\ Open(t))
       THEN {Question(t), Reply(t)} ELSE {}

\* What everybody sees of a conversation.
Shown(c) == {m \in log : m.talk = c /\ Committed(m.turn)}

\* A conversation never holds more than MaxMessages, however many turns overlap: they all
\* count before they wait for the model, and only the second append counts under the lock.
\* (ImplementsConversations says it of each step; here it is an invariant.)
WithinCap == \A c \in Talk : Cardinality(Shown(c)) <= MaxMessages

\* The parts of the invariant: a turn's own rows; the conversation it writes to is there; one
\* holder of the lock of a conversation; a conversation its turn has not committed is its own;
\* and the cap, which the holder's second row may not pass either.
Exchanges == \A t \in Turn : Own(t) = Exchange(t)
Opened == \A t \in Turn :
  /\ turn[t].phase \in Writing => Open(t)
  /\ turn[t].phase # "new" /\ turn[t].feature = "transform" =>
       turn[t].talk = None /\ turn[t].topic # None
OneHolder == \A t, u \in Turn :
  turn[t].phase \in HoldsLock /\ turn[u].phase \in HoldsLock /\ turn[t].talk = turn[u].talk => t = u
Private == \A c \in Talk, t \in Turn :
  talk[c] # None /\ talk[c].by = t =>
    /\ turn[t].talk = c /\ turn[t].phase \in {"answered"} \cup Writing
    /\ \A u \in Turn : turn[u].talk = c => u = t
Fits ==
  /\ WithinCap
  /\ \A t \in Turn : turn[t].phase = "complete" =>
       Cardinality(Messages(t, turn[t].talk)) <= MaxMessages

AssistantInv ==
  /\ AssistantTypeOK /\ IsFiniteSet(log)
  /\ Exchanges /\ Opened /\ OneHolder /\ Private /\ Fits

\* The types of the parts.
LEMMA Parts ==
  ASSUME AssistantInv
  PROVE  /\ \A t \in Turn :
              /\ turn[t].phase \in Phase /\ turn[t].feature \in Feature \cup {None}
              /\ turn[t].talk \in Talk \cup {None} /\ turn[t].topic \in Topic \cup {None}
              /\ turn[t] \in [phase : Phase, feature : Feature \cup {None}, talk : Talk \cup {None},
                              topic : Topic \cup {None}]
         /\ \A c \in Talk : talk[c] # None =>
              /\ talk[c] \in Conversation
              /\ talk[c].topic \in Topic \cup {None} /\ talk[c].by \in Turn \cup {None}
         /\ \A m \in log : m \in Message /\ m.turn \in Turn /\ m.talk \in Talk
         /\ MaxMessages \in Nat /\ None \notin Turn /\ None \notin Talk /\ None \notin Topic
BY AssistantAssumption DEF AssistantInv, AssistantTypeOK, Conversation, Message

\* A message says where its turn is.
LEMMA MessagePlace ==
  ASSUME AssistantInv, NEW m \in log
  PROVE  /\ m.turn \in Turn /\ m.talk \in Talk /\ m.talk = turn[m.turn].talk
         /\ talk[m.talk] # None
         /\ turn[m.turn].phase \in Writing \cup {"done"}
<1>1. m.turn \in Turn /\ m.talk \in Talk /\ m \in Own(m.turn)
  BY Parts DEF Own
<1>2. m \in Exchange(m.turn)
  BY <1>1 DEF AssistantInv, Exchanges
<1>3. talk[m.talk] # None
  BY DEF AssistantInv, AssistantTypeOK
<1> QED  BY <1>1, <1>2, <1>3 DEF Exchange, Question, Reply, Writing, HoldsLock

\* What only shrinks still fits.
LEMMA FitsShrinks ==
  ASSUME AssistantInv,
         \A c \in Talk : Shown(c)' \subseteq Shown(c),
         \A t \in Turn : turn'[t].phase = "complete" =>
           /\ turn[t].phase = "complete"
           /\ Messages(t, turn[t].talk)' \subseteq Messages(t, turn[t].talk)
           /\ turn'[t].talk = turn[t].talk
  PROVE  Fits'
<1>1. IsFiniteSet(log) /\ MaxMessages \in Nat
  BY Parts DEF AssistantInv
<1>2. ASSUME NEW c \in Talk PROVE Cardinality(Shown(c)') <= MaxMessages
  <2>1. IsFiniteSet(Shown(c)) /\ Cardinality(Shown(c)) <= MaxMessages
    BY <1>1, FS_Subset DEF Shown, AssistantInv, Fits, WithinCap
  <2>2. Shown(c)' \subseteq Shown(c)
    OBVIOUS
  <2> QED  BY <1>1, <2>1, <2>2, FS_Subset, FS_CardinalityType
<1>3. ASSUME NEW t \in Turn, turn'[t].phase = "complete"
      PROVE  Cardinality(Messages(t, turn[t].talk)') <= MaxMessages /\ turn'[t].talk = turn[t].talk
  <2>1. /\ IsFiniteSet(Messages(t, turn[t].talk))
        /\ Cardinality(Messages(t, turn[t].talk)) <= MaxMessages
    BY <1>1, <1>3, FS_Subset DEF Messages, AssistantInv, Fits
  <2>2. Messages(t, turn[t].talk)' \subseteq Messages(t, turn[t].talk)
    BY <1>3
  <2> QED  BY <1>1, <1>3, <2>1, <2>2, FS_Subset, FS_CardinalityType
<1>4. WithinCap'
  BY <1>2 DEF WithinCap, Shown
<1> QED  BY <1>3, <1>4 DEF Fits

\* A turn that only moves on, before its messages are all there.
LEMMA MovesOn ==
  ASSUME AssistantInv, NEW t \in Turn, NEW p \in {"answered", "failed", "asked"},
         turn[t].phase = IF p = "asked" THEN "waiting" ELSE "asking",
         p = "asked" => ~Locked(turn[t].talk),
         turn' = [turn EXCEPT ![t].phase = p], UNCHANGED <<topic, talk, log, draft>>
  PROVE  AssistantInv'
<1>1. /\ \A u \in Turn : u # t => turn'[u] = turn[u]
      /\ turn'[t].phase = p /\ turn'[t].feature = turn[t].feature
      /\ turn'[t].talk = turn[t].talk /\ turn'[t].topic = turn[t].topic
      /\ turn' \in [Turn -> [phase : Phase, feature : Feature \cup {None}, talk : Talk \cup {None},
                        topic : Topic \cup {None}]]
  BY DEF AssistantInv, AssistantTypeOK, Phase
<1>2. AssistantTypeOK' /\ IsFiniteSet(log')
  BY <1>1 DEF AssistantInv, AssistantTypeOK, Conversation, Message
<1>3. \A u \in Turn : turn'[u].talk = turn[u].talk /\ (Committed(u)' <=> Committed(u))
  BY <1>1 DEF Committed
<1>4. Exchanges'
  BY <1>1 DEF AssistantInv, Exchanges, Exchange, Question, Reply, Open, Own
<1>5. Opened' /\ Private'
  BY <1>1 DEF AssistantInv, Opened, Private, Writing, HoldsLock, Open
<1>6. OneHolder'
  BY <1>1 DEF AssistantInv, OneHolder, HoldsLock, Locked
<1>7. Fits'
  <2>1. \A c \in Talk : Shown(c)' \subseteq Shown(c)
    BY <1>3, Parts DEF Shown
  <2>2. \A u \in Turn : turn'[u].phase = "complete" =>
           /\ turn[u].phase = "complete"
           /\ Messages(u, turn[u].talk)' \subseteq Messages(u, turn[u].talk)
           /\ turn'[u].talk = turn[u].talk
    BY <1>1, <1>3, Parts DEF Messages
  <2> QED  BY <2>1, <2>2, FitsShrinks
<1> QED  BY <1>2, <1>4, <1>5, <1>6, <1>7 DEF AssistantInv

\* A turn starts, in a conversation of its user or in none.
LEMMA StartKeeps ==
  ASSUME AssistantInv, NEW t \in Turn, NEW f \in Feature, NEW c \in Talk \cup {None},
         NEW r \in Topic \cup {None}, Start(t, f, c, r), c # None => Owned(t, c),
         f = "transform" => c = None /\ r # None
  PROVE  AssistantInv'
<1>1. /\ \A u \in Turn : u # t => turn'[u] = turn[u]
      /\ turn[t].phase = "new"
      /\ turn'[t].phase = "asking" /\ turn'[t].feature = f
      /\ turn'[t].talk = c /\ turn'[t].topic = r
      /\ turn' \in [Turn -> [phase : Phase, feature : Feature \cup {None}, talk : Talk \cup {None},
                        topic : Topic \cup {None}]]
      /\ UNCHANGED <<topic, talk, log, draft>>
  BY DEF Start, AssistantInv, AssistantTypeOK, Phase
<1>2. AssistantTypeOK' /\ IsFiniteSet(log')
  BY <1>1 DEF AssistantInv, AssistantTypeOK, Conversation, Message
<1>3. \A u \in Turn : Committed(u)' <=> Committed(u)
  BY <1>1 DEF Committed
<1>4. Exchanges'
  BY <1>1 DEF AssistantInv, Exchanges, Exchange, Question, Reply, Open, Own
<1>5. Opened' /\ OneHolder'
  BY <1>1 DEF AssistantInv, Opened, OneHolder, Writing, HoldsLock, Open
<1>6. Private'
  BY <1>1, AssistantAssumption DEF AssistantInv, Private, Writing, HoldsLock, Owned
<1>7. Fits'
  <2>1. \A d \in Talk : Shown(d)' \subseteq Shown(d)
    BY <1>1, <1>3, Parts DEF Shown
  <2>2. \A u \in Turn : turn'[u].phase = "complete" =>
           /\ turn[u].phase = "complete"
           /\ Messages(u, turn[u].talk)' \subseteq Messages(u, turn[u].talk)
           /\ turn'[u].talk = turn[u].talk
    BY <1>1, <1>3, Parts DEF Messages
  <2> QED  BY <2>1, <2>2, FitsShrinks
<1> QED  BY <1>2, <1>4, <1>5, <1>6, <1>7 DEF AssistantInv

\* A new conversation is nobody's yet, and empty.
LEMMA CreateKeeps == ASSUME AssistantInv, CreateConversation PROVE AssistantInv'
<1>1. PICK c \in Unused, k \in Kind, r \in Topic \cup {None} :
        /\ r # None => topic[r] = "readable"
        /\ talk' = [talk EXCEPT ![c] = [kind |-> k, topic |-> r, by |-> None]]
        /\ UNCHANGED <<topic, log, turn, draft>>
  BY DEF CreateConversation
<1> DEFINE opened == [kind |-> k, topic |-> r, by |-> None]
<1>2. /\ c \in Talk /\ talk[c] = None /\ \A t \in Turn : turn[t].talk # c
      /\ opened \in Conversation /\ opened # None /\ opened.topic = r /\ opened.by = None
      /\ \A d \in Talk : talk'[d] = IF d = c THEN opened ELSE talk[d]
      /\ talk' \in [Talk -> Conversation \cup {None}]
  BY <1>1, NoneIsNoRow DEF Unused, Conversation, AssistantInv, AssistantTypeOK
<1> HIDE DEF opened
<1>3. AssistantTypeOK' /\ IsFiniteSet(log')
  BY <1>1, <1>2 DEF AssistantInv, AssistantTypeOK, Message
<1>4. \A t \in Turn : Open(t)' <=> Open(t)
  BY <1>1, <1>2, Parts DEF Open
<1>5. Exchanges' /\ Opened' /\ OneHolder'
  BY <1>1, <1>4 DEF AssistantInv, Exchanges, Exchange, Question, Reply, Own, Opened, OneHolder
<1>6. Private'
  BY <1>1, <1>2, AssistantAssumption DEF AssistantInv, Private
<1>7. Fits'
  BY <1>1 DEF AssistantInv, Fits, WithinCap, Shown, Messages, Committed
<1> QED  BY <1>3, <1>5, <1>6, <1>7 DEF AssistantInv

\* A conversation a turn opens is seen by that turn alone until it commits.
LEMMA OpenKeeps ==
  ASSUME AssistantInv, NEW t \in Turn, OpenConversation(t) PROVE AssistantInv'
<1> DEFINE c == CHOOSE d \in Unused : TRUE
           opened == [kind |-> "cookbook_qa", topic |-> None, by |-> t]
<1>1. /\ c \in Talk /\ talk[c] = None /\ \A u \in Turn : turn[u].talk # c
      /\ turn[t].phase = "answered" /\ turn[t].feature = "qa"
      /\ turn[t].talk = None
      /\ talk' = [talk EXCEPT ![c] = opened] /\ turn' = [turn EXCEPT ![t].talk = c]
      /\ UNCHANGED <<topic, log, draft>>
  BY DEF OpenConversation, Unused
<1> HIDE DEF c
<1>2. /\ opened \in Conversation /\ opened # None /\ opened.topic = None /\ opened.by = t
      /\ \A d \in Talk : talk'[d] = IF d = c THEN opened ELSE talk[d]
      /\ talk' \in [Talk -> Conversation \cup {None}]
      /\ \A u \in Turn : u # t => turn'[u] = turn[u]
      /\ turn'[t].phase = "answered" /\ turn'[t].feature = "qa"
      /\ turn'[t].talk = c /\ turn'[t].topic = turn[t].topic
      /\ turn' \in [Turn -> [phase : Phase, feature : Feature \cup {None}, talk : Talk \cup {None},
                        topic : Topic \cup {None}]]
  BY <1>1, NoneIsNoRow DEF Conversation, Kind, AssistantInv, AssistantTypeOK
<1> HIDE DEF opened
<1>3. AssistantTypeOK' /\ IsFiniteSet(log')
  BY <1>1, <1>2 DEF AssistantInv, AssistantTypeOK, Message
<1>4. \A u \in Turn : u # t => (Open(u)' <=> Open(u))
  BY <1>1, <1>2, Parts DEF Open
<1>5. Exchanges'
  BY <1>1, <1>2, <1>4 DEF AssistantInv, Exchanges, Exchange, Question, Reply, Own
<1>6. Opened' /\ OneHolder'
  BY <1>1, <1>2, <1>4 DEF AssistantInv, Opened, OneHolder, Writing, HoldsLock
<1>7. Private'
  BY <1>1, <1>2, AssistantAssumption DEF AssistantInv, Private
<1>8. Fits'
  <2>1. \A u \in Turn : Committed(u)' <=> Committed(u)
    BY <1>1, <1>2 DEF Committed
  <2>2. \A d \in Talk : Shown(d)' \subseteq Shown(d)
    BY <1>1, <2>1, Parts DEF Shown
  <2>3. \A u \in Turn : turn'[u].phase = "complete" =>
           /\ turn[u].phase = "complete"
           /\ Messages(u, turn[u].talk)' \subseteq Messages(u, turn[u].talk)
           /\ turn'[u].talk = turn[u].talk
    BY <1>1, <1>2, <2>1, Parts DEF Messages
  <2> QED  BY <2>2, <2>3, FitsShrinks
<1> QED  BY <1>3, <1>5, <1>6, <1>7, <1>8 DEF AssistantInv

\* The question: there is no message of the turn yet.
LEMMA QuestionKeeps ==
  ASSUME AssistantInv, NEW t \in Turn, AppendQuestion(t) PROVE AssistantInv'
<1>1. /\ turn[t].phase = "answered" /\ turn[t].talk # None /\ Owned(t, turn[t].talk)
      /\ log' = Append1(t, turn[t].talk, "user")
      /\ turn' = [turn EXCEPT ![t].phase = "waiting"]
      /\ UNCHANGED <<topic, talk, draft>>
  BY DEF AppendQuestion
<1> HIDE DEF AppendQuestion
<1>2. Own(t) = {} /\ Cardinality(Own(t)) = 0
  BY <1>1, FS_EmptySet DEF AssistantInv, Exchanges, Exchange
<1> DEFINE q == [turn |-> t, talk |-> turn[t].talk, at |-> 1, role |-> "user"]
<1>3. log' = log \cup {q}
  BY <1>1, <1>2 DEF Append1
<1>4. /\ \A u \in Turn : u # t => turn'[u] = turn[u]
      /\ turn'[t].phase = "waiting" /\ turn'[t].feature = turn[t].feature
      /\ turn'[t].talk = turn[t].talk /\ turn'[t].topic = turn[t].topic
      /\ turn' \in [Turn -> [phase : Phase, feature : Feature \cup {None}, talk : Talk \cup {None},
                        topic : Topic \cup {None}]]
  BY <1>1 DEF AssistantInv, AssistantTypeOK, Phase
<1>5. q \in Message /\ q.turn = t /\ q.talk = turn[t].talk /\ talk[q.talk] # None
  BY <1>1, Parts DEF Message, Owned
<1>6. q = Question(t)'
  BY <1>4 DEF Question
<1> HIDE DEF q
<1>7. AssistantTypeOK' /\ IsFiniteSet(log')
  <2>1. log' \subseteq Message /\ \A m \in log' : talk[m.talk] # None
    BY <1>3, <1>5 DEF AssistantInv, AssistantTypeOK
  <2>2. IsFiniteSet(log')
    BY <1>3, FS_AddElement DEF AssistantInv
  <2> QED  BY <1>1, <1>4, <2>1, <2>2 DEF AssistantInv, AssistantTypeOK
<1>8. /\ Own(t)' = {q}
      /\ \A u \in Turn : u # t => Own(u)' = Own(u)
  BY <1>2, <1>3, <1>5 DEF Own
<1>9. Exchanges'
  BY <1>1, <1>4, <1>6, <1>8 DEF AssistantInv, Exchanges, Exchange, Question, Reply, Open
<1>10. Opened' /\ OneHolder' /\ Private'
  BY <1>1, <1>4, <1>5 DEF AssistantInv, Opened, OneHolder, Private, Writing, HoldsLock, Open
<1>11. Fits'
  <2>1. \A u \in Turn : (Committed(u)' <=> Committed(u)) /\ turn'[u].talk = turn[u].talk
    BY <1>1, <1>4 DEF Committed
  <2>2. ~Committed(t)
    BY <1>1 DEF Committed
  <2>3. \A d \in Talk : Shown(d)' \subseteq Shown(d)
    BY <1>3, <1>5, <2>1, <2>2, Parts DEF Shown
  <2>4. \A u \in Turn : turn'[u].phase = "complete" =>
           /\ turn[u].phase = "complete" /\ u # t
    BY <1>4
  <2>5. \A u \in Turn : u # t => Messages(u, turn[u].talk)' \subseteq Messages(u, turn[u].talk)
    BY <1>3, <1>5, <2>1, <2>2, Parts DEF Messages
  <2> QED  BY <2>1, <2>3, <2>4, <2>5, FitsShrinks
<1> QED  BY <1>7, <1>9, <1>10, <1>11 DEF AssistantInv

\* The answer: with the lock, what is committed and the turn's own messages leave room.
LEMMA AnswerKeeps ==
  ASSUME AssistantInv, NEW t \in Turn, AppendAnswer(t) PROVE AssistantInv'
<1>1. /\ turn[t].phase = "asked" /\ HasRoom(t, turn[t].talk)
      /\ log' = Append1(t, turn[t].talk, "assistant")
      /\ turn' = [turn EXCEPT ![t].phase = "complete"]
      /\ UNCHANGED <<topic, talk, draft>>
  BY DEF AppendAnswer
<1>2. Own(t) = {Question(t)} /\ Cardinality(Own(t)) = 1 /\ Open(t)
  BY <1>1, FS_Singleton DEF AssistantInv, Exchanges, Exchange, Opened, Writing, HoldsLock
<1> DEFINE q == [turn |-> t, talk |-> turn[t].talk, at |-> 2, role |-> "assistant"]
<1>3. log' = log \cup {q}
  BY <1>1, <1>2 DEF Append1
<1>4. /\ \A u \in Turn : u # t => turn'[u] = turn[u]
      /\ turn'[t].phase = "complete" /\ turn'[t].feature = turn[t].feature
      /\ turn'[t].talk = turn[t].talk /\ turn'[t].topic = turn[t].topic
      /\ turn' \in [Turn -> [phase : Phase, feature : Feature \cup {None}, talk : Talk \cup {None},
                        topic : Topic \cup {None}]]
  BY <1>1 DEF AssistantInv, AssistantTypeOK, Phase
<1>5. q \in Message /\ q.turn = t /\ q.talk = turn[t].talk /\ talk[q.talk] # None
  BY <1>2, Parts DEF Message, Open
<1>6. q = Reply(t)' /\ Question(t)' = Question(t)
  BY <1>4 DEF Question, Reply
<1> HIDE DEF q
<1>7. AssistantTypeOK' /\ IsFiniteSet(log')
  BY <1>1, <1>3, <1>4, <1>5, FS_AddElement DEF AssistantInv, AssistantTypeOK
<1>8. /\ Own(t)' = {Question(t), q}
      /\ \A u \in Turn : u # t => Own(u)' = Own(u)
  BY <1>2, <1>3, <1>5 DEF Own
<1>9. Exchanges'
  BY <1>1, <1>4, <1>6, <1>8 DEF AssistantInv, Exchanges, Exchange, Question, Reply, Open
<1>10. Opened' /\ OneHolder' /\ Private'
  BY <1>1, <1>4, <1>5 DEF AssistantInv, Opened, OneHolder, Private, Writing, HoldsLock, Open
<1>11. \A u \in Turn : (Committed(u)' <=> Committed(u)) /\ turn'[u].talk = turn[u].talk
  BY <1>1, <1>4 DEF Committed
<1>12. ASSUME NEW d \in Talk PROVE Cardinality(Shown(d)') <= MaxMessages
  <2>1. Shown(d)' = Shown(d)
    BY <1>1, <1>3, <1>5, <1>11, Parts DEF Shown, Committed
  <2> QED  BY <2>1 DEF AssistantInv, Fits, WithinCap, Shown
<1>13. ASSUME NEW u \in Turn, turn'[u].phase = "complete"
       PROVE  Cardinality(Messages(u, turn[u].talk)') <= MaxMessages
  <2>1. CASE u = t
    <3> DEFINE M == Messages(t, turn[t].talk)
    <3>1. M' \subseteq M \cup {q} /\ M' = M' \cap log'
      BY <1>3, <1>5, <1>11, Parts DEF Messages
    <3>2. IsFiniteSet(M) /\ Cardinality(M) < MaxMessages /\ Cardinality(M) \in Nat
      BY <1>1, FS_Subset, FS_CardinalityType DEF AssistantInv, Messages, HasRoom
    <3>3. IsFiniteSet(M \cup {q}) /\ Cardinality(M \cup {q}) <= Cardinality(M) + 1
      <4>1. /\ IsFiniteSet(M \cup {q})
            /\ Cardinality(M \cup {q}) = IF q \in M THEN Cardinality(M) ELSE Cardinality(M) + 1
        BY <3>2, FS_AddElement
      <4> HIDE DEF M
      <4> QED  BY <3>2, <4>1
    <3>4. IsFiniteSet(M') /\ Cardinality(M') <= Cardinality(M \cup {q})
      BY <3>1, <3>3, FS_Subset
    <3>5. Cardinality(M \cup {q}) \in Nat /\ Cardinality(M') \in Nat /\ MaxMessages \in Nat
      BY <3>3, <3>4, FS_CardinalityType, AssistantAssumption
    <3> HIDE DEF M
    <3>6. Cardinality(M') <= MaxMessages
      BY <3>2, <3>3, <3>4, <3>5
    <3> QED  BY <2>1, <3>6 DEF M
  <2>2. CASE u # t
    <3>1. turn[u].phase = "complete" /\ turn[t].talk # turn[u].talk
      BY <1>1, <1>4, <1>13, <2>2 DEF AssistantInv, OneHolder, HoldsLock
    <3>2. Messages(u, turn[u].talk)' = Messages(u, turn[u].talk)
      BY <1>3, <1>5, <1>11, <3>1, Parts DEF Messages
    <3> QED  BY <3>1, <3>2 DEF AssistantInv, Fits
  <2> QED  BY <2>1, <2>2
<1>14. Fits'
  BY <1>12, <1>13 DEF Fits, WithinCap, Shown
<1> QED  BY <1>7, <1>9, <1>10, <1>14 DEF AssistantInv

\* A transformation ends: it has no messages.
LEMMA DraftKeeps ==
  ASSUME AssistantInv, NEW t \in Turn, SaveDraft(t) PROVE AssistantInv'
<1>1. /\ turn[t].phase = "answered" /\ turn[t].talk = None
      /\ turn[t].topic \in Topic /\ topic[turn[t].topic] # "deleted"
      /\ draft' = draft \cup {[turn |-> t, source |-> turn[t].topic]}
      /\ UNCHANGED <<topic, talk, log>>
  BY Parts DEF SaveDraft, AssistantInv, Opened
<1>2. /\ \A u \in Turn : u # t => turn'[u] = turn[u]
      /\ turn'[t].phase = "done" /\ turn'[t].feature = turn[t].feature
      /\ turn'[t].talk = None /\ turn'[t].topic = turn[t].topic
      /\ turn' \in [Turn -> [phase : Phase, feature : Feature \cup {None}, talk : Talk \cup {None},
                        topic : Topic \cup {None}]]
  BY <1>1 DEF SaveDraft, AssistantInv, AssistantTypeOK, Phase
<1> HIDE DEF SaveDraft
<1>3. AssistantTypeOK' /\ IsFiniteSet(log')
  BY <1>1, <1>2 DEF AssistantInv, AssistantTypeOK
<1>4. Own(t) = {}
  BY <1>1 DEF AssistantInv, Exchanges, Exchange
<1>5. Exchanges'
  BY <1>1, <1>2, <1>4 DEF AssistantInv, Exchanges, Exchange, Question, Reply, Open, Own
<1>6. Opened' /\ OneHolder' /\ Private'
  BY <1>1, <1>2, AssistantAssumption
  DEF AssistantInv, Opened, OneHolder, Private, Writing, HoldsLock, Open
<1>7. Fits'
  <2>1. \A m \in log : Committed(m.turn)' <=> Committed(m.turn)
    BY <1>2, <1>4, Parts DEF Committed, Own
  <2>2. \A d \in Talk : Shown(d)' \subseteq Shown(d)
    BY <1>1, <2>1 DEF Shown
  <2>3. \A u \in Turn : turn'[u].phase = "complete" =>
           /\ turn[u].phase = "complete"
           /\ Messages(u, turn[u].talk)' \subseteq Messages(u, turn[u].talk)
           /\ turn'[u].talk = turn[u].talk
    BY <1>1, <1>2, <2>1 DEF Messages
  <2> QED  BY <2>2, <2>3, FitsShrinks
<1> QED  BY <1>3, <1>5, <1>6, <1>7 DEF AssistantInv

\* The commit: what was under the cap with the turn's own messages is now what is committed.
LEMMA CommitKeeps ==
  ASSUME AssistantInv, NEW t \in Turn, CommitTurn(t) PROVE AssistantInv'
<1>1. /\ turn[t].phase = "complete" /\ Open(t)
      /\ turn' = [turn EXCEPT ![t].phase = "done"]
      /\ talk' = [c \in Talk |-> IF talk[c] # None /\ talk[c].by = t
                                 THEN [talk[c] EXCEPT !.by = None] ELSE talk[c]]
      /\ UNCHANGED <<topic, log, draft>>
  BY DEF CommitTurn, AssistantInv, Opened, Writing, HoldsLock
<1>2. /\ \A u \in Turn : u # t => turn'[u] = turn[u]
      /\ turn'[t].phase = "done" /\ turn'[t].feature = turn[t].feature
      /\ turn'[t].talk = turn[t].talk /\ turn'[t].topic = turn[t].topic
      /\ turn' \in [Turn -> [phase : Phase, feature : Feature \cup {None}, talk : Talk \cup {None},
                        topic : Topic \cup {None}]]
  BY <1>1 DEF AssistantInv, AssistantTypeOK, Phase
<1>3. /\ talk' \in [Talk -> Conversation \cup {None}]
      /\ \A c \in Talk : talk'[c] # None <=> talk[c] # None
      /\ \A c \in Talk : talk[c] # None =>
           /\ talk'[c].topic = talk[c].topic
           /\ talk'[c].by = IF talk[c].by = t THEN None ELSE talk[c].by
  BY <1>1, Parts, NoneIsNoRow DEF Conversation, AssistantInv, AssistantTypeOK
<1>4. AssistantTypeOK' /\ IsFiniteSet(log')
  BY <1>1, <1>2, <1>3, Parts DEF AssistantInv, AssistantTypeOK
<1>5. \A u \in Turn : (Open(u)' <=> Open(u)) /\ turn'[u].talk = turn[u].talk
  BY <1>2, <1>3, Parts DEF Open
<1>6. Exchanges'
  BY <1>1, <1>2, <1>5 DEF AssistantInv, Exchanges, Exchange, Question, Reply, Own
<1>7. Opened' /\ OneHolder'
  BY <1>1, <1>2, <1>5 DEF AssistantInv, Opened, OneHolder, Writing, HoldsLock
<1>8. Private'
  BY <1>2, <1>3, AssistantAssumption DEF AssistantInv, Private
<1>9. ASSUME NEW c \in Talk PROVE Cardinality(Shown(c)') <= MaxMessages
  <2>0. \A m \in log : Committed(m.turn)' <=> (m.turn = t \/ Committed(m.turn))
    BY <1>2, Parts DEF Committed
  <2>1. CASE c = turn[t].talk
    <3>1. Shown(c)' = Messages(t, c)
      BY <1>1, <2>0 DEF Shown, Messages
    <3> QED  BY <1>1, <2>1, <3>1 DEF AssistantInv, Fits
  <2>2. CASE c # turn[t].talk
    <3>1. \A m \in log : m.turn = t => m.talk # c
      BY <2>2, MessagePlace
    <3>2. Shown(c)' = Shown(c)
      BY <1>1, <2>0, <3>1 DEF Shown
    <3> QED  BY <3>2 DEF AssistantInv, Fits, WithinCap, Shown
  <2> QED  BY <2>1, <2>2
<1>10. ASSUME NEW u \in Turn, turn'[u].phase = "complete"
       PROVE  Cardinality(Messages(u, turn[u].talk)') <= MaxMessages
  <2>1. u # t /\ turn[u].phase = "complete" /\ turn[u].talk # turn[t].talk
    BY <1>1, <1>2, <1>10 DEF AssistantInv, OneHolder, HoldsLock
  <2>2. \A m \in log : m.turn = t => m.talk # turn[u].talk
    BY <2>1, MessagePlace
  <2>3. \A m \in log : m.turn # t => (Committed(m.turn)' <=> Committed(m.turn))
    BY <1>2, Parts DEF Committed
  <2>4. Messages(u, turn[u].talk)' = Messages(u, turn[u].talk)
    BY <1>1, <1>5, <2>2, <2>3 DEF Messages
  <2> QED  BY <2>1, <2>4 DEF AssistantInv, Fits
<1>11. Fits'
  BY <1>5, <1>9, <1>10 DEF Fits, WithinCap, Shown
<1> QED  BY <1>4, <1>6, <1>7, <1>8, <1>11 DEF AssistantInv

\* The rollback: the turn's messages go, and a conversation it opened, which held no others.
LEMMA RollBackKeeps ==
  ASSUME AssistantInv, NEW t \in Turn, RollBack(t) PROVE AssistantInv'
<1>1. /\ turn[t].phase \in {"answered"} \cup Writing
      /\ turn' = [turn EXCEPT ![t].phase = "failed"]
      /\ talk' = [c \in Talk |-> IF talk[c] # None /\ talk[c].by = t THEN None ELSE talk[c]]
      /\ log' = {m \in log : m.turn # t}
      /\ UNCHANGED <<topic, draft>>
  BY DEF RollBack, Writing, HoldsLock
<1>2. /\ \A u \in Turn : u # t => turn'[u] = turn[u]
      /\ turn'[t].phase = "failed" /\ turn'[t].feature = turn[t].feature
      /\ turn'[t].talk = turn[t].talk /\ turn'[t].topic = turn[t].topic
      /\ turn' \in [Turn -> [phase : Phase, feature : Feature \cup {None}, talk : Talk \cup {None},
                        topic : Topic \cup {None}]]
  BY <1>1 DEF AssistantInv, AssistantTypeOK, Phase
<1>3. /\ talk' \in [Talk -> Conversation \cup {None}]
      /\ \A c \in Talk : talk'[c] = talk[c] \/
           (talk'[c] = None /\ talk[c] # None /\ talk[c].by = t)
  BY <1>1 DEF AssistantInv, AssistantTypeOK
<1>4. \A c \in Talk : talk'[c] # talk[c] =>
        turn[t].talk = c /\ \A u \in Turn : turn[u].talk = c => u = t
  BY <1>3 DEF AssistantInv, Private
<1>5. \A m \in log' : m \in log /\ m.turn \in Turn /\ m.turn # t /\ talk'[m.talk] # None
  BY <1>1, <1>4, MessagePlace
<1>6. AssistantTypeOK' /\ IsFiniteSet(log')
  <2>1. IsFiniteSet(log')
    BY <1>1, FS_Subset DEF AssistantInv
  <2>2. \A c \in Talk : talk'[c] # None => talk'[c] = talk[c]
    BY <1>3
  <2> QED  BY <1>1, <1>2, <1>3, <1>5, <2>1, <2>2 DEF AssistantInv, AssistantTypeOK
<1>7. \A u \in Turn : u # t => (Open(u)' <=> Open(u)) /\ turn'[u].talk = turn[u].talk
  BY <1>2, <1>4, Parts DEF Open
<1>8. Own(t)' = {} /\ \A u \in Turn : u # t => Own(u)' = Own(u)
  BY <1>1 DEF Own
<1>9. Exchanges'
  BY <1>2, <1>7, <1>8 DEF AssistantInv, Exchanges, Exchange, Question, Reply
<1>10. Opened' /\ OneHolder'
  BY <1>1, <1>2, <1>7 DEF AssistantInv, Opened, OneHolder, Writing, HoldsLock
<1>11. Private'
  <2>1. \A c \in Talk : talk'[c] # None => talk'[c] = talk[c] /\ talk[c].by # t
    BY <1>1, AssistantAssumption
  <2> QED  BY <1>2, <2>1 DEF AssistantInv, Private
<1>12. Fits'
  <2>1. \A m \in log : m.turn # t => (Committed(m.turn)' <=> Committed(m.turn))
    BY <1>2, Parts DEF Committed
  <2>2. \A d \in Talk : Shown(d)' \subseteq Shown(d)
    BY <1>5, <2>1 DEF Shown
  <2>3. \A u \in Turn : turn'[u].phase = "complete" =>
           /\ turn[u].phase = "complete"
           /\ Messages(u, turn[u].talk)' \subseteq Messages(u, turn[u].talk)
           /\ turn'[u].talk = turn[u].talk
    BY <1>2, <1>5, <2>1 DEF Messages
  <2> QED  BY <2>2, <2>3, FitsShrinks
<1> QED  BY <1>6, <1>9, <1>10, <1>11, <1>12 DEF AssistantInv

\* Who may read a recipe changes nothing in the conversations about it.
LEMMA AccessKeeps == ASSUME AssistantInv, ChangeAccess PROVE AssistantInv'
<1>1. /\ UNCHANGED <<talk, log, turn, draft>>
      /\ topic' \in [Topic -> {"readable", "hidden", "deleted"}]
      /\ \A r \in Topic : topic[r] # "deleted" => topic'[r] # "deleted"
  BY DEF ChangeAccess, AssistantInv, AssistantTypeOK
<1>2. AssistantTypeOK'
  BY <1>1, Parts DEF AssistantInv, AssistantTypeOK
<1> QED
  BY <1>1, <1>2 DEF AssistantInv, Exchanges, Exchange, Own, Question, Reply, Open, Opened,
                    OneHolder, Private, Fits, WithinCap, Shown, Messages, Committed

\* A deleted recipe takes along its conversations, none of them locked, and fails the turns
\* that wait for one.
LEMMA DeleteKeeps == ASSUME AssistantInv, DeleteTopic PROVE AssistantInv'
<1>1. PICK r \in Topic :
        LET about == {c \in Talk : talk[c] # None /\ talk[c].topic = r}
            waiting == {t \in Turn : turn[t].phase = "waiting" /\ turn[t].talk \in about}
        IN  /\ topic[r] # "deleted"
            /\ \A c \in about : ~Locked(c)
            /\ topic' = [topic EXCEPT ![r] = "deleted"]
            /\ talk' = [c \in Talk |-> IF c \in about THEN None ELSE talk[c]]
            /\ log' = {m \in log : m.talk \notin about}
            /\ turn' = [t \in Turn |-> IF t \in waiting THEN [turn[t] EXCEPT !.phase = "failed"]
                                       ELSE turn[t]]
            /\ draft' = {IF d.source = r THEN [d EXCEPT !.source = None] ELSE d : d \in draft}
  BY DEF DeleteTopic
<1> DEFINE about == {c \in Talk : talk[c] # None /\ talk[c].topic = r}
           Fails(t) == turn[t].phase = "waiting" /\ turn[t].talk \in about
<1>2. /\ \A t \in Turn :
           /\ turn'[t].talk = turn[t].talk /\ turn'[t].feature = turn[t].feature
           /\ turn'[t].topic = turn[t].topic
           /\ turn'[t].phase = IF Fails(t) THEN "failed" ELSE turn[t].phase
      /\ turn' \in [Turn -> [phase : Phase, feature : Feature \cup {None}, talk : Talk \cup {None},
                        topic : Topic \cup {None}]]
  BY <1>1 DEF AssistantInv, AssistantTypeOK, Phase
<1>3. /\ talk' \in [Talk -> Conversation \cup {None}]
      /\ \A c \in Talk : talk'[c] = IF c \in about THEN None ELSE talk[c]
      /\ \A c \in about : c \in Talk /\ talk[c] # None
  BY <1>1 DEF AssistantInv, AssistantTypeOK
<1>4. /\ topic' \in [Topic -> {"readable", "hidden", "deleted"}]
      /\ \A q \in Topic : topic'[q] = "deleted" => topic[q] = "deleted" \/ q = r
      /\ draft' \subseteq [turn : Turn, source : Topic \cup {None}]
      /\ \A d \in draft' : d.source # r /\ (d.source # None => topic[d.source] # "deleted")
  <2>1. /\ topic' \in [Topic -> {"readable", "hidden", "deleted"}]
        /\ \A q \in Topic : topic'[q] = "deleted" => topic[q] = "deleted" \/ q = r
    BY <1>1 DEF AssistantInv, AssistantTypeOK
  <2>2. ASSUME NEW d \in draft'
        PROVE  /\ d \in [turn : Turn, source : Topic \cup {None}]
               /\ d.source # r /\ (d.source # None => topic[d.source] # "deleted")
    <3>1. PICK e \in draft : d = IF e.source = r THEN [e EXCEPT !.source = None] ELSE e
      BY <1>1
    <3>2. e \in [turn : Turn, source : Topic \cup {None}] /\ (e.source # None => topic[e.source] # "deleted")
      BY DEF AssistantInv, AssistantTypeOK
    <3> QED  BY <3>1, <3>2, AssistantAssumption
  <2> QED  BY <2>1, <2>2
<1>5. /\ \A m \in log' : m \in log /\ m.talk \notin about
      /\ \A m \in log : m.talk \notin about => m \in log'
      /\ \A c \in about : ~Locked(c)
  BY <1>1
<1> HIDE DEF about
<1>6. IsFiniteSet(log')
  BY <1>5, FS_Subset DEF AssistantInv
<1>7. AssistantTypeOK'
  <2>1. log' \subseteq Message /\ \A m \in log' : talk'[m.talk] # None
    BY <1>3, <1>5, MessagePlace, Parts
  <2>2. ASSUME NEW c \in Talk, talk'[c] # None, talk'[c].topic # None
        PROVE  topic'[talk'[c].topic] # "deleted"
    <3>1. talk'[c] = talk[c] /\ talk[c] # None /\ talk[c].topic \in Topic /\ talk[c].topic # r
      BY <1>3, <2>2, Parts DEF about
    <3>2. topic[talk[c].topic] # "deleted"
      BY <2>2, <3>1 DEF AssistantInv, AssistantTypeOK
    <3> QED  BY <1>4, <3>1, <3>2
  <2>3. ASSUME NEW d \in draft', d.source # None PROVE topic'[d.source] # "deleted"
    BY <1>4, <2>3
  <2> QED  BY <1>2, <1>3, <1>4, <2>1, <2>2, <2>3 DEF AssistantTypeOK
<1>8. ASSUME NEW t \in Turn PROVE Own(t)' = IF turn[t].talk \in about THEN {} ELSE Own(t)
  BY <1>5, MessagePlace DEF Own
<1>9. \A t \in Turn :
        /\ Open(t)' <=> Open(t) /\ turn[t].talk \notin about
        /\ turn[t].talk \in about => turn[t].phase \notin HoldsLock
  BY <1>2, <1>3, <1>5, Parts DEF Open, Locked, HoldsLock
<1>10. Exchanges'
  <2> SUFFICES ASSUME NEW t \in Turn PROVE Own(t)' = Exchange(t)'
    BY DEF Exchanges
  <2>1. Own(t) = Exchange(t) /\ Question(t)' = Question(t) /\ Reply(t)' = Reply(t)
    BY <1>2 DEF AssistantInv, Exchanges, Question, Reply
  <2>2. CASE turn[t].talk \in about
    <3>1. ~Open(t)' /\ turn[t].phase \notin HoldsLock /\ turn'[t].phase # "waiting"
      BY <1>2, <1>9, <2>2
    <3>2. turn'[t].phase \notin HoldsLock
      BY <1>2, <3>1 DEF HoldsLock
    <3> QED  BY <1>8, <2>2, <3>1, <3>2 DEF Exchange, HoldsLock
  <2>3. CASE turn[t].talk \notin about
    BY <1>2, <1>8, <1>9, <2>1, <2>3 DEF Exchange
  <2> QED  BY <2>2, <2>3
<1>11. Opened' /\ OneHolder'
  <2>1. \A t \in Turn : turn'[t].phase \in Writing =>
          turn[t].phase = turn'[t].phase /\ turn[t].talk \notin about
    BY <1>2, <1>9 DEF Writing, HoldsLock
  <2>2. Opened'
    BY <1>2, <1>9, <2>1 DEF AssistantInv, Opened
  <2>3. OneHolder'
    BY <1>2 DEF AssistantInv, OneHolder, HoldsLock
  <2> QED  BY <2>2, <2>3
<1>12. Private'
  <2>1. \A c \in Talk : talk'[c] # None => talk'[c] = talk[c] /\ c \notin about
    BY <1>3
  <2> QED  BY <1>2, <2>1 DEF AssistantInv, Private, Writing, HoldsLock
<1>13. Fits'
  <2>1. \A m \in log : Committed(m.turn)' <=> Committed(m.turn)
    BY <1>2, Parts DEF Committed
  <2>2. \A d \in Talk : Shown(d)' \subseteq Shown(d)
    BY <1>5, <2>1 DEF Shown
  <2>3. \A u \in Turn : turn'[u].phase = "complete" =>
           /\ turn[u].phase = "complete"
           /\ Messages(u, turn[u].talk)' \subseteq Messages(u, turn[u].talk)
           /\ turn'[u].talk = turn[u].talk
    BY <1>2, <1>5, <2>1 DEF Messages
  <2> QED  BY <2>2, <2>3, FitsShrinks
<1> QED  BY <1>6, <1>7, <1>10, <1>11, <1>12, <1>13 DEF AssistantInv

\* Every step of every turn, and the deletion of a topic under it.
LEMMA AssistantStep == AssistantInv /\ [AssistantNext]_assistantVars => AssistantInv'
<1> SUFFICES ASSUME AssistantInv, [AssistantNext]_assistantVars PROVE AssistantInv'
  OBVIOUS
<1>1. CASE UNCHANGED assistantVars
  BY <1>1 DEF assistantVars, AssistantInv, AssistantTypeOK, Exchanges, Exchange, Own, Question,
              Reply, Open, Opened, OneHolder, Private, Fits, WithinCap, Shown, Messages, Committed
<1>2. ASSUME NEW t \in Turn, AskChat(t) PROVE AssistantInv'
  <2>1. PICK c \in Talk : Owned(t, c) /\ Start(t, "chat", c, None)
    BY <1>2 DEF AskChat
  <2> QED  BY <2>1, StartKeeps DEF Feature
<1>3. ASSUME NEW t \in Turn, AskCookbook(t) PROVE AssistantInv'
  <2>1. CASE \E c \in Talk : Owned(t, c) /\ Start(t, "qa", c, None)
    BY <2>1, StartKeeps DEF Feature
  <2>2. CASE Start(t, "qa", None, None)
    BY <2>2, StartKeeps DEF Feature
  <2> QED  BY <1>3, <2>1, <2>2 DEF AskCookbook
<1>4. ASSUME NEW t \in Turn, AskTransform(t) PROVE AssistantInv'
  <2>1. PICK r \in Topic : Start(t, "transform", None, r)
    BY <1>4 DEF AskTransform
  <2> QED  BY <2>1, StartKeeps, AssistantAssumption DEF Feature
<1>5. ASSUME NEW t \in Turn, Answer(t) \/ Unanswered(t) \/ LockConversation(t) PROVE AssistantInv'
  <2>1. \E p \in {"answered", "failed", "asked"} :
          /\ turn[t].phase = IF p = "asked" THEN "waiting" ELSE "asking"
          /\ p = "asked" => ~Locked(turn[t].talk)
          /\ turn' = [turn EXCEPT ![t].phase = p] /\ UNCHANGED <<topic, talk, log, draft>>
    BY <1>5 DEF Answer, Unanswered, LockConversation
  <2> QED  BY <2>1, MovesOn
<1> QED
  BY <1>1, <1>2, <1>3, <1>4, <1>5, OpenKeeps, QuestionKeeps, AnswerKeeps, DraftKeeps, CommitKeeps,
     RollBackKeeps, CreateKeeps, AccessKeeps, DeleteKeeps
  DEF AssistantNext

\* The conversations of the assistant, at any number of overlapping requests: what every turn
\* has appended, who holds a lock, and what is under the cap.
THEOREM AssistantInvariance == AssistantSpec => []AssistantInv
<1>1. AssistantInit => AssistantInv
  <2> SUFFICES ASSUME AssistantInit PROVE AssistantInv
    OBVIOUS
  <2>1. AssistantTypeOK /\ IsFiniteSet(log) /\ Exchanges /\ Opened /\ OneHolder /\ Private
    BY FS_EmptySet DEF AssistantInit, AssistantTypeOK, Phase, Exchanges, Exchange, Own, Opened,
                       OneHolder, Private, Writing, HoldsLock
  <2>2. \A c \in Talk : Shown(c) = {}
    BY DEF AssistantInit, Shown
  <2>3. Fits
    BY <2>2, FS_EmptySet, AssistantAssumption DEF AssistantInit, Fits, WithinCap, Shown
  <2> QED  BY <2>1, <2>3 DEF AssistantInv
<1> QED  BY <1>1, AssistantStep, PTL DEF AssistantSpec

\* No conversation outgrows its cap (append_message counts under the lock the first append took).
THEOREM RoomKept == AssistantSpec => []WithinCap
BY AssistantInvariance, PTL DEF AssistantInv, Fits

\* A turn that has ended leaves its question and its answer, or nothing (get_db commits or
\* rolls back the whole request).
THEOREM ExchangesWhole == AssistantSpec => []WholeExchanges
<1>1. AssistantInv => WholeExchanges
  <2> SUFFICES ASSUME AssistantInv, NEW t \in Turn, turn[t].phase \in {"done", "failed"}
               PROVE  {<<m.talk, m.at, m.role>> : m \in Own(t)} =
                        IF Committed(t) /\ Open(t)
                        THEN {<<turn[t].talk, 1, "user">>, <<turn[t].talk, 2, "assistant">>} ELSE {}
    BY DEF WholeExchanges, Open
  <2>1. Own(t) = IF Committed(t) /\ Open(t) THEN {Question(t), Reply(t)} ELSE {}
    BY DEF AssistantInv, Exchanges, Exchange, Committed
  <2> DEFINE q == Question(t)
             p == Reply(t)
  <2>2. /\ q.talk = turn[t].talk /\ q.at = 1 /\ q.role = "user"
        /\ p.talk = turn[t].talk /\ p.at = 2 /\ p.role = "assistant"
    BY DEF Question, Reply
  <2>3. Own(t) = IF Committed(t) /\ Open(t) THEN {q, p} ELSE {}
    BY <2>1
  <2> HIDE DEF q, p
  <2> QED  BY <2>2, <2>3
<1> QED  BY <1>1, AssistantInvariance, PTL

-----------------------------------------------------------------------------
(* The assistant keeps the promise of Conversations: every step commits a  *)
(* whole exchange, makes or deletes conversations, or is not seen.         *)

\* What everybody sees: the conversations, their messages, and who succeeded.
There == {c \in Talk : talk[c] # None /\ talk[c].by = None}
Held == [c \in Talk |-> Shown(c)]
Succeeded == {t \in Turn : Committed(t) /\ turn[t].talk # None}

\* The promise in these words.
Promised ==
  \/ \E c \in Talk : c \notin There /\ There' = There \cup {c} /\ UNCHANGED <<Held, Succeeded>>
  \/ \E c \in Talk, t \in Turn :
       /\ t \notin Succeeded /\ Succeeded' = Succeeded \cup {t}
       /\ There' = There \cup {c}
       /\ Held' = [Held EXCEPT ![c] = @ \cup Promise!Exchange(t, c)]
       /\ Cardinality(Held'[c]) <= MaxMessages
  \/ \E about \in SUBSET Talk :
       /\ about \subseteq There /\ There' = There \ about
       /\ Held' = [c \in Talk |-> IF c \in about THEN {} ELSE Held[c]]
       /\ UNCHANGED Succeeded
  \/ UNCHANGED <<There, Held, Succeeded>>

\* The instance brings its own name for the size of a set.
LEMMA SameCardinality == ASSUME NEW S PROVE Promise!Cardinality(S) = Cardinality(S)
BY Zenon DEF Cardinality, Promise!Cardinality

\* What is promised in these words is a step of Conversations, or none.
LEMMA PromiseMapped == Promised => [Promise!ConversationsNext]_(Promise!conversationVars)
<1> SUFFICES ASSUME Promised PROVE [Promise!ConversationsNext]_(Promise!conversationVars)
  OBVIOUS
<1>1. ASSUME NEW c \in Talk, c \notin There, There' = There \cup {c}, UNCHANGED <<Held, Succeeded>>
      PROVE  Promise!Open(c)
  BY <1>1 DEF Promise!Open, There, Held, Shown, Succeeded
<1>2. ASSUME NEW c \in Talk, NEW t \in Turn, t \notin Succeeded,
             Succeeded' = Succeeded \cup {t}, There' = There \cup {c},
             Held' = [Held EXCEPT ![c] = @ \cup Promise!Exchange(t, c)],
             Cardinality(Held'[c]) <= MaxMessages
      PROVE  Promise!Converse(t, c)
  <2>1. Promise!Cardinality(Held'[c]) <= MaxMessages
    BY <1>2, SameCardinality
  <2> QED  BY <1>2, <2>1 DEF Promise!Converse, There, Held, Shown, Succeeded
<1>3. ASSUME NEW about \in SUBSET Talk, about \subseteq There, There' = There \ about,
             Held' = [c \in Talk |-> IF c \in about THEN {} ELSE Held[c]], UNCHANGED Succeeded
      PROVE  Promise!Forget(about)
  BY <1>3, Zenon DEF Promise!Forget, There, Held, Shown, Succeeded
<1>4. ASSUME UNCHANGED <<There, Held, Succeeded>> PROVE UNCHANGED Promise!conversationVars
  BY <1>4 DEF Promise!conversationVars, There, Held, Shown, Succeeded
<1> QED  BY <1>1, <1>2, <1>3, <1>4 DEF Promised, Promise!ConversationsNext

\* A step that commits nothing, loses nothing committed and opens nothing is not seen.
LEMMA Unseen ==
  ASSUME AssistantInv, AssistantInv',
         \A u \in Turn : (Committed(u) /\ turn[u].talk # None)' <=> (Committed(u) /\ turn[u].talk # None),
         \A m \in log \cup log' : (m \in log' /\ Committed(m.turn)') <=> (m \in log /\ Committed(m.turn)),
         There' = There
  PROVE  UNCHANGED <<There, Held, Succeeded>>
<1>1. Succeeded' = Succeeded
  BY DEF Succeeded
<1>2. ASSUME NEW c \in Talk PROVE Shown(c)' = Shown(c)
  BY DEF Shown
<1>3. Held' = Held
  BY <1>2 DEF Held
<1> QED  BY <1>1, <1>3

\* A commit is seen as an exchange (of a turn in a conversation), or not at all.
LEMMA CommitSeen ==
  ASSUME AssistantInv, AssistantInv', NEW t \in Turn, CommitTurn(t)
  PROVE  Promised
<1> DEFINE c == turn[t].talk
<1>1. /\ turn[t].phase = "complete" /\ c \in Talk /\ talk[c] # None /\ c # None
      /\ turn' = [turn EXCEPT ![t].phase = "done"] /\ log' = log
      /\ talk' = [d \in Talk |-> IF talk[d] # None /\ talk[d].by = t
                                 THEN [talk[d] EXCEPT !.by = None] ELSE talk[d]]
  BY Parts DEF CommitTurn, AssistantInv, Opened, Open, Writing, HoldsLock
<1>2. /\ \A u \in Turn : turn'[u].talk = turn[u].talk
      /\ \A u \in Turn : Committed(u)' <=> (Committed(u) \/ u = t)
      /\ ~Committed(t)
  BY <1>1 DEF AssistantInv, AssistantTypeOK, Committed
<1>3. t \notin Succeeded /\ Succeeded' = Succeeded \cup {t}
  BY <1>1, <1>2 DEF Succeeded
<1>4. There' = There \cup {c}
  <2>1. ASSUME NEW d \in Talk PROVE d \in There' <=> d \in There \/ d = c
    <3>1. CASE talk[d] # None /\ talk[d].by = t
      <4>1. d = c
        BY <3>1 DEF AssistantInv, Private
      <4>2. talk'[d] # None /\ talk'[d].by = None
        BY <1>1, <3>1, Parts, NoneIsNoRow DEF Conversation
      <4> QED  BY <4>1, <4>2 DEF There
    <3>2. CASE ~(talk[d] # None /\ talk[d].by = t)
      <4>1. talk'[d] = talk[d]
        BY <1>1, <3>2
      <4>2. d = c => talk[d].by = None
        <5> SUFFICES ASSUME d = c, talk[d].by # None PROVE FALSE
          OBVIOUS
        <5>1. talk[d].by \in Turn
          BY <1>1, Parts
        <5> QED  BY <1>1, <3>2, <5>1 DEF AssistantInv, Private
      <4> QED  BY <1>1, <4>1, <4>2 DEF There
    <3> QED  BY <3>1, <3>2
  <2>2. There \subseteq Talk /\ There' \subseteq Talk /\ c \in Talk
    BY <1>1 DEF There
  <2> QED  BY <2>1, <2>2
<1>5. Own(t) = Promise!Exchange(t, c)
  BY <1>1 DEF AssistantInv, Exchanges, Exchange, Question, Reply, Promise!Exchange
<1>6. ASSUME NEW d \in Talk PROVE Shown(d)' = IF d = c THEN Shown(d) \cup Own(t) ELSE Shown(d)
  <2>1. \A m \in log : m.turn \in Turn /\ (m.turn = t => m.talk = c)
    BY MessagePlace
  <2> HIDE DEF c
  <2> QED  BY <1>1, <1>2, <2>1 DEF Shown, Own
<1>7. Held' = [Held EXCEPT ![c] = @ \cup Promise!Exchange(t, c)]
  BY <1>1, <1>5, <1>6 DEF Held
<1>8. Cardinality(Held'[c]) <= MaxMessages
  BY <1>1 DEF AssistantInv, Fits, WithinCap, Held, Shown
<1> QED  BY <1>1, <1>3, <1>4, <1>7, <1>8 DEF Promised

\* A deleted conversation takes its messages along, and nobody else's.
LEMMA DeleteSeen ==
  ASSUME AssistantInv, AssistantInv', DeleteTopic
  PROVE  Promised
<1>1. PICK r \in Topic :
        LET about == {c \in Talk : talk[c] # None /\ talk[c].topic = r}
            waiting == {t \in Turn : turn[t].phase = "waiting" /\ turn[t].talk \in about}
        IN  /\ talk' = [c \in Talk |-> IF c \in about THEN None ELSE talk[c]]
            /\ log' = {m \in log : m.talk \notin about}
            /\ turn' = [t \in Turn |-> IF t \in waiting THEN [turn[t] EXCEPT !.phase = "failed"]
                                       ELSE turn[t]]
  BY DEF DeleteTopic
<1> DEFINE about == {c \in Talk : talk[c] # None /\ talk[c].topic = r}
           gone == about \cap There
<1>2. \A t \in Turn : (Committed(t)' <=> Committed(t)) /\ turn'[t].talk = turn[t].talk
  BY <1>1 DEF Committed, AssistantInv, AssistantTypeOK
<1>3. Succeeded' = Succeeded
  BY <1>2 DEF Succeeded
<1>4. \A c \in Talk : talk'[c] = IF c \in about THEN None ELSE talk[c]
  BY <1>1
<1>5. log' = {m \in log : m.talk \notin about}
  BY <1>1
<1> HIDE DEF about
<1>6. There' = There \ gone
  BY <1>4 DEF There
<1>7. ASSUME NEW c \in Talk PROVE Shown(c)' = IF c \in gone THEN {} ELSE Shown(c)
  <2>1. \A m \in log : m.turn \in Turn
    BY MessagePlace
  <2>2. CASE c \notin about
    BY <1>2, <1>5, <2>1, <2>2 DEF Shown
  <2>3. CASE c \in about
    <3>1. Shown(c)' = {}
      BY <1>5, <2>3 DEF Shown
    <3>2. c \notin There => Shown(c) = {}
      <4> SUFFICES ASSUME c \notin There, NEW m \in Shown(c) PROVE FALSE
        OBVIOUS
      <4>1. m \in log /\ m.talk = c /\ Committed(m.turn)
        BY DEF Shown
      <4>2. m.turn \in Turn /\ turn[m.turn].talk = c /\ talk[c] # None
        BY <4>1, MessagePlace
      <4>3. talk[c].by # None /\ talk[c].by \in Turn
        BY <4>2, Parts DEF There
      <4>4. turn[m.turn].phase \in {"answered"} \cup Writing
        BY <4>2, <4>3 DEF AssistantInv, Private
      <4> QED  BY <4>1, <4>4 DEF Committed, Writing, HoldsLock
    <3> QED  BY <2>3, <3>1, <3>2
  <2> QED  BY <2>2, <2>3
<1>8. Held' = [c \in Talk |-> IF c \in gone THEN {} ELSE Held[c]]
  BY <1>7 DEF Held
<1>9. gone \in SUBSET Talk /\ gone \subseteq There
  BY DEF There
<1> QED  BY <1>3, <1>6, <1>8, <1>9 DEF Promised

\* A conversation made by a request of its own opens with nothing in it.
LEMMA CreateSeen ==
  ASSUME AssistantInv, AssistantInv', CreateConversation
  PROVE  Promised
<1>1. PICK c \in Unused, k \in Kind, r \in Topic \cup {None} :
        /\ talk' = [talk EXCEPT ![c] = [kind |-> k, topic |-> r, by |-> None]]
        /\ UNCHANGED <<topic, log, turn, draft>>
  BY DEF CreateConversation
<1>2. c \in Talk /\ talk[c] = None /\ c \notin There
  BY DEF Unused, There
<1>3. [kind |-> k, topic |-> r, by |-> None] \in Conversation
  BY AssistantAssumption DEF Conversation
<1>4. talk'[c] # None /\ talk'[c].by = None /\ \A d \in Talk \ {c} : talk'[d] = talk[d]
  BY <1>1, <1>2, <1>3, NoneIsNoRow DEF AssistantInv, AssistantTypeOK
<1>5. There' = There \cup {c}
  BY <1>2, <1>4 DEF There
<1>6. UNCHANGED <<Held, Succeeded>>
  BY <1>1 DEF Held, Shown, Succeeded, Committed
<1> QED  BY <1>2, <1>5, <1>6 DEF Promised

\* Asking, writing what is not committed, waiting and rolling back are seen by nobody.
LEMMA OtherSeen ==
  ASSUME AssistantInv, AssistantInv', NEW t \in Turn,
         \/ AskChat(t) \/ AskCookbook(t) \/ AskTransform(t) \/ Answer(t) \/ Unanswered(t)
         \/ OpenConversation(t) \/ AppendQuestion(t) \/ LockConversation(t) \/ AppendAnswer(t)
         \/ SaveDraft(t) \/ RollBack(t)
  PROVE  UNCHANGED <<There, Held, Succeeded>>
<1>1. ~Committed(t) /\ \A u \in Turn \ {t} : turn'[u] = turn[u]
  BY DEF AskChat, AskCookbook, AskTransform, Start, Answer, Unanswered, OpenConversation,
         AppendQuestion, LockConversation, AppendAnswer, SaveDraft, RollBack, Committed,
         AssistantInv, AssistantTypeOK
<1>2. Committed(t)' => SaveDraft(t) /\ turn[t].talk = None /\ turn'[t].talk = None /\ log' = log
  <2>1. CASE SaveDraft(t)
    <3>1. turn[t].talk = None
      BY <2>1 DEF SaveDraft, AssistantInv, Opened
    <3> QED  BY <2>1, <3>1 DEF SaveDraft, AssistantInv, AssistantTypeOK
  <2>2. CASE ~SaveDraft(t)
    BY <2>2 DEF AskChat, AskCookbook, AskTransform, Start, Answer, Unanswered, OpenConversation,
         AppendQuestion, LockConversation, AppendAnswer, RollBack, Committed,
         AssistantInv, AssistantTypeOK
  <2> QED  BY <2>1, <2>2
<1>3. \A m \in log \cup log' : m.turn # t => (m \in log <=> m \in log')
  BY DEF AskChat, AskCookbook, AskTransform, Start, Answer, Unanswered, OpenConversation,
         AppendQuestion, LockConversation, AppendAnswer, SaveDraft, RollBack, Append1
<1>4. There' = There
  <2>1. CASE OpenConversation(t)
    <3>1. PICK c \in Unused : talk' = [talk EXCEPT ![c] = [kind |-> "cookbook_qa", topic |-> None, by |-> t]]
      BY <2>1 DEF OpenConversation
    <3>2. c \in Talk /\ talk[c] = None /\ t # None
      BY <3>1, AssistantAssumption DEF Unused
    <3>3. talk'[c].by = t /\ \A d \in Talk \ {c} : talk'[d] = talk[d]
      BY <3>1, <3>2 DEF AssistantInv, AssistantTypeOK
    <3> QED  BY <3>2, <3>3 DEF There
  <2>2. CASE RollBack(t)
    <3>1. \A c \in Talk : talk'[c] = IF talk[c] # None /\ talk[c].by = t THEN None ELSE talk[c]
      BY <2>2 DEF RollBack
    <3> QED  BY <3>1, AssistantAssumption DEF There
  <2>3. CASE ~OpenConversation(t) /\ ~RollBack(t)
    <3>1. talk' = talk
      BY <2>3 DEF AskChat, AskCookbook, AskTransform, Start, Answer, Unanswered,
         AppendQuestion, LockConversation, AppendAnswer, SaveDraft
    <3> QED  BY <3>1 DEF There
  <2> QED  BY <2>1, <2>2, <2>3
<1>5. \A m \in log \cup log' : m.turn \in Turn
  BY MessagePlace DEF AssistantInv, AssistantTypeOK, Message
<1>6. \A m \in log \cup log' : (m \in log' /\ Committed(m.turn)') <=> (m \in log /\ Committed(m.turn))
  <2> SUFFICES ASSUME NEW m \in log \cup log'
               PROVE  (m \in log' /\ Committed(m.turn)') <=> (m \in log /\ Committed(m.turn))
    OBVIOUS
  <2>1. CASE m.turn # t
    BY <1>1, <1>3, <1>5, <2>1 DEF Committed
  <2>2. CASE m.turn = t
    <3>1. ASSUME m \in log', Committed(t)' PROVE FALSE
      <4>1. m \in log /\ turn[t].talk = None
        BY <1>2, <3>1
      <4>2. m.talk \in Talk /\ m.talk = turn[m.turn].talk
        BY <4>1, MessagePlace
      <4> QED  BY <2>2, <4>1, <4>2, Parts
    <3> QED  BY <1>1, <2>2, <3>1
  <2> QED  BY <2>1, <2>2
<1>7. \A u \in Turn : (Committed(u) /\ turn[u].talk # None)' <=> (Committed(u) /\ turn[u].talk # None)
  <2>1. \A u \in Turn \ {t} : (Committed(u)' <=> Committed(u)) /\ turn'[u].talk = turn[u].talk
    BY <1>1 DEF Committed
  <2> QED  BY <1>1, <1>2, <2>1
<1> QED  BY <1>4, <1>6, <1>7, Unseen

\* Whatever turns overlap, wait, fail or roll back and whatever is deleted meanwhile, what is
\* committed moves as Conversations says (ai/service.py, _persist_exchange): a question and its
\* answer together, once, and only while the conversation has room for both.
THEOREM ExchangesAtomic == AssistantSpec => ImplementsConversations
<1>1. AssistantInit => Promise!ConversationsInit
  <2> SUFFICES ASSUME AssistantInit PROVE Promise!ConversationsInit
    OBVIOUS
  <2> QED  BY DEF AssistantInit, Promise!ConversationsInit, Committed
<1>2. AssistantInv /\ AssistantInv' /\ [AssistantNext]_assistantVars
        => [Promise!ConversationsNext]_(Promise!conversationVars)
  <2> SUFFICES ASSUME AssistantInv, AssistantInv', [AssistantNext]_assistantVars PROVE Promised
    BY PromiseMapped
  <2>1. CASE UNCHANGED assistantVars \/ ChangeAccess
    <3>1. UNCHANGED <<log, talk, turn>>
      BY <2>1 DEF assistantVars, ChangeAccess
    <3> QED  BY <3>1 DEF Promised, There, Held, Shown, Succeeded, Committed
  <2>2. ASSUME NEW t \in Turn,
               \/ AskChat(t) \/ AskCookbook(t) \/ AskTransform(t) \/ Answer(t) \/ Unanswered(t)
               \/ OpenConversation(t) \/ AppendQuestion(t) \/ LockConversation(t) \/ AppendAnswer(t)
               \/ SaveDraft(t) \/ RollBack(t)
        PROVE  Promised
    BY <2>2, OtherSeen DEF Promised
  <2> QED  BY <2>1, <2>2, CommitSeen, CreateSeen, DeleteSeen DEF AssistantNext
<1> QED  BY <1>1, <1>2, AssistantInvariance, PTL
         DEF AssistantSpec, ImplementsConversations, Promise!ConversationsKept

-----------------------------------------------------------------------------
(* Quantities: what rounding and scaling do to a number, for any parts of  *)
(* one, any lines and factors.                                             *)

\* A fraction and what multiplies it.
Fraction == Nat \X (Nat \ {0})

\* Division by its defining bounds.
LEMMA Division ==
  ASSUME NEW n \in Nat, NEW d \in Nat \ {0}
  PROVE  n \div d \in Nat /\ d * (n \div d) <= n /\ n < d * (n \div d) + d
BY SMT

\* The quotient is the one number with these bounds.
LEMMA Quotient ==
  ASSUME NEW a \in Nat, NEW b \in Nat, NEW d \in Nat \ {0}, d * a < d * b + d
  PROVE  a <= b
<1>1. CASE a >= b + 1
  <2>1. PICK c \in Nat : a = b + 1 + c
    BY <1>1, a - b - 1 \in Nat
  <2>2. d * a = d * b + d + d * c
    BY <2>1
  <2>3. d * c \in Nat
    BY <2>1
  <2> QED  BY <2>2, <2>3
<1> QED  BY <1>1

\* Products keep the order.
LEMMA ProductOrder ==
  ASSUME NEW a \in Nat, NEW b \in Nat, NEW c \in Nat, a <= b
  PROVE  a * c <= b * c
<1>1. PICK e \in Nat : b = a + e
  BY b - a \in Nat
<1>2. b * c = a * c + e * c /\ e * c \in Nat
  BY <1>1
<1> QED  BY <1>2

\* A product is cut to a whole number of parts.
LEMMA TimesType ==
  ASSUME NEW x \in Nat, NEW f \in Fraction
  PROVE  /\ Times(x, f) \in Nat
         /\ f[1] \in Nat /\ f[2] \in Nat \ {0} /\ x * f[1] \in Nat
         /\ f[2] * Times(x, f) <= x * f[1]
         /\ x * f[1] < f[2] * Times(x, f) + f[2]
<1>1. f[1] \in Nat /\ f[2] \in Nat \ {0}
  BY DEF Fraction
<1>2. x * f[1] \in Nat
  BY <1>1
<1> QED  BY <1>1, <1>2, Division DEF Times

\* A factor enlarges an excess by itself, and a part for the cut.
LEMMA TimesOrder ==
  ASSUME NEW x \in Nat, NEW y \in Nat, NEW e \in Nat, NEW f \in Fraction, y <= x + e
  PROVE  Times(y, f) <= Times(x, f) + Times(e, f) + 1
<1> DEFINE a == f[1]  b == f[2]  X == Times(x, f)  Y == Times(y, f)  E == Times(e, f)
<1>1. /\ a \in Nat /\ b \in Nat \ {0} /\ {X, Y, E} \subseteq Nat
      /\ {x * a, y * a, e * a} \subseteq Nat
      /\ b * Y <= y * a /\ x * a < b * X + b /\ e * a < b * E + b
  BY TimesType
<1>2. y * a <= (x + e) * a
  BY <1>1, ProductOrder, x + e \in Nat
<1>3. (x + e) * a = x * a + e * a
  BY <1>1
<1> HIDE DEF a, b, X, Y, E
<1>4. b * (X + E + 1) = b * X + b * E + b
  BY <1>1
<1>5. b * X \in Nat /\ b * E \in Nat /\ b * Y \in Nat
  BY <1>1
<1>6. b * Y < b * (X + E + 1) + b
  BY <1>1, <1>2, <1>3, <1>4, <1>5
<1>7. Y <= X + E + 1
  BY <1>1, <1>6, Quotient, X + E + 1 \in Nat
<1> QED  BY <1>7 DEF X, Y, E

\* So it does a distance.
LEMMA TimesMoves ==
  ASSUME NEW x \in Nat, NEW y \in Nat, NEW e \in Nat, NEW f \in Fraction, Apart(x, y) <= e
  PROVE  Apart(Times(x, f), Times(y, f)) <= Times(e, f) + 1
<1>1. x <= y + e /\ y <= x + e
  BY DEF Apart
<1>2. Times(y, f) <= Times(x, f) + Times(e, f) + 1 /\ Times(x, f) <= Times(y, f) + Times(e, f) + 1
  BY <1>1, TimesOrder
<1>3. {Times(x, f), Times(y, f), Times(e, f)} \subseteq Nat
  BY TimesType
<1> QED  BY <1>2, <1>3 DEF Apart

\* Rounding moves a number by half a step, and what is more than half a step not to 0.
LEMMA NearestClose ==
  ASSUME NEW x \in Nat, NEW step \in Nat \ {0}, NEW y \in Nearest(x, step)
  PROVE  /\ y \in Nat /\ 2 * Apart(x, y) <= step
         /\ 2 * x > step => y >= step
<1> DEFINE k == x \div step
<1>1. k \in Nat /\ step * k <= x /\ x < step * k + step
  BY Division
<1>2. y \in {step * k, step * k + step} /\ 2 * Apart(x, y) <= step
  BY DEF Nearest
<1> HIDE DEF k
<1>3. step * k \in Nat /\ (k # 0 => step * k >= step) /\ (k = 0 => step * k = 0)
  <2>1. CASE k = 0
    BY <2>1
  <2>2. CASE k # 0
    <3>1. 1 * step <= k * step
      BY <1>1, <2>2, ProductOrder
    <3> QED  BY <1>1, <2>2, <3>1
  <2> QED  BY <2>1, <2>2
<1>4. y \in Nat
  BY <1>2, <1>3
<1>5. 2 * x > step => y >= step
  <2>1. CASE y = step * k + step
    BY <2>1, <1>3
  <2>2. CASE y = step * k /\ k # 0
    BY <2>2, <1>3
  <2>3. CASE y = 0
    BY <2>3, <1>2 DEF Apart
  <2> QED  BY <2>1, <2>2, <2>3, <1>2, <1>3
<1> QED  BY <1>2, <1>4, <1>5

\* The steps of the roundings, in parts, and how they compare.
LEMMA Thousandths ==
  \E k \in Nat \ {0} :
    /\ Scale = 30000 * k
    /\ Scale \div 10000 = 3 * k /\ Scale \div 1000 = 30 * k /\ Scale \div 200 = 150 * k
    /\ Scale \div 100 = 300 * k /\ Scale \div 20 = 1500 * k /\ Scale \div 10 = 3000 * k
    /\ Tolerance = 450 * k /\ Tolerance - 1 < 450 * k
<1>1. PICK k \in Nat \ {0} : Scale = 30000 * k
  <2>1. Scale = 30000 * (Scale \div 30000)
    BY QuantityAssumption
  <2> QED  BY <2>1, QuantityAssumption
<1>2. /\ Scale \div 10000 = 3 * k /\ Scale \div 1000 = 30 * k /\ Scale \div 200 = 150 * k
      /\ Scale \div 100 = 300 * k /\ Scale \div 20 = 1500 * k /\ Scale \div 10 = 3000 * k
  BY <1>1
<1>3. Tolerance = 450 * k /\ Tolerance - 1 < 450 * k
  BY <1>1 DEF Tolerance
<1> QED  BY <1>1, <1>2, <1>3

\* What a fraction sign stands for is a positive part of one.
LEMMA GlyphsPositive ==
  ASSUME NEW g \in Glyphs
  PROVE  g \in Nat \ {0}
<1>1. PICK k \in Nat \ {0} : Scale = 30000 * k
  BY Thousandths
<1>2. PICK f \in {<<1, 8>>, <<1, 4>>, <<1, 3>>, <<3, 8>>, <<1, 2>>, <<5, 8>>, <<2, 3>>, <<3, 4>>, <<7, 8>>} :
        g = Times(Scale, f)
  BY DEF Glyphs
<1>3. f[1] \in 1..7 /\ f[2] \in 1..8
  BY <1>2
<1>4. g = (30000 * k * f[1]) \div f[2]
  BY <1>1, <1>2 DEF Times
<1>5. 30000 * k * f[1] >= 8
  <2>1. k * f[1] >= 1 /\ k * f[1] \in Nat
    BY <1>3, ProductOrder
  <2> QED  BY <2>1, <1>3
<1>6. g \in Nat /\ 30000 * k * f[1] < f[2] * g + f[2]
  <2>1. 30000 * k \in Nat /\ f[1] \in Nat /\ f[2] \in Nat \ {0}
    BY <1>3
  <2>2. 30000 * k * f[1] \in Nat
    BY <2>1
  <2> QED  BY <1>4, <2>1, <2>2, Division
<1>7. g # 0
  BY <1>6, <1>5, <1>3
<1> QED  BY <1>6, <1>7

\* One, two or more decimals: never more than a twentieth off, never 0 for more than 0.
LEMMA DecimalsClose ==
  ASSUME NEW x \in Nat, NEW y \in Decimals(x)
  PROVE  y \in Nat /\ Apart(x, y) <= Scale \div 20 /\ (x > 0 => y > 0)
<1>1. PICK k \in Nat \ {0} : Scale \div 20 = 1500 * k /\ Scale \div 10 = 3000 * k /\ Scale \div 100 = 300 * k
  BY Thousandths
<1>2. CASE y \in Nearest(x, Scale \div 10) \ {0}
  <2>1. y \in Nat /\ 2 * Apart(x, y) <= 3000 * k /\ y # 0
    BY <1>1, <1>2, NearestClose
  <2> QED  BY <1>1, <2>1 DEF Apart
<1>3. CASE y \in Nearest(x, Scale \div 100) \ {0}
  <2>1. y \in Nat /\ 2 * Apart(x, y) <= 300 * k /\ y # 0
    BY <1>1, <1>3, NearestClose
  <2> QED  BY <1>1, <2>1 DEF Apart
<1>4. CASE y = x
  BY <1>1, <1>4 DEF Apart
<1> QED  BY <1>2, <1>3, <1>4 DEF Decimals

\* format_quantity, with its fraction signs, is never further off than that.
LEMMA FormatClose ==
  ASSUME NEW x \in Nat, NEW y \in FormatQuantity(x)
  PROVE  y \in Nat /\ Apart(x, y) <= Scale \div 20 /\ (x > 0 => y > 0)
<1> DEFINE part == x % Scale  whole == x - part
           Within(distance) == {whole + g : g \in {g \in Glyphs : Apart(part, g) <= distance}}
<1>0. PICK k \in Nat \ {0} : Scale = 30000 * k /\ Tolerance = 450 * k /\ Scale \div 20 = 1500 * k
  BY Thousandths
<1>1. part \in Nat /\ whole \in Nat
  BY QuantityAssumption
<1>2. ASSUME NEW distance \in Int, distance <= Tolerance, y \in Within(distance)
      PROVE  y \in Nat /\ Apart(x, y) <= Scale \div 20 /\ y > 0
  <2>1. PICK g \in Glyphs : Apart(part, g) <= distance /\ y = whole + g
    BY <1>2
  <2>2. g \in Nat \ {0}
    BY GlyphsPositive
  <2>3. Apart(part, g) <= 450 * k
    BY <1>0, <1>1, <1>2, <2>1, <2>2 DEF Apart
  <2>4. x = whole + part
    BY <1>1
  <2> HIDE DEF part, whole
  <2> QED  BY <1>0, <1>1, <2>1, <2>2, <2>3, <2>4 DEF Apart
<1>3. CASE y \in Within(Tolerance - 1) \cup Within(Tolerance)
  <2>1. Tolerance \in Int /\ Tolerance - 1 \in Int /\ Tolerance - 1 <= Tolerance
    BY <1>0
  <2> QED  BY <1>2, <1>3, <2>1
<1>4. CASE y = whole /\ part <= Tolerance /\ (whole # 0 \/ x = 0)
  <2>4. x = whole + part
    BY <1>1
  <2> HIDE DEF part, whole
  <2> QED  BY <1>0, <1>1, <1>4, <2>4 DEF Apart
<1>5. CASE y \in Decimals(x)
  BY <1>5, DecimalsClose
<1>6. y \in Within(Tolerance - 1) \cup Within(Tolerance) \/ y \in Decimals(x)
      \/ (y = whole /\ part <= Tolerance /\ (whole # 0 \/ x = 0))
  BY Zenon DEF FormatQuantity
<1> QED  BY <1>3, <1>4, <1>5, <1>6

\* format_amount is never more than half a hundredth off.
LEMMA AmountClose ==
  ASSUME NEW x \in Nat, NEW y \in FormatAmount(x)
  PROVE  y \in Nat /\ Apart(x, y) <= Scale \div 200
<1>1. PICK k \in Nat \ {0} : Scale \div 200 = 150 * k /\ Scale \div 10000 = 3 * k /\ Scale \div 100 = 300 * k
  BY Thousandths
<1>2. CASE y \in Nearest(x, Scale \div 100)
  <2>1. y \in Nat /\ 2 * Apart(x, y) <= 300 * k
    BY <1>1, <1>2, NearestClose
  <2> QED  BY <1>1, <2>1 DEF Apart
<1>3. CASE y \in Nearest(x, Scale \div 10000)
  <2>1. y \in Nat /\ 2 * Apart(x, y) <= 3 * k
    BY <1>1, <1>3, NearestClose
  <2> QED  BY <1>1, <2>1 DEF Apart
<1>4. CASE y = x
  BY <1>1, <1>4 DEF Apart
<1> QED  BY <1>2, <1>3, <1>4 DEF FormatAmount

\* The amount of a line is a number or unknown.
LEMMA NormalizedType ==
  ASSUME NEW a \in Ask
  PROVE  Normalized(a.quantity, a.unit, a.of) \in Nat \cup {None}
<1> DEFINE q == a.quantity  u == a.unit  m == a.of
           base == Times(q, u.factor)
           grams == CASE u.kind = "mass" -> base
                      [] m.weight # None /\ u.kind \in {"count", "volume"} -> Times(q, m.weight)
                      [] m.weight = None /\ u.kind = "volume" /\ m.density # None -> Times(base, m.density)
                      [] OTHER -> None
<1>1. q \in Nat /\ u.factor \in Fraction /\ {m.density, m.weight} \subseteq Positive \cup {None}
  <2>1. q \in Quantity /\ u \in Unit /\ m \in Measured
    BY DEF Ask
  <2> HIDE DEF q, u, m
  <2> QED  BY <2>1, QuantityAssumption DEF Fraction
<1>2. \A f \in Positive : f \in Fraction /\ <<f[2], f[1]>> \in Fraction
  BY DEF Positive, Fraction
<1>3. base \in Nat
  BY <1>1, TimesType
<1> HIDE DEF q, u, m, base
<1>4. grams \in Nat \cup {None}
  <2>1. m.weight # None => Times(q, m.weight) \in Nat
    BY <1>1, <1>2, TimesType
  <2>2. m.density # None => Times(base, m.density) \in Nat
    BY <1>1, <1>2, <1>3, TimesType
  <2> QED  BY <1>3, <2>1, <2>2
<1> HIDE DEF grams
<1>5. grams # None /\ m.density # None => Times(grams, <<m.density[2], m.density[1]>>) \in Nat
  BY <1>1, <1>2, <1>4, TimesType
<1>6. Normalized(q, u, m) =
        CASE u.kind = "ratio" -> None
          [] m.measure = "mass" -> grams
          [] m.measure = "volume" /\ u.kind = "volume" -> base
          [] OTHER -> IF grams = None \/ m.density = None THEN None
                      ELSE Times(grams, <<m.density[2], m.density[1]>>)
  BY DEF Normalized, grams, base
<1>7. Normalized(q, u, m) \in Nat \cup {None}
  BY <1>3, <1>4, <1>5, <1>6
<1> QED  BY <1>7 DEF q, u, m

\* What is written is stored as more than 0, and the parts are fine enough to tell what comes
\* of it from 0, whatever it is scaled by.
Readable ==
  /\ \A q \in Quantity : 2 * q > Scale \div 10000
  /\ \A f \in Factor : (Scale \div 10000) * f[1] >= f[2]

\* Storing a line rounds once.
Stored ==
  row # None =>
    LET exact == Normalized(ask.quantity, ask.unit, ask.of)
    IN  /\ ask \in Ask
        /\ row.quantity \in Nat
        /\ Apart(row.quantity, ask.quantity) <= (Scale \div 200) \div 100
        /\ Readable => row.quantity >= Scale \div 10000
        /\ (exact = None) = (row.amount = None)
        /\ exact # None => row.amount \in Nat /\ Apart(row.amount, exact) <= Scale \div 200

\* The invariant: where the line is written, how far what is stored and shown is from it.
QuantityInv ==
  /\ ask \in Ask \cup {None} /\ (ask = None => row = None /\ shown = None)
  /\ Stored
  /\ QuantityTypeOK
  /\ ShownClose /\ (Readable => ShownPositive)

\* What is written is a number, and None is none.
LEMMA QuantitiesNumbers == Quantity \subseteq Nat /\ None \notin Nat
BY QuantityAssumption

\* Distances.
LEMMA ApartSymmetric ==
  ASSUME NEW x \in Nat, NEW y \in Nat
  PROVE  Apart(x, y) = Apart(y, x) /\ Apart(x, y) \in Nat
BY DEF Apart

\* Writing a line keeps the invariant: one rounding of the quantity, one of the amount.
LEMMA LineWritten ==
  ASSUME QuantityInv, WriteLine
  PROVE  QuantityInv'
<1>0. ask = None /\ row = None /\ shown = None /\ shown' = shown
  BY DEF QuantityInv, WriteLine
<1>a. PICK a \in Ask :
        LET amount == Normalized(a.quantity, a.unit, a.of)
        IN  /\ ask' = a
            /\ \E q \in Nearest(a.quantity, Scale \div 10000),
                  n \in IF amount = None THEN {None} ELSE Nearest(amount, Scale \div 100) :
                 row' = [quantity |-> q, amount |-> n]
  BY DEF WriteLine
<1> DEFINE exact == Normalized(a.quantity, a.unit, a.of)
<1>1. ask' = a
  BY <1>a
<1>3. exact \in Nat \cup {None} /\ a.quantity \in Nat /\ a.quantity \in Quantity /\ None \notin Nat
  <2>1. exact \in Nat \cup {None}
    BY NormalizedType
  <2>2. a.quantity \in Quantity
    BY DEF Ask
  <2>3. a.quantity \in Nat
    BY <2>2, QuantitiesNumbers
  <2> QED  BY <2>1, <2>2, <2>3, QuantitiesNumbers
<1>2. PICK q \in Nearest(a.quantity, Scale \div 10000),
           n \in IF exact = None THEN {None} ELSE Nearest(exact, Scale \div 100) :
        row' = [quantity |-> q, amount |-> n]
  BY <1>a
<1>4. PICK k \in Nat \ {0} : Scale \div 200 = 150 * k /\ Scale \div 10000 = 3 * k /\ Scale \div 100 = 300 * k
  BY Thousandths
<1>5. /\ q \in Nat /\ 2 * Apart(a.quantity, q) <= 3 * k
      /\ Readable => q >= 3 * k
  BY <1>3, <1>4, NearestClose DEF Readable
<1>6. Apart(q, a.quantity) <= (150 * k) \div 100
  <2>1. Apart(q, a.quantity) = Apart(a.quantity, q) /\ Apart(q, a.quantity) \in Nat
    BY <1>3, <1>5 DEF Apart
  <2> QED  BY <1>5, <2>1
<1> HIDE DEF exact
<1>7. exact # None => n \in Nat /\ Apart(n, exact) <= 150 * k
  <2> SUFFICES ASSUME exact # None PROVE n \in Nat /\ Apart(n, exact) <= 150 * k
    OBVIOUS
  <2>1. n \in Nat /\ 2 * Apart(exact, n) <= 300 * k
    BY <1>2, <1>3, <1>4, NearestClose
  <2>2. Apart(n, exact) = Apart(exact, n) /\ Apart(n, exact) \in Nat
    BY <1>3, <2>1, ApartSymmetric
  <2> QED  BY <2>1, <2>2
<1>8. (exact = None) = (n = None)
  BY <1>2, <1>3, <1>7
<1>9. ask' = a /\ a # None
  BY <1>1, NoneIsNoLine
<1>10. Stored'
  <2>1. row'.quantity = q /\ row'.amount = n
    BY <1>2
  <2> QED  BY <1>4, <1>5, <1>6, <1>7, <1>8, <1>9, <2>1 DEF Stored, exact
<1>11. QuantityTypeOK'
  BY <1>0, <1>2, <1>5, <1>7, <1>8, <1>9 DEF QuantityTypeOK
<1> QED  BY <1>0, <1>9, <1>10, <1>11 DEF QuantityInv, ShownClose, ShownPositive

LEMMA ApartSum ==
  ASSUME NEW x \in Nat, NEW y \in Nat, NEW z \in Nat
  PROVE  Apart(x, z) <= Apart(x, y) + Apart(y, z)
BY DEF Apart

\* Scaling it does: the factor enlarges what storing lost, and showing loses once more.
LEMMA LineScaled ==
  ASSUME QuantityInv, ScaleLine
  PROVE  QuantityInv'
<1>0. row # None /\ ask' = ask /\ row' = row /\ ask \in Ask /\ ask # None /\ Stored
  BY NoneIsNoLine DEF QuantityInv, ScaleLine, Stored
<1> DEFINE exact == Normalized(ask.quantity, ask.unit, ask.of)  half == Scale \div 200
<1>a. PICK f \in Factor :
        \E q \in FormatQuantity(Times(row.quantity, f)),
           n \in IF row.amount = None THEN {None} ELSE FormatAmount(Times(row.amount, f)) :
          shown' = [factor |-> f, quantity |-> q, amount |-> n]
  BY DEF ScaleLine
<1>1. PICK q \in FormatQuantity(Times(row.quantity, f)),
           n \in IF row.amount = None THEN {None} ELSE FormatAmount(Times(row.amount, f)) :
        shown' = [factor |-> f, quantity |-> q, amount |-> n]
  BY <1>a
<1>2. f \in Fraction /\ f[1] \in Nat /\ f[2] \in Nat \ {0} /\ None \notin Nat
  BY QuantityAssumption DEF Positive, Fraction
<1>3. /\ row.quantity \in Nat /\ ask.quantity \in Nat /\ exact \in Nat \cup {None}
      /\ Apart(row.quantity, ask.quantity) <= half \div 100
      /\ Readable => row.quantity >= Scale \div 10000
      /\ (exact = None) = (row.amount = None)
      /\ exact # None => row.amount \in Nat /\ Apart(row.amount, exact) <= half
  <2>1. exact \in Nat \cup {None}
    BY <1>0, NormalizedType
  <2>2. ask.quantity \in Quantity
    BY <1>0 DEF Ask
  <2>3. ask.quantity \in Nat
    BY <2>2, QuantitiesNumbers
  <2> QED  BY <1>0, <2>1, <2>3 DEF Stored
<1>4. half \in Nat /\ half \div 100 \in Nat /\ Scale \div 20 \in Nat /\ Scale \div 10000 \in Nat
  BY Thousandths
<1> HIDE DEF exact, half
<1>5. Times(row.quantity, f) \in Nat /\ Times(ask.quantity, f) \in Nat /\ Times(half \div 100, f) \in Nat
      /\ Times(half, f) \in Nat
  BY <1>2, <1>3, <1>4, TimesType
<1>6. /\ q \in Nat /\ Apart(Times(row.quantity, f), q) <= Scale \div 20
      /\ Times(row.quantity, f) > 0 => q > 0
  BY <1>1, <1>5, FormatClose
<1>7. Apart(Times(row.quantity, f), Times(ask.quantity, f)) <= Times(half \div 100, f) + 1
  BY <1>2, <1>3, <1>4, TimesMoves
<1>8. Apart(q, Times(ask.quantity, f)) <= Scale \div 20 + Times(half \div 100, f) + 1
  <2> DEFINE x == Times(row.quantity, f)  z == Times(ask.quantity, f)  t == Times(half \div 100, f)
  <2>1. x \in Nat /\ z \in Nat /\ t \in Nat /\ q \in Nat
    BY <1>5, <1>6
  <2>2. Apart(x, q) <= Scale \div 20 /\ Apart(x, z) <= t + 1
    BY <1>6, <1>7
  <2> HIDE DEF x, z, t
  <2>3. Apart(q, z) <= Apart(q, x) + Apart(x, z) /\ Apart(q, x) = Apart(x, q)
        /\ Apart(q, z) \in Nat /\ Apart(q, x) \in Nat /\ Apart(x, z) \in Nat
    BY <2>1 DEF Apart
  <2>4. Apart(q, z) <= Scale \div 20 + t + 1
    BY <2>1, <2>2, <2>3, <1>4
  <2> QED  BY <2>4 DEF z, t
<1>9. exact # None => n \in Nat /\ Apart(n, Times(exact, f)) <= half + Times(half, f) + 1
  <2> SUFFICES ASSUME exact # None PROVE n \in Nat /\ Apart(n, Times(exact, f)) <= half + Times(half, f) + 1
    OBVIOUS
  <2> DEFINE x == Times(row.amount, f)  z == Times(exact, f)  t == Times(half, f)
  <2>1. x \in Nat /\ z \in Nat /\ t \in Nat
    BY <1>2, <1>3, <1>4, TimesType
  <2>2. n \in Nat /\ Apart(x, n) <= half
    BY <1>1, <1>3, <2>1, AmountClose DEF half
  <2>3. Apart(x, z) <= t + 1
    BY <1>2, <1>3, <1>4, TimesMoves
  <2> HIDE DEF x, z, t
  <2>4. Apart(n, z) <= Apart(n, x) + Apart(x, z) /\ Apart(n, x) = Apart(x, n)
        /\ Apart(n, z) \in Nat /\ Apart(n, x) \in Nat /\ Apart(x, z) \in Nat
    BY <2>1, <2>2 DEF Apart
  <2>5. Apart(n, z) <= half + t + 1
    BY <2>1, <2>2, <2>3, <2>4, <1>4
  <2> QED  BY <2>2, <2>5 DEF z, t
<1>10. (exact = None) = (n = None)
  BY <1>1, <1>2, <1>3, <1>9
<1>11. Readable => Times(row.quantity, f) > 0
  <2> SUFFICES ASSUME Readable PROVE Times(row.quantity, f) > 0
    OBVIOUS
  <2> DEFINE x == Times(row.quantity, f)
  <2>1. (Scale \div 10000) * f[1] >= f[2] /\ row.quantity >= Scale \div 10000
    BY <1>3 DEF Readable
  <2>2. (Scale \div 10000) * f[1] <= row.quantity * f[1] /\ (Scale \div 10000) * f[1] \in Nat
    BY <1>2, <1>3, <1>4, <2>1, ProductOrder
  <2>3. row.quantity * f[1] < f[2] * x + f[2] /\ row.quantity * f[1] \in Nat
    BY <1>2, <1>3, TimesType
  <2> HIDE DEF x
  <2>4. x # 0
    BY <1>2, <2>1, <2>2, <2>3
  <2> QED  BY <2>4, <1>5 DEF x
<1>12. QuantityTypeOK'
  BY <1>0, <1>1, <1>6, <1>9, <1>10 DEF QuantityTypeOK, QuantityInv
<1>13. ShownClose'
  BY <1>0, <1>1, <1>8, <1>9, <1>10 DEF ShownClose, exact, half
<1>14. Readable => ShownPositive'
  BY <1>1, <1>6, <1>11 DEF ShownPositive
<1>15. Stored'
  BY <1>0 DEF Stored
<1> QED  BY <1>0, <1>12, <1>13, <1>14, <1>15 DEF QuantityInv

\* The invariant holds throughout.
LEMMA QuantityInvariant == QuantitySpec => []QuantityInv
<1>1. QuantityInit => QuantityInv
  BY DEF QuantityInit, QuantityInv, Stored, QuantityTypeOK, ShownClose, ShownPositive
<1>2. QuantityInv /\ [QuantityNext]_quantityVars => QuantityInv'
  <2> SUFFICES ASSUME QuantityInv, [QuantityNext]_quantityVars PROVE QuantityInv'
    OBVIOUS
  <2>1. CASE WriteLine
    BY <2>1, LineWritten
  <2>2. CASE ScaleLine
    BY <2>2, LineScaled
  <2>3. CASE UNCHANGED quantityVars
    BY <2>3 DEF quantityVars, QuantityInv, Stored, QuantityTypeOK, ShownClose, ShownPositive
  <2> QED  BY <2>1, <2>2, <2>3 DEF QuantityNext
<1> QED  BY <1>1, <1>2, PTL DEF QuantitySpec

\* Whatever is written, in whatever unit, and scaled by whatever factor, what _scale_line shows
\* is what was written times the factor, to the tolerance of storing and showing it.
THEOREM QuantitiesClose == QuantitySpec => []ShownClose
<1>1. QuantityInv => ShownClose
  BY DEF QuantityInv
<1> QED  BY <1>1, QuantityInvariant, PTL

\* Where what is written is not below what its column holds, no positive quantity is shown as 0
\* either (format_quantity: "must never collapse to "0"").
THEOREM AmountsKept == Readable => (QuantitySpec => []AmountKept)
<1> SUFFICES ASSUME Readable PROVE QuantitySpec => []AmountKept
  OBVIOUS
<1>1. QuantityInv => AmountKept
  BY DEF QuantityInv, AmountKept
<1> QED  BY <1>1, QuantityInvariant, PTL

\* Rounding always finds a multiple.
LEMMA NearestFound ==
  ASSUME NEW x \in Nat, NEW step \in Nat \ {0}
  PROVE  Nearest(x, step) # {}
<1> DEFINE below == step * (x \div step)
<1>1. below \in Nat /\ below <= x /\ x < below + step
  BY Division
<1>2. 2 * Apart(x, below) <= step \/ 2 * Apart(x, below + step) <= step
  <2> HIDE DEF below
  <2> QED  BY <1>1 DEF Apart
<1> QED  BY <1>2 DEF Nearest

\* Every number can be shown: no branch of format_quantity and format_amount falls through.
LEMMA EachShown ==
  ASSUME NEW x \in Nat
  PROVE  FormatQuantity(x) # {} /\ FormatAmount(x) # {}
<1>1. PICK k \in Nat \ {0} :
        /\ Scale \div 10 = 3000 * k /\ Scale \div 100 = 300 * k /\ Scale \div 10000 = 3 * k
        /\ Tolerance = 450 * k
  BY Thousandths
<1>2. /\ Nearest(x, Scale \div 10) # {} /\ Nearest(x, Scale \div 100) # {}
      /\ Nearest(x, Scale \div 10000) # {}
  BY <1>1, NearestFound
<1>3. Decimals(x) # {}
  <2>1. CASE 0 \notin Nearest(x, Scale \div 10)
    <3>1. PICK y \in Nearest(x, Scale \div 10) : y # 0
      BY <1>2, <2>1
    <3> QED  BY <3>1 DEF Decimals
  <2>2. CASE 0 \in Nearest(x, Scale \div 10) /\ 0 \notin Nearest(x, Scale \div 100)
    <3>1. PICK y \in Nearest(x, Scale \div 100) : y # 0
      BY <1>2, <2>2
    <3> QED  BY <2>2, <3>1 DEF Decimals
  <2>3. CASE 0 \in Nearest(x, Scale \div 10) /\ 0 \in Nearest(x, Scale \div 100)
    <3>1. x \in Decimals(x)
      BY <2>3 DEF Decimals
    <3> QED  BY <3>1
  <2> QED  BY <2>1, <2>2, <2>3
<1>4. FormatAmount(x) # {}
  <2>1. CASE x = 0 \/ 0 \notin Nearest(x, Scale \div 100)
    <3>1. PICK y \in Nearest(x, Scale \div 100) : x # 0 => y # 0
      BY <1>2, <2>1
    <3>2. y \in FormatAmount(x)
      BY <3>1 DEF FormatAmount
    <3> QED  BY <3>2
  <2>2. CASE x # 0 /\ 0 \in Nearest(x, Scale \div 100)
    <3>1. PICK y \in Nearest(x, Scale \div 10000) : TRUE
      BY <1>2
    <3>2. y \in FormatAmount(x) \/ x \in FormatAmount(x)
      BY <2>2, <3>1 DEF FormatAmount
    <3> QED  BY <3>2
  <2> QED  BY <2>1, <2>2
<1>5. FormatQuantity(x) # {}
  <2> DEFINE part == x % Scale  whole == x - part  nearWhole == whole # 0 \/ x = 0
             Within(distance) == {whole + g : g \in {g \in Glyphs : Apart(part, g) <= distance}}
  <2>1. part \in Nat
    BY QuantityAssumption
  <2>2. part < Tolerance => part <= Tolerance
    BY <1>1, <2>1
  <2>3. FormatQuantity(x) =
          IF Within(Tolerance - 1) # {} THEN Within(Tolerance - 1)
          ELSE Within(Tolerance)
                 \cup (IF part <= Tolerance /\ nearWhole THEN {whole} ELSE {})
                 \cup (IF part < Tolerance /\ nearWhole THEN {} ELSE Decimals(x))
    BY Zenon DEF FormatQuantity
  <2> HIDE DEF part, whole, nearWhole, Within
  <2> QED  BY <1>3, <2>2, <2>3
<1> QED  BY <1>4, <1>5

\* What is stored can be shown at every factor: nothing above holds because a line is stuck.
THEOREM LinesShown ==
  QuantitySpec =>
    [](row # None => \A f \in Factor :
         /\ FormatQuantity(Times(row.quantity, f)) # {}
         /\ row.amount # None => FormatAmount(Times(row.amount, f)) # {})
<1>1. QuantityInv =>
        (row # None => \A f \in Factor :
           /\ FormatQuantity(Times(row.quantity, f)) # {}
           /\ row.amount # None => FormatAmount(Times(row.amount, f)) # {})
  <2> SUFFICES ASSUME QuantityInv, row # None, NEW f \in Factor
               PROVE  /\ FormatQuantity(Times(row.quantity, f)) # {}
                      /\ row.amount # None => FormatAmount(Times(row.amount, f)) # {}
    OBVIOUS
  <2>1. f \in Fraction
    BY QuantityAssumption DEF Positive, Fraction
  <2>2. row.quantity \in Nat /\ row.amount \in Nat \cup {None}
    BY DEF QuantityInv, QuantityTypeOK
  <2> QED  BY <2>1, <2>2, TimesType, EachShown
<1> QED  BY <1>1, QuantityInvariant, PTL

=============================================================================
