---------------------------- MODULE Conversations ----------------------------
(***************************************************************************)
(* What the assistant promises about conversations, whatever requests      *)
(* overlap or fail (ai/models.py has the rows): a turn that succeeds puts  *)
(* its question and its answer there in one step, once, and only where     *)
(* both have room; messages go only with their conversation.               *)
(***************************************************************************)
EXTENDS Naturals, FiniteSets

CONSTANTS Turn, Talk, MaxMessages

VARIABLES
  there,     \* conversations that exist for everybody
  held,      \* the messages of each
  succeeded  \* turns whose answer is kept, or was until its conversation was deleted

conversationVars == <<there, held, succeeded>>

ConversationsInit == there = {} /\ held = [c \in Talk |-> {}] /\ succeeded = {}

Open(c) ==
  /\ c \notin there /\ there' = there \cup {c}
  /\ UNCHANGED <<held, succeeded>>

Exchange(t, c) ==
  {[turn |-> t, talk |-> c, at |-> 1, role |-> "user"],
   [turn |-> t, talk |-> c, at |-> 2, role |-> "assistant"]}

\* A new conversation may begin with its first exchange.
Converse(t, c) ==
  /\ t \notin succeeded /\ succeeded' = succeeded \cup {t}
  /\ there' = there \cup {c}
  /\ held' = [held EXCEPT ![c] = @ \cup Exchange(t, c)]
  /\ Cardinality(held'[c]) <= MaxMessages

\* The conversations about a recipe, with the recipe.
Forget(about) ==
  /\ about \subseteq there /\ there' = there \ about
  /\ held' = [c \in Talk |-> IF c \in about THEN {} ELSE held[c]]
  /\ UNCHANGED succeeded

ConversationsNext ==
  \/ \E c \in Talk : Open(c) \/ \E t \in Turn : Converse(t, c)
  \/ \E about \in SUBSET Talk : Forget(about)

ConversationsKept == ConversationsInit /\ [][ConversationsNext]_conversationVars
=============================================================================
