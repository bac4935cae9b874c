----------------------------- MODULE Assistant ------------------------------
(***************************************************************************)
(* The AI assistant (ai/service.py): conversations about a recipe or about *)
(* the whole cookbook, and transformations of a recipe.                    *)
(*                                                                         *)
(* A request is one READ COMMITTED transaction: it reads, waits for the    *)
(* language model, and writes when the answer is there.  Requests of one   *)
(* user overlap.  append_message changes the conversation's row too, so    *)
(* the first message a turn appends locks it until the end.                *)
(*                                                                         *)
(* Abstractions.  There is one user; recipes are readable, hidden by a     *)
(* change of cookbooks, or deleted.  A turn runs once.  The texts are left *)
(* out; a message has its place in its turn, which is what created_at      *)
(* tells of the messages one turn appends.  What an answer costs is left   *)
(* out.                                                                    *)
(***************************************************************************)
EXTENDS Absent, Naturals, FiniteSets

CONSTANTS
  Turn,    \* requests
  Talk,    \* conversations
  Topic,   \* recipes
  MaxMessages  \* MAX_MESSAGES_PER_CONVERSATION

ASSUME AssistantAssumption ==
  /\ None \notin Turn \cup Talk \cup Topic
  /\ MaxMessages \in Nat

VARIABLES
  topic,     \* what the user may do with each recipe
  talk,      \* conversations: kind, recipe, the turn that has not committed the row
  log,       \* messages: turn, conversation, place in the turn, role
  turn,      \* the requests
  draft      \* drafts of transformations, each with its job under review: turn, source

assistantVars == <<topic, talk, log, turn, draft>>

Feature == {"chat", "qa", "transform"}
Phase == {"new", "asking", "answered", "waiting", "asked", "complete", "done", "failed"}
Kind == {"recipe_chat", "cookbook_qa"}
Conversation == [kind : Kind, topic : Topic \cup {None}, by : Turn \cup {None}]
Message == [turn : Turn, talk : Talk, at : {1, 2}, role : {"user", "assistant"}]

ASSUME NoneIsNoRow == None \notin Conversation

AssistantTypeOK ==
  /\ topic \in [Topic -> {"readable", "hidden", "deleted"}]
  /\ talk \in [Talk -> Conversation \cup {None}]
  /\ log \subseteq Message
  /\ turn \in [Turn -> [phase : Phase, feature : Feature \cup {None}, talk : Talk \cup {None},
                        topic : Topic \cup {None}]]
  /\ draft \subseteq [turn : Turn, source : Topic \cup {None}]
  /\ \A m \in log : talk[m.talk] # None
  /\ \A c \in Talk : talk[c] # None /\ talk[c].topic # None => topic[talk[c].topic] # "deleted"
  /\ \A d \in draft : d.source # None => topic[d.source] # "deleted"

AssistantInit ==
  /\ topic = [r \in Topic |-> "readable"]
  /\ talk = [c \in Talk |-> None]
  /\ log = {}
  /\ turn = [t \in Turn |-> [phase |-> "new", feature |-> None, talk |-> None, topic |-> None]]
  /\ draft = {}

-----------------------------------------------------------------------------
(* Conversations *)

Owned(t, c) == talk[c] # None /\ talk[c].by \in {None, t}
Committed(t) == turn[t].phase = "done"
Own(t) == {m \in log : m.turn = t}
Messages(t, c) == {m \in log : m.talk = c /\ (m.turn = t \/ Committed(m.turn))}
Unused == {c \in Talk : talk[c] = None /\ \A t \in Turn : turn[t].talk # c}  \* new ids

CreateConversation ==
  \E c \in Unused, k \in Kind, r \in Topic \cup {None} :
    /\ r # None => topic[r] = "readable"
    /\ talk' = [talk EXCEPT ![c] = [kind |-> k, topic |-> r, by |-> None]]
    /\ UNCHANGED <<topic, log, turn, draft>>

\* enforce_message_cap
HasRoom(t, c) == Cardinality(Messages(t, c)) < MaxMessages

\* The check before the model is asked.
RoomForBoth(t, c) == Cardinality(Messages(t, c)) + 2 <= MaxMessages

-----------------------------------------------------------------------------
(* A request, up to the model's answer *)

Start(t, feature, c, r) ==
  /\ turn[t].phase = "new"
  /\ turn' = [turn EXCEPT ![t] = [phase |-> "asking", feature |-> feature, talk |-> c, topic |-> r]]
  /\ UNCHANGED <<topic, talk, log, draft>>

AskChat(t) ==
  \E c \in Talk :
    /\ Owned(t, c) /\ talk[c].topic # None
    /\ topic[talk[c].topic] = "readable"
    /\ RoomForBoth(t, c)
    /\ Start(t, "chat", c, None)

AskCookbook(t) ==
  \/ \E c \in Talk :
       Owned(t, c) /\ talk[c].kind = "cookbook_qa" /\ RoomForBoth(t, c) /\ Start(t, "qa", c, None)
  \/ MaxMessages >= 2 /\ Start(t, "qa", None, None)

\* An instruction that only scales the recipe is refused, and nothing starts.
AskTransform(t) == \E r \in Topic : topic[r] = "readable" /\ Start(t, "transform", None, r)

Answer(t) ==
  /\ turn[t].phase = "asking"
  /\ turn' = [turn EXCEPT ![t].phase = "answered"]
  /\ UNCHANGED <<topic, talk, log, draft>>

\* The cost cap, an error of the model or too many tool calls.
Unanswered(t) ==
  /\ turn[t].phase = "asking"
  /\ turn' = [turn EXCEPT ![t].phase = "failed"]
  /\ UNCHANGED <<topic, talk, log, draft>>

-----------------------------------------------------------------------------
(* Writing what came of it *)

Append1(t, c, role) ==
  log \cup {[turn |-> t, talk |-> c, at |-> Cardinality(Own(t)) + 1, role |-> role]}

\* cookbook_qa_turn: a new conversation, only now.
OpenConversation(t) ==
  /\ turn[t].phase = "answered" /\ turn[t].feature = "qa" /\ turn[t].talk = None
  /\ Unused # {}
  /\ LET c == CHOOSE d \in Unused : TRUE
     IN  /\ talk' = [talk EXCEPT ![c] = [kind |-> "cookbook_qa", topic |-> None, by |-> t]]
         /\ turn' = [turn EXCEPT ![t].talk = c]
  /\ UNCHANGED <<topic, log, draft>>

\* The first append_message: the message, and then the lock on the conversation.
AppendQuestion(t) ==
  LET c == turn[t].talk
  IN  /\ turn[t].phase = "answered" /\ c # None
      /\ Owned(t, c) /\ HasRoom(t, c)
      /\ log' = Append1(t, c, "user")
      /\ turn' = [turn EXCEPT ![t].phase = "waiting"]
      /\ UNCHANGED <<topic, talk, draft>>

\* Mutant of Locked: a lock only until the answer is appended.
LockedForAsking(c) == \E t \in Turn : turn[t].talk = c /\ turn[t].phase = "asked"

Locked(c) == \E t \in Turn : turn[t].talk = c /\ turn[t].phase \in {"asked", "complete"}

LockConversation(t) ==
  /\ turn[t].phase = "waiting" /\ ~Locked(turn[t].talk)
  /\ turn' = [turn EXCEPT ![t].phase = "asked"]
  /\ UNCHANGED <<topic, talk, log, draft>>

\* The second append_message counts again, with the lock.
AppendAnswer(t) ==
  LET c == turn[t].talk
  IN  /\ turn[t].phase = "asked" /\ HasRoom(t, c)
      /\ log' = Append1(t, c, "assistant")
      /\ turn' = [turn EXCEPT ![t].phase = "complete"]
      /\ UNCHANGED <<topic, talk, draft>>

\* transform_recipe: drafts in a savepoint and a job under review; the source must exist.
SaveDraft(t) ==
  /\ turn[t].phase = "answered" /\ turn[t].feature = "transform"
  /\ topic[turn[t].topic] # "deleted"
  /\ turn' = [turn EXCEPT ![t].phase = "done"]
  /\ draft' = draft \cup {[turn |-> t, source |-> turn[t].topic]}
  /\ UNCHANGED <<topic, talk, log>>

CommitTurn(t) ==
  /\ turn[t].phase = "complete"
  /\ turn' = [turn EXCEPT ![t].phase = "done"]
  /\ talk' = [c \in Talk |-> IF talk[c] # None /\ talk[c].by = t
                             THEN [talk[c] EXCEPT !.by = None] ELSE talk[c]]
  /\ UNCHANGED <<topic, log, draft>>

\* Mutant of RollBack: a connection that commits at the first error.
RollBackNothing(t) ==
  /\ turn[t].phase \in {"answered", "waiting", "asked", "complete"}
  /\ turn' = [turn EXCEPT ![t].phase = "failed"]
  /\ UNCHANGED <<topic, talk, log, draft>>

\* Whatever the request has flushed, the usage rows with it, is rolled back: a full or
\* deleted conversation, an output without a recipe, a lost connection.
RollBack(t) ==
  /\ turn[t].phase \in {"answered", "waiting", "asked", "complete"}
  /\ turn' = [turn EXCEPT ![t].phase = "failed"]
  /\ talk' = [c \in Talk |-> IF talk[c] # None /\ talk[c].by = t THEN None ELSE talk[c]]
  /\ log' = {m \in log : m.turn # t}
  /\ UNCHANGED <<topic, draft>>

-----------------------------------------------------------------------------
(* The rest of the application *)

ChangeAccess ==
  \E r \in Topic :
    /\ topic[r] # "deleted"
    /\ topic' = [topic EXCEPT ![r] = IF @ = "readable" THEN "hidden" ELSE "readable"]
    /\ UNCHANGED <<talk, log, turn, draft>>

\* The cascade takes the conversations about the recipe, and waits for those locked.
DeleteTopic ==
  \E r \in Topic :
    LET about == {c \in Talk : talk[c] # None /\ talk[c].topic = r}
        waiting == {t \in Turn : turn[t].phase = "waiting" /\ turn[t].talk \in about}
    IN  /\ topic[r] # "deleted"
        /\ \A c \in about : ~Locked(c)
        /\ topic' = [topic EXCEPT ![r] = "deleted"]
        /\ talk' = [c \in Talk |-> IF c \in about THEN None ELSE talk[c]]
        /\ log' = {m \in log : m.talk \notin about}
        /\ turn' = [t \in Turn |-> IF t \in waiting THEN [turn[t] EXCEPT !.phase = "failed"]
                                   ELSE turn[t]]
        /\ draft' = {IF d.source = r THEN [d EXCEPT !.source = None] ELSE d : d \in draft}

AssistantNext ==
  \/ \E t \in Turn :
       \/ AskChat(t) \/ AskCookbook(t) \/ AskTransform(t) \/ Answer(t) \/ Unanswered(t)
       \/ OpenConversation(t) \/ AppendQuestion(t) \/ LockConversation(t) \/ AppendAnswer(t)
       \/ SaveDraft(t) \/ CommitTurn(t) \/ RollBack(t)
  \/ CreateConversation
  \/ ChangeAccess
  \/ DeleteTopic

AssistantSpec == AssistantInit /\ [][AssistantNext]_assistantVars

-----------------------------------------------------------------------------
(* Properties *)

\* No partial exchange: a conversation has the question and then the answer of every turn that
\* succeeded in it, and nothing of one that failed.
WholeExchanges ==
  \A t \in Turn :
    LET held == Committed(t) /\ turn[t].talk # None /\ talk[turn[t].talk] # None
    IN  turn[t].phase \in {"done", "failed"} =>
          {<<m.talk, m.at, m.role>> : m \in Own(t)} =
            IF held THEN {<<turn[t].talk, 1, "user">>, <<turn[t].talk, 2, "assistant">>} ELSE {}

-----------------------------------------------------------------------------
(* The promise of Conversations, by what everybody sees *)

Promise == INSTANCE Conversations WITH
  there <- {c \in Talk : talk[c] # None /\ talk[c].by = None},
  held <- [c \in Talk |-> {m \in log : m.talk = c /\ Committed(m.turn)}],
  succeeded <- {t \in Turn : Committed(t) /\ turn[t].talk # None}

\* Turns that overlap, fail or race a deletion come out one by one: what a turn that succeeded
\* has said and was answered appears whole and at once, is never said twice and never partly
\* lost, and the cap holds as each comes.
ImplementsConversations == Promise!ConversationsKept

=============================================================================
