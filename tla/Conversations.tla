----------------------------- MODULE Conversations -----------------------------
(***************************************************************************)
(* Questions posted to one conversation at the same time                   *)
(* (ConversationService.append_turn): each reads the turns so far, is      *)
(* answered by a model, and is stored under the next index, which another  *)
(* may take first.  A purge of the workspace may delete the conversation.  *)
(*                                                                         *)
(* A definition whose name ends in Mutant is the one that follows it with  *)
(* a plausible bug.                                                        *)
(***************************************************************************)
EXTENDS Naturals, FiniteSets, FiniteSetsExt

CONSTANTS
  MaxPosts  \* the calls of append_turn

Posts == 1 .. MaxPosts  \* in the order in which they arrive

VARIABLES
  exists,   \* the conversation's row
  turns,    \* the rows: <<turn_index, post>>, the index unique
  post,     \* where each call is: new, answer, number, insert, stored, refused, raised
  history,  \* the turns it told the model about
  number,   \* the index it read
  attempt,  \* 0, 1 or 2
  overtaken \* history: the turns stored since it began to store its own

talkVars == <<exists, turns, post, history, number, attempt, overtaken>>

TalkTypeOK ==
  /\ exists \in BOOLEAN
  /\ turns \subseteq (Nat \X Posts)
  /\ post \in [Posts -> {"new", "answer", "number", "insert", "stored", "refused", "raised"}]
  /\ \A p \in Posts : history[p] \subseteq (Nat \X Posts) /\ overtaken[p] \subseteq Posts
  /\ number \in [Posts -> Nat] /\ attempt \in [Posts -> 0 .. 2]

TalkInit ==
  /\ exists = TRUE /\ turns = {}
  /\ post = [p \in Posts |-> "new"]
  /\ history = [p \in Posts |-> {}] /\ overtaken = [p \in Posts |-> {}]
  /\ number = [p \in Posts |-> 0] /\ attempt = [p \in Posts |-> 0]

PostAt(p, place) == post' = [post EXCEPT ![p] = place]

\* Without the conversation: 404.
ReadTurns(p) ==
  /\ post[p] = "new" /\ \A q \in Posts : q < p => post[q] # "new"
  /\ history' = [history EXCEPT ![p] = turns]
  /\ PostAt(p, IF exists THEN "answer" ELSE "refused")
  /\ UNCHANGED <<exists, turns, number, attempt, overtaken>>

\* The model answers, or raises.
Answer(p) ==
  /\ post[p] = "answer"
  /\ \/ PostAt(p, "number") /\ overtaken' = [overtaken EXCEPT ![p] = {}]
     \/ PostAt(p, "raised") /\ UNCHANGED overtaken
  /\ UNCHANGED <<exists, turns, history, number, attempt>>

\* next_turn_index
NextTurnIndex == IF turns = {} THEN 1 ELSE Max({t[1] : t \in turns}) + 1

NumberMutant(p) ==
  /\ post[p] = "number"
  /\ number' = [number EXCEPT ![p] = IF attempt[p] = 0 THEN NextTurnIndex ELSE @]
  /\ PostAt(p, "insert")
  /\ UNCHANGED <<exists, turns, history, attempt, overtaken>>
Number(p) ==
  /\ post[p] = "number"
  /\ number' = [number EXCEPT ![p] = NextTurnIndex]
  /\ PostAt(p, "insert")
  /\ UNCHANGED <<exists, turns, history, attempt, overtaken>>

\* The index is taken, or the conversation is gone (its foreign key): the same
\* IntegrityError, and three of them are raised.
Insert(p) ==
  /\ post[p] = "insert"
  /\ IF exists /\ \A t \in turns : t[1] # number[p]
       THEN /\ turns' = turns \cup {<<number[p], p>>}
            /\ overtaken' = [q \in Posts |-> overtaken[q] \cup {p}]
            /\ PostAt(p, "stored") /\ UNCHANGED attempt
       ELSE /\ IF attempt[p] = 2
                 THEN PostAt(p, "raised") /\ UNCHANGED attempt
                 ELSE PostAt(p, "number") /\ attempt' = [attempt EXCEPT ![p] = @ + 1]
            /\ UNCHANGED <<turns, overtaken>>
  /\ UNCHANGED <<exists, history, number>>

\* purge_scope deletes the turns and the conversation in one transaction.
PurgeScope ==
  /\ exists
  /\ exists' = FALSE /\ turns' = {}
  /\ UNCHANGED <<post, history, number, attempt, overtaken>>

TalkNext ==
  \/ \E p \in Posts : ReadTurns(p) \/ Answer(p) \/ Number(p) \/ Insert(p)
  \/ PurgeScope

TalkSpec == TalkInit /\ [][TalkNext]_talkVars

-----------------------------------------------------------------------------
(* Safety.                                                                   *)

\* An answer the model gave is thrown away only where the conversation went, or
\* three others were stored while it was trying; and a turn comes after all
\* those its answer was given, with no index left out.
AnswersAreKept ==
  /\ \A p \in Posts :
       post[p] = "raised" /\ attempt[p] = 2 /\ exists => Cardinality(overtaken[p] \ {p}) >= 3
  /\ \A t \in turns : \A h \in history[t[2]] : h \in turns /\ h[1] < t[1]
  /\ {t[1] : t \in turns} = 1 .. Cardinality(turns)
=============================================================================
