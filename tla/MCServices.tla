------------------------------ MODULE MCServices ------------------------------
(***************************************************************************)
(* Six small instances in one run: answers of the recursive language       *)
(* model engine, requests of agents, the purge of a workspace, a search,   *)
(* posts to a conversation, the chunking of a document.  They share no     *)
(* state; "service" says whose behaviour it is, and the variables of the   *)
(* others keep the values they have in an initial state.                   *)
(***************************************************************************)
EXTENDS RlmSession, AgentRequests, Workspaces, Retrieval, Conversations, Chunking

CONSTANTS h1, k1, k2

VARIABLE service

\* Requests: three with two keys, a limit of two, one slot in the store.
Repeats == {<<k1, k1, k1>>, <<k1, k1, k2>>}
NoSkew == [h \in {h1} |-> 0]

\* Chunking: up to three paragraphs in two sections, below, at and above the
\* budget, with overlaps below it.  (TLC keeps the value of Short, not that of
\* what a constant is replaced by.)
Overlaps == {[budget |-> 6, overlap |-> o] : o \in {0, 2, 5}}
Short == {d \in SeqOf(SeqOf({1, 3, 5, 9}, 3), 2) : Len(FlattenSeq(d)) <= 3}
ShortTexts == Short

vars == <<service, rlmVars, agentVars, workspaceVars, searchVars, talkVars, chunkVars>>

InitAll ==
  /\ service \in {"rlm", "agents", "workspaces", "search", "talk", "chunks"}
  /\ Init /\ WorkspaceInit /\ TalkInit
  /\ RequestInit /\ (service # "agents" => backend = "redis" /\ key = <<k1, k1, k1>>)
  /\ SearchInit /\ (service # "search" => rows = Chunks /\ ~options.filtered /\ ~options.reranked)
  /\ ChunkInit /\ (service # "chunks" => document = <<>> /\ setting.overlap = 0)

NextAll ==
  /\ UNCHANGED service
  /\ \/ service = "rlm" /\ Next
        /\ UNCHANGED <<agentVars, workspaceVars, searchVars, talkVars, chunkVars>>
     \/ service = "agents" /\ RequestNext
        /\ UNCHANGED <<rlmVars, workspaceVars, searchVars, talkVars, chunkVars>>
     \/ service = "workspaces" /\ WorkspaceNext
        /\ UNCHANGED <<rlmVars, agentVars, searchVars, talkVars, chunkVars>>
     \/ service = "search" /\ SearchNext
        /\ UNCHANGED <<rlmVars, agentVars, workspaceVars, talkVars, chunkVars>>
     \/ service = "talk" /\ TalkNext
        /\ UNCHANGED <<rlmVars, agentVars, workspaceVars, searchVars, chunkVars>>
     \/ service = "chunks" /\ ChunkNext
        /\ UNCHANGED <<rlmVars, agentVars, workspaceVars, searchVars, talkVars>>

\* RlmSession's fairness.
Turn(Action) ==
  /\ service = "rlm" /\ Action
  /\ UNCHANGED <<service, agentVars, workspaceVars, searchVars, talkVars, chunkVars>>
FairTurns ==
  /\ WF_vars(Turn(Build)) /\ WF_vars(Turn(Finish))
  /\ \A d \in Depths : WF_vars(Turn(Parent(d)))

SpecOfAll == InitAll /\ [][NextAll]_vars /\ FairTurns

-----------------------------------------------------------------------------
\* Each variable of each service has its type.
TypesOfAll ==
  TypeOK /\ RequestTypeOK /\ WorkspaceTypeOK /\ SearchTypeOK /\ TalkTypeOK /\ ChunkTypeOK
================================================================================
