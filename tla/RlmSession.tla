------------------------------ MODULE RlmSession ------------------------------
(***************************************************************************)
(* One question answered by the recursive language model engine:           *)
(* RLMSession's loop of model turns, the sandbox child that runs the code  *)
(* blocks of a turn, the frames between the two, and the sessions an       *)
(* rlm(...) call of the code starts one level down.                        *)
(*                                                                         *)
(* Everything in the parent is synchronous, so at most one session per     *)
(* depth exists and the deepest one is the one that runs.  The model and   *)
(* the code it writes may do anything the interface allows.  A definition  *)
(* whose name ends in Mutant is the one that follows it with a plausible   *)
(* bug.                                                                    *)
(***************************************************************************)
EXTENDS Integers, Sequences, FiniteSets

CONSTANTS
  MaxDepth,     \* rlm_max_depth
  MaxIters,     \* rlm_max_iters
  NestedIters,  \* max_iters of a nested session
  SubBudget,    \* rlm_sub_budget
  MaxBlocks,    \* bound: code blocks in one reply of the model
  CpuFrames     \* bound: frames a child sends before RLIMIT_CPU stops it

\* What the configuration accepts; a nested session takes four turns.
Settings ==
  /\ MaxDepth \in Nat /\ SubBudget \in Nat
  /\ MaxIters \in Nat \ {0} /\ NestedIters \in Nat \ {0}
  /\ MaxBlocks \in Nat /\ CpuFrames \in Nat
ASSUME SettingsAssumption == Settings

VARIABLES
  phase,    \* of the answer: build, run, answered, failed
  at,       \* where the session of each depth is
  turn,     \* model turns it has taken
  budget,   \* its sub_budget
  used,     \* its sub_calls
  blocks,   \* code blocks of the reply at hand
  results,  \* per block, the block whose output answers it; 0 is an error
  outcome,  \* what the session returns
  child,    \* its sandbox process
  runs,     \* the block the child was last given
  wire,     \* frames from the child: <<operation, block>>
  sent      \* frames the child has sent

session == <<at, turn, budget, used, blocks, results, outcome>>
sandbox == <<child, runs, wire, sent>>
rlmVars == <<phase, session, sandbox>>

Larger(a, b) == IF a > b THEN a ELSE b
Depths == 0 .. Larger(MaxDepth - 1, 0)
Rpc == {"docs", "llm", "rlm"}
Ending == {"stdout", "error"}        \* frames that end a block
NoResults == [b \in {} |-> 0]

TypeOK ==
  /\ phase \in {"build", "run", "answered", "failed"}
  /\ at \in [Depths -> {"none", "open", "call", "exec", "serve", "nested", "forced", "close", "return"}]
  /\ turn \in [Depths -> 0 .. Larger(MaxIters, NestedIters)]
  /\ budget \in [Depths -> Nat] /\ used \in [Depths -> Nat]
  /\ blocks \in [Depths -> 0 .. MaxBlocks]
  /\ \A d \in Depths : results[d] \in [1 .. Cardinality(DOMAIN results[d]) -> 0 .. MaxBlocks]
  /\ outcome \in [Depths -> {"none", "answer", "error"}]
  /\ child \in [Depths -> {"none", "idle", "busy", "asking", "exited"}]
  /\ runs \in [Depths -> 0 .. MaxBlocks]
  /\ \A d \in Depths : wire[d] \in Seq((Rpc \cup Ending \cup {"final", "bad"}) \X (1 .. MaxBlocks))
  /\ sent \in [Depths -> 0 .. CpuFrames]

Init ==
  /\ phase = "build"
  /\ at = [d \in Depths |-> "none"] /\ turn = [d \in Depths |-> 0]
  /\ budget = [d \in Depths |-> 0] /\ used = [d \in Depths |-> 0]
  /\ blocks = [d \in Depths |-> 0] /\ results = [d \in Depths |-> NoResults]
  /\ outcome = [d \in Depths |-> "none"]
  /\ child = [d \in Depths |-> "none"] /\ runs = [d \in Depths |-> 0]
  /\ wire = [d \in Depths |-> <<>>] /\ sent = [d \in Depths |-> 0]

Iters(d) == IF d = 0 THEN MaxIters ELSE NestedIters
Goto(d, place) == at' = [at EXCEPT ![d] = place]
Give(d, what) == outcome' = [outcome EXCEPT ![d] = what]

-----------------------------------------------------------------------------
(* The answer.                                                               *)

\* A session of depth d with its budget; its counters start at nothing.
Push(d, calls, places) ==
  /\ at' = [places EXCEPT ![d] = "open"]
  /\ turn' = [turn EXCEPT ![d] = 0]
  /\ budget' = [budget EXCEPT ![d] = calls]
  /\ blocks' = [blocks EXCEPT ![d] = 0]
  /\ results' = [results EXCEPT ![d] = NoResults]
  /\ outcome' = [outcome EXCEPT ![d] = "none"]

\* An empty corpus is answered without the engine.
Build ==
  /\ phase = "build"
  /\ \/ phase' = "answered" /\ UNCHANGED session
     \/ phase' = "run" /\ Push(0, SubBudget, at) /\ UNCHANGED used
  /\ UNCHANGED sandbox

Finish ==
  /\ at[0] = "return"
  /\ phase' = IF outcome[0] = "answer" THEN "answered" ELSE "failed"
  /\ Goto(0, "none")
  /\ UNCHANGED <<turn, budget, used, blocks, results, outcome, sandbox>>

-----------------------------------------------------------------------------
(* The loop of a session.                                                    *)

\* The process may not start: a nested session's text travels in its environment.
Open(d) ==
  /\ at[d] = "open"
  /\ \/ /\ child' = [child EXCEPT ![d] = "idle"] /\ sent' = [sent EXCEPT ![d] = 0]
        /\ Goto(d, "call") /\ UNCHANGED outcome
     \/ /\ Goto(d, "return") /\ Give(d, "error") /\ UNCHANGED <<child, sent>>
  /\ UNCHANGED <<phase, turn, budget, used, blocks, results, runs, wire>>

\* chat_raw: text ends the session, code blocks are run, six failures raise.
CallModel(d) ==
  /\ at[d] = "call"
  /\ turn' = [turn EXCEPT ![d] = @ + 1]
  /\ \/ \E n \in 1 .. MaxBlocks :
          /\ blocks' = [blocks EXCEPT ![d] = n] /\ results' = [results EXCEPT ![d] = NoResults]
          /\ Goto(d, "exec") /\ UNCHANGED outcome
     \/ \E what \in {"answer", "error"} :
          Give(d, what) /\ Goto(d, "close") /\ UNCHANGED <<blocks, results>>
  /\ UNCHANGED <<phase, budget, used, sandbox>>

Block(d) == Cardinality(DOMAIN results[d]) + 1

\* A block has its output: on with the next one, the next turn or the forced answer.
Answered(d, by) ==
  /\ results' = [results EXCEPT ![d] = [b \in 1 .. Block(d) |-> IF b = Block(d) THEN by ELSE @[b]]]
  /\ Goto(d, IF Block(d) < blocks[d] THEN "exec"
             ELSE IF turn[d] < Iters(d) THEN "call" ELSE "forced")

\* A dead sandbox: every block without a result gets an error, and no more turns.
TerminatedMutant(d) ==
  /\ results' = [results EXCEPT ![d] = [b \in 1 .. Block(d) |-> IF b = Block(d) THEN 0 ELSE @[b]]]
  /\ Goto(d, "forced")
  /\ child' = [child EXCEPT ![d] = "none"] /\ wire' = [wire EXCEPT ![d] = <<>>]
  /\ UNCHANGED <<phase, turn, budget, used, blocks, outcome, runs, sent>>
Terminated(d) ==
  /\ results' = [results EXCEPT ![d] = [b \in 1 .. blocks[d] |-> IF b \in DOMAIN @ THEN @[b] ELSE 0]]
  /\ Goto(d, "forced")
  /\ child' = [child EXCEPT ![d] = "none"] /\ wire' = [wire EXCEPT ![d] = <<>>]
  /\ UNCHANGED <<phase, turn, budget, used, blocks, outcome, runs, sent>>

Exec(d) ==
  /\ at[d] = "exec" /\ child[d] # "exited"
  /\ child' = [child EXCEPT ![d] = "busy"] /\ runs' = [runs EXCEPT ![d] = Block(d)]
  /\ Goto(d, "serve")
  /\ UNCHANGED <<phase, turn, budget, used, blocks, results, outcome, wire, sent>>

ExecFails(d) == at[d] = "exec" /\ child[d] = "exited" /\ Terminated(d)

\* The turns are over or the sandbox is dead: one more call, without tools.
Forced(d) ==
  /\ at[d] = "forced"
  /\ \E what \in {"answer", "error"} : Give(d, what)
  /\ Goto(d, "close")
  /\ UNCHANGED <<phase, turn, budget, used, blocks, results, sandbox>>

\* The finally of the loop: shut the child down, wait, kill it.
CloseMutant(d) ==
  /\ at[d] = "close"
  /\ child' = [child EXCEPT ![d] = IF outcome[d] = "error" THEN @ ELSE "none"]
  /\ wire' = [wire EXCEPT ![d] = <<>>]
  /\ Goto(d, "return")
  /\ UNCHANGED <<phase, turn, budget, used, blocks, results, outcome, runs, sent>>
Close(d) ==
  /\ at[d] = "close"
  /\ child' = [child EXCEPT ![d] = "none"] /\ wire' = [wire EXCEPT ![d] = <<>>]
  /\ Goto(d, "return")
  /\ UNCHANGED <<phase, turn, budget, used, blocks, results, outcome, runs, sent>>

-----------------------------------------------------------------------------
(* The frames of the child, one at a time; the deadline starts anew with each. *)

Frame(d) == Head(wire[d])
Serves(d, operation) == at[d] = "serve" /\ wire[d] # <<>> /\ Frame(d)[1] = operation
Read(d) == wire' = [wire EXCEPT ![d] = Tail(@)]

BlockEnds(d) ==
  /\ \E operation \in Ending : Serves(d, operation)
  /\ Read(d) /\ Answered(d, Frame(d)[2])
  /\ UNCHANGED <<phase, turn, budget, used, blocks, outcome, child, runs, sent>>

\* Resolving its citations may raise, where there are documents: a page that is
\* no number, a document without pages.
Final(d) ==
  /\ Serves(d, "final")
  /\ \E what \in {"answer"} \cup (IF d = 0 THEN {"error"} ELSE {}) : Give(d, what)
  /\ Read(d) /\ Goto(d, "close")
  /\ UNCHANGED <<phase, turn, budget, used, blocks, results, child, runs, sent>>

\* An unknown function, or an argument that is no string: docs[0].
BadFrame(d) == Serves(d, "bad") /\ Terminated(d)

\* The deadline passes without a frame, or the child is gone.
ChildSilentMutant(d) ==
  /\ at[d] = "serve" /\ wire[d] = <<>> /\ child[d] = "exited"
  /\ Terminated(d)
ChildSilent(d) ==
  /\ at[d] = "serve" /\ wire[d] = <<>>
  /\ Terminated(d)

\* What a call answers goes back to the child; the write to a child that is gone
\* terminates the block, here with the read that follows.
Reply(d, processes) ==
  child' = [processes EXCEPT ![d] = IF @ = "asking" THEN "busy" ELSE @]

Docs(d) ==
  /\ Serves(d, "docs")
  /\ Read(d) /\ Reply(d, child)
  /\ UNCHANGED <<phase, session, runs, sent>>

\* The conditions under which rlm(...) is a flat llm(...).
Flat(d) == d + 1 >= MaxDepth \/ used[d] >= budget[d]
CallsLlm(d) == Serves(d, "llm") \/ (Serves(d, "rlm") /\ Flat(d))

\* An exhausted budget is an answer of its own.
Llm(d) ==
  /\ CallsLlm(d)
  /\ IF used[d] < budget[d]
       THEN used' = [used EXCEPT ![d] = @ + 1]
       ELSE UNCHANGED used
  /\ Read(d) /\ Reply(d, child)
  /\ UNCHANGED <<phase, at, turn, budget, blocks, results, outcome, runs, sent>>

\* A nested session gets what is left of the budget, and two calls at least.
Rlm(d) ==
  /\ Serves(d, "rlm") /\ ~Flat(d)
  /\ used' = [used EXCEPT ![d] = @ + 1, ![d + 1] = 0]
  /\ Push(d + 1, Larger(2, budget[d] - used'[d]), [at EXCEPT ![d] = "nested"])
  /\ Read(d)
  /\ UNCHANGED <<phase, child, runs, sent>>

\* What the nested session returns, or the error it raised, answers the call.
NestedReturns(d) ==
  /\ at[d] = "nested" /\ at[d + 1] = "return"
  /\ at' = [at EXCEPT ![d] = "serve", ![d + 1] = "none"]
  /\ Reply(d, child)
  /\ UNCHANGED <<phase, turn, budget, used, blocks, results, outcome, runs, wire, sent>>

-----------------------------------------------------------------------------
(* The child: whatever code it was given, within RLIMIT_CPU.                 *)

Send(d, operation) ==
  /\ child[d] = "busy" /\ sent[d] < CpuFrames
  /\ sent' = [sent EXCEPT ![d] = @ + 1]
  /\ wire' = [wire EXCEPT ![d] = Append(@, <<operation, runs[d]>>)]

ChildAsks(d) ==
  /\ \E operation \in Rpc \cup {"bad"} : Send(d, operation)
  /\ child' = [child EXCEPT ![d] = "asking"]
  /\ UNCHANGED <<phase, session, runs>>

\* Code that catches what final() raises goes on after the frame.
ChildFinishes(d) ==
  /\ \/ \E operation \in Ending \cup {"final"} :
          Send(d, operation) /\ child' = [child EXCEPT ![d] = "idle"]
     \/ Send(d, "final") /\ UNCHANGED child
  /\ UNCHANGED <<phase, session, runs>>

ChildExits(d) ==
  /\ child[d] \in {"idle", "busy", "asking"}
  /\ child' = [child EXCEPT ![d] = "exited"]
  /\ UNCHANGED <<phase, session, runs, wire, sent>>

-----------------------------------------------------------------------------
Parent(d) ==
  \/ Open(d) \/ CallModel(d) \/ Exec(d) \/ ExecFails(d) \/ Forced(d) \/ Close(d)
  \/ BlockEnds(d) \/ Final(d) \/ BadFrame(d) \/ ChildSilent(d)
  \/ Docs(d) \/ Llm(d) \/ Rlm(d) \/ NestedReturns(d)

Child(d) == ChildAsks(d) \/ ChildFinishes(d) \/ ChildExits(d)

Next == Build \/ Finish \/ \E d \in Depths : Parent(d) \/ Child(d)

\* The thread of the session goes on: the model answers or its client gives up
\* (a timeout, six attempts), and the deadline of a read passes.
Fairness == WF_rlmVars(Build) /\ WF_rlmVars(Finish) /\ \A d \in Depths : WF_rlmVars(Parent(d))

Spec == Init /\ [][Next]_rlmVars /\ Fairness

-----------------------------------------------------------------------------
(* Safety and liveness.                                                      *)

\* Whenever the model is called, each code block of its last reply has one
\* result: its own output, or an error.  The provider refuses any other
\* transcript, and a late frame would answer the wrong block.
TranscriptWellFormed ==
  \A d \in Depths : at[d] \in {"call", "forced"} =>
    /\ DOMAIN results[d] = 1 .. blocks[d]
    /\ \A b \in DOMAIN results[d] : results[d][b] \in {0, b}

\* A sandbox process lives no longer than its session, however that ends.
NoChildLeft == \A d \in Depths : child[d] # "none" => at[d] \notin {"none", "open", "return"}

\* An answer or an error comes, whatever the code does: hang, die, call on and on.
AnswerEnds == phase = "run" ~> phase \in {"answered", "failed"}

=============================================================================
