----------------------------- MODULE QueryProofs -----------------------------
(***************************************************************************)
(* Proofs about what answers a question.  RlmSession, for every depth,     *)
(* budget and number of turns, and whatever the model and the code it      *)
(* writes do: the types, the sandbox processes and the transcript.         *)
(* Conversations, for any number of posts: the types, and that an answer   *)
(* is lost only to three others or with its conversation.  Retrieval, for  *)
(* any number of queries and chunks and however the corpus changes: the    *)
(* types, that hits were there and fitted, and their order.                *)
(***************************************************************************)
EXTENDS RlmSession, Conversations, Retrieval, FiniteSetTheorems, SequenceTheorems, TLAPS

-----------------------------------------------------------------------------
(* RlmSession.  The invariant: the types, the stack of sessions, and of each *)
(* session its counts, its sandbox and its transcript.                       *)

Operations == Rpc \cup Ending \cup {"final", "bad"}
Frames == Operations \X (1 .. MaxBlocks)

TypeInv ==
  /\ phase \in {"build", "run", "answered", "failed"}
  /\ at \in [Depths -> {"none", "open", "call", "exec", "serve", "nested", "forced", "close", "return"}]
  /\ turn \in [Depths -> 0 .. Larger(MaxIters, NestedIters)]
  /\ budget \in [Depths -> Nat] /\ used \in [Depths -> Nat]
  /\ blocks \in [Depths -> 0 .. MaxBlocks]
  /\ outcome \in [Depths -> {"none", "answer", "error"}]
  /\ child \in [Depths -> {"none", "idle", "busy", "asking", "exited"}]
  /\ runs \in [Depths -> 0 .. MaxBlocks]
  /\ sent \in [Depths -> 0 .. CpuFrames]
  /\ DOMAIN results = Depths /\ DOMAIN wire = Depths

\* A session below another exists while that one waits for it.
StackInv ==
  /\ phase = "build" => at[0] = "none"
  /\ \A d \in Depths :
       /\ at[d] = "nested" => d + 1 \in Depths
       /\ d + 1 \in Depths /\ at[d + 1] # "none" => at[d] = "nested"

\* The blocks of the last reply that have a result.
Done(d) == Cardinality(DOMAIN results[d])

Counted(d) ==
  /\ Done(d) \in Nat /\ results[d] \in [1 .. Done(d) -> 0 .. MaxBlocks]
  /\ wire[d] \in Seq(Frames)
  /\ child[d] \in {"busy", "asking"} => runs[d] >= 1
  /\ at[d] = "open" => turn[d] = 0
  /\ at[d] = "call" => turn[d] < Iters(d)

\* Every frame but a final is the last one, and is of the block at hand: the
\* child waits for the answer, or has ended the block.
WireShape(d) ==
  \A i \in 1 .. Len(wire[d]) :
    /\ wire[d][i][2] = runs[d]
    /\ wire[d][i][1] # "final" => i = Len(wire[d]) /\ child[d] # "busy"
    /\ wire[d][i][1] \in Ending => child[d] \in {"idle", "exited"}

Sandboxed(d) ==
  /\ child[d] # "none" => at[d] \notin {"none", "open", "return"}
  /\ child[d] = "none" => at[d] \notin {"call", "exec", "serve", "nested"} /\ wire[d] = <<>>
  /\ at[d] \in {"call", "exec", "forced"} => wire[d] = <<>> /\ child[d] \in {"none", "idle", "exited"}
  /\ at[d] = "nested" => wire[d] = <<>> /\ child[d] # "busy"
  /\ at[d] = "serve" => WireShape(d)

Transcribed(d) ==
  /\ Done(d) <= blocks[d]
  /\ \A b \in DOMAIN results[d] : results[d][b] \in {0, b}
  /\ at[d] \in {"open", "call", "forced"} => Done(d) = blocks[d]
  /\ at[d] \in {"exec", "serve", "nested"} => Done(d) < blocks[d]
  /\ at[d] \in {"serve", "nested"} => runs[d] = Block(d)

Session(d) == Counted(d) /\ Sandboxed(d) /\ Transcribed(d)

IInv == TypeInv /\ StackInv /\ \A d \in Depths : Session(d)

-----------------------------------------------------------------------------
(* Lemmas.                                                                   *)

\* The results of the first n blocks are n results.
LEMMA ResultsOfFirst ==
  ASSUME NEW n \in Nat, NEW f, DOMAIN f = 1 .. n
  PROVE  Cardinality(DOMAIN f) = n
<1>1. Cardinality(1 .. n) = n
  BY FS_Interval
<1> QED BY <1>1

\* Before a reply there are none.
LEMMA NoneYet == DOMAIN NoResults = 1 .. 0 /\ Cardinality(DOMAIN NoResults) = 0
<1>1. DOMAIN NoResults = {} /\ 1 .. 0 = {}
  BY DEF NoResults
<1> QED BY <1>1, FS_EmptySet

\* A frame that is read is an operation and a block; the others move up.
LEMMA FrameRead ==
  ASSUME NEW d \in Depths, wire[d] \in Seq(Frames), wire[d] # <<>>
  PROVE  /\ Frame(d) = wire[d][1] /\ Frame(d)[1] \in Operations /\ Frame(d)[2] \in 1 .. MaxBlocks
         /\ 1 \in 1 .. Len(wire[d])
         /\ Tail(wire[d]) \in Seq(Frames)
         /\ Len(wire[d]) = 1 => Tail(wire[d]) = <<>>
<1>1. Head(wire[d]) \in Frames /\ Head(wire[d]) = wire[d][1] /\ Len(wire[d]) \in Nat
      /\ Len(wire[d]) # 0 /\ Tail(wire[d]) \in Seq(Frames) /\ Len(Tail(wire[d])) = Len(wire[d]) - 1
  OBVIOUS
<1>2. ASSUME Len(wire[d]) = 1 PROVE Tail(wire[d]) = <<>>
  <2>1. Len(Tail(wire[d])) = 0
    BY <1>1, <1>2
  <2> QED BY <1>1, <2>1, EmptySeq
<1> QED BY <1>1, <1>2 DEF Frame, Frames

\* The session of a depth, as a step of another depth leaves it.
Same(d) ==
  /\ at'[d] = at[d] /\ turn'[d] = turn[d] /\ blocks'[d] = blocks[d] /\ results'[d] = results[d]
  /\ child'[d] = child[d] /\ runs'[d] = runs[d] /\ wire'[d] = wire[d]

LEMMA SameSession ==
  ASSUME NEW d, Session(d), Same(d) PROVE Session(d)'
BY DEF Same, Session, Counted, Sandboxed, Transcribed, WireShape, Done, Block, Iters

\* The depths: the first, and the next one where rlm(...) nests.
LEMMA DepthFacts ==
  ASSUME Settings
  PROVE  /\ 0 \in Depths /\ Depths \subseteq Nat
         /\ \A d \in Depths : ~(d + 1 >= MaxDepth) => d + 1 \in Depths
         /\ \A d, e \in Depths : d + 1 = e + 1 => d = e
BY DEF Settings, Depths, Larger

\* The initial state.
LEMMA InvInit == Settings /\ Init => IInv
<1> SUFFICES ASSUME Settings, Init PROVE IInv
  OBVIOUS
<1>1. TypeInv
  BY DepthFacts DEF Settings, Init, TypeInv, Larger
<1>2. StackInv
  BY DepthFacts DEF Init, StackInv
<1>3. ASSUME NEW d \in Depths PROVE Session(d)
  <2>1. /\ results[d] = NoResults /\ wire[d] = <<>> /\ at[d] = "none" /\ child[d] = "none"
        /\ blocks[d] = 0
    BY DEF Init
  <2>2. Done(d) = 0 /\ results[d] \in [1 .. Done(d) -> 0 .. MaxBlocks] /\ DOMAIN results[d] = {}
    BY <2>1, NoneYet DEF Done, NoResults
  <2> QED BY <2>1, <2>2, EmptySeq DEF Session, Counted, Sandboxed, Transcribed
<1> QED BY <1>1, <1>2, <1>3 DEF IInv

-----------------------------------------------------------------------------
(* A step of one session leaves the others as they are.                      *)

\* A session that goes on, to anywhere but the wait for a nested one, leaves the
\* stack as it is.
LEMMA StackKept ==
  ASSUME Settings, IInv, NEW d \in Depths, NEW place, place # "nested",
         at[d] \notin {"none", "nested"}, phase' = phase, at' = [at EXCEPT ![d] = place]
  PROVE  StackInv'
<1>1. /\ \A e \in Depths \ {d} : at'[e] = at[e]
      /\ at'[d] = place
  BY DEF IInv, TypeInv
<1>2. d + 1 \in Depths => at[d + 1] = "none" /\ d + 1 # d
  BY DepthFacts DEF IInv, StackInv
<1>3. phase' = "build" => at'[0] = "none"
  BY <1>1, DepthFacts DEF IInv, StackInv
<1>4. ASSUME NEW e \in Depths
      PROVE  /\ at'[e] = "nested" => e + 1 \in Depths
             /\ e + 1 \in Depths /\ at'[e + 1] # "none" => at'[e] = "nested"
  <2>1. CASE e = d
    BY <1>1, <1>2, <2>1 DEF IInv, StackInv
  <2>2. CASE e # d /\ e + 1 = d
    BY <1>1, <2>2 DEF IInv, StackInv
  <2>3. CASE e # d /\ e + 1 # d
    BY <1>1, <2>3 DEF IInv, StackInv
  <2> QED BY <2>1, <2>2, <2>3
<1> QED BY <1>3, <1>4 DEF StackInv

\* What remains of a step's proof is the types and the session that took it.
LEMMA OneSession ==
  ASSUME IInv, NEW d \in Depths, TypeInv', StackInv', Session(d)',
         \A e \in Depths \ {d} : Same(e)
  PROVE  IInv'
BY SameSession DEF IInv

\* Starting the sandbox, or failing to.
LEMMA StepOpen == ASSUME Settings, IInv, NEW d \in Depths, Open(d) PROVE IInv'
<1>1. TypeInv'
  <2>1. sent' \in [Depths -> 0 .. CpuFrames]
    BY DEF IInv, TypeInv, Open, Settings
  <2> QED BY <2>1 DEF IInv, TypeInv, Open, Goto, Give
<1>2. StackInv'
  BY StackKept DEF Open, Goto
<1>3. \A e \in Depths \ {d} : Same(e)
  BY DEF IInv, TypeInv, Same, Open, Goto, Give
<1>4. Session(d)'
  <2>1. /\ turn'[d] = turn[d] /\ blocks'[d] = blocks[d] /\ results'[d] = results[d]
        /\ runs'[d] = runs[d] /\ wire'[d] = wire[d] /\ at[d] = "open"
        /\ \/ at'[d] = "call" /\ child'[d] = "idle"
           \/ at'[d] = "return" /\ child'[d] = child[d]
    BY DEF IInv, TypeInv, Open, Goto, Give
  <2>2. child[d] = "none" /\ wire[d] = <<>> /\ turn[d] < Iters(d)
    BY <2>1 DEF IInv, Session, Sandboxed, Counted, TypeInv, Settings, Iters
  <2> QED BY <2>1, <2>2 DEF IInv, Session, Counted, Sandboxed, Transcribed, Done, Iters
<1> QED BY <1>1, <1>2, <1>3, <1>4, OneSession

\* A turn of the model.
LEMMA StepCallModel == ASSUME Settings, IInv, NEW d \in Depths, CallModel(d) PROVE IInv'
<1> USE DEF sandbox
<1>1. TypeInv'
  <2>1. turn[d] + 1 \in 0 .. Larger(MaxIters, NestedIters)
    <3>1. turn[d] < Iters(d) /\ turn[d] \in Nat
      BY DEF IInv, Session, Counted, TypeInv, CallModel, Settings, Larger
    <3>2. Iters(d) \in Nat /\ Larger(MaxIters, NestedIters) \in Nat
          /\ Iters(d) <= Larger(MaxIters, NestedIters)
      BY DEF Settings, Iters, Larger
    <3> QED BY <3>1, <3>2
  <2>2. blocks' \in [Depths -> 0 .. MaxBlocks]
    <3>1. \A n \in 1 .. MaxBlocks : n \in 0 .. MaxBlocks
      BY DEF Settings
    <3> QED BY <3>1 DEF IInv, TypeInv, CallModel
  <2>3. DOMAIN results' = Depths /\ turn' \in [Depths -> 0 .. Larger(MaxIters, NestedIters)]
    BY <2>1 DEF IInv, TypeInv, CallModel
  <2>4. /\ at' \in [Depths -> {"none", "open", "call", "exec", "serve", "nested", "forced", "close", "return"}]
        /\ outcome' \in [Depths -> {"none", "answer", "error"}]
    BY DEF IInv, TypeInv, CallModel, Goto, Give
  <2> QED BY <2>2, <2>3, <2>4 DEF IInv, TypeInv, CallModel
<1>2. StackInv'
  BY StackKept DEF CallModel, Goto
<1>3. \A e \in Depths \ {d} : Same(e)
  BY DEF IInv, TypeInv, Same, CallModel, Goto, Give
<1>4. Session(d)'
  <2>1. /\ at[d] = "call" /\ child'[d] = child[d] /\ runs'[d] = runs[d] /\ wire'[d] = wire[d]
        /\ \/ at'[d] = "exec" /\ results'[d] = NoResults /\ blocks'[d] \in 1 .. MaxBlocks
           \/ at'[d] = "close" /\ results'[d] = results[d] /\ blocks'[d] = blocks[d]
    BY DEF IInv, TypeInv, CallModel, Goto, Give
  <2>2. CASE at'[d] = "exec"
    <3>1. /\ Done(d)' = 0 /\ results'[d] \in [1 .. Done(d)' -> 0 .. MaxBlocks]
          /\ DOMAIN results'[d] = {}
      BY <2>1, <2>2, NoneYet DEF Done, NoResults
    <3> QED BY <2>1, <2>2, <3>1 DEF IInv, Session, Counted, Sandboxed, Transcribed, Settings
  <2>3. CASE at'[d] = "close"
    BY <2>1, <2>3 DEF IInv, Session, Counted, Sandboxed, Transcribed, Done
  <2> QED BY <2>1, <2>2, <2>3
<1> QED BY <1>1, <1>2, <1>3, <1>4, OneSession

\* The child is given the next block.
LEMMA StepExec == ASSUME Settings, IInv, NEW d \in Depths, Exec(d) PROVE IInv'
<1>0. Block(d) \in 1 .. MaxBlocks
  BY DEF IInv, Session, Counted, Transcribed, TypeInv, Exec, Block, Done, Settings
<1>1. TypeInv'
  <2>1. runs' \in [Depths -> 0 .. MaxBlocks]
    BY <1>0 DEF IInv, TypeInv, Exec, Settings
  <2> QED BY <2>1 DEF IInv, TypeInv, Exec, Goto
<1>2. StackInv'
  BY StackKept DEF Exec, Goto
<1>3. \A e \in Depths \ {d} : Same(e)
  BY DEF IInv, TypeInv, Same, Exec, Goto
<1>4. Session(d)'
  <2>1. /\ at[d] = "exec" /\ at'[d] = "serve" /\ child'[d] = "busy" /\ runs'[d] = Block(d)
        /\ wire'[d] = wire[d] /\ blocks'[d] = blocks[d] /\ results'[d] = results[d]
    BY DEF IInv, TypeInv, Exec, Goto
  <2>2. wire[d] = <<>>
    BY <2>1 DEF IInv, Session, Sandboxed
  <2> QED BY <1>0, <2>1, <2>2 DEF IInv, Session, Counted, Sandboxed, Transcribed, WireShape, Done, Block
<1> QED BY <1>1, <1>2, <1>3, <1>4, OneSession

\* The forced answer.
LEMMA StepForced == ASSUME Settings, IInv, NEW d \in Depths, Forced(d) PROVE IInv'
<1> USE DEF sandbox
<1>1. TypeInv'
  BY DEF IInv, TypeInv, Forced, Goto, Give
<1>2. StackInv'
  BY StackKept DEF Forced, Goto
<1>3. \A e \in Depths \ {d} : Same(e)
  BY DEF IInv, TypeInv, Same, Forced, Goto, Give
<1>4. Session(d)'
  <2>1. /\ at[d] = "forced" /\ at'[d] = "close" /\ child'[d] = child[d] /\ runs'[d] = runs[d]
        /\ wire'[d] = wire[d] /\ blocks'[d] = blocks[d] /\ results'[d] = results[d]
    BY DEF IInv, TypeInv, Forced, Goto
  <2> QED BY <2>1 DEF IInv, Session, Counted, Sandboxed, Transcribed, Done
<1> QED BY <1>1, <1>2, <1>3, <1>4, OneSession

\* The end of a session: its child is gone.
LEMMA StepClose == ASSUME Settings, IInv, NEW d \in Depths, Close(d) PROVE IInv'
<1>1. TypeInv'
  BY EmptySeq DEF IInv, TypeInv, Close, Goto
<1>2. StackInv'
  BY StackKept DEF Close, Goto
<1>3. \A e \in Depths \ {d} : Same(e)
  BY DEF IInv, TypeInv, Same, Close, Goto
<1>4. Session(d)'
  <2>1. /\ at[d] = "close" /\ at'[d] = "return" /\ child'[d] = "none" /\ runs'[d] = runs[d]
        /\ wire'[d] = <<>> /\ blocks'[d] = blocks[d] /\ results'[d] = results[d]
    BY DEF IInv, TypeInv, Close, Goto
  <2> QED BY <2>1 DEF IInv, Session, Counted, Sandboxed, Transcribed, Done
<1> QED BY <1>1, <1>2, <1>3, <1>4, OneSession

-----------------------------------------------------------------------------
(* The frames of the child.                                                  *)

\* While a block is served there is at most one frame that is not a final, it
\* comes after the finals, and it is of the block at hand.
LEMMA FrameServed ==
  ASSUME IInv, NEW d \in Depths, at[d] = "serve", wire[d] # <<>>
  PROVE  /\ Frame(d)[1] \in Operations /\ Frame(d)[2] = Block(d)
         /\ Tail(wire[d]) \in Seq(Frames)
         /\ Frame(d)[1] # "final" => Tail(wire[d]) = <<>> /\ child[d] # "busy"
         /\ Frame(d)[1] \in Ending => child[d] \in {"idle", "exited"}
<1>1. wire[d] \in Seq(Frames) /\ WireShape(d) /\ runs[d] = Block(d)
  BY DEF IInv, Session, Counted, Sandboxed, Transcribed
<1> QED BY <1>1, FrameRead DEF WireShape

\* The output of the block, on to the next one.
LEMMA StepBlockEnds == ASSUME Settings, IInv, NEW d \in Depths, BlockEnds(d) PROVE IInv'
<1>1. /\ at[d] = "serve" /\ wire[d] # <<>> /\ Frame(d)[1] \in Ending
      /\ Answered(d, Frame(d)[2]) /\ Read(d)
      /\ UNCHANGED <<phase, turn, budget, used, blocks, outcome, child, runs, sent>>
  BY DEF BlockEnds, Serves
<1>2. /\ Frame(d)[2] = Block(d) /\ Tail(wire[d]) = <<>> /\ child[d] \in {"idle", "exited"}
  BY <1>1, FrameServed DEF Ending
<1>3. Block(d) \in Nat /\ 1 <= Block(d) /\ Block(d) <= blocks[d] /\ blocks[d] \in 0 .. MaxBlocks
      /\ Block(d) = Done(d) + 1 /\ Done(d) \in Nat
  BY <1>1 DEF IInv, Session, Counted, Transcribed, TypeInv, Block, Done, Settings
<1>4. PICK place \in {"exec", "call", "forced"} :
        /\ at' = [at EXCEPT ![d] = place]
        /\ place = "exec" => Block(d) < blocks[d]
        /\ place # "exec" => ~(Block(d) < blocks[d])
        /\ place = "call" => turn[d] < Iters(d)
  BY <1>1 DEF Answered, Goto
<1>5. TypeInv'
  BY <1>1, <1>4 DEF IInv, TypeInv, Answered, Read
<1>6. StackInv'
  BY <1>1, <1>4, StackKept
<1>7. \A e \in Depths \ {d} : Same(e)
  BY <1>1, <1>4 DEF IInv, TypeInv, Same, Answered, Read
<1>8. Session(d)'
  <2> DEFINE f == [b \in 1 .. Block(d) |-> IF b = Block(d) THEN Block(d) ELSE results[d][b]]
  <2>1. /\ at'[d] = place /\ results'[d] = f /\ wire'[d] = <<>>
        /\ child'[d] = child[d] /\ runs'[d] = runs[d] /\ turn'[d] = turn[d] /\ blocks'[d] = blocks[d]
    BY <1>1, <1>2, <1>4 DEF IInv, TypeInv, Answered, Read
  <2>2. results[d] \in [1 .. Done(d) -> 0 .. MaxBlocks] /\ \A b \in 1 .. Done(d) : results[d][b] \in {0, b}
    BY DEF IInv, Session, Counted, Transcribed
  <2>3. \A b \in 1 .. Block(d) : f[b] \in {0, b} /\ f[b] \in 0 .. MaxBlocks
    BY <1>3, <2>2 DEF Settings
  <2>4. Done(d)' = Block(d)
    BY <1>3, <2>1, ResultsOfFirst DEF Done
  <2>5. Counted(d)'
    BY <1>2, <1>3, <1>4, <2>1, <2>3, <2>4, EmptySeq DEF Counted, Iters
  <2>6. Sandboxed(d)'
    BY <1>2, <1>4, <2>1 DEF Sandboxed
  <2>7. Transcribed(d)'
    BY <1>3, <1>4, <2>1, <2>3, <2>4 DEF Transcribed
  <2> QED BY <2>5, <2>6, <2>7 DEF Session
<1> QED BY <1>5, <1>6, <1>7, <1>8, OneSession

\* The final answer; the frames that came after it are never read.
LEMMA StepFinal == ASSUME Settings, IInv, NEW d \in Depths, Final(d) PROVE IInv'
<1>1. /\ at[d] = "serve" /\ wire[d] # <<>> /\ at' = [at EXCEPT ![d] = "close"] /\ Read(d)
      /\ UNCHANGED <<phase, turn, budget, used, blocks, results, child, runs, sent>>
      /\ outcome' \in {[outcome EXCEPT ![d] = what] : what \in {"answer", "error"}}
  BY DEF Final, Serves, Goto, Give
<1>2. TypeInv'
  BY <1>1 DEF IInv, TypeInv, Read
<1>3. StackInv'
  BY <1>1, StackKept
<1>4. \A e \in Depths \ {d} : Same(e)
  BY <1>1 DEF IInv, TypeInv, Same, Read
<1>5. Session(d)'
  <2>1. /\ at'[d] = "close" /\ results'[d] = results[d] /\ wire'[d] = Tail(wire[d])
        /\ child'[d] = child[d] /\ runs'[d] = runs[d] /\ blocks'[d] = blocks[d]
    BY <1>1 DEF IInv, TypeInv, Read
  <2>2. Tail(wire[d]) \in Seq(Frames)
    BY <1>1, FrameServed
  <2> QED BY <1>1, <2>1, <2>2 DEF IInv, Session, Counted, Sandboxed, Transcribed, Done
<1> QED BY <1>2, <1>3, <1>4, <1>5, OneSession

\* A dead sandbox: every block has a result, an error where it had none.
LEMMA StepTerminated ==
  ASSUME Settings, IInv, NEW d \in Depths, at[d] \in {"exec", "serve"}, Terminated(d)
  PROVE  IInv'
<1>1. TypeInv'
  BY DEF IInv, TypeInv, Terminated, Goto
<1>2. StackInv'
  BY StackKept DEF Terminated, Goto
<1>3. \A e \in Depths \ {d} : Same(e)
  BY DEF IInv, TypeInv, Same, Terminated, Goto
<1>4. Session(d)'
  <2> DEFINE f == [b \in 1 .. blocks[d] |-> IF b \in DOMAIN results[d] THEN results[d][b] ELSE 0]
  <2>1. /\ at'[d] = "forced" /\ results'[d] = f /\ wire'[d] = <<>>
        /\ child'[d] = "none" /\ runs'[d] = runs[d] /\ blocks'[d] = blocks[d]
    BY DEF IInv, TypeInv, Terminated, Goto
  <2>2. results[d] \in [1 .. Done(d) -> 0 .. MaxBlocks] /\ \A b \in 1 .. Done(d) : results[d][b] \in {0, b}
    BY DEF IInv, Session, Counted, Transcribed
  <2>3. \A b \in 1 .. blocks[d] : f[b] \in {0, b} /\ f[b] \in 0 .. MaxBlocks
    <3>1. DOMAIN results[d] = 1 .. Done(d) /\ 0 \in 0 .. MaxBlocks
      BY <2>2 DEF Settings
    <3> QED BY <2>2, <3>1
  <2>4. blocks[d] \in Nat
    BY DEF IInv, TypeInv, Settings
  <2>5. Done(d)' = blocks[d]
    BY <2>1, <2>4, ResultsOfFirst DEF Done
  <2>6. Counted(d)'
    BY <2>1, <2>3, <2>4, <2>5, EmptySeq DEF Counted
  <2>7. Sandboxed(d)'
    BY <2>1 DEF Sandboxed
  <2>8. Transcribed(d)'
    <3>1. DOMAIN f = 1 .. blocks[d]
      OBVIOUS
    <3> HIDE DEF f
    <3> QED BY <2>1, <2>3, <2>4, <2>5, <3>1 DEF Transcribed
  <2> QED BY <2>6, <2>7, <2>8 DEF Session
<1> QED BY <1>1, <1>2, <1>3, <1>4, OneSession

\* A call is answered: the child goes on.
LEMMA StepReply ==
  ASSUME Settings, IInv, NEW d \in Depths, at[d] = "serve", wire[d] # <<>>, Frame(d)[1] # "final",
         Read(d), Reply(d, child), used' \in [Depths -> Nat],
         UNCHANGED <<phase, at, turn, budget, blocks, results, outcome, runs, sent>>
  PROVE  IInv'
<1>1. TypeInv'
  BY DEF IInv, TypeInv, Read, Reply
<1>2. StackInv'
  BY DEF IInv, StackInv
<1>3. \A e \in Depths \ {d} : Same(e)
  BY DEF IInv, TypeInv, Same, Read, Reply
<1>4. Session(d)'
  <2>1. /\ at'[d] = "serve" /\ results'[d] = results[d] /\ wire'[d] = <<>>
        /\ child'[d] = (IF child[d] = "asking" THEN "busy" ELSE child[d])
        /\ runs'[d] = runs[d] /\ blocks'[d] = blocks[d]
    BY FrameServed DEF IInv, TypeInv, Read, Reply
  <2> QED BY <2>1, EmptySeq
          DEF IInv, Session, Counted, Sandboxed, Transcribed, WireShape, Done, Block
<1> QED BY <1>1, <1>2, <1>3, <1>4, OneSession

\* docs, llm, and an rlm that is flat.
LEMMA StepDocs == ASSUME Settings, IInv, NEW d \in Depths, Docs(d) PROVE IInv'
<1>1. used' \in [Depths -> Nat]
  BY DEF IInv, TypeInv, Docs, session
<1> QED BY <1>1, StepReply DEF Docs, Serves, session

LEMMA StepLlm == ASSUME Settings, IInv, NEW d \in Depths, Llm(d) PROVE IInv'
<1>1. used' \in [Depths -> Nat]
  BY DEF IInv, TypeInv, Llm
<1> QED BY <1>1, StepReply DEF Llm, CallsLlm, Serves

-----------------------------------------------------------------------------
(* A nested session.                                                         *)

\* It starts with nothing, in a depth where nothing was left.
LEMMA StepRlm == ASSUME Settings, IInv, NEW d \in Depths, Rlm(d) PROVE IInv'
<1>1. /\ at[d] = "serve" /\ wire[d] # <<>> /\ Frame(d)[1] # "final" /\ ~(d + 1 >= MaxDepth)
      /\ Read(d) /\ UNCHANGED <<phase, child, runs, sent>>
  BY DEF Rlm, Serves, Flat
<1>2. d + 1 \in Depths /\ d + 1 # d /\ d \in Nat
  BY <1>1, DepthFacts
<1>3. at[d + 1] = "none" /\ child[d + 1] = "none" /\ wire[d + 1] = <<>>
  BY <1>1, <1>2 DEF IInv, StackInv, Session, Sandboxed, TypeInv
<1>4. /\ at' = [[at EXCEPT ![d] = "nested"] EXCEPT ![d + 1] = "open"]
      /\ turn' = [turn EXCEPT ![d + 1] = 0] /\ blocks' = [blocks EXCEPT ![d + 1] = 0]
      /\ results' = [results EXCEPT ![d + 1] = NoResults]
      /\ outcome' = [outcome EXCEPT ![d + 1] = "none"]
      /\ used' = [used EXCEPT ![d] = @ + 1, ![d + 1] = 0]
      /\ budget' = [budget EXCEPT ![d + 1] = Larger(2, budget[d] - used'[d])]
  BY DEF Rlm, Push
<1>5. TypeInv'
  <2>1. used' \in [Depths -> Nat]
    BY <1>2, <1>4 DEF IInv, TypeInv
  <2>2. Larger(2, budget[d] - used'[d]) \in Nat
    BY <2>1 DEF IInv, TypeInv, Larger
  <2>3. budget' \in [Depths -> Nat]
    BY <1>4, <2>2 DEF IInv, TypeInv
  <2>4. 0 \in 0 .. MaxBlocks /\ 0 \in 0 .. Larger(MaxIters, NestedIters)
    BY DEF Settings, Larger
  <2> QED BY <1>1, <1>2, <1>4, <2>1, <2>3, <2>4 DEF IInv, TypeInv, Read
<1>6. /\ at'[d] = "nested" /\ at'[d + 1] = "open"
      /\ \A e \in Depths \ {d, d + 1} : at'[e] = at[e]
  BY <1>2, <1>4 DEF IInv, TypeInv
<1>7. StackInv'
  <2>1. phase' = "build" => at'[0] = "none"
    BY <1>1, <1>2, <1>6, DepthFacts DEF IInv, StackInv
  <2>2. ASSUME NEW e \in Depths
        PROVE  /\ at'[e] = "nested" => e + 1 \in Depths
               /\ e + 1 \in Depths /\ at'[e + 1] # "none" => at'[e] = "nested"
    <3>1. CASE e = d
      BY <1>2, <1>6, <3>1
    <3>2. CASE e = d + 1
      <4>1. d + 1 + 1 \in Depths => at[d + 1 + 1] = "none" /\ d + 1 + 1 \notin {d, d + 1}
        BY <1>2, <1>3 DEF IInv, StackInv
      <4> QED BY <1>6, <3>2, <4>1
    <3>3. CASE e \notin {d, d + 1}
      <4>1. e + 1 # d + 1
        BY <1>2, <3>3, DepthFacts
      <4>2. e + 1 \in Depths /\ at[e + 1] # "none" => at[e] = "nested"
        BY DEF IInv, StackInv
      <4>3. e + 1 \in Depths /\ at'[e + 1] # "none" => at[e + 1] # "none"
        BY <1>1, <1>6, <4>1
      <4> QED BY <1>6, <3>3, <4>2, <4>3 DEF IInv, StackInv
    <3> QED BY <3>1, <3>2, <3>3
  <2> QED BY <2>1, <2>2 DEF StackInv
<1>8. \A e \in Depths \ {d, d + 1} : Session(e)'
  <2>1. \A e \in Depths \ {d, d + 1} : Same(e)
    BY <1>1, <1>2, <1>4 DEF IInv, TypeInv, Same, Read
  <2> QED BY <2>1, SameSession DEF IInv
<1>9. Session(d)'
  <2>1. /\ at'[d] = "nested" /\ results'[d] = results[d] /\ wire'[d] = <<>>
        /\ child'[d] = child[d] /\ child[d] # "busy" /\ runs'[d] = runs[d] /\ blocks'[d] = blocks[d]
    BY <1>1, <1>2, <1>4, <1>6, FrameServed DEF IInv, TypeInv, Read
  <2> QED BY <1>1, <2>1, EmptySeq
          DEF IInv, Session, Counted, Sandboxed, Transcribed, WireShape, Done, Block
<1>10. Session(d + 1)'
  <2>1. /\ results'[d + 1] = NoResults /\ wire'[d + 1] = <<>> /\ turn'[d + 1] = 0
        /\ child'[d + 1] = "none" /\ blocks'[d + 1] = 0
    BY <1>1, <1>2, <1>3, <1>4 DEF IInv, TypeInv, Read
  <2>2. Done(d + 1)' = 0 /\ results'[d + 1] \in [1 .. Done(d + 1)' -> 0 .. MaxBlocks]
        /\ DOMAIN results'[d + 1] = {}
    BY <2>1, NoneYet DEF Done, NoResults
  <2> QED BY <1>6, <2>1, <2>2, EmptySeq DEF Session, Counted, Sandboxed, Transcribed
<1> QED BY <1>5, <1>7, <1>8, <1>9, <1>10 DEF IInv

\* It ends without a child; the one that waited for it goes on.
LEMMA StepNestedReturns == ASSUME Settings, IInv, NEW d \in Depths, NestedReturns(d) PROVE IInv'
<1>1. /\ at[d] = "nested" /\ at[d + 1] = "return" /\ Reply(d, child)
      /\ UNCHANGED <<phase, turn, budget, used, blocks, results, outcome, runs, wire, sent>>
      /\ at' = [at EXCEPT ![d] = "serve", ![d + 1] = "none"]
  BY DEF NestedReturns
<1>2. d + 1 \in Depths /\ d + 1 # d /\ d \in Nat
  BY <1>1, DepthFacts DEF IInv, StackInv
<1>3. /\ at'[d] = "serve" /\ at'[d + 1] = "none"
      /\ \A e \in Depths \ {d, d + 1} : at'[e] = at[e]
  BY <1>1, <1>2 DEF IInv, TypeInv
<1>4. TypeInv'
  BY <1>1 DEF IInv, TypeInv, Reply
<1>5. StackInv'
  <2>1. phase' = "build" => at'[0] = "none"
    BY <1>1, <1>2, <1>3, DepthFacts DEF IInv, StackInv
  <2>2. ASSUME NEW e \in Depths
        PROVE  /\ at'[e] = "nested" => e + 1 \in Depths
               /\ e + 1 \in Depths /\ at'[e + 1] # "none" => at'[e] = "nested"
    <3>1. CASE e = d
      BY <1>3, <3>1
    <3>2. CASE e = d + 1
      <4>1. d + 1 + 1 \in Depths => at[d + 1 + 1] = "none" /\ d + 1 + 1 \notin {d, d + 1}
        BY <1>1, <1>2 DEF IInv, StackInv
      <4> QED BY <1>3, <3>2, <4>1
    <3>3. CASE e \notin {d, d + 1}
      <4>1. e + 1 # d + 1
        BY <1>2, <3>3, DepthFacts
      <4>2. e + 1 \in Depths /\ at[e + 1] # "none" => at[e] = "nested"
        BY DEF IInv, StackInv
      <4>3. e + 1 \in Depths /\ at'[e + 1] # "none" => at[e + 1] # "none"
        BY <1>1, <1>3, <4>1
      <4> QED BY <1>3, <3>3, <4>2, <4>3 DEF IInv, StackInv
    <3> QED BY <3>1, <3>2, <3>3
  <2> QED BY <2>1, <2>2 DEF StackInv
<1>6. \A e \in Depths \ {d, d + 1} : Session(e)'
  <2>1. \A e \in Depths \ {d, d + 1} : Same(e)
    BY <1>1, <1>2, <1>3 DEF IInv, TypeInv, Same, Reply
  <2> QED BY <2>1, SameSession DEF IInv
<1>7. Session(d)'
  <2>1. /\ child'[d] = (IF child[d] = "asking" THEN "busy" ELSE child[d])
        /\ wire'[d] = wire[d] /\ wire[d] = <<>>
    BY <1>1 DEF IInv, TypeInv, Reply, Session, Sandboxed
  <2> QED BY <1>1, <1>3, <2>1
          DEF IInv, Session, Counted, Sandboxed, Transcribed, WireShape, Done, Block
<1>8. Session(d + 1)'
  <2>1. child'[d + 1] = child[d + 1] /\ child[d + 1] = "none"
    BY <1>1, <1>2 DEF IInv, TypeInv, Reply, Session, Sandboxed
  <2> QED BY <1>1, <1>2, <1>3, <2>1 DEF IInv, Session, Counted, Sandboxed, Transcribed, Done
<1> QED BY <1>4, <1>5, <1>6, <1>7, <1>8 DEF IInv

-----------------------------------------------------------------------------
(* The child.                                                                *)

\* A child that runs code sends a frame, after finals only.
LEMMA StepSend ==
  ASSUME Settings, IInv, NEW d \in Depths, NEW operation \in Operations, NEW then,
         Send(d, operation), child' = [child EXCEPT ![d] = then],
         \/ operation \in Rpc \cup {"bad"} /\ then = "asking"
         \/ operation \in Ending \cup {"final"} /\ then = "idle"
         \/ operation = "final" /\ then = "busy",
         UNCHANGED <<phase, session, runs>>
  PROVE  IInv'
<1> USE DEF session
<1>1. child[d] = "busy" /\ wire' = [wire EXCEPT ![d] = Append(@, <<operation, runs[d]>>)]
      /\ sent[d] < CpuFrames /\ sent' = [sent EXCEPT ![d] = @ + 1]
  BY DEF Send
<1>2. <<operation, runs[d]>> \in Frames
  BY <1>1 DEF IInv, TypeInv, Session, Counted, Frames, Settings
<1>3. TypeInv'
  <2>1. sent[d] + 1 \in 0 .. CpuFrames
    BY <1>1 DEF IInv, TypeInv, Settings
  <2> QED BY <1>1, <2>1 DEF IInv, TypeInv
<1>4. StackInv'
  BY DEF IInv, StackInv
<1>5. \A e \in Depths \ {d} : Same(e)
  BY <1>1 DEF IInv, TypeInv, Same
<1>6. Session(d)'
  <2>1. /\ at'[d] = at[d] /\ results'[d] = results[d] /\ child'[d] = then /\ runs'[d] = runs[d]
        /\ blocks'[d] = blocks[d] /\ turn'[d] = turn[d]
        /\ wire'[d] = Append(wire[d], <<operation, runs[d]>>)
    BY <1>1 DEF IInv, TypeInv
  <2>2. at[d] \notin {"none", "open", "return", "call", "exec", "forced", "nested"}
    BY <1>1 DEF IInv, Session, Sandboxed
  <2>3. /\ wire[d] \in Seq(Frames) /\ wire'[d] \in Seq(Frames) /\ Len(wire'[d]) = Len(wire[d]) + 1
        /\ \A i \in 1 .. Len(wire[d]) : wire'[d][i] = wire[d][i]
        /\ wire'[d][Len(wire[d]) + 1] = <<operation, runs[d]>> /\ Len(wire[d]) \in Nat
    BY <1>2, <2>1, AppendProperties DEF IInv, Session, Counted
  <2>4. at[d] = "serve" => WireShape(d)'
    <3> SUFFICES ASSUME at[d] = "serve", NEW i \in 1 .. Len(wire'[d])
                 PROVE  /\ wire'[d][i][2] = runs'[d]
                        /\ wire'[d][i][1] # "final" => i = Len(wire'[d]) /\ child'[d] # "busy"
                        /\ wire'[d][i][1] \in Ending => child'[d] \in {"idle", "exited"}
      BY DEF WireShape
    <3>1. CASE i \in 1 .. Len(wire[d])
      <4>1. wire[d][i][2] = runs[d] /\ wire[d][i][1] = "final"
        BY <1>1, <3>1 DEF IInv, Session, Sandboxed, WireShape
      <4> QED BY <2>1, <2>3, <3>1, <4>1 DEF Ending
    <3>2. CASE i = Len(wire[d]) + 1
      BY <2>1, <2>3, <3>2 DEF Ending, Rpc
    <3> QED BY <2>3, <3>1, <3>2
  <2>5. Counted(d)'
    BY <1>1, <2>1, <2>2, <2>3 DEF IInv, Session, Counted, Done
  <2>6. Sandboxed(d)'
    BY <2>1, <2>2, <2>4 DEF Sandboxed
  <2>7. Transcribed(d)'
    BY <2>1 DEF IInv, Session, Transcribed, Done, Block
  <2> QED BY <2>5, <2>6, <2>7 DEF Session
<1> QED BY <1>3, <1>4, <1>5, <1>6, OneSession

\* The steps of the child.
LEMMA StepChild == ASSUME Settings, IInv, NEW d \in Depths, Child(d) PROVE IInv'
<1>1. CASE ChildAsks(d)
  BY <1>1, StepSend DEF ChildAsks, Operations
<1>2. CASE ChildFinishes(d)
  <2>1. CASE \E operation \in Ending \cup {"final"} :
               Send(d, operation) /\ child' = [child EXCEPT ![d] = "idle"]
    BY <1>2, <2>1, StepSend DEF ChildFinishes, Operations
  <2>2. CASE Send(d, "final") /\ UNCHANGED child
    <3>1. child' = [child EXCEPT ![d] = "busy"]
      BY <2>2 DEF Send, IInv, TypeInv
    <3> QED BY <1>2, <2>2, <3>1, StepSend DEF ChildFinishes, Operations
  <2> QED BY <1>2, <2>1, <2>2 DEF ChildFinishes
<1>3. CASE ChildExits(d)
  <2> USE DEF session
  <2>1. TypeInv'
    BY <1>3 DEF IInv, TypeInv, ChildExits
  <2>2. StackInv'
    BY <1>3 DEF IInv, StackInv, ChildExits
  <2>3. \A e \in Depths \ {d} : Same(e)
    BY <1>3 DEF IInv, TypeInv, Same, ChildExits
  <2>4. Session(d)'
    <3>1. /\ at'[d] = at[d] /\ results'[d] = results[d] /\ wire'[d] = wire[d] /\ turn'[d] = turn[d]
          /\ child'[d] = "exited" /\ child[d] # "none" /\ runs'[d] = runs[d] /\ blocks'[d] = blocks[d]
      BY <1>3 DEF IInv, TypeInv, ChildExits
    <3> QED BY <3>1 DEF IInv, Session, Counted, Sandboxed, Transcribed, WireShape, Done, Block
  <2> QED BY <2>1, <2>2, <2>3, <2>4, OneSession
<1> QED BY <1>1, <1>2, <1>3 DEF Child

-----------------------------------------------------------------------------
(* The answer.                                                               *)

\* The first session starts with nothing.
LEMMA StepBuild == ASSUME Settings, IInv, Build PROVE IInv'
<1> USE DEF sandbox
<1>1. CASE phase' = "answered" /\ UNCHANGED session
  <2>1. TypeInv' /\ StackInv'
    BY <1>1 DEF IInv, TypeInv, StackInv, Build, session
  <2>2. \A e \in Depths : Same(e)
    BY <1>1 DEF Same, Build, session
  <2> QED BY <2>1, <2>2, SameSession DEF IInv
<1>2. CASE phase' = "run" /\ Push(0, SubBudget, at) /\ UNCHANGED used
  <2>1. 0 \in Depths /\ phase = "build" /\ at[0] = "none" /\ child[0] = "none" /\ wire[0] = <<>>
    BY DepthFacts DEF IInv, Build, StackInv, Session, Sandboxed, TypeInv
  <2>2. 0 \in 0 .. MaxBlocks /\ 0 \in 0 .. Larger(MaxIters, NestedIters) /\ SubBudget \in Nat
    BY DEF Settings, Larger
  <2>3. TypeInv'
    BY <1>2, <2>2 DEF IInv, TypeInv, Build, Push
  <2>4. at'[0] = "open" /\ \A e \in Depths \ {0} : at'[e] = at[e]
    BY <1>2, <2>1 DEF IInv, TypeInv, Push
  <2>5. StackInv'
    <3>1. ASSUME NEW e \in Depths
          PROVE  /\ at'[e] = "nested" => e + 1 \in Depths
                 /\ e + 1 \in Depths /\ at'[e + 1] # "none" => at'[e] = "nested"
      <4>1. e + 1 # 0 /\ (e = 0 => at[e] = "none")
        BY <2>1, DepthFacts
      <4>2. e + 1 \in Depths /\ at[e + 1] # "none" => at[e] = "nested"
        BY DEF IInv, StackInv
      <4> QED BY <2>4, <4>1, <4>2 DEF IInv, StackInv
    <3> QED BY <1>2, <3>1 DEF StackInv
  <2>6. \A e \in Depths \ {0} : Same(e)
    BY <1>2, <2>1 DEF IInv, TypeInv, Same, Build, Push
  <2>7. Session(0)'
    <3>1. /\ results'[0] = NoResults /\ wire'[0] = <<>> /\ turn'[0] = 0
          /\ child'[0] = "none" /\ blocks'[0] = 0
      BY <1>2, <2>1 DEF IInv, TypeInv, Build, Push
    <3>2. Done(0)' = 0 /\ results'[0] \in [1 .. Done(0)' -> 0 .. MaxBlocks] /\ DOMAIN results'[0] = {}
      BY <3>1, NoneYet DEF Done, NoResults
    <3> QED BY <2>4, <3>1, <3>2, EmptySeq DEF Session, Counted, Sandboxed, Transcribed
  <2> QED BY <2>1, <2>3, <2>5, <2>6, <2>7, OneSession
<1> QED BY <1>1, <1>2 DEF Build

\* The last one returns.
LEMMA StepFinish == ASSUME Settings, IInv, Finish PROVE IInv'
<1> USE DEF sandbox
<1>1. 0 \in Depths /\ at[0] = "return" /\ phase # "build" /\ phase' \in {"answered", "failed"}
      /\ at' = [at EXCEPT ![0] = "none"]
  BY DepthFacts DEF IInv, StackInv, Finish, Goto
<1>2. TypeInv'
  BY <1>1 DEF IInv, TypeInv, Finish
<1>3. StackInv'
  <2>1. at'[0] = "none" /\ \A e \in Depths \ {0} : at'[e] = at[e]
    BY <1>1 DEF IInv, TypeInv
  <2>2. ASSUME NEW e \in Depths
        PROVE  /\ at'[e] = "nested" => e + 1 \in Depths
               /\ e + 1 \in Depths /\ at'[e + 1] # "none" => at'[e] = "nested"
    <3>1. e + 1 # 0
      BY DepthFacts
    <3>2. e + 1 \in Depths /\ at[e + 1] # "none" => at[e] = "nested"
      BY DEF IInv, StackInv
    <3> QED BY <1>1, <2>1, <3>1, <3>2 DEF IInv, StackInv
  <2> QED BY <1>1, <2>2 DEF StackInv
<1>4. \A e \in Depths \ {0} : Same(e)
  BY <1>1 DEF IInv, TypeInv, Same, Finish
<1>5. Session(0)'
  <2>1. at'[0] = "none" /\ child[0] = "none"
    BY <1>1 DEF IInv, TypeInv, Session, Sandboxed
  <2> QED BY <1>1, <2>1 DEF IInv, Finish, Session, Counted, Sandboxed, Transcribed, Done
<1> QED BY <1>1, <1>2, <1>3, <1>4, <1>5, OneSession

\* Every step keeps the invariant.
LEMMA InvStep == Settings /\ IInv /\ [Next]_rlmVars => IInv'
<1> SUFFICES ASSUME Settings, IInv, [Next]_rlmVars PROVE IInv'
  OBVIOUS
<1>1. ASSUME NEW d \in Depths, Parent(d) PROVE IInv'
  <2>1. CASE ExecFails(d) \/ BadFrame(d) \/ ChildSilent(d)
    BY <2>1, StepTerminated DEF ExecFails, BadFrame, ChildSilent, Serves
  <2> QED BY <1>1, <2>1, StepOpen, StepCallModel, StepExec, StepForced, StepClose, StepBlockEnds,
             StepFinal, StepDocs, StepLlm, StepRlm, StepNestedReturns DEF Parent
<1>2. CASE UNCHANGED rlmVars
  <2>1. TypeInv' /\ StackInv'
    BY <1>2 DEF IInv, TypeInv, StackInv, rlmVars, session, sandbox
  <2>2. \A e \in Depths : Same(e)
    BY <1>2 DEF Same, rlmVars, session, sandbox
  <2> QED BY <2>1, <2>2, SameSession DEF IInv
<1> QED BY <1>1, <1>2, StepChild, StepBuild, StepFinish DEF Next

-----------------------------------------------------------------------------
(* What it is for.                                                           *)

\* The invariant holds in every reachable state.
LEMMA InvHolds == Init /\ [][Next]_rlmVars => []IInv
<1>1. Init => IInv
  BY InvInit, SettingsAssumption
<1>2. IInv /\ [Next]_rlmVars => IInv'
  BY InvStep, SettingsAssumption
<1> QED BY <1>1, <1>2, PTL

LEMMA InvTypes == IInv => TypeOK
BY DEF IInv, TypeInv, TypeOK, Session, Counted, Done, Frames, Operations

\* Turns, budgets, results and frames stay within their bounds: no session takes
\* a turn past rlm_max_iters, and none is nested past rlm_max_depth.
THEOREM TypeCorrect == Spec => []TypeOK
<1> QED BY InvTypes, InvHolds, PTL DEF Spec

\* However a session ends, and however deep it was, its sandbox process is gone.
THEOREM NoChildIsLeft == Spec => []NoChildLeft
<1>1. IInv => NoChildLeft
  BY DEF IInv, Session, Sandboxed, NoChildLeft
<1> QED BY <1>1, InvHolds, PTL DEF Spec

\* Whatever frames the sandboxed code sends, and wherever its process dies, each
\* code block has its own output or an error when the model is called again.
THEOREM TranscriptHolds == Spec => []TranscriptWellFormed
<1>1. IInv => TranscriptWellFormed
  BY DEF IInv, Session, Counted, Transcribed, TranscriptWellFormed
<1> QED BY <1>1, InvHolds, PTL DEF Spec

-----------------------------------------------------------------------------
(* Conversations: the invariant.                                             *)

Turns == Cardinality(turns)

TalkTyped ==
  /\ exists \in BOOLEAN
  /\ turns \subseteq (Nat \X Posts) /\ IsFiniteSet(turns)
  /\ post \in [Posts -> {"new", "answer", "number", "insert", "stored", "refused", "raised"}]
  /\ history \in [Posts -> SUBSET (Nat \X Posts)]
  /\ overtaken \in [Posts -> SUBSET Posts] /\ \A p \in Posts : IsFiniteSet(overtaken[p])
  /\ number \in [Posts -> Nat] /\ attempt \in [Posts -> 0 .. 2]

\* The indices are the first so many, each turn is that of a call that is over,
\* and it comes after those its answer was given.
Numbered ==
  /\ {t[1] : t \in turns} = 1 .. Turns
  /\ \A t \in turns : post[t[2]] = "stored" /\ \A h \in history[t[2]] : h[1] < t[1]
  /\ ~exists => turns = {}

\* Nobody is overtaken by a call that is still on its way.
Passed(p) == \A q \in overtaken[p] : post[q] = "stored"

\* While the conversation is there no turn is lost, and whoever is to store its
\* own has an index that was the next one when it read it.
Reads(p) ==
  /\ history[p] \subseteq turns
  /\ post[p] = "insert" => number[p] \in 1 .. Turns + 1 /\ \A h \in history[p] : h[1] < number[p]

\* It fails once for each call it is overtaken by, and once more only when the
\* index it holds is taken: by another still.
Tries(p) ==
  /\ post[p] \in {"new", "answer"} => attempt[p] = 0
  /\ exists /\ post[p] \in {"number", "insert"} => Cardinality(overtaken[p]) >= attempt[p]
  /\ exists /\ post[p] = "insert" /\ number[p] # Turns + 1 => Cardinality(overtaken[p]) > attempt[p]
  /\ exists /\ post[p] = "raised" /\ attempt[p] = 2 => Cardinality(overtaken[p]) >= 3

TalkInv ==
  /\ TalkTyped /\ Numbered
  /\ \A p \in Posts : Passed(p) /\ Tries(p) /\ (exists => Reads(p))

-----------------------------------------------------------------------------
(* The next index.                                                           *)

LEMMA NextIsFree ==
  ASSUME TalkTyped, Numbered
  PROVE  Turns \in Nat /\ NextTurnIndex = Turns + 1
<1>1. Turns \in Nat /\ (turns = {} <=> Turns = 0)
  BY FS_CardinalityType, FS_EmptySet DEF TalkTyped, Turns
<1>2. CASE turns = {}
  BY <1>1, <1>2 DEF NextTurnIndex
<1>3. CASE turns # {}
  <2>1. Turns \in 1 .. Turns /\ \A y \in 1 .. Turns : Turns >= y
    BY <1>1, <1>3
  <2>2. Max(1 .. Turns) = Turns
    BY <1>1, <2>1 DEF Max
  <2> QED BY <1>1, <1>3, <2>2 DEF NextTurnIndex, Numbered
<1> QED BY <1>2, <1>3

\* A call that nothing is stored for keeps what was true of it.
LEMMA Quiet ==
  ASSUME TalkTyped, Numbered, NEW p \in Posts, Passed(p), Tries(p), exists => Reads(p),
         UNCHANGED <<exists, turns>>,
         post'[p] = post[p], history'[p] = history[p], number'[p] = number[p],
         attempt'[p] = attempt[p], overtaken'[p] = overtaken[p],
         \A q \in Posts : post[q] = "stored" => post'[q] = "stored"
  PROVE  Passed(p)' /\ Tries(p)' /\ (exists => Reads(p))'
BY DEF TalkTyped, Passed, Tries, Reads, Turns
-----------------------------------------------------------------------------
(* One step at a time.                                                       *)

\* The types, but for what is stored.
LEMMA PostTyped ==
  ASSUME TalkTyped, Numbered, NEW p \in Posts, ReadTurns(p) \/ Answer(p) \/ Number(p)
  PROVE  TalkTyped'
<1>1. CASE ReadTurns(p)
  BY <1>1 DEF ReadTurns, PostAt, TalkTyped
<1>2. CASE Answer(p)
  BY <1>2, FS_EmptySet DEF Answer, PostAt, TalkTyped
<1>3. CASE Number(p)
  BY <1>3, NextIsFree DEF Number, PostAt, TalkTyped
<1> QED BY <1>1, <1>2, <1>3

LEMMA PostKeeps ==
  ASSUME TalkInv, NEW p \in Posts, ReadTurns(p) \/ Answer(p) \/ Number(p)
  PROVE  TalkInv'
<1> USE DEF TalkInv
<1>1. TalkTyped'
  BY PostTyped
<1>2. /\ UNCHANGED <<exists, turns, attempt>> /\ post[p] \in {"new", "answer", "number"}
      /\ \A q \in Posts \ {p} : /\ post'[q] = post[q] /\ history'[q] = history[q] /\ number'[q] = number[q]
                                /\ overtaken'[q] = overtaken[q]
      /\ post'[p] # "stored"
  BY DEF ReadTurns, Answer, Number, PostAt, TalkTyped
<1>3. \A q \in Posts : post[q] = "stored" => post'[q] = "stored"
  BY <1>2
<1>4. ASSUME NEW q \in Posts \ {p} PROVE Passed(q)' /\ Tries(q)' /\ (exists => Reads(q))'
  BY <1>2, <1>3, Quiet
<1>5. Passed(p)' /\ Tries(p)' /\ (exists => Reads(p))'
  <2>1. CASE ReadTurns(p)
    BY <2>1 DEF ReadTurns, PostAt, TalkTyped, Passed, Tries, Reads
  <2>2. CASE Answer(p)
    <3>1. /\ attempt[p] = 0 /\ UNCHANGED <<exists, turns, history, attempt>>
          /\ \/ post'[p] = "number" /\ overtaken'[p] = {}
             \/ post'[p] = "raised" /\ UNCHANGED overtaken
      BY <2>2 DEF Answer, PostAt, TalkTyped, Tries
    <3>2. Passed(p)' /\ (exists => Reads(p))'
      BY <1>3, <3>1 DEF Passed, Reads, Turns, TalkTyped
    <3>3. Tries(p)'
      BY <3>1, FS_EmptySet DEF Tries
    <3> QED BY <3>2, <3>3
  <2>3. CASE Number(p)
    <3>1. number'[p] = Turns + 1 /\ Turns \in Nat /\ post'[p] = "insert" /\ Turns' = Turns
      BY <2>3, NextIsFree DEF Number, PostAt, TalkTyped, Turns
    <3>2. post[p] = "number" /\ history'[p] = history[p] /\ UNCHANGED overtaken
      BY <2>3 DEF Number
    <3>3. exists => \A h \in history[p] : h \in turns /\ h[1] \in 1 .. Turns
      BY DEF Numbered, Reads
    <3>4. Passed(p)'
      BY <1>3, <3>2 DEF Passed, TalkTyped
    <3>5. Tries(p)'
      BY <1>2, <3>1, <3>2 DEF Tries
    <3>6. (exists => Reads(p))'
      <4> SUFFICES ASSUME exists PROVE Reads(p)'
        BY <1>2
      <4>1. \A h \in history[p] : h[1] < number'[p]
        BY <3>1, <3>3
      <4> QED BY <1>2, <3>1, <3>2, <4>1 DEF Reads
    <3> QED BY <3>4, <3>5, <3>6
  <2> QED BY <2>1, <2>2, <2>3
<1>6. Numbered'
  <2>1. \A t \in turns : t[2] \in Posts /\ t[2] # p
    BY <1>2 DEF TalkTyped, Numbered
  <2> QED BY <1>2, <1>3, <2>1 DEF Numbered, Turns
<1> QED BY <1>1, <1>4, <1>5, <1>6

\* A turn is stored under the next index.
LEMMA StoreKeeps ==
  ASSUME TalkInv, NEW p \in Posts, Insert(p), exists, \A t \in turns : t[1] # number[p]
  PROVE  TalkInv'
<1> USE DEF TalkInv
<1>1. /\ post[p] = "insert" /\ turns' = turns \cup {<<number[p], p>>}
      /\ overtaken' = [q \in Posts |-> overtaken[q] \cup {p}]
      /\ post' = [post EXCEPT ![p] = "stored"] /\ UNCHANGED <<exists, history, number, attempt>>
  BY DEF Insert, PostAt
<1>2. Turns \in Nat /\ number[p] = Turns + 1
  <2>1. Turns \in Nat /\ number[p] \in 1 .. Turns + 1
    BY <1>1, NextIsFree DEF Reads
  <2>2. number[p] \notin 1 .. Turns
    BY DEF Numbered
  <2> QED BY <2>1, <2>2
<1>3. Turns' = Turns + 1 /\ IsFiniteSet(turns')
  <2>1. <<number[p], p>> \notin turns
    OBVIOUS
  <2> QED BY <1>1, <2>1, FS_AddElement DEF TalkTyped, Turns
<1>4. TalkTyped'
  <2>1. turns' \subseteq (Nat \X Posts) /\ post' \in [Posts -> {"new", "answer", "number", "insert", "stored", "refused", "raised"}]
    BY <1>1 DEF TalkTyped
  <2>2. ASSUME NEW q \in Posts PROVE IsFiniteSet(overtaken'[q])
    BY <1>1, FS_AddElement DEF TalkTyped
  <2>3. overtaken' \in [Posts -> SUBSET Posts]
    BY <1>1 DEF TalkTyped
  <2> QED BY <1>1, <1>3, <2>1, <2>2, <2>3 DEF TalkTyped
<1>5. Numbered'
  <2>1. {t[1] : t \in turns'} = 1 .. Turns'
    <3>1. {t[1] : t \in turns'} = {t[1] : t \in turns} \cup {Turns + 1}
      <4>1. <<number[p], p>>[1] = Turns + 1
        BY <1>2
      <4> QED BY <1>1, <4>1
    <3> QED BY <1>2, <1>3, <3>1 DEF Numbered
  <2>2. ASSUME NEW t \in turns' PROVE post'[t[2]] = "stored" /\ \A h \in history'[t[2]] : h[1] < t[1]
    <3>1. CASE t \in turns
      BY <1>1, <3>1 DEF Numbered, TalkTyped
    <3>2. CASE t = <<number[p], p>>
      BY <1>1, <3>2 DEF Reads, TalkTyped
    <3> QED BY <1>1, <3>1, <3>2
  <2> QED BY <1>1, <2>1, <2>2 DEF Numbered
<1>6. ASSUME NEW q \in Posts PROVE Passed(q)' /\ Tries(q)' /\ (exists => Reads(q))'
  <2>1. Passed(q)'
    BY <1>1 DEF Passed, TalkTyped
  <2>2. p \notin overtaken[q] /\ Cardinality(overtaken[q]) \in Nat /\ attempt[q] \in 0 .. 2
        /\ Cardinality(overtaken'[q]) = Cardinality(overtaken[q]) + 1
    <3>1. p \notin overtaken[q] /\ IsFiniteSet(overtaken[q])
      BY <1>1 DEF Passed, TalkTyped
    <3> QED BY <1>1, <3>1, FS_AddElement, FS_CardinalityType DEF TalkTyped
  <2>3. Tries(q)'
    <3>1. CASE q = p
      BY <1>1, <3>1 DEF Tries, TalkTyped
    <3>2. CASE q # p
      BY <1>1, <2>2, <3>2 DEF Tries, TalkTyped
    <3> QED BY <3>1, <3>2
  <2>4. Reads(q)'
    <3>1. history'[q] \subseteq turns' /\ (post'[q] = "insert" => post[q] = "insert")
      BY <1>1 DEF Reads, TalkTyped
    <3> QED BY <1>1, <1>2, <1>3, <3>1 DEF Reads
  <2> QED BY <2>1, <2>3, <2>4
<1> QED BY <1>4, <1>5, <1>6

\* The index is taken, or the conversation gone: another try, or none.
LEMMA RefusedKeeps ==
  ASSUME TalkInv, NEW p \in Posts, Insert(p), ~(exists /\ \A t \in turns : t[1] # number[p])
  PROVE  TalkInv'
<1> USE DEF TalkInv
<1>1. /\ post[p] = "insert" /\ UNCHANGED <<exists, turns, overtaken, history, number>>
      /\ \/ attempt[p] = 2 /\ post' = [post EXCEPT ![p] = "raised"] /\ UNCHANGED attempt
         \/ /\ attempt[p] # 2 /\ post' = [post EXCEPT ![p] = "number"]
            /\ attempt' = [attempt EXCEPT ![p] = @ + 1]
  BY DEF Insert, PostAt
<1>2. TalkTyped'
  BY <1>1 DEF TalkTyped
<1>3. \A q \in Posts \ {p} : post'[q] = post[q] /\ attempt'[q] = attempt[q]
  BY <1>1 DEF TalkTyped
<1>4. \A q \in Posts : post[q] = "stored" => post'[q] = "stored"
  BY <1>1, <1>3
<1>5. ASSUME NEW q \in Posts \ {p} PROVE Passed(q)' /\ Tries(q)' /\ (exists => Reads(q))'
  BY <1>1, <1>3, <1>4, Quiet
<1>6. exists => Cardinality(overtaken[p]) > attempt[p]
  <2> SUFFICES ASSUME exists PROVE Cardinality(overtaken[p]) > attempt[p]
    OBVIOUS
  <2>1. number[p] \in {t[1] : t \in turns}
    OBVIOUS
  <2>2. number[p] # Turns + 1
    BY <2>1, NextIsFree DEF Numbered
  <2> QED BY <1>1, <2>2 DEF Tries
<1>7. Passed(p)' /\ Tries(p)' /\ (exists => Reads(p))'
  <2>1. Passed(p)' /\ (exists => Reads(p))'
    BY <1>1, <1>4 DEF Passed, Reads, Turns, TalkTyped
  <2>2. Cardinality(overtaken[p]) \in Nat /\ attempt[p] \in 0 .. 2
    BY FS_CardinalityType DEF TalkTyped
  <2>3. Tries(p)'
    BY <1>1, <1>6, <2>2 DEF Tries, TalkTyped
  <2> QED BY <2>1, <2>3
<1>8. Numbered'
  <2>1. \A t \in turns : t[2] \in Posts
    BY DEF TalkTyped
  <2> QED BY <1>1, <1>4, <2>1 DEF Numbered, Turns
<1> QED BY <1>2, <1>5, <1>7, <1>8

LEMMA ScopePurgeKeeps ==
  ASSUME TalkInv, PurgeScope
  PROVE  TalkInv'
<1>1. Turns' = 0
  BY FS_EmptySet DEF PurgeScope, Turns
<1>2. TalkTyped' /\ Numbered'
  <2>1. turns' = {} /\ exists' = FALSE /\ IsFiniteSet(turns') /\ UNCHANGED <<post, history, number, attempt, overtaken>>
    BY FS_EmptySet DEF PurgeScope
  <2>2. {t[1] : t \in turns'} = 1 .. Turns'
    BY <1>1, <2>1
  <2>3. Numbered'
    BY <2>1, <2>2 DEF Numbered
  <2> QED BY <2>1, <2>3 DEF TalkInv, TalkTyped
<1>3. ASSUME NEW p \in Posts PROVE Passed(p)' /\ Tries(p)' /\ (exists => Reads(p))'
  BY DEF PurgeScope, TalkInv, Passed, Tries
<1> QED BY <1>2, <1>3 DEF TalkInv

-----------------------------------------------------------------------------
(* What it is for.                                                           *)

\* The invariant holds in every reachable state.
LEMMA TalkHolds == TalkSpec => []TalkInv
<1>1. TalkInit => TalkInv
  BY FS_EmptySet DEF TalkInit, TalkInv, TalkTyped, Numbered, Turns, Passed, Tries, Reads
<1>2. TalkInv /\ [TalkNext]_talkVars => TalkInv'
  <2> SUFFICES ASSUME TalkInv, [TalkNext]_talkVars PROVE TalkInv'
    OBVIOUS
  <2>1. CASE UNCHANGED talkVars
    BY <2>1 DEF talkVars, TalkInv, TalkTyped, Numbered, Turns, Passed, Tries, Reads
  <2>2. CASE PurgeScope
    BY <2>2, ScopePurgeKeeps
  <2>3. ASSUME NEW p \in Posts, ReadTurns(p) \/ Answer(p) \/ Number(p) PROVE TalkInv'
    BY <2>3, PostKeeps
  <2>4. ASSUME NEW p \in Posts, Insert(p) PROVE TalkInv'
    BY <2>4, StoreKeeps, RefusedKeeps
  <2> QED BY <2>1, <2>2, <2>3, <2>4 DEF TalkNext
<1> QED BY <1>1, <1>2, PTL DEF TalkSpec

\* Posts, turns and the counts of tries keep their types.
THEOREM TalkTypeCorrect == TalkSpec => []TalkTypeOK
<1>1. TalkInv => TalkTypeOK
  BY DEF TalkInv, TalkTyped, TalkTypeOK
<1> QED BY <1>1, TalkHolds, PTL

\* However many questions are posted at once, an answer is thrown away only with
\* its conversation or after three others were stored, and a turn comes after
\* all those its answer was given, with no index left out.
THEOREM AnswersKept == TalkSpec => []AnswersAreKept
<1>1. TalkInv => AnswersAreKept
  <2> SUFFICES ASSUME TalkInv PROVE AnswersAreKept
    OBVIOUS
  <2>1. ASSUME NEW p \in Posts, post[p] = "raised", attempt[p] = 2, exists
        PROVE  Cardinality(overtaken[p] \ {p}) >= 3
    <3>1. p \notin overtaken[p]
      BY <2>1 DEF TalkInv, Passed
    <3>2. overtaken[p] \ {p} = overtaken[p]
      BY <3>1
    <3> QED BY <2>1, <3>2 DEF TalkInv, Tries
  <2>2. ASSUME NEW t \in turns, NEW h \in history[t[2]] PROVE h \in turns /\ h[1] < t[1]
    <3>1. t[2] \in Posts /\ exists
      BY DEF TalkInv, TalkTyped, Numbered
    <3> QED BY <3>1 DEF TalkInv, Numbered, Reads
  <2> QED BY <2>1, <2>2 DEF AnswersAreKept, TalkInv, Numbered, Turns
<1> QED BY <1>1, TalkHolds, PTL

-----------------------------------------------------------------------------
(* Retrieval.  Sequences of chunks: where one is before another.             *)

\* Whoever is in s comes after a.
Ahead(s, a, b) == b \in ToSet(s) => a \in ToSet(s) /\ RankIn(a, s) < RankIn(b, s)

LEMMA RankInIs ==
  ASSUME NEW s, NEW c \in ToSet(s)
  PROVE  RankIn(c, s) \in DOMAIN s /\ s[RankIn(c, s)] = c
<1>1. \E i \in DOMAIN s : s[i] = c
  BY DEF ToSet
<1> QED BY <1>1, Zenon DEF RankIn

LEMMA RankAt ==
  ASSUME NEW s, IsInjective(s), NEW i \in DOMAIN s
  PROVE  s[i] \in ToSet(s) /\ RankIn(s[i], s) = i
<1>1. s[i] \in ToSet(s)
  BY DEF ToSet
<1>2. RankIn(s[i], s) \in DOMAIN s /\ s[RankIn(s[i], s)] = s[i]
  BY <1>1, RankInIs
<1> QED BY <1>1, <1>2 DEF IsInjective

\* The first elements of a sequence.
LEMMA FirstOf ==
  ASSUME NEW S, NEW s \in Seq(S), NEW m \in 0 .. Len(s)
  PROVE  /\ SubSeq(s, 1, m) \in Seq(S) /\ Len(SubSeq(s, 1, m)) = m
         /\ \A i \in 1 .. m : SubSeq(s, 1, m)[i] = s[i]
<1>1. Len(s) \in Nat /\ DOMAIN s = 1 .. Len(s) /\ \A i \in 1 .. Len(s) : s[i] \in S
  BY LenProperties, ElementOfSeq
<1>2. SubSeq(s, 1, m) = [i \in 1 .. m |-> s[i]]
  BY <1>1
<1> QED BY <1>1, <1>2

\* A prefix keeps what is before what it keeps.
LEMMA PrefixOrder ==
  ASSUME NEW s \in Seq(Chunks), IsInjective(s), NEW t \in Seq(Chunks), Len(t) <= Len(s),
         \A i \in 1 .. Len(t) : t[i] = s[i]
  PROVE  /\ IsInjective(t) /\ ToSet(t) \subseteq ToSet(s)
         /\ \A a, b : Ahead(s, a, b) => Ahead(t, a, b)
<1>1. DOMAIN t = 1 .. Len(t) /\ DOMAIN s = 1 .. Len(s) /\ Len(s) \in Nat /\ Len(t) \in Nat
  BY LenProperties
<1>2. \A i \in 1 .. Len(t) : i \in 1 .. Len(s)
  BY <1>1
<1>3. IsInjective(t)
  BY <1>1, <1>2 DEF IsInjective
<1>4. ToSet(t) \subseteq ToSet(s)
  BY <1>1, <1>2 DEF ToSet
<1>5. ASSUME NEW a, NEW b, Ahead(s, a, b), b \in ToSet(t) PROVE a \in ToSet(t) /\ RankIn(a, t) < RankIn(b, t)
  <2>1. PICK j \in 1 .. Len(t) : b = t[j]
    BY <1>1, <1>5 DEF ToSet
  <2>2. j \in 1 .. Len(s) /\ b = s[j]
    BY <1>2, <2>1
  <2>3. RankIn(b, s) = j /\ RankIn(b, t) = j
    BY <1>1, <1>3, <2>1, <2>2, RankAt
  <2>4. a \in ToSet(s) /\ RankIn(a, s) < j
    BY <1>4, <1>5, <2>3 DEF Ahead
  <2>5. RankIn(a, s) \in 1 .. Len(s) /\ s[RankIn(a, s)] = a
    BY <1>1, <2>4, RankInIs
  <2>6. RankIn(a, s) \in 1 .. Len(t)
    BY <1>1, <2>1, <2>4, <2>5
  <2>7. t[RankIn(a, s)] = a
    BY <2>5, <2>6
  <2>8. a \in ToSet(t) /\ RankIn(a, t) = RankIn(a, s)
    BY <1>1, <1>3, <2>6, <2>7, RankAt
  <2> QED BY <2>3, <2>4, <2>8
<1> QED BY <1>3, <1>4, <1>5 DEF Ahead

LEMMA PrefixKeeps ==
  ASSUME NEW s \in Seq(Chunks), IsInjective(s), NEW n \in Nat
  PROVE  /\ AtMost(n, s) \in Seq(Chunks) /\ Len(AtMost(n, s)) <= n /\ IsInjective(AtMost(n, s))
         /\ ToSet(AtMost(n, s)) \subseteq ToSet(s)
         /\ \A a, b : Ahead(s, a, b) => Ahead(AtMost(n, s), a, b)
<1>1. PICK m \in 0 .. Len(s) : m = (IF Len(s) < n THEN Len(s) ELSE n) /\ m <= n
  BY LenProperties
<1>2. AtMost(n, s) = SubSeq(s, 1, m)
  BY <1>1 DEF AtMost
<1>3. PICK t : t = SubSeq(s, 1, m)
  OBVIOUS
<1>4. t \in Seq(Chunks) /\ Len(t) = m /\ \A i \in 1 .. m : t[i] = s[i]
  BY <1>3, FirstOf
<1>5. Len(s) \in Nat /\ m <= Len(s)
  BY LenProperties
<1>6. /\ IsInjective(t) /\ ToSet(t) \subseteq ToSet(s)
      /\ \A a, b : Ahead(s, a, b) => Ahead(t, a, b)
  BY <1>4, <1>5, PrefixOrder
<1> QED BY <1>1, <1>2, <1>3, <1>4, <1>6

\* An order of some chunks lists each of them once.
LEMMA OrderLists ==
  ASSUME NEW chunks, chunks \subseteq Chunks, NEW t \in Orders(chunks)
  PROVE  t \in Seq(Chunks) /\ IsInjective(t) /\ ToSet(t) = chunks
<1>1. Cardinality(chunks) \in Nat
  BY FS_Subset, FS_CardinalityType, SearchAssumption DEF SearchSettings
<1>2. t \in [1 .. Cardinality(chunks) -> chunks] /\ IsInjective(t)
      /\ \A c \in chunks : \E i \in 1 .. Cardinality(chunks) : t[i] = c
  BY DEF Orders, Bijection, Injection, Surjection
<1>3. t \in Seq(Chunks)
  BY <1>1, <1>2
<1>4. ToSet(t) = chunks
  BY <1>2 DEF ToSet
<1> QED BY <1>2, <1>3, <1>4

\* What stays is in the order in which it was.
LEMMA KeptKeeps ==
  ASSUME NEW s \in Seq(Chunks), IsInjective(s), NEW chunks, NEW t \in Kept(s, chunks)
  PROVE  /\ t \in Seq(Chunks) /\ IsInjective(t) /\ ToSet(t) = ToSet(s) \cap chunks
         /\ \A a, b : a \in chunks /\ Ahead(s, a, b) => Ahead(t, a, b)
<1>1. ToSet(s) \subseteq Chunks
  BY ElementOfSeq, LenProperties DEF ToSet
<1>2. t \in Seq(Chunks) /\ IsInjective(t) /\ ToSet(t) = ToSet(s) \cap chunks
  BY <1>1, OrderLists DEF Kept
<1>3. DOMAIN t = 1 .. Len(t) /\ Len(t) \in Nat /\ DOMAIN s = 1 .. Len(s) /\ Len(s) \in Nat
  BY <1>2, LenProperties
<1>4. ASSUME NEW a \in chunks, NEW b, Ahead(s, a, b), b \in ToSet(t)
      PROVE  a \in ToSet(t) /\ RankIn(a, t) < RankIn(b, t)
  <2>1. a \in ToSet(s) /\ b \in ToSet(s) /\ RankIn(a, s) < RankIn(b, s) /\ a \in ToSet(t)
    BY <1>2, <1>4 DEF Ahead
  <2>2. /\ RankIn(a, t) \in DOMAIN t /\ t[RankIn(a, t)] = a
        /\ RankIn(b, t) \in DOMAIN t /\ t[RankIn(b, t)] = b
        /\ RankIn(a, s) \in DOMAIN s /\ RankIn(b, s) \in DOMAIN s
    BY <1>4, <2>1, RankInIs
  <2>3. RankIn(a, t) # RankIn(b, t)
    BY <1>3, <2>1, <2>2
  <2>4. ~(RankIn(b, t) < RankIn(a, t))
    <3> SUFFICES ASSUME RankIn(b, t) < RankIn(a, t) PROVE FALSE
      OBVIOUS
    <3>1. RankIn(b, s) < RankIn(a, s)
      BY <2>2 DEF Kept
    <3> QED BY <1>3, <2>1, <2>2, <3>1
  <2> QED BY <1>3, <2>1, <2>2, <2>3, <2>4
<1> QED BY <1>2, <1>4 DEF Ahead

-----------------------------------------------------------------------------
(* The invariant.                                                            *)

\* What the legs that are left may still return.
Asked ==
  /\ stage = "expand" => left = 0 /\ rankings = <<>>
  /\ stage = "text" => left >= 1 /\ Len(rankings) + 2 * left <= 2 * MaxQueries
  /\ stage = "vector" => left >= 1 /\ Len(rankings) + 2 * left <= 2 * MaxQueries + 1

Corpus == rows \subseteq ever.there /\ fits \subseteq ever.fit /\ always \subseteq rows \cap fits

HitsSound ==
  /\ IsInjective(hits)
  /\ stage \in {"hydrate", "filter", "rerank", "done"} => ToSet(hits) \subseteq ever.there
  /\ stage \in {"rerank", "done"} /\ options.filtered => ToSet(hits) \subseteq ever.fit
  /\ stage = "done" => Len(hits) <= TopK

\* A chunk that is ranked before another by each of the first n rankings that
\* has the other.
AheadIn(n, a, b) == \A i \in 1 .. n : Ahead(rankings[i], a, b)

Scored ==
  /\ stage \in {"expand", "text", "vector"} => fused = 0
  /\ \A a, b \in Chunks : AheadIn(fused, a, b) => score[a] >= score[b]

InFront ==
  stage \in {"fetch", "hydrate", "filter", "rerank"} \/ (stage = "done" /\ ~options.reranked) =>
    \A b \in Chunks : \A a \in always \ {b} : AheadIn(Len(rankings), a, b) => Ahead(hits, a, b)

SearchInv == SearchTypeOK /\ Asked /\ Corpus /\ HitsSound /\ Scored /\ InFront

-----------------------------------------------------------------------------
(* Lemmas about scores.                                                      *)

LEMMA Antitone ==
  ASSUME NEW u \in Nat, NEW m \in Nat \ {0}, NEW n \in Nat \ {0}, m <= n
  PROVE  u \div n <= u \div m /\ u \div n \in Nat
<1>1. PICK q \in Int : q = u \div n
  OBVIOUS
<1>2. PICK p \in Int : p = u \div m
  OBVIOUS
<1>3. q >= 0 /\ n * q <= u
  BY <1>1, Z3
<1>4. p >= 0 /\ u < m * (p + 1)
  BY <1>2, Z3
<1>5. m * q <= n * q
  BY <1>3, Z3
<1>6. ~(q > p)
  <2> SUFFICES ASSUME q >= p + 1 PROVE FALSE
    OBVIOUS
  <2>1. m * (p + 1) <= m * q
    BY Z3
  <2> QED BY <1>3, <1>4, <1>5, <2>1
<1> QED BY <1>1, <1>2, <1>3, <1>6

\* Whoever ranks behind, or not at all, gets no more.
Gain(c, ranking) == IF c \in ToSet(ranking) THEN Weight(RankIn(c, ranking)) ELSE 0

LEMMA RankingFacts ==
  ASSUME NEW ranking \in Rankings(Chunks)
  PROVE  /\ ranking \in Seq(Chunks) /\ IsInjective(ranking) /\ DOMAIN ranking = 1 .. Len(ranking)
         /\ Len(ranking) \in 0 .. PerQueryK /\ ToSet(ranking) \subseteq Chunks
<1>1. PICK n \in 0 .. PerQueryK : ranking \in [1 .. n -> Chunks]
  BY SearchAssumption DEF Rankings, SeqOf, SearchSettings
<1>2. ranking \in Seq(Chunks) /\ Len(ranking) = n
  BY <1>1, SearchAssumption DEF SearchSettings
<1>3. ToSet(ranking) \subseteq Chunks
  BY <1>1 DEF ToSet
<1> QED BY <1>1, <1>2, <1>3, SearchAssumption DEF Rankings, SearchSettings

LEMMA WeightFalls ==
  ASSUME NEW i \in 1 .. PerQueryK, NEW j \in 1 .. PerQueryK, i <= j
  PROVE  Weight(j) <= Weight(i) /\ Weight(j) \in Nat
<1>1. Unit \in Nat /\ RrfK \in Nat /\ PerQueryK \in Nat
  BY SearchAssumption DEF SearchSettings
<1>2. RrfK + i \in Nat \ {0} /\ RrfK + j \in Nat \ {0} /\ RrfK + i <= RrfK + j
  BY <1>1
<1> QED BY <1>1, <1>2, Antitone DEF Weight

LEMMA GainFalls ==
  ASSUME NEW ranking \in Rankings(Chunks), NEW a, NEW b
  PROVE  /\ Gain(a, ranking) \in Nat
         /\ Ahead(ranking, a, b) => Gain(a, ranking) >= Gain(b, ranking)
<1>1. PerQueryK \in Nat
  BY SearchAssumption DEF SearchSettings
<1>2. \A c \in ToSet(ranking) : RankIn(c, ranking) \in 1 .. PerQueryK
  BY <1>1, RankingFacts, RankInIs
<1>3. \A c \in ToSet(ranking) : Weight(RankIn(c, ranking)) \in Nat
  BY <1>2, WeightFalls
<1>4. Gain(a, ranking) \in Nat /\ Gain(b, ranking) \in Nat
  BY <1>3 DEF Gain
<1>5. ASSUME Ahead(ranking, a, b), b \in ToSet(ranking) PROVE Gain(a, ranking) >= Gain(b, ranking)
  <2>1. a \in ToSet(ranking) /\ RankIn(a, ranking) <= RankIn(b, ranking)
    BY <1>2, <1>5 DEF Ahead
  <2>2. Weight(RankIn(b, ranking)) <= Weight(RankIn(a, ranking))
    BY <1>2, <1>5, <2>1, WeightFalls
  <2> QED BY <1>5, <2>1, <2>2 DEF Gain
<1>6. b \notin ToSet(ranking) => Gain(a, ranking) >= Gain(b, ranking)
  BY <1>4 DEF Gain
<1> QED BY <1>4, <1>5, <1>6

-----------------------------------------------------------------------------
(* The steps of the search.                                                  *)

LEMMA SearchStarts == SearchInit => SearchInv
<1> SUFFICES ASSUME SearchInit PROVE SearchInv
  OBVIOUS
<1>1. MaxQueries \in Nat /\ TopK \in Nat /\ MaxChanges \in Nat
  BY SearchAssumption DEF SearchSettings
<1>2. /\ rankings \in Seq(Rankings(Chunks)) /\ hits \in Seq(Chunks) /\ Len(rankings) = 0
      /\ DOMAIN hits = {}
  BY DEF SearchInit
<1>3. rows \subseteq Chunks /\ fits = Chunks
  BY DEF SearchInit
<1>4. SearchTypeOK
  BY <1>1, <1>2, <1>3 DEF SearchInit, SearchTypeOK
<1>5. Asked /\ Corpus /\ InFront
  BY <1>1, <1>2, <1>3 DEF SearchInit, Asked, Corpus, InFront
<1>6. HitsSound
  BY <1>2 DEF SearchInit, HitsSound, IsInjective
<1>7. Scored
  BY DEF SearchInit, Scored
<1> QED BY <1>4, <1>5, <1>6, <1>7 DEF SearchInv

LEMMA ExpandKeeps == SearchInv /\ Expand => SearchInv'
<1> SUFFICES ASSUME SearchInv, Expand PROVE SearchInv'
  OBVIOUS
<1> USE DEF SearchInv
<1>1. MaxQueries \in Nat
  BY SearchAssumption DEF SearchSettings
<1>2. rankings = <<>> /\ stage = "expand" /\ stage' = "text"
  BY DEF Asked, Expand
<1>3. SearchTypeOK'
  BY <1>1 DEF SearchTypeOK, Expand, corpus
<1>4. Asked'
  <2>1. Len(rankings') = 0
    BY <1>2 DEF Expand
  <2>2. PICK n \in 1 .. MaxQueries : left' = n
    BY DEF Expand
  <2>3. n >= 1 /\ 0 + 2 * n <= 2 * MaxQueries
    <3> HIDE DEF SearchInv
    <3> QED BY <1>1
  <2>4. left' >= 1 /\ Len(rankings') + 2 * left' <= 2 * MaxQueries
    BY <2>1, <2>2, <2>3
  <2> QED BY <1>2, <2>4 DEF Asked
<1>5. Corpus'
  BY DEF Corpus, Expand, corpus
<1>6. HitsSound'
  BY <1>2 DEF HitsSound, Expand, corpus
<1>7. Scored'
  BY <1>2 DEF Scored, AheadIn, Expand
<1>8. InFront'
  BY <1>2 DEF InFront
<1> QED BY <1>3, <1>4, <1>5, <1>6, <1>7, <1>8

\* A leg: the ranking comes after those that have been returned.
LEMMA LegKeeps ==
  ASSUME SearchInv, NEW ranking \in Rankings(Chunks), Len(rankings) < 2 * MaxQueries,
         rankings' = Append(rankings, ranking)
  PROVE  /\ rankings' \in Seq(Rankings(Chunks)) /\ Len(rankings') = Len(rankings) + 1
         /\ Len(rankings') <= 2 * MaxQueries
<1>1. rankings \in Seq(Rankings(Chunks)) /\ MaxQueries \in Nat
  BY SearchAssumption DEF SearchSettings, SearchInv, SearchTypeOK
<1>2. Len(rankings) \in Nat
  BY <1>1, LenProperties
<1>3. PICK longer : longer = Append(rankings, ranking)
  OBVIOUS
<1>4. longer \in Seq(Rankings(Chunks)) /\ Len(longer) = Len(rankings) + 1
  BY <1>1, <1>3, AppendProperties
<1> QED BY <1>1, <1>2, <1>3, <1>4

LEMMA RankingsOfSome ==
  ASSUME NEW chunks, chunks \subseteq Chunks PROVE Rankings(chunks) \subseteq Rankings(Chunks)
BY DEF Rankings, SeqOf

LEMMA TextKeeps == SearchInv /\ TextLeg => SearchInv'
<1> SUFFICES ASSUME SearchInv, TextLeg PROVE SearchInv'
  OBVIOUS
<1> USE DEF SearchInv
<1>1. MaxQueries \in Nat /\ left \in Nat /\ left <= MaxQueries /\ Len(rankings) \in Nat
  BY SearchAssumption, LenProperties DEF SearchSettings, SearchTypeOK
<1>2. stage = "text" /\ stage' = "vector" /\ left >= 1 /\ Len(rankings) + 2 * left <= 2 * MaxQueries
  BY DEF Asked, TextLeg
<1>3. PICK ranking \in Rankings(Chunks) : rankings' = Append(rankings, ranking)
  BY RankingsOfSome DEF TextLeg, SearchTypeOK
<1>4. Len(rankings) < 2 * MaxQueries
  BY <1>1, <1>2
<1>5. /\ rankings' \in Seq(Rankings(Chunks)) /\ Len(rankings') = Len(rankings) + 1
      /\ Len(rankings') <= 2 * MaxQueries
  BY <1>3, <1>4, LegKeeps
<1>6. fused = 0 /\ fused' = 0 /\ score' = score
  BY <1>2 DEF Scored, TextLeg
<1>7. SearchTypeOK'
  BY <1>1, <1>2, <1>5, <1>6 DEF SearchTypeOK, TextLeg, corpus
<1>8. Asked'
  BY <1>1, <1>2, <1>5 DEF Asked, TextLeg
<1>9. Corpus'
  BY DEF Corpus, TextLeg, corpus
<1>10. HitsSound'
  BY <1>2 DEF HitsSound, TextLeg, corpus
<1>11. Scored'
  BY <1>6 DEF Scored, AheadIn
<1>12. InFront'
  BY <1>2 DEF InFront
<1> QED BY <1>7, <1>8, <1>9, <1>10, <1>11, <1>12

LEMMA VectorKeeps == SearchInv /\ VectorLeg => SearchInv'
<1> SUFFICES ASSUME SearchInv, VectorLeg PROVE SearchInv'
  OBVIOUS
<1> USE DEF SearchInv
<1>1. MaxQueries \in Nat /\ left \in Nat /\ left <= MaxQueries /\ Len(rankings) \in Nat
  BY SearchAssumption, LenProperties DEF SearchSettings, SearchTypeOK
<1>2. /\ stage = "vector" /\ stage' \in {"fuse", "text"} /\ left >= 1
      /\ Len(rankings) + 2 * left <= 2 * MaxQueries + 1
  BY DEF Asked, VectorLeg
<1>3. PICK ranking \in Rankings(Chunks) : rankings' = Append(rankings, ranking)
  BY RankingsOfSome DEF VectorLeg, SearchTypeOK
<1>4. Len(rankings) < 2 * MaxQueries
  BY <1>1, <1>2
<1>5. /\ rankings' \in Seq(Rankings(Chunks)) /\ Len(rankings') = Len(rankings) + 1
      /\ Len(rankings') <= 2 * MaxQueries
  BY <1>3, <1>4, LegKeeps
<1>6. fused = 0 /\ fused' = 0 /\ score' = score
  BY <1>2 DEF Scored, VectorLeg
<1>7. SearchTypeOK'
  BY <1>1, <1>2, <1>5, <1>6 DEF SearchTypeOK, VectorLeg, corpus
<1>8. Asked'
  BY <1>1, <1>2, <1>5 DEF Asked, VectorLeg
<1>9. Corpus'
  BY DEF Corpus, VectorLeg, corpus
<1>10. HitsSound'
  BY <1>2 DEF HitsSound, VectorLeg, corpus
<1>11. Scored'
  BY <1>6 DEF Scored, AheadIn
<1>12. InFront'
  BY <1>2 DEF InFront
<1> QED BY <1>7, <1>8, <1>9, <1>10, <1>11, <1>12

\* Whoever is ahead in one more ranking gains at least as much by it.
LEMMA FuseRankingKeeps == SearchInv /\ FuseRanking => SearchInv'
<1> SUFFICES ASSUME SearchInv, FuseRanking PROVE SearchInv'
  OBVIOUS
<1> USE DEF SearchInv
<1>1. Len(rankings) \in Nat /\ DOMAIN rankings = 1 .. Len(rankings) /\ fused \in Nat /\ fused < Len(rankings)
  BY LenProperties DEF SearchTypeOK, FuseRanking
<1>2. PICK ranking : ranking = rankings[fused + 1]
  OBVIOUS
<1>3. fused + 1 \in 1 .. Len(rankings)
  BY <1>1
<1>4. ranking \in Rankings(Chunks)
  BY <1>2, <1>3, ElementOfSeq DEF SearchTypeOK
<1>5. score' = [c \in Chunks |-> score[c] + Gain(c, ranking)]
  BY <1>2 DEF FuseRanking, Gain
<1>6. /\ fused' = fused + 1 /\ stage = "fuse" /\ stage' = "fuse" /\ rankings' = rankings /\ left' = left
      /\ hits' = hits /\ options' = options /\ UNCHANGED corpus
  BY DEF FuseRanking
<1>7. \A c \in Chunks : Gain(c, ranking) \in Nat /\ score[c] \in Nat
  BY <1>4, GainFalls DEF SearchTypeOK
<1>8. score' \in [Chunks -> Nat]
  BY <1>5, <1>7
<1>9. SearchTypeOK'
  BY <1>1, <1>6, <1>8 DEF SearchTypeOK, corpus
<1>10. Asked' /\ Corpus' /\ InFront'
  BY <1>6 DEF Asked, Corpus, InFront, corpus
<1>11. HitsSound'
  BY <1>6 DEF HitsSound, corpus
<1>12. ASSUME NEW a \in Chunks, NEW b \in Chunks, AheadIn(fused + 1, a, b)
       PROVE  score'[a] >= score'[b]
  <2>1. Ahead(ranking, a, b)
    BY <1>1, <1>2, <1>12 DEF AheadIn
  <2>2. AheadIn(fused, a, b)
    BY <1>1, <1>12 DEF AheadIn
  <2>3. score[a] >= score[b]
    BY <2>2 DEF Scored
  <2>4. Gain(a, ranking) >= Gain(b, ranking)
    BY <1>4, <2>1, GainFalls
  <2> QED BY <1>5, <1>7, <2>3, <2>4
<1>13. Scored'
  BY <1>6, <1>12 DEF Scored, AheadIn
<1> QED BY <1>9, <1>10, <1>11, <1>13

\* The sorted order: a chunk with no lower score comes before another, unless
\* that one came up first.
LEMMA SortedOrder ==
  ASSUME SearchInv, fused = Len(rankings), NEW order \in Orders(Ranked), Ranked \subseteq Chunks,
         \A i, j \in DOMAIN order : i < j => Precedes(order[i], order[j]),
         NEW a \in Chunks, NEW b \in Chunks, a # b, AheadIn(Len(rankings), a, b)
  PROVE  Ahead(order, a, b)
<1>1. order \in Seq(Chunks) /\ IsInjective(order) /\ ToSet(order) = Ranked
  BY OrderLists
<1>2. /\ DOMAIN order = 1 .. Len(order) /\ Len(order) \in Nat
      /\ DOMAIN rankings = 1 .. Len(rankings) /\ Len(rankings) \in Nat
  BY <1>1, LenProperties DEF SearchInv, SearchTypeOK
<1>3. SUFFICES ASSUME b \in ToSet(order) PROVE a \in ToSet(order) /\ RankIn(a, order) < RankIn(b, order)
  BY DEF Ahead
<1>4. a \in ToSet(order)
  <2>1. PICK i \in 1 .. Len(rankings) : b \in ToSet(rankings[i])
    BY <1>1, <1>2, <1>3 DEF Ranked
  <2>2. a \in ToSet(rankings[i])
    BY <2>1 DEF AheadIn, Ahead
  <2> QED BY <1>1, <1>2, <2>2 DEF Ranked
<1>5. /\ RankIn(a, order) \in DOMAIN order /\ order[RankIn(a, order)] = a
      /\ RankIn(b, order) \in DOMAIN order /\ order[RankIn(b, order)] = b
  BY <1>3, <1>4, RankInIs
<1>6. RankIn(a, order) # RankIn(b, order)
  BY <1>5
<1>7. ~(RankIn(b, order) < RankIn(a, order))
  <2> SUFFICES ASSUME RankIn(b, order) < RankIn(a, order) PROVE FALSE
    OBVIOUS
  <2>1. Precedes(b, a)
    BY <1>5
  <2>2. score[a] >= score[b] /\ score[a] \in Nat /\ score[b] \in Nat
    BY DEF SearchInv, Scored, SearchTypeOK
  <2>3. CameUpBefore(b, a)
    BY <2>1, <2>2 DEF Precedes
  <2>4. PICK i \in 1 .. Len(rankings) :
          /\ b \in ToSet(rankings[i])
          /\ \A j \in 1 .. i : a \in ToSet(rankings[j]) =>
               j = i /\ RankIn(b, rankings[i]) < RankIn(a, rankings[i])
    BY <1>2, <2>3 DEF CameUpBefore
  <2>5. a \in ToSet(rankings[i]) /\ RankIn(a, rankings[i]) < RankIn(b, rankings[i])
    BY <2>4 DEF AheadIn, Ahead
  <2>6. RankIn(b, rankings[i]) < RankIn(a, rankings[i])
    BY <2>4, <2>5
  <2>7. rankings[i] \in Rankings(Chunks)
    BY <2>4, ElementOfSeq DEF SearchInv, SearchTypeOK
  <2>8. RankIn(a, rankings[i]) \in Int /\ RankIn(b, rankings[i]) \in Int
    BY <2>4, <2>5, <2>7, RankInIs, RankingFacts
  <2> QED BY <2>5, <2>6, <2>8
<1> QED BY <1>2, <1>4, <1>5, <1>6, <1>7

LEMMA RankedAreChunks == SearchTypeOK => Ranked \subseteq Chunks
<1> SUFFICES ASSUME SearchTypeOK PROVE Ranked \subseteq Chunks
  OBVIOUS
<1>1. DOMAIN rankings = 1 .. Len(rankings) /\ rankings \in Seq(Rankings(Chunks))
  BY LenProperties DEF SearchTypeOK
<1>2. \A i \in DOMAIN rankings : rankings[i] \in Rankings(Chunks)
  BY <1>1, ElementOfSeq
<1>3. \A i \in DOMAIN rankings : ToSet(rankings[i]) \subseteq Chunks
  BY <1>2, RankingFacts
<1> QED BY <1>3 DEF Ranked

LEMMA FuseKeeps == SearchInv /\ Fuse => SearchInv'
<1> SUFFICES ASSUME SearchInv, Fuse PROVE SearchInv'
  OBVIOUS
<1>0. SearchTypeOK /\ Asked /\ Corpus /\ HitsSound /\ Scored /\ OverFetch * TopK \in Nat
  BY SearchAssumption DEF SearchSettings, SearchInv
<1>1. PICK order \in Orders(Ranked) :
        /\ \A i, j \in DOMAIN order : i < j => Precedes(order[i], order[j])
        /\ hits' = AtMost(OverFetch * TopK, order)
  BY DEF Fuse
<1>2. /\ stage = "fuse" /\ stage' = "fetch" /\ fused = Len(rankings) /\ rankings' = rankings
      /\ fused' = fused /\ score' = score /\ left' = left /\ options' = options /\ UNCHANGED corpus
  BY DEF Fuse
<1>3. Ranked \subseteq Chunks
  BY <1>0, RankedAreChunks
<1>4. order \in Seq(Chunks) /\ IsInjective(order)
  BY <1>3, OrderLists
<1>5. /\ hits' \in Seq(Chunks) /\ IsInjective(hits')
      /\ \A a, b : Ahead(order, a, b) => Ahead(hits', a, b)
  BY <1>0, <1>1, <1>4, PrefixKeeps
<1>6. SearchTypeOK'
  BY <1>0, <1>2, <1>5 DEF SearchTypeOK, corpus
<1>7. Asked' /\ Corpus'
  BY <1>0, <1>2 DEF Asked, Corpus, corpus
<1>8. HitsSound'
  BY <1>2, <1>5 DEF HitsSound
<1>9. Scored'
  BY <1>0, <1>2 DEF Scored, AheadIn
<1>10. ASSUME NEW b \in Chunks, NEW a \in always \ {b}, AheadIn(Len(rankings), a, b)
       PROVE  Ahead(hits', a, b)
  <2>1. a \in Chunks /\ a # b
    BY <1>0 DEF SearchTypeOK
  <2>2. Ahead(order, a, b)
    BY <1>1, <1>2, <1>3, <1>10, <2>1, SortedOrder
  <2> QED BY <1>5, <2>2
<1>11. InFront'
  BY <1>2, <1>10 DEF InFront, AheadIn, corpus
<1> QED BY <1>6, <1>7, <1>8, <1>9, <1>11 DEF SearchInv

\* Chunks are dropped from the hits, none of those that were there and fitted
\* all along.
LEMMA Dropping ==
  ASSUME SearchInv, NEW chunks \in {rows, fits}, NEW t \in Kept(hits, chunks)
  PROVE  /\ t \in Seq(Chunks) /\ IsInjective(t) /\ ToSet(t) = ToSet(hits) \cap chunks
         /\ \A a, b : a \in always /\ Ahead(hits, a, b) => Ahead(t, a, b)
<1>1. hits \in Seq(Chunks) /\ IsInjective(hits) /\ always \subseteq chunks
  BY DEF SearchInv, SearchTypeOK, HitsSound, Corpus
<1> QED BY <1>1, KeptKeeps

LEMMA FetchKeeps == SearchInv /\ Fetch => SearchInv'
<1> SUFFICES ASSUME SearchInv, Fetch PROVE SearchInv'
  OBVIOUS
<1>0. SearchTypeOK /\ Asked /\ Corpus /\ HitsSound /\ Scored /\ InFront
  BY DEF SearchInv
<1>1. hits' \in Kept(hits, rows)
  BY DEF Fetch
<1>2. /\ stage = "fetch" /\ stage' = "hydrate" /\ UNCHANGED <<corpus, options, left, rankings, fused, score>>
  BY DEF Fetch
<1>3. /\ hits' \in Seq(Chunks) /\ IsInjective(hits') /\ ToSet(hits') = ToSet(hits) \cap rows
      /\ \A a, b : a \in always /\ Ahead(hits, a, b) => Ahead(hits', a, b)
  BY <1>1, Dropping
<1>4. SearchTypeOK'
  BY <1>0, <1>2, <1>3 DEF SearchTypeOK, corpus
<1>5. Asked' /\ Corpus'
  BY <1>0, <1>2 DEF Asked, Corpus, corpus
<1>6. HitsSound'
  BY <1>0, <1>2, <1>3 DEF HitsSound, Corpus, corpus
<1>7. Scored'
  BY <1>0, <1>2 DEF Scored, AheadIn
<1>8. InFront'
  BY <1>0, <1>2, <1>3 DEF InFront, AheadIn, corpus
<1> QED BY <1>4, <1>5, <1>6, <1>7, <1>8 DEF SearchInv

LEMMA HydrateKeeps == SearchInv /\ Hydrate => SearchInv'
<1> SUFFICES ASSUME SearchInv, Hydrate PROVE SearchInv'
  OBVIOUS
<1>0. SearchTypeOK /\ Asked /\ Corpus /\ HitsSound /\ Scored /\ InFront
  BY DEF SearchInv
<1>1. hits' \in Kept(hits, rows)
  BY DEF Hydrate
<1>2. /\ stage = "hydrate" /\ stage' = "filter" /\ UNCHANGED <<corpus, options, left, rankings, fused, score>>
  BY DEF Hydrate
<1>3. /\ hits' \in Seq(Chunks) /\ IsInjective(hits') /\ ToSet(hits') = ToSet(hits) \cap rows
      /\ \A a, b : a \in always /\ Ahead(hits, a, b) => Ahead(hits', a, b)
  BY <1>1, Dropping
<1>4. SearchTypeOK'
  BY <1>0, <1>2, <1>3 DEF SearchTypeOK, corpus
<1>5. Asked' /\ Corpus'
  BY <1>0, <1>2 DEF Asked, Corpus, corpus
<1>6. HitsSound'
  BY <1>0, <1>2, <1>3 DEF HitsSound, Corpus, corpus
<1>7. Scored'
  BY <1>0, <1>2 DEF Scored, AheadIn
<1>8. InFront'
  BY <1>0, <1>2, <1>3 DEF InFront, AheadIn, corpus
<1> QED BY <1>4, <1>5, <1>6, <1>7, <1>8 DEF SearchInv

LEMMA FilterKeeps == SearchInv /\ Filter => SearchInv'
<1> SUFFICES ASSUME SearchInv, Filter PROVE SearchInv'
  OBVIOUS
<1>0. SearchTypeOK /\ Asked /\ Corpus /\ HitsSound /\ Scored /\ InFront
  BY DEF SearchInv
<1>1. IF options.filtered THEN hits' \in Kept(hits, fits) ELSE hits' = hits
  BY DEF Filter
<1>2. /\ stage = "filter" /\ stage' = "rerank" /\ UNCHANGED <<corpus, options, left, rankings, fused, score>>
  BY DEF Filter
<1>3. /\ hits' \in Seq(Chunks) /\ IsInjective(hits') /\ ToSet(hits') \subseteq ToSet(hits)
      /\ options.filtered => ToSet(hits') \subseteq fits
      /\ \A a, b : a \in always /\ Ahead(hits, a, b) => Ahead(hits', a, b)
  <2>1. CASE options.filtered
    BY <1>1, <2>1, Dropping
  <2>2. CASE ~options.filtered
    BY <1>0, <1>1, <2>2 DEF SearchTypeOK, HitsSound
  <2> QED BY <2>1, <2>2
<1>4. SearchTypeOK'
  BY <1>0, <1>2, <1>3 DEF SearchTypeOK, corpus
<1>5. Asked' /\ Corpus'
  BY <1>0, <1>2 DEF Asked, Corpus, corpus
<1>6. HitsSound'
  BY <1>0, <1>2, <1>3 DEF HitsSound, Corpus, corpus
<1>7. Scored'
  BY <1>0, <1>2 DEF Scored, AheadIn
<1>8. InFront'
  BY <1>0, <1>2, <1>3 DEF InFront, AheadIn, corpus
<1> QED BY <1>4, <1>5, <1>6, <1>7, <1>8 DEF SearchInv

LEMMA ChangeKeeps == SearchInv /\ (ChangeRows \/ ChangeFit) => SearchInv'
<1> SUFFICES ASSUME SearchInv, ChangeRows \/ ChangeFit PROVE SearchInv'
  OBVIOUS
<1>0. /\ SearchTypeOK /\ Asked /\ Corpus /\ HitsSound /\ Scored /\ InFront /\ MaxChanges \in Nat
  BY SearchAssumption DEF SearchInv, SearchSettings
<1>1. rows' \subseteq Chunks /\ indexed' \subseteq Chunks /\ fits' \subseteq Chunks
  BY <1>0 DEF ChangeRows, ChangeFit, SearchTypeOK
<1>2. /\ changes < MaxChanges /\ changes' = changes + 1
      /\ always' = always \cap rows' \cap fits'
      /\ ever' = [there |-> ever.there \cup rows', fit |-> ever.fit \cup fits']
      /\ UNCHANGED <<options, stage, left, rankings, fused, score, hits>>
  BY DEF ChangeRows, ChangeFit, Changed
<1>3. SearchTypeOK'
  BY <1>0, <1>1, <1>2 DEF SearchTypeOK
<1>4. Asked' /\ Scored'
  BY <1>0, <1>2 DEF Asked, Scored, AheadIn
<1>5. Corpus'
  BY <1>2 DEF Corpus
<1>6. HitsSound'
  BY <1>0, <1>2 DEF HitsSound
<1>7. InFront'
  BY <1>0, <1>2 DEF InFront, AheadIn
<1> QED BY <1>3, <1>4, <1>5, <1>6, <1>7 DEF SearchInv

\* The elements of two sequences, one after the other.
LEMMA Joining ==
  ASSUME NEW s \in Seq(Chunks), NEW t \in Seq(Chunks)
  PROVE  /\ s \o t \in Seq(Chunks) /\ Len(s \o t) = Len(s) + Len(t)
         /\ \A i \in 1 .. Len(s) : (s \o t)[i] = s[i]
         /\ \A i \in 1 .. Len(t) : (s \o t)[Len(s) + i] = t[i]
<1>1. Len(s) \in Nat /\ Len(t) \in Nat
  BY LenProperties
<1>2. /\ s \o t \in Seq(Chunks) /\ Len(s \o t) = Len(s) + Len(t)
      /\ \A i \in 1 .. Len(s) + Len(t) : (s \o t)[i] = IF i <= Len(s) THEN s[i] ELSE t[i - Len(s)]
  BY ConcatProperties
<1>3. ASSUME NEW i \in 1 .. Len(s) PROVE (s \o t)[i] = s[i]
  <2>1. i \in 1 .. Len(s) + Len(t) /\ i <= Len(s)
    BY <1>1
  <2> QED BY <1>2, <2>1
<1>4. ASSUME NEW i \in 1 .. Len(t) PROVE (s \o t)[Len(s) + i] = t[i]
  <2>1. Len(s) + i \in 1 .. Len(s) + Len(t) /\ ~(Len(s) + i <= Len(s)) /\ Len(s) + i - Len(s) = i
    BY <1>1
  <2> QED BY <1>2, <2>1
<1> QED BY <1>2, <1>3, <1>4

\* The elements of a sequence from the k-th on; k may be past its end.
LEMMA RestOf ==
  ASSUME NEW s \in Seq(Chunks), NEW k \in Nat
  PROVE  /\ SubSeq(s, k + 1, Len(s)) \in Seq(Chunks)
         /\ k <= Len(s) => /\ Len(SubSeq(s, k + 1, Len(s))) = Len(s) - k
                           /\ \A i \in 1 .. Len(s) - k : SubSeq(s, k + 1, Len(s))[i] = s[k + i]
<1>1. Len(s) \in Nat /\ k + 1 \in Int /\ \A i \in k + 1 .. Len(s) : s[i] \in Chunks
  BY LenProperties, ElementOfSeq
<1>2. PICK rest : rest = SubSeq(s, k + 1, Len(s))
  OBVIOUS
<1>3. Len(s) \in Int
  BY <1>1
<1>4. /\ rest \in Seq(Chunks) /\ Len(rest) = IF k + 1 <= Len(s) THEN Len(s) - (k + 1) + 1 ELSE 0
      /\ \A i \in 1 .. Len(s) - (k + 1) + 1 : rest[i] = s[k + 1 + i - 1]
  BY <1>1, <1>2, <1>3, SubSeqProperties
<1>5. ASSUME k <= Len(s)
      PROVE  Len(rest) = Len(s) - k /\ \A i \in 1 .. Len(s) - k : rest[i] = s[k + i]
  <2>1. Len(rest) = Len(s) - k
    BY <1>1, <1>4, <1>5
  <2>2. ASSUME NEW i \in 1 .. Len(s) - k PROVE rest[i] = s[k + i]
    <3>1. i \in 1 .. Len(s) - (k + 1) + 1 /\ k + 1 + i - 1 = k + i
      BY <1>1
    <3> QED BY <1>4, <3>1
  <2> QED BY <2>1, <2>2
<1> QED BY <1>2, <1>4, <1>5

\* The first k of a sequence replaced by others of them, the rest as it was.
LEMMA Replaced ==
  ASSUME NEW s \in Seq(Chunks), IsInjective(s), NEW r \in Seq(Chunks), IsInjective(r),
         Len(r) <= Len(s), \A i \in 1 .. Len(r) : \E j \in 1 .. Len(r) : r[i] = s[j]
  PROVE  /\ r \o SubSeq(s, Len(r) + 1, Len(s)) \in Seq(Chunks)
         /\ IsInjective(r \o SubSeq(s, Len(r) + 1, Len(s)))
         /\ ToSet(r \o SubSeq(s, Len(r) + 1, Len(s))) \subseteq ToSet(s)
         /\ Len(r \o SubSeq(s, Len(r) + 1, Len(s))) = Len(s)
         /\ (\A i \in 1 .. Len(r) : r[i] = s[i]) =>
              \A i \in 1 .. Len(s) : (r \o SubSeq(s, Len(r) + 1, Len(s)))[i] = s[i]
<1>1. PICK k \in Nat : k = Len(r)
  BY LenProperties
<1>2. PICK n \in Nat : n = Len(s)
  BY LenProperties
<1>3. PICK rest : rest = SubSeq(s, k + 1, n)
  OBVIOUS
<1>4. k <= n
  BY <1>1, <1>2
<1>5. rest \in Seq(Chunks) /\ Len(rest) = n - k /\ \A i \in 1 .. n - k : rest[i] = s[k + i]
  BY <1>2, <1>3, <1>4, RestOf
<1>6. PICK c : c = r \o rest
  OBVIOUS
<1>7. /\ c \in Seq(Chunks) /\ Len(c) = k + Len(rest) /\ \A i \in 1 .. k : c[i] = r[i]
      /\ \A i \in 1 .. Len(rest) : c[k + i] = rest[i]
  BY <1>1, <1>5, <1>6, Joining
<1>8. Len(c) = n
  BY <1>5, <1>7
<1>9. \A i \in 1 .. n : i > k => c[i] = s[i]
  <2> TAKE i \in 1 .. n
  <2>1. ASSUME i > k PROVE c[i] = s[i]
    <3>1. i - k \in 1 .. n - k /\ k + (i - k) = i
      BY <2>1
    <3>2. c[k + (i - k)] = rest[i - k] /\ rest[i - k] = s[k + (i - k)]
      BY <1>5, <1>7, <3>1
    <3> QED BY <3>1, <3>2
  <2> QED BY <2>1
<1>10. DOMAIN s = 1 .. n /\ DOMAIN c = 1 .. n /\ DOMAIN r = 1 .. k
  BY <1>1, <1>2, <1>7, <1>8, LenProperties
<1>11. \A i \in 1 .. n : i <= k => i \in 1 .. k /\ c[i] = r[i] /\ \E j \in 1 .. k : c[i] = s[j]
  BY <1>1, <1>7
<1>12. \A j \in 1 .. k : j \in 1 .. n
  BY <1>4
<1>13. IsInjective(c)
  <2> SUFFICES ASSUME NEW i \in 1 .. n, NEW j \in 1 .. n, c[i] = c[j] PROVE i = j
    BY <1>10 DEF IsInjective
  <2>1. CASE i <= k /\ j <= k
    BY <1>10, <1>11, <2>1 DEF IsInjective
  <2>2. CASE i > k /\ j > k
    BY <1>9, <1>10, <2>2 DEF IsInjective
  <2>3. CASE i <= k /\ j > k
    <3>1. PICK l \in 1 .. k : c[i] = s[l]
      BY <1>11, <2>3
    <3>2. s[l] = s[j] /\ l \in 1 .. n
      BY <1>9, <1>12, <2>3, <3>1
    <3>3. l = j
      BY <1>10, <3>2 DEF IsInjective
    <3> QED BY <2>3, <3>1, <3>3
  <2>4. CASE i > k /\ j <= k
    <3>1. PICK l \in 1 .. k : c[j] = s[l]
      BY <1>11, <2>4
    <3>2. s[l] = s[i] /\ l \in 1 .. n
      BY <1>9, <1>12, <2>4, <3>1
    <3>3. l = i
      BY <1>10, <3>2 DEF IsInjective
    <3> QED BY <2>4, <3>1, <3>3
  <2> QED BY <2>1, <2>2, <2>3, <2>4
<1>14. \A i \in 1 .. n : \E j \in 1 .. n : c[i] = s[j]
  BY <1>9, <1>11, <1>12
<1>15. ToSet(c) \subseteq ToSet(s)
  <2> SUFFICES ASSUME NEW x \in ToSet(c) PROVE x \in ToSet(s)
    OBVIOUS
  <2>1. PICK i \in 1 .. n : x = c[i]
    BY <1>10 DEF ToSet
  <2>2. PICK j \in 1 .. n : c[i] = s[j]
    BY <1>14
  <2> QED BY <1>10, <2>1, <2>2 DEF ToSet
<1>16. (\A i \in 1 .. k : r[i] = s[i]) => \A i \in 1 .. n : c[i] = s[i]
  BY <1>9, <1>11
<1> QED BY <1>1, <1>2, <1>3, <1>6, <1>7, <1>8, <1>13, <1>15, <1>16

\* What the reranker returns: without one, the window; otherwise chunks of the
\* window, each once, all that are asked for or as many as there are.
LEMMA Reordered ==
  ASSUME NEW window \in Seq(Chunks), IsInjective(window), NEW ranked \in Reorderings(window)
  PROVE  /\ ranked \in Seq(Chunks) /\ IsInjective(ranked)
         /\ \A i \in 1 .. Len(ranked) : \E j \in 1 .. Len(window) : ranked[i] = window[j]
         /\ Len(ranked) \in {TopK, Len(window)} /\ (~options.reranked => ranked = window)
<1>1. DOMAIN window = 1 .. Len(window) /\ Len(window) \in Nat /\ TopK \in Nat
  BY SearchAssumption, LenProperties DEF SearchSettings
<1>2. ToSet(window) \subseteq Chunks
  BY <1>1, ElementOfSeq DEF ToSet
<1>3. CASE ranked = window
  <2>1. \A i \in 1 .. Len(ranked) : ranked[i] = window[i]
    BY <1>3
  <2> QED BY <1>3, <2>1
<1>4. CASE /\ options.reranked /\ ranked \in SeqOf(ToSet(window), TopK) /\ IsInjective(ranked)
           /\ (Len(ranked) = TopK \/ Len(ranked) = Len(window))
  <2>1. PICK n \in 0 .. TopK : ranked \in [1 .. n -> ToSet(window)]
    BY <1>4 DEF SeqOf
  <2>2. n \in Nat /\ ranked \in [1 .. n -> Chunks]
    BY <1>1, <1>2, <2>1
  <2>3. ranked \in Seq(Chunks) /\ Len(ranked) = n
    BY <2>2
  <2>4. \A i \in 1 .. n : ranked[i] \in ToSet(window)
    BY <2>1
  <2>5. \A i \in 1 .. n : \E j \in 1 .. Len(window) : ranked[i] = window[j]
    BY <1>1, <2>4 DEF ToSet
  <2> QED BY <1>4, <2>3, <2>5
<1> QED BY <1>3, <1>4 DEF Reorderings

\* The result: some of the hits, each once; without a reranker a prefix of them.
LEMMA Returned ==
  ASSUME NEW s \in Seq(Chunks), IsInjective(s), NEW ranked \in Reorderings(AtMost(RerankN, s)),
         NEW t, t = AtMost(TopK, ranked \o SubSeq(s, Len(ranked) + 1, Len(s)))
  PROVE  /\ t \in Seq(Chunks) /\ IsInjective(t) /\ Len(t) <= TopK /\ ToSet(t) \subseteq ToSet(s)
         /\ ~options.reranked => \A a, b : Ahead(s, a, b) => Ahead(t, a, b)
<1>1. RerankN \in Nat /\ TopK \in Nat
  BY SearchAssumption DEF SearchSettings
<1>2. PICK m \in 0 .. Len(s) : m = (IF Len(s) < RerankN THEN Len(s) ELSE RerankN)
  BY <1>1, LenProperties
<1>3. PICK window : window = SubSeq(s, 1, m)
  OBVIOUS
<1>4. AtMost(RerankN, s) = window
  BY <1>2, <1>3 DEF AtMost
<1>5. window \in Seq(Chunks) /\ Len(window) = m /\ \A i \in 1 .. m : window[i] = s[i]
  BY <1>3, FirstOf
<1>6. Len(s) \in Nat /\ DOMAIN s = 1 .. Len(s) /\ \A i \in 1 .. m : i \in 1 .. Len(s)
  BY LenProperties
<1>7. IsInjective(window)
  BY <1>1, <1>4, PrefixKeeps
<1>8. /\ ranked \in Seq(Chunks) /\ IsInjective(ranked)
      /\ \A i \in 1 .. Len(ranked) : \E j \in 1 .. m : ranked[i] = window[j]
      /\ Len(ranked) \in {TopK, m} /\ (~options.reranked => ranked = window)
  BY <1>4, <1>5, <1>7, Reordered
<1>9. \A i \in 1 .. Len(ranked) : \E j \in 1 .. m : ranked[i] = s[j]
  BY <1>5, <1>8
<1>10. Len(ranked) \in Nat /\ DOMAIN ranked = 1 .. Len(ranked)
  BY <1>8, LenProperties
<1>11. PICK rest : rest = SubSeq(s, Len(ranked) + 1, Len(s))
  OBVIOUS
<1>12. rest \in Seq(Chunks)
  BY <1>10, <1>11, RestOf
<1>13. PICK c : c = ranked \o rest
  OBVIOUS
<1>14. /\ c \in Seq(Chunks) /\ Len(c) = Len(ranked) + Len(rest)
       /\ \A i \in 1 .. Len(ranked) : c[i] = ranked[i]
  BY <1>8, <1>12, <1>13, Joining
<1>15. t = AtMost(TopK, c)
  BY <1>11, <1>13
<1>16. CASE Len(ranked) = m
  <2>1. Len(ranked) <= Len(s)
    BY <1>6, <1>16
  <2>2. /\ IsInjective(c) /\ ToSet(c) \subseteq ToSet(s) /\ Len(c) = Len(s)
        /\ (\A i \in 1 .. Len(ranked) : ranked[i] = s[i]) => \A i \in 1 .. Len(s) : c[i] = s[i]
    BY <1>8, <1>9, <1>11, <1>13, <1>16, <2>1, Replaced
  <2>3. /\ t \in Seq(Chunks) /\ Len(t) <= TopK /\ IsInjective(t) /\ ToSet(t) \subseteq ToSet(c)
        /\ \A a, b : Ahead(c, a, b) => Ahead(t, a, b)
    BY <1>1, <1>14, <1>15, <2>2, PrefixKeeps
  <2>4. ASSUME ~options.reranked, NEW a, NEW b, Ahead(s, a, b) PROVE Ahead(t, a, b)
    <3>1. \A i \in 1 .. Len(ranked) : ranked[i] = s[i]
      BY <1>5, <1>8, <1>16, <2>4
    <3>2. \A i \in 1 .. Len(c) : c[i] = s[i]
      BY <2>2, <3>1
    <3>3. Len(c) <= Len(s)
      BY <1>6, <2>2
    <3>4. Ahead(c, a, b)
      BY <1>14, <2>4, <3>2, <3>3, PrefixOrder
    <3> QED BY <2>3, <3>4
  <2> QED BY <2>2, <2>3, <2>4
<1>17. CASE Len(ranked) = TopK /\ Len(ranked) # m
  <2>1. options.reranked
    BY <1>5, <1>8, <1>17
  <2>2. Len(rest) \in Nat /\ Len(c) \in Nat /\ Len(ranked) <= Len(c)
    BY <1>10, <1>12, <1>14, LenProperties
  <2>3. PICK k \in 0 .. Len(c) : k = (IF Len(c) < TopK THEN Len(c) ELSE TopK) /\ k = Len(ranked)
    BY <1>1, <1>10, <1>17, <2>2
  <2>4. t = SubSeq(c, 1, k)
    BY <1>15, <2>3 DEF AtMost
  <2>5. t \in Seq(Chunks) /\ Len(t) = k /\ \A i \in 1 .. k : t[i] = c[i]
    BY <1>14, <2>4, FirstOf
  <2>6. \A i \in 1 .. k : t[i] = ranked[i]
    BY <1>14, <2>3, <2>5
  <2>7. DOMAIN t = 1 .. k
    BY <2>5, LenProperties
  <2>8. IsInjective(t)
    BY <1>8, <1>10, <2>3, <2>6, <2>7 DEF IsInjective
  <2>9. ToSet(t) \subseteq ToSet(s)
    <3> SUFFICES ASSUME NEW x \in ToSet(t) PROVE x \in ToSet(s)
      OBVIOUS
    <3>1. PICK i \in 1 .. k : x = t[i]
      BY <2>7 DEF ToSet
    <3>2. x = ranked[i] /\ i \in 1 .. Len(ranked)
      BY <2>3, <2>6, <3>1
    <3>3. PICK j \in 1 .. m : ranked[i] = s[j]
      BY <1>9, <3>2
    <3> QED BY <1>6, <3>2, <3>3 DEF ToSet
  <2>10. Len(t) <= TopK
    BY <1>1, <1>17, <2>3, <2>5
  <2> QED BY <2>1, <2>5, <2>8, <2>9, <2>10
<1> QED BY <1>8, <1>16, <1>17

LEMMA RerankKeeps == SearchInv /\ Rerank => SearchInv'
<1> SUFFICES ASSUME SearchInv, Rerank PROVE SearchInv'
  OBVIOUS
<1>0. SearchTypeOK /\ Asked /\ Corpus /\ HitsSound /\ Scored /\ InFront
  BY DEF SearchInv
<1>1. PICK ranked \in Reorderings(AtMost(RerankN, hits)) :
        hits' = AtMost(TopK, ranked \o SubSeq(hits, Len(ranked) + 1, Len(hits)))
  BY DEF Rerank
<1>2. /\ stage = "rerank" /\ stage' = "done" /\ UNCHANGED <<corpus, options, left, rankings, fused, score>>
  BY DEF Rerank
<1>3. hits \in Seq(Chunks) /\ IsInjective(hits)
  BY <1>0 DEF SearchTypeOK, HitsSound
<1>4. /\ hits' \in Seq(Chunks) /\ IsInjective(hits') /\ Len(hits') <= TopK /\ ToSet(hits') \subseteq ToSet(hits)
      /\ ~options.reranked => \A a, b : Ahead(hits, a, b) => Ahead(hits', a, b)
  BY <1>1, <1>3, Returned
<1>5. SearchTypeOK'
  BY <1>0, <1>2, <1>4 DEF SearchTypeOK, corpus
<1>6. Asked' /\ Corpus'
  BY <1>0, <1>2 DEF Asked, Corpus, corpus
<1>7. HitsSound'
  BY <1>0, <1>2, <1>4 DEF HitsSound, corpus
<1>8. Scored'
  BY <1>0, <1>2 DEF Scored, AheadIn
<1>9. InFront'
  BY <1>0, <1>2, <1>4 DEF InFront, AheadIn, corpus
<1> QED BY <1>5, <1>6, <1>7, <1>8, <1>9 DEF SearchInv

-----------------------------------------------------------------------------
(* The theorems.                                                             *)

\* The invariant, whatever the legs return and however the corpus changes.
THEOREM SearchInvHolds == SearchSpec => []SearchInv
<1>1. SearchInv /\ [SearchNext]_searchVars => SearchInv'
  <2> SUFFICES ASSUME SearchInv, [SearchNext]_searchVars PROVE SearchInv'
    OBVIOUS
  <2>1. CASE UNCHANGED searchVars
    BY <2>1 DEF searchVars, corpus, SearchInv, SearchTypeOK, Asked, Corpus, HitsSound, Scored, InFront, AheadIn
  <2> QED BY <2>1, ExpandKeeps, TextKeeps, VectorKeeps, FuseRankingKeeps, FuseKeeps, FetchKeeps,
        HydrateKeeps, FilterKeeps, RerankKeeps, ChangeKeeps DEF SearchNext
<1> QED BY SearchStarts, <1>1, PTL DEF SearchSpec

\* Each variable of a search has its type; no more rankings than two a query.
THEOREM SearchTypeCorrect == SearchSpec => []SearchTypeOK
<1>1. SearchInv => SearchTypeOK
  BY DEF SearchInv
<1> QED BY <1>1, SearchInvHolds, PTL

\* RetrievalService.search returns chunks that were there while it ran, that
\* fitted its filters, each once, and no more than it was asked for.
THEOREM HitsLive == SearchSpec => []HitsAreLive
<1>1. SearchInv => HitsAreLive
  BY DEF SearchInv, HitsSound, HitsAreLive
<1> QED BY <1>1, SearchInvHolds, PTL

\* Without a reranker a chunk that every ranking puts before another, and that
\* stayed, is returned before it, for any number of queries, of chunks, of
\* changes, and any constant of the fusion.
THEOREM BetterAhead == SearchSpec => []BetterStaysAhead
<1>1. SearchInv => BetterStaysAhead
  <2> SUFFICES ASSUME SearchInv, stage = "done", ~options.reranked,
                      NEW b \in ToSet(hits), NEW a \in always \ {b}, Beats(a, b)
               PROVE  a \in ToSet(hits) /\ RankIn(a, hits) < RankIn(b, hits)
    BY DEF BetterStaysAhead
  <2>1. b \in Chunks
    <3>1. hits \in Seq(Chunks) /\ DOMAIN hits = 1 .. Len(hits)
      BY LenProperties DEF SearchInv, SearchTypeOK
    <3> QED BY <3>1, ElementOfSeq DEF ToSet
  <2>2. DOMAIN rankings = 1 .. Len(rankings)
    BY LenProperties DEF SearchInv, SearchTypeOK
  <2>3. AheadIn(Len(rankings), a, b)
    BY <2>2 DEF Beats, AheadIn, Ahead
  <2>4. Ahead(hits, a, b)
    BY <2>1, <2>3 DEF SearchInv, InFront
  <2> QED BY <2>4 DEF Ahead
<1> QED BY <1>1, SearchInvHolds, PTL
==============================================================================
