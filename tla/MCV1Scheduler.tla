---------------------------- MODULE MCV1Scheduler ----------------------------
(* Instances of V1Scheduler for TLC.                                          *)
EXTENDS V1Scheduler

CONSTANTS r1, r2, r3, m1, m2

\* r1 and r2 begin with the same full block, which is all of the prompt of r1.
Prompts == r1 :> <<1, 1>> @@ r2 :> <<1, 1, 1>> @@ r3 :> <<2, 2>>
             @@ m1 :> <<5, 5, 7, 7>> @@ m2 :> <<6, 6, 6>>
Lengths == r1 :> 1 @@ r2 :> 2 @@ r3 :> 4 @@ m1 :> 1 @@ m2 :> 2
\* m1 has two images, which do not fit into the encoder's budget together, m2 has
\* one after a token of text.  An image is part of the hash: each has its own tokens.
Image(offset) == [offset |-> offset, length |-> 2]
Inputs == [r \in {r1, r2, r3} |-> <<>>] @@ m1 :> <<Image(0), Image(2)>> @@ m2 :> <<Image(1)>>

Texts == {r1, r2, r3}

Mode(queue, blocks, budget, spec, seqs, requests, tokens) ==
  [queue |-> queue, blocks |-> blocks, budget |-> budget, spec |-> spec, seqs |-> seqs,
   requests |-> requests, tokens |-> tokens]

\* Scarce blocks and tokens; pipeline parallelism, drafts and images with enough blocks.
Scarce == Mode(1, 3, 3, 0, 2, Texts, {1})
Pipeline == Mode(2, 6, 4, 0, 2, Texts, {1})
Drafts == Mode(1, 6, 12, 1, 2, {r1, r2}, {1, 2})
Pictures == Mode(1, 9, 3, 0, 3, {r1, m1, m2}, {1})
PassingModes == {Scarce, Pipeline, Drafts, Pictures}

\* Pipeline parallelism with scarce blocks.
ScarcePipeline == {Mode(2, 3, 3, 0, 2, Texts, {1})}

\* Beyond Tame, where AssertionsHold fails (see the README): drafts of two tokens, up
\* to the length limit; and with a budget that cuts them.
LongDrafts == {Mode(1, 6, 12, 2, 2, {r3}, {1})}
CutDrafts == {Mode(1, 6, 1, 2, 1, {r3}, {1})}

\* Beyond Tame as well: three batches in flight with scarce blocks.
ThreeBatches == {Mode(3, 3, 2, 0, 2, Texts, {1})}
=============================================================================
