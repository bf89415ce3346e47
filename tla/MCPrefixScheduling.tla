-------------------------- MODULE MCPrefixScheduling --------------------------
(* Instances of PrefixScheduling for TLC: prompts of one or two blocks, two   *)
(* of which share their first block.                                         *)
EXTENDS PrefixScheduling

CONSTANTS r1, r2, r3, a, b, c, d

SharedPrompts == (r1 :> <<a, b>>) @@ (r2 :> <<a, c>>) @@ (r3 :> <<d>>)
ShortPrompts  == (r1 :> <<a>>) @@ (r2 :> <<d>>)
LongPrompts   == (r1 :> <<a, b>>) @@ (r2 :> <<d>>)

Whole(n) == [chunked |-> FALSE, tokens |-> n]
Chunks(n) == [chunked |-> TRUE, tokens |-> n]
BothModes == {Whole(6), Chunks(4)}
WholeModes == {Whole(4)}
=============================================================================
