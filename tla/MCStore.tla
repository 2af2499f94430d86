------------------------------ MODULE MCStore ------------------------------
(***************************************************************************)
(* Instances of SkbStore: two documents and three configurations.  B        *)
(* changes the dimension; C keeps A's dimension and changes the model, the  *)
(* tokenizer and max_input_tokens; C's tokenizer finds nothing in d2.       *)
(***************************************************************************)
EXTENDS SkbStore

CONSTANTS d1, d2

MCDocs == {d1, d2}
A == [model |-> "a", dim |-> 1, max |-> 1, tok |-> "t"]
B == [model |-> "b", dim |-> 2, max |-> 1, tok |-> "t"]
C == [model |-> "c", dim |-> 1, max |-> 2, tok |-> "u"]
MCConfigs == {A, B, C}
MCNoTokens == {<<"u", d2>>}
=============================================================================
