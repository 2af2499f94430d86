------------------------------- MODULE MCBlog -------------------------------
(* Instances of BlogRegistry: two slots, two authors, three contents. *)
EXTENDS BlogRegistry, TLC

CONSTANTS r1, r2, alice, bob, x, y, z
MCRequests == {r1, r2}
MCAuthors == {alice, bob}
MCTexts == {x, y, z}
(* `force` with content that is no post; with every kind of document. *)
PlainForce == {<<TRUE, FALSE>>, <<FALSE, FALSE>>, <<FALSE, TRUE>>}
AnyForce == BOOLEAN \X BOOLEAN
Symmetry == Permutations(MCRequests) \cup Permutations(MCAuthors) \cup Permutations(MCTexts)
=============================================================================
