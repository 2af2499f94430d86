--------------------------- MODULE KnowledgeBase ---------------------------
(***************************************************************************)
(* What a knowledge base promises to the programs that open it.            *)
(*                                                                         *)
(* While it is in service every document is embedded under one profile     *)
(* (model, dimension, tokenizer), the one the program runs with.  It is    *)
(* taken out of service to change the profile, and comes back with every   *)
(* document it had, all re-embedded at once as far as anyone can see.      *)
(***************************************************************************)
CONSTANTS
    Docs,
    Profiles,
    NoTokens,   \* <<tok, d>>: tokenizer tok finds nothing to embed in d
    Absent,     \* no such document
    Bare,       \* stored without a vector
    Pending,    \* stored, while out of service
    None        \* out of service

VARIABLES
    profile,    \* what everything is embedded under, or None
    vectors     \* per document

vars == <<profile, vectors>>

Init ==
    /\ profile = None
    /\ vectors = [d \in Docs |-> Absent]

(* In service under p.  A document p finds nothing in keeps what it had. *)
Settle(p) ==
    /\ profile = None
    /\ profile' = p
    /\ vectors' \in [Docs -> Profiles \cup {Absent, Bare}]
    /\ \A d \in Docs :
         /\ vectors'[d] = Absent <=> vectors[d] = Absent
         /\ \/ vectors[d] = Absent
            \/ vectors'[d] = p
            \/ <<p.tok, d>> \in NoTokens

Suspend ==
    /\ profile # None
    /\ profile' = None
    /\ vectors' = [d \in Docs |-> IF vectors[d] = Absent THEN Absent ELSE Pending]

Put(d) ==
    /\ profile # None
    /\ vectors' = [vectors EXCEPT ![d] = profile]
    /\ UNCHANGED profile

Remove(d) ==
    /\ profile # None
    /\ vectors' = [vectors EXCEPT ![d] = Absent]
    /\ UNCHANGED profile

Next ==
    \/ \E p \in Profiles : Settle(p)
    \/ Suspend
    \/ \E d \in Docs : Put(d) \/ Remove(d)

Spec == Init /\ [][Next]_vars

=============================================================================
