-------------------------------- MODULE Blog --------------------------------
(***************************************************************************)
(* What the blog registry promises to readers and authors: a post appears   *)
(* as a draft, is published by an explicit act, and keeps its author and    *)
(* its published state through every replacement of its text and every      *)
(* removal that does not go through.                                       *)
(***************************************************************************)
CONSTANTS Posts, Users, Texts, None

VARIABLES
    posts,   \* author, state and text of each post, or None
    hidden   \* posts whose removal is under way

vars == <<posts, hidden>>

Init ==
    /\ posts = [p \in Posts |-> None]
    /\ hidden = {}

Shown == {p \in Posts : posts[p] # None} \ hidden

Add(p, u, t) ==
    /\ posts[p] = None
    /\ posts' = [posts EXCEPT ![p] = [author |-> u, published |-> FALSE, text |-> t]]
    /\ UNCHANGED hidden

Publish(p) ==
    /\ p \in Shown
    /\ posts' = [posts EXCEPT ![p].published = TRUE]
    /\ UNCHANGED hidden

Replace(p, t) ==
    /\ p \in Shown
    /\ posts' = [posts EXCEPT ![p].text = t]
    /\ UNCHANGED hidden

Withdraw(p) ==
    /\ p \in Shown
    /\ hidden' = hidden \cup {p}
    /\ UNCHANGED posts

Reinstate(p) ==
    /\ p \in hidden
    /\ hidden' = hidden \ {p}
    /\ UNCHANGED posts

Remove(p) ==
    /\ p \in hidden
    /\ hidden' = hidden \ {p}
    /\ posts' = [posts EXCEPT ![p] = None]

Next == \E p \in Posts :
    \/ \E u \in Users, t \in Texts : Add(p, u, t)
    \/ \E t \in Texts : Replace(p, t)
    \/ Publish(p) \/ Withdraw(p) \/ Reinstate(p) \/ Remove(p)

Spec == Init /\ [][Next]_vars

=============================================================================
