----------------------------- MODULE MCServing ------------------------------
(***************************************************************************)
(* The components that serve readers, and the editor, side by side.  They  *)
(* share no state, so each behaviour is one of Sessions, Listing,          *)
(* Retrieval, Chat, Palette or Autosave.                                   *)
(***************************************************************************)
EXTENDS Sessions, Listing, Retrieval, Chat, Palette, Autosave, TLC

SomeSize == [d \in Docs |-> d]
SomeTitle == [d \in Docs |-> d % 2]
SomeCount == [d \in Documents |-> IF d = 1 THEN 2 ELSE 1]

SomeScores == {-20, 0, 40}

SomeBodies ==
    {<<"delta", "tail">>, <<"part", "skip", "part">>, <<"part", "part">>, <<"done">>, <<"bad">>}

Hit(header, content) == [header |-> header, content |-> content]

SomePrompts ==
    {[question |-> 5, hits |-> <<Hit(2, 3), Hit(1, 5)>>, budget |-> 22],
     [question |-> 5, hits |-> <<Hit(1, 1)>>, budget |-> 1]}

VARIABLE part       \* the component this behaviour is about

vars == <<part, sessionVars, listVars, searchVars, chatVars, paletteVars, editorVars>>

Parts == {"sessions", "listing", "retrieval", "chat", "palette", "editor"}

InSessions(A) ==
    /\ part = "sessions" /\ A
    /\ UNCHANGED <<part, listVars, searchVars, chatVars, paletteVars, editorVars>>
InListing(A) ==
    /\ part = "listing" /\ A
    /\ UNCHANGED <<part, sessionVars, searchVars, chatVars, paletteVars, editorVars>>
InRetrieval(A) ==
    /\ part = "retrieval" /\ A
    /\ UNCHANGED <<part, sessionVars, listVars, chatVars, paletteVars, editorVars>>
InChat(A) ==
    /\ part = "chat" /\ A
    /\ UNCHANGED <<part, sessionVars, listVars, searchVars, paletteVars, editorVars>>
InPalette(A) ==
    /\ part = "palette" /\ A
    /\ UNCHANGED <<part, sessionVars, listVars, searchVars, chatVars, editorVars>>
InEditor(A) ==
    /\ part = "editor" /\ A
    /\ UNCHANGED <<part, sessionVars, listVars, searchVars, chatVars, paletteVars>>

\* A component a behaviour is not about stays in one of its initial states.
Init ==
    /\ part \in Parts
    /\ SessionInit /\ ListInit /\ SearchInit /\ ChatInit /\ PaletteInit /\ EditorInit
    /\ part # "sessions" => configured
    /\ part # "listing" => library = <<>>
    /\ part # "retrieval" => \A d \in Documents : shelf[d] = 0
    /\ part # "palette" => ~prop
    /\ part # "editor" => route = LiveId(CHOOSE n \in Notes : TRUE)

Next ==
    \/ InSessions(SessionNext) \/ InListing(ListNext) \/ InRetrieval(SearchNext)
    \/ InChat(ChatNext) \/ InPalette(PaletteNext) \/ InEditor(EditorNext)

\* See Chat: only a pipeline that is ready is bound to run.  The fairness of
\* the editor is that of FairEditorSpec.
Spec ==
    /\ Init /\ [][Next]_vars
    /\ \A n \in Streams : WF_vars(InChat(Quit(n) \/ Send(n)))
    /\ WF_vars(InEditor(FireDraft))
    /\ \A k \in Slots : WF_vars(InEditor(Serve(k))) /\ WF_vars(InEditor(Callback(k)))

=============================================================================
