------------------------------- MODULE Palette -------------------------------
(***************************************************************************)
(* The search palette: web/packages/ui/src/search/SearchPalette.tsx.       *)
(* Keys, the debounce timer, answers of the server and the parent's prop   *)
(* come in any order; an answer may be any number of rows, or a failure,   *)
(* and may overtake another.                                               *)
(***************************************************************************)
EXTENDS Integers, FiniteSets

CONSTANTS
    Queries,        \* texts that can be typed
    Empty,          \* the empty text
    Quiet,          \* no timer is set
    MaxRows,        \* bound of the model: rows of an answer
    MaxSeq          \* bound of the model: searches and invalidations

ASSUME PaletteAssumption == Empty \notin Queries /\ Quiet \notin Queries

VARIABLES
    prop,           \* the parent's `open`
    isOpen,
    query,          \* the text in the input
    list,           \* the hits: [of, rows], none if rows = 0
    rendered,       \* how many hits React has rendered: a state that was set
                    \* is not seen by the handlers until then
    selected,
    early,          \* an arrow key moved the selection before its list was
                    \* rendered (a history variable: no step depends on it)
    seq,            \* seqRef
    timer,          \* the text whose debounce runs, or Quiet
    flying          \* requests under way, as [seq, of]

paletteVars ==
    <<prop, isOpen, query, list, rendered, selected, early, seq, timer, flying>>

Nothing == [of |-> Empty, rows |-> 0]

Invalidate == timer' = Quiet /\ seq' = seq + 1

\* The effects of a change of isOpen: a fresh state when it opens.
SetOpen(b) ==
    /\ isOpen' = b
    /\ IF b /\ ~isOpen
       THEN query' = Empty /\ list' = Nothing /\ selected' = 0 /\ early' = FALSE
       ELSE UNCHANGED <<query, list, selected, early>>
    /\ UNCHANGED rendered

\* Closing itself, the palette tells its parent.
CloseItself == Invalidate /\ SetOpen(FALSE) /\ prop' = FALSE

ParentSets(b) ==
    /\ prop' = b /\ prop # b /\ SetOpen(b)
    /\ IF b THEN UNCHANGED <<seq, timer>> ELSE Invalidate
    /\ UNCHANGED flying

CommandK ==
    /\ IF isOpen THEN CloseItself ELSE SetOpen(TRUE) /\ UNCHANGED <<seq, timer, prop>>
    /\ UNCHANGED flying

Escape == isOpen /\ CloseItself /\ UNCHANGED flying

\* onInputChange
Type(text) ==
    /\ isOpen /\ text # query
    /\ seq' = seq + 1 /\ query' = text
    /\ timer' = IF text = Empty THEN Quiet ELSE text
    /\ list' = IF text = Empty THEN Nothing ELSE list
    /\ UNCHANGED <<prop, isOpen, rendered, selected, early, flying>>

\* The debounce has run out: runSearch.
Fire ==
    /\ timer # Quiet /\ timer' = Quiet
    /\ seq' = seq + 1 /\ flying' = flying \cup {[seq |-> seq + 1, of |-> timer]}
    /\ UNCHANGED <<prop, isOpen, query, list, rendered, selected, early>>

\* Any answer is taken.
FreshAlways(f) == TRUE

Fresh(f) == f.seq = seq

\* An answer, with the selection reset, or a failure without.
Arrives(f) ==
    /\ flying' = flying \ {f}
    /\ \/ Fresh(f) /\ selected' = 0 /\ early' = FALSE
          /\ \E n \in 0 .. MaxRows : list' = [of |-> f.of, rows |-> n]
       \/ Fresh(f) /\ list' = Nothing /\ UNCHANGED <<selected, early>>
       \/ ~Fresh(f) /\ UNCHANGED <<list, selected, early>>
    /\ UNCHANGED <<prop, isOpen, query, rendered, seq, timer>>

\* React renders what was set, at a time of its own.
Render ==
    /\ rendered # list.rows /\ rendered' = list.rows
    /\ UNCHANGED <<prop, isOpen, query, list, selected, early, seq, timer, flying>>

\* The key handlers know the hits of the last rendering; the selection that
\* they move is the latest.
Arrow ==
    /\ isOpen /\ rendered > 0
    /\ \/ selected' = IF selected + 1 < rendered THEN selected + 1 ELSE rendered - 1
       \/ selected' = IF selected > 0 THEN selected - 1 ELSE 0
    /\ early' = (early \/ rendered # list.rows)
    /\ UNCHANGED <<prop, isOpen, query, list, rendered, seq, timer, flying>>

\* Enter on the selected hit, or a click on any.
SelectHit == isOpen /\ rendered > 0 /\ CloseItself /\ UNCHANGED flying

PaletteInit ==
    /\ prop \in BOOLEAN /\ isOpen = prop /\ query = Empty /\ list = Nothing
    /\ rendered = 0 /\ selected = 0 /\ early = FALSE
    /\ seq = 0 /\ timer = Quiet /\ flying = {}

PaletteNext ==
    /\ seq < MaxSeq
    /\ \/ \E b \in BOOLEAN : ParentSets(b)
       \/ CommandK \/ Escape \/ Fire \/ Render \/ Arrow \/ SelectHit
       \/ \E text \in Queries \cup {Empty} : Type(text)
       \/ \E f \in flying : Arrives(f)

PaletteSpec == PaletteInit /\ [][PaletteNext]_paletteVars

-----------------------------------------------------------------------------
(* Properties *)

\* When the timer is quiet and no current request is under way, what is listed
\* answers the text in the input, and nothing is listed for an empty one, in
\* whatever order the answers to earlier texts arrive, also after the palette
\* was closed and opened again.  The selection is one of the rows, unless an
\* arrow key was pressed between an answer and its rendering: it is held to
\* the rows of the list before (SearchPalette.tsx:61-67, 119-161).
RestShowsTheQuery ==
    isOpen =>
        /\ timer = Quiet /\ (\A f \in flying : f.seq # seq) /\ list.rows > 0 =>
             list.of = query
        /\ query = Empty => list.rows = 0
        /\ list.rows > 0 /\ ~early => selected \in 0 .. list.rows - 1

=============================================================================
