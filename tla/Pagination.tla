----------------------------- MODULE Pagination -----------------------------
(***************************************************************************)
(* listAll: the pages of a collection are fetched one after the other, and *)
(* the collection may gain and lose entries between two of them.           *)
(***************************************************************************)
EXTENDS Integers, Sequences, SequencesExt

CONSTANTS
  Items,            \* what a collection may hold
  PerPage, MaxPages,
  CountsGiven,      \* whether the endpoint reports a total count: a set of BOOLEANs
  MaxShifts         \* bound: insertions and removals

ASSUME PageAssumption ==
  /\ IsFiniteSet(Items)
  /\ PerPage \in Nat \ {0} /\ MaxPages \in Nat \ {0}

VARIABLES
  collection,       \* the entries, in the order of the endpoint
  shifts,
  page, out,        \* of the walk; page 0 before and after it
  counted,          \* whether this endpoint reports a total count
  walk,             \* "idle", "walking", "done" or "failed"
  steady,           \* history: the entries that were there since the walk began,
  inserted, removed \* and whether any came or went

pageVars == <<collection, shifts, page, out, counted, walk, steady, inserted, removed>>

PageInit ==
  /\ collection \in {SubSeq(SetToSeq(Items), 1, n) : n \in 0..Cardinality(Items)}
  /\ shifts = 0
  /\ page = 0 /\ out = <<>>
  /\ counted \in CountsGiven
  /\ walk = "idle"
  /\ steady = {} /\ inserted = FALSE /\ removed = FALSE

-----------------------------------------------------------------------------
Shift ==
  /\ shifts < MaxShifts
  /\ shifts' = shifts + 1
  /\ UNCHANGED <<page, out, counted, walk>>

EntryAdded ==
  /\ Shift
  /\ \E x \in Items \ ToSet(collection), i \in 1..(Len(collection) + 1) :
       collection' = InsertAt(collection, i, x)
  /\ inserted' = TRUE
  /\ UNCHANGED <<steady, removed>>

EntryDeleted ==
  /\ Shift
  /\ \E i \in DOMAIN collection :
       /\ collection' = RemoveAt(collection, i)
       /\ steady' = steady \ {collection[i]}
  /\ removed' = TRUE
  /\ UNCHANGED inserted

BeginWalk ==
  /\ walk # "walking"
  /\ walk' = "walking" /\ page' = 1 /\ out' = <<>>
  /\ steady' = ToSet(collection)
  /\ inserted' = FALSE /\ removed' = FALSE
  /\ UNCHANGED <<collection, shifts, counted>>

PageOf(p) == SubSeq(collection, (p - 1) * PerPage + 1, Min({p * PerPage, Len(collection)}))

\* Mutation of Complete: the count is taken for the last index.
CompleteBefore(items) ==
  \/ Len(items) < PerPage
  \/ counted /\ Len(collection) > 0 /\ Len(out) + Len(items) >= Len(collection) - 1

\* The last page is short, or all the entries the endpoint counts are here.
Complete(items) ==
  \/ Len(items) < PerPage
  \/ counted /\ Len(collection) > 0 /\ Len(out) + Len(items) >= Len(collection)

FetchPage ==
  /\ walk = "walking"
  /\ LET items == PageOf(page)
     IN /\ out' = out \o items
        /\ IF Complete(items) \/ page = MaxPages
           THEN walk' = "done" /\ page' = 0
           ELSE page' = page + 1 /\ UNCHANGED walk
  /\ UNCHANGED <<collection, shifts, counted, steady, inserted, removed>>

\* Nothing of what was fetched is returned with an error.
FetchFails ==
  /\ walk = "walking"
  /\ walk' = "failed" /\ page' = 0 /\ out' = <<>>
  /\ UNCHANGED <<collection, shifts, counted, steady, inserted, removed>>

PageNext == EntryAdded \/ EntryDeleted \/ BeginWalk \/ FetchPage \/ FetchFails

PageSpec == PageInit /\ [][PageNext]_pageVars

-----------------------------------------------------------------------------
\* A walk that met no change returns the collection, each entry once.  Entries
\* that come in between may be returned or not, and shift others onto the next
\* page so that they are returned twice, but nothing is missed for it, also
\* where the walk ends at the total count.  Only when an entry is deleted may
\* one that was there all the time be missed: for the tunnel list that is a
\* tunnel removed, with its rows, and added again by the next poll.
WalkReturnsSteady ==
  walk = "done" /\ Len(out) < MaxPages * PerPage /\ ~removed =>
    /\ steady \subseteq ToSet(out)
    /\ ~inserted => out = collection
=============================================================================
