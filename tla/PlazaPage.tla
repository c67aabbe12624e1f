----------------------------- MODULE PlazaPage ------------------------------
(***************************************************************************)
(* The public catalogue of models (pages/ModelsPlaza.tsx): loaded once,    *)
(* then searched, grouped, sorted and paged in the browser.  The page      *)
(* number is state of its own and is put back to 1 by an effect, which     *)
(* React runs after it has shown the new rows.                             *)
(***************************************************************************)
EXTENDS Naturals, FiniteSets

CONSTANTS
    Models,      \* numbers, in the order of the names
    Named,       \* the models whose name has the text one may search for
    Unpriced,    \* the models with no price, last when sorted by price
    GroupNames,
    PageSize

VARIABLES db, ui, net

Init ==
    /\ db \in [Models -> SUBSET GroupNames]
    /\ ui = [models |-> {}, loading |-> TRUE, locked |-> FALSE, q |-> "", group |-> "",
             sort |-> "name", view |-> "cards", page |-> 1, stale |-> FALSE,
             copied |-> 0, marks |-> 0, detail |-> 0]
    /\ net = {"load"}

\* The load effect: "sign in" in the refusal locks the page; any other failure
\* leaves an empty catalogue, as if there were no models.
Loaded(end) ==
    /\ "load" \in net
    /\ ui' = [ui EXCEPT !.models = IF end = "answered" THEN Models ELSE @,
                        !.locked = (end = "sign_in"), !.loading = FALSE]
    /\ net' = {}
    /\ UNCHANGED db

-----------------------------------------------------------------------------
Groups == UNION {db[m] : m \in ui.models}

Matching == {m \in ui.models : /\ ui.q = "" \/ m \in Named
                               /\ ui.group = "" \/ ui.group \in db[m]}

\* Does m stand before n: by price with the unpriced last, then by name.
Before(m, n) ==
    LET NoPrice(k) == ui.sort = "price" /\ k \in Unpriced
    IN IF NoPrice(m) = NoPrice(n) THEN m < n ELSE NoPrice(n)

Filtered ==
    CHOOSE rows \in [1..Cardinality(Matching) -> Matching] :
        \A i, j \in DOMAIN rows : i < j => Before(rows[i], rows[j])

TotalPages ==
    LET pages == (Cardinality(Matching) + PageSize - 1) \div PageSize
    IN IF pages > 1 THEN pages ELSE 1

\* The rows on the screen; the sections of the card view partition them.
PageItems ==
    {Filtered[k] : k \in {k \in 1..Cardinality(Matching) :
        k > (ui.page - 1) * PageSize /\ k <= ui.page * PageSize}}

\* What fills the page below the toolbar.
Screen ==
    IF ui.locked THEN "locked" ELSE IF ui.loading THEN "loading"
    ELSE IF Matching = {} THEN "empty" ELSE ui.view

OnCards(m) == Screen = "cards" /\ m \in PageItems
OnTable(m) == Screen = "table" /\ m \in PageItems

-----------------------------------------------------------------------------
\* The filters are up on every screen.  Mutant: the effect watches the search
\* text only.
NarrowSearchOnly(q, group, sort) ==
    /\ <<q, group, sort>> # <<ui.q, ui.group, ui.sort>>
    /\ group = "" \/ group = ui.group \/ group \in Groups
    /\ ui' = [ui EXCEPT !.q = q, !.group = group, !.sort = sort, !.stale = @ \/ q # ui.q]
    /\ UNCHANGED <<db, net>>

\* The search text, a group button or the sort order is changed.
Narrow(q, group, sort) ==
    /\ <<q, group, sort>> # <<ui.q, ui.group, ui.sort>>
    /\ group = "" \/ group = ui.group \/ group \in Groups
    /\ ui' = [ui EXCEPT !.q = q, !.group = group, !.sort = sort, !.stale = TRUE]
    /\ UNCHANGED <<db, net>>

\* The effect on [q, group, sort], after the new rows were shown once.
ResetPage ==
    /\ ui.stale
    /\ ui' = [ui EXCEPT !.page = 1, !.stale = FALSE]
    /\ UNCHANGED <<db, net>>

View(view) ==
    /\ ui.view # view
    /\ ui' = [ui EXCEPT !.view = view]
    /\ UNCHANGED <<db, net>>

\* The arrows, each disabled at its end.
Turn(to) ==
    /\ \/ to = ui.page - 1 /\ ui.page > 1
       \/ to = ui.page + 1 /\ ui.page < TotalPages
    /\ TotalPages > 1
    /\ ui' = [ui EXCEPT !.page = to]
    /\ UNCHANGED <<db, net>>

\* The mark of a copy, and its timer.  A timer clears whatever mark is up.
\* Bound: two timers.
Copy(m) ==
    /\ OnCards(m) \/ OnTable(m)
    /\ ui.marks < 2
    /\ ui' = [ui EXCEPT !.copied = m, !.marks = @ + 1]
    /\ UNCHANGED <<db, net>>

MarkExpires ==
    /\ ui.marks > 0
    /\ ui' = [ui EXCEPT !.copied = 0, !.marks = @ - 1]
    /\ UNCHANGED <<db, net>>

\* The dialog of one model covers the page.
ShowDetail(m) ==
    /\ ui.detail = 0 /\ OnCards(m)
    /\ ui' = [ui EXCEPT !.detail = m]
    /\ UNCHANGED <<db, net>>

CloseDetail ==
    /\ ui.detail # 0
    /\ ui' = [ui EXCEPT !.detail = 0]
    /\ UNCHANGED <<db, net>>

Uncovered == ui.detail = 0

Next ==
    \/ \E end \in {"answered", "sign_in", "failed"} : Loaded(end)
    \/ ResetPage \/ MarkExpires \/ CloseDetail
    \/ /\ Uncovered
       /\ \/ \E q \in {"", "text"}, group \in GroupNames \cup {""}, sort \in {"name", "price"} :
                Narrow(q, group, sort)
          \/ \E view \in {"cards", "table"} : View(view)
          \/ \E to \in 1..TotalPages : Turn(to)
          \/ \E m \in Models : Copy(m) \/ ShowDetail(m)

-----------------------------------------------------------------------------
PageType ==
    [models : {{}, Models}, loading : BOOLEAN, locked : BOOLEAN, q : {"", "text"},
     group : GroupNames \cup {""}, sort : {"name", "price"}, view : {"cards", "table"},
     page : 1..Cardinality(Models), stale : BOOLEAN, copied : Models \cup {0}, marks : 0..2,
     detail : Models \cup {0}]

TypeOK == db \in [Models -> SUBSET GroupNames] /\ ui \in PageType /\ net \subseteq {"load"}

\* Once the effects have run, a catalogue with matches shows some of them: the
\* page number, which lives apart from the filters, never points past what
\* they left, so nobody is told "12 models" above an empty grid.
MatchesAreShown == ~ui.stale /\ Matching # {} => PageItems # {}
=============================================================================
