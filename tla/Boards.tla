------------------------------- MODULE Boards -------------------------------
(***************************************************************************)
(* The read-only boards of the console: the data board                     *)
(* (pages/DataBoard.tsx), which asks five endpoints at once and shows what *)
(* it can, and the pages that ask one endpoint once: Dashboard.tsx,        *)
(* Wallet.tsx and System.tsx.                                              *)
(***************************************************************************)
EXTENDS Naturals, FiniteSets

CONSTANTS
    Sources,      \* the endpoints of the data board, all for administrators
    MaxLoads      \* bound: loads of the data board

VARIABLES db, ui, net

Dash == 0         \* the card shows a dash
Singles == {"health", "subscriptions", "system"}
Public == {"health"}
Admins == {"system"}

\* db: whether the account is an administrator.  net: the loads of the data
\* board under way, and the single boards that wait.
Init ==
    /\ db \in BOOLEAN
    /\ ui = [stats |-> [s \in Sources |-> Dash], loading |-> TRUE, failed |-> FALSE, loads |-> 1,
             overlapped |-> FALSE, shown |-> [b \in Singles |-> "waiting"], copied |-> FALSE]
    /\ net = [loads |-> {1}, singles |-> IF db THEN Singles ELSE Singles \ Admins]

\* Mutant: the banner of the load before stays up.
LoadKeepFailed ==
    /\ ui.loads < MaxLoads
    /\ ui' = [ui EXCEPT !.loading = TRUE, !.loads = @ + 1,
                        !.overlapped = @ \/ net.loads # {}]
    /\ net' = [net EXCEPT !.loads = @ \cup {ui.loads + 1}]
    /\ UNCHANGED db

\* load(), by the refresh button, which nothing disables: loads may overlap
\* (a ghost remembers).
Load ==
    /\ ui.loads < MaxLoads
    /\ ui' = [ui EXCEPT !.loading = TRUE, !.failed = FALSE, !.loads = @ + 1,
                        !.overlapped = @ \/ net.loads # {}]
    /\ net' = [net EXCEPT !.loads = @ \cup {ui.loads + 1}]
    /\ UNCHANGED db

\* Promise.allSettled: a source that was refused or unreachable shows a dash,
\* and the board has failed when all of them were.
Loaded(k, answered) ==
    /\ k \in net.loads
    /\ answered # {} => db
    /\ ui' = [ui EXCEPT !.stats = [s \in Sources |-> IF s \in answered THEN k ELSE Dash],
                        !.failed = @ \/ answered = {}, !.loading = FALSE]
    /\ net' = [net EXCEPT !.loads = @ \ {k}]
    /\ UNCHANGED db

\* The boards that ask once.  A failed health check shows "offline", as does
\* one answered with another status; the others stay empty.
Shown(b, well) ==
    /\ b \in net.singles
    /\ ui' = [ui EXCEPT !.shown[b] = IF well THEN "shown"
                                     ELSE IF b = "health" THEN "offline" ELSE "blank"]
    /\ net' = [net EXCEPT !.singles = @ \ {b}]
    /\ UNCHANGED db

\* copyCurl() on the dashboard, and its timer.
Copy == ~ui.copied /\ ui' = [ui EXCEPT !.copied = TRUE] /\ UNCHANGED <<db, net>>
CopyExpires == ui.copied /\ ui' = [ui EXCEPT !.copied = FALSE] /\ UNCHANGED <<db, net>>

Next ==
    \/ Load \/ Copy \/ CopyExpires
    \/ \E k \in net.loads, answered \in SUBSET Sources : Loaded(k, answered)
    \/ \E b \in Singles, well \in BOOLEAN : Shown(b, well)

-----------------------------------------------------------------------------
PageType ==
    [stats : [Sources -> 0..MaxLoads], loading : BOOLEAN, failed : BOOLEAN, loads : 1..MaxLoads,
     overlapped : BOOLEAN, shown : [Singles -> {"waiting", "shown", "offline", "blank"}],
     copied : BOOLEAN]

TypeOK ==
    /\ db \in BOOLEAN /\ ui \in PageType
    /\ net \in [loads : SUBSET (1..MaxLoads), singles : SUBSET Singles]

\* Unless refreshes overlapped, the banner "loading failed" is up exactly when
\* every card shows a dash, whatever the loads before it brought: one source
\* that answers is enough to take it down, and no number of an earlier load
\* outlives one that failed.
BannerTellsTruth ==
    ~ui.loading /\ ~ui.overlapped => (ui.failed <=> \A s \in Sources : ui.stats[s] = Dash)
=============================================================================
