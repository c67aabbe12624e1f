--------------------------- MODULE ConsoleChrome ----------------------------
(***************************************************************************)
(* What surrounds the pages of the console: the theme of the document      *)
(* (contexts/ThemeContext.tsx), the bar and the drawer of the public pages *)
(* (PublicNav.tsx), the sidebar and header of the console (Layout.tsx) and *)
(* the menus they share (ThemeLangActions.tsx, UserAvatar.tsx).            *)
(*                                                                         *)
(* Three things outlive a page: the class of the document's root, the      *)
(* scroll lock of its body, and what is stored in the browser.  Effects    *)
(* set them after the page has been drawn; `due` names the effects still   *)
(* to run.                                                                 *)
(***************************************************************************)
EXTENDS Naturals

VARIABLES
    db,    \* the browser: its scheme, what it stores, who is signed in,
           \* and whether the catalogue is public
    ui,    \* the document and the state of the components
    net    \* what is on its way: a change of scheme, the announcement

Themes == {"light", "dark", "system"}
Schemes == {"light", "dark"}
Languages == {"zh", "en"}

Public == {"/", "/models"}
Dash == {"/dash/overview", "/dash/manage/users"}
AdminArea == {"/dash/manage/users"}
Routes == Public \cup Dash

Resolved(theme) == IF theme = "system" THEN db.scheme ELSE theme

\* The components of a route that have just been mounted.  PublicNav belongs
\* to each public page, Layout to all of the console.
NoMenus == {}
Asking(route) == IF route \in Dash THEN {"announcement"} ELSE {}

Init ==
    /\ db \in [scheme : Schemes, stored : Themes, narrow : BOOLEAN, plaza : BOOLEAN,
               user : {"none", "user", "admin"}]
    /\ \E class \in Schemes :
          ui = [theme |-> db.stored, resolved |-> Resolved(db.stored), class |-> class,
                listens |-> FALSE, due |-> {"theme"}, route |-> "/", language |-> "en",
                menus |-> NoMenus, drawer |-> FALSE, locked |-> FALSE, sidebar |-> FALSE,
                announcement |-> FALSE]
    /\ net = {}

-----------------------------------------------------------------------------
\* cycleTheme() and setTheme(): the theme is stored at once.
CycleTheme ==
    LET next == [light |-> "dark", dark |-> "system", system |-> "light"] IN
    /\ ui' = [ui EXCEPT !.theme = next[@], !.due = @ \cup {"theme"}]
    /\ db' = [db EXCEPT !.stored = next[ui.theme]]
    /\ UNCHANGED net

\* Mutant: the listener is left behind.
SettleThemeKeepListener ==
    /\ "theme" \in ui.due
    /\ ui' = [ui EXCEPT !.resolved = Resolved(ui.theme), !.class = Resolved(ui.theme),
                        !.listens = @ \/ ui.theme = "system", !.due = @ \ {"theme"}]
    /\ UNCHANGED <<db, net>>

\* The effect on [theme]: its clean-up removes the listener of the last theme,
\* then the class is set and, for "system", a listener added.
SettleTheme ==
    /\ "theme" \in ui.due
    /\ ui' = [ui EXCEPT !.resolved = Resolved(ui.theme), !.class = Resolved(ui.theme),
                        !.listens = (ui.theme = "system"), !.due = @ \ {"theme"}]
    /\ UNCHANGED <<db, net>>

\* The operating system changes its scheme, and the browser tells whoever
\* listens when it does.
SchemeChanges ==
    /\ "scheme" \notin net
    /\ db' = [db EXCEPT !.scheme = IF @ = "light" THEN "dark" ELSE "light"]
    /\ net' = net \cup {"scheme"}
    /\ UNCHANGED ui

SchemeEvent ==
    /\ "scheme" \in net
    /\ net' = net \ {"scheme"}
    /\ ui' = IF ui.listens THEN [ui EXCEPT !.resolved = db.scheme, !.class = db.scheme] ELSE ui
    /\ UNCHANGED db

-----------------------------------------------------------------------------
\* The button of a dropdown.  A mouse pressed elsewhere closes the other one,
\* the keyboard does not.
ToggleMenu(m, byMouse) ==
    /\ m = "account" => db.user # "none"
    /\ ui' = [ui EXCEPT !.menus = (IF m \in @ THEN {} ELSE {m})
                                     \cup (IF byMouse THEN {} ELSE @ \ {m})]
    /\ UNCHANGED <<db, net>>

ClickElsewhere ==
    /\ ui.menus # {}
    /\ ui' = [ui EXCEPT !.menus = {}]
    /\ UNCHANGED <<db, net>>

\* Every component listens for Escape on its own.
Escape ==
    /\ ui.menus # {} \/ ui.drawer
    /\ ui' = [ui EXCEPT !.menus = {}, !.drawer = FALSE,
                        !.due = IF ui.drawer THEN @ \cup {"drawer"} ELSE @]
    /\ UNCHANGED <<db, net>>

ChooseLanguage(l) ==
    /\ "language" \in ui.menus
    /\ ui' = [ui EXCEPT !.language = l, !.menus = @ \ {"language"}]
    /\ UNCHANGED <<db, net>>

-----------------------------------------------------------------------------
\* The drawer of the public pages, for narrow screens.
ToggleDrawer ==
    /\ ui.route \in Public
    /\ ui' = [ui EXCEPT !.drawer = ~@, !.due = @ \cup {"drawer"}]
    /\ UNCHANGED <<db, net>>

\* The effect on [drawerOpen].
SettleDrawer ==
    /\ "drawer" \in ui.due
    /\ ui' = [ui EXCEPT !.locked = ui.drawer, !.due = @ \ {"drawer"}]
    /\ UNCHANGED <<db, net>>

\* The sidebar of the console: an overlay on narrow screens, narrow on others.
ToggleSidebar ==
    /\ ui.route \in Dash
    /\ ui' = [ui EXCEPT !.sidebar = ~@]
    /\ UNCHANGED <<db, net>>

Collapse ==
    /\ ui.route \in Dash
    /\ db' = [db EXCEPT !.narrow = ~@]
    /\ UNCHANGED <<ui, net>>

\* The announcement comes; a failure, or a blank one, shows no button.
Announced(some) ==
    /\ "announcement" \in net
    /\ net' = net \ {"announcement"}
    /\ ui' = [ui EXCEPT !.announcement = some]
    /\ UNCHANGED db

-----------------------------------------------------------------------------
\* The links a route shows.
PublicLinks ==
    {"/"} \cup (IF db.plaza \/ db.user # "none" THEN {"/models"} ELSE {})
          \cup (IF db.user = "none" THEN {} ELSE {"/dash/overview"})
ConsoleLinks == {"/", "/dash/overview"} \cup (IF db.user = "admin" THEN AdminArea ELSE {})
Links == IF ui.route \in Public THEN PublicLinks ELSE ConsoleLinks

\* Mutant: the effect has no clean-up.
LeftLocked(to) ==
    IF ui.route \in Dash /\ to \in Dash THEN [ui EXCEPT !.route = to, !.sidebar = FALSE]
    ELSE [ui EXCEPT !.route = to, !.menus = NoMenus, !.drawer = FALSE,
                    !.due = @ \ {"drawer"}, !.sidebar = FALSE, !.announcement = FALSE]

\* Leaving a public page unmounts its bar: the clean-up gives the body back
\* its scroll bar.  Within the console only the sidebar closes.
Left(to) ==
    IF ui.route \in Dash /\ to \in Dash THEN [ui EXCEPT !.route = to, !.sidebar = FALSE]
    ELSE [ui EXCEPT !.route = to, !.menus = NoMenus, !.drawer = FALSE, !.locked = FALSE,
                    !.due = @ \ {"drawer"}, !.sidebar = FALSE, !.announcement = FALSE]

Arrived(to) ==
    (net \ {"announcement"}) \cup (IF ui.route \in Dash /\ to \in Dash
                                   THEN net \cap {"announcement"} ELSE Asking(to))

Follow(to) ==
    /\ to \in Links /\ to # ui.route
    /\ ui' = Left(to)
    /\ net' = Arrived(to)
    /\ UNCHANGED db

\* handleLogout(), of the menu and of the sidebar, once logout() is over.
SignOut ==
    /\ db.user # "none"
    /\ "account" \in ui.menus \/ ui.route \in Dash
    /\ db' = [db EXCEPT !.user = "none"]
    /\ ui' = IF ui.route = "/" THEN [ui EXCEPT !.menus = {}] ELSE Left("/")
    /\ net' = IF ui.route = "/" THEN net ELSE Arrived("/")

Next ==
    \/ CycleTheme \/ SettleTheme \/ SchemeChanges \/ SchemeEvent
    \/ \E m \in {"language", "account"}, byMouse \in BOOLEAN : ToggleMenu(m, byMouse)
    \/ ClickElsewhere \/ Escape \/ \E l \in Languages : ChooseLanguage(l)
    \/ ToggleDrawer \/ SettleDrawer \/ ToggleSidebar \/ Collapse
    \/ \E some \in BOOLEAN : Announced(some)
    \/ \E to \in Routes : Follow(to)
    \/ SignOut

-----------------------------------------------------------------------------
BrowserType ==
    [scheme : Schemes, stored : Themes, narrow : BOOLEAN, plaza : BOOLEAN,
     user : {"none", "user", "admin"}]
PageType ==
    [theme : Themes, resolved : Schemes, class : Schemes, listens : BOOLEAN,
     due : SUBSET {"theme", "drawer"}, route : Routes, language : Languages,
     menus : SUBSET {"language", "account"}, drawer : BOOLEAN, locked : BOOLEAN,
     sidebar : BOOLEAN, announcement : BOOLEAN]

TypeOK ==
    /\ db \in BrowserType /\ ui \in PageType /\ net \subseteq {"scheme", "announcement"}
    /\ ui.theme = db.stored

\* Once effects and events are through, the document wears the theme that was
\* chosen: an explicit choice whatever the system prefers, and the system's
\* preference otherwise, however the two changed about each other; the toasts,
\* which take `resolved`, agree with the page.
ClassMatchesTheme ==
    "theme" \notin ui.due /\ "scheme" \notin net =>
        ui.class = Resolved(ui.theme) /\ ui.resolved = ui.class

\* The body scrolls unless an open drawer covers it: no way of leaving a
\* public page, by a link of the drawer itself among them, leaves the console
\* with a page that cannot be scrolled.
ScrollLockFollowsDrawer ==
    "drawer" \notin ui.due => (ui.locked <=> ui.drawer /\ ui.route \in Public)
=============================================================================
