------------------------ MODULE ConsolePagesProofs -------------------------
(***************************************************************************)
(* Theorems about the console's other pages, for any number of questions,  *)
(* credentials, codes, tabs and models, and the type invariant of them all. *)
(* The names are as in ConsoleListsProofs.                                 *)
(***************************************************************************)
EXTENDS ConsoleListsProofs, WellFoundedInduction

-----------------------------------------------------------------------------
(* Finite sets.                                                            *)

\* Induction over the subsets of a finite set: if a set is good as soon as it
\* is empty, or good without any one of its elements, the whole set is good.
LEMMA SubsetInduction ==
    ASSUME NEW X, IsFiniteSet(X), NEW Good \in SUBSET (SUBSET X), {} \in Good,
           \A A \in SUBSET X : A # {} /\ (\A x \in A : A \ {x} \in Good) => A \in Good
    PROVE  X \in Good
<1> DEFINE Bad == (SUBSET X) \ Good
<1>1. SUFFICES ASSUME Bad # {} PROVE FALSE
    OBVIOUS
<1>2. IsWellFoundedOn(StrictSubsetOrdering(X), SUBSET X)
    BY FS_StrictSubsetOrderingWellFounded, FS_FiniteSubsetsOfFinite
<1>3. PICK A \in Bad : \A D \in Bad : <<D, A>> \notin StrictSubsetOrdering(X)
    <2>1. Bad \subseteq SUBSET X OBVIOUS
    <2> HIDE DEF Bad
    <2> QED BY <1>1, <1>2, <2>1, WFMin
<1>4. ASSUME NEW x \in A PROVE A \ {x} \in Good
    <2>1. A \ {x} \in SUBSET X /\ A \in SUBSET X /\ A \ {x} # A OBVIOUS
    <2>2. <<A \ {x}, A>> \in StrictSubsetOrdering(X)
        BY <2>1 DEF StrictSubsetOrdering
    <2> QED BY <1>3, <2>1, <2>2
<1>5. A # {} BY <1>3
<1> QED BY <1>3, <1>4, <1>5

\* A finite set of numbers that is not empty has a greatest one.
LEMMA Greatest ==
    ASSUME NEW X \in SUBSET Nat, IsFiniteSet(X), X # {}
    PROVE  \E m \in X : \A n \in X : n <= m
<1> DEFINE Good == {A \in SUBSET X : A # {} => \E m \in A : \A n \in A : n <= m}
<1>1. ASSUME NEW A \in SUBSET X, A # {}, \A x \in A : A \ {x} \in Good
      PROVE  A \in Good
    <2>1. PICK x \in A : TRUE BY <1>1
    <2>2. CASE A \ {x} = {} BY <2>1, <2>2
    <2>3. CASE A \ {x} # {}
        <3>1. PICK m \in A \ {x} : \A n \in A \ {x} : n <= m BY <1>1, <2>1, <2>3
        <3>2. CASE x <= m BY <3>1, <3>2
        <3>3. CASE ~(x <= m)
            <4>1. \A n \in A : n <= x BY <3>1, <3>3
            <4> QED BY <4>1
        <3> QED BY <3>2, <3>3
    <2> QED BY <2>2, <2>3
<1>2. Good \in SUBSET (SUBSET X) /\ {} \in Good OBVIOUS
<1> HIDE DEF Good
<1>3. X \in Good BY <1>1, <1>2, SubsetInduction
<1> QED BY <1>3 DEF Good

-----------------------------------------------------------------------------
(* pages/DataBoard.tsx                                                     *)

\* Unless loads overlapped there is one at most, the last, and the board has
\* not failed while it is under way.
BBoard ==
    /\ ui.loading <=> net.loads # {}
    /\ net.loads \subseteq {ui.loads}
    /\ ui.loading => ~ui.failed
BInv == B!TypeOK /\ B!BannerTellsTruth /\ (~ui.overlapped => BBoard)

\* The invariant holds when the page opens.
LEMMA BInit == ASSUME B!Init PROVE BInv
<1>1. 1 \in 1..MaxLoads /\ B!Dash \in 0..MaxLoads BY PagesAssumption DEF B!Dash
<1>2. ui \in B!PageType BY <1>1 DEF B!Init, B!PageType
<1>3. net \in [loads : SUBSET (1..MaxLoads), singles : SUBSET B!Singles]
    BY <1>1 DEF B!Init
<1>4. BBoard /\ B!BannerTellsTruth BY DEF B!Init, BBoard, B!BannerTellsTruth
<1> QED BY <1>2, <1>3, <1>4 DEF BInv, B!TypeOK, B!Init

\* Every action of the page keeps the invariant.
LEMMA BStep == ASSUME BInv, B!Next PROVE BInv'
<1> /\ db \in BOOLEAN /\ ui \in B!PageType
    /\ net \in [loads : SUBSET (1..MaxLoads), singles : SUBSET B!Singles]
    BY DEF BInv, B!TypeOK
<1>1. ASSUME B!Load PROVE BInv'
    <2>1. ui.loads \in 1..MaxLoads /\ ui.loads < MaxLoads BY <1>1 DEF B!Load, B!PageType
    <2>2. ui.loads + 1 \in 1..MaxLoads BY <2>1, PagesAssumption
    <2>3. ui' \in B!PageType /\ ui'.loading /\ ~ui'.failed /\ ui'.loads = ui.loads + 1
          /\ ui'.overlapped = (ui.overlapped \/ net.loads # {})
        BY <1>1, <2>2 DEF B!Load, B!PageType
    <2>4. net' \in [loads : SUBSET (1..MaxLoads), singles : SUBSET B!Singles]
          /\ net'.loads = net.loads \cup {ui.loads + 1}
        BY <1>1, <2>2 DEF B!Load
    <2>5. ~ui'.overlapped => net.loads = {} BY <2>3
    <2> QED BY <1>1, <2>3, <2>4, <2>5 DEF B!Load, BInv, B!TypeOK, BBoard, B!BannerTellsTruth
<1>2. ASSUME NEW k \in net.loads, NEW answered \in SUBSET Sources, B!Loaded(k, answered)
      PROVE  BInv'
    <2>1. k \in 1..MaxLoads OBVIOUS
    <2> DEFINE stats == [s \in Sources |-> IF s \in answered THEN k ELSE 0]
    <2>2. stats \in [Sources -> 0..MaxLoads] BY <2>1, PagesAssumption
    <2>3. k # 0 BY <2>1
    <2>4. answered = {} <=> \A s \in Sources : stats[s] = 0 BY <2>3
    <2>5. ui' = [ui EXCEPT !.stats = stats, !.failed = @ \/ answered = {}, !.loading = FALSE]
        BY <1>2 DEF B!Loaded, B!Dash
    <2> HIDE DEF stats
    <2>6. ui' \in B!PageType /\ ui'.stats = stats /\ ui'.failed = (ui.failed \/ answered = {})
          /\ ~ui'.loading /\ ui'.overlapped = ui.overlapped /\ ui'.loads = ui.loads
        BY <2>2, <2>5 DEF B!PageType
    <2>7. net' \in [loads : SUBSET (1..MaxLoads), singles : SUBSET B!Singles]
          /\ net'.loads = net.loads \ {k}
        BY <1>2 DEF B!Loaded
    <2>8. ~ui.overlapped => net'.loads = {} /\ ~ui.failed
        BY <2>7 DEF BInv, BBoard
    <2>9. B!BannerTellsTruth'
        BY <2>4, <2>6, <2>8 DEF B!BannerTellsTruth, B!Dash
    <2>10. ~ui'.overlapped => BBoard'
        BY <2>6, <2>8 DEF BBoard
    <2>11. B!TypeOK' BY <1>2, <2>6, <2>7 DEF B!Loaded, B!TypeOK
    <2> QED BY <2>9, <2>10, <2>11 DEF BInv
<1>3. ASSUME NEW b \in B!Singles, NEW well \in BOOLEAN, B!Shown(b, well) PROVE BInv'
    <2>1. ui' \in B!PageType /\ ui'.stats = ui.stats /\ ui'.failed = ui.failed
          /\ ui'.loading = ui.loading /\ ui'.overlapped = ui.overlapped /\ ui'.loads = ui.loads
        BY <1>3 DEF B!Shown, B!PageType
    <2>2. net' \in [loads : SUBSET (1..MaxLoads), singles : SUBSET B!Singles]
          /\ net'.loads = net.loads
        BY <1>3 DEF B!Shown
    <2> QED BY <1>3, <2>1, <2>2 DEF B!Shown, BInv, B!TypeOK, BBoard, B!BannerTellsTruth
<1>4. ASSUME B!Copy \/ B!CopyExpires PROVE BInv'
    <2>1. ui' \in B!PageType /\ ui'.stats = ui.stats /\ ui'.failed = ui.failed
          /\ ui'.loading = ui.loading /\ ui'.overlapped = ui.overlapped /\ ui'.loads = ui.loads
        BY <1>4 DEF B!Copy, B!CopyExpires, B!PageType
    <2> QED BY <1>4, <2>1 DEF B!Copy, B!CopyExpires, BInv, B!TypeOK, BBoard, B!BannerTellsTruth
<1> QED BY <1>1, <1>2, <1>3, <1>4 DEF B!Next

\* The invariant holds whenever the page is shown.
LEMMA BAlways == Spec => [](page = "boards" => BInv)
<1>1. Init => (page = "boards" => BInv) BY BInit DEF Init
<1>2. (page = "boards" => BInv) /\ [Next]_vars => (page = "boards" => BInv)'
    <2> SUFFICES ASSUME page = "boards" => BInv, [Next]_vars, page' = "boards" PROVE BInv'
        OBVIOUS
    <2>1. CASE UNCHANGED vars
        BY <2>1 DEF vars, BInv, B!TypeOK, BBoard, B!BannerTellsTruth
    <2> QED BY <2>1, BStep DEF Next
<1> QED BY <1>1, <1>2, PTL DEF Spec

\* pages/DataBoard.tsx: unless refreshes overlapped, the error banner is up just
\* when no card has a number.
THEOREM BannersTellTruth == Spec => []BannerTellsTruth
<1>1. (page = "boards" => BInv) => BannerTellsTruth
    BY DEF BannerTellsTruth, BInv
<1> QED BY <1>1, BAlways, PTL

-----------------------------------------------------------------------------
(* contexts/ThemeContext.tsx, components/PublicNav.tsx and Layout.tsx      *)

\* Once the theme's effect has run, the document listens to the system just
\* when the theme asks for it, and lags behind it only while the event is on
\* its way.  No drawer, and no lock of the body, is left in the console.
CTheme ==
    /\ ui.listens <=> ui.theme = "system"
    /\ ui.resolved = ui.class
    /\ ui.theme # "system" \/ "scheme" \notin net => ui.class = C!Resolved(ui.theme)
CDrawer == ui.route \in C!Dash => ~ui.drawer /\ ~ui.locked /\ "drawer" \notin ui.due
CInv ==
    /\ C!TypeOK
    /\ "theme" \notin ui.due => CTheme
    /\ CDrawer
    /\ C!ScrollLockFollowsDrawer

\* A theme comes out as one of the two schemes.
LEMMA CResolved ==
    ASSUME C!TypeOK, NEW theme \in C!Themes
    PROVE  C!Resolved(theme) \in C!Schemes
BY DEF C!TypeOK, C!Resolved, C!BrowserType, C!Themes, C!Schemes

\* No route is both of the site and of the console.
LEMMA CRoutes == C!Public \cap C!Dash = {}
BY DEF C!Public, C!Dash

\* The invariant holds when the page opens.
LEMMA CInit == ASSUME C!Init PROVE CInv
<1>1. db \in C!BrowserType BY DEF C!Init, C!BrowserType
<1>2. PICK class \in C!Schemes :
          ui = [theme |-> db.stored, resolved |-> C!Resolved(db.stored), class |-> class,
                listens |-> FALSE, due |-> {"theme"}, route |-> "/", language |-> "en",
                menus |-> C!NoMenus, drawer |-> FALSE, locked |-> FALSE, sidebar |-> FALSE,
                announcement |-> FALSE]
    BY DEF C!Init
<1>3. db.stored \in C!Themes /\ C!Resolved(db.stored) \in C!Schemes
    BY <1>1 DEF C!BrowserType, C!Resolved, C!Themes, C!Schemes
<1>4. "/" \in C!Routes /\ "/" \notin C!Dash BY DEF C!Routes, C!Public, C!Dash
<1>5. ui \in C!PageType /\ ui.theme = db.stored
    BY <1>2, <1>3, <1>4 DEF C!PageType, C!Languages, C!NoMenus
<1>6. CDrawer /\ C!ScrollLockFollowsDrawer /\ "theme" \in ui.due
    BY <1>2, <1>4 DEF CDrawer, C!ScrollLockFollowsDrawer
<1> QED BY <1>1, <1>5, <1>6 DEF C!Init, CInv, C!TypeOK

\* Neither the theme nor the scheme changes.
CSameTheme ==
    /\ db'.scheme = db.scheme /\ db'.stored = db.stored
    /\ ui'.theme = ui.theme /\ ui'.listens = ui.listens /\ ui'.resolved = ui.resolved
    /\ ui'.class = ui.class
    /\ "theme" \in ui'.due <=> "theme" \in ui.due
    /\ "scheme" \in net' <=> "scheme" \in net

\* Neither the route nor the drawer does.
CSameDrawer ==
    /\ ui'.route = ui.route /\ ui'.drawer = ui.drawer /\ ui'.locked = ui.locked
    /\ "drawer" \in ui'.due <=> "drawer" \in ui.due

\* What leaves theme and scheme alone has the drawer to account for only.
LEMMA CKeepsTheme ==
    ASSUME CInv, CSameTheme, db' \in C!BrowserType, ui' \in C!PageType,
           net' \subseteq {"scheme", "announcement"},
           CDrawer', C!ScrollLockFollowsDrawer'
    PROVE  CInv'
BY DEF CInv, CSameTheme, C!TypeOK, CTheme, C!Resolved

\* What leaves route and drawer alone keeps the drawer's half.
LEMMA CKeepsDrawer ==
    ASSUME CInv, CSameDrawer
    PROVE  CDrawer' /\ C!ScrollLockFollowsDrawer'
BY DEF CInv, CSameDrawer, CDrawer, C!ScrollLockFollowsDrawer

\* Going to another page of the site.
LEMMA CLeft ==
    ASSUME CInv, NEW to \in C!Routes, ui' = C!Left(to), net' = C!Arrived(to),
           db' \in C!BrowserType, db'.scheme = db.scheme, db'.stored = db.stored
    PROVE  CInv'
<1> ui \in C!PageType /\ net \subseteq {"scheme", "announcement"} BY DEF CInv, C!TypeOK
<1>1. net' \subseteq {"scheme", "announcement"} /\ ("scheme" \in net' <=> "scheme" \in net)
    BY DEF C!Arrived, C!Asking
<1>2. CASE ui.route \in C!Dash /\ to \in C!Dash
    <2>1. ui' = [ui EXCEPT !.route = to, !.sidebar = FALSE] BY <1>2 DEF C!Left
    <2>5. ui' \in C!PageType BY <2>1 DEF C!PageType
    <2>6. CSameTheme BY <1>1, <2>1 DEF C!PageType, CSameTheme
    <2>2. ui' \in C!PageType /\ CSameTheme BY <2>5, <2>6
    <2>3. ui'.route = to /\ ui'.drawer = ui.drawer /\ ui'.locked = ui.locked /\ ui'.due = ui.due
        BY <2>1 DEF C!PageType
    <2>4. CDrawer' /\ C!ScrollLockFollowsDrawer'
        BY <1>2, <2>3, CRoutes DEF CInv, CDrawer, C!ScrollLockFollowsDrawer
    <2> QED BY <1>1, <2>2, <2>4, CKeepsTheme
<1>3. CASE ~(ui.route \in C!Dash /\ to \in C!Dash)
    <2>1. ui' = [ui EXCEPT !.route = to, !.menus = {}, !.drawer = FALSE, !.locked = FALSE,
                           !.due = @ \ {"drawer"}, !.sidebar = FALSE, !.announcement = FALSE]
        BY <1>3 DEF C!Left, C!NoMenus
    <2>5. ui' \in C!PageType BY <2>1 DEF C!PageType
    <2>6. CSameTheme BY <1>1, <2>1 DEF C!PageType, CSameTheme
    <2>2. ui' \in C!PageType /\ CSameTheme BY <2>5, <2>6
    <2>3. ~ui'.drawer /\ ~ui'.locked /\ "drawer" \notin ui'.due
        BY <2>1 DEF C!PageType
    <2>4. CDrawer' /\ C!ScrollLockFollowsDrawer'
        BY <2>3 DEF CDrawer, C!ScrollLockFollowsDrawer
    <2> QED BY <1>1, <2>2, <2>4, CKeepsTheme
<1> QED BY <1>2, <1>3

\* Every action of the page keeps the invariant.
LEMMA CStep == ASSUME CInv, C!Next PROVE CInv'
<1> /\ db \in C!BrowserType /\ ui \in C!PageType /\ net \subseteq {"scheme", "announcement"}
    /\ ui.theme = db.stored
    BY DEF CInv, C!TypeOK
<1>1. ASSUME C!CycleTheme PROVE CInv'
    <2> DEFINE next == [light |-> "dark", dark |-> "system", system |-> "light"]
    <2>1. next[ui.theme] \in C!Themes BY DEF C!PageType, C!Themes
    <2>2. ui' = [ui EXCEPT !.theme = next[@], !.due = @ \cup {"theme"}]
          /\ db' = [db EXCEPT !.stored = next[ui.theme]] /\ UNCHANGED net
        BY <1>1 DEF C!CycleTheme
    <2> HIDE DEF next
    <2>3. ui' \in C!PageType /\ ui'.theme = next[ui.theme] /\ "theme" \in ui'.due
        BY <2>1, <2>2 DEF C!PageType
    <2>4. db' \in C!BrowserType /\ db'.stored = next[ui.theme]
        BY <2>1, <2>2 DEF C!BrowserType
    <2>5. CSameDrawer BY <2>2 DEF C!PageType, CSameDrawer
    <2>6. CDrawer' /\ C!ScrollLockFollowsDrawer' BY <2>5, CKeepsDrawer
    <2> QED BY <2>2, <2>3, <2>4, <2>6 DEF CInv, C!TypeOK
<1>2. ASSUME C!SettleTheme PROVE CInv'
    <2> DEFINE scheme == C!Resolved(ui.theme)
    <2>1. scheme \in C!Schemes BY CResolved DEF CInv, C!PageType
    <2>2. ui' = [ui EXCEPT !.resolved = scheme, !.class = scheme,
                           !.listens = (ui.theme = "system"), !.due = @ \ {"theme"}]
          /\ UNCHANGED <<db, net>>
        BY <1>2 DEF C!SettleTheme
    <2>3. ui'.resolved = scheme /\ ui'.class = scheme /\ ui'.listens = (ui.theme = "system")
          /\ ui'.theme = ui.theme
        BY <2>2 DEF C!PageType
    <2>7. C!Resolved(ui.theme)' = scheme
        BY <2>2, <2>3 DEF C!Resolved
    <2>4. CTheme' BY <2>3, <2>7 DEF CTheme
    <2> HIDE DEF scheme
    <2>8. ui' \in C!PageType BY <2>1, <2>2 DEF C!PageType
    <2>5. CSameDrawer BY <2>2 DEF C!PageType, CSameDrawer
    <2>6. CDrawer' /\ C!ScrollLockFollowsDrawer' BY <2>5, CKeepsDrawer
    <2> QED BY <2>2, <2>3, <2>4, <2>6, <2>8 DEF CInv, C!TypeOK
<1>3. ASSUME C!SchemeChanges PROVE CInv'
    <2>1. db' \in C!BrowserType /\ db'.stored = db.stored
        BY <1>3 DEF C!SchemeChanges, C!BrowserType, C!Schemes
    <2>2. "scheme" \in net' /\ net' \subseteq {"scheme", "announcement"} /\ UNCHANGED ui
          /\ "scheme" \notin net
        BY <1>3 DEF C!SchemeChanges
    <2>3. "theme" \notin ui.due => CTheme'
        BY <2>2 DEF CInv, CTheme, C!Resolved
    <2>6. CDrawer' /\ C!ScrollLockFollowsDrawer' BY <2>2, CKeepsDrawer DEF CSameDrawer
    <2> QED BY <2>1, <2>2, <2>3, <2>6 DEF CInv, C!TypeOK
<1>4. ASSUME C!SchemeEvent PROVE CInv'
    <2>1. UNCHANGED db /\ net' = net \ {"scheme"} BY <1>4 DEF C!SchemeEvent
    <2>2. db.scheme \in C!Schemes BY DEF C!BrowserType
    <2>3. ui' \in C!PageType /\ ui'.theme = ui.theme /\ ui'.due = ui.due
          /\ ui'.listens = ui.listens
        BY <1>4, <2>2 DEF C!SchemeEvent, C!PageType
    <2>4. ui.listens => ui'.resolved = db.scheme /\ ui'.class = db.scheme
        BY <1>4 DEF C!SchemeEvent, C!PageType
    <2>5. ~ui.listens => ui' = ui BY <1>4 DEF C!SchemeEvent
    <2>6. "theme" \notin ui.due => CTheme'
        BY <2>1, <2>3, <2>4, <2>5 DEF CInv, CTheme, C!Resolved
    <2>7. CSameDrawer BY <1>4 DEF C!SchemeEvent, C!PageType, CSameDrawer
    <2>8. CDrawer' /\ C!ScrollLockFollowsDrawer' BY <2>7, CKeepsDrawer
    <2> QED BY <2>1, <2>3, <2>6, <2>8 DEF CInv, C!TypeOK
<1>5. ASSUME NEW m \in {"language", "account"}, NEW byMouse \in BOOLEAN, C!ToggleMenu(m, byMouse)
      PROVE  CInv'
    <2> DEFINE menus == (IF m \in ui.menus THEN {} ELSE {m})
                           \cup (IF byMouse THEN {} ELSE ui.menus \ {m})
    <2>1. menus \in SUBSET {"language", "account"} BY DEF C!PageType
    <2>2. ui' = [ui EXCEPT !.menus = menus] /\ UNCHANGED <<db, net>> BY <1>5 DEF C!ToggleMenu
    <2> HIDE DEF menus
    <2>3. ui' \in C!PageType /\ CSameTheme /\ CSameDrawer
        BY <2>1, <2>2 DEF C!PageType, CSameTheme, CSameDrawer
    <2> QED BY <2>2, <2>3, CKeepsTheme, CKeepsDrawer
<1>6. ASSUME C!ClickElsewhere \/ (\E l \in C!Languages : C!ChooseLanguage(l)) \/ C!ToggleSidebar
      PROVE  CInv'
    <2>1. ui' \in C!PageType /\ CSameTheme /\ CSameDrawer /\ UNCHANGED <<db, net>>
        BY <1>6 DEF C!ClickElsewhere, C!ChooseLanguage, C!ToggleSidebar, C!PageType, CSameTheme,
                    CSameDrawer
    <2> QED BY <2>1, CKeepsTheme, CKeepsDrawer
<1>7. ASSUME C!Escape PROVE CInv'
    <2>1. ui' \in C!PageType /\ CSameTheme /\ UNCHANGED <<db, net>>
        BY <1>7 DEF C!Escape, C!PageType, CSameTheme
    <2>2. ui'.route = ui.route /\ ui'.locked = ui.locked /\ ~ui'.drawer
          /\ ui'.due = IF ui.drawer THEN ui.due \cup {"drawer"} ELSE ui.due
        BY <1>7 DEF C!Escape, C!PageType
    <2>3. CDrawer' /\ C!ScrollLockFollowsDrawer'
        BY <2>2 DEF CInv, CDrawer, C!ScrollLockFollowsDrawer, C!PageType
    <2> QED BY <2>1, <2>3, CKeepsTheme
<1>8. ASSUME C!ToggleDrawer PROVE CInv'
    <2>1. ui' \in C!PageType /\ CSameTheme /\ UNCHANGED <<db, net>>
        BY <1>8 DEF C!ToggleDrawer, C!PageType, CSameTheme
    <2>2. ui'.route \in C!Public /\ "drawer" \in ui'.due
        BY <1>8 DEF C!ToggleDrawer, C!PageType
    <2>3. CDrawer' /\ C!ScrollLockFollowsDrawer'
        BY <2>2, CRoutes DEF CDrawer, C!ScrollLockFollowsDrawer
    <2> QED BY <2>1, <2>3, CKeepsTheme
<1>9. ASSUME C!SettleDrawer PROVE CInv'
    <2>1. ui' \in C!PageType /\ CSameTheme /\ UNCHANGED <<db, net>>
        BY <1>9 DEF C!SettleDrawer, C!PageType, CSameTheme
    <2>2. ui'.route = ui.route /\ ui'.locked = ui.drawer /\ ui'.drawer = ui.drawer
          /\ "drawer" \in ui.due
        BY <1>9 DEF C!SettleDrawer, C!PageType
    <2>3. CDrawer' /\ C!ScrollLockFollowsDrawer'
        BY <2>2 DEF CInv, CDrawer, C!ScrollLockFollowsDrawer, C!PageType, C!Routes
    <2> QED BY <2>1, <2>3, CKeepsTheme
<1>10. ASSUME C!Collapse PROVE CInv'
    <2>1. db' \in C!BrowserType /\ CSameTheme /\ CSameDrawer /\ UNCHANGED <<ui, net>>
        BY <1>10 DEF C!Collapse, C!BrowserType, CSameTheme, CSameDrawer
    <2> QED BY <2>1, CKeepsTheme, CKeepsDrawer
<1>11. ASSUME NEW some \in BOOLEAN, C!Announced(some) PROVE CInv'
    <2>1. ui' \in C!PageType /\ CSameTheme /\ CSameDrawer /\ UNCHANGED db
          /\ net' \subseteq {"scheme", "announcement"}
        BY <1>11 DEF C!Announced, C!PageType, CSameTheme, CSameDrawer
    <2> QED BY <2>1, CKeepsTheme, CKeepsDrawer
<1>12. ASSUME NEW to \in C!Routes, C!Follow(to) PROVE CInv'
    BY <1>12, CLeft DEF C!Follow
<1>13. ASSUME C!SignOut PROVE CInv'
    <2>1. db' \in C!BrowserType /\ db'.scheme = db.scheme /\ db'.stored = db.stored
        BY <1>13 DEF C!SignOut, C!BrowserType
    <2>2. CASE ui.route = "/"
        <3>1. ui' = [ui EXCEPT !.menus = {}] /\ net' = net BY <1>13, <2>2 DEF C!SignOut
        <3>2. ui' \in C!PageType /\ CSameTheme /\ CSameDrawer
            BY <2>1, <3>1 DEF C!PageType, CSameTheme, CSameDrawer
        <3> QED BY <2>1, <3>1, <3>2, CKeepsTheme, CKeepsDrawer
    <2>3. CASE ui.route # "/"
        <3>1. "/" \in C!Routes BY DEF C!Routes, C!Public
        <3> QED BY <1>13, <2>1, <2>3, <3>1, CLeft DEF C!SignOut
    <2> QED BY <2>2, <2>3
<1> QED BY <1>1, <1>2, <1>3, <1>4, <1>5, <1>6, <1>7, <1>8, <1>9, <1>10, <1>11, <1>12, <1>13
        DEF C!Next

\* The invariant holds whenever the page is shown.
LEMMA CAlways == Spec => [](page = "chrome" => CInv)
<1>1. Init => (page = "chrome" => CInv) BY CInit DEF Init
<1>2. (page = "chrome" => CInv) /\ [Next]_vars => (page = "chrome" => CInv)'
    <2> SUFFICES ASSUME page = "chrome" => CInv, [Next]_vars, page' = "chrome" PROVE CInv'
        OBVIOUS
    <2>1. CASE UNCHANGED vars
        BY <2>1 DEF vars, CInv, C!TypeOK, CTheme, CDrawer, C!ScrollLockFollowsDrawer, C!Resolved
    <2> QED BY <2>1, CStep DEF Next
<1> QED BY <1>1, <1>2, PTL DEF Spec

\* contexts/ThemeContext.tsx: once the effects have run, the class of the document
\* is that of the theme chosen, and of the system's scheme if it says so.
THEOREM ThemesAreWorn == Spec => []ClassMatchesTheme
<1>1. (page = "chrome" => CInv) => ClassMatchesTheme
    BY DEF ClassMatchesTheme, C!ClassMatchesTheme, CInv, CTheme
<1> QED BY <1>1, CAlways, PTL

\* components/PublicNav.tsx: once the effects have run, the page is locked just
\* when the drawer covers it, also after leaving the page with the drawer open.
THEOREM LocksFollowDrawers == Spec => []ScrollLockFollowsDrawer
<1>1. (page = "chrome" => CInv) => ScrollLockFollowsDrawer
    BY DEF ScrollLockFollowsDrawer, CInv
<1> QED BY <1>1, CAlways, PTL

-----------------------------------------------------------------------------
(* pages/Profile.tsx                                                       *)

\* A credential the authenticator made is accounted for, or the call that
\* stores it is in flight; once that call is done, it is stored or was removed
\* since.  All that is known anywhere was made.
RKept(k) == k \in db.stored \cup ui.removed \cup ui.told
RFinish(c, k) == c.op = "finish" /\ c.key = k
RMade(c) ==
    /\ c.op = "finish" => c.key \in ui.device
    /\ c.op = "load" => c.keys \subseteq ui.device
    /\ c.op = "finish" /\ c.at = "done" => c.key \in db.stored \cup ui.removed
RInv ==
    /\ R!TypeOK
    /\ \A k \in ui.device : RKept(k) \/ \E i \in Slots : RFinish(net[i], k)
    /\ \A i \in Slots : RMade(net[i])

\* The types of the three variables; all that is known was made.
LEMMA RTypes ==
    ASSUME RInv
    PROVE  /\ db \in [stored : SUBSET Credentials, pending : BOOLEAN]
           /\ ui \in R!PageType /\ net \in [Slots -> R!CallType]
           /\ db.stored \cup ui.keys \subseteq ui.device
BY DEF RInv, R!TypeOK

\* A call sent takes one of the free slots.
LEMMA RSend ==
    ASSUME NEW c, R!HasRoom(net), R!TypeOK
    PROVE  \E i \in Slots : net[i].op = "none" /\ R!Sent(net, c) = [net EXCEPT ![i] = c]
BY DEF R!HasRoom, R!FreeSlots, R!Sent, R!TypeOK

\* A page opened sends one call and no other.
LEMMA RFirst ==
    ASSUME NEW c
    PROVE  R!Sent(R!Silent(Slots), c) \in [Slots -> {R!NoCall, c}]
BY DEF R!Sent, R!Silent

\* The calls the page makes are of their types.
LEMMA RCalls ==
    /\ R!NoCall \in R!CallType /\ R!NoCall.op = "none"
    /\ \A by \in {"none", "register"} :
          R!Load(by) \in R!CallType /\ R!Load(by).op = "load" /\ R!Load(by).keys = {}
BY DEF R!Load, R!CallType, R!NoCall, R!Stages

\* The fields a call of each kind has.
LEMMA RKinds ==
    ASSUME NEW c \in R!CallType
    PROVE  /\ c.op = "load" =>
                c \in [op : {"load"}, at : R!Stages, by : {"none", "register"},
                       keys : SUBSET Credentials]
           /\ c.op = "begin" => c \in [op : {"begin"}, at : R!Stages]
           /\ c.op = "finish" =>
                c \in [op : {"finish"}, at : R!Stages \cup {"refused"}, key : Credentials]
           /\ c.op = "remove" => c \in [op : {"remove"}, at : R!Stages, key : Credentials]
BY DEF R!CallType, R!NoCall

\* The invariant holds when the page opens.
LEMMA RInit == ASSUME R!Init PROVE RInv
<1>1. db \in [stored : SUBSET Credentials, pending : BOOLEAN]
    BY PagesAssumption DEF R!Init
<1>2. ui \in R!PageType /\ ui.device = db.stored /\ ui.keys = {}
    BY <1>1 DEF R!Init, R!PageType
<1>3. net \in [Slots -> {R!NoCall, R!Load("none")}]
    BY RFirst DEF R!Init
<1>4. net \in [Slots -> R!CallType] /\ \A i \in Slots : RMade(net[i])
    BY <1>3, RCalls DEF RMade
<1> QED BY <1>1, <1>2, <1>4 DEF RInv, R!TypeOK, RKept

\* The call in slot i becomes c; what was known stays known.
LEMMA RCall ==
    ASSUME RInv, NEW i \in Slots, NEW c \in R!CallType, net' = [net EXCEPT ![i] = c],
           db' \in [stored : SUBSET Credentials, pending : BOOLEAN], ui' \in R!PageType,
           db'.stored \cup ui'.keys \subseteq ui'.device, ui.device \subseteq ui'.device,
           \A k \in ui'.device : (k \in ui.device /\ ~RFinish(net[i], k))
                                    \/ RKept(k)' \/ RFinish(c, k),
           db.stored \cup ui.removed \subseteq db'.stored \cup ui'.removed,
           ui.told \subseteq ui'.told,
           c.op = "finish" => c.key \in ui'.device,
           c.op = "load" => c.keys \subseteq ui'.device,
           c.op = "finish" /\ c.at = "done" => c.key \in db'.stored \cup ui'.removed
    PROVE  RInv'
<1> USE RTypes
<1>1. R!TypeOK' BY DEF R!TypeOK
<1>2. net'[i] = c /\ \A j \in Slots \ {i} : net'[j] = net[j]
    OBVIOUS
<1>3. \A k \in ui'.device : RKept(k)' \/ \E j \in Slots : RFinish(net'[j], k)
    <2>1. SUFFICES ASSUME NEW k \in ui'.device, k \in ui.device, ~RFinish(net[i], k)
                   PROVE  RKept(k)' \/ \E j \in Slots : RFinish(net'[j], k)
        BY <1>2
    <2>2. CASE RKept(k) BY <2>2 DEF RKept
    <2>3. CASE \E j \in Slots : RFinish(net[j], k) BY <1>2, <2>1, <2>3
    <2> QED BY <2>1, <2>2, <2>3 DEF RInv
<1>4. \A j \in Slots : RMade(net[j])'
    BY <1>2 DEF RInv, RMade
<1> QED BY <1>1, <1>3, <1>4 DEF RInv

\* Every action of the page keeps the invariant.
LEMMA RStep == ASSUME RInv, R!Next PROVE RInv'
<1> USE RTypes
<1>0. \A k \in ui.device : RKept(k) \/ \E i \in Slots : RFinish(net[i], k) BY DEF RInv
<1>1. ASSUME R!Register PROVE RInv'
    <2> DEFINE c == [op |-> "begin", at |-> "sent"]
    <2>1. PICK i \in Slots : net[i].op = "none" /\ net' = [net EXCEPT ![i] = c]
        BY <1>1, RSend DEF R!Register, RInv
    <2>2. c \in R!CallType /\ c.op = "begin" BY DEF R!CallType, R!Stages
    <2>3. ui' \in R!PageType /\ ui'.keys = ui.keys /\ ui'.device = ui.device
          /\ ui'.removed = ui.removed /\ ui'.told = ui.told /\ UNCHANGED db
        BY <1>1 DEF R!Register, R!PageType
    <2> HIDE DEF c
    <2> QED BY <2>1, <2>2, <2>3, RCall DEF RFinish
<1>2. ASSUME NEW k \in Credentials, R!Remove(k) PROVE RInv'
    <2> DEFINE c == [op |-> "remove", at |-> "sent", key |-> k]
    <2>1. PICK i \in Slots : net[i].op = "none" /\ net' = [net EXCEPT ![i] = c]
        BY <1>2, RSend DEF R!Remove, RInv
    <2>2. c \in R!CallType /\ c.op = "remove" BY DEF R!CallType, R!Stages
    <2> HIDE DEF c
    <2> QED BY <1>2, <2>1, <2>2, RCall DEF R!Remove, RFinish
<1>3. ASSUME R!Lapse PROVE RInv'
    <2>1. db' \in [stored : SUBSET Credentials, pending : BOOLEAN] /\ db'.stored = db.stored
        BY <1>3 DEF R!Lapse
    <2> QED BY <1>3, <2>1 DEF R!Lapse, RInv, R!TypeOK, RKept, RMade
<1>4. ASSUME NEW i \in Slots, R!ServeLoad(i) PROVE RInv'
    <2> DEFINE c == [net[i] EXCEPT !.at = "done", !.keys = db.stored]
    <2>1. net[i].op = "load" /\ net' = [net EXCEPT ![i] = c] /\ UNCHANGED <<db, ui>>
        BY <1>4 DEF R!ServeLoad, R!IsSent
    <2>2. net[i] \in [op : {"load"}, at : R!Stages, by : {"none", "register"},
                       keys : SUBSET Credentials]
        BY <2>1, RKinds
    <2>3. c \in R!CallType /\ c.op = "load" /\ c.keys = db.stored
        BY <2>2 DEF R!CallType, R!Stages
    <2> HIDE DEF c
    <2> QED BY <2>1, <2>3, RCall DEF RFinish
<1>5. ASSUME NEW i \in Slots, R!ServeBegin(i) PROVE RInv'
    <2> DEFINE c == [net[i] EXCEPT !.at = "done"]
    <2>1. net[i].op = "begin" /\ net' = [net EXCEPT ![i] = c] /\ UNCHANGED ui
        BY <1>5 DEF R!ServeBegin, R!IsSent
    <2>2. c \in R!CallType /\ c.op = "begin"
        BY <2>1, RKinds DEF R!CallType, R!Stages
    <2>3. db' \in [stored : SUBSET Credentials, pending : BOOLEAN] /\ db'.stored = db.stored
        BY <1>5 DEF R!ServeBegin
    <2> HIDE DEF c
    <2> QED BY <2>1, <2>2, <2>3, RCall DEF RFinish
<1>6. ASSUME NEW i \in Slots, R!ServeFinish(i) PROVE RInv'
    <2> DEFINE c == [net[i] EXCEPT !.at = IF db.pending THEN "done" ELSE "refused"]
    <2>1. net[i].op = "finish" /\ net' = [net EXCEPT ![i] = c] /\ UNCHANGED ui
        BY <1>6 DEF R!ServeFinish, R!IsSent
    <2>2. net[i] \in [op : {"finish"}, at : R!Stages \cup {"refused"}, key : Credentials]
        BY <2>1, RKinds
    <2>3. c \in R!CallType /\ c.op = "finish" /\ c.key = net[i].key
          /\ (c.at = "done" => db.pending)
        BY <2>2 DEF R!CallType, R!Stages
    <2>4. /\ db' \in [stored : SUBSET Credentials, pending : BOOLEAN]
          /\ db'.stored = db.stored \cup IF db.pending THEN {net[i].key} ELSE {}
        BY <1>6, <2>2 DEF R!ServeFinish
    <2>5. net[i].key \in ui.device BY <2>1 DEF RInv, RMade
    <2> HIDE DEF c
    <2>6. c.op = "finish" /\ c.at = "done" => c.key \in db'.stored
        BY <2>3, <2>4
    <2>7. \A k \in ui.device : RFinish(net[i], k) => RFinish(c, k)
        BY <2>3 DEF RFinish
    <2> QED BY <2>1, <2>3, <2>4, <2>5, <2>6, <2>7, RCall
<1>7. ASSUME NEW i \in Slots, R!ServeRemove(i) PROVE RInv'
    <2> DEFINE c == [net[i] EXCEPT !.at = "done"]
    <2>1. net[i].op = "remove" /\ net' = [net EXCEPT ![i] = c]
        BY <1>7 DEF R!ServeRemove, R!IsSent
    <2>2. net[i] \in [op : {"remove"}, at : R!Stages, key : Credentials]
        BY <2>1, RKinds
    <2>3. c \in R!CallType /\ c.op = "remove"
        BY <2>2 DEF R!CallType, R!Stages
    <2>4. /\ db' \in [stored : SUBSET Credentials, pending : BOOLEAN]
          /\ db'.stored = db.stored \ {net[i].key}
        BY <1>7 DEF R!ServeRemove
    <2>5. ui' \in R!PageType /\ ui'.keys = ui.keys /\ ui'.device = ui.device
          /\ ui'.removed = ui.removed \cup {net[i].key} /\ ui'.told = ui.told
        BY <1>7, <2>2 DEF R!ServeRemove, R!PageType
    <2> HIDE DEF c
    <2> QED BY <2>1, <2>3, <2>4, <2>5, RCall DEF RFinish
<1>8. ASSUME NEW i \in Slots, NEW k \in Credentials, R!Confirm(i, k) PROVE RInv'
    <2> DEFINE c == [op |-> "finish", at |-> "sent", key |-> k]
    <2>1. net[i].op = "begin" /\ net' = [net EXCEPT ![i] = c] /\ UNCHANGED db
        BY <1>8 DEF R!Confirm, R!IsDone
    <2>2. c \in R!CallType /\ c.op = "finish" /\ c.at = "sent" /\ c.key = k
        BY DEF R!CallType, R!Stages
    <2>3. ui' \in R!PageType /\ ui'.keys = ui.keys /\ ui'.device = ui.device \cup {k}
          /\ ui'.removed = ui.removed /\ ui'.told = ui.told
        BY <1>8 DEF R!Confirm, R!PageType
    <2> HIDE DEF c
    <2> QED BY <2>1, <2>2, <2>3, RCall DEF RFinish
<1>9. ASSUME NEW i \in Slots, NEW answered \in BOOLEAN, R!Loaded(i, answered) PROVE RInv'
    <2>1. net[i].op = "load" /\ net' = [net EXCEPT ![i] = R!NoCall] /\ UNCHANGED db
        BY <1>9 DEF R!Loaded, R!IsDone, R!MayFail, R!Ended
    <2>2. net[i] \in [op : {"load"}, at : R!Stages, by : {"none", "register"},
                       keys : SUBSET Credentials]
          /\ net[i].keys \subseteq ui.device
        BY <2>1, RKinds DEF RInv, RMade
    <2>3. ui' \in R!PageType /\ ui'.keys \subseteq ui.device /\ ui'.device = ui.device
          /\ ui'.removed = ui.removed /\ ui'.told = ui.told
        BY <1>9, <2>2 DEF R!Loaded, R!PageType
    <2> QED BY <2>1, <2>3, RCalls, RCall DEF RFinish
<1>10. ASSUME NEW i \in Slots, R!Registered(i) PROVE RInv'
    <2>1. net[i].op = "finish" /\ net' = [net EXCEPT ![i] = R!Load("register")]
          /\ UNCHANGED <<db, ui>> /\ net[i].at = "done"
        BY <1>10 DEF R!Registered, R!IsDone
    <2>2. \A k \in ui.device : RFinish(net[i], k) => RKept(k)'
        BY <2>1 DEF RInv, RMade, RFinish, RKept
    <2> QED BY <2>1, <2>2, RCalls, RCall
<1>11. ASSUME NEW i \in Slots, R!NotRegistered(i) PROVE RInv'
    <2>1. net[i].op \in {"begin", "finish"} /\ net' = [net EXCEPT ![i] = R!NoCall] /\ UNCHANGED db
        BY <1>11 DEF R!NotRegistered, R!MayFail, R!Ended
    <2> DEFINE lost == IF net[i].op = "finish" THEN {net[i].key} ELSE {}
    <2>2. lost \in SUBSET Credentials /\ \A k \in ui.device : RFinish(net[i], k) => k \in lost
        BY <2>1, RKinds DEF RFinish
    <2>4. ui' = [ui EXCEPT !.registering = FALSE, !.told = @ \cup lost]
        BY <1>11 DEF R!NotRegistered
    <2> HIDE DEF lost
    <2>3. ui' \in R!PageType /\ ui'.keys = ui.keys /\ ui'.device = ui.device
          /\ ui'.removed = ui.removed /\ ui'.told = ui.told \cup lost
        BY <2>2, <2>4 DEF R!PageType
    <2>5. \A k \in ui.device : RFinish(net[i], k) => RKept(k)'
        BY <2>2, <2>3 DEF RKept
    <2> QED BY <2>1, <2>3, <2>5, RCalls, RCall
<1>12. ASSUME NEW i \in Slots, R!Removed(i) \/ R!RemoveFailed(i) PROVE RInv'
    <2>1. net[i].op = "remove" /\ UNCHANGED <<db, ui>>
          /\ \E c \in {R!NoCall, R!Load("none")} : net' = [net EXCEPT ![i] = c]
        BY <1>12 DEF R!Removed, R!RemoveFailed, R!IsDone, R!MayFail, R!Ended
    <2> QED BY <2>1, RCalls, RCall DEF RFinish
<1> QED BY <1>1, <1>2, <1>3, <1>4, <1>5, <1>6, <1>7, <1>8, <1>9, <1>10, <1>11, <1>12 DEF R!Next

\* The invariant holds whenever the page is shown.
LEMMA RAlways == Spec => [](page = "profile" => RInv)
<1>1. Init => (page = "profile" => RInv) BY RInit DEF Init
<1>2. (page = "profile" => RInv) /\ [Next]_vars => (page = "profile" => RInv)'
    <2> SUFFICES ASSUME page = "profile" => RInv, [Next]_vars, page' = "profile" PROVE RInv'
        OBVIOUS
    <2>1. CASE UNCHANGED vars
        BY <2>1 DEF vars, RInv, R!TypeOK, RKept, RMade
    <2> QED BY <2>1, RStep DEF Next
<1> QED BY <1>1, <1>2, PTL DEF Spec

\* pages/Profile.tsx: at rest, a passkey the authenticator holds is stored, was
\* removed, or the user was told that its registration failed.
THEOREM PasskeysAreNotStranded == Spec => []NoneStranded
<1>1. (page = "profile" => RInv) => NoneStranded
    BY DEF NoneStranded, R!NoneStranded, R!Settled, RInv, R!TypeOK, RKept, RFinish
<1> QED BY <1>1, RAlways, PTL

-----------------------------------------------------------------------------
(* pages/Playground.tsx                                                    *)

\* A conversation: every answer follows its question and is not cut off, and
\* nothing is about a question that is still to come.
YFollows(msgs, i) == i > 1 /\ msgs[i - 1] = Y!Question(msgs[i].of)
YGood(msgs, asked, cut) ==
    /\ \A i \in 1..Len(msgs) : msgs[i].of <= asked
    /\ \A i \in 1..Len(msgs) :
          msgs[i].text # "question" => YFollows(msgs, i) /\ msgs[i].of \notin cut
\* The history of a stream ends with its question, the last one asked.
YStream ==
    LET h == net.history IN
    /\ Len(h) >= 1 /\ h[Len(h)] = Y!Question(ui.asked) /\ ui.asked \notin ui.cut
    /\ \A i \in 1..Len(h) : h[i].text # "question" => h[i].of < ui.asked
YInv ==
    /\ Y!TypeOK
    /\ \A n \in ui.cut : n <= ui.asked
    /\ YGood(ui.msgs, ui.asked, ui.cut)
    /\ net.at # "idle" => YGood(net.history, ui.asked, ui.cut) /\ YStream

YPage == [key : Y!Keys, msgs : Seq(Y!Messages), asked : Questions \cup {0},
          cut : SUBSET Questions]
YNet == [at : {"idle", "asked", "open"}, history : Seq(Y!Messages), acc : {"", "pieces"}]

\* An empty conversation is a good one.
LEMMA YEmpty == <<>> \in Seq(Y!Messages) /\ Len(<<>>) = 0
         /\ \A asked, cut : YGood(<<>>, asked, cut)
BY DEF YGood

\* The types of the three variables; questions are numbers.
LEMMA YTypes ==
    ASSUME YInv
    PROVE  db \in Y!Keys /\ ui \in YPage /\ net \in YNet /\ ui.asked \in Nat
           /\ \A msgs \in Seq(Y!Messages) : \A i \in 1..Len(msgs) : msgs[i].of \in Nat
<1>1. db \in Y!Keys /\ ui \in YPage /\ net \in YNet
    BY DEF YInv, Y!TypeOK, YPage, YNet
<1>2. ui.asked \in Nat
    <2>1. Questions \cup {0} \subseteq Nat BY PagesAssumption
    <2>2. ui.asked \in Questions \cup {0} BY <1>1 DEF YPage
    <2> QED BY <2>1, <2>2
<1>3. ASSUME NEW msgs \in Seq(Y!Messages), NEW i \in 1..Len(msgs) PROVE msgs[i].of \in Nat
    <2>1. msgs[i] \in Y!Messages OBVIOUS
    <2> QED BY <2>1, PagesAssumption DEF Y!Messages
<1> QED BY <1>1, <1>2, <1>3

\* Questions and answers are messages, and differ.
LEMMA YMessage ==
    ASSUME NEW n \in Questions, NEW text \in Y!Texts
    PROVE  /\ Y!Question(n) \in Y!Messages /\ Y!Answer(n, text) \in Y!Messages
           /\ Y!Answer(n, text).text # "question" /\ Y!Answer(n, text).of = n
           /\ Y!Question(n).of = n /\ Y!Question(n).text = "question"
BY DEF Y!Question, Y!Answer, Y!Messages, Y!Texts

\* The invariant holds when the page opens.
LEMMA YInit == ASSUME Y!Init PROVE YInv
<1>1. ui \in YPage /\ net \in YNet /\ db \in Y!Keys
    BY YEmpty DEF Y!Init, Y!Blank, Y!Quiet, YPage, YNet, Y!Keys
<1>2. ui.msgs = <<>> /\ ui.cut = {} /\ net.at = "idle"
    BY DEF Y!Init, Y!Blank, Y!Quiet
<1>3. YGood(ui.msgs, ui.asked, ui.cut) BY <1>2, YEmpty
<1>4. Y!TypeOK BY <1>1 DEF Y!TypeOK, YPage, YNet
<1> QED BY <1>2, <1>3, <1>4 DEF YInv

\* What a stream writes on the screen: its history, and an answer to it.
LEMMA YWith ==
    ASSUME YInv, net.at # "idle", NEW text \in Y!Texts
    PROVE  Y!With(text) \in Seq(Y!Messages) /\ YGood(Y!With(text), ui.asked, ui.cut) /\ Y!Current = ui.asked
<1> DEFINE h == net.history
<1> USE YTypes
<1>1. h \in Seq(Y!Messages) /\ YGood(h, ui.asked, ui.cut) /\ YStream BY DEF YInv, YNet
<1>2. Len(h) \in 1..Len(h) /\ h[Len(h)] \in Y!Messages BY <1>1 DEF YStream
<1>3. Y!Current = ui.asked BY <1>1 DEF Y!Current, YStream, Y!Question
<1>4. ui.asked \in Questions
    BY <1>1, <1>2 DEF YStream, Y!Question, Y!Messages
<1> DEFINE a == Y!Answer(ui.asked, text)
           m == Append(h, a)
<1>5. a \in Y!Messages /\ a.of = ui.asked BY <1>4, YMessage
<1>6. Y!With(text) = m BY <1>3 DEF Y!With
<1> HIDE DEF a
<1>7. m \in Seq(Y!Messages) /\ Len(m) = Len(h) + 1 /\ m[Len(h) + 1] = a
      /\ \A i \in 1..Len(h) : m[i] = h[i]
    BY <1>1, <1>5
<1> HIDE DEF m, h
<1>8. ASSUME NEW i \in 1..Len(m) PROVE m[i].of <= ui.asked
    BY <1>1, <1>5, <1>7 DEF YGood, YStream
<1>9. ASSUME NEW i \in 1..Len(m), m[i].text # "question"
      PROVE  YFollows(m, i) /\ m[i].of \notin ui.cut
    <2>1. CASE i = Len(h) + 1
        <3>1. m[i - 1] = Y!Question(ui.asked) /\ i > 1
            BY <1>1, <1>7, <2>1 DEF YStream, h
        <3> QED BY <1>1, <1>5, <1>7, <2>1, <3>1 DEF YFollows, YStream
    <2>2. CASE i \in 1..Len(h)
        <3>1. m[i] = h[i] /\ YFollows(h, i) /\ h[i].of \notin ui.cut
            BY <1>1, <1>7, <1>9, <2>2 DEF YGood
        <3>2. i - 1 \in 1..Len(h) BY <1>1, <2>2, <3>1 DEF YFollows
        <3> QED BY <1>7, <3>1, <3>2 DEF YFollows
    <2> QED BY <1>1, <1>7, <2>1, <2>2
<1> QED BY <1>3, <1>6, <1>7, <1>8, <1>9 DEF YGood

\* Every action of the page keeps the invariant.
LEMMA YStep == ASSUME YInv, Y!Next PROVE YInv'
<1> USE YTypes
<1>1. ASSUME Y!Reload PROVE YInv'
    <2>1. ui' \in YPage /\ ui'.msgs = <<>> /\ ui'.cut = {}
        BY <1>1, YEmpty DEF Y!Reload, Y!Blank, YPage
    <2>2. net' \in YNet /\ net'.at = "idle" /\ UNCHANGED db
        BY <1>1, YEmpty DEF Y!Reload, Y!Quiet, YNet
    <2>3. YGood(<<>>, ui'.asked, ui'.cut) BY YEmpty
    <2> QED BY <2>1, <2>2, <2>3 DEF YInv, Y!TypeOK, YPage, YNet
<1>2. ASSUME NEW key \in Y!Keys, Y!TypeKey(key) PROVE YInv'
    <2>1. ui' \in YPage /\ ui'.msgs = ui.msgs /\ ui'.cut = ui.cut /\ ui'.asked = ui.asked
        BY <1>2 DEF Y!TypeKey, YPage
    <2> QED BY <1>2, <2>1 DEF Y!TypeKey, YInv, Y!TypeOK, YPage, YGood, YStream
<1>3. ASSUME Y!Ask PROVE YInv'
    <2> DEFINE n == ui.asked + 1
               h == Append(ui.msgs, Y!Question(n))
    <2>1. n \in Questions /\ db' = ui.key
          /\ ui' = [ui EXCEPT !.msgs = h, !.asked = n]
          /\ net' = [at |-> "asked", history |-> h, acc |-> ""]
        BY <1>3 DEF Y!Ask
    <2>2. Y!Question(n) \in Y!Messages /\ Y!Question(n).of = n /\ Y!Question(n).text = "question"
        BY <2>1 DEF Y!Question, Y!Messages
    <2>3. ui.msgs \in Seq(Y!Messages) /\ db' \in Y!Keys BY <2>1 DEF YPage
    <2>4. /\ h \in Seq(Y!Messages) /\ Len(h) = Len(ui.msgs) + 1
          /\ h[Len(ui.msgs) + 1] = Y!Question(n)
          /\ \A i \in 1..Len(ui.msgs) : h[i] = ui.msgs[i]
        BY <2>2, <2>3
    <2> HIDE DEF h
    <2>5. ui' \in YPage /\ ui'.msgs = h /\ ui'.asked = n /\ ui'.cut = ui.cut
        BY <2>1, <2>4 DEF YPage
    <2>6. net' \in YNet /\ net'.history = h BY <2>1, <2>4 DEF YNet
    <2>7. \A i \in 1..Len(ui.msgs) : ui.msgs[i].of < n
        BY <2>3 DEF YInv, YGood
    <2>8. n \notin ui.cut BY DEF YInv
    <2>9. ASSUME NEW i \in 1..Len(h), h[i].text # "question"
          PROVE  YFollows(h, i) /\ h[i].of \notin ui.cut /\ h[i].of < n
        <3>1. i \in 1..Len(ui.msgs) BY <2>2, <2>3, <2>4, <2>9
        <3>2. h[i] = ui.msgs[i] /\ YFollows(ui.msgs, i) /\ ui.msgs[i].of \notin ui.cut
            BY <2>4, <2>9, <3>1 DEF YInv, YGood
        <3>3. i - 1 \in 1..Len(ui.msgs) BY <2>3, <3>1, <3>2 DEF YFollows
        <3> QED BY <2>4, <2>7, <3>1, <3>2, <3>3 DEF YFollows
    <2>10. \A i \in 1..Len(h) : h[i].of <= n
        BY <2>2, <2>3, <2>4, <2>7
    <2>11. YGood(h, n, ui.cut)
        BY <2>5, <2>9, <2>10 DEF YGood
    <2>12. YStream'
        BY <2>3, <2>4, <2>5, <2>6, <2>8, <2>9 DEF YStream
    <2>13. \A k \in ui.cut : k <= n
        <3>1. \A k \in ui.cut : k \in Nat /\ k <= ui.asked BY PagesAssumption DEF YInv, YPage
        <3> QED BY <3>1
    <2>14. Y!TypeOK' BY <2>3, <2>5, <2>6 DEF Y!TypeOK, YPage, YNet
    <2>15. YGood(ui'.msgs, ui'.asked, ui'.cut) /\ YGood(net'.history, ui'.asked, ui'.cut)
        BY <2>5, <2>6, <2>11
    <2> QED BY <2>5, <2>12, <2>13, <2>14, <2>15 DEF YInv
<1>4. ASSUME Y!Clear PROVE YInv'
    <2>1. ui' \in YPage /\ ui'.msgs = <<>> /\ ui'.cut = ui.cut /\ ui'.asked = ui.asked
        BY <1>4, YEmpty DEF Y!Clear, YPage
    <2>2. YGood(ui'.msgs, ui'.asked, ui'.cut) BY <2>1, YEmpty
    <2>3. UNCHANGED <<db, net>> BY <1>4 DEF Y!Clear
    <2>4. net.at # "idle" => (YGood(net.history, ui.asked, ui.cut) /\ YStream)'
        BY <2>1, <2>3 DEF YInv, YGood, YStream
    <2>5. Y!TypeOK' BY <2>1, <2>3 DEF Y!TypeOK, YPage, YNet
    <2> QED BY <2>1, <2>2, <2>3, <2>4, <2>5 DEF YInv
\* A piece, or the first or last of them, is written on the screen.
<1>5. ASSUME NEW text \in Y!Texts, net.at # "idle", ui' = [ui EXCEPT !.msgs = Y!With(text)],
             net' \in YNet, net'.at = "idle" \/ net'.history = net.history, UNCHANGED db
      PROVE  YInv'
    <2>1. Y!With(text) \in Seq(Y!Messages) /\ YGood(Y!With(text), ui.asked, ui.cut) BY <1>5, YWith
    <2> DEFINE m == Y!With(text)
    <2> HIDE DEF m
    <2>2. ui' \in YPage /\ ui'.msgs = m /\ ui'.cut = ui.cut /\ ui'.asked = ui.asked
        BY <1>5, <2>1 DEF YPage, m
    <2>3. YGood(ui'.msgs, ui'.asked, ui'.cut) BY <2>1, <2>2 DEF m
    <2>4. net'.at # "idle" => (YGood(net.history, ui.asked, ui.cut) /\ YStream)'
        BY <1>5, <2>2 DEF YInv, YGood, YStream
    <2>5. Y!TypeOK' BY <1>5, <2>2 DEF Y!TypeOK, YPage, YNet
    <2> QED BY <2>2, <2>3, <2>4, <2>5 DEF YInv
<1>6. ASSUME Y!Opened PROVE YInv'
    <2>1. net' \in YNet /\ net'.history = net.history BY <1>6 DEF Y!Opened, YNet
    <2> QED BY <1>5, <1>6, <2>1 DEF Y!Opened, Y!Texts
<1>7. ASSUME Y!Piece PROVE YInv'
    <2>1. net' \in YNet /\ net'.history = net.history BY <1>7 DEF Y!Piece, YNet
    <2> QED BY <1>5, <1>7, <2>1 DEF Y!Piece, Y!Texts
<1>8. ASSUME Y!Finished PROVE YInv'
    <2>1. net' \in YNet /\ net'.at = "idle" /\ UNCHANGED db
        BY <1>8, YEmpty DEF Y!Finished, Y!Quiet, YNet
    <2>2. CASE net.acc = ""
        BY <1>5, <1>8, <2>1, <2>2 DEF Y!Finished, Y!Texts
    <2>3. CASE net.acc # ""
        <3>1. ui' = ui BY <1>8, <2>3 DEF Y!Finished
        <3> QED BY <2>1, <3>1 DEF YInv, Y!TypeOK, YNet, YGood
    <2> QED BY <2>2, <2>3
<1>9. ASSUME Y!CutOff PROVE YInv'
    <2>1. net' \in YNet /\ net'.at = "idle" /\ UNCHANGED db /\ net.at # "idle"
        BY <1>9, YEmpty DEF Y!CutOff, Y!Streaming, Y!Quiet, YNet
    <2>2. Y!Current = ui.asked BY <2>1, YWith DEF Y!Texts
    <2>3. net.history \in Seq(Y!Messages) /\ YGood(net.history, ui.asked, ui.cut) /\ YStream
        BY <2>1 DEF YInv, YNet
    <2>4. ui.asked \in Questions
        <3>1. net.history[Len(net.history)] \in Y!Messages BY <2>3 DEF YStream
        <3> QED BY <2>3, <3>1 DEF YStream, Y!Question, Y!Messages
    <2>5. ui' \in YPage /\ ui'.msgs = net.history /\ ui'.cut = ui.cut \cup {ui.asked}
          /\ ui'.asked = ui.asked
        BY <1>9, <2>2, <2>3, <2>4 DEF Y!CutOff, YPage
    <2>6. YGood(ui'.msgs, ui'.asked, ui'.cut)
        BY <2>3, <2>5 DEF YGood, YStream
    <2>7. Y!TypeOK' BY <2>1, <2>5 DEF Y!TypeOK, YPage, YNet
    <2>8. \A n \in ui'.cut : n <= ui'.asked BY <2>5 DEF YInv
    <2> QED BY <2>1, <2>6, <2>7, <2>8 DEF YInv
<1> QED BY <1>1, <1>2, <1>3, <1>4, <1>6, <1>7, <1>8, <1>9 DEF Y!Next

\* The invariant holds whenever the page is shown.
LEMMA YAlways == Spec => [](page = "chat" => YInv)
<1>1. Init => (page = "chat" => YInv) BY YInit DEF Init
<1>2. (page = "chat" => YInv) /\ [Next]_vars => (page = "chat" => YInv)'
    <2> SUFFICES ASSUME page = "chat" => YInv, [Next]_vars, page' = "chat" PROVE YInv'
        OBVIOUS
    <2>1. CASE UNCHANGED vars
        BY <2>1 DEF vars, YInv, Y!TypeOK, YGood, YStream
    <2> QED BY <2>1, YStep DEF Next
<1> QED BY <1>1, <1>2, PTL DEF Spec

\* What the invariant says of the conversation on the screen.
LEMMA YAnswers ==
    ASSUME YInv
    PROVE  Y!AnswerFollowsQuestion /\ Y!NothingOfCutAnswers
<1>1. ui.msgs \in Seq(Y!Messages) BY YTypes DEF YPage
<1>2. \A i \in Y!Answers : i \in 1..Len(ui.msgs) /\ ui.msgs[i].text # "question"
    BY <1>1 DEF Y!Answers
<1> QED BY <1>2 DEF Y!AnswerFollowsQuestion, Y!NothingOfCutAnswers, YInv, YGood, YFollows

\* pages/Playground.tsx: every answer on the screen stands right below its
\* question, whatever was stopped, cleared or sent again.
THEOREM AnswersFollow == Spec => []AnswerFollowsQuestion
<1>1. (page = "chat" => YInv) => AnswerFollowsQuestion
    BY YAnswers DEF AnswerFollowsQuestion
<1> QED BY <1>1, YAlways, PTL

\* pages/Playground.tsx: of an answer that broke off nothing is left on the screen.
THEOREM CutAnswersLeaveNothing == Spec => []NothingOfCutAnswers
<1>1. (page = "chat" => YInv) => NothingOfCutAnswers
    BY YAnswers DEF NothingOfCutAnswers
<1> QED BY <1>1, YAlways, PTL

-----------------------------------------------------------------------------
(* pages/ForgotPassword.tsx, and SendCode and ResetPassword of handler/auth.go *)

\* The page's module counts as this one does.
LEMMA FCard == \A s : F!Cardinality(s) = Cardinality(s)
BY DEF F!Cardinality, Cardinality

\* The calls that have read code c, and those that found it right.
FRead(call, c) == call.op = "reset" /\ call.at = "read" /\ call.rec = c
FMatch(call, c) == call.op = "reset" /\ call.at = "matched" /\ call.rec = c
FReads(calls, c) == {i \in CallTabs : FRead(calls[i], c)}
FMatches(calls, c) == {i \in CallTabs : FMatch(calls[i], c)}

\* A call that has read a code may still compare it; a right guess is compared
\* but not counted, until its call wipes the codes.
FBounded(server, calls, c) ==
    /\ server.guesses[c] + Cardinality(FReads(calls, c)) <= F!Bound
    /\ server.tries[c] <= server.guesses[c]
    /\ c \in server.codes =>
          server.guesses[c] <= server.tries[c] + Cardinality(FMatches(calls, c))
    /\ c > server.issued => server.guesses[c] = 0
FHolds(call) ==
    call.op = "reset" /\ call.at \in {"read", "matched"} =>
        call.rec \in Codes /\ call.rec <= db.issued
FInv ==
    /\ F!TypeOK
    /\ \A c \in db.codes : c <= db.issued
    /\ \A i \in CallTabs : FHolds(net[i])
    /\ \A c \in Codes : FBounded(db, net, c)

\* The types of the three variables; what was issued is a number.
LEMMA FTypes ==
    ASSUME FInv
    PROVE  /\ db \in F!ServerType /\ ui \in F!PageType /\ net \in [CallTabs -> F!CallType]
           /\ db.issued \in Nat
<1>1. Codes \cup {0} \subseteq Nat BY PagesAssumption
<1>2. db.issued \in Codes \cup {0} BY DEF FInv, F!TypeOK, F!ServerType
<1> QED BY <1>1, <1>2 DEF FInv, F!TypeOK

\* Codes and bounds are numbers, and somebody calls.
LEMMA FNumbers ==
    /\ F!Bound \in Nat /\ F!Bound = MaxAttempts - 1 + Cardinality(CallTabs)
    /\ Cardinality(CallTabs) \in Nat /\ Cardinality(CallTabs) >= 1 /\ MaxAttempts \in Nat
    /\ \A c \in Codes : c \in Nat
<1>1. Cardinality(CallTabs) \in Nat /\ Cardinality(CallTabs) # 0
    BY PagesAssumption, FS_CardinalityType, FS_EmptySet
<1> QED BY <1>1, FCard, PagesAssumption DEF F!Bound

\* The calls at a code can be counted.
LEMMA FCounts ==
    ASSUME NEW calls, NEW c
    PROVE  /\ IsFiniteSet(FReads(calls, c)) /\ Cardinality(FReads(calls, c)) \in Nat
           /\ IsFiniteSet(FMatches(calls, c)) /\ Cardinality(FMatches(calls, c)) \in Nat
<1>1. FReads(calls, c) \in SUBSET CallTabs /\ FMatches(calls, c) \in SUBSET CallTabs
    BY DEF FReads, FMatches
<1> QED BY <1>1, PagesAssumption, FS_Subset, FS_CardinalityType

\* The newest code is one of those stored.
LEMMA FNewest ==
    ASSUME FInv, F!Newest # 0
    PROVE  F!Newest \in db.codes
<1>1. db.codes # {} BY DEF F!Newest
<1>2. db.codes \in SUBSET Nat /\ \A c \in db.codes : c <= db.issued
    BY FTypes, FNumbers DEF FInv, F!ServerType
<1>3. IsFiniteSet(db.codes) BY <1>2, FTypes, FS_BoundedSetOfNaturals
<1>4. \E m \in db.codes : \A n \in db.codes : n <= m BY <1>1, <1>2, <1>3, Greatest
<1> QED BY <1>1, <1>4 DEF F!Newest

\* The fields a call of each kind has.
LEMMA FKinds ==
    ASSUME NEW c \in F!CallType
    PROVE  /\ c.op = "code" =>
                c \in [op : {"code"}, at : {"sent", "checked", "wiped", "stored", "done", "refused"},
                       email : F!Emails, rec : Codes \cup {0}]
           /\ c.op = "reset" =>
                c \in [op : {"reset"}, at : {"sent", "read", "matched", "done", "refused"},
                       email : F!Emails, guess : Nat, rec : Codes \cup {0}]
           /\ c = F!NoCall \/ c.op \in {"code", "reset"}
BY DEF F!CallType, F!NoCall

\* The calls the page makes are of their types.
LEMMA FCalls ==
    /\ F!NoCall \in F!CallType /\ F!NoCall.op = "none"
    /\ \A email \in F!Emails :
          F!Code(email) \in F!CallType /\ F!Code(email).op = "code"
    /\ \A email \in F!Emails, guess \in Nat :
          /\ F!Reset(email, guess) \in F!CallType /\ F!Reset(email, guess).op = "reset"
          /\ F!Reset(email, guess).at = "sent"
BY DEF F!Code, F!Reset, F!CallType, F!NoCall

\* One call moves: who has read a code, or matched it, but for that call.
LEMMA FMoves ==
    ASSUME FInv, NEW i \in CallTabs, NEW e, net' = [net EXCEPT ![i] = e], NEW c
    PROVE  /\ FRead(e, c) => FReads(net', c) = FReads(net, c) \cup {i}
           /\ ~FRead(e, c) => FReads(net', c) = FReads(net, c) \ {i}
           /\ FMatch(e, c) => FMatches(net', c) = FMatches(net, c) \cup {i}
           /\ ~FMatch(e, c) => FMatches(net', c) = FMatches(net, c) \ {i}
           /\ i \in FReads(net, c) <=> FRead(net[i], c)
           /\ i \in FMatches(net, c) <=> FMatch(net[i], c)
<1>1. net'[i] = e /\ \A j \in CallTabs \ {i} : net'[j] = net[j]
    BY FTypes
<1> QED BY <1>1 DEF FReads, FMatches

\* A call that moves but stays on the same side of a code changes neither set.
LEMMA FStays ==
    ASSUME FInv, NEW i \in CallTabs, NEW e, net' = [net EXCEPT ![i] = e], NEW c
    PROVE  /\ (FRead(net[i], c) <=> FRead(e, c)) => FReads(net', c) = FReads(net, c)
           /\ (FMatch(net[i], c) <=> FMatch(e, c)) => FMatches(net', c) = FMatches(net, c)
<1>1. net'[i] = e /\ \A j \in CallTabs \ {i} : net'[j] = net[j]
    BY FTypes
<1> QED BY <1>1 DEF FReads, FMatches

\* The invariant holds when the page opens.
LEMMA FInit == ASSUME F!Init PROVE FInv
<1>1. db \in F!ServerType
    BY FNumbers DEF F!Init, F!ServerType
<1>2. ui \in F!PageType
    BY DEF F!Init, F!PageType, F!Emails
<1>3. net \in [CallTabs -> F!CallType] /\ \A i \in CallTabs : net[i].op = "none"
    BY FCalls DEF F!Init, F!Silent
<1>4. \A c \in Codes : FReads(net, c) = {} /\ FMatches(net, c) = {}
    BY <1>3 DEF FReads, FMatches, FRead, FMatch
<1>5. ASSUME NEW c \in Codes PROVE FBounded(db, net, c)
    <2>1. db.guesses[c] = 0 /\ db.tries[c] = 0 /\ db.codes = {} BY DEF F!Init
    <2>2. Cardinality(FReads(net, c)) = 0 BY <1>4, FS_EmptySet
    <2> QED BY <2>1, <2>2, FNumbers DEF FBounded
<1>6. db.codes = {} BY DEF F!Init
<1> QED BY <1>1, <1>2, <1>3, <1>5, <1>6 DEF FInv, F!TypeOK, FHolds

\* No guess is compared or counted; what is issued is new.
LEMMA FQuiet ==
    ASSUME FInv, db' \in F!ServerType, ui' \in F!PageType,
           NEW i \in CallTabs, NEW e \in F!CallType, net' = [net EXCEPT ![i] = e],
           \A c \in Codes : ~FRead(e, c) /\ ~FRead(net[i], c) /\ (FMatch(net[i], c) <=> FMatch(e, c)),
           FHolds(e),
           db'.guesses = db.guesses, db'.tries = db.tries, db'.issued >= db.issued,
           \A c \in db'.codes : c <= db'.issued /\ (c \in db.codes \/ c > db.issued)
    PROVE  FInv'
<1> USE FTypes
<1>0. db'.issued \in Nat
    <2>1. Codes \cup {0} \subseteq Nat BY PagesAssumption
    <2> QED BY <2>1 DEF F!ServerType
<1>1. F!TypeOK' BY DEF F!TypeOK
<1>2. net'[i] = e /\ \A j \in CallTabs \ {i} : net'[j] = net[j]
    OBVIOUS
<1>3. \A j \in CallTabs : FHolds(net[j])'
    <2>1. \A c \in Codes : c \in Nat BY FNumbers
    <2> QED BY <1>0, <1>2, <2>1 DEF FInv, FHolds
<1>4. ASSUME NEW c \in Codes PROVE FBounded(db', net', c)
    <2>1. FReads(net', c) = FReads(net, c) /\ FMatches(net', c) = FMatches(net, c)
        BY <1>2 DEF FReads, FMatches
    <2>2. FBounded(db, net, c) BY DEF FInv
    <2>3. c \in Nat /\ db.guesses[c] \in Nat /\ db.tries[c] \in Nat
        BY FNumbers DEF F!ServerType
    <2> QED BY <1>0, <2>1, <2>2, <2>3, FCounts DEF FBounded
<1> QED BY <1>1, <1>3, <1>4 DEF FInv

\* The page, or a cooldown: no call moves.
LEMMA FPage ==
    ASSUME FInv, db' \in F!ServerType, ui' \in F!PageType, UNCHANGED net,
           db'.guesses = db.guesses, db'.tries = db.tries, db'.issued = db.issued,
           db'.codes \subseteq db.codes
    PROVE  FInv'
<1> USE FTypes
<1>1. F!TypeOK' BY DEF F!TypeOK
<1>2. ASSUME NEW c \in Codes PROVE FBounded(db', net', c)
    BY <1>2 DEF FInv, FBounded
<1> QED BY <1>1, <1>2 DEF FInv, FHolds

\* A call with this operation, at this stage, moves on to another.
FGone(i, to) == [net[i] EXCEPT !.at = to]

\* A call that goes on changes its stage and nothing else of the page.
LEMMA FGoes ==
    ASSUME FInv, NEW i \in CallTabs, NEW op, NEW from, NEW to, F!Goes(i, op, from, to)
    PROVE  /\ net' = [net EXCEPT ![i] = FGone(i, to)] /\ UNCHANGED ui
           /\ net[i].op = op /\ net[i].at = from
BY DEF F!Goes, FGone

\* A request for a code, wherever it goes, guesses nothing.
LEMMA FCodeCall ==
    ASSUME FInv, NEW i \in CallTabs, net[i].op = "code",
           NEW to \in {"checked", "wiped", "stored", "done", "refused"}
    PROVE  /\ FGone(i, to) \in F!CallType /\ FHolds(FGone(i, to))
           /\ \A c \in Codes : ~FRead(FGone(i, to), c) /\ ~FRead(net[i], c)
                               /\ ~FMatch(net[i], c) /\ ~FMatch(FGone(i, to), c)
<1>1. net[i] \in [op : {"code"}, at : {"sent", "checked", "wiped", "stored", "done", "refused"},
                  email : F!Emails, rec : Codes \cup {0}]
    BY FTypes, FKinds
<1> QED BY <1>1 DEF FGone, F!CallType, FHolds, FRead, FMatch

\* Every action of the page keeps the invariant.
LEMMA FStep == ASSUME FInv, F!Next PROVE FInv'
<1> USE FTypes
<1>a. F!Page \in CallTabs BY PagesAssumption DEF F!Page
<1>b. /\ db.issued >= db.issued
      /\ \A c \in db.codes : c <= db.issued /\ (c \in db.codes \/ c > db.issued)
    BY DEF FInv
\* A new call takes a free tab.
<1>c. ASSUME NEW i \in CallTabs, NEW e \in F!CallType, net[i] = F!NoCall,
             e.op = "code" \/ (e.op = "reset" /\ e.at = "sent"),
             net' = [net EXCEPT ![i] = e], ui' \in F!PageType, UNCHANGED db
      PROVE  FInv'
    <2>1. \A c \in Codes : ~FRead(e, c) /\ ~FRead(net[i], c) /\ ~FMatch(net[i], c) /\ ~FMatch(e, c)
        BY <1>c, FCalls DEF FRead, FMatch
    <2>2. FHolds(e) BY <1>c DEF FHolds
    <2> QED BY <1>b, <1>c, <2>1, <2>2, FQuiet
<1>1. ASSUME F!SendCode PROVE FInv'
    <2>1. ui' \in F!PageType BY <1>1 DEF F!SendCode, F!PageType
    <2>2. ui.email \in F!Emails BY DEF F!PageType
    <2> QED BY <1>1, <1>a, <1>c, <2>1, <2>2, FCalls DEF F!SendCode
<1>2. ASSUME NEW guess \in F!Guesses, F!ResetPassword(guess) PROVE FInv'
    <2>1. ui' \in F!PageType BY <1>2 DEF F!ResetPassword, F!PageType
    <2>2. ui.email \in F!Emails /\ guess \in Nat BY DEF F!PageType, F!Guesses
    <2> QED BY <1>2, <1>a, <1>c, <2>1, <2>2, FCalls DEF F!ResetPassword
<1>3. ASSUME NEW i \in CallTabs, NEW guess \in F!Guesses, F!Elsewhere(i, guess) PROVE FInv'
    <2>1. "known" \in F!Emails /\ guess \in Nat BY DEF F!Emails, F!Guesses
    <2> QED BY <1>3, <1>c, <2>1, FCalls DEF F!Elsewhere
<1>4. ASSUME F!NextStep \/ F!Back \/ \E email \in F!Emails : F!TypeEmail(email) PROVE FInv'
    <2>1. UNCHANGED <<db, net>>
        BY <1>4 DEF F!NextStep, F!Back, F!TypeEmail
    <2>2. CASE F!NextStep
        <3>1. ui' \in F!PageType BY <2>2 DEF F!NextStep, F!PageType
        <3> QED BY <2>1, <3>1, FPage
    <2>3. CASE F!Back
        <3>1. ui.email \in F!Emails BY DEF F!PageType
        <3>2. ui' \in F!PageType BY <2>3, <3>1 DEF F!Back, F!PageType
        <3> QED BY <2>1, <3>2, FPage
    <2>4. CASE \E email \in F!Emails : F!TypeEmail(email)
        <3>1. ui' \in F!PageType BY <2>4 DEF F!TypeEmail, F!PageType
        <3> QED BY <2>1, <3>1, FPage
    <2> QED BY <1>4, <2>2, <2>3, <2>4
<1>5. ASSUME F!Cool \/ \E c \in Codes : F!Expire(c) PROVE FInv'
    <2>1. db' \in F!ServerType /\ db'.guesses = db.guesses /\ db'.tries = db.tries
          /\ db'.issued = db.issued /\ db'.codes \subseteq db.codes /\ UNCHANGED <<ui, net>>
        BY <1>5 DEF F!Cool, F!Expire, F!ServerType
    <2> QED BY <2>1, FPage
<1>6. ASSUME NEW i \in CallTabs, F!CodeChecked(i) PROVE FInv'
    <2>1. PICK to \in {"checked", "done", "refused"} : F!Goes(i, "code", "sent", to)
        BY <1>6 DEF F!CodeChecked
    <2>2. UNCHANGED db BY <1>6 DEF F!CodeChecked
    <2>3. net[i].op = "code" /\ net' = [net EXCEPT ![i] = FGone(i, to)] /\ UNCHANGED ui
        BY <2>1, FGoes
    <2> QED BY <1>b, <2>2, <2>3, FCodeCall, FQuiet
<1>7. ASSUME NEW i \in CallTabs, F!CodesWiped(i) PROVE FInv'
    <2>1. net[i].op = "code" /\ net' = [net EXCEPT ![i] = FGone(i, "wiped")] /\ UNCHANGED ui
        BY <1>7, FGoes DEF F!CodesWiped
    <2>2. db' \in F!ServerType /\ db'.guesses = db.guesses /\ db'.tries = db.tries
          /\ db'.issued = db.issued /\ db'.codes = {}
        BY <1>7 DEF F!CodesWiped, F!ServerType
    <2> QED BY <1>b, <2>1, <2>2, FCodeCall, FQuiet
<1>8. ASSUME NEW i \in CallTabs, F!CodeStored(i) PROVE FInv'
    <2> DEFINE c == db.issued + 1
               e == [net[i] EXCEPT !.at = "stored", !.rec = c]
    <2>1. c \in Codes /\ net[i].op = "code" /\ net' = [net EXCEPT ![i] = e] /\ UNCHANGED ui
          /\ db' = [db EXCEPT !.issued = c, !.young = c, !.codes = @ \cup {c}]
        BY <1>8 DEF F!CodeStored
    <2>2. net[i] \in [op : {"code"}, at : {"sent", "checked", "wiped", "stored", "done", "refused"},
                      email : F!Emails, rec : Codes \cup {0}]
        BY <2>1, FKinds
    <2>3. e \in F!CallType /\ e.op = "code" BY <2>1, <2>2 DEF F!CallType
    <2>4. db' \in F!ServerType /\ db'.guesses = db.guesses /\ db'.tries = db.tries
          /\ db'.issued = c /\ db'.codes = db.codes \cup {c}
        BY <2>1 DEF F!ServerType
    <2> HIDE DEF e
    <2>5. \A d \in Codes : ~FRead(e, d) /\ ~FRead(net[i], d) /\ ~FMatch(net[i], d) /\ ~FMatch(e, d)
        BY <2>1, <2>3 DEF FRead, FMatch
    <2>6. FHolds(e) BY <2>3 DEF FHolds
    <2>7. db.codes \subseteq Nat BY FNumbers DEF F!ServerType
    <2>8. \A d \in db'.codes : d <= db'.issued /\ (d \in db.codes \/ d > db.issued)
        BY <1>b, <2>4, <2>7
    <2>9. db'.issued >= db.issued
        <3>1. Codes \cup {0} \subseteq Nat BY PagesAssumption
        <3>2. db.issued \in Nat BY <3>1 DEF F!ServerType
        <3> QED BY <2>4, <3>2
    <2>10. ui' \in F!PageType BY <2>1
    <2> HIDE DEF c
    <2> QED BY <2>1, <2>3, <2>4, <2>5, <2>6, <2>8, <2>9, <2>10, FQuiet
<1>9. ASSUME NEW i \in CallTabs, F!CodeMailed(i) \/ F!CodeTakenBack(i) PROVE FInv'
    <2>1. PICK to \in {"done", "refused"}, from \in {"stored", "wiped"} :
             F!Goes(i, "code", from, to)
        BY <1>9 DEF F!CodeMailed, F!CodeTakenBack
    <2>2. db' \in F!ServerType /\ db'.guesses = db.guesses /\ db'.tries = db.tries
          /\ db'.issued = db.issued /\ db'.codes \subseteq db.codes
        BY <1>9 DEF F!CodeMailed, F!CodeTakenBack, F!ServerType
    <2>3. net[i].op = "code" /\ net' = [net EXCEPT ![i] = FGone(i, to)] /\ UNCHANGED ui
        BY <2>1, FGoes
    <2> QED BY <1>b, <2>2, <2>3, FCodeCall, FQuiet
<1>10. ASSUME NEW i \in CallTabs, F!CodeRead(i) PROVE FInv'
    <2> DEFINE n == F!Newest
               known == net[i].email = "known" /\ n # 0
               spent == known /\ db.tries[n] >= MaxAttempts
               reads == known /\ ~spent
               e == [net[i] EXCEPT !.at = IF reads THEN "read" ELSE "refused", !.rec = n]
    <2>1. net[i].op = "reset" /\ net[i].at = "sent" /\ net' = [net EXCEPT ![i] = e]
          /\ UNCHANGED ui /\ db' = IF spent THEN [db EXCEPT !.codes = @ \ {n}] ELSE db
        BY <1>10 DEF F!CodeRead
    <2>2. n # 0 => n \in db.codes BY FNewest
    <2>3. n \in Codes \cup {0} /\ db.codes \subseteq Codes
        BY <2>2 DEF F!ServerType
    <2>4. net[i] \in [op : {"reset"}, at : {"sent", "read", "matched", "done", "refused"},
                      email : F!Emails, guess : Nat, rec : Codes \cup {0}]
        BY <2>1, FKinds
    <2> HIDE DEF n, known, spent
    <2>5. e \in F!CallType /\ e.op = "reset" /\ e.rec = n
          /\ e.at = IF reads THEN "read" ELSE "refused"
        BY <2>3, <2>4 DEF F!CallType
    <2> HIDE DEF e
    <2>6. db' \in F!ServerType /\ db'.guesses = db.guesses /\ db'.tries = db.tries
          /\ db'.issued = db.issued /\ db'.codes \subseteq db.codes
        BY <2>1 DEF F!ServerType
    <2>7. \A c \in Codes : ~FRead(net[i], c) /\ ~FMatch(net[i], c) /\ ~FMatch(e, c)
        BY <2>1, <2>5 DEF FRead, FMatch
    <2>8. reads => n \in db.codes /\ n <= db.issued /\ ~(db.tries[n] >= MaxAttempts)
        BY <2>2 DEF known, spent, FInv
    <2>9. FHolds(e)
        BY <2>3, <2>5, <2>8 DEF FHolds
    <2>10. CASE ~reads
        <3>1. \A c \in Codes : ~FRead(e, c) BY <2>5, <2>10 DEF FRead
        <3> QED BY <1>b, <2>1, <2>5, <2>6, <2>7, <2>9, <3>1, FQuiet
    <2>11. CASE reads
        <3>1. F!TypeOK' BY <2>1, <2>5, <2>6 DEF F!TypeOK
        <3>2. \A j \in CallTabs : FHolds(net[j])'
            BY <2>1, <2>6, <2>9 DEF FInv, FHolds
        <3>3. ASSUME NEW c \in Codes PROVE FBounded(db', net', c)
            <4>1. c \in Nat /\ db.guesses[c] \in Nat /\ db.tries[c] \in Nat
                BY FNumbers DEF F!ServerType
            <4>2. FBounded(db, net, c) BY DEF FInv
            <4>3. FMatches(net', c) = FMatches(net, c)
                BY <2>1, <2>7, FStays
            <4>4. CASE c # n
                <5>1. FReads(net', c) = FReads(net, c)
                    BY <2>1, <2>5, <2>7, <4>4, FStays DEF FRead
                <5> QED BY <2>6, <4>1, <4>2, <4>3, <5>1 DEF FBounded
            <4>5. CASE c = n
                <5>1. FReads(net', c) = FReads(net, c) \cup {i} /\ i \notin FReads(net, c)
                    BY <2>1, <2>5, <2>7, <2>11, <4>5, FMoves DEF FRead
                <5>2. Cardinality(FReads(net', c)) = Cardinality(FReads(net, c)) + 1
                    BY <5>1, FCounts, FS_AddElement
                <5>3. FReads(net', c) \cap FMatches(net, c) = {}
                    <6>1. i \notin FMatches(net, c) BY <2>7 DEF FMatches
                    <6> QED BY <5>1, <6>1 DEF FReads, FMatches, FRead, FMatch
                <5>4. Cardinality(FReads(net', c)) + Cardinality(FMatches(net, c))
                          <= Cardinality(CallTabs)
                    <6>1. FReads(net', c) \cup FMatches(net, c) \in SUBSET CallTabs
                        BY DEF FReads, FMatches
                    <6>2. Cardinality(FReads(net', c) \cup FMatches(net, c)) <= Cardinality(CallTabs)
                        BY <6>1, PagesAssumption, FS_Subset
                    <6>3. Cardinality(FReads(net', c) \cup FMatches(net, c))
                              = Cardinality(FReads(net', c)) + Cardinality(FMatches(net, c)) - 0
                        BY <5>3, FCounts, FS_Union, FS_EmptySet
                    <6> QED BY <6>2, <6>3, FCounts, FNumbers
                <5>5. db.guesses[c] <= db.tries[c] + Cardinality(FMatches(net, c))
                      /\ db.tries[c] < MaxAttempts
                    BY <2>8, <2>11, <4>1, <4>2, <4>5, FNumbers DEF FBounded
                <5>6. db.guesses[c] + Cardinality(FReads(net', c)) <= F!Bound
                    BY <4>1, <5>4, <5>5, FNumbers, FCounts
                <5> QED BY <2>6, <4>1, <4>2, <4>3, <5>6 DEF FBounded
            <4> QED BY <4>4, <4>5
        <3>4. \A c \in db'.codes : c <= db'.issued BY <2>6 DEF FInv
        <3> QED BY <3>1, <3>2, <3>3, <3>4 DEF FInv
    <2> QED BY <2>10, <2>11
<1>11. ASSUME NEW i \in CallTabs, F!Compared(i) PROVE FInv'
    <2> DEFINE c == net[i].rec
               right == net[i].guess = c
               e == FGone(i, IF right THEN "matched" ELSE "refused")
               counted == ~(right \/ c \notin db.codes)
    <2>1. net[i].op = "reset" /\ net[i].at = "read" /\ net' = [net EXCEPT ![i] = e]
          /\ UNCHANGED ui
        BY <1>11, FGoes DEF F!Compared
    <2>2. db' = [db EXCEPT !.guesses[c] = @ + 1,
                           !.tries[c] = IF right \/ c \notin db.codes THEN @ ELSE @ + 1]
        BY <1>11 DEF F!Compared
    <2>3. net[i] \in [op : {"reset"}, at : {"sent", "read", "matched", "done", "refused"},
                      email : F!Emails, guess : Nat, rec : Codes \cup {0}]
        BY <2>1, FKinds
    <2>4. c \in Codes /\ c <= db.issued BY <2>1 DEF FInv, FHolds
    <2>5. e \in F!CallType /\ e.op = "reset" /\ e.rec = c
          /\ e.at = IF right THEN "matched" ELSE "refused"
        BY <2>3 DEF F!CallType, FGone
    <2>6. FRead(net[i], c) /\ ~FRead(e, c) /\ ~FMatch(net[i], c) /\ (right <=> FMatch(e, c))
        BY <2>1, <2>5 DEF FRead, FMatch
    <2>7. \A d \in Codes \ {c} : /\ ~FRead(net[i], d) /\ ~FRead(e, d)
                                /\ ~FMatch(net[i], d) /\ ~FMatch(e, d)
        BY <2>5 DEF FRead, FMatch
    <2> HIDE DEF c, e, right
    <2>8. db.guesses[c] \in Nat /\ db.tries[c] \in Nat /\ FBounded(db, net, c) /\ c \in Nat
        BY <2>4, FNumbers DEF F!ServerType, FInv
    <2>9. /\ FReads(net', c) = FReads(net, c) \ {i} /\ i \in FReads(net, c)
          /\ i \notin FMatches(net, c)
          /\ FMatches(net', c) = IF right THEN FMatches(net, c) \cup {i} ELSE FMatches(net, c) \ {i}
        BY <2>1, <2>6, FMoves
    <2>10. /\ Cardinality(FReads(net', c)) = Cardinality(FReads(net, c)) - 1
           /\ Cardinality(FMatches(net', c)) = Cardinality(FMatches(net, c)) + IF right THEN 1 ELSE 0
        <3>1. Cardinality(FReads(net', c)) = Cardinality(FReads(net, c)) - 1
            BY <2>9, FCounts, FS_RemoveElement
        <3>2. CASE right
            <4>1. FMatches(net', c) = FMatches(net, c) \cup {i} BY <2>9, <3>2
            <4>2. Cardinality(FMatches(net', c)) = Cardinality(FMatches(net, c)) + 1
                BY <2>9, <4>1, FCounts, FS_AddElement
            <4> QED BY <3>1, <3>2, <4>2
        <3>3. CASE ~right
            <4>1. FMatches(net', c) = FMatches(net, c) BY <2>9, <3>3
            <4>2. Cardinality(FMatches(net, c)) + 0 = Cardinality(FMatches(net, c))
                BY FCounts
            <4> QED BY <3>1, <3>3, <4>1, <4>2
        <3> QED BY <3>2, <3>3
    <2> DEFINE tried == IF counted THEN db.tries[c] + 1 ELSE db.tries[c]
    <2>11. /\ db.guesses[c] + 1 + Cardinality(FReads(net', c)) <= F!Bound
           /\ tried <= db.guesses[c] + 1
           /\ c \in db.codes => db.guesses[c] + 1 <= tried + Cardinality(FMatches(net', c))
        BY <2>8, <2>10, FCounts, FNumbers DEF FBounded
    <2>12. tried \in 0..F!Bound BY <2>8, <2>11, FCounts, FNumbers
    <2>13. db' \in F!ServerType /\ db'.codes = db.codes /\ db'.issued = db.issued
          /\ db'.guesses[c] = db.guesses[c] + 1 /\ db'.tries[c] = tried
          /\ \A d \in Codes \ {c} : db'.guesses[d] = db.guesses[d] /\ db'.tries[d] = db.tries[d]
        <3>1. /\ db'.guesses = [db.guesses EXCEPT ![c] = db.guesses[c] + 1]
              /\ db'.tries = [db.tries EXCEPT ![c] = tried]
              /\ db'.codes = db.codes /\ db'.issued = db.issued /\ db'.young = db.young
              /\ DOMAIN db' = DOMAIN db
              /\ db' = [codes |-> db.codes, tries |-> db'.tries, young |-> db.young,
                        issued |-> db.issued, guesses |-> db'.guesses]
            BY <2>2, <2>4 DEF F!ServerType
        <3> HIDE DEF tried, counted
        <3>2. db'.guesses \in [Codes -> Nat] /\ db'.tries \in [Codes -> 0..F!Bound]
            BY <2>4, <2>8, <2>12, <3>1 DEF F!ServerType
        <3>3. db' \in F!ServerType BY <3>1, <3>2 DEF F!ServerType
        <3> QED BY <2>4, <3>1, <3>3 DEF F!ServerType
    <2>14. F!TypeOK' BY <2>1, <2>5, <2>13 DEF F!TypeOK
    <2>15. FHolds(e) BY <2>4, <2>5 DEF FHolds
    <2>16. \A j \in CallTabs : FHolds(net[j])'
        BY <2>1, <2>5, <2>13, <2>15 DEF FInv, FHolds
    <2>17. FBounded(db', net', c)
        BY <2>4, <2>8, <2>11, <2>13 DEF FBounded
    <2>18. ASSUME NEW d \in Codes \ {c} PROVE FBounded(db', net', d)
        <3>1. FReads(net', d) = FReads(net, d) /\ FMatches(net', d) = FMatches(net, d)
            BY <2>1, <2>7, FStays
        <3> QED BY <2>13, <3>1 DEF FInv, FBounded
    <2>19. \A d \in db'.codes : d <= db'.issued BY <2>13 DEF FInv
    <2> QED BY <2>14, <2>16, <2>17, <2>18, <2>19 DEF FInv
<1>12. ASSUME NEW i \in CallTabs, F!ResetDone(i) PROVE FInv'
    <2> DEFINE e == FGone(i, "done")
    <2>1. net[i].op = "reset" /\ net[i].at = "matched" /\ net' = [net EXCEPT ![i] = e]
          /\ UNCHANGED ui
        BY <1>12, FGoes DEF F!ResetDone
    <2>2. net[i] \in [op : {"reset"}, at : {"sent", "read", "matched", "done", "refused"},
                      email : F!Emails, guess : Nat, rec : Codes \cup {0}]
        BY <2>1, FKinds
    <2>3. e \in F!CallType /\ e.op = "reset" /\ e.at = "done"
        BY <2>2 DEF F!CallType, FGone
    <2> HIDE DEF e
    <2>4. \A c \in Codes : ~FRead(net[i], c) /\ ~FRead(e, c)
        BY <2>1, <2>3 DEF FRead
    <2>5. db' \in F!ServerType /\ db'.guesses = db.guesses /\ db'.tries = db.tries
          /\ db'.issued = db.issued /\ db'.codes = {}
        BY <1>12 DEF F!ResetDone, F!ServerType
    <2>6. F!TypeOK' BY <2>1, <2>3, <2>5 DEF F!TypeOK
    <2>7. \A j \in CallTabs : FHolds(net[j])'
        BY <2>1, <2>3, <2>5 DEF FInv, FHolds
    <2>8. ASSUME NEW c \in Codes PROVE FBounded(db', net', c)
        <3>1. FReads(net', c) = FReads(net, c) BY <2>1, <2>4, FStays
        <3> QED BY <2>5, <3>1 DEF FInv, FBounded
    <2> QED BY <2>5, <2>6, <2>7, <2>8 DEF FInv
<1>13. ASSUME NEW i \in CallTabs, NEW arrived \in BOOLEAN, F!Answered(i, arrived) PROVE FInv'
    <2>1. net[i].at \in {"sent", "done", "refused"} /\ net' = [net EXCEPT ![i] = F!NoCall]
          /\ UNCHANGED db
        BY <1>13 DEF F!Answered, F!Ended
    <2>2. ui' \in F!PageType
        BY <1>13 DEF F!Answered, F!PageType
    <2>3. \A c \in Codes : /\ ~FRead(net[i], c) /\ ~FMatch(net[i], c)
                          /\ ~FRead(F!NoCall, c) /\ ~FMatch(F!NoCall, c)
        BY <2>1, FCalls DEF FRead, FMatch
    <2>4. FHolds(F!NoCall) BY FCalls DEF FHolds
    <2> QED BY <1>b, <2>1, <2>2, <2>3, <2>4, FCalls, FQuiet
<1> QED BY <1>1, <1>2, <1>3, <1>4, <1>5, <1>6, <1>7, <1>8, <1>9, <1>10, <1>11, <1>12, <1>13
        DEF F!Next

\* The invariant holds whenever the page is shown.
LEMMA FAlways == Spec => [](page = "recovery" => FInv)
<1>1. Init => (page = "recovery" => FInv) BY FInit DEF Init
<1>2. (page = "recovery" => FInv) /\ [Next]_vars => (page = "recovery" => FInv)'
    <2> SUFFICES ASSUME page = "recovery" => FInv, [Next]_vars, page' = "recovery" PROVE FInv'
        OBVIOUS
    <2>1. CASE UNCHANGED vars
        BY <2>1, FPage, FTypes DEF vars
    <2> QED BY <2>1, FStep DEF Next
<1> QED BY <1>1, <1>2, PTL DEF Spec

\* handler/auth.go: counting a wrong guess and comparing one are two statements,
\* so calls that overlap get in more guesses than the attempts allowed, but no
\* more than one each; reset and expiry in between change nothing about it.
THEOREM GuessesAreBounded == Spec => []GuessesBounded
<1>1. ASSUME FInv PROVE F!GuessesBounded
    <2>1. \A c \in Codes : db.guesses[c] \in Nat BY <1>1, FTypes DEF F!ServerType
    <2> QED BY <1>1, <2>1, FCounts, FNumbers DEF F!GuessesBounded, FInv, FBounded
<1> QED BY <1>1, FAlways, PTL DEF GuessesBounded

-----------------------------------------------------------------------------
(* App.tsx and pages/Setup.tsx: what SetupWizardProofs shows of the wizard.  *)

WP == INSTANCE SetupWizardProofs WITH Tabs <- SetupTabs

\* The instances of Console and of this module are the same wizard.
LEMMA WSame == (W!Init <=> WP!Init) /\ (W!Next <=> WP!Next)
<1>1. W!Init <=> WP!Init
    BY DEF W!Init, WP!Init, W!Mounted, WP!Mounted, W!Asks, WP!Asks, W!Routes, WP!Routes,
           W!Checked, WP!Checked
<1>2. ASSUME NEW t PROVE /\ W!Reload(t) <=> WP!Reload(t)
                         /\ W!Redirect(t) <=> WP!Redirect(t)
                         /\ W!Completed(t) <=> WP!Completed(t)
    BY DEF W!Reload, WP!Reload, W!Redirect, WP!Redirect, W!Completed, WP!Completed,
           W!Mounted, WP!Mounted, W!Asks, WP!Asks, W!Checked, WP!Checked
<1>3. ASSUME NEW t PROVE /\ W!Edit(t) <=> WP!Edit(t)
                         /\ W!NextStep(t) <=> WP!NextStep(t)
                         /\ W!BackStep(t) <=> WP!BackStep(t)
                         /\ W!TestSMTP(t) <=> WP!TestSMTP(t)
                         /\ W!TestEnds(t) <=> WP!TestEnds(t)
                         /\ W!Complete(t) <=> WP!Complete(t)
    BY DEF W!Edit, WP!Edit, W!NextStep, WP!NextStep, W!BackStep, WP!BackStep, W!TestSMTP,
           WP!TestSMTP, W!TestEnds, WP!TestEnds, W!Complete, WP!Complete, W!Wizard, WP!Wizard,
           W!Checked, WP!Checked
<1>4. ASSUME NEW t PROVE /\ W!Refuse(t) <=> WP!Refuse(t)
                         /\ W!PassChecks(t) <=> WP!PassChecks(t)
                         /\ W!CreateAdmin(t) <=> WP!CreateAdmin(t)
                         /\ W!NotCompleted(t) <=> WP!NotCompleted(t)
    BY DEF W!Refuse, WP!Refuse, W!PassChecks, WP!PassChecks, W!CreateAdmin, WP!CreateAdmin,
           W!NotCompleted, WP!NotCompleted, W!Needed, WP!Needed, W!NoCall, WP!NoCall,
           W!Checked, WP!Checked
<1>5. ASSUME NEW t, NEW yes PROVE /\ W!ServeStatus(t, yes) <=> WP!ServeStatus(t, yes)
                                  /\ W!StatusAnswered(t, yes) <=> WP!StatusAnswered(t, yes)
                                  /\ W!StoreSettings(t, yes) <=> WP!StoreSettings(t, yes)
    BY DEF W!ServeStatus, WP!ServeStatus, W!StatusAnswered, WP!StatusAnswered,
           W!StoreSettings, WP!StoreSettings, W!Needed, WP!Needed, W!NoCall, WP!NoCall,
           W!Checked, WP!Checked
<1>6. W!Elsewhere <=> WP!Elsewhere BY DEF W!Elsewhere, WP!Elsewhere, W!Needed, WP!Needed
<1> QED BY <1>1, <1>2, <1>3, <1>4, <1>5, <1>6 DEF W!Next, WP!Next

\* A console that shows the wizard behaves as the wizard does, and one that
\* does not never will.
LEMMA WIsWizard == Spec /\ page = "setup" => WP!Spec
<1>1. Init /\ page = "setup" => WP!Init
    BY WSame DEF Init
<1>2. page = "setup" /\ [Next]_vars => (page = "setup")' /\ [WP!Next]_(WP!vars)
    BY WSame DEF Next, vars, WP!vars
<1> QED BY <1>1, <1>2, PTL DEF Spec, WP!Spec

\* A console that does not show the wizard never will.
LEMMA WElsewhere == Spec /\ ~(page = "setup") => []~(page = "setup")
<1>1. ~(page = "setup") /\ [Next]_vars => (~(page = "setup"))'
    BY DEF Next, vars
<1> QED BY <1>1, PTL DEF Spec

\* The wizard's type invariant holds whenever the wizard is shown.
LEMMA WAlways == Spec => [](page = "setup" => W!SetupTypeOK)
<1>1. WP!SetupTypeOK => W!SetupTypeOK
    BY DEF W!SetupTypeOK, WP!SetupTypeOK, W!Gates, WP!Gates, W!Routes, WP!Routes, W!Steps,
           WP!Steps, W!Checked, WP!Checked, W!Stages, WP!Stages
<1> QED BY <1>1, WIsWizard, WElsewhere, WP!SetupTypeCorrect, PTL

\* App.tsx: SetupBeforeLogin holds of the wizard inside the console.
THEOREM SiteNeedsSetup == Spec => []LoginImpliesSetup
<1>1. (page = "setup" => WP!LoginImpliesSetup) => LoginImpliesSetup
    BY DEF LoginImpliesSetup, W!LoginImpliesSetup, WP!LoginImpliesSetup, W!Site, WP!Site
<1> QED BY <1>1, WIsWizard, WElsewhere, WP!SetupBeforeLogin, PTL

\* pages/Setup.tsx: SubmittedValid holds of the wizard inside the console.
THEOREM WizardSendsValid == Spec => []OnlyValidSubmitted
<1>1. (page = "setup" => WP!OnlyValidSubmitted) => OnlyValidSubmitted
    BY DEF OnlyValidSubmitted, W!OnlyValidSubmitted, WP!OnlyValidSubmitted, W!Checked, WP!Checked
<1> QED BY <1>1, WIsWizard, WElsewhere, WP!SubmittedValid, PTL

-----------------------------------------------------------------------------
(* pages/ModelsPlaza.tsx                                                   *)

ZInv == Z!TypeOK /\ (~ui.stale => ui.page <= Z!TotalPages)

\* The page's module counts as this one does.
LEMMA ZCard == \A s : Z!Cardinality(s) = Cardinality(s)
BY DEF Z!Cardinality, Cardinality

\* The parts of the type invariant, and the number of models.
LEMMA ZTypes ==
    ASSUME Z!TypeOK
    PROVE  /\ db \in [PlazaModels -> SUBSET GroupNames] /\ ui \in Z!PageType
           /\ net \in SUBSET {"load"}
           /\ Cardinality(PlazaModels) \in Nat /\ Cardinality(PlazaModels) >= 1
           /\ Z!Cardinality(PlazaModels) = Cardinality(PlazaModels)
           /\ PageSize \in Nat /\ PageSize >= 1
           /\ ui.page \in Nat /\ ui.page >= 1 /\ ui.page <= Cardinality(PlazaModels)
<1>1. Cardinality(PlazaModels) \in Nat /\ Cardinality(PlazaModels) # 0
    BY PagesAssumption, FS_CardinalityType, FS_EmptySet
<1>2. Z!Cardinality(PlazaModels) = Cardinality(PlazaModels) BY ZCard
<1>3. db \in [PlazaModels -> SUBSET GroupNames] /\ ui \in Z!PageType /\ net \in SUBSET {"load"}
    BY DEF Z!TypeOK
<1>4. ui.page \in 1..Cardinality(PlazaModels) BY <1>2, <1>3 DEF Z!PageType
<1> QED BY <1>1, <1>2, <1>3, <1>4, PagesAssumption

\* The models left by the filters are finitely many, and no more than there are.
LEMMA ZMatching ==
    ASSUME Z!TypeOK
    PROVE  /\ Z!Matching \in SUBSET PlazaModels /\ IsFiniteSet(Z!Matching)
           /\ Z!Cardinality(Z!Matching) \in Nat
           /\ Z!Cardinality(Z!Matching) <= Cardinality(PlazaModels)
           /\ Z!Cardinality(Z!Matching) = Cardinality(Z!Matching)
<1>1. ui.models \in SUBSET PlazaModels BY ZTypes DEF Z!PageType
<1>2. Z!Matching \in SUBSET PlazaModels BY <1>1 DEF Z!Matching
<1>3. /\ IsFiniteSet(Z!Matching) /\ Cardinality(Z!Matching) \in Nat
      /\ Cardinality(Z!Matching) <= Cardinality(PlazaModels)
    BY <1>2, PagesAssumption, FS_Subset, FS_CardinalityType
<1> QED BY <1>2, <1>3, ZCard

\* The number of pages: at least one, at most one for each model, and enough
\* for every match.
LEMMA ZPages ==
    ASSUME NEW n \in Nat, NEW size \in Nat \ {0}
    PROVE  LET pages == (n + size - 1) \div size
           IN  /\ pages \in Nat /\ pages <= n /\ n <= pages * size
               /\ n >= 1 => pages >= 1 /\ (pages - 1) * size < n
<1> DEFINE pages == (n + size - 1) \div size
<1>1. pages \in Int /\ pages * size <= n + size - 1 /\ n + size - 1 < (pages + 1) * size
    OBVIOUS
<1> QED BY <1>1

\* The order of the catalogue is a strict order in which any two models compare.
LEMMA ZOrder ==
    /\ \A m, n \in Nat : m # n => Z!Before(m, n) \/ Z!Before(n, m)
    /\ \A m, n, k \in Nat : Z!Before(m, n) /\ Z!Before(n, k) => Z!Before(m, k)
BY DEF Z!Before

\* Some model of a set stands behind all the others.
LEMMA ZLast ==
    ASSUME NEW X \in SUBSET PlazaModels, X # {}
    PROVE  \E m \in X : \A n \in X \ {m} : Z!Before(n, m)
<1> DEFINE Good == {A \in SUBSET X : A # {} => \E m \in A : \A n \in A \ {m} : Z!Before(n, m)}
<1>0. X \in SUBSET Nat /\ IsFiniteSet(X) BY PagesAssumption, FS_Subset
<1>1. ASSUME NEW A \in SUBSET X, A # {}, \A x \in A : A \ {x} \in Good
      PROVE  A \in Good
    <2>1. PICK x \in A : TRUE BY <1>1
    <2>2. CASE A \ {x} = {} BY <2>1, <2>2
    <2>3. CASE A \ {x} # {}
        <3>1. PICK m \in A \ {x} : \A n \in (A \ {x}) \ {m} : Z!Before(n, m)
            BY <1>1, <2>1, <2>3
        <3>2. CASE Z!Before(x, m) BY <3>1, <3>2
        <3>3. CASE Z!Before(m, x)
            <4>1. \A n \in A \ {x} : Z!Before(n, x) BY <1>0, <3>1, <3>3, ZOrder
            <4> QED BY <4>1
        <3>4. m # x /\ m \in Nat /\ x \in Nat BY <1>0
        <3> QED BY <3>2, <3>3, <3>4, ZOrder
    <2> QED BY <2>2, <2>3
<1>2. Good \in SUBSET (SUBSET X) /\ {} \in Good OBVIOUS
<1> HIDE DEF Good
<1>3. X \in Good BY <1>0, <1>1, <1>2, SubsetInduction
<1> QED BY <1>3 DEF Good

\* Every set of models can be listed in that order.
ZLists(rows, X) ==
    /\ rows \in [1..Cardinality(X) -> X]
    /\ \A i, j \in 1..Cardinality(X) : i < j => Z!Before(rows[i], rows[j])

\* Every set of models can be listed in that order.
LEMMA ZSorts ==
    ASSUME NEW X \in SUBSET PlazaModels PROVE \E rows : ZLists(rows, X)
<1> DEFINE Good == {A \in SUBSET X : \E rows : ZLists(rows, A)}
<1>0. IsFiniteSet(X) BY PagesAssumption, FS_Subset
<1>1. ASSUME NEW A \in SUBSET X, A # {}, \A x \in A : A \ {x} \in Good
      PROVE  A \in Good
    <2>1. PICK m \in A : \A n \in A \ {m} : Z!Before(n, m) BY <1>1, ZLast
    <2>2. PICK rows : ZLists(rows, A \ {m}) BY <1>1, <2>1
    <2> DEFINE k == Cardinality(A \ {m})
               all == [i \in 1..Cardinality(A) |-> IF i = Cardinality(A) THEN m ELSE rows[i]]
    <2>3. IsFiniteSet(A) /\ k \in Nat /\ Cardinality(A) = k + 1
        <3>1. IsFiniteSet(A) BY <1>0, FS_Subset
        <3>2. Cardinality(A) \in Nat /\ k \in Nat
            BY <3>1, FS_CardinalityType, FS_RemoveElement
        <3>3. k = Cardinality(A) - 1 BY <2>1, <3>1, FS_RemoveElement
        <3> QED BY <3>1, <3>2, <3>3
    <2>4. \A i \in 1..k : rows[i] \in A \ {m} BY <2>2 DEF ZLists
    <2>5. \A i \in 1..Cardinality(A) : i = k + 1 \/ i \in 1..k BY <2>3
    <2> HIDE DEF k
    <2>6. all \in [1..Cardinality(A) -> A] BY <2>1, <2>3, <2>4, <2>5
    <2>7. ASSUME NEW i \in 1..Cardinality(A), NEW j \in 1..Cardinality(A), i < j
          PROVE  Z!Before(all[i], all[j])
        <3>1. i \in 1..k /\ i # k + 1 BY <2>3, <2>5, <2>7
        <3>2. all[i] = rows[i] BY <2>3, <3>1
        <3>3. CASE j = k + 1
            <4>1. all[j] = m BY <2>3, <3>3
            <4> QED BY <2>1, <2>4, <3>1, <3>2, <4>1
        <3>4. CASE j # k + 1
            <4>1. j \in 1..k /\ all[j] = rows[j] BY <2>3, <2>5, <3>4
            <4> QED BY <2>2, <2>7, <3>1, <3>2, <4>1 DEF ZLists, k
        <3> QED BY <3>3, <3>4
    <2>8. ZLists(all, A) BY <2>6, <2>7 DEF ZLists
    <2> QED BY <2>8
<1>2. Good \in SUBSET (SUBSET X) OBVIOUS
<1>3. {} \in Good
    <2>1. ZLists([i \in 1..0 |-> i], {}) BY FS_EmptySet DEF ZLists
    <2> QED BY <2>1
<1> HIDE DEF Good
<1>4. X \in Good BY <1>0, <1>1, <1>2, <1>3, SubsetInduction
<1> QED BY <1>4 DEF Good

\* The rows are the matches, in order.
LEMMA ZRows ==
    ASSUME Z!TypeOK PROVE ZLists(Z!Filtered, Z!Matching)
<1>1. PICK rows : ZLists(rows, Z!Matching) BY ZMatching, ZSorts
<1>2. \E r \in [1..Z!Cardinality(Z!Matching) -> Z!Matching] :
         \A i, j \in DOMAIN r : i < j => Z!Before(r[i], r[j])
    BY <1>1, ZMatching DEF ZLists
<1>3. /\ Z!Filtered \in [1..Z!Cardinality(Z!Matching) -> Z!Matching]
      /\ \A i, j \in DOMAIN Z!Filtered : i < j => Z!Before(Z!Filtered[i], Z!Filtered[j])
    BY <1>2 DEF Z!Filtered
<1> QED BY <1>3, ZMatching DEF ZLists

\* How many pages there are.
LEMMA ZTotal ==
    ASSUME Z!TypeOK
    PROVE  /\ Z!TotalPages \in Nat /\ Z!TotalPages >= 1
           /\ Z!TotalPages <= Cardinality(PlazaModels)
           /\ Z!Matching # {} =>
                 (Z!TotalPages - 1) * PageSize < Z!Cardinality(Z!Matching)
<1> DEFINE n == Z!Cardinality(Z!Matching)
           pages == (n + PageSize - 1) \div PageSize
<1>1. n \in Nat /\ n <= Cardinality(PlazaModels) /\ (Z!Matching # {} => n >= 1)
    <2>1. Z!Matching # {} => Cardinality(Z!Matching) # 0 BY ZMatching, FS_EmptySet
    <2> QED BY <2>1, ZMatching
<1>2. Cardinality(PlazaModels) \in Nat /\ Cardinality(PlazaModels) >= 1 BY ZTypes
<1>3. Z!TotalPages = IF pages > 1 THEN pages ELSE 1 BY DEF Z!TotalPages
<1> HIDE DEF n
<1>4. /\ pages \in Nat /\ pages <= n
      /\ n >= 1 => pages >= 1 /\ (pages - 1) * PageSize < n
    BY <1>1, PagesAssumption, ZPages
<1> HIDE DEF pages
<1>5. n >= 1 => Z!TotalPages = pages BY <1>3, <1>4
<1> QED BY <1>1, <1>2, <1>3, <1>4, <1>5 DEF n

\* The same lower bound in the next state.
LEMMA ZSome ==
    ASSUME Z!TypeOK' PROVE Z!TotalPages' \in Nat /\ Z!TotalPages' >= 1
<1> DEFINE n == Z!Cardinality(Z!Matching')
           pages == (n + PageSize - 1) \div PageSize
<1>1. Z!Matching' \in SUBSET PlazaModels BY DEF Z!TypeOK, Z!PageType, Z!Matching
<1>2. n \in Nat BY <1>1, PagesAssumption, FS_Subset, FS_CardinalityType, ZCard
<1>3. Z!TotalPages' = IF pages > 1 THEN pages ELSE 1 BY DEF Z!TotalPages
<1> HIDE DEF n
<1>4. pages \in Nat BY <1>2, PagesAssumption, ZPages
<1> HIDE DEF pages
<1> QED BY <1>3, <1>4

\* An empty catalogue has one page.
LEMMA ZNone == ASSUME Z!Matching = {} PROVE Z!TotalPages = 1
<1> DEFINE pages == (0 + PageSize - 1) \div PageSize
<1>1. Z!Cardinality(Z!Matching) = 0 BY ZCard, FS_EmptySet
<1>2. Z!TotalPages = IF pages > 1 THEN pages ELSE 1 BY <1>1 DEF Z!TotalPages
<1>3. pages \in Nat /\ pages <= 0 BY PagesAssumption, ZPages
<1> HIDE DEF pages
<1> QED BY <1>2, <1>3

\* The invariant holds when the page opens.
LEMMA ZInit == ASSUME Z!Init PROVE ZInv
<1>1. Cardinality(PlazaModels) \in Nat /\ Cardinality(PlazaModels) >= 1
    <2>1. Cardinality(PlazaModels) \in Nat /\ Cardinality(PlazaModels) # 0
        BY PagesAssumption, FS_CardinalityType, FS_EmptySet
    <2> QED BY <2>1
<1>2. 1 \in 1..Z!Cardinality(PlazaModels) BY <1>1, ZCard
<1>3. ui \in Z!PageType
    <2> DEFINE top == Z!Cardinality(PlazaModels)
    <2>1. 1 \in 1..top BY <1>2
    <2>2. 0 \in 0..2 /\ {} \in {{}, PlazaModels} OBVIOUS
    <2> HIDE DEF top
    <2> QED BY <2>1, <2>2 DEF Z!Init, Z!PageType, top
<1>4. Z!TypeOK BY <1>3 DEF Z!Init, Z!TypeOK
<1>5. Z!TotalPages >= 1 /\ ui.page = 1
    BY <1>4, ZTotal DEF Z!Init
<1> QED BY <1>4, <1>5 DEF ZInv

\* Nothing the filters look at changes: neither do the rows.
LEMMA ZSame ==
    ASSUME UNCHANGED db, ui'.models = ui.models, ui'.q = ui.q, ui'.group = ui.group,
           ui'.sort = ui.sort
    PROVE  UNCHANGED <<Z!Matching, Z!TotalPages>>
BY DEF Z!Matching, Z!TotalPages

\* Every action of the page keeps the invariant.
LEMMA ZStep == ASSUME ZInv, Z!Next PROVE ZInv'
<1>0. /\ Z!TypeOK /\ ui \in Z!PageType /\ net \in SUBSET {"load"}
      /\ db \in [PlazaModels -> SUBSET GroupNames]
      /\ ui.page \in Nat /\ ui.page >= 1 /\ 1 \in 1..Z!Cardinality(PlazaModels)
      /\ Z!Cardinality(PlazaModels) = Cardinality(PlazaModels)
      /\ Cardinality(PlazaModels) \in Nat
    BY ZTypes DEF ZInv
<1>a. ASSUME ui' \in Z!PageType, UNCHANGED <<db, net>> PROVE Z!TypeOK'
    BY <1>0, <1>a DEF Z!TypeOK
<1>1. ASSUME NEW end \in {"answered", "sign_in", "failed"}, Z!Loaded(end) PROVE ZInv'
    <2>1. ui' \in Z!PageType BY <1>0, <1>1 DEF Z!Loaded, Z!PageType
    <2>2. Z!TypeOK' BY <1>0, <1>1, <2>1 DEF Z!Loaded, Z!TypeOK
    <2>3. ui'.page = ui.page /\ ui'.stale = ui.stale /\ ui'.q = ui.q /\ ui'.group = ui.group
          /\ ui'.sort = ui.sort /\ UNCHANGED db
        BY <1>0, <1>1 DEF Z!Loaded, Z!PageType
    <2>4. ui.models = {} \/ ui.models = PlazaModels BY <1>0 DEF Z!PageType
    <2>5. ui'.models = ui.models \/ ui'.models = PlazaModels
        BY <1>0, <1>1 DEF Z!Loaded, Z!PageType
    <2>6. CASE ui'.models = ui.models
        BY <2>2, <2>3, <2>6, ZSame DEF ZInv
    <2>7. CASE ui.models = {}
        <3>1. Z!Matching = {} BY <2>7 DEF Z!Matching
        <3>2. Z!TotalPages = 1 BY <3>1, ZNone
        <3>3. Z!TotalPages' \in Nat /\ Z!TotalPages' >= 1 BY <2>2, ZSome
        <3>4. ~ui'.stale => ui'.page <= 1 BY <1>0, <2>3, <3>2 DEF ZInv
        <3>5. ui'.page \in Nat BY <1>0, <2>3
        <3>6. ASSUME ~ui'.stale PROVE ui'.page <= Z!TotalPages'
            <4>1. ui'.page <= 1 BY <3>4, <3>6
            <4> QED BY <3>3, <3>5, <4>1
        <3> QED BY <2>2, <3>6 DEF ZInv
    <2> QED BY <2>4, <2>5, <2>6, <2>7
<1>2. ASSUME NEW q \in {"", "text"}, NEW group \in GroupNames \cup {""},
             NEW sort \in {"name", "price"}, Z!Narrow(q, group, sort)
      PROVE  ZInv'
    <2>1. ui' \in Z!PageType BY <1>0, <1>2 DEF Z!Narrow, Z!PageType
    <2>2. ui'.stale = TRUE BY <1>0, <1>2 DEF Z!Narrow, Z!PageType
    <2>3. Z!TypeOK' BY <1>a, <1>2, <2>1 DEF Z!Narrow
    <2> QED BY <2>2, <2>3 DEF ZInv
<1>3. CASE Z!ResetPage
    <2>1. 1 \in 1..Z!Cardinality(PlazaModels) BY <1>0
    <2>2. ui' \in Z!PageType BY <1>0, <1>3, <2>1 DEF Z!ResetPage, Z!PageType
    <2>3. ui'.page = 1 BY <1>0, <1>3 DEF Z!ResetPage, Z!PageType
    <2>4. Z!TypeOK' BY <1>a, <1>3, <2>2 DEF Z!ResetPage
    <2>5. Z!TotalPages' \in Nat /\ Z!TotalPages' >= 1 BY <2>4, ZSome
    <2> QED BY <2>3, <2>4, <2>5 DEF ZInv
<1>4. ASSUME NEW to \in 1..Z!TotalPages, Z!Turn(to) PROVE ZInv'
    <2>1. Z!TotalPages \in Nat /\ Z!TotalPages <= Cardinality(PlazaModels) BY <1>0, ZTotal
    <2>2. to \in 1..Z!Cardinality(PlazaModels) BY <1>0, <2>1
    <2>3. ui' \in Z!PageType BY <1>0, <1>4, <2>2 DEF Z!Turn, Z!PageType
    <2>4. ui'.page = to /\ ui'.models = ui.models /\ ui'.q = ui.q /\ ui'.group = ui.group
          /\ ui'.sort = ui.sort /\ UNCHANGED <<db, net>>
        BY <1>0, <1>4 DEF Z!Turn, Z!PageType
    <2>5. Z!TotalPages' = Z!TotalPages BY <2>4, ZSame
    <2>6. to <= Z!TotalPages BY <2>1
    <2> QED BY <1>a, <2>3, <2>4, <2>5, <2>6 DEF ZInv
<1>5. ASSUME UNCHANGED <<db, net>>, ui' \in Z!PageType, ui'.models = ui.models, ui'.q = ui.q,
             ui'.group = ui.group, ui'.sort = ui.sort, ui'.page = ui.page, ui'.stale = ui.stale
      PROVE  ZInv'
    BY <1>a, <1>5, ZSame DEF ZInv
<1>6. ASSUME NEW view \in {"cards", "table"}, Z!View(view) PROVE ZInv'
    BY <1>0, <1>5, <1>6 DEF Z!View, Z!PageType
<1>7. ASSUME NEW m \in PlazaModels, Z!Copy(m) PROVE ZInv'
    <2>1. ui' = [ui EXCEPT !.copied = m, !.marks = @ + 1] /\ ui.marks < 2 /\ UNCHANGED <<db, net>>
        BY <1>7 DEF Z!Copy
    <2>2. ui.marks \in 0..2 /\ m \in PlazaModels \cup {0} BY <1>0 DEF Z!PageType
    <2>3. ui.marks + 1 \in 0..2 BY <2>1, <2>2
    <2>4. ui' \in Z!PageType BY <1>0, <2>1, <2>2, <2>3 DEF Z!PageType
    <2> QED BY <1>0, <1>5, <2>1, <2>4 DEF Z!PageType
<1>8. ASSUME NEW m \in PlazaModels, Z!ShowDetail(m) PROVE ZInv'
    BY <1>0, <1>5, <1>8 DEF Z!ShowDetail, Z!PageType
<1>9. CASE Z!MarkExpires
    <2>1. ui' = [ui EXCEPT !.copied = 0, !.marks = @ - 1] /\ ui.marks > 0 /\ UNCHANGED <<db, net>>
        BY <1>9 DEF Z!MarkExpires
    <2>2. ui.marks \in 0..2 /\ 0 \in PlazaModels \cup {0} BY <1>0 DEF Z!PageType
    <2>3. ui.marks - 1 \in 0..2 BY <2>1, <2>2
    <2>4. ui' \in Z!PageType BY <1>0, <2>1, <2>2, <2>3 DEF Z!PageType
    <2> QED BY <1>0, <1>5, <2>1, <2>4 DEF Z!PageType
<1>10. CASE Z!CloseDetail
    BY <1>0, <1>5, <1>10 DEF Z!CloseDetail, Z!PageType
<1> QED BY <1>1, <1>2, <1>3, <1>4, <1>6, <1>7, <1>8, <1>9, <1>10 DEF Z!Next

\* The invariant holds whenever the page is shown.
LEMMA ZAlways == Spec => [](page = "plaza" => ZInv)
<1>1. Init => (page = "plaza" => ZInv) BY ZInit DEF Init
<1>2. (page = "plaza" => ZInv) /\ [Next]_vars => (page = "plaza" => ZInv)'
    <2> SUFFICES ASSUME page = "plaza" => ZInv, [Next]_vars, page' = "plaza" PROVE ZInv'
        OBVIOUS
    <2>1. CASE UNCHANGED vars
        BY <2>1 DEF vars, ZInv, Z!TypeOK, Z!TotalPages, Z!Matching
    <2> QED BY <2>1, ZStep DEF Next
<1> QED BY <1>1, <1>2, PTL DEF Spec

\* Once the effects have run, a catalogue with matches shows some of them: the
\* page number never points past the rows the filters left.
THEOREM MatchesStayInSight == Spec => []MatchesAreShown
<1>1. ASSUME ZInv PROVE Z!MatchesAreShown
    <2> SUFFICES ASSUME ~ui.stale, Z!Matching # {} PROVE Z!PageItems # {}
        BY DEF Z!MatchesAreShown
    <2> DEFINE n == Z!Cardinality(Z!Matching)
               k == (ui.page - 1) * PageSize + 1
    <2>1. Z!TypeOK BY <1>1 DEF ZInv
    <2>2. ui.page \in Nat /\ ui.page >= 1 /\ PageSize \in Nat /\ PageSize >= 1 BY <2>1, ZTypes
    <2>3. Z!TotalPages \in Nat /\ ui.page <= Z!TotalPages BY <1>1, <2>1, ZTotal DEF ZInv
    <2>4. (Z!TotalPages - 1) * PageSize < n /\ n \in Nat BY <2>1, ZTotal, ZMatching
    <2>5. (ui.page - 1) * PageSize <= (Z!TotalPages - 1) * PageSize BY <2>2, <2>3
    <2>6. k \in 1..n /\ k > (ui.page - 1) * PageSize /\ k <= ui.page * PageSize
        BY <2>2, <2>3, <2>4, <2>5
    <2> HIDE DEF k
    <2>7. Z!Filtered[k] \in Z!PageItems BY <2>6 DEF Z!PageItems
    <2> QED BY <2>7
<1>2. (page = "plaza" => ZInv) => MatchesAreShown BY <1>1 DEF MatchesAreShown
<1> QED BY <1>2, ZAlways, PTL

-----------------------------------------------------------------------------
(* All pages.                                                              *)

\* Whatever page is shown, its server, its page and its calls are of the types
\* its module gives them: no list, counter or stage leaves its range.
THEOREM PagesAreTyped == Spec => []TypeOK
<1> DEFINE Lists == /\ page = "users" => UInv
                    /\ page = "channels" => HInv
                    /\ page = "keys" => KInv
                    /\ page = "models" => MInv
           Forms == /\ page = "plans" => PInv
                    /\ page = "settings" => SInv
                    /\ page = "chat" => YInv
                    /\ page = "profile" => RInv
           Others == /\ page = "recovery" => FInv
                     /\ page = "setup" => W!SetupTypeOK
                     /\ page = "plaza" => ZInv
                     /\ page = "chrome" => CInv
                     /\ page = "boards" => BInv
<1>1. Lists /\ Forms /\ Others => TypeOK
    BY DEF TypeOK, UInv, HInv, KInv, MInv, PInv, SInv, YInv, RInv, FInv, ZInv, CInv, BInv
<1>2. Spec => []Lists BY UAlways, HAlways, KAlways, MAlways, PTL
<1>3. Spec => []Forms BY PAlways, SAlways, YAlways, RAlways, PTL
<1>4. Spec => []Others BY FAlways, WAlways, ZAlways, CAlways, BAlways, PTL
<1> HIDE DEF Lists, Forms, Others
<1> QED BY <1>1, <1>2, <1>3, <1>4, PTL
=============================================================================
