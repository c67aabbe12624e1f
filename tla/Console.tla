------------------------------ MODULE Console -------------------------------
(***************************************************************************)
(* The console shows one page at a time.  Each page is a module of its     *)
(* own; the constants here are theirs.                                     *)
(***************************************************************************)
EXTENDS Naturals, FiniteSets

CONSTANTS
    Slots,                    \* calls a page may have in flight
    Ids, LastPage,            \* UsersPage
    Channels,                 \* ChannelsPage
    TokenIds,                 \* KeysPage
    ModelNames,               \* ModelsPage
    PlanIds, Fillings,        \* PlansPage
    Questions,                \* Playground
    Credentials,              \* ProfilePage
    Codes, MaxAttempts, CallTabs,     \* RecoveryPage
    SetupTabs,                \* SetupWizard
    PlazaModels, Named, Unpriced, GroupNames, PageSize,     \* PlazaPage
    Sources, MaxLoads         \* Boards

\* Ids are positive: 0 stands for none.  A new page starts its lists at the
\* first id, and no model is called what stands for "no price" or "typed in".
ASSUME ListsAssumption ==
    /\ Slots # {}
    /\ Ids \subseteq Nat \ {0} /\ IsFiniteSet(Ids) /\ LastPage \in Nat \ {0}
    /\ Channels \subseteq Nat \ {0}
    /\ TokenIds \subseteq Nat \ {0}
    /\ ModelNames \cap {"none", "typed"} = {}
    /\ PlanIds \subseteq Nat \ {0} /\ 1 \in PlanIds /\ Fillings \subseteq Nat \ {0}

ASSUME PagesAssumption ==
    /\ Questions \subseteq Nat \ {0}
    /\ Credentials \subseteq Nat \ {0} /\ 1 \in Credentials
    /\ Codes \subseteq Nat \ {0} /\ MaxAttempts \in Nat \ {0}
    /\ IsFiniteSet(CallTabs) /\ 1 \in CallTabs
    /\ PlazaModels \subseteq Nat \ {0} /\ PlazaModels # {} /\ IsFiniteSet(PlazaModels)
    /\ PageSize \in Nat \ {0}
    /\ MaxLoads \in Nat \ {0}

VARIABLES page, db, ui, net

vars == <<page, db, ui, net>>

U == INSTANCE UsersPage WITH UserSlots <- Slots
H == INSTANCE ChannelsPage WITH ChannelSlots <- Slots
K == INSTANCE KeysPage WITH KeySlots <- Slots
M == INSTANCE ModelsPage WITH Models <- ModelNames, ModelSlots <- Slots
P == INSTANCE PlansPage WITH PlanSlots <- Slots
S == INSTANCE SettingsPage
Y == INSTANCE Playground
R == INSTANCE ProfilePage WITH ProfileSlots <- Slots
F == INSTANCE RecoveryPage WITH Tabs <- CallTabs
W == INSTANCE SetupWizard WITH Tabs <- SetupTabs
Z == INSTANCE PlazaPage WITH Models <- PlazaModels
C == INSTANCE ConsoleChrome
B == INSTANCE Boards

Init ==
    \/ page = "users" /\ U!Init
    \/ page = "channels" /\ H!Init
    \/ page = "keys" /\ K!Init
    \/ page = "models" /\ M!Init
    \/ page = "plans" /\ P!Init
    \/ page = "settings" /\ S!Init
    \/ page = "chat" /\ Y!Init
    \/ page = "profile" /\ R!Init
    \/ page = "recovery" /\ F!Init
    \/ page = "setup" /\ W!Init
    \/ page = "plaza" /\ Z!Init
    \/ page = "chrome" /\ C!Init
    \/ page = "boards" /\ B!Init

Next ==
    \/ page = "users" /\ U!Next /\ UNCHANGED page
    \/ page = "channels" /\ H!Next /\ UNCHANGED page
    \/ page = "keys" /\ K!Next /\ UNCHANGED page
    \/ page = "models" /\ M!Next /\ UNCHANGED page
    \/ page = "plans" /\ P!Next /\ UNCHANGED page
    \/ page = "settings" /\ S!Next /\ UNCHANGED page
    \/ page = "chat" /\ Y!Next /\ UNCHANGED page
    \/ page = "profile" /\ R!Next /\ UNCHANGED page
    \/ page = "recovery" /\ F!Next /\ UNCHANGED page
    \/ page = "setup" /\ W!Next /\ UNCHANGED page
    \/ page = "plaza" /\ Z!Next /\ UNCHANGED page
    \/ page = "chrome" /\ C!Next /\ UNCHANGED page
    \/ page = "boards" /\ B!Next /\ UNCHANGED page

Spec == Init /\ [][Next]_vars

-----------------------------------------------------------------------------
(* Each property is that of a page's module, where it is explained; here it  *)
(* is asked of the page that is shown.                                       *)

\* The type invariant of whatever page is shown.
TypeOK ==
    /\ page = "users" => U!TypeOK
    /\ page = "channels" => H!TypeOK
    /\ page = "keys" => K!TypeOK
    /\ page = "models" => M!TypeOK
    /\ page = "plans" => P!TypeOK
    /\ page = "settings" => S!TypeOK
    /\ page = "chat" => Y!TypeOK
    /\ page = "profile" => R!TypeOK
    /\ page = "recovery" => F!TypeOK
    /\ page = "setup" => W!SetupTypeOK
    /\ page = "plaza" => Z!TypeOK
    /\ page = "chrome" => C!TypeOK
    /\ page = "boards" => B!TypeOK

\* pages/users: once loads have ended, the page number is that of the rows.
PageLabelMatchesRows == page = "users" => U!PageLabelMatchesRows

\* pages/users: no dialog starts a write while another one's is in flight.
OneDialogWrite == page = "users" => U!OneDialogWrite

\* pages/Channels.tsx: no edit wipes the key of a channel.
KeepsUpstreamKey == page = "channels" => H!KeepsUpstreamKey

\* pages/Channels.tsx: at rest, the list shown is the table.
ChannelListSettles == page = "channels" => H!ListSettles

\* pages/keys: the secret of every key that exists has been on the screen.
SecretsShown == page = "keys" => K!SecretsShown

\* pages/Models.tsx: no model is saved at the price of another one.
PricesNotBorrowed == page = "models" => M!PricesNotBorrowed

\* pages/Subscriptions.tsx: one filling of the form makes one plan.
OnePlanPerForm == page = "plans" => P!OnePlanPerForm

\* pages/Settings.tsx: what is shown as saved is what the server stores.
SavedIsStored == page = "settings" => S!SavedIsStored

\* pages/Playground.tsx: every answer stands below its question.
AnswerFollowsQuestion == page = "chat" => Y!AnswerFollowsQuestion

\* pages/Playground.tsx: nothing of an answer that broke off is kept.
NothingOfCutAnswers == page = "chat" => Y!NothingOfCutAnswers

\* pages/Profile.tsx: no passkey is left that the server does not know, unless
\* the page reported an error.
NoneStranded == page = "profile" => R!NoneStranded

\* handler/auth.go, ResetPassword: a code is compared a bounded number of times.
GuessesBounded == page = "recovery" => F!GuessesBounded

\* App.tsx: no page of the site is shown before there is an administrator.
LoginImpliesSetup == page = "setup" => W!LoginImpliesSetup

\* pages/Setup.tsx: Finish only sends forms that are correct in every step.
OnlyValidSubmitted == page = "setup" => W!OnlyValidSubmitted

\* pages/ModelsPlaza.tsx: a catalogue with matches shows some of them.
MatchesAreShown == page = "plaza" => Z!MatchesAreShown

\* contexts/ThemeContext.tsx: the document wears the theme that was chosen.
ClassMatchesTheme == page = "chrome" => C!ClassMatchesTheme

\* components/PublicNav.tsx: the page scrolls unless the drawer covers it.
ScrollLockFollowsDrawer == page = "chrome" => C!ScrollLockFollowsDrawer

\* pages/DataBoard.tsx: the error banner is up just when every card is a dash.
BannerTellsTruth == page = "boards" => B!BannerTellsTruth
=============================================================================
