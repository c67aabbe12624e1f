# RingRouter in TLA+

RingRouter is a multi-user gateway in front of LLM providers: clients call it
with API keys in one of three wire formats, it routes each call to an upstream
channel, and it bills the call to the key and to the account that owns it. A
web console, a single-page application served by the same process, is where
users and administrators look after accounts, keys, channels, plans, prices and
settings. These modules model the parts of the Go server and of the console
whose correctness depends on interleavings, failures and order. `tlc` checks
them on small instances, `tlapm` checks the proofs.

    tlc -workers 2 -config MCBilling.cfg MCBilling
    tlc -workers 2 -config Console.cfg Console
    tlapm BillingProofs.tla          # and OverspendProofs, GatewayProofs,
                                     # AccountsProofs, SetupWizardProofs,
                                     # ConsoleSessionProofs,
                                     # ConsoleListsProofs, ConsolePagesProofs

## Inventory

| Component | State | Operations | Interaction | What is hard | What makes it correct |
|---|---|---|---|---|---|
| Quota accounting: `handler/billing.go`, `handler/proxy.go`, `handler/subscriptions.go`, `handler/tokens.go` | `quota`, `used_quota` of users and tokens; subscriptions | admit, answer, deduct; UpdateQuota; Grant, Cancel, expireDue; key create/update/delete | requests charge after the fact on the copies `middleware/auth.go` read; admins write the same columns | concurrent requests, read-modify-write in Grant, two statements per charge, crashes and refused statements between them | each answer is booked once; overspend is bounded; charges never fund; a grant is an addition; -1 stays -1 |
| Gateway: `gateway/gateway.go`, `cache/cache.go`, `handler/channels.go` | per instance: snapshot, its age, provider pool, RWMutex; shared: one Redis key; the channels table | reload, Chat, ChatStream, Models, providerFor, InvalidateChannels, channel create/update/delete | requests reload under the lock, mutations invalidate memory and Redis | two caches above one table, publication and deletion out of order, failing Redis or database, lock held across network calls, crashes | clean requests see the current table; priority order; no stuck lock; convergence |
| Accounts: `handler/admin.go`, `handler/auth.go`, `handler/setup.go`, `middleware/session.go` | users (role, status), sessions, keys | sign in and out, role, status, password, delete, first-run set-up | every admin request is authorised by what the middleware read | check-then-act of the last-administrator guards; sessions created after a revocation | an administrator always remains; a disabled account has no way in |
| Console session and guards: `lib/api.ts`, `AuthContext.tsx`, `App.tsx`, `Login.tsx`, `Register.tsx` | the user shown, loading flag, route, cookie; handlers in flight | refresh, sign-in by password and passkey, registration, enrolment, log-out, 401 handling | the cookie changes on the server's answer, the user shown on the next `GET /api/auth/me` | handlers overlap, answers are lost, sessions end elsewhere | the user shown is the one the cookie acts as; pages of the administration call as administrators; the first spinner ends |
| Installation: gates of `App.tsx`, `Setup.tsx`, `handler/setup.go` | gate, wizard step and form per tab; administrators | status check, steps, mail test, Complete | several tabs, one server | two installations at once, a count that fails or is old | no page of the site before there is an administrator; only valid forms are sent |
| Recovery: `ForgotPassword.tsx`, `SendCode` and `ResetPassword` of `handler/auth.go` | codes and their attempts; page step | send, compare, consume | mail; other tabs | reads and increments in separate statements | a bounded number of guesses per code |
| Administration pages: `pages/users/*`, `Channels.tsx`, `Models.tsx`, `Subscriptions.tsx`, `Settings.tsx` | a copy of a table, dialogs, busy flags, forms | load, page, search, row and dialog writes | each page's calls are handled in any order | overlapping loads and writes, dialogs reopened during a write, blank fields | what is shown settles to what is stored; nothing is written twice, wiped or borrowed |
| Keys, playground, profile: `pages/keys/*`, `Playground.tsx`, `Profile.tsx`, `lib/webauthn.ts`, `handler/passkey.go` | list and revealed secret; conversation and stream; passkeys and the pending challenge | create, toggle, remove; ask, clear; register, remove | gateway stream; the authenticator | one-time secrets, streams cut or cleared half-way, challenges that lapse | secrets are seen; answers follow their questions; no passkey is stranded in silence |
| Catalogue, chrome, boards: `ModelsPlaza.tsx`, `ThemeContext.tsx`, `PublicNav.tsx`, `Layout.tsx`, `DataBoard.tsx`, `Dashboard.tsx`, `Wallet.tsx`, `System.tsx` | filters and page number; theme, menus, drawers; counters | filter, sort, page; switch theme, navigate; refresh | the document and the browser's storage outlive a page | effects that run a render late or are cleaned up late; partial failures | matches are shown; the theme worn is the one chosen; the page scrolls; the banner is true |
| Routing groups: `handler/groups.go`, `setting/group.go` | groups table; `group` columns; 15 s lookup cache | create, rename with cascade, delete with reference check; lookup | Grant, UpdateGroup and the key handlers write the columns | non-transactional cascade, cache refresh racing invalidation | not modelled |
| Option and price caches, rate limiter, log slots, protocol translation, instance secret, database and router wiring, outbound guards, read-only endpoints, presentation | - | - | - | - | not modelled |

`PROJECT.json` lists the same components with their files and, under
`hazards`, every place found where this code could go wrong in a way a unit
test would hardly reach.

## Modules

`UsageLedger` is the abstract specification of metering: an account has a
consumption counter, every priced answer opens one debt, and a debt is settled
once for its cost or written off.

`Billing` is the implementation, one action per SQL statement. What a handler
read and will use later is a field of its record, so the distance between read
and use in the code is a distance between two actions in the model.

| Code | Actions |
|---|---|
| `middleware/auth.go` Middleware (token row, then Preload of the user) | `ReadKey` takes the key's copy, `Admit` the account's copy |
| `proxy.go` ChatCompletion, routeChat, recordUsage | `Admit` (QuotaAvailable), `AnswerFree`, `Answer` |
| `billing.go` DeductQuota | `ChargeToken`, `ChargeUser`; each may be refused by the database, and the code looks at neither error |
| `tokens.go` Create, Update, Delete | `DraftToken` and `CreateToken`, `UpdateTokenStatus`, `DeleteToken` |
| `admin.go` UpdateQuota | `UpdateQuota` |
| `subscriptions.go` Grant | `GrantRead`, `GrantCreate`, `GrantApply` |
| `subscriptions.go` expireDue, Cancel | `ExpireDue`, `Cancel` |
| a killed process, a panic | `RequestDies`, `GrantDies` |

The copies a request keeps are reduced to their sign: QuotaAvailable and
DeductQuota ask nothing else of them. `books` is history: `delivered` and
`lost` define what the ledger should say, `budget` and `spent` what an
administrator last allowed and what was booked since. `fresh` marks the
requests that read the account after that write; a request admitted under an
earlier budget is not counted against the later one. Left out: the
administrator key's virtual user (id 0, whose UPDATEs match no row), model
whitelists, subnets and the expiry of keys (they only refuse requests, which
`AnswerFree` covers), the `group` columns, and deletion of the account.

`Gateway` models the snapshot of the channels table. A row is reduced to
status, priority, the models and groups it lists, and a credential that stands
for everything `NewFromChannel` reads. A request goes `idle`, `wait` (for the
write lock), `get` (Redis), `read` (database), `publish` (Redis), `select`,
then per channel `resolve`, `build`, `call`. The lock is a field of the
instance because `reload` holds it across the Redis and database calls; all
other critical sections are one step, and every action that needs the lock has
`Free(n)` as a guard. `Orderings` gives every order the SELECT and the stable
sort can produce, `Matching` the list Chat filters out of a snapshot, as the
permutation of the matching entries that keeps their order. Channel mutations are a write, then `ClearLocal`, then
`DelShared`. Time is the two actions `ExpireLocal` and `ExpireShared`; a crash
resets an instance and drops its handlers. Models' goroutines, one per channel,
only touch the pool: `SelectListed` lets a handler be any of them. An error
of `NewFromChannel` is left out, since the channel handlers have validated
what it rejects; the environment fallback provider has no state and is the
end of the request.

`clean` is history: no mutation was under way when the request began, none was
written since, and its own reload did not fail. Properties about up-to-date
routing are only asked of clean requests.

`Accounts` models who may use the console and the API: a row of users is its
role and status, a session or key is the account it signs in. A handler reads,
checks and writes in separate steps, as the code does in separate statements
without a transaction.

| Code | Actions |
|---|---|
| `setup.go` Complete; `auth.go` Register | `BeginSetup`, `CompleteSetup`; `BeginRegister`, `Register`, then a session |
| `auth.go` Login, `passkey.go` LoginFinish, startSession, Logout | `Login`, `StartSession`, `EndSession` |
| `middleware/session.go` Middleware, RequireAdmin | `FindSession` (the session's row) or `PresentAdminKey`, then `Refuse`, `BeginAdminOp`, `BeginCreate` or `BeginKey` (the account's row) |
| `admin.go` Create; `tokens.go` Create, Delete | `CreateUser`; `CreateKey`, `DeleteKey` |
| `admin.go` UpdateRole, UpdateStatus, ResetPassword, Delete | `ReadTarget`, `CountOthers`, `Write`, `Revoke`, `Purge`, each as far as the operation goes |
| `auth.go` ResetPassword, its code accepted | `ResetByCode`, `Write`, `Revoke` |
| a killed process, a statement that fails | `Dies`, `RevokeFails` |

`standing` and `late` are history: a credential is `revoked` when its account
is disabled, deleted or given a new password after the owner was checked, and
`escaped` when the handler that should remove it will not. `raced` records that
a role or status was written between a removal's check and its write. The
bootstrap key's sessions (user id 0) have no row to revoke: `PresentAdminKey`
stands for them, and an instance may or may not use it. `ForeignKeys` says
whether the database enforces the reference from a key to its owner that gorm
declares: MySQL and PostgreSQL do, SQLite does not. `Delete` removes the
account before its keys, so with foreign keys an account that has keys cannot
be deleted at all (`Refused`). Left out: names and e-mail addresses (their
uniqueness only refuses), options that set-up writes after the administrator.

### The console

A page of the console is a copy of a piece of the server's state and a few
asynchronous handlers. Every page module has the same three variables: `db`,
what the server stores; `ui`, the page's React state; `net`, its calls in
flight. `Calls` says what a call is: a record in one of a few slots, `sent`,
then `done` when the server has acted, then gone with its answer. Slots are
independent, so calls are handled and answered in any order, and each may fail
before or after the server acted. A handler of the page is one action per
stretch between two awaits; its closure (the page number of the render it was
created in, the form as it was sent) is in the call's record. React's guards
(a disabled button, a row that is not drawn, a backdrop that waits) are the
guards of the actions, and where the code has none, neither has the action.

| Module | Code | State and actions worth knowing |
|---|---|---|
| `ConsoleSession` | `api.ts`, `AuthContext.tsx`, route guards, `Login.tsx`, `Register.tsx`, log-out; sessions of the server | `ops` holds per kind of handler where it is, the cookie it sent and the account it was answered; `Granted` mints a session and sets the cookie, `MeServed` and `Refreshed` bring the user shown in step; `Revoke` ends a session elsewhere; `Call*` is a call of a guarded page and its 401 |
| `SetupWizard` | gates of `App.tsx`, `Setup.tsx`, `setup.go` | one gate and wizard per tab; `PassChecks`, `CreateAdmin`, `StoreSettings` are the statements of Complete |
| `RecoveryPage` | `ForgotPassword.tsx`; `SendCode`, `ResetPassword` | each statement of the two handlers is an action (`CodeChecked`, `CodesWiped`, `CodeStored`, `CodeMailed`, `CodeTakenBack`; `CodeRead`, `Compared`, `ResetDone`), for the page's tab and for others (`Elsewhere`) |
| `UsersPage` | `pages/users/*` | a load carries the page of its render; rows have one busy flag, dialogs another |
| `ChannelsPage` | `Channels.tsx`, the patch rules of `handler/channels.go` Update | `Submit(form)` sends the whole row, `ServeUpdate` keeps a blank key and stores a blank base URL |
| `KeysPage` | `pages/keys/*` | the server tells a secret in one answer; `Created` shows it |
| `ModelsPage` | `Models.tsx`, the upsert of `modelmeta.go` | a price is where it came from: nowhere, the administrator, or a model's entry |
| `PlansPage` | `Subscriptions.tsx` | a form is which filling it is, so that two plans of one filling can be seen |
| `SettingsPage` | `Settings.tsx`, `handler/settings.go` Update and Get | `RefusePut` stops half-way: what was written before the refusal stays |
| `Playground` | `Playground.tsx` | the stream's handler writes the conversation of its own start plus the pieces so far; a message is the question it belongs to |
| `ProfilePage` | `Profile.tsx`, `webauthn.ts`, register endpoints of `passkey.go` | begin, confirm on the authenticator, finish; `Lapse` drops the challenge |
| `PlazaPage` | `ModelsPlaza.tsx` | `stale` is the render between a filter and the effect that resets the page number |
| `ConsoleChrome` | `ThemeContext.tsx`, `PublicNav.tsx`, `Layout.tsx`, `ThemeLangActions.tsx`, `UserAvatar.tsx` | `due` names the effects still to run, `net` a media-query event on its way |
| `Boards` | `DataBoard.tsx`, `Dashboard.tsx`, `Wallet.tsx`, `System.tsx` | a load is answered by any subset of its sources |

Some fields are history and steer nothing: `unsynced` (sign-in handlers
overlapped, or an enrolment replaced the cookie, since the last reload),
`raced` (handlers overlapped, a call failed or somebody else wrote), `lost`
(the answer never came back), `edited` (typed since Save), `hasty` (a dialog
was used while an earlier form was still being fetched), `overlapped` (two
refreshes at once), `told`, `removed`, `seen`, `asked`, `cut`. A property that
excludes one of them says what the code does not promise: in those cases the
page does show or store something else, and the next load or reload repairs it.

The pages share nothing but the session and the server's tables, which
`Billing` and `Accounts` model with their own interleavings; so `Console`
shows one page at a time, with `page` fixed by the initial state, and the
server side of a page module is only what its properties tell apart. `Console`
instantiates each page module, declares the constants of all of them and states
their assumptions (`ListsAssumption`, `PagesAssumption`).

`MCBilling`, `MCGateway` and `MCAccounts` give the constants of their
specifications their values; `Console.cfg` and `ConsoleSession.cfg` give them
directly. In `PlazaPage` the sorted list of matches is stated by what a sort
returns (`Filtered`: the matches, each once, in an order that `Before` allows)
and not by a sorting algorithm.

## Runs

| Run | Instance | Shows |
|---|---|---|
| `billing` | one account, one key, two requests, one grant (of an unlimited, empty or finite plan), admin writes of -1 and 1, costs 1 and 2, one fault | `UsageAccounted`, `AccountOverspendBounded`, `KeyOverspendBounded`, `ChargeNeverFunds`, `SubscriptionEndsOnce`, and that Billing implements `UsageLedger` |
| `gateway_local` | one instance without Redis, two channels (one may be demoted, rekeyed, disabled), two requests and two admins, two writes, one fault or crash | `ReloadHoldsLock`, `RoutesCurrentTable`, `FailoverByPriority`, no deadlock |
| `gateway_shared` | two instances with Redis, one channel, one request, one admin, one write, one fault or crash | `HandlersFinish`, `SnapshotsConverge` |
| `accounts` | two accounts, one session, one key, two handlers, failing statements and crashes, no foreign keys | `AdminRemainsUnlessRaced`, `RevokedGo`, `DeletedStaysDeleted`, no deadlock |
| `console_session` | an administrator and a member who may register, two sessions, two handlers in flight, Turnstile on | `ShownIsActing`, `AdminCallsByAdmins`, `SpinnerEnds`, no deadlock (464,874 states) |
| `console_pages` | each page in turn, bounds below | the eighteen properties of the pages, no deadlock (2,509,660 states) |
| `accounts_last_admin` | as `accounts`, no fault | the code violates `AdminRemains` |
| `accounts_sessions` | as `accounts`, no fault | the code violates `NoneOutlivesRevocation` |
| `billing_unlimited` | as `billing`, no fault | the code violates `UnlimitedStaysUnlimited` |
| `billing_topup` | no admin write, no fault | the code violates `GrantAddsToBalance` |
| `gateway_keys` | one instance, no Redis, two requests, no fault | the code violates `CredentialsFresh` |
| `gateway_redis` | one instance with Redis, two requests, no fault | the code violates `CurrentOnceDeleted` |

Bounds. Two requests are the least that share a balance, and the overspend
bound `Requests * MaxCost - 1` is reached with two of cost 2 on a balance of 1.
`MaxDelivered` stops new requests, never those in flight, so histories are
finite without cutting one in the middle. One fault reaches every error path,
since each handler looks at no more than one. Quotas of 0, 1 and -1 reach the
clamp, exhaustion and both directions of the unlimited switch. In `Gateway`,
two writes give a second mutation during the invalidation of the first; two
rows give every failover order; ids are never reused, as in the table.
In `Accounts`, two handlers are the least that race, and two accounts the least
of which one can be the other's remaining administrator; an account is created
at most once, so at most two are created in a history, while roles, status,
passwords, sessions and keys change without bound. `ForeignKeys` is FALSE: a
refused deletion and a refused key are then steps of `Dies`, so the run covers
both values.

In `ConsoleSession`, two accounts are the least between which the user shown
and the cookie's owner can differ, the second session is the one a second
sign-in mints while the first is in use, and two handlers in flight are the
least that overlap; the property at fault in a third one would need a third
cookie. In `Console`: two call slots per page let any two handlers overlap
and finish in either order, and a slot is free again at once, so histories are
not bounded by them. Two rows or one (users, keys, models, plans; channels) are
the least with an other to be confused with; two pages of users, three plaza
models with a page size of 1, give a page number that a shorter list leaves
behind; two fillings of the plan form give a retry and a second plan; three
questions give an answer, one cleared while it arrives and one after it; three
credentials give one stored, one stranded and one retried; two codes with two
attempts and two tabs give a guess that read the counter before the other
counted; three loads of the data board give a failed one, one after it and one
that overlaps. `Calls` fails at any time, and `lost` answers are among the
failures, so no fault is counted or bounded in these modules.

`CHECK_DEADLOCK FALSE` is set for `Billing` because its bounds stop it: keys,
grants and consumption are finite, and for the two violation runs of
`Accounts`, where without faults a handler that would create a third account
waits for an id. `Gateway` and the console are checked for deadlock: the lock
and the handlers must always leave something to do.

Findings. Each `violation` run checks one sentence of a comment against what
the code does; `PROJECT.json` quotes the sentence.

- An account that becomes unlimited while one of its requests is in flight is
  set to 0 by that request's charge (`billing.go:132`).
- A charge between Grant's read and write is undone (`subscriptions.go:96`).
- A request in flight across an invalidation puts the old credential back into
  the provider pool (`gateway.go:260`), where it stays until the next mutation.
- A reload between the unlock and the Redis DEL of the invalidation keeps the
  old table in memory for the TTL (`gateway.go:136`).
- Two administrators that demote, disable or delete each other at once leave
  none (`admin.go:248`); the same happens when the target of a removal is
  promoted after the removal read it as a member.
- A sign-in that compared the old password opens its session after the reset
  revoked the account's sessions (`auth.go:515`).

Fairness. `Gateway!FairSpec` assumes that a handler that can take a step
without the lock takes it (weak fairness: goroutines are scheduled, calls out
have timeouts), that a handler that waits for the lock gets it when it is free
again and again (strong fairness: Go's `sync.RWMutex` lets every waiter in),
and that the two TTLs pass. Nothing is assumed of clients, administrators or
faults; `SnapshotsConverge` speaks of instances that keep getting requests,
because reload is lazy. `ConsoleSession!Spec` assumes weak fairness of `MeServed` and
`Refreshed` for the first refresh only: the browser answers or fails every
request it has sent. Nothing is assumed of the user, of other handlers or of
the server's sessions. The other console modules state safety only.

## Proofs

`BillingProofs` proves, for every set of accounts, keys, handlers and grants
and every quota and cost (`BillingAssumption`):

- `TypeCorrect`: `Spec => []TypeOK`. `TypeOK` is inductive: it includes that
  a busy handler names a key, which makes `Payer` an account. The lemmas
  `DeductBounds` and `ChargedRow` say what the SQL expression does to a row;
  `RequestStep`, `TokenStep`, `GrantStep` treat the handlers one action at a
  time.
- `MeteringRefinesLedger`: `Spec => MetersUsage`. Besides the type invariant
  it needs that a handler owing a charge holds a positive cost
  (`OwingCostsStep`), for a debt of cost 0 is none of the ledger's. `Answer`
  is `Incur`, a successful `ChargeUser` is `Settle`, a failed one and
  `RequestDies` are `WriteOff`, and all other steps leave the image alone:
  a charge of the key in particular, and any write of a quota.

- `ChargesNeverFund`: `Spec => ChargeNeverFunds`, from `TypeOK` and the bound
  `ChargedTakes` on one row.
- `SubscriptionsEndOnce`: `Spec => SubscriptionEndsOnce`, with the invariant
  that a grant which has not inserted its subscription has none (`UnbornSubs`).

`AccountsProofs` proves, for any accounts, credentials and handlers, with and
without foreign keys and faults:

- `TypeCorrect`, inductive as it stands: a handler that is about to count,
  write, revoke or purge holds an operation and an account that fit the step.
- `AdminsProtected`: `Spec => AdminRemainsUnlessRaced`. The guard is checked in
  one step and used in another, so the invariant `AdminInv` adds what stays
  true in between: while nothing has raced and there is an active
  administrator, every handler whose removal passed its check leaves another
  one (`Checked`), and its target is an account that was created, so a new
  administrator is never that target. `WriteStep` then needs no knowledge of
  who the other handlers are.
- `RevocationsFinish`: `Spec => []RevokedGo`, inductive with `TypeOK`.
- `DeletedForever`: `Spec => DeletedStaysDeleted`.

`OverspendProofs` proves the two bounds the runs show for two requests, for
any number of handlers, prices, quotas and faults:

- `AccountsBounded`: `Spec => []AccountOverspendBounded`. The bound alone is
  not inductive: nothing in it says why a spent account stops. `AccountInv`
  ties three things together, the budget an administrator last wrote, the
  balance, and how many handlers admitted on it are still under way
  (`Underway`). While the balance is positive, spent and balance are within
  the budget; once it is zero, spent plus the dearest charge of each handler
  under way is within the budget and `Overspend` (`Bounded`). `CountedCharge`
  is the arithmetic of a charge, the clamp at zero among its cases,
  `LooseCharge` that of a handler that leaves, `AccountAdmits` that only a
  positive balance admits, `AccountRewritten` that a new budget counts nobody.
- `KeysBounded`: `Spec => []KeyOverspendBounded`, along the same lines for the
  key's own columns and the handlers that read it unspent (`KeyUnderway`); it
  needs that an admitted handler read a quota that was not spent (`Admitted`),
  and that nobody holds a key before it is active. It assumes that there is at
  least one handler, without which `Overspend` is -1 and even an unused key
  exceeds it.

`GatewayProofs` proves the safety of the gateway for any finite numbers of
instances and channels, and any requests, admins, rows and faults:

- `TypeCorrect`. Most of it is that everything built from a snapshot is one:
  a permutation of the active rows (`EntriesBounded`), the entries a request
  filters out (`MatchingSound`), the rest of a list (`TailSound`).
- `ReloadsExclusive`: `Spec => []ReloadHoldsLock`, inductive with `TypeOK`;
  `LockStep` says that a step moves a request's stage and the lock together.
- `FailoverDescends`: `Spec => []FailoverByPriority`. The property speaks of
  lists being tried, which are cut out of snapshots, which may come from
  another instance: `Ordered` says it of all three.
- `LoneRoutesCurrentTable`: `Spec => []RoutesCurrentTable`. The invariant
  `Lone` is the bargain between `InvalidateChannels` and `reload`: while no
  mutation is under way, a snapshot that counts as fresh is the table, and a
  request stays `clean` only while none is.

`SetupWizardProofs` proves, for any number of tabs, `SetupTypeCorrect`,
`SubmittedValid` (what Finish sends is correct in every step) and
`SetupBeforeLogin` (no tab shows the site of an instance that has a database
and no administrator). The invariants are `FormInv`, that the steps behind
the wizard's current one are filled in correctly and stay so while a
submission is in flight, and `GateInv`, that a gate is open only where an
administrator exists, or there is no database to install into;
`InstalledStays` is why no other tab can undo it. The run checks these two
properties in `Console`, where they are stated for the page that shows the
wizard; `ConsolePagesProofs` carries the theorems over.

`ConsoleSessionProofs` proves, for any accounts, sessions and handlers in
flight, with and without Turnstile:

- `TypeCorrect`: cookies and requests name sessions that were minted; each
  handler is at a stage of its kind.
- `ShownActs`: `Spec => []ShownIsActing`. `SyncInv` says what holds between
  the moments the property speaks of: unless `unsynced`, at most one handler
  that may change the cookie is in flight, and either the user shown is the
  one the cookie acts as, or that handler has yet to ask or to show who it is.
  `OwnersKept`, that no step gives a session another owner, is what makes an
  old answer about a session a true one.
- `AdminsCall`: `Spec => AdminCallsByAdmins`, from `SyncInv` and `GuardInv`,
  that the page shown is one the guards let the user shown pass to.

`ConsoleListsProofs` and `ConsolePagesProofs` prove every invariant of the
console's pages for every value of the constants: any accounts, rows, models,
plans, credentials, codes, tabs and call slots, any page size, limits and
number of loads (the settings page has one call at a time, as the code has). They assume `ListsAssumption` and `PagesAssumption` only: there
is a call slot; ids, codes and questions are positive numbers, as the tables
give them, so that 0 can stand for none; page size, attempts and loads are
positive; the users, the tabs of the recovery page and the plaza's models,
which are counted, are finite; and no model has the name of a marker. `PagesAreTyped` is `Spec => []TypeOK`
of the composed `Console`. The theorems about one page speak of `Console` as
well, so each proof has the same two parts: the page's own invariant, inductive
with its `TypeOK` under the page's `Next` (lemmas `...Step`), and the step to
`Console`, where `page` never changes and the shown page's variables take that
page's steps (`...Always`). What each needs beyond its property:

| Theorem | Inductive invariant beyond the types, and why it is needed |
|---|---|
| `LabelsMatchRows` | unless a load is to come, the page number is that of the rows; an answered load carries rows with its own number (`ULabel`, `UAnswers`) |
| `DialogsWriteOnce` | Confirm is busy while a dialog's call is in flight, and there is one at most (`UDialogs`) |
| `KeysAreKept` | every row has a key; blank fields of a form are merged, not stored (`HKeys`) |
| `ListsSettle` | unless raced, one call is in flight at most, an answered load carries the table, and at rest the list is the table (`HAlone`, `HFresh`, `HRest`) |
| `SecretsReachUser` | a key the server made was shown or lost, or a call that will show it is in flight (`KOwed`) |
| `PricesStayOwn` | unless hasty, what is stored, on its way to be, or in a form that is filled, is a price of that model's own, and one fetch of prices is in flight at most (`MQuiet`) |
| `FormsMakeOnePlan` | one busy call at most; a creation sends the form as it still stands; while the form stands, a plan was made of it only if the answer is to come or was lost (`PDialogs`, `PForms`, `POnce`) |
| `SavedFormsAreStored` | what is to be shown and what is stored agree at each stage of the save: put sent, put done, get sent, get done (`SStages`, `SAgrees`) |
| `BannersTellTruth` | unless overlapped, the one load in flight is the last and the board has not failed (`BBoard`) |
| `ThemesAreWorn` | unless the theme's effect is due, the document listens to the system just when the theme asks for it, and lags behind it only while the event is on its way (`CTheme`) |
| `LocksFollowDrawers` | no drawer, lock or effect of one is left on a route of the console (`CDrawer`) |
| `PasskeysAreNotStranded` | a credential not yet accounted for is that of a `finish` in flight; once such a call is done, it is stored or was removed since |
| `AnswersFollow`, `CutAnswersLeaveNothing` | the screen and the stream's own copy are both good conversations (`YGood`), and that copy ends with the last question (`YStream`) |
| `GuessesAreBounded` | guesses compared, plus calls that have read the code and may still compare it, are within the bound; a guess compared is counted, or is a right one whose call has yet to wipe the codes (`FBounded`) |
| `SiteNeedsSetup`, `WizardSendsValid` | a `Console` showing the wizard behaves as `SetupWizard` (`WIsWizard`), so the theorems of `SetupWizardProofs` hold of it |
| `MatchesStayInSight` | unless an effect is due, the page number is within the pages (`ZInv`); that the models can be listed in order at all is an induction over sets of models (`ZSorts`), and `ZPages` is the arithmetic of rounding up |

`UsageIsAccounted` (in `BillingProofs`) is `Spec => []UsageAccounted`. The
property sums the costs of the handlers in flight with a fold of the community
modules, a recursive function that takes members in the order CHOOSE gives.
`AddsExist` shows that the recursion has a solution on every finite set,
`AddsAgree` that solutions agree where they overlap, `AddsAny` that any member
may be taken out first, so the order is immaterial. Then each step either
leaves the handlers owing for an account alone (`OwedSame`), adds one
(`OwedNew`) or removes one (`OwedGone`), and the books move by the same cost.
Inductions over finite sets, here and for `ZSorts` and `Greatest`, go through
`SubsetInduction`: the least counterexample of the strict subset order, a set
instead of the operator that the library's induction theorems ask for.

Model-checked only: the liveness properties `HandlersFinish`,
`SnapshotsConverge` and `SpinnerEnds`, since the provers here do not handle
ENABLED. Every invariant and action property of a passing run is a theorem.

## Not modelled

- Routing groups (`handler/groups.go`, `setting/group.go`, the `group` columns
  that Grant, UpdateGroup and the key handlers write). The rename cascade runs
  statement by statement without a transaction and without `InvalidateChannels`,
  and the delete guard counts references one table after the other, so a
  dangling group name is within reach of any interleaving; what such a name
  then does depends on string matching across channels, plans and ratios that
  no property here speaks about. The lookup cache expires after 15 seconds.
- The in-process caches of options and prices (`setting/setting.go`,
  `handler/billing.go`). A refresh may store what it read before a change; the
  next period or expiry repairs it, so there is a staleness of seconds and no
  lasting state. The writes they cache are in `SettingsPage` and `ModelsPage`.
- The rate limiter and the 1024 log slots: one critical section each, whose
  hazards are the clock's. Prices of answers: `Answer(r, cost)` takes any cost.
- Protocol translation (`inbound`, `provider`), outbound guards, mail, crypto,
  status and log endpoints: stateless mapping, network and database I/O. The
  secret of the instance is resolved once at start-up.
- Of passkeys, the sign-in ceremony (only its outcome is in `ConsoleSession`)
  and the capacity of the challenge store: `Lapse` covers an eviction, the
  order of evictions is not told apart.
- Of the console, what only looks: `Home.tsx`, `About.tsx`, the footer, the
  layouts, `components/ui`, `SiteContext`, i18n, and the markup of the modelled
  pages. `App.tsx` also routes to pages for logs and placeholders that are not
  in the repository.

Met while modelling, outside the properties: the grant dialog offers the first
100 users only; a blank price leaves the stored one, so the console cannot
clear a price; overlapping refreshes of the data board may raise the banner
above numbers of the other one; a save of a channel that overlaps another one
may leave the list behind the table until the next load.
