# CloakCal in TLA+

CloakCal is a calendar whose titles, places and notes are encrypted in the
browser.  The server (Next.js, Postgres with row level security, SQL functions)
stores times, rules and versions in the clear and the content as ciphertext it
cannot read.  Most of what can go wrong follows from that split: the server
decides *whether* a write may happen from a version number, and the browser
decides *what* the write contains from a page it loaded some time ago.

This directory holds TLA+ models of the parts of the program whose correctness
depends on the order of things or on arithmetic at a boundary, TLC
configurations that check them on small instances, and TLAPS proofs of what
matters most for every instance.

    tlc -config Event.cfg MCEventLifecycle
    tlapm EventLifecycleProofs.tla

## 1. The system

| Part | Where | State it keeps | What it does |
|---|---|---|---|
| Event write path | `packages/db/migrations` 0007, 0011-0014, 0031; `apps/web/src/server/events.ts` | `events`, `cloaked_fields`, `recurrence_exceptions` | eight SQL functions, each one transaction: create, update, split, cancel, uncancel, trash, restore, purge |
| Delete, undo, trash screens | `delete-event.tsx`, `undo-delete.tsx`, `settings/trash-section.tsx` | an undo strip; the trash list | choose which function to call, with which version and occurrence |
| Series | `packages/domain` `recurrence.ts`, `edit-scope.ts`, `split-plan.ts`, `range.ts`; `packages/db/src/events.ts` | none; rows in a transaction | what a rule produces in a zone; the two halves of a split; the range of a page; a series edit as one transaction |
| Edit and new-event sheets | `edit-event.tsx`, `editable-event.tsx`, `new-event.tsx`, `lib/field-changes.ts` | the form, which inputs were typed in | plan which fields are sealed, cleared or left alone |
| Calendar page load | `apps/web/src/server` | none | several queries with no transaction around them |
| Calendar screen | `calendar-screen.tsx`, `audience-transition.tsx`, `week-grid.tsx`, `lib/calendar-links.ts` | the address, the selected day, notices, a cover | navigation, the audience switch, the hour grid |
| Holidays | `packages/domain/src/holidays.ts`, `server/holidays.ts` | the workspace's choice of region | the days a page marks |
| CloakStore | `packages/cloak-store` | ciphertext, decrypted values, the root key, subscribers | the only place decrypted content exists |
| CloakProvider | `cloak-provider.tsx` | which store the page uses | builds a store for a page, resumes the session, unlocks, locks |
| Browser session | `lib/cloak-session.ts`, `key-vault.ts`, `unlock-panel.tsx`, `sign-in-form.tsx`, `recover-form.tsx`, `middleware.ts` | the session cookie, the key vault, what each tab is doing | sign in, unlock, recover, follow links, sign out |
| Account keys | `lib/cloak-session.ts`, 0006, 0023 | `root_key_wraps` | the root key wrapped under password, phrase and passkeys |
| Billing webhook | `server/billing/apply.ts`, `api/billing/webhook`, 0028 | `subscriptions`, `billing_events` | one transaction per Stripe event |
| Plan page and billing routes | `settings/billing-band.tsx`, `api/billing/*`, `server/billing/view.ts` | what a tab shows | checkout, portal, cancel and resume, preview and switch |
| Visibility policy, audience views | `packages/policy`, `server/audience.ts`, `redaction.ts` | none | which rule decides for a viewer; a page for one audience; the owner's chip |
| Contacts, groups, rules | 0016, 0017, 0020; `visibility-control.tsx`, `visibility-sheet.tsx`, people screens | contacts, groups, members, visibility rules | eight SQL functions and the controls that call them |
| Settings | `settings/*`, `lib/save-prefs.ts`, 0027, 0032 | preferences, calendars, hours | pickers, the calendar list, the availability form |
| Import and export | `packages/domain/src/ical.ts`, `server/export.ts` | none | a series as a file other programs read |
| Provisioning | `tools/stripe-setup.ts`, `tools/email-setup.ts` | Stripe, DNS, Resend, Supabase, Vercel | two commands that may be rehearsed, killed and run again |
| Cryptography, design system, seeds | as listed in `PROJECT.json` | none | |

How they interact.  A page load reads rows, exceptions and ciphertext and hands
them to the browser in one message.  `CloakProvider` puts the ciphertext in a
`CloakStore`; components subscribe to single fields.  A sheet seeds its form
from the store, plans its changes against the store, seals them with the store's
key, and calls a server action that calls one SQL function with the version the
page had.  The function locks the row, compares the version, writes, bumps the
version.  On success the browser refreshes the page, which starts the cycle
again with a new store.  Next to the calendar the page load reads people, groups
and rules; the policy engine turns them into what an audience sees, on the server
to redact and in the browser to explain, and the controls write one rule for each
audience and scope.  The settings write one column, one row or one week of hours
with each call.  The session is a cookie all tabs share, and so is the vault the
root key is kept in; each tab has a page that was rendered for whoever was signed
in at the time.  Billing is apart: Stripe calls the webhook, possibly twice and in
any order, and the webhook asks Stripe what is true before it writes the one row
a workspace has; the plan page shows that row and asks Stripe what it can.

What is hard to test here:

* two tabs, or a tab and its own undo strip, acting on pages of different age;
* a page put together from queries that ran before and after somebody's write;
* a committed call whose answer is lost, after which the user tries again;
* an exception keyed by a wall time, followed through splits, retimes, purges;
* COUNT, UNTIL and wall times cut in two around a change of the clocks;
* a transaction that plans from a row it read before it locks it;
* ciphertext with no foreign key to its event;
* several decryption passes over one map, with `lock`, `ingest` and
  `unlock` between two awaits of any of them;
* which of many rules decides, for a viewer in several groups with a rule for
  one event and another for all, and a chip that sums up everybody;
* rules that outlive the person or group they are about;
* two systems, Postgres and the sign-in service, that must agree on a password
  and share no transaction;
* two accounts in one browser, with a key in one tab's hand while another tab
  signs in or out;
* the same Stripe event twice at once, an older event after a newer one, a
  handler that dies before or after its commit, a page that shows last minute's
  subscription and a button that moves money;
* pages that arrive late: a cover over the wrong one, a notice about another one;
* half-open ranges, the last cell of a month grid, blocks that touch;
* a command that dies between two requests to somebody else's service.

`PROJECT.json` lists each hazard at its line with the properties that watch it.

## 2. Modules

| Module | Models | Run |
|---|---|---|
| `EventLifecycle` | the write path and the tabs that call it | `event` |
| `OccurrenceLedger` | abstract: what the owner of a calendar sees of the write path | refined in `event` |
| `EditSheet` | the form, the page under it, and the fields it writes | `edit_sheet` |
| `Recurrence` | no state: zones, rules, expansion, split planning | through the next four |
| `SeriesPages` | series that are composed, split, detached, cancelled, and the pages that show them | `series`, `detached` |
| `SeriesTransaction` | the series edit of `packages/db`, statement by statement, several callers | `series`, `short_range` |
| `CalendarExport` | a series as an iCalendar component, and what a reader makes of it | `series` |
| `Dates`, `Holidays` | no state: real dates; the tables of holidays | through the next |
| `HolidayPages` | region, time zone and pages that mark holidays | `settings` |
| `CalendarPages` | no state: what an address means, what a page fetches and shows | through the next |
| `CalendarScreen` | the calendar in a browser: addresses, navigation under way, notices, the cover | `screen` |
| `WeekGrid` | the layout of a column of the hour grid, and its shading | `settings` |
| `CloakStore` | the store and its asynchronous passes | `unlocking` |
| `Session` | sign-in, unlock, recovery and sign-out of several tabs in one browser | `session` |
| `AccountKeys` | the wraps of the root key and the sign-in password | `unlocking` |
| `Unlocking` | the wraps, or the store that the key inside them opens | `unlocking` |
| `BillingWebhook` | handlers, checkout, and Stripe outside | `billing` |
| `PlanPage` | two tabs of the plan page, the routes, the row, Stripe | `services` |
| `Policy` | no state: applying rules, their order, what a decision leaves of an event | through the next |
| `Visibility` | people, groups, rules, the controls and the pages they act from | `visibility` |
| `Calls` | a form's call to the server: sent, done, refused, or adrift | through the next four |
| `CalendarForms` | the pickers and the calendar list | `settings` |
| `HoursForm` | the availability form | `settings` |
| `NewRows` | the sheets that make an event, a calendar, a person, a group | `settings` |
| `RuleForms` | the switches of a rule | `settings` |
| `SettingsPages` | one of the above (or the holidays, or the grid) at a time | `settings` |
| `StripeSetup`, `EmailSetup` | the two provisioning commands, request by request | `services` |
| `SetupScripts` | one of the two at a time | `services` |
| `Services` | the plan page or the commands | `services` |
| `MC*` | constants for TLC that a cfg cannot write, symmetries | |
| `EventLifecycleProofs`, `AccountKeysProofs`, `BillingProofs`, `VisibilityProofs` | theorems about the module they are named after | |
| `EditProofs` | theorems about `EditSheet`, `SeriesPages`, `CalendarExport` and `SeriesTransaction`, and the lemmas about `Recurrence` they rest on | |
| `SettingsProofs` | theorems about `SettingsPages` and the forms it is made of | |
| `ServicesProofs` | theorems about `PlanPage`, `StripeSetup` and `EmailSetup` | |
| `BrowserProofs` | theorems about `CloakStore` and `Session` | |

Definitions that follow a comment `Mutant:` are plausible mistakes in the
definition after them.  No specification uses them.

### EventLifecycle and OccurrenceLedger

`rows`, `exceptions` and `fields` are the tables.  A row is
`lifecycle, version, rrule` and a calendar in miniature: a series has an
occurrence each day from `first` to `last` at the wall time `wall`, a one-off
event has one.  `last = first - 1` is a series a split has emptied.  An exception
is keyed by the exact local wall time, as the table is, so an exception keyed to an
old time misses an occurrence that was moved.

`page[t]` is what tab `t` acts from.  Loading is `OpenPage` and then `ReadRow`
and `ReadExceptions` as separate steps, in either order for the calendar,
whose queries are sent together, exceptions first for the trash page.  A delete
leaves an `undo` strip with what it needs to reverse itself.  `Answered` says
of each committed call that its answer arrives or is lost; a tab whose answer is
lost still has its page and may do anything with it, a retry included.

Each SQL function is one action because it is one transaction that locks the
row first, except `trash_cloaked_event`, which selects without a lock and then
updates under a guard: `TrashSelect`, then `TrashUpdate` or `TrashConflict`.  A
call the database refuses changes nothing and is not a step.

`root`, `gone`, `retimed` are history: the event a row's days come from, the
occurrences cancelled and not put back, the series split with a change of time.

The abstract specification `OccurrenceLedger` has the occurrences on the calendar,
those off it that can come back, and those nothing is promised of any more.  Its
steps are appearing, going off, coming back, being erased, and the ledger's closing
for good on some occurrences.  `ImplementsLedger` maps the first set to what the
stored rows show, the second to what they produce and do not show, and the third to
the lineages that were split to another hour, so a split that keeps the hour, an
edit, a page load or a retry must be invisible there.  The third set is needed
because the code does bring cancelled occurrences back there (see "Where code and
words disagree").

### EditSheet

One repeating event, its fields and its version; tabs that load it, open the
sheet, type, save, split, meet a conflict, refresh and try again.  A load is two
queries in either order, and the page arrives with the second.  A page under an
open sheet is replaced by a refresh: the store it had is `locked` until the next
is `Rebuilt`, while the sheet and its seeded form stay.  `Skipped`, `Sealed` and
`Cleared` are `planFieldChanges`; `Opaque` says which contents a tab's key
cannot open, which the form shows as an empty input.

### Recurrence, SeriesPages, SeriesTransaction, CalendarExport

Time has two clocks.  A reading is what a wall clock shows, an instant is an hour
of real time, and a zone relates them by an offset that jumps once, forward or
back.  `ResolveLocal`, `PlusDays` and `StartOfDay` are what Temporal does with a
reading that occurs twice or never.  A rule has FREQ, INTERVAL, BYDAY, COUNT and
UNTIL; `Readings` is what rrule generates, `ExpandSeries` what a page gets,
`PlanSplit` the plan with its arithmetic of UNTIL and COUNT and the refusals of
`verifySplit`.  A year is scaled down to fourteen days in a long and a short month,
so that a series outlives the window a plan is verified over and a monthly one has
months without its day.

`SeriesPages` composes one event and edits what pages show of it: `Detach`,
`Split` (keeping the hour or not), `CancelShown`.  `starts` is `start_utc`, which the
sheet works out on the clock of its page although the new row has the zone of its event
(`NewStart`).  A row that does not repeat is loaded by it, a series always, and
both are drawn from reading and zone; `PageRange` is the range of a day, a week or a
month grid.  `due` is history: the readings that ought to be there.

`SeriesTransaction` is the other writer of the same tables, `packages/db`: a caller
loads a row, plans, updates behind the version guard, writes the successor or the
detached row, carries the exceptions, expands what it stored and compares, and
commits; each is a step, other callers act in between, and a transaction may be
rolled back at each.  What is written before the commit is in `calls`, what is
committed in `events`.  `path` chooses which of the two writers a behaviour has, as
no calendar is written by both.

`CalendarExport` writes a series as the export does, UNTIL turned from a wall time
into an instant, and reads it as RFC 5545 says.

### Dates, Holidays, HolidayPages

Real Gregorian days as numbers.  `Holidays` has the regions' tables: fixed days,
nth weekdays, days around Easter, substitutes for weekends; the names of the days are
written as identifiers.  `HolidayPages` has the
workspace's region, time zone and week start, and a page with the holidays of the
window around its anchor.

### CalendarPages, CalendarScreen, WeekGrid

`CalendarPages` says what an address means, which view and anchor the server falls
back to, and what each view fetches and shows.  In `CalendarScreen` a navigation is
`pending` until its page arrives, during which the person may click on, midnight
may pass, a write may end.  `deleted`, `saved` and `selected` are what the screen
keeps beside the page, `sealing` the cover of an audience switch.  `undisturbed` is
history, and so are `overtaken`, that the switch being shown gave way to a link to the
address already on screen, and the `face` of a navigation, agenda or week, on screen when
it was asked for.  The cover takes `<main>` and the floating button out of reach; the
header, the sidebar, the keys and the forms they open stay live under it, so links and
further switches may follow a switch, and an event may be created.

`WeekGrid` lays out one column: clusters with a running end, lanes inside one, the
hours drawn, the bands outside the owner's hours, the time an empty cell composes at.

### CloakStore

One action per public method up to its first `await` (`Unlock`, `Lock`,
`Ingest`, `IngestLocked`), and `Decrypt(p)` for each resumption of pass `p`.
`order` is the insertion order of the JavaScript `Map`, which an iterator follows
live.  A value stands for the ciphertext it was decrypted from, so a stale value
is one whose seal is not the seal held.  `heard` is what each field's
subscribers were last told.

### Session

`session` is the cookie, `vault` the IndexedDB keyed by account, `storage` whether
it can be used at all, `password` the root key inside each account's password wrap,
`tab[t]` a page and what it is in the middle of.  A root key is named by its
account, so a key filed under another one shows.  Each flow is a chain of requests,
one step per answer, each of which may fail: `SignIn`, `ReadWrap`, `Setup`;
`Prove`, `Ceremony`, `Persist`, `File`; `AskWho`, `Rewrap`, `UpdateAuth`;
`SignOut`, `EndSession`.  Row level security is the `session` in a guard.  Leaving
a page in the middle of a flow is the flow's failing and then the load.
`switched` and `out` are history: an account took over while a flow was under way,
and whether anything crossed the last sign-out.

### AccountKeys

`auth` is the password at GoTrue; `password`, `recovery` and `passkeys` are the
rows of `root_key_wraps`, each naming the secret that opens it and the root key
inside.  `flow[t]` is what a tab is in the middle of, between two requests:
signed in and about to read its wrap, setting up, holding a root key it has
opened to change the password, to reissue the phrase or to add a passkey,
between the two writes of a change.  A session that was resumed cannot give its
key's bytes, so each such flow starts from a proof (`ByPassword`, `ByPhrase`,
`ByPasskey`) and keeps the key while other tabs write.  `Fails` spends one of
`MaxFailures` where a request fails after a write or its answer is lost.  A
refusal that changes nothing is `Abandon`.  `suspect` says that the last change to
end was interrupted or overlapped another, `unseen` that a failure kept the phrase
in force from being shown; both are history, the premises of the properties.

### BillingWebhook and PlanPage

`handler[h]` is a transaction at one of its points: claimed the event, locked
the row, fetched from Stripe.  Postgres supplies the blocking: an uncommitted
claim blocks the same id, a locked row blocks a second lock and an upsert.
`Checkout`, `Pay` and `Change` are Stripe and the user.  `dropped` and
`failures` are history.

`PlanPage` takes the webhook as one step that may be late (the module above is
about what it does inside) and looks at the other side: a tab's `view` is the row
and, if Stripe answered, what Stripe said; `requests` are calls of the routes, each
a read of the row, a read or write at Stripe, an answer that may be lost.  `Turn`s
are Stripe's own: a renewal that fails, a period that ends.

### Policy and Visibility

`Policy` has no variables.  `Beats(a, b)` is `compareRules(a, b) < 0`, with the
conjuncts in the order the code looks at things: audience, and between two group
rules the group's priority, the more restrictive, the group's id; then the
scope.  `Winner` is the head of the sorted candidates, `Evaluate` the decision,
`Redact` what a page holds of the event, `Level` the step of the scale it is
shown as.  A rule is for one event or for `Everywhere`.

`Visibility` has the tables (`contacts`, `priority` for the groups, `members`,
`rules`, `events`), a `page` for each tab, and `save[t]`, a `set_visibility_rule`
that has read the group's priority and not yet written; `late[t]` is history: whom the
save names was removed, or given another priority, since.  The other functions are
one action each.  A page's people and rules may be of different age, as they are
read by queries of their own.  `SetPreset` and `SetCustomField` are the two ways
of the controls to say what a rule should be, the second from the fields on the page;
a rule's delete-on-purge is the foreign key's.  `Chip` is what the owner is told:
`privacyLevel` for an event, `baselineLevel` for `Everywhere`.

### Calls, the forms and SettingsPages

`Calls` is a form's call: made, done or refused at the server, its answer heard or
lost (`adrift`), a refresh on its way to the tab.  `CalendarForms` has the cells
that are stored and what each tab shows of them; `HoursForm` a draft of windows, the
table, a second tab, `MergeWindows` and what the server accepts; `NewRows` the rows
made and the draft a form is on; `RuleForms` the rules, the pages they are drawn
from, and `wish`, what the owner last wanted seen: what a preset says, or what the
screen shows (`OnScreen`) with the one field changed that is switched, and from then on
what each switch makes of it.  The code starts elsewhere (`ShownFields`): from the row's own
rule, or from the preset 'limited' where it has none.  The fields in which the two
differ when such a switch is thrown are kept in `tacit`.  `SettingsPages` runs one surface
at a time, chosen in the initial state: they share no row, and their product would say
nothing more.

### StripeSetup, EmailSetup, SetupScripts

A run is a sequence of requests with a position; it may be a rehearsal, which
writes nothing, and it may die between any two.  What it leaves at Stripe, in the
zone, at Resend, Supabase and Vercel is what the next run finds.  `plans.ts` is
edited between two runs; between two requests another tab adds an SPF record to the
zone, adds a sender to one that is there, or deletes one.
A zone's SPF records are a set: the survivor of a merge is the first that Porkbun
lists, which may be any, and the surplus is deleted in any order.  Both go by id: a record
edited in the meantime is written over all the same, one that is gone ends the run.
Every run that gets so far makes a key, and says that only the newest is in use before
it is; `RevokeOldKeys` is the owner who does as it says, at once or any time later.
`SetupScripts` runs one command, `Services` one command or the plan page: nothing passes
between them, and what is not followed stays in one initial state.

## 3. What the runs show

| Run | Question | Bounds |
|---|---|---|
| `event` | Do the tables stay consistent, does each occurrence stay where its owner put it, does a version stand for a page, can two tabs on old pages write over each other, and do the rows keep the ledger's promise? | 2 ids, 2 tabs, 2 days, 2 wall times, version 3, 1 creation |
| `edit_sheet` | Does a save or split lose or overwrite content unseen, or content a device cannot open? | 1 field, 2 contents, 2 tabs, one content opaque to one tab, version 3 |
| `series` | Does cutting, detaching or editing a series lose, double or move an occurrence? Do pages cut the calendar into days? Does the stored-split gate turn an occurrence away? Does an exported file read the same? | 3 rows; 8 templates of daily, weekly, monthly and single events with COUNT, INTERVAL, BYDAY in 6 zones with a change on day 24; edits and pages on days 23 to 25; transactions: 2 callers, 2 inputs, edits on day 24, version 3 |
| `short_range` | Does gate 3 of the transaction see every split that moves occurrences? (No: see "Where code and words disagree".) | `SeriesTransaction` with one biweekly rule, edits on day 25, ranges of a day on either side |
| `detached` | Is a single event always at the instant stored for it, as ADR 0001 says? (No.) | `SeriesPages` with one event of a zone no page is in |
| `screen` | Does every control land where it says; is a narrower audience's page ever read off the wider one; is a created event on the page that announces it? | 4 anchors around the end of January, 2 days to tap, 2 default views, one guest audience, one midnight |
| `settings` | Does what the last answer stored stand; is "Saved." true; what makes a second row; does a switch move the field it is of, and which others; does each cell show its holidays; can each column be read? | 2 tabs, 2 calls; 3 preferences, 2 calendars, 1 typed name; 2 windows in a day of 3, 2 edits; 2 drafts; 1 person, 1 group, 1 event, 2 fields; anchors around year ends, the middle of each month, and odd Easters; up to 3 blocks from 9 |
| `services` | Does money move only as a confirmation said; do instructions reach the subscription shown; does the page say what Stripe says; is somebody who paid sold it again?  Do commands that die anywhere and are run again end in one shop, and a domain that can send? | 2 tabs, 2 subscriptions, 1 turn of Stripe's clock, 3 requests; 2 amounts, 2 edits of `plans.ts`, 4 runs; 2 other providers, 3 changes in the panel, 3 runs |
| `session` | Is a key ever filed under another account; does signing out leave one; does a form hang? | 2 accounts, one not set up, 2 tabs |
| `billing` | Does each event settle, and settle on what Stripe says? | 1 workspace, 2 subscriptions, 2 handlers, 2 changes, 1 failure |
| `unlocking` | Is there one root key, does the sign-in password open it, was the phrase shown? In the store it opens: does every subscriber hear, does every record open, is what is shown current? | 2 tabs, 2 passwords, 2 phrases, 2 keys, 1 passkey, 1 failure; 2 fields, 3 seals of which one does not open, 1 key, 2 passes |
| `visibility` | Does any audience see more than the chip tells, does a contact's own rule decide, can a rule be left of nobody by anything but a late save? | 1 contact, 2 groups, 1 event, 2 fields, 1 tab, 2 presets, 2 saves, 1 removal or change of priority |

A run's properties are conjunctions of named parts, so that a run asks a few
questions and a counterexample still has a name: `TablesAgree` is
`ExceptionsAnchored`, `OneExceptionPerSlot` and `NoOrphanCiphertext`, and so on.

Why the bounds are enough.

* `event`: a split needs two ids; two days hold an occurrence before and one after a
  split point; two wall times are a retime; three versions are a write, a trash and
  a restore; a stale overwrite needs two tabs, of which the second repeats
  what any third would do.  Two splits of one series need three ids: with one tab
  they were checked while the model was built, the theorems below do without bounds.
* `edit_sheet`: fields are planned one by one, so one is enough; the second content is
  the one a tab cannot open, or the other tab's edit.
* `series`: each template is there for one thing: an occurrence in a gap, one that
  happens twice, a COUNT that spans the change, an INTERVAL of two weeks cut in the
  week that is skipped, a COUNT longer than the window a plan is verified over, a
  single event in a gap, a midnight that does not exist.  The pages look from zones
  that go forward, fall back, or do not change.  Three rows are two cuts of one series.
* `short_range`: the least range `assertVerifyRangeStraddles` accepts, around a day the
  rule skips.  In `series` callers verify to the end of the calendar, where
  `EditsKeepTheCalendar` holds: gate 3 then sees the mismatch and rolls back.
* `screen`: the anchors are a month's last Saturday, its last day, the next month's
  first and a week later, so that weeks, grids and months end at different places.
* `settings`: two calls can overtake each other, the second tab is the old page.
  The holidays run over real years: the ends of 2021 and 2024, where New Year's Day
  is observed in December or on a Monday, springs in which Easter meets another
  holiday, and years in which the lunar formula has its two exceptions.
* `services`, the commands: four runs let one die half way, one finish, one follow an edit, and one die.
  Three changes in the panel are a record, a sender added to it, and a second record or
  its deletion, of which any may fall between a run's reading and its writing.
* `services`, the page: three requests are two tabs that both act and one that acts again;
  two subscriptions are the one shown and its successor.
* `session`: two accounts are what a key can be mixed up with; the third tab would
  only be a second old page.
* `unlocking`, the store: a second seal of the same field is what makes a pass stale, the third is one
  no key opens, and two passes are one that is overtaken and one that overtakes.
* `visibility`: two groups and one contact are what makes a viewer who is asked about
  by nobody: in both groups, with no rule.  Two saves are an event's rule and
  a workspace's, or the rules of two groups; the one removal is what a late save
  comes after.
* `unlocking`, the wraps: two keys are two setups that race; two phrases are one in force and
  one being issued.
* `billing`: two handlers and two changes are the least that let an older retrieve
  land after a newer one.

In all runs the bounded counters (`MaxVersion`, `MaxCreated`, `MaxChanges`,
`MaxFailures`, `MaxSaves`, `MaxCalls`, `MaxEdits`, `MaxEdited`, `MaxRuns`, ...) and the finite ids
bring the model to a stop, hence `CHECK_DEADLOCK FALSE` where a cfg has it.

Fairness.  `billing` assumes that Stripe delivers an event until it is answered
200, which is Stripe's documented behaviour and what the webhook's error paths
rely on, and that a transaction that can go on does; failures are limited, never
prevented.  `unlocking` assumes that WebCrypto answers each call.  `session` assumes that
every request of a flow is answered or fails, and that an authenticator's prompt
times out.  Nobody is assumed to call a method, pay, sign in or click.  The other
modules have no liveness: nothing in them has to happen.

Premises.  Where the code does not keep a property in every case, the property
names the case it is not kept in, and a history variable knows it.

| Property | Not claimed | Why the code does not keep it |
|---|---|---|
| `CalendarKept`, `ImplementsLedger` | of a series split to another hour | exceptions keep the old hour |
| `VersionNamesPage`, the properties of `EditSheet` | of a page whose exceptions or fields were read before its version | one page is several queries sent together |
| `SplitsLoseNothing` | that pieces stay apart once one was retimed | as above |
| `PagesCutTheCalendar` | one column each, in the week the clocks fall back or for an event of another zone | columns are instants 24 hours apart |
| | that an occurrence detached on a page of another zone than its event's is on a page (`DetachedAbroad`) | its instants are of the page's clock, its reading of the event's: run `detached` |
| `LandsWhereAsked` | which face of a week is drawn, agenda or week, after a link from a page that holds none, or a toggle during the navigation (`KeepsFace`) | the face is the client's, set at mount and by the toggle |
| `ScreenTellsTruth` | that the cover comes down after a switch that gave way to a link to the address already on screen (`overtaken`) | it is released by a change of the query alone |
| `CreatedIsShown` | when other navigation followed the write | the notice belongs to an anchor, and revives |
| `PicksStand`, `SwitchesLand` | of cells chosen twice at once, on an old page, or unheard | the last to land wins |
| `SwitchesLand` | that a switch moves its own field only, where the row's own rule is not what the screen shows: the row has none, or a group's is outvoted by a stricter one (`tacit`) | what is sent starts from the row's rule, else from 'limited' (`visibility-control.tsx:179`, `visibility-sheet.tsx:210`); the screen shows what all rules decide |
| `HoursAreThoseStored` | of windows edited while a save was on its way, or saved over since | "Saved." is not taken back |
| `TwinsOnlyAfterLoss` | of a draft one of whose answers was lost | the id is drawn for each submit |
| `KeysStayApart` | when an account took over while a flow was under way | the account is asked for after the key is opened |
| `NothingLeftBehind` | when an unlock crossed the sign-out | keys are forgotten first, the session ends after |
| `OnePassword` | after a change that was interrupted or overlapped | two systems, no transaction |
| `PhraseInHand` | after an answer that was lost | the phrase is shown after it is written |
| `BooksAgree` | of a subscription one of whose events was dropped | its customer's checkout was not recorded yet |
| `ValuesBelong` | of a record replaced, or a store locked, in the middle of a pass | the pass goes on with what it started from |
| `OnlyLateSavesStray` | of a save that was begun before the removal or the change of priority it would have to know of (`late`) | the priority is read without a lock, and nothing asks whether the person is still there |
| `ShopSetUp` | that a price is archived which a dead run had replaced | the next run does not know of it |
| `MailSetUp` | one SPF record when another tab writes in between | the merge is of what was read |
| `MailSetUp` | that a sender keeps its leave when it was added, after the zone was read, in a record the run goes on to write over or delete (`raced`) | the write is by id and of what was read; the command's header warns of it (`email-setup.ts:30-34`) |
| `MailSetUp` | that mail is sent with a live key after that was revoked while a newer one was not yet in use (`early`) | the command advises it too early (`email-setup.ts:469-470`) |

### Where code and words disagree

Found while modelling; each was reproduced in its model.

* A cancelled occurrence returns to the calendar when a this-and-following split
  also moves the time (`edit-event.tsx:201`): exceptions travel to the successor
  keyed to the old wall time (0013:177), and expansion subtracts by exact wall
  time (0011:141).
* After "Refresh and keep my changes" the plan compares the form with the refreshed
  page, so a field nobody typed in, still holding the old value, counts as changed
  and overwrites the other tab's edit (`edit-event.tsx:137`); `field-changes.ts:27`
  promises the opposite.
* A workspace whose subscription ended is told it can buy again (`view.ts:40`) and the
  checkout route refuses it because the row still has a subscription id
  (`checkout/route.ts:40`).
* A setup that fails between its wraps and the workspace, or whose answer is lost, is
  never offered again (`cloak-session.ts:312`).  0006:98-105 adds two columns to tell
  this state; nothing reads them.
* A group that is Hidden or Busy in Settings and given Full on one event still sees
  what Settings says: the more restrictive is preferred before the scope is looked at
  (`evaluate.ts:104`).  The sheet says that what is set there overrides the default
  (`visibility-sheet.tsx:282`).
* Moving this-and-future can be refused (`split-plan.ts:214`), which a test says it
  is not (`split-plan.client.test.ts:199`): the gate of the pure planner compares with
  the old series' occurrences.
* A range with the split strictly inside is said to give "a real mismatch somewhere to
  show up" (`events.ts:326`).  A biweekly series split on a day of an off week, which
  nothing refuses, is not an occurrence's split: the successor falls on the other weeks.
  Verified over two days, nothing is compared with nothing and the edit commits.
  Run `short_range`; at an occurrence it cannot happen (`GateAlwaysAccepts`).
* An occurrence detached on a page of another zone than its event's is stored at the
  instant its reading has on the page's clock (`edit-event.tsx:200-207`), with the event's
  zone (0013:132-139).  Pages select it by the one (`events.ts:192`) and draw it by the
  other: by hours away from its instant, or nowhere.  ADR 0001 (`0001-recurrence-dst.md:24`)
  says of a single event: "A fixed instant. Never moves."  Run `detached`.
* "The view a link means is the view a link says" (`calendar-links.ts:23`): a page that
  holds a week is drawn in the face the client last had, set when the screen was mounted
  (`calendar-screen.tsx:236-239`), so Week, followed from the month page the calendar was
  opened on, shows the agenda.
* The cover holds "exactly as long as the fetch and not a frame longer"
  (`audience-transition.tsx:97`): Today or any link to the address on screen, pressed
  during a switch, takes the place of the switch and changes no query, so the effect that
  releases the cover (`:103-105`) does not run and the page stays covered and inert until
  the address changes.
* The email command says of its keys "Only the newest is in use — revoke the rest"
  (`email-setup.ts:469-470`) right after making the newest, and tells Supabase of it in the
  next step (`:593-594`), which may throw (`:487-492`) or never come: whoever revokes then
  revokes the key mail is sent with.
* A card that fails leaves the plan page without a control (`apply.ts:71-73` against
  `view.ts:47-48` and the copy it shows).
* In a zone that loses its midnight a day's range begins at one o'clock of that day and
  the day before has the hour twice (`range.ts:58-59`, `111-112`, against `7-11`).
* In the week the clocks fall back the hour grid has Sunday twice and no Saturday
  (`week-grid.tsx:305-307` against `295-296`).
* A detached occurrence is exported twice, as a row and inside its series
  (`server/export.ts:48,121` against `115-116`), and a series cut right after a gap
  exports one occurrence too many (`ical.ts:59-63`, `ical.test.ts:149`).
* `email-setup.ts:312-317` weakens an owner's `-all` to `~all`; `spf.ts:16-18` and
  `spf.test.ts:20` say that the owner's policy is kept.
* `finishUnlock` is said to work without IndexedDB ("the session still works"); the
  session it returns is used by no caller.
* 0031 says that every mutation refuses a row in the trash; `uncancel_occurrence`
  accepts it and bumps its version, after which a restore from an older page
  fails with a conflict.
* 0014 answers a repeated cancellation quietly, but its version check comes first
  and the first cancellation has bumped the version, so an honest retry after a
  lost answer meets a conflict; the quiet path is reached from a page whose
  exceptions were read before the cancellation and its row after it.

### Seen while reading

*Events and series.*  A new event whose answer is lost and is retried from the same
form makes a second event: the ids are drawn per submission.  `rpc-error.ts` explains
`occurrence_not_cancelled` as "already put back", which is not so when a later split
moved the exception; and after a lost answer it says that nothing was saved.  The
sheet resolves a time that does not exist to the earlier candidate, the expansion to
the later.  All-day
rows are filtered by slices of UTC dates.  The transaction of `packages/db` is called
by its tests only; it ignores the fields of an entire-series edit, its successor and
detached rows lose `all_day`, and "this" at a moment that is no occurrence makes a
stray event.  Its third gate compares stored with planned and so rejects lossy splits
off the rule and accepts lossless ones.

*A torn page* is worth knowing of: when the fields are read before the version,
a page can hold the current version and older content, and a save from it
overwrites what it never showed.  The code sends both queries together and
controls neither order.

*The screen.*  A step or a link during an audience switch discards the switch.  Choosing
one's own view again during a narrowing one is refused as the address on screen, and the
narrowing goes on.  The sidebar's "New event" and the key `n` open the form under the
cover, which the floating button is kept from.  A notice
of a write survives a change of view and revives on the way back.  The date the
screen was mounted on is not read again after midnight.  In a tall grid a short
block is drawn half an hour high and can lie over the next; an overnight block in
the last half hour reaches out of the grid.  "Both are in the DOM" is no longer so.

*Billing.*  An event of a customer whose checkout is not yet recorded is recorded
as done and dropped.  A checkout that is already past its retrieve then writes the
older state, and nothing corrects it, although `apply.ts` says that dropping it
"loses nothing".  The check against a second subscription reads our row, which only
the webhook writes: two checkouts opened before the first webhook both pass.
`apply.ts` catches a unique violation inside the transaction it aborted.  A preview
that is answered late can open a confirmation under a subscription that is ending
or another one; the server switches a subscription that is past due; an address
with `?checkout=done` says "Payment received" after a lapse.

*Keys and sessions.*  Two changes of the password at once can write their wraps in
one order and their sign-in passwords in the other; both pages say "Done".  The guard of
`removePasskeyWrap` counts before it deletes, in two requests; it is moot as long as
every account has a password and a recovery wrap.  A sign-out that is refused leaves
the session, an empty vault and a button that says "Signing out".  The middleware's
`?next=` is read by nothing.  A request that fails for a moment shows a page as locked,
and a locked tab stays so when another unlocks.  `lock()` in the middle of a
pass drops the values; the pass then writes further ones.  After `lock()` a snapshot
reads `missing` although its ciphertext is held.

*Rules and settings.*  A switch for one field sends the whole rule as the page has
it, so a second switch before the page is refreshed undoes the first; 0017 says
there is no partial state for a concurrent write to corrupt.  For an audience with
no rule of its own a switch starts from Limited, whatever the audience was seeing.
An audience with no rule is labelled "Hidden (default)" also when a group's or the
public's rule shows it more.  A rename from a page that still lists a removed
contact brings the contact back.  No screen passes a priority for a group.  Hours
that failed to load read as no hours, and a Save would erase them all.  A second
window after one that reaches midnight is offered and then refused.  The calendar
list has one busy row and one open name for all its rows.

*Commands.*  Between the creation of a price and the archiving of the old one
a run may die, after which the old one stays on sale.  A subscriber on an
archived price cannot switch cadence.  `RESEND_API_KEY` is pushed to Vercel and
read by nothing.

## 4. What is proved

For every value of the constants that the named assumptions admit (finite
fields; `None`, `Null`, `Nothing`, `Absent`, `Unset` apart from the real values; at least one day,
of two half hours or more; occurrences at times of the wall clock; windows of a day with
starts of their own, as the loader joins them; pages of 1970 and later), and
with `OrdinaryClocks`, `ShortJumps` or `WideRanges` where the table says so, TLAPS proves:

| Module | Theorem | Property |
|---|---|---|
| `EventLifecycleProofs` | `TypeCorrect` | `TypeOK` |
| | `TablesConsistent` | `TablesAgree` |
| | `VersionNames`, hence `VersionNamesAll` | `VersionNamesPage` |
| | `NoWriteIsBlind` | `NoBlindWrite` |
| | `NothingLostOrTwice` | `CalendarKept` |
| | `KeepsTheLedger` | `ImplementsLedger`, the refinement of `OccurrenceLedger` |
| `EditProofs` | `TypeCorrect`, `VersionNames` | `TypeOK`, `VersionNamesContent` |
| | `OverwritesSeen`, `UnreadableSurvives`, `SplitLosesNothing` | the three action properties |
| | `OccurrencesNeverLost` | `SplitsLoseNothing`, until a split moves occurrences to another hour |
| | `PagesAlwaysCut` | `PagesCutTheCalendar`, for `OrdinaryClocks` |
| | `ExportAlwaysShows` | `ExportShowsTheCalendar` |
| | `TransactionsAlwaysApart`, hence `GateAlwaysAccepts` | `GateAcceptsOccurrences` |
| | `EditsAlwaysKeep`, hence `EditsAtOccurrencesKeep` | `EditsKeepTheCalendar`, for `ShortJumps` and while `GateMissesNothing` |
| | `EditsOverWideRangesKeep` | `EditsKeepTheCalendar` and `GateMissesNothing` themselves, for `ShortJumps` and `WideRanges` |
| `BillingProofs` | `TypeCorrect` | `TypeOK` |
| | `NoneSwallowed`, `SettledIsCurrent`, hence `BooksKept` | `BooksAgree` |
| | `RowNeverGoesBack` | `NeverGoesBack` |
| `AccountKeysProofs` | `TypeCorrect`, `RootKeyIsOne` | `TypeOK`, `OneRootKey` |
| | `SignInOpens`, `PhraseWasShown` | `OnePassword`, `PhraseInHand` |
| `VisibilityProofs` | `TypeCorrect` | `TypeOK` |
| | `ChipTells`, `OwnRuleFinal`, hence `SeenIsSaid` | `SeenAsSaid` |
| | `StraysOnlyLate` | `OnlyLateSavesStray` |
| `SettingsProofs` | `PicksAlwaysStand` | `PicksStand` |
| | `TwinsAlwaysOnlyAfterLoss` | `TwinsOnlyAfterLoss` |
| | `SwitchesAlwaysLand` | `SwitchesLand` |
| | `HoursAlwaysThoseStored` | `HoursAreThoseStored` |
| | `ColumnsAlwaysRead` | `ColumnsCanBeRead` |
| | `HolidaysAlwaysHold` | `HolidaysHold` |
| `ServicesProofs` | `PaidTabAlwaysBuysNoMore` | `PaidTabBuysNoMore` |
| | `PlanAlwaysAsShown` | `PlanAsShown` |
| | `SetupTypeCorrect` | `SetupOK` |
| | `ShopAlwaysSetUp`, `MailAlwaysSetUp` | `ShopSetUp`, `MailSetUp` |
| `BrowserProofs` | `TypeCorrect`, `OwnKeysOnly` | `TypeOK`, `KeysStayApart` |
| | `SignOutLeavesNoKey` | `NothingLeftBehind` |
| | `StoreTypeCorrect` | `StoreOK` |
| | `SubscribersHear`, `NothingLeftSealed`, hence `QuietIsSettled` | `SettlesWhenQuiet` |
| | `IngestAuthoritative`, `LockedEmpty`, hence `NothingForeign` | `ValuesBelong` |
| | `DatesReadBack` | year and month of a day number, for every year |
| | `ScreenTypeCorrect` | `ScreenOK` |
| | `AlwaysLandsWhereAsked` | `LandsWhereAsked` |
| | `CreatedAlwaysShown` | `CreatedIsShown` |
| | `NarrowingAlwaysCovered` | the first half of `CoverIsHonest` |
| | `ScreenAlwaysTellsTruth` | `ScreenTellsTruth` |

The arguments.

*Events.*  `ExceptionsAnchored`, `OneExceptionPerSlot` and `NoOrphanCiphertext` are
inductive only together, on top of types.  That a split never gives its
successor a slot twice needs that an id not yet stored has no exceptions, which is
the first; that a detached row stays the day its exception names needs that
no action but purge changes the kind, first day or lineage of a stored row
(`RowsKept`), and purge takes with the row, or turns into cancellations, what points
at it.  `VersionNamesRow` needs that no page holds a version above its row's
and that a page with the current version has the current row (`PagesFromPast`);
every action that changes a row makes a version no page can hold yet
(`Advances`).  `NoBlindWrite` is then the guard of each action, read with that
invariant.  The other half of `VersionNamesPage` is about the exceptions, which are rows
of another table: the invariant (`SlotsInv`) is that a page that read them after the row,
and whose version is still current, has the slots that are excepted now.  Every action
that adds a slot to a series, takes one away or hands it over also bumps the series;
purge does not, but it turns the kind of an exception and keeps its slot.

*Lineages.*  `CalendarKept` speaks of what is on the calendar and is not inductive.
The invariant (`LineageInv`) speaks of the stored rows of one lineage that kept its hour:
exceptions name slots their series fills (`ExceptionsInRange`), the parts of a split
series share no day (`PartsApart`), a detached row is excepted from whichever part covers
its day (`DetachedExcepted`) and is the only one for it (`DetachedApart`), and what was
cancelled is excepted from the part that covers it, with no detached row standing in
(`GoneExcepted`).  It stays true because a write acts on an occurrence its tab was shown,
which by `VersionNamesRow` the stored row still covers (`PickedSlot`), and because a
split hands the exceptions from its point on to the successor that covers their days.
The ledger is then two sets of stored rows: `Kept`, the days some stored row of an unmoved lineage
covers, and `Shown`, those of them an active row shows; the calendar is the second
and what can be put back is the difference (`LedgerView`).  Most actions leave `Kept`
alone and only add to `Shown` or only take from it (`ShapeRises`, `ShapeFalls`); a detaching split
leaves both, creation adds the same days to both, a purge takes from `Kept` what was not
shown, and a split to another hour takes the lineage out of both.

*Sheets.*  The inductive invariant is that a load or a page that took the version first and still
has the current version has the current content.  Writing content
bumps the version, so the premise turns false for everybody else.

*Series.*  The lemmas about clocks come first: the instant of a reading is one of two
shifts of it (`InstantIs`), readings and their instants are in the same order
but for the two sides of one jump (`OrderKept`).  A rule truncated before
an occurrence generates exactly what the old one did before it (`TruncatedIsPast`), and the
successor's COUNT, less the days counted before, makes it generate exactly the rest
(`SuccessorIsFuture`), which is arithmetic of intervals for INTERVAL and of
cardinalities for COUNT, and of no window.  `SplitsLoseNothing` is inductive with little
more (`RowsInv`): exceptions are of rows that repeat, and a reading has one exception.
What is cut is a piece at an occurrence it shows; the pieces are disjoint, so both halves
are disjoint from the others, and the successor takes the exceptions of the days it takes.
The hypothesis is `~retimed`: no split so far has moved the hour.  In the export, the instant UNTIL is turned into and the
instants of the occurrences are compared, which by `OrderKept` can only disagree inside the gap.

*Pages.*  Every range runs from one midnight of the display zone to another
(`RangesAre`), and a midnight the clock shows separates the instants of the days before it
from those after (`MidnightsCut`): hence pages have the days they are for.  That a
page misses nothing needs that the two days a window is padded with reach further than any
jump (`WindowReaches`), and that a single event's stored instants meet the range its
occurrence starts in (`SingleLoads`), which compares the instant the sheets store for a
skipped reading with the one the expansion finds.  The invariant (`PagesInv`) adds to
`RowsInv` that every row has the zone and the duration of a template, and that a single
event is stored at the instant of its own clock or, if an exception says that it was
moved, of the page's (`StoredWell`), which is the same where the zones are.  The hypothesis
`OrdinaryClocks` is about zones and durations alone, and TLC evaluates it for the zones of the run:
a workspace's clock changes by at most an hour and skips no midnight (a range that starts
where the clock skips midnight starts at one o'clock, and so does every day added to it),
and an event lasts at least as long as the hour its own clock skips.

*Transactions.*  A caller that passed the version guard holds the row, so between its
statements nobody writes it: the invariant (`TransactionInv`) says that its id is nobody
else's, that two holders hold different rows, that what it read under the guard
is what is there, and that its own view of the tables is those with the
plan of that row written into them (`WritesItsPlan`).  What gate 3 compares is therefore the
plan of a row with the row, and for an occurrence the two lemmas about rules apply.

What the committed rows show (`EditsKeepTheCalendar`) changes in a commit alone, which
shares the instants of one row out between two, or bumps its version.  The invariant
(`StandInv`) adds to `TransactionInv` what a caller will do to exceptions: each of those it
is about to write was one of its row, under the id of the half that shows that day
(`WritesItsExceptions`), and an occurrence detached was one its series had when it was
picked (`Picked`).  Both survive what other callers commit, as they hold of a row at a version
(`StandOutlives`).  A set of readings cut in two gives two disjoint sets of
instants only where no two readings of one series are one instant: they are at one hour of
different days, so a jump of 23 hours or less does (`SameHourApart`).  That is `ShortJumps`,
of the zones callers may store and evaluated by TLC for those of the run; it leaves out a
zone that dropped a whole day, as Samoa's did in 2011.  The other hypothesis is the hole the
finding is about: that gate 3 has let no split through that is not whole.  It holds while
every split is at an occurrence, by `GateAlwaysAccepts`, so `EditsAtOccurrencesKeep` asks
nothing of ranges; and `short_range` shows that it does not hold by itself.

What `short_range` violates is a matter of the range alone.  `EditsOverWideRangesKeep`
drops the hypothesis for callers whose range reaches the end of the calendar
(`WideRanges`, which TLC evaluates for those of `series`), wherever in a series they split it:
`GateMissesNothing` is then itself invariant.  A successor without an occurrence is refused, so UNTIL does not
come before the split; a COUNT with nothing left is refused, and a COUNT that had left an
earlier day out would have nothing left (`CountIsFilled`, `CountCovers`).  The truncated rule therefore
shows what the old one showed before the split (`CutIsPast`), whatever part of that the
range covers, and from the split on the gate sees everything, so the rest must match
(`WideGate`).  The invariant (`RangeInv`) follows the range, the hour and the
straddling from the command to the successor it is about to commit.

*The store.*  The two halves of `SettlesWhenQuiet` are about moments with no pass
under way and are not inductive.  The strengthening says what a running pass still
owes: each field whose subscribers heard something else, and each record not yet
opened, is at or after the position of a running pass.  Since a pass
walks the live order and `Ingest` appends at its end, every new debt lands ahead
of a pass that has begun or of the one that `Ingest` starts.

*Billing.*  `SettledRowIsCurrent` is a statement about a quiet moment, so the
invariant says what holds in the middle.  A row is at least as new as each event
of its subscription that was applied and not dropped (`RowInv`); a handler's snapshot is no older
than its event and, under the lock, than the row (`SnapshotHeld`); two handlers
never hold one event or one row (`Apart`).  The case that matters is a checkout
that found no row and therefore holds no lock.  It can still not put an older
state over a newer one: any other event of that subscription is applied only to
a row that names its customer, which nobody has written before this checkout
commits (`ClaimInv`).  Such events are dropped instead, which is the premise of
the property.

*Account keys.*  That there is one root key is inductive once it speaks of the
keys that flows hold (`KeyInv`): before the first wraps land nothing holds a key
but setups that the unique indexes will refuse, and afterwards every proof opens
a wrap that holds the one key.  For the password, the invariant adds that the
wrap is still that of a change which is alone between its writes
(`PasswordInv`); its second write then makes the two agree whatever earlier
changes left behind.

*Visibility.*  `Beats` compares five numbers in turn (`BeatsByRank`), so it goes
one way only; the five together tell the rules of a viewer apart
(`RanksTell`), so taking the least by each in turn leaves one rule that
beats all the others (`HasWinner`).  That needs that no audience has two rules for one
scope, which is the inductive invariant: every write is an upsert by that key, and
a page copies the table.  A smaller set of rules that keeps the winner has the same
one (`SubsetWinner`).  `ChipTells` follows: the rule that decides for any viewer is
about an audience the chip asks, and that audience is subject to no rule the viewer is
not (`AskedSeesSame`), so it sees the same.  A viewer with no rule at all sees
nothing because the default is hidden; with another default the proof fails, as
the comment in `audience.ts` warns, and so does the mutant `BusyByDefault`.
`StraysOnlyLate` needs that a save which is not late carries a rule that is not
stray (`OnTime`): whatever changes a priority or removes somebody makes late the
saves that name them, and leaves what the others name as it was.

*Sessions.*  The invariant of `OwnKeysOnly` says what every flow owes while no
account has taken over: a key in hand is the session's until an account was asked for,
and that account's from then on (`HoldsOwn`); and a tab that has not asked was told of
nobody (`NotTold`), which is what lets a panel that is left in the middle of its unlock
file its key late under the session.  A step of one tab leaves the others' debts as
they are because a change of account with a flow under way sets `switched`
(`OthersHold`).  For `SignOutLeavesNoKey`, a sign-out that nothing crosses leaves the
vault empty and no flow that may file a key (`Clean`), and every beginning of such a
flow afterwards is either with an account or marks the sign-out as crossed.

*The calendar screen.*  What a control promises is said about the page that arrives, so the
invariant (`ScreenInv`) says of a navigation under way what its address holds: the day
asked for is in the range the server will fetch for it (`Asked`), or the address is
the one on screen for another audience.  It survives what happens before the answer, a
new default view, midnight, another toggle, because an address that names no view or no date
promises none, and agenda and week are two faces of one page (`Alike`); that the face drawn
is the one asked for, but in the two cases of `KeepsFace`, is because on a page that holds a
week every control that asks for a week asks for the face on screen (`Faced`).  Each control then
owes that the day it is about is in the range of the address it links to
(`LinkHolds`).  For a cell of a grid that is its own address (`AnchorHeld`); for a step of
a month it is calendar arithmetic (`StepBeyond`): months follow each other
(`MonthsFollow`), a date is in one of them (`OneMonth`), six rows from the week of its first
hold all of it (`CellsHold`).  The cover is inductive with a link's carrying
the audience on screen (`CoverInv`); that it goes needs in addition that what is under way
changes the address (`CoverGoes`): the switch does, because a switch to the address on
screen is refused, what the screen follows of a creation does, because it goes to another day,
and of the links that take a switch's place only the one that sets `overtaken` does
not.  `CreatedInv` follows a write: its page
shows its day already, or is the one on its way and refreshed after it.

*Forms.*  All four invariants say what the calls in flight will do to the row they are
about.  For a cell not in doubt there is at most one call, and it carries the pick or has
stored it (`CarriesPick`); whatever makes a second one sets the doubt.  The one call
of a draft that is awaited is the open form's, an answer that was lost has its draft
in `broken` (`OfTheForm`), so a row and an unanswered call of one draft never meet
outside it.  For a rule the same is said of `wish` (`CarriesWish`), but for the fields in
`tacit`; it needs in addition that keys and ids of rules name each other, on old pages too,
because a reset deletes by id and a preset upserts by key.  A switch flips its field in
what is wanted and in what is sent alike (`FlipsAlike`), so what is left to show is that the
two start alike: where the row's own rule decides, the screen shows its fields
(`StartsFromScreen`, for which a rule that tells no time tells no field, `Tellable`), and
after a first switch both start from the rule in force.  "Saved." is true when it is said because an
awaited save is the only one (`HoursInv`), and what may break it later sets `overtaken`.

*Folds.*  What a loop over a list computes is a fold, which the community modules define by a
function that is chosen; the library's induction takes an operator as a parameter and cannot
be used.  So the function is built from its value at 0 (`FoldExists`), an order of a finite
set is made by counting who comes before whom (`OrderExists`), and a statement
about every step is proved by looking at the least step it fails at (`LeastNat`).  The week
that is loaded (`WeekLoaded`) is the example: after i rows its windows are apart, have
the minutes of those rows, and the last began no later than row i (`WeekSoFar`), for which
the rows have to come in order.

*The week grid.*  Its clusters, lanes and gaps are folds too.  After i blocks, in the order of
their starts, each cluster is linked, a block of it beginning before all before it
have ended (`Linked`), and has ended when the next begins (`Follows`); so blocks that meet
are in one cluster (`ClustersAre`).  Within a cluster the lanes hold (`SeatsHold`): in a lane one block ends
before the next begins, and a lane is only opened by a block at whose start all the
others were taken.  That block is under way with one of each lane, so there are as
many lanes as blocks under way at once, by counting (`CountLanes`).  What is shaded
is what lies between the ends so far and the next window (`GapsSoFar`); every block and
window lies between the hours the grid spans (`GridSpans`), and so does what an empty
cell composes (`CellsCompose`).

*The holidays.*  A page is always the one its settings give for its date (`HolidaysInv`);
the rest is arithmetic.  Every date of a rule lies between two days of the year,
counted from 1 January (`Between`; for Easter, `EasterIs` compares the two computations
remainder by remainder).  So for each table it can be said which rows come near
which (`RowsSpaced`): a row that is moved has at most one neighbour in reach, one that is
moved as the United States do has none, which is what the comment in that branch
claims.  The second pass is a fold: after i rows there are the days themselves and the
substitutes of those rows, each a weekday clear of all others (`YearsAre`), because its
neighbour takes at most one of the two weekdays it may have.  Hence a year's holidays keep
within it but for the day before (`Keeps`), two neighbouring years are enough, and the
window of 60 days covers the five weeks before a date and the six after it that a page
may draw (`DrawnNear`).

*The plan page.*  A route that acts has read the row again and found the subscription
its request names (`RequestOK`), and a confirmed switch carries the price of the dialog that
asked for it; a tab whose page came back from paying has no checkout among its requests
(`Belongs`), since it went to Stripe with none and offers none.

*Provisioning.*  `ShopSetUp` speaks of a run that ends.  In the middle of one, what it has
found so far is on sale at the amount it read (`RunKnows`), the price it is about to archive
has passed its key on (`ArchiveKnows`), and an active price without a key is that one or one
a run died over (`KeysNameActive`).  One key to an interval and numbers that only
grow make "found" and "on sale" the same price for the next run too.  `MailSetUp`
needs who may send to depend on no record still to be written over or deleted, but for
those who raced with the run (`SendersKept`), and,
while nobody else writes, that the zone is what was read, with the survivor in place of
what it was (`ZoneAsRead`).  That the key Supabase is about to get is live follows from its
being the newest, which nobody is advised to revoke (`KeyInHand`).

Not provable with the tools at hand and left to TLC: liveness (`EveryEventSettles`,
`EventuallyOpened`, `NeverStuck`), as `ENABLED` and fairness are outside the prover, and what
the recursive definitions of `Recurrence` compute.  True on the instances but not for
every value of the constants: `SplitsLoseNothing` after a split to another hour
(a series longer than the window its plan is verified over, retimed to an earlier
hour, may gain an occurrence), `PagesCutTheCalendar` without `OrdinaryClocks`, and
`EditsKeepTheCalendar` where splits may be off an occurrence and ranges short, which
`short_range` violates.

## 5. What is not modelled

* Cryptography: primitives without state.  The models take from them that a key
  opens a ciphertext or does not.
* The design system: tables of colours and sizes.
* The awaits inside `CloakProvider`'s effect, when a page is replaced while its
  session is still being resumed and two stores are alive for a moment.
* Row level security and the middleware beyond where a request lands: every model
  has one owner, `Session` two that do not see each other's rows.
* Wraps for paired devices, which no code writes yet.
* All-day events in the write path: the same functions with a date where a wall time
  is.
* Yearly rules, BYMONTHDAY and the like, which no screen makes; RDATE.
* The folding and escaping of lines in an exported file.  There is no importer, only
  the parser its tests use.
* A detached occurrence that is given another hour in the same save ("this" with a new
  time).  It is stored like an occurrence moved by a split, `starts` from the hour typed in.
* Popovers, the aggregate of a crowded cluster, shortcuts, copy and looks of the screens.
* Rules' time windows (`reveal_at`, `expires_at`): no function or screen writes
  them.  The engine's refusals of malformed input, which deny.
* Billing events of other kinds, which change nothing, and one customer bound to
  two workspaces.
* The seed, which fills an empty database once, and the build.

## 6. What could come next

1. `CloakProvider` composed with `CloakStore`, effect by effect.
2. The event write path with a date where a wall time is, if the functions for all-day
   events come to differ.
3. The importer, when there is one: what `fromIcalSeries` makes of what
   `toIcalSeries` wrote.
