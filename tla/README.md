# A verification project for Commit

Commit is a productivity application: tasks, focus sessions, habits, notes with reminders, and a
dashboard. A Go backend (`src/backend`) serves JSON over PostgreSQL; a React app
(`src/frontend/apps/app`) and a public web site (`apps/web`) are its clients. Two replicas of the
backend run (`src/infra/k8s/backend/deployment.yaml`), each with its own background schedulers, and
they coordinate through the database alone.

This directory holds TLA+ models of the parts of it in which steps of several actors meet, the TLC
configurations that check them on small instances, and TLAPS proofs for every value of the constants.

## 1. Inventory

| component | state it keeps | operations | what is hard, and what makes it correct |
|---|---|---|---|
| Active focus sessions: `models/active_focus.go`, `services/focus.go`, `handlers/focus.go`, migration 025 | `active_focus_sessions`: status, accumulated seconds, open segment, heartbeat, last change | start, pause, resume, heartbeat, complete, discard; the heartbeat scheduler pauses and discards | statements of one session from a page, its closing beacon, other tabs and two schedulers. One active session per user; each session ends once and is recorded once; seconds are counted at most as often as lag and rounding explain; a session nobody tends ends |
| Focus history: `models/focus.go` | `focus_sessions`, the log of the habit Focused study | written by a completion; list and statistics | a completion across midnight; the log exactly when the day's minutes reach the minimum |
| Reminders: `models/reminder.go`, `services/reminders.go`, migration 023 | `reminders`: cron, next fire time, last firing, active | create, update, delete; the scheduler claims the due rows under row locks and mails them after the commit | two schedulers, updates between their own statements, crashes between commit and mail. No firing is mailed twice; only what is due fires; what is due fires |
| Reminder notifications: `hooks/useReminderNotifications.ts` | a cursor in the browser | polls every 30 s | claims commit in another order than their instants, and a stamp is compared as a string: is every firing shown? |
| Tasks: `models/task.go`, `services/tasks.go` | `tasks` | create, update, delete; completing a recurring task inserts its next occurrence | an update is three statements without a transaction. One occurrence per completion, of a later date, as long as updates of a task do not overlap |
| Sessions and tokens: `services/auth.go`, `handlers/auth.go`, `models/refresh_token.go`, `middleware/auth.go` | `refresh_tokens`; the cookies of the browser | register, login, refresh (rotation), logout, password reset | rotation is four statements; answers get lost or overtake each other |
| API client: `lib/api.ts` | `isRefreshing`, `isRedirecting`, the queue of a tab | retries a call answered 401 after one refresh | calls and tabs that expire at once. One refresh at a time, no call waits for ever, nobody is logged out of a live session |
| Habits: `models/habit.go`, `services/habits.go` | `habits`, `habit_categories`, `habit_logs` | categories, habits (soft delete and revival), reorder, log, analytics, matrix | checks outside the statement they guard; an update that fills in what it read |
| Habit matrix and dialog: `components/habits/*`, `hooks/useHabits.ts` | cached list and matrix, an edit row, a dragged order | log a cell, edit, create, delete, drag | the rule of completion is written twice; late answers against open rows. Cells and rows end as the server has them, no habit is hidden or doubled, a save changes only what was entered and a dragged order stays, but for saves that overlap others |
| Notes and their page: `models/note.go`, `pages/NotesPage.tsx`, `hooks/useNotes.ts` | `notes`, `note_links`; the ids the page remembers, a form | search, create, edit, preview, delete; backlinks | what is shown is worked out at every render. A text is saved to the note it was typed for |
| Reminder forms: `components/RemindersSection.tsx`, `lib/cron.ts` | rows, a form with presets and a cron | create, edit, toggle, delete | two views of a schedule. What is sent is what is shown |
| Tasks page: `pages/TasksPage.tsx`, `hooks/useTasks.ts` | a query per tab and filter, a form, a text edited in place | filter, create, move, complete, edit, delete | lists that are left while something is in flight |
| Focus page and store: `pages/FocusPage.tsx`, `store/useFocusStore.ts`, `hooks/useFocus.ts` | a local copy of the session, the timer | start, pause, resume, complete, discard, breaks, ticks, leaving and returning | local changes against late or lost answers, other tabs and the scheduler. The pomodoro at zero is completed, its break follows its record, a refused start shows why |
| Dashboard: `pages/DashboardPage.tsx`, `models/dashboard.go` | the order of the widgets (`users.widget_layout`) | customize, drag, save, cancel; figures are reads | stored orders of other versions, late answers. Every widget is there once |
| Migration runner: `db/migrate.go` | `schema_migrations` | runs at start-up | replicas that start at once |
| Rate limiter: `middleware/ratelimit.go` | a map of limiters per address | allow, cleanup | eviction while a request holds a limiter |
| Users, administration, mail, configuration, metrics, web site, UI library, infrastructure | | single statements, I/O, presentation | |

How they interact. The page sends requests to the focus handlers; a completion writes the history and
a habit log in its transaction; deleting a task asks whether an active session has it, and cascades over
sessions and history; deleting a note cascades over its reminders and links; the schedulers of all
replicas write the same rows as the requests; every request passes the check of the access token, whose
refusal starts a refresh in the client. A page of the app keeps what it shows in queries; every mutation
invalidates the queries it may have changed, and their refetches meet other mutations, forms that are
open, and the user. `PROJECT.json` lists every component with its status, and under
`hazards` what can go wrong at which line.

## 2. What is modelled

One SQL statement outside a transaction is one step, because PostgreSQL makes it atomic and nothing
more: the requests of the backend mostly run statement after statement without a transaction, and that
is where the interleavings are. A transaction that holds the lock of its row from its first read to its
commit is one step too (`Complete`); the claim of reminders, whose locks others skip, is two. A request
can fail or be cut off at any statement (`Abort`, `UpdateAbort`, `TickAbort`, `Break`); what it has
written stays. History variables (`mailed`, `completions`, `spawned`, `dropped`, `overlaps`, the
field `opened` of a session, `strayed` of a habit, `missed` and `late` of a query, the firings a browser has `shown`)
record what the properties speak of and are read by no guard but the named bounds.

### ActiveFocus, FocusLifecycle, ActiveFocusProofs

`session` is the table `active_focus_sessions`, `history` and `study` are what a completion leaves in
`focus_sessions` and `habit_logs`, `tasks` the ids of the tasks. `req[r]` is a handler with the
statement it is about to run (`pc`) and the instant it has taken; `sweep[i]` is the scheduler of an
instance. `Arrive*` is a request with its `time.Now()`; `StartCheck`, `StartInsert`, `StartReread` are
the handler of a start, `Exec*` the UPDATEs, `ReadBack` the read after them, `DeleteCount` and
`DeleteTask` the delete of a task, `SweepPause` and `SweepDiscard` the two statements of a tick. The
partial unique index is the guard of the INSERT, and the CHECK on `elapsed_seconds` makes a statement
that breaks it fail. A statement may use an instant up to `MaxLag` ticks of the clock old. A
second has `TickRate` ticks: `Rounded` is the `::int` of the statements, which rounds to the nearest second, a half
away from zero, and `Truncated` the conversion in Go, which a completion uses. So each pause may credit up to half
a second that did not pass.

`FocusLifecycle` is what the component promises in terms of owner, phase and recorded rows: a small
state machine with one active session per user. `ActiveFocus` implements it (`ImplementsLifecycle`);
the mapping reads phase and owner off the row and recorded off the history.

Abstracted: tags, message and planned duration (carried along); the kinds `short_break` and `long_break` are one;
one clock for backend and database; logs of Focused study a user writes by hand, and deleting the user.

### Reminders, RemindersProofs

`reminders` is the table; `arms` counts how often a row was armed and, with `next_fire_at`, names a
firing. `UpdateRead` and `UpdateWrite` are the two statements of an update. `sched[i]` runs `Tick`,
`Select` (FOR UPDATE SKIP LOCKED with ORDER BY and LIMIT: `Batches`), `Commit`, `Mail` per row, `TickEnd`,
and `TickAbort` anywhere: a failed statement, the timeout, a crash. Since the SELECT has no OF, it locks
the joined notes and the user too, and an INSERT whose foreign keys name them waits. A cron is its period,
0 for one without any occurrence, whose next one is Go's zero time. `browser[b]` is the loop of
`useReminderNotifications`: request, answer or failure, cursor; one poll at a time. `WrittenBefore` is
the order of the stamps as strings, by which the cursor moves: a stamp of a whole second has no fraction and comes
after the others of its second.

### Recurrence, Tasks, TasksProofs

`Recurrence` is `nextRecurrenceDate` as operators over day numbers, with the calendar of `time.AddDate`
(month lengths, leap years) and the overflow of a day the next month does not have. `Tasks` is the table
and the update: `UpdateRead` (read and merge), `UpdateWrite` (every column, with the CASE of
`completed_at`), `UpdateSpawn` (the next occurrence, made of the row as read), `UpdateAbort`. Any number
of updates may overlap; `overlaps` counts those that read a task while another update of it was still to write. The POST
handler passes no rule on, so `Create` makes tasks that do not recur; a rule comes with an update.

### ApiClient, ApiClientProofs

One number names the pair of tokens that a login or refresh issues. `call[c]` is an API call from the
interceptor's point of view, `tab[t]` the variables of `lib/api.ts` in a tab, `jar` the cookies. `Lookup`,
`Revoke`, `Sign` are the statements of `RefreshAccessToken`; `SetCookies`, `Refreshed`, `RefreshFailed`,
`Toast`, `Redirect` are the turns of the event loop that follow. An answer to a page that has left is
ignored and sets no cookie. The refresh cookie has the path `/api/v1/auth/refresh`, so a logout does
not carry it and deletes no row.

### FocusPage, FocusPageProofs

The page, its store and its query against the server's sessions. `store` is `useFocusStore`, `page` what a mounted
FocusPage holds (its pending state, error, the running completion, the requests whose callbacks it still hears),
`cache` the query `["focus","active"]`, `wire` the requests in flight. A click is an `On*` action, guarded by
`Buttons` as the JSX shows them; `AutoComplete` is the effect at zero, `TickTimer` the interval, `Leave`, `Return`,
`Reload` navigation and the beacon of `pagehide`. `Serve` is the handler in one step (its statements are in
ActiveFocus), `Receive` the answer with the hook's callbacks, which always run, and those given to `mutate`, which
run only for the latest call while the page is mounted; `Lose` loses a request or its answer, and of a GET stands
for all its retries: `GetFailed` is the query in error, which keeps its data and is not fetched again until the page
is left. A refetch that is asked for while the first GET is out joins it. `Expire` and `OtherTab` are the scheduler
and another tab. The server's side implements `FocusLifecycle` (`FollowsLifecycle`), the machine the backend's
tables implement too: that is what joins the two models.

### Query, Arrays, Pages and the pages

`Query` holds what the pages use of TanStack Query as `queryClient.ts` sets it up: a fetch is sent, served and
landed; an invalidated query that is observed drops its fetch and sends another, one whose first data is still out
does not, one nobody observes is marked stale and forgets the mark when a fetch lands; a component that mounts joins
a fetch. A fetch may fail once its retries are used up (`FetchFails`), which leaves the data as it was; a mutation
may get lost before the server or after it, or go through and answer an error, as a note's save does when the read
after its commit fails (`Lost`): then no `onSuccess` runs and nothing is invalidated. `missed` records that the data
may lack something nothing is going to fetch, and `late` that so may what is about to land. The 30 seconds of
`staleTime` are not counted: data goes stale by invalidation only.

Each page module has the server's rows as far as the page sees them (`db`), the page (`view`), its queries
(`query`), the mutations in flight (`net`, `Slots` of them) and a count of user acts. A request is sent,
served (`Serve*`, the handler; its statements apart where they race: `LogCheck` and `LogInsert`,
`UpdateRead` and `UpdateWrite`, `ReorderCheck` and `ReorderCommit`, the count before a category goes) and
settled (`*Accepted`, `*Refused`, the callbacks), or lost (`Lose`, an act like the user's); `LandQuery` is a refetch
that arrives and `FailQuery` one that does not, with what waits for
it: where `onSuccess` returns the promise of its refetch, `mutateAsync` ends there, else at once.

- `HabitEntry` is one habit: its cells, its edit row, its row and logs; a save reads the row, merges what was entered,
  and writes every column of it in a later statement; on `HabitRules`, which has the rules
  of scheduling and completion of both sides, the validation of `services/habits.go` and the toggle values.
- `HabitList` is the dialog's list: drag and drop with the optimistic order, edit and delete rows, creation
  with revival, categories; the table under it. Of a save of an edit row it has what concerns the order: `UpdateRead`
  takes the number of the row and `UpdateWrite` puts it back, whatever a reorder has done in between. `strayed` marks
  such a row, and one that was revived.
- `NotesPage` is the list under a search and what stands beside it: `ActiveNote`, `FormKey` and `FormNote`
  are worked out from the page and the list as in the render; `Rendered` keeps or remounts the form.
- `TaskPage` is the tabs and filters with a query each, the form and the card edited in place.
- `NoteReminders` is the rows and forms under a note, on `Cron`: `PresetToCron`, `DetectPreset`, `IsValidCron`.
- `DashboardLayout` is the order of the widgets.

`Arrays` is what the dialog and the dashboard do with arrays of ids: filter, `indexOf`, `arrayMove` and
without repetition. A filter is written by rank (the n-th of what is kept has n of the kept up to it) and not
with `SelectSeq`, which is recursive and of which the provers know nothing.

`Pages` has one of the pages open: they have the same variables and nothing else in common, so one
specification and one run have them all, and `MCPages` gives each its bounds. Its assumptions are on the data:
a slot is not 0 (a form waits for none with 0); a cron typed as text has five parts or stands for what is no
cron; the numbers of a habit are whole; ids are not 0 and no category is called "none"; the registry and
what earlier versions of the app have stored name a widget once (the server stores the list it gets, and
the app sends its own order, so no other list gets there through the app).

## 3. The runs

| run | what it asks | bounds | result |
|---|---|---|---|
| `focus_core` | safety of ActiveFocus and the refinement of FocusLifecycle | 1 user, 1 task, 2 sessions, 2 handlers, 1 scheduler, 2 days of a tick, two ticks a second, grace 0, a work and a break start | holds |
| `focus_timing` | types and the bound on over-credited time with instants up to half a second old; stale sessions are paused, untouched ones discarded | 1 session of up to 2 segments, 2 handlers, 3 instants half a second apart | holds |
| `focus_task_delete` | an active work session keeps its task | 2 handlers, no scheduler | violated: a start between the count and the DELETE |
| `reminders` | no double mail, only due reminders fire, cron and fire time agree, what is due is claimed | 1 reminder, 2 crons, 1 update in flight, 2 instances, 1 browser | holds |
| `reminders_poll` | no firing behind the browser's cursor | 2 reminders, 2 instances, 1 browser | violated: a delayed tick stamps an instant older than the cursor |
| `tasks` | one occurrence per completion but for updates that overlap, of a later date; the completion date | 2 tasks, 2 updates in flight, one of which may change date and rule, 1 completion and 1 overlap per task, rules weekdays and monthly, from Friday 29 January 2027 over 2 days | holds |
| `tasks_double` | exactly one occurrence per completion | 2 tasks, 2 updates in flight, rule daily, 1 completion | violated: two occurrences |
| `client` | one refresh per tab, every call settles, no needless logout | 1 tab, 2 calls, 2 expiries, 2 logins | holds |
| `client_tabs` | no needless logout with 2 tabs | 2 calls, 1 expiry | violated: the tabs refresh with one cookie |
| `focus_page` | the page keeps to the life cycle, its break follows a record, a pomodoro at zero ends, a refused start shows the session unless its fetch fails | 2 sessions, a pomodoro of 1 s, 2 requests in flight, 3 acts of the user, the network, another tab or the scheduler | holds |
| `focus_page_stale` | the page agrees with the server again and again, with nobody else and nothing lost | as above | violated: the first GET lands after the answer of a start |
| `pages` | every page ends with what the server has, but for what missed a lost answer or a failed fetch; no habit or widget is hidden or doubled; forms write what they show, where they were opened | per page: 2 requests in flight, 2 to 6 acts, losses and failures, 1 to 3 rows | holds |

Every property of a passing run has a mutant in `PROJECT.json`: a plausible slip in one definition that
makes TLC violate it under the same configuration.

Why the bounds are enough. Every race the hazards name is between two statements of two actors about one row, so two
handlers (or two instances, calls, tabs) and one or two rows show it; `focus_core` has two sessions so that one can
start when the other ends, and two days so that a session can cross midnight. Clocks are as long as the longest wait
to be told apart needs: a grace period of 0 s is over one second later. Ids are not used again after a delete, as
with UUIDs, and running out of them only ends a behaviour. `focus_timing` has two segments, the fewest whose
roundings add up and of which one is resumed late. `tasks` starts on a Friday near the end of January so that the
next weekday skips a weekend into February and a monthly task overflows. `MaxTime`, `MaxSegments`, `MaxArms`,
`MaxCompletions`, `MaxOverlaps`, `Horizon`, `LastDay`, `MaxExpiries`, `MaxLogins` are the bounds on counters;
`Rescheduling` names the handlers whose updates may carry a date and a rule, and `StatusesUsed` the statuses an
update may set. Symmetry is used on session, task and handler ids in the runs without liveness. The view of
`focus_core` forgets `heartbeat` of a session that does not run and `updated` of one that is not paused: no action
reads them then. The view of `tasks` forgets what a handler holds and no later statement looks at, and the histories
of a task that is gone. `client` and `client_tabs` do not check deadlock: all tabs may have left.

In `focus_page` two requests in flight are a late answer and the one that overtakes it, two sessions are the
pomodoro and its break, or the page's and another tab's; one second is the whole pomodoro (and its break), so a
tick that is too early and the one at zero are told apart. `Disturbed` lets requests get lost and others act, within the
same `MaxActs`; the violated run has neither, so that nothing but the order of answers is to blame.

The bounds of `pages` are in `MCPages`: one habit of five rules (boolean, and each comparison; daily and on
single days), values 0 and 4 around the targets, 3 acts; three habits and two categories, 2 acts, since each act
is a drag, a deletion or a creation with answers and refetches of its own; notes with two titles, one found by
the search, 3 acts; two tasks, with and without a rule, in thirteen lists, 3 acts; two reminders, five crons, among
them some that no preset shows and one that no calendar meets, numbers in, at and beyond the limits of the
fields, 3 acts; three widgets, stored orders that are absent, too short, or have a widget that is gone, 6
acts. The list was also explored once with 3 acts and the notes with 4. Two slots let one
mutation overtake another. Neither `focus_page` nor `pages` checks deadlock: acts run out, and a user may do
nothing.

`NextIsOccurrence` holds with one update in flight; with two, `cronValue` puts back the cron it read and
the fire time of the other stays. `OccurrencePerCompletion` has no such condition: it allows a task as many
occurrences too many or too few as updates of it overlapped another, and none without an overlap.

Fairness. `SweepFairness` and `SchedulerFairness`: `time.Ticker` fires again and again in every
instance (weak fairness of the start of a tick), and a statement of a tick can fail but not for ever
(strong fairness, as a failed tick is followed by another). Requests get no fairness: clients may stop.
`Fairness` of ApiClient: an HTTP request is answered or fails, and the event loop takes its turn; nothing
makes a user send, log in or log out. `Fairness` of FocusPage: the clock goes on within its bound, the
interval ticks, the effect at zero runs, requests are served and answers received (weak fairness of each slot; a
request that is lost is answered with an error). Clicks, navigations, losses, other tabs and the scheduler get
none. The properties of `pages` are about safety and need no fairness.

### Disagreements met while modelling

The five violated runs are findings: what the code does, against a line of its own documentation, comments
or messages. `PROJECT.json` quotes both. Besides, without a run:

- With an instant older than its statement, a pause and a resume applied in the other order count seconds twice; and
  `::int` credits up to half a second that did not pass with every segment. `OverCreditBounded` says by how much at
  most.
- A cron without any occurrence is due for ever.
- The cursor of the notifications compares stamps as strings (`useReminderNotifications.ts:88`), so that of a whole
  second counts as later than those after it in the same second, and these are notified again.
- Two saves of a habit that overlap on the server put back each other's fields, and one that overlaps a reorder puts
  back the old place of its habit: the UPDATE writes every column as it was read (`services/habits.go:110-131`,
  `models/habit.go:316`). `UntouchedFieldsKept` and `DraggedOrderKept` leave exactly these out.
- A mutation that the server carries out and that answers an error, or whose answer gets lost, leaves the lists as they
  were until something else fetches them (`models/note.go:137,168` read again after the commit).
- `docs/application/api.md:355` lists `recurrence_rule` and `estimated_minutes` among the fields of POST
  /tasks, and `handlers/tasks.go:19-25` ignores them, though the form of the tasks page sends the rule;
  `architecture.md:162,165` promise "tomorrow" and "same day next month", which an overdue task and the 31st
  do not get.
- `api.md:262-288` gives the layout of the dashboard as items with an id and an order and the answer of a save
  as `{"ok": true}`; in the code both are lists of ids.
- An open form for a new reminder lives on when another note is shown, and its save goes to that note
  (`NotesPage.tsx:123` renders the preview without a key).
- Adding a category succeeds and then shows an error: `event.currentTarget` is null after the `await`
  (`ManageHabitsDialog.tsx:904`).
- The answer of a save closes whatever row, form or customization is open by then, not its own
  (`ManageHabitsDialog.tsx:449`, `TasksPage.tsx:181`, `DashboardPage.tsx:135`).
- A habit that is deleted between the check and the numbering of a reorder, and revived later, comes back at its
  old place; `DraggedOrderKept` leaves it out too.

## 4. What is proved

`tlapm` checks these for every value of the constants that satisfies the modules' assumptions.

**ActiveFocusProofs.** The inductive invariant `IInv` is `TypeOK`, `SingleActive` and one clause per
kind of state: `RequestOK` (a handler past its lookup names an existing row of its user, a discard past
its statement a terminal one), `RowOK` (a segment is open exactly while the session runs, a blank row is
`Absent`) and `HistoryOK` (the row a session has left in the history, and for which task). `SingleActive`
alone is not inductive: without `RequestOK` a resume could name any row, without `RowOK` a blank row could
be active. The proof reduces the statements to three shapes of change of one row (`Moves`,
`Completes`, `LosesTask`), shows once what each shape keeps, and then treats each action. From `IInv`
follow `TypeCorrect`, `OneActiveSession`, `SegmentsMatchStatus`, `HistoryIsExact`, `DiscardIsFinal`,
the action property `TerminalStaysFinal`, and `LifecycleImplemented`: initial states map to initial
states, every step to a step of `FocusLifecycle` or a stutter. `OverCreditIsBounded`
needs two more: `Timely`, that the instants in use were taken, and those of the handlers at most `MaxLag` ago, and
`Bounded`, that the accumulator of a row keeps to the budget of its folded segments up to the start of the open one.
A segment that is folded costs half a second of rounding, one that is resumed the lag of its instant; `Budget` is
linear in both, and the lemmas on `Rounded` bound it by the span from either side. No constant is restricted.
`StudyIsLogged` and `StudyIsEarned` are about the log of the habit Focused study: a day whose sessions reach
the minimum has its log, and a log appears only together with the minutes. Their sums are `MapThenSumSet`, a recursive
function over the subsets of a finite set, and what the proof needs of it (it steps, splits and is monotone:
`MinutesStep`, `MinutesSplit`, `MinutesMonotone`) is proved by induction on the size of the set, stated with a set
of numbers in place of a predicate (`NatSetInduction`). Then: only a completion adds to a day, and it looks at
that day after it has added. `StudyIsLogged` takes a finite table and a positive minimum: with
`FOCUS_DAILY_MINIMUM_MINUTES=0` a day would need its log before any session.

**TasksProofs.** `TInv` is `TypeOK` (with completed_at set exactly on done rows) and `Carried`: a handler
between its statements carries a real row and a rule. It holds for any number of overlapping updates and
gives `TasksTypeCorrect`, `CompletedDateKept` and, with the lemmas on month lengths and weekends,
`LaterOccurrence` for every date, calendar and rule. `OneOccurrencePerCompletion` holds for any number
of updates in flight. Its invariant `OverlapInv` counts the handlers that have read a task and are still to write it:
while all of them hold the stored row the first to write is right whatever it does, and every other one may then
be wrong by one occurrence, for which an overlap was counted when it read (`Pending`). A handler about to insert an
occurrence counts as one completion ahead.

**RemindersProofs.** `TInv` is `TypeOK` and `Past`: no stamp, cursor or reply lies ahead of the clock, which also
gives every reply a latest instant (the provers get it from the well-foundedness of the naturals). `Claims` says of
a tick between its SELECT and its commit that its rows are there, active, due and claimed by no other tick; it gives
`FiredWasDue`. For `NoDoubleMail` the invariant is `Sent`: a firing that is mailed or in an outbox is `Used`, which
means that its row is gone, rests, is armed anew or has moved to a later occurrence. That last case needs
`EveryCronRecurs`: a cron without any occurrence keeps the zero time, is due at every tick and is mailed at every
tick. `NextIsOccurrence` is proved for one update at a time (`Pairs`: what it is about to write fits together).

**ApiClientProofs.** `OneRefreshPerTab` counts; the proof uses `Owned`, that the flag `isRefreshing` of a tab
that is there stands for exactly one of its calls, and `Heard`, that cookies are stored and a toast loaded
only in a page that is there, without which `Toast` would bring back a page that has left. Together with the
types this holds for any number of tabs and calls. With one tab (`OneTab`) `Held` is invariant too: a call
that waits for its refresh carries the token in the browser, and a token refused stays refused; from it follows
`LogoutOnlyWhenRefused`. With two tabs it is false: the run `client_tabs`. Nor do the cookies only move forward then:
the answers of two refreshes may arrive in either order.

**FocusPageProofs.** `PageFollowsLifecycle` rests on two invariants: `Wired`, that a start on the wire carries
a kind and whether it is timed and nothing else, and `Rows`, that a session that does not exist is a blank row
and one that is not over has left no history. Under these every step, of whatever actor, is for the server one
of `Serves`: a session starts while none is open, one is paused, resumed, discarded or completed with its row
of history, or nothing changes; each of these is a step of `FocusLifecycle` or a stutter.
`BreakAfterRecord` needs `BInv`, which follows a session's kind from its row through answers, cache and store
into the requests: every session the browser holds is none or a copy of a row that is there, of the same kind
(`CopyIn`, kept by every step as rows keep their kind); a completion the page sends by itself is of a session of
work, so one answered well has left history; a start the page sends by itself comes after that (`Traced`).

**PageQueriesProofs.** What a query of a page knows of the server. `Fresh` says that a query which has data, is not
stale and missed nothing has what the server has, and that an answer on its way that is not late has it too; `Kept`
that a query somebody observes is not left stale unless it missed something. `Fresh` is not inductive by itself: a
handler that has written leaves every cache behind until its answer invalidates it. So each page's invariant claims
`Fresh` only while no mutation is done whose answer is still out (`NoneDone`). An answer invalidates the queries the
mutation may have changed, after which `Fresh` holds of them whatever they were doing; an answer that is lost marks
the same queries as having missed it, after which `Fresh` claims nothing of them until they are fetched; while other
answers are still out nothing is claimed. With nothing in flight `NoneDone` holds and every observed query is idle
and known and not stale, or missed something, which is that the page settles. `DashboardInv`, `NotesInv`, `TasksInv`
and `RemindersInv` are that for each page's own lists. `NotesInv` adds that the form has the key of what is shown
and the text of the note of that key, which every rendering keeps; it gives `DraftsStayApart`.

**PageFormsProofs.** `FormsInv` of the reminder forms: a form that shows a preset has exactly that preset's
cron, and everything a form is opened with or filled from (the rows, what is fetched, what is in flight) is
typed. It needs lemmas on `Cron`: each preset's cron is five parts, and `DetectPreset` of it gives a
preset and fields that stand for the same cron (`ReadingsStandForIt`). `EntryInv` of a habit: the list and the matrix are
fresh as above, the list even while an answer is out if no save has been written since
(`NoneWritten`), and a row opened alone has, in each field the user did not enter, the server's value
(`Untouched`) as long as its own save is the only one, as has what that save has read. The merge of the two then
writes back what was read wherever nothing was entered, and if the row is still the one that was read this is
`KeepsUntouchedFields`. `MirrorStaysInSync`
compares `habitMatrixUtils.ts` with `services/habits.go` for every rule and every whole number.

**PagesProofs.** Of arrays: every rank up to the size of a finite set is the rank of one member, so a filter has
what it keeps, once and in the old order; a move is a permutation; two arrays that have the same members once and in
the same order are equal. `WidgetsInv` says of the dashboard that what is stored or fetched has no widget twice, and
that what is rearranged or sent has each registered widget once (`Complete`): the first is what can be said of
another version's order, and `OrderOf` makes the second of it. `ListInv` says of the habits' dialog that its lists
name habits that were created, once; that the one reorder in flight has the dragged order; that, once it is written,
each dragged habit has the number of its place, unless it strayed: it was revived since, or an edit put back the
number it had read (`IsNumbered`); and that the lists are fresh but for habit mutations done and not answered, and
for what they missed. The last two together give `DraggedOrderIsKept`: with nothing in flight the table sorts by
numbers that are, for the habits that have not strayed, places of the dialog's order. `HabitsAreListed` needs no
claim about numbers: the dialog shows what was dragged and is still there, and appends the rest. `PagesInv` is the
invariant of whichever page is open.

Only model-checked is liveness: `StaleIsPaused`, `UntouchedIsDiscarded`, `DueIsClaimed`, `CallSettles`,
`PlannedEndCompletes` and `ConflictSurfaces`, which rest on fairness and ENABLED and are out of the prover's
reach. Every invariant and every other action property of the passing runs is a theorem, some of them under the
conditions named above.

## 5. Not modelled, and what is left

Left out of components that are otherwise modelled: the change of a habit's category by an edit; habits' streaks,
rates and summaries, the export and the renaming of a category; wiki links and backlinks of notes, which a save
resolves once and only lists show; the notification permission, overlapping polls and the logout of the reminder
notifications; registration, hashing, claims and roles; the statistics of focus and the widgets of the dashboard.

Not modelled, with the reason:

- Password reset and the migration runner: each is a short sequence of statements whose races are listed as
  hazards; worth a module each, beside the sessions of `ApiClient` and on its own.
- The figures of the dashboard and the streaks are functions without state over rows that others write:
  quantiles, sums and day counts, where examples serve better than states.
- The rate limiter is a map under one mutex around a library. Users and administration are single statements.
- Rendering, styling, the public web site, the UI library, HTML of mails, metrics, logging, configuration,
  infrastructure, and token cryptography have no state of their own that decides anything.

## 6. Files

| file | content |
|---|---|
| `ActiveFocus.tla`, `FocusLifecycle.tla`, `ActiveFocusProofs.tla`, `MCActiveFocus.tla` | focus sessions, their life cycle, the proofs, definitions for TLC |
| `Reminders.tla`, `RemindersProofs.tla`, `MCReminders.tla` | reminders, the proofs, definitions for TLC |
| `Recurrence.tla`, `Tasks.tla`, `TasksProofs.tla`, `MCTasks.tla` | tasks |
| `ApiClient.tla`, `ApiClientProofs.tla`, `MCApiClient.tla` | sessions of the browser, the proofs, definitions for TLC |
| `FocusPage.tla`, `FocusPageProofs.tla`, `MCFocusPage.tla` | the focus page, the proofs, definitions for TLC; uses `FocusLifecycle.tla` |
| `Query.tla`, `HabitRules.tla`, `Cron.tla` | what the pages share; the rules of habits; presets and crons |
| `HabitEntry.tla`, `HabitList.tla`, `NotesPage.tla`, `TaskPage.tla`, `NoteReminders.tla`, `DashboardLayout.tla` | the pages |
| `Arrays.tla` | arrays of ids |
| `Pages.tla`, `MCPages.tla` | the pages together; their bounds |
| `PageQueriesProofs.tla`, `PageFormsProofs.tla`, `PagesProofs.tla` | the proofs about the pages: queries; forms; lists and the theorems |
| `*.cfg` | one per run, of the run's name |
| `PROJECT.json` | components, runs, mutants, the map from definitions to lines, findings, hazards, theorems |

`tlc -config <run>.cfg <MC module>` repeats a run, `tlapm <module>Proofs.tla` a proof.
