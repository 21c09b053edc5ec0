# NearEvent, specified

NearEvent is an event platform: a Go API on PostgreSQL (`nearevent-api`), a React
site for organizers and admins (`nearevent-web`) and an Expo app for attendees
(`nearevent-mobile`). These TLA+ modules model the API's core logic statement by
statement and the clients callback by callback, check them with TLC on small instances,
and prove their main invariants with TLAPS for every instance.

## The system

The API is a chi router over handlers, services and repositories. Each HTTP request is
a goroutine of its own. **No repository opens a transaction**: a handler is a sequence
of SQL statements that commit one by one, and what it read earlier is a Go struct that
may be stale when it is written back (`EventRepository.Update` writes every column with
only the id in its `WHERE`). Statements run under `r.Context()`, which a client's
disconnect cancels, so a request can stop between any two of them. Errors of notices,
pushes and emails are discarded.

| Component | State | Operations | What makes it correct |
|---|---|---|---|
| Events and moderation (`event_service.go`, `event_repository.go`) | table `events`: status, reason, capacity, owner, details | Create, Approve, Reject, RequestChanges, UpdateMine, CancelMine, Close/ReopenRegistrationMine, listings | only approved events are public; no state that no operation leads to, however stale the writes; a settled cancellation is final and its attendees are told, or it is known whom it misses |
| Registrations (`registration_service.go`, `registration_repository.go`) | table `event_registrations`: status, reminder flags | RSVP, Cancel, listings | overselling is bounded; no new RSVP gets a seat at an event that is not open; notices match rows |
| Notifications (`notification_service.go`) | table `notifications`, `user_device_tokens` | Create (insert, socket, push), MarkRead, MarkAllRead, RegisterDeviceToken | nobody is told what is not so, or twice |
| Websocket hub (`hub.go`, `notification_ws_handler.go`) | connections per user under an RWMutex | Register, Unregister, SendToUser | no send to a closed connection, no two writers of one, no stall of everybody |
| Reminder loop (`reminder_service.go`, `main.go`) | sent flags in `event_registrations`, the ticker | Run: 24 h, 1 h and review prompts | each registrant is reminded once, none is missed by the window |
| Accounts (`auth_service.go`, `admin_user_service.go`, `user_repository.go`, `jwt.go`) | tables `users`, `password_reset_tokens`; stateless tokens | Register, Login, ForgotPassword, ResetPassword, UpdateProfile, Suspend, Activate, EnsureAdmin | one account per email, a reset token wears out, suspension ends access, an admin remains |
| Categories (`category_service.go`) | table `categories`, `events.category_id` | Create, Update, SetStatus, Delete | names unique, no event of a deleted category |
| Reviews and saved events | tables `reviews`, `saved_events` | Create, summary; Save, Unsave, ListMine | one per user and event |
| Dashboards | none (queries) | organizer, admin | counts agree with the tables |
| Notification feeds (`NotificationDropdown.tsx`, `NotificationsScreen.tsx`) | list in the component, a socket | load, receive, mark read, mark all | nothing unread is hidden; at rest the feed is the table |
| Attendee's screens (`EventDetailsScreen.tsx`, `MyEventsScreen.tsx`, `HomeScreen.tsx`, `SearchScreen.tsx`) | what each screen loaded, its flags and modals | open, register, cancel, save, review, filter, search, pull | a copy claims only what is so once its requests have settled; no button hangs |
| Organizer's and admin's pages (`CreateEventPage.tsx`, `EditEventPage.tsx`, `EventDetailsPage.tsx`, `ReviewEventPage.tsx`, `AdminCategoriesPage.tsx`, `AdminUserDetailsPage.tsx`) | the row or list loaded, forms, modals, timers | submit, close, reopen, cancel, approve, reject, rename, delete, suspend | an approval publishes what was shown; one event per visit of the form; no flag outlives its request |
| Uploads, email, push | files; HTTP calls | upload; send | pure I/O; of an upload, only how it fits with the form |

Components meet in the tables and in `NotificationService.Create`, which every service
calls and which reaches the hub and the push service. What is hard is concurrency
between requests (stale structs, check-then-insert), requests cut short between
statements, the reminder goroutine beside them and restarts. The clients add answers that
arrive in any order, or not at all though the server did what was asked, pages that unmount
under their requests, and rows that change behind the page that shows them. `PROJECT.json`
lists these hazards at their lines.

## Modules

| Module | Models |
|---|---|
| `Store` | event tables, repository statements, requests in progress, notices, faults |
| `EventService` | organizer and admin operations: read, full-row write, notices |
| `RegistrationService` | RSVP in its separate statements, cancelling an RSVP |
| `EventRequests` | the composition: initial state, next-state relation, fairness, properties, inductive invariants |
| `EventLifecycle` | abstract: the states an event goes through, each by one operation on a state it had |
| `EventRequestsProofs` | theorems about `EventRequests` |
| `Reminders` | the reminder goroutine, its ticker and clock, beside the requests that change what it reads |
| `RemindersProofs` | theorems about `Reminders` |
| `Accounts` | users, sessions, reset tokens, suspension, the admin seed |
| `AccountsProofs` | theorems about `Accounts` |
| `ClientCalls` | the requests a client has under way: sent, answered, refused, failed, abandoned |
| `EventScreen`, `Discovery` | the phone's event page and My Events; its Home and Search |
| `AttendeeApp` | the composition of the phone's screens with the server they ask |
| `AttendeeProofs` | theorems about `AttendeeApp` |
| `Hub` | the server's websocket hub: RWMutex, handlers, senders, lines |
| `NotificationFeed` | one client's notifications: `Hub`, table, list requests, marks |
| `NotificationFeedProofs` | theorems about `NotificationFeed` |
| `OrganizerPages`, `AdminPages` | the organizer's and the admin's browser tab |
| `WebPages` | the composition of the tabs with the statements of their requests, categories included |
| `WebPagesProofs` | theorems about `WebPages`: types, categories, the form, the waits |
| `WebTruthProofs` | theorems about `WebPages`: what the pages show |
| `MC...` | what TLC needs beyond the `.cfg` files: symmetry, functions as constants |

`EventScreen`, `NotificationFeed` and `OrganizerPages` each take `ClientCalls` by `INSTANCE`
with the requests their client can send; `AttendeeApp`, `NotificationFeed` and `WebPages`
are the specifications that runs check.

### Events and registrations

**State.** `events`, `registrations` and `notices` are the tables, `registrations[e][u]`
a row's status or `"none"`, `notices` the number of rows per kind, event and recipient.
`requests[w]` is what the goroutine of worker `w` holds: the operation, the next
statement (`pc`), the struct read and modified (`row`) and whom it has still to notify
(`todo`). Texts, dates, places and categories of an event are left out, and the rejection
reason is only there or not there.

The rest is history, which no guard reads: `approved`, the events whose approval was written;
`peak`, the largest capacity an event had; `past`, the status and capacity of every row it had;
`revived`, how often a stale write brought it back from cancelled; `late`, who took a seat of
it while it was not published; `lost`, whose notice of its cancellation a fault took.

**Actions.** An operation that reads and then writes begins with one action for its
read, guards and assignments (`Approve`, `UpdateMine`, `Rsvp`...), and each later
statement is an action (`Update`, `ListRegistered`, `GetStatus`, `CountActive`,
`Register`, `CreateNotice`, `Deliver`). A cancellation goes through its recipients one by one,
each notice being inserted and then delivered; the write to the recipient's sockets has no
deadline and the push no timeout, so `Deliver` may never be taken, and the recipients
after it wait. A request refused by a guard changes nothing and is no step.
Operations of one statement (`Create`, `CancelRsvp`) are one action. `Abandon`,
`LoseNotice` and `GetStatusFails` are the failures: a disconnect, a crash or a
statement whose error ends the request; a notice whose error is discarded; a failed read
that RSVP takes for "not registered".

**What the code promises.** Nothing ties a write to the row it is made over, so the
status an event has may be an older one brought back, and `EventLifecycle` does not promise
otherwise. It says what is left: every version of an event is what one accepted operation
makes of a version the event had, so no mix of two requests brings about a state that
moderation knows no way to, such as a registration closed that was never open. Likewise
nothing keeps an RSVP in flight from a seat of an event cancelled meanwhile, or two
cancellations from telling everybody; `UntoldWereLateOrLost` and `CancellationRepeatsBounded`
say how far that goes and that nothing else is lost or repeated.

### Reminders

**Time** is counted in units of 5 minutes, which divides every window and the ticker's
15 minutes. `nextTick` is the ticker: it holds one tick for a goroutine that is late and
drops the others (`TickAfter`), and it is made only after the first `Run`, which the
server's start begins. A `Run` notes the time and scans once (`JobsAt`); each event in a
window is a job, fixed with the start it was scanned with. Then `ListPeople`, and per
person `Remind` (notice and email, whose errors are discarded) and `MarkSent`, which only
matches a row that is still registered. `ScanFails`, `ListFails`, `MarkFails` and `Crash`
are the failures; `Boot` restarts the loop.

**Requests** beside it (`Publish`, `CancelEvent`, `Reschedule`, `Register`, `CancelRsvp`)
are single steps here; their own interleavings are those of `EventRequests`. The status
`published` stands for any status the scan takes. `Zone` is how far the database's time
zone, of which `CURRENT_DATE` is the date, lies ahead of the server's. `changed`,
`joined` and `givenUp` are history.

`Tick` makes two assumptions of the environment explicit. The goroutine takes a due tick
before time passes. And a `Run` is over within `RunLimit`: nothing in the code bounds it,
for neither pushes nor emails have a timeout, so what `NobodyMissed` shows is
conditional on it.

### Accounts

The tables are `accounts` and `resets`. The server keeps no sessions: a token is signed
and valid until it expires, so `sessions[u]` is when the last token issued to `u` expires;
roles are written once, so the role in a token is the user's. `requests[w]` holds the next
statement, the user, the struct and the reset token. Passwords stand for their hashes,
emails for their normal form (of the configured admin's email, which the code does not
normalize, this is an assumption). Names and pictures are left out. `EnsureAdmin` runs
before the server serves, at each start. `RequestLimit` bounds a request in `Tick`, as
the handlers have no timeout of their own; `SuspensionEndsSessions` and `ResetsAreTimely`
are stated relative to it.

### The clients' requests

`calls[n]` is the request in place `n`: what it asks, of what, whether the component that
sent it is still mounted (`live`), how far it is, and the answer. axios sends each request at
once and nothing orders the answers, so a handler is two or three actions: the one that
sends, one per way its promise settles (`...Answered`, `...Failed`), and the server's step
between them. `Fail` may come before or after the server did its part. What a component
that has unmounted only asked for is dropped, and a change it asked for goes on
(`Without`). `MaxCalls`, `MaxPending` and `MaxLost` bound the requests, those under way at
once and the failures.

Copies are compared with the tables through history variables named `doubt` (`muddled` for
searches): a copy is in doubt from a moment that no handler of that page could have
noticed (an overlap, a failure, a change by somebody else) until a load of its own that
overlaps nothing that could undo it. The properties say that outside of doubt the copy is right, so `doubt` is
the exact list of excuses the code needs, and each clause of it was found by TLC.

### The attendee's phone

`status` and `rows` are the tables, as far as one user sees them; `screen`, `mine`, `home`
and `search` the four components' state, by the names of their hooks; `tab` what is looked
at. The event page unmounts when left; the others stay mounted, and My Events loads at each
focus. The server drops the errors of the lookups behind `is_saved` and `is_registered` and
answers them as false (`LoadServed`), which the page cannot notice; the mark `<<"lookup", f>>`
in `doubt` says for which fact that happened, until the page learns it again. Unlike other
marks it excuses one direction only: the page may leave out what it should show, but never
claims what is not so (`Tells`). Its two lists fail separately and count as empty then (`ServeList`). After a review
the thanks come first and a reload follows behind them, whose end enables the button
(`ReviewAnswered`, `ReloadAnswered`). Capacity is a refusal that may always happen
(`ServeRsvp`); reviews need no registration in the code. Home filters what it loaded and
Search sends its filters; distance and availability are never sent.

### The hub and the notification feeds

`Hub` has one user's connections: users share the lock but nothing else, and a wait for
another user's senders only delays. `handler[c]` is where `Stream` is, `line[c]` the TCP
connection below it, `sender[s]` a request inside `SendToUser`. A handler that waits for
`Lock` keeps new `RLock`s out, as `sync.RWMutex` does. `WriteMessage` has no deadline:
`Written` waits for a stalled client until it resumes or TCP gives up. Two senders hold
the read lock together, so they may write to one connection at once, which the library
forbids: `Collide` gives every outcome it allows: a panic, which `net/http` recovers after
the deferred unlock, or a spoilt message of either. Nothing recovers a panic in the reminder
goroutine, where it ends the process, as `Crash` does in `Reminders`.

`NotificationFeed` adds the table (`rows`), the client's copy (`items`) and its flags. The
dropdown connects when it is mounted and loads when it is opened; the phone's screen loads
on focus and when pulled. Its socket address (`useNotificationSocket.ts:4`) starts with
`ws://https://` and reaches no server, so `Phone` has no connection. `Create` inserts the row
and then hands it to the hub, statement by statement.

### The organizer's and the admin's tab

One page of each tab is mounted. A row of `events` is its status, its category and whether
it has a picture. `work[n]` is what the server holds of request `n` between its statements:
the event operations read a row and write all of it back, a category is deleted by
`DetachEvents` and then `DeleteRow`, and foreign keys are checked by each statement. A
failed request may abort what the server has left to do of it.

The review page merges the answer to what the admin did into the row it shows, and the
answer leaves out what is empty: a picture that was dropped stays on the page, and so does the
name of the category, which no such answer carries (`Merged`). The answer takes the page out of
doubt only if the merge shows the whole row (`Renewed`). The list of categories loads
anew after each change of it, and nothing numbers the loads: a list on its way back while the
server makes another change may be taken last (`ListComing`). Failures and
changes the admin walked away from aside, that alone puts the list in doubt; in every other
order the newer list is taken last or follows.

A form uploads its picture first and then sends the event, from one handler that also runs
on when its page is gone (`UploadAnswered`). Its timer (900 or 1200 ms) survives the page
too: `leaving` holds where timers are about to take the organizer, and `Navigate` may go off
on any page. Going from one event's page to another's does not mount it anew. Ids may run
out in a small instance; the server then refuses, which an error of the database may do as
well.

**Mutants.** A definition preceded by a comment that starts with `Mutant` is a wrong
version of the one after it. No specification uses it; it stands for a bug its property
must catch, as listed in `PROJECT.json`.

## What the runs check

The system may stop when the clients have sent their requests, or the clock has reached
its bound, so deadlock is not checked. In the event runs there is one event: events share
no row and no statement touches two of them. `MaxRequests`, `MaxCalls` and `MaxChanges`
bound the requests begun, `MaxFaults` and `MaxLost` the faults.

| Run | Instance | Shows |
|---|---|---|
| `concurrent` | `Spec`: 2 workers, 3 attendees, capacities 1 and 2, 5 requests, 1 fault, users and workers interchangeable | types; `ImplementsLifecycle` (refinement of `EventLifecycle`); `NothingPublicUnapproved`; `NoticesMatchRows`; `OverbookingBounded`; `CancellationRepeatsBounded`; `UntoldWereLateOrLost`; `SettledCancelIsFinal`; `NobodyJoinsBehindTheDoor`; `NobodyDueIsForgotten` |
| `told` | `FairSpec`: 2 workers, 2 attendees, capacity 2, 5 requests, 1 fault, no symmetry | `CancellationTellsEveryone` (liveness) |
| `reminder_windows` | 2 events of 5 minutes, starting at 23:20 or 23:40 today or at 23:20 tomorrow, 1 attendee, `Run`s of up to 20 minutes, 1 change, 22:00 to 02:10 the next day, database 3 hours ahead | types; `NobodyMissed`, `StaleByARunAtMost` and `ScanCoversWindows` for all three reminders |
| `reminded_again` | 4 changes and 2 faults around one window | `RemindedOnce` |
| `accounts` | 3 users, 2 emails, 2 workers, 5 requests, 1 fault, sessions of 2 units, reset tokens of 1 | types; `OneAccountPerEmail`; `ResetUsesBounded`; `ResetsAreTimely`; `SuspensionEndsSessions`; `AdminReady`; `EditsUndoNothing` |
| `attendee` | 1 event, 3 requests, 2 at once, 1 failure (a lost answer or a lookup that fails silently), one category chip, fairness | types; `PageTellsTheTruth`; `ListsAreComplete`; `ThanksAreDue`; `ResultsAnswerTheSearch`; `ScreenSettles` (liveness) |
| `feed` | 2 notifications, 2 senders, 2 connections, 2 requests, 1 fault, either client | types; `WritesStayInside`; `UnreadIsNeverHidden`; `FeedTellsTheTruth`; `OnlyStallsBlock` |
| `web_pages` | 2 events, 2 categories, 4 requests, 2 at once, 1 failure | types; `PagesTellTheTruth`; `CategoriesTellTheTruth`; `NoDanglingCategory`; `OneEventPerVisit`; `ApprovedAsShown` |

Two workers and five requests are enough for every pair of operations to overlap at
every pair of statements after an event was created, approved and attended, or a user
registered and sent a token; two cancellations overlap, with a stale edit or an RSVP in
flight beside them. Three attendees with a capacity of 1 would exceed
`OverbookingBounded` were the check off by one. The clocks of the reminder runs span
each window from before it opens until after the last `Run` that may serve it; the two
starts today put the review window on both sides of midnight, and the one tomorrow opens
the 24 hour window. The lives in
`accounts` are shorter than the clock's range, so tokens and sessions of both kinds, live
and expired, occur.

What a client can get wrong takes two requests of it under way, and one that fails or one
that overtakes: the runs have both. In `attendee` the first request is the load of Home, and
three more let a page be opened, acted on and reloaded, or a change be followed by a list.
In `feed` two senders can collide, wait for each other's lock or for the handler of the
second connection, which also keeps them out, and a list can overlap a mark. In `web_pages`
four requests let both tabs load and both act; a deletion meets an edit that attaches an
event to the category, and a submission that failed is repeated. Every property has a mutant
in `PROJECT.json` that breaks it under the same bounds.

Four runs find a disagreement with the documents, each by one property; the
counterexample is described in `PROJECT.json` under `findings`:

| Run | Documented | What happens |
|---|---|---|
| `oversold` | PRD: reject excess concurrent RSVPs | both count, both insert |
| `edit_cancelled` | comment: cancelled events are not edited | a stale edit writes the old status back |
| `moved` | PRD: registered users receive event reminders | the sent flag stays when the event is moved |
| `weekend` | comment: next Saturday to Sunday | `toISOString` of a local midnight ahead of UTC is the date before, so the chip asks for Friday and Saturday; 3 hours ahead in the run |

The same interleavings have further consequences that have no run of their own: an RSVP
that read its event before it was closed or cancelled takes a seat after it (`late`); a stale
edit returns a published event to pending; two cancellations that pass the check tell
everybody twice; a delivery that never returns keeps all later recipients from their notices;
and a disconnect after a cancellation was written leaves its attendees untold, for cancelling
again is refused (`lost`).

Behaviour of the clients that the models show and no document speaks of: a form's timer
takes an organizer who has gone elsewhere to the dashboard or to the event; an edit drops
the event's picture unless a new one was chosen, for the form sends none
(`EditEventPage.tsx:161`) and the update writes what it was sent (`event_service.go:456`); a
submission whose answer was lost creates a second event when it is repeated; a category
whose deletion is refused has lost its events all the same; a stalled client that is
written to keeps every user's connections from registering until TCP gives up. The average
rating is sent under one name and read under two others (`review_dto.go:19`,
`EventDetailsScreen.tsx:240`), so it is shown as zero.

**Fairness.** `FairSpec` has weak fairness of each worker's `Continue`: the Go scheduler
runs every goroutine and PostgreSQL answers every statement. Beginning a request, faults and
`Deliver` are never fair, for nothing in the code makes a delivery return. So
`CancellationTellsEveryone` has that as a premise: for a worker whose deliveries return
(`[]<>(requests[w].pc # "deliver")`), whoever held a seat when the list was about to be read is
told, gives up the seat, or lost that very notice to a fault, whatever the deliveries of other
workers do. `NobodyMissed` is a deadline, hence an invariant, and needs no fairness.

`AttendeeApp`'s `FairSpec` has weak fairness of each request's next step: the phone's
requests time out after 15 s, so each is answered or fails, and JavaScript runs a settled
promise's callback. The user, the organizer and the failures are never fair. Of the web
pages no liveness is claimed: their client sets no timeout (`client.ts:3`), so a request that is
never answered leaves a button disabled for good. Nor is any claimed of the hub, whose writes
have no deadline; `OnlyStallsBlock` says instead that it can always go on unless it is writing
to a client that has stalled.

## What is proved

For all values of the constants that satisfy the named assumptions:

| Theorem | Statement |
|---|---|
| `TypesHold` | `EventRequests`: `Spec => []TypeOK` |
| `ModerationGate` | `Spec => []NothingPublicUnapproved` |
| `NoticesHaveRows` | `Spec => []NoticesMatchRows` |
| `Overbooking` | `Spec => []OverbookingBounded` |
| `CancelledForGood` | `Spec => SettledCancelIsFinal` |
| `ShutDoor` | `Spec => NobodyJoinsBehindTheDoor` |
| `NobodyForgotten` | `Spec => NobodyDueIsForgotten` |
| `LifecycleImplemented` | `Spec => ImplementsLifecycle` |
| `RepeatsBounded` | `Spec => []CancellationRepeatsBounded` |
| `UntoldAccounted` | `Spec => []UntoldWereLateOrLost` |
| `RemindersTyped` | `Reminders`: `Spec => []TypeOK` |
| `OneReminder` | `Spec => []RemindedOnce` |
| `ScanIsWideEnough` | `Spec => []ScanCoversWindows` |
| `RemindersAreRecent` | `Spec => StaleByARunAtMost` |
| `NobodyIsMissed` | with `RunLimit` at most 20 minutes, `Spec => []NobodyMissed` |
| `AccountsTyped` | `Accounts`: `Spec => []TypeOK` |
| `EmailsAreUnique` | `Spec => []OneAccountPerEmail` |
| `ResetTokensWearOut` | `Spec => []ResetUsesBounded` |
| `SessionsEnd` | `Spec => []SuspensionEndsSessions` |
| `AdminsRemain` | `Spec => []AdminReady` |
| `NothingIsUndone` | `Spec => EditsUndoNothing` |
| `ResetsKeepTime` | `Spec => ResetsAreTimely` |
| `AttendeeTyped` | `AttendeeApp`: `Spec => []TypeOK` |
| `ResultsHold` | `Spec => []ResultsAnswerTheSearch` |
| `ThanksHold` | `Spec => []ThanksAreDue` |
| `PageTruth` | `Spec => []PageTellsTheTruth` |
| `ListsComplete` | `Spec => []ListsAreComplete` |
| `SpinnersAwait` | `Spec => []SpinnersAreAwaiting` |
| `WeekendAsked` | the weekend chip asks for Friday and Saturday where `Zone > 0`, else for Saturday and Sunday |
| `FeedTyped` | `NotificationFeed`: `Spec => []TypeOK` |
| `WritesInside` | `Spec => []WritesStayInside` |
| `NothingHidden` | `Spec => []UnreadIsNeverHidden` |
| `TellsTheTruth` | `Spec => []FeedTellsTheTruth` |
| `HubIsNotKnotted` | `Spec => []OnlyStallsWait` |
| `LoadsAwait` | `Spec => []LoadsAreUnderWay` |
| `PagesTyped` | `WebPages`: `Spec => []TypeOK` |
| `CategoriesHold` | `Spec => []NoDanglingCategory` |
| `EventsOnce` | `Spec => []OneEventPerVisit` |
| `NothingWaitsForNothing` | `Spec => []WaitsHaveRequests` |
| `PagesTruth` | `Spec => []PagesTellTheTruth` |
| `CategoriesTruth` | `Spec => []CategoriesTellTheTruth` |
| `ApprovalAsShown` | `Spec => ApprovedAsShown` |

Few of these invariants are inductive alone.

**EventRequests** assumes positive capacities (the schema's `CHECK`) and finite sets of
workers and attendees. A write or an insert depends on what its goroutine read earlier,
so the strengthenings say what a request holds at each statement: `RequestsWellFormed`
(fields in use), `ApprovalKnown` (a struct with a public status belongs to an approved
event or is an approval), `RecipientsHaveRows`, and `PromisedSeatsBounded`, which counts
RSVPs past the capacity check as seats: passing the check needs fewer seats than the
peak, at most every worker is past it, and an insert turns a promise into a seat.
The lemma `ReadBeforeWrite` treats the eight read-then-write operations at once.
`NobodyDueIsForgotten` gives the steps behind the liveness property
`CancellationTellsEveryone`: with any number of requests, whom a cancellation is to tell it
still is to tell after any step, or has just told, unless a fault loses the notice or the
seat is given up before the list is read. It needs `RequestsWellFormed` only.

The refinement of `EventLifecycle` needs `ReadsArePast`: what a request is about to write
follows by its operation (`LegalWrite`) from a version the event had when it was read, which
`past` keeps, and an RSVP past its first read saw a version that was published. It holds for
any number of requests and any faults.

For the cancellations, `RepeatsCounted` counts a user's notices and the requests that will
still bring one. No cancellation begins on a cancelled event, and only cancellations write
that status, so each cancelled spell of an event costs at most one notice per worker; a new one
needs a stale write, which `revived` counts. `EveryoneAccountedFor` follows each seat of a
cancelled event: its holder was told, is about to be told by a request under way, took the seat
too late, or lost the notice to a fault. Its three cases are a seat taken (`LateIsNoted`), an
event cancelled (`CancelledByAnnouncer`: the writer is about to read the list) and a request that
tells (`NobodyForgotten`); when no request is at work on the event, nobody is about to be told,
which is `UntoldWereLateOrLost`.

**Reminders** assumes that times are naturals, that an event ends on the day it starts
(`start_time < end_time` on one date) and, for the scan, that the database's time zone
lies between 24 hours behind and 22 hours ahead of the server's: the scan reaches one day
back, and a review window ends two hours after the event. The strengthening `Excused`
says for each reminder that a repeat is paid for before it is sent: whoever is listed is
not flagged, and whoever is listed or being marked but has left the event has a fault or
a given-up seat in hand.

The two deadlines need what a `Run` knows and when the next one comes. `RunIsRecent` says
that a job in hand was so when the `Run` scanned, or the request that changed it has
stamped the event since, and a `Run` is at most `RunLimit` old; `StaleByARunAtMost` follows.
`Rhythm` says that without a fault the next tick is at most a period away, although the
channel drops ticks. `Expected` follows one registrant of one reminder: flagged, in the
hands of the `Run` that is under way, or due in a `Run` that starts before the window closes.
The first `Run` is the one that a period follows anew, hence the `Period` in `ComesBy`.
`NobodyIsMissed` assumes `RunLimit <= 4`, which is 20 minutes, the width of the narrowest
window: a `Run` that takes longer may start before a window opens and end after it has
closed. The code bounds no `Run` (see `Tick` above), so this is the condition under which the
promise holds and not a fact about the code.

**Accounts** assumes a finite set of workers and natural lives. `AccountsInv` counts
requests as well as rows. A request past the check of a reset token counts as a use to
come, and a used but unmarked token keeps a worker busy or cost a fault (`UsesCounted`); a
login that still holds the row of a user suspended since began before the suspension,
and a request is at most `RequestLimit` old (`SessionsCounted`, `RequestsAreShort`), so
its session is bounded; a status is only written to a user that is no admin, and roles
never change (`RequestsWellFormed`, `AdminsAreActive`).

**AttendeeApp** assumes that the filters a search can send are among those the screen offers
(`SearchesAskForFilters`). `CallsFit` and `OneLoad` strengthen the types: a load is dropped
with its page and is the only one, and what else is heard is about the event shown.
`PageTellsTheTruth` becomes inductive as `PageInv`, for each copy out of doubt: at most one
write of it is under way and no load runs beside it, an answered write says what the rows
say, an answered load says so too or leaves out what its lookup did not find, and the copy is
as right as that, is about to be loaded, or is about to be told by that write (`PageTrue`). `ListInv` is simpler, for a list is only ever loaded: no write runs beside it, and
the load's answer or the list shown is all there is. `ThanksInv` needs that reviews are never
deleted, so a late answer still holds. `ResultsInv` says that unless muddled every
search under way asks for what was asked last; events only ever stop being listed,
so its answer stays within what is required (`Matches`, `Found`).

`SpinnersAwait` is the safety half of `ScreenSettles`, for all four screens: while one shows
that it loads, acts or sends a review, a request of its own kind is under way, its component
is mounted, and every stage it can be in has a step (`GoesOn`). `SpinInv` adds that no request
is in a stage without one. What liveness adds to it is the weak fairness of those
steps. `WeekendAsked` says what lies behind run `weekend`, for every day of the week and every
zone (`WeekendDays`): the chip asks for Saturday and Sunday exactly where `Zone <= 0`.

**NotificationFeed** assumes natural bounds. For the hub, a sender in the middle of its loop
has its connections among the registered ones (`WritesStayInside` with `SenderShape`), for
`Unregister` waits until no sender holds the lock; a writer is in the list it took under
it. `UnreadIsNeverHidden` needs that what is on its way has a row (`HaveRows`) and that
answers stay true: the table never turns a notification unread again, so a reply that says
"read" still holds when it arrives, however late (`RepliesHold`). `FeedTellsTheTruth` needs
more, for a copy may differ while something is on its way (`TruthInv`): outside of doubt
an answered list equals the table (`CallsTrue`), no mark runs beside a list (`ListsAlone`),
and each difference between copy and table is about to go: the notification is coming or
the answer to a mark is (`AllExcused`).

`OnlyStallsWait` is `OnlyStallsBlock` with the guards written out instead of `ENABLED`
(`SenderReady`, `WriterWaits`, `ReadLocked`; on small instances TLC finds them equal to
`ENABLED` of the steps). It holds because a goroutine inside `SendToUser` is always engaged in
one of three things (`SendersEngaged`): it waits for the read lock, it has a connection left in
its loop, or it is writing; so the lock is never held by a sender with nothing to do, and the
only thing a sender waits for besides the lock is a line. `LoadsAreUnderWay` is for the feed
what `SpinnersAreAwaiting` is for the screens, by `LoadInv`.

**WebPages** needs types with a purpose: which arguments each request may carry
(`Fitting`), so that a reply can be read back into a row. `NoDanglingCategory` is then
inductive, as each statement checks the key it writes or deletes. `OneEventPerVisit` needs
`VisitInv`: until the form is submitted again after a success or a missing answer, one
request of it at most is under way, the event is not there while that request has yet to
create it, and no other page's save frees the form's button (`PagesApart`).
`WaitsHaveRequests` is inductive with the types: each answer either ends the wait or sends
what is waited for next. It says that no flag outlives its request, and nothing of whether
the request ends.

What the pages show is in `WebTruthProofs`, and assumes that the form's goal `"dashboard"` is
not the id of an event (`DashboardIsNoEvent`). `TruthInv` has a part per copy, each of the same
form: out of doubt, an answer not yet taken says what the table holds, and the copy does
so too unless such an answer is there. Four facts make them inductive.
`RowsExist`: the events that pages, requests and timers are about exist, for nothing deletes
an event, so no answer is taken for another's. `OneReview`: the review page waits for one
answer at a time, since `loading` and `busy` disable what would send another; hence the row an
approval has read is the row shown, and `ApprovedAsShown` follows from `ReviewTrue` at the
statement that writes it. `UsersAtHome` and `FormsAtHome`: only the page that is mounted is
waited for. And for the list of categories, that whoever changes it is heard and loads anew
(`Reloads`), for its requests may be answered in any order unless an older list is on its way.

The server has fourteen kinds of statements and each could disturb each copy. Instead, each
statement is shown once to satisfy four facts that name no page (`Served`: what becomes of the
request; `SaysSo`: an answer says what the tables hold; `Doubted`: a change puts every page
that shows it in doubt, save the one it answers; `Approves`), and each copy once to survive
any step with them (`DetailsServed`, `ReviewServed`, `UserServed`, `ListServed`).

Every invariant and action property of the passing runs is thus a theorem but one,
`OnlyStallsBlock`, which is about `ENABLED`; its form with the guards written out is proved.
Also only model-checked are the liveness properties `CancellationTellsEveryone` and
`ScreenSettles`, for fairness too is stated with `ENABLED`, which the prover does not handle; the
steps they rest on are proved (`NobodyForgotten`, `SpinnersAwait`). Of the four properties that
runs refute, three have a theorem that bounds or describes what happens instead: `Overbooking`,
`LifecycleImplemented` and `WeekendAsked`.

## Not modelled

Listings and counts only read: of the dashboards, statistics, the list of users and the
list of registrants nothing else depends on what they show. The month filter of
`event_repository.go:471` and the comparison of times as strings in `event_service.go:85`
are listed as hazards without a property. Uploads write a file under a fresh name; emails
and pushes are single HTTP calls whose results are discarded; a device token is one upsert.
Categories have a status, which `SetStatus` changes and no page calls, so every category is
active here. The sign-in, profile and settings pages send one request each and are modelled
by `Accounts` at the server only; the phone's recent searches stay on the phone.

## Order of work

1. Done: `Store` to `EventLifecycle`, `Reminders`, `Accounts`; the requests of the API.
2. Done: `ClientCalls`, `EventScreen`, `Discovery`, `AttendeeApp`, `Hub`, `NotificationFeed`,
   `OrganizerPages`, `AdminPages`, `WebPages`; the hub, the categories and the clients.
3. Done: proofs about `EventRequests`, `Reminders`, `Accounts`, `NotificationFeed`, `WebPages`,
   `AttendeeApp`; every safety property of the runs but `OnlyStallsBlock`.
4. Done: the safety half of the liveness properties and of `OnlyStallsBlock`; the refinement of
   `EventLifecycle` with stale writes, for any number of requests; who is told of a
   cancellation, how often and who is not.
5. Open: liveness, should the prover come to handle `ENABLED`; where a recipient's delivery
   stalls, how long the others wait.
