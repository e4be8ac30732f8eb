# Armature: a verification project in TLA+

Armature is an issue tracker: a Go API and a Go worker over PostgreSQL (a
primary and streaming replicas) and Redis, with a React client. This directory
holds TLA+ models of the parts of the backend where the order of things matters
and of the client's cache, screens and forms, the TLC configurations that check
them on small instances, and proofs that TLAPS checks for instances of any size.

All paths below are relative to `src/`; `internal/` is short for
`backend/internal/`.

## 1. Inventory

### How the parts interact

A request comes in at `internal/httpapi`, which authenticates it, pins its
reads to the session's last write (`internal/freshness`, `internal/db`) and
calls a service. A service writes in one transaction, and the domain event of
the change is a row of the `outbox` table in that same transaction
(`internal/events`). The worker's relay moves outbox rows onto one Redis stream.
The worker's consumers (audit, notifications, webhooks, automation, desk mail,
and others) each read the stream as a consumer group, at least once. Webhooks
and automation rules are consumers that keep a log of their own in PostgreSQL
and go on from there. Beside the stream the worker runs timed loops: the
webhook sender, sprint snapshots, reaping of attachments, SLA watch, digests.

The web client (`web/src`) asks the API through hooks (`web/src/api`), each a query
or a mutation of TanStack Query. A query's answer is kept in one cache under its
key and shown by every component subscribed to it. A mutation declares keys old
when it is answered; those on the screen are read again. Components (`features`,
`routes`) mount queries, give their controls mutations, and render other
components. The shell around the pages holds one confirmation dialog for all of
them and says, by a toast, the failures no caller says itself.

### The components

| Component | State it keeps | Operations | What is hard | What makes it correct |
|---|---|---|---|---|
| events | outbox rows; the stream; per group a position and pending entries | emit, relay pass, trim, read, claim, handle, set aside, acknowledge | several Redis calls per decision, crash between any two, replay, a full stream | nothing a group needs is trimmed, nothing is lost, everything is published and settled in the end |
| webhook | a log of attempts per endpoint and event | enqueue, sender pass, post, record, pause, redeliver | rows are read without a lock; the outcome is lost after the post | no event forgotten, no hole in a chain, a delivery is final, every event concludes |
| db, freshness | replica positions and lag windows; a position per session in Redis | read, write, health check, note, require | stale readings, requests ending out of order, failed calls | a session reads its own writes; replicas come back |
| automation | a row per rule and event | claim, judge, act, record, drop | redelivery beside a running handler, death after the claim, loops | a rule acts at most once; its cap and its log hold |
| sprint, an issue's sprint and team | sprints with state, dates, report and burndown; each issue's sprint and team | create, update, start, complete, delete, snapshot, set sprint, set team, transition | READ COMMITTED: unlocked reads, counts before the transaction, locks taken in different orders | work lands ahead, an open sprint holds its own team's work, reports are final |
| issue | issues, comments, links, hierarchy | update under a lock with a freshness check, transition, link | two editors, cycles through two links at once | no lost update, no cycle |
| oauth | grants, codes, refresh tokens | redeem, refresh, revoke | rotation and retries after a lost answer | one live token per grant; reuse ends the grant |
| attachment | rows, objects in a store, tombstones | upload, delete, reap | the object is outside the transaction | no row without an object; no object for ever without a row |
| desk | requests, SLA clocks, calendars | follow, watch, inbound mail | clocks stopped and started by late events | a clock measures working time once |
| perm | roles and assignments | assign, revoke | two administrators revoke each other | an administrator remains |
| auth | sessions, second factor, sign-up | sign in, challenge, sign up | counters and codes used twice | a code works once |
| notify | notifications, digests | fan out, claim and mail a digest | death between claim and mail | a digest is mailed at most once |
| rank, plan, nql, workflow | none, or derived | compute | boundaries | the result is the one the definition gives |
| web client: API hooks, query client | per query a cached answer, its invalidated mark, the read under way; the mutations pending | read, poll, invalidate, put, remove, mount, unmount, collect; press, answer, fail | reads under way when the change is told, lost answers, readers who leave and come back | a screen comes to show what its reader was told was done; a change is pending until it is shown |
| web client: screens, confirmations and toasts | per form what is filled in, the call followed, the question asked | fill in, press, ask, confirm, close, open again, what follows a call | closed or reopened while a call is pending; pieces refused after the call | a thing is made once; failures are said; a late answer spares the form opened since |
| the rest | plain records, I/O or rendering | | | listed with a reason in `PROJECT.json` |

`PROJECT.json` lists every component with its source and, under `hazards`, the
places where a test would hardly reach, each with the property that covers it
or the reason none does. It keeps to the places the models reach, with the few
outside them that matter most. Known and left out of it:

- two consumers that set the same entry aside and record it twice
  (`internal/events/consumer.go:240`), a position that expires while a replica is
  behind it (`internal/freshness/freshness.go:58`), a receiver that is gone and
  leaves no status (`internal/db/lag.go:57`), a sprint's totals counted before
  its transaction and by two statements (`internal/sprint/lifecycle.go:133`, `:158`);
- in components that are not modelled: a refresh token whose answer was lost
  (`internal/oauth/token.go:335`), an object stored by a transaction that fails
  (`internal/attachment/service.go:200`), two administrators who revoke each
  other's role (`internal/perm/assign.go:303`), a digest mailed by two workers or
  by none (`internal/notify/digest.go:117`).

Outside the models altogether: Redis losing its data (the groups are made again only when
the worker restarts), a standby rebuilt from an older copy (the position last
read of it is ahead of it until the next health check), two tests of one
webhook endpoint sharing the latest ping's row, and two workers ticking the
automation schedule.

## 2. Plan

Done: `EventStream`, which implements the abstract `EventDelivery`,
`WebhookDelivery`, `ReadYourWrites`, `AutomationRun` and
`SprintLifecycle`; of the client the tables `ClientApi`, `ClientWork`,
`ClientAdmin`, `ClientShell` and `ClientScreens`, the cache `ClientCache`, which
implements the abstract `ClientView`, and the forms `ClientForms`. Each state
machine has its proofs; `Counting` holds the lemmas about cardinalities they share.

Next, in this order:

1. `AutomationRun` and `WebhookDelivery` composed with `EventDelivery`, so that what
   they assume of redelivery is what `EventStream` is proved to give.
2. `IssueEdit` (updates under a lock with a freshness check), links and
   hierarchy without cycles.
3. `OAuthGrant`: codes, rotation, reuse, revocation.
4. `AttachmentStore`: rows, objects, tombstones and the reaper.
5. `SlaClock` with the calendar arithmetic as functions checked against a
   reference definition; `Rank` in the same way.
6. The last administrator, the digest's claim, the second factor.

Theorems worth having there: what an event causes end to end, no lost update, one live
token per grant, no row without its object.

## 3. Modules and the code

Each model keeps every state change, guard and error path of the operations it
covers and abstracts the data. `PROJECT.json` maps each definition to its lines.
In every module the definitions named "Mutant" in their comment are wrong
versions of an operator; they are used by no specification and are there to
show that a property would notice the bug.

### EventStream (`internal/events`, `cmd/worker`)

A worker runs one relay and one consumer per group. A call to Redis or
PostgreSQL is a step, and between two calls anybody else may step or the
process may die. A relay pass is `TrimInfo` (XINFO GROUPS), `TrimPending` per
group (XPENDING), `TrimMinID` (XTRIM MINID) or, while no group exists,
`TrimMaxLen`; `Measure` (XLEN and the room left); `ClaimRows` (SELECT ... FOR
UPDATE SKIP LOCKED); one `publish` or `PublishFails` per row; `CommitPass` or
`RollBackPass`. A consumer does `Join` (XGROUP CREATE), `Read` (XREADGROUP),
`claim` (XAUTOCLAIM of what is idle too long), `Handle`, `deliveries`,
`deadLetter`, `ack`. `Stop`, `Exit`, `Crash` and `Start` are the process's life.

An event is the rank of its `created_at`, which PostgreSQL takes at the start of
a transaction: events may become visible in another order. A stream id is a
position in all that was ever added, so a trim moves `first`. XTRIM MAXLEN ~ may
keep more than asked, and the model lets it; XTRIM MINID is exact. The number of deliveries of a pending
entry saturates at `MaxDeliveries`, the only value the code compares it with.
An error of a call is modelled with both outcomes where the code cannot tell
whether the call took effect (`PublishFails`).

`EventDelivery` is the promise to a group without relays, positions, pending lists
or processes: an entry added after the group was made is held for it until it is
settled, only what was emitted is added, only what was added is marked as
published. `EventStream` maps to it by taking as held what the stream still keeps
and the group has pending or ahead of it; reads, claims and trims are then no
step at all, and a trim of anything else would be one that is not allowed.

### WebhookDelivery (`internal/webhook`)

A row is one attempt at one event for one endpoint: none, failed, delivered, or
live, with `next_attempt_at` as long away as a pause or longer (`waiting`), sooner
than a pause begun now would end (`soon`), or come (`due`). The first `Backoff` is
shorter than a pause, the others are not. `SendDue` reads all due rows without
a lock, lanes take them (`next`, at most `MaxInFlight` to an endpoint), `post`
and `send` are separate steps, and `SendFails` loses the outcome between them.
`record` counts timeouts in a row and ends the lane; `pause` puts off everything of
the endpoint's that would be due before it ends, what an earlier pause put off
included. `Others` stands for the endless stream of further events of the endpoint,
which are not followed row by row but share its lane: one that is answered starts
the count again, one that times out may end the lane. `Redeliver` adds a row numbered after the last one, due at once, and posts
it from the API process. How often a row was posted is kept up to two.

### ReadYourWrites (`internal/db`, `internal/freshness`, `httpapi/middleware.go`)

A position of the write-ahead log is the number of commits up to it. A request
is `authenticate` (the session's position is asked of Redis), any number of
`Read` and `Write`, `committedLSN` (a second statement after the commit, when
others may have committed too) or its failure, and `Note`, which happens before
the response ends. `check` is a health check of one replica: position, receiver
status and the lag's median over a window. The window is modelled by whether
each reading was over the limit, which decides the same median. `Expire` is Redis
losing a session's position or its time running out.

### AutomationRun (`internal/automation/runner.go`)

A handler takes an event, and per rule `claim`s a row keyed by rule and event,
`judge`s (own events, cap, conditions), `act`s, `finish`es or `drop`s; each is a
transaction of its own. `RunFails` is an error between two of them, which the
code only logs. Acting may emit an event whose actor is the automation account.

### SprintLifecycle (`internal/sprint`, `internal/issue/sprint.go`, triggers)

The model is READ COMMITTED as PostgreSQL runs it. A transaction's writes are
seen when it commits, so `Complete`, `SetSprint` and `SetTeam` write at once what
their earlier steps decided. A completion is five steps, because others may
step between them: `CountToComplete` (before the transaction), `Lock` (the sprint
FOR UPDATE, its state, the destination read without a lock), `Choose` (the rows
the carry-over's subselect finds), `carryOver` (the rows locked, the trigger, the
foreign key's share of the destination) and `Complete`. An UPDATE that waited
for a row does not evaluate its subselect again, so a chosen issue is carried as
the other transaction left it. Joining a sprint is `commitTo` (the issue's lock,
the unlocked read, the trigger's read) and `SetSprint` (the foreign key waits
for the sprint's lock, then the commit). Steps are merged only where nothing
another session does could fall between them with a different result: a lock
and the read it protects, the foreign key's share and the commit behind it.
`RollBack` is every refusal, deadlock and error.

Totals are the sets of issues counted. Left out: names, goals, capacities,
days (one point stands for the last day written), estimates, deleting a team,
and the other writers of an issue's sprint (creation, bulk changes,
import), which go through the same trigger. The reads before a transaction see
what is committed; on a replica they could be older, which no property here
depends on since every transaction asks again.

### ClientApi (`web/src/api`)

A table of the client's hooks. A read has its query key and the resources
its answer is made of; a write has the resources it changes on the server and how
its hook tells the cache: the prefixes it declares old (`told`), whether it awaits
the reads it asks for (`awaits`), what it spares, writes (`puts`), removes (`drops`)
or empties (`clears`), whether it tells after a failure as well (`settled`), what it
reads again when an edit was refused for being made on an old copy (`stale`), and
whether its calls queue (`scoped`). `Matches` is TanStack's partial match of keys.
An identifier in a key is one name, since a screen asks about one issue, project
or dashboard. What an answer is made of is read from the hook's path and type and
from the service behind it; people's names, which nearly every answer embeds,
are left out.

### ClientWork, ClientAdmin, ClientShell, ClientScreens (`web/src/features`, `web/src/routes`)

One `Part` per component that mounts a query, makes a change or renders one that
does: its queries, its operations with the words for how each control behaves
(listed at the top of `ClientWork`), and the components it renders. `ClientScreens`
puts pages under the shell and gives `Screens`, the sets of queries and changes
that are on a screen together. A component that is rendered under a condition
counts as rendered: its change must reach the screen it is on.

### ClientCache (the query cache and one change), ClientView

One query and the changes made to what it answers, on a screen that has both.
`Wiring` says how the two meet, from the tables; pairs wired alike are one case,
and `Init` chooses among all cases of all screens. The query's side is `ReadServer`, `Land`,
`FailRead`, `Poll`, `Mount`, `Unmount`, `Collect` and `Invalidate`, as TanStack
5.102 has them (external, marked so in the map) with the options of
`web/src/lib/queryClient.ts`. A read under way is cancelled by an invalidation only
when the query has an answer to show, and no query function takes the abort
signal. The change's side is `Press`, `Dequeue`, `Serve`, `Refuse`, one `Answer...`
per way a hook ends, and `PutAway`. The hook's callbacks run whatever has become
of the caller; the caller's own run only for a press it made (`own`).

`ClientView` is what a screen owes its reader: it never goes back, and at rest it
shows all that the client knows to be made. A screen may be excused
(`excuse`): the read it asked for failed, a read no invalidation could cancel was
under way, or the answer of an earlier change was written over that of a later.
`MCLeftOld` names the four changes left out of the cases (see the remarks).

### ClientForms (a form and its calls)

`Kind` is how a control behaves, from the words of its operation and from whether
its write makes something. isPending is one thing and what the screen shows of it
another: `Pending` is what the observer has been told, `drawn` what the last
`Render` showed, and a control that waits is disabled by `drawn` only, so that a
second press may land between the two (`unseen` keeps those calls). State a
component sets in its own handler (a menu that closes, the ref of the comment form,
`Locked`) holds from the press on. A comment's or a description's text is kept
outside its form (`draft`, `web/src/features/issues/drafts.ts`) and is there when
the page is opened again. `Fill`, `Press`, `Ask`, `Confirm`, `Decline`, `Close` and
`Open` are the reader; `Serve` the server; `AnswerEnds`, `AnswerUnheard`,
`AnswerFollowed`, `Follow`, `LandWhole`, `LandShort`, `AnswerFails` the ends of a call.
`latest` is the call useMutation follows: the callbacks given to `mutate` run for
that one only, and only while the component is mounted. What comes after an
`await` runs in any case (`async`), and a closing that belongs to the component
around the form (`lent`) then closes whatever is open. The confirmation belongs to the shell and
outlives its form. The end of a session is left out: the sign-in page then takes
the place of whatever was open.

## 4. The runs

| Run | Instance | Shows |
|---|---|---|
| `stream_replicas` | 2 workers, 1 group, 1 event, 3 entries, 2 faults | trims, replays, double claims, crashes and lost acknowledgements lose nothing |
| `stream_groups` | 1 worker, 2 groups not made yet, 2 events, 3 entries, 1 fault | a first boot: trimming by length, then by the slower group, implements `EventDelivery` |
| `stream_live` | 1 worker, 1 group, 3 events, room for 2, 1 fault | under fairness everything is published and settled; the cap bounds the stream |
| `webhook_senders` | a sender and a redelivering request, 2 attempts, 1 redelivery, 2 faults, any number of other events | a chain keeps its event, a delivery is final, no retry without a reason, every event concludes once the others no longer have its endpoint paused |
| `freshness_session` | 1 session, 2 requests, 1 replica, window of 3, 2 writes, 1 fault | own writes are read while the position is kept; positions rise; one reading takes no replica out; replicas come back |
| `automation_handlers` | 1 rule, 4 events, cap of 1, 2 handlers, 1 fault | at most once, true outcomes, the cap, one capped row; only a fault leaves a claimed run without its conclusion |
| `sprint_life` | 3 sprints of 2 teams, 1 issue, 2 sessions | carried work lands ahead, teams' work, last point, final reports |
| `client_cache` | every wiring of the client's screens but four (`MCLeftOld`), 2 changes | the screen comes to show what its reader was told was done, and implements `ClientView`; every change ends |
| `client_forms` | every kind of control, 3 calls, 2 fillings, 2 openings, 2 pieces | guarded controls make nothing twice but for two named exceptions, failures are said, late answers spare the reader, controls come back |

Three runs show where the code and a sentence about it part; each has an entry
under `findings`:

| Run | Sentence | What happens |
|---|---|---|
| `stream_mail_off` | `internal/events/events.go:81`: `Groups` "names every consumer group the worker runs on the stream" | with SMTP switched off desk-mail is not run but is waited for: the stream fills and the relay holds every event |
| `sprint_over` | `migrations/00934...sql:70`: "Work cannot be added to a sprint that is already over" | a join that read the sprint while its completion held the lock lands after it closed |
| `client_made_twice` | `web/src/features/issues/CreateIssueDialog.tsx:27`: "It exists, so the dialog must not offer to make it again." | from the create's answer until `applyRest` has ended the button is enabled, and a press makes the issue again |

Smaller remarks on the backend, without a run:

- `docs/webhooks.md:100` says "Every attempt is in the endpoint's log"; a redelivery's
  row is due while the request posts it, and the sender may post it as well: two
  posts, one row.
- `docs/decisions.md:2603-2604` says that by a pause "everything it has waiting is put
  off five minutes"; the pause is made anew by every three timeouts in a row, so
  while newer events of the endpoint go on timing out an older one is put off again
  each time, and may never be tried. `EveryEventIsConcluded` is stated for endpoints
  whose other events stop pausing them; without that premise TLC finds the loop.
- `docs/decisions.md:41` says "A receiver that has stopped streaming takes it out at
  once."; a receiver process that has ended has no status, and the replica passes.
- `docs/decisions.md:2672` says "exactly-once for the rule"; it is at most once: a run
  that dies after its claim is never concluded. `AbandonedRunsAreFaults` says that
  nothing but a fault does this.
- `internal/freshness/freshness.go:6-7` promises freshness without an exception;
  `Required` answers zero on an error, and the code's own comment accepts that.
  `KeptMarksAreHonoured` states the promise with this exception.
- `internal/webhook/webhook.go:339` calls a redelivery "a fresh first attempt"; its
  row is numbered after the last one, so a failed redelivery of an exhausted chain
  is not retried.
- `internal/sprint/lifecycle.go:106-107` calls a report's totals those "at the
  moment the sprint closed"; they are counted before the transaction. Finished and
  carried are counted by two statements, between which an issue may change sides.
- `docs/decisions.md:725` says a closed sprint keeps its work whoever carries it
  later; a handover decided while the sprint was still running takes finished
  work out of it after it has closed.

And on the client:

- Create dialog: reopened while `applyRest` is at work, it is closed by the `land`
  of the first issue. Reopened before the create is answered, it has reset
  the mutation, and what was to follow (labels, links, fields) is dropped without a
  word. What `applyRest` changes is told to no query. It is not `Guarded`, so
  `GuardedMakersMakeOnce` says nothing of it; `LateAnswersSpareTheReader` does not
  promise it either (`Spares`).
- Three more controls that make something are held by nothing (`MCUnheld`): the box
  a drag on the timeline leaves behind (`DraftInput`,
  `web/src/features/plan/AddRow.tsx:182`), where a second Enter files the ticket
  again, while the sidebar's row is disabled; the cards a widget is added with
  (`AddWidget.tsx`); and Copy on a workflow's card. `MCGuarded` states that these and
  the create dialog are all there are.
- `web/src/features/issues/IssueActivity.tsx:170-171` says that "a second Ctrl+Enter can
  land before the render that would show the first one pending", and the comment form
  has a ref against it. Every other maker that waits relies on isPending, and
  `MadeOnce` names such a press as its first exception.
- A comment whose page is left while it is posted is still a draft when the page is
  opened again, with a ref of its own, and can be posted twice: the second exception
  of `MadeOnce`. A comment begun there since is forgotten as a draft when the
  first one lands.
- A description or a comment's edit that was cancelled while it was saved and then
  opened again is closed by the late save (`stays`, `lent`). Ctrl+Enter in their
  editors does not wait.
- `web/src/features/shell/MutationErrorToasts.tsx:6-7` says "A change the server
  refuses would otherwise flip back without a word"; a caller that says its errors
  itself is counted as doing so after it is unmounted, and when a second call of
  a control that does not wait, or is not shown waiting yet, has overtaken the
  first. `FailuresAreSaid` states what is left.
- The list of connected tools in the account menu is not read again after an
  administrator creates, changes, approves or deletes an app
  (`web/src/api/oauth.ts`, `MCLeftOld`).
- A late 401 of an old session ends the new one (`web/src/lib/queryClient.ts:19-20`).
- Files picked in the portal's request while it is being sent are neither attached
  nor reported; text typed into a form that is emptied by its answer is lost if
  it was typed meanwhile.
- Deleting a board, making the demo project and accepting an invitation await their
  call and then navigate, and so move a reader who has gone elsewhere.

### Bounds, and why they are enough

- `MaxEntries` lets every event be added once and once more for each replay the
  faults allow; a smaller value would stop the model before it is done, which
  the deadlock check would report.
- `MaxFaults` counts crashes, shutdowns and failed calls together. One fault
  reaches each error path; two reach an error during the recovery from another.
- `MaxLen` 2 with 3 events fills the stream; the floor keeps the last delivered
  entry, so 1 would leave no room at all.
- Two workers are more than the chart allows (`README.md:241`,
  `deploy/charts/armature/values.yaml`, where the worker is pinned to one and
  replaced by Recreate). The comments of the relay and the consumer speak of
  several, a deployment that is not the chart's may run them, and two processes
  overlap wherever one is slow to die: `stream_replicas` covers these.
- A sender of the worker and a request of the API are the two kinds of process
  that post webhooks. With two attempts both the retry and giving up happen,
  and a redelivery races with the retry. One event is followed; `Others` puts no
  bound on how many more its endpoint has. The proofs cover more.
- Two sprints of one team and one of another are the least that have a
  destination, a rival to start, and a team to hand work to; a third session adds
  nobody new to a lock that two already contend for. The proofs cover the rest.
- Two changes are the least that queue behind each other, overtake each other or
  meet the read the other asked for. The proofs cover more.
- Two openings and three calls let the answer of a closed form meet a reopened one
  which has made a call of its own; two calls of one opening and a third of the next
  let a press land before a render and a draft be come back to; two fillings tell what was sent from what
  is filled in since; of two pieces the first may be refused and the last not.
- `stream_live` has one worker: that two relays which measured the same room stay
  within the bound is the theorem `CapHolds`. `automation_handlers` has no rule that
  starts itself; the theorem `CapHolds` of `AutomationRun_proofs` covers it.
- Symmetry is used for workers, for two groups that are both run and not made yet,
  for handlers and events, and for sessions and the two sprints of one team, only in runs without liveness properties.

### Fairness

- `EventStream`: the worker is restarted when it exits and each of its loops goes
  on (`cmd/worker/main.go` runs them until shutdown and the chart restarts the
  pod); a handler returns. Nobody has to emit, and faults are finitely many.
- `WebhookDelivery`: time passes, the sender's loop goes on, and a post ends, if
  by the client's timeout. Endpoints owe nothing: they may time out for ever. That
  the other events of an endpoint do not have it paused for ever is no fairness of
  the code's; it is the premise of `EveryEventIsConcluded`.
- `ReadYourWrites`: replication goes on, a dropped receiver reconnects, the health
  loop ticks.
- `ClientCache`, `ClientForms`: a request is answered in the end, if by a failure (the
  browser gives up on a connection), queued changes are sent, what has changed is
  rendered, `refetchInterval`
  ticks, and recovery codes that are shown are put away or left. Nobody has to
  press, look, close or come back.
- `AutomationRun` and `SprintLifecycle` state no liveness. The first has none to
  offer, since a run that dies stays unconcluded; in the second everything waits
  for people.

`CHECK_DEADLOCK FALSE` is set where a system may rest: all webhooks concluded,
all automation events handled, a screen at which nobody presses any more.

## 5. What is proved

The theorems hold for every value of the constants that satisfies the
assumptions named in the modules (bounds are natural numbers, some at least 1;
there are finitely many workers and handlers, and at least one; senders and
requests are different processes; every sprint has one team). A theorem that needs
more of the constants says so in its statement.

**EventStream_proofs.** `TypeCorrect`; `TrimIsSafe`, `NoEntryIsLost` and
`RetriedUntilSettled`, the last three for a stream on which some group the relay
waits for already exists (before that it trims by length, and `stream_groups`
checks that case). The difficulty is that the trim point is put together from
several calls. The invariant says that the floor a relay carries lies below every
group's position and, for the groups already asked, below all that is pending
(`FloorsAreSafe`). It survives because positions only rise and entries become
pending only above the position (`GroupsInOrder`). `HandedIsAccounted` and
`SettledBeforeAck` then give that whatever was handed out is pending or settled.

`MarkedIsPublished` (`PublishedIsOnTheStream`) needs that what a pass counts as sent
is on the stream (`SentIsOnTheStream`), which the log, only ever appended to, keeps.

`CapHolds` (`BacklogIsBounded`) counts. A pass that has measured, or claimed, owes
the stream entries it may still add (`Owed`), and the bound already covers the
stream with all that is owed (`CapCoversOwed`). An XADD pays off one; a measurement
starts from an empty account, so that the others' accounts, a batch each, are all
that can exceed the cap; a failed trim pays a batch from the fault it uses up.

`Refinement` is that `EventStream` implements `EventDelivery`. Beside the invariant it
needs that what a consumer has in hand was added after its group was made
(`HandsAreTheGroups`), so that a late handler settles an entry that is held or is
settled already, and that a relay adds only what was emitted (`RowsAreEmitted`).
There is a lemma for each kind of step; `TrimIsSafe` is what makes a trim no step.

**WebhookDelivery_proofs.** `NothingIsForgotten`, `ChainsStay`,
`DeliveriesAreFinal`. The invariant is that chains have no holes and that senders
hold only rows that are in the log. `NoEventIsForgotten` is not inductive; it
follows by taking the greatest attempt of the chain. `TypeCorrect` needs `LanesCount`:
an endpoint's timeouts in a row stay within their range because a lane that has
stopped has only its posts in flight left to count, `MaxInFlight` at most.
`RetriesAreNeeded` (`NoNeedlessRetry`) needs `AttemptsAreCounted`: an outcome in hand
or on record is a post of its row, two outcomes are two posts, and a retry nobody
asked for follows a row that has its outcome.

**ReadYourWrites_proofs.** `OwnWritesAreRead`, `PositionsRise`, `TypeCorrect`,
`OneReadingIsNotEnough`. The
invariant orders what is known: a health reading is never ahead of its replica,
the kept position covers the session's answered changes, a request's pin covers
those answered before it began. `OneReadingIsNotEnough` (`OneReadingDoesNotFlap`)
is stated for windows of more than one reading (`ReplicaLagSamples` is 3 unless
configured, and 1 switches the window off): a replica in rotation has been read
(`HealthyWereRead`), so the check that takes it out judges at least two readings, of
which the lower median is late only if two are.

**AutomationRun_proofs.** `TypeCorrect`, `ActsOnce`, `LogIsTrue`. Past its claim a
handler holds a running row, alone, and where it is says whether it has acted.
`CapHolds` (`CapIsKept`), `LogStaysShort` (`LogIsNotFlooded`) and `OnlyFaultsAbandon`
(`AbandonedRunsAreFaults`) count rows: handlers that judged before each other's
rows were written may each pass the cap once, so the invariant keeps the rows
counted together with the handlers about to add to them below the cap and one row
for each other handler (`CapCoversActing`, `LogCoversTelling`), and every row left
running by nobody below the faults used up.

**SprintLifecycle_proofs.** `TypeCorrect`, `CarriedAhead`, `TeamsWork`, `LastWord`,
`ReportsFinal`. A stream runs one sprint at a time (the unique index) and that
sprint runs while a completion holds it. Hence the destination, another sprint of
the same stream, is not running, and if open it is still ahead; it cannot start
before the completion ends, nor be deleted while the foreign key holds its share.
This is what makes an unlocked destination safe. `HandoversStandBy` and
`JoinsStandBy` say that what was decided under an issue's lock about its sprint
and team is still right when it is written.

**ClientCache_proofs.** `TypeCorrect`, `ShownCurrent`, `EndShows` and `Refinement`
(`ClientCache` implements `ClientView`). The invariant (`HeardIsFresh`) says that a
change the client has heard of is still to be read, is in the answer on its way
unless that was asked for too early, or, with nothing on its way, is in the
cached answer, or that answer is excused or will not be shown unread. `CountsInOrder` keeps answers behind the server. `ShownCurrent`
and `Refinement` assume `EveryCaseIsTold`: a wiring that tells the query nothing
would refute them. TLC evaluates it for the client's tables in every run of
`MCClientCache` (`MCTold`): this is what the tables are for.

**ClientForms_proofs.** `TypeCorrect`, `MakersMakeOnce`, `FailuresSaid`,
`LateAnswersSpare`. A form that has gone holds nothing (`GoneIsEmpty`); a filling
whose call is under way is held by the form that made it, unless a press overtook
that call unseen (`FillingIsHeld`), or went with the gesture that sent it
(`GestureIsGone`), and is so sent once but for the exceptions (`SentOnce`). The step
that matters is `PressedAgain`: a press for what is under way finds the call
pending, so the control was not yet shown waiting and has no ref. A reader who
stayed follows his own call or has sent the next (`ReaderFollows`, `FollowsItsOwn`),
which gives the other two. `MakersMakeOnce` speaks of the kinds that are `Guarded`;
which controls of the client are not TLC evaluates (`MCGuarded`), and the finding is
about one of them. The theorems assume that a control with a ref neither asks,
stays nor sends pieces and one with a kept draft neither asks, stays nor goes away
(`KindsAssumption`), as the comment form and the description do.

Every inductive invariant was checked with TLC before its proof was written.

`Counting` has the five facts about cardinalities the counting proofs use, derived
from the library's theorems on finite sets.

A convention of the modules comes from the prover. tlapm 1.4.5 hands
several exceptions on one index (`[f EXCEPT ![h].a = .., ![h].b = ..]`), and an `@`
within an inner EXCEPT, to its SMT backend in a form that is not what TLA+ means and
from which false things follow. The modules write `![h] = [@ EXCEPT !.a = .., !.b = ..]`
with the inner values spelled out. For the invariants and actions of the modules
that had used the other form, and for each lemma of the refinement, it was tried
whether FALSE follows from the facts at hand; it does not. The wrong versions of
the operators (the "Mutant" definitions) make the proofs fail.

Only model-checked: the liveness properties (`EveryEntryIsSettled`,
`EveryEventIsPublished`, `EveryEventIsConcluded`, `ReplicasComeBack`,
`EveryChangeEnds`, `ShownInTheEnd`, `ControlsComeBack`), since fairness is outside
the prover's reach. All other properties of the passing runs are theorems. Those of
the stream that speak of trimming are theorems where a group exists from the start;
before that the stream is trimmed by an approximate length, which
`stream_groups` checks.

## 6. What is not modelled

Redis and PostgreSQL keep their data; a failover is a failed call. A replica only
moves forward. Metrics, payloads, signatures and texts are left out.

Of the client: drawing and layout (the timeline's geometry, the theme
editor, charts), translation, the transport, the end of a session by a 401, the
names of people inside answers, and what is typed.

Components that are plain records with one transaction per operation have no
interleaving that PostgreSQL does not already serialise. `PROJECT.json` gives the
reason for each.
