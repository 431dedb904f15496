# simhook in TLA+

simhook turns an Android phone into an SMS gateway: a server takes messages
over HTTP, a phone fetches, sends and reports on them. This directory models
the parts of it where order, failure and overlap decide whether the product
tells the truth, checks them with TLC on small instances and proves the
central invariants with TLAPS for every instance.

## The system

| component | state it keeps | operations | correct when |
|---|---|---|---|
| outbound messages, server (`gateway/send.go`, `gateway/reports.go`, `store/messages.go`) | `messages`, `batches` with five counters, dispatch jobs | Send, dispatch job, FetchOutbox, ReportStatus, Reconcile (stale sweep) | a message moves forward only, counters equal the messages, every message and batch comes to an end, the last event told is the outcome |
| pairing and device settings (`gateway/gateway.go`, `store/devices.go`) | `devices`, `pairing_codes` | Pair, UpdateDevice, Unpair, SetDefaultDevice | one phone per code, plan limit, one default phone |
| presence (`gateway/reports.go`) | `devices.last_seen_at`, alert marks | Heartbeat, presence sweep | one alert per silence |
| inbound SMS (`gateway/reports.go`) | `messages` (inbound) | RecordInbound | a text reported twice is one row, and is announced |
| webhooks (`webhooks/webhooks.go`, `store/webhooks.go`) | `webhooks` with counters, `webhook_deliveries`, delivery jobs | Create, Update, Delete, Emit, SendTest, the delivery job, the pausing sweep | a delivery ends acknowledged or given up after its tries, and is never made after its end |
| billing and quota (`billing`, `store/billing.go`) | subscriptions, usage counters | ReserveSends, provider events, sync | usage never beyond the limit, an older event never wins |
| accounts (`auth`, `store/users.go`) | users, sessions, one-time codes, API keys | sign in, codes, session slide | a code works once and a bounded number of tries |
| phone outbox (`android/.../outbox`, `sms`) | `outbox` rows, the sending loop, the radio's open answers | fetch, drain, broadcasts, sweep, unclaim | a text goes out once, is finished once, and what is reported is what happened |
| phone workers and ledger (`work/Workers.kt`) | `reports` rows | OutboxSync, ReportUploader, Heartbeat | a report stays until the server took it |
| phone pairing and process (`SimhookApp.kt`, `gateway/GatewayService.kt`, `push`) | settings, device token | pair, unpair, start the service | nothing of one pairing leaks into the next |
| HTTP API, rate limit, configuration, mail, push, secrets | none of their own, or library state | | translation and I/O |
| dashboard session (`web/src/proxy.ts`, `session-provider.tsx`, `signed-in-redirect.tsx`, `providers.tsx`, sign-in pages) | the account query, a ref, the page's address; the browser's two cookies | load, sign in, sign out, verify, redirects, a page's requests | redirects end, only a lost session signs out, no account sees another's rows |
| dashboard pages (`web/src/app/(app)`, `lib/queries.ts`, dialogs) | a query cache, mutations under way, forms and dialogs | send and follow a send, edit a phone, pair, keys, webhooks, billing | what is typed is kept, a secret is shown, an answer touches only what asked for it, what is awaited is seen |
| SDK (`packages/sdk`) and MCP server (`packages/mcp`) | a request with attempts, a timer and a signal; a waiting tool | request with retries, waitUntilDone, send_sms, wait_for_incoming_sms | a write is made once, an answer "pending" is true, a call ends, a cancelled one stops |
| site, contracts | none | | static pages, generated types |

The server and the phone talk over HTTP only: the phone fetches its outbox
(after a push, or at a check-in), stores the rows, and reports outcomes from
its ledger, in any order and as often as it takes. Within the server, requests
and queue jobs meet in the database; within the phone, the sending loop and
the coroutine of each radio broadcast meet in SQLite. The dashboard, the SDK
and the MCP server are clients of the HTTP API: within each, answers arrive
while the reader or the program has gone on. What is hard is in
those meetings: statements outside transactions, statements on stale
snapshots, jobs and processes that die between two steps, answers that come
late, twice or never. `PROJECT.json` lists each such place at its line under
`hazards`, with the properties that would catch it going wrong.

## Modules

| module | models | extends |
|---|---|---|
| `MessageStates` | abstract: the lifecycle of a message as the API promises it | |
| `MessageLifecycle` | the server's record of outbound messages | instantiates `MessageStates` |
| `MessageLifecycleProofs` | theorems about it | `MessageLifecycle`, TLAPS |
| `MCMessageLifecycle` | instance for TLC | `MessageLifecycle` |
| `PhoneOutbox` | the phone's outbox, loop, radio and ledger | |
| `PhoneOutboxProofs` | theorems about it | `PhoneOutbox`, TLAPS |
| `MCPhoneOutbox` | instance for TLC | `PhoneOutbox` |
| `EventDelivery` | abstract: what is promised of one event on its way to one webhook | |
| `Webhooks` | an account's webhooks, the fan-out, the delivery jobs, the pausing sweep | instantiates `EventDelivery` |
| `WebhooksProofs` | theorems about it | `Webhooks`, TLAPS |
| `MCWebhooks` | instance for TLC | `Webhooks` |
| `Pairing` | pairing codes, the phones of an account, the default phone, device tokens | |
| `PairingProofs` | theorems about it | `Pairing`, TLAPS |
| `MCPairing` | instance for TLC | `Pairing` |
| `SdkHttp` | one call of the SDK's HTTP client: attempts, timer, repeats, AbortSignal, and the network under it | |
| `McpServer` | a tool of the MCP server, or an SDK method of several requests | `SdkHttp` |
| `McpServerProofs` | theorems about it | `McpServer`, TLAPS |
| `MCMcpServer` | instance for TLC | `McpServer` |
| `QueryClient` | external: an entry of the query cache, as the dashboard relies on it | |
| `Mutations` | external: the mutations of a page, likewise | |
| `DashboardSession` | who is signed in, for one tab: gate, account query, redirects, sign-in and sign-out, cookies | `QueryClient` |
| `DashboardSessionProofs` | theorems about it | `DashboardSession`, TLAPS |
| `MCDashboardSession` | instance for TLC | `DashboardSession` |
| `SendPages`, `DevicePage`, `PairPage`, `KeyPage`, `WebhookPage`, `BillingPage` | one page each, with its queries, mutations and dialogs and the part of the API it talks to | `QueryClient`, `Mutations` |
| `Dashboard` | the pages, one of them open | the six pages |
| `DashboardProofs` | theorems about it | `Dashboard`, TLAPS |
| `MCDashboard` | instance for TLC | `Dashboard` |

### MessageLifecycle

State. `status`, `code`, `age`, `handed`, `announced` are a message's row and
its last event; `count`, `batch`, `closed` a batch's counters, status and
completion; `paired`, `enabled`, `push`, `quiet`, `sentCount` a device's row;
`job` the dispatch job of each wave; `sweep` the statement of the sweep that
is running.

Actions. `Send` is `gateway.Send`'s transaction. `LoadQueued`, `ReadDevice`,
`PushAccepted`, `PushRejected`, `MarkFailed`, `CountFailed`,
`RecomputeFailed`, `AnnounceFailed` are the statements of a dispatch job, one
step each because the job holds no transaction; `JobDies` is an error or the
death of its process, after which the queue runs it again until its attempts
are spent. `FetchOutbox` and `ReportStatus` are one transaction each;
`ReportIgnored` a report that changes no message. `SweepSnapshot` and
`SweepUpdate` are the two halves of `MarkStaleUnknown`'s statement, which
under READ COMMITTED picks its rows from a snapshot, locks none of them and
updates them by id; `SweepRollsBack` its failure. `PairDevice`,
`UnpairDevice`, `UpdateDevice`, `RefreshPushToken` are what the owner and the
phone do to the device row. `Tick` lets time pass.

Time is kept as ages, saturated where the code stops telling them apart.
Quota, idempotency keys and message content are outside. Emitting a webhook
event is taken to succeed.

Three specifications share the actions. `Spec` is the program as it is.
`SweepAloneSpec` lets no transaction commit while a sweep's statement runs;
`SerialSpec` also lets no dispatch job die between failing its rows and
having recorded that. The last two say what the code needs for its stronger
guarantees. `lifecycle_sweep_clobbers` shows the first need; the second is
under "Known divergences".

### PhoneOutbox

State. `row`, `parts`, `partsOk`, `attempts`, `cooling` are an outbox row;
`asked` that the service was told to start; `drain` where the sending loop
stands; `word` every part the radio was given, from the radio through the
coroutine that handles its broadcast; `ledger` the reports written. `air`,
`handings`, `late` and `lost` are history, read by the properties only (and
`handings` by the bound).

Actions. One per DAO call: `Claim`, `MarkHanded`, `Silence` (await),
`PartOk`, `CompleteIfAllParts`, `ReadAttempts` and `RetryLater` (the two
halves of `settle`), `Fail` and `Settle` (finish), `Interrupt`, `Unclaim`,
`WriteReport`. Between them, `Pick`, `Dispatch` and `Verdict` are the loop's
head, the call of the radio, and the wait for it. `RadioSends` and
`RadioFails` are the radio, which may also stay silent. `Delivered`,
`Undecided` and `Undelivered` are the delivery report. `ServiceStops` and
`ProcessDies` end the loop or everything in memory; the database, the radio
and broadcasts not yet begun stay. A broadcast names its message and not the
handing it answers; records in `word` carry the handing for the properties,
and no action's effect on a row depends on it.

`Spec` is the program as it is. `BusySpec` adds a phone that never stops being
given messages, so that loops keep being started.

### Webhooks

State. `hook`, `recent`, `success`, `failure` are a row of `webhooks`;
`status`, `attempts`, `answer`, `fresh` one of `webhook_deliveries`, keyed by
event and webhook (`fresh` stands for the comparison of `created_at` with
`last_enabled_at`); `job` the delivery's job and `errors` what the queue
counts against it; `fanout` how far an emission outside a transaction is;
`sweep` the pausing sweep. `calls` and `acked` are what the endpoint saw.

Actions. `CheckLimit` and `Create` are the two statements of `Create`;
`Enable`, `Disable` and `Delete` the owner's changes that deliveries depend
on. `EmitInTx` writes rows and jobs in the transaction of the event; `Emit`
and `SendTest` go on with `CreateDelivery` and `InsertJob`, a statement each,
until done or until `EmitFails`. `ReadDelivery`, `Abandon` or `CallEndpoint`,
`RecordAttempt`, `CountAttempt` and `FinishRun` are the steps of `attempt`:
the job holds no transaction, and `RecordDeliveryAttempt` is two statements.
`JobFails` is an error or a death between any two of them. `ReadStats`,
`LookAt` and `Pause` are the sweep's statements; `DayPasses` is the time after
which a success no longer protects a webhook.

How long retries wait, payloads, signatures and the events a webhook asks for
are outside, and so are changes of URL and secret. The job reads the webhook
and calls its endpoint in one step: nothing after the read looks at the
webhook again, so turning it off in between changes no more than turning it
off right after.

### Pairing

State. `code` is a row of `pairing_codes`; `row` and `isDefault` a row of
`devices`, which is a handset on an account (the table is unique in the two);
`unrevoked` the rows of `device_tokens` without `revoked_at`. A request mints
one token and stands for it. `pair` is where a request's transaction stands
and what it has read and locked; `unpairing` and `choosing` are the owner's
changes between their two statements. `met` and `gone` are history, read by
the properties only.

Actions. `ReadCode`, `ReadDefault`, `Upsert`, `RetireRows`, `RevokeOthers`,
`CheckLimit`, `ConsumePairingCode` and `Commit` are the statements of `Pair`
in their order, `Commit` with those of `CreateDeviceToken`; `RollsBack` is its
failure at any of them. The transaction runs at READ COMMITTED: each statement
sees what others have committed, and the model writes at `Commit` what the
statements before it wrote unseen. What others do not see they may still wait
for: `WaitsFor` says which statement waits for which rows, and which for the
entry of the unique index that keeps a second default out. `SoftDelete` and
`RevokeTokens`, `ClearOthers` and `MakeDefault` are the pairs of statements of
unpairing and of choosing the default, which have no transaction; `UnpairFails`
and `SetDefaultFails` stop between them. `Expire` is a code's ten minutes.

A statement takes all its locks in one step. Transactions that wait for each
other are ended by `RollsBack`, as the database ends one of them. A refused
request leaves nothing and may be made again.

### SdkHttp and McpServer

State. `call` is the request in progress: where it stands (fetch, body, pause),
its attempt, and when its timer or pause is due; `answer` what its promise
settled with, until the caller goes on; `signal` the caller's AbortSignal.
`stray` are writes the client has given up on that may still arrive, and
`accepted` those the API has taken. `tool` is the call above: which it is,
where it stands, its deadline and delay. `came` is when the outcome a wait is
for came about.

Actions. `Start`, `Posted`, `Throws`, `Looked`, `Polled`, `DelayEnds` and
`DelayAborted` are the code between two awaits. `Serve`, `HeadersArrive`,
`BodyArrives`, `ConnectionFails` and `StrayArrives` are the network, which
may be silent as long as it likes, break at either half of an answer, and
answer with an error to what the API did. `TimerFires`, `PauseEnds` and
`Abort` end an attempt, a backoff, or cancel. `Tick` moves a clock, which
waits for timers that are due and code that is ready: the event loop.

### DashboardSession

State. `owner`, `live`, `verified` are the API's sessions and accounts;
`cookie` and `flag` the two cookies; `path` and `bounced` the page and its
`gate=1`; `read` what the sign-in page saw of the flag when it last rendered;
`me` the account query; `deliberate` the provider's ref; `leaving`, `login`
and `req` a sign-out, a sign-in and a page's own request under way; `rows`
whose data the pages have cached; `strays` the requests whose answers the
cache has dropped, which nobody aborts. `setup` is whether the gate is on, and
whether the flag cookie reaches this address. `hops` and `abrupt` are history,
read by the properties only.

Actions. `Load`, `Follow`, `Back`, `Refetch`, `SignOut`, `Submit`, `PageAsks`
and `VerifyCode` are the visitor's; `AnswerMe`, `TakeSignOut`, `TakeLogin`,
`TakeReq` and `EndSession` the API's; `MeArrives`, `SignOutReturns`,
`LoginReturns`, `ReqArrives` and the failures the answers; `SendToSignIn`,
`SendOn` and `LeaveVerify` the effects. A request carries the cookies of the
moment it leaves, and the API decides by them what the answer does to the
cookies of the moment it arrives (`Truthful`, `TakeCookies`): clear both, put
the flag back, issue both anew for the session the request carried, or
nothing. Whether the expiry of a session is due to be moved is left open, so
any request of a good session may be answered with new cookies. Invalidating
`/me`, and a sign-out's `removeQueries`, drop requests (`Drop`): their data
is lost to the page, their cookies are not to the browser (`TakeStray`,
`StrayEnds`). An answer's cookies are taken from its head, so a request that
fails may have changed them too.

### The pages

Each page's state is the part of the cache it reads (`QueryClient`), the
requests it has made (`Mutations`), its `useState`s, and the rows of the API
it talks about. A query asks, is answered and shows in three steps; a
mutation leaves, is taken and returns in three. What a callback of `mutate`
does is part of the step in which the answer arrives, and happens only while
the component is there and the call is its latest, as the library has it; what
a callback of `useMutation` does, happens always. `Dashboard` opens one of the
pages; they write no common entry of the cache except by asking the API again.

## Runs

| run | shows |
|---|---|
| `lifecycle_overlap` | under `Spec`: a message that left the outbox never returns to it; a message the server failed because its phone was gone was never handed over; a late truthful report is taken whole: error codes fit the status, and `sent_count` covers what is shown as sent |
| `lifecycle_serial` | under `SerialSpec`, with two dispatch jobs of one batch: counters match the messages; what the owner is told (completion, the last event, "not dispatched") is so; the record implements `MessageStates`; every message settles and every batch closes |
| `lifecycle_sweep_clobbers` | violation: a delivered message becomes `unknown`, overwritten by a sweep whose statement began before the report |
| `phone_outbox` | under `BusySpec`: no text goes out whole twice, a message is finished once and truly, ended messages are reported, the queue empties |
| `phone_fails_early` | violation: two parts fail for a passing reason and the message is failed on its first attempt |
| `webhook_delivery` | the webhooks implement `EventDelivery`; deliveries give up after the tries their answers allow; an endpoint is called no more often than the log and the failed jobs account for; the counters never run ahead of the deliveries and fall behind only by failed jobs; every delivery in the queue settles unless its job is discarded |
| `pairing` | however pairings overlap with each other, with unpairing and with the choice of a default: a code pairs once; one token acts for a device, and one that has stopped never acts again; one phone is the default; a pairing that overlaps no other of its handset leaves that handset acting for it alone, one that overlaps no other of its account keeps to the limit |
| `sdk_mcp` | a write reaches the API once, however its attempts are lost or answered, unless its caller asked for repeats; a wait that ends with "pending" looked again when its time was up, and nothing had come when it looked; every call ends within its post, its wait and one read; once cancelled, no attempt leaves |
| `mcp_accepted_but_failed` | violation: `send_sms` reports a send the API has confirmed as an error, when the first look at its outcome fails |
| `web_session` | after anything the visitor does, and after each answer that changes the account shown or the cookies, at most one redirect follows; a visitor bounced by mistake is sent on, one whose session was lost is sent to sign-in; after a sign-out no rows of another account are cached, unless a late answer clears or replaces the session's cookie while rows are there; only a sign-out, an answer about the account, or a session that is over takes the account off the screen |
| `web_left_in_app` | violation: a visitor who signs out and goes Back is left on an empty frame |
| `web_pages` | a draft opened after another was dismissed, and settings being edited, are kept; a new key or signing secret is shown by what asked for it until the reader closes that; an answer closes only its own dialog; a finished send, a used code and a plan paid for come to be shown |

Two properties of the phone leave out the messages in `late`: those claimed
again while an answer to an earlier handing is still out. The cool-off of a
minute makes that rare; that only texts of several parts can be in `late` is
part of `SentOnce`.

### Bounds

The lifecycle runs have one batch of two messages from one phone: enough for
a batch to be partial, for a report on one message to meet a sweep or a job
on the other, and for two fetches to differ. With `WaveSize = 2` they share a
wave (so a job fails two rows), with `WaveSize = 1` there are two jobs.
`PerMessage = 1`, `StaleAfter = 0` and `PushTTL = 1` give every order of
due, expected, stale and expired with three ages. `SweepLimit = 1` makes a
sweep leave rows for the next one. `FetchLimit = 2` lets a fetch take all or
some. `MaxAttempts` is 2 where crashes are the subject (a job dies, is run
again) and 1 otherwise. `MaxSentCount` bounds reports of "sent" that count,
`MaxDelay` how far ahead a send is scheduled; both are bounds of the model,
not of the code.

The phone runs have one text of two parts, the smallest for which parts can
disagree; a retry budget of two, so that a first failure is retried and a
second is final; one death of service or process. `MaxHandings` equals the
budget and stops a claim beyond it, where the message would stay queued and
violate `QueueEmpties`. Deadlock is not checked in the phone runs: a phone
whose outbox is empty has nothing to do, and the deaths are bounded.

The webhook runs have one webhook and two events, so that a row written in a
transaction and one written outside meet, and one delivery may succeed where
the other fails. `MaxTries = 3` and `MaxRefusals = 2` keep the two ladders
apart (the code has nine and three); `JobAttempts = 2` lets a job be run again
and be discarded; `MinFailures = 2` needs both deliveries to fail.
`MaxErrors`, the number of failing runs, is a bound of the model. Deadlock is
not checked: when the events are delivered and the webhook deleted, nothing
is left to do.

The pairing run has two accounts and two handsets, so that a handset moves
between accounts while another keeps its place; three requests, the fewest
with which a pairing overlaps one that ends and another that begins; three
codes, two of one account, so that codes are brought twice and accounts paired
twice. Limits are 1 and 2, below and at the phones there are. `MaxUnderWay`,
how many transactions and changes run at once, is a bound of the model.
Requests are symmetric, which is sound because all properties are of states
and steps. Deadlock is not checked: codes run out.

The MCP run counts time in steps: an attempt may take two, a pause one or two,
a wait three with polls two apart, so that a wait ends between two polls, an
attempt or a pause outlasts it, and a cut-short delay is shorter than the
others. Two repeats let one be followed by another. `Horizon` stops the clock
later than `EndsInTime` lets any call live, so it hides nothing. Deadlock is
not checked: a call that has returned is done.

The session run has two accounts and two sessions: one the browser may hold
from before, which may be over, and one made here, so that one account follows
another. Links, sign-outs and refetches are not bounded. All at once is too
much for one run, so it looks at four `Scenes`, each a setup of the flag with
bounds of its own:

- the gate on, with the flag in reach and out of it: one verified account and
  one not, one reload or one Back, one dropped request under way, and no
  requests of the pages. Their answers change the cookies, and take the account
  off the screen, no otherwise than those of `/me` and of dropped requests do.
- the gate off, and pages that ask for rows. A reload empties the cache, so
  there is none.
- the gate on, and a page that changes the password: the session from before
  is enough for an answer of 401 that is about something else.

The last two have no dropped requests: one beyond `strays` is taken to be lost,
which any request may be. The theorems hold of every scene, so of all this
together. The violation run has the three setups, one account and no sign-in.

The pages run has drafts, codes, keys and endpoints two of a kind, so that a
late answer meets its successor, and two presses on the pages of keys and
webhooks, so that two requests are under way. One field with two values is
enough for a field that is edited while its row changes. Sends, changes made
elsewhere and the presses of the billing page are one each: with two the run
takes longer than five minutes, and what one press leaves to chance (payment,
failure, dismissal, another dialog opened meanwhile) is in it. The bounds are
the model's, none is in the code. Deadlock is not checked: presses run out.

### Fairness

Lifecycle: time passes, and the sweep keeps running and is not rolled back
every time (River runs it every five minutes and on start, `app/app.go`);
nothing is assumed of phones, pushes or, under `Spec`, of dispatch jobs.
`SerialSpec` also assumes that a job that can take a step takes it.

Phone: check-ins come round while messages are pending (`HeartbeatScheduler`),
a start that was asked for happens, the loop runs, and its deadline does not
strike every time before it got anywhere (its budget is eight minutes, a wait
for segments one). Strong fairness is for steps that a start or a deadline
may disable again. Nothing is assumed of the radio or of a broadcast's
coroutine.

Webhooks: a job in the queue is run and a running job takes its steps
(`app/app.go` gives the queue twenty workers, `Timeout` ends a hanging
call). Nothing is assumed of the endpoint, the owner, the sweep or an
emission.

SDK and MCP: timers go off, code that is ready runs, and time passes. Nothing
is assumed of the network; `EndsInTime` is a bound and needs no fairness, but
states that a call cannot outlive it.

Dashboard session: effects run, the API answers and answers arrive, or the
request fails; nothing is assumed of the visitor.

Pages: the timers of polling go off and a request is answered or fails; of
requests repeated for ever, some are answered (strong fairness, since each may
fail any number of times). Nothing is assumed of the reader or of the phone
and the provider.

Pairing: none. Every request answers or fails by itself, and nothing is
promised that waits for one.

## Proofs

`MessageLifecycleProofs`, for any messages, batches, phones and settings that
the assumptions of the module allow:

- `TypeCorrect`: `Spec => []TypeOK`. Counters stay natural numbers because
  `Moved` clamps at zero.
- `FailedUnsentHolds`: `Spec => []FailedUnsent`. Not inductive alone; the
  invariant `HandedInv` adds that a message that was handed has left
  "queued" for good, and that a sweep's snapshot does not change that.
- `NeverOfferedAgainHolds`: from the type invariant, one step per action.
- `CountersMatchHolds`: `SerialSpec => []CountersMatch`. `JobsInv` adds that a
  sweep's snapshot still shows the present statuses (`SnapshotFresh`), that a
  job's rows are in its wave (`RowsOfWave`), and that rows a job has failed
  and not yet counted stay failed (`RecordedStay`). The arithmetic is in
  lemmas about cardinalities of disjoint sets and about `Shifted`.
- `FollowsLifecycleHolds`: `SerialSpec => FollowsLifecycle`, the refinement of
  `MessageStates`, from the same invariant.
- `LateTruthTakenHolds`: `Spec => []LateTruthTaken`. Its two halves, `CodesFit` and
  `SentCovered`, are inductive beside `HandedInv`: what a sweep writes from a
  snapshot is "unknown" without a code, and takes rows away from "sent" only.
- `OutcomesAreToldHolds`: `SerialSpec => []OutcomesAreTold`. `BatchesFit` says that a
  batch is as its counters make it (`AsCounted`) unless a job that has counted has
  yet to recompute it; `OutcomesAnnounced` and `SaidUnsent` say what the last event
  and the code "not_dispatched" mean. That a batch with nothing left to count is one
  whose recipients all have an outcome is arithmetic: by `CountersMatch` the counters
  of outcomes add up to the number of settled recipients.

`WebhooksProofs`, for any events, webhooks and lengths of the ladder. The
invariant `Inv` adds two things to the properties: `FanoutFits`, an emission
on its way has neither rows nor jobs for the webhooks it has yet to come to;
and `JobFits`, a job past its first check works on a delivery that is owed
and has tries left, and holds "ok" only if the endpoint said so. With it:

- `TypeCorrect`, `GivesUpInTimeHolds`, `CallsAreLoggedHolds`: each follows from
  `Inv`. Attempts never leave the ladder because a job that records one works
  on a delivery that is owed, and one that is owed has tries left.
- `DeliversEventsHolds`: `Spec => DeliversEvents`, the refinement of
  `EventDelivery`. New rows are new debts because of `FanoutFits`, and an
  attempt on record ends a debt or leaves it because of `JobFits`.
- `CountersMatchLogHolds`: from `CountersAgree`: a webhook's delivered deliveries are
  finitely many, its success counter with the successes about to be counted never
  exceeds them, and falls short only where a job failed. Deliveries become delivered
  one at a time, so this needs no finite set of events or webhooks.

`PairingProofs`, for any accounts, handsets, codes, limits and number of
requests. All six properties of the run are proved, from two invariants:

- `Inv` is about locks. `CodesLocked`: a code that paired is used, one that is
  about to is not, and one request holds it. `RowsLocked`: one request holds an
  upserted row. `DefaultLocked`: while a request's phone is about to become the
  default, no other phone of the account is or will be. `TokensOfPaired` and
  `OneTokenLeft` are about tokens. From it follow `TypeCorrect`,
  `CodePairsOnceHolds`, `OneDefaultHolds` and `OneTokenActsHolds`.
- `SeenInv` is about stale reads. A pairing that revoked the handset's other
  tokens, or counted the account's phones, has seen them all unless it met a
  request that has paired since (`AllRevoked`, `AllCounted`); and two requests
  that run have met (`Overlaps`). From it follow `MovesThePhoneHolds` and
  `WithinLimitHolds`.

Each is kept by three kinds of step: a request that only reads and locks
(`RequestStep` says once what such a step may change), a commit, and the
owner's changes.

`McpServerProofs`, for every timeout, number of retries, pauses, wait and interval.
Each step of the network, the timers and the signal is first reduced to one of seven
kinds (`HttpDoes`): an attempt is taken, a stray write arrives, the headers arrive, an
answer comes whole, an attempt fails, the next one is made, the caller cancels. The
steps of the tool are reduced likewise (`StartDoes`, `PostedDoes`, `PolledDoes`,
`OthersDo`). The five theorems rest on these lemmas:

- `TypeCorrect`: `Spec => []TypeOK`. Records are updated one field at a time
  (`CallUpdate`, `ToolUpdate`).
- `WriteOnceHolds`: `WriteOnce` is not inductive, because an attempt that is out, or
  was given up, may still be taken. `OneTry` counts those too: for a write without
  retries, taken plus stray plus owed is at most one, and such a write never pauses.
- `PendingIsTrueHolds`: from `FreshLook`. An answer that holds nothing was given after
  it was asked for, so what is awaited came later, or the list had no room for it.
- `CancelIsFinalHolds`: from the types alone. Every way out of an attempt or a pause
  checks the signal before the next attempt leaves.
- `EndsInTimeHolds`: from `InTime`. The timer of the attempt under way, and a pause and
  a timer for each repeat left, fit before the end of the request; a delay ends by the
  deadline of its tool; and the clock stands while an answer waits for the code. It
  uses `PausesAssumption`, that there is a longest pause: `sdk/src/http.ts:31` caps a
  backoff at eight seconds and its jitter, `:40` a Retry-After at thirty seconds.

`PhoneOutboxProofs`, for any texts of any number of parts, any retry budget and any
number of deaths. The theorems are of `Spec`, which the `BusySpec` of the run implies.
The invariant `Inv` has five parts beside the types:

- `VerdictInv`: of a message, the verdicts told and the ones somebody still owes are
  one at most, and none while it is open; a guess and a failure exclude each other.
- `Kept`: a message that ended has what an ended message is owed: its report, somebody
  who is about to write it, or a process that died in between.
- `AirInv`: a part of a handing has one answering word; of a word that failed the part
  is not on the air, of one that went well it is.
- `Prompt`, for the messages not in `late`: answers are of the present handing, the
  earlier handings are spoilt (a part of each failed), a message that may be handed
  again is one none of whose handings can go out whole, and `part_ok` counts no more
  than the parts that were heard of.
- `SinglePart`: a text of one part is never in `late`. That is what makes `Prompt`
  a statement about every single-part text, and not about fortunate ones.

From these follow `TypeCorrect`, `NothingIsForgotten`, `TheVerdictIsTrue` and
`NothingIsSentTwice`. The properties alone are not inductive: that a text is not
handed again after it went out follows only from what its words still say and what the
loop has claimed. The steps are sorted by what they touch: those that change only a
word, those that give a word to the air, those that leave a message as it was
(`Still`), and the eight that matter for it.

`DashboardSessionProofs`, for any accounts, any number of sessions, visits and dropped
requests, and the three setups of the flag cookie. `Inv` is the types with three
invariants:

- `AnswersInv`: a request is refused only for a session that is over, and is served rows
  only if it carried one. From it follows `OnlyLossSignsOut`.
- `RowsInv`: unless a session was lost or replaced, the rows cached are of the session
  whose cookie is there, and the rows awaited are asked with it. From it follows
  `RowsOfOneAccount`. Why a late answer with new cookies is excused: it makes the old
  session this browser's again, under the rows of the one after it.
- `RedirectInv`: no page a redirect leads to redirects again. The sign-in page the gate
  bounces to has read that there is no flag, and reads it anew only when it renders;
  nothing but an answer changes the flag, and an answer that does is counted from. So
  at most one redirect follows what the visitor does, and at most one each such answer,
  which is `OneRedirectAtMost`. It is not one in all: an answer that puts the flag back
  sends the bounced visitor on, and one that takes it away lets the gate bounce them
  again.

`DashboardProofs`, for any fields, values and plans, and any number of drafts, sends,
codes, keys, endpoints and presses. Two sets are described first for all pages:
`Entries`, the states of an entry of the cache, closed under every operation of
`QueryClient`; and `Jobs`, the states of a page's mutations, in which every request has
a number of its own, closed under those of `Mutations`. `HeardUnless` says that the
page listens to the requests of a kind except those it gave up. Each page then has an
invariant and one lemma per kind of step:

- `SendInv`: a dismissed draft is neither shown nor listened to.
- `DeviceInv`: the form on the screen has seen the row in the cache (`FormFits`).
- `KeyInv`, `HookInv`: a request for a key, an endpoint or a secret that was not given
  up is listened to, and the dialog that made it is open and still empty.
- `BillInv`: while a change is made no dialog is open but its own, and every change on
  its way is listened to. That is what `MayAsk` is for.
- `PairInv`: no more phones than codes that were used.

A step of the open page leaves the others as they are (`StepOfEach`), so the six
invariants are one. From it follow `TypeCorrect`, `TypedIsKeptHolds`,
`SecretKeptHolds` and `OwnDialogClosesHolds`; they are stated of `FairSpec`, the
specification of the run, and use its initial states and steps only. `MaxKeys` and
`MaxHooks` are assumed to be at least one, because an account may begin with a key and
an endpoint.

All invariants were checked by TLC on the instances of the runs before they were
proved.
Only model-checked: liveness (`EverythingSettles`, `QueueEmpties`,
`EveryDeliverySettles`, `SentWhereTheyBelong`, `WatchedIsSeen`), which the prover does
not do. Every invariant and every action property of a passing run is proved, and so
are the two refinements.

## Known divergences

Four are shown by a run, with the line they contradict in `PROJECT.json`:
`lifecycle_sweep_clobbers`, `phone_fails_early`, `mcp_accepted_but_failed`,
`web_left_in_app`. The others are behaviours of the code the models contain
and the properties leave room for:

- A dispatch job that dies between failing rows and counting them leaves the
  counters behind; run again it finds nothing queued (`gateway/send.go:359`).
- A retry on the phone repeats a part that is on the air (`Outbox.kt:135`),
  and a claim left by a process that died is skipped as too young and not
  looked at again until something starts the loop (`OutboxDrainer.kt:81`).
- A webhook disabled and enabled between the sweep's reading and its pausing
  is paused for failures from before (`webhooks/webhooks.go:636`).
- Two pairings of one handset on two accounts that overlap leave both tokens
  acting (`store/devices.go:168`).
- A wait of the MCP server can outlast `wait_seconds` by its post and its last
  read; `wait_for_incoming_sms` looks at one page of texts, so a match behind
  a hundred others is "not arrived" (`server.ts:196-203`). A body cut off by a
  cancellation is reported as an invalid response, not as the signal's reason.
  A
  write is repeated when its call is given `maxRetries`, though `client.ts:18`
  says writes never are.
- A sign-out whose POST fails leaves the cookies: the next load is signed in
  again (`session-provider.tsx:61`). A session that is lost, rather than left,
  keeps the rows the pages have cached (`providers.tsx:15-17`), and they are
  there when another account signs in in the same tab. An answer "nobody" or
  401 that belongs to an old session takes the new one off the screen until
  the account is asked for again.
- The cookies of an answer are those of the session its request carried. One
  that comes after a sign-out may put the ended session's cookie back, or take
  the place of the session signed in to since; one that clears them clears the
  new session's too (`httpapi/api.go:211-221`). Nothing tells the sign-in page
  of a flag that comes back: it is read when the page next renders
  (`signed-in-redirect.tsx:8-11`).
- Saving a phone's settings sends the untouched fields as last seen; after an
  own save the page may say the phone was changed elsewhere. A page whose
  background refresh of the account fails is unmounted.
- Edits made while a send is under way are cleared by its success. A send's
  page stops refreshing its recipients when the send is final.
- After a payment the plan shown can be the old one, with its buy button: the
  first answer still under way is not replaced (`billing/page.tsx:72-76`).
  The period chosen may be overridden by the first answer (`:218`).
- A secret is lost when its dialog is closed, or the tab left, while the
  request is under way; two rotations may be answered in the other order.

## Plan

1. Done: the server's lifecycle, webhooks and pairing, the phone's outbox, the SDK with
   the MCP server, the dashboard; for each of them the proofs of the invariants and
   action properties its runs check, and the refinements of `MessageStates` and
   `EventDelivery`.
2. An abstract specification of what the phone promises of one text (handed, gone out,
   told), and the refinement by `PhoneOutbox` for messages not in `late`, from the
   invariants that are there.
3. Quota reservation (`store/billing.go`), the one hazard whose code has no module.

## Not modelled

On the server: message text, segmentation and encoding; HTTP routing, CSRF and
rate limits; encryption; mail and push delivery beyond accepted or rejected;
presence and inbound texts; billing and quota; one-time codes, API keys and
when a session's expiry slides; row locks inside a database transaction outside
`Pairing`, and how the database finds deadlocks; a phone's name and its
settings. On the phone: fetching and reporting beyond their effect on the
outbox, the segment window, the screens and self-update.

Of the dashboard: the overview page, resetting a password, Google sign-in, the
profile and the list of sessions, the Turnstile widget, theming, formatting
(`lib/format.ts`) and everything that is only rendered. When a session's
expiry is due to be moved: any answer may move it. Two tabs: each has
a cache of its own, and what one does to the other goes through the API and
the cookies, as ending a session elsewhere does.

Of the SDK and the MCP server: `get_account` (two reads side by side),
`count_sms_segments`, the iterators over lists, the types, the check of a
webhook's signature. The site, the scripts (`scripts/brand.mjs` draws images),
the generated contract and configuration files have no behaviour of the system
in them.
