# Formal models of the Glamea backend

TLA+ modules, TLC configurations and TLAPS proofs about the Go backend of
Glamea, a marketplace where customers book beauty professionals. The reference
is the code: every definition names, in `PROJECT.json` under `map`, the lines
it stands for. Paths below are relative to `src/`.

## 1. The system

One Go process (or several of them) serves HTTP and websockets (`cmd/api`),
runs a scheduler (`internal/jobs`) and keeps everything in a MySQL-protocol
database (`.env.example:13`: MySQL or TiDB; `docker-compose.yml:5` runs TiDB)
plus Redis. Handlers share nothing in memory but the websocket hub, the rate
limiter and the push client's token; they interact through rows, Redis keys and
the hooks that `cmd/api/main.go` wires. A handler sends one statement after
another, mostly without a transaction, each under the request's context: it may
stop after any of them, because a statement fails, the client goes away, or the
process dies. That is where most of the difficulty lies.

| component | state | operations | what makes it correct |
|---|---|---|---|
| bookings (`internal/bookings`) | `bookings`, `booking_status_history`, `professionals.booking_count`; Redis `booking:slot:*` | create, reschedule, confirm, start, complete, cancel, expire | no double booking (section 6: TiDB); a confirmed booking has its deposit paid; statuses follow the lifecycle; a retried create books once |
| wallet ledger (`internal/payments/store.go`) | `wallets`, `wallet_transactions` | credit, debit, list | balance and entries change together, never below 0; a reference counts once |
| payments (`internal/payments`) | `payment_intents`, `payment_events` | create, poll, webhook, confirm | nothing is credited that no gateway reported; a success is charged; what is paid is settled |
| settlement (`payments/service.go:469`) | ledger entries `earn_`, `fee_` | settle, called by the OnCompleted hook | fee and earning are the price; once per booking |
| payouts (`internal/payouts`) | `payouts`, `payout_accounts` | request, pay, list, manage accounts | a payout is debited; held earnings stay |
| messaging hub (`messaging/hub.go`) | connections per user under one mutex, a queue of 64 frames each | register, unregister, send, relay calls | nobody blocks the hub; devices of a user see the same order; dead connections leave |
| conversations (`internal/messaging`) | `conversations`, `messages` | get or create, send, mark read | the preview keeps up with the messages |
| sessions and codes (`internal/auth`, `internal/users`) | `users`, `auth_sessions`; Redis codes | sign up, log in, refresh, log out, mail and check a code, change profile | a session is ended once and has one successor; one account per address |
| reviews, verification, disputes | rows, and aggregates cached on `professionals` | review, respond, judge documents, raise, post, resolve | one review per booking; aggregates agree with the rows; what was accepted stays |
| jobs (`internal/jobs`) | `booking_reminders`, `push_caps` | expire, remind, nudge | at most one reminder, one nudge per cooldown (section 6: two ticks) |
| notifications, push client (`internal/notifications`, `pkg/fcm`) | rows, device tokens; a cached access token under a mutex | notify, register a device, send | one token exchange at a time, waiters end |
| posts, portfolio, deals, services, categories, profiles | rows, images, variants, likes | create, update, switch, delete, list | no accepted change is undone by a stale write; pages are whole |
| discovery (`internal/discovery`) | none | home, search, category page | shows what is there |
| availability (`internal/availability`, `bookings/service.go:476-616`) | weekly windows, dated exceptions | set windows, add exceptions, offer slots | an offered slot is accepted |
| admin, analytics, reports, platform, media, rate limiting, migrations, configuration, e-mail, seeds | rows, files, a version table | reads, exports, single statements | (not modelled, see section 8) |
| mobile app (`frontend/`) | | | another program: the environment |

Who calls whom: customers and professionals call bookings, payments, payouts,
messaging and the storefront; gateways call the webhook; the scheduler calls
bookings and notifications; completion of a booking calls notifications and
then settlement; payments, settlement and payouts all book in the ledger, on one
wallet per user; bookings ask payments whether a deposit has succeeded;
notifications go through the push client; a professional's pages show the rating
and the verification status that reviews and documents left on the profile.

The behaviours that are hard: read-then-write handlers that race; locks with a
TTL; a database snapshot older than the lock one waited for; webhooks late,
twice or never against polls; crashes between receipt and charge, between two
credits, between debit and payout row; checks outside the transaction they are
for; aggregates read in one statement and stored in the next; rows written back
whole after a read; a mutex held over a loop that may call for it again; one
token exchange that many wait for. `PROJECT.json` lists each with its line under
`hazards`, with the properties that would catch it, or why none does.

## 2. Modules

| module | models |
|---|---|
| `Bookings` | one professional's calendar, statement by statement, with the expiry job |
| `Calendar` | what a calendar promises: a look, and later one step that books a time which was free with its margins at the look |
| `Ledger` | what the wallets promise: a credit or debit is one step |
| `LedgerTx` | `applyLedger`, the transaction that keeps the promise, statement by statement |
| `Purchase` | what a payment promises: received once and not before it was reported, charged once, then closed |
| `Payments` | intents from creation to confirmation, for the four gateways, on top of `Ledger` |
| `Income` | what settlement and payouts promise: a price is divided once, a payout recorded once |
| `Earnings` | settlement of completed bookings and payouts, on top of `Ledger` |
| `Messaging` | the chat of one booking: what `Send` stores, the hub with its mutex, queues and pumps, relayed calls |
| `Rotation` | what refresh-token sessions promise |
| `Sessions` | accounts, sessions and e-mailed codes, statement by statement |
| `Reputation` | reviews with the rating, documents with the verification status, disputes |
| `Outreach` | reminders and capped nudges of several ticks, the devices, the push client's token |
| `Handlers` | what the requests of `Reputation` and `Storefront` share: progress, and who had ended when another began |
| `Sums` | what `SUM(...)` over a finite set is, for the statements about money |
| `Storefront` | posts, deals, services, portfolio items, profiles, categories, feeds, discovery pages, working hours and slots |
| `MC...` | instances for TLC, one for each module that a run checks; `MCContent` runs `Reputation` and `Storefront`, which share no rows, one or the other in a behaviour |
| `...Proofs` | theorems about `Bookings`, `LedgerTx`, `Payments`, `Earnings`, `Messaging`, `Sessions`, `Reputation`, `Outreach`; those about `Storefront` follow in `ReputationProofs` |

Conventions. Each statement sent to the database or to Redis is one action. A
process (request, handler, transaction, tick, worker) has its next statement in
`pc` (`at` for a push worker) and the local variables that survive a statement
in `req`, `working`, `asked`, `seen`, `work`, `held`, `job` or `task`. Reads that come
before a request's first write are taken together when the first of them begins
the request; what they saw may be out of date when the write comes. A refusal
that follows from a read and changes nothing is no step. `Abandon` (`Rollback`
in `LedgerTx`, `EndJob` in `Outreach`, `SendFails` in `Messaging`, `BreakOff` in
`Storefront`) is a crash, a
cancelled context or a failed statement, possible before every statement; a
transaction rolls back, a Redis key stays. Definitions called variants are
slips a programmer might make; each property has one that breaks it. Variables
called history are not in the code; no guard reads them.

Five refinements. `Bookings` implements `Calendar` (property
`ImplementsCalendar`, theorem `CreatesKeepTheCalendar`), on either database's
read point: a request looks when its transaction takes the snapshot, and its
INSERT is the booking, next to which it may have missed what others inserted
since (`missed`, `crossed`). A booking is held while it is active where Create
put it; one that Reschedule moved or Confirm brought back is let go and not held
again (`displaced`), since the code checks nothing in the transaction there.
`LedgerTx` implements `Ledger` (property `ImplementsLedger`, theorem
`TransactionIsAtomic`), with the balance of a wallet without a row taken as 0, as `GetWallet` does. This is what entitles
`Payments` and `Earnings` to take `Credit` and `Debit` as single steps.
`Payments` implements `Purchase` (property `ImplementsPurchase`, theorem
`PaymentsArePurchases`): received and charged are the entries in the ledger, so
that however many confirmations work on an intent, one payment is made. What
counts as reported is what SeerBit's answers are taken for, and that a slower
confirmation reports a failure after a success (section 6) is part of the
promise, as it is of the code. `Earnings` implements `Income` (property
`ImplementsIncome`, theorem `EarningsAreIncome`) in the same way: a price is divided by two steps,
of which the second may be missing, and a payout row is written at most once,
for what was taken.
`Sessions` implements `Rotation` (property `ImplementsRotation`, theorem
`SessionsRotate`): a session is unused, live, handing over or ended, according
to its row and to whether the request that revoked it is about to issue its
successor.

### Bookings

`status`, `span` and `terms` are a row of `bookings`; `terms` is what `Create`
fixes (home service, whether a deposit is due, idempotency key). `rowLock` is
the `FOR UPDATE` lock on the professionals row, `slotLocks` the Redis keys.
`CreateRequest`, `ClaimSlot`, `BeginTx`, `LockProfessional`, `CheckOverlap`,
`InsertBooking` (or `InsertFails`) and `ReleaseSlot` are `Service.Create` in
its order; `RescheduleRequest`, `ClaimSlot`, `MoveBooking`, `AddStatusEvent`,
`ReleaseSlot` are `Service.Reschedule`; `ReadBooking`, then `UpdateStatus` and
`AddStatusEvent` or `CompleteStatus`, are the others. `SlotLockExpires` is the
TTL, at any time.

`SnapshotAtBegin` says what a plain SELECT in a transaction sees: TiDB, the
database of `docker-compose.yml:5`, takes the snapshot at START TRANSACTION,
InnoDB (`.env.example:13` names MySQL as well) at the first such SELECT. The
runs are on TiDB; the theorems hold for both.

History variables say what the code does not prevent, so that the properties can
say exactly how far its promise goes: `displaced`, bookings that `Reschedule`
moved or `Confirm` brought back, where nothing is checked in the transaction;
`missed` and `crossed`, what was inserted between the look of a Create and its
INSERT; `unkeyed` and `unguarded`, Creates that lost their slot key (expired, or
deleted by another's release) and what they inserted; `reopened`, completions
that Confirm took back.

`depositPaid` only grows here. A SUCCEEDED deposit can become FAILED (section
6), so `DepositGate` is about intents as long as they stay SUCCEEDED.

### Payments

An intent is the pair of a booking and an amount type, which the unique index
makes its name. `checkout` is the gateway's side: opened by initialisation,
then paid or not. What SeerBit says when it is asked is apart from that:
`Answers` are the two codes, each of which may be missing, and whether the
message has one of the six words that the code looks for; `VerifyStatus` is what
the code makes of an answer. The only thing assumed of SeerBit is that it says
"00" in both codes of nothing that it does not have (`MayAnswer`). `oneCode` and
`worded` are history: what was answered "00" in one code only, and what came
with a word of failure. `CreateIntent` leads through
`InitializeSeerbit` or `InitializePaystack` to `StoreIntent`, so that a checkout
may be open for an intent that was never stored. `PollIntent` is the customer's
GET, which reconciles a pending SeerBit intent; `Webhook` is the webhook, which
records its event, looks the intent up (`LookUp`) and confirms. Both then go
through the steps of `confirmPayment`: `CheckReceipt`, `CreditReceipt`,
`CheckCharge`, `DebitCharge`, `MarkIntentSucceeded`, or `MarkIntentFailed` when
an answer had a word of failure or the debit is refused. The signature of a Paystack webhook is abstracted to: it
comes only for a payment that was made; a SeerBit webhook may say anything.

### Earnings

`Complete` is the transaction that sets COMPLETED, of which one request wins;
`Notified`, `CreditEarning`, `CreditFee` are the hook and `SettleBooking`.
`ConfirmAgain` takes a COMPLETED booking back to CONFIRMED, as the code allows,
so that it is completed and settled again. `RequestPayout` and `CheckAvailable`
are the two reads of `AvailableBalance`, `DebitPayout` and `CreatePayout` the
two writes of a payout, `MarkPaid` the administrator. `matured` says which
earnings are older than the holding period, which may end between any two
steps. `EarningsSummary` is what a professional is shown. `stale` and
`overtaken` are history: the requests between their read and their debit whom
another one's debit overtook, and what such requests withdrew.

### Messaging

`InsertMessage`, `UpdatePreview`, `Reload` are the three statements of
`AddMessage`; `BroadcastMessage` is `SendToUser` for the sender and then for the
recipient. `LockHub`, one `Enqueue` for each connection of the user in any
order (the code ranges over a map), and `UnlockHub` are `SendToUser`. A full
queue leads to `"evict"`, from where no step leads on: the code calls
`unregister` there, which locks the mutex that its caller holds. `Connect`,
`Register`, `ReadFails`, `ReadSignal`, `ReadCallRequest`, `AskOnline` and
`Unregister` are `ServeWS` and the read pump, `WriteFrame` and `WriterStops` the
write pump. `Disconnect` is the peer, the network or a deadline, `Crash` the end
of the process; what it loses is the hub, never a row.

### Sessions and Rotation

An account is a row of `users`, behind the unique index on `email`; the handler
checks that the address is free in one statement and writes it in another
(`Register`, `SocialLogin`, `InsertUser`; `UpdateProfile`, `ReadUser`,
`WriteUser`). `Revoke` is the `UPDATE ... WHERE revoked_at IS NULL` that decides
which of several refreshes goes on to `IssueTokens`. A code is named after the
request that generated it: `StoreCode` is the SET, `FetchCode` the GET with
which `SetEmailDelivery` finds out what to mail, `FetchFails` a GET that Redis
does not answer. `used` is history: for a request between its SET and its GET,
whose account was verified by a code of the same address. `VerifyEmail`,
`FindAccount`, `MarkEmailVerified` and `SpendCode` are the order in which a code
is used: it is deleted last.

### Reputation

`rated` stands for `rating` and `review_count`: the bookings whose reviews they
were computed from. `ReadReviews` and `StoreRating`, `ReadDocuments` and
`SetVerificationStatus` are the two statements each of a recomputation.
`WriteResponse` and `Resolve` are updates with a condition, whose row count
tells the winner. `ended` and `before` are history: which requests had been
answered with success when another began. They are what "at the same time"
means in the properties.

### Outreach

A tick is one run of the job list in one instance; `StartJob` reads the list of
a job, which is any set that its query can return. `InsertReminder` is the
INSERT IGNORE that makes a reminder unique. `ReadCap` and `InsertClaim` are the
halves of the one statement `INSERT ... SELECT ... WHERE NOT EXISTS`;
nothing orders two of them: `push_caps` has no unique key, and a row that is not
there is not locked (TiDB has no gap locks). `overtaken` and `raced` are history:
ticks that found a cap free which another has claimed since, and the rows they
inserted. `Notify` puts the devices of the user into `outbox`; `BeginSend` to
`DisableDevice` are a goroutine that pushes to one of them, with `AccessToken`,
`Exchange`, `Release`, `CheckAgain` and `WaitTimesOut` for the token that all
share.

### Storefront

The requests are those of `Handlers`, which `Reputation` extends as well, and no
name of one module is defined in the other (`StorefrontSpec`, `BeginRead`,
`held`, `Together`): so one module of proofs can extend both. A row has the
columns `text` and `flag`, each known by the request whose value
it holds: a stale write is one that puts back an older request's. What is
written by a loop without a transaction, images of a post and variants of a
service, is written step by step (`ClearImages`, `AddPart`) and read apart from
its row (`MediaForPosts`, `ListVariants`). `AvailableSlots` and `SlotAvailable`
are the loop that offers slots and the check in `Create`, over the windows that
`SetWindows` left; `Exceptions` are kept and listed but take no effect, as in
the code (section 6).

## 3. Runs

| run | expected | shows |
|---|---|---|
| `bookings_calendar` | pass | creates, moves and cancellations race, crash and outlive their slot keys on TiDB: a create looks like a look and one later step on a time that was free with its margins (`Calendar`); bookings overlap only if their creates crossed, and then start apart while the slot keys were held; a key names one booking |
| `bookings_lifecycle` | pass | two requests race on one booking with a deposit: deposit gate, lifecycle, history and count, with completions that are taken back and made again; under fairness every request ends |
| `bookings_tidb` | violation | a finding of section 6: two creates on TiDB overlap |
| `ledger_tx` | pass | three transactions on two wallets implement `Ledger`, add up, and end |
| `payments_confirm` | pass | two handlers on an intent of every gateway, one wallet, any answers of SeerBit: nothing is credited before it was reported, charged twice or taken from another, and nothing fails without a word of failure or a charge; the confirmations together do what one payment does (`Purchase`) |
| `payments_poll` | pass | two handlers, polls alone charge and close a paid SeerBit intent, unless a message had a word of failure |
| `earnings_settled` | pass | two completions and two payout requests at once: fees and earnings add up, payouts are debited, held earnings stay but for what overtaken requests took; prices are divided and payouts recorded once (`Income`) |
| `messaging` | pass | two messages and a call to two devices that come, go, lag and lose the server: both devices see the same order, a broadcast reaches every device that is there, the preview keeps up, dead connections leave |
| `hub_blocked` | violation | the finding of section 6: a full queue makes the hub wait for itself |
| `sessions` | pass | three requests race on accounts, sessions and codes: addresses stay unique, sessions rotate, a code is missing from the mail only when one of the same address was used |
| `outreach` | pass | two ticks and two push workers: a reminder is sent once, a nudge again only by an overtaken tick, one exchange at a time, every waiter gets on |
| `content` | pass | four requests race on reviews, documents and disputes: aggregates lag only behind concurrent requests, what was accepted stays. Three requests on a row of every kind: changes are undone by concurrent updates only, pages are whole, offered slots are accepted |

Bounds, and why they are enough.

- `bookings_calendar`: two bookings and two requests, since the properties of
  the calendar relate two bookings and each race is between a writer and one
  other. Starts 1 and 3 with lengths 1 and 3, buffer 1 and travel 2 give
  bookings that touch, overlap by buffer only, by travel only, contain each
  other, and overlap with different slot keys. The operations are create,
  reschedule and cancel: the ones that take a time, give it to another one or
  give it up; what Confirm brings back is displaced like what is moved. A Create
  begins only while an id is left (`IdLeft`). `bookings_tidb` has creates of one
  length only. The theorems cover any number and every operation.
- `bookings_lifecycle`: one booking, since these properties are about one, and
  two requests that race on it. `MaxCount` bounds `booking_count`, as `Confirm`
  lets a booking be completed without end; at 2 a booking is completed, taken
  back and completed again, which counts twice.
- `ledger_tx`: three transactions, two on a wallet and a third that shares a
  reference with one of them, on another wallet; three is also the least for a
  circle of waits through a reference.
- `payments_confirm`: four intents, one of each gateway, of one customer: the
  wallet is shared by all, so the money of one can be taken for another.
  `payments_poll` has one SeerBit intent, the only kind that polls confirm, and
  two handlers, so that confirmations get in each other's way and break off.
- `earnings_settled`: a price of 25 at 10 percent rounds and a price of 4
  leaves no fee, so both refusals of a credit of 0 or a known reference happen.
  Two withdrawers, who can both be content with the same money; asking for 4 or
  22 each takes one earning.
- `messaging`: order needs two devices and two messages, a caller adds a frame
  that no row stands for. The buffer holds one frame, the least at which a
  queue is both filled and drained; a buffer of 64 would take 64 messages.
- `sessions`: two requests race, a third comes before or between (the code of a
  third request is the one two others read). Three sessions: a chain of a
  session, its successor and the one that must not exist.
- `content`: for reputation two bookings and two documents, for an aggregate to
  leave one out; four requests, two that judge or review and two that made what
  they are about. One dispute: no statement relates two. For the storefront one
  row of each kind and three requests (`StorefrontRequests`): one that is to be
  kept, one that reads before and writes after it, one that reads the page.
  `Parts` is 2, for a page to be half; a day of 12 with buffer 1, services of 1
  and 3 and a step of 2 has slots that fit with and without the buffer.
- `outreach`: two ticks for the races of a claim, two workers for an exchange
  and a waiter. One reminder kind, the one that tells one party, and one nudge
  that looks for something to say; the others differ in their lists, and the
  reminder of two parties is covered by the theorem.
- Symmetry is used where requests, handlers, bookings, payouts, accounts or
  sessions are interchangeable, never with a liveness property.
  Views (`CalendarView`, `LifecycleView`, `View` of `MCEarnings`) leave out the
  history rows and variables that no property of the run reads, which no guard
  reads anyway, and local variables that no later statement reads.
- `CHECK_DEADLOCK FALSE` stands where the system may stop because all bookings,
  intents, messages or requests that a run may make are done, and in
  `messaging` also because a blocked hub stops.

## 4. Fairness

Weak fairness of `Continue` says that a handler goes on to its next statement
or ends; Go schedules every goroutine. Strong fairness of the steps that wait
for a row lock says that the database queues its waiters. Nothing is assumed of
the TTL of a slot key: no request waits for one. In `Payments` the customer's app polls a pending
intent again and again (`payments/service.go:244-248`), and no statement about
an intent fails every time it is tried: strong fairness per statement, since
`Abandon` may interrupt any single try; and SeerBit, asked again and again about a
payment it has, says so in the end (`VerifyPaid`). In `Messaging` the goroutines that push
a message and the read pumps go on while they can; weak fairness is enough for
those that wait for the mutex, which `sync.Mutex` hands to every waiter, since
the tasks are finitely many. Write pumps owe nothing: a peer may read slowly. In
`Outreach` a worker goes on and an exchange ends (its request has a context of
10 seconds), but no worker counts on its own timeout. Nothing is assumed of
webhooks, customers, administrators, networks or crashes.

## 5. What is proved

For every value of the constants that the named assumptions allow (types of the
constants, positive amounts, names distinct from `None`):

- `BookingsProofs`: `TypeCorrect`, `OnlyOpenTransactionsOverlap`,
  `CreatesKeepTheCalendar`, `LaterKeepsMargins`, `KeysApart`,
  `DepositsGateConfirmation`, `LifecycleFollowed`, `RetriesBookOnce`,
  `CompletionsRecorded` (for finitely many bookings), all on either database's
  read point. The invariant that carries the overlap proof says that what a
  request found free at its look is free still (`InsertClear`), but for what
  others inserted since, which is in `missed`, and what was moved or brought
  back, which is in `displaced`. `CreatesDisjoint` alone is not inductive: of
  two bookings that overlap it says nothing of how far the second had come when
  the first was inserted. The deposit gate and the lifecycle need
  `ReadAccepted`: the check of the read still holds at the write. The refinement
  needs in addition that what a request inserts is what it asked for
  (`AskedFor`) and that only existing bookings are displaced (`DisplacedMade`):
  the INSERT then is `Book`, on a time that was clear at the look by
  `InsertClear`, and any other statement writes one row at most (`OneRow`) and
  takes it out of `held` or leaves it. `LaterKeepsMargins` is what `Calendar`
  gives in return: of two held bookings that did not cross one keeps its buffer
  and travel time from the other. That both do is false, as `checkBounds`
  extends only the booking that is asked for. `KeysApart` rests on `KInv`: a
  Create that did not lose its key has it set (`KeysHeld`), so two that are under
  way start apart (`KeysDiffer`), and so does what was inserted while one of them
  was open (`MissedApart`).
- `LedgerTxProofs`: `TypeCorrect`, `TransactionIsAtomic`,
  `WalletsNeverOverdrawn`, `ReferencesBookedOnce`, `BalancesAreSums`. The
  invariant: the row lock is held from FOR UPDATE to COMMIT (`RowOwned`), so the
  balance read is the balance (`ReadCurrent`), and of two uncommitted entries
  none shares a reference (`ReferenceFree`). A commit then is a step of `Ledger`
  and everything else a stutter. The sums are proved of `Ledger`'s steps: an
  entry that is applied was not there, so its total grows by its amount.
- `PaymentsProofs`: `TypeCorrect`, `CreditsAreReported`, `SuccessIsBooked`,
  `WalletsHoldUncharged`, `FailuresAreWorded`, `PaymentsArePurchases`. The
  invariant: a handler inside confirmPayment is about a payment that a gateway
  reported (`ConfirmsReported`), and finds its earlier statements done
  (`ConfirmsInOrder`). `WalletSums` adds that nobody is charged who did not pay.
  A wallet that holds a receipt then covers its charge (`ChargeRefused`), so a
  debit is refused only after another handler has taken the money
  (`FailJustified`): that FAILED means a word of failure or a charge rests on
  the sum of the wallet. The refinement needs that a confirmation has a stored
  intent (`StoredFirst`): a receipt then is `Receive`, as the payment was
  reported and the reference is new, a debit is `Charge`, an answer of SeerBit
  is a `Report`, and of MarkIntentFailed `FailJustified` says that it is a
  `Fail`.
- `EarningsProofs`: `TypeCorrect`, `FeesAreShares`, `PayoutsAreCovered`,
  `WalletIsEarnedLessTaken`, `HeldEarningsAreKept`, `OneRequestKeeps`,
  `EarningsAreIncome`. The invariant: whoever is about to credit a fee finds the
  earning in the ledger (`CreditsInOrder`), whoever is about to write a payout
  its debit (`DebitsInOrder`), and a fee entry is the one of its booking
  (`FeeEntries`). `Books` says that the wallet is what was earned less what was
  taken. `HeldEarningsAreKept` has no hypothesis about requests. `Held` is its
  invariant: with what overtaken requests took the wallet would cover the held
  earnings, and for every request that is not stale it exceeds them by what the
  request is about to debit; a debit makes every request that has read and not
  yet debited stale (`OvertakingDebits`), and none is taken back (`DebitsStay`).
  `OneRequestKeeps` says what is left for a professional who sends one request
  after the other: nothing is overtaken, and the summary adds up exactly. The
  refinement adds that a payout about to be recorded is on no record and is one
  request's (`OneRecords`), so that `CreatePayout` is `Record`, and reads what
  each entry of the ledger changes for the three marks it maps to
  (`EarningMarks`, `FeeMarks`, `WithdrawalMarks`).
- `MessagingProofs`: `TypeCorrect`, `DevicesAgree`, `BroadcastsReachAll`,
  `PreviewsKeepUp`. The invariant of the order: a process pushes its own frame
  (`TaskOwned`) and holds the mutex in its loop (`LoopHoldsMutex`); what is
  still to be pushed to a user is on none of the user's connections
  (`PendingIsUnpushed`); and while a frame is pushed it is the last one of every
  connection that has it (`PushedLast`). A frame that gets behind another on one
  connection can then not be before it on the next. That every live device is
  reached needs what a loop may forget: inside it the live connections of the
  user that the loop is done with have the frame (`ReachedSoFar`), which holds
  as nobody joins while the mutex is held, and a connection that was not made
  has no pumps that could act (`Unconnected`). The preview rests on
  `EarlierAreSent`: a message that was sent writes no preview any more.
- `SessionsProofs`: `TypeCorrect`, `AddressesUnique`, `CodesServe`,
  `SessionsRotate`. The invariant: the local variables a step reads are set
  (`Working`), of the requests that refresh one session at most one is past the
  revocation, and then the session is revoked (`OneHandsOver`), a session
  without a row has neither end nor parent (`UnusedIsFresh`), and of a code that is
  gone when it is to be read back one of the same address was used meanwhile, for
  an account that is verified by then (`CodeFound`). The second makes a step of `Revoke` a `Take`, an `End` or a stutter of `Rotation`,
  and `IssueTokens` a `HandOver` or an `Open`.
- `ReputationProofs`: `TypeCorrect`, `WhatIsAcceptedStays`,
  `RatingsLagOnlyInRaces`, `VerifiedLagsOnlyInRaces`. For the first the
  invariant keeps, from a request's write on, that its row is its own
  (`AllKept`). For the aggregates it says of a review, or a judged document,
  that it is counted, or that its own request has yet to store what it read, or
  that a concurrent request stored last (`Reviewed`, `Averaged` and `Shown`;
  `Judged`, `Derived` and `Certified`): what was read without it was read before
  it was written, hence by a request that had begun before it ended.
- Also in `ReputationProofs`, about `Storefront`: `StorefrontTyped`,
  `KeepsChanges`, `WholePages`, `AcceptsOffers`. Some forty actions write rows,
  so the proof has two halves. `Shape` says what the step of a request may do at
  most: to its own progress (`Opens`, `Goes`), to rows (`RowsStep`: none comes
  back), columns (`ColumnsStep`: its own value or the one it read), images
  (`PartsStep`) and its page (`PageStep`). A step of that shape keeps the
  invariant (`ShapeKeeps`), and every action has it (`NextShape`). The invariant
  `SfInv`: `Underway` and `Histories` about progress; `ColumnsKept`, that a
  value which is lost, or which a request under way is about to overwrite with
  what it read, is lost to a concurrent update (`ChangesKept` alone says nothing
  of the values that are held and not yet written); `PartsKept`, how far the
  images of a writer that no other ran beside have come; `LastOne`, that of
  writers who came one after the other one was last; `DeletedStays` and
  `DeletedUnseen`. `AcceptsOffers` is about every plan with windows inside the
  day, as `SetWindows` accepts them (`ConstantsFit`), and positive durations: an
  interval that `AvailableSlots` offers does not reach past its window, so the
  minutes taken modulo a day are the minutes themselves, or 0 at midnight.
- `OutreachProofs`: `TypeCorrect`, `RemindedOnceNudgedInRaces`,
  `ExchangesAreShared`. The invariant says that of a reminder that is not on
  record nobody was told (`Unrecorded`), that one tick at most tells about it
  (`OneTells`) and has left only those it has not told (`ToldOnce`); for nudges,
  that a tick about to claim found no claim or was overtaken (`FreeOrOvertaken`),
  so that every claim but the first is one of those (`RacedOnly`). That callers
  who wait together share one exchange with the push service is inductive
  together with the types.

Sums. A fold over a set has no laws without induction over its elements, and the
library's induction takes an operator. `Sums` therefore counts a total out in
units: `Total(F, S)` is the cardinality of the pairs of a member and one of its
units, whose laws (`TotalEmpty`, `TotalWithout`: one member more adds its
amount) follow from those of unions and products of finite sets. `MCLedgerTx`
compares it with a fold of the same amounts. That the sets are finite is part
of the invariants and not assumed: they begin empty and grow by one. The lemmas
stand in each of the three modules that need them.

Types are proved for every module above, so only the run of
`Sessions` repeats them.

Every invariant the passing runs check is proved, and so are the action properties and
the five refinements. Only model-checked: everything temporal under fairness
(`RequestsEnd`, `CallsEnd`, `PaidIsSettled`, `GhostsLeave`, `WaitersWake`), since the prover has no liveness and no ENABLED.

## 6. Findings and divergences

Finding (`hub_blocked`): `messaging/hub.go:160` SendToUser holds the mutex of
the hub when a queue is full, and calls `unregister`, which locks it again; the
broadcaster and then everybody else waits for ever, although `Enqueue` is said
to never block the broadcaster (`hub.go:83`).

Finding (`bookings_tidb`): `bookings/store.go:153` reads conflicts with a plain
SELECT, which on TiDB sees the snapshot of the transaction's start, also after it
has waited for the row lock. Two Creates for overlapping times that start at
different minutes both insert, although they are said to "serialize against each
other, closing the check-then-insert race even when bookings start at different
times" (`store.go:132-134`). A SELECT ... FOR UPDATE would read the latest
rows. What does hold is `CreatesDisjoint`, `KeysKeepStartsApart` and the
refinement of `Calendar`.

Seen while modelling, without a run of its own. Where a property would be
affected, the model does what the code does and the property says so.

Bookings and availability
- `bookings/service.go:303` Confirm writes from any status, so a CANCELLED
  booking comes back over one that took its place; `CreatesDisjoint` leaves
  such bookings out (`displaced`).
- `bookings/store.go:371` Reschedule moves a booking whatever its status is by
  then, without a lock, and may land on another.
- `bookings/store.go:336` a COMPLETED booking that Confirm takes back and that is
  completed again counts twice, although the count is said never to diverge;
  `CompletionRecorded` says that the count is the COMPLETED bookings and the
  completions taken back (`reopened`), no more and no less.
- `bookings/store.go:330` the history row of any other change of status is
  missing when the request breaks off after the UPDATE.
- `bookings/service.go:549` dated exceptions never apply, because a DATE is
  scanned as a timestamp; `service.go:577` the removal of covered windows reuses
  the slice it ranges over; `service.go:609` an interval past midnight wraps,
  and may be accepted although it was never offered;
  offered slots leave out the travel time of home services.

Money
- `payments/store.go:329` a SUCCEEDED intent turns FAILED when a slower
  confirmation loses the race for the debit.
- `payments/handler.go:190` a webhook event is recorded before it is processed;
  if processing stops, redeliveries are ignored.
- `payments/seerbit.go:249` "00" with an empty gateway code, or an empty code
  with gateway code "00", counts as paid, although the comment wants both
  (`seerbit.go:200-203`); `ReceivedIsReported` allows for it by `oneCode`. Words
  like "error" or "insufficient" in a message mark a payment FAILED for good
  (`seerbit.go:253-257`), where the comment speaks of explicit declines;
  `FailedIsWordedOrCharged` and `PaidIsSettled` allow for it by `worded`.
- `payouts/service.go:120` two payout requests at once withdraw earnings inside
  the holding period, although only funds outside of it are said to be available
  (`service.go:103-104`); `HeldEarningsStay` bounds what is lost by what
  overtaken requests withdrew.
- `cmd/api/main.go:256` SettleBooking runs only if the notification before it
  succeeded.
- `payouts/store.go:72-85` an error of clearing the default account is ignored,
  and two adds may leave two defaults.

People and messages
- `jobs/store.go:137` ClaimSend has no unique key behind its INSERT ... SELECT,
  which is said "to prevent double-sends under concurrent ticks"
  (`store.go:133-135`): two ticks that both find no row send the same nudge
  twice; `SentOnce` says that only such ticks do (`raced`).
- `messaging/hub.go:252` the read pump answers a ping while the write pump
  writes; two concurrent writers end the process (`Crash`).
- `reviews/service.go:70` a new review is notified to the professional's id
  instead of the user's, which the foreign key of notifications refuses.
- `auth/service.go:93-97` if Redis fails between SET and GET, or the code of the
  address is used in between, an empty code is mailed; of two requests at once
  both mails may carry the second code. A new e-mail address keeps the `email_verified_at` of the
  old one. A social login does not look at the status of the account.

Storefront
- `times_used` and `usage_limit` of a deal are never enforced; an update skips
  the validation of a discount that creation does.
- A page of discovery shows services and deals of suspended professionals.
- A feed asked for one post always says that nobody liked or saved it.
- Every update of a profile overwrites `home_service_enabled`.
- `services/store.go:57`, `posts/service.go:61`: a service or a post whose
  creation breaks off stays, with some of its variants or images.

## 7. Plan

Modelled so far, in this order: `Bookings` with `Calendar`, `Ledger` with `LedgerTx`,
`Payments` with `Purchase`, `Earnings` with `Income`, `Messaging`, `Sessions`
with `Rotation`, `Reputation`,
`Outreach`, `Storefront`; theorems about each. Next:

1. The remaining operations of conversations (mark read, lists) and payout
   accounts.
2. An abstract hub, one order of frames per user of which every device sees a
   part, that `Messaging` implements; `SameOrder` and `BroadcastReachesAll` are
   its two halves.
3. `Payments` and `Earnings` on one wallet, for a professional who also books.

## 8. Not modelled

- Administration, analytics, reports, platform settings, users' lists: reads,
  exports and single statements, with little control flow to check. What an
  administrator does to bookings, payouts, deals, documents, disputes or
  accounts is an action of their modules.
- Rate limiting: a counter under one mutex. Media, CDN, e-mail, logging,
  configuration, seeds: I/O.
- Migrations: DDL is committed before its version row, so a crash in between
  runs a file again; what this does depends on the file (`CREATE TABLE IF NOT
  EXISTS` is repeated safely, `ALTER TABLE` is not), and no document says more.
- Messaging: marking as read, lists of conversations, and the creation of a
  conversation, which is one INSERT IGNORE behind a unique index.
- Sessions: codes by telephone (the same functions), tokens and passwords and
  the identity providers, which only refuse; expiry of a session, which has the
  effect of a refusal.
- Verification: `verification_events` and the audit log's content. Payouts: the
  accounts. Notifications: the list inside the app and its read marks. Payments:
  SeerBit's token cache and transport.
- A professional who is also a customer has one wallet for both. `Payments`
  leaves out the earnings and payouts of that wallet, `Earnings` the purchases:
  the statements of either about the balance are about users who do one of the
  two. With both, a payout between receipt and charge may take the receipt; the
  charge is then refused and the intent FAILED although it was paid, or it is
  paid out of held earnings.
- Formatting of messages, JSON, HTTP status codes and authorisation checks,
  which only ever refuse. Floating point: amounts are whole kobo in the models.
  Several currencies and professionals: no statement relates two of them.
- The mobile app: another program. What it may send is the environment of the
  modules: any request, in any order, tried again at will.
