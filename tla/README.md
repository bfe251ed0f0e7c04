# my_feed_system in TLA+

Specifications, model checks and proofs for my_feed_system, a short-video site: a backend in
Go (`src/backend`), an API process and a worker process over MySQL, Redis and RabbitMQ with
Stripe for payments, and a Vue frontend (`src/frontend`). Paths below are relative to
`src/backend/internal/` unless they say otherwise. `PROJECT.json` maps every definition to the
lines it translates.

## 1. The system

Two kinds of process share all state through MySQL, Redis and RabbitMQ. The API process
(`cmd/main.go`) serves HTTP and runs the outbox poller and the wallet sweeper; the worker
process (`cmd/worker/main.go`) runs one consumer per queue and the projection poller. Any
number of each may run. There are no automated tests in Go, so everything below about orders
and failures is untested by the repository.

| component | state | operations | talks to | what is hard | what makes it correct |
|---|---|---|---|---|---|
| outbox (`outbox/`) | `outbox_messages` rows under leases | enqueue in a business transaction; claim, publish, delete, requeue | every writer, the broker | pollers that overlap, batches slower than their lock, crashes, publishes without confirms | a committed event is never discarded and reaches the queue |
| broker client (`mq/`) | exchanges, queues, `processed_messages`, dead letters | declare, publish, consume with manual ack, nack to the dead-letter queue | all workers | redelivery, lost connections, shared exchanges | every event reaches its handlers, a rejected one its own dead-letter queue |
| popularity (`popularity/`, `worker/popularity_worker.go`) | `videos.popularity`, projection rows, Redis minute buckets, snapshots | count an event, project it, rank | outbox, video, hot feed | exactly once in two stores, a crash between them | each event is counted once in each store |
| recharge (`wallet/service.go`) | recharge orders, Stripe sessions | create, query, webhook, credit, close, sweep | Stripe, wallet, invoice | webhooks that race queries and closes, gap locks, timeouts of Stripe | one pending order, one grant per completed checkout |
| wallet (`wallet/`) | lots, ledger, tips, platform entries, daily actions | grants, check-in, lottery, tip, summary, expiry sweep | accounts, video, outbox | absolute writes of balances, lock order, expiry while spending | the ledger explains every lot, no coin of a tip disappears |
| invoice (`invoice/`) | invoices, billing profiles | apply, list | recharge | concurrent applications | one invoice per paid order |
| following feed (`feed/`, `worker/fanout_worker.go`) | inbox, mark and author list per user, outbox per author | fan out, push, rebuild, read, filter, remove | video, social | a cache that must not lose videos, stale views | while its mark stands the inbox lacks nothing |
| social (`social/`, `worker/social_worker.go`) | relations, follower counts | follow, unfollow | feed, notification | the API judges MySQL while events are queued | the count is the number of relations |
| latest feed and timeline (`feed/`, `worker/timeline_worker.go`) | page cache, its version, global timeline | list, announce | video | a page cached after it became old; two orders of time | a cached page is as fresh as its version, a walk skips nothing |
| popularity feed (`feed/`, `popularity/`) | snapshots, cached pages | list | popularity | snapshots made in several calls, falling back to MySQL | one ranking per walk, every snapshot expires |
| recommendation (`recommend/`, `account/interests.go`) | vectors, interest tags, seen list | page, refresh after a like or comment | video, likes | candidates that change under the page, refreshes that race | pages are full while there is something, the taste is the last act's |
| video (`video/`) | videos, drafts, idempotency keys, detail cache, share codes | publish, draft, unpublish, relist, delete, detail | audit, outbox, feed, media | one video per key, review racing the author, two cache levels | one publication per key, an old copy has a reason, a code comes back |
| review (`audit/`), reports (`report/`) | status and trail, reports | machine verdict, manual review, submit, takedown | video | check, then unconditional update | the trail explains the status |
| media (`media/`, `worker/media_worker.go`) | upload sessions, tasks, objects | multipart upload, transcode | storage, video, outbox | transcode events published or delivered twice | what is published keeps its objects |
| likes, comments, notices (`like/`, `comment/`, `notification/`) | rows, counters, notices | like, unlike, comment, reply, delete | video, outbox | whole-row saves from snapshots, clamped counters, order of events | counters and notices agree with the rows |
| messages (`dm/`) | conversation, unread counts, stranger quota | send, thread | social | the relation is judged before the lock | the quota and the counts are exact |
| accounts (`account/`, `middleware/jwt/`) | accounts, tokens in MySQL and Redis, codes, passkeys | register, login, logout, rename, ceremonies | all | two stores written in two calls | the cache follows the row, one account per name and address |
| admission (`middleware/traffic`, `middleware/ratelimit`) | counters, penalties, in-flight gauge | guard | all | a counter made by one call and bounded by another | every counter expires |
| history (`history/`, frontend) | records of the account, the player's session | report, list | - | late, lost and repeated reports | a walk through the list misses nothing |
| publish composer (`src/frontend/src/views/VideoView.vue`) | form, media run, draft | prepare, publish, save | video, media | lost answers, runs that overlap | a retry publishes once |
| danmaku, admin, ops, analytics, request plumbing, configuration, deployment | - | reads, single-row writes | - | little that a state machine would tell | - |

`PROJECT.json` lists all components with their files and status, and 40 hazards at the lines
where they bite, each with the properties that would catch it.

## 2. Modules

```
AtLeastOnce      what the outbox promises            ExactlyOnce   an effect once per cause
     ^                                                   ^      ^
LeaseTable --> Outbox --> Popularity --------------------+      |
     ^           |  Topology (routes of events)                 |
     +---- INSTANCE (projection rows)            Recharge ------+

Wallet    Video  ShareCode    FollowFeed  LikeNotices  Comments  CommentLookup
                              DirectMessages  SocialQueue  Media  DetailCache
                              LatestFeed  Sessions  SignUp  Passkeys  Traffic
                              HotFeed  Recommend  Interests  Watch  PublishPage
                              |_____________________ Site _____________________|
```

Arrows point from a module to the one that extends it, or to the abstract specification it
implements. `*Proofs` hold the theorems, `MC*` the instances. The parts of the last block share
no state below the level of whole operations: what one of them reads of another (the rows of a
video, the relation of two accounts) is an action of its own there, of the environment, which
may happen at any step. `Site` runs them side by side: `part` is chosen in the initial state,
that part's `Next` runs, the others rest. The composition is a sum and not a product because a
product of parts that share nothing has no behaviour that the parts do not have. `MCSite` gives every
part its small instance. `Lists` has the list without some of its entries (`EntriesAt`), by which likes
remove an actor and interests merge tags.

### Events, popularity, money

**LeaseTable** is the protocol that `outbox/repo.go` + `poller.go` and `popularity/
projection_repo.go` + `projection_poller.go` share line by line: `ClaimBatch` is a plain read
of candidates (`Select`) and a conditional update (`Claim`), then the poller works through
its rows in id order (`WorkOk`, `WorkErr`, `DeleteRow`, `MarkPending`). A row's clock is two
flags, `due` and `stale`. `SlowPollers` decides whether a batch may outlive the lock: 20 rows
of up to 3 s each against a lock of 30 s, so it is TRUE wherever that matters.

**Outbox** adds the broker. `Publish` may fail after the broker has taken the message
(`PublishErr`). `mq/publisher.go` never asks for confirms, so that `Publish` may also succeed
without the broker (`PublishLost`, in `UnconfirmedNext`); the run `outbox_unconfirmed` has that
step, all others and the theorems are about a broker that keeps what `Publish` reported.

**Topology** has the exchanges, queues and bindings that the processes declare, the routing
key of every event, what the consumer of each queue accepts, and the row that a dead letter
becomes. It has no actions: it is what allows the other modules to take a queue for a set of
messages of one consumer.

**Popularity** follows one event through the queue into MySQL and Redis. Receiving, the
transaction with `processed_messages`, the Lua script, deleting the projection row and the
ack are separate steps; between any two the worker may die (`WorkerCrash`) or its channel be
lost while the handler goes on (`ConnectionDrops`). The projection table is a second
instance of LeaseTable.

**Recharge**: a transaction takes its row locks in one step and commits in another, so two
transactions overlap exactly as far as InnoDB lets them. `pendingOrders ... FOR UPDATE` on an
empty range gives two callers the same gap lock, and neither can insert (`CreateCommit`)
until the other is rolled back (`CreateDies`). Stripe is external: sessions, payments, events
delivered any number of times in any order. `AsyncMethods` lets a checkout complete unpaid.

**Wallet**: lots in the order of their ids, the ledger rows of every lot, tips, the platform's
cut. A tip, a summary and the sweeper lock and read in one step (`TipLock`, `ExpireLock`), and
write what they then computed in another (`TipCommit`, `ExpireCommit`); `CanScan`, `CanLock`
and `CanInsert` are the locks of `FOR UPDATE` scans, single rows and inserts into a scanned
range. The model assumes that MySQL scans an account's lots by the index
`idx_wallet_lots_account_remain`, so that a scan locks the whole range of the account; the
debounce of tips rests on this.

### Videos

**Video**: the videos of one author through drafts, publishing, review, reports and
takedowns. A request reads the row in one step (`Publish`, `SaveDraft`, `AuthorAsks`,
`Machine`, `Manual`) and writes single columns by primary key in a later one
(`PublishCommit`, `WriteDraft`, `WriteUnpublished`, `WriteRelisted`, `WriteDeleted`, `Apply`
in `MachineVerdict` and `ManualVerdict`), as the code does, so any other request can come in
between; `req` is what each request holds. `Takedown` and the closing of the reports
(`Accept`) are two transactions; a dismissal is one step, as its UPDATE looks at `pending`
itself. The unique key of `idempotency_keys` is the guard `~Reserved(k)`: a second insert
waits for the first transaction, and replays its answer or starts over. `auditOn` is the
deployment's `audit.enabled`. The trail is its last row, `announced` stands for the three
release events that `enqueuePublic` puts into the outbox, and the outcome of the moderators
is a choice.

**ShareCode**: the arithmetic of `video/sharecode.go`, with the radix and the word width as
constants (32 and 2^64 in the code): mixing by a multiplication, spelling in seven symbols and
a checksum, the inverse by five steps of Newton's iteration, reading with lookalikes, and
finding a code in pasted text.

**PublishPage**: one visit to the composer (`VideoView.vue`) with the requests it sends and
the server's answers. `prepareMedia`'s runs (`preparing`), the form's versions, drafts and
publications are there; a request and its answer are separate steps, either may be lost, and
the server's transactions are atomic here (Video takes them apart).

**Media**: multipart and whole-file uploads, the task and its event in one transaction, the
worker step by step (`TakeTask`, `Transcode`, `UploadCover`, `UploadVideo`, `SettleTask`,
`RemoveSource`, `AckTask`). The outbox publishes the event once or more often (`PublishTranscode`,
see Outbox), so the queue counts the copies of every task's event; each copy goes to a worker of
its own, and `LoseMediaChannel` and `MediaCrash` put a copy back. `overlapped` remembers the tasks
that a worker began while another one was on them.

**DetailCache**: Redis (L2) and a local cache per instance (L1). A value is the version of the
row it was made from. Reads (`ReadL2`, `LoadRow`, `SetL2`, `FillL1`) and changes (`ChangeRow`,
`DeleteL2`, `PublishInvalidation`) interleave freely; `lost` records which version was not
announced to whom, `late` which copy was written by a read that a change came across.

### Feeds

**FollowFeed**: the following feed of one user. Every call to Redis or MySQL by the fanout
worker (`HandlePublished`, `HandleBatch`, `FilterActive`, `Push`), the social worker
(`SocialTx`, `DeleteList`, `ClearActive`) and a reading request (`LoadHit`/`LoadMiss`,
`SetList`, `CheckActive`, `MarkActive`, `QueryFollowed`, `Fill`, `ListCandidates`, `Filter`,
`RemoveStale`) is a step. `excused` is a history variable: the videos that a known fault has
dropped. Sizes are unbounded, scores and pages are left out, and messages that wait, repeat
or overtake each other are a set.

**LatestFeed**: uploads, approvals (scored by their own time), the timeline worker's ZADD and
INCR, and readers that read the version, the cached page, the timeline or MySQL. Videos are
numbered by their creation, so that a cursor is a video. Both cache levels are found by the
same key and are one here.

**HotFeed**: a snapshot is made in separate calls (`Exists`, `Unite`, `Card`, `Settle`,
`Expire`) by whichever request comes first; a request without a usable one falls back to
MySQL's order. All moments lie in one minute, so that all snapshots unite the same buckets, and
a page holds one video.

**Recommend**: one viewer's page from the candidates (`AskRecommend`) slot by slot (`MixSlot`)
to the answer, and the seen list the client sends back. Scores are data: the best of a queue
is any of it that the rules of the code allow.

**Interests**: the vector and the tags of one account, each read, computed and written in
steps of their own after the transaction of a like, an unlike, a tip or a comment. A tip refreshes
like a like and counts as one.

**Watch**: the playing page's session and heartbeat, the requests nobody waits for, and the
list with its cursor of time and id.

### People

**LikeNotices**: a like reads its snapshot before it waits for the video's row lock
(`JudgeLike`, `InsertLike`), an unlike after it (`DeleteLike`); `CommitLike` and `CommitUnlike`
write the counter and the whole inbox row, as it was in the snapshot, back.

**Comments**: requests judge the rows that are there; events are applied in any order and
again (`HandleComment`), a failing one is dead-lettered (`DeadLetterComment`). `publishSync`
and `deleteSync` are the same writes in the request, when the broker is not there.

**CommentLookup**: which comment an id in a request means. JavaScript cannot write every 64-bit
id; a large id without a row of its own stands for the nearest row of a window.

**DirectMessages**: `JudgeRelation` before the transaction; `EnsureConversation` takes the row
lock, `CommitSend` writes the message and the unread count from the row it read.
`MarkConversationRead` is Thread's; `ThreadPage` is the page that Thread answers with.

**SocialQueue**: follow and unfollow events, the worker's transaction, the notice and the
dead letters with their consumer.

**Sessions**: the token of one account in its row and in Redis. A token is made of id and name
alone, so it is modelled by the name. Every operation writes row and cache in two steps.

**SignUp**: names and one e-mail address, codes in Redis, the reads before an insert and the
unique indexes that decide. **Passkeys**: both ceremonies, each two requests, with the session
that whoever finishes takes out. **Traffic**: the in-flight gauge, the windows and the penalty
box; every call to Redis may fail, done or not, and an INCR that timed out may be made again by the
client library.

## 3. Runs

| run | instance | what it shows |
|---|---|---|
| `outbox` | 2 rows, 2 slow pollers, batches of 2 | no event is discarded, the table implements `AtLeastOnce` with its liveness and drains |
| `outbox_unconfirmed` | as `outbox`, without confirms | a violation: a committed event is lost |
| `popularity` | 1 event, 1 worker, 1 poller, 1 projection poller | event and projection are never lost, MySQL and Redis each count exactly once, and what is counted is ranked in the end |
| `recharge` | 2 orders of 1 account, 2 requests, delayed methods | one pending order, one credit per completed checkout, and whoever paid gets the coins |
| `recharge_unpaid` | the same | a violation: a checkout that completes unpaid is credited |
| `wallet` | 2 accounts, 2 requests, 5 lots, 2 instants | the ledger explains the lots, tips balance, the debounce holds, expired lots are emptied |
| `video` | 1 video, 2 keys, 2 requests at a time, 1 reporter | one publication and answer per key, the trail explains the status and a report is accepted only after the takedown, what is public was announced, a requested review ends |
| `video_verdict` | the same | a violation: the machine's verdict overwrites a takedown |
| `site` | every part of the last block, see `MCSite.cfg` | their invariants, each explored completely |
| `followfeed_stale` | the feed of `site`, no faults | a violation: a request with an old author list empties an inbox that was just marked |
| `comment_unlisted` | the comments of `site` | a violation: an accepted reply is applied under a root that is gone, and no list shows it |
| `latest_skipped` | the latest feed of `site`, Redis never fails | a violation: a walk is never shown a video that was public before it began |

**Bounds.** Two pollers and two requests are the least that can disagree; a third adds no new
kind of interference, as every step involves one actor and the shared rows. Two rows are needed
for batches, order and starvation. `MaxCopies` tells one copy from several. A recharge
needs two orders for replacement and two requests for a race. In the wallet 11 coins split
unevenly between author and platform and make a tip draw on several lots; two instants
(`MaxTime`) are enough for expiry to fall between reading the clock and locking, `MaxLots`
leaves room for the lots of two tips, `MaxClaims` for one prize. A video's operations touch its
own row only, so one row with two publications (a draft that was published can become a draft
again) meets every order of two requests. `ShareCode` is evaluated with radix 2 and a word of
2^10, for every code there is.

In `site`: the feed needs one video that comes and goes and a second author who keeps the list
from being empty, as steps treat videos independently. Likes have three accounts, since an
inbox row stores two (`MaxStored`). Three comments make a root, a reply and a reply of a reply; `MayFail` bounds
failing transactions to the events of the first comment and `Brokerless` the requests without
a broker to it. A quota of one message (`StrangerQuota`) and three messages pass the limit and
come back from it. A task has two workers, which is what it takes to overlap, and an event three
copies (`MaxTranscodeEvents`), so that one is left after two of them. The
detail cache has two instances, one reader and one writer: a reader that a change comes across is
the only kind of interference, and `MaxVersion` gives it two changes. Feeds have pages of one
video or three, and two to five videos, so that a walk has a second page and a queue can
run out; `HotCached` caches first pages only, `HotPagesRead` bounds a walk. Sessions have three requests, because a stale
refill needs one request to find the old token, one to change it and one to show it. Limits of one (`MaxPasskeys`, `Ceiling`, `DenyThreshold`)
are passed in two steps. Two likes and a comment (`KindsOf` gives each actor its kinds) race in Interests. The composer has
`MaxRuns`, `MaxForms`, `MaxSaves` and `MaxPublishes` of two or less, which let a retry meet an older request. What the bounds
leave open, the theorems close.

**Fairness.** Pollers wake on a ticker and consumers are restarted by their supervisor, so their
steps are weakly fair; a step that a crash or an error can keep interrupting (publish,
delete, transaction) is strongly fair, which says that MySQL, Redis and the broker answer
again and again. Stripe repeats a webhook until it is answered, which makes `Notify` of an
order strongly fair. An unacked review comes again after every restart of
the worker (strong fairness of `Machine` and `MachineVerdict` per video), and a request that
is not answered ends with its timeout. The sweeper runs every 30 s and keeps trying. No fairness
is assumed of users, of payments, or of a row's lock being released by a process that is still
slow. The parts of `site` have no liveness properties and no fairness.

`CHECK_DEADLOCK FALSE` is set where the system may stop: all events delivered, all orders
closed, the bounded clock at its end, every key used.

## 4. What the violations mean

- `outbox_unconfirmed`: `.spec/backend/outbox/spec.md` promises that a temporary broker
  failure discards nothing. `Publish` returns nil after writing a frame; the row is deleted
  although the broker may never have read it.
- `recharge_unpaid`: `.spec/backend/wallet/spec.md` grants coins only after Stripe reports
  success. `checkout.session.completed` is credited whatever its `payment_status`; with a
  delayed payment method the money may never arrive. Without delayed methods the property is
  a theorem (`CreditsArePaid`).
- `followfeed_stale`: `feed/fanout_store.go` says that a mark vouches for the inbox. A request
  that loaded its author list before a follow was applied rebuilds the inbox after it, judges
  the new author's videos by the old list and removes them, while the mark it set stays for
  seven days.
- `video_verdict`: `audit/service.go:100` says that what people have decided is not
  overwritten by the machine. The status is checked before the moderators are called, which
  can take seconds; `apply` then updates by id alone. A takedown or a reviewer's rejection in
  between is turned into an approval, and the video is announced.
- `comment_unlisted`: `.spec/backend/comments/spec.md:18` wants replies kept under a parent.
  `Publish` looks for the parent in the request (`comment/service.go:127`), and
  `handleCommentCreated` (`worker/comment_worker.go:79`) inserts the reply without looking
  again. If the root's `comment.deleted` is applied first, the reply is counted and noticed,
  but `ListAll`, which starts from the roots, never shows it.
- `latest_skipped`: `.spec/backend/feed/spec.md:28` says that pages must not skip items. The
  timeline is scored by the time of approval (`video/audit_store.go:107`), while cursor, order
  and filter use `created_at` (`feed/service.go:183`). A walk that reads a page cut by the
  approval times goes on behind its oldest video and passes one that was created later.

Known from the models and not a disagreement with a document:
- with slow pollers one row can have two holders, and the event is published twice; consumers
  absorb it. `RowsHaveOneHolder` is a theorem for prompt ones;
- a `SaveDraft` that read a draft just before it was published makes the published video a
  draft again, with its release events out; if a stale unpublish follows, relisting leaves a
  published video pending without a review request. It is still listed for reviewers, so
  `Reviewed` promises no more than a verdict in the trail;
- with two copies of a transcode event, or one that a lost channel gives back, two workers pass the
  status check of `worker/media_worker.go:55`. One marks the task ready and its author publishes;
  the other fails to put its video and removes the cover (`:112-119`), which the comment there takes
  for an orphan. `MarkProcessed` comes after the objects and does not help. `PublishedKeepsObjects`
  names this case, and shows that there is no other and that the video itself stays;
- two keys may promote one draft, each with its own answer;
- a video rejected while its relisting was under way is announced all the same.

## 5. Proofs

TLAPS checks these for every value of the constants. Each module of proofs has the same shape:
an inductive invariant with named parts, one theorem that it holds at first, one step per action,
and the properties read off it. The properties, and most of the inductive invariants, were checked by TLC
on the instances of the runs first.

**PipelineProofs.** Of the outbox: `TypeCorrect`; `EventsKept` (`NoEventLost`) for a broker that keeps what
`Publish` reported. `NoEventLost` is not inductive: the row a poller is about to delete must
already be in the queue (`DeletesAccepted`), and candidates and batches must be committed rows
(`FromCommit`). `ImplementsChannel` maps every step to `Commit`, `Deliver` or a stutter.
`RowsHaveOneHolder` under `~SlowPollers` goes through `HeldIsLocked`: what a poller holds is
locked and not stale, so nobody else's conditional update takes it. Topology is proved here too:
every event that is published reaches the queues whose consumers handle it
(`EventsReachTheirHandlers`), dead letters reach no consumer of live events
(`DeadLettersKeptApart`), processes that declare one queue agree on its arguments
(`DeclarationsAgree`), and a dead letter's row names its queue (`DeadLetterNamesItsQueue`).

Of popularity: `CountedOnce`, `RankedOnce`, `ProjectionsKept` follow from `EffectInv`: a
worker past its transaction holds a processed event, a poller about to delete a projection
has applied it, and a projection row exists exactly for processed events.
`EventsKeptToTheEnd` adds `DeletesTaken`, that a row about to be deleted is in the queue, in
flight, processed or dead-lettered. `MySQLImplementsOnce` and `RedisImplementsOnce` are
refinements of `ExactlyOnce`; they need `OriginInv`, that whatever a poller or worker holds was
committed.

**RechargeProofs.** `LockInv` contains what locks give: holders exclude each other
(`LocksExclude`), what was read under a lock still holds (`ReadsHold`), a call has locked
all pending orders of its account (`ReadsPending`), and an order whose URL was never
returned cannot be paid (`Unpayable`), which is why closing it without a check is safe.
From it `OneOrderPending`, `OrdersCreditedOnce`, `CreditsArePaid` and the refinement
`RechargeImplementsOnce`, and two results that no run states, `PaidOrdersStay` and
`InvoicesAreForCredits` (an order found paid stays paid).

**WalletProofs.** `LotsExplained` (`LedgerExplains`), `TipsBalance` (`TipBalances`) and
`TipsDebounced` (`Debounced`) from `WalletInv`. What a request has planned while it holds its locks
still fits the lots (`PlansFit`), no two plans touch one lot (`PlansApart`), and the plan of a tip takes
exactly the tip's price (`TipPlans`), of an expiry whole lots (`ExpirePlans`); every row of the ledger
names a lot or a tip that exists (`RefsKnown`); and requests of one tipper that passed the
debounce are never two at a time (`TippersApart`, `NoRecentTip`). The sums over lots and ledger
rows would be an induction; in place of one, the lemmas take the least counterexample of a
bounded set of numbers (`LeastOne`, `CountUp`, `GrowSubset`) and derive from it how a sum
changes when a row is added. `GreedyTakes` (the tip's plan takes what was asked, if the lots have it) and
`SoonestFirst` (a lot is drawn on only after those that expire sooner are empty) are theorems
about the operator `Greedy` itself.

**VideoProofs.** `VideoTypeInvariant`; `KeyPublishesOnce`, from `OnePublisher`: a running
publication is alone with its key, and the key is not done. `VideoTrail` proves
`AuditExplains`, `PublicWasAnnounced` and `AcceptedWasRemoved` together (the first and the last are
`DecisionsExplained`): an approved video
was announced whether or not it is public (`ApprovedAnnounced`), and a request about to
close reports has removed the video (`ClosesAfterRemoval`). `ClosedReportsStay` and
`DeletedVideosStay` are action properties. For ShareCode: the product of an odd number and its
approximate inverse doubles its correct bits with each of Newton's steps, so that five of them
invert it for the word of the code; hence `ShareCodesComeBack`. `WrongSymbolIsRefused`, and
`SwapIsSeenUnlessHalfApart`: the checksum sees every single wrong symbol, and every swap of
neighbours except those whose values lie half the radix apart.

**CounterProofs.** `LikeInv`: whoever holds the video's row lock has judged the rows as they
are. `CommentInv`: an event that waits or is dead has its row to explain it, and what nobody
has seen yet is still sent. `FollowInv`: the same for relations and their events. `DmInv`: a
request with the lock knows the row and the count it read. From them `LikesCounted`,
`CommentsCounted`, `BellsMatchComments`, `FollowersCounted`, `QuotaKept`, `UnreadExact`; `QuotaIsTold` is an
action property (a refusal happens at the quota and never below). `PagesAreExact` is about
`ThreadPage`, `LookupIsNearest` and `RoundedIdsComeBack` are about `CommentLookup`. Below each component
stands the lemma of its types (`CommentTypes`, `SocialTypes`, `DmTypes`), for SiteProofs.

**AccessProofs.** `SessionInv`: a request that is on time writes the row's token into the cache.
`PasskeyInv`: a session is finished by one request and sees the passkeys under the lock it takes.
`TrafficInv`: a counter without an expiry has a request that owes it one (`Owes`), or one that could not pay.
From them `CacheFollowsRow`, `PasskeysBounded`, `CounterExpires`. `SignUpInv`: the unique indexes, and who
holds a code. `MediaInv`: unless two workers were on a task at once, whoever is on it is alone with it
and it is not ready (`WorkAlone`), so nothing that is published is touched; copies of an event that are
handled one after the other, dead letters and crashes need no exception.
`PageInv` is about the composer: the server answers for a key with one row and one content
(`Answers`), and as long as every publication is alone, publications of one content have one key
(`OneKey`). For that a publication with the form and file of the composer must have its key, or be of
media that will not be published with them again (`KeyHeld`, `Spent`); the answer that drops the key is
heard when no other request is out (`OneOut`), and a run that saves its draft was not asked to publish
(`SavesOnly`), so that whatever it publishes later it publishes as a run that was overtaken. The proof
failed without that last assumption, and TLC found why with three publications (`MaxPublishes`):
`RetryPublishesOnce` now names it. Its types need a bound on what can be numbered: a key is no larger
than the requests that were sent, a row than the works there are, a medium than what is stored, and
requests are counted by kind (`PageBounds`, with `CountsAll` for the requests of one kind in a list that
grows).

**FeedProofs.** `NothingLost` is inductive given the types, because its disjunction names every way a
video can be on its way to the inbox and `excused` every way it can be dropped. `HotInv`: a snapshot
without time to live has its maker or was abandoned by it. `RankInv`: pages of one moment at different
places show different videos, and match the snapshot while it is there. `DetailInv`: every copy is the
row's version or has a writer, a loss or a late reader to explain it, and losses only grow. `FreshInv`: a
reader takes the version before it reads and the worker announces it after it adds, so what a version
announces is in what was read unless the read was cut; that the first n of an ordered set are n, when
there are more, is `FirstAreMany`, by the least rank among those left out. `WatchInv`: ids number the
rows in the order they were made, and the cursor of a walk is time and id of the last row listed.
`RecInv`: a place of a recommended page stays empty only when every candidate is on the page
(`EmptySlot`), and a list of candidates that leaves something out is longer than a page. From these
`SnapshotsExpire`, `OneRanking`, `StaleHasReason`, `VersionMeansFresh`, `WalkMissesNone`, `ShortMeansAll`.
`TasteInv`: nothing counts as settled while an act is under way, and an act that is alone knows what it
has read (`Settling`). What a comment leaves is about a list without some of its entries, which the
standard filter defines by induction; `Lists` says which entry stands at which place by counting
(`EntriesAt`), so that its length and order are lemmas about finite sets (`EntriesAreList`), and
`MergeEndsWithNew` says that merged tags end with the new ones even where the list is cut to `MaxTags`.
From these `TasteSettles`.

**SiteProofs.** `SiteRunsEveryPart`: a behaviour of the site is a behaviour of each of its parts, since
every step is the part's own or leaves its variables. Hence `SiteTypesKept`, the types of all parts
together, and `SiteKeepsItsPromises`, every safety invariant of the run `site` as a theorem of
`SiteSafety`. The types of likes are here, as they need both the counters and the lists: a notice
without an actor, or with one in front and cut to `MaxStored`, is a notice (`ActorsLeft`, `ActorsGrow`).

The assumptions are those named in the modules (`*Assumption`): ids are numbers, `NoOrder`,
`NoEvent`, `None` and their like are not data, constants have their types, limits are not zero. TLC
evaluates them in the runs.

Only model-checked: liveness (`TableDrains`, the fairness in `Delivery`, `EventuallyRanked`,
`PaymentCredited`, `ExpiredGone`, `Reviewed`), which is out of the prover's reach. Every invariant of
every passing run is a theorem. The refinements are proved for their safety, initial states and steps.

## 6. Not modelled

Within the modelled parts:
- wording, validation and authorisation; the exact backoff; that an unpaid order is closed in
  the end; the notification that goes with a tip; the request hash of a publication (the same
  key with another payload is refused);
- scores, sizes and trimming of timelines; that only first pages of the popularity and latest
  feed are cached locally, and their two cache levels, which are one here; the vectors' values,
  and that the recommendation list does not read the cached one;
- that two likes can overwrite each other's actors in the stored inbox row
  (`.spec/backend/notification/spec.md:31`): the model has the lost update, no property
  promises its absence;
- objects left in storage by a task that failed, and the one-day lifecycle rule of the
  upload bucket;
- the read ticks and the inbox list of messages; the write paths of likes and relations without
  a broker (those of comments are modelled); `like_worker.go`, whose queue nobody publishes to;
- queues that the API binds although the process that consumes them may not be started
  (`cmd/main.go:188`): Topology routes to them, no module says that they drain;
- `FailOpen` of the guard, which is forced;
- the draw of comment ids against other API processes: ids are taken as fresh.

The composer is one visit, and its requests find a server whose transactions are atomic. A late answer
with a draft's detail and a silently saved draft after which `prepareMedia` does not compare its run
again are in the model; publications that an overtaken run sends, or that overlap, are outside of what
`RetryPublishesOnce` promises, since with them the same media can become two works. A draft written
over a row that was just published is left to Video. Other views of the frontend (message panel,
home feed, follow buttons, comment drawer, the client's handling of 401) merge late answers into
what is shown; they keep nothing, and are not modelled.

Of the components, those with status `not_modelled` in `PROJECT.json`, for the reasons given
there.

## 7. Plan

Modelled first were the outbox and what rests on it, then money, video and review, then the feeds and
what accounts do to each other, then the pages of the frontend that keep state. What is left, in this order:

1. an abstract specification of the review (a status that only a person changes after a person did), to
   say for which deployments Video implements it;
2. actors and events merged by likes (`LikeNotices`) against the inbox a reader sees.
