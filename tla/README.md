# Verification of chiban

chiban is a chat for small private groups built around sharing meals: a Go API
(`src/apps/api`), PostgreSQL, an object store, and a Next.js client
(`src/apps/web`). This directory holds TLA+ models of the parts whose
correctness depends on order, overlap and failure, the TLC configurations that
check them, and proofs checked by TLAPS.

## 1. Inventory

### How the system runs

One API process serves HTTP. Every request has a goroutine that calls one
service (`chat`, `group`, `meal`, `profile`, `sticker`, `push`), which runs SQL
statements on PostgreSQL at READ COMMITTED, mostly one by one without a
transaction, and answers. Each web socket has a goroutine that forwards events
from the in-memory hub. Nothing but PostgreSQL, the hub's mutex and the lease
map's mutex orders two requests, and a request whose client hangs up has its
next statement cancelled.

### Components

| Component | State | Operations | What is hard | What makes it correct |
|---|---|---|---|---|
| Chat hub (`chat/hub.go`) | maps of subscriptions, one buffered channel each | `Subscribe`, `SubscribeUser`, `Broadcast`, `Close` | a slow reader is dropped during a broadcast while its handler closes; the mutex is held for a whole fan-out | no panic; no silent loss on an open channel; an unbroken run of events; broadcasts end; dropped readers leave |
| Chat service (`chat/chat.go`, `chat/store.go`) | `chat_messages`, `message_reactions` | `Send`, `AnnounceMeal`, `Delete`, `React`, `Unreact`, `History`, `Locate`, `UnreadCounts` | retries race and break off; insert, read and broadcast are separate; statements overlap on their snapshots | one row and one announcement per client id; persisted before broadcast; one live card per meal; reactions told add up; nothing for outsiders |
| Groups (`group/group.go`, `group/store.go`) | `groups`, `group_members`, `group_invites`, `group_pins` | `Create`, `CreateInvite`, `RevokeInvite`, `Join`, `Leave`, `Pin`, `Unpin` | a join against a revocation, joins against leaves, pins against leaves | the owner stays; no join by a revoked invite; the answer is true; no pin without membership |
| History, read cursors, unread counts (`chat.History`, `group.MarkRead`, `AdvanceOwnCursor`, `chat.UnreadCounts`) | `group_members.last_read_*`, page cursors | page, advance, locate, count | timestamps are taken before the commit; ties; several devices | pages neither repeat nor skip; a cursor never moves back; what is newer than all that was seen is unread |
| Socket handlers (`httpapi/chat.go`, `ws_me.go`) | the subscription, the connection | forward, heartbeat | membership ends while a socket is open | nothing is forwarded after a leave was seen |
| Focus leases (`push/focus.go`) | lease map with expiry | renew, clear, query | sockets of one device overlap | a focused device gets no push, an unfocused one does |
| Push (`push/notify.go`, `service.go`, `store.go`) | `push_subscriptions`, worker semaphore | register, unregister, notify | detached goroutines, retries, a context that ends early | each eligible device is tried; dead endpoints go, live ones stay |
| Meals (`meal/meal.go`, `store.go`) | `meal_records`, `meal_images`, objects | create, update, delete | objects and rows are not one transaction | no row without its object |
| Meal sharing (`meal.Share`, `Unshare`) | `meal_group_shares`, cards | share into groups, revoke | a loop of groups that stops half-way | a card implies a share at the time; what is answered happened |
| Profile (`profile/profile.go`) | profile row, avatar object | update, swap avatar | three steps, two uploads at once | the row's object exists |
| Stickers (`sticker/*`) | library, pin rail | add, delete, set pins | replace against delete | pins are a subset of the library, positions distinct |
| Chat media (`chat/media.go`) | row, object | upload, open | as meals | as meals |
| Accounts and sessions (`auth/*`) | users, sessions | register, log in, log out | a socket outlives its session | an expired session authorises nothing new |
| Web unread counters (`lib/unread.ts`) | counts, pending | fetch, event, mark read | answers and events out of order | the count converges |
| Web chat room (`components/chat-room.tsx`) | list of messages, optimistic sends | load, older, send, event, reconnect | fetch against subscription | no gap and no duplicate |

Stateless or external: HTTP routing, configuration, image sanitising, object
storage drivers, calendar-day arithmetic, pages and forms of the web client,
the service worker, deployment scripts.

The hazards this list leads to are in `PROJECT.json`, each at its line with the
property that would catch it.

### Interactions

* `chat.Send` asks `group.IsMember`, writes, calls `Hub.Broadcast`, then
  `group.AdvanceOwnCursor` and `push.NotifyMessage`.
* `meal.Share` writes a share and calls `chat.AnnounceMeal` for each group.
* The socket handlers hold a hub subscription and ask `chat.MayReceive`, which
  is `group.IsMember`, before each write.
* `group.ListForUser` asks `chat.UnreadCounts`; `group.MarkRead` asks
  `chat.Locate`.
* The client loads pages of history over HTTP and appends what its socket says.

## 2. Modules

For each modelled part `X` there are `X.tla` (state and actions), `XProperties.tla`
(what makes it correct), `MCX.tla` with its `.cfg` files (small instances) and
`XProofs.tla` (theorems). A definition named `Buggy...` is a plausible mistake
in the definition that follows it; it belongs to no specification and serves to
see that a property notices the mistake.

An action is what one goroutine does between two points where another may
intervene: a statement on PostgreSQL, a critical section of the hub's mutex, an
operation on a channel. Requests are taken from a finite set; `Begin` decides
what a request is, `pc` is the next statement it runs, `answer` what the caller
is told. `BreakOff` ends a request before any statement (the client hung up,
the database or the process failed) and is bounded by `MaxFailures`.

### Hub and Feed

`Hub` is `chat/hub.go` with the loops of the socket handlers that read from it.
`log` is the sequence of the broadcasts' groups; an event is its index.

| Hub | code |
|---|---|
| `registered` | the maps `subscriptions` and `userSubscriptions` |
| `sent[s]`, `read[s]` | what was put on the channel and how much was taken; their difference is the buffer |
| `closed[s]`, `reader[s]` | the channel is closed; where the handler's goroutine is |
| `fanning`, `todo` | a `Broadcast` holds the mutex; those it has yet to offer the event |
| `StartBroadcast`, `Offer`, `EndBroadcast` | `Broadcast`, with its `select` / `default` drop |
| `Subscribe`, `Close` | `Subscribe` and `SubscribeUser`, `Subscription.Close` with its `sync.Once` |
| `Receive`, `SeeClosed`, `StopReading` | the handler's `select`, its ways to return |

A `Broadcast` is split into its offers because readers receive from their
channels without the mutex meanwhile. A send on a closed channel and a second
close are modelled by what Go does: `panicked`.

`Feed` is what a connection may rely on, without channels, buffers or mutex:
after joining it hears each broadcast of its scope in order without a gap until
it leaves. `Hub` implements `Feed` under the mapping at the end of
`HubProperties`.

### Chat

`Chat` is the write side of `chat/chat.go` and `chat/store.go`. The id of a
message is the request that inserted it, so `row[m]` is the row of
`chat_messages` with that id. Statements that take two snapshots are split where
PostgreSQL lets another statement in: `DeleteSnapshot` and `DeleteCommit` are
the one statement of `softDelete`, `ReactSnapshot` and `ReactCommit` that of
`addReaction`.

| Chat | code |
|---|---|
| `members` | `group_members`, changed by `Leave` only |
| `row`, `reactions` | the tables and their unique keys (`KeyTaken`, `CardTaken`, `SameReaction`) |
| `log` | the calls of `Hub.Broadcast`; an event carries what the row was when it was read |
| `found`, `seen`, `snap` | the id a request works on, what its statement's snapshot saw |
| `SendCheck`, `Insert`, `Find`/`FindCard`, `Get`, `Announce`, `Finish` | `Send`, `AnnounceMeal` |
| `ChangeCheck`, `DeleteSnapshot`, `DeleteCommit`, `AnnounceChange` | `Delete` |
| `ChangeCheck`, `ReactSnapshot`, `ReactCommit`, `Recheck`, `Unreact`, `AnnounceChange` | `React`, `Unreact` |

`Conversation` is what the service promises its callers and watchers, without
statements, snapshots or membership: a request takes effect in one step between
its start and its answer, or meets at one moment that its effect is there;
an effect is told once and afterwards; an answer is true. It says little of what the code does not keep: a
deletion may leave reactions behind, a reaction may be to a tombstone, a message
may be told as it was when it was posted, and effects may be told in another
order than they happened. `Chat` implements it; `Stage` at the end of `ChatProperties` says
where in its life a request is by where its statements are.

### Group

`Group` is one group of `group/group.go` and `group/store.go`: its creation,
invites, members and pins. Joining is a transaction that locks the invite's row
(`FindUsableInvite` ... `CommitJoin`); `Locked` is that lock, which
`RevokeInvite` waits for, and `Waits` the wait of an insert for the uncommitted
row of the same member. `Leave` clears the pin and removes the member by two
statements, as `removeMember` does.

### Timeline

`Timeline` is the read side: a group's messages ordered by `(created_at, id)`
and one member with several devices. `Insert` fixes the timestamp, `Commit`
makes the row visible, so rows appear in another order than they are numbered
in. `FirstPage` and `OlderPage` are `History`; `MarkRead` and `Advance` are the
two statements of `group.MarkRead`, `AdvanceOwn` is `AdvanceOwnCursor`; `Unread`
is what `unreadCounts` answers. Ids are numbers, since PostgreSQL compares them
to break ties. `Page` lists the newest rows by rank: the row at a place is the one
with that many newer ones. The size of a page is a constant: its defaults and limits, and
the encoding of the page cursor, decide nothing here. Deletions keep the row.

### Push

`Push` is the table of subscriptions, the notifier with its workers and the
focus leases. The id of a subscription is the request that inserted it, so a
device that registers again has another row. Time is a choice: a lease may
expire, and the 15 seconds of a notification may be over, at any moment.

| Push | code |
|---|---|
| `rows`, `Conflicts` | `push_subscriptions` and its unique keys |
| `Cleanup`, `Insert` | the two statements of `Upsert` |
| `Remove` | `DeleteByEndpoint`, and `DeleteByDevice` of a logout |
| `List`, `Consider`, `Considered`, `Return` | the goroutines of `NotifyGroup` and `NotifyMealShare`; `Return` runs the deferred `cancel` |
| `worker[n][q]`, `Acquire`, `Attempt`, `Prune` | the goroutine that sends notification `n` to subscription `q`: waiting for `workerSem`, in the loop of `sendOne`, in `DeleteByID` |
| `ended[n]` | the context of `n` is over, by its timeout or by `cancel` |
| `lease`, `Expire` | `FocusManager` |
| `socket`, `held`, `Focus`, `Renew`, `Blur`, `HangUp` | the reader of `/ws/me` and its `lastDeviceID` |

A share's workers are started by a loop that takes the slot before it starts
the next, a message's take it themselves; `MayReturn` is the other difference
between the two.

### Media and Meal

`Media` is how pictures come to have a row and an object: `meal.Create`,
`profile.SaveAvatar`, `chat.UploadMedia` and `sticker.Add` differ in the row
they write and in little else, so that one module has one action per step of
theirs. An object's name is the request that stored it and the number of the
photo; a meal or an upload is the request that created it.

| Media | code |
|---|---|
| `CreateMeal`, `PostAvatar`, `AddSticker`, `UploadMedia`, `Look` | the handlers; `Look` opens an avatar, a sticker or chat media |
| `objects`, `held` | the bucket; what a request has stored and would remove (`stored` in `meal.Create`) |
| `Upload`, `UploadFails` | `ObjectStorage.Upload`; a failed one may have left its object |
| `Write` | the one `INSERT`, or the transaction with a meal and its photos |
| `Lock`, `Swap`, `Tidy` | `lockAvatarForUser`, `setAvatar` with the `COMMIT`, the removal of what was replaced |
| `LoseAnswer` | the rows are committed and the API is told that they are not: `doubtful` |
| `Sweep`, `GiveUp` | the deferred removals and the answer of a request that failed |
| `Find`, `Open` | the two steps of opening a picture |
| `Restart` | the process ends: transactions roll back, nobody sweeps |
| `strays` | history: the objects somebody should have removed and could not |

`Meal` extends `Media` by what happens to a meal afterwards, statement by statement: `Own`
is `findOwned`, `LookUpGroups` is `GroupIDsFor` with the check of all groups
that `Share` makes before it writes, `Share` and `Announce` are the two steps
its loop makes for a group, `LookUpCard` what `AnnounceMeal` does when a card is
there, `Confirm` and `ListShares` the answer. A share and the value of a field
are the request that wrote them; `joined[r]` and `before[r]` remember the groups
and the ended requests of the moment `r` began. `Leave` and `DeleteCard` are the
group's and the chat's. An action that fails is `GoWrong`; an answer that is lost
of a single statement of `Meal` is not modelled, since nothing is undone after
it. Who may open an avatar or an upload is a choice in `Find`: which message or
which group decides it is not in these modules.

### Room

`Room` is the list of messages on screen in `chat-room.tsx`. A message is its
position in the server's order, and the server is taken to broadcast in that
order; `Timeline` and `Chat` say where it does not.

| Room | code |
|---|---|
| `list`, `before`, `epoch` | the state `messages` and `before` as set, the ref that counts restarts |
| `rendered` | `held.current`; the `before` and `loadingMore` of the button that is on screen |
| `Render` | React renders what was set, and the effect that writes `held.current` runs |
| `conn`, `redial`, `tries`, `wire` | the socket, `isReconnect`, `failures`; what the hub and the socket still hold |
| `first`, `fill`, `again`, `earlier` | `loadLatest` for the first page, `backfill` with its snapshot, `backfillAgain`, `handleLoadEarlier` |
| `Bridge`, `StartAgain` | the two ways a backfill's page is merged |
| `sending`, `pending`, `posting` | what is being sent; the id a retry uses, per kind; posts on their way |
| `Send`, `Retry`, `Attach`, `Uploaded`, `Sent`, `SendFails` | `handleSend`, `handleSendSticker`, `handleAttach`, `handleRetryAttachment`, `settleSend` |
| `excused` | history: messages that fell through where the room has no means |

A request is two steps, the server's and the arrival of its answer. A post that
the reader gave up may still arrive.

State that is set is rendered later, and callbacks read what was rendered: the
first page is merged with `held.current` and overwrites what was set since;
`onopen` and the end of a backfill take the snapshot of it, which `stale` records
when it is not what was set; and the button of "load earlier" has the cursor of
its render, though the epoch it compares is of now, and is disabled by the
`loadingMore` of its render. A press renders `loadingMore` at once, and a message
from the socket is put into `held.current` without a render. An effect is taken
to run with its render: a callback that comes between the two would read the list
of the render before, as one that comes before both. `FillEnds` has the queued
backfill begin before the render or after it.

### Unread

`Unread` is `lib/unread.ts` with the provider and the banner that feed it. The
operators on a state (`Record`, `ApplyRead`, `AddGroup`, `SetPinned`,
`ApplyRefresh`) are the functions of that file; the actions are the callbacks
that apply them to `state`, which is also `stateRef`: a callback is taken to see
the state that was rendered last. A fetch and a mark-read request are two steps
like those of `Room`. `total`, `cursor` and `ours` are what the server knows;
the messages of a group are numbered, and an event may be missed. The provider
offers `refreshGroups` to any page and calls it when it is mounted; the model
lets it be called at any time. The counts of an answer may have failed at the
server (`blind`), which then says zero. `counted` is history: what the tab has
counted and was not told to forget by such an answer: messages it heard of by an
event. One that is known only from the number in an answer is outside `counted`
and of what `NeverUndercounts` says.

### How they compose

`Chat!Broadcast` is `Hub!StartBroadcast` with the event abstracted to its group;
`Chat!members` is what `Group` keeps, reduced to leaving; `Timeline!Hear` is a
socket of `Hub` that delivers an event of `Chat`, which is announced only when
stored (`ChatProofs!StoredBeforeTold`). A request of `Push` that notifies is begun by
the `Finish` of a `Chat` request. `Meal!Announce` and `LookUpCard` are an
`AnnounceMeal` of `Chat` in the two steps `Meal` can see. `Room!wire` is a
connection of `Hub` whose buffer is not at its limit, and `Room!Page` a page of
`Timeline`. `Meal` extends `Media`; the other joints are not yet modules of
their own, see the plan.

## 3. Runs

| Run | Instance | What it shows |
|---|---|---|
| `HubDelivery` | one group connection, one `/ws/me` connection, two groups, buffer 2, 4 broadcasts, fairness | no panic; nothing is lost in silence; what is on a channel is an unbroken run; `Hub` implements `Feed`; a broadcast returns whatever readers do; a reader that goes on receives each event or learns that it was dropped; who stops is removed |
| `ChatSafety` | 2 users, 2 groups, 4 requests, 1 failure, one user leaves | exactly one row and announcement per client id; `Chat` implements `Conversation`; outsiders change nothing; only the request that stored a message can keep it unannounced; one live card; reactions add up; an answer is true |
| `ChatLostAnnouncement` | the same, nobody leaves | fails: see findings |
| `ChatOrphanReaction` | the same, no failures | fails: see findings |
| `GroupMembers` | owner and guest, 1 invite, 5 requests, 1 failure, fairness | the owner stays; joins need an invite that is not revoked; who is told that they joined is a member; requests finish |
| `GroupStalePin` | the same users, a pin against a leave | fails: see findings |
| `TimelineReading` | 4 messages, 2 timestamps, 2 devices, pages of 1 | pages neither repeat nor skip; the cursor never goes back; what is newer than all that was seen is unread |
| `PushDelivery` | a device registers twice or goes, one message or one share, 1 slot, 1 failure, 2 sockets, fairness | one worker for a device; no live row pruned; a message tries every device it is meant for; no lease without a socket; notifications end |
| `PushLostShare` | the same, no failures | fails: see findings |
| `MealSharing` | 2 users, 3 groups, a meal of 2 photos, 3 uploads, 3 requests, 1 failure, one user leaves | rows have their objects; objects without rows have an excuse; a card has its share and a finished share its cards; strangers neither share nor see |
| `RoomReading` | pages of 2, 3 messages at first, 6 in all or one less for each of 2 sends, 2 faults | once connected and caught up every message can be reached but for named cases; nothing is on screen twice or stored twice |
| `UnreadBadges` | a group with 2 messages, a group to be created, 2 fetches, 1 mark-read request, 1 other change | no answer takes from a badge a message that was counted and is not read |

**Why the bounds are enough to see something.** A buffer of 2 with 4 broadcasts
fills, drops its reader and goes on afterwards; the real 32 only makes that
longer. Two connections are the two kinds there are, and connections interact
through the mutex alone. In `ChatSafety` the four requests are given
alternatives, so that the same run holds two sends of one key racing in one
group, by two users, or in two groups; three shares of one meal with a deletion
between them; and a reaction given, taken back and cut off by a deletion. Three
is what it takes for a retry to meet a row whose first request broke off while a
third request deletes it. One failure can be anywhere. In `GroupMembers` two
joins, a revocation and a leave overlap. In `Timeline` four messages with two
timestamps have ties on both sides of a page of one and a row that commits
between two pages. In `PushDelivery` one slot makes two workers wait for each
other, a share of two groups lists the same device twice, and its second
registration falls between the two lists, or between the list and the removal
of an endpoint that died. `MaxFailures` of `Push` counts failed statements,
attempts to be repeated, endpoints that die and timeouts.

In `MealSharing` the first upload is the meal or one of three avatars that
replace each other, one of which is looked at while it is replaced or swept; a
failure is a failed statement, a failed call of the storage, a lost answer or a
restart, and one is enough for each excuse. Its constraint `Apart` explores the
requests about the meal and the traffic of avatars one after the other instead of
their product, which they allow since they share no row: requests come only when the meal is
created and no other upload has begun. Two shares that overlap in their groups
meet an unshare or a deletion, and the third group is one of strangers.

In `RoomReading` a page of two against three messages at the start and three
more is the smallest case in which a backfill's page does not reach what is on
screen, an earlier page is on its way and another drop queues a second backfill.
The constraint `Small` lets the room have six messages, five and a send, or four
and two sends.
Two faults close the socket twice or close it and fail a fetch; `MaxTries` of two
makes the room give up within them.

In `UnreadBadges` two fetches overtake each other around a mark-read request
and the messages heard meanwhile, before and after the user and the groups are
known. Groups touch each other only by a shared revision and by appearing in
answers, so the constraint `Quiet` leaves the second without messages: it is
there to be created, pinned and listed.

The only bounds in guards are named constants: `MaxBroadcasts`, `MaxFailures`,
`MaxClock`, `MayLeave`, `MaxMessages`, `MaxSends`, `MaxFaults`, `MaxRefreshes`,
`MaxReads`, `MaxChanges`. Deadlock is not
checked because each of these systems stops when its finite requests are done.

**Fairness.** `Hub!FairSpec` lets only the loop inside `Broadcast` go on: it waits
for nobody. The properties about a reader carry `ReaderFairness(s)` for that
reader as their premise, so that no phone other than its own is assumed to be
awake; its `Close` gets strong fairness because it competes with broadcasts for
a mutex, which Go hands to a waiter that has starved for a millisecond.
`Group!FairSpec` gives each request strong fairness because PostgreSQL queues
those who wait for a row lock. `Push!FairSpec` lets goroutines run and requests to
push services end, which the HTTP client's 10 seconds see to, and gives those
who wait for the semaphore strong fairness, since a Go channel serves its
senders in turn. The properties of the other modules need none.

## 4. Proofs

All theorems hold for any number of connections, users, groups, messages,
requests and failures, and any buffer and page size above zero. The assumptions are
the types of the constants, named in the modules that declare them.

* `HubProofs!HubCorrect`: type correctness, `NoPanic`, `NoSilentLoss` and
  `UnbrokenRun`. They are not inductive alone. `Lifecycle` says that a
  connection is registered from its creation to the closing of its channel (so
  that a channel that is offered to is open, and is closed once);
  `Owed` says who the current broadcast still has to serve, namely connections of its
  scope that were given nothing as late as its event; `Increasing` orders what is on a channel,
  so that "the event before" is well defined.
* `HubProofs!HubImplementsFeed`: the mapping takes `Init` to `Feed!Init` and
  every step to a step of `Feed` or a stutter; starting a broadcast,
  receiving, joining and leaving are visible. `UnbrokenRun` is what makes a received event the next.
* `ChatProofs!ChatCorrect`: type correctness, `ExactlyOnce`, `ToldOnce`,
  `PersistedBeforeBroadcast`, `OutsidersChangeNothing`, `UnannouncedOnlyIfCutOff`
  and `OneLiveCard`. The invariant `ChatInv` adds `Position` (what holds of a request at each `pc`),
  `Rows` (a row exists only from its own insert on), `Changes` (who is about to announce a deletion is
  the one request that made it), `Outsiders`
  (a request begun after its user left is still at its check or refused),
  `OneRowPerKey` and `OneRowPerCard` (the unique indexes) and `LogOnce`.
* `ChatProofs!ReactionsAddUp`, `ChatProofs!DoneIsTrue`
  (`ReactionLedger`, `DoneMeansLanded`): from `ChatInv` and `LedgerInv`. `Balance` is the ledger over a message's whole life but its
  deletion, since a deletion takes the rows of its snapshot away without an
  event; `Single` that a user has one reaction to a message, so that a removal
  takes one row; `Landed` and `Waits` that a row, and the reason for which a
  request inserted none, mean an earlier landing. Most steps are `Quiet`: they
  move nothing in the ledger. Three do: a reaction lands, is removed, is told.
* `ChatProofs!ChatImplementsConversation`: the mapping takes `Init` to
  `Conversation!Init` and every step to a step of `Conversation` or a stutter.
  One lemma per action says which: the `INSERT`, the commit of a deletion or of a
  reaction and the removal are effects; the statement that finds the row, or the
  tombstone, there is the meeting; checks, snapshots and reads stutter. `ChatInv`
  does not say what a request still knows of what it read some steps ago; `Readings` does: a
  message read live may be a tombstone by now, never the reverse, and who posted
  it stays. It is kept because rows and operations only go `Onward`.
* `GroupProofs!GroupCorrect`: type correctness, `OwnerBelongs`,
  `JoinedUnlessLeft`. `GroupProofs!GroupJoins`: `JoinsNeedLiveInvite`, from `HeldInvites`: the invite a join
  holds locked is not revoked until that join commits. `OneCreation` keeps the
  owner's row unique, `OneUncommitted` that two inserts of one member never
  both wait to be committed.
* `TimelineProofs!CursorNeverBack`, `TimelineProofs!NewsCounts`: from an
  invariant saying that only what was shown is marked, and that the cursor is at
  the position of something seen. `NothingSkipped` (`WalkIsWhole`) from `WalkInv`:
  a page is the `PageSize` newest rows older than its cursor, the row at each place being
  the one with that many newer ones. Positions are a strict total order, so
  ranks are an injection of the page's rows into its places, and by counting a
  surjection: every place has its row, pages descend, and a row that is in no page is
  older than the oldest one shown. What commits between two pages is not in
  `first`, which is why the property is about what was there at the start.
* `PushProofs`: `NoDeviceTwice`, `MessagesReachOut` and `LiveStay` from
  `SendInv`. `Settled` says that whatever is stored, listed or sent to was
  inserted by a request that is over, so that a row's keys do not change under
  a notifier; `OneRowEach` that the table holds one row for a device, which is
  why a message needs no `seenDevices`; `Flow` that a message's notifier returns
  after its workers, which is why its context ends early by timeout only.
  `ClosedIsUnfocused` is about leases alone: a reader about to renew holds its
  device. `PushTyped` from `SlotInv`: a worker that may still try has an attempt
  left, a message's subscription is looked at once, and the busy workers are
  finitely many and at most `Slots`.
* `MealProofs!RowsAreBacked`, `StraysHaveAnExcuse`: from `MediaInv`. `Flow`
  says which steps go with which wish, `Rows` that what is committed or pointed
  at was written by a request that is over, or that has failed in doubt,
  `Stored` that a request about to write has all its objects, `Locks` that at
  most one swap of a user holds the profile and has read the avatar that is
  there. So an avatar that was replaced is never pointed at again, and whoever replaced it is the
  only one to remove it. `Found` is about a picture between its two steps.
* `MealProofs` of `Meal`: the same two carried over (`MealRowsAreBacked`,
  `MealStraysHaveAnExcuse`: the requests of `Meal` leave pictures alone, and a
  restart of `Meal` is one of `Media`), and `MealsAreTyped`, `SharesAreWhole`,
  `StrangersStayOut` from `MealInv`, which says of each request `r` where it is
  (`Course`), that `before[r]` holds only requests that are done, so that a
  share or a revocation written from now on is by nobody of them (`History`), that the groups it looked up were its
  user's when it began (`Checked`), that each group of a share in its loop is
  still ahead or has its card and its share (`Loop`), and what a reader may
  find (`Seen`).
* `RoomProofs!NothingIsTwice`: `Shape` says that the list holds stored messages once each,
  and that one client id was made for each message that was meant, none of which
  is stored twice (`SendsOK`).
  `RoomProofs!WalkableHistory`: the property is about moments when all is calm, so
  the invariant has to say what holds while it is not. `Promised(m)` lists
  what can still bring a message that is neither shown nor on its way: the first page, when it is
  still to be read or was read after `m`; the subscription under way, which will note what it
  missed; a reconnect or a queued backfill; the backfill that is out, when `m` is newer than its
  snapshot and not newer than its page (`Filled`). `FillFits` ties that backfill
  to a list that has grown meanwhile: the last message of its snapshot, the anchor, is still on
  screen with nothing before it newer than the page, and the cursor leads below
  the page, so that bridging closes the gap and starting again keeps what came
  after the anchor. `EarlierFits` says that a page of the present epoch, asked for with the
  cursor that was set, ends where the cursor is; one of an earlier epoch is dropped, and one
  asked for with a cursor left on screen by an older render records what it leaves out.
  `RenderedOK` says that where nothing is shown, set or rendered, there is no cursor to ask
  with, so a backfill of an empty list meets none. Each action is shown to keep every gap promised or to record it in `excused`.
* `UnreadProofs!BadgesCover`: `Covers` says that the badge of each group, shown or
  pending, is at least what was counted and is not read, `FetchFits` and `ReadFits` what makes
  an answer on its way safe to believe: if the group has not changed since the
  newest fetch (or this mark-read request) started, which is what the revisions
  tell, the count in the answer, with what is pending, is at least that too. Only
  a blind answer is exempt, and what it erases leaves `counted`. The events queued while the user is unknown are recorded by induction
  over the queue: each keeps `Covers` for what is counted so far.

The shorter theorems (`HubTyped`, `NeverPanics`, `NothingToldTwice`, `GroupTyped` and
so on) name the conjuncts of those above.

Only model-checked: liveness (`BroadcastReturns`, `DeliveredOrDropped`,
`StoppedReaderIsRemoved`, `RequestsFinish`, `NotificationsEnd`), since fairness is
beyond the prover. Every invariant and action property of the passing runs is a
theorem.

The library's induction theorems take a predicate as an operator, which the
provers cannot instantiate. Where a proof goes along a sequence
(`Unread!RecordAll`, `Room!Fresh`), the model has a recursive function instead of
a fold, and the induction is done on a set of numbers: `Induction` in
`RoomProofs` and `UnreadProofs` derives it from the theorem that a
well-founded relation has minimal elements.

## 5. Findings

* **A reaction outlives its message** (`ChatOrphanReaction`). `addReaction`
  tests in its statement that the message is live, and `softDelete` removes the
  reactions in the statement that sets the tombstone. Each works on the snapshot
  its statement began with, so two that overlap miss each other.
* **An acknowledged message nobody is told of** (`ChatLostAnnouncement`). The
  request is cut off between its insert and its broadcast; its retry finds the
  row, announces nothing since it did not insert, and answers that it is sent.
  History has the message; sockets and push do not. `UnannouncedOnlyIfCutOff`
  shows that this is the only way.
* **A pin outlives its membership** (`GroupStalePin`). `Pin` checks membership
  and inserts by two statements; a leave between them clears no pin and the pin
  comes after. The member who rejoins finds it.

* **A shared meal's notifications are cancelled** (`PushLostShare`). The
  goroutine of `NotifyMealShare` defers `cancel` and, unlike that of
  `NotifyGroup`, does not wait for its workers: when it has started the last
  one, whatever is still in flight fails, retries included. With eight devices
  or fewer that is all of them unless they are faster than the loop.

Behaviours the models have and no run states:

* Push: two registrations with a key in common race between `Cleanup` and
  `Insert` to the violation of a unique constraint that the comment at
  `push/store.go:41` says is avoided, and a failure between the two loses the
  old row. The reader of an old socket clears the lease its device renewed by a
  new one, which is notified of what it shows until its next heartbeat.
* Chat (and `Conversation`): a message can be announced as it was before a deletion that was
  announced already (`Get` before another request's `DeleteCommit` and
  `AnnounceChange`, `Announce` after).
* Timeline: a message whose insert started before the one that was marked read
  and commits after it lies behind the cursor and is never counted.
* Media: a `COMMIT` that arrives and whose answer is lost is taken for a failure
  and the objects of a meal that exists are removed (`LoseAnswer`, `Sweep`),
  against "a meal without its photos must never appear" at `meal/meal.go:134`.
  `PicturesBackRows` excuses exactly these rows.
* Meal: `Update` writes back the fields it was not asked for as it found them:
  of two edits of different fields one may be lost. The comment at
  `httpapi/meal.go:132` promises of one request that an omitted field stays. A
  card that stops another's insert may be deleted before it is looked up, and
  the share ends with an error half-way, its row written.
* Room: "the order is the server's", says `chat-room.tsx:56`; a message the
  socket delivers while a fetch is out is put where it arrives. With 1, 2, 3 on
  screen, 5 heard, and the backfill's page 3, 4, 5, the list is 1, 2, 3, 5, 4; with
  4 heard before a first page of 4, 5, 6 it is 5, 6, 4.
* Room: the second of two queued backfills may take its snapshot before the page of the
  first is rendered, against "its own fresh snapshot" of the comment at
  `chat-room.tsx:463`; so may the backfill that a reconnect starts just after a page or
  an answer was set.
* Room: a restart bumps the epoch at once, and the cursor on screen is replaced with the
  next render. "Load earlier" pressed between the two asks with the old cursor under the
  new epoch, and its page is merged over the gap that the check at
  `chat-room.tsx:968` is there to prevent.
* Room: the answer to a send that arrives just before the first page, with no render
  between, is overwritten by it (`chat-room.tsx:348`) and shown again when the socket or
  a reload brings it.
* Unread: a message that the fetched counts include and whose event comes later
  is counted twice, until the next answer. One heard before the first answer, of
  a group not yet known, is dropped if a group was created meanwhile. Events are
  lost whenever the banner's socket is rebuilt (`notification-banner.tsx:115`). An
  answer whose counts failed at the server is believed and clears the badges.

`HistoryStaysWalkable` holds but for these, which `excused` records one by one:
what was said between the first page and the subscription of the first socket;
what was missing when a fetch failed; what lies below something newer that a
backfill's snapshot already held, such as the answer to a send made while the
socket was down; what a backfill with a stale snapshot left out; what was set
and overwritten by the first page before it was rendered; and what a page left out
that was asked for with a cursor older than the one that was set. The last three
take a callback in the moment between two renders. A first page that arrives after a backfill had begun is left out of the property: it
puts its cursor in the place of the backfill's.

## 6. Not modelled

* Image sanitising, routing and the form of answers, configuration, migrations,
  forms and pages, deployment scripts: no order of events or state of their own.
* Accounts and sessions: each operation is one statement on one row; an open
  socket does not look at its session again, which `ws_me.go` does not promise.
* Calendar days: a calculation on dates and time zones of the standard library.
* The service worker: it shows what the push service hands it.
* Of modelled parts: what a message says, replies and how a reaction or a
  deletion shows on screen (`Room`); the rail of pinned stickers, which is
  replaced in one transaction; the name and time zone of a profile; the lists of
  meals of a day; the encoding of cursors; who may open an upload (`Media`); the
  forwarding loop's own membership check, which is a step before the write, so
  that a leave between the two lets one more event through (the comment at
  `httpapi/chat.go:310` says "at once").

## 7. Plan

Done: the hub against its abstract feed, the chat's write side against its
abstract conversation, groups, the timeline, push, pictures, meals, the room and
the badges. Left, in this order:

1. `Delivery`: hub, membership and the check before each write in one module, in
   which at most one event is written after a leave.
2. What a message shows in `Room`: deletions and reactions against pages that
   were read before them; the order of the list under a server that broadcasts
   out of order.
3. The rail of pinned stickers against deletions from the library.
4. `Session` (expiry against open sockets) and `DayRange` (a pure function
   against its definition).

Theorems to come: those of `Delivery`, and of what the further items add.
