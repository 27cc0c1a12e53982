# A TLA+ model of the Flowinity (PrivateUploader) backend

This directory models the part of `src/app` that keeps state which several
requests share: group chats with their ranks and permissions, unread counters and messages,
friends, collections and their share links, uploads and their scans, the end of an account,
presence, notes, the rate limit and the workers themselves.  Where the web clients decide
what is kept (messages that are shown, notes that are saved), the client's half is part of
the model.  The modules are checked with TLC on small instances; the properties that matter
most are proved with TLAPS for every value of the constants.

## 1. The system

Flowinity is a Node program.  `cluster.ts` forks one worker per CPU and forks a
new one when one exits.  A worker runs Express (REST v3), a GraphQL server
(type-graphql resolvers in `controllers/graphql`) and Socket.IO; handlers call the
classes in `services/`.  State is in MariaDB (through Sequelize), in Redis (JSON
documents that are caches, and some that are the only copy) and in BullMQ queues.
**No handler opens a transaction**: a handler is a sequence of single statements,
and at every `await` any other request of any worker may run.  That is the atomicity
used throughout: one database or Redis statement per step, and adjacent reads that
no decision separates are one step.  Where a module is coarser than that, section 6 says
so.

| Component | State | Operations | What is hard | What makes it correct |
|---|---|---|---|---|
| Group chats: ranks, permissions, membership (`chat.service`, `chatRank`, `chatAssociation`, `chatInvite`, `chat` resolvers) | Chats, ChatAssociations, ChatRanks, ChatPermissionAssociations, ChatRankAssociations, ChatInvites; Redis `chatPermissions:u:a` | rank create/update/delete/order, toggle, invites, join, add, bots, remove, leave, transfer, delete, every permission check | cached permission sets, un-awaited regeneration and normalisation, half-done handlers, crashes | entries agree with the tables at rest; privileges only spread along the rules; the rank hierarchy is strict; the owner is a member |
| Messages (`sendMessage`, `editMessage`, `deleteMessage`, embed parser; `message.socket.ts`, `Chat.vue`, `chat.store.ts` of the v5 client) | Messages rows; three subscriptions per client; the list a client shows, its pending messages, postponed edits | send, edit, embed, delete, load, reconnect | three streams that overtake each other, loads that replace the list, mutations that are sent again | when nothing is on its way a client shows the rows there are; nothing stays pending; no message is shown twice |
| Unread counters (`sendMessageToUsers`, `readChat`, `removeUserFromChat`) | Redis `unread:u`, `lastRead` of the associations | count, read, join, leave | read-modify-write of one JSON document per user | no count is invented; a counter says what arrived since the reading; it agrees with the receipt |
| Friends and blocks (`userUtils.service friend()`, `blockedUser.resolver`) | Friends (two rows per friendship), BlockedUsers | request, accept, withdraw, remove, block, unblock | two-row state, check-then-create | friendship needs both sides; rows mirror each other |
| Uploads and auto-collection (`gallery.service`, `lib/utils postUpload`, `autoCollect.service`, `lib/queue`) | Uploads, Users.quota, CollectionItems, AutoCollectApprovals, Redis `autoCollects:u`, BullMQ jobs | upload, delete, scan job, approve, reject, add to and take from a collection | at-least-once jobs, deletion during a job, partial failure | the quota counts what is kept; a deleted file leaves nothing; the list tells the approvals; every scan ends |
| Collections (`collection.service`, `cache.service`, `collection.resolver`, v3 `collection.controller`) | Collections, CollectionUsers, Redis `collections:u` | create, add, update, remove, leave, accept, reject, transfer, delete, periodic rebuild | authorisation is decided from Redis lists only, entry-wise rewrites that throw half-way | a list gives only what the tables have given; at rest it says what the tables say; stale rights end |
| Share links (`updateCollection`, v3 `PATCH /share`, `cache.service`) | `Collection.shareLink`, Redis `shareLinks:l` | turn on, turn off, delete the collection or the account, hourly sweep | delete-all and write-all of a sweep against single changes | keys are exactly the live links once order is restored; dead ones die, live ones return |
| Accounts (`userUtils`, `auth`, `admin`, `deletion` services, `AuthChecker`) | Users.banned/scheduledForDeletion, what the account left elsewhere, Redis `user:u` and `deletionWarned` | ask for deletion, reactivate, ban, unban, nightly check, deletion with its bots | a list loaded before it is worked through, deletion without a transaction, a copy written without await | no account goes unannounced; a deletion that is begun is finished; the copy says what the row says |
| Presence (`server.ts`, `controllers/socket/user.socket.ts`, `app.ts`) | Redis `user:u:platforms`, Users.status, storedStatus | connect, disconnect, change the stored status, start of a worker | racing read-modify-writes, two mechanisms that write one column | between handlers that do not overlap: offline exactly when no device is listed |
| Notes (`note.service`, `WorkspaceItem.vue`) | Notes, NoteVersions, the text in each editor | change, save, restore, open | client throttle, overlapping saves | versions are at most five minutes old and half a minute apart; what is shown is stored |
| Rate limit (`lib/graphql/RateLimit`) | Redis counter with expiry | every limited field | get-then-increment | the limit is exceeded by a bounded amount |
| Workers (`cluster.ts`, `queue.ts`) | the processes and which is the main one | fork, exit, `TPU_RESTART` | ids that go on counting, restarts that overlap | as many workers as were forked, one main one |
| Statistics, weather, pulse, announcements, admin, mail, domains, OAuth/OIDC, media proxy, providers, slideshows, migrations, sessions | | | mostly single statements, pure I/O or third-party protocols | |

## 2. Plan

What everything else trusts came first: the permission system of a group (`ChatGroup`,
`ChatRankRequests`, `ChatMemberRequests`, `ChatPermissions`) and the friend list
(`Friendship`, `Friends`). Then every component whose state two requests contend for:
`ChatUnread`, `RateLimit`, `Collections`, `ShareLinks`, `Uploads`, `Accounts`,
`Presence`, `Notes`, `Cluster`, `Messages`. All of these are done.

What is left, in the order of its worth:

1. Sessions and their scopes (`auth.service`, `session:t` in Redis), which are mostly
   single statements; the one race they have, with a ban, is in `Accounts`.
2. Read receipts and the unread badge of a client as a further part of `Messages`.

## 3. Modules

| Module | What it is |
|---|---|
| `ChatGroup` | the tables and Redis entries of one group; `checkPermissions`, `getPermissions`, `syncPermissions`, `normalizeIndexes`; the record of a request in flight; `Init`, `TypeOK` |
| `ChatRankRequests` | `toggleUserRank`, `updateChatRank`, `addChatRank`, `updateChatRankOrder`, `deleteChatRank`, `createChatInvite`, `invalidateChatInvite` |
| `ChatMemberRequests` | `addChatUsers`, `joinChatFromInvite`, `addBotToChat`, removal and `leaveChat`, `transferGroupOwnership`, `deleteGroup`, and the bare check of every other operation |
| `ChatPermissions` | composes them: arrival, `Next`, `Spec`, `FairSpec`, the properties |
| `MCChatPermissions` | instances for TLC |
| `ChatRestProofs`, `ChatEntryProofs` | theorems about `ChatPermissions`: its types; the group at rest; what its Redis entries say |
| `Friendship` | the promise of a friend list |
| `Friends` | `friend()`, `removeFriend`, `blockUser` over the `Friends` and `BlockedUsers` tables; `KeepsPromise` is `Friendship` under a refinement mapping |
| `MCFriends`, `FriendsProofs` | instances and theorems |
| `ChatUnread`, `Messages` | the unread document of one user; the messages of one chat between the server and its clients |
| `MCTalk`, `ChatUnreadProofs`, `MessagesProofs` | their instances; theorems about `ChatUnread` and about `Messages`, the latter also of the three instances of `MCTalk` |
| `Collections`, `ShareLinks`, `Uploads` | lists that decide access; keys of share links; files, scans, approvals and quota of one user |
| `MCFiles`, `CollectionsProofs` | their instances; theorems about `Collections` and, as the instances `L` and `U` of `MCFiles`, `ShareLinks` and `Uploads` |
| `RateLimit`, `Accounts`, `Notes`, `Presence`, `Cluster` | one counter; the end of accounts; one note; one user's presence; the workers |
| `MCUsers`, `MCCluster`, `UsersProofs` | their instances; theorems about `RateLimit`, `Notes`, `Cluster` and `Presence`, the instances `R`, `N`, `C` and `P` of `MCUsers` |
| `MCLive`, `AccountsProofs` | instances of `Collections`, `Uploads`, `ShareLinks` and `Accounts` with their fairness; theorems about `Accounts` |

`MCTalk`, `MCFiles`, `MCUsers` and `MCLive` each hold several instances side by side. The
components in them share no table row, no Redis key and no queue entry, so that checking
them interleaved would only multiply their states: a variable `part` says which one moves,
the others stay at a start of their own.  A property speaks of the variables of its own
component and is only at stake while that part moves; the type invariants are conjunctions
over the parts, and `Settled` asks of each of the three instances of `Messages` the same.  Where components do share something, one module models both (uploads, scans and
approvals; the row of an account, its copy and its deletion).

A definition named "Slip..." in a comment is a plausible bug in the definition after it.
It is used by no specification; replacing the definition by it makes a property fail,
which shows that the property watches that line of code.

### 3.1 The group

State. `alive` and `owner` are the `Chats` row and its `userId`; `live` the
`ChatAssociations` rows; `ranks`, `index` and `grants` the `ChatRanks` rows with their
`index` and `ChatPermissionAssociations`; `rows[a][r]` the number of
`ChatRankAssociations` rows of the pair (nothing makes it unique, so it is a number);
`invites` the `ChatInvites` by `rankId`; `cache[a]` the Redis document
`chatPermissions:<user>:<association>`, with `NoEntry` for a missing key. Association
and rank ids are never reused; a request that will insert one reserves it when it
arrives (`born`, `drawn`).

A request is a record `job[j]`, its permission set `perms[j]` and its regenerations
`fill[j]`. Its life, for every handler:

1. `Call...`: it arrives with its arguments (`Admit`);
2. `CheckHit`, or `CheckRead` and `CheckWrite`: `checkPermissions`. A miss reads the
   tables in one step and writes Redis in another;
3. `...Read`: the handler's lookups and early returns. Adjacent lookups are one
   step. What it keeps of them (`snap`, `seen`, `highest`, `have`) is used later even
   if it is stale by then;
4. one step per write statement. A guard that throws in the loop of `updateChatRankOrder` ends
   the request with the earlier writes done, one that throws beside the others of
   a `Promise.all` (`updateChatRank`) with all of these done;
5. the tail nobody awaits: `fill[j][a]` goes `Owed` (must read), a set (read, not yet
   written), `NoFill`; `norm` goes `read`, `write`, `users` for `normalizeIndexes`.
   `Wanted` is a cached read nobody awaits: the permission check of the join and
   leave messages;
6. `Finish`, once the tail is over. `Crash` ends it anywhere.

Details that decide properties and are kept: `updateChatRank` compares with a set read before, grants what it may
and goes on to revoke only if it might grant everything; `ChatRank.update` sends no query when the
index it loaded already has the value; listings with equal indexes come in any order;
a row is destroyed by its id, so a second destroyer removes nothing; a rank that an
invite refers to cannot be deleted (foreign key); a member without an `unread:<user>`
document makes `removeUserFromChat` throw (`HasUnread`); the association identifier is
unique (`Seat`); `deleteGroup` removes members, then the chat.

What is abstracted: the permission table is cut to the rows some handler tells apart;
names, colours, descriptions, audit log and messages are left out; messages stand for
the permission check they make. One group is modelled: handlers of different groups
share no row and no Redis key.

History variables. `granted` collects what a request holding OWNER and ADMIN granted;
`owners` all users that have been `Chat.userId`; `excuses` the accidents this code makes
no attempt to repair. Each is recorded as narrowly as the code allows, and each property
names the ones it needs: TLC finds a counterexample to `CacheTellsTheTables` without any
one of `overlap`, `half`, `late`, `crash`, to `OwnerIsMember` without `overlap` or `ruin`,
to `HierarchyIsStrict` without `overlap` or `crash`, and to `RevocationArrives` without
`half`.

| Excuse | When | What stays wrong |
|---|---|---|
| `overlap` | a write of a request while another request that changes the group, or the un-awaited tail of one, is in flight, or a check is between its read and its write | a set read before the write reaches Redis after the regeneration |
| `half` | `updateChatRank` refused some of its grants or removals and made others | it regenerates only after both |
| `ruin` | `deleteGroup` threw half-way | entries stay right, but the owner's association may be gone |
| `late` | an entry existed or was being filled when a newcomer's rank row or a bot's grants were inserted | `addUsersToChat` does not regenerate; `sendMessage` fills in between |
| `crash` | a worker died with a request in flight | nobody redoes the tail |

The un-awaited tail counts as part of the request: if it did not,
`CacheTellsTheTables` would fail for two requests sent strictly one after the other,
each awaited by its client. So the property says what the code really promises, which
is less than what a client sees as sequential.

### 3.2 Friends

`rows[<<u, v>>][s]` counts the `Friends` rows with `userId` u, `friendId` v and status
s; there is no unique index, so a side can hold several rows. `blocks` are the
`BlockedUsers` rows with their ids. `FriendRead` is the lookup (any one row of the
caller's side) with the decision table of `friend()`; `FriendCreate`/`FriendMirror`,
`FriendAccept`/`FriendAgree` and `Unrow`/`Sever` are the pairs of statements that write
the two sides; `Friend.update` turns every row of the side into an accepted one,
whatever its status is by then (`Accepted`). `blockUser` shares `Unrow` and `Sever`.
`willing` is a history variable; `accidents` holds the pairs whose requests overlapped
or died half-way, and an undisturbed removal takes a pair out again. The 30-minute
notification key, notifications and socket messages are left out.

### 3.3 Unread counters

`doc` is the document `unread:<user>`: a count per chat, `Missing` for no key, `NaN` for
what `notifications[chat.id] += 1 || 1` makes of an absent key (stored as null, shown
as 0). `member` and `lastRead` are the user's associations. A message takes `Create`,
`Lookup` (is the recipient still a member, not muted), `Get`, `SendSet`; `readChat` takes
`ReadGet`, `ReadSet`, `Find`, `Mark`; a removal announces itself by a message and then takes
`DropGet`, `DropSet`, `Destroy`. Each pair of get and set is where another request's
change is lost. `blurred` collects the chats whose counter a write of an older document has
changed; a reading that nothing overlaps takes a chat out again. Not modelled: the hidden
flag, deleted messages, the removal of keys when a whole group is deleted; muting and
mentions are merged into whether the message counts (`to`).

### 3.4 Messages

`table` holds the rows, `out` the mutations of the clients, `wire[c][k]` what subscription
k of client c has still to deliver, in order within one subscription only. `list[c]` is what
the client shows, newest first, `late` its postponed edits, `load` its loads. The server's
handlers write the row, read it again, and tell the clients: messages member by
member (`Tell(id, c)`, in any order out of the set `todo`), edits and deletions to all at
once and not awaited. The client puts a
message in the place of the first pending one with the same text (`Place`), tries an edit of
an unknown message again up to `Tries` times, and replaces the whole list by a load (`Ask`,
`ReadTable` with the rows of `Page`, `Assign`): what an event did between the last two is
undone (`Misses`). An edit that waits again goes behind newer ones of the same message,
which are then undone when it is applied at last; such a message is among `over`. A broken connection (`Drop`) loses what is on its way and sends unanswered
operations again, so a message may be created twice. `over`, `mixed` and `cut` name the
messages and clients that met one of the races the code does not repair; the comments of
`ShowsTheTable` and `PendingEnds` say which. Not modelled: that opening one chat zeroes the
badges of all chats in the client's memory (`chat.store.ts` 194-201), pins, replies, typing,
search, pages beyond the first.

### 3.5 Collections and share links

`owner`, `row` and `orphan` are the Collections and CollectionUsers rows (a transfer makes a
row without recipient, `orphan`, or throws: the schema of `initial.sql` 209 wants a recipient,
and whether a default stands in for it depends on the mode of the database); `list[u]` the Redis list of a user, an entry per
collection. Every request that changes the tables ends with `resetCollectionCache`:
`Load` reads the collection once, `CutGet`/`CutSet` take the entry out of a removed
user's list, `VisitGet`/`VisitSet` rewrite the entry of each member and then of the owner. A
list that is not in Redis or a row without recipient throws and ends the reset. `findIndex`
of an absent collection gives -1, and `splice(-1, 1)` then cuts another entry (`Cut`).
`Generate` is `generateCollectionCache`, nightly and when a collection is deleted: the lists
are set one by one. (Its hourly timer calls the method unbound, so that what follows the
lists throws and is caught; the lists are set all the same.) `held` remembers what the
tables ever let a user do; `astray` the entries that a lost update, a reset that threw or
died, a rejected invitation or a wrong cut has left wrong.

`ShareLinks` has `Collection.shareLink` and the keys of Redis. GraphQL's `updateCollection`
loads the row, deletes the key of the old link, writes the row and then the new key. The v3
route asks the answer of a permission check for the link, which it does not have, so it
never deletes a key (`LoadV3`, `collection.controller.ts` 308; `collection.resolver.spec.ts`
249 expects it to be gone); the deletion of a collection or of an account leaves its keys
too. A sweep lists the keys, deletes them, reads the links and writes them.

### 3.6 Uploads

`charge[f]` is how often the size of a file is in `User.quota`. `Upload`, `Charge`,
`Enqueue` are the three writes of an upload; `Delete`, `Refund`, `DeleteItems`,
`DeleteApprovals`, `DeleteRow` those of a deletion, which finds the row first and so may run
twice at once. `addToCollection` finds the file (`Put`) and creates its item later
(`Create`); a deletion that runs in between leaves an item of a file that is gone, and
nothing ever takes it away (`raced` excepts the files that were found before or during their
deletion). A scan (`Start` to `End`) walks through the rules; anything that throws is
caught around all of them and ends it: a collection that is not the user's, an item that
exists already. A rule that asks makes an approval and adds it to the document
`autoCollects:<user>` (`ReadShown`, `WriteShown`); an answer takes it out (`PatchGet`,
`PatchSet`); a document made anew may hold an entry without id, which no later answer finds.
`MainDies` puts running scans back in the queue, at most once per scan (BullMQ's stalled
jobs). No key refers to the row of a file, so what a scan makes after the deletion
stays. Stars, text metadata and the files themselves are not modelled.

### 3.7 Accounts

Time is counted in ticks; `Hour` may be more than one tick, so that the truncation of
`dayjs().diff(.., "hours")` is seen. `QueueDelete` bans and dates an account and
`ForgetCopy` deletes its copy; `Reactivate`/`Revive` take it back; `UpdateBanned` is the
moderator. A check loads the banned accounts once (`Midnight`, `Start`) as a set of ids and
dates and visits them by ascending id, the order of the primary key (`Foremost`): `Skip`, `WarnOwner`, or `Condemn` and the statements of `deleteAccount`, grouped by
what can be left over (`DropGallery`, `DropRest`, `DropBot`, `DropApps`, `DropRow`,
`DropCopy`), which calls itself for the bots of the account. Uploads whose `deletable` is
false stay behind in the code and are not among the "uploads" here. `Throw` ends the whole check,
since nothing catches; `Crash` ends the worker. A request or a check is shorter than a tick.
`doc` is the copy in Redis that lets requests in, written without await (`ReadRow`,
`PutCopy`; for a banned user whose session is in Redis null is written, as good as no copy). `loose` holds the accounts with an accident the code does not repair: changed
while a check had them listed ("list"), unbanned by a moderator with the date kept ("date"),
a copy that nobody corrected ("copy"). Texts that promise more than this code keeps: the
warning mail's 48 hours (`emailNotification.service.ts` 99) may be less by truncation and by
the day between two checks; an account reactivated during a check is deleted; a reactivated
owner is refused until the copy goes. Sessions, login, TOTP and passkeys are not modelled.

### 3.8 Presence, notes, rate limit, workers

`Presence` follows the code that runs (`server.ts` 107-253, `user.socket.ts`, `app.ts`
457-478); `lib/socket.ts`, `socket-v3.ts` and `socket-v4.ts` are not reached by the program.
`Accept` to `WriteDevices` are `onConnect`, `Leave` to `StoreDevices` are `onDisconnect`,
`Join` to `Parted` the two handlers of a `/user` socket, `StartStatus` to `StartEnds` a
worker that starts. `socket.in(user.id)` looks in the namespace `/`, whose room nobody
enters: `Found` is empty, and a user who turns invisible stays shown as before. `unruly` is
set when handlers of connections overlap or did not run; a start with nobody connected
clears it. Sockets write the status and never the list, so they except nothing of what is
said of the list: `swayed` keeps whether one "came" or "went", and each excepts one of
the two statements about the status.

`Notes`: an editor sends its text at every change but not within half a second of the last
(`warm`), and nothing sends it later; the server reads the versions, checks the right,
keeps a version if the latest is old enough, and overwrites the note. Clocks are in ticks,
`Auto` five minutes and `Manual` half a minute.

`RateLimit`: the counter is read, then set or incremented, each write restoring the expiry.

`Cluster`: ids count on, and a worker takes itself for the main one when id % cpuCount is 1
(`queue.ts` 16). A worker that ends without exit code is not replaced; a restart
replaces the workers of its beginning (`todo`, by ascending id), also those that have been
replaced meanwhile.

## 4. Properties and runs

A property that speaks of moments at rest (no request in flight) names the accidents it
excepts, each as narrowly as the code allows; they are history variables of the module.
`CacheTellsTheTables`, `HierarchyIsStrict`, `OwnerIsMember`, `RowsMirror`, `BadgeIsRight`,
`KeysOfMembers`, `ListsTellTheTables`, `KeysTellTheLinks`, `ListTellsTheApprovals`,
`StoredIsShown` and most parts of `UploadsAreAccounted`, `Settled` and `PresenceAgrees` are
of this kind. The others hold in every state of every interleaving, and those run
with crashes also across them: `PrivilegeIsConserved`, `OwnerEntryIsEarned`,
`OneSeatPerUser`, `OneBlock`, `KeepsPromise`, `NothingInvented`, `AccessIsEarned`, `Bounded`,
`DeletionIsAnnounced`, `LeavesNothing`, `CopyTellsTheRow`, `VersionsAreSpaced`,
`WorkersAreRight`.

Several properties are conjunctions of named parts, each with its own comment: `BadgeIsRight`
(`CountIsRight`, `ReceiptCoversBadge`), `Settled` (`NoTwins`, `ShowsTheTable`,
`PendingEnds`), `UploadsAreAccounted` (`NeverOvercharged`, `ChargeIsExact`,
`GoneLeavesNothing`), `DeletionIsAnnounced` (`NotBeforeGrace`, `WarnedInTime`),
`VersionsAreSpaced` (`VersionsKeepUp`, `VersionsApart`), `PresenceAgrees`
(`PresenceIsRight`, `ListIsShort`), `WorkersAreRight` (`WorkersAreCounted`,
`OneMainBetweenRestarts`), `UploadsSettle` (`ScansEnd`, `ListSettles`), `LinksSettle`
(`DeadLinksDie`, `LiveLinksReturn`).

| Run | Instance | Shows |
|---|---|---|
| `chat_ranks` | 2 members and a third who is not, 3 ranks, 2 slots, 2 requests out of toggle, update, create, order, remove | any two rank mutations interleaved at every await, tails included: privileges are conserved, and entries and hierarchy are right unless they overlapped |
| `chat_members` | 3 users, 4 associations (two for the same user), an invite, 2 slots, 2 requests out of the nine membership operations | seats stay unique, the owner stays a member, entries agree with the tables |
| `chat_sequence` | 1 slot, 3 requests out of 14 operations, a member who can return with a new association | what a sequence of legal calls leaves behind, without any overlap; reorderings stay below the caller |
| `chat_crash` | 2 slots, 2 requests out of update, bot, transfer, 1 crash at any await | privileges and OWNER entries survive a dying worker |
| `chat_live` | 2 slots, 2 requests out of update, transfer, fairness | a revocation reaches Redis |
| `friends` | 2 users, 2 slots, 4 requests, 1 crash | the refinement, the mirror, one block |
| `friends_pairs` | 3 users, one closed to requests, 3 requests | pairs do not disturb each other |
| `talk` | 2 chats, 2 messages, 2 requests, 1 crash on one unread document; one message with 2 edits, a load and 2 clients; one message sent over a connection that breaks; two messages of one client | lost updates never invent a count; counters, keys and receipts agree with what was pushed; the clients show what the server has |
| `files` | 2 users, 2 collections, 2 requests out of ten kinds; the same with 1 collection, invitations and a crash; 1 file, 2 rules, 3 requests, 1 death; 2 links, 2 requests, a sweep, 1 death | rights in a list were earned; lists, documents and keys agree with the tables |
| `users` | 3 requests on a counter with Limit 3; an account with a moderator over 23 ticks; 3 saves and a change of a note; a list of 2 devices under 3 connections, or 2 and a socket, with a worker's start; 4 CPUs with 2 restarts and 2 deaths | each component's safety properties |
| `live` | smaller instances of four components; of the accounts an owner and his bot, 2 requests for deletion, two checks, a throw and a death | what must end ends; an account that is gone leaves nothing |
| `two_mains` | 2 CPUs, 1 death | a second main worker, against the comment in `queue.ts` |

Bounds of the chat and friends runs. `MaxRequests` and `MaxCrashes` bound arrivals and crashes; `Maps`, `Orders` and
`Checks` are the arguments enumerated. Two slots suffice for the races, which are
all between a reader and a writer of one entry, row or index; two requests in two slots
give every interleaving of two handlers with their tails, and three requests in
sequence reach a rank that is created, granted to somebody and then moved or deleted,
or a member that leaves and returns. Three ranks are the managed one, the administrators'
and one created later; `Maps` contains a harmless, a privileged and an empty map; `Orders`
contains a swap of the built-in ranks, the identity and a list with the created rank.
Four friend requests are what the stale acceptance needs: ask, read to accept,
withdraw, ask again from the other side. Each interesting case was confirmed to be
reached (a returning member, a bot with its grants, a finished deletion).
`CHECK_DEADLOCK FALSE` is set because the bounds make every behaviour stop.

Bounds of the others. Two requests at once, because every race is between the read of one
and the write of another; three where the count of racing readers matters (`RateLimit`) or
where a third call has to meet what two have left (uploads, notes). Two collections let a
wrong cut hit an unrelated one and a lost update be seen; one is enough for invitations and
deaths. The note of `users` keeps the ratio of the two pauses: `Manual` 0 and `Auto` 1 of 2
ticks. Accounts run with a day of 4 ticks of which an hour is two, so that the
truncation of hours, the 48 hours of the warning and the 14 days of grace
(16 ticks, shortened) are distinguishable; the instance of `live`, an owner and his bot under
two checks with a throw and a crash, shortens them further.
`PresenceAgrees` is checked with a device list of two (`Beside` = 1; the code has four), which
two connections fill and three overfill; the connections, being alike, are numbered in the
order in which they come, and either the third of them comes or a socket does (`Few`). Edits
are tried again twice instead of six times; the theorem is for any number. Slots are symmetric in the safety
runs, as are chats, users and collections where nothing orders them.

Fairness. `chat_live` asks `WF(Run(j))` for every slot. Node's event loop
continues each handler when its query is answered, and queries are answered or fail; a
handler that fails is at its end. Arrivals and crashes get no fairness. A slot whose
next step is always enabled until taken makes weak fairness enough.
`live` asks the same of the handlers of each component (`Step`, `Work`, `Finish`) and weak
fairness of the timers: the nightly generation of lists, the hourly sweep, the midnight
check, the start of a main worker after a death, the clock. node-cron and `setInterval` run
them on the main worker; that one exists is assumed here, and is what `WorkersAreRight` says
of a cluster without crashes and `two_mains` shows in excess. Fairness is asked of a part
only while it is the one that moves. Requests, deaths and throws get no fairness, and the
last two are bounded: a check that throws every night deletes nobody.

## 5. What is proved

All theorems hold for every value of the constants: every number of users, associations,
ranks, permission maps, collections, requests, checks, slots and crashes. The assumptions are
those that the modules name, and TLC evaluates each of them: `RankAssumption`,
`AssocAssumption`, `BoundAssumption` (`ChatGroup`, `ChatPermissions`), `UsersAssumption` and
`LimitAssumption` (`Friends`), `UnreadAssumption`, `LimiterAssumption`,
`CollectionsAssumption`, `AccountsAssumption` and `TalkAssumption` (`MessagesAssumption` of each
instance): the built-in ranks are two different ranks,
the founders have one association each, no bot has bots of its own, arguments have their
types; and of the times of `Accounts` that 48 hours are whole hours and no less than a day
and an hour, and the grace at least twice that; the rules of `Uploads` are a sequence of
records. The assumptions of `RateLimit`, `Collections`, `ShareLinks`, `Uploads`, `Accounts`,
`Notes`, `Presence`, `Cluster` and `Messages` are hypotheses of their theorems, because
`MCFiles`, `MCUsers`, `MCLive` and `MCTalk` take several instances of those modules.

* `TypeCorrect` (`ChatRestProofs`): `Spec => []TypeOK`. One lemma per action; `TypeOK` is
  inductive by itself because a request record keeps the types of what it has read.
* `PrivilegeConserved` (`ChatEntryProofs`). The property speaks of what circulates
  outside of free keys; the inductive invariant `Bounded` says it of each of the
  four places where permission sets live (ranks, entries, requests, regenerations).
  Most actions are `Tame`: they only take sets away, and one lemma shows that tame
  steps keep the bound. The others move a set from one place to another (checks and
  regenerations, where `Effective` is bounded by the ranks) or pass a grant check.
* `OwnerEntryEarned`. Not inductive alone: `Earned` adds that the current owner is
  among `owners`, and that a free slot holds no permissions (the next request in it may
  be somebody else's).
* `OneSeat` (`ChatRestProofs`). Every step but the insert only takes associations
  away, and the insert is guarded by the unique identifier. This is why the stale check
  in `addUsersToChat` and `joinChatFromInvite` does no harm.
* `OwnerStaysMember`, `HierarchyStaysStrict`, `OrderStopsBelow` (`ChatRestProofs`) and
  `EntriesTellTheTables` (`ChatEntryProofs`) hold of a group whose requests did not
  overlap, and say nothing of the moments in between. All four go the same way. The
  lemma behind them (`Frame`) is that a step that writes what the others rely on
  is the step of a request that is alone, or leaves "overlap" among the excuses. So an
  invariant need only say, for each point of each operation, what the one request in
  flight knows and what it still has to do; at rest nobody has anything left to do.
  `Shapes` keeps the points of an operation apart from those of the others.
  * `OwnerSeated`: whoever is about to be removed is not the owner, whoever is about
    to become the owner is a member (`Spares`), and the owner is missing only while
    `deleteGroup` takes the associations away.
  * `Ranked`: indexes tie only while somebody will still normalise them (`Disturbs`).
    During `normalizeIndexes` what is placed already lies below `pos`, each at a place of
    its own, the managed rank first (`Sorted`).
  * `Reordered`, for the action property: until the renumbering no rank at or above the
    caller's highest has moved and none has come to it (`Moved`); during it, what is
    below another has its place earlier in the queue (`Placing`); after it the order
    is kept (`Placed`).
  * `Told`: an entry is right or some request owes its regeneration (`Owes`), and what a
    request has read for an entry is not stale (`Fresh`). `Untouched` says that
    nothing anywhere speaks of an association or a rank before its insert, so
    that a newcomer's entry starts out missing. `transferGroupOwnership` regenerates only
    two entries, which suffices because of `OneSeatPerUser`.
* `FriendsTypeCorrect`, `FriendsKeepPromise` (`FriendsProofs`): `Friends` implements
  `Friendship`. The invariant `Consent` says what each kind of row proves about who
  asked, and that a request about to write a row is entitled to it although its lookup
  may be stale: `willing` only grows. `Simulation` maps each step to a step of
  `Friendship` or a stutter.
* `BlockedOnce` (`FriendsProofs`). No index makes the row unique; the invariant
  `BlockOnce` says that a block request which found no block still finds none when it
  writes (`Vacant`), unless another one of the same user against the same user was
  in flight, and then the pair is among `doubled` (`Apart`).
* `SidesMirror` (`FriendsProofs`). Two writes make or break a friendship and no
  transaction joins them. The invariant `Mirrored` says that requests of one pair know of
  each other (`Rivalry`), that a request which overlapped none finds the rows as its own
  earlier writes left them (`Tale`), and that a pair is uneven only while such a request
  is between its two writes (`Even`).
* `LimitHolds` (`UsersProofs`): at most the sum of Limit + k for k up to the number of
  concurrent requests pass while the counter lives. The invariant `Account` balances the
  counter against the requests that can still raise it or throw it away.
* `NothingIsInvented`, `UnreadTypeCorrect` (`ChatUnreadProofs`): whatever old copy of the
  document is written back, no chat shows more than was pushed. The invariant `Covered`
  charges the document and every copy of it, together with the messages that are still to
  be counted on top of that copy, against what was pushed.
* `KeysAreOfMembers`, `BadgeStaysRight` (`ChatUnreadProofs`). Chat by chat, as long as no
  other request's write has undone its counter, the invariant `BadgeInv` balances the key
  and the requests that have still to count against what is due (`Account`); a removal has
  the chat to itself (`Solo`), so that the key it has dropped stays dropped (`Fit`); and
  where nothing is due the receipt has been moved far enough or is about to be
  (`Receipt`).
* `AccessEarned` (`CollectionsProofs`): a list never gives a user a right that the tables
  have not once given him. A right can reach a list from three places: the tables of the
  moment, the rows that a reset has read, and a copy of the list made earlier. `IInv` says
  of each that it gives nothing that was not once held, and what was held is never taken
  back, so that a stale write does harm only by giving back what was taken away (which is
  what `StaleAccessEnds` is about).
* `DeletionIsWhole` (`AccountsProofs`): `LeavesNothing` for any number of checks at once.
  The invariant says of every deletion on the stack of a check what is gone at its stage;
  since the tables only shrink, no other check can undo it, and a deletion that threw or
  died in the middle loses nothing that is already gone. A bot's account goes before the
  application that names it.
* `ListsAreTold` (`CollectionsProofs`): `ListsTellTheTables`. Whatever differs between a
  list and the tables is somebody's debt. The invariant `Told` says of every entry that it
  fits, or is astray, or that some request is still going to write it or to give it up
  (`Owes`, which follows a request from the change of the tables through the load, the cut
  and the visits); `Placed` says whose list a request is about to write. A write of an old
  copy of a list puts astray what it loses, so that only its own entry is left to
  reason about.
* `KeysFollowLinks` (`CollectionsProofs`, instance `L`): `KeysTellTheLinks`. As long as
  requests and sweeps came one at a time (`Tidy`), the invariant says by how much the keys
  differ from the links of the rows at each point of the one that is under way
  (`RequestFits`, `SweepFits`). It rests on two collections never having the same link, and on
  links being drawn anew (`LinksAreGiven`).
* `CopyIsTold` (`AccountsProofs`): `CopyTellsTheRow`. The property is inductive together with
  the types: whoever changes what the row says either owes the removal of the copy
  (`ask` is "forget") or is excepted, and so is a copy made of an older reading.
* `DeletionsAreAnnounced` (`AccountsProofs`): `DeletionIsAnnounced`, the longest argument,
  since the property relates the moments of three events that are days apart. The invariant
  `NoticeInv` has three parts. `Dated`: rows and lists agree on when an account goes, and
  that is the grace after its owner asked. `OneCheck`: while nothing is missed and nothing
  fails, one check runs at a time, at midnight. `InTime`: let t be the midnight at which an
  account was last looked at (the day before, while it is still in the list of the check
  that runs); then `Warned` says that at t it was not due, and either less than 48 hours
  away and its owner warned since he asked, or further away and no warning in force that
  would outlast the next midnights. A new request makes `Warned` true because the grace
  is longer than twice the 48 hours; each midnight then makes it true again of the next t; and
  what is due a day after t was warned at t at the latest. `dayjs` counts whole
  hours towards zero; `HoursLeft` says what its two comparisons mean in ticks.
* `VersionsKeepTheirPace`, `EditorsAgree` (`UsersProofs`, instance `N`): `VersionsAreSpaced`,
  `StoredIsShown`. What a save has read of the versions still holds when it decides
  (`Informed`), because the only saves that could change it are those in flight with it,
  and they are among `twins` (`OnlyOneDecides`); an editor that is not behind has sent
  the only save in flight, and that save carries what it shows (`Ahead`).
* `WorkersAreKept` (`UsersProofs`, instance `C`): `WorkersAreRight`. The count is kept by every
  step. That one worker is the main one holds because the ids are a row of as many
  consecutive numbers as there are CPUs (`Row`), which a restart moves on by one at each
  replacement (`OlderOnes`): of such numbers exactly one leaves the remainder 1.

* `UploadsAccounted` (`CollectionsProofs`, instance `U`): `UploadsAreAccounted`. Three
  balances, kept by every step (`UploadInv`). `Undercharged`, of every file: the charge leaves
  room for what is still to be charged, and a file that is gone or refunded has none. `AllExact`,
  while nothing has died and of a file that is not `raced`: the charge is what the one
  request that is about it has left of it. `InOrder`, of such a file: one upload or deletion at a
  time is about it; while it is deleted its scan is over and nothing that could still
  make an item or an approval of it is under way (`Acts`: an answer, or an item that is found and
  not yet created); and what a deletion has cleared stays clear.
* `ListTells` (`CollectionsProofs`, instance `U`): `ListTellsTheApprovals`. As for the lists
  of collections, a difference between the document and the table is somebody's debt
  (`ListFits`): a scan that has made an approval and not yet written it (`Asked`), an answer
  that has destroyed one and not yet patched the document (`Patches`). `AllGiven`, `Sound` and
  `Passed` say that ids are made once, by the run of a scan that has not passed them.
* `PresenceIsKept` (`UsersProofs`, instance `P`): `PresenceAgrees`. While handlers run one
  after the other, the invariant says at each point of the one that is under way what it
  has read of the list and what list and status still have to become (`Knows`). That the
  list is short and names no device twice holds however they interleave: every list and every
  copy of one is of that kind and names only connections that have written themselves
  (`Fits`, `Inscribed`), which each does once. What sockets may have done to the status is
  kept beside it, and touches no other part.
* `MessagesSettle`, `MessagesTypeCorrect` (`MessagesProofs`): `Settled` and `TypeOK` for any
  clients, texts, messages, edits, loads, tries and lost connections. The invariant
  `MessageInv` speaks of one client and one message at a time. `Pair` says what the client
  shows of the message: what the row says, unless an event that is on its way, waits or is
  still to be published, or a load that has not been assigned, will make it so, or the message
  is excepted (`over`, `cut`). `Once` says that a message is told to a client at most once,
  which is why no twin is shown; `Debts`, that every pending message has a mutation or an event
  that will end it unless the client is `mixed` or `cut`. Sequences are spoken of by what is
  in them (`In`), whether an edit of the message is among them (`Waits`) and what the last of
  these says (`LastSays`), so that a queue can be taken from and added to without looking
  at the rest. `Tallied` adds the types of what the argument does not need.
* `TalkSettles`, `TalkTypes` (`ChatUnreadProofs`): the same of `MCTalk`, whose three instances
  of `Messages` are those of `MessagesProofs` with other constants; one lemma for each says
  that it starts, moves and settles like its twin.

Where a proof needs a least or a greatest number (the latest version, the first bot, the
oldest worker), it comes from the well-foundedness of the natural numbers, which needs no
induction over a predicate. The same goes for the two recursive functions, the filter of
`Without` and the rows of `Page`: what they contain is shown by the least number at which it
would fail.

Only model-checked: the type invariants `FilesTypeOK` and `UsersTypeOK` (the proofs carry the
types they need in their own invariants), and all liveness (fairness and ENABLED are out of
TLAPS's reach). The properties of `MCFiles`, `MCUsers` and `MCLive` are those of the
components, and so are the theorems. No module contains a recursive operator.

Many hazards in section 1 are races that the code loses. There the properties do not say that
the race does no harm: the history variables except what it touches (`overlap`, `blurred`,
`astray`, `raced`, `untidy`, `accidents`, `loose`, `unruly`, `over`, `behind`), and what is checked
and proved is that nothing else goes wrong, that the harm stays within bounds
(`PrivilegeIsConserved`, `NothingInvented`, `AccessIsEarned`, `NeverOvercharged`, `KeepsPromise`,
`NoTwins`, `ListIsShort`), and, where there is a timer, that it ends (`live`).

## 6. Not modelled

Components without a module are listed in section 1 and in `PROJECT.json` with the
reason. About nine tenths of the repository's lines are of this kind: the two web frontends,
generated GraphQL code, queries that only read, settings of one row and the glue of
third-party protocols. A model of those would restate single statements. Within the modelled components: message contents, audit logs, notifications,
group settings (name, icon, background), emoji, ranks' names and colours; the failure of
a single database or Redis statement other than those named above; Redis keys that
expire or are lost; two groups at once; accounts that are deleted while they are members
or friends. What each further module leaves out is said at the end of its part of section 3.

Where a step is coarser or wider than the code, no property changes by it:

* One step for a lookup and the write that follows it by the key it found: `Add`, `Remove`,
  `Accept` and `Reject` of `Collections`. If the row went in between, the write hits nothing,
  and the reset that follows reads the tables anew; the unique key refuses a second row.
  Likewise the reading and the writing of the warning key (`WarnOwner`): two checks at once
  would at worst warn twice. And the permission rows of a bot (`BotGrants`): an entry that is
  made between them lacks some, as one that is made before does, which `late` excepts.
* `updateChatRank` sends its grants together (`Promise.all`), and then its removals;
  `UpdateAdd` and `UpdateRemove` are one step each. What reads between two of them overlaps.
* `toggleUserRank` looks the group and the member up before its permission check and the rank
  after it; `ToggleRead` does all of it after.
* Wider than the code: a removal of any kind may throw at the unread document (`Unread`), while a
  kicked member's own leave message may have made one; the check of a group whose row is gone
  writes an entry (`CheckRead`), where the code throws; `Restore` of `Notes` asks for no right.
