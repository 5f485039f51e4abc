# Verification of the blog platform API

TLA+ models of the NestJS blogging platform under `src/`, the TLC configurations that check
them, and TLAPS proofs of the safety properties. The paths below are relative to
`src/src/` unless they start with `prisma/`.

## 1. The system

The program is an HTTP API over one PostgreSQL database, reached through Prisma. Apart from
the tokens its clients hold and the mails it has sent, all state between requests is in the
database (the throttler is commented out in `app.module.ts`). Users register, confirm an e-mail address, log in from several devices,
write blogs, posts and comments and react to them; bloggers ban users from their blogs; a
super-admin bans users and blogs and deletes users.

| Component | State | Operations |
|---|---|---|
| Sessions and tokens (`auth`, `security-devices`, passport strategies) | `DeviceSessions`, `BanInfo`, JWT pairs | login, refresh, logout, list and end sessions, ban/unban/delete user |
| Accounts (`auth/use-cases`, `users`) | `User`, `EmailConfirmation`, `PasswordRecovery`, mails | register, create by super-admin, confirm, resend, recover, new password, delete |
| Blogs, posts and comments | `Blog`, `Post`, `Comment` | create, update, delete, with ownership checks |
| Moderation | `BannedUsers`, `BannedBlogs`, `BanInfo` | blogger's ban/unban of a user in a blog, super-admin's ban of a blog or user |
| Reactions | `PostLikeStatus`, `CommentLikeStatus` | set like-status, view counts, newest likes and own status |
| Lists and pagination (`*.query.sql.repository.ts`, `helpers/filter`, `helpers/pagination`) | none of their own | a look-up, then `findMany`, the reactions of each row and `count`, each a query of its own |
| Bind blog with user | none (the binding is commented out) | validation only |
| HTTP layer | none | pipes, DTO validation, guards, exception filter |
| Testing endpoint | all tables | empties the tables for the e2e tests |
| Mongo layer | Mongo collections | former version; still wired, not reached by a route |

**How they interact.** Everything goes through the tables. A guard reads a session or a user,
and the handler then acts on what it read; deletions cascade by foreign keys
(`prisma/schema.prisma`); a ban is a flag that other handlers read at various moments; mails
carry codes that come back as requests.

**What is hard.** No handler uses `$transaction`, and every handler is a chain of awaited Prisma
calls: it reads in one call, checks in JavaScript, and writes in a later one. Between any two awaits
the event loop runs other requests, so a check may be stale when the write comes; the process may
die between two writes; a foreign key or a unique index may be the only thing that stops a write; a
mail is once sent without `await`, so that its rejection ends the process. `iat` is whole seconds,
and a second may begin between the signatures of two tokens. Codes and tokens expire. A page is an
offset into a list that changes between two pages, and between a page and its total. The list with
lines is in `PROJECT.json` under `hazards`.

**What makes each component correct.**
- *Sessions*: a session belongs to an existing user; no token ever opens another user's
  session; a session ends only by right and, once ended, never comes back; a client is not locked
  out of its session, unless the process dies or two answers for its device cross (the refresh
  token is a cookie that the later response overwrites, `auth/api/auth.controller.ts:97` and `:130`,
  while the row keeps what was stored last); a banned user is out; a refreshed token is dead.
- *Accounts*: unique login and e-mail; a code is mailed to the address it works for only; an
  account is confirmed, and a password changed, only with a code mailed to its address; codes
  are spent once.
- *Blogs, posts, comments, moderation*: no row refers to a missing row; content is written,
  removed and moderated by its owner only; bans are respected.
- *Reactions*: what a user was last answered for is in the one row he has; a user counts once; the
  view is exact (the last two while his own requests do not overlap).
- *Sessions and content together*: whoever was banned writes nothing more; the content handlers
  see only users a guard let in.
- *Lists*: a client that walks a list to its last page misses no row that was there all along and
  reads none twice; the lists agree on what is hidden.

## 2. Modelling conventions

- **One action per awaited Prisma call.** A single Prisma call is atomic (Prisma runs it, with
  its nested writes, in one database transaction: an assumption about a library). What runs
  between two awaits without another await belongs to the action before or after it.
  `req[r]` is a request slot: its `pc` names the call it makes next and the other fields are
  the handler's locals that are still live. The number of slots bounds the concurrency.
- **Refusals.** A request refused before it wrote anything (401, 403, 404, 400) changes nothing
  and either does not start (its first find is the guard of the action) or goes back to `Idle`.
- **Database errors.** An insert whose foreign or unique key fails, and an update or delete of a
  missing row, is an action of its own that ends the request.
- **UUIDs** are drawn from a finite set and never drawn twice (`created`, `gone`, `drawn`). The
  sets are bounds: when they run out, no request that needs one can proceed, which is why the
  configurations do not check deadlock. Bounded clocks (`MaxTime`) stop in the same way, and
  the last users and accounts may be deleted.
- **History variables** record what the properties need; no action's guard reads them: `used`,
  `superseded` and the field `password` in `Accounts`, `asked` and `raced` in `Reactions`,
  `overtaken` and the fields `by` in `Moderation`, `slipped`, `late`, `raced` and `crossed` in
  `Platform`, `due` and `read` in `Paging`. (`held` in `Sessions` is no history but what clients
  have: the cookie and the access token of the last response.)
- **Crashes.** `Abort` drops one request between two awaits; it stands for the process dying (a
  death of the whole process is several `Abort`s), the response getting lost included. Only
  the tables and what clients hold survive, and a restart needs no action: the program has no
  start-up step that touches them.

## 3. Modules

### `SessionLifecycle`, `Sessions`, `MCSessions`, `SessionsProofs`
`SessionLifecycle` is the abstract promise of the session table: an id is opened at most once,
for one user; the owner never changes; a step closes sessions of one user; an ended id is never
reopened. `Sessions` is the code, and its definition `Lifecycle` the refinement mapping: `live`
is the owner of each open session, `spent` the ids drawn that are neither open nor held by a
login that has still to insert its session.

| Model | Code |
|---|---|
| `LoginFind`, `LoginSign`, `CreateSession(Fails)`, `Respond` | `auth/use-cases/login-user-use-case.ts`, `auth/auth.service.ts` `getTokens` |
| `RefreshAccepted`, `AccessAccepted` | `auth/strategies/jwt.rt.strategy.ts`, `jwt.at.strategy.ts` |
| `RefreshGuard`, `RefreshSign`, `RefreshUpdate(Fails)` | `auth/auth.service.ts` `refreshTokin`, `security-devices/repositories/security.devices.sql.repository.ts` |
| `LogoutGuard`, `Logout` | `auth/use-cases/logout-user-use-case.ts` |
| `DeleteOthersGuard`, `DeleteOthers`, `DeleteSessionGuard`, `DeleteFind`, `DeleteSession` | `security-devices/` |
| `BanFind`, `BanUpdate`, `BanSessions`, `UnbanUpdate`, `DeleteUser` | `users/use-cases/` of the super-admin, cascades of `prisma/schema.prisma` |

`tokens` are the pairs that ever reached a client, any of which may be presented again; `held` is
the pair a client keeps for a device, which every response overwrites (`Respond`). What is stored
and what is held may differ, as the store and the response are two steps. What an access token lets
its bearer do is in `Platform`.

### `AccountLifecycle`, `Accounts`, `MCAccounts`, `AccountsProofs`
`AccountLifecycle` is the abstract promise of the account tables: every write is as right at the
moment it is made as if its request had read everything just then. An account joins with a login
and an e-mail nobody has; a code is drawn once, and dead once replaced, cleared or deleted; a mail
carries no code that works for another address; an account is confirmed only after a mail to its
address, and stays so; its password is replaced only with a code mailed to it. `Accounts` is the
code, where what allows a write was read one or more awaits before, and `WritesAreRight` says that
it implements the promise. The refinement mapping forgets the requests, the clock and the expiry of
codes: `Member` is an account without its codes, and `Works` the set of codes that work, each with
its account and its use.

`account` joins the rows of `User`, `EmailConfirmation` and `PasswordRecovery`, which are
inserted and deleted together. `password` is the recovery code the password was set with; the
password's value and hash are left out. A client presents mailed codes only. Two assumptions:
the id drawn at random is new, and one account's login is not another's e-mail (the code allows
it and `findFirst` by either may then pick the wrong one; see hazards).

| Model | Code |
|---|---|
| `FindByLogin` … `CreateUserFails`, `GetCode`, `SendMail`, `FloatingMailFails` | `auth/use-cases/register-user-use-case.ts`, the super-admin's creation of users |
| `ConfirmFind`, `ConfirmUpdate` | `auth/use-cases/confirm-emal-use-case.ts` |
| `ResendFind` … `ResendUpdateFails` | `auth/use-cases/registration-email-resending-use-case.ts` |
| `RecoveryFind` … `RecoveryUpdateFails` | `auth/use-cases/user-password-recovery-use-case.ts` |
| `NewPasswordFind` … `ClearRecovery` | `auth/use-cases/new-password-use-case.ts` |

### `Moderation`, `MCModeration`, `ModerationProofs`
Blogs, posts, comments and the three kinds of ban. Row contents are abstracted to `by`, who
wrote them last, which is what the ownership properties need. The guard that finds the actor and
the first find of the handler are one action, as a deletion of the actor in between removes
whatever that find could return. `overtaken` holds the requests whose check (blog not banned, user
not banned from the blog) was true when they made it and was made false by a ban before they
insert.

| Model | Code |
|---|---|
| `CreateBlog…`, `OwnBlogFind`, `UpdateBlog`, `DeleteBlog` | `blogs/use-cases/` |
| `BanBlogFind`, `BanBlogUpdate` | the super-admin's ban of a blog |
| `CreatePost…`, `PostBlogFind`, `PostFind`, `UpdatePost`, `DeletePost` | `posts/use-cases/` |
| `CommentPostFind` … `CreateComment`, `OwnCommentFind`, `UpdateComment`, `DeleteComment` | `comments/use-cases/` |
| `BloggerBan…`, `InsertBan`, `DeleteBan` | `users/use-cases/ban-unban-user-blogger-use-case.ts` |
| `Keep` | `onDelete: Cascade` in `prisma/schema.prisma` |

### `Reactions`, `MCReactions`, `ReactionsProofs`
The two like-status handlers and the view of one post or comment, each of whose queries is an
action. A like-status handler looks for the user's row, inserts or updates one, and is answered, in
three steps (`ReactionFind`, `CreateReaction` or `UpdateReaction`, `Answer`), so that requests that
overlap may be answered in another order than they wrote in. `asked` is what each user was last
*answered* for; `raced` remembers for whom two requests were between look-up and answer at once.
Everything is in one blog; the bans and deletions of the other components are single steps here, at
any moment a slot is free.

| Model | Code |
|---|---|
| `ReactFind` … `UpdateReaction`, `Answer` | `posts/use-cases/update-reaction-to-post-use-case.ts`, `comments/use-cases/update-reaction-to-comment-use-case.ts`, their routes |
| `ViewFind` … `Respond` | `addReactionsInfoToPost` and `addReactionsInfoToComment` of the query repositories |
| `Counted`, `Visible` | `helpers/filter/` |

### `Platform`, `MCPlatform`, `PlatformProofs`
`Sessions` and `Moderation` composed over the same users and request slots. A slot holds a request
of one half or of the other. A request that writes content starts when `JwtAtStrategy` accepts a
token that `Sessions` gave to a client, and acts as that token's user; the super-admin's routes
start behind the basic guard. The ban of a user is the one action of `Sessions` that both halves
see, and so is his deletion with all its cascades.

`slipped` holds the devices of logins that were past the ban check when a ban of their user was
completed (finding 1); `late` the writes under way at that moment, and those let in by such a
login; `raced` the devices two refreshes held at once; `crossed` those for which two
requests that will answer with a pair were under way at once, up to the response.

| Model | Code |
|---|---|
| `SessionStep` | the routes of `auth` and `security-devices`, the super-admin's ban |
| `WriteGuard` | `auth/strategies/jwt.at.strategy.ts` in front of the routes of bloggers, posts, comments |
| `AdminGuard` | `common/guards/basic.auth.guard.ts` |
| `DeleteUserRow` | `DELETE sa/users/:id`, cascades of `prisma/schema.prisma` |

### `Paging`, `MCPaging`, `PagingProofs`
The abstract promise of a paged list: a walk reads page after page of whatever rows are shown,
each with a key, while between any two queries rows come, go and change their keys in any way.
`WalkSpec` is the walk alone and what `Lists` implements; `Spec` adds the history the promise is
stated with. A page is what `skip`, `take` and `orderBy` return for *some* order of the rows with
equal keys (`IsPage`), chosen anew for every query.

`due` holds the rows shown ever since the walk began, with a key of their own whenever a page was
read, that were not read so far; `read` those read under a key of their own. When a row leaves (is
deleted, hidden, or gets another key), those behind it move up and may be skipped by the nature of
offset paging: `due` is emptied and nothing is promised any more. When one comes, a row may be read
twice, and `read` is emptied.

### `Lists`, `MCLists`, `ListsProofs`
The tables with what the filters and the sort keys look at: owners, flags, bans, names and titles.
One client walks one list, page by page; its request is `walk`, and every write of the other
handlers is the one call that changes the tables (`Write`), before which those handlers may have
waited as long as they like. One walker suffices, as reading changes nothing another could see.
Rows are numbered in the order of `createdAt`, the default sort key, which a handler sets before
its insert, so that rows may appear out of that order. A search term matches the rows of one name
(`contains` on wider terms matches several; what a list does with the match is the same). The users'
list takes two terms, for login and e-mail, and shows who matches either
(`helpers/filter/user.query.filter.ts:14-42`); `UserFilter` has one term. Lists
are sorted in both directions by `createdAt`, by a name or title, which an update may change and
rows may share, and posts also by the name of their blog. The texts of comments as sort key behave
like a title, and logins and e-mails, which are unique and never change, like `createdAt`.

`Walks` says that every list is a walk of `Paging`: its look-up, page and total go by one filter
and one order, and pages follow each other. With it, the theorems of `Paging` speak of each of the
nine lists.

| Model | Code |
|---|---|
| `BlogFilter`, `PostFilter`, `CommentFilter`, `BloggerCommentFilter`, `UserFilter` | `helpers/filter/` |
| `FindBlogs` … `BannedUsersForBlog` | the methods of that name in the query repositories |
| `Check`, `Allowed`, `FindBlog`, `FindPost` | what the controllers look up before a list |
| `SortBy`, `SortKey`, `Keys` | `helpers/sorting/post-sorting.ts`, `orderBy`, `checkSortBy` |
| `ReadPage`, `Ordered`, `PageOf` | `findMany` with `skip`, `take` and `orderBy` |
| `CountRows`, `PagesCount` | `count`, `helpers/pagination/pagination.view.model.wrapper.ts` |
| `Register` … `Delete`, `Keep` | the repositories' inserts, updates and deletes, cascades |

## 4. Runs

Symmetry is used where the modules' sets are interchangeable, and never where liveness is
checked. "Slots" is how many requests
may be in flight at once.

| Run | Bounds | Shows |
|---|---|---|
| `sessions_concurrent` | 2 users, 2 devices, 2 slots, access/refresh life 1/2 s, clock to 1, crashes | The session invariants and `SessionLifecycle` hold under every interleaving. |
| `sessions_live` | 1 user, 2 devices, 2 slots, clock to 1, no crash, fairness | A session some request is about to end does end. |
| `sessions_ban_race` | 1 user, 1 device, 2 slots | *Violated*: a login overlapping a ban leaves a working session. |
| `platform` | 1 user, 2 devices, 1 blog, 2 slots, access/refresh life 1/2 s, clock to 1, no crash | Bans end sessions and writing, rotation, no lockout, and `Moderates`, under every interleaving. |
| `accounts_concurrent` | 2 ids, logins, e-mails, 4 codes, 2 slots, crashes | The account invariants, which recovery codes are cleared, and `AccountLifecycle` hold under every interleaving. |
| `accounts_serial` | the same with 1 slot, clock to 2, crashes | The code presented is the one compared, and a recovery code works once, with expiry, one request at a time. |
| `accounts_confirm_race` | 1 id, 2 codes, 2 slots | *Violated*: a replaced code still confirms. |
| `moderation_concurrent` | 2 users, 2 blogs, 1 post, 1 comment, 2 ban rows, 2 slots | Ownership, referential integrity, respect of bans and the number of ban rows under every interleaving. |
| `reactions_concurrent` | 1 user, 1 post, 1 comment, 2 reaction ids, 2 slots | Duplicates are bounded and the last reaction answered is kept. |
| `reactions_serial` | 2 users, 1 post, 1 comment, 3 reaction ids, 1 slot, `Take` 1 | The view is exact. |
| `lists` | seven instances of up to 3 rows a table and 2 names (`MCBounds`), pages of 1 row, 1 walker | `Walks`: every list is a walk of `Paging`, whatever is written in between; the lists agree. |
| `paging` | 5 rows, 3 keys, pages of 2 rows | No row is missed or repeated but for the reasons `Paging` names. |

**Why the bounds are enough.** The races are between a pair of requests: one that checked, and one
that makes the check stale. Two slots have every such pair at every pair of awaits; deletions and
clock ticks need no slot in `Sessions`, so a login, a ban and a deletion can overlap there. Two
users tell "own" from "foreign"; two devices tell "this" from "others". Two devices and a clock of
one step suffice for two refreshes of one token in either order on either side of a second, and for
access tokens to expire; refresh tokens expire in `sessions_ban_race`. Two accounts with two
addresses and four codes allow a deleted account to be registered again, under the same address or
another, while requests for the first are in flight. Two blogs let a path name the wrong blog's
post. Two ban rows let two bans of one user at once insert one each. In `reactions_concurrent` both
requests are of one user, as only those overlap on one row, to a post, a comment or one to each;
what needs two users is in `reactions_serial`. In `platform` two refreshes sign, store and are
answered in every order, and one user is banned, unbanned, logs in again and creates, updates and
deletes his blog while the ban runs, and what needs two users is in the runs of the two halves. In
`reactions_serial`, `Take` 1 with two users makes the newest likes fewer than the likes. In `lists`
a page of one row makes two rows two pages, so that rows come and go before, on and behind the page
read, in lists that grow, shrink and empty; each instance has several rows of the tables one filter
joins, and two names where ties and search terms matter. In `paging` three pages, the last of them
short, and three keys for five rows make ties within a page and across its borders. Every invariant
and action property of the passing runs, and every refinement, is also proved for every bound
(section 5).

**Fairness.** `FairSpec` has weak fairness on `Continue(r)` for each request: the database
answers, and the event loop resumes every handler whose call was answered. Nothing is assumed of
arrivals, deletions, crashes or the clock. `DoomedSessionsEnd` assumes that the process stays up
(`Crashes = FALSE`); with crashes it fails, as a death between `BanUpdate` and `BanSessions`
shows.

**What overlapping requests break.** The properties of what a check promises are stated for
concurrent requests, with the exception the code really has: `BanEndsSessions` and
`BannedWriteNothing` except requests that were past their check when the ban was complete,
`OldPairsRefused` devices of which two refreshes overlapped (they store their `iat` in either
order), `NoLockout` devices for which two answers crossed (two refreshes may be answered in the
other order than they stored, and the client is left with the pair that is not stored),
`LastReactionKept` users of whom two requests for one target overlapped (its first half, that who
was answered for a status has a row, holds for them too), `OnlyUsedCodesCleared` a newer recovery
code drawn while the one before it was in use (`superseded`: the clearing goes by user id and takes
the newer code with it), `NoPostWhileBlogBanned` and `NoCommentWhileBanned` requests that a ban
overtook, and `BanRowsBounded` and `DuplicatesBounded` allow as many rows as there are overlapping
requests (neither table has a unique index). With requests one at a time the exceptions are empty,
and the mutants show that the properties then still say something. Three properties have no such
exception in their statement, are checked with one slot, and are proved for any number of requests
as long as a named overlap does not happen (one slot is a corollary); with it the code breaks them:

| Property | Holds unless |
|---|---|
| `ConfirmsPresentedCode` | a resend or a registration is about to write under the e-mail of a confirmation in flight (`NoWriteUnderConfirm`; finding 2) |
| `RecoveryCodeOnce` | two requests past its check use one code (`OneUse`) |
| `ViewExact` | two requests of one user for one target overlap (`raced = {}`; duplicate rows count twice), something written is still to be answered while somebody looks (`NoneWaiting`), or the tables change during a view (`QuietView`) |

In the same way `BannedLockedOut`, which the code breaks (finding 1), is proved for runs without
crashes in which no ban is about to be written under a login of its user (`NoBanUnderLogin`).
Nothing else is excluded: every other interleaving, and for the two properties of codes every
crash, is in these theorems.

`RecoveryCodeOnce` and `UsedCodesAreDead` speak of codes whose use was carried to the end (`used`
drops the others): a process that dies between `UpdateHash` and `ClearRecovery` leaves a code that
still works until it expires. In the same way `DoomedSessionsEnd` and `BanEndsSessions` are about
bans that run to their end, and `NoLockout` leaves out access tokens signed a second before their
refresh token, which the code refuses from birth.

**Findings.** The two violated runs state what the repository says of the code and the code does
not do when requests overlap: (1) `login-user-use-case.ts` reads the ban flag and inserts the
session several awaits later, so the user banned in between keeps a session that refreshes
prolong; (2) `confirm-emal-use-case.ts` compares the code and then updates by e-mail, so a code
that a resend replaced in between still confirms.

**Mutants.** Beside a definition there may be a copy marked "Mutant", a plausible bug of the code
(a dropped guard, a missing key, a forgotten write). `PROJECT.json` pairs every checked property
with one that breaks it. `Next` never uses them.

## 5. Proofs

Seven modules prove theorems of their components' specifications for any value of the constants: any
sets of users, devices, rows, codes and keys, any number of requests in flight, any lifetimes and
page size, with or without crashes. The last column
names the property of the runs, or the formula, that each theorem states.

| Module | Theorem | States |
|---|---|---|
| `SessionsProofs` | `Invariance` | `Spec => []IInv` |
| | `TypeCorrect`, `OwnerExists`, `TokenOwner`, `HoldersRight` | `TypeOK`, `SessionOwnerExists`, `TokensNameTheirOwner`, `HoldersKnow` |
| | `EndByRight` | `SessionsEndByRight` |
| | `Refinement` | `NeverReopened`: `Spec => Lifecycle!Spec` |
| | `BannedOut` | `BannedLockedOut`, without crashes and under `NoBanUnderLogin` |
| `PlatformProofs` | `SessionsHold` | `PSpec => Spec` of `Sessions` |
| | `ModeratesCorrect` | `Moderates`: `PSpec => Content!Spec` |
| | `BanEnds`, `RotationHolds`, `BannedSilent` | `BanEndsSessions`, `OldPairsRefused`, `BannedWriteNothing` |
| | `NeverLockedOut` | `NoLockout` |
| `AccountsProofs` | `Invariance`, `TypeCorrect`, `OneIdentity`, `OneOwner` | `IInv`, `TypeOK`, `UniqueIdentity`, `CodesNameOneAccount` |
| | `OnlyOwnersMailed`, `ConfirmedByMail`, `ReplacedByMail` | `MailsReachTheOwner`, `ConfirmedOwnsMailbox`, `PasswordChangedByMail` |
| | `ConfirmationLasts`, `UsedDie` | `StaysConfirmed`, `UsedCodesAreDead` |
| | `ConfirmsThatCode` | `ConfirmsPresentedCode`, under `NoWriteUnderConfirm` |
| | `CodeChangesOnce` | `RecoveryCodeOnce`, under `OneUse` |
| | `AloneCodesAreSafe` | these two, with one request slot |
| | `ClearsUsedCode` | `OnlyUsedCodesCleared` |
| | `Refinement` | `WritesAreRight`: `Spec => Lifecycle!Spec` |
| `ModerationProofs` | `Invariance`, `TypeCorrect`, `NeverOrphaned` | `IInv`, `TypeOK`, `NoOrphans` |
| | `OwnersWrite`, `OwnersBan`, `OnlyByRight` | `WrittenByOwner`, `BansAreTheOwners`, `GoesByRight` |
| | `NoPostInBannedBlog`, `NoCommentOfBanned`, `BansBounded` | `NoPostWhileBlogBanned`, `NoCommentWhileBanned`, `BanRowsBounded` |
| `ReactionsProofs` | `Invariance`, `TypeCorrect`, `NeverOrphaned` | `IInv`, `TypeOK`, `NoOrphans` |
| | `LastKept`, `FewDuplicates` | `LastReactionKept`, `DuplicatesBounded` |
| | `ViewsAreExact`, `ViewsAloneAreExact` | `ViewExact`, under `raced = {}`, `NoneWaiting` and `QuietView`; with one request slot |
| `ListsProofs` | `Invariance`, `TypeCorrect`, `FiltersAgree` | `IInv`, `TypeOK`, `ListsAgree` |
| | `ListsAreWalks` | `Walks`: `Spec => W!WalkSpec` |
| `PagingProofs` | `Invariance`, `Complete`, `Disjoint` | `IInv`, `NothingSkipped`, `NothingRepeated` |

**Assumptions.** Those of the modules: `None` is none of the other values, lifetimes and `MaxTime`
are natural numbers, `Crashes` is Boolean, the request slots and the rows of a list are finitely
many, posts are not comments, keys are integers (so that they are ordered), a page has at least one
row. They say nothing of the code and TLC evaluates them on every run.

**`SessionsProofs`.** `TokensNameTheirOwner` is not inductive: a token reaches a client from a
request in `respond`, so what such a request holds must be known (`HoldersKnow`); what it holds
stays true only because a login cannot open the same device id for somebody else (`OpeningFresh`:
ids of logins in flight are neither open nor shared), and because ids are never drawn twice
(`created` in `TypeOK`). `SessionOwnerExists` needs the foreign key in `CreateSession` and the
cascade in `DeleteUser`. `IInv` is the conjunction. `SessionsEndByRight` follows from it action by
action: a delete by device id acts on a session that `HoldersKnow` says is the requester's own.
The refinement
maps every step to `Open`, `Close`, `Abandon` or a stutter; the id of a login that fails is
abandoned, and `OpeningFresh` is what makes `Open` enabled. `BannedOut` shows what finding 1 is
about: with `NoBanUnderLogin`, `BannedLeave` is inductive, that no banned user is logging in and
that he has sessions only while the request that banned him has still to end them.

**`PlatformProofs`.** Every step of the platform is a step of `Sessions` or leaves its variables
alone, which gives `SessionsHold` and with it all of the theorems above. `ModeratesCorrect` needs
`IInv` of `Sessions`: a token the guard accepts names a user that exists (`TokensNameTheirOwner` and
`SessionOwnerExists`), and bans and deletions are steps of `Moderation` in a free slot. The four
others add an invariant each: a session of a banned user whose ban is complete is one of `slipped`,
and so is the device of every login that can still make one; a request that writes for such a user
is in `late`; a device that no two refreshes held at once has at most one unfinished refresh, whose
`iat` is not before any that clients hold; and a device that is not crossed has at most one answer
under way, so that what its row stores is what that answer carries or, when there is none, what the
client holds (`Holding`): whoever stores an `iat` is the one to answer with it, before anybody else
can store another.

**`AccountsProofs`, `ModerationProofs`, `ReactionsProofs`.** The three have one shape. `IInv` is
`Data`, the properties of the tables, with `Held`: what a request checked before its last await is
still true of the ids it holds *if their rows still exist*. That survives every step of every other
request because of a fact about steps (`Lasting`, `Stable`): ids and codes are never drawn twice,
and the fields compared (an account's address, a blog's owner, a post's blog, a comment's author, a
reaction's user and target) never change. `Data` follows from `Held` at each write, with the
foreign keys and cascades for `NoOrphans` and the unique indexes for `UniqueIdentity`.
`UsedCodesAreDead` has an induction of its own (`Dead`: a used code that still works is held by a
request about to clear it), `NoPostWhileBlogBanned` and `NoCommentWhileBanned` have `Watched` (a
request past its check that no ban overtook would pass it again), and the two bounds count rows
together with the requests about to insert one, which a step can only trade for each other.

**Codes in `AccountsProofs`.** `RowNext` says of every step what it may do to the codes and flags of
an account, and which request does it; `ReadNext` says what it may do to a request that holds a
code, and to `used`. Each theorem then adds a short invariant: under its e-mail a confirmation still
finds the code it was shown (`ConfirmFresh`), a code about to be used was not used before, and a
request about to clear finds its own code, or none, or was superseded (`UseFresh`). In the
refinement every step maps to one action of `AccountLifecycle` or a stutter. The guards of the
abstract actions speak of the present state, the code's of what was read: `Held` closes the gap, as
what a request checked still holds of the id if its row exists, and where a write goes by e-mail
(`ConfirmUpdate`, `ResendUpdate`) the unique index says which row that is. `CodesNameOneAccount`
makes a code work for one account at most, and a registration that mails the code of a later account
with the same address (`GetCode`) still mails it to its owner.

**Reactions and views in `ReactionsProofs`.** `Choices` is the invariant behind `LastReactionKept`,
one conjunct for each user and target (`Told`): who has no row was answered for nothing and has
written nothing; and while his requests have not overlapped he has at most one request past its
look-up, and none of it an insert when a row exists, so that there is one row at most, with the
status of the request still to be answered or, when there is none, of the last answer. Each of
look-up, write and answer hands this on to the next. For a view, `NoneWaiting` turns it into `Exact`:
the rows are the answers. Then the rows counted are in bijection with the users who chose
(`CountedAreChoosers`), and the newest likes, ordered by distinct ages (`Ages`), are as many as
`Take` allows (`NewestCount`). `QuietView` makes the separate queries speak of one state.

**`ListsProofs`.** `IInv` types the tables, says that no row points to a missing one, through every
cascade (`KeepData`), and that a walk sorts by a column its list has. `ListsAgree` follows from the
filters and referential integrity. For `Walks`, `FirstRows` shows that any order of finitely many
rows has a set of the first *n*, so that what `skip` and `take` cut out is a page of `Paging`
(`PageIsPage`); `LastPageNumber` relates `pagesCount` to the condition on which a walk of `Paging`
goes on; and a write changes what a walk sees only as `Reorder` allows, while every other step
keeps it (`KeysKept`).

**`PagingProofs`.** The invariant compares the place of a row, the number of rows with smaller
keys, with the number of rows that the pages so far have covered: a row that is due is not before
the end of the pages read, and a row read under a key of its own is before it. A page takes rows up
to the next border; a row that comes can only push rows back, one that leaves can only pull them
forward. Cardinalities of finite sets carry the argument (`FiniteSetTheorems`).

**Only model-checked**: `DoomedSessionsEnd`, as liveness under fairness is out of the prover's
reach; and that the two violated runs are violated. That a theorem's named overlap is what breaks
the property is shown by TLC for `BannedLockedOut` and `ConfirmsPresentedCode` (the violated runs).

## 6. Not modelled

- `bind-blog-with-user`: validates and changes nothing.
- HTTP layer: keeps no state; the models start from validated input. The throttler is commented
  out.
- The list of a user's sessions: one query that changes nothing.
- Testing endpoint: exists for the e2e tests.
- Mongo layer: no route reaches it.
- Contents, wording and layout: passwords, texts, mail bodies, IP and user agent of a session. In
  the lists, a `sortBy` that names no column (Prisma refuses it; posts fall back to `createdAt`,
  which is modelled).
- A login that is another account's e-mail: `Accounts` keeps the two apart, while the code lets a
  login be any ten characters and then finds either of the two accounts.
- Sessions whose tokens expired are never deleted by the code; a new password ends no session; a
  comment may be added to a post of a banned blog. These are listed as hazards with no property,
  since nothing in the live code promises otherwise.

## 7. Plan

Done: `Sessions` with its abstract specification, `Accounts`, `Moderation`, `Reactions`, their
composition `Platform`, `AccountLifecycle`, `Paging` and the `Lists` that implement it, and the proofs
of section 5.
What could follow:

1. Logins that are other accounts' e-mails in `Accounts`, with the login by either.
2. Reactions behind the guard: `Reactions` composed in `Platform` as `Moderation` is.
3. An abstract specification of a reaction as one value per user and target, which `Reactions`
   implements when requests run one at a time.
