# Navventura: TLA+ models, checks and proofs

Navventura (repository `aerodirectory`) is a directory of French aerodromes: a
NestJS API (`apps/api`), a Next.js site (`apps/web`), PostgreSQL through Prisma
(`packages/database`), Redis, an S3 bucket, the antivirus clamd, and a worker
that imports open data on a schedule.  What can go wrong in it and hardly shows
in a unit test lies between two `await`s: another request, a moderator, another
tab, the worker or a crash comes in between.  Most modules here are about that;
the others are about calculations whose boundary cases are many.

Paths are relative to `apps/api/src`, or to `apps/web/src` where they name a
page or a component.

## 1. Inventory

| Part | State it keeps | Operations | Modules |
|---|---|---|---|
| Sessions (`auth/auth.service.ts`, `auth/refresh-token.store.ts`, `auth/guards`) | `status`, `tokenVersion`, `passwordHash` of the user; the registry of refresh tokens | login, two-factor login, refresh, logout, password change and reset, ban, unban, deletion | `Sessions` |
| The browser's session (`auth.controller.ts`, `lib/auth-context.tsx`) | the cookie jar of all tabs, calls under way | sign in, refresh, sign out, change the password, restart | `Browser` |
| Sign-in lockout (`auth/auth.service.ts`, `common/replay-store.ts`) | `failedLoginAttempts`, `lockedUntil`; a counter per account and address | check, count, reset; expiry | `Lockout` |
| Accounts and links by e-mail (`auth/auth.service.ts`) | users, their names, `EmailToken` | register, verify, resend, ask for and make a reset, rename, delete | `Accounts` |
| Second factor (`auth/auth.service.ts`, `common/replay-store.ts`) | `totpSecret`, `totpEnabled`, marks of used codes | set up, enable, sign in, disable | `SecondFactor` |
| Captcha (`altcha/`, `components/altcha-widget.tsx`, `hooks/use-altcha-auto.ts`) | used challenges; widgets and forms | challenge, solve, verify, claim | `Captcha` |
| Antivirus (`photo/scan.service.ts`, `photo/clamd.client.ts`) | slots and queue of a semaphore; one promise per scan | acquire, release; the socket's, the file's and the timer's events | `Scanning`, `BoundedLine` |
| Images (`photo/`, `auth/account-deletion.service.ts`, avatars) | photo rows, `avatarKey`, objects in S3, temporary files | upload, delete, change an avatar, purge, review | `Media` |
| Moderation (`admin/admin.service.ts`, `comment/comment.service.ts`) | `contentStatus` of content, `status` of its reports | report, flag, decide, delete | `Moderation` |
| Administrators' pages (`app/admin`, `admin/admin.service.ts`) | pages of rows, buttons, notifications | list, approve, reject, restore, notify | `AdminPages` |
| Local information (`community-info/`) | entries of prices and fees | propose, confirm, review | `Community` |
| Lists (`list/`) | the lists of a member and their items | look, make, rename, fill, delete | `Lists` |
| Visits (`visit/`, the sheet of an aerodrome) | a row per member and aerodrome; cached and optimistic copies | open, click, refetch | `Visits` |
| What members show (`auth/`, `comment/`, `photo/`, `search/`, `aerodrome/`) | four switches of a profile, follows | switch, follow, delete the account; every public route | `Visibility` |
| Search (`search/`, `app/search/page.tsx`) | filters, position, page, saved searches | filter, sort, locate, leaf, save, apply, replay | `Search` |
| The planner's page (`app/planner/page.tsx`) | profile, departure, saved searches, results | calculate, save, apply, replay | `PlannerPage` |
| What the pages keep (TanStack Query as they use it) | cached answers of one tab | show, invalidate, refetch, write | `Queries` |
| Queue of runs (`sync/sync.service.ts`, `sync/sync-lock.service.ts`) | `sync_runs`, an advisory lock per source | enqueue, dispatch, execute, retry, recover | `SyncQueue` |
| OSM (`sync/tasks/osm-sync.task.ts`, `sync/tasks/flags-sync.task.ts`) | files on a volume, points of interest, flags | download, filter, export, import, write flags | `OsmSync`, `OsmImport` |
| Tables rebuilt from a source (`services/importers`) | obstacles, areas, lines, wind, webcams | fetch by pages, check, replace | `Rebuild` |
| Wikimedia Commons (`services/importers/wikimedia`) | photo rows and their objects | look up, store, replace, remove | `Commons` |
| Sheets (`services/importers/openaip`, `aerodrome/`) | aerodromes, their ICAO codes and hashes | import, write by hand | `Catalogue` |
| OurAirports (`services/importers/ourairports`) | links | match by code, then by position | `Matching` |
| Airspaces (`services/importers/openaip`, `admin/`, `airspace/`) | the table of airspaces | nightly import, OpenAir file | `Airspaces` |
| Cache (`common/cache.service.ts`, `metar/`) | entries in Redis and in memory | get, set, getOrSet | `Cache` |
| Routes (`planner/planner.calc.ts`, `planner/route-hazards.ts`) | none | compute a route, a trip, what it meets | `Planner`, `RouteHazards` |
| Around an aerodrome (`services/importers/ign`, `obstacle/`, `transport/`, `restaurant/`) | simplified geometries | areas, wires and masts within a radius; stops; opening hours | `Surroundings`, `Stopovers` |
| Infrastructure, shared schemas, database schema, scripts, deployment, schedules, the other pages | configuration | | none, see section 6 |

How they interact.  Modules share no variables; where two meet, each has the
step of the other that touches its state as an action.  A password reset is an
action of `Sessions` (it raises the version), of `Lockout` (it clears the row)
and of `Accounts` (it spends a link); `Browser` takes a handler of `Sessions` as
one step and looks at the cookies around it; an upload in `Media` calls all of
`Scanning` as `PassScan`; a decision of `Moderation` is `Review` in `Media` and
a button in `AdminPages`; the deletion of an account is in `Sessions`,
`Accounts`, `Media` and `Visibility`; the openAIP import of `Catalogue` hands
ids to the REGIONS run through `SyncQueue`; what `Rebuild` stores `Surroundings` tells.

Hard behaviours, by kind: handlers overtaken at an await (everywhere); rows
written back from an old copy (`Lockout`, `SecondFactor`, `SyncQueue`);
decisions in READ COMMITTED transactions (`Moderation`); two stores without a
common transaction (`Media`, `Commons`: PostgreSQL and S3; `Cache`: Redis and
the memory); answers that come late or out of order (`Browser`, `Visits`,
`Queries`, `PlannerPage`, `Search`); requests repeated or lost (`Captcha`,
`Browser`); a crash between two steps (`Sessions`, `Media`, `SyncQueue`, `Lockout`,
`OsmSync`, `Commons`); event sources racing to settle a promise (`Scanning`);
counters and queues at their limit (`Scanning`, `Lockout`, `Cache`); sources that change while they are
read (`Rebuild`, `Catalogue`); rounding and boundaries (`Planner`,
`RouteHazards`, `Surroundings`, `Matching`).  `PROJECT.json` lists each hazard
at its line with the property that covers it.

## 2. Modules

Each module's header says which code it is about; `PROJECT.json` maps every
definition to its lines.  An action is the code between two awaits: at most one
database statement, one command to Redis, one call to S3, or the handler of one
event of a page.  Definitions whose comment starts with "Mutant" are not part of
a specification: each is an action as a plausible bug would make it, and shows
that a property would notice.

### Accounts and sessions

**Sessions.**  `status`, `version`, `password` are columns of `User`; `store` the
keys of `RefreshTokenStore`; `issued` and `partial` every token a client may
hold, for ever; `req` the handlers in flight with what each has read.
`ConsumeRefreshToken` is GETDEL, `RefreshReadUser` the check after it; `Fail`
may end a handler at any await and `Restart` ends all of them and, if the
registry is in memory, empties it.  Two fields of a token are history: the
version at which its holder was authenticated, the token it was rotated from.

**Browser.**  `jar` is what all tabs share; a call leaves with the jar's
cookies, is served in one step, and its answer's cookies enter the jar when
it arrives; calls overlap and may be lost on the way out or back.

**Lockout.**  `login` and `verifyTotpLogin` share `assertNotLocked`,
`registerFailedAttempt` and `resetFailedAttempts`, await by await; `seen` and
`seenLock` are a request's copy of the row, from which it is written back.

**Accounts.**  A request reads, waits and writes; links and names are drawn
from sets, an account is named by its address.  The expiry of links is an
action.  What overlapping requests let through is measured against their number.

**SecondFactor.**  Time is counted in the 30 s of a code.  A handler reads the
row, checks a code against the secret it read, claims the code, and writes to
the row; `marks` is the replay store with its expiry.

**Captcha.**  Challenges age; a claim is a key that expires; a widget fetches and
solves, or a form solves when it sends; a request may arrive twice, an
answer not at all.

### Contributions

**Scanning** and **BoundedLine.**  `Acquire` and `Release` are the semaphore;
`waiters` holds the closures of `acquire()`; the rest are the callbacks that may settle
the promise of `scanFileWithClamd`.  `BoundedLine` states what the semaphore is
for, a bounded first-come first-served line, without counters; `Scanning`
implements it with `inside <- Holders`, `line <- waiters` and `seen` the jobs that
have called `acquire`.

**Media.**  `photo` and `avatar` are the rows, `objects` the bucket, named by the
request that stored them since keys are fresh.  Every call to S3 may fail
before or after its effect; `faulted` remembers that one did, because the code
then only logs.

**Moderation.**  One piece of content, the reports on it, the calls of
`createReport` statement by statement and the moderators' transactions: the
first update locks rows, the second decides and commits; what another
transaction holds is awaited, a cycle is broken by `AbortVictim`.

**AdminPages.**  The queue of one kind of rows (`pile`), the page each clerk
looks at, the buttons, the handler behind them, and what the author was told.
`staff` are the accounts of administrators among the users, one's own included: the
page has their buttons, `UserAccepts` refuses the ban.  `snubbed` keeps the rows
on which a button was refused though they had not changed.

**Community** and **Lists.**  Handlers that read, then write: entries are numbered
in the order of their creation and a copy keeps the content it goes back to;
lists meet under the unique keys.

### What members see

**Visits.**  `stored` is the row; a tab has the query, its data, the optimistic
status and the write under way.  **Queries.**  One copy per key: held, stale,
in flight, asked again; `Tells` says which keys a write changes, the actions
what each button's handler invalidates.  **Visibility.**  What is shown is a set of
facts <<what, whose>>; a route is one query or several with an await between.
**Search.**  The where, the order and the page of a request over any aerodromes,
and the page with its filters, its position, which the browser gives late, and
its saved searches.  **PlannerPage.**  What is on the page, what a calculation
was asked with, and the departures that are being fetched.

### Data

**SyncQueue.**  `runs` is the table, `lock` the advisory locks, `pc` the worker;
`copy` (read before the lock) and `work` (read after) are kept apart as in the
code, since `handleRunFailure` writes back from the first.  Any statement may be
refused: `RefuseExecution` ends in `Fail`, `RefuseFail` leaves the run as it is, frees the
lock and gives up (`abandoned` keeps those runs until the next boot), `RefuseDispatch` and
`RefuseUnlock` end the round of the dispatcher, or the process if it is still booting.
**OsmSync.**  The steps of a run over the three files of the volume, with what an
interrupted writer leaves; a file has its edition, how its writing ended, and
whether it tells of a part of that edition only (`Partial`), as all that is made of a cut download
does; any statement of a step may throw.  **OsmImport**, line by line, the batches of the import.
**Rebuild.**  Pages and files from a source that changes or answers short, the
floor, the duplicates, the batches, the transaction.
**Commons**, **Catalogue.**  Importers run by the worker and by a script at once:
rows and objects; codes, hashes and texts.
**Matching.**  `matchAerodromes` line by line, aerodrome by aerodrome.
**Airspaces.**  The nightly import, and the OpenAir file from its lines to its rows.
**Cache.**  A call looks, asks the source and stores; a command to Redis may
fail with or without its effect; the memory prunes.

### Calculations

**Planner** compares `computeRoute` with the best choice of fuel stops,
**Stopovers** the merged stops with the stops and the parsed hours with their meaning.
**RouteHazards** looks at the segments of a route one by one, as `routeEntryNm` does,
and says where the route is inside by the same ray as `inRing`, so that it holds of
any polygon; of convex ones it is compared with sides that are passed on the left as
well.  Its obstacle is asked for by the box of a leg and told by the corridor.
**Surroundings** compares what is told of a simplified area with what is published, the
wires that the table's box and the limit leave with all of them, the airspaces of a
window with the places it shows; it extends the other two for the property they share.
Equal distances come in any order.

### Instances and proofs

`MCSessions`, `MCGuards`, `MCMembers`, `MCContributions` and `MCData` each hold
several modules that share nothing; a variable `part`, chosen initially, says
which of them moves, so that every behaviour is a behaviour of one of them and
one run checks them all.  `MCSyncQueue` and `MCAirspaces` only give sets.
`SessionsProofs` (Sessions, Browser), `GuardsProofs` (Scanning, Lockout),
`SyncQueueProofs` (SyncQueue, Catalogue, Airspaces: the queue and what its runs
bring), `MediaProofs` (Media, Moderation), `ContributionsProofs`
(AdminPages, Captcha, Community, Lists), `MembersProofs` (SecondFactor, Accounts,
Visibility, Visits, PlannerPage, Queries, Search), `DataProofs` (Commons, OsmSync,
OsmImport, Matching, Cache, Rebuild) and `FlightProofs` (Planner, Stopovers,
RouteHazards, Surroundings) hold the theorems.  `Catalogue` extends `Airspaces` for the one property
they share.

## 3. What the runs check

| Run | Module | Properties | Shows |
|---|---|---|---|
| `sessions` | `MCSessions` | `RotateOnce`, `StaleAuthorityIsDead`, `SessionsDieForGood` | a refresh token has one successor at most; a login or rotation overtaken by a ban, reset or change hands out a dead session; what is revoked never comes back |
| | | `SessionIsKept`, `LogoutEndsTheSession` | tabs that refresh at once do not lose the session; its cookies live as long as was wished; a logout, even with an expired access token, ends it |
| `guards` | `MCGuards` | `SlotsAreAccounted`, `CleanMeansScanned`, `EveryScanEnds`, `ScansWaitTheirTurn` | no slot is lost or counted twice, no cut answer passes as clean, a clamd that hangs blocks nobody for ever, the semaphore implements `BoundedLine` with its fairness |
| | | `GuessesAreBounded`, `LockTakesManyFailures`, `AddressesComeBack` | concurrent requests exceed the limit of an address by no more than their number; no early lock; an address is let in again |
| `members` | `MCMembers` | `OnlyOverlapsEscape`, `SecondFactorIsSound` | links and names escape their rules only as often as requests overlap; no code is good twice, no second factor is on that its owner has not shown |
| | | `WhatIsShownIsStored`, `OwnWritesShow`, `PublicSeesWhatMembersAllow` | once nothing is under way a tab shows what is stored and what its member wrote; the public sees what was allowed at some moment of the request |
| | | `SearchesAreWhole`, `PlannerShowsTheLast` | the pages of a search hold every match once; the results are those of the last calculation, the page that of the last search applied |
| `contributions` | `MCContributions` | `MembersOnlyConfirm`, `TheDefaultStays`, `SolutionsWorkOnce`, `DeskIsHonest` | local information is public as it was vetted; the default list stays; a solution is good once and not refused to whom it belongs; buttons do what they say, but for bans of administrators, which are never made, and authors are told |
| | | `PublicMeansScanned`, `ImagesAreConsistent`, `DecisionsHold`, `MembersHideOnlyTogether` | what is shown was scanned, rows and bucket agree; reports are decided once and as the content says; a comment is hidden by as many members as the threshold |
| `sync` | `MCSyncQueue` | `RunsAreAccountedFor`, `FinishedRunsStayFinished`, `DeltaIdsAreKept`, `EveryRunEnds` | whatever crashes or is refused, nothing queued is lost, run twice or run for ever; a run is stranded only where its failure itself could not be written, until the next boot |
| `data` | `MCData` | `OsmIsSound`, `RebuildsAreWhole`, `PhotosAndRowsAgree`, `ImportsAreWhole` | the files of an import are finished and of one extract, partial only if its download was cut, and flags follow the import; the last line of an object wins; a table is replaced by a whole list; photos and objects agree; a hash says what its row holds, every block of an OpenAir file is an airspace |
| | | `LinksAreNotSwapped`, `AnswersAreYoung`, `BriefingIsRight`, `SurroundingsAreTold`, `OutlinesAreRight` | codes come before positions, and positions are mutual and within reach; no answer is older than its life; the route is the cheapest legal one; what a route meets, and the stops, wires and airspaces around a place, are told; simplifying loses no area, and a convex airspace is entered where its sides say |
| `media_erasure` | `Media` | `AccountDeletionErasesObjects` (violated) | finding 1 |
| `moderation_crowd` | `Moderation` | `CrowdIsHeard` (violated) | finding 2 |
| `sync_full_sweep` | `MCSyncQueue` | `FullSweepGoesEverywhere` (violated) | finding 3 |
| `visit_downgrade` | `Visits` | `OpeningNeverDowngrades` (violated) | finding 4 |
| `hidden_contributions` | `Visibility` | `HiddenMembersAreUnnamed` (violated) | finding 5 |
| `airspace_replaced` | `MCAirspaces` | `ReplacedMeansReplaced` (violated) | finding 6 |

Type invariants are not in the configurations: every one that a proof needs is proved.

Findings: where the code does something else than its comments say.

1. `auth/account-deletion.service.ts:25`: objects stored after the purge has read
   the keys stay in the bucket.  Two simultaneous avatar changes do the same.
2. `admin/admin.service.ts:1759`: reports that arrive between the two statements
   of `rejectReport` keep their status while the flag they caused is removed.
3. `sync/sync.service.ts:365`: ids of the openAIP delta are merged into a queued
   full sweep, which then visits only those aerodromes.
4. `app/aerodrome/[id]/page.tsx:742`: a sheet opened before the visits are
   there writes SEEN over VISITED or FAVORITE.
5. `comment/comment.service.ts:223`: the public route of corrections names
   authors whose profile is hidden.
6. `admin/admin.service.ts:1830`: `replaceSource` deletes by a prefix that no
   identifier begins with.

Observed while modelling, without a run of their own:

- Sessions and accounts: a logout that meets the rotation of its own token
  leaves the rotated one alive (the property excepts it); the account lock can be reached from one address over several
  windows; a code or a name escapes only by overlap.
- Moderation: a comment refused, then reported, upheld and dismissed is public
  again; `app/aerodrome/[id]/page.tsx:877` and `:965` say that one report hides, the
  threshold is 3 (`comment.service.ts:26`); approving a comment listed as PENDING
  but flagged meanwhile closes reports the moderator has not seen; a comment
  refused, flagged and restored is restored without telling its author; a
  notification lost in a crash after the decision is never repeated.
- Administrators' pages: only the newest 30 rows (25 users) are shown, and there is
  no other page; a refusal is not followed by a refetch; a FLAGGED correction has
  no list and no button; "Bannir" and "Supprimer le compte" are offered on administrators and on
  one's own account (`app/admin/users/page.tsx:309`) and refused by the API
  (`admin.service.ts:199`, `:212`): `DeskIsHonest` excepts the ban, deletions are not modelled.
- Queue of runs: a failure that cannot be written (`sync.service.ts:1019`, `:1041`, called in the
  catch at `:509`) leaves its run IN_PROGRESS under a live worker; the dispatcher never picks
  it, and its source has no other run, until the next restart.  `RunsAreAccountedFor` and
  `EveryRunEnds` except exactly such runs.
- OSM: the raw file is never fetched again once it exists and is not empty
  (`osm-sync.task.ts:300`), although the log of the step says "déjà disponible pour ce run"
  (`sync.service.ts:686`).  A download cut short is used by the retry and by every later run, so that flags
  of a part of the extract pass for whole, and a new edition is never imported.
- OurAirports: the comment at `ourairports.normalizer.ts:179` has codes, then positions "for aerodromes
  without one"; the code (`:203`) looks for the nearest row for every aerodrome that no row
  named, so an aerodrome with a code may get a row that bears another's.
  `LinksAreNotSwapped` says what the code does.
- Search: a radius is a box of latitudes and longitudes, although the comment at
  `search.service.ts:322` promises a check of the distance; the box uses 111 320 m to a degree, the
  distance 111 195, so the outermost thousandth of a radius to the north
  and south is missed; saved searches and addresses keep a page number; the limit of 50
  saved searches is checked, then created.
- Pages: the cache of answers is never cleared at logout and its keys carry no
  user; notifications are asked for with different limits under one key
  (`header.tsx:56`); a late answer clears an invalidation of a page left
  meanwhile; photos are kept in a list of the sheet that an older answer
  overwrites; the planner keeps results when the departure is cleared
  (`planner/page.tsx:718`) and a stay left empty counts 60 minutes (`:345`); the map
  applies neither a style chosen before it is loaded nor hidden classes after it
  is redrawn, and binds its markers at every render.
- Data: an airspace withdrawn by openAIP is never deleted, an OpenAir file sent
  twice with another order of its airspaces duplicates them; areas thinner than about 30 m vanish on
  import; `scripts/import-openair.ts` writes columns the schema does not have; a
  code refused to an aerodrome is not given later when it becomes free; merging
  of stops depends on their order; `Sa-Mo` names no day, hours past midnight
  are read for one weekday only, and "open now" is cached for 12 hours.
- Routes: the nights of a search are counted from times rounded to 0.01 h and may
  differ from those of the briefing.

## 4. Bounds and fairness

The bounds are the constants of the `.cfg` files and the constraints of the `MC`
modules.  Why they are enough, and which are lifted by a proof:

- *Sessions, Browser*: one account, two handlers or calls at once (every race
  listed is between two), three tokens, so that a parent, a child and a rival fit,
  two revocations.  After a mishap two pairs are drawn at most (`Few` of
  `MCSessions`).  Proved for any number of each.
- *Lockout*: two requests and addresses, limits of 2 and 3, four wrong
  passwords: both limits are passed by concurrent requests.  After a death
  one wrong password (`Few` of `MCGuards`); both invariants are proved without it.
- *Scanning*: two slots, two places, five uploads: one is refused.
- *Accounts*: three addresses, spellings and links, so that one more than the
  bound would be seen; drawn in the order of their numbers (`InOrder`).
  *SecondFactor*: three codes used, the three steps in which one is good.  Proved
  for any tolerance and any time; `MaxStall <= 1` step between check and claim is an assumption.
- *Captcha*: three challenges, two forms; `MaxWait < Margin` says that a request
  takes less than the 60 s by which a claim outlives its challenge.
- *Media*: one upload, two changes of avatar, two moderators, one crash.
  *Moderation*: threshold 2, two members, three reports, so that two may be of one
  member.  *Lists*, *Community*: two requests at once.  *AdminPages*: two clerks and
  one row, so that the limit of 30 rows is not reached; proved for any rows and limit.
- *Visits*: one tab, the other devices of the member as an action; proved for any number of tabs.
  *Visibility*: two members, one request, three changes.  *Queries*: two
  writes, one where several keys tell of it; two of the three keys of a follow.
- *Search*: three aerodromes that stand still, of which two share a name and two
  a town, four places, pages of one; two calls for the position.  *PlannerPage*: two
  departures, profiles, searches and calculations; calculations where nothing was
  saved and there is no home.  Both proved without.
- *SyncQueue*: the two sources that talk to each other, two aerodromes (a
  delta differs from a full sweep), two attempts, three runs, one crash, one
  statement refused.  A statement that is refused has no effect: an answer lost after the commit
  is not among the faults.  What the cron jobs throw `@nestjs/schedule` logs.
- *OsmSync*: two editions, one death, two attempts.  *OsmImport*: files of
  five lines over two objects, batches of two.  *Rebuild*: five items, one unfit,
  pages of two, two changes.  *Commons*: two importers, two images, three
  uploads, the first of them stored before.  *Catalogue*: two importers, two aerodromes, one
  made by hand, one code, which the first aerodrome has at the start and a revision may move.  *Matching*: three aerodromes, two lines,
  positions 0 to 2.  *Cache*: three keys, of which one is in Redis and the others are
  answered in full (`OneKeyCounts`), a memory of two; proved for any.  *Airspaces*: one of openAIP with two editions,
  files of one or two blocks that have every directive (`MCAirspaces`).  `Commons`, `Catalogue` and
  `Airspaces` are proved for any.
- *Planner*: four legs, distances up to 2, a range of 3; *RouteHazards*: a grid of
  four by four, a triangle, a ring with a hole, a square and an arrow, which is not convex, four
  parts of a segment (proved for any); *Surroundings*: a plane of nine by nine, on which simplification moves a
  border by at most the tolerance and the mesh; *Stopovers*: three stops, two rules, a week of three days of four hours.

`CHECK_DEADLOCK FALSE` stands where a system of finitely many requests may
simply be done (everywhere but in `SyncQueue`, where something can always happen).

Fairness is stated only for what the program's runtime guarantees.  Scanning:
continuations run (`StartScan`, `Release`) and the timer of a scan fires
(`OnTimeout`); clamd and the network owe nothing.  SyncQueue: the event loop of the worker
goes on and Docker restarts it (`restart: unless-stopped` in
`docker-compose.prod.yml`), PostgreSQL notices a dead session, the retry time
comes; nobody is obliged to trigger a run.  Lockout: a request that has begun to
count goes on, and a window that has an expiry ends; a request that dies
between INCR and EXPIRE leaves the counter until its address fails again, which
is why `AddressesComeBack` excepts it.  The other modules state safety only.

## 5. What is proved

For every value of the constants that satisfies the named assumptions (requests,
callers, visitors, members, uploads, aerodromes and items are finite sets; limits,
sizes of pages and batches and the length of a day are positive; the values that stand for "nothing" are no members; `MaxWait < Margin`;
aerodromes of openAIP and those made by hand are different; profiles are
numbers; polygons are finite in number, with rings that are closed and have whole coordinates; a wire
has two points or more), TLAPS checks the following.  Each theorem rests on an invariant that
is inductive, and each of those was first run through TLC.

**Sessions.**  `RotateOnce`, `StaleAuthorityIsDead`, `SessionsDieForGood`.
`RotationInv`: an identifier names one token, parents have left the registry, one
handler at most rotates each.  `VersionInv`: no token carries a version the
row has not reached; versions only grow, hence what is dead stays dead.

**Browser.**  `SessionIsKept` (`SessionSurvivesTheTabs`, `KeptAsWished`), `LogoutEndsTheSession`.
`BrowserInv`: what an answer brings nobody has had; a session has one refresh
token; wishes follow the root of a session; without a mishap the key of the jar's session is
in the jar or in an answer.  Steps are grouped by what they move.

**Scanning.**  `SlotsAreAccounted`, `CleanMeansScanned`, and that `Spec`
implements `LineSafety`.  `SlotInv`: the queue holds each waiting job once.
`VerdictInv`: what a job believes of its file was said by the daemon or there is none.

**Lockout.**  `GuessesAreBounded`, `LockTakesManyFailures`.  A counter and the requests
still on their way to it are weighed together, by cardinalities.

**Media.**  `PublicMeansScanned`, `ImagesAreConsistent`.  `MediaInv`: a key exists
only for a scanned upload that can no longer fail; where an object may be while
nothing failed; who may still delete an avatar; tidy ends.

**Moderation.**  `DecisionsHold`, `MembersHideOnlyTogether`.  `ReviewInv`: the rows
two transactions hold are disjoint, and pending until decided; a call about to
hide has counted as many reporters as the threshold; reports are filed once.

**SyncQueue.**  `RunsAreAccountedFor`, `FinishedRunsStayFinished`,
`DeltaIdsAreKept`.  `QueueInv`: what the worker knows of the run it holds, at each
step.  `DeltaInv`: only the openAIP import merges ids, into a row it knows, and
never while a REGIONS run is executed; the worker holds all ids of its run.  A run that is
IN_PROGRESS and in nobody's hands is one of the abandoned.

**SecondFactor.**  `SecondFactorIsSound`: a mark outlives the window of its code
(`MarksInv`), and a handler about to write has read a row on which its request
made sense (`CopiesInv`).

**Accounts.**  `OnlyOverlapsEscape`.  `AccountsInv`: live links and the handlers
about to create one are no more than the callers, nor are the uses of a link and
the handlers that hold it, nor namesakes and the accounts about to take the name.

**Visibility.**  `PublicSeesWhatMembersAllow`: a request could find all that is
allowed now, and what it found it could find (`VisibilityInv`).

**Visits.**  `WhatIsShownIsStored`: a tab that is not behind holds something old
only where its click was taken or the visits are asked for (`VisitsInv`).

**PlannerPage.**  `PlannerShowsTheLast`: one calculation is under way and it is the
last; whoever waits waits for the departure of the search applied last.

**Queries.**  `OwnWritesShow`: an old copy that is not excused is about to be
asked for, or out of sight and marked stale; the buttons invalidate every key
that tells of their write (`ButtonsTell`), the one fact that is about the code's own list of keys.

**Search.**  `SearchesAreWhole`.  `SearchInv`: every page shown is cut from an
order its request allows, and saved searches name pages they have.  The orders of two
requests need not agree; where nothing ties they do, because the place of a match
is the number of matches before it, which is proved by a bijection; the rows of a page
are then those with places between its first and its last, and pages are disjoint and whole by
arithmetic on the page size.

**Captcha.**  `SolutionsWorkOnce`.  `CaptchaInv`: a claim outlives its challenge by
the margin, and what a form holds has never left it.

**Lists, Community.**  `TheDefaultStays`, `MembersOnlyConfirm`.  Default lists and
the calls about to make one are no more than the visitors; copies, proposals and
the calls about to make them are no more than the requests; ids are not used again.

**AdminPages.**  `DeskIsHonest`.  `DeskInv`: the buttons offered are among those
the handler accepts; a decision not yet told is in the hands of one clerk.  `StaffInv`:
only an administrator's row is ever snubbed, and none is banned.

**Catalogue, Commons.**  `SheetsMatchTheirHash`, `PhotosAndRowsAgree`.  An import nobody
disturbed is alone and has left nothing behind; keys are drawn once, a pending
object is known to its importer only, and an object belongs to one aerodrome.

**Airspaces.**  `AirspacesAreWhole`, and with Catalogue `ImportsAreWhole`.  `ZoneInv`:
an airspace the import has gone through, and was not refused, is as it was fetched.
The reader of a file is a recursion over its lines, stated as a function of their
number, and what it computes follows from the least number of lines after which it
would fail: `ReadTo` says that the block begun last is held as its lines
read so far tell it, and that every earlier block of three points is drawn.
`FilesInv`: the airspaces of the request before the one to be written have their
rows, since the place in the file is part of what identifies a row.

**OsmSync, OsmImport.**  `OsmIsSound`.  `OsmInv`: the steps of a run succeed in
order, the files of the steps that succeeded are finished, of the edition and of as much of
it as the raw file holds, and the rows the flags are
written from are those of the last import.  `RowsInv`: the lines read fall into
those written, whose last line of each object is its row, and those of the
batch, which come after them; every line is counted once.

**Cache.**  `AnswersAreYoung`.  `CacheInv`: what the memory holds expires within
its life and lies in the order it was put there; a call under way still has the
age it was asked at; full memory makes room, since the older half of two or more keys is not empty.

**Rebuild.**  `RebuildsAreWhole`.  `RbInv`: while the source stands still, the answers
brought the layers passed and the leading items of this one; a page that is not full
is the last, because ranks number the items without gaps; a table is emptied only
for a list that was trusted; the draft holds a row for each one gone through.

**Planner.**  `BriefingIsRight`.  `RouteInv` follows the point where the tank was filled
last: no choice of stops that lasts has needed fewer stops by then, nor as many
and the last one later, which is why filling late is never worse; the fields
passed since left the next fuel in reach.  That the search counts the nights but for
one around a midnight is arithmetic of quotients by a day that is not a
number but a constant.

**Matching.**  `LinksAreNotSwapped`.  `MatchesInv`: links by code are distinct and have the code, the others
are mutual.  `CodesInv`: a row already looked at has gone to the first of its codes that was to be
given, or all the aerodromes of its codes had theirs; a code has one aerodrome.  That every set of
candidates has a nearest one rests on the least-number principle.

**Stopovers.**  `PlacesAreRight`.  `MergingInv`: a row near the aerodrome waits, or is in one
cluster; a cluster is where its first row is, and that is no farther than any stop that
waits, since they wait nearest first: hence merging moves no place out of reach and brings
none within it.  `ReadingInv` says which rules of today were read; of rules in the simple
form at most one names a day, so the first that is open today is the last that names it.

**RouteHazards.**  `EntriesAreRight`, `ObstaclesAreAsked`.  A segment that is inside somewhere
either begins inside or crosses a side before: walking round a ring, its corners go an
even number of times from one side of the way travelled to the other, and, where no side
touches the way, the ray from its start crosses a side that the ray from its end does not
exactly when the side's corners do (`SideParity`, by multiplying out the areas spanned by the
four points).  So both ends are in the same rings (`RingParity`), whatever the corners the
ray passes through.  The first crossing is one of finitely many fractions, and lies on its side.
Points of a segment are compared on a map drawn `Samples` times larger, where they
are integer points; as `Samples` is any number, they are every rational point of the route.
An obstacle in the corridor has its nearest point on the leg, whose box is as much larger.

**Surroundings.**  `WiresAreTold`, `WindowsAreWhole`, and with the other two
`SurroundingsAreTold`.  No point of a segment is nearer than `Distance2` says; a wire out of
the box around a place has all its points beyond the radius; one that was found and not
told comes after as many that are no farther.  A place inside a ring has corners of
the ring on all four sides of it, by the parity of the sides its ray crosses, so a window
that shows the place meets the ring's box.

Type correctness of each of these modules is proved with its invariant.

Checked by TLC only:

- What holds under fairness: `EveryScanEnds`, the fairness part of
  `ScansWaitTheirTurn`, `EveryRunEnds`, `AddressesComeBack`; the prover has no rule for ENABLED.
- `OutlinesAreRight`: what `Retained` keeps of a ring is a recursion over pairs of its points,
  and that no point dropped is farther than the tolerance from what is kept is an induction
  over it, which none of the provers can instantiate.  The comparison of convex
  airspaces is a second reading of what `EntriesAreRight` says of all of them.

## 6. What is left out

Signatures, hashing, encryption, the proof of work and the image library are
taken to work: a token is what was issued.  Parsing and normalising of imports,
mail, audit entries and the wording of answers change nothing the properties
read.  A database that refuses single statements is modelled where the code
handles it, and at every statement of `SyncQueue` and `OsmSync`.  The clock is the set of things that may expire, or a count of
the shortest life.  One worker process runs, as in `docker-compose.prod.yml`.

`apps/web/public/altcha.js` (7 000 lines) is a vendored library.  The pages of
the site are mostly markup (some 12 000 lines); their state is modelled where
it meets the API or another tab (`Browser`, `Visits`, `Queries`, `PlannerPage`,
`Search`, `AdminPages`, `Captcha`), their forms and displays are not, and the map page
depends on what the map library does with styles.  Shared schemas and database
schema are types; the constraints the handlers rely on are in the modules that
use them.  `computeNextCronOccurrence` only feeds the administrators' page.
Scripts and deployment are configuration; an import run by a script is the same
code as in the worker and is an importer of `Commons` and `Catalogue`.

## 7. Plan

Done: all modules of section 2, and the theorems of section 5.

Left: that an area told after simplification is near the published one (the second half
of `OutlinesAreRight`), for a prover with induction over recursive functions; the liveness
properties, for one with rules for ENABLED.

## 8. Running it

    tlc -workers 2 -config Sessions.cfg MCSessions
    tlapm SessionsProofs.tla

and likewise for the others; every run ends within five minutes on two cores,
every proof module within ten.
