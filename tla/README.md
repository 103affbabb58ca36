# TLA+ models of Metis Exterminator Plus

This directory specifies Metis Exterminator Plus: what its accounts, its login limiter, its billing, its jobs,
its customer search, its process life cycle and the session of its web page do, statement by statement and thread
by thread. TLC
checks the specifications on small instances; TLAPS proves a part of them for every value of their constants.
Paths below are relative to the repository's root.

## 1. The system

One process: `src/main.cpp` opens the SQLite database, resets the accounts from `config/config.pson`, builds the
stores, rebuilds the search index, registers the routes (`src/router.cpp`) and runs `HttpServer`
(`src/server.cpp`). Each accepted connection is served by a detached thread of its own that reads one request,
runs one route's handler and closes. All threads share one SQLite connection (`Database`, `src/database.cpp`) and
call its statements directly: apart from `AuthManager::mu_` the only lock is the one SQLite takes for the length
of one call. `docs/ARCHITECTURE.md:102` speaks of a mutex per store; there is none in the code.

| Component | State | Operations | What is hard | What makes it correct | Modelled by |
|---|---|---|---|---|---|
| Accounts and sessions (`auth.cpp`, user routes) | tables `users`, `sessions`; `mu_` | login, create, deactivate, change/set password, API key, logout, purge, reset at start | a handler authenticates and acts in two calls; calls of several statements cut by a crash | sessions only of active accounts; wrong passwords spaced by lockouts; an administrator remains; dead sessions go | `Auth`, `AuthProps`, `SessionGrants`, `AuthProofs`, `SessionProofs` |
| Login rate limiter (`auth.cpp:223`) | `rate_map_` | `check_rate_limit` | the clock is read before the mutex is taken | window and memory bound of each key, no refusal without cause | `RateLimiter`, `RateLimiterProofs` |
| Invoices (`invoice_store.cpp`, invoice routes) | tables `invoices`, `invoice_items`; the number counter | create, edit, delete, overdue check | unlocked read-modify-write, multi-statement writes, one transaction state for all threads, crashes | a book of whole, uniquely numbered invoices | `Invoices`, `InvoiceProps`, `InvoiceLedger`, `InvoiceProofs` |
| Jobs (`job_store.cpp`, job, time and recurring routes) | table `jobs` | add, edit, clock, spawn, delete | a route reads a whole row, changes its copy and writes it back; bodies that arrive in part | recorded times and completions stay; a book of jobs that no race but one on the same job disturbs | `Jobs`, `JobBook`, `JobsProofs` |
| Customers and search (`customer_store.cpp`, customer routes, `/api/search`) | table `customers`; FTS5 table `customers_fts` | add, update, remove, rebuild, search | row and index are written by separate statements | live customers match their words, deleted ones are not found | `CustomerStore`, `CustomerProofs` |
| Server life cycle (`server.cpp`, `main.cpp`, `/api/shutdown`) | `running_`, `listen_sock_`, `db_` | accept, serve, stop, signal, close | threads that stop the server race the accept loop, which any failure ends, main's own close and the handlers at work | the process ends, one cause of the end closes the handle once, what was answered is stored | `Lifecycle`, `LifecycleProofs` |
| Web client's session (`web/js/api.js`, `app.js`) | `_session_token` and its stored copy, `_token`, the screen, the promise of `init` | load and restore, log in, sign off, shut down | handlers interleave at every `await`; answers get lost; sessions end on the server | the page sends the session it holds and shows what goes with it | `WebClient`, `WebClientProofs` |
| Database wrapper (`database.cpp`) | the connection | open, exec, Stmt | `step()` reports every failure as "no row" | - | inside `Auth`, `Invoices`, `Jobs`, `CustomerStore` |
| HTTP parsing and routing (`server.cpp`) | none between requests | parse, match, dispatch | one `recv` is a request | - | partly inside `Auth`, `Jobs`; section 8 |
| Configuration (`pson.cpp`) | none after start | parse | - | - | its values are constants of the modules |
| Chemical records, views of the web client, logger, infrastructure stubs, reports, third-party code | - | - | - | - | not modelled (section 8) |

Interactions: handlers call the stores and `AuthManager`; a purge thread calls `AuthManager` every
`purge_interval_minutes`; `POST /api/shutdown` starts a thread that closes the database and stops the server; a signal
handler stops the server; the search joins `customers` with `customers_fts`; the jobs refer to customers by a foreign
key; the web client drives all of it over HTTP. The hazards of each part are listed at their lines in `PROJECT.json`.

## 2. Modules

**`Auth`** has the two tables, the `AUTOINCREMENT` counter, the clock in minutes, the holder of `mu_` and, per
connection thread, the request it is working on. A user-management handler is two steps, as in the code:
`Authorise` is `get_user` and the checks on the account it returned; the second step is the call that acts, on
whatever the tables hold by then. `login` holds `mu_` from its look-up (`LoginBegin`) to its outcome
(`LoginRight`, `LoginWrong`), and the clock may move while bcrypt runs. `deactivate_user` is two statements,
`DeactivateMark` and `DeactivateKill`. The reset at start is three (`ResetSessions`, `ResetUsers`, `ResetAdmin`).
`Crash` may come between any two steps. `Logout` needs no authentication, as in the route. Not modelled: the
audit table, the checks for empty fields, a failure of bcrypt itself. User names stand for names up to case
(`COLLATE NOCASE`). `AdminRole` is the configured `auth.admin_role`, which nothing makes "admin"; the
instances and `AdminTheorem` take it to be "admin".

**`SessionGrants`** is the promise: a token is granted once, to a user who is not barred, for
`SessionMinutes`; barring a user ends all of her tokens in one step. `AuthProps` maps the tables to it (`Grants`,
`Spent`, `Barred`): a row the purge has still to delete, or that a deactivation has still to delete, is no grant.

**`RateLimiter`** separates the stamp (`Stamp`, before the mutex) from the decision (`Decide`, under it), so calls
are decided in another order than they were stamped. `mu_` is held by logins that run bcrypt, hence `MaxWait`. The
vector of stamps the code keeps per key is a set: nothing in `check_rate_limit` depends on its order. Its elements
carry their number among the admitted attempts, for two attempts may have the same stamp.

All of the limiter is per *key*, and a key is neither a client nor an address of a connection: the login route takes
it from `x-forwarded-for`, else from `x-real-ip`, else it is the constant "local" (`router.cpp:304`; `KeyOf`). The
headers are the request's own. So clients that connect directly share one quota, whoever sends a header chooses the
quota that is used, a new one included, and no property here says that clients do not disturb each other, for the code
does not see to it. `docs/CONFIGURATION.md:64` says the limit is per IP.

**`Invoices`** keeps the tables twice: `db` as the shared connection sees them and `disk` as committed. A write
commits when its statement ends unless some other write statement is open; `InvoiceStore::add` keeps its `INSERT ...
RETURNING` open while the items go in (variable `open`). Each statement is an action: `InsertInvoice`, `AddItem`,
`PostAnswer` for `add`; `UpdateRow`, `DeleteItems`, `InsertItem` for `update`, fed by the snapshot `Put` or
`CheckOverdue` read. `next_num++` is a data race on an `int` all threads share, split into `PostRead` and `PostWrite`.
`Amount` is what an item may cost and `List` are the lists of such items a request may carry; what the tables hold of
an invoice's items is a sequence over `Amount` of any length. Money is whole units and the tax, a constant factor, is
left out; reading an invoice's items is one step; the customer of an invoice is assumed to exist.

**`InvoiceLedger`** is the promise: a book in which issuing, editing, marking overdue and deleting are single
steps, and only a pending invoice becomes overdue (edits carry Paid, as the web client's do, or no status).
`InvoiceProps` maps the committed rows to its book as they are, and the committed items to its lines; while an update
has deleted the items and not yet put them all back, those it still has in hand are added (`ItemsOnDisk`).

**`CustomerStore`** has the table, the index as pairs of a word and a row id, and each handler's place between its
statements. `customers_fts` is an external-content table: to delete a row's entries FTS5 reads the words *from the
table `customers`, as it is then*; `DeleteEntries` says so, and lets FTS5 refuse when it does not hold them. The
search uses prefixes; the model asks for whole words. Its query has `LIMIT 20` and no order: `Matches(w)` are the live
customers the index has under a word, `Answers(w)` the sets a search may answer with, all of the matches or any
`Limit` of them. `overlapped` are the customers two handlers wrote at once: they may lack entries until the next
PUT or DELETE that has the customer alone, or the next start.

**`Lifecycle`** has main's place in `run`, `running_`, the listening socket, the shutdown threads and `db_`.
`RunListen` ends with a socket that listens, one that does not, or none, since `run` checks neither `socket` nor
`bind` nor `listen`; and `accept` may fail at any time (`AcceptFails`: an aborted connection, no descriptor left),
upon which `run` returns. `broke` records that either happened. `CloseWakes` is the platform: whether closing a socket
wakes a thread blocked in `accept` on it (Windows: yes; POSIX: no). A signal handler runs on top of main, whose
`accept` then fails on both. A request is one step; `Database::close` is two (the test of `db_`, and the close with
the clearing). A request that is served ends `answered`, or `unsaved`: on a handle that is gone `Stmt`'s constructor
throws, the stores catch and log that, and the client of a POST, or of a PUT that is past its `find`, has the answer of a
write that was done (`Outcomes`); a DELETE, or a PUT not yet there, has a 404.

**`Jobs`** has the table `jobs` and, per thread, the copy a route holds between `JobStore::find` and
`JobStore::update`. Of a row it keeps the customer, whether it recurs, whether it is deleted, and its *card*: the
status and which of `time_start`, `time_end` and `completed_at` are set. `FindPut`, `FindTime` and `FindSpawn` are
the reading halves of `PUT /api/jobs/:id`, `PUT .../time` and `POST .../spawn-recurring`; `UpdateRow` and
`InsertSpawn` the writing halves; `Post` and `Delete` are single statements. No route sets `recurring`, so `Init`
allows a database file that already holds a recurring job. A body may lack any field: the route takes an absent
status as empty, and the server reads one segment whatever `Content-Length` says.

**`JobBook`** is the promise: whole changes to one job at a time, no mark ever taken back, deletion for good, no id
given twice, customers fixed. `Jobs!ShownBook` maps the table to it; a card that two handlers write at once is
`Unsure` until the last of them is done, and nothing else of that job, nor of any other, may be off.

**`WebClient`** has the page's variables (`_session_token`, `_token`, `useServer`, which screen is shown, whether the
menu has its handlers) and a task per handler at work: `init`, calls of `attempt_login` (the button is disabled
meanwhile, the Enter key is not), clicks on "Sign off", the shutdown. A task's steps are the stretches between two
`await`s; the answer it awaits is produced by `Serve`, or lost by `Break`. The server is the set of live sessions,
which `Expire` may shrink at any time (a restart of the server is all of them expiring). `Reload` keeps
`sessionStorage`.

`MC*` modules only add symmetry sets and small data. Definitions named `X_Something` next to a definition `X`
are plausible bugs of `X`, used to see that the properties notice.

## 3. Runs

| Run | What it asks | Instance | Outcome |
|---|---|---|---|
| `auth_sessions` | do sessions keep their promise (`DeactivationKillsSessions`, refinement `KeepsSessionPromise`)? are wrong passwords spaced (`LockoutSpacesGuesses`), do count and lock agree (`ExhaustedIsLocked`)? | 2 threads, 3 account ids, 2 tokens, 2 wrong passwords, limit 1, lockout and session 1 minute, time 0..2 | holds |
| `auth_service` | does an administrator remain (`ActiveAdminRemains`), do dead sessions go (`ExpiredSessionsAreDeleted`)? | 1 thread, 4 ids, 3 names, 2 tokens, 1 API key | holds |
| `limiter` | `LimitUpToWait`, `MemoryBounded`, `RefusedOnlyWhenFull` | 2 keys (a header's and "local"), 2 threads, limit 2, window 2, wait 2, time 0..4 | holds |
| `invoice_ledger` | does what is on disk implement the ledger (`KeepsLedger`)? | 1 thread, all operations, crashes outside updates | holds |
| `invoice_concurrent` | `OnlyWholeInvoicesOnDisk`, `RemovedStaysRemoved`, `DurableWhenNoCreate` | 2 threads, all operations, crashes anywhere, 2 invoice ids | holds |
| `jobs` | do recorded marks outlive edits (`MarksOutliveEdits`)? do the routes implement the book (`KeepsJobBook`)? | 2 threads, 2 job ids, 1 customer and 1 unknown one, bodies with and without each field | holds |
| `customers` | `FoundByOwnWords`, `RemovedNeverFound` | 2 threads, 2 customers, 2 words, answers of at most 1, restarts | holds |
| `shutdown` | `ShutdownEnds`, `SignalEnds`, `AtMostOneLateClient`, `HandleClosedOnce` | 3 clients, 2 shutdown requests, 1 signal, `CloseWakes`; listening and accepting may fail | holds |
| `web_client` | `SessionIsSent`, `AppIsSignedIn`, `HandlersEnd` | `init`, 1 login, 2 sign-offs and a shutdown at once, 2 tokens, any number of reloads | holds |
| `invoice_restart` | `NumberedInSequence` | one thread, one restart | violated |
| `search_old_words` | `StartForgetsOldWords` | one customer, edited | violated |
| `shutdown_data` | `AnswersAreSaved` | 2 clients, one of which asks for a shutdown | violated |

One run of each module also checks its `TypeOK`.

*Bounds.* Two threads are what it takes for every race listed: each hazard is between two handlers, or a handler
and a crash. Ids, tokens and words come in twos so that one can be disturbed while the other must not be;
`MaxUserId` counts the accounts the resets create as well, so 3 or 4 ids leave room for a restart and for accounts
created before and after it. `MaxTries`, `MaxTime` and `RateLimit` are chosen so that a full window, a whole
lockout and the attempt after it fit; a limit of one attempt makes every wrong password count, and the theorems of
section 6 cover the larger limits. `MaxItems` bounds the snapshots handlers read: concurrent updates can multiply
items without end. The statuses of `jobs` are the absent one and the two the code itself sets: the code compares a
status with nothing else. In `web_client` two tokens let a kept session meet a new one, and two sign-offs cover the
one that comes too late.

*Conditions.* Some properties are about a part of the behaviours only, and what happens outside it is in section 5.
`ActiveAdminRemains` is checked for one handler at a time and does not see two administrators who deactivate each
other. `KeepsLedger` is checked for one handler at a time and without crashes inside an update: it is about the
statements of one operation and their commits, not about two updates at once. `OnlyWholeInvoicesOnDisk` is about
invoices no update has touched, `MarksOutliveEdits` about jobs that no two handlers write at once. `SessionIsSent`
holds in every interleaving, but says only that the page's own variables agree; `AppIsSignedIn` is about handlers that
do not cross. `HandleClosedOnce` is about one cause of the end at a time.

*Deadlock.* The instances that set `CHECK_DEADLOCK FALSE` really stop: the process has exited (`shutdown*`), or the
bounded ids are used up (`invoice_*`, `jobs`).

## 4. Fairness

`AuthProps!FairSpec`: strong fairness of `Purge`, for the thread is a loop whose `lock_guard` waits for a mutex
that is free again and again; weak fairness of the steps of a handler that holds the mutex, since nothing blocks
it. Handlers need not start, clients need not come. `Lifecycle!FairSpec`: weak fairness of main and of each shutdown
thread, which are runnable threads once their sleep is over; none for clients, for the signal, or for `AcceptFails`: no
liveness rests on a failure that need not come. `WebClient!Fairness`:
each task's pending call is answered or breaks off in the end (the browser gives up on a dead connection), and the
handler then goes on, for the event loop runs every promise that is settled; none for what the user does, for
reloads, or for the end of a session.

## 5. What the models show of the code

Kept, although no test covers it:

- No interleaving of `login` and `deactivate_user` leaves a session of a deactivated account: `mu_` covers both
  statements, and a crash between them is made good by the reset at the next start.
- Wrong passwords against one account id are spaced by whole lockouts from the limit on, with any interleaving,
  because `mu_` covers look-up, bcrypt and count. (A restart makes new ids.) After a lockout ends, one more wrong
  password locks again at once.
- The rate limiter's window of a key is short by at most the wait for the mutex, its memory of a key is bounded by the
  limit, and refused attempts do not extend a refusal.
- A created invoice that no update has touched is on disk whole or not at all, though nothing begins a transaction:
  the open `INSERT ... RETURNING` delays the commit. The foreign key keeps edits from resurrecting a deleted invoice.
- A write can be lost to a crash only while some create is under way; once the last create is done, all is on disk.
- No edit, clock or spawn, whatever part of its body arrived, takes a recorded time or completion from a job, revives
  a deleted job, moves it to another customer or disturbs another job: `UPDATE jobs` leaves `deleted` and
  `customer_id` alone, and the routes only ever add marks. The single exception is the card of a job that two handlers
  write at once.
- Whatever the order of answers, the session the page holds is the one its calls carry; in every order a user may
  choose, one handler after the other, the application is shown only with a session. A login that waits for `init`
  never waits for ever.
- Every live customer matches its words, and is in every answer that is not cut at 20, whatever crash cut an earlier
  edit and whatever FTS5 refused. The exception is a customer that two handlers wrote at once, until the next edit
  that has it alone or the next start.
- If one thing ends the process, a shutdown request, a signal or a failure to listen or accept, the handle is closed
  once: the shutdown thread is done with it before it lets main out.

Disagreements with the documentation, each a run that ends in a violation:

- `invoice_restart`: the number counter restarts from the configuration (`router.cpp:147`), so the first invoice after
  a restart takes a number in use; `UNIQUE` refuses it and the client is answered 201 with id 0. `docs/SUPPORT.md:51`
  promises the counter resumes.
- `search_old_words`: the words a customer had before an edit stay in the index and survive the rebuild
  (`customer_store.cpp:106`), because the row is changed before its entries are deleted. `docs/CHANGELOG.md:79` says
  the indexes are rebuilt on every startup.
- `shutdown_data`: the thread of `POST /api/shutdown` closes the database while handlers run (`router.cpp:629`); a
  write that comes after it fails in `Stmt`'s constructor (`database.cpp:193`), the store swallows the error, and the
  client of a POST, or of a PUT past its `find`, is answered 201 or 200 as if it were stored (others get a 404).
  `docs/API.md:154` says the route flushes all data.

Noticed while modelling, in the models but without a run of their own:

- A user name in use answers 201 and creates nothing (`CreateUser`; `auth.cpp:146`, `docs/API.md:50` says 409).
- Header names are lower-cased (`server.cpp:196`), so with the documented `X-API-Key` (`docs/CONFIGURATION.md:63`) no
  key ever matches; `auth_service` configures `x-api-key`.
- The limiter counts an attempt from its stamp, not from when it is let through, so 60 seconds may see more than the
  limit of `docs/CONFIGURATION.md:64`.
- The limiter's key is what the request's headers say, else one constant for all (`router.cpp:304`);
  `docs/CONFIGURATION.md:64` says per IP.
- `/api/search` answers with at most 20 customers and 20 jobs, in no order (`router.cpp:795`): with more matches,
  which of them are shown is not determined.
- Any failure of `accept` ends the server (`server.cpp:346`), and main may then close the handle beside a shutdown
  thread. A port that `bind` is refused ends it as well, or leaves it listening where nobody connects, without a word
  (`server.cpp:341`).
- With an `auth.admin_role` other than admin no administrator exists after a start (`main.cpp:106`).
- The overdue check writes back rows it read before (`router.cpp:899`): a payment recorded meanwhile is overwritten,
  although `docs/BILLING.md:61` calls Paid terminal.
- On POSIX systems (`CloseWakes = FALSE`) closing the socket does not wake `accept` (`server.cpp:354`): `ShutdownEnds`
  fails, and after `POST /api/shutdown` the process stays, its database closed, until one more client connects.
- `POST /api/jobs` does not read `recurring` or the interval `docs/API.md:85` documents, and `job_json` does not show
  them (`router.cpp:54`), so no job the application created can be spawned from. A job can be spawned from any number
  of times, and after it was deleted. A job for an unknown customer is answered 201 with id 0.
- The time route starts a job on `time_end` (`router.cpp:1043`); `docs/API.md:178` and the changelog say on start.
- Two writes of one job at once lose the first one's times or completion (`router.cpp:487`, `1037`).
- A login sent while `init` still probes meets the restore of a kept session: the restore that fails clears the
  session the login has just got, and the login goes on to show the application without one (`app.js:616`, `737`).
  `AppIsSignedIn` excludes handlers that cross, and fails without that condition.
- Two POSTs at once may take one number (`invoice_store.cpp:90`, against `docs/BILLING.md:24`).
- Two updates of one invoice can interleave and leave a total that is not that of its items (`invoice_store.cpp:132`,
  against `docs/BILLING.md:46`), and a crash inside an update loses items.
- While an `INSERT ... RETURNING` is open no write of any thread is committed: a DELETE answered then is undone by a
  crash.
- Two administrators who deactivate each other at once leave none until the next start.
- Two shutdown requests, or one beside a signal or a failed `accept`, can close the handle twice; handlers that
  outlast the 400 ms use a closed handle; a signal before `running_ = true` is lost.

## 6. Proofs

All proofs are for arbitrary constants: any number of threads, ids, tokens, words, clients and handlers. The
assumptions are the named `ASSUME`s of the modules: bounds are natural numbers, null values are no rows, tokens and
keys differ, the session time, the number of attempts and the limit of a search are positive, the set of shutdown
threads is finite, the tasks of the page have different names, and the sum of every list a request may carry is a
natural number. The last one is true of any natural amounts; it is assumed because `Sum` is a fold, about which
nothing can be proved without induction over data. TLC evaluates it, and no proof uses anything else of `Sum`.

- **`AuthProofs`**: `TypeCorrect`, `DeactivationTheorem`, `ExhaustedTheorem`, `LockoutTheorem`. `AuthProps!IndInv`
  adds to the properties: `LockDiscipline` (the thread in `mu` is the one inside `login` or `deactivate_user`),
  `RequestersExist` (a login past its checks is of an active, unlocked account: no step of another thread can change
  that while `mu_` is held), `FailsCounted` (`failed_logins` is the number of wrong passwords since the last clear),
  and `OnlyKillersLeaveSessions` (a session of an inactive account exists only while the thread that deactivated it
  has its second statement to run). Without the last, `DeactivationKillsSessions` says nothing of states in which the
  mutex is held, and is not inductive.
- **`SessionProofs`**: `PromiseTheorem` (the refinement `Spec => KeepsSessionPromise`: any number of threads, any
  crash) and `AdminTheorem`. For the refinement, a row is a grant only if its account is active, so the step that bars
  a user is `DeactivateMark`, at which all of her grants go at once, though the rows go in `DeactivateKill`;
  `KillersBarred` says that the deletion then takes no grant of anybody else's. `AdminTheorem` assumes one handler at
  a time (`\A t, u \in Thread : t = u`), as the run of `ActiveAdminRemains` does, and `AdminRole = "admin"`: with two,
  two administrators deactivate each other. Its invariant is `DeactivatorsAreAdmins`: whoever is past the check and
  about to deactivate an account is an active administrator and not that account.
- **`RateLimiterProofs`**: `TypeCorrect`, `MemoryTheorem`, `LimitTheorem`, `RefusedTheorem` (an action property).
  `RateLimiter!IndInv` needs `RecentRemembered`: an attempt admitted less than `Window - MaxWait` ago is still
  remembered, for whatever call would forget it has a stamp of its own at most `MaxWait` old (`WaitsBounded`). Were
  the attempt `RateLimit` places back that recent, it and all that were admitted after it (`AdmittedInOrder`) would be
  remembered, as many as the limit: but then the window was full and the new one was refused. The count is an
  injection from a range of numbers into the set of what is remembered. `KeyOf` enters only by its type.
- **`InvoiceProofs`**: `TypeCorrect`, `WholeTheorem`, `RemovedTheorem`, `DurableTheorem`, `LedgerTheorem`.
  `InvoiceProps!IndInv` ties the three copies of an invoice together. `WholeOrAdding` says of what the connection sees
  that an untouched invoice lacks exactly the items its add has still to insert; `HandlersInOrder` that such an add
  has its INSERT open, and that no two adds have one invoice. So when `open` is empty every untouched invoice is
  whole, and that is the only time `disk` takes over `db`; `DurableWhenNoCreate` is what makes the restart (`db' =
  disk`) keep the rest. `WellFilled` (no items without an invoice, no rows above the counter) and `RemovedWereUsed`
  give `RemovedStaysRemoved`: a new invoice never takes an id that was deleted, and the foreign key refuses the rest.
  `LedgerTheorem` is the refinement `Spec => KeepsLedger`, under the two conditions that property has: one handler at
  a time, and no crash inside an update (`CrashPoint` without `clear` and `refill`). Both are needed: section 5 names
  what happens without. On top of `IndInv` it uses `InvoiceProps!LedgerInv`: the invoice of an open add is all that
  `db` is ahead of `disk` (`NewInHand`), so the commit in `PostAnswer` issues it whole; what an update has read is
  still one of the ledger's changes to the invoice as it is (`SnapshotsCurrent`), so `UpdateRow` is the edit; and the
  total on disk is that of the items shown (`TotalsShown`), so the total it recomputes is the one it had. `Delete` is
  the ledger's own; all other steps are stutters.
- **`JobsProofs`**: `TypeCorrect`, `MarksTheorem` (an action property), `BookTheorem` (the refinement `Spec =>
  KeepsJobBook`). `Jobs!IndInv` needs `IdsInOrder`, `HeldExists`, and `CardsInHand`: a job's only writer holds a card
  that is one of the book's changes to the card the job *still* has. That is what a clash destroys, hence `clashed`;
  it is also why the refinement maps a clashing job to `Unsure` when the second handler reads, not when it writes.
- **`WebClientProofs`**: `TypeCorrect`, `SentTheorem`, `SignedInTheorem`. `SessionIsSent` is inductive given `TypeOK`.
  `AppIsSignedIn` needs `OneAtWork` (handlers that do not cross are at work one at a time) and `MeIsCurrent` (so the
  session a handler asked the server about is still the page's when the answer comes).
- **`CustomerProofs`**: `TypeCorrect`, `FoundTheorem`, `RemovedTheorem`. `CustomerStore!IndInv` needs
  `WritersHaveRows`, `OverlapsNoted` (two handlers of one customer are recorded) and `WordsInHand` (a handler alone
  with its customer still has the row's words in hand, so the INSERT that ends it restores the entries the DELETE
  took); `SettledAreIndexed` is `FoundByOwnWords` in terms of the index, from which what a search may answer follows
  for every `Limit`. `DeleteFacts` says the one thing the proof uses of FTS5: a DELETE takes entries of the rows it is
  asked for and no others, whether it succeeds or not.
- **`LifecycleProofs`**: `TypeCorrect`, `LateClientTheorem`, `CloseTheorem`. The last has a case for each cause of the
  end. With one shutdown request and nothing else, `Lifecycle!IndInv` needs `StopHasCause`: unless a signal came, or
  listening or accepting failed, main is out of its loop only if a shutdown thread has called `stop`, and by then that
  thread has cleared `db_` (`ClosedBeforeStop`), so main finds nothing to close (`ClosesCounted`). With no shutdown
  request main is the only one to close (`MainClosesAlone`), whatever signals and failures came.

Each invariant was first checked by TLC on the instances of section 3.

Only model-checked: what needs fairness (`ExpiredSessionsAreDeleted`, `ShutdownEnds`, `SignalEnds`, `HandlersEnd`),
which is outside the prover's reach. Every other property of a passing run is a theorem.

## 7. Abstractions worth knowing

- A crash is a crash of the process: what SQLite committed survives (`synchronous=NORMAL` in WAL mode).
- A crash inside `CustomerStore::add` is left out; its `INSERT ... RETURNING` would be rolled back as in `Invoices`.
- `Jobs` has no restart: each of its writes is one statement, and what an `INSERT` left open by an invoice's add can
  do to the writes of other threads is in `Invoices` (`DurableWhenNoCreate`).
- The words of a job in `jobs_fts` are kept by the statements `CustomerStore` models, in the same order.
- `login`'s statements are one step apart from the passing of time; all of them run under `mu_` and only other
  `mu_` holders and the account reset write those rows.
- Entries of `rate_map_` are never removed; the number of keys is unbounded by construction.
- The redirect server of the TLS setup guide, which nothing stops, is not part of `Lifecycle`.
- `loadDashboard`, the last thing `init` and a login await, catches all its errors and changes neither session nor
  screen; in `WebClient` the handler ends before it.

## 8. Not modelled

- *HTTP parsing and routing*: pure functions of one request and of a table fixed at start; what they decide wrongly
  a unit test shows. What enters the models is the lower-casing of header names (`Auth`) and that one `recv` is a
  request (`Jobs`).
- *Configuration*: a parser that runs once; its values are constants.
- *Chemical records*: routes of one statement each on a table nothing else reads.
- *Views of the web client*: each asks and renders, and keeps nothing that a later answer depends on. Two answers out
  of order leave the older one on the screen until the next load.
- *Reports and exports, text formats (JSON, CSV, HTML, e-mail), static files, TLS*: one snapshot, formatted.
- *Logger* (one mutex around one stream), *infrastructure stubs* (constant answers), `hard_delete` and what else no
  route calls.
- *Third-party code*: `openssl-prebuilt/` and `third_party/` hold about nine tenths of the repository's lines, mostly
  headers. They are used, not part of this program; what the program relies on is in the models as external
  definitions: SQLite's commit rule and foreign keys, FTS5's delete, `accept`, `fetch`. The program's own code is
  about 3,300 lines of C++ and 1,300 of JavaScript, and most of the latter builds HTML.
