# Nafil backend: TLA+ models, model checking and proofs

Nafil runs gated estates: who lives and works in an estate, who passes its gate,
what residents owe and sell. Almost all of its logic is in the database: row-level
policies, triggers and `SECURITY DEFINER` functions in `supabase/migrations`, called
directly by the mobile app. A small FastAPI service (`app/`) adds what the database
cannot do: jobs on a timer, push delivery, reports, account deletion.

So the interesting behaviour is that of **concurrent transactions**. PostgREST runs
every RPC and every table write in one READ COMMITTED transaction. Many functions
read a row, decide, and write it later by id; some take a row lock first, some do not.
A unit test runs one call at a time and sees none of this. These modules run them
overlapped, statement by statement.

## 1. Inventory

| part | state | operations | modelled in |
|---|---|---|---|
| Payments | `transfers`, `dues`, `wallets`, `wallet_transactions` | submit, confirm, reject, contest a transfer; `pay_dues_from_wallet`; finance writes dues | `Payments`, `AtomicDues` |
| Marketplace | `listings`, `orders`, and the transfers that pay orders | place, cancel an order, set its status by hand; set, suspend, reinstate, delete a listing | `Marketplace` |
| Gate | `visitor_passes`, `visitor_logs`, `scheduled_visits`, `household_members` | issue, scan, revoke, check in; the jobs of `scheduler.py`, every 15 minutes | `Gate` |
| Membership | `profiles`, `estate_join_requests`, `staff_invites`, `household_invites`, `household_links` | request, approve, reject, invite, accept, revoke; admins edit profiles; accounts are deleted | `Membership` |
| Push delivery | `push_tokens`, pg_net's queue, the threads of the API, Expo's view of devices | register a device, queue one request per statement, broadcast an emergency, send in chunks, prune | `Push` |
| Issues | `issues`, `issue_comments`, `issue_activity` | report, move, comment, delete | `Issues` |
| Authentication | the cache of signing keys in each API process; `profiles.role` | verify a token, refill the cache; read the role | `Auth`, `Accounts` |
| Account deletion | `auth.users` and what references it | delete one's account, try again; remove a user | `Accounts` |
| Developer dashboard | `devcontrol_test_flags` over users and estates | overviews and lists of a live and a test view; set a flag | `DevControl` |
| Migrations, deployment | `schema_migrations`, the schema, the tree on the server, the container | baseline, apply and record, build and restart | `Deploy` |
| Announcements, security alerts | `announcements`, `security_alerts` | post, edit within a window, mark addressed | planned |
| Notification triggers | `notifications` | one insert per event | only where a notice tells an outcome (`Payments`, `Gate`, `Membership`, `Issues`) |
| Reports, codes, visibility policies, configuration, seed, proxy, backup | - | reads, layout, single-row updates, static data | not modelled: no state a second step depends on |

How the parts interact:

- `profiles` (estate, role, household access) is what every policy reads; Membership
  decides it. The other modules take people and households as constants.
- `transfers` is shared: its purpose is a top-up, a due (Payments) or an order
  (Marketplace). Each module models the purposes it needs, with the same RPCs.
- Confirming a transfer writes wallets, dues or orders; rejecting one cancels its
  order and puts the good back on sale, whoever else may have ordered it by then.
- Triggers turn status changes into `notifications`, and a statement trigger turns
  those into one HTTP request to the API, which pushes them through Expo.
- The scheduler runs inside every API worker and updates the rows that residents and
  officers are updating.
- Every request to the API is verified against keys cached in its process, and may do
  what the role on the profile allows when it begins; its token outlives the account.
- A deployment changes the schema under the running API and only then replaces it.

What is hard here, and what each part has to keep right:

| part | hard behaviour | what must hold |
|---|---|---|
| Payments | two people of a household pay the same dues; batches lock several rows; confirmation overlaps with payment; integer wallets | no due debited twice, wallets differ from their ledger rows only by dues paid by bank transfer, a settled due is paid, a payment is all or nothing, every call ends |
| Marketplace | placing, cancelling, paying and moderating one good overlap | one live order per good, a live order holds its good, a paid order is cancelled only by rejecting its transfer or by hand, a suspension sticks |
| Gate | two officers, a resident and the jobs meet on one row; a worker dies | a pass admits once, ends once; the review date of a card is not left over from an earlier cadence; whatever runs out of time is retired in the end; revocation sticks |
| Membership | two reviews of one request; approval, invitation and acceptance overlap; access is stored twice; rows are inserted with any status; links go with accounts | the copy on the profile matches the link, applicants are told what stands, nobody regains access without being invited, one layer of households |
| Push | a trigger and a client push the same thing; a chunk fails or a worker dies half-way; a device changes hands meanwhile | no device gets an event twice, one bad chunk costs no other, only dead tokens are pruned, a device is its caller's |
| Authentication | threads refill one cache without a lock and overtake each other; keys rotate, their endpoint is down | a withdrawn key is soon refused and a new one soon accepted, an outage refuses nobody right after a refill |
| Accounts, dashboard | the Admin API fails or times out, also after it has deleted; roles change under a request; an overview is several statements, its lists are further requests; rules meet NULLs | a client is told the truth about its account, staff do not delete themselves, everybody is counted in one view |
| Deployment | a run dies at any command; one by hand overlaps with the workflow's; the tree moves | records have no gaps, nothing is applied twice, no code before its schema |
| Issues | reporter and admins move one issue at once, from different screens; a comment crosses a reopening | the log is one chain, every change is told once and in order, comments belong to a resolution |

`PROJECT.json` lists each hazard with its line in the source and the properties on it.

## 2. Modules

| module | what it is |
|---|---|
| `Payments` | the money RPCs statement by statement, with row locks, waiting and the deadlock check |
| `AtomicDues` | the abstract specification: a payment of dues is one step |
| `MCPayments`, `Payments_proofs` | instances for TLC; theorems |
| `Marketplace`, `MCMarketplace`, `Marketplace_proofs` | listings, orders and their transfers |
| `Gate`, `MCGate`, `Gate_proofs` | passes, visits, cards, the scheduler in its workers |
| `Membership`, `MCMembership`, `Membership_proofs` | requests, invites, links, profiles |
| `Push`, `MCPush`, `Push_proofs` | tokens, requests, the threads that send them |
| `Issues`, `MCIssues`, `Issues_proofs` | issues, their comments, log and notices |
| `Auth`, `MCAuth` | the cache of signing keys of one API process and the threads that use it |
| `Accounts` | accounts, their roles, and the deletion of one's own |
| `DevControl`, `MCDevControl` | the developer dashboard, which extends `Accounts` |
| `Api_proofs` | theorems about `Auth`, `Accounts` and `DevControl`, the parts inside the API |
| `Deploy`, `MCDeploy`, `Deploy_proofs` | migrations, their records and the start of new code |

### How code becomes actions

A **session** stands for a request in progress. `call[s]` holds where it is (`pc`) and
the values its PL/pgSQL function has in variables. One action is one statement
after which others can come in:

- A plain `SELECT` reads committed rows and takes no lock: an action that only
  stores what it read (`ConfirmRead`, `ReviewRead`, `AcceptVouch`).
- `SELECT ... FOR UPDATE` and `UPDATE` wait for the row lock and then see the newest
  committed row (`PayLockDue`, `CancelLock`).
- The writes of a transaction become visible when it commits. They are in its last
  action, triggers included; the locks it took before are released with it.
- `RAISE`, a refused policy and a dropped connection end a call without effect
  (`Raise`, `Rollback`, `Abandon`).
- An insert or update under a policy alone is one action: the policy is evaluated on the
  row version that is locked.

The modules of the API (`Push`, `Auth`, `Accounts`, `DevControl`) follow the same rule with
threads and requests: an action ends where another thread or another transaction can
come in. In `Deploy` the actors are processes, and an action is one command.

In `Payments` locks are explicit, since who waits for whom is a question there:
`dueLock`, `walletLock`, `WaitsFor`, and `DeadlockAbort` as Postgres's check. In
`Marketplace` only `cancel_order` keeps a lock from one statement to a later one
(`orderLock`), and in `Push` only `register_push_token` does (`lock`). In `Gate`, `Issues` and `Membership` no lock spans two actions; a deadlock between
the final writes of two calls of `Membership` shows as `Rollback`.

What is abstracted: amounts are small integers with the width of `integer` as
`MaxInteger`; names, codes, units, labels, photos, texts and estates other than the
caller's are left out; deadlines are booleans ("has passed") that an action of time
sets. `'overdue'` behaves as `'due'` in every statement and is one value.

### Correspondence

- **Payments.** `transfers`, `dueStatus`, `balance` are columns; `posted` and `debited`
  are what `wallet_transactions` says per transfer and per due: `posted` counts the rows of
  `confirm_transfer`, which are worth the amount of a top-up and minus the amount of a due
  (0026:390, 393; `TransferRows`), though the wallet does not change for a due. `SubmitCheck`/`SubmitInsert`
  are the insert with its trigger (0065); `ConfirmRead`, then `ConfirmTopup` or
  `ConfirmDue`, then `ConfirmPost` are `confirm_transfer` (0026); `RejectRead/Write`,
  `ContestRead/Write` its siblings; `PayBegin`, `PayLockDue`, `PayCount`, `PayLockWallet`,
  `PayCommit` are `pay_dues_from_wallet` (0056); `AssignDue`, `MarkDuePaid`, `ReopenDue`,
  `DeleteDue` are the writes finance makes directly.
- **Marketplace.** `PlaceCheck`/`PlaceInsert` (0065, 0056), `MoveGood` the trigger that
  takes a good off the market and marks it sold (0022), `CancelLock`/`CancelScan`/
  `CancelKeep`/`CancelRelist` are `cancel_order` (0065). `EditOrder` is the update that the
  policy `orders_update` (0026:134) gives to the seller and to estate admins: any status,
  from any status, whatever the app offers. `Suspend`, `Reinstate`, `SellerSets`,
  `DeleteListing` are the writes of listings.
  `disturbed` is history: a step disturbs a good if it is a placement after another order
  has come to hold the good, the confirmation or rejection of a transfer whose order is
  cancelled already, or a status set by hand against the other table (`Disturb` stands
  where the step is). `GoodMatchesOrders` speaks of the other goods, whatever overlaps.
- **Gate.** `ScanPass`, `FlipPass`, `LogPass` are the three requests of an officer's app
  for one pass; `CheckInRead/Write` and `ScanCardRead/Write` the two RPCs; `Recomputes`,
  `NextReview` and `WriteCard` the trigger that computes a card's review date (0055) in three
  cases and leaves any date a statement writes in the others: `IssueCard` and `EditCard` let
  the resident write every column, as the policy does (0056:419). `dated` is history: the
  cadence a date was computed from, or `"hand"`; `ExpirePasses`,
  `ExpireVisits`, `ReviewCards` the jobs; `Crash` and `Restart` the worker that runs them.
- **Membership.** `ReviewRead`, `ApproveWrite`, `RejectWrite` with the notice trigger in
  `Review`; `AcceptCaller`, `AcceptFind`, `AcceptVouch`, then `AcceptJoin` or
  `AcceptRefuse` are `accept_household_invite` (0059) with its three selects;
  `StaffCaller`, `StaffFind`, `StaffByEmail`, `StaffJoin` the two acceptances of staff
  invites (0061, 0066); `SyncedLevel` the trigger that copies a link to its profile, on
  insert and update (0056:155). Requests and invites are inserted with the statuses in
  `Inserted`, since the policies look at none (0005:72). `EditProfile` is an admin's update
  of their own profile or one of their estate (0026:153); for anybody else the trigger undoes
  such an update (0056:49). `DeleteProfile` takes what cascades from an account, its links and
  those to it included, of which no trigger takes notice, and is refused while `Referenced`.
  A row that is gone keeps its place as history (`"deleted"`, `gone`), and a call that finds
  its row gone ends in `Rollback`. `reviewer` and `taken` are `reviewed_by` and
  `accepted_profile_id`, set only by reviews and acceptances; `edited` and `levelByHand`
  are history.
  Roles that can be invited are those of the check constraint (0007:38), which admits
  no `finance`.
- **Push.** `Register`, `RegisterDelete`, `RegisterInsert` are `register_push_token`
  (0033) with its two statements; `Overtaken` is what a blocked DELETE and the other
  callers see when a token gets an owner. `InsertNotifications` is a statement with its
  batch trigger (0041), `CallBroadcast` the emergency broadcast of the client; `Refuse` the limits of
  `schemas/push.py`; `Handle`, `ChunkFails`, `ChunkAnswered`, `Prune` are the two
  handlers around `send_push_messages`. `SetToSeqs` gives the messages any order, as
  the query has none.
- **Issues.** `UpdateBegin`, then `UpdateStatus`, `UpdateSame` or `UpdateNothing` are the
  update of a row: the policy sees the snapshot, the triggers (0031, 0047) see the row
  as it was locked. `CommentBegin`, then `CommentInsert` or `CommentOnNothing` are the
  insert of a comment, whose policy asks for `resolved` and locks nothing.
- **Auth.** `Begin` reads the token's header and the clock, `Look` decides whether the
  cache serves, `Answered` and `Unavailable` are the endpoint, `Store` and `Stamp` the two
  assignments that refill the cache, `Accept`, `Refuse` and `RefuseUnknown` the end
  (`security.py`). `Publish`, `Withdraw`, `Tick` and `Crash` are the world. `from`, `until`,
  `refilled` and `seen` are history, for the properties. Signatures and claims are
  abstracted: a token whose key is there is accepted or, for any other fault, refused.
- **Accounts.** `DeleteBegin`, `DeleteRole`, then `AdminDeletes`, `AdminMissing`,
  `AdminErrs` or `AdminTimesOut`, then `Succeed` or `Fail` are `delete_account` (`account.py`) with the
  dependency that reads the role; `deletion[s]` is the request. `AdminErrs` is every answer but
  200, 204 and 404 and can come at any time, of an account that lives, is referenced or is
  gone, before or after the deletion. `SignUp`, `SetRole`, `Refer` and `Remove` are what else
  happens to an account.
- **DevControl.** `RequireRole` is the dependency of every endpoint; `OverviewRead` is one
  counting statement, `OverviewOther` the one of the other view; `AskLists`, `ListsRole`,
  `Lists` the requests that follow; `FlagExists`, `FlagWrite`, then `FlagAnswer` or `FlagLost`
  are `set_flag` with its two transactions. `RuleTest`, `ManualTest` and `UserView` are the
  SQL expressions in SQL's three-valued logic: a resident without an estate makes the
  terms about estates unknown.
- **Deploy.** `Pull` or `ByHand`, `Table`, `Count`, `List`, then `Apply` per file, `Applied` and
  `Up` are `deploy.sh` with `migrate.sh`; `BaselineBegin`, `BaselineExisting`, `Record`,
  `Baselined` are `migrate.sh --baseline`. `ApplyFails` is a migration that fails or whose
  record exists, `Die` a run that ends between two commands, `Tear` one that ends while it
  feeds `psql`, which commits what it got. `twice` and `torn` are history.

## 3. Runs

| run | instance | checks | shows |
|---|---|---|---|
| `payments` | 2 sessions, 2 residents of one household, 2 dues, 2 transfers, balance up to 4 | `TypeOK DebitedOnce BalanceMatchesLedger SettledDueIsPaid NoticeTellsOutcome OnlyBatchesDeadlock ImplementsAtomicDues` | dues are right in every overlap and wallets differ from their ledger rows by the dues paid by bank transfer alone; batches that lock dues in different orders deadlock, nothing else does |
| `payments_live` | 2 sessions, 1 resident, dues reopened, fair | `EveryCallReturns` | no call waits for ever |
| `payments_twice` | 2 sessions | `ChargedOnce` violated | two overlapping `confirm_transfer` calls post one transfer twice |
| `marketplace` | 2 sessions, a good and a service, 3 orders, 1 transfer | `GoodMatchesOrders PaidIsNotCancelled SuspendedIsFrozen` | goods agree with their orders in every overlap but those listed below; the lock of `cancel_order` and the policy of 0025 do what they are for |
| `gate` | 2 officers, 1 worker, one pass, visit and card, 2 cadences, fair | `PassAdmitsOnce DateIsCurrent PassesEndOnce RevokedUntilResident NothingStaysStale` | single use and final statuses hold; no review date is left over from another cadence or an earlier time as an active card; the jobs reach everything |
| `membership` | 2 sessions, founder and 2 people, 1 request, 2 household invites, edits, deletions | `LinkDecidesAccess NoticeTellsDecision RevokedUntilInvited` | the copy of access, the notices and revocation survive every overlap, also with edits of profiles and deletions of accounts |
| `membership_serial` | 1 session, founder and 2 people, 1 request, 2 invites of any kind, edits, deletions | `AccessMatchesDecisions NoSecondLayer` | one call at a time, access is what was decided and households have one layer |
| `push` | 2 sessions, 1 thread, 2 people, 2 devices, 1 event, chunks of one | `PushedOnce EveryDeviceTried PrunesOnlyDead RegisteredIsMine` | delivery is at most once on every path, failures are contained, a device ends with its caller |
| `issues` | 2 sessions, a reporter, an admin, one issue moved up to 3 times, 2 comments | `ActivityChains ToldOfEveryChange CommentsWhileResolved` | log and notices agree with the row however updates overlap |
| `auth` | 2 threads, 2 keys, TTL 2, verifications of at most 1, 6 ticks | `AcceptsOnlyRecent RefusesOnlyNew OutageHurtsOnlyOld` | the unlocked cache is late by at most the TTL and two verifications |
| `devcontrol` | 1 deletion, 1 developer, 2 users, 1 estate, 2 statements, lists of 1, 3 changes | `DashboardTypeOK CountedOnce ListsWhatItCounts DeletionAnswersTrue StaffStay AnswerIsCurrent` | the views split everybody also with NULLs; deletions and their retries are answered truly while the Admin API fails at any moment |
| `deploy` | 1 run of the workflow, 2 by hand, 2 given and 2 new migrations | `RecordedInOrder AppliedOnce SchemaBeforeCode` | overlapping and dying runs leave records without gaps and code with its schema |

`payments_twice` is a run of the code, not a slip of the model: `confirm_transfer` says
of a transfer that it is "already resolved" (0026:381) after a look that takes no lock,
and its update does not look again. `ChargedOnce` fails in two more ways: a due paid in the
meantime is charged once more, since confirming does not look at it (0026:391), and a
transfer can be contested back to `pending` after it was confirmed by an overlapping
call (0027:45).

Some properties except what the code does not rule out; each exception is in the
property's comment and was needed for TLC to agree:

- `BalanceMatchesLedger` has a term for dues paid by bank transfer: `confirm_transfer`
  writes them to `wallet_transactions` (0026:393), and the wallet does not change.
- `GoodMatchesOrders` excepts a good from one of three steps on: a placement that passed
  its check before another one took the good (0065:101), a transfer resolved for an order that was cancelled meanwhile (0026:395),
  and a status of an order or a listing set by hand against the other table (0026:134).
- `PaidIsNotCancelled` excepts the rejection of a transfer for that order, and the seller
  or an admin who cancels the order by hand.
- `DateIsCurrent` excepts a date the resident wrote without changing cadence or status.
- `LinkDecidesAccess` excepts a level that stands as an admin wrote it, and says of a member
  whose link went with the account of the head of the household that the level stays what
  it was. Such a member keeps, say, `full` with no household; nobody can revoke a link that
  is not there (0056:316), nor invite them anew, since an approved resident without a link
  is refused (0059:112).
- `RevokedUntilInvited` excepts edits by admins and the deletion of the account. It is about
  the step that restores access: a second acceptance of the same invite that was under way
  when access was revoked is such a step, since no acceptance looks at the invite again.
- `NoSecondLayer` and `AccessMatchesDecisions` except people an admin has edited.
- `AcceptsOnlyRecent` and `RefusesOnlyNew` allow two verifications beyond the TTL, not
  one: a refill that read its answer early can be stored after a newer one, under the
  newer one's stamp.
- `AppliedOnce` excepts a migration torn from its record (`migrate.sh:93`) and an
  interrupted baseline (`migrate.sh:56`), after which the next run applies what the baseline
  had still to record, though `deploy/self-hosted/README.md:219` says that it "can never
  replay" them.
- `SchemaBeforeCode` excepts a tree that moves between the listing of its migrations and
  the build (`deploy.sh:16`): the concurrency group of the workflow does not know of runs
  by hand.
- `StaffStay` excepts somebody who is made staff between the check of the role and the
  call to the Admin API.
- `DeletionAnswersTrue` does not promise that a deletion succeeds, nor that a retry for an
  account that is gone is told so when the Admin API fails or times out once more
  (`account.py:51`). `account.py:15-18` says
  that everything cascades; the references at 0001:75, 0001:111, 0005:57, 0007:27, 0007:37,
  0020:75, 0044:22, 0047:16 and 0056:80 do not, so that somebody who, say, reviewed a
  request when they were staff gets 502 for good.

`membership_serial` has one session because its properties fail with two: a review
overlaps another, an approval and an acceptance overlap and a household is put under a
household. They are stated because the code means them and because the sequential logic
alone could break them; the hazards say at which line the overlap bites. The theorems
about them hold for any number of sessions as long as no two calls overlap with each
other, and edits and deletions come between calls.

### Bounds

- Two sessions: every hazard listed is between two calls. With row locks a third could
  only lengthen a deadlock cycle, which `OnlyBatchesDeadlockCorrect` proves for any number.
- Two dues are the least for which lock orders can cross; a third repeats them. Two
  transfers allow a second one for the same charge. Balances to 4 with dues of 1
  and top-ups of 2 reach exact, short and full wallets.
- `MaxPosts = 1` stops a transfer from being confirmed a second time after it was
  contested: `payments_twice` needs only overlap.
- Three orders let an order be cancelled, another live and a third come; a service besides
  the good has requests that overlap with those of the good.
- One pass, visit and card: rows of a kind never meet, only requests for one row do.
  Two cadences let a date belong to another cadence than the card's. `MaxCheckIns` bounds
  the log of a visit; `HandDates` are the dates residents write by hand, of which the
  absent one is the one no job ever comes to.
- In `Membership` two invites allow a re-invitation after a revocation; two people besides
  the founder are an inviter and a member, and the founder can be either once an edit has
  made them a resident. One request is enough for what overlaps, since requests meet only
  in the profile they approve. `Inserted` has the rows a client inserts as pending and as
  approved; a rejected one has no effect. `EditedTo` makes people residents of full standing:
  members, staff and the admins themselves. Staff roles are left to the serial run
  (`Roles = {}` in the other): their RPCs write one profile and one invite by id, like
  an approval.
- `Push` has one event because events share nothing but tokens and threads. Chunks of
  one with two devices make the second chunk, the one that can be skipped or matched
  with the wrong tickets. Two people and two sessions are the least for a device to
  change hands while somebody is waiting for its row.
- `Issues` needs a change, one that overlaps with it and one after both: three. Ids of
  issues are used once.
- `Auth` needs two threads for one refill to overtake another and two keys for a rotation.
  The clock (`Horizon`) runs for longer than the TTL and two verifications, so that every
  bound can be reached and exceeded. `Patience` is the longest verification: the request to
  the endpoint has a timeout.
- `DevControl`: two users, one of them with an address for tests, an estate and lists of
  one make a view with more members than a list shows; three changes (`MaxChanges`) are
  one before, one during and one after an overview. Two statements are the least between
  which a change can fall.
- `Deploy`: two new migrations make one that follows another's failure, two given ones a
  baseline that can be cut in half; two runs by hand overlap with each other and with the
  workflow's. `Last` bounds the merges.
- Symmetry is used only where the instance treats the values alike, and in no run
  that checks liveness.
- Types are checked in `payments` and `devcontrol` and proved for every module.

`Marketplace`, `Issues` and `Membership` may stop (`CHECK_DEADLOCK FALSE`): all orders are
used and every listing is gone, every issue was reported and deleted, or every account was
deleted. The others cannot deadlock.

### Fairness

- `Payments!FairSpec`: strong fairness of each session's next statement, since the
  database serves lock queues in order and a lock is free again and again; weak
  fairness of the deadlock check, which Postgres runs after `deadlock_timeout`. Nobody
  has to begin a call.
- `Gate!FairSpec`: strong fairness of each job over all workers, since APScheduler
  fires it every interval on a worker that is up, and workers may crash in between;
  weak fairness of restarting, since the container has `restart: unless-stopped`.
  Residents and officers owe nothing.

## 4. Proofs

`tlapm` proves, for any number of sessions, rows and people:

| module | theorem | argument |
|---|---|---|
| `Payments_proofs` | `TypeCorrect` | `MoneyInv`: types, what a call's variables mean (`CallOK`), and that whoever writes a wallet holds its lock since the balance was compared (`WalletOK`). Needed because "balance within `0..MaxInteger`" is decided statements before the write |
| | `NoticeTellsOutcomeCorrect` | inductive with the types: every write of a status writes its notice, unless it changes nothing |
| | `DebitedOnceCorrect` | assumes `~ReopenDues`. `DuesInv`: a payment that has counted its dues holds their locks and they are unpaid (`DueOK`), a transfer names an assigned due, and a debited due stays paid |
| | `DebitsOnlyUnpaidCorrect`, `SettledDueIsPaidCorrect` | the same invariant: at `PayCommit`, and since no step takes a due back |
| | `OnlyBatchesDeadlockCorrect` | the same, with `LockOK`: a payment has locked what it asked for and has not yet struck off. Who has a wallet's lock waits for nobody, so the members of a deadlock are locking dues; each holds one and wants another |
| | `AtomicDuesCorrect` | the same: with `AtomicDues` as `INSTANCE ... WITH`, `PayCommit` maps to `Pay`, posting a top-up to `TopUp`, writes of finance and of confirmed dues to `Desk`, everything else to a stutter |
| | `BalanceMatchesLedgerCorrect` | `LedgerInv`: the same types and locks, and that a transfer that does not exist has posted nothing. A post of a top-up raises one term of a wallet's transfer rows, one of a due lowers it and raises what was paid past the wallet (`ConfirmPostLedger`), a payment raises one term of its debits per due in the batch and the wallet falls by their total (`PayCommitLedger`). No assumption about finance |
| | `PostedAsConfirmedCorrect`, `ConfirmedIsFinalCorrect` | of behaviours in which no two calls are about one transfer at a time (`ResolvedAlone`), and in no other way restricted. `ResolvedInv`: a call that has found a transfer pending, or rejected, finds it so when it writes. Overlap of such calls, which `payments_twice` exhibits, is therefore all that posts a transfer twice |
| | lemmas on sums: `SumUnfold`, `SumsExist`, `SumsAny`, `SumChange` | the community modules define `SumFunction` by a fold whose order is a choice; that the order does not matter, so that changing one term changes the sum by that much, is what the ledger needs |
| `Marketplace_proofs` | `TypeCorrect`, `PaidIsNotCancelledCorrect` | `CancelInv`: a session past `CancelLock` holds the order's lock, nobody else does, and the order still awaits its transfer |
| | `SuspendedIsFrozenCorrect` | case by case: whatever writes a listing writes it from `active` or `sold` |
| | `GoodMatchesOrdersCorrect` | `GoodInv`: rows keep what they refer to, a call names the row it is about (`NamedOK`), and an undisturbed good that a cancellation has decided to leave as it was has not become sold since (`KeepOK`). No restriction on what overlaps |
| `Gate_proofs` | `TypeCorrect`, `PassAdmitsOnceCorrect`, `PassesEndOnceCorrect`, `RevokedUntilResidentCorrect` | `GateInv`: at most one officer is between flipping a pass and logging it, and the log lags the notice by that officer; each writer of a pass or card rechecks its status on the newest row |
| | `DateIsCurrentCorrect` | with `DatesOK`: a date computed from a cadence is there. The trigger (`WriteCard`) sees every write of a card, the jobs only retire cards |
| `Membership_proofs` | `TypeCorrect`, `LinkDecidesAccessCorrect` | `AccessInv`: types, agreement of profile and link, and that the row a call is about exists and is of its kind |
| | `NoticeTellsDecisionCorrect`, `RevokedUntilInvitedCorrect` | the same, with notices only for requests that exist (`NoticeInv`); an acceptance goes on with an invite addressed to its caller (`CallOK`), and every other step but an edit and a deletion leaves a revoked level alone |
| | `NoSecondLayerCorrect` | of behaviours of any number of sessions whose calls do not overlap (`OneAtATime`), in which profiles are edited and accounts deleted between calls (`DirectAlone`). `OneLayer`: what an acceptance has checked still holds when it writes, and whoever heads a household was approved, unless edited. The hypotheses are needed, see section 3 |
| | `AccessMatchesDecisionsCorrect` | the same hypotheses. `DecisionInv`: the request or invite a call is about is still open, or pending, when it writes, its reviewer is still an admin, and an invite that was taken stays accepted. Rows inserted as decided decide nothing, as nobody reviewed or took them |
| `Push_proofs` | `TypeCorrect`, `PushedOnceCorrect`, `EveryDeviceTriedCorrect`, `PrunesOnlyDeadCorrect`, `RegisteredIsMineCorrect` | `PushInv`: an event takes one of the two ways (`EventOK`); its one job has distinct messages and has posted exactly those of earlier chunks (`JobOK`); who is about to insert a token holds its row or found it his, nobody's or a rival's (`CallOK`). For any chunk size |
| `Issues_proofs` | `TypeCorrect`, `ActivityChainsCorrect`, `ToldOfEveryChangeCorrect`, `CommentsWhileResolvedCorrect` | `IssuesInv`: an id not yet used has no log (`UnusedOK`), and a comment under way is on a resolved issue or one moved meanwhile (`CommentOK`) |
| `Api_proofs` | `TypeCorrect`, `AcceptsOnlyRecentCorrect`, `RefusesOnlyNewCorrect`, `OutageHurtsOnlyOldCorrect` | `AuthInv`: a set of keys is *as of* a time (`AsOf`); what a thread received is as of the time it read, the cache as of one verification before its stamp (`CacheOK`), and before the stamp a thread is about to set or the TTL of one that will use it (`ThreadOK`). For any TTL, patience and number of threads and keys |
| | `DeletionAnswersTrueCorrect`, `StaffStayCorrect` | `AccountsInv`: a request is of somebody who had an account, what was gone stays gone, an answer that counts as done is about an account that is gone, and past the check of the role the caller is no staff unless that changed (`DeletionOK`) |
| | `DashboardTypeCorrect`, `CountedOnceCorrect`, `ListsWhatItCountsCorrect` | `DashboardInv`: of whoever has not moved since a request began, what it holds is the view they are in *now* (`CountOK`, `ListOK`), which every step that moves nobody leaves alone (`ViewFrame`, `PutInv`) and every other one lets requests notice (`NoticeInv`). Rests on `Views`: with its conditions coalesced the classification is never unknown. For any number of statements and any limit |
| | `AnswerIsCurrentCorrect` | the same: the target of a flag is there and has the flag asked for until somebody moves it (`FlagOK`), and has a reason to be in its view (`Reasons`) |
| `Deploy_proofs` | `TypeCorrect`, `RecordedInOrderCorrect`, `AppliedOnceCorrect`, `SchemaBeforeCodeCorrect` | `DeployInv`: what a run has struck off its list is recorded (`CallOK`), and what took effect is recorded, was given, or was torn (`EffectsOK`). For any number of runs and versions |

The strengthenings were checked with TLC on the instances above before they were
proved. Assumptions on constants are the `ASSUME`s of the modules and `~ReopenDues`, where the
table names it; `OneAtATime`, `DirectAlone` and
`ResolvedAlone` are hypotheses on behaviours. `TotalAssumption` says what the constant `DueTotal` of `Payments` is, the
sum of the amounts of a set of dues, and that transfers and dues are finitely many.

Facts about sums are proved without an induction rule, which would need a predicate as
a parameter: if some set had no sum, one of the smallest such sets would exist, since
the subsets of a finite set are well-founded (`SmallestSubset`), and taking an element
out of it leads to a contradiction (`SumsExist`).

`Auth`, `Accounts` and `DevControl` share no variable. Their proofs are one module since
they are the parts of one program, the API.

Only model-checked: liveness (`EveryCallReturns`, `NothingStaysStale`) and everything
that rests on `ENABLED` are outside the prover. Every invariant and every action property
of a passing run is proved.

## 5. Not modelled, and the plan

Left out of modelled parts: inserted requests and invites that claim a reviewer or an
acceptance, `expired` as an inserted status, edits that make somebody finance or dev_admin,
edits that move an order to another listing, the effect of a deleted account on the rows of
modules other than `Membership`, several estates in one instance, fees and payout details,
`DRY_RUN` of `migrate.sh`.

Not modelled, as no second step depends on any state: `reports.py` and `pdf.py` (reads and
layout), codes (random strings with a unique constraint), read policies, configuration,
proxy and backup. The library that checks a token's signature is taken as it is used.

Two behaviours are in `Membership` without a property, because the code promises nothing
about them: an expired invite stays `pending` and blocks the next one to that number
(0059:50), and accepting a staff invite looks at no role (0061:57). Some hazards are
modelled with no property, and a note in `PROJECT.json` says why: a visit checked in after it
was cancelled (0026:332), a notice too long to be pushed (`schemas/push.py:7`), and the
overlaps that the exceptions and hypotheses above name (0065:101, 0026:395, 0059:109,
0056:291), which the code lets happen.

Order of what comes next, most important first:

1. `Announcements`: the edit window of announcements (0038) against a slow edit, and the
   marking of security alerts as addressed (0044).
2. `Issues` with the time stamps of its log: `created_at` is when a transaction began,
   so that the order of the entries and the order of their times can differ.
3. Composition of `Payments` and `Marketplace` over one `transfers` table, if its
   state space allows: a transfer's purpose is fixed when it is inserted.
4. Proofs: more abstract specifications that a component implements, as `AtomicDues` is
   for the payments.
