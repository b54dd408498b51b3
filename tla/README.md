# Naust: a TLA+ verification project

Naust is a self-hosted mail box: `managerd` serves the panel's API and keeps the
box's configuration derived from a database, `helperd` performs the privileged
operations, `boxctl` is the operator's command line. The project models the parts
of the daemon in which several requests, loops, processes or restarts meet, and the
rules by which three appliers derive one configuration from the same rows. TLC checks
them on small instances, and TLAPS proves the most important results for every
instance. Paths below are under `src/daemon/internal/` unless said otherwise.
`PROJECT.json` maps every definition to the lines it stands for.

## Inventory

| Part | State | Operations | What makes it correct |
|---|---|---|---|
| Leases (`store/lease.go`) | one row per name: holder, expiry | acquire (compare-and-swap on the expiry or the own name), release | one live holder; a crashed holder's claim lapses |
| Backup engine (`backup/engine.go`) | lease, `BackupRun` rows, counters `manual` and `busy`, a one-slot kick channel, the loop | nightly and manual runs, startup reconciliation, completion, pruning | one repository user in the fleet; rows tell the truth; requests are served |
| Kick loop (`kickloop`) | one-slot channel, retry timers, tick | `Kick`, run, retry, tick | no change is forgotten, replicas converge |
| Materializer (`materialize`) | Postfix maps (text and .db), Dovecot passwd-file | load, render, compile, rename | readers never see a partial map; files follow the tables |
| DNS applier (`dnsapply`, `dns`) | zone files, `ZoneSerial` rows, nsd.conf, opendkim tables, what the services have loaded | build, pick serial, sign, save, reload | served zones follow the store, serials grow, signatures stay valid |
| Mail encryption (`httpapi/encryption.go`, `encryption_prf.go`, `mailcrypt`) | key slots, pending ceremonies, password | setup, challenge, rotate, relink, passkey slots, password change and reset | all slots open the same root key; a secret is always left |
| Accounts (`httpapi/bootstrap.go`, `users.go`, `tokens.go`, `cmd/boxctl/bootstrap.go`) | users and roles, sessions, API tokens, the setup-code file | bootstrap, create, promote, demote, delete, login | exactly one first admin, never none; credentials end with the role |
| Second factors (`mfa.go`, `webauthn.go`, `encryption_prf.go`) | TOTP rows with the step used last, challenges, passkeys and their slots | login, enrol, register, disable, delete | a code or a challenge counts once; a passkey's slot goes with it |
| Checks engine (`checks/engine.go`, `report.go`) | pending requests, result rows, last report | scheduled and manual batches, digest | refused or run, onset times kept, one digest per period |
| Web applier and helper (`webapply`, `helper`) | sites directory, the running nginx, the helper's queue | sync, test, reload, roll back | disk and nginx agree or are rolled back, the operator's files stay |
| Certificates (`acmeprov`, `sslcert`) | lease, certificate files, the symlink of the mail services, what they have loaded | daily pass, runs and installations from the panel, choice of the best file, restarts | sites keep a valid certificate; the mail services' path always leads to the best one |
| Hosted data (`adminops`, `httpapi/dnsrecords.go`, `aliases.go`) and what follows from it (`dns/zonebuild.go`, `materialize/render.go`, `system.go`, `webapply/apply.go`) | accounts, aliases, custom records, secondary name servers | create, change, delete; derive routes, zones and sites | routes, zones and sites agree with each other |

How the parts meet: API handlers commit to the store and then kick the loops of their
own process (`mailDataChanged`, `dnsDataChanged`, `webDataChanged`); replicas share the
store only. The engines use the lease so that one replica works. `managerd` asks
`helperd` over a socket, which serves one request at a time in no particular order. An
installed certificate kicks the web and the DNS applier. `boxctl` writes the store, the
setup-code file and the materialized files beside a running `managerd`, which it does not
tell. What is hard is in `hazards` of
`PROJECT.json`, line by line: statements of two requests that interleave, state read in
one statement and used in another, a crash or an error between two writes, contexts
that end with a timeout, what must happen eventually, and long sequences of changes
after which independent derivations must agree.

## Modules

A process, replica, session or request is a model value. A statement against the
store is one step; a transaction is one step, because `store.Open` gives SQLite a
single connection. File renames are steps of their own.

- **Lease** - the lease row and its two operations as operators.
- **BackupEngine** - processes with their loop (`pc`), the run's context deadline, the
  shared lease and `BackupRun` rows, wall-clock time. `Start`/`Stop` restart a process
  under the same or another identity at any point. `ReconcileAcquire`, `ReconcileMark`,
  `ReconcileRelease` are `reconcileStaleRuns`; `RunNow`, `RunNowBusy`, `RunNowKick` are the
  three statements of `RunNow`; `Begin` to `Release` are `runOnce`. A statement that
  carries a clock reading takes effect at most `StoreDelay` later, and a tool is gone
  `KillDelay` after its context. Once the run's context is over, completing the row and
  releasing the lease do nothing, as in the code; any other statement may be refused by the
  store as well, the saves of the reconciliation included. **BackupEngineProofs** has the
  theorems.
- **BackupJournal** - what the engines of a fleet promise together: the table of runs reads
  like the journal of one process that runs one backup after the other and may die at any
  moment. A run begins with an entry of its own when nobody works; a result is recorded once
  and for the latest entry; entries are given up or pruned only while nobody works, and
  pruning takes none that is newer than one it leaves. `BackupEngine` implements it
  (`ImplementsJournal`): `working` is the process with a tool at work, `journal` the rows.
- **KickLoop** - channel, flag and retry timers of `kickloop.Loop` as a record with one
  operator per event; used by Rebuilder, Materializer, DnsApply and WebSync.
- **Rebuilder** - what the kick loop promises in general: replicas, commits and kicks as
  separate steps, a `Do` that reads one version and builds it.
- **Materializer** - `Rebuild` statement by statement, in two processes: `managerd`, whose loop
  calls it, and `boxctl recover password`, which commits the password (`Recover`), rebuilds
  once in the same directory under the same scratch names, and kicks nobody. A file's content
  is the values of the tables it is rendered from (`Inputs`), so a torn load is a mixture of
  values. `CommitUnheard` is a commit without a kick: the password slot that
  `handleEncryptionChallenge` inserts, or the slots that `boxctl` removes.
- **DnsApply** - `Rebuild` of the DNS applier: for each zone the skip test, the serial, the
  file, the row; then nsd.conf, the reloads, opendkim. Time is in days. A secondary whose
  name does not resolve is left out of nsd.conf (`WriteConf`).
- **MailCrypt** - the ceremonies of one account. A slot is a secret paired with a root key;
  a request is a record saying which statement comes next and what it has read.
  `SetPassword` and `EncryptionDisable` are `boxctl`'s, beside the requests.
- **Accounts** - bootstrap, roles and credentials, in the same style. The setup code's
  expiry is one of the ways in which a request ends (`Abandon`). `BurnUnwritten` is a wrong
  code that is answered although the count was not written.
- **SecondFactors** - TOTP enrolment and login, WebAuthn challenges of four purposes and
  the slots of passkeys, again as statements that interleave. A code is a secret and a
  time step. `DisableMFA` and `DeletePasskeys` are the two statements of `boxctl recover
  mfa-disable`.
- **ChecksEngine** - the loop of each process with its queue and `busy` counter, the
  lease, and one per-domain check with its result rows: reading the old row and saving the
  new one are two steps, so are mailing the digest and recording it. What a probe or a
  dependency reports is open.
- **WebSync** - the applier's kick loop and calls, the helper's waiting requests, and
  `reconcile` file by file: writes and deletions, test, rollback, reload; a rollback that ends
  with files it could not put back (`RollBackLeaves`); stops of either daemon and edits of the operator between any two steps.
- **AcmeProv** - the renewal loop, a run and an installation from the panel as three
  threads over the ssl directory: certificates, scratch files, the symlink and the name it
  is prepared under. `Scan` and `better` are the choice of the best file; `Provision` to
  `SitesDone` are `provisionAll`; `Rescan` to `Restart` are `postInstall`, call by call.
- **ZoneBuild** and **MailRouting** - operators without state: zone cuts, the order in
  which own, custom and default records enter a zone, null MX and SPF for names without
  mail; the Postfix maps and the system routes of role addresses. **HostedData** has the
  operations that change the rows they work on, each as one step, with their validation,
  and `Derive`, the names nginx serves.
- **...Proofs** - the theorems about a component and their proofs, in a module that extends
  the component's (see Proofs). Three extend two components each, whose names do not clash
  because one of the two prefixes the usual ones (`WebSpec`, `RebuilderSpec`, `HostedSpec`):
  WebTierProofs is about WebSync and AcmeProv, LoopsProofs about ChecksEngine and Rebuilder,
  DerivedDataProofs about HostedData, with the rules it uses, and Materializer.
- **MC...** - instances for TLC.

History variables record the circumstances in which a property has an exception,
so that the exception is exact. No guard reads them.

| Module | Histories |
|---|---|
| Materializer | `interrupted`: a run cut off between the two renames; `crossed`: files that `managerd` and `boxctl` wrote side by side, until one of them writes the file again `alone`; `unheard`: tables that changed without a kick, until they are loaded again |
| DnsApply | `missed`, `unsaved`: a run cut off before a reload, or between a zone file and its row |
| MailCrypt | `prepared` and `overlapped`: two setups that both found no slot and both committed; `repeated`: a setup committed twice; `outdated`: a slot and a password change that crossed; `acknowledged`: an admin's reset; `recovered`: a password set by `boxctl`; `disabled`: slots removed by `boxctl` while a request or a rotation held their key |
| Accounts | `overlapped`: two removals decided side by side; `crossed`: a credential issued between revocation and save; `unwritten`: per code, the wrong guesses whose count was not written |
| SecondFactors | `crossed`: a passkey deleted beside its enrolment, after a failed lookup, or by `boxctl` while it had a slot |
| ChecksEngine | `lapsed`: a pass outlived its lease; `crossed`: a manual run overlapped another process's work; `unmarked`: a digest sent and not recorded |
| WebSync | `torn`: `helperd` stopped in a sync, or a rollback left a file; `unreloaded`: the same, or a failed reload; `overtaken`, `unkicked`, `edited`, `raced` |
| AcmeProv | `unlinked`, `unrestarted`: an installation cut off before the symlink or the restart; `scratched`: a scratch name chosen; `aged`, `stale`: the symlink moved to a file that was chosen before another was installed |

## Runs

| Run | Instance | Shows |
|---|---|---|
| `backup_exclusion` | 2 processes, time 0..6, 2 runs, stops anywhere | `ExclusiveRepository`, `LiveRunRecorded`, `FinishedRunIsFinal`, and that the engine implements `BackupJournal` (`ImplementsJournal`) |
| `backup_requests` | 1 process, 2 requests | `BusyAccounts`, and `BusyClears` under fairness |
| `kick_loop` | 2 replicas | `NoForgottenChange` without the tick, `NeverBuildsBackwards`, `Converges` with it |
| `materialize` | 1 map and the passwd-file, 1 change, 1 recovery by `boxctl`, and one of: a failure, a crash, a removed .db, a commit without a kick | `TextSpeaksForDb`, `SettledIsCurrent`, and `EventuallyCurrent` under fairness |
| `dns_apply` | 1 replica, a signed and an unsigned zone, 4 days, 2 serials a day, a secondary that may not resolve | `SettledIsServed`, `SignaturesValid`, `ServedChangeGrowsSerial` |
| `crypt` | 2 sessions of an account, encrypted or not, and `boxctl` | `SameRoot`, `SinglePasswordSlot`, `Recoverable`, `AttemptsBounded`, `SlotOpensOrAcknowledged` |
| `accounts` | 2 requests, 2 user rows, 1 code, limit 2 | `AdminRemains`, `OneFirstAdmin`, `CredentialsDieWithRole`, `GuessesBounded` |
| `second_factors` | 2 concurrent requests of 5, 1 secret, 1 passkey, 2 ceremonies, 3 time steps | `OneUsePerCode`, `CeremonyCompletesOnce`, `SlotsHavePasskeys` |
| `checks_engine` | 2 processes, 1 domain, time 0..2, 2 events | `OnsetsKept`, `DigestsSpaced`, `RunsAccountedFor` |
| `web_sync` | 2 files, a content that breaks the test, 2 changes, 2 events, a rollback that leaves a file among them | `DiskBootable`, `SettledIsLoaded`, `UserFilesKept` |
| `derived_data` | a domain and one under it, 2 box names, 2 accounts, 1 alias, 2 of 8 custom records per zone | `MXMatchesDelivery`, `MailReachesOwners`, `CustomRecordsLand`, `SitesResolveHere` |
| `certificates` | 2 sites, 4 days, certificates of 2 days, a renewal window of 1, a request, a failure, a crash | `CertificatesRenewed`, `MailServesBest`, `LinkResolves` |

**Bounds.** Each instance is the smallest in which every action fires and the races of
its hazards happen. Two processes suffice for exclusion (the proof covers any number);
the times keep the order of the code's constants (store delay < reconcile TTL, timeout +
kill delay < lease TTL), and time runs long enough for a lease to lapse and be taken again.
Two serials per day, the first publication and two changes make a serial run past its day;
validity 3 and margin 2 days make renewal due between changes. Two requests are what a race
needs; two user rows are the two racing admins. `crypt` does not follow an account further
once two setups have given it two root keys (`OneSetup`): every property but the exception
itself has been given up by then. The materializer treats its maps one after the other in
one loop, so one map and the passwd-file show every crash point; the order among maps is
left to the set `todo`, which the code's iteration over a Go map leaves open as well. One
recovery is what two writers of one directory need, and one trouble beside it keeps the run
short; the proofs have any number of both. In `checks_engine` a lease of one unit is outlived by a pass and an interval of one separates
digests. The domains of `derived_data` are nested, because folding one zone into another is
where the rules meet, and its custom records are one for each rule that makes an exception
(a CNAME at `www`, an address of a domain, of the box, a local AAAA, an MX, two TXT, an NS).
In `certificates` the first certificates come due on day 1 and would expire after day 2;
the window leaves one attempt to spare, and one failure and one crash can use it up. Runs and
installations come from the same budget of one request, since the daily pass is always there
to race with. Symmetry is used only in runs without liveness properties. Deadlock is
not checked where a bounded clock or budget ends every behaviour (`crypt`, `second_factors`,
`certificates`).

**Fairness.** Weak fairness of what the runtime schedules: the loop's goroutine, its
timers and ticker, a handler that has committed and is about to kick, the steps of a run,
and the restart of a process (systemd restarts `managerd`). Nothing is assumed of clients,
changes, failures or crashes; those are bounded by named constants, which is the "once
changes and errors stop" of the liveness properties. Where the code's retries make no
progress (see below) no liveness is claimed.

## Where comments and code part

Met while modelling, and visible as the exceptions of the properties named:

- `adminops.go:164` (`boxctl recover mfa-disable`) deletes the passkeys and leaves their slots,
  against `mfa.go:216` (`SlotsHavePasskeys`). `adminops.go:131` (`recover password`) changes the
  password of an encrypted account and asks nobody, against `users.go:153`
  (`SlotOpensOrAcknowledged`). `adminops.go:200` (`recover encryption disable`) leaves what a
  request holds: it may put a slot of the removed key back, without recovery codes
  (`SameRoot`, `Recoverable`).
- `cmd/boxctl/env.go:110` against `materialize.go:125` ("never a partial one"): with two processes in one directory and
  the same scratch names, a map half written by one can be renamed into place by the other
  (`TextSpeaksForDb`). `encryption.go:268`: the password slot changes the passwd-file and is
  not followed by `mailDataChanged`, so Dovecot's file is old until another change or the
  hourly tick (`SettledIsCurrent`).
- `backup/engine.go:161` wants no row left running by a crash; at :169 a process that
  starts while the dead one's lease lives skips the reconciliation and does not repeat it.
- `dnsapply/apply.go:168`: after a failed reload the retry that `kickloop.go:3` promises
  finds the files current and does not reload (`SettledIsServed`). `apply.go:127`: a second
  replica does not converge within the hour, because the shared row says the zone is current.
  `store/schema/zoneserial.go:8`: the row is not the last serial published when the run
  was cut off before saving it (`ServedChangeGrowsSerial`). `apply.go:328`: a secondary whose
  lookup failed is logged and skipped and the run succeeds, so it may not transfer zones until a
  later run finds its name; `SettledIsServed` speaks of the secondaries that resolved.
- `httpapi/users.go:312`: the last-admin check and the removal are two statements, so two
  admins can remove each other (`AdminRemains`). `bootstrap.go:148`: "never zero" fails when
  the lookup of the oldest row fails. A wrong code counted while `boxctl bootstrap` replaces
  the file restores the old code. `bootstrap.go:31` ("persisted to the file"): the errors of
  the write and of the removal (:74, :82) are ignored, and the guess is answered all the same
  (`GuessesBounded`).
- `encryption.go:109` against `mailkeyslot.go:13`: two overlapping setups commit slots of two
  root keys (`SameRoot`), and two challenges of one ceremony commit its slots twice
  (`SinglePasswordSlot`). `encryption.go:102`, `:316`: a slot under an old password when the
  password changes between check and insert; likewise a setup that commits while an admin's
  reset or the user's own change has seen no slot (`users.go:153`, `SlotOpensOrAcknowledged`).
  `encryptionsetup.go:16`: two begins leave two rows.
- `mfa.go:172`: the same TOTP secret can be enrolled twice, and each row then accepts a code
  once (`OneUsePerCode`). `mfa.go:221` against `:216`: any error of the lookup is taken for a
  passkey that is not there, and its slot stays (`SlotsHavePasskeys`).
- `backup/engine.go:130`: `Busy` is false between the two additions of `RunNow`.
- `checks/engine.go:492`: a filtered manual run leaves the rows of a disabled
  per-domain check; `:316`: results of per-domain dependencies are never consulted, and a
  skipped result clears the onset; `report.go:21`: a digest that is switched on again is due
  at once.
- `helper/websync.go:22` ("always holds a config nginx can boot from"): not after `helperd`
  stopped in a sync, nor when a rollback fails, whose errors are ignored (:179, :181, :186);
  after either, and after a failed reload, the retry may find no change, report success and
  not reload (`DiskBootable`, `SettledIsLoaded`). `httpapi/web.go:248`: a reset that fails half way does
  not kick.
- `materialize.go:129` ("Unchanged text with an existing .db means nothing to do"): not after a
  crash between the renames followed by a change back (`TextSpeaksForDb`).
- `materialize/system.go:11` against `dns/zonebuild.go:309`: the box's name accepts mail for
  `postmaster` and `root` while its zone says null MX. `zonebuild.go:234` against `:184` and
  `webapply/apply.go:107`: a custom CNAME is accepted at the hostname, an apex or a mail
  domain. Neither is among the records and names that `derived_data` enters.
- `sslcert/sslcert.go:163-166`: the scan passes over `ssl_certificate.pem` lest it select a
  symlink to itself, but not over `ssl_certificate.pem.tmp` or another installation's
  `.cert-*`; either can be chosen and be gone when the symlink is made (`LinkResolves`).
  `acmeprov/issue.go:192`: after a crash between an installation and `postInstall`, or a
  failed restart, nothing looks at the symlink or the services until the next installation
  (`MailServesBest`).

## Proofs

Eight modules named `...Proofs` hold 47 theorems, each for every value of the constants that
the assumption of its module admits: any number of processes, requests, rows, files and
failures, where a run has two or three. The bounds of the runs (`Max...`) stay in the
theorems as arbitrary numbers. The assumptions say that bounds are numbers, that sets which
are counted are finite, and what the code's own constants guarantee (timeout + kill delay <
lease TTL for backups, limits and lifetimes that are not zero); TLC evaluates them in every
run. All theorems of the form `Spec => []P` follow the same argument: an invariant `IInv` that
implies `P`, holds initially and is kept by every action, one lemma per action or per group of
actions that do the same to it. `P` is hardly ever inductive, since it speaks of what is
committed and not of what requests in flight are about to write; what `IInv` adds is listed
here. Each `IInv` was checked by TLC on the run's instance before it was proved.

| Module | Theorems | What the invariant adds |
|---|---|---|
| `BackupEngineProofs` | `TypeCorrect`, `RepositoryExclusion`, `LiveRunsRecorded`, `FinishedRunsFinal`, `RefinesJournal`; `RequestsAccounted` | `ExclusionInv`: clock readings carried by statements are recent, no tool outlives its deadline by more than the kill delay, a run within that time owns the lease and knows its expiry, likewise the reconciler, ids identify rows, a live run's row says running. `RequestInv`: outside a run nothing is taken from the queue, and queued requests have a kick or a handler about to send it |
| `WebTierProofs`, of WebSync | `WebTypesCorrect`, `BootableOnDisk`, `SettledSafe`, and the action property `UserFilesSafe` | the files a sync has touched and could put back (`SyncInv`, `BootInv`), what nginx has loaded (`LoadedInv`), which request the applier awaits and what it carries (`AwaitInv`, `CurrentInv`) |
| `DnsApplyProofs` | `TypesCorrect`, `SettledSafe`, `SignaturesSafe`, and the action property `SerialsSafe` | a zone's file is ahead of its row only between the two writes, with the greater serial (`RowInv`); nsd serves the file or a smaller serial (`SerialInv`); what is on disk is loaded unless a reload lies ahead or was missed (`LoadedInv`); what a run has done it has done for the store, unless there is a kick (`CurrentInv`); signatures outlast the day, by the margin once the day's run has passed (`SignedInv`) |
| `WebTierProofs`, of AcmeProv | `PathResolves`, `MailCertificateBest`, `SitesKeepCertificates` | a scratch name has its run or none (`TempsInv`); a final name the link or a run holds is a file of the primary site (`LinkInv`); a link that is not the best is in the hands of a run that is not bound to fail (`BestInv`); what a run chose is still the best unless a day or an installation came between (`ChosenInv`); the days a site's certificate has left against the attempts lost (`RenewInv`) |
| `SecondFactorsProofs` | `TypesCorrect`, `CodesSafe`, `CeremoniesSafe`, `SlotsSafe` | per property: rows and their last step against the uses of each code, counted over enrolments (`TOTPInv`); a challenge is open, held by one request or completed (`CeremonyInv`); a request about to write a slot has a passkey or is in the history (`SlotsInv`) |
| `LoopsProofs`, of ChecksEngine | `TypesCorrect`, `RunsSafe`, `OnsetsSafe`, and the action property `DigestsSafe` | the job in hand at each label (`LoopInv`), the lease a pass holds (`LeaseInv`), nothing is dated in the future (`TimesInv`), the digest about to be sent or recorded (`DigestInv`), and that one process saves at a time, over the row it read (`SaveInv`) |
| `LoopsProofs`, of Rebuilder | `NothingForgotten`, and the action property `BuildsForward` | what a running `Do` has read is at least what is built (`ReadingInv`) |
| `DerivedDataProofs`, of HostedData | `HostedTypesCorrect`, `DeliverySafe`, `CustomRecordsSafe`, `SitesSafe`, `MXSafe` | that there is an admin (`HostedInv`); the rest are lemmas about what the derivations compute, see below |
| `DerivedDataProofs`, of Materializer | `TypesCorrect`, `MapsSafe`, `SettledSafe` | where `Do` is and which map it has in hand (`RunInv`); what a process that is alone in the directory has compiled under the scratch name, and installed between the renames, is its snapshot, and what one that is not has installed is in the history (`CompiledInv`); a run that no kick will repeat has read the tables as they are but for changes nobody was told of, and the maps behind it say what it read, likewise a recovery that is alone (`CurrentInv`) |
| `MailCryptProofs` | `TypesCorrect`, `SameRootSafe`, `SingleSlotSafe`, `RecoverableSafe`, `AttemptsSafe`, `SlotSafe` | where the root key in a request or a pending row comes from: a setup that is on record, or a slot of an account that has recovery codes, unless `boxctl` removed them meanwhile (`OriginInv`); what requests and rows wrap is the root of the slots (`RootInv`); attempts counted plus requests that are about to count stay within the bound (`AttemptsInv`) |
| `AccountsProofs` | `TypesCorrect`, `AdminSafe`, `FirstAdminSafe`, `CredentialsSafe`, `GuessesSafe` | one admin is the target of no removal that was decided, nor about to lose to an older row (`AnchorInv`); racing bootstraps have distinct rows, and after one has won an older admin than theirs stays (`BootInv`); what a demotion has revoked exists only if it crossed (`CredInv`); a code's file, or the one request that rewrites it under the mutex, says how often it was guessed at, up to the counts that were not written (`GuessInv`) |

`AnchorInv` shows why the exceptions of `AdminRemains` are exact: with isLastAdmin and the
removal in two statements, the anchor is the admin that a removal leaves, and it exists as
long as no second removal is decided meanwhile. `MailCryptProofs` does not need the
constraint `OneSetup` of its run. `FirstAdminSafe` uses that a set of row ids has a least
element, which the library derives from well-foundedness.

Two theorems have a hypothesis beyond the assumption of their module.

- `OneManagerd`, for the three safety properties of DnsApply: `Replica` has at most one
  element. Replicas share the rows and not the zone files, so the second of two leaves its
  old file in place by design (see Not modelled). The types hold for any number.
- `LongLived`, for `SitesKeepCertificates`: certificates last longer than the renewal window.
  The code fixes the window at 30 days (`acmeprov.go:45`) and the authority's last 90; one
  bought by the operator is accepted whatever it has left, and one with less than a window
  has no attempts to spare. How long a window is, how many sites there are and how often the
  operator installs, kicks or starts a run is free.

`RenewInv` is an account of days. A site with a certificate of an authority has one that
lasts `RenewBefore - (failures + crashes)` more days, and one day more than that unless the
renewal pass is due or under way for it; a day costs a day and makes a pass due, a pass that
orders pays a whole term, one that fails, or is lost to a restart or to the lease of the
process before it, is charged to the failures and restarts. `BestInv` has to say more than
that somebody will look at the symlink: two installations share `ssl_certificate.pem.tmp`,
and the one that finds it taken, or gone, gives up, so the invariant names the other one.

Working on the proof corrected the model in one place: after a crash a scratch file belongs
to no run, and a name that led nowhere could come to lead to such a file, because both read
the same then. Random file names do not collide, and `Orphan` now renames what is there only.

The properties of HostedData speak of one state, and need of it only the types and an admin,
which `isLastAdmin` keeps. What is proved about them is the derivations, for any sets of rows.

- Names are sequences of labels, `Under` is a relation of suffixes (`UnderLabels`,
  `UnderTransitive`), and every name that the box has records for lies in a zone, since of the
  domains at or above it the shortest is a zone (`InSomeZone`, `ServedInZone`).
- Every record that `buildZone` puts into a zone before the hardening is at or under the zone
  and has one of four origins: NS, TLSA and TXT, an address of the box, an MX of the box at a
  mail domain, or a custom record (`ZonePlaced`). So no site has an address elsewhere unless a
  custom record says so, and then `PointedElsewhere` left it out of the sites; and there is
  no MX but at the mail domains and where the operator entered one.
- A custom record that is not one of the exceptions is in the zone because nothing of its
  name and type comes before it (`CustomLands`, `CustomPublished`): the box's own records have
  of the types a custom record may have only the addresses of the box's name.
- The routes of role addresses lead to the first admin, and an account's own entry in the
  maps goes before the catch-all of its domain (`RoutesFacts`, `TableFacts`).

`HostedDataAssumption` says that domains are sequences of strings, that an alias has a
destination, and that a custom record has one of the types the schema enumerates
(`dnsrecord.go:24`); which domains, records and box names there are is free.

Working on that proof corrected a property: as first stated, `MXMatchesDelivery` had no null
MX at any name that takes mail. The run agreed, because no record of its instance
was one, but the code accepts `0 .` as the value of a custom MX record and publishes it
beside its own. The property now says of null MX records that no other is
there but those the operator entered.

Left to TLC: liveness and everything about fairness (`BusyClears`, `Converges`,
`EventuallyCurrent`), which the prover cannot express. Every other property that a run
checks is proved.

## Not modelled

- Postgres isolation weaker than one statement or transaction at a time; clock jumps, and
  skew between replicas beyond `StoreDelay`; ties between equal `created_at`.
- DnsApply has one replica: of two, the second keeps its old zone by design of the shared
  row, and no property of interest is left. A commit and its kick are one step there; the
  gap is in Rebuilder, Materializer and WebSync. Several processes' renewal passes are kept
  apart by the lease as in ChecksEngine; AcmeProv has one process, since the ssl directory is
  local, and a pass longer than its lease only orders a certificate twice. A daily pass is
  taken to end within its day: each order has a timeout (`perDomainTimeout`), but the
  registration with the authority (`issue.go:45`) and the choice of a solver
  (`acmeprov.go:244`) run outside it, and one that hangs costs the passes until it returns.
- `AttemptsBounded` is about the counter in the ceremony's row. A count that the store
  refuses, whose error the code ignores, leaves a wrong code uncounted; in the model that
  request ends (`Abandon`). `boxctl bootstrap` counts the admins and writes the code file in
  one step.
- `SitesResolveHere` does not consider that a custom NS record delegates a served name away.
- Individual status checks, backup tools, DNS provider clients, the dialogue with the
  certificate authority: they talk to the outside world and are steps that succeed or fail.
- Rendering of nginx, Dovecot and zone text beyond what the properties tell apart;
  cryptography; password hashing; the in-memory login limiter, which forgets on restart and
  guards no stored state; the sign counter of passkeys, which no decision here reads.
- Multi-tenancy columns (a box has one tenant), listings, quotas, relay and system
  settings handlers: single statements without a rule that another part depends on.
- The generated code under `store/ent` (about 76,600 of the 98,500 lines of Go), the Vue
  panel, and the Python and shell installer. The definitions map about a quarter of the
  handwritten Go; the rest is what this section names.
