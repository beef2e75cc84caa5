# A TLA+ model of FenceIN

FenceIN manages the workforce of industrial sites: people enrol face and
fingerprint, check in at a gate, and organisations are onboarded as tenants.
This directory holds TLA+ modules of the parts whose correctness depends on the
order in which things happen, the TLC configurations that check them on small
instances, and TLAPS proofs of theorems about them for every value of the
constants. Paths are relative to the root of the repository, `src/`.

## 1. The system

Two servers share one PostgreSQL database and do not call each other's
handlers for most operations:

- the **NestJS backend** (`backend/`): one Node process. A handler runs alone
  until it awaits; every Prisma call is an await, and apart from the two
  provisioning transactions every statement commits on its own.
- the **Python biometrics service** (`biometrics_service/`): FastAPI. `def`
  endpoints run in a thread pool, `async def` ones on the event loop. Besides
  PostgreSQL it owns a SQLite file that several of its modules open, each with a
  lock of its own.
- the **browser** (`frontend/`): React. It keeps the session, two offline
  queues (IndexedDB for attendance, local storage for worker requests), the
  intervals and timers of its scanners and one WebSocket.

The backend announces attendances over WebSockets, to which pages react by
reading again; MongoDB receives activity documents no handler reads back.

| component | state | operations | interacts through | what is hard |
|---|---|---|---|---|
| Attendance, `backend/src/attendance` | tables attendance, incidents, worker_sites | check-in, check-out | PostgreSQL; the kiosk's queue resends to it | check then insert over several awaits, no unique index, midnight |
| Biometric enrolment, `backend/src/biometrics`, `auth.service.ts` | biometric columns of users, user_biometrics | enrol face or finger, revoke, skip, register, flag write of login | PostgreSQL; calls Python for embeddings | check then write, several statements per operation, dying half way |
| Biometric checks of both services, `biometrics.service.ts`, `app.py` | the same columns | register, enrol, revoke, verify, identify, adaptive enrolment | PostgreSQL, two sets of enciphered templates | flag and sample read in separate statements, two writers with different formats |
| Organisation onboarding, `auth.service.ts` | organization_requests, tenants, users | request, review, provision, register | PostgreSQL, two transactions | READ COMMITTED, numbers read from the last row, status read outside |
| Account access, `auth.service.ts`, `app.py`, guards | password and state of users, tokens held by clients | login, change password, create and remove workers | every route | bcrypt between read and write, a token outlives the state it was issued for |
| Datalake queue, `datalake_adapter.py` | table datalake_event_queue (SQLite) | queue an event, flush | filled by face login, flushed by clients; POSTs to an external endpoint | outages, lost answers, crashes between POST and commit, concurrent flushes |
| Offline face cache, `offline_cache.py` | table face_embeddings (SQLite) | sync from PostgreSQL, upsert, search | read by face login, written by adaptive enrolment | stale copies, fetch before lock, rows never removed |
| Face login, adaptive enrolment, `app.py` | none of their own | login with fallback, blend | PostgreSQL and the cache | the link fails between two statements, mixed answers |
| Liveness nonces, `app.py` | a dictionary in memory | challenge, check | event loop and thread pool | iteration against deletion, expiry against use |
| Risk, watchlist, trust, `risk_engine.py`, `watchlist.py`, `trust_engine.py` | SQLite tables | charge, decay, scan, sync, decide | endpoints of `app.py`, one lock per module | stored levels that go stale, syncs that only add, feedback of a denial |
| Gate log, `journey_tracker.py` | tables journey_events, worker_risk_log | record, timeline, figures of a day, health score | one lock; dashboards | stamps taken before the lock, two reads of one score |
| Verdicts on a frame, `face_auth.py`, `antispoof.py`, `ppe_detector.py` | none | liveness, anti-spoofing, equipment | logins and gates | analyses that fail, weights and thresholds |
| Kiosk, `KioskControlPage.tsx`, `useOfflineSync.ts`, `cryptoUtils.ts` | IndexedDB queue, key in local storage | tap, queue, sync | attendance endpoints | transactions across awaits, stale closures, two first uses of the key |
| Worker onboarding, `modules/security-officer` | local storage, enrolment store | register, list, capture, enrol | `/worker-requests`, Python | a capture that waits while another worker is selected |
| Browser session, `LoginPage.tsx`, `BiometricSetupGate.tsx`, `useAuthStore.ts`, `RoleRoute.tsx` | persisted session | login by password, face or finger, gate, change password, logout | both services | requests and timers that outlive their page |
| Settings page, `DynamicRolePage.tsx` | scanner, badges | enrol, revoke, refresh | Python | cameras and intervals behind stale closures, overtaking answers |
| Sign-up, `SignupPage.tsx` | wizard | capture, hold, submit | Python | timers against navigation, several requests of one press |
| Live pages, `SocketContext.tsx`, `events.gateway.ts`, `DynamicRolePage.tsx`, `RoleBasedDashboard.tsx` | socket, lists | connect, announce, read, post, read again | both | a session that changes under a socket, reads that overtake each other |
| Sites, shifts, vendors; analytics, reports, AI; logs; image processing; static pages; seeds | tables, or none | single statements, reads | PostgreSQL | little: no multi-step state |

What makes each part correct: a worker has one attendance row per day, it
passed its checks, and it is closed; a face or finger belongs to one user of a
tenant, flags agree with samples, and a match is of a sample the user had; tenants
and super admins have unique consecutive numbers and a request yields one
tenant; a confirmed password stands and a token is for an account that may have
it; an event reaches the Datalake at least once and the table tells which did; a
face login admits only people who may log in, says truly which database it asked,
and refuses two people it cannot tell apart; a nonce lets one frame through; a
hit is charged once and the high-risk list is complete; the gate log is read in
the order things happened; a confirmed attendance is in the queue and can be
read; a face is stored under the worker it was taken for; who is behind the
guard passed a check since the last logout; what a page reports as stored is
stored, its camera is off when its panel is closed, its lists and badges show
what it has been told, and an announcement stays in its tenant.

## 2. Modules

Each module models one component. Every database statement, every access of a
shared dictionary, every callback of a page between two awaits is one action,
so whatever else the system does can come in between. A handler is an element of
`Requests`, `Handlers`, `Threads`, `Pool`, `Calls`, ...; `pc` says which statement
comes next, the variables indexed by it are its locals.

| module | models |
|---|---|
| `Attendance` | `AttendanceService.checkIn`, `checkOut` |
| `BiometricEnrollment` | `BiometricsService` enrolment, revocation, skip; `AuthService.register` and the flag write of `login` |
| `BiometricChecks` | registration, enrolment, revocation, adaptive enrolment and verification of `app.py`, `AuthService` and `BiometricsService` on one row |
| `TenantOnboarding` | `AuthService.submitAccessRequest`, `reviewAccessRequest`, `provisionTenant`, `registerOrganization` |
| `AccountAccess` | logins, password changes, creation and removal of workers, tokens |
| `Outbox` | abstract: at-least-once delivery of stored events |
| `DatalakeQueue` | `queue_event`, `flush_queue`, `_push_single`; implements `Outbox` |
| `FaceCache` | `offline_cache.py` composed with `face_login`, `cache_sync`, `adaptive_enroll_endpoint` and what the backend does to a user's row |
| `LivenessNonce` | the nonces of `app.py` between pool threads and event loop |
| `EdgeMonitor` | `risk_engine.py`, `watchlist.py`, `trust_engine.py` composed through the endpoints that scan and charge |
| `SiteDay` | `journey_tracker.py`: rows, timeline, figures of a day, health score |
| `CaptureVerdicts` | from what is measured in a frame to the verdict |
| `KioskAttendance` | `captureAndMatch`, the IndexedDB queue, its sync and its key |
| `WorkerOnboarding` | registration, offline list, capture and enrolment of a worker's face |
| `BrowserSession` | login page, gate, password form, session store, guard |
| `SettingsPanels` | the biometric panels of the settings page with the answers of `app.py` |
| `SignupWizard` | the wizard, its timers and its submission |
| `LivePages` | socket, gateway, and pages that read, post and read again |
| `MCBiometricEnrollment`, `MCTenantOnboarding` | similarity, tenants and symmetry sets for TLC |
| `MCEnrollmentPages`, `MCTenantPages`, `MCComponents` | several modules in one run (section 3) |
| `AttendanceProofs`, `BiometricEnrollmentProofs`, `TenantOnboardingProofs`, `DatalakeQueueProofs`, `FaceCacheProofs` | theorems and proofs about the module of that name |
| `PythonServiceProofs` | proofs about `LivenessNonce`, `BiometricChecks`, `CaptureVerdicts`, `EdgeMonitor`, `SiteDay` |
| `ComponentProofs` | proofs about `KioskAttendance`, `WorkerOnboarding`, `AccountAccess`, `BrowserSession` and the run `MCComponents` |
| `PageProofs` | proofs about `LivePages`, `SignupWizard`, `SettingsPanels` |

The section "Faulty variants" of a module holds mutated forms of a few of its
definitions. They are used by no specification: replacing the definition by its
variant must make TLC find the corresponding property violated, which shows
that the property depends on that line of the code.

### Attendance
`CheckIn` is the request; `CheckInExisting` the lookup of today's row,
`CheckInSite` the lookup of the site with the tests that follow, `RefuseOutside`
and `RefuseSpoof` the incident and the refusal, `CheckInCreate` the insert.
`day` is "today" as the handler computed it at its start, while the row gets
the day of the insert. `CheckOut` finds an open row of today and
`CheckOutUpdate` writes it by id. `Midnight` moves the clock, `Abort` kills a
handler. `raced`, `outRaced` and `overlapped` are history variables: a rival
request was in flight at the time.

### BiometricEnrollment
Columns are functions on users. `EnrollFace` to `EnrollFaceMirror` are the
statements of enrollFace (duplicate query, embedding, flags, read, mirror row),
likewise for fingerprints; `Revoke...` has its two statements, `Register...` the
checks, the create and the two later updates, `Login`/`LoginSync` the read and
the write of the flags. `Alike` is the similarity relation of the 0.82
threshold: symmetric, not transitive. `racedFace`, `racedFinger` record
enrolments whose windows between check and write overlapped, `disturbed` users
served by two requests at once or whose registration died after the create.

### TenantOnboarding
A code is its number and `SortKey` its place in string order, in which OG999
sorts after OG1000. `Codes` are those committed: a transaction does not see
another's insert (READ COMMITTED), but an insert of the same key waits for it
(`CodeHeld`, `AdminHeld`) and fails if it committed (`CodeTaken`). `Abort` is
any failure; an open transaction is rolled back with it.

### DatalakeQueue and Outbox
`_push_lock` is held by the thread that is inside `flush_queue`. `Push` is the POST:
the endpoint takes the event and the answer arrives or is lost, or it is out
of reach. `Mark` and `MarkError` are the UPDATE, in a transaction that only
`Commit` makes visible; `CommitError` and `Crash` lose it. The refinement maps
ABSENT, PENDING, PUSHED, FAILED to absent, queued, done, parked; `Commit` is a
batch `Settle`, everything else an `Enqueue`, a `Send` or a stutter.

### FaceCache
`db` is the users table, `cache` the SQLite mirror; an embedding is a version
number. `SyncRead` fetches without the cache lock, `SyncWrite` merges in one
transaction, `SyncError` meets a locked file: any of the rows may be skipped.
`AdaptiveEnroll` writes the cache, `AdaptiveStore` then PostgreSQL if reachable.
`FaceLoginOnline` asks PostgreSQL; `FaceLoginFails` is any exception there,
a row with a NULL embedding included, and keeps what was already read;
`FaceLoginOffline` adds the cache's answer. Which stored faces a capture
resembles is an input.

### BiometricChecks
`profile` is the row both services write, `accounts` says which users have one. A template knows who enciphered it:
the backend cannot read what Python wrote and the reverse (`Templates`). A check
reads the flag in one statement and the sample in another or the same, as its
code does; `held` remembers whether flag and a matching sample were there
together at a moment of the check. `AdaptiveBlend` and `AdaptiveWrite` are the
read and the UPDATE by id of an adaptive enrolment.
`NestRegister` ... `NestStoreGivenFace` are the statements of `AuthService.register`,
which creates the row with its flags and stores the samples afterwards;
`PythonInsert` is the one INSERT of `register_user`, where an image sent as the
empty text sets the flag and stores nothing; `RegisterAdministrator` is the
transaction of `registerOrganization`. `Reject` may end any of them between two
statements. An answer `failed` is the `float(None)` of a row with the flag and no
embedding. `clashed` are the users whose row was written by one request while
another was at work on it, `stranded` those whose registration ended with the
flag and without the embedding.

### AccountAccess
`LoginRead`/`LoginAnswer` and `ChangeRead`/`ChangeWrite` have bcrypt in between;
`CreateBegin`/`CreateInsert` and `RemoveRead`/`RemoveWrite` are the manager's.
The portal of the Python service does not look at `isActive`. `met` records
which calls were in progress together, `stale` tokens issued for a row that had
changed.

### LivenessNonce
`BeginPurge`, `Scan`, `Delete`, `Issue` are the challenge in a pool thread:
the list comprehension visits the keys one by one and raises when the size
has changed. `Lookup`, `Age`, `Consume` are the check on the event loop.

### EdgeMonitor
Endpoints scan in one transaction and charge in another (`ScanWatchlist`,
`TrustScoreEndpoint`, `AntispoofAnalyze`, `GhostWorkerCheck`, then `Stamp` and
`Charge`). `SyncWatchlist` adds a copy of each suspended account again: the
upsert of the code has no unique column to conflict on. Scores are kept in
twelfths, as a charge loses a twelfth of its weight per hour. `BehaviourScore`,
less the `Penalty` of what was charged, is one of the five signals of the `TrustScore` that
`Gate` decides by; a denial charges the worker again (`TrustScoreEndpoint`), which
is the loop `ChargesNeverHelp` is about.

### SiteDay
`RecordJourneyEvent` takes the stamp, `Insert` adds the row. `Intelligence` is
what one transaction reads of a day; `AskHealth` takes it and the answer applies
`Score` to it and to the incidents counted later. What callers report is the
constant `Events`; its trust score is any number, as `JourneyEventPayload` limits
it neither way, and `AverageTrust` is the mean of those above zero. `passage`
remembers what really happened at the gate.

### CaptureVerdicts
A verdict is a function of measured values; each step evaluates one, over
values on either side of every threshold, the value -1 being an analysis that
raised.

### KioskAttendance
`Tap` starts `captureAndMatch` with its closure (database handle, online
flag); `DetectOffline` ... `Put` are its awaits. The idle panel stays on
screen while it fades out (`leaving`) and its button still works. `SyncDeletes`
says which records an answer of the backend removes: the sync sends no token,
so every answer is 401 and none is.

### WorkerOnboarding
`Submit`, `RegisterAnswered`, `RegisterFails` are the registration;
`FetchPending`, `SelectRequest`, `Capture`, `CaptureFrame`, `LivenessVerdict`,
`SubmitEnrollment`, `EnrollFaceLocally`, `ActivateWorker` the enrolment page.
Nothing calls `syncOfflineQueue`, so no action empties the offline list.

### BrowserSession
`attempt` is a face match or a fingerprint press with the interval and the timer
it leaves behind; `credentials`, `asked` are requests that wait. `Navigate`,
`Reload` and `Logout` may come at any time. `cleared`, `crossed` and `last`
are histories: who passed a check since the last logout, whether an answer or
timer met a session it was not started in, who was identified last.

### SettingsPanels
`scan[s]` is the closure of the s-th start of the face scanner, whose local
`active` only the scanner itself can reset; `viewer` is what the refs hold.
`letter` is a request that waits; `flags` the row, `badges` what the page shows.
An answer carries the number of changes the row had when it was read: `applied` is
that of the answer shown now, `newest` the highest ever shown, so that
`applied < newest` says that an older answer came after a newer one.

### SignupWizard
`PressCapture`/`FaceVerified` are the capture and its 1.5 s timer, `PressScanner`,
`PrintTaken`, `ReleaseScanner`, `ResetScanner` the fingerprint scanner with an
interval per press and one ref for all. `Complete` fixes the closure of
`handleCompleteOnboarding`; `RegisterAccount`, `EnrolFace`, `EnrolPrint` are its
requests.

### LivePages
`ChangeSession` changes the store, `EffectRuns` is React noticing it.
`Announce` is an attendance saved by the backend; `Addressed` the room it goes
to. `Serve` is the backend reading or writing for a request, `ListAnswered` and
`PostAnswered` its answer in the page, `Follow` what the page reads again.

## 3. Runs

| run | question | result |
|---|---|---|
| `queue_safety` | Two threads flush while rows arrive, the link changes, and crashes and SQLite errors happen: is delivery in order, do copies need faults, does the queue implement `Outbox`, is every row settled? | holds; 21 thousand states |
| `queue_outage` | Is an event queued during an outage delivered afterwards, as the module's docstring says? | no: FAILED is never selected again |
| `enrollment` | Enrolment in the backend, on the settings page and in the sign-up wizard: do shared samples need overlapping enrolments, are accounts consistent once nobody works on them, does a scan enrol once and only what it shows, does the camera go with its panel, do the badges catch up, is what the wizard reports stored, and was the print held? | holds; 2.5 million states |
| `enroll_dup` | Is a face unique in its tenant, as the documentation says? | no: two overlapping enrolments |
| `attendance` | Do second rows and overwritten check-outs need overlapping requests, across midnight and crashes; is a row closed unless midnight comes? | holds; 262 thousand states |
| `attendance_overnight` | Is every check-in closed (overnight shifts are listed as implemented)? | no: not after midnight |
| `tenants` | Onboarding, live pages, biometric checks: consecutive numbers, one tenant per request, announcements that stay in their tenant, lists that show what the page was told, matches of samples the user had, checks that fail only after overlapping writers or a registration that ended halfway? | holds; 1.4 million states |
| `tenant_overflow` | Is the next number free from OG998 on? | no: once OG1000 exists it is computed again |
| `face_cache` | Two users, two threads, link up and down: whom can a login admit, what does ONLINE mean, when are two alike told apart, does the cache catch up? | holds; 607 thousand states |
| `face_ambiguous` | Does a login refused as ambiguous involve two users, as the docstring says? | no: one user counted once per database |
| `components` | Eight components that share no state (nonces, kiosk, worker onboarding, risk and watchlist, accounts, browser session, verdicts, gate log): the properties at the end of each module | holds; 899 thousand states, close to three minutes |
| `session_gate` | Does the dashboard admit whom the gate lets go, as the gate says? | no: the guard reads another field |

**Several components in one run.** `MCComponents`, `MCEnrollmentPages` and
`MCTenantPages` hold components that share no variable. Their variable `focus`
is chosen at the start and never changes: a behaviour follows the component it
names, while the others stay in an initial state, so the states of a run are the
sum and not the product of those of its components and nothing is said of an
interaction that does not exist. Where a component does interact with another,
the interaction is inside one module (`FaceCache`, `EdgeMonitor`,
`BiometricChecks`, `LivePages`).

**Bounds.** Every conflict in the code is between two handlers, on one or two
rows, so two handlers and two users, emails or rows are enough for it to
happen; a third handler adds no new pair. Bounds are guards on the start of
work, never on its continuation.

- Queue: `MaxRows` 3 with `BatchLimit` 2 makes a flush leave a row behind;
  `MaxFaults` 2 allows a crash after a crash (1 in `face_cache`).
- Enrolment: `MaxServed` 4 lets two operations complete and two overlap with
  what they left. Settings page: the scanner started twice (`MaxScans`), two
  requests in flight of four (`Letters`, `MaxLetters`), enough for an answer to
  overtake another and a third to correct it. Wizard: two presses of the scanner,
  two captures, two submissions, as each hazard is one timer or closure meeting its
  successor.
- Attendance: `LastDay` 2 has one midnight, `MaxRecords` 2 one row more than the
  code means to allow (requests already started may exceed it).
- Tenants: `MaxTenants` 3 with `MaxRequests` 1 is enough for a request
  provisioned twice beside a self-registration. Live pages: two tenants and the
  platform, a session that changes twice (`MaxSessions`), three requests, one
  change of each tenant's data. Checks: two users with or without an account, who have
  enrolled a face or not, two persons, two requests in flight of three in all
  (`MaxHandled`), so that a registration ends halfway and a check follows.
- Face cache: `MaxVersions` 2 gives an old and a new embedding.
- Nonces: two pool threads and the event loop, two nonces, TTL 1 and a clock up to 2, so
  that a nonce is valid, at its limit, and expired. Kiosk: two taps. Worker
  onboarding: two workers. Risk: the hours 18 to 24 in steps of six, so that a
  charge is fresh or half decayed, and midnight passes for the behaviour score; two watchlist entries, one
  further gate entry of a worker who has four, two requests that charge. Accounts: a manager and a worker,
  three calls, so that a login meets a change and a removal. Session: two
  people, two biometric attempts, three requests. Gate log: two workers, two
  recorders, three events, a day of three ticks and the first tick of the next,
  expected head counts 0 and 1, up to three incidents (none to more than workers), one
  insert that fails; entries of trust 1 and, where the checks failed, of trust 4, the
  latter enough to take the score of a day over 100 by itself. Verdicts: measured values on either side of every threshold.
- `tenant_overflow` starts at 998 organisations to reach the boundary.
  `face_ambiguous` and `queue_outage` use one thread and no faults, `session_gate`
  one attempt and two requests: the disagreements they show need no more.

**Symmetry** is used only in runs without liveness, on values the
specifications do not tell apart: requests in `enrollment` (the settings page
uses the same two for its requests in flight); handlers and emails in `tenants`,
which are also its callers, and its users and tenants; in `components` the users of the
browser and the two model values that serve as taps, threads, workers, ...,
each component using them for its own sets only.

**Deadlock** is checked in `queue_safety`, `queue_outage`, `face_cache` and
`face_ambiguous`. `CHECK_DEADLOCK FALSE` stands where
the bound really stops the system: requests served, the clock on its last day
or tick, sessions, calls or tenants used up, a verdict reached, a page left.

**Fairness.** Safety runs use a specification without it. Liveness needs that
handlers go on: a started flush (each POST has a timeout and each SQLite call
ends), a started request, a started sync are weakly fair. Clients are assumed to
come back: they keep calling `/datalake/sync` (weak fairness: an idle queue always
can be flushed), a worker who can check out does, and `/cache/sync` is
called again and again. The last two are strong fairness because
starting needs a free element of `Requests` or `Threads` and the model has two
of what the server has many: without it, "always busy" would be a
counterexample of the bound and not of the code. Nothing is assumed of the
network, of crashes beyond their bound, or of midnight. Nothing in the browser is
assumed to happen: what pages promise is stated for the moments at which they wait
for no answer.

## 4. Theorems

All are proved by TLAPS for every value of the constants (under the named
assumption of the module: bounds are naturals, `Nil` is not a value, `Alike` is
symmetric, the workers, requests and recorders that are counted are finite sets),
so also for any number of handlers and rows. Every safety property that a passing run
checks is among them.

- **DatalakeQueue** (`PushedWasDelivered`, `PushedIsFinal`, `DuplicatesNeedFaults`,
  `NoOvertaking`, `ImplementsOutbox`). None of these is inductive: a row in the database says
  nothing about transactions still open. `IInv` adds that one thread at most is
  inside the lock, that all it works on is PENDING in the database, that what it
  has marked PUSHED was delivered and that a row is handled once per flush. For
  duplicates, `DupInv` bounds the copies of a row by the faults so far plus one
  if the current flush has sent it or it is settled. For the order, `OrderInv`: a
  row that was ever sent has only handled rows before it, which holds because a
  batch is a prefix of the pending rows (`SelectedIsPrefix`) and is worked off by id.
- **BiometricEnrollment** (`TypeOK`, `DuplicateFaceNeedsRace`,
  `DuplicateFingerNeedsRace`, `FingerFlagMatchesTemplate`, `SettledIsConsistent`).
  `FaceKnows`: an enrolment past its check knows that any registered user of its
  tenant who collides with it raced with it; a write by a rival adds the
  pair to the history at that moment. For `SettledIsConsistent`, `Local` says what
  a request alone on its user has established at each statement.
- **Attendance** (`TypeOK`, `SecondRecordNeedsOverlap`, `OverwriteNeedsOverlap`,
  `RecordsPassedChecks`). `KnowsBefore` and `KnowsAfter`: rows of its user that a
  handler in flight has not seen, of its day or later, were inserted by a rival;
  `NoRowFromTomorrow` covers the handler that midnight overtakes.
- **TenantOnboarding** (`TypeOK`, `OneCreatorAtATime`, `SequentialCodes`,
  `ProvisionedAtMostOnce`, and `NextCodeIsFree` up to OG999). `LockInv`: a code read is
  still the next one or has been committed, and one past its insert has not; so
  two transactions past it would hold the same code, which the index forbids.
  `FullInv` adds that the super admin's number and the email are still free at
  the commit. `NextCodeOf` is the lemma about string order: the number computed
  from 1..n is the next one or taken, and the next one while n is at most 999.
  Hence no gap ever, and a standstill, not a wrong number, beyond OG1000.
- **FaceCache** (`TypeOK`, `GrantWasEntitled`, `OnlineGrantWasCurrent`,
  `AmbiguousGrantNeedsPartialRead`). `IInv`: whoever is stored, cached, held by a
  sync or an adaptive enrolment, or among the candidates of a login, could log
  in once; a login that PostgreSQL failed has at most one candidate from it.
- **LivenessNonce** (`NonceTypeOK`, `NonceUsableOnce`, `NonceErrorNeedsOverlap`).
  `NonceInv`: what a purge is to delete had expired before it began and, unless
  another handler has disturbed it, is still there; a used nonce has left the
  dictionary. Expiry is monotone (`ExpiredStays`), so no purge takes a nonce that
  a check may still accept.
- **BiometricChecks** (`ChecksTypeOK`, `MatchNeedsProfile`, `CheckErrorHasCause`).
  `ChecksInv`: the flag covers an embedding in every row that no two requests worked
  on at once and whose registration did not end halfway (`InStep`), and each request fits the row it works on (`Fits`) or its
  user is among the clashed or stranded; a registration that is to store a face
  knows that its row has the flag and still lacks the embedding. A write of another request clashes with it
  (`OthersFit`), so only what the writer itself leaves behind has to be in step;
  between the two statements of `revokeBiometrics` that is a row without its flag.
- **AccountAccess** (`AccessTypeOK`, `ConfirmedPasswordStands`,
  `StaleTokenNeedsOverlap`). `AccessInv`: two handlers in progress have met, and
  what a handler read still holds unless one it has met changed it. A change of
  the password confirmed after a handler began is thus by a call in its `met`.
- **EdgeMonitor** (`EdgeTypeOK`, `HighRiskListIsComplete`, `HitsAreCharged`,
  `ChargesNeverHelp`). A level is stored when a charge is written and is never
  recomputed, while the score decays; the list is complete because a charge only loses
  weight and whatever adds one writes the level again. `ScoresCoverTheLog` says so: a stored
  score is at least what the worker's log amounts to now. That includes the charge
  that waited for the lock and writes with an older time than the one before it.
  `OneIsOwed` adds that a request that owes a hit names one worker, so that the
  hit is owed once. A score is the sum over the rows of a log. That such a sum
  splits and grows with its terms is proved for `SumFunction` of the community
  modules by well-founded induction on the subsets of a finite set
  (`SumTakesOut`, `SumGrows`). `ChargesNeverHelp` rests on them too: a step that
  writes the log appends one row (`LogStep`), so what a worker has been charged
  grows (`ChargesWeigh`), and penalty, score and gate follow it monotonically
  (`PenaltyGrows`, `GateGrows`) while hour and entries stay.
- **CaptureVerdicts** (`CaptureTypeOK`, `NoSignalAlone`). The two composites are
  written out with their weights (`LiveComposite`, `SpoofComposite`) for any
  measured percentages; the rest is arithmetic.
- **SiteDay** (`SiteTypeOK`, `PassagesReadInOrder`, `HealthKeepsItsScale`).
  `PassageIsLast`: the last passage of a worker is the latest of the rows written or
  still held by a recorder. `NightsAreInside` and `ExitsFollowEntries`: who is
  inside, or has left, came in before on the same day, or was inside when it
  began. `RecordsAreCounted`: one worker at most lacks a row. `FiguresKeepTheirScale`:
  the figures of a question were in scale when read, so whatever is inserted before
  the second transaction cannot take the score out of it. The mean of trust scores
  that are at most 1 is at most 1 whatever their number (`MeanScale`, `RateScale`,
  with `SumGrows` for the sum). `NotInLastSecond` and `DaysInOrder` are the lemmas about days.
- **BrowserSession** (`SessionTypeOK`, `SessionFollowsTheChecks`,
  `RepeatNeedsSecondPress`). `GuardHolds`: nobody is on a page whose guard
  refuses the session. `Follows`: until something outlives its session
  (`crossed`), all that waits is of the user identified last (`WaitsForTheLast`), and
  every session that the guard admits, or that a granted match or a change of password
  will install, is of somebody checked since the last logout (`AreCleared`).
- **KioskAttendance** and **WorkerOnboarding** (both types, `ConfirmedIsQueued`,
  `UnreadableNeedsDoubleTap`, `WrongFaceNeedsSwitch`).
  Until a tap is taken by the panel that leaves, `OneAtATime`: there is one
  capture, or one timer, or an idle page, and `OneKey`: every record is sealed
  with the key in local storage. Until the selection changes while a capture
  waits, `SameWorker`: whatever a capture leaves belongs to the worker selected.
- **The runs of several components** (`RunImplementsEach`, `PagesImplementEach`,
  `ServicesImplementEach`, and `TypeOK` of `MCComponents`). A step of such a run is a
  step of one component and stutters in the others, so a behaviour of the run
  satisfies the specification of each, and what is proved of a component holds of
  the run.
- **LivePages** (`LiveTypeOK`, `AnnouncementsStayHome`, `ListShowsWhatIsKnown`). `MailIsAddressed`:
  all that is on its way was addressed to the session the socket is bound to; `EffectFollows`:
  that session is the current one or an older one, so once the effect has run
  what arrives is for the holder. For the lists, `ReadInv`: what was announced or told
  is stored (`MailIsStored`, `KnownIsStored`), and the list asked for last, however
  many others are in flight, will read all the page was told of, has read it, or was
  answered (`LastReads`). A page asks again in the step in which it is told.
- **SignupWizard** (`SignupTypeOK`, `PrintWasHeld`, `SuccessMeansStored`). `OneScan`:
  until an interval strays, the one that runs is the one `scanIntervalRef` names
  and the finger is still on it. `SubmissionFits`: the closure of a submission
  holds exactly what the page shows, unless a sample came late.
- **SettingsPanels** (`ScanEnrolsWhatItShows`, `CameraGoesWithPanel`, `BadgesCatchUp`).
  `OneEnrolment`: `active` is gone once a scan has sent; `LastIsShown`: an open
  panel shows the last scan, and that one is not cancelled. `CameraIsKnown`: until
  a cancelled scan gets its answer, a scan that waits for its camera is the one
  shown and no other camera is on, and the camera that is on is in the ref.
  `RowInv`: the last change of the row has been shown, or an answer that will show it or
  make the page ask is on its way, or one was lost. The attempt to prove this
  showed that an earlier form of the history, a flag reset by each newer
  answer, was too weak: with three requests in flight their answers can come as changes 2, 0, 1,
  and TLC found the counterexample there and not with the two of the run.
  `SettingsTypeOK`: its bounds hold because no more changes are served, and no more timers
  started, than requests were sent (`LettersAreCounted`, a count of the requests
  that still may).

**Proved and not in a run's list.** The type invariants of the modules
outside `components`, `PushedWasDelivered`, `PushedIsFinal` (both also follow from
`ImplementsOutbox`), `OneCreatorAtATime`, `FingerFlagMatchesTemplate`,
`RecordsPassedChecks`, and the two halves of `DuplicateNeedsRace`.
`NextCodeIsFree` is violated in `tenant_overflow`, beyond the bound of its theorem.

**Only model-checked:** the liveness properties (`PendingIsSettled`,
`ClosedUnlessMidnight`, `CacheCatchesUp`), which TLAPS does not reach, and the
disagreements of section 5, which are counterexamples.

## 5. Where the code and its documents disagree

1. `datalake_adapter.py:337` - a push that fails parks the row as FAILED for good;
   the docstring (lines 5-7) promises a flush on the next successful connection.
2. `biometrics.service.ts:207` - the duplicate check and the write are separate
   statements; `Fencein.md:97` and `docs/system_flow.md:144` promise uniqueness.
3. `attendance.service.ts:145` - an open record of yesterday cannot be closed;
   `analysis.md:135` lists overnight shifts.
4. `auth.service.ts:399` - codes are ordered as strings; from OG1000 on no
   organisation can be created, under the comment "guarantee atomic sequential
   ID generation" (line 394).
5. `app.py:1044` - candidates of both databases are mixed, and one user is
   refused as "two users above threshold" (docstring, line 970).

6. `BiometricSetupGate.tsx:188` - the gate records an enrolment in a field the
   guard of the dashboard (`RoleRoute.tsx:21`) does not read: "Biometric
   compliance verified. Accessing Dashboard..." (line 321) leads back to the gate.

One more has no run of its own, as two entries one after the other show it:

7. `journey_tracker.py:328` and `app.py:2084` document a "Site Health Score (0–100)".
   The attendance rate (line 261) has no upper limit, so that two workers where one
   was expected give 130, and the trust score of an event is whatever float the
   caller sends (`app.py:1670`, 2024). `HealthKeepsItsScale` states, and its
   theorem proves, that nothing else takes the score out of its scale.

The models contain further behaviours that contradict no document, or only
loosely, and that a reader of a module may stop at.

*Enrolment and login.* An adaptive enrolment puts an embedding back on a revoked
row (`AdaptiveStore`, `AdaptiveWrite`) and writes the cache whether or not the
service is offline, which `offline_cache.py:12` calls read-only; removed users
stay in the cache; an enrolment can lose its embedding to a revocation;
user_biometrics keeps revoked modalities, which nothing reads. The services
encipher templates differently (a random vector in `app.py:206`, a constant one in
`biometrics.service.ts:63`; the comment at `app.py:190` says "matching NestJS
exactly"), so neither verifies or finds the other's prints. `identifyByFace` and
`identifyByFingerprint` omit the tenant the Python service requires and take its
422 for an engine that is offline (`biometrics.service.ts:557`, 617). Python enrols prints
with fewer descriptors than verification asks for.

*Pages.* The login page sends no template to verify-fingerprint; the wizard
ignores the print when it registers, and its enrolment of a print always fails; a
registration whose answer is lost leaves an account. The fingerprint panel of the
settings page stays open after a network error; its camera stays on when the
page is left while the browser asks for permission. A pointer that leaves the
scanner without a press counts as a failed scan. A review that is answered closes
whichever review dialog is open then. A password change that is answered after a
logout installs a session again, without the biometric status. The offline list
of worker requests is never sent, as `syncOfflineQueue` has no caller; the sync of the
kiosk carries no token, so no record ever leaves its queue, and the listener of
the `online` event holds a closure without a database.

*Backend.* Two check-ins or check-outs can overlap; an email can have two active
access requests; a request can be provisioned in any status but ONBOARDED. A
socket is authenticated when it connects and outlives its token
(`AnnouncementsStayHome` therefore speaks of the session, not of the token). The
portal login of the Python service ignores `isActive`.

*Python service.* A day ends at 23:59:59 for the figures, without its last
second; a worker inside since before midnight is not listed as on site and can
have a negative time on site. A user whose registration stored the flag and not the
embedding (`auth.service.ts:324-354`, or an empty image at `app.py:447`) gets an error
from every face verification of this service until revoked or enrolled by it. A face
of 0.50 without any liveness reaches MANUAL_REVIEW where position and device are
good: no signal of the trust score has a veto. Charges are gone after twelve hours (`risk_engine.py:19` speaks of "2
points per 24 hours"). A watchlist sync adds the same accounts again and removes
nobody. The texture score alone makes a frame live; an anti-spoofing analysis
that fails counts half, so a frame on which all five fail is accepted.

## 6. What is left out

Within the modelled parts: image processing (its verdict is an input, or what it
measures), quality checks and refusals that write nothing, append-only audit
trails, time other than days, hours or ticks, more than one tenant in `FaceCache`
(both searches filter by it), slugs of tenants, hashing and enciphering beyond who
can read what, retries of users that repeat an action of the model.

Not modelled, and why; `PROJECT.json` lists each:

- what pages draw: markup, styling, charts, filters, the chat, and the landing
  page. They are most of the lines of `frontend/`;
- reports, analytics and the summaries behind charts: reads of several tables
  that write nothing and on which nothing else rests. When a page reads them is
  in `LivePages`;
- sites, shifts, vendors: single statements without a state to keep in step;
- face detection, embeddings and fingerprint descriptors: numeric code without
  state;
- code nothing calls: the services and stores under `frontend/src/modules/*/`
  that no page imports, `remove_from_watchlist`, `remove_embedding`, the table
  `site_snapshots`;
- reads of risk scores and the monitoring queue, which change nothing;
- schema, seeds and imports, which are data.

The map covers some 4700 lines, a little under a fifth of the implementation in
TypeScript, JavaScript and Python. Most of the stateful Python service and of the
backend's multi-step handlers is in it; nearly all of the rest is the list above,
pages first.

## 7. Plan

Done, each with its runs and its theorems: DatalakeQueue with Outbox,
BiometricEnrollment, Attendance, TenantOnboarding, FaceCache, LivenessNonce,
BiometricChecks, AccountAccess, KioskAttendance, WorkerOnboarding, LivePages,
SignupWizard, SettingsPanels, EdgeMonitor, BrowserSession, CaptureVerdicts, SiteDay.

What is left is liveness under fairness, which stays with TLC, and the parts that
section 6 lists.
