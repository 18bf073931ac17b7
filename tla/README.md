# home-guard in TLA+

home-guard locks a PC until a zone of the home has been cleaned and shown on a
photo. A gate on the PC mints a single-use token, publishes it, and takes a
photo that echoes it; a phone app takes photos offline, queues them and uploads
them when a challenge is published; both sides edit the rotation of zones. This
directory holds the TLA+ models of that system, the TLC configurations that
check them and the TLAPS proofs about them. Paths below are relative to the
repository's root.

1. [The system](#1-the-system)
2. [Modules](#2-modules)
3. [Runs](#3-runs)
4. [Proofs](#4-proofs)
5. [Where the code and its comments disagree](#5-where-the-code-and-its-comments-disagree)
6. [What is not modelled](#6-what-is-not-modelled)
7. [Plan](#7-plan)

## 1. The system

| component | state | operations | interacts with |
|---|---|---|---|
| slots and due check (`_slots.py`, `_gate.py`) | none | which slots of the day have elapsed and are uncleared | reads the log and the shared free days |
| gate run (`_cli_gate.py`, timer and service units) | one process | marker check, due check, wait for X, arm | starts the lock |
| lock (`_lock.py`, `_network_incident.py`) | slot, zone, published or not | mint, publish, wait for a turn, grab, close | hosts the poller and the hatch dialog; closes on an accept, a grant or an error |
| challenge store (`_challenge.py`, `_challenge_store.py`) | `challenges.json`, one signed record per day and slot | mint, verify, consume | written by the gate (mint) and the worker (consume) |
| poller and accept (`_poller.py`, `_accept.py`) | one worker thread, one future | fetch, verify, log, advance, consume, republish, drain | all the files, both RTDB nodes |
| evidence photos (`_evidence_photos.py`, `_clear_photos.py`) | one file per photo | check all, open and write one by one, refer to them in the log | called by the accept before its log entry |
| clear log (`_log.py`, `_log_store.py`) | entries per day | append (read all, replace all), cleared slots | written by the worker *and* the Tk thread |
| zone cursor (`_zone_cursor.py`) | index, last key | advance past the cleaned zone, once per key | reads the zone list |
| escape hatch (`_escape_hatch.py`, `_view.py`) | use history (gatelock's tracker, loaded per lock) | check budget, record, log, close | runs in a Tk callback |
| zone list on the PC (`_zone_list.py`, `_zone_merge.py`, `_sync_zones.py`, `_cli_zones.py`) | `.zone_list`, edits by effective day | pull and merge, record, publish | the zones node |
| zone sync on the phone (`zone_sync.dart`, `zone_history.dart`, zone screens) | a cached history | load (merge), set (publish) | the zones node |
| upload queue (`upload_queue.dart`, `challenge_sync.dart`) | none of its own | drain: settle, keep as a record, send, confirm | session store, challenge and evidence nodes |
| home screen (`home_screen.dart`, `home_body.dart`) | phase, current session | refresh, take photo, finish | starts drains and pruning it does not wait for |
| session store (`session_store.dart`, `session_files.dart`) | one index file, one file per photo | put, addPhoto, queued, prune | written by every screen and every drain |
| history screens (`history_screen.dart`, `clean_detail_screen.dart`, `log_clean_screen.dart`) | a copy of a clean | open, add a photo, save, leave | session store, over a home screen that goes on working |
| disarm marker (`_disarm.py`, `scripts/disarm.sh`, `disarm_guard.sh`, `rearm.sh`, `install.sh`) | marker, masked and stashed units | disarm, re-arm, install | looked at once by a gate run |

What is hard in it, and has to be right:

* **Two threads, one log.** The worker's accept and the Tk thread's grant both
  read the whole log and write the whole log (`_log_store.py:50-59`).
* **An accept is five writes.** Log, cursor, store, challenge node, evidence
  node, in that order; a kill, a full disk or an outage can come between any two,
  and the next poll or the next run starts over.
* **Days.** A lock may outlive midnight, a photo may arrive days after it was
  taken, a drain reads the clock at several points, phone clocks and time zones differ.
* **Read, await, write.** On the phone, the session store and the zone cache are
  read before an await and written after it, by callers that overlap.
* **Whole copies without a lock.** Zone histories are published over each other.
* **Lists that change under the cursor.** The cursor is a place in one day's list
  and is read in another's; edits arrive at any time, from either device.
* **Scripts that die.** Disarming and re-arming are a dozen commands over files,
  masks, a timer and a marker; any of them can be the last.
* **Late keys.** The HMAC key may be created after installation; what was written
  unsigned before is then ignored.

For each component, correctness is what section 3 lists: the gate enforces what
is due and lets go of what is done; a token is used once, for its own day, and
never consumed with nothing to show; the cursor moves with the log; the hatch
stays within its budget; the queue claims nothing that was not sent and spends
no other day's token; the store keeps the photos of cleans that were not
sent; the rotation's past stays as it was judged and new challenges follow the
last clean; photos and log entries belong together; a disarmed machine has
nothing to run and a re-armed one runs. `PROJECT.json` lists the
hazards one by one, each with its line and with the properties that cover it
or the reason why none does.

## 2. Modules

| module | models |
|---|---|
| `Slots` | the slot arithmetic of `_slots.py` |
| `LockGate` (`MCLockGate`) | gate run, lock, poller thread, accept, log, cursor, store, hatch, marker, key; the phone, the clock and the network as its environment |
| `UploadQueue` | home screen, drains and the index file, with the PC reduced to what the phone can see |
| `ZoneHistory` | both copies of the rotation's history, the node between them, the command and the screens that write them |
| `SessionStore` (`MCSessionStore`) | index and photo files under the two kinds of screens, a drain and pruning |
| `ZoneCycle` (`MCZoneCycle`) | cursor, challenges, accept and log under a list of zones that is being edited |
| `Disarm` | `disarm.sh`, `rearm.sh`, `install.sh`, command by command, over units, stashes, timer and marker |
| `EvidencePhotos` (`MCEvidencePhotos`) | the photos an accept writes, a disk that fills, the log entries that refer to them |
| `EscapeHatch` (`MCEscapeHatch`) | grants against rolling windows, over days, locks that outlive midnights, and crashes |
| `TokenLedger` | the abstract specification: tokens that are issued, spent once and accounted for |
| `LockGateProofs`, `UploadQueueProofs`, `ZoneHistoryProofs`, `SessionStoreProofs`, `ZoneCycleProofs`, `DisarmProofs`, `EvidencePhotosProofs`, `EscapeHatchProofs` | theorems |

### LockGate

`pc` is the gate process up to the armed Tk loop, `wpc` the poller's worker with
the payload in `wev`, its captured day in `wday`, whether its entry was signed in
`wsig` (the entry is made before the log is read) and the log it read in `wsnap`;
`upc`, `uday`, `usnap` are the same for a grant in the Tk thread. Handlers are
split at every file and network call, and not elsewhere: `FetchEvidence`,
`Verify`, `ReadLog`, `AppendClear`, `AdvanceCursor`, `ConsumeChallenge`,
`PublishConsumed`, `DrainEvidence` are `process_evidence` in its own order. A
payload that is refused stays on its node, as in the code.

* A slot key is the hour the slot opens at; a token is its day, slot and the
  number of times that pair was minted. The evidence payload's day and slot are
  copied from the challenge with the token, so the token stands for all three.
* The log is a set of entries. No reader tells the order of a day's entries or
  equal entries apart when it decides what is cleared.
* A store write is one step (a temporary file and a rename). That both
  threads' log writes use the same temporary name, and files that cannot be
  parsed, are not modelled here (`EvidencePhotos` has a log that cannot be read).
  A record's zone is left out: the zone a payload is
  checked against is the captured day's rotation.
* A signature is whether the key existed when the entry was written.
* `Rotation` is a constant, so no zone edit happens during a run; the worker's
  fallback of `advance` for a zone that left the list is not reached here;
  `ZoneCycle` has the edits.
* `WorkerFails` is every exception of `_CHECK_EXCEPTIONS`, a full disk included;
  `CallbackError` is every other exception on the Tk thread; `Crash` is a kill.
* The hatch is a number of uses; `EscapeHatch` has its windows.
* Photos are good or bad; `EvidencePhotos` has their files.
* `AppGuards` says whether the uploads come from the app, which sends cleans of
  its challenge's day only, or from anything that can write the node. Zones are
  free in both cases: the app offers the list it knows, an old copy or the default
  (`home_screen.dart:85-119`), and the queue does not look at the zone
  (`upload_queue.dart:114-147`), so the PC refuses some of its payloads. Most
  safety properties are checked without the guards.
* `TakeTurn` is the end of the arbiter's wait for the other locks of the machine.
  The wait itself is gatelock's; that it ends is assumed where liveness is asked.

### UploadQueue

Dart runs one handler at a time and switches at an await; every await of
`drain`, `_send`, `put` and of the screen's handlers separates two steps here
(`Fetch`, `ReadToday`, ... and `PutLoad`, `PutSave`); between the check that a
clean may be sent (`StartSend`) and its landing on the node (`Send`, `SendFails`)
photos are read and encoded, and anything can happen. `todo[p]` is the
list a drain read at its start, with the manifests *as they were then*. `finisher`
is the drains that a `_finish` waits for; several can be waited for at a time.
There is one slot a day, so a day stands for its challenge and its token. Both
devices have one clock. Photo bytes, the history screens and pruning are in
`SessionStore`. The PC appends and consumes in one step here; `LockGate` has
what can come between. `SendFails` includes a write that landed and was
reported as failed; `Confirm` and `GiveUp` are the outcomes of the confirm loop.

### ZoneHistory

A history maps each effective day to the edit that stands for it. Which list of
zones an edit sets is left out: which edit stands says it. `made` has the edits in
the order they were made; each carries the stamp of the device it was made on, and
the two devices' clocks are unrelated: a stamp is any that the device has not used,
so a replacement can carry an earlier stamp than what it replaces. Of equal stamps
the phone's is the later, as the strings compare ("Z" and "+00:00"). The merge is
written twice, `Merge` for `_zone_merge.py` and `PhoneMerge` for
`zone_history.dart`, and `MergesAgree` compares the two. Each device reads its own
local day, and the two may be one day apart. Day 0 is the epoch, at which `init`
seeds its default. A load's day and cache are read in one step, its remote in a
second, its write is a third; `setZones` is cache first, node second. One
PC command runs at a time.

### SessionStore

`job` holds each client's store call under way: what it is to put, and the whole
index as its `put` read it. `shown` are the copies that the home screen and the
screen over it hold, however old; `todo` a drain's copies; `prune` the index a
prune loaded and the files it has deleted. `reached` remembers which cleans were
ever stored as accepted, which is the code's own criterion for photos that may go.
`waiting` counts the `_finish` calls that wait for their drain: a refresh that ends
meanwhile frees the buttons, and the next clean can be finished over it.
The read of `put` is folded into the step before it: what can happen in between
can as well happen before that step. All photos have one size. The budget is
decided per clean, as in `prune`: a clean that has begun to go goes entirely.

A save of the index (`session_files.dart:57-59`) truncates the file and then
writes it: `torn` is that file after a kill in between, which `load` reads as no
cleans. Photos that only such an index listed stay on disk and are not pruned.

### TokenLedger, and what implements it

`TokenLedger` knows tokens, which of them are issued, open and spent, which have
a credit or an excuse, and the last announcement. A token is issued once; it is
spent only while open, and only with its credit; what is spent, or announced as
spent, keeps its backing. `LockGate!Ledger` maps the log, the signed records, the
mints and the challenge node to it, with the escape entries of a later day as
excuses. The run `LockGateKey` has the ledger's specification as a property
(`ImplementsLedger`): every step of gate, worker, Tk thread, phone, fault and key is
a step of the ledger or none.

### ZoneCycle

`hist` is `.zone_list`, `cmd` the day a running `zones` command took before
it waited for the network, `index` and `last` the cursor, `store` the records with
the zone they were minted for, `lock` the day and the zone on the lock's face.
The accept is split at its files: verify under the list of that moment, log,
advance under the list of *that* moment, consume. An edit, a midnight or a kill can
come between any two. A grant can overlap an accept: it closes the lock, the accept
goes on (`Executor.shutdown(wait=False)`), one of two log writes that overlap is lost,
and the next gate is armed only when this one has ended. There is one slot a day; payloads name any zone. `moved` and
`turn` are history variables: how often the cursor moved for a token, and the zone
last assigned or cleaned.

### Disarm

One action per command that changes something: `DisableTimer`, `StopTimer`,
`StashUnit`, `MaskUnit`, `WriteMarker`; `RemoveMarker`, `UnmaskUnit`,
`RestoreUnit`, `DiscardStash`, `CheckTimerFile`, `EnableTimer`, `RearmTimer`;
`CopyService`, `CopyTimer`, `InstallEnables`, `InstallStarts`. `step` and `unit`
are the place in a script and in its loop. `Killed` is the death of a script at any
place, `Reboot` of all of them; `HandStart` a user's `systemctl start`. Assumed:
`disarm.sh` and `rearm.sh` run one at a time; `install.sh` looks for the marker
before its slow part (`prepare`: packages, minutes) and a disarm may come in
there, but its last commands do not overlap with the other scripts; a
copy, a move and one `systemctl` call are one step each. `systemctl` is external
and modelled by what the scripts rely on: a masked or missing unit is not
enabled or started.

### EvidencePhotos

`CheckPhotos` is the first loop of `save_evidence_photos` (decode, sizes, room
for all of them plus the reserve, or a disk that cannot be asked); `OpenPhoto` and
`WritePhoto` are one turn of the second: `write_bytes` truncates the file, which
frees the room of an older one, and then writes it. A fault in between leaves `Torn`.
`disk` holds which payload's photo is under a file name; names are made of day, slot and
the zone's *slug*, which two zones can share. `snap` is the log as the worker
read it, empty after a read error as in `_log_store.py:29-31`. A key that is
created late voids the unsigned records: their slots are minted again, and the
accept of the new token writes over the photos of the old one.

### EscapeHatch

`tracker` is the uses that the lock's `EscapeTracker` loaded when it was built and was
told since, `history` those that were saved, `escapes` the log's entries. A grant
reads the clock once; recording, saving and logging are steps of their own, with
midnights, failed saves and kills between them. The dialog's text minima are the
choice to submit. gatelock's tracker is external, modelled as this code uses it.

## 3. Runs

`@@` marks a temporal property; all others are invariants or, with `[]`, action
properties.

| run | question | properties |
|---|---|---|
| `LockGate` | do log, cursor, store and budget agree after any two faults, whatever is uploaded? | `TypeOK`, `ConsumedIsBacked`, `CreditIsEarned`, `EscapesAreBudgeted`, `CursorFollowsLog`, `AcceptedIsOnRecord`, `TokenIsSingleUse` [] |
| `LockGateApp` | with the app's guard, does a photo credit its own day, can a lock be answered, does polling go on and do slots get enforced? | `CreditsOwnDay`, `OpenLockIsAnswerable`, `NoDeafLock` @@, `DueSlotIsEnforced` @@ |
| `LockGateKey` | a key created at any time; are tokens minted only for slots that are not satisfied, and do files, threads and node implement the ledger? | `NodeConsumedIsBacked`, `TokenOnlyForDueSlot` [], `ImplementsLedger` (refinement) |
| `UploadQueue` | overlapping taps, a drain, midnights and a PC | `SpendsOwnDay`, `AcceptedWasSent` |
| `UploadQueueLive` | kills, no network, fair handlers | `TypeOK`, `PastCleansSettle` @@ |
| `ZoneHistory` | two writers of one history, with two clocks; does what one published reach the other? | `TypeOK`, `MergesAgree`, `PcKeepsItsPast` [], `PcMovesForward` [], `PhoneCatchesUp` @@, `PcCatchesUp` @@ |
| `SessionStore` | stale copies, pruning and kills against the photo files | `TypeOK`, `UnsentPhotosAreKept` |
| `Disarm` | disarms, re-arms, installs and kills in any order | `MarkerMeansMasked`, `UnitsAreNotLost` [], `RearmArms` @@ |
| `ZoneCycle` | an edit, a fault and grants anywhere in three days of cleans | `TypeOK`, `MovesOncePerToken`, `RotationFollowsCleans` [] |
| `EvidencePhotos` | a filling disk, torn files, a late key, kills and retries | `AcceptedPhotosStand`, `NoOrphans` |
| `EscapeHatch` | windows, midnights, failed saves, kills | `RollingBudget`, `EscapesArePaid`, `HistoryGrows` [] |
| `UploadQueueTick` | a statement of a comment that does not hold, see section 5 | `AcceptedWasCredited`, violated |

Every property of a passing run has a mutant in its module, an operator with the
defect that the property guards against (a guard dropped, an effect too early, a
retry that cannot go on), which `PROJECT.json` pairs with the property: under the
mutant the same run fails.

**Bounds.** The hour has two or three values, enough for a time before the
window, a slot and (in two of the runs) a time after; days are two, enough for a midnight,
a late photo and a token of yesterday. `MaxFaults = 2` gives a crash and a
failed write in one accept, or an outage and a crash. `MaxMints = 2` gives a
token minted again after the key voided the first. Two zones of which the second
day drops one make the captured day's list matter. `UploadQueue` has two cleans
(the smallest number with which one can be mistaken for the other) and one
drain; that drains overlap with one another is covered by the proofs, which hold
for any number, and in the runs by the taps and refreshes that overlap a drain.
`_finish` calls that wait at a time are bounded by `MaxWaits`: one in `UploadQueue`, two in
`UploadQueueLive`, any number in the proofs.
`ZoneHistory` has two edits and two stamps beside the seed's: enough for one on each
side, in either order of their stamps or with equal ones, and for one that undoes the
other; the safety properties are proved for any number.
`SessionStore` has one clean of two photos and one of one photo, two store calls
under way, and room for two photos, so that pruning starts while an unsent clean exists;
one `_finish` waits at a time (`MaxWaits`), and the proof is for any number.
`LockGateKey` has one zone, since nothing it asks depends on zones, and two days,
so that an escape excuses an earlier day and a token of yesterday is still about.
`LockGateApp` has two slots a day, since a lock that may no longer be answered takes
two: after midnight a lock of the second slot mints the new day's token, dies, and
the first slot is enforced next. It has a rotation of one of two zones, so that
payloads of the other are refused, one fault, and one mint per slot: the key is there
from the start, so no token is minted twice. The other runs of `LockGate` have one slot a day for their size; the theorems
hold for any number.
`Disarm` has three disarms and three kills: a disarm that died, one that finished
the work, and one more over what a re-arm restored. `ZoneCycle` has three days (a
clean, an edit, and a day on which the edit's effect on the cursor shows), one edit
and one fault, and two zones in two lists: one with a zone twice, one without the other
zone; an edit can take away the zone that is being cleaned, or move it. `EvidencePhotos`
has three payloads of up to two photos, two names with one slug, two faults, and room for
three photos with a reserve of one: a disk that has room for a payload, for its first photo
only, or for none.
`EscapeHatch` has windows of the policy's shape (2 in 7, 5 in 30, 12 in 90 days)
scaled to 1 in 2, 2 in 4 and 3 in 7 days, over nine days, so that each window
fills, slides and frees a use again. The type invariants of `Disarm`, `EvidencePhotos` and
`EscapeHatch` hold under the same bounds; the runs ask for the properties that say more.

**Fairness.** `LockGate`: the timer runs every half hour, the threads go on,
the other locks of the machine give up their turn (`TakeTurn`: the arbiter's wait is
assumed to end) and an outage ends (`WF` on the gate run, the worker, a grant under way,
`NetUp`).
Nothing is asked of the user, the phone, the clock or the marker, and crashes and
failed writes are bounded by `MaxFaults`. The run has the key from the beginning: a key
created while a lock is up voids its challenge, and after a failed accept
nothing answers that lock any more but the hatch. `UploadQueue`: awaits return and the app is opened
again and again; nothing is asked of the network or the PC. Neither uses strong
fairness. `ZoneHistory`: the screens are opened and the command is run again and
again (`WF`, in the specification). That of the fetches that keep being tried one gets
through, and of the handlers that fetched something one is not killed before it has written
(`SF`), is the premise `PhoneGetsThrough` or `PcGetsThrough` of the property that needs it;
that a publish ever succeeds is not assumed, the properties are about what was published. `Disarm`:
a script that was started goes on (`WF`; kills are bounded), and a user who wants
the gate back runs `rearm.sh` again (`SF`: others may keep the scripts busy in between).

**Deadlock** is checked in every run but `EvidencePhotos`, where the phone may have
sent all its payloads and nothing is left to accept.

## 4. Proofs

All theorems hold for every value of the constants that satisfies the named
assumptions of the modules (`SlotsAssumption`, `LockGateAssumption`, and so on for
`UploadQueue`, `ZoneHistory`, `SessionStore`, `ZoneCycle`, `Disarm`, `EvidencePhotos` and
`EscapeHatch`): the bounds are natural numbers, rotations are not empty, `Nothing` and
`NoValue` are none of the values they are used beside. Each proof module gives an
inductive invariant `IInv`, proves `Init => IInv` and `IInv /\ [Next]_vars => IInv'`,
and derives the properties. Every safety property of a passing run, its type
invariants and the refinement included, is a theorem.

* **LockGateProofs.** `IInv` is `TypeInv` (types, and which
  of `lock`, `wev`, `wday`, `uday` are present at which program counter) and
  eight parts. `Earned`: nothing, in the log or in a thread's copy, is ahead
  of the clock or of the mints. `Dated`: no token in circulation is of a day after
  the lock's, and a grant files under the lock's day or later; with it a grant
  that overwrites a clear accounts for the token the clear would have.
  `AllBacked`: each consumed token is accounted for in the log *and* in the log
  as the worker is about to write it. `Progress`: what an accept has done so far
  is still there, and its entry was signed if there was a key (`SignatureSteps`). `Snapshots`: the threads' copies against the log; they lose only
  each other's entries. `Budgeted`, `StillDue`, `CursorPlaced`: the
  strengthenings of the three properties they are named for. Theorems: `TypeCorrect`,
  `ConsumedAreBacked`, `NodeConsumedAreBacked`, `CreditsAreEarned`, `EscapesStayBudgeted`,
  `CursorStaysWithLog`, `AcceptsAreOnRecord`, `TokensAreSingleUse`, `TokensAreForDueSlots`.

  `PcImplementsLedger` is the refinement of `TokenLedger`. `LedgerSteps` singles out the
  seven kinds of step that touch the ledger at all; each has a lemma that says what it does
  to the sets that stand for the ledger's variables (`MintIssues`, `ConsumeSpends`,
  `AppendCredits`, `EscapeExcuses`, `PublishAnnounces`). That an overwriting log write
  keeps what is spent or announced backed (`SettledAfter`) is `AllBacked` after the step.

  With the app's guards three more parts are inductive together with `IInv` (`AppInv`):
  `PhoneDated` (what the phone sends was captured on its token's day, and no token it
  holds is ahead of the clock), `ClearsFit` (a clear is of its token's day and slot, and
  signed where the key is as old as the installation) and `Answerable` (from its minting
  on, a lock's challenge is consumed only by the accept that closes the lock, or was
  before a grant for another slot took its clear out of the log). The argument for the
  last: a challenge that is found consumed is backed; its clear would make the slot
  satisfied, and an escape of this slot too, so only another slot's escape is left.
  `PhotosCreditTheirOwnDay` has the hypothesis `AppGuards`, `OpenLocksAreAnswerable` also
  `KeyAtStart`; both are false without them, and the run `LockGateApp` has both true.
* **UploadQueueProofs.** `Honest`: not only the stored manifests tell the truth but
  every copy that a drain or a put carries, since each may be written back.
  `Dated`: the order of a drain's looks at the clock. `OwnDay`: every payload
  on its way was taken on its token's day. Theorems: `TypeCorrect`, `CreditsSpendTheirOwnDay`,
  `AcceptedCleansWereSent`.
* **ZoneHistoryProofs.** `Known`: whatever edit is found in a copy of the history, on
  either device, on the node or in a handler, was made. So where stamps follow the order
  of `made`, an entry with a later stamp was made later, and a merge only ever replaces
  an entry by one that was (`PcOnlyMovesForward`, whose hypothesis `InStep` is about the
  stamps made so far, this step's included). That the two merges agree is by cases on a
  day's two entries and needs the stamps to tell the edits apart. Theorems: `TypeCorrect`, `PcPastIsKept`, `PcOnlyMovesForward`, `MergesAlwaysAgree`.
* **SessionStoreProofs.** `Sound`: every copy that may still be written back, be it on a
  screen, in a put, in a drain's list, in a prune or in the index it read, lists
  only photos that are on the disk, unless its clean reached the PC; and what any such index
  calls accepted did reach it. Theorems: `TypeCorrect`, `UnsentPhotosStay`.

* **ZoneCycleProofs.** Lemmas: every day has a list in force, since the first list is
  never removed (`ListForType`), a listed zone has a first place, and a cursor just past a
  zone reads the zone that follows it, around the end too (`IndexAfterFacts`). `OneWay`:
  payloads, accepts and the cursor's last key only go forward in days, since a newer
  payload replaces an older one and a late one cannot come back. `MovedOnce` rests on
  it: a key that is not the last one has never moved the cursor. `PointsAtTurn`: the cursor
  points, in the list of the last turn, at the zone whose turn it is. Theorems:
  `TypeCorrect`, `TokensMoveItOnce`, `RotationKeepsItsTurn`.
* **DisarmProofs.** The order of commands, by place in the script: `DisarmHolds` (link, files,
  masks, marker), `RearmHolds` (marker, masks, files, stash), `InstallHolds` (no script
  runs beside install's last part, which found no marker), `LinkHasFile`.
  Theorems: `TypeCorrect`, `TheMarkerNeverLies`, `NoUnitIsLost`.
* **EvidencePhotosProofs.** `InHand`: what is opened or written so far belongs to the
  payload in hand, whose challenge is open. `SnapIsLog`, `EntryIsLast`, `FiledUnderKey`: how
  the log grows, also from a copy that could not be read; an entry names files of its own
  key only, so files of a consumed challenge are not opened again. `Owned`: who a photo on
  disk belongs to. Theorems: `TypeCorrect`, `PhotosOfAcceptsStand`, `NoPhotoIsOrphaned`.
* **EscapeHatchProofs.** Not the log's windows are inductive but those of the history and of
  the tracker (`Budgeted`), with `Remembered`: a lock's tracker holds everything saved and
  nothing later than the day its grant took, so a window that ends after that day gains no
  use it did not count. The log's escapes are among the saved uses (`PaidIsSaved`,
  `EscapesArePaid`). Theorems: `TypeCorrect`, `EscapesStayPaid`, `BudgetIsNeverExceeded`,
  `HistoryOnlyGrows`.

Only model-checked: the liveness properties (`NoDeafLock`, `DueSlotIsEnforced`, `PastCleansSettle`, `PhoneCatchesUp`, `PcCatchesUp`, `RearmArms`), since
the prover has neither fairness nor `ENABLED`; and the violations of section 5.

## 5. Where the code and its comments disagree

Each row is a property that states what a comment says, in the module named
first, and a configuration that violates it. `UploadQueueTick` is one of the
runs of `PROJECT.json`; the others are kept beside it and are reproduced by
`tlc -config <configuration>.cfg <module>` (the `MC` module where there is one). Each
ends in the violation of its property; a "second property" is checked by writing it in place
of the one in the configuration, whose constants serve both.

| configuration | property | the comment | what the code does |
|---|---|---|---|
| `UploadQueueTick` | `AcceptedWasCredited` | `upload_queue.dart:158-161`: no "green tick it did not earn" | an empty node or a consumed token marks a clean as accepted that the PC never took |
| `UploadQueueRecord` | `RejectedWasNotCredited` | `upload_queue.dart:103-104`: a record "could not be credited" | an upload that landed but was reported as failed is credited and kept as a record |
| `UploadQueueDraft` | `DraftIsBeingPhotographed` | `clean_session.dart:41-42`: a draft is "Being photographed right now" | after a kill no screen goes on with the stored draft and no drain sends it |
| `LockGateStale` | `AcceptClearsTheLock` | `_accept.py:132`: a clean filed under an earlier day "grants nothing now" | it closes today's lock; the slot is still due, and the next timer run arms again |
| `LockGateMidnight` | `HatchSatisfiesItsSlot` | `_escape_hatch.py:10`: a grant "satisfies *this slot*" | a lock left up past midnight files the grant under the new day, so its own slot stays unsatisfied and the new day's is satisfied |
| `LockGateDisarm` | `DisarmedGateStaysDown` | `_cli_gate.py:31-33`: "one check here covers every scheduled run" | a run that looked before the marker was written still locks after its waits |
| `LockGateRetry` | `FailedPublishIsRetried` | `_lock.py:128`: "Sync unavailable right now -- retrying" | the challenge is published once, when the lock is built |
| `LockGateConsumed` | `WaitsForAPhoto` | `_lock.py:127`: "Waiting for a photo from the home-guard app." | a grant's write of an older log undid the clear of a later slot, minted for after midnight; that slot's lock is then armed on a consumed challenge, which no photo answers |
| `ZoneHistoryClock` | `LaterEditWins` | `_zone_merge.py:10`: "the later edit wins" | with the phone's clock ahead, an edit on the PC replaces a pulled one that was made before it but stamped later, and the next pull brings that one back |
| `ZoneHistoryEdit` | `CachedEditSurvives` | `zone_sync.dart:6-7`, `:125-126`: an edit is never lost | a load that is waiting for the network writes its older cache back over it |
| `ZoneHistoryPush` | `CachedEditIsPushed` | `zone_sync.dart:125-126`: "pushed by the next successful [load]/[setZones]" | `load` never publishes |
| `SessionStoreName` | `NoPhotoIsOverwritten` | `session_store.dart:70-72`: a name is never reused | names come from the caller's copy; a second screen with the same clean overwrites a photo |
| `SessionStoreTorn` | `SaveRebuildsIndex` | `session_store.dart:38-39`: "a later save rebuilds it" | a save after a torn write keeps one clean and drops the rest |
| `SessionStorePrune` | `PruneSparesUnsent` | `session_store.dart:131`: "Never touches a session that has not reached the PC" | `prune` writes back the index it loaded before its deletions |
| `SessionStorePrune`, second property | `PutKeepsTheOthers` | `session_store.dart:57`: "Inserts or replaces [session]" | two puts that overlap undo each other |
| `ZoneCycleShown` | `OneZoneAtATime` | `DOCS-zone-rotation.md:3-5`: one zone at a time | a lock armed again shows the cursor's zone, its challenge another |
| `ZoneCycleShown`, second property | `RecordedZoneIsAccepted` | `DOCS-marker-protocol.md:53-55`: checked against the zone "as recorded in the challenge" | checked against the captured day's list as it is now |
| `ZoneCycleJudged`, second property | `JustCleanedComesLast` | `_zone_cursor.py:121-122`: the zone just cleaned "is the last to come round again" | a place in one list is read in another |
| `ZoneCycleJudged` | `JudgedDaysKeepTheirList` | `_zone_list.py:3-6`: an edit does not change past slots | the command takes its day before it waits for the network |
| `ZoneCycleRepeat` | `SameListKeepsCycling` | `README.md:19-20`: "the same list keeps cycling" | a zone named twice is always found at its first place |
| `EvidencePhotosReject` | `RejectedLeavesNothing` | `_evidence_photos.py:14-15`: a rejected payload leaves "zero files behind" | a second try that finds too little room leaves the first try's files |
| `EvidencePhotosTorn` | `LoggedPhotosAreWhole` | `_clear_photos.py:33`: an entry's photo is "where it is, and how big it was" | a retry after the log entry truncates the photo that the entry names; a kill or a full disk then leaves it so |
| `EvidencePhotosLog` | `PastEntriesStay` | `_log_store.py:55`: "Never rewrites past entries" | a log that cannot be read counts as empty and is written over |
| `DisarmStop` | `DisarmStopsTimer` | `disarm.sh:7`: "disable + stop the timer" | a timer that is started but not enabled goes on |
| `DisarmAlone` | `RearmWorksAlone` | `disarm_guard.sh:78-79`: `rearm.sh` "must work on its own" | the newest stash alone is restored; a disarm that died and was run again leaves two |

Not against a comment, but worth knowing: `LockGateSatisfied` shows a lock that stays up
over a satisfied slot (`SatisfiedLockReleases`). A worker fails between the log entry and
the consumption, a payload the PC refuses takes the node, and being "left in place"
(`_accept.py:86`) it leaves nothing to finish the accept; the lock waits until the phone
sends another payload, or for the hatch. And a retry of an accept that had logged its clear
appends it a second time, which does no harm to what is cleared.

Also met: `_zone_merge.py:4-5` says that whichever side merges lands on the same
result. By its own third rule that is so from today on, which is what `MergesAgree`
states; for days before, each side keeps its own entry. And a grant
and an accept that overlap drop one of the two log entries; `ConsumedIsBacked`
and `CursorFollowsLog` say what holds in spite of that, and `OpenLockIsAnswerable` where a
lock is left that only the hatch opens.

## 6. What is not modelled

* Status output, argument parsing, `init`, the MCP server, UI dump and network
  check: reports over the same files or developer tools, no state of their own.
* Photo bytes, encoding, camera, sign-in, settings, theme, layout; that a photo is
  usable is a yes or no.
* The wording of the hatch dialog and its growing text minima: a draft is good
  enough or it is not. How gatelock stores its history: external.
* Files of the PC that cannot be parsed, and the two threads' common temporary
  name for the log; a log that cannot be *read* is in `EvidencePhotos` only.
* `SessionStore.remove`, which no code of the app calls.
* The calendar expression of the timer: a run may start at any time.
* An overlap of `disarm.sh`, `rearm.sh` and the last seconds of `install.sh` with each
  other: they are run by one user by hand.
* CI and development scripts.

## 7. Plan

The order in which the modules were written: `Slots` and `LockGate` (the
system's own promise), `UploadQueue` (the other half of the protocol),
`ZoneHistory`, `SessionStore`; then `TokenLedger` with its refinement, `ZoneCycle`,
`Disarm`, `EvidencePhotos` and `EscapeHatch`; then the proofs of section 4. What is left:

1. The state behind the liveness properties as safety theorems: at each program counter the
   next step of an accept, a drain, a re-arm is possible, or the fault that stops it is named.
2. `SessionStore` and `UploadQueue` share the index: that the copies of one are the copies of
   the other is said in words only. The same holds of `LockGate` and `EscapeHatch`, whose
   budget stands for the windows.
3. Lemmas about `Slots` for the edges of a day.
