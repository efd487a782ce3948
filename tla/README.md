# A TLA+ verification of the SecOC simulation

The repository simulates an AUTOSAR *Secure Onboard Communication* stack in
Python: a sender appends a truncated freshness counter and a truncated MAC to
an authentic PDU, a receiver checks both, counts failures and locks the ECU
after too many, and a FastAPI server drives all of it, attack simulations
included.  This directory holds TLA+ models of that code, TLC configurations
that check them on small instances, and TLAPS proofs for every instance.

Paths below are relative to `src/`.  `PROJECT.json` maps each definition to the
lines it stands for.

## 1. The system

### Components

| Component | State | Operations | Modelled by |
|---|---|---|---|
| Freshness manager `sim/freshness_manager.py` | none of its own; `freshness_<pdu>_last_valid` in the NvM | `validate_freshness`, `commit_freshness`, `reinitialize_window` | `Freshness`, `SecOC` |
| Authenticator `sim/authenticator.py` | none | `generate_mac`, `verify_mac` | `SecOC` |
| PDU codec `sim/pdu_manager.py`, `sim/pdu_router.py` | none | `build_secured_pdu`, `parse_secured_pdu`, `route_to_bus` | `PduCodec` (bytes), `SecOC` (fields) |
| SecOC `sim/secoc.py` | none of its own | `transmit_secured`, `receive_secured`, `reset` | `SecOC` |
| Fault manager, policy engine `sim/fault_manager.py`, `sim/security_policy_engine.py` | failure count by PDU; lockout flag; shared `EcuState` | `record_failure`, `evaluate`, `reset` | `SecOC` |
| CAN bus `sim/can_bus.py` (a process-wide singleton) | FIFO queue; last frame by PDU | `start`, `publish`, `consume`, `get_last` | `CanBus` |
| ECU layer `sim/ecu_base.py`, `sim/sender_ecu.py`, `sim/receiver_ecu.py`, `sim/pdu_router.py` | running flag, handlers, transmit and receive counters | `on_startup`, `on_reset`, `shutdown`, `send_signal`, `on_frame_received` | `EcuPair` |
| Signal packager `sim/signal_packager.py` | a transmit buffer for each PDU | `pack_signal`, `send_signal`, `unpack_signal_from_pdu` | `SignalPackager` |
| Bus scheduler `sim/bus_scheduler.py` | periodic entries with the time each last fired | `schedule_periodic`, `start`, `tick` | `BusScheduler`, `PeriodicTx` |
| Application server `api/state.py`, `api/routers/` | one instance of all of the above; the captured frame of the replay simulation | HTTP endpoints, `AppState.__init__` | `AppServer`, `Persistence` |
| Event broadcast `api/websocket.py`, `api/events.py` | list of clients; broadcast cursor | `connect`, `disconnect`, `broadcast`, `broadcast_updates` | `EventBus` |
| NvM `sim/nvm.py` | dictionary in memory, `nvm_store.tmp`, `nvm_store.json` | `write`, `flush`, `_load` | `FreshnessStore` |
| Profiles `sim/security_profile.py` | entries in memory, `secoc_profiles.json` | `update_profile_version`, `reload` | `ProfileStore` |
| Secure boot `sim/secure_boot.py`, `sim/integrity_checker.py` | verdict and failed component; golden hashes in the NvM | `verify_boot_integrity` | `Persistence` |
| Keys `sim/key_manager.py`, `sim/key_storage.py` | key metadata (NvM) | `provision_key`, `rotate_key` | `KeyLifecycle` |
| Crypto stack `sim/csm.py`, `sim/cryif.py`, `sim/hsm.py` | job state, hash contexts; key material in memory, failure mode | `compute_mac`, `hash_update`, `hash_finish`, `generate_key_pair`, `simulate_failure`, ... | `CryptoStack`, `KeyLifecycle` |
| Audit log `sim/dem.py` | hash-chained entries, previous hash | `log`, `verify_integrity` | `AuditLog` |

Logging, profiling, the dashboards and the scripted scenarios are not modelled
(`PROJECT.json` lists each with the reason).

### How they interact

`receive_secured` parses the frame, asks the freshness manager whether the
reconstructed counter is in the window, has the MAC verified by way of the CSM and
the HSM, and then either commits the counter to the NvM and publishes the frame
on the bus *again*, or logs a DEM event and has the fault manager count the
failure, which may make the policy engine lock the `EcuState`.  The ECU classes
ask that state before they send or verify; the API endpoints do not.  After its
work every endpoint awaits `broadcast_updates`, which sends new DEM events and
the ECU state to the WebSocket clients.

At start-up `AppState.__init__` loads the NvM and the profiles, provisions the
keys and golden hashes that are missing, and runs the boot check; nobody reads
its verdict but the status endpoint.  The scheduler calls the application back
for each entry that is due, the packager turns signal values into a PDU for
`transmit_periodic`, and the receiver's handlers get the values back.

All of it runs on one asyncio event loop in one process, so code between two
awaits that really suspend is atomic.  Two awaits do: `ws.send_text`, and the
`asyncio.sleep(0)` of an interface's `receive_frame` on an empty queue, which
holds nothing across it and looks at the queue once more, so that it is a
`consume` that came later.  `send_signal`, `pdu_router.transmit` and
`transmit_periodic` are coroutines that never suspend.  Hence one action per
operation everywhere except in `EventBus` (suspensions), `FreshnessStore`,
`ProfileStore`, `Persistence` and `KeyLifecycle` (crashes and errors inside an
operation), and `BusScheduler` (callbacks inside `tick`).

### What is hard

* The wire carries a counter modulo 2^16 (2^8 on CLASSIC_CAN), and the MAC covers only
  that; the receiver reconstructs the rest.
* `transmit_secured` does not advance the counter: frames in flight together
  carry the same freshness.
* The channel repeats, reorders, misroutes, cuts and alters frames; only a frame's
  length tells which transport it was built for, and the MAC does not say.
* Failures are counted and cleared in different objects by two different resets.
* Two ECUs share one SecOC and one ECU state.
* The store is written in three file operations, twice for each commit, after
  memory has changed; keys and their metadata live in different places and only
  one of them survives a restart.  An unreadable store is an empty one.
* Start-up writes golden hashes one at a time, and may die between them.
* A profile changes in memory, then the file is read, changed and replaced.
* Key pairs, AES keys and MAC keys share one key store under the same key_ids.
* A list of clients is walked across suspensions and edited by several tasks.
* A callback that raises aborts the scheduler's loop for the entries behind it.
* All signals of a PDU share one buffer, dropped before the transmission.
* A bounded journal is chained, without a key, from a first entry that is evicted.

`PROJECT.json` lists these and the lesser ones under "hazards", each at its line,
with the properties that cover it.

### What makes each component correct

* **SecOC**: accepted counters rise (`FreshnessRises`), an accepted frame is one
  that was built for that PDU, or the first 8 bytes of one where these protect the
  same bytes (`AcceptedWasSent`), never twice within a modulus
  (`NoReacceptanceWithinModulus`), a stale frame fails *as stale*
  (`StaleIsOutOfWindow`), a genuine next frame is always accepted
  (`RoundTripFD`, `RoundTripClassic`), a rejection leaves no trace that matters to later
  frames (`RejectionInert`).
* **Policy**: lockout flag and ECU state agree, lockouts are justified, missed by
  nobody and logged (`LockoutJustified`, `FailuresAudited`).
* **ECU pair**: lockout silences it (`LockoutQuiet`), the number of bad frames
  verified between two resets is bounded (`AttemptsBounded`), the application gets
  no payload twice (`NoDoubleDelivery`).
* **Periodic signals**: with periods of at least a tick per entry, an entry is late
  by less than a tick for itself and one for each entry before it, whatever the
  callbacks raise (`LatenessBounded`); the value a handler is told is the one packed for
  that transmission (`DecodedIsPacked`); a frame parses to what it was built from
  (`ParsedAsBuilt`) and, whole, on no other transport (`TransportsApart`).
* **Server**: tampered and forged frames are rejected and logged in every state
  (`AttackRejected`), a lockout after a reset takes a fresh run of failures
  (`LockoutNeedsFreshRun`).
* **Broadcast**: no event twice, no live client dropped, no ghost without cause,
  every broadcast ends.
* **Store**: never half written (`FileWhole`), a published counter is on disk
  (`DeliveredDurable`), none published twice across crashes (`DeliveredOnce`).
* **Profiles**: the file holds what callers were told it holds (`ProfilesReturned`).
* **Secure boot**: a serving process passed its check exactly if its firmware is
  the one first provisioned, whatever died in between (`TamperDetected`).
* **Keys**: a MAC of before a key change is dead (`OldMacsDead`), metadata that was
  returned survives (`AckedKeyDurable`), a serving process has a key for every
  profile, after an unreadable store too (`ServingHasKeys`), a failing HSM changes
  nothing (`FailureInert`).
* **Streaming hashes**: a digest covers what was fed to its own context since its
  last `hash_finish` (`DigestsComplete`).
* **Audit log**: a journal that verifies is a prefix of what was logged, unless hashes
  were recomputed, and all of it once an entry chained by `log` ends it
  (`VerifiedIsGenuine`); an untouched one keeps the newest entries, and verifies
  until the first eviction (`KeepsNewest`).

## 2. Modules

```
Freshness ──┐
CanBus ─────┴─ SecOC ─┬─ EcuPair ───┬─ MCEcuPair
AntiReplay ··(refined)┤             └─ EcuPairProofs (with SecOCProofs)
                      ├─ AppServer ─┬─ MCAppServer
                      │             └─ AppServerProofs (with SecOCProofs)
                      ├─ MCSecOC
                      └─ SecOCProofs
SignalPackager ─┐
PduCodec ───────┼─ PeriodicTx ─┬─ MCPeriodicTx
BusScheduler ───┘              └─ PeriodicTxProofs
FreshnessStore ─┬─ Persistence ─┬─ MCPersistence
ProfileStore ───┘               └─ PersistenceProofs
KeyLifecycle ──── CryptoStack ──┬─ MCCryptoStack
                                └─ CryptoStackProofs
EventBus ─┬─ MCEventBus
          └─ EventBusProofs
AuditLog ── AuditLogProofs
```

A definition is named after the function it stands for wherever TLA+ allows.
Each `(* Mutation: ... *)` definition is a plausible bug in the definition that
follows it; no specification uses it.  It documents what the properties can tell
apart: put in place of the definition, it makes a property fail.

**Freshness** is the counter arithmetic: `Candidate` is the reconstruction in
`validate_freshness`, `InWindow` its test.

**CanBus** is the singleton's queue and registry.

**SecOC** composes both with everything `receive_secured` calls.  `Accept` and
`Reject` are its two outcomes, whole: commit and publication, or the DEM
event, the count and the escalation.  `sent`, `accepted`, `sinceReset` and
`consecutive` are history variables.  A MAC is the record of its key, of the bytes it is
computed over and of its length; equality of records is `compare_digest`, and
collisions of truncated MACs are left out.  Every profile's MAC is an HMAC, for the
authenticator never reads `profile.algorithm`.  The bytes are
`authentic_pdu || truncated freshness` and nothing else.  `Covered` divides them
ahead of the length of the CLASSIC_CAN field on either transport, so that the same
bytes make the same record whatever transport they were put together for:
`Joined` is a payload with the high freshness bytes of a CAN_FD field behind it.
Cutting a CAN_FD frame to 8 bytes gives a frame that parses as CLASSIC_CAN.  If
payload and high bytes are 4 bytes together, its MAC field is the beginning of the
CAN_FD MAC, over the same bytes: `Shortened` is that frame.  Where they are not,
other bytes come to lie in the MAC field, and no MAC of the model is equal to
them.  `Wire` is what was built and its shortened forms; `Corrupted` is what else a
channel can do to either without a key.  Two resets exist, as in the code: `on_reset` (ECU path)
keeps the failure counts, `reset_ecu` (API) clears them.  DEM events of codes no
property is about (`ECU_RESET`, `KEY_ROTATED`, `WCET_EXCEEDED`) are not counted.  Each PDU has
key_ids of its own, as in `config/secoc_profiles.json`; giving a PDU the key_id
of another one is possible through the API and left to the plan.

**AntiReplay** is the promise in the abstract: offers, deliveries with rising
stamps at most a window apart, resynchronisations.  `SecOC!AntiReplaySpec` states
the refinement (`offered <- Wire`, `edge <- lastValid`, `delivered <- accepted`): to
build a frame offers its shortened form with it.

**EcuPair** wires a sender and a receiver as `sim/scenario_runner.py` does.  The frame
a receiver meets is any that was built or a corrupted copy, as in SecOC.  An ECU
is registered with its router exactly while it runs, so one variable serves for
both.  `send_signal` does not ask whether the ECU runs, and neither does the model.

**AppServer** has an action for each endpoint that changes the modelled state, the
key endpoints included (the storage side of those is in `KeyLifecycle`).
`replay` injects at the tail of the queue and processes the head, as
the endpoint does, and it may lose the frame to a bad request.  `mitm` builds and
tampers inside the call: the original never leaves it, so it is not in `sent`.
`POST /can/send` publishes frames that were built, whole or shortened, and forged ones.
`run_scenario` only empties the live bus: the scenarios that send call
`asyncio.run`, which fails inside the running loop, before anything is
published that stays.

**EventBus** models a handler up to each `send_text`; `position` is the list
iterator's index into the live list.  In reality `send_text` suspends only under
back-pressure; the model lets it suspend always, which contains those behaviours.
A send that is suspended when its client goes away may raise after all: `awaited` is
the client of such a send, and `Noted` the two ways the loop can be resumed.
The end of a loop removes the clients it noted as dead one at a time, as the code
does: `Without` is that loop, `remove` is `list.remove`.

**FreshnessStore** refines the one-step commit of SecOC: two flushes of three file
operations, then the publication; a crash or an `OSError` anywhere.  The window
record is always `[]` and never read, so only its flush is kept.
`reinitialize_window` makes the same two writes.  `load` takes what is not whole
for an empty store, and so does `load_fails`, of a file that cannot be read; from
then on nothing ties the new counters to the ones published before, and the history
`delivered` begins anew (section 5).

**ProfileStore** has the steps of `update_profile_version`: the dictionary, the
file read and written to its temporary name, the rename.  The rename and the return
to the caller are one step: a death between the two would leave an update on disk
that nobody was told of, and is not explored.

**Persistence** is the process around these two: the phases of
`AppState.__init__`, the golden hashes as further records of the one NvM
dictionary, the boot check, requests in turn (the endpoints involved do not
suspend before their work is done), deaths at any step, and firmware that may be
another one at the next start.  `provisioned` is the history of what each
hash was first on disk; a process that misread the store and writes it begins it anew.

**KeyLifecycle** has key material as numbers never drawn twice.  A save that fails
leaves the dictionary changed and the file as it was; any later flush of
anything writes it.  `load` takes a file it cannot read for an empty one: start-up
then provisions every PDU anew, and its first flush overwrites the keys that were
acknowledged (`unacked` says so, and `AckedKeyDurable` allows just that).

**CryptoStack** puts the CSM over the same HSM: jobs with their state, the
streaming contexts, AES keys made on first use, and key pairs under any key_id,
the MAC keys' included.  SHA-256 is injective: a digest is the data it covers.

**SignalPackager** and **PduCodec** are pure bit and byte arithmetic; their
loops are recursive functions, powers included (`PowerOfTwo`, `PowerOf256`), and
`%` and `\div` are the code's shifts and masks.  Floats are integers in a common unit, which leaves out their rounding
errors and keeps `round`'s halves to even.

**BusScheduler** has the loop of `tick` entry by entry, since each callback may raise
out of it.  Only differences of times matter, so an entry has its age.
**PeriodicTx** puts the three together: callbacks send, the application packs
other signals in between, frames cross the bus as bytes and are read under either
transport.  The callbacks are their users' code; what they do is what the docstrings
of `transmit_periodic` and `SignalPackager.send_signal` describe.  `tick` calls
them synchronously, although `transmit_periodic` is a coroutine: the
model takes a callback that runs it to its end, which it does without suspending.

**AuditLog** takes SHA-256 to be injective: a hash is the sequence of what went
into it.  Alterations, removals and exchanges of entries are external actions.
`entries()` hands out the dictionaries themselves and the chain has no key, so
`Modify` may keep the hash of an entry or recompute it; `rehashed` is the history of
that.

## 3. What is checked

| Run | Instance | Shows |
|---|---|---|
| `channel` | 1 PDU, modulus 4, window 2, counter to 5, 3 payloads, 3 frames, both transports, 2 keys, 1 resync value, 1 rejection | the SecOC properties and the refinement of AntiReplay |
| `ecu_pair` | 2 PDUs (symmetric), threshold 2, counter to 2, 3 rejections, 1 drop | the pair's lockout, counters and deliveries |
| `server` | 1 PDU, threshold 2, 5 payloads, 3 rejections, queue 2 | attacks, resets, restarts, replays, scenario runs |
| `broadcast` | 2 clients, 2 request handlers, 1 event | the broadcast's safety and that it ends |
| `crash` | 2 PDUs, counter to 2, 2 profiles, 2 versions, 2 firmwares, 3 boot components | NvM, profiles and golden hashes across crashes, file errors and changed firmware |
| `key_rotation` | 2 PDUs, 2 key_ids, 3 versions, 2 hash contexts, 4 keys and chunks together | the keys across save errors, HSM failures, restarts, an unreadable store and key pairs; the streaming hashes |
| `periodic` | 3 signals in 2 PDUs, 2 entries, periods 4 and 5, ticks up to 2 late, queue 2 | signals from the application to the wire and back, and, for periods that leave room, the schedule under raising callbacks |
| `audit` | 3 entries kept, 4 logged | what a verifying journal proves |

Four more runs look for a *disagreement* between the code and what the
repository says of it, and find it (`PROJECT.json`, "findings", with quotes):

| Run | Claim | What TLC finds |
|---|---|---|
| `consecutive` | lockout takes *consecutive* failures | acceptances do not clear the count |
| `cut_frame` | a tampered frame is rejected, in either transport mode | the first 8 bytes of a CAN_FD frame with a 3-byte payload are accepted on CLASSIC_CAN |
| `client_skipped` | a broadcast reaches all connected clients | a removal under the loop skips the next client |
| `journal` | any modification or deletion of an entry is detected | the last entry, removed or altered and hashed again, is not missed |

### Bounds, and why they are enough

All bounds are named constants in guards.  Modulus 4, window 2, and counters to 5
put a wrap of the long field, two wraps of the short one (modulus 2) and a
window that straddles a wrap within reach; the shapes of `Candidate` depend on
nothing else, and the proofs cover every other value.  `ResyncValue = {3}` starts
the counter right before a wrap, backwards or forwards.  Lockout depends on a
count reaching a threshold; 2 separates "first", "at" and "past" with
3 rejections.  Two PDUs are needed where PDUs share state (ECU state, file, HSM);
the counters of SecOC are per PDU and one suffices there.  The payloads of
`channel` are a 3-byte message and the two of 4 bytes it becomes with a zero byte
(of padding or of freshness) and with a byte 1: all a shortened frame's payload can
be.  `server` adds the forged payload and one that CLASSIC_CAN has no room for, and
its third rejection is one in lockout.  Two clients and two
handlers are what it takes for one task to remove an entry under another one's
loop; one event is enough for it to be skipped or sent twice.  Four entries in a journal of
three give an eviction, and a recomputed hash covers up to four events.  `MaxDropped` stops `rx_rejected_count`, which nothing reads.

In `crash`, counters to 2 let a PDU's counter be published before and after a crash
in another's commit; three components give a crash between hashes with some written
and some not; two firmwares are the one provisioned and another.  Its symmetry
(PDUs, profiles, firmwares) is sound: only invariants are checked.
In `key_rotation` `MaxWork` bounds keys and chunks together: each property needs
few of one or of the other.  In `periodic` the signals straddle a byte boundary
next to each other, the value 100 is out of range, and the payload of 5 bytes does not fit a
CLASSIC_CAN frame; `Period = <<4, 5>>` with `MaxGap = 2` satisfies
`PeriodsLeaveRoom` with nothing to spare for the first, and the theorem covers every other
schedule that does.

Four runs have a `VIEW`: `channel`, `ecu_pair`, `server` and `broadcast` do not tell
states apart that differ only in counters or histories which no step reads and no
property of the run speaks of, but for their types (`Read` in the MC modules).

Deadlock is checked except in `broadcast`, `client_skipped`, `audit` and `journal`,
whose bounded tasks and journals do come to an end.

### Fairness

Only `EventBus` needs it: `BroadcastsEnd` (again and again no broadcast is under
way) assumes weak fairness of each task's `Resume` and of a closed client's
`disconnect`.  The asyncio loop runs every task
whose awaited future is done, in FIFO order, and a `send_text` either completes or
raises.  No fairness is assumed of clients or of requests.

## 4. What is proved

All theorems are for every set of PDUs, payloads, moduli, windows, thresholds,
periods, layouts and bounds allowed by the `ASSUME`s: `FreshnessAssumption`
and `SecOCAssumption` (positive moduli, the short one divides the long one, the
CAN_FD field has the manager's length; payloads and high freshness bytes can be told
from their concatenation, because the latter are always as many), `AppServerAssumption` (the forged payload is
one of the payloads), `StoreAssumption`, `KeyAssumption`,
`ProfileAssumption`, `BootAssumption` (at least one component),
`SchedulerAssumption` (no period is longer than `LongAgo`, the model's infinity),
`EventBusAssumption` (a WebSocket's task is no request handler),
`AuditAssumption` (a journal holds at least one entry) and `StackAssumption`
(chunks are sequences of data).  The markers for "none" (`NoKey`, `NoContext`,
`NoDigest`, `NoBuffer`, `Never`, `Unset`) are assumed to be none of the values they
stand in for.
`CodecAssumption`, `LayoutAssumption` and `PeriodicAssumption` say what the code
relies on without checking it: a CAN_FD trailer longer than a classic frame,
signals of one PDU that neither overlap nor leave it.

**Counter arithmetic** (`SecOCProofs`): a candidate lies within one modulus above
the committed value (`CandidateBeyond`), has the received field
(`CandidateCongruent`) and is the sender's value whenever that was within a
modulus (`CandidateExact`).  TLAPS knows little of `%`; the lemmas reduce it to
`n = q * m + r`.

**SecOC** (`SecOCProofs`): `FreshnessRises` and `AcceptedWasSent` are not inductive.
`IInv` adds `SentGenuine` (every frame in `sent[p]` is consistent with its MAC and
has a key of `p`) and `AcceptedCongruent` (an accepted counter has the field of
its frame).  A shortened frame is consistent with its MAC too (`ShortenedGenuine`).
On one transport the covered bytes determine payload and field
(`CoveredInjective`, from `FieldSplit`).  A frame that passes the checks has a MAC over
its own content with a key of `p`; a corrupted copy fails one of those equalities,
so it is a member of `Wire(p)` (`AcceptedGenuine`).  That it is one of `sent[p]`
does not follow, and is false (`cut_frame`).  From `IInv` follow re-acceptance (equal
frames have congruent counters, and these are a modulus apart),
`StaleIsOutOfWindow`, `RoundTripFD`, and the refinement of AntiReplay.
`RoundTripClassic` is a theorem for windows no longer than the short modulus, as
16 is not longer than 256: the receiver's candidate and the sender's counter are
congruent modulo the short modulus, so one within the window is the other.
`LockoutJustified` and `FailuresAudited` are inductive with the types alone;
`RejectionInert` follows from the actions.

**Pair** (`EcuPairProofs`): but for `send_signal`, which also publishes what it
builds, a step of the pair is a step of the core, so `IInv` and
`LockoutJustified` carry over.  `AttemptsBounded` and `NoDoubleDelivery` take two
strengthenings: the failures since a reset are among those counted and, while there is
no lockout, below the threshold (`AttemptsCounted`); and every payload handled moved
the counter, which up to the modulus is not beyond the signals sent
(`CountersSignalled`).  `LockoutQuiet` follows because nothing but a reset
acts outside `NORMAL_OPERATION`, and a reset ends the lockout.

**Server** (`AppServerProofs`): the attacks and the replay hand the receiver frames
the core's channel does not have, so its steps are not all steps of the core.
What was tampered with carries a MAC over other content, and what was forged
one under a key no PDU ever had: neither passes the checks, in any state
(`TamperedRefused`, `ForgedRefused`), whence `AttackRejected`.  What waits on the
bus or was captured is of the second kind or is in `Wire` (`OnBus`), so that a replay
delivers only what was built, whole or shortened, and `IInv` holds with anti-replay
and authenticity.  `LockoutNeedsFreshRun` is inductive because no endpoint clears a
lockout without the counts (`FreshRun`).

**Store** (`PersistenceProofs`): `DurableInv` adds `CommitInProgress`: a running
commit carries the value in memory, undelivered, on disk once the first flush is
over, and what is about to be renamed is the dictionary; and `DeliveredInMemory`,
which says what a start-up must find.  `load_fails` keeps it by its reset of the
history: the theorem `DeliveredOnceHolds` counts from the last start-up that could
read its file.

**Process** (`PersistenceProofs`): `StoreImplemented` proves that the process
implements `FreshnessStore`, start-up, boot check and updates included, so
the store's theorems hold of it.  `ProfilesReturned` is inductive with
`UpdateInProgress`.  `TamperDetected` takes `BootInv`: hashes on disk are the ones
provisioned, memory holds those and perhaps more (or nothing, after an unreadable
store), what is about to be renamed is memory, and a process that serves has
everything on disk and compared just that.  `PersistTypes` is the process's type
invariant.

**Keys** (`CryptoStackProofs`, for both modules): `KeyInv` adds that every
material in use was drawn (`Drawn`), that metadata in memory is the acknowledged one
or one whose save failed (`MetaAccounted`), and that start-up begins from the disk or,
after an unreadable file, from nothing.
The crypto stack has one step that the key manager has not, a key generated under
any key_id by others (`GeneratedStep`); all others are steps of `KeyLifecycle` or
leave its state alone.

**Scheduler** (`PeriodicTxProofs`): an overdue entry had to wait for one aborted tick
per entry before it, and which ones those were can be told from the ages: they fired after
it was due (`Overtaking`).  With periods of at least a tick per entry none of
them comes to its next period before the overdue one had its turn, so the
number of waits is at most its position (`WaitsAccounted`), and a wait is less than a
tick.  The argument is on cardinalities of sets of entries, with
`FiniteSetTheorems`.

**Signals and bytes** (`PeriodicTxProofs`): for every table of signals that do not
overlap, every profile and every value.  First what the loops compute.  Digits
put together give the number back (`HornerDigits`), and so `get_bits` returns what
`set_bits` wrote and every other bit stays (`SetBits`, `GetBits`, down to one bit
of one octet in `PutBit`); rounding is off by half a factor at most (`RoundError`);
`parse_secured_pdu` undoes `build_secured_pdu` on the same transport (`ParseBuilt`).
Then `WireInv`, which `WireInvariance` proves with `SchedulerInv`: a buffer holds,
for each of its signals, what was packed since it was made (`BufferInv`); every
frame on the bus was built from such a buffer (`Sound`, with the values in
`meant`); and what was shown to a handler is from such a frame (`ShownInv`).
`DecodedIsPacked`, `ParsedAsBuilt` and `TransportsApart` follow; the last because
a CAN_FD trailer alone is longer than a classic frame.

**Broadcast** (`EventBusProofs`): for any number of clients, handlers and events.
`Inv` adds to the types how list, loops and payloads hang together; the client of a
suspended send has been passed by its loop and is not noted yet (`Awaited`).  Whoever was
sent the event of a loop, or was noted as dead by it, stands before its position
(`SentPassed`, `DeadPassed`), for removals move entries towards the head and
never back; an event is handed to one broadcast only, by the cursor
(`HandedOnce`).  `EventSentOnce` rests on both, `OpenStaysRegistered` and
`NoGhosts` on who may remove whom.  `NotedOnce` shows that a loop notes a client
as dead at most once, so that a ValueError is always another task's doing.

**Audit log** (`AuditLogProofs`): `_prev_hash` is all that was logged, whatever is
done to entries, and as long as no hash is recomputed each of theirs is a beginning
of that (`HashesLogged`).  The walk of `verify_integrity` pins the i-th hash to the first
i events of the journal (`VerifiedWalk`), recomputed or not, whence both parts of
`VerifiedIsGenuine`; `Untouched` describes a journal left alone, whence
`KeepsNewest`.

**Streaming hashes** (`CryptoStackProofs`): a context holds the data fed since its
last `hash_finish` (`ContextsHold`), and calls are in order (`CallsOrdered`); with
what one more chunk does to the joined data (`FlattenAppend`) this keeps
`DigestsComplete`.  `StackTypes` is the stack's type invariant.

**Technique.** The library's induction theorems cannot be instantiated here, so an
induction is the absence of a least counterexample: a nonempty set of naturals has
a least element (`LeastNatural`, from `WFMin`).  The same shows that a recursive
function satisfies its equation (`RunExists`, `Recursion`, `RemovalExists`,
`FlattensExists`): runs of every length exist and agree where they overlap.

**Model-checked only**: `BroadcastsEnd`, for liveness under fairness and ENABLED
are beyond the prover; and the four claims that do *not* hold, each by its
counterexample.  Every other property of the runs is a theorem.

## 5. What is not shown

* Truncated MACs collide with probability 2^-24 and 2^-64 per guess; the model has no
  guesses that succeed.
* A store file that exists but cannot be read at start-up is an empty store: every
  counter starts at 0 again, frames published before are accepted again, and the
  golden hashes become those of the firmware that runs.  `DeliveredOnce` and
  `TamperDetected` are claims about starts that could read the file.
* A failed boot check changes nothing else: `AppState.__init__` does not read the
  verdict and nothing enters `BOOT_BLOCKED`, so frames are accepted and committed as
  after a good boot.  `documents/ASPICE_SWE3_DetailedDesign.md:90` and
  `documents/ASPICE_SWE4_UnitVerification.md:90` say otherwise.  `Persistence` has the
  code's behaviour; no run is needed to see it.
* CLASSIC_CAN round trips stop being accepted when the counter leaves the short
  field, although `USERINFO.md:62-66` has them accepted in either mode:
  `RoundTripClassic` states exactly where, and is proved.
* A frame cut to CLASSIC_CAN length and accepted moves the counter to the value the
  low freshness byte stands for, and hands over the payload with the high byte behind it.
  The anti-replay properties hold of it as of any other; that it is no frame anybody
  built is the finding of `cut_frame`.
* `LatenessBounded` assumes `PeriodsLeaveRoom`.  At a period of one tick with two
  entries, the cadence of the repository's tests, an entry whose callback raises at
  every tick keeps the ones behind it from firing at all.
* `POST /attack/replay/replay` injects a frame at the tail of the queue and
  processes the head.  With anything published before, it tests another frame: a fresh one at the head is
  accepted, and the stale one it was to test stays in the queue.
* A CLASSIC_CAN payload is padded to 4 bytes and nothing removes the padding, so
  `unpack_signal` refuses the PDU of a layout shorter than 4 bytes.
* A profile with an empty trailer, which no profile of the repository has and
  nothing forbids on CAN_FD, would parse to wrong fields (`secured_pdu[-0:]`).
* A failing HSM loses the chunks of a streaming hash (`hash_finish` pops them
  before it asks); `DigestsComplete` says only that no digest is wrong.
* `generate_key_pair` under the key_id of a PDU's MAC key makes every MAC of
  that PDU fail until the next rotation.
* An audit log from whose end entries were deleted, or whose last entries were altered and
  hashed again, verifies until the next one is logged (`journal`):
  `VerifiedIsGenuine` claims equality only after that.  After its first eviction an
  untouched log never verifies again (`KeepsNewest`).
* A client may be shown an older ECU state after a newer one when two broadcasts
  overlap; nothing in the repository promises otherwise, so no property does.
* After `SecOC.reset` (the ECU path) one failure locks the ECU again;
  `LockoutNeedsFreshRun` is stated of the server's reset only.
* The API endpoints verify frames in lockout too; the bound on attempts is the
  ECU layer's.
* The bus has no bound and the server publishes more than it consumes.

Not modelled: logging and profiling (formatting and wall-clock time, of which
no modelled state depends), the dashboards (static pages), the scenarios' scripts
(test cases over the objects modelled here), the validation of a hand-edited profile
file, DTC status bits (no reader), and `increment_counter` and
`reset_to_defaults` of the NvM (no caller).

## 6. Plan

Done: the core and its promise, the pair, the server, the broadcast, the store and the
process around it, profiles, secure boot, keys and crypto stack, codec, packager
and scheduler, the journal, and the proofs of section 4.  Left, in this order:

1. `SecOC` with the key store of `CryptoStack`: PDUs that share a key_id, what a
   rotation does to frames in flight (CR-06), HSM failures inside
   `receive_secured`; abstract promise: an accepted frame was built for a PDU
   that shared the key.  Theorem: `AcceptedWasSent` when key_ids are disjoint.
2. Theorem: `FreshnessStore` implements the one-step commit of `SecOC`.
3. Two ECUs of one role on one router, with the managed-PDU filter.
