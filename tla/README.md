# FiveProtect: TLA+ verification project

FiveProtect admits a player to a FiveM game server only after a companion program on
the player's PC has reported the machine's state to a backend, and removes the player
again when the companion goes silent. This directory models the programs that take part
in that, checks the models with TLC and proves the central safety properties with TLAPS.

    tlasany M.tla                      parse a module
    tlc -workers 2 -config X.cfg M     one run (PROJECT.json lists module and cfg)
    tlapm ConnectGateProofs.tla        the proofs (and the seven other ...Proofs.tla)

`PROJECT.json` maps every definition to the source lines it stands for and lists the runs,
the fault variants ("mutants") each property is shown to catch, the findings, hazards and
theorems.

## 1. Inventory

| part | source | state | operations |
|---|---|---|---|
| session table | `services/backend/src/repositories/sessions.ts`, `migrations/` | one row per connect: state, verdict, fail-open mark, nonce (consumed, expiry), last heartbeat | create, claim, record verdict, heartbeat, terminate, sweep |
| routes | `routes/sessions.ts`, `routes/attest.ts`, `attestation/service.ts`, `app.ts` | requests in flight, two long polls | nonce, verdict poll, liveness (resource); pending, attest, outcome, heartbeat (companion) |
| policy | `attestation/policy.ts`, `attestation/remediation.ts` | none | evaluate a snapshot, choose the text |
| operator commands | `cli/*.ts`, `index.ts` | tenant settings | fail mode and tier, accept a build, sweep timer |
| resource | `resources/fiveprotect/server/*.lua` | deferrals, open HTTP requests, tracked and warned players | playerConnecting, playerDropped, liveness loop, HTTP wrapper |
| game client, NUI | `resources/fiveprotect/client`, `nui/transport.js` | `isRunning`, remembered port | take an attest event, search the port range, report |
| companion worker | `fiveprotect-companion/src/worker.rs`, `backend.rs` | job channel, active session, last nonce, next heartbeat | attest, outcome, heartbeat, recheck, shutdown, collect nonces |
| companion window | `fiveprotect-core/src/state.rs` | four states | `next_state` |
| companion shell | `main.rs`, `tray.rs`, `shell.rs`, `settings.rs`, … | process, windows, trusted backends | start, bridge, quit, diagnostics |
| local endpoint | `server.rs`, `fiveprotect-core/src/local.rs` | port, live connections | bind, accept, read a command, check version and origin, pass it on |
| scan engine | `native/src/*.cpp`, `engine.rs` | none | probes, snapshot, C ABI |
| updater | `fiveprotect-core/src/updater.rs` | none of its own; the installed version | check a manifest's signature, channel, origin, version and slice; check the download |
| protocol | `packages/protocol` | none | messages and limits, read by generated validators in four languages |

How they interact. `playerConnecting` defers the player; the resource asks the backend for
a nonce and long-polls the verdict. The companion finds the nonce by its own long poll
(keyed on the network address) or is handed it through client, NUI and local endpoint; it
scans, posts the attestation, which claims the nonce, stores the snapshot, evaluates the
policy and records a verdict. The verdict poll answers with it, or with the tenant's
fail mode when its 20 seconds are over. In game the companion beats every 120 s; the resource
asks for liveness every 30 s and warns, then removes, a player whose companion is silent.

What is hard here: the backend's handlers await several SQL statements without a
transaction, so a read is stale when the write happens; a verdict has two independent
writers; the resource resumes a thread long after the player may have left; one thread in the
companion serves jobs and heartbeats; calls are lost in either direction; every side has its
own timer. `PROJECT.json` ("hazards") lists each place with its line.

What correctness means, per part: a nonce is claimed once; an answer is justified by an
evaluation or by the fail mode after the deadline; a kick is final; every connect ends;
admission equals the tier's requirements; the window agrees with the session; healthy
players stay and silent ones leave in bounded time; a command reaches the companion once, and
only one meant for it; the client is never busy for ever; every call of the companion comes back
with something the worker can use; the two sides read the same messages; only released builds
are installed, in order.

## 2. Modules

| module | models | role |
|---|---|---|
| `SessionTable` | SQL statements on a row, `timeoutVerdict`, `buildLiveness` | operators, no state; shared by `ConnectGate` and `InGame` |
| `ConnectGate` | all backend handlers, sweep, operator's fail mode | state machine, one action per statement a handler can be interrupted at |
| `Admission` | what the gate promises: one permit, one evaluation, one answer | abstract specification `ConnectGate` implements |
| `ConnectGateProofs` | | TLAPS proofs about `ConnectGate` |
| `Resource` | deferral threads, HTTP wrapper, liveness loop | state machine, switching only where Lua yields |
| `Policy` | probes, policy tables, evaluation, remediation, the window's lines | one machine, re-evaluated after each change |
| `Companion` | worker, collector, bridge, tray, window state, restarts | state machine over one job channel |
| `InGame` | heartbeat schedule, liveness decision and resource loop with time | composition of the three programs for one player |
| `LocalHop` | client script, NUI port search, endpoint, settings | state machine with several companions, a squatter, other programs' commands, crashes, lost messages |
| `Protocol` | every wire message and check, as the Rust types and the zod schemas read it | operators, no state; used by `Exchange` and `LocalHop` |
| `Exchange` | the scan's buffer loop, the companion's four calls and what it makes of the answers | state machine; the backend or anything else answers |
| `Updater` | manifest check, download check, version order | state machine around the two checks |
| `ResourceProofs`, `PolicyProofs`, `CompanionProofs`, `InGameProofs`, `LocalHopProofs`, `ExchangeProofs`, `UpdaterProofs` | | TLAPS proofs about the module each is named after |
| `MCGate`, `MCPolicy`, `MCLocalHop`, `MCExchange`, `MCUpdater` | | constants for TLC |

Definitions whose name extends another's (`ClaimableAgain` of `Claimable`,
`FinishEveryTime` of `Finish`, …) are fault variants: plausible bugs put in place of the
real definition to show that a property notices. No specification uses them.

### SessionTable and ConnectGate

A row is a record of the columns decisions depend on. Each repository function is an
operator from the old row to the new one, because PostgreSQL runs one statement
atomically. `ConnectGate` then has one action per statement where the order matters:
`AttestClaim`, `AttestStore`, `AttestRecord` for `processAttestation` (with `AttestFail` for an
exception or a crash in between), `PollStart`, `PollAnswer`, `PollExpire`, `PollTimeOut` for the
verdict poll (whose read and write are separate statements), `LivenessRead` and
`LivenessTerminate` for liveness. `Heartbeat` is one step: what it reads first cannot change.
`clock` is advanced by `Tick`; sessions are issued, and polls started, early enough to fit the bound.
Authentication, licence and rate limits are left out: they refuse a request before it has
an effect. The snapshot is its build hash; the decision of the policy is any value
(`Policy` says which).

### Resource

`thread[p]` is where the deferral coroutine of a player waits, `requests` every HTTP request
with what can still happen to it (response, timer). Answers are the classes the code tells
apart: nothing (the deadline), something unusable (a transport error, a body that is not JSON or
fails validation), a JSON refusal, a JSON error, the answer. The 30 s pause of the loop is dropped (the loop may start whenever it is idle).
A source number stands for one connection; that FiveM keeps the number of
`playerConnecting` valid for the in-game player is assumed.

### Policy

Windows' answers are readings (yes, no, unreadable) and sets of code-integrity bits. The
eleven requirements, three tiers and phase 1 overrides are complete. Texts are
represented by what they explain. Each step changes one fact and evaluates again.

### Companion

Every backend call is one step with the outcomes: acknowledged, failed before the backend
acted, failed after. The backend is a session state per nonce. `Foreign` nonces belong to a
trusted backend that is not the primary. `acked` is a history variable, the nonces whose acknowledgement
this very process received: `AttestAcked` adds to it, a lost acknowledgement does not, and `Restart` clears
it. Views, checks and logs are left out.

### InGame

The unit of time is 30 s: interval 4, grace 3, liveness interval 1. A due heartbeat is sent at
most `BeatDelay` late (the worker may be busy with an attestation and its outcome: two calls of at most
43 s each), the loop reaches the player at most `LoopDelay` late (10 s per
player before them). The drop of the companion's network, the death and the restart of the
process, and failing liveness requests are environment steps.

### Protocol and Exchange

A JSON value is a record with its type; of a text the model keeps its length in characters and
in UTF-8 bytes and its form (an enum word, or a class of texts the format checks treat alike).
`X(L, v)` is the shape of message X as reader `L` ("rust" or "zod") sees it, `ValidateX` the content
checks; `Accepts` is both, recursively through nested messages. The generators emit the same
fields and limits for both readers. The readers differ all the same, by their generated checks and by
what the two libraries take for a value of a type:

- lengths count bytes in Rust, UTF-16 units in zod (`Length`);
- a whole number may be written `120.0`, `1e3` or with more than 64 bits for zod; serde's `i64` takes digits
  only (`HasType`, `Float`);
- a time may leave out its seconds for zod and not for Rust; Rust takes times with an offset, without a zone or on
  no day of the calendar (`Datetime`), and is looser with hexadecimal, base64 and version texts (`Loose`);
- half a surrogate pair, written as an escape, is a text for zod and none for serde ("unpaired");
- serde takes `null` for an optional field (`Fields`), a list for a struct, by position (`Struct`,
  `FieldOrder`), and an enum's word as the one name of an object that holds null (`HasType`). zod takes none of these.

A repeated name is left out: the JSON parsers under `backend.rs` and zod both keep the last value, and `local.rs`,
which reads the struct from the text, refuses it.

`Exchange` makes one call after another. A scan grows its buffer by what the engine asked for;
every attempt probes anew, so its size is chosen anew (`EngineTooSmall`). A snapshot that parses
becomes an attestation, unvalidated as in the code; `EngineWrites` keeps from the snapshots what the engine's
generated `to_json` cannot write, a null or a struct by position. The backend refuses what its schema refuses
and otherwise gives one of its routes' answers; `SomethingAnswers` gives any message of the right kind with one field,
at any depth, replaced, removed or added, or with the message or a struct in it by position (`ByPosition`). A body with half a
surrogate pair fails in `into_json` and counts as no JSON (`Decodes`). `Bench` is the contract test: one
such message before both readers.

### LocalHop

A companion is a process with a port and a count of served connections; a connection is queued,
then served, then answered, each a step of its own, so that a probe may time out, or the process
end, at any point of it. The accept thread is the only one that raises the count, so its
comparison and increment are one step; the decrements come from the connections' threads.
`steady` and `excused` are history variables: the companions up since the
delivery began, and the ports whose probe was dropped, refused or timed out. The endpoint serves any local
program: `Stray` is a connection of another one that posts any of `StrayCommands`, read and forwarded as the
frame's are. `LocalCommand` is the struct that serde builds from what was posted: from an object or a
list, without the optional field that was null. HTTP framing and
the preflight's headers are left out, the preflight itself is not (it takes a slot of its own).
The registry value is left out: nothing reads it.

### Updater

The repository holds the two checks and no caller yet; `CheckForUpdate`, `FinishDownload` and
`Restart` are the steps they are written for and marked external. The environment serves any
manifest with any signature that exists (ours only over what was signed), and any file.
A SHA-256 stands for its file.

## 3. Runs

Passing runs:

| run | bounds | shows |
|---|---|---|
| `gate` | 1 session, 2 requests, 2 builds, clock to 7 (TTL 3, poll 2, interval 2, grace 1) | `SingleClaim`, `AnswerJustified`, `ActiveIsMeasured`, `ExpiredNeverAttested`, `SilenceOutlastsGrace`, `KickIsFinal`, `FailOpenStaysMarked`, `OutcomeMatchesAnswer`, refinement of `Admission` |
| `gate_two` | 2 sessions of one address, 1 request, clock to 2, fairness | every long poll ends (`DeferralEnds`) |
| `resource` | 1 player, 5 requests of which 3 liveness, fairness | `CallbackOnce`, `AdmissionJustified`, `WatchedInGame`, `SilenceNeverRefuses`, `DeferralEnds`; nothing assumed of the network |
| `policy` | 38,880 situations, all single changes between them | verdict = reference requirement in both directions, explained, window agrees |
| `companion` | 3 nonces of which 1 foreign, 3 jobs, 2 starts, fairness | `WindowFollowsSession`, `ActiveWasAcked`, `BlockedIsNotActive`, `DueBeatIsSent` |
| `in_game` | clock to 18 (9 min), 1 drop, 1 death | `NoKickWhileBeating`, `WarnedBeforeKick`, `RemovedInTime` |
| `local_hop` | 3 ports, one squatted, 2 starts, 2 attest events, 1 slot, 1 other program with 3 commands (null server name, by position, other version), fairness | `SlotsAccounted`, `ReportIsTrue`, `OncePerCompanion`, `ForwardedIsOurs`, `BusyEnds` |
| `exchange` | buffer 4 to 9, sizes 3 to 10, every field at each of 76 odd values, every message and struct by position, fairness | `BufferIsEnough`, `DriftIsNamed`, `CompanionIsUnderstood`, `AnswersAreRead`, `CallsReturn` |
| `updater` | 11 releases, 3 files, parts up to 3 | `InstalledIsReleased`, `StaysUpdatable`, `VersionOnlyGrows` |

Bounds. The gate's clock passes, in order, poll deadline, nonce expiry, interval and grace, in
the proportion that matters (the nonce outlives the poll; a kick comes after the nonce has
expired); two requests are the smallest number that can race for a nonce, two builds the
smallest for a swapped build. Two attempts at once are in `gate_two`, where neither companion
can be handed a nonce by address; that claims and answers of many sessions do not mix is
proved for any number (section 4). In `resource` one player is enough for a stale
copy of the list (the player drops, or is kicked, while the loop waits for the answer), and
three liveness requests are a warning, what follows it and what follows that; deferral threads of
different players share only the request counter, and the safety properties are proved for any number of
players. In `companion` three jobs are an
attestation, a duplicate of its nonce and a third job between or after them. In
`in_game` the bound covers two heartbeats, a full silence and the removal.
In `local_hop` two attest events are the smallest number with a remembered port, two starts give
two companions at once as well as a restart on another port, and the ports leave one for each
companion besides the squatted one. `MAX_CONCURRENT` is 1, so that another program's connection or a
probe that was given up holds the slot the next one needs; the other program connects while the remembered port is
tried, when it can take the slot the probe needs, not in the range search (with it there the run does not finish
in five minutes) and not again once a command of it was passed on. Both bounds are guards
of `Stray` and so hold in the proofs as well, which leave the number of other programs and what they post free;
what is forwarded does not depend on when it was posted. In `exchange` the values sit at, one above and,
with one two-byte character, across every length limit of the protocol, and at the ends of every
range; a message deviates in one place. In `updater` the releases
hold a step forward and back in each component, a staged and a full rollout of one version, a
pre-release, wrong channel, origin and scheme, and versions that do not parse.
`SYMMETRY` is used in the gate's safety runs only (not in `gate_two`): requests, builds and sessions are
interchangeable in every definition and property.
Deadlock checking is off where the system may rightly stop (bounded clock or job count,
player gone).

Fairness. `gate_two`: the event loop turns an open poll and time passes
(`WF` on `Tick` and on the poll's steps); `PollFail` is not required. `resource`: the
scheduler resumes a thread whose wait is over and fires due timers; responses are not
required. `companion`: the worker keeps stepping because every call has a timeout. There
the number of jobs is bounded: the code gives jobs precedence, so jobs that never end
would hold a heartbeat back for ever. `local_hop`: the frame's own timers and promises; nothing is
assumed of companions or of the delivery of messages between client and frame. `exchange`: the
engine returns, and the client's connect and read timeouts end every call.

Runs that find a disagreement between a document or comment and the code (details and
quotations in `PROJECT.json`, "findings"):

| run | statement | what happens |
|---|---|---|
| `resource_warn` | one warning per grace period | the mark is cleared by the next poll |
| `in_game_interrupted` | restarts and short drops survive | retry after 120 s, removal at 210 s; a restarted process has no session |
| `wire_agree` | what the backend accepts the others accept | limits count characters in zod, bytes in Rust: a name with an umlaut at its limit |

Seen while modelling, present in the models, and without a run of their own:

- `repositories/sessions.ts:126`: the nonce (30 s) outlives the verdict poll (20 s) and the last
  verdict written wins. A late attestation therefore clears the fail-open mark of a player already let
  in, which ADR 0005 wants kept, and the companion's window may say the opposite of the
  connect dialogue, against ADR 0011. `FailOpenStaysMarked` and `OutcomeMatchesAnswer` state how
  far this goes: only an evaluation replaces the mark, and only a timeout verdict is contradicted.
- `server/gate.lua:75`: a 500 or 429 with a JSON body counts as a refusal also under fail-open.
  `SilenceNeverRefuses` states what remains: no answer, or one that is not JSON, refuses nobody.
- `remediation.ts:98`: the explanation is that of the first requirement reported as fail or unknown, which may be
  one that only warns on this tier; an unknown HVCI state reads as a blocking driver's name.
- `registry.rs:3`: the port is published for the NUI, which cannot read the registry; a second
  companion that quits withdraws the first one's value.
- `settings.rs:73`: the list of trusted backends is sorted and its first entry is the primary one, so an entry added
  by file may take the built-in one's place.
- `local.rs:60`: "a nonce that would be rejected there is rejected here too" holds but for
  capital hex digits (`ForwardedIsOurs` names the exception). It is true of the struct handed to the worker, whoever posted
  it; the bytes posted may be ones the backend's schema refuses, a null server name or a list for the command.
- `routes/sessions.ts:153`: the removal does not look at the heartbeat again, so one that lands between the read and the
  termination is acknowledged and the player removed all the same (`LivenessRead`, `Heartbeat`, `LivenessTerminate`).
  `SilenceOutlastsGrace` measures from the nonce's issue, or the poll's deadline, and does not exclude it.
- `routes/attest.ts:61`: with two open sessions behind one address neither companion is handed a nonce (`CollectNonce`); which
  session a nonce is handed to is recorded nowhere, and no property speaks of it.
- `updater.rs:190`: a pre-release is never replaced by its own final version; both compare equal.

- `routes/sessions.ts:107`: the timeout verdict is recorded, as `attestation_timeout`, although an
  attestation claimed the nonce between the poll's read and its write (`PollExpire`, `AttestClaim`,
  `PollTimeOut`).
- `repositories/sessions.ts:126`: the same write makes a session `active` again that its companion
  closed in between (`Heartbeat`, `PollTimeOut`); `KickIsFinal` shows that a removal by the
  liveness route is out of its reach.
- `server/main.lua:118`: a player who drops during the verdict poll is tracked afterwards
  (`PlayerDropped`, `VerdictAllows`); the entry stays until the backend ends the session.
- `worker.rs:279`: every nonce is attested to the primary backend, also one that the local
  endpoint accepted for another trusted backend (`Foreign`), against the comment at `main.rs:103`.
- `worker.rs:183`: one nonce is remembered; after another nonce was answered, a late duplicate of the
  session's own nonce is attested again and its refusal reaches the window. `BlockedIsNotActive`
  is therefore stated for the nonce answered last.

## 4. Proofs

`ConnectGateProofs` proves, for any sets of sessions, requests, builds and addresses and any
positive timing (`TimingAssumption`, `GateAssumption`):

- `TypeCorrect`: `Spec => []TypeOK`;
- `GateInvariant`: `Spec => []GateInv`, the inductive invariant;
- `NonceClaimedOnce`: `Spec => []SingleClaim`;
- `AnswersAreJustified`: `Spec => []AnswerJustified`;
- `ActiveSessionsAreMeasured`: `Spec => []ActiveIsMeasured`;
- `SweepSparesAttested`: `Spec => []ExpiredNeverAttested`;
- `MarkYieldsOnlyToJudgement`: `Spec => []FailOpenStaysMarked`;
- `RoutesDisagreeOnlyAfterTimeout`: `Spec => []OutcomeMatchesAnswer`;
- `SilenceIsMeasuredFromIssue`: `Spec => []SilenceOutlastsGrace`, measured from the nonce's issue or, after a
  fail-open admission, from the poll's deadline, and not from a later heartbeat;
- `RemovalIsFinal`: `Spec => KickIsFinal`, an action property;
- `GateImplementsAdmission`: `Spec => ImplementsAdmission`, the refinement.

`SingleClaim` is not inductive: that a second request is turned away follows only from the
mark the first left in the row, so `ClaimsConsume` is added, and `HandlersClaim`, which ties a
running handler to a session. `AnswerJustified` needs `AnswerPending`: as long as the poll
has not answered, the only verdict its row can hold is an evaluation without the fail-open
mark, and a poll about to write its timeout verdict is past its deadline. Each action has one
lemma per part it can disturb. `ActiveIsMeasured` and `ExpiredNeverAttested` rest on `RowGood`, a property of a single row
that every statement of the repository preserves: what the sweep marks was pending, a
pending row is unconsumed (the strengthening), and its deadline has passed for good.

`FailOpenStaysMarked` and `OutcomeMatchesAnswer` add `VerdictsJustified`: every verdict in a row, and every outcome read from one, is
either an evaluation or what the poll answered at its timeout. It is proved on top of
`GateInv`, with one lemma per writer of a verdict (`RecordOutcome`, `AnswerOutcome`,
`TimeOutOutcome`), one for the reader (`ReadOutcomeStep`) and one for everything else.

`SilenceOutlastsGrace` and `KickIsFinal` need to know how the deadlines of one session lie to one
another, which is `TimelyInv`: the nonce was made before the poll began, the poll's deadline
precedes a fail-open admission, and a handler about to remove a player has seen a row whose heartbeat is
older than interval and grace. What could bring a removed session back is a late claim by an
attestation; `Unclaimable` says that the nonce has run out by then. That needs `KickOutlivesNonce`,
the nonce's lifetime is at most poll, interval and grace together (30 s against 230 s in the code).
It is the only theorem that rests on it, and with a longer lifetime it would be false.

The refinement maps a row to a permit (none, open, claimed, lapsed) and the requests past
their evaluation to evaluations; there is one lemma per action that moves either (issue, claim,
record, answer, tick) and one, `GateStutters`, for all others.

`UpdaterProofs` proves, for any set of releases, files, channel, origin, rollout bucket and
component limit (`UpdaterConstants`), `UpdaterInvariant` (`Spec => []UpdaterInv`), and from it
`OnlyReleasesAreInstalled`, `BuildsStayUpdatable` and `NoRollback` (`VersionOnlyGrows`). What makes it
inductive is `OfferIsGood`: the file is checked against an offer accepted earlier, so the offer
has to remember that it was signed, meant for this machine and newer than what is installed, and
an installation clears it.

`ResourceProofs` proves, for any finite set of players and any number of liveness requests
(`ResourceAssumption`), `ResourceInvariant` (`Spec => [](ResourceInv /\ TrackedInv)`), and from it
`CallbacksRunOnce` (`CallbackOnce`), `AdmissionsAreJustified` (`AdmissionJustified`),
`AdmittedAreWatched` (`WatchedInGame`) and `SilenceIsNoRefusal` (`SilenceNeverRefuses`). What the thread decides on is the
newest request of a kind; `ThreadInv` says that it is the only one, made by this thread after the one before
it was answered, and that an ended thread has none open, so that no late response or deadline
can change what justified its answer. `RequestInv` gives out ids in order, `TrackedInv` keeps a kick
from reaching a player who has not connected. `PlayerFrame` collects what a step
must leave alone for a player, so every action needs an argument only for the player it moves.

`CompanionProofs` proves, for any set of nonces, foreign nonces, jobs and starts
(`CompanionAssumption`), `CompanionInvariant` (`Spec => []CompanionInv`), and from it `WindowIsHonest`
(`WindowFollowsSession`), `OnlyAckedSessionsAreKept` (`ActiveWasAcked`) and `DuplicatesDoNotBlock`
(`BlockedIsNotActive`). The properties speak of the worker between jobs; `WorkerInv` carries them
through a job: before the acknowledgement the nonce is not the one answered last, after it
the nonce is in `acked` and not yet the one kept alive. `ActiveWasAcked` says that the session kept alive is in `acked`, so
neither one whose acknowledgement was lost nor one of an earlier process. That the nonce being answered is not the one kept
alive needs `AckedAreJudged`: an acknowledged nonce was open, and one already acknowledged no longer is.

`PolicyProofs` proves, for any set of addresses, TPM versions and platform values, that an allow
means a machine that meets the tier (`OnlySafeMachinesAreAdmitted`), that such a machine is let in
(`SafeMachinesAreAdmitted`), that a denial is explained (`DenialsAreExplained`) and that the
window agrees with the server (`WindowAndServerAgree`). The invariant is short, the stored outcome is the
evaluation of the stored input; the work is in the operators. Which requirement is explained is the first in the
report's order, found with the well-foundedness of that order.

`InGameProofs` proves, for any interval, grace, delays and number of drops and deaths,
`InGameInvariant`, and from it `BeatingKeepsThePlayer` (`NoKickWhileBeating`), `WarningPrecedesKick`
(`WarnedBeforeKick`) and `SilenceRemovesInTime` (`RemovedInTime`). The argument is one of deadlines: the clock
never runs more than the allowed delay past the next poll or the next heartbeat, and the invariant
says where these two lie relative to the last heartbeat. The first rests on `WorkerIsPrompt` (the worker
is late by less than the grace), the second on `LoopIsPrompt` (a turn of the loop fits into the grace
and into the interval); for other settings the properties are false. The third needs neither.

`LocalHopProofs` proves, for any ports, companions, deliveries, other programs' connections and slots,
`SlotsAreAccounted` (`SlotsAccounted`), `DeliveredOnce` (`OncePerCompanion`), `ReportsAreTrue`
(`ReportIsTrue`) and `OnlyOursIsForwarded` (`ForwardedIsOurs`). Their inductive invariant `IInv` follows a
delivery through its connections: `Once` (a companion gets one probe per delivery and passes it on at most
once, whether or not the frame still waits for it), `Slots` (the threads are the count), `Forwarding` (what was
passed on was validated), `Honest` (what the frame believes of a port is what its connection was
answered). The commands are any values, of the game server as of other programs; `TextsAreUtf8` says only that a text in
one has at least as many bytes as characters. `CommandRead` follows such a value through serde: what it accepts, from an
object or a list, is a struct without nulls, and for those the Rust checks are the stricter ones but for capital digits
(`RustIsStricter`). `StraysAreNoDelivery` keeps the numbers of other programs' connections apart from those of
deliveries, and `Numbered` carries it through the commands passed on.

`ExchangeProofs` proves, for any buffer sizes, server names and odd values in a message's field:
`BufferNeverOverruns` (`BufferIsEnough`), `DriftIsNamedOnTheBench` (`DriftIsNamed`),
`CompanionSpeaksTheProtocol` (`CompanionIsUnderstood`) and `BackendIsUnderstood` (`AnswersAreRead`). The second is
an instance of a stronger theorem, `ValidatorsDriftInNamedWays`, which is about each of the fifteen messages with any
content whose texts are UTF-8. What zod takes and Rust refuses holds a text longer in bytes than in characters (`NonAscii`), or
a whole number not written in 64 bits of digits, a time without seconds or half a surrogate pair (`WrittenForZod`).
What Rust takes and zod refuses holds a loosely written text (`LooselyWritten`), a null, or a list for a struct (`Positional`). For
each message and check, a lemma `...Carries` shows that what one reader accepts the other accepts too if
every value inside reads alike for both. The bench's messages are within its
reach because `Sound` (texts are UTF-8, arrays are sequences, n levels deep) survives each
change the bench makes, a struct written by position included. The third uses the same lemma for the attestation, whose snapshot
the engine wrote by name and without nulls; the fourth shows, answer by answer, that Rust reads what the routes write, with
`Filed` (the note in a verdict is a text of the snapshot) as the strengthening. `WireAssumption` says
that names and odd values are JSON in UTF-8 with arrays that are sequences, and that the names an operator gave decode.

Inductive invariants contain their module's types where steps need them and were checked with TLC before they
were proved, on the constants of the runs (`ResourceInv` with two players as well).

Only model-checked: liveness (`DeferralEnds`, `DueBeatIsSent`, `BusyEnds`, `CallsReturn`), which needs fairness and is out of
the prover's reach. Every other property of a passing run is a theorem. The modules hold no recursive operator, so
nothing had to be left to TLC for that reason.

## 5. Not modelled

The companion's user interface (renders a view), windows, tray and menu (`shell.rs`, `chrome.rs`,
`tray.rs`: events of the windowing system; what they send to the worker is in `Companion`), registry, log and
diagnostics (output only), the protocol generators, and the C++ and Lua readers (Lua's verdict
on an answer is the class "unusable" in `Resource`). Migrations, provisioning and sealing are one-shot
or cryptographic; the accepted-build list appears as a fact in `Policy`. Rates and rate limits
are not modelled, a 429 is.

## 6. Plan

1. Done: `SessionTable`, `ConnectGate`, `Admission`, `Resource`, `Policy`, `Companion`, `InGame`, and the
   first proofs.
2. Done: `LocalHop`, `Protocol`, `Exchange`, `Updater`; proofs of the updater, of the resource, of
   the companion and of the gate's two routes.
3. Done: proofs of the gate's timing, its refinement, and of `Policy`, `InGame`, `LocalHop` and
   `Exchange`: every safety property of a passing run is a theorem.
4. Open modelling questions: the composition of `Resource`'s deferral with `ConnectGate`'s poll and both
   timeouts (25 s against 20 s); nonce collection by address after a reconnect within the
   nonce's lifetime.
