# RotorLens in TLA+

RotorLens shows a helicopter pilot what a Rotorflight blackbox log says about the
machine. One JavaScript application (`src/ui`, `src/src`) runs inside a native shell
(an Android activity with a WebView, an iOS view controller with a WKWebView) or in a
browser. The shell copies the log the pilot chose into a cache and offers it to the
page; the page decodes it, cuts it to the flight, works out what to change, and keeps
two private records (the flights the pilot saved, and whether anything may be shared)
that the shell writes to disk.

These modules model the part of that program in which several things happen at once, and
the way from the samples of a flight to the one change the pilot is told to make, in which
a verdict is assembled from many measurements each of which can be missing.
Paths below are relative to the repository, which is mounted as `src/`.

## 1. The system

| Component | State | Operations | Modelled in |
|---|---|---|---|
| Android import slot (`MainActivity`, `ImportStore`, `PendingImportEvents`, `RendererRecovery`) | generation counter, current log, cache files, worker threads, held events, `pageReady`, the WebView | a picked, opened or shared document; the worker's copy; page loads; renderer loss and recovery; create, finish, destroy | `AndroidImport`, promise in `NewestSelection` |
| Private storage, Android (`HistoryStore`) and iOS (`PrivateStore`, `NativeBridge`) | two files and their staging files | read, write (stage, rename, fallback), forget, purge at start | `Storage` |
| Page storage queue (`ui/app.mjs` 3780-5420, `ui/host.mjs`) | history and sharing in memory, their revisions, a chain of operations, flags for what failed | load, save, forget a flight, an aircraft or everything, consent dialog, sharing identities | `Storage` |
| Flight-history store (`analysis/flight-history.mjs` 600-1330, 2900-3300) | records, ordinals, counters | add, find, recognise, forget, export, import, compare two flights | `FlightHistory`, `FlightSaves`, `FlightComparison` |
| Viewer page (`ui/app.mjs` 500-4000, 6600-6800) | open log, flight, window, records, advice, frames in memory, tokens of each asynchronous function | open a file, pick a flight, move the window, analyse, measure vibration, pan; importStarted and failures from the shell | `Viewer` |
| Host boundary (`ui/host.mjs`) | in-flight fetch | storage calls that never reject, `bytes()` | `Storage`, `Viewer` (as awaits) |
| Blackbox decoder (`src/blackbox`) | reader offset, predictor history, counts | sessions, headers, frames, resync, tail detection | frame loop, integrity and the writer of test logs in `FrameDecoder`; the lazy stage (`decodeFrames`, `releaseFrames`) in `Viewer` |
| Mechanical spectrum and airframe gate (`analysis/advisor/mechanical-spectrum.mjs`, `recommendation-gates.mjs`) | the plan of a request, the stretches measured | plan, measure, plan again, combine, cancel; the gate on the result | `MechanicalWindow`, `AirframeGate`, `Once` |
| Stop evidence (`records.mjs`, `pid-evidence.mjs`, gates, `recommendations.mjs`) | the detector's mode and command, the stops found | read a sample; sweep the settings; judge an axis | `StopEvidence` |
| Hold evidence (`pid-evidence.mjs`, `recommendations.mjs`) | the segment in progress, the holds | detect, measure, read under every filter, judge | `HoldEvidence` |
| The page of advice (`recommendations.mjs`, `buildRecommendations`, `orderFindings`) | findings | airframe, head speed, each axis, order | `Advice`, `FindingOrder`, promise in `OneChange` |
| Contribution backend (`backend/firebase`) | aircraft, contributions, claims, tombstones, counts | delete in a transaction; submit (always refused); read counts | `Backend`, promise in `Erasure` |
| iOS import shell | the same slot, on queues | the same | not modelled |
| Evidence span (`analysis/evidence-span.mjs`) | none | the seconds in which the governor flew the rotor; the cut of a session to them | `EvidenceSpan`, `SessionReport` |
| Session integrity observation (`community-config-session-integrity.mjs`) | none | what is said of the body of a decoded session | `SessionReport` (its header checks are not) |
| Flight window | none | detection over samples | not modelled (numeric) |
| Community contract and model, configuration pairing | none | pure functions over records and text | not modelled |
| Asset server, external links | none | serve the page and the current import | only "current and its file exists" |
| Legal pages, presentation, command line, tools | none | text, layout, batch use | not modelled |

How they interact:

- **Worker → UI thread → page.** A worker thread copies a document and posts
  runnables to the main looper; the looper asks the generation, and either evaluates a
  script in the page or holds the event until the page is ready. A document that is
  replaced hears nothing that was sent to the one before.
- **Page → shell → files.** The page calls `readHistory`, `writeHistory`,
  `forgetHistory` and the same for sharing. Android answers inside the call; iOS
  answers a promise later, so the pilot can tap in between. On both, the process can
  die between any two steps.
- **Signal → evidence → advice.** `collectRecommendationMaterial` measures vibration over
  the window (in stretches when it is long), builds records, stops and holds of each axis,
  and hands all of it to `buildRecommendations`, which asks the airframe gate first, then
  the head speed, then each axis, and orders what was found. `Advice` extends
  `MechanicalWindow`: the airframe it judges is the one that module measured.
- **Client → function → Firestore.** A deletion is a call with a token that is consumed
  once; its transaction reads, decides and writes, and is run again when what it read has
  changed.
- **Page with itself.** One thread, and a dozen asynchronous functions that give it up
  for bytes, a paint or a module, and find the page changed when they get it back. Each
  is guarded by a counter (`fileOpenRun`, `sessionOpenRun`, `recommendationRun`,
  `vibrationRun`) that it took a copy of.

What is hard here, and hence what the properties are about: a superseded worker or
function that ends late; an event for a document that is gone; a change computed at the
tap and written later; a write of which a step fails; a crash between two steps; frames
emptied in place under an analysis that is waiting; one flight measured twice and found
to be two. `PROJECT.json` lists each at its line, under "hazards".

## 2. The modules

### `NewestSelection` and `AndroidImport`

`NewestSelection` is the abstract promise of the import slot: the newest selection owns
it, the page hears at most one outcome for a selection and only while it is the newest,
and hears "ready" only of a log the slot holds.

`AndroidImport` is the shell. Its state follows the fields: `gen` is
`importGeneration`, `cur` is `ImportStore.current`, `disk` the files of the import
directory, `work[a][g]` the worker thread of generation g (`lookup`, `sized`, `copying`,
`publish`, `report`), `posts` the main looper's queue, `pend` the object
`PendingImportEvents`, `ui` the handler the UI thread is in, when that handler has let
the store's monitor go between retiring a generation and unlinking files. `heard` is
what the current document received. Every Android callback that reaches the slot is an
action (`Create`, `NewIntent`, `PickFile`/`Picked`, `PageStarted`, `PageFinished`,
`RendererGone`, `Finish`, `Destroy`), each posted runnable is another, and a worker takes
one step per stretch between two places where another thread can come in. Progress is
one event per buffer, up to `MaxProgress`. A document's bytes are its generation.

Several activities of one process share the cache directory and the static purge flag,
which is why the activity is a parameter everywhere.

### `FlightHistory` and `FlightSaves`

`FlightHistory` is pure: `addFlightRecord`, `findRecords`, `isSameFlight`,
`sameStoredFlight`, `flightsOf`, `selectBaseline`, `forgetSavesOfFlight`,
`forgetAircraft`, `exportHistory`, `importHistory` as operators over a history value. A
record is reduced to what these tell apart: aircraft, header identity, and for every
part `flightContent` compares, a figure or its absence. What the code filters is selected by a
set of places (`SelectPlaces`), what it sorts is ranked (`FindRecords`), and `FlightsOf` is the loop
of `flightsOf` as a recursive function of how many saves were looked at: the proofs reason about
all three.

`FlightSaves` is a pilot using it: opening flights (each open measures the summary and
any subset of the other parts, which is what a memory budget and an axis picker do),
re-analysing, saving, forgetting, restarting; over any history of up to `MaxOld` saves
that an earlier version may have left, duplicates included. It assumes, as
`sameStoredFlight` does, that two different flights do not agree on every summary
figure; that assumption is `FlightsAssumption`, and is not a fact about the sky.

`FlightComparison` extends it with `compareFlightRecords`: the candidate of every reachable
state against the baseline `selectBaseline` finds for it. Names stand for headers and figures;
an experiment (`Experiments`) says which firmware, rates, gain lines and holds they are, so that
one walk through saves and forgets is judged under every pair of tunes.

### `Storage`

The queue, the shell and the files. `page` holds `state.history`, `state.sharing`,
their revisions and flags, `page.queue` the chain of `queueStorageOperation`, each entry
with the data and the revision it was computed from. An operation is asked of the shell
(`calls`), which serves one at a time (`ServeStage`, `ServeRename`, ...), and its answer
comes back (`reply`) as a step of its own. What the waiting handler does after its
await is in `Continue`, in the same step as the reply, because promise reactions run
before the next event. The module serves both platforms: the fallback after a refused
rename is Android's, a refused rename that simply fails is iOS's. Android's synchronous
bridge is the special case in which no tap happens between call and reply.

`Init` starts from every file an earlier run may have left: absent, whole, damaged with
or without something to salvage, consent to older terms. `ghost` holds the history variables of the
properties: what the pilot was told is kept, forgotten or dropped, whether a fallback lost a file,
and whether a forgetting was asked for while an answer or switching off was still waiting to be
written (`Reconciling`, `overtook`).

### `Viewer`

`page` holds the fields of `state` that decide what is shown; a function suspended at an
await is a record in `jobs` with the copies it took (`token`, `log`, `index`, `view`),
and an action is the stretch of code to its next await. Two facts of the event loop are
modelled explicitly: `Settled` (promise reactions run before the next tap or paint) and
`imported` (a module arrives once). What a flight measures is abstracted to the pair
(flight, cut of its window) it was measured over. `Walk` and `Evict` are the walk of
`evictDecodedSessions` over the flights read lately, which stops at the budget; it is a recursive
function, one flight at a time (`Sees`).

### `FrameDecoder`

The loop of `frames.mjs` over the bytes of one session, one step per turn. Bytes are
numbers and the markers the real ones, so a frame's data can look like a marker, which is
what a resync has to live with. `history` is `#previous`, `#previous2` and
`lastMainFrameTime`; `out` is what `decode` returns; `lim` and `used` are its limits and
their counters. `Damaged` is the whole `catch` block: erased tail, error, the limit on
errors, end of input or resync. `Accept(k)` is a frame that reads, completed by what each
kind does with it. A main frame is reduced to its `time`, an unsigned variable-byte
integer that P frames predict with STRAIGHT_LINE; the other fields are NULL encoded, which
the format allows, and cost cells of the budget. `SessionIntegrity` is that of
`log-integrity.mjs`.

`Init` takes a log written by `WriteSession` (`tools/blackbox-writer.mjs`) through
`Damages`: nothing, a cut with an erased remainder, one byte overwritten, a few bytes lost.
`spans` and `written` are history variables: what each turn made of its bytes, and what
the log was before the damage. `ReadEvent` reads every type of event `#decodeEvent` reads:
those of one integer (`OneInteger`), of two (`TwoIntegers`), adjustments of an integer or of
a float, custom data and strings, and the log end; any other type is corrupt. The widths are
parameters (`Word`, `VBBytes`): the code's are 2^32 and 5.

### `EvidenceSpan` and `SessionReport`

`EvidenceSpan` is pure: from the events of a session and the times of its samples to the ranges
in which the governor was active and settled, their overlap with a window, and the span
(`resolveEvidenceSpan`, `sliceSessionToSpan`). `SessionReport` extends `FrameDecoder` with what is
made of a session after it was decoded: the summary of its events, the observation of its
integrity, and its cut to the span of a window. It adds no step; its properties are invariants of
the decoder's behaviours.

The format has no checksum, and `CleanIsWhole` claims no more than can be known without one. A
changed byte can turn an event into another that reads as well (an adjustment into a change of
the flight mode, or into custom data), a lost event leaves no trace, and in both cases the body
is clean and the adjustment "not observed". `docs/SHARED_CORPUS_DESIGN.md:662` says just that:
"`not-observed` means only that no event 13 was present in one clean continuous decoded body".
What the property does say: a clean body was not cut, nothing of it was skipped and its last bytes
are the one log-end event; "continuous" and "not observed" never contradict an event that was
written before the damage, or after it where the loop begins a frame again; and a log without damage gets
exactly the observation it deserves.

### `MechanicalWindow`, `AirframeGate` and `Once`

`MechanicalWindow` is `analyzeMechanicalWindow` and what is under it. `phase` is where the
request is: planned, measuring a stretch, deciding whether the plan has to be made again
(`escalation`, `minimum`), done, cancelled or refused. `Cancel` is a newer window
overtaking it, noticed where `checkCancelled` is called. A flight is its samples, its rotor
speeds and the tones that are really in it, each with the ticks at which it is loud; the
Fourier transform is the step from those ticks to the windows that see the tone, and what
a peak does in between (listed, dropped by the cap on peaks, sized, matched with a rotor
order, counted as unlisted) is the code's. Everything is a whole number: quantiles are
scaled by 20, frequencies by 800. What is measured is an operator of the flight `f` and the range
it is measured over (`PlanFor`, `Measured`, `JudgedBy`, `Analyzed`, ...), not of the variables, so
that the proofs can speak of the same flight before and after a step. Which peaks are listed is a
recursive function over them in the order of their rank (`TakeApart`, `TakeQuiet`), and so is the sum
of the counts of those that are not (`SumUnlisted`). Where the program's floor between tones could
fall
either side of a limit, `Analyzed` returns both results.

`AirframeGate` is `evaluateAirframeGate` with everything it calls, on the combined result.
`Once` is one operator that evaluates a value once, for speed.

### `StopEvidence`

The detector of `detectStopEvents`, one sample a step: `mode` is its state, `cmd` the
command in progress, and each refusal (`Linger` for RELEASE_TOO_SLOW, `Recommand`, ...) is
an action that leaves it as the code does. It is run once per setting of the sweep (`pass`);
`measured` keeps what each pass gave, and `Judge` is the rest of the way: the shape of each
stop, the evidence of the two directions, the gates, and the findings of `axisFindings`.

### `HoldEvidence`

`detectHoldSegments` a sample a step (`start`), then the segments one by one (`Skip` at the
edge of the records, `Refuse`, `Count`), then the reading of the holds under every filter of
the sweep (`Sweep`), then the finding (`Judge`). `Reading` is `interpretHoldEvidence`,
`Authority` and `Coupling` say what of the movement the I term is, `Bind` is the
discriminator of a mechanical bind.

### `FindingOrder`, `OneChange` and `Advice`

`FindingOrder` is pure: the rungs, and `orderFindings` on a sequence of findings. `OneChange`
is what a page promises whatever was found: at most one adjustment, none below a blocker,
the first of them when nothing blocks, and nothing but adjustments held back.

`Advice` extends `MechanicalWindow` with the pilot's flight and joins it with what the
axes gave, which is any combination of the verdicts `StopEvidence` and `HoldEvidence`
reach: `Collect`, `JudgeAirframe`, `JudgeHeadspeed`, `JudgeAxis` or `SkipAxis` in the order of
AXES, `Tell`. The stretches of steady governed flight are `Segments`, which reads the windows in the
order in which they begin (`Extended`) and counts a hover of two axes once (`CountSegments`). A
finding is its id, rung, axis and kind; its wording is left out.

### `Erasure` and `Backend`

`Erasure` is what a deletion promises: an aircraft's records stay whole, with their share of
the counts, until somebody who holds its capability asks; then they go whole, once, and
only he is told. `Backend` is the transaction of `deleteCommunityAircraft` in its three
steps (`ReadAircraft`, `ReadContributions`, `Commit`), `requireAppCheck` before it (`Admit`) and,
external to the repository, Firestore (`Overwritten`: a transaction that read what has
changed is run again), the network and the clients. `db` is the documents, `call` each
delivery of a client's newest call. `Init` takes databases that are sound and some that
cannot be, which the code must refuse.

`MC*` modules give the constants their values.

## 3. What the runs check

| Run | Bounds | Shows |
|---|---|---|
| `android_import` | 1 activity, 2 selections, 1 progress event each, 2 renderer losses, 1 reload, 1 process death | `TypeOK`, `ReadyIsServable`, `NoStrandedFile`, `PageHearsInOrder`; `ImplementsNewestSelection` (refinement); `SelectionIsAnswered` (liveness) |
| `flight_saves` | 4 flights of 2 aircraft, 2 parts, cap 2, 2 opens, up to 3 old records in a file with its counters, without any or without one of them; tunes and holds of the experiments in `MCFlightSaves` | `RecognitionIsExact`, `ForgetMeansTheFlight`, `CreditIsEarned` |
| `storage` | 4 taps, 2 troubles (a failed file step, a lost page, a crash) | `FilesAreWhole`, `ForgottenIsGone`, `SavesAreKept`, `NoUnaskedSharing`; `UnreadIsKept` (action property); `ConsentCloses` (liveness) |
| `viewer` | 4 taps; a dump of three flights, a log with nothing to show, a file that is no log; memory for one flight besides the one on screen | `MeasuredIsForTheScreen`, `NewestIsShown`, `FramesAreAccounted`; `ComesToRest` (liveness) |
| `frame_decoder` | 19 logs of 5 to 14 frames; cut anywhere with up to 5 erased bytes, one byte overwritten by one of 9, 1 to 3 bytes lost; 5 settings of the limits; 3 windows; a word of 8 bits in at most 2 bytes | `HistoryIsCommitted`, `PrefixIsFaithful`, `DamageIsContained`, `ReportIsHonest`, `SpanIsFlown` |
| `mechanical_window` | 5 samplings of 7 to 18 samples where 8 fit one stretch, a window of 2 samples, 4 courses of the rotor, up to 2 tones on and off its orders, holes, filtered and missing sources | `StretchesTile`, `GateIsComplete`; `EveryRequestEnds` (liveness) |
| `stop_evidence` | 4 or 5 stops, 9 replies, 18 odd manoeuvres, 3 settings, 2 judgements | `StopsAreFound`, `AdviceSurvivesTheSweep`, `NoGainAgainstAsymmetry` |
| `hold_evidence` | 1 to 5 holds of 15 samples, 11 errors, 8 I terms, 12 flaws, 3 filters, 3 thresholds | `HoldsAreFound`, `AllClearIsMeasured`, `GainIsEarned` |
| `advice` | 2 axes with any of 30 kinds of evidence, flights of one and two stretches | `NoGainOnUncheckedAirframe`, `VibrationIsHeeded`, `BlockIsExplained`, `GovernorIsBlamedFairly`; `ImplementsOneChange` (refinement) |
| `backend` | 3 clients, 2 aircraft, 7 databases, 2 calls or answers lost or delivered twice | `ImplementsErasure` (refinement); `OwnerIsHeard` (liveness) |
| `storage_saved_id`, `viewer_records` | as in the cfg | one finding each (section 5) |

A property that is a conjunction names its parts in the module: `PageHearsInOrder` is
`OutcomeIsLast` and `LostLogNotReoffered`; `ForgetMeansTheFlight` is `ForgetTakesTheFlight` and
`IdsAreNotReused`; `FilesAreWhole` is `MemoryIsDisk` and `NoHalfWrittenFile`; `ForgottenIsGone` is
`NothingResurrected` and `IdsFollowHistory`; `SavesAreKept` is `SavedFlightsLast` and
`NoDuplicateSave`; `UnreadIsKept` is `UnreadableIsKept` and `UnreadHistoryDropsNoIdentity`;
`NewestIsShown` is `PaintedIsChosen` and `NewestOpenOwnsScreen`; `MeasuredIsForTheScreen` is
`AdviceIsForTheScreen` and `VibrationIsForTheFlight`; `FramesAreAccounted` is
`AnalysedFlightIsHeld` and `HeldFramesFit`; `DamageIsContained` is `EveryByteOnce` (`SpansTile`,
`GapsSkipNoFrame` and the count of bytes skipped) and `RecoversAtKeyframe`; `ReportIsHonest` is
`IntegrityIsHonest` (`CutIsNotDamage` and `LimitIsNeverClean`) and `CleanIsWhole`;
`GateIsComplete` is `GateSeesEveryTone`, `UnremarkedMeansQuiet` and `PanelAgreesWithGate`;
`StopsAreFound` is `EventsAreStops` and `CleanStopIsFound`; `HoldsAreFound` is `HoldsAreHeld` and
`CleanHoldIsFound`; `GainIsEarned` is `GainIsUnanimous` and `NoRaiseIntoABind`;
`VibrationIsHeeded` is `RotorIsNotTuned` and `ClearIsClear`.

Why these bounds are enough for the cases of interest:

- Two selections give every way one supersedes the other: the worker of the first may be
  before its lookup, in its copy, publishing or reporting when the second arrives. Two
  renderer losses are what it takes to see a loss during the rebuild after a loss. One
  process death gives a second process that finds the first one's files.
- Three old records give a flight saved twice with another between; a cap of two gives an
  add that drops a record, and an import after it. A file without a counter is one whose
  records must give it back.
- Four taps are enough to save, save another, forget one and answer the dialog, in one
  history; two troubles give a failure while another is being recovered from (a crash in
  the fallback after a refused rename, a lost page after a failed write).
- Four taps in the viewer give an open overtaken by an open overtaken by a refused file,
  or two flights read and a third picked while an analysis of the first is waiting, which
  is what the budget is for. Taps count the shell's calls too.
- An 8-bit word in two bytes has every case of the 32-bit one in five: a value that wraps,
  a last byte with too many bits, an erased run that cannot end a field and one that
  does. Five erased bytes are more than any field, event or float reads. The nine bytes that
  overwrite are the frame markers I and P, an erased byte (the log-end type, too) and types of
  each shape of event (0, 13, 14, 30, 50, 100), so that damage turns an event into one that
  reads and one that does not, a length into another and a value into a marker.
- Seven to eighteen samples where eight fit give one, two and three stretches, a plan that
  fits by samples and not by the resampled grid (so that it is made again), and a pause
  that no plan can fit. A tone may be loud in all, half or one window of one stretch only.
- Stops: four are the fewest the gates accept, and the odd manoeuvre comes before, between
  or after them, so that what a refusal leaves behind has a clean stop to spoil. The
  signal is in units of the thresholds, so that every limit is met from both sides.
- Holds: three are the fewest a standing error needs and two the fewest that are read; the
  flawed hold is the first or the third of four, so that it touches an edge or not.
- Two axes are what it takes for one to suppress or to be left alone by the other, and for
  two holds to be one hover.
- Two devices with the capability of one aircraft and a third client with another's give a
  repeat by the owner, a race of two owners and a race on the counts; two troubles let an
  answer be lost and its repeat delivered twice.

`CHECK_DEADLOCK FALSE` is set where the bounds let the system stop (all taps used, or the
activity destroyed), the program ends (a decode), or everybody was told (`backend`). The
request of `mechanical_window`, the detectors and the advisor say that they are settled with a
step of their own, and `flight_saves` never stops.

## 4. Fairness

- `AndroidImport`: weak fairness of the handler in progress, of the looper, of each
  worker's next step and of a page finishing its load. The looper and threads are the
  operating system's; the size limit and the interrupt see to it that a copy ends. The
  pilot, the system's lifecycle calls and the renderer owe nothing. So a selection is
  answered (`SelectionIsAnswered`) only with the exceptions the formula names: it was
  superseded, or the viewer was given up.
- `Storage`: the event loop runs and a file operation returns (weak fairness of the
  page's and of the shell's step). Taps, failures and losses owe nothing. A restart is
  not fair either: an app the pilot does not reopen stays down.
- `Viewer`: bytes arrive or are refused, a paint comes or the timer beside it does
  (`yieldToPaint` has one), a module loads or fails: weak fairness of the thread as a
  whole. Taps are bounded, so the queue of suspended functions drains.

- `MechanicalWindow`: the one asynchronous function goes on after each yield (weak fairness of
  its step); being overtaken is not fair.
- `Backend`: a call that arrived is served, and a client that was not told asks again (weak
  fairness of each). Losses and duplicates are bounded by `MaxTroubles`, not fair. No client
  ships in this build, so its insistence is an assumption about a future one; it is what the
  answer ALREADY_DELETED is for. Without it no promise to the owner can be kept.

## 5. Where the code departs from what it says

Two are runs with `expect: violation` and entries under "findings" with the lines:

- `storage_saved_id`: a Save whose reply comes after another flight became the candidate
  gives that flight the saved one's id. It needs the asynchronous bridge (iOS, or any host
  that answers later).
- `viewer_records`: an analysis that was superseded leaves its records for Analyse.

The others were met while modelling; the models do what the code does, and the properties
that hold name the exception:

- A capture that stops one to three bytes into the float of an in-flight adjustment is called
  damaged, because `floatLE` (`reader.mjs` 152) fails without moving the reader to the end
  and the loop then does not see that the capture stopped (`CutIsNotDamage` excepts it).
- The late `onDestroy` of a finished activity unlinks every import of the directory
  (`ImportStore` 250), including the one its successor has just announced: with two activities
  `ReadyIsServable` does not hold.
- "Not now" pressed while "Share" is being written is dropped by the revision check (`app.mjs`
  5154), against "`asked` is written the moment either button is pressed" (5380).
- A Forget queued behind an answer, or behind switching sharing off, leaves the sharing identity
  of an aircraft that has no flights (`app.mjs` 5267; `IdsFollowHistory` excepts both: the second
  needs one tap more than the bounds of the run give, and came out when the invariant that the proof
  needs was first checked under larger ones).
- A pan between the tap on Measure and the sweep leaves the numbers of the old view under the
  new one (`app.mjs` 6625); `VibrationIsForTheFlight` is what does hold.
- `evaluateHeadspeedGate` reads the head speed of a stop from `stopTimeUs - commandDurationUs`
  (`recommendation-gates.mjs` 1200). The command ends where the release begins, not at the stop,
  so the window starts later than the command by the time of the release, and a sag at
  the beginning of the turn is not in it.
- A log whose every command was cut by a missing sample has the outcome
  ALL_CANDIDATES_REJECTED without the `dominantRejectionReason` that outcome is documented to
  name (`records.mjs` 849 against 920).
- "An axis-level blocker on one axis does not suppress another axis's gains"
  (`recommendations.mjs` 6327) holds of the findings kept, not of the page: the primary action must
  not be below the lowest blocker (6336), whichever axis that is on, so the other axis's
  gain is not shown. `OneChange` states what the page keeps.
- `coincidentTone` (`recommendations.mjs` 1526) compares an oscillation with the tones of its axis that are
  *listed*. Below the attention level that is at most `MAX_PEAKS_PER_AXIS` of them, and none beside
  another (`mechanical-spectrum.mjs` 1291), so a soft tone of the rotor that lasts the whole flight
  can be left out and tuned away.
  `RotorIsNotTuned` excepts it (`StandsApart`); without the exception it is false once an axis has more
  quiet tones than the list takes, which came out when the proof was tried.

Two more exceptions of the decoder are its own and documented: a cut on a frame boundary
after which a *completed* frame took erased bytes reads as damage (`ErasedBytesRead`; the
comment of `#cutByErasedTail` says why), and decoding recovers at a keyframe only once the
loop reads that keyframe at its beginning: a frame damaged before it can swallow its marker
and still read as a frame, so the next keyframe is sometimes the one after.

Other things met on the way: a document picked after the viewer was given up is copied into
the cache although no page can fetch it (`MainActivity` 200; `handleIntent` refuses one
then); the fallback of `HistoryStore.writeTo` can lose the
file it was replacing (its comment accepts that; `ghost.fellBack` is the exception in
`MemoryIsDisk` and `SavedFlightsLast`), and "a candidate is only ever compared with a
flight it followed" (`flight-history.mjs`, before `selectBaseline`) means followed in
the order of saving: an older log opened after a newer one was saved is compared with
the newer one.

## 6. What is proved

The theorems hold for every value of the constants that meets the assumptions below.

| Module | Theorem | States |
|---|---|---|
| `AndroidImportRefinement` | `TypeCorrect` | `Spec => []TypeOK` |
| | `NothingStranded` | `Spec => []NoStrandedFile` |
| | `SlotKeepsItsPromise` | `Spec => ImplementsNewestSelection` |
| | `OutcomesComeLast` | `Spec => []PageHearsInOrder` |
| | `ReadyCanBeFetched` | `Spec => []ReadyIsServable`, with one activity |
| `FlightSavesProofs` | `ForgettingIsExact` | `Spec => []ForgetMeansTheFlight` |
| | `FlightsAreRecognised` | `Spec => []RecognitionIsExact` |
| | `CreditIsAlwaysEarned` | `Spec => []CreditIsEarned` |
| `StorageProofs` | `WhatIsSeenIsStored` | `Spec => []FilesAreWhole` |
| | `WhatIsForgottenIsGone` | `Spec => []ForgottenIsGone` |
| | `SavesStay` | `Spec => []SavesAreKept` |
| | `SharingIsAsked` | `Spec => []NoUnaskedSharing` |
| | `WhatIsUnreadIsKept` | `Spec => UnreadIsKept` |
| | `StagingIsPurged` | `Spec => []NoHalfWrittenFile` |
| `ViewerProofs` | `NewestOnScreen` | `Spec => []NewestIsShown` |
| | `NothingStaleIsMeasured` | `Spec => []MeasuredIsForTheScreen` |
| | `FramesAreHeld` | `Spec => []FramesAreAccounted` |
| `FrameDecoderProofs` | `SamplesAreCommitted` | `Spec => []HistoryIsCommitted` |
| | `EachByteIsReadOnce` | `Spec => []SpansTile` |
| | `NoFrameIsSkipped` | `Spec => []GapsSkipNoFrame` |
| | `LimitsAreDamage` | `Spec => []LimitIsNeverClean` |
| `AdviceProofs` | `StretchesAlwaysTile` | `Spec => []StretchesTile` (of `MechanicalWindow`) |
| | `GateIsAlwaysComplete` | `Spec => []GateIsComplete` (of `MechanicalWindow`) |
| | `VibrationIsAlwaysHeeded` | `AdviceSpec => []VibrationIsHeeded` |
| | `GainsNeedTheAirframe` | `AdviceSpec => []NoGainOnUncheckedAirframe` |
| | `GovernorIsTreatedFairly` | `AdviceSpec => []GovernorIsBlamedFairly` |
| | `AdviceIsOneChange` | `AdviceSpec => ImplementsOneChange` |
| | `BlocksAreExplained` | `AdviceSpec => []BlockIsExplained` |
| | `AdviceTypeCorrect` | `AdviceSpec => []AdviceTypeOK` |
| | `HoldsAreAlwaysFound` | `Spec => []HoldsAreFound` (of `HoldEvidence`) |
| | `AllClearIsAlwaysMeasured` | `Spec => []AllClearIsMeasured` (of `HoldEvidence`) |
| | `GainIsAlwaysUnanimous` | `Spec => []GainIsUnanimous` (of `HoldEvidence`) |
| `BackendProofs` | `DeletionIsErasure` | `Spec => ImplementsErasure` |

`FlightHistoryProofs` holds the lemmas on the operators of the flight history that `FlightSavesProofs`
and `StorageProofs` stand on. `PanelAndGateAgree` of `AdviceProofs` is the last third of `GateIsAlwaysComplete`.
What `MechanicalWindow` promises is proved in that module because the advisor's proof goes through
the same lemmas. `HoldEvidence` is an instance there, over parameters of its own, and its theorems assume
`HoldContract`, which is exactly what `HoldEvidence` assumes of its constants; `GainIsAlwaysUnanimous` is
the first conjunct of `GainIsEarned`. `PrefixIsFaithful`, `DamageIsContained` and `ReportIsHonest` are proved in part: the
theorems of `FrameDecoderProofs` are conjuncts of them.

**Assumptions.** On the constants only, each named in the module that declares them and
evaluated by TLC in the runs: sets that are not empty, bounds that are natural numbers, a database
that is one (`BoundsAssumption`, `StorageAssumption`, `AdviceConstants`, `BackendConstants`).
`WindowConstants` says that a flight is finitely many samples at natural numbers of ticks and that
at least two fit a stretch; that it has finitely many tones, each on an axis, at a natural frequency
and of a natural size (of frequency zero there is no tone: the code looks for peaks from
`minimumFrequencyHz` on); that no two of one axis are at one frequency (they would be one tone); and that
a tone is loud only if it reaches the level that "loud" means. `CapAssumption` says that an aircraft
keeps at least one save, and `StorageAssumption` that there are no more flights than one aircraft keeps
saves: past the cap an add drops the oldest save by design, and "kept until a forget is asked for"
ends there (`FlightSaves` has the cap in reach, and its theorems need no such assumption).
`AdviceConstants` takes the frequency an axis oscillates at for a natural number, zero when none was
measured. `HoldConstants` keeps the limits of `EVIDENCE_LIMITS` in proportion (a gap is shorter than what is measured,
the band is not empty, a filter has a length); `RecordContract` is the record contract at the head of
`pid-evidence.mjs`, whole numbers some of which may be missing, in order of time; `SweepConstants` says
that the sweep tries the threshold that is shipped. `FlightsAssumption` is the one of section 2, on the summary figures of two flights, and says that a
figure of a flight is not the mark for an absent one. `ComparisonAssumption` types the figures an
experiment gives: finitely many axes, gains and held errors that are natural numbers. `DecoderAssumption` fits the width of a word to its bytes;
`WriterAssumption` says that what `WriteSession` writes is bytes, which TLC evaluates for the logs
of the run and which cannot be proved here (the writer folds over a log). `MarksAssumption` says
that the marks "nothing", "working" and "failed" are not logs or windows, which nothing in the
language excludes. `ReadyCanBeFetched` assumes `OneActivityOnly` in its statement: with a second
activity it is false, for the reason section 5 gives (the late `onDestroy`), so it is an assumption
the property needs and not one the proof does; `android_import` has one activity too. All other
theorems of the slot hold for any number of activities.

**`AndroidImportRefinement`: types and files**, for every set of activities and every value of the bounds.
`TypeOK` is not inductive: it says nothing of the result a worker is about to report, of
what a posted runnable carries to the UI thread, or of the generation the handler in
progress retires, and a step reads all of those. `TypeInv` is the strengthening. Its parts: `ActivityTypes` (every per-activity
variable), `SlotTypes` (generations of the slot, the held events and the last loss never
exceed the newest), `WorkTypes` (a worker exists only for a generation that was handed
out), `PostTypes` (so does every posted runnable), `UiTypes`, `DiskTypes`. The proof has one
lemma for each action or group of actions that leaves the same variables alone, and
`Init`, step and `TypeInv => TypeOK` as three facts that the temporal step combines.

`NoStrandedFile` needs, with `TypeInv`, only itself: a file appears in one place
(`OpenStaging`, after the process has purged) and with a worker in `copying`; a worker leaves
`copying` by unlinking its file, or for `publish`; publishing makes the file current or
unlinks it, and unlinks the one it replaces; a current file is retired by a handler that
goes on to unlink.

**`AndroidImportRefinement`: the promise.** The mapping reads the promise's variables off the slot: its
generation, what the page was last told, whether the slot holds the newest log. The invariant
`ImportInv` follows an outcome on its way to the page. `WorkerInv` and `PostInv`: the outcome of the
newest selection is in one place only, the worker, one posted runnable, the held slot or the page,
so that it can be told once; `PostOrder`: nothing of an activity is posted behind an outcome;
`PendInv`: what is held is of the newest generation and not yet told; `HeardOk`: in a document an
outcome comes last, and "ready" is of a generation after the last loss. `HandlerInv` says what the
handler in progress has retired. A step changes one activity, and one lemma (`Same`) says that the
other activities' parts do not see it. `FileInv`, for `ReadyIsServable`, says where the file of the
newest generation has to be while it is copied and after.

**`FlightHistoryProofs` and `FlightSavesProofs`**, for any number of flights, parts, saves and opens, any
cap, and any history an earlier version can have left. `FlightsOf` is a recursive function, and the
induction theorems of the library cannot be used, so the lemma `Recursion` builds the function by a
least counterexample: the smallest number of steps for which no run of them exists has a
predecessor that has one (`SmallestOfSet`, by well-founded induction on the numbers). What holds after
every save is shown the same way: each flight of the result is a set of saves that are one flight, the
newest of them in front, and every save is in one. `IsHistory` says what a history is: saves in
ascending order of their ordinals, each below the counter of its aircraft; every operator keeps it,
an import of an export gives it back, and an import of a file that lost counters finds them again in its
records (`CountersAreFound`). `SavesInv` adds what the two properties need. `TokensInv`: a
token in the history is of a decode that was, and the candidate's is on no other flight, without
which a new decode could be taken for an old save by its token alone. `IssuedInv`: every id given
out is below its aircraft's counter; that no id is given out twice is not inductive without it, since
the save an id belonged to may be gone. Recognition then follows from `FlightsAssumption`: saves of
one flight agree on the summary, which every open measures, and of two do not.

**`StorageProofs`**: `StorageInv`. Consent is checked when the pilot taps, written several steps
later and read back after a crash, so the invariant says of every place a sharing record can be (the
page, an operation in the queue that is not stale, a call, a reply, the file) that if it is on, it
was agreed to (`PageInv`, `CallsInv`, `TalkInv`, `DiskInv`); the file may hold consent to older terms,
which a load does not honour. `WritableInv` and the fourth part of `CallsInv` say that a write is
never on its way to a file that could not be read, which is what `UnreadIsKept` needs: the flag is
read at the tap, the file written later. `NoHalfWrittenFile` is inductive with the phase of the call
being served. An operation in the queue computed while the history was
unread keeps every identity.

The three properties of the flights and identities need two further invariants. A change is computed
at the tap, from the history of then, and written later; so `FlightsInv` says of every operation
that is not stale that it is what was asked for *of the history of now* (`Changes`), and of one that is
stale that it writes nothing, because a revision that was passed does not come back. `GoneInv` and
`KeptFile` follow a flight through the four places it can be: memory, queue, a write on its way, the
file. `HeldInv` is the core of `MemoryIsDisk`: the page's history is the file's, or a change was made
and its reply has not been heard, and then the page is about to take the operation's data over.
`CandidateInv` (a candidate that can be saved is not in the history) is what `NoDuplicateSave` needs.
`IdsInv` does the same for the identities: `KnownInv` says that every identity anywhere was minted and
not dropped, `HeldShare` is `HeldInv` for the other file, and `CleanInv` that every identity is of an
aircraft that is remembered or that a reconciliation is on its way. It needs `OrderInv`, on the order
of the queue: a reconciliation is computed from the history of the moment it is queued, so no
forgetting that will be carried out may be ahead of it. That is false when a forgetting was asked
for behind a change of the preference, which is the exception of section 5.

**`ViewerProofs`**: `ViewerInv` relates every suspended function to the page it will find. A
function holds a token its counter has given out (`IsJob`), and at most one holds the newest;
`ReadInv` and `OpenInv` say what the screen may be while that one waits, `AdviceInv` that the newest
analysis waits on the window that is on the page and that no candidate is offered meanwhile,
`VibrationInv` that the newest measurement finds the frames of no flight but the one on the screen,
which holds because another flight's frames are gone or its token is spent. The functions of the
page (`RenderSession`, `Evict`, `RetireAdvice`, ...) each have a lemma that says what they change field
by field; the actions are combinations of those.

`FramesAreAccounted` has its own invariant, `HeldInv`. `Listed`: of the log on screen no frames are held
but of flights in the list of those read lately, so that the walk over that list sees all of them;
`HeldForJobs`: the frames under an analysis that is waiting are held, those of a log still being
opened are not there yet; and the frames that could be let go cost no more than the budget. The
walk is taken one flight at a time: what it has kept besides the flights in use is within the
budget, and each flight it saw was kept or freed (`Recursion` again).

**`FrameDecoderProofs`**: `CommitInv` ties the history to the last two samples that were committed,
the events to the samples before them, and the limits to the error that names them; a rejected frame
changes none of these, and one lemma (`SampleCommits`) does both kinds of accepted frames. `TileInv`
says that the spans follow each other from the first byte to the reader. Its core is that every
reading operation moves the reader forward and not beyond the end: the variable-byte integer, the
float, the event of each type. The resync stops at the first marker, by well-founded induction on
the least one.

**`AdviceProofs`**, for every flight, whatever the axes gave. It begins with the lemmas on
`orderFindings` for any sequence of findings: the first action exists when there
is an action (`SmallestOfSet`), at most one adjustment is returned, none with a blocker above it, and
one is when nothing blocks. The invariant `IInv` says that the findings are a sequence of findings with
known rungs about axes that were read; what is found is only ever appended, so each step is `Find` or
`Tell` of `OneChange`. `BlockIsExplained` needs more than itself: a block is decided in the step that
makes the cards, and `IInvCard` adds that no verdict exists before it. Its core is a lemma that
goes through the codes of the gate and of the broadband floor one by one and shows that each has
its card.

`StretchesTile` needs that the boundaries a plan picks are samples of the flight in order, each the
last that fits (`BoundaryIsSample`, `StretchesAreTiles`), and that the plan made again with a larger
minimum is again one (`PlanInv`). `NoGainOnUncheckedAirframe` is the longest way: a gain is named by
the last stage from a verdict of the gate on a result combined of stretches that were measured one
by one. `MeasuredInv` says of each result so far that it tells the truth about its stretch
(`Sound`), and that the one delivered is the combination of all of them; `DeliveredTells` that the
combination passes every limitation of a stretch on; `VerdictPermits` that the gate which found
nothing to object to saw all of them; `TrustInv` that as long as the verdict is not "permitted" no
change has been found. The stops and holds lie in the window because the records were cut to it.

`GateIsComplete` follows the other way what was *heard*. `Hears` says of the result of one stretch: a
tone that was loud in any of its windows is among its peaks as it was, or it was eligible and is one of
those that were counted as unlisted. So no tone is lost in silence, which is a fact about `TakeApart`
and `TakeQuiet`: a tone above the level that does not persist is listed whatever the cap, one that
persists and stands too close to a better one is counted, the best always being listed, and the quiet ones
push nothing out (`RankedMembers`, `ApartIs`, `QuietIs`, `ListedTells`). `TonesInv` is `MeasuredInv` with
`Hears` for every stretch measured so far, `HearsAll` what the combined result says: no peak of any stretch is dropped,
and a sum of counts is zero only when each of them is (`SumIs`). Every outcome of the gate is then a
fact about the tones: with no code none is above the ceiling (`NotLarge`), one that persists is on the main
rotor's first or second order (`RuleHears`), and with no remark there is none at all (`ToneIsJudged`).

`VibrationIsHeeded` takes the same tones on to the page. A third part of `Hears` is about those below
the level: one that lasts is listed when its axis has no more tones than `MaxListed` and none is beside it
(`KeptIsListed`). `TonesAreListed` says that a measurement the gate lets through has in its lists every
tone that was above the level in some stretch or is kept so (`Listens`), so `coincidentTone` compares
each of them with the frequency the axis oscillates at (`NotCoincident`) and "clear" is said only when
there was none (`ClearIsQuiet`). `HeedInv` holds that for every finding made so far (`Heeds`): it reads
the flight, the stretches and what the axes gave, and none of them changes once a finding was made.

`GovernorIsBlamedFairly` needs `BlameInv`, which says that from the moment the head speed is judged the
governor is blamed if and only if it moved in half of the hovers it could be read in (`Blamed`), as
they are defined by the windows themselves. That the segments the code counts are those hovers is a fact about a loop over windows of any number: `Gathered` is its invariant, once every
window that begins at m or before was read (the segments begin where some window does, in order, each
with the outcomes of its own windows), and the next beginning is taken by a least counterexample.

The theorems of `HoldEvidence` hold for any records of any length. The arithmetic comes first: `SumSteps` and
`RootIsNat` build the values of the two recursive functions by `Recursion`, and what a sum or a mean of
whole numbers can be is a least counterexample over it (`SumIsPositive`, `MeanIsWhole`, `SmoothedIsWhole`,
`WeightedIsWhole`). `InOrderIs` and `TakenIs` say what a selection of places is: the places in order, each
once. The invariant `HoldsInv` has four parts. `Detected`: the segment in progress stayed within the band
(`InProgress`), each segment found was held and is long enough (`AllHeld`), no segment that was entered and
left cleanly is missed (`NothingMissed`), which needs that one not yet left is the one in progress
(`NothingElse`). `WereMeasured`: the holds are the measures of the segments looked at that were not refused,
all of them. `AllRead`: each filter tried gave what its own holds read. `Advised`: an all clear rests
on a capture, and a named gain on a sweep that agrees with it. With it, `RefusalIs`
takes the refusals of `measureHold` apart and a clean hold passes each (`CleanIsCounted`); `CalmIsMeasured`
takes "nothing was read" back to the three measures; `SweepAgrees` needs that the filter that is shipped
always votes (`ShippedVotes`), since a set of verdicts with one member says something only if no vote is
empty.

**`BackendProofs`**, for any aircraft, clients, capabilities and databases. A delivery decides on
documents it read some steps ago, so `IInv` says of each what it decided *of the documents it
holds* (`CallInv`): a delivery past its first read has a verdict that lets it go on, one about to
commit has counts that can be, and one that answers "erased" answers of an aircraft that is gone.
`Commit` is guarded by those documents being the present ones, which turns that into a fact about
the database: the aircraft is there, unmarked, its capability is the caller's, and no count goes
below zero. Other deliveries' commits cannot bring a document back, which is why an answer
given stays true until it is heard. `Library` holds against an aircraft every claim
that no other aircraft's contributions account for, so a claim left behind would show; that none
is follows from `ClaimsAreOf` (every claim is of a contribution) and `OthersAfter` (what the others
account for, once the contributions of one aircraft are gone).

**What stays with TLC, and why.**

- Liveness (`SelectionIsAnswered`, `ConsentCloses`, `ComesToRest`, `EveryRequestEnds`,
  `OwnerIsHeard`): fairness and ENABLED are out of the prover's reach.
- `PrefixIsFaithful`, `RecoversAtKeyframe`, the count of skipped bytes, `CutIsNotDamage` and `CleanIsWhole` are about
  what `WriteSession` wrote, a fold over a log of any length, read back through variable-byte integers:
  the round trip needs an induction over the bytes of a number with powers of 128, which neither of the
  installed provers does (Z3 has no useful theory of exponents, and the induction theorems cannot be
  instantiated).
- `SpanIsFlown`: the ranges of `EvidenceSpan` are three `SelectSeq` over events of any number.
- The properties of the stop detector (`StopEvidence`): its means and quantiles are folds over the samples, and
  `CleanStopIsFound` holds of logs sampled densely enough and of manoeuvres as `Init` makes them, which is a
  statement about those inputs and not for every value of the constants.
- `NoRaiseIntoABind`, the second conjunct of `GainIsEarned`, compares the I term's drift and its root mean
  square with each hold's own, weighted and rounded; whether one bound follows from the other depends on
  the figures of a flight, not on the rules, so it is a statement about the flights of the run.

A fold or a filter is in the provers' reach once it is written as a recursive function on numbers or as a
selection of places, as those of `FlightHistory`, `Viewer`, `MechanicalWindow`, `HoldEvidence` and `Advice` now are: its value is
given by `Recursion` and what holds of it by a least counterexample. That is the way for the others, too.

No module uses a `RECURSIVE` operator.

## 7. Plan

Done: the import slot and its promise; the storage queue with both files; the flight store and the
comparison of two flights; the page's asynchronous functions; the frame loop and what is reported of a
session; the way from a window to a page of advice; the deletion of the backend; the theorems of
section 6. What would be next:

1. Proofs: the ranges of `EvidenceSpan` and the settling time; the folds of the stop detector as recursive
   functions, for `EventsAreStops`, which does not depend on the sampling; the round trip
   of one variable-byte integer, and from it the prefix that is read whole.
2. Decoder: the tagged encodings of `encodings.mjs` against reference definitions over bounded
   widths; the other predictors at the limits of 32 bits; headers, session splitting, continuity.
3. iOS shell: the slot on dispatch queues, scheme tasks that are stopped while they are served,
   content-process termination; refined to `NewestSelection` too.
4. Viewer: the progress bar and its owners; a history that loads after the first analysis.
5. Configuration pairing, the community contract.

## 8. What is left out of the modules that exist

- Presentation: texts, progress bars, drawing, the axis and field pickers. `Pan` is
  guarded by the frames being held, because the plot throws without them.
- Sizes, names and URIs of documents; the wording of a failure; the format of both files.
- Admission of a flight to the history; what a comparison of two flights shows of their stops,
  which it never judges; the gain models fitted from the history.
- `ConsiderFlight` waits for the load of the two files. The code does not make it; the read
  of two small files against the decode of a log does. The hazard is listed.
- The purge at process start and the first import of a cold start are sequential in the
  code (the worker purges first) and in the model.
- Signals are whole numbers of small size; the Fourier transform, the interpolation of a peak and
  the standard deviations are modelled by what they tell apart (a tone is seen in a window or
  not, a floor is above a limit or not), not computed.
- The wording and the figures of a finding, and the size of the step it suggests.
- `Advice` takes the verdicts of the axes as given: composing it with `StopEvidence` and
  `HoldEvidence` sample by sample multiplies their states and asks nothing new, because an axis
  hands over only the fields of that record.
- The JSON checks of a request to the backend, the registry of terms and the audit of a closed
  submission, which decide only with which code it is refused; `deletedFlights` of the answer.
- Not modelled at all: the iOS import shell (the same slot as Android's, next in the plan), the
  flight window (detection over floating-point samples), the community contract and model and
  configuration pairing (pure functions over text and records), legal pages, command line and tools.
