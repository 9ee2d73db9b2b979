-------------------------------- MODULE Viewer --------------------------------
(***************************************************************************)
(* The viewer page of RotorLens (ui/app.mjs): one thread, and the          *)
(* asynchronous functions that share it.  Opening a file, reading one of   *)
(* its flights, working out the advice and measuring vibration each give   *)
(* the thread up in the middle (for bytes, for a paint, for a module to    *)
(* arrive) and carry on over whatever the pilot has done meanwhile.        *)
(*                                                                         *)
(* A function suspended at an await is a record in "jobs"; an action of    *)
(* the specification is the stretch of code between two awaits.  What the  *)
(* flights measure is abstracted to which flight, cut where, was measured. *)
(* One axis and one field are on screen throughout; text is left out.      *)
(***************************************************************************)
EXTENDS Naturals, FiniteSets, SequencesExt

CONSTANTS Files,    \* what the pilot can open
          Flights,  \* the flights in each: a sequence of kinds
          Cost,     \* what a flight of each kind holds once its frames are read
          Budget,   \* DECODED_SESSION_CACHE_BYTES
          MaxTaps,  \* bound: what the pilot and the shell do
          None,     \* nothing there
          Working,  \* a panel saying its measurement is being worked out
          Failed    \* a panel saying its measurement could not be made

Kinds == {"flight",      \* two samples or more
          "empty",       \* a header and less than two samples
          "unreadable",  \* a header that cannot be parsed: nothing to read
          "faulty"}      \* decodeFrames() throws

ASSUME ViewerAssumption ==
    /\ Flights \in [Files -> Seq(Kinds)]
    /\ Cost \in [Kinds -> Nat]
    /\ Budget \in Nat
    /\ MaxTaps \in Nat

VARIABLES
    page,      \* the page's state; see Init
    jobs,      \* the functions suspended at an await
    imported,  \* recommendations.mjs has arrived, once and for all
    taps       \* how much of the bound is used

vars == <<page, jobs, imported, taps>>

\* A log object: one reading of a file, told apart by the token it was opened
\* under (opening a file again reads it into new objects).
Log(token, file) == [id |-> token, file |-> file]
Session(log, i) == [log |-> log, index |-> i]
KindOf(s) == Flights[s.log.file][s.index]

Cuts == {"detected", "dragged"}
Window(s, cut) == [session |-> s, cut |-> cut]
Screen(kind, s) == [kind |-> kind, session |-> s]

CurrentSession(p) == Session(p.result, p.sessionIndex)
HasFrames(p, s) == s \in p.frames

\* analysedSession(): the flight on screen cut to the window, None if its frames
\* are not read.
AnalysedSession(p) ==
    IF p.result # None /\ HasFrames(p, CurrentSession(p))
    THEN Window(CurrentSession(p), p.window.cut) ELSE None

-----------------------------------------------------------------------------
(* Taking things down.                                                     *)

ForgetCandidate(p) == [p EXCEPT !.candidate = None]
RetireAdvice(p) == ForgetCandidate([p EXCEPT !.advice = None])

ResetVibration(p) ==
    [p EXCEPT !.vibrationRun = @ + 1, !.vibration = None, !.shownFor = None]

\* takeDownAnalysis: the flight on screen has nothing to measure.
TakeDownAnalysis(p) ==
    ResetVibration(RetireAdvice(
        [p EXCEPT !.recommendationRun = @ + 1, !.window = None, !.records = None,
                  !.tune = None]))

\* closeCurrentLog: the vibration panel is hidden with the others, not emptied.
CloseCurrentLog(p) ==
    [p EXCEPT !.result = None, !.recent = <<>>, !.records = None, !.tune = None]

\* retireCurrentFile, and what its callers leave on screen.
RetireCurrentFile(p, screen) ==
    CloseCurrentLog(RetireAdvice(
        [p EXCEPT !.fileOpenRun = @ + 1, !.recommendationRun = @ + 1, !.screen = screen]))

-----------------------------------------------------------------------------
(* Frames in memory.                                                       *)

InFlight(J, i) == \E j \in J : j.op \in {"advise", "vibrate"} /\ j.index = i

\* Faulty variant: an analysis does not keep the flight it reads.
EvictKeepsScreenOnly(p, J, keep) ==
    [p EXCEPT !.recent = SelectSeq(@, LAMBDA i : i = keep),
              !.frames = {s \in @ : s.log = p.result => s.index = keep}]

\* What evictDecodedSessions makes of one flight more: the one on screen and what an
\* analysis reads stay, and so does what still fits.
Sees(a, i, stays, cost) ==
    IF stays THEN [a EXCEPT !.kept = Append(@, i)]
    ELSE IF a.held + cost <= Budget
         THEN [a EXCEPT !.kept = Append(@, i), !.held = @ + cost]
    ELSE [a EXCEPT !.freed = @ \cup {i}]

\* The walk over the flights held, most recent first.
Walk(p, J, keep) ==
    LET seen[n \in 0..Len(p.recent)] ==
            IF n = 0 THEN [kept |-> <<>>, held |-> 0, freed |-> {}]
            ELSE LET i == p.recent[n]
                 IN Sees(seen[n - 1], i, i = keep \/ InFlight(J, i),
                         Cost[KindOf(Session(p.result, i))])
    IN seen[Len(p.recent)]

\* evictDecodedSessions(keep), J the jobs that count as analyses in flight.
Evict(p, J, keep) ==
    LET all == Walk(p, J, keep)
    IN [p EXCEPT !.recent = all.kept,
                 !.frames = {s \in @ : ~(s.log = p.result /\ s.index \in all.freed)}]

\* A list without one flight.
Without(list, i) ==
    LET rest[n \in 0..Len(list)] ==
            IF n = 0 THEN <<>>
            ELSE IF list[n] = i THEN rest[n - 1] ELSE Append(rest[n - 1], list[n])
    IN rest[Len(list)]

MoveToFront(p, i) == [p EXCEPT !.recent = <<i>> \o Without(@, i)]

-----------------------------------------------------------------------------
(* Showing a flight.  These take and return what the actions change: the   *)
(* page and the jobs.                                                      *)

To(p, J) == [page |-> p, jobs |-> J]

\* Faulty variant: the token is taken before the counter moves.
RunRecommendationsEarlyToken(p, J) ==
    To(ForgetCandidate([p EXCEPT !.recommendationRun = @ + 1, !.advice = Working]),
       J \cup {[op |-> "advise", token |-> p.recommendationRun, at |-> "paint",
                log |-> p.result, index |-> p.sessionIndex, scoped |-> None,
                full |-> HasFrames(p, CurrentSession(p))]})

\* runRecommendations up to its first await.
RunRecommendations(p, J) ==
    LET q == ForgetCandidate([p EXCEPT !.recommendationRun = @ + 1, !.advice = Working])
    IN To(q, J \cup {[op |-> "advise", token |-> q.recommendationRun, at |-> "paint",
                      log |-> p.result, index |-> p.sessionIndex, scoped |-> None,
                      full |-> HasFrames(p, CurrentSession(p))]})

\* applyFlightWindow: everything measured over the old window goes, the panels
\* are redrawn (and with them the view refitted) and the advice is worked out.
ApplyFlightWindow(p, J, cut) ==
    LET q == [p EXCEPT !.window = Window(CurrentSession(p), cut), !.records = None,
                       !.tune = None, !.view = "fitted"]
    IN RunRecommendations(ResetVibration(q), J)

\* renderSession, for the flight at p.sessionIndex.
RenderSession(p, J) ==
    LET s == CurrentSession(p)
    IN IF KindOf(s) \in {"unreadable", "empty"}
       THEN To([TakeDownAnalysis(p) EXCEPT !.screen = Screen("nothing", s)], J)
       ELSE ApplyFlightWindow([p EXCEPT !.screen = Screen("flight", s), !.tune = None],
                              J, "detected")

\* openSession(i) up to its await, or to its end for a flight still held.
OpenSession(p, J, i) ==
    LET q == [RetireAdvice([p EXCEPT !.sessionOpenRun = @ + 1,
                                     !.recommendationRun = @ + 1])
                EXCEPT !.sessionIndex = i, !.records = None]
    IN IF HasFrames(q, CurrentSession(q))
       THEN RenderSession(Evict(MoveToFront(q, i), J, i), J)
       ELSE To(Evict(q, J, i),
               J \cup {[op |-> "read", token |-> q.sessionOpenRun, log |-> q.result,
                        index |-> i]})

Become(to) == page' = to.page /\ jobs' = to.jobs

-----------------------------------------------------------------------------
(* The pilot and the shell.                                                *)

\* Promise reactions run before the next event: no tap and no paint comes
\* between a module's arrival and the code that waited for it.
Settled == ~(imported /\ \E j \in jobs : j.op = "advise" /\ j.at = "module")

Tap == Settled /\ taps < MaxTaps /\ taps' = taps + 1 /\ UNCHANGED imported

\* openFile up to its first await: a picked or dropped file, or one the shell
\* hands over.
OpenFile(f) ==
    /\ Tap
    /\ page' = RetireCurrentFile(page, Screen("reading", None))
    /\ jobs' = jobs \cup {[op |-> "open", token |-> page'.fileOpenRun, file |-> f,
                           at |-> "bytes"]}

\* importStarted for a new selection, and a failure the shell reports.
ImportStarted ==
    Tap /\ page' = RetireCurrentFile(page, Screen("preparing", None)) /\ UNCHANGED jobs
HostFileFailed ==
    Tap /\ page' = RetireCurrentFile(page, Screen("failed", None)) /\ UNCHANGED jobs

\* The session picker.
PickSession ==
    /\ Tap
    /\ page.result # None
    /\ \E i \in DOMAIN Flights[page.result.file] : Become(OpenSession(page, jobs, i))

\* The window's controls: both ends dragged or the whole log, and detection.  Their
\* panel is up while a flight is, also while another one is being read.
MoveWindow(cut) ==
    /\ Tap
    /\ page.screen.kind = "flight"
    /\ Become(ApplyFlightWindow(page, jobs, cut))

\* The Analyse button: ensureRecords, then the Tune evidence.
Analyse ==
    /\ Tap
    /\ page.screen.kind = "flight"
    /\ LET built == IF page.records # None THEN page.records ELSE AnalysedSession(page)
       IN page' = [page EXCEPT !.records = built, !.tune = built]
    /\ UNCHANGED jobs

\* The plot is zoomed or panned; drawing it retires a measurement of another
\* view (syncVibrationRange).
Pan(view) ==
    /\ Tap
    /\ page.screen.kind = "flight"
    /\ HasFrames(page, CurrentSession(page))  \* drawAxisPlot throws without
    /\ view # page.view
    /\ page' = IF page.shownFor \in {None, view} THEN [page EXCEPT !.view = view]
               ELSE [ResetVibration(page) EXCEPT !.view = view]
    /\ UNCHANGED jobs

\* runVibration up to its await.
MeasureVibration ==
    /\ Tap
    /\ page.screen.kind = "flight"
    /\ page' = [page EXCEPT !.vibrationRun = @ + 1, !.vibration = Working]
    /\ jobs' = jobs \cup {[op |-> "vibrate", token |-> page'.vibrationRun, log |-> page.result,
                           index |-> page.sessionIndex, view |-> page.view,
                           full |-> HasFrames(page, CurrentSession(page))]}

-----------------------------------------------------------------------------
(* The functions that wait.                                                *)

Over(j) == jobs \ {j}
Drop(j) == jobs' = Over(j) /\ UNCHANGED page
Goes(j, at) == jobs' = Over(j) \cup {[j EXCEPT !.at = at]}

OwnsScreen(j) == j.token = page.fileOpenRun

\* The awaits of openFile in order, each followed by the same question.
NextStop == [bytes |-> "decoding", decoding |-> "finding", finding |-> "settings"]

OpenProceeds(j) ==
    /\ Settled /\ UNCHANGED <<imported, taps>>
    /\ j.op = "open" /\ j.at # "settings"
    /\ IF OwnsScreen(j)
       THEN /\ Goes(j, NextStop[j.at])
            /\ page' = IF j.at = "decoding"
                       THEN [page EXCEPT !.sessionIndex = 1, !.records = None, !.recent = <<>>]
                       ELSE page
       ELSE Drop(j)

\* source.bytes() rejects: aborted by a newer open, or the file would not read.
BytesRefused(j) ==
    /\ Settled /\ UNCHANGED <<imported, taps>>
    /\ j.op = "open" /\ j.at = "bytes"
    /\ page' = IF OwnsScreen(j) THEN [page EXCEPT !.screen = Screen("failed", None)] ELSE page
    /\ jobs' = Over(j)

\* The last stretch of openFile: the log is up, and its first flight is asked for.
OpenLog(j) ==
    /\ Settled /\ UNCHANGED <<imported, taps>>
    /\ j.op = "open" /\ j.at = "settings"
    /\ IF ~OwnsScreen(j) THEN Drop(j)
       ELSE IF Flights[j.file] = <<>>
            THEN /\ page' = [CloseCurrentLog(page) EXCEPT !.screen = Screen("failed", None)]
                 /\ jobs' = Over(j)
       ELSE Become(OpenSession([page EXCEPT !.result = Log(j.token, j.file)], Over(j), 1))

\* Faulty variant: only the log is asked about, not the flight.
StillWantedByLog(j) == page.result = j.log

StillWanted(j) == j.token = page.sessionOpenRun /\ page.result = j.log

\* openSession after its await: decodeFrames() and the flight goes up, or the fault.
ReadFrames(j) ==
    /\ Settled /\ UNCHANGED <<imported, taps>>
    /\ j.op = "read"
    /\ LET s == Session(j.log, j.index)
       IN IF ~StillWanted(j) THEN Drop(j)
          ELSE IF KindOf(s) = "faulty"
               THEN Become(To([TakeDownAnalysis(page) EXCEPT !.screen = Screen("nothing", s)],
                              Over(j)))
          ELSE Become(RenderSession(MoveToFront([page EXCEPT !.frames = @ \cup {s}], j.index),
                                    Over(j)))

\* The "finally" of runRecommendations and runVibration.
AnalysisOver(p, j) ==
    To(Evict(p, Over(j), p.sessionIndex), Over(j))

\* Faulty variant: a run does not ask whether it was superseded.
IsLatestAlways(j) == TRUE

IsLatest(j) == j.token = page.recommendationRun

\* measureRecommendations after its paint: the session is taken, and the module
\* with the engine in it asked for.
TakeMaterial(j) ==
    /\ Settled /\ UNCHANGED <<imported, taps>>
    /\ j.op = "advise" /\ j.at = "paint"
    /\ IF IsLatest(j)
       THEN /\ jobs' = Over(j) \cup {[j EXCEPT !.at = "module", !.scoped = AnalysedSession(page)]}
            /\ UNCHANGED page
       ELSE Become(AnalysisOver(page, j))

ModuleArrives ==
    /\ ~imported /\ \E j \in jobs : j.op = "advise" /\ j.at = "module"
    /\ imported' = TRUE
    /\ UNCHANGED <<page, jobs, taps>>

\* The rest of measureRecommendations.  The records are kept whoever is asking;
\* the advice and the candidate (considerFlight, over the page as it is now) only
\* if no newer run has begun.
Advise(j) ==
    /\ imported /\ UNCHANGED <<imported, taps>>
    /\ j.op = "advise" /\ j.at = "module"
    /\ LET found == IF j.scoped = None THEN page ELSE [page EXCEPT !.records = j.scoped]
           painted == IF ~IsLatest(j) THEN found
                      ELSE IF j.scoped = None THEN [found EXCEPT !.advice = Failed]
                      ELSE [found EXCEPT !.advice = j.scoped,
                                         !.candidate = Window(CurrentSession(found),
                                                              found.window.cut)]
       IN Become(AnalysisOver(painted, j))

\* The module did not arrive: the panel says so, if it is still this run's.
AdviseFails(j) ==
    /\ ~imported /\ UNCHANGED <<imported, taps>>
    /\ j.op = "advise" /\ j.at = "module"
    /\ Become(AnalysisOver(IF IsLatest(j) THEN [page EXCEPT !.advice = Failed] ELSE page, j))

\* measureVibration after its paint.  The sweep itself does not yield.
Vibrate(j) ==
    /\ Settled /\ UNCHANGED <<imported, taps>>
    /\ j.op = "vibrate"
    /\ LET s == Session(j.log, j.index)
           painted == IF j.token # page.vibrationRun THEN page
                      ELSE IF ~HasFrames(page, s) THEN [page EXCEPT !.vibration = Failed]
                      ELSE [page EXCEPT !.vibration = [session |-> s, view |-> j.view],
                                        !.shownFor = j.view]
       IN Become(AnalysisOver(painted, j))

-----------------------------------------------------------------------------
Init ==
    /\ page = [result |-> None, sessionIndex |-> 1, recent |-> <<>>, frames |-> {},
               window |-> None, records |-> None, advice |-> None, candidate |-> None,
               tune |-> None, vibration |-> None, shownFor |-> None, view |-> "fitted",
               screen |-> Screen("blank", None), fileOpenRun |-> 0, sessionOpenRun |-> 0,
               recommendationRun |-> 0, vibrationRun |-> 0]
    /\ jobs = {}
    /\ imported = FALSE
    /\ taps = 0

Pilot ==
    \/ \E f \in Files : OpenFile(f)
    \/ ImportStarted \/ HostFileFailed
    \/ PickSession
    \/ \E cut \in Cuts : MoveWindow(cut)
    \/ Analyse
    \/ \E view \in {"fitted", "panned"} : Pan(view)
    \/ MeasureVibration

Thread ==
    \/ \E j \in jobs : \/ OpenProceeds(j) \/ BytesRefused(j) \/ OpenLog(j) \/ ReadFrames(j)
                       \/ TakeMaterial(j) \/ Advise(j) \/ AdviseFails(j) \/ Vibrate(j)
    \/ ModuleArrives

Next == Pilot \/ Thread

Spec == Init /\ [][Next]_vars

\* Bytes arrive or are refused, paints come (or the timer beside each does) and
\* the module loads or fails.  Taps are bounded, so every function ends.
FairSpec == Spec /\ WF_vars(Thread)

-----------------------------------------------------------------------------
(* Properties.                                                             *)

Logs == {Log(t, f) : t \in 1..MaxTaps, f \in Files}
Sessions == UNION {{Session(l, i) : i \in DOMAIN Flights[l.file]} : l \in Logs}
Windows == {Window(s, c) : s \in Sessions, c \in Cuts}

\* What stands for nothing, or for a text, is no log and no measurement.
ASSUME MarksAssumption ==
    /\ None \notin [id : Nat, file : Files]
    /\ {None, Working, Failed} \cap Windows = {}

\* What to change, and the flight offered for saving, are measured over the log,
\* the flight and the window the page is on: a run that ends late never leaves
\* advice about another helicopter (the recommendationRun checks of
\* measureRecommendations, and every place that bumps it).
AdviceIsForTheScreen ==
    /\ page.advice \in Windows =>
          /\ page.result # None
          /\ page.advice = page.window
          /\ page.window.session = CurrentSession(page)
          /\ page.screen = Screen("flight", CurrentSession(page))
    /\ page.candidate # None => page.candidate = page.advice

\* The flight painted is the one chosen last, in the log opened last, or the one
\* chosen is about to be read: an overtaken read or open never paints (the token
\* and log checks of openFile and openSession).
PaintedIsChosen ==
    page.screen.session # None =>
        /\ page.result # None
        /\ \/ page.screen.session = CurrentSession(page)
           \/ \E j \in jobs : j.op = "read" /\ StillWanted(j) /\ j.index = page.sessionIndex

\* While a file is being read, no flight of an earlier one is on screen and none
\* of its frames can be reached: the opens that were overtaken leave the screen
\* to the newest (state.fileOpenRun).
NewestOpenOwnsScreen ==
    /\ page.result # None => page.result.id = page.fileOpenRun
    /\ page.screen.kind = "reading" =>
          \E j \in jobs : (j.op = "open" /\ OwnsScreen(j)) \/ (j.op = "read" /\ StillWanted(j))

\* An analysis that began on a flight with its frames read finds them when it
\* goes on: eviction never empties a session in place under it (analysesInFlight).
AnalysedFlightIsHeld ==
    \A j \in jobs : (j.op \in {"advise", "vibrate"} /\ j.full) => HasFrames(page, Session(j.log, j.index))

\* What the flights of a log at some places hold when their frames are read.
CostOf(log, places) ==
    LET sum[n \in 0..Len(Flights[log.file])] ==
            IF n = 0 THEN 0
            ELSE sum[n - 1] + IF n \in places THEN Cost[KindOf(Session(log, n))] ELSE 0
    IN sum[Len(Flights[log.file])]

\* The flights of the open log whose frames are held for nobody.
Spare(p, J) ==
    {s.index : s \in {s \in p.frames : /\ s.log = p.result /\ s.index # p.sessionIndex
                                      /\ ~InFlight(J, s.index)}}

\* Memory: every flight of the open log whose frames are held is on the list that
\* eviction walks, and apart from the flight on screen and those being analysed
\* they fit in the budget (evictDecodedSessions).
HeldFramesFit ==
    page.result # None =>
        /\ \A s \in page.frames : s.log = page.result => s.index \in Range(page.recent)
        /\ CostOf(page.result, Spare(page, jobs)) <= Budget

\* The vibration panel shows a measurement of the flight on screen, never one of
\* a flight left behind (vibrationRun, resetVibration).
VibrationIsForTheFlight ==
    page.vibration \notin {None, Working, Failed} /\ page.screen.kind = "flight" =>
        page.vibration.session = page.screen.session

\* When the pilot stops tapping, the page comes to rest on what was asked for last:
\* the flight chosen, with its advice or the reason there is none, or the failure
\* of the newest open.
ComesToRest ==
    <>[](/\ page.screen.kind # "reading"
         /\ page.screen.session # None => page.screen.session = CurrentSession(page)
         /\ page.screen.kind = "flight" => page.advice \in {page.window, Failed}
         /\ page.vibration # Working \/ page.screen.kind # "flight")

\* "Records are built from the windowed session, so a moved window retires them"
\* (applyFlightWindow): the Tune evidence counts stops of the window on the page.
TuneIsForTheWindow == page.tune # None => page.tune = page.window

\* An open, a read or an analysis that was overtaken leaves nothing on the screen
\* (the four run counters of state).
NewestIsShown == PaintedIsChosen /\ NewestOpenOwnsScreen
MeasuredIsForTheScreen == AdviceIsForTheScreen /\ VibrationIsForTheFlight

\* Frames are held for whoever waits for them and, but for the budget, for nobody
\* else (evictDecodedSessions).
FramesAreAccounted == AnalysedFlightIsHeld /\ HeldFramesFit
=============================================================================
