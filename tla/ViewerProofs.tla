----------------------------- MODULE ViewerProofs -----------------------------
(***************************************************************************)
(* What is on the screen and what is in memory, for any files, flights,    *)
(* budget and number of taps: whatever was overtaken while it waited       *)
(* paints nothing, and frames are held for whoever waits for them.         *)
(***************************************************************************)
EXTENDS Viewer, WellFoundedInduction, SequenceTheorems, TLAPS

Fields == {"result", "sessionIndex", "recent", "frames", "window", "records", "advice",
           "candidate", "tune", "vibration", "shownFor", "view", "screen", "fileOpenRun",
           "sessionOpenRun", "recommendationRun", "vibrationRun"}

\* The state of a page, whatever its fields hold but for the four counters.
IsPage(p) ==
    /\ DOMAIN p = Fields
    /\ p.fileOpenRun \in Nat /\ p.sessionOpenRun \in Nat
    /\ p.recommendationRun \in Nat /\ p.vibrationRun \in Nat

IsOpen(j) ==
    j.op = "open" /\ j = [op |-> "open", token |-> j.token, file |-> j.file, at |-> j.at]
IsRead(j) ==
    j.op = "read" /\ j = [op |-> "read", token |-> j.token, log |-> j.log, index |-> j.index]
IsAdvise(j) ==
    j.op = "advise" /\ DOMAIN j = {"op", "token", "at", "log", "index", "scoped", "full"}
IsVibrate(j) ==
    j.op = "vibrate" /\ j = [op |-> "vibrate", token |-> j.token, log |-> j.log,
                             index |-> j.index, view |-> j.view, full |-> j.full]

\* A function that waits holds a token its counter has given out.
IsJob(p, j) ==
    \/ IsOpen(j) /\ j.token \in 1..p.fileOpenRun /\ j.file \in Files
    \/ IsRead(j) /\ j.token \in 1..p.sessionOpenRun /\ j.log # None
    \/ IsAdvise(j) /\ j.token \in 1..p.recommendationRun
    \/ IsVibrate(j) /\ j.token \in 1..p.vibrationRun

\* A read that will go up.
Wanted(p, j) == j.op = "read" /\ j.token = p.sessionOpenRun /\ p.result = j.log

\* An open that still owns the screen.
Owner(p, j) == j.op = "open" /\ j.token = p.fileOpenRun

\* The open log is the newest open's; an open that still owns the screen has taken
\* the one before it down, and is the only one that does.
OpenInv(p, J) ==
    /\ p.result # None => p.result.id = p.fileOpenRun
    /\ \A j \in J : Owner(p, j) => p.result = None
    /\ \A j, k \in J : Owner(p, j) /\ Owner(p, k) => j = k

\* Only the flight chosen last can still go up, and its frames are not there yet:
\* so a flight whose frames are there is the one painted.
ReadInv(p, J) ==
    \A j \in J : Wanted(p, j) => /\ j.index = p.sessionIndex
                                 /\ Session(j.log, j.index) \notin p.frames

IsScreen(s) == s = Screen(s.kind, s.session)

ScreenInv(p, J) ==
    /\ IsScreen(p.screen)
    /\ (p.screen.kind = "flight" \/ p.screen.session # None) =>
           /\ p.result # None
           /\ p.screen.session = CurrentSession(p) \/ \E j \in J : Wanted(p, j)
    /\ p.screen.kind = "reading" =>
           \E j \in J : (j.op = "open" /\ j.token = p.fileOpenRun) \/ Wanted(p, j)

\* The newest run of the advice.
Latest(p, j) == j.op = "advise" /\ j.token = p.recommendationRun

\* There is one at most, over the window on the page, and what it took is the flight
\* on the screen; what it left is that too.
AdviceInv(p, J) ==
    /\ \A j, k \in J : Latest(p, j) /\ Latest(p, k) => j = k
    /\ \A j \in J : Latest(p, j) =>
           /\ p.result # None
           /\ p.candidate = None
           /\ p.window = Window(CurrentSession(p), p.window.cut)
           /\ p.screen = Screen("flight", p.screen.session)
           /\ j.scoped # None => j.scoped = p.window /\ p.screen.session = CurrentSession(p)
    /\ p.advice \in Windows =>
           /\ p.result # None
           /\ p.advice = p.window
           /\ p.window = Window(CurrentSession(p), p.window.cut)
           /\ p.screen = Screen("flight", CurrentSession(p))
    /\ p.candidate # None => p.candidate = p.advice

\* The newest measurement finds frames only if it is of the flight on the screen.
VibrationInv(p, J) ==
    /\ \A j \in J :
           (/\ j.op = "vibrate" /\ j.token = p.vibrationRun /\ p.screen.kind = "flight"
            /\ Session(j.log, j.index) \in p.frames) =>
               Session(j.log, j.index) = p.screen.session
    /\ (p.vibration \notin {None, Working, Failed} /\ p.screen.kind = "flight") =>
           p.vibration.session = p.screen.session

JobInv(p, J) == IsPage(p) /\ \A j \in J : IsJob(p, j)

PageInv(p, J) ==
    /\ JobInv(p, J) /\ OpenInv(p, J) /\ ReadInv(p, J) /\ ScreenInv(p, J)
    /\ AdviceInv(p, J) /\ VibrationInv(p, J)

ViewerInv == PageInv(page, jobs)

-----------------------------------------------------------------------------
(* What the page's functions change, field by field.                       *)

SameScreen(p, q) ==
    /\ q.result = p.result /\ q.sessionIndex = p.sessionIndex /\ q.screen = p.screen
    /\ q.fileOpenRun = p.fileOpenRun /\ q.sessionOpenRun = p.sessionOpenRun
SameAdvice(p, q) ==
    /\ q.window = p.window /\ q.advice = p.advice /\ q.candidate = p.candidate
    /\ q.recommendationRun = p.recommendationRun
SameVibration(p, q) == q.vibration = p.vibration /\ q.vibrationRun = p.vibrationRun

\* Giving frames up changes nothing else that is shown.
LEMMA EvictFrees ==
  ASSUME NEW p, IsPage(p), NEW J, NEW keep
  PROVE  /\ IsPage(Evict(p, J, keep)) /\ Evict(p, J, keep).frames \subseteq p.frames
         /\ SameScreen(p, Evict(p, J, keep)) /\ SameAdvice(p, Evict(p, J, keep))
         /\ SameVibration(p, Evict(p, J, keep))
  BY DEF IsPage, Fields, Evict, SameScreen, SameAdvice, SameVibration

LEMMA MoveToFrontMoves ==
  ASSUME NEW p, IsPage(p), NEW i
  PROVE  /\ IsPage(MoveToFront(p, i)) /\ MoveToFront(p, i).frames = p.frames
         /\ SameScreen(p, MoveToFront(p, i)) /\ SameAdvice(p, MoveToFront(p, i))
         /\ SameVibration(p, MoveToFront(p, i))
  BY DEF IsPage, Fields, MoveToFront, SameScreen, SameAdvice, SameVibration

\* A page with a run of the advice under way: its number is new, and it has
\* taken nothing yet.
Advising(p, J, r) ==
    /\ IsPage(r.page)
    /\ r.page.recommendationRun = p.recommendationRun + 1
    /\ r.page.advice = Working /\ r.page.candidate = None
    /\ \E j : /\ IsAdvise(j) /\ j.token = r.page.recommendationRun /\ j.scoped = None
             /\ r.jobs = J \cup {j}

LEMMA RunRecommendationsBegins ==
  ASSUME NEW p, IsPage(p), NEW J
  PROVE  LET r == RunRecommendations(p, J)
         IN /\ Advising(p, J, r) /\ SameScreen(p, r.page) /\ SameVibration(p, r.page)
            /\ r.page.frames = p.frames /\ r.page.window = p.window
  <1> DEFINE q == ForgetCandidate([p EXCEPT !.recommendationRun = @ + 1, !.advice = Working])
             j == [op |-> "advise", token |-> q.recommendationRun, at |-> "paint",
                   log |-> p.result, index |-> p.sessionIndex, scoped |-> None,
                   full |-> HasFrames(p, CurrentSession(p))]
  <1>1. /\ IsPage(q) /\ SameScreen(p, q) /\ SameVibration(p, q)
        /\ q.frames = p.frames /\ q.window = p.window
        /\ q.recommendationRun = p.recommendationRun + 1
        /\ q.advice = Working /\ q.candidate = None
      BY DEF IsPage, Fields, ForgetCandidate, SameScreen, SameVibration
  <1>2. IsAdvise(j) /\ j.token = q.recommendationRun /\ j.scoped = None
      BY DEF IsAdvise
  <1>3. RunRecommendations(p, J) = [page |-> q, jobs |-> J \cup {j}]
      BY DEF RunRecommendations, To
  <1> HIDE DEF q, j
  <1> QED
      BY <1>1, <1>2, <1>3 DEF Advising

\* What ResetVibration does to the fields the properties read.
LEMMA ResetVibrationEmpties ==
  ASSUME NEW p, IsPage(p)
  PROVE  LET q == ResetVibration(p)
         IN /\ IsPage(q) /\ SameScreen(p, q) /\ SameAdvice(p, q) /\ q.frames = p.frames
            /\ q.vibration = None /\ q.vibrationRun = p.vibrationRun + 1
  BY DEF IsPage, Fields, ResetVibration, SameScreen, SameAdvice

LEMMA ApplyFlightWindowBegins ==
  ASSUME NEW p, IsPage(p), NEW J, NEW cut
  PROVE  LET r == ApplyFlightWindow(p, J, cut)
         IN /\ Advising(p, J, r) /\ SameScreen(p, r.page) /\ r.page.frames = p.frames
            /\ r.page.window = Window(CurrentSession(p), cut)
            /\ r.page.vibration = None /\ r.page.vibrationRun = p.vibrationRun + 1
  <1> DEFINE q == [p EXCEPT !.window = Window(CurrentSession(p), cut), !.records = None,
                            !.tune = None, !.view = "fitted"]
             v == ResetVibration(q)
  <1>1. /\ IsPage(q) /\ SameScreen(p, q) /\ SameVibration(p, q) /\ q.frames = p.frames
        /\ q.window = Window(CurrentSession(p), cut)
        /\ q.recommendationRun = p.recommendationRun
      BY DEF IsPage, Fields, SameScreen, SameVibration
  <1>2. ApplyFlightWindow(p, J, cut) = RunRecommendations(v, J)
      BY DEF ApplyFlightWindow
  <1> HIDE DEF q
  <1>3. /\ IsPage(v) /\ SameScreen(q, v) /\ SameAdvice(q, v) /\ v.frames = q.frames
        /\ v.vibration = None /\ v.vibrationRun = q.vibrationRun + 1
      BY <1>1, ResetVibrationEmpties
  <1> HIDE DEF v
  <1>4. LET r == RunRecommendations(v, J)
        IN /\ Advising(v, J, r) /\ SameScreen(v, r.page) /\ SameVibration(v, r.page)
           /\ r.page.frames = v.frames /\ r.page.window = v.window
      BY <1>3, RunRecommendationsBegins
  <1> QED
      BY <1>1, <1>2, <1>3, <1>4 DEF Advising, SameScreen, SameAdvice, SameVibration

\* renderSession: the flight chosen is up, with its advice begun, or there is
\* nothing of it to show; either way every run before this one is overtaken.
Rendered(p, J, r) ==
    /\ IsPage(r.page)
    /\ r.page.result = p.result /\ r.page.sessionIndex = p.sessionIndex
    /\ r.page.fileOpenRun = p.fileOpenRun /\ r.page.sessionOpenRun = p.sessionOpenRun
    /\ r.page.frames = p.frames
    /\ r.page.vibration = None /\ r.page.vibrationRun = p.vibrationRun + 1
    /\ r.page.recommendationRun = p.recommendationRun + 1 /\ r.page.candidate = None
    /\ \/ /\ r.page.screen = Screen("nothing", CurrentSession(p))
          /\ r.page.advice = None /\ r.jobs = J
       \/ /\ r.page.screen = Screen("flight", CurrentSession(p))
          /\ r.page.window = Window(CurrentSession(p), "detected")
          /\ Advising(p, J, r)

\* takeDownAnalysis, with what its callers put on the screen.
LEMMA NothingToMeasure ==
  ASSUME NEW p, IsPage(p), NEW J, NEW s, s = CurrentSession(p)
  PROVE  Rendered(p, J, To([TakeDownAnalysis(p) EXCEPT !.screen = Screen("nothing", s)], J))
  <1> DEFINE a == RetireAdvice([p EXCEPT !.recommendationRun = @ + 1, !.window = None,
                                         !.records = None, !.tune = None])
             t == TakeDownAnalysis(p)
             q == [t EXCEPT !.screen = Screen("nothing", s)]
  <1>1. /\ IsPage(a) /\ SameScreen(p, a) /\ SameVibration(p, a) /\ a.frames = p.frames
        /\ a.recommendationRun = p.recommendationRun + 1
        /\ a.advice = None /\ a.candidate = None
      BY DEF IsPage, Fields, RetireAdvice, ForgetCandidate, SameScreen, SameVibration
  <1>2. t = ResetVibration(a)
      BY DEF TakeDownAnalysis
  <1> HIDE DEF a, t
  <1>3. /\ IsPage(t) /\ SameScreen(a, t) /\ SameAdvice(a, t) /\ t.frames = a.frames
        /\ t.vibration = None /\ t.vibrationRun = a.vibrationRun + 1
      BY <1>1, <1>2, ResetVibrationEmpties
  <1>4. /\ IsPage(q) /\ q.screen = Screen("nothing", s) /\ SameAdvice(t, q)
        /\ SameVibration(t, q) /\ q.frames = t.frames
        /\ q.result = t.result /\ q.sessionIndex = t.sessionIndex
        /\ q.fileOpenRun = t.fileOpenRun /\ q.sessionOpenRun = t.sessionOpenRun
      BY <1>3 DEF IsPage, SameAdvice, SameVibration
  <1> HIDE DEF q
  <1> QED
      BY <1>1, <1>3, <1>4 DEF Rendered, To, SameScreen, SameAdvice, SameVibration, q, t

LEMMA RenderSessionRenders ==
  ASSUME NEW p, IsPage(p), NEW J
  PROVE  Rendered(p, J, RenderSession(p, J))
  <1> DEFINE s == CurrentSession(p)
             q == [p EXCEPT !.screen = Screen("flight", s), !.tune = None]
  <1>1. CASE KindOf(s) \in {"unreadable", "empty"}
    <2>1. RenderSession(p, J) = To([TakeDownAnalysis(p) EXCEPT !.screen = Screen("nothing", s)], J)
        BY <1>1 DEF RenderSession
    <2> QED
        BY <2>1, NothingToMeasure
  <1>2. CASE KindOf(s) \notin {"unreadable", "empty"}
    <2>1. RenderSession(p, J) = ApplyFlightWindow(q, J, "detected")
        BY <1>2 DEF RenderSession
    <2>2. /\ IsPage(q) /\ SameAdvice(p, q) /\ SameVibration(p, q) /\ q.frames = p.frames
          /\ q.screen = Screen("flight", s)
          /\ q.result = p.result /\ q.sessionIndex = p.sessionIndex
          /\ q.fileOpenRun = p.fileOpenRun /\ q.sessionOpenRun = p.sessionOpenRun
        BY DEF IsPage, Fields, SameAdvice, SameVibration
    <2>3. CurrentSession(q) = s
        BY <2>2 DEF CurrentSession
    <2> HIDE DEF q
    <2> QED
        BY <2>1, <2>2, <2>3, ApplyFlightWindowBegins
        DEF Rendered, Advising, SameScreen, SameAdvice, SameVibration
  <1> QED
      BY <1>1, <1>2

-----------------------------------------------------------------------------
(* What keeps the invariant.                                               *)

\* Nothing and the two texts are no measurement.
LEMMA MarksAreMarks == None \notin Windows /\ Working \notin Windows /\ Failed \notin Windows
  BY MarksAssumption

\* Counters only grow, and so the tokens given out stay given out.
LEMMA TokensStayIssued ==
  ASSUME NEW p, NEW J, JobInv(p, J), NEW q, IsPage(q),
         p.fileOpenRun <= q.fileOpenRun, p.sessionOpenRun <= q.sessionOpenRun,
         p.recommendationRun <= q.recommendationRun, p.vibrationRun <= q.vibrationRun
  PROVE  JobInv(q, J)
  <1> SUFFICES ASSUME NEW j \in J PROVE IsJob(q, j)
      BY DEF JobInv
  <1>1. IsJob(p, j)
      BY DEF JobInv
  <1> QED
      BY <1>1 DEF IsJob, JobInv, IsPage

\* The tokens of each kind of function, and what else is known of it.
LEMMA TokensAreIssued ==
  ASSUME NEW p, NEW J, JobInv(p, J), NEW j \in J
  PROVE  /\ j.op \in {"open", "read", "advise", "vibrate"}
         /\ j.op = "open" => IsOpen(j) /\ j.token \in 1..p.fileOpenRun /\ j.file \in Files
         /\ j.op = "read" => IsRead(j) /\ j.token \in 1..p.sessionOpenRun /\ j.log # None
         /\ j.op = "advise" => IsAdvise(j) /\ j.token \in 1..p.recommendationRun
         /\ j.op = "vibrate" => IsVibrate(j) /\ j.token \in 1..p.vibrationRun
  <1>1. IsJob(p, j)
      BY DEF JobInv
  <1> QED
      BY <1>1 DEF IsJob, IsOpen, IsRead, IsAdvise, IsVibrate

\* A run of the advice just begun has the newest number, and every older one an
\* older.
LEMMA NewestRunIsNew ==
  ASSUME NEW p, NEW J, JobInv(p, J), NEW r, Advising(p, J, r)
  PROVE  /\ \A j \in r.jobs : Latest(r.page, j) => j.scoped = None
         /\ \A j, k \in r.jobs : Latest(r.page, j) /\ Latest(r.page, k) => j = k
  <1>1. PICK k : /\ IsAdvise(k) /\ k.token = r.page.recommendationRun /\ k.scoped = None
                 /\ r.jobs = J \cup {k}
      BY DEF Advising
  <1>2. ASSUME NEW j \in J, j.op = "advise" PROVE j.token # r.page.recommendationRun
    <2>1. j.token \in 1..p.recommendationRun /\ p.recommendationRun \in Nat
        BY <1>2, TokensAreIssued DEF JobInv, IsPage
    <2> QED
        BY <2>1 DEF Advising
  <1> QED
      BY <1>1, <1>2 DEF Latest

\* The jobs of a page whose advice has just been begun.
LEMMA AdvisingIsAJob ==
  ASSUME NEW p, NEW J, JobInv(p, J), NEW r, Advising(p, J, r),
         r.page.fileOpenRun = p.fileOpenRun, r.page.sessionOpenRun = p.sessionOpenRun,
         p.vibrationRun <= r.page.vibrationRun
  PROVE  /\ JobInv(r.page, r.jobs)
         /\ J \subseteq r.jobs /\ \A j \in r.jobs : j.op # "advise" => j \in J
  <1>1. PICK k : /\ IsAdvise(k) /\ k.token = r.page.recommendationRun
                 /\ r.jobs = J \cup {k}
      BY DEF Advising
  <1>2. JobInv(r.page, J)
      BY TokensStayIssued DEF Advising, JobInv, IsPage
  <1>3. IsJob(r.page, k)
      BY <1>1 DEF Advising, IsJob, IsPage, JobInv
  <1> QED
      BY <1>1, <1>2, <1>3 DEF JobInv, IsAdvise

\* A flight is up, or nothing is there to show of it.
LEMMA RenderedIsNewest ==
  ASSUME NEW p, NEW J, JobInv(p, J), OpenInv(p, J), p.result # None,
         \A j \in J : ~Wanted(p, j), NEW r, Rendered(p, J, r)
  PROVE  PageInv(r.page, r.jobs)
  <1> DEFINE q == r.page
  <1>1. /\ q.result = p.result /\ q.sessionIndex = p.sessionIndex
        /\ q.fileOpenRun = p.fileOpenRun /\ q.sessionOpenRun = p.sessionOpenRun
        /\ q.vibration = None /\ q.vibrationRun = p.vibrationRun + 1
        /\ q.recommendationRun = p.recommendationRun + 1 /\ q.candidate = None
        /\ CurrentSession(q) = CurrentSession(p) /\ IsPage(q)
      BY DEF Rendered, CurrentSession
  <1>2. /\ p.recommendationRun \in Nat /\ p.vibrationRun \in Nat
      BY DEF JobInv, IsPage
  <1>3. JobInv(q, J)
    <2>1. /\ p.fileOpenRun <= q.fileOpenRun /\ p.sessionOpenRun <= q.sessionOpenRun
          /\ p.recommendationRun <= q.recommendationRun /\ p.vibrationRun <= q.vibrationRun
        BY <1>1, <1>2 DEF IsPage
    <2> QED
        BY <1>1, <2>1, TokensStayIssued
  <1>4. JobInv(q, r.jobs) /\ \A j \in r.jobs : j.op # "advise" => j \in J
    <2>1. CASE r.jobs = J
        BY <1>3, <2>1
    <2>2. CASE Advising(p, J, r)
        BY <1>1, <1>2, <2>2, AdvisingIsAJob
    <2> QED
        BY <2>1, <2>2 DEF Rendered
  <1>5. OpenInv(q, r.jobs)
      BY <1>1, <1>4 DEF OpenInv, Owner
  <1>6. \A j \in r.jobs : ~Wanted(q, j)
      BY <1>1, <1>4 DEF Wanted
  <1>7. /\ q.screen.session = CurrentSession(q) /\ q.screen.kind \in {"flight", "nothing"}
        /\ IsScreen(q.screen)
      BY <1>1 DEF Rendered, Screen, IsScreen
  <1>8. ReadInv(q, r.jobs) /\ ScreenInv(q, r.jobs)
      BY <1>1, <1>6, <1>7 DEF ReadInv, ScreenInv
  <1>9. VibrationInv(q, r.jobs)
    <2>1. ASSUME NEW j \in r.jobs, j.op = "vibrate" PROVE j.token # q.vibrationRun
        BY <1>1, <1>2, <1>4, <2>1, TokensAreIssued
    <2> QED
        BY <1>1, <2>1 DEF VibrationInv
  <1>10. AdviceInv(q, r.jobs)
    <2>1. CASE q.advice = None /\ r.jobs = J
      <3>1. ASSUME NEW j \in r.jobs, j.op = "advise" PROVE j.token # q.recommendationRun
          BY <1>1, <1>2, <2>1, <3>1, TokensAreIssued
      <3> QED
          BY <1>1, <2>1, <3>1, MarksAreMarks DEF AdviceInv, Latest
    <2>2. CASE /\ q.screen = Screen("flight", CurrentSession(p))
               /\ q.window = Window(CurrentSession(p), "detected") /\ Advising(p, J, r)
      <3>1. /\ \A j \in r.jobs : Latest(q, j) => j.scoped = None
            /\ \A j, k \in r.jobs : Latest(q, j) /\ Latest(q, k) => j = k
          BY <2>2, NewestRunIsNew
      <3>2. q.window = Window(CurrentSession(q), q.window.cut)
          BY <1>1, <2>2 DEF Window
      <3>3. q.screen = Screen("flight", q.screen.session)
          BY <1>1, <1>7, <2>2
      <3>4. q.advice \notin Windows
          BY <2>2, MarksAreMarks DEF Advising
      <3> QED
          BY <1>1, <3>1, <3>2, <3>3, <3>4 DEF AdviceInv
    <2> QED
        BY <2>1, <2>2 DEF Rendered
  <1> QED
      BY <1>4, <1>5, <1>8, <1>9, <1>10 DEF PageInv

\* openSession for any flight of the open log.
LEMMA OpenSessionIsNewest ==
  ASSUME NEW p, NEW J, JobInv(p, J), OpenInv(p, J), VibrationInv(p, J), p.result # None,
         IsScreen(p.screen), NEW i
  PROVE  PageInv(OpenSession(p, J, i).page, OpenSession(p, J, i).jobs)
  <1> DEFINE q == [RetireAdvice([p EXCEPT !.sessionOpenRun = @ + 1,
                                          !.recommendationRun = @ + 1])
                     EXCEPT !.sessionIndex = i, !.records = None]
             m == MoveToFront(q, i)
  <1>1. /\ IsPage(q) /\ SameVibration(p, q) /\ q.frames = p.frames /\ q.screen = p.screen
        /\ q.result = p.result /\ q.sessionIndex = i /\ q.fileOpenRun = p.fileOpenRun
        /\ q.sessionOpenRun = p.sessionOpenRun + 1
        /\ q.recommendationRun = p.recommendationRun + 1
        /\ q.advice = None /\ q.candidate = None
      BY DEF JobInv, IsPage, Fields, RetireAdvice, ForgetCandidate, SameVibration
  <1>2. JobInv(q, J)
    <2>1. /\ p.fileOpenRun <= q.fileOpenRun /\ p.sessionOpenRun <= q.sessionOpenRun
          /\ p.recommendationRun <= q.recommendationRun /\ p.vibrationRun <= q.vibrationRun
        BY <1>1 DEF JobInv, IsPage, SameVibration
    <2> QED
        BY <1>1, <2>1, TokensStayIssued
  <1>3. \A j \in J : ~Wanted(q, j)
    <2> SUFFICES ASSUME NEW j \in J, j.op = "read", j.token = q.sessionOpenRun PROVE FALSE
        BY DEF Wanted
    <2> QED
        BY <1>1, TokensAreIssued DEF JobInv, IsPage
  <1>4. CASE HasFrames(q, CurrentSession(q))
    <2>1. OpenSession(p, J, i) = RenderSession(Evict(m, J, i), J)
        BY <1>4 DEF OpenSession
    <2> DEFINE e == Evict(m, J, i)
    <2>2. IsPage(m) /\ SameScreen(q, m) /\ SameAdvice(q, m) /\ SameVibration(q, m)
        BY <1>1, MoveToFrontMoves
    <2> HIDE DEF q, m
    <2>3. IsPage(e) /\ SameScreen(m, e) /\ SameAdvice(m, e) /\ SameVibration(m, e)
        BY <2>2, EvictFrees
    <2> HIDE DEF e
    <2>4. JobInv(e, J)
      <3>1. /\ q.fileOpenRun <= e.fileOpenRun /\ q.sessionOpenRun <= e.sessionOpenRun
            /\ q.recommendationRun <= e.recommendationRun /\ q.vibrationRun <= e.vibrationRun
          BY <1>1, <2>2, <2>3 DEF IsPage, SameScreen, SameAdvice, SameVibration
      <3> QED
          BY <1>2, <2>3, <3>1, TokensStayIssued
    <2>5. OpenInv(e, J) /\ e.result # None /\ \A j \in J : ~Wanted(e, j)
        BY <1>1, <1>3, <2>2, <2>3 DEF OpenInv, Owner, Wanted, SameScreen
    <2>6. Rendered(e, J, RenderSession(e, J))
        BY <2>3, RenderSessionRenders
    <2>7. PageInv(RenderSession(e, J).page, RenderSession(e, J).jobs)
        BY <2>4, <2>5, <2>6, RenderedIsNewest
    <2> QED
        BY <2>1, <2>7 DEF e
  <1>5. CASE ~HasFrames(q, CurrentSession(q))
    <2> DEFINE e == Evict(q, J, i)
               k == [op |-> "read", token |-> q.sessionOpenRun, log |-> q.result, index |-> i]
               K == J \cup {k}
    <2>1. OpenSession(p, J, i).page = e /\ OpenSession(p, J, i).jobs = K
        BY <1>5 DEF OpenSession, To
    <2>2. Session(q.result, i) \notin q.frames
        BY <1>1, <1>5 DEF HasFrames, CurrentSession
    <2>3. k.op = "read" /\ k.token = q.sessionOpenRun /\ k.log = q.result /\ k.index = i /\ IsRead(k)
        BY DEF IsRead
    <2> HIDE DEF q, k
    <2>4. /\ IsPage(e) /\ SameScreen(q, e) /\ SameAdvice(q, e) /\ SameVibration(q, e)
          /\ e.frames \subseteq q.frames
        BY <1>1, EvictFrees
    <2> HIDE DEF e
    <2>5. JobInv(e, K)
      <3>1. /\ q.fileOpenRun <= e.fileOpenRun /\ q.sessionOpenRun <= e.sessionOpenRun
            /\ q.recommendationRun <= e.recommendationRun /\ q.vibrationRun <= e.vibrationRun
          BY <1>1, <2>4 DEF IsPage, SameScreen, SameAdvice, SameVibration
      <3>2. JobInv(e, J)
          BY <1>2, <2>4, <3>1, TokensStayIssued
      <3>3. IsJob(e, k)
          BY <1>1, <2>3, <2>4 DEF IsJob, IsPage, SameScreen, JobInv
      <3> QED
          BY <3>2, <3>3 DEF JobInv
    <2>6. Wanted(e, k) /\ k \in K
        BY <2>3, <2>4 DEF Wanted, SameScreen
    <2>7. OpenInv(e, K)
        BY <1>1, <2>3, <2>4 DEF OpenInv, Owner, SameScreen
    <2>8. ReadInv(e, K)
        BY <1>1, <1>3, <2>2, <2>3, <2>4 DEF ReadInv, Wanted, SameScreen
    <2>9. ScreenInv(e, K)
        BY <1>1, <2>4, <2>6 DEF ScreenInv, SameScreen
    <2>10. VibrationInv(e, K)
        BY <1>1, <2>3, <2>4 DEF VibrationInv, SameScreen, SameVibration
    <2>11. AdviceInv(e, K)
      <3>1. ASSUME NEW j \in K, j.op = "advise" PROVE j.token # e.recommendationRun
        <4>1. j \in J
            BY <2>3, <3>1
        <4>2. j.token \in 1..p.recommendationRun
            BY <3>1, <4>1, TokensAreIssued
        <4> QED
            BY <1>1, <2>4, <4>2 DEF JobInv, IsPage, SameAdvice
      <3> QED
          BY <1>1, <2>4, <3>1, MarksAreMarks DEF AdviceInv, Latest, SameAdvice
    <2> QED
        BY <2>1, <2>5, <2>7, <2>8, <2>9, <2>10, <2>11 DEF PageInv
  <1> QED
      BY <1>4, <1>5

-----------------------------------------------------------------------------
(* Action by action: the pilot and the shell.                              *)

\* retireCurrentFile: nothing of the old file is left to go on with.
LEMMA RetiringRetires ==
  ASSUME NEW p, NEW J, PageInv(p, J), NEW kind \in {"reading", "preparing", "failed"}
  PROVE  LET q == RetireCurrentFile(p, Screen(kind, None))
         IN /\ q.fileOpenRun = p.fileOpenRun + 1
            /\ JobInv(q, J) /\ OpenInv(q, J) /\ ReadInv(q, J) /\ AdviceInv(q, J)
            /\ VibrationInv(q, J)
            /\ q.result = None /\ q.screen.kind = kind /\ q.screen.session = None
            /\ IsScreen(q.screen) /\ \A j \in J : ~Owner(q, j)
  <1> DEFINE q == RetireCurrentFile(p, Screen(kind, None))
  <1>1. /\ IsPage(q) /\ SameVibration(p, q)
        /\ q.result = None /\ q.screen = Screen(kind, None)
        /\ q.fileOpenRun = p.fileOpenRun + 1 /\ q.sessionOpenRun = p.sessionOpenRun
        /\ q.recommendationRun = p.recommendationRun + 1
        /\ q.advice = None /\ q.candidate = None
    <2> DEFINE a == RetireAdvice([p EXCEPT !.fileOpenRun = @ + 1, !.recommendationRun = @ + 1,
                                           !.screen = Screen(kind, None)])
    <2>1. /\ IsPage(a) /\ SameVibration(p, a) /\ a.screen = Screen(kind, None)
          /\ a.fileOpenRun = p.fileOpenRun + 1 /\ a.sessionOpenRun = p.sessionOpenRun
          /\ a.recommendationRun = p.recommendationRun + 1
          /\ a.advice = None /\ a.candidate = None
        BY DEF PageInv, JobInv, IsPage, Fields, RetireAdvice, ForgetCandidate, SameVibration
    <2>2. q = CloseCurrentLog(a)
        BY DEF RetireCurrentFile
    <2> HIDE DEF a, q
    <2>3. /\ IsPage(q) /\ SameVibration(a, q) /\ SameAdvice(a, q) /\ q.result = None
          /\ q.screen = a.screen /\ q.fileOpenRun = a.fileOpenRun
          /\ q.sessionOpenRun = a.sessionOpenRun
        BY <2>1, <2>2 DEF IsPage, Fields, CloseCurrentLog, SameVibration, SameAdvice
    <2> QED
        BY <2>1, <2>3 DEF SameVibration, SameAdvice
  <1> HIDE DEF q
  <1>2. JobInv(p, J) /\ IsPage(p)
      BY DEF PageInv, JobInv
  <1>3. JobInv(q, J)
    <2>1. /\ p.fileOpenRun <= q.fileOpenRun /\ p.sessionOpenRun <= q.sessionOpenRun
          /\ p.recommendationRun <= q.recommendationRun /\ p.vibrationRun <= q.vibrationRun
        BY <1>1, <1>2 DEF IsPage, SameVibration
    <2> QED
        BY <1>1, <1>2, <2>1, TokensStayIssued
  <1>4. q.screen.kind = kind /\ q.screen.session = None /\ IsScreen(q.screen)
      BY <1>1 DEF Screen, IsScreen
  <1>5. OpenInv(q, J) /\ \A j \in J : ~Owner(q, j)
    <2>1. ASSUME NEW j \in J, j.op = "open" PROVE j.token # q.fileOpenRun
      <3>1. j.token \in 1..p.fileOpenRun
          BY <1>2, <2>1, TokensAreIssued
      <3> QED
          BY <1>1, <1>2, <3>1 DEF IsPage
    <2> QED
        BY <1>1, <2>1 DEF OpenInv, Owner
  <1>6. ReadInv(q, J)
    <2>1. \A j \in J : ~Wanted(q, j)
        BY <1>1, <1>2, TokensAreIssued DEF Wanted
    <2> QED
        BY <2>1 DEF ReadInv
  <1>7. AdviceInv(q, J)
    <2>1. ASSUME NEW j \in J, j.op = "advise" PROVE j.token # q.recommendationRun
      <3>1. j.token \in 1..p.recommendationRun
          BY <1>2, <2>1, TokensAreIssued
      <3> QED
          BY <1>1, <1>2, <3>1 DEF IsPage
    <2> QED
        BY <1>1, <2>1, MarksAreMarks DEF AdviceInv, Latest
  <1>8. VibrationInv(q, J)
      BY <1>4 DEF VibrationInv
  <1> QED
      BY <1>1, <1>3, <1>4, <1>5, <1>6, <1>7, <1>8 DEF q

LEMMA OpenFileKeeps ==
  ASSUME ViewerInv, NEW f \in Files, OpenFile(f)
  PROVE  ViewerInv'
  <1> DEFINE k == [op |-> "open", token |-> page'.fileOpenRun, file |-> f, at |-> "bytes"]
  <1>1. page' = RetireCurrentFile(page, Screen("reading", None)) /\ jobs' = jobs \cup {k}
      BY DEF OpenFile
  <1>2. /\ page'.fileOpenRun = page.fileOpenRun + 1
        /\ JobInv(page', jobs) /\ OpenInv(page', jobs) /\ ReadInv(page', jobs)
        /\ AdviceInv(page', jobs) /\ VibrationInv(page', jobs)
        /\ page'.result = None /\ page'.screen.kind = "reading" /\ page'.screen.session = None
        /\ IsScreen(page'.screen) /\ \A j \in jobs : ~Owner(page', j)
      BY <1>1, RetiringRetires DEF ViewerInv
  <1>3. k.op = "open" /\ IsOpen(k) /\ k.token = page'.fileOpenRun /\ k.file = f
      BY DEF IsOpen
  <1>4. page.fileOpenRun \in Nat
      BY DEF ViewerInv, PageInv, JobInv, IsPage
  <1> HIDE DEF k
  <1>5. JobInv(page', jobs')
      BY <1>1, <1>2, <1>3, <1>4 DEF JobInv, IsJob
  <1>6. OpenInv(page', jobs') /\ ReadInv(page', jobs') /\ ScreenInv(page', jobs')
      BY <1>1, <1>2, <1>3 DEF OpenInv, Owner, ReadInv, ScreenInv, Wanted
  <1>7. AdviceInv(page', jobs') /\ VibrationInv(page', jobs')
      BY <1>1, <1>2, <1>3 DEF AdviceInv, Latest, VibrationInv
  <1> QED
      BY <1>5, <1>6, <1>7 DEF ViewerInv, PageInv

LEMMA ShellKeeps ==
  ASSUME ViewerInv, ImportStarted \/ HostFileFailed
  PROVE  ViewerInv'
  <1>1. PICK kind \in {"preparing", "failed"} :
            page' = RetireCurrentFile(page, Screen(kind, None)) /\ jobs' = jobs
      BY DEF ImportStarted, HostFileFailed
  <1>2. /\ JobInv(page', jobs) /\ OpenInv(page', jobs) /\ ReadInv(page', jobs)
        /\ AdviceInv(page', jobs) /\ VibrationInv(page', jobs)
        /\ page'.result = None /\ page'.screen.kind = kind /\ page'.screen.session = None
        /\ IsScreen(page'.screen)
      BY <1>1, RetiringRetires DEF ViewerInv
  <1>3. ScreenInv(page', jobs)
      BY <1>2 DEF ScreenInv
  <1> QED
      BY <1>1, <1>2, <1>3 DEF ViewerInv, PageInv

\* What is done to the fields no property reads, and giving frames up, keeps the
\* invariant.
LEMMA SameToTheEye ==
  ASSUME NEW p, NEW J, PageInv(p, J), NEW q, IsPage(q), SameScreen(p, q), SameAdvice(p, q),
         SameVibration(p, q), q.frames \subseteq p.frames
  PROVE  PageInv(q, J)
  <1>1. CurrentSession(q) = CurrentSession(p) /\ \A k : Wanted(q, k) <=> Wanted(p, k)
      BY DEF CurrentSession, Wanted, SameScreen
  <1>2. JobInv(q, J) /\ OpenInv(q, J)
      BY DEF PageInv, JobInv, IsJob, OpenInv, Owner, SameScreen, SameAdvice, SameVibration
  <1>3. ReadInv(q, J) /\ ScreenInv(q, J)
      BY <1>1 DEF PageInv, ReadInv, ScreenInv, SameScreen
  <1>4. AdviceInv(q, J) /\ VibrationInv(q, J)
      BY <1>1 DEF PageInv, AdviceInv, Latest, VibrationInv, SameScreen, SameAdvice, SameVibration
  <1> QED
      BY <1>2, <1>3, <1>4 DEF PageInv

\* The vibration panel is emptied, and the measurement under way overtaken.
LEMMA EmptiedPanel ==
  ASSUME NEW p, NEW J, PageInv(p, J), NEW q, IsPage(q), SameScreen(p, q), SameAdvice(p, q),
         q.frames = p.frames, q.vibrationRun = p.vibrationRun + 1, q.vibration \in {None, Working}
  PROVE  PageInv(q, J)
  <1>1. CurrentSession(q) = CurrentSession(p) /\ \A k : Wanted(q, k) <=> Wanted(p, k)
      BY DEF CurrentSession, Wanted, SameScreen
  <1>2. JobInv(q, J)
    <2>1. /\ p.fileOpenRun <= q.fileOpenRun /\ p.sessionOpenRun <= q.sessionOpenRun
          /\ p.recommendationRun <= q.recommendationRun /\ p.vibrationRun <= q.vibrationRun
        BY DEF PageInv, JobInv, IsPage, SameScreen, SameAdvice
    <2> QED
        BY <2>1, TokensStayIssued DEF PageInv
  <1>3. OpenInv(q, J) /\ ReadInv(q, J) /\ ScreenInv(q, J)
      BY <1>1 DEF PageInv, OpenInv, Owner, ReadInv, ScreenInv, SameScreen
  <1>4. AdviceInv(q, J)
      BY <1>1 DEF PageInv, AdviceInv, Latest, SameScreen, SameAdvice
  <1>5. VibrationInv(q, J)
    <2>1. ASSUME NEW j \in J, j.op = "vibrate" PROVE j.token # q.vibrationRun
      <3>1. j.token \in 1..p.vibrationRun /\ p.vibrationRun \in Nat
          BY <2>1, TokensAreIssued DEF PageInv, JobInv, IsPage
      <3> QED
          BY <3>1
    <2> QED
        BY <2>1 DEF VibrationInv
  <1> QED
      BY <1>2, <1>3, <1>4, <1>5 DEF PageInv

LEMMA PickSessionKeeps ==
  ASSUME ViewerInv, PickSession
  PROVE  ViewerInv'
  <1>1. PICK i : page' = OpenSession(page, jobs, i).page /\ jobs' = OpenSession(page, jobs, i).jobs
      BY DEF PickSession, Become
  <1>2. JobInv(page, jobs) /\ OpenInv(page, jobs) /\ VibrationInv(page, jobs)
        /\ page.result # None /\ IsScreen(page.screen)
      BY DEF ViewerInv, PageInv, ScreenInv, PickSession
  <1> QED
      BY <1>1, <1>2, OpenSessionIsNewest DEF ViewerInv

LEMMA MoveWindowKeeps ==
  ASSUME ViewerInv, NEW cut, MoveWindow(cut)
  PROVE  ViewerInv'
  <1> DEFINE r == ApplyFlightWindow(page, jobs, cut)
  <1>1. page' = r.page /\ jobs' = r.jobs /\ page.screen.kind = "flight"
      BY DEF MoveWindow, Become
  <1>2. IsPage(page) /\ JobInv(page, jobs)
      BY DEF ViewerInv, PageInv, JobInv
  <1>3. /\ Advising(page, jobs, r) /\ SameScreen(page, r.page) /\ r.page.frames = page.frames
        /\ r.page.window = Window(CurrentSession(page), cut)
        /\ r.page.vibration = None /\ r.page.vibrationRun = page.vibrationRun + 1
      BY <1>2, ApplyFlightWindowBegins
  <1> HIDE DEF r
  <1>4. /\ IsPage(r.page) /\ r.page.recommendationRun = page.recommendationRun + 1
        /\ r.page.advice = Working /\ r.page.candidate = None
      BY <1>3 DEF Advising
  <1>5. CurrentSession(page') = CurrentSession(page) /\ \A k : Wanted(page', k) <=> Wanted(page, k)
      BY <1>1, <1>3 DEF CurrentSession, Wanted, SameScreen
  <1>6. /\ JobInv(r.page, r.jobs) /\ jobs \subseteq r.jobs
        /\ \A j \in r.jobs : j.op # "advise" => j \in jobs
      BY <1>2, <1>3, AdvisingIsAJob DEF SameScreen, IsPage
  <1>7. OpenInv(page', jobs') /\ ReadInv(page', jobs') /\ ScreenInv(page', jobs')
    <2>1. OpenInv(page, jobs) /\ ReadInv(page, jobs) /\ ScreenInv(page, jobs)
        BY DEF ViewerInv, PageInv
    <2>2. \A j \in jobs' : Wanted(page', j) => j \in jobs /\ Wanted(page, j)
        BY <1>1, <1>5, <1>6 DEF Wanted
    <2>3. ReadInv(page', jobs')
        BY <1>1, <1>3, <2>1, <2>2 DEF ReadInv, SameScreen
    <2> QED
        BY <1>1, <1>3, <1>5, <1>6, <2>1, <2>3 DEF OpenInv, Owner, ScreenInv, SameScreen
  <1>8. AdviceInv(page', jobs')
    <2>1. page.result # None
        BY <1>1 DEF ViewerInv, PageInv, ScreenInv
    <2>2. page.screen = Screen("flight", page.screen.session)
        BY <1>1 DEF ViewerInv, PageInv, ScreenInv, IsScreen
    <2>3. /\ \A j \in r.jobs : Latest(r.page, j) => j.scoped = None
          /\ \A j, k \in r.jobs : Latest(r.page, j) /\ Latest(r.page, k) => j = k
        BY <1>2, <1>3, NewestRunIsNew
    <2>4. page'.window = Window(CurrentSession(page'), page'.window.cut)
        BY <1>1, <1>3, <1>5 DEF Window
    <2>5. page'.result # None /\ page'.screen = Screen("flight", page'.screen.session)
        BY <1>1, <1>3, <2>1, <2>2 DEF SameScreen
    <2> QED
        BY <1>1, <1>4, <2>3, <2>4, <2>5, MarksAreMarks DEF AdviceInv
  <1>9. VibrationInv(page', jobs')
    <2>1. ASSUME NEW j \in jobs', j.op = "vibrate" PROVE j.token # page'.vibrationRun
      <3>1. j \in jobs
          BY <1>1, <1>6, <2>1
      <3>2. j.token \in 1..page.vibrationRun
          BY <1>2, <2>1, <3>1, TokensAreIssued
      <3> QED
          BY <1>1, <1>2, <1>3, <3>2 DEF IsPage
    <2> QED
        BY <1>1, <1>3, <2>1 DEF VibrationInv
  <1> QED
      BY <1>1, <1>6, <1>7, <1>8, <1>9 DEF ViewerInv, PageInv

LEMMA AnalyseKeeps ==
  ASSUME ViewerInv, Analyse
  PROVE  ViewerInv'
  <1>1. IsPage(page)
      BY DEF ViewerInv, PageInv, JobInv
  <1>2. /\ IsPage(page') /\ SameScreen(page, page') /\ SameAdvice(page, page')
        /\ SameVibration(page, page') /\ page'.frames = page.frames /\ jobs' = jobs
      BY <1>1 DEF Analyse, IsPage, Fields, SameScreen, SameAdvice, SameVibration
  <1> QED
      BY <1>2, SameToTheEye DEF ViewerInv

LEMMA PanKeeps ==
  ASSUME ViewerInv, NEW view, Pan(view)
  PROVE  ViewerInv'
  <1>1. IsPage(page) /\ PageInv(page, jobs)
      BY DEF ViewerInv, PageInv, JobInv
  <1>2. CASE page' = [page EXCEPT !.view = view]
    <2>1. /\ IsPage(page') /\ SameScreen(page, page') /\ SameAdvice(page, page')
          /\ SameVibration(page, page') /\ page'.frames = page.frames /\ jobs' = jobs
        BY <1>1, <1>2 DEF Pan, IsPage, Fields, SameScreen, SameAdvice, SameVibration
    <2> QED
        BY <1>1, <2>1, SameToTheEye DEF ViewerInv
  <1>3. CASE page' = [ResetVibration(page) EXCEPT !.view = view]
    <2> DEFINE v == ResetVibration(page)
    <2>1. /\ IsPage(v) /\ SameScreen(page, v) /\ SameAdvice(page, v) /\ v.frames = page.frames
          /\ v.vibration = None /\ v.vibrationRun = page.vibrationRun + 1
        BY <1>1, ResetVibrationEmpties
    <2>2. page' = [v EXCEPT !.view = view]
        BY <1>3
    <2> HIDE DEF v
    <2>3. /\ IsPage(page') /\ SameScreen(v, page') /\ SameAdvice(v, page')
          /\ SameVibration(v, page') /\ page'.frames = v.frames
        BY <2>1, <2>2 DEF IsPage, Fields, SameScreen, SameAdvice, SameVibration
    <2>4. /\ SameScreen(page, page') /\ SameAdvice(page, page') /\ page'.frames = page.frames
          /\ page'.vibration = None /\ page'.vibrationRun = page.vibrationRun + 1 /\ jobs' = jobs
        BY <2>1, <2>3 DEF Pan, SameScreen, SameAdvice, SameVibration
    <2> QED
        BY <1>1, <2>3, <2>4, EmptiedPanel DEF ViewerInv
  <1> QED
      BY <1>2, <1>3 DEF Pan

\* A flight whose frames are there is the one painted.
LEMMA PaintedIfRead ==
  ASSUME NEW p, NEW J, PageInv(p, J), p.screen.kind = "flight", CurrentSession(p) \in p.frames
  PROVE  p.result # None /\ p.screen.session = CurrentSession(p)
  <1>1. p.result # None /\ (p.screen.session = CurrentSession(p) \/ \E j \in J : Wanted(p, j))
      BY DEF PageInv, ScreenInv
  <1>2. ASSUME NEW j \in J, Wanted(p, j) PROVE FALSE
    <2>1. j.log = p.result /\ j.index = p.sessionIndex /\ Session(j.log, j.index) \notin p.frames
        BY <1>2 DEF PageInv, ReadInv, Wanted
    <2> QED
        BY <2>1 DEF CurrentSession
  <1> QED
      BY <1>1, <1>2

LEMMA MeasureVibrationKeeps ==
  ASSUME ViewerInv, MeasureVibration
  PROVE  ViewerInv'
  <1> DEFINE k == [op |-> "vibrate", token |-> page'.vibrationRun, log |-> page.result,
                   index |-> page.sessionIndex, view |-> page.view,
                   full |-> HasFrames(page, CurrentSession(page))]
  <1>1. /\ page' = [page EXCEPT !.vibrationRun = @ + 1, !.vibration = Working]
        /\ jobs' = jobs \cup {k} /\ page.screen.kind = "flight"
      BY DEF MeasureVibration
  <1>2. IsPage(page) /\ PageInv(page, jobs)
      BY DEF ViewerInv, PageInv, JobInv
  <1>3. /\ IsPage(page') /\ SameScreen(page, page') /\ SameAdvice(page, page')
        /\ page'.frames = page.frames /\ page'.vibrationRun = page.vibrationRun + 1
        /\ page'.vibration = Working
      BY <1>1, <1>2 DEF IsPage, Fields, SameScreen, SameAdvice
  <1>4. PageInv(page', jobs)
      BY <1>2, <1>3, EmptiedPanel
  <1>5. /\ k.op = "vibrate" /\ IsVibrate(k) /\ k.token = page'.vibrationRun
        /\ k.log = page.result /\ k.index = page.sessionIndex
      BY DEF IsVibrate
  <1> HIDE DEF k
  <1>6. JobInv(page', jobs')
    <2>1. IsJob(page', k)
        BY <1>2, <1>3, <1>5 DEF IsJob, IsPage
    <2> QED
        BY <1>1, <1>4, <2>1 DEF PageInv, JobInv
  <1>7. OpenInv(page', jobs') /\ ReadInv(page', jobs') /\ ScreenInv(page', jobs')
        /\ AdviceInv(page', jobs')
      BY <1>1, <1>4, <1>5 DEF PageInv, OpenInv, Owner, ReadInv, ScreenInv, AdviceInv, Latest, Wanted
  <1>8. VibrationInv(page', jobs')
    <2>1. Session(k.log, k.index) = CurrentSession(page)
        BY <1>5 DEF CurrentSession
    <2>2. Session(k.log, k.index) \in page.frames => Session(k.log, k.index) = page.screen.session
        BY <1>1, <1>2, <2>1, PaintedIfRead
    <2> QED
        BY <1>1, <1>3, <1>4, <2>2 DEF PageInv, VibrationInv, SameScreen
  <1> QED
      BY <1>6, <1>7, <1>8 DEF ViewerInv, PageInv

-----------------------------------------------------------------------------
(* Action by action: the functions that wait.                              *)

\* A function that was overtaken ends: an open that does not own the screen, a
\* read that is not wanted.
LEMMA DroppingKeeps ==
  ASSUME NEW p, NEW J, PageInv(p, J), NEW j, ~Wanted(p, j),
         j.op = "open" => j.token # p.fileOpenRun
  PROVE  PageInv(p, J \ {j})
  <1>1. JobInv(p, J \ {j}) /\ OpenInv(p, J \ {j}) /\ ReadInv(p, J \ {j})
      BY DEF PageInv, JobInv, OpenInv, Owner, ReadInv
  <1>2. ScreenInv(p, J \ {j})
      BY DEF PageInv, ScreenInv
  <1>3. AdviceInv(p, J \ {j}) /\ VibrationInv(p, J \ {j})
      BY DEF PageInv, AdviceInv, Latest, VibrationInv
  <1> QED
      BY <1>1, <1>2, <1>3 DEF PageInv

\* The end of a run of the advice or of a measurement: its frames may be given up.
LEMMA RunIsOver ==
  ASSUME ViewerInv, NEW j, j.op \in {"advise", "vibrate"},
         NEW p, PageInv(p, Over(j)), Become(AnalysisOver(p, j))
  PROVE  ViewerInv'
  <1>1. page' = Evict(p, jobs', p.sessionIndex) /\ jobs' = Over(j)
      BY DEF Become, AnalysisOver, To
  <1>2. /\ IsPage(page') /\ page'.frames \subseteq p.frames /\ SameScreen(p, page')
        /\ SameAdvice(p, page') /\ SameVibration(p, page')
      BY <1>1, EvictFrees DEF PageInv, JobInv
  <1> QED
      BY <1>1, <1>2, SameToTheEye DEF ViewerInv

\* While an open owns the screen no log is open, and nothing of one is left.
LEMMA OwnerHasNoLog ==
  ASSUME NEW p, NEW J, PageInv(p, J), NEW j \in J, j.op = "open", j.token = p.fileOpenRun
  PROVE  /\ p.result = None /\ p.screen.kind # "flight" /\ p.screen.session = None
         /\ p.advice \notin Windows
         /\ \A k \in J : k.op = "advise" => k.token # p.recommendationRun
         /\ \A k \in J : ~Wanted(p, k)
  <1>1. p.result = None
      BY DEF PageInv, OpenInv, Owner
  <1>2. \A k \in J : ~Wanted(p, k)
      BY <1>1, TokensAreIssued DEF PageInv, Wanted
  <1> QED
      BY <1>1, <1>2 DEF PageInv, ScreenInv, AdviceInv, Latest

LEMMA OpenProceedsKeeps ==
  ASSUME ViewerInv, NEW j \in jobs, OpenProceeds(j)
  PROVE  ViewerInv'
  <1>1. PageInv(page, jobs) /\ IsPage(page) /\ IsOpen(j) /\ j.op = "open"
      BY TokensAreIssued DEF ViewerInv, PageInv, JobInv, OpenProceeds
  <1>2. CASE ~OwnsScreen(j)
    <2>1. jobs' = jobs \ {j} /\ page' = page /\ j.token # page.fileOpenRun /\ ~Wanted(page, j)
        BY <1>1, <1>2 DEF OpenProceeds, Drop, Over, OwnsScreen, Wanted
    <2> QED
        BY <1>1, <2>1, DroppingKeeps DEF ViewerInv
  <1>3. CASE OwnsScreen(j)
    <2> DEFINE k == [j EXCEPT !.at = NextStop[j.at]]
    <2>1. /\ jobs' = (jobs \ {j}) \cup {k} /\ j.token = page.fileOpenRun
          /\ \/ page' = page
             \/ page' = [page EXCEPT !.sessionIndex = 1, !.records = None, !.recent = <<>>]
        BY <1>3 DEF OpenProceeds, Goes, Over, OwnsScreen
    <2>2. /\ k.op = "open" /\ k.token = j.token /\ k.file = j.file /\ IsOpen(k)
        BY <1>1 DEF IsOpen
    <2> HIDE DEF k
    <2>3. /\ IsPage(page') /\ SameAdvice(page, page') /\ SameVibration(page, page')
          /\ page'.frames = page.frames /\ page'.result = page.result /\ page'.screen = page.screen
          /\ page'.fileOpenRun = page.fileOpenRun /\ page'.sessionOpenRun = page.sessionOpenRun
        BY <1>1, <2>1 DEF IsPage, Fields, SameAdvice, SameVibration
    <2>4. /\ page.result = None /\ page.screen.kind # "flight" /\ page.screen.session = None
          /\ page.advice \notin Windows
          /\ \A i \in jobs : i.op = "advise" => i.token # page.recommendationRun
          /\ \A i \in jobs : ~Wanted(page, i)
        BY <1>1, <2>1, OwnerHasNoLog
    <2>5. JobInv(page', jobs')
      <3>1. IsJob(page, j)
          BY <1>1 DEF PageInv, JobInv
      <3>2. IsJob(page, k)
          BY <1>1, <2>2, <3>1 DEF IsJob, IsOpen, IsRead, IsAdvise, IsVibrate
      <3>3. \A i \in jobs' : IsJob(page, i)
          BY <1>1, <2>1, <3>2 DEF PageInv, JobInv
      <3> QED
          BY <2>3, <3>3 DEF JobInv, IsJob, SameAdvice, SameVibration
    <2>6. \A i \in jobs' : ~Wanted(page', i)
        BY <2>1, <2>2, <2>3, <2>4 DEF Wanted
    <2>7. OpenInv(page', jobs') /\ ReadInv(page', jobs')
      <3>1. \A i \in jobs : Owner(page, i) => i = j
          BY <1>1, <2>1 DEF PageInv, OpenInv, Owner
      <3>2. \A i \in jobs' : Owner(page', i) => i = k
          BY <2>1, <2>3, <3>1 DEF Owner
      <3> QED
          BY <2>3, <2>4, <2>6, <3>2 DEF OpenInv, ReadInv
    <2>8. ScreenInv(page', jobs')
        BY <1>1, <2>1, <2>2, <2>3, <2>4 DEF PageInv, ScreenInv
    <2>9. AdviceInv(page', jobs') /\ VibrationInv(page', jobs')
        BY <1>1, <2>1, <2>2, <2>3, <2>4 DEF PageInv, AdviceInv, Latest, VibrationInv, SameAdvice, SameVibration
    <2> QED
        BY <2>5, <2>7, <2>8, <2>9 DEF ViewerInv, PageInv
  <1> QED
      BY <1>2, <1>3

\* The newest open failed, and says so.
LEMMA FailedOpen ==
  ASSUME NEW p, NEW J, PageInv(p, J), NEW j \in J, j.op = "open", j.token = p.fileOpenRun,
         NEW q, IsPage(q), SameAdvice(p, q), SameVibration(p, q), q.result = None,
         q.screen = Screen("failed", None), q.frames = p.frames,
         q.fileOpenRun = p.fileOpenRun, q.sessionOpenRun = p.sessionOpenRun
  PROVE  PageInv(q, J \ {j})
  <1> DEFINE K == J \ {j}
  <1>1. /\ p.result = None /\ p.advice \notin Windows
        /\ \A k \in J : k.op = "advise" => k.token # p.recommendationRun
        /\ \A k \in J : ~Wanted(p, k)
      BY OwnerHasNoLog
  <1>2. q.screen.kind = "failed" /\ q.screen.session = None /\ IsScreen(q.screen)
      BY DEF Screen, IsScreen
  <1>3. JobInv(q, K)
      BY DEF PageInv, JobInv, IsJob, SameAdvice, SameVibration
  <1>4. OpenInv(q, K) /\ ReadInv(q, K)
      BY <1>1 DEF PageInv, OpenInv, Owner, ReadInv, Wanted
  <1>5. ScreenInv(q, K)
      BY <1>2 DEF ScreenInv
  <1>6. AdviceInv(q, K) /\ VibrationInv(q, K)
      BY <1>1, <1>2 DEF PageInv, AdviceInv, Latest, VibrationInv, SameAdvice, SameVibration
  <1> QED
      BY <1>3, <1>4, <1>5, <1>6 DEF PageInv

LEMMA BytesRefusedKeeps ==
  ASSUME ViewerInv, NEW j \in jobs, BytesRefused(j)
  PROVE  ViewerInv'
  <1>1. PageInv(page, jobs) /\ IsPage(page) /\ j.op = "open" /\ jobs' = jobs \ {j}
      BY DEF ViewerInv, PageInv, JobInv, BytesRefused, Over
  <1>2. CASE ~OwnsScreen(j)
    <2>1. page' = page /\ j.token # page.fileOpenRun /\ ~Wanted(page, j)
        BY <1>1, <1>2 DEF BytesRefused, OwnsScreen, Wanted
    <2> QED
        BY <1>1, <2>1, DroppingKeeps DEF ViewerInv
  <1>3. CASE OwnsScreen(j)
    <2>1. page' = [page EXCEPT !.screen = Screen("failed", None)] /\ j.token = page.fileOpenRun
        BY <1>3 DEF BytesRefused, OwnsScreen
    <2>2. /\ IsPage(page') /\ SameAdvice(page, page') /\ SameVibration(page, page')
          /\ page'.screen = Screen("failed", None) /\ page'.result = page.result
          /\ page'.frames = page.frames
          /\ page'.fileOpenRun = page.fileOpenRun /\ page'.sessionOpenRun = page.sessionOpenRun
        BY <1>1, <2>1 DEF IsPage, Fields, SameAdvice, SameVibration
    <2>3. page.result = None
        BY <1>1, <2>1, OwnerHasNoLog
    <2> QED
        BY <1>1, <2>1, <2>2, <2>3, FailedOpen DEF ViewerInv
  <1> QED
      BY <1>2, <1>3

LEMMA OpenLogKeeps ==
  ASSUME ViewerInv, NEW j \in jobs, OpenLog(j)
  PROVE  ViewerInv'
  <1>1. PageInv(page, jobs) /\ IsPage(page) /\ IsOpen(j) /\ j.op = "open" /\ j.file \in Files
        /\ j.token \in Nat
      BY TokensAreIssued DEF ViewerInv, PageInv, JobInv, IsPage, OpenLog
  <1>2. CASE ~OwnsScreen(j)
    <2>1. jobs' = jobs \ {j} /\ page' = page /\ j.token # page.fileOpenRun /\ ~Wanted(page, j)
        BY <1>1, <1>2 DEF OpenLog, Drop, Over, OwnsScreen, Wanted
    <2> QED
        BY <1>1, <2>1, DroppingKeeps DEF ViewerInv
  <1>3. CASE OwnsScreen(j) /\ Flights[j.file] = <<>>
    <2>1. /\ page' = [CloseCurrentLog(page) EXCEPT !.screen = Screen("failed", None)]
          /\ jobs' = jobs \ {j} /\ j.token = page.fileOpenRun
        BY <1>3 DEF OpenLog, OwnsScreen, Over
    <2>2. /\ IsPage(page') /\ SameAdvice(page, page') /\ SameVibration(page, page')
          /\ page'.screen = Screen("failed", None) /\ page'.result = None
          /\ page'.frames = page.frames
          /\ page'.fileOpenRun = page.fileOpenRun /\ page'.sessionOpenRun = page.sessionOpenRun
        BY <1>1, <2>1 DEF IsPage, Fields, CloseCurrentLog, SameAdvice, SameVibration
    <2> QED
        BY <1>1, <2>1, <2>2, FailedOpen DEF ViewerInv
  <1>4. CASE OwnsScreen(j) /\ Flights[j.file] # <<>>
    <2> DEFINE l == Log(j.token, j.file)
               q == [page EXCEPT !.result = l]
               K == jobs \ {j}
    <2>1. page' = OpenSession(q, K, 1).page /\ jobs' = OpenSession(q, K, 1).jobs
        BY <1>4 DEF OpenLog, Become, Over
    <2>2. l # None /\ l.id = page.fileOpenRun
      <3>1. l \in [id : Nat, file : Files]
          BY <1>1 DEF Log
      <3>2. l # None
          BY <3>1, MarksAssumption
      <3> QED
          BY <1>4, <3>2 DEF Log, OwnsScreen
    <2> HIDE DEF l
    <2>3. /\ IsPage(q) /\ SameVibration(page, q) /\ q.result = l /\ q.screen = page.screen
          /\ q.frames = page.frames /\ q.fileOpenRun = page.fileOpenRun
          /\ q.sessionOpenRun = page.sessionOpenRun
          /\ q.recommendationRun = page.recommendationRun
        BY <1>1 DEF IsPage, Fields, SameVibration
    <2> HIDE DEF q
    <2>4. JobInv(q, K) /\ IsScreen(q.screen)
        BY <1>1, <2>3 DEF PageInv, JobInv, IsJob, ScreenInv, SameVibration
    <2>5. OpenInv(q, K)
      <3>1. ASSUME NEW k \in K, k.op = "open", k.token = q.fileOpenRun PROVE q.result = None
        \* The log j is about is shown under the token of j: no other open has it.
        <4>1. k.token = j.token
            BY <1>4, <2>3, <3>1 DEF OwnsScreen
        <4> QED
            BY <1>1, <1>4, <3>1, <4>1 DEF PageInv, OpenInv, Owner, OwnsScreen
      <3> QED
          BY <2>2, <2>3, <3>1 DEF OpenInv, Owner
    <2>6. VibrationInv(q, K)
        BY <1>1, <2>3 DEF PageInv, VibrationInv, SameVibration
    <2> QED
        BY <2>1, <2>2, <2>3, <2>4, <2>5, <2>6, OpenSessionIsNewest DEF ViewerInv
  <1> QED
      BY <1>2, <1>3, <1>4

\* decodeFrames() is over for the flight that is still wanted: nobody else is
\* waited for.
LEMMA ReadFramesKeeps ==
  ASSUME ViewerInv, NEW j \in jobs, ReadFrames(j)
  PROVE  ViewerInv'
  <1> DEFINE s == Session(j.log, j.index)
             K == jobs \ {j}
  <1>1. PageInv(page, jobs) /\ IsPage(page) /\ IsRead(j) /\ j.op = "read"
      BY TokensAreIssued DEF ViewerInv, PageInv, JobInv, ReadFrames
  <1>2. StillWanted(j) <=> Wanted(page, j)
      BY <1>1 DEF StillWanted, Wanted
  <1>3. CASE ~Wanted(page, j)
    <2>1. jobs' = K /\ page' = page
        BY <1>2, <1>3 DEF ReadFrames, Drop, Over
    <2> QED
        BY <1>1, <1>3, <2>1, DroppingKeeps DEF ViewerInv
  <1>4. CASE Wanted(page, j)
    <2>1. j.log = page.result /\ j.index = page.sessionIndex /\ page.result # None
        BY <1>1, <1>4, TokensAreIssued DEF PageInv, ReadInv, Wanted
    <2>2. ASSUME NEW k \in K PROVE ~Wanted(page, k)
      <3> SUFFICES ASSUME Wanted(page, k) PROVE FALSE
          OBVIOUS
      <3>1. k.index = page.sessionIndex /\ k.log = page.result /\ k.token = page.sessionOpenRun
            /\ k.op = "read"
          BY <1>1 DEF PageInv, ReadInv, Wanted
      <3>2. IsRead(k)
          BY <1>1, <3>1, TokensAreIssued DEF PageInv
      <3> QED
          BY <1>1, <1>4, <2>1, <3>1, <3>2 DEF IsRead, Wanted
    <2>3. JobInv(page, K) /\ OpenInv(page, K)
        BY <1>1 DEF PageInv, JobInv, OpenInv, Owner
    <2>4. s = CurrentSession(page)
        BY <2>1 DEF CurrentSession
    <2>5. CASE KindOf(s) = "faulty"
      <3> DEFINE r == To([TakeDownAnalysis(page) EXCEPT !.screen = Screen("nothing", s)], K)
      <3>1. page' = r.page /\ jobs' = r.jobs
          BY <1>2, <1>4, <2>5 DEF ReadFrames, Become, Over
      <3>2. Rendered(page, K, r)
          BY <1>1, <2>4, NothingToMeasure
      <3> HIDE DEF r
      <3> QED
          BY <2>1, <2>2, <2>3, <3>1, <3>2, RenderedIsNewest DEF ViewerInv
    <2>6. CASE KindOf(s) # "faulty"
      <3> DEFINE q == [page EXCEPT !.frames = @ \cup {s}]
                 m == MoveToFront(q, j.index)
                 r == RenderSession(m, K)
      <3>1. page' = r.page /\ jobs' = r.jobs
          BY <1>2, <1>4, <2>6 DEF ReadFrames, Become, Over
      <3>2. IsPage(q) /\ SameScreen(page, q) /\ SameAdvice(page, q) /\ SameVibration(page, q)
          BY <1>1 DEF IsPage, Fields, SameScreen, SameAdvice, SameVibration
      <3> HIDE DEF q
      <3>3. IsPage(m) /\ SameScreen(q, m) /\ SameAdvice(q, m) /\ SameVibration(q, m)
          BY <3>2, MoveToFrontMoves
      <3> HIDE DEF m
      <3>4. Rendered(m, K, r)
          BY <3>3, RenderSessionRenders
      <3> HIDE DEF r
      <3>5. JobInv(m, K) /\ OpenInv(m, K) /\ m.result # None /\ \A k \in K : ~Wanted(m, k)
          BY <2>1, <2>2, <2>3, <3>2, <3>3
          DEF JobInv, IsJob, OpenInv, Owner, Wanted, SameScreen, SameAdvice, SameVibration
      <3> QED
          BY <3>1, <3>4, <3>5, RenderedIsNewest DEF ViewerInv
    <2> QED
        BY <2>5, <2>6
  <1> QED
      BY <1>3, <1>4

\* The session a run takes is the flight on the screen, cut to the window there.
LEMMA TakeMaterialKeeps ==
  ASSUME ViewerInv, NEW j \in jobs, TakeMaterial(j)
  PROVE  ViewerInv'
  <1> DEFINE a == AnalysedSession(page)
             k == [j EXCEPT !.at = "module", !.scoped = a]
             K == jobs \ {j}
  <1>1. PageInv(page, jobs) /\ IsPage(page) /\ j.op = "advise" /\ IsAdvise(j)
        /\ j.token \in 1..page.recommendationRun
      BY TokensAreIssued DEF ViewerInv, PageInv, JobInv, TakeMaterial
  <1>2. PageInv(page, K)
      BY <1>1, DroppingKeeps DEF Wanted
  <1>3. CASE ~IsLatest(j)
      BY <1>1, <1>2, <1>3, RunIsOver DEF TakeMaterial, Over
  <1>4. CASE IsLatest(j)
    <2>1. page' = page /\ jobs' = K \cup {k}
        BY <1>4 DEF TakeMaterial, Over
    <2>2. Latest(page, j)
        BY <1>1, <1>4 DEF Latest, IsLatest
    <2>3. /\ page.result # None /\ page.candidate = None
          /\ page.window = Window(CurrentSession(page), page.window.cut)
          /\ page.screen = Screen("flight", page.screen.session)
        BY <1>1, <2>2 DEF PageInv, AdviceInv
    <2>4. a # None => a = page.window /\ page.screen.session = CurrentSession(page)
      <3> SUFFICES ASSUME a # None
                   PROVE  a = page.window /\ page.screen.session = CurrentSession(page)
          OBVIOUS
      <3>1. a = Window(CurrentSession(page), page.window.cut) /\ CurrentSession(page) \in page.frames
          BY DEF AnalysedSession, HasFrames
      <3>2. page.screen.kind = "flight"
          BY <2>3 DEF Screen
      <3> QED
          BY <1>1, <2>3, <3>1, <3>2, PaintedIfRead
    <2> HIDE DEF a
    <2>5. k.op = "advise" /\ IsAdvise(k) /\ k.token = j.token /\ k.scoped = a
        BY <1>1 DEF IsAdvise
    <2> HIDE DEF k
    <2>6. JobInv(page, jobs')
        BY <1>1, <1>2, <2>1, <2>5 DEF PageInv, JobInv, IsJob
    <2>7. OpenInv(page, jobs') /\ ReadInv(page, jobs') /\ ScreenInv(page, jobs')
        BY <1>2, <2>1, <2>5 DEF PageInv, OpenInv, Owner, ReadInv, ScreenInv, Wanted
    <2>8. AdviceInv(page, jobs')
      <3>1. \A i \in jobs' : Latest(page, i) => i = k
          BY <1>1, <2>1, <2>2 DEF PageInv, AdviceInv
      <3> QED
          BY <1>2, <2>3, <2>4, <2>5, <3>1 DEF PageInv, AdviceInv
    <2>9. VibrationInv(page, jobs')
        BY <1>2, <2>1, <2>5 DEF PageInv, VibrationInv
    <2> QED
        BY <2>1, <2>6, <2>7, <2>8, <2>9 DEF ViewerInv, PageInv
  <1> QED
      BY <1>3, <1>4

\* What a run of the advice may leave on the page, once it is gone.
LEMMA AdviceGiven ==
  ASSUME NEW p, NEW J, PageInv(p, J), NEW j \in J, Latest(p, j),
         NEW q, IsPage(q), SameScreen(p, q), SameVibration(p, q), q.frames = p.frames,
         q.window = p.window, q.recommendationRun = p.recommendationRun,
         \/ q.advice = Failed /\ q.candidate = None
         \/ j.scoped # None /\ q.advice = j.scoped /\ q.candidate = p.window
  PROVE  PageInv(q, J \ {j})
  <1> DEFINE K == J \ {j}
  <1>1. CurrentSession(q) = CurrentSession(p) /\ \A k : Wanted(q, k) <=> Wanted(p, k)
      BY DEF CurrentSession, Wanted, SameScreen
  <1>2. PageInv(p, K)
      BY DroppingKeeps DEF Wanted, Latest
  <1>3. JobInv(q, K) /\ OpenInv(q, K)
      BY <1>2 DEF PageInv, JobInv, IsJob, OpenInv, Owner, SameScreen, SameVibration
  <1>4. ReadInv(q, K) /\ ScreenInv(q, K)
      BY <1>1, <1>2 DEF PageInv, ReadInv, ScreenInv, SameScreen
  <1>5. VibrationInv(q, K)
      BY <1>2 DEF PageInv, VibrationInv, SameScreen, SameVibration
  <1>6. AdviceInv(q, K)
    <2>1. \A k \in K : ~Latest(q, k)
        BY DEF PageInv, AdviceInv, Latest
    <2>2. /\ p.result # None
          /\ p.window = Window(CurrentSession(p), p.window.cut)
          /\ p.screen = Screen("flight", p.screen.session)
          /\ j.scoped # None => j.scoped = p.window /\ p.screen.session = CurrentSession(p)
        BY DEF PageInv, AdviceInv
    <2>3. Failed \notin Windows
        BY MarksAreMarks
    <2> QED
        BY <1>1, <2>1, <2>2, <2>3 DEF AdviceInv, SameScreen
  <1> QED
      BY <1>3, <1>4, <1>5, <1>6 DEF PageInv

LEMMA AdviseKeeps ==
  ASSUME ViewerInv, NEW j \in jobs, Advise(j)
  PROVE  ViewerInv'
  <1> DEFINE found == IF j.scoped = None THEN page ELSE [page EXCEPT !.records = j.scoped]
             painted == IF ~IsLatest(j) THEN found
                        ELSE IF j.scoped = None THEN [found EXCEPT !.advice = Failed]
                        ELSE [found EXCEPT !.advice = j.scoped,
                                           !.candidate = Window(CurrentSession(found),
                                                                found.window.cut)]
  <1>1. PageInv(page, jobs) /\ IsPage(page) /\ j.op = "advise"
      BY DEF ViewerInv, PageInv, JobInv, Advise
  <1>2. Become(AnalysisOver(painted, j))
      BY DEF Advise
  <1>3. /\ IsPage(found) /\ SameScreen(page, found) /\ SameAdvice(page, found)
        /\ SameVibration(page, found) /\ found.frames = page.frames
      BY <1>1 DEF IsPage, Fields, SameScreen, SameAdvice, SameVibration
  <1>4. CASE ~IsLatest(j)
    <2>1. PageInv(found, jobs)
        BY <1>1, <1>3, SameToTheEye
    <2>2. PageInv(found, Over(j))
        BY <1>1, <2>1, DroppingKeeps DEF Wanted, Over
    <2> QED
        BY <1>1, <1>2, <1>4, <2>2, RunIsOver
  <1>5. CASE IsLatest(j)
    <2>1. Latest(page, j)
        BY <1>1, <1>5 DEF Latest, IsLatest
    <2>2. page.candidate = None /\ page.window = Window(CurrentSession(page), page.window.cut)
        BY <1>1, <2>1 DEF PageInv, AdviceInv
    <2>3. Window(CurrentSession(found), found.window.cut) = page.window
        BY <1>3, <2>2 DEF SameScreen, SameAdvice, CurrentSession
    <2> HIDE DEF found
    <2>4. /\ IsPage(painted) /\ SameScreen(found, painted) /\ SameVibration(found, painted)
          /\ painted.frames = found.frames /\ painted.window = found.window
          /\ painted.recommendationRun = found.recommendationRun
          /\ \/ painted.advice = Failed /\ painted.candidate = found.candidate
             \/ j.scoped # None /\ painted.advice = j.scoped /\ painted.candidate = page.window
        BY <1>3, <1>5, <2>3 DEF IsPage, Fields, SameScreen, SameVibration
    <2> HIDE DEF painted
    <2>5. PageInv(painted, Over(j))
        BY <1>1, <1>3, <2>1, <2>2, <2>4, AdviceGiven
        DEF Over, SameScreen, SameAdvice, SameVibration
    <2> QED
        BY <1>1, <1>2, <2>5, RunIsOver
  <1> QED
      BY <1>4, <1>5

LEMMA AdviseFailsKeeps ==
  ASSUME ViewerInv, NEW j \in jobs, AdviseFails(j)
  PROVE  ViewerInv'
  <1> DEFINE q == [page EXCEPT !.advice = Failed]
  <1>1. PageInv(page, jobs) /\ IsPage(page) /\ j.op = "advise"
      BY DEF ViewerInv, PageInv, JobInv, AdviseFails
  <1>2. CASE ~IsLatest(j)
    <2>1. PageInv(page, Over(j))
        BY <1>1, DroppingKeeps DEF Wanted, Over
    <2> QED
        BY <1>1, <1>2, <2>1, RunIsOver DEF AdviseFails
  <1>3. CASE IsLatest(j)
    <2>1. Latest(page, j) /\ page.candidate = None
        BY <1>1, <1>3 DEF Latest, IsLatest, PageInv, AdviceInv
    <2>2. /\ IsPage(q) /\ SameScreen(page, q) /\ SameVibration(page, q) /\ q.frames = page.frames
          /\ q.window = page.window /\ q.recommendationRun = page.recommendationRun
          /\ q.advice = Failed /\ q.candidate = page.candidate
        BY <1>1 DEF IsPage, Fields, SameScreen, SameVibration
    <2>3. Become(AnalysisOver(q, j))
        BY <1>3 DEF AdviseFails
    <2> HIDE DEF q
    <2>4. PageInv(q, Over(j))
        BY <1>1, <2>1, <2>2, AdviceGiven DEF Over
    <2> QED
        BY <1>1, <2>3, <2>4, RunIsOver
  <1> QED
      BY <1>2, <1>3

\* A sweep that is not the newest leaves the panel alone; the newest found the
\* frames of the flight on the screen, or none.
LEMMA VibrateKeeps ==
  ASSUME ViewerInv, NEW j \in jobs, Vibrate(j)
  PROVE  ViewerInv'
  <1> DEFINE s == Session(j.log, j.index)
             painted == IF j.token # page.vibrationRun THEN page
                        ELSE IF ~HasFrames(page, s) THEN [page EXCEPT !.vibration = Failed]
                        ELSE [page EXCEPT !.vibration = [session |-> s, view |-> j.view],
                                          !.shownFor = j.view]
  <1>1. PageInv(page, jobs) /\ IsPage(page) /\ j.op = "vibrate"
      BY DEF ViewerInv, PageInv, JobInv, Vibrate
  <1>2. Become(AnalysisOver(painted, j))
      BY DEF Vibrate
  <1>3. PageInv(page, Over(j))
      BY <1>1, DroppingKeeps DEF Wanted, Over
  <1>4. /\ IsPage(painted) /\ SameScreen(page, painted) /\ SameAdvice(page, painted)
        /\ painted.frames = page.frames /\ painted.vibrationRun = page.vibrationRun
        /\ \/ painted.vibration \in {page.vibration, Failed}
           \/ /\ painted.vibration.session = s /\ HasFrames(page, s)
              /\ j.token = page.vibrationRun
      BY <1>1 DEF IsPage, Fields, SameScreen, SameAdvice
  <1> HIDE DEF painted
  <1>5. CurrentSession(painted) = CurrentSession(page)
        /\ \A k : Wanted(painted, k) <=> Wanted(page, k)
      BY <1>4 DEF CurrentSession, Wanted, SameScreen
  <1>6. JobInv(painted, Over(j)) /\ OpenInv(painted, Over(j))
      BY <1>3, <1>4 DEF PageInv, JobInv, IsJob, OpenInv, Owner, SameScreen, SameAdvice
  <1>7. ReadInv(painted, Over(j)) /\ ScreenInv(painted, Over(j))
      BY <1>3, <1>4, <1>5 DEF PageInv, ReadInv, ScreenInv, SameScreen
  <1>8. AdviceInv(painted, Over(j))
      BY <1>3, <1>4, <1>5 DEF PageInv, AdviceInv, Latest, SameScreen, SameAdvice
  <1>9. VibrationInv(painted, Over(j))
    <2>1. (HasFrames(page, s) /\ j.token = page.vibrationRun /\ page.screen.kind = "flight") =>
              s = page.screen.session
        BY <1>1 DEF PageInv, VibrationInv, HasFrames
    <2> QED
        BY <1>3, <1>4, <2>1 DEF PageInv, VibrationInv, SameScreen
  <1>10. PageInv(painted, Over(j))
      BY <1>6, <1>7, <1>8, <1>9 DEF PageInv
  <1> QED
      BY <1>1, <1>2, <1>10, RunIsOver

-----------------------------------------------------------------------------
(* The invariant, and what it says.                                        *)

LEMMA InitHolds == Init => ViewerInv
  <1> SUFFICES ASSUME Init PROVE ViewerInv
      OBVIOUS
  <1>1. /\ IsPage(page) /\ jobs = {} /\ page.result = None /\ page.advice = None
        /\ page.candidate = None /\ page.vibration = None
        /\ page.screen = Screen("blank", None)
      BY DEF Init, IsPage, Fields
  <1>2. page.screen.kind = "blank" /\ page.screen.session = None /\ IsScreen(page.screen)
      BY <1>1 DEF Screen, IsScreen
  <1>3. JobInv(page, jobs) /\ OpenInv(page, jobs) /\ ReadInv(page, jobs)
        /\ ScreenInv(page, jobs) /\ VibrationInv(page, jobs)
      BY <1>1, <1>2 DEF JobInv, OpenInv, ReadInv, ScreenInv, VibrationInv
  <1>4. AdviceInv(page, jobs)
      BY <1>1, MarksAreMarks DEF AdviceInv
  <1> QED
      BY <1>3, <1>4 DEF ViewerInv, PageInv

LEMMA ThreadKeeps ==
  ASSUME ViewerInv, Thread
  PROVE  ViewerInv'
  <1>1. CASE ModuleArrives
      BY <1>1 DEF ModuleArrives, ViewerInv
  <1>2. CASE \E j \in jobs : OpenProceeds(j) \/ BytesRefused(j) \/ OpenLog(j) \/ ReadFrames(j)
                             \/ TakeMaterial(j) \/ Advise(j) \/ AdviseFails(j) \/ Vibrate(j)
      BY <1>2, OpenProceedsKeeps, BytesRefusedKeeps, OpenLogKeeps, ReadFramesKeeps,
         TakeMaterialKeeps, AdviseKeeps, AdviseFailsKeeps, VibrateKeeps
  <1> QED
      BY <1>1, <1>2 DEF Thread

LEMMA PilotKeeps ==
  ASSUME ViewerInv, Pilot
  PROVE  ViewerInv'
  BY OpenFileKeeps, ShellKeeps, PickSessionKeeps, MoveWindowKeeps, AnalyseKeeps, PanKeeps,
     MeasureVibrationKeeps DEF Pilot

LEMMA ViewerInvIsInductive == Spec => []ViewerInv
  <1>1. Init => ViewerInv
      BY InitHolds
  <1>2. ViewerInv /\ [Next]_vars => ViewerInv'
    <2>1. CASE UNCHANGED vars
        BY <2>1 DEF vars, ViewerInv
    <2> QED
        BY <2>1, ThreadKeeps, PilotKeeps DEF Next
  <1> QED
      BY <1>1, <1>2, PTL DEF Spec

\* For any files, flights, budget and taps: the flight painted is the one chosen
\* last in the log opened last, or that one is about to be read, and while a file is
\* being read nothing of an earlier one is left: an overtaken open or read of
\* openFile and openSession never paints.
THEOREM NewestOnScreen == Spec => []NewestIsShown
  <1>1. ViewerInv => NewestIsShown
    <2> SUFFICES ASSUME ViewerInv PROVE PaintedIsChosen /\ NewestOpenOwnsScreen
        BY DEF NewestIsShown
    <2>1. ASSUME NEW j \in jobs, Wanted(page, j)
          PROVE  j.op = "read" /\ StillWanted(j) /\ j.index = page.sessionIndex
        BY <2>1 DEF ViewerInv, PageInv, ReadInv, Wanted, StillWanted
    <2>2. PaintedIsChosen
        BY <2>1 DEF ViewerInv, PageInv, ScreenInv, PaintedIsChosen
    <2>3. NewestOpenOwnsScreen
        BY <2>1 DEF ViewerInv, PageInv, OpenInv, ScreenInv, NewestOpenOwnsScreen, OwnsScreen
    <2> QED
        BY <2>2, <2>3
  <1> QED
      BY <1>1, ViewerInvIsInductive, PTL

\* For any files, flights, budget and taps: the advice, the flight offered for saving
\* and the vibration shown are measured over the log, the flight and the window on
\* the screen: a run of runRecommendations or runVibration that ends late leaves
\* nothing.
THEOREM NothingStaleIsMeasured == Spec => []MeasuredIsForTheScreen
  <1>1. ViewerInv => MeasuredIsForTheScreen
    <2> SUFFICES ASSUME ViewerInv PROVE AdviceIsForTheScreen /\ VibrationIsForTheFlight
        BY DEF MeasuredIsForTheScreen
    <2>1. AdviceIsForTheScreen
      <3>1. ASSUME page.window = Window(CurrentSession(page), page.window.cut)
            PROVE  page.window.session = CurrentSession(page)
          BY <3>1 DEF Window
      <3> QED
          BY <3>1 DEF ViewerInv, PageInv, AdviceInv, AdviceIsForTheScreen
    <2>2. VibrationIsForTheFlight
        BY DEF ViewerInv, PageInv, VibrationInv, VibrationIsForTheFlight
    <2> QED
        BY <2>1, <2>2
  <1> QED
      BY <1>1, ViewerInvIsInductive, PTL

-----------------------------------------------------------------------------
(* Numbers, and one step after another.                                    *)

LEMMA SmallestOfSet ==
    ASSUME NEW S, S \subseteq Nat, S # {}
    PROVE  \E m \in S : \A n \in S : m <= n
<1> DEFINE R == OpToRel(<, Nat)
<1>1. IsWellFoundedOn(R, Nat)
  BY NatLessThanWellFounded
<1>2. \A m, n \in Nat : n < m => <<n, m>> \in R
  BY DEF OpToRel
<1> HIDE DEF R
<1>3. PICK m \in S : \A n \in S : <<n, m>> \notin R
  BY <1>1, WFMin
<1>4. \A n \in S : m <= n
  <2> TAKE n \in S
  <2>1. m \in Nat /\ n \in Nat
    OBVIOUS
  <2>2. ~ (n < m)
    BY <1>2, <1>3, <2>1, Zenon
  <2> QED  BY <2>1, <2>2
<1> QED  BY <1>4

\* What one step after another makes of a beginning: the steps are given as a
\* function of their number and of what there was.
IsRun(f, N, init, step) == f[0] = init /\ \A n \in 1..N : f[n] = step[n][f[n - 1]]

LEMMA Recursion ==
    ASSUME NEW S, NEW N \in Nat, NEW init \in S, NEW step \in [1..N -> [S -> S]]
    PROVE  \E f \in [0..N -> S] : IsRun(f, N, init, step)
<1> DEFINE Steps(m, f) == f[0] = init /\ \A n \in 1..m : f[n] = step[n][f[n - 1]]
           bad == {m \in 0..N : ~ \E f \in [0..m -> S] : Steps(m, f)}
<1>0. N \in 0..N
  OBVIOUS
<1>1. SUFFICES ASSUME bad # {} PROVE FALSE
  BY <1>0 DEF IsRun
<1>2. PICK m \in bad : \A n \in bad : m <= n
  <2>1. bad \subseteq Nat
    OBVIOUS
  <2> HIDE DEF bad
  <2> QED  BY <1>1, <2>1, SmallestOfSet
<1>3. m # 0
  <2>1. SUFFICES ASSUME m = 0 PROVE FALSE
    OBVIOUS
  <2>2. [k \in 0..0 |-> init] \in [0..0 -> S] /\ Steps(0, [k \in 0..0 |-> init])
    OBVIOUS
  <2> QED  BY <2>1, <2>2
<1>4. m - 1 \in 0..N /\ ~(m <= m - 1) /\ m \in 1..N
  BY <1>3
<1>5. PICK f \in [0..(m - 1) -> S] : Steps(m - 1, f)
  BY <1>2, <1>4
<1> DEFINE g == [n \in 0..m |-> IF n = m THEN step[m][f[m - 1]] ELSE f[n]]
<1>6. f[m - 1] \in S
  BY <1>4
<1>7. g \in [0..m -> S]
  <2>1. \A n \in 0..m : n # m => n \in 0..(m - 1)
    BY <1>4
  <2>2. step[m][f[m - 1]] \in S
    BY <1>4, <1>6
  <2>3. \A n \in 0..m : (IF n = m THEN step[m][f[m - 1]] ELSE f[n]) \in S
    BY <1>5, <2>1, <2>2
  <2> QED  BY <2>3
<1>8. g[0] = init
  BY <1>3, <1>4, <1>5
<1>9. \A n \in 1..m : g[n] = step[n][g[n - 1]]
  <2> TAKE n \in 1..m
  <2>1. g[n - 1] = f[n - 1]
    BY <1>4
  <2>2. CASE n = m
    BY <2>1, <2>2
  <2>3. CASE n # m
    <3>1. n \in 1..(m - 1)
      BY <2>3, <1>4
    <3> QED  BY <3>1, <2>1, <2>3, <1>5
  <2> QED  BY <2>2, <2>3
<1> HIDE DEF g
<1> QED  BY <1>4, <1>7, <1>8, <1>9

-----------------------------------------------------------------------------
(* What some flights of a log hold.                                        *)

Places(log) == 1..Len(Flights[log.file])
IsLog(log) == log = Log(log.id, log.file) /\ log.id \in Nat /\ log.file \in Files
Holds(log, n) == Cost[KindOf(Session(log, n))]

LEMMA LogsHold ==
  ASSUME NEW log, IsLog(log)
  PROVE  /\ Len(Flights[log.file]) \in Nat /\ log # None
         /\ \A n \in Places(log) : Holds(log, n) \in Nat
  <1>1. Flights[log.file] \in Seq(Kinds)
      BY ViewerAssumption DEF IsLog
  <1>2. log \in [id : Nat, file : Files]
      BY DEF IsLog, Log
  <1>3. \A n \in Places(log) : Flights[log.file][n] \in Kinds
      BY <1>1 DEF Places
  <1>4. \A n \in Places(log) : Holds(log, n) \in Nat
      BY <1>3, ViewerAssumption DEF Holds, KindOf, Session
  <1> QED
      BY <1>1, <1>2, <1>4, MarksAssumption

LEMMA CostSteps ==
  ASSUME NEW log, IsLog(log), NEW S
  PROVE  \E f \in [0..Len(Flights[log.file]) -> Nat] :
             /\ f[0] = 0
             /\ \A n \in Places(log) : f[n] = f[n - 1] + IF n \in S THEN Holds(log, n) ELSE 0
             /\ CostOf(log, S) = f[Len(Flights[log.file])]
  <1> DEFINE L == Len(Flights[log.file])
             w == [n \in 1..L |-> IF n \in S THEN Holds(log, n) ELSE 0]
             step == [n \in 1..L |-> [x \in Nat |-> x + w[n]]]
             sum(f) == [n \in 0..L |-> IF n = 0 THEN 0
                                       ELSE f[n - 1] + IF n \in S THEN Cost[KindOf(Session(log, n))] ELSE 0]
             g == CHOOSE f : f = sum(f)
  <1>1. L \in Nat /\ \A n \in 1..L : w[n] \in Nat /\ Places(log) = 1..L
      BY LogsHold DEF Places
  <1> HIDE DEF w
  <1>2. step \in [1..L -> [Nat -> Nat]]
      BY <1>1
  <1>3. \A n \in 1..L : \A x \in Nat : step[n][x] = x + w[n]
      OBVIOUS
  <1> HIDE DEF step
  <1>4. PICK f \in [0..L -> Nat] : f[0] = 0 /\ \A n \in 1..L : f[n] = step[n][f[n - 1]]
    <2> DEFINE none == 0
    <2>1. none \in Nat
        OBVIOUS
    <2> HIDE DEF L, none
    <2>2. \E f \in [0..L -> Nat] : IsRun(f, L, none, step)
        BY <1>1, <1>2, <2>1, Recursion
    <2> QED
        BY <2>2 DEF none, IsRun
  <1>5. \A n \in 1..L : f[n - 1] \in Nat
      BY <1>1, <1>4
  <1>6. \A n \in 1..L : f[n] = f[n - 1] + w[n]
      BY <1>3, <1>4, <1>5
  <1>7. \A n \in 1..L : w[n] = IF n \in S THEN Cost[KindOf(Session(log, n))] ELSE 0
      BY DEF w, Holds
  <1>8. f = sum(f)
    <2>1. \A n \in 0..L : n = 0 \/ n \in 1..L
        BY <1>1
    <2>2. \A n \in 0..L : f[n] = IF n = 0 THEN 0
                                 ELSE f[n - 1] + IF n \in S THEN Cost[KindOf(Session(log, n))] ELSE 0
        BY <1>4, <1>6, <1>7, <2>1
    <2> QED
        BY <1>4, <2>2
  <1>9. g = sum(g)
    <2> HIDE DEF sum
    <2> QED
        BY <1>8
  <1>10. CostOf(log, S) = g[L]
      BY DEF CostOf
  <1>11. g[0] = 0 /\ \A n \in 1..L : g[n] = g[n - 1] + w[n]
    <2> HIDE DEF g
    <2>1. \A n \in 0..L : g[n] = IF n = 0 THEN 0
                                 ELSE g[n - 1] + IF n \in S THEN Cost[KindOf(Session(log, n))] ELSE 0
        BY <1>9
    <2>2. g[0] = 0
        BY <1>1, <2>1
    <2>3. \A n \in 1..L : n \in 0..L /\ n # 0
        BY <1>1
    <2> QED
        BY <1>7, <2>1, <2>2, <2>3
  <1> DEFINE odd == {n \in 0..L : g[n] # f[n]}
  <1>12. odd = {}
    <2>1. SUFFICES ASSUME odd # {} PROVE FALSE
        OBVIOUS
    <2>2. PICK n \in odd : \A k \in odd : n <= k
      <3>1. odd \subseteq Nat
          OBVIOUS
      <3> HIDE DEF odd
      <3> QED
          BY <2>1, <3>1, SmallestOfSet
    <2> HIDE DEF g
    <2>3. n \in 0..L /\ g[n] # f[n] /\ n # 0
        BY <1>4, <1>11
    <2>4. n \in 1..L /\ n - 1 \in 0..L /\ ~(n <= n - 1)
        BY <1>1, <2>3
    <2>5. g[n - 1] = f[n - 1]
        BY <2>2, <2>4
    <2> QED
        BY <1>6, <1>11, <2>3, <2>4, <2>5
  <1>13. CostOf(log, S) = f[L]
    <2> HIDE DEF g
    <2>1. L \in 0..L
        BY <1>1
    <2> QED
        BY <1>10, <1>12, <2>1
  <1>14. \A n \in Places(log) : f[n] = f[n - 1] + IF n \in S THEN Holds(log, n) ELSE 0
      BY <1>1, <1>6 DEF w
  <1> QED
      BY <1>4, <1>13, <1>14

\* Fewer flights hold no more, and one more flight what it holds.
LEMMA CostMore ==
  ASSUME NEW log, IsLog(log), NEW S, NEW T, NEW i \in Places(log), T \cap Places(log) \subseteq S \cup {i}
  PROVE  CostOf(log, T) <= CostOf(log, S) + Holds(log, i)
  <1> DEFINE L == Len(Flights[log.file])
             c == Holds(log, i)
  <1>1. PICK f \in [0..L -> Nat] :
            /\ f[0] = 0
            /\ \A n \in Places(log) : f[n] = f[n - 1] + IF n \in S THEN Holds(log, n) ELSE 0
            /\ CostOf(log, S) = f[L]
      BY CostSteps
  <1>2. PICK g \in [0..L -> Nat] :
            /\ g[0] = 0
            /\ \A n \in Places(log) : g[n] = g[n - 1] + IF n \in T THEN Holds(log, n) ELSE 0
            /\ CostOf(log, T) = g[L]
      BY CostSteps
  <1>3. L \in Nat /\ c \in Nat /\ Places(log) = 1..L /\ \A n \in 1..L : Holds(log, n) \in Nat
      BY LogsHold DEF Places
  <1> DEFINE odd == {n \in 0..L : ~(g[n] <= f[n] + IF n < i THEN 0 ELSE c)}
  <1>4. odd = {}
    <2>1. SUFFICES ASSUME odd # {} PROVE FALSE
        OBVIOUS
    <2>2. PICK n \in odd : \A k \in odd : n <= k
      <3>1. odd \subseteq Nat
          OBVIOUS
      <3> HIDE DEF odd
      <3> QED
          BY <2>1, <3>1, SmallestOfSet
    <2> HIDE DEF c, L
    <2>3. n # 0
        BY <1>1, <1>2, <1>3
    <2>4. n \in 1..L /\ n - 1 \in 0..L /\ ~(n <= n - 1)
        BY <1>3, <2>3
    <2>5. g[n - 1] <= f[n - 1] + IF n - 1 < i THEN 0 ELSE c
        BY <2>2, <2>4
    <2>6. /\ g[n] = g[n - 1] + IF n \in T THEN Holds(log, n) ELSE 0
          /\ f[n] = f[n - 1] + IF n \in S THEN Holds(log, n) ELSE 0
        BY <1>1, <1>2, <1>3, <2>4
    <2>7. f[n - 1] \in Nat /\ g[n - 1] \in Nat /\ Holds(log, n) \in Nat
        BY <1>1, <1>2, <1>3, <2>4
    <2>8. ~(g[n] <= f[n] + IF n < i THEN 0 ELSE c)
        OBVIOUS
    <2> HIDE DEF odd
    <2>9. CASE n = i
        BY <1>3, <2>4, <2>5, <2>6, <2>7, <2>8, <2>9 DEF c
    <2>10. CASE n # i
      <3>1. n \in T => n \in S
          BY <1>3, <2>4, <2>10
      <3>2. (n - 1 < i) = (n < i) /\ i \in Nat /\ n \in Nat
          BY <1>3, <2>4, <2>10
      <3>3. CASE n < i
          BY <1>3, <2>5, <2>6, <2>7, <2>8, <3>1, <3>2, <3>3
      <3>4. CASE ~(n < i)
          BY <1>3, <2>5, <2>6, <2>7, <2>8, <3>1, <3>2, <3>4
      <3> QED
          BY <3>3, <3>4
    <2> QED
        BY <2>9, <2>10
  <1>5. L \in 0..L /\ ~(L < i)
      BY <1>3
  <1> QED
      BY <1>1, <1>2, <1>4, <1>5

LEMMA CostLess ==
  ASSUME NEW log, IsLog(log), NEW S, NEW T, T \cap Places(log) \subseteq S
  PROVE  CostOf(log, T) <= CostOf(log, S)
  <1> DEFINE L == Len(Flights[log.file])
  <1>1. PICK f \in [0..L -> Nat] :
            /\ f[0] = 0
            /\ \A n \in Places(log) : f[n] = f[n - 1] + IF n \in S THEN Holds(log, n) ELSE 0
            /\ CostOf(log, S) = f[L]
      BY CostSteps
  <1>2. PICK g \in [0..L -> Nat] :
            /\ g[0] = 0
            /\ \A n \in Places(log) : g[n] = g[n - 1] + IF n \in T THEN Holds(log, n) ELSE 0
            /\ CostOf(log, T) = g[L]
      BY CostSteps
  <1>3. L \in Nat /\ Places(log) = 1..L /\ \A n \in 1..L : Holds(log, n) \in Nat
      BY LogsHold DEF Places
  <1> DEFINE odd == {n \in 0..L : ~(g[n] <= f[n])}
  <1>4. odd = {}
    <2>1. SUFFICES ASSUME odd # {} PROVE FALSE
        OBVIOUS
    <2>2. PICK n \in odd : \A k \in odd : n <= k
      <3>1. odd \subseteq Nat
          OBVIOUS
      <3> HIDE DEF odd
      <3> QED
          BY <2>1, <3>1, SmallestOfSet
    <2> HIDE DEF L
    <2>3. n # 0
        BY <1>1, <1>2, <1>3
    <2>4. n \in 1..L /\ n - 1 \in 0..L /\ ~(n <= n - 1)
        BY <1>3, <2>3
    <2>5. g[n - 1] <= f[n - 1]
        BY <2>2, <2>4
    <2>6. /\ g[n] = g[n - 1] + IF n \in T THEN Holds(log, n) ELSE 0
          /\ f[n] = f[n - 1] + IF n \in S THEN Holds(log, n) ELSE 0
        BY <1>1, <1>2, <1>3, <2>4
    <2>7. f[n - 1] \in Nat /\ g[n - 1] \in Nat /\ Holds(log, n) \in Nat
        BY <1>1, <1>2, <1>3, <2>4
    <2>8. n \in T => n \in S
        BY <1>3, <2>4
    <2>9. ~(g[n] <= f[n])
        OBVIOUS
    <2> HIDE DEF odd
    <2> QED
        BY <2>5, <2>6, <2>7, <2>8, <2>9
  <1>5. L \in 0..L
      BY <1>3
  <1> QED
      BY <1>1, <1>2, <1>4, <1>5

LEMMA CostNone ==
  ASSUME NEW log, IsLog(log)
  PROVE  CostOf(log, {}) = 0 /\ \A S : CostOf(log, S) \in Nat
  <1> DEFINE L == Len(Flights[log.file])
  <1>1. L \in Nat /\ Places(log) = 1..L
      BY LogsHold DEF Places
  <1>2. \A S : CostOf(log, S) \in Nat
      BY <1>1, CostSteps
  <1>3. PICK f \in [0..L -> Nat] :
            /\ f[0] = 0
            /\ \A n \in Places(log) : f[n] = f[n - 1] + IF n \in {} THEN Holds(log, n) ELSE 0
            /\ CostOf(log, {}) = f[L]
      BY CostSteps
  <1> DEFINE odd == {n \in 0..L : f[n] # 0}
  <1>4. odd = {}
    <2>1. SUFFICES ASSUME odd # {} PROVE FALSE
        OBVIOUS
    <2>2. PICK n \in odd : \A k \in odd : n <= k
      <3>1. odd \subseteq Nat
          OBVIOUS
      <3> HIDE DEF odd
      <3> QED
          BY <2>1, <3>1, SmallestOfSet
    <2> HIDE DEF L
    <2>3. n \in 1..L /\ n - 1 \in 0..L /\ ~(n <= n - 1)
        BY <1>1, <1>3
    <2>4. f[n - 1] = 0
        BY <2>2, <2>3
    <2> QED
        BY <1>1, <1>3, <2>3, <2>4
  <1>5. L \in 0..L
      BY <1>1
  <1> QED
      BY <1>2, <1>3, <1>4, <1>5

-----------------------------------------------------------------------------
(* The list of flights held, and the walk over it.                         *)

LEMMA WithoutOne ==
  ASSUME NEW I, NEW list \in Seq(I), NEW i
  PROVE  /\ Without(list, i) \in Seq(I)
         /\ \A x \in Range(list) : x = i \/ x \in Range(Without(list, i))
  <1> DEFINE L == Len(list)
             S == Seq(I)
             step == [n \in 1..L |-> [s \in S |-> IF list[n] = i THEN s ELSE Append(s, list[n])]]
             rest(f) == [n \in 0..L |-> IF n = 0 THEN <<>>
                                       ELSE IF list[n] = i THEN f[n - 1] ELSE Append(f[n - 1], list[n])]
             g == CHOOSE f : f = rest(f)
  <1>1. L \in Nat /\ <<>> \in S /\ DOMAIN list = 1..L
      OBVIOUS
  <1>2. step \in [1..L -> [S -> S]]
    <2>1. \A n \in 1..L : \A s \in S : (IF list[n] = i THEN s ELSE Append(s, list[n])) \in S
        OBVIOUS
    <2> HIDE DEF S
    <2> QED
        BY <2>1
  <1>3. \A n \in 1..L : \A s \in S : step[n][s] = IF list[n] = i THEN s ELSE Append(s, list[n])
      OBVIOUS
  <1> HIDE DEF step, S
  <1>4. PICK f \in [0..L -> S] : f[0] = <<>> /\ \A n \in 1..L : f[n] = step[n][f[n - 1]]
    <2> DEFINE none == <<>>
    <2>1. none \in S
        BY <1>1
    <2> HIDE DEF L, none
    <2>2. \E f \in [0..L -> S] : IsRun(f, L, none, step)
        BY <1>1, <1>2, <2>1, Recursion
    <2> QED
        BY <2>2 DEF none, IsRun
  <1>5. \A n \in 1..L : f[n - 1] \in S /\ n - 1 \in 0..L
      BY <1>1, <1>4
  <1>6. \A n \in 1..L : f[n] = IF list[n] = i THEN f[n - 1] ELSE Append(f[n - 1], list[n])
      BY <1>3, <1>4, <1>5
  <1>7. f = rest(f)
    <2>1. \A n \in 0..L : n = 0 \/ n \in 1..L
        BY <1>1
    <2>2. \A n \in 0..L : f[n] = IF n = 0 THEN <<>>
                                 ELSE IF list[n] = i THEN f[n - 1] ELSE Append(f[n - 1], list[n])
        BY <1>4, <1>6, <2>1
    <2> QED
        BY <1>4, <2>2
  <1>8. g = rest(g)
    <2> HIDE DEF rest
    <2> QED
        BY <1>7
  <1>9. Without(list, i) = g[L]
      BY DEF Without
  <1>10. g[0] = <<>> /\ \A n \in 1..L : g[n] = IF list[n] = i THEN g[n - 1] ELSE Append(g[n - 1], list[n])
    <2> HIDE DEF g
    <2>1. \A n \in 0..L : g[n] = IF n = 0 THEN <<>>
                                 ELSE IF list[n] = i THEN g[n - 1] ELSE Append(g[n - 1], list[n])
        BY <1>8
    <2>2. g[0] = <<>>
        BY <1>1, <2>1
    <2>3. \A n \in 1..L : n \in 0..L /\ n # 0
        BY <1>1
    <2> QED
        BY <2>1, <2>2, <2>3
  <1> DEFINE odd == {n \in 0..L : g[n] # f[n] \/ \E k \in 1..n : list[k] # i /\ list[k] \notin Range(f[n])}
  <1>11. odd = {}
    <2>1. SUFFICES ASSUME odd # {} PROVE FALSE
        OBVIOUS
    <2>2. PICK n \in odd : \A k \in odd : n <= k
      <3>1. odd \subseteq Nat
          OBVIOUS
      <3> HIDE DEF odd
      <3> QED
          BY <2>1, <3>1, SmallestOfSet
    <2> HIDE DEF g
    <2>3. n \in 0..L /\ n # 0
        BY <1>4, <1>10
    <2>4. n \in 1..L /\ n - 1 \in 0..L /\ ~(n <= n - 1)
        BY <1>1, <2>3
    <2>5. g[n - 1] = f[n - 1] /\ \A k \in 1..(n - 1) : list[k] = i \/ list[k] \in Range(f[n - 1])
        BY <2>2, <2>4
    <2>6. g[n] = f[n]
        BY <1>6, <1>10, <2>4, <2>5
    <2>7. PICK k \in 1..n : list[k] # i /\ list[k] \notin Range(f[n])
        BY <2>6
    <2>8. f[n - 1] \in Seq(I) /\ list[n] \in I
        BY <1>5, <2>4 DEF S
    <2> DEFINE b == f[n - 1]
    <2>9. Append(b, list[n])[Len(b) + 1] = list[n] /\ Len(b) + 1 \in DOMAIN Append(b, list[n])
          /\ \A m \in DOMAIN b : m \in DOMAIN Append(b, list[n]) /\ Append(b, list[n])[m] = b[m]
      <3> HIDE DEF b
      <3>1. b \in Seq(I)
          BY <2>8 DEF b
      <3> QED
          BY <2>8, <3>1
    <2>10. Range(b) \subseteq Range(f[n]) /\ (list[n] # i => list[n] \in Range(f[n]))
      <3> HIDE DEF b
      <3>1. f[n] = IF list[n] = i THEN b ELSE Append(b, list[n])
          BY <1>6, <2>4 DEF b
      <3> QED
          BY <2>9, <3>1 DEF Range
    <2> QED
        BY <2>4, <2>5, <2>7, <2>10
  <1>12. L \in 0..L
      BY <1>1
  <1>13. Without(list, i) = f[L] /\ \A k \in 1..L : list[k] = i \/ list[k] \in Range(f[L])
    <2> HIDE DEF g
    <2> QED
        BY <1>9, <1>11, <1>12
  <1> QED
      BY <1>1, <1>4, <1>12, <1>13 DEF Range, S

\* What is left of a log's flights: the walk so far keeps its promise.
Kept(log, J, keep) ==
    {a \in [kept : Seq(Places(log)), held : Nat, freed : SUBSET Places(log)] :
        /\ a.held <= Budget
        /\ \A i \in a.freed : i # keep /\ ~InFlight(J, i)
        /\ CostOf(log, {i \in Range(a.kept) : i # keep /\ ~InFlight(J, i)}) <= a.held}

LEMMA SeesOne ==
  ASSUME NEW log, IsLog(log), NEW J, NEW keep, NEW a \in Kept(log, J, keep), NEW i \in Places(log)
  PROVE  LET b == Sees(a, i, i = keep \/ InFlight(J, i), Holds(log, i))
         IN /\ b \in Kept(log, J, keep)
            /\ i \in Range(b.kept) \cup b.freed
            /\ Range(a.kept) \subseteq Range(b.kept) /\ a.freed \subseteq b.freed
  <1> DEFINE stays == i = keep \/ InFlight(J, i)
             c == Holds(log, i)
             k == Append(a.kept, i)
             A == [kept : Seq(Places(log)), held : Nat, freed : SUBSET Places(log)]
             Of(s) == {x \in Range(s) : x # keep /\ ~InFlight(J, x)}
             b == Sees(a, i, stays, c)
  <1>1. /\ a \in A /\ a.kept \in Seq(Places(log)) /\ a.held \in Nat /\ a.freed \subseteq Places(log)
        /\ a.held <= Budget /\ \A x \in a.freed : x # keep /\ ~InFlight(J, x)
        /\ CostOf(log, Of(a.kept)) <= a.held
      BY DEF Kept
  <1>2. c \in Nat /\ Budget \in Nat /\ CostOf(log, Of(a.kept)) \in Nat /\ CostOf(log, Of(k)) \in Nat
      BY LogsHold, CostNone, ViewerAssumption
  <1>3. k \in Seq(Places(log)) /\ Range(k) = Range(a.kept) \cup {i}
    <2> DEFINE s == a.kept
    <2>1. s \in Seq(Places(log))
        BY <1>1
    <2> HIDE DEF s
    <2>2. /\ Append(s, i) \in Seq(Places(log)) /\ DOMAIN Append(s, i) = 1..(Len(s) + 1)
          /\ DOMAIN s = 1..Len(s) /\ Len(s) \in Nat
          /\ \A m \in 1..Len(s) : Append(s, i)[m] = s[m]
          /\ Append(s, i)[Len(s) + 1] = i
        BY <2>1
    <2>3. \A m \in 1..(Len(s) + 1) : m \in 1..Len(s) \/ m = Len(s) + 1
        BY <2>2
    <2>4. \A m \in 1..Len(s) : m \in 1..(Len(s) + 1)
        BY <2>2
    <2>5. Len(s) + 1 \in 1..(Len(s) + 1)
        BY <2>2
    <2>6. Range(Append(s, i)) = Range(s) \cup {i}
        BY <2>2, <2>3, <2>4, <2>5 DEF Range
    <2> QED
        BY <2>2, <2>6 DEF s
  <1>4. CASE stays
    <2>1. b = [a EXCEPT !.kept = k]
        BY <1>4 DEF Sees
    <2>2. Of(k) = Of(a.kept)
        BY <1>3, <1>4
    <2> HIDE DEF k
    <2>3. b \in A /\ b.kept = k /\ b.held = a.held /\ b.freed = a.freed
        BY <1>1, <1>3, <2>1
    <2> HIDE DEF b
    <2>4. b \in Kept(log, J, keep)
        BY <1>1, <2>2, <2>3 DEF Kept
    <2> QED
        BY <1>3, <2>3, <2>4 DEF b
  <1>5. CASE ~stays /\ a.held + c <= Budget
    <2>1. b = [a EXCEPT !.kept = k, !.held = a.held + c]
        BY <1>5 DEF Sees
    <2>2. CostOf(log, Of(k)) <= CostOf(log, Of(a.kept)) + c
      <3>1. Of(k) \cap Places(log) \subseteq Of(a.kept) \cup {i}
          BY <1>3
      <3> HIDE DEF k, Of
      <3> QED
          BY <3>1, CostMore
    <2> DEFINE h == a.held + c
    <2>0. h \in Nat /\ b = [a EXCEPT !.kept = k, !.held = h]
        BY <1>1, <1>2, <2>1
    <2>7. h = a.held + c
        OBVIOUS
    <2> HIDE DEF k, c, h, b
    <2>3. b \in A /\ b.kept = k /\ b.held = a.held + c /\ b.freed = a.freed
      <3>1. b \in A /\ b.kept = k /\ b.held = h /\ b.freed = a.freed
          BY <1>1, <1>3, <2>0
      <3> QED
          BY <3>1, <2>7
    <2> HIDE DEF b
    <2>4. CostOf(log, Of(b.kept)) <= b.held
      <3> HIDE DEF Of
      <3> QED
          BY <1>1, <1>2, <2>2, <2>3
    <2>5. b \in Kept(log, J, keep)
        BY <1>1, <1>5, <2>3, <2>4 DEF Kept
    <2> QED
        BY <1>3, <2>3, <2>5 DEF b, c
  <1>6. CASE ~stays /\ ~(a.held + c <= Budget)
    <2>1. b = [a EXCEPT !.freed = a.freed \cup {i}]
        BY <1>6 DEF Sees
    <2>2. b \in A /\ b.kept = a.kept /\ b.held = a.held /\ b.freed = a.freed \cup {i}
        BY <1>1, <2>1
    <2> HIDE DEF b
    <2>3. b \in Kept(log, J, keep)
        BY <1>1, <1>6, <2>2 DEF Kept
    <2> QED
        BY <2>2, <2>3 DEF b
  <1> QED
      BY <1>4, <1>5, <1>6

LEMMA WalkKeeps ==
  ASSUME NEW p, IsLog(p.result), p.recent \in Seq(Places(p.result)), NEW J, NEW keep
  PROVE  /\ Walk(p, J, keep) \in Kept(p.result, J, keep)
         /\ \A i \in Range(p.recent) : i \in Range(Walk(p, J, keep).kept) \cup Walk(p, J, keep).freed
  <1> DEFINE log == p.result
             r == p.recent
             L == Len(r)
             S == Kept(log, J, keep)
             none == [kept |-> <<>>, held |-> 0, freed |-> {}]
             St(i) == i = keep \/ InFlight(J, i)
             step == [n \in 1..L |-> [a \in S |-> Sees(a, r[n], St(r[n]), Holds(log, r[n]))]]
             seen(f) == [n \in 0..L |-> IF n = 0 THEN [kept |-> <<>>, held |-> 0, freed |-> {}]
                                       ELSE LET i == p.recent[n]
                                            IN Sees(f[n - 1], i, i = keep \/ InFlight(J, i),
                                                    Cost[KindOf(Session(p.result, i))])]
             g == CHOOSE f : f = seen(f)
  <1>1. L \in Nat /\ DOMAIN r = 1..L /\ \A n \in 1..L : r[n] \in Places(log)
      OBVIOUS
  <1>2. none \in S
    <2>1. none \in [kept : Seq(Places(log)), held : Nat, freed : SUBSET Places(log)]
        OBVIOUS
    <2>2. {i \in Range(none.kept) : i # keep /\ ~InFlight(J, i)} = {}
        BY DEF Range
    <2>3. CostOf(log, {}) = 0
        BY CostNone
    <2>4. 0 <= Budget
        BY ViewerAssumption
    <2> DEFINE stay == {i \in Range(none.kept) : i # keep /\ ~InFlight(J, i)}
    <2>5. /\ none.held = 0 /\ none.freed = {} /\ stay = {}
          /\ none \in [kept : Seq(Places(log)), held : Nat, freed : SUBSET Places(log)]
        BY <2>1, <2>2
    <2>6. CostOf(log, stay) = 0
      <3> HIDE DEF stay
      <3> QED
          BY <2>3, <2>5
    <2> HIDE DEF none
    <2>7. /\ none.held <= Budget /\ \A i \in none.freed : i # keep /\ ~InFlight(J, i)
          /\ CostOf(log, {i \in Range(none.kept) : i # keep /\ ~InFlight(J, i)}) <= none.held
        BY <2>4, <2>5, <2>6
    <2> QED
        BY <2>5, <2>7 DEF Kept
  <1>3. \A n \in 1..L : \A a \in S :
            /\ Sees(a, r[n], St(r[n]), Holds(log, r[n])) \in S
            /\ r[n] \in Range(Sees(a, r[n], St(r[n]), Holds(log, r[n])).kept)
                        \cup Sees(a, r[n], St(r[n]), Holds(log, r[n])).freed
            /\ Range(a.kept) \subseteq Range(Sees(a, r[n], St(r[n]), Holds(log, r[n])).kept)
            /\ a.freed \subseteq Sees(a, r[n], St(r[n]), Holds(log, r[n])).freed
      BY <1>1, SeesOne
  <1> HIDE DEF S, none
  <1>4. step \in [1..L -> [S -> S]]
      BY <1>3
  <1>5. \A n \in 1..L : \A a \in S : step[n][a] = Sees(a, r[n], St(r[n]), Holds(log, r[n]))
      OBVIOUS
  <1> HIDE DEF step
  <1>6. PICK f \in [0..L -> S] : f[0] = none /\ \A n \in 1..L : f[n] = step[n][f[n - 1]]
    <2> HIDE DEF L
    <2>2. \E f \in [0..L -> S] : IsRun(f, L, none, step)
        BY <1>1, <1>2, <1>4, Recursion
    <2> QED
        BY <2>2 DEF IsRun
  <1>7. \A n \in 1..L : f[n - 1] \in S /\ n - 1 \in 0..L
      BY <1>1, <1>6
  <1>8. \A n \in 1..L : f[n] = Sees(f[n - 1], r[n], St(r[n]), Holds(log, r[n]))
      BY <1>5, <1>6, <1>7
  <1>9. \A n \in 1..L : LET i == p.recent[n]
                       IN Cost[KindOf(Session(p.result, i))] = Holds(log, r[n]) /\ (i = keep \/ InFlight(J, i)) = St(r[n])
      BY DEF Holds
  <1>10. f = seen(f)
    <2>1. \A n \in 0..L : n = 0 \/ n \in 1..L
        BY <1>1
    <2>2. \A n \in 0..L : f[n] = IF n = 0 THEN [kept |-> <<>>, held |-> 0, freed |-> {}]
                                 ELSE LET i == p.recent[n]
                                      IN Sees(f[n - 1], i, i = keep \/ InFlight(J, i),
                                              Cost[KindOf(Session(p.result, i))])
        BY <1>6, <1>8, <2>1 DEF none, Holds
    <2> QED
        BY <1>6, <2>2
  <1>11. g = seen(g)
    <2> HIDE DEF seen
    <2> QED
        BY <1>10
  <1>12. Walk(p, J, keep) = g[L]
      BY DEF Walk
  <1>13. g[0] = none /\ \A n \in 1..L : g[n] = Sees(g[n - 1], r[n], St(r[n]), Holds(log, r[n]))
    <2> HIDE DEF g
    <2>1. \A n \in 0..L : g[n] = IF n = 0 THEN [kept |-> <<>>, held |-> 0, freed |-> {}]
                                 ELSE LET i == p.recent[n]
                                      IN Sees(g[n - 1], i, i = keep \/ InFlight(J, i),
                                              Cost[KindOf(Session(p.result, i))])
        BY <1>11
    <2>2. g[0] = none
        BY <1>1, <2>1 DEF none
    <2>3. \A n \in 1..L : n \in 0..L /\ n # 0
        BY <1>1
    <2> QED
        BY <2>1, <2>2, <2>3 DEF Holds
  <1> DEFINE odd == {n \in 0..L : g[n] # f[n] \/ \E k \in 1..n : r[k] \notin Range(f[n].kept) \cup f[n].freed}
  <1>14. odd = {}
    <2>1. SUFFICES ASSUME odd # {} PROVE FALSE
        OBVIOUS
    <2>2. PICK n \in odd : \A k \in odd : n <= k
      <3>1. odd \subseteq Nat
          OBVIOUS
      <3> HIDE DEF odd
      <3> QED
          BY <2>1, <3>1, SmallestOfSet
    <2> HIDE DEF g
    <2>3. n \in 0..L /\ n # 0
        BY <1>6, <1>13
    <2>4. n \in 1..L /\ n - 1 \in 0..L /\ ~(n <= n - 1)
        BY <1>1, <2>3
    <2>5. g[n - 1] = f[n - 1] /\ \A k \in 1..(n - 1) : r[k] \in Range(f[n - 1].kept) \cup f[n - 1].freed
        BY <2>2, <2>4
    <2>6. g[n] = f[n]
        BY <1>8, <1>13, <2>4, <2>5
    <2>7. PICK k \in 1..n : r[k] \notin Range(f[n].kept) \cup f[n].freed
        BY <2>6
    <2>8. /\ r[n] \in Range(f[n].kept) \cup f[n].freed
          /\ Range(f[n - 1].kept) \subseteq Range(f[n].kept) /\ f[n - 1].freed \subseteq f[n].freed
        BY <1>3, <1>7, <1>8, <2>4
    <2> QED
        BY <2>4, <2>5, <2>7, <2>8
  <1>15. L \in 0..L
      BY <1>1
  <1>16. Walk(p, J, keep) = f[L] /\ \A k \in 1..L : r[k] \in Range(f[L].kept) \cup f[L].freed
    <2> HIDE DEF g
    <2> QED
        BY <1>12, <1>14, <1>15
  <1> QED
      BY <1>1, <1>6, <1>15, <1>16 DEF Range, S

-----------------------------------------------------------------------------
(* The frames in memory.                                                   *)

\* The log that is open, the list of its flights that were read, and what is known
\* of a flight whose frames are held.
ListInv(p) ==
    /\ p.result # None => /\ IsLog(p.result) /\ p.sessionIndex \in Places(p.result)
                          /\ p.recent \in Seq(Places(p.result))
    /\ p.result = None => p.recent = <<>>
    /\ \A s \in p.frames : /\ s = Session(s.log, s.index) /\ IsLog(s.log)
                           /\ s.index \in Places(s.log) /\ s.log.id <= p.fileOpenRun

IsAnalysis(j) == j.op \in {"advise", "vibrate"}

\* A log that is still being opened has no frames; a flight that is being read is one
\* of its log, and one that is analysed is held.
HeldForJobs(p, J) ==
    \A j \in J :
        /\ Owner(p, j) => \A s \in p.frames : s.log.id # j.token
        /\ j.op = "read" => IsLog(j.log) /\ j.index \in Places(j.log)
        /\ IsAnalysis(j) /\ j.full => Session(j.log, j.index) \in p.frames

Listed(p) == \A s \in p.frames : s.log = p.result => s.index \in Range(p.recent)

HeldInv(p, J) ==
    /\ ListInv(p) /\ HeldForJobs(p, J)
    /\ p.result # None => Listed(p) /\ CostOf(p.result, Spare(p, J)) <= Budget

\* The fields it is about.
SameFrames(p, q) ==
    /\ q.result = p.result /\ q.sessionIndex = p.sessionIndex /\ q.recent = p.recent
    /\ q.frames = p.frames /\ q.fileOpenRun = p.fileOpenRun

\* Functions come and go; as long as no analysis ends, nothing more is held for nobody.
LEMMA JobsChange ==
  ASSUME NEW p, NEW J, HeldInv(p, J), NEW q, SameFrames(p, q), NEW K,
         HeldForJobs(p, K), \A i : InFlight(J, i) => InFlight(K, i)
  PROVE  HeldInv(q, K)
  <1>1. ListInv(q) /\ HeldForJobs(q, K)
      BY DEF HeldInv, ListInv, HeldForJobs, Owner, SameFrames
  <1>2. ASSUME q.result # None
        PROVE  Listed(q) /\ CostOf(q.result, Spare(q, K)) <= Budget
    <2>1. IsLog(p.result) /\ Listed(p) /\ CostOf(p.result, Spare(p, J)) <= Budget
        BY <1>2 DEF HeldInv, ListInv, SameFrames
    <2>2. Spare(q, K) \subseteq Spare(p, J)
        BY DEF Spare, SameFrames
    <2>3. CostOf(p.result, Spare(q, K)) <= CostOf(p.result, Spare(p, J))
        BY <2>1, <2>2, CostLess
    <2>4. /\ CostOf(p.result, Spare(q, K)) \in Nat /\ CostOf(p.result, Spare(p, J)) \in Nat
          /\ Budget \in Nat
        BY <2>1, CostNone, ViewerAssumption
    <2>5. Listed(q) /\ q.result = p.result
        BY <2>1 DEF Listed, SameFrames
    <2> QED
        BY <2>1, <2>3, <2>4, <2>5
  <1> QED
      BY <1>1, <1>2 DEF HeldInv

\* evictDecodedSessions: what is given up is held for nobody, and what stays fits.
LEMMA EvictHolds ==
  ASSUME NEW p, IsPage(p), NEW J, ListInv(p), HeldForJobs(p, J),
         p.result # None => Listed(p), NEW q, q = Evict(p, J, p.sessionIndex)
  PROVE  HeldInv(q, J) /\ (p.result # None /\ CurrentSession(p) \in p.frames => CurrentSession(p) \in q.frames)
  <1> DEFINE keep == p.sessionIndex
             w == Walk(p, J, keep)
  <1>1. /\ q.result = p.result /\ q.sessionIndex = keep /\ q.fileOpenRun = p.fileOpenRun
        /\ q.recent = w.kept
        /\ q.frames = {s \in p.frames : ~(s.log = p.result /\ s.index \in w.freed)}
      BY DEF IsPage, Fields, Evict
  <1>2. CASE p.result = None
    <2>1. \A s \in p.frames : s.log # p.result
        BY <1>2, LogsHold DEF ListInv
    <2>2. q.frames = p.frames
        BY <1>1, <2>1
    <2>3. q.recent = <<>>
      <3>1. p.recent = <<>>
          BY <1>2 DEF ListInv
      <3> DEFINE none == [kept |-> <<>>, held |-> 0, freed |-> {}]
                 seen(f) == [n \in 0..0 |->
                     IF n = 0 THEN none
                     ELSE LET i == p.recent[n]
                          IN Sees(f[n - 1], i, i = keep \/ InFlight(J, i),
                                  Cost[KindOf(Session(p.result, i))])]
                 g == CHOOSE f : f = seen(f)
      <3>2. Len(p.recent) = 0
          BY <3>1
      <3>3. w = g[0]
          BY <3>2 DEF Walk
      <3>4. [n \in 0..0 |-> none] = seen([n \in 0..0 |-> none])
          OBVIOUS
      <3>5. g = seen(g)
        <4> HIDE DEF seen
        <4> QED
            BY <3>4
      <3>6. g[0] = none
        <4> HIDE DEF g
        <4> QED
            BY <3>5
      <3> QED
          BY <1>1, <3>3, <3>6
    <2>4. ListInv(q) /\ HeldForJobs(q, J)
        BY <1>1, <1>2, <2>2, <2>3 DEF ListInv, HeldForJobs, Owner
    <2> QED
        BY <1>1, <1>2, <2>4 DEF HeldInv
  <1>3. CASE p.result # None
    <2>1. /\ IsLog(p.result) /\ keep \in Places(p.result) /\ p.recent \in Seq(Places(p.result))
          /\ Listed(p)
        BY <1>3 DEF ListInv
    <2>2. /\ w \in Kept(p.result, J, keep)
          /\ \A i \in Range(p.recent) : i \in Range(w.kept) \cup w.freed
        BY <2>1, WalkKeeps
    <2> HIDE DEF w
    <2>3. /\ w.kept \in Seq(Places(p.result)) /\ w.held \in Nat /\ w.held <= Budget
          /\ \A i \in w.freed : i # keep /\ ~InFlight(J, i)
          /\ CostOf(p.result, {i \in Range(w.kept) : i # keep /\ ~InFlight(J, i)}) <= w.held
        BY <2>2 DEF Kept
    <2>4. Listed(q)
        BY <1>1, <2>1, <2>2 DEF Listed
    <2>5. ListInv(q)
        BY <1>1, <1>3, <2>1, <2>3 DEF ListInv
    <2>6. HeldForJobs(q, J)
      <3>1. ASSUME NEW j \in J, IsAnalysis(j), j.full
            PROVE  Session(j.log, j.index) \in q.frames
        <4>1. Session(j.log, j.index) \in p.frames /\ Session(j.log, j.index).index = j.index
            BY <3>1 DEF HeldForJobs, Session
        <4>2. InFlight(J, j.index)
            BY <3>1 DEF InFlight, IsAnalysis
        <4> QED
            BY <1>1, <2>3, <4>1, <4>2
      <3>2. ASSUME NEW j \in J, Owner(q, j), NEW s \in q.frames PROVE s.log.id # j.token
          BY <1>1, <3>2 DEF HeldForJobs, Owner
      <3>3. ASSUME NEW j \in J, j.op = "read" PROVE IsLog(j.log) /\ j.index \in Places(j.log)
          BY <3>3 DEF HeldForJobs
      <3> QED
          BY <3>1, <3>2, <3>3 DEF HeldForJobs
    <2>7. CostOf(q.result, Spare(q, J)) <= Budget
      <3> DEFINE T == {i \in Range(w.kept) : i # keep /\ ~InFlight(J, i)}
      <3>1. Spare(q, J) \subseteq T
          BY <1>1, <2>4 DEF Spare, Listed
      <3>2. CostOf(p.result, T) <= w.held
          BY <2>3
      <3> HIDE DEF T
      <3>3. CostOf(p.result, Spare(q, J)) <= CostOf(p.result, T)
          BY <2>1, <3>1, CostLess
      <3>4. /\ CostOf(p.result, Spare(q, J)) \in Nat /\ CostOf(p.result, T) \in Nat
            /\ Budget \in Nat
          BY <2>1, CostNone, ViewerAssumption
      <3> QED
          BY <1>1, <2>3, <3>2, <3>3, <3>4
    <2>8. CurrentSession(p) \in p.frames => CurrentSession(p) \in q.frames
        BY <1>1, <2>3 DEF CurrentSession, Session
    <2> QED
        BY <2>4, <2>5, <2>6, <2>7, <2>8 DEF HeldInv
  <1> QED
      BY <1>2, <1>3

\* The list with a flight moved to its front still has every flight.
LEMMA MovedToFront ==
  ASSUME NEW p, IsPage(p), NEW I, p.recent \in Seq(I), NEW i \in I
  PROVE  LET q == MoveToFront(p, i)
         IN /\ IsPage(q) /\ q.result = p.result /\ q.sessionIndex = p.sessionIndex
            /\ q.frames = p.frames /\ q.fileOpenRun = p.fileOpenRun
            /\ q.recent \in Seq(I) /\ i \in Range(q.recent) /\ Range(p.recent) \subseteq Range(q.recent)
  <1> DEFINE r == Without(p.recent, i)
             t == <<i>> \o r
  <1>1. r \in Seq(I) /\ \A x \in Range(p.recent) : x = i \/ x \in Range(r)
      BY WithoutOne
  <1> HIDE DEF r
  <1>2. /\ t \in Seq(I) /\ DOMAIN t = 1..(Len(r) + 1) /\ Len(r) \in Nat /\ DOMAIN r = 1..Len(r)
        /\ t[1] = i /\ \A n \in 1..Len(r) : t[n + 1] = r[n]
      BY <1>1
  <1>3. i \in Range(t) /\ Range(r) \subseteq Range(t)
    <2>1. 1 \in DOMAIN t /\ \A n \in 1..Len(r) : n + 1 \in DOMAIN t
        BY <1>2
    <2> HIDE DEF t
    <2> QED
        BY <1>2, <2>1 DEF Range
  <1>4. Range(p.recent) \subseteq Range(t)
      BY <1>1, <1>3
  <1>5. MoveToFront(p, i) = [p EXCEPT !.recent = t]
      BY DEF MoveToFront, r
  <1> HIDE DEF t
  <1> QED
      BY <1>2, <1>3, <1>4, <1>5 DEF IsPage, Fields

\* What a function leaves that begins an analysis, or none: an analysis knows whether
\* its flight's frames are there.
Begun(p, J, r) ==
    /\ SameFrames(p, r.page)
    /\ \E k : /\ IsAnalysis(k) /\ (k.full => Session(k.log, k.index) \in p.frames)
              /\ r.jobs \in {J, J \cup {k}}

LEMMA BegunHolds ==
  ASSUME NEW p, NEW J, HeldInv(p, J), NEW r, Begun(p, J, r)
  PROVE  HeldInv(r.page, r.jobs)
  <1>1. PICK k : /\ IsAnalysis(k) /\ (k.full => Session(k.log, k.index) \in p.frames)
                 /\ r.jobs \in {J, J \cup {k}}
      BY DEF Begun
  <1>2. HeldForJobs(p, r.jobs)
    <2>1. k.op # "open" /\ k.op # "read"
        BY <1>1 DEF IsAnalysis
    <2> QED
        BY <1>1, <2>1 DEF HeldInv, HeldForJobs, Owner
  <1>3. \A i : InFlight(J, i) => InFlight(r.jobs, i)
      BY <1>1 DEF InFlight
  <1> QED
      BY <1>2, <1>3, JobsChange DEF Begun

LEMMA RunRecommendationsIsBegun ==
  ASSUME NEW p, IsPage(p), NEW J
  PROVE  Begun(p, J, RunRecommendations(p, J))
  <1> DEFINE q == ForgetCandidate([p EXCEPT !.recommendationRun = @ + 1, !.advice = Working])
             j == [op |-> "advise", token |-> q.recommendationRun, at |-> "paint",
                   log |-> p.result, index |-> p.sessionIndex, scoped |-> None,
                   full |-> HasFrames(p, CurrentSession(p))]
  <1>1. SameFrames(p, q)
      BY DEF IsPage, Fields, ForgetCandidate, SameFrames
  <1>2. IsAnalysis(j) /\ (j.full => Session(j.log, j.index) \in p.frames)
      BY DEF IsAnalysis, HasFrames, CurrentSession
  <1>3. RunRecommendations(p, J) = [page |-> q, jobs |-> J \cup {j}]
      BY DEF RunRecommendations, To
  <1> HIDE DEF q, j
  <1> QED
      BY <1>1, <1>2, <1>3 DEF Begun

LEMMA ApplyFlightWindowIsBegun ==
  ASSUME NEW p, IsPage(p), NEW J, NEW cut
  PROVE  Begun(p, J, ApplyFlightWindow(p, J, cut))
  <1> DEFINE q == [p EXCEPT !.window = Window(CurrentSession(p), cut), !.records = None,
                            !.tune = None, !.view = "fitted"]
             v == ResetVibration(q)
  <1>1. IsPage(q) /\ SameFrames(p, q)
      BY DEF IsPage, Fields, SameFrames
  <1>2. ApplyFlightWindow(p, J, cut) = RunRecommendations(v, J)
      BY DEF ApplyFlightWindow
  <1> HIDE DEF q
  <1>3. IsPage(v) /\ SameFrames(q, v)
      BY <1>1 DEF ResetVibration, IsPage, Fields, SameFrames
  <1> HIDE DEF v
  <1>4. Begun(v, J, RunRecommendations(v, J))
      BY <1>3, RunRecommendationsIsBegun
  <1> QED
      BY <1>1, <1>2, <1>3, <1>4 DEF Begun, SameFrames

LEMMA TakingDownKeepsFrames ==
  ASSUME NEW p, IsPage(p), NEW s
  PROVE  SameFrames(p, [TakeDownAnalysis(p) EXCEPT !.screen = s])
  <1> DEFINE a == RetireAdvice([p EXCEPT !.recommendationRun = @ + 1, !.window = None,
                                         !.records = None, !.tune = None])
             t == ResetVibration(a)
  <1>1. IsPage(a) /\ SameFrames(p, a)
      BY DEF IsPage, Fields, RetireAdvice, ForgetCandidate, SameFrames
  <1> HIDE DEF a
  <1>2. IsPage(t) /\ SameFrames(a, t)
      BY <1>1 DEF ResetVibration, IsPage, Fields, SameFrames
  <1>3. t = TakeDownAnalysis(p)
      BY DEF TakeDownAnalysis, a
  <1> HIDE DEF t
  <1> QED
      BY <1>1, <1>2, <1>3 DEF SameFrames, IsPage, Fields

LEMMA RenderSessionIsBegun ==
  ASSUME NEW p, IsPage(p), NEW J
  PROVE  Begun(p, J, RenderSession(p, J))
  <1> DEFINE s == CurrentSession(p)
             q == [p EXCEPT !.screen = Screen("flight", s), !.tune = None]
  <1>1. CASE KindOf(s) \in {"unreadable", "empty"}
    <2> DEFINE t == [TakeDownAnalysis(p) EXCEPT !.screen = Screen("nothing", s)]
               k == [op |-> "advise", full |-> FALSE]
    <2>1. RenderSession(p, J) = [page |-> t, jobs |-> J]
        BY <1>1 DEF RenderSession, To
    <2>2. SameFrames(p, t)
        BY TakingDownKeepsFrames
    <2>3. IsAnalysis(k) /\ ~k.full
        BY DEF IsAnalysis
    <2> HIDE DEF t, k
    <2> QED
        BY <2>1, <2>2, <2>3 DEF Begun
  <1>2. CASE KindOf(s) \notin {"unreadable", "empty"}
    <2>1. RenderSession(p, J) = ApplyFlightWindow(q, J, "detected")
        BY <1>2 DEF RenderSession
    <2>2. IsPage(q) /\ SameFrames(p, q)
        BY DEF IsPage, Fields, SameFrames
    <2> HIDE DEF q
    <2>3. Begun(q, J, ApplyFlightWindow(q, J, "detected"))
        BY <2>2, ApplyFlightWindowIsBegun
    <2> QED
        BY <2>1, <2>2, <2>3 DEF Begun, SameFrames
  <1> QED
      BY <1>1, <1>2

\* openSession for a flight of the open log.
LEMMA OpenSessionHolds ==
  ASSUME NEW p, NEW J, IsPage(p), IsLog(p.result), NEW i \in Places(p.result),
         p.recent \in Seq(Places(p.result)), Listed(p), HeldForJobs(p, J),
         \A s \in p.frames : /\ s = Session(s.log, s.index) /\ IsLog(s.log)
                             /\ s.index \in Places(s.log) /\ s.log.id <= p.fileOpenRun
  PROVE  HeldInv(OpenSession(p, J, i).page, OpenSession(p, J, i).jobs)
  <1> DEFINE q == [RetireAdvice([p EXCEPT !.sessionOpenRun = @ + 1,
                                          !.recommendationRun = @ + 1])
                     EXCEPT !.sessionIndex = i, !.records = None]
             m == MoveToFront(q, i)
  <1>1. /\ IsPage(q) /\ q.frames = p.frames /\ q.result = p.result /\ q.sessionIndex = i
        /\ q.fileOpenRun = p.fileOpenRun /\ q.recent = p.recent
      BY DEF IsPage, Fields, RetireAdvice, ForgetCandidate
  <1>2. p.result # None
      BY LogsHold
  <1>3. ListInv(q) /\ HeldForJobs(q, J) /\ Listed(q)
      BY <1>1, <1>2 DEF ListInv, HeldForJobs, Owner, Listed
  <1>4. CASE HasFrames(q, CurrentSession(q))
    <2>1. OpenSession(p, J, i) = RenderSession(Evict(m, J, i), J)
        BY <1>4 DEF OpenSession
    <2> DEFINE e == Evict(m, J, i)
    <2> HIDE DEF q
    <2>2. /\ IsPage(m) /\ m.result = q.result /\ m.sessionIndex = q.sessionIndex
          /\ m.frames = q.frames /\ m.fileOpenRun = q.fileOpenRun
          /\ m.recent \in Seq(Places(p.result)) /\ Range(q.recent) \subseteq Range(m.recent)
      <3> DEFINE I == Places(p.result)
      <3>1. IsPage(q) /\ q.recent \in Seq(I) /\ i \in I
          BY <1>1
      <3> HIDE DEF I, m
      <3>2. LET n == MoveToFront(q, i)
            IN /\ IsPage(n) /\ n.result = q.result /\ n.sessionIndex = q.sessionIndex
               /\ n.frames = q.frames /\ n.fileOpenRun = q.fileOpenRun
               /\ n.recent \in Seq(I) /\ i \in Range(n.recent)
               /\ Range(q.recent) \subseteq Range(n.recent)
          BY <3>1, MovedToFront
      <3> QED
          BY <3>2 DEF I, m
    <2> HIDE DEF m
    <2>3. ListInv(m) /\ HeldForJobs(m, J) /\ Listed(m)
        BY <1>1, <1>2, <1>3, <2>2 DEF ListInv, HeldForJobs, Owner, Listed
    <2>4. IsPage(e) /\ HeldInv(e, J)
      <3>1. i = m.sessionIndex
          BY <1>1, <2>2
      <3> QED
          BY <2>2, <2>3, <3>1, EvictHolds, EvictFrees
    <2> HIDE DEF e
    <2>5. Begun(e, J, RenderSession(e, J))
        BY <2>4, RenderSessionIsBegun
    <2>6. HeldInv(RenderSession(e, J).page, RenderSession(e, J).jobs)
        BY <2>4, <2>5, BegunHolds
    <2> QED
        BY <2>1, <2>6 DEF e
  <1>5. CASE ~HasFrames(q, CurrentSession(q))
    <2> DEFINE e == Evict(q, J, i)
               k == [op |-> "read", token |-> q.sessionOpenRun, log |-> q.result, index |-> i]
               K == J \cup {k}
    <2>1. OpenSession(p, J, i).page = e /\ OpenSession(p, J, i).jobs = K
        BY <1>5 DEF OpenSession, To
    <2>2. k.op = "read" /\ k.log = p.result /\ k.index = i
        BY <1>1
    <2> HIDE DEF q, k
    <2>3. HeldInv(e, J)
        BY <1>1, <1>3, EvictHolds
    <2> HIDE DEF e
    <2>4. HeldForJobs(e, K)
        BY <2>2, <2>3 DEF HeldInv, HeldForJobs, Owner, IsAnalysis
    <2>5. \A n : InFlight(J, n) => InFlight(K, n)
        BY DEF InFlight
    <2>6. SameFrames(e, e)
        BY DEF SameFrames
    <2>7. HeldInv(e, K)
        BY <2>3, <2>4, <2>5, <2>6, JobsChange
    <2> QED
        BY <2>1, <2>7
  <1> QED
      BY <1>4, <1>5

-----------------------------------------------------------------------------
(* What is held, action by action.                                         *)

Held == HeldInv(page, jobs)

LEMMA RetiringHolds ==
  ASSUME ViewerInv, Held, NEW kind \in {"reading", "preparing", "failed"}
  PROVE  LET q == RetireCurrentFile(page, Screen(kind, None))
         IN /\ HeldInv(q, jobs) /\ q.result = None
            /\ \A s \in q.frames : s.log.id # q.fileOpenRun
  <1> DEFINE q == RetireCurrentFile(page, Screen(kind, None))
             a == RetireAdvice([page EXCEPT !.fileOpenRun = @ + 1, !.recommendationRun = @ + 1,
                                            !.screen = Screen(kind, None)])
  <1>1. IsPage(page) /\ PageInv(page, jobs)
      BY DEF ViewerInv, PageInv, JobInv
  <1>2. IsPage(a) /\ a.frames = page.frames /\ a.fileOpenRun = page.fileOpenRun + 1
      BY <1>1 DEF IsPage, Fields, RetireAdvice, ForgetCandidate
  <1>3. q = CloseCurrentLog(a)
      BY DEF RetireCurrentFile
  <1>4. q.fileOpenRun = page.fileOpenRun + 1 /\ \A j \in jobs : ~Owner(q, j)
      BY <1>1, RetiringRetires
  <1> HIDE DEF a, q
  <1>5. q.result = None /\ q.recent = <<>> /\ q.frames = page.frames
      BY <1>2, <1>3 DEF IsPage, Fields, CloseCurrentLog
  <1>6. page.fileOpenRun \in Nat
      BY <1>1 DEF IsPage
  <1>7. \A s \in q.frames : /\ s = Session(s.log, s.index) /\ IsLog(s.log)
                            /\ s.index \in Places(s.log)
                            /\ s.log.id <= q.fileOpenRun /\ s.log.id # q.fileOpenRun
    <2> TAKE s \in q.frames
    <2>1. /\ s = Session(s.log, s.index) /\ IsLog(s.log) /\ s.index \in Places(s.log)
          /\ s.log.id <= page.fileOpenRun
        BY <1>5 DEF Held, HeldInv, ListInv
    <2>2. s.log.id \in Nat
        BY <2>1 DEF IsLog
    <2> QED
        BY <1>4, <1>6, <2>1, <2>2
  <1>8. ListInv(q) /\ HeldForJobs(q, jobs)
      BY <1>4, <1>5, <1>7 DEF ListInv, HeldForJobs, Held, HeldInv
  <1> QED
      BY <1>5, <1>7, <1>8 DEF HeldInv, q

LEMMA OpenFileHolds ==
  ASSUME ViewerInv, Held, NEW f \in Files, OpenFile(f)
  PROVE  Held'
  <1> DEFINE k == [op |-> "open", token |-> page'.fileOpenRun, file |-> f, at |-> "bytes"]
  <1>1. page' = RetireCurrentFile(page, Screen("reading", None)) /\ jobs' = jobs \cup {k}
      BY DEF OpenFile
  <1>2. /\ HeldInv(page', jobs) /\ page'.result = None
        /\ \A s \in page'.frames : s.log.id # page'.fileOpenRun
      BY <1>1, RetiringHolds
  <1>3. k.op = "open" /\ k.token = page'.fileOpenRun
      OBVIOUS
  <1> HIDE DEF k
  <1>4. HeldForJobs(page', jobs')
      BY <1>1, <1>2, <1>3 DEF HeldInv, HeldForJobs, Owner, IsAnalysis
  <1> QED
      BY <1>2, <1>4 DEF Held, HeldInv

LEMMA ShellHolds ==
  ASSUME ViewerInv, Held, ImportStarted \/ HostFileFailed
  PROVE  Held'
  <1>1. PICK kind \in {"preparing", "failed"} :
            page' = RetireCurrentFile(page, Screen(kind, None)) /\ jobs' = jobs
      BY DEF ImportStarted, HostFileFailed
  <1> QED
      BY <1>1, RetiringHolds DEF Held

LEMMA PickSessionHolds ==
  ASSUME ViewerInv, Held, PickSession
  PROVE  Held'
  <1>1. PICK i \in DOMAIN Flights[page.result.file] :
            page' = OpenSession(page, jobs, i).page /\ jobs' = OpenSession(page, jobs, i).jobs
      BY DEF PickSession, Become
  <1>2. page.result # None /\ IsPage(page)
      BY DEF PickSession, ViewerInv, PageInv, JobInv
  <1>3. /\ IsLog(page.result) /\ page.recent \in Seq(Places(page.result)) /\ Listed(page)
        /\ HeldForJobs(page, jobs)
        /\ \A s \in page.frames : /\ s = Session(s.log, s.index) /\ IsLog(s.log)
                                  /\ s.index \in Places(s.log) /\ s.log.id <= page.fileOpenRun
      BY <1>2 DEF Held, HeldInv, ListInv
  <1>4. i \in Places(page.result)
    <2>1. Flights[page.result.file] \in Seq(Kinds)
        BY <1>3, ViewerAssumption DEF IsLog
    <2> QED
        BY <2>1 DEF Places
  <1> QED
      BY <1>1, <1>2, <1>3, <1>4, OpenSessionHolds DEF Held

LEMMA MoveWindowHolds ==
  ASSUME ViewerInv, Held, NEW cut, MoveWindow(cut)
  PROVE  Held'
  <1> DEFINE r == ApplyFlightWindow(page, jobs, cut)
  <1>1. page' = r.page /\ jobs' = r.jobs
      BY DEF MoveWindow, Become
  <1>2. Begun(page, jobs, r)
      BY ApplyFlightWindowIsBegun DEF ViewerInv, PageInv, JobInv
  <1> HIDE DEF r
  <1> QED
      BY <1>1, <1>2, BegunHolds DEF Held

\* What changes nothing of what is held.
LEMMA SameHeld ==
  ASSUME Held, SameFrames(page, page'), jobs' = jobs
  PROVE  Held'
  BY JobsChange DEF Held, HeldInv

LEMMA AnalyseHolds ==
  ASSUME ViewerInv, Held, Analyse
  PROVE  Held'
  <1>1. SameFrames(page, page') /\ jobs' = jobs
      BY DEF ViewerInv, PageInv, JobInv, IsPage, Fields, Analyse, SameFrames
  <1> QED
      BY <1>1, SameHeld

LEMMA PanHolds ==
  ASSUME ViewerInv, Held, NEW view, Pan(view)
  PROVE  Held'
  <1>1. IsPage(page) /\ jobs' = jobs
      BY DEF ViewerInv, PageInv, JobInv, Pan
  <1>2. CASE page' = [page EXCEPT !.view = view]
    <2>1. SameFrames(page, page')
        BY <1>1, <1>2 DEF IsPage, Fields, SameFrames
    <2> QED
        BY <1>1, <2>1, SameHeld
  <1>3. CASE page' = [ResetVibration(page) EXCEPT !.view = view]
    <2>1. SameFrames(page, page')
        BY <1>1, <1>3 DEF IsPage, Fields, SameFrames, ResetVibration
    <2> QED
        BY <1>1, <2>1, SameHeld
  <1> QED
      BY <1>2, <1>3 DEF Pan

LEMMA MeasureVibrationHolds ==
  ASSUME ViewerInv, Held, MeasureVibration
  PROVE  Held'
  <1> DEFINE k == [op |-> "vibrate", token |-> page'.vibrationRun, log |-> page.result,
                   index |-> page.sessionIndex, view |-> page.view,
                   full |-> HasFrames(page, CurrentSession(page))]
             r == [page |-> page', jobs |-> jobs']
  <1>1. /\ page' = [page EXCEPT !.vibrationRun = @ + 1, !.vibration = Working]
        /\ jobs' = jobs \cup {k}
      BY DEF MeasureVibration
  <1>2. SameFrames(page, page')
      BY <1>1 DEF ViewerInv, PageInv, JobInv, IsPage, Fields, SameFrames
  <1>3. IsAnalysis(k) /\ (k.full => Session(k.log, k.index) \in page.frames)
      BY DEF IsAnalysis, HasFrames, CurrentSession
  <1>4. r.page = page' /\ r.jobs = jobs'
      OBVIOUS
  <1> HIDE DEF k, r
  <1>5. Begun(page, jobs, r)
      BY <1>1, <1>2, <1>3, <1>4 DEF Begun
  <1> QED
      BY <1>4, <1>5, BegunHolds DEF Held

\* A function that is no analysis ends.
LEMMA EndingHolds ==
  ASSUME Held, NEW j \in jobs, ~IsAnalysis(j), SameFrames(page, page'), jobs' = jobs \ {j}
  PROVE  Held'
  <1>1. HeldForJobs(page, jobs')
      BY DEF Held, HeldInv, HeldForJobs
  <1>2. \A i : InFlight(jobs, i) => InFlight(jobs', i)
      BY DEF InFlight, IsAnalysis
  <1> QED
      BY <1>1, <1>2, JobsChange DEF Held

LEMMA OpenProceedsHolds ==
  ASSUME ViewerInv, Held, NEW j \in jobs, OpenProceeds(j)
  PROVE  Held'
  <1>1. PageInv(page, jobs) /\ IsPage(page) /\ IsOpen(j) /\ j.op = "open" /\ ~IsAnalysis(j)
      BY TokensAreIssued DEF ViewerInv, PageInv, JobInv, OpenProceeds, IsAnalysis
  <1>2. CASE ~OwnsScreen(j)
    <2>1. jobs' = jobs \ {j} /\ SameFrames(page, page')
        BY <1>2 DEF OpenProceeds, Drop, Over, SameFrames
    <2> QED
        BY <1>1, <2>1, EndingHolds
  <1>3. CASE OwnsScreen(j)
    <2> DEFINE k == [j EXCEPT !.at = NextStop[j.at]]
    <2>1. /\ jobs' = (jobs \ {j}) \cup {k} /\ j.token = page.fileOpenRun
          /\ \/ page' = page
             \/ page' = [page EXCEPT !.sessionIndex = 1, !.records = None, !.recent = <<>>]
        BY <1>3 DEF OpenProceeds, Goes, Over, OwnsScreen
    <2>2. k.op = "open" /\ k.token = j.token
        BY <1>1 DEF IsOpen
    <2>3. page.result = None
        BY <1>1, <2>1, OwnerHasNoLog
    <2> HIDE DEF k
    <2>4. /\ page'.result = None /\ page'.recent = <<>> /\ page'.frames = page.frames
          /\ page'.fileOpenRun = page.fileOpenRun
        BY <1>1, <2>1, <2>3 DEF IsPage, Fields, Held, HeldInv, ListInv
    <2>5. ListInv(page')
        BY <2>4 DEF ListInv, Held, HeldInv
    <2>6. HeldForJobs(page', jobs')
      <3>1. HeldForJobs(page, jobs)
          BY DEF Held, HeldInv
      <3>2. Owner(page, j)
          BY <1>1, <2>1 DEF Owner
      <3>3. \A s \in page.frames : s.log.id # k.token
          BY <2>2, <3>1, <3>2 DEF HeldForJobs
      <3> QED
          BY <2>1, <2>2, <2>4, <3>1, <3>3 DEF HeldForJobs, Owner, IsAnalysis
    <2> QED
        BY <2>4, <2>5, <2>6 DEF Held, HeldInv
  <1> QED
      BY <1>2, <1>3

LEMMA BytesRefusedHolds ==
  ASSUME ViewerInv, Held, NEW j \in jobs, BytesRefused(j)
  PROVE  Held'
  <1>1. SameFrames(page, page')
    <2>1. IsPage(page)
        BY DEF ViewerInv, PageInv, JobInv
    <2>2. page' = page \/ page' = [page EXCEPT !.screen = Screen("failed", None)]
        BY DEF BytesRefused
    <2> QED
        BY <2>1, <2>2 DEF IsPage, Fields, SameFrames
  <1>2. jobs' = jobs \ {j} /\ ~IsAnalysis(j)
      BY DEF BytesRefused, Over, IsAnalysis
  <1> QED
      BY <1>1, <1>2, EndingHolds

\* The newest log has no frames yet.
LEMMA OpenLogHolds ==
  ASSUME ViewerInv, Held, NEW j \in jobs, OpenLog(j)
  PROVE  Held'
  <1>1. /\ PageInv(page, jobs) /\ IsPage(page) /\ j.op = "open" /\ ~IsAnalysis(j)
        /\ j.token \in 1..page.fileOpenRun /\ j.file \in Files
      BY TokensAreIssued DEF ViewerInv, PageInv, JobInv, OpenLog, IsAnalysis
  <1>2. CASE ~OwnsScreen(j)
    <2>1. jobs' = jobs \ {j} /\ SameFrames(page, page')
        BY <1>2 DEF OpenLog, Drop, Over, SameFrames
    <2> QED
        BY <1>1, <2>1, EndingHolds
  <1>3. CASE OwnsScreen(j)
    <2> DEFINE K == jobs \ {j}
               l == Log(j.token, j.file)
    <2>1. j.token = page.fileOpenRun /\ Owner(page, j)
        BY <1>1, <1>3 DEF OwnsScreen, Owner
    <2>2. page.result = None /\ page.recent = <<>>
        BY <1>1, <2>1, OwnerHasNoLog DEF Held, HeldInv, ListInv
    <2>3. CASE Flights[j.file] = <<>>
      <3>1. /\ page' = [CloseCurrentLog(page) EXCEPT !.screen = Screen("failed", None)]
            /\ jobs' = K
          BY <1>3, <2>3 DEF OpenLog, Over
      <3>2. /\ page'.result = None /\ page'.recent = <<>> /\ page'.frames = page.frames
            /\ page'.fileOpenRun = page.fileOpenRun
          BY <1>1, <3>1 DEF CloseCurrentLog, IsPage, Fields
      <3>3. ListInv(page') /\ HeldForJobs(page', jobs')
          BY <2>2, <3>1, <3>2 DEF ListInv, HeldForJobs, Owner, Held, HeldInv
      <3> QED
          BY <3>2, <3>3 DEF Held, HeldInv
    <2>4. CASE Flights[j.file] # <<>>
      <3> DEFINE q == [page EXCEPT !.result = l]
      <3>1. page' = OpenSession(q, K, 1).page /\ jobs' = OpenSession(q, K, 1).jobs
          BY <1>3, <2>4 DEF OpenLog, Become, Over
      <3>2. IsLog(l) /\ l.file = j.file /\ l.id = j.token
          BY <1>1 DEF IsLog, Log
      <3>3. 1 \in Places(l)
        <4>1. Flights[j.file] \in Seq(Kinds)
            BY <1>1, ViewerAssumption
        <4> HIDE DEF l
        <4> QED
            BY <2>4, <3>2, <4>1 DEF Places
      <3> HIDE DEF l
      <3>4. /\ IsPage(q) /\ q.result = l /\ q.recent = <<>> /\ q.frames = page.frames
            /\ q.fileOpenRun = page.fileOpenRun
          BY <1>1, <2>2 DEF IsPage, Fields
      <3> HIDE DEF q
      <3>5. HeldForJobs(q, K)
          BY <3>4 DEF Held, HeldInv, HeldForJobs, Owner
      <3>6. Listed(q)
        <4>1. \A s \in page.frames : s.log.id # j.token
            BY <2>1 DEF Held, HeldInv, HeldForJobs
        <4> QED
            BY <3>2, <3>4, <4>1 DEF Listed
      <3>7. \A s \in q.frames : /\ s = Session(s.log, s.index) /\ IsLog(s.log)
                                /\ s.index \in Places(s.log) /\ s.log.id <= q.fileOpenRun
          BY <3>4 DEF Held, HeldInv, ListInv
      <3>8. IsLog(q.result) /\ 1 \in Places(q.result) /\ q.recent \in Seq(Places(q.result))
          BY <3>2, <3>3, <3>4
      <3> QED
          BY <3>1, <3>4, <3>5, <3>6, <3>7, <3>8, OpenSessionHolds DEF Held
    <2> QED
        BY <2>3, <2>4
  <1> QED
      BY <1>2, <1>3

\* A flight that is read is the one on screen, so it is held for somebody.
LEMMA ReadFramesHolds ==
  ASSUME ViewerInv, Held, NEW j \in jobs, ReadFrames(j)
  PROVE  Held'
  <1> DEFINE K == jobs \ {j}
             s == Session(j.log, j.index)
  <1>1. PageInv(page, jobs) /\ IsPage(page) /\ j.op = "read" /\ ~IsAnalysis(j)
      BY DEF ViewerInv, PageInv, JobInv, ReadFrames, IsAnalysis
  <1>2. CASE ~StillWanted(j)
    <2>1. jobs' = jobs \ {j} /\ SameFrames(page, page')
        BY <1>2 DEF ReadFrames, Drop, Over, SameFrames
    <2> QED
        BY <1>1, <2>1, EndingHolds
  <1>3. CASE StillWanted(j) /\ KindOf(s) = "faulty"
    <2> DEFINE t == [TakeDownAnalysis(page) EXCEPT !.screen = Screen("nothing", s)]
    <2>1. page' = t /\ jobs' = K
        BY <1>3 DEF ReadFrames, Become, To, Over
    <2>2. SameFrames(page, t)
        BY <1>1, TakingDownKeepsFrames
    <2> QED
        BY <1>1, <2>1, <2>2, EndingHolds
  <1>4. CASE StillWanted(j) /\ KindOf(s) # "faulty"
    <2> DEFINE l == page.result
               i == page.sessionIndex
               q == [page EXCEPT !.frames = @ \cup {s}]
               m == MoveToFront(q, j.index)
               r == RenderSession(m, K)
    <2>1. page' = r.page /\ jobs' = r.jobs
        BY <1>4 DEF ReadFrames, Become, Over
    <2>2. j.log = l /\ j.index = i /\ l # None
      <3>1. Wanted(page, j)
          BY <1>1, <1>4 DEF Wanted, StillWanted
      <3> QED
          BY <1>1, <3>1, TokensAreIssued DEF PageInv, ReadInv, Wanted
    <2>3. /\ ListInv(page) /\ HeldForJobs(page, jobs) /\ Listed(page)
          /\ CostOf(l, Spare(page, jobs)) <= Budget
        BY <2>2 DEF Held, HeldInv
    <2>4. IsLog(l) /\ i \in Places(l) /\ page.recent \in Seq(Places(l))
        BY <2>2, <2>3 DEF ListInv
    <2>5. l.id = page.fileOpenRun /\ \A k \in jobs : ~Owner(page, k)
        BY <1>1, <2>2 DEF PageInv, OpenInv
    <2>6. s = Session(s.log, s.index) /\ s.log = l /\ s.index = i
        BY <2>2 DEF Session
    <2>7. /\ IsPage(q) /\ q.result = l /\ q.sessionIndex = i /\ q.recent = page.recent
          /\ q.frames = page.frames \cup {s} /\ q.fileOpenRun = page.fileOpenRun
        BY <1>1 DEF IsPage, Fields
    <2>8. m = MoveToFront(q, i)
        BY <2>2
    <2> HIDE DEF q, s, m
    <2>9. /\ IsPage(m) /\ m.result = l /\ m.sessionIndex = i /\ m.frames = page.frames \cup {s}
          /\ m.fileOpenRun = page.fileOpenRun /\ m.recent \in Seq(Places(l))
          /\ i \in Range(m.recent) /\ Range(page.recent) \subseteq Range(m.recent)
      <3> DEFINE I == Places(l)
      <3>1. q.recent \in Seq(I) /\ i \in I
          BY <2>4, <2>7
      <3> HIDE DEF I
      <3>2. LET n == MoveToFront(q, i)
            IN /\ IsPage(n) /\ n.result = q.result /\ n.sessionIndex = q.sessionIndex
               /\ n.frames = q.frames /\ n.fileOpenRun = q.fileOpenRun
               /\ n.recent \in Seq(I) /\ i \in Range(n.recent)
               /\ Range(q.recent) \subseteq Range(n.recent)
          BY <2>7, <3>1, MovedToFront
      <3> QED
          BY <2>7, <2>8, <3>2 DEF I
    <2> HIDE DEF l, i
    <2>10. ListInv(m)
      <3>1. s.log.id <= m.fileOpenRun
          BY <1>1, <2>5, <2>6, <2>9 DEF IsPage
      <3> QED
          BY <2>2, <2>3, <2>4, <2>6, <2>9, <3>1 DEF ListInv
    <2>11. HeldForJobs(m, K)
        BY <2>3, <2>5, <2>9 DEF HeldForJobs, Owner
    <2>12. Listed(m)
        BY <2>3, <2>6, <2>9 DEF Listed, l
    <2>13. CostOf(l, Spare(m, K)) <= Budget
      <3>1. \A n : InFlight(jobs, n) => InFlight(K, n)
          BY <1>1 DEF InFlight, IsAnalysis
      <3>2. Spare(m, K) \subseteq Spare(page, jobs)
          BY <2>6, <2>9, <3>1 DEF Spare, l, i
      <3>3. CostOf(l, Spare(m, K)) <= CostOf(l, Spare(page, jobs))
          BY <2>4, <3>2, CostLess
      <3>4. /\ CostOf(l, Spare(m, K)) \in Nat /\ CostOf(l, Spare(page, jobs)) \in Nat
            /\ Budget \in Nat
          BY <2>4, CostNone, ViewerAssumption
      <3> QED
          BY <2>3, <3>3, <3>4
    <2>14. HeldInv(m, K)
        BY <2>9, <2>10, <2>11, <2>12, <2>13 DEF HeldInv
    <2>15. Begun(m, K, r)
        BY <2>9, RenderSessionIsBegun
    <2> HIDE DEF r
    <2> QED
        BY <2>1, <2>14, <2>15, BegunHolds DEF Held
  <1> QED
      BY <1>2, <1>3, <1>4

\* An analysis ends: what it read may be given up.
LEMMA AnalysisOverHolds ==
  ASSUME ViewerInv, Held, NEW j \in jobs, NEW p, IsPage(p), SameFrames(page, p),
         Become(AnalysisOver(p, j))
  PROVE  Held'
  <1>1. page' = Evict(p, jobs', p.sessionIndex) /\ jobs' = jobs \ {j}
      BY DEF Become, AnalysisOver, To, Over
  <1>2. ListInv(p) /\ HeldForJobs(p, jobs') /\ (p.result # None => Listed(p))
      BY <1>1 DEF Held, HeldInv, ListInv, HeldForJobs, Owner, Listed, SameFrames
  <1> QED
      BY <1>1, <1>2, EvictHolds DEF Held

LEMMA TakeMaterialHolds ==
  ASSUME ViewerInv, Held, NEW j \in jobs, TakeMaterial(j)
  PROVE  Held'
  <1> DEFINE k == [j EXCEPT !.at = "module", !.scoped = AnalysedSession(page)]
  <1>1. PageInv(page, jobs) /\ IsPage(page) /\ j.op = "advise" /\ IsAdvise(j)
      BY TokensAreIssued DEF ViewerInv, PageInv, JobInv, TakeMaterial
  <1>2. CASE ~IsLatest(j)
    <2>1. Become(AnalysisOver(page, j)) /\ SameFrames(page, page)
        BY <1>2 DEF TakeMaterial, SameFrames
    <2> QED
        BY <1>1, <2>1, AnalysisOverHolds
  <1>3. CASE IsLatest(j)
    <2>1. page' = page /\ jobs' = (jobs \ {j}) \cup {k}
        BY <1>3 DEF TakeMaterial, Over
    <2>2. k.op = "advise" /\ k.log = j.log /\ k.index = j.index /\ k.full = j.full
        BY <1>1 DEF IsAdvise
    <2> HIDE DEF k
    <2>3. HeldForJobs(page, jobs')
        BY <1>1, <2>1, <2>2 DEF Held, HeldInv, HeldForJobs, Owner, IsAnalysis
    <2>4. \A i : InFlight(jobs, i) => InFlight(jobs', i)
        BY <1>1, <2>1, <2>2 DEF InFlight
    <2>5. SameFrames(page, page')
        BY <2>1 DEF SameFrames
    <2> QED
        BY <2>1, <2>3, <2>4, <2>5, JobsChange DEF Held
  <1> QED
      BY <1>2, <1>3

LEMMA AdviseHolds ==
  ASSUME ViewerInv, Held, NEW j \in jobs, Advise(j)
  PROVE  Held'
  <1> DEFINE found == IF j.scoped = None THEN page ELSE [page EXCEPT !.records = j.scoped]
             painted == IF ~IsLatest(j) THEN found
                        ELSE IF j.scoped = None THEN [found EXCEPT !.advice = Failed]
                        ELSE [found EXCEPT !.advice = j.scoped,
                                           !.candidate = Window(CurrentSession(found),
                                                                found.window.cut)]
  <1>1. IsPage(page)
      BY DEF ViewerInv, PageInv, JobInv
  <1>2. Become(AnalysisOver(painted, j))
      BY DEF Advise
  <1>3. IsPage(found) /\ SameFrames(page, found)
      BY <1>1 DEF IsPage, Fields, SameFrames
  <1> HIDE DEF found
  <1>4. IsPage(painted) /\ SameFrames(found, painted)
      BY <1>3 DEF IsPage, Fields, SameFrames
  <1> HIDE DEF painted
  <1>5. SameFrames(page, painted)
      BY <1>3, <1>4 DEF SameFrames
  <1> QED
      BY <1>2, <1>4, <1>5, AnalysisOverHolds

LEMMA AdviseFailsHolds ==
  ASSUME ViewerInv, Held, NEW j \in jobs, AdviseFails(j)
  PROVE  Held'
  <1> DEFINE q == IF IsLatest(j) THEN [page EXCEPT !.advice = Failed] ELSE page
  <1>1. IsPage(q) /\ SameFrames(page, q)
      BY DEF ViewerInv, PageInv, JobInv, IsPage, Fields, SameFrames
  <1>2. Become(AnalysisOver(q, j))
      BY DEF AdviseFails
  <1> HIDE DEF q
  <1> QED
      BY <1>1, <1>2, AnalysisOverHolds

LEMMA VibrateHolds ==
  ASSUME ViewerInv, Held, NEW j \in jobs, Vibrate(j)
  PROVE  Held'
  <1> DEFINE s == Session(j.log, j.index)
             q == IF j.token # page.vibrationRun THEN page
                  ELSE IF ~HasFrames(page, s) THEN [page EXCEPT !.vibration = Failed]
                  ELSE [page EXCEPT !.vibration = [session |-> s, view |-> j.view],
                                    !.shownFor = j.view]
  <1>1. IsPage(q) /\ SameFrames(page, q)
      BY DEF ViewerInv, PageInv, JobInv, IsPage, Fields, SameFrames
  <1>2. Become(AnalysisOver(q, j))
      BY DEF Vibrate
  <1> HIDE DEF q
  <1> QED
      BY <1>1, <1>2, AnalysisOverHolds

LEMMA HeldIsInductive == Spec => [](ViewerInv /\ Held)
  <1>1. Init => ViewerInv /\ Held
    <2>1. SUFFICES ASSUME Init PROVE Held
        BY InitHolds
    <2>2. page.result = None /\ page.recent = <<>> /\ page.frames = {} /\ jobs = {}
        BY <2>1 DEF Init
    <2> QED
        BY <2>2 DEF Held, HeldInv, ListInv, HeldForJobs
  <1>2. (ViewerInv /\ Held) /\ [Next]_vars => (ViewerInv /\ Held)'
    <2> SUFFICES ASSUME ViewerInv, Held, [Next]_vars PROVE ViewerInv' /\ Held'
        OBVIOUS
    <2>1. CASE UNCHANGED vars
        BY <2>1 DEF vars, ViewerInv, Held
    <2>2. CASE Pilot
        BY <2>2, PilotKeeps, OpenFileHolds, ShellHolds, PickSessionHolds, MoveWindowHolds,
           AnalyseHolds, PanHolds, MeasureVibrationHolds DEF Pilot
    <2>3. CASE Thread
      <3>1. CASE ModuleArrives
          BY <2>3, <3>1, ThreadKeeps DEF ModuleArrives, Held
      <3>2. CASE \E j \in jobs : \/ OpenProceeds(j) \/ BytesRefused(j) \/ OpenLog(j)
                                 \/ ReadFrames(j) \/ TakeMaterial(j) \/ Advise(j)
                                 \/ AdviseFails(j) \/ Vibrate(j)
          BY <2>3, <3>2, ThreadKeeps, OpenProceedsHolds, BytesRefusedHolds, OpenLogHolds,
             ReadFramesHolds, TakeMaterialHolds, AdviseHolds, AdviseFailsHolds, VibrateHolds
      <3> QED
          BY <2>3, <3>1, <3>2 DEF Thread
    <2> QED
        BY <2>1, <2>2, <2>3 DEF Next
  <1> QED
      BY <1>1, <1>2, PTL DEF Spec

\* For any files, flights, costs, budget and taps: an analysis finds the frames it
\* began on, whatever was opened, read or given up meanwhile, and apart from the flight
\* on screen and those being analysed what the open log holds fits the budget, every
\* one of them on the list (evictDecodedSessions, analysesInFlight).
THEOREM FramesAreHeld == Spec => []FramesAreAccounted
  <1>1. ViewerInv /\ Held => FramesAreAccounted
    <2> SUFFICES ASSUME Held PROVE AnalysedFlightIsHeld /\ HeldFramesFit
        BY DEF FramesAreAccounted
    <2>1. AnalysedFlightIsHeld
        BY DEF AnalysedFlightIsHeld, HasFrames, Held, HeldInv, HeldForJobs, IsAnalysis
    <2>2. HeldFramesFit
        BY DEF HeldFramesFit, Held, HeldInv, Listed
    <2> QED
        BY <2>1, <2>2
  <1> QED
      BY <1>1, HeldIsInductive, PTL
=============================================================================
