----------------------------- MODULE AndroidImport -----------------------------
(***************************************************************************)
(* The import slot of the Android shell: MainActivity (UI thread), one     *)
(* worker thread per selection running ImportStore.accept, the cache       *)
(* directory, the events held for a page that cannot hear them yet         *)
(* (PendingImportEvents), and the replacement of a dead WebView renderer   *)
(* (RendererRecovery).  The UI thread runs one handler at a time, but a    *)
(* handler that retires the slot is three steps here, because workers run  *)
(* between them.  A selection is named by its generation, and its cache    *)
(* file by <<activity, generation>>: SEQUENCE never gives a name twice in  *)
(* a process, and accept() runs at most once for a generation.  The        *)
(* interrupt of a superseded worker is left out: the generation it lost    *)
(* already makes accept() stop at the next buffer.                         *)
(***************************************************************************)
EXTENDS Naturals, Sequences

CONSTANTS Activities,    \* MainActivity instances one process may create
          MaxGen,        \* bound: generations an activity hands out
          MaxProgress,   \* bound: progress reports of one copy
          MaxLosses,     \* bound: renderer losses of one activity
          MaxReloads,    \* bound: page reloads of one activity
          MaxCrashes     \* bound: deaths of the process

ASSUME BoundsAssumption ==
    /\ Activities # {}
    /\ MaxGen \in Nat /\ MaxProgress \in Nat /\ MaxLosses \in Nat
    /\ MaxReloads \in Nat /\ MaxCrashes \in Nat

VARIABLES
    life,      \* of each activity: "unborn", "live", "finishing", "destroyed"
    gen,       \* importGeneration
    viewer,    \* "up"; "down" (webView is null); "unavailable" (and for good)
    ready,     \* pageReady
    loaded,    \* RendererRecovery.loadedSinceLastLoss
    picking,   \* the document picker is open above the activity
    open,      \* the generation openLogName belongs to, 0 for null
    pend,      \* PendingImportEvents
    cur,       \* ImportStore.current: the generation whose file it is, 0 for null
    work,      \* the worker of each generation
    posts,     \* runnables posted to the main looper, oldest first
    ui,        \* the handler the UI thread is inside of
    disk,      \* files in cache/imports
    purged,    \* ImportStore.PURGED of this process
    heard,     \* history: what the current document heard of its newest generation
    told,      \* history: the last outcome the activity's pages heard
    lostAt,    \* history: the generation that was open at the last renderer loss
    count      \* counters behind the bounds

actVars == <<life, gen, viewer, ready, loaded, picking, open, pend, cur, heard, told, lostAt>>
vars == <<actVars, work, posts, ui, disk, purged, count>>

Gens == 1..MaxGen
File(a, g) == <<a, g>>

Event(kind, g) == [kind |-> kind, gen |-> g]
NoEvent == Event("none", 0)
Terminal == {"ready", "failed"}

NewWorker == [phase |-> "none", result |-> "none", reports |-> 0]
Idle == [at |-> "idle", a |-> CHOOSE a \in Activities : TRUE, next |-> "none", lost |-> FALSE]
Slot(g) == [gen |-> g, start |-> NoEvent, terminal |-> NoEvent]

\* Faulty variant: any worker of a live activity is current.
IsCurrentAnyGen(a, g) == life[a] = "live"

\* isCurrentImport: only the newest selection of a live activity counts.
IsCurrent(a, g) == gen[a] = g /\ life[a] = "live"

-----------------------------------------------------------------------------
(* Everything a process starts with; the cache directory outlives it. *)

Fresh ==
    /\ life   = [a \in Activities |-> "unborn"]
    /\ gen    = [a \in Activities |-> 0]
    /\ viewer = [a \in Activities |-> "down"]
    /\ ready  = [a \in Activities |-> FALSE]
    /\ loaded = [a \in Activities |-> TRUE]
    /\ picking = [a \in Activities |-> FALSE]
    /\ open   = [a \in Activities |-> 0]
    /\ pend   = [a \in Activities |-> Slot(0)]
    /\ cur    = [a \in Activities |-> 0]
    /\ work   = [a \in Activities |-> [g \in Gens |-> NewWorker]]
    /\ posts  = <<>>
    /\ ui     = Idle
    /\ purged = FALSE
    /\ heard  = [a \in Activities |-> <<>>]
    /\ told   = [a \in Activities |-> NoEvent]
    /\ lostAt = [a \in Activities |-> 0]

Init ==
    /\ Fresh
    /\ disk = {}
    /\ count = [crashes |-> 0, losses |-> [a \in Activities |-> 0],
                reloads |-> [a \in Activities |-> 0]]

-----------------------------------------------------------------------------
(* Events for the page.  A document keeps what it heard of its newest     *)
(* generation; the order inside it is what the page depends on.           *)

Hears(h, e) == IF h # <<>> /\ e.gen > h[Len(h)].gen THEN <<e>> ELSE Append(h, e)

\* The page hears the events of the sequence s, in that order.
Deliver(a, s) ==
    /\ heard' = [heard EXCEPT ![a] = IF Len(s) = 0 THEN @
                                     ELSE IF Len(s) = 1 THEN Hears(@, s[1])
                                     ELSE Hears(Hears(@, s[1]), s[2])]
    /\ told' = [told EXCEPT ![a] = IF Len(s) > 0 /\ s[Len(s)].kind \in Terminal
                                   THEN s[Len(s)] ELSE @]

\* Faulty variant: only start events are held, an outcome is sent or lost.
QueueStartOnly(p, e) ==
    IF e.gen # p.gen \/ e.kind # "start" THEN p ELSE [p EXCEPT !.start = e]

\* queueStart and queueTerminal: only an event of the generation the slot is
\* open for is kept, the newest of its kind.
Queue(p, e) ==
    IF e.gen # p.gen THEN p
    ELSE IF e.kind = "start" THEN [p EXCEPT !.start = e] ELSE [p EXCEPT !.terminal = e]

\* dispatchImportStart, dispatchTerminal: drop it, send it, or hold it.
Dispatch(a, e) ==
    IF ~IsCurrent(a, e.gen) THEN UNCHANGED <<pend, heard, told>>
    ELSE IF ready[a] THEN Deliver(a, <<e>>) /\ UNCHANGED pend
    ELSE /\ pend' = [pend EXCEPT ![a] = Queue(@, e)]
         /\ UNCHANGED <<heard, told>>

\* openLogName follows the start, ready and failure events of the current import.
NameOpen(a, e) ==
    open' = [open EXCEPT ![a] = IF ~IsCurrent(a, e.gen) THEN @
                                ELSE IF e.kind = "failed" THEN 0 ELSE e.gen]

Notify(a, e) == Dispatch(a, e) /\ NameOpen(a, e)

-----------------------------------------------------------------------------
(* retireImportSlot, and the handlers that begin with it.                  *)

\* Faulty variant: the events held for the page outlive their selection.
RetireKeepsHeld(a, next, lost) ==
    /\ ui.at = "idle" /\ gen[a] < MaxGen
    /\ gen' = [gen EXCEPT ![a] = @ + 1]
    /\ open' = [open EXCEPT ![a] = 0]
    /\ ui' = [at |-> "clear", a |-> a, next |-> next, lost |-> lost]
    /\ UNCHANGED pend

\* Its first part: a new generation, nothing held for the page.  "next" says
\* what the handler does once the cache is clear, "lost" what it captured.
Retire(a, next, lost) ==
    /\ ui.at = "idle" /\ gen[a] < MaxGen
    /\ gen' = [gen EXCEPT ![a] = @ + 1]
    /\ pend' = [pend EXCEPT ![a] = Slot(gen[a] + 1)]
    /\ open' = [open EXCEPT ![a] = 0]
    /\ ui' = [at |-> "clear", a |-> a, next |-> next, lost |-> lost]

\* ImportStore.clear, under its monitor: nothing is current.
ClearCurrent ==
    /\ ui.at = "clear"
    /\ cur' = [cur EXCEPT ![ui.a] = 0]
    /\ ui' = [ui EXCEPT !.at = "unlink"]
    /\ UNCHANGED <<life, gen, viewer, ready, loaded, picking, open, pend, heard, told, lostAt,
                   work, posts, disk, purged, count>>

\* The rest of clear, outside the monitor: every import-*.bin there is now.
Unlink(next) ==
    /\ ui.at = "unlink" /\ ui.next = next
    /\ disk' = {}
    /\ ui' = Idle
    /\ UNCHANGED <<gen, picking, cur, lostAt, purged, count>>

\* importFrom: tell the page at once, then let a worker copy.
BeginImport ==
    LET a == ui.a IN
    /\ Unlink("import")
    /\ Notify(a, Event("start", gen[a]))
    /\ work' = [work EXCEPT ![a][gen[a]].phase = "lookup"]
    /\ UNCHANGED <<life, viewer, ready, loaded, posts>>

\* A share that carried text and no stream.
RefuseShare ==
    LET a == ui.a IN
    /\ Unlink("nofile")
    /\ Notify(a, Event("failed", gen[a]))
    /\ UNCHANGED <<life, viewer, ready, loaded, work, posts>>

\* recoverFromRendererLoss after the slot is retired: a replacement is posted,
\* unless the dead renderer never finished loading a page.
Recover ==
    LET a == ui.a IN
    /\ Unlink("recover")
    /\ loaded' = [loaded EXCEPT ![a] = FALSE]
    /\ IF loaded[a]
       THEN /\ posts' = Append(posts, [a |-> a, run |-> "rebuild", gen |-> gen[a],
                                       result |-> IF ui.lost THEN "failed" ELSE "none"])
            /\ UNCHANGED viewer
       ELSE viewer' = [viewer EXCEPT ![a] = "unavailable"] /\ UNCHANGED posts
    /\ UNCHANGED <<life, ready, open, pend, heard, told, work>>

\* onDestroy after the slot is retired.
EndDestroy ==
    LET a == ui.a IN
    /\ Unlink("destroy")
    /\ life' = [life EXCEPT ![a] = "destroyed"]
    /\ UNCHANGED <<viewer, ready, loaded, open, pend, heard, told, work, posts>>

-----------------------------------------------------------------------------
(* What the system and the user bring to the UI thread.                    *)

\* Faulty variant: what an earlier process left in the cache stays there.
CreateNoPurge(a, opened) ==
    /\ ui.at = "idle" /\ life[a] = "unborn" /\ \A b \in Activities : life[b] # "live"
    /\ life' = [life EXCEPT ![a] = "live"]
    /\ viewer' = [viewer EXCEPT ![a] = "up"]
    /\ purged' = TRUE
    /\ IF opened = "plain" THEN UNCHANGED <<gen, pend, open, ui>>
       ELSE Retire(a, opened, FALSE)
    /\ UNCHANGED <<ready, loaded, picking, cur, work, posts, disk, heard, told, lostAt, count>>

\* onCreate: the store (which purges once for each process) and the viewer,
\* then the intent the activity was opened with.  launchMode is singleTask: a
\* second instance appears only once the first is finishing, and may do so before
\* the first one's onDestroy.
Create(a, opened) ==
    /\ ui.at = "idle" /\ life[a] = "unborn" /\ \A b \in Activities : life[b] # "live"
    /\ life' = [life EXCEPT ![a] = "live"]
    /\ viewer' = [viewer EXCEPT ![a] = "up"]
    /\ disk' = IF purged THEN disk ELSE {}
    /\ purged' = TRUE
    /\ IF opened = "plain" THEN UNCHANGED <<gen, pend, open, ui>>
       ELSE Retire(a, opened, FALSE)
    /\ UNCHANGED <<ready, loaded, picking, cur, work, posts, heard, told, lostAt, count>>

\* onNewIntent, handleIntent: nothing is taken in without a viewer.
NewIntent(a, opened) ==
    /\ life[a] = "live" /\ viewer[a] = "up"
    /\ Retire(a, opened, FALSE)
    /\ UNCHANGED <<life, viewer, ready, loaded, picking, cur, heard, told, lostAt,
                   work, posts, disk, purged, count>>

\* NativeBridge.pickFile, from a page that is up.  Whether and when the picker
\* answers is the user's affair; closing it without a choice changes nothing.
PickFile(a) ==
    /\ ui.at = "idle" /\ life[a] = "live" /\ viewer[a] = "up" /\ ready[a] /\ ~picking[a]
    /\ picking' = [picking EXCEPT ![a] = TRUE]
    /\ UNCHANGED <<life, gen, viewer, ready, loaded, open, pend, cur, heard, told, lostAt,
                   work, posts, ui, disk, purged, count>>

\* The picker's result, whatever became of the viewer meanwhile.
Picked(a) ==
    /\ life[a] = "live" /\ picking[a]
    /\ picking' = [picking EXCEPT ![a] = FALSE]
    /\ Retire(a, "import", FALSE)
    /\ UNCHANGED <<life, viewer, ready, loaded, cur, heard, told, lostAt,
                   work, posts, disk, purged, count>>

\* onPageStarted: a document with no listeners yet.
PageStarted(a) ==
    /\ ui.at = "idle" /\ life[a] = "live" /\ viewer[a] = "up" /\ ready[a]
    /\ count.reloads[a] < MaxReloads
    /\ ready' = [ready EXCEPT ![a] = FALSE]
    /\ heard' = [heard EXCEPT ![a] = <<>>]
    /\ count' = [count EXCEPT !.reloads[a] = @ + 1]
    /\ UNCHANGED <<life, gen, viewer, loaded, picking, open, pend, cur, told, lostAt,
                   work, posts, ui, disk, purged>>

\* What drain returns: the start it held before the outcome it held.
Drained(a) ==
    LET OneOf(e) == IF e = NoEvent THEN <<>> ELSE <<e>>
    IN IF pend[a].gen # gen[a] THEN <<>>
       ELSE OneOf(pend[a].start) \o OneOf(pend[a].terminal)

\* onPageFinished: the page can hear, and hears what was held for it.
PageFinished(a) ==
    /\ ui.at = "idle" /\ life[a] \in {"live", "finishing"} /\ viewer[a] = "up" /\ ~ready[a]
    /\ ready' = [ready EXCEPT ![a] = TRUE]
    /\ loaded' = [loaded EXCEPT ![a] = TRUE]
    /\ Deliver(a, Drained(a))
    /\ pend' = [pend EXCEPT ![a] = IF @.gen = gen[a] THEN Slot(@.gen) ELSE @]
    /\ UNCHANGED <<life, gen, viewer, picking, open, cur, lostAt,
                   work, posts, ui, disk, purged, count>>

\* Faulty variant: the slot, and what is held for the page, survive the renderer.
RendererGoneKeepsSlot(a) ==
    /\ ui.at = "idle" /\ life[a] \in {"live", "finishing"} /\ viewer[a] = "up"
    /\ count.losses[a] < MaxLosses /\ loaded[a]
    /\ viewer' = [viewer EXCEPT ![a] = "down"]
    /\ ready' = [ready EXCEPT ![a] = FALSE]
    /\ heard' = [heard EXCEPT ![a] = <<>>]
    /\ lostAt' = [lostAt EXCEPT ![a] = gen[a]]
    /\ loaded' = [loaded EXCEPT ![a] = FALSE]
    /\ count' = [count EXCEPT !.losses[a] = @ + 1]
    /\ posts' = Append(posts, [a |-> a, run |-> "rebuild", gen |-> gen[a], result |-> "none"])
    /\ UNCHANGED <<life, gen, picking, open, pend, cur, told, work, ui, disk, purged>>

\* onRenderProcessGone for the viewer on screen.
RendererGone(a) ==
    /\ life[a] \in {"live", "finishing"} /\ viewer[a] = "up"
    /\ count.losses[a] < MaxLosses
    /\ viewer' = [viewer EXCEPT ![a] = "down"]
    /\ ready' = [ready EXCEPT ![a] = FALSE]
    /\ heard' = [heard EXCEPT ![a] = <<>>]
    /\ lostAt' = [lostAt EXCEPT ![a] = gen[a]]
    /\ count' = [count EXCEPT !.losses[a] = @ + 1]
    /\ Retire(a, "recover", open[a] # 0)
    /\ UNCHANGED <<life, loaded, picking, cur, told, work, posts, disk, purged>>

\* The back button or the system ends the activity; onDestroy follows later.
Finish(a) ==
    /\ ui.at = "idle" /\ life[a] = "live"
    /\ life' = [life EXCEPT ![a] = "finishing"]
    /\ UNCHANGED <<gen, viewer, ready, loaded, picking, open, pend, cur, heard, told, lostAt,
                   work, posts, ui, disk, purged, count>>

Destroy(a) ==
    /\ life[a] = "finishing"
    /\ Retire(a, "destroy", FALSE)
    /\ UNCHANGED <<life, viewer, ready, loaded, picking, cur, heard, told, lostAt,
                   work, posts, disk, purged, count>>

\* The process is killed at any moment, inside a handler or a copy.
Crash ==
    /\ count.crashes < MaxCrashes
    /\ \E a \in Activities : life[a] # "unborn"
    /\ life' = [a \in Activities |-> "unborn"]   /\ gen' = [a \in Activities |-> 0]
    /\ viewer' = [a \in Activities |-> "down"]   /\ ready' = [a \in Activities |-> FALSE]
    /\ loaded' = [a \in Activities |-> TRUE]     /\ picking' = [a \in Activities |-> FALSE]
    /\ open' = [a \in Activities |-> 0]          /\ pend' = [a \in Activities |-> Slot(0)]
    /\ cur' = [a \in Activities |-> 0]           /\ heard' = [a \in Activities |-> <<>>]
    /\ told' = [a \in Activities |-> NoEvent]    /\ lostAt' = [a \in Activities |-> 0]
    /\ work' = [a \in Activities |-> [g \in Gens |-> NewWorker]]
    /\ posts' = <<>> /\ ui' = Idle /\ purged' = FALSE
    /\ count' = [count EXCEPT !.crashes = @ + 1]
    /\ UNCHANGED disk

-----------------------------------------------------------------------------
(* The worker of generation g: the name and size, ImportStore.accept, and  *)
(* the outcome.  What it shares is the disk, cur and the main looper.      *)

Working(a, g, phase) == work[a][g].phase = phase

Post(a, g, run, result) == Append(posts, [a |-> a, run |-> run, gen |-> g, result |-> result])

WorkerMoves(a, g, phase, result) ==
    work' = [work EXCEPT ![a][g].phase = phase, ![a][g].result = result]

\* The provider answered with a name and maybe a size; a superseded selection stops.
LookedUp(a, g) ==
    /\ Working(a, g, "lookup")
    /\ IF IsCurrent(a, g)
       THEN WorkerMoves(a, g, "sized", "none") /\ posts' = Post(a, g, "start", "none")
       ELSE WorkerMoves(a, g, "done", "none") /\ UNCHANGED posts
    /\ UNCHANGED <<actVars, ui, disk, purged, count>>

\* A declared size over the limit is refused before anything is copied.
DeclaredTooLarge(a, g) ==
    /\ Working(a, g, "sized")
    /\ WorkerMoves(a, g, "done", "failed")
    /\ posts' = Post(a, g, "outcome", "failed")
    /\ UNCHANGED <<actVars, ui, disk, purged, count>>

\* accept: the directory cannot be made, or the provider does not open.
OpenFails(a, g) ==
    /\ Working(a, g, "sized")
    /\ \E result \in {"failed"} \cup (IF IsCurrent(a, g) THEN {} ELSE {"cancelled"}) :
           WorkerMoves(a, g, "report", result)
    /\ UNCHANGED <<actVars, posts, ui, disk, purged, count>>

\* accept: the staging file is created.
OpenStaging(a, g) ==
    /\ Working(a, g, "sized")
    /\ WorkerMoves(a, g, "copying", "none")
    /\ disk' = disk \cup {File(a, g)}
    /\ UNCHANGED <<actVars, posts, ui, purged, count>>

\* A buffer of a current copy: perhaps a progress report.
CopyBuffer(a, g) ==
    /\ Working(a, g, "copying") /\ IsCurrent(a, g) /\ work[a][g].reports < MaxProgress
    /\ work' = [work EXCEPT ![a][g].reports = @ + 1]
    /\ posts' = Post(a, g, "progress", "none")
    /\ UNCHANGED <<actVars, ui, disk, purged, count>>

\* A buffer of a superseded copy, or one past the limit: the file goes.
CopyStops(a, g) ==
    /\ Working(a, g, "copying")
    /\ WorkerMoves(a, g, "report", IF IsCurrent(a, g) THEN "failed" ELSE "cancelled")
    /\ disk' = disk \ {File(a, g)}
    /\ UNCHANGED <<actVars, posts, ui, purged, count>>

\* The provider has no more to give; nothing is checked at the last read.
CopyEnds(a, g) ==
    /\ Working(a, g, "copying")
    /\ WorkerMoves(a, g, "publish", "none")
    /\ UNCHANGED <<actVars, posts, ui, disk, purged, count>>

\* Faulty variant: the generation is not asked again while publishing.
PublishUnchecked(a, g) ==
    /\ Working(a, g, "publish")
    /\ WorkerMoves(a, g, "report", "ready")
    /\ cur' = [cur EXCEPT ![a] = g]
    /\ disk' = disk \ {File(a, cur[a])}
    /\ UNCHANGED <<life, gen, viewer, ready, loaded, picking, open, pend, heard, told, lostAt,
                   posts, ui, purged, count>>

\* Publishing, under the store's monitor: only a current copy becomes the log.
\* The log it replaces is unlinked.
Publish(a, g) ==
    /\ Working(a, g, "publish")
    /\ IF IsCurrent(a, g)
       THEN /\ WorkerMoves(a, g, "report", "ready")
            /\ cur' = [cur EXCEPT ![a] = g]
            /\ disk' = disk \ {File(a, cur[a])}
       ELSE /\ WorkerMoves(a, g, "report", "cancelled")
            /\ disk' = disk \ {File(a, g)}
            /\ UNCHANGED cur
    /\ UNCHANGED <<life, gen, viewer, ready, loaded, picking, open, pend, heard, told, lostAt,
                   posts, ui, purged, count>>

\* The outcome is always posted; whether it still matters is asked on the UI thread.
Report(a, g) ==
    /\ Working(a, g, "report")
    /\ work' = [work EXCEPT ![a][g].phase = "done"]
    /\ posts' = Post(a, g, "outcome", work[a][g].result)
    /\ UNCHANGED <<actVars, ui, disk, purged, count>>

WorkerStep(a, g) ==
    \/ LookedUp(a, g) \/ DeclaredTooLarge(a, g) \/ OpenFails(a, g) \/ OpenStaging(a, g)
    \/ CopyBuffer(a, g) \/ CopyStops(a, g) \/ CopyEnds(a, g) \/ Publish(a, g) \/ Report(a, g)

-----------------------------------------------------------------------------
(* The runnables the main looper takes in the order they were posted.      *)

Taken(run) == ui.at = "idle" /\ posts # <<>> /\ Head(posts).run = run /\ posts' = Tail(posts)

RunStart ==
    LET p == Head(posts) IN
    /\ Taken("start")
    /\ Notify(p.a, Event("start", p.gen))
    /\ UNCHANGED <<life, gen, viewer, ready, loaded, picking, cur, lostAt,
                   work, ui, disk, purged, count>>

\* dispatchLive: progress is never held for later.
RunProgress ==
    LET p == Head(posts) IN
    /\ Taken("progress")
    /\ Deliver(p.a, IF IsCurrent(p.a, p.gen) /\ ready[p.a] THEN <<Event("progress", p.gen)>>
                    ELSE <<>>)
    /\ UNCHANGED <<life, gen, viewer, ready, loaded, picking, open, pend, cur, lostAt,
                   work, ui, disk, purged, count>>

\* notifyPage or notifyFailure; a cancelled copy is not a failure.
RunOutcome ==
    LET p == Head(posts) IN
    /\ Taken("outcome")
    /\ IF p.result = "cancelled" THEN UNCHANGED <<open, pend, heard, told>>
       ELSE Notify(p.a, Event(p.result, p.gen))
    /\ UNCHANGED <<life, gen, viewer, ready, loaded, picking, cur, lostAt,
                   work, ui, disk, purged, count>>

\* The replacement viewer, and the failure of the log the dead one held.
RunRebuild ==
    LET p == Head(posts) IN
    /\ Taken("rebuild")
    /\ IF life[p.a] = "live" /\ viewer[p.a] = "down"
       THEN /\ viewer' = [viewer EXCEPT ![p.a] = "up"]
            /\ IF p.result = "failed" THEN Notify(p.a, Event("failed", p.gen))
               ELSE UNCHANGED <<open, pend, heard, told>>
       ELSE UNCHANGED <<viewer, open, pend, heard, told>>
    /\ UNCHANGED <<life, gen, ready, loaded, picking, cur, lostAt,
                   work, ui, disk, purged, count>>

UiStep == ClearCurrent \/ BeginImport \/ RefuseShare \/ Recover \/ EndDestroy
RunPost == RunStart \/ RunProgress \/ RunOutcome \/ RunRebuild

SystemStep(a) ==
    \/ \E opened \in {"plain", "import", "nofile"} : Create(a, opened)
    \/ \E opened \in {"import", "nofile"} : NewIntent(a, opened)
    \/ PickFile(a) \/ Picked(a)
    \/ PageStarted(a) \/ PageFinished(a) \/ RendererGone(a) \/ Finish(a) \/ Destroy(a)

Next ==
    \/ UiStep \/ RunPost \/ Crash
    \/ \E a \in Activities : SystemStep(a) \/ \E g \in Gens : WorkerStep(a, g)

Spec == Init /\ [][Next]_vars

\* A handler and a posted runnable run, a page that loads finishes loading, and
\* a provider answers (the interrupt, and the size limit, see to that).  The
\* user, the system and the renderer owe nothing.
Fairness ==
    /\ WF_vars(UiStep) /\ WF_vars(RunPost)
    /\ \A a \in Activities : WF_vars(PageFinished(a))
    /\ \A a \in Activities, g \in Gens : WF_vars(WorkerStep(a, g))

FairSpec == Spec /\ Fairness

-----------------------------------------------------------------------------
(* Properties.                                                            *)

EventOf(kinds) == [kind : kinds, gen : 0..MaxGen]
WorkerPhases == {"none", "lookup", "sized", "copying", "publish", "report", "done"}

\* Types, and the numbering of generations: a worker, a posted runnable and a
\* published file belong to a generation retireImportSlot has handed out, and
\* PendingImportEvents is open for the newest one.
TypeOK ==
    /\ life \in [Activities -> {"unborn", "live", "finishing", "destroyed"}]
    /\ gen \in [Activities -> 0..MaxGen]
    /\ viewer \in [Activities -> {"up", "down", "unavailable"}]
    /\ ready \in [Activities -> BOOLEAN] /\ loaded \in [Activities -> BOOLEAN]
    /\ picking \in [Activities -> BOOLEAN]
    /\ purged \in BOOLEAN
    /\ disk \subseteq Activities \X Gens
    /\ ui.at \in {"idle", "clear", "unlink"} /\ ui.a \in Activities
    /\ \A a \in Activities :
        /\ cur[a] \in 0..gen[a] /\ open[a] \in 0..gen[a] /\ lostAt[a] \in 0..gen[a]
        /\ pend[a].gen = gen[a]
        /\ pend[a].start \in EventOf({"none", "start"})
        /\ pend[a].terminal \in EventOf({"none"} \cup Terminal)
        /\ \A g \in Gens : /\ work[a][g].phase \in WorkerPhases
                           /\ g > gen[a] => work[a][g].phase = "none"
    /\ \A i \in DOMAIN posts : posts[i].gen \in 1..gen[posts[i].a]

\* A log the page was told is ready can be fetched until the slot is retired:
\* AssetServer.serve finds it current and finds its file (notifyPage, serve,
\* clear).
ReadyIsServable ==
    \A a \in Activities :
        (life[a] = "live" /\ ui.at = "idle") =>
            \A i \in DOMAIN heard[a] :
                (heard[a][i].kind = "ready" /\ heard[a][i].gen = gen[a]) =>
                    cur[a] = gen[a] /\ File(a, gen[a]) \in disk

\* No flight outlives its session in the cache: once this process has purged,
\* every file there is the log being shown, a copy still being made, or about
\* to be unlinked by the handler the UI thread is in (ImportStore's promise
\* that exactly one log is kept).
NoStrandedFile ==
    purged => \A f \in disk :
        \/ cur[f[1]] = f[2]
        \/ work[f[1]][f[2]].phase \in {"copying", "publish"}
        \/ ui.at = "unlink"

\* Inside a document nothing of a selection follows its outcome: no late
\* progress bar, no second outcome, no start of an older file (the cold-start
\* replay PendingImportEvents is there to order).
OutcomeIsLast ==
    \A a \in Activities : \A i, j \in DOMAIN heard[a] :
        i < j => /\ heard[a][i].gen = heard[a][j].gen
                 /\ heard[a][i].kind \notin Terminal

\* The log that was open when a renderer died is never offered again, to the
\* replacement or any later viewer (recoverFromRendererLoss).
LostLogNotReoffered ==
    \A a \in Activities :
        /\ \A i \in DOMAIN heard[a] : heard[a][i].kind = "ready" => heard[a][i].gen > lostAt[a]
        /\ pend[a].terminal.kind = "ready" => pend[a].terminal.gen > lostAt[a]

\* Whatever was reloaded, lost or replayed, a page hears the start of a selection
\* and then its outcome, of a log that can still be had.
PageHearsInOrder == OutcomeIsLast /\ LostLogNotReoffered

\* A selection that stays the newest of a live activity with a viewer is
\* eventually told to a page, ready or failed.
SelectionIsAnswered ==
    \A a \in Activities : \A g \in Gens :
        (work[a][g].phase = "lookup") ~>
            \/ told[a].gen = g
            \/ ~IsCurrent(a, g)
            \/ viewer[a] = "unavailable"

\* The slot of an activity implements the promise NewestSelection states.
Observed == CHOOSE a \in Activities : TRUE

Promise == INSTANCE NewestSelection WITH
    newest <- gen[Observed],
    held <- (cur[Observed] # 0 /\ cur[Observed] = gen[Observed]),
    told <- told[Observed]

ImplementsNewestSelection == Promise!Spec

=============================================================================
