------------------------ MODULE AndroidImportRefinement ------------------------
(***************************************************************************)
(* What holds of the Android import slot for any number of activities,     *)
(* selections, reloads, renderer losses and process deaths: its types, who *)
(* may read the ready log, and what it promises of one selection - it is   *)
(* answered at most once, last of all that is said of it, and only while   *)
(* it is the newest.                                                       *)
(***************************************************************************)
EXTENDS AndroidImport, SequenceTheorems, TLAPS

-----------------------------------------------------------------------------
(* The slot.                                                                *)

Results == {"none", "failed", "cancelled", "ready"}
Outcomes == {"failed", "cancelled", "ready"}

WorkerType == [phase : WorkerPhases, result : Results, reports : Nat]
PostType == [a : Activities, run : {"start", "progress", "outcome", "rebuild"},
             gen : Nat, result : Results]
SlotType == [gen : Nat, start : EventOf({"none", "start"}),
             terminal : EventOf({"none"} \cup Terminal)]

\* TypeOK is not inductive: the type of a posted outcome rests on what a worker
\* reports, and a generation's bound on what was posted and begun.
ActivityTypes ==
    /\ life \in [Activities -> {"unborn", "live", "finishing", "destroyed"}]
    /\ gen \in [Activities -> 0..MaxGen]
    /\ viewer \in [Activities -> {"up", "down", "unavailable"}]
    /\ ready \in [Activities -> BOOLEAN]
    /\ loaded \in [Activities -> BOOLEAN]
    /\ picking \in [Activities -> BOOLEAN]

SlotTypes ==
    /\ open \in [Activities -> Nat]
    /\ cur \in [Activities -> Nat]
    /\ lostAt \in [Activities -> Nat]
    /\ pend \in [Activities -> SlotType]
    /\ \A a \in Activities : /\ open[a] <= gen[a] /\ cur[a] <= gen[a] /\ lostAt[a] <= gen[a]
                             /\ pend[a].gen = gen[a]

WorkTypes ==
    /\ work \in [Activities -> [Gens -> WorkerType]]
    /\ \A a \in Activities : \A g \in Gens :
        /\ g > gen[a] => work[a][g].phase = "none"
        /\ work[a][g].phase = "report" => work[a][g].result \in Outcomes

PostOK(p) == /\ p.gen >= 1 /\ p.gen <= gen[p.a]
             /\ p.run = "outcome" => p.result \in Outcomes

PostTypes ==
    /\ posts \in Seq(PostType)
    /\ \A i \in 1..Len(posts) : PostOK(posts[i])

UiTypes ==
    /\ ui \in [at : {"idle", "clear", "unlink"}, a : Activities,
               next : {"none", "import", "nofile", "recover", "destroy"}, lost : BOOLEAN]
    /\ ui.at # "idle" => gen[ui.a] >= 1

DiskTypes == purged \in BOOLEAN /\ disk \subseteq Activities \X Gens

TypeInv == ActivityTypes /\ SlotTypes /\ WorkTypes /\ PostTypes /\ UiTypes /\ DiskTypes

-----------------------------------------------------------------------------
(* What the operators of the model keep.                                   *)

\* The inductive invariant is at least TypeOK.
LEMMA TypeInvIsEnough == TypeInv => TypeOK
  <1> SUFFICES ASSUME TypeInv PROVE TypeOK
      OBVIOUS
  <1> USE BoundsAssumption
  <1>1. \A a \in Activities : /\ cur[a] \in 0..gen[a] /\ open[a] \in 0..gen[a]
                              /\ lostAt[a] \in 0..gen[a] /\ pend[a].gen = gen[a]
    <2> TAKE a \in Activities
    <2>1. cur[a] \in Nat /\ open[a] \in Nat /\ lostAt[a] \in Nat /\ gen[a] \in 0..MaxGen
        BY DEF TypeInv, ActivityTypes, SlotTypes
    <2> QED
        BY <2>1 DEF TypeInv, SlotTypes
  <1>2. \A a \in Activities : /\ pend[a].start \in EventOf({"none", "start"})
                              /\ pend[a].terminal \in EventOf({"none"} \cup Terminal)
      BY DEF TypeInv, SlotTypes, SlotType
  <1>3. \A a \in Activities : \A g \in Gens : /\ work[a][g].phase \in WorkerPhases
                                              /\ g > gen[a] => work[a][g].phase = "none"
      BY DEF TypeInv, WorkTypes, WorkerType
  <1>4. \A i \in DOMAIN posts : posts[i].gen \in 1..gen[posts[i].a]
    <2> TAKE i \in DOMAIN posts
    <2>1. i \in 1..Len(posts) /\ posts[i] \in PostType
        BY DEF TypeInv, PostTypes
    <2>2. gen[posts[i].a] \in Nat
        BY <2>1 DEF TypeInv, ActivityTypes, PostType
    <2> QED
        BY <2>1, <2>2 DEF TypeInv, PostTypes, PostOK, PostType
  <1> QED
      BY <1>1, <1>2, <1>3, <1>4 DEF TypeInv, TypeOK, ActivityTypes, UiTypes, DiskTypes

\* A program starts from well-typed nothing.
LEMMA FreshIsTyped == Fresh => ActivityTypes /\ SlotTypes /\ WorkTypes /\ PostTypes /\ UiTypes
  <1> SUFFICES ASSUME Fresh PROVE ActivityTypes /\ SlotTypes /\ WorkTypes /\ PostTypes /\ UiTypes
      OBVIOUS
  <1> USE BoundsAssumption
  <1>1. ActivityTypes
      BY DEF Fresh, ActivityTypes
  <1>2. Slot(0) \in SlotType /\ Slot(0).gen = 0
      BY DEF Slot, SlotType, EventOf, NoEvent, Event
  <1>3. SlotTypes
      BY <1>2 DEF Fresh, SlotTypes
  <1>4. NewWorker \in WorkerType /\ NewWorker.phase = "none"
      BY DEF NewWorker, WorkerType, WorkerPhases, Results
  <1>5. WorkTypes
      BY <1>4 DEF Fresh, WorkTypes
  <1>6. PostTypes
      BY DEF Fresh, PostTypes
  <1>7. UiTypes
      BY DEF Fresh, UiTypes, Idle
  <1> QED
      BY <1>1, <1>3, <1>5, <1>6, <1>7

\* PendingImportEvents keeps its generation whatever is offered to it.
LEMMA QueueIsTyped ==
  ASSUME NEW p \in SlotType, NEW kind \in {"start", "ready", "failed"}, NEW g \in 0..MaxGen
  PROVE  Queue(p, Event(kind, g)) \in SlotType /\ Queue(p, Event(kind, g)).gen = p.gen
  BY DEF Queue, SlotType, Event, EventOf, Terminal

\* An event, delivered, held or dropped, leaves the slot of every activity typed
\* and open for its newest generation.
LEMMA NotifyKeepsSlots ==
  ASSUME TypeInv, NEW a \in Activities, NEW kind \in {"start", "ready", "failed"},
         NEW g \in Nat, g <= gen[a], Notify(a, Event(kind, g)),
         gen' = gen, cur' = cur, lostAt' = lostAt
  PROVE  SlotTypes'
  <1> USE BoundsAssumption
  <1>1. g \in 0..MaxGen
      BY DEF TypeInv, ActivityTypes
  <1>2. open' \in [Activities -> Nat] /\ \A b \in Activities : open'[b] <= gen[b]
      BY DEF TypeInv, ActivityTypes, SlotTypes, Notify, NameOpen, Event
  <1>3. pend' \in [Activities -> SlotType] /\ \A b \in Activities : pend'[b].gen = gen[b]
    <2>1. CASE pend' = pend
        BY <2>1 DEF TypeInv, SlotTypes
    <2>2. CASE pend' = [pend EXCEPT ![a] = Queue(@, Event(kind, g))]
      <3> DEFINE q == Queue(pend[a], Event(kind, g))
      <3>1. pend \in [Activities -> SlotType] /\ \A b \in Activities : pend[b].gen = gen[b]
          BY DEF TypeInv, SlotTypes
      <3>2. q \in SlotType /\ q.gen = gen[a]
          BY <1>1, <3>1, QueueIsTyped
      <3>3. pend' = [pend EXCEPT ![a] = q]
          BY <2>2
      <3> HIDE DEF q
      <3> QED
          BY <3>1, <3>2, <3>3
    <2> QED
        BY <2>1, <2>2 DEF Notify, Dispatch, Event
  <1> QED
      BY <1>2, <1>3 DEF TypeInv, SlotTypes

\* retireImportSlot hands out the next generation and opens the slot for it.
LEMMA RetireIsTyped ==
  ASSUME TypeInv, NEW a \in Activities, NEW next \in {"import", "nofile", "recover", "destroy"},
         NEW lost \in BOOLEAN, Retire(a, next, lost)
  PROVE  /\ gen' \in [Activities -> 0..MaxGen]
         /\ \A b \in Activities : gen[b] <= gen'[b]
         /\ open' \in [Activities -> Nat] /\ pend' \in [Activities -> SlotType]
         /\ \A b \in Activities : open'[b] <= gen'[b] /\ pend'[b].gen = gen'[b]
         /\ UiTypes'
  <1> USE BoundsAssumption
  <1>1. gen[a] \in 0..MaxGen /\ gen[a] + 1 \in 1..MaxGen
      BY DEF TypeInv, ActivityTypes, Retire
  <1>2. gen' \in [Activities -> 0..MaxGen] /\ gen'[a] = gen[a] + 1
      BY <1>1 DEF TypeInv, ActivityTypes, Retire
  <1>3. \A b \in Activities : gen[b] <= gen'[b]
      BY <1>1 DEF TypeInv, ActivityTypes, Retire
  <1>4. Slot(gen[a] + 1) \in SlotType /\ Slot(gen[a] + 1).gen = gen[a] + 1
      BY <1>1 DEF Slot, SlotType, EventOf, NoEvent, Event
  <1>5. open' \in [Activities -> Nat] /\ \A b \in Activities : open'[b] <= gen'[b]
      BY <1>1 DEF TypeInv, ActivityTypes, SlotTypes, Retire
  <1>6. pend' \in [Activities -> SlotType] /\ \A b \in Activities : pend'[b].gen = gen'[b]
      BY <1>1, <1>4 DEF TypeInv, ActivityTypes, SlotTypes, Retire
  <1>7. UiTypes'
      BY <1>1, <1>2 DEF UiTypes, Retire
  <1> QED
      BY <1>2, <1>3, <1>5, <1>6, <1>7

\* Workers, posted runnables and what is current stay numbered when generations
\* only grow.
LEMMA GenerationsGrow ==
  ASSUME TypeInv, gen' \in [Activities -> 0..MaxGen],
         \A b \in Activities : gen[b] <= gen'[b]
  PROVE  /\ work' = work => WorkTypes'
         /\ posts' = posts => PostTypes'
         /\ \A b \in Activities : cur[b] <= gen'[b] /\ lostAt[b] <= gen'[b]
  <1> USE BoundsAssumption
  <1>1. ASSUME work' = work PROVE WorkTypes'
      BY <1>1 DEF TypeInv, ActivityTypes, WorkTypes, Gens
  <1>2. ASSUME posts' = posts PROVE PostTypes'
    <2>1. ASSUME NEW i \in 1..Len(posts) PROVE PostOK(posts[i])'
      <3>0. posts[i] \in PostType
          BY DEF TypeInv, PostTypes
      <3>1. posts[i].a \in Activities /\ posts[i].gen \in Nat
          BY <3>0 DEF PostType
      <3>2. PostOK(posts[i])
          BY DEF TypeInv, PostTypes
      <3>3. posts[i].gen <= gen'[posts[i].a]
          BY <3>1, <3>2 DEF TypeInv, ActivityTypes, PostOK
      <3> QED
          BY <1>2, <3>2, <3>3 DEF PostOK
    <2> QED
        BY <1>2, <2>1 DEF TypeInv, PostTypes
  <1>3. \A b \in Activities : cur[b] <= gen'[b] /\ lostAt[b] <= gen'[b]
      BY DEF TypeInv, ActivityTypes, SlotTypes
  <1> QED
      BY <1>1, <1>2, <1>3

\* The main looper's queue: what is posted, and what is taken from it.
LEMMA PostIsTyped ==
  ASSUME TypeInv, NEW p \in PostType, PostOK(p), gen' = gen, posts' = Append(posts, p)
  PROVE  PostTypes'
  <1>1. posts' \in Seq(PostType)
      BY DEF TypeInv, PostTypes
  <1>2. ASSUME NEW i \in 1..Len(posts') PROVE PostOK(posts'[i])
      BY DEF TypeInv, PostTypes
  <1> QED
      BY <1>1, <1>2 DEF PostTypes, PostOK

LEMMA TakenIsTyped ==
  ASSUME TypeInv, NEW run, Taken(run), gen' = gen
  PROVE  PostTypes' /\ Head(posts) \in PostType /\ PostOK(Head(posts)) /\ Head(posts).run = run
  <1>1. posts \in Seq(PostType) /\ posts # <<>> /\ posts' = Tail(posts)
      BY DEF TypeInv, PostTypes, Taken
  <1>2. Len(posts) \in Nat /\ Len(posts) > 0 /\ Head(posts) = posts[1]
      BY <1>1
  <1>3. Head(posts) \in PostType /\ PostOK(Head(posts))
      BY <1>1, <1>2 DEF TypeInv, PostTypes
  <1>4. posts' \in Seq(PostType) /\ Len(posts') = Len(posts) - 1
      BY <1>1
  <1>5. ASSUME NEW i \in 1..Len(posts') PROVE PostOK(posts'[i])
    <2>1. posts'[i] = posts[i + 1] /\ i + 1 \in 1..Len(posts)
        BY <1>1, <1>2, <1>4
    <2> QED
        BY <2>1 DEF TypeInv, PostTypes
  <1> QED
      BY <1>3, <1>4, <1>5 DEF PostTypes, PostOK, Taken

\* A worker that moves stays typed, if what it reports is an outcome.
LEMMA WorkerMoveIsTyped ==
  ASSUME TypeInv, NEW a \in Activities, NEW g \in Gens, NEW phase \in WorkerPhases,
         NEW result \in Results, work[a][g].phase # "none", gen' = gen,
         phase = "report" => result \in Outcomes, WorkerMoves(a, g, phase, result)
  PROVE  WorkTypes'
  <1>1. work \in [Activities -> [Gens -> WorkerType]]
      BY DEF TypeInv, WorkTypes
  <1>2. work[a][g] \in WorkerType
      BY <1>1
  <1> DEFINE w == [work[a][g] EXCEPT !.phase = phase, !.result = result]
  <1>3. w \in WorkerType /\ w.phase = phase /\ w.result = result
      BY <1>2 DEF WorkerType
  <1>4. work' = [work EXCEPT ![a] = [work[a] EXCEPT ![g] = w]]
      BY <1>1, <1>2 DEF WorkerMoves, WorkerType
  <1> HIDE DEF w
  <1>5. work' \in [Activities -> [Gens -> WorkerType]]
      BY <1>1, <1>3, <1>4
  <1>6. ASSUME NEW b \in Activities, NEW h \in Gens
        PROVE  /\ h > gen[b] => work'[b][h].phase = "none"
               /\ work'[b][h].phase = "report" => work'[b][h].result \in Outcomes
    <2>1. CASE b = a /\ h = g
        BY <1>1, <1>3, <1>4, <2>1 DEF TypeInv, WorkTypes
    <2>2. CASE ~(b = a /\ h = g)
      <3>1. work'[b][h] = work[b][h]
          BY <1>1, <1>4, <2>2
      <3> QED
          BY <3>1 DEF TypeInv, WorkTypes
    <2> QED
        BY <2>1, <2>2
  <1> QED
      BY <1>5, <1>6 DEF WorkTypes

\* What an action leaves alone stays typed.
LEMMA Untouched ==
  ASSUME TypeInv
  PROVE  /\ UNCHANGED <<life, gen, viewer, ready, loaded, picking>> => ActivityTypes'
         /\ UNCHANGED <<gen, open, cur, lostAt, pend>> => SlotTypes'
         /\ UNCHANGED <<gen, work>> => WorkTypes'
         /\ UNCHANGED <<gen, posts>> => PostTypes'
         /\ UNCHANGED <<gen, ui>> => UiTypes'
         /\ UNCHANGED <<purged, disk>> => DiskTypes'
  <1>1. UNCHANGED <<life, gen, viewer, ready, loaded, picking>> => ActivityTypes'
      BY DEF TypeInv, ActivityTypes
  <1>2. UNCHANGED <<gen, open, cur, lostAt, pend>> => SlotTypes'
      BY DEF TypeInv, SlotTypes
  <1>3. UNCHANGED <<gen, work>> => WorkTypes'
      BY DEF TypeInv, WorkTypes
  <1>4. UNCHANGED <<gen, posts>> => PostTypes'
      BY DEF TypeInv, PostTypes, PostOK
  <1>5. UNCHANGED <<gen, ui>> => UiTypes'
      BY DEF TypeInv, UiTypes
  <1>6. UNCHANGED <<purged, disk>> => DiskTypes'
      BY DEF TypeInv, DiskTypes
  <1> QED
      BY <1>1, <1>2, <1>3, <1>4, <1>5, <1>6

\* The UI thread leaves a handler for the next event.
LEMMA IdleIsTyped == TypeInv /\ ui' = Idle => UiTypes'
  <1>1. (CHOOSE a \in Activities : TRUE) \in Activities
      BY BoundsAssumption
  <1> QED
      BY <1>1 DEF UiTypes, Idle

-----------------------------------------------------------------------------
(* The type invariant, action by action.                                   *)

LEMMA UiStepIsTyped == TypeInv /\ UiStep => TypeInv'
  <1> SUFFICES ASSUME TypeInv, UiStep PROVE TypeInv'
      OBVIOUS
  <1> USE BoundsAssumption
  <1>1. ui.a \in Activities /\ (ui.at # "idle" => gen[ui.a] \in Gens)
      BY DEF TypeInv, ActivityTypes, UiTypes, Gens
  <1>2. CASE ClearCurrent
    <2>1. SlotTypes'
        BY <1>1, <1>2 DEF TypeInv, ActivityTypes, SlotTypes, ClearCurrent
    <2>2. UiTypes'
        BY <1>1, <1>2 DEF TypeInv, UiTypes, ClearCurrent
    <2> QED
        BY <1>2, <2>1, <2>2, Untouched DEF TypeInv, ClearCurrent
  <1>3. ASSUME NEW next, Unlink(next)
        PROVE  UiTypes' /\ DiskTypes' /\ gen[ui.a] \in Gens
      BY <1>1, <1>3, IdleIsTyped DEF TypeInv, DiskTypes, Unlink
  <1>4. CASE BeginImport
    <2>1. UiTypes' /\ DiskTypes' /\ gen[ui.a] \in Gens /\ gen' = gen
        BY <1>3, <1>4 DEF BeginImport, Unlink
    <2>2. SlotTypes'
        BY <1>1, <1>4, <2>1, NotifyKeepsSlots DEF BeginImport, Unlink, Gens
    <2>3. WorkTypes'
      <3> DEFINE w == [work[ui.a][gen[ui.a]] EXCEPT !.phase = "lookup"]
      <3>1. work \in [Activities -> [Gens -> WorkerType]]
          BY DEF TypeInv, WorkTypes
      <3>2. work[ui.a][gen[ui.a]] \in WorkerType
          BY <1>1, <2>1, <3>1
      <3>3. w \in WorkerType /\ w.phase = "lookup"
          BY <3>2 DEF WorkerType, WorkerPhases
      <3>4. work' = [work EXCEPT ![ui.a] = [work[ui.a] EXCEPT ![gen[ui.a]] = w]]
          BY <1>4 DEF BeginImport
      <3> HIDE DEF w
      <3>5. work' \in [Activities -> [Gens -> WorkerType]]
          BY <1>1, <2>1, <3>1, <3>3, <3>4
      <3>6. ASSUME NEW b \in Activities, NEW h \in Gens
            PROVE  /\ h > gen[b] => work'[b][h].phase = "none"
                   /\ work'[b][h].phase = "report" => work'[b][h].result \in Outcomes
        <4>1. CASE b = ui.a /\ h = gen[ui.a]
            BY <1>1, <2>1, <3>1, <3>3, <3>4, <4>1 DEF Gens
        <4>2. CASE ~(b = ui.a /\ h = gen[ui.a])
          <5>1. work'[b][h] = work[b][h]
              BY <3>1, <3>4, <4>2
          <5> QED
              BY <5>1 DEF TypeInv, WorkTypes
        <4> QED
            BY <4>1, <4>2
      <3> QED
          BY <2>1, <3>5, <3>6 DEF WorkTypes
    <2> QED
        BY <1>4, <2>1, <2>2, <2>3, Untouched DEF TypeInv, BeginImport, Unlink
  <1>5. CASE RefuseShare
    <2>1. UiTypes' /\ DiskTypes' /\ gen[ui.a] \in Gens /\ gen' = gen
        BY <1>3, <1>5 DEF RefuseShare, Unlink
    <2>2. SlotTypes'
        BY <1>1, <1>5, <2>1, NotifyKeepsSlots DEF RefuseShare, Unlink, Gens
    <2> QED
        BY <1>5, <2>1, <2>2, Untouched DEF TypeInv, RefuseShare, Unlink
  <1>6. CASE Recover
    <2>1. UiTypes' /\ DiskTypes' /\ gen[ui.a] \in Gens /\ gen' = gen
        BY <1>3, <1>6 DEF Recover, Unlink
    <2>2. ActivityTypes'
        BY <1>1, <1>6, <2>1 DEF TypeInv, ActivityTypes, Recover, Unlink
    <2>3. PostTypes'
      <3> DEFINE p == [a |-> ui.a, run |-> "rebuild", gen |-> gen[ui.a],
                       result |-> IF ui.lost THEN "failed" ELSE "none"]
      <3>1. p \in PostType /\ PostOK(p)
          BY <1>1, <2>1 DEF PostType, PostOK, Results, Gens
      <3>2. posts' = posts \/ posts' = Append(posts, p)
          BY <1>6 DEF Recover
      <3> HIDE DEF p
      <3> QED
          BY <2>1, <3>1, <3>2, PostIsTyped, Untouched
    <2> QED
        BY <1>6, <2>1, <2>2, <2>3, Untouched DEF TypeInv, Recover, Unlink
  <1>7. CASE EndDestroy
    <2>1. UiTypes' /\ DiskTypes' /\ gen' = gen
        BY <1>3, <1>7 DEF EndDestroy, Unlink
    <2>2. ActivityTypes'
        BY <1>1, <1>7, <2>1 DEF TypeInv, ActivityTypes, EndDestroy, Unlink
    <2> QED
        BY <1>7, <2>1, <2>2, Untouched DEF TypeInv, EndDestroy, Unlink
  <1> QED
      BY <1>2, <1>4, <1>5, <1>6, <1>7 DEF UiStep

\* The handlers that retire the slot: the rest of them touches neither a
\* generation nor what is current.
LEMMA RetiringIsTyped ==
  ASSUME TypeInv, NEW a \in Activities, NEW next \in {"import", "nofile", "recover", "destroy"},
         NEW lost \in BOOLEAN, Retire(a, next, lost), cur' = cur, work' = work, posts' = posts,
         lostAt' \in [Activities -> Nat], \A b \in Activities : lostAt'[b] <= gen'[b]
  PROVE  SlotTypes' /\ WorkTypes' /\ PostTypes' /\ UiTypes'
  BY RetireIsTyped, GenerationsGrow DEF TypeInv, SlotTypes

LEMMA SystemStepIsTyped ==
  ASSUME TypeInv, NEW a \in Activities, SystemStep(a)
  PROVE  TypeInv'
  <1> USE BoundsAssumption
  <1>0. /\ lostAt \in [Activities -> Nat]
        /\ \A next, lost : Retire(a, next, lost) => gen' \in [Activities -> 0..MaxGen]
                                                 /\ \A b \in Activities : gen[b] <= gen'[b]
      BY DEF TypeInv, ActivityTypes, SlotTypes, Retire
  <1>1. \A next, lost : Retire(a, next, lost) => \A b \in Activities : lostAt[b] <= gen'[b]
      BY <1>0, GenerationsGrow
  <1>2. ASSUME NEW opened \in {"plain", "import", "nofile"}, Create(a, opened)
        PROVE  TypeInv'
    <2>1. DiskTypes'
        BY <1>2 DEF TypeInv, DiskTypes, Create
    <2>2. CASE opened = "plain"
      <3>1. ActivityTypes'
          BY <1>2, <2>2 DEF TypeInv, ActivityTypes, Create
      <3> QED
          BY <1>2, <2>1, <2>2, <3>1, Untouched DEF TypeInv, Create
    <2>3. CASE opened # "plain"
      <3>1. Retire(a, opened, FALSE) /\ opened \in {"import", "nofile", "recover", "destroy"}
          BY <1>2, <2>3 DEF Create
      <3>2. gen' \in [Activities -> 0..MaxGen]
          BY <3>1, <1>0
      <3>3. ActivityTypes'
          BY <1>2, <3>2 DEF TypeInv, ActivityTypes, Create
      <3>4. SlotTypes' /\ WorkTypes' /\ PostTypes' /\ UiTypes'
          BY <1>0, <1>1, <1>2, <3>1, RetiringIsTyped DEF Create
      <3> QED
          BY <2>1, <3>3, <3>4 DEF TypeInv
    <2> QED
        BY <2>2, <2>3
  <1>3. ASSUME NEW opened \in {"import", "nofile"}, NewIntent(a, opened)
        PROVE  TypeInv'
    <2>1. Retire(a, opened, FALSE) /\ opened \in {"import", "nofile", "recover", "destroy"}
        BY <1>3 DEF NewIntent
    <2>2. ActivityTypes'
        BY <1>0, <1>3, <2>1 DEF TypeInv, ActivityTypes, NewIntent
    <2>3. SlotTypes' /\ WorkTypes' /\ PostTypes' /\ UiTypes'
        BY <1>0, <1>1, <1>3, <2>1, RetiringIsTyped DEF NewIntent
    <2> QED
        BY <1>3, <2>2, <2>3, Untouched DEF TypeInv, NewIntent
  <1>4. CASE PickFile(a)
    <2>1. ActivityTypes'
        BY <1>4 DEF TypeInv, ActivityTypes, PickFile
    <2> QED
        BY <1>4, <2>1, Untouched DEF TypeInv, PickFile
  <1>5. CASE Picked(a)
    <2>1. ActivityTypes'
        BY <1>0, <1>5 DEF TypeInv, ActivityTypes, Picked
    <2>2. SlotTypes' /\ WorkTypes' /\ PostTypes' /\ UiTypes'
        BY <1>0, <1>1, <1>5, RetiringIsTyped DEF Picked
    <2> QED
        BY <1>5, <2>1, <2>2, Untouched DEF TypeInv, Picked
  <1>6. CASE PageStarted(a)
    <2>1. ActivityTypes'
        BY <1>6 DEF TypeInv, ActivityTypes, PageStarted
    <2> QED
        BY <1>6, <2>1, Untouched DEF TypeInv, PageStarted
  <1>7. CASE PageFinished(a)
    <2>1. ActivityTypes'
        BY <1>7 DEF TypeInv, ActivityTypes, PageFinished
    <2>2. Slot(gen[a]) \in SlotType /\ Slot(gen[a]).gen = gen[a]
        BY DEF TypeInv, ActivityTypes, Slot, SlotType, EventOf, NoEvent, Event
    <2>3. SlotTypes'
        BY <1>7, <2>2 DEF TypeInv, SlotTypes, PageFinished
    <2> QED
        BY <1>7, <2>1, <2>3, Untouched DEF TypeInv, PageFinished
  <1>8. CASE RendererGone(a)
    <2>1. Retire(a, "recover", open[a] # 0) /\ (open[a] # 0) \in BOOLEAN
        BY <1>8 DEF RendererGone
    <2>2. ActivityTypes'
        BY <1>0, <1>8, <2>1 DEF TypeInv, ActivityTypes, RendererGone
    <2>3. lostAt' \in [Activities -> Nat] /\ \A b \in Activities : lostAt'[b] <= gen'[b]
        BY <1>0, <1>1, <1>8, <2>1 DEF TypeInv, ActivityTypes, RendererGone
    <2>4. SlotTypes' /\ WorkTypes' /\ PostTypes' /\ UiTypes'
        BY <1>8, <2>1, <2>3, RetiringIsTyped DEF RendererGone
    <2> QED
        BY <1>8, <2>2, <2>4, Untouched DEF TypeInv, RendererGone
  <1>9. CASE Finish(a)
    <2>1. ActivityTypes'
        BY <1>9 DEF TypeInv, ActivityTypes, Finish
    <2> QED
        BY <1>9, <2>1, Untouched DEF TypeInv, Finish
  <1>10. CASE Destroy(a)
    <2>1. ActivityTypes'
        BY <1>0, <1>10 DEF TypeInv, ActivityTypes, Destroy
    <2>2. SlotTypes' /\ WorkTypes' /\ PostTypes' /\ UiTypes'
        BY <1>0, <1>1, <1>10, RetiringIsTyped DEF Destroy
    <2> QED
        BY <1>10, <2>1, <2>2, Untouched DEF TypeInv, Destroy
  <1> QED
      BY <1>2, <1>3, <1>4, <1>5, <1>6, <1>7, <1>8, <1>9, <1>10 DEF SystemStep

LEMMA WorkerStepIsTyped ==
  ASSUME TypeInv, NEW a \in Activities, NEW g \in Gens, WorkerStep(a, g)
  PROVE  TypeInv'
  <1> USE BoundsAssumption
  <1>0. work \in [Activities -> [Gens -> WorkerType]] /\ work[a][g] \in WorkerType
      BY DEF TypeInv, WorkTypes
  <1>1. ASSUME work[a][g].phase # "none" PROVE g <= gen[a] /\ g >= 1 /\ g \in Nat
      BY <1>1 DEF TypeInv, ActivityTypes, WorkTypes, Gens
  <1>2. ASSUME NEW run \in {"start", "progress", "outcome", "rebuild"},
               NEW result \in Results, work[a][g].phase # "none", gen' = gen,
               run = "outcome" => result \in Outcomes, posts' = Post(a, g, run, result)
        PROVE  PostTypes'
    <2> DEFINE p == [a |-> a, run |-> run, gen |-> g, result |-> result]
    <2>1. p \in PostType /\ PostOK(p)
        BY <1>1, <1>2 DEF PostType, PostOK
    <2>2. posts' = Append(posts, p)
        BY <1>2 DEF Post
    <2> HIDE DEF p
    <2> QED
        BY <1>2, <2>1, <2>2, PostIsTyped
  <1>3. File(a, g) \in Activities \X Gens
      BY DEF File
  <1>4. CASE LookedUp(a, g)
    <2>1. WorkTypes'
        BY <1>4, WorkerMoveIsTyped
        DEF LookedUp, Working, WorkerPhases, Results, actVars
    <2>2. PostTypes'
        BY <1>2, <1>4, Untouched DEF LookedUp, Working, Results, actVars
    <2> QED
        BY <1>4, <2>1, <2>2, Untouched DEF TypeInv, LookedUp, actVars
  <1>5. CASE DeclaredTooLarge(a, g)
    <2>1. WorkTypes'
        BY <1>5, WorkerMoveIsTyped
        DEF DeclaredTooLarge, Working, WorkerPhases, Results, actVars
    <2>2. PostTypes'
        BY <1>2, <1>5 DEF DeclaredTooLarge, Working, Results, Outcomes, actVars
    <2> QED
        BY <1>5, <2>1, <2>2, Untouched DEF TypeInv, DeclaredTooLarge, actVars
  <1>6. CASE OpenFails(a, g)
    <2>1. WorkTypes'
      <3>1. PICK result \in {"failed", "cancelled"} : WorkerMoves(a, g, "report", result)
          BY <1>6 DEF OpenFails
      <3> QED
          BY <1>6, <3>1, WorkerMoveIsTyped
          DEF OpenFails, Working, WorkerPhases, Results, Outcomes, actVars
    <2> QED
        BY <1>6, <2>1, Untouched DEF TypeInv, OpenFails, actVars
  <1>7. CASE OpenStaging(a, g)
    <2>1. WorkTypes'
        BY <1>7, WorkerMoveIsTyped DEF OpenStaging, Working, WorkerPhases, Results, actVars
    <2>2. DiskTypes'
        BY <1>3, <1>7 DEF TypeInv, DiskTypes, OpenStaging
    <2> QED
        BY <1>7, <2>1, <2>2, Untouched DEF TypeInv, OpenStaging, actVars
  <1>8. CASE CopyBuffer(a, g)
    <2>1. WorkTypes'
      <3> DEFINE w == [work[a][g] EXCEPT !.reports = @ + 1]
      <3>1. w \in WorkerType /\ w.phase = work[a][g].phase /\ w.result = work[a][g].result
          BY <1>0 DEF WorkerType
      <3>2. work' = [work EXCEPT ![a] = [work[a] EXCEPT ![g] = w]]
          BY <1>8 DEF CopyBuffer
      <3> HIDE DEF w
      <3>3. work' \in [Activities -> [Gens -> WorkerType]]
          BY <1>0, <3>1, <3>2
      <3>4. \A b \in Activities : \A h \in Gens :
               work'[b][h].phase = work[b][h].phase /\ work'[b][h].result = work[b][h].result
          BY <1>0, <3>1, <3>2
      <3> QED
          BY <1>8, <3>3, <3>4 DEF TypeInv, WorkTypes, CopyBuffer, actVars
    <2>2. PostTypes'
        BY <1>2, <1>8 DEF CopyBuffer, Working, Results, actVars
    <2> QED
        BY <1>8, <2>1, <2>2, Untouched DEF TypeInv, CopyBuffer, actVars
  <1>9. CASE CopyStops(a, g)
    <2>1. WorkTypes'
      <3>1. PICK result \in {"failed", "cancelled"} : WorkerMoves(a, g, "report", result)
          BY <1>9 DEF CopyStops
      <3> QED
          BY <1>9, <3>1, WorkerMoveIsTyped
          DEF CopyStops, Working, WorkerPhases, Results, Outcomes, actVars
    <2>2. DiskTypes'
        BY <1>9 DEF TypeInv, DiskTypes, CopyStops
    <2> QED
        BY <1>9, <2>1, <2>2, Untouched DEF TypeInv, CopyStops, actVars
  <1>10. CASE CopyEnds(a, g)
    <2>1. WorkTypes'
        BY <1>10, WorkerMoveIsTyped DEF CopyEnds, Working, WorkerPhases, Results, actVars
    <2> QED
        BY <1>10, <2>1, Untouched DEF TypeInv, CopyEnds, actVars
  <1>11. CASE Publish(a, g)
    <2>1. WorkTypes'
      <3>1. PICK result \in {"ready", "cancelled"} : WorkerMoves(a, g, "report", result)
          BY <1>11 DEF Publish
      <3> QED
          BY <1>11, <3>1, WorkerMoveIsTyped
          DEF Publish, Working, WorkerPhases, Results, Outcomes
    <2>2. SlotTypes'
      <3>1. g <= gen[a] /\ g \in Nat
          BY <1>1, <1>11 DEF Publish, Working
      <3>2. cur' = cur \/ cur' = [cur EXCEPT ![a] = g]
          BY <1>11 DEF Publish
      <3> QED
          BY <1>11, <3>1, <3>2 DEF TypeInv, SlotTypes, Publish
    <2>3. DiskTypes'
        BY <1>11 DEF TypeInv, DiskTypes, Publish
    <2> QED
        BY <1>11, <2>1, <2>2, <2>3, Untouched DEF TypeInv, Publish
  <1>12. CASE Report(a, g)
    <2>1. work[a][g].result \in Outcomes /\ work[a][g].result \in Results
        BY <1>0, <1>12 DEF TypeInv, WorkTypes, WorkerType, Report, Working
    <2>2. WorkTypes'
      <3> DEFINE w == [work[a][g] EXCEPT !.phase = "done"]
      <3>1. w \in WorkerType /\ w.phase = "done"
          BY <1>0 DEF WorkerType, WorkerPhases
      <3>2. work' = [work EXCEPT ![a] = [work[a] EXCEPT ![g] = w]]
          BY <1>12 DEF Report
      <3> HIDE DEF w
      <3>3. work' \in [Activities -> [Gens -> WorkerType]]
          BY <1>0, <3>1, <3>2
      <3>4. ASSUME NEW b \in Activities, NEW h \in Gens
            PROVE  /\ h > gen[b] => work'[b][h].phase = "none"
                   /\ work'[b][h].phase = "report" => work'[b][h].result \in Outcomes
        <4>1. CASE b = a /\ h = g
            BY <1>0, <1>12, <3>1, <3>2, <4>1 DEF TypeInv, WorkTypes, Report, Working
        <4>2. CASE ~(b = a /\ h = g)
          <5>1. work'[b][h] = work[b][h]
              BY <1>0, <3>2, <4>2
          <5> QED
              BY <5>1 DEF TypeInv, WorkTypes
        <4> QED
            BY <4>1, <4>2
      <3> QED
          BY <1>12, <3>3, <3>4 DEF WorkTypes, Report, actVars
    <2>3. PostTypes'
        BY <1>2, <1>12, <2>1 DEF Report, Working, actVars
    <2> QED
        BY <1>12, <2>2, <2>3, Untouched DEF TypeInv, Report, actVars
  <1> QED
      BY <1>4, <1>5, <1>6, <1>7, <1>8, <1>9, <1>10, <1>11, <1>12 DEF WorkerStep

LEMMA RunPostIsTyped == TypeInv /\ RunPost => TypeInv'
  <1> SUFFICES ASSUME TypeInv, RunPost PROVE TypeInv'
      OBVIOUS
  <1> DEFINE p == Head(posts)
  <1>1. ASSUME NEW run, Taken(run), gen' = gen
        PROVE  /\ PostTypes' /\ p.a \in Activities /\ p.gen \in Nat /\ p.gen <= gen[p.a]
               /\ p.run = run /\ p.result \in Results
               /\ run = "outcome" => p.result \in Outcomes
      BY <1>1, TakenIsTyped DEF PostType, PostOK
  <1> HIDE DEF p
  <1>2. CASE RunStart
    <2>1. PostTypes' /\ SlotTypes'
        BY <1>1, <1>2, NotifyKeepsSlots DEF RunStart, p
    <2> QED
        BY <1>2, <2>1, Untouched DEF TypeInv, RunStart
  <1>3. CASE RunProgress
    <2>1. PostTypes'
        BY <1>1, <1>3 DEF RunProgress
    <2> QED
        BY <1>3, <2>1, Untouched DEF TypeInv, RunProgress
  <1>4. CASE RunOutcome
    <2>1. PostTypes' /\ p.result \in Outcomes
        BY <1>1, <1>4 DEF RunOutcome
    <2>2. SlotTypes'
      <3>1. CASE p.result = "cancelled"
          BY <1>4, <3>1, Untouched DEF RunOutcome, p
      <3>2. CASE p.result # "cancelled"
          BY <1>1, <1>4, <2>1, <3>2, NotifyKeepsSlots DEF RunOutcome, Outcomes, p
      <3> QED
          BY <3>1, <3>2
    <2> QED
        BY <1>4, <2>1, <2>2, Untouched DEF TypeInv, RunOutcome
  <1>5. CASE RunRebuild
    <2>1. PostTypes' /\ p.a \in Activities
        BY <1>1, <1>5 DEF RunRebuild
    <2>2. ActivityTypes'
        BY <1>5, <2>1 DEF TypeInv, ActivityTypes, RunRebuild, p
    <2>3. SlotTypes'
      <3>1. CASE Notify(p.a, Event("failed", p.gen))
          BY <1>1, <1>5, <3>1, NotifyKeepsSlots DEF RunRebuild
      <3>2. CASE UNCHANGED <<open, pend, heard, told>>
          BY <1>5, <3>2, Untouched DEF RunRebuild
      <3> QED
          BY <1>5, <3>1, <3>2 DEF RunRebuild, p
    <2> QED
        BY <1>5, <2>1, <2>2, <2>3, Untouched DEF TypeInv, RunRebuild
  <1> QED
      BY <1>2, <1>3, <1>4, <1>5 DEF RunPost

LEMMA CrashIsTyped == TypeInv /\ Crash => TypeInv'
  <1> SUFFICES ASSUME TypeInv, Crash PROVE TypeInv'
      OBVIOUS
  <1>1. Fresh'
      BY DEF Crash, Fresh
  <1>2. (ActivityTypes /\ SlotTypes /\ WorkTypes /\ PostTypes /\ UiTypes)'
      BY <1>1, FreshIsTyped, PTL
  <1>3. DiskTypes'
      BY DEF TypeInv, DiskTypes, Crash
  <1> QED
      BY <1>2, <1>3 DEF TypeInv

LEMMA TypeInvIsInductive == Spec => []TypeInv
  <1>1. Init => TypeInv
      BY FreshIsTyped DEF Init, TypeInv, DiskTypes, Fresh
  <1>2. TypeInv /\ [Next]_vars => TypeInv'
    <2> SUFFICES ASSUME TypeInv, [Next]_vars PROVE TypeInv'
        OBVIOUS
    <2>1. CASE Next
        BY <2>1, UiStepIsTyped, RunPostIsTyped, CrashIsTyped, SystemStepIsTyped,
           WorkerStepIsTyped DEF Next
    <2>2. CASE UNCHANGED vars
        BY <2>2, Untouched DEF TypeInv, vars, actVars
    <2> QED
        BY <2>1, <2>2
  <1> QED
      BY <1>1, <1>2, PTL DEF Spec

\* In every reachable state of any number of activities and selections, each
\* variable is of its type, no worker, posted runnable or published file is of a
\* generation retireImportSlot has not handed out, and the slot for the page's
\* events is open for the newest generation (importGeneration, PendingImportEvents).
THEOREM TypeCorrect == Spec => []TypeOK
  BY TypeInvIsInductive, TypeInvIsEnough, PTL

-----------------------------------------------------------------------------
(* The cache keeps nothing it should not.                                  *)

\* Nothing but the disk, what is current, the workers and the UI thread's place
\* matters to it; a step that changes no file and ends no copy keeps it.
LEMMA NoFileStranded ==
  ASSUME NoStrandedFile, purged' = purged, disk' \subseteq disk, cur' = cur, work' = work,
         ui.at = "unlink" => ui'.at = "unlink"
  PROVE  NoStrandedFile'
  BY DEF NoStrandedFile

\* Moving one worker to a phase changes no other worker's phase.
LEMMA OneWorkerMoves ==
  ASSUME TypeInv, NEW a \in Activities, NEW g \in Gens, NEW phase, NEW result,
         WorkerMoves(a, g, phase, result)
  PROVE  \A b \in Activities : \A h \in Gens :
             work'[b][h].phase = IF b = a /\ h = g THEN phase ELSE work[b][h].phase
  <1>1. work \in [Activities -> [Gens -> WorkerType]]
      BY DEF TypeInv, WorkTypes
  <1>2. work[a][g] \in WorkerType
      BY <1>1
  <1> DEFINE w == [work[a][g] EXCEPT !.phase = phase, !.result = result]
  <1>3. w.phase = phase
      BY <1>2 DEF WorkerType
  <1>4. work' = [work EXCEPT ![a] = [work[a] EXCEPT ![g] = w]]
      BY <1>1, <1>2 DEF WorkerMoves, WorkerType
  <1> HIDE DEF w
  <1> QED
      BY <1>1, <1>3, <1>4

LEMMA WorkerStepStrandsNothing ==
  ASSUME TypeInv, NoStrandedFile, NEW a \in Activities, NEW g \in Gens, WorkerStep(a, g)
  PROVE  NoStrandedFile'
  <1> DEFINE InUse(f) == \/ cur[f[1]] = f[2]
                         \/ work[f[1]][f[2]].phase \in {"copying", "publish"}
                         \/ ui.at = "unlink"
  <1> SUFFICES ASSUME purged', NEW f \in disk'
               PROVE  InUse(f)'
      BY DEF NoStrandedFile
  <1>1. purged /\ ui' = ui
      BY DEF WorkerStep, LookedUp, DeclaredTooLarge, OpenFails, OpenStaging, CopyBuffer,
             CopyStops, CopyEnds, Publish, Report
  <1>2. f \in disk => InUse(f)
      BY <1>1 DEF NoStrandedFile
  <1>3. f \in Activities \X Gens
      BY WorkerStepIsTyped DEF TypeInv, DiskTypes
  <1>4. f = File(a, g) <=> f[1] = a /\ f[2] = g
      BY <1>3 DEF File
  <1>5. CASE LookedUp(a, g)
    <2>1. \E phase, result : WorkerMoves(a, g, phase, result)
        BY <1>5 DEF LookedUp
    <2>2. ~(work[a][g].phase \in {"copying", "publish"}) /\ disk' = disk /\ cur' = cur
        BY <1>5 DEF LookedUp, Working, actVars
    <2> QED
        BY <1>1, <1>2, <1>3, <2>1, <2>2, OneWorkerMoves
  <1>6. CASE DeclaredTooLarge(a, g) \/ OpenFails(a, g)
    <2>1. \E phase, result : WorkerMoves(a, g, phase, result)
        BY <1>6 DEF DeclaredTooLarge, OpenFails
    <2>2. ~(work[a][g].phase \in {"copying", "publish"}) /\ disk' = disk /\ cur' = cur
        BY <1>6 DEF DeclaredTooLarge, OpenFails, Working, actVars
    <2> QED
        BY <1>1, <1>2, <1>3, <2>1, <2>2, OneWorkerMoves
  <1>7. CASE OpenStaging(a, g)
    <2>1. WorkerMoves(a, g, "copying", "none") /\ cur' = cur /\ disk' = disk \cup {File(a, g)}
        BY <1>7 DEF OpenStaging, actVars
    <2> QED
        BY <1>1, <1>2, <1>3, <1>4, <2>1, OneWorkerMoves
  <1>8. CASE CopyBuffer(a, g)
    <2>1. \A b \in Activities : \A h \in Gens : work'[b][h].phase = work[b][h].phase
        BY <1>8 DEF TypeInv, WorkTypes, WorkerType, CopyBuffer
    <2> QED
        BY <1>1, <1>2, <1>3, <1>8, <2>1 DEF CopyBuffer, actVars
  <1>9. CASE CopyStops(a, g)
    <2>1. \E phase, result : WorkerMoves(a, g, phase, result)
        BY <1>9 DEF CopyStops
    <2>2. cur' = cur /\ disk' = disk \ {File(a, g)}
        BY <1>9 DEF CopyStops, actVars
    <2> QED
        BY <1>1, <1>2, <1>3, <1>4, <2>1, <2>2, OneWorkerMoves
  <1>10. CASE CopyEnds(a, g)
    <2>1. WorkerMoves(a, g, "publish", "none") /\ cur' = cur /\ disk' = disk
        BY <1>10 DEF CopyEnds, actVars
    <2> QED
        BY <1>1, <1>2, <1>3, <2>1, OneWorkerMoves
  <1>11. CASE Publish(a, g)
    <2>1. \E phase, result : WorkerMoves(a, g, phase, result)
        BY <1>11 DEF Publish
    <2>2. CASE cur' = [cur EXCEPT ![a] = g] /\ disk' = disk \ {File(a, cur[a])}
      <3>1. cur \in [Activities -> Nat]
          BY DEF TypeInv, SlotTypes
      <3>2. f = <<f[1], f[2]>> /\ f # <<a, cur[a]>>
          BY <1>3, <2>2 DEF File
      <3> QED
          BY <1>1, <1>2, <1>3, <2>1, <2>2, <3>1, <3>2, OneWorkerMoves
    <2>3. CASE cur' = cur /\ disk' = disk \ {File(a, g)}
        BY <1>1, <1>2, <1>3, <1>4, <2>1, <2>3, OneWorkerMoves
    <2> QED
        BY <1>11, <2>2, <2>3 DEF Publish
  <1>12. CASE Report(a, g)
    <2>1. \A b \in Activities : \A h \in Gens :
             ~(b = a /\ h = g) => work'[b][h].phase = work[b][h].phase
        BY <1>12 DEF TypeInv, WorkTypes, Report
    <2>2. work[a][g].phase = "report" /\ disk' = disk /\ cur' = cur
        BY <1>12 DEF Report, Working, actVars
    <2> QED
        BY <1>1, <1>2, <1>3, <2>1, <2>2
  <1> QED
      BY <1>5, <1>6, <1>7, <1>8, <1>9, <1>10, <1>11, <1>12 DEF WorkerStep

LEMMA OtherStepsStrandNothing ==
  ASSUME TypeInv, NoStrandedFile,
         \/ UiStep \/ RunPost \/ Crash \/ UNCHANGED vars
         \/ \E a \in Activities : SystemStep(a)
  PROVE  NoStrandedFile'
  <1>1. CASE ClearCurrent
      BY <1>1 DEF NoStrandedFile, ClearCurrent, TypeInv, UiTypes
  <1>2. CASE BeginImport \/ RefuseShare \/ Recover \/ EndDestroy
      BY <1>2 DEF NoStrandedFile, BeginImport, RefuseShare, Recover, EndDestroy, Unlink
  <1>3. CASE RunPost
      BY <1>3, NoFileStranded DEF RunPost, RunStart, RunProgress, RunOutcome, RunRebuild
  <1>4. CASE Crash
      BY <1>4 DEF NoStrandedFile, Crash
  <1>5. CASE UNCHANGED vars
      BY <1>5, NoFileStranded DEF vars, actVars
  <1>6. ASSUME NEW a \in Activities, SystemStep(a) PROVE NoStrandedFile'
    <2>1. ASSUME NEW opened, Create(a, opened) PROVE NoStrandedFile'
        BY <2>1 DEF NoStrandedFile, Create
    <2>2. ASSUME NEW opened, NewIntent(a, opened) PROVE NoStrandedFile'
        BY <2>2, NoFileStranded DEF NewIntent, Retire
    <2>3. CASE PickFile(a) \/ PageStarted(a) \/ PageFinished(a) \/ Finish(a)
        BY <2>3, NoFileStranded DEF PickFile, PageStarted, PageFinished, Finish
    <2>4. CASE Picked(a) \/ RendererGone(a) \/ Destroy(a)
        BY <2>4, NoFileStranded DEF Picked, RendererGone, Destroy, Retire
    <2> QED
        BY <1>6, <2>1, <2>2, <2>3, <2>4 DEF SystemStep
  <1> QED
      BY <1>1, <1>2, <1>3, <1>4, <1>5, <1>6 DEF UiStep

\* No flight outlives its session in the cache, however many activities share it
\* and however their copies interleave: a file there is the current log, a copy
\* still being made, or about to be unlinked (ImportStore.accept, clear, PURGED).
THEOREM NothingStranded == Spec => []NoStrandedFile
  <1>1. Init => NoStrandedFile
      BY DEF Init, Fresh, NoStrandedFile
  <1>2. TypeInv /\ NoStrandedFile /\ [Next]_vars => NoStrandedFile'
      BY WorkerStepStrandsNothing, OtherStepsStrandNothing DEF Next
  <1> QED
      BY <1>1, <1>2, TypeInvIsInductive, PTL DEF Spec

-----------------------------------------------------------------------------
(* One selection.                                                           *)

Kinds == {"start", "progress", "ready", "failed"}

\* Where the newest selection of an activity is.  It is in the handler that retires
\* the slot for it, with its worker, with a posted runnable, held for the page as an
\* outcome, or told, and never in two of these.
Handler(a) == ui.at # "idle" /\ ui.a = a
Busy(a) == /\ gen[a] \in Gens
           /\ work[a][gen[a]].phase \in {"lookup", "sized", "copying", "publish", "report"}
Mine(a, p) == p.a = a /\ p.gen = gen[a]
NonePosted(a) == \A i \in 1..Len(posts) : ~Mine(a, posts[i])
Held(a) == pend[a].terminal # NoEvent
Told(a) == gen[a] # 0 /\ told[a].gen = gen[a]

\* The slot holds its log.
Holds(a) == cur[a] # 0 /\ cur[a] = gen[a]

Events == [kind : Kinds, gen : Nat]
Answers == [kind : {"none"} \cup Terminal, gen : Nat]
HistoryTypes == heard \in [Activities -> Seq(Events)] /\ told \in [Activities -> Answers]

HandlerInv(a) ==
    Handler(a) => /\ gen[a] \in Gens /\ work[a][gen[a]].phase = "none"
                  /\ NonePosted(a) /\ pend[a] = Slot(gen[a]) /\ ~Told(a) /\ ~Holds(a)

WorkerInv(a) ==
    Busy(a) => /\ ~Held(a) /\ ~Told(a)
               /\ IF work[a][gen[a]].phase = "report" /\ work[a][gen[a]].result = "ready"
                  THEN Holds(a) ELSE ~Holds(a)

PostInv(a, p) ==
    Mine(a, p) =>
        /\ ~Held(a) /\ ~Told(a)
        /\ p.run \in {"outcome", "rebuild"} => ~Busy(a)
        /\ (p.run = "outcome" /\ p.result = "ready") => Holds(a)

\* Nothing is posted for a selection after its outcome.
PostOrder(a) ==
    \A i, j \in 1..Len(posts) :
        (i < j /\ Mine(a, posts[i]) /\ Mine(a, posts[j])) => posts[i].run \in {"start", "progress"}

PendInv(a) ==
    /\ pend[a].start \in {NoEvent, Event("start", gen[a])}
    /\ pend[a].terminal \in {NoEvent, Event("ready", gen[a]), Event("failed", gen[a])}
    /\ pend[a].terminal.kind = "ready" => Holds(a)
    /\ Held(a) => ~Told(a) /\ gen[a] # 0
    /\ (ready[a] \/ Told(a) \/ gen[a] = 0) => pend[a] = Slot(gen[a])

\* What a document heard, h, of an activity at generation g whose pages last heard the
\* outcome t, whose slot holds its log or not, and whose viewer was lost at "lost".
HeardOk(h, t, g, holds, lost) ==
    /\ t.gen <= g
    /\ \A i \in 1..Len(h) :
           /\ h[i].gen >= 1 /\ h[i].gen <= g
           /\ h[i].kind = "ready" => h[i].gen > lost
           /\ (h[i].gen = g /\ h[i].kind \in Terminal) => t.gen = g
           /\ (h[i].gen = g /\ h[i].kind = "ready") => holds
    /\ \A i, j \in 1..Len(h) : i < j => h[i].gen = h[j].gen /\ h[i].kind \notin Terminal

HeardInv(a) ==
    /\ HeardOk(heard[a], told[a], gen[a], Holds(a), lostAt[a])
    /\ lostAt[a] < gen[a] \/ gen[a] = 0

SlotInv(a) ==
    /\ HandlerInv(a) /\ WorkerInv(a) /\ PostOrder(a) /\ PendInv(a) /\ HeardInv(a)
    /\ \A i \in 1..Len(posts) : PostInv(a, posts[i])

ImportInv == HistoryTypes /\ \A a \in Activities : SlotInv(a)

-----------------------------------------------------------------------------
(* What a step may do to one activity.                                      *)

\* Nothing of its slot changes.
Same(b) == /\ UNCHANGED <<gen[b], pend[b], told[b], heard[b], lostAt[b], ready[b]>>
           /\ Holds(b)' <=> Holds(b)

\* The worker of its newest selection stays where it is.
WorkSame(b) ==
    gen[b] \in Gens => /\ work'[b][gen[b]].phase = work[b][gen[b]].phase
                       /\ work'[b][gen[b]].result = work[b][gen[b]].result

\* What the promise allows: nothing, a newer selection, its log, its outcome, a restart.
Promised(b) ==
    \/ gen'[b] = gen[b] /\ told'[b] = told[b] /\ (Holds(b)' <=> Holds(b))
    \/ gen'[b] = gen[b] + 1 /\ told'[b] = told[b] /\ ~Holds(b)'
    \/ /\ gen'[b] = gen[b] /\ told'[b] = told[b] /\ told[b].gen # gen[b]
       /\ ~Holds(b) /\ Holds(b)'
    \/ /\ gen'[b] = gen[b] /\ (Holds(b)' <=> Holds(b)) /\ told[b].gen # gen[b]
       /\ \E kind \in Terminal : /\ told'[b] = Event(kind, gen[b])
                                 /\ kind = "ready" => Holds(b)
    \/ gen'[b] = 0 /\ told'[b] = NoEvent /\ ~Holds(b)'

\* The main looper's queue is as it was, or shorter by its head, or longer by p.
Moved(p) == \/ posts' = posts
            \/ posts # <<>> /\ posts' = Tail(posts)
            \/ posts' = Append(posts, p)

\* What is posted was posted, or is p, and stands behind what it stood behind.
LEMMA MovedPosts ==
  ASSUME posts \in Seq(PostType), NEW p \in PostType, Moved(p)
  PROVE  /\ \A i \in 1..Len(posts') :
                (\E k \in 1..Len(posts) : posts'[i] = posts[k]) \/ posts'[i] = p
         /\ \A i, j \in 1..Len(posts') : i < j =>
                \E k \in 1..Len(posts) :
                    /\ posts'[i] = posts[k]
                    /\ posts'[j] = p \/ \E l \in 1..Len(posts) : k < l /\ posts'[j] = posts[l]
  <1>1. CASE posts' = posts
    <2>1. \A i, j \in 1..Len(posts) : i < j => \E k \in 1..Len(posts) :
              posts[i] = posts[k] /\ \E l \in 1..Len(posts) : k < l /\ posts[j] = posts[l]
        OBVIOUS
    <2> QED
        BY <1>1, <2>1
  <1>2. CASE posts # <<>> /\ posts' = Tail(posts)
    <2>1. /\ Len(posts') = Len(posts) - 1 /\ Len(posts) \in Nat
          /\ \A i \in 1..Len(posts') : posts'[i] = posts[i + 1] /\ i + 1 \in 1..Len(posts)
        BY <1>2
    <2>2. ASSUME NEW i \in 1..Len(posts'), NEW j \in 1..Len(posts'), i < j
          PROVE  \E k \in 1..Len(posts) : /\ posts'[i] = posts[k]
                                          /\ \E l \in 1..Len(posts) : k < l /\ posts'[j] = posts[l]
      <3>1. i + 1 < j + 1
          BY <2>1, <2>2
      <3> QED
          BY <2>1, <3>1
    <2> QED
        BY <2>1, <2>2
  <1>3. CASE posts' = Append(posts, p)
    <2>1. /\ Len(posts') = Len(posts) + 1 /\ Len(posts) \in Nat
          /\ \A i \in 1..Len(posts) : posts'[i] = posts[i]
          /\ posts'[Len(posts) + 1] = p
        BY <1>3
    <2>2. \A i \in 1..Len(posts') : i \in 1..Len(posts) \/ posts'[i] = p
        BY <2>1
    <2>3. \A i, j \in 1..Len(posts') : i < j => i \in 1..Len(posts)
        BY <2>1
    <2> QED
        BY <2>1, <2>2, <2>3
  <1> QED
      BY <1>1, <1>2, <1>3 DEF Moved

\* The handler, the worker and what is posted, when nothing the invariant tells apart
\* changes for the activity.
LEMMA FlagsKept ==
  ASSUME posts \in Seq(PostType), NEW b \in Activities, SlotInv(b),
         gen'[b] = gen[b], Held(b)' <=> Held(b), Told(b)' <=> Told(b), Holds(b)' <=> Holds(b),
         WorkSame(b), Handler(b)' => Handler(b) /\ pend'[b] = pend[b],
         NEW p \in PostType, ~Mine(b, p), Moved(p)
  PROVE  HandlerInv(b)' /\ WorkerInv(b)' /\ PostOrder(b)'
         /\ \A i \in 1..Len(posts') : PostInv(b, posts[i])'
  <1>1. /\ \A i \in 1..Len(posts') :
               (\E k \in 1..Len(posts) : posts'[i] = posts[k]) \/ posts'[i] = p
        /\ \A i, j \in 1..Len(posts') : i < j =>
               \E k \in 1..Len(posts) :
                   /\ posts'[i] = posts[k]
                   /\ posts'[j] = p \/ \E l \in 1..Len(posts) : k < l /\ posts'[j] = posts[l]
      BY MovedPosts
  <1>2. Busy(b)' <=> Busy(b)
      BY DEF Busy, WorkSame
  <1>3. WorkerInv(b)'
      BY <1>2 DEF SlotInv, WorkerInv, WorkSame, Busy
  <1>4. HandlerInv(b)'
      BY <1>1 DEF SlotInv, HandlerInv, NonePosted, Mine, WorkSame
  <1>5. PostOrder(b)'
    <2> SUFFICES ASSUME NEW i \in 1..Len(posts'), NEW j \in 1..Len(posts'), i < j,
                        Mine(b, posts'[i]), Mine(b, posts'[j])
                 PROVE  posts'[i].run \in {"start", "progress"}
        BY DEF PostOrder, Mine
    <2>1. PICK k \in 1..Len(posts), l \in 1..Len(posts) :
              k < l /\ posts'[i] = posts[k] /\ posts'[j] = posts[l]
        BY <1>1
    <2> QED
        BY <2>1 DEF SlotInv, PostOrder
  <1>6. ASSUME NEW i \in 1..Len(posts') PROVE PostInv(b, posts[i])'
    <2> SUFFICES ASSUME Mine(b, posts'[i]) PROVE PostInv(b, posts[i])'
        BY DEF PostInv, Mine
    <2>1. PICK k \in 1..Len(posts) : posts'[i] = posts[k]
        BY <1>1
    <2>2. PostInv(b, posts[k]) /\ Mine(b, posts[k])
        BY <2>1 DEF SlotInv
    <2> QED
        BY <1>2, <2>1, <2>2 DEF PostInv
  <1> QED
      BY <1>3, <1>4, <1>5, <1>6

\* What was heard stands while the slot does not lose its log.
LEMMA HeardKept ==
  ASSUME NEW a \in Activities, HeardInv(a), Holds(a) => Holds(a)',
         UNCHANGED <<heard[a], told[a], gen[a], lostAt[a]>>
  PROVE  HeardInv(a)'
  <1> DEFINE Heard(h, t, g, lost) ==
                 /\ t.gen <= g
                 /\ \A i \in 1..Len(h) :
                        /\ h[i].gen >= 1 /\ h[i].gen <= g
                        /\ h[i].kind = "ready" => h[i].gen > lost
                        /\ (h[i].gen = g /\ h[i].kind \in Terminal) => t.gen = g
                 /\ \A i, j \in 1..Len(h) : i < j => h[i].gen = h[j].gen /\ h[i].kind \notin Terminal
             Ready(h, g) == \E i \in 1..Len(h) : h[i].gen = g /\ h[i].kind = "ready"
  <1>1. \A h, t, g, lost, holds :
            HeardOk(h, t, g, holds, lost) <=> Heard(h, t, g, lost) /\ (Ready(h, g) => holds)
      BY DEF HeardOk
  <1> HIDE DEF Heard, Ready
  <1>2. Heard(heard[a], told[a], gen[a], lostAt[a]) /\ (Ready(heard[a], gen[a]) => Holds(a))
      BY <1>1 DEF HeardInv
  <1>3. /\ Heard(heard'[a], told'[a], gen'[a], lostAt'[a])
        /\ Ready(heard'[a], gen'[a]) => Holds(a)'
      BY <1>2
  <1>4. HeardOk(heard'[a], told'[a], gen'[a], Holds(a)', lostAt'[a])
      BY <1>1, <1>3
  <1> QED
      BY <1>4 DEF HeardInv

\* An activity the step is not about.
LEMMA Elsewhere ==
  ASSUME posts \in Seq(PostType), NEW b \in Activities, SlotInv(b), Same(b), WorkSame(b),
         Handler(b)' => Handler(b), NEW p \in PostType, ~Mine(b, p), Moved(p)
  PROVE  SlotInv(b)' /\ Promised(b)
  <1>1. /\ gen'[b] = gen[b] /\ (Held(b)' <=> Held(b)) /\ (Told(b)' <=> Told(b))
        /\ (Holds(b)' <=> Holds(b)) /\ pend'[b] = pend[b] /\ told'[b] = told[b]
      BY DEF Same, Held, Told
  <1>2. /\ HandlerInv(b)' /\ WorkerInv(b)' /\ PostOrder(b)'
        /\ \A i \in 1..Len(posts') : PostInv(b, posts[i])'
      BY <1>1, FlagsKept
  <1>3. PendInv(b)'
      BY <1>1 DEF SlotInv, PendInv, Same
  <1>4. HeardInv(b)'
      BY <1>1, HeardKept DEF SlotInv, Same
  <1> QED
      BY <1>1, <1>2, <1>3, <1>4 DEF SlotInv, Promised

-----------------------------------------------------------------------------
(* What a page hears.                                                      *)

LEMMA HearsOk ==
  ASSUME NEW h \in Seq(Events), NEW t \in Answers, NEW g \in Nat, g >= 1, NEW holds,
         NEW lost \in Nat, lost < g, HeardOk(h, t, g, holds, lost), t.gen # g,
         NEW e \in Events, e.gen = g, e.kind = "ready" => holds,
         NEW u \in Answers, u = IF e.kind \in Terminal THEN e ELSE t
  PROVE  HeardOk(Hears(h, e), u, g, holds, lost) /\ Hears(h, e) \in Seq(Events)
  <1> DEFINE k == Hears(h, e)
  <1>0. /\ Len(h) \in Nat /\ (h # <<>> => Len(h) \in 1..Len(h))
        /\ \A i \in 1..Len(h) : h[i] \in Events /\ h[i].gen \in Nat
    <2>1. Len(h) \in Nat /\ (h # <<>> => Len(h) # 0)
        BY EmptySeq
    <2>2. \A i \in 1..Len(h) : h[i] \in Events
        OBVIOUS
    <2> QED
        BY <2>1, <2>2 DEF Events
  <1>1. /\ k \in Seq(Events) /\ Len(k) \in Nat
        /\ \A i \in 1..Len(k) : (i \in 1..Len(h) /\ k[i] = h[i]) \/ (i = Len(k) /\ k[i] = e)
        /\ \/ Len(k) = 1
           \/ Len(k) = Len(h) + 1 /\ (h # <<>> => h[Len(h)].gen >= g)
    <2>1. CASE h # <<>> /\ e.gen > h[Len(h)].gen
      <3>1. k = <<e>>
          BY <2>1 DEF Hears
      <3>2. k \in Seq(Events) /\ Len(k) = 1 /\ k[1] = e
          BY <3>1
      <3> HIDE DEF k
      <3> QED
          BY <3>2
    <2>2. CASE ~(h # <<>> /\ e.gen > h[Len(h)].gen)
      <3>1. k = Append(h, e)
          BY <2>2 DEF Hears
      <3>2. /\ k \in Seq(Events) /\ Len(k) = Len(h) + 1 /\ k[Len(h) + 1] = e
            /\ \A i \in 1..Len(h) : k[i] = h[i]
          BY <3>1, AppendProperties
      <3>3. h # <<>> => h[Len(h)].gen >= g
          BY <1>0, <2>2
      <3> HIDE DEF k
      <3> QED
          BY <1>0, <3>2, <3>3
    <2> QED
        BY <2>1, <2>2
  <1> HIDE DEF k
  <1>2. u.gen <= g /\ (e.kind \in Terminal => u.gen = g)
      BY DEF HeardOk, Answers
  <1>3. ASSUME NEW i \in 1..Len(k)
        PROVE  /\ k[i].gen >= 1 /\ k[i].gen <= g
               /\ k[i].kind = "ready" => k[i].gen > lost
               /\ (k[i].gen = g /\ k[i].kind \in Terminal) => u.gen = g
               /\ (k[i].gen = g /\ k[i].kind = "ready") => holds
      BY <1>1, <1>2 DEF HeardOk, Terminal
  <1>4. ASSUME NEW i \in 1..Len(k), NEW j \in 1..Len(k), i < j
        PROVE  k[i].gen = k[j].gen /\ k[i].kind \notin Terminal
    <2>1. i \in 1..Len(h) /\ k[i] = h[i] /\ Len(k) = Len(h) + 1 /\ h # <<>>
        BY <1>0, <1>1, <1>4
    <2>2. h[Len(h)].gen = g /\ Len(h) \in 1..Len(h)
        BY <1>0, <1>1, <2>1 DEF HeardOk
    <2>3. h[i].gen = g
        BY <1>0, <2>1, <2>2 DEF HeardOk
    <2>4. h[i].kind \notin Terminal
        BY <2>1, <2>3 DEF HeardOk
    <2>5. k[j] = e \/ (j \in 1..Len(h) /\ k[j] = h[j])
        BY <1>1
    <2>6. k[j].gen = g
        BY <1>0, <2>2, <2>5 DEF HeardOk
    <2> QED
        BY <2>1, <2>3, <2>4, <2>6
  <1> QED
      BY <1>1, <1>2, <1>3, <1>4 DEF HeardOk, k

\* An event for the newest selection of an activity, sent or held.
LEMMA Dispatched ==
  ASSUME TypeInv, HistoryTypes, NEW a \in Activities, SlotInv(a),
         NEW kind \in {"start", "ready", "failed"}, NEW g \in Nat, Dispatch(a, Event(kind, g)),
         g = gen[a] => g >= 1 /\ ~Held(a) /\ ~Told(a) /\ (kind = "ready" => Holds(a)),
         UNCHANGED <<gen, cur, lostAt, ready>>
  PROVE  /\ HistoryTypes' /\ PendInv(a)' /\ HeardInv(a)' /\ Promised(a)
         /\ \A b \in Activities : b # a => Same(b)
         /\ gen'[a] = gen[a] /\ (Holds(a)' <=> Holds(a))
         /\ (kind = "start" \/ g # gen[a]) => (Held(a)' <=> Held(a)) /\ (Told(a)' <=> Told(a))
  <1> DEFINE e == Event(kind, g)
  <1>1. e.kind = kind /\ e.gen = g /\ e \in Events
      BY DEF Event, Events, Kinds
  <1>2. gen'[a] = gen[a] /\ (Holds(a)' <=> Holds(a)) /\ gen[a] \in Nat /\ lostAt[a] \in Nat
      BY DEF Holds, TypeInv, ActivityTypes, SlotTypes
  <1>3. /\ heard \in [Activities -> Seq(Events)] /\ told \in [Activities -> Answers]
        /\ pend \in [Activities -> SlotType] /\ pend[a].gen = gen[a]
      BY DEF HistoryTypes, TypeInv, SlotTypes
  <1>4. CASE UNCHANGED <<pend, heard, told>>
    <2>1. Same(a) /\ HistoryTypes' /\ \A b \in Activities : b # a => Same(b)
        BY <1>4 DEF Same, HistoryTypes, Holds
    <2>2. (Held(a)' <=> Held(a)) /\ (Told(a)' <=> Told(a))
        BY <1>4 DEF Held, Told
    <2>3. PendInv(a)' /\ HeardInv(a)' /\ Promised(a)
        BY <1>2, <2>1, <2>2, HeardKept DEF SlotInv, PendInv, Promised, Same
    <2> QED
        BY <1>2, <2>1, <2>2, <2>3
  <1>5. CASE g = gen[a] /\ ready[a] /\ Deliver(a, <<e>>) /\ pend' = pend
    <2> DEFINE h == Hears(heard[a], e)
               u == IF e.kind \in Terminal THEN e ELSE told[a]
    <2> HIDE DEF e
    <2>1. heard' = [heard EXCEPT ![a] = h] /\ told' = [told EXCEPT ![a] = u]
      <3>1. Len(<<e>>) = 1 /\ <<e>>[1] = e
          OBVIOUS
      <3> QED
          BY <1>3, <1>5, <3>1 DEF Deliver
    <2>2. u \in Answers /\ (kind \in Terminal => u.gen = g) /\ (kind \notin Terminal => u = told[a])
      <3>1. told[a] \in Answers
          BY <1>3
      <3>2. e.kind \in Terminal => e \in Answers
          BY <1>1 DEF Events, Answers
      <3> QED
          BY <1>1, <3>1, <3>2
    <2>3. told[a].gen # g /\ g >= 1 /\ (kind = "ready" => Holds(a)) /\ ~Held(a) /\ ~Told(a)
        BY <1>5 DEF Told
    <2>4. HeardOk(h, u, g, Holds(a), lostAt[a]) /\ h \in Seq(Events)
      <3> DEFINE H == heard[a]
                 T == told[a]
                 L == lostAt[a]
                 O == Holds(a)
      <3>1. H \in Seq(Events) /\ T \in Answers /\ L \in Nat
          BY <1>2, <1>3
      <3>2. HeardOk(H, T, g, O, L) /\ L < g
          BY <1>2, <1>5, <2>3 DEF SlotInv, HeardInv
      <3>3. T.gen # g /\ (e.kind = "ready" => O) /\ u = IF e.kind \in Terminal THEN e ELSE T
          BY <1>1, <2>3
      <3> HIDE DEF H, T, L, O, u
      <3>4. HeardOk(Hears(H, e), u, g, O, L) /\ Hears(H, e) \in Seq(Events)
          BY <1>1, <2>2, <2>3, <3>1, <3>2, <3>3, HearsOk
      <3> QED
          BY <3>4 DEF H, L, O
    <2> HIDE DEF u
    <2> HIDE DEF h
    <2>5. /\ heard'[a] = h /\ told'[a] = u /\ HistoryTypes'
          /\ \A b \in Activities : b # a => heard'[b] = heard[b] /\ told'[b] = told[b]
        BY <1>3, <2>1, <2>2, <2>4 DEF HistoryTypes
    <2>6. \A b \in Activities : b # a => Same(b)
        BY <1>5, <2>5 DEF Same, Holds
    <2>7. HeardInv(a)'
        BY <1>2, <1>5, <2>4, <2>5 DEF SlotInv, HeardInv, HeardOk
    <2>8. PendInv(a)'
        BY <1>2, <1>5, <2>3 DEF SlotInv, PendInv, Held
    <2>9. kind = "start" => (Held(a)' <=> Held(a)) /\ (Told(a)' <=> Told(a))
        BY <1>5, <2>2, <2>5 DEF Held, Told, Terminal
    <2>10. Promised(a)
      <3>1. CASE kind = "start"
          BY <1>2, <2>2, <2>5, <3>1 DEF Promised, Terminal
      <3>2. CASE kind \in Terminal
          BY <1>2, <1>5, <2>2, <2>3, <2>5, <3>2 DEF Promised, e, u
      <3> QED
          BY <3>1, <3>2 DEF Terminal
    <2> QED
        BY <1>2, <1>5, <2>5, <2>6, <2>7, <2>8, <2>9, <2>10
  <1>6. CASE /\ g = gen[a] /\ ~ready[a] /\ pend' = [pend EXCEPT ![a] = Queue(@, e)]
             /\ UNCHANGED <<heard, told>>
    <2>1. pend'[a] = Queue(pend[a], e) /\ \A b \in Activities : b # a => pend'[b] = pend[b]
        BY <1>3, <1>6
    <2>2. HistoryTypes' /\ \A b \in Activities : b # a => Same(b)
        BY <1>6, <2>1 DEF Same, HistoryTypes, Holds
    <2>3. g >= 1 /\ (kind = "ready" => Holds(a)) /\ ~Held(a) /\ ~Told(a)
        BY <1>6
    <2> DEFINE q == Queue(pend[a], e)
    <2>4. IF kind = "start" THEN q.start = e /\ q.terminal = pend[a].terminal
          ELSE q.start = pend[a].start /\ q.terminal = e
        BY <1>1, <1>3, <1>6 DEF Queue, SlotType
    <2> HIDE DEF q
    <2>5. pend'[a].terminal = q.terminal /\ pend'[a].start = q.start /\ Told(a)' = Told(a)
        BY <1>2, <1>6, <2>1 DEF q, Told
    <2>6. PendInv(a)'
      <3>1. CASE kind = "start"
          BY <1>2, <1>6, <2>3, <2>4, <2>5, <3>1 DEF SlotInv, PendInv, Held, Told
      <3>2. CASE kind # "start"
          BY <1>1, <1>2, <1>6, <2>3, <2>4, <2>5, <3>2 DEF SlotInv, PendInv, Held, Told
      <3> QED
          BY <3>1, <3>2
    <2>7. HeardInv(a)' /\ Promised(a)
        BY <1>2, <1>6, HeardKept DEF SlotInv, Promised
    <2>8. kind = "start" => (Held(a)' <=> Held(a)) /\ (Told(a)' <=> Told(a))
        BY <2>4, <2>5 DEF Held
    <2> QED
        BY <1>2, <1>6, <2>2, <2>6, <2>7, <2>8
  <1> QED
      BY <1>1, <1>4, <1>5, <1>6 DEF Dispatch, IsCurrent

-----------------------------------------------------------------------------
(* What is posted for an activity.                                          *)

\* A step keeps the invariant and does what the promise allows.
Kept == HistoryTypes' /\ \A b \in Activities : SlotInv(b)' /\ Promised(b)

\* Stands for what is posted by a step that posts nothing.
Quiet(a) == [a |-> a, run |-> "start", gen |-> gen[a] + 1, result |-> "none"]

LEMMA QuietIsTyped ==
  ASSUME TypeInv, NEW a \in Activities
  PROVE  /\ posts \in Seq(PostType) /\ Quiet(a) \in PostType /\ Quiet(a).a = a
         /\ ~Mine(a, Quiet(a)) /\ (posts' = posts => Moved(Quiet(a)))
  <1>1. gen[a] \in Nat
      BY BoundsAssumption DEF TypeInv, ActivityTypes
  <1> QED
      BY <1>1 DEF Quiet, PostType, Results, Mine, Moved, TypeInv, PostTypes

\* A step about one activity, which may post p for it.
LEMMA OneActivity ==
  ASSUME TypeInv, ImportInv, HistoryTypes', NEW a \in Activities, SlotInv(a)', Promised(a),
         NEW p \in PostType, p.a = a, Moved(p),
         \A b \in Activities : b # a => Same(b) /\ WorkSame(b) /\ (Handler(b)' => Handler(b))
  PROVE  Kept
  <1>1. ASSUME NEW b \in Activities, b # a PROVE SlotInv(b)' /\ Promised(b)
    <2>1. ~Mine(b, p) /\ SlotInv(b) /\ posts \in Seq(PostType)
        BY <1>1 DEF Mine, ImportInv, TypeInv, PostTypes
    <2> QED
        BY <1>1, <2>1, Elsewhere
  <1> QED
      BY <1>1 DEF Kept

\* Nothing was posted for the selection, and p may be.
LEMMA FirstPost ==
  ASSUME posts \in Seq(PostType), NEW a \in Activities, NonePosted(a), gen'[a] = gen[a],
         NEW p \in PostType, Moved(p), Mine(a, p) => PostInv(a, p)'
  PROVE  /\ PostOrder(a)' /\ \A i \in 1..Len(posts') : PostInv(a, posts[i])'
         /\ ~Mine(a, p) => NonePosted(a)'
  <1>1. /\ \A i \in 1..Len(posts') :
               (\E k \in 1..Len(posts) : posts'[i] = posts[k]) \/ posts'[i] = p
        /\ \A i, j \in 1..Len(posts') : i < j => \E k \in 1..Len(posts) : posts'[i] = posts[k]
      BY MovedPosts
  <1>2. \A i, j \in 1..Len(posts') : i < j => ~Mine(a, posts'[i])
      BY <1>1 DEF NonePosted, Mine
  <1>3. PostOrder(a)'
      BY <1>2 DEF PostOrder, Mine
  <1>4. ASSUME NEW i \in 1..Len(posts') PROVE PostInv(a, posts[i])'
    <2>1. Mine(a, posts'[i]) => posts'[i] = p
        BY <1>1 DEF NonePosted, Mine
    <2> QED
        BY <2>1 DEF PostInv, Mine
  <1>5. ~Mine(a, p) => NonePosted(a)'
      BY <1>1 DEF NonePosted, Mine
  <1> QED
      BY <1>3, <1>4, <1>5

\* What was posted still stands, and p, if it is of the same selection, comes after
\* nothing but its start and its progress.
LEMMA NextPost ==
  ASSUME posts \in Seq(PostType), NEW a \in Activities, SlotInv(a), gen'[a] = gen[a],
         Held(a)' => Held(a), Told(a)' => Told(a), Busy(a)' => Busy(a), Holds(a) => Holds(a)',
         NEW p \in PostType, Moved(p),
         Mine(a, p) => /\ PostInv(a, p)'
                       /\ \A i \in 1..Len(posts) :
                             Mine(a, posts[i]) => posts[i].run \in {"start", "progress"}
  PROVE  PostOrder(a)' /\ \A i \in 1..Len(posts') : PostInv(a, posts[i])'
  <1>1. /\ \A i \in 1..Len(posts') :
               (\E k \in 1..Len(posts) : posts'[i] = posts[k]) \/ posts'[i] = p
        /\ \A i, j \in 1..Len(posts') : i < j =>
               \E k \in 1..Len(posts) :
                   /\ posts'[i] = posts[k]
                   /\ posts'[j] = p \/ \E l \in 1..Len(posts) : k < l /\ posts'[j] = posts[l]
      BY MovedPosts
  <1>2. PostOrder(a)'
    <2> SUFFICES ASSUME NEW i \in 1..Len(posts'), NEW j \in 1..Len(posts'), i < j,
                        Mine(a, posts'[i]), Mine(a, posts'[j])
                 PROVE  posts'[i].run \in {"start", "progress"}
        BY DEF PostOrder, Mine
    <2>1. PICK k \in 1..Len(posts) :
              /\ posts'[i] = posts[k]
              /\ posts'[j] = p \/ \E l \in 1..Len(posts) : k < l /\ posts'[j] = posts[l]
        BY <1>1
    <2>2. CASE posts'[j] = p
        BY <2>1, <2>2
    <2>3. CASE \E l \in 1..Len(posts) : k < l /\ posts'[j] = posts[l]
        BY <2>1, <2>3 DEF SlotInv, PostOrder
    <2> QED
        BY <2>1, <2>2, <2>3
  <1>3. ASSUME NEW i \in 1..Len(posts') PROVE PostInv(a, posts[i])'
    <2> SUFFICES ASSUME Mine(a, posts'[i]) PROVE PostInv(a, posts[i])'
        BY DEF PostInv, Mine
    <2>1. CASE posts'[i] = p
        BY <2>1 DEF PostInv, Mine
    <2>2. CASE \E k \in 1..Len(posts) : posts'[i] = posts[k]
      <3>1. PICK k \in 1..Len(posts) : posts'[i] = posts[k]
          BY <2>2
      <3>2. PostInv(a, posts[k]) /\ Mine(a, posts[k])
          BY <3>1 DEF SlotInv
      <3> QED
          BY <3>1, <3>2 DEF PostInv
    <2> QED
        BY <1>1, <2>1, <2>2
  <1> QED
      BY <1>2, <1>3

-----------------------------------------------------------------------------
(* The UI thread.                                                          *)

\* A handler that retires the slot of its activity.
LEMMA RetiredSlot ==
  ASSUME TypeInv, ImportInv, NEW a \in Activities,
         NEW next \in {"import", "nofile", "recover", "destroy"}, NEW lost \in BOOLEAN,
         Retire(a, next, lost), posts' = posts, work' = work, cur' = cur, told' = told,
         \A b \in Activities : b # a => UNCHANGED <<heard[b], lostAt[b], ready[b]>>,
         heard' \in [Activities -> Seq(Events)],
         \/ heard'[a] = heard[a] /\ lostAt'[a] = lostAt[a]
         \/ heard'[a] = <<>> /\ lostAt'[a] = gen[a]
  PROVE  Kept
  <1> DEFINE g == gen[a]
  <1>1. g \in Nat /\ gen'[a] = g + 1 /\ g + 1 \in Gens /\ pend'[a] = Slot(g + 1)
        /\ ui'.a = a /\ ui'.at = "clear" /\ SlotInv(a) /\ lostAt[a] \in Nat /\ cur[a] <= g
        /\ cur[a] \in Nat
      BY BoundsAssumption
      DEF TypeInv, ActivityTypes, SlotTypes, Retire, Gens, ImportInv
  <1>2. told'[a] = told[a] /\ told[a].gen <= g /\ told[a].gen \in Nat
    <2>1. told[a] \in Answers
        BY DEF ImportInv, HistoryTypes
    <2> QED
        BY <1>1, <2>1 DEF SlotInv, HeardInv, HeardOk, Answers
  <1>3. ~Told(a)' /\ ~Holds(a)' /\ ~Held(a)'
      BY <1>1, <1>2 DEF Told, Holds, Held, Slot
  <1>4. NonePosted(a)'
    <2>1. ASSUME NEW i \in 1..Len(posts), posts[i].a = a PROVE posts[i].gen <= g /\ posts[i].gen \in Nat
      <3>1. posts[i] \in PostType /\ PostOK(posts[i])
          BY DEF TypeInv, PostTypes
      <3> QED
          BY <2>1, <3>1 DEF PostOK, PostType
    <2>2. \A i \in 1..Len(posts) : ~(posts[i].a = a /\ posts[i].gen = g + 1)
        BY <1>1, <2>1
    <2> QED
        BY <1>1, <2>2 DEF NonePosted, Mine
  <1>5. work'[a][g + 1].phase = "none" /\ ~Busy(a)'
      BY <1>1 DEF TypeInv, WorkTypes, Busy
  <1>6. HandlerInv(a)' /\ WorkerInv(a)' /\ PostOrder(a)' /\ PendInv(a)'
    <2>1. HandlerInv(a)'
        BY <1>1, <1>3, <1>4, <1>5 DEF HandlerInv
    <2>2. WorkerInv(a)' /\ PostOrder(a)'
        BY <1>4, <1>5 DEF WorkerInv, PostOrder, NonePosted
    <2>3. PendInv(a)'
        BY <1>1, <1>3 DEF PendInv, Slot, NoEvent, Event
    <2> QED
        BY <2>1, <2>2, <2>3
  <1>7. \A i \in 1..Len(posts') : PostInv(a, posts[i])'
      BY <1>4 DEF PostInv, NonePosted
  <1>8. HeardInv(a)'
    <2>1. CASE heard'[a] = heard[a] /\ lostAt'[a] = lostAt[a]
      <3> DEFINE h == heard[a]
      <3>1. HeardOk(h, told[a], g, Holds(a), lostAt[a]) /\ (lostAt[a] < g \/ g = 0)
          BY <1>1 DEF SlotInv, HeardInv
      <3>2. \A i \in 1..Len(h) : h[i].gen \in Nat
        <4>1. h \in Seq(Events)
            BY DEF ImportInv, HistoryTypes
        <4> HIDE DEF h
        <4>2. \A i \in 1..Len(h) : h[i] \in Events
            BY <4>1
        <4> QED
            BY <4>2 DEF Events
      <3> HIDE DEF h
      <3>3. HeardOk(h, told[a], g + 1, Holds(a)', lostAt[a])
          BY <1>1, <1>2, <3>1, <3>2 DEF HeardOk
      <3>4. lostAt[a] <= g
          BY <1>1, <3>1 DEF TypeInv, SlotTypes
      <3> QED
          BY <1>1, <1>2, <2>1, <3>3, <3>4 DEF HeardInv, h
    <2>2. CASE heard'[a] = <<>> /\ lostAt'[a] = g
        BY <1>1, <1>2, <2>2 DEF HeardInv, HeardOk
    <2> QED
        BY <2>1, <2>2
  <1>9. SlotInv(a)' /\ Promised(a) /\ HistoryTypes'
      BY <1>1, <1>2, <1>3, <1>6, <1>7, <1>8 DEF SlotInv, Promised, ImportInv, HistoryTypes
  <1>10. \A b \in Activities : b # a => Same(b) /\ WorkSame(b) /\ (Handler(b)' => Handler(b))
    <2>1. \A b \in Activities : b # a => gen'[b] = gen[b] /\ pend'[b] = pend[b]
        BY DEF Retire, TypeInv, ActivityTypes, SlotTypes
    <2> QED
        BY <1>1, <2>1 DEF Same, WorkSame, Handler, Holds
  <1> QED
      BY <1>9, <1>10, OneActivity, QuietIsTyped

\* What the activity's viewer or life goes through, apart from its slot, and a posted
\* runnable that finds nothing to do.
LEMMA SlotLeftAlone ==
  ASSUME TypeInv, ImportInv,
         UNCHANGED <<gen, cur, pend, told, heard, lostAt, ready, work, ui>>,
         posts' = posts \/ (posts # <<>> /\ posts' = Tail(posts))
  PROVE  Kept
  <1>1. ASSUME NEW b \in Activities PROVE SlotInv(b)' /\ Promised(b)
    <2>1. Same(b) /\ WorkSame(b) /\ (Handler(b)' => Handler(b)) /\ SlotInv(b)
        BY DEF Same, WorkSame, Handler, Holds, ImportInv
    <2>2. Moved(Quiet(b))
        BY DEF Moved
    <2> QED
        BY <2>1, <2>2, QuietIsTyped, Elsewhere
  <1> QED
      BY <1>1 DEF Kept, ImportInv, HistoryTypes

LEMMA ClearCurrentKeeps == TypeInv /\ ImportInv /\ ClearCurrent => Kept
  <1> SUFFICES ASSUME TypeInv, ImportInv, ClearCurrent PROVE Kept
      OBVIOUS
  <1> DEFINE a == ui.a
  <1>1. a \in Activities /\ cur \in [Activities -> Nat] /\ Handler(a)
        /\ ui'.a = a /\ UNCHANGED <<gen, pend, told, heard, lostAt, ready, work, posts>>
      BY DEF TypeInv, UiTypes, SlotTypes, Handler, ClearCurrent
  <1>2. cur'[a] = 0 /\ \A b \in Activities : b # a => cur'[b] = cur[b]
      BY <1>1 DEF ClearCurrent
  <1>3. ~Holds(a) /\ ~Holds(a)'
      BY <1>1, <1>2 DEF ImportInv, SlotInv, HandlerInv, Holds
  <1> HIDE DEF a
  <1>4. ASSUME NEW b \in Activities PROVE SlotInv(b)' /\ Promised(b)
    <2>1. Same(b) /\ WorkSame(b) /\ (Handler(b)' => Handler(b)) /\ SlotInv(b)
        BY <1>1, <1>2, <1>3 DEF Same, WorkSame, Handler, Holds, ImportInv
    <2> QED
        BY <1>1, <2>1, QuietIsTyped, Elsewhere
  <1> QED
      BY <1>1, <1>4 DEF Kept, ImportInv, HistoryTypes

\* A handler that retired the slot ends, having told or posted what it does.
LEMMA HandlerEnds ==
  ASSUME TypeInv, ImportInv, HistoryTypes', NEW a \in Activities, a = ui.a, ui.at = "unlink",
         ui' = Idle, UNCHANGED <<gen, cur, lostAt, ready>>, PendInv(a)', HeardInv(a)', Promised(a),
         \A b \in Activities : b # a => Same(b) /\ WorkSame(b),
         Busy(a)' => /\ work'[a][gen[a]].phase = "lookup"
                     /\ Held(a)' <=> Held(a)
                     /\ Told(a)' <=> Told(a),
         NEW p \in PostType, p.a = a, Moved(p),
         Mine(a, p) => /\ p.run = "rebuild" /\ ~Busy(a)'
                       /\ Held(a)' <=> Held(a)
                       /\ Told(a)' <=> Told(a)
  PROVE  Kept
  <1>1. /\ gen'[a] = gen[a] /\ (Holds(a)' <=> Holds(a)) /\ posts \in Seq(PostType)
        /\ SlotInv(a) /\ Handler(a) /\ \A b \in Activities : ~Handler(b)'
      BY DEF Holds, Handler, Idle, ImportInv, TypeInv, PostTypes
  <1>2. NonePosted(a) /\ ~Held(a) /\ ~Told(a) /\ ~Holds(a)
      BY <1>1 DEF SlotInv, HandlerInv, Held, Slot
  <1>3. PostOrder(a)' /\ \A i \in 1..Len(posts') : PostInv(a, posts[i])'
    <2>1. Mine(a, p) => PostInv(a, p)'
        BY <1>2 DEF PostInv
    <2> QED
        BY <1>1, <1>2, <2>1, FirstPost
  <1>4. HandlerInv(a)' /\ WorkerInv(a)'
      BY <1>1, <1>2 DEF HandlerInv, WorkerInv
  <1>5. SlotInv(a)'
      BY <1>3, <1>4 DEF SlotInv
  <1> QED
      BY <1>1, <1>5, OneActivity

LEMMA BeginImportKeeps == TypeInv /\ ImportInv /\ BeginImport => Kept
  <1> SUFFICES ASSUME TypeInv, ImportInv, BeginImport PROVE Kept
      OBVIOUS
  <1>a. PICK a \in Activities : a = ui.a
      BY DEF TypeInv, UiTypes
  <1>g. PICK g \in Nat : g = gen[a]
      BY BoundsAssumption DEF TypeInv, ActivityTypes
  <1>1. /\ Handler(a) /\ SlotInv(a) /\ HistoryTypes
        /\ work \in [Activities -> [Gens -> WorkerType]]
      BY <1>a, BoundsAssumption
      DEF TypeInv, ActivityTypes, UiTypes, WorkTypes, Handler, BeginImport, Unlink, ImportInv
  <1>2. g \in Gens /\ ~Held(a) /\ ~Told(a)
      BY <1>a, <1>g, <1>1 DEF SlotInv, HandlerInv, Held, Slot
  <1>3. /\ ui.at = "unlink" /\ ui' = Idle /\ UNCHANGED <<gen, cur, lostAt, ready, posts>>
        /\ Dispatch(a, Event("start", g))
        /\ work' = [work EXCEPT ![a][g].phase = "lookup"]
      BY <1>a, <1>g DEF BeginImport, Unlink, Notify
  <1>4. work'[a][g].phase = "lookup" /\ \A b \in Activities : b # a => work'[b] = work[b]
    <2>1. work[a][g] \in WorkerType
        BY <1>a, <1>g, <1>1, <1>2
    <2> QED
        BY <1>a, <1>g, <1>1, <1>2, <1>3, <2>1 DEF WorkerType
  <1>5. /\ HistoryTypes' /\ PendInv(a)' /\ HeardInv(a)' /\ Promised(a)
        /\ \A b \in Activities : b # a => Same(b)
        /\ Held(a)' <=> Held(a)
        /\ Told(a)' <=> Told(a)
    <2>1. g >= 1
        BY <1>a, <1>g, <1>2 DEF Gens
    <2> QED
        BY <1>a, <1>g, <1>1, <1>2, <1>3, <2>1, Dispatched
  <1>6. \A b \in Activities : b # a => WorkSame(b)
      BY <1>a, <1>g, <1>4 DEF WorkSame
  <1> QED
      BY <1>a, <1>g, <1>1, <1>3, <1>4, <1>5, <1>6, HandlerEnds, QuietIsTyped

LEMMA RefuseShareKeeps == TypeInv /\ ImportInv /\ RefuseShare => Kept
  <1> SUFFICES ASSUME TypeInv, ImportInv, RefuseShare PROVE Kept
      OBVIOUS
  <1>a. PICK a \in Activities : a = ui.a
      BY DEF TypeInv, UiTypes
  <1>g. PICK g \in Nat : g = gen[a]
      BY BoundsAssumption DEF TypeInv, ActivityTypes
  <1>1. Handler(a) /\ SlotInv(a) /\ HistoryTypes
      BY <1>a, BoundsAssumption
      DEF TypeInv, ActivityTypes, UiTypes, Handler, RefuseShare, Unlink, ImportInv
  <1>2. g \in Gens /\ ~Held(a) /\ ~Told(a) /\ ~Busy(a)
      BY <1>a, <1>g, <1>1 DEF SlotInv, HandlerInv, Held, Slot, Busy
  <1>3. /\ ui.at = "unlink" /\ ui' = Idle /\ UNCHANGED <<gen, cur, lostAt, ready, posts, work>>
        /\ Dispatch(a, Event("failed", g))
      BY <1>a, <1>g DEF RefuseShare, Unlink, Notify
  <1>4. ~Busy(a)' /\ \A b \in Activities : WorkSame(b)
      BY <1>a, <1>g, <1>2, <1>3 DEF Busy, WorkSame
  <1>5. /\ HistoryTypes' /\ PendInv(a)' /\ HeardInv(a)' /\ Promised(a)
        /\ \A b \in Activities : b # a => Same(b)
    <2>1. g >= 1
        BY <1>a, <1>g, <1>2 DEF Gens
    <2> QED
        BY <1>a, <1>g, <1>1, <1>2, <1>3, <2>1, Dispatched
  <1> QED
      BY <1>a, <1>g, <1>1, <1>3, <1>4, <1>5, HandlerEnds, QuietIsTyped

LEMMA RecoverKeeps == TypeInv /\ ImportInv /\ (Recover \/ EndDestroy) => Kept
  <1> SUFFICES ASSUME TypeInv, ImportInv, Recover \/ EndDestroy PROVE Kept
      OBVIOUS
  <1>a. PICK a \in Activities : a = ui.a
      BY DEF TypeInv, UiTypes
  <1> DEFINE p == [a |-> a, run |-> "rebuild", gen |-> gen[a],
                   result |-> IF ui.lost THEN "failed" ELSE "none"]
  <1>1. /\ gen[a] \in Nat /\ Handler(a) /\ SlotInv(a) /\ HistoryTypes
      BY <1>a, BoundsAssumption
      DEF TypeInv, ActivityTypes, UiTypes, Handler, Recover, EndDestroy, Unlink, ImportInv
  <1>2. ~Busy(a)
      BY <1>a, <1>1 DEF SlotInv, HandlerInv, Busy
  <1>3. /\ ui.at = "unlink" /\ ui' = Idle
        /\ UNCHANGED <<gen, cur, lostAt, ready, work, pend, heard, told>>
        /\ posts' = posts \/ posts' = Append(posts, p)
      BY <1>a DEF Recover, EndDestroy, Unlink
  <1>4. p \in PostType /\ p.a = a /\ p.run = "rebuild"
      BY <1>a, <1>1 DEF PostType, Results
  <1>5. Moved(p)
      BY <1>a, <1>3 DEF Moved
  <1> HIDE DEF p
  <1>6. /\ ~Busy(a)' /\ \A b \in Activities : WorkSame(b) /\ Same(b)
        /\ Held(a)' <=> Held(a)
        /\ Told(a)' <=> Told(a)
      BY <1>a, <1>2, <1>3 DEF Busy, WorkSame, Same, Holds, Held, Told
  <1>7. HistoryTypes' /\ PendInv(a)' /\ HeardInv(a)' /\ Promised(a)
      BY <1>a, <1>1, <1>3, <1>6, HeardKept
      DEF HistoryTypes, SlotInv, PendInv, Promised, Same
  <1> QED
      BY <1>a, <1>1, <1>3, <1>4, <1>5, <1>6, <1>7, HandlerEnds

-----------------------------------------------------------------------------
(* What the system and the user bring.                                     *)

LEMMA PageStartedKeeps ==
  ASSUME TypeInv, ImportInv, NEW a \in Activities, PageStarted(a)
  PROVE  Kept
  <1>1. /\ UNCHANGED <<gen, cur, pend, told, lostAt, work, posts, ui>>
        /\ heard \in [Activities -> Seq(Events)] /\ ready \in [Activities -> BOOLEAN]
        /\ heard' = [heard EXCEPT ![a] = <<>>] /\ ready' = [ready EXCEPT ![a] = FALSE]
        /\ SlotInv(a) /\ posts \in Seq(PostType)
      BY DEF PageStarted, TypeInv, ActivityTypes, PostTypes, ImportInv, HistoryTypes
  <1>2. /\ heard'[a] = <<>> /\ ~ready'[a] /\ HistoryTypes'
        /\ \A b \in Activities : b # a => heard'[b] = heard[b] /\ ready'[b] = ready[b]
      BY <1>1 DEF ImportInv, HistoryTypes
  <1>3. /\ gen'[a] = gen[a] /\ (Held(a)' <=> Held(a)) /\ (Told(a)' <=> Told(a))
        /\ (Holds(a)' <=> Holds(a)) /\ pend'[a] = pend[a] /\ told'[a] = told[a]
        /\ WorkSame(a) /\ (Handler(a)' => Handler(a))
      BY <1>1 DEF Held, Told, Holds, WorkSame, Handler
  <1>4. /\ HandlerInv(a)' /\ WorkerInv(a)' /\ PostOrder(a)'
        /\ \A i \in 1..Len(posts') : PostInv(a, posts[i])'
      BY <1>1, <1>3, FlagsKept, QuietIsTyped
  <1>5. PendInv(a)'
      BY <1>1, <1>2, <1>3 DEF SlotInv, PendInv
  <1>6. HeardInv(a)'
      BY <1>1, <1>2, <1>3 DEF SlotInv, HeardInv, HeardOk
  <1>7. SlotInv(a)' /\ Promised(a)
      BY <1>3, <1>4, <1>5, <1>6 DEF SlotInv, Promised
  <1>8. \A b \in Activities : b # a => Same(b) /\ WorkSame(b) /\ (Handler(b)' => Handler(b))
      BY <1>1, <1>2 DEF Same, WorkSame, Handler, Holds
  <1> QED
      BY <1>1, <1>2, <1>7, <1>8, OneActivity, QuietIsTyped

\* A page that can hear hears what was held for it: the start, then the outcome.
LEMMA DrainedIsHeard ==
  ASSUME TypeInv, ImportInv, NEW a \in Activities, NEW g \in Nat, g = gen[a], Deliver(a, Drained(a))
  PROVE  /\ HistoryTypes'
         /\ \A b \in Activities : b # a => heard'[b] = heard[b] /\ told'[b] = told[b]
         /\ told'[a] = IF Held(a) THEN pend[a].terminal ELSE told[a]
         /\ HeardOk(heard'[a], told'[a], g, Holds(a), lostAt[a])
  <1> DEFINE H == heard[a]
             T == told[a]
             L == lostAt[a]
             O == Holds(a)
             s == pend[a].start
             t == pend[a].terminal
  <1>1. /\ H \in Seq(Events) /\ T \in Answers /\ L \in Nat /\ HeardOk(H, T, g, O, L)
        /\ (L < g \/ g = 0) /\ pend[a].gen = g
        /\ heard \in [Activities -> Seq(Events)] /\ told \in [Activities -> Answers]
      BY DEF TypeInv, SlotTypes, ImportInv, SlotInv, HeardInv, HistoryTypes
  <1>2. /\ s # NoEvent => s.kind = "start" /\ s.gen = g
        /\ t # NoEvent => t.kind \in Terminal /\ t.gen = g /\ (t.kind = "ready" => O)
        /\ (s # NoEvent \/ t # NoEvent) => g >= 1 /\ L < g /\ T.gen # g
    <2>1. PendInv(a)
        BY DEF ImportInv, SlotInv
    <2>2. /\ s # NoEvent => s = Event("start", g)
          /\ t # NoEvent => t = Event("ready", g) \/ t = Event("failed", g)
          /\ t.kind = "ready" => O
          /\ t # NoEvent => ~Told(a) /\ g # 0
        BY <2>1 DEF PendInv, Held
    <2>3. (s # NoEvent \/ t # NoEvent) => g # 0 /\ ~Told(a)
      <3>1. pend[a] = Slot(gen[a]) => s = NoEvent /\ t = NoEvent
          BY DEF Slot
      <3> QED
          BY <2>1, <3>1 DEF PendInv
    <2> QED
        BY <1>1, <2>2, <2>3 DEF Told, Event, Terminal
  <1>3. /\ s # NoEvent => s \in Events
        /\ t # NoEvent => t \in Events /\ t \in Answers
    <2>1. pend[a] \in SlotType
        BY DEF TypeInv, SlotTypes
    <2> QED
        BY <1>2, <2>1 DEF SlotType, EventOf, Events, Answers, Kinds, Terminal
  <1>4. Drained(a) = (IF s = NoEvent THEN <<>> ELSE <<s>>) \o (IF t = NoEvent THEN <<>> ELSE <<t>>)
      BY <1>1 DEF Drained
  <1>5. Held(a) <=> t # NoEvent
      BY DEF Held
  <1> DEFINE Told1(h, u) == /\ heard' = [heard EXCEPT ![a] = h] /\ told' = [told EXCEPT ![a] = u]
                            /\ h \in Seq(Events) /\ u \in Answers /\ HeardOk(h, u, g, O, L)
  <1>6. ASSUME NEW h, NEW u, Told1(h, u), u = IF Held(a) THEN t ELSE T
        PROVE  /\ HistoryTypes'
               /\ \A b \in Activities : b # a => heard'[b] = heard[b] /\ told'[b] = told[b]
               /\ told'[a] = IF Held(a) THEN t ELSE T
               /\ HeardOk(heard'[a], told'[a], g, O, L)
    <2>1. heard'[a] = h /\ told'[a] = u
        BY <1>1, <1>6
    <2> QED
        BY <1>1, <1>6, <2>1 DEF HistoryTypes
  <1> HIDE DEF H, T, L, O, s, t
  <1>7. ASSUME NEW d, d = Drained(a)
        PROVE  /\ heard' = [heard EXCEPT ![a] = IF Len(d) = 0 THEN H
                                     ELSE IF Len(d) = 1 THEN Hears(H, d[1])
                                     ELSE Hears(Hears(H, d[1]), d[2])]
               /\ told' = [told EXCEPT ![a] = IF Len(d) > 0 /\ d[Len(d)].kind \in Terminal
                                   THEN d[Len(d)] ELSE T]
      BY <1>1, <1>7 DEF Deliver, H, T
  <1>8. CASE s = NoEvent /\ t = NoEvent
    <2>1. Drained(a) = <<>>
        BY <1>4, <1>8
    <2>2. Told1(H, T)
        BY <1>1, <1>7, <2>1
    <2> QED
        BY <1>5, <1>6, <1>8, <2>2 DEF T, t, O, L
  <1>9. CASE s # NoEvent /\ t = NoEvent
    <2>1. Drained(a) = <<s>> /\ Len(<<s>>) = 1 /\ <<s>>[1] = s
        BY <1>4, <1>9
    <2>2. heard' = [heard EXCEPT ![a] = Hears(H, s)] /\ told' = [told EXCEPT ![a] = T]
      <3>1. s.kind \notin Terminal
          BY <1>2, <1>9 DEF Terminal
      <3> QED
          BY <1>7, <2>1, <3>1
    <2>3. HeardOk(Hears(H, s), T, g, O, L) /\ Hears(H, s) \in Seq(Events)
        BY <1>1, <1>2, <1>3, <1>9, HearsOk DEF Terminal
    <2>4. Told1(Hears(H, s), T)
        BY <1>1, <2>2, <2>3
    <2> QED
        BY <1>5, <1>6, <1>9, <2>4 DEF T, t, O, L
  <1>10. CASE s = NoEvent /\ t # NoEvent
    <2> DEFINE d == Drained(a)
    <2>1. Len(d) = 1 /\ d[1] = t /\ t.kind \in Terminal
        BY <1>2, <1>4, <1>10
    <2> HIDE DEF d
    <2>2. heard' = [heard EXCEPT ![a] = Hears(H, t)] /\ told' = [told EXCEPT ![a] = t]
        BY <1>7, <2>1 DEF d
    <2>3. HeardOk(Hears(H, t), t, g, O, L) /\ Hears(H, t) \in Seq(Events)
        BY <1>1, <1>2, <1>3, <1>10, HearsOk
    <2>4. Told1(Hears(H, t), t)
        BY <1>3, <1>10, <2>2, <2>3
    <2> QED
        BY <1>5, <1>6, <1>10, <2>4 DEF T, t, O, L
  <1>11. CASE s # NoEvent /\ t # NoEvent
    <2> DEFINE d == Drained(a)
               k == Hears(H, s)
    <2>1. Len(d) = 2 /\ d[1] = s /\ d[2] = t /\ t.kind \in Terminal
        BY <1>2, <1>4, <1>11
    <2> HIDE DEF d
    <2>2. heard' = [heard EXCEPT ![a] = Hears(k, t)] /\ told' = [told EXCEPT ![a] = t]
      <3>1. /\ heard' = [heard EXCEPT ![a] = IF Len(d) = 0 THEN H
                                     ELSE IF Len(d) = 1 THEN Hears(H, d[1])
                                     ELSE Hears(Hears(H, d[1]), d[2])]
            /\ told' = [told EXCEPT ![a] = IF Len(d) > 0 /\ d[Len(d)].kind \in Terminal
                                   THEN d[Len(d)] ELSE T]
          BY <1>7 DEF d
      <3>2. d[Len(d)] = t /\ Len(d) > 0
          BY <2>1
      <3>3. heard' = [heard EXCEPT ![a] = Hears(Hears(H, d[1]), d[2])]
          BY <2>1, <3>1
      <3> QED
          BY <2>1, <3>1, <3>2, <3>3
    <2>3. HeardOk(k, T, g, O, L) /\ k \in Seq(Events)
        BY <1>1, <1>2, <1>3, <1>11, HearsOk DEF Terminal
    <2> HIDE DEF k
    <2>4. HeardOk(Hears(k, t), t, g, O, L) /\ Hears(k, t) \in Seq(Events)
        BY <1>1, <1>2, <1>3, <1>11, <2>3, HearsOk
    <2>5. Told1(Hears(k, t), t)
        BY <1>3, <1>11, <2>2, <2>4
    <2> QED
        BY <1>5, <1>6, <1>11, <2>5 DEF T, t, O, L
  <1> QED
      BY <1>8, <1>9, <1>10, <1>11

LEMMA PageFinishedKeeps ==
  ASSUME TypeInv, ImportInv, NEW a \in Activities, PageFinished(a)
  PROVE  Kept
  <1>g. PICK g \in Nat : g = gen[a]
      BY BoundsAssumption DEF TypeInv, ActivityTypes
  <1>1. /\ UNCHANGED <<gen, cur, lostAt, work, posts, ui>>
        /\ ready \in [Activities -> BOOLEAN] /\ pend \in [Activities -> SlotType]
        /\ pend[a].gen = g /\ ready' = [ready EXCEPT ![a] = TRUE] /\ ~ready[a]
        /\ SlotInv(a) /\ posts \in Seq(PostType) /\ Deliver(a, Drained(a))
      BY <1>g
      DEF PageFinished, TypeInv, ActivityTypes, SlotTypes, PostTypes, ImportInv
  <1>2. /\ HistoryTypes'
        /\ \A b \in Activities : b # a => heard'[b] = heard[b] /\ told'[b] = told[b]
        /\ told'[a] = IF Held(a) THEN pend[a].terminal ELSE told[a]
        /\ HeardOk(heard'[a], told'[a], g, Holds(a), lostAt[a])
      BY <1>g, <1>1, DrainedIsHeard
  <1>3. pend'[a] = Slot(g) /\ \A b \in Activities : b # a => pend'[b] = pend[b] /\ ready'[b] = ready[b]
      BY <1>g, <1>1 DEF PageFinished
  <1>4. /\ gen'[a] = gen[a] /\ (Holds(a)' <=> Holds(a)) /\ ~Held(a)' /\ (Busy(a)' <=> Busy(a))
        /\ WorkSame(a) /\ (Handler(a)' <=> Handler(a))
      BY <1>1, <1>3 DEF Holds, Held, Slot, Busy, WorkSame, Handler
  <1>5. HeardInv(a)' /\ PendInv(a)'
    <2>1. HeardInv(a)'
        BY <1>g, <1>1, <1>2, <1>4 DEF SlotInv, HeardInv, HeardOk
    <2>2. PendInv(a)'
        BY <1>g, <1>3, <1>4 DEF PendInv, Slot, NoEvent, Event
    <2> QED
        BY <2>1, <2>2
  <1>6. ASSUME ~Held(a) PROVE SlotInv(a)' /\ Promised(a)
    <2>1. told'[a] = told[a] /\ (Told(a)' <=> Told(a)) /\ (Held(a)' <=> Held(a))
        BY <1>2, <1>4, <1>6 DEF Told
    <2>2. Handler(a)' => Handler(a) /\ pend'[a] = pend[a]
        BY <1>g, <1>1, <1>3, <1>4 DEF SlotInv, HandlerInv
    <2>3. /\ HandlerInv(a)' /\ WorkerInv(a)' /\ PostOrder(a)'
          /\ \A i \in 1..Len(posts') : PostInv(a, posts[i])'
        BY <1>1, <1>4, <2>1, <2>2, FlagsKept, QuietIsTyped
    <2> QED
        BY <1>4, <1>5, <2>1, <2>3 DEF SlotInv, Promised
  <1>7. ASSUME Held(a) PROVE SlotInv(a)' /\ Promised(a)
    <2>1. ~Busy(a) /\ ~Handler(a) /\ ~Told(a) /\ gen[a] # 0
        BY <1>1, <1>7 DEF SlotInv, WorkerInv, HandlerInv, PendInv, Held, Slot
    <2>2. NonePosted(a)'
        BY <1>1, <1>7 DEF SlotInv, PostInv, NonePosted, Mine
    <2>3. HandlerInv(a)' /\ WorkerInv(a)'
        BY <1>4, <2>1 DEF HandlerInv, WorkerInv
    <2>4. PostOrder(a)' /\ \A i \in 1..Len(posts') : PostInv(a, posts[i])'
        BY <2>2 DEF PostOrder, PostInv, NonePosted
    <2>5. Promised(a)
      <3>1. \/ pend[a].terminal = Event("ready", gen[a]) /\ Holds(a)
            \/ pend[a].terminal = Event("failed", gen[a])
          BY <1>1, <1>7 DEF SlotInv, PendInv, Held, Event
      <3>2. told[a].gen # gen[a]
          BY <2>1 DEF Told
      <3>3. PICK kind \in Terminal : told'[a] = Event(kind, gen[a]) /\ (kind = "ready" => Holds(a))
          BY <1>2, <1>7, <3>1 DEF Terminal
      <3> QED
          BY <1>4, <3>2, <3>3 DEF Promised
    <2> QED
        BY <1>5, <2>3, <2>4, <2>5 DEF SlotInv
  <1>8. \A b \in Activities : b # a => Same(b) /\ WorkSame(b) /\ (Handler(b)' => Handler(b))
      BY <1>1, <1>2, <1>3 DEF Same, WorkSame, Handler, Holds
  <1> QED
      BY <1>1, <1>2, <1>6, <1>7, <1>8, OneActivity, QuietIsTyped

LEMMA SystemStepKeeps ==
  ASSUME TypeInv, ImportInv, NEW a \in Activities, SystemStep(a)
  PROVE  Kept
  <1>0. /\ heard \in [Activities -> Seq(Events)] /\ lostAt \in [Activities -> Nat]
        /\ ready \in [Activities -> BOOLEAN]
      BY DEF ImportInv, HistoryTypes, TypeInv, SlotTypes, ActivityTypes
  <1>1. ASSUME NEW next \in {"import", "nofile", "destroy"}, Retire(a, next, FALSE),
               UNCHANGED <<ready, cur, work, posts, heard, told, lostAt>>
        PROVE  Kept
      BY <1>0, <1>1, RetiredSlot
  <1>2. ASSUME NEW opened \in {"plain", "import", "nofile"}, Create(a, opened) PROVE Kept
    <2>1. CASE opened = "plain"
        BY <1>2, <2>1, SlotLeftAlone DEF Create
    <2>2. CASE opened # "plain"
        BY <1>1, <1>2, <2>2 DEF Create
    <2> QED
        BY <2>1, <2>2
  <1>3. ASSUME NEW opened \in {"import", "nofile"}, NewIntent(a, opened) PROVE Kept
      BY <1>1, <1>3 DEF NewIntent
  <1>4. CASE PickFile(a) \/ Finish(a)
      BY <1>4, SlotLeftAlone DEF PickFile, Finish
  <1>5. CASE Picked(a) \/ Destroy(a)
      BY <1>1, <1>5 DEF Picked, Destroy
  <1>6. CASE RendererGone(a)
    <2>1. /\ heard' = [heard EXCEPT ![a] = <<>>] /\ lostAt' = [lostAt EXCEPT ![a] = gen[a]]
          /\ ready' = [ready EXCEPT ![a] = FALSE] /\ Retire(a, "recover", open[a] # 0)
          /\ UNCHANGED <<posts, work, cur, told>>
        BY <1>6 DEF RendererGone
    <2>2. /\ heard'[a] = <<>> /\ lostAt'[a] = gen[a] /\ heard' \in [Activities -> Seq(Events)]
          /\ \A b \in Activities : b # a => UNCHANGED <<heard[b], lostAt[b], ready[b]>>
        BY <1>0, <2>1
    <2> QED
        BY <2>1, <2>2, RetiredSlot
  <1> QED
      BY <1>2, <1>3, <1>4, <1>5, <1>6, PageStartedKeeps, PageFinishedKeeps DEF SystemStep

-----------------------------------------------------------------------------
(* The workers.                                                            *)

AtWork == {"lookup", "sized", "copying", "publish", "report"}

\* Only the worker of generation g moves.
MovesTo(a, g, phase, result) ==
    /\ work'[a][g].phase = phase /\ work'[a][g].result = result
    /\ \A b \in Activities : \A h \in Gens : ~(b = a /\ h = g) => work'[b][h] = work[b][h]

LEMMA WorkerMovesTo ==
  ASSUME TypeInv, NEW a \in Activities, NEW g \in Gens, NEW phase, NEW result,
         WorkerMoves(a, g, phase, result)
  PROVE  MovesTo(a, g, phase, result)
  <1>1. work \in [Activities -> [Gens -> WorkerType]] /\ work[a][g] \in WorkerType
      BY DEF TypeInv, WorkTypes
  <1> DEFINE w == [work[a][g] EXCEPT !.phase = phase, !.result = result]
  <1>2. w.phase = phase /\ w.result = result
      BY <1>1 DEF WorkerType
  <1>3. work' = [work EXCEPT ![a] = [work[a] EXCEPT ![g] = w]]
      BY <1>1 DEF WorkerMoves, WorkerType
  <1> HIDE DEF w
  <1> QED
      BY <1>1, <1>2, <1>3 DEF MovesTo

\* A worker that moves on without publishing, and what it posts.  Once it posts an
\* outcome it is done, and the outcome is ready only if it published.
LEMMA WorkerGoesOn ==
  ASSUME TypeInv, ImportInv, NEW a \in Activities, NEW g \in Gens, NEW phase, NEW result,
         MovesTo(a, g, phase, result), work[a][g].phase \in AtWork,
         UNCHANGED <<gen, cur, pend, told, heard, lostAt, ready, ui>>,
         NEW p \in PostType, p.a = a, p.gen = g, Moved(p),
         \/ /\ phase \in AtWork /\ p.run \in {"start", "progress"}
            /\ IF phase = "report" /\ result = "ready"
               THEN work[a][g].phase = "report" /\ work[a][g].result = "ready"
               ELSE ~(work[a][g].phase = "report" /\ work[a][g].result = "ready")
         \/ /\ phase = "done" /\ p.run \in {"outcome", "start"}
            /\ p.result = "ready" => work[a][g].phase = "report" /\ work[a][g].result = "ready"
  PROVE  Kept
  <1>1. /\ HistoryTypes' /\ posts \in Seq(PostType)
        /\ \A b \in Activities : SlotInv(b) /\ Same(b) /\ (Handler(b)' => Handler(b))
      BY DEF ImportInv, HistoryTypes, TypeInv, PostTypes, Same, Handler, Holds
  <1>2. CASE g # gen[a]
    <2>1. \A b \in Activities : WorkSame(b) /\ ~Mine(b, p)
        BY <1>2 DEF MovesTo, WorkSame, Mine
    <2> QED
        BY <1>1, <2>1, Elsewhere DEF Kept
  <1>3. CASE g = gen[a]
    <2>1. Busy(a)
        BY <1>3 DEF Busy, AtWork
    <2>2. /\ ~Handler(a) /\ ~Held(a) /\ ~Told(a)
          /\ Holds(a) <=> work[a][g].phase = "report" /\ work[a][g].result = "ready"
        BY <1>1, <1>3, <2>1 DEF SlotInv, HandlerInv, WorkerInv, AtWork
    <2>3. /\ ~Handler(a)' /\ ~Held(a)' /\ ~Told(a)' /\ (Holds(a)' <=> Holds(a))
          /\ gen'[a] = gen[a] /\ told'[a] = told[a]
        BY <1>1, <2>2 DEF Handler, Held, Told, Same
    <2>4. Busy(a)' <=> phase \in AtWork
        BY <1>3 DEF Busy, AtWork, MovesTo
    <2>5. \A i \in 1..Len(posts) : Mine(a, posts[i]) => posts[i].run \in {"start", "progress"}
      <3> TAKE i \in 1..Len(posts)
      <3>1. PostInv(a, posts[i]) /\ posts[i] \in PostType
          BY <1>1 DEF SlotInv
      <3> QED
          BY <2>1, <3>1 DEF PostInv, PostType
    <2>6. PostInv(a, p)'
      <3>1. p.run \in {"outcome", "rebuild"} => phase = "done"
          OBVIOUS
      <3>2. p.run = "outcome" /\ p.result = "ready" => Holds(a)
          BY <2>2
      <3> QED
          BY <2>3, <2>4, <3>1, <3>2 DEF PostInv, AtWork
    <2>7. PostOrder(a)' /\ \A i \in 1..Len(posts') : PostInv(a, posts[i])'
        BY <1>1, <2>1, <2>3, <2>5, <2>6, NextPost
    <2>8. WorkerInv(a)' /\ HandlerInv(a)'
      <3>1. phase \in AtWork => (Holds(a)' <=> phase = "report" /\ result = "ready")
          BY <2>2, <2>3 DEF AtWork
      <3> QED
          BY <1>3, <2>3, <2>4, <3>1 DEF WorkerInv, HandlerInv, MovesTo
    <2>9. PendInv(a)' /\ HeardInv(a)' /\ Promised(a)
        BY <1>1, <2>2, <2>3, HeardKept DEF SlotInv, PendInv, Promised, Same
    <2>10. SlotInv(a)'
        BY <2>7, <2>8, <2>9 DEF SlotInv
    <2>11. \A b \in Activities : b # a => WorkSame(b)
        BY DEF MovesTo, WorkSame
    <2> QED
        BY <1>1, <2>9, <2>10, <2>11, OneActivity
  <1> QED
      BY <1>2, <1>3

\* The copy of the newest selection becomes the log.
LEMMA PublishKeeps ==
  ASSUME TypeInv, ImportInv, NEW a \in Activities, NEW g \in Gens, Publish(a, g), IsCurrent(a, g)
  PROVE  Kept
  <1>1. /\ work[a][g].phase = "publish" /\ MovesTo(a, g, "report", "ready") /\ g = gen[a]
        /\ UNCHANGED <<gen, pend, told, heard, lostAt, ready, ui, posts>>
        /\ cur' = [cur EXCEPT ![a] = g] /\ cur \in [Activities -> Nat]
      BY WorkerMovesTo DEF Publish, Working, IsCurrent, TypeInv, SlotTypes
  <1>2. cur'[a] = g /\ \A b \in Activities : b # a => cur'[b] = cur[b]
      BY <1>1
  <1>3. HistoryTypes' /\ posts \in Seq(PostType) /\ SlotInv(a) /\ Busy(a) /\ Busy(a)'
      BY <1>1 DEF ImportInv, HistoryTypes, TypeInv, PostTypes, Busy, MovesTo
  <1>4. ~Handler(a) /\ ~Held(a) /\ ~Told(a) /\ ~Holds(a)
      BY <1>1, <1>3 DEF SlotInv, HandlerInv, WorkerInv
  <1>5. /\ ~Handler(a)' /\ ~Held(a)' /\ ~Told(a)' /\ Holds(a)'
        /\ gen'[a] = gen[a] /\ told'[a] = told[a]
      BY <1>1, <1>2, <1>4 DEF Handler, Held, Told, Holds, Gens
  <1>6. PostOrder(a)' /\ \A i \in 1..Len(posts') : PostInv(a, posts[i])'
      BY <1>1, <1>3, <1>5, NextPost, QuietIsTyped
  <1>7. HandlerInv(a)' /\ WorkerInv(a)'
      BY <1>1, <1>5 DEF HandlerInv, WorkerInv, MovesTo
  <1>8. PendInv(a)' /\ HeardInv(a)'
      BY <1>1, <1>3, <1>4, <1>5, HeardKept DEF SlotInv, PendInv, Held
  <1>9. Promised(a)
      BY <1>1, <1>4, <1>5 DEF Promised, Told, Gens
  <1>10. \A b \in Activities : b # a => Same(b) /\ WorkSame(b) /\ (Handler(b)' => Handler(b))
      BY <1>1, <1>2 DEF Same, Holds, WorkSame, Handler, MovesTo
  <1>11. SlotInv(a)'
      BY <1>6, <1>7, <1>8 DEF SlotInv
  <1> QED
      BY <1>1, <1>3, <1>9, <1>10, <1>11, OneActivity, QuietIsTyped

LEMMA WorkerStepKeeps ==
  ASSUME TypeInv, ImportInv, NEW a \in Activities, NEW g \in Gens, WorkerStep(a, g)
  PROVE  Kept
  <1> DEFINE P(run, result) == [a |-> a, run |-> run, gen |-> g, result |-> result]
  <1>1. g \in Nat /\ \A run \in {"start", "progress", "outcome"} : \A result \in Results :
            /\ P(run, result) \in PostType /\ P(run, result).a = a /\ P(run, result).gen = g
            /\ P(run, result).run = run /\ P(run, result).result = result
      BY DEF PostType, Gens
  <1>2. \A run, result : posts' = Append(posts, P(run, result)) => Moved(P(run, result))
      BY DEF Moved
  <1>3. posts' = posts => Moved(P("start", "none"))
      BY DEF Moved
  <1>w. work \in [Activities -> [Gens -> WorkerType]] /\ work[a][g] \in WorkerType
      BY DEF TypeInv, WorkTypes
  <1> HIDE DEF P
  <1> USE DEF Results
  <1>4. CASE LookedUp(a, g)
    <2>1. /\ UNCHANGED <<gen, cur, pend, told, heard, lostAt, ready, ui>>
          /\ work[a][g].phase = "lookup"
          /\ \/ WorkerMoves(a, g, "sized", "none") /\ posts' = Append(posts, P("start", "none"))
             \/ WorkerMoves(a, g, "done", "none") /\ posts' = posts
        BY <1>4 DEF LookedUp, Working, Post, actVars, P
    <2>2. CASE WorkerMoves(a, g, "sized", "none") /\ posts' = Append(posts, P("start", "none"))
        BY <1>1, <1>2, <2>1, <2>2, WorkerMovesTo, WorkerGoesOn DEF AtWork
    <2>3. CASE WorkerMoves(a, g, "done", "none") /\ posts' = posts
        BY <1>1, <1>3, <2>1, <2>3, WorkerMovesTo, WorkerGoesOn DEF AtWork
    <2> QED
        BY <2>1, <2>2, <2>3
  <1>5. CASE DeclaredTooLarge(a, g)
    <2>1. /\ UNCHANGED <<gen, cur, pend, told, heard, lostAt, ready, ui>>
          /\ work[a][g].phase = "sized" /\ MovesTo(a, g, "done", "failed")
          /\ posts' = Append(posts, P("outcome", "failed"))
        BY <1>5, WorkerMovesTo DEF DeclaredTooLarge, Working, Post, actVars, P
    <2> QED
        BY <1>1, <1>2, <2>1, WorkerGoesOn DEF AtWork
  <1>6. CASE OpenFails(a, g) \/ CopyStops(a, g)
    <2>1. /\ UNCHANGED <<gen, cur, pend, told, heard, lostAt, ready, ui, posts>>
          /\ work[a][g].phase \in {"sized", "copying"}
          /\ \E result \in {"failed", "cancelled"} : WorkerMoves(a, g, "report", result)
        BY <1>6 DEF OpenFails, CopyStops, Working, actVars
    <2>2. PICK result \in {"failed", "cancelled"} : MovesTo(a, g, "report", result)
        BY <2>1, WorkerMovesTo
    <2> QED
        BY <1>1, <1>3, <2>1, <2>2, WorkerGoesOn DEF AtWork
  <1>7. CASE OpenStaging(a, g) \/ CopyEnds(a, g)
    <2>1. /\ UNCHANGED <<gen, cur, pend, told, heard, lostAt, ready, ui, posts>>
          /\ work[a][g].phase \in {"sized", "copying"}
          /\ \E phase \in {"copying", "publish"} : WorkerMoves(a, g, phase, "none")
        BY <1>7 DEF OpenStaging, CopyEnds, Working, actVars
    <2>2. PICK phase \in {"copying", "publish"} : MovesTo(a, g, phase, "none")
        BY <2>1, WorkerMovesTo
    <2> QED
        BY <1>1, <1>3, <2>1, <2>2, WorkerGoesOn DEF AtWork
  <1>8. CASE CopyBuffer(a, g)
    <2>1. /\ UNCHANGED <<gen, cur, pend, told, heard, lostAt, ready, ui>>
          /\ work[a][g].phase = "copying"
          /\ posts' = Append(posts, P("progress", "none"))
        BY <1>8 DEF CopyBuffer, Working, Post, actVars, P
    <2>2. MovesTo(a, g, "copying", work[a][g].result)
      <3> DEFINE w == [work[a][g] EXCEPT !.reports = @ + 1]
      <3>1. w.phase = "copying" /\ w.result = work[a][g].result
          BY <1>w, <2>1 DEF WorkerType
      <3>2. work' = [work EXCEPT ![a] = [work[a] EXCEPT ![g] = w]]
          BY <1>8 DEF CopyBuffer
      <3> HIDE DEF w
      <3> QED
          BY <1>w, <3>1, <3>2 DEF MovesTo
    <2>3. PICK result : result = work[a][g].result
        OBVIOUS
    <2> QED
        BY <1>1, <1>2, <2>1, <2>2, <2>3, WorkerGoesOn DEF AtWork
  <1>9. CASE Publish(a, g)
    <2>1. CASE IsCurrent(a, g)
        BY <1>9, <2>1, PublishKeeps
    <2>2. CASE ~IsCurrent(a, g)
      <3>1. /\ UNCHANGED <<gen, cur, pend, told, heard, lostAt, ready, ui, posts>>
            /\ work[a][g].phase = "publish" /\ MovesTo(a, g, "report", "cancelled")
          BY <1>9, <2>2, WorkerMovesTo DEF Publish, Working
      <3> QED
          BY <1>1, <1>3, <3>1, WorkerGoesOn DEF AtWork
    <2> QED
        BY <2>1, <2>2
  <1>10. CASE Report(a, g)
    <2>r. PICK result \in Results : result = work[a][g].result
        BY <1>w DEF WorkerType
    <2>1. /\ UNCHANGED <<gen, cur, pend, told, heard, lostAt, ready, ui>>
          /\ work[a][g].phase = "report"
          /\ posts' = Append(posts, P("outcome", result))
        BY <1>10, <2>r DEF Report, Working, Post, actVars, P
    <2>2. MovesTo(a, g, "done", result)
      <3> DEFINE w == [work[a][g] EXCEPT !.phase = "done"]
      <3>1. w.phase = "done" /\ w.result = result
          BY <1>w, <2>r DEF WorkerType
      <3>2. work' = [work EXCEPT ![a] = [work[a] EXCEPT ![g] = w]]
          BY <1>10 DEF Report
      <3> HIDE DEF w
      <3> QED
          BY <1>w, <3>1, <3>2 DEF MovesTo
    <2> QED
        BY <1>1, <1>2, <2>r, <2>1, <2>2, WorkerGoesOn DEF AtWork
  <1> QED
      BY <1>4, <1>5, <1>6, <1>7, <1>8, <1>9, <1>10 DEF WorkerStep

-----------------------------------------------------------------------------
(* The runnables of the main looper.                                       *)

LEMMA TakenPost ==
  ASSUME TypeInv, ImportInv, NEW run, Taken(run), gen' = gen, NEW p, p = Head(posts)
  PROVE  /\ p \in PostType /\ p.run = run /\ p.a \in Activities /\ p.gen \in Nat /\ p.gen >= 1
         /\ p.result \in Results /\ (run = "outcome" => p.result \in Outcomes)
         /\ PostInv(p.a, p) /\ ui.at = "idle" /\ posts # <<>> /\ posts' = Tail(posts)
         /\ \A q : Moved(q)
         /\ Mine(p.a, p) /\ run \in {"outcome", "rebuild"} => NonePosted(p.a)'
  <1>1. /\ posts \in Seq(PostType) /\ posts # <<>> /\ posts' = Tail(posts) /\ ui.at = "idle"
        /\ p.run = run
      BY DEF TypeInv, PostTypes, Taken
  <1>2. Len(posts) \in Nat /\ Len(posts) >= 1 /\ p = posts[1] /\ 1 \in 1..Len(posts)
      BY <1>1
  <1>3. p \in PostType /\ PostOK(p)
      BY <1>1, <1>2 DEF TypeInv, PostTypes
  <1>4. p.a \in Activities /\ p.gen \in Nat /\ p.result \in Results /\ SlotInv(p.a)
      BY <1>3 DEF PostType, ImportInv
  <1>5. PostInv(p.a, p)
      BY <1>2, <1>4 DEF SlotInv
  <1>6. ASSUME Mine(p.a, p), run \in {"outcome", "rebuild"}, NEW i \in 1..Len(posts')
        PROVE  ~Mine(p.a, posts[i])'
    <2>1. posts'[i] = posts[i + 1] /\ i + 1 \in 1..Len(posts) /\ 1 < i + 1
        BY <1>1, <1>2
    <2>2. ~Mine(p.a, posts[i + 1])
        BY <1>1, <1>2, <1>4, <1>6, <2>1 DEF SlotInv, PostOrder
    <2> QED
        BY <2>1, <2>2 DEF Mine
  <1> QED
      BY <1>1, <1>3, <1>4, <1>5, <1>6 DEF PostOK, NonePosted, Moved

\* A runnable that leaves the page with what it had, or tells it the outcome.
LEMMA RunnableEnds ==
  ASSUME TypeInv, ImportInv, HistoryTypes', NEW run, Taken(run), NEW a \in Activities,
         NEW p, p = Head(posts), p.a = a,
         UNCHANGED <<gen, cur, lostAt, ready, work, ui>>,
         PendInv(a)', HeardInv(a)', Promised(a), \A b \in Activities : b # a => Same(b),
         \/ (Held(a)' <=> Held(a)) /\ (Told(a)' <=> Told(a))
         \/ Mine(a, p) /\ run \in {"outcome", "rebuild"}
  PROVE  Kept
  <1>1. /\ PostInv(a, p) /\ p.run = run /\ ui.at = "idle" /\ Moved(Quiet(a))
        /\ Mine(a, p) /\ run \in {"outcome", "rebuild"} => NonePosted(a)'
      BY TakenPost
  <1>2. /\ gen'[a] = gen[a] /\ (Holds(a)' <=> Holds(a)) /\ (Busy(a)' <=> Busy(a)) /\ SlotInv(a)
        /\ posts \in Seq(PostType)
        /\ \A b \in Activities : ~Handler(b)' /\ WorkSame(b)
      BY <1>1 DEF Holds, Handler, Busy, WorkSame, ImportInv, TypeInv, PostTypes
  <1>3. CASE (Held(a)' <=> Held(a)) /\ (Told(a)' <=> Told(a))
    <2>1. /\ HandlerInv(a)' /\ WorkerInv(a)' /\ PostOrder(a)'
          /\ \A i \in 1..Len(posts') : PostInv(a, posts[i])'
        BY <1>1, <1>2, <1>3, FlagsKept, QuietIsTyped
    <2>2. SlotInv(a)'
        BY <2>1 DEF SlotInv
    <2> QED
        BY <1>1, <1>2, <2>2, OneActivity, QuietIsTyped
  <1>4. CASE Mine(a, p) /\ run \in {"outcome", "rebuild"}
    <2>1. ~Busy(a)' /\ NonePosted(a)'
        BY <1>1, <1>2, <1>4 DEF PostInv
    <2>2. /\ HandlerInv(a)' /\ WorkerInv(a)' /\ PostOrder(a)'
          /\ \A i \in 1..Len(posts') : PostInv(a, posts[i])'
        BY <1>2, <2>1 DEF HandlerInv, WorkerInv, PostOrder, PostInv, NonePosted
    <2>3. SlotInv(a)'
        BY <2>2 DEF SlotInv
    <2> QED
        BY <1>1, <1>2, <2>3, OneActivity, QuietIsTyped
  <1> QED
      BY <1>3, <1>4

\* A runnable that tells the page of the start or the outcome.
LEMMA RunnableTells ==
  ASSUME TypeInv, ImportInv, NEW run \in {"start", "outcome", "rebuild"}, Taken(run),
         NEW p, p = Head(posts), NEW kind \in {"start", "ready", "failed"},
         Dispatch(p.a, Event(kind, p.gen)),
         kind = "start" <=> run = "start",
         kind = "ready" => run = "outcome" /\ p.result = "ready",
         UNCHANGED <<gen, cur, lostAt, ready, work, ui>>
  PROVE  Kept
  <1>1. /\ p.a \in Activities /\ p.gen \in Nat /\ p.gen >= 1 /\ PostInv(p.a, p) /\ p.run = run
      BY TakenPost
  <1>a. PICK a \in Activities : a = p.a
      BY <1>1
  <1>g. PICK g \in Nat : g = p.gen
      BY <1>1
  <1>2. SlotInv(a) /\ HistoryTypes
      BY DEF ImportInv
  <1>3. g = gen[a] => g >= 1 /\ ~Held(a) /\ ~Told(a) /\ (kind = "ready" => Holds(a))
      BY <1>a, <1>g, <1>1 DEF PostInv, Mine
  <1>4. /\ HistoryTypes' /\ PendInv(a)' /\ HeardInv(a)' /\ Promised(a)
        /\ \A b \in Activities : b # a => Same(b)
        /\ (kind = "start" \/ g # gen[a]) => (Held(a)' <=> Held(a)) /\ (Told(a)' <=> Told(a))
      BY <1>a, <1>g, <1>2, <1>3, Dispatched
  <1>5. \/ (Held(a)' <=> Held(a)) /\ (Told(a)' <=> Told(a))
        \/ Mine(a, p) /\ run \in {"outcome", "rebuild"}
      BY <1>a, <1>g, <1>4 DEF Mine
  <1> QED
      BY <1>a, <1>4, <1>5, RunnableEnds

LEMMA RunProgressKeeps == TypeInv /\ ImportInv /\ RunProgress => Kept
  <1> SUFFICES ASSUME TypeInv, ImportInv, RunProgress PROVE Kept
      OBVIOUS
  <1>p. PICK p : p = Head(posts)
      OBVIOUS
  <1>1. /\ Taken("progress") /\ UNCHANGED <<gen, cur, lostAt, ready, work, ui, pend>>
        /\ Deliver(p.a, IF IsCurrent(p.a, p.gen) /\ ready[p.a] THEN <<Event("progress", p.gen)>>
                        ELSE <<>>)
      BY <1>p DEF RunProgress
  <1>2. /\ p.a \in Activities /\ p.gen \in Nat /\ p.gen >= 1 /\ PostInv(p.a, p)
        /\ posts # <<>> /\ posts' = Tail(posts)
      BY <1>p, <1>1, TakenPost
  <1>a. PICK a \in Activities : a = p.a
      BY <1>2
  <1>g. PICK g \in Nat : g = p.gen
      BY <1>2
  <1>3. /\ heard \in [Activities -> Seq(Events)] /\ told \in [Activities -> Answers]
        /\ SlotInv(a) /\ lostAt[a] \in Nat
      BY DEF ImportInv, HistoryTypes, TypeInv, SlotTypes
  <1>4. CASE ~(IsCurrent(a, g) /\ ready[a])
    <2>1. Deliver(a, <<>>)
        BY <1>a, <1>g, <1>1, <1>4
    <2>2. heard' = heard /\ told' = told
      <3>1. Len(<<>>) = 0
          OBVIOUS
      <3>2. heard' = [heard EXCEPT ![a] = heard[a]] /\ told' = [told EXCEPT ![a] = told[a]]
          BY <2>1, <3>1 DEF Deliver
      <3> QED
          BY <1>3, <3>2
    <2> QED
        BY <1>1, <1>2, <2>2, SlotLeftAlone
  <1>5. CASE IsCurrent(a, g) /\ ready[a]
    <2>e. PICK e : e = Event("progress", g)
        OBVIOUS
    <2>1. e \in Events /\ e.gen = g /\ e.kind = "progress" /\ g = gen[a] /\ g >= 1
        BY <2>e, <1>2, <1>5, <1>g DEF Event, Events, Kinds, IsCurrent
    <2>2. ~Told(a) /\ told[a].gen # g
        BY <1>2, <1>a, <1>g, <2>1 DEF PostInv, Mine, Told
    <2>3. heard' = [heard EXCEPT ![a] = Hears(heard[a], e)] /\ told' = told
      <3>1. Deliver(a, <<e>>)
          BY <1>a, <1>g, <1>1, <1>5, <2>e
      <3>2. Len(<<e>>) = 1 /\ <<e>>[1] = e /\ e.kind \notin Terminal
          BY <2>1 DEF Terminal
      <3>3. /\ heard' = [heard EXCEPT ![a] = Hears(heard[a], e)]
            /\ told' = [told EXCEPT ![a] = told[a]]
          BY <3>1, <3>2 DEF Deliver
      <3> QED
          BY <1>3, <3>3
    <2>4. HeardOk(Hears(heard[a], e), told[a], g, Holds(a), lostAt[a])
          /\ Hears(heard[a], e) \in Seq(Events)
      <3>1. HeardOk(heard[a], told[a], g, Holds(a), lostAt[a]) /\ lostAt[a] < g
          BY <1>3, <2>1 DEF SlotInv, HeardInv
      <3>2. heard[a] \in Seq(Events) /\ told[a] \in Answers /\ e.kind \notin Terminal
          BY <1>3, <2>1 DEF Terminal
      <3> QED
          BY <1>3, <2>1, <2>2, <3>1, <3>2, HearsOk
    <2>5. /\ HistoryTypes' /\ heard'[a] = Hears(heard[a], e)
          /\ \A b \in Activities : b # a => heard'[b] = heard[b]
        BY <1>3, <2>3, <2>4 DEF HistoryTypes
    <2>6. /\ (Held(a)' <=> Held(a)) /\ (Told(a)' <=> Told(a)) /\ (Holds(a)' <=> Holds(a))
          /\ \A b \in Activities : b # a => Same(b)
        BY <1>1, <2>3, <2>5 DEF Held, Told, Holds, Same
    <2>7. PendInv(a)' /\ Promised(a)
        BY <1>1, <1>3, <2>3, <2>6 DEF SlotInv, PendInv, Promised
    <2>8. HeardInv(a)'
        BY <1>1, <1>3, <2>1, <2>3, <2>4, <2>5, <2>6 DEF SlotInv, HeardInv, HeardOk
    <2> QED
        BY <1>a, <1>p, <1>1, <2>5, <2>6, <2>7, <2>8, RunnableEnds
  <1> QED
      BY <1>4, <1>5

LEMMA RunPostKeeps == TypeInv /\ ImportInv /\ RunPost => Kept
  <1> SUFFICES ASSUME TypeInv, ImportInv, RunPost PROVE Kept
      OBVIOUS
  <1>p. PICK p : p = Head(posts)
      OBVIOUS
  <1>1. CASE RunStart
      BY <1>p, <1>1, RunnableTells DEF RunStart, Notify
  <1>2. CASE RunProgress
      BY <1>2, RunProgressKeeps
  <1>3. CASE RunOutcome
    <2>1. Taken("outcome") /\ UNCHANGED <<gen, cur, lostAt, ready, work, ui>>
        BY <1>3 DEF RunOutcome
    <2>2. p.result \in Outcomes /\ posts # <<>> /\ posts' = Tail(posts)
        BY <1>p, <2>1, TakenPost
    <2>3. CASE p.result = "cancelled"
        BY <1>p, <1>3, <2>1, <2>2, <2>3, SlotLeftAlone DEF RunOutcome
    <2>4. CASE p.result # "cancelled"
      <3>1. PICK kind \in {"ready", "failed"} : kind = p.result
          BY <2>2, <2>4 DEF Outcomes
      <3>2. Dispatch(p.a, Event(kind, p.gen))
          BY <1>p, <1>3, <2>4, <3>1 DEF RunOutcome, Notify
      <3> QED
          BY <1>p, <2>1, <3>1, <3>2, RunnableTells
    <2> QED
        BY <2>3, <2>4
  <1>4. CASE RunRebuild
    <2>1. Taken("rebuild") /\ UNCHANGED <<gen, cur, lostAt, ready, work, ui>>
        BY <1>4 DEF RunRebuild
    <2>2. posts # <<>> /\ posts' = Tail(posts)
        BY <1>p, <2>1, TakenPost
    <2>3. CASE UNCHANGED <<open, pend, heard, told>>
        BY <2>1, <2>2, <2>3, SlotLeftAlone
    <2>4. CASE Notify(p.a, Event("failed", p.gen))
        BY <1>p, <2>1, <2>4, RunnableTells DEF Notify
    <2> QED
        BY <1>p, <1>4, <2>3, <2>4 DEF RunRebuild
  <1> QED
      BY <1>1, <1>2, <1>3, <1>4 DEF RunPost

-----------------------------------------------------------------------------
(* The invariant, and what rests on it.                                    *)

\* A process starts with a page that heard nothing, of no selection.
LEMMA FreshIsQuiet == Fresh => ImportInv
  <1> SUFFICES ASSUME Fresh PROVE ImportInv
      OBVIOUS
  <1>1. NoEvent \in Answers /\ NoEvent.gen = 0 /\ NoEvent.kind = "none"
      BY DEF NoEvent, Event, Answers
  <1>2. HistoryTypes
      BY <1>1 DEF Fresh, HistoryTypes
  <1>3. ASSUME NEW a \in Activities PROVE SlotInv(a)
    <2>1. /\ gen[a] = 0 /\ cur[a] = 0 /\ pend[a] = Slot(0) /\ told[a] = NoEvent /\ heard[a] = <<>>
          /\ posts = <<>> /\ ui.at = "idle"
        BY DEF Fresh, Idle
    <2>2. ~Handler(a) /\ ~Busy(a) /\ ~Held(a) /\ ~Told(a) /\ ~Holds(a) /\ Len(posts) = 0
        BY <2>1 DEF Handler, Busy, Gens, Held, Slot, Told, Holds
    <2>3. HandlerInv(a) /\ WorkerInv(a) /\ PostOrder(a) /\ \A i \in 1..Len(posts) : PostInv(a, posts[i])
        BY <2>2 DEF HandlerInv, WorkerInv, PostOrder
    <2>4. PendInv(a)
        BY <2>1, <2>2 DEF PendInv, Slot, NoEvent, Event
    <2>5. HeardInv(a)
        BY <1>1, <2>1 DEF HeardInv, HeardOk
    <2> QED
        BY <2>3, <2>4, <2>5 DEF SlotInv
  <1> QED
      BY <1>2, <1>3 DEF ImportInv

LEMMA CrashKeeps == ImportInv /\ Crash => Kept
  <1> SUFFICES ASSUME ImportInv, Crash PROVE Kept
      OBVIOUS
  <1>1. Fresh'
      BY DEF Crash, Fresh
  <1>2. ImportInv'
      BY <1>1, FreshIsQuiet, PTL
  <1>3. \A b \in Activities : gen'[b] = 0 /\ cur'[b] = 0 /\ told'[b] = NoEvent
      BY DEF Crash
  <1>4. \A b \in Activities : Promised(b)
      BY <1>3 DEF Promised, Holds
  <1> QED
      BY <1>2, <1>4 DEF Kept, ImportInv

LEMMA EveryStepKeeps == TypeInv /\ ImportInv /\ [Next]_vars => Kept
  <1> SUFFICES ASSUME TypeInv, ImportInv, [Next]_vars PROVE Kept
      OBVIOUS
  <1>1. CASE UiStep
      BY <1>1, ClearCurrentKeeps, BeginImportKeeps, RefuseShareKeeps, RecoverKeeps DEF UiStep
  <1>2. CASE RunPost \/ Crash
      BY <1>2, RunPostKeeps, CrashKeeps
  <1>3. CASE \E a \in Activities : SystemStep(a) \/ \E g \in Gens : WorkerStep(a, g)
      BY <1>3, SystemStepKeeps, WorkerStepKeeps
  <1>4. CASE UNCHANGED vars
      BY <1>4, SlotLeftAlone DEF vars, actVars
  <1> QED
      BY <1>1, <1>2, <1>3, <1>4 DEF Next

LEMMA ImportInvIsInductive == Spec => []ImportInv
  <1>1. Init => ImportInv
      BY FreshIsQuiet DEF Init
  <1>2. TypeInv /\ ImportInv /\ [Next]_vars => ImportInv'
      BY EveryStepKeeps DEF Kept, ImportInv
  <1> QED
      BY <1>1, <1>2, TypeInvIsInductive, PTL DEF Spec

LEMMA HeardInOrder == TypeInv /\ ImportInv => PageHearsInOrder
  <1> SUFFICES ASSUME TypeInv, ImportInv PROVE PageHearsInOrder
      OBVIOUS
  <1>1. ASSUME NEW a \in Activities
        PROVE  /\ heard[a] \in Seq(Events)
               /\ HeardOk(heard[a], told[a], gen[a], Holds(a), lostAt[a])
               /\ PendInv(a) /\ (lostAt[a] < gen[a] \/ gen[a] = 0)
      BY DEF ImportInv, HistoryTypes, SlotInv, HeardInv
  <1>2. OutcomeIsLast
      BY <1>1 DEF OutcomeIsLast, HeardOk
  <1>3. LostLogNotReoffered
    <2> SUFFICES ASSUME NEW a \in Activities
                 PROVE  /\ \A i \in DOMAIN heard[a] :
                               heard[a][i].kind = "ready" => heard[a][i].gen > lostAt[a]
                        /\ pend[a].terminal.kind = "ready" => pend[a].terminal.gen > lostAt[a]
        BY DEF LostLogNotReoffered
    <2>1. \A i \in DOMAIN heard[a] : heard[a][i].kind = "ready" => heard[a][i].gen > lostAt[a]
        BY <1>1 DEF HeardOk
    <2>2. pend[a].terminal.kind = "ready" => pend[a].terminal.gen = gen[a] /\ gen[a] # 0
        BY <1>1 DEF PendInv, Held, NoEvent, Event
    <2>3. lostAt[a] \in Nat /\ gen[a] \in Nat
        BY BoundsAssumption DEF TypeInv, ActivityTypes, SlotTypes
    <2> QED
        BY <1>1, <2>1, <2>2, <2>3
  <1> QED
      BY <1>2, <1>3 DEF PageHearsInOrder

\* Whatever number of activities, selections, reloads, renderer losses and deaths: in
\* a document nothing of a selection follows its outcome, and a log that was open when
\* a renderer died is not offered to the replacement (PendingImportEvents, notifyPage,
\* recoverFromRendererLoss).
THEOREM OutcomesComeLast == Spec => []PageHearsInOrder
  BY TypeInvIsInductive, ImportInvIsInductive, HeardInOrder, PTL

\* A step of the program is a step of the promise, or nothing to it.
LEMMA StepIsPromised ==
  ASSUME Promised(Observed)
  PROVE  [Promise!Next]_<<gen[Observed], (cur[Observed] # 0 /\ cur[Observed] = gen[Observed]),
                          told[Observed]>>
  <1> DEFINE b == Observed
             newest == gen[b]
             held == cur[b] # 0 /\ cur[b] = gen[b]
  <1>1. (Holds(b) <=> held) /\ (Holds(b)' <=> held')
      BY DEF Holds
  <1>2. CASE gen'[b] = gen[b] /\ told'[b] = told[b] /\ (Holds(b)' <=> Holds(b))
      BY <1>1, <1>2
  <1>3. CASE gen'[b] = gen[b] + 1 /\ told'[b] = told[b] /\ ~Holds(b)'
      BY <1>1, <1>3 DEF Promise!Next, Promise!Select
  <1>4. CASE /\ gen'[b] = gen[b] /\ told'[b] = told[b] /\ told[b].gen # gen[b]
             /\ ~Holds(b) /\ Holds(b)'
      BY <1>1, <1>4 DEF Promise!Next, Promise!Hold
  <1>5. CASE /\ gen'[b] = gen[b] /\ (Holds(b)' <=> Holds(b)) /\ told[b].gen # gen[b]
             /\ \E kind \in Terminal : /\ told'[b] = Event(kind, gen[b])
                                       /\ kind = "ready" => Holds(b)
      BY <1>1, <1>5 DEF Promise!Next, Promise!Tell, Terminal, Event
  <1>6. CASE gen'[b] = 0 /\ told'[b] = NoEvent /\ ~Holds(b)'
      BY <1>1, <1>6 DEF Promise!Next, Promise!Restart, Promise!Untold, NoEvent, Event
  <1> QED
      BY <1>2, <1>3, <1>4, <1>5, <1>6 DEF Promised

\* The import slot keeps the promise of NewestSelection: a selection is answered at most
\* once, only while it is the newest, and "ready" only of a log the slot holds
\* (retireImportSlot, notifyPage, ImportStore.accept and clear).
THEOREM SlotKeepsItsPromise == Spec => ImplementsNewestSelection
  <1>1. Observed \in Activities
      BY BoundsAssumption DEF Observed
  <1>2. Init => Promise!Init
      BY <1>1 DEF Init, Fresh, Promise!Init, Promise!Untold, NoEvent, Event
  <1>3. TypeInv /\ ImportInv /\ [Next]_vars
        => [Promise!Next]_<<gen[Observed], (cur[Observed] # 0 /\ cur[Observed] = gen[Observed]),
                            told[Observed]>>
      BY <1>1, EveryStepKeeps, StepIsPromised DEF Kept
  <1> QED
      BY <1>2, <1>3, TypeInvIsInductive, ImportInvIsInductive, PTL
      DEF Spec, ImplementsNewestSelection, Promise!Spec

-----------------------------------------------------------------------------
(* The file behind a log the page was told of.  A second activity could     *)
(* still unlink it from its onDestroy (ImportStore.clear takes every file   *)
(* in the directory), so this is of a process with one.                     *)

OneActivityOnly == \A a, b \in Activities : a = b

\* A copy of the newest selection that has been begun, and the log the slot holds, are
\* on disk; a process that did not purge did not begin.
FileInv ==
    /\ \A a \in Activities :
           /\ (gen[a] \in Gens /\ (work[a][gen[a]].phase \in {"copying", "publish"} \/ Holds(a)))
                  => File(a, gen[a]) \in disk
           /\ life[a] # "unborn" => purged
           /\ ~purged => gen[a] = 0

\* The file of the newest selection stays when no copy of it begins and nothing else of
\* it changes.
LEMMA FilesStay ==
  ASSUME FileInv, disk \subseteq disk', purged' = purged, gen' = gen, cur' = cur, work' = work,
         \A a \in Activities : life'[a] # "unborn" => purged
  PROVE  FileInv'
  BY DEF FileInv, Holds

LEMMA WorkerKeepsFiles ==
  ASSUME TypeInv, ImportInv, FileInv, NEW a \in Activities, NEW g \in Gens, WorkerStep(a, g)
  PROVE  FileInv'
  <1>1. UNCHANGED <<gen, life, purged>> /\ g \in Nat
      BY DEF WorkerStep, LookedUp, DeclaredTooLarge, OpenFails, OpenStaging, CopyBuffer,
             CopyStops, CopyEnds, Publish, Report, actVars, Gens
  <1> SUFFICES ASSUME NEW b \in Activities, gen[b] \in Gens,
                      work'[b][gen[b]].phase \in {"copying", "publish"} \/ Holds(b)'
               PROVE  File(b, gen[b]) \in disk'
      BY <1>1 DEF FileInv
  <1>2. (work[b][gen[b]].phase \in {"copying", "publish"} \/ Holds(b)) => File(b, gen[b]) \in disk
      BY DEF FileInv
  <1>3. File(b, gen[b]) = File(a, g) <=> b = a /\ gen[b] = g
      BY DEF File
  <1>w. work \in [Activities -> [Gens -> WorkerType]] /\ cur \in [Activities -> Nat]
      BY DEF TypeInv, WorkTypes, SlotTypes
  <1>4. ASSUME NEW phase, NEW result, WorkerMoves(a, g, phase, result)
        PROVE  work'[b][gen[b]].phase = IF b = a /\ gen[b] = g THEN phase ELSE work[b][gen[b]].phase
      BY <1>4, OneWorkerMoves
  <1>5. CASE LookedUp(a, g) \/ DeclaredTooLarge(a, g) \/ OpenFails(a, g)
    <2>1. /\ cur' = cur /\ disk' = disk
          /\ \E phase \in {"sized", "done", "report"}, result \in Results :
                 WorkerMoves(a, g, phase, result)
        BY <1>5 DEF LookedUp, DeclaredTooLarge, OpenFails, actVars, Results
    <2> QED
        BY <1>1, <1>2, <1>4, <2>1 DEF Holds
  <1>6. CASE OpenStaging(a, g)
    <2>1. cur' = cur /\ disk' = disk \cup {File(a, g)} /\ WorkerMoves(a, g, "copying", "none")
        BY <1>6 DEF OpenStaging, actVars
    <2> QED
        BY <1>1, <1>2, <1>4, <2>1 DEF Holds
  <1>7. CASE CopyBuffer(a, g)
    <2>1. cur' = cur /\ disk' = disk
        BY <1>7 DEF CopyBuffer, actVars
    <2>2. \A c \in Activities : \A h \in Gens : work'[c][h].phase = work[c][h].phase
        BY <1>7 DEF TypeInv, WorkTypes, WorkerType, CopyBuffer
    <2> QED
        BY <1>1, <1>2, <2>1, <2>2 DEF Holds
  <1>8. CASE CopyStops(a, g) \/ (Publish(a, g) /\ ~IsCurrent(a, g))
    <2>1. /\ cur' = cur /\ disk' = disk \ {File(a, g)} /\ work[a][g].phase \in {"copying", "publish"}
          /\ \E result \in Results : WorkerMoves(a, g, "report", result)
        BY <1>8 DEF CopyStops, Publish, Working, actVars, Results
    <2>2. ~(b = a /\ gen[b] = g)
      <3>1. b = a /\ gen[b] = g => ~Holds(b)
          BY <2>1 DEF ImportInv, SlotInv, WorkerInv, Busy
      <3> QED
          BY <1>1, <1>4, <2>1, <3>1 DEF Holds
    <2> QED
        BY <1>1, <1>2, <1>3, <1>4, <2>1, <2>2 DEF Holds
  <1>9. CASE CopyEnds(a, g)
    <2>1. cur' = cur /\ disk' = disk /\ work[a][g].phase = "copying" /\ WorkerMoves(a, g, "publish", "none")
        BY <1>9 DEF CopyEnds, Working, actVars
    <2> QED
        BY <1>1, <1>2, <1>4, <2>1 DEF Holds
  <1>10. CASE Publish(a, g) /\ IsCurrent(a, g)
    <2>1. /\ cur' = [cur EXCEPT ![a] = g] /\ disk' = disk \ {File(a, cur[a])} /\ g = gen[a]
          /\ work[a][g].phase = "publish" /\ WorkerMoves(a, g, "report", "ready")
        BY <1>10 DEF Publish, Working, IsCurrent
    <2>2. ~Holds(a)
        BY <2>1 DEF ImportInv, SlotInv, WorkerInv, Busy
    <2>3. File(b, gen[b]) # File(a, cur[a])
        BY <2>2 DEF File, Holds, Gens
    <2>4. b # a => cur'[b] = cur[b]
        BY <1>w, <2>1
    <2> QED
        BY <1>1, <1>2, <1>4, <2>1, <2>3, <2>4 DEF Holds
  <1>11. CASE Report(a, g)
    <2>1. cur' = cur /\ disk' = disk
        BY <1>11 DEF Report, actVars
    <2>2. \A c \in Activities : \A h \in Gens :
             work'[c][h].phase = IF c = a /\ h = g THEN "done" ELSE work[c][h].phase
        BY <1>11 DEF TypeInv, WorkTypes, WorkerType, Report
    <2> QED
        BY <1>1, <1>2, <2>1, <2>2 DEF Holds
  <1> QED
      BY <1>5, <1>6, <1>7, <1>8, <1>9, <1>10, <1>11 DEF WorkerStep

\* A new generation has no file to lose.
LEMMA RetireKeepsFiles ==
  ASSUME TypeInv, ImportInv, FileInv, NEW a \in Activities, NEW next, NEW lost,
         Retire(a, next, lost), UNCHANGED <<cur, work>>, purged', disk \subseteq disk' \/ ~purged
  PROVE  FileInv'
  <1>1. gen[a] \in Nat /\ gen'[a] = gen[a] + 1 /\ \A b \in Activities : b # a => gen'[b] = gen[b]
      BY BoundsAssumption DEF TypeInv, ActivityTypes, Retire
  <1>2. gen[a] + 1 \in Gens => work[a][gen[a] + 1].phase = "none"
      BY <1>1 DEF TypeInv, WorkTypes, Gens
  <1>3. cur[a] <= gen[a] /\ cur[a] \in Nat
      BY DEF TypeInv, SlotTypes
  <1>4. ~Holds(a)' /\ \A b \in Activities : b # a => (Holds(b)' <=> Holds(b))
      BY <1>1, <1>3 DEF Holds
  <1>5. ASSUME NEW b \in Activities, b # a, gen[b] \in Gens,
               work[b][gen[b]].phase \in {"copying", "publish"} \/ Holds(b)
        PROVE  File(b, gen[b]) \in disk'
    <2>1. File(b, gen[b]) \in disk /\ (~purged => gen[b] = 0)
        BY <1>5 DEF FileInv
    <2> QED
        BY <1>5, <2>1 DEF Gens
  <1>6. ASSUME NEW b \in Activities
        PROVE  /\ (gen'[b] \in Gens /\ (work'[b][gen'[b]].phase \in {"copying", "publish"} \/ Holds(b)'))
                       => File(b, gen'[b]) \in disk'
               /\ life'[b] # "unborn" => purged'
               /\ ~purged' => gen'[b] = 0
      BY <1>1, <1>2, <1>4, <1>5
  <1> QED
      BY <1>6 DEF FileInv

LEMMA UiKeepsFiles ==
  ASSUME TypeInv, ImportInv, FileInv, OneActivityOnly, UiStep \/ RunPost \/ Crash \/ UNCHANGED vars
  PROVE  FileInv'
  <1>1. CASE ClearCurrent
    <2>1. /\ UNCHANGED <<life, gen, work, disk, purged>> /\ cur' = [cur EXCEPT ![ui.a] = 0]
          /\ cur \in [Activities -> Nat] /\ ui.a \in Activities
        BY <1>1 DEF ClearCurrent, TypeInv, SlotTypes, UiTypes
    <2>2. \A b \in Activities : cur'[b] = cur[b] \/ cur'[b] = 0
        BY <2>1
    <2> QED
        BY <2>1, <2>2 DEF FileInv, Holds
  <1>2. CASE BeginImport \/ RefuseShare \/ Recover \/ EndDestroy
    <2>1. /\ UNCHANGED <<gen, cur, purged>> /\ ui.at = "unlink" /\ ui.a \in Activities
        BY <1>2 DEF BeginImport, RefuseShare, Recover, EndDestroy, Unlink, TypeInv, UiTypes
    <2>2. ASSUME NEW b \in Activities
          PROVE  /\ gen[b] \in Gens /\ work[b][gen[b]].phase = "none" /\ ~Holds(b) /\ ~Holds(b)'
                 /\ b = ui.a /\ purged
      <3>1. b = ui.a
          BY <2>1 DEF OneActivityOnly
      <3>2. HandlerInv(b) /\ Handler(b)
          BY <2>1, <3>1 DEF ImportInv, SlotInv, Handler
      <3>3. gen[b] # 0
          BY <3>2 DEF HandlerInv, Gens
      <3> QED
          BY <2>1, <3>1, <3>2, <3>3 DEF HandlerInv, Holds, FileInv
    <2>3. \A b \in Activities : work'[b][gen[b]].phase \in {"none", "lookup"}
      <3>1. CASE BeginImport
        <4>1. /\ work \in [Activities -> [Gens -> WorkerType]]
              /\ work' = [work EXCEPT ![ui.a][gen[ui.a]].phase = "lookup"]
            BY <3>1 DEF BeginImport, TypeInv, WorkTypes
        <4> QED
            BY <2>1, <2>2, <4>1 DEF WorkerType
      <3>2. CASE RefuseShare \/ Recover \/ EndDestroy
          BY <2>2, <3>2 DEF RefuseShare, Recover, EndDestroy
      <3> QED
          BY <1>2, <3>1, <3>2
    <2> QED
        BY <2>1, <2>2, <2>3 DEF FileInv
  <1>3. CASE RunPost
    <2>1. UNCHANGED <<life, gen, cur, work, disk, purged>>
        BY <1>3 DEF RunPost, RunStart, RunProgress, RunOutcome, RunRebuild
    <2> QED
        BY <2>1, FilesStay DEF FileInv
  <1>4. CASE Crash
      BY <1>4 DEF Crash, FileInv, Gens
  <1>5. CASE UNCHANGED vars
    <2>1. UNCHANGED <<life, gen, cur, work, disk, purged>>
        BY <1>5 DEF vars, actVars
    <2> QED
        BY <2>1, FilesStay DEF FileInv
  <1> QED
      BY <1>1, <1>2, <1>3, <1>4, <1>5 DEF UiStep

LEMMA SystemKeepsFiles ==
  ASSUME TypeInv, ImportInv, FileInv, NEW a \in Activities, SystemStep(a)
  PROVE  FileInv'
  <1>1. CASE PickFile(a) \/ PageStarted(a) \/ PageFinished(a) \/ Finish(a)
    <2>1. /\ UNCHANGED <<gen, cur, work, disk, purged>>
          /\ life' = life \/ (life[a] = "live" /\ life' = [life EXCEPT ![a] = "finishing"])
        BY <1>1 DEF PickFile, PageStarted, PageFinished, Finish
    <2>2. \A b \in Activities : life'[b] # "unborn" => life[b] # "unborn"
        BY <2>1 DEF TypeInv, ActivityTypes
    <2> QED
        BY <2>1, <2>2, FilesStay DEF FileInv
  <1>2. ASSUME NEW next, NEW lost, Retire(a, next, lost), life[a] # "unborn",
               UNCHANGED <<cur, work, purged, disk>>
        PROVE  FileInv'
      BY <1>2, RetireKeepsFiles DEF FileInv
  <1>3. CASE (\E opened \in {"import", "nofile"} : NewIntent(a, opened)) \/ Picked(a)
             \/ RendererGone(a) \/ Destroy(a)
      BY <1>2, <1>3 DEF NewIntent, Picked, RendererGone, Destroy
  <1>4. ASSUME NEW opened \in {"plain", "import", "nofile"}, Create(a, opened)
        PROVE  FileInv'
    <2>1. purged' /\ UNCHANGED <<cur, work>> /\ (disk' = disk \/ ~purged)
        BY <1>4 DEF Create
    <2>2. CASE opened = "plain"
      <3>1. gen' = gen
          BY <1>4, <2>2 DEF Create
      <3> QED
          BY <2>1, <3>1 DEF FileInv, Holds, Gens
    <2>3. CASE opened # "plain"
        BY <1>4, <2>1, <2>3, RetireKeepsFiles DEF Create
    <2> QED
        BY <2>2, <2>3
  <1> QED
      BY <1>1, <1>3, <1>4 DEF SystemStep

\* In a process with one activity, a log its page was told is ready can be fetched until
\* the slot is retired: it is current and its file is there (notifyPage, AssetServer.serve,
\* ImportStore.accept and clear).
THEOREM ReadyCanBeFetched ==
  ASSUME OneActivityOnly
  PROVE  Spec => []ReadyIsServable
  <1>1. Init => FileInv
      BY DEF Init, Fresh, FileInv, Gens
  <1>2. TypeInv /\ ImportInv /\ FileInv /\ [Next]_vars => FileInv'
      BY WorkerKeepsFiles, UiKeepsFiles, SystemKeepsFiles DEF Next
  <1>3. TypeInv /\ ImportInv /\ FileInv => ReadyIsServable
    <2> SUFFICES ASSUME TypeInv, ImportInv, FileInv, NEW a \in Activities,
                        NEW i \in DOMAIN heard[a], heard[a][i].kind = "ready",
                        heard[a][i].gen = gen[a]
                 PROVE  cur[a] = gen[a] /\ File(a, gen[a]) \in disk
        BY DEF ReadyIsServable
    <2>1. /\ heard[a] \in Seq(Events)
          /\ HeardOk(heard[a], told[a], gen[a], Holds(a), lostAt[a])
        BY DEF ImportInv, HistoryTypes, SlotInv, HeardInv
    <2>2. Holds(a) /\ gen[a] >= 1
        BY <2>1 DEF HeardOk
    <2>3. gen[a] \in Gens
        BY <2>2, BoundsAssumption DEF TypeInv, ActivityTypes, Gens
    <2> QED
        BY <2>2, <2>3 DEF FileInv, Holds
  <1> QED
      BY <1>1, <1>2, <1>3, TypeInvIsInductive, ImportInvIsInductive, PTL DEF Spec

==============================================================================
