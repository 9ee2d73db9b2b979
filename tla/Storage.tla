-------------------------------- MODULE Storage --------------------------------
(***************************************************************************)
(* The two private records of RotorLens, the saved-flight history and the  *)
(* sharing preference, from the pilot's tap to the file and back.          *)
(*                                                                         *)
(* The page (ui/app.mjs) keeps a copy of both in memory and puts every     *)
(* change through one queue of operations.  A change is computed at the    *)
(* tap; the revision it was computed from is checked when its turn comes.  *)
(* An operation calls the shell, which serves one call at a time           *)
(* (HistoryStore.java on Android, PrivateStore.swift on iOS) by staging    *)
(* the new file and renaming it over the old one.  The reply comes back    *)
(* later: on iOS the pilot can tap in between, and on either the page or    *)
(* the process can be lost there.  The fallback after a refused rename is  *)
(* Android's; on iOS a refused rename is a failed write.                   *)
(*                                                                         *)
(* One decode's token never decides here: a flight measured twice always   *)
(* agrees with itself (FlightSaves is about that).  Bytes, schema versions  *)
(* and the wording of codes are abstracted to files that read whole, or     *)
(* only in part, or not this time.                                         *)
(***************************************************************************)
EXTENDS FlightHistory

CONSTANTS Flights,     \* the flights the pilot has logs of
          AircraftOf,  \* the aircraft of each
          MaxTaps,     \* bound: what the pilot does
          MaxTroubles  \* bound: file operations that fail, pages and processes lost

VARIABLES
    disk,     \* the two files: "history", "sharing"
    staging,  \* files with a half-written staging file beside them
    calls,    \* calls the shell has not answered, oldest first
    reply,    \* the answer on its way to the page that asked
    page,     \* the page's state; see NewPage
    process,  \* "up" or "down"
    ghost,    \* history variables; see Init
    count     \* counters behind the bounds

vars == <<disk, staging, calls, reply, page, process, ghost, count>>

None == "none"

ASSUME StorageAssumption ==
    /\ IsFiniteSet(Flights) /\ Flights # {} /\ Parts # {}
    /\ AircraftOf \in [Flights -> Aircraft]
    /\ Cardinality(Flights) <= Cap  \* so that no save drops an older flight
    /\ {None, Absent} \cap Flights = {}

Trouble == count.troubles < MaxTroubles /\ count' = [count EXCEPT !.troubles = @ + 1]

Measured(f) == [aircraft |-> AircraftOf[f], header |-> "h", token |-> NoToken,
                parts |-> [p \in Parts |-> f]]
RecordIds(h) == {RecordId(h.records[i]) : i \in DOMAIN h.records}
FlightsIn(h) == {h.records[i].parts[CHOOSE p \in Parts : TRUE] : i \in DOMAIN h.records}

-----------------------------------------------------------------------------
(* Files, and what the page makes of one.                                  *)

CreateSharing == [asked |-> FALSE, on |-> FALSE, terms |-> None, ids |-> {}]

NoFile == [kind |-> "absent"]
Whole(x) == [kind |-> "whole", data |-> x]
Damaged(x) == [kind |-> "damaged", data |-> x]  \* x is what can be salvaged
Unread == [kind |-> "unread"]                   \* null: it could not be read

Salvaged(file, empty) == IF file.kind \in {"whole", "damaged"} THEN file.data ELSE empty
UnsafeToReplace(file) == file.kind \in {"damaged", "unread"}

\* Faulty variant: consent to older terms is still consent.
ImportSharingAnyTerms(file) == Salvaged(file, CreateSharing)

\* importSharing and the terms check of loadSharing: consent to older terms is
\* off and unasked, its identities kept.
ImportSharing(file) ==
    LET s == Salvaged(file, CreateSharing)
    IN IF s.on /\ s.terms # "now" THEN [s EXCEPT !.asked = FALSE, !.on = FALSE, !.terms = None]
       ELSE s

-----------------------------------------------------------------------------
(* The page.                                                               *)

\* An operation of the queue.  "rev" is the revision its data was computed
\* from, "after" what its handler does once it is over, "about" the flights it
\* keeps or forgets.
Op(kind, data, rev, after, about) ==
    [kind |-> kind, data |-> data, rev |-> rev, after |-> after, about |-> about]
NoData == [none |-> TRUE]

\* A page as it starts: nothing read, and the load already in the queue.
NewPage(minted) ==
    [hist |-> CreateHistory, hrev |-> 0, hBlocked |-> FALSE, hWritable |-> FALSE,
     hWriteFailed |-> FALSE, hForgetFailed |-> FALSE,
     share |-> CreateSharing, srev |-> 0, sBlocked |-> FALSE, sWritable |-> FALSE,
     sWriteFailed |-> FALSE, sForgetFailed |-> FALSE,
     present |-> FALSE,
     shown |-> {},            \* the rows of the history panel, by their ids
     cand |-> None,           \* candidate, by its flight
     stored |-> NoRecord,     \* candidateStoredId, by its record
     consent |-> FALSE,       \* consentOpen
     queue |-> <<Op("load", NoData, 0, None, {})>>,
     at |-> "idle",           \* the call the head of the queue is in
     minted |-> minted]       \* random identities so far, each used once

Enqueue(p, op) == [p EXCEPT !.queue = Append(@, op)]
Dequeue(p) == [p EXCEPT !.queue = Tail(@), !.at = "idle"]

PersistHistory(p, data, forget, about) ==
    Enqueue(p, Op(IF forget THEN "forget" ELSE "save", data, p.hrev,
                  IF forget THEN "forgotten" ELSE "remember", about))
PersistSharing(p, data, after) == Enqueue(p, Op("share", data, p.srev, after, {}))

\* candidateStoredId as selectBaseline has it.
StoredId(p) == IF p.cand = None THEN NoRecord
               ELSE SelectBaseline(p.hist, Measured(p.cand)).storedAs

\* recompareCandidate
Recompare(p) == IF p.cand = None \/ p.hBlocked THEN p ELSE [p EXCEPT !.stored = StoredId(p)]

\* The identities reconcileSharingIds wants: kept while the aircraft is
\* remembered, created only while sharing is on.
WantedIds(p) ==
    LET keys == ListAircraft(p.hist)
        kept == {i \in p.share.ids : i[1] \in keys}
        bare == keys \ {i[1] : i \in kept}
    IN kept \cup (IF p.share.on THEN {<<c, p.minted>> : c \in bare} ELSE {})

\* Faulty variant: sharing identities are reconciled with whatever was read.
ReconcileUnguarded(p, after) ==
    IF WantedIds(p) = p.share.ids THEN p
    ELSE [PersistSharing(p, [p.share EXCEPT !.ids = WantedIds(p)], after) EXCEPT !.minted = @ + 1]

\* reconcileSharingIds: writes only when the set changes, and never while a
\* store is unread or an erase has failed.
Reconcile(p, after) ==
    IF p.hBlocked \/ p.sBlocked \/ p.sForgetFailed \/ WantedIds(p) = p.share.ids THEN p
    ELSE [PersistSharing(p, [p.share EXCEPT !.ids = WantedIds(p)], after) EXCEPT !.minted = @ + 1]

\* Faulty variant: a history that could not be read is an empty history.
AdoptHistoryFileUnblocked(p, file) ==
    [p EXCEPT !.hist = ImportHistory(Salvaged(file, CreateHistory)), !.hrev = @ + 1,
              !.present = TRUE, !.hBlocked = FALSE, !.hWritable = TRUE, !.hWriteFailed = FALSE]

\* loadHistory, once its first read is answered.
AdoptHistoryFile(p, file) ==
    [p EXCEPT !.hist = ImportHistory(Salvaged(file, CreateHistory)), !.hrev = @ + 1,
              !.present = TRUE, !.hBlocked = UnsafeToReplace(file),
              !.hWritable = ~UnsafeToReplace(file), !.hWriteFailed = FALSE]

\* loadSharing, once the second is.
AdoptSharingFile(p, file) ==
    [p EXCEPT !.share = ImportSharing(file), !.srev = @ + 1,
              !.sBlocked = UnsafeToReplace(file), !.sWritable = ~UnsafeToReplace(file),
              !.sWriteFailed = FALSE, !.sForgetFailed = FALSE]

\* Faulty variant: the page adopts what the shell could not write.
AdoptHistoryAnyway(p, op, written) ==
    [p EXCEPT !.hist = op.data, !.hrev = @ + 1, !.hForgetFailed = FALSE, !.hWriteFailed = FALSE]

\* The end of persistHistory's operation: adopted only if it was written.
AdoptHistory(p, op, written) ==
    IF written
    THEN [p EXCEPT !.hist = op.data, !.hrev = @ + 1, !.hForgetFailed = FALSE, !.hWriteFailed = FALSE]
    ELSE IF op.kind = "forget" THEN [p EXCEPT !.hForgetFailed = TRUE]
    ELSE [p EXCEPT !.hWriteFailed = TRUE]

\* The end of persistSharing's.
AdoptSharing(p, op, written) ==
    IF written THEN [p EXCEPT !.share = op.data, !.srev = @ + 1, !.sWriteFailed = FALSE]
    ELSE [p EXCEPT !.sWriteFailed = TRUE]

\* forgetEverythingNow after the history's reply.
EmptyHistory(p, forgotten) ==
    IF forgotten
    THEN Recompare([p EXCEPT !.hist = CreateHistory, !.hrev = @ + 1, !.hForgetFailed = FALSE,
                             !.hBlocked = FALSE, !.hWritable = p.present])
    ELSE [p EXCEPT !.hForgetFailed = TRUE]

\* eraseSharingIdentity after its reply, and forgetEverythingNow after the
\* second, which alone leaves sharingWriteFailed as it was.
EmptySharing(p, forgotten, writeFailed) ==
    IF forgotten
    THEN [p EXCEPT !.share = CreateSharing, !.srev = @ + 1, !.sForgetFailed = FALSE,
                   !.sWriteFailed = writeFailed, !.sBlocked = FALSE, !.sWritable = p.present]
    ELSE [p EXCEPT !.sForgetFailed = TRUE]

\* What a handler does last: take the dialog down, or render the history panel.
Then(p, after) ==
    CASE after = "dismiss" -> [p EXCEPT !.consent = FALSE]
      [] after = "render" -> [p EXCEPT !.shown = RecordIds(p.hist)]
      [] OTHER -> p

\* Reconcile, and go on once what it writes is over.
ReconcileThen(p, after) == IF Reconcile(p, after) # p THEN Reconcile(p, after) ELSE Then(p, after)

\* Faulty variant: an answer that was not written leaves the dialog up.
ContinueKeepsDialog(p, op, written) ==
    CASE op.after = "answer" /\ written -> ReconcileThen(p, "dismiss")
      [] op.after = "dismiss" -> Then(p, "dismiss")
      [] OTHER -> p

\* rememberCandidateFlight after its await looks at the candidate there is by
\* then; with none it throws, and neither renders nor reconciles.
Remembered(p, op) ==
    LET mine == FindRecords(op.data, AircraftOf[p.cand])
    IN IF p.cand = None THEN p
       ELSE ReconcileThen([p EXCEPT !.stored = IF mine = <<>> THEN NoRecord ELSE Last(mine),
                                    !.shown = RecordIds(p.hist)], None)

\* What the handler that was waiting does next, before the next operation
\* starts.
Continue(p, op, written) ==
    CASE op.after = "remember" -> IF written THEN Remembered(p, op) ELSE p
      [] op.after = "forgotten" -> IF written THEN ReconcileThen(Recompare(p), "render")
                                   ELSE Then(p, "render")
      [] op.after = "answer" -> IF written THEN ReconcileThen(p, "dismiss") ELSE Then(p, "dismiss")
      [] op.after = "off" -> IF written THEN ReconcileThen(p, None) ELSE p
      [] OTHER -> Then(p, op.after)

-----------------------------------------------------------------------------
(* The head of the queue.                                                  *)

Ready == process = "up" /\ page.queue # <<>> /\ page.at = "idle"

Ask(operation, data, at) ==
    /\ calls' = Append(calls, [op |-> operation, data |-> data, phase |-> "asked", mine |-> TRUE])
    /\ page' = [page EXCEPT !.at = at]
    /\ UNCHANGED <<disk, staging, reply, process, count>>

\* Faulty variant: a change is written whatever it was computed from.
StaleNever(p, op) == FALSE

\* The revision check of persistHistory and persistSharing.
Stale(p, op) == op.rev # IF op.kind = "share" THEN p.srev ELSE p.hrev

\* An operation begins: a stale change is dropped, one the store cannot take
\* raises a flag, and the rest goes to the shell.  The load is the first
\* operation of a page, so by then the store is known to be present.
BeginLoad ==
    /\ Ready /\ Head(page.queue).kind = "load"
    /\ Ask("readHistory", NoData, "first")
    /\ UNCHANGED ghost

BeginForgetEverything ==
    /\ Ready /\ Head(page.queue).kind = "forgetEverything"
    /\ Ask("forgetHistory", NoData, "first")
    /\ UNCHANGED ghost

BeginErase ==
    /\ Ready /\ Head(page.queue).kind = "erase"
    /\ Ask("forgetSharing", NoData, "first")
    /\ UNCHANGED ghost

BeginPersist ==
    LET op == Head(page.queue)
        share == op.kind = "share"
        writable == IF share THEN page.sWritable ELSE page.hWritable
    IN /\ Ready /\ op.kind \in {"save", "forget", "share"}
       /\ IF Stale(page, op)
          THEN /\ page' = Continue(Dequeue(page), op, FALSE)
               /\ UNCHANGED <<disk, staging, calls, reply, process, ghost, count>>
          ELSE IF ~writable
          THEN /\ page' = Continue(IF share THEN AdoptSharing(Dequeue(page), op, FALSE)
                                   ELSE AdoptHistory(Dequeue(page), op, FALSE), op, FALSE)
               /\ UNCHANGED <<disk, staging, calls, reply, process, ghost, count>>
          ELSE /\ Ask(IF share THEN "writeSharing" ELSE "writeHistory", op.data, "first")
               /\ ghost' = IF op.kind = "save" THEN [ghost EXCEPT !.forgotten = @ \ op.about]
                           ELSE ghost

NoReply == [ok |-> FALSE, file |-> NoFile, here |-> FALSE]
Answered(kind, at) ==
    reply.here /\ Head(page.queue).kind = kind /\ page.at = at

\* The reply of the load's first read, then of its second.
LoadHistory ==
    /\ Answered("load", "first")
    /\ page' = [AdoptHistoryFile(page, reply.file) EXCEPT !.at = "second"]
    /\ calls' = Append(calls, [op |-> "readSharing", data |-> NoData, phase |-> "asked", mine |-> TRUE])
    /\ reply' = NoReply
    /\ UNCHANGED <<disk, staging, process, ghost, count>>

LoadSharing ==
    /\ Answered("load", "second")
    /\ page' = ReconcileThen(Dequeue(AdoptSharingFile(page, reply.file)), "render")
    /\ reply' = NoReply
    /\ UNCHANGED <<disk, staging, calls, process, ghost, count>>

ForgettingAll == \E i \in DOMAIN page.queue : page.queue[i].kind = "forgetEverything"

\* The reply of a history write.
FinishHistory ==
    LET op == Head(page.queue) IN
    /\ Answered("save", "first") \/ Answered("forget", "first")
    /\ page' = Continue(AdoptHistory(Dequeue(page), op, reply.ok), op, reply.ok)
    /\ ghost' = IF ~reply.ok THEN ghost
                ELSE IF op.kind = "save"
                THEN [ghost EXCEPT !.kept = IF ForgettingAll THEN @ ELSE @ \cup op.about]
                ELSE [ghost EXCEPT !.forgotten = @ \cup op.about]
    /\ reply' = NoReply
    /\ UNCHANGED <<disk, staging, calls, process, count>>

\* The reply of a sharing write.
FinishSharing ==
    LET op == Head(page.queue) IN
    /\ Answered("share", "first")
    /\ page' = Continue(AdoptSharing(Dequeue(page), op, reply.ok), op, reply.ok)
    /\ ghost' = IF ~reply.ok THEN ghost
                ELSE [ghost EXCEPT !.erased = @ \cup (page.share.ids \ op.data.ids),
                                   !.agreed = @ /\ op.data.on]
    /\ reply' = NoReply
    /\ UNCHANGED <<disk, staging, calls, process, count>>

\* forgetEverythingNow: the history's reply, and then the sharing file's.
ForgotHistory ==
    /\ Answered("forgetEverything", "first")
    /\ page' = [EmptyHistory(page, reply.ok) EXCEPT !.at = "second"]
    /\ calls' = Append(calls, [op |-> "forgetSharing", data |-> NoData, phase |-> "asked", mine |-> TRUE])
    /\ ghost' = IF reply.ok THEN [ghost EXCEPT !.forgotten = Flights] ELSE ghost
    /\ reply' = NoReply
    /\ UNCHANGED <<disk, staging, process, count>>

ForgotSharing ==
    /\ Answered("forgetEverything", "second") \/ Answered("erase", "first")
    /\ LET all == Head(page.queue).kind = "forgetEverything"
           p == Dequeue(EmptySharing(page, reply.ok, all /\ page.sWriteFailed))
       IN page' = IF all THEN Then(p, "render") ELSE p
    /\ ghost' = IF reply.ok THEN [ghost EXCEPT !.erased = @ \cup page.share.ids, !.agreed = FALSE]
                ELSE ghost
    /\ reply' = NoReply
    /\ UNCHANGED <<disk, staging, calls, process, count>>

-----------------------------------------------------------------------------
(* What the pilot does.  The dialog makes the rest of the page inert.       *)

Tap(open) ==
    /\ process = "up" /\ page.consent = open /\ count.taps < MaxTaps
    /\ count' = [count EXCEPT !.taps = @ + 1]
    /\ UNCHANGED <<disk, staging, calls, reply, process>>

\* rememberCandidateFlight, to its first await.
Save ==
    /\ Tap(FALSE) /\ ~page.hBlocked /\ page.cand # None /\ page.stored = NoRecord
    /\ page' = PersistHistory(page, AddFlightRecord(page.hist, Measured(page.cand)),
                              FALSE, {page.cand})
    /\ UNCHANGED ghost

Answering == \E i \in DOMAIN page.queue : page.queue[i].after \in {"answer", "dismiss"}

\* A change of the preference whose handler will reconcile the identities.
Reconciling == \E i \in DOMAIN page.queue : page.queue[i].after \in {"answer", "off"}

Forget(data) ==
    /\ Tap(FALSE) /\ ~page.hBlocked
    /\ LET gone == FlightsIn(page.hist) \ FlightsIn(data)
       IN /\ page' = PersistHistory(page, data, TRUE, gone)
          /\ ghost' = [ghost EXCEPT !.kept = @ \ gone, !.overtook = @ \/ Reconciling]

\* The Forget of a flight that is shown, on either panel, and of an aircraft.
ForgetFlight(id) ==
    /\ id \in page.shown \/ (page.stored # NoRecord /\ id = RecordId(page.stored))
    /\ Forget(ForgetSavesOfFlight(page.hist, id))

ForgetMachine(c) ==
    /\ \E id \in page.shown : id[1] = c
    /\ Forget(ForgetAircraft(page.hist, c))

\* forgetEverythingNow, at its second tap.
ForgetEverythingNow ==
    /\ Tap(FALSE)
    /\ page' = Enqueue(page, Op("forgetEverything", NoData, 0, None, {}))
    /\ ghost' = [ghost EXCEPT !.kept = {}]

EraseSharingIdentity ==
    /\ Tap(FALSE)
    /\ page' = Enqueue(page, Op("erase", NoData, 0, None, {}))
    /\ UNCHANGED ghost

\* The sharing toggle: on opens the dialog (openConsent), off is written.
ToggleOn ==
    /\ Tap(FALSE) /\ ~page.share.on /\ page.sWritable /\ ~page.hBlocked
    /\ page' = [page EXCEPT !.consent = TRUE]
    /\ UNCHANGED ghost

ToggleOff ==
    /\ Tap(FALSE) /\ page.share.on
    /\ page' = PersistSharing(page, [page.share EXCEPT !.asked = TRUE, !.on = FALSE, !.terms = None],
                              "off")
    /\ UNCHANGED ghost

\* answerConsent, to its first await.
AnswerConsent(agreed) ==
    /\ Tap(TRUE)
    /\ page' = PersistSharing(page, [page.share EXCEPT !.asked = TRUE, !.on = agreed,
                                                       !.terms = IF agreed THEN "now" ELSE None],
                              "answer")
    /\ ghost' = [ghost EXCEPT !.agreed = @ \/ agreed]

\* retireCurrentFile (another log, which also takes the dialog down), and the
\* start of an analysis: forgetCandidateFlight.
RetireCandidate ==
    /\ process = "up" /\ count.taps < MaxTaps /\ (page.cand # None \/ page.consent)
    /\ count' = [count EXCEPT !.taps = @ + 1]
    /\ page' = [page EXCEPT !.cand = None, !.stored = NoRecord, !.consent = FALSE]
    /\ UNCHANGED <<disk, staging, calls, reply, process, ghost>>

\* considerFlight, at the end of an analysis.  The read of two small files is
\* over long before a log is decoded.
ConsiderFlight(f) ==
    /\ process = "up" /\ page.cand = None /\ count.taps < MaxTaps
    /\ \A i \in DOMAIN page.queue : page.queue[i].kind # "load"
    /\ count' = [count EXCEPT !.taps = @ + 1]
    /\ LET p == [page EXCEPT !.cand = f] IN page' = Recompare(p)
    /\ UNCHANGED <<disk, staging, calls, reply, process, ghost>>

-----------------------------------------------------------------------------
(* The shell, serving the oldest call.                                     *)

File(call) == IF call.op \in {"readHistory", "writeHistory", "forgetHistory"}
              THEN "history" ELSE "sharing"
Serving(phase) == process = "up" /\ calls # <<>> /\ Head(calls).phase = phase
Is(operation) == Head(calls).op \in operation
Reads == {"readHistory", "readSharing"}
Writes == {"writeHistory", "writeSharing"}
Forgets == {"forgetHistory", "forgetSharing"}

\* The call is answered; a page that is gone does not hear it.
Answer(ok, file) ==
    /\ calls' = Tail(calls)
    /\ reply' = IF Head(calls).mine THEN [ok |-> ok, file |-> file, here |-> TRUE] ELSE reply
    /\ UNCHANGED <<page, process>>

InPhase(phase) ==
    /\ calls' = [calls EXCEPT ![1].phase = phase]
    /\ UNCHANGED <<reply, page, process>>


\* readFrom: absent is not unreadable.
ServeRead ==
    /\ Serving("asked") /\ Is(Reads)
    /\ Answer(TRUE, disk[File(Head(calls))])
    /\ UNCHANGED <<disk, staging, ghost, count>>

ServeReadFails ==
    /\ Serving("asked") /\ Is(Reads) /\ disk[File(Head(calls))] # NoFile /\ Trouble
    /\ Answer(FALSE, Unread)
    /\ UNCHANGED <<disk, staging, ghost>>

\* writeTo: the staging file, complete and synced, or too large or refused.
ServeStage ==
    /\ Serving("asked") /\ Is(Writes)
    /\ staging' = staging \cup {File(Head(calls))}
    /\ InPhase("staged")
    /\ UNCHANGED <<disk, ghost, count>>

ServeStageFails ==
    /\ Serving("asked") /\ Is(Writes) /\ Trouble
    /\ staging' = staging \ {File(Head(calls))}
    /\ Answer(FALSE, NoFile)
    /\ UNCHANGED <<disk, ghost>>

\* The rename, atomic over an existing file: the first attempt, or the one
\* after the fallback's delete.
ServeRename ==
    /\ Serving("staged") \/ Serving("deleted")
    /\ disk' = [disk EXCEPT ![File(Head(calls))] = Whole(Head(calls).data)]
    /\ staging' = staging \ {File(Head(calls))}
    /\ Answer(TRUE, NoFile)
    /\ UNCHANGED <<ghost, count>>

\* Android, when the rename is refused: the old file is deleted first.  Until
\* the second rename there is no file at all.
ServeRenameRefused ==
    /\ Serving("staged") /\ Trouble
    /\ disk' = [disk EXCEPT ![File(Head(calls))] = NoFile]
    /\ InPhase("deleted")
    /\ ghost' = [ghost EXCEPT !.fellBack = @ \cup {File(Head(calls))}]
    /\ UNCHANGED staging

\* iOS when the rename is refused, Android when the delete is too; and Android
\* when the second rename fails, the old file being gone by then.
ServeRenameFails ==
    /\ Serving("staged") \/ Serving("deleted")
    /\ Trouble
    /\ staging' = staging \ {File(Head(calls))}
    /\ Answer(FALSE, NoFile)
    /\ UNCHANGED <<disk, ghost>>

\* forget and forgetSharing: the staging file and the file; a file that stays
\* is reported.
ServeForget ==
    /\ Serving("asked") /\ Is(Forgets)
    /\ disk' = [disk EXCEPT ![File(Head(calls))] = NoFile]
    /\ staging' = staging \ {File(Head(calls))}
    /\ Answer(TRUE, NoFile)
    /\ UNCHANGED <<ghost, count>>

ServeForgetFails ==
    /\ Serving("asked") /\ Is(Forgets) /\ disk[File(Head(calls))] # NoFile /\ Trouble
    /\ staging' = staging \ {File(Head(calls))}
    /\ Answer(FALSE, NoFile)
    /\ UNCHANGED <<disk, ghost>>

-----------------------------------------------------------------------------
(* Losing the page, or the process.                                        *)

\* A call the page made is carried out all the same.
LosePage ==
    /\ process = "up" /\ Trouble
    /\ page' = NewPage(page.minted)
    /\ calls' = [i \in DOMAIN calls |-> [calls[i] EXCEPT !.mine = FALSE]]
    /\ reply' = NoReply
    /\ UNCHANGED <<disk, staging, process, ghost>>

Crash ==
    /\ process = "up" /\ Trouble
    /\ process' = "down"
    /\ calls' = <<>> /\ reply' = NoReply
    /\ page' = NewPage(page.minted)
    /\ UNCHANGED <<disk, staging, ghost>>

\* The store is made before the page: what an interrupted write left goes.
Start ==
    /\ process = "down"
    /\ process' = "up"
    /\ staging' = {}
    /\ UNCHANGED <<disk, calls, reply, page, ghost, count>>

-----------------------------------------------------------------------------

\* What an earlier run may have left: nothing, one flight, or a history of
\* which nothing or one flight can be salvaged; and a sharing file that is
\* absent, damaged, or consent to older terms.
Init ==
    /\ LET f == CHOOSE f \in Flights : TRUE
           one == ExportHistory(AddFlightRecord(CreateHistory, Measured(f)))
           older == [asked |-> TRUE, on |-> TRUE, terms |-> "old", ids |-> {<<AircraftOf[f], 0>>}]
       IN \E h \in {NoFile, Whole(one), Damaged(CreateHistory), Damaged(one)},
             s \in {NoFile, Whole(older), Damaged(CreateSharing)} :
              disk = [file \in {"history", "sharing"} |-> IF file = "history" THEN h ELSE s]
    /\ staging = {} /\ calls = <<>> /\ reply = NoReply
    /\ page = NewPage(1)
    /\ process = "up"
    /\ ghost = [kept |-> IF disk["history"].kind = "whole" THEN FlightsIn(disk["history"].data) ELSE {},
                forgotten |-> {},   \* flights whose forgetting the pilot was told of
                erased |-> {},      \* identities that were dropped
                agreed |-> FALSE,   \* Share was pressed and nothing since undid it
                overtook |-> FALSE, \* a flight was forgotten while the preference was written
                fellBack |-> {}]    \* files Android's fallback has deleted
    /\ count = [taps |-> 0, troubles |-> 0]

PageStep ==
    \/ BeginLoad \/ BeginPersist \/ BeginForgetEverything \/ BeginErase
    \/ LoadHistory \/ LoadSharing \/ FinishHistory \/ FinishSharing
    \/ ForgotHistory \/ ForgotSharing

ShellStep ==
    \/ ServeRead \/ ServeReadFails \/ ServeStage \/ ServeStageFails \/ ServeRename
    \/ ServeRenameRefused \/ ServeRenameFails \/ ServeForget \/ ServeForgetFails

PilotStep ==
    \/ Save \/ ForgetEverythingNow \/ EraseSharingIdentity \/ ToggleOn \/ ToggleOff
    \/ RetireCandidate
    \/ \E c \in Aircraft, n \in 0..MaxTaps : ForgetFlight(<<c, n>>)
    \/ \E c \in Aircraft : ForgetMachine(c)
    \/ \E agreed \in BOOLEAN : AnswerConsent(agreed)
    \/ \E f \in Flights : ConsiderFlight(f)

Next == PageStep \/ ShellStep \/ PilotStep \/ LosePage \/ Crash \/ Start

Spec == Init /\ [][Next]_vars

\* The event loop runs and a file operation returns.
FairSpec == Spec /\ WF_vars(PageStep) /\ WF_vars(ShellStep)

-----------------------------------------------------------------------------
(* Properties.                                                            *)

Quiet == process = "up" /\ page.present /\ page.queue = <<>> /\ calls = <<>>

\* With nothing in flight, what the pilot sees is what a restart would read, in
\* both stores, whatever failed before (persistHistory adopts "only if that
\* worked").  The exceptions are a file the page could not read and a file
\* Android's fallback lost.
MemoryIsDisk ==
    Quiet =>
        /\ page.hBlocked \/ "history" \in ghost.fellBack
               \/ page.hist = ImportHistory(Salvaged(disk["history"], CreateHistory))
        /\ page.sBlocked \/ "sharing" \in ghost.fellBack
               \/ page.share = ImportSharing(disk["sharing"])

\* A flight the pilot was told is forgotten is in no copy until it is saved
\* again, and a dropped identity never comes back: no older change lands after
\* a newer one (the revision checks).
NothingResurrected ==
    LET file == disk["sharing"] IN
    /\ ghost.forgotten \cap FlightsIn(page.hist) = {}
    /\ ghost.erased \cap page.share.ids = {}
    /\ Quiet => /\ ghost.forgotten \cap FlightsIn(Salvaged(disk["history"], CreateHistory)) = {}
                /\ ghost.erased \cap Salvaged(file, CreateSharing).ids = {}

\* A flight the pilot was told is kept stays in the file until a forget is
\* asked for, across lost pages, crashes, failed writes and unreadable files;
\* only Android's fallback gives that up.
SavedFlightsLast ==
    \/ "history" \in ghost.fellBack
    \/ ghost.kept \subseteq FlightsIn(Salvaged(disk["history"], CreateHistory))

\* A file the page could not read whole is replaced by nothing but an explicit
\* erase of that file.
UnreadableIsKept ==
    [][ \A file \in {"history", "sharing"} :
            (disk[file].kind = "damaged" /\ disk'[file] # disk[file]) =>
                Head(calls).op \in Forgets ]_vars

\* Sharing is on, in memory or in a file a load would honour, only while an
\* agreement to the current terms stands.
NoUnaskedSharing ==
    /\ page.share.on => ghost.agreed /\ page.share.asked /\ page.share.terms = "now"
    /\ LET s == Salvaged(disk["sharing"], CreateSharing)
       IN s.on /\ s.terms = "now" => ghost.agreed

Orphaned == {i \in page.share.ids : i[1] \notin ListAircraft(page.hist)}

\* Once things are quiet an identity belongs to an aircraft that is remembered,
\* unless a failure the pilot was shown stands in the way (reconcileSharingIds),
\* or the forgetting was asked for while an answer, or switching off, was still
\* being written.
IdsFollowHistory ==
    (Quiet /\ ~ghost.overtook /\ ~page.hBlocked /\ ~page.sBlocked
           /\ ~page.sWriteFailed /\ ~page.sForgetFailed) => Orphaned = {}

\* What the pilot forgot is gone: no copy of a flight, and no identity of an
\* aircraft without flights (the revision checks, reconcileSharingIds).
ForgottenIsGone == NothingResurrected /\ IdsFollowHistory

\* While the history could not be read no identity is dropped but by an explicit
\* erase: the aircraft it does not show are not aircraft that were forgotten.
UnreadHistoryDropsNoIdentity ==
    [][ (page.hBlocked /\ page'.present /\ ~(page.share.ids \subseteq page'.share.ids)) =>
            Head(page.queue).kind \in {"erase", "forgetEverything"} ]_vars

\* No flight is stored twice, however the taps and the replies interleave.
NoDuplicateSave ==
    Cardinality(FlightsIn(page.hist)) = Len(page.hist.records)

\* Once the process runs, the only staging file is that of the write in hand.
NoHalfWrittenFile ==
    process = "up" => \A file \in staging :
        calls # <<>> /\ Is(Writes) /\ File(Head(calls)) = file /\ Head(calls).phase # "asked"

\* An answered dialog goes away, and the rest of the page comes back to life.
ConsentCloses ==
    Answering ~> ~page.consent

\* The id the panel offers to forget is that of the flight on screen.
StoredIdIsTheCandidates ==
    page.stored # NoRecord =>
        page.cand # None /\ page.stored.parts = Measured(page.cand).parts

\* What the pilot sees is what is on the disk, and there is no third file.
FilesAreWhole == MemoryIsDisk /\ NoHalfWrittenFile

\* A saved flight is kept, and kept once.
SavesAreKept == SavedFlightsLast /\ NoDuplicateSave

\* What could not be read is not taken for empty: neither the file nor the
\* identities of the aircraft it may hold are lost to it.
UnreadIsKept == UnreadableIsKept /\ UnreadHistoryDropsNoIdentity
=============================================================================
