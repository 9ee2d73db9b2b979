------------------------------ MODULE FrameDecoder ------------------------------
(***************************************************************************)
(* The frame loop of the Blackbox decoder (src/blackbox/frames.mjs) over    *)
(* the bytes of one session, what the session's integrity is then said to  *)
(* be (log-integrity.mjs), and the writer whose logs it reads              *)
(* (tools/blackbox-writer.mjs), with damage in between.                    *)
(*                                                                         *)
(* One step is one turn of the loop.  Bytes are numbers and frame markers  *)
(* the real ones, so that data can look like a frame.  A main frame is its *)
(* "time" field, unsigned, STRAIGHT_LINE predicted in P frames; the other  *)
(* fields of a table are NULL encoded: they cost cells and no bytes.       *)
(* Widths are parameters: a word of the code has Word = 2^32 values, in at *)
(* most VBBytes = 5 bytes of seven bits.                                   *)
(***************************************************************************)
EXTENDS Integers, Sequences, SequencesExt, FiniteSetsExt

CONSTANTS
    Logs,         \* what the writer may have written: sequences of frames
    Overwrites,   \* the bytes damage may put in the place of another
    MaxErased,    \* bound: erased bytes after a capture that was cut
    MaxLost,      \* bound: bytes lost at once
    Limits,       \* the limits a decode may be given
    Declared,     \* the tables the header declares; "I" is one of them
    Width,        \* the fields of each table
    CellsPerByte, \* CELLS_PER_BODY_BYTE
    EndPayload,   \* LOG_END_PAYLOAD
    Word,         \* the values of a field
    VBBytes,      \* the most bytes of a variable-byte integer
    Tolerance     \* TAIL_TOLERANCE_BYTES

ASSUME DecoderAssumption ==
    /\ "I" \in Declared
    /\ Word \in Nat \ {0} /\ VBBytes \in Nat \ {0}
    /\ Word % 128^(VBBytes - 1) = 0 /\ Word \div 128^(VBBytes - 1) \in 0..127
    /\ Overwrites \subseteq 0..255 /\ EndPayload \in Seq(0..255)
    /\ CellsPerByte \in Nat /\ Tolerance \in Nat /\ MaxErased \in Nat /\ MaxLost \in Nat

VARIABLES
    bytes,     \* the session's frame stream, as it is read
    lim,       \* this decode's limits
    offset,    \* the reader's: how many bytes are behind it
    history,   \* predictor history: previous, previous2, lastMainFrameTime
    out,       \* what is handed back; see Init
    used,      \* records and cells, as the limits count them
    status,    \* "running", "done"
    spans,     \* history: what each turn made of the bytes it went over
    written    \* history: the log as it was written, and what was done to it

vars == <<bytes, lim, offset, history, out, used, status, spans, written>>

None == -1
Tables == {"I", "P", "S", "G", "H"}
Aux == {"S", "G", "H"}
MarkerOf == [I |-> 73, P |-> 80, S |-> 83, G |-> 71, H |-> 72, E |-> 69]
Markers == {MarkerOf[k] : k \in DOMAIN MarkerOf}
ErasedByte == 255

\* EventType
SyncBeep == 0
Adjustment == 13    \* INFLIGHT_ADJUSTMENT, of an integer or a float
Resume == 14        \* LOGGING_RESUME
Disarm == 15
FlightMode == 30
GovernorState == 50
CustomData == 100
CustomString == 101
LogEnd == 255

\* UNSIGNED_STATE_EVENTS; 51 and 52 are those of rescue and of being airborne.
StateEvents == {Disarm, GovernorState, 51, 52}
OneInteger == StateEvents \cup {SyncBeep}
TwoIntegers == {Resume, FlightMode}
Custom == {CustomData, CustomString}

-----------------------------------------------------------------------------
(* Integers and predictors.                                                *)

Unsigned(x) == x % Word
Signed(x) == IF x % Word >= Word \div 2 THEN (x % Word) - Word ELSE x % Word
ZigZagEncode(x) == IF x >= 0 THEN 2 * x ELSE -2 * x - 1
ZigZagDecode(z) == IF z % 2 = 0 THEN z \div 2 ELSE -((z + 1) \div 2)

\* predict(STRAIGHT_LINE); a decode without history is refused before.
StraightLine(h) == 2 * h.previous - h.previous2

\* Faulty variant: an I frame leaves the sample before it in the history.
CommitIntraKeeps(h, t) ==
    [previous |-> t, previous2 |-> IF h.previous = None THEN t ELSE h.previous, last |-> t]

\* Faulty variant: the frame two back is the last one too.
CommitInterForgets(h, t) == [previous |-> t, previous2 |-> t, last |-> t]

\* A committed I frame begins the history, a P frame moves it on.
CommitIntra(h, t) == [previous |-> t, previous2 |-> t, last |-> t]
CommitInter(h, t) == [previous |-> t, previous2 |-> h.previous, last |-> t]

NoHistory == [previous |-> None, previous2 |-> None, last |-> 0]

-----------------------------------------------------------------------------
(* The writer, and what may happen to a log.                               *)

\* unsignedVB
VB(x) ==
    LET n == Min({k \in 1..VBBytes : x < 128^k})
    IN [i \in 1..n |-> ((x \div 128^(i - 1)) % 128) + (IF i < n THEN 128 ELSE 0)]

\* The type an event frame of a log is written with.
TypeOf == [beep |-> SyncBeep, adjust |-> Adjustment, resume |-> Resume, disarm |-> Disarm,
           mode |-> FlightMode, state |-> GovernorState, custom |-> CustomData,
           string |-> CustomString, end |-> LogEnd]

\* An adjustment of a float has the high bit of its function set.
AdjustmentBytes(value) ==
    <<value>> \o (IF value < 128 THEN VB(ZigZagEncode(value)) ELSE <<0, 0, 0, 0>>)

\* What follows the type of an event.
PayloadBytes(type, value) ==
    CASE type \in OneInteger -> VB(value)
      [] type \in TwoIntegers -> VB(value) \o VB(value)
      [] type \in Custom -> <<1, value>>
      [] type = Adjustment -> AdjustmentBytes(value)
      [] type = LogEnd -> EndPayload

\* A frame of a log: its kind and the value it carries.
FrameBytes(f, h) ==
    CASE f.kind = "I" -> <<MarkerOf["I"]>> \o VB(f.value)
      [] f.kind = "P" -> <<MarkerOf["P"]>> \o VB(ZigZagEncode(Signed(f.value - StraightLine(h))))
      [] f.kind = "G" -> <<MarkerOf["G"]>> \o VB(Unsigned(f.value - h.last))
      [] f.kind \in {"S", "H"} -> <<MarkerOf[f.kind]>> \o VB(f.value)
      [] f.kind \in DOMAIN TypeOf ->
            <<MarkerOf["E"], TypeOf[f.kind]>> \o PayloadBytes(TypeOf[f.kind], f.value)

\* writeSession: the bytes, and where each frame begins.
WriteFrame(w, f) ==
    [bytes |-> w.bytes \o FrameBytes(f, w.h),
     starts |-> Append(w.starts, Len(w.bytes)),
     h |-> IF f.kind \notin {"I", "P"} THEN w.h
           ELSE [previous |-> f.value, last |-> f.value,
                 previous2 |-> IF f.kind = "I" THEN f.value ELSE w.h.previous]]
WriteSession(log) == FoldLeft(WriteFrame, [bytes |-> <<>>, starts |-> <<>>, h |-> NoHistory], log)

\* A capture that ends early, on a medium that reads back as erased; one byte
\* read back wrong; some bytes lost; or none of it.  "head" and "tail" are how
\* many bytes at either end are as they were written.
Damage(kind, b, head, tail) == [kind |-> kind, bytes |-> b, head |-> head, tail |-> tail]
Erased(e) == [i \in 1..e |-> ErasedByte]
Cuts(b) == {Damage("cut", SubSeq(b, 1, k) \o Erased(e), k, 0) :
                k \in 0..(Len(b) - 1), e \in 0..MaxErased}
Overwrite(b, k, x) == [b EXCEPT ![k] = x]
Overwritten(b) == {Damage("overwritten", Overwrite(b, k, x), k - 1, Len(b) - k) :
                       k \in 1..Len(b), x \in Overwrites}
Parts(b) == {p \in (0..Len(b)) \X (0..Len(b)) : p[2] - p[1] \in 1..MaxLost}
Losses(b) == {Damage("lost", SubSeq(b, 1, p[1]) \o SubSeq(b, p[2] + 1, Len(b)),
                     p[1], Len(b) - p[2]) : p \in Parts(b)}
Damages(b) == {Damage("none", b, Len(b), Len(b))} \cup Cuts(b) \cup Overwritten(b) \cup Losses(b)

\* What the writer writes is bytes.
ASSUME WriterAssumption == \A log \in Logs : WriteSession(log).bytes \in Seq(0..255)

-----------------------------------------------------------------------------
(* Reading.                                                                *)

End == Len(bytes)
At(o) == bytes[o + 1]

Read(value, next) == [code |-> "ok", value |-> value, next |-> next]
Truncated == [code |-> "truncated", value |-> 0, next |-> End]
Corrupt(next) == [code |-> "corrupt", value |-> 0, next |-> next]

\* unsignedVB from o: it ends at a byte without continuation, at the end of the
\* input, or at a last byte that carries more than the word has left.
ReadVB(o) ==
    LET TooMuch(k) == k = VBBytes /\ At(o + k - 1) >= Word \div 128^(VBBytes - 1)
        n == Min({k \in 1..VBBytes :
                      o + k > End \/ TooMuch(k) \/ At(o + k - 1) < 128})
    IN IF o + n > End THEN Truncated
       ELSE IF TooMuch(n) THEN Corrupt(o + n)
       ELSE Read(MapThenSumSet(LAMBDA i : (At(o + i - 1) % 128) * 128^(i - 1), 1..n), o + n)

\* decodeEvent: what it reads after the marker, its value being the type.
ReadEvent(o) ==
    LET type == At(o)
        As(r) == [r EXCEPT !.value = type]
        Skip(n) == IF o + 1 + n > End THEN Truncated ELSE Read(type, o + 1 + n)
        wrong == {i \in 1..Len(EndPayload) : o + i < End /\ At(o + i) # EndPayload[i]}
    IN CASE o >= End -> Truncated
         [] o < End /\ type \in OneInteger -> As(ReadVB(o + 1))
         [] o < End /\ type \in TwoIntegers ->
               LET first == ReadVB(o + 1)
               IN IF first.code = "ok" THEN As(ReadVB(first.next)) ELSE first
         [] o < End /\ type \in Custom ->
               IF o + 1 >= End THEN Truncated ELSE Skip(1 + At(o + 1))
         [] o < End /\ type = Adjustment ->
               IF o + 1 >= End THEN Truncated
               ELSE IF At(o + 1) < 128 THEN As(ReadVB(o + 2))
               \* floatLE looks before it reads, and leaves the reader where it is.
               ELSE IF o + 6 > End THEN [Truncated EXCEPT !.next = o + 2]
               ELSE Read(type, o + 6)
         [] o < End /\ type = LogEnd ->
               IF wrong # {} THEN Corrupt(o + Min(wrong) + 1) ELSE Skip(Len(EndPayload))
         [] OTHER -> Corrupt(o + 1)

KindAt(o) == IF At(o) \in Markers THEN CHOOSE k \in DOMAIN MarkerOf : MarkerOf[k] = At(o)
             ELSE "none"

\* No table to read the frame with, or no history.
Undecodable(k) ==
    \/ k = "none"
    \/ k \in Tables \ Declared
    \/ k = "P" /\ history.previous = None

\* Faulty variant: any P frame that reads is a sample.
IsPlausibleAlways(t) == TRUE

\* isPlausibleMainFrame: time does not go back.
IsPlausible(t) == t >= history.previous

\* decodeFields with the predictor of each table, for the frame at the offset.
Frame ==
    LET k == KindAt(offset)
        raw == ReadVB(offset + 1)
        Predicted(p, residual) ==
            IF raw.code # "ok" THEN raw ELSE [raw EXCEPT !.value = Unsigned(residual + p)]
    IN CASE Undecodable(k) -> Corrupt(offset + 1)
         [] ~Undecodable(k) /\ k \in {"I", "S", "H"} -> Predicted(0, raw.value)
         [] ~Undecodable(k) /\ k = "G" -> Predicted(history.last, raw.value)
         [] ~Undecodable(k) /\ k = "P" ->
               LET r == Predicted(StraightLine(history), ZigZagDecode(raw.value))
               IN IF r.code = "ok" /\ ~IsPlausible(r.value)
                  THEN [r EXCEPT !.code = "implausible"] ELSE r
         [] k = "E" -> ReadEvent(offset + 1)

-----------------------------------------------------------------------------
(* The loop.                                                               *)

Loop == status = "running" /\ offset < End

Span(kind, to) == Append(spans, [kind |-> kind, from |-> offset, to |-> to])

\* The limits that are asked before a frame is read, and the cells it costs.
Exhausted(k) ==
    CASE k \in {"I", "P"} -> Len(out.samples) >= lim.frames
      [] k \in Aux -> out.count.aux >= lim.aux
      [] k = "E" -> Len(out.events) >= lim.events
      [] OTHER -> FALSE
Cells(k) == IF k \in Tables /\ ~Undecodable(k) THEN Width[k] ELSE 0
OverCells(k) == Cells(k) > 0 /\ used.cells + Cells(k) > CellsPerByte * End + lim.cells

Turn == used' = [records |-> used.records + 1, cells |-> used.cells + Cells(KindAt(offset))]

LimitError == [code |-> "limit-exceeded", offset |-> offset]

\* recordLimit
ReachLimit(o) == [o EXCEPT !.limitExceeded = TRUE, !.errors = Append(@, LimitError)]

\* The loop ends where the session does.
EndOfSession ==
    /\ status = "running" /\ offset >= End
    /\ status' = "done"
    /\ UNCHANGED <<bytes, lim, offset, history, out, used, spans, written>>

TooManyRecords ==
    /\ Loop /\ used.records >= lim.records
    /\ out' = ReachLimit(out) /\ status' = "done"
    /\ UNCHANGED <<bytes, lim, offset, history, used, spans, written>>

StopAtLimit ==
    LET k == KindAt(offset) IN
    /\ Loop /\ used.records < lim.records
    /\ Exhausted(k) \/ OverCells(k)
    /\ out' = ReachLimit(out) /\ status' = "done"
    /\ offset' = offset + 1 /\ spans' = Span("stop", offset + 1)
    /\ Turn
    /\ UNCHANGED <<bytes, lim, history, written>>

\* A frame that reads.
Accept(k) ==
    /\ Loop /\ used.records < lim.records
    /\ KindAt(offset) = k /\ ~Exhausted(k) /\ ~OverCells(k)
    /\ LET f == Frame IN
        /\ f.code = "ok"
        /\ offset' = f.next /\ spans' = Span(k, f.next)
    /\ Turn
    /\ UNCHANGED <<bytes, lim, written>>

Sample(intra) == [time |-> Frame.value, intra |-> intra, at |-> offset]

Intra ==
    /\ Accept("I")
    /\ history' = CommitIntra(history, Frame.value)
    /\ out' = [out EXCEPT !.samples = Append(@, Sample(TRUE))]
    /\ UNCHANGED status

Inter ==
    /\ Accept("P")
    /\ history' = CommitInter(history, Frame.value)
    /\ out' = [out EXCEPT !.samples = Append(@, Sample(FALSE))]
    /\ UNCHANGED status

\* Slow and home frames are read and leave nothing a caller sees but their count.
Auxiliary ==
    /\ \E k \in {"S", "H"} : Accept(k)
    /\ out' = [out EXCEPT !.count.aux = @ + 1]
    /\ UNCHANGED <<history, status>>

\* publishGpsFix: the time of the fix, never its place.
Gps ==
    /\ Accept("G")
    /\ out' = [out EXCEPT !.count.aux = @ + 1,
                          !.gps = Append(@, [sampleIndex |-> Len(out.samples),
                                             time |-> Frame.value])]
    /\ UNCHANGED <<history, status>>

\* An event is placed after the sample before it; the log-end event ends the loop.
Event ==
    /\ Accept("E")
    /\ LET type == Frame.value
           after == IF out.samples = <<>> THEN None ELSE history.last
           state == IF type \in StateEvents THEN ReadVB(offset + 2).value ELSE None
           terminal == type = LogEnd
       IN /\ out' = [out EXCEPT !.events = Append(@, [type |-> type, state |-> state,
                                                      sampleIndex |-> Len(out.samples),
                                                      after |-> after]),
                                !.reachedLogEnd = terminal]
          /\ status' = IF terminal THEN "done" ELSE status
    /\ UNCHANGED history

\* Where the erased bytes that end the session begin.
ErasedTailStart == Min({o \in 0..End : \A i \in (o + 1)..End : bytes[i] = ErasedByte})

\* Faulty variant: erased bytes are bytes like any other.
CutByErasedTailNever(next) == FALSE

\* cutByErasedTail: the frame began before the erased run, or with it, and its
\* reads went into it.
CutByErasedTail(next) == ErasedTailStart >= offset /\ next > ErasedTailStart

\* resync: the next byte after the failed frame's marker that may begin a frame.
Resync(next) ==
    Min({o \in (offset + 1)..End : o = End \/ At(o) \in Markers})

\* A frame that does not read, or is not believed: an error is kept, and the
\* scan goes on after its marker unless the input has ended.
Damaged ==
    LET k == KindAt(offset)
        f == Frame
        erased == f.code # "truncated" /\ CutByErasedTail(f.next)
        ended == erased \/ f.code = "truncated"
        stop == IF erased THEN End ELSE f.next
        to == IF ended THEN stop ELSE Resync(f.next)
        counted == IF f.code = "implausible" THEN [out EXCEPT !.count.rejected = @ + 1] ELSE out
        full == Len(out.errors) >= lim.errors
    IN /\ Loop /\ used.records < lim.records
       /\ ~Exhausted(k) /\ ~OverCells(k)
       /\ f.code # "ok"
       /\ IF full
          THEN /\ out' = ReachLimit(counted)
               /\ offset' = stop
          ELSE /\ out' = [counted EXCEPT
                              !.errors = Append(@, [code |-> IF ended THEN "truncated" ELSE "corrupt",
                                                    offset |-> offset]),
                              !.count.resync = @ + (IF ended THEN 0 ELSE to - offset)]
               /\ offset' = to
       /\ status' = IF full \/ ended THEN "done" ELSE status
       /\ spans' = Span(IF full \/ ended THEN "stop" ELSE "gap", offset')
       /\ Turn
       /\ UNCHANGED <<bytes, lim, history, written>>

Init ==
    /\ \E log \in Logs :
           LET w == WriteSession(log) IN
           \E d \in Damages(w.bytes) :
               /\ bytes = d.bytes
               /\ written = [log |-> log, starts |-> w.starts, size |-> Len(w.bytes),
                             damage |-> d.kind, head |-> d.head, tail |-> d.tail]
    /\ lim \in Limits
    /\ offset = 0
    /\ history = NoHistory
    /\ out = [samples |-> <<>>, gps |-> <<>>, events |-> <<>>, errors |-> <<>>,
              count |-> [aux |-> 0, rejected |-> 0, resync |-> 0],
              reachedLogEnd |-> FALSE, limitExceeded |-> FALSE]
    /\ used = [records |-> 0, cells |-> 0]
    /\ status = "running"
    /\ spans = <<>>

Next ==
    \/ EndOfSession \/ TooManyRecords \/ StopAtLimit
    \/ Intra \/ Inter \/ Auxiliary \/ Gps \/ Event \/ Damaged

Spec == Init /\ [][Next]_vars

-----------------------------------------------------------------------------
(* log-integrity.mjs                                                       *)

WasTruncated == ~out.reachedLogEnd /\ offset >= End

\* splitSessionErrors: the errors that only say that the capture stopped.
CaptureTail(e) ==
    WasTruncated /\ e.code = "truncated" /\ End - e.offset <= Tolerance

\* sessionIntegrity
SessionIntegrity ==
    IF \E i \in DOMAIN out.errors : ~CaptureTail(out.errors[i]) THEN "damaged"
    ELSE IF WasTruncated THEN "truncated" ELSE "clean"

-----------------------------------------------------------------------------
(* Properties.                                                             *)

Done == status = "done" /\ ~out.limitExceeded
Times(samples) == [i \in DOMAIN samples |-> samples[i].time]

\* The main frames written from frame i on.
MainFrom(i) == SelectSeq(SubSeq(written.log, i, Len(written.log)), LAMBDA f : f.kind \in {"I", "P"})
Values(frames) == [i \in DOMAIN frames |-> frames[i].value]

\* Every byte up to the reader is in exactly one frame, gap or stop, none of them
\* empty, so that the loop ends, and the reader stays in the session.
SpansTile ==
    /\ \A i \in DOMAIN spans :
           /\ spans[i].from = (IF i = 1 THEN 0 ELSE spans[i - 1].to)
           /\ spans[i].from < spans[i].to
    /\ offset = IF spans = <<>> THEN 0 ELSE Last(spans).to
    /\ offset <= End

Gaps == {i \in DOMAIN spans : spans[i].kind = "gap"}

\* A gap skips no byte that could have begun a frame, not even one that the failed
\* frame had read as its own (resync).
GapsSkipNoFrame ==
    \A i \in Gaps : \A o \in (spans[i].from + 1)..(spans[i].to - 1) : At(o) \notin Markers

\* The loop goes over every byte once and skips none it should not, and the gaps
\* are what resyncBytes counts.
EveryByteOnce ==
    /\ SpansTile /\ GapsSkipNoFrame
    /\ out.count.resync = MapThenSumSet(LAMBDA i : spans[i].to - spans[i].from, Gaps)

\* The predictor history is that of the samples handed back, whatever failed in
\* between: "committed only by frames that pass validation".  Time moves forward
\* from a sample to the P frame after it, and an event's time is that of the
\* sample it is placed after.
HistoryIsCommitted ==
    LET n == Len(out.samples)
        t == Times(out.samples)
    IN /\ history = IF n = 0 THEN NoHistory
                    ELSE [previous |-> t[n], last |-> t[n],
                          previous2 |-> IF out.samples[n].intra THEN t[n] ELSE t[n - 1]]
       /\ \A i \in 1..n : out.samples[i].intra \/ (i > 1 /\ t[i] >= t[i - 1])
       /\ \A i \in DOMAIN out.events :
              LET e == out.events[i]
              IN e.after = IF e.sampleIndex = 0 THEN None ELSE t[e.sampleIndex]

\* Frame i of the log as written ends before the damage.
EndOf(i) == IF i < Len(written.log) THEN written.starts[i + 1] ELSE written.size
BeforeDamage(i) == EndOf(i) <= written.head

\* What an event says, as written and as read.
Said(type, state) == [type |-> type, state |-> IF type \in StateEvents THEN state ELSE None]

\* What was written before the damage is read as it was written, samples, fixes
\* and events, and a log without damage is read whole and called so.
PrefixIsFaithful ==
    Done =>
        LET sound == Cardinality({i \in DOMAIN written.log : BeforeDamage(i)})
            intact == SubSeq(written.log, 1, sound)
            mains == Values(SelectSeq(intact, LAMBDA f : f.kind \in {"I", "P"}))
            fixes == Values(SelectSeq(intact, LAMBDA f : f.kind = "G"))
            told == SelectSeq(intact, LAMBDA f : f.kind \in DOMAIN TypeOf)
            heard == [i \in DOMAIN out.events |-> Said(out.events[i].type, out.events[i].state)]
        IN /\ IsPrefix(mains, Times(out.samples))
           /\ IsPrefix(fixes, Times(out.gps))
           /\ IsPrefix([i \in DOMAIN told |-> Said(TypeOf[told[i].kind], told[i].value)], heard)
           /\ written.damage = "none" =>
                 /\ Len(mains) = Len(out.samples) /\ Len(told) = Len(heard)
                 /\ SessionIntegrity = IF Last(written.log).kind = "end" THEN "clean" ELSE "truncated"

\* I frames "double as resync anchors: decoding recovers fully at the next
\* keyframe": once the loop reads, at its own beginning, a keyframe that is after
\* all damage, every sample from there on is the one written.
RecoversAtKeyframe ==
    Done => \A i \in DOMAIN written.log :
        LET p == written.starts[i] + End - written.size
            read == \E s \in DOMAIN spans : spans[s].kind = "I" /\ spans[s].from = p
        IN (written.log[i].kind = "I" /\ written.starts[i] >= written.size - written.tail /\ read) =>
               Times(SelectSeq(out.samples, LAMBDA x : x.at >= p)) = Values(MainFrom(i))

\* A frame that was read had its last bytes from the erased medium.
ErasedBytesRead ==
    \E i \in DOMAIN spans : spans[i].kind \notin {"gap", "stop"} /\ spans[i].to > written.head

\* The capture stopped inside the float of an adjustment.
StoppedInFloat ==
    /\ spans # <<>> /\ Last(spans).kind = "stop"
    /\ LET o == Last(spans).from
       IN o + 2 < End /\ At(o) = MarkerOf["E"] /\ At(o + 1) = Adjustment /\ At(o + 2) >= 128

\* A capture that only stopped is never called damaged, wherever it stopped and
\* whether the medium ends there or goes on erased, unless a frame was completed
\* with erased bytes (cutByErasedTail, sessionIntegrity).
CutIsNotDamage ==
    (Done /\ written.damage = "cut" /\ ~ErasedBytesRead /\ ~StoppedInFloat) =>
        SessionIntegrity # "damaged"

\* "A partial prefix can therefore never report clean": a decode that stopped at
\* a limit is damaged, also when the limit is that of the errors themselves.
LimitIsNeverClean == out.limitExceeded => SessionIntegrity = "damaged"

\* Damage costs the bytes it hit: the loop reads every byte once, skips no frame
\* and recovers at the next keyframe it reads (resync).
DamageIsContained == EveryByteOnce /\ RecoversAtKeyframe

\* What a log is called is what happened to it (sessionIntegrity).
IntegrityIsHonest == CutIsNotDamage /\ LimitIsNeverClean
=============================================================================
