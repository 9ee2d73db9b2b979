------------------------------ MODULE SessionReport ------------------------------
(***************************************************************************)
(* What is made of a decoded session: the evidence decode.mjs keeps of how  *)
(* it was read and the categorical observation of                          *)
(* community-config-session-integrity.mjs on it, and the seconds of it that *)
(* any analysis may see (EvidenceSpan).  The session is whatever            *)
(* FrameDecoder made of a log that may be damaged; its header is taken to   *)
(* be whole and of a reviewed firmware, so the codes that say otherwise are *)
(* not among those below.                                                  *)
(***************************************************************************)
EXTENDS FrameDecoder, EvidenceSpan

CONSTANT Windows   \* flight windows a session may be cut to

\* The tag of an event (EVENT_TAGS).
Tag(type) == CASE type = SyncBeep -> "sync-beep"
               [] type = Adjustment -> "inflight-adjustment"
               [] type = Resume -> "logging-resume"
               [] type = FlightMode -> "flight-mode"
               [] type \in StateEvents -> "state"
               [] type = CustomData -> "custom-data"
               [] type = CustomString -> "custom-string"
               [] type = LogEnd -> "log-end"

\* freezeEventSummary
EventSummary ==
    LET tags == [i \in DOMAIN out.events |-> Tag(out.events[i].type)]
    IN [count |-> Len(tags), tags |-> ToSet(tags),
        adjustmentObserved |-> "inflight-adjustment" \in ToSet(tags),
        loggingResumeObserved |-> "logging-resume" \in ToSet(tags),
        logEndCount |-> Cardinality({i \in DOMAIN tags : tags[i] = "log-end"}),
        finalTag |-> IF tags = <<>> THEN "none" ELSE Last(tags)]

\* eventObservation: a session that does not end with its one log-end event has
\* none.
EventsObserved ==
    /\ EventSummary.count > 0
    /\ EventSummary.logEndCount = 1 /\ EventSummary.finalTag = "log-end"

\* What inspectCommunityConfigSessionIntegrity finds wrong with the body.
FailureCodes ==
    {c \in {"SESSION_BODY_LIMIT_EXCEEDED", "SESSION_BODY_DAMAGED", "SESSION_BODY_TRUNCATED",
            "SESSION_BODY_INCOMPLETE"} :
        \/ c = "SESSION_BODY_LIMIT_EXCEEDED" /\ out.limitExceeded
        \/ c = "SESSION_BODY_DAMAGED" /\ \/ SessionIntegrity = "damaged"
                                         \/ out.count.rejected # 0
                                         \/ out.count.resync # 0
        \/ c = "SESSION_BODY_TRUNCATED" /\ SessionIntegrity = "truncated"
        \/ c = "SESSION_BODY_INCOMPLETE" /\ ~(out.reachedLogEnd /\ offset = End)}

\* integrityReport: everything it does not say is unavailable.
Unavailable == [sessionBody |-> "unavailable", continuity |-> "unavailable",
                configChangeEvents |-> "unavailable", codes |-> {}]

\* inspectCommunityConfigSessionIntegrity, of a session that is decoded.
Observation ==
    IF FailureCodes # {} THEN [Unavailable EXCEPT !.codes = FailureCodes]
    ELSE IF ~EventsObserved THEN [Unavailable EXCEPT !.codes = {"SESSION_EVIDENCE_INVALID"}]
    ELSE [sessionBody |-> "clean",
          continuity |-> IF EventSummary.loggingResumeObserved THEN "gapped" ELSE "continuous",
          configChangeEvents |-> IF EventSummary.adjustmentObserved THEN "observed"
                                 ELSE IF EventSummary.loggingResumeObserved THEN "unavailable"
                                 ELSE "not-observed",
          codes |-> IF EventSummary.loggingResumeObserved
                    THEN {"CONFIG_CHANGE_EVENT_COVERAGE_GAP"} ELSE {}]

\* spannedSession
SpannedSession(window) ==
    LET times == Times(out.samples)
        span == ResolveEvidenceSpan(times, out.events, window)
    IN [span |-> span, samples |-> SliceSessionToSpan(times, span)]

-----------------------------------------------------------------------------
(* Properties.                                                             *)

Written(kind) == \E i \in DOMAIN written.log : written.log[i].kind = kind

\* Frame i of the log as written is past the damage, and the loop began a frame
\* there.
BegunPastDamage(i) ==
    /\ written.starts[i] >= written.size - written.tail
    /\ \E s \in DOMAIN spans : spans[s].from = written.starts[i] + End - written.size

\* A frame of the kind that the damage neither hit nor hid.
Undisturbed(kind) ==
    \E i \in DOMAIN written.log :
        written.log[i].kind = kind /\ (BeforeDamage(i) \/ BegunPastDamage(i))

\* The observation a log deserves, if it is whole.
Deserved ==
    [sessionBody |-> "clean",
     continuity |-> IF Written("resume") THEN "gapped" ELSE "continuous",
     configChangeEvents |-> IF Written("adjust") THEN "observed"
                            ELSE IF Written("resume") THEN "unavailable" ELSE "not-observed",
     codes |-> IF Written("resume") THEN {"CONFIG_CHANGE_EVENT_COVERAGE_GAP"} ELSE {}]

\* A body is observed clean only when every byte of it was read as part of a frame
\* and a log-end event closes it: a capture that was cut never is.  Continuity and
\* "not observed" speak of the events read: they never contradict one that the
\* damage neither hit nor hid.  (The format has no checksum.  A changed byte can
\* turn an adjustment into another event, and a lost frame leaves no trace: then
\* the body is clean and the adjustment not observed.)  A log without damage and
\* with an end gets the observation it deserves, whatever it tells
\* (inspectCommunityConfigSessionIntegrity).
CleanIsWhole ==
    status = "done" =>
        LET o == Observation IN
        /\ o.sessionBody = "clean" =>
              /\ written.damage # "cut"
              /\ \A i \in DOMAIN spans : spans[i].kind \notin {"gap", "stop"}
              /\ offset = End /\ IsSuffix(FrameBytes([kind |-> "end", value |-> 0], history), bytes)
        /\ o.continuity = "continuous" => ~Undisturbed("resume")
        /\ o.configChangeEvents = "not-observed" => ~Undisturbed("adjust") /\ ~Undisturbed("resume")
        /\ (written.damage = "none" /\ Written("end") /\ Done) => o = Deserved

\* What a report says of how a session was read is so (sessionIntegrity,
\* inspectCommunityConfigSessionIntegrity).
ReportIsHonest == IntegrityIsHonest /\ CleanIsWhole

\* What the governor last said before sample i was written, and since when.
LastTurn(i) ==
    LET said == {j \in DOMAIN out.events : out.events[j].type = GovernorState /\ out.events[j].sampleIndex < i}
        now == Max(said)
        run == {j \in said : \A k \in said : k \in j..now => out.events[k].state = out.events[now].state}
    IN IF said = {} THEN [state |-> None, since |-> 0]
       ELSE [state |-> out.events[now].state, since |-> EventTime(out.events[Min(run)], Times(out.samples))]

FlownSettled(i) ==
    /\ LastTurn(i).state = Active
    /\ LastTurn(i).since + Settle <= out.samples[i].time

\* The seconds an analysis sees of a window are those in which the governor, by
\* every event that was read, had been ACTIVE for the settling time, and the
\* stretches between such seconds that the span itself reports.  Nothing settled
\* is cut away at its ends except a stretch too short to measure.  The samples
\* are in order of time, as one flight writes them (resolveEvidenceSpan).
SpanIsFlown ==
    LET times == Times(out.samples)
        n == Len(times)
    IN (status = "done" /\ \A i \in 2..n : times[i - 1] < times[i]) =>
        \A w \in Windows :
            LET cut == SpannedSession(w)
                Inside(i) == \E r \in ToSet(cut.span.inactiveRangesInside) : times[i] \in r.start..r.end
                In(i) == w = NoWindow \/ times[i] \in w.start..w.end
                Lone(i) == \A j \in (1..n) \ {i} :
                               ~(In(j) /\ FlownSettled(j) /\ LastTurn(j) = LastTurn(i))
            IN cut.span.basis = "GOVERNOR_ACTIVE" =>
                  /\ \A i \in cut.samples : In(i) /\ (FlownSettled(i) \/ Inside(i))
                  /\ \A i \in (1..n) \ cut.samples : In(i) => ~FlownSettled(i) \/ Lone(i)

=============================================================================
