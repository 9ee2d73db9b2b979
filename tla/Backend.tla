------------------------------- MODULE Backend -------------------------------
(* The contribution backend (backend/firebase/functions/src): deletion of an   *)
(* aircraft as a Firestore transaction of three steps, called by clients whose *)
(* calls and answers are lost, delivered twice and repeated.  Submission is    *)
(* closed and writes nothing; the public counts are only read.                 *)
EXTENDS Integers, FiniteSetsExt

CONSTANTS
    Aircraft, Capabilities, Ids,
    Clients, AircraftOf, CapabilityOf,   \* who may ask, for what, with what
    Seeds,             \* the databases to begin with
    MaxPerAircraft,    \* MAXIMUM_CONTRIBUTIONS_PER_AIRCRAFT
    MaxTroubles,       \* bound: calls lost, killed or delivered twice
    None, Odd          \* no document, and one of an unknown schema

VARIABLES
    db,        \* the documents
    used,      \* clients whose App Check token was consumed
    call,      \* each delivery of a client's newest call
    asked, told, troubles
vars == <<db, used, call, asked, told, troubles>>

\* A call may be delivered twice.
Deliveries == Clients \X {1, 2}
A(d) == AircraftOf[d[1]]
C(d) == CapabilityOf[d[1]]

Counters == [aircraft : Nat, flights : Nat, eligible : Nat]
AircraftDocs == [capability : Capabilities, contributions : Nat, validated : Nat, eligible : Nat]
Databases ==
    [aircraft : [Aircraft -> AircraftDocs \cup {None, Odd}],
     contributions : [Aircraft -> SUBSET Ids],
     claims : SUBSET Ids,
     tombstones : [Aircraft -> Capabilities \cup {None, Odd}],
     stats : Counters \cup {None, Odd}]

\* Ids are digests of what they name: no two aircraft share one, nothing is stored
\* under an aircraft that is not, and a claim is that of a contribution.
WellFounded(b) ==
    /\ b.claims \subseteq UNION {b.contributions[x] : x \in Aircraft}
    /\ \A x, y \in Aircraft : x # y => b.contributions[x] \cap b.contributions[y] = {}
    /\ \A x \in Aircraft : b.aircraft[x] = None => b.contributions[x] = {}

ASSUME BackendConstants ==
    /\ AircraftOf \in [Clients -> Aircraft] /\ CapabilityOf \in [Clients -> Capabilities]
    /\ Seeds \subseteq Databases /\ \A b \in Seeds : WellFounded(b)
    /\ None \notin AircraftDocs /\ None \notin Capabilities /\ None \notin Counters
    /\ Odd \notin AircraftDocs /\ Odd \notin Capabilities /\ Odd \notin Counters
    /\ None # Odd
    /\ MaxPerAircraft \in Nat /\ MaxTroubles \in Nat

----------------------------------------------------------------------------
(* The transaction. *)

\* What the aircraft and its tombstone alone decide; "" to go on.
\* Faulty variant: an aircraft that is gone answers nobody.
FirstVerdictForgets(doc, tombstone, capability) ==
    IF doc = None THEN "DELETION_NOT_AUTHORIZED"
    ELSE IF tombstone # None \/ doc = Odd THEN "BACKEND_STATE_INVALID"
    ELSE IF doc.capability # capability THEN "DELETION_NOT_AUTHORIZED" ELSE ""
FirstVerdict(doc, tombstone, capability) ==
    IF doc = None
    THEN IF tombstone = Odd THEN "BACKEND_STATE_INVALID"
         ELSE IF tombstone = capability THEN "ALREADY_DELETED" ELSE "DELETION_NOT_AUTHORIZED"
    ELSE IF tombstone # None \/ doc = Odd THEN "BACKEND_STATE_INVALID"
    ELSE IF doc.capability # capability THEN "DELETION_NOT_AUTHORIZED" ELSE ""

\* statsFromSnapshot: without the document nothing was counted.
StatsOf(stats) ==
    IF stats = None THEN [aircraft |-> 0, flights |-> 0, eligible |-> 0] ELSE stats
StatsHold(s) == s.aircraft <= s.flights /\ s.eligible <= s.flights
NextStats(s, doc) ==
    [aircraft |-> s.aircraft - (IF doc.validated > 0 THEN 1 ELSE 0),
     flights  |-> s.flights - doc.validated,
     eligible |-> s.eligible - doc.eligible]

\* Whether the records and the counts can be what they say.
CanBe(doc, contributions, stats) ==
    /\ Cardinality(contributions) <= MaxPerAircraft
    /\ doc.contributions = Cardinality(contributions)
    /\ stats # Odd /\ StatsHold(StatsOf(stats))
    /\ doc.validated <= Cardinality(contributions) /\ doc.eligible <= doc.validated
    /\ LET next == NextStats(StatsOf(stats), doc)
       IN  /\ next.aircraft >= 0 /\ next.flights >= 0 /\ next.eligible >= 0
           /\ StatsHold(next)

First(a) == [doc |-> db.aircraft[a], tombstone |-> db.tombstones[a]]
Second(a) == [contributions |-> db.contributions[a], stats |-> db.stats]

\* How far a delivery is, what its transaction read of the aircraft and then of
\* the contributions and the counts, and its answer.
At(p) == [phase |-> p, first |-> None, second |-> None, answer |-> ""]
Phase(d) == call[d].phase
Goes(d, c) == call' = [call EXCEPT ![d] = c]
Answers(d, code) == Goes(d, [At("answered") EXCEPT !.answer = code])

\* Firestore (external) commits nothing that was decided on documents which have
\* changed since: the callback of runTransaction is run again.
\* Faulty variant: the counts are read beside the transaction.
OverwrittenButStats(d) ==
    \/ call[d].first # First(A(d))
    \/ Phase(d) = "committing" /\ call[d].second.contributions # db.contributions[A(d)]
Overwritten(d) ==
    \/ call[d].first # First(A(d))
    \/ Phase(d) = "committing" /\ call[d].second # Second(A(d))

\* requireAppCheck: the token of a call is consumed by its first delivery.
Admit(d) ==
    /\ Phase(d) = "sent"
    /\ \/ d[1] \in used /\ Answers(d, "APP_CHECK_REPLAYED") /\ UNCHANGED used
       \/ d[1] \notin used /\ used' = used \cup {d[1]} /\ Goes(d, At("reading"))
    /\ UNCHANGED <<db, asked, told, troubles>>

ReadAircraft(d) ==
    /\ Phase(d) = "reading"
    /\ LET verdict == FirstVerdict(db.aircraft[A(d)], db.tombstones[A(d)], C(d))
       IN  \/ verdict = "" /\ Goes(d, [At("counting") EXCEPT !.first = First(A(d))])
           \/ verdict # "" /\ Answers(d, verdict)
    /\ UNCHANGED <<db, used, asked, told, troubles>>

ReadContributions(d) ==
    /\ Phase(d) = "counting" /\ ~Overwritten(d)
    /\ LET sound == CanBe(call[d].first.doc, db.contributions[A(d)], db.stats)
       IN  \/ sound /\ Goes(d, [At("committing") EXCEPT !.first = call[d].first,
                                                          !.second = Second(A(d))])
           \/ ~sound /\ Answers(d, "BACKEND_STATE_INVALID")
    /\ UNCHANGED <<db, used, asked, told, troubles>>

\* Every write of the transaction, and its answer.
Commit(d) ==
    /\ Phase(d) = "committing" /\ ~Overwritten(d)
    /\ LET a == A(d)
           read == call[d].second
       IN  db' = [aircraft |-> [db.aircraft EXCEPT ![a] = None],
                  contributions |-> [db.contributions EXCEPT ![a] = @ \ read.contributions],
                  claims |-> db.claims \ read.contributions,
                  tombstones |-> [db.tombstones EXCEPT ![a] = C(d)],
                  stats |-> NextStats(StatsOf(read.stats), call[d].first.doc)]
    /\ Answers(d, "DELETED")
    /\ UNCHANGED <<used, asked, told, troubles>>

RunAgain(d) ==
    /\ Phase(d) \in {"counting", "committing"} /\ Overwritten(d)
    /\ Goes(d, At("reading"))
    /\ UNCHANGED <<db, used, asked, told, troubles>>

----------------------------------------------------------------------------
(* The clients and the network (external: no client ships in this build).     *)

Ended(d) == Phase(d) \in {"none", "over"}

\* A call with a token of its own, by a client that was not told yet; what it
\* sent before has ended.
Ask(p) ==
    /\ p \notin told /\ Ended(<<p, 1>>) /\ Ended(<<p, 2>>)
    /\ call' = [call EXCEPT ![<<p, 1>>] = At("sent"), ![<<p, 2>>] = At("none")]
    /\ used' = used \ {p} /\ asked' = asked \cup {p}
    /\ UNCHANGED <<db, told, troubles>>
Retry(p) == p \in asked /\ Ask(p)

Trouble == troubles < MaxTroubles /\ troubles' = troubles + 1
Duplicate(p) ==
    /\ Trouble /\ Phase(<<p, 1>>) # "none" /\ Phase(<<p, 2>>) = "none"
    /\ Goes(<<p, 2>>, At("sent"))
    /\ UNCHANGED <<db, used, asked, told>>
\* A call or an answer is lost, or the function is killed at its time limit.
Lose(d) ==
    /\ Trouble /\ ~Ended(d) /\ Goes(d, At("over"))
    /\ UNCHANGED <<db, used, asked, told>>

Erased == {"DELETED", "ALREADY_DELETED"}
Hear(d) ==
    /\ Phase(d) = "answered" /\ Goes(d, At("over"))
    /\ told' = IF call[d].answer \in Erased THEN told \cup {d[1]} ELSE told
    /\ UNCHANGED <<db, used, asked, troubles>>

Serve(d) ==
    Admit(d) \/ ReadAircraft(d) \/ ReadContributions(d) \/ Commit(d) \/ RunAgain(d) \/ Hear(d)

Init ==
    /\ db \in Seeds
    /\ used = {} /\ asked = {} /\ told = {} /\ troubles = 0
    /\ call = [d \in Deliveries |-> At("none")]

Next ==
    \/ \E p \in Clients : Ask(p) \/ Duplicate(p)
    \/ \E d \in Deliveries : Serve(d) \/ Lose(d)

Spec == Init /\ [][Next]_vars

\* A call that arrived is served, and a client asks until it is told.
FairSpec ==
    /\ Spec
    /\ \A d \in Deliveries : WF_vars(Serve(d))
    /\ \A p \in Clients : WF_vars(Retry(p))

----------------------------------------------------------------------------

\* The contributions of the other aircraft; a claim that is of none of them is held
\* against this one, so that a claim left behind by an erasure shows.
OfOthers(a) == UNION {db.contributions[x] : x \in Aircraft \ {a}}
Library == [a \in Aircraft |-> [aircraft |-> db.aircraft[a],
                                contributions |-> db.contributions[a],
                                claims |-> db.claims \ OfOthers(a)]]
Deletion ==
    INSTANCE Erasure WITH library <- Library, stats <- StatsOf(db.stats),
                          erasedBy <- db.tombstones
\* Records and counts go together, once, at the request of who holds the
\* capability, and only he is told: whatever is lost, repeated or interleaved
\* with the deletion of another aircraft (deleteCommunityAircraft).
ImplementsErasure == Deletion!Spec

\* What was really counted, and that the documents say so.
Stored(b) == {a \in Aircraft : b.aircraft[a] # None}
Sound(b) ==
    /\ \A a \in Stored(b) :
          LET doc == b.aircraft[a] IN
          /\ b.tombstones[a] = None /\ doc # Odd
          /\ doc.contributions = Cardinality(b.contributions[a])
          /\ doc.contributions <= MaxPerAircraft
          /\ doc.validated <= doc.contributions /\ doc.eligible <= doc.validated
    /\ b.stats # Odd
    /\ StatsOf(b.stats) =
          [aircraft |-> Cardinality({a \in Stored(b) : b.aircraft[a].validated > 0}),
           flights  |-> MapThenSumSet(LAMBDA a : b.aircraft[a].validated, Stored(b)),
           eligible |-> MapThenSumSet(LAMBDA a : b.aircraft[a].eligible, Stored(b))]

Holds(p) ==
    LET a == AircraftOf[p] IN
    \/ db.tombstones[a] = CapabilityOf[p]
    \/ db.aircraft[a] \notin {None, Odd} /\ db.aircraft[a].capability = CapabilityOf[p]
\* Who holds the capability and keeps asking is told in the end that the records
\* are gone, although answers are lost and the tokens of repeated calls are
\* refused; no check of the counts stands in his way while they are right.
OwnerIsHeard ==
    \A p \in Clients : (p \in asked /\ Sound(db) /\ Holds(p)) ~> p \in told
=============================================================================
