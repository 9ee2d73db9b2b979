---------------------------- MODULE BackendProofs ----------------------------
(* Deletion as Backend does it is the erasure that Erasure promises, for any   *)
(* aircraft, clients, capabilities and databases to begin with.                *)
EXTENDS Backend, TLAPS

Gone(d) ==
    /\ db.aircraft[A(d)] = None /\ db.contributions[A(d)] = {}
    /\ db.tombstones[A(d)] = C(d)

\* What a delivery has decided still holds of the documents it read, and what it
\* answers holds of those that are there now.
CallInv(d) ==
    LET c == call[d] IN
    /\ c.phase # "none" => d[1] \in asked
    /\ c.phase \in {"counting", "committing"} =>
          FirstVerdict(c.first.doc, c.first.tombstone, C(d)) = ""
    /\ c.phase = "committing" => CanBe(c.first.doc, c.second.contributions, c.second.stats)
    /\ c.phase = "answered" /\ c.answer \in Erased => Gone(d)

IInv ==
    /\ db \in Databases /\ WellFounded(db)
    /\ call = [d \in Deliveries |-> call[d]]
    /\ \A d \in Deliveries : CallInv(d)

----------------------------------------------------------------------------

LEMMA AtPhase == ASSUME NEW p PROVE At(p).phase = p
BY DEF At
LEMMA AtAnswer ==
    ASSUME NEW code
    PROVE  /\ [At("answered") EXCEPT !.answer = code].phase = "answered"
           /\ [At("answered") EXCEPT !.answer = code].answer = code
BY DEF At
LEMMA AtCounting ==
    ASSUME NEW x
    PROVE  /\ [At("counting") EXCEPT !.first = x].phase = "counting"
           /\ [At("counting") EXCEPT !.first = x].first = x
BY DEF At
LEMMA AtCommitting ==
    ASSUME NEW x, NEW y
    PROVE  /\ [At("committing") EXCEPT !.first = x, !.second = y].phase = "committing"
           /\ [At("committing") EXCEPT !.first = x, !.second = y].first = x
           /\ [At("committing") EXCEPT !.first = x, !.second = y].second = y
BY DEF At

\* Every client asks for one aircraft, with one capability.
LEMMA DeliveryTypes ==
    ASSUME NEW d \in Deliveries
    PROVE  d[1] \in Clients /\ A(d) \in Aircraft /\ C(d) \in Capabilities
BY BackendConstants DEF Deliveries, A, C

\* The documents a transaction goes on with.
LEMMA Going ==
    ASSUME NEW doc, NEW tombstone, NEW capability,
           FirstVerdict(doc, tombstone, capability) = ""
    PROVE  doc # None /\ doc # Odd /\ tombstone = None /\ doc.capability = capability
BY DEF FirstVerdict

\* The only verdict on the aircraft that says it is erased.
LEMMA SaysErased ==
    ASSUME NEW doc, NEW tombstone, NEW capability,
           FirstVerdict(doc, tombstone, capability) \in Erased
    PROVE  doc = None /\ tombstone = capability
BY DEF FirstVerdict, Erased

\* The counts that are left are counts: the checks saw to it that none is
\* negative.
LEMMA CountsRemain ==
    ASSUME NEW doc \in AircraftDocs, NEW stats \in Counters \cup {None, Odd},
           NEW contributions, CanBe(doc, contributions, stats)
    PROVE  NextStats(StatsOf(stats), doc) \in Counters
<1> DEFINE s == StatsOf(stats)
<1>1. s \in Counters
    BY DEF CanBe, StatsOf, Counters
<1>2. /\ NextStats(s, doc).aircraft >= 0 /\ NextStats(s, doc).flights >= 0
      /\ NextStats(s, doc).eligible >= 0
    BY DEF CanBe
<1>3. /\ doc.validated \in Nat /\ doc.eligible \in Nat
      /\ s.aircraft \in Nat /\ s.flights \in Nat /\ s.eligible \in Nat
    BY <1>1 DEF AircraftDocs, Counters
<1> QED
    BY <1>2, <1>3 DEF NextStats, Counters

\* What a commit does to the documents, read off the ones it finds.
LEMMA CommitWrites ==
    ASSUME IInv, NEW d \in Deliveries, Commit(d)
    PROVE  /\ db.aircraft[A(d)] \in AircraftDocs /\ db.aircraft[A(d)].capability = C(d)
           /\ db.tombstones[A(d)] = None
           /\ db'.aircraft = [db.aircraft EXCEPT ![A(d)] = None]
           /\ db'.contributions = [db.contributions EXCEPT ![A(d)] = {}]
           /\ db'.claims = db.claims \ db.contributions[A(d)]
           /\ db'.tombstones = [db.tombstones EXCEPT ![A(d)] = C(d)]
           /\ db'.stats = NextStats(StatsOf(db.stats), db.aircraft[A(d)])
           /\ db'.stats \in Counters
           /\ db' = [aircraft |-> db'.aircraft, contributions |-> db'.contributions,
                     claims |-> db'.claims, tombstones |-> db'.tombstones, stats |-> db'.stats]
           /\ d[1] \in asked
<1> DEFINE a == A(d)
           c == call[d]
<1>1. a \in Aircraft /\ C(d) \in Capabilities
    BY DeliveryTypes
<1>2. c.phase = "committing" /\ c.first = First(a) /\ c.second = Second(a)
    BY DEF Commit, Overwritten, Phase
<1>3. CallInv(d)
    BY DEF IInv
<1>4. /\ c.first.doc = db.aircraft[a] /\ c.first.tombstone = db.tombstones[a]
      /\ c.second.contributions = db.contributions[a] /\ c.second.stats = db.stats
    BY <1>2 DEF First, Second
<1>5. FirstVerdict(db.aircraft[a], db.tombstones[a], C(d)) = "" /\ d[1] \in asked
    BY <1>2, <1>3, <1>4 DEF CallInv
<1>6. CanBe(db.aircraft[a], db.contributions[a], db.stats)
    BY <1>2, <1>3, <1>4 DEF CallInv
<1>7. /\ db.aircraft[a] # None /\ db.aircraft[a] # Odd /\ db.tombstones[a] = None
      /\ db.aircraft[a].capability = C(d)
    BY <1>5, Going
<1>8. /\ db.aircraft[a] \in AircraftDocs /\ db.stats \in Counters \cup {None, Odd}
      /\ db.contributions \in [Aircraft -> SUBSET Ids]
    BY <1>1, <1>7 DEF IInv, Databases
<1>9. NextStats(StatsOf(db.stats), db.aircraft[a]) \in Counters
    BY <1>6, <1>8, CountsRemain
<1>10. db' = [aircraft |-> [db.aircraft EXCEPT ![a] = None],
              contributions |-> [db.contributions EXCEPT ![a] = @ \ db.contributions[a]],
              claims |-> db.claims \ db.contributions[a],
              tombstones |-> [db.tombstones EXCEPT ![a] = C(d)],
              stats |-> NextStats(StatsOf(db.stats), db.aircraft[a])]
    BY <1>4 DEF Commit
<1>11. [db.contributions EXCEPT ![a] = @ \ db.contributions[a]]
           = [db.contributions EXCEPT ![a] = {}]
    BY <1>8
<1>12. /\ db'.aircraft = [db.aircraft EXCEPT ![a] = None]
       /\ db'.contributions = [db.contributions EXCEPT ![a] = {}]
       /\ db'.claims = db.claims \ db.contributions[a]
       /\ db'.tombstones = [db.tombstones EXCEPT ![a] = C(d)]
       /\ db'.stats = NextStats(StatsOf(db.stats), db.aircraft[a])
    BY <1>10, <1>11
<1>13. db' = [aircraft |-> db'.aircraft, contributions |-> db'.contributions,
              claims |-> db'.claims, tombstones |-> db'.tombstones, stats |-> db'.stats]
    BY <1>10
<1> QED
    BY <1>5, <1>7, <1>8, <1>9, <1>12, <1>13

----------------------------------------------------------------------------

LEMMA InitInv == Init => IInv
<1> SUFFICES ASSUME Init PROVE IInv
    OBVIOUS
<1>1. db \in Databases /\ WellFounded(db)
    BY BackendConstants DEF Init
<1>2. call = [d \in Deliveries |-> call[d]] /\ \A d \in Deliveries : call[d] = At("none")
    BY DEF Init
<1>3. At("none").phase = "none"
    BY AtPhase
<1>4. \A d \in Deliveries : call[d].phase = "none"
    BY <1>2, <1>3
<1>5. \A d \in Deliveries : CallInv(d)
    BY <1>4 DEF CallInv
<1> QED
    BY <1>1, <1>2, <1>5 DEF IInv

\* A step of one delivery that leaves the documents and the askers alone only has
\* to keep what is said of that delivery.
LEMMA OneMoves ==
    ASSUME IInv, NEW d \in Deliveries, NEW c, Goes(d, c), UNCHANGED <<db, asked>>, CallInv(d)'
    PROVE  IInv'
<1>1. call' = [e \in Deliveries |-> IF e = d THEN c ELSE call[e]]
    BY DEF Goes, IInv
<1>2. \A e \in Deliveries : e # d => call'[e] = call[e]
    BY <1>1
<1>3. ASSUME NEW e \in Deliveries, e # d PROVE CallInv(e)'
    <2>1. CallInv(e) /\ call'[e] = call[e]
        BY <1>2, <1>3 DEF IInv
    <2> QED
        BY <2>1 DEF CallInv, Gone
<1>4. \A e \in Deliveries : CallInv(e)'
    BY <1>3
<1>5. call' = [e \in Deliveries |-> call'[e]]
    BY <1>1
<1> QED
    BY <1>4, <1>5 DEF IInv, WellFounded

LEMMA StepInv == IInv /\ [Next]_vars => IInv'
<1> SUFFICES ASSUME IInv, [Next]_vars PROVE IInv'
    OBVIOUS
<1>1. ASSUME NEW p \in Clients, Ask(p) PROVE IInv'
    <2>1. <<p, 1>> \in Deliveries /\ <<p, 2>> \in Deliveries
        BY DEF Deliveries
    <2>2. call' = [e \in Deliveries |-> IF e = <<p, 1>> THEN At("sent")
                                        ELSE IF e = <<p, 2>> THEN At("none") ELSE call[e]]
        BY <1>1, <2>1 DEF Ask, IInv
    <2>3. UNCHANGED db /\ asked' = asked \cup {p}
        BY <1>1 DEF Ask
    <2>4. ASSUME NEW e \in Deliveries PROVE CallInv(e)'
        <3>1. CASE e = <<p, 1>>
            <4>1. call'[e] = At("sent") /\ e[1] \in asked'
                BY <2>2, <2>3, <3>1
            <4>2. call'[e].phase = "sent"
                BY <4>1, AtPhase
            <4> QED
                BY <4>1, <4>2 DEF CallInv
        <3>2. CASE e = <<p, 2>>
            <4>1. call'[e] = At("none")
                BY <2>2, <3>2
            <4>2. call'[e].phase = "none"
                BY <4>1, AtPhase
            <4> QED
                BY <4>2 DEF CallInv
        <3>3. CASE e # <<p, 1>> /\ e # <<p, 2>>
            <4>1. CallInv(e) /\ call'[e] = call[e]
                BY <2>2, <3>3 DEF IInv
            <4> QED
                BY <4>1, <2>3 DEF CallInv, Gone
        <3> QED
            BY <3>1, <3>2, <3>3
    <2>5. call' = [e \in Deliveries |-> call'[e]]
        BY <2>2
    <2> QED
        BY <2>3, <2>4, <2>5 DEF IInv, WellFounded
<1>2. ASSUME NEW p \in Clients, Duplicate(p) PROVE IInv'
    <2> DEFINE d == <<p, 2>>
    <2>1. d \in Deliveries /\ <<p, 1>> \in Deliveries /\ d[1] = p
        BY DEF Deliveries
    <2>2. p \in asked
        BY <1>2, <2>1 DEF Duplicate, Phase, IInv, CallInv
    <2>3. Goes(d, At("sent")) /\ UNCHANGED <<db, asked>>
        BY <1>2 DEF Duplicate
    <2>4. call'[d] = At("sent")
        BY <2>1, <2>3 DEF Goes, IInv
    <2>5. call'[d].phase = "sent" /\ d[1] \in asked'
        BY <2>1, <2>2, <2>3, <2>4, AtPhase
    <2>6. CallInv(d)'
        BY <2>5 DEF CallInv
    <2> QED
        BY <2>1, <2>3, <2>6, OneMoves
<1>3. ASSUME NEW d \in Deliveries, Lose(d) \/ Hear(d) PROVE IInv'
    <2>1. Goes(d, At("over")) /\ UNCHANGED <<db, asked>>
        BY <1>3 DEF Lose, Hear
    <2>2. call[d].phase # "none" /\ CallInv(d)
        BY <1>3 DEF Lose, Hear, Ended, Phase, IInv
    <2>3. call'[d] = At("over")
        BY <2>1 DEF Goes, IInv
    <2>4. CallInv(d)'
        BY <2>1, <2>2, <2>3, AtPhase DEF CallInv
    <2> QED
        BY <2>1, <2>4, OneMoves
<1>4. ASSUME NEW d \in Deliveries, Admit(d) PROVE IInv'
    <2>1. UNCHANGED <<db, asked>> /\ call[d].phase = "sent" /\ CallInv(d)
        BY <1>4 DEF Admit, Phase, IInv
    <2>2. d[1] \in asked
        BY <2>1 DEF CallInv
    <2>3. CASE Answers(d, "APP_CHECK_REPLAYED")
        <3>1. call'[d] = [At("answered") EXCEPT !.answer = "APP_CHECK_REPLAYED"]
            BY <2>3 DEF Answers, Goes, IInv
        <3>2. CallInv(d)'
            BY <2>1, <2>2, <3>1, AtAnswer DEF CallInv, Erased
        <3> QED
            BY <2>1, <2>3, <3>2, OneMoves DEF Answers
    <2>4. CASE Goes(d, At("reading"))
        <3>1. call'[d] = At("reading")
            BY <2>4 DEF Goes, IInv
        <3>2. CallInv(d)'
            BY <2>1, <2>2, <3>1, AtPhase DEF CallInv
        <3> QED
            BY <2>1, <2>4, <3>2, OneMoves
    <2> QED
        BY <1>4, <2>3, <2>4 DEF Admit
<1>5. ASSUME NEW d \in Deliveries, ReadAircraft(d) PROVE IInv'
    <2> DEFINE a == A(d)
               verdict == FirstVerdict(db.aircraft[a], db.tombstones[a], C(d))
    <2>1. UNCHANGED <<db, asked>> /\ call[d].phase = "reading" /\ CallInv(d)
        BY <1>5 DEF ReadAircraft, Phase, IInv
    <2>2. d[1] \in asked /\ a \in Aircraft
        BY <2>1, DeliveryTypes DEF CallInv
    <2>3. CASE verdict = "" /\ Goes(d, [At("counting") EXCEPT !.first = First(a)])
        <3>1. call'[d] = [At("counting") EXCEPT !.first = First(a)]
            BY <2>3 DEF Goes, IInv
        <3>2. /\ call'[d].phase = "counting" /\ call'[d].first.doc = db.aircraft[a]
              /\ call'[d].first.tombstone = db.tombstones[a]
            BY <3>1, AtCounting DEF First
        <3>3. CallInv(d)'
            BY <2>1, <2>2, <2>3, <3>2 DEF CallInv
        <3> QED
            BY <2>1, <2>3, <3>3, OneMoves
    <2>4. CASE verdict # "" /\ Answers(d, verdict)
        <3>1. call'[d] = [At("answered") EXCEPT !.answer = verdict]
            BY <2>4 DEF Answers, Goes, IInv
        <3>2. call'[d].phase = "answered" /\ call'[d].answer = verdict
            BY <3>1, AtAnswer
        <3>3. verdict \in Erased => Gone(d)
            BY <2>2, SaysErased DEF Gone, IInv, WellFounded
        <3>4. CallInv(d)'
            BY <2>1, <2>2, <3>2, <3>3 DEF CallInv, Gone
        <3> QED
            BY <2>1, <2>4, <3>4, OneMoves DEF Answers
    <2> QED
        BY <1>5, <2>3, <2>4 DEF ReadAircraft
<1>6. ASSUME NEW d \in Deliveries, ReadContributions(d) PROVE IInv'
    <2> DEFINE a == A(d)
               sound == CanBe(call[d].first.doc, db.contributions[a], db.stats)
    <2>1. UNCHANGED <<db, asked>> /\ call[d].phase = "counting" /\ CallInv(d)
        BY <1>6 DEF ReadContributions, Phase, IInv
    <2>2. /\ d[1] \in asked
          /\ FirstVerdict(call[d].first.doc, call[d].first.tombstone, C(d)) = ""
        BY <2>1 DEF CallInv
    <2>3. CASE sound /\ Goes(d, [At("committing") EXCEPT !.first = call[d].first,
                                                         !.second = Second(a)])
        <3>1. call'[d] = [At("committing") EXCEPT !.first = call[d].first, !.second = Second(a)]
            BY <2>3 DEF Goes, IInv
        <3>2. /\ call'[d].phase = "committing" /\ call'[d].first = call[d].first
              /\ call'[d].second.contributions = db.contributions[a]
              /\ call'[d].second.stats = db.stats
            BY <3>1, AtCommitting DEF Second
        <3>3. CallInv(d)'
            BY <2>1, <2>2, <2>3, <3>2 DEF CallInv
        <3> QED
            BY <2>1, <2>3, <3>3, OneMoves
    <2>4. CASE Answers(d, "BACKEND_STATE_INVALID")
        <3>1. call'[d] = [At("answered") EXCEPT !.answer = "BACKEND_STATE_INVALID"]
            BY <2>4 DEF Answers, Goes, IInv
        <3>2. CallInv(d)'
            BY <2>1, <2>2, <3>1, AtAnswer DEF CallInv, Erased
        <3> QED
            BY <2>1, <2>4, <3>2, OneMoves DEF Answers
    <2> QED
        BY <1>6, <2>3, <2>4 DEF ReadContributions
<1>7. ASSUME NEW d \in Deliveries, RunAgain(d) PROVE IInv'
    <2>1. Goes(d, At("reading")) /\ UNCHANGED <<db, asked>> /\ call[d].phase # "none"
        BY <1>7 DEF RunAgain, Phase
    <2>2. d[1] \in asked
        BY <2>1 DEF IInv, CallInv
    <2>3. call'[d] = At("reading")
        BY <2>1 DEF Goes, IInv
    <2>4. CallInv(d)'
        BY <2>1, <2>2, <2>3, AtPhase DEF CallInv
    <2> QED
        BY <2>1, <2>4, OneMoves
<1>8. ASSUME NEW d \in Deliveries, Commit(d) PROVE IInv'
    <2> DEFINE a == A(d)
    <2>1. a \in Aircraft /\ C(d) \in Capabilities
        BY DeliveryTypes
    <2>2. /\ db.aircraft[a] \in AircraftDocs /\ db.tombstones[a] = None
          /\ db'.aircraft = [db.aircraft EXCEPT ![a] = None]
          /\ db'.contributions = [db.contributions EXCEPT ![a] = {}]
          /\ db'.claims = db.claims \ db.contributions[a]
          /\ db'.tombstones = [db.tombstones EXCEPT ![a] = C(d)]
          /\ db'.stats \in Counters /\ d[1] \in asked
          /\ db' = [aircraft |-> db'.aircraft, contributions |-> db'.contributions,
                    claims |-> db'.claims, tombstones |-> db'.tombstones, stats |-> db'.stats]
        BY <1>8, CommitWrites
    <2>3. /\ db.aircraft \in [Aircraft -> AircraftDocs \cup {None, Odd}]
          /\ db.contributions \in [Aircraft -> SUBSET Ids] /\ db.claims \in SUBSET Ids
          /\ db.tombstones \in [Aircraft -> Capabilities \cup {None, Odd}]
        BY DEF IInv, Databases
    <2>4. db' \in Databases
        <3>1. /\ db'.aircraft \in [Aircraft -> AircraftDocs \cup {None, Odd}]
              /\ db'.contributions \in [Aircraft -> SUBSET Ids] /\ db'.claims \in SUBSET Ids
              /\ db'.tombstones \in [Aircraft -> Capabilities \cup {None, Odd}]
            BY <2>1, <2>2, <2>3
        <3> QED
            BY <2>2, <3>1 DEF Databases
    <2>5. WellFounded(db)'
        <3>1. \A x \in Aircraft : db'.contributions[x] = IF x = a THEN {} ELSE db.contributions[x]
            BY <2>1, <2>2, <2>3
        <3>2. ASSUME NEW i \in db'.claims PROVE \E x \in Aircraft : i \in db'.contributions[x]
            BY <2>2, <3>1, <3>2 DEF IInv, WellFounded
        <3>3. /\ \A x, y \in Aircraft :
                    x # y => db'.contributions[x] \cap db'.contributions[y] = {}
              /\ \A x \in Aircraft : db'.aircraft[x] = None => db'.contributions[x] = {}
            BY <2>1, <2>2, <2>3, <3>1 DEF IInv, WellFounded
        <3> QED
            BY <3>2, <3>3 DEF WellFounded
    <2>6. call' = [e \in Deliveries |->
                     IF e = d THEN [At("answered") EXCEPT !.answer = "DELETED"] ELSE call[e]]
        BY <1>8 DEF Commit, Answers, Goes, IInv
    <2>7. UNCHANGED asked
        BY <1>8 DEF Commit
    <2>8. ASSUME NEW e \in Deliveries PROVE CallInv(e)'
        <3>1. CASE e = d
            <4>1. call'[d].phase = "answered"
                BY <2>6, AtAnswer
            <4>2. Gone(d)'
                BY <2>1, <2>2, <2>3 DEF Gone
            <4> QED
                BY <3>1, <2>2, <2>7, <4>1, <4>2 DEF CallInv
        <3>2. CASE e # d
            <4>1. CallInv(e) /\ call'[e] = call[e]
                BY <2>6, <3>2 DEF IInv
            <4>2. A(e) \in Aircraft
                BY DeliveryTypes
            <4>3. Gone(e) => Gone(e)'
                <5>1. CASE A(e) = a
                    <6>1. db.aircraft[a] # None
                        BY <2>2, BackendConstants
                    <6> QED
                        BY <5>1, <6>1 DEF Gone
                <5>2. CASE A(e) # a
                    BY <2>1, <2>2, <2>3, <4>2, <5>2 DEF Gone
                <5> QED
                    BY <5>1, <5>2
            <4> QED
                BY <2>7, <4>1, <4>3 DEF CallInv
        <3> QED
            BY <3>1, <3>2
    <2>9. call' = [e \in Deliveries |-> call'[e]]
        BY <2>6
    <2> QED
        BY <2>4, <2>5, <2>8, <2>9 DEF IInv
<1>9. CASE UNCHANGED vars
    BY <1>9 DEF vars, IInv, WellFounded, CallInv, Gone
<1> QED
    BY <1>1, <1>2, <1>3, <1>4, <1>5, <1>6, <1>7, <1>8, <1>9 DEF Next, Serve

----------------------------------------------------------------------------

\* A step that leaves the documents, the askers and the told alone is none of
\* the promise's.
LEMMA Unseen ==
    ASSUME UNCHANGED <<db, asked, told>>
    PROVE  UNCHANGED Deletion!erasure
BY DEF Deletion!erasure, Library, OfOthers, StatsOf

\* Every claim is of the aircraft or of another.
LEMMA ClaimsAreOf ==
    ASSUME IInv, NEW a \in Aircraft
    PROVE  db.claims \subseteq db.contributions[a] \cup OfOthers(a)
BY DEF IInv, WellFounded, OfOthers

\* The contributions of others, once those of one aircraft are gone.
LEMMA OthersAfter ==
    ASSUME NEW a \in Aircraft, NEW x \in Aircraft, db.contributions \in [Aircraft -> SUBSET Ids],
           db'.contributions = [db.contributions EXCEPT ![a] = {}]
    PROVE  IF x = a THEN OfOthers(x)' = OfOthers(x)
           ELSE OfOthers(x)' \cup db.contributions[a] = OfOthers(x)
<1>1. \A y \in Aircraft : db'.contributions[y] = IF y = a THEN {} ELSE db.contributions[y]
    OBVIOUS
<1>2. CASE x = a
    BY <1>1, <1>2 DEF OfOthers
<1>3. CASE x # a
    <2>1. ASSUME NEW i \in OfOthers(x)' PROVE i \in OfOthers(x)
        BY <1>1, <2>1 DEF OfOthers
    <2>2. ASSUME NEW i \in db.contributions[a] PROVE i \in OfOthers(x)
        BY <1>3, <2>2 DEF OfOthers
    <2>3. ASSUME NEW i \in OfOthers(x) PROVE i \in OfOthers(x)' \/ i \in db.contributions[a]
        BY <1>1, <2>3 DEF OfOthers
    <2> QED
        BY <1>3, <2>1, <2>2, <2>3
<1> QED
    BY <1>2, <1>3

LEMMA CommitErases ==
    ASSUME IInv, NEW d \in Deliveries, Commit(d)
    PROVE  Deletion!Erase(d[1])
<1> DEFINE a == A(d)
<1>1. a \in Aircraft /\ a = AircraftOf[d[1]] /\ C(d) = CapabilityOf[d[1]]
    BY DeliveryTypes DEF A, C
<1>2. /\ db.aircraft[a] \in AircraftDocs /\ db.aircraft[a].capability = C(d)
      /\ db.tombstones[a] = None
      /\ db'.aircraft = [db.aircraft EXCEPT ![a] = None]
      /\ db'.contributions = [db.contributions EXCEPT ![a] = {}]
      /\ db'.claims = db.claims \ db.contributions[a]
      /\ db'.tombstones = [db.tombstones EXCEPT ![a] = C(d)]
      /\ db'.stats = NextStats(StatsOf(db.stats), db.aircraft[a])
      /\ db'.stats \in Counters /\ d[1] \in asked
    BY <1>1, CommitWrites
<1>3. /\ db.aircraft \in [Aircraft -> AircraftDocs \cup {None, Odd}]
      /\ db.contributions \in [Aircraft -> SUBSET Ids]
    BY DEF IInv, Databases
<1>4. Library[a].aircraft = db.aircraft[a] /\ db.aircraft[a] \notin {None, Odd}
    BY <1>1, <1>2, BackendConstants DEF Library
<1>5. \A x \in Aircraft : Library'[x] = IF x = a THEN Deletion!Nothing ELSE Library[x]
    <2> SUFFICES ASSUME NEW x \in Aircraft
                 PROVE  Library'[x] = IF x = a THEN Deletion!Nothing ELSE Library[x]
        OBVIOUS
    <2>1. CASE x = a
        <3>1. db'.aircraft[a] = None /\ db'.contributions[a] = {}
            BY <1>1, <1>2, <1>3
        <3>2. OfOthers(a)' = OfOthers(a)
            BY <1>1, <1>2, <1>3, OthersAfter
        <3>3. db'.claims \ OfOthers(a)' = {}
            BY <1>1, <1>2, <3>2, ClaimsAreOf
        <3> QED
            BY <1>1, <2>1, <3>1, <3>3 DEF Library, Deletion!Nothing
    <2>2. CASE x # a
        <3>1. /\ db'.aircraft[x] = db.aircraft[x] /\ db'.contributions[x] = db.contributions[x]
            BY <1>1, <1>2, <1>3, <2>2
        <3>2. OfOthers(x)' \cup db.contributions[a] = OfOthers(x)
            BY <1>1, <1>2, <1>3, <2>2, OthersAfter
        <3>3. db'.claims \ OfOthers(x)' = db.claims \ OfOthers(x)
            BY <1>2, <3>2
        <3> QED
            BY <2>2, <3>1, <3>3 DEF Library
    <2> QED
        BY <2>1, <2>2
<1>6. Library' = [Library EXCEPT ![a] = Deletion!Nothing]
    BY <1>1, <1>5 DEF Library
<1>7. StatsOf(db'.stats) = NextStats(StatsOf(db.stats), db.aircraft[a])
    BY <1>2, BackendConstants DEF StatsOf
<1>8. UNCHANGED <<asked, told>>
    BY <1>2, <1>1 DEF Commit
<1> QED
    BY <1>1, <1>2, <1>4, <1>6, <1>7, <1>8 DEF Deletion!Erase, NextStats

LEMMA HearTells ==
    ASSUME IInv, NEW d \in Deliveries, Hear(d)
    PROVE  Deletion!Tell(d[1]) \/ UNCHANGED Deletion!erasure
<1>1. UNCHANGED <<db, asked>> /\ call[d].phase = "answered" /\ CallInv(d)
    BY DEF Hear, Phase, IInv
<1>2. CASE call[d].answer \in Erased
    <2>1. d[1] \in asked /\ Gone(d) /\ told' = told \cup {d[1]}
        BY <1>1, <1>2 DEF CallInv, Hear
    <2>2. A(d) \in Aircraft /\ A(d) = AircraftOf[d[1]] /\ C(d) = CapabilityOf[d[1]]
        BY DeliveryTypes DEF A, C
    <2>3. Library[A(d)] = Deletion!Nothing
        <3>1. db.claims \subseteq db.contributions[A(d)] \cup OfOthers(A(d))
            BY <2>2, ClaimsAreOf
        <3>2. db.contributions[A(d)] = {} /\ db.aircraft[A(d)] = None
            BY <2>1 DEF Gone
        <3>3. db.claims \ OfOthers(A(d)) = {}
            BY <3>1, <3>2
        <3> QED
            BY <2>2, <3>2, <3>3 DEF Library, Deletion!Nothing
    <2>4. UNCHANGED <<Library, StatsOf(db.stats), db.tombstones>>
        BY <1>1 DEF Library, OfOthers, StatsOf
    <2> QED
        BY <1>1, <2>1, <2>2, <2>3, <2>4 DEF Deletion!Tell, Gone
<1>3. CASE call[d].answer \notin Erased
    BY <1>1, <1>3, Unseen DEF Hear
<1> QED
    BY <1>2, <1>3

LEMMA StepErases == IInv /\ [Next]_vars => [Deletion!Next]_Deletion!erasure
<1> SUFFICES ASSUME IInv, [Next]_vars PROVE [Deletion!Next]_Deletion!erasure
    OBVIOUS
<1>1. ASSUME NEW p \in Clients, Ask(p) PROVE Deletion!Ask(p)
    <2>1. UNCHANGED <<db, told>> /\ asked' = asked \cup {p}
        BY <1>1 DEF Ask
    <2>2. UNCHANGED <<Library, StatsOf(db.stats), db.tombstones>>
        BY <2>1 DEF Library, OfOthers, StatsOf
    <2> QED
        BY <2>1, <2>2 DEF Deletion!Ask
<1>2. ASSUME NEW p \in Clients, Duplicate(p) PROVE UNCHANGED Deletion!erasure
    BY <1>2, Unseen DEF Duplicate
<1>3. ASSUME NEW d \in Deliveries,
             Lose(d) \/ Admit(d) \/ ReadAircraft(d) \/ ReadContributions(d) \/ RunAgain(d)
      PROVE UNCHANGED Deletion!erasure
    BY <1>3, Unseen DEF Lose, Admit, ReadAircraft, ReadContributions, RunAgain
<1>4. ASSUME NEW d \in Deliveries, Commit(d) PROVE Deletion!Next
    BY <1>4, CommitErases, DeliveryTypes DEF Deletion!Next
<1>5. ASSUME NEW d \in Deliveries, Hear(d) PROVE [Deletion!Next]_Deletion!erasure
    BY <1>5, HearTells, DeliveryTypes DEF Deletion!Next
<1>6. CASE UNCHANGED vars
    BY <1>6, Unseen DEF vars
<1>7. CASE \E p \in Clients : Ask(p) \/ Duplicate(p)
    BY <1>1, <1>2, <1>7 DEF Deletion!Next
<1>8. CASE \E d \in Deliveries : Serve(d) \/ Lose(d)
    BY <1>3, <1>4, <1>5, <1>8 DEF Serve
<1> QED
    BY <1>6, <1>7, <1>8 DEF Next

\* Whatever is lost, repeated or interleaved, an aircraft is erased whole, with
\* its share of the counts, once, for somebody who holds its capability, and only
\* he is told.
THEOREM DeletionIsErasure == Spec => ImplementsErasure
<1>1. Init => Deletion!Init
    BY DEF Init, Deletion!Init
<1> QED
    BY <1>1, InitInv, StepInv, StepErases, PTL DEF Spec, ImplementsErasure, Deletion!Spec
=============================================================================
