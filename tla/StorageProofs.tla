----------------------------- MODULE StorageProofs -----------------------------
(***************************************************************************)
(* What the private records of a pilot go through, for any aircraft,        *)
(* flights and number of taps, and any number of failures, lost pages and  *)
(* crashes: consent is his, and what could not be read is kept.             *)
(***************************************************************************)
EXTENDS Storage, FlightHistoryProofs

Fields == {"hist", "hrev", "hBlocked", "hWritable", "hWriteFailed", "hForgetFailed", "share",
           "srev", "sBlocked", "sWritable", "sWriteFailed", "sForgetFailed", "present", "shown",
           "cand", "stored", "consent", "queue", "at", "minted"}

IsPage(p) == DOMAIN p = Fields /\ p.hrev \in Nat /\ p.srev \in Nat
IsOp(o) == DOMAIN o = {"kind", "data", "rev", "after", "about"} /\ o.rev \in Nat
IsCall(c) == DOMAIN c = {"op", "data", "phase", "mine"}
IsSharing(s) == DOMAIN s = {"asked", "on", "terms", "ids"}
IsSeq(s) == Len(s) \in Nat /\ s = [i \in 1..Len(s) |-> s[i]]

\* Sharing that is on was agreed to, in the terms of now.
Agreed(s, agreed) == s.on => agreed /\ s.asked /\ s.terms = "now"

\* What is in a file: consent to older terms is allowed there.
AgreedOnDisk(s, agreed) == s.on => s.asked /\ (s.terms = "now" => agreed)

DiskInv(d, agreed) ==
    /\ d = [file \in {"history", "sharing"} |-> d[file]]
    /\ d["sharing"].kind \in {"whole", "damaged"} =>
           IsSharing(d["sharing"].data) /\ AgreedOnDisk(d["sharing"].data, agreed)

\* The page owns its sharing record, and the load is never behind another operation.
\* A change of the sharing record that is not stale keeps to the agreement, and keeps
\* every identity while the history is unread.
PageInv(p, agreed) ==
    /\ IsPage(p) /\ IsSharing(p.share) /\ Agreed(p.share, agreed)
    /\ IsSeq(p.queue)
    /\ \A i \in 1..Len(p.queue) :
           LET o == p.queue[i]
           IN /\ IsOp(o)
              /\ o.kind = "load" => i = 1 /\ p.share = CreateSharing
              /\ o.kind = "share" =>
                     /\ o.rev <= p.srev /\ IsSharing(o.data)
                     /\ o.rev = p.srev => /\ Agreed(o.data, agreed)
                                          /\ p.hBlocked => p.share.ids \subseteq o.data.ids
    /\ p.at # "idle" =>
           /\ p.queue # <<>>
           /\ p.queue[1].kind = "share" => p.queue[1].rev = p.srev

\* The calls the shell has yet to answer: only the first has been begun, and no
\* write is under way to a file that could not be read.
CallsInv(C, d, agreed) ==
    /\ IsSeq(C)
    /\ \A i \in 1..Len(C) :
           /\ IsCall(C[i])
           /\ C[i].op \in Reads \cup Writes \cup Forgets
           /\ C[i].phase # "asked" => i = 1 /\ C[i].op \in Writes
           /\ C[i].op = "writeHistory" => d["history"].kind # "damaged"
           /\ C[i].op = "writeSharing" =>
                  /\ d["sharing"].kind # "damaged"
                  /\ IsSharing(C[i].data) /\ Agreed(C[i].data, agreed)

\* The store takes writes only where nothing is damaged.
WritableInv(p, d) ==
    /\ p.hWritable => d["history"].kind # "damaged"
    /\ p.sWritable => d["sharing"].kind # "damaged"

\* The call that the operation at the head of the queue is in.
Asks(p, c) ==
    LET o == p.queue[1]
    IN /\ o.kind = "load" => c.op \in Reads /\ (c.op = "readHistory" <=> p.at = "first")
       /\ o.kind = "forgetEverything" =>
              c.op \in Forgets /\ (c.op = "forgetHistory" <=> p.at = "first")
       /\ o.kind = "erase" => c.op = "forgetSharing"
       /\ o.kind = "share" => c.op = "writeSharing" /\ c.data = o.data
       /\ o.kind \in {"save", "forget"} => c.op = "writeHistory" /\ c.data = o.data

\* What its answer says of the disk.
Answers(p, r, d) ==
    LET o == p.queue[1]
    IN /\ o.kind = "load" =>
              r.file \in {Unread, d[IF p.at = "first" THEN "history" ELSE "sharing"]}
       /\ (o.kind = "forgetEverything" /\ p.at = "first" /\ r.ok) => d["history"] = NoFile
       /\ (o.kind = "forgetEverything" /\ p.at # "first" /\ r.ok) => d["sharing"] = NoFile
       /\ (o.kind = "erase" /\ r.ok) => d["sharing"] = NoFile
       /\ (o.kind = "share" /\ r.ok) => d["sharing"] = Whole(o.data)
       /\ (o.kind \in {"save", "forget"} /\ r.ok) => d["history"] = Whole(o.data)

\* A page waits for one call at a time, and hears of it when everything before it is
\* done.
TalkInv(p, C, r, d) ==
    /\ \A i \in 1..Len(C) : C[i].mine =>
           /\ i = Len(C) /\ p.at # "idle" /\ ~r.here /\ Asks(p, C[i])
    /\ r.here => C = <<>> /\ p.at # "idle" /\ Answers(p, r, d)

\* While no process runs nothing is on its way.
DownInv == process # "up" => calls = <<>> /\ ~reply.here /\ page.at = "idle"

StorageInv ==
    /\ DiskInv(disk, ghost.agreed) /\ PageInv(page, ghost.agreed)
    /\ CallsInv(calls, disk, ghost.agreed) /\ WritableInv(page, disk)
    /\ TalkInv(page, calls, reply, disk) /\ NoHalfWrittenFile /\ DownInv
    /\ DOMAIN ghost = {"kept", "forgotten", "erased", "agreed", "overtook", "fellBack"}
    /\ ghost.agreed \in BOOLEAN

-----------------------------------------------------------------------------
(* Sequences that are added to at the end and taken from at the front.      *)

LEMMA OverAny ==
  ASSUME NEW s, IsSeq(s), NEW S, \A i \in 1..Len(s) : s[i] \in S
  PROVE  s \in Seq(S)
  <1> DEFINE n == Len(s)
  <1>1. n \in Nat /\ s = [i \in 1..n |-> s[i]]
      BY DEF IsSeq
  <1> HIDE DEF n
  <1> QED
      BY <1>1 DEF n

LEMMA AnySeq ==
  ASSUME NEW S, NEW s \in Seq(S)
  PROVE  IsSeq(s)
  BY DEF IsSeq

LEMMA FunctionIsSeq ==
  ASSUME NEW n \in Nat, NEW s, s = [i \in 1..n |-> s[i]]
  PROVE  IsSeq(s) /\ Len(s) = n
  <1>1. Len(s) = n
      OBVIOUS
  <1> QED
      BY <1>1 DEF IsSeq

LEMMA EmptyIs ==
  ASSUME NEW s, IsSeq(s)
  PROVE  s = <<>> <=> Len(s) = 0
  <1> DEFINE S == {s[i] : i \in 1..Len(s)}
  <1>1. s \in Seq(S)
      BY OverAny
  <1> HIDE DEF S
  <1> QED
      BY <1>1, EmptySeq

LEMMA Appended ==
  ASSUME NEW s, IsSeq(s), NEW e
  PROVE  /\ IsSeq(Append(s, e)) /\ Len(Append(s, e)) = Len(s) + 1 /\ Len(s) \in Nat
         /\ \A i \in 1..Len(s) : Append(s, e)[i] = s[i]
         /\ Append(s, e)[Len(s) + 1] = e
         /\ Append(s, e) # <<>>
         /\ s # <<>> => Len(s) > 0
  <1> DEFINE S == {s[i] : i \in 1..Len(s)} \cup {e}
             t == Append(s, e)
  <1>1. s \in Seq(S)
      BY OverAny
  <1>2. e \in S
      OBVIOUS
  <1> HIDE DEF S
  <1>3. /\ t \in Seq(S) /\ Len(t) = Len(s) + 1 /\ Len(s) \in Nat
        /\ \A i \in 1..Len(s) : t[i] = s[i]
        /\ t[Len(s) + 1] = e
      BY <1>1, <1>2, AppendProperties
  <1>4. IsSeq(t)
      BY <1>3, AnySeq
  <1>5. t # <<>>
      BY <1>3, EmptySeq
  <1>6. s # <<>> => Len(s) > 0
      BY <1>1, EmptySeq
  <1> QED
      BY <1>3, <1>4, <1>5, <1>6

LEMMA Tailed ==
  ASSUME NEW s, IsSeq(s), s # <<>>
  PROVE  /\ IsSeq(Tail(s)) /\ Len(Tail(s)) = Len(s) - 1 /\ Len(s) \in Nat /\ Len(s) > 0
         /\ \A i \in 1..Len(Tail(s)) : Tail(s)[i] = s[i + 1]
         /\ Head(s) = s[1]
  <1> DEFINE S == {s[i] : i \in 1..Len(s)}
  <1>1. s \in Seq(S)
      BY OverAny
  <1> HIDE DEF S
  <1>2. /\ Tail(s) \in Seq(S) /\ Len(Tail(s)) = Len(s) - 1 /\ Len(s) \in Nat /\ Len(s) > 0
        /\ \A i \in 1..Len(Tail(s)) : Tail(s)[i] = s[i + 1]
      BY <1>1, HeadTailProperties
  <1>3. IsSeq(Tail(s))
      BY <1>2, AnySeq
  <1> QED
      BY <1>1, <1>2, <1>3

-----------------------------------------------------------------------------
(* What the page's functions change, of what the invariant reads.           *)

\* Everything but the queue.
SameBut(p, q) ==
    /\ IsPage(q) /\ q.hist = p.hist /\ q.share = p.share /\ q.hrev = p.hrev /\ q.srev = p.srev
    /\ q.hBlocked = p.hBlocked /\ q.hWritable = p.hWritable /\ q.sWritable = p.sWritable
    /\ q.present = p.present /\ q.at = p.at

\* An operation a tap, or the end of another, may put in the queue.
Fits(p, o, agreed) ==
    /\ IsOp(o) /\ o.kind # "load"
    /\ o.kind = "share" => /\ o.rev = p.srev /\ IsSharing(o.data) /\ Agreed(o.data, agreed)
                           /\ p.hBlocked => p.share.ids \subseteq o.data.ids

Grows(p, q, agreed) ==
    /\ SameBut(p, q)
    /\ q.queue = p.queue \/ \E o : Fits(p, o, agreed) /\ q.queue = Append(p.queue, o)

LEMMA OpIsOp ==
  ASSUME NEW kind, NEW data, NEW rev \in Nat, NEW after, NEW about
  PROVE  LET o == Op(kind, data, rev, after, about)
         IN IsOp(o) /\ o.kind = kind /\ o.data = data /\ o.rev = rev
  BY DEF Op, IsOp

LEMMA EnqueueGrows ==
  ASSUME NEW p, IsPage(p), NEW o, NEW agreed, Fits(p, o, agreed)
  PROVE  Grows(p, Enqueue(p, o), agreed)
  <1>1. SameBut(p, Enqueue(p, o)) /\ Enqueue(p, o).queue = Append(p.queue, o)
      BY DEF IsPage, Fields, Enqueue, SameBut
  <1> QED
      BY <1>1 DEF Grows

LEMMA PersistHistoryGrows ==
  ASSUME NEW p, IsPage(p), NEW data, NEW forget \in BOOLEAN, NEW about, NEW agreed
  PROVE  Grows(p, PersistHistory(p, data, forget, about), agreed)
  <1> DEFINE o == Op(IF forget THEN "forget" ELSE "save", data, p.hrev,
                     IF forget THEN "forgotten" ELSE "remember", about)
  <1>1. Fits(p, o, agreed)
      BY OpIsOp DEF Fits, IsPage
  <1> QED
      BY <1>1, EnqueueGrows DEF PersistHistory

LEMMA PersistSharingGrows ==
  ASSUME NEW p, IsPage(p), NEW data, NEW after, NEW agreed,
         IsSharing(data), Agreed(data, agreed), p.hBlocked => p.share.ids \subseteq data.ids
  PROVE  Grows(p, PersistSharing(p, data, after), agreed)
  <1> DEFINE o == Op("share", data, p.srev, after, {})
  <1>1. Fits(p, o, agreed)
      BY OpIsOp DEF Fits, IsPage
  <1> QED
      BY <1>1, EnqueueGrows DEF PersistSharing

LEMMA ThenSame ==
  ASSUME NEW p, IsPage(p), NEW after
  PROVE  SameBut(p, Then(p, after)) /\ Then(p, after).queue = p.queue
  <1>1. CASE after = "dismiss"
      BY <1>1 DEF IsPage, Fields, Then, SameBut
  <1>2. CASE after = "render"
      BY <1>2 DEF IsPage, Fields, Then, SameBut
  <1>3. CASE after \notin {"dismiss", "render"}
      BY <1>3 DEF IsPage, Then, SameBut
  <1> QED
      BY <1>1, <1>2, <1>3

LEMMA RecompareSame ==
  ASSUME NEW p, IsPage(p)
  PROVE  SameBut(p, Recompare(p)) /\ Recompare(p).queue = p.queue
  BY DEF IsPage, Fields, Recompare, SameBut

LEMMA ReconcileGrows ==
  ASSUME NEW p, IsPage(p), IsSharing(p.share), NEW agreed, Agreed(p.share, agreed), NEW after
  PROVE  Grows(p, Reconcile(p, after), agreed)
  <1> DEFINE s == [p.share EXCEPT !.ids = WantedIds(p)]
             q == PersistSharing(p, s, after)
  <1>1. CASE Reconcile(p, after) = p
      BY <1>1 DEF Grows, SameBut
  <1>2. CASE ~p.hBlocked /\ Reconcile(p, after) = [q EXCEPT !.minted = @ + 1]
    <2>1. IsSharing(s) /\ s.on = p.share.on /\ s.asked = p.share.asked /\ s.terms = p.share.terms
        BY DEF IsSharing
    <2> HIDE DEF s
    <2>2. Grows(p, q, agreed)
        BY <1>2, <2>1, PersistSharingGrows DEF Agreed
    <2> HIDE DEF q
    <2> DEFINE m == [q EXCEPT !.minted = @ + 1]
    <2>3. SameBut(q, m) /\ m.queue = q.queue
        BY <2>2 DEF Grows, SameBut, IsPage, Fields
    <2> HIDE DEF m
    <2>4. Grows(p, m, agreed)
        BY <2>2, <2>3 DEF Grows, SameBut
    <2> QED
        BY <1>2, <2>4 DEF m
  <1> QED
      BY <1>1, <1>2 DEF Reconcile

LEMMA ReconcileThenGrows ==
  ASSUME NEW p, IsPage(p), IsSharing(p.share), NEW agreed, Agreed(p.share, agreed), NEW after
  PROVE  Grows(p, ReconcileThen(p, after), agreed)
  <1>1. Grows(p, Reconcile(p, after), agreed)
      BY ReconcileGrows
  <1>2. Grows(p, Then(p, after), agreed)
      BY ThenSame DEF Grows
  <1> QED
      BY <1>1, <1>2 DEF ReconcileThen

\* Same functions one after the other.
LEMMA SameThenGrows ==
  ASSUME NEW p, NEW q, NEW r, NEW agreed, SameBut(p, q), q.queue = p.queue, Grows(q, r, agreed)
  PROVE  Grows(p, r, agreed)
  BY DEF SameBut, Grows, Fits

LEMMA RememberedGrows ==
  ASSUME NEW p, IsPage(p), IsSharing(p.share), NEW agreed, Agreed(p.share, agreed), NEW op
  PROVE  Grows(p, Remembered(p, op), agreed)
  <1> DEFINE mine == FindRecords(op.data, AircraftOf[p.cand])
             q == [p EXCEPT !.stored = IF mine = <<>> THEN NoRecord ELSE Last(mine),
                            !.shown = RecordIds(p.hist)]
  <1>1. SameBut(p, q) /\ q.queue = p.queue
      BY DEF IsPage, Fields, SameBut
  <1>2. Remembered(p, op) = IF p.cand = None THEN p ELSE ReconcileThen(q, None)
      BY DEF Remembered
  <1> HIDE DEF q
  <1>3. Grows(p, ReconcileThen(q, None), agreed)
      BY <1>1, ReconcileThenGrows, SameThenGrows DEF SameBut
  <1>4. Grows(p, p, agreed)
      BY DEF Grows, SameBut
  <1> QED
      BY <1>2, <1>3, <1>4

LEMMA ContinueGrows ==
  ASSUME NEW p, IsPage(p), IsSharing(p.share), NEW agreed, Agreed(p.share, agreed), NEW op,
         NEW written
  PROVE  Grows(p, Continue(p, op, written), agreed)
  <1>1. \A after : Grows(p, ReconcileThen(p, after), agreed)
      BY ReconcileThenGrows
  <1>2. Grows(p, ReconcileThen(Recompare(p), "render"), agreed)
      BY RecompareSame, ReconcileThenGrows, SameThenGrows DEF SameBut
  <1>3. \A after : Grows(p, Then(p, after), agreed)
      BY ThenSame DEF Grows
  <1>4. Grows(p, p, agreed)
      BY DEF Grows, SameBut
  <1> QED
      BY <1>1, <1>2, <1>3, <1>4, RememberedGrows DEF Continue

-----------------------------------------------------------------------------
(* What keeps the invariant.                                               *)

\* A queue that grew: whoever is in a call is still at its head.
LEMMA GrownPage ==
  ASSUME NEW p, NEW agreed, PageInv(p, agreed), NEW q, Grows(p, q, agreed)
  PROVE  PageInv(q, agreed)
  <1>1. CASE q.queue = p.queue
      BY <1>1 DEF PageInv, Grows, SameBut
  <1>2. ASSUME NEW o, Fits(p, o, agreed), q.queue = Append(p.queue, o)
        PROVE  PageInv(q, agreed)
    <2>1. IsSeq(p.queue)
        BY DEF PageInv
    <2>2. /\ IsSeq(q.queue) /\ Len(q.queue) = Len(p.queue) + 1 /\ Len(p.queue) \in Nat
          /\ \A i \in 1..Len(p.queue) : q.queue[i] = p.queue[i]
          /\ q.queue[Len(p.queue) + 1] = o
          /\ q.queue # <<>>
          /\ p.queue # <<>> => Len(p.queue) > 0
        BY <1>2, <2>1, Appended
    <2>3. \A i \in 1..Len(q.queue) : i \in 1..Len(p.queue) \/ q.queue[i] = o
        BY <2>2
    <2>4. \A i \in 1..Len(q.queue) :
              /\ IsOp(q.queue[i])
              /\ q.queue[i].kind = "load" => i = 1 /\ q.share = CreateSharing
              /\ q.queue[i].kind = "share" =>
                     /\ q.queue[i].rev <= q.srev /\ IsSharing(q.queue[i].data)
                     /\ q.queue[i].rev = q.srev =>
                            /\ Agreed(q.queue[i].data, agreed)
                            /\ q.hBlocked => q.share.ids \subseteq q.queue[i].data.ids
        BY <1>2, <2>2, <2>3 DEF PageInv, Grows, SameBut, Fits, IsPage
    <2>5. q.at # "idle" => /\ q.queue # <<>>
                           /\ q.queue[1].kind = "share" => q.queue[1].rev = q.srev
        BY <2>2 DEF PageInv, Grows, SameBut
    <2> QED
        BY <2>2, <2>4, <2>5 DEF PageInv, Grows, SameBut
  <1> QED
      BY <1>1, <1>2 DEF Grows

LEMMA GrownTalk ==
  ASSUME NEW p, NEW agreed, PageInv(p, agreed), NEW q, Grows(p, q, agreed),
         NEW C, NEW r, NEW d, TalkInv(p, C, r, d), WritableInv(p, d)
  PROVE  TalkInv(q, C, r, d) /\ WritableInv(q, d)
  <1>1. p.at # "idle" => q.queue[1] = p.queue[1]
    <2>1. CASE q.queue = p.queue
        BY <2>1
    <2>2. ASSUME NEW o, q.queue = Append(p.queue, o), p.queue # <<>>
          PROVE  q.queue[1] = p.queue[1]
        BY <2>2, Appended DEF PageInv
    <2> QED
        BY <2>1, <2>2 DEF PageInv, Grows
  <1> QED
      BY <1>1 DEF TalkInv, WritableInv, Asks, Answers, Grows, SameBut

\* An agreement more takes nothing away.
LEMMA AgreedMore ==
  ASSUME NEW a \in BOOLEAN, NEW b \in BOOLEAN, a => b, NEW p, NEW C, NEW d
  PROVE  /\ PageInv(p, a) => PageInv(p, b)
         /\ CallsInv(C, d, a) => CallsInv(C, d, b)
         /\ DiskInv(d, a) => DiskInv(d, b)
  BY DEF PageInv, CallsInv, DiskInv, Agreed, AgreedOnDisk

\* The head of the queue is done with.
LEMMA Dequeued ==
  ASSUME NEW p, NEW agreed, PageInv(p, agreed), p.queue # <<>>
  PROVE  LET q == Dequeue(p)
         IN /\ PageInv(q, agreed) /\ q.at = "idle"
            /\ \A i \in 1..Len(q.queue) : q.queue[i].kind # "load"
            /\ q.share = p.share /\ q.hrev = p.hrev /\ q.srev = p.srev
            /\ q.hBlocked = p.hBlocked /\ q.hWritable = p.hWritable
            /\ q.sWritable = p.sWritable /\ q.present = p.present
  <1> DEFINE q == Dequeue(p)
  <1>1. /\ IsPage(q) /\ q.at = "idle" /\ q.queue = Tail(p.queue)
        /\ q.share = p.share /\ q.hrev = p.hrev /\ q.srev = p.srev
        /\ q.hBlocked = p.hBlocked /\ q.hWritable = p.hWritable
        /\ q.sWritable = p.sWritable /\ q.present = p.present
      BY DEF PageInv, IsPage, Fields, Dequeue
  <1> HIDE DEF q
  <1>2. /\ IsSeq(q.queue) /\ Len(q.queue) = Len(p.queue) - 1 /\ Len(p.queue) \in Nat
        /\ \A i \in 1..Len(q.queue) : q.queue[i] = p.queue[i + 1]
      BY <1>1, Tailed DEF PageInv
  <1>3. \A i \in 1..Len(q.queue) : i + 1 \in 1..Len(p.queue) /\ i + 1 # 1
      BY <1>2
  <1>4. \A i \in 1..Len(q.queue) :
            /\ IsOp(q.queue[i]) /\ q.queue[i].kind # "load"
            /\ q.queue[i].kind = "share" =>
                   /\ q.queue[i].rev <= q.srev /\ IsSharing(q.queue[i].data)
                   /\ q.queue[i].rev = q.srev =>
                          /\ Agreed(q.queue[i].data, agreed)
                          /\ q.hBlocked => q.share.ids \subseteq q.queue[i].data.ids
      BY <1>1, <1>2, <1>3 DEF PageInv
  <1> QED
      BY <1>1, <1>2, <1>4 DEF PageInv, q

\* A new record and a new revision: every change that was waiting is stale.
LEMMA NewRevision ==
  ASSUME NEW p, NEW a, PageInv(p, a), p.at = "idle",
         \A i \in 1..Len(p.queue) : p.queue[i].kind # "load",
         NEW q, NEW b, IsPage(q), q.queue = p.queue, q.at = p.at, q.srev = p.srev + 1,
         IsSharing(q.share), Agreed(q.share, b)
  PROVE  PageInv(q, b)
  <1>1. \A i \in 1..Len(q.queue) :
            q.queue[i].kind = "share" => q.queue[i].rev <= q.srev /\ q.queue[i].rev # q.srev
      BY DEF PageInv, IsOp, IsPage
  <1> QED
      BY <1>1 DEF PageInv

\* A page that has no call out hears nothing.
LEMMA IdleTalk ==
  ASSUME NEW p, NEW C, NEW r, NEW d, TalkInv(p, C, r, d), p.at = "idle", NEW q, NEW e
  PROVE  TalkInv(q, C, r, e)
  BY DEF TalkInv

LEMMA NoTalk ==
  ASSUME NEW p, NEW d
  PROVE  TalkInv(p, <<>>, NoReply, d)
  BY DEF TalkInv, NoReply

\* What the pilot does, and what it puts in the queue.
LEMMA GrowingKeeps ==
  ASSUME StorageInv, Grows(page, page', ghost'.agreed),
         ghost.agreed \in BOOLEAN, ghost'.agreed \in BOOLEAN, ghost.agreed => ghost'.agreed,
         DOMAIN ghost' = DOMAIN ghost, UNCHANGED <<disk, staging, calls, reply, process>>
  PROVE  StorageInv'
  <1>1. /\ PageInv(page, ghost'.agreed) /\ CallsInv(calls, disk, ghost'.agreed)
        /\ DiskInv(disk, ghost'.agreed)
      BY AgreedMore DEF StorageInv
  <1>2. PageInv(page', ghost'.agreed) /\ TalkInv(page', calls, reply, disk)
        /\ WritableInv(page', disk)
      BY <1>1, GrownPage, GrownTalk DEF StorageInv
  <1>3. NoHalfWrittenFile'
      BY DEF StorageInv, NoHalfWrittenFile, Is, File
  <1>4. DownInv'
      BY DEF StorageInv, DownInv, Grows, SameBut
  <1> QED
      BY <1>1, <1>2, <1>3, <1>4 DEF StorageInv

-----------------------------------------------------------------------------
(* Action by action: the pilot.                                             *)

LEMMA SaveKeeps == ASSUME StorageInv, Save PROVE StorageInv'
  <1>1. IsPage(page)
      BY DEF StorageInv, PageInv
  <1>2. Grows(page, page', ghost.agreed)
      BY <1>1, PersistHistoryGrows DEF Save
  <1> QED
      BY <1>2, GrowingKeeps DEF Save, Tap, StorageInv

LEMMA ForgetKeeps == ASSUME StorageInv, NEW data, Forget(data) PROVE StorageInv'
  <1>1. IsPage(page)
      BY DEF StorageInv, PageInv
  <1>2. Grows(page, page', ghost.agreed)
      BY <1>1, PersistHistoryGrows DEF Forget
  <1>3. ghost'.agreed = ghost.agreed /\ DOMAIN ghost' = DOMAIN ghost
      BY DEF Forget, StorageInv
  <1> QED
      BY <1>2, <1>3, GrowingKeeps DEF Forget, Tap, StorageInv

LEMMA EnqueuedKeeps ==
  ASSUME StorageInv, ForgetEverythingNow \/ EraseSharingIdentity
  PROVE  StorageInv'
  <1>1. PICK kind \in {"forgetEverything", "erase"} :
            page' = Enqueue(page, Op(kind, NoData, 0, None, {}))
      BY DEF ForgetEverythingNow, EraseSharingIdentity
  <1>2. Fits(page, Op(kind, NoData, 0, None, {}), ghost.agreed)
      BY OpIsOp DEF Fits
  <1>3. Grows(page, page', ghost.agreed)
      BY <1>1, <1>2, EnqueueGrows DEF StorageInv, PageInv
  <1>4. ghost'.agreed = ghost.agreed /\ DOMAIN ghost' = DOMAIN ghost
      BY DEF ForgetEverythingNow, EraseSharingIdentity, StorageInv
  <1> QED
      BY <1>3, <1>4, GrowingKeeps DEF ForgetEverythingNow, EraseSharingIdentity, Tap, StorageInv

LEMMA ToggleOffKeeps == ASSUME StorageInv, ToggleOff PROVE StorageInv'
  <1> DEFINE s == [page.share EXCEPT !.asked = TRUE, !.on = FALSE, !.terms = None]
  <1>1. IsPage(page) /\ IsSharing(page.share)
      BY DEF StorageInv, PageInv
  <1>2. IsSharing(s) /\ s.on = FALSE /\ s.ids = page.share.ids
      BY <1>1 DEF IsSharing
  <1>3. page' = PersistSharing(page, s, "off")
      BY DEF ToggleOff
  <1> HIDE DEF s
  <1>4. Grows(page, page', ghost.agreed)
      BY <1>1, <1>2, <1>3, PersistSharingGrows DEF Agreed
  <1> QED
      BY <1>4, GrowingKeeps DEF ToggleOff, Tap, StorageInv

LEMMA AnswerConsentKeeps ==
  ASSUME StorageInv, NEW agreed \in BOOLEAN, AnswerConsent(agreed)
  PROVE  StorageInv'
  <1> DEFINE s == [page.share EXCEPT !.asked = TRUE, !.on = agreed,
                                     !.terms = IF agreed THEN "now" ELSE None]
  <1>1. IsPage(page) /\ IsSharing(page.share)
      BY DEF StorageInv, PageInv
  <1>2. /\ IsSharing(s) /\ s.on = agreed /\ s.asked = TRUE /\ s.ids = page.share.ids
        /\ agreed => s.terms = "now"
      BY <1>1 DEF IsSharing
  <1>3. page' = PersistSharing(page, s, "answer")
      BY DEF AnswerConsent
  <1>4. ghost'.agreed = (ghost.agreed \/ agreed) /\ DOMAIN ghost' = DOMAIN ghost
      BY DEF AnswerConsent, StorageInv
  <1> HIDE DEF s
  <1>5. Grows(page, page', ghost'.agreed)
      BY <1>1, <1>2, <1>3, <1>4, PersistSharingGrows DEF Agreed
  <1> QED
      BY <1>4, <1>5, GrowingKeeps DEF AnswerConsent, Tap, StorageInv

\* The dialog opens, a candidate comes or goes.
LEMMA PanelKeeps ==
  ASSUME StorageInv, ToggleOn \/ RetireCandidate \/ \E f \in Flights : ConsiderFlight(f)
  PROVE  StorageInv'
  <1>1. IsPage(page)
      BY DEF StorageInv, PageInv
  <1>2. SameBut(page, page') /\ page'.queue = page.queue
    <2>1. CASE ToggleOn
        BY <1>1, <2>1 DEF ToggleOn, IsPage, Fields, SameBut
    <2>2. CASE RetireCandidate
        BY <1>1, <2>2 DEF RetireCandidate, IsPage, Fields, SameBut
    <2>3. ASSUME NEW f \in Flights, ConsiderFlight(f)
          PROVE  SameBut(page, page') /\ page'.queue = page.queue
      <3> DEFINE p == [page EXCEPT !.cand = f]
      <3>1. SameBut(page, p) /\ p.queue = page.queue
          BY <1>1 DEF IsPage, Fields, SameBut
      <3>2. page' = Recompare(p)
          BY <2>3 DEF ConsiderFlight
      <3> HIDE DEF p
      <3> QED
          BY <3>1, <3>2, RecompareSame DEF SameBut
    <2> QED
        BY <2>1, <2>2, <2>3
  <1>3. Grows(page, page', ghost.agreed)
      BY <1>2 DEF Grows
  <1> QED
      BY <1>3, GrowingKeeps DEF ToggleOn, Tap, RetireCandidate, ConsiderFlight, StorageInv

LEMMA PilotKeeps == ASSUME StorageInv, PilotStep PROVE StorageInv'
  <1>1. ASSUME NEW c, NEW n, ForgetFlight(<<c, n>>) PROVE StorageInv'
      BY <1>1, ForgetKeeps DEF ForgetFlight
  <1>2. ASSUME NEW c, ForgetMachine(c) PROVE StorageInv'
      BY <1>2, ForgetKeeps DEF ForgetMachine
  <1> QED
      BY <1>1, <1>2, SaveKeeps, EnqueuedKeeps, ToggleOffKeeps, AnswerConsentKeeps, PanelKeeps
      DEF PilotStep

-----------------------------------------------------------------------------
(* Action by action: the head of the queue.                                 *)

\* Everything but the call the page is in.
Calls(p, q) ==
    /\ IsPage(q) /\ q.share = p.share /\ q.hrev = p.hrev /\ q.srev = p.srev
    /\ q.hBlocked = p.hBlocked /\ q.hWritable = p.hWritable /\ q.sWritable = p.sWritable
    /\ q.queue = p.queue /\ q.at # "idle"

\* A page that waits for nothing may make the call c, and be q then.
CanAsk(p, q, c, C, r, d, agreed) ==
    /\ PageInv(p, agreed) /\ CallsInv(C, d, agreed) /\ WritableInv(p, d)
    /\ (\A i \in 1..Len(C) : ~C[i].mine) /\ ~r.here
    /\ p.queue # <<>> /\ Calls(p, q)
    /\ p.queue[1].kind = "share" => p.queue[1].rev = p.srev
    /\ IsCall(c) /\ Asks(q, c) /\ c.phase = "asked" /\ c.op \in Reads \cup Writes \cup Forgets
    /\ c.op = "writeHistory" => d["history"].kind # "damaged"
    /\ c.op = "writeSharing" =>
           d["sharing"].kind # "damaged" /\ IsSharing(c.data) /\ Agreed(c.data, agreed)

\* The page's call, last in line.
LEMMA Asked ==
  ASSUME NEW p, NEW q, NEW c, NEW C, NEW r, NEW d, NEW agreed, CanAsk(p, q, c, C, r, d, agreed)
  PROVE  /\ PageInv(q, agreed) /\ CallsInv(Append(C, c), d, agreed) /\ WritableInv(q, d)
         /\ TalkInv(q, Append(C, c), r, d)
         /\ Append(C, c) # <<>>
         /\ C # <<>> => Append(C, c)[1] = C[1]
  <1> DEFINE K == Append(C, c)
  <1>1. /\ PageInv(p, agreed) /\ CallsInv(C, d, agreed) /\ WritableInv(p, d)
        /\ (\A i \in 1..Len(C) : ~C[i].mine) /\ ~r.here
        /\ p.queue # <<>> /\ Calls(p, q)
        /\ p.queue[1].kind = "share" => p.queue[1].rev = p.srev
        /\ IsCall(c) /\ Asks(q, c) /\ c.phase = "asked" /\ c.op \in Reads \cup Writes \cup Forgets
        /\ c.op = "writeHistory" => d["history"].kind # "damaged"
        /\ c.op = "writeSharing" =>
               d["sharing"].kind # "damaged" /\ IsSharing(c.data) /\ Agreed(c.data, agreed)
      BY DEF CanAsk
  <1>2. /\ IsSeq(K) /\ Len(K) = Len(C) + 1 /\ Len(C) \in Nat
        /\ \A i \in 1..Len(C) : K[i] = C[i]
        /\ K[Len(C) + 1] = c /\ K # <<>>
        /\ C # <<>> => Len(C) > 0
      BY <1>1, Appended DEF CallsInv
  <1> HIDE DEF K
  <1>3. PageInv(q, agreed) /\ WritableInv(q, d)
      BY <1>1 DEF PageInv, WritableInv, Calls
  <1>4. \A i \in 1..Len(K) : (i \in 1..Len(C) /\ K[i] = C[i]) \/ (i = Len(K) /\ K[i] = c)
      BY <1>2
  <1>5. CallsInv(K, d, agreed)
      BY <1>1, <1>2, <1>4 DEF CallsInv
  <1>6. TalkInv(q, K, r, d)
      BY <1>1, <1>4 DEF TalkInv, Calls
  <1> QED
      BY <1>2, <1>3, <1>5, <1>6 DEF K

\* Nothing is half-written once the calls before have been answered.
LEMMA StagingHead ==
  ASSUME StorageInv, process = "up", NEW file \in staging
  PROVE  /\ calls # <<>> /\ calls[1].op \in Writes /\ File(calls[1]) = file
         /\ calls[1].phase # "asked" /\ Head(calls) = calls[1]
  <1>1. calls # <<>> /\ Is(Writes) /\ File(Head(calls)) = file /\ Head(calls).phase # "asked"
      BY DEF StorageInv, NoHalfWrittenFile
  <1>2. Head(calls) = calls[1]
      BY <1>1, Tailed DEF StorageInv, CallsInv
  <1> QED
      BY <1>1, <1>2 DEF Is

LEMMA AskKeeps ==
  ASSUME StorageInv, process = "up", NEW p, NEW q, NEW c,
         CanAsk(p, q, c, calls, reply', disk, ghost.agreed),
         calls' = Append(calls, c), page' = q, UNCHANGED <<disk, staging, process>>,
         ghost'.agreed = ghost.agreed, DOMAIN ghost' = DOMAIN ghost
  PROVE  StorageInv'
  <1>1. /\ PageInv(page', ghost.agreed) /\ CallsInv(calls', disk, ghost.agreed)
        /\ WritableInv(page', disk)
        /\ TalkInv(page', calls', reply', disk)
        /\ calls' # <<>>
        /\ calls # <<>> => calls'[1] = calls[1]
      BY Asked
  <1>2. NoHalfWrittenFile'
    <2> SUFFICES ASSUME NEW file \in staging
                 PROVE  /\ calls' # <<>> /\ Head(calls').op \in Writes
                        /\ File(Head(calls')) = file /\ Head(calls').phase # "asked"
        BY DEF NoHalfWrittenFile, Is, File
    <2>1. /\ calls # <<>> /\ calls[1].op \in Writes /\ File(calls[1]) = file
          /\ calls[1].phase # "asked"
        BY StagingHead
    <2>2. Head(calls') = calls'[1]
        BY <1>1, Tailed DEF CallsInv
    <2> QED
        BY <1>1, <2>1, <2>2
  <1>3. DownInv'
      BY DEF DownInv
  <1> QED
      BY <1>1, <1>2, <1>3 DEF StorageInv

\* The call of an operation.
Called(operation, data) == [op |-> operation, data |-> data, phase |-> "asked", mine |-> TRUE]

LEMMA ReadyTalks ==
  ASSUME StorageInv, Ready
  PROVE  /\ \A i \in 1..Len(calls) : ~calls[i].mine
         /\ ~reply.here /\ process = "up" /\ page.queue # <<>> /\ page.at = "idle"
         /\ Head(page.queue) = page.queue[1] /\ 1 \in 1..Len(page.queue)
  BY Tailed DEF StorageInv, TalkInv, PageInv, Ready

LEMMA BeginKeeps ==
  ASSUME StorageInv, BeginLoad \/ BeginForgetEverything \/ BeginErase
  PROVE  StorageInv'
  <1>1. PICK operation \in Reads \cup Forgets :
            /\ Ready /\ Ask(operation, NoData, "first") /\ UNCHANGED ghost
            /\ \/ Head(page.queue).kind = "load" /\ operation = "readHistory"
               \/ Head(page.queue).kind = "forgetEverything" /\ operation = "forgetHistory"
               \/ Head(page.queue).kind = "erase" /\ operation = "forgetSharing"
      BY DEF BeginLoad, BeginForgetEverything, BeginErase, Reads, Forgets
  <1>2. /\ \A i \in 1..Len(calls) : ~calls[i].mine
        /\ ~reply.here /\ process = "up" /\ page.queue # <<>>
        /\ Head(page.queue) = page.queue[1]
      BY <1>1, ReadyTalks
  <1>3. PageInv(page, ghost.agreed) /\ IsPage(page)
      BY DEF StorageInv, PageInv
  <1> DEFINE q == [page EXCEPT !.at = "first"]
             c == Called(operation, NoData)
  <1>4. /\ IsCall(c) /\ c.op = operation /\ c.phase = "asked" /\ Calls(page, q)
        /\ q.queue = page.queue /\ q.at = "first"
      BY <1>3 DEF Called, IsCall, IsPage, Fields, Calls
  <1>5. /\ page' = q /\ calls' = Append(calls, c) /\ reply' = reply
        /\ UNCHANGED <<disk, staging, process, ghost>>
      BY <1>1 DEF Ask, Called
  <1> HIDE DEF q, c
  <1>6. Asks(q, c)
      BY <1>1, <1>2, <1>4 DEF Asks, Reads, Forgets
  <1>7. operation \notin {"writeHistory", "writeSharing"}
      BY DEF Reads, Forgets
  <1>8. page.queue[1].kind # "share"
      BY <1>1, <1>2
  <1>9. CanAsk(page, q, c, calls, reply', disk, ghost.agreed)
      BY <1>2, <1>3, <1>4, <1>5, <1>6, <1>7, <1>8 DEF CanAsk, StorageInv
  <1> QED
      BY <1>2, <1>5, <1>9, AskKeeps

\* What an operation that needs no answer leaves.
LEMMA OnlyPage ==
  ASSUME StorageInv, PageInv(page', ghost.agreed), WritableInv(page', disk), page.at = "idle",
         page'.at = "idle", UNCHANGED <<disk, staging, calls, reply, process, ghost>>
  PROVE  StorageInv'
  <1>1. TalkInv(page', calls, reply, disk)
      BY IdleTalk DEF StorageInv
  <1>2. NoHalfWrittenFile' /\ DownInv'
      BY DEF StorageInv, NoHalfWrittenFile, Is, File, DownInv
  <1> QED
      BY <1>1, <1>2 DEF StorageInv

\* A write that was not made changes a flag.
LEMMA NotWritten ==
  ASSUME NEW p, IsPage(p), NEW op
  PROVE  /\ SameBut(p, AdoptSharing(p, op, FALSE)) /\ AdoptSharing(p, op, FALSE).queue = p.queue
         /\ SameBut(p, AdoptHistory(p, op, FALSE)) /\ AdoptHistory(p, op, FALSE).queue = p.queue
  BY DEF IsPage, Fields, AdoptSharing, AdoptHistory, SameBut

LEMMA BeginPersistKeeps ==
  ASSUME StorageInv, BeginPersist
  PROVE  StorageInv'
  <1> DEFINE op == Head(page.queue)
             share == op.kind = "share"
             writable == IF share THEN page.sWritable ELSE page.hWritable
             d == Dequeue(page)
             f == IF share THEN AdoptSharing(d, op, FALSE) ELSE AdoptHistory(d, op, FALSE)
  <1>1. /\ \A i \in 1..Len(calls) : ~calls[i].mine
        /\ ~reply.here /\ process = "up" /\ page.queue # <<>> /\ page.at = "idle"
        /\ op = page.queue[1] /\ op.kind \in {"save", "forget", "share"}
        /\ 1 \in 1..Len(page.queue)
      BY ReadyTalks DEF BeginPersist
  <1>2. /\ PageInv(page, ghost.agreed) /\ IsPage(page) /\ WritableInv(page, disk)
      BY DEF StorageInv, PageInv
  <1>3. CASE Stale(page, op) \/ ~writable
    <2>1. /\ PageInv(d, ghost.agreed) /\ d.at = "idle"
          /\ d.hWritable = page.hWritable /\ d.sWritable = page.sWritable
        BY <1>1, <1>2, Dequeued
    <2>2. PICK q \in {d, f} : page' = Continue(q, op, FALSE)
        BY <1>3 DEF BeginPersist
    <2>3. UNCHANGED <<disk, staging, calls, reply, process, ghost>>
        BY <1>3 DEF BeginPersist
    <2> HIDE DEF d
    <2>4. SameBut(d, q) /\ q.queue = d.queue
      <3>1. IsPage(d) /\ SameBut(d, d)
          BY <2>1 DEF PageInv, SameBut
      <3> QED
          BY <2>2, <3>1, NotWritten
    <2> HIDE DEF op
    <2>5. PageInv(q, ghost.agreed) /\ WritableInv(q, disk) /\ q.at = "idle"
        BY <1>2, <2>1, <2>4, GrownPage DEF Grows, SameBut, WritableInv
    <2>6. Grows(q, page', ghost.agreed)
        BY <2>2, <2>5, ContinueGrows DEF PageInv
    <2>7. PageInv(page', ghost.agreed) /\ WritableInv(page', disk) /\ page'.at = "idle"
        BY <2>5, <2>6, GrownPage DEF Grows, SameBut, WritableInv
    <2> QED
        BY <1>1, <2>3, <2>7, OnlyPage
  <1>4. CASE ~Stale(page, op) /\ writable
    <2> DEFINE operation == IF share THEN "writeSharing" ELSE "writeHistory"
               q == [page EXCEPT !.at = "first"]
               c == Called(operation, op.data)
    <2>1. /\ page' = q /\ calls' = Append(calls, c) /\ reply' = reply
          /\ UNCHANGED <<disk, staging, process>>
          /\ ghost'.agreed = ghost.agreed /\ DOMAIN ghost' = DOMAIN ghost
        BY <1>4 DEF BeginPersist, Ask, Called, StorageInv
    <2>2. share => /\ op.rev = page.srev /\ IsSharing(op.data) /\ Agreed(op.data, ghost.agreed)
                   /\ disk["sharing"].kind # "damaged"
        BY <1>1, <1>2, <1>4 DEF PageInv, Stale, WritableInv
    <2>3. ~share => disk["history"].kind # "damaged"
        BY <1>2, <1>4 DEF WritableInv
    <2>4. /\ IsCall(c) /\ c.op = operation /\ c.data = op.data /\ c.phase = "asked"
          /\ Calls(page, q) /\ q.queue = page.queue /\ q.at = "first"
        BY <1>2 DEF Called, IsCall, IsPage, Fields, Calls
    <2> HIDE DEF q, c
    <2>5. Asks(q, c)
        BY <1>1, <2>4 DEF Asks
    <2>6. operation \in Reads \cup Writes \cup Forgets
        BY DEF Writes
    <2>7. CanAsk(page, q, c, calls, reply', disk, ghost.agreed)
        BY <1>1, <1>2, <2>1, <2>2, <2>3, <2>4, <2>5, <2>6 DEF CanAsk, StorageInv
    <2> QED
        BY <1>1, <2>1, <2>7, AskKeeps
  <1> QED
      BY <1>3, <1>4

-----------------------------------------------------------------------------
(* Action by action: the replies.                                           *)

\* What a page that heard its answer knows.
LEMMA AnsweredTalks ==
  ASSUME StorageInv, reply.here
  PROVE  /\ calls = <<>> /\ Len(calls) = 0 /\ page.at # "idle" /\ process = "up"
         /\ page.queue # <<>> /\ Head(page.queue) = page.queue[1] /\ 1 \in 1..Len(page.queue)
         /\ Answers(page, reply, disk) /\ staging = {}
         /\ page.queue[1].kind = "share" => page.queue[1].rev = page.srev
  <1>1. /\ calls = <<>> /\ page.at # "idle" /\ process = "up" /\ Answers(page, reply, disk)
        /\ page.queue # <<>>
        /\ page.queue[1].kind = "share" => page.queue[1].rev = page.srev
      BY DEF StorageInv, TalkInv, DownInv, PageInv
  <1>2. Head(page.queue) = page.queue[1] /\ 1 \in 1..Len(page.queue)
      BY <1>1, Tailed DEF StorageInv, PageInv
  <1>3. staging = {}
      BY <1>1 DEF StorageInv, NoHalfWrittenFile
  <1> QED
      BY <1>1, <1>2, <1>3

\* The end of an operation: nothing is on its way.
LEMMA OverKeeps ==
  ASSUME StorageInv, calls = <<>>, process = "up", staging = {},
         PageInv(page', ghost'.agreed), WritableInv(page', disk),
         reply' = NoReply, UNCHANGED <<disk, staging, calls, process>>,
         DiskInv(disk, ghost'.agreed),
         ghost'.agreed \in BOOLEAN, DOMAIN ghost' = DOMAIN ghost
  PROVE  StorageInv'
  <1>1. TalkInv(page', calls', reply', disk)
      BY NoTalk
  <1>2. CallsInv(calls', disk, ghost'.agreed)
      BY DEF StorageInv, CallsInv
  <1>3. NoHalfWrittenFile' /\ DownInv'
      BY DEF NoHalfWrittenFile, DownInv
  <1> QED
      BY <1>1, <1>2, <1>3 DEF StorageInv

\* The page adopts a history, or forgets it, or fails to: the sharing record stays.
HistoryOnly(p, q) ==
    /\ IsPage(q) /\ q.share = p.share /\ q.srev = p.srev /\ q.sWritable = p.sWritable
    /\ q.queue = p.queue /\ q.at = p.at

LEMMA LoadHistoryKeeps == ASSUME StorageInv, LoadHistory PROVE StorageInv'
  <1> DEFINE p == AdoptHistoryFile(page, reply.file)
             q == [p EXCEPT !.at = "second"]
             c == Called("readSharing", NoData)
  <1>1. /\ calls = <<>> /\ Len(calls) = 0 /\ page.at = "first" /\ process = "up"
        /\ page.queue # <<>> /\ page.queue[1].kind = "load" /\ 1 \in 1..Len(page.queue)
        /\ reply.file \in {Unread, disk["history"]}
      BY AnsweredTalks DEF LoadHistory, Answered, Answers
  <1>2. /\ PageInv(page, ghost.agreed) /\ IsPage(page) /\ WritableInv(page, disk)
        /\ page.share = CreateSharing
      BY <1>1 DEF StorageInv, PageInv
  <1>3. /\ HistoryOnly(page, p)
        /\ p.hWritable = ~UnsafeToReplace(reply.file)
      BY <1>2 DEF HistoryOnly, IsPage, Fields, AdoptHistoryFile
  <1>3a. p.hWritable => ~UnsafeToReplace(reply.file)
      BY <1>3, Zenon
  <1>4. /\ page' = q /\ calls' = Append(calls, c) /\ reply' = NoReply
        /\ UNCHANGED <<disk, staging, process, ghost>>
      BY DEF LoadHistory, Called
  <1> HIDE DEF p
  <1>5. PageInv(p, ghost.agreed)
      BY <1>1, <1>2, <1>3 DEF PageInv, HistoryOnly, CreateSharing
  <1>6. WritableInv(p, disk)
      BY <1>1, <1>2, <1>3, <1>3a DEF WritableInv, HistoryOnly, UnsafeToReplace, Unread
  <1>7. /\ IsCall(c) /\ c.op = "readSharing" /\ c.phase = "asked"
        /\ Calls(p, q) /\ q.queue = p.queue /\ q.at = "second"
      BY <1>5 DEF Called, IsCall, PageInv, IsPage, Fields, Calls
  <1> HIDE DEF q, c
  <1>8. Asks(q, c)
      BY <1>1, <1>3, <1>7 DEF Asks, HistoryOnly, Reads
  <1>9. CanAsk(p, q, c, calls, reply', disk, ghost.agreed)
      BY <1>1, <1>3, <1>4, <1>5, <1>6, <1>7, <1>8
      DEF CanAsk, HistoryOnly, StorageInv, NoReply, Reads
  <1> QED
      BY <1>1, <1>4, <1>9, AskKeeps

\* The sharing record a load makes of its file keeps to the agreement: consent to older
\* terms is no consent.
LEMMA ImportAgrees ==
  ASSUME NEW d, NEW agreed, DiskInv(d, agreed), NEW file \in {Unread, d["sharing"]}
  PROVE  IsSharing(ImportSharing(file)) /\ Agreed(ImportSharing(file), agreed)
  <1> DEFINE s == Salvaged(file, CreateSharing)
  <1>1. IsSharing(s) /\ AgreedOnDisk(s, agreed)
      BY DEF DiskInv, Salvaged, Unread, CreateSharing, IsSharing, AgreedOnDisk
  <1>2. ImportSharing(file) = IF s.on /\ s.terms # "now"
                              THEN [s EXCEPT !.asked = FALSE, !.on = FALSE, !.terms = None] ELSE s
      BY DEF ImportSharing
  <1> HIDE DEF s
  <1> QED
      BY <1>1, <1>2 DEF IsSharing, Agreed, AgreedOnDisk

LEMMA LoadSharingKeeps == ASSUME StorageInv, LoadSharing PROVE StorageInv'
  <1> DEFINE p == AdoptSharingFile(page, reply.file)
             q == Dequeue(p)
             r == Dequeue(page)
  <1>1. /\ calls = <<>> /\ process = "up" /\ staging = {} /\ page.queue # <<>>
        /\ page.queue[1].kind = "load" /\ reply.file \in {Unread, disk["sharing"]}
      BY AnsweredTalks DEF LoadSharing, Answered, Answers
  <1>2. PageInv(page, ghost.agreed) /\ IsPage(page) /\ WritableInv(page, disk)
      BY DEF StorageInv, PageInv
  <1>3. /\ IsPage(p) /\ p.share = ImportSharing(reply.file) /\ p.srev = page.srev + 1
        /\ p.queue = page.queue /\ p.hWritable = page.hWritable
        /\ p.sWritable = ~UnsafeToReplace(reply.file)
      BY <1>2 DEF IsPage, Fields, AdoptSharingFile
  <1>3a. p.sWritable => ~UnsafeToReplace(reply.file)
      BY <1>3, Zenon
  <1> HIDE DEF p
  <1>4. /\ IsPage(q) /\ q.share = p.share /\ q.srev = p.srev /\ q.queue = Tail(p.queue)
        /\ q.at = "idle" /\ q.sWritable = p.sWritable /\ q.hWritable = p.hWritable
      BY <1>3 DEF IsPage, Fields, Dequeue
  <1>5. /\ PageInv(r, ghost.agreed) /\ r.at = "idle" /\ r.srev = page.srev
        /\ \A i \in 1..Len(r.queue) : r.queue[i].kind # "load"
      BY <1>1, <1>2, Dequeued
  <1>6. r.queue = Tail(page.queue)
      BY <1>2 DEF IsPage, Fields, Dequeue
  <1> HIDE DEF q, r
  <1>7. IsSharing(q.share) /\ Agreed(q.share, ghost.agreed)
      BY <1>1, <1>3, <1>4, ImportAgrees DEF StorageInv
  <1>8. PageInv(q, ghost.agreed)
      BY <1>3, <1>4, <1>5, <1>6, <1>7, NewRevision
  <1>9. WritableInv(q, disk)
      BY <1>1, <1>2, <1>3, <1>3a, <1>4 DEF WritableInv, UnsafeToReplace, Unread
  <1>10. /\ page' = ReconcileThen(q, "render") /\ reply' = NoReply
         /\ UNCHANGED <<disk, staging, calls, process, ghost>>
      BY DEF LoadSharing, q, p
  <1>11. Grows(q, page', ghost.agreed)
      BY <1>7, <1>8, <1>10, ReconcileThenGrows DEF PageInv
  <1>12. PageInv(page', ghost.agreed) /\ WritableInv(page', disk)
      BY <1>8, <1>9, <1>11, GrownPage DEF Grows, SameBut, WritableInv
  <1> QED
      BY <1>1, <1>10, <1>12, OverKeeps DEF StorageInv

LEMMA FinishHistoryKeeps == ASSUME StorageInv, FinishHistory PROVE StorageInv'
  <1> DEFINE op == Head(page.queue)
             d == Dequeue(page)
             f == AdoptHistory(d, op, reply.ok)
  <1>1. reply.here
      BY DEF FinishHistory, Answered
  <1>2. calls = <<>> /\ process = "up" /\ staging = {} /\ page.queue # <<>>
      BY <1>1, AnsweredTalks
  <1>3. PageInv(page, ghost.agreed) /\ WritableInv(page, disk)
      BY DEF StorageInv
  <1>4. /\ PageInv(d, ghost.agreed) /\ WritableInv(d, disk)
      BY <1>2, <1>3, Dequeued DEF WritableInv
  <1>5. /\ page' = Continue(f, op, reply.ok) /\ reply' = NoReply
        /\ UNCHANGED <<disk, staging, calls, process>>
        /\ ghost'.agreed = ghost.agreed /\ DOMAIN ghost' = DOMAIN ghost
      BY DEF FinishHistory, StorageInv
  <1> HIDE DEF d, op
  <1>6. /\ HistoryOnly(d, f) /\ f.hBlocked = d.hBlocked /\ f.hWritable = d.hWritable
      BY <1>4 DEF PageInv, IsPage, Fields, AdoptHistory, HistoryOnly
  <1> HIDE DEF f
  <1>7. PageInv(f, ghost.agreed) /\ WritableInv(f, disk)
      BY <1>4, <1>6 DEF PageInv, WritableInv, HistoryOnly
  <1>8. Grows(f, page', ghost.agreed)
      BY <1>5, <1>7, ContinueGrows DEF PageInv
  <1>9. PageInv(page', ghost.agreed) /\ WritableInv(page', disk)
      BY <1>7, <1>8, GrownPage DEF Grows, SameBut, WritableInv
  <1> QED
      BY <1>2, <1>5, <1>9, OverKeeps DEF StorageInv

\* What was written is adopted under a new revision, and was agreed to; what was not
\* written changes nothing.
LEMMA FinishSharingKeeps == ASSUME StorageInv, FinishSharing PROVE StorageInv'
  <1> DEFINE op == Head(page.queue)
             d == Dequeue(page)
             f == AdoptSharing(d, op, reply.ok)
  <1>1. /\ reply.here /\ op.kind = "share" /\ page.at = "first"
        /\ page' = Continue(f, op, reply.ok) /\ reply' = NoReply
        /\ UNCHANGED <<disk, staging, calls, process>>
      BY DEF FinishSharing, Answered
  <1>2. /\ calls = <<>> /\ process = "up" /\ staging = {} /\ page.queue # <<>>
        /\ op = page.queue[1] /\ op.rev = page.srev /\ 1 \in 1..Len(page.queue)
        /\ reply.ok => disk["sharing"] = Whole(op.data)
      BY <1>1, AnsweredTalks DEF Answers
  <1>3. PageInv(page, ghost.agreed) /\ WritableInv(page, disk) /\ IsSharing(op.data)
        /\ Agreed(op.data, ghost.agreed)
      BY <1>1, <1>2 DEF StorageInv, PageInv
  <1>4. /\ PageInv(d, ghost.agreed) /\ WritableInv(d, disk) /\ d.at = "idle"
        /\ \A i \in 1..Len(d.queue) : d.queue[i].kind # "load"
      BY <1>2, <1>3, Dequeued DEF WritableInv
  <1>5. CASE reply.ok
    <2>1. /\ ghost'.agreed = (ghost.agreed /\ op.data.on) /\ DOMAIN ghost' = DOMAIN ghost
        BY <1>5 DEF FinishSharing, StorageInv
    <2> HIDE DEF d, op
    <2>2. /\ IsPage(f) /\ f.share = op.data /\ f.srev = d.srev + 1 /\ f.queue = d.queue
          /\ f.at = d.at /\ f.hWritable = d.hWritable /\ f.sWritable = d.sWritable
        BY <1>4, <1>5 DEF PageInv, IsPage, Fields, AdoptSharing
    <2> HIDE DEF f
    <2>3. ghost'.agreed \in BOOLEAN /\ Agreed(op.data, ghost'.agreed)
        BY <1>3, <2>1 DEF Agreed
    <2>4. PageInv(f, ghost'.agreed) /\ WritableInv(f, disk)
        BY <1>3, <1>4, <2>2, <2>3, NewRevision DEF WritableInv
    <2>5. Grows(f, page', ghost'.agreed)
        BY <1>1, <2>4, ContinueGrows DEF PageInv
    <2>6. PageInv(page', ghost'.agreed) /\ WritableInv(page', disk)
        BY <2>4, <2>5, GrownPage DEF Grows, SameBut, WritableInv
    <2>7. DiskInv(disk, ghost'.agreed)
        BY <1>2, <1>3, <1>5, <2>3 DEF StorageInv, DiskInv, AgreedOnDisk, Agreed, Whole
    <2> QED
        BY <1>1, <1>2, <2>1, <2>3, <2>6, <2>7, OverKeeps DEF StorageInv
  <1>6. CASE ~reply.ok
    <2>1. ghost' = ghost
        BY <1>6 DEF FinishSharing
    <2> HIDE DEF d, op
    <2>2. SameBut(d, f) /\ f.queue = d.queue
        BY <1>4, <1>6 DEF PageInv, IsPage, Fields, AdoptSharing, SameBut
    <2> HIDE DEF f
    <2>3. PageInv(f, ghost.agreed) /\ WritableInv(f, disk)
        BY <1>4, <2>2, GrownPage DEF Grows, SameBut, WritableInv
    <2>4. Grows(f, page', ghost.agreed)
        BY <1>1, <2>3, ContinueGrows DEF PageInv
    <2>5. PageInv(page', ghost.agreed) /\ WritableInv(page', disk)
        BY <2>3, <2>4, GrownPage DEF Grows, SameBut, WritableInv
    <2> QED
        BY <1>1, <1>2, <2>1, <2>5, OverKeeps DEF StorageInv
  <1> QED
      BY <1>5, <1>6

LEMMA ForgotHistoryKeeps == ASSUME StorageInv, ForgotHistory PROVE StorageInv'
  <1> DEFINE p == EmptyHistory(page, reply.ok)
             q == [p EXCEPT !.at = "second"]
             c == Called("forgetSharing", NoData)
  <1>1. /\ calls = <<>> /\ Len(calls) = 0 /\ page.at = "first" /\ process = "up"
        /\ page.queue # <<>> /\ page.queue[1].kind = "forgetEverything"
        /\ reply.ok => disk["history"] = NoFile
      BY AnsweredTalks DEF ForgotHistory, Answered, Answers
  <1>2. PageInv(page, ghost.agreed) /\ IsPage(page) /\ WritableInv(page, disk)
      BY DEF StorageInv, PageInv
  <1>3. /\ page' = q /\ calls' = Append(calls, c) /\ reply' = NoReply
        /\ UNCHANGED <<disk, staging, process>>
        /\ ghost'.agreed = ghost.agreed /\ DOMAIN ghost' = DOMAIN ghost
      BY DEF ForgotHistory, Called, StorageInv
  <1>4. /\ HistoryOnly(page, p)
        /\ p.hBlocked => page.hBlocked
        /\ p.hWritable => page.hWritable \/ reply.ok
    <2>1. CASE reply.ok
      <3> DEFINE e == [page EXCEPT !.hist = CreateHistory, !.hrev = @ + 1, !.hForgetFailed = FALSE,
                                   !.hBlocked = FALSE, !.hWritable = page.present]
      <3>1. HistoryOnly(page, e) /\ e.hBlocked = FALSE
          BY <1>2 DEF IsPage, Fields, HistoryOnly
      <3>2. p = Recompare(e)
          BY <2>1 DEF EmptyHistory
      <3> HIDE DEF e, p
      <3> QED
          BY <2>1, <3>1, <3>2, RecompareSame DEF HistoryOnly, SameBut
    <2>2. CASE ~reply.ok
        BY <1>2, <2>2 DEF IsPage, Fields, HistoryOnly, EmptyHistory
    <2> QED
        BY <2>1, <2>2
  <1> HIDE DEF p
  <1>5. PageInv(p, ghost.agreed)
      BY <1>1, <1>2, <1>4 DEF PageInv, HistoryOnly
  <1>6. WritableInv(p, disk)
      BY <1>1, <1>2, <1>4 DEF WritableInv, HistoryOnly, NoFile
  <1>7. /\ IsCall(c) /\ c.op = "forgetSharing" /\ c.phase = "asked"
        /\ Calls(p, q) /\ q.queue = p.queue /\ q.at = "second"
      BY <1>5 DEF Called, IsCall, PageInv, IsPage, Fields, Calls
  <1> HIDE DEF q, c
  <1>8. Asks(q, c)
      BY <1>1, <1>4, <1>7 DEF Asks, HistoryOnly, Forgets
  <1>9. CanAsk(p, q, c, calls, reply', disk, ghost.agreed)
      BY <1>1, <1>3, <1>4, <1>5, <1>6, <1>7, <1>8
      DEF CanAsk, HistoryOnly, StorageInv, NoReply, Forgets
  <1> QED
      BY <1>1, <1>3, <1>9, AskKeeps

\* The record is empty again, no change that was waiting lands, and no agreement is left.
LEMMA ForgotSharingKeeps == ASSUME StorageInv, ForgotSharing PROVE StorageInv'
  <1> DEFINE all == Head(page.queue).kind = "forgetEverything"
             e == EmptySharing(page, reply.ok, all /\ page.sWriteFailed)
             p == Dequeue(e)
             r == Dequeue(page)
  <1>1. /\ reply.here /\ reply' = NoReply /\ page' = IF all THEN Then(p, "render") ELSE p
        /\ UNCHANGED <<disk, staging, calls, process>>
        /\ Head(page.queue).kind \in {"forgetEverything", "erase"}
        /\ all => page.at = "second"
      BY DEF ForgotSharing, Answered
  <1>2. /\ calls = <<>> /\ process = "up" /\ staging = {} /\ page.queue # <<>>
        /\ reply.ok => disk["sharing"] = NoFile
      BY <1>1, AnsweredTalks DEF Answers
  <1>3. PageInv(page, ghost.agreed) /\ IsPage(page) /\ WritableInv(page, disk)
      BY DEF StorageInv, PageInv
  <1>4. /\ PageInv(r, ghost.agreed) /\ WritableInv(r, disk) /\ r.at = "idle" /\ IsPage(r)
        /\ \A i \in 1..Len(r.queue) : r.queue[i].kind # "load"
      BY <1>2, <1>3, Dequeued DEF WritableInv, PageInv
  <1>5. /\ r.queue = Tail(page.queue) /\ r.srev = page.srev /\ r.hBlocked = page.hBlocked
        /\ r.hWritable = page.hWritable /\ r.share = page.share /\ r.sWritable = page.sWritable
        /\ r.present = page.present /\ r.hrev = page.hrev /\ r.hist = page.hist
      BY <1>3 DEF IsPage, Fields, Dequeue
  <1> HIDE DEF all, r
  <1>6. ghost'.agreed \in BOOLEAN /\ DOMAIN ghost' = DOMAIN ghost
      BY DEF ForgotSharing, StorageInv
  <1>7. PageInv(p, ghost'.agreed) /\ WritableInv(p, disk) /\ DiskInv(disk, ghost'.agreed)
    <2>1. CASE reply.ok
      <3>1. /\ IsPage(e) /\ e.share = CreateSharing /\ e.srev = page.srev + 1
            /\ e.queue = page.queue /\ e.hWritable = page.hWritable
          BY <1>3, <2>1 DEF IsPage, Fields, EmptySharing
      <3> HIDE DEF e
      <3>2. /\ IsPage(p) /\ p.share = CreateSharing /\ p.srev = page.srev + 1
            /\ p.queue = Tail(page.queue) /\ p.at = "idle" /\ p.hWritable = page.hWritable
          BY <3>1 DEF IsPage, Fields, Dequeue
      <3> HIDE DEF p
      <3>3. IsSharing(p.share) /\ Agreed(p.share, ghost'.agreed)
          BY <3>2 DEF CreateSharing, IsSharing, Agreed
      <3>4. PageInv(p, ghost'.agreed)
          BY <1>4, <1>5, <3>2, <3>3, NewRevision
      <3>5. WritableInv(p, disk) /\ DiskInv(disk, ghost'.agreed)
          BY <1>2, <1>3, <2>1, <3>2 DEF WritableInv, DiskInv, NoFile, StorageInv
      <3> QED
          BY <3>4, <3>5
    <2>2. CASE ~reply.ok
      <3>1. ghost' = ghost
          BY <2>2 DEF ForgotSharing
      <3>2. SameBut(page, e) /\ e.queue = page.queue
          BY <1>3, <2>2 DEF IsPage, Fields, EmptySharing, SameBut
      <3> HIDE DEF e
      <3>3. /\ IsPage(p) /\ p.queue = Tail(e.queue) /\ p.at = "idle"
            /\ p.hist = e.hist /\ p.share = e.share /\ p.hrev = e.hrev /\ p.srev = e.srev
            /\ p.hBlocked = e.hBlocked /\ p.hWritable = e.hWritable
            /\ p.sWritable = e.sWritable /\ p.present = e.present
          BY <3>2 DEF IsPage, Fields, Dequeue, SameBut
      <3> HIDE DEF p
      <3>5. SameBut(r, p) /\ p.queue = r.queue
          BY <1>4, <1>5, <3>2, <3>3 DEF SameBut
      <3>4. PageInv(p, ghost.agreed) /\ WritableInv(p, disk)
          BY <1>4, <3>5, GrownPage DEF Grows, SameBut, WritableInv
      <3> QED
          BY <3>1, <3>4 DEF StorageInv
    <2> QED
        BY <2>1, <2>2
  <1> HIDE DEF p
  <1>8. PageInv(page', ghost'.agreed) /\ WritableInv(page', disk)
    <2>1. Grows(p, Then(p, "render"), ghost'.agreed)
        BY <1>7, ThenSame DEF PageInv, Grows
    <2>2. PageInv(Then(p, "render"), ghost'.agreed) /\ WritableInv(Then(p, "render"), disk)
        BY <1>7, <2>1, GrownPage DEF Grows, SameBut, WritableInv
    <2> QED
        BY <1>1, <1>7, <2>2
  <1> QED
      BY <1>1, <1>2, <1>6, <1>7, <1>8, OverKeeps DEF StorageInv

LEMMA PageKeeps == ASSUME StorageInv, PageStep PROVE StorageInv'
  BY BeginKeeps, BeginPersistKeeps, LoadHistoryKeeps, LoadSharingKeeps, FinishHistoryKeeps,
     FinishSharingKeeps, ForgotHistoryKeeps, ForgotSharingKeeps DEF PageStep

-----------------------------------------------------------------------------
(* Action by action: the shell.                                             *)

\* The first call, and what is half-written.
LEMMA ServedCall ==
  ASSUME StorageInv, calls # <<>>
  PROVE  /\ Head(calls) = calls[1] /\ 1 \in 1..Len(calls) /\ IsSeq(calls) /\ IsCall(calls[1])
         /\ calls[1].op \in Reads \cup Writes \cup Forgets /\ ~reply.here
         /\ calls[1].mine => Asks(page, calls[1]) /\ page.at # "idle" /\ Len(calls) = 1
         /\ process = "up"
         /\ staging \subseteq {File(calls[1])}
         /\ calls[1].phase = "asked" => staging = {}
         /\ calls[1].phase # "asked" => calls[1].op \in Writes
  <1>1. Head(calls) = calls[1] /\ 1 \in 1..Len(calls) /\ IsSeq(calls)
      BY Tailed DEF StorageInv, CallsInv
  <1>2. process = "up"
      BY DEF StorageInv, DownInv
  <1>3. \A file \in staging : File(calls[1]) = file /\ calls[1].phase # "asked"
      BY <1>2, StagingHead
  <1>4. ~reply.here
      BY DEF StorageInv, TalkInv
  <1>5. /\ IsCall(calls[1]) /\ calls[1].op \in Reads \cup Writes \cup Forgets
        /\ calls[1].phase # "asked" => calls[1].op \in Writes
      BY <1>1 DEF StorageInv, CallsInv
  <1>6. calls[1].mine => Asks(page, calls[1]) /\ page.at # "idle" /\ Len(calls) = 1
      BY <1>1 DEF StorageInv, TalkInv
  <1> QED
      BY <1>1, <1>2, <1>3, <1>4, <1>5, <1>6

\* What a page hears.
Reply(ok, file) == [ok |-> ok, file |-> file, here |-> TRUE]

LEMMA ReplyIs ==
  ASSUME NEW ok, NEW file
  PROVE  LET r == Reply(ok, file) IN r.ok = ok /\ r.file = file /\ r.here = TRUE
  BY DEF Reply

LEMMA AnswerKeeps ==
  ASSUME StorageInv, calls # <<>>, NEW ok, NEW file, Answer(ok, file),
         DiskInv(disk', ghost.agreed),
         \A f \in {"history", "sharing"} : disk'[f].kind = "damaged" => disk[f].kind = "damaged",
         staging' = {}, ghost'.agreed = ghost.agreed, DOMAIN ghost' = DOMAIN ghost,
         calls[1].mine => Answers(page, Reply(ok, file), disk')
  PROVE  StorageInv'
  <1> DEFINE C == calls
             K == Tail(calls)
             r == Reply(ok, file)
  <1>1. /\ C[1].mine => Len(C) = 1 /\ page.at # "idle"
        /\ ~reply.here /\ process = "up" /\ Head(C) = C[1] /\ IsSeq(C)
      BY ServedCall
  <1>2. /\ IsSeq(K) /\ Len(K) = Len(C) - 1 /\ Len(C) \in Nat /\ Len(C) > 0
        /\ \A i \in 1..Len(K) : K[i] = C[i + 1]
      BY <1>1, Tailed
  <1>3. /\ calls' = K /\ reply' = (IF C[1].mine THEN r ELSE reply)
        /\ UNCHANGED <<page, process>>
      BY <1>1 DEF Answer, Reply
  <1>4. r.here = TRUE
      BY ReplyIs
  <1>5. K = <<>> <=> Len(K) = 0
      BY <1>2, EmptyIs
  <1> HIDE DEF K
  <1>6. \A i \in 1..Len(K) : i + 1 \in 1..Len(C) /\ i + 1 # 1
      BY <1>2
  <1>7. CallsInv(K, disk', ghost.agreed)
      BY <1>2, <1>6 DEF StorageInv, CallsInv
  <1>8. WritableInv(page, disk')
      BY DEF StorageInv, WritableInv
  <1>9. TalkInv(page, K, reply', disk')
    <2>1. CASE C[1].mine
      <3>1. Len(K) = 0 /\ K = <<>> /\ reply' = r /\ page.at # "idle" /\ Answers(page, r, disk')
          BY <1>1, <1>2, <1>3, <1>5, <2>1
      <3> HIDE DEF r
      <3> QED
          BY <3>1 DEF TalkInv
    <2>2. CASE ~C[1].mine
        BY <1>1, <1>2, <1>3, <1>6, <2>2 DEF StorageInv, TalkInv
    <2> QED
        BY <2>1, <2>2
  <1>10. NoHalfWrittenFile' /\ DownInv'
      BY <1>1, <1>3 DEF NoHalfWrittenFile, DownInv
  <1> QED
      BY <1>3, <1>7, <1>8, <1>9, <1>10 DEF StorageInv

\* A file that is replaced whole, or goes.
LEMMA DiskReplaced ==
  ASSUME NEW d, NEW agreed, DiskInv(d, agreed), NEW file \in {"history", "sharing"}, NEW x,
         x.kind # "damaged",
         (file = "sharing" /\ x.kind = "whole") => IsSharing(x.data) /\ Agreed(x.data, agreed)
  PROVE  LET e == [d EXCEPT ![file] = x]
         IN /\ DiskInv(e, agreed) /\ e[file] = x
            /\ \A f \in {"history", "sharing"} : e[f].kind = "damaged" => d[f].kind = "damaged"
  BY DEF DiskInv, Agreed, AgreedOnDisk

LEMMA ServeReadKeeps == ASSUME StorageInv, ServeRead \/ ServeReadFails PROVE StorageInv'
  <1> DEFINE c == calls[1]
  <1>1. PICK file \in {Unread, disk[File(c)]}, ok \in BOOLEAN : Answer(ok, file)
    <2>1. calls # <<>>
        BY DEF ServeRead, ServeReadFails, Serving
    <2>2. Head(calls) = c
        BY <2>1, ServedCall
    <2> QED
        BY <2>2 DEF ServeRead, ServeReadFails
  <1>2. /\ calls # <<>> /\ Head(calls).phase = "asked" /\ Head(calls).op \in Reads
        /\ UNCHANGED <<disk, staging, ghost>>
      BY DEF ServeRead, ServeReadFails, Serving, Is
  <1>3. /\ c.phase = "asked" /\ c.op \in Reads /\ staging = {}
        /\ c.mine => Asks(page, c) /\ page.at # "idle"
      BY <1>2, ServedCall
  <1>4. c.mine => Answers(page, Reply(ok, file), disk)
    <2>1. c.op \notin Writes \cup Forgets
        BY <1>3 DEF Reads, Writes, Forgets
    <2>2. File(c) = IF c.op = "readHistory" THEN "history" ELSE "sharing"
        BY <1>3 DEF Reads, File
    <2> HIDE DEF c
    <2> SUFFICES ASSUME c.mine PROVE Answers(page, Reply(ok, file), disk)
        OBVIOUS
    <2>3. /\ page.queue[1].kind \notin {"forgetEverything", "erase", "share", "save", "forget"}
          /\ page.queue[1].kind = "load" =>
                 File(c) = IF page.at = "first" THEN "history" ELSE "sharing"
        BY <1>3, <2>1, <2>2 DEF Asks, Writes, Forgets
    <2>4. Reply(ok, file).file = file
        BY Zenon, ReplyIs
    <2> QED
        BY <1>1, <2>3, <2>4 DEF Answers
  <1> QED
      BY <1>1, <1>2, <1>3, <1>4, AnswerKeeps DEF StorageInv

\* A call that failed: the page hears nothing it could rely on.
LEMMA FailureKeeps ==
  ASSUME StorageInv, ServeStageFails \/ ServeRenameFails \/ ServeForgetFails
  PROVE  StorageInv'
  <1> DEFINE c == calls[1]
  <1>1. /\ calls # <<>>
        /\ Head(calls).op \in Writes \cup Forgets \/ Head(calls).phase # "asked"
        /\ Answer(FALSE, NoFile) /\ UNCHANGED <<disk, ghost>>
        /\ staging' = staging \ {File(Head(calls))}
      BY DEF ServeStageFails, ServeRenameFails, ServeForgetFails, Serving, Is
  <1>2. calls # <<>>
      BY DEF ServeStageFails, ServeRenameFails, ServeForgetFails, Serving
  <1>3. /\ c.op \in Writes \cup Forgets /\ staging' = {}
        /\ c.mine => Asks(page, c) /\ page.at # "idle"
      BY <1>1, <1>2, ServedCall
  <1>4. c.mine => Answers(page, Reply(FALSE, NoFile), disk)
    <2>1. c.op \notin Reads
        BY <1>3 DEF Reads, Writes, Forgets
    <2> HIDE DEF c
    <2> QED
        BY <1>3, <2>1, ReplyIs DEF Asks, Answers
  <1> QED
      BY <1>1, <1>2, <1>3, <1>4, AnswerKeeps DEF StorageInv

LEMMA ServeRenameKeeps == ASSUME StorageInv, ServeRename PROVE StorageInv'
  <1> DEFINE c == calls[1]
             x == Whole(c.data)
             e == [disk EXCEPT ![File(c)] = x]
  <1>1. /\ calls # <<>> /\ Head(calls).phase # "asked" /\ Answer(TRUE, NoFile) /\ ghost' = ghost
        /\ disk' = [disk EXCEPT ![File(Head(calls))] = Whole(Head(calls).data)]
        /\ staging' = staging \ {File(Head(calls))}
      BY DEF ServeRename, Serving
  <1>2. /\ Head(calls) = c /\ c.op \in Writes /\ staging' = {} /\ 1 \in 1..Len(calls)
        /\ c.mine => Asks(page, c) /\ page.at # "idle"
      BY <1>1, ServedCall
  <1>3. /\ File(c) = IF c.op = "writeSharing" THEN "sharing" ELSE "history"
        /\ x.kind = "whole" /\ x.data = c.data
      BY <1>2 DEF File, Writes, Whole
  <1>4. File(c) = "sharing" => IsSharing(c.data) /\ Agreed(c.data, ghost.agreed)
      BY <1>2, <1>3 DEF StorageInv, CallsInv
  <1>5. disk' = e
      BY <1>1, <1>2
  <1> HIDE DEF x, c
  <1>6. /\ DiskInv(e, ghost.agreed) /\ e[File(c)] = x
        /\ \A f \in {"history", "sharing"} : e[f].kind = "damaged" => disk[f].kind = "damaged"
      BY <1>3, <1>4, DiskReplaced DEF StorageInv
  <1> HIDE DEF e
  <1>7. c.mine => Answers(page, Reply(TRUE, NoFile), disk')
    <2>1. c.op \notin Reads \cup Forgets
        BY <1>2 DEF Reads, Writes, Forgets
    <2> QED
        BY <1>2, <1>3, <1>5, <1>6, <2>1, ReplyIs DEF Asks, Answers, Forgets, x
  <1> QED
      BY <1>1, <1>2, <1>5, <1>6, <1>7, AnswerKeeps DEF c

LEMMA ServeForgetKeeps == ASSUME StorageInv, ServeForget PROVE StorageInv'
  <1> DEFINE c == calls[1]
             e == [disk EXCEPT ![File(c)] = NoFile]
  <1>1. /\ calls # <<>> /\ Head(calls).op \in Forgets /\ Answer(TRUE, NoFile) /\ ghost' = ghost
        /\ disk' = [disk EXCEPT ![File(Head(calls))] = NoFile]
        /\ staging' = staging \ {File(Head(calls))}
      BY DEF ServeForget, Serving, Is
  <1>2. /\ Head(calls) = c /\ c.op \in Forgets /\ staging' = {}
        /\ c.mine => Asks(page, c) /\ page.at # "idle"
      BY <1>1, ServedCall
  <1>3. File(c) = IF c.op = "forgetSharing" THEN "sharing" ELSE "history"
      BY <1>2 DEF File, Forgets
  <1>4. disk' = e
      BY <1>1, <1>2
  <1> HIDE DEF c
  <1>5. /\ DiskInv(e, ghost.agreed) /\ e[File(c)] = NoFile
        /\ \A f \in {"history", "sharing"} : e[f].kind = "damaged" => disk[f].kind = "damaged"
    <2>1. NoFile.kind = "absent"
        BY DEF NoFile
    <2> QED
        BY <1>3, <2>1, DiskReplaced DEF StorageInv
  <1> HIDE DEF e
  <1>6. c.mine => Answers(page, Reply(TRUE, NoFile), disk')
    <2>1. c.op \notin Reads \cup Writes
        BY <1>2 DEF Reads, Writes, Forgets
    <2> QED
        BY <1>2, <1>3, <1>4, <1>5, <2>1, ReplyIs DEF Asks, Answers, Writes, Forgets
  <1> QED
      BY <1>1, <1>2, <1>4, <1>5, <1>6, AnswerKeeps DEF c

\* A write under way: its staging file is there.
LEMMA InPhaseKeeps ==
  ASSUME StorageInv, calls # <<>>, calls[1].op \in Writes, NEW phase, phase # "asked",
         InPhase(phase), staging' \subseteq {File(calls[1])},
         DiskInv(disk', ghost.agreed),
         \A f \in {"history", "sharing"} : disk'[f].kind = "damaged" => disk[f].kind = "damaged",
         ghost'.agreed = ghost.agreed, DOMAIN ghost' = DOMAIN ghost
  PROVE  StorageInv'
  <1> DEFINE C == calls
             K == calls'
  <1>1. /\ ~reply.here /\ process = "up" /\ Head(C) = C[1] /\ IsSeq(C) /\ 1 \in 1..Len(C)
        /\ IsCall(C[1])
      BY ServedCall
  <1>2. K = [C EXCEPT ![1].phase = phase] /\ UNCHANGED <<reply, page, process>>
      BY DEF InPhase
  <1>3. /\ IsSeq(K) /\ Len(K) = Len(C) /\ Len(C) \in Nat
    <2> DEFINE n == Len(C)
    <2>1. n \in Nat /\ DOMAIN C = 1..n
        BY <1>1 DEF IsSeq
    <2> HIDE DEF n
    <2>2. K = [i \in 1..n |-> K[i]]
        BY <1>2, <2>1
    <2> HIDE DEF K
    <2>3. IsSeq(K) /\ Len(K) = n
        BY <2>1, <2>2, FunctionIsSeq
    <2> QED
        BY <2>1, <2>3 DEF n
  <1>4. K[1] = [C[1] EXCEPT !.phase = phase] /\ \A i \in 1..Len(C) : i # 1 => K[i] = C[i]
      BY <1>1, <1>2 DEF IsSeq
  <1>5. /\ IsCall(K[1]) /\ K[1].op = C[1].op /\ K[1].data = C[1].data /\ K[1].mine = C[1].mine
        /\ K[1].phase = phase
      BY <1>1, <1>4 DEF IsCall
  <1>6. K # <<>> /\ Head(K) = K[1]
    <2>1. K # <<>>
        BY <1>1, <1>3, EmptySeq
    <2> QED
        BY <1>3, <2>1, Tailed
  <1>7. File(K[1]) = File(C[1])
      BY <1>5 DEF File
  <1> HIDE DEF K
  <1>12. CallsInv(C, disk, ghost.agreed) /\ TalkInv(page, C, reply, disk)
      BY DEF StorageInv
  <1>13. \A i \in 1..Len(K) :
            /\ i \in 1..Len(C) /\ IsCall(K[i]) /\ K[i].op = C[i].op /\ K[i].data = C[i].data
            /\ K[i].mine = C[i].mine
            /\ i # 1 => K[i].phase = C[i].phase
      BY <1>3, <1>4, <1>5, <1>12 DEF CallsInv
  <1>8. CallsInv(K, disk', ghost.agreed)
      BY <1>3, <1>12, <1>13 DEF CallsInv
  <1>9. WritableInv(page, disk')
      BY DEF StorageInv, WritableInv
  <1>10. TalkInv(page, K, reply, disk')
      BY <1>1, <1>3, <1>12, <1>13 DEF TalkInv, Asks
  <1>11. NoHalfWrittenFile' /\ DownInv'
      BY <1>1, <1>2, <1>5, <1>6, <1>7 DEF NoHalfWrittenFile, DownInv, Is, K
  <1> QED
      BY <1>2, <1>8, <1>9, <1>10, <1>11 DEF StorageInv, K

LEMMA ServeStageKeeps == ASSUME StorageInv, ServeStage PROVE StorageInv'
  <1>1. /\ calls # <<>> /\ Head(calls).op \in Writes /\ Head(calls).phase = "asked"
        /\ InPhase("staged") /\ UNCHANGED <<disk, ghost>>
        /\ staging' = staging \cup {File(Head(calls))}
      BY DEF ServeStage, Serving, Is
  <1>2. calls[1].op \in Writes /\ staging' = {File(calls[1])}
      BY <1>1, ServedCall
  <1> QED
      BY <1>1, <1>2, InPhaseKeeps DEF StorageInv

LEMMA ServeRenameRefusedKeeps == ASSUME StorageInv, ServeRenameRefused PROVE StorageInv'
  <1> DEFINE file == File(calls[1])
             e == [disk EXCEPT ![file] = NoFile]
  <1>1. /\ calls # <<>> /\ Head(calls).phase = "staged" /\ InPhase("deleted")
        /\ disk' = [disk EXCEPT ![File(Head(calls))] = NoFile] /\ staging' = staging
        /\ ghost' = [ghost EXCEPT !.fellBack = @ \cup {File(Head(calls))}]
      BY DEF ServeRenameRefused, Serving
  <1>2. /\ Head(calls) = calls[1] /\ calls[1].op \in Writes /\ process = "up"
      BY <1>1, ServedCall
  <1>3. file \in {"history", "sharing"} /\ NoFile.kind = "absent"
      BY DEF File, NoFile
  <1>4. disk' = e
      BY <1>1, <1>2
  <1>5. ghost'.agreed = ghost.agreed /\ DOMAIN ghost' = DOMAIN ghost
      BY <1>1 DEF StorageInv
  <1>6. /\ DiskInv(e, ghost.agreed)
        /\ \A f \in {"history", "sharing"} : e[f].kind = "damaged" => disk[f].kind = "damaged"
    <2> HIDE DEF file
    <2> QED
        BY <1>3, DiskReplaced DEF StorageInv
  <1> HIDE DEF e
  <1>7. staging' \subseteq {File(calls[1])}
      BY <1>1, ServedCall
  <1> QED
      BY <1>1, <1>2, <1>4, <1>5, <1>6, <1>7, InPhaseKeeps

LEMMA ShellKeeps == ASSUME StorageInv, ShellStep PROVE StorageInv'
  BY ServeReadKeeps, FailureKeeps, ServeRenameKeeps, ServeForgetKeeps, ServeStageKeeps,
     ServeRenameRefusedKeeps DEF ShellStep

-----------------------------------------------------------------------------
(* Lost pages and processes, and the start.                                 *)

\* A page as it starts has read nothing, agreed to nothing and asked for nothing.
LEMMA FreshPage ==
  ASSUME NEW minted, NEW agreed, NEW d
  PROVE  LET p == NewPage(minted)
         IN PageInv(p, agreed) /\ WritableInv(p, d) /\ p.at = "idle"
  <1> DEFINE o == Op("load", NoData, 0, None, {})
             q == <<o>>
             p == NewPage(minted)
  <1>1. IsOp(o) /\ o.kind = "load"
      BY OpIsOp
  <1> HIDE DEF o
  <1>2. IsSeq(q) /\ Len(q) = 1 /\ q[1] = o
    <2>1. q \in Seq({o}) /\ Len(q) = 1 /\ q[1] = o
        OBVIOUS
    <2> QED
        BY <2>1, AnySeq
  <1>3. /\ IsPage(p) /\ p.share = CreateSharing /\ p.queue = q /\ p.at = "idle"
        /\ p.hWritable = FALSE /\ p.sWritable = FALSE
      BY DEF NewPage, IsPage, Fields, o
  <1> HIDE DEF p, q
  <1>4. IsSharing(CreateSharing) /\ Agreed(CreateSharing, agreed)
      BY DEF CreateSharing, IsSharing, Agreed
  <1>5. \A i \in 1..Len(p.queue) : i = 1 /\ p.queue[i] = o
    <2>1. \A i \in 1..Len(q) : i = 1 /\ q[i] = o
        BY <1>2
    <2> QED
        BY <1>3, <2>1
  <1>6. PageInv(p, agreed)
    <2>1. IsSeq(p.queue) /\ p.at = "idle" /\ IsPage(p) /\ p.share = CreateSharing
        BY <1>2, <1>3
    <2>2. IsSharing(p.share) /\ Agreed(p.share, agreed)
        BY <1>4, <2>1
    <2> QED
        BY <1>1, <1>5, <2>1, <2>2 DEF PageInv
  <1> QED
      BY <1>3, <1>6 DEF WritableInv, p

LEMMA LosePageKeeps == ASSUME StorageInv, LosePage PROVE StorageInv'
  <1> DEFINE n == Len(calls)
             K == calls'
  <1>1. /\ K = [i \in DOMAIN calls |-> [calls[i] EXCEPT !.mine = FALSE]]
        /\ page' = NewPage(page.minted) /\ reply' = NoReply /\ process = "up"
        /\ UNCHANGED <<disk, staging, process, ghost>>
      BY DEF LosePage
  <1>2. /\ CallsInv(calls, disk, ghost.agreed) /\ IsSeq(calls) /\ n \in Nat /\ DOMAIN calls = 1..n
      BY DEF StorageInv, CallsInv, IsSeq
  <1>3. \A i \in 1..n :
            /\ IsCall(K[i]) /\ K[i].op = calls[i].op /\ K[i].data = calls[i].data
            /\ K[i].phase = calls[i].phase /\ K[i].mine = FALSE
      BY <1>1, <1>2 DEF CallsInv, IsCall
  <1>4. IsSeq(K) /\ Len(K) = n
    <2>1. K = [i \in 1..n |-> K[i]]
        BY <1>1, <1>2
    <2> HIDE DEF K, n
    <2> QED
        BY <1>2, <2>1, FunctionIsSeq
  <1> HIDE DEF K
  <1>5. CallsInv(K, disk, ghost.agreed)
      BY <1>2, <1>3, <1>4 DEF CallsInv
  <1>6. PageInv(page', ghost.agreed) /\ WritableInv(page', disk) /\ page'.at = "idle"
      BY <1>1, FreshPage
  <1>7. TalkInv(page', K, reply', disk)
    <2>1. ~reply'.here
        BY <1>1 DEF NoReply
    <2> QED
        BY <1>3, <1>4, <2>1 DEF TalkInv
  <1>8. NoHalfWrittenFile'
    <2> SUFFICES ASSUME NEW file \in staging
                 PROVE  /\ K # <<>> /\ Head(K).op \in Writes
                        /\ File(Head(K)) = file /\ Head(K).phase # "asked"
        BY <1>1 DEF NoHalfWrittenFile, Is, File, K
    <2>1. /\ calls # <<>> /\ calls[1].op \in Writes /\ File(calls[1]) = file
          /\ calls[1].phase # "asked"
        BY <1>1, StagingHead
    <2>2. n # 0
        BY <1>2, <2>1, EmptyIs
    <2> HIDE DEF n
    <2>3. K # <<>> /\ 1 \in 1..n
        BY <1>2, <1>4, <2>2, EmptyIs
    <2>4. Head(K) = K[1]
        BY <1>4, <2>3, Tailed
    <2> QED
        BY <1>3, <2>1, <2>3, <2>4 DEF File
  <1>9. DownInv'
      BY <1>1 DEF DownInv
  <1> QED
      BY <1>1, <1>5, <1>6, <1>7, <1>8, <1>9 DEF StorageInv, K

LEMMA CrashKeeps == ASSUME StorageInv, Crash PROVE StorageInv'
  <1>1. /\ calls' = <<>> /\ reply' = NoReply /\ process' = "down"
        /\ page' = NewPage(page.minted) /\ UNCHANGED <<disk, staging, ghost>>
      BY DEF Crash
  <1>2. PageInv(page', ghost.agreed) /\ WritableInv(page', disk) /\ page'.at = "idle"
      BY <1>1, FreshPage
  <1>3. CallsInv(<<>>, disk, ghost.agreed)
      BY DEF CallsInv, IsSeq
  <1>4. TalkInv(page', <<>>, NoReply, disk) /\ ~NoReply.here
      BY NoTalk DEF NoReply
  <1>5. NoHalfWrittenFile' /\ DownInv'
      BY <1>1, <1>2, <1>4 DEF NoHalfWrittenFile, DownInv
  <1> QED
      BY <1>1, <1>2, <1>3, <1>4, <1>5 DEF StorageInv

LEMMA StartKeeps == ASSUME StorageInv, Start PROVE StorageInv'
  BY DEF StorageInv, Start, NoHalfWrittenFile, DownInv

\* What an earlier run left is whole or damaged, and its consent is to older terms.
LEMMA StorageInvInit == Init => StorageInv
  <1> SUFFICES ASSUME Init PROVE StorageInv
      OBVIOUS
  <1>1. PICK h, s : /\ disk = [file \in {"history", "sharing"} |-> IF file = "history" THEN h ELSE s]
                    /\ s.kind \in {"whole", "damaged"} =>
                           IsSharing(s.data) /\ AgreedOnDisk(s.data, FALSE)
    <2> DEFINE f == CHOOSE f \in Flights : TRUE
               older == [asked |-> TRUE, on |-> TRUE, terms |-> "old", ids |-> {<<AircraftOf[f], 0>>}]
               one == ExportHistory(AddFlightRecord(CreateHistory, Measured(f)))
    <2>1. PICK h \in {NoFile, Whole(one), Damaged(CreateHistory), Damaged(one)},
               s \in {NoFile, Whole(older), Damaged(CreateSharing)} :
              disk = [file \in {"history", "sharing"} |-> IF file = "history" THEN h ELSE s]
        BY DEF Init
    <2>2. IsSharing(older) /\ AgreedOnDisk(older, FALSE)
        BY DEF IsSharing, AgreedOnDisk
    <2> HIDE DEF older
    <2>3. IsSharing(CreateSharing) /\ AgreedOnDisk(CreateSharing, FALSE)
        BY DEF IsSharing, AgreedOnDisk, CreateSharing
    <2>4. s.kind \in {"whole", "damaged"} => s.data \in {older, CreateSharing}
        BY <2>1 DEF NoFile, Whole, Damaged
    <2> QED
        BY <2>1, <2>2, <2>3, <2>4
  <1>2. /\ staging = {} /\ calls = <<>> /\ reply = NoReply /\ page = NewPage(1)
        /\ process = "up" /\ ghost.agreed = FALSE
        /\ DOMAIN ghost = {"kept", "forgotten", "erased", "agreed", "overtook", "fellBack"}
      BY DEF Init
  <1>3. DiskInv(disk, FALSE)
      BY <1>1 DEF DiskInv
  <1>4. PageInv(page, FALSE) /\ WritableInv(page, disk) /\ page.at = "idle"
      BY <1>2, FreshPage
  <1>5. CallsInv(<<>>, disk, FALSE)
      BY DEF CallsInv, IsSeq
  <1>6. TalkInv(page, <<>>, NoReply, disk)
      BY NoTalk
  <1>7. NoHalfWrittenFile /\ DownInv
      BY <1>2 DEF NoHalfWrittenFile, DownInv
  <1> QED
      BY <1>2, <1>3, <1>4, <1>5, <1>6, <1>7 DEF StorageInv

-----------------------------------------------------------------------------
(* The theorems.                                                           *)

LEMMA StorageInvStep == StorageInv /\ [Next]_vars => StorageInv'
  <1> SUFFICES ASSUME StorageInv, [Next]_vars PROVE StorageInv'
      OBVIOUS
  <1>1. CASE UNCHANGED vars
      BY <1>1 DEF vars, StorageInv, NoHalfWrittenFile, Is, File, DownInv
  <1>2. CASE Next
      BY <1>2, PageKeeps, ShellKeeps, PilotKeeps, LosePageKeeps, CrashKeeps, StartKeeps DEF Next
  <1> QED
      BY <1>1, <1>2

LEMMA StorageInvIsInductive == Spec => []StorageInv
  BY StorageInvInit, StorageInvStep, PTL DEF Spec

\* However writes fail and pages and processes are lost: while the process runs the only
\* staging file is that of the write in hand, so what a crash left is purged before
\* anything is written (the constructors of HistoryStore and PrivateStore, writeTo).
THEOREM StagingIsPurged == Spec => []NoHalfWrittenFile
<1>1. StorageInv => NoHalfWrittenFile
  BY DEF StorageInv
<1> QED
  BY <1>1, StorageInvIsInductive, PTL

\* However the taps, replies, failures, lost pages and crashes interleave, sharing is on,
\* in memory or in a file a load would honour, only while the pilot's agreement to the
\* terms of now stands (persistSharing, loadSharing, eraseSharingIdentity).
THEOREM SharingIsAsked == Spec => []NoUnaskedSharing
  <1>1. StorageInv => NoUnaskedSharing
    <2> SUFFICES ASSUME StorageInv PROVE NoUnaskedSharing
        OBVIOUS
    <2>1. Agreed(page.share, ghost.agreed) /\ DiskInv(disk, ghost.agreed)
        BY DEF StorageInv, PageInv
    <2> DEFINE s == Salvaged(disk["sharing"], CreateSharing)
    <2>2. AgreedOnDisk(s, ghost.agreed)
        BY <2>1 DEF DiskInv, Salvaged, CreateSharing, AgreedOnDisk
    <2> HIDE DEF s
    <2> QED
        BY <2>1, <2>2 DEF NoUnaskedSharing, Agreed, AgreedOnDisk, s
  <1> QED
      BY <1>1, StorageInvIsInductive, PTL

\* Nothing the pilot does changes the sharing record before its operation is over.
LEMMA PilotLeavesShare == ASSUME StorageInv, PilotStep PROVE page'.share = page.share
  <1>1. IsPage(page)
      BY DEF StorageInv, PageInv
  <1>2. ASSUME NEW data, Forget(data) PROVE page'.share = page.share
      BY <1>1, <1>2 DEF Forget, PersistHistory, Enqueue, IsPage, Fields
  <1>3. CASE Save
      BY <1>1, <1>3 DEF Save, PersistHistory, Enqueue, IsPage, Fields
  <1>4. CASE ForgetEverythingNow \/ EraseSharingIdentity
      BY <1>1, <1>4 DEF ForgetEverythingNow, EraseSharingIdentity, Enqueue, IsPage, Fields
  <1>5. CASE ToggleOn \/ RetireCandidate
      BY <1>1, <1>5 DEF ToggleOn, RetireCandidate, IsPage, Fields
  <1>6. CASE ToggleOff
      BY <1>1, <1>6 DEF ToggleOff, PersistSharing, Enqueue, IsPage, Fields
  <1>7. ASSUME NEW agreed, AnswerConsent(agreed) PROVE page'.share = page.share
      BY <1>1, <1>7 DEF AnswerConsent, PersistSharing, Enqueue, IsPage, Fields
  <1>8. ASSUME NEW f, ConsiderFlight(f) PROVE page'.share = page.share
    <2> DEFINE p == [page EXCEPT !.cand = f]
    <2>1. IsPage(p) /\ p.share = page.share
        BY <1>1 DEF IsPage, Fields
    <2>2. page' = Recompare(p)
        BY <1>8 DEF ConsiderFlight
    <2> HIDE DEF p
    <2> QED
        BY <2>1, <2>2, RecompareSame DEF SameBut
  <1> QED
      BY <1>2, <1>3, <1>4, <1>5, <1>6, <1>7, <1>8 DEF PilotStep, ForgetFlight, ForgetMachine

\* Of the page's own steps, the end of a load, of a write and of an erase do.
LEMMA PageLeavesShare ==
  ASSUME StorageInv, PageStep
  PROVE  \/ page'.share = page.share
         \/ LoadSharing \/ ForgotSharing
         \/ FinishSharing /\ page'.share = Head(page.queue).data
  <1>1. IsPage(page) /\ IsSharing(page.share) /\ Agreed(page.share, ghost.agreed)
      BY DEF StorageInv, PageInv
  <1> DEFINE d == Dequeue(page)
             op == Head(page.queue)
  <1>2. IsPage(d) /\ d.share = page.share
      BY <1>1 DEF Dequeue, IsPage, Fields
  <1> HIDE DEF d
  <1>3. ASSUME NEW p, IsPage(p), p.share = page.share, NEW o, NEW written,
               page' = Continue(p, o, written)
        PROVE  page'.share = page.share
    <2>1. IsSharing(p.share) /\ Agreed(p.share, ghost.agreed)
        BY <1>1, <1>3
    <2>2. Grows(p, Continue(p, o, written), ghost.agreed)
        BY <1>3, <2>1, ContinueGrows
    <2> QED
        BY <1>3, <2>2 DEF Grows, SameBut
  <1>4. CASE BeginLoad \/ BeginForgetEverything \/ BeginErase
      BY <1>1, <1>4 DEF BeginLoad, BeginForgetEverything, BeginErase, Ask, IsPage, Fields
  <1>5. CASE BeginPersist
    <2>1. ASSUME NEW at, page' = [page EXCEPT !.at = at] PROVE page'.share = page.share
        BY <1>1, <2>1 DEF IsPage, Fields
    <2>2. \A o : /\ IsPage(AdoptSharing(d, o, FALSE)) /\ AdoptSharing(d, o, FALSE).share = page.share
                 /\ IsPage(AdoptHistory(d, o, FALSE)) /\ AdoptHistory(d, o, FALSE).share = page.share
      <3> TAKE o
      <3>1. SameBut(d, AdoptSharing(d, o, FALSE)) /\ SameBut(d, AdoptHistory(d, o, FALSE))
          BY <1>2, NotWritten
      <3>2. \A q : SameBut(d, q) => IsPage(q) /\ q.share = page.share
          BY <1>2 DEF SameBut
      <3> QED
          BY <3>1, <3>2
    <2>3. \/ page' = [page EXCEPT !.at = "first"]
          \/ \E p \in {d, AdoptSharing(d, op, FALSE), AdoptHistory(d, op, FALSE)} :
                 page' = Continue(p, op, FALSE)
        BY <1>5 DEF BeginPersist, Ask, d
    <2> HIDE DEF op
    <2> QED
        BY <1>2, <1>3, <2>1, <2>2, <2>3
  <1>6. CASE LoadHistory
    <2> DEFINE p == AdoptHistoryFile(page, reply.file)
    <2>1. IsPage(p) /\ p.share = page.share
        BY <1>1 DEF AdoptHistoryFile, IsPage, Fields
    <2>2. page' = [p EXCEPT !.at = "second"]
        BY <1>6 DEF LoadHistory
    <2> HIDE DEF p
    <2> QED
        BY <2>1, <2>2 DEF IsPage, Fields
  <1>7. CASE FinishHistory
    <2> DEFINE f == AdoptHistory(d, op, reply.ok)
    <2>1. page' = Continue(f, op, reply.ok)
        BY <1>7 DEF FinishHistory, d
    <2> HIDE DEF op
    <2>2. IsPage(f) /\ f.share = page.share
        BY <1>2 DEF AdoptHistory, IsPage, Fields
    <2> HIDE DEF f
    <2> QED
        BY <1>3, <2>1, <2>2
  <1>8. CASE FinishSharing
    <2> DEFINE f == AdoptSharing(d, op, reply.ok)
    <2>1. page' = Continue(f, op, reply.ok)
        BY <1>8 DEF FinishSharing, d
    <2>2. /\ reply.ok => IsSharing(op.data) /\ Agreed(op.data, ghost.agreed)
          /\ op = page.queue[1]
      <3>1. reply.here /\ op.kind = "share"
          BY <1>8 DEF FinishSharing, Answered
      <3> QED
          BY <3>1, AnsweredTalks DEF StorageInv, PageInv
    <2> HIDE DEF op
    <2>3. IsPage(f) /\ f.share = IF reply.ok THEN op.data ELSE page.share
        BY <1>2 DEF AdoptSharing, IsPage, Fields
    <2> HIDE DEF f
    <2>4. page'.share = f.share
        BY <1>1, <2>1, <2>2, <2>3, ContinueGrows DEF Grows, SameBut
    <2> QED
        BY <1>8, <2>3, <2>4 DEF op
  <1>9. CASE ForgotHistory
    <2> DEFINE p == EmptyHistory(page, reply.ok)
               e == [page EXCEPT !.hist = CreateHistory, !.hrev = @ + 1, !.hForgetFailed = FALSE,
                                 !.hBlocked = FALSE, !.hWritable = page.present]
    <2>1. IsPage(e) /\ e.share = page.share
        BY <1>1 DEF IsPage, Fields
    <2>2. p = Recompare(e) \/ p = [page EXCEPT !.hForgetFailed = TRUE]
        BY DEF EmptyHistory
    <2>3. page' = [p EXCEPT !.at = "second"]
        BY <1>9 DEF ForgotHistory
    <2> HIDE DEF p, e
    <2>4. IsPage(p) /\ p.share = page.share
        BY <1>1, <2>1, <2>2, RecompareSame DEF SameBut, IsPage, Fields
    <2> QED
        BY <2>3, <2>4 DEF IsPage, Fields
  <1> QED
      BY <1>4, <1>5, <1>6, <1>7, <1>8, <1>9 DEF PageStep

\* A file the page could not read whole is replaced by an explicit erase of it and nothing
\* else, and while the history could not be read no aircraft's identity is dropped but by
\* one (hBlocked and sBlocked, historyWritable, reconcileSharingIds).
THEOREM WhatIsUnreadIsKept == Spec => UnreadIsKept
  <1> DEFINE FileStays ==
                 \A file \in {"history", "sharing"} :
                     (disk[file].kind = "damaged" /\ disk'[file] # disk[file]) =>
                         Head(calls).op \in Forgets
             IdsStay ==
                 (page.hBlocked /\ page'.present /\ ~(page.share.ids \subseteq page'.share.ids)) =>
                     Head(page.queue).kind \in {"erase", "forgetEverything"}
  <1>1. StorageInv /\ [Next]_vars => FileStays
    <2> SUFFICES ASSUME StorageInv, [Next]_vars, NEW file \in {"history", "sharing"},
                        disk[file].kind = "damaged", disk'[file] # disk[file]
                 PROVE  Head(calls).op \in Forgets
        OBVIOUS
    <2>1. ServeForget \/ ServeRename \/ ServeRenameRefused
      <3>1. CASE PageStep
          BY <3>1 DEF PageStep, BeginLoad, BeginForgetEverything, BeginErase, BeginPersist, Ask,
             LoadHistory, LoadSharing, FinishHistory, FinishSharing, ForgotHistory, ForgotSharing
      <3>2. CASE ShellStep
          BY <3>2 DEF ShellStep, ServeRead, ServeReadFails, ServeStage, ServeStageFails,
             ServeRenameFails, ServeForgetFails
      <3>3. CASE PilotStep
          BY <3>3 DEF PilotStep, Save, Forget, ForgetFlight, ForgetMachine, ForgetEverythingNow,
             EraseSharingIdentity, ToggleOn, ToggleOff, AnswerConsent, Tap, RetireCandidate,
             ConsiderFlight
      <3>4. CASE LosePage \/ Crash \/ Start \/ UNCHANGED vars
          BY <3>4 DEF LosePage, Crash, Start, vars
      <3> QED
          BY <3>1, <3>2, <3>3, <3>4 DEF Next
    <2>2. calls # <<>>
        BY <2>1 DEF ServeForget, ServeRename, ServeRenameRefused, Serving
    <2> DEFINE c == calls[1]
    <2>3. /\ Head(calls) = c /\ c.op \in Reads \cup Writes \cup Forgets /\ 1 \in 1..Len(calls)
          /\ c.phase # "asked" => c.op \in Writes
        BY <2>2, ServedCall
    <2>4. disk' = [disk EXCEPT ![File(c)] = disk'[File(c)]]
      <3>1. \E x : disk' = [disk EXCEPT ![File(c)] = x]
          BY <2>1, <2>3 DEF ServeForget, ServeRename, ServeRenameRefused
      <3>2. File(c) \in DOMAIN disk
          BY DEF StorageInv, DiskInv, File
      <3> QED
          BY <3>1, <3>2
    <2>5. file = File(c)
        BY <2>4 DEF StorageInv, DiskInv
    <2>6. c.op \notin Writes
        BY <2>3, <2>5 DEF StorageInv, CallsInv, File, Writes
    <2>7. c.op \in Forgets
        BY <2>1, <2>3, <2>6 DEF ServeForget, ServeRename, ServeRenameRefused, Serving, Is
    <2> QED
        BY <2>3, <2>7
  <1>2. StorageInv /\ [Next]_vars => IdsStay
    <2> SUFFICES ASSUME StorageInv, [Next]_vars, page.hBlocked, page'.present,
                        ~(page.share.ids \subseteq page'.share.ids)
                 PROVE  Head(page.queue).kind \in {"erase", "forgetEverything"}
        OBVIOUS
    <2>1. page'.share # page.share
        OBVIOUS
    <2>2. ~LosePage /\ ~Crash
        BY DEF LosePage, Crash, NewPage
    <2>3. PageStep
      <3>1. ~ShellStep
          BY <2>1 DEF ShellStep, ServeRead, ServeReadFails, ServeStage, ServeStageFails,
             ServeRename, ServeRenameRefused, ServeRenameFails, ServeForget, ServeForgetFails,
             Answer, InPhase
      <3>2. ~Start /\ ~UNCHANGED vars
          BY <2>1 DEF Start, vars
      <3> QED
          BY <2>1, <2>2, <3>1, <3>2, PilotLeavesShare DEF Next
    <2>4. CASE LoadSharing
      <3>1. reply.here /\ Head(page.queue).kind = "load"
          BY <2>4 DEF LoadSharing, Answered
      <3>2. page.share = CreateSharing
          BY <3>1, AnsweredTalks DEF StorageInv, PageInv
      <3> QED
          BY <3>2 DEF CreateSharing
    <2>5. CASE FinishSharing /\ page'.share = Head(page.queue).data
      <3>1. reply.here /\ Head(page.queue).kind = "share"
          BY <2>5 DEF FinishSharing, Answered
      <3> QED
          BY <2>5, <3>1, AnsweredTalks DEF StorageInv, PageInv
    <2>6. CASE ForgotSharing
        BY <2>6 DEF ForgotSharing, Answered
    <2> QED
        BY <2>1, <2>3, <2>4, <2>5, <2>6, PageLeavesShare
  <1>3. StorageInv /\ [Next]_vars => [FileStays]_vars /\ [IdsStay]_vars
      BY <1>1, <1>2
  <1> QED
      BY <1>3, StorageInvIsInductive, PTL
      DEF Spec, UnreadIsKept, UnreadableIsKept, UnreadHistoryDropsNoIdentity

-----------------------------------------------------------------------------
(* The history as this program leaves it: whole saves, no flight twice.     *)

FlightAt(r) == r.parts[CHOOSE p \in Parts : TRUE]
Saves == {Stored(Measured(f), n) : f \in Flights, n \in Nat}
Key == [r \in Saves |-> FlightAt(r)]
OnceEach(rs) == \A i, j \in DOMAIN rs : FlightAt(rs[i]) = FlightAt(rs[j]) => i = j
Remembers(h) == IsHistory(h, Saves) /\ OnceEach(h.records)

LEMMA SaveOf ==
  ASSUME NEW f \in Flights, NEW n \in Nat
  PROVE  LET r == Stored(Measured(f), n)
         IN /\ r \in Saves /\ FlightAt(r) = f /\ r.aircraft = AircraftOf[f]
            /\ r.aircraft \in Aircraft /\ r.ordinal = n /\ r.token = NoToken /\ r.header = "h"
            /\ r.parts = [p \in Parts |-> f]
            /\ r = [r EXCEPT !.token = NoToken]
  <1> DEFINE r == Stored(Measured(f), n)
  <1>1. /\ r.aircraft = AircraftOf[f] /\ r.ordinal = n /\ r.token = NoToken /\ r.header = "h"
        /\ r.parts = [p \in Parts |-> f] /\ r = [r EXCEPT !.token = NoToken]
      BY DEF Stored, Measured
  <1>2. r \in Saves
      BY DEF Saves
  <1> HIDE DEF r
  <1>3. AircraftOf[f] \in Aircraft /\ \E p \in Parts : TRUE
      BY StorageAssumption
  <1>4. FlightAt(r) = f
      BY <1>1, <1>3 DEF FlightAt
  <1> QED
      BY <1>1, <1>2, <1>3, <1>4 DEF r

LEMMA SavesAre ==
  ASSUME NEW r \in Saves
  PROVE  /\ FlightAt(r) \in Flights /\ r.aircraft = AircraftOf[FlightAt(r)]
         /\ r.aircraft \in Aircraft /\ r.ordinal \in Nat /\ r.token = NoToken /\ r.header = "h"
         /\ r.parts = [p \in Parts |-> FlightAt(r)]
         /\ r = [r EXCEPT !.token = NoToken] /\ r # NoRecord
  <1>1. PICK f \in Flights, n \in Nat : r = Stored(Measured(f), n)
      BY DEF Saves
  <1>2. /\ r.aircraft = AircraftOf[f] /\ r.ordinal = n /\ r.token = NoToken /\ r.header = "h"
        /\ r.parts = [p \in Parts |-> f] /\ r = [r EXCEPT !.token = NoToken]
      BY <1>1 DEF Stored, Measured
  <1>3. r # NoRecord
    <2>1. DOMAIN r # DOMAIN NoRecord
        BY <1>1 DEF Stored, NoRecord
    <2> QED
        BY <2>1
  <1>4. FlightAt(r) = f /\ AircraftOf[f] \in Aircraft
      BY <1>2, StorageAssumption DEF FlightAt
  <1> QED
      BY <1>2, <1>3, <1>4

LEMMA SavesAreRecords == IsRecords(Saves)
  BY SavesAre DEF IsRecords

LEMMA SameIsSame ==
  ASSUME NEW l, NEW r, NEW f \in Flights, NEW g \in Flights,
         l.parts = [p \in Parts |-> f], r.parts = [p \in Parts |-> g],
         l.aircraft = AircraftOf[f], r.aircraft = AircraftOf[g], l.header = "h", r.header = "h"
  PROVE  SameStoredFlight(l, r) <=> f = g
  <1>1. f # Absent /\ g # Absent /\ \E p \in Parts : TRUE
      BY StorageAssumption
  <1>2. \A p \in Parts : l.parts[p] = f /\ r.parts[p] = g
      OBVIOUS
  <1> QED
      BY <1>1, <1>2 DEF SameStoredFlight

LEMMA KeyTells == Key \in [Saves -> Flights] /\ Tells(Key, Saves)
  <1>1. Key \in [Saves -> Flights]
      BY SavesAre DEF Key
  <1>2. ASSUME NEW l \in Saves, NEW r \in Saves PROVE SameStoredFlight(l, r) <=> Key[l] = Key[r]
    <2>1. \A x \in {l, r} : /\ FlightAt(x) \in Flights /\ x.aircraft = AircraftOf[FlightAt(x)]
                            /\ x.header = "h" /\ x.parts = [p \in Parts |-> FlightAt(x)]
        BY SavesAre
    <2>2. SameStoredFlight(l, r) <=> FlightAt(l) = FlightAt(r)
        BY <2>1, SameIsSame
    <2> QED
        BY <2>2 DEF Key
  <1> QED
      BY <1>1, <1>2 DEF Tells

\* The flights of a history, and its aircraft.
LEMMA Remembered1 ==
  ASSUME NEW h, Remembers(h)
  PROVE  /\ h.records \in Seq(Saves) /\ Ascending(h.records) /\ h.sequences \in [Aircraft -> Nat]
         /\ \A i \in DOMAIN h.records : h.records[i] \in Saves
         /\ FlightsIn(h) = {FlightAt(h.records[i]) : i \in DOMAIN h.records}
         /\ FlightsIn(h) \subseteq Flights
         /\ ListAircraft(h) = {AircraftOf[f] : f \in FlightsIn(h)}
  <1>1. /\ h.records \in Seq(Saves) /\ Ascending(h.records) /\ h.sequences \in [Aircraft -> Nat]
      BY DEF Remembers, IsHistory
  <1>2. \A i \in DOMAIN h.records : h.records[i] \in Saves
      BY <1>1
  <1>3. FlightsIn(h) = {FlightAt(h.records[i]) : i \in DOMAIN h.records}
      BY DEF FlightsIn, FlightAt
  <1>4. ListAircraft(h) = {AircraftOf[f] : f \in FlightsIn(h)}
      BY <1>2, <1>3, SavesAre DEF ListAircraft
  <1> QED
      BY <1>1, <1>2, <1>3, <1>4, SavesAre

LEMMA EmptyRemembers == Remembers(CreateHistory) /\ FlightsIn(CreateHistory) = {}
  BY EmptyIsHistory DEF Remembers, OnceEach, CreateHistory, FlightsIn

\* A part of what is remembered.
LEMMA PartRemembers ==
  ASSUME NEW h, Remembers(h), NEW a, IsHistory(a, Saves),
         NEW places, places \subseteq DOMAIN h.records,
         a.records = SelectPlaces(h.records, places)
  PROVE  Remembers(a) /\ FlightsIn(a) \subseteq FlightsIn(h)
  <1> DEFINE s == h.records
             t == a.records
  <1>1. s \in Seq(Saves) /\ OnceEach(s)
      BY DEF Remembers, IsHistory
  <1>2. PICK at : IsOrder(at, places) /\ Takes(t, s, at)
      BY <1>1, Selected
  <1> HIDE DEF s, t
  <1>3. DOMAIN t = DOMAIN at /\ \A k \in DOMAIN t : t[k] = s[at[k]] /\ at[k] \in DOMAIN s
      BY <1>2 DEF IsOrder, Takes, s
  <1>4. \A k, l \in DOMAIN t : at[k] = at[l] => k = l
    <2>1. \A k \in DOMAIN t : k \in Nat /\ at[k] \in Nat
        BY <1>1, <1>2, <1>3 DEF IsOrder, Takes
    <2>2. \A k, l \in DOMAIN t : k < l => at[k] < at[l]
        BY <1>2, <1>3 DEF IsOrder
    <2> QED
        BY <2>1, <2>2
  <1>5. OnceEach(t)
      BY <1>1, <1>3, <1>4 DEF OnceEach
  <1>6. FlightsIn(a) \subseteq FlightsIn(h)
      BY <1>3 DEF FlightsIn, s, t
  <1> QED
      BY <1>5, <1>6 DEF Remembers, t

LEMMA ForgetFlightRemembers ==
  ASSUME NEW h, Remembers(h), NEW id
  PROVE  LET a == ForgetSavesOfFlight(h, id)
         IN Remembers(a) /\ FlightsIn(a) \subseteq FlightsIn(h)
  <1> DEFINE P == OtherFlights(Key, h.records, id)
             a == ForgetSavesOfFlight(h, id)
  <1>1. h.records \in Seq(Saves) /\ Ascending(h.records) /\ IsHistory(h, Saves)
        /\ h = [records |-> h.records, sequences |-> h.sequences]
      BY DEF Remembers, IsHistory
  <1>2. a = [h EXCEPT !.records = SelectPlaces(h.records, P)]
      BY <1>1, SavesAreRecords, KeyTells, ForgetTakes
  <1>3. P \subseteq DOMAIN h.records
      BY DEF OtherFlights
  <1> HIDE DEF P
  <1>4. IsHistory([h EXCEPT !.records = SelectPlaces(@, P)], Saves)
      BY <1>1, <1>3, SavesAreRecords, SelectedIsHistory
  <1>5. a.records = SelectPlaces(h.records, P) /\ IsHistory(a, Saves)
    <2> DEFINE t == SelectPlaces(h.records, P)
    <2> HIDE DEF a
    <2>1. a = [h EXCEPT !.records = t]
        BY <1>2
    <2> HIDE DEF t
    <2>2. a.records = t
        BY <1>1, <2>1
    <2> QED
        BY <1>4, <2>1, <2>2 DEF t
  <1> QED
      BY <1>3, <1>5, PartRemembers

LEMMA ForgetAircraftRemembers ==
  ASSUME NEW h, Remembers(h), NEW c \in Aircraft
  PROVE  LET a == ForgetAircraft(h, c)
         IN Remembers(a) /\ FlightsIn(a) \subseteq FlightsIn(h)
  <1> DEFINE P == DOMAIN h.records \ Mine(h.records, c)
             a == ForgetAircraft(h, c)
  <1>1. IsHistory(a, Saves)
      BY SavesAreRecords, ForgotAircraft DEF Remembers
  <1>2. a.records = SelectPlaces(h.records, P)
      BY DEF ForgetAircraft
  <1>3. P \subseteq DOMAIN h.records
      OBVIOUS
  <1> QED
      BY <1>1, <1>2, <1>3, PartRemembers

\* A flight that is not there is added, and nothing makes room for it.
LEMMA AddRemembers ==
  ASSUME NEW h, Remembers(h), NEW f \in Flights, f \notin FlightsIn(h)
  PROVE  LET a == AddFlightRecord(h, Measured(f))
         IN Remembers(a) /\ FlightsIn(a) = FlightsIn(h) \cup {f}
  <1> DEFINE m == Measured(f)
             c == AircraftOf[f]
             n == h.sequences[c]
             s == h.records
             new == Stored(m, n)
             kept == Append(s, new)
             mine == Mine(s, c)
             a == AddFlightRecord(h, m)
  <1>1. /\ s \in Seq(Saves) /\ OnceEach(s) /\ IsHistory(h, Saves) /\ c \in Aircraft /\ n \in Nat
        /\ \A i \in DOMAIN s : s[i] \in Saves
        /\ FlightsIn(h) = {FlightAt(s[i]) : i \in DOMAIN s}
      BY Remembered1, StorageAssumption DEF Remembers
  <1>2. m.aircraft = c
      BY DEF Measured
  <1>3. new \in Saves /\ FlightAt(new) = f
      BY <1>1, SaveOf
  <1>4. AddedTo(a, h, m, n, Saves)
      BY <1>1, <1>2, <1>3, SavesAreRecords, Added
  <1>5. Cardinality(mine) < Cap
    <2> DEFINE T == Flights \ {f}
               g == [i \in mine |-> FlightAt(s[i])]
    <2>1. IsFiniteSet(T) /\ Cardinality(T) = Cardinality(Flights) - 1 /\ Cardinality(Flights) \in Nat
        BY FS_RemoveElement, FS_CardinalityType, StorageAssumption
    <2>2. \A i \in mine : i \in DOMAIN s /\ g[i] = FlightAt(s[i])
        BY DEF Mine
    <2>3. g \in [mine -> T]
      <3>1. \A i \in mine : g[i] \in Flights /\ g[i] # f
        <4> HIDE DEF mine, g
        <4> QED
            BY <1>1, <2>2, SavesAre
      <3> QED
          BY <3>1
    <2>4. \A i, j \in mine : g[i] = g[j] => i = j
      <3> HIDE DEF mine, g
      <3> QED
          BY <1>1, <2>2 DEF OnceEach
    <2> HIDE DEF T, g, mine
    <2>5. g \in Injection(mine, T)
        BY <2>3, <2>4 DEF Injection, IsInjective
    <2>6. Cardinality(mine) <= Cardinality(T)
        BY <2>1, <2>5, FS_Injection
    <2>7. IsFiniteSet(mine) /\ Cardinality(mine) \in Nat
        BY <2>1, <2>5, FS_Injection, FS_CardinalityType
    <2> QED
        BY <2>1, <2>6, <2>7, StorageAssumption, CapAssumption
  <1>6. a.records = kept /\ IsHistory(a, Saves)
      BY <1>2, <1>4, <1>5 DEF AddedTo
  <1> HIDE DEF a, new, mine
  <1>7. /\ Len(s) \in Nat /\ DOMAIN s = 1..Len(s) /\ DOMAIN kept = 1..(Len(s) + 1)
        /\ \A i \in 1..Len(s) : kept[i] = s[i]
        /\ kept[Len(s) + 1] = new
      BY <1>1, <1>3, AppendProperties
  <1> HIDE DEF kept, s
  <1>8. \A i \in DOMAIN kept : \/ i \in DOMAIN s /\ kept[i] = s[i]
                               \/ i = Len(s) + 1 /\ kept[i] = new
      BY <1>7
  <1>9. \A i \in DOMAIN s : FlightAt(s[i]) # f
      BY <1>1
  <1>10. OnceEach(kept)
      BY <1>1, <1>3, <1>8, <1>9 DEF OnceEach
  <1>11. FlightsIn(a) = {FlightAt(kept[i]) : i \in DOMAIN kept}
      BY <1>6 DEF FlightsIn, FlightAt
  <1>12. FlightsIn(a) = FlightsIn(h) \cup {f}
    <2>1. \A i \in DOMAIN s : i \in DOMAIN kept /\ kept[i] = s[i]
        BY <1>7
    <2>2. Len(s) + 1 \in DOMAIN kept
        BY <1>7
    <2> QED
        BY <1>1, <1>3, <1>7, <1>8, <1>11, <2>1, <2>2
  <1> QED
      BY <1>6, <1>10, <1>12 DEF Remembers, a

\* A candidate is stored just when its flight is in the history.
LEMMA StoredIdTells ==
  ASSUME NEW p, Remembers(p.hist), p.cand \in Flights
  PROVE  StoredId(p) = NoRecord <=> p.cand \notin FlightsIn(p.hist)
  <1> DEFINE h == p.hist
             rs == h.records
             f == p.cand
             m == Measured(f)
             b == SelectBaseline(h, m)
             first == {i \in DOMAIN rs : \A k \in 1..(i - 1) : Key[rs[k]] # Key[rs[i]]}
             mine == {i \in first : Key[rs[i]] = f}
  <1>1. /\ rs \in Seq(Saves) /\ OnceEach(rs) /\ Ascending(rs)
        /\ \A i \in DOMAIN rs : rs[i] \in Saves
        /\ FlightsIn(h) = {FlightAt(rs[i]) : i \in DOMAIN rs}
      BY Remembered1 DEF Remembers
  <1>2. StoredId(p) = b.storedAs
      BY StorageAssumption DEF StoredId
  <1>3. Matches(m, f, Key, Saves, rs)
    <2>1. ASSUME NEW r \in Saves PROVE SameStoredFlight(r, m) <=> Key[r] = f
      <3>1. m.parts = [q \in Parts |-> f] /\ m.aircraft = AircraftOf[f] /\ m.header = "h"
          BY DEF Measured
      <3>2. SameStoredFlight(r, m) <=> FlightAt(r) = f
        <4> HIDE DEF m, f
        <4>1. f \in Flights
            BY DEF f
        <4>2. /\ FlightAt(r) \in Flights /\ r.aircraft = AircraftOf[FlightAt(r)]
              /\ r.header = "h" /\ r.parts = [q \in Parts |-> FlightAt(r)]
            BY <2>1, SavesAre
        <4> QED
            BY <3>1, <4>1, <4>2, SameIsSame
      <3> QED
          BY <3>2 DEF Key
    <2>2. ASSUME NEW i \in DOMAIN rs PROVE ~IsSameFlight(rs[i], m)
        BY <1>1, SavesAre DEF IsSameFlight
    <2> HIDE DEF m, rs, f
    <2> QED
        BY <2>1, <2>2 DEF Matches
  <1>4. BaselineIs(b, rs, m.aircraft, Key, f)
    <2> HIDE DEF m, f
    <2> QED
        BY <1>1, <1>3, SavesAreRecords, KeyTells, BaselineFound
  <1>5. b.storedAs = IF mine = {} THEN NoRecord ELSE rs[Min(mine)]
    <2> HIDE DEF b
    <2> QED
        BY <1>4 DEF BaselineIs
  <1> HIDE DEF b
  <1>6. mine = {} <=> f \notin FlightsIn(h)
    <2>1. \A i \in DOMAIN rs : Key[rs[i]] = FlightAt(rs[i])
        BY <1>1 DEF Key
    <2>2. \A i \in DOMAIN rs : i \in first
      <3> TAKE i \in DOMAIN rs
      <3>1. \A k \in 1..(i - 1) : k \in DOMAIN rs /\ k # i
          BY <1>1
      <3> HIDE DEF rs
      <3> QED
          BY <1>1, <2>1, <3>1 DEF OnceEach
    <2> QED
        BY <1>1, <2>1, <2>2
  <1>7. mine # {} => rs[Min(mine)] # NoRecord
    <2>1. SUFFICES ASSUME mine # {} PROVE rs[Min(mine)] # NoRecord
        OBVIOUS
    <2>2. \E n \in mine : \A k \in mine : n <= k
      <3>1. mine \subseteq Nat
          BY <1>1
      <3> HIDE DEF mine
      <3> QED
          BY <2>1, <3>1, SmallestOfSet
    <2>3. Min(mine) \in mine
      <3> HIDE DEF mine
      <3> QED
          BY <2>2 DEF Min
    <2>4. rs[Min(mine)] \in Saves
      <3> HIDE DEF rs
      <3> QED
          BY <1>1, <2>3
    <2> QED
        BY <2>4, SavesAre
  <1> QED
      BY <1>2, <1>5, <1>6, <1>7

LEMMA ImportRemembers ==
  ASSUME NEW h, Remembers(h)
  PROVE  ImportHistory(h) = h
  BY SavesAreRecords, ImportedIsSame DEF Remembers

-----------------------------------------------------------------------------
(* The flights in memory, in the queue, on their way and on the disk.       *)

Saved(d) == Salvaged(d["history"], CreateHistory)

\* A change of the history that is not stale is what was asked for of the history of now.
Changes(o, h) ==
    /\ Remembers(o.data)
    /\ o.kind = "save" => FlightsIn(o.data) = FlightsIn(h) \cup o.about
    /\ o.kind = "forget" => FlightsIn(o.data) = FlightsIn(h) \ o.about

FlightsOp(p, o) ==
    /\ o.kind \in {"load", "forgetEverything", "erase", "share", "save", "forget"}
    /\ o.kind = "save" <=> o.after = "remember"
    /\ o.kind = "forget" => o.after = "forgotten"
    /\ o.kind = "load" => p.cand = None
    /\ o.kind \in {"save", "forget"} =>
           o.rev <= p.hrev /\ (o.rev = p.hrev => Changes(o, p.hist))

FlightsPage(p) ==
    /\ Remembers(p.hist)
    /\ \A i \in 1..Len(p.queue) : FlightsOp(p, p.queue[i])
    /\ (p.at # "idle" /\ p.queue[1].kind \in {"save", "forget"}) => p.queue[1].rev = p.hrev
    /\ p.hBlocked => ~p.hWritable

\* A candidate that can be saved is not in the history.
CandidateInv(p) ==
    p.cand # None =>
        /\ p.cand \in Flights
        /\ p.hBlocked \/ p.stored # NoRecord \/ p.cand \notin FlightsIn(p.hist)

\* What the file and the writes on their way to it hold is remembered whole.
WritesInv(C, d) ==
    /\ Remembers(Saved(d))
    /\ \A i \in 1..Len(C) : C[i].op = "writeHistory" => Remembers(C[i].data)

\* What the pilot was told is kept is wherever the file could come from.
KeptOp(p, o, kept) ==
    /\ o.kind = "forgetEverything" => kept = {}
    /\ (o.kind = "forget" /\ o.rev = p.hrev) => kept \cap o.about = {}

KeptPage(p, kept) ==
    /\ p.hWritable => kept \subseteq FlightsIn(p.hist)
    /\ \A i \in 1..Len(p.queue) : KeptOp(p, p.queue[i], kept)

KeptFile(C, d, kept) ==
    /\ kept \subseteq FlightsIn(Saved(d))
    /\ \A i \in 1..Len(C) : /\ C[i].op = "writeHistory" => kept \subseteq FlightsIn(C[i].data)
                            /\ C[i].op = "forgetHistory" => kept = {}

\* What he was told is forgotten is in none of them.
GoneInv(p, C, d, gone) ==
    /\ gone \cap FlightsIn(p.hist) = {} /\ gone \cap FlightsIn(Saved(d)) = {}
    /\ \A i \in 1..Len(C) : C[i].op = "writeHistory" => gone \cap FlightsIn(C[i].data) = {}

\* A change of the history that was made, and that the page is about to hear of.
Made(p, r) ==
    /\ r.here /\ r.ok
    /\ \/ p.queue[1].kind \in {"save", "forget"}
       \/ p.queue[1].kind = "forgetEverything" /\ p.at = "first"

MineInv(p, C) == p.present => \A i \in 1..Len(C) : C[i].mine
HeldInv(p, r, d) == (p.present /\ ~p.hBlocked) => p.hist = Saved(d) \/ Made(p, r)

FlightsInv ==
    /\ FlightsPage(page) /\ CandidateInv(page) /\ WritesInv(calls, disk)
    /\ GoneInv(page, calls, disk, ghost.forgotten) /\ MineInv(page, calls)
    /\ "history" \notin ghost.fellBack =>
           /\ KeptPage(page, ghost.kept) /\ KeptFile(calls, disk, ghost.kept)
           /\ HeldInv(page, reply, disk)

-----------------------------------------------------------------------------
(* What the page's functions leave of the history.                          *)

\* Everything of the history but the candidate's record.
SameHistory(p, q) ==
    /\ IsPage(q) /\ q.hist = p.hist /\ q.hrev = p.hrev /\ q.hBlocked = p.hBlocked
    /\ q.hWritable = p.hWritable /\ q.present = p.present /\ q.cand = p.cand

\* An operation that is none of the history's.
Other(o) == o.kind \in {"share", "erase"} /\ o.after # "remember"

Carries(p, q) ==
    /\ SameHistory(p, q) /\ q.at = p.at
    /\ q.queue = p.queue \/ \E o : Other(o) /\ q.queue = Append(p.queue, o)

Drops(p, q) == SameHistory(p, q) /\ q.at = "idle" /\ q.queue = Tail(p.queue)

LEMMA CarriesFurther ==
  ASSUME NEW p, NEW q, NEW r, Carries(p, q), q.queue = p.queue, Carries(q, r)
  PROVE  Carries(p, r)
  BY DEF Carries, SameHistory

LEMMA EnqueueCarries ==
  ASSUME NEW p, IsPage(p), NEW o, Other(o)
  PROVE  Carries(p, Enqueue(p, o)) /\ Enqueue(p, o).stored = p.stored
  <1>1. SameHistory(p, Enqueue(p, o)) /\ Enqueue(p, o).queue = Append(p.queue, o)
        /\ Enqueue(p, o).at = p.at /\ Enqueue(p, o).stored = p.stored
      BY DEF IsPage, Fields, Enqueue, SameHistory
  <1> QED
      BY <1>1 DEF Carries

LEMMA PersistSharingCarries ==
  ASSUME NEW p, IsPage(p), NEW data, NEW after, after # "remember"
  PROVE  /\ Carries(p, PersistSharing(p, data, after))
         /\ PersistSharing(p, data, after).stored = p.stored
  <1> DEFINE o == Op("share", data, p.srev, after, {})
  <1>1. Other(o)
      BY DEF Op, Other
  <1> HIDE DEF o
  <1>2. Carries(p, Enqueue(p, o)) /\ Enqueue(p, o).stored = p.stored
      BY <1>1, EnqueueCarries
  <1> QED
      BY <1>2 DEF PersistSharing, o

LEMMA ThenCarries ==
  ASSUME NEW p, IsPage(p), NEW after
  PROVE  Carries(p, Then(p, after)) /\ Then(p, after).stored = p.stored
  <1>1. CASE after = "dismiss"
      BY <1>1 DEF IsPage, Fields, Then, Carries, SameHistory
  <1>2. CASE after = "render"
      BY <1>2 DEF IsPage, Fields, Then, Carries, SameHistory
  <1>3. CASE after \notin {"dismiss", "render"}
      BY <1>3 DEF IsPage, Then, Carries, SameHistory
  <1> QED
      BY <1>1, <1>2, <1>3

LEMMA ReconcileCarries ==
  ASSUME NEW p, IsPage(p), NEW after, after # "remember"
  PROVE  Carries(p, Reconcile(p, after)) /\ Reconcile(p, after).stored = p.stored
  <1> DEFINE s == [p.share EXCEPT !.ids = WantedIds(p)]
             q == PersistSharing(p, s, after)
  <1>1. CASE Reconcile(p, after) = p
      BY <1>1 DEF Carries, SameHistory
  <1>2. CASE Reconcile(p, after) = [q EXCEPT !.minted = @ + 1]
    <2> HIDE DEF s
    <2>1. Carries(p, q) /\ q.stored = p.stored
        BY PersistSharingCarries
    <2> HIDE DEF q
    <2> DEFINE m == [q EXCEPT !.minted = @ + 1]
    <2>2. SameHistory(q, m) /\ m.queue = q.queue /\ m.at = q.at /\ m.stored = q.stored
        BY <2>1 DEF Carries, SameHistory, IsPage, Fields
    <2> HIDE DEF m
    <2>3. Carries(p, m) /\ m.stored = p.stored
        BY <2>1, <2>2 DEF Carries, SameHistory
    <2> QED
        BY <1>2, <2>3 DEF m
  <1> QED
      BY <1>1, <1>2 DEF Reconcile

LEMMA ReconcileThenCarries ==
  ASSUME NEW p, IsPage(p), NEW after, after # "remember"
  PROVE  Carries(p, ReconcileThen(p, after)) /\ ReconcileThen(p, after).stored = p.stored
  BY ReconcileCarries, ThenCarries DEF ReconcileThen

\* A candidate that is compared again is known for what it is.
LEMMA RecompareCarries ==
  ASSUME NEW p, IsPage(p), Remembers(p.hist), p.cand # None => p.cand \in Flights
  PROVE  /\ Carries(p, Recompare(p)) /\ Recompare(p).queue = p.queue
         /\ CandidateInv(Recompare(p))
  <1> DEFINE q == [p EXCEPT !.stored = StoredId(p)]
  <1>1. CASE p.cand = None \/ p.hBlocked
      BY <1>1 DEF Recompare, Carries, SameHistory, CandidateInv
  <1>2. CASE p.cand # None /\ ~p.hBlocked
    <2>1. Carries(p, q) /\ q.queue = p.queue /\ q.stored = StoredId(p)
        BY DEF IsPage, Fields, Carries, SameHistory
    <2>2. Recompare(p) = q
        BY <1>2 DEF Recompare
    <2> HIDE DEF q
    <2>3. q.stored = NoRecord <=> p.cand \notin FlightsIn(p.hist)
        BY <1>2, <2>1, StoredIdTells
    <2>4. q.cand = p.cand /\ q.hist = p.hist
        BY <2>1 DEF Carries, SameHistory
    <2> QED
        BY <1>2, <2>1, <2>2, <2>3, <2>4 DEF CandidateInv
  <1> QED
      BY <1>1, <1>2

LEMMA StillCandidate ==
  ASSUME NEW p, NEW q, CandidateInv(p), SameHistory(p, q), q.stored = p.stored
  PROVE  CandidateInv(q)
  BY DEF CandidateInv, SameHistory

LEMMA LastFound ==
  ASSUME NEW h, Remembers(h), NEW f \in Flights
  PROVE  LET mine == FindRecords(h, AircraftOf[f])
         IN (mine # <<>> => Last(mine) # NoRecord) /\ (mine = <<>> => f \notin FlightsIn(h))
  <1> DEFINE s == h.records
             places == Mine(s, AircraftOf[f])
             mine == FindRecords(h, AircraftOf[f])
  <1>1. /\ s \in Seq(Saves) /\ Ascending(s) /\ \A i \in DOMAIN s : s[i] \in Saves
        /\ FlightsIn(h) = {FlightAt(s[i]) : i \in DOMAIN s}
      BY Remembered1
  <1>2. mine = SelectPlaces(s, places)
      BY <1>1, SavesAreRecords, FoundInOrder
  <1>3. places \subseteq DOMAIN s
      BY DEF Mine
  <1>4. /\ \A i \in DOMAIN s : FlightAt(s[i]) = f => i \in places
      BY <1>1, SavesAre DEF Mine
  <1> HIDE DEF mine, places, s
  <1>5. mine \in Seq(Saves) /\ \A i \in places : \E k \in DOMAIN mine : mine[k] = s[i]
      BY <1>1, <1>2, <1>3, Selected, SelectedAre
  <1>6. mine # <<>> => Last(mine) \in Saves
      BY <1>5 DEF Last
  <1>7. mine = <<>> => \A i \in DOMAIN s : FlightAt(s[i]) # f
      BY <1>4, <1>5
  <1> QED
      BY <1>1, <1>6, <1>7, SavesAre DEF mine

\* What rememberCandidateFlight makes of the candidate: stored, if anything of its aircraft is.
LEMMA RememberedCarries ==
  ASSUME NEW p, IsPage(p), NEW op
  PROVE  /\ Carries(p, Remembered(p, op))
         /\ (Remembers(p.hist) /\ op.data = p.hist /\ (p.cand # None => p.cand \in Flights)) =>
                CandidateInv(Remembered(p, op))
  <1> DEFINE mine == FindRecords(op.data, AircraftOf[p.cand])
             q == [p EXCEPT !.stored = IF mine = <<>> THEN NoRecord ELSE Last(mine),
                            !.shown = RecordIds(p.hist)]
  <1>1. /\ Carries(p, q) /\ q.queue = p.queue
        /\ q.stored = IF mine = <<>> THEN NoRecord ELSE Last(mine)
      BY DEF IsPage, Fields, Carries, SameHistory
  <1>2. Remembered(p, op) = IF p.cand = None THEN p ELSE ReconcileThen(q, None)
      BY DEF Remembered
  <1> HIDE DEF q
  <1>3. Carries(q, ReconcileThen(q, None)) /\ ReconcileThen(q, None).stored = q.stored
      BY <1>1, ReconcileThenCarries DEF Carries, SameHistory, None
  <1>4. Carries(p, ReconcileThen(q, None))
      BY <1>1, <1>3, CarriesFurther
  <1>5. CASE p.cand = None
      BY <1>2, <1>5 DEF Carries, SameHistory, CandidateInv
  <1>6. CASE p.cand # None
    <2> SUFFICES ASSUME Remembers(p.hist), op.data = p.hist, p.cand \in Flights
                 PROVE  CandidateInv(ReconcileThen(q, None))
        BY <1>2, <1>4, <1>6
    <2>1. (mine # <<>> => Last(mine) # NoRecord)
          /\ (mine = <<>> => p.cand \notin FlightsIn(p.hist))
        BY LastFound
    <2> HIDE DEF mine
    <2> QED
        BY <1>1, <1>3, <1>4, <2>1 DEF Carries, SameHistory, CandidateInv
  <1> QED
      BY <1>5, <1>6

LEMMA ContinueCarries ==
  ASSUME NEW p, IsPage(p), Remembers(p.hist), p.cand # None => p.cand \in Flights,
         NEW op, NEW written,
         IF op.after = "remember" /\ written THEN op.data = p.hist
         ELSE (op.after = "forgotten" /\ written) \/ CandidateInv(p)
  PROVE  Carries(p, Continue(p, op, written)) /\ CandidateInv(Continue(p, op, written))
  <1>1. Carries(p, p) /\ SameHistory(p, p)
      BY DEF Carries, SameHistory
  <1>2. \A after : /\ Carries(p, Then(p, after)) /\ Then(p, after).stored = p.stored
                   /\ after # "remember" =>
                          /\ Carries(p, ReconcileThen(p, after))
                          /\ ReconcileThen(p, after).stored = p.stored
      BY ThenCarries, ReconcileThenCarries
  <1>3. \A q : Carries(p, q) /\ q.stored = p.stored /\ CandidateInv(p) => CandidateInv(q)
      BY StillCandidate DEF Carries
  <1>4. CASE op.after = "remember" /\ written
      BY <1>4, RememberedCarries DEF Continue
  <1>5. CASE op.after = "forgotten" /\ written
    <2> DEFINE q == Recompare(p)
               r == ReconcileThen(q, "render")
    <2>1. Carries(p, q) /\ q.queue = p.queue /\ CandidateInv(q)
        BY RecompareCarries
    <2>2. Continue(p, op, written) = r
        BY <1>5 DEF Continue
    <2> HIDE DEF q
    <2>3. Carries(q, r) /\ r.stored = q.stored
        BY <2>1, ReconcileThenCarries DEF Carries, SameHistory
    <2> HIDE DEF r
    <2> QED
        BY <2>1, <2>2, <2>3, CarriesFurther, StillCandidate DEF Carries
  <1>6. CASE ~(op.after \in {"remember", "forgotten"} /\ written)
    <2> DEFINE r == Continue(p, op, written)
    <2>1. CandidateInv(p)
        BY <1>6
    <2>2. \/ r = p \/ \E after : r = Then(p, after)
          \/ \E after : after # "remember" /\ r = ReconcileThen(p, after)
        BY <1>6 DEF Continue, None
    <2> HIDE DEF r
    <2> QED
        BY <1>1, <1>2, <1>3, <2>1, <2>2 DEF r
  <1> QED
      BY <1>4, <1>5, <1>6

-----------------------------------------------------------------------------
(* What keeps the invariant: the page.                                      *)

LEMMA CarriedPage ==
  ASSUME NEW p, FlightsPage(p), IsSeq(p.queue), NEW q, Carries(p, q), p.at # "idle" => p.queue # <<>>
  PROVE  /\ FlightsPage(q)
         /\ \A kept : KeptPage(p, kept) => KeptPage(q, kept)
         /\ p.queue # <<>> => q.queue[1] = p.queue[1]
  <1>1. CASE q.queue = p.queue
      BY <1>1 DEF FlightsPage, FlightsOp, KeptPage, KeptOp, Carries, SameHistory
  <1>2. ASSUME NEW o, Other(o), q.queue = Append(p.queue, o)
        PROVE  /\ FlightsPage(q)
               /\ \A kept : KeptPage(p, kept) => KeptPage(q, kept)
               /\ p.queue # <<>> => q.queue[1] = p.queue[1]
    <2>1. /\ Len(q.queue) = Len(p.queue) + 1 /\ Len(p.queue) \in Nat
          /\ \A i \in 1..Len(p.queue) : q.queue[i] = p.queue[i]
          /\ q.queue[Len(p.queue) + 1] = o
          /\ p.queue # <<>> => Len(p.queue) > 0
        BY <1>2, Appended
    <2>2. \A i \in 1..Len(q.queue) : (i \in 1..Len(p.queue) /\ q.queue[i] = p.queue[i]) \/ q.queue[i] = o
        BY <2>1
    <2>3. p.queue # <<>> => q.queue[1] = p.queue[1]
        BY <2>1
    <2>4. FlightsOp(q, o) /\ \A kept : KeptOp(q, o, kept)
        BY <1>2 DEF Other, FlightsOp, KeptOp
    <2>5. \A x : /\ FlightsOp(p, x) => FlightsOp(q, x)
                 /\ \A kept : KeptOp(p, x, kept) => KeptOp(q, x, kept)
        BY DEF FlightsOp, KeptOp, Carries, SameHistory
    <2>6. \A i \in 1..Len(q.queue) : FlightsOp(q, q.queue[i])
        BY <2>2, <2>4, <2>5 DEF FlightsPage
    <2>7. FlightsPage(q)
        BY <2>3, <2>6 DEF FlightsPage, Carries, SameHistory
    <2>8. ASSUME NEW kept, KeptPage(p, kept) PROVE KeptPage(q, kept)
      <3>1. \A i \in 1..Len(q.queue) : KeptOp(q, q.queue[i], kept)
          BY <2>2, <2>4, <2>5, <2>8 DEF KeptPage
      <3> QED
          BY <2>8, <3>1 DEF KeptPage, Carries, SameHistory
    <2> QED
        BY <2>3, <2>7, <2>8
  <1> QED
      BY <1>1, <1>2 DEF Carries

LEMMA DroppedPage ==
  ASSUME NEW p, FlightsPage(p), IsSeq(p.queue), p.queue # <<>>, NEW q, Drops(p, q)
  PROVE  /\ FlightsPage(q) /\ IsSeq(q.queue)
         /\ \A kept : KeptPage(p, kept) => KeptPage(q, kept)
  <1>1. /\ IsSeq(q.queue) /\ Len(q.queue) = Len(p.queue) - 1 /\ Len(p.queue) \in Nat
        /\ \A i \in 1..Len(q.queue) : q.queue[i] = p.queue[i + 1]
      BY Tailed DEF Drops
  <1>2. \A i \in 1..Len(q.queue) : i + 1 \in 1..Len(p.queue)
      BY <1>1
  <1>3. \A x : /\ FlightsOp(p, x) => FlightsOp(q, x)
               /\ \A kept : KeptOp(p, x, kept) => KeptOp(q, x, kept)
      BY DEF FlightsOp, KeptOp, Drops, SameHistory
  <1>4. \A i \in 1..Len(q.queue) : FlightsOp(q, q.queue[i])
      BY <1>1, <1>2, <1>3 DEF FlightsPage
  <1>5. \A kept : KeptPage(p, kept) => \A i \in 1..Len(q.queue) : KeptOp(q, q.queue[i], kept)
      BY <1>1, <1>2, <1>3 DEF KeptPage
  <1> QED
      BY <1>1, <1>4, <1>5 DEF FlightsPage, KeptPage, Drops, SameHistory

LEMMA KeptLess ==
  ASSUME NEW p, NEW kept, KeptPage(p, kept), NEW less \in SUBSET kept
  PROVE  KeptPage(p, less)
  BY DEF KeptPage, KeptOp

\* An operation more.
LEMMA AppendedPage ==
  ASSUME NEW p, FlightsPage(p), IsSeq(p.queue), p.at # "idle" => p.queue # <<>>,
         NEW q, SameHistory(p, q), q.at = p.at, NEW o, q.queue = Append(p.queue, o), FlightsOp(q, o)
  PROVE  /\ FlightsPage(q)
         /\ \A kept : KeptPage(p, kept) /\ KeptOp(q, o, kept) => KeptPage(q, kept)
         /\ p.queue # <<>> => q.queue[1] = p.queue[1]
  <1>1. /\ Len(q.queue) = Len(p.queue) + 1 /\ Len(p.queue) \in Nat
        /\ \A i \in 1..Len(p.queue) : q.queue[i] = p.queue[i]
        /\ q.queue[Len(p.queue) + 1] = o
        /\ p.queue # <<>> => Len(p.queue) > 0
      BY Appended
  <1>2. \A i \in 1..Len(q.queue) : (i \in 1..Len(p.queue) /\ q.queue[i] = p.queue[i]) \/ q.queue[i] = o
      BY <1>1
  <1>3. p.queue # <<>> => q.queue[1] = p.queue[1]
      BY <1>1
  <1>4. \A x : /\ FlightsOp(p, x) => FlightsOp(q, x)
               /\ \A kept : KeptOp(p, x, kept) => KeptOp(q, x, kept)
      BY DEF FlightsOp, KeptOp, SameHistory
  <1>5. \A i \in 1..Len(q.queue) : FlightsOp(q, q.queue[i])
      BY <1>2, <1>4 DEF FlightsPage
  <1>6. FlightsPage(q)
      BY <1>3, <1>5 DEF FlightsPage, SameHistory
  <1>7. ASSUME NEW kept, KeptPage(p, kept), KeptOp(q, o, kept) PROVE KeptPage(q, kept)
    <2>1. \A i \in 1..Len(q.queue) : KeptOp(q, q.queue[i], kept)
        BY <1>2, <1>4, <1>7 DEF KeptPage
    <2> QED
        BY <1>7, <2>1 DEF KeptPage, SameHistory
  <1> QED
      BY <1>3, <1>6, <1>7

LEMMA ThePage ==
  ASSUME StorageInv
  PROVE  /\ IsPage(page) /\ IsSeq(page.queue)
         /\ page.at # "idle" => page.queue # <<>>
         /\ reply.here => page.at # "idle" /\ calls = <<>>
         /\ IsSeq(calls)
  BY DEF StorageInv, PageInv, TalkInv, CallsInv

\* A tap touches what is in hand neither in the shell nor at the head of the queue.
LEMMA TappedKeeps ==
  ASSUME StorageInv, FlightsInv, FlightsPage(page'), CandidateInv(page'),
         "history" \notin ghost.fellBack => KeptPage(page', ghost'.kept),
         ghost'.kept \subseteq ghost.kept, ghost'.forgotten = ghost.forgotten,
         ghost'.fellBack = ghost.fellBack,
         page'.hist = page.hist, page'.present = page.present, page'.hBlocked = page.hBlocked,
         page'.at = page.at, page.queue # <<>> => page'.queue[1] = page.queue[1],
         UNCHANGED <<disk, calls, reply>>
  PROVE  FlightsInv'
  <1>1. reply.here => page.queue # <<>>
      BY ThePage
  <1>2. Made(page', reply) <=> Made(page, reply)
      BY <1>1 DEF Made
  <1>3. "history" \notin ghost.fellBack =>
            KeptFile(calls, disk, ghost'.kept) /\ HeldInv(page', reply, disk)
      BY <1>2 DEF FlightsInv, KeptFile, HeldInv
  <1> QED
      BY <1>3 DEF FlightsInv, GoneInv, MineInv

LEMMA CarriedKeeps ==
  ASSUME StorageInv, FlightsInv, Carries(page, page'), CandidateInv(page'),
         ghost'.kept = ghost.kept, ghost'.forgotten = ghost.forgotten,
         ghost'.fellBack = ghost.fellBack, UNCHANGED <<disk, calls, reply>>
  PROVE  FlightsInv'
  <1>1. /\ FlightsPage(page') /\ \A kept : KeptPage(page, kept) => KeptPage(page', kept)
        /\ page.queue # <<>> => page'.queue[1] = page.queue[1]
      BY ThePage, CarriedPage DEF FlightsInv
  <1> QED
      BY <1>1, TappedKeeps DEF FlightsInv, Carries, SameHistory

-----------------------------------------------------------------------------
(* Action by action: the pilot.                                             *)

LEMMA SaveKeepsFlights == ASSUME StorageInv, FlightsInv, Save PROVE FlightsInv'
  <1> DEFINE o == Op("save", AddFlightRecord(page.hist, Measured(page.cand)), page.hrev,
                     "remember", {page.cand})
  <1>1. /\ page.cand \in Flights /\ page.cand \notin FlightsIn(page.hist) /\ Remembers(page.hist)
        /\ page' = Enqueue(page, o) /\ UNCHANGED <<disk, calls, reply, ghost>>
      BY DEF Save, Tap, FlightsInv, CandidateInv, FlightsPage, PersistHistory
  <1>2. /\ o.kind = "save" /\ o.after = "remember" /\ o.rev = page.hrev /\ o.about = {page.cand}
        /\ o.data = AddFlightRecord(page.hist, Measured(page.cand)) /\ page.hrev \in Nat
      BY ThePage DEF Op, IsPage
  <1> HIDE DEF o
  <1>3. Changes(o, page.hist)
      BY <1>1, <1>2, AddRemembers DEF Changes
  <1>4. /\ SameHistory(page, page') /\ page'.at = page.at /\ page'.queue = Append(page.queue, o)
        /\ page'.stored = page.stored
      BY <1>1, ThePage DEF Enqueue, SameHistory, IsPage, Fields
  <1>5. FlightsOp(page', o) /\ \A kept : KeptOp(page', o, kept)
      BY <1>2, <1>3, <1>4 DEF FlightsOp, KeptOp, SameHistory
  <1>6. /\ FlightsPage(page') /\ \A kept : KeptPage(page, kept) => KeptPage(page', kept)
        /\ page.queue # <<>> => page'.queue[1] = page.queue[1]
      BY <1>4, <1>5, ThePage, AppendedPage DEF FlightsInv
  <1>7. CandidateInv(page')
      BY <1>4, StillCandidate DEF FlightsInv
  <1> QED
      BY <1>1, <1>4, <1>6, <1>7, TappedKeeps DEF FlightsInv, SameHistory

LEMMA ForgetKeepsFlights ==
  ASSUME StorageInv, FlightsInv, NEW data, Forget(data), Remembers(data),
         FlightsIn(data) \subseteq FlightsIn(page.hist)
  PROVE  FlightsInv'
  <1> DEFINE gone == FlightsIn(page.hist) \ FlightsIn(data)
             o == Op("forget", data, page.hrev, "forgotten", gone)
  <1>1. /\ page' = Enqueue(page, o) /\ UNCHANGED <<disk, calls, reply>>
        /\ ghost'.kept = ghost.kept \ gone /\ ghost'.forgotten = ghost.forgotten
        /\ ghost'.fellBack = ghost.fellBack
      BY DEF Forget, Tap, PersistHistory, StorageInv
  <1>2. /\ o.kind = "forget" /\ o.after = "forgotten" /\ o.rev = page.hrev /\ o.about = gone
        /\ o.data = data /\ page.hrev \in Nat
      BY ThePage DEF Op, IsPage
  <1> HIDE DEF o
  <1>3. Changes(o, page.hist)
      BY <1>2 DEF Changes
  <1> HIDE DEF gone
  <1>4. /\ SameHistory(page, page') /\ page'.at = page.at /\ page'.queue = Append(page.queue, o)
        /\ page'.stored = page.stored
      BY <1>1, ThePage DEF Enqueue, SameHistory, IsPage, Fields
  <1>5. FlightsOp(page', o) /\ KeptOp(page', o, ghost'.kept)
      BY <1>1, <1>2, <1>3, <1>4 DEF FlightsOp, KeptOp, SameHistory
  <1>6. /\ FlightsPage(page')
        /\ KeptPage(page, ghost'.kept) => KeptPage(page', ghost'.kept)
        /\ page.queue # <<>> => page'.queue[1] = page.queue[1]
      BY <1>4, <1>5, ThePage, AppendedPage DEF FlightsInv
  <1>7. CandidateInv(page')
      BY <1>4, StillCandidate DEF FlightsInv
  <1>8. /\ ghost'.kept \subseteq ghost.kept
        /\ (KeptPage(page, ghost.kept) => KeptPage(page, ghost'.kept))
      BY <1>1, KeptLess
  <1> QED
      BY <1>1, <1>4, <1>6, <1>7, <1>8, TappedKeeps DEF FlightsInv, SameHistory

LEMMA ForgetTapsKeepFlights ==
  ASSUME StorageInv, FlightsInv, NEW c \in Aircraft, NEW n,
         ForgetFlight(<<c, n>>) \/ ForgetMachine(c)
  PROVE  FlightsInv'
  <1>1. Remembers(page.hist)
      BY DEF FlightsInv, FlightsPage
  <1> QED
      BY <1>1, ForgetFlightRemembers, ForgetAircraftRemembers, ForgetKeepsFlights
      DEF ForgetFlight, ForgetMachine

LEMMA ForgetEverythingKeepsFlights ==
  ASSUME StorageInv, FlightsInv, ForgetEverythingNow PROVE FlightsInv'
  <1> DEFINE o == Op("forgetEverything", NoData, 0, None, {})
  <1>1. /\ page' = Enqueue(page, o) /\ UNCHANGED <<disk, calls, reply>>
        /\ ghost'.kept = {} /\ ghost'.forgotten = ghost.forgotten
        /\ ghost'.fellBack = ghost.fellBack
      BY DEF ForgetEverythingNow, Tap, StorageInv
  <1>2. o.kind = "forgetEverything" /\ o.after # "remember"
      BY DEF Op, None
  <1> HIDE DEF o
  <1>3. /\ SameHistory(page, page') /\ page'.at = page.at /\ page'.queue = Append(page.queue, o)
        /\ page'.stored = page.stored
      BY <1>1, ThePage DEF Enqueue, SameHistory, IsPage, Fields
  <1>4. FlightsOp(page', o) /\ KeptOp(page', o, {})
      BY <1>2 DEF FlightsOp, KeptOp
  <1>5. /\ FlightsPage(page')
        /\ KeptPage(page, {}) => KeptPage(page', {})
        /\ page.queue # <<>> => page'.queue[1] = page.queue[1]
      BY <1>3, <1>4, ThePage, AppendedPage DEF FlightsInv
  <1>6. CandidateInv(page')
      BY <1>3, StillCandidate DEF FlightsInv
  <1>7. KeptPage(page, {})
      BY DEF KeptPage, KeptOp
  <1> QED
      BY <1>1, <1>3, <1>5, <1>6, <1>7, TappedKeeps DEF SameHistory

LEMMA SharingTapsKeepFlights ==
  ASSUME StorageInv, FlightsInv,
         EraseSharingIdentity \/ ToggleOn \/ ToggleOff \/ \E agreed \in BOOLEAN : AnswerConsent(agreed)
  PROVE  FlightsInv'
  <1>1. Carries(page, page') /\ page'.stored = page.stored
    <2>1. CASE EraseSharingIdentity
      <3> DEFINE o == Op("erase", NoData, 0, None, {})
      <3>1. Other(o) /\ page' = Enqueue(page, o)
          BY <2>1 DEF EraseSharingIdentity, Op, Other, None
      <3> HIDE DEF o
      <3> QED
          BY <3>1, ThePage, EnqueueCarries
    <2>2. CASE ToggleOn
        BY <2>2, ThePage DEF ToggleOn, IsPage, Fields, Carries, SameHistory
    <2>3. ASSUME NEW data, NEW after \in {"answer", "off"},
                 page' = PersistSharing(page, data, after)
          PROVE  Carries(page, page') /\ page'.stored = page.stored
        BY <2>3, ThePage, PersistSharingCarries
    <2> QED
        BY <2>1, <2>2, <2>3 DEF ToggleOff, AnswerConsent
  <1>2. /\ UNCHANGED <<disk, calls, reply>>
        /\ ghost'.kept = ghost.kept /\ ghost'.forgotten = ghost.forgotten
        /\ ghost'.fellBack = ghost.fellBack
      BY DEF EraseSharingIdentity, ToggleOn, ToggleOff, AnswerConsent, Tap, StorageInv
  <1>3. CandidateInv(page')
      BY <1>1, StillCandidate DEF FlightsInv, Carries
  <1> QED
      BY <1>1, <1>2, <1>3, CarriedKeeps

\* A candidate comes or goes; it comes after the load.
LEMMA CandidateKeepsFlights ==
  ASSUME StorageInv, FlightsInv, RetireCandidate \/ \E f \in Flights : ConsiderFlight(f)
  PROVE  FlightsInv'
  <1>1. UNCHANGED <<disk, calls, reply, ghost>>
      BY DEF RetireCandidate, ConsiderFlight
  <1>2. PICK p : /\ IsPage(p) /\ p.hist = page.hist /\ p.hrev = page.hrev
                 /\ p.hBlocked = page.hBlocked /\ p.hWritable = page.hWritable
                 /\ p.present = page.present /\ p.at = page.at /\ p.queue = page.queue
                 /\ p.cand \in Flights \cup {None}
                 /\ (p.cand # None) => \A i \in 1..Len(page.queue) : page.queue[i].kind # "load"
                 /\ Carries(p, page') /\ page'.queue = page.queue /\ CandidateInv(page')
    <2>1. CASE RetireCandidate
      <3>1. /\ IsPage(page') /\ page'.hist = page.hist /\ page'.hrev = page.hrev
            /\ page'.hBlocked = page.hBlocked /\ page'.hWritable = page.hWritable
            /\ page'.present = page.present /\ page'.at = page.at /\ page'.queue = page.queue
            /\ page'.cand = None
          BY <2>1, ThePage DEF RetireCandidate, IsPage, Fields
      <3>2. Carries(page', page') /\ CandidateInv(page')
          BY <3>1 DEF Carries, SameHistory, CandidateInv
      <3> QED
          BY <3>1, <3>2
    <2>2. ASSUME NEW f \in Flights, ConsiderFlight(f)
          PROVE  \E p : /\ IsPage(p) /\ p.hist = page.hist /\ p.hrev = page.hrev
                        /\ p.hBlocked = page.hBlocked /\ p.hWritable = page.hWritable
                        /\ p.present = page.present /\ p.at = page.at /\ p.queue = page.queue
                        /\ p.cand \in Flights \cup {None}
                        /\ (p.cand # None) => \A i \in 1..Len(page.queue) : page.queue[i].kind # "load"
                        /\ Carries(p, page') /\ page'.queue = page.queue /\ CandidateInv(page')
      <3> DEFINE p == [page EXCEPT !.cand = f]
      <3>1. /\ IsPage(p) /\ p.hist = page.hist /\ p.hrev = page.hrev
            /\ p.hBlocked = page.hBlocked /\ p.hWritable = page.hWritable
            /\ p.present = page.present /\ p.at = page.at /\ p.queue = page.queue
            /\ p.cand = f
          BY ThePage DEF IsPage, Fields
      <3>2. page' = Recompare(p) /\ \A i \in DOMAIN page.queue : page.queue[i].kind # "load"
          BY <2>2 DEF ConsiderFlight
      <3>3. DOMAIN page.queue = 1..Len(page.queue)
          BY ThePage DEF IsSeq
      <3> HIDE DEF p
      <3>4. Carries(p, page') /\ page'.queue = p.queue /\ CandidateInv(page')
          BY <3>1, <3>2, RecompareCarries DEF FlightsInv, FlightsPage
      <3> QED
          BY <3>1, <3>2, <3>3, <3>4
    <2> QED
        BY <2>1, <2>2
  <1>3. FlightsPage(p) /\ \A kept : KeptPage(page, kept) => KeptPage(p, kept)
      BY <1>2 DEF FlightsInv, FlightsPage, FlightsOp, KeptPage, KeptOp
  <1>4. /\ FlightsPage(page') /\ \A kept : KeptPage(p, kept) => KeptPage(page', kept)
      BY <1>2, <1>3, ThePage, CarriedPage
  <1> QED
      BY <1>1, <1>2, <1>3, <1>4, TappedKeeps DEF FlightsInv, Carries, SameHistory

LEMMA PilotKeepsFlights == ASSUME StorageInv, FlightsInv, PilotStep PROVE FlightsInv'
  BY SaveKeepsFlights, ForgetTapsKeepFlights, ForgetEverythingKeepsFlights,
     SharingTapsKeepFlights, CandidateKeepsFlights DEF PilotStep

-----------------------------------------------------------------------------
(* Action by action: the head of the queue.                                 *)

LEMMA AddedCall ==
  ASSUME NEW C, IsSeq(C), NEW c, c.mine, NEW d, WritesInv(C, d),
         c.op = "writeHistory" => Remembers(c.data)
  PROVE  /\ WritesInv(Append(C, c), d)
         /\ \A p : MineInv(p, C) => MineInv(p, Append(C, c))
         /\ \A p, gone : (/\ GoneInv(p, C, d, gone)
                          /\ c.op = "writeHistory" => gone \cap FlightsIn(c.data) = {})
                             => GoneInv(p, Append(C, c), d, gone)
         /\ \A kept : (/\ KeptFile(C, d, kept)
                       /\ c.op = "writeHistory" => kept \subseteq FlightsIn(c.data)
                       /\ c.op = "forgetHistory" => kept = {})
                          => KeptFile(Append(C, c), d, kept)
  <1>1. /\ Len(Append(C, c)) = Len(C) + 1 /\ Len(C) \in Nat
        /\ \A i \in 1..Len(C) : Append(C, c)[i] = C[i]
        /\ Append(C, c)[Len(C) + 1] = c
      BY Appended
  <1>2. \A i \in 1..Len(Append(C, c)) : \/ i \in 1..Len(C) /\ Append(C, c)[i] = C[i]
                                        \/ Append(C, c)[i] = c
      BY <1>1
  <1>3. WritesInv(Append(C, c), d) /\ \A p : MineInv(p, C) => MineInv(p, Append(C, c))
      BY <1>2 DEF WritesInv, MineInv
  <1>4. ASSUME NEW p, NEW gone, GoneInv(p, C, d, gone),
               c.op = "writeHistory" => gone \cap FlightsIn(c.data) = {}
        PROVE  GoneInv(p, Append(C, c), d, gone)
      BY <1>2, <1>4 DEF GoneInv
  <1>5. ASSUME NEW kept, KeptFile(C, d, kept),
               c.op = "writeHistory" => kept \subseteq FlightsIn(c.data),
               c.op = "forgetHistory" => kept = {}
        PROVE  KeptFile(Append(C, c), d, kept)
      BY <1>2, <1>5 DEF KeptFile
  <1> QED
      BY <1>3, <1>4, <1>5

LEMMA ReadyFlights ==
  ASSUME StorageInv, FlightsInv, Ready
  PROVE  /\ page.queue # <<>> /\ page.at = "idle" /\ ~reply.here
         /\ Head(page.queue) = page.queue[1] /\ 1 \in 1..Len(page.queue)
         /\ FlightsOp(page, page.queue[1])
         /\ "history" \notin ghost.fellBack =>
                /\ KeptOp(page, page.queue[1], ghost.kept)
                /\ (page.present /\ ~page.hBlocked) => page.hist = Saved(disk)
  <1>1. /\ page.queue # <<>> /\ page.at = "idle" /\ ~reply.here
        /\ Head(page.queue) = page.queue[1] /\ 1 \in 1..Len(page.queue)
      BY ReadyTalks
  <1> QED
      BY <1>1 DEF FlightsInv, FlightsPage, KeptPage, HeldInv, Made

LEMMA BeginKeepsFlights ==
  ASSUME StorageInv, FlightsInv, BeginLoad \/ BeginForgetEverything \/ BeginErase
  PROVE  FlightsInv'
  <1>1. PICK operation \in Reads \cup Forgets :
            /\ Ready /\ Ask(operation, NoData, "first") /\ UNCHANGED ghost
            /\ Head(page.queue).kind \notin {"save", "forget"}
            /\ operation = "forgetHistory" => Head(page.queue).kind = "forgetEverything"
      BY DEF BeginLoad, BeginForgetEverything, BeginErase, Reads, Forgets
  <1> DEFINE c == Called(operation, NoData)
  <1>2. /\ c.op = operation /\ c.mine /\ operation # "writeHistory"
        /\ calls' = Append(calls, c) /\ UNCHANGED <<disk, reply>>
      BY <1>1 DEF Called, Ask, Reads, Forgets
  <1> HIDE DEF c
  <1>3. /\ SameHistory(page, page') /\ page'.at = "first" /\ page'.queue = page.queue
        /\ page'.stored = page.stored
      BY <1>1, ThePage DEF Ask, SameHistory, IsPage, Fields
  <1>4. FlightsPage(page') /\ \A kept : KeptPage(page, kept) => KeptPage(page', kept)
      BY <1>1, <1>3, ReadyFlights DEF FlightsInv, FlightsPage, FlightsOp, KeptPage, KeptOp, SameHistory
  <1>5. CandidateInv(page')
      BY <1>3, StillCandidate DEF FlightsInv
  <1>6. /\ WritesInv(calls', disk) /\ MineInv(page, calls')
        /\ GoneInv(page, calls', disk, ghost.forgotten)
        /\ "history" \notin ghost.fellBack => KeptFile(calls', disk, ghost.kept)
      BY <1>1, <1>2, ThePage, ReadyFlights, AddedCall DEF FlightsInv, KeptOp
  <1>7. "history" \notin ghost.fellBack => HeldInv(page', reply, disk)
      BY <1>1, <1>3, ReadyFlights DEF HeldInv, SameHistory
  <1> QED
      BY <1>1, <1>2, <1>3, <1>4, <1>5, <1>6, <1>7 DEF FlightsInv, GoneInv, MineInv, SameHistory

LEMMA DequeueDrops ==
  ASSUME NEW p, IsPage(p)
  PROVE  Drops(p, Dequeue(p)) /\ Dequeue(p).stored = p.stored /\ IsPage(Dequeue(p))
  BY DEF IsPage, Fields, Dequeue, Drops, SameHistory

\* The end of an operation that left the history as it was.
LEMMA DroppedKeeps ==
  ASSUME StorageInv, FlightsInv, page.queue # <<>>, NEW q, Drops(page, q), Carries(q, page'),
         CandidateInv(page'), ~Made(page, reply), ~reply'.here, UNCHANGED <<disk, calls>>,
         ghost'.kept = ghost.kept, ghost'.forgotten = ghost.forgotten,
         ghost'.fellBack = ghost.fellBack
  PROVE  FlightsInv'
  <1>1. /\ FlightsPage(q) /\ IsSeq(q.queue) /\ q.at = "idle"
        /\ \A kept : KeptPage(page, kept) => KeptPage(q, kept)
      BY ThePage, DroppedPage DEF FlightsInv, Drops
  <1>2. FlightsPage(page') /\ \A kept : KeptPage(q, kept) => KeptPage(page', kept)
      BY <1>1, CarriedPage
  <1>3. /\ page'.hist = page.hist /\ page'.present = page.present /\ page'.hBlocked = page.hBlocked
      BY DEF Drops, Carries, SameHistory
  <1>4. "history" \notin ghost.fellBack => HeldInv(page', reply', disk)
      BY <1>3 DEF FlightsInv, HeldInv
  <1> QED
      BY <1>1, <1>2, <1>3, <1>4 DEF FlightsInv, GoneInv, MineInv

\* A write that was not made leaves the history, and what is known of the candidate.
LEMMA NotWrittenCarries ==
  ASSUME NEW p, IsPage(p), NEW op
  PROVE  /\ Carries(p, AdoptSharing(p, op, FALSE)) /\ Carries(p, AdoptHistory(p, op, FALSE))
         /\ AdoptSharing(p, op, FALSE).queue = p.queue /\ AdoptHistory(p, op, FALSE).queue = p.queue
         /\ AdoptSharing(p, op, FALSE).stored = p.stored /\ AdoptHistory(p, op, FALSE).stored = p.stored
  BY DEF IsPage, Fields, AdoptSharing, AdoptHistory, Carries, SameHistory

\* The operation at the head ends and changes nothing; its handler goes on.
LEMMA UnchangedThenContinues ==
  ASSUME StorageInv, FlightsInv, page.queue # <<>>, NEW q, Drops(page, q), q.stored = page.stored,
         NEW r, Carries(q, r), r.queue = q.queue, r.stored = q.stored,
         NEW op, NEW written, op.after = "remember" => ~written,
         page' = Continue(r, op, written),
         ~Made(page, reply), ~reply'.here, UNCHANGED <<disk, calls>>,
         ghost'.kept = ghost.kept, ghost'.forgotten = ghost.forgotten,
         ghost'.fellBack = ghost.fellBack
  PROVE  FlightsInv'
  <1>1. /\ IsPage(r) /\ r.hist = page.hist /\ r.cand = page.cand
        /\ SameHistory(page, r) /\ r.stored = page.stored
      BY DEF Drops, Carries, SameHistory
  <1>2. CandidateInv(r) /\ Remembers(r.hist) /\ (r.cand # None => r.cand \in Flights)
      BY <1>1, StillCandidate DEF FlightsInv, FlightsPage, CandidateInv
  <1>3. Carries(r, page') /\ CandidateInv(page')
      BY <1>1, <1>2, ContinueCarries
  <1>4. Carries(q, page')
      BY <1>3, CarriesFurther
  <1> QED
      BY <1>3, <1>4, DroppedKeeps

LEMMA BeginPersistKeepsFlights == ASSUME StorageInv, FlightsInv, BeginPersist PROVE FlightsInv'
  <1> DEFINE op == Head(page.queue)
             share == op.kind = "share"
             writable == IF share THEN page.sWritable ELSE page.hWritable
             d == Dequeue(page)
             f == IF share THEN AdoptSharing(d, op, FALSE) ELSE AdoptHistory(d, op, FALSE)
  <1>1. /\ page.queue # <<>> /\ page.at = "idle" /\ ~reply.here /\ 1 \in 1..Len(page.queue)
        /\ op = page.queue[1] /\ FlightsOp(page, op) /\ op.kind \in {"save", "forget", "share"}
        /\ "history" \notin ghost.fellBack =>
               /\ KeptOp(page, op, ghost.kept)
               /\ (page.present /\ ~page.hBlocked) => page.hist = Saved(disk)
      BY ReadyFlights DEF BeginPersist
  <1>2. CASE Stale(page, op) \/ ~writable
    <2>1. PICK r \in {d, f} : page' = Continue(r, op, FALSE)
        BY <1>2 DEF BeginPersist
    <2>6. f \in {AdoptSharing(d, op, FALSE), AdoptHistory(d, op, FALSE)}
        OBVIOUS
    <2>2. UNCHANGED <<disk, calls, reply, ghost>>
        BY <1>2 DEF BeginPersist
    <2>3. Drops(page, d) /\ d.stored = page.stored /\ IsPage(d)
        BY ThePage, DequeueDrops
    <2> HIDE DEF d
    <2>4. Carries(d, r) /\ r.queue = d.queue /\ r.stored = d.stored
      <3>1. Carries(d, d)
          BY <2>3 DEF Carries, SameHistory
      <3> HIDE DEF op, f
      <3>2. /\ Carries(d, AdoptSharing(d, op, FALSE)) /\ Carries(d, AdoptHistory(d, op, FALSE))
            /\ AdoptSharing(d, op, FALSE).queue = d.queue /\ AdoptHistory(d, op, FALSE).queue = d.queue
            /\ AdoptSharing(d, op, FALSE).stored = d.stored /\ AdoptHistory(d, op, FALSE).stored = d.stored
          BY <2>3, NotWrittenCarries
      <3>3. r = d \/ r = AdoptSharing(d, op, FALSE) \/ r = AdoptHistory(d, op, FALSE)
          BY <2>1, <2>6
      <3>4. CASE r = d
          BY <3>1, <3>4
      <3>5. CASE r = AdoptSharing(d, op, FALSE)
          BY <3>2, <3>5
      <3>6. CASE r = AdoptHistory(d, op, FALSE)
          BY <3>2, <3>6
      <3> QED
          BY <3>3, <3>4, <3>5, <3>6
    <2> HIDE DEF op, f
    <2>5. ~Made(page, reply)
        BY <1>1 DEF Made
    <2> QED
        BY <1>1, <2>1, <2>2, <2>3, <2>4, <2>5, UnchangedThenContinues
  <1>3. CASE ~Stale(page, op) /\ writable
    <2> DEFINE operation == IF share THEN "writeSharing" ELSE "writeHistory"
               c == Called(operation, op.data)
    <2>1. /\ page' = [page EXCEPT !.at = "first"] /\ calls' = Append(calls, c)
          /\ UNCHANGED <<disk, reply>>
          /\ ghost'.kept = ghost.kept /\ ghost'.fellBack = ghost.fellBack
          /\ ghost'.forgotten = IF op.kind = "save" THEN ghost.forgotten \ op.about
                                ELSE ghost.forgotten
        BY <1>3 DEF BeginPersist, Ask, Called, StorageInv
    <2>2. c.op = operation /\ c.data = op.data /\ c.mine
        BY DEF Called
    <2> HIDE DEF c
    <2>3. ~share => Changes(op, page.hist) /\ op.rev = page.hrev /\ page.hWritable
        BY <1>1, <1>3 DEF Stale, FlightsOp
    <2>4. /\ SameHistory(page, page') /\ page'.at = "first" /\ page'.queue = page.queue
          /\ page'.stored = page.stored
        BY <2>1, ThePage DEF SameHistory, IsPage, Fields
    <2> HIDE DEF op
    <2>5. FlightsPage(page') /\ \A kept : KeptPage(page, kept) => KeptPage(page', kept)
        BY <1>1, <2>3, <2>4 DEF FlightsInv, FlightsPage, FlightsOp, KeptPage, KeptOp, SameHistory
    <2>6. CandidateInv(page')
        BY <2>4, StillCandidate DEF FlightsInv
    <2>7. c.op = "writeHistory" =>
              /\ Remembers(c.data)
              /\ ghost'.forgotten \cap FlightsIn(c.data) = {}
              /\ "history" \notin ghost.fellBack => ghost.kept \subseteq FlightsIn(c.data)
      <3>1. SUFFICES ASSUME ~share
                     PROVE  /\ Remembers(op.data) /\ ghost'.forgotten \cap FlightsIn(op.data) = {}
                            /\ "history" \notin ghost.fellBack => ghost.kept \subseteq FlightsIn(op.data)
          BY <2>2
      <3>2. "history" \notin ghost.fellBack =>
                /\ ghost.kept \subseteq FlightsIn(page.hist)
                /\ op.kind = "forget" => ghost.kept \cap op.about = {}
          BY <1>1, <2>3, <3>1 DEF FlightsInv, KeptPage, KeptOp
      <3>3. ghost.forgotten \cap FlightsIn(page.hist) = {}
          BY DEF FlightsInv, GoneInv
      <3> QED
          BY <1>1, <2>1, <2>3, <3>1, <3>2, <3>3 DEF Changes
    <2>8. GoneInv(page, calls, disk, ghost'.forgotten)
        BY <2>1 DEF FlightsInv, GoneInv
    <2>9. /\ WritesInv(calls', disk) /\ MineInv(page, calls')
          /\ GoneInv(page, calls', disk, ghost'.forgotten)
          /\ "history" \notin ghost.fellBack => KeptFile(calls', disk, ghost.kept)
        BY <2>1, <2>2, <2>7, <2>8, ThePage, AddedCall DEF FlightsInv
    <2>10. "history" \notin ghost.fellBack => HeldInv(page', reply, disk)
        BY <1>1, <2>4 DEF HeldInv, SameHistory
    <2> QED
        BY <2>1, <2>4, <2>5, <2>6, <2>9, <2>10 DEF FlightsInv, GoneInv, MineInv, SameHistory
  <1> QED
      BY <1>2, <1>3

-----------------------------------------------------------------------------
(* Action by action: the replies.                                           *)

\* A history under a new revision: no change that was waiting lands on it.
LEMMA NewHistory ==
  ASSUME NEW p, FlightsPage(p), IsPage(p), \A i \in 1..Len(p.queue) : p.queue[i].rev \in Nat,
         NEW q, q.hrev = p.hrev + 1, q.queue = p.queue,
         q.cand = p.cand, Remembers(q.hist), q.hBlocked => ~q.hWritable,
         q.at # "idle" => p.queue[1].kind \notin {"save", "forget"}
  PROVE  /\ FlightsPage(q)
         /\ \A kept : (/\ \A i \in 1..Len(p.queue) : p.queue[i].kind = "forgetEverything" => kept = {}
                       /\ q.hWritable => kept \subseteq FlightsIn(q.hist)) => KeptPage(q, kept)
  <1>1. ASSUME NEW o, FlightsOp(p, o), o.rev \in Nat
        PROVE  /\ FlightsOp(q, o)
               /\ \A kept : (o.kind = "forgetEverything" => kept = {}) => KeptOp(q, o, kept)
    <2>1. p.hrev \in Nat /\ (o.kind \in {"save", "forget"} => o.rev <= p.hrev)
        BY <1>1 DEF FlightsOp, IsPage
    <2>2. o.kind \in {"save", "forget"} => o.rev <= q.hrev /\ o.rev # q.hrev
        BY <1>1, <2>1
    <2> QED
        BY <1>1, <2>2 DEF FlightsOp, KeptOp
  <1>2. \A i \in 1..Len(p.queue) : FlightsOp(p, p.queue[i])
      BY DEF FlightsPage
  <1>3. FlightsPage(q)
      BY <1>1, <1>2 DEF FlightsPage
  <1>4. ASSUME NEW kept, \A i \in 1..Len(p.queue) : p.queue[i].kind = "forgetEverything" => kept = {},
               q.hWritable => kept \subseteq FlightsIn(q.hist)
        PROVE  KeptPage(q, kept)
      BY <1>1, <1>2, <1>4 DEF KeptPage
  <1> QED
      BY <1>3, <1>4

\* A reply, and what is known while it is heard.
LEMMA AnsweredFlights ==
  ASSUME StorageInv, FlightsInv, reply.here
  PROVE  /\ calls = <<>> /\ Len(calls) = 0 /\ IsSeq(calls)
         /\ page.queue # <<>> /\ Head(page.queue) = page.queue[1] /\ 1 \in 1..Len(page.queue)
         /\ Answers(page, reply, disk) /\ FlightsOp(page, page.queue[1]) /\ page.at # "idle"
         /\ IsPage(page) /\ IsSeq(page.queue)
         /\ \A i \in 1..Len(page.queue) : page.queue[i].rev \in Nat
         /\ "history" \notin ghost.fellBack => KeptOp(page, page.queue[1], ghost.kept)
  <1>1. /\ calls = <<>> /\ Len(calls) = 0 /\ page.at # "idle"
        /\ page.queue # <<>> /\ Head(page.queue) = page.queue[1] /\ 1 \in 1..Len(page.queue)
        /\ Answers(page, reply, disk)
      BY AnsweredTalks
  <1>2. IsPage(page) /\ IsSeq(page.queue) /\ \A i \in 1..Len(page.queue) : page.queue[i].rev \in Nat
      BY DEF StorageInv, PageInv, IsOp
  <1> QED
      BY <1>1, <1>2, ThePage DEF FlightsInv, FlightsPage, KeptPage

\* What the page makes of the history's file.
LEMMA SalvagedIs ==
  ASSUME FlightsInv, NEW file \in {Unread, disk["history"]}
  PROVE  LET h == ImportHistory(Salvaged(file, CreateHistory))
         IN /\ Remembers(h)
            /\ UnsafeToReplace(file) \/ h = Saved(disk)
            /\ h = Saved(disk) \/ FlightsIn(h) = {}
  <1>1. CASE file = Unread
    <2>1. Salvaged(file, CreateHistory) = CreateHistory /\ UnsafeToReplace(file)
        BY <1>1 DEF Salvaged, Unread, UnsafeToReplace
    <2> QED
        BY <2>1, EmptyRemembers, ImportRemembers
  <1>2. CASE file = disk["history"]
    <2>1. Salvaged(file, CreateHistory) = Saved(disk) /\ Remembers(Saved(disk))
        BY <1>2 DEF Saved, FlightsInv, WritesInv
    <2> QED
        BY <2>1, ImportRemembers
  <1> QED
      BY <1>1, <1>2

LEMMA LoadHistoryKeepsFlights == ASSUME StorageInv, FlightsInv, LoadHistory PROVE FlightsInv'
  <1> DEFINE h == ImportHistory(Salvaged(reply.file, CreateHistory))
             c == Called("readSharing", NoData)
  <1>1. reply.here /\ page.at = "first" /\ Head(page.queue).kind = "load"
      BY DEF LoadHistory, Answered
  <1>2. /\ calls = <<>> /\ Len(calls) = 0 /\ IsSeq(calls) /\ page.queue[1].kind = "load"
        /\ page.queue # <<>>
        /\ FlightsOp(page, page.queue[1]) /\ IsPage(page)
        /\ \A i \in 1..Len(page.queue) : page.queue[i].rev \in Nat
        /\ Answers(page, reply, disk)
      BY <1>1, AnsweredFlights
  <1>3. reply.file \in {Unread, disk["history"]} /\ page.cand = None
      BY <1>1, <1>2 DEF Answers, FlightsOp
  <1>4. /\ Remembers(h)
        /\ UnsafeToReplace(reply.file) \/ h = Saved(disk)
        /\ h = Saved(disk) \/ FlightsIn(h) = {}
      BY <1>3, SalvagedIs
  <1>5. /\ page'.hist = h /\ page'.hrev = page.hrev + 1 /\ page'.queue = page.queue
        /\ page'.cand = page.cand /\ page'.at = "second"
        /\ page'.hBlocked = UnsafeToReplace(reply.file)
        /\ page'.hWritable = ~UnsafeToReplace(reply.file)
        /\ calls' = Append(calls, c) /\ UNCHANGED <<disk, ghost>>
      BY <1>2 DEF LoadHistory, AdoptHistoryFile, IsPage, Fields, Called
  <1>6. /\ page'.hBlocked => ~page'.hWritable
        /\ ~page'.hBlocked => h = Saved(disk)
        /\ page'.hWritable => h = Saved(disk)
      BY <1>4, <1>5 DEF UnsafeToReplace
  <1> HIDE DEF h
  <1>7. /\ FlightsPage(page')
        /\ \A kept : (/\ KeptPage(page, kept)
                      /\ page'.hWritable => kept \subseteq FlightsIn(page'.hist)) => KeptPage(page', kept)
    <2>1. \A kept : KeptPage(page, kept) =>
              \A i \in 1..Len(page.queue) : page.queue[i].kind = "forgetEverything" => kept = {}
        BY DEF KeptPage, KeptOp
    <2>2. FlightsPage(page)
        BY DEF FlightsInv
    <2> QED
        BY <1>2, <1>4, <1>5, <1>6, <2>1, <2>2, NewHistory
  <1>8. "history" \notin ghost.fellBack => KeptPage(page', ghost.kept) /\ HeldInv(page', reply', disk)
      BY <1>5, <1>6, <1>7 DEF FlightsInv, KeptFile, HeldInv
  <1>9. CandidateInv(page')
      BY <1>3, <1>5 DEF CandidateInv
  <1>10. GoneInv(page', calls, disk, ghost.forgotten) /\ MineInv(page', calls)
      BY <1>2, <1>4, <1>5 DEF FlightsInv, GoneInv, MineInv
  <1>11. c.op = "readSharing" /\ c.mine
      BY DEF Called
  <1> HIDE DEF c
  <1>12. /\ WritesInv(calls', disk) /\ MineInv(page', calls')
         /\ GoneInv(page', calls', disk, ghost.forgotten)
         /\ "history" \notin ghost.fellBack => KeptFile(calls', disk, ghost.kept)
      BY <1>2, <1>5, <1>10, <1>11, AddedCall DEF FlightsInv
  <1> QED
      BY <1>5, <1>7, <1>8, <1>9, <1>12 DEF FlightsInv

LEMMA ForgotHistoryKeepsFlights == ASSUME StorageInv, FlightsInv, ForgotHistory PROVE FlightsInv'
  <1> DEFINE c == Called("forgetSharing", NoData)
             p == EmptyHistory(page, reply.ok)
  <1>1. reply.here /\ page.at = "first" /\ Head(page.queue).kind = "forgetEverything"
      BY DEF ForgotHistory, Answered
  <1>2. /\ calls = <<>> /\ Len(calls) = 0 /\ IsSeq(calls) /\ page.queue[1].kind = "forgetEverything"
        /\ page.queue # <<>>
        /\ IsPage(page) /\ \A i \in 1..Len(page.queue) : page.queue[i].rev \in Nat
        /\ Answers(page, reply, disk)
        /\ "history" \notin ghost.fellBack => KeptOp(page, page.queue[1], ghost.kept)
      BY <1>1, AnsweredFlights
  <1>3. /\ page' = [p EXCEPT !.at = "second"] /\ calls' = Append(calls, c) /\ UNCHANGED disk
        /\ reply' = NoReply
        /\ ghost'.kept = ghost.kept /\ ghost'.fellBack = ghost.fellBack
        /\ ghost'.forgotten = IF reply.ok THEN Flights ELSE ghost.forgotten
      BY DEF ForgotHistory, Called, StorageInv
  <1>4. c.op = "forgetSharing" /\ c.mine
      BY DEF Called
  <1> HIDE DEF c
  <1>5. CASE reply.ok
    <2> DEFINE e == [page EXCEPT !.hist = CreateHistory, !.hrev = @ + 1, !.hForgetFailed = FALSE,
                                 !.hBlocked = FALSE, !.hWritable = page.present]
    <2>1. disk["history"] = NoFile /\ ("history" \notin ghost.fellBack => ghost.kept = {})
        BY <1>1, <1>2, <1>5 DEF Answers, KeptOp
    <2>2. Saved(disk) = CreateHistory
        BY <2>1 DEF Saved, Salvaged, NoFile
    <2>3. /\ IsPage(e) /\ e.hist = CreateHistory /\ e.hrev = page.hrev + 1 /\ ~e.hBlocked
          /\ e.queue = page.queue /\ e.cand = page.cand /\ e.at = page.at
          /\ e.present = page.present
        BY <1>2 DEF IsPage, Fields
    <2>4. p = Recompare(e)
        BY <1>5 DEF EmptyHistory
    <2> HIDE DEF e
    <2>5. Carries(e, p) /\ p.queue = e.queue /\ CandidateInv(p)
        BY <2>3, <2>4, EmptyRemembers, RecompareCarries DEF FlightsInv, CandidateInv
    <2> HIDE DEF p
    <2>6. /\ page'.hist = CreateHistory /\ page'.hrev = page.hrev + 1 /\ ~page'.hBlocked
          /\ page'.queue = page.queue /\ page'.cand = page.cand /\ page'.at = "second"
          /\ page'.present = page.present /\ page'.stored = p.stored
          /\ SameHistory(p, page')
        BY <1>3, <2>3, <2>5 DEF Carries, SameHistory, IsPage, Fields
    <2>7. /\ FlightsPage(page')
          /\ \A kept : (/\ KeptPage(page, kept)
                        /\ page'.hWritable => kept \subseteq FlightsIn(page'.hist)) => KeptPage(page', kept)
        BY <1>2, <2>6, EmptyRemembers, NewHistory DEF FlightsInv, KeptPage, KeptOp
    <2>8. "history" \notin ghost.fellBack => KeptPage(page', ghost.kept) /\ HeldInv(page', reply', disk)
        BY <2>1, <2>2, <2>6, <2>7 DEF FlightsInv, HeldInv
    <2>9. CandidateInv(page')
        BY <2>5, <2>6, StillCandidate
    <2>10. GoneInv(page', calls, disk, ghost'.forgotten) /\ MineInv(page', calls)
        BY <1>2, <2>2, <2>6, EmptyRemembers DEF GoneInv, MineInv
    <2>11. /\ WritesInv(calls', disk) /\ MineInv(page', calls')
           /\ GoneInv(page', calls', disk, ghost'.forgotten)
           /\ "history" \notin ghost.fellBack => KeptFile(calls', disk, ghost.kept)
        BY <1>2, <1>3, <1>4, <2>10, AddedCall DEF FlightsInv
    <2> QED
        BY <1>3, <2>7, <2>8, <2>9, <2>11 DEF FlightsInv
  <1>6. CASE ~reply.ok
    <2>1. /\ SameHistory(page, page') /\ page'.queue = page.queue /\ page'.at = "second"
          /\ page'.stored = page.stored
        BY <1>2, <1>3, <1>6 DEF EmptyHistory, SameHistory, IsPage, Fields
    <2> HIDE DEF p
    <2>2. FlightsPage(page') /\ \A kept : KeptPage(page, kept) => KeptPage(page', kept)
        BY <1>2, <2>1 DEF FlightsInv, FlightsPage, FlightsOp, KeptPage, KeptOp, SameHistory
    <2>3. CandidateInv(page')
        BY <2>1, StillCandidate DEF FlightsInv
    <2>4. "history" \notin ghost.fellBack => HeldInv(page', reply', disk)
        BY <1>6, <2>1 DEF FlightsInv, HeldInv, Made, SameHistory
    <2>5. GoneInv(page', calls, disk, ghost'.forgotten) /\ MineInv(page', calls)
        BY <1>2, <1>3, <1>6, <2>1 DEF FlightsInv, GoneInv, MineInv, SameHistory
    <2>6. /\ WritesInv(calls', disk) /\ MineInv(page', calls')
          /\ GoneInv(page', calls', disk, ghost'.forgotten)
          /\ "history" \notin ghost.fellBack => KeptFile(calls', disk, ghost.kept)
        BY <1>2, <1>3, <1>4, <2>5, AddedCall DEF FlightsInv
    <2> QED
        BY <1>3, <2>2, <2>3, <2>4, <2>6 DEF FlightsInv
  <1> QED
      BY <1>5, <1>6

LEMMA LoadSharingKeepsFlights == ASSUME StorageInv, FlightsInv, LoadSharing PROVE FlightsInv'
  <1> DEFINE e == AdoptSharingFile(page, reply.file)
             q == Dequeue(e)
  <1>1. reply.here /\ Head(page.queue).kind = "load"
      BY DEF LoadSharing, Answered
  <1>2. IsPage(page) /\ page.queue # <<>> /\ page.queue[1].kind = "load"
      BY <1>1, AnsweredFlights
  <1>3. /\ page' = ReconcileThen(q, "render") /\ reply' = NoReply /\ UNCHANGED <<disk, calls, ghost>>
      BY DEF LoadSharing
  <1>4. /\ SameHistory(page, e) /\ e.stored = page.stored /\ e.queue = page.queue
      BY <1>2 DEF AdoptSharingFile, IsPage, Fields, SameHistory
  <1> HIDE DEF e
  <1>5. Drops(page, q) /\ q.stored = page.stored /\ IsPage(q)
      BY <1>4, DequeueDrops DEF SameHistory, Drops
  <1> HIDE DEF q
  <1>6. Carries(q, page') /\ page'.stored = q.stored
      BY <1>3, <1>5, ReconcileThenCarries
  <1>7. CandidateInv(page')
      BY <1>5, <1>6, StillCandidate DEF FlightsInv, Drops, Carries
  <1>8. ~Made(page, reply) /\ ~reply'.here
      BY <1>2, <1>3 DEF Made, NoReply
  <1> QED
      BY <1>2, <1>3, <1>5, <1>6, <1>7, <1>8, DroppedKeeps

LEMMA ForgotSharingKeepsFlights == ASSUME StorageInv, FlightsInv, ForgotSharing PROVE FlightsInv'
  <1> DEFINE all == Head(page.queue).kind = "forgetEverything"
             e == EmptySharing(page, reply.ok, all /\ page.sWriteFailed)
             q == Dequeue(e)
  <1>1. /\ reply.here
        /\ all => page.at = "second"
        /\ Head(page.queue).kind \in {"forgetEverything", "erase"}
      BY DEF ForgotSharing, Answered
  <1>2. IsPage(page) /\ page.queue # <<>> /\ Head(page.queue) = page.queue[1]
      BY <1>1, AnsweredFlights
  <1>3. /\ page' = Then(q, "render") \/ page' = q
        /\ reply' = NoReply /\ UNCHANGED <<disk, calls>>
        /\ ghost'.kept = ghost.kept /\ ghost'.forgotten = ghost.forgotten
        /\ ghost'.fellBack = ghost.fellBack
      BY DEF ForgotSharing, StorageInv
  <1>4. SameHistory(page, e) /\ e.stored = page.stored /\ e.queue = page.queue
    <2> HIDE DEF all
    <2>1. CASE reply.ok
        BY <1>2, <2>1 DEF EmptySharing, IsPage, Fields, SameHistory
    <2>2. CASE ~reply.ok
        BY <1>2, <2>2 DEF EmptySharing, IsPage, Fields, SameHistory
    <2> QED
        BY <2>1, <2>2
  <1>5. ~Made(page, reply) /\ ~reply'.here
      BY <1>1, <1>2, <1>3 DEF Made, NoReply
  <1> HIDE DEF e, all
  <1>6. Drops(page, q) /\ q.stored = page.stored /\ IsPage(q)
      BY <1>4, DequeueDrops DEF SameHistory, Drops
  <1> HIDE DEF q
  <1>7. Carries(q, q)
      BY <1>6 DEF Carries, SameHistory
  <1>8. Carries(q, page') /\ page'.stored = q.stored
      BY <1>3, <1>6, <1>7, ThenCarries
  <1>9. CandidateInv(page')
      BY <1>6, <1>8, StillCandidate DEF FlightsInv, Drops, Carries
  <1> QED
      BY <1>2, <1>3, <1>5, <1>6, <1>8, <1>9, DroppedKeeps

LEMMA FinishSharingKeepsFlights == ASSUME StorageInv, FlightsInv, FinishSharing PROVE FlightsInv'
  <1> DEFINE op == Head(page.queue)
             d == Dequeue(page)
             r == AdoptSharing(d, op, reply.ok)
  <1>1. reply.here /\ op.kind = "share"
      BY DEF FinishSharing, Answered
  <1>2. /\ IsPage(page) /\ page.queue # <<>> /\ op = page.queue[1] /\ FlightsOp(page, op)
      BY <1>1, AnsweredFlights
  <1>3. /\ page' = Continue(r, op, reply.ok) /\ reply' = NoReply /\ UNCHANGED <<disk, calls>>
        /\ ghost'.kept = ghost.kept /\ ghost'.forgotten = ghost.forgotten
        /\ ghost'.fellBack = ghost.fellBack
      BY DEF FinishSharing, StorageInv
  <1>4. op.after # "remember" /\ ~Made(page, reply) /\ ~reply'.here
      BY <1>1, <1>2, <1>3 DEF FlightsOp, Made, NoReply
  <1> HIDE DEF op
  <1>5. Drops(page, d) /\ d.stored = page.stored /\ IsPage(d)
      BY <1>2, DequeueDrops
  <1> HIDE DEF d
  <1>6. Carries(d, r) /\ r.queue = d.queue /\ r.stored = d.stored
    <2>1. CASE reply.ok
        BY <1>5, <2>1 DEF AdoptSharing, IsPage, Fields, Carries, SameHistory
    <2>2. CASE ~reply.ok
        BY <1>5, <2>2 DEF AdoptSharing, IsPage, Fields, Carries, SameHistory
    <2> QED
        BY <2>1, <2>2
  <1> HIDE DEF r
  <1> QED
      BY <1>2, <1>3, <1>4, <1>5, <1>6, UnchangedThenContinues

\* The history that was written is the one of memory and the one of the file.
LEMMA WrittenKeepsFlights ==
  ASSUME StorageInv, FlightsInv, FinishHistory, reply.ok PROVE FlightsInv'
  <1> DEFINE op == Head(page.queue)
             d == Dequeue(page)
             f == AdoptHistory(d, op, reply.ok)
  <1>1. reply.here /\ op.kind \in {"save", "forget"}
      BY DEF FinishHistory, Answered
  <1>2. /\ IsPage(page) /\ page.queue # <<>> /\ op = page.queue[1] /\ FlightsOp(page, op)
        /\ 1 \in 1..Len(page.queue)
        /\ calls = <<>> /\ Len(calls) = 0 /\ IsSeq(page.queue) /\ Answers(page, reply, disk)
        /\ page.at # "idle"
        /\ \A i \in 1..Len(page.queue) : page.queue[i].rev \in Nat
        /\ "history" \notin ghost.fellBack => KeptOp(page, op, ghost.kept)
      BY <1>1, AnsweredFlights
  <1>3. /\ page' = Continue(f, op, reply.ok) /\ reply' = NoReply /\ UNCHANGED <<disk, calls>>
        /\ ghost'.fellBack = ghost.fellBack
        /\ op.kind = "save" => /\ ghost'.kept = IF ForgettingAll THEN ghost.kept
                                                ELSE ghost.kept \cup op.about
                               /\ ghost'.forgotten = ghost.forgotten
        /\ op.kind = "forget" => /\ ghost'.kept = ghost.kept
                                 /\ ghost'.forgotten = ghost.forgotten \cup op.about
      BY <1>1 DEF FinishHistory, StorageInv
  <1>4. op.rev = page.hrev /\ Changes(op, page.hist) /\ Saved(disk) = op.data
    <2>1. op.rev = page.hrev /\ disk["history"] = Whole(op.data)
        BY <1>1, <1>2 DEF FlightsInv, FlightsPage, Answers
    <2> QED
        BY <1>1, <1>2, <2>1 DEF FlightsOp, Saved, Salvaged, Whole
  <1>5. Drops(page, d) /\ IsPage(d)
      BY <1>2, DequeueDrops
  <1> HIDE DEF op
  <1>6. \A i \in DOMAIN page.queue : i \in 1..Len(page.queue)
    <2>1. page.queue = [i \in 1..Len(page.queue) |-> page.queue[i]]
        BY <1>2 DEF IsSeq
    <2> DEFINE n == Len(page.queue)
    <2> HIDE DEF n
    <2>2. page.queue = [i \in 1..n |-> page.queue[i]]
        BY <2>1 DEF n
    <2>3. DOMAIN page.queue = 1..n
        BY <2>2
    <2> QED
        BY <2>3 DEF n
  <1>7. /\ FlightsPage(d) /\ IsSeq(d.queue) /\ d.queue = Tail(page.queue) /\ d.at = "idle"
        /\ d.hist = page.hist /\ d.hrev = page.hrev /\ d.hWritable = page.hWritable
        /\ d.hBlocked = page.hBlocked /\ d.cand = page.cand /\ d.present = page.present
        /\ \A i \in 1..Len(d.queue) : i + 1 \in 1..Len(page.queue) /\ d.queue[i] = page.queue[i + 1]
    <2>1. FlightsPage(d) /\ IsSeq(d.queue) /\ d.queue = Tail(page.queue)
        BY <1>2, <1>5, DroppedPage DEF FlightsInv, Drops
    <2>2. \A i \in 1..Len(d.queue) : i + 1 \in 1..Len(page.queue) /\ d.queue[i] = page.queue[i + 1]
        BY <1>2, <2>1, Tailed
    <2> QED
        BY <1>5, <2>1, <2>2 DEF Drops, SameHistory
  <1> HIDE DEF d
  <1>8. /\ IsPage(f) /\ f.hist = op.data /\ f.hrev = d.hrev + 1 /\ f.queue = d.queue
        /\ f.cand = d.cand /\ f.hBlocked = d.hBlocked /\ f.hWritable = d.hWritable
        /\ f.at = d.at /\ f.present = d.present
      BY <1>5 DEF AdoptHistory, IsPage, Fields
  <1> HIDE DEF f
  <1>9. ~f.hBlocked \/ ~f.hWritable
      BY <1>7, <1>8 DEF FlightsInv, FlightsPage
  <1>10. /\ FlightsPage(f)
         /\ \A kept : (/\ \A i \in 1..Len(d.queue) : d.queue[i].kind = "forgetEverything" => kept = {}
                       /\ f.hWritable => kept \subseteq FlightsIn(f.hist)) => KeptPage(f, kept)
    <2>1. Remembers(f.hist) /\ \A i \in 1..Len(d.queue) : d.queue[i].rev \in Nat
        BY <1>2, <1>4, <1>7, <1>8 DEF Changes
    <2> QED
        BY <1>5, <1>7, <1>8, <1>9, <2>1, NewHistory
  <1>11. op.kind = "save" <=> op.after = "remember"
      BY <1>2 DEF FlightsOp
  <1>12. /\ Remembers(f.hist) /\ (f.cand # None => f.cand \in Flights)
         /\ op.kind = "forget" => op.after = "forgotten"
      BY <1>2, <1>4, <1>7, <1>8 DEF Changes, FlightsInv, CandidateInv, FlightsOp
  <1>13. Carries(f, page') /\ CandidateInv(page')
      BY <1>1, <1>3, <1>8, <1>11, <1>12, ContinueCarries
  <1>14. FlightsPage(page') /\ \A kept : KeptPage(f, kept) => KeptPage(page', kept)
      BY <1>7, <1>8, <1>10, <1>13, CarriedPage
  <1>15. /\ page'.hist = op.data /\ page'.present = page.present /\ page'.hBlocked = page.hBlocked
      BY <1>7, <1>8, <1>13 DEF Carries, SameHistory
  <1>16. /\ op.kind = "save" => FlightsIn(op.data) = FlightsIn(page.hist) \cup op.about
         /\ op.kind = "forget" => FlightsIn(op.data) = FlightsIn(page.hist) \ op.about
      BY <1>4 DEF Changes
  <1>17. GoneInv(page', calls, disk, ghost'.forgotten)
    <2>1. ghost.forgotten \cap FlightsIn(Saved(disk)) = {}
        BY DEF FlightsInv, GoneInv
    <2>3. ghost.forgotten \cap FlightsIn(page.hist) = {}
        BY DEF FlightsInv, GoneInv
    <2>2. ghost'.forgotten \cap FlightsIn(op.data) = {}
        BY <1>1, <1>3, <1>4, <1>16, <2>1, <2>3
    <2> QED
        BY <1>2, <1>4, <1>15, <2>2 DEF GoneInv
  <1>18. WritesInv(calls, disk) /\ MineInv(page', calls)
      BY <1>2 DEF FlightsInv, MineInv
  <1>19. ASSUME "history" \notin ghost.fellBack
         PROVE  /\ KeptPage(page', ghost'.kept) /\ KeptFile(calls, disk, ghost'.kept)
                /\ HeldInv(page', reply', disk)
    <2>1. /\ KeptPage(page, ghost.kept) /\ ghost.kept \subseteq FlightsIn(op.data)
        BY <1>4, <1>19 DEF FlightsInv, KeptFile
    <2>2. ghost'.kept \subseteq FlightsIn(op.data)
        BY <1>1, <1>3, <1>16, <2>1
    <2>3. \A i \in 1..Len(page.queue) : page.queue[i].kind = "forgetEverything" => ghost.kept = {}
        BY <2>1 DEF KeptPage, KeptOp
    <2>4. \A i \in 1..Len(page.queue) : page.queue[i].kind = "forgetEverything" => ForgettingAll
      <3>1. \A i \in 1..Len(page.queue) : i \in DOMAIN page.queue
        <4>1. page.queue = [i \in 1..Len(page.queue) |-> page.queue[i]]
            BY <1>2 DEF IsSeq
        <4> DEFINE n == Len(page.queue)
        <4> HIDE DEF n
        <4>2. page.queue = [i \in 1..n |-> page.queue[i]]
            BY <4>1 DEF n
        <4>3. DOMAIN page.queue = 1..n
            BY <4>2
        <4> QED
            BY <4>3 DEF n
      <3> QED
          BY <3>1 DEF ForgettingAll
    <2>5. \A i \in 1..Len(page.queue) : page.queue[i].kind = "forgetEverything" => ghost'.kept = {}
        BY <1>1, <1>3, <2>3, <2>4
    <2>6. KeptPage(f, ghost'.kept)
        BY <1>7, <1>8, <1>10, <2>2, <2>5
    <2>7. KeptFile(calls, disk, ghost'.kept)
        BY <1>2, <1>4, <2>2 DEF KeptFile
    <2> QED
        BY <1>4, <1>14, <1>15, <2>6, <2>7 DEF HeldInv
  <1> QED
      BY <1>3, <1>13, <1>14, <1>17, <1>18, <1>19 DEF FlightsInv

LEMMA FinishHistoryKeepsFlights == ASSUME StorageInv, FlightsInv, FinishHistory PROVE FlightsInv'
  <1>1. CASE reply.ok
      BY <1>1, WrittenKeepsFlights
  <1>2. CASE ~reply.ok
    <2> DEFINE op == Head(page.queue)
               d == Dequeue(page)
               r == AdoptHistory(d, op, FALSE)
    <2>1. reply.here
        BY DEF FinishHistory, Answered
    <2>2. IsPage(page) /\ page.queue # <<>>
        BY <2>1, AnsweredFlights
    <2>3. /\ page' = Continue(r, op, FALSE) /\ reply' = NoReply /\ UNCHANGED <<disk, calls, ghost>>
        BY <1>2 DEF FinishHistory, AdoptHistory, Continue
    <2>4. ~Made(page, reply) /\ ~reply'.here
        BY <1>2, <2>3 DEF Made, NoReply
    <2> HIDE DEF op
    <2>5. Drops(page, d) /\ d.stored = page.stored /\ IsPage(d)
        BY <2>2, DequeueDrops
    <2> HIDE DEF d
    <2>6. Carries(d, r) /\ r.queue = d.queue /\ r.stored = d.stored
        BY <2>5, NotWrittenCarries
    <2> HIDE DEF r
    <2> QED
        BY <2>2, <2>3, <2>4, <2>5, <2>6, UnchangedThenContinues
  <1> QED
      BY <1>1, <1>2

LEMMA PageKeepsFlights == ASSUME StorageInv, FlightsInv, PageStep PROVE FlightsInv'
  BY BeginKeepsFlights, BeginPersistKeepsFlights, LoadHistoryKeepsFlights, LoadSharingKeepsFlights,
     FinishHistoryKeepsFlights, FinishSharingKeepsFlights, ForgotHistoryKeepsFlights,
     ForgotSharingKeepsFlights
  DEF PageStep

-----------------------------------------------------------------------------
(* Action by action: the shell.                                             *)

\* The calls but the first.
LEMMA FewerCalls ==
  ASSUME StorageInv, calls # <<>>
  PROVE  \A i \in 1..Len(Tail(calls)) : i + 1 \in 1..Len(calls) /\ Tail(calls)[i] = calls[i + 1]
  <1>1. IsSeq(calls)
      BY ServedCall
  <1>2. /\ Len(Tail(calls)) = Len(calls) - 1 /\ Len(calls) \in Nat
        /\ \A i \in 1..Len(Tail(calls)) : Tail(calls)[i] = calls[i + 1]
      BY <1>1, Tailed
  <1> QED
      BY <1>2

LEMMA AnswerKeepsFlights ==
  ASSUME StorageInv, FlightsInv, calls # <<>>, NEW ok, NEW file, Answer(ok, file), UNCHANGED ghost,
         Remembers(Saved(disk')), ghost.forgotten \cap FlightsIn(Saved(disk')) = {},
         "history" \notin ghost.fellBack => /\ ghost.kept \subseteq FlightsIn(Saved(disk'))
                                            /\ HeldInv(page, reply', disk')
  PROVE  FlightsInv'
  <1>1. calls' = Tail(calls) /\ UNCHANGED page
      BY DEF Answer
  <1>2. \A i \in 1..Len(calls') : i + 1 \in 1..Len(calls) /\ calls'[i] = calls[i + 1]
      BY <1>1, FewerCalls
  <1>3. /\ WritesInv(calls', disk') /\ MineInv(page, calls')
        /\ GoneInv(page, calls', disk', ghost.forgotten)
      BY <1>2 DEF FlightsInv, WritesInv, MineInv, GoneInv
  <1>4. "history" \notin ghost.fellBack => KeptFile(calls', disk', ghost.kept)
      BY <1>2 DEF FlightsInv, KeptFile
  <1> QED
      BY <1>1, <1>3, <1>4 DEF FlightsInv

\* A call that left the history's file as it was.
LEMMA SameFileKeepsFlights ==
  ASSUME StorageInv, FlightsInv, calls # <<>>, NEW ok, NEW file, Answer(ok, file), UNCHANGED ghost,
         Saved(disk') = Saved(disk)
  PROVE  FlightsInv'
  <1>1. ~reply.here
      BY ServedCall
  <1>2. /\ Remembers(Saved(disk)) /\ ghost.forgotten \cap FlightsIn(Saved(disk)) = {}
        /\ "history" \notin ghost.fellBack =>
               ghost.kept \subseteq FlightsIn(Saved(disk)) /\ HeldInv(page, reply', disk')
      BY <1>1 DEF FlightsInv, WritesInv, GoneInv, KeptFile, HeldInv, Made
  <1> QED
      BY <1>2, AnswerKeepsFlights

LEMMA UnchangedFilesKeepFlights ==
  ASSUME StorageInv, FlightsInv,
         ServeRead \/ ServeReadFails \/ ServeStageFails \/ ServeRenameFails \/ ServeForgetFails
  PROVE  FlightsInv'
  <1>1. calls # <<>> /\ UNCHANGED <<disk, ghost>>
      BY DEF ServeRead, ServeReadFails, ServeStageFails, ServeRenameFails, ServeForgetFails, Serving
  <1>2. PICK ok, file : Answer(ok, file)
      BY DEF ServeRead, ServeReadFails, ServeStageFails, ServeRenameFails, ServeForgetFails
  <1> QED
      BY <1>1, <1>2, SameFileKeepsFlights

\* One file replaced.
LEMMA FileReplaced ==
  ASSUME StorageInv, NEW file \in {"history", "sharing"}, NEW x, disk' = [disk EXCEPT ![file] = x]
  PROVE  /\ file = "sharing" => Saved(disk') = Saved(disk)
         /\ file = "history" => Saved(disk') = Salvaged(x, CreateHistory)
  <1>1. disk = [f \in {"history", "sharing"} |-> disk[f]]
      BY DEF StorageInv, DiskInv
  <1>2. /\ file = "sharing" => disk'["history"] = disk["history"]
        /\ file = "history" => disk'["history"] = x
      BY <1>1
  <1> QED
      BY <1>2 DEF Saved

\* Who hears of a change of the history asked for it.
LEMMA HeardOf ==
  ASSUME StorageInv, FlightsInv, calls # <<>>, calls[1].op \in {"writeHistory", "forgetHistory"},
         Answer(TRUE, NoFile)
  PROVE  HeldInv(page, reply', disk')
  <1>1. /\ 1 \in 1..Len(calls) /\ Head(calls) = calls[1]
        /\ calls[1].mine => Asks(page, calls[1]) /\ page.at # "idle"
      BY ServedCall
  <1>2. CASE calls[1].mine
    <2> DEFINE o == page.queue[1]
    <2>1. reply'.ok /\ reply'.here
        BY <1>1, <1>2 DEF Answer
    <2>2. page.queue # <<>> /\ IsSeq(page.queue)
        BY <1>1, <1>2, ThePage
    <2>3. 1 \in 1..Len(page.queue)
        BY <2>2, Tailed
    <2>4. FlightsOp(page, o) /\ Asks(page, calls[1])
        BY <1>1, <1>2, <2>3 DEF FlightsInv, FlightsPage
    <2>5. \/ o.kind \in {"save", "forget"}
          \/ o.kind = "forgetEverything" /\ page.at = "first"
        BY <2>4 DEF FlightsOp, Asks, Reads, Forgets
    <2> QED
        BY <2>1, <2>5 DEF Made, HeldInv
  <1>3. CASE ~calls[1].mine
      BY <1>1, <1>3 DEF FlightsInv, MineInv, HeldInv
  <1> QED
      BY <1>2, <1>3

LEMMA ServeRenameKeepsFlights == ASSUME StorageInv, FlightsInv, ServeRename PROVE FlightsInv'
  <1> DEFINE c == calls[1]
  <1>1. /\ calls # <<>> /\ Head(calls) = c /\ 1 \in 1..Len(calls)
        /\ c.phase # "asked" => c.op \in Writes
        /\ Head(calls).phase \in {"staged", "deleted"}
      BY ServedCall DEF ServeRename, Serving
  <1>2. /\ c.op \in Writes /\ disk' = [disk EXCEPT ![File(c)] = Whole(c.data)]
        /\ Answer(TRUE, NoFile) /\ UNCHANGED ghost
      BY <1>1 DEF ServeRename
  <1>3. CASE c.op = "writeSharing"
    <2>1. File(c) = "sharing"
        BY <1>3 DEF File
    <2> HIDE DEF c
    <2>2. Saved(disk') = Saved(disk)
        BY <1>2, <2>1, FileReplaced
    <2> QED
        BY <1>1, <1>2, <2>2, SameFileKeepsFlights
  <1>4. CASE c.op = "writeHistory"
    <2>1. File(c) = "history" /\ Salvaged(Whole(c.data), CreateHistory) = c.data
        BY <1>4 DEF File, Whole, Salvaged
    <2>2. Saved(disk') = c.data
      <3> HIDE DEF c
      <3> QED
          BY <1>2, <2>1, FileReplaced
    <2>3. /\ Remembers(c.data) /\ ghost.forgotten \cap FlightsIn(c.data) = {}
          /\ "history" \notin ghost.fellBack => ghost.kept \subseteq FlightsIn(c.data)
        BY <1>1, <1>4 DEF FlightsInv, WritesInv, GoneInv, KeptFile
    <2>4. HeldInv(page, reply', disk')
        BY <1>1, <1>2, <1>4, HeardOf
    <2> QED
        BY <1>1, <1>2, <2>2, <2>3, <2>4, AnswerKeepsFlights
  <1> QED
      BY <1>2, <1>3, <1>4 DEF Writes

LEMMA ServeForgetKeepsFlights == ASSUME StorageInv, FlightsInv, ServeForget PROVE FlightsInv'
  <1> DEFINE c == calls[1]
  <1>1. calls # <<>> /\ Head(calls) = c /\ 1 \in 1..Len(calls)
      BY ServedCall DEF ServeForget, Serving
  <1>2. /\ c.op \in Forgets /\ disk' = [disk EXCEPT ![File(c)] = NoFile]
        /\ Answer(TRUE, NoFile) /\ UNCHANGED ghost
      BY <1>1 DEF ServeForget, Is
  <1>3. CASE c.op = "forgetSharing"
    <2>1. File(c) = "sharing"
        BY <1>3 DEF File
    <2> HIDE DEF c
    <2>2. Saved(disk') = Saved(disk)
        BY <1>2, <2>1, FileReplaced
    <2> QED
        BY <1>1, <1>2, <2>2, SameFileKeepsFlights
  <1>4. CASE c.op = "forgetHistory"
    <2>1. File(c) = "history" /\ Salvaged(NoFile, CreateHistory) = CreateHistory
        BY <1>4 DEF File, NoFile, Salvaged
    <2>2. Saved(disk') = CreateHistory
      <3> HIDE DEF c
      <3> QED
          BY <1>2, <2>1, FileReplaced
    <2>3. "history" \notin ghost.fellBack => ghost.kept = {}
        BY <1>1, <1>4 DEF FlightsInv, KeptFile
    <2>4. HeldInv(page, reply', disk')
        BY <1>1, <1>2, <1>4, HeardOf
    <2> QED
        BY <1>1, <1>2, <2>2, <2>3, <2>4, EmptyRemembers, AnswerKeepsFlights
  <1> QED
      BY <1>2, <1>3, <1>4 DEF Forgets

\* The calls as they are, but for how far the first has come.
LEMMA PhaseKeepsFlights ==
  ASSUME StorageInv, FlightsInv, calls # <<>>, NEW phase, InPhase(phase),
         ghost'.kept = ghost.kept, ghost'.forgotten = ghost.forgotten,
         "history" \notin ghost'.fellBack =>
             "history" \notin ghost.fellBack /\ Saved(disk') = Saved(disk),
         Saved(disk') \in {Saved(disk), CreateHistory}
  PROVE  FlightsInv'
  <1> DEFINE C == calls
             K == calls'
  <1>1. IsSeq(C) /\ 1 \in 1..Len(C) /\ \A i \in 1..Len(C) : IsCall(C[i])
      BY ServedCall DEF StorageInv, CallsInv
  <1>2. K = [C EXCEPT ![1].phase = phase] /\ UNCHANGED <<reply, page>>
      BY DEF InPhase
  <1>3. Len(K) = Len(C)
    <2> DEFINE n == Len(C)
    <2>1. n \in Nat /\ DOMAIN C = 1..n
        BY <1>1 DEF IsSeq
    <2> HIDE DEF n
    <2>2. K = [i \in 1..n |-> K[i]]
        BY <1>2, <2>1
    <2> HIDE DEF K
    <2>3. Len(K) = n
        BY <2>1, <2>2, FunctionIsSeq
    <2> QED
        BY <2>3 DEF n
  <1>4. K[1] = [C[1] EXCEPT !.phase = phase] /\ \A i \in 1..Len(C) : i # 1 => K[i] = C[i]
      BY <1>1, <1>2 DEF IsSeq
  <1>5. K[1].op = C[1].op /\ K[1].data = C[1].data /\ K[1].mine = C[1].mine
      BY <1>1, <1>4 DEF IsCall
  <1> HIDE DEF K
  <1>6. \A i \in 1..Len(K) : /\ i \in 1..Len(C)
                             /\ K[i].op = C[i].op /\ K[i].data = C[i].data /\ K[i].mine = C[i].mine
      BY <1>3, <1>4, <1>5
  <1>7. Remembers(Saved(disk')) /\ ghost.forgotten \cap FlightsIn(Saved(disk')) = {}
      BY EmptyRemembers DEF FlightsInv, WritesInv, GoneInv
  <1>8. /\ WritesInv(K, disk') /\ MineInv(page, K) /\ GoneInv(page, K, disk', ghost.forgotten)
      BY <1>6, <1>7 DEF FlightsInv, WritesInv, MineInv, GoneInv
  <1>9. "history" \notin ghost'.fellBack => KeptFile(K, disk', ghost.kept) /\ HeldInv(page, reply, disk')
      BY <1>6 DEF FlightsInv, KeptFile, HeldInv
  <1> QED
      BY <1>2, <1>8, <1>9 DEF FlightsInv, K

LEMMA ServeStageKeepsFlights == ASSUME StorageInv, FlightsInv, ServeStage PROVE FlightsInv'
  BY PhaseKeepsFlights DEF ServeStage, Serving

LEMMA RenameRefusedKeepsFlights ==
  ASSUME StorageInv, FlightsInv, ServeRenameRefused PROVE FlightsInv'
  <1> DEFINE c == calls[1]
             file == File(c)
  <1>1. calls # <<>> /\ Head(calls) = c
      BY ServedCall DEF ServeRenameRefused, Serving
  <1>2. /\ disk' = [disk EXCEPT ![file] = NoFile] /\ InPhase("deleted")
        /\ ghost'.kept = ghost.kept /\ ghost'.forgotten = ghost.forgotten
        /\ ghost'.fellBack = ghost.fellBack \cup {file}
      BY <1>1 DEF ServeRenameRefused, StorageInv
  <1>3. file \in {"history", "sharing"}
      BY DEF File
  <1> HIDE DEF file
  <1>4. Salvaged(NoFile, CreateHistory) = CreateHistory
      BY DEF NoFile, Salvaged
  <1>5. /\ file = "sharing" => Saved(disk') = Saved(disk)
        /\ file = "history" => Saved(disk') = CreateHistory
      BY <1>2, <1>3, <1>4, FileReplaced
  <1> QED
      BY <1>1, <1>2, <1>3, <1>5, PhaseKeepsFlights

LEMMA ShellKeepsFlights == ASSUME StorageInv, FlightsInv, ShellStep PROVE FlightsInv'
  BY UnchangedFilesKeepFlights, ServeRenameKeepsFlights, ServeForgetKeepsFlights,
     ServeStageKeepsFlights, RenameRefusedKeepsFlights
  DEF ShellStep

-----------------------------------------------------------------------------
(* Losing the page, or the process, and starting.                           *)

LEMMA FreshFlights ==
  ASSUME NEW minted
  PROVE  LET p == NewPage(minted)
         IN /\ FlightsPage(p) /\ CandidateInv(p) /\ ~p.present /\ p.hist = CreateHistory
            /\ \A kept : KeptPage(p, kept)
  <1> DEFINE o == Op("load", NoData, 0, None, {})
             q == <<o>>
             p == NewPage(minted)
  <1>1. o.kind = "load" /\ o.after = None
      BY DEF Op
  <1> HIDE DEF o
  <1>2. Len(q) = 1 /\ q[1] = o
    <2>1. q \in Seq({o}) /\ Len(q) = 1 /\ q[1] = o
        OBVIOUS
    <2> QED
        BY <2>1
  <1>3. /\ p.queue = q /\ p.at = "idle" /\ p.hWritable = FALSE /\ p.present = FALSE
        /\ p.hist = CreateHistory /\ p.cand = None
      BY DEF NewPage, o
  <1> HIDE DEF p, q
  <1>4. \A i \in 1..Len(p.queue) : p.queue[i] = o
    <2>1. \A i \in 1..Len(q) : i = 1 /\ q[i] = o
        BY <1>2
    <2> QED
        BY <1>3, <2>1
  <1>5. FlightsOp(p, o) /\ \A kept : KeptOp(p, o, kept)
      BY <1>1, <1>3 DEF FlightsOp, KeptOp, None
  <1>6. FlightsPage(p) /\ \A kept : KeptPage(p, kept)
      BY <1>3, <1>4, <1>5, EmptyRemembers DEF FlightsPage, KeptPage
  <1> QED
      BY <1>3, <1>6 DEF CandidateInv, p

LEMMA LosePageKeepsFlights == ASSUME StorageInv, FlightsInv, LosePage PROVE FlightsInv'
  <1> DEFINE n == Len(calls)
             K == calls'
  <1>1. /\ K = [i \in DOMAIN calls |-> [calls[i] EXCEPT !.mine = FALSE]]
        /\ page' = NewPage(page.minted) /\ UNCHANGED <<disk, ghost>>
      BY DEF LosePage
  <1>2. /\ IsSeq(calls) /\ n \in Nat /\ DOMAIN calls = 1..n /\ \A i \in 1..n : IsCall(calls[i])
      BY DEF StorageInv, CallsInv, IsSeq
  <1>3. \A i \in 1..n : K[i].op = calls[i].op /\ K[i].data = calls[i].data
      BY <1>1, <1>2 DEF IsCall
  <1>4. Len(K) = n
    <2>1. K = [i \in 1..n |-> K[i]]
        BY <1>1, <1>2
    <2> HIDE DEF K, n
    <2> QED
        BY <1>2, <2>1, FunctionIsSeq
  <1> HIDE DEF K
  <1>5. /\ FlightsPage(page') /\ CandidateInv(page') /\ ~page'.present /\ page'.hist = CreateHistory
        /\ \A kept : KeptPage(page', kept)
      BY <1>1, FreshFlights
  <1>6. /\ WritesInv(K, disk) /\ GoneInv(page', K, disk, ghost.forgotten)
        /\ "history" \notin ghost.fellBack => KeptFile(K, disk, ghost.kept)
      BY <1>3, <1>4, <1>5, EmptyRemembers DEF FlightsInv, WritesInv, GoneInv, KeptFile
  <1> QED
      BY <1>1, <1>5, <1>6 DEF FlightsInv, MineInv, HeldInv, K

LEMMA CrashKeepsFlights == ASSUME StorageInv, FlightsInv, Crash PROVE FlightsInv'
  <1>1. calls' = <<>> /\ page' = NewPage(page.minted) /\ UNCHANGED <<disk, ghost>>
      BY DEF Crash
  <1>2. /\ FlightsPage(page') /\ CandidateInv(page') /\ ~page'.present /\ page'.hist = CreateHistory
        /\ \A kept : KeptPage(page', kept)
      BY <1>1, FreshFlights
  <1>3. /\ WritesInv(calls', disk) /\ GoneInv(page', calls', disk, ghost.forgotten)
        /\ "history" \notin ghost.fellBack => KeptFile(calls', disk, ghost.kept)
      BY <1>1, <1>2, EmptyRemembers DEF FlightsInv, WritesInv, GoneInv, KeptFile
  <1> QED
      BY <1>1, <1>2, <1>3 DEF FlightsInv, MineInv, HeldInv

LEMMA FlightsInvStep == StorageInv /\ FlightsInv /\ [Next]_vars => FlightsInv'
  <1> SUFFICES ASSUME StorageInv, FlightsInv, [Next]_vars PROVE FlightsInv'
      OBVIOUS
  <1>1. CASE UNCHANGED vars \/ Start
      BY <1>1 DEF vars, FlightsInv, Start
  <1>2. CASE Next
      BY <1>1, <1>2, PageKeepsFlights, ShellKeepsFlights, PilotKeepsFlights, LosePageKeepsFlights,
         CrashKeepsFlights DEF Next
  <1> QED
      BY <1>1, <1>2

\* A history of saves is its own export.
LEMMA ExportRemembers ==
  ASSUME NEW h, Remembers(h)
  PROVE  ExportHistory(h) = h
  <1>1. h.records \in Seq(Saves) /\ \A i \in DOMAIN h.records : h.records[i] \in Saves
      BY Remembered1
  <1>2. \A i \in DOMAIN h.records : [h.records[i] EXCEPT !.token = NoToken] = h.records[i]
      BY <1>1, SavesAre
  <1>3. h.records = [i \in DOMAIN h.records |-> [h.records[i] EXCEPT !.token = NoToken]]
    <2> DEFINE s == h.records
               t == [i \in DOMAIN s |-> [s[i] EXCEPT !.token = NoToken]]
    <2>1. s = [i \in DOMAIN s |-> s[i]]
        BY <1>1
    <2>2. DOMAIN t = DOMAIN s /\ \A i \in DOMAIN s : t[i] = s[i]
        BY <1>2
    <2>3. t = [i \in DOMAIN t |-> t[i]]
        OBVIOUS
    <2> HIDE DEF s, t
    <2>4. s = t
        BY <2>1, <2>2, <2>3
    <2> QED
        BY <2>4 DEF s, t
  <1> QED
      BY <1>3 DEF ExportHistory, Remembers, IsHistory

LEMMA FlightsInvInit == Init => FlightsInv
  <1> SUFFICES ASSUME Init PROVE FlightsInv
      OBVIOUS
  <1> DEFINE f == CHOOSE f \in Flights : TRUE
             one == ExportHistory(AddFlightRecord(CreateHistory, Measured(f)))
  <1>1. f \in Flights
      BY StorageAssumption
  <1> HIDE DEF f
  <1>2. Remembers(one)
    <2> DEFINE a == AddFlightRecord(CreateHistory, Measured(f))
    <2>1. Remembers(a)
        BY <1>1, EmptyRemembers, AddRemembers
    <2> HIDE DEF a
    <2> QED
        BY <2>1, ExportRemembers DEF a
  <1> HIDE DEF one
  <1> DEFINE older == [asked |-> TRUE, on |-> TRUE, terms |-> "old", ids |-> {<<AircraftOf[f], 0>>}]
  <1>3. PICK h \in {NoFile, Whole(one), Damaged(CreateHistory), Damaged(one)},
             s \in {NoFile, Whole(older), Damaged(CreateSharing)} :
            disk = [file \in {"history", "sharing"} |-> IF file = "history" THEN h ELSE s]
      BY DEF Init, one, f
  <1>4. /\ calls = <<>> /\ page = NewPage(1) /\ ghost.forgotten = {}
        /\ ghost.kept = IF disk["history"].kind = "whole" THEN FlightsIn(disk["history"].data) ELSE {}
      BY DEF Init
  <1>5. disk["history"] = h
      BY <1>3
  <1>6. Saved(disk) \in {one, CreateHistory}
      BY <1>3, <1>5 DEF Saved, Salvaged, NoFile, Whole, Damaged
  <1>7. ghost.kept \subseteq FlightsIn(Saved(disk))
      BY <1>4, <1>5 DEF Saved, Salvaged
  <1>8. /\ FlightsPage(page) /\ CandidateInv(page) /\ ~page.present /\ page.hist = CreateHistory
        /\ \A kept : KeptPage(page, kept)
      BY <1>4, FreshFlights
  <1>9. /\ WritesInv(calls, disk) /\ GoneInv(page, calls, disk, ghost.forgotten)
        /\ KeptFile(calls, disk, ghost.kept)
      BY <1>2, <1>4, <1>6, <1>7, <1>8, EmptyRemembers DEF WritesInv, GoneInv, KeptFile
  <1> QED
      BY <1>4, <1>8, <1>9 DEF FlightsInv, MineInv, HeldInv

LEMMA FlightsInvHolds == Spec => []FlightsInv
  <1>1. Init => StorageInv /\ FlightsInv
      BY StorageInvInit, FlightsInvInit
  <1>2. StorageInv /\ FlightsInv /\ [Next]_vars => (StorageInv /\ FlightsInv)'
      BY StorageInvStep, FlightsInvStep
  <1> QED
      BY <1>1, <1>2, PTL DEF Spec

\* As many flights as records: none is stored twice.
LEMMA RememberedOnce ==
  ASSUME NEW h, Remembers(h)
  PROVE  Cardinality(FlightsIn(h)) = Len(h.records)
  <1> DEFINE n == Len(h.records)
             S == FlightsIn(h)
             g == [i \in 1..n |-> FlightAt(h.records[i])]
  <1>1. /\ n \in Nat /\ DOMAIN h.records = 1..n /\ S = {FlightAt(h.records[i]) : i \in 1..n}
        /\ OnceEach(h.records)
      BY Remembered1 DEF Remembers
  <1> HIDE DEF n, S
  <1>2. g \in [1..n -> S] /\ \A i, j \in 1..n : g[i] = g[j] => i = j
      BY <1>1 DEF OnceEach
  <1>3. \A x \in S : \E i \in 1..n : g[i] = x
      BY <1>1
  <1> HIDE DEF g
  <1>4. g \in Bijection(1..n, S)
      BY <1>2, <1>3 DEF Bijection, Injection, Surjection, IsInjective
  <1>5. ExistsBijection(1..n, S)
      BY <1>4 DEF ExistsBijection
  <1> QED
      BY <1>1, <1>5, FS_CountingElements DEF S, n

\* However taps, replies, failures, lost pages and crashes interleave: a flight the pilot
\* was told is kept stays in the file until a forget is asked for, unless Android's
\* fallback lost the file, and no flight is in the history twice (persistHistory's
\* revision check, loadHistory's unsafe files, writeTo's rename).
THEOREM SavesStay == Spec => []SavesAreKept
  <1>1. StorageInv /\ FlightsInv => SavesAreKept
    <2> SUFFICES ASSUME StorageInv, FlightsInv PROVE SavesAreKept
        OBVIOUS
    <2>1. SavedFlightsLast
        BY DEF FlightsInv, KeptFile, Saved, SavedFlightsLast
    <2>2. NoDuplicateSave
        BY RememberedOnce DEF FlightsInv, FlightsPage, NoDuplicateSave
    <2> QED
        BY <2>1, <2>2 DEF SavesAreKept
  <1> QED
      BY <1>1, StorageInvIsInductive, FlightsInvHolds, PTL

-----------------------------------------------------------------------------
(* The identities, in memory, in the queue, on their way and on the disk.   *)

SavedSharing(d) == Salvaged(d["sharing"], CreateSharing)

Fresh(p, o) == o.kind = "share" /\ o.rev = p.srev
\* What reconcileSharingIds writes; a tap's change of the preference is not.
Settling(o) == o.after \notin {"answer", "off"}
Loading(p) == \E i \in 1..Len(p.queue) : p.queue[i].kind = "load"
AtSecond(p) == p.at = "second" /\ p.queue[1].kind = "forgetEverything"
Clean(h, ids) == \A x \in ids : x[1] \in ListAircraft(h)

\* Identities that were made, and not dropped since.
Below(minted, gone, ids) == \A x \in ids : x[2] \in Nat /\ x[2] < minted /\ x \notin gone

KnownInv(p, C, d, gone) ==
    /\ p.minted \in Nat
    /\ Below(p.minted, gone, p.share.ids) /\ Below(p.minted, gone, SavedSharing(d).ids)
    /\ \A i \in 1..Len(p.queue) :
           Fresh(p, p.queue[i]) => Below(p.minted, gone, p.queue[i].data.ids)
    /\ \A i \in 1..Len(C) : C[i].op = "writeSharing" => Below(p.minted, gone, C[i].data.ids)
    /\ Below(p.minted, {}, gone)

\* Nothing can be forgotten before the load is over.  A reconciliation never waits behind
\* a forgetting that will be carried out, nor a forgetting behind a change of the
\* preference, unless it overtook one.
OrderInv(p, overtook) ==
    /\ \A i \in 1..Len(p.queue) :
           p.queue[i].kind = "share" =>
               p.queue[i].after \in {None, "render", "dismiss", "answer", "off"}
    /\ Loading(p) => /\ p.stored = NoRecord /\ p.shown = {}
                     /\ \A i \in 1..Len(p.queue) : p.queue[i].kind \notin {"save", "forget"}
    /\ ~overtook => \A i, j \in 1..Len(p.queue) :
           (i < j /\ p.queue[i].kind = "share" /\ ~Settling(p.queue[i])) => p.queue[j].kind # "forget"
    /\ ~overtook => \A i, j \in 1..Len(p.queue) :
           (i < j /\ p.queue[i].kind = "forget" /\ p.queue[i].rev = p.hrev) =>
               ~Fresh(p, p.queue[j]) \/ ~Settling(p.queue[j])

\* Every identity is of an aircraft that is remembered, or one about to be written will be.
QueueClean(p) ==
    \A i \in 1..Len(p.queue) :
        (Fresh(p, p.queue[i]) /\ Settling(p.queue[i])) => Clean(p.hist, p.queue[i].data.ids)
ShareClean(p) ==
    (p.present /\ ~p.hBlocked /\ ~p.sBlocked /\ ~p.sWriteFailed) =>
        Clean(p.hist, p.share.ids) \/ \E i \in 1..Len(p.queue) : Fresh(p, p.queue[i])
CleanInv(p, overtook) ==
    (~Loading(p) /\ ~AtSecond(p) /\ ~overtook /\ ~p.sForgetFailed) => QueueClean(p) /\ ShareClean(p)

\* A change of the sharing file that was made, and that the page is about to hear of.
MadeShare(p, r) ==
    /\ r.here /\ r.ok
    /\ \/ p.queue[1].kind \in {"share", "erase"}
       \/ p.queue[1].kind = "forgetEverything" /\ p.at # "first"
HeldShare(p, r, d) ==
    (p.present /\ ~Loading(p) /\ ~p.sBlocked) =>
        p.share = ImportSharing(d["sharing"]) \/ MadeShare(p, r)

IdsInv ==
    /\ KnownInv(page, calls, disk, ghost.erased)
    /\ OrderInv(page, ghost.overtook) /\ CleanInv(page, ghost.overtook)
    /\ "sharing" \notin ghost.fellBack => HeldShare(page, reply, disk)

-----------------------------------------------------------------------------
(* What the page's functions leave of the identities.                       *)

SameSharing(p, q) ==
    /\ IsPage(q) /\ q.share = p.share /\ q.srev = p.srev /\ q.sBlocked = p.sBlocked
    /\ q.sWriteFailed = p.sWriteFailed /\ q.sForgetFailed = p.sForgetFailed
    /\ q.hist = p.hist /\ q.hrev = p.hrev /\ q.hBlocked = p.hBlocked /\ q.present = p.present
    /\ q.at = p.at

ReconcileOp(p, o) ==
    /\ o.kind = "share" /\ o.rev = p.srev /\ o.after \in {None, "render", "dismiss"}
    /\ o.data.ids = WantedIds(p)

Adds(p, q) == q.minted = p.minted + 1 /\ \E o : ReconcileOp(p, o) /\ q.queue = Append(p.queue, o)
Rests(p, q) == q.queue = p.queue /\ q.minted = p.minted
Tends(p, q) == SameSharing(p, q) /\ (Rests(p, q) \/ Adds(p, q))

\* The identities were looked at, unless a store is unread or an erase has failed.
Settled(p, q) ==
    (~p.hBlocked /\ ~p.sBlocked /\ ~p.sForgetFailed) => Clean(p.hist, p.share.ids) \/ Adds(p, q)

LEMMA WantedIdsAre ==
  ASSUME NEW p
  PROVE  /\ Clean(p.hist, WantedIds(p))
         /\ \A x \in WantedIds(p) : x \in p.share.ids \/ x[2] = p.minted
  BY DEF WantedIds, Clean

LEMMA TendsFurther ==
  ASSUME NEW p, NEW q, NEW r, SameSharing(p, q), Rests(p, q), Tends(q, r)
  PROVE  Tends(p, r) /\ (Settled(q, r) => Settled(p, r)) /\ (Rests(q, r) => Rests(p, r))
  <1>1. WantedIds(q) = WantedIds(p)
      BY DEF SameSharing, Rests, WantedIds
  <1>2. Adds(q, r) => Adds(p, r)
      BY <1>1 DEF SameSharing, Rests, Adds, ReconcileOp
  <1> QED
      BY <1>2 DEF Tends, SameSharing, Rests, Settled

LEMMA ThenTends ==
  ASSUME NEW p, IsPage(p), NEW after
  PROVE  SameSharing(p, Then(p, after)) /\ Rests(p, Then(p, after))
  <1>1. CASE after = "dismiss"
      BY <1>1 DEF IsPage, Fields, Then, SameSharing, Rests
  <1>2. CASE after = "render"
      BY <1>2 DEF IsPage, Fields, Then, SameSharing, Rests
  <1>3. CASE after \notin {"dismiss", "render"}
      BY <1>3 DEF IsPage, Then, SameSharing, Rests
  <1> QED
      BY <1>1, <1>2, <1>3

LEMMA RecompareTends ==
  ASSUME NEW p, IsPage(p)
  PROVE  SameSharing(p, Recompare(p)) /\ Rests(p, Recompare(p))
  BY DEF IsPage, Fields, Recompare, SameSharing, Rests

LEMMA ReconcileTends ==
  ASSUME NEW p, IsPage(p), IsSharing(p.share), NEW after \in {None, "render", "dismiss"}
  PROVE  Tends(p, Reconcile(p, after)) /\ Settled(p, Reconcile(p, after))
  <1> DEFINE s == [p.share EXCEPT !.ids = WantedIds(p)]
             o == Op("share", s, p.srev, after, {})
             e == Enqueue(p, o)
             q == [e EXCEPT !.minted = @ + 1]
             r == Reconcile(p, after)
  <1>1. CASE p.hBlocked \/ p.sBlocked \/ p.sForgetFailed \/ WantedIds(p) = p.share.ids
    <2>1. r = p
        BY <1>1 DEF Reconcile
    <2> QED
        BY <1>1, <2>1, WantedIdsAre DEF Tends, SameSharing, Rests, Settled
  <1>2. CASE ~(p.hBlocked \/ p.sBlocked \/ p.sForgetFailed \/ WantedIds(p) = p.share.ids)
    <2>1. r = q
        BY <1>2 DEF Reconcile, PersistSharing
    <2>2. s.ids = WantedIds(p)
        BY DEF IsSharing
    <2> HIDE DEF s
    <2>3. ReconcileOp(p, o)
        BY <2>2 DEF Op, ReconcileOp
    <2> HIDE DEF o
    <2>4. SameSharing(p, e) /\ e.queue = Append(p.queue, o) /\ e.minted = p.minted
        BY DEF Enqueue, IsPage, Fields, SameSharing
    <2> HIDE DEF e
    <2>5. SameSharing(p, q) /\ q.queue = e.queue /\ q.minted = e.minted + 1
        BY <2>4 DEF IsPage, Fields, SameSharing
    <2> HIDE DEF q
    <2>6. Adds(p, q)
        BY <2>3, <2>4, <2>5 DEF Adds
    <2> QED
        BY <2>1, <2>5, <2>6 DEF Tends, Settled
  <1> QED
      BY <1>1, <1>2

LEMMA ReconcileThenTends ==
  ASSUME NEW p, IsPage(p), IsSharing(p.share), p.minted \in Nat,
         NEW after \in {None, "render", "dismiss"}
  PROVE  Tends(p, ReconcileThen(p, after)) /\ Settled(p, ReconcileThen(p, after))
  <1> DEFINE r == Reconcile(p, after)
  <1>1. Tends(p, r) /\ Settled(p, r)
      BY ReconcileTends
  <1>2. CASE r # p
      BY <1>1, <1>2 DEF ReconcileThen
  <1>3. CASE r = p
    <2>1. ReconcileThen(p, after) = Then(p, after)
        BY <1>3 DEF ReconcileThen
    <2>2. SameSharing(p, Then(p, after)) /\ Rests(p, Then(p, after))
        BY ThenTends
    <2>3. Settled(p, p)
        BY <1>1, <1>3
    <2>4. ~Adds(p, p)
        BY DEF Adds
    <2> QED
        BY <2>1, <2>2, <2>3, <2>4 DEF Tends, Settled
  <1> QED
      BY <1>2, <1>3

LEMMA RememberedTends ==
  ASSUME NEW p, IsPage(p), IsSharing(p.share), p.minted \in Nat, NEW op
  PROVE  Tends(p, Remembered(p, op))
  <1> DEFINE mine == FindRecords(op.data, AircraftOf[p.cand])
             q == [p EXCEPT !.stored = IF mine = <<>> THEN NoRecord ELSE Last(mine),
                            !.shown = RecordIds(p.hist)]
  <1>1. SameSharing(p, q) /\ Rests(p, q)
      BY DEF IsPage, Fields, SameSharing, Rests
  <1>2. Remembered(p, op) = IF p.cand = None THEN p ELSE ReconcileThen(q, None)
      BY DEF Remembered
  <1> HIDE DEF q
  <1>3. Tends(q, ReconcileThen(q, None))
      BY <1>1, ReconcileThenTends DEF SameSharing, Rests
  <1>4. Tends(p, ReconcileThen(q, None))
      BY <1>1, <1>3, TendsFurther
  <1>5. Tends(p, p)
      BY DEF Tends, SameSharing, Rests
  <1> QED
      BY <1>2, <1>4, <1>5

\* What a handler does once its write is over: nothing to the identities if it failed.
LEMMA ContinueTends ==
  ASSUME NEW p, IsPage(p), IsSharing(p.share), p.minted \in Nat, NEW op, NEW written
  PROVE  LET q == Continue(p, op, written)
         IN /\ Tends(p, q)
            /\ (written /\ op.after \in {"forgotten", "answer", "off"}) => Settled(p, q)
            /\ ~(written /\ op.after \in {"remember", "forgotten", "answer", "off"}) => Rests(p, q)
  <1> DEFINE q == Continue(p, op, written)
  <1>1. CASE op.after = "remember" /\ written
      BY <1>1, RememberedTends DEF Continue
  <1>2. CASE op.after = "forgotten" /\ written
    <2> DEFINE m == Recompare(p)
    <2>1. SameSharing(p, m) /\ Rests(p, m)
        BY RecompareTends
    <2>2. q = ReconcileThen(m, "render")
        BY <1>2 DEF Continue
    <2> HIDE DEF m, q
    <2>3. Tends(m, q) /\ Settled(m, q)
        BY <2>1, <2>2, ReconcileThenTends DEF SameSharing, Rests
    <2> QED
        BY <1>2, <2>1, <2>3, TendsFurther DEF q
  <1>3. CASE op.after \in {"answer", "off"} /\ written
    <2>1. q = ReconcileThen(p, "dismiss") \/ q = ReconcileThen(p, None)
        BY <1>3 DEF Continue
    <2> HIDE DEF q
    <2>2. Tends(p, q) /\ Settled(p, q)
        BY <2>1, ReconcileThenTends
    <2> QED
        BY <1>3, <2>2 DEF q
  <1>4. CASE ~(written /\ op.after \in {"remember", "forgotten", "answer", "off"})
    <2>1. q = p \/ \E after : q = Then(p, after)
        BY <1>4 DEF Continue
    <2> HIDE DEF q
    <2>2. SameSharing(p, p) /\ Rests(p, p)
        BY DEF SameSharing, Rests
    <2>3. SameSharing(p, q) /\ Rests(p, q)
        BY <2>1, <2>2, ThenTends
    <2> QED
        BY <1>4, <2>3 DEF Tends, q
  <1> QED
      BY <1>1, <1>2, <1>3, <1>4

-----------------------------------------------------------------------------
(* What keeps the invariant: the page.                                      *)

LEMMA MoreKnown ==
  ASSUME NEW m \in Nat, NEW n \in Nat, m <= n, NEW gone, NEW ids, Below(m, gone, ids)
  PROVE  Below(n, gone, ids)
  BY DEF Below

\* What a reconciliation writes was made, and not dropped.
LEMMA WantedKnown ==
  ASSUME NEW p, p.minted \in Nat, NEW gone, Below(p.minted, gone, p.share.ids),
         Below(p.minted, {}, gone)
  PROVE  Below(p.minted + 1, gone, WantedIds(p))
  BY WantedIdsAre DEF Below

LEMMA TendedQueue ==
  ASSUME NEW p, IsSeq(p.queue), NEW q, Tends(p, q)
  PROVE  /\ IsSeq(q.queue) /\ Len(p.queue) \in Nat /\ Len(q.queue) \in Nat
         /\ \A i \in 1..Len(p.queue) : i \in 1..Len(q.queue) /\ q.queue[i] = p.queue[i]
         /\ Rests(p, q) => Len(q.queue) = Len(p.queue)
         /\ Adds(p, q) => /\ Len(q.queue) = Len(p.queue) + 1
                          /\ ReconcileOp(p, q.queue[Len(q.queue)])
                          /\ Len(q.queue) \in 1..Len(q.queue)
  <1>1. CASE Rests(p, q)
    <2>1. ~Adds(p, q) \/ Len(q.queue) = Len(p.queue) + 1
      <3>1. ASSUME NEW o, q.queue = Append(p.queue, o) PROVE Len(q.queue) = Len(p.queue) + 1
          BY <3>1, Appended
      <3> QED
          BY <3>1 DEF Adds
    <2>2. Len(p.queue) \in Nat
        BY DEF IsSeq
    <2> QED
        BY <1>1, <2>1, <2>2 DEF Rests
  <1>2. CASE Adds(p, q)
    <2>1. PICK o : ReconcileOp(p, o) /\ q.queue = Append(p.queue, o)
        BY <1>2 DEF Adds
    <2>2. /\ IsSeq(q.queue) /\ Len(q.queue) = Len(p.queue) + 1 /\ Len(p.queue) \in Nat
          /\ \A i \in 1..Len(p.queue) : q.queue[i] = p.queue[i]
          /\ q.queue[Len(p.queue) + 1] = o
        BY <2>1, Appended
    <2>3. ~Rests(p, q)
        BY <2>2 DEF Rests
    <2> QED
        BY <2>1, <2>2, <2>3
  <1> QED
      BY <1>1, <1>2 DEF Tends

LEMMA TendedKnown ==
  ASSUME NEW p, IsSeq(p.queue), NEW q, Tends(p, q), NEW C, NEW d, NEW gone, KnownInv(p, C, d, gone)
  PROVE  KnownInv(q, C, d, gone)
  <1>1. /\ q.minted \in Nat /\ p.minted \in Nat /\ p.minted <= q.minted
        /\ q.share = p.share /\ q.srev = p.srev
      BY DEF KnownInv, Tends, SameSharing, Rests, Adds
  <1>2. \A g, ids : Below(p.minted, g, ids) => Below(q.minted, g, ids)
      BY <1>1, MoreKnown
  <1>3. ASSUME NEW i \in 1..Len(q.queue), Fresh(q, q.queue[i])
        PROVE  Below(q.minted, gone, q.queue[i].data.ids)
    <2>1. CASE i \in 1..Len(p.queue)
        BY <1>1, <1>2, <1>3, <2>1, TendedQueue DEF KnownInv, Fresh
    <2>2. CASE i \notin 1..Len(p.queue)
      <3>1. Adds(p, q) /\ i = Len(q.queue)
          BY <2>2, TendedQueue DEF Tends
      <3>2. ReconcileOp(p, q.queue[i]) /\ q.minted = p.minted + 1
          BY <3>1, TendedQueue DEF Adds
      <3> QED
          BY <3>2, WantedKnown DEF KnownInv, ReconcileOp
    <2> QED
        BY <2>1, <2>2
  <1> QED
      BY <1>1, <1>2, <1>3 DEF KnownInv

LEMMA TendedOrder ==
  ASSUME NEW p, IsSeq(p.queue), NEW q, Tends(p, q), ~Loading(p), NEW ov, OrderInv(p, ov),
         Rests(p, q) \/ ov \/ \A i \in 1..Len(p.queue) : ~(p.queue[i].kind = "forget" /\ p.queue[i].rev = p.hrev)
  PROVE  OrderInv(q, ov) /\ ~Loading(q)
  <1>1. q.srev = p.srev /\ q.hrev = p.hrev
      BY DEF Tends, SameSharing
  <1>2. CASE Rests(p, q)
    <2>1. Loading(q) <=> Loading(p)
        BY <1>2 DEF Loading, Rests
    <2> QED
        BY <1>1, <1>2, <2>1 DEF OrderInv, Rests, Fresh
  <1>3. CASE Adds(p, q)
    <2> DEFINE n == Len(p.queue)
               o == q.queue[n + 1]
    <2>1. /\ n \in Nat /\ Len(q.queue) = n + 1 /\ ReconcileOp(p, o)
          /\ \A i \in 1..n : i \in 1..Len(q.queue) /\ q.queue[i] = p.queue[i]
        BY <1>3, TendedQueue
    <2>2. \A i \in 1..Len(q.queue) : i \in 1..n \/ i = n + 1
        BY <2>1
    <2>3. /\ o.kind = "share" /\ o.after \in {None, "render", "dismiss"} /\ Settling(o)
        BY <2>1 DEF ReconcileOp, Settling, None
    <2> HIDE DEF o
    <2>4. ~Loading(q)
        BY <2>1, <2>2, <2>3 DEF Loading, o
    <2>5. \A i \in 1..Len(q.queue) : q.queue[i].kind = "share" =>
              q.queue[i].after \in {None, "render", "dismiss", "answer", "off"}
        BY <2>1, <2>2, <2>3 DEF OrderInv, o
    <2>6. ASSUME ~ov, NEW i \in 1..Len(q.queue), NEW j \in 1..Len(q.queue), i < j
          PROVE  /\ (q.queue[i].kind = "share" /\ ~Settling(q.queue[i])) => q.queue[j].kind # "forget"
                 /\ (q.queue[i].kind = "forget" /\ q.queue[i].rev = q.hrev) =>
                        ~Fresh(q, q.queue[j]) \/ ~Settling(q.queue[j])
      <3>1. i \in 1..n /\ q.queue[i] = p.queue[i]
          BY <2>1, <2>2, <2>6
      <3>2. CASE j = n + 1
          BY <1>1, <1>3, <2>1, <2>3, <2>6, <3>1, <3>2 DEF Rests, o
      <3>3. CASE j \in 1..n
          BY <1>1, <2>1, <2>6, <3>1, <3>3 DEF OrderInv, Fresh
      <3> QED
          BY <2>2, <3>2, <3>3
    <2> QED
        BY <2>4, <2>5, <2>6 DEF OrderInv
  <1> QED
      BY <1>2, <1>3 DEF Tends

LEMMA TendedClean ==
  ASSUME NEW p, IsSeq(p.queue), NEW q, Tends(p, q), p.at = "idle", NEW ov,
         (~ov /\ ~p.sForgetFailed) => QueueClean(p) /\ (ShareClean(p) \/ Settled(p, q))
  PROVE  CleanInv(q, ov)
  <1> SUFFICES ASSUME ~ov, ~q.sForgetFailed PROVE QueueClean(q) /\ ShareClean(q)
      BY DEF CleanInv
  <1>1. /\ QueueClean(p) /\ (ShareClean(p) \/ Settled(p, q)) /\ q.srev = p.srev /\ q.hist = p.hist
        /\ q.share = p.share /\ q.present = p.present /\ q.hBlocked = p.hBlocked
        /\ q.sBlocked = p.sBlocked /\ q.sWriteFailed = p.sWriteFailed /\ ~p.sForgetFailed
      BY DEF Tends, SameSharing
  <1>2. QueueClean(q)
    <2> SUFFICES ASSUME NEW i \in 1..Len(q.queue), Fresh(q, q.queue[i]), Settling(q.queue[i])
                 PROVE  Clean(q.hist, q.queue[i].data.ids)
        BY DEF QueueClean
    <2>1. CASE i \in 1..Len(p.queue)
        BY <1>1, <2>1, TendedQueue DEF QueueClean, Fresh
    <2>2. CASE i \notin 1..Len(p.queue)
      <3>1. Adds(p, q) /\ i = Len(q.queue)
          BY <2>2, TendedQueue DEF Tends
      <3>2. ReconcileOp(p, q.queue[i])
          BY <3>1, TendedQueue
      <3> QED
          BY <1>1, <3>2, WantedIdsAre DEF ReconcileOp
    <2> QED
        BY <2>1, <2>2
  <1>3. Adds(p, q) => \E i \in 1..Len(q.queue) : Fresh(q, q.queue[i])
      BY <1>1, TendedQueue DEF ReconcileOp, Fresh
  <1>4. (\E i \in 1..Len(p.queue) : Fresh(p, p.queue[i])) => \E i \in 1..Len(q.queue) : Fresh(q, q.queue[i])
      BY <1>1, TendedQueue DEF Fresh
  <1>5. ShareClean(q)
      BY <1>1, <1>3, <1>4 DEF ShareClean, Settled
  <1> QED
      BY <1>2, <1>5

\* The head of the queue is over.
LEMMA DroppedOrder ==
  ASSUME NEW p, IsSeq(p.queue), p.queue # <<>>, NEW q, q.queue = Tail(p.queue), ~Loading(q),
         NEW ov, OrderInv(p, ov),
         \A i \in 1..Len(p.queue) :
             /\ (p.queue[i].kind = "forget" /\ p.queue[i].rev = q.hrev) => p.queue[i].rev = p.hrev
             /\ Fresh(q, p.queue[i]) => Fresh(p, p.queue[i])
  PROVE  OrderInv(q, ov)
  <1>1. /\ Len(q.queue) = Len(p.queue) - 1 /\ Len(p.queue) \in Nat
        /\ \A i \in 1..Len(q.queue) : q.queue[i] = p.queue[i + 1]
      BY Tailed
  <1>2. \A i \in 1..Len(q.queue) : i + 1 \in 1..Len(p.queue)
      BY <1>1
  <1>3. \A i \in 1..Len(q.queue) : q.queue[i].kind = "share" =>
            q.queue[i].after \in {None, "render", "dismiss", "answer", "off"}
      BY <1>1, <1>2 DEF OrderInv
  <1>4. ASSUME ~ov, NEW i \in 1..Len(q.queue), NEW j \in 1..Len(q.queue), i < j
        PROVE  /\ (q.queue[i].kind = "share" /\ ~Settling(q.queue[i])) => q.queue[j].kind # "forget"
               /\ (q.queue[i].kind = "forget" /\ q.queue[i].rev = q.hrev) =>
                      ~Fresh(q, q.queue[j]) \/ ~Settling(q.queue[j])
    <2> DEFINE k == i + 1
               l == j + 1
    <2>1. k \in 1..Len(p.queue) /\ l \in 1..Len(p.queue) /\ k < l
          /\ q.queue[i] = p.queue[k] /\ q.queue[j] = p.queue[l]
        BY <1>1, <1>2, <1>4
    <2> HIDE DEF k, l
    <2> QED
        BY <1>4, <2>1 DEF OrderInv
  <1> QED
      BY <1>3, <1>4 DEF OrderInv

LEMMA DroppedClean ==
  ASSUME NEW p, IsSeq(p.queue), p.queue # <<>>, NEW q, q.queue = Tail(p.queue), q.srev = p.srev,
         q.hist = p.hist
  PROVE  /\ QueueClean(p) => QueueClean(q)
         /\ (/\ ShareClean(p) /\ ~Fresh(p, p.queue[1]) /\ q.share = p.share
             /\ q.present = p.present /\ q.hBlocked = p.hBlocked
             /\ q.sBlocked = p.sBlocked /\ q.sWriteFailed = p.sWriteFailed) => ShareClean(q)
  <1>1. /\ Len(q.queue) = Len(p.queue) - 1 /\ Len(p.queue) \in Nat
        /\ \A i \in 1..Len(q.queue) : q.queue[i] = p.queue[i + 1]
      BY Tailed
  <1>2. \A i \in 1..Len(q.queue) : i + 1 \in 1..Len(p.queue)
      BY <1>1
  <1>3. QueueClean(p) => QueueClean(q)
      BY <1>1, <1>2 DEF QueueClean, Fresh
  <1>4. ASSUME NEW i \in 1..Len(p.queue), Fresh(p, p.queue[i]), ~Fresh(p, p.queue[1])
        PROVE  \E j \in 1..Len(q.queue) : Fresh(q, q.queue[j])
    <2> DEFINE j == i - 1
    <2>1. j \in 1..Len(q.queue) /\ i = j + 1
        BY <1>1, <1>4
    <2> HIDE DEF j
    <2> QED
        BY <1>1, <1>4, <2>1 DEF Fresh
  <1> QED
      BY <1>3, <1>4 DEF ShareClean

LEMMA DroppedKnown ==
  ASSUME NEW p, IsSeq(p.queue), p.queue # <<>>, NEW q, q.queue = Tail(p.queue), q.minted = p.minted,
         NEW C, NEW d, NEW gone, KnownInv(p, C, d, gone), Below(p.minted, gone, q.share.ids),
         \A i \in 1..Len(p.queue) : Fresh(q, p.queue[i]) => Fresh(p, p.queue[i])
  PROVE  KnownInv(q, C, d, gone)
  <1>1. /\ Len(q.queue) = Len(p.queue) - 1 /\ Len(p.queue) \in Nat
        /\ \A i \in 1..Len(q.queue) : q.queue[i] = p.queue[i + 1]
      BY Tailed
  <1>2. \A i \in 1..Len(q.queue) : i + 1 \in 1..Len(p.queue)
      BY <1>1
  <1>3. \A i \in 1..Len(q.queue) : Fresh(q, q.queue[i]) => Below(q.minted, gone, q.queue[i].data.ids)
      BY <1>1, <1>2 DEF KnownInv
  <1> QED
      BY <1>3 DEF KnownInv

\* What is known of the queue of now, and of the load.
LEMMA QueueIs ==
  ASSUME StorageInv, FlightsInv, IdsInv
  PROVE  /\ IsPage(page) /\ IsSharing(page.share) /\ IsSeq(page.queue) /\ IsSeq(calls)
         /\ page.srev \in Nat /\ page.hrev \in Nat /\ page.minted \in Nat
         /\ page.at # "idle" => page.queue # <<>>
         /\ \A i \in 1..Len(page.queue) :
                LET o == page.queue[i]
                IN /\ o.kind = "share" => o.rev <= page.srev /\ o.rev # page.srev + 1
                   /\ o.kind = "forget" => o.rev <= page.hrev /\ o.rev # page.hrev + 1
                   /\ o.kind = "load" => i = 1 /\ page.cand = None
                   /\ o.rev \in Nat
         /\ page.queue # <<>> => Head(page.queue) = page.queue[1] /\ 1 \in 1..Len(page.queue)
         /\ DOMAIN page.queue = 1..Len(page.queue)
  <1>1. /\ IsPage(page) /\ IsSharing(page.share) /\ IsSeq(page.queue) /\ IsSeq(calls)
        /\ page.srev \in Nat /\ page.hrev \in Nat /\ page.minted \in Nat
        /\ page.at # "idle" => page.queue # <<>>
      BY DEF StorageInv, PageInv, CallsInv, IsPage, IdsInv, KnownInv
  <1>2. ASSUME NEW i \in 1..Len(page.queue)
        PROVE  LET o == page.queue[i]
               IN /\ o.kind = "share" => o.rev <= page.srev /\ o.rev # page.srev + 1
                  /\ o.kind = "forget" => o.rev <= page.hrev /\ o.rev # page.hrev + 1
                  /\ o.kind = "load" => i = 1 /\ page.cand = None
                  /\ o.rev \in Nat
    <2> DEFINE o == page.queue[i]
    <2>1. o.rev \in Nat /\ (o.kind = "share" => o.rev <= page.srev) /\ (o.kind = "load" => i = 1)
        BY DEF StorageInv, PageInv, IsOp
    <2>2. (o.kind = "forget" => o.rev <= page.hrev) /\ (o.kind = "load" => page.cand = None)
        BY DEF FlightsInv, FlightsPage, FlightsOp
    <2> HIDE DEF o
    <2>3. /\ o.kind = "share" => o.rev # page.srev + 1
          /\ o.kind = "forget" => o.rev # page.hrev + 1
        BY <1>1, <2>1, <2>2
    <2> QED
        BY <2>1, <2>2, <2>3 DEF o
  <1>3. page.queue # <<>> => Head(page.queue) = page.queue[1] /\ 1 \in 1..Len(page.queue)
      BY <1>1, Tailed
  <1>4. DOMAIN page.queue = 1..Len(page.queue)
    <2> DEFINE n == Len(page.queue)
    <2>1. page.queue = [i \in 1..n |-> page.queue[i]]
        BY <1>1 DEF IsSeq
    <2> HIDE DEF n
    <2>2. DOMAIN page.queue = 1..n
        BY <2>1
    <2> QED
        BY <2>2 DEF n
  <1> QED
      BY <1>1, <1>2, <1>3, <1>4

\* The load is only ever the first.
LEMMA LoadIsFirst ==
  ASSUME StorageInv, FlightsInv, IdsInv, page.queue # <<>>
  PROVE  /\ page.queue[1].kind # "load" => ~Loading(page)
         /\ \A q : q.queue = Tail(page.queue) => ~Loading(q)
  <1>1. /\ Len(Tail(page.queue)) = Len(page.queue) - 1 /\ Len(page.queue) \in Nat
        /\ \A i \in 1..Len(Tail(page.queue)) : Tail(page.queue)[i] = page.queue[i + 1]
      BY QueueIs, Tailed
  <1>2. \A i \in 1..Len(Tail(page.queue)) : i + 1 \in 1..Len(page.queue) /\ i + 1 # 1
      BY <1>1
  <1> QED
      BY <1>1, <1>2, QueueIs DEF Loading

-----------------------------------------------------------------------------
(* Action by action: the pilot.                                             *)

\* An operation a tap puts in the queue.
CanWait(p, o, overtook) ==
    /\ o.kind \in {"save", "forget", "forgetEverything", "erase", "share"}
    /\ o.kind = "share" => o.after \in {"answer", "off"} /\ o.data.ids = p.share.ids
    /\ o.kind \in {"save", "forget"} => ~Loading(p)
    /\ o.kind = "forget" =>
           overtook \/ \A i \in 1..Len(p.queue) : Settling(p.queue[i])

TapQueues(p, q, overtook) ==
    q.queue = p.queue \/ \E o : CanWait(p, o, overtook) /\ q.queue = Append(p.queue, o)

LEMMA TappedQueue ==
  ASSUME NEW p, IsSeq(p.queue), NEW q, NEW ov, TapQueues(p, q, ov)
  PROVE  /\ Len(p.queue) \in Nat
         /\ \A i \in 1..Len(p.queue) : i \in 1..Len(q.queue) /\ q.queue[i] = p.queue[i]
         /\ \A i \in 1..Len(q.queue) : \/ i \in 1..Len(p.queue)
                                       \/ i = Len(p.queue) + 1 /\ CanWait(p, q.queue[i], ov)
  <1> DEFINE n == Len(p.queue)
  <1>1. n \in Nat
      BY DEF IsSeq
  <1>2. CASE q.queue = p.queue
      BY <1>1, <1>2
  <1>3. ASSUME NEW o, CanWait(p, o, ov), q.queue = Append(p.queue, o)
        PROVE  /\ \A i \in 1..n : i \in 1..Len(q.queue) /\ q.queue[i] = p.queue[i]
               /\ \A i \in 1..Len(q.queue) : i \in 1..n \/ (i = n + 1 /\ CanWait(p, q.queue[i], ov))
    <2>1. /\ Len(q.queue) = n + 1 /\ \A i \in 1..n : q.queue[i] = p.queue[i]
          /\ q.queue[n + 1] = o
        BY <1>3, Appended
    <2> HIDE DEF n
    <2> QED
        BY <1>1, <1>3, <2>1
  <1> QED
      BY <1>1, <1>2, <1>3 DEF TapQueues

LEMMA TappedOrder ==
  ASSUME NEW p, IsSeq(p.queue), NEW q, NEW v, NEW ov, TapQueues(p, q, ov), OrderInv(p, v), v => ov,
         q.srev = p.srev, q.hrev = p.hrev, Loading(p) => q.stored = NoRecord /\ q.shown = {}
  PROVE  OrderInv(q, ov) /\ (Loading(q) <=> Loading(p))
  <1> DEFINE n == Len(p.queue)
  <1>1. /\ n \in Nat
        /\ \A i \in 1..n : i \in 1..Len(q.queue) /\ q.queue[i] = p.queue[i]
        /\ \A i \in 1..Len(q.queue) : i \in 1..n \/ (i = n + 1 /\ CanWait(p, q.queue[i], ov))
      BY TappedQueue
  <1> HIDE DEF n
  <1>2. Loading(q) <=> Loading(p)
      BY <1>1 DEF Loading, CanWait, n
  <1>3. \A i \in 1..Len(q.queue) : q.queue[i].kind = "share" =>
            q.queue[i].after \in {None, "render", "dismiss", "answer", "off"}
      BY <1>1 DEF OrderInv, CanWait, n
  <1>4. Loading(q) => \A i \in 1..Len(q.queue) : q.queue[i].kind \notin {"save", "forget"}
      BY <1>1, <1>2 DEF OrderInv, CanWait, n
  <1>5. ASSUME ~ov, NEW i \in 1..Len(q.queue), NEW j \in 1..Len(q.queue), i < j
        PROVE  /\ (q.queue[i].kind = "share" /\ ~Settling(q.queue[i])) => q.queue[j].kind # "forget"
               /\ (q.queue[i].kind = "forget" /\ q.queue[i].rev = q.hrev) =>
                      ~Fresh(q, q.queue[j]) \/ ~Settling(q.queue[j])
    <2>1. i \in 1..n /\ q.queue[i] = p.queue[i]
        BY <1>1, <1>5
    <2>2. CASE j \in 1..n
        BY <1>1, <1>5, <2>1, <2>2 DEF OrderInv, Fresh, n
    <2>3. CASE CanWait(p, q.queue[j], ov)
        BY <1>5, <2>1, <2>3 DEF CanWait, Fresh, Settling, n
    <2> QED
        BY <1>1, <2>2, <2>3
  <1> QED
      BY <1>2, <1>3, <1>4, <1>5 DEF OrderInv

LEMMA TappedIds ==
  ASSUME StorageInv, FlightsInv, IdsInv, SameSharing(page, page'), page'.minted = page.minted,
         TapQueues(page, page', ghost'.overtook),
         Loading(page) => page'.stored = NoRecord /\ page'.shown = {},
         UNCHANGED <<disk, calls, reply>>,
         ghost'.erased = ghost.erased, ghost'.fellBack = ghost.fellBack,
         ghost.overtook => ghost'.overtook
  PROVE  IdsInv'
  <1> DEFINE p == page
             q == page'
             n == Len(page.queue)
  <1>1. /\ q.srev = p.srev /\ q.hrev = p.hrev /\ q.share = p.share /\ q.hist = p.hist /\ q.at = p.at
        /\ q.present = p.present /\ q.hBlocked = p.hBlocked /\ q.sBlocked = p.sBlocked
        /\ q.sWriteFailed = p.sWriteFailed /\ q.sForgetFailed = p.sForgetFailed
        /\ q.minted = p.minted
      BY DEF SameSharing
  <1>2. /\ IsSeq(p.queue) /\ (p.at # "idle" => p.queue # <<>>)
        /\ (reply.here => p.at # "idle") /\ (p.queue # <<>> => 1 \in 1..n)
      BY QueueIs, ThePage
  <1>3. /\ n \in Nat
        /\ \A i \in 1..n : i \in 1..Len(q.queue) /\ q.queue[i] = p.queue[i]
        /\ \A i \in 1..Len(q.queue) : \/ i \in 1..n
                                      \/ i = n + 1 /\ CanWait(p, q.queue[i], ghost'.overtook)
      BY <1>2, TappedQueue
  <1>4. OrderInv(q, ghost'.overtook) /\ (Loading(q) <=> Loading(p))
      BY <1>1, <1>2, TappedOrder DEF IdsInv
  <1> HIDE DEF n
  <1>5. KnownInv(q, calls, disk, ghost.erased)
    <2>1. \A i \in 1..Len(q.queue) : Fresh(q, q.queue[i]) =>
              Below(q.minted, ghost.erased, q.queue[i].data.ids)
        BY <1>1, <1>3 DEF IdsInv, KnownInv, Fresh, CanWait, n
    <2> QED
        BY <1>1, <2>1 DEF IdsInv, KnownInv
  <1>6. p.at # "idle" => q.queue[1] = p.queue[1]
      BY <1>2, <1>3
  <1>7. AtSecond(q) <=> AtSecond(p)
      BY <1>1, <1>6 DEF AtSecond
  <1>8. QueueClean(p) => QueueClean(q)
      BY <1>1, <1>3 DEF QueueClean, Fresh, CanWait, Settling, n
  <1>9. ShareClean(p) => ShareClean(q)
    <2>1. (\E i \in 1..n : Fresh(p, p.queue[i])) => \E i \in 1..Len(q.queue) : Fresh(q, q.queue[i])
        BY <1>1, <1>3 DEF Fresh
    <2> QED
        BY <1>1, <2>1 DEF ShareClean, n
  <1>10. CleanInv(q, ghost'.overtook)
      BY <1>1, <1>4, <1>7, <1>8, <1>9 DEF IdsInv, CleanInv
  <1>11. "sharing" \notin ghost.fellBack => HeldShare(q, reply, disk)
      BY <1>1, <1>2, <1>4, <1>6 DEF IdsInv, HeldShare, MadeShare
  <1> QED
      BY <1>4, <1>5, <1>10, <1>11 DEF IdsInv

\* A tap that puts an operation in the queue.
LEMMA EnqueuedIds ==
  ASSUME StorageInv, FlightsInv, IdsInv, NEW o, page' = Enqueue(page, o),
         CanWait(page, o, ghost'.overtook), UNCHANGED <<disk, calls, reply>>,
         ghost'.erased = ghost.erased, ghost'.fellBack = ghost.fellBack,
         ghost.overtook => ghost'.overtook
  PROVE  IdsInv'
  <1>1. /\ SameSharing(page, page') /\ page'.minted = page.minted
        /\ page'.queue = Append(page.queue, o)
        /\ page'.stored = page.stored /\ page'.shown = page.shown
      BY QueueIs DEF Enqueue, SameSharing, IsPage, Fields
  <1>2. TapQueues(page, page', ghost'.overtook)
      BY <1>1 DEF TapQueues
  <1>3. Loading(page) => page'.stored = NoRecord /\ page'.shown = {}
      BY <1>1 DEF IdsInv, OrderInv
  <1> QED
      BY <1>1, <1>2, <1>3, TappedIds

LEMMA NotLoading ==
  ASSUME StorageInv, FlightsInv, IdsInv,
         page.cand # None \/ page.shown # {} \/ page.stored # NoRecord
  PROVE  ~Loading(page)
  BY QueueIs DEF IdsInv, OrderInv, Loading

LEMMA SaveKeepsIds == ASSUME StorageInv, FlightsInv, IdsInv, Save PROVE IdsInv'
  <1> DEFINE o == Op("save", AddFlightRecord(page.hist, Measured(page.cand)), page.hrev,
                     "remember", {page.cand})
  <1>1. /\ page' = Enqueue(page, o) /\ page.cand # None /\ UNCHANGED <<disk, calls, reply, ghost>>
      BY DEF Save, Tap, PersistHistory
  <1>2. o.kind = "save"
      BY DEF Op
  <1> HIDE DEF o
  <1>3. CanWait(page, o, ghost'.overtook)
      BY <1>1, <1>2, NotLoading DEF CanWait
  <1> QED
      BY <1>1, <1>3, EnqueuedIds

LEMMA ForgetKeepsIds ==
  ASSUME StorageInv, FlightsInv, IdsInv, NEW data, Forget(data),
         page.shown # {} \/ page.stored # NoRecord
  PROVE  IdsInv'
  <1> DEFINE gone == FlightsIn(page.hist) \ FlightsIn(data)
             o == Op("forget", data, page.hrev, "forgotten", gone)
  <1>1. /\ page' = Enqueue(page, o) /\ UNCHANGED <<disk, calls, reply>>
        /\ ghost'.erased = ghost.erased /\ ghost'.fellBack = ghost.fellBack
        /\ ghost'.overtook = (ghost.overtook \/ Reconciling)
      BY DEF Forget, Tap, PersistHistory, StorageInv
  <1>2. o.kind = "forget"
      BY DEF Op
  <1> HIDE DEF o
  <1>3. ~Reconciling => \A i \in 1..Len(page.queue) : Settling(page.queue[i])
      BY QueueIs DEF Reconciling, Settling
  <1>4. CanWait(page, o, ghost'.overtook)
      BY <1>1, <1>2, <1>3, NotLoading DEF CanWait
  <1> QED
      BY <1>1, <1>4, EnqueuedIds

LEMMA ForgetTapsKeepIds ==
  ASSUME StorageInv, FlightsInv, IdsInv, NEW c \in Aircraft, NEW n,
         ForgetFlight(<<c, n>>) \/ ForgetMachine(c)
  PROVE  IdsInv'
  BY ForgetKeepsIds DEF ForgetFlight, ForgetMachine

LEMMA ErasuresKeepIds ==
  ASSUME StorageInv, FlightsInv, IdsInv, ForgetEverythingNow \/ EraseSharingIdentity
  PROVE  IdsInv'
  <1>1. PICK kind \in {"forgetEverything", "erase"} :
            page' = Enqueue(page, Op(kind, NoData, 0, None, {}))
      BY DEF ForgetEverythingNow, EraseSharingIdentity
  <1> DEFINE o == Op(kind, NoData, 0, None, {})
  <1>2. /\ UNCHANGED <<disk, calls, reply>>
        /\ ghost'.erased = ghost.erased /\ ghost'.fellBack = ghost.fellBack
        /\ ghost'.overtook = ghost.overtook
      BY DEF ForgetEverythingNow, EraseSharingIdentity, Tap, StorageInv
  <1>3. o.kind = kind
      BY DEF Op
  <1> HIDE DEF o
  <1>4. CanWait(page, o, ghost'.overtook)
      BY <1>1, <1>3 DEF CanWait
  <1> QED
      BY <1>1, <1>2, <1>4, EnqueuedIds DEF o

LEMMA PreferenceKeepsIds ==
  ASSUME StorageInv, FlightsInv, IdsInv, ToggleOff \/ \E agreed \in BOOLEAN : AnswerConsent(agreed)
  PROVE  IdsInv'
  <1>1. PICK on \in BOOLEAN, terms \in {None, "now"}, after \in {"answer", "off"} :
            page' = PersistSharing(page, [page.share EXCEPT !.asked = TRUE, !.on = on, !.terms = terms],
                                   after)
      BY DEF ToggleOff, AnswerConsent
  <1> DEFINE s == [page.share EXCEPT !.asked = TRUE, !.on = on, !.terms = terms]
             o == Op("share", s, page.srev, after, {})
  <1>2. /\ UNCHANGED <<disk, calls, reply>>
        /\ ghost'.erased = ghost.erased /\ ghost'.fellBack = ghost.fellBack
        /\ ghost'.overtook = ghost.overtook
      BY DEF ToggleOff, AnswerConsent, Tap, StorageInv
  <1>3. page' = Enqueue(page, o)
      BY <1>1 DEF PersistSharing
  <1>4. s.ids = page.share.ids
      BY QueueIs DEF IsSharing
  <1> HIDE DEF s
  <1>5. o.kind = "share" /\ o.after = after /\ o.data = s
      BY DEF Op
  <1> HIDE DEF o
  <1>6. CanWait(page, o, ghost'.overtook)
      BY <1>1, <1>4, <1>5 DEF CanWait
  <1> QED
      BY <1>2, <1>3, <1>6, EnqueuedIds

LEMMA CandidateKeepsIds ==
  ASSUME StorageInv, FlightsInv, IdsInv,
         ToggleOn \/ RetireCandidate \/ \E f \in Flights : ConsiderFlight(f)
  PROVE  IdsInv'
  <1>1. /\ SameSharing(page, page') /\ Rests(page, page')
        /\ Loading(page) => page'.stored = NoRecord /\ page'.shown = {}
    <2>1. CASE ToggleOn
      <3>1. /\ SameSharing(page, page') /\ Rests(page, page')
            /\ page'.stored = page.stored /\ page'.shown = page.shown
          BY <2>1, QueueIs DEF ToggleOn, SameSharing, Rests, IsPage, Fields
      <3> QED
          BY <3>1 DEF IdsInv, OrderInv
    <2>2. CASE RetireCandidate
      <3>1. /\ SameSharing(page, page') /\ Rests(page, page')
            /\ page'.stored = NoRecord /\ page'.shown = page.shown
          BY <2>2, QueueIs DEF RetireCandidate, SameSharing, Rests, IsPage, Fields
      <3> QED
          BY <3>1 DEF IdsInv, OrderInv
    <2>3. ASSUME NEW f \in Flights, ConsiderFlight(f) 
          PROVE  /\ SameSharing(page, page') /\ Rests(page, page')
                 /\ Loading(page) => page'.stored = NoRecord /\ page'.shown = {}
      <3> DEFINE p == [page EXCEPT !.cand = f]
      <3>1. SameSharing(page, p) /\ Rests(page, p)
          BY QueueIs DEF SameSharing, Rests, IsPage, Fields
      <3>2. page' = Recompare(p) /\ ~Loading(page)
          BY <2>3, QueueIs DEF ConsiderFlight, Loading
      <3> HIDE DEF p
      <3>3. SameSharing(p, page') /\ Rests(p, page')
          BY <3>1, <3>2, RecompareTends DEF SameSharing
      <3> QED
          BY <3>1, <3>2, <3>3 DEF SameSharing, Rests
    <2> QED
        BY <2>1, <2>2, <2>3
  <1>2. TapQueues(page, page', ghost'.overtook) /\ page'.minted = page.minted
      BY <1>1 DEF TapQueues, Rests
  <1>3. /\ UNCHANGED <<disk, calls, reply, ghost>>
      BY DEF ToggleOn, RetireCandidate, ConsiderFlight, Tap
  <1> QED
      BY <1>1, <1>2, <1>3, TappedIds

LEMMA PilotKeepsIds == ASSUME StorageInv, FlightsInv, IdsInv, PilotStep PROVE IdsInv'
  BY SaveKeepsIds, ForgetTapsKeepIds, ErasuresKeepIds, PreferenceKeepsIds, CandidateKeepsIds
  DEF PilotStep

-----------------------------------------------------------------------------
(* Action by action: the head of the queue.                                 *)

LEMMA AddedWrite ==
  ASSUME NEW p, NEW C, IsSeq(C), NEW d, NEW gone, KnownInv(p, C, d, gone), NEW c,
         c.op = "writeSharing" => Below(p.minted, gone, c.data.ids)
  PROVE  KnownInv(p, Append(C, c), d, gone)
  <1>1. /\ Len(Append(C, c)) = Len(C) + 1 /\ Len(C) \in Nat
        /\ \A i \in 1..Len(C) : Append(C, c)[i] = C[i]
        /\ Append(C, c)[Len(C) + 1] = c
      BY Appended
  <1>2. \A i \in 1..Len(Append(C, c)) : \/ i \in 1..Len(C) /\ Append(C, c)[i] = C[i]
                                        \/ Append(C, c)[i] = c
      BY <1>1
  <1> QED
      BY <1>2 DEF KnownInv

\* The head of the queue makes its first call.
LEMMA AskedIds ==
  ASSUME StorageInv, FlightsInv, IdsInv, page.queue # <<>>, page.at = "idle", ~reply.here,
         page' = [page EXCEPT !.at = "first"], NEW c, calls' = Append(calls, c),
         c.op = "writeSharing" => Fresh(page, page.queue[1]) /\ c.data = page.queue[1].data,
         UNCHANGED <<disk, reply>>, ghost'.erased = ghost.erased,
         ghost'.overtook = ghost.overtook, ghost'.fellBack = ghost.fellBack
  PROVE  IdsInv'
  <1> DEFINE p == page
             q == page'
  <1>1. /\ q.srev = p.srev /\ q.hrev = p.hrev /\ q.share = p.share /\ q.hist = p.hist
        /\ q.present = p.present /\ q.hBlocked = p.hBlocked /\ q.sBlocked = p.sBlocked
        /\ q.sWriteFailed = p.sWriteFailed /\ q.sForgetFailed = p.sForgetFailed
        /\ q.minted = p.minted /\ q.queue = p.queue /\ q.at = "first"
        /\ q.stored = p.stored /\ q.shown = p.shown
      BY QueueIs DEF IsPage, Fields
  <1>2. /\ Loading(q) <=> Loading(p)
        /\ ~AtSecond(p) /\ ~AtSecond(q) /\ ~MadeShare(p, reply)
      BY <1>1 DEF Loading, AtSecond, MadeShare
  <1>3. OrderInv(q, ghost.overtook) /\ CleanInv(q, ghost.overtook)
      BY <1>1, <1>2 DEF IdsInv, OrderInv, CleanInv, QueueClean, ShareClean, Fresh
  <1>4. "sharing" \notin ghost.fellBack => HeldShare(q, reply, disk)
      BY <1>1, <1>2 DEF IdsInv, HeldShare
  <1>5. KnownInv(p, calls', disk, ghost.erased)
    <2>1. c.op = "writeSharing" => Below(p.minted, ghost.erased, c.data.ids)
        BY QueueIs DEF IdsInv, KnownInv
    <2> QED
        BY <2>1, QueueIs, AddedWrite DEF IdsInv
  <1>6. KnownInv(q, calls', disk, ghost.erased)
      BY <1>1, <1>5 DEF KnownInv, Fresh
  <1> QED
      BY <1>3, <1>4, <1>6 DEF IdsInv

LEMMA BeginKeepsIds ==
  ASSUME StorageInv, FlightsInv, IdsInv, BeginLoad \/ BeginForgetEverything \/ BeginErase
  PROVE  IdsInv'
  <1>1. PICK operation \in Reads \cup Forgets :
            Ready /\ Ask(operation, NoData, "first") /\ UNCHANGED ghost
      BY DEF BeginLoad, BeginForgetEverything, BeginErase, Reads, Forgets
  <1> DEFINE c == Called(operation, NoData)
  <1>2. /\ c.op # "writeSharing" /\ page' = [page EXCEPT !.at = "first"]
        /\ calls' = Append(calls, c) /\ UNCHANGED <<disk, reply>>
      BY <1>1 DEF Called, Ask, Reads, Forgets
  <1> HIDE DEF c
  <1> QED
      BY <1>1, <1>2, ReadyTalks, AskedIds

\* An operation that ends without a write.
Unwritten(p, q) ==
    /\ IsPage(q) /\ q.share = p.share /\ q.srev = p.srev /\ q.sBlocked = p.sBlocked
    /\ q.sForgetFailed = p.sForgetFailed /\ q.hist = p.hist /\ q.hrev = p.hrev
    /\ q.hBlocked = p.hBlocked /\ q.present = p.present /\ q.minted = p.minted
    /\ q.at = "idle" /\ q.queue = Tail(p.queue)

LEMMA UnwrittenIds ==
  ASSUME StorageInv, FlightsInv, IdsInv, page.queue # <<>>,
         page.queue[1].kind \in {"save", "forget", "share"}, ~MadeShare(page, reply), ~reply'.here,
         NEW q, Unwritten(page, q),
         q.sWriteFailed \/ (~Fresh(page, page.queue[1]) /\ q.sWriteFailed = page.sWriteFailed),
         NEW op, page' = Continue(q, op, FALSE),
         UNCHANGED <<disk, calls>>, ghost'.erased = ghost.erased,
         ghost'.overtook = ghost.overtook, ghost'.fellBack = ghost.fellBack
  PROVE  IdsInv'
  <1> DEFINE p == page
  <1>1. /\ IsPage(p) /\ IsSharing(p.share) /\ IsSeq(p.queue) /\ p.minted \in Nat
        /\ ~Loading(p) /\ ~AtSecond(p) /\ ~Loading(q)
      BY QueueIs, LoadIsFirst DEF AtSecond, Unwritten
  <1>2. /\ IsPage(q) /\ IsSharing(q.share) /\ q.minted \in Nat /\ IsSeq(q.queue)
        /\ \A i \in 1..Len(p.queue) :
               /\ Fresh(q, p.queue[i]) => Fresh(p, p.queue[i])
               /\ (p.queue[i].kind = "forget" /\ p.queue[i].rev = q.hrev) => p.queue[i].rev = p.hrev
      BY <1>1, Tailed DEF Unwritten, Fresh
  <1>3. Tends(q, page') /\ Rests(q, page')
      BY <1>2, ContinueTends
  <1>4. KnownInv(q, calls, disk, ghost.erased)
    <2>1. KnownInv(p, calls, disk, ghost.erased) /\ Below(p.minted, ghost.erased, q.share.ids)
        BY DEF IdsInv, KnownInv, Unwritten
    <2> QED
        BY <1>1, <1>2, <2>1, DroppedKnown DEF Unwritten
  <1>5. OrderInv(q, ghost.overtook)
      BY <1>1, <1>2, DroppedOrder DEF IdsInv, Unwritten
  <1>6. (~ghost.overtook /\ ~q.sForgetFailed) => QueueClean(q) /\ ShareClean(q)
    <2> SUFFICES ASSUME ~ghost.overtook, ~q.sForgetFailed PROVE QueueClean(q) /\ ShareClean(q)
        OBVIOUS
    <2>1. QueueClean(p) /\ ShareClean(p)
        BY <1>1 DEF IdsInv, CleanInv, Unwritten
    <2>2. QueueClean(q)
        BY <1>1, <2>1, DroppedClean DEF Unwritten
    <2>3. ShareClean(q)
      <3>1. CASE q.sWriteFailed
          BY <3>1 DEF ShareClean
      <3>2. CASE ~Fresh(p, p.queue[1]) /\ q.sWriteFailed = p.sWriteFailed
          BY <1>1, <2>1, <3>2, DroppedClean DEF Unwritten
      <3> QED
          BY <3>1, <3>2
    <2> QED
        BY <2>2, <2>3
  <1>7. KnownInv(page', calls, disk, ghost.erased)
      BY <1>2, <1>3, <1>4, TendedKnown
  <1>8. OrderInv(page', ghost.overtook) /\ ~Loading(page')
      BY <1>1, <1>2, <1>3, <1>5, TendedOrder
  <1>9. CleanInv(page', ghost.overtook)
      BY <1>2, <1>3, <1>6, TendedClean DEF Unwritten
  <1>10. "sharing" \notin ghost.fellBack => HeldShare(page', reply', disk)
      BY <1>1, <1>3 DEF IdsInv, HeldShare, Tends, SameSharing, Unwritten
  <1> QED
      BY <1>7, <1>8, <1>9, <1>10 DEF IdsInv

LEMMA DequeueUnwritten ==
  ASSUME NEW p, IsPage(p), NEW op
  PROVE  LET d == Dequeue(p)
             s == AdoptSharing(d, op, FALSE)
             h == AdoptHistory(d, op, FALSE)
         IN /\ Unwritten(p, d) /\ d.sWriteFailed = p.sWriteFailed
            /\ Unwritten(p, s) /\ s.sWriteFailed
            /\ Unwritten(p, h) /\ h.sWriteFailed = p.sWriteFailed
  <1> DEFINE d == Dequeue(p)
             s == AdoptSharing(d, op, FALSE)
             h == AdoptHistory(d, op, FALSE)
  <1>1. Unwritten(p, d) /\ d.sWriteFailed = p.sWriteFailed
      BY DEF IsPage, Fields, Dequeue, Unwritten
  <1> HIDE DEF d
  <1>2. Unwritten(p, s) /\ s.sWriteFailed
      BY <1>1 DEF IsPage, Fields, AdoptSharing, Unwritten
  <1>3. Unwritten(p, h) /\ h.sWriteFailed = p.sWriteFailed
      BY <1>1 DEF IsPage, Fields, AdoptHistory, Unwritten
  <1> QED
      BY <1>1, <1>2, <1>3 DEF d

LEMMA BeginPersistKeepsIds == ASSUME StorageInv, FlightsInv, IdsInv, BeginPersist PROVE IdsInv'
  <1> DEFINE op == Head(page.queue)
             share == op.kind = "share"
             writable == IF share THEN page.sWritable ELSE page.hWritable
             d == Dequeue(page)
             s == AdoptSharing(d, op, FALSE)
             h == AdoptHistory(d, op, FALSE)
  <1>1. /\ page.queue # <<>> /\ page.at = "idle" /\ ~reply.here
        /\ op = page.queue[1] /\ op.kind \in {"save", "forget", "share"}
      BY ReadyTalks DEF BeginPersist
  <1>2. CASE Stale(page, op) \/ ~writable
    <2>1. /\ UNCHANGED <<disk, calls, reply, ghost>>
          /\ \/ page' = Continue(d, op, FALSE) /\ Stale(page, op)
             \/ page' = Continue(s, op, FALSE) /\ share
             \/ page' = Continue(h, op, FALSE) /\ ~share
        BY <1>2 DEF BeginPersist
    <2>2. /\ Unwritten(page, d) /\ d.sWriteFailed = page.sWriteFailed
          /\ Unwritten(page, s) /\ s.sWriteFailed
          /\ Unwritten(page, h) /\ h.sWriteFailed = page.sWriteFailed
        BY QueueIs, DequeueUnwritten
    <2>3. ~MadeShare(page, reply) /\ ~reply'.here
        BY <1>1, <2>1 DEF MadeShare
    <2>4. /\ Stale(page, op) => ~Fresh(page, op)
          /\ ~share => ~Fresh(page, op)
        BY DEF Stale, Fresh
    <2> HIDE DEF op, d, s, h
    <2>5. CASE page' = Continue(d, op, FALSE) /\ Stale(page, op)
        BY <1>1, <2>1, <2>2, <2>3, <2>4, <2>5, UnwrittenIds
    <2>6. CASE page' = Continue(s, op, FALSE)
        BY <1>1, <2>1, <2>2, <2>3, <2>6, UnwrittenIds
    <2>7. CASE page' = Continue(h, op, FALSE) /\ ~share
        BY <1>1, <2>1, <2>2, <2>3, <2>4, <2>7, UnwrittenIds
    <2> QED
        BY <2>1, <2>5, <2>6, <2>7
  <1>3. CASE ~Stale(page, op) /\ writable
    <2> DEFINE operation == IF share THEN "writeSharing" ELSE "writeHistory"
               c == Called(operation, op.data)
    <2>1. /\ page' = [page EXCEPT !.at = "first"] /\ calls' = Append(calls, c)
          /\ UNCHANGED <<disk, reply>>
          /\ ghost'.erased = ghost.erased /\ ghost'.fellBack = ghost.fellBack
          /\ ghost'.overtook = ghost.overtook
        BY <1>3 DEF BeginPersist, Ask, Called, StorageInv
    <2>2. c.op = operation /\ c.data = op.data
        BY DEF Called
    <2>3. share => Fresh(page, op)
        BY <1>3 DEF Stale, Fresh
    <2> HIDE DEF c, op
    <2> QED
        BY <1>1, <2>1, <2>2, <2>3, AskedIds
  <1> QED
      BY <1>2, <1>3

-----------------------------------------------------------------------------
(* Action by action: the replies.                                           *)

LEMMA AnsweredIds ==
  ASSUME StorageInv, FlightsInv, IdsInv, reply.here
  PROVE  /\ calls = <<>> /\ Len(calls) = 0 /\ page.queue # <<>> /\ 1 \in 1..Len(page.queue)
         /\ Head(page.queue) = page.queue[1] /\ Answers(page, reply, disk) /\ page.at # "idle"
         /\ page.queue[1].kind # "load" => ~Loading(page)
         /\ page.queue[1].kind = "share" => Fresh(page, page.queue[1])
         /\ IsPage(page) /\ IsSharing(page.share) /\ IsSeq(page.queue) /\ IsSeq(calls)
         /\ page.minted \in Nat
  BY AnsweredTalks, LoadIsFirst, QueueIs DEF Fresh

LEMMA LoadHistoryKeepsIds == ASSUME StorageInv, FlightsInv, IdsInv, LoadHistory PROVE IdsInv'
  <1> DEFINE c == Called("readSharing", NoData)
             p == page
             q == page'
  <1>1. reply.here /\ Head(page.queue).kind = "load"
      BY DEF LoadHistory, Answered
  <1>2. /\ q.srev = p.srev /\ q.share = p.share /\ q.minted = p.minted /\ q.queue = p.queue
        /\ q.stored = p.stored /\ q.shown = p.shown
        /\ calls' = Append(calls, c) /\ UNCHANGED <<disk, ghost>>
      BY QueueIs DEF LoadHistory, AdoptHistoryFile, IsPage, Fields, Called
  <1>3. Loading(p) /\ Loading(q)
      BY <1>1, <1>2, AnsweredIds DEF Loading
  <1>4. c.op # "writeSharing"
      BY DEF Called
  <1> HIDE DEF c
  <1>5. KnownInv(p, calls', disk, ghost.erased)
      BY <1>2, <1>4, QueueIs, AddedWrite DEF IdsInv
  <1>6. KnownInv(q, calls', disk, ghost.erased)
      BY <1>2, <1>5 DEF KnownInv, Fresh
  <1>7. OrderInv(q, ghost.overtook)
      BY <1>2, <1>3 DEF IdsInv, OrderInv
  <1>8. CleanInv(q, ghost.overtook) /\ HeldShare(q, reply', disk)
      BY <1>3 DEF CleanInv, HeldShare
  <1> QED
      BY <1>2, <1>6, <1>7, <1>8 DEF IdsInv

\* A sharing record under a new revision: no change that was waiting lands on it.
LEMMA RenewedIds ==
  ASSUME StorageInv, FlightsInv, IdsInv, page.queue # <<>>, Len(calls) = 0,
         NEW q, q.srev = page.srev + 1, q.hrev = page.hrev, q.queue = Tail(page.queue),
         q.minted = page.minted, NEW gone, Below(page.minted, gone, q.share.ids),
         Below(page.minted, gone, SavedSharing(disk).ids), Below(page.minted, {}, gone)
  PROVE  /\ KnownInv(q, calls, disk, gone) /\ OrderInv(q, ghost.overtook) /\ QueueClean(q)
         /\ IsSeq(q.queue) /\ ~Loading(q)
         /\ \A i \in 1..Len(q.queue) : i + 1 \in 1..Len(page.queue) /\ q.queue[i] = page.queue[i + 1]
  <1> DEFINE p == page
  <1>1. /\ IsSeq(q.queue) /\ Len(q.queue) = Len(p.queue) - 1 /\ Len(p.queue) \in Nat
        /\ \A i \in 1..Len(q.queue) : q.queue[i] = p.queue[i + 1]
      BY QueueIs, Tailed
  <1>2. \A i \in 1..Len(q.queue) : i + 1 \in 1..Len(p.queue)
      BY <1>1
  <1>3. \A i \in 1..Len(p.queue) : ~Fresh(q, p.queue[i])
      BY QueueIs DEF Fresh
  <1>4. \A i \in 1..Len(q.queue) : ~Fresh(q, q.queue[i])
      BY <1>1, <1>2, <1>3
  <1>5. KnownInv(q, calls, disk, gone)
      BY <1>4, QueueIs DEF KnownInv
  <1>6. ~Loading(q)
      BY LoadIsFirst
  <1>7. OrderInv(q, ghost.overtook)
      BY <1>3, <1>6, QueueIs, DroppedOrder DEF IdsInv
  <1>8. QueueClean(q)
      BY <1>4 DEF QueueClean
  <1> QED
      BY <1>1, <1>2, <1>5, <1>6, <1>7, <1>8

\* What a load makes of the file keeps its identities.
LEMMA ImportKeepsIds ==
  ASSUME NEW file, IsSharing(Salvaged(file, CreateSharing))
  PROVE  /\ ImportSharing(file).ids = Salvaged(file, CreateSharing).ids
         /\ (Salvaged(file, CreateSharing).on => Salvaged(file, CreateSharing).terms = "now") =>
                ImportSharing(file) = Salvaged(file, CreateSharing)
  BY DEF ImportSharing, IsSharing

LEMMA LoadSharingKeepsIds == ASSUME StorageInv, FlightsInv, IdsInv, LoadSharing PROVE IdsInv'
  <1> DEFINE e == AdoptSharingFile(page, reply.file)
             q == Dequeue(e)
  <1>1. reply.here /\ Head(page.queue).kind = "load" /\ page.at = "second"
      BY DEF LoadSharing, Answered
  <1>2. /\ Len(calls) = 0 /\ page.queue # <<>> /\ page.queue[1].kind = "load"
        /\ 1 \in 1..Len(page.queue)
        /\ IsPage(page) /\ page.minted \in Nat /\ Answers(page, reply, disk)
      BY <1>1, AnsweredIds
  <1>3. reply.file \in {Unread, disk["sharing"]}
      BY <1>1, <1>2 DEF Answers
  <1>4. /\ page' = ReconcileThen(q, "render") /\ reply' = NoReply /\ UNCHANGED <<disk, calls, ghost>>
      BY DEF LoadSharing
  <1>5. /\ IsPage(e) /\ e.share = ImportSharing(reply.file) /\ e.srev = page.srev + 1
        /\ e.sBlocked = UnsafeToReplace(reply.file)
        /\ e.queue = page.queue /\ e.minted = page.minted /\ e.hrev = page.hrev
      BY <1>2 DEF AdoptSharingFile, IsPage, Fields
  <1> HIDE DEF e
  <1>6. /\ IsPage(q) /\ q.share = e.share /\ q.srev = e.srev /\ q.sBlocked = e.sBlocked
        /\ q.queue = Tail(e.queue) /\ q.minted = e.minted /\ q.hrev = e.hrev /\ q.at = "idle"
      BY <1>5 DEF Dequeue, IsPage, Fields
  <1> HIDE DEF q
  <1>7. DiskInv(disk, ghost.agreed)
      BY DEF StorageInv
  <1>8. IsSharing(q.share)
      BY <1>3, <1>5, <1>6, <1>7, ImportAgrees
  <1>9. q.share.ids \subseteq SavedSharing(disk).ids
    <2>1. CASE reply.file = Unread
      <3>1. Salvaged(Unread, CreateSharing) = CreateSharing
          BY DEF Unread, Salvaged
      <3>2. IsSharing(CreateSharing) /\ CreateSharing.ids = {}
          BY DEF CreateSharing, IsSharing
      <3>3. ImportSharing(Unread).ids = {}
          BY <3>1, <3>2, ImportKeepsIds
      <3> QED
          BY <1>5, <1>6, <2>1, <3>3
    <2>2. CASE reply.file = disk["sharing"]
      <3>1. IsSharing(Salvaged(disk["sharing"], CreateSharing))
          BY <1>7 DEF DiskInv, Salvaged, CreateSharing, IsSharing
      <3> QED
          BY <1>5, <1>6, <2>2, <3>1, ImportKeepsIds DEF SavedSharing
    <2> QED
        BY <1>3, <2>1, <2>2
  <1>10. /\ Below(page.minted, ghost.erased, q.share.ids)
         /\ Below(page.minted, ghost.erased, SavedSharing(disk).ids)
         /\ Below(page.minted, {}, ghost.erased)
      BY <1>9 DEF IdsInv, KnownInv, Below
  <1>11. /\ KnownInv(q, calls, disk, ghost.erased) /\ OrderInv(q, ghost.overtook) /\ QueueClean(q)
         /\ IsSeq(q.queue) /\ ~Loading(q)
         /\ \A i \in 1..Len(q.queue) : i + 1 \in 1..Len(page.queue) /\ q.queue[i] = page.queue[i + 1]
      BY <1>2, <1>5, <1>6, <1>10, RenewedIds
  <1>12. \A i \in 1..Len(q.queue) : q.queue[i].kind # "forget"
      BY <1>2, <1>11 DEF IdsInv, OrderInv, Loading
  <1>13. Tends(q, page') /\ Settled(q, page')
      BY <1>2, <1>4, <1>5, <1>6, <1>8, ReconcileThenTends
  <1>14. KnownInv(page', calls, disk, ghost.erased)
      BY <1>11, <1>13, TendedKnown
  <1>15. OrderInv(page', ghost.overtook)
      BY <1>11, <1>12, <1>13, TendedOrder
  <1>16. CleanInv(page', ghost.overtook)
      BY <1>6, <1>11, <1>13, TendedClean
  <1>17. HeldShare(page', reply', disk)
    <2>1. ~UnsafeToReplace(reply.file) => reply.file = disk["sharing"]
        BY <1>3 DEF UnsafeToReplace, Unread
    <2> QED
        BY <1>5, <1>6, <1>13, <2>1 DEF HeldShare, Tends, SameSharing
  <1> QED
      BY <1>4, <1>14, <1>15, <1>16, <1>17 DEF IdsInv

LEMMA FinishSharingKeepsIds == ASSUME StorageInv, FlightsInv, IdsInv, FinishSharing PROVE IdsInv'
  <1> DEFINE op == Head(page.queue)
             d == Dequeue(page)
             s == AdoptSharing(d, op, reply.ok)
  <1>1. /\ reply.here /\ op.kind = "share" /\ page' = Continue(s, op, reply.ok) /\ reply' = NoReply
        /\ UNCHANGED <<disk, calls>> /\ ghost'.overtook = ghost.overtook
        /\ ghost'.fellBack = ghost.fellBack
        /\ ghost'.erased = IF reply.ok THEN ghost.erased \cup (page.share.ids \ op.data.ids)
                           ELSE ghost.erased
      BY DEF FinishSharing, Answered, StorageInv
  <1>2. /\ Len(calls) = 0 /\ page.queue # <<>> /\ op = page.queue[1] /\ 1 \in 1..Len(page.queue)
        /\ IsPage(page) /\ IsSeq(page.queue) /\ page.minted \in Nat /\ Answers(page, reply, disk)
        /\ Fresh(page, op) /\ ~Loading(page) /\ ~AtSecond(page)
      BY <1>1, AnsweredIds DEF AtSecond
  <1>3. Unwritten(page, d) /\ d.sWriteFailed = page.sWriteFailed
      BY <1>2, DequeueUnwritten
  <1>4. CASE reply.ok
    <2>1. /\ disk["sharing"] = Whole(op.data) /\ IsSharing(op.data)
          /\ op.data.on => op.data.terms = "now"
        BY <1>1, <1>2, <1>4 DEF Answers, StorageInv, PageInv, Agreed, Fresh
    <2>2. /\ Salvaged(Whole(op.data), CreateSharing) = op.data
        BY DEF Salvaged, Whole
    <2>3. SavedSharing(disk) = op.data /\ ImportSharing(disk["sharing"]) = op.data
        BY <2>1, <2>2, ImportKeepsIds DEF SavedSharing
    <2>4. op.after \in {None, "render", "dismiss", "answer", "off"}
        BY <1>1, <1>2 DEF IdsInv, OrderInv
    <2> HIDE DEF op, d
    <2>5. /\ IsPage(s) /\ s.share = op.data /\ s.srev = page.srev + 1 /\ s.sBlocked = page.sBlocked
          /\ s.sForgetFailed = page.sForgetFailed /\ s.hist = page.hist /\ s.hrev = page.hrev
          /\ s.hBlocked = page.hBlocked /\ s.present = page.present /\ s.minted = page.minted
          /\ s.at = "idle" /\ s.queue = Tail(page.queue)
        BY <1>3, <1>4 DEF Unwritten, AdoptSharing, IsPage, Fields
    <2> HIDE DEF s
    <2>6. /\ Below(page.minted, ghost'.erased, op.data.ids) /\ Below(page.minted, {}, ghost'.erased)
        BY <1>1, <1>2, <1>4 DEF IdsInv, KnownInv, Below
    <2>7. /\ KnownInv(s, calls, disk, ghost'.erased) /\ OrderInv(s, ghost.overtook) /\ QueueClean(s)
          /\ IsSeq(s.queue) /\ ~Loading(s)
          /\ \A i \in 1..Len(s.queue) : i + 1 \in 1..Len(page.queue) /\ s.queue[i] = page.queue[i + 1]
        BY <1>2, <2>3, <2>5, <2>6, RenewedIds
    <2>8. /\ Tends(s, page')
          /\ Settling(op) => Rests(s, page')
          /\ ~Settling(op) => Settled(s, page')
        BY <1>1, <1>2, <1>4, <2>1, <2>4, <2>5, ContinueTends DEF Settling, None
    <2>9. ~Settling(op) => ghost.overtook \/ \A i \in 1..Len(s.queue) : s.queue[i].kind # "forget"
      <3> SUFFICES ASSUME ~Settling(op), ~ghost.overtook, NEW i \in 1..Len(s.queue)
                   PROVE  s.queue[i].kind # "forget"
          OBVIOUS
      <3> DEFINE j == i + 1
      <3>1. 1 < j /\ j \in 1..Len(page.queue) /\ s.queue[i] = page.queue[j]
          BY <2>7
      <3> HIDE DEF j
      <3> QED
          BY <1>1, <1>2, <3>1 DEF IdsInv, OrderInv
    <2>10. (~ghost.overtook /\ ~s.sForgetFailed /\ Settling(op)) => ShareClean(s)
      <3> SUFFICES ASSUME ~ghost.overtook, ~s.sForgetFailed, Settling(op) PROVE ShareClean(s)
          OBVIOUS
      <3>1. Clean(page.hist, op.data.ids)
          BY <1>2, <2>5 DEF IdsInv, CleanInv, QueueClean
      <3> QED
          BY <2>5, <3>1 DEF ShareClean
    <2>11. KnownInv(page', calls, disk, ghost'.erased)
        BY <2>7, <2>8, TendedKnown
    <2>12. OrderInv(page', ghost.overtook)
        BY <2>7, <2>8, <2>9, TendedOrder
    <2>13. CleanInv(page', ghost.overtook)
        BY <2>5, <2>7, <2>8, <2>10, TendedClean
    <2>14. HeldShare(page', reply', disk)
        BY <2>3, <2>5, <2>8 DEF HeldShare, Tends, SameSharing
    <2> QED
        BY <1>1, <2>11, <2>12, <2>13, <2>14 DEF IdsInv
  <1>5. CASE ~reply.ok
    <2> DEFINE f == AdoptSharing(d, op, FALSE)
    <2>1. page' = Continue(f, op, FALSE)
        BY <1>1, <1>5 DEF AdoptSharing, Continue
    <2>2. Unwritten(page, f) /\ f.sWriteFailed
        BY <1>2, DequeueUnwritten
    <2>3. ~MadeShare(page, reply) /\ ~reply'.here
        BY <1>1, <1>5 DEF MadeShare, NoReply
    <2> HIDE DEF f, op
    <2> QED
        BY <1>1, <1>2, <1>5, <2>1, <2>2, <2>3, UnwrittenIds
  <1> QED
      BY <1>4, <1>5

LEMMA ForgotHistoryKeepsIds == ASSUME StorageInv, FlightsInv, IdsInv, ForgotHistory PROVE IdsInv'
  <1> DEFINE c == Called("forgetSharing", NoData)
             p == page
             e == [page EXCEPT !.hist = CreateHistory, !.hrev = @ + 1, !.hForgetFailed = FALSE,
                               !.hBlocked = FALSE, !.hWritable = page.present]
             f == EmptyHistory(page, reply.ok)
             q == page'
  <1>1. reply.here /\ Head(page.queue).kind = "forgetEverything" /\ page.at = "first"
      BY DEF ForgotHistory, Answered
  <1>2. /\ IsPage(p) /\ p.queue # <<>> /\ p.queue[1].kind = "forgetEverything" /\ ~Loading(p)
        /\ IsSeq(calls) /\ IsSeq(p.queue)
      BY <1>1, AnsweredIds
  <1>3. /\ q = [f EXCEPT !.at = "second"] /\ calls' = Append(calls, c) /\ UNCHANGED disk
        /\ ghost'.erased = ghost.erased /\ ghost'.fellBack = ghost.fellBack
        /\ ghost'.overtook = ghost.overtook
      BY DEF ForgotHistory, Called, StorageInv
  <1>4. c.op # "writeSharing"
      BY DEF Called
  <1> HIDE DEF c
  <1>5. /\ IsPage(e) /\ e.srev = p.srev /\ e.hrev = p.hrev + 1 /\ e.share = p.share
        /\ e.sBlocked = p.sBlocked /\ e.present = p.present /\ e.minted = p.minted /\ e.queue = p.queue
      BY <1>2 DEF IsPage, Fields
  <1> HIDE DEF e
  <1>6. SameSharing(e, Recompare(e)) /\ Rests(e, Recompare(e))
      BY <1>5, RecompareTends
  <1>7. /\ IsPage(f) /\ f.srev = p.srev /\ f.hrev \in {p.hrev, p.hrev + 1} /\ f.share = p.share
        /\ f.sBlocked = p.sBlocked /\ f.present = p.present /\ f.minted = p.minted /\ f.queue = p.queue
    <2>1. CASE reply.ok
      <3>1. f = Recompare(e)
          BY <2>1 DEF EmptyHistory, e
      <3> QED
          BY <1>5, <1>6, <3>1 DEF SameSharing, Rests
    <2>2. CASE ~reply.ok
        BY <1>2, <2>2 DEF EmptyHistory, IsPage, Fields
    <2> QED
        BY <2>1, <2>2
  <1> HIDE DEF f
  <1>8. /\ q.srev = p.srev /\ q.hrev \in {p.hrev, p.hrev + 1} /\ q.share = p.share
        /\ q.sBlocked = p.sBlocked /\ q.present = p.present /\ q.minted = p.minted
        /\ q.queue = p.queue /\ q.at = "second"
      BY <1>3, <1>7 DEF IsPage, Fields
  <1>9. KnownInv(p, calls', disk, ghost.erased)
      BY <1>2, <1>3, <1>4, AddedWrite DEF IdsInv
  <1>10. KnownInv(q, calls', disk, ghost.erased)
      BY <1>8, <1>9 DEF KnownInv, Fresh
  <1>11. Loading(q) <=> Loading(p)
      BY <1>8 DEF Loading
  <1>12. \A i \in 1..Len(p.queue) : (p.queue[i].kind = "forget" /\ p.queue[i].rev = q.hrev) =>
             p.queue[i].rev = p.hrev
      BY <1>8, QueueIs
  <1>13. OrderInv(q, ghost.overtook)
      BY <1>2, <1>8, <1>11, <1>12 DEF IdsInv, OrderInv, Fresh
  <1>14. CleanInv(q, ghost.overtook)
      BY <1>2, <1>8 DEF CleanInv, AtSecond
  <1>15. "sharing" \notin ghost.fellBack => HeldShare(q, reply', disk)
      BY <1>1, <1>2, <1>8, <1>11 DEF IdsInv, HeldShare, MadeShare
  <1> QED
      BY <1>3, <1>10, <1>13, <1>14, <1>15 DEF IdsInv

LEMMA ForgotSharingKeepsIds == ASSUME StorageInv, FlightsInv, IdsInv, ForgotSharing PROVE IdsInv'
  <1> DEFINE all == Head(page.queue).kind = "forgetEverything"
             e == EmptySharing(page, reply.ok, all /\ page.sWriteFailed)
             q == Dequeue(e)
  <1>1. /\ reply.here /\ Head(page.queue).kind \in {"forgetEverything", "erase"}
        /\ Head(page.queue).kind = "forgetEverything" => page.at = "second"
      BY DEF ForgotSharing, Answered
  <1>2. /\ Len(calls) = 0 /\ page.queue # <<>> /\ Head(page.queue) = page.queue[1]
        /\ IsPage(page) /\ IsSeq(page.queue) /\ page.minted \in Nat /\ IsSharing(page.share)
        /\ Answers(page, reply, disk) /\ ~Loading(page)
      BY <1>1, AnsweredIds
  <1>3. /\ page' = Then(q, "render") \/ page' = q
        /\ reply' = NoReply /\ UNCHANGED <<disk, calls>>
        /\ ghost'.overtook = ghost.overtook /\ ghost'.fellBack = ghost.fellBack
        /\ ghost'.erased = IF reply.ok THEN ghost.erased \cup page.share.ids ELSE ghost.erased
      BY DEF ForgotSharing, StorageInv
  <1> HIDE DEF all
  <1>4. /\ IsPage(e) /\ e.queue = page.queue /\ e.minted = page.minted /\ e.hrev = page.hrev
        /\ e.hist = page.hist /\ e.present = page.present
        /\ reply.ok => e.share = CreateSharing /\ e.srev = page.srev + 1
        /\ ~reply.ok => /\ e.share = page.share /\ e.srev = page.srev /\ e.sForgetFailed
                        /\ e.sBlocked = page.sBlocked
    <2>1. CASE reply.ok
        BY <1>2, <2>1 DEF EmptySharing, IsPage, Fields
    <2>2. CASE ~reply.ok
        BY <1>2, <2>2 DEF EmptySharing, IsPage, Fields
    <2> QED
        BY <2>1, <2>2
  <1> HIDE DEF e
  <1>5. /\ IsPage(q) /\ q.queue = Tail(e.queue) /\ q.minted = e.minted /\ q.hrev = e.hrev
        /\ q.hist = e.hist /\ q.present = e.present /\ q.share = e.share /\ q.srev = e.srev
        /\ q.sForgetFailed = e.sForgetFailed /\ q.sBlocked = e.sBlocked /\ q.at = "idle"
      BY <1>4 DEF Dequeue, IsPage, Fields
  <1> HIDE DEF q
  <1>6. Tends(q, page') /\ Rests(q, page')
    <2>1. SameSharing(q, Then(q, "render")) /\ Rests(q, Then(q, "render"))
        BY <1>5, ThenTends
    <2>2. SameSharing(q, q) /\ Rests(q, q)
        BY <1>5 DEF SameSharing, Rests
    <2> QED
        BY <1>3, <2>1, <2>2 DEF Tends
  <1>7. CASE reply.ok
    <2>1. disk["sharing"] = NoFile
        BY <1>1, <1>2, <1>7 DEF Answers
    <2>2. CreateSharing.ids = {} /\ ImportSharing(NoFile) = CreateSharing
        BY DEF CreateSharing, ImportSharing, Salvaged, NoFile
    <2>3. SavedSharing(disk) = CreateSharing
        BY <2>1 DEF SavedSharing, Salvaged, NoFile
    <2>4. /\ Below(page.minted, ghost'.erased, q.share.ids)
          /\ Below(page.minted, ghost'.erased, SavedSharing(disk).ids)
          /\ Below(page.minted, {}, ghost'.erased)
        BY <1>3, <1>4, <1>5, <1>7, <2>2, <2>3 DEF IdsInv, KnownInv, Below
    <2>5. /\ KnownInv(q, calls, disk, ghost'.erased) /\ OrderInv(q, ghost.overtook) /\ QueueClean(q)
          /\ IsSeq(q.queue) /\ ~Loading(q)
        BY <1>2, <1>4, <1>5, <1>7, <2>4, RenewedIds
    <2>6. ShareClean(q)
        BY <1>4, <1>5, <1>7, <2>2 DEF ShareClean, Clean
    <2>7. KnownInv(page', calls, disk, ghost'.erased)
        BY <1>6, <2>5, TendedKnown
    <2>8. OrderInv(page', ghost.overtook)
        BY <1>6, <2>5, TendedOrder
    <2>9. CleanInv(page', ghost.overtook)
        BY <1>5, <1>6, <2>5, <2>6, TendedClean
    <2>10. HeldShare(page', reply', disk)
        BY <1>4, <1>5, <1>6, <1>7, <2>1, <2>2 DEF HeldShare, Tends, SameSharing
    <2> QED
        BY <1>3, <2>7, <2>8, <2>9, <2>10 DEF IdsInv
  <1>8. CASE ~reply.ok
    <2>1. /\ ~Loading(q) /\ IsSeq(q.queue)
        BY <1>2, <1>4, <1>5, LoadIsFirst, Tailed
    <2>2. \A i \in 1..Len(page.queue) : Fresh(q, page.queue[i]) => Fresh(page, page.queue[i])
        BY <1>4, <1>5, <1>8 DEF Fresh
    <2>3. KnownInv(q, calls, disk, ghost.erased)
      <3>1. KnownInv(page, calls, disk, ghost.erased) /\ Below(page.minted, ghost.erased, q.share.ids)
          BY <1>4, <1>5, <1>8 DEF IdsInv, KnownInv
      <3> QED
          BY <1>2, <1>4, <1>5, <2>2, <3>1, DroppedKnown
    <2>4. OrderInv(q, ghost.overtook)
        BY <1>2, <1>4, <1>5, <2>1, <2>2, DroppedOrder DEF IdsInv
    <2>5. KnownInv(page', calls, disk, ghost.erased)
        BY <1>6, <2>1, <2>3, TendedKnown
    <2>6. OrderInv(page', ghost.overtook)
        BY <1>6, <2>1, <2>4, TendedOrder
    <2>7. CleanInv(page', ghost.overtook)
        BY <1>4, <1>5, <1>6, <1>8 DEF CleanInv, Tends, SameSharing
    <2>8. "sharing" \notin ghost.fellBack => HeldShare(page', reply', disk)
        BY <1>2, <1>4, <1>5, <1>6, <1>8 DEF IdsInv, HeldShare, MadeShare, Tends, SameSharing
    <2> QED
        BY <1>3, <1>8, <2>5, <2>6, <2>7, <2>8 DEF IdsInv
  <1> QED
      BY <1>7, <1>8

\* The more flights are remembered, the more aircraft are.
LEMMA MoreClean ==
  ASSUME NEW h, Remembers(h), NEW g, Remembers(g), FlightsIn(h) \subseteq FlightsIn(g),
         NEW ids, Clean(h, ids)
  PROVE  Clean(g, ids)
  <1>1. /\ ListAircraft(h) = {AircraftOf[f] : f \in FlightsIn(h)}
        /\ ListAircraft(g) = {AircraftOf[f] : f \in FlightsIn(g)}
      BY Remembered1
  <1> QED
      BY <1>1 DEF Clean

LEMMA FinishHistoryKeepsIds == ASSUME StorageInv, FlightsInv, IdsInv, FinishHistory PROVE IdsInv'
  <1> DEFINE op == Head(page.queue)
             d == Dequeue(page)
             f == AdoptHistory(d, op, reply.ok)
  <1>1. /\ reply.here /\ op.kind \in {"save", "forget"} /\ page' = Continue(f, op, reply.ok)
        /\ reply' = NoReply /\ UNCHANGED <<disk, calls>> /\ ghost'.overtook = ghost.overtook
        /\ ghost'.fellBack = ghost.fellBack /\ ghost'.erased = ghost.erased
      BY DEF FinishHistory, Answered, StorageInv
  <1>2. /\ Len(calls) = 0 /\ page.queue # <<>> /\ op = page.queue[1] /\ 1 \in 1..Len(page.queue)
        /\ IsPage(page) /\ IsSeq(page.queue) /\ page.minted \in Nat /\ IsSharing(page.share)
        /\ ~Loading(page) /\ ~AtSecond(page) /\ page.at # "idle"
      BY <1>1, AnsweredIds DEF AtSecond
  <1>3. Unwritten(page, d) /\ d.sWriteFailed = page.sWriteFailed /\ ~Fresh(page, op)
      BY <1>1, <1>2, DequeueUnwritten DEF Fresh
  <1>4. ~MadeShare(page, reply) /\ ~reply'.here
      BY <1>1, <1>2 DEF MadeShare, NoReply
  <1>5. CASE reply.ok
    <2>1. /\ FlightsOp(page, op) /\ op.rev = page.hrev /\ Changes(op, page.hist)
          /\ Remembers(page.hist)
        BY <1>1, <1>2 DEF FlightsInv, FlightsPage, FlightsOp
    <2>2. /\ op.kind = "save" => op.after = "remember" /\ FlightsIn(page.hist) \subseteq FlightsIn(op.data)
          /\ op.kind = "forget" => op.after = "forgotten"
          /\ Remembers(op.data)
        BY <2>1 DEF FlightsOp, Changes
    <2> HIDE DEF op, d
    <2>3. /\ IsPage(f) /\ f.share = page.share /\ f.srev = page.srev /\ f.sBlocked = page.sBlocked
          /\ f.sForgetFailed = page.sForgetFailed /\ f.hist = op.data /\ f.hrev = page.hrev + 1
          /\ f.hBlocked = page.hBlocked /\ f.present = page.present /\ f.minted = page.minted
          /\ f.at = "idle" /\ f.queue = Tail(page.queue) /\ f.sWriteFailed = page.sWriteFailed
        BY <1>3, <1>5 DEF Unwritten, AdoptHistory, IsPage, Fields
    <2> HIDE DEF f
    <2>4. /\ \A i \in 1..Len(page.queue) :
                 /\ Fresh(f, page.queue[i]) <=> Fresh(page, page.queue[i])
                 /\ ~(page.queue[i].kind = "forget" /\ page.queue[i].rev = f.hrev)
        BY <2>3, QueueIs DEF Fresh
    <2>5. /\ IsSeq(f.queue) /\ ~Loading(f)
          /\ \A i \in 1..Len(f.queue) : i + 1 \in 1..Len(page.queue) /\ f.queue[i] = page.queue[i + 1]
      <3>1. /\ IsSeq(f.queue) /\ Len(f.queue) = Len(page.queue) - 1 /\ Len(page.queue) \in Nat
            /\ \A i \in 1..Len(f.queue) : f.queue[i] = page.queue[i + 1]
          BY <1>2, <2>3, Tailed
      <3> QED
          BY <1>2, <2>3, <3>1, LoadIsFirst
    <2>6. KnownInv(f, calls, disk, ghost.erased)
      <3>1. KnownInv(page, calls, disk, ghost.erased) /\ Below(page.minted, ghost.erased, f.share.ids)
          BY <2>3 DEF IdsInv, KnownInv
      <3> QED
          BY <1>2, <2>3, <2>4, <3>1, DroppedKnown
    <2>7. OrderInv(f, ghost.overtook)
        BY <1>2, <2>3, <2>4, <2>5, DroppedOrder DEF IdsInv
    <2>8. Tends(f, page') /\ (op.kind = "forget" => Settled(f, page'))
        BY <1>1, <1>2, <1>5, <2>2, <2>3, ContinueTends
    <2>9. (~ghost.overtook /\ ~f.sForgetFailed) => QueueClean(f) /\ (ShareClean(f) \/ Settled(f, page'))
      <3> SUFFICES ASSUME ~ghost.overtook, ~f.sForgetFailed
                   PROVE  QueueClean(f) /\ (ShareClean(f) \/ Settled(f, page'))
          OBVIOUS
      <3>1. QueueClean(page) /\ ShareClean(page)
          BY <1>2, <2>3 DEF IdsInv, CleanInv
      <3>2. CASE op.kind = "save"
        <4>1. QueueClean(d) /\ ShareClean(d)
            BY <1>2, <1>3, <3>1, DroppedClean DEF Unwritten
        <4>2. \A ids : Clean(page.hist, ids) => Clean(op.data, ids)
            BY <2>1, <2>2, <3>2, MoreClean
        <4>3. /\ d.queue = f.queue /\ d.srev = f.srev /\ d.hist = page.hist /\ d.share = f.share
              /\ d.present = f.present /\ d.hBlocked = f.hBlocked /\ d.sBlocked = f.sBlocked
              /\ d.sWriteFailed = f.sWriteFailed
            BY <1>3, <2>3 DEF Unwritten
        <4>4. QueueClean(f)
            BY <2>3, <4>1, <4>2, <4>3 DEF QueueClean, Fresh
        <4>5. ShareClean(f)
            BY <2>3, <4>1, <4>2, <4>3 DEF ShareClean, Fresh
        <4> QED
            BY <4>4, <4>5
      <3>3. CASE op.kind = "forget"
        <4>1. ASSUME NEW i \in 1..Len(f.queue) PROVE ~(Fresh(f, f.queue[i]) /\ Settling(f.queue[i]))
          <5> DEFINE j == i + 1
          <5>1. 1 < j /\ j \in 1..Len(page.queue) /\ f.queue[i] = page.queue[j]
              BY <2>5
          <5> HIDE DEF j
          <5>2. ~(Fresh(page, page.queue[j]) /\ Settling(page.queue[j]))
              BY <1>2, <2>1, <3>3, <5>1 DEF IdsInv, OrderInv
          <5> QED
              BY <2>4, <5>1, <5>2
        <4>2. QueueClean(f)
            BY <4>1 DEF QueueClean
        <4> QED
            BY <2>8, <3>3, <4>2
      <3> QED
          BY <1>1, <3>2, <3>3
    <2>10. KnownInv(page', calls, disk, ghost.erased)
        BY <2>5, <2>6, <2>8, TendedKnown
    <2>11. OrderInv(page', ghost.overtook)
      <3>1. \A i \in 1..Len(f.queue) : ~(f.queue[i].kind = "forget" /\ f.queue[i].rev = f.hrev)
          BY <2>4, <2>5
      <3> QED
          BY <2>5, <2>7, <2>8, <3>1, TendedOrder
    <2>12. CleanInv(page', ghost.overtook)
        BY <2>3, <2>5, <2>8, <2>9, TendedClean
    <2>13. "sharing" \notin ghost.fellBack => HeldShare(page', reply', disk)
        BY <1>2, <1>4, <2>3, <2>8 DEF IdsInv, HeldShare, Tends, SameSharing
    <2> QED
        BY <1>1, <2>10, <2>11, <2>12, <2>13 DEF IdsInv
  <1>6. CASE ~reply.ok
    <2> DEFINE h == AdoptHistory(d, op, FALSE)
    <2>1. page' = Continue(h, op, FALSE)
        BY <1>1, <1>6 DEF AdoptHistory, Continue
    <2>2. Unwritten(page, h) /\ h.sWriteFailed = page.sWriteFailed
        BY <1>2, DequeueUnwritten
    <2> HIDE DEF h, op
    <2> QED
        BY <1>1, <1>2, <1>3, <1>4, <2>1, <2>2, UnwrittenIds
  <1> QED
      BY <1>5, <1>6

LEMMA PageKeepsIds == ASSUME StorageInv, FlightsInv, IdsInv, PageStep PROVE IdsInv'
  BY BeginKeepsIds, BeginPersistKeepsIds, LoadHistoryKeepsIds, LoadSharingKeepsIds,
     FinishHistoryKeepsIds, FinishSharingKeepsIds, ForgotHistoryKeepsIds, ForgotSharingKeepsIds
  DEF PageStep

-----------------------------------------------------------------------------
(* Action by action: the shell.                                             *)

LEMMA ShellIds ==
  ASSUME StorageInv, FlightsInv, IdsInv, UNCHANGED page,
         ghost'.erased = ghost.erased, ghost'.overtook = ghost.overtook,
         \A i \in 1..Len(calls') : \E j \in 1..Len(calls) :
             calls'[i].op = calls[j].op /\ calls'[i].data = calls[j].data,
         Below(page.minted, ghost.erased, SavedSharing(disk').ids),
         "sharing" \notin ghost'.fellBack => HeldShare(page, reply', disk')
  PROVE  IdsInv'
  <1>1. KnownInv(page, calls', disk', ghost.erased)
      BY DEF IdsInv, KnownInv
  <1> QED
      BY <1>1 DEF IdsInv

\* The calls but the first, or all of them.
LEMMA AnsweredCalls ==
  ASSUME StorageInv, calls # <<>>, calls' = Tail(calls)
  PROVE  \A i \in 1..Len(calls') : \E j \in 1..Len(calls) :
             calls'[i].op = calls[j].op /\ calls'[i].data = calls[j].data
  BY FewerCalls

LEMMA PhasedCalls ==
  ASSUME StorageInv, calls # <<>>, NEW phase, InPhase(phase)
  PROVE  \A i \in 1..Len(calls') : \E j \in 1..Len(calls) :
             calls'[i].op = calls[j].op /\ calls'[i].data = calls[j].data
  <1> DEFINE C == calls
             K == calls'
  <1>1. IsSeq(C) /\ 1 \in 1..Len(C) /\ \A i \in 1..Len(C) : IsCall(C[i])
      BY ServedCall DEF StorageInv, CallsInv
  <1>2. K = [C EXCEPT ![1].phase = phase]
      BY DEF InPhase
  <1>3. Len(K) = Len(C)
    <2> DEFINE n == Len(C)
    <2>1. n \in Nat /\ DOMAIN C = 1..n
        BY <1>1 DEF IsSeq
    <2> HIDE DEF n
    <2>2. K = [i \in 1..n |-> K[i]]
        BY <1>2, <2>1
    <2> HIDE DEF K
    <2>3. Len(K) = n
        BY <2>1, <2>2, FunctionIsSeq
    <2> QED
        BY <2>3 DEF n
  <1>4. K[1] = [C[1] EXCEPT !.phase = phase] /\ \A i \in 1..Len(C) : i # 1 => K[i] = C[i]
      BY <1>1, <1>2 DEF IsSeq
  <1>5. K[1].op = C[1].op /\ K[1].data = C[1].data
      BY <1>1, <1>4 DEF IsCall
  <1> HIDE DEF K
  <1> QED
      BY <1>3, <1>4, <1>5 DEF K

\* One file replaced, and what it does to the other.
LEMMA SharingReplaced ==
  ASSUME StorageInv, NEW file \in {"history", "sharing"}, NEW x, disk' = [disk EXCEPT ![file] = x]
  PROVE  /\ file = "history" => disk'["sharing"] = disk["sharing"]
         /\ file = "sharing" => disk'["sharing"] = x
  <1>1. disk = [f \in {"history", "sharing"} |-> disk[f]]
      BY DEF StorageInv, DiskInv
  <1> QED
      BY <1>1

\* A call that left the sharing file as it was.
LEMMA SameSharingFile ==
  ASSUME StorageInv, FlightsInv, IdsInv, calls # <<>>, NEW ok, NEW file, Answer(ok, file),
         UNCHANGED ghost, disk'["sharing"] = disk["sharing"]
  PROVE  IdsInv'
  <1>1. ~reply.here /\ calls' = Tail(calls) /\ UNCHANGED page
      BY ServedCall DEF Answer
  <1>2. "sharing" \notin ghost.fellBack => HeldShare(page, reply', disk')
      BY <1>1 DEF IdsInv, HeldShare, MadeShare
  <1>3. Below(page.minted, ghost.erased, SavedSharing(disk').ids)
      BY DEF IdsInv, KnownInv, SavedSharing
  <1> QED
      BY <1>1, <1>2, <1>3, AnsweredCalls, ShellIds

\* Who hears of a change of the sharing file asked for it.
LEMMA HeardOfSharing ==
  ASSUME StorageInv, FlightsInv, calls # <<>>, calls[1].op \in {"writeSharing", "forgetSharing"},
         NEW file, Answer(TRUE, file), NEW d
  PROVE  HeldShare(page, reply', d)
  <1>1. /\ 1 \in 1..Len(calls) /\ Head(calls) = calls[1]
        /\ calls[1].mine => Asks(page, calls[1]) /\ page.at # "idle"
      BY ServedCall
  <1>2. CASE calls[1].mine
    <2> DEFINE o == page.queue[1]
    <2>1. reply'.ok /\ reply'.here
        BY <1>1, <1>2 DEF Answer
    <2>2. page.queue # <<>> /\ IsSeq(page.queue)
        BY <1>1, <1>2, ThePage
    <2>3. 1 \in 1..Len(page.queue)
        BY <2>2, Tailed
    <2>4. FlightsOp(page, o) /\ Asks(page, calls[1])
        BY <1>1, <1>2, <2>3 DEF FlightsInv, FlightsPage
    <2>5. \/ o.kind \in {"share", "erase"}
          \/ o.kind = "forgetEverything" /\ page.at # "first"
        BY <2>4 DEF FlightsOp, Asks, Reads, Forgets
    <2> QED
        BY <2>1, <2>5 DEF MadeShare, HeldShare
  <1>3. CASE ~calls[1].mine
      BY <1>1, <1>3 DEF FlightsInv, MineInv, HeldShare
  <1> QED
      BY <1>2, <1>3

LEMMA UnchangedFilesKeepIds ==
  ASSUME StorageInv, FlightsInv, IdsInv,
         ServeRead \/ ServeReadFails \/ ServeStageFails \/ ServeRenameFails \/ ServeForgetFails
  PROVE  IdsInv'
  <1>1. calls # <<>> /\ UNCHANGED <<disk, ghost>>
      BY DEF ServeRead, ServeReadFails, ServeStageFails, ServeRenameFails, ServeForgetFails, Serving
  <1>2. PICK ok, file : Answer(ok, file)
      BY DEF ServeRead, ServeReadFails, ServeStageFails, ServeRenameFails, ServeForgetFails
  <1> QED
      BY <1>1, <1>2, SameSharingFile

LEMMA ServeRenameKeepsIds == ASSUME StorageInv, FlightsInv, IdsInv, ServeRename PROVE IdsInv'
  <1> DEFINE c == calls[1]
  <1>1. /\ calls # <<>> /\ Head(calls) = c /\ 1 \in 1..Len(calls)
        /\ c.phase # "asked" => c.op \in Writes
        /\ Head(calls).phase \in {"staged", "deleted"}
      BY ServedCall DEF ServeRename, Serving
  <1>2. /\ c.op \in Writes /\ disk' = [disk EXCEPT ![File(c)] = Whole(c.data)]
        /\ Answer(TRUE, NoFile) /\ UNCHANGED ghost
      BY <1>1 DEF ServeRename
  <1>3. CASE c.op = "writeHistory"
    <2>1. File(c) = "history"
        BY <1>3 DEF File
    <2> HIDE DEF c
    <2>2. disk'["sharing"] = disk["sharing"]
        BY <1>2, <2>1, SharingReplaced
    <2> QED
        BY <1>1, <1>2, <2>2, SameSharingFile
  <1>4. CASE c.op = "writeSharing"
    <2>1. File(c) = "sharing" /\ Salvaged(Whole(c.data), CreateSharing) = c.data
        BY <1>4 DEF File, Whole, Salvaged
    <2>2. SavedSharing(disk') = c.data
      <3> HIDE DEF c
      <3> QED
          BY <1>2, <2>1, SharingReplaced DEF SavedSharing
    <2>3. Below(page.minted, ghost.erased, c.data.ids)
        BY <1>1, <1>4 DEF IdsInv, KnownInv
    <2>4. HeldShare(page, reply', disk')
        BY <1>1, <1>2, <1>4, HeardOfSharing
    <2>5. calls' = Tail(calls) /\ UNCHANGED page
        BY <1>2 DEF Answer
    <2> QED
        BY <1>1, <1>2, <2>2, <2>3, <2>4, <2>5, AnsweredCalls, ShellIds
  <1> QED
      BY <1>2, <1>3, <1>4 DEF Writes

LEMMA EmptyIds == CreateSharing.ids = {} /\ Salvaged(NoFile, CreateSharing) = CreateSharing
  BY DEF CreateSharing, Salvaged, NoFile

LEMMA ServeForgetKeepsIds == ASSUME StorageInv, FlightsInv, IdsInv, ServeForget PROVE IdsInv'
  <1> DEFINE c == calls[1]
  <1>1. calls # <<>> /\ Head(calls) = c /\ 1 \in 1..Len(calls)
      BY ServedCall DEF ServeForget, Serving
  <1>2. /\ c.op \in Forgets /\ disk' = [disk EXCEPT ![File(c)] = NoFile]
        /\ Answer(TRUE, NoFile) /\ UNCHANGED ghost
      BY <1>1 DEF ServeForget, Is
  <1>3. CASE c.op = "forgetHistory"
    <2>1. File(c) = "history"
        BY <1>3 DEF File
    <2> HIDE DEF c
    <2>2. disk'["sharing"] = disk["sharing"]
        BY <1>2, <2>1, SharingReplaced
    <2> QED
        BY <1>1, <1>2, <2>2, SameSharingFile
  <1>4. CASE c.op = "forgetSharing"
    <2>1. File(c) = "sharing"
        BY <1>4 DEF File
    <2>2. SavedSharing(disk').ids = {}
      <3> HIDE DEF c
      <3> QED
          BY <1>2, <2>1, EmptyIds, SharingReplaced DEF SavedSharing
    <2>3. HeldShare(page, reply', disk')
        BY <1>1, <1>2, <1>4, HeardOfSharing
    <2>4. calls' = Tail(calls) /\ UNCHANGED page
        BY <1>2 DEF Answer
    <2> QED
        BY <1>1, <1>2, <2>2, <2>3, <2>4, AnsweredCalls, ShellIds DEF Below
  <1> QED
      BY <1>2, <1>3, <1>4 DEF Forgets

LEMMA ServeStageKeepsIds == ASSUME StorageInv, FlightsInv, IdsInv, ServeStage PROVE IdsInv'
  <1>1. calls # <<>> /\ InPhase("staged") /\ UNCHANGED <<disk, ghost, reply, page>>
      BY DEF ServeStage, Serving, InPhase
  <1>2. Below(page.minted, ghost.erased, SavedSharing(disk).ids)
      BY DEF IdsInv, KnownInv
  <1>3. "sharing" \notin ghost.fellBack => HeldShare(page, reply, disk)
      BY DEF IdsInv
  <1> QED
      BY <1>1, <1>2, <1>3, PhasedCalls, ShellIds

LEMMA RenameRefusedKeepsIds ==
  ASSUME StorageInv, FlightsInv, IdsInv, ServeRenameRefused PROVE IdsInv'
  <1> DEFINE file == File(calls[1])
  <1>1. calls # <<>> /\ Head(calls) = calls[1]
      BY ServedCall DEF ServeRenameRefused, Serving
  <1>2. /\ disk' = [disk EXCEPT ![file] = NoFile] /\ InPhase("deleted")
        /\ ghost'.erased = ghost.erased /\ ghost'.overtook = ghost.overtook
        /\ ghost'.fellBack = ghost.fellBack \cup {file} /\ UNCHANGED <<reply, page>>
      BY <1>1 DEF ServeRenameRefused, StorageInv, InPhase
  <1>3. file \in {"history", "sharing"}
      BY DEF File
  <1> HIDE DEF file
  <1>4. /\ file = "history" => disk'["sharing"] = disk["sharing"]
        /\ file = "sharing" => disk'["sharing"] = NoFile
      BY <1>2, <1>3, SharingReplaced
  <1>5. Below(page.minted, ghost.erased, SavedSharing(disk').ids)
    <2>1. CASE file = "history"
        BY <1>4, <2>1 DEF IdsInv, KnownInv, SavedSharing
    <2>2. CASE file = "sharing"
        BY <1>4, <2>2, EmptyIds DEF SavedSharing, Below
    <2> QED
        BY <1>3, <2>1, <2>2
  <1>6. "sharing" \notin ghost'.fellBack => HeldShare(page, reply', disk')
      BY <1>2, <1>3, <1>4 DEF IdsInv, HeldShare
  <1> QED
      BY <1>1, <1>2, <1>5, <1>6, PhasedCalls, ShellIds

LEMMA ShellKeepsIds == ASSUME StorageInv, FlightsInv, IdsInv, ShellStep PROVE IdsInv'
  BY UnchangedFilesKeepIds, ServeRenameKeepsIds, ServeForgetKeepsIds, ServeStageKeepsIds,
     RenameRefusedKeepsIds
  DEF ShellStep

-----------------------------------------------------------------------------
(* Losing the page, or the process, and starting.                           *)

LEMMA FreshIds ==
  ASSUME NEW minted, NEW d, NEW gone, Below(minted, gone, SavedSharing(d).ids), minted \in Nat,
         Below(minted, {}, gone), NEW C,
         \A i \in 1..Len(C) : C[i].op = "writeSharing" => Below(minted, gone, C[i].data.ids)
  PROVE  LET p == NewPage(minted)
         IN /\ KnownInv(p, C, d, gone)
            /\ \A ov : OrderInv(p, ov) /\ CleanInv(p, ov)
            /\ \A r : HeldShare(p, r, d)
  <1> DEFINE o == Op("load", NoData, 0, None, {})
             q == <<o>>
             p == NewPage(minted)
  <1>1. o.kind = "load"
      BY DEF Op
  <1>2. /\ p.queue = q /\ p.share = CreateSharing /\ p.stored = NoRecord /\ p.shown = {}
        /\ p.minted = minted /\ p.present = FALSE
      BY DEF NewPage
  <1> HIDE DEF o, p
  <1>3. Len(q) = 1 /\ q[1] = o
    <2>1. q \in Seq({o}) /\ Len(q) = 1 /\ q[1] = o
        OBVIOUS
    <2> QED
        BY <2>1
  <1> HIDE DEF q
  <1>4. \A i \in 1..Len(p.queue) : p.queue[i] = o /\ i = 1
    <2>1. \A i \in 1..Len(q) : i = 1 /\ q[i] = o
        BY <1>3
    <2> QED
        BY <1>2, <2>1
  <1>5. Loading(p)
      BY <1>1, <1>2, <1>3 DEF Loading
  <1>6. KnownInv(p, C, d, gone)
      BY <1>1, <1>2, <1>4, EmptyIds DEF KnownInv, Fresh, Below
  <1>7. ASSUME NEW ov PROVE OrderInv(p, ov) /\ CleanInv(p, ov)
    <2>1. \A i, j \in 1..Len(p.queue) : ~(i < j)
        BY <1>4
    <2> QED
        BY <1>1, <1>2, <1>4, <1>5, <2>1 DEF OrderInv, CleanInv
  <1>8. \A r : HeldShare(p, r, d)
      BY <1>2 DEF HeldShare
  <1> QED
      BY <1>6, <1>7, <1>8 DEF p

LEMMA LosePageKeepsIds == ASSUME StorageInv, FlightsInv, IdsInv, LosePage PROVE IdsInv'
  <1> DEFINE n == Len(calls)
             K == calls'
  <1>1. /\ K = [i \in DOMAIN calls |-> [calls[i] EXCEPT !.mine = FALSE]]
        /\ page' = NewPage(page.minted) /\ UNCHANGED <<disk, ghost>>
      BY DEF LosePage
  <1>2. /\ IsSeq(calls) /\ n \in Nat /\ DOMAIN calls = 1..n /\ \A i \in 1..n : IsCall(calls[i])
      BY DEF StorageInv, CallsInv, IsSeq
  <1>3. \A i \in 1..n : K[i].op = calls[i].op /\ K[i].data = calls[i].data
      BY <1>1, <1>2 DEF IsCall
  <1>4. Len(K) = n
    <2>1. K = [i \in 1..n |-> K[i]]
        BY <1>1, <1>2
    <2> HIDE DEF K, n
    <2> QED
        BY <1>2, <2>1, FunctionIsSeq
  <1> HIDE DEF K
  <1>5. /\ Below(page.minted, ghost.erased, SavedSharing(disk).ids) /\ page.minted \in Nat
        /\ Below(page.minted, {}, ghost.erased)
        /\ \A i \in 1..Len(K) : K[i].op = "writeSharing" =>
               Below(page.minted, ghost.erased, K[i].data.ids)
      BY <1>3, <1>4 DEF IdsInv, KnownInv
  <1>6. /\ KnownInv(page', K, disk, ghost.erased) /\ OrderInv(page', ghost.overtook)
        /\ CleanInv(page', ghost.overtook) /\ HeldShare(page', reply', disk)
      BY <1>1, <1>5, FreshIds
  <1> QED
      BY <1>1, <1>6 DEF IdsInv, K

LEMMA CrashKeepsIds == ASSUME StorageInv, FlightsInv, IdsInv, Crash PROVE IdsInv'
  <1>1. calls' = <<>> /\ Len(calls') = 0 /\ page' = NewPage(page.minted) /\ UNCHANGED <<disk, ghost>>
    <2>1. calls' = <<>> /\ page' = NewPage(page.minted) /\ UNCHANGED <<disk, ghost>>
        BY DEF Crash
    <2>2. Len(<<>>) = 0
        OBVIOUS
    <2> QED
        BY <2>1, <2>2
  <1>2. /\ Below(page.minted, ghost.erased, SavedSharing(disk).ids) /\ page.minted \in Nat
        /\ Below(page.minted, {}, ghost.erased)
        /\ \A i \in 1..Len(calls') : calls'[i].op = "writeSharing" =>
               Below(page.minted, ghost.erased, calls'[i].data.ids)
      BY <1>1 DEF IdsInv, KnownInv
  <1>3. /\ KnownInv(page', calls', disk, ghost.erased) /\ OrderInv(page', ghost.overtook)
        /\ CleanInv(page', ghost.overtook) /\ HeldShare(page', reply', disk)
      BY <1>1, <1>2, FreshIds
  <1> QED
      BY <1>1, <1>3 DEF IdsInv

LEMMA IdsInvStep == StorageInv /\ FlightsInv /\ IdsInv /\ [Next]_vars => IdsInv'
  <1> SUFFICES ASSUME StorageInv, FlightsInv, IdsInv, [Next]_vars PROVE IdsInv'
      OBVIOUS
  <1>1. CASE UNCHANGED vars \/ Start
      BY <1>1 DEF vars, IdsInv, Start
  <1>2. CASE Next
      BY <1>1, <1>2, PageKeepsIds, ShellKeepsIds, PilotKeepsIds, LosePageKeepsIds, CrashKeepsIds
      DEF Next
  <1> QED
      BY <1>1, <1>2

LEMMA IdsInvInit == Init => IdsInv
  <1> SUFFICES ASSUME Init PROVE IdsInv
      OBVIOUS
  <1> DEFINE f == CHOOSE f \in Flights : TRUE
             one == ExportHistory(AddFlightRecord(CreateHistory, Measured(f)))
             older == [asked |-> TRUE, on |-> TRUE, terms |-> "old", ids |-> {<<AircraftOf[f], 0>>}]
  <1>1. PICK h \in {NoFile, Whole(one), Damaged(CreateHistory), Damaged(one)},
             s \in {NoFile, Whole(older), Damaged(CreateSharing)} :
            disk = [file \in {"history", "sharing"} |-> IF file = "history" THEN h ELSE s]
      BY DEF Init
  <1>2. calls = <<>> /\ Len(calls) = 0 /\ page = NewPage(1) /\ ghost.erased = {}
    <2>1. Len(<<>>) = 0
        OBVIOUS
    <2> QED
        BY <2>1 DEF Init
  <1>3. disk["sharing"] = s
      BY <1>1
  <1>4. SavedSharing(disk) \in {older, CreateSharing}
      BY <1>1, <1>3 DEF SavedSharing, Salvaged, NoFile, Whole, Damaged
  <1>5. SavedSharing(disk).ids \subseteq {<<AircraftOf[f], 0>>}
      BY <1>4, EmptyIds
  <1>6. Below(1, {}, SavedSharing(disk).ids) /\ Below(1, {}, {})
      BY <1>5 DEF Below
  <1> HIDE DEF f, one, older
  <1>7. \A i \in 1..Len(calls) : calls[i].op = "writeSharing" => Below(1, {}, calls[i].data.ids)
      BY <1>2
  <1>8. LET p == NewPage(1)
        IN /\ KnownInv(p, calls, disk, {})
           /\ \A ov : OrderInv(p, ov) /\ CleanInv(p, ov)
           /\ \A r : HeldShare(p, r, disk)
    <2>1. 1 \in Nat
        OBVIOUS
    <2> QED
        BY <1>6, <1>7, <2>1, FreshIds
  <1>9. /\ KnownInv(page, calls, disk, {}) /\ OrderInv(page, ghost.overtook)
        /\ CleanInv(page, ghost.overtook) /\ HeldShare(page, reply, disk)
      BY <1>2, <1>8
  <1> QED
      BY <1>2, <1>6, <1>7, <1>9 DEF IdsInv

LEMMA IdsInvHolds == Spec => []IdsInv
  <1>1. Init => StorageInv /\ FlightsInv /\ IdsInv
      BY StorageInvInit, FlightsInvInit, IdsInvInit
  <1>2. StorageInv /\ FlightsInv /\ IdsInv /\ [Next]_vars => (StorageInv /\ FlightsInv /\ IdsInv)'
      BY StorageInvStep, FlightsInvStep, IdsInvStep
  <1> QED
      BY <1>1, <1>2, PTL DEF Spec

-----------------------------------------------------------------------------
(* What the invariants say of a page that is quiet.                         *)

LEMMA QuietPage ==
  ASSUME StorageInv, FlightsInv, IdsInv, Quiet
  PROVE  /\ page.present /\ Len(page.queue) = 0 /\ ~Loading(page) /\ ~AtSecond(page)
         /\ ~Made(page, reply) /\ ~MadeShare(page, reply)
  <1>1. page.present /\ page.queue = <<>>
      BY DEF Quiet
  <1>2. Len(page.queue) = 0
    <2>1. Len(<<>>) = 0
        OBVIOUS
    <2> QED
        BY <1>1, <2>1
  <1>3. page.at = "idle" /\ ~reply.here
      BY <1>1, ThePage
  <1> QED
      BY <1>1, <1>2, <1>3 DEF Loading, AtSecond, Made, MadeShare

\* With nothing under way, what the pilot sees is what a restart would read, in both
\* stores, whatever failed, was lost or was interrupted before, unless the page could not
\* read the file or Android's fallback lost it; and no write is ever half in place
\* (persistHistory, persistSharing, loadHistory, loadSharing and writeTo).
THEOREM WhatIsSeenIsStored == Spec => []FilesAreWhole
  <1>1. StorageInv /\ FlightsInv /\ IdsInv => FilesAreWhole
    <2> SUFFICES ASSUME StorageInv, FlightsInv, IdsInv PROVE FilesAreWhole
        OBVIOUS
    <2>1. MemoryIsDisk
      <3> SUFFICES ASSUME Quiet
                   PROVE  /\ \/ page.hBlocked \/ "history" \in ghost.fellBack
                             \/ page.hist = ImportHistory(Salvaged(disk["history"], CreateHistory))
                          /\ \/ page.sBlocked \/ "sharing" \in ghost.fellBack
                             \/ page.share = ImportSharing(disk["sharing"])
          BY DEF MemoryIsDisk
      <3>1. /\ page.present /\ ~Loading(page) /\ ~Made(page, reply) /\ ~MadeShare(page, reply)
          BY QuietPage
      <3>2. \/ page.hBlocked \/ "history" \in ghost.fellBack
            \/ page.hist = ImportHistory(Salvaged(disk["history"], CreateHistory))
        <4>1. \/ page.hBlocked \/ "history" \in ghost.fellBack \/ page.hist = Saved(disk)
            BY <3>1 DEF FlightsInv, HeldInv
        <4>2. ImportHistory(Saved(disk)) = Saved(disk)
            BY ImportRemembers DEF FlightsInv, WritesInv
        <4> QED
            BY <4>1, <4>2 DEF Saved
      <3>3. \/ page.sBlocked \/ "sharing" \in ghost.fellBack
            \/ page.share = ImportSharing(disk["sharing"])
          BY <3>1 DEF IdsInv, HeldShare
      <3> QED
          BY <3>2, <3>3
    <2>2. NoHalfWrittenFile
        BY DEF StorageInv
    <2> QED
        BY <2>1, <2>2 DEF FilesAreWhole
  <1> QED
      BY <1>1, StorageInvIsInductive, FlightsInvHolds, IdsInvHolds, PTL

\* A flight the pilot was told is forgotten is in no copy until it is saved again, and an
\* identity that was dropped never comes back: no older change lands after a newer one.
\* Once things are quiet an identity belongs to an aircraft that is remembered, unless a
\* failure he was shown stands in the way, or a change of the preference was still being
\* written when he forgot (the revision checks of the queue, reconcileSharingIds).
THEOREM WhatIsForgottenIsGone == Spec => []ForgottenIsGone
  <1>1. StorageInv /\ FlightsInv /\ IdsInv => ForgottenIsGone
    <2> SUFFICES ASSUME StorageInv, FlightsInv, IdsInv PROVE ForgottenIsGone
        OBVIOUS
    <2>1. NothingResurrected
      <3>1. /\ ghost.forgotten \cap FlightsIn(page.hist) = {}
            /\ ghost.forgotten \cap FlightsIn(Saved(disk)) = {}
          BY DEF FlightsInv, GoneInv
      <3>2. /\ ghost.erased \cap page.share.ids = {}
            /\ ghost.erased \cap SavedSharing(disk).ids = {}
          BY DEF IdsInv, KnownInv, Below
      <3> QED
          BY <3>1, <3>2 DEF NothingResurrected, Saved, SavedSharing
    <2>2. IdsFollowHistory
      <3> SUFFICES ASSUME Quiet, ~ghost.overtook, ~page.hBlocked, ~page.sBlocked,
                          ~page.sWriteFailed, ~page.sForgetFailed
                   PROVE  Orphaned = {}
          BY DEF IdsFollowHistory
      <3>1. /\ page.present /\ Len(page.queue) = 0 /\ ~Loading(page) /\ ~AtSecond(page)
          BY QuietPage
      <3>2. ~ \E i \in 1..Len(page.queue) : Fresh(page, page.queue[i])
          BY <3>1
      <3>3. Clean(page.hist, page.share.ids)
          BY <3>1, <3>2 DEF IdsInv, CleanInv, ShareClean
      <3> QED
          BY <3>3 DEF Clean, Orphaned
    <2> QED
        BY <2>1, <2>2 DEF ForgottenIsGone
  <1> QED
      BY <1>1, StorageInvIsInductive, FlightsInvHolds, IdsInvHolds, PTL

==============================================================================
