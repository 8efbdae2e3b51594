---------------------------- MODULE DeliveryProofs ----------------------------
(***************************************************************************)
(* Files are handed out, packaged and passed as promised, for any number   *)
(* of requests of any kind that overlap one another, the event loop, faults *)
(* and crashes.                                                            *)
(***************************************************************************)
EXTENDS Delivery, SequenceTheorems, WellFoundedInduction, TLAPS

\* A request in the middle of something, with the candidates c, the files ds and the
\* number n of attempts it goes on with.

\* The oldest candidates that the file in a request's hands may have been rendered from:
\* those it began with, its attempt is about, and its keys are made of.
Lows(q) == {q.from, q.try.set, q.keys.docx[2], q.keys.package[2]}

\* The request has a file in its hands.
Holds(q) ==
    \/ q.pc \in {"save", "convert", "converting", "inspect", "ingest", "evidence", "verify",
                 "judge", "package", "record"}
    \/ q.pc = "insert" /\ q.try.status = "PASS"

HoldsFile(q, ds) == Holds(q) => q.try.doc \in DOMAIN ds

NotOlder(q, c, ds) ==
    \A b \in Lows(q) :
        /\ b <= c
        /\ q.pc = "look" => b <= q.set
        /\ Holds(q) => b <= ds[q.try.doc].set

LooksNow(q, c) == q.pc = "look" => q.set <= c

\* The attempt is about the candidates its review was about, and an attempt that passes
\* without a change of the candidates has a file of these.
Concluded == {"package", "record", "insert"}
AboutReview(q, ds) ==
    /\ q.pc \notin {"admit", "insert"} => q.try.review = q.try.set
    /\ q.pc \in Concluded /\ q.try.status = "PASS" /\ ~q.try.moved =>
            ds[q.try.doc].set = q.try.review

\* Only a file without a defect gets a clean inspection and goes into a package.
Sound(d) == ~d.broken /\ d.set \notin Flawed
SoundFile(q, ds) ==
    /\ q.pc \in {"ingest", "evidence", "verify", "judge"} /\ q.found = {} => Sound(ds[q.try.doc])
    /\ q.pc = "package" => Sound(ds[q.try.doc])

\* The verdict comes last.
Unjudged(q) == q.pc \notin Concluded => q.try.status = "NONE"

Numbered(q, n) == q.pc = "insert" => q.try.version <= n + 1

Fine(q, c, ds, n) ==
    /\ HoldsFile(q, ds) /\ NotOlder(q, c, ds) /\ LooksNow(q, c)
    /\ AboutReview(q, ds) /\ SoundFile(q, ds) /\ Unjudged(q) /\ Numbered(q, n)

\* What all requests share.
Rendered == \A d \in DOMAIN docs : docs[d].set <= cand
Cached ==
    \A k \in Keys : cache[k].doc # 0 =>
        cache[k].doc \in DOMAIN docs /\ k[2] <= docs[cache[k].doc].set
Zipped == \A d \in DocIds : zip[d] # NoZip => d \in DOMAIN docs /\ Sound(docs[d])
Attempted ==
    \A i \in DOMAIN attempts : LET a == attempts[i] IN
        /\ a.version <= i
        /\ a.status = "PASS" => a.doc \in DOMAIN docs
        /\ a.status = "PASS" /\ ~a.moved => docs[a.doc].set = a.review

Requested == \A r \in Requests : Fine(reqs[r], cand, docs, Len(attempts))

IInv ==
    /\ TypeOK /\ Rendered /\ Cached /\ Zipped /\ Attempted /\ Requested
    /\ ServedIsCurrent
-----------------------------------------------------------------------------
(* Numbers and sequences                                                    *)

\* A set of natural numbers below a bound has a greatest one.
LEMMA Greatest ==
    ASSUME NEW S \in SUBSET Nat, S # {}, NEW n \in Nat, \A x \in S : x <= n
    PROVE  \E x \in S : \A y \in S : y <= x
<1> DEFINE Bounds == {m \in Nat : \A x \in S : x <= m}
           Below == OpToRel(<, Nat)
<1>1. Bounds \subseteq Nat /\ Bounds # {}
  OBVIOUS
<1>2. PICK m \in Bounds : \A k \in Bounds : <<k, m>> \notin Below
  <2> HIDE DEF Bounds, Below
  <2>1. IsWellFoundedOn(Below, Nat)
    BY NatLessThanWellFounded DEF Below
  <2> QED
    BY <1>1, <2>1, WFMin
<1>3. \A k \in Bounds : ~(k < m)
  BY <1>1, <1>2 DEF OpToRel
<1>4. m \in S
  <2> SUFFICES ASSUME m \notin S PROVE FALSE
    OBVIOUS
  <2>1. PICK x \in S : x <= m
    BY <1>1, <1>2
  <2>2. m # 0
    BY <2>1
  <2>3. m \in Nat /\ \A y \in S : y \in Nat /\ y <= m /\ y # m
    BY <1>1, <1>2
  <2>4. m - 1 \in Nat /\ m - 1 < m /\ \A y \in S : y <= m - 1
    BY ONLY <2>2, <2>3
  <2>5. m - 1 \in Bounds
    BY <2>4
  <2> QED
    BY <2>4, <2>5, <1>3
<1> QED
  BY <1>4, <1>2

\* The latest of some attempts is one of them.
LEMMA LatestIsOne ==
    ASSUME attempts \in Seq(Attempts), Attempted, NEW I \in SUBSET DOMAIN attempts, I # {}
    PROVE  Latest(I) \in I
<1>1. DOMAIN attempts = 1 .. Len(attempts) /\ Len(attempts) \in Nat
      /\ \A i \in DOMAIN attempts : attempts[i] \in Attempts
  BY LenProperties, ElementOfSeq
<1>2. \A i \in DOMAIN attempts : attempts[i].version \in Nat /\ attempts[i].version <= i
  BY <1>1 DEF Attempted, Attempts
<1> DEFINE V == {attempts[i].version : i \in I}
<1>3. PICK v \in V : \A w \in V : w <= v
  <2>1. V \subseteq Nat /\ V # {} /\ \A w \in V : w <= Len(attempts)
    BY <1>1, <1>2
  <2> QED
    BY <1>1, <2>1, Greatest
<1> DEFINE J == {i \in I : attempts[i].version = v}
<1>4. PICK j \in J : \A i \in J : i <= j
  <2>1. J \subseteq Nat /\ J # {} /\ \A w \in J : w <= Len(attempts)
    BY <1>1, <1>3
  <2> QED
    BY <1>1, <2>1, Greatest
<1>5. \A i \in I : \/ attempts[i].version < attempts[j].version
                   \/ attempts[i].version = attempts[j].version /\ i <= j
  <2> SUFFICES ASSUME NEW i \in I PROVE attempts[i].version < v \/ i \in J
    BY <1>4
  <2>1. attempts[i].version \in V /\ attempts[i].version \in Nat
    BY <1>2
  <2>2. v \in Nat
    BY <1>2, <1>3
  <2>3. attempts[i].version <= v
    BY <1>3, <2>1
  <2> QED
    BY <2>1, <2>2, <2>3
<1> QED
  BY <1>4, <1>5 DEF Latest

\* What each type holds, field by field.
LEMMA Blank == NoAttempt \in Attempts /\ Idle \in Reqs /\ NoKey \in Keys
<1>1. MaxSets \in Nat /\ MaxGates \in Nat /\ MaxDocs \in Nat /\ MaxRuns \in Nat
  BY DeliveryAssumption
<1>2. NoAttempt \in Attempts
  BY <1>1 DEF NoAttempt, Attempts, Statuses, NoZip, Zips
<1>3. NoKey \in Keys
  BY <1>1 DEF NoKey, Keys, Layers
<1>4. Idle \in Reqs
  BY <1>1, <1>2, <1>3 DEF Idle, Reqs, Kinds, Steps, Layers
<1> QED
  BY <1>2, <1>3, <1>4
-----------------------------------------------------------------------------
(* Moves                                                                    *)

Extends(ds, es) == DOMAIN ds \subseteq DOMAIN es /\ \A d \in DOMAIN ds : es[d] = ds[d]

\* The types that a request's numbers have.
LEMMA Numbers ==
    ASSUME NEW q \in Reqs
    PROVE  /\ Lows(q) \subseteq Nat /\ q.set \in Nat /\ q.try.version \in Nat
           /\ q.try \in Attempts /\ q.keys \in [Layers -> Keys]
           /\ q.keys.docx \in Keys /\ q.keys.package \in Keys
<1>1. MaxSets \in Nat
  BY DeliveryAssumption
<1>2. q.try \in Attempts /\ q.keys \in [Layers -> Keys] /\ q.set \in Nat /\ q.from \in Nat
  BY <1>1 DEF Reqs
<1>3. q.try.version \in Nat /\ q.try.set \in Nat
  BY <1>1, <1>2 DEF Attempts
<1>4. q.keys.docx \in Keys /\ q.keys.package \in Keys
  BY <1>2 DEF Layers
<1>5. \A k \in Keys : k[2] \in Nat
  BY <1>1 DEF Keys
<1> QED
  BY <1>2, <1>3, <1>4, <1>5 DEF Lows

\* A request stays as it is while candidates, files and attempts are added.
LEMMA Kept ==
    ASSUME NEW q \in Reqs, NEW c \in Nat, NEW c2 \in Nat, c <= c2, NEW ds, NEW es,
           Extends(ds, es), NEW n \in Nat, NEW m \in Nat, n <= m, Fine(q, c, ds, n)
    PROVE  Fine(q, c2, es, m)
<1>1. Lows(q) \subseteq Nat /\ q.set \in Nat /\ q.try.version \in Nat
  BY Numbers
<1>2. Holds(q) => q.try.doc \in DOMAIN ds /\ es[q.try.doc] = ds[q.try.doc]
  BY DEF Fine, HoldsFile, Extends
<1>3. HoldsFile(q, es)
  BY <1>2 DEF Extends, HoldsFile
<1>4. NotOlder(q, c2, es)
  BY <1>1, <1>2 DEF Fine, NotOlder
<1>5. LooksNow(q, c2) /\ Numbered(q, m)
  BY <1>1 DEF Fine, LooksNow, Numbered
<1>6. AboutReview(q, es)
  BY <1>2 DEF Fine, AboutReview, Holds, Concluded
<1>7. SoundFile(q, es)
  BY <1>2 DEF Fine, SoundFile, Holds
<1> QED
  BY <1>3, <1>4, <1>5, <1>6, <1>7 DEF Fine

\* A request that is not in the middle of anything.
LEMMA IdleFine == ASSUME NEW c \in Nat, NEW ds, NEW n \in Nat PROVE Fine(Idle, c, ds, n)
<1>1. Idle.pc = "idle" /\ Lows(Idle) = {0} /\ Idle.try.review = Idle.try.set /\ Idle.try.status = "NONE"
  BY DEF Idle, Lows, NoKey, NoAttempt
<1> QED
  BY <1>1 DEF Fine, HoldsFile, Holds, NotOlder, LooksNow, AboutReview, Concluded, SoundFile, Unjudged, Numbered

\* What one request's step has to show of the requests.
LEMMA Move ==
    ASSUME TypeOK, Requested, NEW r \in Requests, reqs' \in [Requests -> Reqs],
           \A o \in Requests : o # r => reqs'[o] = reqs[o],
           cand \in Nat, cand' \in Nat, cand <= cand', Extends(docs, docs'),
           Len(attempts) \in Nat, Len(attempts') \in Nat, Len(attempts) <= Len(attempts'),
           Fine(reqs'[r], cand', docs', Len(attempts'))
    PROVE  Requested'
<1> SUFFICES ASSUME NEW o \in Requests PROVE Fine(reqs'[o], cand', docs', Len(attempts'))
  BY DEF Requested
<1>1. CASE o = r
  BY <1>1
<1>2. CASE o # r
  BY <1>2, Kept DEF TypeOK, Requested
<1> QED
  BY <1>1, <1>2

\* ... and of everything, when nothing else changes.
LEMMA QuietMove ==
    ASSUME IInv, NEW r \in Requests, Quiet, NEW q \in Reqs, reqs' = [reqs EXCEPT ![r] = q],
           Fine(q, cand, docs, Len(attempts))
    PROVE  IInv'
<1>1. /\ cand' = cand /\ docs' = docs /\ attempts' = attempts /\ cache' = cache /\ zip' = zip
      /\ served' = served
  BY DEF Quiet, world, files, history
<1>2. reqs' \in [Requests -> Reqs] /\ reqs'[r] = q /\ \A o \in Requests : o # r => reqs'[o] = reqs[o]
  BY DEF IInv, TypeOK
<1>3. TypeOK'
  BY <1>2 DEF IInv, TypeOK, Quiet, world, files, history
<1>4. Requested'
  <2>1. cand \in Nat /\ Len(attempts) \in Nat
    BY DeliveryAssumption, LenProperties DEF IInv, TypeOK, Sets
  <2>2. Extends(docs, docs')
    BY <1>1 DEF Extends
  <2> QED
    BY <1>1, <1>2, <2>1, <2>2, Move DEF IInv
<1>5. Rendered' /\ Cached' /\ Zipped' /\ Attempted' /\ ServedIsCurrent'
  BY <1>1 DEF IInv, Rendered, Cached, Zipped, Attempted, ServedIsCurrent
<1> QED
  BY <1>3, <1>4, <1>5 DEF IInv

\* The same for a request that only goes on, or that ends.
LEMMA QuietEnd == ASSUME IInv, NEW r \in Requests, Quiet, End(r) PROVE IInv'
<1>1. cand \in Nat /\ Len(attempts) \in Nat
  BY DeliveryAssumption, LenProperties DEF IInv, TypeOK, Sets
<1> QED
  BY <1>1, Blank, IdleFine, QuietMove DEF End

\* The same for a request that goes on to a step before it has a file.
LEMMA QuietGo ==
    ASSUME IInv, NEW r \in Requests, Quiet, NEW s \in Steps, Go(r, s),
           s \in {"unblocked", "snapshot", "preserve", "render"},
           reqs[r].pc # "admit",
           reqs[r].pc \notin Concluded
    PROVE  IInv'
<1> DEFINE p == reqs[r]
           q == [p EXCEPT !.pc = s]
<1>1. p \in Reqs /\ Fine(p, cand, docs, Len(attempts))
  BY DEF IInv, TypeOK, Requested
<1>2. q \in Reqs
  BY <1>1 DEF Reqs
<1>3. reqs' = [reqs EXCEPT ![r] = q]
  BY DEF Go, IInv, TypeOK
<1>4. q.pc = s /\ q.try = p.try /\ q.from = p.from /\ q.keys = p.keys
  BY <1>1 DEF Reqs
<1>5. ~Holds(q) /\ q.pc \notin Concluded \cup {"look", "ingest", "evidence", "verify", "judge"}
  BY <1>4 DEF Holds, Concluded
<1>6. NotOlder(q, cand, docs)
  BY <1>1, <1>4, <1>5 DEF Fine, NotOlder, Lows
<1>7. AboutReview(q, docs)
  BY <1>1, <1>4, <1>5 DEF Fine, AboutReview, Concluded
<1>8. Fine(q, cand, docs, Len(attempts))
  <2>1. Unjudged(q)
    BY <1>1, <1>4 DEF Fine, Unjudged
  <2> QED
    BY <1>5, <1>6, <1>7, <2>1 DEF Fine, HoldsFile, LooksNow, SoundFile, Numbered, Concluded
<1> QED
  BY <1>2, <1>3, <1>8, QuietMove

\* What has to be shown of a request without a file, and of one with a file.
LEMMA WithoutFile ==
    ASSUME NEW q, ~Holds(q), q.pc # "insert", NEW c, NEW ds, NEW n,
           \A b \in Lows(q) : b <= c, q.pc # "admit" => q.try.review = q.try.set,
           q.try.status = "NONE",
           q.pc = "look" => q.set <= c /\ \A b \in Lows(q) : b <= q.set
    PROVE  Fine(q, c, ds, n)
<1>1. q.pc \notin Concluded \cup {"ingest", "evidence", "verify", "judge"}
  BY DEF Holds, Concluded
<1> QED
  BY <1>1 DEF Fine, HoldsFile, NotOlder, LooksNow, AboutReview, SoundFile, Unjudged, Numbered, Concluded

\* With a file, its candidates are no older than what the request is about.
LEMMA WithFile ==
    ASSUME NEW q, Holds(q), q.pc # "insert", NEW c, NEW ds, NEW n,
           q.try.doc \in DOMAIN ds,
           \A b \in Lows(q) : b <= c /\ b <= ds[q.try.doc].set,
           AboutReview(q, ds), SoundFile(q, ds), Unjudged(q)
    PROVE  Fine(q, c, ds, n)
<1>1. q.pc \notin {"look", "insert"}
  BY DEF Holds
<1> QED
  BY <1>1 DEF Fine, HoldsFile, NotOlder, LooksNow, Numbered
-----------------------------------------------------------------------------
(* A request up to its file                                                 *)

\* A request arrives: it begins with the candidates of this moment.
LEMMA ReceiveStep == ASSUME IInv, NEW r \in Requests, Receive(r) PROVE IInv'
<1>1. PICK kind \in Serves[r] :
        reqs' = [reqs EXCEPT ![r] =
                [Idle EXCEPT !.kind = kind, !.from = IF kind \in Answers THEN cand ELSE 0,
                             !.clear = (kind \in Answers /\ Open = {}),
                             !.layer = IF kind = "package" THEN kind ELSE "docx",
                             !.pc = CASE kind = "accept" -> "reuse" [] kind = "repair" -> "snapshot"
                                      [] OTHER -> "key"]]
  BY DEF Receive
<1> DEFINE q == [Idle EXCEPT !.kind = kind, !.from = IF kind \in Answers THEN cand ELSE 0,
                             !.clear = (kind \in Answers /\ Open = {}),
                             !.layer = IF kind = "package" THEN kind ELSE "docx",
                             !.pc = CASE kind = "accept" -> "reuse" [] kind = "repair" -> "snapshot"
                                      [] OTHER -> "key"]
<1>2. cand \in 1 .. MaxSets /\ MaxSets \in Nat
  BY DeliveryAssumption DEF IInv, TypeOK, Sets
<1>3. kind \in Kinds
  BY DeliveryAssumption
<1>4. /\ q.pc \in {"reuse", "snapshot", "key"} /\ q.from \in {0, cand}
      /\ q.try = NoAttempt /\ q.keys.docx = NoKey /\ q.keys.package = NoKey
  BY <1>3 DEF Idle, Kinds
<1>5. q \in Reqs
  <2>1. q.pc \in Steps /\ q.layer \in Layers /\ q.from \in 0 .. MaxSets /\ q.clear \in BOOLEAN
    BY <1>2, <1>3, <1>4 DEF Idle, Layers, Steps
  <2>2. q = [Idle EXCEPT !.kind = kind, !.from = q.from, !.clear = q.clear, !.layer = q.layer, !.pc = q.pc]
    BY DEF Idle
  <2> HIDE DEF q
  <2> QED
    BY <1>3, <2>1, <2>2, Blank DEF Reqs
<1>6. Lows(q) \subseteq {0, cand} /\ q.try.review = q.try.set /\ q.try.status = "NONE"
  BY <1>4 DEF Lows, NoKey, NoAttempt
<1>7. Fine(q, cand, docs, Len(attempts))
  <2>1. \A b \in Lows(q) : b <= cand
    <3> HIDE DEF q
    <3>1. 0 <= cand /\ cand <= cand
      BY ONLY <1>2
    <3> QED
      BY ONLY <1>6, <3>1
  <2>2. ~Holds(q) /\ q.pc \notin {"look", "insert"}
    BY <1>4 DEF Holds
  <2> HIDE DEF q
  <2> QED
    BY <1>6, <2>1, <2>2, WithoutFile
<1> QED
  BY <1>1, <1>5, <1>7, QuietMove DEF Receive

\* An acceptance fixes the candidates its attempt is about.
LEMMA SnapshotStep == ASSUME IInv, NEW r \in Requests, Snapshot(r) PROVE IInv'
<1> DEFINE p == reqs[r]
           q == [p EXCEPT !.pc = "admit", !.try.set = cand]
<1>1. p \in Reqs /\ Fine(p, cand, docs, Len(attempts)) /\ cand \in 1 .. MaxSets /\ MaxSets \in Nat
  BY DeliveryAssumption DEF IInv, TypeOK, Requested, Sets
<1>2. p.try \in Attempts
  BY <1>1 DEF Reqs
<1>3. q \in Reqs
  <2>1. [p.try EXCEPT !.set = cand] \in Attempts
    BY SMTT(20), <1>1, <1>2 DEF Attempts
  <2>2. q = [p EXCEPT !.pc = "admit", !.try = [p.try EXCEPT !.set = cand]]
    BY <1>1 DEF Reqs
  <2>3. "admit" \in Steps
    BY DEF Steps
  <2> QED
    BY <1>1, <2>1, <2>2, <2>3 DEF Reqs
<1>4. reqs' = [reqs EXCEPT ![r] = q]
  BY DEF Snapshot, IInv, TypeOK
<1>5. /\ q.pc = "admit" /\ q.try.set = cand /\ q.from = p.from /\ q.keys = p.keys
      /\ q.try.status = "NONE"
  BY <1>1, <1>2 DEF Reqs, Attempts, Fine, Unjudged, Concluded, Snapshot, At
<1>6. \A b \in Lows(q) : b <= cand
  BY <1>1, <1>5 DEF Fine, NotOlder, Lows
<1>7. Fine(q, cand, docs, Len(attempts))
  BY <1>5, <1>6, WithoutFile DEF Holds
<1> QED
  BY <1>3, <1>4, <1>7, QuietMove DEF Snapshot

\* An attempt is admitted with the latest review of these candidates, or given up.
LEMMA AdmitStep == ASSUME IInv, NEW r \in Requests, Admit(r) PROVE IInv'
<1> DEFINE p == reqs[r]
           q == [p EXCEPT !.pc = "prior", !.try.review = reviewed]
<1>1. p \in Reqs /\ Fine(p, cand, docs, Len(attempts)) /\ reviewed \in 0 .. MaxSets
  BY DeliveryAssumption DEF IInv, TypeOK, Requested, Sets
<1>2. p.try \in Attempts
  BY <1>1 DEF Reqs
<1>3. CASE End(r)
  BY <1>3, QuietEnd DEF Admit
<1>4. CASE Reviewed(p.try) /\ reqs' = [reqs EXCEPT ![r].pc = "prior", ![r].try.review = reviewed]
  <2>1. q \in Reqs
    BY <1>1, <1>2 DEF Reqs, Attempts, Steps
  <2>2. reqs' = [reqs EXCEPT ![r] = q]
    BY <1>4 DEF IInv, TypeOK
  <2>3. /\ q.pc = "prior" /\ q.try.set = p.try.set /\ q.try.review = reviewed
        /\ q.from = p.from /\ q.keys = p.keys /\ q.try.status = "NONE"
    BY <1>1, <1>2 DEF Reqs, Attempts, Fine, Unjudged, Concluded, Admit, At
  <2>4. \A b \in Lows(q) : b <= cand
    BY <1>1, <2>3 DEF Fine, NotOlder, Lows
  <2>5. Fine(q, cand, docs, Len(attempts))
    BY <1>4, <2>3, <2>4, WithoutFile DEF Holds, Reviewed
  <2> QED
    BY <2>1, <2>2, <2>5, QuietMove DEF Admit
<1> QED
  BY <1>3, <1>4 DEF Admit

\* A repair notes the blockers that are open and the candidates it expects.
LEMMA PriorStep == ASSUME IInv, NEW r \in Requests, Prior(r) PROVE IInv'
<1> DEFINE p == reqs[r]
           expected == IF attempts = <<>> THEN 0 ELSE attempts[Latest(DOMAIN attempts)].set
           repair == p.kind = "repair"
           q == [p EXCEPT !.prior = IF repair THEN Open ELSE {}, !.expected = IF repair THEN expected ELSE 0,
                          !.pc = IF repair THEN "owners" ELSE "key"]
<1>1. p \in Reqs /\ Fine(p, cand, docs, Len(attempts)) /\ p.pc = "prior"
  BY DEF IInv, TypeOK, Requested, Prior, At
<1>2. expected \in 0 .. MaxSets
  <2>1. CASE attempts = <<>>
    BY <2>1, DeliveryAssumption
  <2>2. CASE attempts # <<>>
    <3>1. DOMAIN attempts = 1 .. Len(attempts) /\ Len(attempts) \in Nat \ {0}
      BY <2>2, LenProperties, EmptySeq DEF IInv, TypeOK
    <3>2. Latest(DOMAIN attempts) \in DOMAIN attempts
      <4>1. attempts \in Seq(Attempts) /\ Attempted
        BY DEF IInv, TypeOK
      <4>2. DOMAIN attempts # {}
        BY ONLY <3>1
      <4> QED
        BY <4>1, <4>2, LatestIsOne
    <3>3. attempts[Latest(DOMAIN attempts)] \in Attempts
      BY <3>1, <3>2, ElementOfSeq DEF IInv, TypeOK
    <3> QED
      BY <2>2, <3>3 DEF Attempts
  <2> QED
    BY <2>1, <2>2
<1>3. q \in Reqs
  <2>1. Open \in SUBSET Findings /\ {"owners", "key"} \subseteq Steps
    BY DEF Open, Steps
  <2>2. q.prior \in SUBSET Findings /\ q.expected \in 0 .. MaxSets /\ q.pc \in Steps
    BY <1>1, <1>2, <2>1, DeliveryAssumption DEF Reqs
  <2>3. q = [p EXCEPT !.prior = q.prior, !.expected = q.expected, !.pc = q.pc]
    BY <1>1 DEF Reqs
  <2> HIDE DEF q
  <2> QED
    BY <1>1, <2>2, <2>3 DEF Reqs
<1>4. reqs' = [reqs EXCEPT ![r] = q]
  BY DEF Prior, IInv, TypeOK
<1>5. q.pc \in {"owners", "key"} /\ q.try = p.try /\ q.from = p.from /\ q.keys = p.keys
  BY <1>1 DEF Reqs
<1>6. (\A b \in Lows(q) : b <= cand) /\ q.try.review = q.try.set /\ q.try.status = "NONE"
  BY <1>1, <1>5 DEF Fine, NotOlder, Lows, AboutReview, Unjudged, Concluded
<1>7. Fine(q, cand, docs, Len(attempts))
  BY <1>5, <1>6, WithoutFile DEF Holds
<1> QED
  BY <1>3, <1>4, <1>7, QuietMove DEF Prior

\* The cache key is made of the candidates and gates as they are now.
LEMMA TakeKeyStep == ASSUME IInv, NEW r \in Requests, TakeKey(r) PROVE IInv'
<1> DEFINE p == reqs[r]
           q == [p EXCEPT !.pc = "look", !.set = cand]
<1>1. p \in Reqs /\ Fine(p, cand, docs, Len(attempts)) /\ p.pc = "key"
      /\ cand \in 1 .. MaxSets /\ MaxSets \in Nat
  BY DeliveryAssumption DEF IInv, TypeOK, Requested, TakeKey, At, Sets
<1>2. q \in Reqs
  <2>1. "look" \in Steps /\ cand \in 0 .. MaxSets
    BY <1>1 DEF Steps
  <2> QED
    BY <1>1, <2>1 DEF Reqs
<1>3. reqs' = [reqs EXCEPT ![r] = q]
  BY DEF TakeKey, IInv, TypeOK
<1>4. q.pc = "look" /\ q.set = cand /\ q.try = p.try /\ q.from = p.from /\ q.keys = p.keys
  BY <1>1 DEF Reqs
<1>5. (\A b \in Lows(q) : b <= cand) /\ q.try.review = q.try.set /\ q.try.status = "NONE"
  BY <1>1, <1>4 DEF Fine, NotOlder, Lows, AboutReview, Unjudged, Concluded
<1>6. Fine(q, cand, docs, Len(attempts))
  <2>1. ~Holds(q) /\ q.pc # "insert" /\ q.set <= cand /\ \A b \in Lows(q) : b <= q.set
    BY <1>1, <1>4, <1>5 DEF Holds
  <2> HIDE DEF q
  <2> QED
    BY <1>5, <2>1, WithoutFile
<1> QED
  BY <1>2, <1>3, <1>6, QuietMove DEF TakeKey

\* Authorization and preservation move the request only.
LEMMA AuthorizeStep == ASSUME IInv, NEW r \in Requests, Authorize(r) \/ Preserve(r) PROVE IInv'
<1> DEFINE p == reqs[r]
           q1 == [p EXCEPT !.pc = "gates", !.clear = (p.kind \in Answers)]
           q2 == [p EXCEPT !.pc = "gates", !.expected = 0]
<1>1. p \in Reqs /\ Fine(p, cand, docs, Len(attempts)) /\ p.pc \in {"authorize", "preserve"}
  BY DEF IInv, TypeOK, Requested, Authorize, Preserve, At
<1>2. ASSUME NEW q \in {q1, q2} PROVE q \in Reqs /\ Fine(q, cand, docs, Len(attempts))
  <2>1. q \in Reqs
    <3>1. "gates" \in Steps /\ 0 \in 0 .. MaxSets /\ (p.kind \in Answers) \in BOOLEAN
      BY DeliveryAssumption DEF Steps
    <3>2. q1 \in Reqs
      BY <1>1, <3>1 DEF Reqs
    <3>3. q2 \in Reqs
      BY <1>1, <3>1 DEF Reqs
    <3> QED
      BY <3>2, <3>3
  <2>2. q.pc = "gates" /\ q.try = p.try /\ q.from = p.from /\ q.keys = p.keys
    BY <1>1 DEF Reqs
  <2>3. (\A b \in Lows(q) : b <= cand) /\ q.try.review = q.try.set /\ q.try.status = "NONE"
    BY <1>1, <2>2 DEF Fine, NotOlder, Lows, AboutReview, Unjudged, Concluded
  <2> QED
    BY <2>1, <2>2, <2>3, WithoutFile DEF Holds
<1>3. CASE End(r)
  BY <1>3, QuietEnd DEF Authorize, Preserve
<1>4. CASE ~End(r)
  <2>1. reqs' = [reqs EXCEPT ![r] = q1] \/ reqs' = [reqs EXCEPT ![r] = q2]
    BY <1>4 DEF Authorize, Preserve, IInv, TypeOK
  <2> QED
    BY <1>2, <2>1, QuietMove DEF Authorize, Preserve
<1> QED
  BY <1>3, <1>4
-----------------------------------------------------------------------------
(* A request with its file                                                  *)

\* What a step has to show that leaves candidates, files and attempts alone.
LEMMA FileMove ==
    ASSUME IInv, NEW r \in Requests, NEW q \in Reqs, reqs' = [reqs EXCEPT ![r] = q],
           Fine(q, cand, docs, Len(attempts)),
           cand' = cand, docs' = docs, attempts' = attempts
    PROVE  reqs' \in [Requests -> Reqs] /\ Requested' /\ Rendered' /\ Attempted'
<1>1. reqs' \in [Requests -> Reqs] /\ reqs'[r] = q /\ \A o \in Requests : o # r => reqs'[o] = reqs[o]
  BY DEF IInv, TypeOK
<1>2. cand \in Nat /\ Len(attempts) \in Nat
  BY DeliveryAssumption, LenProperties DEF IInv, TypeOK, Sets
<1>3. Extends(docs, docs')
  BY DEF Extends
<1>4. Requested'
  BY <1>1, <1>2, <1>3, Move DEF IInv
<1> QED
  BY <1>1, <1>4 DEF IInv, Rendered, Attempted

\* The files that are there.
LEMMA Files ==
    ASSUME TypeOK
    PROVE  /\ DOMAIN docs = 1 .. Len(docs) /\ Len(docs) \in 0 .. MaxDocs /\ MaxDocs \in Nat
           /\ DOMAIN docs \subseteq DocIds
           /\ \A d \in DOMAIN docs :
                docs[d].set \in Sets /\ docs[d].set \in Nat /\ docs[d].broken \in BOOLEAN
           /\ cand \in Nat
<1>1. DOMAIN docs = 1 .. Len(docs) /\ Len(docs) \in Nat
  BY LenProperties DEF TypeOK
<1>2. \A d \in DOMAIN docs : docs[d] \in [set : Sets, broken : BOOLEAN]
  BY <1>1, ElementOfSeq DEF TypeOK
<1>3. Len(docs) <= MaxDocs /\ MaxDocs \in Nat /\ MaxSets \in Nat /\ cand \in Sets
  BY DeliveryAssumption DEF TypeOK
<1> QED
  BY <1>1, <1>2, <1>3 DEF Sets, DocIds

\* An export ends with a file that is handed out, or goes on with one.
LEMMA ExportedMove ==
    ASSUME IInv, NEW r \in Requests, NEW d \in DOMAIN docs, Exported(r, d),
           \A b \in Lows(reqs[r]) : b <= docs[d].set,
           reqs[r].pc \notin {"admit"} \cup Concluded
    PROVE  /\ \E q \in Reqs : reqs' = [reqs EXCEPT ![r] = q] /\ Fine(q, cand, docs, Len(attempts))
           /\ served' \subseteq {"stale", "blocked"} /\ "stale" \notin served'
<1> DEFINE p == reqs[r]
           q == [p EXCEPT !.pc = "convert", !.try.doc = d]
<1>1. p \in Reqs /\ Fine(p, cand, docs, Len(attempts))
  BY DEF IInv, TypeOK, Requested
<1>2. Len(attempts) \in Nat /\ served \subseteq {"stale", "blocked"} /\ "stale" \notin served
  BY LenProperties DEF IInv, TypeOK, ServedIsCurrent
<1>3. /\ cand \in Nat /\ docs[d].set \in Nat /\ docs[d].set <= cand /\ d \in 0 .. MaxDocs
      /\ p.from \in Nat /\ p.from <= docs[d].set
  <2>1. p.from \in Lows(p)
    BY DEF Lows
  <2> QED
    BY <1>1, <2>1, Files, Numbers DEF IInv, Rendered
<1>4. CASE p.kind = "export" \/ p.layer = "package"
  <2>1. End(r) /\ Serve(r, d)
    BY <1>4 DEF Exported
  <2>2. docs[d].set \in p.from .. cand
    BY <1>3
  <2> QED
    BY <1>2, <1>3, <2>1, <2>2, Blank, IdleFine DEF End, Serve
<1>5. CASE ~(p.kind = "export" \/ p.layer = "package")
  <2>1. reqs' = [reqs EXCEPT ![r].pc = "convert", ![r].try.doc = d] /\ served' = served
    BY <1>5 DEF Exported
  <2>2. reqs' = [reqs EXCEPT ![r] = q]
    BY <2>1 DEF IInv, TypeOK
  <2>3. q \in Reqs
    <3>1. [p.try EXCEPT !.doc = d] \in Attempts
      BY <1>1, <1>3 DEF Reqs, Attempts
    <3>2. q = [p EXCEPT !.pc = "convert", !.try = [p.try EXCEPT !.doc = d]]
      BY <1>1 DEF Reqs
    <3>3. "convert" \in Steps
      BY DEF Steps
    <3> QED
      BY <1>1, <3>1, <3>2, <3>3 DEF Reqs
  <2>4. /\ q.pc = "convert" /\ q.try.doc = d /\ q.try.set = p.try.set /\ q.try.review = p.try.review
        /\ q.from = p.from /\ q.keys = p.keys /\ q.try.status = p.try.status
    BY <1>1 DEF Reqs, Attempts
  <2>5. Lows(q) = Lows(p)
    BY <2>4 DEF Lows
  <2>6. \A b \in Lows(q) : b <= cand /\ b <= docs[q.try.doc].set
    BY <1>1, <2>4, <2>5 DEF Fine, NotOlder
  <2>7. AboutReview(q, docs) /\ SoundFile(q, docs) /\ Unjudged(q) /\ Holds(q)
    BY <1>1, <2>4 DEF Fine, AboutReview, SoundFile, Unjudged, Holds, Concluded
  <2>8. Fine(q, cand, docs, Len(attempts))
    <3> HIDE DEF q
    <3> QED
      BY <2>4, <2>6, <2>7, WithFile
  <2> QED
    BY <1>2, <2>1, <2>2, <2>3, <2>8
<1> QED
  BY <1>4, <1>5

\* The cache is asked: a hit gives the file of the key, a miss the candidates to render.
LEMMA LookStep == ASSUME IInv, NEW r \in Requests, Look(r) PROVE IInv'
<1> DEFINE p == reqs[r]
           layer == p.layer
           key == Key(layer, p.set, gate)
           q == [p EXCEPT !.keys[layer] = key, !.layer = "docx", !.set = 0,
                               !.pc = IF layer = "package" THEN "key" ELSE "authorize"]
<1>1. p \in Reqs /\ Fine(p, cand, docs, Len(attempts)) /\ p.pc = "look"
  BY DEF IInv, TypeOK, Requested, Look, At
<1>2. /\ key \in Keys /\ key[2] = p.set /\ p.set <= cand /\ layer \in Layers
      /\ p.keys \in [Layers -> Keys]
  BY <1>1 DEF Reqs, Key, Keys, IInv, TypeOK, Fine, LooksNow
<1>3. /\ cand' = cand /\ docs' = docs /\ attempts' = attempts /\ cache' = cache /\ zip' = zip
      /\ UNCHANGED <<ledger, attempts, runs, sighted, cleared>> /\ UNCHANGED world /\ UNCHANGED files
  BY DEF Look, world, files
<1>4. \A b \in Lows(p) : b \in Nat /\ b <= cand /\ b <= p.set
  BY <1>1, Numbers DEF Fine, NotOlder
<1>5. /\ \E x \in Reqs : reqs' = [reqs EXCEPT ![r] = x] /\ Fine(x, cand, docs, Len(attempts))
      /\ served' \subseteq {"stale", "blocked"} /\ "stale" \notin served'
  <2>1. CASE IntactEntry(layer, cache[key])
    <3> DEFINE d == cache[key].doc
    <3>1. d # 0 /\ Exported(r, d)
      BY <2>1 DEF Look, IntactEntry
    <3>2. d \in DOMAIN docs /\ p.set <= docs[d].set
      BY <1>2, <3>1 DEF IInv, Cached
    <3>3. \A b \in Lows(p) : b <= docs[d].set
      <4>1. docs[d].set \in Nat /\ p.set \in Nat
        BY <1>1, <3>2, Files, Numbers DEF IInv
      <4> QED
        BY <1>4, <3>2, <4>1
    <3> QED
      BY <1>1, <3>1, <3>2, <3>3, ExportedMove DEF Concluded
  <2>2. CASE ~IntactEntry(layer, cache[key])
    <3>1. reqs' = [reqs EXCEPT ![r].keys[layer] = key, ![r].layer = "docx", ![r].set = 0,
                               ![r].pc = IF layer = "package" THEN "key" ELSE "authorize"]
          /\ served' = served
      BY <2>2 DEF Look
    <3>2. reqs' = [reqs EXCEPT ![r] = q]
      BY <3>1 DEF IInv, TypeOK
    <3>3. /\ q.pc \in {"key", "authorize"} /\ q.try = p.try /\ q.from = p.from /\ q.layer = "docx"
          /\ q.set = 0 /\ q.keys = [p.keys EXCEPT ![layer] = key]
      BY <1>1 DEF Reqs
    <3>4. q \in Reqs
      <4>1. q.keys \in [Layers -> Keys] /\ "docx" \in Layers /\ 0 \in 0 .. MaxSets /\ q.pc \in Steps
        BY <1>2, <3>3, DeliveryAssumption DEF Layers, Steps
      <4>2. q = [p EXCEPT !.keys = q.keys, !.layer = "docx", !.set = 0, !.pc = q.pc]
        BY <1>1 DEF Reqs
      <4> HIDE DEF q
      <4> QED
        BY <1>1, <4>1, <4>2 DEF Reqs
    <3>5. Lows(q) \subseteq Lows(p) \cup {p.set}
      <4>1. q.keys.docx \in {p.keys.docx, key} /\ q.keys.package \in {p.keys.package, key}
        BY <1>2, <3>3 DEF Layers
      <4> HIDE DEF q
      <4> QED
        BY <1>2, <3>3, <4>1 DEF Lows
    <3>6. Fine(q, cand, docs, Len(attempts))
      <4>1. \A b \in Lows(q) : b <= cand
        BY <1>2, <1>4, <3>5
      <4>2. ~Holds(q) /\ q.pc \notin {"insert", "look", "admit"}
        BY <3>3 DEF Holds
      <4>3. q.try.review = q.try.set /\ q.try.status = "NONE"
        BY <1>1, <3>3 DEF Fine, AboutReview, Unjudged, Concluded
      <4> HIDE DEF q
      <4> QED
        BY <4>1, <4>2, <4>3, WithoutFile
    <3> QED
      BY <3>1, <3>2, <3>4, <3>6 DEF IInv, TypeOK, ServedIsCurrent
  <2> QED
    BY <2>1, <2>2
<1>6. reqs' \in [Requests -> Reqs] /\ Requested' /\ Rendered' /\ Attempted'
  BY <1>3, <1>5, FileMove
<1>7. TypeOK'
  BY <1>3, <1>5, <1>6 DEF IInv, TypeOK, world, files
<1>8. Cached' /\ Zipped' /\ ServedIsCurrent'
  BY <1>3, <1>5 DEF IInv, Cached, Zipped, ServedIsCurrent
<1> QED
  BY <1>6, <1>7, <1>8 DEF IInv

\* A request that goes on with the file it has.
LEMMA HeldOn ==
    ASSUME IInv, NEW r \in Requests, NEW q,
           Holds(reqs[r]), reqs[r].pc # "insert", Holds(q), q.pc # "insert",
           q.from = reqs[r].from, q.keys = reqs[r].keys, q.try.set = reqs[r].try.set,
           q.try.doc = reqs[r].try.doc, q.try.review = reqs[r].try.review,
           q.pc \in Concluded /\ q.try.status = "PASS" /\ ~q.try.moved =>
                docs[q.try.doc].set = q.try.review,
           SoundFile(q, docs), Unjudged(q)
    PROVE  Fine(q, cand, docs, Len(attempts))
<1> DEFINE p == reqs[r]
<1>1. Fine(p, cand, docs, Len(attempts)) /\ p.pc # "admit"
  BY DEF IInv, Requested, Holds
<1>2. Lows(q) = Lows(p) /\ q.try.doc \in DOMAIN docs
  BY <1>1 DEF Lows, Fine, HoldsFile
<1>3. \A b \in Lows(q) : b <= cand /\ b <= docs[q.try.doc].set
  BY <1>1, <1>2 DEF Fine, NotOlder
<1>4. AboutReview(q, docs)
  BY <1>1 DEF Fine, AboutReview
<1> QED
  BY <1>2, <1>3, <1>4, WithFile

\* A new file is one that no request has yet.
LEMMA RenderStep == ASSUME IInv, NEW r \in Requests, Render(r) PROVE IInv'
<1> DEFINE p == reqs[r]
           d == Len(docs) + 1
           step == IF p.kind = "repair" THEN "convert" ELSE "save"
           q == [p EXCEPT !.try.doc = d, !.pc = step]
           f == [set |-> cand, broken |-> broken]
<1>1. /\ p \in Reqs /\ Fine(p, cand, docs, Len(attempts)) /\ p.pc = "render"
      /\ p.try \in Attempts /\ Len(docs) < MaxDocs
  BY DEF IInv, TypeOK, Requested, Render, At, Reqs
<1>2. /\ docs' = Append(docs, f) /\ reqs' = [reqs EXCEPT ![r].try.doc = d, ![r].pc = step]
      /\ cand' = cand /\ attempts' = attempts /\ cache' = cache /\ zip' = zip /\ served' = served
      /\ UNCHANGED <<ledger, runs, pdf, stamp>> /\ UNCHANGED world /\ UNCHANGED history
  BY DEF Render, world, history
<1>3. /\ f \in [set : Sets, broken : BOOLEAN] /\ docs \in Seq([set : Sets, broken : BOOLEAN])
      /\ cand \in Nat /\ Len(docs) \in Nat /\ DOMAIN docs = 1 .. Len(docs)
      /\ MaxDocs \in Nat /\ Len(attempts) \in Nat
  BY Files, LenProperties DEF IInv, TypeOK
<1>4. /\ docs' \in Seq([set : Sets, broken : BOOLEAN]) /\ Len(docs') = d /\ docs'[d] = f
      /\ \A i \in DOMAIN docs : docs'[i] = docs[i]
      /\ DOMAIN docs' = 1 .. d /\ DOMAIN docs' = DOMAIN docs \cup {d} /\ d <= MaxDocs
  <2>1. /\ docs' \in Seq([set : Sets, broken : BOOLEAN]) /\ Len(docs') = d /\ docs'[d] = f
        /\ \A i \in 1 .. Len(docs) : docs'[i] = docs[i]
    BY <1>2, <1>3, AppendProperties
  <2>2. DOMAIN docs' = 1 .. d
    BY <2>1, LenProperties
  <2> QED
    BY <1>1, <1>3, <2>1, <2>2
<1>5. reqs' = [reqs EXCEPT ![r] = q]
  BY <1>2 DEF IInv, TypeOK
<1>6. q \in Reqs
  <2>1. [p.try EXCEPT !.doc = d] \in Attempts
    <3>1. d \in 0 .. MaxDocs
      BY <1>3, <1>4
    <3> QED
      BY <1>1, <3>1 DEF Attempts
  <2>2. q = [p EXCEPT !.try = [p.try EXCEPT !.doc = d], !.pc = step]
    BY <1>1 DEF Reqs
  <2>3. step \in Steps
    BY DEF Steps
  <2> QED
    BY <1>1, <2>1, <2>2, <2>3 DEF Reqs
<1>7. /\ q.pc \in {"save", "convert"} /\ q.from = p.from /\ q.keys = p.keys /\ q.try.doc = d
      /\ q.try.set = p.try.set /\ q.try.review = p.try.review /\ q.try.status = p.try.status
  BY <1>1 DEF Reqs, Attempts
<1>8. Fine(q, cand', docs', Len(attempts'))
  <2>1. Lows(q) = Lows(p)
    BY <1>7 DEF Lows
  <2>2. q.try.doc \in DOMAIN docs' /\ docs'[q.try.doc].set = cand
    BY <1>4, <1>7
  <2>3. \A b \in Lows(q) : b <= cand' /\ b <= docs'[q.try.doc].set
    BY <1>1, <1>2, <2>1, <2>2 DEF Fine, NotOlder
  <2>4. AboutReview(q, docs') /\ SoundFile(q, docs') /\ Unjudged(q)
    BY <1>1, <1>7 DEF Fine, AboutReview, SoundFile, Unjudged, Concluded
  <2>5. Holds(q) /\ q.pc # "insert"
    BY <1>7 DEF Holds
  <2> HIDE DEF q
  <2> QED
    BY <2>2, <2>3, <2>4, <2>5, WithFile
<1>9. Requested' /\ reqs' \in [Requests -> Reqs]
  <2>1. reqs' \in [Requests -> Reqs] /\ reqs'[r] = q /\ \A o \in Requests : o # r => reqs'[o] = reqs[o]
    BY <1>5, <1>6 DEF IInv, TypeOK
  <2>2. Extends(docs, docs')
    BY <1>4 DEF Extends
  <2> HIDE DEF q
  <2> QED
    BY <1>2, <1>3, <1>8, <2>1, <2>2, Move DEF IInv
<1>10. TypeOK'
  BY <1>2, <1>4, <1>9 DEF IInv, TypeOK, world, history
<1>11. Rendered'
  BY <1>2, <1>3, <1>4 DEF IInv, Rendered
<1>12. Cached' /\ Zipped' /\ Attempted' /\ ServedIsCurrent'
  BY <1>2, <1>4 DEF IInv, Cached, Zipped, Attempted, ServedIsCurrent
<1> QED
  BY <1>9, <1>10, <1>11, <1>12 DEF IInv

\* A rendered file is entered in the cache under the key taken before rendering.
LEMMA SaveStep == ASSUME IInv, NEW r \in Requests, Save(r) PROVE IInv'
<1> DEFINE p == reqs[r]
           d == p.try.doc
           k == p.keys.docx
           e == [doc |-> d, zip |-> NoZip]
<1>1. p \in Reqs /\ Fine(p, cand, docs, Len(attempts)) /\ p.pc = "save"
  BY DEF IInv, TypeOK, Requested, Save, At
<1>2. /\ cand' = cand /\ docs' = docs /\ attempts' = attempts /\ zip' = zip
      /\ cache' = [cache EXCEPT ![k] = e] /\ Exported(r, d)
      /\ UNCHANGED <<ledger, runs, pdf, stamp, sighted, cleared>> /\ UNCHANGED world
  BY DEF Save, world, Doc
<1>3. d \in DOMAIN docs /\ \A b \in Lows(p) : b <= docs[d].set
  BY <1>1 DEF Fine, HoldsFile, NotOlder, Holds
<1>4. k \in Keys /\ k[2] <= docs[d].set
  BY <1>1, <1>3, Numbers DEF Lows
<1>5. /\ \E x \in Reqs : reqs' = [reqs EXCEPT ![r] = x] /\ Fine(x, cand, docs, Len(attempts))
      /\ served' \subseteq {"stale", "blocked"} /\ "stale" \notin served'
  BY <1>1, <1>2, <1>3, ExportedMove DEF Concluded
<1>6. reqs' \in [Requests -> Reqs] /\ Requested' /\ Rendered' /\ Attempted'
  BY <1>2, <1>5, FileMove
<1>7. e \in Entries
  BY <1>3, Files, DeliveryAssumption DEF Entries, Zips, NoZip, IInv, DocIds
<1>8. TypeOK'
  BY <1>2, <1>4, <1>5, <1>6, <1>7 DEF IInv, TypeOK, world
<1>9. Cached'
  BY <1>2, <1>3, <1>4 DEF IInv, TypeOK, Cached
<1>10. Zipped' /\ ServedIsCurrent'
  BY <1>2, <1>5 DEF IInv, Zipped, ServedIsCurrent
<1> QED
  BY <1>6, <1>8, <1>9, <1>10 DEF IInv

\* A request that ends, whatever else it does to what lies next to a file.
LEMMA EndMove ==
    ASSUME IInv, NEW r \in Requests, End(r), cand' = cand, docs' = docs, attempts' = attempts
    PROVE  reqs' \in [Requests -> Reqs] /\ Requested' /\ Rendered' /\ Attempted'
<1>1. cand \in Nat /\ Len(attempts) \in Nat
  BY DeliveryAssumption, LenProperties DEF IInv, TypeOK, Sets
<1> QED
  BY <1>1, Blank, IdleFine, FileMove DEF End

\* The file of a request is one of those that are there.
LEMMA Held ==
    ASSUME IInv, NEW r \in Requests, Holds(reqs[r])
    PROVE  /\ reqs[r] \in Reqs /\ reqs[r].try \in Attempts
           /\ Fine(reqs[r], cand, docs, Len(attempts))
           /\ Doc(r) \in DOMAIN docs /\ Doc(r) \in DocIds
<1>1. reqs[r] \in Reqs /\ Fine(reqs[r], cand, docs, Len(attempts))
  BY DEF IInv, TypeOK, Requested
<1>2. Doc(r) \in DOMAIN docs
  BY <1>1 DEF Fine, HoldsFile, Doc
<1> QED
  BY <1>1, <1>2, Files DEF Reqs, IInv

\* The conversion to PDF starts from the file in hand.
LEMMA ConvertStep == ASSUME IInv, NEW r \in Requests, Convert(r) PROVE IInv'
<1> DEFINE p == reqs[r]
           q == [p EXCEPT !.pc = "converting", !.try.run = runs + 1]
<1>1. p.pc = "convert" /\ runs + 1 \in 0 .. MaxRuns /\ 0 \in 0 .. MaxRuns
  BY DeliveryAssumption DEF Convert, At, IInv, TypeOK
<1>2. Holds(p) /\ p.pc \notin Concluded
  BY <1>1 DEF Holds, Concluded
<1>3. /\ p \in Reqs /\ p.try \in Attempts /\ Fine(p, cand, docs, Len(attempts)) /\ Doc(r) \in DocIds
  BY <1>2, Held
<1>4. /\ cand' = cand /\ docs' = docs /\ attempts' = attempts /\ cache' = cache /\ zip' = zip
      /\ served' = served /\ runs' = runs + 1 /\ pdf' = [pdf EXCEPT ![Doc(r)] = 0]
      /\ UNCHANGED <<ledger, stamp>> /\ UNCHANGED world /\ UNCHANGED history
  BY DEF Convert, world, history
<1>5. reqs' = [reqs EXCEPT ![r] = q]
  BY DEF Convert, IInv, TypeOK
<1>6. q \in Reqs
  <2>1. [p.try EXCEPT !.run = runs + 1] \in Attempts
    BY <1>1, <1>3 DEF Attempts
  <2>2. q = [p EXCEPT !.pc = "converting", !.try = [p.try EXCEPT !.run = runs + 1]]
    BY <1>3 DEF Reqs
  <2>3. "converting" \in Steps
    BY DEF Steps
  <2> QED
    BY <1>3, <2>1, <2>2, <2>3 DEF Reqs
<1>7. /\ q.pc = "converting" /\ q.from = p.from /\ q.keys = p.keys /\ q.try.doc = p.try.doc
      /\ q.try.set = p.try.set /\ q.try.review = p.try.review /\ q.try.status = p.try.status
  BY <1>3 DEF Reqs, Attempts
<1>8. Fine(q, cand, docs, Len(attempts))
  <2>1. Holds(q) /\ q.pc \notin Concluded /\ q.pc # "insert" /\ SoundFile(q, docs)
    BY <1>7 DEF Holds, Concluded, SoundFile
  <2>2. Unjudged(q)
    BY <1>2, <1>3, <1>7 DEF Fine, Unjudged
  <2>3. p.pc # "insert"
    BY <1>1
  <2> HIDE DEF q
  <2> QED
    BY <1>2, <1>7, <2>1, <2>2, <2>3, HeldOn
<1>9. reqs' \in [Requests -> Reqs] /\ Requested' /\ Rendered' /\ Attempted'
  BY <1>4, <1>5, <1>6, <1>8, FileMove
<1>10. TypeOK'
  BY <1>1, <1>3, <1>4, <1>9 DEF IInv, TypeOK, world, history
<1> QED
  BY <1>4, <1>9, <1>10 DEF IInv, Cached, Zipped, ServedIsCurrent

\* It ends, and leaves a PDF of that file or none.
LEMMA ConvertedStep == ASSUME IInv, NEW r \in Requests, Converted(r) PROVE IInv'
<1> DEFINE p == reqs[r]
           q == [p EXCEPT !.pc = "inspect"]
<1>1. p.pc = "converting"
  BY DEF Converted, At
<1>2. Holds(p) /\ p.pc \notin Concluded /\ p.pc # "insert"
  BY <1>1 DEF Holds, Concluded
<1>3. /\ p \in Reqs /\ p.try \in Attempts /\ Fine(p, cand, docs, Len(attempts)) /\ Doc(r) \in DocIds
  BY <1>2, Held
<1>4. /\ cand' = cand /\ docs' = docs /\ attempts' = attempts /\ cache' = cache /\ zip' = zip
      /\ served' = served
      /\ UNCHANGED <<ledger, runs, stamp>> /\ UNCHANGED world /\ UNCHANGED history
  BY DEF Converted, world, history
<1>5. reqs' \in [Requests -> Reqs] /\ Requested' /\ Rendered' /\ Attempted'
  <2>1. CASE End(r)
    BY <1>4, <2>1, EndMove
  <2>2. CASE Go(r, "inspect")
    <3>1. reqs' = [reqs EXCEPT ![r] = q]
      BY <2>2 DEF Go, IInv, TypeOK
    <3>2. q \in Reqs
      <4>1. "inspect" \in Steps
        BY DEF Steps
      <4> QED
        BY <1>3, <4>1 DEF Reqs
    <3>3. q.pc = "inspect" /\ q.from = p.from /\ q.keys = p.keys /\ q.try = p.try
      BY <1>3 DEF Reqs
    <3>4. Holds(q) /\ q.pc \notin Concluded /\ q.pc # "insert" /\ SoundFile(q, docs)
      BY <3>3 DEF Holds, Concluded, SoundFile
    <3>5. Unjudged(q)
      BY <1>2, <1>3, <3>3 DEF Fine, Unjudged
    <3>6. Fine(q, cand, docs, Len(attempts))
      <4> HIDE DEF q
      <4> QED
        BY <1>2, <3>3, <3>4, <3>5, HeldOn
    <3> QED
      BY <1>4, <3>1, <3>2, <3>6, FileMove
  <2> QED
    BY <2>1, <2>2 DEF Converted
<1>6. pdf' \in [DocIds -> 0 .. MaxRuns]
  <2>1. p.try.run \in 0 .. MaxRuns
    BY <1>3 DEF Attempts
  <2>2. pdf' = [pdf EXCEPT ![Doc(r)] = p.try.run] \/ pdf' = pdf
    BY DEF Converted
  <2> QED
    BY <1>3, <2>1, <2>2 DEF IInv, TypeOK
<1>7. TypeOK'
  BY <1>4, <1>5, <1>6 DEF IInv, TypeOK, world, history
<1> QED
  BY <1>4, <1>5, <1>7 DEF IInv, Cached, Zipped, ServedIsCurrent

\* An inspection that finds nothing is of a file without a defect.
LEMMA NothingFound ==
    ASSUME NEW d, NEW set, docs[d].broken \in BOOLEAN
    PROVE  Defects(d, set) \subseteq Findings /\ (Defects(d, set) = {} => Sound(docs[d]))
BY DEF Defects, Findings, Sound

\* The inspection finds nothing only in a sound file.
LEMMA InspectStep == ASSUME IInv, NEW r \in Requests, Inspect(r) PROVE IInv'
<1> DEFINE p == reqs[r]
           found == Defects(Doc(r), cand)
           q1 == [p EXCEPT !.pc = "package"]
           q2 == [p EXCEPT !.pc = "ingest", !.found = found]
<1>1. p.pc = "inspect"
  BY DEF Inspect, At
<1>2. Holds(p) /\ p.pc \notin Concluded /\ p.pc # "insert"
  BY <1>1 DEF Holds, Concluded
<1>3. /\ p \in Reqs /\ p.try \in Attempts /\ Fine(p, cand, docs, Len(attempts)) /\ Doc(r) \in DocIds
      /\ Doc(r) \in DOMAIN docs
  BY <1>2, Held
<1>4. /\ cand' = cand /\ docs' = docs /\ attempts' = attempts /\ cache' = cache /\ zip' = zip
      /\ served' = served
      /\ UNCHANGED <<ledger, runs, pdf>> /\ UNCHANGED world /\ UNCHANGED history
  BY DEF Inspect, world, history
<1>5. found \subseteq Findings /\ (found = {} => Sound(docs[p.try.doc]))
  <2>1. docs[Doc(r)].broken \in BOOLEAN
    BY <1>3, Files DEF IInv
  <2> QED
    BY <2>1, NothingFound DEF Doc
<1>6. reqs' \in [Requests -> Reqs] /\ Requested' /\ Rendered' /\ Attempted'
  <2>1. CASE End(r)
    BY <1>4, <2>1, EndMove
  <2>2. ASSUME found = {}, reqs' = [reqs EXCEPT ![r] = q1]
        PROVE  reqs' \in [Requests -> Reqs] /\ Requested' /\ Rendered' /\ Attempted'
    <3>1. q1 \in Reqs
      <4>1. "package" \in Steps
        BY DEF Steps
      <4> QED
        BY <1>3, <4>1 DEF Reqs
    <3>2. q1.pc = "package" /\ q1.from = p.from /\ q1.keys = p.keys /\ q1.try = p.try
      BY <1>3 DEF Reqs
    <3>3. q1.try.status = "NONE"
      BY <1>2, <1>3, <3>2 DEF Fine, Unjudged
    <3>4. Holds(q1) /\ q1.pc # "insert" /\ SoundFile(q1, docs) /\ Unjudged(q1)
      BY <1>5, <2>2, <3>2 DEF Holds, Unjudged, Concluded, SoundFile
    <3>5. Fine(q1, cand, docs, Len(attempts))
      <4> HIDE DEF q1
      <4> QED
        BY <1>2, <3>2, <3>3, <3>4, HeldOn
    <3> QED
      BY <1>4, <2>2, <3>1, <3>5, FileMove
  <2>3. ASSUME reqs' = [reqs EXCEPT ![r] = q2]
        PROVE  reqs' \in [Requests -> Reqs] /\ Requested' /\ Rendered' /\ Attempted'
    <3>1. q2 \in Reqs
      <4>1. "ingest" \in Steps
        BY DEF Steps
      <4> HIDE DEF found
      <4> QED
        BY <1>3, <1>5, <4>1 DEF Reqs
    <3>2. /\ q2.pc = "ingest" /\ q2.found = found /\ q2.from = p.from /\ q2.keys = p.keys
          /\ q2.try = p.try
      BY <1>3 DEF Reqs
    <3>3. Holds(q2) /\ q2.pc \notin Concluded /\ q2.pc # "insert" /\ SoundFile(q2, docs)
      BY <1>5, <3>2 DEF Holds, Concluded, SoundFile
    <3>4. Unjudged(q2)
      BY <1>2, <1>3, <3>2 DEF Fine, Unjudged
    <3>5. Fine(q2, cand, docs, Len(attempts))
      <4> HIDE DEF q2
      <4> QED
        BY <1>2, <3>2, <3>3, <3>4, HeldOn
    <3> QED
      BY <1>4, <2>3, <3>1, <3>5, FileMove
  <2>4. \/ End(r)
        \/ found = {} /\ Go(r, "package")
        \/ reqs' = [reqs EXCEPT ![r].pc = "ingest", ![r].found = found]
    BY DEF Inspect
  <2>5. Go(r, "package") => reqs' = [reqs EXCEPT ![r] = q1]
    BY DEF Go, IInv, TypeOK
  <2>6. reqs' = [reqs EXCEPT ![r].pc = "ingest", ![r].found = found] => reqs' = [reqs EXCEPT ![r] = q2]
    BY DEF IInv, TypeOK
  <2> QED
    BY <2>1, <2>2, <2>3, <2>4, <2>5, <2>6
<1>7. stamp' \in [DocIds -> 0 .. MaxRuns]
  <2>1. p.try.run \in 0 .. MaxRuns
    BY <1>3 DEF Attempts
  <2>2. stamp' = [stamp EXCEPT ![Doc(r)] = p.try.run] \/ stamp' = stamp
    BY DEF Inspect
  <2> QED
    BY <1>3, <2>1, <2>2 DEF IInv, TypeOK
<1>8. TypeOK'
  BY <1>4, <1>6, <1>7 DEF IInv, TypeOK, world, history
<1> QED
  BY <1>4, <1>6, <1>8 DEF IInv, Cached, Zipped, ServedIsCurrent

\* What changes the ledger only changes, besides, where its request is.
LEMMA LedgerMove ==
    ASSUME IInv, NEW r \in Requests, NEW s \in {"evidence", "verify", "judge"}, Go(r, s),
           reqs[r].pc \in {"ingest", "evidence", "verify"},
           UNCHANGED <<attempts, runs, served>>, UNCHANGED world, UNCHANGED files,
           ledger' \in [Findings -> {"NONE", "OPEN", "REPAIR_RECORDED", "VERIFIED"}],
           sighted' \in 0 .. MaxDocs, cleared' \in 0 .. MaxDocs
    PROVE  IInv'
<1> DEFINE p == reqs[r]
           q == [p EXCEPT !.pc = s]
<1>1. Holds(p) /\ p.pc \notin Concluded /\ p.pc # "insert"
  BY DEF Holds, Concluded
<1>2. p \in Reqs /\ p.try \in Attempts /\ Fine(p, cand, docs, Len(attempts))
  BY <1>1, Held
<1>3. reqs' = [reqs EXCEPT ![r] = q]
  BY DEF Go, IInv, TypeOK
<1>4. q \in Reqs
  <2>1. s \in Steps
    BY DEF Steps
  <2> QED
    BY <1>2, <2>1 DEF Reqs
<1>5. q.pc = s /\ q.from = p.from /\ q.keys = p.keys /\ q.try = p.try /\ q.found = p.found
  BY <1>2 DEF Reqs
<1>6. Holds(q) /\ q.pc \notin Concluded /\ q.pc # "insert"
  BY <1>5 DEF Holds, Concluded
<1>7. SoundFile(q, docs) /\ Unjudged(q)
  BY <1>1, <1>2, <1>5 DEF Fine, SoundFile, Unjudged
<1>8. Fine(q, cand, docs, Len(attempts))
  <2> HIDE DEF q
  <2> QED
    BY <1>1, <1>5, <1>6, <1>7, HeldOn
<1>9. reqs' \in [Requests -> Reqs] /\ Requested' /\ Rendered' /\ Attempted'
  BY <1>3, <1>4, <1>8, FileMove DEF world, files
<1>10. TypeOK'
  BY <1>9 DEF IInv, TypeOK, world, files
<1> QED
  BY <1>9, <1>10 DEF IInv, Cached, Zipped, ServedIsCurrent, world, files

\* The three steps that write findings change neither files nor the request's file.
LEMMA LedgerStep ==
    ASSUME IInv, NEW r \in Requests, Ingest(r) \/ AddEvidence(r) \/ Verify(r)
    PROVE  IInv'
<1>1. reqs[r].pc \in {"ingest", "evidence", "verify"}
  BY DEF Ingest, AddEvidence, Verify, At
<1>2. Doc(r) \in 0 .. MaxDocs
  <2>1. Holds(reqs[r])
    BY <1>1 DEF Holds
  <2> QED
    BY <2>1, Held, DeliveryAssumption DEF DocIds
<1>3. UNCHANGED <<attempts, runs, served>> /\ UNCHANGED world /\ UNCHANGED files
  BY DEF Ingest, AddEvidence, Verify, history
<1>4. sighted' \in 0 .. MaxDocs /\ cleared' \in 0 .. MaxDocs
  BY <1>2 DEF Ingest, AddEvidence, Verify, history, IInv, TypeOK
<1>5. ledger' \in [Findings -> {"NONE", "OPEN", "REPAIR_RECORDED", "VERIFIED"}]
  BY DEF Ingest, AddEvidence, Verify, IInv, TypeOK, Findings
<1>6. Go(r, "evidence") \/ Go(r, "verify") \/ Go(r, "judge")
  BY DEF Ingest, AddEvidence, Verify
<1> QED
  BY <1>1, <1>3, <1>4, <1>5, <1>6, LedgerMove

\* A verdict other than PASS may be of any file, a PASS is of one without a defect, and
\* if the candidates are still those of the attempt, the file is of these.
LEMMA JudgeStep == ASSUME IInv, NEW r \in Requests, Judge(r) PROVE IInv'
<1> DEFINE p == reqs[r]
           status == Judged(p.found)
           moved == (status = "PASS" /\ cand # p.try.set)
           t == [p.try EXCEPT !.status = status, !.moved = moved]
           step == IF status = "PASS" THEN "package" ELSE "record"
           q == [p EXCEPT !.try = t, !.prior = {}, !.found = {}, !.pc = step]
<1>1. p.pc = "judge"
  BY DEF Judge, At
<1>2. Holds(p) /\ p.pc # "insert"
  BY <1>1 DEF Holds
<1>3. /\ p \in Reqs /\ p.try \in Attempts /\ Fine(p, cand, docs, Len(attempts))
      /\ Doc(r) \in DOMAIN docs
  BY <1>2, Held
<1>4. status \in Statuses \ {"NONE"} /\ (status = "PASS" => p.found = {})
  BY DEF Judged, Statuses
<1>5. reqs' = [reqs EXCEPT ![r] = q]
  <2>1. reqs' = [reqs EXCEPT ![r].try = [@ EXCEPT !.status = status, !.moved = moved],
                             ![r].prior = {}, ![r].found = {}, ![r].pc = step]
    BY DEF Judge
  <2>2. reqs \in [Requests -> Reqs]
    BY DEF IInv, TypeOK
  <2> HIDE DEF status, moved, step
  <2> QED
    BY <1>3, <2>1, <2>2 DEF Reqs
<1>7. moved \in BOOLEAN
  OBVIOUS
<1>8. /\ t \in Attempts /\ t.status = status /\ t.moved = moved /\ t.doc = p.try.doc
      /\ t.set = p.try.set /\ t.review = p.try.review
  <2> HIDE DEF status, moved
  <2> QED
    BY <1>3, <1>4, <1>7 DEF Attempts
<1>9. q \in Reqs
  <2>1. step \in Steps
    BY DEF Steps
  <2> HIDE DEF t, step
  <2> QED
    BY <1>3, <1>8, <2>1 DEF Reqs
<1>10. q.pc = step /\ q.from = p.from /\ q.keys = p.keys /\ q.try = t
  <2> HIDE DEF t, step
  <2> QED
    BY <1>3 DEF Reqs
<1>11. Holds(q) /\ q.pc \in Concluded /\ q.pc # "insert"
  BY <1>10 DEF Holds, Concluded
<1>12. status = "PASS" /\ ~moved => docs[p.try.doc].set = p.try.review
  <2> SUFFICES ASSUME status = "PASS", ~moved PROVE docs[p.try.doc].set = p.try.review
    OBVIOUS
  <2>1. cand = p.try.set /\ p.try.review = p.try.set
    BY <1>1, <1>3 DEF Fine, AboutReview
  <2>2. p.try.set <= docs[p.try.doc].set
    BY <1>2, <1>3 DEF Fine, NotOlder, Lows
  <2>3. docs[p.try.doc].set <= cand /\ docs[p.try.doc].set \in Nat /\ cand \in Nat
    BY <1>3, Files DEF IInv, Rendered, Doc
  <2> QED
    BY <2>1, <2>2, <2>3
<1>13. SoundFile(q, docs)
  <2>1. status = "PASS" => Sound(docs[p.try.doc])
    BY <1>1, <1>3, <1>4 DEF Fine, SoundFile
  <2>2. q.pc \in {"package", "record"} /\ (q.pc = "package" => status = "PASS")
    BY <1>10
  <2> HIDE DEF q, t
  <2> QED
    BY <1>8, <1>10, <2>1, <2>2 DEF SoundFile
<1>14. Fine(q, cand, docs, Len(attempts))
  <2> HIDE DEF q, t, step, status, moved
  <2>1. Unjudged(q)
    BY <1>11 DEF Unjudged
  <2> QED
    BY <1>2, <1>8, <1>10, <1>11, <1>12, <1>13, <2>1, HeldOn
<1> QED
  BY <1>5, <1>9, <1>14, QuietMove DEF Judge

\* A package is made of a sound file only, and may be handed out.
LEMMA PackageStep == ASSUME IInv, NEW r \in Requests, Package(r) PROVE IInv'
<1> DEFINE p == reqs[r]
           d == Doc(r)
           z == [pdf |-> pdf[d], stamp |-> stamp[d]]
           e == [doc |-> d, zip |-> z]
           k == p.keys.package
           q == [p EXCEPT !.pc = "record"]
<1>1. p.pc = "package"
  BY DEF Package, At
<1>2. Holds(p) /\ p.pc # "insert"
  BY <1>1 DEF Holds
<1>3. /\ p \in Reqs /\ p.try \in Attempts /\ Fine(p, cand, docs, Len(attempts)) /\ d \in DOMAIN docs
      /\ d \in DocIds
  BY <1>2, Held
<1>4. /\ cand' = cand /\ docs' = docs /\ attempts' = attempts
      /\ UNCHANGED <<ledger, runs, pdf, stamp, sighted, cleared>> /\ UNCHANGED world
  BY DEF Package, world
<1>5. Sound(docs[d]) /\ z \in Zips
  BY <1>1, <1>3 DEF Fine, SoundFile, Zips, IInv, TypeOK, Doc
<1>6. e \in Entries /\ k \in Keys /\ k[2] <= docs[d].set /\ p.from <= docs[d].set
  <2>1. e \in Entries
    <3>1. d \in 0 .. MaxDocs
      BY <1>3, DeliveryAssumption DEF DocIds
    <3> QED
      BY <1>5, <3>1 DEF Entries
  <2>2. k[2] \in Lows(p) /\ p.from \in Lows(p)
    BY DEF Lows
  <2> QED
    BY <1>2, <1>3, <2>1, <2>2, Numbers DEF Fine, NotOlder, Doc
<1>7. zip' = zip \/ zip' = [zip EXCEPT ![d] = z]
  BY DEF Package
<1>8. Zipped'
  BY <1>3, <1>4, <1>5, <1>7 DEF IInv, TypeOK, Zipped
<1>9. zip' \in [DocIds -> Zips]
  BY <1>3, <1>5, <1>7 DEF IInv, TypeOK
<1>10. /\ reqs' \in [Requests -> Reqs] /\ Requested' /\ Rendered' /\ Attempted'
       /\ cache' = cache \/ cache' = [cache EXCEPT ![k] = e]
       /\ served' \subseteq {"stale", "blocked"} /\ ServedIsCurrent'
  <2>1. CASE pdf[d] = 0
    BY <1>4, <2>1, EndMove DEF Package, IInv, TypeOK, ServedIsCurrent
  <2>2. CASE pdf[d] # 0 /\ p.kind # "package"
    <3>1. Go(r, "record") /\ cache' = cache /\ served' = served
      BY <2>2 DEF Package
    <3>2. reqs' = [reqs EXCEPT ![r] = q]
      BY <3>1 DEF Go, IInv, TypeOK
    <3>3. q \in Reqs
      <4>1. "record" \in Steps
        BY DEF Steps
      <4> QED
        BY <1>3, <4>1 DEF Reqs
    <3>4. q.pc = "record" /\ q.from = p.from /\ q.keys = p.keys /\ q.try = p.try
      BY <1>3 DEF Reqs
    <3>5. Holds(q) /\ q.pc # "insert" /\ SoundFile(q, docs) /\ Unjudged(q)
      BY <3>4 DEF Holds, Concluded, SoundFile, Unjudged
    <3>6. q.try.status = "PASS" /\ ~q.try.moved => docs[q.try.doc].set = q.try.review
      BY <1>1, <1>3, <3>4 DEF Fine, AboutReview, Concluded
    <3>7. Fine(q, cand, docs, Len(attempts))
      <4> HIDE DEF q
      <4> QED
        BY <1>2, <3>4, <3>5, <3>6, HeldOn
    <3>8. reqs' \in [Requests -> Reqs] /\ Requested' /\ Rendered' /\ Attempted'
      BY <1>4, <3>2, <3>3, <3>7, FileMove
    <3> QED
      BY <3>1, <3>8 DEF IInv, TypeOK, ServedIsCurrent
  <2>3. CASE pdf[d] # 0 /\ p.kind = "package"
    <3>1. cache' = [cache EXCEPT ![k] = e] /\ End(r) /\ Serve(r, d)
      BY <2>3 DEF Package
    <3>2. docs[d].set \in p.from .. cand
      <4>1. p.from \in Nat
        BY <1>3, Numbers DEF Lows
      <4>2. docs[d].set <= cand
        BY <1>3 DEF IInv, Rendered
      <4>3. docs[d].set \in Nat /\ cand \in Nat
        BY <1>3, Files DEF IInv
      <4> QED
        BY <1>6, <4>1, <4>2, <4>3
    <3>3. served' \subseteq {"stale", "blocked"} /\ "stale" \notin served'
      BY <3>1, <3>2 DEF Serve, IInv, TypeOK, ServedIsCurrent
    <3> QED
      BY <1>4, <3>1, <3>3, EndMove DEF ServedIsCurrent
  <2> QED
    BY <2>1, <2>2, <2>3
<1>11. Cached'
  BY SMTT(20), <1>3, <1>4, <1>6, <1>10 DEF IInv, TypeOK, Cached
<1>12. TypeOK'
  <2>1. cache' \in [Keys -> Entries]
    BY <1>6, <1>10 DEF IInv, TypeOK
  <2> QED
    BY <1>4, <1>9, <1>10, <2>1 DEF IInv, TypeOK, world
<1> QED
  BY <1>8, <1>10, <1>11, <1>12 DEF IInv

\* The next version is at most one more than there are attempts.
LEMMA NextVersion ==
    ASSUME IInv,
           NEW top, top = IF attempts = <<>> THEN 0 ELSE attempts[Latest(DOMAIN attempts)].version
    PROVE  top \in Nat /\ top <= Len(attempts) /\ Len(attempts) \in Nat
<1>1. /\ attempts \in Seq(Attempts) /\ Attempted /\ DOMAIN attempts = 1 .. Len(attempts)
      /\ Len(attempts) \in Nat
  BY LenProperties DEF IInv, TypeOK
<1>2. CASE attempts = <<>>
  BY <1>1, <1>2
<1>3. CASE attempts # <<>>
  <2>1. Len(attempts) # 0
    BY <1>1, <1>3, EmptySeq
  <2>2. DOMAIN attempts # {}
    <3>1. Len(attempts) \in Nat /\ DOMAIN attempts = 1 .. Len(attempts)
      BY <1>1
    <3>2. 1 \in 1 .. Len(attempts)
      BY ONLY <2>1, <3>1
    <3> QED
      BY ONLY <3>1, <3>2
  <2>3. Latest(DOMAIN attempts) \in DOMAIN attempts
    BY <1>1, <2>2, LatestIsOne
  <2>4. attempts[Latest(DOMAIN attempts)] \in Attempts
    BY <1>1, <2>3, ElementOfSeq
  <2>5. top \in Nat /\ top <= Latest(DOMAIN attempts)
    BY <1>1, <1>3, <2>3, <2>4 DEF Attempted, Attempts
  <2> QED
    BY <1>1, <2>3, <2>5
<1> QED
  BY <1>2, <1>3

\* The attempt takes its number from those that are there.
LEMMA RecordStep == ASSUME IInv, NEW r \in Requests, Record(r) PROVE IInv'
<1> DEFINE p == reqs[r]
           d == Doc(r)
           top == IF attempts = <<>> THEN 0 ELSE attempts[Latest(DOMAIN attempts)].version
           t1 == [p.try EXCEPT !.pdf = pdf[d], !.stamp = stamp[d], !.zip = zip[d], !.version = top + 1]
           t2 == [NoAttempt EXCEPT !.status = p.try.status, !.set = p.try.set, !.version = top + 1]
           t == IF p.try.status = "PASS" THEN t1 ELSE t2
           q == [p EXCEPT !.pc = "insert", !.try = t]
<1>1. p.pc = "record"
  BY DEF Record, At
<1>2. Holds(p) /\ p.pc # "insert"
  BY <1>1 DEF Holds
<1>3. /\ p \in Reqs /\ p.try \in Attempts /\ Fine(p, cand, docs, Len(attempts))
      /\ d \in DOMAIN docs /\ d \in DocIds
  BY <1>2, Held
<1>4. top + 1 \in Nat /\ top + 1 <= Len(attempts) + 1
  <2>1. top = IF attempts = <<>> THEN 0 ELSE attempts[Latest(DOMAIN attempts)].version
    OBVIOUS
  <2> HIDE DEF top
  <2>2. top \in Nat /\ top <= Len(attempts) /\ Len(attempts) \in Nat
    BY <2>1, NextVersion
  <2> QED
    BY <2>2
<1>5. t1 \in Attempts
  <2>1. pdf[d] \in 0 .. MaxRuns /\ stamp[d] \in 0 .. MaxRuns /\ zip[d] \in Zips
    BY <1>3 DEF IInv, TypeOK
  <2> HIDE DEF top
  <2> QED
    BY <1>3, <1>4, <2>1 DEF Attempts
<1>6. t2 \in Attempts
  <2>1. p.try.status \in Statuses /\ p.try.set \in 0 .. MaxSets
    BY <1>3 DEF Attempts
  <2> HIDE DEF top
  <2> QED
    BY <1>4, <2>1, Blank DEF Attempts
<1>7. /\ t.status = p.try.status /\ t.set = p.try.set /\ t.version = top + 1
      /\ p.try.status = "PASS" => t.doc = p.try.doc /\ t.moved = p.try.moved /\ t.review = p.try.review
  <2> HIDE DEF top
  <2>1. t1.status = p.try.status /\ t1.set = p.try.set /\ t1.version = top + 1
        /\ t1.doc = p.try.doc /\ t1.moved = p.try.moved /\ t1.review = p.try.review
    BY <1>3 DEF Attempts
  <2>2. t2.status = p.try.status /\ t2.set = p.try.set /\ t2.version = top + 1
    BY DEF NoAttempt
  <2> QED
    BY <2>1, <2>2
<1>8. q \in Reqs
  <2>1. "insert" \in Steps /\ t \in Attempts
    BY <1>5, <1>6 DEF Steps
  <2> HIDE DEF t
  <2> QED
    BY <1>3, <2>1 DEF Reqs
<1>9. q.pc = "insert" /\ q.try = t /\ q.from = p.from /\ q.keys = p.keys
  <2> HIDE DEF t
  <2> QED
    BY <1>3 DEF Reqs
<1>10. Fine(q, cand, docs, Len(attempts))
  <2> HIDE DEF t, q, top
  <2>1. Lows(q) = Lows(p)
    BY <1>7, <1>9 DEF Lows
  <2>2. Holds(q) => q.try.doc = p.try.doc
    BY <1>7, <1>9 DEF Holds
  <2>3. HoldsFile(q, docs)
    BY <1>3, <2>2 DEF HoldsFile, Doc
  <2>4. NotOlder(q, cand, docs)
    BY <1>2, <1>3, <1>9, <2>1, <2>2 DEF Fine, NotOlder
  <2>5. AboutReview(q, docs)
    BY <1>1, <1>3, <1>7, <1>9 DEF Fine, AboutReview, Concluded
  <2>6. Numbered(q, Len(attempts))
    BY <1>4, <1>7, <1>9 DEF Numbered
  <2> QED
    BY <1>9, <2>3, <2>4, <2>5, <2>6 DEF Fine, LooksNow, SoundFile, Unjudged, Concluded
<1>11. CASE End(r)
  BY <1>11, QuietEnd DEF Record
<1>12. CASE ~End(r)
  <2>1. reqs' = [reqs EXCEPT ![r].pc = "insert", ![r].try = t]
    BY <1>12 DEF Record
  <2>2. reqs' = [reqs EXCEPT ![r] = q]
    <3> HIDE DEF t
    <3> QED
      BY <2>1 DEF IInv, TypeOK
  <2> QED
    BY <1>8, <1>10, <2>2, QuietMove DEF Record
<1> QED
  BY <1>11, <1>12

\* The attempt is inserted under that number.
LEMMA InsertStep == ASSUME IInv, NEW r \in Requests, Insert(r) PROVE IInv'
<1> DEFINE p == reqs[r]
           n == Len(attempts)
<1>1. /\ p \in Reqs /\ Fine(p, cand, docs, n) /\ p.pc = "insert" /\ p.try \in Attempts
  BY DEF IInv, TypeOK, Requested, Insert, At, Reqs
<1>2. /\ cand' = cand /\ docs' = docs /\ cache' = cache /\ zip' = zip /\ served' = served
      /\ attempts' = Append(attempts, p.try) /\ reqs' = [reqs EXCEPT ![r] = Idle]
      /\ UNCHANGED <<ledger, runs>> /\ UNCHANGED world /\ UNCHANGED files /\ UNCHANGED history
  BY DEF Insert, End, world, files, history
<1>3. /\ attempts \in Seq(Attempts) /\ n \in Nat /\ DOMAIN attempts = 1 .. n /\ cand \in Nat
  BY LenProperties, Files DEF IInv, TypeOK
<1>4. /\ attempts' \in Seq(Attempts) /\ Len(attempts') = n + 1 /\ attempts'[n + 1] = p.try
      /\ \A i \in 1 .. n : attempts'[i] = attempts[i]
  BY <1>1, <1>2, <1>3, AppendProperties
<1>5. DOMAIN attempts' = 1 .. n + 1
  BY <1>4, LenProperties
<1>6. Attempted'
  <2> SUFFICES ASSUME NEW i \in 1 .. n + 1
               PROVE  LET a == attempts'[i] IN
                        /\ a.version <= i
                        /\ a.status = "PASS" => a.doc \in DOMAIN docs
                        /\ a.status = "PASS" /\ ~a.moved => docs[a.doc].set = a.review
    BY <1>2, <1>5 DEF Attempted
  <2>1. CASE i \in 1 .. n
    BY <1>3, <1>4, <2>1 DEF IInv, Attempted
  <2>2. CASE i = n + 1
    <3>1. p.try.version <= n + 1
      BY <1>1 DEF Fine, Numbered
    <3>2. p.try.status = "PASS" => p.try.doc \in DOMAIN docs
      BY <1>1 DEF Fine, HoldsFile, Holds
    <3>3. p.try.status = "PASS" /\ ~p.try.moved => docs[p.try.doc].set = p.try.review
      BY <1>1 DEF Fine, AboutReview, Concluded
    <3> QED
      BY <1>4, <2>2, <3>1, <3>2, <3>3
  <2> QED
    BY <1>3, <2>1, <2>2
<1>7. reqs' \in [Requests -> Reqs] /\ Requested'
  <2>1. reqs' \in [Requests -> Reqs] /\ reqs'[r] = Idle /\ \A o \in Requests : o # r => reqs'[o] = reqs[o]
    BY <1>2, Blank DEF IInv, TypeOK
  <2>2. Extends(docs, docs')
    BY <1>2 DEF Extends
  <2>3. Fine(Idle, cand', docs', Len(attempts')) /\ Len(attempts) <= Len(attempts') /\ Len(attempts') \in Nat
    BY <1>2, <1>3, <1>4, IdleFine
  <2> QED
    BY <1>2, <1>3, <2>1, <2>2, <2>3, Move DEF IInv
<1>8. TypeOK'
  BY <1>2, <1>4, <1>7 DEF IInv, TypeOK, world, files, history
<1> QED
  BY <1>2, <1>6, <1>7, <1>8 DEF IInv, Rendered, Cached, Zipped, ServedIsCurrent

\* The reads that only decide where a request goes on.
LEMMA LookAround ==
    ASSUME IInv, NEW r \in Requests,
           Reuse(r) \/ ReuseUnblocked(r) \/ CheckOwners(r) \/ CheckGates(r) \/ Fault(r)
    PROVE  IInv'
<1>1. Quiet
  BY DEF Reuse, ReuseUnblocked, CheckOwners, CheckGates, Fault
<1>2. CASE End(r)
  BY <1>1, <1>2, QuietEnd
<1>3. CASE ~End(r)
  <2>1. reqs[r].pc \in {"reuse", "unblocked", "owners", "gates"}
    BY <1>3 DEF Reuse, ReuseUnblocked, CheckOwners, CheckGates, Fault, At
  <2>2. PICK s \in {"unblocked", "snapshot", "preserve", "render"} : Go(r, s)
    BY <1>3 DEF Reuse, ReuseUnblocked, CheckOwners, CheckGates, Fault
  <2>3. s \in Steps
    BY DEF Steps
  <2>4. reqs[r].pc # "admit" /\ reqs[r].pc \notin Concluded
    BY <2>1 DEF Concluded
  <2> QED
    BY <1>1, <2>2, <2>3, <2>4, QuietGo
<1> QED
  BY <1>2, <1>3

\* The event loop and the engineers only add candidates to what requests work on.
LEMMA WorldStep ==
    ASSUME IInv, Rewrite \/ ReviewFullText \/ ChangeGates \/ Close \/ FixRenderer
    PROVE  IInv'
<1>1. Background
  BY DEF Rewrite, ReviewFullText, ChangeGates, Close, FixRenderer
<1>2. /\ docs' = docs /\ attempts' = attempts /\ reqs' = reqs /\ cache' = cache /\ zip' = zip
      /\ served' = served
  BY <1>1 DEF Background, files
<1>3. cand \in Nat /\ MaxSets \in Nat /\ MaxGates \in Nat /\ Len(attempts) \in Nat
  BY Files, LenProperties, DeliveryAssumption DEF IInv, TypeOK
<1>4. cand' \in Sets /\ cand <= cand' /\ cand' \in Nat
  BY <1>3 DEF Rewrite, ReviewFullText, ChangeGates, Close, FixRenderer, IInv, TypeOK, Sets
<1>5. reviewed' \in Sets /\ gate' \in 0 .. MaxGates /\ broken' \in BOOLEAN
  <2>1. reviewed' \in {reviewed, cand} /\ broken' \in {broken, FALSE}
    BY DEF Rewrite, ReviewFullText, ChangeGates, Close, FixRenderer
  <2>2. (gate' = gate) \/ (gate < MaxGates /\ gate' = gate + 1)
    BY DEF Rewrite, ReviewFullText, ChangeGates, Close, FixRenderer
  <2>3. gate' \in 0 .. MaxGates
    BY <1>3, <2>2 DEF IInv, TypeOK
  <2> QED
    BY <2>1, <2>3 DEF IInv, TypeOK
<1>6. ledger' \in [Findings -> {"NONE", "OPEN", "REPAIR_RECORDED", "VERIFIED"}]
  BY DEF Rewrite, ReviewFullText, ChangeGates, Close, FixRenderer, IInv, TypeOK, Findings
<1>7. TypeOK'
  BY <1>1, <1>4, <1>5, <1>6 DEF IInv, TypeOK, Background, files
<1>8. Requested'
  <2>1. Extends(docs, docs')
    BY <1>2 DEF Extends
  <2> SUFFICES ASSUME NEW r \in Requests PROVE Fine(reqs[r], cand', docs', Len(attempts'))
    BY <1>2 DEF Requested
  <2> QED
    BY <1>2, <1>3, <1>4, <2>1, Kept DEF IInv, TypeOK, Requested
<1>9. Rendered'
  <2>1. \A d \in DOMAIN docs : docs[d].set \in Nat /\ docs[d].set <= cand
    BY Files DEF IInv, Rendered
  <2> QED
    BY <1>2, <1>3, <1>4, <2>1 DEF Rendered
<1> QED
  BY <1>2, <1>7, <1>8, <1>9 DEF IInv, Cached, Zipped, Attempted, ServedIsCurrent

\* No thread survives a crash.
LEMMA CrashStep == ASSUME IInv, Crash PROVE IInv'
<1>1. reqs' = [r \in Requests |-> Idle] /\ Quiet
  BY DEF Crash
<1>2. /\ cand' = cand /\ docs' = docs /\ attempts' = attempts /\ cache' = cache /\ zip' = zip
      /\ served' = served
  BY <1>1 DEF Quiet, world, files, history
<1>3. TypeOK'
  BY <1>1, Blank DEF IInv, TypeOK, Quiet, world, files, history
<1>4. Requested'
  <2>1. cand' \in Nat /\ Len(attempts') \in Nat
    BY <1>2, Files, LenProperties DEF IInv, TypeOK
  <2> QED
    BY <1>1, <2>1, IdleFine DEF Requested
<1> QED
  BY <1>2, <1>3, <1>4 DEF IInv, Rendered, Cached, Zipped, Attempted, ServedIsCurrent
-----------------------------------------------------------------------------
(* Theorems                                                                 *)

\* In the beginning there are no files, and all requests are idle.
LEMMA InitInv == Init => IInv
<1> SUFFICES ASSUME Init PROVE IInv
  OBVIOUS
<1>1. MaxSets \in Nat \ {0} /\ MaxGates \in Nat \ {0} /\ MaxDocs \in Nat /\ MaxRuns \in Nat
  BY DeliveryAssumption
<1>2. docs = <<>> /\ attempts = <<>> /\ DOMAIN docs = {} /\ DOMAIN attempts = {} /\ Len(docs) = 0
      /\ cand = 1 /\ served = {}
  BY DEF Init
<1>3. TypeOK
  <2>1. docs \in Seq([set : Sets, broken : BOOLEAN]) /\ Len(docs) <= MaxDocs
    BY <1>1, <1>2, EmptySeq
  <2>2. attempts \in Seq(Attempts)
    BY <1>2, EmptySeq
  <2>3. pdf \in [DocIds -> 0 .. MaxRuns] /\ stamp \in [DocIds -> 0 .. MaxRuns]
    BY <1>1 DEF Init
  <2>4. zip \in [DocIds -> Zips] /\ cache \in [Keys -> Entries]
    BY <1>1 DEF Init, NoZip, Zips, NoEntry, Entries
  <2>5. reqs \in [Requests -> Reqs]
    BY Blank DEF Init
  <2>6. cand \in Sets /\ reviewed \in Sets /\ gate \in 0 .. MaxGates
    BY <1>1 DEF Init, Sets
  <2>7. /\ ledger \in [Findings -> {"NONE", "OPEN", "REPAIR_RECORDED", "VERIFIED"}]
        /\ broken \in BOOLEAN /\ runs \in 0 .. MaxRuns
        /\ sighted \in 0 .. MaxDocs /\ cleared \in 0 .. MaxDocs
    BY <1>1 DEF Init
  <2> QED
    BY <1>2, <2>1, <2>2, <2>3, <2>4, <2>5, <2>6, <2>7 DEF TypeOK
<1>4. Rendered /\ Attempted /\ ServedIsCurrent
  BY <1>2 DEF Rendered, Attempted, ServedIsCurrent
<1>5. Cached /\ Zipped
  BY DEF Init, Cached, Zipped, NoEntry
<1>6. Requested
  <2>1. cand \in Nat /\ Len(attempts) \in Nat
    BY <1>2, EmptySeq
  <2> QED
    BY <2>1, IdleFine DEF Init, Requested
<1> QED
  BY <1>3, <1>4, <1>5, <1>6 DEF IInv

\* Whatever overlaps, fails or dies: files, cache, packages and attempts fit the
\* candidates they are about.
THEOREM Inductive == Spec => []IInv
<1>1. IInv /\ [Next]_vars => IInv'
  <2> SUFFICES ASSUME IInv, [Next]_vars PROVE IInv'
    OBVIOUS
  <2>1. CASE Rewrite \/ ReviewFullText \/ ChangeGates \/ Close \/ FixRenderer
    BY <2>1, WorldStep
  <2>2. ASSUME NEW r \in Requests, Request(r) PROVE IInv'
    BY <2>2, ReceiveStep, LookAround, SnapshotStep, AdmitStep, PriorStep, TakeKeyStep, LookStep,
       AuthorizeStep, RenderStep, SaveStep, ConvertStep, ConvertedStep, InspectStep, LedgerStep,
       JudgeStep, PackageStep, RecordStep, InsertStep DEF Request
  <2>3. CASE Crash
    BY <2>3, CrashStep
  <2>4. CASE UNCHANGED vars
    BY <2>4 DEF vars, IInv, TypeOK, Rendered, Cached, Zipped, Attempted, Requested, ServedIsCurrent
  <2> QED
    BY <2>1, <2>2, <2>3, <2>4 DEF Next
<1> QED
  BY InitInv, <1>1, PTL DEF Spec

\* The variables have their types.
THEOREM DeliveryTyped == Spec => []TypeOK
<1>1. IInv => TypeOK
  BY DEF IInv
<1> QED
  BY <1>1, Inductive, PTL

\* Nothing is handed out that is older than the request it answers.
THEOREM DeliveryServesCurrent == Spec => []ServedIsCurrent
<1>1. IInv => ServedIsCurrent
  BY DEF IInv
<1> QED
  BY <1>1, Inductive, PTL

\* No package has a file with a defect.
THEOREM DeliveryPackagesClean == Spec => []PackagesAreClean
<1>1. IInv => PackagesAreClean
  BY DEF IInv, Zipped, Sound, PackagesAreClean
<1> QED
  BY <1>1, Inductive, PTL

\* A PASS is about reviewed candidates.
THEOREM DeliveryPassesReviewed == Spec => []PassIsReviewed
<1>1. IInv => PassIsReviewed
  BY DEF IInv, Attempted, PassIsReviewed, Passed
<1> QED
  BY <1>1, Inductive, PTL
=============================================================================
