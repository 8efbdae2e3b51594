------------------------- MODULE PublicResearchProofs -------------------------
(***************************************************************************)
(* What leaves in the hybrid research workflow, and what its claims rest   *)
(* on, for any texts, plans, search results and claims.                    *)
(***************************************************************************)
EXTENDS PublicResearch, FiniteSetTheorems, TLAPS

\* A catalogue is a sequence of records of candidates with an address.
Archivable == {Record(f) : f \in {g \in Found : g.url # ""}}
IsCatalog(records) == records \in Seq(Archivable)

\* The steps at which claims were validated, and the archive they were validated against.
Standing == {"CRITIC", "IMPORT", "IMPORT_GATE", "COMPLETED"}
Archive == IsCatalog(results.catalog) /\ Verified(results.catalog, files)

IInv ==
    /\ NothingPrivateSent
    /\ step \in {"SYNTHESIS"} \cup Standing => Archive
    /\ step \in Standing => SynthesisFindings(synthesis) = {}
-----------------------------------------------------------------------------
(* Positions in a sequence                                                  *)

\* A set of natural numbers has a least one.
LEMMA Least ==
    ASSUME NEW S \in SUBSET Nat, S # {}
    PROVE  \E x \in S : \A y \in S : x <= y
<1> DEFINE Below == OpToRel(<, Nat)
<1>1. PICK x \in S : \A y \in S : <<y, x>> \notin Below
  <2> HIDE DEF Below
  <2>1. IsWellFoundedOn(Below, Nat)
    BY NatLessThanWellFounded DEF Below
  <2> QED
    BY <2>1, WFMin
<1>2. S \subseteq Nat
  OBVIOUS
<1>3. \A y \in S : ~(y < x)
  BY <1>1, <1>2 DEF OpToRel
<1> QED
  BY <1>2, <1>3

\* Among some positions of a sequence there is a last one.
LEMMA LatestIsLast ==
    ASSUME NEW n \in Nat, NEW I \in SUBSET (1 .. n), I # {}
    PROVE  Latest(I) \in I /\ \A j \in I : j <= Latest(I)
<1> DEFINE Bounds == {m \in Nat : \A i \in I : i <= m}
<1>1. n \in Bounds
  OBVIOUS
<1>2. PICK m \in Bounds : \A k \in Bounds : m <= k
  <2> HIDE DEF Bounds
  <2>1. Bounds \subseteq Nat
    BY DEF Bounds
  <2> QED
    BY <1>1, <2>1, Least
<1>3. m \in I
  <2> SUFFICES ASSUME m \notin I PROVE FALSE
    OBVIOUS
  <2>1. m \in Nat /\ \A i \in I : i \in Nat /\ i <= m /\ i # m /\ i >= 1
    BY <1>2
  <2>2. m # 0
    <3>1. PICK i \in I : TRUE
      OBVIOUS
    <3> QED
      BY <2>1, <3>1
  <2>3. m - 1 \in Nat /\ \A i \in I : i <= m - 1
    BY ONLY <2>1, <2>2
  <2>4. m - 1 \in Bounds /\ ~(m <= m - 1)
    BY <2>1, <2>3
  <2> QED
    BY <2>4, <1>2
<1> QED
  BY <1>2, <1>3 DEF Latest

\* Some positions of a sequence that are no later than m.
UpTo(I, m) == {j \in I : j <= m}

\* Their number grows by one at each position that is in, and stands at the others.
LEMMA UpToNext ==
    ASSUME NEW n \in Nat, NEW I \in SUBSET (1 .. n)
    PROVE  /\ UpTo(I, 0) = {} /\ UpTo(I, n) = I
           /\ \A m \in Nat :
                 /\ Cardinality(UpTo(I, m)) \in Nat
                 /\ m + 1 \in I => Cardinality(UpTo(I, m + 1)) = Cardinality(UpTo(I, m)) + 1
                 /\ m + 1 \notin I => UpTo(I, m + 1) = UpTo(I, m)
<1>0. \A j \in I : j \in Nat /\ j >= 1 /\ j <= n
  OBVIOUS
<1>1. ASSUME NEW m \in Nat PROVE IsFiniteSet(UpTo(I, m)) /\ Cardinality(UpTo(I, m)) \in Nat
  <2>1. IsFiniteSet(1 .. n)
    BY FS_Interval
  <2>2. UpTo(I, m) \subseteq 1 .. n
    BY DEF UpTo
  <2>3. IsFiniteSet(UpTo(I, m))
    BY <2>1, <2>2, FS_Subset
  <2> QED
    BY <2>3, FS_CardinalityType
<1>2. ASSUME NEW m \in Nat, m + 1 \in I PROVE Cardinality(UpTo(I, m + 1)) = Cardinality(UpTo(I, m)) + 1
  <2>1. m + 1 \notin UpTo(I, m)
    BY DEF UpTo
  <2>2. \A j \in I : j <= m + 1 <=> j <= m \/ j = m + 1
    BY <1>0
  <2>3. UpTo(I, m + 1) = UpTo(I, m) \cup {m + 1}
    BY <1>2, <2>2 DEF UpTo
  <2> QED
    BY <1>1, <2>1, <2>3, FS_AddElement
<1>3. ASSUME NEW m \in Nat, m + 1 \notin I PROVE UpTo(I, m + 1) = UpTo(I, m)
  <2>1. \A j \in I : j <= m + 1 <=> j <= m
    BY <1>0, <1>3
  <2> QED
    BY <2>1 DEF UpTo
<1>4. UpTo(I, 0) = {}
  <2>1. \A j \in I : ~(j <= 0)
    BY <1>0
  <2> QED
    BY <2>1 DEF UpTo
<1>5. UpTo(I, n) = I
  <2>1. UpTo(I, n) \subseteq I
    BY DEF UpTo
  <2>2. I \subseteq UpTo(I, n)
    BY <1>0 DEF UpTo
  <2> QED
    BY <2>1, <2>2
<1> QED
  BY <1>1, <1>2, <1>3, <1>4, <1>5

\* There is a k-th among at least k positions.
LEMMA NthIsOne ==
    ASSUME NEW n \in Nat, NEW I \in SUBSET (1 .. n), NEW k \in 1 .. Cardinality(I)
    PROVE  Nth(I, k) \in I
<1> DEFINE Enough == {m \in Nat : Cardinality(UpTo(I, m)) >= k}
<1>0. UpTo(I, n) = I /\ UpTo(I, 0) = {} /\ Cardinality(UpTo(I, n)) \in Nat
  BY UpToNext
<1>1. Cardinality(I) \in Nat /\ k \in Nat /\ k >= 1 /\ k <= Cardinality(I)
  BY <1>0
<1>2. n \in Enough
  BY <1>0, <1>1
<1>3. PICK m \in Enough : \A l \in Enough : m <= l
  <2> HIDE DEF Enough
  <2>1. Enough \subseteq Nat
    BY DEF Enough
  <2> QED
    BY <1>2, <2>1, Least
<1>4. m # 0
  <2>1. Cardinality(UpTo(I, 0)) = 0
    BY <1>0, FS_EmptySet
  <2> QED
    BY <1>1, <1>3, <2>1
<1> DEFINE p == m - 1
<1>5. p \in Nat /\ m = p + 1 /\ p \notin Enough
  BY <1>3, <1>4
<1>51. \A q \in Nat :
          /\ Cardinality(UpTo(I, q)) \in Nat
          /\ q + 1 \in I => Cardinality(UpTo(I, q + 1)) = Cardinality(UpTo(I, q)) + 1
          /\ q + 1 \notin I => UpTo(I, q + 1) = UpTo(I, q)
  BY UpToNext
<1>6. Cardinality(UpTo(I, p)) < k /\ Cardinality(UpTo(I, p)) \in Nat
  BY <1>1, <1>5, <1>51
<1>7. m \in I /\ Cardinality(UpTo(I, m)) = k
  <2> HIDE DEF p
  <2>1. Cardinality(UpTo(I, m)) >= k
    BY <1>3
  <2>2. m \in I
    <3> SUFFICES ASSUME m \notin I PROVE FALSE
      OBVIOUS
    <3>1. UpTo(I, m) = UpTo(I, p)
      BY <1>5, <1>51
    <3> QED
      BY <1>1, <1>6, <2>1, <3>1
  <2>3. Cardinality(UpTo(I, m)) = Cardinality(UpTo(I, p)) + 1
    BY <1>5, <1>51, <2>2
  <2> QED
    BY <1>1, <1>6, <2>1, <2>2, <2>3
<1> QED
  BY <1>7 DEF Nth, UpTo

\* What is chosen from a sequence is a sequence of what stands at the chosen positions.
LEMMA ChosenThere ==
    ASSUME NEW S, NEW s \in Seq(S), NEW I \in SUBSET DOMAIN s,
           NEW T, \A i \in I : s[i] \in T
    PROVE  Chosen(s, I) \in Seq(T)
<1> DEFINE n == Len(s)
<1>1. n \in Nat /\ I \in SUBSET (1 .. n)
  OBVIOUS
<1>2. Cardinality(I) \in Nat
  <2> HIDE DEF n
  <2>1. UpTo(I, n) = I /\ Cardinality(UpTo(I, n)) \in Nat
    BY <1>1, UpToNext
  <2> QED
    BY <2>1
<1>3. \A k \in 1 .. Cardinality(I) : s[Nth(I, k)] \in T
  <2> TAKE k \in 1 .. Cardinality(I)
  <2> HIDE DEF n
  <2>1. Nth(I, k) \in I
    BY <1>1, NthIsOne
  <2> QED
    BY <2>1
<1> DEFINE c == Cardinality(I)
<1>4. Chosen(s, I) = [k \in 1 .. c |-> s[Nth(I, k)]]
  BY DEF Chosen
<1> HIDE DEF c
<1>5. c \in Nat /\ \A k \in 1 .. c : s[Nth(I, k)] \in T
  BY <1>2, <1>3 DEF c
<1>6. [k \in 1 .. c |-> s[Nth(I, k)]] \in [1 .. c -> T]
  BY <1>5
<1> QED
  BY <1>4, <1>5, <1>6
-----------------------------------------------------------------------------
(* The archive                                                              *)

\* What a search finds is a sequence of candidates.
LEMMA AnswersAreFound ==
    ASSUME NEW found \in Answers
    PROVE  found \in Seq(Found)
<1>1. PICK n \in 0 .. MaxFound : found \in [1 .. n -> Found]
  BY DEF Answers
<1>2. n \in Nat
  BY BoundsAssumption DEF BoundsAssumption
<1> QED
  BY <1>1, <1>2

\* run archives candidates with an address only.
LEMMA ArchivedIsCatalog ==
    ASSUME NEW found \in Seq(Found)
    PROVE  IsCatalog(Archived(found))
<1> DEFINE fit == {i \in DOMAIN found :
                      /\ found[i].fit /\ found[i].url # ""
                      /\ \A j \in 1 .. (i - 1) : found[j].url # found[i].url}
           I == {i \in fit : Cardinality({j \in fit : j < i}) < MaxResults}
           T == {g \in Found : g.url # ""}
           chosen == Chosen(found, I)
<1>1. I \in SUBSET DOMAIN found
  OBVIOUS
<1>2. \A i \in I : found[i] \in T
  <2>1. \A i \in DOMAIN found : found[i] \in Found
    OBVIOUS
  <2> QED
    BY <2>1
<1>3. Archived(found) = [k \in DOMAIN chosen |-> Record(chosen[k])]
  BY DEF Archived
<1> HIDE DEF I, T
<1>4. chosen \in Seq(T)
  BY <1>1, <1>2, ChosenThere
<1> HIDE DEF chosen
<1>5. PICK n \in Nat : DOMAIN chosen = 1 .. n /\ \A k \in 1 .. n : chosen[k] \in T
  BY <1>4
<1>6. \A k \in 1 .. n : Record(chosen[k]) \in Archivable
  BY <1>5 DEF Archivable, T
<1>7. [k \in 1 .. n |-> Record(chosen[k])] \in [1 .. n -> Archivable]
  BY <1>6
<1> QED
  BY <1>3, <1>5, <1>7 DEF IsCatalog

\* So does the archive that is kept of it: deduplicated before, and by text after.
LEMMA KeptIsCatalog ==
    ASSUME NEW found \in Answers
    PROVE  IsCatalog(Upgraded(Archived(Deduplicated(found))))
<1>1. found \in Seq(Found)
  BY AnswersAreFound
<1>2. Deduplicated(found) \in Seq(Found)
  <2> DEFINE I == {i \in DOMAIN found : ~Known(found, i)}
  <2>1. I \in SUBSET DOMAIN found /\ \A i \in I : found[i] \in Found
    BY <1>1
  <2>2. Deduplicated(found) = Chosen(found, I)
    BY DEF Deduplicated
  <2> HIDE DEF I
  <2> QED
    BY <1>1, <2>1, <2>2, ChosenThere
<1> DEFINE records == Archived(Deduplicated(found))
<1>3. records \in Seq(Archivable)
  BY <1>2, ArchivedIsCatalog DEF IsCatalog
<1> HIDE DEF records
<1>4. Upgraded(records) \in Seq(Archivable)
  <2> DEFINE I == DOMAIN records \ Repeated(records)
  <2>1. I \in SUBSET DOMAIN records /\ \A i \in I : records[i] \in Archivable
    BY <1>3
  <2>2. Upgraded(records) = Chosen(records, I)
    BY DEF Upgraded
  <2> HIDE DEF I
  <2> QED
    BY <1>3, <2>1, <2>2, ChosenThere
<1> QED
  BY <1>4 DEF records, IsCatalog

\* The record an id is looked up at is one of the catalogue, and has that id.
LEMMA SourceIsRecord ==
    ASSUME IsCatalog(results.catalog), NEW id \in Catalogued
    PROVE  Source(id) \in Elements(results.catalog) /\ Source(id).id = id
<1> DEFINE s == results.catalog
           I == Of(s, id)
<1>1. PICK n \in Nat : DOMAIN s = 1 .. n
  BY DEF IsCatalog
<1>2. I \in SUBSET (1 .. n)
  BY <1>1 DEF Of
<1>3. I # {}
  BY DEF Catalogued, Elements, Of
<1>4. Latest(I) \in I
  <2> HIDE DEF I
  <2> QED
    BY <1>2, <1>3, LatestIsLast
<1>5. Latest(I) \in DOMAIN s /\ s[Latest(I)].id = id
  <2> HIDE DEF s
  <2> DEFINE l == Latest(I)
  <2>1. l \in Of(s, id)
    BY <1>4
  <2> HIDE DEF l
  <2>2. l \in DOMAIN s /\ s[l].id = id
    BY <2>1 DEF Of
  <2> QED
    BY <2>2 DEF l
<1>6. Source(id) = s[Latest(I)]
  BY DEF Source
<1> HIDE DEF I, s
<1>7. Source(id) \in Elements(s)
  BY <1>5, <1>6 DEF Elements
<1> QED
  BY <1>5, <1>6, <1>7 DEF s
-----------------------------------------------------------------------------
(* Inductiveness                                                            *)

\* It holds in the beginning: nothing has been sent, and no step needs an archive.
THEOREM InitInv == Init => IInv
BY DEF Init, IInv, NothingPrivateSent, Standing

\* A step that leaves the archive and the claims alone keeps what holds of them.
LEMMA ArchiveKept ==
    ASSUME UNCHANGED <<results, files>>, Archive
    PROVE  Archive'
BY DEF Archive, IsCatalog, Verified, Elements

\* What the findings on claims depend on is the claims and the catalogue.
LEMMA FindingsKept ==
    ASSUME UNCHANGED results, NEW s
    PROVE  SynthesisFindings(s)' = SynthesisFindings(s)
<1>1. \A d : Covered(d)' <=> Covered(d)
  BY DEF Covered
<1>2. Catalogued' = Catalogued
  BY DEF Catalogued
<1>3. \A id : Source(id)' = Source(id)
  BY DEF Source
<1>4. \A ref : RefFindings(ref)' = RefFindings(ref)
  BY <1>2, <1>3 DEF RefFindings
<1>5. \A c : ClaimFindings(c)' = ClaimFindings(c)
  BY <1>1, <1>4 DEF ClaimFindings
<1> QED
  BY <1>2, <1>5 DEF SynthesisFindings

\* Claims without findings stay so while they and the catalogue stay.
LEMMA ClaimsKept ==
    ASSUME UNCHANGED <<results, synthesis>>, SynthesisFindings(synthesis) = {}
    PROVE  (SynthesisFindings(synthesis) = {})'
BY FindingsKept

\* Claims that were validated against the catalogue that stays.
LEMMA ClaimsReplaced ==
    ASSUME NEW s, synthesis' = s, UNCHANGED results, SynthesisFindings(s) = {}
    PROVE  (SynthesisFindings(synthesis) = {})'
BY FindingsKept

\* The steps of the workflow.
LEMMA StepInv ==
    ASSUME IInv, [Next]_vars
    PROVE  IInv'
<1> USE DEF Standing
<1>1. CASE UNCHANGED vars
  <2>1. UNCHANGED <<step, results, files, synthesis, sent>>
    BY <1>1 DEF vars
  <2> QED
    BY <2>1, ArchiveKept, ClaimsKept DEF IInv, NothingPrivateSent
<1>2. ASSUME NEW words \in Packages, Package(words) PROVE IInv'
  <2>1. UNCHANGED sent /\ step' \in {"PACKAGE_CRITIC", "PACKAGE", "BLOCKED"}
    BY <1>2 DEF Package
  <2> QED
    BY <2>1 DEF IInv, NothingPrivateSent
<1>3. ASSUME ReviewPackage PROVE IInv'
  <2>1. UNCHANGED sent /\ step' \in {"OUTBOUND", "PACKAGE_CRITIC", "BLOCKED"}
    BY <1>3 DEF ReviewPackage, Verdict
  <2> QED
    BY <2>1 DEF IInv, NothingPrivateSent
<1>4. ASSUME NEW approved \in BOOLEAN, Decide(approved) PROVE IInv'
  <2>1. /\ UNCHANGED <<results, files, synthesis, sent>>
        /\ step' \in {"BLOCKED", "PLAN"} \/ (step = "IMPORT_GATE" /\ step' = "COMPLETED")
    BY <1>4 DEF Decide
  <2> QED
    BY <2>1, ArchiveKept, ClaimsKept DEF IInv, NothingPrivateSent
<1>5. ASSUME NEW p \in Plans, Plan(p) PROVE IInv'
  <2> DEFINE answered == /\ plan' = p /\ step' \in {"SEARCH", "PLAN", "BLOCKED"}
                         /\ UNCHANGED <<synthesis, repaired>>
  <2>1. Online(package, answered)
    BY <1>5 DEF Plan
  <2>2. NothingPrivateSent' /\ step' \in {"SEARCH", "PLAN", "BLOCKED"}
    BY <2>1 DEF IInv, Online, Safe, NothingPrivateSent
  <2> QED
    BY <2>2 DEF IInv
<1>6. ASSUME NEW answered \in SUBSET Searched(plan), NEW found \in Answers,
             Search(answered, found)
      PROVE  IInv'
  <2> DEFINE kept == Upgraded(Archived(Deduplicated(found)))
             disk == Rewritten(Archived(Deduplicated(found)), Saved(Archived(Deduplicated(found))))
  <2>1. IsCatalog(kept)
    BY KeptIsCatalog
  <2>2. UNCHANGED sent
    BY <1>6 DEF Search
  <2>3. \/ step' = "BLOCKED"
        \/ /\ step' = "SYNTHESIS" /\ files' = disk /\ Verified(kept, disk)
           /\ results' = [catalog |-> kept, conflict |-> Conflicting(found)]
    BY <1>6 DEF Search
  <2> HIDE DEF kept, disk
  <2>4. step' = "BLOCKED" \/ (step' = "SYNTHESIS" /\ Archive')
    <3>1. CASE step' = "BLOCKED"
      BY <3>1
    <3>2. CASE step' # "BLOCKED"
      <4>1. step' = "SYNTHESIS" /\ files' = disk /\ results'.catalog = kept /\ Verified(kept, disk)
        BY <2>3, <3>2
      <4> QED
        BY <2>1, <4>1 DEF Archive, IsCatalog, Verified, Elements
    <3> QED
      BY <3>1, <3>2
  <2> QED
    BY <2>2, <2>4 DEF IInv, NothingPrivateSent
<1>7. ASSUME NEW s \in Syntheses, Synthesize(s) PROVE IInv'
  <2>1. step = "SYNTHESIS" /\ UNCHANGED <<results, files>>
    BY <1>7 DEF Synthesize
  <2>2. NothingPrivateSent'
    BY <1>7 DEF IInv, Synthesize, Online, Safe, NothingPrivateSent
  <2>3. \/ step' \in {"SYNTHESIS", "BLOCKED"}
        \/ step' = "CRITIC" /\ synthesis' = s /\ SynthesisFindings(s) = {}
    BY <1>7 DEF Synthesize, Online
  <2>4. step' \in Standing => (SynthesisFindings(synthesis) = {})'
    BY <2>1, <2>3, ClaimsReplaced
  <2> QED
    BY <2>1, <2>2, <2>4, ArchiveKept DEF IInv
<1>8. ASSUME ReviewSynthesis PROVE IInv'
  <2>1. step = "CRITIC" /\ UNCHANGED <<results, files>>
    BY <1>8 DEF ReviewSynthesis
  <2>2. NothingPrivateSent'
    BY <1>8 DEF IInv, ReviewSynthesis, Online, Safe, NothingPrivateSent
  <2>3. step' = "BLOCKED" \/ (step' \in {"CRITIC", "IMPORT"} /\ UNCHANGED synthesis)
    BY <1>8 DEF ReviewSynthesis, Online, Verdict
  <2> QED
    BY <2>1, <2>2, <2>3, ArchiveKept, ClaimsKept DEF IInv
<1>9. ASSUME Import PROVE IInv'
  <2>1. /\ step = "IMPORT" /\ UNCHANGED <<results, files, synthesis, sent>>
        /\ step' \in {"IMPORT_GATE", "IMPORT", "BLOCKED"}
    BY <1>9 DEF Import
  <2> QED
    BY <2>1, ArchiveKept, ClaimsKept DEF IInv, NothingPrivateSent
<1> QED
  BY <1>1, <1>2, <1>3, <1>4, <1>5, <1>6, <1>7, <1>8, <1>9 DEF Next

\* The three properties hold of every reachable state's strengthening.
THEOREM Inductive == Spec => []IInv
<1>1. Init => IInv
  BY InitInv
<1>2. IInv /\ [Next]_vars => IInv'
  BY StepInv
<1> QED
  BY <1>1, <1>2, PTL DEF Spec
-----------------------------------------------------------------------------
(* The properties                                                           *)

\* Findings that are not there say what each claim rests on.
LEMMA NoFindings ==
    ASSUME SynthesisFindings(synthesis) = {}, NEW c \in Elements(synthesis.claims)
    PROVE  /\ \A ref \in c.refs :
                 /\ ref.source \in Catalogued /\ ref.hash = Source(ref.source).raw
                 /\ ref.quote \subseteq Words(Source(ref.source))
           /\ c.innovation => \A d \in Dimensions : Covered(d)
<1> DEFINE s == synthesis
           first == {i \in DOMAIN s.claims :
                        \A j \in 1 .. (i - 1) : s.claims[j].id # s.claims[i].id}
<1>1. PICK i \in DOMAIN s.claims : c = s.claims[i]
  BY DEF Elements
<1>2. /\ (IF first = DOMAIN s.claims THEN {} ELSE {"DUPLICATE_ID"}) = {}
      /\ UNION {ClaimFindings(s.claims[k]) : k \in first} = {}
  BY DEF SynthesisFindings
<1>3. i \in first
  <2> HIDE DEF first
  <2> QED
    BY <1>1, <1>2
<1>4. ClaimFindings(c) = {}
  <2> HIDE DEF first
  <2> QED
    BY <1>1, <1>2, <1>3
<1>5. /\ c.refs # {}
      /\ UNION {RefFindings(ref) : ref \in c.refs} = {}
      /\ (IF c.innovation /\ \E d \in Dimensions : ~Covered(d)
          THEN {"INNOVATION_EVIDENCE_GAP"} ELSE {}) = {}
  <2> DEFINE wrong == IF c.type = "PUBLIC_CLAIM" THEN {} ELSE {"WRONG_TYPE"}
             about == UNION {RefFindings(ref) : ref \in c.refs}
             gap == IF c.innovation /\ \E d \in Dimensions : ~Covered(d)
                    THEN {"INNOVATION_EVIDENCE_GAP"} ELSE {}
             rest == IF c.refs = {} THEN {"NO_EVIDENCE"} ELSE about \cup gap
  <2>1. wrong \cup rest = {}
    <3>1. ClaimFindings(c) = wrong \cup rest
      BY Zenon DEF ClaimFindings
    <3> QED
      BY ONLY <1>4, <3>1
  <2>2. rest = {}
    <3> HIDE DEF wrong, rest
    <3> QED
      BY <2>1
  <2>3. c.refs # {}
    <3> HIDE DEF about, gap
    <3> QED
      BY <2>2
  <2>4. about \cup gap = {}
    <3> HIDE DEF about, gap
    <3> QED
      BY <2>2, <2>3
  <2>5. about = {} /\ gap = {}
    <3> HIDE DEF about, gap
    <3> QED
      BY <2>4
  <2> QED
    BY <2>3, <2>5
<1>6. \A ref \in c.refs : RefFindings(ref) = {}
  BY <1>5
<1>7. ASSUME NEW ref \in c.refs
      PROVE  /\ ref.source \in Catalogued /\ ref.hash = Source(ref.source).raw
             /\ ref.quote \subseteq Words(Source(ref.source))
  BY <1>6, <1>7 DEF RefFindings
<1>8. c.innovation => \A d \in Dimensions : Covered(d)
  BY <1>5
<1> QED
  BY <1>7, <1>8

\* A private word reaches no online model: assert_online_payload_safe stands before every online
\* prompt, whatever the packages, plans, search results and claims hold.
THEOREM ResearchSendsNothingPrivate == Spec => []NothingPrivateSent
<1>1. IInv => NothingPrivateSent
  BY DEF IInv
<1> QED
  BY <1>1, Inductive, PTL

\* A record of the catalogue was made of a candidate, and its files are in the archive.
LEMMA CatalogueOnDisk ==
    ASSUME Archive, NEW r \in Elements(results.catalog)
    PROVE  /\ files[r.id].raw = r.raw /\ files[r.id].text = r.text
           /\ files[r.id].meta = <<r.id, r.raw, r.text>>
           /\ \E f \in Found : f.url # "" /\ r = Record(f)
<1>1. files[r.id] = Files(r)
  BY DEF Archive, Verified
<1>2. Files(r).raw = r.raw /\ Files(r).text = r.text /\ Files(r).meta = <<r.id, r.raw, r.text>>
  BY DEF Files, Meta
<1>3. r \in Archivable
  <2>1. PICK i \in DOMAIN results.catalog : r = results.catalog[i]
    BY DEF Elements
  <2> QED
    BY <2>1 DEF Archive, IsCatalog
<1> QED
  BY <1>1, <1>2, <1>3 DEF Archivable

\* Claims that stand for import cite what is on disk: verify_research_archive ran on the
\* very catalogue validate_public_claims looks sources up in.
THEOREM ResearchClaimsOnDisk == Spec => []ClaimsAreOnDisk
<1>1. IInv => ClaimsAreOnDisk
  <2> DEFINE file(ref) == files[ref.source]
             Told(ref, f) ==
                /\ f.id \in {"", ref.source} /\ f.raw = file(ref).raw /\ f.text = file(ref).text
                /\ ref.quote \subseteq {TitleOf(f)}
                                     \cup (IF file(ref).text \in Short THEN Excerpt(f)
                                           ELSE file(ref).text)
  <2> SUFFICES ASSUME IInv, step \in Standing,
                      NEW c \in Elements(synthesis.claims), NEW ref \in c.refs
               PROVE  /\ file(ref).raw = ref.hash
                      /\ file(ref).meta = <<ref.source, ref.hash, file(ref).text>>
                      /\ \E f \in Found : Told(ref, f)
    BY DEF ClaimsAreOnDisk, Standing
  <2> DEFINE r == Source(ref.source)
  <2>1. Archive /\ SynthesisFindings(synthesis) = {}
    BY DEF IInv
  <2>2. ref.source \in Catalogued /\ ref.hash = r.raw /\ ref.quote \subseteq Words(r)
    BY <2>1, NoFindings
  <2>3. r \in Elements(results.catalog) /\ r.id = ref.source
    BY <2>1, <2>2, SourceIsRecord DEF Archive
  <2> HIDE DEF r
  <2>4. /\ file(ref).raw = r.raw /\ file(ref).text = r.text
        /\ file(ref).meta = <<r.id, r.raw, r.text>>
    BY <2>1, <2>3, CatalogueOnDisk
  <2>5. PICK f \in Found : f.url # "" /\ r = Record(f)
    BY <2>1, <2>3, CatalogueOnDisk
  <2>6. /\ r.raw = f.raw /\ r.text = f.text /\ f.id \in {"", r.id}
        /\ Words(r) = {TitleOf(f)} \cup Excerpt(f)
    BY <2>5 DEF Record, Words
  <2>7. f.text \notin Short => Excerpt(f) = f.text
    BY DEF Excerpt
  <2>8. Told(ref, f)
    BY <2>2, <2>3, <2>4, <2>6, <2>7
  <2> QED
    BY <2>2, <2>3, <2>4, <2>8
<1> QED
  BY <1>1, Inductive, PTL

\* A claim of innovation stands for import on an archive that covers every dimension.
THEOREM ResearchInnovationCompared == Spec => []InnovationIsCompared
<1>1. IInv => InnovationIsCompared
  <2> SUFFICES ASSUME IInv, step \in Standing,
                      NEW c \in Elements(synthesis.claims), c.innovation, NEW d \in Dimensions
               PROVE  \E f \in Found :
                         d \in f.dims /\ \E i \in Ids : files[i].raw = f.raw /\ files[i].text = f.text
    BY DEF InnovationIsCompared, Standing
  <2>1. Archive /\ SynthesisFindings(synthesis) = {}
    BY DEF IInv
  <2>2. PICK r \in Elements(results.catalog) : d \in r.dims
    BY <2>1, NoFindings DEF Covered
  <2>3. PICK f \in Found : f.url # "" /\ r = Record(f)
    BY <2>1, CatalogueOnDisk
  <2>4. r.id \in Ids /\ r.dims = f.dims /\ r.raw = f.raw /\ r.text = f.text
    BY <2>3 DEF Record, Ids
  <2>5. files[r.id].raw = r.raw /\ files[r.id].text = r.text
    BY <2>1, CatalogueOnDisk
  <2> QED
    BY <2>2, <2>4, <2>5
<1> QED
  BY <1>1, Inductive, PTL
=============================================================================
