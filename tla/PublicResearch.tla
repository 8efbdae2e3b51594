--------------------------- MODULE PublicResearch ---------------------------
(***************************************************************************)
(* WF-3, the hybrid online assist: an offline package of public context is *)
(* reviewed and approved, an online planner turns it into queries, the     *)
(* research skill archives what is found, an online synthesis makes claims *)
(* of it, and an import review and a gate let them through.                *)
(*                                                                         *)
(* A text is a set of words and a query a word.  A hash is what it is the  *)
(* hash of.  A critic or producer that answers REVISE parks the workflow   *)
(* on a gate and, approved, asks again: the step is taken once more.       *)
(***************************************************************************)
EXTENDS Naturals, Sequences, FiniteSets

CONSTANTS
    Private,      \* words the project's redaction entities and patterns match
    Placeholder,  \* what is put in their place
    Endpoints,    \* of the models: [id, environment, levels, enabled]
    Project,      \* [level, internet: whether access is allowed, endpoints]
    Packages,     \* the texts a package may hold
    Plans,        \* records [queries, questions, priorities, time, broad, unbound]
    Found,        \* candidates [id, identity, doi, title, year, url, fit, raw, text, snippet,
                  \*   query, dims] of the search: "" where a field is absent, {} for no snippet
    Short,        \* texts under twenty characters
    Claims,       \* records [id, type, innovation, refs: set of [source, hash, public, quote]]
    MaxFound,     \* bound: candidates of one search
    MaxClaims,    \* bound: claims of one synthesis
    MaxResults,   \* public_search_max_results
    MaxQueries,   \* queries that are searched for (12)
    Strict        \* runtime mode LIVE: the plan must be structured, disabled endpoints count

ASSUME BoundsAssumption == {MaxFound, MaxResults} \subseteq Nat

Elements(s) == {s[i] : i \in DOMAIN s}
\* Of some positions in a sequence: the last, the k-th, and what is there, in order.
Latest(I) == CHOOSE i \in I : \A j \in I : j <= i
Nth(I, k) == CHOOSE i \in I : Cardinality({j \in I : j <= i}) = k
Chosen(s, I) == [k \in 1..Cardinality(I) |-> s[Nth(I, k)]]
Dimensions == {"recent_work", "comparable_baselines", "limitation_mechanisms"}
Ids == ({f.id : f \in Found} \cup {f.url : f \in Found}) \ {""}
NoPlan == [queries |-> <<>>, questions |-> 0, priorities |-> 0, time |-> FALSE,
           broad |-> {}, unbound |-> {}]
NoResults == [catalog |-> <<>>, conflict |-> FALSE]
NoSynthesis == [claims |-> <<>>, compared |-> {}, conflicts |-> FALSE]
NoFile == [raw |-> "none", text |-> {}, meta |-> <<>>]

VARIABLES
    step,      \* where the workflow stands
    package,   \* the latest output of P-SAFE-ONLINE-PACKAGE
    plan,      \* the latest plan
    results,   \* state.public_search_results: the catalogue, and whether sources conflict
    files,     \* the archive on disk: source id -> what raw, text and metadata files hold
    synthesis, \* the latest output of P-PUBLIC-RESEARCH-SYNTHESIS
    repaired,  \* critics whose one repair is spent
    sent       \* words of the payloads that online models were asked with
vars == <<step, package, plan, results, files, synthesis, repaired, sent>>

Init ==
    /\ step = "PACKAGE" /\ package = {} /\ plan = NoPlan /\ results = NoResults
    /\ files = [i \in Ids |-> NoFile] /\ synthesis = NoSynthesis
    /\ repaired = {} /\ sent = {}

-----------------------------------------------------------------------------
(* Where a prompt may run.                                                  *)

\* _online_approval_status: of a gate that is not approved the router is told that none
\* is required.
Approval == IF step \in {"PACKAGE", "PACKAGE_CRITIC", "OUTBOUND"} THEN "NOT_REQUIRED"
            ELSE "APPROVED"
\* The security context of an envelope.
Envelope(environment) ==
    [level   |-> IF environment = "ONLINE_PUBLIC" THEN "PUBLIC" ELSE Project.level,
     allowed |-> IF environment = "ONLINE_PUBLIC"
                 THEN IF Project.internet THEN {"online-public-primary"} ELSE {}
                 ELSE IF Project.endpoints # {} THEN Project.endpoints ELSE {"offline-primary"}]
\* route: some endpoint takes the prompt.  An empty list of allowed ones allows them all.
Routed(environment) ==
    LET context == Envelope(environment) IN
    /\ environment = "ONLINE_PUBLIC" =>
          context.level = "PUBLIC" /\ Approval \in {"APPROVED", "NOT_REQUIRED"}
    /\ \E e \in Endpoints :
          /\ e.environment = environment /\ context.level \in e.levels
          /\ e.enabled \/ ~Strict
          /\ context.allowed = {} \/ e.id \in context.allowed

-----------------------------------------------------------------------------
(* What may leave.                                                          *)

\* Mutant of Safe: only the package is looked at, which was sanitized.
SafePackage(words) == words = package => words \cap Private = {}
\* assert_online_payload_safe, of every payload of an online prompt.
Safe(words) == words \cap Private = {}
Sanitized(words) ==
    IF Safe(words) THEN words ELSE (words \ Private) \cup {Placeholder}

\* An online prompt is asked about words: refused before it is sent when no endpoint takes
\* it or they hold a private one, and the workflow is blocked.
Online(words, answered) ==
    IF Routed("ONLINE_PUBLIC") /\ Safe(words) THEN sent' = sent \cup words /\ answered
    ELSE step' = "BLOCKED" /\ UNCHANGED <<sent, plan, synthesis, repaired>>

\* A critic passes; or its findings are repaired once, in the workflow's own state, and
\* the repair is reviewed (what was committed stays the latest output); or it parks or
\* blocks the workflow.
Verdict(at, next) ==
    \/ step' = next /\ UNCHANGED repaired
    \/ at \notin repaired /\ repaired' = repaired \cup {at} /\ UNCHANGED step
    \/ step' \in {at, "BLOCKED"} /\ UNCHANGED repaired

-----------------------------------------------------------------------------
(* Package, approval and plan.                                              *)

\* P-SAFE-ONLINE-PACKAGE, offline: sanitized before it is committed.
Package(words) ==
    /\ step = "PACKAGE"
    /\ IF Routed("OFFLINE_LOCAL")
       THEN package' = Sanitized(words) /\ step' \in {"PACKAGE_CRITIC", "PACKAGE", "BLOCKED"}
       ELSE step' = "BLOCKED" /\ UNCHANGED package
    /\ UNCHANGED <<plan, results, files, synthesis, repaired, sent>>

ReviewPackage ==
    /\ step = "PACKAGE_CRITIC"
    /\ IF Routed("OFFLINE_LOCAL") THEN Verdict("PACKAGE_CRITIC", "OUTBOUND")
       ELSE step' = "BLOCKED" /\ UNCHANGED repaired
    /\ UNCHANGED <<package, plan, results, files, synthesis, sent>>

\* OUTBOUND_SECURITY_APPROVAL and ONLINE_RESULT_IMPORT_APPROVAL.
Decide(approved) ==
    /\ step \in {"OUTBOUND", "IMPORT_GATE"}
    /\ step' = IF ~approved THEN "BLOCKED" ELSE IF step = "OUTBOUND" THEN "PLAN" ELSE "COMPLETED"
    /\ UNCHANGED <<package, plan, results, files, synthesis, repaired, sent>>

\* P-PUBLIC-RESEARCH-PLAN, online.
Plan(p) ==
    /\ step = "PLAN"
    /\ Online(package, /\ plan' = p /\ step' \in {"SEARCH", "PLAN", "BLOCKED"}
                       /\ UNCHANGED <<synthesis, repaired>>)
    /\ UNCHANGED <<package, results, files>>

\* normalize_and_validate_plan: what blocks the search.
PlanFindings(p) ==
    LET queries == Elements(p.queries) IN
    {f \in {"NO_QUERY", "NO_QUESTION", "NO_SOURCE_PRIORITY", "NO_TIME_SCOPE", "BROAD_QUERY",
            "UNBOUND_QUERY"} :
        CASE f = "NO_QUERY"           -> queries = {}
          [] f = "NO_QUESTION"        -> Strict /\ p.questions = 0
          [] f = "NO_SOURCE_PRIORITY" -> Strict /\ p.priorities = 0
          [] f = "NO_TIME_SCOPE"      -> Strict /\ ~p.time
          [] f = "BROAD_QUERY"        -> Strict /\ queries \cap p.broad # {}
          [] f = "UNBOUND_QUERY"      -> Strict /\ p.questions > 0 /\ queries \cap p.unbound # {}}

-----------------------------------------------------------------------------
(* The research skill.                                                      *)

\* _queries: what is searched for.
Searched(p) == Elements(SubSeq(p.queries, 1, IF Len(p.queries) < MaxQueries
                                             THEN Len(p.queries) ELSE MaxQueries))

\* deduplicate_candidates: the first of every identity, and whether two that share a
\* DOI differ in title or year.
Known(found, i) == \E j \in 1..(i - 1) : found[j].identity = found[i].identity
Deduplicated(found) == Chosen(found, {i \in DOMAIN found : ~Known(found, i)})
Differ(a, b) == a # "" /\ b # "" /\ a # b
Conflicting(found) ==
    \E i, j \in DOMAIN found :
        /\ j < i /\ ~Known(found, j) /\ found[i].identity = found[j].identity /\ found[i].doi
        /\ Differ(found[i].title, found[j].title) \/ Differ(found[i].year, found[j].year)

\* _archive_candidate: a snapshot under the id the candidate brings, or a new one; a new
\* id is as unique as the URL.  The excerpt is the text, or when that is too short what the
\* candidate says of itself.
TitleOf(c) == IF c.title = "" THEN c.url ELSE c.title
Excerpt(c) == IF c.text \notin Short THEN c.text
              ELSE IF c.snippet # {} THEN c.snippet ELSE {TitleOf(c)}
Record(c) == [id |-> IF c.id = "" THEN c.url ELSE c.id, raw |-> c.raw, text |-> c.text,
              title |-> TitleOf(c), excerpt |-> Excerpt(c), query |-> c.query, dims |-> c.dims]
\* run: one record for each URL not seen, of a public address that answers, up to the limit.
Archived(found) ==
    LET fit    == {i \in DOMAIN found : /\ found[i].fit /\ found[i].url # ""
                                       /\ \A j \in 1..(i - 1) : found[j].url # found[i].url}
        chosen == Chosen(found, {i \in fit : Cardinality({j \in fit : j < i}) < MaxResults})
    IN [k \in DOMAIN chosen |-> Record(chosen[k])]

\* Of the metadata, what is verified.
Meta(r) == <<r.id, r.raw, r.text>>
Files(r) == [raw |-> r.raw, text |-> r.text, meta |-> Meta(r)]
\* The later record of an id overwrites the files of the earlier.
Of(records, id) == {i \in DOMAIN records : records[i].id = id}
Saved(records) ==
    [id \in Ids |-> IF Of(records, id) = {} THEN NoFile
                    ELSE Files(records[Latest(Of(records, id))])]

\* upgrade_archive_result: a record whose text was seen is dropped with the files under
\* its id, the others' metadata is written again, in the order of the records.
Repeated(records) ==
    {i \in DOMAIN records : \E j \in 1..(i - 1) : records[j].text = records[i].text}
Upgraded(records) == Chosen(records, DOMAIN records \ Repeated(records))
Rewritten(records, disk) ==
    [id \in Ids |->
        LET lost  == Of(records, id) \cap Repeated(records)
            later == {i \in Of(records, id) : \A j \in lost : j < i}
            left  == IF lost = {} THEN disk[id] ELSE NoFile
        IN IF later = {} THEN left ELSE [left EXCEPT !.meta = Meta(records[Latest(later)])]]

\* Mutant of Verified: a missing file is passed over.
VerifiedIfPresent(records, disk) ==
    \A r \in Elements(records) : disk[r.id] \in {NoFile, Files(r)}
\* verify_research_archive.
Verified(records, disk) == \A r \in Elements(records) : disk[r.id] = Files(r)

\* The search: planned queries are answered by candidates.  A plan with findings, a query
\* without an answer, no record, and an archive that does not verify block the workflow.
Search(answered, found) ==
    /\ step = "SEARCH"
    /\ \A c \in Elements(found) : c.query \in answered
    /\ LET records == Archived(Deduplicated(found))
           kept    == Upgraded(records)
           disk    == Rewritten(records, Saved(records))
       IN IF PlanFindings(plan) # {} \/ ~Searched(plan) \subseteq answered \/ records = <<>>
          THEN step' = "BLOCKED" /\ UNCHANGED <<results, files>>
          ELSE /\ files' = disk
               /\ IF Verified(kept, disk)
                  THEN /\ results' = [catalog |-> kept, conflict |-> Conflicting(found)]
                       /\ step' = "SYNTHESIS"
                  ELSE step' = "BLOCKED" /\ UNCHANGED results
    /\ UNCHANGED <<package, plan, synthesis, repaired, sent>>

-----------------------------------------------------------------------------
(* Synthesis and import.                                                    *)

\* Mutant of Covered: what was planned for counts, not what was archived.
CoveredByCandidates(dimension) == \E c \in Found : dimension \in c.dims
\* coverage_report.
Covered(dimension) == \E r \in Elements(results.catalog) : dimension \in r.dims

\* validate_public_claims; the catalogue is looked up by id, where the last record counts.
Source(id) ==
    results.catalog[Latest(Of(results.catalog, id))]
Catalogued == {r.id : r \in Elements(results.catalog)}
Words(r) == {r.title} \cup r.excerpt
RefFindings(ref) ==
    IF ref.source \notin Catalogued THEN {"UNKNOWN_SOURCE"}
    ELSE (IF ref.public THEN {} ELSE {"NONPUBLIC_REF"})
         \cup (IF ref.hash = Source(ref.source).raw THEN {} ELSE {"HASH_MISMATCH"})
         \cup (IF ref.quote \subseteq Words(Source(ref.source)) THEN {} ELSE {"QUOTE_NOT_FOUND"})
ClaimFindings(c) ==
    (IF c.type = "PUBLIC_CLAIM" THEN {} ELSE {"WRONG_TYPE"})
    \cup (IF c.refs = {} THEN {"NO_EVIDENCE"}
          ELSE (UNION {RefFindings(ref) : ref \in c.refs})
               \cup (IF c.innovation /\ \E d \in Dimensions : ~Covered(d)
                     THEN {"INNOVATION_EVIDENCE_GAP"} ELSE {}))
SynthesisFindings(s) ==
    LET first == {i \in DOMAIN s.claims : \A j \in 1..(i - 1) : s.claims[j].id # s.claims[i].id}
    IN (IF s.claims = <<>> THEN {"NO_CLAIMS"} ELSE {})
       \cup (IF first = DOMAIN s.claims THEN {} ELSE {"DUPLICATE_ID"})
       \cup (UNION {ClaimFindings(s.claims[i]) : i \in first})
       \cup (IF s.compared \subseteq Catalogued THEN {} ELSE {"COMPARISON_UNKNOWN_SOURCE"})
       \cup (IF results.conflict /\ ~s.conflicts THEN {"SOURCE_CONFLICT_SUPPRESSED"} ELSE {})

TextsFound == UNION {Words(r) : r \in Elements(results.catalog)}
Asked == Elements(plan.queries) \cup TextsFound

\* P-PUBLIC-RESEARCH-SYNTHESIS, online: committed, and only then validated.
Synthesize(s) ==
    /\ step = "SYNTHESIS"
    /\ Online(Asked,
              /\ synthesis' = s
              /\ \/ step' = IF SynthesisFindings(s) = {} THEN "CRITIC" ELSE "BLOCKED"
                 \/ step' \in {"SYNTHESIS", "BLOCKED"}
              /\ UNCHANGED <<plan, repaired>>)
    /\ UNCHANGED <<package, results, files>>

\* P-PUBLIC-RESEARCH-CRITIC, online; so is the repair.
ReviewSynthesis ==
    /\ step = "CRITIC"
    /\ Online(Asked, Verdict("CRITIC", "IMPORT") /\ UNCHANGED <<plan, synthesis>>)
    /\ UNCHANGED <<package, results, files>>

\* P-ONLINE-RESULT-IMPORT-CRITIC, offline.  Which claims it accepts filters what section
\* writers are given, in another workflow.
Import ==
    /\ step = "IMPORT"
    /\ step' \in (IF Routed("OFFLINE_LOCAL") THEN {"IMPORT_GATE", "IMPORT"} ELSE {}) \cup {"BLOCKED"}
    /\ UNCHANGED <<package, plan, results, files, synthesis, repaired, sent>>

Answers == UNION {[1..n -> Found] : n \in 0..MaxFound}
Syntheses ==
    [claims : UNION {[1..n -> Claims] : n \in 0..MaxClaims},
     compared : {{}, Ids}, conflicts : BOOLEAN]
Next ==
    \/ \E words \in Packages : Package(words)
    \/ ReviewPackage
    \/ \E approved \in BOOLEAN : Decide(approved)
    \/ \E p \in Plans : Plan(p)
    \/ \E answered \in SUBSET Searched(plan), found \in Answers : Search(answered, found)
    \/ \E s \in Syntheses : Synthesize(s)
    \/ ReviewSynthesis \/ Import
Spec == Init /\ [][Next]_vars

-----------------------------------------------------------------------------
(* Properties.                                                              *)

\* No payload an online model was asked with held a private word: not the package, and
\* not what came back from the public web or an earlier online answer.
NothingPrivateSent == sent \cap Private = {}

\* Once the claims stand for import, every source one of them cites is on disk, with the
\* snapshot its hash names and metadata that agrees; what it quotes is in the text on disk
\* or in the title the source was found under, or, when that text is too short, in what
\* the search said of it.
ClaimsAreOnDisk ==
    step \in {"CRITIC", "IMPORT", "IMPORT_GATE", "COMPLETED"} =>
        \A c \in Elements(synthesis.claims) : \A ref \in c.refs :
            LET file == files[ref.source] IN
            /\ file.raw = ref.hash /\ file.meta = <<ref.source, ref.hash, file.text>>
            /\ \E f \in Found :
                  /\ f.id \in {"", ref.source} /\ f.raw = file.raw /\ f.text = file.text
                  /\ ref.quote \subseteq {TitleOf(f)}
                                       \cup (IF file.text \in Short THEN Excerpt(f) ELSE file.text)

\* A claim of innovation stands for import only on an archive that holds recent work,
\* comparable baselines and limitations: each is in a source whose text is on disk.
InnovationIsCompared ==
    step \in {"CRITIC", "IMPORT", "IMPORT_GATE", "COMPLETED"} =>
        \A c \in Elements(synthesis.claims) : c.innovation =>
            \A d \in Dimensions : \E f \in Found :
                d \in f.dims /\ \E i \in Ids : files[i].raw = f.raw /\ files[i].text = f.text
=============================================================================
