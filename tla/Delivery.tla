------------------------------- MODULE Delivery -------------------------------
(***************************************************************************)
(* From approved candidates to delivered files: the recoverable export     *)
(* with its cache, the package, and post-export acceptance with its        *)
(* controlled engineering repair.                                          *)
(*                                                                         *)
(* The endpoints run in threads, next to each other and to the event loop, *)
(* which goes on writing candidates, reviews, gates and findings.  An      *)
(* action is one read or write of the database or of the file system.      *)
(*                                                                         *)
(* A candidate set stands for its hash, a file for what went into it: a    *)
(* DOCX for the set it was rendered from and the renderer's defect, a PDF  *)
(* and a report for the run that made them.  What inspection looks for is  *)
(* in module DeliveryChecks; here a file has a layout defect or it has not.*)
(***************************************************************************)
EXTENDS Naturals, Sequences, FiniteSets

CONSTANTS
    Requests,   \* threads that serve a request
    Serves,     \* bound: what each of them is asked for
    Flawed,     \* candidate sets in which only delivery validation sees a defect
    Closable,   \* findings the prompts of the event loop can repair and review
    MaxSets, MaxGates, MaxDocs, MaxRuns   \* bounds: candidate sets, changes of the
                \* final gates, exported files, validation runs

Sets == 1 .. MaxSets
DocIds == 1 .. MaxDocs
RunIds == 1 .. MaxRuns
Findings == {"content", "layout"}
Kinds == {"export", "package", "accept", "repair"}
Answers == {"export", "package"}  \* answered with a file

ASSUME DeliveryAssumption ==
    /\ MaxSets \in Nat \ {0} /\ MaxGates \in Nat \ {0} /\ MaxDocs \in Nat /\ MaxRuns \in Nat
    /\ Flawed \subseteq Sets /\ Closable \subseteq Findings
    /\ Serves \in [Requests -> SUBSET Kinds]

VARIABLES
    cand,      \* the candidate set a query would find now
    reviewed,  \* the set of the latest PASS review of the full text
    gate,      \* changes of the two final gates so far: odd when both are approved
    ledger,    \* state of each blocking finding
    broken,    \* the renderer has a defect that engineering has not fixed yet
    docs,      \* exported DOCX files, never written twice
    pdf,       \* the run whose conversion lies next to each file, 0: none
    stamp,     \* the run whose reports and screenshots do
    zip,       \* what the package next to each file was made from
    cache,     \* runtime_exports: what was saved under a key
    attempts,  \* POST_EXPORT_ACCEPTANCE artifacts in the order of their inserts
    reqs,      \* what each thread is in the middle of
    runs,      \* validation runs so far
    served,    \* history: how files were handed out that should not have been:
               \* of past candidates, or while a blocker was open
    sighted, cleared  \* history: the newest file seen with the layout defect, and
                      \* the one whose inspection closed that finding

vars == <<cand, reviewed, gate, ledger, broken, docs, pdf, stamp, zip, cache, attempts,
          reqs, runs, served, sighted, cleared>>
world == <<cand, reviewed, gate, broken>>
files == <<docs, pdf, stamp, zip, cache>>
history == <<served, sighted, cleared>>

Owner == [content |-> "WRITING_AGENT", layout |-> "EXPORT_ENGINEERING"]
Open == {f \in Findings : ledger[f] \in {"OPEN", "REPAIR_RECORDED"}}
Approved == gate % 2 = 1

NoZip == [pdf |-> 0, stamp |-> 0]
Zips == [pdf : 0 .. MaxRuns, stamp : 0 .. MaxRuns]

\* _export_key: the kind, the candidates and the final gates with their status.
Layers == {"docx", "package"}
Keys == Layers \X (0 .. MaxSets) \X (0 .. MaxGates)
NoKey == <<"docx", 0, 0>>
NoEntry == [doc |-> 0, zip |-> NoZip]
Entries == [doc : 0 .. MaxDocs, zip : Zips]

Steps == {"idle", "reuse", "unblocked", "snapshot", "admit", "prior", "key", "look",
          "authorize", "owners", "preserve", "gates", "render", "save", "convert",
          "converting", "inspect", "ingest", "evidence", "verify", "judge", "package",
          "record", "insert"}
Statuses == {"NONE", "PASS", "REVISE_CONTENT", "ENGINEERING_REPAIR_REQUIRED", "BLOCK"}

\* What run() builds up before it persists it, of which only a PASS is kept whole.  review: the
\* reviewed set it was compared with; moved: the candidates changed meanwhile.
NoAttempt == [status |-> "NONE", set |-> 0, review |-> 0, moved |-> FALSE, doc |-> 0,
              run |-> 0, pdf |-> 0, stamp |-> 0, zip |-> NoZip, version |-> 0]
Attempts == [status : Statuses, set : 0 .. MaxSets, review : 0 .. MaxSets,
             moved : BOOLEAN, doc : 0 .. MaxDocs, run : 0 .. MaxRuns, pdf : 0 .. MaxRuns,
             stamp : 0 .. MaxRuns, zip : Zips, version : Nat]

\* layer: the export whose cache is asked; set: the candidates read for its key;
\* keys: the keys so far.
Idle == [kind |-> "export", pc |-> "idle", layer |-> "docx", set |-> 0,
         keys |-> [docx |-> NoKey, package |-> NoKey], expected |-> 0, prior |-> {}, found |-> {}, try |-> NoAttempt,
         from |-> 0, clear |-> FALSE]
Reqs == [kind : Kinds, pc : Steps, layer : Layers, set : 0 .. MaxSets,
         keys : [Layers -> Keys], expected : 0 .. MaxSets, prior : SUBSET Findings,
         found : SUBSET Findings, try : Attempts, from : 0 .. MaxSets, clear : BOOLEAN]

TypeOK ==
    /\ cand \in Sets /\ reviewed \in Sets /\ gate \in 0 .. MaxGates
    /\ ledger \in [Findings -> {"NONE", "OPEN", "REPAIR_RECORDED", "VERIFIED"}]
    /\ broken \in BOOLEAN
    /\ docs \in Seq([set : Sets, broken : BOOLEAN]) /\ Len(docs) <= MaxDocs
    /\ pdf \in [DocIds -> 0 .. MaxRuns] /\ stamp \in [DocIds -> 0 .. MaxRuns]
    /\ zip \in [DocIds -> Zips] /\ cache \in [Keys -> Entries]
    /\ attempts \in Seq(Attempts)
    /\ reqs \in [Requests -> Reqs]
    /\ runs \in 0 .. MaxRuns
    /\ served \subseteq {"stale", "blocked"}
    /\ sighted \in 0 .. MaxDocs /\ cleared \in 0 .. MaxDocs

\* The project has been written, reviewed and approved once.
Init ==
    /\ cand = 1 /\ reviewed = 1 /\ gate = 1
    /\ ledger = [f \in Findings |-> "NONE"]
    /\ broken \in BOOLEAN
    /\ docs = <<>> /\ pdf = [d \in DocIds |-> 0] /\ stamp = [d \in DocIds |-> 0]
    /\ zip = [d \in DocIds |-> NoZip] /\ cache = [k \in Keys |-> NoEntry]
    /\ attempts = <<>>
    /\ reqs = [r \in Requests |-> Idle]
    /\ runs = 0
    /\ served = {}
    /\ sighted = 0 /\ cleared = 0
-----------------------------------------------------------------------------
(* The event loop and the engineers                                         *)

Background == UNCHANGED <<attempts, reqs, runs, served, sighted, cleared>> /\ UNCHANGED files

\* A polish and its critic pass: some section has a new candidate.
Rewrite ==
    /\ cand < MaxSets /\ cand' = cand + 1
    /\ UNCHANGED <<reviewed, gate, ledger, broken>> /\ Background

\* _record_full_integration_review of a PASS.
ReviewFullText ==
    /\ reviewed # cand /\ reviewed' = cand
    /\ UNCHANGED <<cand, gate, ledger, broken>> /\ Background

\* New final gates are opened, or approved.
ChangeGates ==
    /\ gate < MaxGates /\ gate' = gate + 1
    /\ UNCHANGED <<cand, reviewed, ledger, broken>> /\ Background

\* The prompts repair a finding and review it.  (Those they report themselves are in
\* QualityLedger.)
Close ==
    /\ \E f \in Closable \cap Open : ledger' = [ledger EXCEPT ![f] = "VERIFIED"]
    /\ UNCHANGED <<cand, reviewed, gate, broken>> /\ Background

FixRenderer ==
    /\ broken /\ broken' = FALSE
    /\ UNCHANGED <<cand, reviewed, gate, ledger>> /\ Background
-----------------------------------------------------------------------------
(* Requests                                                                 *)

At(r, step) == reqs[r].pc = step
Doc(r) == reqs[r].try.doc
Go(r, step) == reqs' = [reqs EXCEPT ![r].pc = step]
\* The request is refused, or ends in an error.
End(r) == reqs' = [reqs EXCEPT ![r] = Idle]

Quiet == UNCHANGED <<ledger, attempts, runs>> /\ UNCHANGED world /\ UNCHANGED files /\ UNCHANGED history

Receive(r) ==
    /\ At(r, "idle")
    /\ \E kind \in Serves[r] :
            reqs' = [reqs EXCEPT ![r] =
                [Idle EXCEPT !.kind = kind, !.from = IF kind \in Answers THEN cand ELSE 0,
                             !.clear = (kind \in Answers /\ Open = {}),
                             !.layer = IF kind = "package" THEN kind ELSE "docx",
                             !.pc = CASE kind = "accept" -> "reuse" [] kind = "repair" -> "snapshot"
                                      [] OTHER -> "key"]]
    /\ Quiet

\* _reusable_pass: the PASS with the highest version, the later of equal ones.
Passed == {i \in DOMAIN attempts : attempts[i].status = "PASS"}
Latest(I) == CHOOSE i \in I : \A j \in I : \/ attempts[j].version < attempts[i].version
                                           \/ attempts[j].version = attempts[i].version /\ j <= i
FilesOf(d) == [pdf |-> pdf[d], stamp |-> stamp[d], zip |-> zip[d]]
Intact(a) == FilesOf(a.doc) = [pdf |-> a.pdf, stamp |-> a.stamp, zip |-> a.zip]
Reuse(r) ==
    /\ At(r, "reuse")
    /\ LET known == Passed # {} /\ attempts[Latest(Passed)].set = cand
                                /\ Intact(attempts[Latest(Passed)])
       IN  Go(r, IF known THEN "unblocked" ELSE "snapshot")
    /\ Quiet
\* ... and no blocker is open: the recorded attempt is the answer.
ReuseUnblocked(r) ==
    /\ At(r, "unblocked")
    /\ IF Open = {} THEN End(r) ELSE Go(r, "snapshot")
    /\ Quiet

Snapshot(r) ==
    /\ At(r, "snapshot")
    /\ reqs' = [reqs EXCEPT ![r].pc = "admit", ![r].try.set = cand]
    /\ Quiet

\* Mutant of Reviewed: the review on record is not compared with the candidates.
ReviewOnRecord(try) == TRUE

\* _integration_review_snapshot of a full proposal, whose workflow the client names.
Reviewed(try) == reviewed = try.set

\* Neither unreviewed candidates nor those whose text was found wanting.
Admit(r) ==
    /\ At(r, "admit")
    /\ LET try == reqs[r].try
           last == IF attempts = <<>> THEN NoAttempt ELSE attempts[Latest(DOMAIN attempts)]
           wanting == reqs[r].kind = "accept" /\ last.status = "REVISE_CONTENT" /\ last.set = try.set
       IN  IF Reviewed(try) /\ ~wanting
           THEN reqs' = [reqs EXCEPT ![r].pc = "prior", ![r].try.review = reviewed]
           ELSE End(r)
    /\ Quiet

\* A repair is expected to keep the set of the latest attempt.
Prior(r) ==
    /\ At(r, "prior")
    /\ LET expected == IF attempts = <<>> THEN 0 ELSE attempts[Latest(DOMAIN attempts)].set
           repair == reqs[r].kind = "repair"
       IN  reqs' = [reqs EXCEPT ![r].prior = IF repair THEN Open ELSE {}, ![r].expected = IF repair THEN expected ELSE 0,
                                ![r].pc = IF repair THEN "owners" ELSE "key"]
    /\ Quiet

\* RecoverableDocxExporter.export and export_package: the key takes two reads, and
\* an intact artifact under it is the answer.
TakeKey(r) ==
    /\ At(r, "key")
    /\ reqs' = [reqs EXCEPT ![r].pc = "look", ![r].set = cand]
    /\ Quiet

\* Mutant of Key: the candidates are left out of the key.
KeyOfGates(layer, set, g) == <<layer, 0, g>>
Key(layer, set, g) == <<layer, set, g>>

\* A DOCX is never written twice, a package is.
IntactEntry(layer, e) == e.doc # 0 /\ (layer = "package" => zip[e.doc] = e.zip)

Serve(r, d) ==
    served' = served \cup (IF docs[d].set \in reqs[r].from .. cand THEN {} ELSE {"stale"})
                     \cup (IF reqs[r].clear \/ Open = {} THEN {} ELSE {"blocked"})

\* A DOCX is what an export was asked for and what the other kinds go on with.
Exported(r, d) ==
    IF reqs[r].kind = "export" \/ reqs[r].layer = "package"
    THEN End(r) /\ Serve(r, d)
    ELSE /\ reqs' = [reqs EXCEPT ![r].pc = "convert", ![r].try.doc = d]
         /\ UNCHANGED served

Look(r) ==
    /\ At(r, "look")
    /\ LET layer == reqs[r].layer
           key == Key(layer, reqs[r].set, gate)
       IN  IF IntactEntry(layer, cache[key]) THEN Exported(r, cache[key].doc)
           ELSE /\ reqs' = [reqs EXCEPT ![r].keys[layer] = key, ![r].layer = "docx", ![r].set = 0,
                               ![r].pc = IF layer = "package" THEN "key" ELSE "authorize"]
                /\ UNCHANGED served
    /\ UNCHANGED <<ledger, attempts, runs, sighted, cleared>> /\ UNCHANGED world /\ UNCHANGED files

\* _authorized_project: no open blocker ...
Authorize(r) ==
    /\ At(r, "authorize")
    /\ IF Open = {} THEN reqs' = [reqs EXCEPT ![r].pc = "gates", ![r].clear = (reqs[r].kind \in Answers)]
       ELSE End(r)
    /\ Quiet
\* _authorized_delivery_repair: engineering owns every open blocker ...
CheckOwners(r) ==
    /\ At(r, "owners")
    /\ IF \A f \in Open : Owner[f] = "EXPORT_ENGINEERING" THEN Go(r, "preserve") ELSE End(r)
    /\ Quiet
\* ... and the candidates are still the expected ones.
Preserve(r) ==
    /\ At(r, "preserve")
    /\ IF reqs[r].expected = cand THEN reqs' = [reqs EXCEPT ![r].pc = "gates", ![r].expected = 0]
       ELSE End(r)
    /\ Quiet
\* _approved_gate_ids, for both.
CheckGates(r) ==
    /\ At(r, "gates")
    /\ IF Approved THEN Go(r, "render") ELSE End(r)
    /\ Quiet

\* _export_document writes a new file of the candidates it finds now.
Render(r) ==
    /\ At(r, "render") /\ Len(docs) < MaxDocs
    /\ docs' = Append(docs, [set |-> cand, broken |-> broken])
    /\ reqs' = [reqs EXCEPT ![r].try.doc = Len(docs) + 1,
                            ![r].pc = IF reqs[r].kind = "repair" THEN "convert" ELSE "save"]
    /\ UNCHANGED <<ledger, attempts, runs, pdf, stamp, zip, cache>> /\ UNCHANGED world
    /\ UNCHANGED history

\* _save, which only the cached exports come to.
Save(r) ==
    /\ At(r, "save")
    /\ cache' = [cache EXCEPT ![reqs[r].keys.docx] = [doc |-> Doc(r), zip |-> NoZip]]
    /\ Exported(r, Doc(r))
    /\ UNCHANGED <<ledger, attempts, runs, docs, pdf, stamp, zip, sighted, cleared>>
    /\ UNCHANGED world

\* PdfConverter removes the old PDF and writes a new one, or fails.
Convert(r) ==
    /\ At(r, "convert") /\ runs < MaxRuns
    /\ runs' = runs + 1
    /\ pdf' = [pdf EXCEPT ![Doc(r)] = 0]
    /\ reqs' = [reqs EXCEPT ![r].pc = "converting", ![r].try.run = runs + 1]
    /\ UNCHANGED <<ledger, attempts, docs, stamp, zip, cache>> /\ UNCHANGED world
    /\ UNCHANGED history
Converted(r) ==
    /\ At(r, "converting")
    /\ \/ pdf' = [pdf EXCEPT ![Doc(r)] = reqs[r].try.run] /\ Go(r, "inspect")
       \/ End(r) /\ UNCHANGED pdf
    /\ UNCHANGED <<ledger, attempts, runs, docs, stamp, zip, cache>> /\ UNCHANGED world
    /\ UNCHANGED history

\* What inspection finds in a file when the candidates are those of set.
Defects(d, set) ==
    (IF docs[d].set \in Flawed THEN {"content"} ELSE {})
        \cup (IF docs[d].broken \/ docs[d].set # set THEN {"layout"} ELSE {})

\* inspect_delivery writes the reports; without a PDF it raises.  validate_delivery
\* lets a package go on only without findings.
Inspect(r) ==
    /\ At(r, "inspect")
    /\ LET d == Doc(r)  found == Defects(d, cand) IN
         IF pdf[d] = 0 THEN End(r) /\ UNCHANGED stamp
         ELSE /\ stamp' = [stamp EXCEPT ![d] = reqs[r].try.run]
              /\ IF reqs[r].kind = "package"
                 THEN IF found = {} THEN Go(r, "package") ELSE End(r)
                 ELSE reqs' = [reqs EXCEPT ![r].pc = "ingest", ![r].found = found]
    /\ UNCHANGED <<ledger, attempts, runs, docs, pdf, zip, cache>> /\ UNCHANGED world
    /\ UNCHANGED history

\* Mutant of Gone: every finding an engineering repair was meant for is closed.
GoneOrNot(r) == reqs[r].prior

\* What was open before an engineering repair and is not found any more.
Gone(r) == {f \in reqs[r].prior \ reqs[r].found : Owner[f] = "EXPORT_ENGINEERING"}

\* ingest_delivery_findings; QualityLedger has each of its transactions.
Ingest(r) ==
    /\ At(r, "ingest")
    /\ ledger' = [f \in Findings |-> IF f \in reqs[r].found THEN "OPEN" ELSE ledger[f]]
    /\ sighted' = IF "layout" \in reqs[r].found /\ Doc(r) > sighted THEN Doc(r) ELSE sighted
    /\ Go(r, IF "layout" \in Gone(r) THEN "evidence" ELSE "judge")
    /\ UNCHANGED <<attempts, runs, served, cleared>> /\ UNCHANGED world /\ UNCHANGED files

\* add_repair_evidence and verify_finding for what was open before and is gone.
AddEvidence(r) ==
    /\ At(r, "evidence")
    /\ ledger' = [ledger EXCEPT !["layout"] = "REPAIR_RECORDED"]
    /\ Go(r, "verify")
    /\ UNCHANGED <<attempts, runs>> /\ UNCHANGED world /\ UNCHANGED files /\ UNCHANGED history
Verify(r) ==
    /\ At(r, "verify")
    /\ ledger' = [ledger EXCEPT !["layout"] = "VERIFIED"]
    /\ cleared' = Doc(r)
    /\ Go(r, "judge")
    /\ UNCHANGED <<attempts, runs, served, sighted>> /\ UNCHANGED world /\ UNCHANGED files

\* Mutants of Judged: the report alone decides, or an attempt passes when the ledger is clear of writers' findings.
JudgedByReport(found) == IF found = {} THEN "PASS" ELSE "FAIL"
JudgedByOwner(found) ==
    IF ~\E f \in Open : Owner[f] = "WRITING_AGENT" THEN "PASS" ELSE "REVISE_CONTENT"

\* The verdict on an inspection, from it and from all that is open.
Judged(found) ==
    CASE found = {} /\ Open = {} -> "PASS"
      [] \E f \in Open : Owner[f] = "WRITING_AGENT" -> "REVISE_CONTENT"
      [] ~(\E f \in Open : Owner[f] = "WRITING_AGENT")
            /\ \E f \in Open : Owner[f] = "EXPORT_ENGINEERING" -> "ENGINEERING_REPAIR_REQUIRED"
      [] OTHER -> "BLOCK"
Judge(r) ==
    /\ At(r, "judge")
    /\ LET status == Judged(reqs[r].found) IN
         reqs' = [reqs EXCEPT ![r].try = [@ EXCEPT !.status = status,
                                                   !.moved = (status = "PASS" /\ cand # reqs[r].try.set)],
                              ![r].prior = {}, ![r].found = {},
                              ![r].pc = IF status = "PASS" THEN "package" ELSE "record"]
    /\ Quiet

\* package_validated_delivery zips what lies next to the file now.
Package(r) ==
    /\ At(r, "package")
    /\ LET d == Doc(r) IN
         IF pdf[d] = 0 THEN End(r) /\ UNCHANGED <<zip, cache, served>>
         ELSE /\ zip' = [zip EXCEPT ![d] = [pdf |-> pdf[d], stamp |-> stamp[d]]]
              /\ IF reqs[r].kind # "package" THEN Go(r, "record") /\ UNCHANGED <<cache, served>>
                 ELSE /\ cache' = [cache EXCEPT ![reqs[r].keys.package] =
                                        [doc |-> d, zip |-> [pdf |-> pdf[d], stamp |-> stamp[d]]]]
                      /\ End(r) /\ Serve(r, d)
    /\ UNCHANGED <<ledger, attempts, runs, docs, pdf, stamp, sighted, cleared>> /\ UNCHANGED world

\* The evidence is hashed as it lies there, and MAX(version) read ...
Record(r) ==
    /\ At(r, "record")
    /\ LET d == Doc(r)  try == reqs[r].try
           top == IF attempts = <<>> THEN 0 ELSE attempts[Latest(DOMAIN attempts)].version
       IN  IF pdf[d] = 0 THEN End(r)
           ELSE reqs' = [reqs EXCEPT ![r].pc = "insert", ![r].try =
                            IF try.status = "PASS"
                            THEN [try EXCEPT !.pdf = pdf[d], !.stamp = stamp[d], !.zip = zip[d],
                                             !.version = top + 1]
                            ELSE [NoAttempt EXCEPT !.status = try.status, !.set = try.set,
                                                   !.version = top + 1]]
    /\ Quiet
\* ... before the insert.
Insert(r) ==
    /\ At(r, "insert")
    /\ attempts' = Append(attempts, reqs[r].try)
    /\ End(r)
    /\ UNCHANGED <<ledger, runs>> /\ UNCHANGED world /\ UNCHANGED files /\ UNCHANGED history

\* An injected fault before or after an export.
Fault(r) ==
    /\ At(r, "authorize") \/ At(r, "convert")
    /\ reqs[r].layer = "docx"
    /\ End(r)
    /\ Quiet

\* The process dies with all its threads.
Crash ==
    /\ \E r \in Requests : reqs[r] # Idle
    /\ reqs' = [r \in Requests |-> Idle]
    /\ Quiet

Request(r) ==
    \/ Receive(r) \/ Reuse(r) \/ ReuseUnblocked(r) \/ Snapshot(r) \/ Admit(r) \/ Prior(r)
    \/ TakeKey(r) \/ Look(r) \/ Authorize(r) \/ CheckOwners(r) \/ Preserve(r) \/ CheckGates(r)
    \/ Render(r) \/ Save(r) \/ Convert(r) \/ Converted(r) \/ Inspect(r) \/ Ingest(r)
    \/ AddEvidence(r) \/ Verify(r) \/ Judge(r) \/ Package(r) \/ Record(r) \/ Insert(r) \/ Fault(r)

Next ==
    \/ Rewrite \/ ReviewFullText \/ ChangeGates \/ Close \/ FixRenderer
    \/ \E r \in Requests : Request(r)
    \/ Crash

Spec == Init /\ [][Next]_vars
-----------------------------------------------------------------------------
(***************************************************************************)
(* Properties                                                              *)
(***************************************************************************)

\* What an export hands out, fresh or from the cache, was rendered from the
\* candidates of some moment of the request, whatever changed meanwhile.
ServedIsCurrent ==
    "stale" \notin served

\* No package holds a file with a defect inspection can see, whichever endpoint
\* made it and whoever converts or inspects the same file at the same time.
PackagesAreClean ==
    \A d \in DocIds : zip[d] # NoZip => ~docs[d].broken /\ docs[d].set \notin Flawed

\* The finding of a layout defect is closed by the inspection of a file that is
\* newer than every file the defect was seen in, as long as a repair is overlapped by
\* one other request: of two acceptances that began before it, the second may see the
\* defect in a newer file just before the repair, which does not look again, closes it.
ClosedOnNewerFile ==
    ledger["layout"] = "VERIFIED" => cleared > sighted

\* A PASS for a full proposal is about the candidates its full-text critic has
\* reviewed, as long as they do not change while the attempt runs.
PassIsReviewed ==
    \A i \in Passed : LET a == attempts[i] IN
        ~a.moved => docs[a.doc].set = a.review

\* An export is refused while a P0 or P1 finding is open.
ServedWhenClear == "blocked" \notin served
=============================================================================
