------------------------------ MODULE ModelCall ------------------------------
(***************************************************************************)
(* One prompt of one workflow step, executed in LIVE mode, as              *)
(* src/app/runtime_executor.py, runtime_gateway.py and runtime_evidence.py *)
(* do it: request evidence, model call, response evidence, one database    *)
(* transaction, commit marker.                                             *)
(*                                                                         *)
(* Durable: the evidence files of the call key, each replaced atomically   *)
(* but written one after another; the prompt runs; the markers of fault    *)
(* points that have fired.  Volatile: the coroutines that execute the      *)
(* prompt, which give up the event loop only while the model is awaited.   *)
(***************************************************************************)
EXTENDS Naturals, Sequences, FiniteSets

CONSTANTS
    Callers,      \* requests that may execute the prompt at the same time
    NoCaller,     \* the event loop is free
    Answers,      \* model outputs, told apart by what guard and schema make of them
    Accepted,     \* those that pass the quality guard and the output schema
    Setups,       \* prompt packs, model ids and endpoints a process may start with
    Nothing,      \* no file, no answer
    Armed,        \* fault points named by RUNTIME_FAULT_POINT
    MaxRuns,      \* bound: committed runs
    MaxFailures,  \* bound: refused requests and failed model requests
    MaxCrashes    \* bound: process restarts

\* before_request_persist, after_request_persist, before_model_request,
\* after_response_persist, before_db_transaction, after_db_transaction.
FaultPoints == {"request", "lookup", "send", "saved", "commit", "mark"}

ASSUME CallAssumption ==
    /\ Armed \subseteq FaultPoints
    /\ Accepted \subseteq Answers
    /\ Nothing \notin Answers \cup Setups
    /\ NoCaller \notin Callers
    /\ Setups # {}
    /\ {MaxRuns, MaxFailures, MaxCrashes} \subseteq Nat

VARIABLES
    request,           \* the key's request evidence: file, meta
    response,          \* its response evidence: raw, parsed, meta
    runs,              \* MODEL_CALL_COMMITTED runs, oldest first
    failedRun,         \* an ERROR run has been stored
    fired,             \* durable fault markers of the key
    setup,             \* configuration of the running process
    loop, pc, got,     \* coroutines: position, answer in hand
    given,             \* history: answers the workflow was given
    failures, crashes

evidence == <<request, response>>
database == <<runs, failedRun>>
coroutine == <<loop, pc, got>>
budgets == <<failures, crashes>>
vars == <<evidence, database, fired, setup, coroutine, given, budgets>>

PCs == {"idle", "request", "requestMeta", "lookup", "send", "await", "answered",
        "raw", "parsed", "meta", "saved", "guard", "commit", "mark"}

NoRequest == [file |-> Nothing, meta |-> Nothing]
NoResponse == [raw |-> Nothing, parsed |-> Nothing, meta |-> Nothing]

TypeOK ==
    /\ request \in [{"file", "meta"} -> Setups \cup {Nothing}]
    /\ response \in [{"raw", "parsed", "meta"} -> Answers \cup {Nothing}]
    /\ runs \in Seq(Accepted) /\ Len(runs) <= MaxRuns
    /\ failedRun \in BOOLEAN
    /\ fired \subseteq FaultPoints
    /\ setup \in Setups
    /\ loop \in Callers \cup {NoCaller}
    /\ pc \in [Callers -> PCs]
    /\ got \in [Callers -> Answers \cup {Nothing}]
    /\ given \subseteq Accepted
    /\ failures \in 0 .. MaxFailures
    /\ crashes \in 0 .. MaxCrashes

Init ==
    /\ request = NoRequest /\ response = NoResponse
    /\ runs = <<>> /\ failedRun = FALSE
    /\ fired = {}
    /\ setup \in Setups
    /\ loop = NoCaller
    /\ pc = [c \in Callers |-> "idle"]
    /\ got = [c \in Callers |-> Nothing]
    /\ given = {}
    /\ failures = 0 /\ crashes = 0
-----------------------------------------------------------------------------
Due(p) == p \in Armed \ fired
At(c, p) == pc[c] = p /\ loop = c /\ ~Due(p)
Goto(c, p) == pc' = [pc EXCEPT ![c] = p]
Leave(c) == Goto(c, "idle") /\ loop' = NoCaller /\ got' = [got EXCEPT ![c] = Nothing]

Present(e) == {f \in DOMAIN e : e[f] # Nothing}
Whole(e) == Present(e) = DOMAIN e

\* _commit_error: the ERROR run, its trace and the audit event, all or none of them; a
\* failure to store them is swallowed.
CommitError == failedRun' \in {failedRun, TRUE}
\* The request ends with its error.
Fail(c) == CommitError /\ Leave(c)

\* Mutant of Execute: committed runs are not looked for.
ExecuteAfresh(c) ==
    /\ pc[c] = "idle" /\ loop = NoCaller
    /\ loop' = c /\ Goto(c, "request")
    /\ UNCHANGED <<evidence, database, fired, setup, got, given, budgets>>

\* execute: the last run committed under the key is the answer, if there is one.
Execute(c) ==
    /\ pc[c] = "idle" /\ loop = NoCaller
    /\ IF runs # <<>>
       THEN /\ given' = given \cup {runs[Len(runs)]}
            /\ UNCHANGED <<loop, pc>>
       ELSE loop' = c /\ Goto(c, "request") /\ UNCHANGED given
    /\ UNCHANGED <<evidence, database, fired, setup, got, budgets>>

\* Input schema, router or outbound privacy refuse before the gateway is asked.
Refuse(c) ==
    /\ pc[c] = "request" /\ loop = c
    /\ failures < MaxFailures /\ failures' = failures + 1
    /\ Fail(c)
    /\ UNCHANGED <<evidence, runs, fired, setup, given, crashes>>

\* Mutant of SaveRequest: a request file is taken for the whole evidence.
RequestAssumed(c) ==
    /\ At(c, "request")
    /\ IF request.file = Nothing
       THEN request' = [request EXCEPT !.file = setup] /\ Goto(c, "requestMeta")
       ELSE UNCHANGED request /\ Goto(c, "lookup")
    /\ UNCHANGED <<response, database, fired, setup, loop, got, given, budgets>>

\* write_request: evidence that is already there must be whole and the same.
SaveRequest(c) ==
    /\ At(c, "request")
    /\ \/ /\ Present(request) = {}
          /\ request' = [request EXCEPT !.file = setup]
          /\ Goto(c, "requestMeta") /\ UNCHANGED <<loop, got, failedRun>>
       \/ /\ request = [file |-> setup, meta |-> setup]
          /\ Goto(c, "lookup") /\ UNCHANGED <<request, loop, got, failedRun>>
       \/ /\ Present(request) # {} /\ request # [file |-> setup, meta |-> setup]
          /\ Fail(c) /\ UNCHANGED request
    /\ UNCHANGED <<response, runs, fired, setup, given, budgets>>

SaveRequestMeta(c) ==
    /\ At(c, "requestMeta")
    /\ request' = [request EXCEPT !.meta = setup]
    /\ Goto(c, "lookup")
    /\ UNCHANGED <<response, database, fired, setup, loop, got, given, budgets>>

\* has_response and load_verified_response.
Verified == Whole(response) /\ response.raw = response.meta /\ response.parsed = response.meta

\* Mutant of Lookup: the saved response is not looked for.
LookupSkipped(c) ==
    /\ At(c, "lookup")
    /\ Goto(c, "send")
    /\ UNCHANGED <<evidence, database, fired, setup, loop, got, given, budgets>>

Lookup(c) ==
    /\ At(c, "lookup")
    /\ \/ /\ ~Whole(response)
          /\ Goto(c, "send") /\ UNCHANGED <<loop, got, failedRun>>
       \/ /\ Verified
          /\ got' = [got EXCEPT ![c] = response.parsed]
          /\ Goto(c, "guard") /\ UNCHANGED <<loop, failedRun>>
       \/ /\ Whole(response) /\ ~Verified
          /\ Fail(c)
    /\ UNCHANGED <<evidence, runs, fired, setup, given, budgets>>

Send(c) ==
    /\ At(c, "send")
    /\ loop' = NoCaller /\ Goto(c, "await")
    /\ UNCHANGED <<evidence, database, fired, setup, got, given, budgets>>

Reply(c) ==
    /\ pc[c] = "await" /\ loop = NoCaller
    /\ \/ /\ \E a \in Answers : got' = [got EXCEPT ![c] = a]
          /\ loop' = c /\ Goto(c, "answered") /\ UNCHANGED <<failedRun, failures>>
       \/ failures < MaxFailures /\ failures' = failures + 1 /\ Fail(c)
    /\ UNCHANGED <<evidence, runs, fired, setup, given, crashes>>

\* Mutant of SaveResponse: a response that is already there is overwritten.
ResponseReplaced(c) ==
    /\ At(c, "answered")
    /\ Goto(c, "raw")
    /\ UNCHANGED <<evidence, database, fired, setup, loop, got, given, budgets>>

\* write_response, before the first file: an incomplete set of files raises
\* FileNotFoundError, which execute does not catch.
SaveResponse(c) ==
    /\ At(c, "answered")
    /\ \/ /\ Present(response) = {}
          /\ Goto(c, "raw") /\ UNCHANGED <<loop, got, failedRun>>
       \/ /\ Present(response) # {} /\ ~Whole(response)
          /\ Leave(c) /\ UNCHANGED failedRun
       \/ /\ Verified /\ response.parsed = got[c]
          /\ Goto(c, "saved") /\ UNCHANGED <<loop, got, failedRun>>
       \/ /\ Whole(response) /\ ~(Verified /\ response.parsed = got[c])
          /\ Fail(c)
    /\ UNCHANGED <<evidence, runs, fired, setup, given, budgets>>

\* Its three files, one after another: f, and where the next one is written.
SaveFile(c, f, next) ==
    /\ At(c, f)
    /\ response' = [response EXCEPT ![f] = got[c]]
    /\ Goto(c, next)
    /\ UNCHANGED <<request, database, fired, setup, loop, got, given, budgets>>

SaveFiles(c) ==
    SaveFile(c, "raw", "parsed") \/ SaveFile(c, "parsed", "meta") \/ SaveFile(c, "meta", "saved")

\* Mutant of Guard: its objections are logged only.
GuardAdvises(c) ==
    /\ At(c, "guard") \/ At(c, "saved")
    /\ Goto(c, "commit")
    /\ UNCHANGED <<evidence, database, fired, setup, loop, got, given, budgets>>

\* Quality guard and output schema, which decide by the answer alone.
Guard(c) ==
    /\ At(c, "guard") \/ At(c, "saved")
    /\ \/ got[c] \in Accepted /\ Goto(c, "commit") /\ UNCHANGED <<loop, got, failedRun>>
       \/ got[c] \notin Accepted /\ Fail(c)
    /\ UNCHANGED <<evidence, runs, fired, setup, given, budgets>>

\* _commit_success: run, output, trace and MODEL_CALL_COMMITTED, one transaction.
\* If the database raises, so does the request.
Commit(c) ==
    /\ At(c, "commit")
    /\ \/ /\ Len(runs) < MaxRuns
          /\ runs' = Append(runs, got[c])
          /\ Goto(c, "mark") /\ UNCHANGED <<loop, got, failures>>
       \/ /\ failures < MaxFailures /\ failures' = failures + 1
          /\ Leave(c) /\ UNCHANGED runs
    /\ UNCHANGED <<evidence, failedRun, fired, setup, given, crashes>>

\* mark_committed (a file that is never read) and the answer to the workflow.
Return(c) ==
    /\ At(c, "mark")
    /\ given' = given \cup {got[c]}
    /\ Leave(c)
    /\ UNCHANGED <<evidence, database, fired, setup, budgets>>

\* Mutant of FaultRaised: no durable marker, so the fault fires every time.
FaultUnmarked(c) ==
    /\ loop = c /\ Due(pc[c])
    /\ Leave(c)
    /\ UNCHANGED <<evidence, database, fired, setup, given, budgets>>

\* An armed fault point raises, once.  (One that exits the process instead is a crash.)
FaultRaised(c) ==
    /\ loop = c /\ Due(pc[c])
    /\ Leave(c)
    /\ fired' = fired \cup {pc[c]}
    /\ UNCHANGED <<evidence, database, setup, given, budgets>>

\* The process dies and is started again, possibly set up differently.
Restart ==
    /\ crashes < MaxCrashes /\ crashes' = crashes + 1
    /\ setup' \in Setups
    /\ fired' \in {fired} \cup {fired \cup {pc[c]} : c \in {d \in Callers : d = loop /\ Due(pc[d])}}
    /\ loop' = NoCaller
    /\ pc' = [c \in Callers |-> "idle"]
    /\ got' = [c \in Callers |-> Nothing]
    /\ UNCHANGED <<evidence, database, given, failures>>

Progress(c) ==
    \/ Refuse(c) \/ SaveRequest(c) \/ SaveRequestMeta(c) \/ Lookup(c) \/ Send(c)
    \/ Reply(c) \/ SaveResponse(c) \/ SaveFiles(c) \/ Guard(c) \/ Commit(c)
    \/ Return(c) \/ FaultRaised(c)

Next == (\E c \in Callers : Execute(c) \/ Progress(c)) \/ Restart

Spec == Init /\ [][Next]_vars

\* The workflow's clients retry, and the event loop serves its coroutines.
FairSpec == Spec /\ \A c \in Callers : SF_vars(Execute(c)) /\ SF_vars(Progress(c))

-----------------------------------------------------------------------------
(***************************************************************************)
(* Properties                                                              *)
(***************************************************************************)

\* Only executions that overlap commit a call more than once, and each of them once:
\* whoever comes later, or after a restart, finds a run.
OneRunPerOverlap == Len(runs) <= Cardinality(Callers)

\* No model is asked before its request is on disk whole, and no run is
\* committed whose answer is not the one its response evidence proves.
Audited ==
    /\ \A c \in Callers : pc[c] = "await" => Whole(request)
    /\ \A i \in DOMAIN runs : 
          Whole(request) /\ Verified /\ response.parsed = runs[i]

\* Once an answer is on disk whole, no execution asks the model again: not after
\* a crash, a fault or a failure, and not next to another execution.
NeverAskedAgain ==
    [][(\E c \in Callers : pc[c] # "await" /\ pc'[c] = "await") => ~Whole(response)]_vars

\* However many executions overlap, crash or are repeated, the workflow is only
\* ever given one answer, the one recorded first.
Result == INSTANCE SingleResult WITH
    NoAnswer <- Nothing,
    recorded <- IF runs = <<>> THEN Nothing ELSE runs[1]
OneAnswer == Result!Spec

\* The evidence in use can never be consumed: written in part, by another setup,
\* or holding an answer that is refused.
Stuck ==
    \/ Present(request) # {} /\ request # [file |-> setup, meta |-> setup]
    \/ Present(response) # {} /\ ~Whole(response)
    \/ Whole(response) /\ response.parsed \notin Accepted

\* If the workflow keeps trying, it is given an answer, unless the evidence on
\* disk is stuck; nothing else that a crash, a fault or a failure leaves
\* behind keeps the call from succeeding.
Answered == <>[](given # {} \/ Stuck)
=============================================================================
