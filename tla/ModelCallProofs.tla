---------------------------- MODULE ModelCallProofs ----------------------------
(***************************************************************************)
(* What ModelCall guarantees whatever executions overlap, fail, fault or   *)
(* die, and that it implements SingleResult.                               *)
(***************************************************************************)
EXTENDS ModelCall, SequenceTheorems, FiniteSetTheorems, TLAPS

\* Only the coroutine that has the event loop is between two awaits.
Working == PCs \ {"idle", "await"}
Held == \A c \in Callers : pc[c] \in Working => loop = c

\* From the look for a response on, the request is on disk.
RequestOf(c) ==
    /\ pc[c] = "requestMeta" => request = [file |-> setup, meta |-> Nothing]
    /\ pc[c] \notin {"idle", "request", "requestMeta"} => Whole(request)
RequestSaved == \A c \in Callers : RequestOf(c)

\* The response evidence proves the answer a.
Proves(a) == Verified /\ response.parsed = a

\* What is on disk of the answer that a coroutine has in hand.
ResponseOf(c) ==
    /\ pc[c] \in {"answered", "raw", "parsed", "meta", "saved", "guard", "commit", "mark"} =>
          got[c] \in Answers
    /\ pc[c] = "send" => ~Whole(response)
    /\ pc[c] = "raw" => response = NoResponse
    /\ pc[c] = "parsed" => response = [raw |-> got[c], parsed |-> Nothing, meta |-> Nothing]
    /\ pc[c] = "meta" => response = [raw |-> got[c], parsed |-> got[c], meta |-> Nothing]
    /\ pc[c] \in {"saved", "guard", "commit", "mark"} => Proves(got[c])
    /\ pc[c] \in {"commit", "mark"} => got[c] \in Accepted
ResponseSaved == \A c \in Callers : ResponseOf(c)

\* Every run is proved by the one response on disk, and what was given is such a run.
RunsProved ==
    /\ \A i \in DOMAIN runs : Whole(request) /\ Proves(runs[i])
    /\ \A c \in Callers : pc[c] = "mark" => runs # <<>>
    /\ \A a \in given : runs # <<>> /\ a = runs[1]

IInv == TypeOK /\ Held /\ RequestSaved /\ ResponseSaved /\ RunsProved

\* Abbreviations, visible in every proof below.
USE DEF At, Goto, Leave, Fail, CommitError, vars, evidence, database, coroutine, budgets

\* The assumptions on the constants, one fact each.
LEMMA Constants ==
    /\ Armed \subseteq FaultPoints
    /\ Accepted \subseteq Answers
    /\ Nothing \notin Answers /\ Nothing \notin Setups
    /\ NoCaller \notin Callers
    /\ MaxRuns \in Nat /\ MaxFailures \in Nat /\ MaxCrashes \in Nat
BY CallAssumption

Requests == [{"file", "meta"} -> Setups \cup {Nothing}]
Responses == [{"raw", "parsed", "meta"} -> Answers \cup {Nothing}]

\* Which files there are, said of each.
LEMMA RequestFiles ==
    ASSUME NEW e \in Requests
    PROVE  /\ Whole(e) <=> e.file # Nothing /\ e.meta # Nothing
           /\ Present(e) = {} <=> e = NoRequest
BY DEF Requests, Whole, Present, NoRequest

\* The same of a response.
LEMMA ResponseFiles ==
    ASSUME NEW e \in Responses
    PROVE  /\ Whole(e) <=> e.raw # Nothing /\ e.parsed # Nothing /\ e.meta # Nothing
           /\ Present(e) = {} <=> e = NoResponse
BY DEF Responses, Whole, Present, NoResponse

-----------------------------------------------------------------------------
\* The call starts well typed and with nothing on disk.
LEMMA InitHolds == Init => IInv
<1> SUFFICES ASSUME Init PROVE IInv
  OBVIOUS
<1>1. NoRequest \in Requests /\ NoResponse \in Responses
  BY DEF NoRequest, NoResponse, Requests, Responses
<1>2. TypeOK
  <2>1. runs \in Seq(Accepted) /\ Len(runs) <= MaxRuns
    BY Constants, EmptySeq DEF Init
  <2>2. failedRun \in BOOLEAN
    BY DEF Init
  <2>3. failures \in 0 .. MaxFailures /\ crashes \in 0 .. MaxCrashes
    BY Constants DEF Init
  <2> QED
    BY <1>1, <2>1, <2>2, <2>3, Constants DEF Init, TypeOK, Requests, Responses, PCs
<1>3. Held /\ RequestSaved /\ ResponseSaved /\ RunsProved
  BY DEF Init, Held, Working, RequestSaved, RequestOf, ResponseSaved, ResponseOf, RunsProved
<1> QED
  BY <1>2, <1>3 DEF IInv

\* TypeOK, in parts that are proved apart.
TypedDisk ==
    /\ request \in Requests /\ response \in Responses
    /\ runs \in Seq(Accepted) /\ Len(runs) <= MaxRuns
    /\ fired \subseteq FaultPoints
TypedLoop ==
    /\ setup \in Setups
    /\ loop \in Callers \cup {NoCaller}
    /\ pc \in [Callers -> PCs]
    /\ got \in [Callers -> Answers \cup {Nothing}]
TypedHistory ==
    /\ given \subseteq Accepted
    /\ failures \in 0 .. MaxFailures
    /\ crashes \in 0 .. MaxCrashes

\* Every step leaves files, runs and fault markers of their types.
LEMMA DiskStep == ASSUME TypeOK, ResponseSaved, [Next]_vars PROVE TypedDisk'
<1> USE Constants DEF TypeOK, TypedDisk, Requests, Responses
<1>1. ASSUME NEW c \in Callers, Execute(c) PROVE TypedDisk'
  BY <1>1 DEF Execute
<1>2. ASSUME NEW c \in Callers, Refuse(c) PROVE TypedDisk'
  BY <1>2 DEF Refuse
<1>3. ASSUME NEW c \in Callers, SaveRequest(c) PROVE TypedDisk'
  <2>1. request' \in {request, [request EXCEPT !.file = setup]}
    BY <1>3 DEF SaveRequest
  <2> QED
    BY <1>3, <2>1 DEF SaveRequest
<1>4. ASSUME NEW c \in Callers, SaveRequestMeta(c) PROVE TypedDisk'
  BY <1>4 DEF SaveRequestMeta
<1>5. ASSUME NEW c \in Callers, Lookup(c) PROVE TypedDisk'
  BY <1>5 DEF Lookup
<1>6. ASSUME NEW c \in Callers, Send(c) PROVE TypedDisk'
  BY <1>6 DEF Send
<1>7. ASSUME NEW c \in Callers, Reply(c) PROVE TypedDisk'
  BY <1>7 DEF Reply
<1>8. ASSUME NEW c \in Callers, SaveResponse(c) PROVE TypedDisk'
  BY <1>8 DEF SaveResponse
<1>9. ASSUME NEW c \in Callers, SaveFiles(c) PROVE TypedDisk'
  BY <1>9 DEF SaveFiles, SaveFile
<1>10. ASSUME NEW c \in Callers, Guard(c) PROVE TypedDisk'
  BY <1>10 DEF Guard
<1>11. ASSUME NEW c \in Callers, Commit(c) PROVE TypedDisk'
  <2>1. runs' = runs \/ (got[c] \in Accepted /\ Len(runs) < MaxRuns /\ runs' = Append(runs, got[c]))
    BY <1>11 DEF Commit, ResponseSaved, ResponseOf
  <2>2. runs' \in Seq(Accepted) /\ Len(runs') <= MaxRuns
    BY <2>1, AppendProperties
  <2> QED
    BY <1>11, <2>2 DEF Commit
<1>12. ASSUME NEW c \in Callers, Return(c) PROVE TypedDisk'
  BY <1>12 DEF Return
<1>13. ASSUME NEW c \in Callers, FaultRaised(c) PROVE TypedDisk'
  BY <1>13 DEF FaultRaised, Due
<1>14. CASE Restart
  <2>1. fired' \subseteq fired \cup Armed
    BY <1>14 DEF Restart, Due
  <2> QED
    BY <1>14, <2>1 DEF Restart
<1>15. CASE UNCHANGED vars
  BY <1>15
<1> QED
  BY <1>1, <1>2, <1>3, <1>4, <1>5, <1>6, <1>7, <1>8,
     <1>9, <1>10, <1>11, <1>12, <1>13, <1>14, <1>15 DEF Next, Progress

\* Every step leaves the coroutines well typed.
LEMMA LoopStep == ASSUME TypeOK, [Next]_vars PROVE TypedLoop'
<1> USE Constants DEF TypeOK, TypedLoop, Responses, PCs
<1>1. ASSUME NEW c \in Callers, Execute(c) PROVE TypedLoop'
  BY <1>1 DEF Execute
<1>2. ASSUME NEW c \in Callers, Refuse(c) PROVE TypedLoop'
  BY <1>2 DEF Refuse
<1>3. ASSUME NEW c \in Callers, SaveRequest(c) PROVE TypedLoop'
  BY <1>3 DEF SaveRequest
<1>4. ASSUME NEW c \in Callers, SaveRequestMeta(c) PROVE TypedLoop'
  BY <1>4 DEF SaveRequestMeta
<1>5. ASSUME NEW c \in Callers, Lookup(c) PROVE TypedLoop'
  BY <1>5 DEF Lookup
<1>6. ASSUME NEW c \in Callers, Send(c) PROVE TypedLoop'
  BY <1>6 DEF Send
<1>7. ASSUME NEW c \in Callers, Reply(c) PROVE TypedLoop'
  <2>1. CASE \E a \in Answers : /\ got' = [got EXCEPT ![c] = a]
                                /\ loop' = c /\ Goto(c, "answered")
    BY <1>7, <2>1 DEF Reply
  <2>2. CASE Leave(c)
    BY <1>7, <2>2 DEF Reply
  <2> QED
    BY <1>7, <2>1, <2>2 DEF Reply
<1>8. ASSUME NEW c \in Callers, SaveResponse(c) PROVE TypedLoop'
  BY <1>8 DEF SaveResponse
<1>9. ASSUME NEW c \in Callers, SaveFiles(c) PROVE TypedLoop'
  BY <1>9 DEF SaveFiles, SaveFile
<1>10. ASSUME NEW c \in Callers, Guard(c) PROVE TypedLoop'
  BY <1>10 DEF Guard
<1>11. ASSUME NEW c \in Callers, Commit(c) PROVE TypedLoop'
  BY <1>11 DEF Commit
<1>12. ASSUME NEW c \in Callers, Return(c) PROVE TypedLoop'
  BY <1>12 DEF Return
<1>13. ASSUME NEW c \in Callers, FaultRaised(c) PROVE TypedLoop'
  BY <1>13 DEF FaultRaised
<1>14. CASE Restart
  BY <1>14 DEF Restart
<1>15. CASE UNCHANGED vars
  BY <1>15
<1> QED
  BY <1>1, <1>2, <1>3, <1>4, <1>5, <1>6, <1>7, <1>8,
     <1>9, <1>10, <1>11, <1>12, <1>13, <1>14, <1>15 DEF Next, Progress

\* Every step keeps what was given and the budgets well typed.
LEMMA HistoryStep == ASSUME TypeOK, ResponseSaved, [Next]_vars PROVE TypedHistory'
<1> USE Constants DEF TypeOK, TypedHistory
<1>1. ASSUME NEW c \in Callers, Execute(c) PROVE TypedHistory'
  <2>1. runs # <<>> => runs[Len(runs)] \in Accepted
    BY ElementOfSeq, EmptySeq, LenProperties
  <2> QED
    BY <1>1, <2>1 DEF Execute
<1>2. ASSUME NEW c \in Callers, Refuse(c) PROVE TypedHistory'
  BY <1>2 DEF Refuse
<1>3. ASSUME NEW c \in Callers, SaveRequest(c) PROVE TypedHistory'
  BY <1>3 DEF SaveRequest
<1>4. ASSUME NEW c \in Callers, SaveRequestMeta(c) PROVE TypedHistory'
  BY <1>4 DEF SaveRequestMeta
<1>5. ASSUME NEW c \in Callers, Lookup(c) PROVE TypedHistory'
  BY <1>5 DEF Lookup
<1>6. ASSUME NEW c \in Callers, Send(c) PROVE TypedHistory'
  BY <1>6 DEF Send
<1>7. ASSUME NEW c \in Callers, Reply(c) PROVE TypedHistory'
  <2>1. given' = given /\ crashes' = crashes
    BY <1>7 DEF Reply
  <2>2. failures' \in {failures, failures + 1} /\ (failures' # failures => failures < MaxFailures)
    BY <1>7 DEF Reply
  <2> QED
    BY <2>1, <2>2
<1>8. ASSUME NEW c \in Callers, SaveResponse(c) PROVE TypedHistory'
  BY <1>8 DEF SaveResponse
<1>9. ASSUME NEW c \in Callers, SaveFiles(c) PROVE TypedHistory'
  BY <1>9 DEF SaveFiles, SaveFile
<1>10. ASSUME NEW c \in Callers, Guard(c) PROVE TypedHistory'
  BY <1>10 DEF Guard
<1>11. ASSUME NEW c \in Callers, Commit(c) PROVE TypedHistory'
  BY <1>11 DEF Commit
<1>12. ASSUME NEW c \in Callers, Return(c) PROVE TypedHistory'
  BY <1>12 DEF Return, ResponseSaved, ResponseOf
<1>13. ASSUME NEW c \in Callers, FaultRaised(c) PROVE TypedHistory'
  BY <1>13 DEF FaultRaised
<1>14. CASE Restart
  BY <1>14 DEF Restart
<1>15. CASE UNCHANGED vars
  BY <1>15
<1> QED
  BY <1>1, <1>2, <1>3, <1>4, <1>5, <1>6, <1>7, <1>8,
     <1>9, <1>10, <1>11, <1>12, <1>13, <1>14, <1>15 DEF Next, Progress

\* Storing the error run is all that changes its flag.
LEMMA FlagStep == ASSUME TypeOK, [Next]_vars PROVE failedRun' \in BOOLEAN
<1>1. failedRun \in BOOLEAN
  BY DEF TypeOK
<1>2. failedRun' \in {failedRun, TRUE}
  BY DEF Next, Progress, Execute, Refuse, SaveRequest, SaveRequestMeta, Lookup, Send, Reply,
         SaveResponse, SaveFiles, SaveFile, Guard, Commit, Return, FaultRaised, Restart
<1> QED
  BY <1>1, <1>2

\* Every step keeps the types.
LEMMA TypeStep == ASSUME TypeOK, ResponseSaved, [Next]_vars PROVE TypeOK'
BY DiskStep, LoopStep, HistoryStep, FlagStep
   DEF TypedDisk, TypedLoop, TypedHistory, TypeOK, Requests, Responses

-----------------------------------------------------------------------------
\* While one coroutine acts, the others are idle or wait for the model.
LEMMA Alone ==
    ASSUME TypeOK, Held, NEW c \in Callers, Execute(c) \/ Progress(c),
           NEW d \in Callers, d # c
    PROVE  pc'[d] = pc[d] /\ got'[d] = got[d] /\ pc[d] \in {"idle", "await"}
<1>1. loop \in {c, NoCaller}
  BY DEF Progress, Execute, Refuse, SaveRequest, SaveRequestMeta, Lookup, Send, Reply,
         SaveResponse, SaveFiles, SaveFile, Guard, Commit, Return, FaultRaised
<1>2. pc[d] \in {"idle", "await"}
  BY <1>1, Constants DEF Held, Working, TypeOK
<1>3. (\E p : Goto(c, p)) \/ pc' = pc
  BY DEF Progress, Execute, Refuse, SaveRequest, SaveRequestMeta, Lookup, Send, Reply,
         SaveResponse, SaveFiles, SaveFile, Guard, Commit, Return, FaultRaised
<1>4. (\E a : got' = [got EXCEPT ![c] = a]) \/ got' = got
  BY DEF Progress, Execute, Refuse, SaveRequest, SaveRequestMeta, Lookup, Send, Reply,
         SaveResponse, SaveFiles, SaveFile, Guard, Commit, Return, FaultRaised
<1> QED
  BY <1>2, <1>3, <1>4 DEF TypeOK

\* The loop stays with the coroutine that is between two awaits.
LEMMA HeldStep == ASSUME TypeOK, Held, [Next]_vars PROVE Held'
<1> USE Constants, Alone DEF TypeOK, Held, Working, PCs, Progress
<1>1. ASSUME NEW c \in Callers, Execute(c) PROVE Held'
  BY <1>1 DEF Execute
<1>2. ASSUME NEW c \in Callers, Refuse(c) PROVE Held'
  BY <1>2 DEF Refuse
<1>3. ASSUME NEW c \in Callers, SaveRequest(c) PROVE Held'
  BY ZenonT(40), <1>3 DEF SaveRequest
<1>4. ASSUME NEW c \in Callers, SaveRequestMeta(c) PROVE Held'
  BY <1>4 DEF SaveRequestMeta
<1>5. ASSUME NEW c \in Callers, Lookup(c) PROVE Held'
  BY <1>5 DEF Lookup
<1>6. ASSUME NEW c \in Callers, Send(c) PROVE Held'
  BY <1>6 DEF Send
<1>7. ASSUME NEW c \in Callers, Reply(c) PROVE Held'
  BY <1>7 DEF Reply
<1>8. ASSUME NEW c \in Callers, SaveResponse(c) PROVE Held'
  BY ZenonT(40), <1>8 DEF SaveResponse
<1>9. ASSUME NEW c \in Callers, SaveFiles(c) PROVE Held'
  BY <1>9 DEF SaveFiles, SaveFile
<1>10. ASSUME NEW c \in Callers, Guard(c) PROVE Held'
  BY ZenonT(40), <1>10 DEF Guard
<1>11. ASSUME NEW c \in Callers, Commit(c) PROVE Held'
  BY <1>11 DEF Commit
<1>12. ASSUME NEW c \in Callers, Return(c) PROVE Held'
  BY <1>12 DEF Return
<1>13. ASSUME NEW c \in Callers, FaultRaised(c) PROVE Held'
  BY <1>13 DEF FaultRaised
<1>14. CASE Restart
  BY <1>14 DEF Restart
<1>15. CASE UNCHANGED vars
  BY <1>15
<1> QED
  BY <1>1, <1>2, <1>3, <1>4, <1>5, <1>6, <1>7, <1>8,
     <1>9, <1>10, <1>11, <1>12, <1>13, <1>14, <1>15 DEF Next, Progress

\* Request evidence is never written over.
LEMMA RequestKept == ASSUME TypeOK, RequestSaved, [Next]_vars, Whole(request) PROVE request' = request
<1>1. request \in Requests /\ setup # Nothing
  BY Constants DEF TypeOK, Requests
<1>2. request.file # Nothing /\ request.meta # Nothing /\ Present(request) # {}
  BY <1>1, RequestFiles DEF NoRequest
<1>3. ASSUME NEW c \in Callers, SaveRequest(c) PROVE request' = request
  BY <1>2, <1>3 DEF SaveRequest
<1>4. ASSUME NEW c \in Callers, SaveRequestMeta(c) PROVE request' = request
  <2>1. request = [file |-> setup, meta |-> Nothing]
    BY <1>4 DEF SaveRequestMeta, RequestSaved, RequestOf
  <2> QED
    BY <1>2, <2>1
<1> QED
  BY <1>3, <1>4 DEF Next, Progress, Execute, Refuse, Lookup, Send, Reply,
              SaveResponse, SaveFiles, SaveFile, Guard, Commit, Return, FaultRaised, Restart

\* Every step that goes on leaves the request evidence it relies on.
LEMMA RequestStep == ASSUME TypeOK, Held, RequestSaved, [Next]_vars PROVE RequestSaved'
<1> USE Constants DEF TypeOK, RequestSaved, RequestOf, PCs
<1>1. ASSUME NEW c \in Callers, Execute(c) PROVE RequestOf(c)'
  BY <1>1 DEF Execute
<1>2. ASSUME NEW c \in Callers, Refuse(c) PROVE RequestOf(c)'
  BY <1>2 DEF Refuse
<1>3. ASSUME NEW c \in Callers, SaveRequest(c) PROVE RequestOf(c)'
  <2>1. request \in Requests /\ setup \in Setups
    BY DEF Requests
  <2>2. CASE Present(request) = {} /\ request' = [request EXCEPT !.file = setup] /\ Goto(c, "requestMeta")
    <3>1. request' = [file |-> setup, meta |-> Nothing]
      BY <2>1, <2>2, RequestFiles DEF NoRequest
    <3> QED
      BY <1>3, <2>2, <3>1 DEF SaveRequest
  <2>3. CASE request = [file |-> setup, meta |-> setup] /\ request' = request /\ Goto(c, "lookup")
    <3>1. request'.file # Nothing /\ request'.meta # Nothing /\ request' \in Requests
      BY <2>1, <2>3
    <3>2. Whole(request)'
      BY <3>1, RequestFiles
    <3> QED
      BY <2>3, <3>2
  <2>4. CASE Leave(c)
    BY <2>4
  <2> QED
    BY <1>3, <2>2, <2>3, <2>4 DEF SaveRequest
<1>4. ASSUME NEW c \in Callers, SaveRequestMeta(c) PROVE RequestOf(c)'
  <2>1. request = [file |-> setup, meta |-> Nothing] /\ setup \in Setups
    BY <1>4 DEF SaveRequestMeta
  <2>2. request' = [file |-> setup, meta |-> setup]
    BY <1>4, <2>1 DEF SaveRequestMeta
  <2>3. request' \in Requests
    BY <2>1, <2>2 DEF Requests
  <2>4. Whole(request)'
    BY <2>1, <2>2, <2>3, RequestFiles
  <2> QED
    BY <1>4, <2>4 DEF SaveRequestMeta
<1>5. ASSUME NEW c \in Callers, Lookup(c) PROVE RequestOf(c)'
  BY <1>5 DEF Lookup
<1>6. ASSUME NEW c \in Callers, Send(c) PROVE RequestOf(c)'
  BY <1>6 DEF Send
<1>7. ASSUME NEW c \in Callers, Reply(c) PROVE RequestOf(c)'
  BY <1>7 DEF Reply
<1>8. ASSUME NEW c \in Callers, SaveResponse(c) PROVE RequestOf(c)'
  BY <1>8 DEF SaveResponse
<1>9. ASSUME NEW c \in Callers, SaveFiles(c) PROVE RequestOf(c)'
  BY <1>9 DEF SaveFiles, SaveFile
<1>10. ASSUME NEW c \in Callers, Guard(c) PROVE RequestOf(c)'
  BY <1>10 DEF Guard
<1>11. ASSUME NEW c \in Callers, Commit(c) PROVE RequestOf(c)'
  BY <1>11 DEF Commit
<1>12. ASSUME NEW c \in Callers, Return(c) PROVE RequestOf(c)'
  BY <1>12 DEF Return
<1>13. ASSUME NEW c \in Callers, FaultRaised(c) PROVE RequestOf(c)'
  BY <1>13 DEF FaultRaised
<1>14. ASSUME NEW c \in Callers, Execute(c) \/ Progress(c) PROVE RequestSaved'
  <2>1. RequestOf(c)'
    BY <1>1, <1>2, <1>3, <1>4, <1>5, <1>6, <1>7, <1>8, <1>9,
       <1>10, <1>11, <1>12, <1>13, <1>14 DEF Progress
  <2>2. ASSUME NEW d \in Callers, d # c PROVE RequestOf(d)'
    BY <1>14, <2>2, Alone, RequestKept DEF Next
  <2> QED
    BY <2>1, <2>2
<1>15. CASE Restart
  BY <1>15 DEF Restart
<1>16. CASE UNCHANGED vars
  BY <1>16 DEF Whole, Present, Verified
<1> QED
  BY <1>14, <1>15, <1>16 DEF Next

\* Response evidence, once whole, is never written over.
LEMMA ResponseKept ==
    ASSUME TypeOK, ResponseSaved, [Next]_vars, Whole(response) PROVE response' = response
<1>1. response.raw # Nothing /\ response.parsed # Nothing /\ response.meta # Nothing
  BY ResponseFiles DEF TypeOK, Responses
<1>2. ASSUME NEW c \in Callers, SaveFiles(c) PROVE FALSE
  BY <1>1, <1>2 DEF SaveFiles, SaveFile, ResponseSaved, ResponseOf, NoResponse
<1> QED
  BY <1>2 DEF Next, Progress, Execute, Refuse, SaveRequest, SaveRequestMeta, Lookup, Send, Reply,
              SaveResponse, Guard, Commit, Return, FaultRaised, Restart

\* Saving a file of the response, in the order in which they are read back.
LEMMA SaveFilesStep ==
    ASSUME TypeOK, ResponseSaved, NEW c \in Callers, SaveFiles(c) PROVE ResponseOf(c)'
<1> USE DEF TypeOK, PCs
<1>1. got[c] \in Answers /\ got' = got /\ got[c] # Nothing
  BY Constants DEF SaveFiles, SaveFile, ResponseSaved, ResponseOf
<1>2. CASE SaveFile(c, "raw", "parsed")
  <2>1. response' = [raw |-> got[c], parsed |-> Nothing, meta |-> Nothing]
    <3>1. response = [raw |-> Nothing, parsed |-> Nothing, meta |-> Nothing]
      BY <1>2 DEF SaveFile, ResponseSaved, ResponseOf, NoResponse
    <3>2. response' = [response EXCEPT !.raw = got[c]]
      BY <1>2 DEF SaveFile
    <3> HIDE DEF TypeOK
    <3> QED
      BY <3>1, <3>2
  <2> QED
    BY <1>1, <1>2, <2>1 DEF SaveFile, ResponseOf
<1>3. CASE SaveFile(c, "parsed", "meta")
  <2>1. response' = [raw |-> got[c], parsed |-> got[c], meta |-> Nothing]
    <3>1. response = [raw |-> got[c], parsed |-> Nothing, meta |-> Nothing]
      BY <1>3 DEF SaveFile, ResponseSaved, ResponseOf
    <3>2. response' = [response EXCEPT !.parsed = got[c]]
      BY <1>3 DEF SaveFile
    <3> HIDE DEF TypeOK
    <3> QED
      BY <3>1, <3>2
  <2> QED
    BY <1>1, <1>3, <2>1 DEF SaveFile, ResponseOf
<1>4. CASE SaveFile(c, "meta", "saved")
  <2>1. response' = [raw |-> got[c], parsed |-> got[c], meta |-> got[c]]
    <3>1. response = [raw |-> got[c], parsed |-> got[c], meta |-> Nothing]
      BY <1>4 DEF SaveFile, ResponseSaved, ResponseOf
    <3>2. response' = [response EXCEPT !.meta = got[c]]
      BY <1>4 DEF SaveFile
    <3> HIDE DEF TypeOK
    <3> QED
      BY <3>1, <3>2
  <2>2. response' \in Responses
    BY <1>1, <2>1 DEF Responses
  <2>3. Proves(got[c])'
    BY <1>1, <2>1, <2>2, ResponseFiles DEF Proves, Verified
  <2> QED
    BY <1>1, <1>4, <2>3 DEF SaveFile, ResponseOf
<1> QED
  BY <1>2, <1>3, <1>4 DEF SaveFiles

\* Every step that goes on leaves the response evidence it relies on.
LEMMA ResponseStep ==
    ASSUME TypeOK, Held, ResponseSaved, [Next]_vars PROVE ResponseSaved'
<1> USE Constants DEF TypeOK, PCs
<1>1. ASSUME NEW c \in Callers, Execute(c) PROVE ResponseOf(c)'
  BY <1>1 DEF Execute, ResponseSaved, ResponseOf
<1>2. ASSUME NEW c \in Callers, Refuse(c) PROVE ResponseOf(c)'
  BY <1>2 DEF Refuse, ResponseOf
<1>3. ASSUME NEW c \in Callers, SaveRequest(c) PROVE ResponseOf(c)'
  BY <1>3 DEF SaveRequest, ResponseOf
<1>4. ASSUME NEW c \in Callers, SaveRequestMeta(c) PROVE ResponseOf(c)'
  BY <1>4 DEF SaveRequestMeta, ResponseOf
<1>5. ASSUME NEW c \in Callers, Lookup(c) PROVE ResponseOf(c)'
  <2>1. ResponseOf(c) /\ response' = response
    BY <1>5 DEF Lookup, ResponseSaved
  <2>2. CASE ~Whole(response) /\ Goto(c, "send") /\ got' = got
    BY <2>1, <2>2 DEF ResponseOf, Whole, Present
  <2>3. CASE Verified /\ got' = [got EXCEPT ![c] = response.parsed] /\ Goto(c, "guard")
    <3>1. response.parsed \in Answers
      BY <2>3, ResponseFiles DEF Verified, Responses
    <3>2. Proves(got[c])'
      BY <2>1, <2>3 DEF Proves, Verified, Whole, Present
    <3> QED
      BY <2>3, <3>1, <3>2 DEF ResponseOf
  <2>4. CASE Leave(c)
    BY <2>4 DEF ResponseOf
  <2> QED
    BY <1>5, <2>2, <2>3, <2>4 DEF Lookup
<1>6. ASSUME NEW c \in Callers, Send(c) PROVE ResponseOf(c)'
  BY <1>6 DEF Send, ResponseOf
<1>7. ASSUME NEW c \in Callers, Reply(c) PROVE ResponseOf(c)'
  <2>1. PICK a \in Answers \cup {Nothing} : got' = [got EXCEPT ![c] = a]
    BY <1>7 DEF Reply
  <2>2. CASE a \in Answers /\ Goto(c, "answered")
    BY <2>1, <2>2 DEF ResponseOf
  <2>3. CASE Leave(c)
    BY <2>3 DEF ResponseOf
  <2> QED
    BY <1>7, <2>1, <2>2, <2>3 DEF Reply
<1>8. ASSUME NEW c \in Callers, SaveResponse(c) PROVE ResponseOf(c)'
  <2>1. ResponseOf(c) /\ got[c] \in Answers /\ response' = response
    BY <1>8 DEF SaveResponse, ResponseSaved, ResponseOf
  <2>2. CASE Present(response) = {} /\ Goto(c, "raw") /\ got' = got
    <3>1. response = NoResponse
      BY <2>2, ResponseFiles DEF Responses
    <3> QED
      BY <2>1, <2>2, <3>1 DEF ResponseOf
  <2>3. CASE Verified /\ response.parsed = got[c] /\ Goto(c, "saved") /\ got' = got
    <3>1. Proves(got[c])'
      BY <2>1, <2>3 DEF Proves, Verified, Whole, Present
    <3> QED
      BY <2>1, <2>3, <3>1 DEF ResponseOf
  <2>4. CASE Leave(c)
    BY <2>4 DEF ResponseOf
  <2> QED
    BY <1>8, <2>2, <2>3, <2>4 DEF SaveResponse
<1>9. ASSUME NEW c \in Callers, SaveFiles(c) PROVE ResponseOf(c)'
  BY <1>9, SaveFilesStep
<1>10. ASSUME NEW c \in Callers, Guard(c) PROVE ResponseOf(c)'
  <2>1. ResponseOf(c) /\ response' = response
    BY <1>10 DEF Guard, ResponseSaved
  <2>2. CASE got[c] \in Accepted /\ Goto(c, "commit") /\ got' = got
    <3>1. got[c] \in Answers /\ Proves(got[c])
      BY <1>10, <2>1 DEF Guard, ResponseOf
    <3>2. Proves(got[c])'
      BY <2>1, <2>2, <3>1 DEF Proves, Verified, Whole, Present
    <3> QED
      BY <2>2, <3>1, <3>2 DEF ResponseOf
  <2>3. CASE Leave(c)
    BY <2>3 DEF ResponseOf
  <2> QED
    BY <1>10, <2>2, <2>3 DEF Guard
<1>11. ASSUME NEW c \in Callers, Commit(c) PROVE ResponseOf(c)'
  <2>1. ResponseOf(c) /\ response' = response
    BY <1>11 DEF Commit, ResponseSaved
  <2>2. CASE Goto(c, "mark") /\ got' = got
    <3>1. got[c] \in Accepted /\ Proves(got[c])
      BY <1>11, <2>1 DEF Commit, ResponseOf
    <3>2. Proves(got[c])'
      BY <2>1, <2>2, <3>1 DEF Proves, Verified, Whole, Present
    <3> QED
      BY <2>2, <3>1, <3>2 DEF ResponseOf
  <2>3. CASE Leave(c)
    BY <2>3 DEF ResponseOf
  <2> QED
    BY <1>11, <2>2, <2>3 DEF Commit
<1>12. ASSUME NEW c \in Callers, Return(c) PROVE ResponseOf(c)'
  BY <1>12 DEF Return, ResponseOf
<1>13. ASSUME NEW c \in Callers, FaultRaised(c) PROVE ResponseOf(c)'
  BY <1>13 DEF FaultRaised, ResponseOf
<1>14. ASSUME NEW c \in Callers, Execute(c) \/ Progress(c) PROVE ResponseSaved'
  <2>1. ResponseOf(c)'
    BY <1>1, <1>2, <1>3, <1>4, <1>5, <1>6, <1>7, <1>8, <1>9,
       <1>10, <1>11, <1>12, <1>13, <1>14 DEF Progress
  <2>2. ASSUME NEW d \in Callers, d # c PROVE ResponseOf(d)'
    <3>1. pc'[d] \in {"idle", "await"}
      BY <1>14, <2>2, Alone
    <3> QED
      BY <3>1 DEF ResponseOf
  <2> QED
    BY <2>1, <2>2 DEF ResponseSaved
<1>15. CASE Restart
  BY <1>15 DEF Restart, ResponseSaved, ResponseOf
<1>16. CASE UNCHANGED vars
  BY <1>16 DEF ResponseSaved, ResponseOf, Proves, Verified, Whole, Present
<1> QED
  BY <1>14, <1>15, <1>16 DEF Next

-----------------------------------------------------------------------------
\* An answer that the evidence proves is the answer of every run.
LEMMA OneProved ==
    ASSUME TypeOK, RunsProved, runs # <<>>, NEW a, Proves(a)
    PROVE  a = runs[1] /\ \A i \in DOMAIN runs : runs[i] = runs[1]
<1>1. 1 \in DOMAIN runs
  BY EmptySeq, LenProperties DEF TypeOK
<1> QED
  BY <1>1 DEF RunsProved, Proves

\* Who adds a run to the call, and which.
LEMMA RunsGrow ==
    ASSUME TypeOK, [Next]_vars
    PROVE  \/ runs' = runs /\ \A c \in Callers : pc'[c] = "mark" => pc[c] = "mark"
           \/ /\ \E c \in Callers :
                    /\ pc[c] = "commit" /\ Goto(c, "mark")
                    /\ runs' = Append(runs, got[c])
              /\ UNCHANGED <<evidence, given>>
<1> DEFINE Kept == runs' = runs /\ \A c \in Callers : pc'[c] = "mark" => pc[c] = "mark"
<1> USE DEF TypeOK
<1>1. ASSUME NEW c \in Callers, Execute(c) \/ Refuse(c) \/ SaveRequest(c) \/ SaveRequestMeta(c) PROVE Kept
  BY <1>1 DEF Execute, Refuse, SaveRequest, SaveRequestMeta
<1>2. ASSUME NEW c \in Callers, Lookup(c) \/ Send(c) \/ Reply(c) \/ SaveResponse(c) PROVE Kept
  BY <1>2 DEF Lookup, Send, Reply, SaveResponse
<1>3. ASSUME NEW c \in Callers, SaveFiles(c) \/ Guard(c) \/ Return(c) \/ FaultRaised(c) PROVE Kept
  BY <1>3 DEF SaveFiles, SaveFile, Guard, Return, FaultRaised
<1>4. ASSUME NEW c \in Callers, Commit(c), runs' = runs PROVE Kept
  <2>1. Leave(c) \/ (Len(runs) < MaxRuns /\ runs' = Append(runs, got[c]))
    BY <1>4 DEF Commit
  <2>2. runs' # Append(runs, got[c])
    <3>1. Len(Append(runs, got[c])) = Len(runs) + 1 /\ Len(runs) \in Nat
      OBVIOUS
    <3> QED
      BY <1>4, <3>1
  <2> QED
    BY <1>4, <2>1, <2>2
<1>5. ASSUME NEW c \in Callers, Commit(c), runs' # runs
      PROVE  /\ pc[c] = "commit" /\ Goto(c, "mark") /\ runs' = Append(runs, got[c])
             /\ UNCHANGED <<evidence, given>>
  BY <1>5 DEF Commit
<1>6. CASE Restart
  BY <1>6 DEF Restart
<1>7. CASE UNCHANGED vars
  BY <1>7
<1> QED
  BY <1>1, <1>2, <1>3, <1>4, <1>5, <1>6, <1>7 DEF Next, Progress

\* The workflow is given a committed answer or the answer in hand of a committed call.
LEMMA Given ==
    ASSUME TypeOK, [Next]_vars
    PROVE  \/ given' = given
           \/ runs # <<>> /\ given' = given \cup {runs[Len(runs)]} /\ runs' = runs
           \/ \E c \in Callers :
                 pc[c] = "mark" /\ given' = given \cup {got[c]} /\ runs' = runs
<1>1. ASSUME NEW c \in Callers, Execute(c)
      PROVE  \/ given' = given
             \/ runs # <<>> /\ given' = given \cup {runs[Len(runs)]} /\ runs' = runs
  BY <1>1 DEF Execute
<1>2. ASSUME NEW c \in Callers, Return(c)
      PROVE  pc[c] = "mark" /\ given' = given \cup {got[c]} /\ runs' = runs
  BY <1>2 DEF Return
<1> QED
  BY <1>1, <1>2 DEF Next, Progress, Refuse, SaveRequest, SaveRequestMeta, Lookup, Send, Reply,
         SaveResponse, SaveFiles, SaveFile, Guard, Commit, FaultRaised, Restart

\* What the evidence proves of a run, it goes on proving.
LEMMA RunKept ==
    ASSUME TypeOK, RequestSaved, ResponseSaved, [Next]_vars, Whole(request), NEW a, Proves(a)
    PROVE  (Whole(request) /\ Proves(a))'
<1>1. request' = request /\ response' = response
  BY RequestKept, ResponseKept DEF Proves, Verified
<1> QED
  BY <1>1 DEF Proves, Verified, Whole, Present

\* Every run is committed with the answer that the evidence proves.
LEMMA RunsStep ==
    ASSUME TypeOK, RequestSaved, ResponseSaved, RunsProved, [Next]_vars PROVE RunsProved'
<1>1. CASE runs' = runs /\ \A c \in Callers : pc'[c] = "mark" => pc[c] = "mark"
  <2>1. ASSUME NEW i \in DOMAIN runs PROVE (Whole(request) /\ Proves(runs[i]))'
    <3>1. Whole(request) /\ Proves(runs[i])
      BY DEF RunsProved
    <3>2. (Whole(request) /\ Proves(runs[i]))' <=> Whole(request)' /\ Verified' /\ response'.parsed = runs[i]
      BY <1>1 DEF Proves
    <3> QED
      BY <3>1, <3>2, RunKept DEF Proves
  <2>2. ASSUME NEW a \in given' PROVE runs # <<>> /\ a = runs[1]
    <3>1. CASE a \in given
      BY <3>1 DEF RunsProved
    <3>2. CASE runs # <<>> /\ a = runs[Len(runs)]
      <4>1. Len(runs) \in DOMAIN runs
        BY <3>2, EmptySeq, LenProperties DEF TypeOK
      <4> QED
        BY <3>2, <4>1, OneProved DEF RunsProved
    <3>3. ASSUME NEW c \in Callers, pc[c] = "mark", a = got[c] PROVE runs # <<>> /\ a = runs[1]
      <4>1. runs # <<>> /\ Proves(got[c])
        BY <3>3 DEF RunsProved, ResponseSaved, ResponseOf
      <4> QED
        BY <3>3, <4>1, OneProved
    <3> QED
      BY <3>1, <3>2, <3>3, Given
  <2> QED
    BY <1>1, <2>1, <2>2 DEF RunsProved
<1>2. ASSUME NEW c \in Callers, pc[c] = "commit", Goto(c, "mark"), runs' = Append(runs, got[c]),
             UNCHANGED <<evidence, given>>
      PROVE  RunsProved'
  <2>1. Whole(request) /\ Proves(got[c]) /\ got[c] \in Accepted
    BY <1>2 DEF RequestSaved, RequestOf, ResponseSaved, ResponseOf
  <2>2. /\ runs \in Seq(Accepted) /\ Len(runs) \in Nat /\ runs' \in Seq(Accepted)
        /\ Len(runs') = Len(runs) + 1 /\ DOMAIN runs' = 1 .. Len(runs) + 1
        /\ \A i \in 1 .. Len(runs) : runs'[i] = runs[i]
        /\ runs'[Len(runs) + 1] = got[c] /\ DOMAIN runs = 1 .. Len(runs)
    BY <1>2, <2>1, AppendProperties, LenProperties DEF TypeOK
  <2>3. ASSUME NEW i \in DOMAIN runs' PROVE (Whole(request) /\ Proves(runs[i]))'
    <3>1. Proves(runs'[i])
      BY <2>1, <2>2 DEF RunsProved
    <3> QED
      BY <1>2, <2>1, <3>1 DEF Proves, Verified, Whole, Present
  <2>4. runs' # <<>>
    BY <2>2
  <2>5. ASSUME NEW a \in given' PROVE a = runs'[1]
    <3>1. runs # <<>> /\ a = runs[1]
      BY <1>2 DEF RunsProved
    <3>2. 1 \in 1 .. Len(runs)
      BY <2>2, <3>1, EmptySeq
    <3> QED
      BY <2>2, <3>1, <3>2
  <2> QED
    BY <2>3, <2>4, <2>5 DEF RunsProved
<1> QED
  BY <1>1, <1>2, RunsGrow

-----------------------------------------------------------------------------
\* The invariant that everything below rests on: execute, the evidence writer and
\* the commit leave what each coroutine relies on, in every interleaving.
THEOREM Inductive == Spec => []IInv
<1>1. IInv /\ [Next]_vars => IInv'
  BY TypeStep, HeldStep, RequestStep, ResponseStep, RunsStep DEF IInv
<1> QED
  BY InitHolds, <1>1, PTL DEF Spec

\* Files, runs, markers and coroutines keep their types.
THEOREM CallTyped == Spec => []TypeOK
BY Inductive, PTL DEF IInv

\* Every model request is on disk before it is made, and every committed run is the
\* one answer that the response evidence proves, whatever overlaps, fails or dies.
THEOREM CallAudited == Spec => []Audited
<1>1. IInv => Audited
  BY DEF IInv, RequestSaved, RequestOf, RunsProved, Proves, Audited
<1> QED
  BY Inductive, <1>1, PTL

\* The step that asks the model finds no whole response on disk.
LEMMA AskStep ==
    ASSUME IInv, [Next]_vars, NEW c \in Callers, pc[c] # "await", pc'[c] = "await"
    PROVE  ~Whole(response)
<1> USE DEF IInv, TypeOK
<1>1. ASSUME NEW d \in Callers, Execute(d) \/ Progress(d) PROVE d = c
  BY <1>1, Alone
<1>2. ASSUME Execute(c) \/ Refuse(c) \/ SaveRequest(c) \/ SaveRequestMeta(c) PROVE FALSE
  BY <1>2 DEF Execute, Refuse, SaveRequest, SaveRequestMeta
<1>3. ASSUME Lookup(c) \/ Reply(c) \/ SaveResponse(c) PROVE FALSE
  BY <1>3 DEF Lookup, Reply, SaveResponse
<1>4. ASSUME SaveFiles(c) \/ Guard(c) \/ Commit(c) \/ Return(c) \/ FaultRaised(c) PROVE FALSE
  BY <1>4 DEF SaveFiles, SaveFile, Guard, Commit, Return, FaultRaised
<1>5. ASSUME Restart \/ UNCHANGED vars PROVE FALSE
  BY <1>5 DEF Restart
<1>6. CASE Send(c)
  BY <1>6 DEF Send, ResponseSaved, ResponseOf
<1> QED
  BY <1>1, <1>2, <1>3, <1>4, <1>5, <1>6 DEF Next, Progress

\* Once the answer is on disk whole, no execution asks the model again.
THEOREM CallAskedOnce == Spec => NeverAskedAgain
<1>1. IInv /\ [Next]_vars =>
      [(\E c \in Callers : pc[c] # "await" /\ pc'[c] = "await") => ~Whole(response)]_vars
  BY AskStep
<1> QED
  BY Inductive, <1>1, PTL DEF Spec, NeverAskedAgain

-----------------------------------------------------------------------------
\* Executions that may still commit: past the look for a run, not yet committed.
Pending == {c \in Callers : pc[c] \notin {"idle", "mark"}}
Counted == Len(runs) + Cardinality(Pending) <= Cardinality(Callers)

\* Once there is a run, no further execution gets past the look for it.
LEMMA NoneJoins ==
    ASSUME TypeOK, runs # <<>>, [Next]_vars, NEW c \in Callers, pc'[c] \notin {"idle", "mark"}
    PROVE  pc[c] \notin {"idle", "mark"}
<1> USE DEF TypeOK
<1>1. ASSUME NEW d \in Callers, pc[d] \notin {"idle", "mark"} \/ Leave(d) \/ pc' = pc,
             Execute(d) \/ Progress(d)
      PROVE  pc[c] \notin {"idle", "mark"}
  <2>1. (\E p : Goto(d, p)) \/ pc' = pc
    BY <1>1 DEF Progress, Execute, Refuse, SaveRequest, SaveRequestMeta, Lookup, Send, Reply,
           SaveResponse, SaveFiles, SaveFile, Guard, Commit, Return, FaultRaised
  <2> QED
    BY <1>1, <2>1
<1>2. ASSUME NEW d \in Callers, Execute(d) \/ Progress(d)
      PROVE  pc[d] \notin {"idle", "mark"} \/ Leave(d) \/ pc' = pc
  BY <1>2 DEF Progress, Execute, Refuse, SaveRequest, SaveRequestMeta, Lookup, Send, Reply,
         SaveResponse, SaveFiles, SaveFile, Guard, Commit, Return, FaultRaised
<1>3. CASE Restart
  BY <1>3 DEF Restart
<1>4. CASE UNCHANGED vars
  BY <1>4
<1> QED
  BY <1>1, <1>2, <1>3, <1>4 DEF Next

\* A commit takes its execution out of those that may still commit.
LEMMA CountedStep ==
    ASSUME IsFiniteSet(Callers), TypeOK, Counted, [Next]_vars PROVE Counted'
<1>1. /\ IsFiniteSet(Pending) /\ Cardinality(Pending) \in Nat
      /\ IsFiniteSet(Pending') /\ Cardinality(Pending') \in Nat
      /\ Cardinality(Pending') <= Cardinality(Callers)
      /\ Cardinality(Callers) \in Nat
  BY FS_Subset, FS_CardinalityType DEF Pending
<1>2. Len(runs) \in Nat
  BY LenProperties DEF TypeOK
<1>3. CASE runs' = runs /\ runs = <<>>
  BY <1>1, <1>3 DEF Counted
<1>4. CASE runs' = runs /\ runs # <<>>
  <2>1. Pending' \subseteq Pending
    BY <1>4, NoneJoins DEF Pending
  <2>2. Cardinality(Pending') <= Cardinality(Pending)
    BY <1>1, <2>1, FS_Subset
  <2> QED
    BY <1>1, <1>2, <1>4, <2>2 DEF Counted
<1>5. ASSUME NEW c \in Callers, pc[c] = "commit", Goto(c, "mark"), runs' = Append(runs, got[c])
      PROVE  Counted'
  <2>1. c \in Pending /\ Pending' = Pending \ {c}
    BY <1>5 DEF Pending, TypeOK
  <2>2. Cardinality(Pending') = Cardinality(Pending) - 1
    BY <1>1, <2>1, FS_RemoveElement
  <2>3. Len(runs') = Len(runs) + 1
    BY <1>5 DEF TypeOK
  <2> QED
    BY <1>1, <1>2, <2>2, <2>3 DEF Counted
<1> QED
  BY <1>3, <1>4, <1>5, RunsGrow

\* A call is committed at most once by each of the executions that overlap.
THEOREM CallCommittedOnce == ASSUME IsFiniteSet(Callers) PROVE Spec => []OneRunPerOverlap
<1>1. Init => Counted
  <2> SUFFICES ASSUME Init PROVE Counted
    OBVIOUS
  <2>1. Pending = {} /\ Len(runs) = 0
    BY DEF Init, Pending
  <2> QED
    BY <2>1, FS_EmptySet, FS_CardinalityType DEF Counted
<1>2. TypeOK /\ Counted /\ [Next]_vars => Counted'
  BY CountedStep
<1>3. TypeOK /\ Counted => OneRunPerOverlap
  <2> SUFFICES ASSUME TypeOK, Counted PROVE OneRunPerOverlap
    OBVIOUS
  <2>1. Cardinality(Pending) \in Nat /\ Cardinality(Callers) \in Nat /\ Len(runs) \in Nat
    BY FS_Subset, FS_CardinalityType, LenProperties DEF Pending, TypeOK
  <2> QED
    BY <2>1 DEF Counted, OneRunPerOverlap
<1> QED
  BY CallTyped, <1>1, <1>2, <1>3, PTL DEF Spec

-----------------------------------------------------------------------------
\* Every step of the call is a step of SingleResult, or none.
LEMMA ResultStep ==
    ASSUME IInv, [Next]_vars
    PROVE  \/ Result!Record \/ Result!Give
           \/ UNCHANGED <<IF runs = <<>> THEN Nothing ELSE runs[1], given>>
<1> DEFINE recorded == IF runs = <<>> THEN Nothing ELSE runs[1]
<1> USE DEF IInv
<1>1. CASE runs' = runs /\ given' = given
  BY <1>1
<1>2. CASE runs' = runs /\ \E a : runs # <<>> /\ a = runs[1] /\ given' = given \cup {a}
  <2>1. runs[1] # Nothing
    BY <1>2, Constants, EmptySeq, ElementOfSeq, LenProperties DEF TypeOK
  <2> QED
    BY <1>2, <2>1 DEF Result!Give
<1>3. CASE runs' = runs /\ given' # given
  <2>1. CASE runs # <<>> /\ given' = given \cup {runs[Len(runs)]}
    <3>1. Len(runs) \in DOMAIN runs
      BY <2>1, EmptySeq, LenProperties DEF TypeOK
    <3> QED
      BY <1>2, <1>3, <2>1, <3>1, OneProved DEF RunsProved
  <2>2. ASSUME NEW c \in Callers, pc[c] = "mark", given' = given \cup {got[c]}
        PROVE  Result!Give
    <3>1. runs # <<>> /\ got[c] = runs[1]
      BY <2>2, OneProved DEF RunsProved, ResponseSaved, ResponseOf
    <3>2. runs[1] # Nothing
      BY <3>1, Constants, EmptySeq, ElementOfSeq, LenProperties DEF TypeOK
    <3> QED
      BY <1>3, <2>2, <3>1, <3>2 DEF Result!Give
  <2> QED
    BY <1>3, <2>1, <2>2, Given
<1>4. ASSUME NEW c \in Callers, pc[c] = "commit", runs' = Append(runs, got[c]), given' = given
      PROVE  Result!Record \/ UNCHANGED <<recorded, given>>
  <2>1. got[c] \in Accepted /\ got[c] \in Answers /\ runs \in Seq(Accepted)
    BY <1>4 DEF ResponseSaved, ResponseOf, TypeOK
  <2>2. CASE runs = <<>>
    <3>1. runs' # <<>> /\ runs'[1] = got[c]
      BY <1>4, <2>1, <2>2
    <3> QED
      BY <1>4, <2>1, <2>2, <3>1 DEF Result!Record
  <2>3. CASE runs # <<>>
    <3>1. runs' # <<>> /\ runs'[1] = runs[1]
      BY <1>4, <2>1, <2>3
    <3> QED
      BY <1>4, <2>3, <3>1
  <2> QED
    BY <2>2, <2>3
<1> QED
  BY <1>1, <1>3, <1>4, RunsGrow

\* The call implements SingleResult: however many executions overlap, crash or are
\* repeated, the workflow is only ever given the answer recorded first.
THEOREM CallGivesOneAnswer == Spec => OneAnswer
<1>1. Init => Result!Init
  BY DEF Init, Result!Init
<1>2. IInv /\ [Next]_vars =>
      [Result!Record \/ Result!Give]_<<IF runs = <<>> THEN Nothing ELSE runs[1], given>>
  BY ResultStep
<1> QED
  BY Inductive, <1>1, <1>2, PTL DEF Spec, OneAnswer, Result!Spec
=============================================================================
