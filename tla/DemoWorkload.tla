---------------------------- MODULE DemoWorkload ----------------------------
(***************************************************************************)
(* The workload of the PBS demo (runPBSDemoScenario of kvsrv/pbs_demo.go): *)
(* an initial value for every key, then readers and writers that call      *)
(* coordinators until a timer or a fatal error stops them, and the         *)
(* counters the evaluation divides by.                                     *)
(*                                                                         *)
(* What a coordinator replies is left open (Dynamo says what it means);    *)
(* keys, values and contexts decide nothing here.  "Empty" is the reply OK *)
(* without an object, and Unexpected what no case of the switches names.   *)
(***************************************************************************)
EXTENDS Naturals, FiniteSets

CONSTANTS
  Readers, Writers,
  NumKeys,      \* len(opts.Keys)
  MaxAttempts,  \* of writeInitialValue (the code: 50)
  MaxCalls      \* bound: the calls of readers and writers

ASSUME DemoWorkloadAssumption ==
  /\ Readers # {} /\ Writers # {} /\ Readers \cap Writers = {}
  /\ IsFiniteSet(Readers \cup Writers)
  /\ {NumKeys, MaxAttempts} \subseteq Nat \ {0} /\ MaxCalls \in Nat

VARIABLES
  phase,    \* where runPBSDemoScenario is
  initial,  \* the keys that have their initial value, and the attempts at the next
  pc,       \* where a worker is
  stop,     \* stopWorkers
  errCh,    \* the one element of workerErrCh, if any
  count,    \* the counters, and under "puts" the calls of demoPut
  recorded, \* the reads in the shared collector
  result    \* what runPBSDemoScenario has returned

workVars == <<phase, initial, pc, stop, errCh, count, recorded, result>>

Unexpected == {"ErrNotCoordinator"}
PutReply == {"OK", "ErrVersion", "ErrWriteQuorumNotMet", "ErrNoKey"} \cup Unexpected
GetReply == {"OK", "Empty", "ErrNoKey", "ErrReadQuorumNotMet"} \cup Unexpected
Counter ==
  {"puts", "writeOK", "writeErrVersion", "writeQuorumRetry", "writeNoKeyRetry", "writeOtherErr",
   "readOK", "readNoKey", "readQuorumRetry", "readErr", "refreshOK", "refreshErr",
   "readAttemptTotal"}
Workers == Readers \cup Writers

WorkInit ==
  /\ phase = "initial" /\ initial = [keys |-> 0, attempts |-> 0]
  /\ pc = [w \in Workers |-> IF w \in Readers THEN "read" ELSE "next"]
  /\ stop = FALSE /\ errCh = {} /\ count = [c \in Counter |-> 0]
  /\ recorded = 0 /\ result = "none"

Add(counters) == count' = [c \in Counter |-> count[c] + IF c \in counters THEN 1 ELSE 0]
Goto(w, label) == pc' = [pc EXCEPT ![w] = label]
MayCall == count["readAttemptTotal"] + count["puts"] < MaxCalls

-----------------------------------------------------------------------------
(* writeInitialValue, for one key after the other. *)

Return(r) == phase' = "done" /\ result' = r

InitialValue(reply) ==
  /\ phase = "initial"
  /\ \/ /\ reply = "OK"
        /\ initial' = [keys |-> initial.keys + 1, attempts |-> 0]
        /\ phase' = IF initial.keys + 1 = NumKeys THEN "running" ELSE phase
        /\ UNCHANGED result
     \/ /\ reply \notin {"OK"} \cup Unexpected
        /\ initial' = [initial EXCEPT !.attempts = @ + 1]
        /\ IF initial.attempts + 1 = MaxAttempts THEN Return("error") ELSE UNCHANGED <<phase, result>>
     \/ reply \in Unexpected /\ Return("error") /\ UNCHANGED initial
  /\ UNCHANGED <<pc, stop, errCh, count, recorded>>

-----------------------------------------------------------------------------
(* The workers. *)

(* MUTANT of ReportFatalErr: the channel has no buffer, and nobody is       *)
(* receiving yet.                                                           *)
ReportFatalErrUnbuffered(w) == Goto(w, "failed") /\ stop' = TRUE /\ UNCHANGED errCh

(* The first error stays in the channel; then the worker returns. *)
ReportFatalErr(w) ==
  /\ errCh' = IF errCh = {} THEN {w} ELSE errCh
  /\ stop' = TRUE
  /\ Goto(w, "failed")

GoOn(w, label) == Goto(w, label) /\ UNCHANGED <<stop, errCh>>

(* A reader looks at stopWorkers, counts its attempt and calls demoGet. *)
ReaderLoop(r) ==
  /\ pc[r] = "read"
  /\ \/ stop /\ GoOn(r, "done") /\ UNCHANGED count
     \/ ~stop /\ MayCall /\ GoOn(r, "get") /\ Add({"readAttemptTotal"})
  /\ UNCHANGED recorded

(* demoGet returns.  The coordinator has put a read that is OK in the       *)
(* collector.                                                               *)
ReaderGet(r, reply) ==
  /\ pc[r] = "get"
  /\ recorded' = recorded + IF reply \in {"OK", "Empty"} THEN 1 ELSE 0
  /\ \/ reply = "OK" /\ Add({"readOK"}) /\ GoOn(r, "read")
     \/ reply = "ErrNoKey" /\ Add({"readNoKey"}) /\ GoOn(r, "read")
     \/ reply = "ErrReadQuorumNotMet" /\ Add({"readQuorumRetry"}) /\ GoOn(r, "read")
     \/ reply \in {"Empty"} \cup Unexpected /\ Add({"readErr"}) /\ ReportFatalErr(r)

(* A writer looks at stopWorkers before every value... *)
WriterLoop(w) ==
  /\ pc[w] = "next"
  /\ GoOn(w, IF stop THEN "done" ELSE "try")
  /\ UNCHANGED <<count, recorded>>

(* MUTANT of WriterTry: a writer goes on until its value is written. *)
WriterTryAlways(w) ==
  /\ pc[w] = "try"
  /\ MayCall /\ GoOn(w, "put") /\ Add({"puts"})
  /\ UNCHANGED recorded

(* ...and before every attempt to write it. *)
WriterTry(w) ==
  /\ pc[w] = "try"
  /\ \/ stop /\ GoOn(w, "next") /\ UNCHANGED count
     \/ ~stop /\ MayCall /\ GoOn(w, "put") /\ Add({"puts"})
  /\ UNCHANGED recorded

(* MUTANT of WriterPut: the read that refreshes the context is not counted. *)
WriterPutRefreshUncounted(w, reply) ==
  /\ pc[w] = "put"
  /\ \/ reply = "OK" /\ Add({"writeOK"}) /\ GoOn(w, "next")
     \/ reply = "ErrVersion" /\ Add({"writeErrVersion"}) /\ GoOn(w, "refresh")
     \/ reply = "ErrWriteQuorumNotMet" /\ Add({"writeQuorumRetry"}) /\ GoOn(w, "refresh unmet")
     \/ reply = "ErrNoKey" /\ Add({"writeNoKeyRetry"}) /\ GoOn(w, "refresh unmet")
     \/ reply \in Unexpected /\ Add({"writeOtherErr"}) /\ ReportFatalErr(w)
  /\ UNCHANGED recorded

(* demoPut returns.  After an error the writer reads the latest context,    *)
(* and counts that as an attempt to read.                                   *)
WriterPut(w, reply) ==
  /\ pc[w] = "put"
  /\ \/ reply = "OK" /\ Add({"writeOK"}) /\ GoOn(w, "next")
     \/ /\ reply = "ErrVersion"
        /\ Add({"writeErrVersion", "readAttemptTotal"}) /\ GoOn(w, "refresh")
     \/ /\ reply = "ErrWriteQuorumNotMet"
        /\ Add({"writeQuorumRetry", "readAttemptTotal"}) /\ GoOn(w, "refresh unmet")
     \/ /\ reply = "ErrNoKey"
        /\ Add({"writeNoKeyRetry", "readAttemptTotal"}) /\ GoOn(w, "refresh unmet")
     \/ reply \in Unexpected /\ Add({"writeOtherErr"}) /\ ReportFatalErr(w)
  /\ UNCHANGED recorded

(* demoGetLatestContext returns.  A read that fails is counted only after   *)
(* ErrVersion.                                                              *)
WriterRefresh(w, reply) ==
  /\ pc[w] \in {"refresh", "refresh unmet"}
  /\ recorded' = recorded + IF reply \in {"OK", "Empty"} THEN 1 ELSE 0
  /\ \/ reply = "OK" /\ Add({"refreshOK"}) /\ GoOn(w, "try")
     \/ reply = "Empty" /\ Add({"refreshErr"}) /\ ReportFatalErr(w)
     \/ /\ reply \notin {"OK", "Empty"}
        /\ Add(IF pc[w] = "refresh" THEN {"refreshErr"} ELSE {}) /\ GoOn(w, "try")

ReaderStep(r) == ReaderLoop(r) \/ \E reply \in GetReply : ReaderGet(r, reply)

WriterStep(w) ==
  \/ WriterLoop(w) \/ WriterTry(w)
  \/ \E reply \in PutReply : WriterPut(w, reply)
  \/ \E reply \in GetReply : WriterRefresh(w, reply)

WorkloadStep(w) ==
  /\ phase \in {"running", "readers"}
  /\ IF w \in Readers THEN ReaderStep(w) ELSE WriterStep(w)
  /\ UNCHANGED <<phase, initial, result>>

-----------------------------------------------------------------------------
(* The scenario. *)

Returned(W) == \A w \in W : pc[w] \in {"done", "failed"}

(* time.AfterFunc(WorkloadDuration) *)
StopTimer ==
  /\ phase \in {"running", "readers"} /\ ~stop /\ stop' = TRUE
  /\ UNCHANGED <<phase, initial, pc, errCh, count, recorded, result>>

(* writersWG.Wait *)
WritersDone ==
  /\ phase = "running" /\ Returned(Writers)
  /\ stop' = TRUE /\ phase' = "readers"
  /\ UNCHANGED <<initial, pc, errCh, count, recorded, result>>

(* readersWG.Wait and the look into the channel. *)
ReadersDone ==
  /\ phase = "readers" /\ Returned(Readers)
  /\ Return(IF errCh = {} THEN "ok" ELSE "error")
  /\ UNCHANGED <<initial, pc, stop, errCh, count, recorded>>

ScenarioStep == StopTimer \/ WritersDone \/ ReadersDone

WorkNext ==
  \/ \E reply \in PutReply : InitialValue(reply)
  \/ \E w \in Workers : WorkloadStep(w)
  \/ ScenarioStep

WorkSpec == WorkInit /\ [][WorkNext]_workVars

-----------------------------------------------------------------------------
(* A scenario fails exactly when a worker has given up or a key has no      *)
(* initial value: of several fatal errors at once one is kept in the        *)
(* channel, and none is missed by a scenario that returns its counters.     *)
FatalErrorReturned ==
  phase = "done" =>
    (result = "error" <=> initial.keys < NumKeys \/ \E w \in Workers : pc[w] = "failed")

(* The denominator of the end-to-end probabilities counts every read the    *)
(* collector holds, also while calls are under way (ReadAttemptTotal: "every*)
(* demoGet and demoGetLatestContext"); and when the scenario succeeds the   *)
(* collector holds just the reads counted as OK.                            *)
AttemptsCoverReads ==
  /\ recorded <= count["readAttemptTotal"]
  /\ result = "ok" => recorded = count["readOK"] + count["refreshOK"]

(* The workers end after the timer or a fatal error, whatever the replies:  *)
(* a writer that never gets its value written does not hold the scenario.   *)
ScenarioEnds == phase = "running" ~> phase = "done"

=============================================================================
