---------------------------- MODULE DemoFailure -----------------------------
(***************************************************************************)
(* The failures the PBS demo injects while its workload runs               *)
(* (kvsrv/pbs_demo.go): pbsSingleReplicaFailureLoop marks a victim dead at *)
(* every server and disables its links, and undoes all that later, while   *)
(* readers and writers pick coordinators from the marks.                   *)
(*                                                                         *)
(* The loop does the same few things in an order its options fix, so its   *)
(* state is the list of what it has still to do.  It can be cancelled      *)
(* wherever it sleeps; its deferred function then restores every victim.   *)
(* Durations are small numbers; what they decide is which failures there   *)
(* are, how long a sleep really takes is left open.  The demo starts       *)
(* neither gossip nor the failure detector (Membership), so nothing else   *)
(* changes a server's opinion of another.                                  *)
(***************************************************************************)
EXTENDS Integers, SequencesExt

CONSTANTS
  Server,
  PrefList,  \* the preference list of the key: the victims and the coordinators
  Options    \* the failure options of PBSDemoOptions, and the time it runs

ASSUME DemoFailureAssumption ==
  /\ PrefList \in Seq(Server) /\ Len(PrefList) >= 2
  /\ Options \subseteq [start : Nat, down : Nat, up : Nat, recover : Nat, overlap : Nat,
                        run : Nat \ {0}]

VARIABLES
  opts,    \* the options of this run
  script,  \* what the demo has still to do
  marked,  \* the servers markMemberStatus has reached in the step at hand
  dead,    \* <<n, v>>: v is Dead in the member table of n
  paused,  \* the servers whose gossip is switched off
  cut      \* <<from, to>>: the links net.Enable has disabled

loopVars == <<opts, script, marked, dead, paused, cut>>

-----------------------------------------------------------------------------
(* Which options there may be, and which failures they mean. *)

(* validatePBSDemoFailureOptions *)
ValidOptions(o) ==
  /\ o.up > 0 => o.down > 0
  /\ o.overlap > 0 => o.up > 0 /\ o.down > o.overlap
  /\ o.start > 0 /\ o.recover > 0 /\ o.down = 0 => o.recover > o.start

AlwaysDead(o) == o.start + o.down + o.up + o.recover = 0

(* countPBSDemoScheduledFailurePhases: how many failures begin in time. *)
Phases(o) ==
  IF AlwaysDead(o) THEN 1
  ELSE IF o.up > 0 THEN Cardinality({n \in 0..o.run : o.start + n * (o.down + o.up) < o.run})
  ELSE IF o.start < o.run THEN 1 ELSE 0

(* buildPBSFailureReplicaSequence: the preference list over and over. *)
VictimSequence(o) == [i \in 1..Phases(o) |-> PrefList[((i - 1) % Len(PrefList)) + 1]]

-----------------------------------------------------------------------------
(* What the demo does, step by step. *)

(* A sleep that takes no time cannot be cancelled. *)
Sleep(d) == IF d > 0 THEN <<<<"sleep">>>> ELSE <<>>

(* What is done to one server, in this order. *)
Each(ops, v) == [k \in DOMAIN ops |-> <<ops[k], v>>]

(* MUTANT of Down: the links go before the marks. *)
DownCutFirst(v) == Each(<<"pause", "isolate in", "isolate out", "dead">>, v)

Down(v) == Each(<<"pause", "dead", "isolate in", "isolate out">>, v)
Up(v) == Each(<<"alive", "join in", "join out", "resume">>, v)

(* One turn of the loop over the victims, at the i-th of them: it goes down *)
(* and comes back, or it is one of a pair of which the second goes down     *)
(* before the first comes back.  "check" is the look at the context with    *)
(* which each turn starts.                                                  *)
Turn(o, i) ==
  LET victims == VictimSequence(o)
      n == Len(victims)
      v == victims[i]
  IN  <<<<"check">>>> \o Down(v) \o
      IF o.overlap > 0 /\ i < n
      THEN Sleep(o.down - o.overlap) \o Down(victims[i + 1]) \o Sleep(o.overlap) \o Up(v)
           \o Sleep(o.down - o.overlap) \o Up(victims[i + 1])
           \o Sleep(IF i + 2 <= n THEN o.up ELSE 0)
      ELSE Sleep(o.down) \o Up(v) \o Sleep(IF i + 1 <= n THEN o.up ELSE 0)

(* The repeated failures, of one victim or of two in a turn. *)
Rounds(o) ==
  LET n == Len(VictimSequence(o))
      turns == IF o.overlap > 0 THEN [r \in 1 .. (n + 1) \div 2 |-> Turn(o, 2 * r - 1)]
               ELSE [r \in 1 .. n |-> Turn(o, r)]
  IN  FlattenSeq(turns)

(* The one failure when there is no time up: it ends after the time down,   *)
(* at the time of recovery, or with the run.                                *)
OneShot(o) ==
  LET v == VictimSequence(o)[1] IN
  Down(v) \o IF o.down > 0 THEN Sleep(o.down) \o Up(v)
             ELSE IF o.recover > 0 THEN Sleep(o.recover - o.start) \o Up(v)
             ELSE <<<<"wait">>>>

(* uniqueStringIDs: the victims in the order in which they first appear. *)
Unique(ids) ==
  LET seen[i \in 0 .. Len(ids)] ==
        IF i = 0 THEN <<>>
        ELSE IF Contains(seen[i - 1], ids[i]) THEN seen[i - 1] ELSE Append(seen[i - 1], ids[i])
  IN  seen[Len(ids)]

ForEach(ids, ops) == FlattenSeq([i \in DOMAIN ids |-> Each(ops, ids[i])])

(* When the scenario ends it enables the links of every victim once more. *)
JoinAll(o) == ForEach(Unique(VictimSequence(o)), <<"join in", "join out">>)

(* MUTANT of Restore: the deferred function knows the first victim only. *)
RestoreFirst(o) ==
  Each(<<"resume", "alive", "join in", "join out">>, VictimSequence(o)[1])

(* The deferred function of the loop. *)
Restore(o) ==
  ForEach(Unique(VictimSequence(o)), <<"resume", "alive", "join in", "join out">>)

(* pbsSingleReplicaFailureLoop and the end of the scenario.  Without any    *)
(* duration there is no loop: the first victim is down until the end.       *)
Script(o) ==
  IF VictimSequence(o) = <<>> THEN <<>>
  ELSE IF AlwaysDead(o) THEN Down(VictimSequence(o)[1]) \o <<<<"wait">>>> \o JoinAll(o)
  ELSE Sleep(o.start) \o (IF o.up > 0 THEN Rounds(o) ELSE OneShot(o)) \o Restore(o) \o JoinAll(o)

-----------------------------------------------------------------------------
At(op) == script # <<>> /\ Head(script)[1] = op
Victim == Head(script)[2]

LoopInit ==
  /\ opts \in {o \in Options : ValidOptions(o)}
  /\ script = Script(opts)
  /\ marked = {} /\ dead = {} /\ paused = {} /\ cut = {}

(* The timer of a sleep fires, or the context is not cancelled yet. *)
Elapse ==
  /\ At("sleep") \/ At("check")
  /\ script' = Tail(script)
  /\ UNCHANGED <<opts, marked, dead, paused, cut>>

(* The workload is over: failureCancel, or just the end of the scenario. *)
Cancel ==
  /\ At("sleep") \/ At("check") \/ At("wait")
  /\ script' = IF AlwaysDead(opts) THEN Tail(script) ELSE Restore(opts) \o JoinAll(opts)
  /\ UNCHANGED <<opts, marked, dead, paused, cut>>

SetPause ==
  /\ \/ At("pause") /\ paused' = paused \cup {Victim}
     \/ At("resume") /\ paused' = paused \ {Victim}
  /\ script' = Tail(script)
  /\ UNCHANGED <<opts, marked, dead, cut>>

(* markMemberStatus at one server after another, in the order of a Go map. *)
MarkMemberStatus(n) ==
  /\ n \notin marked
  /\ \/ At("dead") /\ dead' = dead \cup {<<n, Victim>>}
     \/ At("alive") /\ dead' = dead \ {<<n, Victim>>}
  /\ IF marked \cup {n} = Server
     THEN marked' = {} /\ script' = Tail(script)
     ELSE marked' = marked \cup {n} /\ UNCHANGED script
  /\ UNCHANGED <<opts, paused, cut>>

LinksTo(v) == Server \X {v}
LinksFrom(v) == {v} \X Server

(* pbsSetLabRPCVictimIsolated: every link to the victim, then every link    *)
(* from it.                                                                 *)
SetVictimIsolated ==
  /\ \/ At("isolate in") /\ cut' = cut \cup LinksTo(Victim)
     \/ At("isolate out") /\ cut' = cut \cup LinksFrom(Victim)
     \/ At("join in") /\ cut' = cut \ LinksTo(Victim)
     \/ At("join out") /\ cut' = cut \ LinksFrom(Victim)
  /\ script' = Tail(script)
  /\ UNCHANGED <<opts, marked, dead, paused>>

LoopNext ==
  Elapse \/ Cancel \/ SetPause \/ SetVictimIsolated \/ \E n \in Server : MarkMemberStatus(n)

LoopSpec == LoopInit /\ [][LoopNext]_loopVars

-----------------------------------------------------------------------------
(* pbsLiveCoordinatorCandidates: who pickCoordinator may choose.  Only the  *)
(* table of the first candidate is asked.                                   *)
LiveCandidates ==
  LET live == {v \in ToSet(PrefList) : <<PrefList[1], v>> \notin dead}
  IN  IF live = {} THEN ToSet(PrefList) ELSE live

Isolated(v) == \A u \in Server : <<u, v>> \in cut /\ <<v, u>> \in cut

(* v is being marked alive or its links are being enabled. *)
Returning(v) == \E op \in {"alive", "join in"} : At(op) /\ Victim = v

(* However the loop ends - done, cancelled in any sleep, with two victims   *)
(* down at once - nothing of a failure is left: no link disabled, no victim *)
(* silent, none marked dead.  (A replica that was dead all the time gets    *)
(* only its links back.)                                                    *)
RunRestored ==
  script = <<>> => cut = {} /\ (AlwaysDead(opts) \/ paused \cup dead = {})

(* No client is sent to a server that is cut off, although the marks are    *)
(* set server by server and only the first candidate's table is asked: an   *)
(* isolated server is not picked while there is another candidate, except   *)
(* when it is just coming back (it is marked alive before it is joined).    *)
CutOffNotPicked ==
  \A v \in LiveCandidates :
    Isolated(v) => Returning(v) \/ \A u \in ToSet(PrefList) : <<PrefList[1], u>> \in dead

=============================================================================
