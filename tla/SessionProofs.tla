---------------------------- MODULE SessionProofs ----------------------------
(***************************************************************************)
(* The faults and the shutdown of the session, for every number of nodes,  *)
(* every choice of tasks, every set of storage errors.                     *)
(*                                                                         *)
(* A fatal fault has a cause in one of few places: a panic, an error of    *)
(* the collector, a lost database thread, or a task that ended though      *)
(* nobody told it to.  The invariant follows each until it is published.   *)
(* For the last one it has to know why a sample consumer may end: its node *)
(* stopped sampling, which a storage error explains, or a culprit.  That   *)
(* no node samples once a storage error was read rests on the commands: a  *)
(* node that still samples has the command of the pause that is awaited.   *)
(* That success means completion rests on the order of the stages.         *)
(*                                                                         *)
(* Then one session with a peer, for every size of metadata, every window  *)
(* and all timeouts; the rounds of the application's bootstrap, for all    *)
(* that the host names may resolve to; and one job of the collector, for   *)
(* all hints, answers and limits.                                          *)
(***************************************************************************)
EXTENDS Session, PeerSession, Bootstrap, Worker, FiniteSetTheorems, SequenceTheorems,
        WellFoundedInduction, TLAPS

Faults == StorageErrors \cup FatalFaults
Reported == StorageErrors \cup {"collector_failed"}
TaskStates == {"running", "failing", "ok", "err", "panic", "joined"}
Stages == {"run", "fetch", "sampling", "nodes", "tasks", "save", "close", "done"}

SessionTypeOK ==
    /\ task \in [Roles -> TaskStates] /\ out \in [Roles -> Seq(Reported)]
    /\ sampling \in [Nodes -> BOOLEAN] /\ ingest \in [Nodes -> {"saved", "left", "lost"}]
    /\ current \in Faults \cup {"none"} /\ held \in StorageErrors \cup {"none"}
    /\ stage \in Stages /\ database \in {"open", "closed", "gone"}
    /\ unread \in BOOLEAN /\ log \in BOOLEAN /\ asked \in BOOLEAN /\ culprit \in BOOLEAN

(* What a fatal fault can come from.                                       *)
Told == Keepers \cup {Fetch}
CausesKnown ==
    /\ current \in FatalFaults => culprit
    /\ \A r \in Roles : task[r] = "panic" => culprit
    /\ \A r \in Roles : \A i \in DOMAIN out[r] : out[r][i] = "collector_failed" => culprit
    /\ database = "gone" /\ stage # "done" => culprit
EndsExplained ==
    /\ \A r \in Told : task[r] = "ok" => stage # "run"
    /\ asked => stage # "run"
    /\ \A n \in Nodes : task[Dispatcher(n)] = "ok" => culprit \/ asked
    /\ \A n \in Nodes : task[Sample(n)] = "ok" => ~sampling[n]
    /\ \A n \in Nodes : task[Sample(n)] # "joined" /\ ~sampling[n] /\ stage = "run"
                           => culprit \/ current # "none"

(* Who still samples.                                                      *)
PauseReaches ==
    /\ \A n \in Nodes : sampling[n] => NodeRuns(n)
    /\ held # "none" => \A n \in Nodes : sampling[n] => <<n, held>> \in cmds
    /\ ReadMeansPaused

(* What a stage may rely on.                                               *)
StagesInOrder ==
    /\ \A n \in Nodes : ingest[n] = "lost" => task[Sample(n)] = "panic" \/ log
    /\ stage \in {"save", "close"} => \A r \in Roles : task[r] = "joined"
    /\ stage = "close" => \A n \in Nodes : ingest[n] = "left" => log
    /\ result = "ok" => stage = "done"
    /\ OkIsComplete

SessionInv == SessionTypeOK /\ CausesKnown /\ EndsExplained /\ PauseReaches /\ StagesInOrder

-----------------------------------------------------------------------------
(* The roles, and what publishing does.                                    *)

LEMMA RoleFacts ==
    /\ Fetch \in Roles /\ Catalog \in Roles /\ Fetch \in Told /\ Told \subseteq Roles
    /\ Keepers \subseteq Told /\ Fetch \notin Keepers
    /\ \A n \in Nodes : /\ Dispatcher(n) \in Roles /\ Snapshot(n) \in Roles /\ Sample(n) \in Roles
                        /\ Dispatcher(n) \notin Told /\ Sample(n) \notin Told
    /\ \A n, m \in Nodes : /\ Dispatcher(n) # Sample(m)
                           /\ Dispatcher(n) = Dispatcher(m) => n = m
                           /\ Sample(n) = Sample(m) => n = m
    /\ \A r \in Roles : r \in Told \/ \E n \in Nodes : r = Dispatcher(n) \/ r = Sample(n)
<1>1. /\ Fetch \in Roles /\ Catalog \in Roles /\ Fetch \in Told /\ Told \subseteq Roles
      /\ Keepers \subseteq Told
  BY DEF Roles, Told, Keepers
<1>2. Fetch \notin Keepers
  <2>1. Fetch[1] = "fetch" /\ Catalog[1] = "catalog" /\ \A n : Snapshot(n)[1] = "snapshot"
    BY DEF Fetch, Catalog, Snapshot
  <2>2. Fetch # Catalog /\ \A n : Fetch # Snapshot(n)
    BY <2>1
  <2> QED
    BY <2>2 DEF Keepers
<1>3. ASSUME NEW n \in Nodes
      PROVE  /\ Dispatcher(n) \in Roles /\ Snapshot(n) \in Roles /\ Sample(n) \in Roles
             /\ Dispatcher(n) \notin Told /\ Sample(n) \notin Told
  <2>1. Dispatcher(n) \in Roles /\ Snapshot(n) \in Roles /\ Sample(n) \in Roles
    BY DEF Roles
  <2>2. /\ Fetch[1] = "fetch" /\ Catalog[1] = "catalog" /\ \A m : Snapshot(m)[1] = "snapshot"
        /\ Dispatcher(n)[1] = "dispatcher" /\ Sample(n)[1] = "sample"
    BY DEF Fetch, Catalog, Snapshot, Dispatcher, Sample
  <2>3. \A r \in Told : r[1] \in {"fetch", "catalog", "snapshot"}
    BY <2>2 DEF Told, Keepers
  <2>4. Dispatcher(n) \notin Told
    BY <2>2, <2>3
  <2>5. Sample(n) \notin Told
    BY <2>2, <2>3
  <2> QED
    BY <2>1, <2>4, <2>5
<1>4. ASSUME NEW n \in Nodes, NEW m \in Nodes
      PROVE  /\ Dispatcher(n) # Sample(m)
             /\ Dispatcher(n) = Dispatcher(m) => n = m
             /\ Sample(n) = Sample(m) => n = m
  BY DEF Dispatcher, Sample
<1>5. \A r \in Roles : r \in Told \/ \E n \in Nodes : r = Dispatcher(n) \/ r = Sample(n)
  BY DEF Roles, Told, Keepers
<1> QED
  BY <1>1, <1>2, <1>3, <1>4, <1>5

LEMMA FirstFatalIs ==
    ASSUME NEW fs \in Seq(Faults), NEW k \in DOMAIN fs, fs[k] \in FatalFaults
    PROVE  \E i \in DOMAIN fs : FirstFatal(fs, i)
<1> DEFINE S == {i \in DOMAIN fs : fs[i] \in FatalFaults}
<1>1. S \in SUBSET Nat /\ S # {} /\ DOMAIN fs = 1..Len(fs) /\ Len(fs) \in Nat
  OBVIOUS
<1>2. PICK n \in S : \A m \in S : ~(<<m, n>> \in OpToRel(<, Nat))
  BY <1>1, NatLessThanWellFounded, WFMin
<1>3. \A m \in S : m \in Nat /\ n \in Nat /\ ~(m < n)
  BY <1>1, <1>2 DEF OpToRel
<1>4. ASSUME NEW j \in 1..(n - 1) PROVE fs[j] \notin FatalFaults
  <2>1. n \in 1..Len(fs) /\ j \in DOMAIN fs /\ j < n
    BY <1>1
  <2> QED
    BY <1>3, <2>1
<1> QED
  BY <1>4 DEF FirstFatal

(* What observers can rely on after some faults were published.            *)
Spread(fs) ==
    /\ current' \in Faults \cup {"none"} /\ unread' \in BOOLEAN
    /\ current' = "none" => current = "none" /\ fs = <<>>
    /\ current' \in FatalFaults
          => current \in FatalFaults \/ \E i \in DOMAIN fs : fs[i] \in FatalFaults
    /\ ~unread' => ~unread /\ current' = current

LEMMA PublishedIs ==
    ASSUME NEW fs \in Seq(Faults), fs # <<>>
    PROVE  /\ Published(fs) \in Faults
           /\ Published(fs) \in FatalFaults => \E i \in DOMAIN fs : fs[i] \in FatalFaults
           /\ \A c : c \notin FatalFaults /\ (\A i \in DOMAIN fs : fs[i] = c) => Published(fs) = c
<1>1. Len(fs) \in DOMAIN fs /\ \A i \in DOMAIN fs : fs[i] \in Faults
  OBVIOUS
<1>2. CASE \E i \in DOMAIN fs : fs[i] \in FatalFaults
  <2> DEFINE k == CHOOSE i \in DOMAIN fs : FirstFatal(fs, i)
  <2>1. k \in DOMAIN fs /\ fs[k] \in FatalFaults
    BY <1>2, FirstFatalIs DEF FirstFatal
  <2>2. Published(fs) = fs[k]
    BY <1>2 DEF Published
  <2> HIDE DEF k
  <2> QED
    BY <1>1, <1>2, <2>1, <2>2
<1>3. CASE ~(\E i \in DOMAIN fs : fs[i] \in FatalFaults)
  BY <1>1, <1>3 DEF Published
<1> QED
  BY <1>2, <1>3

LEMMA PublishAllSpreads ==
    ASSUME NEW fs \in Seq(Faults), current \in Faults \cup {"none"}, unread \in BOOLEAN,
           PublishAll(fs)
    PROVE  Spread(fs)
<1>1. "none" \notin Faults
  BY FaultAssumption DEF Faults, FatalFaults
<1>2. /\ unread' \in BOOLEAN
      /\ current' = IF current \in FatalFaults \/ fs = <<>> THEN current ELSE Published(fs)
  BY DEF PublishAll
<1>3. CASE current \in FatalFaults \/ fs = <<>>
  <2>1. current' = current
    BY <1>2, <1>3
  <2>2. ~unread' => ~unread
    BY DEF PublishAll
  <2>3. current' = "none" => current = "none" /\ fs = <<>>
    BY <1>1, <1>3, <2>1 DEF Faults
  <2>4. current' \in FatalFaults
          => current \in FatalFaults \/ \E i \in DOMAIN fs : fs[i] \in FatalFaults
    BY <2>1
  <2> QED
    BY <1>2, <2>1, <2>2, <2>3, <2>4 DEF Spread
<1>4. CASE current \notin FatalFaults /\ fs # <<>>
  <2>1. current' = Published(fs)
    BY <1>2, <1>4
  <2>2. current' \in Faults
    BY <1>4, <2>1, PublishedIs
  <2>3. current' \in FatalFaults => \E i \in DOMAIN fs : fs[i] \in FatalFaults
    BY <1>4, <2>1, PublishedIs
  <2>4. ASSUME ~unread' PROVE ~unread /\ current' = current
    <3>1. ~unread /\ \A i \in DOMAIN fs : fs[i] = current
      BY <1>4, <2>4 DEF PublishAll
    <3> QED
      BY <1>4, <2>1, <3>1, PublishedIs
  <2>5. current' # "none"
    BY <1>1, <2>2
  <2> QED
    BY <1>2, <2>2, <2>3, <2>4, <2>5 DEF Spread
<1> QED
  BY <1>3, <1>4

LEMMA PublishSpreads ==
    ASSUME NEW f \in Faults, current \in Faults \cup {"none"}, unread \in BOOLEAN, Publish(f)
    PROVE  /\ current' \in Faults /\ current' # "none" /\ unread' \in BOOLEAN
           /\ current' \in FatalFaults => current \in FatalFaults \/ f \in FatalFaults
           /\ ~unread' => ~unread /\ current' = current
<1> DEFINE fs == <<f>>
<1>1. fs \in Seq(Faults) /\ fs # <<>> /\ DOMAIN fs = {1} /\ fs[1] = f
  OBVIOUS
<1>2. PublishAll(fs)
  BY DEF Publish
<1> HIDE DEF fs
<1>3. Spread(fs)
  BY <1>1, <1>2, PublishAllSpreads
<1> QED
  BY <1>1, <1>3 DEF Spread

-----------------------------------------------------------------------------
(* The steps.                                                              *)
LEMMA CollectorErrorStep ==
    ASSUME SessionInv, NEW f \in Reported, stage # "done", CollectorError(f)
    PROVE  SessionInv'
<1>1. f \in Faults
  BY DEF Faults, FatalFaults, Reported
<1>2. Publish(f)
  BY DEF CollectorError
<1>3. /\ current' \in Faults /\ current' # "none" /\ unread' \in BOOLEAN
      /\ current' \in FatalFaults => current \in FatalFaults \/ f \in FatalFaults
      /\ ~unread' => ~unread /\ current' = current
  BY <1>1, <1>2, PublishSpreads DEF SessionInv, SessionTypeOK
<1>4. SessionTypeOK'
  BY <1>3, RoleFacts DEF SessionInv, SessionTypeOK, TaskStates, Stages, CollectorError
<1>5. CausesKnown'
  <2>1. ASSUME NEW r \in Roles, NEW i \in DOMAIN out'[r], out'[r][i] = "collector_failed"
        PROVE  culprit'
    <3>1. /\ out' = [out EXCEPT ![Fetch] = Append(@, f)] /\ out \in [Roles -> Seq(Reported)]
          /\ culprit' = (culprit \/ f = "collector_failed")
      BY DEF CollectorError, SessionInv, SessionTypeOK
    <3>2. CASE r = Fetch
      <4>1. out'[r] = Append(out[Fetch], f) /\ out[Fetch] \in Seq(Reported)
        BY <3>1, <3>2, RoleFacts
      <4>2. \/ i \in DOMAIN out[Fetch] /\ out[Fetch][i] = "collector_failed"
            \/ f = "collector_failed"
        BY <2>1, <4>1
      <4> QED
        BY <3>1, <4>2, RoleFacts DEF SessionInv, CausesKnown
    <3>3. CASE r # Fetch
      BY <2>1, <3>1, <3>3 DEF SessionInv, CausesKnown
    <3> QED
      BY <3>2, <3>3
  <2>2. current' \in FatalFaults => culprit'
    <3>1. f \in FatalFaults => f = "collector_failed"
      BY FaultAssumption DEF Reported
    <3> QED
      BY <1>3, <3>1 DEF SessionInv, CausesKnown, CollectorError
  <2>3. \A r \in Roles : task'[r] = "panic" => culprit'
    BY RoleFacts DEF SessionInv, SessionTypeOK, CausesKnown, CollectorError
  <2>4. database' = "gone" /\ stage' # "done" => culprit'
    BY DEF SessionInv, CausesKnown, CollectorError
  <2> QED
    BY <2>1, <2>2, <2>3, <2>4 DEF CausesKnown
<1>6. EndsExplained'
  BY <1>3, RoleFacts DEF SessionInv, SessionTypeOK, EndsExplained, CollectorError
<1>7. PauseReaches'
  BY <1>3, RoleFacts
     DEF SessionInv, SessionTypeOK, PauseReaches, ReadMeansPaused, NodeRuns,
         CollectorError
<1>8. StagesInOrder'
  BY <1>3, RoleFacts
     DEF SessionInv, SessionTypeOK, StagesInOrder, OkIsComplete, CollectorError
<1> QED
  BY <1>4, <1>5, <1>6, <1>7, <1>8 DEF SessionInv

LEMMA FetchEndsStep ==
    ASSUME SessionInv, stage # "done", FetchEnds
    PROVE  SessionInv'
<1>4. SessionTypeOK'
  BY RoleFacts DEF SessionInv, SessionTypeOK, TaskStates, Stages, FetchEnds, watch, Closing
<1>5. CausesKnown'
  BY RoleFacts, FaultAssumption
     DEF SessionInv, SessionTypeOK, CausesKnown, FetchEnds, watch, Closing
<1>6. EndsExplained'
  BY RoleFacts DEF SessionInv, SessionTypeOK, EndsExplained, FetchEnds, watch, Closing
<1>7. PauseReaches'
  BY RoleFacts
     DEF SessionInv, SessionTypeOK, PauseReaches, ReadMeansPaused, NodeRuns, FetchEnds,
         watch, Closing
<1>8. StagesInOrder'
  BY RoleFacts
     DEF SessionInv, SessionTypeOK, StagesInOrder, OkIsComplete, FetchEnds, watch, Closing
<1> QED
  BY <1>4, <1>5, <1>6, <1>7, <1>8 DEF SessionInv

LEMMA KeeperFailsStep ==
    ASSUME SessionInv, NEW r \in Keepers, NEW e \in StorageErrors, stage # "done", KeeperFails(r, e)
    PROVE  SessionInv'
<1>10. /\ out' \in [Roles -> Seq(Reported)]
       /\ \A s \in Roles : \A i \in DOMAIN out'[s] : out'[s][i] = "collector_failed" => culprit'
  <2>1. /\ out' = [out EXCEPT ![r] = <<e>>] /\ out \in [Roles -> Seq(Reported)]
        /\ culprit' = culprit
        /\ r \in Roles
    BY RoleFacts DEF SessionInv, SessionTypeOK, KeeperFails
  <2>2. <<e>> \in Seq(Reported) /\ e # "collector_failed"
    BY FaultAssumption DEF Reported, FatalFaults
  <2>3. ASSUME NEW s \in Roles, NEW i \in DOMAIN out'[s], out'[s][i] = "collector_failed"
        PROVE  culprit'
    <3>1. CASE s = r
      <4>1. out'[s] = <<e>>
        BY <2>1, <3>1
      <4> QED
        BY <2>2, <2>3, <4>1
    <3>2. CASE s # r
      BY <2>1, <2>3, <3>2 DEF SessionInv, CausesKnown
    <3> QED
      BY <3>1, <3>2
  <2> QED
    BY <2>1, <2>2, <2>3
<1>4. SessionTypeOK'
  BY <1>10, RoleFacts DEF SessionInv, SessionTypeOK, TaskStates, Stages, KeeperFails, watch
<1>5. CausesKnown'
  BY <1>10, RoleFacts, FaultAssumption
     DEF SessionInv, SessionTypeOK, CausesKnown, KeeperFails, watch
<1>6. EndsExplained'
  BY RoleFacts DEF SessionInv, SessionTypeOK, EndsExplained, KeeperFails, watch
<1>7. PauseReaches'
  BY RoleFacts
     DEF SessionInv, SessionTypeOK, PauseReaches, ReadMeansPaused, NodeRuns, KeeperFails,
         watch
<1>8. StagesInOrder'
  BY RoleFacts
     DEF SessionInv, SessionTypeOK, StagesInOrder, OkIsComplete, KeeperFails, watch
<1> QED
  BY <1>4, <1>5, <1>6, <1>7, <1>8 DEF SessionInv

LEMMA KeeperStopsStep ==
    ASSUME SessionInv, NEW r \in Keepers, stage # "done", KeeperStops(r)
    PROVE  SessionInv'
<1>4. SessionTypeOK'
  BY RoleFacts
     DEF SessionInv, SessionTypeOK, TaskStates, Stages, KeeperStops, watch, Closing
<1>5. CausesKnown'
  BY RoleFacts, FaultAssumption
     DEF SessionInv, SessionTypeOK, CausesKnown, KeeperStops, watch, Closing
<1>6. EndsExplained'
  BY RoleFacts DEF SessionInv, SessionTypeOK, EndsExplained, KeeperStops, watch, Closing
<1>7. PauseReaches'
  BY RoleFacts
     DEF SessionInv, SessionTypeOK, PauseReaches, ReadMeansPaused, NodeRuns, KeeperStops,
         watch, Closing
<1>8. StagesInOrder'
  BY RoleFacts
     DEF SessionInv, SessionTypeOK, StagesInOrder, OkIsComplete, KeeperStops, watch,
         Closing
<1> QED
  BY <1>4, <1>5, <1>6, <1>7, <1>8 DEF SessionInv

LEMMA SampleFailsStep ==
    ASSUME SessionInv, NEW n \in Nodes, NEW e \in StorageErrors, stage # "done", SampleFails(n, e)
    PROVE  SessionInv'
<1>1. e \in Faults
  BY DEF Faults, FatalFaults, Reported
<1>2. Publish(e)
  BY DEF SampleFails
<1>3. /\ current' \in Faults /\ current' # "none" /\ unread' \in BOOLEAN
      /\ current' \in FatalFaults => current \in FatalFaults \/ e \in FatalFaults
      /\ ~unread' => ~unread /\ current' = current
  BY <1>1, <1>2, PublishSpreads DEF SessionInv, SessionTypeOK
<1>10. /\ out' \in [Roles -> Seq(Reported)]
       /\ \A s \in Roles : \A i \in DOMAIN out'[s] : out'[s][i] = "collector_failed" => culprit'
  <2>1. /\ out' = [out EXCEPT ![Sample(n)] = <<e>>] /\ out \in [Roles -> Seq(Reported)]
        /\ culprit' = culprit
        /\ Sample(n) \in Roles
    BY RoleFacts DEF SessionInv, SessionTypeOK, SampleFails
  <2>2. <<e>> \in Seq(Reported) /\ e # "collector_failed"
    BY FaultAssumption DEF Reported, FatalFaults
  <2>3. ASSUME NEW s \in Roles, NEW i \in DOMAIN out'[s], out'[s][i] = "collector_failed"
        PROVE  culprit'
    <3>1. CASE s = Sample(n)
      <4>1. out'[s] = <<e>>
        BY <2>1, <3>1
      <4> QED
        BY <2>2, <2>3, <4>1
    <3>2. CASE s # Sample(n)
      BY <2>1, <2>3, <3>2 DEF SessionInv, CausesKnown
    <3> QED
      BY <3>1, <3>2
  <2> QED
    BY <2>1, <2>2, <2>3
<1>4. SessionTypeOK'
  BY <1>10, <1>3, RoleFacts DEF SessionInv, SessionTypeOK, TaskStates, Stages, SampleFails
<1>5. CausesKnown'
  BY <1>10, <1>3, RoleFacts, FaultAssumption
     DEF SessionInv, SessionTypeOK, CausesKnown, SampleFails
<1>6. EndsExplained'
  BY <1>3, RoleFacts DEF SessionInv, SessionTypeOK, EndsExplained, SampleFails
<1>7. PauseReaches'
  BY <1>3, RoleFacts
     DEF SessionInv, SessionTypeOK, PauseReaches, ReadMeansPaused, NodeRuns, SampleFails
<1>8. StagesInOrder'
  BY <1>3, RoleFacts DEF SessionInv, SessionTypeOK, StagesInOrder, OkIsComplete, SampleFails
<1> QED
  BY <1>4, <1>5, <1>6, <1>7, <1>8 DEF SessionInv

LEMMA SampleEndsStep ==
    ASSUME SessionInv, NEW n \in Nodes, stage # "done", SampleEnds(n)
    PROVE  SessionInv'
<1>4. SessionTypeOK'
  BY RoleFacts DEF SessionInv, SessionTypeOK, TaskStates, Stages, SampleEnds, watch
<1>5. CausesKnown'
  BY RoleFacts, FaultAssumption
     DEF SessionInv, SessionTypeOK, CausesKnown, SampleEnds, watch
<1>6. EndsExplained'
  BY RoleFacts DEF SessionInv, SessionTypeOK, EndsExplained, SampleEnds, watch
<1>7. PauseReaches'
  BY RoleFacts
     DEF SessionInv, SessionTypeOK, PauseReaches, ReadMeansPaused, NodeRuns, SampleEnds,
         watch
<1>8. StagesInOrder'
  BY RoleFacts DEF SessionInv, SessionTypeOK, StagesInOrder, OkIsComplete, SampleEnds, watch
<1> QED
  BY <1>4, <1>5, <1>6, <1>7, <1>8 DEF SessionInv

LEMMA NodeStorageFaultStep ==
    ASSUME SessionInv, NEW n \in Nodes, NEW e \in StorageErrors, stage # "done", NodeStorageFault(n, e)
    PROVE  SessionInv'
<1>1. e \in Faults
  BY DEF Faults, FatalFaults, Reported
<1>2. Publish(e)
  BY DEF NodeStorageFault
<1>3. /\ current' \in Faults /\ current' # "none" /\ unread' \in BOOLEAN
      /\ current' \in FatalFaults => current \in FatalFaults \/ e \in FatalFaults
      /\ ~unread' => ~unread /\ current' = current
  BY <1>1, <1>2, PublishSpreads DEF SessionInv, SessionTypeOK
<1>4. SessionTypeOK'
  BY <1>3, RoleFacts DEF SessionInv, SessionTypeOK, TaskStates, Stages, NodeStorageFault
<1>5. CausesKnown'
  BY <1>3, RoleFacts, FaultAssumption
     DEF SessionInv, SessionTypeOK, CausesKnown, NodeStorageFault
<1>6. EndsExplained'
  BY <1>3, RoleFacts DEF SessionInv, SessionTypeOK, EndsExplained, NodeStorageFault
<1>7. PauseReaches'
  BY <1>3, RoleFacts
     DEF SessionInv, SessionTypeOK, PauseReaches, ReadMeansPaused, NodeRuns,
         NodeStorageFault
<1>8. StagesInOrder'
  BY <1>3, RoleFacts
     DEF SessionInv, SessionTypeOK, StagesInOrder, OkIsComplete, NodeStorageFault
<1> QED
  BY <1>4, <1>5, <1>6, <1>7, <1>8 DEF SessionInv

LEMMA RunPauseStep ==
    ASSUME SessionInv, NEW n \in Nodes, NEW e \in StorageErrors, stage # "done", RunPause(n, e)
    PROVE  SessionInv'
<1>1. e \in Faults
  BY DEF Faults, FatalFaults, Reported
<1>2. Publish(e)
  BY DEF RunPause
<1>3. /\ current' \in Faults /\ current' # "none" /\ unread' \in BOOLEAN
      /\ current' \in FatalFaults => current \in FatalFaults \/ e \in FatalFaults
      /\ ~unread' => ~unread /\ current' = current
  BY <1>1, <1>2, PublishSpreads DEF SessionInv, SessionTypeOK
<1>4. SessionTypeOK'
  BY <1>3, RoleFacts DEF SessionInv, SessionTypeOK, TaskStates, Stages, RunPause
<1>5. CausesKnown'
  BY <1>3, RoleFacts, FaultAssumption DEF SessionInv, SessionTypeOK, CausesKnown, RunPause
<1>6. EndsExplained'
  BY <1>3, RoleFacts DEF SessionInv, SessionTypeOK, EndsExplained, RunPause
<1>7. PauseReaches'
  BY <1>3, RoleFacts
     DEF SessionInv, SessionTypeOK, PauseReaches, ReadMeansPaused, NodeRuns, RunPause
<1>8. StagesInOrder'
  BY <1>3, RoleFacts DEF SessionInv, SessionTypeOK, StagesInOrder, OkIsComplete, RunPause
<1> QED
  BY <1>4, <1>5, <1>6, <1>7, <1>8 DEF SessionInv

LEMMA DispatcherEndsStep ==
    ASSUME SessionInv, NEW n \in Nodes, stage # "done", DispatcherEnds(n)
    PROVE  SessionInv'
<1>4. SessionTypeOK'
  BY RoleFacts DEF SessionInv, SessionTypeOK, TaskStates, Stages, DispatcherEnds, watch
<1>5. CausesKnown'
  BY RoleFacts, FaultAssumption
     DEF SessionInv, SessionTypeOK, CausesKnown, DispatcherEnds, watch
<1>6. EndsExplained'
  BY RoleFacts DEF SessionInv, SessionTypeOK, EndsExplained, DispatcherEnds, watch
<1>7. PauseReaches'
  BY RoleFacts
     DEF SessionInv, SessionTypeOK, PauseReaches, ReadMeansPaused, NodeRuns,
         DispatcherEnds, watch
<1>8. StagesInOrder'
  BY RoleFacts
     DEF SessionInv, SessionTypeOK, StagesInOrder, OkIsComplete, DispatcherEnds, watch,
         NodeRuns
<1> QED
  BY <1>4, <1>5, <1>6, <1>7, <1>8 DEF SessionInv

LEMMA TaskPanicsStep ==
    ASSUME SessionInv, NEW r \in Roles, stage # "done", TaskPanics(r)
    PROVE  SessionInv'
<1>4. SessionTypeOK'
  BY RoleFacts DEF SessionInv, SessionTypeOK, TaskStates, Stages, TaskPanics, watch
<1>5. CausesKnown'
  BY RoleFacts, FaultAssumption
     DEF SessionInv, SessionTypeOK, CausesKnown, TaskPanics, watch
<1>6. EndsExplained'
  BY RoleFacts DEF SessionInv, SessionTypeOK, EndsExplained, TaskPanics, watch
<1>7. PauseReaches'
  BY RoleFacts
     DEF SessionInv, SessionTypeOK, PauseReaches, ReadMeansPaused, NodeRuns, TaskPanics,
         watch
<1>8. StagesInOrder'
  BY RoleFacts DEF SessionInv, SessionTypeOK, StagesInOrder, OkIsComplete, TaskPanics, watch
<1> QED
  BY <1>4, <1>5, <1>6, <1>7, <1>8 DEF SessionInv

LEMMA DatabaseDiesStep ==
    ASSUME SessionInv, stage # "done", DatabaseDies
    PROVE  SessionInv'
<1>4. SessionTypeOK'
  BY RoleFacts DEF SessionInv, SessionTypeOK, TaskStates, Stages, DatabaseDies, watch
<1>5. CausesKnown'
  BY RoleFacts, FaultAssumption
     DEF SessionInv, SessionTypeOK, CausesKnown, DatabaseDies, watch
<1>6. EndsExplained'
  BY RoleFacts DEF SessionInv, SessionTypeOK, EndsExplained, DatabaseDies, watch
<1>7. PauseReaches'
  BY RoleFacts
     DEF SessionInv, SessionTypeOK, PauseReaches, ReadMeansPaused, NodeRuns, DatabaseDies,
         watch
<1>8. StagesInOrder'
  BY RoleFacts
     DEF SessionInv, SessionTypeOK, StagesInOrder, OkIsComplete, DatabaseDies, watch
<1> QED
  BY <1>4, <1>5, <1>6, <1>7, <1>8 DEF SessionInv

LEMMA ReturnFatalStep ==
    ASSUME SessionInv, ReturnFatal
    PROVE  SessionInv'
<1>4. SessionTypeOK'
  BY RoleFacts DEF SessionInv, SessionTypeOK, TaskStates, Stages, ReturnFatal, Idle
<1>5. CausesKnown'
  BY RoleFacts, FaultAssumption
     DEF SessionInv, SessionTypeOK, CausesKnown, ReturnFatal, Idle
<1>6. EndsExplained'
  BY RoleFacts DEF SessionInv, SessionTypeOK, EndsExplained, ReturnFatal, Idle
<1>7. PauseReaches'
  BY RoleFacts
     DEF SessionInv, SessionTypeOK, PauseReaches, ReadMeansPaused, NodeRuns, ReturnFatal,
         Idle
<1>8. StagesInOrder'
  BY RoleFacts DEF SessionInv, SessionTypeOK, StagesInOrder, OkIsComplete, ReturnFatal, Idle
<1> QED
  BY <1>4, <1>5, <1>6, <1>7, <1>8 DEF SessionInv

LEMMA BeginPauseStep ==
    ASSUME SessionInv, BeginPause
    PROVE  SessionInv'
<1>4. SessionTypeOK'
  BY RoleFacts DEF SessionInv, SessionTypeOK, TaskStates, Stages, BeginPause, watch, Idle
<1>5. CausesKnown'
  BY RoleFacts, FaultAssumption
     DEF SessionInv, SessionTypeOK, CausesKnown, BeginPause, watch, Idle
<1>6. EndsExplained'
  BY RoleFacts DEF SessionInv, SessionTypeOK, EndsExplained, BeginPause, watch, Idle
<1>7. PauseReaches'
  BY RoleFacts
     DEF SessionInv, SessionTypeOK, PauseReaches, ReadMeansPaused, NodeRuns, BeginPause,
         watch, Idle, PauseCommands
<1>8. StagesInOrder'
  BY RoleFacts
     DEF SessionInv, SessionTypeOK, StagesInOrder, OkIsComplete, BeginPause, watch, Idle
<1> QED
  BY <1>4, <1>5, <1>6, <1>7, <1>8 DEF SessionInv

LEMMA EndPauseStep ==
    ASSUME SessionInv, EndPause
    PROVE  SessionInv'
<1>4. SessionTypeOK'
  BY RoleFacts DEF SessionInv, SessionTypeOK, TaskStates, Stages, EndPause
<1>5. CausesKnown'
  BY RoleFacts, FaultAssumption DEF SessionInv, SessionTypeOK, CausesKnown, EndPause
<1>6. EndsExplained'
  BY RoleFacts DEF SessionInv, SessionTypeOK, EndsExplained, EndPause
<1>7. PauseReaches'
  BY RoleFacts
     DEF SessionInv, SessionTypeOK, PauseReaches, ReadMeansPaused, NodeRuns, EndPause
<1>8. StagesInOrder'
  BY RoleFacts DEF SessionInv, SessionTypeOK, StagesInOrder, OkIsComplete, EndPause
<1> QED
  BY <1>4, <1>5, <1>6, <1>7, <1>8 DEF SessionInv

LEMMA DropNextFaultStep ==
    ASSUME SessionInv, DropNextFault
    PROVE  SessionInv'
<1>4. SessionTypeOK'
  BY RoleFacts DEF SessionInv, SessionTypeOK, TaskStates, Stages, DropNextFault, watch
<1>5. CausesKnown'
  BY RoleFacts, FaultAssumption
     DEF SessionInv, SessionTypeOK, CausesKnown, DropNextFault, watch
<1>6. EndsExplained'
  BY RoleFacts DEF SessionInv, SessionTypeOK, EndsExplained, DropNextFault, watch
<1>7. PauseReaches'
  BY RoleFacts
     DEF SessionInv, SessionTypeOK, PauseReaches, ReadMeansPaused, NodeRuns, DropNextFault,
         watch
<1>8. StagesInOrder'
  BY RoleFacts
     DEF SessionInv, SessionTypeOK, StagesInOrder, OkIsComplete, DropNextFault, watch
<1> QED
  BY <1>4, <1>5, <1>6, <1>7, <1>8 DEF SessionInv

LEMMA SeeDatabaseGoneStep ==
    ASSUME SessionInv, SeeDatabaseGone
    PROVE  SessionInv'
<1>1. "database_exited" \in Faults
  BY DEF Faults, FatalFaults, Reported
<1>2. Publish("database_exited")
  BY DEF SeeDatabaseGone
<1>3. /\ current' \in Faults /\ current' # "none" /\ unread' \in BOOLEAN
      /\ current' \in FatalFaults => current \in FatalFaults \/ "database_exited" \in FatalFaults
      /\ ~unread' => ~unread /\ current' = current
  BY <1>1, <1>2, PublishSpreads DEF SessionInv, SessionTypeOK
<1>4. SessionTypeOK'
  BY <1>3, RoleFacts
     DEF SessionInv, SessionTypeOK, TaskStates, Stages, SeeDatabaseGone, Idle
<1>5. CausesKnown'
  BY <1>3, RoleFacts, FaultAssumption
     DEF SessionInv, SessionTypeOK, CausesKnown, SeeDatabaseGone, Idle
<1>6. EndsExplained'
  BY <1>3, RoleFacts DEF SessionInv, SessionTypeOK, EndsExplained, SeeDatabaseGone, Idle
<1>7. PauseReaches'
  BY <1>3, RoleFacts
     DEF SessionInv, SessionTypeOK, PauseReaches, ReadMeansPaused, NodeRuns,
         SeeDatabaseGone, Idle
<1>8. StagesInOrder'
  BY <1>3, RoleFacts
     DEF SessionInv, SessionTypeOK, StagesInOrder, OkIsComplete, SeeDatabaseGone, Idle
<1> QED
  BY <1>4, <1>5, <1>6, <1>7, <1>8 DEF SessionInv

LEMMA SignalStep ==
    ASSUME SessionInv, Signal
    PROVE  SessionInv'
<1>4. SessionTypeOK'
  BY RoleFacts DEF SessionInv, SessionTypeOK, TaskStates, Stages, Signal, watch
<1>5. CausesKnown'
  BY RoleFacts, FaultAssumption DEF SessionInv, SessionTypeOK, CausesKnown, Signal, watch
<1>6. EndsExplained'
  BY RoleFacts DEF SessionInv, SessionTypeOK, EndsExplained, Signal, watch
<1>7. PauseReaches'
  BY RoleFacts
     DEF SessionInv, SessionTypeOK, PauseReaches, ReadMeansPaused, NodeRuns, Signal, watch
<1>8. StagesInOrder'
  BY RoleFacts DEF SessionInv, SessionTypeOK, StagesInOrder, OkIsComplete, Signal, watch
<1> QED
  BY <1>4, <1>5, <1>6, <1>7, <1>8 DEF SessionInv

LEMMA CollectorReapedStep ==
    ASSUME SessionInv, CollectorReaped
    PROVE  SessionInv'
<1>4. SessionTypeOK'
  BY RoleFacts DEF SessionInv, SessionTypeOK, TaskStates, Stages, CollectorReaped, watch
<1>5. CausesKnown'
  BY RoleFacts, FaultAssumption
     DEF SessionInv, SessionTypeOK, CausesKnown, CollectorReaped, watch
<1>6. EndsExplained'
  BY RoleFacts DEF SessionInv, SessionTypeOK, EndsExplained, CollectorReaped, watch
<1>7. PauseReaches'
  BY RoleFacts
     DEF SessionInv, SessionTypeOK, PauseReaches, ReadMeansPaused, NodeRuns,
         CollectorReaped, watch
<1>8. StagesInOrder'
  BY RoleFacts
     DEF SessionInv, SessionTypeOK, StagesInOrder, OkIsComplete, CollectorReaped, watch
<1> QED
  BY <1>4, <1>5, <1>6, <1>7, <1>8 DEF SessionInv

LEMMA StopSamplersStep ==
    ASSUME SessionInv, StopSamplers
    PROVE  SessionInv'
<1>4. SessionTypeOK'
  BY RoleFacts DEF SessionInv, SessionTypeOK, TaskStates, Stages, StopSamplers, watch
<1>5. CausesKnown'
  BY RoleFacts, FaultAssumption
     DEF SessionInv, SessionTypeOK, CausesKnown, StopSamplers, watch
<1>6. EndsExplained'
  BY RoleFacts DEF SessionInv, SessionTypeOK, EndsExplained, StopSamplers, watch
<1>7. PauseReaches'
  BY RoleFacts
     DEF SessionInv, SessionTypeOK, PauseReaches, ReadMeansPaused, NodeRuns, StopSamplers,
         watch
<1>8. StagesInOrder'
  BY RoleFacts
     DEF SessionInv, SessionTypeOK, StagesInOrder, OkIsComplete, StopSamplers, watch
<1> QED
  BY <1>4, <1>5, <1>6, <1>7, <1>8 DEF SessionInv

LEMMA ShutNodesStep ==
    ASSUME SessionInv, ShutNodes
    PROVE  SessionInv'
<1>4. SessionTypeOK'
  BY RoleFacts DEF SessionInv, SessionTypeOK, TaskStates, Stages, ShutNodes, watch
<1>5. CausesKnown'
  BY RoleFacts, FaultAssumption DEF SessionInv, SessionTypeOK, CausesKnown, ShutNodes, watch
<1>6. EndsExplained'
  BY RoleFacts DEF SessionInv, SessionTypeOK, EndsExplained, ShutNodes, watch
<1>7. PauseReaches'
  BY RoleFacts
     DEF SessionInv, SessionTypeOK, PauseReaches, ReadMeansPaused, NodeRuns, ShutNodes,
         watch
<1>8. StagesInOrder'
  BY RoleFacts DEF SessionInv, SessionTypeOK, StagesInOrder, OkIsComplete, ShutNodes, watch
<1> QED
  BY <1>4, <1>5, <1>6, <1>7, <1>8 DEF SessionInv

LEMMA TasksReapedStep ==
    ASSUME SessionInv, TasksReaped
    PROVE  SessionInv'
<1>4. SessionTypeOK'
  BY RoleFacts DEF SessionInv, SessionTypeOK, TaskStates, Stages, TasksReaped, watch
<1>5. CausesKnown'
  BY RoleFacts, FaultAssumption
     DEF SessionInv, SessionTypeOK, CausesKnown, TasksReaped, watch
<1>6. EndsExplained'
  BY RoleFacts DEF SessionInv, SessionTypeOK, EndsExplained, TasksReaped, watch
<1>7. PauseReaches'
  BY RoleFacts
     DEF SessionInv, SessionTypeOK, PauseReaches, ReadMeansPaused, NodeRuns, TasksReaped,
         watch
<1>8. StagesInOrder'
  BY RoleFacts
     DEF SessionInv, SessionTypeOK, StagesInOrder, OkIsComplete, TasksReaped, watch
<1> QED
  BY <1>4, <1>5, <1>6, <1>7, <1>8 DEF SessionInv

LEMMA SaveNodesStep ==
    ASSUME SessionInv, SaveNodes
    PROVE  SessionInv'
<1>3. log' \in BOOLEAN
  BY Zenon DEF SessionInv, SessionTypeOK, SaveNodes
<1>4. SessionTypeOK'
  BY <1>3, RoleFacts DEF SessionInv, SessionTypeOK, TaskStates, Stages, SaveNodes, watch
<1>5. CausesKnown'
  BY RoleFacts, FaultAssumption DEF SessionInv, SessionTypeOK, CausesKnown, SaveNodes, watch
<1>6. EndsExplained'
  BY RoleFacts DEF SessionInv, SessionTypeOK, EndsExplained, SaveNodes, watch
<1>7. PauseReaches'
  BY RoleFacts
     DEF SessionInv, SessionTypeOK, PauseReaches, ReadMeansPaused, NodeRuns, SaveNodes,
         watch
<1>8. StagesInOrder'
  BY RoleFacts DEF SessionInv, SessionTypeOK, StagesInOrder, OkIsComplete, SaveNodes, watch
<1> QED
  BY <1>4, <1>5, <1>6, <1>7, <1>8 DEF SessionInv

LEMMA CloseDatabaseStep ==
    ASSUME SessionInv, CloseDatabase
    PROVE  SessionInv'
<1>4. SessionTypeOK'
  BY RoleFacts DEF SessionInv, SessionTypeOK, TaskStates, Stages, CloseDatabase, watch
<1>5. CausesKnown'
  BY RoleFacts, FaultAssumption
     DEF SessionInv, SessionTypeOK, CausesKnown, CloseDatabase, watch
<1>6. EndsExplained'
  BY RoleFacts DEF SessionInv, SessionTypeOK, EndsExplained, CloseDatabase, watch
<1>7. PauseReaches'
  BY RoleFacts
     DEF SessionInv, SessionTypeOK, PauseReaches, ReadMeansPaused, NodeRuns, CloseDatabase,
         watch
<1>8. StagesInOrder'
  BY RoleFacts
     DEF SessionInv, SessionTypeOK, StagesInOrder, OkIsComplete, CloseDatabase, watch,
         ClosedOk
<1> QED
  BY <1>4, <1>5, <1>6, <1>7, <1>8 DEF SessionInv

LEMMA DeadlineStep ==
    ASSUME SessionInv, Deadline
    PROVE  SessionInv'
<1>4. SessionTypeOK'
  BY RoleFacts DEF SessionInv, SessionTypeOK, TaskStates, Stages, Deadline, watch, Closing
<1>5. CausesKnown'
  BY RoleFacts, FaultAssumption
     DEF SessionInv, SessionTypeOK, CausesKnown, Deadline, watch, Closing
<1>6. EndsExplained'
  BY RoleFacts DEF SessionInv, SessionTypeOK, EndsExplained, Deadline, watch, Closing
<1>7. PauseReaches'
  BY RoleFacts
     DEF SessionInv, SessionTypeOK, PauseReaches, ReadMeansPaused, NodeRuns, Deadline,
         watch, Closing
<1>8. StagesInOrder'
  BY RoleFacts
     DEF SessionInv, SessionTypeOK, StagesInOrder, OkIsComplete, Deadline, watch, Closing
<1> QED
  BY <1>4, <1>5, <1>6, <1>7, <1>8 DEF SessionInv

(* The end of a task stands for a fatal fault only with a culprit.         *)
LEMMA TaskFaultsCaused ==
    ASSUME SessionInv, NEW r \in Roles, task[r] \in Ended
    PROVE  /\ TaskFaults(r) \in Seq(Faults)
           /\ \A i \in DOMAIN TaskFaults(r) : TaskFaults(r)[i] \in FatalFaults => culprit
           /\ task[r] = "panic" => TaskFaults(r) # <<>>
<1>1. /\ <<>> \in Seq(Faults) /\ <<"task_exited">> \in Seq(Faults) /\ <<"task_failed">> \in Seq(Faults)
      /\ DOMAIN <<>> = {} /\ <<"task_failed">> # <<>>
  BY DEF Faults, FatalFaults
<1>2. CASE task[r] = "panic"
  <2>1. TaskFaults(r) = <<"task_failed">>
    BY <1>2 DEF TaskFaults
  <2>2. culprit
    BY <1>2 DEF SessionInv, CausesKnown
  <2> QED
    BY <1>1, <2>1, <2>2
<1>3. CASE task[r] = "err"
  <2>1. TaskFaults(r) = out[r] /\ out[r] \in Seq(Reported)
    BY <1>3 DEF TaskFaults, SessionInv, SessionTypeOK
  <2>2. Reported \subseteq Faults /\ \A f \in Reported : f \in FatalFaults => f = "collector_failed"
    BY FaultAssumption DEF Reported, Faults, FatalFaults
  <2>3. out[r] \in Seq(Faults) /\ \A i \in DOMAIN out[r] : out[r][i] \in Reported
    BY <2>1, <2>2
  <2>4. \A i \in DOMAIN out[r] : out[r][i] \in FatalFaults => culprit
    BY <2>2, <2>3 DEF SessionInv, CausesKnown
  <2> QED
    BY <1>3, <2>1, <2>3, <2>4
<1>4. CASE task[r] = "ok"
  <2> DEFINE quiet == r \in {Sample(n) : n \in Nodes} /\ current \in StorageErrors
  <2>1. CASE quiet
    <3>1. TaskFaults(r) = <<>>
      BY <1>4, <2>1 DEF TaskFaults
    <3> QED
      BY <1>1, <1>4, <3>1
  <2>2. CASE ~quiet
    <3>1. TaskFaults(r) = IF stage # "run" THEN <<>> ELSE <<"task_exited">>
      BY <1>4, <2>2 DEF TaskFaults, TaskExitedUnlessClosing, Closing
    <3>2. ASSUME stage = "run" PROVE culprit
      <4>1. r \notin Told
        BY <1>4, <3>2 DEF SessionInv, EndsExplained
      <4>2. PICK n \in Nodes : r = Dispatcher(n) \/ r = Sample(n)
        BY <4>1, RoleFacts
      <4>3. CASE r = Dispatcher(n)
        BY <1>4, <3>2, <4>3 DEF SessionInv, EndsExplained
      <4>4. CASE r = Sample(n)
        <5>1. current \notin StorageErrors
          BY <2>2, <4>4
        <5>2. culprit \/ current # "none"
          BY <1>4, <3>2, <4>4 DEF SessionInv, EndsExplained
        <5>3. current \in FatalFaults => culprit
          BY DEF SessionInv, CausesKnown
        <5>4. current \in StorageErrors \cup FatalFaults \cup {"none"}
          BY DEF SessionInv, SessionTypeOK, Faults
        <5> QED
          BY <5>1, <5>2, <5>3, <5>4
      <4> QED
        BY <4>2, <4>3, <4>4
    <3> QED
      BY <1>1, <1>4, <3>1, <3>2
  <2> QED
    BY <2>1, <2>2
<1> QED
  BY <1>2, <1>3, <1>4 DEF Ended

LEMMA AcceptTaskStep ==
    ASSUME SessionInv, stage \in {"run", "fetch", "tasks"}, NEW r \in Roles, AcceptTask(r)
    PROVE  SessionInv'
<1> DEFINE fs == TaskFaults(r)
<1>1. /\ task[r] \in Ended /\ task' = [task EXCEPT ![r] = "joined"]
      /\ PublishAll(fs) /\ log' = (log \/ fs # <<>>)
      /\ UNCHANGED <<held, cmds, sampling, out, ingest, stage, asked, database, result, culprit>>
  BY DEF AcceptTask
<1>2. /\ fs \in Seq(Faults) /\ \A i \in DOMAIN fs : fs[i] \in FatalFaults => culprit
      /\ task[r] = "panic" => fs # <<>>
  BY <1>1, TaskFaultsCaused
<1> HIDE DEF fs
<1>3. Spread(fs)
  BY <1>1, <1>2, PublishAllSpreads DEF SessionInv, SessionTypeOK
<1>4. SessionTypeOK'
  <2>1. log' \in BOOLEAN
    BY <1>1
  <2> QED
    BY <1>1, <1>3, <2>1 DEF SessionInv, SessionTypeOK, TaskStates, Spread
<1>5. CausesKnown'
  BY <1>1, <1>2, <1>3 DEF SessionInv, SessionTypeOK, CausesKnown, Spread
<1>6. EndsExplained'
  BY <1>1, <1>3, RoleFacts DEF SessionInv, SessionTypeOK, EndsExplained, Spread
<1>7. PauseReaches'
  BY <1>1, <1>3, RoleFacts
     DEF SessionInv, SessionTypeOK, PauseReaches, ReadMeansPaused, NodeRuns,
                               Ended, Spread
<1>8. StagesInOrder'
  BY <1>1, <1>2, RoleFacts DEF SessionInv, SessionTypeOK, StagesInOrder, OkIsComplete
<1> QED
  BY <1>4, <1>5, <1>6, <1>7, <1>8 DEF SessionInv

LEMMA SessionInvInit == SessionInit => SessionInv
<1> SUFFICES ASSUME SessionInit PROVE SessionInv
  OBVIOUS
<1>1. /\ current = "none" /\ unread = FALSE /\ held = "none" /\ log = FALSE /\ stage = "run"
      /\ asked = FALSE /\ database = "open" /\ result = "none" /\ culprit = FALSE
      /\ \A r \in Roles : task[r] = (IF r \in Started THEN "running" ELSE "joined") /\ out[r] = <<>>
      /\ \A n \in Nodes : sampling[n] = (Sample(n) \in Started) /\ ingest[n] = "saved"
  BY DEF SessionInit
<1>2. current \notin FatalFaults /\ current \notin StorageErrors /\ current \in Faults \cup {"none"}
  BY <1>1, FaultAssumption DEF FatalFaults
<1>3. SessionTypeOK
  <2>1. <<>> \in Seq(Reported)
    OBVIOUS
  <2>2. task \in [Roles -> TaskStates] /\ ingest \in [Nodes -> {"saved", "left", "lost"}]
    BY DEF SessionInit, TaskStates
  <2>3. out \in [Roles -> Seq(Reported)]
    BY <2>1 DEF SessionInit
  <2>4. sampling \in [Nodes -> BOOLEAN]
    BY DEF SessionInit
  <2> QED
    BY <1>1, <1>2, <2>2, <2>3, <2>4 DEF SessionTypeOK, Stages
<1>4. CausesKnown
  BY <1>1, <1>2 DEF CausesKnown
<1>5. EndsExplained
  <2>1. \A r \in Roles : task[r] # "ok"
    BY <1>1
  <2>2. ASSUME NEW n \in Nodes, ~sampling[n] PROVE task[Sample(n)] = "joined"
    BY <1>1, <2>2, RoleFacts
  <2> QED
    BY <1>1, <2>1, <2>2, RoleFacts DEF EndsExplained
<1>6. PauseReaches
  BY <1>1, <1>2, StartedAssumption, RoleFacts DEF PauseReaches, ReadMeansPaused, NodeRuns
<1>7. StagesInOrder
  BY <1>1 DEF StagesInOrder, OkIsComplete
<1> QED
  BY <1>3, <1>4, <1>5, <1>6, <1>7 DEF SessionInv

LEMMA SessionInvNext == SessionInv /\ [SessionNext]_sessionVars => SessionInv'
<1> SUFFICES ASSUME SessionInv, [SessionNext]_sessionVars PROVE SessionInv'
  OBVIOUS
<1>1. CASE stage # "done" /\ TaskStep
  <2>1. CASE \E f \in StorageErrors \cup {"collector_failed"} : CollectorError(f)
    BY <1>1, <2>1, CollectorErrorStep DEF Reported
  <2>2. CASE FetchEnds
    BY <1>1, <2>2, FetchEndsStep
  <2>3. CASE \E r \in Keepers : KeeperStops(r) \/ \E e \in StorageErrors : KeeperFails(r, e)
    BY <1>1, <2>3, KeeperStopsStep, KeeperFailsStep
  <2>4. CASE \E n \in Nodes : SampleEnds(n) \/ DispatcherEnds(n)
    BY <1>1, <2>4, SampleEndsStep, DispatcherEndsStep
  <2>5. CASE \E n \in Nodes, e \in StorageErrors :
                SampleFails(n, e) \/ NodeStorageFault(n, e) \/ RunPause(n, e)
    BY <1>1, <2>5, SampleFailsStep, NodeStorageFaultStep, RunPauseStep
  <2>6. CASE \E r \in Roles : TaskPanics(r)
    BY <1>1, <2>6, TaskPanicsStep
  <2>7. CASE DatabaseDies
    BY <1>1, <2>7, DatabaseDiesStep
  <2> QED
    BY <1>1, <2>1, <2>2, <2>3, <2>4, <2>5, <2>6, <2>7 DEF TaskStep
<1>2. CASE SupervisorStep
  <2>1. CASE \E r \in Roles : AcceptRunning(r)
    BY <2>1, AcceptTaskStep DEF AcceptRunning, Idle
  <2>2. CASE ReturnFatal \/ BeginPause \/ EndPause \/ DropNextFault \/ SeeDatabaseGone
    BY <2>2, ReturnFatalStep, BeginPauseStep, EndPauseStep, DropNextFaultStep, SeeDatabaseGoneStep
  <2> QED
    BY <1>2, <2>1, <2>2 DEF SupervisorStep
<1>3. CASE Signal
  BY <1>3, SignalStep
<1>4. CASE ShutdownStep
  <2>1. CASE \E r \in Roles : AcceptClosing(r)
    BY <2>1, AcceptTaskStep DEF AcceptClosing
  <2>2. CASE CollectorReaped \/ StopSamplers \/ ShutNodes
    BY <2>2, CollectorReapedStep, StopSamplersStep, ShutNodesStep
  <2>3. CASE TasksReaped \/ SaveNodes \/ CloseDatabase
    BY <2>3, TasksReapedStep, SaveNodesStep, CloseDatabaseStep
  <2> QED
    BY <1>4, <2>1, <2>2, <2>3 DEF ShutdownStep
<1>5. CASE Deadline
  BY <1>5, DeadlineStep
<1>6. CASE UNCHANGED sessionVars
  BY <1>6
     DEF sessionVars, SessionInv, SessionTypeOK, CausesKnown, EndsExplained, PauseReaches,
              ReadMeansPaused, NodeRuns, StagesInOrder, OkIsComplete
<1> QED
  BY <1>1, <1>2, <1>3, <1>4, <1>5, <1>6 DEF SessionNext

LEMMA SessionInvHolds == SessionSpec => []SessionInv
  BY SessionInvInit, SessionInvNext, PTL DEF SessionSpec

-----------------------------------------------------------------------------
(* Storage errors alone, of any tasks of any number of nodes and in any    *)
(* order, never become a fatal fault of the session; and when a storage    *)
(* error counts as read no node samples any more, also if the first        *)
(* attempt of next_fault to pause the nodes was dropped.                   *)
THEOREM FaultsStayContained == SessionSpec => []FaultsAreContained
<1>1. SessionInv => FaultsAreContained
  BY DEF SessionInv, CausesKnown, PauseReaches, FaultsAreContained, StorageFaultIsSurvivable
<1> QED
  BY <1>1, SessionInvHolds, PTL

(* A shutdown that reports success has reaped every task, saved every      *)
(* sampled batch and seen the database thread end, and no fault was ever   *)
(* published, whatever was started and whatever went wrong before.         *)
THEOREM SuccessIsComplete == SessionSpec => []OkIsComplete
<1>1. SessionInv => OkIsComplete
  BY DEF SessionInv, StagesInOrder
<1> QED
  BY <1>1, SessionInvHolds, PTL

-----------------------------------------------------------------------------
(* The session with a peer.  A piece is asked for once, and is then either *)
(* awaited or there; so the count of pieces is the size of what is there,  *)
(* and when it is full everything is there.  For the bound on silence it   *)
(* is the earliest deadline that matters: it is at most one timeout after  *)
(* the request, which went out at most one timeout after the last piece.   *)

Verdicts == {"success", "hash_mismatch"}
PiecesTypeOK ==
    /\ now \in Nat /\ progress \in Nat /\ progress <= now /\ next \in Nat
    /\ metadata_size \in Nat \cup {None} /\ honest \in BOOLEAN
    /\ DOMAIN content \subseteq 0..(next - 1) /\ DOMAIN deadlines \subseteq 0..(next - 1)
    /\ \A p \in DOMAIN deadlines : deadlines[p] \in Nat
PiecesAgree ==
    /\ peer_stage \notin {"transfer", "ended"} => next = 0
    /\ peer_stage = "transfer" => metadata_size \in Nat /\ next <= metadata_size
    /\ peer_stage # "ended" => peer_result \notin Verdicts
    /\ DOMAIN content \cap DOMAIN deadlines = {}
    /\ received = Cardinality(DOMAIN content)
    /\ honest => metadata_size \in {None, TrueSize} /\ \A p \in DOMAIN content : content[p] = "true"
    /\ VerdictIsDeserved
DeadlinesHold ==
    /\ \A p \in DOMAIN deadlines : deadlines[p] <= now + piece_timeout
    /\ peer_stage = "transfer" =>
         IF DOMAIN deadlines = {} THEN now <= progress + piece_timeout
         ELSE /\ now <= progress + 2 * piece_timeout
              /\ \E p \in DOMAIN deadlines : deadlines[p] <= progress + 2 * piece_timeout
PeerInv == PiecesTypeOK /\ PiecesAgree /\ DeadlinesHold

LEMMA PeerInvInit == PeerInit => PeerInv
<1> SUFFICES ASSUME PeerInit PROVE PeerInv
  OBVIOUS
<1>1. DOMAIN content = {} /\ DOMAIN deadlines = {}
  BY DEF PeerInit
<1>2. Cardinality(DOMAIN content) = 0
  BY <1>1, FS_EmptySet
<1>3. PiecesTypeOK
  BY <1>1 DEF PeerInit, PiecesTypeOK
<1>4. PiecesAgree
  BY <1>1, <1>2 DEF PeerInit, PiecesAgree, Verdicts, VerdictIsDeserved
<1>5. DeadlinesHold
  BY <1>1 DEF PeerInit, DeadlinesHold
<1> QED
  BY <1>3, <1>4, <1>5 DEF PeerInv

(* What leaves the pieces alone ends without a verdict on them, or goes on *)
(* in the same stage or towards the transfer.                              *)
LEMMA QuietStep ==
    ASSUME PeerInv, UNCHANGED <<now, metadata_size, transfer, honest>>,
           \/ peer_stage' = peer_stage /\ peer_result' = peer_result
           \/ peer_stage # "ended" /\ peer_stage' = "ended" /\ peer_result' \notin Verdicts
           \/ /\ peer_stage \notin {"transfer", "ended"} /\ peer_stage' \notin {"transfer", "ended"}
              /\ peer_result' = peer_result
    PROVE  PeerInv'
<1>1. UNCHANGED <<now, metadata_size, deadlines, content, next, received, progress, honest>>
  BY DEF transfer
<1>2. PiecesTypeOK'
  BY <1>1 DEF PeerInv, PiecesTypeOK
<1>3. PiecesAgree'
  BY <1>1 DEF PeerInv, PiecesAgree, VerdictIsDeserved, Verdicts
<1>4. DeadlinesHold'
  BY <1>1 DEF PeerInv, DeadlinesHold
<1> QED
  BY <1>2, <1>3, <1>4 DEF PeerInv

(* The earliest deadline is one of them, and none is earlier.              *)
LEMMA EarliestDeadline ==
    ASSUME PeerInv, DOMAIN deadlines # {}
    PROVE  deadline \in Nat /\ \A p \in DOMAIN deadlines : deadline <= deadlines[p]
<1> DEFINE S == {deadlines[p] : p \in DOMAIN deadlines}
<1>1. S \in SUBSET Nat /\ S # {}
  BY DEF PeerInv, PiecesTypeOK
<1>2. PICK n \in S : \A m \in S : ~(<<m, n>> \in OpToRel(<, Nat))
  BY <1>1, NatLessThanWellFounded, WFMin
<1>3. \A m \in S : m \in Nat /\ n \in Nat /\ ~(m < n)
  BY <1>1, <1>2 DEF OpToRel
<1>4. \A m \in S : n <= m
  BY <1>3
<1>5. First(S) \in S /\ \A m \in S : First(S) <= m
  BY <1>4 DEF First
<1>6. deadline = First(S)
  BY DEF deadline
<1> QED
  BY <1>1, <1>5, <1>6

LEMMA TickStep ==
    ASSUME PeerInv, ClockTicks
    PROVE  PeerInv'
<1>1. /\ now' = now + 1 /\ now < StageDeadline /\ peer_stage # "ended"
      /\ UNCHANGED <<peer_stage, peer_result, metadata_size, deadlines, content, next, received,
                     progress, honest>>
  BY DEF ClockTicks, transfer
<1>2. PiecesTypeOK'
  BY <1>1 DEF PeerInv, PiecesTypeOK
<1>3. PiecesAgree'
  BY <1>1 DEF PeerInv, PiecesAgree, VerdictIsDeserved
<1>4. piece_timeout \in Nat /\ now \in Nat /\ progress \in Nat
  BY PeerAssumption DEF PeerInv, PiecesTypeOK
<1>5. \A p \in DOMAIN deadlines' : deadlines'[p] <= now' + piece_timeout
  BY <1>1, <1>4 DEF PeerInv, PiecesTypeOK, DeadlinesHold
<1>6. ASSUME peer_stage = "transfer", DOMAIN deadlines = {} PROVE now' <= progress + piece_timeout
  <2>1. StageDeadline = progress + piece_timeout
    BY <1>6 DEF StageDeadline, Transferring, deadline
  <2> QED
    BY <1>1, <1>4, <2>1
<1>7. ASSUME peer_stage = "transfer", DOMAIN deadlines # {}
      PROVE  /\ now' <= progress + 2 * piece_timeout
             /\ \E p \in DOMAIN deadlines : deadlines[p] <= progress + 2 * piece_timeout
  <2>1. PICK p \in DOMAIN deadlines : deadlines[p] <= progress + 2 * piece_timeout
    BY <1>7 DEF PeerInv, DeadlinesHold
  <2>2. StageDeadline = deadline
    BY <1>7 DEF StageDeadline, Transferring
  <2>3. deadline \in Nat /\ deadline <= deadlines[p] /\ deadlines[p] \in Nat
    BY <1>7, EarliestDeadline DEF PeerInv, PiecesTypeOK
  <2> QED
    BY <1>1, <1>4, <2>1, <2>2, <2>3
<1>8. DeadlinesHold'
  BY <1>1, <1>5, <1>6, <1>7 DEF DeadlinesHold
<1> QED
  BY <1>2, <1>3, <1>8 DEF PeerInv

LEMMA RequestStep ==
    ASSUME PeerInv, request_pieces
    PROVE  PeerInv'
<1> DEFINE D == DOMAIN deadlines
<1>1. /\ peer_stage = "transfer" /\ next < metadata_size /\ now < deadline /\ next' = next + 1
      /\ deadlines' = [p \in D \cup {next} |->
                         IF p = next THEN now + piece_timeout ELSE deadlines[p]]
      /\ UNCHANGED <<peer_stage, peer_result, now, metadata_size, content, received, progress, honest>>
  BY DEF request_pieces, InWindow, Transferring, Count
<1>2. /\ now \in Nat /\ progress \in Nat /\ next \in Nat /\ piece_timeout \in Nat
      /\ metadata_size \in Nat /\ D \subseteq 0..(next - 1) /\ DOMAIN content \subseteq 0..(next - 1)
      /\ \A p \in D : deadlines[p] \in Nat /\ deadlines[p] <= now + piece_timeout
  BY <1>1, PeerAssumption DEF PeerInv, PiecesTypeOK, PiecesAgree, DeadlinesHold
<1>3. next \notin D /\ next \notin DOMAIN content
  BY <1>2
<1>4. /\ DOMAIN deadlines' = D \cup {next} /\ deadlines'[next] = now + piece_timeout
      /\ \A p \in D : deadlines'[p] = deadlines[p]
  BY <1>1, <1>3
<1>5. PiecesTypeOK'
  <2>1. DOMAIN deadlines' \subseteq 0..(next' - 1) /\ DOMAIN content' \subseteq 0..(next' - 1)
    BY <1>1, <1>2, <1>4
  <2>2. \A p \in DOMAIN deadlines' : deadlines'[p] \in Nat
    BY <1>2, <1>4
  <2> QED
    BY <1>1, <1>2, <2>1, <2>2 DEF PeerInv, PiecesTypeOK
<1>6. PiecesAgree'
  <2>1. DOMAIN content' \cap DOMAIN deadlines' = {}
    BY <1>1, <1>3, <1>4 DEF PeerInv, PiecesAgree
  <2>2. next' <= metadata_size'
    BY <1>1, <1>2
  <2> QED
    BY <1>1, <1>2, <2>1, <2>2 DEF PeerInv, PiecesAgree, VerdictIsDeserved
<1>7. DeadlinesHold'
  <2>1. \A p \in DOMAIN deadlines' : deadlines'[p] <= now' + piece_timeout
    BY <1>1, <1>2, <1>4
  <2>2. CASE D = {}
    <3>1. now < progress + piece_timeout
      BY <1>1, <2>2 DEF deadline
    <3>2. /\ now' <= progress' + 2 * piece_timeout
          /\ deadlines'[next] <= progress' + 2 * piece_timeout
      BY <1>1, <1>2, <1>4, <3>1
    <3> QED
      BY <1>4, <2>1, <3>2 DEF DeadlinesHold
  <2>3. CASE D # {}
    <3>1. /\ now <= progress + 2 * piece_timeout
          /\ \E p \in D : deadlines[p] <= progress + 2 * piece_timeout
      BY <1>1, <2>3 DEF PeerInv, DeadlinesHold
    <3> QED
      BY <1>1, <1>4, <2>1, <3>1 DEF DeadlinesHold
  <2> QED
    BY <2>2, <2>3
<1> QED
  BY <1>5, <1>6, <1>7 DEF PeerInv

LEMMA ExtensionStep ==
    ASSUME PeerInv, NEW id, NEW size \in Sizes \cup {None}, apply_extension(id, size)
    PROVE  PeerInv'
<1> DEFINE known == remote_id \/ id = 1
           final == IF size # None THEN size ELSE metadata_size
           starts == peer_stage # "transfer" /\ known /\ final # None
<1>1. /\ peer_stage \in {"extension_handshake", "transfer"}
      /\ UNCHANGED <<now, deadlines, content, next, received>>
      /\ honest' = (honest /\ size \in {None, TrueSize})
      /\ progress' = IF starts THEN now ELSE progress
  BY DEF apply_extension, Reads, Transferring
<1>2. \/ /\ peer_stage' = "ended" /\ peer_result' \notin Verdicts /\ metadata_size' = metadata_size
      \/ /\ peer_result' = peer_result /\ metadata_size' = final
         /\ peer_stage' = IF starts THEN "transfer" ELSE peer_stage
         /\ peer_stage = "transfer" => final = metadata_size
  BY DEF apply_extension, Transferring, End, Verdicts
<1>3. /\ size \in Nat \cup {None} /\ None \notin Nat
  BY PeerAssumption DEF Sizes, None
<1>4. /\ now \in Nat /\ progress \in Nat /\ progress <= now /\ next \in Nat /\ honest \in BOOLEAN
      /\ metadata_size \in Nat \cup {None} /\ piece_timeout \in Nat
  BY PeerAssumption DEF PeerInv, PiecesTypeOK
<1>5. final \in Nat \cup {None} /\ (honest' => honest /\ final \in {None, TrueSize})
  BY <1>1, <1>3, <1>4 DEF PeerInv, PiecesAgree
<1>6. starts => final \in Nat
  BY <1>5
<1>7. honest' \in BOOLEAN
  BY <1>1
<1>8. starts => next = 0 /\ DOMAIN deadlines = {} /\ DOMAIN content = {}
  <2>1. starts => next = 0
    BY <1>1 DEF PeerInv, PiecesAgree
  <2>2. next = 0 => DOMAIN deadlines = {} /\ DOMAIN content = {}
    <3>1. DOMAIN deadlines \subseteq 0..(next - 1) /\ DOMAIN content \subseteq 0..(next - 1)
      BY Zenon DEF PeerInv, PiecesTypeOK
    <3>2. 0..(0 - 1) = {}
      BY SMT
    <3>3. ASSUME next = 0
          PROVE  DOMAIN deadlines \subseteq 0..(0 - 1) /\ DOMAIN content \subseteq 0..(0 - 1)
      BY <3>1, <3>3, Zenon
    <3> QED
      BY <3>2, <3>3, Zenon
  <2> QED
    BY <2>1, <2>2
<1> HIDE DEF final, starts, known
<1>9. PiecesTypeOK'
  BY <1>1, <1>2, <1>4, <1>5, <1>7 DEF PeerInv, PiecesTypeOK
<1>10. PiecesAgree'
  BY <1>1, <1>2, <1>4, <1>5, <1>6, <1>8 DEF PeerInv, PiecesAgree, VerdictIsDeserved, Verdicts
<1>11. DeadlinesHold'
  <2>1. CASE starts
    BY <1>1, <1>4, <1>8, <2>1 DEF PeerInv, DeadlinesHold
  <2>2. CASE ~starts
    BY <1>1, <1>2, <2>2 DEF PeerInv, DeadlinesHold
  <2> QED
    BY <2>1, <2>2
<1> QED
  BY <1>9, <1>10, <1>11 DEF PeerInv


(* A piece arrives.  It is known, or it was awaited and is counted; when   *)
(* the count reaches the size, nothing is missing.                         *)
LEMMA WholeIsThere ==
    ASSUME NEW n \in Nat, NEW D \in SUBSET (0..(n - 1)), Cardinality(D) = n
    PROVE  D = 0..(n - 1)
<1>1. IsFiniteSet(0..(n - 1)) /\ Cardinality(0..(n - 1)) = n
  <2>1. IsFiniteSet(0..(n - 1)) /\ Cardinality(0..(n - 1)) = IF 0 > n - 1 THEN 0 ELSE (n - 1) - 0 + 1
    BY FS_Interval
  <2> QED
    BY <2>1
<1>2. Cardinality(D) = Cardinality(0..(n - 1)) => D = 0..(n - 1)
  BY <1>1, FS_Subset
<1> QED
  BY <1>1, <1>2

LEMMA DataStep ==
    ASSUME PeerInv, NEW p \in Pieces, NEW sized, NEW d, data(p, sized, d)
    PROVE  PeerInv'
<1> DEFINE known == p \in DOMAIN content
           after == [q \in DOMAIN content \cup {p} |-> IF q = p THEN d ELSE content[q]]
           refused == \/ ~sized \/ p >= metadata_size
                      \/ known /\ content[p] # d
                      \/ ~known /\ p \notin DOMAIN deadlines
           D == DOMAIN content
<1>1. /\ peer_stage = "transfer" /\ UNCHANGED <<now, metadata_size>>
      /\ honest' = (honest /\ sized /\ d = "true")
  BY DEF data, Transferring
<1>2. /\ now \in Nat /\ progress \in Nat /\ progress <= now /\ next \in Nat /\ metadata_size \in Nat
      /\ next <= metadata_size /\ D \subseteq 0..(next - 1) /\ DOMAIN deadlines \subseteq 0..(next - 1)
      /\ \A q \in DOMAIN deadlines : deadlines[q] \in Nat /\ deadlines[q] <= now + piece_timeout
      /\ D \cap DOMAIN deadlines = {} /\ piece_timeout \in Nat /\ None \notin Nat
      /\ received = Cardinality(D) /\ peer_result \notin Verdicts
      /\ honest => metadata_size = TrueSize /\ \A q \in D : content[q] = "true"
  BY <1>1, PeerAssumption DEF PeerInv, PiecesTypeOK, PiecesAgree, DeadlinesHold, None
<1>3. IsFiniteSet(D) /\ received \in Nat
  <2>1. IsFiniteSet(0..(next - 1))
    BY <1>2, FS_Interval
  <2>2. IsFiniteSet(D)
    BY <1>2, <2>1, FS_Subset
  <2> QED
    BY <1>2, <2>2, FS_CardinalityType
<1>4. honest' \in BOOLEAN /\ (honest' => honest /\ d = "true")
  BY <1>1
<1>5. CASE refused
  <2>1. /\ peer_stage' = "ended" /\ peer_result' \notin Verdicts
        /\ UNCHANGED <<deadlines, content, next, received, progress>>
    BY <1>5 DEF data, End, transfer, Verdicts, Count
  <2> HIDE DEF refused
  <2>2. PiecesTypeOK'
    BY <1>1, <1>4, <2>1 DEF PeerInv, PiecesTypeOK
  <2>3. PiecesAgree'
    BY <1>1, <1>4, <2>1 DEF PeerInv, PiecesAgree, VerdictIsDeserved, Verdicts
  <2>4. DeadlinesHold'
    BY <1>1, <2>1 DEF PeerInv, DeadlinesHold
  <2> QED
    BY <2>2, <2>3, <2>4 DEF PeerInv
<1>6. CASE ~refused
  <2>1. /\ content' = after /\ received' = Received(p) /\ next' = next
        /\ deadlines' = [q \in DOMAIN deadlines \ {p} |-> deadlines[q]]
        /\ progress' = IF known THEN progress ELSE now
        /\ IF Received(p) = metadata_size
           THEN peer_stage' = "ended" /\ peer_result' = verify_metadata(after)
           ELSE peer_stage' = peer_stage /\ peer_result' = peer_result
    BY <1>6 DEF data, End, Count
  <2>2. known \/ p \in DOMAIN deadlines
    BY <1>6
  <2>3. p \in 0..(next - 1) /\ p \in Nat /\ (known => content[p] = d)
    BY <1>2, <1>6
  <2> HIDE DEF refused
  <2>4. /\ DOMAIN after = D \cup {p} /\ after[p] = d
        /\ \A q \in D : q # p => after[q] = content[q]
    OBVIOUS
  <2>5. /\ DOMAIN after \subseteq 0..(next - 1)
        /\ DOMAIN deadlines' = DOMAIN deadlines \ {p}
        /\ \A q \in DOMAIN deadlines' : deadlines'[q] = deadlines[q]
    BY <1>2, <2>1, <2>3, <2>4
  <2>6. Received(p) = Cardinality(DOMAIN after)
    <3>1. CASE known
      <4>1. DOMAIN after = D
        BY <2>4, <3>1
      <4> QED
        BY <1>2, <3>1, <4>1 DEF Received
    <3>2. CASE ~known
      <4>1. Cardinality(D \cup {p}) = Cardinality(D) + 1
        BY <1>3, <3>2, FS_AddElement
      <4> QED
        BY <1>2, <2>4, <3>2, <4>1 DEF Received
    <3> QED
      BY <3>1, <3>2
  <2>7. honest' => metadata_size = TrueSize /\ \A q \in DOMAIN after : after[q] = "true"
    BY <1>2, <1>4, <2>4
  <2> HIDE DEF after
  <2>8. PiecesTypeOK'
    BY <1>1, <1>2, <1>4, <2>1, <2>5 DEF PiecesTypeOK
  <2>9. ASSUME Received(p) = metadata_size PROVE VerdictIsDeserved'
    <3>1. DOMAIN after \in SUBSET (0..(metadata_size - 1))
      BY <1>2, <2>5
    <3>2. DOMAIN after = 0..(metadata_size - 1)
      BY <1>2, <2>6, <2>9, <3>1, WholeIsThere
    <3>3. \/ /\ peer_result' = "success" /\ metadata_size = TrueSize
             /\ \A q \in 0..(metadata_size - 1) : after[q] = "true"
          \/ /\ peer_result' = "hash_mismatch"
             /\ ~(metadata_size = TrueSize /\ \A q \in 0..(metadata_size - 1) : after[q] = "true")
      BY <2>1, <2>9, <3>2 DEF verify_metadata, Count
    <3>4. CASE peer_result' = "success"
      BY <2>1, <3>2, <3>3, <3>4 DEF VerdictIsDeserved
    <3>5. CASE peer_result' = "hash_mismatch"
      BY <2>7, <3>2, <3>3, <3>5 DEF VerdictIsDeserved
    <3> QED
      BY <3>3, <3>4, <3>5
  <2>10. PiecesAgree'
    <3>1. DOMAIN content' \cap DOMAIN deadlines' = {}
      BY <1>2, <2>1, <2>4, <2>5
    <3>2. CASE Received(p) = metadata_size
      BY <1>1, <1>2, <2>1, <2>6, <2>7, <2>9, <3>1, <3>2 DEF PiecesAgree
    <3>3. CASE Received(p) # metadata_size
      BY <1>1, <1>2, <2>1, <2>6, <2>7, <3>1, <3>3 DEF PiecesAgree, VerdictIsDeserved, Verdicts
    <3> QED
      BY <3>2, <3>3
  <2>11. DeadlinesHold'
    <3>1. \A q \in DOMAIN deadlines' : deadlines'[q] <= now' + piece_timeout
      BY <1>1, <1>2, <2>5
    <3>2. CASE known
      <4>1. p \notin DOMAIN deadlines
        BY <1>2, <3>2
      <4>2. DOMAIN deadlines' = DOMAIN deadlines /\ progress' = progress
        BY <2>1, <2>5, <3>2, <4>1
      <4> QED
        BY <1>1, <2>5, <3>1, <4>2 DEF PeerInv, DeadlinesHold
    <3>3. CASE ~known
      <4>1. progress' = now /\ now' = now
        BY <1>1, <2>1, <3>3
      <4>2. /\ now' <= progress' + piece_timeout /\ now' <= progress' + 2 * piece_timeout
            /\ \A q \in DOMAIN deadlines' : deadlines'[q] <= progress' + 2 * piece_timeout
        BY <1>2, <2>5, <4>1
      <4> QED
        BY <3>1, <4>2 DEF DeadlinesHold
    <3> QED
      BY <3>2, <3>3
  <2> QED
    BY <2>8, <2>10, <2>11 DEF PeerInv
<1> QED
  BY <1>5, <1>6

LEMMA PeerInvNext == PeerInv /\ [PeerNext]_peerVars => PeerInv'
<1> SUFFICES ASSUME PeerInv, [PeerNext]_peerVars PROVE PeerInv'
  OBVIOUS
<1>1. CASE ClockTicks
  BY <1>1, TickStep
<1>2. CASE StageTimeout \/ PeerTimeout \/ Breaks \/ Cancel
  BY <1>2, QuietStep DEF StageTimeout, PeerTimeout, Breaks, Cancel, End, Verdicts
<1>3. CASE Connected
  BY <1>3, QuietStep DEF Connected
<1>4. CASE \E r \in {"ok", "no_extensions", "other_hash", "other_protocol"} : exchange_handshake(r)
  BY <1>4, QuietStep DEF exchange_handshake, End, Verdicts
<1>5. CASE request_pieces
  BY <1>5, RequestStep
<1>6. CASE Frame
  <2>1. CASE receive_frame \/ IgnoredFrame \/ BrokenFrame
    BY <2>1, QuietStep DEF receive_frame, IgnoredFrame, BrokenFrame, Reads, End, Verdicts
  <2>2. CASE \E id \in {None, 0, 1}, size \in Sizes \cup {None} : apply_extension(id, size)
    BY <2>2, ExtensionStep
  <2>3. CASE \E p \in Pieces : RejectFrame(p)
    BY <2>3, QuietStep DEF RejectFrame, Reads, End, Verdicts
  <2>4. CASE \E p \in Pieces, sized \in BOOLEAN, d \in {"true", "false"} : data(p, sized, d)
    BY <2>4, DataStep
  <2> QED
    BY <1>6, <2>1, <2>2, <2>3, <2>4 DEF Frame
<1>7. CASE UNCHANGED peerVars
  BY <1>7, QuietStep DEF peerVars, transfer
<1> QED
  BY <1>1, <1>2, <1>3, <1>4, <1>5, <1>6, <1>7 DEF PeerNext, SessionEnded

(* Whatever a peer sends, in whatever order and at whatever time, and for  *)
(* every size and every timeout: one that told the truth is never blamed   *)
(* for a wrong hash, metadata is accepted only with every block of it, and *)
(* a transfer never goes on for two piece timeouts without a new piece.    *)
THEOREM JudgementIsFair == PeerSpec => []PeersAreJudgedFairly
<1>1. PeerInv => PeersAreJudgedFairly
  <2> SUFFICES ASSUME PeerInv PROVE PeersAreJudgedFairly
    OBVIOUS
  <2>1. now \in Nat /\ progress \in Nat /\ piece_timeout \in Nat
    BY PeerAssumption DEF PeerInv, PiecesTypeOK
  <2>2. SilenceIsBounded
    BY <2>1 DEF PeerInv, DeadlinesHold, SilenceIsBounded, Transferring
  <2> QED
    BY <2>2 DEF PeerInv, PiecesAgree, PeersAreJudgedFairly
<1> QED
  BY <1>1, PeerInvInit, PeerInvNext, PTL DEF PeerSpec


-----------------------------------------------------------------------------
(* The loops of module Gather.  Each is the function of what it has after  *)
(* k elements; that there is one, and what it keeps, follows from the      *)
(* least k at which it would fail.                                         *)

LEMMA LeastNatural ==
    ASSUME NEW S \in SUBSET Nat, S # {} PROVE \E n \in S : \A m \in S : n <= m
<1>1. PICK n \in S : \A m \in S : ~(<<m, n>> \in OpToRel(<, Nat))
  BY NatLessThanWellFounded, WFMin
<1>2. \A m \in S : m \in Nat /\ n \in Nat /\ ~(m < n)
  BY <1>1 DEF OpToRel
<1> QED
  BY <1>2

Collecting(f, list, s, S, limit, n) ==
    f = [k \in 0 .. n |-> IF k = 0 THEN list ELSE Taken(f[k - 1], s[k], S, limit)]
LEMMA CollectingExists ==
    ASSUME NEW list, NEW s, NEW S, NEW limit, NEW N \in Nat
    PROVE  \E f : Collecting(f, list, s, S, limit, N)
<1> DEFINE Without == {n \in Nat : ~\E f : Collecting(f, list, s, S, limit, n)}
<1>1. SUFFICES ASSUME Without # {} PROVE FALSE
  OBVIOUS
<1>2. PICK n \in Without : \A m \in Without : n <= m
  <2>1. Without \in SUBSET Nat
    OBVIOUS
  <2> QED
    BY <1>1, <2>1, LeastNatural
<1>3. n \in Nat /\ ~\E f : Collecting(f, list, s, S, limit, n)
  OBVIOUS
<1>4. CASE n = 0
  <2> DEFINE f == [k \in 0 .. 0 |-> list]
  <2>1. f = [k \in 0 .. 0 |-> IF k = 0 THEN list ELSE Taken(f[k - 1], s[k], S, limit)]
    OBVIOUS
  <2> HIDE DEF f
  <2> QED
    BY <1>3, <1>4, <2>1 DEF Collecting
<1>5. CASE n # 0
  <2>1. n - 1 \in Nat /\ n - 1 \notin Without
    BY <1>2, <1>3, <1>5
  <2>2. PICK f : Collecting(f, list, s, S, limit, n - 1)
    BY <2>1
  <2> DEFINE g == [k \in 0 .. n |-> IF k = n THEN Taken(f[n - 1], s[n], S, limit) ELSE f[k]]
  <2>3. ASSUME NEW k \in 0 .. n
        PROVE  g[k] = IF k = 0 THEN list ELSE Taken(g[k - 1], s[k], S, limit)
    <3>1. CASE k = n
      BY <1>3, <1>5, <3>1
    <3>2. CASE k # n
      <4>1. k \in 0 .. (n - 1) /\ (k # 0 => k - 1 \in 0 .. n /\ k - 1 # n)
        BY <1>3, <3>2
      <4>2. f[k] = IF k = 0 THEN list ELSE Taken(f[k - 1], s[k], S, limit)
        BY <2>2, <4>1 DEF Collecting
      <4>3. g[k] = f[k] /\ (k # 0 => g[k - 1] = f[k - 1])
        BY <3>2, <4>1
      <4> HIDE DEF g
      <4> QED
        BY <4>2, <4>3
    <3> QED
      BY <3>1, <3>2
  <2>4. g = [k \in 0 .. n |-> g[k]]
    OBVIOUS
  <2> HIDE DEF g
  <2>5. g = [k \in 0 .. n |-> IF k = 0 THEN list ELSE Taken(g[k - 1], s[k], S, limit)]
    BY <2>3, <2>4
  <2> QED
    BY <1>3, <2>5 DEF Collecting
<1> QED
  BY <1>4, <1>5

(* A list without repetitions, and one that goes on from another.          *)
NoneTwice(t) == \A i, j \in 1 .. Len(t) : t[i] = t[j] => i = j
GoesOn(t, list) == Len(list) <= Len(t) /\ \A i \in 1 .. Len(list) : t[i] = list[i]
(* What collecting for a list makes of it.                                 *)
Extends(t, list, A, limit) ==
    /\ t \in Seq(A) /\ NoneTwice(t) /\ GoesOn(t, list)
    /\ Len(t) <= limit \/ t = list

LEMMA OneMore ==
    ASSUME NEW A, NEW list \in Seq(A), NEW S, NEW limit \in Nat, NEW t, NEW a \in A,
           Extends(t, list, A, limit)
    PROVE  Extends(Taken(t, a, S, limit), list, A, limit)
<1>1. t \in Seq(A) /\ Len(t) \in Nat /\ NoneTwice(t) /\ GoesOn(t, list) /\ Len(list) \in Nat
  BY DEF Extends
<1>2. CASE a \in S /\ a \notin Range(t) /\ Len(t) < limit
  <2> DEFINE u == Append(t, a)
  <2>1. Taken(t, a, S, limit) = u
    BY <1>2 DEF Taken
  <2>2. /\ u \in Seq(A) /\ Len(u) = Len(t) + 1 /\ u[Len(t) + 1] = a
        /\ \A i \in 1 .. Len(t) : u[i] = t[i]
    BY <1>1
  <2> HIDE DEF u
  <2>3. \A i \in 1 .. Len(t) : t[i] # a
    <3>1. DOMAIN t = 1 .. Len(t)
      BY <1>1
    <3> QED
      BY <1>2, <3>1 DEF Range
  <2>4. NoneTwice(u)
    <3> SUFFICES ASSUME NEW i \in 1 .. Len(u), NEW j \in 1 .. Len(u), u[i] = u[j] PROVE i = j
      BY DEF NoneTwice
    <3>1. CASE i = Len(u) /\ j = Len(u)
      BY <3>1
    <3>2. CASE i \in 1 .. Len(t) /\ j \in 1 .. Len(t)
      BY <1>1, <2>2, <3>2 DEF NoneTwice
    <3>3. CASE i \in 1 .. Len(t) /\ j = Len(u)
      BY <2>2, <2>3, <3>3
    <3>4. CASE i = Len(u) /\ j \in 1 .. Len(t)
      BY <2>2, <2>3, <3>4
    <3> QED
      BY <1>1, <2>2, <3>1, <3>2, <3>3, <3>4
  <2>5. GoesOn(u, list)
    BY <1>1, <2>2 DEF GoesOn
  <2>6. Len(u) <= limit
    BY <1>1, <1>2, <2>2
  <2> QED
    BY <2>1, <2>2, <2>4, <2>5, <2>6 DEF Extends
<1>3. CASE ~(a \in S /\ a \notin Range(t) /\ Len(t) < limit)
  BY <1>3 DEF Taken
<1> QED
  BY <1>2, <1>3

(* Collecting for a list without repetitions keeps it, adds nothing twice, *)
(* and respects the limit.                                                 *)
LEMMA CollectedExtends ==
    ASSUME NEW A, NEW list \in Seq(A), NoneTwice(list), NEW s \in Seq(A), NEW S,
           NEW limit \in Nat
    PROVE  Extends(Collected(list, s, S, limit), list, A, limit)
<1> DEFINE after == CHOOSE f : Collecting(f, list, s, S, limit, Len(s))
<1>1. Len(s) \in Nat
  OBVIOUS
<1>2. Collecting(after, list, s, S, limit, Len(s))
  BY <1>1, CollectingExists
<1>3. Collected(list, s, S, limit) = after[Len(s)]
  BY DEF Collected, Collecting
<1> HIDE DEF after
<1>4. after[0] = list /\ \A k \in 1 .. Len(s) : after[k] = Taken(after[k - 1], s[k], S, limit)
  <2>1. \A k \in 0 .. Len(s) : after[k] = IF k = 0 THEN list ELSE Taken(after[k - 1], s[k], S, limit)
    BY <1>2, Zenon DEF Collecting
  <2>2. 0 \in 0 .. Len(s) /\ \A k \in 1 .. Len(s) : k \in 0 .. Len(s) /\ k # 0
    BY <1>1
  <2> QED
    BY <2>1, <2>2
<1> DEFINE Poor == {k \in 0 .. Len(s) : ~Extends(after[k], list, A, limit)}
<1>5. Poor = {}
  <2> SUFFICES ASSUME Poor # {} PROVE FALSE
    OBVIOUS
  <2>1. Poor \in SUBSET Nat
    BY <1>1
  <2>2. PICK k \in Poor : \A m \in Poor : k <= m
    BY <2>1, LeastNatural
  <2>3. k \in 0 .. Len(s) /\ ~Extends(after[k], list, A, limit)
    BY <2>2
  <2>4. Extends(list, list, A, limit)
    BY DEF Extends, GoesOn
  <2>5. k # 0
    BY <1>4, <2>3, <2>4
  <2>6. k \in 1 .. Len(s) /\ k - 1 \in 0 .. Len(s) /\ ~(k <= k - 1)
    BY <1>1, <2>3, <2>5
  <2>7. k - 1 \notin Poor
    BY <2>2, <2>6
  <2>8. Extends(after[k - 1], list, A, limit)
    BY <2>6, <2>7
  <2>9. s[k] \in A
    BY <2>6
  <2>10. Extends(Taken(after[k - 1], s[k], S, limit), list, A, limit)
    BY <2>8, <2>9, OneMore
  <2> QED
    BY <1>4, <2>3, <2>6, <2>10
<1>6. Len(s) \in 0 .. Len(s)
  BY <1>1
<1> QED
  BY <1>3, <1>5, <1>6


-----------------------------------------------------------------------------
(* The bootstrap of a node: what its task, its addresses and its round are *)
(* to each other.                                                          *)

IsOnNodes(f) == f = [n \in LocalNodes |-> f[n]]
BootTypeOK ==
    /\ IsOnNodes(boot_task) /\ IsOnNodes(seed) /\ IsOnNodes(found) /\ IsOnNodes(pinged)
    /\ IsOnNodes(pings) /\ IsOnNodes(connected) /\ IsOnNodes(busy) /\ IsOnNodes(heard)
    /\ IsOnNodes(verdict)

(* The pings under way, of the addresses fo of which pd were pinged.       *)
PingsAreCounted(t, fo, pd, pi) ==
    /\ fo \in Seq(Addresses) /\ NoneTwice(fo) /\ pd \in Nat /\ pd <= Len(fo)
    /\ IsFiniteSet(pi) /\ Cardinality(pi) <= MaxPings /\ pi \subseteq {fo[i] : i \in 1 .. pd}
    /\ t # "round" => pi = {}
(* What was heard is remembered, and the verdict is about all of it.       *)
HeardIsKnown(t, fo, pd, co, bu, he, ve) ==
    /\ he \subseteq {"ok", "at_capacity", "failed", "closed"}
    /\ "ok" \in he => co
    /\ "at_capacity" \in he => bu
    /\ "closed" \in he => t # "round"
    /\ t \in {"resolve", "round"} => ve = "none"
    /\ ve = "failed" => he \subseteq {"failed"} /\ pd = Len(fo)
ResolvesFirst(t, sd, pd, he) == t = "resolve" => sd \in 1 .. Seeds /\ pd = 0 /\ he = {}
RoundInOrder(n) ==
    /\ PingsAreCounted(boot_task[n], found[n], pinged[n], pings[n])
    /\ HeardIsKnown(boot_task[n], found[n], pinged[n], connected[n], busy[n], heard[n], verdict[n])
    /\ ResolvesFirst(boot_task[n], seed[n], pinged[n], heard[n])
BootInv ==
    /\ BootTypeOK /\ \A n \in LocalNodes : RoundInOrder(n)
    /\ app \in {"opening", "starting"} => \A n \in LocalNodes : boot_task[n] = "none"

LEMMA NoPings ==
    /\ IsFiniteSet({}) /\ Cardinality({}) <= MaxPings
    /\ <<>> \in Seq(Addresses) /\ NoneTwice(<<>>) /\ Len(<<>>) = 0
<1>1. IsFiniteSet({}) /\ Cardinality({}) = 0
  BY FS_EmptySet
<1> QED
  BY <1>1, BootAssumption DEF NoneTwice

LEMMA BootStart == BootInit => BootInv
<1> SUFFICES ASSUME BootInit PROVE BootInv
  OBVIOUS
<1>1. BootTypeOK
  BY DEF BootInit, BootTypeOK, IsOnNodes
<1>2. ASSUME NEW n \in LocalNodes PROVE RoundInOrder(n)
  <2>1. /\ boot_task[n] = "none" /\ found[n] = <<>> /\ pinged[n] = 0 /\ pings[n] = {}
        /\ heard[n] = {} /\ verdict[n] = "none"
    BY <1>2 DEF BootInit
  <2>2. PingsAreCounted(boot_task[n], found[n], pinged[n], pings[n])
    BY <2>1, NoPings DEF PingsAreCounted
  <2> QED
    BY <2>1, <2>2 DEF RoundInOrder, HeardIsKnown, ResolvesFirst
<1>3. \A n \in LocalNodes : boot_task[n] = "none"
  BY DEF BootInit
<1> QED
  BY <1>1, <1>2, <1>3 DEF BootInv

(* A step of one task.                                                     *)
OnlyNode(n) ==
    /\ BootTypeOK'
    /\ \A m \in LocalNodes \ {n} :
         /\ boot_task'[m] = boot_task[m] /\ seed'[m] = seed[m] /\ found'[m] = found[m]
         /\ pinged'[m] = pinged[m] /\ pings'[m] = pings[m] /\ connected'[m] = connected[m]
         /\ busy'[m] = busy[m] /\ heard'[m] = heard[m] /\ verdict'[m] = verdict[m]
LEMMA TaskMoves ==
    ASSUME BootInv, NEW n \in LocalNodes, OnlyNode(n), RoundInOrder(n)', boot_task[n] # "none",
           app' = app
    PROVE  BootInv'
<1>1. ASSUME NEW m \in LocalNodes, m # n PROVE RoundInOrder(m)'
  BY <1>1 DEF BootInv, OnlyNode, RoundInOrder
<1>2. app \notin {"opening", "starting"}
  BY DEF BootInv
<1> QED
  BY <1>1, <1>2 DEF BootInv, OnlyNode

(* Only the task moves, between places without a round.                    *)
LEMMA GotoStep ==
    ASSUME BootInv, NEW n \in LocalNodes, NEW s, NEW t, Goto(n, s, t),
           s \notin {"none", "round"}, t \notin {"round", "resolve"}, UNCHANGED round, app' = app
    PROVE  BootInv'
<1>1. BootTypeOK /\ RoundInOrder(n)
  BY DEF BootInv
<1>2. /\ boot_task[n] = s /\ boot_task' = [boot_task EXCEPT ![n] = t]
      /\ UNCHANGED <<seed, found, pinged, pings, connected, busy, heard, verdict>>
  BY DEF Goto, round
<1>3. OnlyNode(n) /\ boot_task'[n] = t
  BY <1>1, <1>2 DEF OnlyNode, BootTypeOK, IsOnNodes
<1>4. PingsAreCounted(boot_task[n], found[n], pinged[n], pings[n])'
  BY <1>1, <1>2, <1>3 DEF RoundInOrder, PingsAreCounted
<1>5. HeardIsKnown(boot_task[n], found[n], pinged[n], connected[n], busy[n], heard[n], verdict[n])'
  BY <1>1, <1>2, <1>3 DEF RoundInOrder, HeardIsKnown
<1>6. RoundInOrder(n)'
  BY <1>3, <1>4, <1>5 DEF RoundInOrder, ResolvesFirst
<1> QED
  BY <1>2, <1>3, <1>6, TaskMoves

LEMMA StatusStep ==
    ASSUME BootInv, NEW n \in LocalNodes, Status(n) PROVE BootInv'
<1>1. BootTypeOK /\ RoundInOrder(n)
  BY DEF BootInv
<1>2. /\ seed' = [seed EXCEPT ![n] = 1] /\ found' = [found EXCEPT ![n] = <<>>]
      /\ pinged' = [pinged EXCEPT ![n] = 0] /\ heard' = [heard EXCEPT ![n] = {}]
      /\ connected' = [connected EXCEPT ![n] = FALSE] /\ busy' = [busy EXCEPT ![n] = FALSE]
      /\ verdict' = [verdict EXCEPT ![n] = "none"] /\ pings' = pings /\ app' = app
  BY DEF Status, UnchangedOutside
<1>3. PICK t \in {"ended", "sleep", "resolve"} : Goto(n, "status", t)
  BY DEF Status
<1>4. boot_task[n] = "status" /\ boot_task' = [boot_task EXCEPT ![n] = t]
  BY <1>3 DEF Goto
<1>5. OnlyNode(n)
  BY <1>1, <1>2, <1>4 DEF OnlyNode, BootTypeOK, IsOnNodes
<1>6. /\ boot_task'[n] = t /\ seed'[n] = 1 /\ found'[n] = <<>> /\ pinged'[n] = 0
      /\ heard'[n] = {} /\ verdict'[n] = "none"
  BY <1>1, <1>2, <1>4 DEF BootTypeOK, IsOnNodes
<1>7. pings'[n] = {}
  BY <1>1, <1>2, <1>4 DEF RoundInOrder, PingsAreCounted
<1>8. PingsAreCounted(boot_task[n], found[n], pinged[n], pings[n])'
  BY <1>6, <1>7, NoPings DEF PingsAreCounted
<1>9. HeardIsKnown(boot_task[n], found[n], pinged[n], connected[n], busy[n], heard[n], verdict[n])'
  BY <1>6 DEF HeardIsKnown
<1>10. ResolvesFirst(boot_task[n], seed[n], pinged[n], heard[n])'
  BY <1>6, BootAssumption DEF ResolvesFirst
<1> QED
  BY <1>2, <1>4, <1>5, <1>8, <1>9, <1>10, TaskMoves DEF RoundInOrder


LEMMA ResolveStep ==
    ASSUME BootInv, NEW n \in LocalNodes, resolve_addresses(n) PROVE BootInv'
<1>1. BootTypeOK /\ RoundInOrder(n)
  BY DEF BootInv
<1>2. /\ boot_task[n] = "resolve" /\ seed' = [seed EXCEPT ![n] = @ + 1] /\ app' = app
      /\ UNCHANGED <<pinged, pings, connected, busy, heard, verdict>>
  BY DEF resolve_addresses, UnchangedOutside
<1>3. PICK answer \in {Resolves[seed[n]], <<>>} :
        found' = [found EXCEPT ![n] = Collected(@, answer, Allowed, MaxAddresses)]
  BY DEF resolve_addresses
<1>4. PICK t \in {"round", "resolve"} :
        boot_task' = [boot_task EXCEPT ![n] = t] /\ (t = "resolve" => seed[n] # Seeds)
  BY DEF resolve_addresses
<1>5. /\ seed[n] \in 1 .. Seeds /\ pinged[n] = 0 /\ heard[n] = {} /\ verdict[n] = "none"
      /\ pings[n] = {} /\ found[n] \in Seq(Addresses) /\ NoneTwice(found[n])
  BY <1>1, <1>2 DEF RoundInOrder, PingsAreCounted, HeardIsKnown, ResolvesFirst
<1>6. answer \in Seq(Addresses)
  <2>1. Resolves[seed[n]] \in Seq(Addresses)
    BY <1>5, BootAssumption
  <2>2. <<>> \in Seq(Addresses)
    OBVIOUS
  <2> QED
    BY <1>3, <2>1, <2>2
<1> DEFINE list == Collected(found[n], answer, Allowed, MaxAddresses)
<1>7. Extends(list, found[n], Addresses, MaxAddresses)
  BY <1>5, <1>6, BootAssumption, CollectedExtends
<1>8. found' = [found EXCEPT ![n] = list]
  BY <1>1, <1>3 DEF BootTypeOK, IsOnNodes
<1> HIDE DEF list
<1>9. OnlyNode(n)
  BY <1>1, <1>2, <1>4, <1>8 DEF OnlyNode, BootTypeOK, IsOnNodes
<1>10. found'[n] = list /\ boot_task'[n] = t /\ seed'[n] = seed[n] + 1
  BY <1>1, <1>2, <1>4, <1>8 DEF BootTypeOK, IsOnNodes
<1>11. list \in Seq(Addresses) /\ NoneTwice(list) /\ Len(list) \in Nat
  BY <1>7 DEF Extends
<1>12. PingsAreCounted(boot_task[n], found[n], pinged[n], pings[n])'
  BY <1>2, <1>5, <1>10, <1>11, NoPings DEF PingsAreCounted
<1>13. HeardIsKnown(boot_task[n], found[n], pinged[n], connected[n], busy[n], heard[n], verdict[n])'
  BY <1>2, <1>5, <1>10 DEF HeardIsKnown
<1>14. ResolvesFirst(boot_task[n], seed[n], pinged[n], heard[n])'
  BY <1>2, <1>4, <1>5, <1>10, BootAssumption DEF ResolvesFirst
<1> QED
  BY <1>2, <1>9, <1>12, <1>13, <1>14, TaskMoves DEF RoundInOrder

LEMMA PingStep ==
    ASSUME BootInv, NEW n \in LocalNodes, Ping(n) PROVE BootInv'
<1>1. BootTypeOK /\ RoundInOrder(n)
  BY DEF BootInv
<1>2. /\ boot_task[n] = "round" /\ pinged[n] # Len(found[n]) /\ Cardinality(pings[n]) < MaxPings
      /\ pinged' = [pinged EXCEPT ![n] = @ + 1]
      /\ pings' = [pings EXCEPT ![n] = @ \cup {found[n][pinged[n] + 1]}] /\ app' = app
      /\ UNCHANGED <<boot_task, seed, found, connected, busy, heard, verdict>>
  BY DEF Ping, AllPinged, UnchangedOutside
<1>3. PingsAreCounted("round", found[n], pinged[n], pings[n])
  BY <1>1, <1>2 DEF RoundInOrder
<1> DEFINE a == found[n][pinged[n] + 1]
<1>4. OnlyNode(n) /\ pinged'[n] = pinged[n] + 1 /\ pings'[n] = pings[n] \cup {a}
  BY <1>1, <1>2 DEF OnlyNode, BootTypeOK, IsOnNodes
<1>5. /\ pinged[n] \in Nat /\ Len(found[n]) \in Nat /\ pinged[n] + 1 <= Len(found[n])
      /\ pings[n] \subseteq {found[n][i] : i \in 1 .. pinged[n]} /\ IsFiniteSet(pings[n])
  BY <1>2, <1>3 DEF PingsAreCounted
<1>6. pings[n] \cup {a} \subseteq {found[n][i] : i \in 1 .. pinged[n] + 1}
  BY <1>5
<1>7. IsFiniteSet(pings[n] \cup {a}) /\ Cardinality(pings[n] \cup {a}) <= MaxPings
  <2>1. /\ IsFiniteSet(pings[n] \cup {a})
        /\ Cardinality(pings[n] \cup {a}) =
             IF a \in pings[n] THEN Cardinality(pings[n]) ELSE Cardinality(pings[n]) + 1
    BY <1>5, FS_AddElement
  <2>2. Cardinality(pings[n]) \in Nat
    BY <1>5, FS_CardinalityType
  <2> QED
    BY <1>2, <2>1, <2>2, BootAssumption
<1> HIDE DEF a
<1>8. PingsAreCounted(boot_task[n], found[n], pinged[n], pings[n])'
  <2>1. found[n] \in Seq(Addresses) /\ NoneTwice(found[n]) /\ pinged[n] + 1 \in Nat
    BY <1>3, <1>5 DEF PingsAreCounted
  <2>2. PingsAreCounted("round", found[n], pinged[n] + 1, pings[n] \cup {a})
    BY <1>5, <1>6, <1>7, <2>1 DEF PingsAreCounted
  <2> QED
    BY <1>2, <1>4, <2>2
<1>9. HeardIsKnown(boot_task[n], found[n], pinged[n], connected[n], busy[n], heard[n], verdict[n])'
  BY <1>1, <1>2 DEF RoundInOrder, HeardIsKnown
<1> QED
  BY <1>2, <1>4, <1>8, <1>9, TaskMoves DEF RoundInOrder, ResolvesFirst

LEMMA AnswerStep ==
    ASSUME BootInv, NEW n \in LocalNodes, NEW a, NEW reply \in Results(n), Answer(n, a, reply)
    PROVE  BootInv'
<1>1. BootTypeOK /\ RoundInOrder(n) /\ reply \in {"ok", "at_capacity", "failed", "closed"}
  BY DEF BootInv, Results
<1>2. /\ boot_task[n] = "round"
      /\ pings' = [pings EXCEPT ![n] = IF reply = "closed" THEN {} ELSE @ \ {a}]
      /\ heard' = [heard EXCEPT ![n] = @ \cup {reply}]
      /\ connected' = [connected EXCEPT ![n] = @ \/ reply = "ok"]
      /\ busy' = [busy EXCEPT ![n] = @ \/ reply = "at_capacity"]
      /\ boot_task' = [boot_task EXCEPT ![n] = IF reply = "closed" THEN "ended" ELSE @]
      /\ app' = app /\ UNCHANGED <<seed, found, pinged, verdict>>
  BY DEF Answer, UnchangedOutside
<1>3. OnlyNode(n)
  BY <1>1, <1>2 DEF OnlyNode, BootTypeOK, IsOnNodes
<1>4. /\ heard'[n] = heard[n] \cup {reply} /\ pings'[n] \subseteq pings[n]
      /\ (connected[n] \/ reply = "ok" => connected'[n])
      /\ (busy[n] \/ reply = "at_capacity" => busy'[n])
      /\ boot_task'[n] = IF reply = "closed" THEN "ended" ELSE "round"
      /\ reply = "closed" => pings'[n] = {}
  BY <1>1, <1>2 DEF BootTypeOK, IsOnNodes
<1>5. PingsAreCounted("round", found[n], pinged[n], pings[n])
  BY <1>1, <1>2 DEF RoundInOrder
<1>6. IsFiniteSet(pings'[n]) /\ Cardinality(pings'[n]) <= MaxPings
  <2>1. IsFiniteSet(pings[n]) /\ Cardinality(pings[n]) <= MaxPings
    BY <1>5 DEF PingsAreCounted
  <2>2. IsFiniteSet(pings'[n]) /\ Cardinality(pings'[n]) <= Cardinality(pings[n])
    BY <1>4, <2>1, FS_Subset
  <2>3. Cardinality(pings'[n]) \in Nat /\ Cardinality(pings[n]) \in Nat
    BY <2>1, <2>2, FS_CardinalityType
  <2> QED
    BY <2>1, <2>2, <2>3, BootAssumption
<1>7. PingsAreCounted(boot_task[n], found[n], pinged[n], pings[n])'
  BY <1>2, <1>4, <1>5, <1>6 DEF PingsAreCounted
<1>8. HeardIsKnown("round", found[n], pinged[n], connected[n], busy[n], heard[n], verdict[n])
  BY <1>1, <1>2 DEF RoundInOrder
<1>9. HeardIsKnown(boot_task[n], found[n], pinged[n], connected[n], busy[n], heard[n], verdict[n])'
  BY <1>1, <1>2, <1>4, <1>8 DEF HeardIsKnown
<1>10. ResolvesFirst(boot_task[n], seed[n], pinged[n], heard[n])'
  BY <1>4 DEF ResolvesFirst
<1>11. RoundInOrder(n)'
  BY <1>7, <1>9, <1>10 DEF RoundInOrder
<1> QED
  BY <1>2, <1>3, <1>11, TaskMoves

LEMMA RoundEndsStep ==
    ASSUME BootInv, NEW n \in LocalNodes, RoundEnds(n) PROVE BootInv'
<1>1. BootTypeOK /\ RoundInOrder(n)
  BY DEF BootInv
<1>2. /\ boot_task[n] = "round" /\ boot_task' = [boot_task EXCEPT ![n] = "sleep"]
      /\ pings[n] = {} /\ (pinged[n] = Len(found[n]) \/ connected[n])
      /\ verdict' = [verdict EXCEPT ![n] = IF connected[n] THEN "connected"
                                           ELSE IF busy[n] THEN "busy" ELSE "failed"]
      /\ app' = app /\ UNCHANGED <<seed, found, pinged, pings, connected, busy, heard>>
  BY DEF RoundEnds, RoundOver, AllPinged, Goto, UnchangedOutside
<1>3. /\ OnlyNode(n) /\ boot_task'[n] = "sleep"
      /\ verdict'[n] = "failed" => ~connected[n] /\ ~busy[n]
  BY <1>1, <1>2 DEF OnlyNode, BootTypeOK, IsOnNodes
<1>4. PingsAreCounted("round", found[n], pinged[n], pings[n])
  BY <1>1, <1>2 DEF RoundInOrder
<1>5. PingsAreCounted(boot_task[n], found[n], pinged[n], pings[n])'
  BY <1>2, <1>3, <1>4 DEF PingsAreCounted
<1>6. HeardIsKnown("round", found[n], pinged[n], connected[n], busy[n], heard[n], verdict[n])
  BY <1>1, <1>2 DEF RoundInOrder
<1>7. HeardIsKnown(boot_task[n], found[n], pinged[n], connected[n], busy[n], heard[n], verdict[n])'
  BY <1>2, <1>3, <1>6 DEF HeardIsKnown
<1> QED
  BY <1>2, <1>3, <1>5, <1>7, TaskMoves DEF RoundInOrder, ResolvesFirst

LEMMA ApplicationSteps ==
    ASSUME BootInv,
           \/ \E n \in LocalNodes : TableChanges(n) \/ NodeEnds(n)
           \/ Open \/ start_nodes \/ Break \/ AbortAll \/ ShutdownSession \/ UNCHANGED bootVars
    PROVE  BootInv'
<1>1. BootTypeOK /\ \A n \in LocalNodes : RoundInOrder(n)
  BY DEF BootInv
<1>2. CASE UNCHANGED <<boot_task, round>>
  <2>1. BootTypeOK' /\ \A n \in LocalNodes : RoundInOrder(n)'
    BY <1>1, <1>2 DEF round, BootTypeOK, RoundInOrder
  <2>2. app' \in {"opening", "starting"} => app \in {"opening", "starting"}
    BY DEF TableChanges, NodeEnds, Open, start_nodes, Break, AbortAll, ShutdownSession, Reach,
           bootVars
  <2> QED
    BY <1>2, <2>1, <2>2 DEF BootInv
<1>3. CASE start_nodes /\ ~UNCHANGED boot_task
  <2>1. /\ app = "starting" /\ app' = "running" /\ boot_task' = [n \in LocalNodes |-> "begin"]
        /\ UNCHANGED <<seed, found, pinged, pings, connected, busy, heard, verdict>>
    BY <1>3 DEF start_nodes, Reach, round
  <2>2. ASSUME NEW n \in LocalNodes PROVE RoundInOrder(n)'
    <3>1. boot_task[n] = "none" /\ boot_task'[n] = "begin" /\ RoundInOrder(n)
      BY <1>1, <2>1, <2>2 DEF BootInv
    <3>2. PingsAreCounted(boot_task[n], found[n], pinged[n], pings[n])'
      BY <2>1, <3>1 DEF RoundInOrder, PingsAreCounted
    <3>3. HeardIsKnown(boot_task[n], found[n], pinged[n], connected[n], busy[n], heard[n],
                       verdict[n])'
      BY <2>1, <3>1 DEF RoundInOrder, HeardIsKnown
    <3> QED
      BY <3>1, <3>2, <3>3 DEF RoundInOrder, ResolvesFirst
  <2>3. BootTypeOK'
    BY <1>1, <2>1 DEF BootTypeOK, IsOnNodes
  <2> QED
    BY <2>1, <2>2, <2>3 DEF BootInv
<1>4. CASE AbortAll
  <2>1. /\ boot_task' = [n \in LocalNodes |->
             IF boot_task[n] \in {"none", "ended"} THEN boot_task[n] ELSE "aborted"]
        /\ pings' = [n \in LocalNodes |-> {}] /\ app' = "closing"
        /\ UNCHANGED <<seed, found, pinged, connected, busy, heard, verdict>>
    BY <1>4 DEF AbortAll, Reach
  <2>2. ASSUME NEW n \in LocalNodes PROVE RoundInOrder(n)'
    <3>1. /\ boot_task'[n] \in {"none", "ended", "aborted"} /\ pings'[n] = {}
          /\ RoundInOrder(n)
      BY <1>1, <2>1, <2>2
    <3>2. PingsAreCounted(boot_task[n], found[n], pinged[n], pings[n])'
      BY <2>1, <3>1, NoPings DEF RoundInOrder, PingsAreCounted
    <3>3. HeardIsKnown(boot_task[n], found[n], pinged[n], connected[n], busy[n], heard[n],
                       verdict[n])'
      BY <2>1, <3>1 DEF RoundInOrder, HeardIsKnown
    <3> QED
      BY <3>1, <3>2, <3>3 DEF RoundInOrder, ResolvesFirst
  <2>3. BootTypeOK'
    BY <1>1, <2>1 DEF BootTypeOK, IsOnNodes
  <2> QED
    BY <2>1, <2>2, <2>3 DEF BootInv
<1> QED
  BY <1>2, <1>3, <1>4
  DEF TableChanges, NodeEnds, Open, start_nodes, Break, ShutdownSession, bootVars

LEMMA BootStep == BootInv /\ [BootNext]_bootVars => BootInv'
<1> SUFFICES ASSUME BootInv, [BootNext]_bootVars PROVE BootInv'
  OBVIOUS
<1>1. ASSUME NEW n \in LocalNodes, BeginTask(n) \/ Wake(n) PROVE BootInv'
  BY <1>1, GotoStep DEF BeginTask, Wake, UnchangedOutside
<1>2. ASSUME NEW n \in LocalNodes, Step(n) PROVE BootInv'
  BY <1>1, <1>2, StatusStep, ResolveStep, PingStep, AnswerStep, RoundEndsStep DEF Step
<1> QED
  BY <1>2, ApplicationSteps DEF BootNext

(* The first of a list without repetitions.                                *)
LEMMA FirstAreMany ==
    ASSUME NEW A, NEW t \in Seq(A), NoneTwice(t), NEW k \in Nat, k <= Len(t)
    PROVE  Cardinality({t[i] : i \in 1 .. k}) = k
<1> DEFINE F == [i \in 1 .. k |-> t[i]]
           T == {t[i] : i \in 1 .. k}
<1>1. \A i \in 1 .. k : i \in 1 .. Len(t)
  OBVIOUS
<1>2. F \in [1 .. k -> T] /\ \A i, j \in 1 .. k : F[i] = F[j] => i = j
  BY <1>1 DEF NoneTwice
<1>3. F \in Bijection(1 .. k, T)
  BY <1>2 DEF Bijection, Injection, Surjection, IsInjective
<1>4. ExistsBijection(1 .. k, T)
  BY <1>3 DEF ExistsBijection
<1>5. IsFiniteSet(1 .. k) /\ Cardinality(1 .. k) = IF 1 > k THEN 0 ELSE k - 1 + 1
  BY FS_Interval
<1>6. Cardinality(1 .. k) = k
  BY <1>5
<1> HIDE DEF T
<1>7. Cardinality(T) = Cardinality(1 .. k)
  BY <1>4, <1>5, FS_Bijection
<1> QED
  BY <1>6, <1>7 DEF T

(* For any names, whatever they resolve to, and any number of pings at a   *)
(* time: a round backs off only when every address was pinged and none     *)
(* answered or was turned away, and no address is pinged twice.            *)
THEOREM RoundsStayHonest == BootSpec => []RoundsAreHonest
<1>1. BootInv => RoundsAreHonest
  <2> SUFFICES ASSUME BootInv, NEW n \in LocalNodes
               PROVE  /\ verdict[n] = "failed" => heard[n] \subseteq {"failed"} /\ AllPinged(n)
                      /\ pings[n] \subseteq {found[n][i] : i \in 1 .. pinged[n]}
                      /\ Cardinality({found[n][i] : i \in 1 .. pinged[n]}) = pinged[n]
                      /\ Cardinality(pings[n]) <= MaxPings
    BY DEF RoundsAreHonest
  <2>1. RoundInOrder(n)
    BY DEF BootInv
  <2>2. /\ found[n] \in Seq(Addresses) /\ NoneTwice(found[n]) /\ pinged[n] \in Nat
        /\ pinged[n] <= Len(found[n]) /\ Cardinality(pings[n]) <= MaxPings
        /\ pings[n] \subseteq {found[n][i] : i \in 1 .. pinged[n]}
    BY <2>1 DEF RoundInOrder, PingsAreCounted
  <2>3. verdict[n] = "failed" => heard[n] \subseteq {"failed"} /\ pinged[n] = Len(found[n])
    BY <2>1 DEF RoundInOrder, HeardIsKnown
  <2>4. Cardinality({found[n][i] : i \in 1 .. pinged[n]}) = pinged[n]
    BY <2>2, FirstAreMany
  <2> QED
    BY <2>2, <2>3, <2>4 DEF AllPinged
<1> QED
  BY <1>1, BootStart, BootStep, PTL DEF BootSpec


-----------------------------------------------------------------------------
(* One job of the collector.  Nobody is forgotten: every usable address    *)
(* that was hinted at or found is selected or still on one of three lists. *)

JobTypeOK ==
    /\ job_pc \in {"next", "waiting", "attempt", "done"}
    /\ job_stage \in {"local_wait", "dht", "peer"}
    /\ first_hints \in Seq(Offered) /\ remaining_hints \in Seq(Offered)
    /\ channel \in Seq(Offered) /\ peers \in Seq(Offered)
    /\ IsFiniteSet(selected) /\ Cardinality(selected) <= MAX_PEER_ATTEMPTS
    /\ dialled \in BOOLEAN /\ summary \in BOOLEAN /\ last \in BOOLEAN
    /\ task_timeout \in BOOLEAN /\ sent \in BOOLEAN

(* A peer in the channel is one of those found, so there is room for the   *)
(* next.                                                                   *)
ChannelHasRoom == Len(channel) <= Len(peers) /\ Len(peers) <= max_peers /\ NoneTwice(peers)
OnTheWay == ToSet(first_hints) \cup ToSet(channel) \cup ToSet(remaining_hints)
NoneForgotten ==
    \A p \in (ToSet(hints) \cup ToSet(peers)) \cap Accepted : p \in selected \cup OnTheWay
StagesAgree ==
    /\ job_pc = "waiting" =>
          /\ first_hints = <<>> /\ remaining_hints = <<>>
          /\ Cardinality(selected) < MAX_PEER_ATTEMPTS
    /\ outcome = "none" <=> job_pc # "done"
    /\ last => dialled
    /\ job_stage = "peer" => dialled
    /\ dialled => last \/ (job_pc = "attempt" /\ job_stage = "peer") \/ job_pc = "done"
FaultStops ==
    lookup_fault # "none" =>
      IF job_pc = "done" THEN outcome \in {lookup_fault, "cancelled"}
      ELSE ~summary /\ job_pc \in {"waiting", "attempt"}
FaultKnown == lookup_fault \in LookupFaults \cup {"none"}
JobInv ==
    /\ JobTypeOK /\ ChannelHasRoom /\ NoneForgotten /\ StagesAgree /\ FaultKnown /\ FaultStops
    /\ JobsEndForAReason


(* A filter as a chain, like a collection above.                           *)
Keeping(f, s, S, n) ==
    f = [k \in 0 .. n |->
           IF k = 0 THEN <<>> ELSE IF s[k] \in S THEN Append(f[k - 1], s[k]) ELSE f[k - 1]]
LEMMA KeepingExists ==
    ASSUME NEW s, NEW S, NEW N \in Nat
    PROVE  \E f : Keeping(f, s, S, N)
<1> DEFINE G(x, k) == IF s[k] \in S THEN Append(x, s[k]) ELSE x
           Without == {n \in Nat : ~\E f : Keeping(f, s, S, n)}
<1>1. SUFFICES ASSUME Without # {} PROVE FALSE
  OBVIOUS
<1>2. PICK n \in Without : \A m \in Without : n <= m
  <2>1. Without \in SUBSET Nat
    OBVIOUS
  <2> QED
    BY <1>1, <2>1, LeastNatural
<1>3. n \in Nat /\ ~\E f : Keeping(f, s, S, n)
  OBVIOUS
<1>4. CASE n = 0
  <2> DEFINE f == [k \in 0 .. 0 |-> <<>>]
  <2>1. f = [k \in 0 .. 0 |->
               IF k = 0 THEN <<>> ELSE IF s[k] \in S THEN Append(f[k - 1], s[k]) ELSE f[k - 1]]
    OBVIOUS
  <2> HIDE DEF f
  <2> QED
    BY <1>3, <1>4, <2>1 DEF Keeping
<1>5. CASE n # 0
  <2>1. n - 1 \in Nat /\ n - 1 \notin Without
    BY <1>2, <1>3, <1>5
  <2>2. PICK f : Keeping(f, s, S, n - 1)
    BY <2>1
  <2> DEFINE g == [k \in 0 .. n |-> IF k = n THEN G(f[n - 1], n) ELSE f[k]]
  <2>3. ASSUME NEW k \in 0 .. n
        PROVE  g[k] = IF k = 0 THEN <<>>
                      ELSE IF s[k] \in S THEN Append(g[k - 1], s[k]) ELSE g[k - 1]
    <3>1. CASE k = n
      <4>1. k - 1 \in 0 .. n /\ k - 1 # n /\ k # 0
        BY <1>3, <1>5, <3>1
      <4>2. g[k] = G(f[n - 1], n) /\ g[k - 1] = f[k - 1]
        BY <3>1, <4>1
      <4> HIDE DEF g
      <4> QED
        BY <3>1, <4>1, <4>2
    <3>2. CASE k # n
      <4>1. k \in 0 .. (n - 1) /\ (k # 0 => k - 1 \in 0 .. n /\ k - 1 # n)
        BY <1>3, <3>2
      <4>2. f[k] = IF k = 0 THEN <<>>
                   ELSE IF s[k] \in S THEN Append(f[k - 1], s[k]) ELSE f[k - 1]
        BY <2>2, <4>1 DEF Keeping
      <4>3. g[k] = f[k] /\ (k # 0 => g[k - 1] = f[k - 1])
        BY <3>2, <4>1
      <4> HIDE DEF g
      <4> QED
        BY <4>2, <4>3
    <3> QED
      BY <3>1, <3>2
  <2>4. g = [k \in 0 .. n |-> g[k]]
    OBVIOUS
  <2> HIDE DEF g
  <2>5. g = [k \in 0 .. n |-> IF k = 0 THEN <<>>
               ELSE IF s[k] \in S THEN Append(g[k - 1], s[k]) ELSE g[k - 1]]
    BY <2>3, <2>4
  <2> QED
    BY <1>3, <2>5 DEF Keeping
<1> QED
  BY <1>4, <1>5

(* After k elements of s: those of them that are in S.                     *)
Holds(t, s, S, A, k) == t \in Seq(A) /\ \A i \in 1 .. k : s[i] \in S => s[i] \in ToSet(t)
LEMMA AppendHolds ==
    ASSUME NEW A, NEW t \in Seq(A), NEW a \in A
    PROVE  /\ Append(t, a) \in Seq(A) /\ a \in ToSet(Append(t, a))
           /\ \A b \in ToSet(t) : b \in ToSet(Append(t, a))
<1> DEFINE u == Append(t, a)
<1>1. /\ u \in Seq(A) /\ Len(u) = Len(t) + 1 /\ u[Len(t) + 1] = a /\ Len(t) \in Nat
      /\ \A i \in 1 .. Len(t) : u[i] = t[i]
  OBVIOUS
<1>2. DOMAIN u = 1 .. Len(u) /\ DOMAIN t = 1 .. Len(t)
  BY <1>1
<1> HIDE DEF u
<1>3. a \in ToSet(u)
  <2>1. Len(t) + 1 \in DOMAIN u
    BY <1>1, <1>2
  <2> QED
    BY <1>1, <2>1 DEF ToSet
<1>4. ASSUME NEW b \in ToSet(t) PROVE b \in ToSet(u)
  <2>1. PICK i \in DOMAIN t : b = t[i]
    BY DEF ToSet
  <2>2. i \in DOMAIN u /\ u[i] = b
    BY <1>1, <1>2, <2>1
  <2> QED
    BY <2>2 DEF ToSet
<1> QED
  BY <1>1, <1>3, <1>4 DEF u

LEMMA KeptHolds ==
    ASSUME NEW A, NEW s \in Seq(A), NEW S
    PROVE  Holds(Kept(s, S), s, S, A, Len(s))
<1> DEFINE after == CHOOSE f : Keeping(f, s, S, Len(s))
<1>1. Len(s) \in Nat
  OBVIOUS
<1>2. Keeping(after, s, S, Len(s))
  BY <1>1, KeepingExists
<1>3. Kept(s, S) = after[Len(s)]
  BY DEF Kept, Keeping
<1> HIDE DEF after
<1>4. /\ after[0] = <<>>
      /\ \A k \in 1 .. Len(s) :
           after[k] = IF s[k] \in S THEN Append(after[k - 1], s[k]) ELSE after[k - 1]
  <2>1. \A k \in 0 .. Len(s) :
          after[k] = IF k = 0 THEN <<>>
                     ELSE IF s[k] \in S THEN Append(after[k - 1], s[k]) ELSE after[k - 1]
    BY <1>2, Zenon DEF Keeping
  <2>2. after[0] = <<>>
    BY <1>1, <2>1
  <2>3. ASSUME NEW k \in 1 .. Len(s)
        PROVE  after[k] = IF s[k] \in S THEN Append(after[k - 1], s[k]) ELSE after[k - 1]
    <3>1. k \in 0 .. Len(s) /\ k # 0
      BY <1>1
    <3> QED
      BY <2>1, <3>1, Zenon
  <2> QED
    BY <2>2, <2>3
<1> DEFINE Poor == {k \in 0 .. Len(s) : ~Holds(after[k], s, S, A, k)}
<1>5. Poor = {}
  <2> SUFFICES ASSUME Poor # {} PROVE FALSE
    OBVIOUS
  <2>1. Poor \in SUBSET Nat
    BY <1>1
  <2>2. PICK k \in Poor : \A m \in Poor : k <= m
    BY <2>1, LeastNatural
  <2>3. k \in 0 .. Len(s) /\ ~Holds(after[k], s, S, A, k)
    BY <2>2
  <2>4. Holds(<<>>, s, S, A, 0)
    BY DEF Holds
  <2>5. k # 0
    BY <1>4, <2>3, <2>4
  <2>6. k \in 1 .. Len(s) /\ k - 1 \in 0 .. Len(s) /\ ~(k <= k - 1)
    BY <1>1, <2>3, <2>5
  <2>7. k - 1 \notin Poor
    BY <2>2, <2>6
  <2>8. Holds(after[k - 1], s, S, A, k - 1)
    BY <2>6, <2>7
  <2>9. s[k] \in A /\ after[k - 1] \in Seq(A)
    BY <2>6, <2>8 DEF Holds
  <2>10. /\ Append(after[k - 1], s[k]) \in Seq(A) /\ s[k] \in ToSet(Append(after[k - 1], s[k]))
         /\ \A b \in ToSet(after[k - 1]) : b \in ToSet(Append(after[k - 1], s[k]))
    BY <2>9, AppendHolds
  <2>11. after[k] = IF s[k] \in S THEN Append(after[k - 1], s[k]) ELSE after[k - 1]
    BY <1>4, <2>6
  <2>12. \A i \in 1 .. k : i = k \/ i \in 1 .. (k - 1)
    BY <2>6
  <2>13. Holds(after[k], s, S, A, k)
    <3>1. CASE s[k] \in S
      BY <2>8, <2>10, <2>11, <2>12, <3>1 DEF Holds
    <3>2. CASE s[k] \notin S
      BY <2>8, <2>9, <2>11, <2>12, <3>2 DEF Holds
    <3> QED
      BY <3>1, <3>2
  <2> QED
    BY <2>3, <2>13
<1>6. Len(s) \in 0 .. Len(s)
  BY <1>1
<1> QED
  BY <1>3, <1>5, <1>6


(* Lists that are taken from the front, cut in two, and put together.      *)
LEMMA FrontTaken ==
    ASSUME NEW A, NEW t \in Seq(A), t # <<>>
    PROVE  /\ Head(t) \in A /\ Tail(t) \in Seq(A) /\ Len(Tail(t)) < Len(t)
           /\ \A b \in ToSet(t) : b = Head(t) \/ b \in ToSet(Tail(t))
<1>1. /\ Head(t) \in A /\ Tail(t) \in Seq(A) /\ Len(t) \in Nat /\ Len(t) > 0
      /\ Len(Tail(t)) = Len(t) - 1 /\ Head(t) = t[1]
      /\ \A i \in 1 .. (Len(t) - 1) : Tail(t)[i] = t[i + 1]
  OBVIOUS
<1>2. DOMAIN t = 1 .. Len(t) /\ DOMAIN Tail(t) = 1 .. (Len(t) - 1)
  BY <1>1
<1>3. ASSUME NEW b \in ToSet(t) PROVE b = Head(t) \/ b \in ToSet(Tail(t))
  <2>1. PICK i \in 1 .. Len(t) : b = t[i]
    BY <1>2 DEF ToSet
  <2>2. CASE i = 1
    BY <1>1, <2>1, <2>2
  <2>3. CASE i # 1
    <3>1. i - 1 \in 1 .. (Len(t) - 1) /\ (i - 1) + 1 = i
      BY <1>1, <2>3
    <3>2. Tail(t)[i - 1] = b /\ i - 1 \in DOMAIN Tail(t)
      BY <1>1, <1>2, <2>1, <3>1
    <3> QED
      BY <3>2 DEF ToSet
  <2> QED
    BY <2>2, <2>3
<1> QED
  BY <1>1, <1>3

LEMMA CutInTwo ==
    ASSUME NEW A, NEW t \in Seq(A), NEW n \in 0 .. Len(t)
    PROVE  /\ SubSeq(t, 1, n) \in Seq(A) /\ Len(SubSeq(t, 1, n)) = n
           /\ SubSeq(t, n + 1, Len(t)) \in Seq(A)
           /\ Len(SubSeq(t, n + 1, Len(t))) = Len(t) - n
           /\ \A b \in ToSet(t) : b \in ToSet(SubSeq(t, 1, n)) \/ b \in ToSet(SubSeq(t, n + 1, Len(t)))
           /\ \A i \in n + 1 .. Len(t) : t[i] \in ToSet(SubSeq(t, n + 1, Len(t)))
<1> DEFINE u == SubSeq(t, 1, n)
           v == SubSeq(t, n + 1, Len(t))
<1>1. Len(t) \in Nat /\ n \in Nat /\ n <= Len(t) /\ DOMAIN t = 1 .. Len(t)
  OBVIOUS
<1>2. \A i \in 1 .. Len(t) : t[i] \in A
  BY <1>1
<1>3. /\ u \in Seq(A) /\ Len(u) = n /\ DOMAIN u = 1 .. n
      /\ \A i \in 1 .. n : u[i] = t[i]
  <2>1. \A i \in 1 .. n : t[i] \in A
    BY <1>1, <1>2
  <2>2. u = [i \in 1 .. n |-> t[i]]
    BY <1>1
  <2> QED
    BY <1>1, <2>1, <2>2
<1>4. /\ v \in Seq(A) /\ Len(v) = Len(t) - n /\ DOMAIN v = 1 .. (Len(t) - n)
      /\ \A i \in 1 .. (Len(t) - n) : v[i] = t[n + i]
  <2>1. \A i \in 1 .. (Len(t) - n) : t[n + i] \in A
    BY <1>1, <1>2
  <2>2. v = [i \in 1 .. (Len(t) - n) |-> t[n + i]]
    BY <1>1
  <2> QED
    BY <1>1, <2>1, <2>2
<1> HIDE DEF u, v
<1>5. ASSUME NEW i \in n + 1 .. Len(t) PROVE t[i] \in ToSet(v)
  <2>1. i - n \in 1 .. (Len(t) - n) /\ n + (i - n) = i
    BY <1>1
  <2>2. i - n \in DOMAIN v /\ v[i - n] = t[i]
    BY <1>4, <2>1
  <2> QED
    BY <2>2 DEF ToSet
<1>6. ASSUME NEW b \in ToSet(t) PROVE b \in ToSet(u) \/ b \in ToSet(v)
  <2>1. PICK i \in 1 .. Len(t) : b = t[i]
    BY <1>1 DEF ToSet
  <2>2. CASE i \in 1 .. n
    <3>1. i \in DOMAIN u /\ u[i] = b
      BY <1>3, <2>1, <2>2
    <3> QED
      BY <3>1 DEF ToSet
  <2>3. CASE i \in n + 1 .. Len(t)
    BY <1>5, <2>1, <2>3
  <2> QED
    BY <1>1, <2>1, <2>2, <2>3
<1> QED
  BY <1>3, <1>4, <1>5, <1>6 DEF u, v

LEMMA PutTogether ==
    ASSUME NEW A, NEW t \in Seq(A), NEW u \in Seq(A)
    PROVE  /\ t \o u \in Seq(A) /\ Len(t \o u) = Len(t) + Len(u)
           /\ \A b \in ToSet(t) : b \in ToSet(t \o u)
           /\ \A b \in ToSet(u) : b \in ToSet(t \o u)
<1> DEFINE v == t \o u
<1>1. /\ v \in Seq(A) /\ Len(v) = Len(t) + Len(u) /\ Len(t) \in Nat /\ Len(u) \in Nat
      /\ \A i \in 1 .. Len(t) : v[i] = t[i]
      /\ \A i \in 1 .. Len(u) : v[Len(t) + i] = u[i]
  OBVIOUS
<1>2. DOMAIN v = 1 .. Len(v) /\ DOMAIN t = 1 .. Len(t) /\ DOMAIN u = 1 .. Len(u)
  BY <1>1
<1> HIDE DEF v
<1>3. ASSUME NEW b \in ToSet(t) PROVE b \in ToSet(v)
  <2>1. PICK i \in DOMAIN t : b = t[i]
    BY DEF ToSet
  <2>2. i \in DOMAIN v /\ v[i] = b
    BY <1>1, <1>2, <2>1
  <2> QED
    BY <2>2 DEF ToSet
<1>4. ASSUME NEW b \in ToSet(u) PROVE b \in ToSet(v)
  <2>1. PICK i \in DOMAIN u : b = u[i]
    BY DEF ToSet
  <2>2. Len(t) + i \in DOMAIN v /\ v[Len(t) + i] = b
    BY <1>1, <1>2, <2>1
  <2> QED
    BY <2>2 DEF ToSet
<1> QED
  BY <1>1, <1>3, <1>4 DEF v


(* The job's state before it begins.                                       *)
LEMMA JobInitHolds == JobInit => JobInv
<1> SUFFICES ASSUME JobInit PROVE JobInv
  OBVIOUS
<1> DEFINE e == Eligible
           n == IF Len(e) < 2 THEN Len(e) ELSE 2
<1>1. hints \in Seq(Offered) /\ MAX_PEER_ATTEMPTS \in Nat /\ max_peers \in Nat
  BY JobAssumption
<1>2. Holds(e, hints, Accepted, Offered, Len(hints))
  BY <1>1, KeptHolds DEF Eligible
<1>3. e \in Seq(Offered) /\ \A i \in 1 .. Len(hints) : hints[i] \in Accepted => hints[i] \in ToSet(e)
  BY <1>2 DEF Holds
<1>4. first_hints = SubSeq(e, 1, n) /\ remaining_hints = SubSeq(e, Len(SubSeq(e, 1, n)) + 1, Len(e))
  BY DEF JobInit, FirstHints
<1> HIDE DEF e
<1>5. n \in 0 .. Len(e)
  BY <1>3
<1> HIDE DEF n
<1>6. /\ SubSeq(e, 1, n) \in Seq(Offered) /\ Len(SubSeq(e, 1, n)) = n
      /\ SubSeq(e, n + 1, Len(e)) \in Seq(Offered)
      /\ \A b \in ToSet(e) : b \in ToSet(SubSeq(e, 1, n)) \/ b \in ToSet(SubSeq(e, n + 1, Len(e)))
  BY <1>3, <1>5, CutInTwo
<1>7. remaining_hints = SubSeq(e, n + 1, Len(e))
  BY <1>4, <1>6
<1>8. first_hints \in Seq(Offered) /\ remaining_hints \in Seq(Offered)
  BY <1>4, <1>6, <1>7
<1>9. IsFiniteSet(selected) /\ Cardinality(selected) = 0
  BY FS_EmptySet DEF JobInit
<1>10. JobTypeOK
  <2>1. /\ job_pc = "next" /\ job_stage = "local_wait" /\ dialled = FALSE /\ summary = FALSE
        /\ last = FALSE /\ task_timeout = FALSE /\ sent = FALSE /\ channel = <<>> /\ peers = <<>>
    BY DEF JobInit
  <2>2. <<>> \in Seq(Offered)
    OBVIOUS
  <2>3. Cardinality(selected) <= MAX_PEER_ATTEMPTS
    BY <1>1, <1>9
  <2> QED
    BY <1>8, <1>9, <2>1, <2>2, <2>3, Zenon DEF JobTypeOK
<1>11. ChannelHasRoom
  BY <1>1 DEF JobInit, ChannelHasRoom, NoneTwice
<1>12. NoneForgotten
  <2> SUFFICES ASSUME NEW p \in (ToSet(hints) \cup ToSet(peers)) \cap Accepted
               PROVE  p \in selected \cup OnTheWay
    BY DEF NoneForgotten
  <2>1. ToSet(peers) = {}
    BY DEF JobInit, ToSet
  <2>2. DOMAIN hints = 1 .. Len(hints)
    BY <1>1
  <2>3. PICK i \in 1 .. Len(hints) : p = hints[i]
    BY <2>1, <2>2 DEF ToSet
  <2>4. p \in ToSet(e)
    BY <1>3, <2>3
  <2> QED
    BY <1>4, <1>6, <1>7, <2>4 DEF OnTheWay
<1>13. StagesAgree /\ FaultKnown /\ FaultStops
  BY DEF JobInit, StagesAgree, FaultKnown, FaultStops
<1>14. JobsEndForAReason
  BY DEF JobInit, JobsEndForAReason, NothingIsOverlooked, FaultIsReported, ChargeIsFair
<1> QED
  BY <1>10, <1>11, <1>12, <1>13, <1>14 DEF JobInv

(* A step of the lookup that hands nothing over.  run_job waits, so that   *)
(* no fault was met before and the outcome is open.                        *)
LEMMA PolledIsOpen ==
    ASSUME JobInv, Polled
    PROVE  /\ lookup_fault = "none" /\ ~summary /\ outcome = "none"
           /\ job_pc \in {"waiting", "attempt"}
BY DEF JobInv, Polled, Returns, StagesAgree

LEMMA LookupStepHolds ==
    ASSUME JobInv, Polled, UnchangedJob, channel' = channel, peers' = peers,
           sent' \in BOOLEAN, lookup_fault' \in LookupFaults \cup {"none"}
    PROVE  JobInv'
<1>1. ~summary /\ outcome = "none" /\ job_pc \in {"waiting", "attempt"}
  BY PolledIsOpen
<1>2. /\ job_pc' = job_pc /\ first_hints' = first_hints /\ remaining_hints' = remaining_hints
      /\ selected' = selected /\ job_stage' = job_stage /\ dialled' = dialled
      /\ summary' = summary /\ last' = last /\ outcome' = outcome /\ task_timeout' = task_timeout
  BY DEF UnchangedJob, selector
<1>3. JobTypeOK'
  BY <1>2 DEF JobInv, JobTypeOK
<1>4. ChannelHasRoom'
  BY <1>2 DEF JobInv, ChannelHasRoom, NoneTwice
<1>5. NoneForgotten'
  BY <1>2 DEF JobInv, NoneForgotten, OnTheWay
<1>6. StagesAgree'
  BY <1>2 DEF JobInv, StagesAgree
<1>7. FaultKnown' /\ FaultStops'
  BY <1>1, <1>2 DEF FaultKnown, FaultStops, LookupFaults
<1>8. JobsEndForAReason'
  BY <1>1, <1>2 DEF JobsEndForAReason, NothingIsOverlooked, FaultIsReported, ChargeIsFair
<1> QED
  BY <1>3, <1>4, <1>5, <1>6, <1>7, <1>8 DEF JobInv

(* An answer: what is new in it goes to the channel, all of it.            *)
LEMMA AnswerHolds ==
    ASSUME JobInv, NEW f, NEW c, NEW trusted, NEW nodes, NEW answer \in Answers,
           AnswerComes(f, c, trusted, nodes, answer)
    PROVE  JobInv'
<1> DEFINE g == Grown(answer)
           news == News(answer)
<1>1. /\ answer \in Seq(Offered) /\ max_peers \in Nat /\ channel_size \in Nat
      /\ max_peers <= channel_size
  BY JobAssumption
<1>2. /\ peers \in Seq(Offered) /\ channel \in Seq(Offered) /\ NoneTwice(peers)
      /\ Len(channel) <= Len(peers) /\ Len(peers) <= max_peers
  BY DEF JobInv, JobTypeOK, ChannelHasRoom
<1>3. Extends(g, peers, Offered, max_peers)
  BY <1>1, <1>2, CollectedExtends DEF Grown
<1>4. news = SubSeq(g, Len(peers) + 1, Len(g))
  BY DEF News
<1>5. peers' = g /\ Deliver(news) /\ Polled /\ UnchangedJob /\ sent' = sent /\ lookup_fault' = lookup_fault
  BY DEF AnswerComes, Awaits
<1> HIDE DEF g, news
<1>6. /\ g \in Seq(Offered) /\ NoneTwice(g) /\ Len(peers) <= Len(g)
      /\ \A i \in 1 .. Len(peers) : g[i] = peers[i]
      /\ Len(g) <= max_peers
  BY <1>2, <1>3 DEF Extends, GoesOn
<1>7. Len(peers) \in 0 .. Len(g) /\ Len(channel) \in Nat /\ Len(g) \in Nat
  BY <1>2, <1>6
<1>8. /\ news \in Seq(Offered) /\ Len(news) = Len(g) - Len(peers)
      /\ \A i \in Len(peers) + 1 .. Len(g) : g[i] \in ToSet(news)
  BY <1>4, <1>6, <1>7, CutInTwo
<1>9. channel' = channel \o news
  <2>1. Len(news) <= channel_size - Len(channel)
    BY <1>1, <1>2, <1>6, <1>7, <1>8
  <2>2. (IF Len(news) < channel_size - Len(channel)
         THEN Len(news) ELSE channel_size - Len(channel)) = Len(news)
    BY <1>1, <1>7, <1>8, <2>1
  <2>3. SubSeq(news, 1, Len(news)) = news
    BY <1>8
  <2> QED
    BY <1>5, <2>2, <2>3 DEF Deliver
<1>10. /\ channel' \in Seq(Offered) /\ Len(channel') = Len(channel) + Len(news)
       /\ \A b \in ToSet(channel) : b \in ToSet(channel')
       /\ \A b \in ToSet(news) : b \in ToSet(channel')
  BY <1>2, <1>8, <1>9, PutTogether
<1>11. ~summary /\ outcome = "none" /\ job_pc \in {"waiting", "attempt"} /\ lookup_fault = "none"
  BY <1>5, PolledIsOpen
<1>12. /\ job_pc' = job_pc /\ first_hints' = first_hints /\ remaining_hints' = remaining_hints
       /\ selected' = selected /\ job_stage' = job_stage /\ dialled' = dialled
       /\ summary' = summary /\ last' = last /\ outcome' = outcome /\ task_timeout' = task_timeout
  BY <1>5 DEF UnchangedJob, selector
<1>13. JobTypeOK'
  BY <1>5, <1>6, <1>10, <1>12 DEF JobInv, JobTypeOK
<1>14. ChannelHasRoom'
  <2>1. Len(channel') <= Len(g)
    BY <1>2, <1>7, <1>8, <1>10
  <2> QED
    BY <1>5, <1>6, <2>1 DEF ChannelHasRoom, NoneTwice
<1>15. NoneForgotten'
  <2> SUFFICES ASSUME NEW p \in (ToSet(hints) \cup ToSet(g)) \cap Accepted
               PROVE  p \in selected \cup OnTheWay'
    BY <1>5, <1>12 DEF NoneForgotten
  <2>1. CASE p \in ToSet(hints) \cup ToSet(peers)
    <3>1. p \in selected \cup OnTheWay
      BY <2>1 DEF JobInv, NoneForgotten
    <3> QED
      BY <1>10, <1>12, <3>1 DEF OnTheWay
  <2>2. CASE p \in ToSet(g) \ ToSet(peers)
    <3>1. DOMAIN g = 1 .. Len(g) /\ DOMAIN peers = 1 .. Len(peers)
      BY <1>2, <1>6
    <3>2. PICK i \in 1 .. Len(g) : p = g[i]
      BY <2>2, <3>1 DEF ToSet
    <3>3. i \notin 1 .. Len(peers)
      BY <1>6, <2>2, <3>1, <3>2 DEF ToSet
    <3>4. i \in Len(peers) + 1 .. Len(g)
      BY <1>7, <3>2, <3>3
    <3> QED
      BY <1>8, <1>10, <3>2, <3>4 DEF OnTheWay
  <2> QED
    BY <2>1, <2>2
<1>16. StagesAgree'
  BY <1>12 DEF JobInv, StagesAgree
<1>17. FaultKnown' /\ FaultStops'
  BY <1>5, <1>11 DEF FaultKnown, FaultStops
<1>18. JobsEndForAReason'
  BY <1>11, <1>12 DEF JobsEndForAReason, NothingIsOverlooked, FaultIsReported, ChargeIsFair
<1> QED
  BY <1>13, <1>14, <1>15, <1>16, <1>17, <1>18 DEF JobInv


(* A candidate is taken: it is selected or need not be.                    *)
LEMMA SelectHolds ==
    ASSUME JobInv, NEW p, select_once(p), Cardinality(selected) < MAX_PEER_ATTEMPTS
    PROVE  /\ IsFiniteSet(selected') /\ Cardinality(selected') <= MAX_PEER_ATTEMPTS
           /\ selected \subseteq selected' /\ (p \in Accepted => p \in selected')
           /\ job_pc' \in {"attempt", "next"} /\ (job_stage' = "peer" => job_stage = "peer")
           /\ job_stage' \in {"local_wait", "dht", "peer"}
<1>1. IsFiniteSet(selected) /\ MAX_PEER_ATTEMPTS \in Nat
  BY JobAssumption DEF JobInv, JobTypeOK
<1>2. CASE p \in Accepted \ selected
  <2>1. /\ IsFiniteSet(selected \cup {p})
        /\ Cardinality(selected \cup {p}) =
             IF p \in selected THEN Cardinality(selected) ELSE Cardinality(selected) + 1
    BY <1>1, FS_AddElement
  <2>2. Cardinality(selected) \in Nat
    BY <1>1, FS_CardinalityType
  <2>3. selected' = selected \cup {p} /\ job_pc' = "attempt" /\ job_stage' = "local_wait"
    BY <1>2 DEF select_once
  <2> QED
    BY <1>1, <1>2, <2>1, <2>2, <2>3
<1>3. CASE p \notin Accepted \ selected
  <2>1. selected' = selected /\ job_pc' = "next" /\ job_stage' = job_stage
    BY <1>3 DEF select_once
  <2> QED
    BY <1>1, <1>3, <2>1 DEF JobInv, JobTypeOK
<1> QED
  BY <1>2, <1>3

(* The rest of such a step: nothing is lost with the candidate, and the    *)
(* outcome stays open.                                                     *)
LEMMA TakeHolds ==
    ASSUME JobInv, NEW p, select_once(p), Cardinality(selected) < MAX_PEER_ATTEMPTS,
           job_pc \in {"next", "waiting"}, lookup_fault = "none", UNCHANGED lookup,
           UNCHANGED <<dialled, last, outcome, task_timeout>>, summary' \in BOOLEAN,
           first_hints' \in Seq(Offered), channel' \in Seq(Offered),
           remaining_hints' \in Seq(Offered), Len(channel') <= Len(channel),
           \A b \in OnTheWay : b = p \/ b \in OnTheWay'
    PROVE  JobInv'
<1>1. /\ IsFiniteSet(selected') /\ Cardinality(selected') <= MAX_PEER_ATTEMPTS
      /\ selected \subseteq selected' /\ (p \in Accepted => p \in selected')
      /\ job_pc' \in {"attempt", "next"} /\ (job_stage' = "peer" => job_stage = "peer")
      /\ job_stage' \in {"local_wait", "dht", "peer"}
  BY SelectHolds
<1>2. /\ dialled' = dialled /\ last' = last /\ outcome' = outcome /\ task_timeout' = task_timeout
      /\ peers' = peers /\ sent' = sent /\ lookup_fault' = lookup_fault
  BY DEF lookup
<1>3. outcome = "none"
  BY DEF JobInv, StagesAgree
<1>4. JobTypeOK'
  <2>1. job_pc' \in {"next", "waiting", "attempt", "done"}
    BY <1>1
  <2> QED
    BY <1>1, <1>2, <2>1 DEF JobInv, JobTypeOK
<1>5. ChannelHasRoom'
  <2>1. Len(channel) \in Nat /\ Len(channel') \in Nat /\ Len(peers) \in Nat
    BY DEF JobInv, JobTypeOK
  <2> QED
    BY <1>2, <2>1 DEF JobInv, ChannelHasRoom, NoneTwice
<1>6. NoneForgotten'
  <2> SUFFICES ASSUME NEW q \in (ToSet(hints) \cup ToSet(peers)) \cap Accepted
               PROVE  q \in selected' \cup OnTheWay'
    BY <1>2 DEF NoneForgotten
  <2>1. q \in selected \cup OnTheWay
    BY DEF JobInv, NoneForgotten
  <2> QED
    BY <1>1, <2>1
<1>7. StagesAgree'
  BY <1>1, <1>2, <1>3 DEF JobInv, StagesAgree
<1>8. FaultKnown' /\ FaultStops'
  BY <1>2 DEF FaultKnown, FaultStops
<1>9. JobsEndForAReason'
  BY <1>2, <1>3 DEF JobsEndForAReason, NothingIsOverlooked, FaultIsReported, ChargeIsFair
<1> QED
  BY <1>4, <1>5, <1>6, <1>7, <1>8, <1>9 DEF JobInv

LEMMA NextReadyHolds ==
    ASSUME JobInv, next_ready PROVE JobInv'
<1>1. /\ first_hints \in Seq(Offered) /\ channel \in Seq(Offered)
      /\ remaining_hints \in Seq(Offered) /\ Len(channel) \in Nat
      /\ summary \in BOOLEAN
  BY DEF JobInv, JobTypeOK
<1>2. /\ job_pc = "next" /\ Cardinality(selected) < MAX_PEER_ATTEMPTS
      /\ dialled' = dialled /\ summary' = summary /\ last' = last /\ outcome' = outcome
      /\ task_timeout' = task_timeout /\ UNCHANGED lookup
  BY DEF next_ready
<1>3. lookup_fault = "none"
  BY <1>2 DEF JobInv, FaultStops
<1>4. CASE /\ first_hints # <<>> /\ select_once(Head(first_hints))
           /\ first_hints' = Tail(first_hints) /\ UNCHANGED <<remaining_hints, channel>>
  <2>1. /\ Tail(first_hints) \in Seq(Offered)
        /\ \A b \in ToSet(first_hints) : b = Head(first_hints) \/ b \in ToSet(Tail(first_hints))
    BY <1>1, <1>4, FrontTaken
  <2>2. \A b \in OnTheWay : b = Head(first_hints) \/ b \in OnTheWay'
    BY <1>4, <2>1 DEF OnTheWay
  <2>3. /\ first_hints' \in Seq(Offered) /\ channel' \in Seq(Offered)
        /\ remaining_hints' \in Seq(Offered) /\ Len(channel') <= Len(channel)
    BY <1>1, <1>4, <2>1
  <2> QED
    BY <1>1, <1>2, <1>3, <1>4, <2>2, <2>3, TakeHolds
<1>5. CASE /\ first_hints = <<>> /\ channel # <<>> /\ select_once(Head(channel))
           /\ channel' = Tail(channel) /\ UNCHANGED <<first_hints, remaining_hints>>
  <2>1. /\ Tail(channel) \in Seq(Offered) /\ Len(Tail(channel)) < Len(channel)
        /\ \A b \in ToSet(channel) : b = Head(channel) \/ b \in ToSet(Tail(channel))
    BY <1>1, <1>5, FrontTaken
  <2>2. \A b \in OnTheWay : b = Head(channel) \/ b \in OnTheWay'
    BY <1>5, <2>1 DEF OnTheWay
  <2>3. /\ first_hints' \in Seq(Offered) /\ channel' \in Seq(Offered)
        /\ remaining_hints' \in Seq(Offered) /\ Len(channel') <= Len(channel)
    BY <1>1, <1>5, <2>1
  <2> QED
    BY <1>1, <1>2, <1>3, <1>5, <2>2, <2>3, TakeHolds
<1>6. CASE /\ first_hints = <<>> /\ channel = <<>> /\ remaining_hints # <<>>
           /\ select_once(Head(remaining_hints)) /\ remaining_hints' = Tail(remaining_hints)
           /\ UNCHANGED <<first_hints, channel>>
  <2>1. /\ Tail(remaining_hints) \in Seq(Offered)
        /\ \A b \in ToSet(remaining_hints) :
             b = Head(remaining_hints) \/ b \in ToSet(Tail(remaining_hints))
    BY <1>1, <1>6, FrontTaken
  <2>2. \A b \in OnTheWay : b = Head(remaining_hints) \/ b \in OnTheWay'
    BY <1>6, <2>1 DEF OnTheWay
  <2>3. /\ first_hints' \in Seq(Offered) /\ channel' \in Seq(Offered)
        /\ remaining_hints' \in Seq(Offered) /\ Len(channel') <= Len(channel)
    BY <1>1, <1>6, <2>1
  <2> QED
    BY <1>1, <1>2, <1>3, <1>6, <2>2, <2>3, TakeHolds
<1> QED
  BY <1>4, <1>5, <1>6 DEF next_ready

(* From the channel while run_job waits.                                   *)
LEMMA FromChannelHolds ==
    ASSUME JobInv, job_pc = "waiting", lookup_fault = "none", channel # <<>>,
           select_once(Head(channel)), channel' = Tail(channel),
           UNCHANGED <<first_hints, remaining_hints, dialled, last, outcome, task_timeout>>,
           UNCHANGED lookup, summary' \in BOOLEAN
    PROVE  JobInv'
<1>1. /\ first_hints \in Seq(Offered) /\ channel \in Seq(Offered)
      /\ remaining_hints \in Seq(Offered) /\ Len(channel) \in Nat
      /\ Cardinality(selected) < MAX_PEER_ATTEMPTS
  BY DEF JobInv, JobTypeOK, StagesAgree
<1>2. /\ Tail(channel) \in Seq(Offered) /\ Len(Tail(channel)) < Len(channel)
      /\ \A b \in ToSet(channel) : b = Head(channel) \/ b \in ToSet(Tail(channel))
  BY <1>1, FrontTaken
<1>3. \A b \in OnTheWay : b = Head(channel) \/ b \in OnTheWay'
  BY <1>2 DEF OnTheWay
<1>4. /\ first_hints' \in Seq(Offered) /\ channel' \in Seq(Offered)
      /\ remaining_hints' \in Seq(Offered) /\ Len(channel') <= Len(channel)
  BY <1>1, <1>2
<1> QED
  BY <1>1, <1>3, <1>4, TakeHolds

LEMMA ReceiveHolds ==
    ASSUME JobInv, Receive PROVE JobInv'
<1>1. lookup_fault = "none"
  BY DEF JobInv, FaultStops, Receive, Returns
<1>2. summary' \in BOOLEAN
  BY DEF JobInv, JobTypeOK, Receive
<1>3. /\ job_pc = "waiting" /\ channel # <<>> /\ select_once(Head(channel))
      /\ channel' = Tail(channel) /\ UNCHANGED lookup
      /\ UNCHANGED <<first_hints, remaining_hints, dialled, last, outcome, task_timeout>>
  BY DEF Receive
<1> QED
  BY <1>1, <1>2, <1>3, FromChannelHolds


(* A step that takes no candidate and leaves the lookup alone.             *)
LEMMA ListsStay ==
    ASSUME JobInv, UNCHANGED <<selector, channel>>, UNCHANGED lookup
    PROVE  /\ selected' = selected /\ peers' = peers /\ sent' = sent
           /\ lookup_fault' = lookup_fault
           /\ first_hints' = first_hints /\ remaining_hints' = remaining_hints
           /\ channel' = channel
           /\ ChannelHasRoom' /\ NoneForgotten' /\ FaultKnown'
<1>1. /\ selected' = selected /\ peers' = peers /\ sent' = sent
      /\ first_hints' = first_hints /\ remaining_hints' = remaining_hints
      /\ channel' = channel /\ lookup_fault' = lookup_fault
  BY DEF selector, lookup
<1>2. ChannelHasRoom'
  BY <1>1 DEF JobInv, ChannelHasRoom, NoneTwice
<1>3. NoneForgotten'
  BY <1>1 DEF JobInv, NoneForgotten, OnTheWay
<1>4. FaultKnown'
  BY <1>1 DEF JobInv, FaultKnown
<1> QED
  BY <1>1, <1>2, <1>3, <1>4

(* run_job gives up: enough were tried, or nobody is left on a list and    *)
(* the lookup is over.                                                     *)
LEMMA GiveUpHolds ==
    ASSUME JobInv, GiveUp, UNCHANGED <<selector, channel>>, UNCHANGED lookup,
           UNCHANGED <<job_stage, dialled, last, task_timeout>>, summary' \in BOOLEAN,
           lookup_fault = "none", job_pc \in {"next", "waiting"},
           \/ Cardinality(selected) >= MAX_PEER_ATTEMPTS
           \/ summary' /\ first_hints = <<>> /\ channel = <<>> /\ remaining_hints = <<>>
    PROVE  JobInv'
<1>1. /\ selected' = selected /\ peers' = peers /\ sent' = sent
      /\ lookup_fault' = lookup_fault
      /\ first_hints' = first_hints /\ remaining_hints' = remaining_hints
      /\ channel' = channel
      /\ ChannelHasRoom' /\ NoneForgotten' /\ FaultKnown'
  BY ListsStay
<1>2. /\ job_stage' = job_stage /\ dialled' = dialled /\ last' = last
      /\ task_timeout' = task_timeout /\ job_pc' = "done"
  BY DEF GiveUp, Finish
<1>3. /\ outcome' \in {"failed", "resource_wait", "no_route"}
      /\ outcome' = "failed" <=> last \/ sent
  BY DEF GiveUp, Finish
<1>4. JobTypeOK'
  BY <1>1, <1>2 DEF JobInv, JobTypeOK
<1>5. StagesAgree'
  BY <1>2, <1>3 DEF JobInv, StagesAgree
<1>6. FaultStops'
  BY <1>1 DEF FaultStops
<1>7. NothingIsOverlooked'
  <2>1. CASE Cardinality(selected) >= MAX_PEER_ATTEMPTS
    <3>1. Cardinality(selected) \in Nat /\ MAX_PEER_ATTEMPTS \in Nat
          /\ Cardinality(selected) <= MAX_PEER_ATTEMPTS
      BY JobAssumption, FS_CardinalityType DEF JobInv, JobTypeOK
    <3>2. Cardinality(selected) = MAX_PEER_ATTEMPTS
      BY <2>1, <3>1
    <3> QED
      BY <1>1, <3>2 DEF NothingIsOverlooked
  <2>2. CASE summary' /\ first_hints = <<>> /\ channel = <<>> /\ remaining_hints = <<>>
    <3>1. OnTheWay = {}
      BY <2>2 DEF OnTheWay, ToSet
    <3>2. (ToSet(hints) \cup ToSet(peers)) \cap Accepted \subseteq selected
      BY <3>1 DEF JobInv, NoneForgotten
    <3> QED
      BY <1>1, <2>2, <3>2 DEF NothingIsOverlooked
  <2> QED
    BY <2>1, <2>2
<1>8. FaultIsReported'
  BY <1>1 DEF FaultIsReported
<1>9. ChargeIsFair'
  <2>1. dialled <=> last
    BY DEF JobInv, JobTypeOK, StagesAgree
  <2> QED
    BY <1>1, <1>2, <1>3, <2>1 DEF ChargeIsFair
<1> QED
  BY <1>1, <1>4, <1>5, <1>6, <1>7, <1>8, <1>9 DEF JobInv, JobsEndForAReason

LEMMA NothingReadyHolds ==
    ASSUME JobInv, NothingReady PROVE JobInv'
<1>1. /\ job_pc = "next" /\ UNCHANGED <<selector, channel>> /\ UNCHANGED lookup
      /\ dialled' = dialled /\ last' = last /\ task_timeout' = task_timeout
  BY DEF NothingReady
<1>2. lookup_fault = "none" /\ outcome = "none"
  BY <1>1 DEF JobInv, FaultStops, StagesAgree
<1>3. \/ Cardinality(selected) >= MAX_PEER_ATTEMPTS
      \/ first_hints = <<>> /\ channel = <<>> /\ remaining_hints = <<>>
  <2>1. first_hints \in Seq(Offered) /\ channel \in Seq(Offered) /\ remaining_hints \in Seq(Offered)
    BY DEF JobInv, JobTypeOK
  <2>2. ASSUME first_hints \o channel \o remaining_hints = <<>>
        PROVE  first_hints = <<>> /\ channel = <<>> /\ remaining_hints = <<>>
    <3>1. Len(first_hints) + Len(channel) + Len(remaining_hints) = 0
      <4>1. /\ first_hints \o channel \in Seq(Offered)
            /\ Len(first_hints \o channel) = Len(first_hints) + Len(channel)
        BY <2>1, PutTogether
      <4>2. Len((first_hints \o channel) \o remaining_hints)
              = Len(first_hints \o channel) + Len(remaining_hints)
        BY <2>1, <4>1, PutTogether
      <4>3. Len(<<>>) = 0
        OBVIOUS
      <4> QED
        BY <2>2, <4>1, <4>2, <4>3
    <3>2. Len(first_hints) = 0 /\ Len(channel) = 0 /\ Len(remaining_hints) = 0
      BY <2>1, <3>1
    <3> QED
      BY <2>1, <3>2, EmptySeq
  <2> QED
    BY <2>2 DEF NothingReady
<1>4. Cardinality(selected) \in Nat /\ MAX_PEER_ATTEMPTS \in Nat
  BY JobAssumption, FS_CardinalityType DEF JobInv, JobTypeOK
<1>5. CASE Cardinality(selected) < MAX_PEER_ATTEMPTS /\ ~summary
  <2>1. job_pc' = "waiting" /\ job_stage' = "dht" /\ summary' = summary /\ outcome' = outcome
    BY <1>5 DEF NothingReady
  <2>2. /\ selected' = selected /\ peers' = peers /\ sent' = sent
        /\ lookup_fault' = lookup_fault
        /\ first_hints' = first_hints /\ remaining_hints' = remaining_hints
        /\ channel' = channel
        /\ ChannelHasRoom' /\ NoneForgotten' /\ FaultKnown'
    BY <1>1, ListsStay
  <2>3. first_hints = <<>> /\ remaining_hints = <<>>
    BY <1>3, <1>4, <1>5
  <2>4. JobTypeOK'
    BY <1>1, <2>1, <2>2 DEF JobInv, JobTypeOK
  <2>5. StagesAgree'
    BY <1>1, <1>2, <1>5, <2>1, <2>2, <2>3 DEF JobInv, StagesAgree
  <2>6. FaultStops'
    BY <1>2, <2>2 DEF FaultStops
  <2>7. JobsEndForAReason'
    BY <1>2, <2>1 DEF JobsEndForAReason, NothingIsOverlooked, FaultIsReported, ChargeIsFair
  <2> QED
    BY <2>2, <2>4, <2>5, <2>6, <2>7 DEF JobInv
<1>6. CASE ~(Cardinality(selected) < MAX_PEER_ATTEMPTS /\ ~summary)
  <2>1. GiveUp /\ summary' = summary /\ job_stage' = job_stage
    BY <1>6 DEF NothingReady
  <2>2. summary' \in BOOLEAN
    BY <2>1 DEF JobInv, JobTypeOK
  <2>3. \/ Cardinality(selected) >= MAX_PEER_ATTEMPTS
        \/ summary' /\ first_hints = <<>> /\ channel = <<>> /\ remaining_hints = <<>>
    BY <1>3, <1>4, <1>6, <2>1
  <2> QED
    BY <1>1, <1>2, <2>1, <2>2, <2>3, GiveUpHolds
<1> QED
  BY <1>5, <1>6

(* A step that ends the job otherwise: with the fault, success, the        *)
(* timeout or the cancellation.                                            *)
LEMMA EndHolds ==
    ASSUME JobInv, job_pc \in {"waiting", "attempt"}, job_pc' = "done", outcome' # "none",
           UNCHANGED <<selector, channel>>, UNCHANGED lookup,
           UNCHANGED <<job_stage, dialled, last>>, summary' \in BOOLEAN, task_timeout' \in BOOLEAN,
           outcome' \in {"failed", "resource_wait", "no_route"} => task_timeout',
           outcome' = "failed" => sent \/ dialled,
           lookup_fault # "none" => outcome' \in {lookup_fault, "cancelled"}
    PROVE  JobInv'
<1>1. /\ selected' = selected /\ peers' = peers /\ sent' = sent
      /\ lookup_fault' = lookup_fault
      /\ first_hints' = first_hints /\ remaining_hints' = remaining_hints
      /\ channel' = channel
      /\ ChannelHasRoom' /\ NoneForgotten' /\ FaultKnown'
  BY ListsStay
<1>2. job_stage' = job_stage /\ dialled' = dialled /\ last' = last
  OBVIOUS
<1>3. JobTypeOK'
  BY <1>1, <1>2 DEF JobInv, JobTypeOK
<1>4. StagesAgree'
  BY <1>2 DEF JobInv, StagesAgree
<1>5. FaultStops'
  BY <1>1 DEF FaultStops
<1>6. JobsEndForAReason'
  <2>1. NothingIsOverlooked'
    BY DEF NothingIsOverlooked
  <2>2. FaultIsReported'
    BY <1>1 DEF FaultIsReported
  <2>3. ChargeIsFair'
    BY <1>1, <1>2 DEF ChargeIsFair
  <2> QED
    BY <2>1, <2>2, <2>3 DEF JobsEndForAReason
<1> QED
  BY <1>1, <1>3, <1>4, <1>5, <1>6 DEF JobInv

LEMMA LookupReturnsHolds ==
    ASSUME JobInv, NEW late, LookupReturns(late) PROVE JobInv'
<1>1. /\ job_pc \in {"waiting", "attempt"} /\ ~summary /\ summary' = TRUE
      /\ dialled' = dialled /\ last' = last /\ task_timeout' = task_timeout /\ UNCHANGED lookup
  BY DEF LookupReturns
<1>2. outcome = "none" /\ task_timeout \in BOOLEAN
  BY <1>1 DEF JobInv, JobTypeOK, StagesAgree
<1>3. CASE lookup_fault # "none" /\ Finish(lookup_fault) /\ UNCHANGED <<selector, channel, job_stage>>
  <2>1. /\ job_pc' = "done" /\ outcome' = lookup_fault /\ job_stage' = job_stage
        /\ UNCHANGED <<selector, channel>>
    BY <1>3 DEF Finish
  <2>2. lookup_fault \in {"control", "identity_changed"}
    BY <1>3 DEF JobInv, FaultKnown, LookupFaults
  <2> QED
    BY <1>1, <1>2, <1>3, <2>1, <2>2, EndHolds
<1>4. CASE /\ lookup_fault = "none" /\ job_pc = "attempt"
           /\ UNCHANGED <<job_pc, selector, channel, job_stage, outcome>>
  <2>1. job_pc' = job_pc /\ job_stage' = job_stage /\ outcome' = outcome /\ UNCHANGED <<selector, channel>>
    BY <1>4
  <2>2. /\ selected' = selected /\ peers' = peers /\ sent' = sent
        /\ lookup_fault' = lookup_fault
        /\ first_hints' = first_hints /\ remaining_hints' = remaining_hints
        /\ channel' = channel
        /\ ChannelHasRoom' /\ NoneForgotten' /\ FaultKnown'
    BY <1>1, <2>1, ListsStay
  <2>3. JobTypeOK'
    BY <1>1, <2>1, <2>2 DEF JobInv, JobTypeOK
  <2>4. StagesAgree'
    BY <1>1, <2>1, <2>2 DEF JobInv, StagesAgree
  <2>5. FaultStops'
    BY <1>4, <2>2 DEF FaultStops
  <2>6. JobsEndForAReason'
    BY <1>2, <2>1 DEF JobsEndForAReason, NothingIsOverlooked, FaultIsReported, ChargeIsFair
  <2> QED
    BY <2>2, <2>3, <2>4, <2>5, <2>6 DEF JobInv
<1>5. CASE /\ lookup_fault = "none" /\ job_pc = "waiting" /\ channel # <<>>
           /\ select_once(Head(channel)) /\ channel' = Tail(channel)
           /\ UNCHANGED <<first_hints, remaining_hints, outcome>>
  BY <1>1, <1>5, FromChannelHolds
<1>6. CASE /\ lookup_fault = "none" /\ job_pc = "waiting" /\ channel = <<>>
           /\ GiveUp /\ UNCHANGED <<selector, channel, job_stage>>
  <2>1. first_hints = <<>> /\ remaining_hints = <<>>
    BY <1>6 DEF JobInv, StagesAgree
  <2>2. UNCHANGED <<selector, channel>> /\ job_stage' = job_stage
    BY <1>6
  <2> QED
    BY <1>1, <1>6, <2>1, <2>2, GiveUpHolds
<1> QED
  BY <1>3, <1>4, <1>5, <1>6 DEF LookupReturns

LEMMA DialHolds ==
    ASSUME JobInv, Dial PROVE JobInv'
<1>1. /\ job_pc = "attempt" /\ ~Returns /\ job_stage' = "peer" /\ dialled' = TRUE
      /\ UNCHANGED <<selector, channel>> /\ UNCHANGED lookup
      /\ job_pc' = job_pc /\ summary' = summary /\ last' = last /\ outcome' = outcome
      /\ task_timeout' = task_timeout
  BY DEF Dial
<1>2. lookup_fault = "none" /\ outcome = "none"
  BY <1>1 DEF JobInv, FaultStops, Returns, StagesAgree
<1>3. /\ selected' = selected /\ peers' = peers /\ sent' = sent
      /\ lookup_fault' = lookup_fault
      /\ first_hints' = first_hints /\ remaining_hints' = remaining_hints
      /\ channel' = channel
      /\ ChannelHasRoom' /\ NoneForgotten' /\ FaultKnown'
  BY <1>1, ListsStay
<1>4. JobTypeOK'
  BY <1>1, <1>3 DEF JobInv, JobTypeOK
<1>5. StagesAgree'
  BY <1>1, <1>2, <1>3 DEF StagesAgree
<1>6. FaultStops'
  BY <1>2, <1>3 DEF FaultStops
<1>7. JobsEndForAReason'
  BY <1>1, <1>2 DEF JobsEndForAReason, NothingIsOverlooked, FaultIsReported, ChargeIsFair
<1> QED
  BY <1>3, <1>4, <1>5, <1>6, <1>7 DEF JobInv

LEMMA AttemptEndsHolds ==
    ASSUME JobInv, NEW success \in BOOLEAN, AttemptEnds(success) PROVE JobInv'
<1>1. /\ job_pc = "attempt" /\ ~Returns /\ job_stage = "peer" /\ job_stage' = job_stage
      /\ dialled' = dialled /\ UNCHANGED <<selector, channel>> /\ UNCHANGED lookup
      /\ summary' = summary /\ task_timeout' = task_timeout
  BY DEF AttemptEnds
<1>2. lookup_fault = "none" /\ outcome = "none" /\ dialled
  BY <1>1 DEF JobInv, FaultStops, Returns, StagesAgree
<1>3. summary' \in BOOLEAN /\ task_timeout' \in BOOLEAN
  BY <1>1 DEF JobInv, JobTypeOK
<1>4. CASE success
  <2>1. job_pc' = "done" /\ outcome' = "success" /\ last' = last
    BY <1>4 DEF AttemptEnds, Finish
  <2> QED
    BY <1>1, <1>2, <1>3, <2>1, EndHolds
<1>5. CASE ~success
  <2>1. job_pc' = "next" /\ last' = TRUE /\ outcome' = outcome
    BY <1>5 DEF AttemptEnds
  <2>2. /\ selected' = selected /\ peers' = peers /\ sent' = sent
        /\ lookup_fault' = lookup_fault
        /\ first_hints' = first_hints /\ remaining_hints' = remaining_hints
        /\ channel' = channel
        /\ ChannelHasRoom' /\ NoneForgotten' /\ FaultKnown'
    BY <1>1, ListsStay
  <2>3. JobTypeOK'
    BY <1>1, <2>1, <2>2 DEF JobInv, JobTypeOK
  <2>4. StagesAgree'
    BY <1>1, <1>2, <2>1 DEF StagesAgree
  <2>5. FaultStops'
    BY <1>2, <2>2 DEF FaultStops
  <2>6. JobsEndForAReason'
    BY <1>2, <2>1 DEF JobsEndForAReason, NothingIsOverlooked, FaultIsReported, ChargeIsFair
  <2> QED
    BY <2>2, <2>3, <2>4, <2>5, <2>6 DEF JobInv
<1> QED
  BY <1>4, <1>5

LEMMA TaskTimeoutHolds ==
    ASSUME JobInv, TaskTimeout PROVE JobInv'
<1>1. /\ job_pc \in {"waiting", "attempt"} /\ ~Returns /\ task_timeout' = TRUE
      /\ UNCHANGED <<selector, channel>> /\ UNCHANGED lookup /\ summary' = summary
      /\ job_stage' = job_stage /\ dialled' = dialled /\ last' = last
      /\ job_pc' = "done"
      /\ outcome' = IF job_stage \in {"local_wait", "dht"} /\ (summary \/ ~sent)
                    THEN "resource_wait" ELSE "failed"
  BY DEF TaskTimeout, Finish
<1>2. lookup_fault = "none"
  BY <1>1 DEF JobInv, FaultStops, Returns
<1>3. summary' \in BOOLEAN
  BY <1>1 DEF JobInv, JobTypeOK
<1>4. outcome' = "failed" => sent \/ dialled
  BY <1>1 DEF JobInv, JobTypeOK, StagesAgree
<1> QED
  BY <1>1, <1>2, <1>3, <1>4, EndHolds

LEMMA CancelJobHolds ==
    ASSUME JobInv, CancelJob PROVE JobInv'
<1>1. /\ job_pc \in {"waiting", "attempt"} /\ job_pc' = "done" /\ outcome' = "cancelled"
      /\ UNCHANGED <<selector, channel>> /\ UNCHANGED lookup /\ summary' = summary
      /\ job_stage' = job_stage /\ dialled' = dialled /\ last' = last
      /\ task_timeout' = task_timeout
  BY DEF CancelJob, Finish
<1>2. summary' \in BOOLEAN /\ task_timeout' \in BOOLEAN
  BY <1>1 DEF JobInv, JobTypeOK
<1> QED
  BY <1>1, <1>2, EndHolds

LEMMA JobStepHolds ==
    ASSUME JobInv, [JobNext]_jobVars PROVE JobInv'
<1> USE DEF Awaits
<1>1. /\ sent \in BOOLEAN /\ lookup_fault \in LookupFaults \cup {"none"}
  BY DEF JobInv, JobTypeOK, FaultKnown
<1>2. ASSUME NEW f \in Families, NEW seeds, fetch_seeds(f, seeds) PROVE JobInv'
  BY <1>1, <1>2, LookupStepHolds DEF fetch_seeds
<1>3. ASSUME NEW f \in Families, NEW error \in LookupFaults, SeedsFail(f, error) PROVE JobInv'
  BY <1>1, <1>3, LookupStepHolds DEF SeedsFail
<1>4. ASSUME NEW f \in Families, search(f) PROVE JobInv'
  BY <1>1, <1>4, LookupStepHolds DEF search
<1>5. ASSUME NEW f \in Families, NEW c, Send(f, c) PROVE JobInv'
  BY <1>1, <1>5, LookupStepHolds DEF Send
<1>6. ASSUME NEW f \in Families, NEW c, Limited(f, c) PROVE JobInv'
  BY <1>1, <1>6, LookupStepHolds DEF Limited
<1>7. ASSUME NEW f \in Families, NEW c, Failed(f, c) PROVE JobInv'
  BY <1>1, <1>7, LookupStepHolds DEF Failed
<1>8. ASSUME NEW f \in Families, NEW c, NEW error \in LookupFaults, Faulted(f, c, error)
      PROVE  JobInv'
  BY <1>1, <1>8, LookupStepHolds DEF Faulted
<1>9. ASSUME NEW f \in Families, NEW c, NEW trusted \in BOOLEAN, NEW nodes,
             NEW answer \in Answers, AnswerComes(f, c, trusted, nodes, answer)
      PROVE  JobInv'
  BY <1>9, AnswerHolds
<1>10. CASE UNCHANGED jobVars
  <2>1. /\ UNCHANGED <<selector, channel>> /\ UNCHANGED lookup
        /\ job_pc' = job_pc /\ job_stage' = job_stage /\ dialled' = dialled
        /\ summary' = summary /\ last' = last /\ outcome' = outcome
        /\ task_timeout' = task_timeout
    BY <1>10 DEF jobVars
  <2>2. /\ selected' = selected /\ peers' = peers /\ sent' = sent
        /\ lookup_fault' = lookup_fault
        /\ first_hints' = first_hints /\ remaining_hints' = remaining_hints
        /\ channel' = channel
        /\ ChannelHasRoom' /\ NoneForgotten' /\ FaultKnown'
    BY <2>1, ListsStay
  <2>3. JobTypeOK'
    BY <2>1, <2>2 DEF JobInv, JobTypeOK
  <2>4. StagesAgree'
    BY <2>1, <2>2 DEF JobInv, StagesAgree
  <2>5. FaultStops'
    BY <2>1, <2>2 DEF JobInv, FaultStops
  <2>6. JobsEndForAReason'
    BY <2>1, <2>2 DEF JobInv, JobsEndForAReason, NothingIsOverlooked, FaultIsReported,
                      ChargeIsFair
  <2> QED
    BY <2>2, <2>3, <2>4, <2>5, <2>6 DEF JobInv
<1>11. CASE next_ready
  BY <1>11, NextReadyHolds
<1>12. CASE NothingReady
  BY <1>12, NothingReadyHolds
<1>13. CASE Receive
  BY <1>13, ReceiveHolds
<1>14. CASE Dial
  BY <1>14, DialHolds
<1>15. ASSUME NEW late \in BOOLEAN, LookupReturns(late) PROVE JobInv'
  BY <1>15, LookupReturnsHolds
<1>16. ASSUME NEW success \in BOOLEAN, AttemptEnds(success) PROVE JobInv'
  BY <1>16, AttemptEndsHolds
<1>17. CASE TaskTimeout
  BY <1>17, TaskTimeoutHolds
<1>18. CASE CancelJob
  BY <1>18, CancelJobHolds
<1>19. CASE Done
  BY <1>10, <1>19 DEF Done
<1> QED
  BY <1>2, <1>3, <1>4, <1>5, <1>6, <1>7, <1>8, <1>9, <1>10, <1>11, <1>12, <1>13, <1>14,
     <1>15, <1>16, <1>17, <1>18, <1>19 DEF JobNext

(* Whatever the hints, the answers and the limits, a job (run_job) ends    *)
(* for want of addresses only after all that it may try, reports a control *)
(* fault of its lookup, and is charged only after something was sent.      *)
THEOREM JobsEndJustly == JobSpec => []JobsEndForAReason
<1>1. JobInv => JobsEndForAReason
  BY DEF JobInv
<1> QED
  BY <1>1, JobInitHolds, JobStepHolds, PTL DEF JobSpec
=============================================================================
