---------------------------- MODULE ServerProofs ----------------------------
(***************************************************************************)
(* The safety of the shutdown, for any number of connections and any size  *)
(* of the pool.  Liveness is left to TLC.                                  *)
(***************************************************************************)
EXTENDS Server, TLAPS

(***************************************************************************)
(* What is loaded is a Config, whatever flags, environment and file say.   *)
(***************************************************************************)
LEMMA LoadType ==
  ASSUME NEW source \in Sources
  PROVE  Load(source) \in Config
<1>1. source \in Source
  BY SourcesAssumption
<1>2. databaseUrl(source) \in DatabaseUrls
  <2>1. /\ source.flag \in DatabaseUrls \cup {Unset}
        /\ source.env \in DatabaseUrls \cup {Unset}
        /\ source.file.databaseUrl \in DatabaseUrls \cup {Unset}
    BY <1>1 DEF Source, Files
  <2>2. CASE source.flag # Unset
    BY <2>1, <2>2 DEF databaseUrl
  <2>3. CASE source.flag = Unset /\ source.env \notin {Unset, ""}
    BY <2>1, <2>3 DEF databaseUrl
  <2>4. CASE source.flag = Unset /\ source.env \in {Unset, ""}
    BY <2>1, <2>4 DEF databaseUrl, DatabaseUrls
  <2> QED
    BY <2>2, <2>3, <2>4
<1>3. PICK names \in SUBSET Volumes : source.file.volumes \in [names -> SUBSET Spellings]
  BY <1>1 DEF Source, Files
<1> DEFINE kept == {n \in DOMAIN source.file.volumes : source.file.volumes[n] # {}}
<1>4. kept \in SUBSET Volumes
  BY <1>3
<1>5. decodedVolumes(source.file.volumes) \in [kept -> SUBSET VolumeConfig]
  BY DEF decodedVolumes
<1> HIDE DEF kept
<1> QED
  BY <1>2, <1>4, <1>5 DEF Load, Config

LEMMA NoConfigType == NoConfig \in Config
<1>1. << >> \in [{} -> SUBSET VolumeConfig]
  OBVIOUS
<1> QED
  BY <1>1 DEF NoConfig, Config, DatabaseUrls

LEMMA InitEstablishes == Init => Invariant
  BY NoConfigType DEF Init, Invariant, TypeOK, PoolClosesLast, ListensOnlyInService, NobodyIsLeft,
         Phases, Exits, Listeners, Stages, Alive

LEMMA MainKeeps == Invariant /\ Main => Invariant'
<1> SUFFICES ASSUME Invariant, Main PROVE Invariant'
  OBVIOUS
<1> USE DEF Invariant, TypeOK, PoolClosesLast, ListensOnlyInService, NobodyIsLeft,
            Phases, Exits, Listeners, Stages, Alive, requestVars
<1>1. CASE StartFails
  BY <1>1 DEF StartFails, ExitsWith
<1>2. CASE Start
  BY <1>2, LoadType DEF Start
<1>3. CASE Drain
  BY <1>3 DEF Drain
<1>4. CASE ShutdownReturns
  BY <1>4 DEF ShutdownReturns, CloseThePool
<1>5. CASE ShutdownTimesOut
  BY <1>5 DEF ShutdownTimesOut, CloseThePool
<1>6. CASE PoolCloses
  BY <1>6 DEF PoolCloses, ExitsWith
<1> QED
  BY <1>1, <1>2, <1>3, <1>4, <1>5, <1>6 DEF Main

LEMMA OthersKeep == Invariant /\ (Signal \/ Listen \/ Serve) => Invariant'
<1> SUFFICES ASSUME Invariant, Signal \/ Listen \/ Serve PROVE Invariant'
  OBVIOUS
<1> USE DEF Invariant, TypeOK, PoolClosesLast, ListensOnlyInService, NobodyIsLeft,
            Phases, Exits, Listeners, Stages, Alive, requestVars
<1>1. CASE Signal
  BY <1>1 DEF Signal, ExitsWith
<1>2. CASE Listen
  BY <1>2 DEF Listen, ShuttingDown
<1>3. CASE Serve
  BY <1>3 DEF Serve, ShuttingDown
<1> QED
  BY <1>1, <1>2, <1>3

(***************************************************************************)
(* A connection leaves the server's own state alone.  What a connection    *)
(* can disturb is the relation of its stage to the pool, and, when nobody  *)
(* should be left, that it stays away: only Accept makes one from nothing, *)
(* and it needs an open listener.                                          *)
(***************************************************************************)
LEMMA ConnectionKeeps ==
  ASSUME Invariant, NEW r \in Requests, Connection(r)
  PROVE  Invariant'
<1> USE DEF Invariant, TypeOK, PoolClosesLast, ListensOnlyInService, NobodyIsLeft,
            Phases, Exits, Listeners, Stages, Alive, unchangedServer, Becomes
<1>1. CASE Accept(r)
  BY <1>1 DEF Accept
<1>2. CASE Disconnect(r)
  BY <1>2 DEF Disconnect
<1>3. CASE Begin(r)
  BY <1>3 DEF Begin
<1>4. CASE Acquire(r)
  BY <1>4 DEF Acquire
<1>5. CASE AcquireFails(r)
  BY <1>5 DEF AcquireFails
<1>6. CASE Collect(r)
  BY <1>6 DEF Collect
<1>7. CASE Answer(r)
  BY <1>7 DEF Answer
<1>8. CASE Abandon(r)
  BY <1>8 DEF Abandon, InProgress
<1> QED
  BY <1>1, <1>2, <1>3, <1>4, <1>5, <1>6, <1>7, <1>8 DEF Connection, Handler

LEMMA NextKeeps == Invariant /\ [Next]_vars => Invariant'
<1> SUFFICES ASSUME Invariant, [Next]_vars PROVE Invariant'
  OBVIOUS
<1>1. CASE Main
  BY <1>1, MainKeeps
<1>2. CASE Signal \/ Listen \/ Serve
  BY <1>2, OthersKeep
<1>3. CASE \E r \in Requests : Connection(r)
  BY <1>3, ConnectionKeeps
<1>4. CASE UNCHANGED vars
  BY <1>4 DEF vars, Invariant, TypeOK, PoolClosesLast, ListensOnlyInService, NobodyIsLeft, Alive
<1> QED
  BY <1>1, <1>2, <1>3, <1>4 DEF Next, Ended

(* The inductive invariant: the pool closes last, the server listens only  *)
(* in service, and after a complete Shutdown nobody is connected.          *)
THEOREM InvariantHolds == Spec => []Invariant
  BY InitEstablishes, NextKeeps, PTL DEF Spec

(* The variables keep their types, and the connections in use are those of *)
(* the statements in progress.                                             *)
THEOREM TypeCorrect == Spec => []TypeOK
<1>1. Invariant => TypeOK
  BY DEF Invariant
<1> QED
  BY <1>1, InvariantHolds, PTL

(* ListenAndServe closes the pool under a handler only after a timeout.    *)
THEOREM PoolOutlives == Spec => []PoolOutlivesHandlers
<1>1. Invariant => PoolOutlivesHandlers
  BY DEF Invariant, NobodyIsLeft, PoolOutlivesHandlers, InProgress
<1> QED
  BY <1>1, InvariantHolds, PTL

(* ListenAndServe returns under a handler only after a timeout.            *)
THEOREM Graceful == Spec => []ShutdownIsGraceful
<1>1. Invariant => ShutdownIsGraceful
  BY DEF Invariant, PoolClosesLast, NobodyIsLeft, ShutdownIsGraceful, InProgress
<1> QED
  BY <1>1, InvariantHolds, PTL

=============================================================================
