--------------------------- MODULE ReloaderProofs ---------------------------
(***************************************************************************)
(* Proofs about Reloader, for every number of files, contents, failures    *)
(* and publications.                                                       *)
(***************************************************************************)
EXTENDS Reloader, TLAPS

-----------------------------------------------------------------------------
(***************************************************************************)
(* The inductive invariant.  NothingMissed speaks of lastConfigHash only;  *)
(* that it is preserved by the two steps that write it takes what is known *)
(* of the files before they do.                                            *)
(***************************************************************************)
\* A hash is of a publication that has been made.
HashesAreOld ==
  /\ \A f \in Files : hash[f].path <= stamp
  /\ lastConfigHash # NoHash => \A f \in Files : lastConfigHash[f].path <= stamp

IsOrWillBeLoaded == loaded = dir \/ (signalled /\ dir \in GoodDirs)

\* A hash about to be recorded is not the current one, or its signal is out.
RecordedIsLoaded ==
  pc = "record" /\ hash = CurrentHash => IsOrWillBeLoaded

Inv == TypeOK /\ HashesAreOld /\ RecordedIsLoaded /\ NothingMissed

-----------------------------------------------------------------------------
\* The values of the variables stay in their types.
LEMMA TypeOKInit == Init => TypeOK
<1> SUFFICES ASSUME Init PROVE TypeOK
  OBVIOUS
<1>1. dir \in Dirs /\ 0 \in 0..MaxPublications /\ 0 \in 0..MaxFailures
      /\ 0 \in 0..MaxRestarts
  BY ReloaderAssumption DEF Init
<1>2. CurrentHash \in [Files -> Entries]
  BY <1>1 DEF Init, CurrentHash, Entry, Entries, Dirs
<1> QED
  BY <1>1, <1>2 DEF Init, TypeOK, Steps

\* What computeConfigHash would return is always a hash.
LEMMA CurrentHashType ==
  ASSUME TypeOK PROVE CurrentHash \in [Files -> Entries]
<1>1. stamp \in Nat
  BY ReloaderAssumption DEF TypeOK
<1>2. \A f \in Files : Entry(f) \in Entries
  BY <1>1 DEF TypeOK, Entry, Entries, Dirs
<1> QED
  BY <1>2 DEF CurrentHash

\* Every step keeps the variables in their types: ReadFile adds an entry of
\* what is on disk, and the bounds are guards of the steps they bound.
LEMMA TypeOKNext ==
  ASSUME TypeOK, [Next]_vars PROVE TypeOK'
<1> USE DEF TypeOK, Steps, envVars
<1>1. CASE Tick
  BY <1>1 DEF Tick
<1>2. ASSUME NEW f \in Files, ReadFile(f) PROVE TypeOK'
  <2>1. Entry(f) \in Entries
    BY CurrentHashType, <1>2 DEF CurrentHash
  <2>2. hash' \in [Files -> Entries]
    BY <1>2, <2>1 DEF ReadFile
  <2> QED
    BY <1>2, <2>2 DEF ReadFile
<1>3. CASE WalkFails
  <2>1. failures' \in 0..MaxFailures
    BY <1>3, ReloaderAssumption DEF WalkFails, Fail
  <2> QED
    BY <1>3, <2>1 DEF WalkFails
<1>0. hash # NoHash
  BY ReloaderAssumption
<1>4. CASE Started
  BY <1>0, <1>4 DEF Started
<1>5. CASE Compare
  BY <1>5 DEF Compare
<1>6. CASE ValidateConfig
  <2>1. failures' \in 0..MaxFailures
    BY <1>6, ReloaderAssumption DEF ValidateConfig, Fail
  <2> QED
    BY <1>6, <2>1 DEF ValidateConfig, GiveUp
<1>7. CASE ReloadNginx
  <2>1. failures' \in 0..MaxFailures
    BY <1>7, ReloaderAssumption DEF ReloadNginx, Fail
  <2>2. signalled' \in BOOLEAN
    BY <1>7 DEF ReloadNginx
  <2> QED
    BY <1>7, <2>1, <2>2 DEF ReloadNginx, GiveUp
<1>8. CASE RecordReload
  BY <1>0, <1>8 DEF RecordReload
<1>9. CASE NginxLoads
  BY <1>9 DEF NginxLoads
<1>10. CASE Restart
  <2>1. restarts' \in 0..MaxRestarts
    BY <1>10, ReloaderAssumption DEF Restart
  <2> QED
    BY <1>10, <2>1 DEF Restart
<1>11. ASSUME NEW d \in Dirs, Publish(d) PROVE TypeOK'
  <2>1. stamp' \in 0..MaxPublications
    BY <1>11, ReloaderAssumption DEF Publish
  <2> QED
    BY <1>11, <2>1 DEF Publish
<1>12. CASE UNCHANGED vars
  BY <1>12 DEF vars
<1> QED
  BY <1>1, <1>2, <1>3, <1>4, <1>5, <1>6, <1>7, <1>8, <1>9, <1>10, <1>11, <1>12
     DEF Next, Check

\* The same of the files a step leaves.
LEMMA CurrentHashTypeNext ==
  ASSUME TypeOK' PROVE CurrentHash' \in [Files -> Entries]
<1>1. stamp' \in Nat
  BY ReloaderAssumption DEF TypeOK
<1>2. \A f \in Files : Entry(f)' \in Entries
  BY <1>1 DEF TypeOK, Entry, Entries, Dirs
<1> QED
  BY <1>2 DEF CurrentHash

\* TypeOK holds of Reloader, whatever the constants.
THEOREM TypeCorrect == Spec => []TypeOK
<1>1. Init => TypeOK
  BY TypeOKInit
<1>2. TypeOK /\ [Next]_vars => TypeOK'
  BY TypeOKNext
<1> QED
  BY <1>1, <1>2, PTL DEF Spec

-----------------------------------------------------------------------------
(***************************************************************************)
(* No configuration is missed.  Files published after a hash was taken     *)
(* have a path that is not in it.                                          *)
(***************************************************************************)
\* With the paths of a ConfigMap volume, what is published has a new hash.
LEMMA PublishedHashIsNew ==
  ASSUME TypeOK, Stamped, NEW d \in Dirs, Publish(d),
         NEW h \in [Files -> Entries], \A f \in Files : h[f].path <= stamp
  PROVE  h # CurrentHash'
<1>1. PICK f \in Files : TRUE
  BY ReloaderAssumption
<1>2. CurrentHash'[f].path = stamp + 1
  BY <1>1 DEF CurrentHash, Entry, Publish
<1>3. h[f].path <= stamp /\ h[f].path \in Nat /\ stamp \in Nat
  BY <1>1, ReloaderAssumption DEF TypeOK, Entries
<1> QED
  BY <1>2, <1>3

\* A reloader that starts remembers nothing and has recorded no reload.
LEMMA InvInit == Init => Inv
<1> SUFFICES ASSUME Init PROVE Inv
  OBVIOUS
<1>1. TypeOK
  BY TypeOKInit
<1>2. HashesAreOld
  BY DEF Init, HashesAreOld, CurrentHash, Entry
<1>3. RecordedIsLoaded
  BY DEF Init, RecordedIsLoaded
<1>4. NothingMissed
  BY DEF Init, NothingMissed
<1> QED
  BY <1>1, <1>2, <1>3, <1>4 DEF Inv

\* Hashes are taken of files already published: publishing leaves them behind.
LEMMA HashesAreOldNext ==
  ASSUME Inv, [Next]_vars PROVE HashesAreOld'
<1> USE DEF HashesAreOld
<1>1. TypeOK /\ HashesAreOld
  BY DEF Inv
<1>2. stamp \in Nat
  BY <1>1, ReloaderAssumption DEF TypeOK
<1>3. ASSUME UNCHANGED <<stamp, hash, lastConfigHash>> PROVE HashesAreOld'
  BY <1>1, <1>3
<1>4. ASSUME NEW f \in Files, ReadFile(f) PROVE HashesAreOld'
  BY <1>1, <1>2, <1>4 DEF ReadFile, Entry, TypeOK, envVars
<1>5. CASE Started \/ RecordReload
  BY <1>1, <1>5 DEF Started, RecordReload, envVars
<1>6. CASE Restart
  BY <1>1, <1>6 DEF Restart
<1>7. ASSUME NEW d \in Dirs, Publish(d) PROVE HashesAreOld'
  <2>1. stamp' = stamp + 1 /\ hash' = hash /\ lastConfigHash' = lastConfigHash
    BY <1>7 DEF Publish
  <2>2. \A f \in Files : hash[f].path \in Nat
    BY <1>1 DEF TypeOK, Entries
  <2>3. lastConfigHash # NoHash =>
          \A f \in Files : lastConfigHash[f].path \in Nat
    BY <1>1 DEF TypeOK, Entries
  <2> QED
    BY <1>1, <1>2, <2>1, <2>2, <2>3
<1>8. CASE Tick \/ WalkFails \/ Compare \/ ValidateConfig \/ ReloadNginx
            \/ NginxLoads \/ UNCHANGED vars
  BY <1>3, <1>8 DEF Tick, WalkFails, Compare, ValidateConfig, ReloadNginx,
     NginxLoads, envVars, vars
<1> QED
  BY <1>4, <1>5, <1>6, <1>7, <1>8 DEF Next, Check

\* Loads and publications leave alone what is claimed of a hash taken before.
LEMMA LoadingKeeps ==
  ASSUME NginxLoads, IsOrWillBeLoaded PROVE IsOrWillBeLoaded'
BY DEF NginxLoads, IsOrWillBeLoaded

\* A reload whose signal is out covers the hash it is about to record, unless
\* the files change, and then their hash is another one.
LEMMA RecordedIsLoadedNext ==
  ASSUME Inv, Stamped, [Next]_vars PROVE RecordedIsLoaded'
<1> USE DEF RecordedIsLoaded
<1>1. TypeOK /\ HashesAreOld /\ RecordedIsLoaded
  BY DEF Inv
<1>2. CASE NginxLoads
  <2>1. hash' = hash /\ pc' = pc /\ CurrentHash' = CurrentHash
    BY <1>2 DEF NginxLoads, CurrentHash, Entry
  <2> QED
    BY <1>1, <1>2, <2>1, LoadingKeeps
<1>3. ASSUME NEW d \in Dirs, Publish(d) PROVE RecordedIsLoaded'
  <2>1. hash # CurrentHash'
    BY <1>1, <1>3, Stamped, PublishedHashIsNew DEF HashesAreOld, TypeOK
  <2> QED
    BY <1>3, <2>1 DEF Publish
<1>4. CASE ReloadNginx
  BY <1>4 DEF ReloadNginx, GiveUp, IsOrWillBeLoaded, envVars
<1>5. CASE UNCHANGED vars
  BY <1>1, <1>5 DEF vars, IsOrWillBeLoaded, CurrentHash, Entry
<1>6. CASE Tick \/ (\E f \in Files : ReadFile(f)) \/ WalkFails \/ Started
           \/ Compare \/ ValidateConfig \/ RecordReload \/ Restart
  <2>1. pc' # "record"
    BY <1>6 DEF Tick, ReadFile, WalkFails, Started, Compare, ValidateConfig,
       RecordReload, Restart, GiveUp
  <2> QED
    BY <2>1
<1> QED
  BY <1>2, <1>3, <1>4, <1>5, <1>6 DEF Next, Check

\* NothingMissed survives each step: the record of a reload by RecordedIsLoaded, a
\* publication because its hash is new, and a start has recorded no reload yet.
LEMMA NothingMissedNext ==
  ASSUME Inv, Stamped, [Next]_vars PROVE NothingMissed'
<1>1. /\ TypeOK /\ HashesAreOld /\ RecordedIsLoaded
      /\ reloaded /\ lastConfigHash = CurrentHash => IsOrWillBeLoaded
  BY DEF Inv, NothingMissed, IsOrWillBeLoaded
<1> SUFFICES reloaded' /\ lastConfigHash' = CurrentHash' => IsOrWillBeLoaded'
  BY DEF NothingMissed, IsOrWillBeLoaded
<1>2. CASE NginxLoads
  <2>1. lastConfigHash' = lastConfigHash /\ reloaded' = reloaded
        /\ CurrentHash' = CurrentHash
    BY <1>2 DEF NginxLoads, CurrentHash, Entry
  <2> QED
    BY <1>1, <1>2, <2>1, LoadingKeeps
<1>3. ASSUME NEW d \in Dirs, Publish(d)
      PROVE  lastConfigHash' # CurrentHash'
  <2>1. CASE lastConfigHash = NoHash
    <3>1. lastConfigHash' = NoHash
      BY <1>3, <2>1 DEF Publish
    <3>2. TypeOK'
      BY <1>1, <1>3, TypeOKNext DEF Next
    <3>3. CurrentHash' \in [Files -> Entries]
      BY <3>2, CurrentHashTypeNext
    <3> QED
      BY <3>1, <3>3, ReloaderAssumption
  <2>2. CASE lastConfigHash # NoHash
    BY <1>1, <1>3, <2>2, Stamped, PublishedHashIsNew
       DEF HashesAreOld, TypeOK, Publish
  <2> QED
    BY <2>1, <2>2
<1>4. CASE Started
  BY <1>1, <1>4 DEF Started, TypeOK
<1>5. CASE RecordReload
  <2>1. /\ lastConfigHash' = hash /\ pc = "record"
        /\ CurrentHash' = CurrentHash
        /\ IsOrWillBeLoaded => IsOrWillBeLoaded'
    BY <1>5 DEF RecordReload, envVars, CurrentHash, Entry, IsOrWillBeLoaded
  <2> QED
    BY <1>1, <2>1 DEF RecordedIsLoaded
<1>6. CASE ReloadNginx
  <2>1. signalled \in BOOLEAN
    BY <1>1 DEF TypeOK
  <2>2. signalled' = TRUE \/ signalled' = signalled
        \/ signalled' = (signalled \/ dir \in GoodDirs)
    BY <1>6 DEF ReloadNginx
  <2>3. signalled => signalled'
    BY <2>1, <2>2
  <2>4. UNCHANGED <<dir, stamp, loaded, reloaded, lastConfigHash>>
    BY <1>6 DEF ReloadNginx, envVars
  <2>5. CurrentHash' = CurrentHash
    BY <2>4 DEF CurrentHash, Entry
  <2> QED
    BY <1>1, <2>3, <2>4, <2>5 DEF IsOrWillBeLoaded
<1>7. CASE Restart
  BY <1>7 DEF Restart
<1>8. CASE Tick \/ (\E f \in Files : ReadFile(f)) \/ WalkFails \/ Compare
           \/ ValidateConfig \/ UNCHANGED vars
  <2>1. UNCHANGED <<reloaded, lastConfigHash, dir, stamp, loaded, signalled>>
    BY <1>8 DEF Tick, ReadFile, WalkFails, Compare, ValidateConfig, envVars, vars
  <2> QED
    BY <1>1, <2>1 DEF IsOrWillBeLoaded, CurrentHash, Entry
<1> QED
  BY <1>2, <1>3, <1>4, <1>5, <1>6, <1>7, <1>8 DEF Next, Check

\* A reloader that watches a ConfigMap volume never takes files for those of a
\* reload it has recorded when NGINX neither runs them nor has been asked to load
\* them, whenever they are read, checked, loaded and published, and whenever the
\* reloader itself is started anew.
THEOREM NoConfigMissed ==
  ASSUME Stamped PROVE Spec => []NothingMissed
<1>1. Init => Inv
  BY InvInit
<1>2. Inv /\ [Next]_vars => Inv'
  BY TypeOKNext, HashesAreOldNext, RecordedIsLoadedNext, NothingMissedNext DEF Inv
<1>3. Inv => NothingMissed
  BY DEF Inv
<1> QED
  BY <1>1, <1>2, <1>3, PTL DEF Spec
=============================================================================
