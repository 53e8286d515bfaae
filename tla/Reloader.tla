------------------------------ MODULE Reloader ------------------------------
(***************************************************************************)
(* cmd/reloader: every poll interval hash the watched directory and, when  *)
(* the hash is not the one of the last reload, run `nginx -t` and then     *)
(* `nginx -s reload`.  The files may change between any two of these, each *)
(* program reads them for itself, and the signal only asks the master to   *)
(* load them.  Logging and lastReloadTime are left out, and of reloadCount *)
(* only whether it is zero; /healthz serves `healthy`.                     *)
(***************************************************************************)
EXTENDS Naturals, FiniteSets

CONSTANTS
  Files,     \* the .conf files below watchDir
  Contents,  \* what a file may hold
  GoodDirs,  \* the directories `nginx -t` accepts
  Stamped,   \* whether the paths walked change with every publication
  MaxPublications, MaxFailures, MaxRestarts,  \* bounds
  NoHash

(***************************************************************************)
(* The paths are part of the hash.  In a ConfigMap volume the real files   *)
(* lie in a directory named for the publication, so that no hash returns:  *)
(* Stamped.  In a plain directory equal files have equal hashes.           *)
(***************************************************************************)
Dirs == [Files -> Contents]
Entries == [path : Nat, data : Contents]

ASSUME ReloaderAssumption ==
  /\ Files # {} /\ GoodDirs \subseteq Dirs
  /\ NoHash \notin [Files -> Entries]
  /\ Stamped \in BOOLEAN
  /\ MaxPublications \in Nat /\ MaxFailures \in Nat /\ MaxRestarts \in Nat

VARIABLES
  dir, stamp,     \* the files, and how often they have been published
  loaded,         \* the configuration the NGINX master runs
  signalled,      \* it has been asked to reload and has not yet done so
  pc,             \* where the main loop is
  unread, hash,   \* the walk: files it has yet to read, and what it has read
  lastConfigHash, healthy,
  reloaded,       \* reloadCount > 0: this process has recorded a reload
  failures, restarts

envVars == <<dir, stamp, loaded, restarts>>
vars == <<dir, stamp, loaded, signalled, pc, unread, hash, lastConfigHash,
          healthy, reloaded, failures, restarts>>

Entry(f) == [path |-> IF Stamped THEN stamp ELSE 0, data |-> dir[f]]
CurrentHash == [f \in Files |-> Entry(f)]

Steps == {"start", "idle", "walk", "validate", "reload", "record"}

TypeOK ==
  /\ dir \in Dirs /\ loaded \in Dirs
  /\ stamp \in 0..MaxPublications
  /\ signalled \in BOOLEAN /\ healthy \in BOOLEAN /\ reloaded \in BOOLEAN
  /\ pc \in Steps
  /\ unread \subseteq Files
  /\ hash \in [Files -> Entries]
  /\ lastConfigHash \in [Files -> Entries] \cup {NoHash}
  /\ lastConfigHash = NoHash <=> pc = "start"
  /\ pc = "start" => ~reloaded
  /\ failures \in 0..MaxFailures /\ restarts \in 0..MaxRestarts

Init ==
  /\ dir \in GoodDirs /\ loaded = dir /\ stamp = 0
  /\ signalled = FALSE /\ pc = "start"
  /\ unread = Files /\ hash = CurrentHash
  /\ lastConfigHash = NoHash /\ healthy = TRUE /\ reloaded = FALSE
  /\ failures = 0 /\ restarts = 0

-----------------------------------------------------------------------------
(***************************************************************************)
(* computeConfigHash reads one file after the other, at the start and at   *)
(* every tick.  A file that vanishes under the walk ends it with an error, *)
(* which leaves `healthy` alone; at the start, it ends the process.        *)
(***************************************************************************)
Tick ==
  /\ pc = "idle"
  /\ pc' = "walk" /\ unread' = Files
  /\ UNCHANGED <<envVars, signalled, hash, lastConfigHash, healthy,
                 reloaded, failures>>

ReadFile(f) ==
  /\ pc \in {"start", "walk"} /\ f \in unread
  /\ hash' = [hash EXCEPT ![f] = Entry(f)]
  /\ unread' = unread \ {f}
  /\ UNCHANGED <<envVars, signalled, pc, lastConfigHash, healthy,
                 reloaded, failures>>

Fail == failures < MaxFailures /\ failures' = failures + 1

\* Mutant: the error of the walk is dropped, its empty hash goes on.
WalkFailsUnnoticed ==
  /\ pc \in {"start", "walk"} /\ unread # {}
  /\ Fail
  /\ hash' = NoHash /\ unread' = {}
  /\ UNCHANGED <<envVars, signalled, pc, lastConfigHash, healthy, reloaded>>

WalkFails ==
  /\ pc \in {"start", "walk"} /\ unread # {}
  /\ Fail
  /\ pc' = IF pc = "start" THEN "start" ELSE "idle"
  /\ unread' = Files
  /\ UNCHANGED <<envVars, signalled, hash, lastConfigHash, healthy, reloaded>>

\* main: what is found at the start counts as loaded.
Started ==
  /\ pc = "start" /\ unread = {}
  /\ lastConfigHash' = hash
  /\ pc' = "idle"
  /\ UNCHANGED <<envVars, signalled, unread, hash, healthy, reloaded, failures>>

\* Mutant: the hash is remembered as soon as it is compared.
CompareAndRecord ==
  /\ pc = "walk" /\ unread = {}
  /\ lastConfigHash' = hash
  /\ pc' = IF hash = lastConfigHash THEN "idle" ELSE "validate"
  /\ UNCHANGED <<envVars, signalled, unread, hash, healthy, reloaded, failures>>

\* checkAndReload: a hash seen before ends the check, whatever `healthy` says.
Compare ==
  /\ pc = "walk" /\ unread = {}
  /\ pc' = IF hash = lastConfigHash THEN "idle" ELSE "validate"
  /\ UNCHANGED <<envVars, signalled, unread, hash, lastConfigHash, healthy,
                 reloaded, failures>>

-----------------------------------------------------------------------------
(***************************************************************************)
(* validateConfig and reloadNginx.  Either command may also fail for want  *)
(* of time; a reload may do so when its signal is already out.  `nginx -s` *)
(* parses the configuration before it signals.                             *)
(***************************************************************************)
GiveUpQuietly == pc' = "idle" /\ UNCHANGED healthy   \* mutant: not reported

GiveUp == pc' = "idle" /\ healthy' = FALSE

ValidateConfig ==
  /\ pc = "validate"
  /\ \/ dir \in GoodDirs /\ pc' = "reload" /\ UNCHANGED <<healthy, failures>>
     \/ dir \notin GoodDirs /\ GiveUp /\ UNCHANGED failures
     \/ Fail /\ GiveUp
  /\ UNCHANGED <<envVars, signalled, unread, hash, lastConfigHash, reloaded>>

ReloadNginx ==
  /\ pc = "reload"
  /\ \/ /\ dir \in GoodDirs
        /\ signalled' = TRUE /\ pc' = "record"
        /\ UNCHANGED <<healthy, failures>>
     \/ dir \notin GoodDirs /\ GiveUp /\ UNCHANGED <<signalled, failures>>
     \/ /\ Fail /\ GiveUp
        /\ signalled' \in {signalled, signalled \/ dir \in GoodDirs}
  /\ UNCHANGED <<envVars, unread, hash, lastConfigHash, reloaded>>

\* Mutant: the hash is taken again after the reload.
RecordCurrentHash ==
  /\ pc = "record"
  /\ lastConfigHash' = CurrentHash /\ healthy' = TRUE /\ reloaded' = TRUE
  /\ pc' = "idle"
  /\ UNCHANGED <<envVars, signalled, unread, hash, failures>>

RecordReload ==
  /\ pc = "record"
  /\ lastConfigHash' = hash /\ healthy' = TRUE /\ reloaded' = TRUE
  /\ pc' = "idle"
  /\ UNCHANGED <<envVars, signalled, unread, hash, failures>>

-----------------------------------------------------------------------------
\* The master loads what it then finds, or keeps what it has if that is bad.
NginxLoads ==
  /\ signalled
  /\ signalled' = FALSE
  /\ loaded' = IF dir \in GoodDirs THEN dir ELSE loaded
  /\ UNCHANGED <<dir, stamp, pc, unread, hash, lastConfigHash, healthy,
                 reloaded, failures, restarts>>

Publish(d) ==
  /\ d # dir /\ stamp < MaxPublications
  /\ dir' = d /\ stamp' = stamp + 1
  /\ UNCHANGED <<loaded, signalled, pc, unread, hash, lastConfigHash, healthy,
                 reloaded, failures, restarts>>

\* The container of the reloader is restarted; that of NGINX is not.
Restart ==
  /\ restarts < MaxRestarts /\ restarts' = restarts + 1
  /\ pc' = "start" /\ unread' = Files /\ healthy' = TRUE
  /\ lastConfigHash' = NoHash /\ reloaded' = FALSE
  /\ UNCHANGED <<dir, stamp, loaded, signalled, hash, failures>>

Check == \/ \E f \in Files : ReadFile(f)
         \/ WalkFails \/ Started \/ Compare
         \/ ValidateConfig \/ ReloadNginx \/ RecordReload

Next == \/ Tick \/ Check \/ NginxLoads \/ Restart
        \/ \E d \in Dirs : Publish(d)

Spec == Init /\ [][Next]_vars

\* The ticker ticks, a check runs to its end, the master handles its signals.
FairSpec == Spec /\ WF_vars(Tick) /\ WF_vars(Check) /\ WF_vars(NginxLoads)

-----------------------------------------------------------------------------
\* The walk "detects any config change" (main.go): when the files have the
\* hash the reloader has recorded with a reload, it does nothing more, so NGINX
\* must run them, or be about to.  Walk, nginx -t, signal and load read the
\* files each for itself, and the files may change between any two.
NothingMissed ==
  reloaded /\ lastConfigHash = CurrentHash
    => loaded = dir \/ (signalled /\ dir \in GoodDirs)

\* What a reloader finds at its start it takes for loaded, right or wrong.
TakenForLoaded == ~reloaded /\ lastConfigHash = CurrentHash

\* A check that fails, also one whose signal is already out, is made again:
\* once files are published no more, NGINX comes to run them if they are good,
\* and /healthz has recovered from whatever came before.
GoodConfigsGetLoaded ==
  <>[](~TakenForLoaded /\ dir \in GoodDirs => loaded = dir /\ healthy)

\* A reloader that is up and remembers another hash is not deflected by torn
\* walks, failing commands or late signals: NGINX comes to run the files,
\* unless these change or the reloader is restarted first.
ChangesGetLoaded ==
  \A d \in GoodDirs :
    dir = d /\ lastConfigHash # CurrentHash /\ pc # "start"
      ~> loaded = d \/ dir # d \/ pc = "start"

\* "config validation before reload" (README): files that stay bad are
\* reported by /healthz, also when they were good as nginx -t read them.
BadConfigsAreReported ==
  <>[](~TakenForLoaded /\ dir \notin GoodDirs => ~healthy)
=============================================================================
