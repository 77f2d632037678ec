------------------------------ MODULE CoreStore ------------------------------
(***************************************************************************)
(* Core's observation store (internal/core/store.go) behind its HTTP       *)
(* endpoint (handleObservations in internal/core/server.go).               *)
(*                                                                         *)
(* Every request runs in a goroutine of its own.  Ingest takes the store's *)
(* mutex, changes the state in memory, and persists it before it unlocks:  *)
(* marshal, create a temporary file, write and sync it, rename it over     *)
(* state.json.  Each file step can fail, which answers 503 and leaves the  *)
(* memory changed; the process can die between any two steps and starts    *)
(* again from the file.  The host sends any batch any number of times, in  *)
(* any order: it retries, and it has several senders.                      *)
(***************************************************************************)
EXTENDS Observations

CONSTANTS
  Handlers,   \* the goroutines that may serve requests at one time
  Nobody,     \* no goroutine holds the mutex
  NoFile,     \* no temporary file is in use
  Torn        \* a file whose contents are not complete

VARIABLES
  mem,    \* Store.state
  disk,   \* the contents of state.json
  tmp,    \* the temporary file of the persist in progress
  lock,   \* the holder of Store.mu
  pc,     \* how far each goroutine is
  req,    \* the batch each goroutine serves
  up,     \* whether the Core process runs
  acked   \* the batches Core answered 202 for

vars == <<mem, disk, tmp, lock, pc, req, up, acked>>

ASSUME HandlersAssumption == Nobody \notin Handlers

(* A state of the store.  "log" is not in the program: it remembers which   *)
(* batches the state was built from, so that properties can speak of them.  *)
Image ==
  [facts : SUBSET Fact, acquisition : Acquisition, lastIngest : Time,
   log : SUBSET Batches]

ASSUME FilesAssumption == NoFile \notin Image /\ Torn \notin Image /\ NoFile # Torn

EmptyImage ==
  [facts |-> {}, acquisition |-> NoAcquisition, lastIngest |-> 0, log |-> {}]

(* The state change of Ingest: merge every stream and the diagnostics,      *)
(* advance lastIngest, and prune by the retention of THIS batch.            *)
Ingested(img, b) ==
  [facts |-> Prune(Merge(img.facts, b.facts), b.sentAt),
   acquisition |-> MergeAcquisition(img.acquisition, b.acquisition),
   lastIngest |-> IF b.sentAt > img.lastIngest THEN b.sentAt ELSE img.lastIngest,
   log |-> img.log \cup {b}]

Steps == {"idle", "received", "merged", "created", "written", "committed"}
Locked == {"merged", "created", "written"}  \* the steps under Store.mu

TypeOK ==
  /\ mem \in Image
  /\ disk \in Image \cup {NoFile}
  /\ tmp \in Image \cup {NoFile, Torn}
  /\ lock \in Handlers \cup {Nobody}
  /\ pc \in [Handlers -> Steps]
  /\ req \in [Handlers -> Batches]
  /\ up \in BOOLEAN
  /\ acked \subseteq Batches

(* A first start: no state.json yet.                                        *)
Init ==
  /\ mem = EmptyImage
  /\ disk = NoFile
  /\ tmp = NoFile
  /\ lock = Nobody
  /\ pc = [h \in Handlers |-> "idle"]
  /\ req \in [Handlers -> Batches]
  /\ up = TRUE
  /\ acked = {}

-----------------------------------------------------------------------------
At(h, step) == up /\ pc[h] = step
GoTo(h, step) == pc' = [pc EXCEPT ![h] = step]

(* A request has been read, authorized, decoded and validated.              *)
Receive(h, b) ==
  /\ At(h, "idle")
  /\ GoTo(h, "received")
  /\ req' = [req EXCEPT ![h] = b]
  /\ UNCHANGED <<mem, disk, tmp, lock, up, acked>>

(* Ingest takes the mutex and changes the state in memory.                  *)
Ingest(h) ==
  /\ At(h, "received")
  /\ lock = Nobody
  /\ lock' = h
  /\ mem' = Ingested(mem, req[h])
  /\ GoTo(h, "merged")
  /\ UNCHANGED <<disk, tmp, req, up, acked>>

CreateTemp(h) ==
  /\ At(h, "merged")
  /\ tmp' = Torn
  /\ GoTo(h, "created")
  /\ UNCHANGED <<mem, disk, lock, req, up, acked>>

(* Write, Sync and Close of the marshalled state.                           *)
WriteTemp(h) ==
  /\ At(h, "created")
  /\ tmp' = mem
  /\ GoTo(h, "written")
  /\ UNCHANGED <<mem, disk, lock, req, up, acked>>

(* Variant: the file is renamed before it is written.                       *)
RenameUnwritten(h) ==
  /\ At(h, "created")
  /\ disk' = tmp
  /\ tmp' = NoFile
  /\ lock' = Nobody
  /\ GoTo(h, "committed")
  /\ UNCHANGED <<mem, req, up, acked>>

(* Rename makes the state durable; Ingest returns nil and unlocks.          *)
Rename(h) ==
  /\ At(h, "written")
  /\ disk' = tmp
  /\ tmp' = NoFile
  /\ lock' = Nobody
  /\ GoTo(h, "committed")
  /\ UNCHANGED <<mem, req, up, acked>>

Accept(h) ==
  /\ At(h, "committed")
  /\ acked' = acked \cup {req[h]}
  /\ GoTo(h, "idle")
  /\ UNCHANGED <<mem, disk, tmp, lock, req, up>>

(* Variant: Ingest drops the error of persistLocked.                        *)
PersistErrorIgnored(h) ==
  /\ up /\ pc[h] \in Locked
  /\ tmp' = NoFile
  /\ lock' = Nobody
  /\ GoTo(h, "committed")
  /\ UNCHANGED <<mem, disk, req, up, acked>>

(* Variant: the error path returns without unlocking.                       *)
PersistFailsLocked(h) ==
  /\ up /\ pc[h] \in Locked
  /\ tmp' = NoFile
  /\ GoTo(h, "idle")
  /\ UNCHANGED <<mem, disk, lock, req, up, acked>>

(* A file step fails: the temporary file is removed, Ingest unlocks and     *)
(* returns the error, the handler answers 503.  Memory stays as it is.      *)
PersistFails(h) ==
  /\ up /\ pc[h] \in Locked
  /\ tmp' = NoFile
  /\ lock' = Nobody
  /\ GoTo(h, "idle")
  /\ UNCHANGED <<mem, disk, req, up, acked>>

(* The process dies.  A temporary file it leaves is never read again: the   *)
(* next persist creates one under a fresh name.                             *)
Crash ==
  /\ up
  /\ up' = FALSE
  /\ mem' = EmptyImage
  /\ tmp' = NoFile
  /\ lock' = Nobody
  /\ pc' = [h \in Handlers |-> "idle"]
  /\ UNCHANGED <<disk, req, acked>>

(* Variant: the state is not read back.                                     *)
OpenEmpty ==
  /\ ~up
  /\ up' = TRUE
  /\ mem' = EmptyImage
  /\ UNCHANGED <<disk, tmp, lock, pc, req, acked>>

(* OpenStore: no file is an empty store, an unreadable file is an error     *)
(* that keeps Core down.                                                    *)
OpenStore ==
  /\ ~up
  /\ disk # Torn
  /\ up' = TRUE
  /\ mem' = IF disk = NoFile THEN EmptyImage ELSE disk
  /\ UNCHANGED <<disk, tmp, lock, pc, req, acked>>

Persisting(h) == CreateTemp(h) \/ WriteTemp(h) \/ Rename(h) \/ PersistFails(h)

Next ==
  \/ \E h \in Handlers :
       \/ \E b \in Batches : Receive(h, b)
       \/ Ingest(h)
       \/ Persisting(h)
       \/ Accept(h)
  \/ Crash
  \/ OpenStore

Spec == Init /\ [][Next]_vars

(* A running goroutine goes on; a contended Go mutex is handed over in      *)
(* order, so a goroutine that keeps waiting for it gets it.                 *)
Fairness ==
  \A h \in Handlers : WF_vars(Persisting(h)) /\ WF_vars(Accept(h)) /\ SF_vars(Ingest(h))

FairSpec == Spec /\ Fairness

-----------------------------------------------------------------------------
Saved == IF disk = NoFile THEN EmptyImage ELSE disk

(* The state is what the batches it was built from say, in whatever order   *)
(* and however often they were delivered (merge in store.go): it holds one  *)
(* report of every observation that retention keeps, the longest of an      *)
(* interval; duplicates and reordering change nothing but which of the      *)
(* different reports of one point observation that is, and lastIngest is    *)
(* the latest SentAt.                                                       *)
Convergent(img) ==
  /\ IsViewOf(Retained(img.facts, img.log), img.log)
  /\ {f \in Retained(img.facts, img.log) : ~Ambiguous(f, img.log)}
       = {f \in Newest(img.log) : ~Ambiguous(f, img.log)}
  /\ \A f \in Newest(img.log) : f.stream \in ExtendStreams => ~Ambiguous(f, img.log)
  /\ \A b \in img.log : b.sentAt <= img.lastIngest
  /\ img.log # {} => \E b \in img.log : b.sentAt = img.lastIngest

MemoryConverges == Convergent(mem)

(* Whatever was interrupted, the file holds a whole state of the store, one *)
(* that converges as memory does.                                           *)
DiskConverges == Convergent(Saved)

(* Both, at every moment a reader or a crash could strike.                  *)
Converges == MemoryConverges /\ DiskConverges

(* A batch that was answered 202 is on disk: a crash cannot lose it.        *)
AckedIsDurable == acked \subseteq Saved.log

(* Nothing durable is lost but by retention: a step of the system, a crash  *)
(* or a failed write included, keeps every observation on disk, or a longer *)
(* report of it, unless a batch on disk is so new that the observation is   *)
(* out of its retention.                                                    *)
DurableFactsSurvive ==
  [][\A f \in Retained(Saved.facts, Saved'.log) :
        \E g \in Saved'.facts : Same(f, g) /\ g.end >= f.end]_vars

(* While the process runs, a source that ever reported an observation keeps *)
(* a last-observation time through batches that have none                   *)
(* (mergeAcquisition's preserveLast).                                       *)
LastObservationKept ==
  [][up /\ up' /\ mem.acquisition # NoAcquisition =>
       \A s \in Sources : mem.acquisition[s].last # 0 =>
         mem'.acquisition # NoAcquisition /\ mem'.acquisition[s].last # 0]_vars

(* Every request is answered, or its process dies: no path through Ingest   *)
(* keeps the mutex.                                                         *)
RequestsAnswered == \A h \in Handlers : pc[h] = "received" ~> pc[h] = "idle"

(* The store implements the log of ObservationLog: the file is the log.     *)
Log == INSTANCE ObservationLog
         WITH durable <- Saved.log,
              view <- Retained(Saved.facts, Saved.log)

ImplementsLog == Log!LogSpec
=============================================================================
