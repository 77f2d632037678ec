--------------------------- MODULE CoreStoreProofs ---------------------------
(***************************************************************************)
(* Proofs about the observation store for every set of batches, handlers   *)
(* and every retention.  The argument has two halves: an image of the      *)
(* store represents the batches in its log (Represents), which Ingest      *)
(* preserves whatever the order of the batches; and the mutex makes the    *)
(* temporary file a copy of memory when it is renamed (Persistence).       *)
(***************************************************************************)
EXTENDS CoreStore, TLAPS

USE DEF Streams, Time

-----------------------------------------------------------------------------
(* The algebra of merge and prune.                                          *)

(* Ingest maps states of the store to states of the store.                  *)
LEMMA IngestedType ==
  ASSUME NEW img \in Image, NEW b \in Batches
  PROVE  Ingested(img, b) \in Image
<1>1. b \in Batch
  BY BatchesAssumption
<1>2. b.sentAt \in Nat /\ b.facts \subseteq Fact /\ b.acquisition \in Acquisition
  BY <1>1 DEF Batch
<1>3. img.facts \subseteq Fact /\ img.lastIngest \in Nat
      /\ img.acquisition \in Acquisition /\ img.log \subseteq Batches
  BY DEF Image
<1>4. Prune(Merge(img.facts, b.facts), b.sentAt) \subseteq Fact
  BY <1>2, <1>3 DEF Prune, Merge
<1>5. MergeAcquisition(img.acquisition, b.acquisition) \in Acquisition
  BY <1>2, <1>3 DEF MergeAcquisition, Acquisition, SourceHealth
<1>6. QED
  BY <1>2, <1>3, <1>4, <1>5 DEF Ingested, Image

LEMMA EmptyImageType == EmptyImage \in Image
BY DEF EmptyImage, Image, Acquisition

(* The state is kept per observation: no observation twice, each from a     *)
(* batch, and every report that retention keeps covered by one as long.     *)
Represents(img) ==
  /\ img.facts \subseteq FactsOf(img.log)
  /\ \A f, g \in img.facts : Same(f, g) => f = g
  /\ \A g \in FactsOf(img.log) :
       Fresh(g, img.lastIngest) => \E f \in img.facts : Same(f, g) /\ f.end >= g.end
  /\ \A b \in img.log : b.sentAt <= img.lastIngest
  /\ img.log # {} => \E b \in img.log : b.sentAt = img.lastIngest
  /\ img.log = {} => img.lastIngest = 0

LEMMA SameTransitive ==
  \A f, g, h : Same(f, g) /\ Same(g, h) => Same(f, h) /\ Same(g, f)
BY DEF Same

(* Facts of batches are facts; two reports of one interval are the same or  *)
(* one is longer, two of one point observation are of the same time.        *)
LEMMA FactsAgree ==
  ASSUME NEW log \in SUBSET Batches
  PROVE  /\ FactsOf(log) \subseteq Fact
         /\ \A f, g \in FactsOf(log) :
              Same(f, g) => \/ f = g
                            \/ f.stream \in ExtendStreams /\ f.end # g.end
                            \/ f.stream \in ReplaceStreams /\ f.end = g.end
BY BatchesAssumption DEF FactsOf, Batch

LEMMA EmptyRepresents == Represents(EmptyImage)
BY DEF Represents, EmptyImage, FactsOf

-----------------------------------------------------------------------------
(* What represents the log converges to what the log says.                  *)
LEMMA RepresentsConverges ==
  ASSUME NEW img \in Image, Represents(img)
  PROVE  Convergent(img)
<1>1. img.log \in SUBSET Batches /\ img.lastIngest \in Nat
  BY DEF Image
<1>2. \A f \in FactsOf(img.log) : f \in Fact /\ f.end \in Nat
  BY <1>1, FactsAgree DEF Fact
<1>3. \A b \in img.log : b.sentAt \in Nat
  BY <1>1, BatchesAssumption DEF Batch
<1>4. \A f \in FactsOf(img.log) :
        (\A b \in img.log : Fresh(f, b.sentAt)) <=> Fresh(f, img.lastIngest)
  <2> SUFFICES ASSUME NEW f \in FactsOf(img.log)
               PROVE  (\A b \in img.log : Fresh(f, b.sentAt)) <=> Fresh(f, img.lastIngest)
    OBVIOUS
  <2>1. f.end \in Nat
    BY <1>2
  <2>2. img.log # {}
    BY DEF FactsOf
  <2>3. PICK b \in img.log : b.sentAt = img.lastIngest
    BY <2>2 DEF Represents
  <2>4. ASSUME Fresh(f, img.lastIngest), NEW c \in img.log
        PROVE  Fresh(f, c.sentAt)
    BY <2>1, <2>4, <1>1, <1>3, RetentionAssumption DEF Represents, Fresh
  <2>5. QED
    BY <2>3, <2>4
<1>5. ASSUME NEW f \in Retained(img.facts, img.log)
      PROVE  f \in Newest(img.log)
  <2>1. f \in img.facts /\ f \in FactsOf(img.log)
    BY <1>5 DEF Retained, Represents
  <2>2. Fresh(f, img.lastIngest)
    BY <1>5, <2>1, <1>4 DEF Retained
  <2>3. ASSUME NEW g \in FactsOf(img.log), Same(g, f)
        PROVE  g.end <= f.end
    <3>1. SUFFICES ASSUME g.end > f.end PROVE FALSE
      BY <1>2, <2>1, <2>3
    <3>2. Fresh(g, img.lastIngest)
      BY <3>1, <2>1, <2>2, <1>1, <1>2, RetentionAssumption DEF Fresh
    <3>3. PICK e \in img.facts : Same(e, g) /\ e.end >= g.end
      BY <3>2 DEF Represents
    <3>4. e = f
      BY <3>3, <2>1, <2>3, SameTransitive DEF Represents
    <3>5. QED
      BY <3>1, <3>3, <3>4, <1>2, <2>1
  <2>4. f \in Longest(img.log)
    BY <2>1, <2>3 DEF Longest
  <2>5. QED
    BY <1>5, <2>4 DEF Newest, Retained
<1>6. ASSUME NEW f \in Newest(img.log)
      PROVE  \E e \in Retained(img.facts, img.log) : Same(f, e)
  <2>1. f \in FactsOf(img.log) /\ \A g \in FactsOf(img.log) : Same(g, f) => g.end <= f.end
    BY <1>6 DEF Newest, Retained, Longest
  <2>2. Fresh(f, img.lastIngest)
    BY <1>6, <2>1, <1>4 DEF Newest, Retained
  <2>3. PICK e \in img.facts : Same(e, f) /\ e.end >= f.end
    BY <2>1, <2>2 DEF Represents
  <2>4. e \in FactsOf(img.log)
    BY <2>3 DEF Represents
  <2>5. e.end = f.end
    BY <2>1, <2>3, <2>4, <1>2
  <2>6. \A b \in img.log : Fresh(e, b.sentAt)
    BY <1>6, <2>5 DEF Newest, Retained, Fresh
  <2>7. QED
    BY <2>3, <2>6 DEF Retained, Same
<1>7. IsViewOf(Retained(img.facts, img.log), img.log)
  <2>1. \A f, g \in Retained(img.facts, img.log) : Same(f, g) => f = g
    BY DEF Retained, Represents
  <2>2. QED
    BY <1>5, <1>6, <2>1 DEF IsViewOf
<1>8. ASSUME NEW f \in Newest(img.log), ~Ambiguous(f, img.log)
      PROVE  f \in Retained(img.facts, img.log)
  <2>1. PICK e \in Retained(img.facts, img.log) : Same(f, e)
    BY <1>6
  <2>2. QED
    BY <1>5, <1>8, <2>1 DEF Ambiguous
(* Two longest reports of an interval end together, so they are the same.   *)
<1>9. ASSUME NEW f \in Newest(img.log), NEW g \in Newest(img.log),
             Same(f, g), f.stream \in ExtendStreams
      PROVE  f = g
  <2>1. f \in FactsOf(img.log) /\ g \in FactsOf(img.log)
    BY DEF Newest, Retained, Longest
  <2>2. f.end <= g.end /\ g.end <= f.end
    BY <1>9, <2>1 DEF Newest, Retained, Longest, Same
  <2>3. f.end = g.end
    BY <1>2, <2>1, <2>2
  <2>4. f.stream \notin ReplaceStreams
    BY <1>9, StreamsAssumption
  <2>5. QED
    BY <1>1, <1>9, <2>1, <2>3, <2>4, FactsAgree
<1>10. QED
  BY <1>5, <1>7, <1>8, <1>9 DEF Convergent, Represents, Ambiguous

-----------------------------------------------------------------------------
(* Ingest keeps an image a representation of its log, be the batch new,     *)
(* repeated, or older than what is there.                                   *)
LEMMA IngestRepresents ==
  ASSUME NEW img \in Image, NEW b \in Batches, Represents(img)
  PROVE  Represents(Ingested(img, b))
<1> DEFINE new == Ingested(img, b)
           merged == Merge(img.facts, b.facts)
<1>1. /\ img.log \subseteq Batches
      /\ img.lastIngest \in Nat
      /\ b.sentAt \in Nat
      /\ \A c \in Batches : c.sentAt \in Nat
  BY BatchesAssumption DEF Image, Batch
<1>2. /\ new.log = img.log \cup {b}
      /\ new.log \subseteq Batches
      /\ new.facts = Prune(merged, b.sentAt)
      /\ new.lastIngest = IF b.sentAt > img.lastIngest THEN b.sentAt ELSE img.lastIngest
  BY <1>1 DEF Ingested
<1>3. new.lastIngest \in Nat /\ new.lastIngest >= b.sentAt /\ new.lastIngest >= img.lastIngest
  BY <1>1, <1>2
<1>4. FactsOf(new.log) = FactsOf(img.log) \cup b.facts
  BY <1>2 DEF FactsOf
<1>5. \A f \in FactsOf(new.log) : f \in Fact /\ f.end \in Nat
  BY <1>2, FactsAgree DEF Fact
<1>6. \A f, g \in FactsOf(new.log) :
        Same(f, g) => \/ f = g
                      \/ f.stream \in ExtendStreams /\ f.end # g.end
                      \/ f.stream \in ReplaceStreams /\ f.end = g.end
  BY <1>2, FactsAgree
<1>7. merged \subseteq FactsOf(new.log)
  BY <1>4 DEF Merge, Represents
<1>8. \A f, g \in b.facts : Same(f, g) => f = g
  BY BatchesAssumption
<1>9. \A f, g \in img.facts : Same(f, g) => f = g
  BY DEF Represents
<1>10. new.facts \subseteq FactsOf(new.log)
  BY <1>2, <1>7 DEF Prune
<1>11. \A f, g \in merged : Same(f, g) => f = g
  BY <1>8, <1>9 DEF Merge, Same
(* What the log says is covered before pruning ...                          *)
<1>12. ASSUME NEW g \in FactsOf(new.log), Fresh(g, new.lastIngest)
       PROVE  \E f \in merged : Same(f, g) /\ f.end >= g.end
  <2>1. g.end \in Nat
    BY <1>5
  <2>2. CASE g \in b.facts
    <3>1. CASE g \in merged
      BY <3>1, <2>1 DEF Same
    <3>2. CASE g \notin merged
      <4>1. PICK e \in img.facts : Same(g, e) /\ ~Wins(g, e)
        BY <2>2, <3>2 DEF Merge
      <4>2. e \in FactsOf(new.log) /\ e.end \in Nat
        BY <1>4, <1>5 DEF Represents
      <4>3. e.end >= g.end
        BY <4>1, <4>2, <2>1 DEF Wins
      <4>4. \A i \in b.facts : Same(i, e) => i = g
        BY <4>1, <2>2, <1>8 DEF Same
      <4>5. e \in merged
        BY <4>1, <4>4 DEF Merge
      <4>6. QED
        BY <4>1, <4>3, <4>5 DEF Same
    <3>3. QED
      BY <3>1, <3>2
  <2>3. CASE g \in FactsOf(img.log)
    <3>1. Fresh(g, img.lastIngest)
      BY <1>1, <1>12, <1>3, <2>1, RetentionAssumption DEF Fresh
    <3>2. PICK e \in img.facts : Same(e, g) /\ e.end >= g.end
      BY <2>3, <3>1 DEF Represents
    <3>3. e \in FactsOf(new.log) /\ e.end \in Nat
      BY <1>4, <1>5 DEF Represents
    <3>4. CASE e \in merged
      BY <3>2, <3>4
    <3>5. CASE e \notin merged
      <4>1. PICK i \in b.facts : Same(i, e) /\ Wins(i, e)
        BY <3>5 DEF Merge
      <4>2. i \in FactsOf(new.log) /\ i.end \in Nat
        BY <1>4, <1>5
      <4>3. i.end >= e.end
        BY <4>1, <4>2, <3>3, <1>6, StreamsAssumption DEF Wins
      <4>4. \A f \in img.facts : Same(i, f) => f = e
        BY <4>1, <1>9 DEF Same
      <4>5. i \in merged
        BY <4>1, <4>4 DEF Merge
      <4>6. Same(i, g) /\ i.end >= g.end
        <5>1. Same(i, g)
          BY <4>1, <3>2, SameTransitive
        <5>2. i.end >= g.end
          BY <4>2, <4>3, <3>2, <3>3, <2>1
        <5>3. QED
          BY <5>1, <5>2
      <4>7. QED
        BY <4>5, <4>6
    <3>6. QED
      BY <3>4, <3>5
  <2>4. QED
    BY <1>4, <2>2, <2>3
(* ... and what covers it is as recent, so pruning keeps it.                *)
<1>13. ASSUME NEW g \in FactsOf(new.log), Fresh(g, new.lastIngest)
       PROVE  \E f \in new.facts : Same(f, g) /\ f.end >= g.end
  <2>1. PICK f \in merged : Same(f, g) /\ f.end >= g.end
    BY <1>12, <1>13
  <2>2. f.end \in Nat /\ g.end \in Nat
    BY <1>5, <1>7
  <2>3. Fresh(f, b.sentAt)
    BY <1>1, <1>3, <1>13, <2>1, <2>2, RetentionAssumption DEF Fresh
  <2>4. QED
    BY <1>2, <2>1, <2>3 DEF Prune
<1>14. \A c \in new.log : c.sentAt <= new.lastIngest
  BY <1>1, <1>2, <1>3 DEF Represents
<1>15. \E c \in new.log : c.sentAt = new.lastIngest
  <2>1. CASE b.sentAt > img.lastIngest
    BY <1>2, <2>1
  <2>2. CASE ~(b.sentAt > img.lastIngest) /\ img.log # {}
    BY <1>2, <2>2 DEF Represents
  <2>3. CASE ~(b.sentAt > img.lastIngest) /\ img.log = {}
    <3>1. b.sentAt \in Nat \ {0}
      BY BatchesAssumption DEF Batch
    <3>2. QED
      BY <3>1, <2>3 DEF Represents
  <2>4. QED
    BY <2>1, <2>2, <2>3
<1>16. QED
  BY <1>2, <1>10, <1>11, <1>13, <1>14, <1>15 DEF Represents, Prune

-----------------------------------------------------------------------------
(* The steps of the store.                                                  *)

(* The holder of the mutex is the one handler inside Ingest, the temporary  *)
(* file is complete when it is about to be renamed, and memory is never     *)
(* behind the file.                                                         *)
Persistence ==
  /\ \A h \in Handlers : pc[h] \in Locked <=> lock = h
  /\ \A h \in Handlers : pc[h] = "written" => tmp = mem
  /\ \A h \in Handlers : pc[h] \in Locked => req[h] \in mem.log
  /\ \A h \in Handlers : pc[h] = "committed" => req[h] \in Saved.log
  /\ up => Saved.log \subseteq mem.log
  /\ ~up => \A h \in Handlers : pc[h] = "idle"
  /\ acked \subseteq Saved.log

Inv == TypeOK /\ Persistence /\ Represents(mem) /\ Represents(Saved)

LEMMA SavedType == TypeOK => Saved \in Image
BY EmptyImageType DEF TypeOK, Saved

LEMMA InvInit == Init => Inv
<1> SUFFICES ASSUME Init PROVE Inv
  OBVIOUS
<1>1. TypeOK
  BY EmptyImageType DEF Init, TypeOK, Steps
<1>2. Persistence
  BY HandlersAssumption DEF Init, Persistence, Saved, Locked, EmptyImage
<1>3. Represents(mem) /\ Represents(Saved)
  BY EmptyRepresents DEF Init, Saved
<1>4. QED
  BY <1>1, <1>2, <1>3 DEF Inv

(* Steps that leave memory and the file as they are keep what they hold.    *)
LEMMA ImagesUnchanged ==
  ASSUME Inv, UNCHANGED <<mem, disk>>
  PROVE  Saved' = Saved /\ Represents(mem)' /\ Represents(Saved)'
BY DEF Inv, Represents, Saved

LEMMA InvNext == Inv /\ [Next]_vars => Inv'
<1> SUFFICES ASSUME Inv, [Next]_vars PROVE Inv'
  OBVIOUS
<1> USE DEF Inv, At, GoTo, Steps, Locked
<1>1. ASSUME NEW h \in Handlers, NEW b \in Batches, Receive(h, b)
      PROVE  Inv'
  <2>1. UNCHANGED <<mem, disk, tmp, lock, up, acked>>
    BY <1>1 DEF Receive
  <2>2. Saved' = Saved /\ Represents(mem)' /\ Represents(Saved)'
    BY <2>1, ImagesUnchanged
  <2>3. TypeOK'
    BY <1>1 DEF Receive, TypeOK
  <2>4. Persistence'
    BY <1>1, <2>2 DEF Receive, TypeOK, Persistence
  <2>5. QED
    BY <2>2, <2>3, <2>4
<1>2. ASSUME NEW h \in Handlers, Ingest(h)
      PROVE  Inv'
  <2>1. mem \in Image /\ req[h] \in Batches
    BY DEF TypeOK
  <2>2. mem' = Ingested(mem, req[h]) /\ mem' \in Image /\ Represents(mem')
    BY <1>2, <2>1, IngestedType, IngestRepresents DEF Ingest
  <2>3. Saved' = Saved /\ Represents(Saved)'
    BY <1>2 DEF Ingest, Saved, Represents
  <2>4. mem'.log = mem.log \cup {req[h]}
    BY <2>2 DEF Ingested
  <2>5. TypeOK'
    BY <1>2, <2>2 DEF Ingest, TypeOK
  <2>6. Represents(mem)'
    BY <2>2 DEF Represents
  <2>7. Persistence'
    BY <1>2, <2>3, <2>4, HandlersAssumption DEF Ingest, TypeOK, Persistence
  <2>8. QED
    BY <2>3, <2>5, <2>6, <2>7
<1>3. ASSUME NEW h \in Handlers, CreateTemp(h)
      PROVE  Inv'
  <2>1. Saved' = Saved /\ Represents(mem)' /\ Represents(Saved)'
    BY <1>3, ImagesUnchanged DEF CreateTemp
  <2>2. TypeOK'
    BY <1>3 DEF CreateTemp, TypeOK
  <2>3. Persistence'
    BY <1>3, <2>1 DEF CreateTemp, TypeOK, Persistence
  <2>4. QED
    BY <2>1, <2>2, <2>3
<1>4. ASSUME NEW h \in Handlers, WriteTemp(h)
      PROVE  Inv'
  <2>1. Saved' = Saved /\ Represents(mem)' /\ Represents(Saved)'
    BY <1>4, ImagesUnchanged DEF WriteTemp
  <2>2. TypeOK'
    BY <1>4 DEF WriteTemp, TypeOK
  <2>3. Persistence'
    BY <1>4, <2>1 DEF WriteTemp, TypeOK, Persistence
  <2>4. QED
    BY <2>1, <2>2, <2>3
<1>5. ASSUME NEW h \in Handlers, Rename(h)
      PROVE  Inv'
  <2>1. disk' = mem /\ mem \in Image /\ UNCHANGED mem
    BY <1>5 DEF Rename, TypeOK, Persistence
  <2>2. Saved' = mem
    BY <2>1, FilesAssumption DEF Saved
  <2>3. Represents(mem)' /\ Represents(Saved)'
    BY <2>1, <2>2 DEF Represents
  <2>4. TypeOK'
    BY <1>5, <2>1 DEF Rename, TypeOK
  <2>5. Persistence'
    BY <1>5, <2>1, <2>2, HandlersAssumption DEF Rename, TypeOK, Persistence
  <2>6. QED
    BY <2>3, <2>4, <2>5
<1>6. ASSUME NEW h \in Handlers, PersistFails(h)
      PROVE  Inv'
  <2>1. Saved' = Saved /\ Represents(mem)' /\ Represents(Saved)'
    BY <1>6, ImagesUnchanged DEF PersistFails
  <2>2. TypeOK'
    BY <1>6 DEF PersistFails, TypeOK
  <2>3. Persistence'
    BY <1>6, <2>1, HandlersAssumption DEF PersistFails, TypeOK, Persistence
  <2>4. QED
    BY <2>1, <2>2, <2>3
<1>7. ASSUME NEW h \in Handlers, Accept(h)
      PROVE  Inv'
  <2>1. Saved' = Saved /\ Represents(mem)' /\ Represents(Saved)'
    BY <1>7, ImagesUnchanged DEF Accept
  <2>2. TypeOK'
    BY <1>7 DEF Accept, TypeOK
  <2>3. Persistence'
    BY <1>7, <2>1 DEF Accept, TypeOK, Persistence
  <2>4. QED
    BY <2>1, <2>2, <2>3
<1>8. CASE Crash
  <2>1. Saved' = Saved /\ Represents(Saved)'
    BY <1>8 DEF Crash, Saved, Represents
  <2>2. TypeOK'
    BY <1>8, EmptyImageType DEF Crash, TypeOK
  <2>3. Represents(mem)'
    BY <1>8, EmptyRepresents DEF Crash, Represents
  <2>4. Persistence'
    BY <1>8, <2>1, HandlersAssumption DEF Crash, TypeOK, Persistence
  <2>5. QED
    BY <2>1, <2>2, <2>3, <2>4
<1>9. CASE OpenStore
  <2>1. mem' = Saved /\ Saved' = Saved
    BY <1>9 DEF OpenStore, Saved
  <2>2. Represents(mem)' /\ Represents(Saved)'
    BY <2>1 DEF Represents
  <2>3. TypeOK'
    BY <1>9, <2>1, SavedType DEF OpenStore, TypeOK
  <2>4. Persistence'
    BY <1>9, <2>1 DEF OpenStore, TypeOK, Persistence
  <2>5. QED
    BY <2>2, <2>3, <2>4
<1>10. CASE UNCHANGED vars
  <2>1. Saved' = Saved /\ Represents(mem)' /\ Represents(Saved)'
    BY <1>10, ImagesUnchanged DEF vars
  <2>2. TypeOK' /\ Persistence'
    BY <1>10, <2>1 DEF vars, TypeOK, Persistence
  <2>3. QED
    BY <2>1, <2>2
<1>11. QED
  BY <1>1, <1>2, <1>3, <1>4, <1>5, <1>6, <1>7, <1>8, <1>9, <1>10 DEF Next, Persisting

THEOREM SpecInv == Spec => []Inv
BY InvInit, InvNext, PTL DEF Spec

-----------------------------------------------------------------------------
(* What the runs check on a small instance, for every instance.             *)

(* Type correctness: every reachable state is well formed; state.json is    *)
(* never torn, whatever step of persistLocked was interrupted.              *)
THEOREM TypeCorrect == Spec => []TypeOK
BY SpecInv, PTL DEF Inv

(* The state in memory is what its batches say, for every order and number  *)
(* of deliveries: one report of each observation, the longest of an         *)
(* interval, and the one there is wherever the reports agree.               *)
THEOREM MemoryIsConvergent == Spec => []MemoryConverges
<1>1. Inv => MemoryConverges
  BY RepresentsConverges DEF Inv, TypeOK, MemoryConverges
<1>2. QED
  BY <1>1, SpecInv, PTL

(* So is the state on disk, at every moment a crash could strike.           *)
THEOREM DiskIsConvergent == Spec => []DiskConverges
<1>1. Inv => DiskConverges
  BY RepresentsConverges, SavedType DEF Inv, DiskConverges
<1>2. QED
  BY <1>1, SpecInv, PTL

(* Memory and disk converge, whatever arrives, fails or crashes.            *)
THEOREM StateConverges == Spec => []Converges
BY MemoryIsConvergent, DiskIsConvergent, PTL DEF Converges

(* A batch answered 202 is on disk.                                         *)
THEOREM AckedBatchesAreDurable == Spec => []AckedIsDurable
<1>1. Inv => AckedIsDurable
  BY DEF Inv, Persistence, AckedIsDurable
<1>2. QED
  BY <1>1, SpecInv, PTL

(* The log on disk only grows, and only Rename changes the file.            *)
LEMMA LogGrows ==
  ASSUME Inv, [Next]_vars
  PROVE  \/ Saved' = Saved
         \/ Saved' = mem /\ mem \in Image /\ Saved.log \subseteq mem.log
<1> USE DEF Inv, At, GoTo
<1>1. ASSUME NEW h \in Handlers, Rename(h)
      PROVE  Saved' = mem /\ mem \in Image /\ Saved.log \subseteq mem.log
  BY <1>1, FilesAssumption DEF Rename, TypeOK, Persistence, Saved
<1>2. ASSUME disk' = disk
      PROVE  Saved' = Saved
  BY <1>2 DEF Saved
<1>3. QED
  BY <1>1, <1>2 DEF Next, Persisting, Receive, Ingest, CreateTemp, WriteTemp,
                    PersistFails, Accept, Crash, OpenStore, vars

(* Durable observations are lost to retention only.                         *)
THEOREM DurableFactsAreKept == Spec => DurableFactsSurvive
<1> DEFINE Kept == \A f \in Retained(Saved.facts, Saved'.log) :
                     \E g \in Saved'.facts : Same(f, g) /\ g.end >= f.end
<1>1. ASSUME Inv, [Next]_vars, NEW f \in Retained(Saved.facts, Saved'.log)
      PROVE  \E g \in Saved'.facts : Same(f, g) /\ g.end >= f.end
  <2>1. Saved \in Image /\ f \in Fact /\ f.end \in Nat
    BY <1>1, SavedType DEF Inv, Image, Retained, Fact
  <2>2. CASE Saved' = Saved
    BY <2>1, <2>2 DEF Retained, Same
  <2>3. CASE Saved' = mem /\ mem \in Image /\ Saved.log \subseteq mem.log
    <3>1. f \in FactsOf(mem.log)
      BY <1>1, <2>3 DEF Inv, Represents, Retained, FactsOf
    <3>2. PICK b \in mem.log : b.sentAt = mem.lastIngest
      BY <1>1, <3>1 DEF Inv, Represents, FactsOf
    <3>3. Fresh(f, mem.lastIngest)
      BY <1>1, <2>3, <3>2 DEF Retained
    <3>4. PICK g \in mem.facts : Same(g, f) /\ g.end >= f.end
      BY <1>1, <3>1, <3>3 DEF Inv, Represents
    <3>5. QED
      BY <2>3, <3>4 DEF Same
  <2>4. QED
    BY <1>1, <2>2, <2>3, LogGrows
<1>2. Inv /\ [Next]_vars => [Kept]_vars
  BY <1>1
<1>3. QED
  BY <1>2, SpecInv, PTL DEF Spec, DurableFactsSurvive

(* A source that was ever observed keeps its last observation while the     *)
(* process runs: Ingest is the only step that touches the diagnostics.      *)
THEOREM LastObservationIsKept == Spec => LastObservationKept
<1> DEFINE Kept ==
      up /\ up' /\ mem.acquisition # NoAcquisition =>
        \A s \in Sources : mem.acquisition[s].last # 0 =>
          mem'.acquisition # NoAcquisition /\ mem'.acquisition[s].last # 0
<1>1. ASSUME Inv, NEW h \in Handlers, Ingest(h)
      PROVE  Kept
  <2> SUFFICES ASSUME mem.acquisition # NoAcquisition,
                      NEW s \in Sources, mem.acquisition[s].last # 0
               PROVE  mem'.acquisition # NoAcquisition /\ mem'.acquisition[s].last # 0
    OBVIOUS
  <2> DEFINE incoming == req[h].acquisition
  <2>1. mem'.acquisition = MergeAcquisition(mem.acquisition, incoming)
    BY <1>1 DEF Ingest, Ingested
  <2>2. CASE incoming = NoAcquisition
    BY <2>1, <2>2 DEF MergeAcquisition
  <2>3. CASE incoming # NoAcquisition
    <3>1. req[h] \in Batch
      BY <1>1, BatchesAssumption DEF Inv, TypeOK
    <3>2. incoming \in [Sources -> SourceHealth]
      BY <2>3, <3>1 DEF Batch, Acquisition
    <3>3. mem'.acquisition =
            [t \in Sources |->
              [connected |-> incoming[t].connected,
               last |-> IF incoming[t].last = 0 THEN mem.acquisition[t].last
                                                ELSE incoming[t].last]]
      BY <2>1, <2>3 DEF MergeAcquisition
    <3>4. mem'.acquisition \in [Sources -> SourceHealth]
      <4>1. mem \in Image
        BY <1>1 DEF Inv, TypeOK
      <4>2. mem.acquisition \in [Sources -> SourceHealth]
        BY <4>1 DEF Image, Acquisition
      <4>3. QED
        BY <3>2, <3>3, <4>2 DEF SourceHealth
    <3>5. mem'.acquisition[s].last # 0
      BY <3>3
    <3>6. QED
      BY <3>4, <3>5, StreamsAssumption
  <2>4. QED
    BY <2>2, <2>3
<1>2. ASSUME Inv, [Next]_vars
      PROVE  Kept
  <2>1. CASE mem' = mem
    BY <2>1
  <2>2. CASE ~(up /\ up')
    BY <2>2
  <2>3. QED
    BY <1>1, <1>2, <2>1, <2>2
       DEF Next, Persisting, Receive, CreateTemp, WriteTemp, Rename, PersistFails,
           Accept, Crash, OpenStore, vars
<1>3. Inv /\ [Next]_vars => [Kept]_vars
  BY <1>2
<1>4. QED
  BY <1>3, SpecInv, PTL DEF Spec, LastObservationKept

-----------------------------------------------------------------------------
(* The store implements the observation log: Rename is Persist, Accept is   *)
(* Acknowledge, everything else stutters.                                   *)
LEMMA LogNewest == \A log : Log!Newest(log) = Newest(log)
BY DEF Log!Newest, Log!Retained, Log!Longest, Log!FactsOf, Log!Same, Log!Fresh,
       Newest, Retained, Longest, FactsOf, Same, Fresh

LEMMA LogView == \A view, log : Log!IsViewOf(view, log) <=> IsViewOf(view, log)
BY LogNewest DEF Log!IsViewOf, Log!Same, IsViewOf, Same

THEOREM ImplementsObservationLog == Spec => ImplementsLog
<1>1. Init => Log!LogInit
  BY DEF Init, Log!LogInit, Saved, EmptyImage, Retained
<1>2. ASSUME Inv, [Next]_vars
      PROVE  [Log!LogNext]_(Log!logVars)
  <2> USE DEF Inv, At, GoTo
  <2>1. ASSUME NEW h \in Handlers, Rename(h)
        PROVE  Log!Persist
    <3>1. Saved' = mem /\ mem \in Image /\ Saved.log \subseteq mem.log /\ acked' = acked
      BY <1>2, <2>1, FilesAssumption DEF Rename, TypeOK, Persistence, Saved
    <3>2. mem.log \subseteq Batches
      BY <3>1 DEF Image
    <3>3. Saved'.log = Saved.log \cup mem.log
      BY <3>1
    <3>4. IsViewOf(Retained(Saved'.facts, Saved'.log), Saved'.log)
      BY <1>2, <3>1, RepresentsConverges DEF Convergent
    <3>5. /\ Retained(Saved.facts, Saved.log)' \in SUBSET Log!Newest(Saved'.log)
          /\ Log!IsViewOf(Retained(Saved.facts, Saved.log)', Saved'.log)
      BY <3>4, LogNewest, LogView DEF Retained, IsViewOf
    <3>6. QED
      BY <3>1, <3>2, <3>3, <3>5 DEF Log!Persist
  <2>2. ASSUME NEW h \in Handlers, Accept(h)
        PROVE  Log!Acknowledge
    BY <1>2, <2>2 DEF Accept, Persistence, Saved, Retained, Log!Acknowledge
  <2>3. ASSUME disk' = disk, acked' = acked
        PROVE  UNCHANGED Log!logVars
    BY <2>3 DEF Saved, Retained, Log!logVars
  <2>4. QED
    BY <1>2, <2>1, <2>2, <2>3
       DEF Next, Persisting, Receive, Ingest, CreateTemp, WriteTemp, PersistFails,
           Crash, OpenStore, vars, Log!LogNext
<1>3. QED
  BY <1>1, <1>2, SpecInv, PTL DEF Spec, ImplementsLog, Log!LogSpec
=============================================================================
