------------------------- MODULE ExternalSyncProofs -------------------------
(***************************************************************************)
(* That no deletion is dropped by the worker, and that nothing Kubernetes  *)
(* still has is taken for gone, for any number of objects, changes,        *)
(* failing calls and restarts.                                             *)
(***************************************************************************)
EXTENDS ExternalSync, TLAPS

(* There is nothing to collect until both lists were read. *)
NoGarbage == pc["gc"] \in {"idle", "list"} => garbage = {}

(* What is owed was seen to go: Reconcile does not leave it alone. *)
OwedUnseen == owed \cap view = {}

(* If the object went under the worker's hands and is owed again, that is  *)
(* for a later delete event, which put it into the queue.                  *)
GoneRequeued ==
    pc["worker"] = "delete" /\ read["worker"] = "gone" /\ obj["worker"] \in owed
        => obj["worker"] \in queue

(* What the collector is to spare is in its list of Kubernetes objects,    *)
(* and not among the garbage.                                              *)
GarbageSpares ==
    /\ pc["gc"] = "list" => kept["gc"] \subseteq listed
    /\ garbage \cap kept["gc"] = {}

IInv ==
    /\ TypeOK /\ NoGarbage /\ OwedUnseen /\ GoneRequeued /\ DeletesRetried
    /\ GarbageSpares /\ PresentSpared

-----------------------------------------------------------------------------
(* TypeOK, by the variables concerned. *)
SetsOK ==
    /\ k8s \subseteq Objects /\ csi \subseteq Objects
    /\ view \subseteq Objects /\ queue \subseteq Objects
    /\ stos \subseteq Objects /\ busy \subseteq stos
    /\ listed \subseteq Objects /\ garbage \subseteq Objects
    /\ owed \subseteq stos \ k8s

ThreadsOK ==
    /\ pc \in [Threads -> {"idle", "list", "collect", "read", "delete"}]
    /\ pc["worker"] \notin {"list", "collect"}
    /\ obj \in [Threads -> Objects \cup {None}]
    /\ \A t \in Threads : obj[t] # None <=> pc[t] \in {"read", "delete"}
    /\ read \in [Threads -> {"same", "changed", "gone"}]

ReadOK == \A t \in Threads : pc[t] = "delete" /\ read[t] # "gone" => obj[t] \in stos

FlagsOK == panicked \in BOOLEAN /\ env \in Nat /\ faults \in Nat

KeptOK == kept \in [Threads -> SUBSET Objects]

(* The steps of the environment and the informer leave the threads alone,  *)
(* but for what becomes of an object that was read.                        *)
EnvSteps ==
    \E o \in Objects : \/ Create(o) \/ Delete(o) \/ RegisterCSI(o) \/ Join(o) \/ Use(o)
                       \/ CreateEvent(o) \/ DeleteEvent(o)

(* TypeOK is the conjunction of its parts. *)
LEMMA TypeParts ==
    /\ TypeOK => SetsOK /\ ThreadsOK /\ ReadOK /\ FlagsOK /\ KeptOK
    /\ SetsOK /\ ThreadsOK /\ ReadOK /\ FlagsOK /\ KeptOK /\ NoGarbage => TypeOK
<1>1. TypeOK => SetsOK /\ ThreadsOK /\ ReadOK /\ FlagsOK /\ KeptOK
  BY DEF TypeOK, SetsOK, ThreadsOK, ReadOK, FlagsOK, KeptOK
<1>2. SetsOK /\ ThreadsOK /\ ReadOK /\ FlagsOK /\ KeptOK /\ NoGarbage => TypeOK
  BY DEF TypeOK, SetsOK, ThreadsOK, ReadOK, FlagsOK, KeptOK, NoGarbage
<1> QED
  BY <1>1, <1>2

(* The steps of Next, by name. *)
LEMMA NextCases ==
    ASSUME [Next]_vars
    PROVE  \/ EnvSteps
           \/ \E o \in Objects : Reconcile(o) \/ Collect(o)
           \/ ListKubernetes \/ ListExternal \/ CollectEnds
           \/ \E t \in Threads : \/ GetByKey(t) \/ DeleteObject(t) \/ DeleteRefused(t)
                                 \/ DeletePanics(t)
           \/ Crash
           \/ UNCHANGED vars
BY DEF Next, Collector, Step, Threads, EnvSteps

(* The sets keep their types, and what is owed is in StorageOS only. *)
LEMMA SetsStep ==
    ASSUME IInv, [Next]_vars
    PROVE  SetsOK'
<1>0. SetsOK /\ ThreadsOK /\ ReadOK
  BY TypeParts DEF IInv
<1>1. ASSUME NEW o \in Objects,
             Create(o) \/ Delete(o) \/ RegisterCSI(o) \/ Join(o) \/ Use(o)
      PROVE  SetsOK'
  <2>1. UNCHANGED <<view, queue, listed, garbage>>
    BY <1>1 DEF Create, Delete, RegisterCSI, Join, Use, EnvStep
  <2>2. CASE Create(o)
    BY <1>0, <2>1, <2>2 DEF Create, SetsOK
  <2>3. CASE Delete(o)
    BY <1>0, <2>1, <2>3 DEF Delete, SetsOK
  <2>4. CASE RegisterCSI(o)
    BY <1>0, <2>1, <2>4 DEF RegisterCSI, SetsOK
  <2>5. CASE Join(o)
    BY <1>0, <2>1, <2>5 DEF Join, SetsOK
  <2>6. CASE Use(o)
    BY <1>0, <2>1, <2>6 DEF Use, SetsOK
  <2> QED BY <1>1, <2>2, <2>3, <2>4, <2>5, <2>6
<1>2. ASSUME NEW o \in Objects, CreateEvent(o) PROVE SetsOK'
  BY <1>0, <1>2 DEF CreateEvent, SetsOK, threadVars
<1>3. ASSUME NEW o \in Objects, DeleteEvent(o) PROVE SetsOK'
  BY <1>0, <1>3 DEF DeleteEvent, SetsOK, threadVars
<1>4. ASSUME NEW o \in Objects, Reconcile(o) \/ Collect(o) PROVE SetsOK'
  BY <1>0, <1>4 DEF Reconcile, Collect, SetsOK
<1>5. CASE ListKubernetes \/ ListExternal \/ CollectEnds
  BY <1>0, <1>5 DEF ListKubernetes, ListExternal, CollectEnds, SetsOK
<1>6. ASSUME NEW t \in Threads, NEW err \in BOOLEAN, Finish(t, err),
             pc[t] \in {"read", "delete"}
      PROVE  queue' \subseteq Objects
  <2>1. obj[t] \in Objects
    BY <1>0, <1>6 DEF ThreadsOK
  <2> QED BY <1>0, <1>6, <2>1 DEF Finish, SetsOK
<1>7. ASSUME NEW t \in Threads, GetByKey(t) \/ DeleteRefused(t) PROVE SetsOK'
  <2>1. queue' \subseteq Objects
    BY <1>0, <1>6, <1>7 DEF GetByKey, DeleteRefused, SetsOK
  <2>2. UNCHANGED <<k8s, csi, view, stos, busy, listed, garbage, owed>>
    BY <1>7 DEF GetByKey, DeleteRefused
  <2> QED BY <1>0, <2>1, <2>2 DEF SetsOK
<1>8. ASSUME NEW t \in Threads, DeleteObject(t) PROVE SetsOK'
  <2>1. queue' \subseteq Objects
    BY <1>6, <1>8 DEF DeleteObject
  <2>2. /\ UNCHANGED <<k8s, csi, view, busy, listed, garbage>>
        /\ obj[t] \notin busy /\ stos' = stos \ {obj[t]} /\ owed' = owed \ {obj[t]}
    BY <1>8 DEF DeleteObject
  <2> QED BY <1>0, <2>1, <2>2 DEF SetsOK
<1>9. ASSUME NEW t \in Threads, DeletePanics(t) PROVE SetsOK'
  BY <1>0, <1>9 DEF DeletePanics, Restart, SetsOK
<1>10. CASE Crash
  BY <1>0, <1>10 DEF Crash, Restart, SetsOK
<1>11. CASE UNCHANGED vars
  BY <1>0, <1>11 DEF vars, threadVars, SetsOK
<1> QED
  BY <1>1, <1>2, <1>3, <1>4, <1>5, <1>7, <1>8, <1>9, <1>10, <1>11, NextCases DEF EnvSteps


(* The environment changes no thread, and makes no copy more recent. *)
LEMMA EnvFrame ==
    ASSUME EnvSteps, ThreadsOK
    PROVE  /\ UNCHANGED <<pc, obj, listed, garbage, panicked, faults>>
           /\ read' \in [Threads -> {"same", "changed", "gone"}]
           /\ \A t \in Threads : read'[t] = "gone" <=> read[t] = "gone"
<1> DEFINE Goal == /\ UNCHANGED <<pc, obj, listed, garbage, panicked, faults>>
                   /\ read' \in [Threads -> {"same", "changed", "gone"}]
                   /\ \A t \in Threads : read'[t] = "gone" <=> read[t] = "gone"
<1>1. ASSUME NEW o \in Objects, Create(o) \/ Delete(o) \/ RegisterCSI(o) \/ Join(o)
      PROVE  Goal
  <2>1. UNCHANGED <<pc, obj, read, listed, garbage, panicked, faults>>
    BY <1>1 DEF Create, Delete, RegisterCSI, Join, EnvStep
  <2> QED BY <2>1 DEF ThreadsOK
<1>2. ASSUME NEW o \in Objects, Use(o) PROVE Goal
  BY <1>2 DEF Use, EnvStep, Changes, ThreadsOK
<1>3. ASSUME NEW o \in Objects, CreateEvent(o) \/ DeleteEvent(o) PROVE Goal
  <2>1. UNCHANGED <<pc, obj, read, listed, garbage, panicked, faults>>
    BY <1>3 DEF CreateEvent, DeleteEvent, threadVars
  <2> QED BY <2>1 DEF ThreadsOK
<1> QED
  BY <1>1, <1>2, <1>3 DEF EnvSteps

(* The threads keep their types. *)
LEMMA ThreadsStep ==
    ASSUME IInv, [Next]_vars
    PROVE  ThreadsOK'
<1>0. ThreadsOK /\ SetsOK
  BY TypeParts DEF IInv
<1>a. "worker" \in Threads /\ "gc" \in Threads /\ "worker" # "gc"
  BY DEF Threads
<1>1. CASE EnvSteps
  <2>1. /\ pc' = pc /\ obj' = obj
        /\ read' \in [Threads -> {"same", "changed", "gone"}]
    BY <1>0, <1>1, EnvFrame
  <2> QED BY <1>0, <2>1 DEF ThreadsOK
<1>2. ASSUME NEW o \in Objects, Reconcile(o) PROVE ThreadsOK'
  BY <1>0, <1>a, <1>2, ConstantsAssumption DEF Reconcile, Take, ThreadsOK
<1>3. ASSUME NEW o \in Objects, Collect(o) PROVE ThreadsOK'
  BY <1>0, <1>a, <1>3, ConstantsAssumption DEF Collect, Take, ThreadsOK
<1>4. CASE ListKubernetes \/ ListExternal \/ CollectEnds
  BY <1>0, <1>a, <1>4 DEF ListKubernetes, ListExternal, CollectEnds, ThreadsOK
<1>5. ASSUME NEW t \in Threads, NEW err \in BOOLEAN, Finish(t, err),
             read' \in [Threads -> {"same", "changed", "gone"}]
      PROVE  ThreadsOK'
  BY <1>0, <1>a, <1>5 DEF Finish, ThreadsOK
<1>6. ASSUME NEW t \in Threads, GetByKey(t) PROVE ThreadsOK'
  <2>1. CASE Finish(t, TRUE) /\ UNCHANGED read
    BY <1>0, <1>5, <2>1 DEF ThreadsOK
  <2>2. CASE Finish(t, FALSE) /\ UNCHANGED read
    BY <1>0, <1>5, <2>2 DEF ThreadsOK
  <2>3. CASE /\ pc[t] = "read" /\ pc' = [pc EXCEPT ![t] = "delete"]
             /\ read' = [read EXCEPT ![t] = "same"] /\ obj' = obj
    BY <1>0, <1>a, <2>3 DEF ThreadsOK
  <2> QED BY <1>6, <2>1, <2>2, <2>3 DEF GetByKey
<1>7. ASSUME NEW t \in Threads, DeleteObject(t) PROVE ThreadsOK'
  <2>1. read' \in [Threads -> {"same", "changed", "gone"}]
    BY <1>0, <1>7 DEF DeleteObject, ThreadsOK
  <2> QED BY <1>5, <1>7, <2>1 DEF DeleteObject
<1>8. ASSUME NEW t \in Threads, DeleteRefused(t) PROVE ThreadsOK'
  <2>1. read' \in [Threads -> {"same", "changed", "gone"}]
    BY <1>0, <1>8 DEF DeleteRefused, ThreadsOK
  <2> QED BY <1>5, <1>8, <2>1 DEF DeleteRefused
<1>9. CASE Crash \/ \E t \in Threads : DeletePanics(t)
  BY <1>9 DEF Crash, DeletePanics, Restart, ThreadsOK, Threads
<1>10. CASE UNCHANGED vars
  BY <1>0, <1>10 DEF vars, threadVars, ThreadsOK
<1> QED
  BY <1>1, <1>2, <1>3, <1>4, <1>6, <1>7, <1>8, <1>9, <1>10, NextCases

(* An object that is gone from StorageOS is gone for who read it. *)
LEMMA ReadStep ==
    ASSUME IInv, [Next]_vars
    PROVE  ReadOK'
<1>0. ThreadsOK /\ SetsOK /\ ReadOK
  BY TypeParts DEF IInv
<1>a. "worker" \in Threads /\ "gc" \in Threads
  BY DEF Threads
<1>1. CASE EnvSteps
  <2>1. stos \subseteq stos'
    BY <1>1 DEF EnvSteps, Create, Delete, RegisterCSI, Join, Use, CreateEvent, DeleteEvent
  <2>2. /\ pc' = pc /\ obj' = obj
        /\ \A t \in Threads : read'[t] = "gone" <=> read[t] = "gone"
    BY <1>0, <1>1, EnvFrame
  <2> QED BY <1>0, <2>1, <2>2 DEF ReadOK
<1>2. ASSUME NEW o \in Objects, Reconcile(o) \/ Collect(o) PROVE ReadOK'
  BY <1>0, <1>a, <1>2 DEF Reconcile, Collect, Take, ReadOK, ThreadsOK
<1>3. CASE ListKubernetes \/ ListExternal \/ CollectEnds
  BY <1>0, <1>a, <1>3 DEF ListKubernetes, ListExternal, CollectEnds, ReadOK, ThreadsOK
<1>4. ASSUME NEW t \in Threads, GetByKey(t) PROVE ReadOK'
  <2>1. CASE Finish(t, TRUE) \/ Finish(t, FALSE)
    <3>1. UNCHANGED stos /\ \A u \in Threads : u # t => UNCHANGED <<pc[u], obj[u], read[u]>>
      BY <1>0, <1>4, <2>1 DEF GetByKey, Finish, ThreadsOK
    <3>2. pc'[t] # "delete"
      BY <1>0, <2>1 DEF Finish, ThreadsOK
    <3> QED BY <1>0, <3>1, <3>2 DEF ReadOK
  <2>2. CASE /\ obj[t] \in stos /\ pc' = [pc EXCEPT ![t] = "delete"]
             /\ read' = [read EXCEPT ![t] = "same"] /\ obj' = obj
    BY <1>0, <1>4, <2>2 DEF GetByKey, ReadOK, ThreadsOK
  <2> QED BY <1>4, <2>1, <2>2 DEF GetByKey
<1>5. ASSUME NEW t \in Threads, DeleteObject(t) PROVE ReadOK'
  BY <1>0, <1>5 DEF DeleteObject, Finish, ReadOK, ThreadsOK
<1>6. ASSUME NEW t \in Threads, DeleteRefused(t) PROVE ReadOK'
  <2>1. /\ stos' = stos /\ read' = [read EXCEPT ![t] = "gone"]
        /\ Finish(t, TRUE) \/ Finish(t, FALSE)
    BY <1>6 DEF DeleteRefused
  <2> QED BY <1>0, <2>1 DEF Finish, ReadOK, ThreadsOK
<1>7. CASE Crash \/ \E t \in Threads : DeletePanics(t)
  BY <1>7 DEF Crash, DeletePanics, Restart, ReadOK, Threads
<1>8. CASE UNCHANGED vars
  BY <1>0, <1>8 DEF vars, threadVars, ReadOK
<1> QED
  BY <1>1, <1>2, <1>3, <1>4, <1>5, <1>6, <1>7, <1>8, NextCases


(* Flags and counters keep their types. *)
LEMMA FlagsStep ==
    ASSUME IInv, [Next]_vars
    PROVE  FlagsOK'
<1>0. FlagsOK
  BY TypeParts DEF IInv
<1>1. panicked' = panicked \/ panicked' = TRUE
  BY DEF Next, Create, Delete, RegisterCSI, Join, Use, EnvStep, CreateEvent, DeleteEvent,
         Reconcile, Collector, ListKubernetes, ListExternal, Collect, CollectEnds, Step,
         GetByKey, DeleteObject, DeleteRefused, DeletePanics, Crash, vars
<1>2. env' = env \/ env' = env + 1
  BY DEF Next, Create, Delete, RegisterCSI, Join, Use, EnvStep, CreateEvent, DeleteEvent,
         Reconcile, Collector, ListKubernetes, ListExternal, Collect, CollectEnds, Step,
         GetByKey, DeleteObject, DeleteRefused, DeletePanics, Crash, Restart, vars
<1>3. faults' = faults \/ faults' = faults + 1
  BY DEF Next, Create, Delete, RegisterCSI, Join, Use, EnvStep, CreateEvent, DeleteEvent,
         Reconcile, Collector, ListKubernetes, ListExternal, Collect, CollectEnds, Step,
         GetByKey, DeleteObject, DeleteRefused, DeletePanics, Crash, Restart, vars,
         Fault, NoFault
<1>4. env' \in Nat /\ faults' \in Nat
  BY <1>0, <1>2, <1>3 DEF FlagsOK
<1>5. panicked' \in BOOLEAN
  BY Zenon, <1>0, <1>1 DEF FlagsOK
<1> QED
  BY <1>4, <1>5 DEF FlagsOK

(* The collector has garbage only while it collects. *)
LEMMA NoGarbageStep ==
    ASSUME IInv, [Next]_vars
    PROVE  NoGarbage'
<1>0. ThreadsOK /\ NoGarbage
  BY TypeParts DEF IInv
<1>a. "worker" \in Threads /\ "gc" \in Threads /\ "worker" # "gc"
  BY DEF Threads
<1>1. CASE EnvSteps
  BY <1>0, <1>1, EnvFrame DEF NoGarbage
<1>2. ASSUME NEW o \in Objects, Reconcile(o) \/ Collect(o) PROVE NoGarbage'
  BY <1>0, <1>a, <1>2 DEF Reconcile, Collect, Take, NoGarbage, ThreadsOK
<1>3. CASE ListKubernetes \/ ListExternal \/ CollectEnds
  BY <1>0, <1>a, <1>3 DEF ListKubernetes, ListExternal, CollectEnds, NoGarbage, ThreadsOK
<1>4. ASSUME NEW t \in Threads, GetByKey(t) \/ DeleteObject(t) \/ DeleteRefused(t)
      PROVE  NoGarbage'
  <2>1. UNCHANGED garbage
    BY <1>4 DEF GetByKey, DeleteObject, DeleteRefused
  <2>2. pc'["gc"] \in {"idle", "list"} => pc'["gc"] = pc["gc"]
    BY <1>0, <1>a, <1>4 DEF GetByKey, DeleteObject, DeleteRefused, Finish, ThreadsOK
  <2> QED BY <1>0, <2>1, <2>2 DEF NoGarbage
<1>5. CASE Crash \/ \E t \in Threads : DeletePanics(t)
  BY <1>5 DEF Crash, DeletePanics, Restart, NoGarbage
<1>6. CASE UNCHANGED vars
  BY <1>0, <1>6 DEF vars, threadVars, NoGarbage
<1> QED
  BY <1>1, <1>2, <1>3, <1>4, <1>5, <1>6, NextCases

(* The informer does not have what is owed: what comes back is not owed,   *)
(* and its name was free.                                                  *)
LEMMA OwedUnseenStep ==
    ASSUME IInv, [Next]_vars
    PROVE  OwedUnseen'
<1>0. SetsOK /\ OwedUnseen
  BY TypeParts DEF IInv
<1>1. ASSUME NEW o \in Objects,
             Create(o) \/ Delete(o) \/ RegisterCSI(o) \/ Join(o) \/ Use(o)
      PROVE  OwedUnseen'
  BY <1>0, <1>1 DEF Create, Delete, RegisterCSI, Join, Use, EnvStep, OwedUnseen
<1>2. ASSUME NEW o \in Objects, CreateEvent(o) PROVE OwedUnseen'
  BY <1>0, <1>2 DEF CreateEvent, SetsOK, OwedUnseen
<1>3. ASSUME NEW o \in Objects, DeleteEvent(o) PROVE OwedUnseen'
  BY <1>0, <1>3 DEF DeleteEvent, OwedUnseen
<1>4. ASSUME NEW o \in Objects, Reconcile(o) \/ Collect(o) PROVE OwedUnseen'
  BY <1>0, <1>4 DEF Reconcile, Collect, OwedUnseen
<1>5. CASE ListKubernetes \/ ListExternal \/ CollectEnds
  BY <1>0, <1>5 DEF ListKubernetes, ListExternal, CollectEnds, OwedUnseen
<1>6. ASSUME NEW t \in Threads, GetByKey(t) \/ DeleteObject(t) \/ DeleteRefused(t)
      PROVE  OwedUnseen'
  BY <1>0, <1>6 DEF GetByKey, DeleteObject, DeleteRefused, OwedUnseen
<1>7. CASE Crash \/ \E t \in Threads : DeletePanics(t)
  BY <1>0, <1>7 DEF Crash, DeletePanics, Restart, SetsOK, OwedUnseen
<1>8. CASE UNCHANGED vars
  BY <1>0, <1>8 DEF vars, OwedUnseen
<1> QED
  BY <1>1, <1>2, <1>3, <1>4, <1>5, <1>6, <1>7, <1>8, NextCases DEF EnvSteps

(* What becomes owed is put into the queue by the same event. *)
LEMMA OwedShape ==
    ASSUME EnvSteps
    PROVE  \A o \in owed' : o \in owed \/ o \in queue'
<1>1. ASSUME NEW o \in Objects, DeleteEvent(o) PROVE \A p \in owed' : p \in owed \/ p \in queue'
  BY <1>1 DEF DeleteEvent
<1>2. ASSUME NEW o \in Objects,
             Create(o) \/ Delete(o) \/ RegisterCSI(o) \/ Join(o) \/ Use(o) \/ CreateEvent(o)
      PROVE  owed' \subseteq owed
  BY <1>2 DEF Create, Delete, RegisterCSI, Join, Use, CreateEvent
<1> QED
  BY <1>1, <1>2 DEF EnvSteps

(* Only the worker takes requests out of the queue. *)
LEMMA QueueGrows ==
    ASSUME \/ EnvSteps \/ ListKubernetes \/ ListExternal \/ CollectEnds
           \/ \E o \in Objects : Collect(o)
           \/ \E t \in Threads : GetByKey(t) \/ DeleteObject(t) \/ DeleteRefused(t)
           \/ UNCHANGED vars
    PROVE  queue \subseteq queue'
<1>1. CASE EnvSteps
  BY <1>1 DEF EnvSteps, Create, Delete, RegisterCSI, Join, Use, EnvStep, CreateEvent,
              DeleteEvent
<1>2. CASE ListKubernetes \/ ListExternal \/ CollectEnds \/ \E o \in Objects : Collect(o)
  BY <1>2 DEF ListKubernetes, ListExternal, CollectEnds, Collect
<1>3. CASE \E t \in Threads : GetByKey(t) \/ DeleteObject(t) \/ DeleteRefused(t)
  BY <1>3 DEF GetByKey, DeleteObject, DeleteRefused, Finish
<1>4. CASE UNCHANGED vars
  BY <1>4 DEF vars
<1> QED
  BY <1>1, <1>2, <1>3, <1>4


(* The steps other than Reconcile and the restarts take nothing from the   *)
(* worker but an object that it is done with, and what is owed more than   *)
(* before is in the queue.                                                 *)
LEMMA WorkerKeeps ==
    ASSUME IInv, [Next]_vars
    PROVE  \/ \E o \in Objects : Reconcile(o)
           \/ Crash \/ \E t \in Threads : DeletePanics(t)
           \/ /\ queue \subseteq queue'
              /\ \A o \in owed' : o \in owed \/ o \in queue'
              /\ UNCHANGED panicked
              /\ \/ UNCHANGED <<pc["worker"], obj["worker"]>>
                 \/ GetByKey("worker") \/ DeleteObject("worker") \/ DeleteRefused("worker")
<1> DEFINE Kept == UNCHANGED <<pc["worker"], obj["worker"]>>
           Shape == /\ queue \subseteq queue'
                    /\ \A o \in owed' : o \in owed \/ o \in queue'
                    /\ UNCHANGED panicked
                    /\ \/ Kept
                       \/ GetByKey("worker") \/ DeleteObject("worker") \/ DeleteRefused("worker")
<1>0. ThreadsOK
  BY TypeParts DEF IInv
<1>a. "worker" \in Threads /\ "gc" \in Threads /\ "worker" # "gc"
  BY DEF Threads
<1>1. ASSUME EnvSteps PROVE Shape
  BY <1>0, <1>1, EnvFrame, OwedShape, QueueGrows
<1>2. ASSUME ListKubernetes \/ ListExternal \/ CollectEnds \/ \E o \in Objects : Collect(o)
      PROVE  Shape
  <2>1. owed' = owed /\ panicked' = panicked
    BY <1>2 DEF ListKubernetes, ListExternal, CollectEnds, Collect
  <2>2. Kept
    BY <1>0, <1>a, <1>2 DEF ListKubernetes, ListExternal, CollectEnds, Collect, Take, ThreadsOK
  <2> QED BY <1>2, <2>1, <2>2, QueueGrows
<1>3. ASSUME NEW t \in Threads, GetByKey(t) \/ DeleteObject(t) \/ DeleteRefused(t)
      PROVE  Shape
  <2>1. owed' \subseteq owed /\ panicked' = panicked
    BY <1>3 DEF GetByKey, DeleteObject, DeleteRefused
  <2>2. t = "gc" => Kept
    BY <1>0, <1>a, <1>3 DEF GetByKey, DeleteObject, DeleteRefused, Finish, ThreadsOK
  <2>3. t = "worker" \/ t = "gc"
    BY DEF Threads
  <2> HIDE DEF Kept
  <2> QED BY <1>3, <2>1, <2>2, <2>3, QueueGrows
<1>4. ASSUME UNCHANGED vars PROVE Shape
  BY <1>4, QueueGrows DEF vars, threadVars
<1> HIDE DEF Shape
<1>5. Shape \/ (\E o \in Objects : Reconcile(o)) \/ Crash \/ \E t \in Threads : DeletePanics(t)
  BY <1>1, <1>2, <1>3, <1>4, NextCases
<1> QED
  BY <1>5 DEF Shape, Kept

(* An object that goes while the worker has it read is not owed: a later   *)
(* delete event puts it into the queue.                                    *)
LEMMA GoneRequeuedStep ==
    ASSUME IInv, [Next]_vars
    PROVE  GoneRequeued'
<1>0. ThreadsOK /\ ReadOK /\ SetsOK /\ GoneRequeued
  BY TypeParts DEF IInv
<1>a. "worker" \in Threads /\ "gc" \in Threads /\ "worker" # "gc"
  BY DEF Threads
<1>1. CASE \E o \in Objects : Reconcile(o)
  BY <1>0, <1>a, <1>1 DEF Reconcile, Take, GoneRequeued, ThreadsOK
<1>2. CASE Crash \/ \E t \in Threads : DeletePanics(t)
  BY <1>2 DEF Crash, DeletePanics, Restart, GoneRequeued, Threads
<1>3. CASE GetByKey("worker") \/ DeleteObject("worker") \/ DeleteRefused("worker")
  <2>1. pc'["worker"] = "delete" => read'["worker"] = "same"
    BY <1>0, <1>a, <1>3 DEF GetByKey, DeleteObject, DeleteRefused, Finish, ThreadsOK
  <2> QED BY <2>1 DEF GoneRequeued
<1>4. CASE /\ queue \subseteq queue'
           /\ \A o \in owed' : o \in owed \/ o \in queue'
           /\ UNCHANGED <<pc["worker"], obj["worker"]>>
           /\ ~\E o \in Objects : Reconcile(o)
           /\ ~Crash /\ ~\E t \in Threads : DeletePanics(t)
           /\ ~(GetByKey("worker") \/ DeleteObject("worker") \/ DeleteRefused("worker"))
  <2>1. read'["worker"] = "gone" => read["worker"] = "gone" \/ obj["worker"] \notin owed'
    <3>1. ASSUME EnvSteps PROVE read'["worker"] = "gone" => read["worker"] = "gone"
      BY <1>0, <1>a, <3>1, EnvFrame
    <3>2. ASSUME \/ ListKubernetes \/ ListExternal \/ CollectEnds \/ UNCHANGED vars
                 \/ \E o \in Objects : Collect(o)
          PROVE  UNCHANGED read
      BY <3>2 DEF ListKubernetes, ListExternal, CollectEnds, Collect, vars, threadVars
    <3>3. ASSUME GetByKey("gc") \/ DeleteRefused("gc")
          PROVE  read'["worker"] = read["worker"]
      BY <1>0, <1>a, <3>3 DEF GetByKey, DeleteRefused, ThreadsOK
    <3>4. ASSUME DeleteObject("gc")
          PROVE  read'["worker"] = read["worker"] \/ obj["worker"] \notin owed'
      BY <1>0, <1>a, <3>4 DEF DeleteObject, ThreadsOK
    <3>5. ASSUME NEW t \in Threads PROVE t = "worker" \/ t = "gc"
      BY DEF Threads
    <3> QED BY <1>4, <3>1, <3>2, <3>3, <3>4, <3>5, NextCases
  <2> QED BY <1>0, <1>4, <2>1 DEF GoneRequeued
<1> QED
  BY <1>1, <1>2, <1>3, <1>4, WorkerKeeps

(* The worker lets go of an object that StorageOS does not have, or has    *)
(* deleted, and puts the others back.                                      *)
LEMMA RetriedStep ==
    ASSUME IInv, [Next]_vars
    PROVE  DeletesRetried'
<1>0. ThreadsOK /\ ReadOK /\ SetsOK /\ GoneRequeued /\ DeletesRetried /\ OwedUnseen
  BY TypeParts DEF IInv
<1>a. "worker" \in Threads
  BY DEF Threads
<1>1. ASSUME NEW o \in Objects, Reconcile(o) PROVE DeletesRetried'
  <2>1. owed' = owed /\ panicked' = panicked /\ queue' = queue \ {o}
    BY <1>1 DEF Reconcile
  <2>2. obj["worker"] = None
    BY <1>0, <1>a, <1>1 DEF Reconcile, ThreadsOK
  <2>3. None \notin owed
    BY <1>0, ConstantsAssumption DEF SetsOK
  <2>4. o \in view \/ obj'["worker"] = o
    BY <1>0, <1>a, <1>1 DEF Reconcile, Take, ThreadsOK
  <2>5. o \in owed => obj'["worker"] = o
    BY <1>0, <2>4 DEF OwedUnseen
  <2> QED BY <1>0, <2>1, <2>2, <2>3, <2>5 DEF DeletesRetried
<1>2. CASE Crash \/ \E t \in Threads : DeletePanics(t)
  BY <1>2 DEF Crash, DeletePanics, DeletesRetried
<1>3. CASE /\ queue \subseteq queue'
           /\ \A o \in owed' : o \in owed \/ o \in queue'
           /\ UNCHANGED panicked
           /\ UNCHANGED obj["worker"]
  BY <1>0, <1>3 DEF DeletesRetried
<1>4. ASSUME obj["worker"] \in owed' => obj["worker"] \in queue',
             queue \subseteq queue', \A o \in owed' : o \in owed \/ o \in queue',
             UNCHANGED panicked
      PROVE  DeletesRetried'
  BY <1>0, <1>4 DEF DeletesRetried
<1>5. ASSUME GetByKey("worker")
      PROVE  \/ UNCHANGED obj["worker"]
             \/ obj["worker"] \in owed' => obj["worker"] \in queue'
  <2>1. owed' = owed
    BY <1>5 DEF GetByKey
  <2>2. CASE obj["worker"] \notin stos
    BY <1>0, <2>1, <2>2 DEF SetsOK
  <2>3. CASE Finish("worker", TRUE)
    BY <2>3 DEF Finish
  <2>4. CASE obj' = obj
    BY <2>4
  <2> QED BY <1>5, <2>2, <2>3, <2>4 DEF GetByKey
<1>6. ASSUME DeleteObject("worker") PROVE obj["worker"] \notin owed'
  BY <1>6 DEF DeleteObject
<1>7. ASSUME DeleteRefused("worker")
      PROVE  obj["worker"] \in owed' => obj["worker"] \in queue'
  <2>1. owed' = owed /\ pc["worker"] = "delete"
    BY <1>7 DEF DeleteRefused
  <2>2. CASE Finish("worker", TRUE)
    BY <2>2 DEF Finish
  <2>3. CASE read["worker"] = "gone" /\ Finish("worker", FALSE)
    BY <1>0, <2>1, <2>3 DEF Finish, GoneRequeued
  <2> QED BY <1>7, <2>2, <2>3 DEF DeleteRefused
<1> QED
  BY <1>1, <1>2, <1>3, <1>4, <1>5, <1>6, <1>7, WorkerKeeps

(* Nothing is added to what a thread is to spare but when it begins. *)
LEMMA EnvKept ==
    ASSUME EnvSteps, KeptOK
    PROVE  KeptOK' /\ \A t \in Threads : kept'[t] \subseteq kept[t]
<1>1. ASSUME NEW o \in Objects, Delete(o)
      PROVE  KeptOK' /\ \A t \in Threads : kept'[t] \subseteq kept[t]
  BY <1>1 DEF Delete, KeptOK
<1>2. ASSUME NEW o \in Objects, \/ Create(o) \/ RegisterCSI(o) \/ Join(o) \/ Use(o)
                                \/ CreateEvent(o) \/ DeleteEvent(o)
      PROVE  UNCHANGED kept
  BY <1>2 DEF Create, RegisterCSI, Join, Use, CreateEvent, DeleteEvent
<1>3. UNCHANGED kept => KeptOK' /\ \A t \in Threads : kept'[t] \subseteq kept[t]
  BY DEF KeptOK
<1> QED
  BY <1>1, <1>2, <1>3 DEF EnvSteps

(* The worker looks at the cache again, and the collector deletes nothing  *)
(* that was in the cache when it began.                                    *)
LEMMA SparedStep ==
    ASSUME IInv, [Next]_vars
    PROVE  KeptOK' /\ GarbageSpares' /\ PresentSpared'
<1> DEFINE Goal == KeptOK' /\ GarbageSpares' /\ PresentSpared'
<1>0. ThreadsOK /\ SetsOK /\ KeptOK /\ NoGarbage /\ GarbageSpares /\ PresentSpared
  BY TypeParts DEF IInv
<1>a. Threads = {"worker", "gc"} /\ None \notin Objects
  BY ConstantsAssumption DEF Threads
<1>1. CASE EnvSteps
  <2>1. UNCHANGED <<pc, obj, listed, garbage>>
    BY <1>0, <1>1, EnvFrame
  <2>2. KeptOK' /\ \A t \in Threads : kept'[t] \subseteq kept[t]
    BY <1>0, <1>1, EnvKept
  <2>3. GarbageSpares'
    BY <1>0, <1>a, <2>1, <2>2 DEF GarbageSpares
  <2>4. PresentSpared'
    BY <1>0, <2>1, <2>2 DEF PresentSpared
  <2> QED BY <2>2, <2>3, <2>4
<1>2. ASSUME NEW o \in Objects, Reconcile(o) PROVE Goal
  <2>1. UNCHANGED <<k8s, view, listed, garbage>>
    BY <1>2 DEF Reconcile
  <2>2. CASE o \in view
    BY <1>0, <1>2, <2>1, <2>2 DEF Reconcile, KeptOK, GarbageSpares, PresentSpared
  <2>3. CASE o \notin view
    <3>1. /\ pc' = [pc EXCEPT !["worker"] = "read"]
          /\ obj' = [obj EXCEPT !["worker"] = o]
          /\ kept' = [kept EXCEPT !["worker"] = k8s \cap view]
      BY <1>2, <2>3 DEF Reconcile, Take, Begin
    <3>2. KeptOK'
      BY <1>0, <3>1 DEF KeptOK, SetsOK
    <3>3. GarbageSpares'
      BY <1>0, <1>a, <2>1, <3>1 DEF GarbageSpares, KeptOK, ThreadsOK
    <3>4. PresentSpared'
      BY <1>0, <1>a, <2>3, <3>1 DEF PresentSpared, KeptOK, ThreadsOK
    <3> QED BY <3>2, <3>3, <3>4
  <2> QED BY <2>2, <2>3
<1>3. CASE ListKubernetes
  <2>1. /\ UNCHANGED <<obj, garbage>> /\ listed' = view
        /\ pc["gc"] = "idle"
        /\ kept' = [kept EXCEPT !["gc"] = k8s \cap view]
    BY <1>3 DEF ListKubernetes, Begin
  <2>2. obj["gc"] = None /\ garbage = {}
    BY <1>0, <1>a, <2>1 DEF ThreadsOK, NoGarbage
  <2>3. KeptOK'
    BY <1>0, <2>1 DEF KeptOK, SetsOK
  <2>4. GarbageSpares'
    BY <1>0, <1>a, <2>1, <2>2 DEF GarbageSpares, KeptOK
  <2>5. PresentSpared'
    BY <1>0, <1>a, <2>1, <2>2 DEF PresentSpared, KeptOK, SetsOK
  <2> QED BY <2>3, <2>4, <2>5
<1>4. CASE ListExternal
  <2>1. /\ UNCHANGED <<obj, kept, listed>> /\ pc["gc"] = "list"
        /\ pc'["gc"] # "list"
        /\ UNCHANGED garbage \/ garbage' = stos \ listed
    BY <1>0, <1>a, <1>4 DEF ListExternal, ThreadsOK
  <2> QED BY <1>0, <2>1 DEF KeptOK, GarbageSpares, PresentSpared
<1>5. ASSUME NEW o \in Objects, Collect(o) PROVE Goal
  <2>1. /\ UNCHANGED <<kept, listed>> /\ o \in garbage /\ garbage' = garbage \ {o}
        /\ pc' = [pc EXCEPT !["gc"] = "read"] /\ obj' = [obj EXCEPT !["gc"] = o]
    BY <1>5 DEF Collect, Take
  <2>2. PresentSpared'
    BY <1>0, <1>a, <2>1 DEF GarbageSpares, PresentSpared, ThreadsOK
  <2>3. GarbageSpares'
    BY <1>0, <1>a, <2>1 DEF GarbageSpares, ThreadsOK
  <2> QED BY <1>0, <2>1, <2>2, <2>3 DEF KeptOK
<1>6. CASE CollectEnds
  <2>1. /\ UNCHANGED obj /\ garbage' = {} /\ kept' = [kept EXCEPT !["gc"] = {}]
    BY <1>6 DEF CollectEnds
  <2> QED BY <1>0, <1>a, <2>1 DEF KeptOK, GarbageSpares, PresentSpared
<1>7. ASSUME NEW t \in Threads, GetByKey(t) \/ DeleteObject(t) \/ DeleteRefused(t)
      PROVE  Goal
  <2>1. UNCHANGED <<kept, listed, garbage>>
    BY <1>7 DEF GetByKey, DeleteObject, DeleteRefused
  <2>2. /\ pc'["gc"] = "list" => pc["gc"] = "list"
        /\ obj' = obj \/ obj' = [obj EXCEPT ![t] = None]
    BY <1>0, <1>a, <1>7 DEF GetByKey, DeleteObject, DeleteRefused, Finish, ThreadsOK
  <2>3. GarbageSpares' /\ KeptOK'
    BY <1>0, <2>1, <2>2 DEF GarbageSpares, KeptOK
  <2>4. PresentSpared'
    <3>1. \A u \in Threads : None \notin kept[u]
      BY <1>0, <1>a DEF KeptOK
    <3>2. \A u \in Threads : obj'[u] = obj[u] \/ obj'[u] = None
      BY <1>0, <2>2 DEF ThreadsOK
    <3> QED BY <1>0, <2>1, <3>1, <3>2 DEF PresentSpared
  <2> QED BY <2>3, <2>4
<1>8. CASE Crash \/ \E t \in Threads : DeletePanics(t)
  BY <1>a, <1>8 DEF Crash, DeletePanics, Restart, KeptOK, GarbageSpares, PresentSpared
<1>9. CASE UNCHANGED vars
  BY <1>0, <1>9 DEF vars, threadVars, KeptOK, GarbageSpares, PresentSpared
<1> QED
  BY <1>1, <1>2, <1>3, <1>4, <1>5, <1>6, <1>7, <1>8, <1>9, NextCases

-----------------------------------------------------------------------------
(* The inductive invariant: with the types, what is owed is not in the     *)
(* informer's cache (OwedUnseen), so that Reconcile does not skip it, and  *)
(* an object that the collector deleted under the worker's hands is owed   *)
(* again only if it is in the queue again (GoneRequeued); and what the     *)
(* collector found in the cache is not among its garbage (GarbageSpares).  *)
THEOREM DeletesInductive == Spec => []IInv
<1>1. Init => IInv
  <2> SUFFICES ASSUME Init PROVE IInv
    OBVIOUS
  <2>1. SetsOK
    BY DEF Init, SetsOK
  <2>2. ThreadsOK /\ ReadOK
    BY DEF Init, ThreadsOK, ReadOK, Threads
  <2>3. FlagsOK
    BY DEF Init, FlagsOK
  <2>4. NoGarbage /\ OwedUnseen /\ GoneRequeued /\ DeletesRetried
    BY DEF Init, NoGarbage, OwedUnseen, GoneRequeued, DeletesRetried
  <2>5. KeptOK /\ GarbageSpares /\ PresentSpared
    BY DEF Init, KeptOK, GarbageSpares, PresentSpared, Threads
  <2> QED BY <2>1, <2>2, <2>3, <2>4, <2>5, TypeParts DEF IInv
<1>2. IInv /\ [Next]_vars => IInv'
  <2> SUFFICES ASSUME IInv, [Next]_vars PROVE IInv'
    OBVIOUS
  <2>1. TypeOK'
    BY SetsStep, ThreadsStep, ReadStep, FlagsStep, SparedStep, NoGarbageStep
       DEF TypeOK, SetsOK, ThreadsOK, ReadOK, FlagsOK, KeptOK, NoGarbage
  <2> QED BY <2>1, NoGarbageStep, OwedUnseenStep, GoneRequeuedStep, RetriedStep,
             SparedStep DEF IInv
<1> QED
  BY <1>1, <1>2, PTL DEF Spec

(* Every variable keeps its type: in particular a deletion in progress is  *)
(* of an object that StorageOS has, unless it is known to be gone.         *)
THEOREM DeletesTypeCorrect == Spec => []TypeOK
BY DeletesInductive, PTL DEF IInv

(* The worker of node-delete and namespace-delete has every deletion in    *)
(* its queue or at hand until StorageOS has made it, while the collector   *)
(* deletes beside it, unless the process was brought down.                 *)
THEOREM NoDeleteDropped == Spec => []DeletesRetried
BY DeletesInductive, PTL DEF IInv

(* Neither the worker nor the collector of node-delete and                 *)
(* namespace-delete sets out to delete an object that Kubernetes and the   *)
(* informer have had ever since it began, however late in its round the    *)
(* collector comes to it.                                                  *)
THEOREM PresentNeverTaken == Spec => []PresentSpared
BY DeletesInductive, PTL DEF IInv

=============================================================================
