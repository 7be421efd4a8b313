-------------------------- MODULE KeyManagerProofs --------------------------
(***************************************************************************)
(* Proofs about KeyManager, for any number of claims and secrets.          *)
(*                                                                         *)
(* A request decides on what it reads, and what it reads may be old.  That *)
(* this does no harm rests on two facts about the cache: it has nothing    *)
(* that was not there, and since secrets are not changed, what it has of   *)
(* the namespace secret is that secret until users delete it.              *)
(***************************************************************************)
EXTENDS KeyManager, TLAPS

(* What the cache has is there, or users deleted it; and it is the same.   *)
CacheBehind ==
    /\ \A n \in Names : cached[n] # None => n \in removed \/ secrets[n] # None
    /\ cached[NsName] # None => NsName \in removed \/ cached[NsName] = secrets[NsName]

(* The namespace key that a request has at hand is the one that is stored. *)
KeyAtHand ==
    \A c \in Claims :
        pc[c] = "createVolume" =>
            \/ NsName \in removed
            \/ secrets[NsName] # None /\ DecodeString(nsKey[c]) = secrets[NsName].key

(* The secrets that requests name hold wrapped keys. *)
GeneratedWrapped ==
    \A n \in Generated : secrets[n] # None => secrets[n].vuk # None

(* A request that is done with its keys has a secret. *)
KeysDone ==
    \A c \in Claims :
        pc[c] \in {"class", "admitted"} /\ ~Skips(c) =>
            ref[c] # None /\ (ref[c] \in removed \/ secrets[ref[c]] # None)

IInv ==
    /\ TypeOK
    /\ CacheBehind
    /\ KeyAtHand
    /\ GeneratedWrapped
    /\ KeysDone
    /\ VolumeKeysReadable

-----------------------------------------------------------------------------
(* Types.                                                                  *)

(* Fresh bytes are bytes, for NewBytes. *)
LEMMA NewBytesType ==
    ASSUME TypeOK, NEW kind \in {"user", "vmk", "iv"}, NEW n \in Names
    PROVE  NewBytes(kind, n) \in Bytes
BY DEF TypeOK, NewBytes, Random, Bytes

(* The secrets that requests and users make are secrets, for UserSecret. *)
LEMMA UserSecretType ==
    ASSUME NEW k \in Bytes \cup {None}
    PROVE  UserSecret(k) \in Secrets /\ UserSecret(k) # None /\ UserSecret(k).vuk = None
           /\ UserSecret(k).key = k
BY ConstantsAssumption DEF UserSecret, Secrets

(* A volume secret is a secret, and is wrapped, for VolumeSecret. *)
LEMMA VolumeSecretType ==
    ASSUME NEW v \in Bytes, NEW iv \in Bytes, NEW k \in Bytes
    PROVE  /\ VolumeSecret(v, iv, k) \in Secrets /\ VolumeSecret(v, iv, k) # None
           /\ VolumeSecret(v, iv, k).vuk # None
<1>1. Encrypt(v, CreateIK(k, iv)) \in Ciphertexts
  BY DEF Encrypt, CreateIK, Ciphertexts
<1> QED
  BY <1>1, ConstantsAssumption DEF VolumeSecret, Secrets, CreateHMAC

(* A volume secret can be read with the key it was made with, for Readable. *)
LEMMA VolumeSecretReadable ==
    ASSUME NEW v, NEW iv, NEW k, NEW ns, ns.key = k
    PROVE  Readable(VolumeSecret(v, iv, k), ns)
BY DEF Readable, VolumeSecret, Encrypt, Decrypt, CreateIK, CreateHMAC, CheckHMAC

(* A denied request leaves all but its own state alone, for Denied. *)
LEMMA DeniedType ==
    ASSUME TypeOK, NEW c \in Claims, Denied(c), faults' \in Nat
    PROVE  TypeOK'
<1>1. \A d \in Claims :
         /\ pc'[d] = (IF d = c THEN IF c \in ignored THEN "unheard" ELSE "new" ELSE pc[d])
         /\ ref'[d] = (IF d = c THEN None ELSE ref[d])
         /\ nsKey'[d] = (IF d = c THEN None ELSE nsKey[d])
  BY DEF TypeOK, Denied, Answer, Goto
<1>2. /\ pc' \in [Claims -> RequestPC]
      /\ ref' \in [Claims -> Named \cup Generated \cup {None}]
      /\ nsKey' \in [Claims -> [hex : Bytes] \cup {None}]
  BY DEF TypeOK, Denied, Answer, Goto, RequestPC
<1>3. UNCHANGED <<userVars, viewVars, ignored, made>>
  BY DEF Denied
<1> QED
  BY <1>1, <1>2, <1>3 DEF TypeOK, userVars, viewVars

(* Where only a request's place, name and key change, and in accord with   *)
(* each other, types are kept, for Goto.                                   *)
LEMMA GotoType ==
    ASSUME TypeOK, NEW c \in Claims, NEW where \in RequestPC, Goto(c, where),
           ref' \in [Claims -> Named \cup Generated \cup {None}],
           nsKey' \in [Claims -> [hex : Bytes] \cup {None}],
           \A d \in Claims \ {c} : ref'[d] = ref[d] /\ nsKey'[d] = nsKey[d],
           where \in {"volume", "namespace", "createNamespace", "createVolume"} => ref'[c] # None,
           nsKey'[c] # None <=> where = "createVolume",
           where = "unheard" => c \in ignored,
           where \in {"new", "admitted"} => c \notin ignored,
           secrets' \in [Names -> Secrets \cup {None}],
           made' \in [Names -> Nat],
           UNCHANGED <<asks, classes, removed, env, viewVars, ignored>>, faults' \in Nat
    PROVE  TypeOK'
<1>1. \A d \in Claims : pc'[d] = (IF d = c THEN where ELSE pc[d])
  BY DEF TypeOK, Goto
<1>2. pc' \in [Claims -> RequestPC]
  BY DEF TypeOK, Goto
<1>3. \A d \in Claims :
         /\ pc'[d] \in {"volume", "namespace", "createNamespace", "createVolume"} => ref'[d] # None
         /\ nsKey'[d] # None <=> pc'[d] = "createVolume"
         /\ pc'[d] = "unheard" => d \in ignored
         /\ pc'[d] \in {"new", "admitted"} => d \notin ignored
  BY <1>1 DEF TypeOK
<1> QED
  BY <1>2, <1>3 DEF TypeOK, viewVars

(* The counters of calls that fail and of keys, for Fault and Make. *)
LEMMA CountersType ==
    ASSUME TypeOK
    PROVE  /\ Fault => faults' \in Nat
           /\ NoFault => faults' \in Nat
           /\ \A c \in Claims : CallError(c) => faults' \in Nat
           /\ \A n \in Names : Make(n) => made' \in [Names -> Nat]
BY DEF TypeOK, Fault, NoFault, CallError, Make

(* Every step keeps the types, for TypeOK. *)
LEMMA TypeStep ==
    ASSUME TypeOK, [Next]_vars
    PROVE  TypeOK'
<1>1. CASE UNCHANGED vars
  BY <1>1 DEF TypeOK, vars, userVars, viewVars
<1>2. ASSUME NEW n \in Names, UserCreates(n)
      PROVE  TypeOK'
  <2>1. PICK k \in {None, NewBytes("user", n)} : secrets' = [secrets EXCEPT ![n] = UserSecret(k)]
    BY Zenon, <1>2 DEF UserCreates
  <2>2. secrets' \in [Names -> Secrets \cup {None}]
    BY <2>1, NewBytesType, UserSecretType DEF TypeOK
  <2>3. made' \in [Names -> Nat]
    BY <1>2, CountersType DEF UserCreates
  <2>4. /\ UNCHANGED <<asks, classes, cached, classView, pc, ignored, ref, nsKey, faults, removed>>
        /\ env' \in Nat
    BY <1>2 DEF UserCreates, EnvStep, viewVars, TypeOK
  <2> QED
    BY <2>2, <2>3, <2>4 DEF TypeOK
<1>3. ASSUME NEW n \in Names, UserDeletes(n)
      PROVE  TypeOK'
  BY <1>3 DEF TypeOK, UserDeletes, EnvStep, viewVars
<1>4. ASSUME NEW n \in Names, SecretEvent(n)
      PROVE  TypeOK'
  BY <1>4 DEF TypeOK, SecretEvent, userVars
<1>5. ASSUME NEW c \in Claims, Handle(c)
      PROVE  TypeOK'
  <2>1. CASE MutatePVC(c)
    <3>1. CASE Skips(c) /\ NoFault /\ Goto(c, "class") /\ UNCHANGED ref
      BY <2>1, <3>1, GotoType, CountersType DEF MutatePVC, userVars, TypeOK, RequestPC
    <3>2. CASE /\ ~Skips(c) /\ ~Invalid(c)
               /\ NoFault
               /\ Goto(c, "volume")
               /\ asks[c].ref = None => NewNames # {}
               /\ ref' = [ref EXCEPT ![c] = IF asks[c].ref # None THEN asks[c].ref
                                            ELSE GenerateVolumeSecretName]
      <4>1. NewNames # {} => GenerateVolumeSecretName \in Generated
        BY DEF GenerateVolumeSecretName, NewNames
      <4>2. asks[c].ref \in Named \cup {None}
        BY DEF TypeOK, Asks
      <4>3. PICK n \in Named \cup Generated : ref' = [ref EXCEPT ![c] = n]
        BY Zenon, <3>2, <4>1, <4>2
      <4>4. n # None
        BY ConstantsAssumption DEF Names
      <4>5. /\ ref' \in [Claims -> Named \cup Generated \cup {None}]
            /\ ref'[c] # None
            /\ \A d \in Claims \ {c} : ref'[d] = ref[d]
        BY <4>3, <4>4 DEF TypeOK
      <4>6. UNCHANGED <<asks, classes, viewVars, ignored, nsKey, made, secrets, removed, env>>
        BY <2>1 DEF MutatePVC, userVars
      <4>7. nsKey[c] = None
        BY <2>1 DEF MutatePVC, TypeOK
      <4> QED
        BY <3>2, <4>5, <4>6, <4>7, GotoType, CountersType DEF TypeOK, RequestPC
    <3> QED
      BY <2>1, <3>1, <3>2 DEF MutatePVC
  <2>2. CASE MutatePVCFails(c)
    BY <2>2, DeniedType, CountersType DEF MutatePVCFails
  <2>3. CASE Ensure(c)
    <3>1. CASE /\ NoFault
               /\ Goto(c, IF Get(ref[c]) # None THEN "class" ELSE "namespace")
               /\ UNCHANGED <<userVars, viewVars, ignored, ref, nsKey, made>>
      <4>1. UNCHANGED <<asks, classes, viewVars, ignored, ref, nsKey, made, secrets, removed, env>>
        BY <3>1 DEF userVars
      <4>2. nsKey[c] = None /\ ref[c] # None
        BY <2>3 DEF Ensure, TypeOK
      <4>3. CASE Goto(c, "class")
        BY <3>1, <4>1, <4>2, <4>3, GotoType, CountersType DEF TypeOK, RequestPC
      <4>4. CASE Goto(c, "namespace")
        BY <3>1, <4>1, <4>2, <4>4, GotoType, CountersType DEF TypeOK, RequestPC
      <4> QED
        BY <3>1, <4>3, <4>4
    <3> QED
      BY <2>3, <3>1, DeniedType, CountersType DEF Ensure
  <2>4. CASE EnsureNamespaceKey(c)
    <3> DEFINE s == Get(NsName)
    <3>1. CASE /\ NoFault
               /\ Goto(c, "createNamespace")
               /\ UNCHANGED <<userVars, viewVars, ignored, ref, nsKey, made>>
      <4>1. UNCHANGED <<asks, classes, viewVars, ignored, ref, nsKey, made, secrets, removed, env>>
        BY <3>1 DEF userVars
      <4>2. nsKey[c] = None /\ ref[c] # None
        BY <2>4 DEF EnsureNamespaceKey, TypeOK
      <4> QED
        BY <3>1, <4>1, <4>2, GotoType, CountersType DEF TypeOK, RequestPC
    <3>2. CASE /\ s # None /\ s.key # None
               /\ NoFault
               /\ Goto(c, "createVolume")
               /\ nsKey' = [nsKey EXCEPT ![c] = EncodeToString(s.key)]
               /\ UNCHANGED <<userVars, viewVars, ignored, ref, made>>
      <4>1. UNCHANGED <<asks, classes, viewVars, ignored, ref, made, secrets, removed, env>>
        BY <3>2 DEF userVars
      <4>2. s \in Secrets
        BY <3>2 DEF Get, TypeOK, Names
      <4>3. s.key \in Bytes
        BY <3>2, <4>2 DEF Secrets
      <4>4. EncodeToString(s.key) \in [hex : Bytes] /\ EncodeToString(s.key) # None
        BY <4>3, ConstantsAssumption DEF EncodeToString
      <4>5. /\ nsKey' \in [Claims -> [hex : Bytes] \cup {None}]
            /\ nsKey'[c] # None
            /\ \A d \in Claims \ {c} : nsKey'[d] = nsKey[d]
        BY <3>2, <4>4 DEF TypeOK
      <4>6. ref[c] # None
        BY <2>4 DEF EnsureNamespaceKey, TypeOK
      <4> QED
        BY Zenon, <3>2, <4>1, <4>5, <4>6, GotoType, CountersType DEF TypeOK, RequestPC
    <3> QED
      BY <2>4, <3>1, <3>2, DeniedType, CountersType DEF EnsureNamespaceKey
  <2>5. CASE CreateNamespaceKey(c)
    <3> DEFINE k == NewBytes("user", NsName)
    <3>1. CASE /\ secrets[NsName] = None
               /\ NoFault
               /\ secrets' = [secrets EXCEPT ![NsName] = UserSecret(k)]
               /\ Make(NsName)
               /\ nsKey' = [nsKey EXCEPT ![c] = EncodeToString(k)]
               /\ Goto(c, "createVolume")
               /\ UNCHANGED <<asks, classes, removed, env, viewVars, ignored, ref>>
      <4>1. NsName \in Names /\ k \in Bytes
        BY NewBytesType DEF Names
      <4>2. secrets' \in [Names -> Secrets \cup {None}] /\ made' \in [Names -> Nat]
        BY <3>1, <4>1, UserSecretType, CountersType DEF TypeOK
      <4>3. EncodeToString(k) \in [hex : Bytes] /\ EncodeToString(k) # None
        BY <4>1, ConstantsAssumption DEF EncodeToString
      <4>4. /\ nsKey' \in [Claims -> [hex : Bytes] \cup {None}]
            /\ nsKey'[c] # None
            /\ \A d \in Claims \ {c} : nsKey'[d] = nsKey[d]
        BY <3>1, <4>3 DEF TypeOK
      <4>5. ref[c] # None
        BY <2>5 DEF CreateNamespaceKey, TypeOK
      <4> QED
        BY <3>1, <4>2, <4>4, <4>5, GotoType, CountersType DEF TypeOK, RequestPC
    <3> QED
      BY <2>5, <3>1, DeniedType, CountersType DEF CreateNamespaceKey
  <2>6. CASE CreateVolumeKey(c)
    <3>1. CASE /\ secrets[ref[c]] = None
               /\ NoFault
               /\ secrets' = [secrets EXCEPT ![ref[c]] = NewVolumeSecret(c)]
               /\ Make(ref[c])
               /\ nsKey' = [nsKey EXCEPT ![c] = None]
               /\ Goto(c, "class")
               /\ UNCHANGED <<asks, classes, removed, env, viewVars, ignored, ref>>
      <4>1. ref[c] \in Names /\ nsKey[c] \in [hex : Bytes]
        BY <2>6 DEF CreateVolumeKey, TypeOK, Names
      <4>2. NewVolumeSecret(c) \in Secrets
        BY <4>1, NewBytesType, VolumeSecretType DEF NewVolumeSecret, DecodeString
      <4>3. secrets' \in [Names -> Secrets \cup {None}] /\ made' \in [Names -> Nat]
        BY <3>1, <4>1, <4>2, CountersType DEF TypeOK
      <4>4. /\ nsKey' \in [Claims -> [hex : Bytes] \cup {None}]
            /\ nsKey'[c] = None
            /\ \A d \in Claims \ {c} : nsKey'[d] = nsKey[d]
        BY <3>1 DEF TypeOK
      <4> QED
        BY <3>1, <4>3, <4>4, GotoType, CountersType DEF TypeOK, RequestPC
    <3> QED
      BY <2>6, <3>1, DeniedType, CountersType DEF CreateVolumeKey
  <2>7. CASE AnnotateClass(c)
    <3>1. UNCHANGED <<asks, classes, viewVars, ignored, ref, nsKey, made, secrets, removed, env>>
      BY <2>7 DEF AnnotateClass, userVars
    <3>2. nsKey[c] = None
      BY <2>7 DEF AnnotateClass, TypeOK
    <3> QED
      BY <2>7, <3>1, <3>2, GotoType, CountersType DEF AnnotateClass, Answer, TypeOK, RequestPC
  <2>8. CASE AnnotateClassFails(c)
    BY <2>8, DeniedType, CountersType DEF AnnotateClassFails
  <2> QED
    BY <1>5, <2>1, <2>2, <2>3, <2>4, <2>5, <2>6, <2>7, <2>8 DEF Handle
<1>6. ASSUME NEW k \in Classes, ClassChanges(k) \/ ClassEvent(k)
      PROVE  TypeOK'
  BY <1>6 DEF TypeOK, ClassChanges, ClassEvent, EnvStep, userVars, viewVars
<1>7. ASSUME NEW c \in Claims, CallFails(c)
      PROVE  TypeOK'
  <2>1. UNCHANGED <<userVars, viewVars, ref, nsKey, made>> /\ faults' \in Nat
    BY <1>7, CountersType DEF CallFails
  <2>2. /\ ignored' = ignored \cup {c}
        /\ \A d \in Claims : pc'[d] = IF d = c /\ pc[c] = "new" THEN "unheard" ELSE pc[d]
        /\ pc' \in [Claims -> RequestPC]
        /\ pc[c] # "admitted"
    BY <1>7 DEF CallFails, Goto, Busy, TypeOK, RequestPC
  <2> QED
    BY <2>1, <2>2 DEF TypeOK, userVars, viewVars
<1>8. CASE Crash
  <2>1. UNCHANGED <<userVars, made>> /\ faults' \in Nat /\ cached' = secrets /\ classView' = classes
    BY <1>8, CountersType DEF Crash
  <2>2. /\ ignored' = ignored \cup {c \in Claims : Busy(c)}
        /\ pc' = [c \in Claims |-> IF Busy(c) THEN "unheard" ELSE pc[c]]
        /\ ref' = [c \in Claims |-> IF Busy(c) THEN None ELSE ref[c]]
        /\ nsKey' = [c \in Claims |-> None]
    BY <1>8 DEF Crash
  <2> QED
    BY <2>1, <2>2 DEF TypeOK, Busy, RequestPC, userVars
<1> QED
  BY <1>1, <1>2, <1>3, <1>4, <1>5, <1>6, <1>7, <1>8 DEF Next

-----------------------------------------------------------------------------
(* What a step does to secrets.                                            *)

(* A step writes one secret where there was none, which is not wrapped or  *)
(* is what CreateVolumeKey makes, or a user deletes one, or secrets stay.  *)
LEMMA SecretsStep ==
    ASSUME TypeOK, [Next]_vars
    PROVE  \/ UNCHANGED <<secrets, removed>>
           \/ /\ UNCHANGED removed
              /\ \E n \in Names, s \in Secrets :
                    /\ secrets[n] = None
                    /\ secrets' = [secrets EXCEPT ![n] = s]
                    /\ \/ s.vuk = None /\ n \notin Generated
                       \/ \E c \in Claims : pc[c] = "createVolume" /\ ref[c] = n
                                            /\ s = NewVolumeSecret(c)
           \/ \E n \in Names :
                    /\ secrets[n] # None
                    /\ secrets' = [secrets EXCEPT ![n] = None]
                    /\ removed' = removed \cup {n}
                    /\ UNCHANGED <<pc, ref, asks>>
<1> DEFINE Kept == UNCHANGED <<secrets, removed>>
           Created == /\ UNCHANGED removed
                      /\ \E n \in Names, s \in Secrets :
                            /\ secrets[n] = None
                            /\ secrets' = [secrets EXCEPT ![n] = s]
                            /\ \/ s.vuk = None /\ n \notin Generated
                               \/ \E c \in Claims : pc[c] = "createVolume" /\ ref[c] = n
                                                    /\ s = NewVolumeSecret(c)
           Deleted == \E n \in Names :
                            /\ secrets[n] # None
                            /\ secrets' = [secrets EXCEPT ![n] = None]
                            /\ removed' = removed \cup {n}
                            /\ UNCHANGED <<pc, ref, asks>>
<1> SUFFICES Kept \/ Created \/ Deleted
  OBVIOUS
<1> HIDE DEF Kept, Created, Deleted
<1>1. CASE UNCHANGED vars
  BY <1>1 DEF vars, userVars, Kept
<1>2. ASSUME NEW n \in Names, UserCreates(n)
      PROVE  Created
  <2>1. PICK k \in {None, NewBytes("user", n)} : secrets' = [secrets EXCEPT ![n] = UserSecret(k)]
    BY Zenon, <1>2 DEF UserCreates
  <2>2. UserSecret(k) \in Secrets /\ UserSecret(k).vuk = None
    BY NewBytesType, UserSecretType
  <2>3. secrets[n] = None /\ UNCHANGED removed /\ n \notin Generated
    BY <1>2, ConstantsAssumption DEF UserCreates
  <2> QED
    BY Zenon, <2>1, <2>2, <2>3 DEF Created
<1>3. ASSUME NEW n \in Names, UserDeletes(n)
      PROVE  Deleted
  BY Zenon, <1>3 DEF UserDeletes, EnvStep, Deleted
<1>4. ASSUME NEW n \in Names, SecretEvent(n)
      PROVE  Kept
  BY <1>4 DEF SecretEvent, userVars, Kept
<1>5. ASSUME NEW c \in Claims, Handle(c)
      PROVE  Kept \/ Created
  <2>1. CASE Denied(c)
    BY <2>1 DEF Denied, userVars, Kept
  <2>2. CASE MutatePVC(c) \/ MutatePVCFails(c) \/ AnnotateClass(c) \/ AnnotateClassFails(c)
    BY <2>1, <2>2 DEF MutatePVC, MutatePVCFails, AnnotateClass, AnnotateClassFails, userVars, Kept
  <2>3. CASE Ensure(c) \/ EnsureNamespaceKey(c)
    BY <2>1, <2>3 DEF Ensure, EnsureNamespaceKey, userVars, Kept
  <2>4. CASE CreateNamespaceKey(c)
    <3>1. NsName \in Names \ Generated /\ NewBytes("user", NsName) \in Bytes
      BY NewBytesType, ConstantsAssumption DEF Names
    <3>2. /\ UserSecret(NewBytes("user", NsName)) \in Secrets
          /\ UserSecret(NewBytes("user", NsName)).vuk = None
      BY <3>1, UserSecretType
    <3> QED
      BY <2>1, <2>4, <3>1, <3>2 DEF CreateNamespaceKey, Created
  <2>5. CASE CreateVolumeKey(c)
    <3>1. ref[c] \in Names /\ nsKey[c] \in [hex : Bytes]
      BY <2>5 DEF CreateVolumeKey, TypeOK, Names
    <3>2. NewVolumeSecret(c) \in Secrets
      BY <3>1, NewBytesType, VolumeSecretType DEF NewVolumeSecret, DecodeString
    <3> QED
      BY <2>1, <2>5, <3>1, <3>2 DEF CreateVolumeKey, Created
  <2> QED
    BY <1>5, <2>2, <2>3, <2>4, <2>5 DEF Handle
<1>6. ASSUME NEW k \in Classes, ClassChanges(k) \/ ClassEvent(k)
      PROVE  Kept
  BY <1>6 DEF ClassChanges, ClassEvent, userVars, Kept
<1>7. ASSUME NEW c \in Claims, CallFails(c)
      PROVE  Kept
  BY <1>7 DEF CallFails, userVars, Kept
<1>8. Crash => Kept
  BY DEF Crash, userVars, Kept
<1> QED
  BY <1>1, <1>2, <1>3, <1>4, <1>5, <1>6, <1>7, <1>8 DEF Next

(* A secret that is there stays as it is unless users delete it, and what  *)
(* they deleted is remembered, for every step.                             *)
LEMMA SecretsStay ==
    ASSUME TypeOK, [Next]_vars
    PROVE  /\ removed \subseteq removed'
           /\ \A n \in Names : secrets[n] # None =>
                 secrets'[n] = secrets[n] \/ (secrets'[n] = None /\ n \in removed')
<1>1. DOMAIN secrets = Names
  BY DEF TypeOK
<1> QED
  BY <1>1, SecretsStep

(* A request's own state changes only when it is handled, or when it is    *)
(* dropped, for Handle.                                                    *)
LEMMA OthersStay ==
    ASSUME TypeOK, [Next]_vars, NEW c \in Claims, ~Handle(c), pc'[c] # "unheard"
    PROVE  pc'[c] = pc[c] /\ ref'[c] = ref[c] /\ nsKey'[c] = nsKey[c]
<1>1. CASE UNCHANGED vars
  BY <1>1 DEF vars
<1>2. ASSUME NEW n \in Names, UserCreates(n) \/ UserDeletes(n) \/ SecretEvent(n)
      PROVE  UNCHANGED <<pc, ref, nsKey>>
  BY <1>2 DEF UserCreates, UserDeletes, SecretEvent, EnvStep
<1>3. ASSUME NEW k \in Classes, ClassChanges(k) \/ ClassEvent(k)
      PROVE  UNCHANGED <<pc, ref, nsKey>>
  BY <1>3 DEF ClassChanges, ClassEvent, EnvStep
<1>4. ASSUME NEW d \in Claims, Handle(d)
      PROVE  pc'[c] = pc[c] /\ ref'[c] = ref[c] /\ nsKey'[c] = nsKey[c]
  <2>1. c # d
    BY <1>4
  <2>2. CASE Denied(d)
    BY <2>1, <2>2 DEF Denied, Answer, Goto, TypeOK
  <2>3. CASE MutatePVC(d) \/ MutatePVCFails(d)
    BY <2>1, <2>2, <2>3 DEF MutatePVC, MutatePVCFails, Goto, TypeOK
  <2>4. CASE Ensure(d) \/ EnsureNamespaceKey(d)
    BY <2>1, <2>2, <2>4 DEF Ensure, EnsureNamespaceKey, Goto, TypeOK
  <2>5. CASE CreateNamespaceKey(d) \/ CreateVolumeKey(d)
    BY <2>1, <2>2, <2>5 DEF CreateNamespaceKey, CreateVolumeKey, Goto, TypeOK
  <2>6. CASE AnnotateClass(d) \/ AnnotateClassFails(d)
    BY <2>1, <2>2, <2>6 DEF AnnotateClass, AnnotateClassFails, Answer, Goto, TypeOK
  <2> QED
    BY <1>4, <2>3, <2>4, <2>5, <2>6 DEF Handle
<1>5. ASSUME NEW d \in Claims, CallFails(d)
      PROVE  pc'[c] = pc[c] /\ ref'[c] = ref[c] /\ nsKey'[c] = nsKey[c]
  BY <1>5 DEF CallFails, Goto, TypeOK
<1>6. CASE Crash
  BY <1>6 DEF Crash, Busy, TypeOK
<1> QED
  BY <1>1, <1>2, <1>3, <1>4, <1>5, <1>6 DEF Next

(* Once admitted, a claim keeps its annotation, for every step. *)
LEMMA AdmittedStays ==
    ASSUME TypeOK, [Next]_vars, NEW c \in Claims, pc[c] = "admitted"
    PROVE  pc'[c] = "admitted" /\ ref'[c] = ref[c]
<1>1. ~Handle(c)
  BY Zenon DEF Handle, MutatePVC, MutatePVCFails, Ensure, EnsureNamespaceKey, CreateNamespaceKey,
     CreateVolumeKey, AnnotateClass, AnnotateClassFails
<1>2. CASE pc'[c] # "unheard"
  BY <1>1, <1>2, OthersStay
<1>3. CASE \E d \in Claims : CallFails(d)
  BY <1>3 DEF CallFails, Goto, Busy, TypeOK
<1>4. CASE Crash
  BY <1>4 DEF Crash, Busy
<1>5. ASSUME NEW d \in Claims, Handle(d)
      PROVE  pc'[c] = pc[c]
  <2>1. c # d
    BY <1>1, <1>5
  <2>2. \E where : Goto(d, where)
    BY Zenon, <1>5 DEF Handle, MutatePVC, MutatePVCFails, Ensure, EnsureNamespaceKey, CreateNamespaceKey,
       CreateVolumeKey, AnnotateClass, AnnotateClassFails, Denied, Answer
  <2> QED
    BY <2>1, <2>2 DEF Goto, TypeOK
<1>6. ASSUME NEW n \in Names, UserCreates(n) \/ UserDeletes(n) \/ SecretEvent(n)
      PROVE  pc' = pc
  BY <1>6 DEF UserCreates, UserDeletes, SecretEvent, EnvStep
<1>7. ASSUME NEW k \in Classes, ClassChanges(k) \/ ClassEvent(k)
      PROVE  pc' = pc
  BY <1>7 DEF ClassChanges, ClassEvent, EnvStep
<1> QED
  BY <1>2, <1>3, <1>4, <1>5, <1>6, <1>7 DEF Next, vars

(* What users ask for is not changed, for every step. *)
LEMMA AsksStay ==
    ASSUME [Next]_vars
    PROVE  asks' = asks
<1>1. ASSUME NEW c \in Claims, Handle(c)
      PROVE  asks' = asks
  BY Zenon, <1>1 DEF Handle, MutatePVC, MutatePVCFails, Ensure, EnsureNamespaceKey, CreateNamespaceKey,
     CreateVolumeKey, AnnotateClass, AnnotateClassFails, Denied, userVars
<1>2. ASSUME NEW n \in Names, UserCreates(n) \/ UserDeletes(n) \/ SecretEvent(n)
      PROVE  asks' = asks
  BY <1>2 DEF UserCreates, UserDeletes, SecretEvent, EnvStep, userVars
<1>3. ASSUME NEW k \in Classes, ClassChanges(k) \/ ClassEvent(k)
      PROVE  asks' = asks
  BY <1>3 DEF ClassChanges, ClassEvent, EnvStep, userVars
<1>4. ASSUME NEW c \in Claims, CallFails(c)
      PROVE  asks' = asks
  BY <1>4 DEF CallFails, userVars
<1>5. Crash => asks' = asks
  BY DEF Crash, userVars
<1> QED
  BY <1>1, <1>2, <1>3, <1>4, <1>5 DEF Next, vars, userVars

-----------------------------------------------------------------------------
(* The inductive invariant.                                                *)

(* The cache changes by events only, for CacheBehind. *)
LEMMA CacheStep ==
    ASSUME TypeOK, CacheBehind, [Next]_vars
    PROVE  CacheBehind'
<1>0. NsName \in Names /\ cached \in [Names -> Secrets \cup {None}]
  BY DEF Names, TypeOK
<1>1. ASSUME cached' = cached
      PROVE  CacheBehind'
  BY <1>0, <1>1, SecretsStay DEF CacheBehind
<1>2. ASSUME NEW n \in Names, SecretEvent(n)
      PROVE  CacheBehind'
  <2>1. cached' = [cached EXCEPT ![n] = secrets[n]] /\ UNCHANGED <<secrets, removed>>
    BY <1>2 DEF SecretEvent, userVars
  <2> QED
    BY <1>0, <2>1 DEF CacheBehind
<1>3. ASSUME NEW n \in Names, UserCreates(n) \/ UserDeletes(n)
      PROVE  cached' = cached
  BY <1>3 DEF UserCreates, UserDeletes, EnvStep, viewVars
<1>4. ASSUME NEW c \in Claims, Handle(c)
      PROVE  cached' = cached
  BY Zenon, <1>4 DEF Handle, MutatePVC, MutatePVCFails, Ensure, EnsureNamespaceKey, CreateNamespaceKey,
     CreateVolumeKey, AnnotateClass, AnnotateClassFails, Denied, viewVars
<1>5. ASSUME NEW k \in Classes, ClassChanges(k) \/ ClassEvent(k)
      PROVE  cached' = cached
  BY <1>5 DEF ClassChanges, ClassEvent, EnvStep, viewVars
<1>6. ASSUME NEW c \in Claims, CallFails(c)
      PROVE  cached' = cached
  BY <1>6 DEF CallFails, viewVars
<1>7. CASE Crash
  <2>1. cached' = secrets /\ UNCHANGED secrets
    BY <1>7 DEF Crash, userVars
  <2> QED
    BY <1>0, <2>1 DEF CacheBehind
<1> QED
  BY <1>1, <1>2, <1>3, <1>4, <1>5, <1>6, <1>7 DEF Next, vars, viewVars

(* A request comes to a namespace key by reading or by creating it, for    *)
(* KeyAtHand.                                                              *)
LEMMA KeyAtHandStep ==
    ASSUME TypeOK, CacheBehind, KeyAtHand, [Next]_vars
    PROVE  KeyAtHand'
<1> SUFFICES ASSUME NEW c \in Claims, pc'[c] = "createVolume", NsName \notin removed'
             PROVE  secrets'[NsName] # None /\ DecodeString(nsKey'[c]) = secrets'[NsName].key
  BY DEF KeyAtHand, DecodeString
<1>0. NsName \in Names /\ NsName \notin removed
  BY SecretsStay DEF Names
<1>1. CASE ~Handle(c)
  BY <1>0, <1>1, SecretsStay, OthersStay DEF KeyAtHand
<1>2. CASE Handle(c)
  <2>1. ASSUME Denied(c) PROVE FALSE
    BY <2>1 DEF Denied, Answer, Goto, TypeOK
  <2>2. EnsureNamespaceKey(c) \/ CreateNamespaceKey(c)
    <3>1. ~(MutatePVC(c) \/ MutatePVCFails(c) \/ Ensure(c))
      BY <2>1 DEF MutatePVC, MutatePVCFails, Ensure, Goto, TypeOK
    <3>2. ~(CreateVolumeKey(c) \/ AnnotateClass(c) \/ AnnotateClassFails(c))
      BY <2>1 DEF CreateVolumeKey, AnnotateClass, AnnotateClassFails, Answer, Goto, TypeOK
    <3> QED
      BY <1>2, <3>1, <3>2 DEF Handle
  <2>3. CASE EnsureNamespaceKey(c)
    <3> DEFINE s == Get(NsName)
    <3>1. pc'[c] # "createNamespace"
      OBVIOUS
    <3>2. /\ s # None
          /\ nsKey' = [nsKey EXCEPT ![c] = EncodeToString(s.key)]
          /\ UNCHANGED secrets
      BY <2>1, <2>3, <3>1 DEF EnsureNamespaceKey, Goto, TypeOK, userVars
    <3>3. s = secrets[NsName]
      BY <1>0 DEF Get, CacheBehind
    <3>4. nsKey'[c] = EncodeToString(s.key)
      BY <3>2 DEF TypeOK
    <3>5. DecodeString(EncodeToString(s.key)) = s.key
      BY DEF EncodeToString, DecodeString
    <3> QED
      BY <3>2, <3>3, <3>4, <3>5
  <2>4. CASE CreateNamespaceKey(c)
    <3> DEFINE k == NewBytes("user", NsName)
    <3>1. /\ secrets' = [secrets EXCEPT ![NsName] = UserSecret(k)]
          /\ nsKey' = [nsKey EXCEPT ![c] = EncodeToString(k)]
      BY <2>1, <2>4 DEF CreateNamespaceKey
    <3>2. secrets'[NsName] = UserSecret(k) /\ nsKey'[c] = EncodeToString(k)
      BY <1>0, <3>1 DEF TypeOK
    <3>3. UserSecret(k) # None /\ UserSecret(k).key = k
      BY <1>0, NewBytesType, UserSecretType
    <3> QED
      BY <3>2, <3>3 DEF EncodeToString, DecodeString
  <2> QED
    BY <2>2, <2>3, <2>4
<1> QED
  BY <1>1, <1>2

(* A request is done with its keys when it found or created the secret,    *)
(* for KeysDone.                                                           *)
LEMMA KeysDoneStep ==
    ASSUME TypeOK, CacheBehind, KeysDone, [Next]_vars
    PROVE  KeysDone'
<1> SUFFICES ASSUME NEW c \in Claims, pc'[c] \in {"class", "admitted"}, ~Skips(c)
             PROVE  ref'[c] # None /\ (ref'[c] \in removed' \/ secrets'[ref'[c]] # None)
  BY AsksStay DEF KeysDone, Skips
<1>0. ref[c] # None => ref[c] \in Names
  BY DEF TypeOK, Names
<1>1. ASSUME pc[c] \in {"class", "admitted"}, ref'[c] = ref[c]
      PROVE  ref'[c] # None /\ (ref'[c] \in removed' \/ secrets'[ref'[c]] # None)
  BY <1>0, <1>1, SecretsStay DEF KeysDone
<1>2. CASE ~Handle(c)
  BY <1>1, <1>2, OthersStay
<1>3. CASE Handle(c)
  <2>1. ASSUME Denied(c) PROVE FALSE
    BY <2>1 DEF Denied, Answer, Goto, TypeOK
  <2>2. ~MutatePVC(c) /\ ~MutatePVCFails(c)
    BY <2>1 DEF MutatePVC, MutatePVCFails, Goto, TypeOK
  <2>3. ~EnsureNamespaceKey(c) /\ ~CreateNamespaceKey(c) /\ ~AnnotateClassFails(c)
    BY Zenon, <2>1 DEF EnsureNamespaceKey, CreateNamespaceKey, AnnotateClassFails, Goto, TypeOK
  <2>4. CASE Ensure(c)
    <3>1. /\ Goto(c, IF Get(ref[c]) # None THEN "class" ELSE "namespace")
          /\ UNCHANGED <<ref, secrets, removed>>
      BY <2>1, <2>4 DEF Ensure, userVars
    <3>2. Get(ref[c]) # None
      BY <3>1 DEF Goto, TypeOK
    <3>3. ref[c] # None
      BY <2>4 DEF Ensure, TypeOK
    <3> QED
      BY Zenon, <1>0, <3>1, <3>2, <3>3 DEF Get, CacheBehind
  <2>5. CASE CreateVolumeKey(c)
    <3>1. /\ secrets' = [secrets EXCEPT ![ref[c]] = NewVolumeSecret(c)]
          /\ UNCHANGED ref
      BY Zenon, <2>1, <2>5 DEF CreateVolumeKey
    <3>2. ref[c] # None /\ nsKey[c] \in [hex : Bytes]
      BY <2>5 DEF CreateVolumeKey, TypeOK
    <3>3. NewVolumeSecret(c) # None
      BY <1>0, <3>2, NewBytesType, VolumeSecretType DEF NewVolumeSecret, DecodeString
    <3> QED
      BY <1>0, <3>1, <3>2, <3>3 DEF TypeOK
  <2>6. CASE AnnotateClass(c)
    BY Zenon, <1>1, <2>6 DEF AnnotateClass
  <2> QED
    BY <1>3, <2>2, <2>3, <2>4, <2>5, <2>6 DEF Handle
<1> QED
  BY <1>2, <1>3

(* Users do not write to the names that requests make up, for              *)
(* GeneratedWrapped.                                                       *)
LEMMA WrappedStep ==
    ASSUME TypeOK, GeneratedWrapped, [Next]_vars
    PROVE  GeneratedWrapped'
<1> SUFFICES ASSUME NEW n \in Generated, secrets'[n] # None
             PROVE  secrets'[n].vuk # None
  BY DEF GeneratedWrapped
<1>0. n \in Names /\ DOMAIN secrets = Names
  BY DEF Names, TypeOK
<1>1. CASE secrets[n] # None
  BY <1>0, <1>1, SecretsStay DEF GeneratedWrapped
<1>2. CASE secrets[n] = None
  <2>1. PICK c \in Claims : pc[c] = "createVolume" /\ ref[c] = n /\ secrets'[n] = NewVolumeSecret(c)
    BY <1>0, <1>2, SecretsStep
  <2>2. nsKey[c] \in [hex : Bytes]
    BY Zenon, <2>1 DEF TypeOK
  <2> QED
    BY <1>0, <2>1, <2>2, NewBytesType, VolumeSecretType DEF NewVolumeSecret, DecodeString
<1> QED
  BY <1>1, <1>2

(* What is written is wrapped with the key that is stored, for             *)
(* VolumeKeysReadable.                                                     *)
LEMMA ReadableStep ==
    ASSUME TypeOK, KeyAtHand, VolumeKeysReadable, [Next]_vars
    PROVE  VolumeKeysReadable'
<1> SUFFICES ASSUME NsName \notin removed', NEW n \in Named \cup Generated,
                    secrets'[n] # None, secrets'[n].vuk # None
             PROVE  secrets'[NsName] # None /\ Readable(secrets'[n], secrets'[NsName])
  BY DEF VolumeKeysReadable, Readable, Decrypt, CheckHMAC, CreateHMAC, CreateIK
<1>0. NsName \in Names /\ n \in Names /\ NsName \notin removed
  BY SecretsStay DEF Names
<1>1. CASE secrets[n] # None
  <2>1. secrets'[n] = secrets[n]
    BY <1>0, <1>1, SecretsStay
  <2>2. secrets[NsName] # None /\ Readable(secrets[n], secrets[NsName])
    BY <1>0, <1>1, <2>1 DEF VolumeKeysReadable
  <2>3. secrets'[NsName] = secrets[NsName]
    BY <1>0, <2>2, SecretsStay
  <2> QED
    BY <2>1, <2>2, <2>3
<1>2. CASE secrets[n] = None
  <2>1. PICK s \in Secrets :
           /\ secrets' = [secrets EXCEPT ![n] = s]
           /\ \/ s.vuk = None /\ n \notin Generated
              \/ \E c \in Claims : pc[c] = "createVolume" /\ ref[c] = n /\ s = NewVolumeSecret(c)
    <3>1. DOMAIN secrets = Names
      BY DEF TypeOK
    <3> QED
      BY <1>0, <1>2, <3>1, SecretsStep
  <2>2. secrets'[n] = s
    BY <1>0, <2>1 DEF TypeOK
  <2>3. PICK c \in Claims : pc[c] = "createVolume" /\ ref[c] = n /\ s = NewVolumeSecret(c)
    BY <2>1, <2>2
  <2>4. secrets[NsName] # None /\ DecodeString(nsKey[c]) = secrets[NsName].key
    BY <1>0, <2>3 DEF KeyAtHand
  <2>5. Readable(NewVolumeSecret(c), secrets[NsName])
    BY <2>4, VolumeSecretReadable DEF NewVolumeSecret
  <2>6. secrets'[NsName] = secrets[NsName]
    BY Zenon, <1>0, <1>2, <2>1, <2>4 DEF TypeOK
  <2> QED
    BY <2>2, <2>3, <2>4, <2>5, <2>6
<1> QED
  BY <1>1, <1>2

(* The invariant holds at first and is kept by every step of KeyManager. *)
THEOREM KeysInductive == Spec => []IInv
<1>1. Init => IInv
  <2> SUFFICES ASSUME Init PROVE IInv
    OBVIOUS
  <2>1. TypeOK
    BY DEF Init, TypeOK, RequestPC
  <2>2. \A n \in Names : secrets[n] = None /\ cached[n] = None
    BY DEF Init
  <2>3. \A c \in Claims : pc[c] = "new"
    BY DEF Init
  <2> QED
    BY Zenon, <2>1, <2>2, <2>3 DEF IInv, CacheBehind, KeyAtHand, GeneratedWrapped, KeysDone,
       VolumeKeysReadable, Names
<1>2. IInv /\ [Next]_vars => IInv'
  BY TypeStep, CacheStep, KeyAtHandStep, WrappedStep, KeysDoneStep, ReadableStep DEF IInv
<1> QED
  BY <1>1, <1>2, PTL DEF Spec

(* The types of KeyManager, for all claims and names. *)
THEOREM KeysTypeCorrect == Spec => []TypeOK
BY KeysInductive, PTL DEF IInv

(* Volume keys can be read with the stored namespace key, however many     *)
(* requests race to create it.                                             *)
THEOREM KeysReadable == Spec => []VolumeKeysReadable
BY KeysInductive, PTL DEF IInv

(* An encrypted claim that the webhook answers for is admitted with a      *)
(* secret that is there, and wrapped if the webhook named it.              *)
THEOREM ClaimsHaveKeys == Spec => []AdmittedHasKey
<1>1. IInv => AdmittedHasKey
  BY DEF IInv, KeysDone, GeneratedWrapped, AdmittedHasKey
<1> QED
  BY <1>1, KeysInductive, PTL


-----------------------------------------------------------------------------
(* KeyManager implements KeyStore.                                         *)

bound == [c \in Claims |-> IF pc[c] = "admitted" /\ ~Skips(c) THEN ref[c] ELSE None]

(* Only AnnotateClass binds a claim, and nothing releases it. *)
LEMMA BoundStays ==
    ASSUME TypeOK, [Next]_vars, \A c \in Claims : ~AnnotateClass(c)
    PROVE  bound' = bound
<1> SUFFICES ASSUME NEW c \in Claims
             PROVE  /\ pc'[c] = "admitted" <=> pc[c] = "admitted"
                    /\ pc[c] = "admitted" => ref'[c] = ref[c]
  BY AsksStay DEF bound, Skips
<1>1. ASSUME pc[c] = "admitted" PROVE pc'[c] = "admitted" /\ ref'[c] = ref[c]
  BY <1>1, AdmittedStays
<1>2. CASE ~Handle(c)
  BY <1>1, <1>2, OthersStay
<1>3. CASE Handle(c)
  <2>1. \E where \in RequestPC \ {"admitted"} : Goto(c, where)
    BY Zenon, <1>3 DEF Handle, MutatePVC, MutatePVCFails, Ensure, EnsureNamespaceKey,
       CreateNamespaceKey, CreateVolumeKey, AnnotateClassFails, Denied, Answer, RequestPC
  <2> QED
    BY <1>1, <2>1 DEF Goto, TypeOK
<1> QED
  BY <1>2, <1>3

(* Every step of KeyManager is one of KeyStore, or changes nothing there. *)
LEMMA StoreStep ==
    ASSUME IInv, [Next]_vars
    PROVE  [Store!Next]_(Store!vars)
<1>0. TypeOK /\ KeyAtHand /\ KeysDone /\ Store!Names = Names
  BY DEF IInv, Store!Names, Names
<1> USE <1>0
<1>1. ASSUME NEW c \in Claims, AnnotateClass(c)
      PROVE  Store!Next \/ UNCHANGED Store!vars
  <2>1. UNCHANGED <<asks, secrets, removed, ref>> /\ pc[c] = "class"
        /\ pc' = [pc EXCEPT ![c] = IF c \in ignored THEN "unheard" ELSE "admitted"]
    BY <1>1 DEF AnnotateClass, userVars, Answer, Goto
  <2>2. CASE Skips(c) \/ c \in ignored
    <3>1. bound' = bound
      BY <2>1, <2>2 DEF bound, Skips, TypeOK
    <3> QED
      BY <2>1, <3>1 DEF Store!vars, bound
  <2>3. CASE ~Skips(c) /\ c \notin ignored
    <3>1. ref[c] # None /\ (ref[c] \in removed \/ secrets[ref[c]] # None)
      BY <2>1, <2>3 DEF KeysDone
    <3>2. PICK n \in Named \cup Generated : n = ref[c]
      BY <3>1 DEF TypeOK
    <3>3. bound' = [bound EXCEPT ![c] = n] /\ bound[c] = None
      BY Zenon, <2>1, <2>3, <3>2 DEF bound, Skips, TypeOK
    <3>4. Store!Bind(c, n)
      BY Zenon, <2>1, <3>1, <3>2, <3>3 DEF Store!Bind, bound
    <3> QED
      BY <3>4 DEF Store!Next
  <2> QED
    BY <2>2, <2>3
<1>2. CASE \A c \in Claims : ~AnnotateClass(c)
  <2>0. bound' = bound
    BY <1>2, BoundStays
  <2>1. CASE UNCHANGED <<secrets, removed>>
    BY Zenon, <2>0, <2>1 DEF Store!vars, bound
  <2>2. ASSUME UNCHANGED removed, NEW n \in Names, NEW s \in Secrets, secrets[n] = None,
               secrets' = [secrets EXCEPT ![n] = s],
               \/ s.vuk = None /\ n \notin Generated
               \/ \E c \in Claims : pc[c] = "createVolume" /\ ref[c] = n /\ s = NewVolumeSecret(c)
        PROVE  Store!Next
    <3>1. secrets'[n] = s /\ s # None
      BY Zenon, <2>2, ConstantsAssumption DEF TypeOK
    <3>2. WrappedWith(s) \in {None, Store!NsKey} \/ NsName \in removed
      <4>1. CASE s.vuk = None
        BY <4>1 DEF WrappedWith
      <4>2. ASSUME NEW c \in Claims, pc[c] = "createVolume", s = NewVolumeSecret(c)
            PROVE  WrappedWith(s) \in {None, Store!NsKey} \/ NsName \in removed
        <5>1. s.vuk.key[1] = DecodeString(nsKey[c])
          BY Zenon, <4>2 DEF NewVolumeSecret, VolumeSecret, Encrypt, CreateIK
        <5>2. CASE secrets[NsName] # None /\ DecodeString(nsKey[c]) = secrets[NsName].key
          BY <5>1, <5>2 DEF Store!NsKey, Key, WrappedWith
        <5> QED
          BY <4>2, <5>2 DEF KeyAtHand
      <4> QED
        BY <2>2, <4>1, <4>2
    <3>3. Store!Put(n)
      BY Zenon, <2>0, <2>2, <3>1, <3>2 DEF Store!Put, bound
    <3> QED
      BY <3>3 DEF Store!Next
  <2>3. ASSUME NEW n \in Names, secrets[n] # None, secrets' = [secrets EXCEPT ![n] = None],
               removed' = removed \cup {n}
        PROVE  Store!Next
    <3>1. Store!Lose(n)
      BY Zenon, <2>0, <2>3 DEF Store!Lose, bound
    <3> QED
      BY <3>1 DEF Store!Next
  <2> QED
    BY <2>1, <2>2, <2>3, SecretsStep
<1> QED
  BY <1>1, <1>2

(* KeyManager implements KeyStore: whatever the number of requests, secrets *)
(* and failing calls, secrets are written once, and wrapped with the        *)
(* namespace key.                                                           *)
THEOREM StoreImplemented == Spec => ImplementsKeyStore
<1>1. Init => Store!Init
  BY DEF Init, Store!Init, Store!Names, Names
<1>2. IInv /\ [Next]_vars => [Store!Next]_(Store!vars)
  BY StoreStep
<1> QED
  BY <1>1, <1>2, KeysInductive, PTL DEF Spec, ImplementsKeyStore, Store!Spec


=============================================================================
