----------------------------- MODULE KeyManager -----------------------------
(***************************************************************************)
(* The admission of PVCs: the webhook handler of controllers/pvc-mutator,  *)
(* the encryption mutator with its key manager, and the StorageClass       *)
(* mutator.                                                                *)
(*                                                                         *)
(* Requests for the PVCs of one namespace are handled concurrently.  Each  *)
(* looks for the secret with its volume key and creates it if need be,     *)
(* under the key of the namespace, which the first one has to create.  The *)
(* client reads a cache first, and the API server what the cache does not  *)
(* have.                                                                   *)
(*                                                                         *)
(* A request is answered with the changed PVC or with an error, which      *)
(* denies the PVC.  When there is no answer, the API server admits the PVC *)
(* as the user made it: the webhook's failurePolicy is ignore.             *)
(*                                                                         *)
(* Keys are terms: what internal/pkg/crypto computes is told apart by what *)
(* it is computed from.                                                    *)
(***************************************************************************)
EXTENDS Naturals

CONSTANTS
    None,        \* a model value: nothing there
    Claims,      \* the PVCs
    NsName,      \* name of the secret with the namespace key
    Named,       \* names of secrets that users give, NsName maybe
    Generated,   \* names that GenerateVolumeSecretName returns
    MaxEnv,      \* bound on what users create and delete
    MaxFaults    \* bound on failing calls and crashes

Names == {NsName} \cup Named \cup Generated

(* The StorageClass of a PVC: one of StorageOS, one of another driver, or  *)
(* none, which takes the default one, of StorageOS if there is one.        *)
Classes == {"stos", "other", "default"}

(* What a user asks for: a StorageClass, encryption by the label or a      *)
(* parameter of the class, a secret of some name, and one of another       *)
(* namespace.                                                              *)
Asks == [class : Classes, encryption : {"off", "on", "bad"}, ref : Named \cup {None},
         cross : BOOLEAN]

-----------------------------------------------------------------------------
(* internal/pkg/crypto, and the keys made with it.                         *)

(* Random bytes: the i-th of a kind that were made for the secret n. *)
Random(kind, n, i) == <<kind, n, i>>

Bytes == {"user", "vmk", "iv"} \X Names \X Nat

CreateIK(userKey, iv) == <<userKey, iv>>

Encrypt(plaintext, key) == [plaintext |-> plaintext, key |-> key]

(* What the wrong key gives is no plaintext. *)
Decrypt(ciphertext, key) == IF key = ciphertext.key THEN ciphertext.plaintext ELSE None

CreateHMAC(message, key) == <<message, key>>

CheckHMAC(message, messageMAC, key) == messageMAC = CreateHMAC(message, key)

EncodeToString(key) == [hex |-> key]
DecodeString(string) == string.hex

(* A secret that holds a key and nothing else, or not even that: the key   *)
(* of the namespace, or a user's own.                                      *)
UserSecret(key) == [key |-> key, iv |-> None, vuk |-> None, hmac |-> None]

(* The secret of a volume: its master key vmk, as it is and encrypted. *)
VolumeSecret(vmk, iv, userKey) ==
    [key |-> vmk, iv |-> iv, vuk |-> Encrypt(vmk, CreateIK(userKey, iv)),
     hmac |-> CreateHMAC(vmk, iv)]

Ciphertexts == [plaintext : Bytes, key : Bytes \X Bytes]

Secrets ==
    [key : Bytes \cup {None}, iv : Bytes \cup {None}, vuk : Ciphertexts \cup {None},
     hmac : (Bytes \X Bytes) \cup {None}]

ASSUME ConstantsAssumption ==
    /\ None \notin Names \cup Bytes \cup Ciphertexts \cup Secrets \cup [hex : Bytes]
    /\ Generated \cap (Named \cup {NsName}) = {}
    /\ MaxEnv \in Nat
    /\ MaxFaults \in Nat

(* What a volume's secret is for: with the namespace secret ns, the master *)
(* key is got back from its encrypted form, and the HMAC confirms it.      *)
Readable(s, ns) ==
    /\ Decrypt(s.vuk, CreateIK(ns.key, s.iv)) = s.key
    /\ CheckHMAC(s.key, s.hmac, s.iv)

VARIABLES
    asks,        \* what each PVC asks for
    secrets,     \* the secrets of the namespace, by name
    cached,      \* what the informer has of them
    classes,     \* the StorageClasses there are
    classView,   \* what the informer has of them
    pc,          \* where the request for a PVC is
    ignored,     \* the PVCs that were admitted for want of an answer
    ref,         \* the name of its volume key secret, as annotated in the end
    nsKey,       \* the namespace key at hand, in hex
    made,        \* how often keys were made for a secret
    removed,     \* history: the secrets that users deleted
    env, faults

userVars == <<asks, secrets, classes, removed, env>>
viewVars == <<cached, classView>>
vars == <<userVars, viewVars, pc, ignored, ref, nsKey, made, faults>>

RequestPC ==
    {"new", "volume", "namespace", "createNamespace", "createVolume", "class",
     "admitted", "unheard"}

(* The type of every variable; a request has a secret name while it needs  *)
(* keys, and a namespace key when it goes to create a volume key; it is    *)
(* over when the API server has its answer or does not want it.            *)
TypeOK ==
    /\ asks \in [Claims -> Asks]
    /\ secrets \in [Names -> Secrets \cup {None}]
    /\ cached \in [Names -> Secrets \cup {None}]
    /\ classes \subseteq Classes /\ classView \subseteq Classes
    /\ pc \in [Claims -> RequestPC]
    /\ ignored \subseteq Claims
    /\ ref \in [Claims -> Named \cup Generated \cup {None}]
    /\ nsKey \in [Claims -> [hex : Bytes] \cup {None}]
    /\ \A c \in Claims :
          /\ pc[c] \in {"volume", "namespace", "createNamespace", "createVolume"} => ref[c] # None
          /\ nsKey[c] # None <=> pc[c] = "createVolume"
          /\ pc[c] = "unheard" => c \in ignored
          /\ pc[c] \in {"new", "admitted"} => c \notin ignored
    /\ made \in [Names -> Nat]
    /\ removed \subseteq Names
    /\ env \in Nat /\ faults \in Nat

Init ==
    /\ asks \in [Claims -> Asks]
    /\ secrets = [n \in Names |-> None]
    /\ cached = secrets
    /\ classes \in SUBSET Classes
    /\ classView = classes
    /\ ignored = {}
    /\ pc = [c \in Claims |-> "new"]
    /\ ref = [c \in Claims |-> None]
    /\ nsKey = [c \in Claims |-> None]
    /\ made = [n \in Names |-> 0]
    /\ removed = {}
    /\ env = 0 /\ faults = 0

-----------------------------------------------------------------------------
(* Users, and the informers.                                               *)

EnvStep ==
    /\ env < MaxEnv
    /\ env' = env + 1
    /\ UNCHANGED <<asks, viewVars, pc, ignored, ref, nsKey, faults>>

(* GenerateRandomBytes: bytes that nothing else is. *)
NewBytes(kind, n) == Random(kind, n, made[n] + 1)
Make(n) == made' = [made EXCEPT ![n] = @ + 1]

(* A user brings their own secret, which may have no key. *)
UserCreates(n) ==
    /\ EnvStep
    /\ n \in Named \cup {NsName}
    /\ secrets[n] = None
    /\ \E k \in {None, NewBytes("user", n)} :
          secrets' = [secrets EXCEPT ![n] = UserSecret(k)]
    /\ Make(n)
    /\ UNCHANGED <<classes, removed>>

UserDeletes(n) ==
    /\ EnvStep
    /\ secrets[n] # None
    /\ secrets' = [secrets EXCEPT ![n] = None]
    /\ removed' = removed \cup {n}
    /\ UNCHANGED <<classes, made>>

ClassChanges(k) ==
    /\ EnvStep
    /\ classes' = IF k \in classes THEN classes \ {k} ELSE classes \cup {k}
    /\ UNCHANGED <<secrets, removed, made>>

SecretEvent(n) ==
    /\ cached[n] # secrets[n]
    /\ cached' = [cached EXCEPT ![n] = secrets[n]]
    /\ UNCHANGED <<userVars, classView, pc, ignored, ref, nsKey, made, faults>>

ClassEvent(k) ==
    /\ k \in classView <=> k \notin classes
    /\ classView' = (classView \ {k}) \cup ({k} \cap classes)
    /\ UNCHANGED <<userVars, cached, pc, ignored, ref, nsKey, made, faults>>

-----------------------------------------------------------------------------
(* The requests.                                                           *)

Fault == faults < MaxFaults /\ faults' = faults + 1
NoFault == UNCHANGED faults

(* The composite client: what is not in the cache is read from the API     *)
(* server, but not when it lists, which it does for the default class.     *)
Get(n) == IF cached[n] # None THEN cached[n] ELSE secrets[n]

StorageClassForPVC(c) ==
    \/ asks[c].class \in classView
    \/ asks[c].class # "default" /\ asks[c].class \in classes

(* The request is at its next step, or answered where the API server still *)
(* waits for that.                                                         *)
Goto(c, where) == pc' = [pc EXCEPT ![c] = where]
Answer(c, where) == Goto(c, IF c \in ignored THEN "unheard" ELSE where)

(* A call of the request fails, as it may when the API server has given up *)
(* on the request.                                                         *)
CallError(c) == Fault \/ (c \in ignored /\ NoFault)

(* An error denies the PVC, and the user tries again. *)
Denied(c) ==
    /\ Answer(c, "new")
    /\ ref' = [ref EXCEPT ![c] = None]
    /\ nsKey' = [nsKey EXCEPT ![c] = None]
    /\ UNCHANGED <<userVars, viewVars, ignored, made>>

(* A PVC that asks for no encryption is not for the first mutator. *)
Skips(c) == asks[c].class = "other" \/ asks[c].encryption = "off"

Invalid(c) == ~Skips(c) /\ (asks[c].encryption = "bad" \/ asks[c].cross)

(* GenerateVolumeSecretName returns a name that nothing has had. *)
NewNames == {n \in Generated : n \notin removed /\ secrets[n] = None /\ \A c \in Claims : ref[c] # n}

GenerateVolumeSecretName == CHOOSE n \in NewNames : TRUE

(* Mutant: no name is generated. *)
M_MutatePVC(c) ==
    /\ pc[c] = "new"
    /\ ~Skips(c) /\ ~Invalid(c)
    /\ NoFault
    /\ Goto(c, "volume")
    /\ ref' = [ref EXCEPT ![c] = asks[c].ref]
    /\ UNCHANGED <<userVars, viewVars, ignored, nsKey, made>>

(* MutatePVC of the encryption mutator, up to the key manager. *)
MutatePVC(c) ==
    /\ pc[c] = "new"
    /\ StorageClassForPVC(c)
    /\ \/ /\ Skips(c)
          /\ NoFault
          /\ Goto(c, "class")
          /\ UNCHANGED ref
       \/ /\ ~Skips(c) /\ ~Invalid(c)
          /\ NoFault
          /\ Goto(c, "volume")
          /\ asks[c].ref = None => NewNames # {}
          /\ ref' = [ref EXCEPT ![c] = IF asks[c].ref # None THEN asks[c].ref
                                       ELSE GenerateVolumeSecretName]
    /\ UNCHANGED <<userVars, viewVars, ignored, nsKey, made>>

(* Without the class of the PVC it cannot tell whose the PVC is: an error. *)
MutatePVCFails(c) ==
    /\ pc[c] = "new"
    /\ ((~StorageClassForPVC(c) \/ Invalid(c)) /\ NoFault) \/ Fault
    /\ Denied(c)

(* Mutant: a secret that cannot be read is taken to be there. *)
M_Ensure(c) ==
    /\ pc[c] = "volume"
    /\ \/ NoFault /\ Goto(c, IF Get(ref[c]) # None THEN "class" ELSE "namespace")
       \/ Fault /\ Goto(c, "class")
    /\ UNCHANGED <<userVars, viewVars, ignored, ref, nsKey, made>>

(* Ensure: a secret that is there is taken as it is. *)
Ensure(c) ==
    /\ pc[c] = "volume"
    /\ \/ /\ NoFault
          /\ Goto(c, IF Get(ref[c]) # None THEN "class" ELSE "namespace")
          /\ UNCHANGED <<userVars, viewVars, ignored, ref, nsKey, made>>
       \/ CallError(c) /\ Denied(c)

(* Mutant: the namespace key is always created. *)
M_EnsureNamespaceKey(c) ==
    /\ pc[c] = "namespace"
    /\ NoFault
    /\ Goto(c, "createNamespace")
    /\ UNCHANGED <<userVars, viewVars, ignored, ref, nsKey, made>>

(* ensureNamespaceKey, which does not accept a secret without a key. *)
EnsureNamespaceKey(c) ==
    /\ pc[c] = "namespace"
    /\ LET s == Get(NsName) IN
       \/ /\ s = None
          /\ NoFault
          /\ Goto(c, "createNamespace")
          /\ UNCHANGED <<userVars, viewVars, ignored, ref, nsKey, made>>
       \/ /\ s # None /\ s.key # None
          /\ NoFault
          /\ Goto(c, "createVolume")
          /\ nsKey' = [nsKey EXCEPT ![c] = EncodeToString(s.key)]
          /\ UNCHANGED <<userVars, viewVars, ignored, ref, made>>
       \/ /\ (s # None /\ s.key = None /\ NoFault) \/ CallError(c)
          /\ Denied(c)

(* Mutant: a key that another request has created is no error. *)
M_CreateNamespaceKey(c) ==
    /\ pc[c] = "createNamespace"
    /\ NoFault
    /\ secrets' = IF secrets[NsName] # None THEN secrets
                  ELSE [secrets EXCEPT ![NsName] = UserSecret(NewBytes("user", NsName))]
    /\ Make(NsName)
    /\ nsKey' = [nsKey EXCEPT ![c] = EncodeToString(NewBytes("user", NsName))]
    /\ Goto(c, "createVolume")
    /\ UNCHANGED <<asks, classes, removed, env, viewVars, ignored, ref>>

(* Create fails where there is a secret of that name. *)
CreateNamespaceKey(c) ==
    /\ pc[c] = "createNamespace"
    /\ \/ /\ secrets[NsName] = None
          /\ NoFault
          /\ secrets' = [secrets EXCEPT ![NsName] = UserSecret(NewBytes("user", NsName))]
          /\ Make(NsName)
          /\ nsKey' = [nsKey EXCEPT ![c] = EncodeToString(NewBytes("user", NsName))]
          /\ Goto(c, "createVolume")
          /\ UNCHANGED <<asks, classes, removed, env, viewVars, ignored, ref>>
       \/ /\ (secrets[NsName] # None /\ NoFault) \/ CallError(c)
          /\ Denied(c)

NewVolumeSecret(c) ==
    VolumeSecret(NewBytes("vmk", ref[c]), NewBytes("iv", ref[c]), DecodeString(nsKey[c]))

(* Mutant: a volume secret is written, whether or not there is one. *)
M_CreateVolumeKey(c) ==
    /\ pc[c] = "createVolume"
    /\ ref[c] # NsName
    /\ NoFault
    /\ secrets' = [secrets EXCEPT ![ref[c]] = NewVolumeSecret(c)]
    /\ Make(ref[c])
    /\ nsKey' = [nsKey EXCEPT ![c] = None]
    /\ Goto(c, "class")
    /\ UNCHANGED <<asks, classes, removed, env, viewVars, ignored, ref>>

CreateVolumeKey(c) ==
    /\ pc[c] = "createVolume"
    /\ \/ /\ secrets[ref[c]] = None
          /\ NoFault
          /\ secrets' = [secrets EXCEPT ![ref[c]] = NewVolumeSecret(c)]
          /\ Make(ref[c])
          /\ nsKey' = [nsKey EXCEPT ![c] = None]
          /\ Goto(c, "class")
          /\ UNCHANGED <<asks, classes, removed, env, viewVars, ignored, ref>>
       \/ /\ (secrets[ref[c]] # None /\ NoFault) \/ CallError(c)
          /\ Denied(c)

(* MutatePVC of the StorageClass mutator: the class is read again. *)
AnnotateClass(c) ==
    /\ pc[c] = "class"
    /\ StorageClassForPVC(c)
    /\ NoFault
    /\ Answer(c, "admitted")
    /\ UNCHANGED <<userVars, viewVars, ignored, ref, nsKey, made>>

AnnotateClassFails(c) ==
    /\ pc[c] = "class"
    /\ (~StorageClassForPVC(c) /\ NoFault) \/ Fault
    /\ Denied(c)

Handle(c) ==
    \/ MutatePVC(c) \/ MutatePVCFails(c)
    \/ Ensure(c) \/ EnsureNamespaceKey(c) \/ CreateNamespaceKey(c) \/ CreateVolumeKey(c)
    \/ AnnotateClass(c) \/ AnnotateClassFails(c)

Busy(c) == pc[c] \notin {"new", "admitted", "unheard"}

(* The API server cannot reach the webhook, or waits for its answer no     *)
(* longer; a handler that is at work does not notice.                      *)
CallFails(c) ==
    /\ pc[c] = "new" \/ Busy(c)
    /\ c \notin ignored
    /\ Fault
    /\ ignored' = ignored \cup {c}
    /\ Goto(c, IF pc[c] = "new" THEN "unheard" ELSE pc[c])
    /\ UNCHANGED <<userVars, viewVars, ref, nsKey, made>>

(* The process dies with the requests it has, and is restarted. *)
Crash ==
    /\ \E c \in Claims : Busy(c)
    /\ Fault
    /\ ignored' = ignored \cup {c \in Claims : Busy(c)}
    /\ pc' = [c \in Claims |-> IF Busy(c) THEN "unheard" ELSE pc[c]]
    /\ ref' = [c \in Claims |-> IF Busy(c) THEN None ELSE ref[c]]
    /\ nsKey' = [c \in Claims |-> None]
    /\ cached' = secrets
    /\ classView' = classes
    /\ UNCHANGED <<userVars, made>>

Next ==
    \/ \E n \in Names : UserCreates(n) \/ UserDeletes(n) \/ SecretEvent(n)
    \/ \E k \in Classes : ClassChanges(k) \/ ClassEvent(k)
    \/ \E c \in Claims : Handle(c) \/ CallFails(c)
    \/ Crash

(* Requests are handled, and repeated when denied; the informers go on. *)
Fairness ==
    /\ \A c \in Claims : WF_vars(Handle(c))
    /\ \A n \in Names : WF_vars(SecretEvent(n))
    /\ \A k \in Classes : WF_vars(ClassEvent(k))

Spec == Init /\ [][Next]_vars
FairSpec == Spec /\ Fairness

-----------------------------------------------------------------------------
(* Properties.                                                             *)

(* Of requests that race to create the key of the namespace, only one does *)
(* and none goes on with another: every volume key can be read with the    *)
(* key that is stored, where users leave that alone.                       *)
VolumeKeysReadable ==
    NsName \notin removed =>
        \A n \in Named \cup Generated :
            secrets[n] # None /\ secrets[n].vuk # None =>
                secrets[NsName] # None /\ Readable(secrets[n], secrets[NsName])

(* An encrypted PVC that the webhook answered for is annotated with a      *)
(* secret that is there, and one the webhook named holds a wrapped key,    *)
(* however requests race, fail and are repeated.  A secret that a user     *)
(* names is taken as it is, whatever it holds; one that users deleted may  *)
(* still be taken, from the cache; and a PVC the API server admitted       *)
(* without an answer has none.                                             *)
AdmittedHasKey ==
    \A c \in Claims :
        pc[c] = "admitted" /\ ~Skips(c) =>
            /\ ref[c] # None
            /\ \/ ref[c] \in removed
               \/ /\ secrets[ref[c]] # None
                  /\ ref[c] \in Generated => secrets[ref[c]].vuk # None

Key(s) == s.key
WrappedWith(s) == IF s.vuk = None THEN None ELSE s.vuk.key[1]

(* The store of keys that the requests make up together, whatever their    *)
(* interleaving, the cache and the failing calls: a secret is never        *)
(* changed, be it the request's own, that of another or a user's, since    *)
(* data encrypted with a lost key is lost; volume keys are wrapped with    *)
(* the one namespace key, and a claim the webhook answers for is admitted  *)
(* with a secret that was there.                                           *)
Store == INSTANCE KeyStore WITH
    VolNames <- Named \cup Generated,
    store <- secrets,
    lost <- removed,
    bound <- [c \in Claims |-> IF pc[c] = "admitted" /\ ~Skips(c) THEN ref[c] ELSE None]

ImplementsKeyStore == Store!Spec

(* A PVC that the webhook does not deny on every try: its StorageClass is  *)
(* there, what it asks for is valid, and the namespace has no secret       *)
(* without a key.                                                          *)
Admissible(c) ==
    /\ asks[c].class \in classes
    /\ ~Invalid(c)
    /\ Skips(c) \/ secrets[NsName] = None \/ secrets[NsName].key # None

(* A request that lost a race, met an error or an old cache succeeds when  *)
(* it is repeated often enough, if the PVC is one that can be admitted.    *)
(* One whose StorageClass is not there is denied for as long as that is    *)
(* so, whatever its driver.                                                *)
ValidAdmitted ==
    \A c \in Claims : <>[]Admissible(c) => <>(pc[c] = "admitted" \/ c \in ignored)

=============================================================================
