------------------------ MODULE Certificates_proofs ------------------------
(***************************************************************************)
(* The types of Certificates; that Synchronize never takes back what others  *)
(* have changed in the global config; that the secret leads and its          *)
(* certificate follows the settings; and that the updater does not feed      *)
(* itself.                                                                   *)
(***************************************************************************)
EXTENDS Certificates, TLAPS

---------------------------------------------------------------------------
(* Types of what the actions are made of.                                  *)

(* getAlternativeFQDNs returns names.                                      *)
LEMMA SharedNamesType ==
    ASSUME NEW S \in Settings
    PROVE  SharedNames(S) \in SUBSET (Name \cup TlsSecret \cup {""})
<1>1. \A e \in S.alts : Len(e) \in {1, 2} =>
          e[1].text \in Name \cup TlsSecret \cup {""}
  <2> SUFFICES ASSUME NEW e \in S.alts, Len(e) \in {1, 2}
               PROVE  e[1].text \in Name \cup TlsSecret \cup {""}
    OBVIOUS
  <2>1. e \in Seq(Part) BY GlobalConfigAssumption DEF Settings
  <2>2. 1 \in 1 .. Len(e) OBVIOUS
  <2>3. e[1] \in Part BY <2>1, <2>2
  <2> QED BY <2>3 DEF Part
<1>2. \A a \in Parse(S.alts) : a.fqdn \in Name \cup TlsSecret \cup {""}
  <2> SUFFICES ASSUME NEW a \in Parse(S.alts)
               PROVE  a.fqdn \in Name \cup TlsSecret \cup {""}
    OBVIOUS
  <2>1. PICK e \in {f \in S.alts : Len(f) \in {1, 2} /\ f[1] # Empty} :
            a = [fqdn |-> e[1].text, secret |-> IF Len(e) = 2 THEN e[2].text ELSE ""]
    BY Zenon DEF Parse
  <2>2. a.fqdn = e[1].text BY <2>1
  <2> QED BY <2>2, <1>1
<1> QED BY <1>2 DEF SharedNames

LEMMA ValueTypes ==
    /\ NoCertificate \in Certificate
    /\ NoSettings \in Settings
    /\ NoConfig \in ConfigState
    /\ IdleSync \in SyncState
    /\ Fresh \in UpdaterState
<1>1. NoCertificate \in Certificate BY DEF NoCertificate, Certificate
<1>2. NoSettings \in Settings BY DEF NoSettings, Settings
<1>3. NoConfig \in ConfigState BY <1>1, <1>2 DEF NoConfig, ConfigState
<1>4. IdleSync \in SyncState BY <1>1, <1>3, CertificatesAssumption DEF IdleSync, SyncState
<1>5. Fresh \in UpdaterState BY <1>1, <1>2 DEF Fresh, UpdaterState
<1> QED BY <1>1, <1>2, <1>3, <1>4, <1>5

LEMMA GeneratedType ==
    ASSUME NEW S \in Settings, NEW T \in Settings
    PROVE  Generated(S, SharedNames(T)) \in Certificate
BY SharedNamesType DEF Generated, Certificate, Settings

LEMMA RestType ==
    ASSUME NEW u \in UpdaterState
    PROVE  Rest(u) \in UpdaterState
BY ValueTypes DEF Rest, UpdaterState, Fresh

LEMMA StoreType ==
    ASSUME NEW c \in Certificate, secret \in SecretState, Store(c)
    PROVE  secret' \in SecretState /\ certQ' \in BOOLEAN
<1>1. secret.rv + 1 \in Nat BY DEF SecretState
<1>2. [c EXCEPT !.no = secret.rv + 1] \in Certificate BY <1>1 DEF Certificate
<1> QED BY <1>1, <1>2 DEF Store, SecretState

LEMMA WriteType ==
    ASSUME NEW new \in ConfigState, events \in Nat, Write(new)
    PROVE  config' \in ConfigState /\ events' \in Nat
BY DEF Write

LEMMA SpendType ==
    ASSUME left \in [EventKinds -> Nat], NEW k \in EventKinds, Spend(k)
    PROVE  left' \in [EventKinds -> Nat]
BY DEF Spend, EventKinds

LEMMA RequeueType ==
    ASSUME sync \in [Syncs -> SyncState], certQ \in BOOLEAN, NEW a \in Syncs,
           Requeue(a) \/ Done(a)
    PROVE  sync' \in [Syncs -> SyncState] /\ certQ' \in BOOLEAN
BY ValueTypes DEF Requeue, Done

LEMMA PublishType ==
    ASSUME sync \in [Syncs -> SyncState], config \in ConfigState, events \in Nat,
           NEW a \in Syncs, Publish(a)
    PROVE  config' \in ConfigState /\ events' \in Nat /\ overtaken' \in BOOLEAN
<1> DEFINE new == Published(sync[a].snap, sync[a].cert)
           w == IF new = config THEN config ELSE [new EXCEPT !.rv = config.rv + 1]
<1>1. new \in ConfigState BY DEF Published, SyncState, ConfigState
<1>2. w \in ConfigState BY <1>1 DEF ConfigState
<1>3. Write(w) BY DEF Publish
<1> HIDE DEF w
<1>4. config' \in ConfigState /\ events' \in Nat BY <1>2, <1>3, WriteType
<1> QED BY <1>4 DEF Publish
---------------------------------------------------------------------------
(* The types are inductive as they stand.                                  *)
LEMMA CertificateTypesInductive ==
    /\ Init => TypeOK
    /\ TypeOK /\ [Next]_vars => TypeOK'
<1>1. Init => TypeOK
  <2> SUFFICES ASSUME Init PROVE TypeOK
    OBVIOUS
  <2>1. config \in ConfigState BY ValueTypes, CertificatesAssumption DEF Init, ConfigState
  <2>2. secret \in SecretState
    BY CertificatesAssumption DEF Init, SecretState, Certificate
  <2>3. sync \in [Syncs -> SyncState] BY ValueTypes DEF Init, SyncState
  <2> QED BY <2>1, <2>2, <2>3, ValueTypes, CertificatesAssumption DEF Init, TypeOK
<1>2. TypeOK /\ [Next]_vars => TypeOK'
  <2> SUFFICES ASSUME TypeOK, [Next]_vars PROVE TypeOK'
    OBVIOUS
  <2> USE DEF TypeOK
  <2>0. upd.set \in Settings /\ config.set \in Settings /\ upd.new \in Certificate
    BY DEF UpdaterState, ConfigState
  <2>1. CASE Logged /\ UNCHANGED <<config, secret, events, sync, certQ, overtaken>>
             /\ left' \in [EventKinds -> Nat]
    BY <2>1, RestType DEF Logged
  <2>2. CASE CheckType \/ HandleFqdnChange
    BY <2>0, <2>2, RestType DEF CheckType, HandleFqdnChange, Logged, UpdaterState
  <2>3. CASE CompareCertificate
    BY <2>3, RestType, ValueTypes DEF CompareCertificate, Logged, UpdaterState
  <2>4. CASE ReadPrevious
    BY <2>4, RestType DEF ReadPrevious, Logged, UpdaterState
  <2>5. CASE CreateCertificate
    <3>1. Generated(config.set, SharedNames(upd.set)) \in Certificate
      BY <2>0, GeneratedType
    <3> QED BY <2>5, <3>1, RestType, ValueTypes DEF CreateCertificate, Logged, UpdaterState
  <2>6. CASE UpdateSecret \/ CreateSecret
    <3>1. CASE Written
      <4>1. secret' \in SecretState /\ certQ' \in BOOLEAN BY <2>0, <3>1, StoreType DEF Written
      <4> QED BY <2>6, <3>1, <4>1, RestType DEF Written, UpdateSecret, CreateSecret
    <3>2. CASE ~Written
      BY <2>6, <3>2, RestType DEF UpdateSecret, CreateSecret, Logged, UpdaterState
    <3> QED BY <3>1, <3>2
  <2>7. CASE StartWatch
    <3>1. [upd EXCEPT !.watch = TRUE] \in UpdaterState BY DEF UpdaterState
    <3> QED BY <2>7, <3>1, RestType DEF StartWatch
  <2>8. CASE ReceiveEvent
    BY <2>8 DEF ReceiveEvent, UpdaterState
  <2>9. CASE Reconcile
    BY <2>9 DEF Reconcile, Syncs, SyncState
  <2>10. ASSUME NEW a \in Syncs, ReadSecret(a) PROVE TypeOK'
    <3>1. secret.cert \in Certificate BY DEF SecretState
    <3>2. sync' \in [Syncs -> SyncState] /\ certQ' \in BOOLEAN
      <4>1. CASE Requeue(a) \/ Done(a) BY <4>1, RequeueType
      <4>2. CASE ~(Requeue(a) \/ Done(a))
        BY <2>10, <3>1, <4>2 DEF ReadSecret, SyncState, Syncs
      <4> QED BY <4>1, <4>2
    <3> QED BY <2>10, <3>2 DEF ReadSecret
  <2>11. ASSUME NEW a \in Syncs, GetConfig(a) PROVE TypeOK'
    BY <2>11 DEF GetConfig, SyncState
  <2>12. ASSUME NEW a \in Syncs, PutConfig(a) PROVE TypeOK'
    <3>1. CASE Conflict(a) /\ ~LastTry(a) /\ Retry(a) /\ UNCHANGED <<config, events, overtaken>>
      BY <2>12, <3>1, ValueTypes, CertificatesAssumption
         DEF PutConfig, Retry, LastTry, SyncState
    <3>2. CASE Requeue(a) /\ UNCHANGED <<config, events, overtaken>>
      BY <2>12, <3>2, RequeueType DEF PutConfig
    <3>3. CASE Publish(a) /\ Done(a)
      BY <2>12, <3>3, RequeueType, PublishType DEF PutConfig
    <3> QED BY <2>12, <3>1, <3>2, <3>3 DEF PutConfig
  <2>13. CASE ManagerEnds
    <3>1. CASE Started /\ UNCHANGED <<config, secret, overtaken>> /\ left' \in [EventKinds -> Nat]
      BY <3>1, ValueTypes DEF Started, SyncState, SecretExists
    <3>2. left' \in [EventKinds -> Nat]
      BY <2>13, SpendType DEF ManagerEnds, StartFails, StartError, Crash, EventKinds
    <3> QED BY <2>13, <3>1, <3>2 DEF ManagerEnds, StartFails, StartError, Crash
  <2>14. CASE EditConfig
    <3>1. PICK S \in Edits : LET new == [config EXCEPT !.set = S, !.rv = @ + 1]
              IN Write(new) /\ missed' \in BOOLEAN
      BY <2>14 DEF EditConfig
    <3>2. [config EXCEPT !.set = S, !.rv = @ + 1] \in ConfigState
      <4>1. config.rv + 1 \in Nat /\ S \in Settings BY CertificatesAssumption DEF ConfigState
      <4> QED BY <4>1 DEF ConfigState
    <3>3. config' \in ConfigState /\ events' \in Nat BY <3>1, <3>2, WriteType
    <3>4. left' \in [EventKinds -> Nat] BY <2>14, SpendType DEF EditConfig, EventKinds
    <3> QED BY <2>14, <3>1, <3>3, <3>4 DEF EditConfig
  <2>15. CASE UploadSecret
    <3>1. left' \in [EventKinds -> Nat] BY <2>15, SpendType DEF UploadSecret, EventKinds
    <3>2. secret' \in SecretState /\ certQ' \in BOOLEAN
      <4>1. PICK k \in Uploads : IF k = "none"
               THEN secret' = [cert |-> NoCertificate, rv |-> secret.rv + 1] /\ certQ' = TRUE
               ELSE Store([NoCertificate EXCEPT !.kind = k])
        BY <2>15 DEF UploadSecret
      <4>2. [NoCertificate EXCEPT !.kind = k] \in Certificate
        BY CertificatesAssumption DEF NoCertificate, Certificate
      <4>3. CASE k = "none" BY <4>1, <4>3, ValueTypes DEF SecretState
      <4>4. CASE k # "none" BY <4>1, <4>2, <4>4, StoreType
      <4> QED BY <4>3, <4>4
    <3> QED BY <2>15, <3>1, <3>2 DEF UploadSecret
  <2>16. CASE UpdaterError
    <3>1. left' \in [EventKinds -> Nat] BY <2>16, SpendType DEF UpdaterError, EventKinds
    <3> QED BY <2>1, <2>16, <3>1 DEF UpdaterError
  <2>17. CASE ReconcilerError
    <3>1. left' \in [EventKinds -> Nat] BY <2>17, SpendType DEF ReconcilerError, EventKinds
    <3>2. sync' \in [Syncs -> SyncState] /\ certQ' \in BOOLEAN
      BY <2>17, RequeueType DEF ReconcilerError, Syncs
    <3>3. config' \in ConfigState /\ events' \in Nat /\ overtaken' \in BOOLEAN
      BY <2>17, PublishType DEF ReconcilerError, Syncs
    <3> QED BY <2>17, <3>1, <3>2, <3>3 DEF ReconcilerError
  <2>18. CASE WatchError \/ CloseWatch
    <3>1. left' \in [EventKinds -> Nat] BY <2>18, SpendType DEF WatchError, CloseWatch, EventKinds
    <3>2. upd' \in UpdaterState BY <2>18 DEF WatchError, CloseWatch, UpdaterState
    <3>3. events' \in Nat BY <2>18 DEF WatchError, CloseWatch
    <3>4. missed' \in BOOLEAN BY <2>18, Zenon DEF WatchError, CloseWatch
    <3> QED BY <2>18, <3>1, <3>2, <3>3, <3>4 DEF WatchError, CloseWatch
  <2>19. CASE Resync
    BY <2>19 DEF Resync
  <2>20. CASE UNCHANGED vars
    BY <2>20 DEF vars
  <2> QED
    BY <2>2, <2>3, <2>4, <2>5, <2>6, <2>7, <2>8, <2>9, <2>10, <2>11, <2>12, <2>13, <2>14,
       <2>15, <2>16, <2>17, <2>18, <2>19, <2>20
    DEF Next, Proceed, Update, Synchronize, Environment
<1> QED BY <1>1, <1>2

(* Every variable of the updater and of both callers of Synchronize keeps    *)
(* its type; in particular OnError stays within its attempts.                *)
THEOREM CertificateTypes == Spec => []TypeOK
BY CertificateTypesInductive, PTL DEF Spec

---------------------------------------------------------------------------
(* What Synchronize is about to write back: a copy of the current version    *)
(* of the global config is the current global config.                        *)
CopyCurrent(a) ==
    sync[a].pc = "put" =>
        /\ sync[a].snap.rv <= config.rv
        /\ sync[a].snap.rv = config.rv => sync[a].snap = config

Copies == \A a \in Syncs : CopyCurrent(a)

(* A write of the global config by one caller outdates the copy of the other *)
(* one.                                                                      *)
LEMMA CopiesKept ==
    ASSUME TypeOK, Copies,
           config' = config \/ (config' \in ConfigState /\ config'.rv = config.rv + 1),
           \A a \in Syncs : sync'[a] = sync[a] \/ sync'[a].pc # "put"
    PROVE  Copies'
<1> SUFFICES ASSUME NEW a \in Syncs, sync'[a].pc = "put"
             PROVE  /\ sync'[a].snap.rv <= config'.rv
                    /\ sync'[a].snap.rv = config'.rv => sync'[a].snap = config'
  BY DEF Copies, CopyCurrent
<1>1. sync'[a] = sync[a] OBVIOUS
<1>2. sync[a].snap.rv \in Nat /\ config.rv \in Nat
  BY DEF TypeOK, SyncState, ConfigState
<1>3. sync[a].snap.rv <= config.rv /\ (sync[a].snap.rv = config.rv => sync[a].snap = config)
  BY <1>1 DEF Copies, CopyCurrent
<1> QED BY <1>1, <1>2, <1>3

(* updateInGlobalConfig sets the certificate and deletes the key of the      *)
(* config it has read, which without a conflict is the current one.          *)
LEMMA PublishKeepsSettings ==
    ASSUME TypeOK, Copies, NEW a \in Syncs, sync[a].pc = "put", ~Conflict(a), Publish(a)
    PROVE  /\ config'.set = config.set
           /\ config' = config \/ (config' \in ConfigState /\ config'.rv = config.rv + 1)
<1>1. sync[a].snap = config BY DEF Copies, CopyCurrent, Conflict
<1>2. config \in ConfigState /\ sync[a].cert \in Certificate BY DEF TypeOK, SyncState
<1> DEFINE new == Published(config, sync[a].cert)
<1>3. new \in ConfigState /\ new.set = config.set BY <1>2 DEF Published, ConfigState
<1>4. config' = IF new = config THEN config ELSE [new EXCEPT !.rv = config.rv + 1]
  BY <1>1 DEF Publish, Write
<1>5. config.rv + 1 \in Nat BY <1>2 DEF ConfigState
<1> HIDE DEF new
<1> QED BY <1>2, <1>3, <1>4, <1>5 DEF ConfigState

(* A step either keeps the settings or is an edit of others.               *)
LEMMA StepKeepsSettings ==
    ASSUME TypeOK, Copies, [Next]_vars
    PROVE  /\ Copies'
           /\ config'.set # config.set => left'["edit"] < left["edit"]
<1>1. CASE UNCHANGED <<config, sync>>
  BY <1>1, CopiesKept
<1>2. CASE config' = config /\ \E a \in Syncs : Requeue(a) \/ Done(a)
  <2>1. \A a \in Syncs : sync'[a] = sync[a] \/ sync'[a].pc # "put"
    BY <1>2 DEF Requeue, Done, IdleSync, TypeOK
  <2> QED BY <1>2, <2>1, CopiesKept
<1>3. CASE Reconcile
  <2>1. \A a \in Syncs : sync'[a] = sync[a] \/ sync'[a].pc # "put"
    BY <1>3 DEF Reconcile, TypeOK, SyncState, Syncs
  <2> QED BY <1>3, <2>1, CopiesKept DEF Reconcile
<1>4. ASSUME NEW a \in Syncs, ReadSecret(a)
      PROVE  Copies' /\ config' = config
  <2>1. \A b \in Syncs : sync'[b] = sync[b] \/ sync'[b].pc # "put"
    BY <1>4 DEF ReadSecret, Requeue, Done, IdleSync, TypeOK, SyncState
  <2> QED BY <1>4, <2>1, CopiesKept DEF ReadSecret
<1>5. ASSUME NEW a \in Syncs, GetConfig(a)
      PROVE  Copies' /\ config' = config
  <2>1. config' = config /\ config.rv \in Nat BY <1>5 DEF GetConfig, TypeOK, ConfigState
  <2>2. sync' = [sync EXCEPT ![a].pc = "put", ![a].snap = config] BY <1>5 DEF GetConfig
  <2>3. \A b \in Syncs : b # a => sync'[b] = sync[b] BY <2>2 DEF TypeOK
  <2>4. sync'[a].snap = config BY <2>2 DEF TypeOK, SyncState
  <2> QED BY <2>1, <2>3, <2>4 DEF Copies, CopyCurrent
<1>6. ASSUME NEW a \in Syncs, sync[a].pc = "put", ~Conflict(a), Publish(a), Requeue(a) \/ Done(a)
      PROVE  Copies' /\ config'.set = config.set
  <2>1. \A b \in Syncs : sync'[b] = sync[b] \/ sync'[b].pc # "put"
    BY <1>6 DEF Requeue, Done, IdleSync, TypeOK
  <2> QED BY <1>6, <2>1, PublishKeepsSettings, CopiesKept
<1>7. ASSUME NEW a \in Syncs, PutConfig(a)
      PROVE  Copies' /\ config'.set = config.set
  <2>1. CASE Retry(a) /\ config' = config
    <3>1. \A b \in Syncs : sync'[b] = sync[b] \/ sync'[b].pc # "put"
      BY <2>1 DEF Retry, TypeOK, SyncState
    <3> QED BY <2>1, <3>1, CopiesKept
  <2>2. CASE Requeue(a) /\ config' = config
    BY <1>2, <2>2
  <2>3. CASE ~Conflict(a) /\ Publish(a) /\ Done(a)
    BY <1>6, <1>7, <2>3 DEF PutConfig
  <2> QED BY <1>7, <2>1, <2>2, <2>3 DEF PutConfig
<1>8. CASE ManagerEnds
  <2>1. config' = config /\ Started
    BY <1>8 DEF ManagerEnds, StartFails, StartError, Crash
  <2>2. \A a \in Syncs : sync'[a].pc # "put"
    BY <2>1 DEF Started, IdleSync
  <2> QED BY <2>1, <2>2, CopiesKept
<1>9. CASE EditConfig
  <2>1. left'["edit"] < left["edit"]
    BY <1>9 DEF EditConfig, Spend, TypeOK, EventKinds
  <2>2. PICK S \in Edits : config' = [config EXCEPT !.set = S, !.rv = @ + 1]
    BY <1>9 DEF EditConfig, Write
  <2>3. config' \in ConfigState /\ config'.rv = config.rv + 1
    <3>1. config.rv + 1 \in Nat /\ S \in Settings
      BY CertificatesAssumption DEF TypeOK, ConfigState
    <3> QED BY <2>2, <3>1 DEF TypeOK, ConfigState
  <2>4. sync' = sync BY <1>9 DEF EditConfig
  <2> QED BY <2>1, <2>3, <2>4, CopiesKept
<1>10. CASE ReconcilerError
  <2>1. CASE config' = config
    BY <1>2, <1>10, <2>1 DEF ReconcilerError, Syncs
  <2>2. CASE sync["reconciler"].pc = "put" /\ ~Conflict("reconciler") /\ Publish("reconciler")
    BY <1>6, <1>10, <2>2 DEF ReconcilerError, Syncs
  <2> QED BY <1>10, <2>1, <2>2 DEF ReconcilerError
<1>11. CASE Update
  BY <1>1, <1>11 DEF Update, CheckType, CompareCertificate, HandleFqdnChange, ReadPrevious,
     CreateCertificate, UpdateSecret, CreateSecret, StartWatch, ReceiveEvent
<1>12. CASE UploadSecret \/ UpdaterError \/ WatchError \/ CloseWatch \/ Resync \/ UNCHANGED vars
  BY <1>1, <1>12 DEF UploadSecret, UpdaterError, WatchError, CloseWatch, Resync, vars
<1> QED
  BY <1>3, <1>4, <1>5, <1>7, <1>8, <1>9, <1>10, <1>11, <1>12
  DEF Next, Proceed, Synchronize, Environment

(* Synchronize never takes back what others have changed in the global       *)
(* config: its settings only change when others change them.                 *)
THEOREM SynchronizeKeepsSettings == Spec => SettingsKept
<1>1. Init => Copies
  BY DEF Init, Copies, CopyCurrent, IdleSync
<1>2. TypeOK /\ Copies /\ [Next]_vars => Copies'
  BY StepKeepsSettings
<1>3. TypeOK /\ Copies /\ [Next]_vars
          => [config'.set # config.set => left'["edit"] < left["edit"]]_vars
  BY StepKeepsSettings
<1> QED BY <1>1, <1>2, <1>3, CertificateTypes, PTL DEF Spec, SettingsKept

---------------------------------------------------------------------------
(* The reconciler holds the certificate of the secret, or is asked again.    *)
Reasked ==
    sync["reconciler"].pc \in {"config", "put"} /\ sync["reconciler"].cert # secret.cert => certQ

LeadInv == NoLostUpdate /\ Reasked

(* Whoever publishes the certificate of the secret brings it into sync.    *)
LEMMA PublishResult ==
    ASSUME TypeOK, NEW a \in Syncs, Publish(a)
    PROVE  /\ config'.crt = sync[a].cert /\ config'.key = FALSE
           /\ overtaken' = (a = "start" /\ sync[a].cert # secret.cert)
<1> DEFINE new == Published(sync[a].snap, sync[a].cert)
<1>1. new.crt = sync[a].cert /\ new.key = FALSE /\ new \in ConfigState
  BY DEF Published, TypeOK, SyncState, ConfigState
<1>2. config' = IF new = config THEN config ELSE [new EXCEPT !.rv = config.rv + 1]
  BY DEF Publish, Write
<1>3. overtaken' = (a = "start" /\ sync[a].cert # secret.cert) BY DEF Publish
<1> HIDE DEF new
<1> QED BY <1>1, <1>2, <1>3 DEF ConfigState

(* A step that queues the request keeps the invariant.                     *)
LEMMA QueuedLeads ==
    ASSUME certQ'
    PROVE  LeadInv'
BY DEF LeadInv, NoLostUpdate, Reasked

(* A step that leaves the certificates and the callers alone keeps it too. *)
LEMMA UntouchedLeads ==
    ASSUME LeadInv, UNCHANGED <<secret, sync, certQ, overtaken>>,
           config'.crt = config.crt, config'.key = config.key
    PROVE  LeadInv'
BY DEF LeadInv, NoLostUpdate, Reasked, Publishable, SecretExists, InSync, Publishing

LEMMA StepLeads ==
    ASSUME TypeOK, LeadInv, [Next]_vars
    PROVE  LeadInv'
<1>1. CASE UNCHANGED <<config, secret, sync, certQ, overtaken>>
  BY <1>1, UntouchedLeads
<1>2. CASE UpdateSecret \/ CreateSecret
  <2>1. CASE Written
    BY <2>1, QueuedLeads DEF Written, Store
  <2>2. CASE ~Written
    BY <1>1, <1>2, <2>2 DEF UpdateSecret, CreateSecret
  <2> QED BY <2>1, <2>2
<1>3. CASE Reconcile
  <2>1. sync'["reconciler"].pc = "secret"
    BY <1>3 DEF Reconcile, TypeOK, SyncState, Syncs
  <2> QED BY <2>1 DEF LeadInv, NoLostUpdate, Reasked, Publishing, Syncs
<1>4. ASSUME NEW a \in Syncs, ReadSecret(a) PROVE LeadInv'
  <2>1. CASE Requeue(a) BY <2>1, QueuedLeads DEF Requeue
  <2>2. CASE ~SecretExists /\ Done(a)
    <3>1. ~Publishable' BY <1>4, <2>2 DEF ReadSecret, Publishable, SecretExists
    <3>2. Reasked'
      BY <1>4, <2>2 DEF ReadSecret, Done, IdleSync, LeadInv, Reasked, TypeOK, Syncs
    <3> QED BY <3>1, <3>2 DEF LeadInv, NoLostUpdate
  <2>3. CASE SecretExists /\ secret.cert.kind # "missing" /\ ~Requeue(a)
    <3>1. sync' = [sync EXCEPT ![a].pc = "config", ![a].cert = secret.cert]
      BY <1>4, <2>3 DEF ReadSecret
    <3>2. sync'[a].pc = "config" /\ sync'[a].cert = secret.cert
      BY <3>1 DEF TypeOK, SyncState
    <3>3. \A b \in Syncs : b # a => sync'[b] = sync[b] BY <3>1 DEF TypeOK
    <3>4. UNCHANGED <<secret, certQ>> BY <1>4, <2>3 DEF ReadSecret, Done
    <3>5. Publishing(a)' BY <3>2, <3>4 DEF Publishing
    <3>6. Reasked' BY <3>2, <3>3, <3>4 DEF LeadInv, Reasked, Syncs
    <3> QED BY <3>5, <3>6 DEF LeadInv, NoLostUpdate
  <2> QED BY <1>4, <2>1, <2>2, <2>3 DEF ReadSecret
<1>5. ASSUME NEW a \in Syncs, UNCHANGED <<config, secret, certQ, overtaken>>,
             sync[a].pc \in {"config", "put"}, sync'[a].pc \in {"config", "put"},
             sync'[a].cert = sync[a].cert, \A b \in Syncs : b # a => sync'[b] = sync[b]
      PROVE  LeadInv'
  <2>1. \A b \in Syncs : Publishing(b) => Publishing(b)'
    BY <1>5 DEF Publishing
  <2>2. Reasked' BY <1>5 DEF LeadInv, Reasked, Syncs
  <2> QED BY <1>5, <2>1, <2>2 DEF LeadInv, NoLostUpdate, Publishable, SecretExists, InSync
<1>6. ASSUME NEW a \in Syncs, GetConfig(a) PROVE LeadInv'
  <2>1. sync[a].pc = "config" /\ sync'[a].pc = "put" /\ sync'[a].cert = sync[a].cert
    BY <1>6 DEF GetConfig, TypeOK, SyncState
  <2>2. \A b \in Syncs : b # a => sync'[b] = sync[b] BY <1>6 DEF GetConfig, TypeOK
  <2> QED BY <1>5, <1>6, <2>1, <2>2 DEF GetConfig
<1>7. ASSUME NEW a \in Syncs, PutConfig(a) PROVE LeadInv'
  <2>1. CASE Retry(a) /\ UNCHANGED <<config, overtaken>>
    <3>1. sync[a].pc = "put" /\ sync'[a].pc = "config" /\ sync'[a].cert = sync[a].cert
      BY <1>7, <2>1 DEF PutConfig, Retry, TypeOK, SyncState
    <3>2. \A b \in Syncs : b # a => sync'[b] = sync[b] BY <2>1 DEF Retry, TypeOK
    <3>3. UNCHANGED <<secret, certQ>> BY <1>7, <2>1 DEF PutConfig, Retry
    <3> QED BY <1>5, <2>1, <3>1, <3>2, <3>3
  <2>2. CASE Requeue(a) BY <2>2, QueuedLeads DEF Requeue
  <2>3. CASE Publish(a) /\ Done(a)
    <3>1. UNCHANGED <<secret, certQ>> /\ sync[a].pc = "put"
      BY <1>7, <2>3 DEF PutConfig, Done
    <3>2. sync'[a].pc = "idle" /\ \A b \in Syncs : b # a => sync'[b] = sync[b]
      BY <2>3 DEF Done, IdleSync, TypeOK
    <3>3. Reasked' BY <3>1, <3>2 DEF LeadInv, Reasked, Syncs
    <3>4. CASE sync[a].cert = secret.cert
      <4>1. InSync' BY <2>3, <3>1, <3>4, PublishResult DEF InSync
      <4> QED BY <3>3, <4>1 DEF LeadInv, NoLostUpdate
    <3>5. CASE sync[a].cert # secret.cert
      <4>1. CASE a = "start"
        BY <2>3, <3>3, <3>5, <4>1, PublishResult DEF LeadInv, NoLostUpdate
      <4>2. CASE a = "reconciler"
        BY <3>1, <3>5, <4>2, QueuedLeads DEF LeadInv, Reasked
      <4> QED BY <4>1, <4>2 DEF Syncs
    <3> QED BY <3>4, <3>5
  <2> QED BY <1>7, <2>1, <2>2, <2>3 DEF PutConfig
<1>8. CASE ManagerEnds
  <2>1. Started /\ secret' = secret
    BY <1>8 DEF ManagerEnds, StartFails, StartError, Crash
  <2>2. certQ' = SecretExists /\ sync'["reconciler"].pc = "idle"
    BY <2>1 DEF Started, IdleSync, Syncs
  <2>3. Publishable' => certQ' BY <2>1, <2>2 DEF Publishable, SecretExists
  <2> QED BY <2>2, <2>3 DEF LeadInv, NoLostUpdate, Reasked
<1>9. CASE EditConfig
  <2>1. config'.crt = config.crt /\ config'.key = config.key
    BY <1>9 DEF EditConfig, Write, TypeOK, ConfigState
  <2> QED BY <1>9, <2>1, UntouchedLeads DEF EditConfig
<1>10. CASE UploadSecret \/ ReconcilerError \/ Resync
  BY <1>10, QueuedLeads DEF UploadSecret, Store, ReconcilerError, Requeue, Resync
<1>11. CASE CheckType \/ CompareCertificate \/ HandleFqdnChange \/ ReadPrevious
            \/ CreateCertificate \/ StartWatch \/ ReceiveEvent
  BY <1>1, <1>11 DEF CheckType, CompareCertificate, HandleFqdnChange, ReadPrevious,
     CreateCertificate, StartWatch, ReceiveEvent
<1>12. CASE UpdaterError \/ WatchError \/ CloseWatch \/ UNCHANGED vars
  BY <1>1, <1>12 DEF UpdaterError, WatchError, CloseWatch, vars
<1> QED
  BY <1>2, <1>3, <1>4, <1>6, <1>7, <1>8, <1>9, <1>10, <1>11, <1>12
  DEF Next, Proceed, Update, Synchronize, Environment

(* "Make certificate secret leading": a certificate that is not yet in the   *)
(* global config is about to be written there, whatever the two callers of   *)
(* Synchronize hold, unless the first one has just overtaken the other.      *)
THEOREM SecretLeads == Spec => []NoLostUpdate
<1>1. Init => LeadInv
  <2> SUFFICES ASSUME Init PROVE LeadInv
    OBVIOUS
  <2>1. sync["reconciler"].pc = "idle" /\ sync["start"].pc = "secret"
    BY DEF Init, IdleSync, Syncs
  <2> QED BY <2>1 DEF LeadInv, NoLostUpdate, Reasked, Publishing, Syncs
<1>2. TypeOK /\ LeadInv /\ [Next]_vars => LeadInv'
  BY StepLeads
<1>3. LeadInv => NoLostUpdate
  BY DEF LeadInv
<1> QED BY <1>1, <1>2, <1>3, CertificateTypes, PTL DEF Spec

---------------------------------------------------------------------------
(* A change the updater still has to hear of, or will never hear of.       *)
Noted == events > 0 \/ missed

Fits ==
    config.set.type = "selfsigned" /\ Creatable(config.set) /\ secret.cert.kind = "self"
        => Covers(secret.cert, config.set)

(* What the updater has read is still so, or it has missed a change: before   *)
(* the watch every change is missed, after it every change is an event.      *)
FollowInv ==
    /\ upd.pc \in {"check", "compare", "watch"} => ~upd.watch
    /\ upd.pc = "wait" => upd.watch
    /\ upd.pc = "compare" => upd.set = config.set \/ missed
    /\ upd.pc \in {"previous", "create"} => upd.set.alts = config.set.alts \/ Noted
    /\ upd.pc \in {"write", "writeNew"} => Covers(upd.new, config.set) \/ Noted
    /\ upd.pc \in {"watch", "wait"} => Fits \/ Noted
    /\ upd.pc = "closed" => Fits \/ missed

(* A step of others that keeps the settings, the updater and what it waits   *)
(* for keeps the invariant; the secret may only turn into another kind.      *)
LEMMA OthersFollow ==
    ASSUME FollowInv, config'.set = config.set, UNCHANGED <<upd, events, missed>>,
           secret' = secret \/ secret'.cert.kind # "self"
    PROVE  FollowInv'
BY DEF FollowInv, Noted, Fits

(* Where the updater goes on after an error, or when nothing is to be done. *)
LEMMA RestFollows ==
    ASSUME upd \in UpdaterState, upd' = Rest(upd),
           (Fits \/ Noted)'
    PROVE  FollowInv'
<1>1. /\ upd'.pc = IF upd.watch THEN "wait" ELSE "watch"
      /\ upd'.watch = upd.watch
  BY DEF Rest, Fresh
<1> QED BY <1>1 DEF FollowInv

LEMMA LoggedFollows ==
    ASSUME upd \in UpdaterState, Logged
    PROVE  FollowInv'
BY RestFollows DEF Logged, Noted

(* Publishing does not change what the watch looks at.                     *)
LEMMA PublishUnnoticed ==
    ASSUME TypeOK, Copies, NEW a \in Syncs, sync[a].pc = "put", ~Conflict(a), Publish(a)
    PROVE  config'.set = config.set /\ events' = events
<1>1. config'.set = config.set BY PublishKeepsSettings
<1>2. PICK w : config' = w /\ Write(w) BY DEF Publish, Write
<1> QED BY <1>1, <1>2 DEF Write, Watched

(* Settings are told apart by their four keys.                             *)
LEMMA SettingsEqual ==
    ASSUME NEW S \in Settings, NEW T \in Settings,
           S.fqdn = T.fqdn, S.domain = T.domain, S.alts = T.alts, S.type = T.type
    PROVE  S = T
<1>1. S = [fqdn |-> S.fqdn, domain |-> S.domain, alts |-> S.alts, type |-> S.type]
  BY DEF Settings
<1>2. T = [fqdn |-> T.fqdn, domain |-> T.domain, alts |-> T.alts, type |-> T.type]
  BY DEF Settings
<1> QED BY <1>1, <1>2

(* A change by others is an event, or missed, or comes before the check.   *)
LEMMA EditNoted ==
    ASSUME TypeOK, FollowInv, EditConfig
    PROVE  /\ upd.pc # "check" => Noted'
           /\ ~upd.watch /\ upd.pc # "check" => missed'
           /\ upd.pc = "closed" => missed'
<1>1. PICK S \in Edits \ {config.set} :
          LET new == [config EXCEPT !.set = S, !.rv = @ + 1]
          IN  /\ Write(new)
              /\ missed' = (\/ missed \/ upd.pc = "closed"
                            \/ ~upd.watch /\ upd.pc # "check"
                            \/ S.type # config.set.type /\ ~Watched(config, new))
  BY DEF EditConfig
<1> DEFINE new == [config EXCEPT !.set = S, !.rv = @ + 1]
<1>2. new.set = S /\ S \in Settings /\ config.set \in Settings
  BY CertificatesAssumption DEF TypeOK, ConfigState
<1>3. Watched(config, new) \/ S.type # config.set.type
  <2> SUFFICES ASSUME ~Watched(config, new), S.type = config.set.type PROVE FALSE
    OBVIOUS
  <2>1. S.fqdn = config.set.fqdn /\ S.domain = config.set.domain /\ S.alts = config.set.alts
    BY <1>2 DEF Watched
  <2>2. S = config.set BY <1>2, <2>1, SettingsEqual
  <2> QED BY <1>1, <2>2
<1>4. Watched(config, new) /\ upd.watch /\ upd.pc # "closed" => events' = events + 1
  BY <1>1 DEF Write
<1>5. (~upd.watch /\ upd.pc # "check") \/ upd.pc = "closed" => missed'
  BY <1>1
<1>6. S.type # config.set.type /\ ~Watched(config, new) => missed'
  BY <1>1
<1>7. events \in Nat BY DEF TypeOK
<1> HIDE DEF new
<1> QED BY <1>3, <1>4, <1>5, <1>6, <1>7 DEF Noted

LEMMA StepFollows ==
    ASSUME TypeOK, Copies, FollowInv, [Next]_vars
    PROVE  FollowInv'
<1>0. /\ upd \in UpdaterState /\ config \in ConfigState /\ events \in Nat
      /\ config.set \in Settings
  BY DEF TypeOK, ConfigState
<1>1. CASE Logged BY <1>0, <1>1, LoggedFollows
<1>2. CASE CheckType /\ ~Logged
  <2>1. CASE config.set.type = "external" /\ upd' = Rest(upd)
    <3>1. Fits' BY <1>2, <2>1 DEF CheckType, Fits
    <3> QED BY <1>0, <2>1, <3>1, RestFollows
  <2>2. CASE upd' = [upd EXCEPT !.pc = "compare", !.set = config.set]
    <3>1. upd'.pc = "compare" /\ upd'.set = config.set /\ upd'.watch = upd.watch
      BY <1>0, <2>2 DEF UpdaterState
    <3> QED BY <1>2, <3>1 DEF CheckType, FollowInv
  <2> QED BY <1>2, <2>1, <2>2 DEF CheckType
<1>3. CASE CompareCertificate /\ ~Logged
  <2>1. CASE upd' = [upd EXCEPT !.pc = "handle", !.set = NoSettings]
    BY <1>0, <2>1 DEF UpdaterState, FollowInv
  <2>2. CASE upd' = Rest(upd) /\ Covers(secret.cert, upd.set)
    <3>1. UNCHANGED <<secret, config, missed, events>> /\ upd.pc = "compare"
      BY <1>3 DEF CompareCertificate
    <3>2. (Fits \/ Noted)' BY <2>2, <3>1 DEF FollowInv, Fits, Noted
    <3> QED BY <1>0, <2>2, <3>2, RestFollows
  <2> QED BY <1>3, <2>1, <2>2 DEF CompareCertificate
<1>4. CASE HandleFqdnChange /\ ~Logged
  <2>1. CASE config.set.type = "external" /\ upd' = Rest(upd)
    <3>1. Fits' BY <1>4, <2>1 DEF HandleFqdnChange, Fits
    <3> QED BY <1>0, <2>1, <3>1, RestFollows
  <2>2. CASE upd' = [upd EXCEPT !.pc = "previous", !.set = config.set]
    <3>1. upd'.pc = "previous" /\ upd'.set = config.set
      BY <1>0, <2>2 DEF UpdaterState
    <3> QED BY <1>4, <3>1 DEF HandleFqdnChange, FollowInv
  <2> QED BY <1>4, <2>1, <2>2 DEF HandleFqdnChange
<1>5. CASE ReadPrevious /\ ~Logged
  <2>1. upd.pc = "previous" /\ upd' = [upd EXCEPT !.pc = "create"]
    BY <1>5 DEF ReadPrevious
  <2>2. upd'.pc = "create" /\ upd'.set = upd.set BY <1>0, <2>1 DEF UpdaterState
  <2> QED BY <1>5, <2>1, <2>2 DEF ReadPrevious, FollowInv, Noted
<1>6. CASE CreateCertificate /\ ~Logged
  <2> DEFINE new == Generated(config.set, SharedNames(upd.set))
  <2>1. upd.pc = "create" /\ upd' = [upd EXCEPT !.pc = "write", !.set = NoSettings, !.new = new]
        /\ UNCHANGED <<config, events, missed>>
    BY <1>6 DEF CreateCertificate
  <2>2. upd'.pc = "write" /\ upd'.new = new BY <1>0, <2>1 DEF UpdaterState
  <2>3. upd.set.alts = config.set.alts => Covers(new, config.set)
    BY DEF Covers, Generated, SharedNames
  <2> HIDE DEF new
  <2> QED BY <2>1, <2>2, <2>3 DEF FollowInv, Noted
<1>7. CASE (UpdateSecret \/ CreateSecret) /\ Written
  <2>1. upd.pc \in {"write", "writeNew"} /\ UNCHANGED <<config, events>>
    BY <1>7 DEF UpdateSecret, CreateSecret
  <2>2. /\ upd' = Rest(upd) /\ missed' = (missed /\ ~Covers(upd.new, config.set))
        /\ secret'.cert = [upd.new EXCEPT !.no = secret.rv + 1]
    BY <1>7 DEF Written, Store
  <2>3. secret'.cert.names = upd.new.names /\ secret'.cert.org = upd.new.org
    BY <1>0, <2>2 DEF UpdaterState, Certificate
  <2>4. Covers(upd.new, config.set) => Covers(secret'.cert, config'.set)
    BY <2>1, <2>3 DEF Covers
  <2>5. (Fits \/ Noted)' BY <2>1, <2>2, <2>4 DEF FollowInv, Fits, Noted
  <2> QED BY <1>0, <2>2, <2>5, RestFollows
<1>8. CASE UpdateSecret /\ ~Written
  <2>1. upd.pc = "write" /\ upd' = [upd EXCEPT !.pc = "writeNew"] /\ UNCHANGED <<config, events, missed>>
    BY <1>8 DEF UpdateSecret
  <2>2. upd'.pc = "writeNew" /\ upd'.new = upd.new BY <1>0, <2>1 DEF UpdaterState
  <2> QED BY <2>1, <2>2 DEF FollowInv, Noted
<1>9. CASE StartWatch
  <2>1. upd.pc = "watch" /\ upd' = Rest([upd EXCEPT !.watch = TRUE])
        /\ UNCHANGED <<config, secret, events, missed>>
    BY <1>9 DEF StartWatch
  <2>2. upd'.pc = "wait" /\ upd'.watch = TRUE BY <1>0, <2>1 DEF Rest, Fresh, UpdaterState
  <2> QED BY <2>1, <2>2 DEF FollowInv, Fits, Noted
<1>10. CASE ReceiveEvent
  BY <1>0, <1>10 DEF ReceiveEvent, UpdaterState, FollowInv
<1>11. CASE EditConfig
  <2>1. upd' = upd BY <1>11 DEF EditConfig
  <2> QED BY <1>11, <2>1, EditNoted DEF FollowInv
<1>12. ASSUME NEW a \in Syncs, sync[a].pc = "put", ~Conflict(a), Publish(a),
              UNCHANGED <<secret, upd, missed>>
       PROVE  FollowInv'
  BY <1>12, PublishUnnoticed, OthersFollow
<1>13. ASSUME NEW a \in Syncs, Synchronize(a) PROVE FollowInv'
  <2>1. CASE UNCHANGED <<config, events>>
    BY <1>13, <2>1, OthersFollow DEF Synchronize, ReadSecret, GetConfig, PutConfig
  <2>2. CASE PutConfig(a) /\ ~Conflict(a) /\ Publish(a)
    BY <1>12, <2>2 DEF PutConfig
  <2> QED BY <1>13, <2>1, <2>2 DEF Synchronize, ReadSecret, GetConfig, PutConfig
<1>14. CASE ReconcilerError
  <2>1. CASE UNCHANGED <<config, events>>
    BY <1>14, <2>1, OthersFollow DEF ReconcilerError
  <2>2. CASE sync["reconciler"].pc = "put" /\ ~Conflict("reconciler") /\ Publish("reconciler")
    BY <1>12, <1>14, <2>2 DEF ReconcilerError, Syncs
  <2> QED BY <1>14, <2>1, <2>2 DEF ReconcilerError
<1>15. CASE UploadSecret
  <2>1. PICK k \in Uploads : IF k = "none"
            THEN secret' = [cert |-> NoCertificate, rv |-> secret.rv + 1] /\ certQ' = TRUE
            ELSE Store([NoCertificate EXCEPT !.kind = k])
    BY <1>15 DEF UploadSecret
  <2>2. secret'.cert.kind # "self"
    <3>1. CASE k = "none"
      <4>1. secret'.cert = NoCertificate BY <2>1, <3>1
      <4>2. NoCertificate.kind = "none" BY DEF NoCertificate
      <4> QED BY <4>1, <4>2
    <3>2. CASE k # "none"
      <4>1. secret'.cert = [[NoCertificate EXCEPT !.kind = k] EXCEPT !.no = secret.rv + 1]
        BY <2>1, <3>2 DEF Store
      <4>2. secret'.cert.kind = k BY <4>1 DEF NoCertificate
      <4> QED BY <4>2, CertificatesAssumption
    <3> QED BY <3>1, <3>2
  <2> QED BY <1>15, <2>2, OthersFollow DEF UploadSecret
<1>16. CASE ManagerEnds
  BY <1>16 DEF ManagerEnds, StartFails, StartError, Crash, Started, Fresh, FollowInv
<1>17. CASE WatchError
  BY <1>17 DEF WatchError, FollowInv, Noted
<1>18. CASE CloseWatch
  <2>1. upd.pc = "wait" /\ upd'.pc = "closed" /\ UNCHANGED <<config, secret>>
    BY <1>0, <1>18 DEF CloseWatch, UpdaterState
  <2>2. Noted => missed' BY <1>18 DEF CloseWatch, Noted
  <2> QED BY <2>1, <2>2 DEF FollowInv, Fits
<1>19. CASE Reconcile \/ Resync \/ UNCHANGED vars
  BY <1>19, OthersFollow DEF Reconcile, Resync, vars
<1>20. CASE Update
  BY <1>1, <1>2, <1>3, <1>4, <1>5, <1>6, <1>7, <1>8, <1>9, <1>10, <1>20
  DEF Update, CreateSecret
<1>21. CASE UpdaterError
  BY <1>1, <1>21 DEF UpdaterError
<1> QED
  BY <1>11, <1>13, <1>14, <1>15, <1>16, <1>17, <1>18, <1>19, <1>20, <1>21
  DEF Next, Proceed, Environment

(* A self-signed certificate that lacks a name or has another domain than    *)
(* the global config will be replaced, though the updater reads the global   *)
(* config twice and publishing writes the object it watches, unless it has   *)
(* dropped a change.                                                         *)
THEOREM CertificateFollowsConfig == Spec => []CertificateFollows
<1>1. Init => FollowInv /\ Copies
  BY DEF Init, Fresh, FollowInv, Copies, CopyCurrent, IdleSync
<1>2. TypeOK /\ Copies /\ FollowInv /\ [Next]_vars => FollowInv' /\ Copies'
  BY StepFollows, StepKeepsSettings
<1>3. FollowInv => CertificateFollows
  BY DEF FollowInv, Fits, Noted, CertificateFollows, Busy
<1> QED BY <1>1, <1>2, <1>3, CertificateTypes, PTL DEF Spec

---------------------------------------------------------------------------
(* OncePerChange.  What the updater may still write without anything new      *)
(* happening is bounded by what has happened: it owes one write for what it   *)
(* is at work on, and one for each event, or one if the certificate will be   *)
(* out of date and the manager is started again.                              *)

Replaces(S) == ~SecretExists \/ ~Covers(secret.cert, S)

AtWork ==
    \/ upd.pc \in {"handle", "previous", "create", "write", "writeNew"}
    \/ upd.pc = "compare" /\ Replaces(upd.set)

(* Would the certificate not fit the settings after the write under way?     *)
Outdated ==
    \/ upd.pc \in {"write", "writeNew"} /\ ~Covers(upd.new, config.set)
    \/ /\ upd.pc \in {"previous", "create"}
       /\ ~Covers(Generated(config.set, SharedNames(upd.set)), config.set)
    \/ ~AtWork /\ Replaces(config.set)

Owed(w, n, o) == (IF w THEN 1 ELSE 0) + (IF n > 0 THEN n ELSE IF o THEN 1 ELSE 0)
Due == Owed(AtWork, events, Outdated)

(* Before the watch there are no events, and what is written is a            *)
(* certificate.                                                              *)
Orderly ==
    /\ ~upd.watch => events = 0
    /\ upd.pc \in {"write", "writeNew"} => upd.new.kind # "none"

Accounted == secret.rv - InitSecret.no + Due <= 1 + Spent("any") + Spent("upload")

LEMMA OwedBounds ==
    ASSUME NEW w \in BOOLEAN, NEW n \in Nat, NEW o \in BOOLEAN,
           NEW v \in BOOLEAN, NEW m \in Nat, NEW p \in BOOLEAN
    PROVE  /\ Owed(w, n, o) \in Nat
           /\ (v => w) /\ m <= n + 1 => Owed(v, m, p) <= Owed(w, n, o) + 1
           /\ w /\ ~v /\ m <= n => Owed(v, m, p) <= Owed(w, n, o)
           /\ w /\ ~v /\ m = n /\ p = o => Owed(v, m, p) = Owed(w, n, o) - 1
           /\ (w \/ (o = p)) /\ ~v /\ m = 0 => Owed(v, m, p) <= Owed(w, n, o)
           /\ w /\ ~o /\ ~p /\ m = n => Owed(v, m, p) <= Owed(w, n, o)
           /\ n = 0 /\ m = 0 /\ ~p /\ ~w /\ (v => o) => Owed(v, m, p) <= Owed(w, n, o)
           /\ m = n - 1 /\ ~w /\ ~p => Owed(v, m, p) <= Owed(w, n, o)
           /\ m = 0 /\ n = 0 /\ ~p => Owed(v, m, p) <= Owed(w, n, o) + 1
BY DEF Owed

LEMMA AccountTypes ==
    ASSUME TypeOK
    PROVE  /\ AtWork \in BOOLEAN /\ Outdated \in BOOLEAN /\ events \in Nat
           /\ Due \in Nat /\ secret.rv \in Nat /\ InitSecret.no \in Nat
           /\ Spent("any") \in Int /\ Spent("upload") \in Int
<1>1. AtWork \in BOOLEAN /\ Outdated \in BOOLEAN /\ events \in Nat
  BY DEF AtWork, Outdated, TypeOK
<1>2. Due \in Nat
  BY <1>1, OwedBounds DEF Due
<1>3. secret.rv \in Nat /\ InitSecret.no \in Nat
  BY CertificatesAssumption DEF TypeOK, SecretState, Certificate
<1>4. /\ Budget["any"] \in Nat /\ Budget["upload"] \in Nat
      /\ left["any"] \in Nat /\ left["upload"] \in Nat
  BY CertificatesAssumption DEF TypeOK, EventKinds
<1> QED BY <1>1, <1>2, <1>3, <1>4 DEF Spent

LEMMA DueNext ==
    ASSUME TypeOK'
    PROVE  AtWork' \in BOOLEAN /\ Outdated' \in BOOLEAN /\ events' \in Nat /\ Due' \in Nat
<1>1. AtWork' \in BOOLEAN /\ Outdated' \in BOOLEAN /\ events' \in Nat
  BY DEF AtWork, Outdated, TypeOK
<1> QED BY <1>1, OwedBounds DEF Due

(* What an event of the environment adds to the account.                     *)
LEMMA SpendAccount ==
    ASSUME TypeOK, NEW k \in EventKinds \ {"any"}, Spend(k)
    PROVE  /\ Spent("any")' = Spent("any") + 1
           /\ k = "upload" => Spent("upload")' = Spent("upload") + 1
           /\ k # "upload" => Spent("upload")' = Spent("upload")
<1>1. left' = [left EXCEPT ![k] = left[k] - 1, !["any"] = left["any"] - 1]
  BY DEF Spend
<1>2. /\ left'["any"] = left["any"] - 1
      /\ k = "upload" => left'["upload"] = left["upload"] - 1
      /\ k # "upload" => left'["upload"] = left["upload"]
  BY <1>1 DEF TypeOK, EventKinds
<1>3. /\ Budget["any"] \in Nat /\ Budget["upload"] \in Nat
      /\ left["any"] \in Nat /\ left["upload"] \in Nat
  BY CertificatesAssumption DEF TypeOK, EventKinds
<1> QED BY <1>2, <1>3 DEF Spent

LEMMA AccountFree ==
    ASSUME TypeOK, TypeOK', Accounted, UNCHANGED <<secret, left>>, Due' <= Due
    PROVE  Accounted'
<1>1. Spent("any")' = Spent("any") /\ Spent("upload")' = Spent("upload") BY DEF Spent
<1>2. Due' \in Nat BY DueNext
<1> QED BY <1>1, <1>2, AccountTypes DEF Accounted

LEMMA AccountSpent ==
    ASSUME TypeOK, TypeOK', Accounted, UNCHANGED secret,
           NEW k \in EventKinds \ {"any", "upload"}, Spend(k), Due' <= Due + 1
    PROVE  Accounted'
<1>1. Spent("any")' = Spent("any") + 1 /\ Spent("upload")' = Spent("upload")
  BY SpendAccount
<1>2. Due' \in Nat BY DueNext
<1> QED BY <1>1, <1>2, AccountTypes DEF Accounted

(* Where the updater is after an error, or when nothing is to be done.       *)
LEMMA RestOwes ==
    ASSUME upd' = Rest(upd), UNCHANGED config
    PROVE  /\ ~AtWork' /\ (Outdated' <=> Replaces(config.set)')
           /\ upd'.watch = upd.watch /\ upd'.pc \in {"wait", "watch"}
<1>1. upd'.pc \in {"wait", "watch"} /\ upd'.watch = upd.watch BY DEF Rest, Fresh
<1>2. ~AtWork' BY <1>1 DEF AtWork
<1>3. Outdated' <=> Replaces(config.set)' BY <1>1, <1>2 DEF Outdated
<1> QED BY <1>1, <1>2, <1>3

(* Publishing, reading and queueing leave the account as it is.              *)
LEMMA OthersOwe ==
    ASSUME config'.set = config.set, UNCHANGED <<upd, events, secret>>
    PROVE  Due' = Due
<1>1. Replaces(config.set)' = Replaces(config.set) /\ Replaces(upd.set)' = Replaces(upd.set)
  BY DEF Replaces, SecretExists
<1>2. AtWork' = AtWork BY <1>1 DEF AtWork
<1>3. Outdated' = Outdated BY <1>1, <1>2 DEF Outdated
<1> QED BY <1>2, <1>3 DEF Due

(* What handleFqdnChange reads last is what the certificate is made from.    *)
LEMMA GeneratedCovers ==
    ASSUME NEW S PROVE Covers(Generated(S, SharedNames(S)), S)
BY DEF Covers, Generated

(* The steps of the updater that do not write the secret.                    *)
LEMMA UpdaterOwes ==
    ASSUME TypeOK, TypeOK', FollowInv, Orderly,
           Update, UNCHANGED <<secret, left>>
    PROVE  Due' <= Due
<1>0. upd \in UpdaterState /\ events \in Nat BY DEF TypeOK
<1> USE AccountTypes, DueNext
<1>r. Replaces(config.set)' <=> Replaces(config'.set) BY DEF Replaces, SecretExists
<1>1. ASSUME upd' = Rest(upd), UNCHANGED <<config, events>> PROVE Due' <= Due
  <2>1. ~AtWork' /\ (Outdated' <=> Replaces(config.set)) BY <1>1, <1>r, RestOwes
  <2>2. CASE AtWork
    <3>1. AtWork /\ ~AtWork' /\ events' <= events BY <1>0, <1>1, <2>1, <2>2
    <3>2. Owed(AtWork', events', Outdated') <= Owed(AtWork, events, Outdated)
      BY <3>1, OwedBounds
    <3> QED BY <3>2 DEF Due
  <2>3. CASE ~AtWork
    <3>1. Outdated <=> Replaces(config.set) BY <2>3 DEF Outdated, AtWork
    <3>2. (AtWork' = AtWork) /\ (Outdated' = Outdated) BY <2>1, <2>3, <3>1
    <3> QED BY <1>1, <3>2 DEF Due
  <2> QED BY <2>2, <2>3
<1>2. CASE CheckType /\ upd' # Rest(upd)
  <2>1. /\ upd.pc = "check" /\ upd' = [upd EXCEPT !.pc = "compare", !.set = config.set]
        /\ UNCHANGED <<config, events>>
    BY <1>2 DEF CheckType, Logged
  <2>2. upd'.pc = "compare" /\ upd'.set = config.set BY <1>0, <2>1 DEF UpdaterState
  <2>3. events = 0 BY <2>1 DEF Orderly, FollowInv
  <2>4. Replaces(upd.set)' <=> Replaces(config.set)
    BY <2>2 DEF Replaces, SecretExists
  <2>5. ~AtWork /\ (Outdated <=> Replaces(config.set)) BY <2>1 DEF AtWork, Outdated
  <2>6. (AtWork' <=> Replaces(config.set)) BY <2>2, <2>4 DEF AtWork
  <2>7. ~Outdated' BY <1>r, <2>1, <2>2, <2>6 DEF Outdated
  <2>8. events' = 0 BY <2>1, <2>3
  <2> QED BY <2>3, <2>5, <2>6, <2>7, <2>8, OwedBounds DEF Due
<1>3. CASE CompareCertificate /\ upd' # Rest(upd)
  <2>1. /\ upd.pc = "compare" /\ upd' = [upd EXCEPT !.pc = "handle", !.set = NoSettings]
        /\ Replaces(upd.set) /\ UNCHANGED <<config, events>>
    BY <1>3 DEF CompareCertificate, Logged, Replaces
  <2>2. upd'.pc = "handle" BY <1>0, <2>1 DEF UpdaterState
  <2>3. AtWork /\ ~Outdated BY <2>1 DEF AtWork, Outdated
  <2>4. AtWork' BY <2>2 DEF AtWork
  <2>5. ~Outdated' BY <2>2, <2>4 DEF Outdated
  <2> QED BY <2>1, <2>3, <2>4, <2>5, OwedBounds DEF Due
<1>4. CASE HandleFqdnChange /\ upd' # Rest(upd)
  <2>1. /\ upd.pc = "handle" /\ upd' = [upd EXCEPT !.pc = "previous", !.set = config.set]
        /\ UNCHANGED <<config, events>>
    BY <1>4 DEF HandleFqdnChange, Logged
  <2>2. upd'.pc = "previous" /\ upd'.set = config.set BY <1>0, <2>1 DEF UpdaterState
  <2>3. AtWork /\ ~Outdated BY <2>1 DEF AtWork, Outdated
  <2>4. AtWork' BY <2>2 DEF AtWork
  <2>5. ~Outdated' BY <2>1, <2>2, <2>4, GeneratedCovers DEF Outdated
  <2> QED BY <2>1, <2>3, <2>4, <2>5, OwedBounds DEF Due
<1>5. CASE ReadPrevious /\ upd' # Rest(upd)
  <2>1. /\ upd.pc = "previous" /\ upd' = [upd EXCEPT !.pc = "create"]
        /\ UNCHANGED <<config, events>>
    BY <1>5 DEF ReadPrevious, Logged
  <2>2. upd'.pc = "create" /\ upd'.set = upd.set BY <1>0, <2>1 DEF UpdaterState
  <2>3. AtWork /\ AtWork' BY <2>1, <2>2 DEF AtWork
  <2>4. Outdated' <=> Outdated BY <2>1, <2>2, <2>3 DEF Outdated
  <2>5. (AtWork' = AtWork) /\ (Outdated' = Outdated) BY <2>3, <2>4
  <2> QED BY <2>1, <2>5 DEF Due
<1>6. CASE CreateCertificate /\ upd' # Rest(upd)
  <2> DEFINE new == Generated(config.set, SharedNames(upd.set))
  <2>1. /\ upd.pc = "create" /\ UNCHANGED <<config, events>>
        /\ upd' = [upd EXCEPT !.pc = "write", !.set = NoSettings, !.new = new]
    BY <1>6 DEF CreateCertificate, Logged
  <2>2. upd'.pc = "write" /\ upd'.new = new BY <1>0, <2>1 DEF UpdaterState
  <2>3. AtWork /\ AtWork' BY <2>1, <2>2 DEF AtWork
  <2>4. Outdated <=> ~Covers(new, config.set) BY <2>1, <2>3 DEF Outdated
  <2>5. Outdated' <=> ~Covers(new, config.set) BY <2>1, <2>2, <2>3 DEF Outdated
  <2>6. (AtWork' = AtWork) /\ (Outdated' = Outdated) BY <2>3, <2>4, <2>5
  <2> QED BY <2>1, <2>6 DEF Due
<1>7. CASE UpdateSecret \/ CreateSecret
  <2>1. CASE upd' = Rest(upd)
    BY <1>1, <1>7, <2>1 DEF UpdateSecret, CreateSecret
  <2>2. CASE upd' # Rest(upd)
    <3>1. /\ upd.pc = "write" /\ upd' = [upd EXCEPT !.pc = "writeNew"]
          /\ UNCHANGED <<config, events>>
      BY <1>7, <2>2 DEF UpdateSecret, CreateSecret, Written, Logged
    <3>2. upd'.pc = "writeNew" /\ upd'.new = upd.new BY <1>0, <3>1 DEF UpdaterState
    <3>3. AtWork /\ AtWork' BY <3>1, <3>2 DEF AtWork
    <3>4. Outdated' <=> Outdated BY <3>1, <3>2, <3>3 DEF Outdated
    <3>5. (AtWork' = AtWork) /\ (Outdated' = Outdated) BY <3>3, <3>4
    <3> QED BY <3>1, <3>5 DEF Due
  <2> QED BY <2>1, <2>2
<1>8. CASE StartWatch
  <2>1. /\ upd.pc = "watch" /\ upd' = Rest([upd EXCEPT !.watch = TRUE])
        /\ UNCHANGED <<config, events>>
    BY <1>8 DEF StartWatch
  <2>2. upd'.pc = "wait" BY <1>0, <2>1 DEF Rest, Fresh, UpdaterState
  <2>3. ~AtWork /\ ~AtWork' BY <2>1, <2>2 DEF AtWork
  <2>4. (Outdated <=> Replaces(config.set)) /\ (Outdated' <=> Replaces(config.set))
    BY <1>r, <2>1, <2>2, <2>3 DEF Outdated
  <2>5. (AtWork' = AtWork) /\ (Outdated' = Outdated) BY <2>3, <2>4
  <2> QED BY <2>1, <2>5 DEF Due
<1>9. CASE ReceiveEvent
  <2>1. upd.pc = "wait" /\ events' = events - 1 /\ upd' = [upd EXCEPT !.pc = "handle"]
    BY <1>9 DEF ReceiveEvent
  <2>2. upd'.pc = "handle" BY <1>0, <2>1 DEF UpdaterState
  <2>3. ~AtWork /\ AtWork' BY <2>1, <2>2 DEF AtWork
  <2>4. ~Outdated' BY <2>2, <2>3 DEF Outdated
  <2> QED BY <2>1, <2>3, <2>4, OwedBounds DEF Due
<1>10. CASE upd' = Rest(upd) /\ UNCHANGED <<config, events>>
  BY <1>1, <1>10
<1>11. CheckType \/ CompareCertificate \/ HandleFqdnChange \/ ReadPrevious
          \/ CreateCertificate => UNCHANGED <<config, events>>
  BY DEF CheckType, CompareCertificate, HandleFqdnChange, ReadPrevious, CreateCertificate
<1> QED
  BY <1>2, <1>3, <1>4, <1>5, <1>6, <1>7, <1>8, <1>9, <1>10, <1>11 DEF Update

(* A write of the updater is the one it owed.                                *)
LEMMA WrittenAccounted ==
    ASSUME TypeOK, TypeOK', Orderly, Accounted, UpdateSecret \/ CreateSecret, Written
    PROVE  Accounted'
<1>1. upd.pc \in {"write", "writeNew"} /\ UNCHANGED <<config, events, left>>
  BY DEF UpdateSecret, CreateSecret
<1>2. /\ upd' = Rest(upd) /\ secret'.rv = secret.rv + 1
      /\ secret'.cert = [upd.new EXCEPT !.no = secret.rv + 1]
  BY DEF Written, Store
<1>3. upd.new \in Certificate BY DEF TypeOK, UpdaterState
<1>4. /\ secret'.cert.names = upd.new.names /\ secret'.cert.org = upd.new.org
      /\ secret'.cert.kind = upd.new.kind
  BY <1>2, <1>3 DEF Certificate
<1>5. AtWork BY <1>1 DEF AtWork
<1>6. Outdated <=> ~Covers(upd.new, config.set) BY <1>1, <1>5 DEF Outdated
<1>7. Replaces(config.set)' <=> ~Covers(upd.new, config.set)
  BY <1>1, <1>4 DEF Replaces, SecretExists, Covers, Orderly
<1>8. ~AtWork' /\ (Outdated' <=> Outdated) BY <1>1, <1>2, <1>6, <1>7, RestOwes
<1>9. Owed(AtWork', events', Outdated') = Owed(AtWork, events, Outdated) - 1
  <2>1. Outdated' = Outdated BY <1>8, AccountTypes, DueNext
  <2>2. events' = events BY <1>1
  <2> QED BY <1>5, <1>8, <2>1, <2>2, OwedBounds, AccountTypes, DueNext
<1>10. Due' = Due - 1 BY <1>9 DEF Due
<1>11. Spent("any")' = Spent("any") /\ Spent("upload")' = Spent("upload")
  BY <1>1 DEF Spent
<1> QED BY <1>2, <1>10, <1>11, AccountTypes DEF Accounted

(* An upload is a write, and may make the updater replace what was uploaded. *)
LEMMA UploadAccounted ==
    ASSUME TypeOK, TypeOK', FollowInv, Orderly, Accounted, UploadSecret
    PROVE  Accounted'
<1>1. UNCHANGED <<config, upd, events>> /\ Spend("upload") BY DEF UploadSecret
<1>2. secret'.rv = secret.rv + 1 BY DEF UploadSecret, Store
<1>3. Owed(AtWork', events', Outdated') <= Owed(AtWork, events, Outdated) + 1
  <2> USE AccountTypes, DueNext
  <2>1. CASE AtWork' => AtWork
    <3>1. events' <= events + 1 BY <1>1
    <3> QED BY <2>1, <3>1, OwedBounds
  <2>2. CASE AtWork' /\ ~AtWork
    <3>1. upd.pc = "compare" /\ upd'.pc = "compare" BY <1>1, <2>2 DEF AtWork
    <3>2. events = 0 /\ events' = 0 BY <1>1, <3>1 DEF FollowInv, Orderly
    <3>3. ~Outdated' BY <2>2, <3>1 DEF Outdated
    <3> QED BY <3>2, <3>3, OwedBounds
  <2> QED BY <2>1, <2>2
<1>4. Due' <= Due + 1 BY <1>3 DEF Due
<1>5. Spent("any")' = Spent("any") + 1 /\ Spent("upload")' = Spent("upload") + 1
  BY <1>1, SpendAccount DEF EventKinds
<1>6. Due' \in Nat BY DueNext
<1> QED BY <1>2, <1>4, <1>5, <1>6, AccountTypes DEF Accounted

(* A new manager checks the certificate again, and owes a write only if it   *)
(* was owed before: the certificate does not fit the settings.               *)
LEMMA EndsAccounted ==
    ASSUME TypeOK, TypeOK', Accounted, ManagerEnds
    PROVE  Accounted'
<1>1. upd' = Fresh /\ events' = 0 /\ UNCHANGED <<config, secret>>
  BY DEF ManagerEnds, StartFails, StartError, Crash, Started
<1>2. upd'.pc = "check" BY <1>1 DEF Fresh
<1>3. ~AtWork' BY <1>2 DEF AtWork
<1>4. Outdated' <=> Replaces(config.set)
  BY <1>1, <1>2, <1>3 DEF Outdated, Replaces, SecretExists
<1>5. AtWork \/ (Outdated' = Outdated)
  BY <1>4 DEF Outdated, AtWork
<1>6. Owed(AtWork', events', Outdated') <= Owed(AtWork, events, Outdated)
  BY <1>1, <1>3, <1>5, OwedBounds, AccountTypes, DueNext
<1>7. Due' <= Due BY <1>6 DEF Due
<1>8. CASE StartFails
  BY <1>1, <1>7, <1>8, AccountFree DEF StartFails
<1>9. CASE StartError \/ Crash
  <2>1. Due' <= Due + 1 BY <1>7, AccountTypes, DueNext
  <2>2. Spend("fault") \/ Spend("crash") BY <1>9 DEF StartError, Crash
  <2> QED BY <1>1, <2>1, <2>2, AccountSpent DEF EventKinds
<1> QED BY <1>8, <1>9 DEF ManagerEnds

(* An edit, an error and the end of the watch pay for what they cause.       *)
LEMMA EventAccounted ==
    ASSUME TypeOK, TypeOK', Accounted,
           EditConfig \/ UpdaterError \/ WatchError \/ CloseWatch
    PROVE  Accounted'
<1>0. upd \in UpdaterState /\ events \in Nat BY DEF TypeOK
<1>1. /\ UNCHANGED secret
      /\ \E k \in EventKinds \ {"any", "upload"} : Spend(k)
  BY DEF EditConfig, UpdaterError, WatchError, CloseWatch, EventKinds
<1>2. events' <= events + 1
  <2>1. CASE EditConfig
    <3>1. events' = events \/ events' = events + 1 BY <2>1 DEF EditConfig, Write
    <3> QED BY <1>0, <3>1
  <2>2. CASE UpdaterError \/ WatchError \/ CloseWatch
    <3>1. events' \in {events, events - 1, 0}
      BY <2>2 DEF UpdaterError, WatchError, CloseWatch
    <3> QED BY <1>0, <3>1
  <2> QED BY <2>1, <2>2
<1>3. AtWork' => AtWork
  <2>1. CASE UNCHANGED upd
    BY <1>1, <2>1 DEF AtWork, Replaces, SecretExists
  <2>2. CASE UpdaterError
    <3>1. ~AtWork' BY <2>2, RestOwes DEF UpdaterError, Logged
    <3> QED BY <3>1
  <2>3. CASE CloseWatch
    <3>1. upd'.pc = "closed" BY <1>0, <2>3 DEF CloseWatch, UpdaterState
    <3> QED BY <3>1 DEF AtWork
  <2> QED BY <2>1, <2>2, <2>3 DEF EditConfig, WatchError
<1>4. Owed(AtWork', events', Outdated') <= Owed(AtWork, events, Outdated) + 1
  BY <1>2, <1>3, OwedBounds, AccountTypes, DueNext
<1>5. Due' <= Due + 1 BY <1>4 DEF Due
<1> QED BY <1>1, <1>5, AccountSpent

LEMMA StepAccounted ==
    ASSUME TypeOK, TypeOK', Copies, FollowInv, Orderly, Accounted, [Next]_vars
    PROVE  Accounted'
<1>1. CASE Update
  <2>1. CASE UNCHANGED <<secret, left>>
    BY <1>1, <2>1, UpdaterOwes, AccountFree
  <2>2. CASE ~UNCHANGED <<secret, left>>
    <3>1. (UpdateSecret \/ CreateSecret) /\ Written
      BY <1>1, <2>2
      DEF Update, CheckType, CompareCertificate, HandleFqdnChange, ReadPrevious,
          CreateCertificate, UpdateSecret, CreateSecret, StartWatch, ReceiveEvent
    <3> QED BY <3>1, WrittenAccounted
  <2> QED BY <2>1, <2>2
<1>2. ASSUME config'.set = config.set, UNCHANGED <<upd, events, secret>>,
             UNCHANGED left \/ Spend("fault")
      PROVE  Accounted'
  <2>1. Due' = Due BY <1>2, OthersOwe
  <2>2. Due' <= Due /\ Due' <= Due + 1 BY <2>1, AccountTypes
  <2> QED BY <1>2, <2>2, AccountFree, AccountSpent DEF EventKinds
<1>3. CASE Reconcile \/ Resync \/ UNCHANGED vars
  BY <1>2, <1>3 DEF Reconcile, Resync, vars
<1>4. ASSUME NEW a \in Syncs, Synchronize(a) PROVE Accounted'
  <2>1. CASE UNCHANGED <<config, events>>
    BY <1>2, <1>4, <2>1 DEF Synchronize, ReadSecret, GetConfig, PutConfig
  <2>2. CASE PutConfig(a) /\ ~Conflict(a) /\ Publish(a)
    BY <1>2, <2>2, PublishUnnoticed DEF PutConfig
  <2> QED BY <1>4, <2>1, <2>2 DEF Synchronize, ReadSecret, GetConfig, PutConfig
<1>5. CASE ReconcilerError
  <2>1. CASE UNCHANGED <<config, events>>
    BY <1>2, <1>5, <2>1 DEF ReconcilerError
  <2>2. CASE sync["reconciler"].pc = "put" /\ ~Conflict("reconciler") /\ Publish("reconciler")
    BY <1>2, <1>5, <2>2, PublishUnnoticed DEF ReconcilerError, Syncs
  <2> QED BY <1>5, <2>1, <2>2 DEF ReconcilerError
<1> QED
  BY <1>1, <1>3, <1>4, <1>5, UploadAccounted, EndsAccounted, EventAccounted
  DEF Next, Proceed, Environment

LEMMA StepOrderly ==
    ASSUME TypeOK, Copies, FollowInv, Orderly, [Next]_vars
    PROVE  Orderly'
<1>0. upd \in UpdaterState /\ events \in Nat BY DEF TypeOK
<1>1. ASSUME upd' = Rest(upd), UNCHANGED events PROVE Orderly'
  <2>1. upd'.pc \in {"wait", "watch"} /\ upd'.watch = upd.watch
    BY <1>1 DEF Rest, Fresh
  <2> QED BY <1>1, <2>1 DEF Orderly
<1>2. ASSUME UNCHANGED <<upd, events>> PROVE Orderly'
  BY <1>2 DEF Orderly
<1>3. CASE Update
  <2>1. CASE upd' = Rest(upd)
    <3>1. CASE UNCHANGED events BY <1>1, <2>1, <3>1
    <3>2. CASE ReceiveEvent
      BY <1>0, <3>2 DEF ReceiveEvent, Orderly, UpdaterState
    <3> QED
      BY <1>3, <3>1, <3>2
      DEF Update, CheckType, CompareCertificate, HandleFqdnChange, ReadPrevious,
          CreateCertificate, UpdateSecret, CreateSecret, StartWatch
  <2>2. CASE upd' # Rest(upd)
    <3>1. CASE CheckType \/ CompareCertificate \/ HandleFqdnChange \/ ReadPrevious
      BY <1>0, <2>2, <3>1
      DEF CheckType, CompareCertificate, HandleFqdnChange, ReadPrevious, Logged, Orderly,
          UpdaterState
    <3>2. CASE CreateCertificate
      <4> DEFINE new == Generated(config.set, SharedNames(upd.set))
      <4>1. /\ upd' = [upd EXCEPT !.pc = "write", !.set = NoSettings, !.new = new]
            /\ UNCHANGED events
        BY <2>2, <3>2 DEF CreateCertificate, Logged
      <4>2. new.kind = "self" BY DEF Generated
      <4> HIDE DEF new
      <4> QED BY <1>0, <4>1, <4>2 DEF Orderly, UpdaterState
    <3>3. CASE UpdateSecret \/ CreateSecret
      BY <1>0, <2>2, <3>3
      DEF UpdateSecret, CreateSecret, Written, Logged, Orderly, UpdaterState
    <3>4. CASE StartWatch
      BY <1>0, <3>4 DEF StartWatch, Rest, Fresh, Orderly, UpdaterState
    <3>5. CASE ReceiveEvent
      <4>1. upd' = [upd EXCEPT !.pc = "handle"] /\ upd.watch
        BY <3>5 DEF ReceiveEvent, FollowInv
      <4>2. upd'.pc = "handle" /\ upd'.watch BY <1>0, <4>1 DEF UpdaterState
      <4> QED BY <4>2 DEF Orderly
    <3> QED BY <1>3, <3>1, <3>2, <3>3, <3>4, <3>5 DEF Update
  <2> QED BY <2>1, <2>2
<1>4. ASSUME NEW a \in Syncs, Synchronize(a) PROVE Orderly'
  <2>1. CASE UNCHANGED events
    BY <1>2, <1>4, <2>1 DEF Synchronize, ReadSecret, GetConfig, PutConfig
  <2>2. CASE PutConfig(a) /\ ~Conflict(a) /\ Publish(a)
    BY <1>2, <2>2, PublishUnnoticed DEF PutConfig
  <2> QED BY <1>4, <2>1, <2>2 DEF Synchronize, ReadSecret, GetConfig, PutConfig
<1>5. CASE ReconcilerError
  <2>1. CASE UNCHANGED events
    BY <1>2, <1>5, <2>1 DEF ReconcilerError
  <2>2. CASE sync["reconciler"].pc = "put" /\ ~Conflict("reconciler") /\ Publish("reconciler")
    BY <1>2, <1>5, <2>2, PublishUnnoticed DEF ReconcilerError, Syncs
  <2> QED BY <1>5, <2>1, <2>2 DEF ReconcilerError
<1>6. CASE EditConfig
  <2>1. upd' = upd /\ (~upd.watch => events' = events) BY <1>6 DEF EditConfig, Write
  <2> QED BY <2>1 DEF Orderly
<1>7. CASE UpdaterError
  BY <1>1, <1>7 DEF UpdaterError, Logged
<1>8. CASE WatchError
  <2>1. upd' = upd /\ upd.watch /\ upd.pc = "wait" BY <1>8 DEF WatchError, FollowInv
  <2> QED BY <2>1 DEF Orderly
<1>9. CASE CloseWatch
  <2>1. upd'.pc = "closed" /\ events' = 0 BY <1>0, <1>9 DEF CloseWatch, UpdaterState
  <2> QED BY <2>1 DEF Orderly
<1>10. CASE ManagerEnds
  <2>1. upd' = Fresh /\ events' = 0
    BY <1>10 DEF ManagerEnds, StartFails, StartError, Crash, Started
  <2> QED BY <2>1 DEF Fresh, Orderly
<1>11. CASE Reconcile \/ Resync \/ UploadSecret \/ UNCHANGED vars
  BY <1>2, <1>11 DEF Reconcile, Resync, UploadSecret, vars
<1> QED
  BY <1>3, <1>4, <1>5, <1>6, <1>7, <1>8, <1>9, <1>10, <1>11 DEF Next, Proceed, Environment

LEMMA InitAccounted == Init => Orderly /\ Accounted
<1> SUFFICES ASSUME Init PROVE Orderly /\ Accounted
  OBVIOUS
<1>1. TypeOK BY CertificateTypesInductive
<1>2. upd.pc = "check" /\ events = 0 BY DEF Init, Fresh
<1>3. Orderly BY <1>2 DEF Orderly
<1>4. ~AtWork BY <1>2 DEF AtWork
<1>5. Due <= 1
  BY <1>1, <1>2, <1>4, AccountTypes DEF Due, Owed
<1>6. Spent("any") = 0 /\ Spent("upload") = 0
  BY CertificatesAssumption DEF Init, Spent, EventKinds
<1>7. secret.rv = InitSecret.no BY DEF Init
<1> QED BY <1>1, <1>3, <1>5, <1>6, <1>7, AccountTypes DEF Accounted

(* The updater does not feed itself: it writes the secret at most once for   *)
(* each change others make, each error and each crash, and once more at the  *)
(* start, although publishing its certificate writes the ConfigMap it        *)
(* watches, and a manager that fails to start is started again any number    *)
(* of times.                                                                 *)
THEOREM WritesArePaidFor == Spec => []OncePerChange
<1>1. Init => FollowInv /\ Copies /\ Orderly /\ Accounted
  <2>1. Init => FollowInv /\ Copies
    BY DEF Init, Fresh, FollowInv, Copies, CopyCurrent, IdleSync
  <2> QED BY <2>1, InitAccounted
<1>2. /\ TypeOK /\ TypeOK' /\ FollowInv /\ Copies /\ Orderly /\ Accounted /\ [Next]_vars
      => (FollowInv /\ Copies /\ Orderly /\ Accounted)'
  BY StepFollows, StepKeepsSettings, StepOrderly, StepAccounted
<1>3. TypeOK /\ Accounted => OncePerChange
  BY AccountTypes DEF Accounted, OncePerChange
<1> QED BY <1>1, <1>2, <1>3, CertificateTypes, PTL DEF Spec
=============================================================================
