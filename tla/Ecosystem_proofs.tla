-------------------------- MODULE Ecosystem_proofs --------------------------
(***************************************************************************)
(* The redirect controller and the certificate code together: the one does *)
(* not forget what the other changes, and what is redirected is covered by *)
(* the certificate.  The composition takes the steps of Certificates, so   *)
(* that the invariants of Certificates_proofs hold in it; they are stated  *)
(* and proved once more for the instance C.                                *)
(***************************************************************************)
EXTENDS Ecosystem, Redirect_proofs

(* The assumptions on the constants, for the definitions of the instance.  *)
LEMMA CertAssumption ==
    /\ AltEntry \subseteq Seq(C!Part)
    /\ InitSettings \in C!Settings /\ Edits \subseteq C!Settings
    /\ InitKey \in BOOLEAN /\ InitSecret \in C!Certificate
    /\ Uploads \subseteq {"none", "other", "garbage", "missing"}
    /\ Attempts \in Nat \ {0}
    /\ ResyncOn \in BOOLEAN
    /\ CertBudget \in [C!EventKinds -> Nat]
<1>1. C!Part = Part BY DEF C!Part, Part
<1>2. C!Settings = Settings BY DEF C!Settings, Settings
<1>3. C!Certificate = Certificate BY DEF C!Certificate, Certificate
<1> QED
  BY <1>1, <1>2, <1>3, GlobalConfigAssumption, RedirectAssumption, EcosystemAssumption

---------------------------------------------------------------------------
(* Types of what the actions are made of.                                  *)

(* getAlternativeFQDNs returns names.                                      *)
LEMMA CertSharedNamesType ==
    ASSUME NEW S \in C!Settings
    PROVE  C!SharedNames(S) \in SUBSET (Name \cup TlsSecret \cup {""})
<1>1. \A e \in S.alts : Len(e) \in {1, 2} =>
          e[1].text \in Name \cup TlsSecret \cup {""}
  <2> SUFFICES ASSUME NEW e \in S.alts, Len(e) \in {1, 2}
               PROVE  e[1].text \in Name \cup TlsSecret \cup {""}
    OBVIOUS
  <2>1. e \in Seq(C!Part) BY CertAssumption DEF C!Settings
  <2>2. 1 \in 1 .. Len(e) OBVIOUS
  <2>3. e[1] \in C!Part BY <2>1, <2>2
  <2> QED BY <2>3 DEF C!Part
<1>2. \A a \in C!Parse(S.alts) : a.fqdn \in Name \cup TlsSecret \cup {""}
  <2> SUFFICES ASSUME NEW a \in C!Parse(S.alts)
               PROVE  a.fqdn \in Name \cup TlsSecret \cup {""}
    OBVIOUS
  <2>1. PICK e \in {f \in S.alts : Len(f) \in {1, 2} /\ f[1] # C!Empty} :
            a = [fqdn |-> e[1].text, secret |-> IF Len(e) = 2 THEN e[2].text ELSE ""]
    BY Zenon DEF C!Parse
  <2>2. a.fqdn = e[1].text BY <2>1
  <2> QED BY <2>2, <1>1
<1> QED BY <1>2 DEF C!SharedNames

LEMMA CertValueTypes ==
    /\ C!NoCertificate \in C!Certificate
    /\ C!NoSettings \in C!Settings
    /\ C!NoConfig \in C!ConfigState
    /\ C!IdleSync \in C!SyncState
    /\ C!Fresh \in C!UpdaterState
<1>1. C!NoCertificate \in C!Certificate BY DEF C!NoCertificate, C!Certificate
<1>2. C!NoSettings \in C!Settings BY DEF C!NoSettings, C!Settings
<1>3. C!NoConfig \in C!ConfigState BY <1>1, <1>2 DEF C!NoConfig, C!ConfigState
<1>4. C!IdleSync \in C!SyncState BY <1>1, <1>3, CertAssumption DEF C!IdleSync, C!SyncState
<1>5. C!Fresh \in C!UpdaterState BY <1>1, <1>2 DEF C!Fresh, C!UpdaterState
<1> QED BY <1>1, <1>2, <1>3, <1>4, <1>5

LEMMA CertGeneratedType ==
    ASSUME NEW S \in C!Settings, NEW T \in C!Settings
    PROVE  C!Generated(S, C!SharedNames(T)) \in C!Certificate
BY CertSharedNamesType DEF C!Generated, C!Certificate, C!Settings

LEMMA CertRestType ==
    ASSUME NEW u \in C!UpdaterState
    PROVE  C!Rest(u) \in C!UpdaterState
BY CertValueTypes DEF C!Rest, C!UpdaterState, C!Fresh

LEMMA CertStoreType ==
    ASSUME NEW c \in C!Certificate, secret \in C!SecretState, C!Store(c)
    PROVE  secret' \in C!SecretState /\ certQ' \in BOOLEAN
<1>1. secret.rv + 1 \in Nat BY DEF C!SecretState
<1>2. [c EXCEPT !.no = secret.rv + 1] \in C!Certificate BY <1>1 DEF C!Certificate
<1> QED BY <1>1, <1>2 DEF C!Store, C!SecretState

LEMMA CertWriteType ==
    ASSUME NEW new \in C!ConfigState, events \in Nat, C!Write(new)
    PROVE  config' \in C!ConfigState /\ events' \in Nat
BY DEF C!Write

LEMMA CertSpendType ==
    ASSUME certLeft \in [C!EventKinds -> Nat], NEW k \in C!EventKinds, C!Spend(k)
    PROVE  certLeft' \in [C!EventKinds -> Nat]
BY DEF C!Spend, C!EventKinds

LEMMA CertRequeueType ==
    ASSUME sync \in [C!Syncs -> C!SyncState], certQ \in BOOLEAN, NEW a \in C!Syncs,
           C!Requeue(a) \/ C!Done(a)
    PROVE  sync' \in [C!Syncs -> C!SyncState] /\ certQ' \in BOOLEAN
BY CertValueTypes DEF C!Requeue, C!Done

LEMMA CertPublishType ==
    ASSUME sync \in [C!Syncs -> C!SyncState], config \in C!ConfigState, events \in Nat,
           NEW a \in C!Syncs, C!Publish(a)
    PROVE  config' \in C!ConfigState /\ events' \in Nat /\ overtaken' \in BOOLEAN
<1> DEFINE new == C!Published(sync[a].snap, sync[a].cert)
           w == IF new = config THEN config ELSE [new EXCEPT !.rv = config.rv + 1]
<1>1. new \in C!ConfigState BY DEF C!Published, C!SyncState, C!ConfigState
<1>2. w \in C!ConfigState BY <1>1 DEF C!ConfigState
<1>3. C!Write(w) BY DEF C!Publish
<1> HIDE DEF w
<1>4. config' \in C!ConfigState /\ events' \in Nat BY <1>2, <1>3, CertWriteType
<1> QED BY <1>4 DEF C!Publish
---------------------------------------------------------------------------
(* The types are inductive as they stand.                                  *)
LEMMA CertTypesInductive ==
    /\ C!Init => C!TypeOK
    /\ C!TypeOK /\ [C!Next]_(C!vars) => C!TypeOK'
<1>1. C!Init => C!TypeOK
  <2> SUFFICES ASSUME C!Init PROVE C!TypeOK
    OBVIOUS
  <2>1. config \in C!ConfigState BY CertValueTypes, CertAssumption DEF C!Init, C!ConfigState
  <2>2. secret \in C!SecretState
    BY CertAssumption DEF C!Init, C!SecretState, C!Certificate
  <2>3. sync \in [C!Syncs -> C!SyncState] BY CertValueTypes DEF C!Init, C!SyncState
  <2> QED BY <2>1, <2>2, <2>3, CertValueTypes, CertAssumption DEF C!Init, C!TypeOK
<1>2. C!TypeOK /\ [C!Next]_(C!vars) => C!TypeOK'
  <2> SUFFICES ASSUME C!TypeOK, [C!Next]_(C!vars) PROVE C!TypeOK'
    OBVIOUS
  <2> USE DEF C!TypeOK
  <2>0. upd.set \in C!Settings /\ config.set \in C!Settings /\ upd.new \in C!Certificate
    BY DEF C!UpdaterState, C!ConfigState
  <2>1. CASE C!Logged /\ UNCHANGED <<config, secret, events, sync, certQ, overtaken>>
             /\ certLeft' \in [C!EventKinds -> Nat]
    BY <2>1, CertRestType DEF C!Logged
  <2>2. CASE C!CheckType \/ C!HandleFqdnChange
    BY <2>0, <2>2, CertRestType DEF C!CheckType, C!HandleFqdnChange, C!Logged, C!UpdaterState
  <2>3. CASE C!CompareCertificate
    BY <2>3, CertRestType, CertValueTypes DEF C!CompareCertificate, C!Logged, C!UpdaterState
  <2>4. CASE C!ReadPrevious
    BY <2>4, CertRestType DEF C!ReadPrevious, C!Logged, C!UpdaterState
  <2>5. CASE C!CreateCertificate
    <3>1. C!Generated(config.set, C!SharedNames(upd.set)) \in C!Certificate
      BY <2>0, CertGeneratedType
    <3> QED BY <2>5, <3>1, CertRestType, CertValueTypes DEF C!CreateCertificate, C!Logged, C!UpdaterState
  <2>6. CASE C!UpdateSecret \/ C!CreateSecret
    <3>1. CASE C!Written
      <4>1. secret' \in C!SecretState /\ certQ' \in BOOLEAN BY <2>0, <3>1, CertStoreType DEF C!Written
      <4> QED BY <2>6, <3>1, <4>1, CertRestType DEF C!Written, C!UpdateSecret, C!CreateSecret
    <3>2. CASE ~C!Written
      BY <2>6, <3>2, CertRestType DEF C!UpdateSecret, C!CreateSecret, C!Logged, C!UpdaterState
    <3> QED BY <3>1, <3>2
  <2>7. CASE C!StartWatch
    <3>1. [upd EXCEPT !.watch = TRUE] \in C!UpdaterState BY DEF C!UpdaterState
    <3> QED BY <2>7, <3>1, CertRestType DEF C!StartWatch
  <2>8. CASE C!ReceiveEvent
    BY <2>8 DEF C!ReceiveEvent, C!UpdaterState
  <2>9. CASE C!Reconcile
    BY <2>9 DEF C!Reconcile, C!Syncs, C!SyncState
  <2>10. ASSUME NEW a \in C!Syncs, C!ReadSecret(a) PROVE C!TypeOK'
    <3>1. secret.cert \in C!Certificate BY DEF C!SecretState
    <3>2. sync' \in [C!Syncs -> C!SyncState] /\ certQ' \in BOOLEAN
      <4>1. CASE C!Requeue(a) \/ C!Done(a) BY <4>1, CertRequeueType
      <4>2. CASE ~(C!Requeue(a) \/ C!Done(a))
        BY <2>10, <3>1, <4>2 DEF C!ReadSecret, C!SyncState, C!Syncs
      <4> QED BY <4>1, <4>2
    <3> QED BY <2>10, <3>2 DEF C!ReadSecret
  <2>11. ASSUME NEW a \in C!Syncs, C!GetConfig(a) PROVE C!TypeOK'
    BY <2>11 DEF C!GetConfig, C!SyncState
  <2>12. ASSUME NEW a \in C!Syncs, C!PutConfig(a) PROVE C!TypeOK'
    <3>1. CASE C!Conflict(a) /\ ~C!LastTry(a) /\ C!Retry(a) /\ UNCHANGED <<config, events, overtaken>>
      BY <2>12, <3>1, CertValueTypes, CertAssumption
         DEF C!PutConfig, C!Retry, C!LastTry, C!SyncState
    <3>2. CASE C!Requeue(a) /\ UNCHANGED <<config, events, overtaken>>
      BY <2>12, <3>2, CertRequeueType DEF C!PutConfig
    <3>3. CASE C!Publish(a) /\ C!Done(a)
      BY <2>12, <3>3, CertRequeueType, CertPublishType DEF C!PutConfig
    <3> QED BY <2>12, <3>1, <3>2, <3>3 DEF C!PutConfig
  <2>13. CASE C!ManagerEnds
    <3>1. CASE C!Started /\ UNCHANGED <<config, secret, overtaken>> /\ certLeft' \in [C!EventKinds -> Nat]
      BY <3>1, CertValueTypes DEF C!Started, C!SyncState, C!SecretExists
    <3>2. certLeft' \in [C!EventKinds -> Nat]
      BY <2>13, CertSpendType DEF C!ManagerEnds, C!StartFails, C!StartError, C!Crash, C!EventKinds
    <3> QED BY <2>13, <3>1, <3>2 DEF C!ManagerEnds, C!StartFails, C!StartError, C!Crash
  <2>14. CASE C!EditConfig
    <3>1. PICK S \in Edits : LET new == [config EXCEPT !.set = S, !.rv = @ + 1]
              IN C!Write(new) /\ missed' \in BOOLEAN
      BY <2>14 DEF C!EditConfig
    <3>2. [config EXCEPT !.set = S, !.rv = @ + 1] \in C!ConfigState
      <4>1. config.rv + 1 \in Nat /\ S \in C!Settings BY CertAssumption DEF C!ConfigState
      <4> QED BY <4>1 DEF C!ConfigState
    <3>3. config' \in C!ConfigState /\ events' \in Nat BY <3>1, <3>2, CertWriteType
    <3>4. certLeft' \in [C!EventKinds -> Nat] BY <2>14, CertSpendType DEF C!EditConfig, C!EventKinds
    <3> QED BY <2>14, <3>1, <3>3, <3>4 DEF C!EditConfig
  <2>15. CASE C!UploadSecret
    <3>1. certLeft' \in [C!EventKinds -> Nat] BY <2>15, CertSpendType DEF C!UploadSecret, C!EventKinds
    <3>2. secret' \in C!SecretState /\ certQ' \in BOOLEAN
      <4>1. PICK k \in Uploads : IF k = "none"
               THEN secret' = [cert |-> C!NoCertificate, rv |-> secret.rv + 1] /\ certQ' = TRUE
               ELSE C!Store([C!NoCertificate EXCEPT !.kind = k])
        BY <2>15 DEF C!UploadSecret
      <4>2. [C!NoCertificate EXCEPT !.kind = k] \in C!Certificate
        BY CertAssumption DEF C!NoCertificate, C!Certificate
      <4>3. CASE k = "none" BY <4>1, <4>3, CertValueTypes DEF C!SecretState
      <4>4. CASE k # "none" BY <4>1, <4>2, <4>4, CertStoreType
      <4> QED BY <4>3, <4>4
    <3> QED BY <2>15, <3>1, <3>2 DEF C!UploadSecret
  <2>16. CASE C!UpdaterError
    <3>1. certLeft' \in [C!EventKinds -> Nat] BY <2>16, CertSpendType DEF C!UpdaterError, C!EventKinds
    <3> QED BY <2>1, <2>16, <3>1 DEF C!UpdaterError
  <2>17. CASE C!ReconcilerError
    <3>1. certLeft' \in [C!EventKinds -> Nat] BY <2>17, CertSpendType DEF C!ReconcilerError, C!EventKinds
    <3>2. sync' \in [C!Syncs -> C!SyncState] /\ certQ' \in BOOLEAN
      BY <2>17, CertRequeueType DEF C!ReconcilerError, C!Syncs
    <3>3. config' \in C!ConfigState /\ events' \in Nat /\ overtaken' \in BOOLEAN
      BY <2>17, CertPublishType DEF C!ReconcilerError, C!Syncs
    <3> QED BY <2>17, <3>1, <3>2, <3>3 DEF C!ReconcilerError
  <2>18. CASE C!WatchError \/ C!CloseWatch
    <3>1. certLeft' \in [C!EventKinds -> Nat] BY <2>18, CertSpendType DEF C!WatchError, C!CloseWatch, C!EventKinds
    <3>2. upd' \in C!UpdaterState BY <2>18 DEF C!WatchError, C!CloseWatch, C!UpdaterState
    <3>3. events' \in Nat BY <2>18 DEF C!WatchError, C!CloseWatch
    <3>4. missed' \in BOOLEAN BY <2>18, Zenon DEF C!WatchError, C!CloseWatch
    <3> QED BY <2>18, <3>1, <3>2, <3>3, <3>4 DEF C!WatchError, C!CloseWatch
  <2>19. CASE C!Resync
    BY <2>19 DEF C!Resync
  <2>20. CASE UNCHANGED C!vars
    BY <2>20 DEF C!vars
  <2> QED
    BY <2>2, <2>3, <2>4, <2>5, <2>6, <2>7, <2>8, <2>9, <2>10, <2>11, <2>12, <2>13, <2>14,
       <2>15, <2>16, <2>17, <2>18, <2>19, <2>20
    DEF C!Next, C!Proceed, C!Update, C!Synchronize, C!Environment
<1> QED BY <1>1, <1>2

---------------------------------------------------------------------------
(* What Synchronize is about to write back: a copy of the current version    *)
(* of the global config is the current global config.                        *)
CopyCurrent(a) ==
    sync[a].pc = "put" =>
        /\ sync[a].snap.rv <= config.rv
        /\ sync[a].snap.rv = config.rv => sync[a].snap = config

Copies == \A a \in C!Syncs : CopyCurrent(a)

(* A write of the global config by one caller outdates the copy of the other *)
(* one.                                                                      *)
LEMMA CertCopiesKept ==
    ASSUME C!TypeOK, Copies,
           config' = config \/ (config' \in C!ConfigState /\ config'.rv = config.rv + 1),
           \A a \in C!Syncs : sync'[a] = sync[a] \/ sync'[a].pc # "put"
    PROVE  Copies'
<1> SUFFICES ASSUME NEW a \in C!Syncs, sync'[a].pc = "put"
             PROVE  /\ sync'[a].snap.rv <= config'.rv
                    /\ sync'[a].snap.rv = config'.rv => sync'[a].snap = config'
  BY DEF Copies, CopyCurrent
<1>1. sync'[a] = sync[a] OBVIOUS
<1>2. sync[a].snap.rv \in Nat /\ config.rv \in Nat
  BY DEF C!TypeOK, C!SyncState, C!ConfigState
<1>3. sync[a].snap.rv <= config.rv /\ (sync[a].snap.rv = config.rv => sync[a].snap = config)
  BY <1>1 DEF Copies, CopyCurrent
<1> QED BY <1>1, <1>2, <1>3

(* updateInGlobalConfig sets the certificate and deletes the key of the      *)
(* config it has read, which without a conflict is the current one.          *)
LEMMA CertPublishKeepsSettings ==
    ASSUME C!TypeOK, Copies, NEW a \in C!Syncs, sync[a].pc = "put", ~C!Conflict(a), C!Publish(a)
    PROVE  /\ config'.set = config.set
           /\ config' = config \/ (config' \in C!ConfigState /\ config'.rv = config.rv + 1)
<1>1. sync[a].snap = config BY DEF Copies, CopyCurrent, C!Conflict
<1>2. config \in C!ConfigState /\ sync[a].cert \in C!Certificate BY DEF C!TypeOK, C!SyncState
<1> DEFINE new == C!Published(config, sync[a].cert)
<1>3. new \in C!ConfigState /\ new.set = config.set BY <1>2 DEF C!Published, C!ConfigState
<1>4. config' = IF new = config THEN config ELSE [new EXCEPT !.rv = config.rv + 1]
  BY <1>1 DEF C!Publish, C!Write
<1>5. config.rv + 1 \in Nat BY <1>2 DEF C!ConfigState
<1> HIDE DEF new
<1> QED BY <1>2, <1>3, <1>4, <1>5 DEF C!ConfigState

(* A step either keeps the settings or is an edit of others.               *)
LEMMA CertStepKeepsSettings ==
    ASSUME C!TypeOK, Copies, [C!Next]_(C!vars)
    PROVE  /\ Copies'
           /\ config'.set # config.set => certLeft'["edit"] < certLeft["edit"]
<1>1. CASE UNCHANGED <<config, sync>>
  BY <1>1, CertCopiesKept
<1>2. CASE config' = config /\ \E a \in C!Syncs : C!Requeue(a) \/ C!Done(a)
  <2>1. \A a \in C!Syncs : sync'[a] = sync[a] \/ sync'[a].pc # "put"
    BY <1>2 DEF C!Requeue, C!Done, C!IdleSync, C!TypeOK
  <2> QED BY <1>2, <2>1, CertCopiesKept
<1>3. CASE C!Reconcile
  <2>1. \A a \in C!Syncs : sync'[a] = sync[a] \/ sync'[a].pc # "put"
    BY <1>3 DEF C!Reconcile, C!TypeOK, C!SyncState, C!Syncs
  <2> QED BY <1>3, <2>1, CertCopiesKept DEF C!Reconcile
<1>4. ASSUME NEW a \in C!Syncs, C!ReadSecret(a)
      PROVE  Copies' /\ config' = config
  <2>1. \A b \in C!Syncs : sync'[b] = sync[b] \/ sync'[b].pc # "put"
    BY <1>4 DEF C!ReadSecret, C!Requeue, C!Done, C!IdleSync, C!TypeOK, C!SyncState
  <2> QED BY <1>4, <2>1, CertCopiesKept DEF C!ReadSecret
<1>5. ASSUME NEW a \in C!Syncs, C!GetConfig(a)
      PROVE  Copies' /\ config' = config
  <2>1. config' = config /\ config.rv \in Nat BY <1>5 DEF C!GetConfig, C!TypeOK, C!ConfigState
  <2>2. sync' = [sync EXCEPT ![a].pc = "put", ![a].snap = config] BY <1>5 DEF C!GetConfig
  <2>3. \A b \in C!Syncs : b # a => sync'[b] = sync[b] BY <2>2 DEF C!TypeOK
  <2>4. sync'[a].snap = config BY <2>2 DEF C!TypeOK, C!SyncState
  <2> QED BY <2>1, <2>3, <2>4 DEF Copies, CopyCurrent
<1>6. ASSUME NEW a \in C!Syncs, sync[a].pc = "put", ~C!Conflict(a), C!Publish(a), C!Requeue(a) \/ C!Done(a)
      PROVE  Copies' /\ config'.set = config.set
  <2>1. \A b \in C!Syncs : sync'[b] = sync[b] \/ sync'[b].pc # "put"
    BY <1>6 DEF C!Requeue, C!Done, C!IdleSync, C!TypeOK
  <2> QED BY <1>6, <2>1, CertPublishKeepsSettings, CertCopiesKept
<1>7. ASSUME NEW a \in C!Syncs, C!PutConfig(a)
      PROVE  Copies' /\ config'.set = config.set
  <2>1. CASE C!Retry(a) /\ config' = config
    <3>1. \A b \in C!Syncs : sync'[b] = sync[b] \/ sync'[b].pc # "put"
      BY <2>1 DEF C!Retry, C!TypeOK, C!SyncState
    <3> QED BY <2>1, <3>1, CertCopiesKept
  <2>2. CASE C!Requeue(a) /\ config' = config
    BY <1>2, <2>2
  <2>3. CASE ~C!Conflict(a) /\ C!Publish(a) /\ C!Done(a)
    BY <1>6, <1>7, <2>3 DEF C!PutConfig
  <2> QED BY <1>7, <2>1, <2>2, <2>3 DEF C!PutConfig
<1>8. CASE C!ManagerEnds
  <2>1. config' = config /\ C!Started
    BY <1>8 DEF C!ManagerEnds, C!StartFails, C!StartError, C!Crash
  <2>2. \A a \in C!Syncs : sync'[a].pc # "put"
    BY <2>1 DEF C!Started, C!IdleSync
  <2> QED BY <2>1, <2>2, CertCopiesKept
<1>9. CASE C!EditConfig
  <2>1. certLeft'["edit"] < certLeft["edit"]
    BY <1>9 DEF C!EditConfig, C!Spend, C!TypeOK, C!EventKinds
  <2>2. PICK S \in Edits : config' = [config EXCEPT !.set = S, !.rv = @ + 1]
    BY <1>9 DEF C!EditConfig, C!Write
  <2>3. config' \in C!ConfigState /\ config'.rv = config.rv + 1
    <3>1. config.rv + 1 \in Nat /\ S \in C!Settings
      BY CertAssumption DEF C!TypeOK, C!ConfigState
    <3> QED BY <2>2, <3>1 DEF C!TypeOK, C!ConfigState
  <2>4. sync' = sync BY <1>9 DEF C!EditConfig
  <2> QED BY <2>1, <2>3, <2>4, CertCopiesKept
<1>10. CASE C!ReconcilerError
  <2>1. CASE config' = config
    BY <1>2, <1>10, <2>1 DEF C!ReconcilerError, C!Syncs
  <2>2. CASE sync["reconciler"].pc = "put" /\ ~C!Conflict("reconciler") /\ C!Publish("reconciler")
    BY <1>6, <1>10, <2>2 DEF C!ReconcilerError, C!Syncs
  <2> QED BY <1>10, <2>1, <2>2 DEF C!ReconcilerError
<1>11. CASE C!Update
  BY <1>1, <1>11 DEF C!Update, C!CheckType, C!CompareCertificate, C!HandleFqdnChange, C!ReadPrevious,
     C!CreateCertificate, C!UpdateSecret, C!CreateSecret, C!StartWatch, C!ReceiveEvent
<1>12. CASE C!UploadSecret \/ C!UpdaterError \/ C!WatchError \/ C!CloseWatch \/ C!Resync \/ UNCHANGED C!vars
  BY <1>1, <1>12 DEF C!UploadSecret, C!UpdaterError, C!WatchError, C!CloseWatch, C!Resync, C!vars
<1> QED
  BY <1>3, <1>4, <1>5, <1>7, <1>8, <1>9, <1>10, <1>11, <1>12
  DEF C!Next, C!Proceed, C!Synchronize, C!Environment

(* A change the updater still has to hear of, or will never hear of.       *)
Noted == events > 0 \/ missed

Fits ==
    config.set.type = "selfsigned" /\ C!Creatable(config.set) /\ secret.cert.kind = "self"
        => C!Covers(secret.cert, config.set)

(* What the updater has read is still so, or it has missed a change: before   *)
(* the watch every change is missed, after it every change is an event.      *)
FollowInv ==
    /\ upd.pc \in {"check", "compare", "watch"} => ~upd.watch
    /\ upd.pc = "wait" => upd.watch
    /\ upd.pc = "compare" => upd.set = config.set \/ missed
    /\ upd.pc \in {"previous", "create"} => upd.set.alts = config.set.alts \/ Noted
    /\ upd.pc \in {"write", "writeNew"} => C!Covers(upd.new, config.set) \/ Noted
    /\ upd.pc \in {"watch", "wait"} => Fits \/ Noted
    /\ upd.pc = "closed" => Fits \/ missed

(* A step of others that keeps the settings, the updater and what it waits   *)
(* for keeps the invariant; the secret may only turn into another kind.      *)
LEMMA CertOthersFollow ==
    ASSUME FollowInv, config'.set = config.set, UNCHANGED <<upd, events, missed>>,
           secret' = secret \/ secret'.cert.kind # "self"
    PROVE  FollowInv'
BY DEF FollowInv, Noted, Fits

(* Where the updater goes on after an error, or when nothing is to be done. *)
LEMMA CertRestFollows ==
    ASSUME upd \in C!UpdaterState, upd' = C!Rest(upd),
           (Fits \/ Noted)'
    PROVE  FollowInv'
<1>1. /\ upd'.pc = IF upd.watch THEN "wait" ELSE "watch"
      /\ upd'.watch = upd.watch
  BY DEF C!Rest, C!Fresh
<1> QED BY <1>1 DEF FollowInv

LEMMA CertLoggedFollows ==
    ASSUME upd \in C!UpdaterState, C!Logged
    PROVE  FollowInv'
BY CertRestFollows DEF C!Logged, Noted

(* Publishing does not change what the watch looks at.                     *)
LEMMA CertPublishUnnoticed ==
    ASSUME C!TypeOK, Copies, NEW a \in C!Syncs, sync[a].pc = "put", ~C!Conflict(a), C!Publish(a)
    PROVE  config'.set = config.set /\ events' = events
<1>1. config'.set = config.set BY CertPublishKeepsSettings
<1>2. PICK w : config' = w /\ C!Write(w) BY DEF C!Publish, C!Write
<1> QED BY <1>1, <1>2 DEF C!Write, C!Watched

(* Settings are told apart by their four keys.                             *)
LEMMA CertSettingsEqual ==
    ASSUME NEW S \in C!Settings, NEW T \in C!Settings,
           S.fqdn = T.fqdn, S.domain = T.domain, S.alts = T.alts, S.type = T.type
    PROVE  S = T
<1>1. S = [fqdn |-> S.fqdn, domain |-> S.domain, alts |-> S.alts, type |-> S.type]
  BY DEF C!Settings
<1>2. T = [fqdn |-> T.fqdn, domain |-> T.domain, alts |-> T.alts, type |-> T.type]
  BY DEF C!Settings
<1> QED BY <1>1, <1>2

(* A change by others is an event, or missed, or comes before the check.   *)
LEMMA CertEditNoted ==
    ASSUME C!TypeOK, FollowInv, C!EditConfig
    PROVE  /\ upd.pc # "check" => Noted'
           /\ ~upd.watch /\ upd.pc # "check" => missed'
           /\ upd.pc = "closed" => missed'
<1>1. PICK S \in Edits \ {config.set} :
          LET new == [config EXCEPT !.set = S, !.rv = @ + 1]
          IN  /\ C!Write(new)
              /\ missed' = (\/ missed \/ upd.pc = "closed"
                            \/ ~upd.watch /\ upd.pc # "check"
                            \/ S.type # config.set.type /\ ~C!Watched(config, new))
  BY DEF C!EditConfig
<1> DEFINE new == [config EXCEPT !.set = S, !.rv = @ + 1]
<1>2. new.set = S /\ S \in C!Settings /\ config.set \in C!Settings
  BY CertAssumption DEF C!TypeOK, C!ConfigState
<1>3. C!Watched(config, new) \/ S.type # config.set.type
  <2> SUFFICES ASSUME ~C!Watched(config, new), S.type = config.set.type PROVE FALSE
    OBVIOUS
  <2>1. S.fqdn = config.set.fqdn /\ S.domain = config.set.domain /\ S.alts = config.set.alts
    BY <1>2 DEF C!Watched
  <2>2. S = config.set BY <1>2, <2>1, CertSettingsEqual
  <2> QED BY <1>1, <2>2
<1>4. C!Watched(config, new) /\ upd.watch /\ upd.pc # "closed" => events' = events + 1
  BY <1>1 DEF C!Write
<1>5. (~upd.watch /\ upd.pc # "check") \/ upd.pc = "closed" => missed'
  BY <1>1
<1>6. S.type # config.set.type /\ ~C!Watched(config, new) => missed'
  BY <1>1
<1>7. events \in Nat BY DEF C!TypeOK
<1> HIDE DEF new
<1> QED BY <1>3, <1>4, <1>5, <1>6, <1>7 DEF Noted

LEMMA CertStepFollows ==
    ASSUME C!TypeOK, Copies, FollowInv, [C!Next]_(C!vars)
    PROVE  FollowInv'
<1>0. /\ upd \in C!UpdaterState /\ config \in C!ConfigState /\ events \in Nat
      /\ config.set \in C!Settings
  BY DEF C!TypeOK, C!ConfigState
<1>1. CASE C!Logged BY <1>0, <1>1, CertLoggedFollows
<1>2. CASE C!CheckType /\ ~C!Logged
  <2>1. CASE config.set.type = "external" /\ upd' = C!Rest(upd)
    <3>1. Fits' BY <1>2, <2>1 DEF C!CheckType, Fits
    <3> QED BY <1>0, <2>1, <3>1, CertRestFollows
  <2>2. CASE upd' = [upd EXCEPT !.pc = "compare", !.set = config.set]
    <3>1. upd'.pc = "compare" /\ upd'.set = config.set /\ upd'.watch = upd.watch
      BY <1>0, <2>2 DEF C!UpdaterState
    <3> QED BY <1>2, <3>1 DEF C!CheckType, FollowInv
  <2> QED BY <1>2, <2>1, <2>2 DEF C!CheckType
<1>3. CASE C!CompareCertificate /\ ~C!Logged
  <2>1. CASE upd' = [upd EXCEPT !.pc = "handle", !.set = C!NoSettings]
    BY <1>0, <2>1 DEF C!UpdaterState, FollowInv
  <2>2. CASE upd' = C!Rest(upd) /\ C!Covers(secret.cert, upd.set)
    <3>1. UNCHANGED <<secret, config, missed, events>> /\ upd.pc = "compare"
      BY <1>3 DEF C!CompareCertificate
    <3>2. (Fits \/ Noted)' BY <2>2, <3>1 DEF FollowInv, Fits, Noted
    <3> QED BY <1>0, <2>2, <3>2, CertRestFollows
  <2> QED BY <1>3, <2>1, <2>2 DEF C!CompareCertificate
<1>4. CASE C!HandleFqdnChange /\ ~C!Logged
  <2>1. CASE config.set.type = "external" /\ upd' = C!Rest(upd)
    <3>1. Fits' BY <1>4, <2>1 DEF C!HandleFqdnChange, Fits
    <3> QED BY <1>0, <2>1, <3>1, CertRestFollows
  <2>2. CASE upd' = [upd EXCEPT !.pc = "previous", !.set = config.set]
    <3>1. upd'.pc = "previous" /\ upd'.set = config.set
      BY <1>0, <2>2 DEF C!UpdaterState
    <3> QED BY <1>4, <3>1 DEF C!HandleFqdnChange, FollowInv
  <2> QED BY <1>4, <2>1, <2>2 DEF C!HandleFqdnChange
<1>5. CASE C!ReadPrevious /\ ~C!Logged
  <2>1. upd.pc = "previous" /\ upd' = [upd EXCEPT !.pc = "create"]
    BY <1>5 DEF C!ReadPrevious
  <2>2. upd'.pc = "create" /\ upd'.set = upd.set BY <1>0, <2>1 DEF C!UpdaterState
  <2> QED BY <1>5, <2>1, <2>2 DEF C!ReadPrevious, FollowInv, Noted
<1>6. CASE C!CreateCertificate /\ ~C!Logged
  <2> DEFINE new == C!Generated(config.set, C!SharedNames(upd.set))
  <2>1. upd.pc = "create" /\ upd' = [upd EXCEPT !.pc = "write", !.set = C!NoSettings, !.new = new]
        /\ UNCHANGED <<config, events, missed>>
    BY <1>6 DEF C!CreateCertificate
  <2>2. upd'.pc = "write" /\ upd'.new = new BY <1>0, <2>1 DEF C!UpdaterState
  <2>3. upd.set.alts = config.set.alts => C!Covers(new, config.set)
    BY DEF C!Covers, C!Generated, C!SharedNames
  <2> HIDE DEF new
  <2> QED BY <2>1, <2>2, <2>3 DEF FollowInv, Noted
<1>7. CASE (C!UpdateSecret \/ C!CreateSecret) /\ C!Written
  <2>1. upd.pc \in {"write", "writeNew"} /\ UNCHANGED <<config, events>>
    BY <1>7 DEF C!UpdateSecret, C!CreateSecret
  <2>2. /\ upd' = C!Rest(upd) /\ missed' = (missed /\ ~C!Covers(upd.new, config.set))
        /\ secret'.cert = [upd.new EXCEPT !.no = secret.rv + 1]
    BY <1>7 DEF C!Written, C!Store
  <2>3. secret'.cert.names = upd.new.names /\ secret'.cert.org = upd.new.org
    BY <1>0, <2>2 DEF C!UpdaterState, C!Certificate
  <2>4. C!Covers(upd.new, config.set) => C!Covers(secret'.cert, config'.set)
    BY <2>1, <2>3 DEF C!Covers
  <2>5. (Fits \/ Noted)' BY <2>1, <2>2, <2>4 DEF FollowInv, Fits, Noted
  <2> QED BY <1>0, <2>2, <2>5, CertRestFollows
<1>8. CASE C!UpdateSecret /\ ~C!Written
  <2>1. upd.pc = "write" /\ upd' = [upd EXCEPT !.pc = "writeNew"] /\ UNCHANGED <<config, events, missed>>
    BY <1>8 DEF C!UpdateSecret
  <2>2. upd'.pc = "writeNew" /\ upd'.new = upd.new BY <1>0, <2>1 DEF C!UpdaterState
  <2> QED BY <2>1, <2>2 DEF FollowInv, Noted
<1>9. CASE C!StartWatch
  <2>1. upd.pc = "watch" /\ upd' = C!Rest([upd EXCEPT !.watch = TRUE])
        /\ UNCHANGED <<config, secret, events, missed>>
    BY <1>9 DEF C!StartWatch
  <2>2. upd'.pc = "wait" /\ upd'.watch = TRUE BY <1>0, <2>1 DEF C!Rest, C!Fresh, C!UpdaterState
  <2> QED BY <2>1, <2>2 DEF FollowInv, Fits, Noted
<1>10. CASE C!ReceiveEvent
  BY <1>0, <1>10 DEF C!ReceiveEvent, C!UpdaterState, FollowInv
<1>11. CASE C!EditConfig
  <2>1. upd' = upd BY <1>11 DEF C!EditConfig
  <2> QED BY <1>11, <2>1, CertEditNoted DEF FollowInv
<1>12. ASSUME NEW a \in C!Syncs, sync[a].pc = "put", ~C!Conflict(a), C!Publish(a),
              UNCHANGED <<secret, upd, missed>>
       PROVE  FollowInv'
  BY <1>12, CertPublishUnnoticed, CertOthersFollow
<1>13. ASSUME NEW a \in C!Syncs, C!Synchronize(a) PROVE FollowInv'
  <2>1. CASE UNCHANGED <<config, events>>
    BY <1>13, <2>1, CertOthersFollow DEF C!Synchronize, C!ReadSecret, C!GetConfig, C!PutConfig
  <2>2. CASE C!PutConfig(a) /\ ~C!Conflict(a) /\ C!Publish(a)
    BY <1>12, <2>2 DEF C!PutConfig
  <2> QED BY <1>13, <2>1, <2>2 DEF C!Synchronize, C!ReadSecret, C!GetConfig, C!PutConfig
<1>14. CASE C!ReconcilerError
  <2>1. CASE UNCHANGED <<config, events>>
    BY <1>14, <2>1, CertOthersFollow DEF C!ReconcilerError
  <2>2. CASE sync["reconciler"].pc = "put" /\ ~C!Conflict("reconciler") /\ C!Publish("reconciler")
    BY <1>12, <1>14, <2>2 DEF C!ReconcilerError, C!Syncs
  <2> QED BY <1>14, <2>1, <2>2 DEF C!ReconcilerError
<1>15. CASE C!UploadSecret
  <2>1. PICK k \in Uploads : IF k = "none"
            THEN secret' = [cert |-> C!NoCertificate, rv |-> secret.rv + 1] /\ certQ' = TRUE
            ELSE C!Store([C!NoCertificate EXCEPT !.kind = k])
    BY <1>15 DEF C!UploadSecret
  <2>2. secret'.cert.kind # "self"
    <3>1. CASE k = "none"
      <4>1. secret'.cert = C!NoCertificate BY <2>1, <3>1
      <4>2. C!NoCertificate.kind = "none" BY DEF C!NoCertificate
      <4> QED BY <4>1, <4>2
    <3>2. CASE k # "none"
      <4>1. secret'.cert = [[C!NoCertificate EXCEPT !.kind = k] EXCEPT !.no = secret.rv + 1]
        BY <2>1, <3>2 DEF C!Store
      <4>2. secret'.cert.kind = k BY <4>1 DEF C!NoCertificate
      <4> QED BY <4>2, CertAssumption
    <3> QED BY <3>1, <3>2
  <2> QED BY <1>15, <2>2, CertOthersFollow DEF C!UploadSecret
<1>16. CASE C!ManagerEnds
  BY <1>16 DEF C!ManagerEnds, C!StartFails, C!StartError, C!Crash, C!Started, C!Fresh, FollowInv
<1>17. CASE C!WatchError
  BY <1>17 DEF C!WatchError, FollowInv, Noted
<1>18. CASE C!CloseWatch
  <2>1. upd.pc = "wait" /\ upd'.pc = "closed" /\ UNCHANGED <<config, secret>>
    BY <1>0, <1>18 DEF C!CloseWatch, C!UpdaterState
  <2>2. Noted => missed' BY <1>18 DEF C!CloseWatch, Noted
  <2> QED BY <2>1, <2>2 DEF FollowInv, Fits
<1>19. CASE C!Reconcile \/ C!Resync \/ UNCHANGED C!vars
  BY <1>19, CertOthersFollow DEF C!Reconcile, C!Resync, C!vars
<1>20. CASE C!Update
  BY <1>1, <1>2, <1>3, <1>4, <1>5, <1>6, <1>7, <1>8, <1>9, <1>10, <1>20
  DEF C!Update, C!CreateSecret
<1>21. CASE C!UpdaterError
  BY <1>1, <1>21 DEF C!UpdaterError
<1> QED
  BY <1>11, <1>13, <1>14, <1>15, <1>16, <1>17, <1>18, <1>19, <1>20, <1>21
  DEF C!Next, C!Proceed, C!Environment

---------------------------------------------------------------------------
(* The composition.                                                        *)

(* The global config only has settings that others wrote.                  *)
Given == config.set \in Edits \cup {InitSettings}

LEMMA CertStepGiven ==
    ASSUME C!TypeOK, Copies, Given, [C!Next]_(C!vars)
    PROVE  Given'
<1>1. CASE C!EditConfig
  <2>1. PICK S \in Edits : config' = [config EXCEPT !.set = S, !.rv = @ + 1]
    BY <1>1 DEF C!EditConfig, C!Write
  <2>2. config'.set = S BY <2>1 DEF C!TypeOK, C!ConfigState
  <2> QED BY <2>2 DEF Given
<1>2. CASE ~C!EditConfig
  <2>1. ASSUME NEW k \in C!EventKinds \ {"edit"}, C!Spend(k)
        PROVE  certLeft'["edit"] = certLeft["edit"]
    BY <2>1 DEF C!Spend, C!TypeOK, C!EventKinds
  <2>2. CASE certLeft' = certLeft
    BY <2>2, CertStepKeepsSettings DEF Given, C!TypeOK, C!EventKinds
  <2>3. CASE \E k \in C!EventKinds \ {"edit"} : C!Spend(k)
    BY <2>1, <2>3, CertStepKeepsSettings DEF Given, C!TypeOK, C!EventKinds
  <2>4. CASE C!Update
    BY <2>2, <2>4 DEF C!Update, C!CheckType, C!CompareCertificate, C!HandleFqdnChange,
       C!ReadPrevious, C!CreateCertificate, C!UpdateSecret, C!CreateSecret, C!StartWatch,
       C!ReceiveEvent
  <2>5. CASE C!Reconcile \/ C!Resync \/ C!StartFails \/ UNCHANGED C!vars
    BY <2>2, <2>5 DEF C!Reconcile, C!Resync, C!StartFails, C!vars
  <2>6. ASSUME NEW a \in C!Syncs, C!Synchronize(a) PROVE certLeft' = certLeft
    BY <2>6 DEF C!Synchronize, C!ReadSecret, C!GetConfig, C!PutConfig
  <2>7. CASE C!UploadSecret \/ C!UpdaterError \/ C!ReconcilerError \/ C!WatchError
             \/ C!CloseWatch \/ C!StartError \/ C!Crash
    <3>1. C!Spend("upload") \/ C!Spend("fault") \/ C!Spend("watch") \/ C!Spend("crash")
      BY <2>7 DEF C!UploadSecret, C!UpdaterError, C!ReconcilerError, C!WatchError,
         C!CloseWatch, C!StartError, C!Crash
    <3> QED BY <2>3, <3>1 DEF C!EventKinds
  <2> QED
    BY <1>2, <2>2, <2>4, <2>5, <2>6, <2>7
    DEF C!Next, C!Proceed, C!Environment, C!ManagerEnds
<1> QED BY <1>1, <1>2

(* The steps of the redirect controller leave the global config alone.     *)
LEMMA RedirectStepIs ==
    ASSUME RedirectStep
    PROVE  Next /\ UNCHANGED <<config, certVars>>
<1>1. CASE Work
  <2>1. config' = config
    BY <1>1 DEF Work, Reconcile, Read, ReadConfig, Write, DeleteIngress, CreateIngress,
       UpdateIngress, GetMiddleware, CreateMiddleware, UpdateMiddleware
  <2> QED BY <1>1, <2>1 DEF RedirectStep, Next
<1>2. CASE CollectGarbage \/ Resync
  BY <1>2 DEF RedirectStep, Next, CollectGarbage, Resync
<1>3. CASE Disturb
  <2>1. config' = config
    BY <1>3 DEF Disturb, DriftIngress, DriftMiddleware, CallError, AnswerLost
  <2> QED BY <1>3, <2>1 DEF RedirectStep, Next
<1> QED BY <1>1, <1>2, <1>3 DEF RedirectStep

LEMMA EcoStepIsCertificates == [EcoNext]_ecoVars => [C!Next]_(C!vars)
<1> SUFFICES ASSUME [EcoNext]_ecoVars PROVE [C!Next]_(C!vars)
  OBVIOUS
<1>1. CASE CertificateStep
  BY <1>1 DEF CertificateStep, C!Next
<1>2. CASE RedirectStep
  BY <1>2, RedirectStepIs DEF certVars, C!vars
<1>3. CASE ManagerRestarts
  BY <1>3 DEF ManagerRestarts, C!Next
<1>4. CASE UNCHANGED ecoVars
  BY <1>4 DEF ecoVars, vars, certVars, C!vars
<1> QED BY <1>1, <1>2, <1>3, <1>4 DEF EcoNext

(* The certificate code does in the composition what it does by itself: no   *)
(* step of the redirect controller is one that Certificates does not allow,   *)
(* so that all that is proved of Certificates holds in the ecosystem.         *)
THEOREM EcosystemRunsCertificates == EcoSpec => C!Spec
<1>1. EcoInit => C!Init BY DEF EcoInit
<1> QED BY <1>1, EcoStepIsCertificates, PTL DEF EcoSpec, C!Spec

(* The inductive invariant of the composition: the invariants of both parts  *)
(* and the settings others wrote, which makes the lists of alternatives      *)
(* finite.                                                                   *)
CertInv == C!TypeOK /\ Copies /\ FollowInv /\ Given
EcoInv == CertInv /\ RedirectTypes /\ RedirectInv

LEMMA EcoInitInv == EcoInit => EcoInv
<1> SUFFICES ASSUME EcoInit PROVE EcoInv
  OBVIOUS
<1>1. C!TypeOK BY CertTypesInductive DEF EcoInit
<1>2. Copies /\ FollowInv
  BY DEF EcoInit, C!Init, C!Fresh, FollowInv, Copies, CopyCurrent, C!IdleSync
<1>3. config.set = InitSettings BY DEF EcoInit, C!Init
<1>4. config \in ConfigState
  BY <1>1 DEF C!TypeOK, C!ConfigState, ConfigState, C!Settings, Settings, C!Certificate, Certificate
<1>5. ingress \in IngressState BY NoIngressType DEF EcoInit, RedirectInit
<1>6. mw \in MiddlewareState BY NoMiddlewareType DEF EcoInit, RedirectInit
<1>7. wk \in WorkerState BY IdleType DEF EcoInit, RedirectInit
<1>8. RedirectTypes
  BY <1>3, <1>4, <1>5, <1>6, <1>7, RedirectAssumption DEF EcoInit, RedirectInit, RedirectTypes, TypeOK
<1>9. RedirectInv
  BY DEF EcoInit, RedirectInit, Idle, RedirectInv, Attended, Purposeful
<1> QED BY <1>1, <1>2, <1>3, <1>8, <1>9 DEF EcoInv, CertInv, Given

LEMMA CertInvStep == CertInv /\ [EcoNext]_ecoVars => CertInv'
BY EcoStepIsCertificates, CertTypesInductive, CertStepKeepsSettings, CertStepFollows, CertStepGiven
DEF CertInv

(* The redirect controller sees every change the certificate code makes.   *)
LEMMA EcoStepInv == EcoInv /\ [EcoNext]_ecoVars => EcoInv'
<1> SUFFICES ASSUME EcoInv, [EcoNext]_ecoVars PROVE EcoInv'
  OBVIOUS
<1>1. CertInv' BY CertInvStep DEF EcoInv
<1>2. config' \in ConfigState /\ IsFiniteSet(config'.set.alts)
  <2>1. config' \in ConfigState
    BY <1>1 DEF CertInv, C!TypeOK, C!ConfigState, ConfigState, C!Settings, Settings,
       C!Certificate, Certificate
  <2> QED BY <1>1, <2>1, RedirectAssumption DEF CertInv, Given
<1>3. RedirectTypes /\ RedirectInv /\ Purposeful BY DEF EcoInv, RedirectInv
<1>4. CASE [Next]_vars
  BY <1>1, <1>3, <1>4, RedirectStepTypes, RedirectStepInv DEF EcoInv
<1>5. CASE CertificateStep
  <2>1. UNCHANGED <<ingress, mw, wk, drifted, left>> /\ queue' = (queue \/ config' # config)
    BY <1>5 DEF CertificateStep
  <2>2. CASE config' = config
    <3>1. queue' = queue BY <1>3, <2>1, <2>2 DEF RedirectTypes, TypeOK
    <3> QED BY <1>4, <2>1, <2>2, <3>1 DEF vars
  <2>3. CASE config' # config
    <3>1. queue' = TRUE BY <2>1, <2>3
    <3>2. RedirectInv' BY <1>3, <2>1, <3>1, QueuedAttended
    <3>3. RedirectTypes' BY <1>2, <1>3, <2>1, <3>1 DEF RedirectTypes, TypeOK
    <3> QED BY <1>1, <3>2, <3>3 DEF EcoInv
  <2> QED BY <2>2, <2>3
<1>6. CASE RedirectStep
  BY <1>4, <1>6, RedirectStepIs
<1>7. CASE ManagerRestarts
  <2>1. wk' = Idle /\ queue' = TRUE /\ UNCHANGED <<ingress, mw, drifted, left>>
    BY <1>7 DEF ManagerRestarts, Restarted
  <2>2. RedirectInv' BY <1>3, <2>1, QueuedAttended
  <2>3. RedirectTypes' BY <1>2, <1>3, <2>1, IdleType DEF RedirectTypes, TypeOK
  <2> QED BY <1>1, <2>2, <2>3 DEF EcoInv
<1>8. CASE UNCHANGED ecoVars
  BY <1>4, <1>8 DEF ecoVars
<1> QED BY <1>5, <1>6, <1>7, <1>8 DEF EcoNext

LEMMA EcoInvHolds == EcoSpec => []EcoInv
BY EcoInitInv, EcoStepInv, PTL DEF EcoSpec

(* The redirect is not forgotten when the certificate code publishes into    *)
(* the global config at any moment of its reconcile, or ends the manager      *)
(* under it because the first Synchronize failed.                             *)
THEOREM RedirectSurvivesCertificates == EcoSpec => []NoLostUpdate
<1>1. EcoInv => NoLostUpdate
  BY DEF EcoInv, RedirectInv, Attended, NoLostUpdate
<1> QED BY <1>1, EcoInvHolds, PTL

(* No alternative FQDN names the secret of the ecosystem's certificate: such *)
(* a name is served with that certificate, but getAlternativeFQDNs takes it   *)
(* for one with a certificate of its own and leaves it out.                   *)
NoneExplicit ==
    \A S \in Edits \cup {InitSettings} :
        \A a \in Parse(S.alts) : a.secret # "ecosystem-certificate"

(* What is redirected under the ecosystem's certificate is named by it: when  *)
(* redirect controller and updater have come to rest, the self-signed         *)
(* certificate has the hosts of the ingress and the FQDN they lead to, for    *)
(* any settings, errors, uploads and restarts, unless the updater dropped a   *)
(* change or others changed the middleware.                                   *)
THEOREM RedirectsAreCovered ==
    ASSUME NoneExplicit PROVE EcoSpec => []CoveredAtRest
<1>1. EcoInv => CoveredAtRest
  <2> SUFFICES ASSUME EcoInv, Wanted, Regenerated, Resting, ~drifted, ingress.exists
               PROVE  DefaultHosts \cup {mw.to} \subseteq secret.cert.names
    BY DEF CoveredAtRest
  <2>1. IngressInSync /\ MiddlewareInSync
    BY DEF EcoInv, RedirectInv, Attended, Resting, Current
  <2>2. mw.to = config.set.fqdn
    BY <2>1 DEF IngressInSync, MiddlewareInSync
  <2>3. C!Covers(secret.cert, config.set)
    BY DEF EcoInv, CertInv, FollowInv, Fits, Noted, Regenerated, Resting, C!Busy
  <2>4. C!SharedNames(config.set) = {a.fqdn : a \in {b \in Parse(config.set.alts) : ~HasCertificate(b)}}
    BY DEF C!SharedNames, C!Parse, Parse, C!HasCertificate, HasCertificate, C!Empty, Empty
  <2>5. ASSUME NEW h \in DefaultHosts PROVE h \in C!SharedNames(config.set)
    <3>1. PICK r \in Redirects(config.set) : r[1] = "ecosystem-certificate" /\ h = r[2]
      BY <2>1 DEF DefaultHosts, IngressInSync
    <3>2. PICK a \in Parse(config.set.alts) :
              r = <<IF HasCertificate(a) THEN a.secret ELSE "ecosystem-certificate", a.fqdn>>
      BY <3>1 DEF Redirects
    <3>3. ~HasCertificate(a) /\ h = a.fqdn
      BY <3>1, <3>2, NoneExplicit DEF NoneExplicit, EcoInv, CertInv, Given
    <3> QED BY <2>4, <3>3
  <2> QED BY <2>2, <2>3, <2>5 DEF C!Covers
<1> QED BY <1>1, EcoInvHolds, PTL
=============================================================================
