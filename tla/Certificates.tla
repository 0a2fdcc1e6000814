---------------------------- MODULE Certificates ----------------------------
(***************************************************************************)
(* The secret ecosystem-certificate.  The updater writes a new self-signed *)
(* certificate into it when the FQDN changes; the synchronizer copies the  *)
(* certificate to the global config, once at the start of the manager and  *)
(* whenever the reconciler has a request.  The three run concurrently.     *)
(***************************************************************************)
EXTENDS GlobalConfig

CONSTANTS
    InitSettings,   \* the settings the manager starts with
    Edits,          \* the settings others may write
    InitKey,        \* does the global config have a private key at the start?
    InitSecret,     \* the certificate in the secret, NoCertificate without it
    Uploads,        \* kinds of certificates others may write to the secret
    Attempts,       \* how often OnError tries (1000 in the code)
    ResyncOn,       \* do behaviours reach as far as the informers' resync?
    Budget          \* bounds on what the environment does, by kind

EventKinds == {"edit", "upload", "fault", "watch", "crash", "any"}
Syncs == {"start", "reconciler"}

ASSUME CertificatesAssumption ==
    /\ InitSettings \in Settings /\ Edits \subseteq Settings
    /\ InitKey \in BOOLEAN /\ InitSecret \in Certificate
    /\ Uploads \subseteq {"none", "other", "garbage", "missing"}
    /\ Attempts \in Nat \ {0}
    /\ ResyncOn \in BOOLEAN
    /\ Budget \in [EventKinds -> Nat]

VARIABLES
    config,     \* the global config
    secret,     \* the secret: cert is NoCertificate when there is none
    upd,        \* the updater
    events,     \* changes the watch has still to deliver
    sync,       \* the two callers of Synchronize
    certQ,      \* is the request of the reconciler queued?
    missed,     \* history: has the updater dropped a change?
    overtaken,  \* history: did the first Synchronize write last, and too late?
    left        \* what the environment may still do

vars == <<config, secret, upd, events, sync, certQ, missed, overtaken, left>>

---------------------------------------------------------------------------
(* Objects.                                                                *)

SecretState == [cert : Certificate, rv : Nat]
SecretExists == secret.cert.kind # "none"

(* watch: has Watch been called?  set: settings as they were read last.    *)
UpdaterState ==
    [pc : {"check", "compare", "handle", "previous", "create", "write", "writeNew",
           "watch", "wait", "closed"},
     watch : BOOLEAN, set : Settings, new : Certificate]

SyncState == [pc : {"idle", "secret", "config", "put"}, cert : Certificate,
              snap : ConfigState, try : 1 .. Attempts]

NoSettings == [fqdn |-> "", domain |-> "", alts |-> {}, type |-> ""]
NoConfig == [set |-> NoSettings, crt |-> NoCertificate, key |-> FALSE, rv |-> 0]
IdleSync == [pc |-> "idle", cert |-> NoCertificate, snap |-> NoConfig, try |-> 1]

Fresh == [pc |-> "check", watch |-> FALSE, set |-> NoSettings, new |-> NoCertificate]

(* Defect: the condition on the certificate is the wrong way round.        *)
OwnNames(S) == {a.fqdn : a \in {b \in Parse(S.alts) : HasCertificate(b)}}

(* getAlternativeFQDNs: the names that share the certificate.              *)
SharedNames(S) == {a.fqdn : a \in {b \in Parse(S.alts) : ~HasCertificate(b)}}

(* certificateHasAllDNSNames, and the comparison of the domain.            *)
Covers(c, S) == SharedNames(S) \cup {S.fqdn} \subseteq c.names /\ c.org = S.domain

Parsable(c) == c.kind \in {"self", "other"}
Creatable(S) == S.fqdn # "" /\ S.domain # ""

---------------------------------------------------------------------------
(* The updater.                                                            *)

(* The loop over the watch channel, or the watch itself when Start is       *)
(* still under way.                                                         *)
Rest(u) == [Fresh EXCEPT !.pc = IF u.watch THEN "wait" ELSE "watch", !.watch = u.watch]

(* An error is logged, and nothing repeats what failed.                    *)
Logged == upd' = Rest(upd) /\ missed' = TRUE

(* Start, shouldUpdateCurrentCertificate: only a self-signed certificate is *)
(* looked at.                                                               *)
CheckType ==
    /\ upd.pc = "check"
    /\ \/ config.set.type = "" /\ Logged
       \/ /\ config.set.type = "external"
          /\ upd' = Rest(upd) /\ UNCHANGED missed
       \/ /\ config.set.type = "selfsigned"
          /\ upd' = [upd EXCEPT !.pc = "compare", !.set = config.set] /\ UNCHANGED missed
    /\ UNCHANGED <<config, secret, events, sync, certQ, overtaken, left>>

(* The names are compared first, then the domain.                          *)
CompareCertificate ==
    LET c == secret.cert
        S == upd.set
        named == SharedNames(S) \cup {S.fqdn} \subseteq c.names
        error == SecretExists /\ (~Parsable(c) \/ S.fqdn = "" \/ (named /\ S.domain = ""))
        update == ~SecretExists \/ ~Covers(c, S)
    IN  /\ upd.pc = "compare"
        /\ \/ error /\ Logged
           \/ /\ ~error /\ update
              /\ upd' = [upd EXCEPT !.pc = "handle", !.set = NoSettings] /\ UNCHANGED missed
           \/ /\ ~error /\ ~update
              /\ upd' = Rest(upd) /\ UNCHANGED missed
        /\ UNCHANGED <<config, secret, events, sync, certQ, overtaken, left>>

(* handleFqdnChange.                                                       *)
HandleFqdnChange ==
    /\ upd.pc = "handle"
    /\ \/ config.set.type = "" /\ Logged
       \/ /\ config.set.type = "external"
          /\ upd' = Rest(upd) /\ UNCHANGED missed
       \/ /\ config.set.type = "selfsigned"
          /\ upd' = [upd EXCEPT !.pc = "previous", !.set = config.set] /\ UNCHANGED missed
    /\ UNCHANGED <<config, secret, events, sync, certQ, overtaken, left>>

(* Of the previous certificate, only whether it can be parsed matters.     *)
ReadPrevious ==
    /\ upd.pc = "previous"
    /\ \/ SecretExists /\ ~Parsable(secret.cert) /\ Logged
       \/ /\ SecretExists => Parsable(secret.cert)
          /\ upd' = [upd EXCEPT !.pc = "create"] /\ UNCHANGED missed
    /\ UNCHANGED <<config, secret, events, sync, certQ, overtaken, left>>

(* GenerateSelfSignedCert.                                                 *)
Generated(S, names) ==
    [kind |-> "self", names |-> names \cup {S.fqdn}, org |-> S.domain, no |-> 0]

(* CreateAndSafeCertificate reads the global config again: FQDN and domain  *)
(* may be newer than the alternative names.                                 *)
CreateCertificate ==
    /\ upd.pc = "create"
    /\ \/ ~Creatable(config.set) /\ Logged
       \/ /\ Creatable(config.set)
          /\ upd' = [upd EXCEPT !.pc = "write", !.set = NoSettings,
                                !.new = Generated(config.set, SharedNames(upd.set))]
          /\ UNCHANGED missed
    /\ UNCHANGED <<config, secret, events, sync, certQ, overtaken, left>>

(* A write of the secret, whose event queues the request.                  *)
Store(c) ==
    /\ secret' = [cert |-> [c EXCEPT !.no = secret.rv + 1], rv |-> secret.rv + 1]
    /\ certQ' = TRUE

Written ==
    /\ Store(upd.new)
    /\ upd' = Rest(upd)
    /\ missed' = (missed /\ ~Covers(upd.new, config.set))

(* WriteCertificate: Update without a resource version, or else Create.    *)
UpdateSecret ==
    /\ upd.pc = "write"
    /\ \/ SecretExists /\ Written
       \/ /\ ~SecretExists
          /\ upd' = [upd EXCEPT !.pc = "writeNew"] /\ UNCHANGED <<secret, certQ, missed>>
    /\ UNCHANGED <<config, events, sync, overtaken, left>>

CreateSecret ==
    /\ upd.pc = "writeNew"
    /\ \/ ~SecretExists /\ Written
       \/ SecretExists /\ Logged /\ UNCHANGED <<secret, certQ>>
    /\ UNCHANGED <<config, events, sync, overtaken, left>>

(* startGlobalConfigWatch; from now on changes are delivered.              *)
StartWatch ==
    /\ upd.pc = "watch"
    /\ upd' = Rest([upd EXCEPT !.watch = TRUE])
    /\ UNCHANGED <<config, secret, events, sync, certQ, missed, overtaken, left>>

ReceiveEvent ==
    /\ upd.pc = "wait" /\ events > 0
    /\ events' = events - 1
    /\ upd' = [upd EXCEPT !.pc = "handle"]
    /\ UNCHANGED <<config, secret, sync, certQ, missed, overtaken, left>>

---------------------------------------------------------------------------
(* The watch.                                                              *)

(* Defect: the watch leaves out the alternative FQDNs.                     *)
WatchedFqdn(c, d) == c.set.fqdn # d.set.fqdn \/ c.set.domain # d.set.domain

(* Defect: the watch has no filter.                                        *)
WatchedAny(c, d) == c # d

(* The keys the updater watches; neither certificate/type nor the           *)
(* certificate itself is one of them.                                       *)
Watched(c, d) ==
    c.set.fqdn # d.set.fqdn \/ c.set.domain # d.set.domain \/ c.set.alts # d.set.alts

(* The global config is written.                                           *)
Write(new) ==
    /\ config' = new
    /\ events' = IF upd.watch /\ upd.pc # "closed" /\ Watched(config, new)
                 THEN events + 1 ELSE events

---------------------------------------------------------------------------
(* Synchronize.                                                            *)

(* Defect: the error is swallowed.                                         *)
DropRequest(a) == sync' = [sync EXCEPT ![a] = IdleSync] /\ UNCHANGED certQ

(* An error of the reconciler queues the request again.                    *)
Requeue(a) == sync' = [sync EXCEPT ![a] = IdleSync] /\ certQ' = TRUE
Done(a) == sync' = [sync EXCEPT ![a] = IdleSync] /\ UNCHANGED certQ

Reconcile ==
    /\ sync["reconciler"].pc = "idle" /\ certQ
    /\ sync' = [sync EXCEPT !["reconciler"].pc = "secret"] /\ certQ' = FALSE
    /\ UNCHANGED <<config, secret, upd, events, missed, overtaken, left>>

(* Without a secret there is nothing to do.                                *)
ReadSecret(a) ==
    /\ sync[a].pc = "secret"
    /\ \/ ~SecretExists /\ Done(a)
       \/ a = "reconciler" /\ secret.cert.kind = "missing" /\ Requeue(a)
       \/ /\ SecretExists /\ secret.cert.kind # "missing"
          /\ sync' = [sync EXCEPT ![a].pc = "config", ![a].cert = secret.cert]
          /\ UNCHANGED certQ
    /\ UNCHANGED <<config, secret, upd, events, missed, overtaken, left>>

(* updateInGlobalConfig: OnError repeats Get and Update, for the            *)
(* certificate read before.                                                 *)
GetConfig(a) ==
    /\ sync[a].pc = "config"
    /\ sync' = [sync EXCEPT ![a].pc = "put", ![a].snap = config]
    /\ UNCHANGED <<config, secret, upd, events, certQ, missed, overtaken, left>>

Published(c, cert) == [c EXCEPT !.crt = cert, !.key = FALSE]

(* Defect: the update carries no resource version.                         *)
NoConflict(a) == FALSE

Conflict(a) == config.rv # sync[a].snap.rv

(* Defect: one attempt too many.                                           *)
AfterLastTry(a) == sync[a].try > Attempts

LastTry(a) == sync[a].try = Attempts

Retry(a) ==
    /\ sync' = [sync EXCEPT ![a].pc = "config", ![a].snap = NoConfig, ![a].try = @ + 1]
    /\ UNCHANGED certQ

(* The API server leaves the resource version when nothing changes.        *)
Publish(a) ==
    LET new == Published(sync[a].snap, sync[a].cert)
    IN  /\ Write(IF new = config THEN config ELSE [new EXCEPT !.rv = config.rv + 1])
        /\ overtaken' = (a = "start" /\ sync[a].cert # secret.cert)

PutConfig(a) ==
    /\ sync[a].pc = "put"
    /\ \/ Conflict(a) /\ ~LastTry(a) /\ Retry(a) /\ UNCHANGED <<config, events, overtaken>>
       \/ /\ Conflict(a) /\ LastTry(a) /\ a = "reconciler"
          /\ Requeue(a) /\ UNCHANGED <<config, events, overtaken>>
       \/ ~Conflict(a) /\ Publish(a) /\ Done(a)
    /\ UNCHANGED <<secret, upd, missed, left>>

---------------------------------------------------------------------------
(* The manager ends when a runnable returns an error, or with the process, *)
(* and is started again.                                                   *)

Started ==
    /\ upd' = Fresh /\ events' = 0 /\ missed' = FALSE
    /\ sync' = [a \in Syncs |-> [IdleSync EXCEPT !.pc = IF a = "start" THEN "secret" ELSE "idle"]]
    /\ certQ' = SecretExists

Spend(kind) ==
    /\ left[kind] > 0 /\ left["any"] > 0
    /\ left' = [left EXCEPT ![kind] = @ - 1, !["any"] = @ - 1]

(* The first Synchronize fails.                                            *)
StartFails ==
    /\ \/ sync["start"].pc = "secret" /\ secret.cert.kind = "missing"
       \/ sync["start"].pc = "put" /\ Conflict("start") /\ LastTry("start")
    /\ Started
    /\ UNCHANGED <<config, secret, overtaken, left>>

(* A call of it fails, or the watch cannot be created.                     *)
StartError ==
    /\ Spend("fault")
    /\ sync["start"].pc # "idle" \/ upd.pc = "watch"
    /\ Started
    /\ UNCHANGED <<config, secret, overtaken>>

Crash == Spend("crash") /\ Started /\ UNCHANGED <<config, secret, overtaken>>

ManagerEnds == StartFails \/ StartError \/ Crash

---------------------------------------------------------------------------
(* Environment.                                                            *)

(* Before Watch has been called a change is seen only if nothing has been   *)
(* read yet; a change of the type alone is never seen.                      *)
EditConfig ==
    /\ Spend("edit")
    /\ \E S \in Edits \ {config.set} :
          LET new == [config EXCEPT !.set = S, !.rv = @ + 1]
          IN  /\ Write(new)
              /\ missed' = (\/ missed \/ upd.pc = "closed"
                            \/ ~upd.watch /\ upd.pc # "check"
                            \/ S.type # config.set.type /\ ~Watched(config, new))
    /\ UNCHANGED <<secret, upd, sync, certQ, overtaken>>

(* Others write or delete the secret.  Both are events for the reconciler.  *)
UploadSecret ==
    /\ Spend("upload")
    /\ \E k \in Uploads :
          /\ k # "none" \/ SecretExists
          /\ IF k = "none"
             THEN secret' = [cert |-> NoCertificate, rv |-> secret.rv + 1] /\ certQ' = TRUE
             ELSE Store([NoCertificate EXCEPT !.kind = k])
    /\ UNCHANGED <<config, upd, events, sync, missed, overtaken>>

(* A call of the updater fails.  A write of the secret that succeeds with its *)
(* answer lost is no case of its own: the error is logged and nothing else    *)
(* follows the write.                                                         *)
UpdaterError ==
    /\ Spend("fault") /\ upd.pc \notin {"watch", "wait", "closed"}
    /\ Logged
    /\ UNCHANGED <<config, secret, events, sync, certQ, overtaken>>

(* A call of the reconciler fails, or its update succeeds and the answer is *)
(* lost.                                                                    *)
ReconcilerError ==
    /\ Spend("fault") /\ sync["reconciler"].pc # "idle"
    /\ Requeue("reconciler")
    /\ \/ UNCHANGED <<config, events, overtaken>>
       \/ sync["reconciler"].pc = "put" /\ ~Conflict("reconciler") /\ Publish("reconciler")
    /\ UNCHANGED <<secret, upd, missed>>

(* The watch delivers an error instead of a change, or its channel closes,  *)
(* which ends the updater.                                                  *)
WatchError ==
    /\ Spend("watch") /\ upd.pc = "wait" /\ events > 0
    /\ events' = events - 1 /\ missed' = TRUE
    /\ UNCHANGED <<config, secret, upd, sync, certQ, overtaken>>

CloseWatch ==
    /\ Spend("watch") /\ upd.pc = "wait"
    /\ upd' = [upd EXCEPT !.pc = "closed"] /\ events' = 0
    /\ missed' = (missed \/ events > 0)
    /\ UNCHANGED <<config, secret, sync, certQ, overtaken>>

(* Defect: the predicate lets only changes through.                        *)
ResyncFiltered == FALSE /\ UNCHANGED vars

(* The resync repeats an update event for the secret.                      *)
Resync ==
    /\ ResyncOn /\ SecretExists
    /\ certQ' = TRUE
    /\ UNCHANGED <<config, secret, upd, events, sync, missed, overtaken, left>>

---------------------------------------------------------------------------
Init ==
    /\ config = [set |-> InitSettings, crt |-> NoCertificate, key |-> InitKey, rv |-> 1]
    /\ secret = [cert |-> InitSecret, rv |-> InitSecret.no]
    /\ upd = Fresh
    /\ events = 0
    /\ sync = [a \in Syncs |-> [IdleSync EXCEPT !.pc = IF a = "start" THEN "secret" ELSE "idle"]]
    /\ certQ = (InitSecret.kind # "none")
    /\ missed = FALSE /\ overtaken = FALSE
    /\ left = Budget

Update ==
    \/ CheckType \/ CompareCertificate \/ HandleFqdnChange \/ ReadPrevious
    \/ CreateCertificate \/ UpdateSecret \/ CreateSecret \/ StartWatch \/ ReceiveEvent

Synchronize(a) == ReadSecret(a) \/ GetConfig(a) \/ PutConfig(a)

Environment ==
    \/ EditConfig \/ UploadSecret \/ UpdaterError \/ ReconcilerError
    \/ WatchError \/ CloseWatch

(* Everything that leaves the manager running.                             *)
Proceed ==
    \/ Update \/ Reconcile \/ \E a \in Syncs : Synchronize(a)
    \/ Resync \/ Environment

Next == Proceed \/ ManagerEnds

Spec == Init /\ [][Next]_vars

(* The updater, the first Synchronize and the reconciler keep going, a      *)
(* manager that has ended is started again, the resync comes round.         *)
Fairness ==
    /\ WF_vars(Update) /\ WF_vars(Reconcile)
    /\ \A a \in Syncs : WF_vars(Synchronize(a))
    /\ WF_vars(StartFails) /\ WF_vars(Resync)

LiveSpec == Spec /\ Fairness

---------------------------------------------------------------------------
(* Every variable has its type.                                            *)
TypeOK ==
    /\ config \in ConfigState
    /\ secret \in SecretState
    /\ upd \in UpdaterState
    /\ events \in Nat
    /\ sync \in [Syncs -> SyncState]
    /\ certQ \in BOOLEAN /\ missed \in BOOLEAN /\ overtaken \in BOOLEAN
    /\ left \in [EventKinds -> Nat]

Publishable == SecretExists /\ secret.cert.kind # "missing"
InSync == config.crt = secret.cert /\ ~config.key

(* Work under way that ends with the certificate of the secret published.  *)
Publishing(a) ==
    sync[a].pc = "secret" \/ (sync[a].pc \in {"config", "put"} /\ sync[a].cert = secret.cert)

(* "Make certificate secret leading": as long as the global config has not   *)
(* the certificate of the secret, or still has a private key, a request is   *)
(* queued or Synchronize is about to write it, after conflicts, errors and   *)
(* restarts too; unless the first Synchronize of a manager wrote last, and   *)
(* wrote a certificate that the secret no longer has.                        *)
NoLostUpdate ==
    Publishable /\ ~InSync => certQ \/ overtaken \/ \E a \in Syncs : Publishing(a)

(* Synchronize never takes back what others have changed in the global       *)
(* config since it was read: only others change the settings.                *)
SettingsKept == [][config'.set # config.set => left'["edit"] < left["edit"]]_vars

Busy == upd.pc \notin {"wait", "closed"} \/ events > 0

(* A self-signed certificate that lacks a name or has another domain than    *)
(* the global config will be replaced: the updater has an event or is at     *)
(* work, though it reads the global config twice; unless it has dropped a    *)
(* change before, by an error that is only logged, between its check and     *)
(* its watch, or because the type is not watched.                            *)
CertificateFollows ==
    config.set.type = "selfsigned" /\ Creatable(config.set) /\ secret.cert.kind = "self"
        => Covers(secret.cert, config.set) \/ Busy \/ missed

Spent(kind) == Budget[kind] - left[kind]

(* Publishing a certificate does not cause the next one: the updater writes  *)
(* the secret at most once for each change others make, each error and each  *)
(* crash, and once more at the start.                                        *)
OncePerChange == secret.rv - InitSecret.no <= 1 + Spent("any") + Spent("upload")

(* In the end the global config has the certificate of the secret and no     *)
(* private key, for good, also after the first Synchronize wrote too late,   *)
(* and a self-signed certificate has the names of the global config, if no   *)
(* change was dropped.                                                       *)
Converges ==
    <>[](/\ Publishable => InSync
         /\ config.set.type = "selfsigned" /\ Creatable(config.set) /\ ~missed
            /\ secret.cert.kind = "self" => Covers(secret.cert, config.set))
=============================================================================
