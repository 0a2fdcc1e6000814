-------------------------- MODULE Redirect_proofs --------------------------
(***************************************************************************)
(* The types of Redirect, and that no change of the global config or of the *)
(* redirect ingress is forgotten.                                           *)
(***************************************************************************)
EXTENDS Redirect, FiniteSetTheorems, TLAPS

---------------------------------------------------------------------------
(* What Orders returns.                                                    *)

(* The image of a finite set is finite.                                    *)
LEMMA FiniteImage ==
    ASSUME NEW X, NEW Y, IsFiniteSet(X), NEW f \in [X -> Y],
           \A y \in Y : \E x \in X : f[x] = y
    PROVE  IsFiniteSet(Y)
BY FS_Surjection DEF Surjection

(* An entry that is split into one or two parts is parsed to texts.        *)
LEMMA ParseType ==
    ASSUME NEW S \in Settings
    PROVE  Parse(S.alts) \in SUBSET AlternativeFQDN
<1> SUFFICES ASSUME NEW a \in Parse(S.alts) PROVE a \in AlternativeFQDN
  OBVIOUS
<1>1. PICK e \in {f \in S.alts : Len(f) \in {1, 2} /\ f[1] # Empty} :
          a = [fqdn |-> e[1].text, secret |-> IF Len(e) = 2 THEN e[2].text ELSE ""]
  BY Zenon DEF Parse
<1>2. e \in Seq(Part) /\ Len(e) \in {1, 2} BY <1>1, GlobalConfigAssumption DEF Settings
<1>3. 1 \in 1 .. Len(e) /\ (Len(e) = 2 => 2 \in 1 .. Len(e))
  <2>1. CASE Len(e) = 1 BY <2>1
  <2>2. CASE Len(e) = 2 BY <2>2
  <2> QED BY <1>2, <2>1, <2>2
<1>4. e[1] \in Part /\ (Len(e) = 2 => e[2] \in Part) BY <1>2, <1>3
<1>5. e[1].text \in Name \cup TlsSecret \cup {""} BY <1>4 DEF Part
<1>6. Len(e) = 2 => e[2].text \in Name \cup TlsSecret \cup {""} BY <1>4 DEF Part
<1> QED BY <1>1, <1>5, <1>6 DEF AlternativeFQDN

LEMMA ParseFinite ==
    ASSUME NEW E, IsFiniteSet(E)
    PROVE  IsFiniteSet(Parse(E))
<1> DEFINE X == {f \in E : Len(f) \in {1, 2} /\ f[1] # Empty}
           im(e) == [fqdn |-> e[1].text, secret |-> IF Len(e) = 2 THEN e[2].text ELSE ""]
           f == [e \in X |-> im(e)]
<1>1. IsFiniteSet(X) BY FS_Subset
<1>2. Parse(E) = {im(e) : e \in X} BY DEF Parse
<1> HIDE DEF X, im
<1>3. f \in [X -> Parse(E)] /\ \A y \in Parse(E) : \E x \in X : f[x] = y BY <1>2
<1> HIDE DEF f
<1> QED BY <1>1, <1>3, FiniteImage

(* Every alternative has a secret once the defaults are assigned.          *)
LEMMA DefaultsType ==
    ASSUME NEW S \in Settings, NEW a \in assignDefaultCertSecrets(Parse(S.alts))
    PROVE  a.secret \in TlsSecret \cup Name /\ a.fqdn \in Host
<1>1. PICK b \in Parse(S.alts) :
          a = [b EXCEPT !.secret = IF HasCertificate(b) THEN b.secret ELSE "ecosystem-certificate"]
  BY DEF assignDefaultCertSecrets
<1>2. b \in AlternativeFQDN BY ParseType
<1> QED BY <1>1, <1>2, GlobalConfigAssumption DEF AlternativeFQDN, HasCertificate, Host

LEMMA DefaultsFinite ==
    ASSUME NEW A, IsFiniteSet(A)
    PROVE  IsFiniteSet(assignDefaultCertSecrets(A))
<1> DEFINE im(a) == [a EXCEPT !.secret =
                        IF HasCertificate(a) THEN a.secret ELSE "ecosystem-certificate"]
           f == [a \in A |-> im(a)]
           Y == assignDefaultCertSecrets(A)
<1>1. Y = {im(a) : a \in A} BY DEF assignDefaultCertSecrets
<1> HIDE DEF Y, im
<1>2. f \in [A -> Y] /\ \A y \in Y : \E x \in A : f[x] = y BY <1>1
<1> HIDE DEF f
<1>3. IsFiniteSet(Y) BY <1>2, FiniteImage
<1> QED BY <1>3 DEF Y

LEMMA GroupsType ==
    ASSUME NEW S \in Settings
    PROVE  Groups(S) \in SUBSET Group /\ \A g \in Groups(S) : g.hosts # {}
<1> DEFINE A == assignDefaultCertSecrets(Parse(S.alts))
<1> SUFFICES ASSUME NEW g \in Groups(S) PROVE g \in Group /\ g.hosts # {}
  OBVIOUS
<1>1. PICK s \in {a.secret : a \in A} :
          g = [secret |-> s, hosts |-> {a.fqdn : a \in {b \in A : b.secret = s}}]
  BY DEF Groups
<1>2. \A a \in A : a.secret \in TlsSecret \cup Name /\ a.fqdn \in Host BY DefaultsType
<1> HIDE DEF A
<1>3. PICK a \in A : a.secret = s BY <1>1
<1>4. g.hosts \in SUBSET Host /\ a.fqdn \in g.hosts BY <1>1, <1>2, <1>3
<1> QED BY <1>1, <1>2, <1>3, <1>4 DEF Group

LEMMA GroupsFinite ==
    ASSUME NEW S \in Settings, IsFiniteSet(S.alts)
    PROVE  IsFiniteSet(Groups(S))
<1> DEFINE A == assignDefaultCertSecrets(Parse(S.alts))
           im(s) == [secret |-> s, hosts |-> {a.fqdn : a \in {b \in A : b.secret = s}}]
           f == [a \in A |-> im(a.secret)]
<1>1. IsFiniteSet(A) BY ParseFinite, DefaultsFinite
<1>2. Groups(S) = {im(s) : s \in {a.secret : a \in A}} BY DEF Groups
<1> HIDE DEF A, im
<1>3. f \in [A -> Groups(S)] /\ \A y \in Groups(S) : \E x \in A : f[x] = y BY <1>2
<1> HIDE DEF f
<1> QED BY <1>1, <1>3, FiniteImage

(* In any order, the groups are all there, and there is nothing else.      *)
LEMMA OrdersRange ==
    ASSUME NEW S \in Settings, IsFiniteSet(S.alts), NEW tls \in Orders(S)
    PROVE  tls \in Seq(Group) /\ Range(tls) = Groups(S)
<1> DEFINE G == Groups(S)
           n == Cardinality(G)
<1>1. IsFiniteSet(G) /\ n \in Nat BY GroupsFinite, FS_CardinalityType
<1>2. tls \in [1 .. n -> G] /\ \A i, j \in 1 .. n : i # j => tls[i] # tls[j]
  BY DEF Orders, SetToSeqs
<1>3. tls \in Injection(1 .. n, G) BY <1>2 DEF Injection, IsInjective
<1>4. Cardinality(1 .. n) = n BY <1>1, FS_Interval
<1>5. tls \in Surjection(1 .. n, G) BY <1>1, <1>3, <1>4, FS_Injection
<1>6. \A g \in G : \E i \in 1 .. n : tls[i] = g BY <1>5 DEF Surjection
<1>7. G \in SUBSET Group BY GroupsType
<1> HIDE DEF G, n
<1>8. tls \in Seq(Group) BY <1>1, <1>2, <1>7
<1>9. Range(tls) = G BY <1>2, <1>6 DEF Range
<1> QED BY <1>8, <1>9 DEF G
---------------------------------------------------------------------------
(* What the ingress serves, in terms of the settings.                      *)

(* Grouping by secret and assigning the defaults loses no host.            *)
LEMMA GroupsServe ==
    ASSUME NEW S \in Settings
    PROVE  UNION {{g.secret} \X g.hosts : g \in Groups(S)} = Redirects(S)
<1> DEFINE A == assignDefaultCertSecrets(Parse(S.alts))
           U == UNION {{g.secret} \X g.hosts : g \in Groups(S)}
<1>1. \A b \in Parse(S.alts) : b \in AlternativeFQDN BY ParseType
<1>2. ASSUME NEW r \in U PROVE r \in Redirects(S)
  <2>1. PICK g \in Groups(S) : r \in {g.secret} \X g.hosts OBVIOUS
  <2>2. PICK s \in {a.secret : a \in A} :
            g = [secret |-> s, hosts |-> {a.fqdn : a \in {b \in A : b.secret = s}}]
    BY DEF Groups
  <2>3. PICK a \in A : a.secret = s /\ r = <<s, a.fqdn>> BY <2>1, <2>2
  <2>4. PICK b \in Parse(S.alts) :
            a = [b EXCEPT !.secret = IF HasCertificate(b) THEN b.secret ELSE "ecosystem-certificate"]
    BY DEF assignDefaultCertSecrets
  <2>5. /\ a.fqdn = b.fqdn
        /\ a.secret = IF HasCertificate(b) THEN b.secret ELSE "ecosystem-certificate"
    BY <1>1, <2>4 DEF AlternativeFQDN
  <2> QED BY <2>3, <2>5 DEF Redirects
<1>3. ASSUME NEW r \in Redirects(S) PROVE r \in U
  <2>1. PICK b \in Parse(S.alts) :
            r = <<IF HasCertificate(b) THEN b.secret ELSE "ecosystem-certificate", b.fqdn>>
    BY DEF Redirects
  <2> DEFINE a == [b EXCEPT !.secret =
                      IF HasCertificate(b) THEN b.secret ELSE "ecosystem-certificate"]
             g == [secret |-> a.secret, hosts |-> {c.fqdn : c \in {d \in A : d.secret = a.secret}}]
  <2>2. a \in A BY DEF assignDefaultCertSecrets
  <2>3. r = <<a.secret, a.fqdn>> BY <1>1, <2>1 DEF AlternativeFQDN
  <2> HIDE DEF a
  <2>4. g \in Groups(S) BY <2>2 DEF Groups
  <2>5. r \in {g.secret} \X g.hosts
    <3> HIDE DEF A
    <3> QED BY <2>2, <2>3
  <2> QED BY <2>4, <2>5
<1> QED BY <1>2, <1>3

LEMMA OrdersServe ==
    ASSUME NEW S \in Settings, IsFiniteSet(S.alts), NEW tls \in Orders(S)
    PROVE  /\ Served(tls) = Redirects(S)
           /\ tls = << >> <=> Redirects(S) = {}
<1>1. tls \in Seq(Group) /\ Range(tls) = Groups(S) BY OrdersRange
<1>2. Served(tls) = Redirects(S) BY <1>1, GroupsServe DEF Served
<1>3. tls = << >> => Range(tls) = {} BY DEF Range
<1>4. CASE tls # << >>
  <2>1. Len(tls) \in Nat /\ Len(tls) # 0 BY <1>1, <1>4
  <2>2. 1 \in DOMAIN tls BY <1>1, <2>1
  <2>3. tls[1] \in Groups(S) BY <1>1, <2>2 DEF Range
  <2>4. PICK h : h \in tls[1].hosts BY <2>3, GroupsType
  <2>5. <<tls[1].secret, h>> \in Served(tls) BY <1>1, <2>3, <2>4 DEF Served
  <2> QED BY <1>2, <1>4, <2>5
<1>5. CASE tls = << >> BY <1>2, <1>3, <1>5 DEF Served
<1> QED BY <1>2, <1>4, <1>5

LEMMA NothingServed == Served(<< >>) = {}
<1>1. Range(<< >>) = {} BY DEF Range
<1> QED BY <1>1 DEF Served

(* The middleware redirects the hosts the ingress serves.                  *)
LEMMA HostsAreServed ==
    ASSUME NEW tls
    PROVE  HostsOf(tls) = {r[2] : r \in Served(tls)}
<1>1. ASSUME NEW h \in HostsOf(tls) PROVE h \in {r[2] : r \in Served(tls)}
  <2>1. PICK g \in Range(tls) : h \in g.hosts BY DEF HostsOf
  <2>2. <<g.secret, h>> \in Served(tls) BY <2>1 DEF Served
  <2>3. <<g.secret, h>>[2] = h OBVIOUS
  <2> QED BY <2>2, <2>3
<1>2. ASSUME NEW r \in Served(tls) PROVE r[2] \in HostsOf(tls)
  <2>1. PICK g \in Range(tls) : r \in {g.secret} \X g.hosts BY DEF Served
  <2> QED BY <2>1 DEF HostsOf
<1> QED BY <1>1, <1>2
---------------------------------------------------------------------------
(* Types.  The groups of finitely many alternatives are a sequence, so the  *)
(* types are inductive together with the finiteness of the settings.        *)
RedirectTypes == TypeOK /\ IsFiniteSet(config.set.alts)

LEMMA IdleType == Idle \in WorkerState
BY DEF Idle, WorkerState

LEMMA NoIngressType ==
    ASSUME NEW uid \in Nat
    PROVE  NoIngress(uid) \in IngressState
BY DEF NoIngress, IngressState

LEMMA NoMiddlewareType ==
    ASSUME NEW rv \in Nat
    PROVE  NoMiddleware(rv) \in MiddlewareState
BY DEF NoMiddleware, MiddlewareState

LEMMA HostsOfType ==
    ASSUME NEW tls \in Seq(Group)
    PROVE  HostsOf(tls) \in SUBSET Host
<1> SUFFICES ASSUME NEW g \in Range(tls) PROVE g.hosts \in SUBSET Host
  BY DEF HostsOf
<1>1. g \in Group BY DEF Range
<1> QED BY <1>1 DEF Group

LEMMA WriteMiddlewareType ==
    ASSUME wk \in WorkerState, mw \in MiddlewareState, WriteMiddleware
    PROVE  mw' \in MiddlewareState /\ drifted' \in BOOLEAN
<1> DEFINE new == [exists |-> TRUE, from |-> HostsOf(wk.tls), to |-> wk.to,
                   owner |-> wk.uid, rv |-> mw.rv]
<1>1. HostsOf(wk.tls) \in SUBSET Host BY HostsOfType DEF WorkerState
<1>2. new \in MiddlewareState BY <1>1 DEF WorkerState, MiddlewareState
<1>3. [new EXCEPT !.rv = @ + 1] \in MiddlewareState
  <2>1. mw.rv + 1 \in Nat
    <3>1. mw.rv \in Nat BY DEF MiddlewareState
    <3> QED BY <3>1
  <2>2. [new EXCEPT !.rv = mw.rv + 1] \in MiddlewareState BY <1>2, <2>1 DEF MiddlewareState
  <2> QED BY <2>2
<1>4. mw' = mw \/ mw' = [new EXCEPT !.rv = @ + 1] BY DEF WriteMiddleware
<1> QED BY <1>3, <1>4 DEF WriteMiddleware

LEMMA SpendType ==
    ASSUME left \in [EventKinds -> Nat], NEW k \in EventKinds, Spend(k)
    PROVE  left' \in [EventKinds -> Nat]
BY DEF Spend, EventKinds

LEMMA RedirectInitTypes == Init => RedirectTypes
<1> SUFFICES ASSUME Init PROVE RedirectTypes
  OBVIOUS
<1>1. config \in ConfigState
  <2>1. NoCertificate \in Certificate BY DEF NoCertificate, Certificate
  <2> QED BY <2>1, RedirectAssumption DEF Init, ConfigState
<1>2. ingress \in IngressState BY NoIngressType DEF Init, RedirectInit
<1>3. mw \in MiddlewareState BY NoMiddlewareType DEF Init, RedirectInit
<1>4. wk \in WorkerState BY IdleType DEF Init, RedirectInit
<1>5. IsFiniteSet(config.set.alts) BY RedirectAssumption DEF Init
<1> QED
  BY <1>1, <1>2, <1>3, <1>4, <1>5, RedirectAssumption DEF Init, RedirectInit, RedirectTypes, TypeOK

(* A step of the worker, of the garbage collection or of the environment.  *)
LEMMA RedirectStepTypes == RedirectTypes /\ [Next]_vars => RedirectTypes'
<1> SUFFICES ASSUME RedirectTypes, [Next]_vars PROVE RedirectTypes'
  OBVIOUS
<1> USE DEF RedirectTypes, TypeOK
<1>0. /\ ingress.uid \in Nat /\ mw.rv \in Nat /\ mw.rv + 1 \in Nat /\ ingress.uid + 1 \in Nat
      /\ wk.tls \in Seq(Group) /\ wk.to \in Name \cup {""} /\ wk.uid \in Nat
      /\ config.set \in Settings /\ config.rv + 1 \in Nat
  <2>1. ingress.uid \in Nat /\ ingress.uid + 1 \in Nat BY DEF IngressState
  <2>2. mw.rv \in Nat /\ mw.rv + 1 \in Nat
    <3>1. mw.rv \in Nat BY DEF MiddlewareState
    <3> QED BY <3>1
  <2>3. wk.tls \in Seq(Group) /\ wk.to \in Name \cup {""} /\ wk.uid \in Nat BY DEF WorkerState
  <2>4. config.set \in Settings /\ config.rv + 1 \in Nat BY DEF ConfigState
  <2> QED BY <2>1, <2>2, <2>3, <2>4
<1>1. CASE Reconcile
  BY <1>1 DEF Reconcile, WorkerState
<1>2. CASE Read
  <2>1. PICK tls \in Orders(config.set) : ReadConfig(tls) BY <1>2 DEF Read
  <2>2. tls \in Seq(Group) BY <1>0, OrdersRange
  <2>3. config.set.fqdn \in Name \cup {""} BY <1>0 DEF Settings
  <2>4. wk' \in WorkerState BY <2>1, <2>2, <2>3, IdleType DEF ReadConfig, Fail, WorkerState
  <2> QED BY <2>1, <2>4 DEF ReadConfig, Fail
<1>3. CASE DeleteIngress
  BY <1>0, <1>3, IdleType, NoIngressType DEF DeleteIngress
<1>4. CASE CreateIngress
  <2>1. NewIngress \in IngressState BY <1>0 DEF NewIngress, IngressState
  <2>2. [wk EXCEPT !.pc = "get", !.uid = ingress.uid + 1] \in WorkerState
    BY <1>0 DEF WorkerState
  <2>3. [wk EXCEPT !.pc = "update"] \in WorkerState BY DEF WorkerState
  <2> QED BY <1>4, <2>1, <2>2, <2>3, IdleType DEF CreateIngress, Fail
<1>5. CASE UpdateIngress
  <2>1. [ingress EXCEPT !.tls = wk.tls] \in IngressState BY <1>0 DEF IngressState
  <2>2. [wk EXCEPT !.pc = "get", !.uid = ingress.uid] \in WorkerState BY <1>0 DEF WorkerState
  <2>3. queue' \in BOOLEAN BY <1>5 DEF UpdateIngress, Fail
  <2> QED BY <1>5, <2>1, <2>2, <2>3, IdleType DEF UpdateIngress, Fail
<1>6. CASE GetMiddleware
  BY <1>0, <1>6 DEF GetMiddleware, WorkerState
<1>7. CASE CreateMiddleware
  BY <1>7, WriteMiddlewareType, IdleType DEF CreateMiddleware, Complete, Fail
<1>8. CASE UpdateMiddleware
  BY <1>8, WriteMiddlewareType, IdleType DEF UpdateMiddleware, ConflictFails, Complete, Fail
<1>9. CASE CollectGarbage
  BY <1>0, <1>9, NoMiddlewareType DEF CollectGarbage
<1>10. CASE Resync
  BY <1>10 DEF Resync
<1>11. CASE EditConfig
  <2>1. PICK S \in Edits : config' = [config EXCEPT !.set = S, !.rv = @ + 1]
    BY <1>11 DEF EditConfig
  <2>2. S \in Settings /\ IsFiniteSet(S.alts) BY RedirectAssumption
  <2>3. config' \in ConfigState /\ config'.set = S BY <1>0, <2>1, <2>2 DEF ConfigState
  <2>4. left' \in [EventKinds -> Nat] BY <1>11, SpendType DEF EditConfig, EventKinds
  <2> QED BY <1>11, <2>2, <2>3, <2>4 DEF EditConfig
<1>12. CASE DriftIngress
  <2>0. << >> \in Seq(Group) OBVIOUS
  <2>1. [ingress EXCEPT !.tls = << >>] \in IngressState BY <2>0 DEF IngressState
  <2>2. left' \in [EventKinds -> Nat] BY <1>12, SpendType DEF DriftIngress, EventKinds
  <2> QED BY <1>0, <1>12, <2>1, <2>2, NoIngressType DEF DriftIngress
<1>13. CASE DriftMiddleware
  <2>1. [mw EXCEPT !.exists = TRUE, !.from = {}, !.rv = @ + 1] \in MiddlewareState
    BY <1>0 DEF MiddlewareState
  <2>2. left' \in [EventKinds -> Nat] BY <1>13, SpendType DEF DriftMiddleware, EventKinds
  <2> QED BY <1>0, <1>13, <2>1, <2>2, NoMiddlewareType DEF DriftMiddleware
<1>14. CASE CallError
  <2>1. left' \in [EventKinds -> Nat] BY <1>14, SpendType DEF CallError, EventKinds
  <2> QED BY <1>14, <2>1, IdleType DEF CallError, Fail
<1>15. CASE AnswerLost
  <2>1. NewIngress \in IngressState BY <1>0 DEF NewIngress, IngressState
  <2>2. [ingress EXCEPT !.tls = wk.tls] \in IngressState BY <1>0 DEF IngressState
  <2>3. left' \in [EventKinds -> Nat] BY <1>15, SpendType DEF AnswerLost, EventKinds
  <2> QED
    BY <1>0, <1>15, <2>1, <2>2, <2>3, IdleType, NoIngressType, WriteMiddlewareType DEF AnswerLost
<1>16. CASE Crash
  <2>1. left' \in [EventKinds -> Nat] BY <1>16, SpendType DEF Crash, EventKinds
  <2> QED BY <1>16, <2>1, IdleType DEF Crash, Restarted
<1>17. CASE UNCHANGED vars
  BY <1>17 DEF vars
<1> QED
  BY <1>1, <1>2, <1>3, <1>4, <1>5, <1>6, <1>7, <1>8, <1>9, <1>10, <1>11, <1>12, <1>13, <1>14,
     <1>15, <1>16, <1>17 DEF Next, Work, Write, Disturb

LEMMA RedirectTypesHold == Spec => []RedirectTypes
BY RedirectInitTypes, RedirectStepTypes, PTL DEF Spec

(* In every reachable state the variables have their types: what the worker *)
(* takes from the map of groups is a sequence of groups, in whatever order   *)
(* createRedirectIngress goes over it.                                       *)
THEOREM RedirectTypeCorrect == Spec => []TypeOK
<1>1. RedirectTypes => TypeOK BY DEF RedirectTypes
<1> QED BY <1>1, RedirectTypesHold, PTL
---------------------------------------------------------------------------
(* No update is lost.  NoLostUpdate is not inductive: it says nothing of a   *)
(* worker on its way with old settings while all is in sync, which would      *)
(* write them.  Such a worker has the request queued behind it, so that only  *)
(* an idle one may be without work; and it writes an ingress only for         *)
(* settings that ask for one.                                                 *)
Attended ==
    Wanted => \/ queue \/ Current
              \/ wk.pc = "idle" /\ IngressInSync /\ (MiddlewareInSync \/ drifted)
Purposeful == wk.pc \in {"create", "update"} => Served(wk.tls) # {}
RedirectInv == Attended /\ Purposeful

LEMMA QueuedAttended ==
    ASSUME queue', wk' = Idle \/ UNCHANGED wk, Purposeful
    PROVE  RedirectInv'
<1>1. Idle.pc = "idle" BY DEF Idle
<1> QED BY <1>1 DEF RedirectInv, Attended, Purposeful

(* The middleware is written as the settings ask, by a worker that is       *)
(* current.                                                                 *)
LEMMA WriteMiddlewareInSync ==
    ASSUME TypeOK, WriteMiddleware, UNCHANGED <<config, ingress>>,
           Served(wk.tls) = Redirects(config.set), wk.to = config.set.fqdn,
           wk.uid = ingress.uid
    PROVE  MiddlewareInSync'
<1> DEFINE new == [exists |-> TRUE, from |-> HostsOf(wk.tls), to |-> wk.to,
                   owner |-> wk.uid, rv |-> mw.rv]
<1>1. mw' = (IF new = mw THEN mw ELSE [new EXCEPT !.rv = @ + 1]) BY DEF WriteMiddleware
<1>2. /\ mw'.exists /\ mw'.from = HostsOf(wk.tls) /\ mw'.to = wk.to /\ mw'.owner = wk.uid
  <2>1. CASE new = mw BY <1>1, <2>1
  <2>2. CASE new # mw BY <1>1, <2>2
  <2> QED BY <2>1, <2>2
<1>3. HostsOf(wk.tls) = {r[2] : r \in Redirects(config.set)} BY HostsAreServed
<1> QED BY <1>2, <1>3 DEF MiddlewareInSync

LEMMA RedirectStepInv ==
    ASSUME RedirectTypes, RedirectInv, [Next]_vars
    PROVE  RedirectInv'
<1> USE DEF RedirectTypes
<1>0. config.set \in Settings BY DEF TypeOK, ConfigState
<1>i. Idle.pc = "idle" BY DEF Idle
<1>p. Purposeful BY DEF RedirectInv
<1>1. CASE Reconcile
  <2>1. wk'.pc = "read" BY <1>1 DEF Reconcile, TypeOK, WorkerState
  <2> QED BY <2>1 DEF RedirectInv, Attended, Purposeful, Current
<1>2. CASE Read
  <2>1. PICK tls \in Orders(config.set) : ReadConfig(tls) BY <1>2 DEF Read
  <2>2. Served(tls) = Redirects(config.set) /\ (tls = << >> <=> Redirects(config.set) = {})
    BY <1>0, OrdersServe
  <2>3. CASE Fail BY <1>p, <2>3, QueuedAttended DEF Fail
  <2>4. CASE tls = << >> /\ wk' = [wk EXCEPT !.pc = "delete"]
    <3>1. wk'.pc = "delete" BY <2>4 DEF TypeOK, WorkerState
    <3>2. config' = config BY <2>1 DEF ReadConfig
    <3> QED BY <2>2, <2>4, <3>1, <3>2 DEF RedirectInv, Attended, Purposeful, Current
  <2>5. CASE /\ tls # << >>
             /\ wk' = [wk EXCEPT !.pc = "create", !.tls = tls, !.to = config.set.fqdn]
    <3>1. wk'.pc = "create" /\ wk'.tls = tls /\ wk'.to = config.set.fqdn
      BY <2>5 DEF TypeOK, WorkerState
    <3>2. config' = config BY <2>1 DEF ReadConfig
    <3> QED BY <2>2, <2>5, <3>1, <3>2 DEF RedirectInv, Attended, Purposeful, Current
  <2> QED BY <2>1, <2>3, <2>4, <2>5 DEF ReadConfig
<1>3. CASE DeleteIngress
  <2>1. CASE queue' BY <1>3, <1>p, <2>1, QueuedAttended DEF DeleteIngress
  <2>2. CASE ~queue'
    <3>1. ~queue /\ ~ingress.exists /\ wk.pc = "delete" /\ config' = config
      BY <1>3, <2>2 DEF DeleteIngress
    <3>2. ~ingress'.exists /\ ingress'.tls = << >> /\ wk'.pc = "idle"
      BY <1>3, <1>i DEF DeleteIngress, NoIngress
    <3>3. Wanted => Redirects(config.set) = {}
      BY <3>1 DEF RedirectInv, Attended, Current
    <3>4. Wanted' => Wanted BY <3>1 DEF Wanted
    <3>5. Wanted' => IngressInSync' /\ MiddlewareInSync'
      BY <3>1, <3>2, <3>3, <3>4, NothingServed DEF IngressInSync, MiddlewareInSync
    <3> QED BY <3>2, <3>5 DEF RedirectInv, Attended, Purposeful
  <2> QED BY <2>1, <2>2
<1>4. CASE CreateIngress
  <2>1. CASE Fail BY <1>p, <2>1, QueuedAttended DEF Fail
  <2>2. CASE /\ Creates /\ ingress' = NewIngress
             /\ wk' = [wk EXCEPT !.pc = "get", !.uid = ingress.uid + 1] /\ UNCHANGED queue
    <3>1. /\ wk.pc = "create" /\ wk'.pc = "get" /\ wk'.tls = wk.tls /\ wk'.to = wk.to
          /\ wk'.uid = ingress'.uid /\ ingress'.exists /\ ingress'.tls = wk.tls
      BY <2>2 DEF Creates, NewIngress, TypeOK, WorkerState
    <3>2. config' = config /\ queue' = queue BY <1>4, <2>2 DEF CreateIngress
    <3>3. Served(wk.tls) # {} BY <1>p, <3>1 DEF Purposeful
    <3>4. Wanted' => Wanted BY <3>2 DEF Wanted
    <3>5. Current => Current'
      BY <3>1, <3>2, <3>3 DEF Current, IngressInSync
    <3> QED BY <3>1, <3>2, <3>4, <3>5 DEF RedirectInv, Attended, Purposeful
  <2>3. CASE wk' = [wk EXCEPT !.pc = "update"] /\ UNCHANGED <<ingress, queue>>
    <3>1. /\ wk.pc = "create" /\ wk'.pc = "update" /\ wk'.tls = wk.tls /\ wk'.to = wk.to
      BY <1>4, <2>3 DEF CreateIngress, TypeOK, WorkerState
    <3>2. config' = config /\ queue' = queue BY <1>4, <2>3 DEF CreateIngress
    <3>3. Wanted' => Wanted BY <3>2 DEF Wanted
    <3>4. Current => Current' BY <3>1, <3>2 DEF Current
    <3>5. Purposeful' BY <1>p, <3>1 DEF Purposeful
    <3> QED BY <3>1, <3>2, <3>3, <3>4, <3>5 DEF RedirectInv, Attended
  <2> QED BY <1>4, <2>1, <2>2, <2>3 DEF CreateIngress
<1>5. CASE UpdateIngress
  <2>1. CASE Fail BY <1>p, <2>1, QueuedAttended DEF Fail
  <2>2. CASE /\ ingress.exists /\ ingress' = [ingress EXCEPT !.tls = wk.tls]
             /\ queue' = (queue \/ Changed(wk.tls))
             /\ wk' = [wk EXCEPT !.pc = "get", !.uid = ingress.uid]
    <3>1. /\ wk'.pc = "get" /\ wk'.tls = wk.tls /\ wk'.to = wk.to /\ wk'.uid = ingress.uid
          /\ ingress'.exists /\ ingress'.tls = wk.tls /\ ingress'.uid = ingress.uid
      BY <2>2 DEF TypeOK, WorkerState, IngressState
    <3>2. config' = config /\ wk.pc = "update" BY <1>5 DEF UpdateIngress
    <3>3. Served(wk.tls) # {} BY <1>p, <3>2 DEF Purposeful
    <3>4. Wanted' => Wanted BY <3>2 DEF Wanted
    <3>5. Current => Current'
      BY <3>1, <3>2, <3>3 DEF Current, IngressInSync
    <3>6. queue => queue' BY <2>2
    <3> QED BY <3>1, <3>2, <3>4, <3>5, <3>6 DEF RedirectInv, Attended, Purposeful
  <2> QED BY <1>5, <2>1, <2>2 DEF UpdateIngress
<1>6. CASE GetMiddleware
  <2>1. /\ wk.pc = "get" /\ wk'.pc \in {"updateMw", "createMw"} /\ wk'.tls = wk.tls
        /\ wk'.to = wk.to /\ wk'.uid = wk.uid
    BY <1>6 DEF GetMiddleware, TypeOK, WorkerState
  <2>2. UNCHANGED <<config, ingress, queue>> BY <1>6 DEF GetMiddleware
  <2>3. Wanted' => Wanted BY <2>2 DEF Wanted
  <2>4. Current => Current' BY <2>1, <2>2 DEF Current, IngressInSync
  <2> QED BY <2>1, <2>2, <2>3, <2>4 DEF RedirectInv, Attended, Purposeful
<1>7. CASE CreateMiddleware \/ UpdateMiddleware
  <2>1. CASE Fail BY <1>p, <2>1, QueuedAttended DEF Fail
  <2>2. CASE WriteMiddleware /\ Complete
    <3>1. /\ UNCHANGED <<config, ingress, queue>> /\ wk'.pc = "idle"
          /\ wk.pc \in {"createMw", "updateMw"}
      BY <1>i, <1>7, <2>2 DEF CreateMiddleware, UpdateMiddleware, Complete
    <3>2. Wanted' => Wanted BY <3>1 DEF Wanted
    <3>3. Current => IngressInSync' BY <3>1 DEF Current, IngressInSync
    <3>4. Current => MiddlewareInSync'
      BY <2>2, <3>1, WriteMiddlewareInSync DEF Current
    <3> QED BY <3>1, <3>2, <3>3, <3>4 DEF RedirectInv, Attended, Purposeful
  <2> QED BY <1>7, <2>1, <2>2 DEF CreateMiddleware, UpdateMiddleware, ConflictFails
<1>8. CASE CollectGarbage
  <2>1. UNCHANGED <<config, ingress, queue, wk, drifted>> BY <1>8 DEF CollectGarbage
  <2>2. Wanted' => Wanted BY <2>1 DEF Wanted
  <2>3. (Current => Current') /\ (IngressInSync => IngressInSync')
    BY <2>1 DEF Current, IngressInSync
  <2>4. IngressInSync /\ MiddlewareInSync => Redirects(config.set) = {}
    BY <1>8 DEF CollectGarbage, IngressInSync, MiddlewareInSync
  <2>5. IngressInSync /\ MiddlewareInSync => MiddlewareInSync'
    BY <2>1, <2>4 DEF MiddlewareInSync
  <2> QED BY <2>1, <2>2, <2>3, <2>5, <1>p DEF RedirectInv, Attended, Purposeful
<1>9. CASE DriftMiddleware
  <2>1. UNCHANGED <<config, ingress, queue, wk>> /\ drifted' BY <1>9 DEF DriftMiddleware
  <2>2. Wanted' => Wanted BY <2>1 DEF Wanted
  <2>3. (Current => Current') /\ (IngressInSync => IngressInSync')
    BY <2>1 DEF Current, IngressInSync
  <2> QED BY <2>1, <2>2, <2>3, <1>p DEF RedirectInv, Attended, Purposeful
<1>10. CASE Resync \/ EditConfig \/ DriftIngress \/ CallError \/ AnswerLost \/ Crash
  <2>1. queue' /\ (wk' = Idle \/ UNCHANGED wk)
    BY <1>10 DEF Resync, EditConfig, DriftIngress, CallError, AnswerLost, Crash, Fail, Restarted
  <2> QED BY <1>p, <2>1, QueuedAttended
<1>11. CASE UNCHANGED vars
  <2>1. UNCHANGED <<config, ingress, mw, queue, wk, drifted>> BY <1>11 DEF vars
  <2>2. Wanted' => Wanted BY <2>1 DEF Wanted
  <2>3. /\ Current => Current'
        /\ IngressInSync => IngressInSync'
        /\ MiddlewareInSync => MiddlewareInSync'
    BY <2>1 DEF Current, IngressInSync, MiddlewareInSync
  <2> QED BY <2>1, <2>2, <2>3, <1>p DEF RedirectInv, Attended, Purposeful
<1> QED
  BY <1>1, <1>2, <1>3, <1>4, <1>5, <1>6, <1>7, <1>8, <1>9, <1>10, <1>11
  DEF Next, Work, Write, Disturb

(* The redirect is never forgotten: as long as the ingress or the middleware *)
(* do not say what the global config says, the request of the redirect        *)
(* controller is queued or Reconcile is about to write it, for any list of    *)
(* alternatives, any settings and any number of disturbances.                 *)
THEOREM RedirectIsNotForgotten == Spec => []NoLostUpdate
<1>1. Init => RedirectInv
  <2> SUFFICES ASSUME Init PROVE RedirectInv
    OBVIOUS
  <2>1. queue /\ wk.pc = "idle" BY DEF Init, RedirectInit, Idle
  <2> QED BY <2>1 DEF RedirectInv, Attended, Purposeful
<1>2. RedirectTypes /\ RedirectInv /\ [Next]_vars => RedirectInv' BY RedirectStepInv
<1>3. RedirectInv => NoLostUpdate BY DEF RedirectInv, Attended, NoLostUpdate
<1> QED BY <1>1, <1>2, <1>3, RedirectTypesHold, PTL DEF Spec
=============================================================================
