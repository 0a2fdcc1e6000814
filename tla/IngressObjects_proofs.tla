------------------------ MODULE IngressObjects_proofs ------------------------
(* What the reconciles of IngressExposure do to the other objects: no ingress *)
(* refers to a middleware that is missing, and the selectors of the exposed   *)
(* services are restored after maintenance.                                   *)
EXTENDS IngressExposure_proofs

(* A worker handles ces services of the service it read, and only services    *)
(* that existed when it read them.                                            *)
Owns(s, v) == \A c \in Ces : Declares(v, c) => OwnerOf[c] = s

Holds(r) ==
    /\ \A s \in Service : Owns(s, r.snap[s])
    /\ \A s \in r.todo : r.snap[s].uid # 0
    /\ r.pc \in Writing \cup {"ces"} =>
          r.snap[r.cur].uid # 0 /\ \A c \in r.rest : OwnerOf[c] = r.cur
    /\ r.pc \in Writing => OwnerOf[r.c] = r.cur

Owned ==
    /\ \A s \in Service : Owns(s, svc[s])
    /\ \A w \in Controllers : Holds(wk[w])

(* A service that was never deleted.                                          *)
Young(s) == svc[s].uid = 1 \/ (svc[s].uid = 0 /\ svc[s].rv = 0)

(* The middleware of c has been written, and its ingress is about to be.      *)
WritesPass(r, c) == r.pc \in {"get", "put"} /\ r.c = c /\ r.out = "pass"

(* Of a service that was never deleted every worker has read the same uid, so *)
(* that no middleware of it ever has an owner that is gone.                   *)
BackedAt(c) ==
    LET s == OwnerOf[c] IN
    /\ mw[c].owner \in {0, svc[s].uid}
    /\ ingress[c].route = "pass" => mw[c].owner # 0
    /\ \A w \in Controllers :
          /\ wk[w].snap[s].uid \in {0, svc[s].uid}
          /\ WritesPass(wk[w], c) => mw[c].owner # 0

Backed == \A c \in Ces : Young(OwnerOf[c]) => BackedAt(c)

(* The inductive invariant of RewriteBacked.                                  *)
BackedInv == TypeOK /\ Owned /\ Backed

---------------------------------------------------------------------------
(* What a step may make of the record old of a worker.                        *)
Passed(old, r) ==
    /\ Holds(r)
    /\ \A s \in Service : r.snap[s].uid \in {0, svc[s].uid, old.snap[s].uid}
    /\ \A c \in Ces : WritesPass(r, c) => WritesPass(old, c)

LEMMA GoneOwns == \A s : Owns(s, Gone)
BY DEF Owns, Declares, Gone, NoDeclaration

LEMMA IdlePassed == \A old : Passed(old, Idle)
<1>1. Idle.snap = [s \in Service |-> Gone] /\ Idle.pc = "idle" /\ Idle.todo = {}
  BY DEF Idle
<1>2. Gone.uid = 0
  BY DEF Gone
<1> HIDE DEF Gone
<1>3. \A s \in Service : Idle.snap[s] = Gone
  BY <1>1
<1> QED
  BY <1>1, <1>2, <1>3, GoneOwns DEF Passed, Holds, WritesPass, Writing

LEMMA BackedWorker ==
    ASSUME BackedInv, NEW w \in Controllers, NEW r,
           wk' = [wk EXCEPT ![w] = r], UNCHANGED <<svc, mw, ingress>>, Passed(wk[w], r)
    PROVE  Owned' /\ Backed'
<1> USE DEF BackedInv
<1>1. \A u \in Controllers : wk'[u] = IF u = w THEN r ELSE wk[u]
  BY DEF TypeOK
<1>2. Owned'
  <2>1. \A u \in Controllers : Holds(wk'[u])
    BY <1>1 DEF Owned, Passed
  <2>2. \A s \in Service : Owns(s, svc'[s])
    BY DEF Owned
  <2> QED
    BY <2>1, <2>2 DEF Owned
<1>3. ASSUME NEW c \in Ces, Young(OwnerOf[c])' PROVE BackedAt(c)'
  <2>0. OwnerOf[c] \in Service
    BY ConstantsAssumption
  <2>1. BackedAt(c)
    BY <1>3 DEF Young, Backed
  <2>2. ASSUME NEW u \in Controllers
        PROVE  /\ wk'[u].snap[OwnerOf[c]].uid \in {0, svc[OwnerOf[c]].uid}
               /\ WritesPass(wk'[u], c) => mw[c].owner # 0
    <3>1. CASE u = w
      BY <1>1, <2>0, <2>1, <3>1 DEF BackedAt, Passed
    <3>2. CASE u # w
      BY <1>1, <2>1, <3>2 DEF BackedAt
    <3> QED
      BY <3>1, <3>2
  <2> QED
    BY <2>1, <2>2 DEF BackedAt, WritesPass
<1> QED
  BY <1>2, <1>3 DEF Backed

LEMMA FailBacked ==
    ASSUME BackedInv, NEW w \in Controllers, NEW s, Fail(w, s),
           UNCHANGED <<svc, mw, ingress>>
    PROVE  Owned' /\ Backed'
BY BackedWorker, IdlePassed DEF Fail

LEMMA StartBacked ==
    ASSUME BackedInv, NEW w \in Controllers, NEW S \in SUBSET LiveServices,
           NEW job \in {"upsert", "activate", "deactivate"}, Start(w, job, S),
           UNCHANGED <<svc, mw, ingress>>
    PROVE  Owned' /\ Backed'
<1> USE DEF BackedInv
<1> DEFINE r == Between("next", job, S, SnapOf(S))
<1>0. S \in SUBSET Service
  BY DEF LiveServices
<1>1. r.pc = "next" /\ r.todo = S /\ r.snap = SnapOf(S)
  BY <1>0, SnapOfType, BetweenType
<1>2. wk' = [wk EXCEPT ![w] = r]
  BY DEF Start
<1> HIDE DEF r
<1>3. \A s \in Service : r.snap[s] = IF s \in S THEN svc[s] ELSE Gone
  BY <1>1 DEF SnapOf
<1>4. Gone.uid = 0
  BY DEF Gone
<1>5. \A s \in S : r.snap[s].uid # 0
  BY <1>0, <1>3 DEF LiveServices, Live
<1>6. \A s \in Service : Owns(s, r.snap[s])
  BY <1>3, GoneOwns DEF Owned
<1>7. Passed(wk[w], r)
  BY <1>1, <1>3, <1>4, <1>5, <1>6 DEF Passed, Holds, WritesPass, Writing
<1> QED
  BY <1>2, <1>7, BackedWorker

LEMMA AfterServiceSnap ==
    ASSUME NEW r \in WorkerState, \A s \in r.todo : r.snap[s].uid # 0
    PROVE  /\ AfterService(r).pc \in {"idle", "next", "rewrite"}
           /\ \A s \in Service : AfterService(r).snap[s] \in {Gone, r.snap[s]}
           /\ \A s \in AfterService(r).todo : AfterService(r).snap[s].uid # 0
<1> DEFINE rewrites == {s \in Service : Rewritable(s, r.snap[s])}
<1>1. /\ r.todo \in SUBSET Service /\ r.snap \in [Service -> ServiceState]
      /\ r.job \in {"upsert", "activate", "deactivate"}
  BY DEF WorkerState
<1>2. rewrites \in SUBSET Service /\ \A s \in rewrites : r.snap[s].uid # 0
  BY DEF Rewritable
<1>3. CASE r.todo # {}
  BY <1>1, <1>3, AfterServiceType
<1>4. CASE r.todo = {} /\ r.job # "upsert" /\ rewrites # {}
  <2> DEFINE b == Between("rewrite", r.job, rewrites, r.snap)
  <2>1. AfterService(r) = b
    BY <1>4 DEF AfterService
  <2>2. b.pc = "rewrite" /\ b.todo = rewrites /\ b.snap = r.snap
    <3> HIDE DEF rewrites
    <3> QED
      BY <1>1, <1>2, BetweenType
  <2> HIDE DEF b, rewrites
  <2> QED
    BY <1>2, <2>1, <2>2
<1>5. CASE r.todo = {} /\ ~(r.job # "upsert" /\ rewrites # {})
  <2>1. AfterService(r) = Idle
    BY <1>5 DEF AfterService
  <2>2. Idle.pc = "idle" /\ Idle.todo = {} /\ Idle.snap = [s \in Service |-> Gone]
    BY DEF Idle
  <2> HIDE DEF Gone
  <2> QED
    BY <2>1, <2>2
<1> QED
  BY <1>3, <1>4, <1>5

LEMMA AfterCesPassed ==
    ASSUME BackedInv, NEW w \in Controllers, NEW r \in WorkerState,
           r.snap = wk[w].snap, r.todo \subseteq wk[w].todo, r.cur \in Service,
           r.rest # {} => r.snap[r.cur].uid # 0,
           \A c \in r.rest : OwnerOf[c] = r.cur
    PROVE  Passed(wk[w], AfterCes(r))
<1> USE DEF BackedInv
<1>1. Holds(wk[w])
  BY DEF Owned
<1>2. \A s \in r.todo : r.snap[s].uid # 0
  BY <1>1 DEF Holds
<1>3. \A s \in Service : Owns(s, r.snap[s])
  BY <1>1 DEF Holds
<1>4. CASE r.rest = {}
  <2> DEFINE q == AfterService(r)
  <2>1. AfterCes(r) = q
    BY <1>4 DEF AfterCes
  <2>2. /\ q.pc \in {"idle", "next", "rewrite"}
        /\ \A s \in Service : q.snap[s] \in {Gone, r.snap[s]}
        /\ \A s \in q.todo : q.snap[s].uid # 0
    BY <1>2, AfterServiceSnap
  <2> HIDE DEF q
  <2>3. Gone.uid = 0
    BY DEF Gone
  <2>4. \A s \in Service : Owns(s, q.snap[s])
    BY <1>3, <2>2, GoneOwns
  <2>5. \A s \in Service : q.snap[s].uid \in {0, wk[w].snap[s].uid}
    BY <2>2, <2>3
  <2> QED
    BY <2>1, <2>2, <2>4, <2>5 DEF Passed, Holds, WritesPass, Writing
<1>5. CASE r.rest # {}
  <2> DEFINE q == [r EXCEPT !.pc = "ces", !.c = "-", !.out = "none", !.seen = 0]
  <2>1. AfterCes(r) = q
    BY <1>5 DEF AfterCes
  <2>2. /\ q.pc = "ces" /\ q.snap = r.snap /\ q.todo = r.todo /\ q.cur = r.cur
        /\ q.rest = r.rest
    BY DEF WorkerState
  <2> HIDE DEF q
  <2> QED
    BY <1>2, <1>3, <1>5, <2>1, <2>2 DEF Passed, Holds, WritesPass, Writing
<1> QED
  BY <1>4, <1>5

(* The steps of a reconcile.  At a choice of a route that needs a middleware  *)
(* the worker first writes the middleware.                                    *)
LEMMA BackedBegin ==
    ASSUME BackedInv, NEW w \in Controllers, NEW s \in Service, BeginService(w, s)
    PROVE  Owned' /\ Backed'
<1> USE DEF BackedInv
<1> DEFINE r == Begun(wk[w], s, maintenance)
<1>0. /\ s \in wk[w].todo /\ wk[w] \in WorkerState /\ maintenance \in BOOLEAN
      /\ UNCHANGED <<svc, mw, ingress>>
  BY DEF BeginService, TypeOK, cluster
<1>1. CASE Fail(w, s)
  BY <1>0, <1>1, FailBacked
<1>2. CASE wk' = [wk EXCEPT ![w] = AfterCes(r)]
  <2>1. /\ r \in WorkerState /\ r.cur = s /\ r.todo = wk[w].todo \ {s}
        /\ r.rest = {c \in Ces : Declares(wk[w].snap[s], c)}
        /\ r.snap = wk[w].snap
    BY <1>0, BegunType
  <2>2. Holds(wk[w])
    BY DEF Owned
  <2>3. wk[w].snap[s].uid # 0 /\ \A c \in r.rest : OwnerOf[c] = s
    BY <1>0, <2>1, <2>2 DEF Holds, Owns
  <2> HIDE DEF r
  <2>4. Passed(wk[w], AfterCes(r))
    BY <2>1, <2>3, AfterCesPassed
  <2> QED
    BY <1>0, <1>2, <2>4, BackedWorker
<1> QED
  BY <1>1, <1>2 DEF BeginService

LEMMA BackedChoose ==
    ASSUME BackedInv, NEW w \in Controllers, NEW c \in Ces, ChooseCes(w, c)
    PROVE  Owned' /\ Backed'
<1> USE DEF BackedInv
<1> DEFINE out == ChosenRoute(wk[w], c)
<1>0. /\ wk[w].pc = "ces" /\ c \in wk[w].rest /\ wk[w] \in WorkerState
      /\ wk[w].cur \in Service /\ UNCHANGED <<svc, mw, ingress>>
  BY DEF ChooseCes, TypeOK, cluster
<1>1. CASE Fail(w, wk[w].cur)
  BY <1>0, <1>1, FailBacked
<1>2. CASE out # "badRewrite" /\ wk' = [wk EXCEPT ![w] = Chosen(wk[w], c, out)]
  <2> DEFINE q == Chosen(wk[w], c, out)
  <2>1. out \in Routes
    BY <1>0, <1>2, RouteChosen
  <2>2. /\ q.cur = wk[w].cur /\ q.c = c /\ q.todo = wk[w].todo
        /\ q.rest = wk[w].rest \ {c} /\ q.snap = wk[w].snap
    BY <1>0, <2>1, ChosenType
  <2>3. q.out = out /\ (out = "pass" => q.pc = "mwGet")
    <3> HIDE DEF out
    <3> QED
      BY <1>0, <2>1 DEF Chosen, WorkerState
  <2>4. wk' = [wk EXCEPT ![w] = q]
    BY <1>2
  <2> HIDE DEF q
  <2>5. Holds(wk[w])
    BY DEF Owned
  <2>6. Holds(q)
    BY <1>0, <2>2, <2>5 DEF Holds
  <2>7. Passed(wk[w], q)
    BY <2>2, <2>3, <2>6 DEF Passed, WritesPass
  <2> QED
    BY <1>0, <2>4, <2>7, BackedWorker
<1> QED
  BY <1>1, <1>2 DEF ChooseCes

(* Going from one phase of a write to the next; the middleware of a route     *)
(* that needs one has been written when the ingress is read.                  *)
LEMMA AtHolds ==
    ASSUME NEW r \in WorkerState, r.pc \in Writing, Holds(r), NEW pc \in Writing, NEW n \in Nat
    PROVE  /\ Holds(At(r, pc, n)) /\ At(r, pc, n).snap = r.snap
           /\ At(r, pc, n).pc = pc /\ At(r, pc, n).c = r.c /\ At(r, pc, n).out = r.out
<1> DEFINE q == At(r, pc, n)
<1>1. /\ q.pc = pc /\ q.cur = r.cur /\ q.c = r.c /\ q.todo = r.todo
      /\ q.rest = r.rest /\ q.snap = r.snap
  BY AtType
<1>2. q.out = r.out
  BY DEF At, WorkerState
<1> HIDE DEF q
<1>3. Holds(q)
  BY <1>1 DEF Holds
<1>4. q = At(r, pc, n)
  BY DEF q
<1> QED
  BY <1>1, <1>2, <1>3, <1>4

LEMMA BackedGets ==
    ASSUME BackedInv, NEW w \in Controllers, GetMiddleware(w) \/ GetIngress(w)
    PROVE  Owned' /\ Backed'
<1> USE DEF BackedInv
<1>0. wk[w] \in WorkerState /\ Holds(wk[w])
  BY DEF TypeOK, Owned
<1>1. CASE GetMiddleware(w)
  <2>1. wk[w].pc \in Writing /\ "mwPut" \in Writing /\ wk[w].c \in Ces
    BY <1>1 DEF GetMiddleware, Writing, TypeOK
  <2>2. PICK n \in Nat : wk' = [wk EXCEPT ![w] = At(wk[w], "mwPut", n)]
    <3> DEFINE n == IF mw[wk[w].c].owner = 0 THEN 0 ELSE mw[wk[w].c].rv
    <3>1. n \in Nat
      BY <2>1 DEF TypeOK, MiddlewareState
    <3>2. wk' = [wk EXCEPT ![w] = At(wk[w], "mwPut", n)]
      BY <1>1 DEF GetMiddleware
    <3> HIDE DEF n
    <3> QED
      BY <3>1, <3>2
  <2> DEFINE q == At(wk[w], "mwPut", n)
  <2>3. Holds(q) /\ q.snap = wk[w].snap /\ q.pc = "mwPut"
    BY <1>0, <2>1, AtHolds
  <2>4. wk' = [wk EXCEPT ![w] = q]
    BY <2>2
  <2> HIDE DEF q
  <2>5. Passed(wk[w], q)
    BY <2>3 DEF Passed, WritesPass
  <2> QED
    BY <1>1, <2>4, <2>5, BackedWorker DEF GetMiddleware, cluster
<1>2. CASE GetIngress(w)
  <2>1. wk[w].pc = "get" /\ wk[w].pc \in Writing /\ "put" \in Writing
    BY <1>2 DEF GetIngress, Writing
  <2>2. PICK n \in Nat : wk' = [wk EXCEPT ![w] = At(wk[w], "put", n)]
    BY <1>2 DEF GetIngress
  <2> DEFINE q == At(wk[w], "put", n)
  <2>3. /\ Holds(q) /\ q.snap = wk[w].snap /\ q.pc = "put" /\ q.c = wk[w].c
        /\ q.out = wk[w].out
    BY <1>0, <2>1, AtHolds
  <2>4. wk' = [wk EXCEPT ![w] = q]
    BY <2>2
  <2> HIDE DEF q
  <2>5. Passed(wk[w], q)
    BY <2>1, <2>3 DEF Passed, WritesPass
  <2> QED
    BY <1>2, <2>4, <2>5, BackedWorker DEF GetIngress, cluster
<1> QED
  BY <1>1, <1>2

(* The middleware that is written belongs to the service the worker has read, *)
(* which is the one that exists unless it was deleted since.                  *)
LEMMA BackedPutMiddleware ==
    ASSUME BackedInv, NEW w \in Controllers, PutMiddleware(w)
    PROVE  Owned' /\ Backed'
<1> USE DEF BackedInv
<1> DEFINE m == wk[w].c
           u == wk[w].snap[wk[w].cur].uid
           ok == MiddlewareAccepted(wk[w])
<1>1. /\ wk[w] \in WorkerState /\ Holds(wk[w]) /\ wk[w].pc = "mwPut"
      /\ UNCHANGED <<svc, ingress>>
  BY DEF PutMiddleware, TypeOK, Owned, cluster
<1>2. wk[w].pc \in Writing /\ m \in Ces /\ wk[w].cur \in Service
  BY <1>1 DEF TypeOK, Writing
<1>3. OwnerOf[m] = wk[w].cur /\ u # 0
  BY <1>1, <1>2 DEF Holds
<1>4. /\ \A c \in Ces \ {m} : mw'[c] = mw[c]
      /\ mw'[m].owner \in {mw[m].owner, u}
      /\ mw[m].owner # 0 => mw'[m].owner # 0
  <2>1. mw' = IF ok /\ mw[m].owner # u
              THEN [mw EXCEPT ![m] = [owner |-> u, rv |-> mw[m].rv + 1]] ELSE mw
    BY DEF PutMiddleware
  <2> HIDE DEF u, ok
  <2> QED
    BY <1>2, <1>3, <2>1 DEF TypeOK, MiddlewareState
<1>5. ok => mw'[m].owner # 0
  <2>1. CASE mw[m].owner # u /\ ok
    <3>1. mw' = [mw EXCEPT ![m] = [owner |-> u, rv |-> mw[m].rv + 1]]
      BY <2>1 DEF PutMiddleware
    <3> HIDE DEF u, ok
    <3> QED
      BY <1>2, <1>3, <3>1 DEF TypeOK
  <2>2. CASE mw[m].owner = u
    BY <1>3, <1>4, <2>2
  <2> QED
    BY <2>1, <2>2
<1>6. PICK q : /\ wk' = [wk EXCEPT ![w] = q] /\ Holds(q)
               /\ \A s \in Service : q.snap[s].uid \in {0, wk[w].snap[s].uid}
               /\ \A c \in Ces : WritesPass(q, c) => ok /\ c = m
  <2>1. CASE Fail(w, wk[w].cur)
    <3>1. Passed(wk[w], Idle)
      BY IdlePassed
    <3>2. Idle.pc = "idle" /\ \A s \in Service : Idle.snap[s].uid = 0
      BY DEF Idle, Gone
    <3>3. wk' = [wk EXCEPT ![w] = Idle]
      BY <2>1 DEF Fail
    <3> QED
      BY <3>1, <3>2, <3>3 DEF Passed, WritesPass
  <2>2. CASE ok /\ wk' = [wk EXCEPT ![w] = At(wk[w], "get", 0)]
    <3> DEFINE q == At(wk[w], "get", 0)
    <3>1. Holds(q) /\ q.snap = wk[w].snap /\ q.c = m
      BY <1>1, <1>2, AtHolds DEF Writing
    <3>2. wk' = [wk EXCEPT ![w] = q]
      BY <2>2
    <3> HIDE DEF q
    <3> QED
      BY <2>2, <3>1, <3>2 DEF WritesPass
  <2> QED
    BY <2>1, <2>2 DEF PutMiddleware
<1>7. \A v \in Controllers : wk'[v] = IF v = w THEN q ELSE wk[v]
  BY <1>6 DEF TypeOK
<1>8. Owned'
  <2>1. \A v \in Controllers : Holds(wk'[v])
    BY <1>6, <1>7 DEF Owned
  <2>2. \A s \in Service : Owns(s, svc'[s])
    BY <1>1 DEF Owned
  <2> QED
    BY <2>1, <2>2 DEF Owned
<1>9. ASSUME NEW c \in Ces, Young(OwnerOf[c])' PROVE BackedAt(c)'
  <2>0. OwnerOf[c] \in Service
    BY ConstantsAssumption
  <2>1. BackedAt(c)
    BY <1>1, <1>9 DEF Young, Backed
  <2>2. c = m => u = svc[OwnerOf[c]].uid
    BY <1>3, <2>1 DEF BackedAt
  <2>3. mw'[c].owner \in {0, svc[OwnerOf[c]].uid}
    BY <1>4, <2>1, <2>2 DEF BackedAt
  <2>4. mw[c].owner # 0 => mw'[c].owner # 0
    BY <1>4
  <2>5. ASSUME NEW v \in Controllers
        PROVE  /\ wk'[v].snap[OwnerOf[c]].uid \in {0, svc[OwnerOf[c]].uid}
               /\ WritesPass(wk'[v], c) => mw'[c].owner # 0
    <3>1. CASE v = w
      BY <1>5, <1>6, <1>7, <2>0, <2>1, <3>1 DEF BackedAt
    <3>2. CASE v # w
      BY <1>7, <2>1, <2>4, <3>2 DEF BackedAt
    <3> QED
      BY <3>1, <3>2
  <2> QED
    BY <1>1, <2>1, <2>3, <2>4, <2>5 DEF BackedAt, WritesPass
<1> QED
  BY <1>8, <1>9 DEF Backed

LEMMA BackedPutIngress ==
    ASSUME BackedInv, NEW w \in Controllers, PutIngress(w)
    PROVE  Owned' /\ Backed'
<1> USE DEF BackedInv
<1> DEFINE r == wk[w]
           new == [route |-> r.out, owner |-> r.snap[r.cur].uid]
<1>1. /\ r \in WorkerState /\ Holds(r) /\ r.pc = "put" /\ UNCHANGED <<svc, mw>>
  BY DEF PutIngress, TypeOK, Owned, cluster
<1>2. r.pc \in Writing /\ r.c \in Ces /\ r.cur \in Service
  BY <1>1 DEF TypeOK, Writing
<1>3. CASE Fail(w, r.cur) /\ UNCHANGED ingress
  BY <1>1, <1>3, FailBacked
<1>4. CASE ingress' = [ingress EXCEPT ![r.c] = new] /\ wk' = [wk EXCEPT ![w] = AfterCes(r)]
  <2>1. Passed(r, AfterCes(r))
    BY <1>1, <1>2, AfterCesPassed DEF Holds
  <2>2. \A u \in Controllers : wk'[u] = IF u = w THEN AfterCes(r) ELSE wk[u]
    BY <1>4 DEF TypeOK
  <2>3. Owned'
    <3>1. \A u \in Controllers : Holds(wk'[u])
      BY <2>1, <2>2 DEF Owned, Passed
    <3>2. \A s \in Service : Owns(s, svc'[s])
      BY <1>1 DEF Owned
    <3> QED
      BY <3>1, <3>2 DEF Owned
  <2>4. ASSUME NEW c \in Ces, Young(OwnerOf[c])' PROVE BackedAt(c)'
    <3>0. OwnerOf[c] \in Service
      BY ConstantsAssumption
    <3>1. BackedAt(c)
      BY <1>1, <2>4 DEF Young, Backed
    <3>2. ASSUME NEW u \in Controllers
          PROVE  /\ wk'[u].snap[OwnerOf[c]].uid \in {0, svc[OwnerOf[c]].uid}
                 /\ WritesPass(wk'[u], c) => mw[c].owner # 0
      <4>1. CASE u = w
        BY <2>1, <2>2, <3>0, <3>1, <4>1 DEF BackedAt, Passed
      <4>2. CASE u # w
        BY <2>2, <3>1, <4>2 DEF BackedAt
      <4> QED
        BY <4>1, <4>2
    <3>3. ingress'[c].route = "pass" => mw[c].owner # 0
      <4>1. CASE c = r.c
        <5>1. ingress'[c].route = r.out
          BY <1>2, <1>4, <4>1 DEF TypeOK
        <5> QED
          BY <1>1, <3>1, <4>1, <5>1 DEF BackedAt, WritesPass
      <4>2. CASE c # r.c
        BY <1>2, <1>4, <3>1, <4>2 DEF BackedAt, TypeOK
      <4> QED
        BY <4>1, <4>2
    <3> QED
      BY <1>1, <3>1, <3>2, <3>3 DEF BackedAt, WritesPass
  <2> QED
    BY <2>3, <2>4 DEF Backed
<1> QED
  BY <1>3, <1>4 DEF PutIngress

(* A change of the services that makes no deleted service young again; the    *)
(* workers read nothing in the meantime.                                      *)
LEMMA ServicesChange ==
    ASSUME BackedInv, UNCHANGED <<mw, ingress>>,
           \A s \in Service :
              /\ Owns(s, svc'[s])
              /\ Young(s)' => Young(s) /\ svc[s].uid \in {0, svc'[s].uid},
           \A w \in Controllers :
              /\ Holds(wk'[w])
              /\ \A s \in Service : wk'[w].snap[s].uid \in {0, wk[w].snap[s].uid}
              /\ \A c \in Ces : WritesPass(wk'[w], c) => WritesPass(wk[w], c)
    PROVE  Owned' /\ Backed'
<1> USE DEF BackedInv
<1>1. Owned'
  BY DEF Owned
<1>2. ASSUME NEW c \in Ces, Young(OwnerOf[c])' PROVE BackedAt(c)'
  <2>0. OwnerOf[c] \in Service
    BY ConstantsAssumption
  <2>1. Young(OwnerOf[c]) /\ svc[OwnerOf[c]].uid \in {0, svc'[OwnerOf[c]].uid}
    BY <1>2, <2>0
  <2>2. BackedAt(c)
    BY <2>1 DEF Backed
  <2>3. mw[c].owner \in {0, svc'[OwnerOf[c]].uid}
    BY <2>1, <2>2 DEF BackedAt
  <2>4. ASSUME NEW w \in Controllers
        PROVE  /\ wk'[w].snap[OwnerOf[c]].uid \in {0, svc'[OwnerOf[c]].uid}
               /\ WritesPass(wk'[w], c) => mw[c].owner # 0
    <3>1. /\ wk[w].snap[OwnerOf[c]].uid \in {0, svc[OwnerOf[c]].uid}
          /\ WritesPass(wk[w], c) => mw[c].owner # 0
      BY <2>2 DEF BackedAt
    <3>2. wk'[w].snap[OwnerOf[c]].uid \in {0, svc'[OwnerOf[c]].uid}
      BY <2>0, <2>1, <3>1
    <3> QED
      BY <3>1, <3>2
  <2> QED
    BY <2>2, <2>3, <2>4 DEF BackedAt, WritesPass
<1> QED
  BY <1>1, <1>2 DEF Backed

LEMMA SameWorkers ==
    ASSUME BackedInv, UNCHANGED wk
    PROVE  \A w \in Controllers :
              /\ Holds(wk'[w])
              /\ \A s \in Service : wk'[w].snap[s].uid \in {0, wk[w].snap[s].uid}
              /\ \A c \in Ces : WritesPass(wk'[w], c) => WritesPass(wk[w], c)
BY DEF BackedInv, Owned

(* The maintenance worker goes on to the next exposed service, or ends.       *)
LEMMA EndRewriteWorkers ==
    ASSUME BackedInv, wk["maintenance"].pc = "rewrite", NEW s, NEW f \in BOOLEAN,
           EndRewrite(s, f)
    PROVE  \A w \in Controllers :
              /\ Holds(wk'[w])
              /\ \A t \in Service : wk'[w].snap[t].uid \in {0, wk[w].snap[t].uid}
              /\ \A c \in Ces : WritesPass(wk'[w], c) => WritesPass(wk[w], c)
<1> USE DEF BackedInv
<1> DEFINE m == wk["maintenance"]
           n == [m EXCEPT !.todo = @ \ {s}, !.errs = m.errs \/ f]
           q == IF m.todo = {s} THEN Idle ELSE n
<1>1. m \in WorkerState /\ Holds(m)
  BY DEF TypeOK, Controllers, Owned
<1>2. wk' = [wk EXCEPT !["maintenance"] = q]
  BY DEF EndRewrite
<1>3. /\ Holds(q) /\ q.pc \in {"idle", "rewrite"}
      /\ \A t \in Service : q.snap[t].uid \in {0, m.snap[t].uid}
  <2>1. CASE m.todo = {s}
    <3>1. Passed(m, Idle)
      BY IdlePassed
    <3>2. Idle.pc = "idle" /\ \A t \in Service : Idle.snap[t].uid = 0
      BY DEF Idle, Gone
    <3> QED
      BY <2>1, <3>1, <3>2 DEF Passed
  <2>2. CASE m.todo # {s}
    <3>1. n.pc = "rewrite" /\ n.snap = m.snap /\ n.todo = m.todo \ {s}
      BY <1>1 DEF WorkerState
    <3>2. q = n
      BY <2>2
    <3> HIDE DEF n, q
    <3> QED
      BY <1>1, <3>1, <3>2 DEF Holds, Writing
  <2> QED
    BY <2>1, <2>2
<1> HIDE DEF q
<1>4. \A w \in Controllers : wk'[w] = IF w = "maintenance" THEN q ELSE wk[w]
  BY <1>2 DEF TypeOK
<1>5. \A w \in Controllers : w # "maintenance" => Holds(wk[w])
  BY DEF Owned
<1> QED
  BY <1>3, <1>4, <1>5 DEF WritesPass

LEMMA BackedRewrite ==
    ASSUME BackedInv, NEW s \in Service, RewriteService(s) \/ RewriteError(s)
    PROVE  Owned' /\ Backed'
<1> USE DEF BackedInv
<1>1. \A w \in Controllers :
         /\ Holds(wk'[w])
         /\ \A t \in Service : wk'[w].snap[t].uid \in {0, wk[w].snap[t].uid}
         /\ \A c \in Ces : WritesPass(wk'[w], c) => WritesPass(wk[w], c)
  BY EndRewriteWorkers DEF RewriteService, RewriteError
<1>2. UNCHANGED <<mw, ingress>>
  BY DEF RewriteService, RewriteError
<1>3. ASSUME NEW t \in Service
      PROVE  /\ svc'[t].uid = svc[t].uid /\ svc'[t].decl = svc[t].decl
             /\ svc'[t].rv = 0 => svc[t].rv = 0
  <2>1. CASE UNCHANGED svc
    BY <2>1
  <2>2. CASE RewriteService(s)
    <3> DEFINE target == RewriteTarget(s, wk["maintenance"].job)
    <3>1. svc' = [svc EXCEPT ![s].sel = target, ![s].rv = @ + 1] \/ svc' = svc
      BY <2>2 DEF RewriteService
    <3> HIDE DEF target
    <3>2. svc[s] \in ServiceState /\ svc[s].rv \in Nat
      BY DEF TypeOK, ServiceState
    <3> QED
      BY <3>1, <3>2 DEF TypeOK, ServiceState
  <2> QED
    BY <2>1, <2>2 DEF RewriteError, cluster
<1>4. \A t \in Service : Owns(t, svc'[t])
  BY <1>3 DEF Owned, Owns, Declares
<1>5. \A t \in Service : Young(t)' => Young(t) /\ svc[t].uid \in {0, svc'[t].uid}
  BY <1>3 DEF Young
<1> QED
  BY <1>1, <1>2, <1>4, <1>5, ServicesChange

(* A service that is deleted is not young any more, and stays so.             *)
LEMMA BackedEdit ==
    ASSUME BackedInv, NEW s \in Service,
           CreateService(s) \/ AnnotateService(s) \/ DeleteService(s)
    PROVE  Owned' /\ Backed'
<1> USE DEF BackedInv
<1>1. UNCHANGED <<mw, ingress, wk>>
  BY DEF CreateService, AnnotateService, DeleteService
<1>2. \A t \in Service \ {s} : svc'[t] = svc[t]
  BY DEF CreateService, AnnotateService, DeleteService, TypeOK
<1>3. svc[s] \in ServiceState /\ svc[s].rv \in Nat
  BY DEF TypeOK, ServiceState
<1>4. Owns(s, svc'[s]) /\ (Young(s)' => Young(s) /\ svc[s].uid \in {0, svc'[s].uid})
  <2>1. CASE CreateService(s)
    <3>1. PICK d \in Declarations[s] :
             svc'[s] = [uid |-> svc[s].rv + 1, rv |-> svc[s].rv + 1,
                        decl |-> d, sel |-> InitSel[s]]
      BY <2>1 DEF CreateService, TypeOK
    <3>2. \A c \in Ces : d.ces[c] # "none" => OwnerOf[c] = s
      BY ConstantsAssumption
    <3>3. svc'[s].decl = d /\ svc'[s].uid = svc[s].rv + 1 /\ svc[s].uid = 0
      BY <2>1, <3>1 DEF CreateService, Live
    <3>4. Owns(s, svc'[s])
      BY <3>2, <3>3 DEF Owns, Declares
    <3>5. svc'[s].uid = 1 => svc[s].rv = 0
      BY <1>3, <3>3
    <3>6. svc'[s].uid # 0
      BY <1>3, <3>3
    <3> QED
      BY <3>3, <3>4, <3>5, <3>6 DEF Young
  <2>2. CASE AnnotateService(s)
    <3>1. PICK d \in Declarations[s] : svc' = [svc EXCEPT ![s].decl = d, ![s].rv = @ + 1]
      BY <2>2 DEF AnnotateService
    <3>2. svc'[s].decl = d /\ svc'[s].uid = svc[s].uid
      BY <1>3, <3>1 DEF TypeOK, ServiceState
    <3>3. \A c \in Ces : d.ces[c] # "none" => OwnerOf[c] = s
      BY ConstantsAssumption
    <3>4. Owns(s, svc'[s])
      BY <3>2, <3>3 DEF Owns, Declares
    <3>5. svc[s].uid # 0
      BY <2>2 DEF AnnotateService, Live
    <3> QED
      BY <3>2, <3>4, <3>5 DEF Young
  <2>3. CASE DeleteService(s)
    <3> DEFINE g == [Gone EXCEPT !.rv = svc[s].rv + 1]
    <3>1. g.uid = 0 /\ g.rv = svc[s].rv + 1 /\ g.decl = NoDeclaration
      BY DEF Gone
    <3>2. svc'[s] = g
      BY <2>3 DEF DeleteService, TypeOK
    <3> HIDE DEF g
    <3>3. svc'[s].rv # 0
      BY <1>3, <3>1, <3>2
    <3>4. Owns(s, svc'[s])
      BY <3>1, <3>2 DEF Owns, Declares, NoDeclaration
    <3>5. ~Young(s)'
      BY <3>1, <3>2, <3>3 DEF Young
    <3> QED
      BY <3>4, <3>5
  <2> QED
    BY <2>1, <2>2, <2>3
<1>5. \A t \in Service :
         Owns(t, svc'[t]) /\ (Young(t)' => Young(t) /\ svc[t].uid \in {0, svc'[t].uid})
  <2>1. ASSUME NEW t \in Service, t # s
        PROVE  Owns(t, svc'[t]) /\ (Young(t)' => Young(t) /\ svc[t].uid \in {0, svc'[t].uid})
    BY <1>2, <2>1 DEF Owned, Young
  <2> QED
    BY <1>4, <2>1
<1> QED
  BY <1>1, <1>5, SameWorkers, ServicesChange

(* Kubernetes only removes what belongs to a service that is gone.            *)
LEMMA BackedCollect ==
    ASSUME BackedInv, NEW c \in Ces, CollectIngress(c) \/ CollectMiddleware(c)
    PROVE  Owned' /\ Backed'
<1> USE DEF BackedInv
<1>1. UNCHANGED <<svc, wk>>
  BY DEF CollectIngress, CollectMiddleware, cluster
<1>2. Owned'
  BY <1>1 DEF Owned
<1>3. ASSUME NEW d \in Ces, Young(OwnerOf[d])' PROVE BackedAt(d)'
  <2>1. BackedAt(d)
    BY <1>1, <1>3 DEF Young, Backed
  <2>2. mw'[d] = mw[d]
    BY <2>1 DEF CollectIngress, CollectMiddleware, BackedAt, TypeOK
  <2>3. ingress'[d].route = "pass" => ingress[d].route = "pass"
    BY DEF CollectIngress, CollectMiddleware, TypeOK
  <2> QED
    BY <1>1, <2>1, <2>2, <2>3 DEF BackedAt, WritesPass
<1> QED
  BY <1>2, <1>3 DEF Backed

LEMMA BackedReconcile ==
    ASSUME BackedInv,
           \/ \E s \in Service : ServiceReconcile(s) \/ DeploymentReconcile(s)
           \/ MaintenanceReconcile
    PROVE  Owned' /\ Backed'
<1> USE DEF BackedInv
<1>1. UNCHANGED <<svc, mw, ingress>>
  BY DEF ServiceReconcile, DeploymentReconcile, MaintenanceReconcile, cluster
<1>2. CASE UNCHANGED wk
  BY <1>1, <1>2 DEF Owned, Backed, BackedAt, Young, WritesPass
<1>3. ASSUME NEW s \in Service, ServiceReconcile(s) PROVE Owned' /\ Backed'
  BY <1>1, <1>2, <1>3, StartBacked DEF ServiceReconcile, Controllers, LiveServices
<1>4. ASSUME NEW s \in Service, DeploymentReconcile(s) PROVE Owned' /\ Backed'
  BY <1>1, <1>2, <1>4, StartBacked DEF DeploymentReconcile, Controllers, LiveServices
<1>5. CASE MaintenanceReconcile
  BY <1>1, <1>2, <1>5, StartBacked DEF MaintenanceReconcile, Controllers
<1> QED
  BY <1>3, <1>4, <1>5

LEMMA BackedOthers ==
    ASSUME BackedInv,
           \/ ToggleMaintenance \/ Crash \/ Resync \/ UNCHANGED vars
           \/ \E s \in Service : ChangeDeployment(s)
           \/ \E w \in Controllers : ApiError(w)
    PROVE  Owned' /\ Backed'
<1> USE DEF BackedInv
<1>1. UNCHANGED <<svc, mw, ingress>>
  BY DEF ToggleMaintenance, Crash, Resync, ChangeDeployment, ApiError, cluster, vars
<1>2. CASE UNCHANGED wk
  BY <1>1, <1>2 DEF Owned, Backed, BackedAt, Young, WritesPass
<1>3. CASE Crash
  <2>1. \A w \in Controllers :
           /\ Holds(wk'[w])
           /\ \A s \in Service : wk'[w].snap[s].uid \in {0, wk[w].snap[s].uid}
           /\ \A c \in Ces : WritesPass(wk'[w], c) => WritesPass(wk[w], c)
    <3>1. \A w \in Controllers : wk'[w] = Idle
      BY <1>3 DEF Crash
    <3>2. Holds(Idle)
      BY IdlePassed DEF Passed
    <3>3. Idle.pc = "idle" /\ \A s \in Service : Idle.snap[s].uid = 0
      BY DEF Idle, Gone
    <3> QED
      BY <3>1, <3>2, <3>3 DEF WritesPass
  <2>2. \A s \in Service :
           Owns(s, svc'[s]) /\ (Young(s)' => Young(s) /\ svc[s].uid \in {0, svc'[s].uid})
    BY <1>1 DEF Owned, Young
  <2> QED
    BY <1>1, <2>1, <2>2, ServicesChange
<1>4. ASSUME NEW w \in Controllers, ApiError(w) PROVE Owned' /\ Backed'
  <2>1. PICK s : Fail(w, s)
    BY <1>4 DEF ApiError
  <2> QED
    BY <1>1, <2>1, FailBacked
<1> QED
  BY <1>2, <1>3, <1>4 DEF ToggleMaintenance, Resync, ChangeDeployment, vars

LEMMA BackedStep == BackedInv /\ [Next]_vars => BackedInv'
<1> SUFFICES ASSUME BackedInv, [Next]_vars PROVE BackedInv'
  OBVIOUS
<1>1. TypeOK'
  BY TypeStep DEF BackedInv
<1>2. Owned' /\ Backed'
  BY BackedBegin, BackedChoose, BackedGets, BackedPutMiddleware, BackedPutIngress,
     BackedRewrite, BackedEdit, BackedCollect, BackedReconcile, BackedOthers
  DEF Next, Advance, Environment
<1> QED
  BY <1>1, <1>2 DEF BackedInv

LEMMA BackedInit == Init => BackedInv
<1> SUFFICES ASSUME Init PROVE BackedInv
  OBVIOUS
<1>1. TypeOK
  BY TypeInit
<1>2. /\ \A w \in Controllers : wk[w] = Idle
      /\ \A c \in Ces : mw[c].owner = 0 /\ ingress[c].route = "none"
  BY DEF Init
<1>3. Holds(Idle) /\ Idle.pc = "idle" /\ \A s \in Service : Idle.snap[s].uid = 0
  BY IdlePassed DEF Passed, Idle, Gone
<1>4. \A s \in Service : Owns(s, svc[s])
  <2> SUFFICES ASSUME NEW s \in Service PROVE Owns(s, svc[s])
    OBVIOUS
  <2>1. CASE s \in InitLive
    <3>1. svc[s].decl \in Declarations[s]
      BY <2>1 DEF Init
    <3> QED
      BY <3>1, ConstantsAssumption DEF Owns, Declares
  <2>2. CASE s \notin InitLive
    <3>1. svc[s] = Gone
      BY <2>2 DEF Init
    <3> QED
      BY <3>1, GoneOwns
  <2> QED
    BY <2>1, <2>2
<1>5. Owned
  BY <1>2, <1>3, <1>4 DEF Owned
<1>6. Backed
  <2> SUFFICES ASSUME NEW c \in Ces PROVE BackedAt(c)
    BY DEF Backed
  <2>1. OwnerOf[c] \in Service
    BY ConstantsAssumption
  <2> QED
    BY <1>2, <1>3, <2>1 DEF BackedAt, WritesPass
<1> QED
  BY <1>1, <1>5, <1>6 DEF BackedInv

(* upsertDoguIngressObject never leaves an ingress that refers to a           *)
(* middleware which is missing, whatever the three workers, garbage           *)
(* collection and restarts do in between, for a service that was never        *)
(* deleted.                                                                   *)
THEOREM PassIngressesAreBacked == Spec => []RewriteBacked
<1>1. BackedInv => RewriteBacked
  BY DEF BackedInv, Backed, BackedAt, Young, RewriteBacked
<1> QED
  BY <1>1, BackedInit, BackedStep, PTL DEF Spec

---------------------------------------------------------------------------
(* SelectorsRestored.  The maintenance ConfigMap outlives deactivation, and an *)
(* exposed service that selects a dogu has the label dogu.name, from which     *)
(* rewriteNonSimpleServiceRoute restores the selector.                         *)
Restorable ==
    /\ ConfigMapKept
    /\ \A s \in Exposed \ NginxRelated : InitSel[s] = "dogu" => s \in NameLabelled

Mnt == wk["maintenance"]

(* A selector is the one the service was created with, or was taken from it    *)
(* by an activation.                                                           *)
Sane(s, v) ==
    v.uid # 0 =>
       \/ v.sel = InitSel[s]
       \/ v.sel = "deactivated" /\ s \in Exposed \ NginxRelated /\ InitSel[s] = "dogu"

(* What the maintenance worker has read is as old as its resource version says. *)
ReadAt(s, v) ==
    /\ v.rv <= svc[s].rv
    /\ v.uid # 0 /\ v.rv = svc[s].rv => v.sel = svc[s].sel

Selecting ==
    \A s \in Service : Sane(s, svc[s]) /\ Sane(s, Mnt.snap[s]) /\ ReadAt(s, Mnt.snap[s])

(* A sweep that hides services has its mode confirmed or is repeated.          *)
Sweeping ==
    Mnt.pc # "idle" =>
       /\ Mnt.job # "upsert"
       /\ Mnt.job = "activate" => maintenance \/ mntQ
       /\ Mnt.pc = "rewrite" => \A s \in Mnt.todo : Rewritable(s, Mnt.snap[s])

Hidden(s) == Live(s) /\ svc[s].sel # InitSel[s]

(* A sweep with record r is still going to restore s, or will be repeated.     *)
Remembered(r, s) ==
    /\ r.pc # "idle"
    /\ r.pc = "rewrite" => s \in r.todo \/ r.errs
    /\ r.pc # "rewrite" => Rewritable(s, r.snap[s])

Restoring == ~maintenance /\ ~mntQ => \A s \in Service : Hidden(s) => Remembered(Mnt, s)

(* The inductive invariant of SelectorsRestored.                               *)
SelectorInv == TypeOK /\ Selecting /\ Sweeping /\ Restoring

LEMMA MntType ==
    ASSUME TypeOK
    PROVE  /\ Mnt \in WorkerState /\ "maintenance" \in Controllers
           /\ Mnt.snap \in [Service -> ServiceState]
           /\ Mnt.pc \in Writing \cup {"ces"} => Mnt.cur \in Service
           /\ Mnt.pc \in Writing => Mnt.c \in Ces
BY DEF TypeOK, Controllers, WorkerState, Mnt

LEMMA GoneRead ==
    ASSUME TypeOK, NEW s \in Service
    PROVE  Sane(s, Gone) /\ ReadAt(s, Gone)
<1>1. svc[s].rv \in Nat
  BY DEF TypeOK, ServiceState
<1>2. Gone.uid = 0 /\ Gone.rv = 0
  BY DEF Gone
<1> QED
  BY <1>1, <1>2 DEF Sane, ReadAt

(* What a step of the sweep may make of its record, q being the queue after.   *)
Continues(r, q) ==
    /\ \A s \in Service : r.snap[s] \in {Gone, Mnt.snap[s]}
    /\ r.pc # "idle" => /\ Mnt.pc # "idle" /\ r.job = Mnt.job
                        /\ r.pc = "rewrite" => \A s \in r.todo : Rewritable(s, r.snap[s])
    /\ q \/ \A s \in Service : Remembered(Mnt, s) => Remembered(r, s)

LEMMA SelectorWorker ==
    ASSUME SelectorInv, UNCHANGED <<svc, maintenance>>, mntQ => mntQ',
           Continues(Mnt', mntQ')
    PROVE  Selecting' /\ Sweeping' /\ Restoring'
<1> USE DEF SelectorInv
<1>1. Selecting'
  <2> SUFFICES ASSUME NEW s \in Service
               PROVE  Sane(s, svc'[s]) /\ Sane(s, Mnt'.snap[s]) /\ ReadAt(s, Mnt.snap[s])'
    BY DEF Selecting
  <2>1. Sane(s, svc'[s])
    BY DEF Selecting
  <2>2. Mnt'.snap[s] \in {Gone, Mnt.snap[s]}
    BY DEF Continues
  <2>3. Sane(s, Mnt'.snap[s])
    BY <2>2, GoneRead DEF Selecting
  <2>4. ReadAt(s, Mnt'.snap[s])
    BY <2>2, GoneRead DEF Selecting
  <2> QED
    BY <2>1, <2>3, <2>4 DEF ReadAt
<1>2. Sweeping'
  BY DEF Sweeping, Continues, Rewritable
<1>3. Restoring'
  <2> SUFFICES ASSUME ~maintenance', ~mntQ', NEW s \in Service, Hidden(s)'
               PROVE  Remembered(Mnt, s)'
    BY DEF Restoring
  <2>1. Hidden(s) /\ ~maintenance /\ ~mntQ
    BY DEF Hidden, Live
  <2>2. Remembered(Mnt', s)
    BY <2>1 DEF Restoring, Continues
  <2> QED
    BY <2>2 DEF Remembered, Rewritable
<1> QED
  BY <1>1, <1>2, <1>3

(* The other workers do not touch what the sweep keeps.                        *)
LEMMA SelectorElsewhere ==
    ASSUME SelectorInv, UNCHANGED <<svc, maintenance>>, Mnt' = Mnt, mntQ => mntQ'
    PROVE  Selecting' /\ Sweeping' /\ Restoring'
<1>1. Continues(Mnt, mntQ')
  BY DEF Continues, SelectorInv, Sweeping
<1> QED
  BY <1>1, SelectorWorker

(* A sweep that fails is queued again.                                         *)
LEMMA FailSelector ==
    ASSUME SelectorInv, NEW w \in Controllers, NEW s, Fail(w, s),
           UNCHANGED <<svc, maintenance>>
    PROVE  Selecting' /\ Sweeping' /\ Restoring'
<1>1. CASE w = "maintenance"
  <2>1. Mnt' = Idle /\ mntQ'
    BY <1>1 DEF Fail, Mnt, SelectorInv, TypeOK
  <2>2. Idle.pc = "idle" /\ \A t \in Service : Idle.snap[t] = Gone
    BY DEF Idle
  <2>3. Continues(Idle, TRUE)
    BY <2>2 DEF Continues
  <2> QED
    BY <2>1, <2>3, SelectorWorker
<1>2. CASE w # "maintenance"
  <2>1. Mnt' = Mnt /\ (mntQ => mntQ')
    BY <1>2 DEF Fail, Mnt, SelectorInv, TypeOK
  <2> QED
    BY <2>1, SelectorElsewhere
<1> QED
  BY <1>1, <1>2

(* Going on with the ingresses of a service.                                   *)
LEMMA ProceedSelector ==
    ASSUME SelectorInv, NEW w \in Controllers, NEW r, wk' = [wk EXCEPT ![w] = r],
           UNCHANGED <<svc, maintenance>>, UNCHANGED queues,
           w = "maintenance" => Continues(r, mntQ)
    PROVE  Selecting' /\ Sweeping' /\ Restoring'
<1>0. mntQ' = mntQ
  BY DEF queues
<1>1. CASE w = "maintenance"
  <2>1. Mnt' = r
    BY <1>1 DEF Mnt, SelectorInv, TypeOK
  <2> QED
    BY <1>0, <1>1, <2>1, SelectorWorker
<1>2. CASE w # "maintenance"
  <2>1. Mnt' = Mnt
    BY <1>2 DEF Mnt, SelectorInv, TypeOK
  <2> QED
    BY <1>0, <2>1, SelectorElsewhere
<1> QED
  BY <1>1, <1>2

LEMMA PhaseContinues ==
    ASSUME Mnt.pc \in Writing \cup {"ces"}, NEW r, r.pc \in Writing, r.snap = Mnt.snap,
           r.job = Mnt.job
    PROVE  Continues(r, mntQ)
BY DEF Continues, Remembered, Writing

LEMMA AfterCesContinues ==
    ASSUME SelectorInv, NEW r \in WorkerState, r.snap = Mnt.snap, r.job = Mnt.job,
           Mnt.pc \in Writing \cup {"next"}, r.cur \in Service
    PROVE  Continues(AfterCes(r), mntQ)
<1> USE DEF SelectorInv
<1> DEFINE rewrites == {s \in Service : Rewritable(s, r.snap[s])}
<1>1. /\ r.todo \in SUBSET Service /\ r.snap \in [Service -> ServiceState]
      /\ r.job \in {"upsert", "activate", "deactivate"}
  BY DEF WorkerState
<1>2. Mnt.pc \notin {"idle", "rewrite"} /\ r.job # "upsert"
  BY DEF Sweeping, Writing
<1>3. \A s \in Service : Remembered(Mnt, s) => Rewritable(s, r.snap[s])
  BY <1>2 DEF Remembered
<1>4. CASE r.rest # {}
  <2> DEFINE q == [r EXCEPT !.pc = "ces", !.c = "-", !.out = "none", !.seen = 0]
  <2>1. AfterCes(r) = q
    BY <1>4 DEF AfterCes
  <2>2. q.pc = "ces" /\ q.snap = r.snap /\ q.job = r.job
    BY DEF WorkerState
  <2> HIDE DEF q
  <2> QED
    BY <1>2, <1>3, <2>1, <2>2 DEF Continues, Remembered
<1>5. CASE r.rest = {} /\ r.todo # {}
  <2> DEFINE b == Between("next", r.job, r.todo, r.snap)
  <2>1. AfterCes(r) = b
    BY <1>5 DEF AfterCes, AfterService
  <2>2. b.pc = "next" /\ b.snap = r.snap /\ b.job = r.job
    BY <1>1, BetweenType
  <2> HIDE DEF b
  <2> QED
    BY <1>2, <1>3, <2>1, <2>2 DEF Continues, Remembered
<1>6. CASE r.rest = {} /\ r.todo = {} /\ rewrites # {}
  <2> DEFINE b == Between("rewrite", r.job, rewrites, r.snap)
  <2>1. AfterCes(r) = b
    BY <1>2, <1>6 DEF AfterCes, AfterService
  <2>2. rewrites \in SUBSET Service
    OBVIOUS
  <2>3. b.pc = "rewrite" /\ b.todo = rewrites /\ b.snap = r.snap /\ b.job = r.job
    <3> HIDE DEF rewrites
    <3> QED
      BY <1>1, <2>2, BetweenType
  <2> HIDE DEF b
  <2> QED
    BY <1>2, <1>3, <2>1, <2>3 DEF Continues, Remembered
<1>7. CASE r.rest = {} /\ r.todo = {} /\ rewrites = {}
  <2>1. AfterCes(r) = Idle
    BY <1>7 DEF AfterCes, AfterService
  <2>2. Idle.pc = "idle" /\ \A t \in Service : Idle.snap[t] = Gone
    BY DEF Idle
  <2>3. \A s \in Service : ~Remembered(Mnt, s)
    BY <1>3, <1>7
  <2> QED
    BY <2>1, <2>2, <2>3 DEF Continues
<1> QED
  BY <1>4, <1>5, <1>6, <1>7

LEMMA SelectorAdvance ==
    ASSUME SelectorInv, NEW w \in Controllers, Advance(w)
    PROVE  Selecting' /\ Sweeping' /\ Restoring'
<1> USE DEF SelectorInv
<1>0. UNCHANGED <<svc, maintenance>>
  BY DEF Advance, BeginService, ChooseCes, GetMiddleware, PutMiddleware, GetIngress,
         PutIngress, cluster
<1>m. w = "maintenance" => wk[w] = Mnt
  BY DEF Mnt
<1>t. wk[w] \in WorkerState /\ maintenance \in BOOLEAN
  BY DEF TypeOK
<1>f. ASSUME NEW s, Fail(w, s) PROVE Selecting' /\ Sweeping' /\ Restoring'
  BY <1>0, <1>f, FailSelector
<1>a. ASSUME NEW pc \in Writing, NEW n \in Nat, wk[w].pc \in Writing,
             wk' = [wk EXCEPT ![w] = At(wk[w], pc, n)], UNCHANGED queues
      PROVE  Selecting' /\ Sweeping' /\ Restoring'
  <2> DEFINE q == At(wk[w], pc, n)
  <2>1. q.pc = pc /\ q.snap = wk[w].snap /\ q.job = wk[w].job
    BY <1>t, AtType
  <2>2. wk' = [wk EXCEPT ![w] = q]
    BY <1>a
  <2> HIDE DEF q
  <2>3. w = "maintenance" => Continues(q, mntQ)
    BY <1>a, <1>m, <2>1, PhaseContinues
  <2> QED
    BY <1>0, <1>a, <2>2, <2>3, ProceedSelector
<1>1. ASSUME NEW s \in Service, BeginService(w, s)
      PROVE  Selecting' /\ Sweeping' /\ Restoring'
  <2> DEFINE r == Begun(wk[w], s, maintenance)
  <2>1. CASE wk' = [wk EXCEPT ![w] = AfterCes(r)] /\ UNCHANGED queues
    <3>1. /\ r \in WorkerState /\ r.cur = s /\ r.snap = wk[w].snap /\ r.job = wk[w].job
          /\ wk[w].pc = "next"
      BY <1>1, <1>t, BegunType DEF BeginService
    <3> HIDE DEF r
    <3>2. w = "maintenance" => Continues(AfterCes(r), mntQ)
      BY <1>m, <3>1, AfterCesContinues
    <3> QED
      BY <1>0, <2>1, <3>2, ProceedSelector
  <2> QED
    BY <1>1, <1>f, <2>1 DEF BeginService
<1>2. ASSUME NEW c \in Ces, ChooseCes(w, c) PROVE Selecting' /\ Sweeping' /\ Restoring'
  <2> DEFINE out == ChosenRoute(wk[w], c)
  <2>1. CASE /\ out # "badRewrite" /\ wk' = [wk EXCEPT ![w] = Chosen(wk[w], c, out)]
             /\ UNCHANGED queues
    <3> DEFINE q == Chosen(wk[w], c, out)
    <3>1. out \in Routes /\ wk[w].pc = "ces"
      BY <1>2, <2>1, RouteChosen DEF ChooseCes, TypeOK
    <3>2. q.pc \in Writing /\ q.snap = wk[w].snap /\ q.job = wk[w].job
      BY <1>t, <3>1, ChosenType
    <3>3. wk' = [wk EXCEPT ![w] = q]
      BY <2>1
    <3> HIDE DEF q
    <3>4. w = "maintenance" => Continues(q, mntQ)
      BY <1>m, <3>1, <3>2, PhaseContinues
    <3> QED
      BY <1>0, <2>1, <3>3, <3>4, ProceedSelector
  <2> QED
    BY <1>2, <1>f, <2>1 DEF ChooseCes
<1>3. CASE GetMiddleware(w)
  <2>1. wk[w].pc \in Writing /\ "mwPut" \in Writing /\ wk[w].c \in Ces /\ UNCHANGED queues
    BY <1>3 DEF GetMiddleware, Writing, TypeOK
  <2> DEFINE n == IF mw[wk[w].c].owner = 0 THEN 0 ELSE mw[wk[w].c].rv
  <2>2. n \in Nat
    BY <2>1 DEF TypeOK, MiddlewareState
  <2>3. wk' = [wk EXCEPT ![w] = At(wk[w], "mwPut", n)]
    BY <1>3 DEF GetMiddleware
  <2> HIDE DEF n
  <2> QED
    BY <1>a, <2>1, <2>2, <2>3
<1>4. CASE PutMiddleware(w)
  BY <1>4, <1>a, <1>f DEF PutMiddleware, Writing
<1>5. CASE GetIngress(w)
  <2>1. PICK n \in Nat : wk' = [wk EXCEPT ![w] = At(wk[w], "put", n)]
    BY <1>5 DEF GetIngress
  <2> QED
    BY <1>5, <1>a, <2>1 DEF GetIngress, Writing
<1>6. CASE PutIngress(w)
  <2>1. CASE wk' = [wk EXCEPT ![w] = AfterCes(wk[w])] /\ UNCHANGED queues
    <3>1. wk[w].pc \in Writing /\ wk[w].cur \in Service
      BY <1>6 DEF PutIngress, Writing, TypeOK
    <3>2. w = "maintenance" => Continues(AfterCes(wk[w]), mntQ)
      BY <1>m, <1>t, <3>1, AfterCesContinues
    <3> QED
      BY <1>0, <2>1, <3>2, ProceedSelector
  <2> QED
    BY <1>6, <1>f, <2>1 DEF PutIngress
<1> QED
  BY <1>1, <1>2, <1>3, <1>4, <1>5, <1>6 DEF Advance

(* The record and the queue after one exposed service was handled.             *)
LEMMA EndRewriteIs ==
    ASSUME TypeOK, Mnt.pc = "rewrite", NEW s \in Mnt.todo, NEW f \in BOOLEAN,
           EndRewrite(s, f)
    PROVE  /\ mntQ' = (mntQ \/ (Mnt.todo = {s} /\ (Mnt.errs \/ f)))
           /\ Mnt.todo = {s} => Mnt' = Idle
           /\ Mnt.todo # {s} =>
                 /\ Mnt'.pc = "rewrite" /\ Mnt'.snap = Mnt.snap /\ Mnt'.job = Mnt.job
                 /\ Mnt'.todo = Mnt.todo \ {s} /\ Mnt'.errs = (Mnt.errs \/ f)
<1> DEFINE n == [Mnt EXCEPT !.todo = @ \ {s}, !.errs = Mnt.errs \/ f]
           q == IF Mnt.todo = {s} THEN Idle ELSE n
<1>1. wk' = [wk EXCEPT !["maintenance"] = q] /\ mntQ' = (mntQ \/ (Mnt.todo = {s} /\ (Mnt.errs \/ f)))
  BY DEF EndRewrite, Mnt
<1>2. Mnt \in WorkerState
  BY MntType
<1>3. /\ n.pc = "rewrite" /\ n.snap = Mnt.snap /\ n.job = Mnt.job
      /\ n.todo = Mnt.todo \ {s} /\ n.errs = (Mnt.errs \/ f)
  BY <1>2 DEF WorkerState
<1>4. Mnt' = q
  <2> HIDE DEF q
  <2> QED
    BY <1>1 DEF Mnt, TypeOK, Controllers
<1> HIDE DEF n
<1> QED
  BY <1>1, <1>3, <1>4

LEMMA SelectorRewriteError ==
    ASSUME SelectorInv, NEW s \in Service, RewriteError(s)
    PROVE  Selecting' /\ Sweeping' /\ Restoring'
<1> USE DEF SelectorInv
<1>1. /\ Mnt.pc = "rewrite" /\ s \in Mnt.todo /\ EndRewrite(s, TRUE)
      /\ UNCHANGED <<svc, maintenance>>
  BY DEF RewriteError, Mnt, cluster
<1>2. /\ mntQ' = (mntQ \/ Mnt.todo = {s})
      /\ Mnt.todo = {s} => Mnt' = Idle
      /\ Mnt.todo # {s} => /\ Mnt'.pc = "rewrite" /\ Mnt'.snap = Mnt.snap
                           /\ Mnt'.job = Mnt.job /\ Mnt'.todo = Mnt.todo \ {s} /\ Mnt'.errs
  BY <1>1, EndRewriteIs
<1>3. Idle.pc = "idle" /\ \A t \in Service : Idle.snap[t] = Gone
  BY DEF Idle
<1>4. Continues(Mnt', mntQ')
  <2>1. CASE Mnt.todo = {s}
    BY <1>2, <1>3, <2>1 DEF Continues
  <2>2. CASE Mnt.todo # {s}
    <3>1. \A t \in Mnt.todo : Rewritable(t, Mnt.snap[t])
      BY <1>1 DEF Sweeping
    <3> QED
      BY <1>1, <1>2, <2>2, <3>1 DEF Continues, Remembered
  <2> QED
    BY <2>1, <2>2
<1> QED
  BY <1>1, <1>2, <1>4, SelectorWorker

(* Rewriting an exposed service: a deactivation gives it back its selector, or *)
(* meets a conflict and is repeated.                                           *)
LEMMA SelectorRewrite ==
    ASSUME SelectorInv, Restorable, NEW s \in Service, RewriteService(s)
    PROVE  Selecting' /\ Sweeping' /\ Restoring'
<1> USE DEF SelectorInv
<1> DEFINE v == Mnt.snap[s]
           ok == svc[s].uid = v.uid /\ svc[s].rv = v.rv
           target == RewriteTarget(s, Mnt.job)
<1>1. /\ Mnt.pc = "rewrite" /\ s \in Mnt.todo /\ EndRewrite(s, ~ok)
      /\ UNCHANGED maintenance
      /\ svc' = IF ok /\ v.sel # target
                THEN [svc EXCEPT ![s].sel = target, ![s].rv = @ + 1] ELSE svc
  BY DEF RewriteService, Mnt
<1>2. /\ mntQ' = (mntQ \/ (Mnt.todo = {s} /\ (Mnt.errs \/ ~ok)))
      /\ Mnt.todo = {s} => Mnt' = Idle
      /\ Mnt.todo # {s} => /\ Mnt'.pc = "rewrite" /\ Mnt'.snap = Mnt.snap
                           /\ Mnt'.job = Mnt.job /\ Mnt'.todo = Mnt.todo \ {s}
                           /\ Mnt'.errs = (Mnt.errs \/ ~ok)
  <2>1. (~ok) \in BOOLEAN
    OBVIOUS
  <2> HIDE DEF ok
  <2> QED
    BY <1>1, <2>1, EndRewriteIs
<1>3. Idle.pc = "idle" /\ \A t \in Service : Idle.snap[t] = Gone
  BY DEF Idle
<1>4. Rewritable(s, v)
  BY <1>1 DEF Sweeping
<1>5. s \in Exposed \ NginxRelated /\ InitSel[s] = "dogu" /\ v.uid # 0
  <2>1. Sane(s, v) /\ InitSel[s] \in {"dogu", "none"}
    BY ConstantsAssumption DEF Selecting
  <2> QED
    BY <1>4, <2>1 DEF Rewritable, Sane
<1>6. target \in {"deactivated", "dogu"} /\ (Mnt.job # "activate" => target = InitSel[s])
  BY <1>5 DEF RewriteTarget, Restorable
<1>7. svc[s] \in ServiceState /\ svc[s].rv \in Nat /\ v.rv \in Nat
  BY MntType DEF TypeOK, ServiceState
<1>8. /\ \A t \in Service \ {s} : svc'[t] = svc[t]
      /\ svc'[s].uid = svc[s].uid
      /\ ~(ok /\ v.sel # target) => svc'[s] = svc[s]
      /\ ok /\ v.sel # target => svc'[s].sel = target /\ svc'[s].rv = svc[s].rv + 1
  <2> HIDE DEF ok, target
  <2> QED
    BY <1>1, <1>7 DEF TypeOK, ServiceState
<1>9. \A t \in Service : Mnt'.snap[t] \in {Gone, Mnt.snap[t]}
  BY <1>2, <1>3
<1>10. Selecting'
  <2> SUFFICES ASSUME NEW t \in Service
               PROVE  Sane(t, svc'[t]) /\ Sane(t, Mnt'.snap[t]) /\ ReadAt(t, Mnt.snap[t])'
    BY DEF Selecting
  <2>1. Sane(t, svc[t]) /\ Sane(t, Mnt.snap[t]) /\ ReadAt(t, Mnt.snap[t])
    BY DEF Selecting
  <2>2. Sane(t, Mnt'.snap[t])
    BY <1>9, <2>1, GoneRead
  <2>3. Sane(t, svc'[t])
    <3>1. CASE t = s /\ ok /\ v.sel # target
      BY <1>5, <1>6, <1>8, <3>1 DEF Sane
    <3>2. CASE ~(t = s /\ ok /\ v.sel # target)
      BY <1>8, <2>1, <3>2
    <3> QED
      BY <3>1, <3>2
  <2>4. ASSUME NEW x, x \in {Gone, Mnt.snap[t]}
        PROVE  x.rv <= svc'[t].rv /\ (x.uid # 0 /\ x.rv = svc'[t].rv => x.sel = svc'[t].sel)
    <3>1. ReadAt(t, x)
      BY <2>1, <2>4, GoneRead
    <3>2. x.rv \in Nat
      <4>1. Gone \in ServiceState /\ Mnt.snap[t] \in ServiceState
        BY MntType, IdleType
      <4> QED
        BY <2>4, <4>1 DEF ServiceState
    <3>3. CASE t = s /\ ok /\ v.sel # target
      <4>1. x.rv <= svc[s].rv /\ svc'[s].rv = svc[s].rv + 1
        BY <1>8, <3>1, <3>3 DEF ReadAt
      <4>2. x.rv < svc'[s].rv
        BY <1>7, <3>2, <4>1
      <4>3. svc'[s].rv \in Nat
        BY <1>7, <4>1
      <4> QED
        BY <3>2, <3>3, <4>2, <4>3
    <3>4. CASE ~(t = s /\ ok /\ v.sel # target)
      <4>1. svc'[t] = svc[t]
        BY <1>8, <3>4
      <4> QED
        BY <3>1, <4>1 DEF ReadAt
    <3> QED
      BY <3>3, <3>4
  <2>5. ReadAt(t, Mnt.snap[t])'
    BY <1>9, <2>4 DEF ReadAt
  <2> QED
    BY <2>2, <2>3, <2>5
<1>11. Sweeping'
  <2>1. CASE Mnt.todo = {s}
    BY <1>2, <1>3, <2>1 DEF Sweeping
  <2>2. CASE Mnt.todo # {s}
    <3>1. \A t \in Mnt.todo : Rewritable(t, Mnt.snap[t])
      BY <1>1 DEF Sweeping
    <3>2. Mnt.job # "upsert" /\ (Mnt.job = "activate" => maintenance \/ mntQ)
      BY <1>1 DEF Sweeping
    <3>3. mntQ => mntQ'
      BY <1>2
    <3>4. Mnt'.job # "upsert" /\ (Mnt'.job = "activate" => maintenance' \/ mntQ')
      BY <1>1, <1>2, <2>2, <3>2, <3>3
    <3>5. \A t \in Mnt'.todo : Rewritable(t, Mnt'.snap[t])
      BY <1>2, <2>2, <3>1
    <3> QED
      BY <3>4, <3>5 DEF Sweeping, Rewritable
  <2> QED
    BY <2>1, <2>2
<1>12. Restoring'
  <2> SUFFICES ASSUME ~maintenance', ~mntQ', NEW t \in Service, Hidden(t)'
               PROVE  Remembered(Mnt, t)'
    BY DEF Restoring
  <2>1. ~maintenance /\ ~mntQ
    BY <1>1, <1>2
  <2>2. Mnt.job # "activate"
    BY <1>1, <2>1 DEF Sweeping
  <2>3. Hidden(t)
    <3>1. CASE t = s /\ ok /\ v.sel # target
      BY <1>6, <1>8, <2>2, <3>1 DEF Hidden
    <3>2. CASE ~(t = s /\ ok /\ v.sel # target)
      BY <1>8, <3>2 DEF Hidden, Live
    <3> QED
      BY <3>1, <3>2
  <2>4. t \in Mnt.todo \/ Mnt.errs
    BY <1>1, <2>1, <2>3 DEF Restoring, Remembered
  <2>5. t = s => ~ok
    <3> SUFFICES ASSUME t = s, ok PROVE FALSE
      OBVIOUS
    <3>1. v.sel = target
      BY <1>6, <1>8, <2>2 DEF Hidden
    <3>2. v.sel = svc[s].sel
      BY <1>5 DEF Selecting, ReadAt
    <3> QED
      BY <1>6, <2>2, <2>3, <3>1, <3>2 DEF Hidden
  <2>6. Mnt.todo # {s}
    BY <1>2, <2>4, <2>5
  <2>7. Mnt'.pc = "rewrite" /\ (t \in Mnt'.todo \/ Mnt'.errs)
    BY <1>2, <2>4, <2>5, <2>6
  <2> QED
    BY <2>7 DEF Remembered
<1> QED
  BY <1>10, <1>11, <1>12

(* A sweep starts from the services as they are: what is hidden can be         *)
(* rewritten.                                                                  *)
LEMMA SelectorMaintenance ==
    ASSUME SelectorInv, MaintenanceReconcile
    PROVE  Selecting' /\ Sweeping' /\ Restoring'
<1> USE DEF SelectorInv
<1>1. Mnt.pc = "idle" /\ mntQ' = FALSE /\ UNCHANGED <<svc, maintenance>>
  BY DEF MaintenanceReconcile, Mnt, cluster
<1>2. LiveServices \in SUBSET Service
  BY DEF LiveServices
<1>3. CASE LiveServices = {}
  <2>1. Mnt' = Mnt
    BY <1>3 DEF MaintenanceReconcile, Mnt
  <2>2. Selecting'
    BY <1>1, <2>1 DEF Selecting, Sane, ReadAt
  <2>3. Sweeping'
    BY <1>1, <2>1 DEF Sweeping
  <2>4. \A s \in Service : ~Hidden(s)'
    BY <1>1, <1>3 DEF Hidden, Live, LiveServices
  <2> QED
    BY <2>2, <2>3, <2>4 DEF Restoring
<1>4. CASE LiveServices # {}
  <2> DEFINE job == IF maintenance THEN "activate" ELSE "deactivate"
             r == Between("next", job, LiveServices, SnapOf(LiveServices))
  <2>1. wk' = [wk EXCEPT !["maintenance"] = r]
    BY <1>4 DEF MaintenanceReconcile, Start
  <2>2. r.pc = "next" /\ r.job = job /\ r.snap = SnapOf(LiveServices)
    <3>1. job \in {"upsert", "activate", "deactivate"}
      OBVIOUS
    <3> HIDE DEF job
    <3> QED
      BY <1>2, <3>1, SnapOfType, BetweenType
  <2> HIDE DEF r
  <2>3. Mnt' = r
    BY <2>1 DEF Mnt, TypeOK, Controllers
  <2>4. \A s \in Service : r.snap[s] = IF s \in LiveServices THEN svc[s] ELSE Gone
    BY <2>2 DEF SnapOf
  <2>5. Selecting'
    <3> SUFFICES ASSUME NEW s \in Service
                 PROVE  Sane(s, svc[s]) /\ Sane(s, r.snap[s]) /\ ReadAt(s, r.snap[s])
      BY <1>1, <2>3 DEF Selecting, ReadAt
    <3>1. ReadAt(s, svc[s])
      <4>1. svc[s].rv \in Nat
        BY DEF TypeOK, ServiceState
      <4> QED
        BY <4>1 DEF ReadAt
    <3> QED
      BY <2>4, <3>1, GoneRead DEF Selecting
  <2>6. Sweeping'
    <3>1. job # "upsert" /\ (job = "activate" => maintenance)
      OBVIOUS
    <3> QED
      BY <1>1, <2>2, <2>3, <3>1 DEF Sweeping
  <2>7. Restoring'
    <3> SUFFICES ASSUME NEW s \in Service, Hidden(s) PROVE Rewritable(s, r.snap[s])
      BY <1>1, <2>2, <2>3 DEF Restoring, Remembered, Hidden, Live, Rewritable
    <3>1. r.snap[s] = svc[s] /\ svc[s].uid # 0
      BY <2>4 DEF Hidden, Live, LiveServices
    <3>2. Sane(s, svc[s]) /\ svc[s].sel # InitSel[s]
      BY DEF Selecting, Hidden
    <3> QED
      BY <3>1, <3>2 DEF Sane, Rewritable
  <2> QED
    BY <2>5, <2>6, <2>7
<1> QED
  BY <1>3, <1>4

(* Somebody else writes a service: its resource version grows, and no selector *)
(* is hidden that was not hidden before.                                       *)
LEMMA SelectorEdit ==
    ASSUME SelectorInv, NEW s \in Service,
           CreateService(s) \/ AnnotateService(s) \/ DeleteService(s)
    PROVE  Selecting' /\ Sweeping' /\ Restoring'
<1> USE DEF SelectorInv
<1>1. UNCHANGED <<maintenance, mntQ, wk>> /\ Mnt' = Mnt
  BY DEF CreateService, AnnotateService, DeleteService, Mnt
<1>2. \A t \in Service \ {s} : svc'[t] = svc[t]
  BY DEF CreateService, AnnotateService, DeleteService, TypeOK
<1>3. svc[s] \in ServiceState /\ svc[s].rv \in Nat
  BY DEF TypeOK, ServiceState
<1>4. /\ svc'[s].rv = svc[s].rv + 1
      /\ \/ svc'[s].uid = 0
         \/ svc'[s].sel = InitSel[s]
         \/ svc'[s].uid = svc[s].uid /\ svc'[s].sel = svc[s].sel
  <2>1. CASE CreateService(s)
    <3>1. PICK d \in Declarations[s] :
             svc'[s] = [uid |-> svc[s].rv + 1, rv |-> svc[s].rv + 1,
                        decl |-> d, sel |-> InitSel[s]]
      BY <2>1 DEF CreateService, TypeOK
    <3> QED
      BY <3>1
  <2>2. CASE AnnotateService(s)
    <3>1. PICK d \in Declarations[s] : svc' = [svc EXCEPT ![s].decl = d, ![s].rv = @ + 1]
      BY <2>2 DEF AnnotateService
    <3> QED
      BY <1>3, <3>1 DEF TypeOK, ServiceState
  <2>3. CASE DeleteService(s)
    <3> DEFINE g == [Gone EXCEPT !.rv = svc[s].rv + 1]
    <3>1. g.uid = 0 /\ g.rv = svc[s].rv + 1
      BY DEF Gone
    <3>2. svc'[s] = g
      BY <2>3 DEF DeleteService, TypeOK
    <3> HIDE DEF g
    <3> QED
      BY <3>1, <3>2
  <2> QED
    BY <2>1, <2>2, <2>3
<1>5. Selecting'
  <2> SUFFICES ASSUME NEW t \in Service
               PROVE  Sane(t, svc'[t]) /\ Sane(t, Mnt.snap[t]) /\ ReadAt(t, Mnt.snap[t])'
    BY <1>1 DEF Selecting
  <2>1. Sane(t, svc[t]) /\ Sane(t, Mnt.snap[t]) /\ ReadAt(t, Mnt.snap[t])
    BY DEF Selecting
  <2>2. Mnt.snap[t].rv \in Nat
    BY MntType DEF ServiceState
  <2>3. CASE t = s
    <3>1. Sane(t, svc'[t])
      BY <1>4, <2>1, <2>3 DEF Sane
    <3>2. Mnt.snap[t].rv < svc'[t].rv /\ svc'[t].rv \in Nat
      BY <1>3, <1>4, <2>1, <2>2, <2>3 DEF ReadAt
    <3>3. Mnt.snap[t].rv <= svc'[t].rv /\ Mnt.snap[t].rv # svc'[t].rv
      BY <2>2, <3>2
    <3> QED
      BY <1>1, <2>1, <3>1, <3>3 DEF ReadAt
  <2>4. CASE t # s
    BY <1>1, <1>2, <2>1, <2>4 DEF ReadAt
  <2> QED
    BY <2>3, <2>4
<1>6. Sweeping'
  BY <1>1 DEF Sweeping, Rewritable
<1>7. Restoring'
  <2> SUFFICES ASSUME ~maintenance, ~mntQ, NEW t \in Service, Hidden(t)'
               PROVE  Remembered(Mnt, t)'
    BY <1>1 DEF Restoring
  <2>1. Hidden(t)
    BY <1>2, <1>4 DEF Hidden, Live
  <2>2. Remembered(Mnt, t)
    BY <2>1 DEF Restoring
  <2> QED
    BY <1>1, <2>2 DEF Remembered, Rewritable
<1> QED
  BY <1>5, <1>6, <1>7

(* A change of the mode, a restart and the resync queue a sweep.               *)
LEMMA SelectorOthers ==
    ASSUME SelectorInv, Restorable,
           \/ ToggleMaintenance \/ Crash \/ Resync \/ UNCHANGED vars
           \/ \E s \in Service : \/ ChangeDeployment(s) \/ ServiceReconcile(s)
                                 \/ DeploymentReconcile(s)
           \/ \E c \in Ces : CollectIngress(c) \/ CollectMiddleware(c)
           \/ \E w \in Controllers : ApiError(w)
    PROVE  Selecting' /\ Sweeping' /\ Restoring'
<1> USE DEF SelectorInv
<1>1. CASE ToggleMaintenance
  <2>1. UNCHANGED <<svc, wk>> /\ mntQ' /\ Mnt' = Mnt
    BY <1>1 DEF ToggleMaintenance, Mnt
  <2>2. Selecting'
    BY <2>1 DEF Selecting, Sane, ReadAt
  <2>3. Sweeping' /\ Restoring'
    BY <2>1 DEF Sweeping, Restoring, Rewritable
  <2> QED
    BY <2>2, <2>3
<1>2. CASE Crash
  <2>1. UNCHANGED <<svc, maintenance>> /\ Mnt' = Idle /\ mntQ'
    BY <1>2 DEF Crash, cluster, Mnt, Controllers, Restorable
  <2>2. Idle.pc = "idle" /\ \A t \in Service : Idle.snap[t] = Gone
    BY DEF Idle
  <2>3. Continues(Idle, TRUE)
    BY <2>2 DEF Continues
  <2> QED
    BY <2>1, <2>3, SelectorWorker
<1>3. CASE Resync
  BY <1>3, SelectorElsewhere DEF Resync, cluster, Mnt
<1>4. CASE UNCHANGED vars
  BY <1>4, SelectorElsewhere DEF vars, Mnt
<1>5. ASSUME NEW s \in Service, ChangeDeployment(s)
      PROVE  Selecting' /\ Sweeping' /\ Restoring'
  BY <1>5, SelectorElsewhere DEF ChangeDeployment, Mnt
<1>6. ASSUME NEW s \in Service, ServiceReconcile(s)
      PROVE  Selecting' /\ Sweeping' /\ Restoring'
  <2>1. Mnt' = Mnt /\ UNCHANGED <<svc, maintenance, mntQ>>
    BY <1>6 DEF ServiceReconcile, Start, Mnt, TypeOK, Controllers, cluster
  <2> QED
    BY <2>1, SelectorElsewhere
<1>7. ASSUME NEW s \in Service, DeploymentReconcile(s)
      PROVE  Selecting' /\ Sweeping' /\ Restoring'
  <2>1. Mnt' = Mnt /\ UNCHANGED <<svc, maintenance, mntQ>>
    BY <1>7 DEF DeploymentReconcile, Start, Mnt, TypeOK, Controllers, cluster
  <2> QED
    BY <2>1, SelectorElsewhere
<1>8. ASSUME NEW c \in Ces, CollectIngress(c) \/ CollectMiddleware(c)
      PROVE  Selecting' /\ Sweeping' /\ Restoring'
  BY <1>8, SelectorElsewhere DEF CollectIngress, CollectMiddleware, cluster, queues, Mnt
<1>9. ASSUME NEW w \in Controllers, ApiError(w)
      PROVE  Selecting' /\ Sweeping' /\ Restoring'
  <2>1. PICK s : Fail(w, s)
    BY <1>9 DEF ApiError
  <2> QED
    BY <1>9, <2>1, FailSelector DEF ApiError, cluster
<1> QED
  BY <1>1, <1>2, <1>3, <1>4, <1>5, <1>6, <1>7, <1>8, <1>9

LEMMA SelectorStep == Restorable => (SelectorInv /\ [Next]_vars => SelectorInv')
<1> SUFFICES ASSUME Restorable, SelectorInv, [Next]_vars PROVE SelectorInv'
  OBVIOUS
<1>1. TypeOK'
  BY TypeStep DEF SelectorInv
<1>2. Selecting' /\ Sweeping' /\ Restoring'
  BY SelectorAdvance, SelectorRewrite, SelectorRewriteError, SelectorMaintenance,
     SelectorEdit, SelectorOthers
  DEF Next, Environment
<1> QED
  BY <1>1, <1>2 DEF SelectorInv

LEMMA SelectorInit == Restorable => (Init => SelectorInv)
<1> SUFFICES ASSUME Restorable, Init PROVE SelectorInv
  OBVIOUS
<1>1. TypeOK
  BY TypeInit
<1>2. Mnt = Idle /\ mntQ
  BY DEF Init, Mnt, Controllers, Restorable
<1>3. Idle.pc = "idle" /\ \A t \in Service : Idle.snap[t] = Gone
  BY DEF Idle
<1>4. Selecting
  <2> SUFFICES ASSUME NEW s \in Service
               PROVE  Sane(s, svc[s]) /\ Sane(s, Mnt.snap[s]) /\ ReadAt(s, Mnt.snap[s])
    BY DEF Selecting
  <2>1. Sane(s, svc[s])
    BY DEF Init, Sane, Gone
  <2> QED
    BY <1>1, <1>2, <1>3, <2>1, GoneRead
<1>5. Sweeping /\ Restoring
  BY <1>2, <1>3 DEF Sweeping, Restoring
<1> QED
  BY <1>1, <1>4, <1>5 DEF SelectorInv

(* Deactivation of maintenance mode is not lost: whatever conflicts, errors    *)
(* and restarts rewriteNonSimpleServiceRoute meets, and whoever else writes    *)
(* the services, the exposed services have their own selectors once mode and   *)
(* controller are at rest.                                                     *)
THEOREM ExposedServicesAreRestored == ASSUME Restorable PROVE Spec => []SelectorsRestored
<1>1. SelectorInv => SelectorsRestored
  BY DEF SelectorInv, Restoring, SelectorsRestored, Hidden, Remembered, Mnt
<1>2. Init => SelectorInv
  BY SelectorInit
<1>3. SelectorInv /\ [Next]_vars => SelectorInv'
  BY SelectorStep
<1> QED
  BY <1>1, <1>2, <1>3, PTL DEF Spec
=============================================================================
