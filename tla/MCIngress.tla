----------------------------- MODULE MCIngress -----------------------------
(* Small instances of IngressExposure.                                     *)
EXTENDS IngressExposure

D(parse, ces, extra) == [parse |-> parse, ces |-> ces, extra |-> extra]

(* At most n events, of which at most so many of each kind.                *)
Events(n, t, r, e, f, x) ==
    [toggle |-> t, rollout |-> r, edit |-> e, fault |-> f, crash |-> x, any |-> n]

---------------------------------------------------------------------------
(* One dogu with one ces service.                                          *)
OneService == {"dogu"}
OneCes == {"web"}
OneOwner == [c \in OneCes |-> "dogu"]
OneSel == [s \in OneService |-> "dogu"]
OnePlain == [s \in OneService |-> {D("ok", [c \in OneCes |-> "plain"], TRUE)}]
OneAny == [s \in OneService |->
    {D("ok", [c \in OneCes |-> "pass"], TRUE), D("ok", [c \in OneCes |-> "badRewrite"], TRUE),
     D("invalid", [c \in OneCes |-> "none"], TRUE)}]
OneReady == [s \in OneService |-> "ready"]
OneStarting == [s \in OneService |-> "notReady"]

(* A dogu, whose ingress may be refused, and an exposed service of another  *)
(* dogu, which is not deployed yet.                                         *)
TwoService == {"dogu", "scm"}
TwoCes == {"web"}
TwoOwner == [c \in TwoCes |-> "dogu"]
TwoSel == [s \in TwoService |-> "dogu"]
TwoDep == [s \in TwoService |-> IF s = "dogu" THEN "ready" ELSE "none"]
TwoDecl == [s \in TwoService |->
    IF s = "dogu" THEN {D("ok", [c \in TwoCes |-> "rewrite"], b) : b \in BOOLEAN}
    ELSE {D("absent", [c \in TwoCes |-> "none"], TRUE)}]

(* A dogu and the loadbalancer of traefik.                                 *)
LbService == {"dogu", "ces-loadbalancer"}
LbSel == [s \in LbService |-> "dogu"]
LbDecl == [s \in LbService |->
    IF s = "dogu" THEN {D("ok", [c \in TwoCes |-> "plain"], TRUE)}
    ELSE {D("absent", [c \in TwoCes |-> "none"], TRUE)}]
LbBare == [s \in LbService |-> "none"]

SweepBudget == Events(3, 2, 0, 1, 1, 1)
LiveBudget == Events(2, 1, 1, 2, 1, 1)
ToggleBudget == Events(2, 2, 0, 0, 0, 0)
=============================================================================
