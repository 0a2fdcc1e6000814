-------------------------------- MODULE MCLb --------------------------------
(* Small instances of LoadBalancer.                                        *)
EXTENDS LoadBalancer

Ok(E) == [kind |-> "ok", ports |-> E]
Invalid == [kind |-> "invalid", ports |-> {}]

Events(e, c, d, f, x, n) ==
    [edit |-> e, config |-> c, drift |-> d, fault |-> f, crash |-> x, any |-> n]

P(s, number, proto, target) ==
    [svc |-> s, number |-> number, proto |-> proto, target |-> target]

(* A dogu that exposes a port with one of two target ports, and one whose   *)
(* other ports are the loadbalancer's own and one that gets no route.       *)
Services == {"scm", "mail"}
Entries == {"ssh22", "ssh2222", "smtp", "web", "sctp"}
Ports == [e \in Entries |->
    CASE e = "ssh22" -> P("scm", 2222, "TCP", 22)
      [] e = "ssh2222" -> P("scm", 2222, "TCP", 2222)
      [] e = "smtp" -> P("mail", 25, "TCP", 25)
      [] e = "web" -> P("mail", 443, "TCP", 8443)
      [] e = "sctp" -> P("mail", 9, "SCTP", 9)]
Decls == [s \in Services |->
    IF s = "scm" THEN {Ok({"ssh22"}), Ok({"ssh2222"}), Invalid} ELSE {Ok({"smtp", "web", "sctp"})}]
InitDecls == [s \in Services |-> IF s = "scm" THEN Ok({"ssh22"}) ELSE Ok({"smtp", "web", "sctp"})]

(* A dogu that exposes one number for TCP and UDP.                         *)
OneService == {"scm"}
Twins == {"dnsTcp", "dnsUdp"}
TwinPorts == [e \in Twins |-> P("scm", 53, IF e = "dnsTcp" THEN "TCP" ELSE "UDP", 53)]
TwinDecls == [s \in OneService |-> {Ok({"dnsTcp"}), Ok(Twins)}]
TwinInit == [s \in OneService |-> Ok({"dnsTcp"})]

Keys == {"cloud", "own"}
C(cloud, own, ext) == [kind |-> "ok", external |-> ext,
    anns |-> [k \in Keys |-> IF k = "cloud" THEN cloud ELSE own]]
FirstConfig == C("-", "a", "unset")
OneConfig == {FirstConfig}
ThreeConfigs == {FirstConfig, C("a", "-", "Cluster"), NoConfig}

DriftBudget == Events(2, 1, 1, 1, 1, 3)
TwinBudget == Events(1, 0, 0, 0, 0, 1)
=============================================================================
