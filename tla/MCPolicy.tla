------------------------------ MODULE MCPolicy ------------------------------
(* Small instances of NetworkPolicy.                                       *)
EXTENDS NetworkPolicy

Ok(E) == [valid |-> TRUE, ports |-> E]
Broken == [valid |-> FALSE, ports |-> {}]

(* At most n events, of which at most so many of each kind.                *)
Events(n, e, t, d, f, r) ==
    [edit |-> e, touch |-> t, drop |-> d, fault |-> f, restart |-> r, any |-> n]

Services == {"scm", "ldap"}
Keys == {"k-scm", "k-ldap"}
OwnKey == [s \in Services |-> IF s = "scm" THEN "k-scm" ELSE "k-ldap"]

(* ssh is exposed with two target ports, web by both services.             *)
Entries == {"ssh22", "ssh2222", "ldaps", "web"}
PortNumber == [e \in Entries |->
    CASE e = "ldaps" -> 636 [] e = "web" -> 8080 [] OTHER -> 2222]

OwnPorts == [s \in Services |->
    IF s = "scm" THEN {Ok({"ssh22"}), Ok({"ssh2222"}), Ok({}), Broken}
    ELSE {Ok({"ldaps"}), Ok({})}]
SomeShared == [s \in Services |->
    IF s = "scm" THEN {Ok({"ssh22"}), Ok({"ssh2222", "web"}), Ok({}), Broken}
    ELSE {Ok({"ldaps", "web"}), Ok({})}]

(* Managers with a CIDR each; "off" has network policies disabled.         *)
Two == {"old", "new"}
Three == {"old", "new", "off"}
Cidrs == [m \in Three |-> m]

None == NoPolicy(0)
Kept == [exists |-> TRUE, ports |-> {636}, keys |-> {"k-ldap"},
         map |-> [k \in Keys |-> IF k = "k-ldap" THEN {"ldaps"} ELSE {}],
         cidr |-> "old", rv |-> 1]

RollBudget == Events(4, 3, 1, 1, 1, 3)
OffBudget == Events(1, 1, 0, 0, 0, 0)
DocBudget == Events(3, 3, 0, 0, 0, 0)
=============================================================================
