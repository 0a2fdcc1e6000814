------------------------------- MODULE MCCert -------------------------------
(* Small instances of Certificates.                                        *)
EXTENDS Certificates

P(t) == [text |-> t, padded |-> FALSE]
Padded(t) == [text |-> t, padded |-> TRUE]

Names == {"ces", "ces2", "alt", "own"}
Secrets == {"ecosystem-certificate", "tls"}

(* alt and own:tls.                                                        *)
Entries == {<<P("alt")>>, <<Padded("own"), P("tls")>>}

S(fqdn, domain, alts, type) == [fqdn |-> fqdn, domain |-> domain, alts |-> alts, type |-> type]
OldSettings == S("ces", "d1", {}, "selfsigned")
NewSettings == S("ces2", "d1", Entries, "selfsigned")
FewEdits ==
    {NewSettings, S("ces", "d1", {<<P("alt")>>}, "selfsigned"), S("ces", "", {}, "selfsigned"),
     S("ces", "d1", {}, ""), S("ces2", "d1", {}, "external")}

Issued == [kind |-> "self", names |-> {"ces"}, org |-> "d1", no |-> 1]

Events(e, u, f, w, x, n) ==
    [edit |-> e, upload |-> u, fault |-> f, watch |-> w, crash |-> x, any |-> n]
CertBudget == Events(2, 2, 1, 1, 1, 2)
=============================================================================
