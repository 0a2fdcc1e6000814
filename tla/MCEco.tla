------------------------------- MODULE MCEco -------------------------------
(* Small instances of Ecosystem.                                           *)
EXTENDS Ecosystem

P(t) == [text |-> t, padded |-> FALSE]
Padded(t) == [text |-> t, padded |-> TRUE]

Names == {"ces", "ces2", "alt", "own"}
Secrets == {"ecosystem-certificate", "tls"}

(* alt and own:tls.                                                        *)
Entries == {<<P("alt")>>, <<Padded("own"), P("tls")>>}

S(fqdn, alts) == [fqdn |-> fqdn, domain |-> "d1", alts |-> alts, type |-> "selfsigned"]
Old == S("ces", {})
FewEdits == {S("ces2", Entries)}

Issued == [kind |-> "self", names |-> {"ces"}, org |-> "d1", no |-> 1]

Events(d, f) == [edit |-> 0, drift |-> d, middleware |-> 0, fault |-> f, crash |-> 0, any |-> 1]
CertEvents(e, u, x, n) ==
    [edit |-> e, upload |-> u, fault |-> 0, watch |-> 0, crash |-> x, any |-> n]
EcoBudget == Events(0, 0)
EcoCertBudget == CertEvents(1, 0, 1, 1)
=============================================================================
