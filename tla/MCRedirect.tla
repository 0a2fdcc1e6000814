----------------------------- MODULE MCRedirect -----------------------------
(* Small instances of Redirect.                                            *)
EXTENDS Redirect

P(t) == [text |-> t, padded |-> FALSE]
Padded(t) == [text |-> t, padded |-> TRUE]

Names == {"ces", "alt", "own"}
Secrets == {"ecosystem-certificate", "tls"}

(* alt, own:tls, an entry of spaces and one with two colons.               *)
Alt == <<P("alt")>>
Own == <<Padded("own"), P("tls")>>
Blank == <<Padded("")>>
Entries == {Alt, Own, Blank, <<P("own"), P("tls"), P("tls")>>}

S(fqdn, alts) == [fqdn |-> fqdn, domain |-> "d1", alts |-> alts, type |-> "selfsigned"]
Both == S("ces", {Alt, Own})
FewEdits ==
    {Both, S("own", {Alt, <<P("own"), P("tls"), P("tls")>>}), S("ces", {}), S("", {Alt}),
     S("ces", {Alt, Blank})}

Events(e, d, m, f, x, n) ==
    [edit |-> e, drift |-> d, middleware |-> m, fault |-> f, crash |-> x, any |-> n]
RedirectBudget == Events(3, 2, 1, 1, 1, 3)
=============================================================================
