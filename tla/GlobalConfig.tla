---------------------------- MODULE GlobalConfig ----------------------------
(***************************************************************************)
(* The ConfigMap global-config, which the certificate code and the         *)
(* redirect controller share, and the parsing of alternative FQDNs.        *)
(***************************************************************************)
EXTENDS Integers, Sequences

CONSTANTS
    Name,       \* host names
    TlsSecret,  \* names of TLS secrets
    AltEntry    \* the entries a list of alternative FQDNs may have

(* What stands between two separators: a text, with or without spaces      *)
(* around it.  An entry is split at its colons.                            *)
Part == [text : Name \cup TlsSecret \cup {""}, padded : BOOLEAN]
Empty == [text |-> "", padded |-> FALSE]

(* What others set; "" stands for a missing value.                         *)
Settings == [fqdn : Name \cup {""}, domain : {"", "d1", "d2"},
             alts : SUBSET AltEntry, type : {"", "selfsigned", "external"}]

ASSUME GlobalConfigAssumption ==
    /\ AltEntry \subseteq Seq(Part)
    /\ \A e \in AltEntry : Len(e) > 0
    /\ "" \notin Name \cup TlsSecret
    /\ "ecosystem-certificate" \in TlsSecret

AlternativeFQDN == [fqdn : Name \cup TlsSecret \cup {""},
                    secret : Name \cup TlsSecret \cup {""}]

(* ParseAlternativeFQDNsFromConfigString looks for an empty name before it  *)
(* trims, so that an entry of spaces is an entry with the name "".  Entries *)
(* with two colons are skipped.                                             *)
Parse(E) ==
    {[fqdn |-> e[1].text, secret |-> IF Len(e) = 2 THEN e[2].text ELSE ""] :
        e \in {f \in E : Len(f) \in {1, 2} /\ f[1] # Empty}}

HasCertificate(a) == a.secret # ""

(* A certificate; no tells certificates apart.  missing: a secret without   *)
(* the key tls.crt, garbage: one whose certificate cannot be parsed.        *)
Certificate == [kind : {"none", "self", "other", "garbage", "missing"},
                names : SUBSET (Name \cup TlsSecret \cup {""}),
                org : {"", "d1", "d2"}, no : Nat]
NoCertificate == [kind |-> "none", names |-> {}, org |-> "", no |-> 0]

(* key: is the private key still in the global config?                     *)
ConfigState == [set : Settings, crt : Certificate, key : BOOLEAN, rv : Nat]
=============================================================================
