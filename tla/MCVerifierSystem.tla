-------------------------- MODULE MCVerifierSystem --------------------------
(* VerifierSystem with two processes, a phone engaged by QR in both modes  *)
(* and one touched over NFC, with odd engagements among the settings.      *)
EXTENDS VerifierSystem, TLC

De(raw, crv, methods) ==
    [raw |-> raw, coseKey |-> [kty |-> "EC2", crv |-> crv, point |-> <<raw, "key">>], methods |-> methods]

Method(type, server, client) == [type |-> type, server |-> server, client |-> client]

Both    == De("both", "P-256", <<Method(1, "nfc", "nfc"), Method(2, "s", "c"), Method(2, Absent, "short")>>)
NfcOnly == De("nfc", "P-256", <<Method(2, Absent, "c")>>)
Odd     == {De("odd", "P-384", Both.methods), De("odd", "P-256", <<>>),
            De("odd", "P-256", <<Method(2, "short", "c")>>), De("odd", "P-256", <<Method(2, Absent, Absent)>>)}

Server  == De("server", "P-256", <<Method(2, "s", Absent)>>)

MCMdocs == {Both, NfcOnly, Server}

MCTouched == [de \in MCMdocs |-> IF de = NfcOnly THEN "ndef" ELSE Absent]

Read(de, nfc, mode, request) ==
    [command |-> "read", engagement |-> de, nfc |-> nfc, mode |-> mode, request |-> request, keep |-> <<1, 2>>]

Fuzz(command, de, mode, keep) ==
    [command |-> command, engagement |-> de, nfc |-> Absent, mode |-> mode, request |-> "mdl", keep |-> keep]

MCSettings ==
    {Read(Both, Absent, m, "mdl") : m \in {"peripheral", "central"}} \cup {Read(Both, Absent, "auto", "pid")}
    \cup {Read(Both, "ndef", "auto", "mdl"), Read(NfcOnly, "ndef", "auto", "mdl"),
           Read(NfcOnly, "ndef", "peripheral", "mdl"), Read(Server, Absent, "central", "mdl")}
    \cup {Read(de, Absent, "auto", "mdl") : de \in Odd}
    \cup {Fuzz(c, Both, "auto", <<1, 2>>) : c \in Commands \ {"read"}}
    \cup {Fuzz("truncated-session-establishment", Both, "auto", k) : k \in {<<0, 1>>, <<1, 9>>, <<9, 10>>, <<1, 1>>}}
    \cup {Fuzz("corrupt-ciphertext", NfcOnly, "auto", <<1, 2>>)}

Symmetric == Permutations(Verifiers)
=============================================================================
