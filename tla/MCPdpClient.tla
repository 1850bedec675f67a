----------------------------- MODULE MCPdpClient -----------------------------
(* PdpClient with a limit of 4 bytes read by 3 at most, for bodies that    *)
(* stay below the limit, meet it and exceed it by one and two.             *)
EXTENDS PdpClient

Text(kind, members)  == [kind |-> kind, members |-> members]
Member(key, value)   == [key |-> key, value |-> value]

Permit  == Text("object", <<Member("decision", "true")>>)
NotJson == Text("not_json", <<>>)

Texts ==
    {NotJson, Text("too_deep", <<>>), Text("no_object", <<>>), Text("object", <<>>), Permit,
     Text("object", <<Member("context", "other"), Member("decision", "true")>>),
     Text("object", <<Member("decision", "false")>>),
     Text("object", <<Member("decision", "other")>>),
     Text("object", <<Member("decision", "false"), Member("decision", "true")>>),
     Text("object", <<Member("decision", "true"), Member("context", "other"), Member("context", "other")>>)}

Reply(status, size, announced, text, cut) ==
    [status |-> status, size |-> size, contentLength |-> IF announced THEN size ELSE Absent,
     text |-> text, cut |-> cut]

MCReplies ==
    {Reply(s, 2, TRUE, Permit, NotJson) : s \in {199, 200, 299, 300, 302, 404}}
    \cup {Reply(200, 0, a, NotJson, NotJson) : a \in BOOLEAN}
    \cup {Reply(200, n, a, t, c) : n \in 1..(MaxBytes + 2), a \in BOOLEAN, t \in Texts, c \in {NotJson, Permit}}

MCPresentations == [1..1 -> {[hasChain |-> TRUE]}] \cup [1..2 -> [hasChain : BOOLEAN]]

Setting(role, scheme, host, token) == [roleOk |-> role, scheme |-> scheme, host |-> host, tokenOk |-> token]

MCSettings ==
    {Setting(TRUE, "https", "pdp", TRUE), Setting(TRUE, "http", "localhost", TRUE),
     Setting(TRUE, "http", "pdp", TRUE), Setting(TRUE, "https", Absent, TRUE),
     Setting(FALSE, "https", "pdp", TRUE), Setting(TRUE, "https", "pdp", FALSE)}
=============================================================================
