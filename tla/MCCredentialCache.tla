------------------------- MODULE MCCredentialCache -------------------------
(* Small instances of CredentialCache: one user, one permission, and menus *)
(* of the requests whose overlaps each run is about.                       *)
EXTENDS CredentialCache

CONSTANTS n1, n2, u, v, p, a, b

Doc(x, w, g) == [name |-> x, pass |-> w, grant |-> g]

InstalledAll == [x \in Names |-> Doc(x, a, TRUE)]

Read(n, x, w) ==
    [node |-> n, scheme |-> "basic", name |-> x, pass |-> w, op |-> "read", own |-> FALSE,
     target |-> IF x \in Names THEN x ELSE p, setPass |-> None, setGrant |-> None]
ReadRoot(n, x, w) == [Read(n, x, w) EXCEPT !.op = "root"]
Jwt(n) == [Read(n, p, a) EXCEPT !.scheme = "jwt"]
JwtNoRole(n) == [Jwt(n) EXCEPT !.name = NoName]
PatchOwn(n, w, to) == [Read(n, u, w) EXCEPT !.op = "patch", !.own = TRUE, !.setPass = to]
Patch(n, x, w, y, g) == [Read(n, x, w) EXCEPT !.op = "patch", !.target = y, !.setGrant = g]
Delete(n, x, w, y) == [Read(n, x, w) EXCEPT !.op = "remove", !.target = y]
Create(n, x, w, y, to) ==
    [Read(n, x, w) EXCEPT !.op = "create", !.target = y, !.setPass = to, !.setGrant = TRUE]
Local(n, x, w, y) == [Read(n, x, w) EXCEPT !.op = "local", !.target = y]

\* Overlaps of every kind of request on one node.
MenuAll ==
    {Read(n1, x, w) : x \in {u, p}, w \in {a, b}} \cup
    {ReadRoot(n1, u, a), Jwt(n1), JwtNoRole(n1), Read(n1, NoName, a), PatchOwn(n1, a, b), Patch(n1, u, a, p, FALSE),
     Patch(n1, u, b, u, FALSE), Delete(n1, u, a, p), Delete(n1, u, a, u),
     Create(n1, u, a, u, b), Local(n1, u, a, u)}

\* Two nodes behind ACCAPI, one request at a time; ACCAPI calls as u.
MenuCluster ==
    {Read(n, u, w) : n \in {n1, n2}, w \in {a, b}} \cup
    {Read(n2, p, a), PatchOwn(n1, a, b), Patch(n1, u, b, p, FALSE), Patch(n2, u, a, p, FALSE),
     Delete(n1, u, a, u), Delete(n2, u, b, p), Local(n2, u, a, p)}

\* The same cluster when ACCAPI calls as v: u changes its own password.
MenuClusterOwn == {Read(n2, u, a), Read(n2, u, b), PatchOwn(n1, a, b)}

MenuPassword == {Read(n1, u, a), PatchOwn(n1, a, b)}

\* A permission cached by its role is patched.
MenuNoRole == {Jwt(n1), JwtNoRole(n1), Patch(n1, u, a, p, FALSE)}
=============================================================================
