----------------------------- MODULE MCService -----------------------------
(***************************************************************************)
(* Instances of Service for TLC: one address of each kind the module and   *)
(* the process tell apart, and units that differ from the plain one in     *)
(* their addresses, in where their tokens come from, or in their tenant.   *)
(***************************************************************************)
EXTENDS Service

AnyAddress ==
    {Address(h, FALSE) : h \in {"127.0.0.1", "0.0.0.0", "127.example.net", "::1"}}
    \union {Address(h, TRUE) : h \in {"::1", "::"}}

Plain ==
    [listen |-> Address("127.0.0.1", FALSE), extraAddr |-> NoAddr, bearer |-> FALSE,
     tokenFlag |-> "unset", tokenFile |-> "unset", envToken |-> "unset",
     bearerFlag |-> "unset", bearerFile |-> "unset",
     flags |-> {"tenant"}, env |-> {}]

ByAddress ==
    {[Plain EXCEPT !.listen = a, !.extraAddr = x, !.bearer = b] :
        a \in AnyAddress, x \in AnyAddress \union {NoAddr}, b \in BOOLEAN}

ByToken ==
    {[Plain EXCEPT !.tokenFlag = f, !.tokenFile = g, !.envToken = v, !.bearer = b] :
        f \in Files, g \in Files, v \in Values, b \in BOOLEAN}

ByBearer ==
    {[Plain EXCEPT !.bearerFlag = f, !.bearerFile = g, !.bearer = b] :
        f \in Files, g \in Files, b \in BOOLEAN}

ByTenant ==
    {[Plain EXCEPT !.flags = f, !.env = e] :
        f \in SUBSET {"tenant", "baseUrl"} \ {{}}, e \in SUBSET {"tenant", "baseUrl"}}

AnyUnit == ByAddress \union ByToken \union ByBearer \union ByTenant

BareLoopback      == {Address("::1", FALSE)}
BareLoopbackUnits ==
    {[Plain EXCEPT !.listen = Address("::1", FALSE), !.bearer = b] : b \in BOOLEAN}
============================================================================
