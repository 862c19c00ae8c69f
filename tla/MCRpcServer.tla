----------------------------- MODULE MCRpcServer -----------------------------
(* An instance for TLC: an account with two passwords and two attributes, another without; a method
   that needs both attributes and both passwords, and one that takes an attribute away. *)
EXTENDS RpcServer

MCUsers == {"ann", "bob"}
MCAttribs == {"admin", "pay"}
MCApplication == "transfer" :> {"admin", "pay"}
MCMethodAttribs == {<<"transfer", "admin">>, <<"transfer", "pay">>, <<"attribAccountRemove", "admin">>}
MCAttribPassIndexes == {<<"pay", 1>>}
MCPolicies == 0 :> 1

MCRights ==
    [accounts |-> ("ann" :> (0 :> "a0" @@ 1 :> "a1")) @@ ("bob" :> (0 :> "b0" @@ 1 :> "b1")),
     disabled |-> {}, holds |-> {<<"admin", "ann">>, <<"pay", "ann">>, <<"admin", "bob">>}]

Auth(user, pass, idx) == [user |-> user, pass |-> pass, idx |-> idx]

Message(mode, method, payload, auths) ==
    [mode |-> mode, method |-> method, payload |-> payload, extra |-> <<>>, auths |-> auths]

MCMessages ==
    {Message("AUTH", "LOGIN", <<>>, <<Auth("ann", "a0", 0)>>),
     Message("AUTH", "LOGIN", <<>>, <<Auth("bob", "b0", 0)>>),
     Message("AUTH", "LOGIN", <<>>, <<Auth("bob", "a0", 0)>>),
     Message("EXEC", "transfer", <<>>, <<>>),
     Message("EXEC", "transfer", <<>>, <<Auth("", "a1", 1)>>),
     Message("EXEC", "transfer", <<>>, <<Auth("", "b1", 1)>>),
     Message("EXEC", "transfer", <<>>, <<Auth("", None, 1)>>),
     Message("QUIT", "", <<>>, <<>>),
     Message("AUTH", "LOGOUT", <<>>, <<>>),
     Message("EXEC", "accountRemove", [accountName |-> "bob"], <<>>),
     Message("EXEC", "attribAccountRemove", [attribName |-> "pay", accountName |-> "ann"], <<>>)}
=============================================================================
