----------------------------- MODULE RpcFunctions -----------------------------
(***************************************************************************)
(* The functions of the authenticator that jASyncRPC_AddAuthMethods makes  *)
(* callable: what each name calls, and which fields of the payload it      *)
(* passes, in which order. A field that is not there is empty, zero or     *)
(* false; one of another type ends the program, since nothing catches what *)
(* its conversion throws: no payload has one. How the answer is laid out   *)
(* is left out, and so is the obj that a function is given: it is the      *)
(* authenticator of the session.                                           *)
(***************************************************************************)
EXTENDS Sequences, TLC

Call(function, arguments) == [function |-> function, arguments |-> arguments]

Account == <<"accountName", "domainName">>
Attrib == <<"attribName", "domainName">>
Group == <<"groupName", "domainName">>

\* accountConfirm does not confirm
AccountFunctions ==
    [accountChangePassword |-> Call("accountChangePassword", <<"accountName", "passData", "passIndex", "domainName">>),
     accountRemove |-> Call("accountRemove", Account),
     accountDisable |-> Call("accountDisable", <<"accountName", "domainName", "disabled">>),
     accountConfirm |-> Call("accountDisable", <<"accountName", "domainName", "disabled">>),
     accountChangeDescription |-> Call("accountChangeDescription", <<"accountName", "description", "domainName">>),
     accountChangeEmail |-> Call("accountChangeEmail", <<"accountName", "email", "domainName">>),
     accountChangeExtraData |-> Call("accountChangeExtraData", <<"accountName", "extraData", "domainName">>),
     accountChangeExpiration |-> Call("accountChangeExpiration", <<"accountName", "domainName", "expiration">>)]

AccountQueries ==
    [isAccountDisabled |-> Call("isAccountDisabled", Account),
     isAccountConfirmed |-> Call("isAccountConfirmed", Account),
     isAccountSuperUser |-> Call("isAccountSuperUser", Account),
     accountDescription |-> Call("accountDescription", Account),
     accountEmail |-> Call("accountEmail", Account),
     accountExtraData |-> Call("accountExtraData", Account),
     accountExpirationDate |-> Call("accountExpirationDate", Account),
     isAccountExpired |-> Call("isAccountExpired", Account),
     accountValidateAttribute |-> Call("accountValidateAttribute", <<"accountName", "attribName", "domainName">>),
     accountsList |-> Call("accountsList", <<"domainName">>),
     accountGroups |-> Call("accountGroups", Account),
     accountDirectAttribs |-> Call("accountDirectAttribs", Account),
     accountUsableAttribs |-> Call("accountUsableAttribs", Account)]

\* attribChangeDescription takes the attribute from the account named like the description
AttribFunctions ==
    [attribAdd |-> Call("attribAdd", <<"attribName", "description", "domainName">>),
     attribRemove |-> Call("attribRemove", Attrib),
     attribGroupAdd |-> Call("attribGroupAdd", <<"attribName", "groupName", "domainName">>),
     attribGroupRemove |-> Call("attribGroupRemove", <<"attribName", "groupName", "domainName">>),
     attribAccountAdd |-> Call("attribAccountAdd", <<"attribName", "accountName", "domainName">>),
     attribAccountRemove |-> Call("attribAccountRemove", <<"attribName", "accountName", "domainName">>),
     attribChangeDescription |-> Call("attribAccountRemove", <<"attribName", "attribDescription", "domainName">>),
     attribsList |-> Call("attribsList", <<"domainName">>),
     attribGroups |-> Call("attribGroups", Attrib),
     attribAccounts |-> Call("attribAccounts", Attrib)]

GroupFunctions ==
    [groupAdd |-> Call("groupAdd", <<"groupName", "groupDescription", "domainName">>),
     groupRemove |-> Call("groupRemove", Group),
     groupExist |-> Call("groupExist", Group),
     groupAccountAdd |-> Call("groupAccountAdd", <<"groupName", "accountName", "domainName">>),
     groupAccountRemove |-> Call("groupAccountRemove", <<"groupName", "accountName", "domainName">>),
     groupChangeDescription |-> Call("groupChangeDescription", <<"groupName", "groupDescription", "domainName">>),
     groupValidateAttribute |-> Call("groupValidateAttribute", <<"groupName", "attribName", "domainName">>),
     groupDescription |-> Call("groupDescription", Group),
     groupsList |-> Call("groupsList", <<"domainName">>),
     groupAttribs |-> Call("groupAttribs", Group),
     groupAccounts |-> Call("groupAccounts", Group)]

AuthFunctions == AccountFunctions @@ AccountQueries @@ AttribFunctions @@ GroupFunctions

\* What jASyncRPC_AddAuthMethods adds all of them with
reqAttribs == {"admin"}

\* asUInt and asUInt64, asBool and asString of what is not there, and sPasswordData::setJson,
\* whose password has expired: nobody gives it
Missing(field) ==
    CASE field \in {"passIndex", "expiration"} -> 0
      [] field = "disabled" -> FALSE
      [] field = "passData" -> "expired"
      [] OTHER -> ""

\* The arguments of a call, out of a payload
Arguments(call, payload) ==
    [i \in DOMAIN call.arguments |->
        IF call.arguments[i] \in DOMAIN payload THEN payload[call.arguments[i]] ELSE Missing(call.arguments[i])]
=============================================================================
