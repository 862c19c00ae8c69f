---------------------------- MODULE MCHttpExchange ----------------------------
(* An instance for TLC: three forms, one with a character to escape and one too long, contents of
   other types, and each way to answer. *)
EXTENDS HttpExchange

MCPlain(b) == b # "="
MCEscape(b) == <<"%", "3", "D">>
MCHexDigits == {"3", "D"}
MCHexValue(a, b) == IF <<a, b>> = <<"3", "D">> THEN "=" ELSE "?"
MCUpperCase(b) == IF b = "x" THEN "X" ELSE b

Ask(version, host, type, variables, content) ==
    [version |-> version, host |-> host, type |-> type, variables |-> variables, content |-> content]

Reply(mode, pieces, accepts) == [mode |-> mode, pieces |-> pieces, accepts |-> accepts]

Form == <<<<<<"x">>, <<"=">>>>, <<<<"y">>, <<"x">>>>>>
FormTooLong == <<<<<<"y">>, [i \in 1 .. 8 |-> "x"]>>>>
FormWithEmpty == <<<<<<"x">>, <<>>>>, <<<<"y">>, <<"x">>>>>>

MCRequests ==
    {Ask("HTTP/1.1", TRUE, "form", Form, <<>>),
     Ask("HTTP/1.0", FALSE, "form", FormWithEmpty, <<>>),
     Ask("HTTP/1.1", TRUE, "form", FormTooLong, <<>>),
     Ask("HTTP/1.0", FALSE, "bin", <<>>, <<"x", "y", "x">>),
     Ask("HTTP/1.0", TRUE, "bin", <<>>, [i \in 1 .. 13 |-> "x"]),
     Ask("HTTP/1.1", FALSE, "bin", <<>>, <<>>),
     Ask("HTTP/2.0", TRUE, "bin", <<>>, <<>>)}

ABC == <<<<"a", "b">>, <<"c">>>>

MCAnswers ==
    {Reply("length", ABC, TRUE), Reply("length", <<>>, TRUE), Reply("length", <<>>, FALSE),
     Reply("close", ABC, TRUE), Reply("chunks", ABC, TRUE), Reply("chunks", <<>>, TRUE)}

MCExchanges == {[request |-> r, app |-> a] : r \in MCRequests, a \in MCAnswers}
=============================================================================
