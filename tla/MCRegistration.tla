--------------------------- MODULE MCRegistration ---------------------------
(***************************************************************************)
(* The authentication methods with and without what they require.  With    *)
(* TLS, `saslExternal` would go the way of `sasl` step by step: only the   *)
(* mechanism's name and the credentials differ.                            *)
(***************************************************************************)
EXTENDS Registration

Option(method, password, tls, timeout) ==
  [method |-> method, password |-> password, tls |-> tls, timeout |-> timeout]

MCOptions == {Option("NickServ", FALSE, FALSE, TRUE), Option("NickServ", TRUE, FALSE, TRUE),
              Option("sasl", TRUE, FALSE, TRUE), Option("saslThenNickServ", TRUE, FALSE, TRUE),
              Option("saslExternal", FALSE, FALSE, TRUE)}
MCOffers == {{}, {"cap-notify", "sasl"}}
=============================================================================
