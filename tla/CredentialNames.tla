-------------------------- MODULE CredentialNames ---------------------------
(***************************************************************************)
(* The fixed allowlists of internal/credential/credential.go: which        *)
(* credential names the loader may read for a role, in the order it reads  *)
(* them.                                                                   *)
(***************************************************************************)
EXTENDS Sequences, Integers

Roles == {"gateway", "egress"}

RequiredScalars ==
  [gateway |-> <<"GATEWAY_EGRESS_PASSWORD_1", "TROJAN_USER_1", "TROJAN_PASSWORD_1",
                 "HTTPS_USER_1", "HTTPS_PASSWORD_1", "HTTPS_USER_2", "HTTPS_PASSWORD_2">>,
   egress  |-> <<"GATEWAY_EGRESS_PASSWORD_1">>]
RequiredAssets ==
  [gateway |-> <<"gateway.crt", "gateway.key">>, egress |-> <<"egress.crt", "egress.key">>]
OptionalAssets ==
  [gateway |-> <<"gateway-client.crt", "gateway-client.key">>,
   egress  |-> <<"gateway-client-ca.crt">>]

Entries(s) == {s[i] : i \in 1 .. Len(s)}
Required(r)  == Entries(RequiredScalars[r]) \cup Entries(RequiredAssets[r])
Optional(r) == Entries(OptionalAssets[r])
Names       == UNION {Required(r) \cup Optional(r) : r \in Roles}
ReadOrder(r) == RequiredScalars[r] \o RequiredAssets[r] \o OptionalAssets[r]

Assets(r)   == Entries(RequiredAssets[r]) \cup Optional(r)
=============================================================================
