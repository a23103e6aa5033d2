------------------------ MODULE MCWriteTransaction ------------------------
(* Small instances of WriteTransaction: two gateway renders, one with the  *)
(* optional client certificate, and an egress render.                      *)
EXTENDS WriteTransaction

OrderedNames == <<"gateway-rendered.yaml", "egress-rendered.yaml",
                  "gateway.crt", "egress.crt", "gateway-client.crt">>
AllNames == {OrderedNames[i] : i \in 1 .. 5}
Places == [n \in AllNames |-> CHOOSE i \in 1 .. 5 : OrderedNames[i] = n]

Gateway == {"gateway-rendered.yaml", "gateway.crt"}
Egress == {"egress-rendered.yaml", "egress.crt"}

TwoGateways ==
  [w \in {"g1", "g2"} |-> IF w = "g1" THEN Gateway \cup {"gateway-client.crt"} ELSE Gateway]

EmptyOrLeftover == {{}, {"gateway-client.crt"}, {"gateway-rendered.yaml"}, Egress}
=============================================================================
