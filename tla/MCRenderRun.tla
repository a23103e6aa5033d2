----------------------------- MODULE MCRenderRun -----------------------------
(***************************************************************************)
(* Instance: bundles of an injected loader materialize nothing, the role's *)
(* pair, another role's file, an empty asset, a duplicate, or a name that  *)
(* nobody allows, at the beginning or after good ones.                     *)
(***************************************************************************)
EXTENDS RenderRun

Asset(n) == [dest |-> n, empty |-> FALSE]
Good == {<<>>, <<Asset("gateway.crt"), Asset("gateway.key")>>,
         <<Asset("egress.crt"), Asset("egress.key")>>}
Odd  == {Asset("egress.key"), Asset("gateway.key"), Asset("other"), Asset("gateway-rendered.yaml"),
         [dest |-> "gateway.key", empty |-> TRUE]}
MCOffers == Good \cup {g \o <<o>> : g \in Good, o \in Odd}
                 \cup {<<o>> \o g : g \in Good, o \in Odd}
=============================================================================
