-------------------------- MODULE MCCredentialLoad --------------------------
(***************************************************************************)
(* Instance: two trees and two unit directories.  The loader first finds a *)
(* directory that is good, or deviates in one respect; the other is good.  *)
(***************************************************************************)
EXTENDS CredentialLoad

Private == [root |-> FALSE, group |-> {}, other |-> {}]
Mount   == [root |-> TRUE, group |-> {"r", "x"}, other |-> {}]
File(bytes) == [kind |-> "file", meta |-> Private, bytes |-> bytes]
Good == [n \in Names |-> File(<<"old", "old">>)]

GoodWorld ==
  [variable |-> "below", root |-> "t1", unit |-> [t1 |-> "d1", t2 |-> "d2"],
   meta |-> [d1 |-> Mount, d2 |-> Private], listing |-> [d \in Dirs |-> "plain"],
   files |-> [d \in Dirs |-> Good]]

Odd ==
  {Absent, [kind |-> "symlink"], [kind |-> "denied"], [kind |-> "directory"],
   [File(<<"old">>) EXCEPT !.meta.group = {"r"}],
   [File(<<"old">>) EXCEPT !.meta = [root |-> TRUE, group |-> {"r"}, other |-> {}]],
   File(<<>>), File(<<"lf">>), File(<<"old", "lf">>), File(<<"lf", "lf">>),
   File(<<"ctl">>), File(<<"old", "old", "old">>), File(<<"old", "old", "old", "old">>)}

MCWorlds ==
  {GoodWorld}
  \cup {[GoodWorld EXCEPT !.variable = v] : v \in {"unset", "unsafe"}}
  \cup {[GoodWorld EXCEPT !.root = r] : r \in {"absent", "symlink", "denied"}}
  \cup {[GoodWorld EXCEPT !.unit.t1 = u] : u \in {"absent", "symlink", "denied"}}
  \cup {[GoodWorld EXCEPT !.meta.d1 = m] :
          m \in {[Mount EXCEPT !.root = FALSE], [Mount EXCEPT !.other = {"x"}],
                 [Mount EXCEPT !.group = {"r", "w", "x"}]}}
  \cup {[GoodWorld EXCEPT !.listing.d1 = l] : l \in {"crowded", "collision"}}
  \cup {[GoodWorld EXCEPT !.files.d1[n] = file] :
          n \in {"GATEWAY_EGRESS_PASSWORD_1", "egress.key", "gateway-client-ca.crt"},
          file \in Odd}
=============================================================================
