---------------------------- MODULE MCTextStages ----------------------------
(***************************************************************************)
(* Instance of the three stages that process texts line by line or         *)
(* character by character and share no state: reading a config document,   *)
(* substituting values into a template, and redacting an error text.  A    *)
(* behaviour is one of them; the other two stand still.                    *)
(***************************************************************************)
EXTENDS ConfigDocument, Substitution, Redaction, TLC

VARIABLE stage

MCChar == {"$", "{", "}", "!", "\"", "\\", "lf", "n", "t", "s", "h", "a", "x", "7", "1", "0", ".",
           "-", ":", "/", "@", "p", " ", "k", "=", "A", "u", "M"}

\* ------------------------------------------------------------- documents
MCHeader ==
  [gateway |-> [schema |-> "private-proxy/v1", role |-> "gateway"],
   egress  |-> ("schema" :> "private-proxy/v1") @@ ("role" :> "egress")
               @@ ("gateway-node-user" :> "edge-user")]

Line(indent, item, k, v) ==
  [indent |-> indent, item |-> item, key |-> k, value |-> v, banned |-> FALSE, comment |-> FALSE]
Top(k, v)  == Line(0, FALSE, k, v)
Under(k, v) == {Line(2, TRUE, k, v), Line(4, FALSE, k, v)}

FieldLines ==
  {Top("mixed-port", "7890"), Top("bind-address", "127.0.0.1"), Top("bind-address", "0.0.0.0"),
   Top("controller-listen", "127.0.0.1:9090"), Top("controller-listen", "[::]:9090"),
   Top("gateway-egress-password", "${VAR}"), Top("gateway-egress-password", "secret"),
   Top("port", "8443"), Top("gateway-node-user", "not a user"), Top("users", ""),
   Top("users", "x"), Top("sni", ""), Line(0, FALSE, "", "malformed"),
   [Top("role", "gateway") EXCEPT !.banned = TRUE],
   [Line(2, FALSE, "password", "${VAR}") EXCEPT !.banned = TRUE],
   [Top("port", "443") EXCEPT !.comment = TRUE, !.banned = TRUE]}
  \cup UNION {Under("username", "edge-user"), Under("password", "${VAR}"),
              Under("password", "secret"), Under("username", "")}

ListenerLines ==
  {Top("listeners", "")} \cup
  UNION {Under("name", "gateway_trojan"), Under("name", "gateway_https"),
         Under("name", "gateway_tproxy"), Under("listen", "0.0.0.0"),
         Under("listen", "127.0.0.1")}

MCLines == FieldLines \cup ListenerLines

\* A document has a few lines of either set.
ShortDocument ==
  LET lines == {read[i] : i \in 1 .. Len(read)}
  IN  (lines \subseteq FieldLines /\ Len(read) <= 4) \/ lines \subseteq ListenerLines

\* ------------------------------------------------------------- templates
TemplatePieces == {<<"$">>, <<"{">>, <<"}">>, <<"!">>, Holder(<<"t">>), Holder(<<"s">>),
           Holder(<<"h">>), Holder(<<"n">>), Holder(<<"a">>), Holder(<<"x">>)}
MCTemplates == {<<>>} \cup TemplatePieces \cup {p \o q : p, q \in TemplatePieces}
               \cup {p \o q \o r : p, q, r \in TemplatePieces}
Chars == {"$", "{", "}", "\"", "\\", "s", "lf"}
Values == {<<c>> : c \in Chars} \cup {<<c, d>> : c \in {"$", "\\", "}"}, d \in {"{", "\"", "$"}}
          \cup {Holder(<<"s">>), Holder(<<"t">>)}
Plain   == [t |-> <<"x">>, n |-> <<"7">>, a |-> <<"x">>]
Numbers == {<<>>, <<"0">>, <<"7", "7">>, <<"x">>, <<"1", "0">>, <<"$", "{">>}
HostTexts ==
  {<<"1", ".", "1", ".", "1", ".", "7">>, <<"x", ".", "1", ".", "1", ".", "7">>,
   <<"7", ".", "1", ".", "1", ".", "7">>, <<"x", "-">>, <<"x", "-", "x">>, <<".">>,
   <<"x", ":", "1">>, <<"1", ":", "1">>}
MCInputs ==
  [document : {[Plain EXCEPT !.t = v] : v \in Values}, user : {<<"x">>}, bundle : {[s |-> <<"x">>]}] \cup
  [document : {[Plain EXCEPT !.n = v] : v \in Numbers} \cup {[Plain EXCEPT !.a = v] : v \in HostTexts}
              \cup {[t |-> <<"x">>]}, user : {<<"x">>}, bundle : {[s |-> <<"x">>]}] \cup
  [document : {[Plain EXCEPT !.t = v] : v \in {<<"$">>, <<"s">>}}, user : {<<"x">>},
   bundle : {[s |-> v] : v \in Values \cup {<<>>}}] \cup
  [document : {Plain}, user : {<<"$">>}, bundle : {[s |-> <<"{">>]}] \cup
  [document : {Plain}, user : {<<"x">>}, bundle : {[x |-> <<"x">>]}]
MCAddresses == {<<"1", ".", "1", ".", "1", ".", "7">>, <<"1", ":", "1">>}

\* ----------------------------------------------------------- error texts
LogPieces == {Scheme, <<":">>, <<"/">>, <<"@">>, <<"x">>, <<"p">>, <<" ">>, <<"k">>, <<"=">>,
           AuthHeader, <<"lf">>, <<"u">>, <<"\"">>}
MCTexts == {<<>>} \cup LogPieces \cup {a \o b : a, b \in LogPieces}
           \cup {a \o b \o c : a, b, c \in LogPieces}
           \cup {a \o b \o c \o d : a, b, c, d \in LogPieces}
           \cup {Scheme \o a \o Scheme \o b \o c : a, b, c \in LogPieces}

-----------------------------------------------------------------------------
DocumentIdle ==
  /\ role = "gateway" /\ scalars = <<>> /\ sections = [s \in Sections |-> <<>>]
  /\ section = "" /\ banned = FALSE /\ verdict = "rejected" /\ read = <<>>
SubstitutionIdle ==
  /\ template = <<>> /\ document = <<>> /\ user = <<>> /\ bundle = <<>>
  /\ pc = "refused" /\ text = <<>> /\ todo = <<>>
RedactionIdle ==
  /\ logged = <<>> /\ log = <<>> /\ pass = "bound" /\ rounds = 0 /\ bound = 0 /\ first = None

MCInit ==
  \/ stage = "document" /\ Init /\ SubstitutionIdle /\ RedactionIdle
  \/ stage = "substitution" /\ DocumentIdle /\ SubstitutionInit /\ RedactionIdle
  \/ stage = "redaction" /\ DocumentIdle /\ SubstitutionIdle /\ RedactionInit
MCNext ==
  \/ stage = "document" /\ Next /\ ShortDocument' /\ UNCHANGED <<stage, substitution, redaction>>
  \/ stage = "substitution" /\ SubstitutionNext /\ UNCHANGED <<stage, vars, redaction>>
  \/ stage = "redaction" /\ RedactionNext /\ UNCHANGED <<stage, vars, substitution>>
MCSpec == MCInit /\ [][MCNext]_<<stage, vars, substitution, redaction>>
=============================================================================
