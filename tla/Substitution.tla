---------------------------- MODULE Substitution ----------------------------
(***************************************************************************)
(* From template bytes to rendered config in internal/render: the checks of*)
(* validateTemplate, the config phase and the credential phase of          *)
(* substitute.go, and the emission rules of yaml_scalar.go.  Each phase    *)
(* replaces the names it extracted one after the other, everywhere in the  *)
(* text as it is by then.                                                  *)
(*                                                                         *)
(* A text is a sequence of characters; a placeholder name is one character *)
(* and stands for its kind, "h" for GATEWAY_EGRESS_AUTH.                   *)
(***************************************************************************)
EXTENDS TextPasses

CONSTANTS
  Templates,   \* template texts
  Inputs,      \* records [document, user, bundle]: scalars of the document by
               \* plain name, gateway-egress-user, credentials by secret name
  Addresses,   \* texts that are an IP address or an address with a port
  MaxNumber,   \* kindBounds
  MaxLabel     \* longest label of a host name

ASSUME InputsAreTexts ==
  /\ Templates \subseteq Text
  /\ \A given \in Inputs :
       /\ given.user \in Text
       /\ \A n \in DOMAIN given.document : given.document[n] \in Text
       /\ \A n \in DOMAIN given.bundle : given.bundle[n] \in Text

Kind == [n |-> "number", t |-> "string", a |-> "address", s |-> "secret", h |-> "secret"]
Declared == DOMAIN Kind

\* The characters that have a meaning are characters.
ASSUME SpecialCharacters ==
  {"$", "{", "}", "\"", "\\", "lf", ":"} \cup Declared \subseteq Char

VARIABLES
  template, document, user, bundle,   \* what one render is given
  pc,     \* "validate", "config", "secrets", "done" or "refused"
  text,   \* the text as substituted so far
  todo    \* names the phase has yet to replace

inputs == <<template, document, user, bundle>>
substitution == <<inputs, pc, text, todo>>

SubstitutionInit ==
  /\ template \in Templates
  /\ \E given \in Inputs :
       document = given.document /\ user = given.user /\ bundle = given.bundle
  /\ pc = "validate" /\ text = template /\ todo = <<>>

SubstitutionTypeOK ==
  /\ pc \in {"validate", "config", "secrets", "done", "refused"}
  /\ \A i \in 1 .. Len(todo) : Len(todo[i]) = 1 /\ todo[i][1] \in Declared

-----------------------------------------------------------------------------
(* strings.                                                                *)

Opening == <<"$", "{">>
Holder(name) == Opening \o name \o <<"}">>

\* templateVars: the names between an opening and the next closing brace.
TemplateVars(s) ==
  Rewrite(Len(s), [i \in 1 .. Len(s) |->
    LET close == EndAt(s, {"}"}, i + 2)
    IN  IF ~Matches(s, Opening, i) THEN Step(<<>>, i + 1)
        ELSE IF close > Len(s) THEN Step(<<>>, close)
        ELSE Step(<<SubSeq(s, i + 2, close - 1)>>, close + 1)])

\* containsDanglingPlaceholder: an opening that no brace closes.
Dangling(s) == \E i \in Places(s, Opening, 1) : EndAt(s, {"}"}, i + 2) > Len(s)

\* replaceAllChecked and strings.ReplaceAll: every occurrence, left to right.
ReplaceAll(s, p, v) ==
  Rewrite(Len(s), [i \in 1 .. Len(s) |->
    IF Matches(s, p, i) THEN Step(v, i + Len(p)) ELSE Copy(s, i)])

-----------------------------------------------------------------------------
(* yaml_scalar.go.                                                         *)

\* Mutant: backslashes are literal.
EscapedQuotesOnly(c) ==
  IF c = "\"" THEN <<"\\", c>> ELSE IF c = "lf" THEN <<"\\", "n">> ELSE <<c>>

\* quoteYAML: a double-quoted scalar; quotes, backslashes and controls are
\* escaped, the rest is literal.
Escaped(c) ==
  IF c \in {"\"", "\\"} THEN <<"\\", c>> ELSE IF c = "lf" THEN <<"\\", "n">> ELSE <<c>>
Quote(v) ==
  <<"\"">> \o Rewrite(Len(v), [i \in 1 .. Len(v) |-> Step(Escaped(v[i]), i + 1)]) \o <<"\"">>

\* rejectUnsafeValue: no line break or control, no placeholder fragment.
Unsafe(v) == "lf" \in CharsOf(v) \/ Places(v, Opening, 1) # {}

Digits == [c \in {"0", "1", "7"} |-> CASE c = "0" -> 0 [] c = "1" -> 1 [] c = "7" -> 7]
IsUnsignedDecimal(v) == v # <<>> /\ CharsOf(v) \subseteq DOMAIN Digits
Number(v) ==
  LET Upto[i \in 0 .. Len(v)] == IF i = 0 THEN 0 ELSE 10 * Upto[i - 1] + Digits[v[i]]
  IN  Upto[Len(v)]
IsNumber(v) == IsUnsignedDecimal(v) /\ Number(v) \in 1 .. MaxNumber

\* isDNSHostname: labels of letters, digits and inner hyphens; four numeric
\* labels are a malformed address, never a name.
Labels(v) ==
  LET dots == {0, Len(v) + 1} \cup {i \in 1 .. Len(v) : v[i] = "."}
  IN  {SubSeq(v, i + 1, Least({j \in dots : j > i}) - 1) : i \in dots \ {Len(v) + 1}}
NumberOfDots(v) == Len(SelectSeq(v, LAMBDA c : c = "."))
IsHostname(v) ==
  /\ v # <<>>
  /\ \A l \in Labels(v) :
       /\ Len(l) \in 1 .. MaxLabel
       /\ l[1] # "-" /\ l[Len(l)] # "-"
       /\ CharsOf(l) \subseteq DOMAIN Digits \cup {"x", "-"}
  /\ ~(NumberOfDots(v) = 3 /\ \A l \in Labels(v) : IsUnsignedDecimal(l))

\* isValidAddress: a text with a colon is an address with a port or nothing.
IsAddress(v) ==
  v # <<>> /\ (v \in Addresses \/ (":" \notin CharsOf(v) /\ IsHostname(v)))

\* emit.
Acceptable(kind, v) ==
  /\ ~Unsafe(v)
  /\ kind = "number" => IsNumber(v)
  /\ kind = "address" => IsAddress(v)
Emit(kind, v) == IF kind = "number" THEN v ELSE Quote(v)

-----------------------------------------------------------------------------
Refuse == pc' = "refused" /\ UNCHANGED <<text, todo>>
Known(name) == Len(name) = 1 /\ name[1] \in Declared

\* validateTemplate; "!" stands for a text that no template may contain.
ValidateTemplate ==
  /\ pc = "validate"
  /\ LET names == TemplateVars(template) IN
       IF /\ Places(template, <<"{", "{">>, 1) = {}
          /\ Places(template, <<"}", "}">>, 1) = {}
          /\ "!" \notin CharsOf(template) /\ ~Dangling(template)
          /\ \A i \in 1 .. Len(names) : Known(names[i])
       THEN pc' = "config" /\ todo' = names /\ UNCHANGED text
       ELSE Refuse
  /\ UNCHANGED inputs

Advance(value) ==
  /\ text' = ReplaceAll(text, Holder(todo[1]), value)
  /\ todo' = Tail(todo) /\ UNCHANGED pc

\* One name of substituteConfig; credential names are left for later.
ConfigName ==
  /\ pc = "config" /\ todo # <<>>
  /\ LET n == todo[1][1] IN
       \/ Kind[n] = "secret" /\ todo' = Tail(todo) /\ UNCHANGED <<pc, text>>
       \/ /\ Kind[n] # "secret" /\ n \in DOMAIN document
          /\ Acceptable(Kind[n], document[n])
          /\ Advance(Emit(Kind[n], document[n]))
       \/ /\ Kind[n] # "secret"
          /\ n \in DOMAIN document => ~Acceptable(Kind[n], document[n])
          /\ Refuse
  /\ UNCHANGED inputs

\* substituteCredentials extracts the names anew, from the text it is given.
BeginSecrets ==
  /\ pc = "config" /\ todo = <<>>
  /\ pc' = "secrets" /\ todo' = TemplateVars(text)
  /\ UNCHANGED <<text, inputs>>

\* isHysteriaUser.
IsHysteriaUser(v) == v # <<>> /\ CharsOf(v) \subseteq {"x", "-", "."} \cup DOMAIN Digits

\* The derived credential joins user and password with a colon.
Available(n) ==
  IF n = "h" THEN "s" \in DOMAIN bundle /\ IsHysteriaUser(user) ELSE n \in DOMAIN bundle
Secret(n) == IF n = "h" THEN user \o <<":">> \o bundle["s"] ELSE bundle[n]

SecretName ==
  /\ pc = "secrets" /\ todo # <<>>
  /\ LET n == todo[1][1] IN
       IF /\ Known(todo[1]) /\ Kind[n] = "secret" /\ Available(n)
          /\ Secret(n) # <<>> /\ ~Unsafe(Secret(n))
       THEN Advance(Quote(Secret(n)))
       ELSE Refuse
  /\ UNCHANGED inputs

\* The post-conditions of substituteCredentials.
Finish ==
  /\ pc = "secrets" /\ todo = <<>>
  /\ IF TemplateVars(text) = <<>> /\ ~Dangling(text)
     THEN pc' = "done" /\ UNCHANGED <<text, todo>> ELSE Refuse
  /\ UNCHANGED inputs

SubstitutionNext == ValidateTemplate \/ ConfigName \/ BeginSecrets \/ SecretName \/ Finish
SubstitutionSpec == SubstitutionInit /\ [][SubstitutionNext]_substitution

-----------------------------------------------------------------------------
Final(n) == IF Kind[n] = "secret" THEN Quote(Secret(n)) ELSE Emit(Kind[n], document[n])

(***************************************************************************)
(* Replacing names one after the other, in two passes over a text that     *)
(* values have already been put into, gives what replacing all of them at  *)
(* once in the template would: no value is ever taken for a placeholder,   *)
(* joins with its surroundings into one, or is replaced in turn            *)
(* (substituteConfig, substituteCredentials).                              *)
(***************************************************************************)
AtOnce ==
  Rewrite(Len(template), [i \in 1 .. Len(template) |->
    IF Matches(template, Opening, i) THEN Step(Final(template[i + 2]), i + 4)
    ELSE Copy(template, i)])
SubstitutesAtOnce == pc = "done" => text = AtOnce

(***************************************************************************)
(* The post-conditions of the credential phase are never what refuses a    *)
(* render: once every value was accepted nothing is left to replace.       *)
(***************************************************************************)
PostConditionsHold ==
  pc = "secrets" /\ todo = <<>> => TemplateVars(text) = <<>> /\ ~Dangling(text)

(***************************************************************************)
(* A value is read back unchanged: the YAML scalar that begins where it was*)
(* inserted ends where the insertion ends, whatever the value contains and *)
(* whatever follows (quoteYAML).                                           *)
(***************************************************************************)
ReadBack(s) ==
  Rewrite(Len(s), [i \in 1 .. Len(s) |->
    IF i = 1 THEN Step(<<>>, 2)
    ELSE IF s[i] = "\"" THEN Step(<<>>, Len(s) + 1)
    ELSE IF i = Len(s) THEN Step(<<"unterminated">>, i + 1)
    ELSE IF s[i] = "\\" THEN Step(<<IF s[i + 1] = "n" THEN "lf" ELSE s[i + 1]>>, i + 2)
    ELSE Copy(s, i)])
ValuesReadBack ==
  pc = "done" =>
    /\ \A n \in DOMAIN bundle : ReadBack(Quote(bundle[n]) \o template) = bundle[n]
    /\ \A n \in DOMAIN document : ReadBack(Quote(document[n]) \o template) = document[n]

(***************************************************************************)
(* The rendered text is the template with every value in its place.        *)
(***************************************************************************)
SubstitutionIsExact ==
  SubstitutionTypeOK /\ SubstitutesAtOnce /\ PostConditionsHold /\ ValuesReadBack
=============================================================================
