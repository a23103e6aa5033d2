------------------------------ MODULE Redaction ------------------------------
(***************************************************************************)
(* Redact of internal/safex/errors.go: the passes every error text goes   *)
(* through before it reaches output.  A text is a sequence of characters:  *)
(* "x" is a letter or a digit, "p" one that belongs to a secret, "k" a     *)
(* sensitive key, "A" the key Authorization, "u" a byte whose lower case   *)
(* has another length, "M" the whole mask; the others are themselves.      *)
(***************************************************************************)
EXTENDS TextPasses, FiniteSets

CONSTANT Texts   \* what Redact is called with

ASSUME RedactedTexts == Texts \subseteq Text /\ {"M", ":", "/", "A", " ", "lf"} \subseteq Char

VARIABLES
  logged,  \* the text it was first called with
  log,     \* s
  pass,    \* the pass to come, "done" of the second call, or "exceeded"
  rounds,  \* n of redactURLCreds
  bound,   \* its bound
  first    \* what the first call returned

redaction == <<logged, log, pass, rounds, bound, first>>

None == <<"none">>
Mask == <<"M">>
Scheme == <<":", "/", "/">>

Alphanumeric == {"x", "p", "k", "A"}
Keys == {"k", "A"}

\* What ends the authority of a URL; the mask begins with one.
Terminators == {"/", " ", "lf", "\"", "M"}

-----------------------------------------------------------------------------
\* redactURLCredsOnce: what stands before the last "@" of an authority becomes
\* the mask, and the pass goes on where the authority ends.
AuthorityEnd(s, i) == EndAt(s, Terminators, i + 3)
Ats(s, i) == {j \in i + 3 .. AuthorityEnd(s, i) - 1 : s[j] = "@"}
MaskedURL(s, i) ==
  IF Ats(s, i) = {} THEN SubSeq(s, i, AuthorityEnd(s, i) - 1)
  ELSE Scheme \o Mask \o SubSeq(s, Greatest(Ats(s, i)), AuthorityEnd(s, i) - 1)
redactURLCredsOnce(s) ==
  Rewrite(Len(s), [i \in 1 .. Len(s) |->
    IF Matches(s, Scheme, i) THEN Step(MaskedURL(s, i), AuthorityEnd(s, i)) ELSE Copy(s, i)])

\* redactHeaderAuth: what follows the header's name is masked to the end of
\* the line.
AuthHeader == <<"A", ":", " ">>
LineEnd(s, i) == EndAt(s, {"lf"}, i)
redactHeaderAuth(s) ==
  Rewrite(Len(s), [i \in 1 .. Len(s) |->
    IF Matches(s, AuthHeader, i) THEN Step(AuthHeader \o Mask, LineEnd(s, i + 3))
    ELSE Copy(s, i)])

\* findKeyStart: a key counts where no letter or digit stands before it.  The
\* search for a further one of the same key starts on a slice, whose begin
\* counts as the begin of the line.
KeyAt(line, i) ==
  /\ line[i] \in Keys
  /\ \E j \in 1 .. i :
       /\ j = 1 \/ line[j - 1] \notin Alphanumeric
       /\ \A k \in j .. i : line[k] = line[i]

\* hasSensitiveAssignment: a key, perhaps a closing quote, spaces, a separator.
hasSensitiveAssignment(line) ==
  \E i \in 1 .. Len(line) :
    /\ KeyAt(line, i)
    /\ LET after == IF i < Len(line) /\ line[i + 1] = "\"" THEN i + 2 ELSE i + 1
           rest  == {j \in after .. Len(line) : line[j] # " "}
       IN  rest # {} /\ line[Least(rest)] \in {":", "="}

redactLineAssignments(line) ==
  IF "u" \in {line[i] : i \in 1 .. Len(line)} \/ hasSensitiveAssignment(line)
  THEN Mask ELSE line

\* redactAssignments, line by line.
redactAssignments(s) ==
  Rewrite(Len(s), [i \in 1 .. Len(s) |->
    LET end  == LineEnd(s, i)
        line == redactLineAssignments(SubSeq(s, i, end - 1))
    IN  IF end = Len(s) + 1 THEN Step(line, end) ELSE Step(line \o <<"lf">>, end + 1)])

-----------------------------------------------------------------------------
RedactionInit ==
  /\ logged \in Texts /\ log = logged
  /\ pass = "bound" /\ rounds = 0 /\ bound = 0 /\ first = None

\* redactURLCreds: one round per URL and one that changes nothing.
Bound(s) == Cardinality(Places(s, Scheme, 1)) + 1

BeginURLs ==
  /\ pass = "bound"
  /\ bound' = Bound(log) /\ rounds' = 0 /\ pass' = "urls"
  /\ UNCHANGED <<logged, log, first>>

MaskURLs ==
  /\ pass = "urls"
  /\ LET next == redactURLCredsOnce(log) IN
       IF rounds = bound THEN pass' = "exceeded" /\ log' = Mask /\ UNCHANGED rounds
       ELSE IF next = log THEN pass' = "headers" /\ UNCHANGED <<log, rounds>>
       ELSE log' = next /\ rounds' = rounds + 1 /\ UNCHANGED pass
  /\ UNCHANGED <<logged, bound, first>>

\* Mutant: lines with a placeholder-like mask keep their assignment.
MaskLinesUnmasked ==
  /\ pass = "headers"
  /\ LET s == redactHeaderAuth(log)
     IN  log' = IF "M" \in {s[i] : i \in 1 .. Len(s)} THEN s ELSE redactAssignments(s)
  /\ pass' = IF first = None THEN "returned" ELSE "done"
  /\ UNCHANGED <<logged, rounds, bound, first>>

MaskLines ==
  /\ pass = "headers"
  /\ log' = redactAssignments(redactHeaderAuth(log))
  /\ pass' = IF first = None THEN "returned" ELSE "done"
  /\ UNCHANGED <<logged, rounds, bound, first>>

\* The result is redacted again, as when an error text is wrapped in another.
Again ==
  /\ pass = "returned"
  /\ first' = log /\ pass' = "bound"
  /\ UNCHANGED <<logged, log, rounds, bound>>

RedactionNext == BeginURLs \/ MaskURLs \/ MaskLines \/ Again
RedactionSpec == RedactionInit /\ [][RedactionNext]_redaction

-----------------------------------------------------------------------------
RedactionTypeOK ==
  /\ pass \in {"bound", "urls", "headers", "returned", "done", "exceeded"}
  /\ rounds \in 0 .. bound /\ (pass = "headers" => rounds < bound)

(***************************************************************************)
(* "Redact is idempotent": redacting what was redacted changes nothing.    *)
(***************************************************************************)
Idempotent == pass = "done" => log = first

(***************************************************************************)
(* The bound of redactURLCreds is never what ends it: every round that     *)
(* changes the text masks a URL that was not masked before.                *)
(***************************************************************************)
FixedPointWithinBound == pass # "exceeded"

\* A secret by the syntax of a text: it stands in the authority of a URL before
\* its "@", right after the assignment to a key, or right after the header.
InUserinfo(s, i) ==
  \E o \in Places(s, Scheme, 1) :
    /\ o + 3 <= i /\ i < AuthorityEnd(s, o)
    /\ \E j \in i .. AuthorityEnd(s, o) - 1 : s[j] = "@"
InAssignment(s, i) ==
  /\ i > 2 /\ s[i - 1] \in {"=", ":"} /\ s[i - 2] \in Keys
  /\ i > 3 => s[i - 3] \notin Alphanumeric
InHeader(s, i) == i > 3 /\ Matches(s, AuthHeader, i - 3)

Secrets(s) == {i \in 1 .. Len(s) : s[i] = "p"}

\* A URL that begins within the authority of another one.
Nested(s) ==
  \E o, n \in Places(s, Scheme, 1) : o < n /\ AuthorityEnd(s, o) = n + 1

(***************************************************************************)
(* If the input has secrets only where the passes look for them, none is   *)
(* in the output, whatever else surrounds them and although a pass changes *)
(* the text that the next one searches (Redact).                           *)
(***************************************************************************)
SecretsAreMasked ==
  (/\ pass \in {"returned", "done"} /\ ~Nested(logged)
   /\ \A i \in Secrets(logged) :
        InUserinfo(logged, i) \/ InAssignment(logged, i) \/ InHeader(logged, i))
  => Secrets(log) = {}

(***************************************************************************)
(* Redaction ends, at a fixed point, without the secrets.                  *)
(***************************************************************************)
RedactionSettles == RedactionTypeOK /\ Idempotent /\ FixedPointWithinBound /\ SecretsAreMasked

(***************************************************************************)
(* "masks userinfo in URLs appearing anywhere in the text": also in a URL  *)
(* that follows the scheme of another one (redactURLCreds).  The code does *)
(* not have this property and no run checks it.                            *)
(***************************************************************************)
UserinfoIsMasked ==
  (pass = "returned" /\ \A i \in Secrets(logged) : InUserinfo(logged, i)) => Secrets(log) = {}
=============================================================================
