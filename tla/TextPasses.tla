----------------------------- MODULE TextPasses -----------------------------
(***************************************************************************)
(* Texts as the passes over them see them: a text is a sequence of         *)
(* characters, and a pass goes over it from left to right, writes something*)
(* at the place it has reached and goes on at a later one.                 *)
(***************************************************************************)
EXTENDS Integers, Sequences

CONSTANT Char   \* characters

Text == Seq(Char)

Least(S) == CHOOSE i \in S : \A j \in S : i <= j
Greatest(S) == CHOOSE i \in S : \A j \in S : j <= i

CharsOf(s) == {s[i] : i \in 1 .. Len(s)}

\* p stands at place i of s; the places from one on where it does.
Matches(s, p, i) == i + Len(p) - 1 <= Len(s) /\ SubSeq(s, i, i + Len(p) - 1) = p
Places(s, p, from) == {i \in from .. Len(s) : Matches(s, p, i)}

\* The first place from i on that holds one of the characters, or the end.
EndAt(s, chars, i) == Least({j \in i .. Len(s) : s[j] \in chars} \cup {Len(s) + 1})

\* A step of a pass: what it writes and where it goes on.
Step(written, next) == [write |-> written, goto |-> next]
Copy(s, i) == Step(<<s[i]>>, i + 1)

\* What a pass of so many places writes from each place on.
Written(n, step) ==
  LET From[i \in 1 .. n + 1] ==
        IF i = n + 1 THEN <<>> ELSE step[i].write \o From[step[i].goto]
  IN  From
Rewrite(n, step) == Written(n, step)[1]
=============================================================================
