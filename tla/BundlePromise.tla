---------------------------- MODULE BundlePromise ----------------------------
(***************************************************************************)
(* What a render may rely on of load (internal/credential/loader.go): one  *)
(* call is answered once, with a bundle that has every required credential *)
(* of the role and no name outside its allowlist, or with an error, after  *)
(* which some asset bytes that were already read may be left in memory.    *)
(***************************************************************************)
EXTENDS CredentialNames

VARIABLES role, answer

Waiting          == [kind |-> "waiting"]
Delivered(names) == [kind |-> "bundle", names |-> names]
Refused(left)    == [kind |-> "refused", left |-> left]

\* Assets that can have been read when a load stops: no optional one before
\* the required ones are there.
Partial(r) ==
  {left \in SUBSET Assets(r) :
     left \cap Optional(r) # {} => Entries(RequiredAssets[r]) \subseteq left}

Answers(r) ==
  {Delivered(Required(r) \cup more) : more \in SUBSET Optional(r)}
  \cup {Refused(left) : left \in Partial(r)}

PromiseInit == role \in Roles /\ answer = Waiting
Answer == answer = Waiting /\ answer' \in Answers(role) /\ UNCHANGED role

PromiseSpec == PromiseInit /\ [][Answer]_<<role, answer>>
=============================================================================
