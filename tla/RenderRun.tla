------------------------------ MODULE RenderRun ------------------------------
(***************************************************************************)
(* Run of internal/render/render.go: one render from its options to the    *)
(* return of its deferred cleanups, with the Loader seam of loader.go and  *)
(* the Bundle of internal/credential/credential.go.                        *)
(*                                                                         *)
(* The credential loader is BundlePromise, which CredentialLoad implements;*)
(* an injected Loader may answer anything the interface allows.  The       *)
(* publication is what WriteTransaction shows of writeTransaction.  While  *)
(* the render looks at its template an operator may put other files and    *)
(* links in its place.  Byte slices that can hold secrets are buffers.     *)
(***************************************************************************)
EXTENDS CredentialNames, FiniteSets

CONSTANTS
  Offers,    \* sequences of assets an injected bundle may materialize
  MaxSwaps   \* bound: changes of the template directory

ASSUME OffersAssumption ==
  /\ \A o \in Offers : Len(o) \in Nat /\ DOMAIN o = 1 .. Len(o)
  /\ MaxSwaps \in Nat

VARIABLES
  role,      \* the role to render
  request,   \* [options, document, loader]: what the caller gave
  answer,    \* the loader's answer
  offer,     \* what Materialize returned: sequence of [dest, empty]
  template,  \* what the template path names now
  folder,    \* what the template directory's path names now
  text,      \* whose template the bytes the render works on are
  pc, result,
  live,      \* buffers that hold secret bytes
  deferred,  \* cleanups registered so far
  files,     \* [output name -> buffer]: the publication set
  out,       \* [published name -> whose template it was rendered from, "asset",
             \*  or "zeros" of a wiped buffer]
  swaps

vars == <<role, request, answer, offer, template, folder, text, pc, result,
          live, deferred, files, out, swaps>>

\* The bytes with the digest that is pinned for a role, or any others; at the
\* template path, or where a link there leads.
Contents  == Roles \cup {"other"}
NoFile    == [kind |-> "absent"]
Templates == [kind : {"file", "symlink"}, content : Contents] \cup {NoFile, [kind |-> "folder"]}
Folders   == {"real", "symlink", "file", "absent"}
Steps == {"options", "folder", "inspect", "read", "confine", "load", "bundle",
          "role", "config", "secrets", "collect", "add", "publish"}

RenderedName(r) == IF r = "gateway" THEN "gateway-rendered.yaml" ELSE "egress-rendered.yaml"

\* roleAssetNames: kept apart from the loader's own allowlists.
RoleAssetNames ==
  [gateway |-> {"gateway.crt", "gateway.key", "gateway-client.crt", "gateway-client.key"},
   egress  |-> {"egress.crt", "egress.key", "gateway-client-ca.crt"}]

\* outputNameOrder: what the transaction accepts.
OutputNames ==
  {"gateway-rendered.yaml", "egress-rendered.yaml", "gateway.crt", "gateway.key", "egress.crt",
   "egress.key", "gateway-client.crt", "gateway-client.key", "gateway-client-ca.crt"}

Production == INSTANCE BundlePromise

\* Bundles of an injected Loader: of either role, with any material.
Injected ==
  {[kind |-> "nil"], Production!Refused({})} \cup
  [kind : {"injected"}, role : Roles, scalars : {"good", "missing", "unsafe"}, offer : Offers]

Original(n) == <<"original", n>>
Copy(i)     == <<"copy", i>>
Config      == <<"config", 0>>
NoFiles     == [n \in {} |-> Config]
Buffers(r)  == {Original(n) : n \in Assets(r)}

TypeOK ==
  /\ role \in Roles /\ pc \in Steps \cup {"returned"}
  /\ request.loader \in {"systemd", "injected"}
  /\ template \in Templates /\ folder \in Folders /\ text \in {"none"} \cup Contents
  /\ result \in {"none", "ok", "refused", "undefined"}
  /\ deferred \subseteq {"close", "files", "assets"}
  /\ live \subseteq Buffers(role) \cup {Copy(i) : i \in 1 .. Len(offer)} \cup {Config}
  /\ swaps \in 0 .. MaxSwaps

Init ==
  /\ role \in Roles
  /\ request \in [options : BOOLEAN, document : {"good", "refused", "incomplete"},
                  loader : {"systemd", "injected"}]
  /\ answer = Production!Waiting /\ offer = <<>>
  /\ template \in Templates /\ folder \in Folders
  /\ text = "none" /\ pc = "options" /\ result = "none"
  /\ live = {} /\ deferred = {} /\ files = NoFiles /\ out = NoFiles
  /\ swaps = 0

input == <<role, request>>
disk  == <<template, folder, swaps>>

-----------------------------------------------------------------------------
\* The deferred cleanups: Bundle.Close zeroes the bundle's own bytes, the two
\* of Run the publication set and every materialized copy.
Wiped ==
  UNION {IF "close" \in deferred THEN Buffers(role) ELSE {},
         IF "files" \in deferred THEN {files[n] : n \in DOMAIN files} ELSE {},
         IF "assets" \in deferred THEN {Copy(i) : i \in DOMAIN offer} ELSE {}}
Return(kind) ==
  /\ pc' = "returned" /\ result' = kind
  /\ live' = live \ Wiped
  /\ deferred' = {} /\ files' = NoFiles
  /\ UNCHANGED <<input, answer, offer, disk, text>>
Refuse == Return("refused") /\ UNCHANGED out

Goto(step) ==
  /\ pc' = step
  /\ UNCHANGED <<input, disk, result, out>>

\* Options, traversal components, and the config document.
CheckOptions ==
  /\ pc = "options"
  /\ \/ /\ request.options /\ request.document # "refused"
        /\ Goto("folder") /\ UNCHANGED <<answer, offer, text, live, deferred, files>>
     \/ ~(request.options /\ request.document # "refused") /\ Refuse

CheckFolder ==
  /\ pc = "folder"
  /\ \/ folder = "real" /\ Goto("inspect") /\ UNCHANGED <<answer, offer, text, live, deferred, files>>
     \/ folder # "real" /\ Refuse

\* What opening the template path finds now.
Reached == IF folder \in {"real", "symlink"} THEN template ELSE NoFile

\* readFileNoSymlink: lstat, then, later, the read, which follows links.
InspectTemplate ==
  /\ pc = "inspect"
  /\ \/ /\ Reached.kind = "file"
        /\ Goto("read") /\ UNCHANGED <<answer, offer, text, live, deferred, files>>
     \/ Reached.kind # "file" /\ Refuse

\* The bytes that are read are the bytes whose digest is compared with the one
\* pinned for the role, and the bytes that are rendered.
ReadTemplate ==
  /\ pc = "read"
  /\ \/ /\ Reached.kind \in {"file", "symlink"} /\ Reached.content = role
        /\ text' = Reached.content
        /\ Goto("confine") /\ UNCHANGED <<answer, offer, live, deferred, files>>
     \/ Reached.kind # "file" /\ Refuse
     \/ Reached.kind = "file" /\ Reached.content # role /\ Refuse

\* checkConfined resolves the paths once more, after the read.
CheckConfined ==
  /\ pc = "confine"
  /\ \/ /\ folder # "absent" /\ Reached.kind # "absent"
        /\ Goto("load") /\ UNCHANGED <<answer, offer, text, live, deferred, files>>
     \/ (Reached.kind \in {"absent", "symlink"} \/ folder # "real") /\ Refuse

\* The loader is asked.  What it read before it failed stays in memory: no
\* bundle is returned that could be closed.
LoadBundle ==
  /\ pc = "load"
  /\ IF request.loader = "systemd" THEN Production!Answer
     ELSE answer' \in Injected /\ UNCHANGED role
  /\ live' = live \cup {Original(n) : n \in
                CASE answer'.kind = "bundle" -> answer'.names \cap Assets(role)
                  [] answer'.kind = "refused" -> answer'.left
                  [] OTHER -> {}}
  /\ IF answer'.kind = "refused"
     THEN pc' = "returned" /\ result' = "refused" ELSE pc' = "bundle" /\ UNCHANGED result
  /\ UNCHANGED <<request, offer, disk, text, deferred, files, out>>

\* isNilBundle, and the deferred Close.
CheckBundle ==
  /\ pc = "bundle"
  /\ \/ answer.kind = "nil" /\ Refuse
     \/ /\ answer.kind # "nil"
        /\ deferred' = deferred \cup {"close"}
        /\ Goto("role") /\ UNCHANGED <<answer, offer, text, live, files>>

BundleRole == IF answer.kind = "injected" THEN answer.role ELSE role

\* Mutant: the role the bundle was made for is not looked at.
CheckRoleNever ==
  /\ pc = "role" /\ Goto("config")
  /\ UNCHANGED <<answer, offer, text, live, deferred, files>>

CheckRole ==
  /\ pc = "role"
  /\ \/ BundleRole = role /\ Goto("config")
        /\ UNCHANGED <<answer, offer, text, live, deferred, files>>
     \/ BundleRole # role /\ Refuse

\* Mutant: the template is read again for the substitution.
SubstituteConfigRereading ==
  /\ pc = "config" /\ request.document = "good"
  /\ Reached.kind \in {"file", "symlink"} /\ text' = Reached.content
  /\ Goto("secrets") /\ UNCHANGED <<answer, offer, live, deferred, files>>

\* substituteConfig: every plain placeholder needs a value of the document.
SubstituteConfig ==
  /\ pc = "config"
  /\ \/ request.document = "good" /\ Goto("secrets")
        /\ UNCHANGED <<answer, offer, text, live, deferred, files>>
     \/ request.document # "good" /\ Refuse

\* substituteCredentials, then the map that owns the rendered bytes and its
\* deferred wipe.  A production scalar can still be refused here: the loader
\* accepts what looks like a placeholder.
SubstituteCredentials ==
  /\ pc = "secrets"
  /\ \/ /\ answer.kind = "injected" => answer.scalars = "good"
        /\ files' = [n \in {RenderedName(role)} |-> Config]
        /\ live' = live \cup {Config}
        /\ deferred' = deferred \cup {"files"}
        /\ Goto("collect") /\ UNCHANGED <<answer, offer, text>>
     \/ (answer.kind = "injected" => answer.scalars # "good") /\ Refuse

\* Bundle.Materialize: deep copies in the order of their names, all of them
\* covered by a deferred wipe at once.
Sorted(names) ==
  CHOOSE s \in [1 .. Cardinality(names) -> names] : Entries(s) = names
Materialize ==
  IF answer.kind = "injected" THEN answer.offer
  ELSE LET names == Sorted(answer.names \cap Assets(role))
       IN  [i \in DOMAIN names |-> [dest |-> names[i], empty |-> FALSE]]

\* Mutant: only assets that join the publication set are wiped.
CollectUnregistered ==
  /\ pc = "collect"
  /\ offer' = Materialize
  /\ live' = live \cup {Copy(i) : i \in {i \in DOMAIN offer' : ~offer'[i].empty}}
  /\ Goto(IF offer' = <<>> THEN "publish" ELSE "add")
  /\ UNCHANGED <<answer, text, deferred, files>>

Collect ==
  /\ pc = "collect"
  /\ offer' = Materialize
  /\ live' = live \cup {Copy(i) : i \in {i \in DOMAIN offer' : ~offer'[i].empty}}
  /\ deferred' = deferred \cup {"assets"}
  /\ Goto(IF offer' = <<>> THEN "publish" ELSE "add")
  /\ UNCHANGED <<answer, text, files>>

\* The loop over the assets: allowlist, empty and duplicate checks, then the
\* copy joins the publication set.
Added == Cardinality(DOMAIN files) - 1
Acceptable(a) == a.dest \in RoleAssetNames[role] /\ ~a.empty /\ a.dest \notin DOMAIN files

\* Mutant: a copy is wiped as soon as it has joined the publication set.
AddAssetWiping ==
  /\ pc = "add"
  /\ LET a == offer[Added + 1] IN
       /\ Acceptable(a)
       /\ files' = [n \in DOMAIN files \cup {a.dest} |->
                      IF n = a.dest THEN Copy(Added + 1) ELSE files[n]]
       /\ live' = live \ {Copy(Added + 1)}
       /\ Goto(IF Added + 1 = Len(offer) THEN "publish" ELSE "add")
       /\ UNCHANGED <<answer, offer, text, deferred>>

AddAsset ==
  /\ pc = "add"
  /\ LET a == offer[Added + 1] IN
       \/ /\ Acceptable(a)
          /\ files' = [n \in DOMAIN files \cup {a.dest} |->
                         IF n = a.dest THEN Copy(Added + 1) ELSE files[n]]
          /\ Goto(IF Added + 1 = Len(offer) THEN "publish" ELSE "add")
          /\ UNCHANGED <<answer, offer, text, live, deferred>>
       \/ ~Acceptable(a) /\ Refuse

\* validateOutputNames and writeTransactionWithBackend: all, nothing, or the
\* undefined bundle that its error speaks of.  The bytes are consumed in it.
Written(buffer) == IF buffer \notin live THEN "zeros"
                   ELSE IF buffer = Config THEN text ELSE "asset"
Published(names) == [n \in names |-> Written(files[n])]
Publish ==
  /\ pc = "publish"
  /\ \/ /\ DOMAIN files \subseteq OutputNames
        /\ \/ out' = Published(DOMAIN files) /\ Return("ok")
           \/ /\ \E part \in SUBSET DOMAIN files \ {{}} : out' = Published(part)
              /\ Return("undefined")
     \/ Refuse

Render ==
  \/ CheckOptions \/ CheckFolder \/ InspectTemplate \/ ReadTemplate \/ CheckConfined
  \/ LoadBundle \/ CheckBundle \/ CheckRole \/ SubstituteConfig
  \/ SubstituteCredentials \/ Collect \/ AddAsset \/ Publish

\* Somebody changes what the template's paths name.
Swap ==
  /\ pc # "returned"
  /\ swaps < MaxSwaps /\ swaps' = swaps + 1
  /\ template' \in Templates /\ folder' \in Folders
  /\ UNCHANGED <<input, answer, offer, text, pc, result, live, deferred, files, out>>

Next == Render \/ Swap
Spec == Init /\ [][Next]_vars

-----------------------------------------------------------------------------
Destinations == {offer[i].dest : i \in DOMAIN offer}

(***************************************************************************)
(* Once a bundle was handed over, no byte slice with secret material is    *)
(* left when the render returns: the bundle's own bytes, every copy, also  *)
(* one that was refused, and the rendered config are zeroed on every exit  *)
(* (the three deferred cleanups of Run).                                   *)
(***************************************************************************)
WipedOnReturn == pc = "returned" /\ answer.kind # "refused" => live = {}

(***************************************************************************)
(* No secret byte slice survives the render, whether it succeeds or fails: *)
(* the words of render.go at the deferred Close.  The code does not have   *)
(* this property (a load that stops after reading a key leaves its bytes   *)
(* to nobody), so no run checks it; WipedOnReturn is what it does have.    *)
(***************************************************************************)
WipedOnEveryReturn == pc = "returned" => live = {}

(***************************************************************************)
(* A render that reports success has published the config and every asset  *)
(* that was materialized, with the production loader all the required ones,*)
(* and what it published is the material and never a wiped buffer          *)
(* (backend contract 7: bytes are consumed inside the call).               *)
(***************************************************************************)
SuccessIsWhole ==
  /\ \A n \in DOMAIN out : out[n] # "zeros"
  /\ result = "ok" =>
       /\ DOMAIN out = {RenderedName(role)} \cup Destinations
       /\ request.loader = "systemd" => Entries(RequiredAssets[role]) \subseteq DOMAIN out

(***************************************************************************)
(* Whatever bundle a loader hands over, only material of the requested role*)
(* reaches the output directory, under the role's own names (Run: role     *)
(* check and allowlist of its own).                                        *)
(***************************************************************************)
OwnMaterialOnly ==
  DOMAIN out # {} =>
    /\ BundleRole = role
    /\ DOMAIN out \subseteq {RenderedName(role)} \cup Assets(role)

(***************************************************************************)
(* However the template's paths are swapped between the checks, and       *)
(* whatever assets a bundle brings along: the config that is published was *)
(* rendered from the bytes pinned for the requested role (Run compares the *)
(* digest of the bytes it holds and renders these; no asset takes the      *)
(* config's place).                                                        *)
(***************************************************************************)
RendersPinnedTemplate ==
  RenderedName(role) \in DOMAIN out => out[RenderedName(role)] = role

(***************************************************************************)
(* The three independent allowlists agree: no asset the production loader  *)
(* delivers is refused by the role's list in render.go or by the order in  *)
(* writer.go.                                                              *)
(***************************************************************************)
AllowlistsAgree ==
  request.loader = "systemd" =>
    /\ pc = "add" => Acceptable(offer[Added + 1])
    /\ DOMAIN files \subseteq OutputNames

(***************************************************************************)
(* Together: what a render publishes is whole, and no allowlist keeps the  *)
(* production loader's material out of it.                                 *)
(***************************************************************************)
OutputIsWhole == TypeOK /\ SuccessIsWhole /\ AllowlistsAgree
=============================================================================
