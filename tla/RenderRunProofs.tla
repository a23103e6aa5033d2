--------------------------- MODULE RenderRunProofs ---------------------------
(***************************************************************************)
(* Proofs about a render, for every loader and every bundle it may hand    *)
(* over, and however often its template is swapped.                        *)
(***************************************************************************)
EXTENDS RenderRun, FiniteSetTheorems, TLAPS

\* Steps before the loader is asked, and steps with a bundle whose Close is
\* deferred.
Unloaded == {"options", "folder", "inspect", "read", "confine", "load"}
Closing  == {"role", "config", "secrets", "collect", "add", "publish"}
Owning   == {"collect", "add", "publish"}

(***************************************************************************)
(* The strengthening: as long as the render goes on, every buffer that     *)
(* holds secret bytes is covered by a cleanup that was registered.  Only   *)
(* between the loader's answer and the deferred Close it is not, and there *)
(* the one early return is taken with nothing loaded.                      *)
(***************************************************************************)
CoverInv ==
  /\ pc \in Unloaded => live = {}
  /\ pc = "bundle" => /\ live \subseteq Buffers(role)
                      /\ answer.kind = "nil" => live = {}
  /\ pc \in Closing => "close" \in deferred /\ live \subseteq Wiped
  /\ pc = "returned" => (answer.kind # "refused" => live = {})

\* From which template the config is rendered, and where it is kept until it
\* is published.
ConfigInv ==
  /\ pc \in {"confine", "load", "bundle"} \cup Closing => text = role
  /\ pc \in Owning => /\ RenderedName(role) \in DOMAIN files
                      /\ files[RenderedName(role)] = Config /\ Config \in live
  /\ RendersPinnedTemplate

\* What is published, for whom, and under which names.
MaterialInv ==
  /\ role \in Roles
  /\ pc \in Unloaded \cup {"bundle"} \cup Closing \cup {"returned"}
  /\ pc \in Closing \ {"role"} => BundleRole = role
  /\ pc # "returned" => out = NoFiles
  /\ pc \in {"role", "config", "secrets", "collect"} => "assets" \notin deferred
  /\ pc \in Unloaded \cup {"bundle"} => deferred = {}
  /\ OwnMaterialOnly
  /\ pc \notin Owning => files = NoFiles
  /\ DOMAIN files \subseteq {RenderedName(role)} \cup Assets(role)

RenderInv == CoverInv /\ MaterialInv /\ ConfigInv

-----------------------------------------------------------------------------
LEMMA InitRenderInv ==
  ASSUME Init PROVE RenderInv
BY DEF Init, RenderInv, CoverInv, MaterialInv, ConfigInv, OwnMaterialOnly, RendersPinnedTemplate,
       Unloaded, Closing, Owning, NoFiles

\* Whatever returns wipes what is covered, and leaves the answer alone.
LEMMA ReturnKeeps ==
  ASSUME RenderInv, NEW kind, Return(kind), pc # "returned",
         pc = "bundle" => answer.kind = "nil"
  PROVE  CoverInv'
<1>1. live \subseteq Wiped \/ live = {}
  BY DEF RenderInv, CoverInv, MaterialInv
<1>2. live' = {} /\ pc' = "returned" /\ answer' = answer
  BY <1>1 DEF Return
<1> QED  BY <1>2 DEF CoverInv, Unloaded, Closing

LEMMA RefuseKeeps ==
  ASSUME RenderInv, Refuse, pc # "returned", pc = "bundle" => answer.kind = "nil"
  PROVE  RenderInv'
<1>1. CoverInv'  BY ReturnKeeps DEF Refuse
<1>2. MaterialInv'
  BY DEF Refuse, Return, RenderInv, MaterialInv, OwnMaterialOnly, BundleRole, Unloaded, Closing,
         Owning, NoFiles, input
<1>3. ConfigInv'
  BY DEF Refuse, Return, RenderInv, ConfigInv, RendersPinnedTemplate, RenderedName, Unloaded,
         Closing, Owning, input
<1> QED  BY <1>1, <1>2, <1>3 DEF RenderInv

\* A step that only goes on to another one of the same kind.
LEMMA GoOn ==
  ASSUME RenderInv, NEW step, Goto(step),
         UNCHANGED <<answer, offer, live, deferred, files>>,
         \/ pc \in Unloaded /\ step \in Unloaded
         \/ pc = "config" /\ step = "secrets" /\ UNCHANGED text
         \/ pc = "role" /\ step = "config" /\ UNCHANGED text /\ BundleRole = role,
         step \in {"confine", "load"} => text' = role
  PROVE  RenderInv'
<1>1. Wiped' = Wiped /\ BundleRole' = BundleRole
  BY DEF Goto, Wiped, BundleRole, Buffers, input
<1>2. CoverInv'
  BY <1>1 DEF Goto, RenderInv, CoverInv, Unloaded, Closing, input
<1>3. MaterialInv'
  BY <1>1 DEF Goto, RenderInv, MaterialInv, OwnMaterialOnly, NoFiles, Unloaded, Closing, Owning, input
<1>4. ConfigInv'
  BY DEF Goto, RenderInv, ConfigInv, RendersPinnedTemplate, RenderedName, Unloaded, Closing,
         Owning, input
<1> QED  BY <1>2, <1>3, <1>4 DEF RenderInv

\* The names run accepts for a role are names of the loader's allowlist.
LEMMA RoleNamesAreAssets ==
  ASSUME NEW r \in Roles PROVE RoleAssetNames[r] \subseteq Assets(r)
<1>1. CASE r = "gateway"
  <2>1. {"gateway.crt", "gateway.key"} \subseteq Entries(RequiredAssets[r])
    BY <1>1 DEF RequiredAssets, Entries
  <2>2. {"gateway-client.crt", "gateway-client.key"} \subseteq Optional(r)
    BY <1>1 DEF OptionalAssets, Optional, Entries
  <2> QED  BY <1>1, <2>1, <2>2 DEF RoleAssetNames, Assets
<1>2. CASE r = "egress"
  <2>1. {"egress.crt", "egress.key"} \subseteq Entries(RequiredAssets[r])
    BY <1>2 DEF RequiredAssets, Entries
  <2>2. {"gateway-client-ca.crt"} \subseteq Optional(r)
    BY <1>2 DEF OptionalAssets, Optional, Entries
  <2> QED  BY <1>2, <2>1, <2>2 DEF RoleAssetNames, Assets
<1> QED  BY <1>1, <1>2 DEF Roles

\* The steps before a bundle exists, and those that only check it.
LEMMA ChecksKeep ==
  ASSUME RenderInv,
         \/ CheckOptions \/ CheckFolder \/ InspectTemplate \/ ReadTemplate \/ CheckConfined
         \/ CheckRole \/ SubstituteConfig
  PROVE  RenderInv'
<1>1. CASE CheckOptions
  BY <1>1, GoOn, RefuseKeeps DEF CheckOptions, Unloaded
<1>2. CASE CheckFolder
  BY <1>2, GoOn, RefuseKeeps DEF CheckFolder, Unloaded
<1>3. CASE InspectTemplate
  BY <1>3, GoOn, RefuseKeeps DEF InspectTemplate, Unloaded
<1>4. CASE ReadTemplate
  BY <1>4, GoOn, RefuseKeeps DEF ReadTemplate, Unloaded
<1>5. CASE CheckConfined
  <2>1. text = role  BY <1>5 DEF CheckConfined, RenderInv, ConfigInv
  <2> QED  BY <1>5, <2>1, GoOn, RefuseKeeps DEF CheckConfined, Unloaded
<1>6. CASE CheckRole
  BY <1>6, GoOn, RefuseKeeps DEF CheckRole
<1>7. CASE SubstituteConfig
  BY <1>7, GoOn, RefuseKeeps DEF SubstituteConfig
<1> QED  BY <1>1, <1>2, <1>3, <1>4, <1>5, <1>6, <1>7

\* The loader's answer: what it read and hands over is the bundle's.
LEMMA LoadBundleKeeps ==
  ASSUME RenderInv, LoadBundle PROVE RenderInv'
<1>1. live = {} /\ text = role /\ out = NoFiles /\ files = NoFiles /\ deferred = {}
  BY DEF LoadBundle, RenderInv, CoverInv, MaterialInv, ConfigInv, Unloaded, Owning
<1>2. role' = role /\ role \in Roles
  BY DEF LoadBundle, Production!Answer, RenderInv, MaterialInv
<1>3. answer'.kind # "refused" => live' \subseteq Buffers(role)
  BY <1>1 DEF LoadBundle, Buffers
<1>4. answer'.kind = "nil" => live' = {}
  BY <1>1 DEF LoadBundle
<1>5. CASE answer'.kind = "refused"
  <2>1. pc' = "returned"  BY <1>5 DEF LoadBundle
  <2> QED
    BY <1>1, <1>2, <1>5, <2>1
    DEF LoadBundle, RenderInv, CoverInv, MaterialInv, ConfigInv, OwnMaterialOnly,
        RendersPinnedTemplate, NoFiles, Unloaded, Closing, Owning
<1>6. CASE answer'.kind # "refused"
  <2>1. pc' = "bundle"  BY <1>6 DEF LoadBundle
  <2>2. Buffers(role)' = Buffers(role)  BY <1>2 DEF Buffers
  <2> QED
    BY <1>1, <1>2, <1>3, <1>4, <1>6, <2>1, <2>2
    DEF LoadBundle, RenderInv, CoverInv, MaterialInv, ConfigInv, OwnMaterialOnly,
        RendersPinnedTemplate, NoFiles, Unloaded, Closing, Owning
<1> QED  BY <1>5, <1>6

\* The Close that is registered at once covers all the bundle holds.
LEMMA CheckBundleKeeps ==
  ASSUME RenderInv, CheckBundle PROVE RenderInv'
<1>1. CASE answer.kind = "nil" /\ Refuse
  BY <1>1, RefuseKeeps DEF CheckBundle
<1>2. CASE /\ deferred' = deferred \cup {"close"} /\ Goto("role")
           /\ UNCHANGED <<answer, offer, text, live, files>>
  <2>1. live \subseteq Buffers(role) /\ deferred = {}
    BY DEF CheckBundle, RenderInv, CoverInv, MaterialInv
  <2>2. live' \subseteq Wiped'
    BY <1>2, <2>1 DEF Wiped, Buffers, Goto, input
  <2>3. CoverInv'
    BY <1>2, <2>2 DEF Goto, CoverInv, Unloaded, Closing
  <2>4. MaterialInv'
    BY <1>2, <2>1 DEF CheckBundle, Goto, RenderInv, MaterialInv, OwnMaterialOnly, NoFiles, Unloaded,
                      Closing, Owning, input
  <2>5. ConfigInv'
    BY <1>2 DEF CheckBundle, Goto, RenderInv, ConfigInv, RendersPinnedTemplate, RenderedName,
                Closing, Owning, input
  <2> QED  BY <2>3, <2>4, <2>5 DEF RenderInv
<1> QED  BY <1>1, <1>2 DEF CheckBundle

\* The rendered bytes join a map whose wipe is deferred.
LEMMA SubstituteCredentialsKeeps ==
  ASSUME RenderInv, SubstituteCredentials PROVE RenderInv'
<1>1. CASE Refuse
  BY <1>1, RefuseKeeps DEF SubstituteCredentials
<1>2. CASE /\ files' = [n \in {RenderedName(role)} |-> Config]
           /\ live' = live \cup {Config}
           /\ deferred' = deferred \cup {"files"}
           /\ Goto("collect") /\ UNCHANGED <<answer, offer, text>>
  <2>1. /\ live \subseteq Wiped /\ "close" \in deferred /\ "assets" \notin deferred
        /\ files = NoFiles
    BY DEF SubstituteCredentials, RenderInv, CoverInv, MaterialInv, Closing, Owning
  <2>2. Wiped \subseteq Buffers(role)
    BY <2>1 DEF Wiped, NoFiles
  <2>3. Buffers(role) \cup {Config} \subseteq Wiped'
    BY <1>2, <2>1 DEF Wiped, Buffers, Goto, input
  <2>4. CoverInv'
    BY <1>2, <2>1, <2>2, <2>3 DEF Goto, CoverInv, Unloaded, Closing
  <2>5. MaterialInv'
    BY <1>2, <2>1 DEF SubstituteCredentials, Goto, RenderInv, MaterialInv, OwnMaterialOnly, NoFiles,
                      BundleRole, RenderedName, Unloaded, Closing, Owning, input
  <2>6. ConfigInv'
    <3>1. text' = role' /\ role' = role /\ out' = out /\ pc' = "collect"
      BY <1>2 DEF SubstituteCredentials, Goto, RenderInv, ConfigInv, Closing, input
    <3>2. RenderedName(role)' = RenderedName(role)  BY <3>1 DEF RenderedName
    <3> QED  BY <1>2, <3>1, <3>2 DEF RenderInv, ConfigInv, RendersPinnedTemplate
  <2> QED  BY <2>4, <2>5, <2>6 DEF RenderInv
<1> QED  BY <1>1, <1>2 DEF SubstituteCredentials

\* Materialize's copies are covered by the wipe registered with them.
LEMMA CollectKeeps ==
  ASSUME RenderInv, Collect PROVE RenderInv'
<1>1. live \subseteq Wiped /\ "close" \in deferred /\ "assets" \notin deferred
  BY DEF Collect, RenderInv, CoverInv, MaterialInv, Closing
<1>2. Wiped \subseteq Wiped'
  BY <1>1 DEF Wiped, Buffers, Collect, Goto, input
<1>3. {Copy(i) : i \in DOMAIN offer'} \subseteq Wiped'
  BY DEF Wiped, Copy, Collect
<1>4. live' \subseteq Wiped'
  BY <1>1, <1>2, <1>3 DEF Collect
<1>5. pc' \in {"add", "publish"}
  BY DEF Collect, Goto
<1>6. CoverInv'
  BY <1>1, <1>4, <1>5 DEF Collect, Goto, CoverInv, Unloaded, Closing
<1>7. MaterialInv'
  BY <1>5 DEF Collect, Goto, RenderInv, MaterialInv, OwnMaterialOnly, NoFiles, BundleRole,
              Unloaded, Closing, Owning, input
<1>8. ConfigInv'
  BY <1>5 DEF Collect, Goto, RenderInv, ConfigInv, RendersPinnedTemplate, RenderedName, Closing,
              Owning, input
<1> QED  BY <1>6, <1>7, <1>8 DEF RenderInv

\* An asset joins the publication set under a new name, so nothing leaves the
\* cover; one that is refused is still in it.
LEMMA AddAssetKeeps ==
  ASSUME RenderInv, AddAsset PROVE RenderInv'
<1> DEFINE a == offer[Added + 1]
<1>1. CASE Refuse
  BY <1>1, RefuseKeeps DEF AddAsset
<1>2. CASE /\ Acceptable(a)
           /\ files' = [n \in DOMAIN files \cup {a.dest} |->
                           IF n = a.dest THEN Copy(Added + 1) ELSE files[n]]
           /\ Goto(IF Added + 1 = Len(offer) THEN "publish" ELSE "add")
           /\ UNCHANGED <<answer, offer, text, live, deferred>>
  <2>1. live \subseteq Wiped /\ "close" \in deferred /\ role \in Roles
    BY DEF AddAsset, RenderInv, CoverInv, MaterialInv, Closing
  <2>2. \A n \in DOMAIN files : n \in DOMAIN files' /\ files'[n] = files[n]
    BY <1>2 DEF Acceptable
  <2>3. Wiped \subseteq Wiped'
    BY <1>2, <2>2 DEF Wiped, Buffers, Goto, input
  <2>4. pc' \in {"add", "publish"}
    BY <1>2 DEF Goto
  <2>5. CoverInv'
    BY <1>2, <2>1, <2>3, <2>4 DEF Goto, CoverInv, Unloaded, Closing
  <2>6. a.dest \in Assets(role)
    BY <1>2, <2>1, RoleNamesAreAssets DEF Acceptable
  <2>7. MaterialInv'
    BY <1>2, <2>4, <2>6 DEF AddAsset, Goto, RenderInv, MaterialInv, OwnMaterialOnly, NoFiles, BundleRole,
                Unloaded, Closing, Owning, input
  <2>8. ConfigInv'
    <3>1. /\ text' = role' /\ UNCHANGED <<role, out, live>>
          /\ RenderedName(role) \in DOMAIN files /\ files[RenderedName(role)] = Config
          /\ Config \in live
      BY <1>2 DEF AddAsset, Goto, RenderInv, ConfigInv, Closing, Owning, input
    <3>2. RenderedName(role)' = RenderedName(role)  BY <3>1 DEF RenderedName
    <3> QED  BY <2>2, <3>1, <3>2 DEF RenderInv, ConfigInv, RendersPinnedTemplate
  <2> QED  BY <2>5, <2>7, <2>8 DEF RenderInv
<1> QED  BY <1>1, <1>2 DEF AddAsset

\* Only names of the publication set are published, and then all is wiped.
LEMMA PublishKeeps ==
  ASSUME RenderInv, Publish PROVE RenderInv'
<1>1. CASE Refuse
  BY <1>1, RefuseKeeps DEF Publish
<1>2. ASSUME NEW kind, Return(kind), NEW part \in SUBSET DOMAIN files, out' = Published(part)
      PROVE  RenderInv'
  <2>1. CoverInv'  BY <1>2, ReturnKeeps DEF Publish
  <2>2. MaterialInv'
    BY <1>2 DEF Published, Publish, Return, RenderInv, MaterialInv, OwnMaterialOnly, NoFiles,
                BundleRole, Unloaded, Closing, Owning, input
  <2>3. ConfigInv'
    <3>1. /\ text = role /\ role' = role /\ pc' = "returned"
          /\ files[RenderedName(role)] = Config /\ Config \in live
      BY <1>2 DEF Publish, Return, RenderInv, ConfigInv, Closing, Owning, input
    <3>2. RenderedName(role)' = RenderedName(role)  BY <3>1 DEF RenderedName
    <3>3. Written(Config) = role  BY <3>1 DEF Written
    <3>4. DOMAIN out' = part /\ \A n \in part : out'[n] = Written(files[n])
      BY <1>2 DEF Published
    <3>5. RendersPinnedTemplate'
      BY <3>1, <3>2, <3>3, <3>4 DEF RendersPinnedTemplate
    <3> QED  BY <3>1, <3>5 DEF ConfigInv, Closing, Owning
  <2> QED  BY <2>1, <2>2, <2>3 DEF RenderInv
<1>3. CASE out' = Published(DOMAIN files) /\ Return("ok")
  BY <1>2, <1>3
<1>4. CASE /\ \E part \in SUBSET DOMAIN files \ {{}} : out' = Published(part)
           /\ Return("undefined")
  BY <1>2, <1>4
<1> QED  BY <1>1, <1>3, <1>4 DEF Publish

\* Every step keeps the strengthening.
LEMMA NextKeeps ==
  ASSUME RenderInv, [Next]_vars PROVE RenderInv'
<1>1. CASE Swap
  BY <1>1 DEF Swap, RenderInv, CoverInv, MaterialInv, ConfigInv, OwnMaterialOnly,
              RendersPinnedTemplate, RenderedName, BundleRole, Wiped, Buffers,
              input, Unloaded, Closing, Owning
<1>2. CASE UNCHANGED vars
  BY <1>2 DEF vars, RenderInv, CoverInv, MaterialInv, ConfigInv, OwnMaterialOnly,
              RendersPinnedTemplate, RenderedName, BundleRole, Wiped, Buffers
<1> QED
  BY <1>1, <1>2, ChecksKeep, LoadBundleKeeps, CheckBundleKeeps, SubstituteCredentialsKeeps,
     CollectKeeps, AddAssetKeeps, PublishKeeps DEF Next, Render

-----------------------------------------------------------------------------
(***************************************************************************)
(* Once a bundle was handed over, no secret bytes are left when Run        *)
(* returns, whatever the bundle was and wherever the render stopped: the   *)
(* deferred Close and the two deferred wipes together cover every buffer.  *)
(***************************************************************************)
THEOREM NothingSecretIsLeft == Spec => []WipedOnReturn
<1>1. Init => RenderInv  BY InitRenderInv
<1>2. RenderInv /\ [Next]_vars => RenderInv'  BY NextKeeps
<1>3. RenderInv => WipedOnReturn  BY DEF RenderInv, CoverInv, WipedOnReturn
<1> QED  BY <1>1, <1>2, <1>3, PTL DEF Spec

(***************************************************************************)
(* However often the template's paths are swapped, and whatever bundle and *)
(* assets a loader hands over: a config that is published was rendered from*)
(* the bytes pinned for the role that was asked for.                       *)
(***************************************************************************)
THEOREM OnlyThePinnedTemplate == Spec => []RendersPinnedTemplate
<1>1. Init => RenderInv  BY InitRenderInv
<1>2. RenderInv /\ [Next]_vars => RenderInv'  BY NextKeeps
<1>3. RenderInv => RendersPinnedTemplate
  BY DEF RenderInv, ConfigInv
<1> QED  BY <1>1, <1>2, <1>3, PTL DEF Spec

(***************************************************************************)
(* Whatever a loader hands over, only the role's own names are published,  *)
(* and only from a bundle of that role.                                    *)
(***************************************************************************)
THEOREM OnlyOwnMaterial == Spec => []OwnMaterialOnly
<1>1. Init => RenderInv  BY InitRenderInv
<1>2. RenderInv /\ [Next]_vars => RenderInv'  BY NextKeeps
<1>3. RenderInv => OwnMaterialOnly  BY DEF RenderInv, MaterialInv
<1> QED  BY <1>1, <1>2, <1>3, PTL DEF Spec

-----------------------------------------------------------------------------
(***************************************************************************)
(* What is published.  The publication set is the config and the first     *)
(* assets of the offer, in its order, so that a set of one more than the   *)
(* offer's length is all of it; every buffer in it still has its bytes; and*)
(* what the production loader offers is distinct, not empty and allowed.   *)
(***************************************************************************)
AnswerShape ==
  /\ request \in [options : BOOLEAN, document : {"good", "refused", "incomplete"},
                  loader : {"systemd", "injected"}]
  /\ pc \in Unloaded => answer = Production!Waiting
  /\ pc = "bundle" => answer.kind \in {"bundle", "injected", "nil"}
  /\ pc \in Closing => answer.kind \in {"bundle", "injected"}
  /\ pc \in {"bundle"} \cup Closing =>
       /\ answer.kind = "injected" => answer.offer \in Offers
       /\ answer.kind = "bundle" => Entries(RequiredAssets[role]) \subseteq answer.names
       /\ request.loader = "systemd" => answer.kind = "bundle"

Agreed ==
  /\ \A i \in DOMAIN offer : ~offer[i].empty /\ offer[i].dest \in RoleAssetNames[role]
  /\ \A i, j \in DOMAIN offer : offer[i].dest = offer[j].dest => i = j
  /\ Entries(RequiredAssets[role]) \subseteq Destinations
OfferInv ==
  /\ Len(offer) \in Nat /\ DOMAIN offer = 1 .. Len(offer)
  /\ pc \notin {"add", "publish", "returned"} => offer = <<>>
  /\ pc \in {"add", "publish"} =>
       /\ \A i \in DOMAIN offer : ~offer[i].empty => Copy(i) \in live
       /\ request.loader = "systemd" => Agreed

FilesInv ==
  pc \in Owning =>
    /\ IsFiniteSet(DOMAIN files) /\ Added \in 0 .. Len(offer)
    /\ DOMAIN files = {RenderedName(role)} \cup {offer[i].dest : i \in 1 .. Added}
    /\ \A n \in DOMAIN files : files[n] \in live
    /\ pc = "add" => Added < Len(offer)
    /\ pc = "publish" => Added = Len(offer)

WholeInv ==
  /\ TypeOK /\ AnswerShape /\ OfferInv /\ FilesInv /\ SuccessIsWhole
  /\ pc # "returned" => result = "none"

-----------------------------------------------------------------------------
\* The allowlist of the render is the loader's, both ways, and the writer
\* knows all of its names and the config's, which is none of them.
LEMMA SameAllowlists ==
  ASSUME NEW r \in Roles
  PROVE  /\ Assets(r) = RoleAssetNames[r] /\ IsFiniteSet(Assets(r))
         /\ Assets(r) \cup {RenderedName(r)} \subseteq OutputNames
         /\ RenderedName(r) \notin Assets(r)
<1>1. CASE r = "gateway"
  <2>1. Entries(RequiredAssets[r]) \subseteq {"gateway.crt", "gateway.key"}
    BY <1>1 DEF RequiredAssets, Entries
  <2>2. Optional(r) \subseteq {"gateway-client.crt", "gateway-client.key"}
    BY <1>1 DEF OptionalAssets, Optional, Entries
  <2>3. Assets(r) = {"gateway.crt", "gateway.key", "gateway-client.crt", "gateway-client.key"}
    BY <1>1, <2>1, <2>2, RoleNamesAreAssets DEF RoleAssetNames, Assets
  <2>4. IsFiniteSet((({"gateway.crt"} \cup {"gateway.key"}) \cup {"gateway-client.crt"})
                      \cup {"gateway-client.key"})
    <3>1. IsFiniteSet(({"gateway.crt"} \cup {"gateway.key"}) \cup {"gateway-client.crt"})
      BY FS_Singleton, FS_AddElement
    <3> QED  BY <3>1, FS_AddElement
  <2>5. IsFiniteSet(Assets(r))
    <3>1. Assets(r) = (({"gateway.crt"} \cup {"gateway.key"}) \cup {"gateway-client.crt"})
                        \cup {"gateway-client.key"}
      BY <2>3
    <3> QED  BY <2>4, <3>1
  <2>6. RenderedName(r) = "gateway-rendered.yaml"  BY <1>1 DEF RenderedName
  <2>7. Assets(r) = RoleAssetNames[r]  BY <1>1, <2>3 DEF RoleAssetNames
  <2>8. Assets(r) \cup {RenderedName(r)} \subseteq OutputNames  BY <2>3, <2>6 DEF OutputNames
  <2>9. RenderedName(r) \notin Assets(r)  BY <2>3, <2>6
  <2> QED  BY <2>5, <2>7, <2>8, <2>9
<1>2. CASE r = "egress"
  <2>1. Entries(RequiredAssets[r]) \subseteq {"egress.crt", "egress.key"}
    BY <1>2 DEF RequiredAssets, Entries
  <2>2. Optional(r) \subseteq {"gateway-client-ca.crt"}
    BY <1>2 DEF OptionalAssets, Optional, Entries
  <2>3. Assets(r) = {"egress.crt", "egress.key", "gateway-client-ca.crt"}
    BY <1>2, <2>1, <2>2, RoleNamesAreAssets DEF RoleAssetNames, Assets
  <2>4. IsFiniteSet(({"egress.crt"} \cup {"egress.key"}) \cup {"gateway-client-ca.crt"})
    BY FS_Singleton, FS_AddElement
  <2>5. IsFiniteSet(Assets(r))
    <3>1. Assets(r) = ({"egress.crt"} \cup {"egress.key"}) \cup {"gateway-client-ca.crt"}
      BY <2>3
    <3> QED  BY <2>4, <3>1
  <2>6. RenderedName(r) = "egress-rendered.yaml"  BY <1>2 DEF RenderedName
  <2>7. Assets(r) = RoleAssetNames[r]  BY <1>2, <2>3 DEF RoleAssetNames
  <2>8. Assets(r) \cup {RenderedName(r)} \subseteq OutputNames  BY <2>3, <2>6 DEF OutputNames
  <2>9. RenderedName(r) \notin Assets(r)  BY <2>3, <2>6
  <2> QED  BY <2>5, <2>7, <2>8, <2>9
<1> QED  BY <1>1, <1>2 DEF Roles

\* A finite set of names can be put in order, each name once.
LEMMA SortedIsAnOrder ==
  ASSUME NEW names, IsFiniteSet(names)
  PROVE  /\ Cardinality(names) \in Nat
         /\ Sorted(names) \in [1 .. Cardinality(names) -> names]
         /\ \A n \in names : \E i \in 1 .. Cardinality(names) : Sorted(names)[i] = n
         /\ \A i, j \in 1 .. Cardinality(names) : Sorted(names)[i] = Sorted(names)[j] => i = j
<1> DEFINE k == Cardinality(names)
<1>1. k \in Nat /\ ExistsBijection(1 .. k, names)
  BY FS_CardinalityType
<1>2. ASSUME NEW s \in [1 .. k -> names]
      PROVE  Entries(s) = {s[i] : i \in 1 .. k}
  BY <1>1 DEF Entries
<1>3. \E s \in [1 .. k -> names] : Entries(s) = names
  <2>1. PICK s \in Bijection(1 .. k, names) : TRUE  BY <1>1 DEF ExistsBijection
  <2>2. s \in [1 .. k -> names] /\ \A n \in names : \E i \in 1 .. k : s[i] = n
    BY <2>1 DEF Bijection, Surjection, Injection
  <2>3. {s[i] : i \in 1 .. k} = names  BY <2>2
  <2> QED  BY <1>2, <2>2, <2>3
<1>4. Sorted(names) \in [1 .. k -> names] /\ Entries(Sorted(names)) = names
  BY <1>3 DEF Sorted
<1>5. \A n \in names : \E i \in 1 .. k : Sorted(names)[i] = n
  BY <1>2, <1>4
<1>6. Sorted(names) \in Surjection(1 .. k, names)
  BY <1>4, <1>5 DEF Surjection
<1>7. IsFiniteSet(1 .. k) /\ Cardinality(1 .. k) = k
  BY <1>1, FS_Interval
<1>8. Sorted(names) \in Injection(1 .. k, names)
  BY <1>6, <1>7, FS_SurjSameCardinalityImpliesInj
<1> HIDE DEF k
<1>9. \A i, j \in 1 .. k : Sorted(names)[i] = Sorted(names)[j] => i = j
  BY <1>4, <1>8 DEF Injection, IsInjective
<1> QED  BY <1>1, <1>4, <1>5, <1>9 DEF k

\* What the production loader's bundle materializes agrees with the render's
\* allowlist, and every required asset is there.
LEMMA MaterializeIsSound ==
  ASSUME role \in Roles, answer.kind \in {"bundle", "injected"},
         answer.kind = "injected" => answer.offer \in Offers,
         answer.kind = "bundle" => Entries(RequiredAssets[role]) \subseteq answer.names
  PROVE  /\ Len(Materialize) \in Nat /\ DOMAIN Materialize = 1 .. Len(Materialize)
         /\ answer.kind = "bundle" =>
              /\ \A i \in DOMAIN Materialize :
                   ~Materialize[i].empty /\ Materialize[i].dest \in RoleAssetNames[role]
              /\ \A i, j \in DOMAIN Materialize :
                   Materialize[i].dest = Materialize[j].dest => i = j
              /\ Entries(RequiredAssets[role]) \subseteq
                   {Materialize[i].dest : i \in DOMAIN Materialize}
<1>1. CASE answer.kind = "injected"
  BY <1>1, OffersAssumption DEF Materialize
<1>2. CASE answer.kind = "bundle"
  <2> DEFINE names == answer.names \cap Assets(role)
             k == Cardinality(names)
  <2>1. /\ Assets(role) = RoleAssetNames[role] /\ IsFiniteSet(names)
        /\ Entries(RequiredAssets[role]) \subseteq names
    BY <1>2, SameAllowlists, FS_Subset DEF Assets
  <2>2. /\ k \in Nat /\ Sorted(names) \in [1 .. k -> names]
        /\ \A n \in names : \E i \in 1 .. k : Sorted(names)[i] = n
        /\ \A i, j \in 1 .. k : Sorted(names)[i] = Sorted(names)[j] => i = j
    BY <2>1, SortedIsAnOrder
  <2>3. Materialize = [i \in 1 .. k |-> [dest |-> Sorted(names)[i], empty |-> FALSE]]
    BY <1>2, <2>2 DEF Materialize
  <2> HIDE DEF k
  <2>4. Materialize \in Seq({[dest |-> n, empty |-> FALSE] : n \in names})
    <3> DEFINE S == {[dest |-> n, empty |-> FALSE] : n \in names}
    <3>1. \A i \in 1 .. k : [dest |-> Sorted(names)[i], empty |-> FALSE] \in S
      BY <2>2
    <3> HIDE DEF S
    <3>2. Materialize \in [1 .. k -> S]  BY <2>3, <3>1
    <3>3. Materialize \in Seq(S)  BY <2>2, <3>2
    <3> QED  BY <3>3 DEF S
  <2>5. Len(Materialize) = k
    BY <2>2, <2>3, <2>4
  <2>6. \A i \in 1 .. k : Materialize[i].dest = Sorted(names)[i] /\ ~Materialize[i].empty
    BY <2>3
  <2>7. DOMAIN Materialize = 1 .. k  BY <2>3
  <2>8. names \subseteq RoleAssetNames[role]  BY <2>1
  <2> HIDE DEF names
  <2>9. \A i \in 1 .. k : Materialize[i].dest \in RoleAssetNames[role]
    BY <2>2, <2>6, <2>8
  <2>10. \A i, j \in 1 .. k : Materialize[i].dest = Materialize[j].dest => i = j
    BY <2>2, <2>6
  <2>11. Entries(RequiredAssets[role]) \subseteq {Materialize[i].dest : i \in 1 .. k}
    <3> SUFFICES ASSUME NEW n \in Entries(RequiredAssets[role])
                 PROVE  \E i \in 1 .. k : n = Materialize[i].dest
      OBVIOUS
    <3>1. n \in names  BY <2>1
    <3>2. PICK i \in 1 .. k : Sorted(names)[i] = n  BY <2>2, <3>1
    <3> QED  BY <2>6, <3>2
  <2> QED  BY <1>2, <2>2, <2>5, <2>6, <2>7, <2>9, <2>10, <2>11
<1> QED  BY <1>1, <1>2

-----------------------------------------------------------------------------
\* At first nothing is offered and nothing published.
LEMMA InitWhole ==
  ASSUME Init PROVE WholeInv
<1>1. TypeOK
  BY OffersAssumption DEF Init, TypeOK, Steps
<1>2. AnswerShape /\ FilesInv
  BY DEF Init, AnswerShape, FilesInv, Unloaded, Closing, Owning
<1>3. OfferInv /\ SuccessIsWhole
  BY DEF Init, OfferInv, SuccessIsWhole, NoFiles
<1> QED  BY <1>1, <1>2, <1>3 DEF Init, WholeInv

\* A return with an error publishes nothing.
LEMMA RefuseWhole ==
  ASSUME WholeInv, Refuse, pc # "returned" PROVE WholeInv'
<1>1. /\ pc' = "returned" /\ result' = "refused" /\ live' = live \ Wiped /\ deferred' = {}
      /\ UNCHANGED <<role, request, answer, offer, template, folder, swaps, text, out>>
  BY DEF Refuse, Return, input, disk
<1>2. TypeOK'
  BY <1>1 DEF WholeInv, TypeOK, Steps, Buffers
<1>3. AnswerShape' /\ FilesInv' /\ OfferInv'
  BY <1>1 DEF WholeInv, AnswerShape, FilesInv, OfferInv, Unloaded, Closing, Owning
<1>4. SuccessIsWhole'
  BY <1>1 DEF WholeInv, SuccessIsWhole
<1> QED  BY <1>1, <1>2, <1>3, <1>4 DEF WholeInv

\* A check that passes leaves the answer, the offer and the buffers alone.
LEMMA PassWhole ==
  ASSUME WholeInv, NEW step, Goto(step), UNCHANGED <<answer, offer, live, files>>,
         \/ pc \in Unloaded /\ step \in Unloaded
         \/ pc = "bundle" /\ step = "role" /\ answer.kind # "nil"
         \/ pc = "role" /\ step = "config"
         \/ pc = "config" /\ step = "secrets",
         text' \in {"none"} \cup Contents, deferred' \subseteq {"close", "files", "assets"}
  PROVE  WholeInv'
<1>1. /\ pc' = step /\ pc # "returned"
      /\ UNCHANGED <<role, request, answer, offer, live, files, template, folder, swaps, result, out>>
  BY DEF Goto, input, disk, Unloaded
<1>2. TypeOK'
  BY <1>1 DEF WholeInv, TypeOK, Steps, Buffers, Unloaded
<1>3. AnswerShape'
  BY <1>1 DEF WholeInv, AnswerShape, Unloaded, Closing
<1>4. FilesInv' /\ OfferInv'
  BY <1>1 DEF WholeInv, FilesInv, OfferInv, Unloaded, Owning
<1>5. SuccessIsWhole'
  BY <1>1 DEF WholeInv, SuccessIsWhole, Destinations
<1> QED  BY <1>1, <1>2, <1>3, <1>4, <1>5 DEF WholeInv

\* The checks, each of which passes or refuses.
LEMMA ChecksWhole ==
  ASSUME WholeInv,
         \/ CheckOptions \/ CheckFolder \/ InspectTemplate \/ ReadTemplate \/ CheckConfined
         \/ CheckBundle \/ CheckRole \/ SubstituteConfig
  PROVE  WholeInv'
<1>1. text \in {"none"} \cup Contents /\ deferred \subseteq {"close", "files", "assets"}
  BY DEF WholeInv, TypeOK
<1>2. CASE CheckOptions
  BY <1>1, <1>2, PassWhole, RefuseWhole DEF CheckOptions, Unloaded
<1>3. CASE CheckFolder
  BY <1>1, <1>3, PassWhole, RefuseWhole DEF CheckFolder, Unloaded
<1>4. CASE InspectTemplate
  BY <1>1, <1>4, PassWhole, RefuseWhole DEF InspectTemplate, Unloaded
<1>5. CASE ReadTemplate
  <2>1. role \in Contents  BY DEF WholeInv, TypeOK, Contents
  <2> QED  BY <1>1, <1>5, <2>1, PassWhole, RefuseWhole DEF ReadTemplate, Unloaded
<1>6. CASE CheckConfined
  BY <1>1, <1>6, PassWhole, RefuseWhole DEF CheckConfined, Unloaded
<1>7. CASE CheckBundle
  BY <1>1, <1>7, PassWhole, RefuseWhole DEF CheckBundle
<1>8. CASE CheckRole
  BY <1>1, <1>8, PassWhole, RefuseWhole DEF CheckRole
<1>9. CASE SubstituteConfig
  BY <1>1, <1>9, PassWhole, RefuseWhole DEF SubstituteConfig
<1> QED  BY <1>2, <1>3, <1>4, <1>5, <1>6, <1>7, <1>8, <1>9

\* What the production loader hands over has every required asset.
LEMMA AnswerHasTheRequired ==
  ASSUME NEW a \in Production!Answers(role), a.kind # "refused"
  PROVE  a.kind = "bundle" /\ Entries(RequiredAssets[role]) \subseteq a.names
<1>1. Production!Required(role) = Required(role)
  BY DEF Production!Required, Production!Entries, Production!RequiredScalars,
         Production!RequiredAssets, Required, Entries, RequiredScalars, RequiredAssets
<1>2. PICK more : a = Production!Delivered(Required(role) \cup more)
  BY <1>1 DEF Production!Answers, Production!Refused
<1> QED  BY <1>2 DEF Production!Delivered, Required

\* The loader's answer.
LEMMA LoadBundleWhole ==
  ASSUME WholeInv, RenderInv, LoadBundle PROVE WholeInv'
<1>1. /\ live = {} /\ pc = "load" /\ role' = role
      /\ UNCHANGED <<request, offer, template, folder, swaps, text, deferred, files, out>>
  BY DEF LoadBundle, Production!Answer, RenderInv, CoverInv, Unloaded, disk
<1>2. live' \subseteq Buffers(role)
  <2>1. CASE answer'.kind = "bundle"  BY <1>1, <2>1 DEF LoadBundle, Buffers
  <2>2. CASE answer'.kind = "refused"
    <3>1. answer' \in Production!Answers(role) \/ answer' = Production!Refused({})
      BY <2>2 DEF LoadBundle, Production!Answer, Injected
    <3>2. answer'.left \subseteq Assets(role)
      <4>1. CASE answer' = Production!Refused({})  BY <4>1 DEF Production!Refused
      <4>2. CASE answer' \in Production!Answers(role)
        <5>1. Production!Assets(role) = Assets(role)
          BY DEF Production!Assets, Production!Optional, Production!Entries,
                 Production!RequiredAssets, Production!OptionalAssets, Assets, Optional,
                 Entries, RequiredAssets, OptionalAssets
        <5>2. PICK left \in Production!Partial(role) : answer' = Production!Refused(left)
          BY <2>2, <4>2 DEF Production!Answers, Production!Delivered
        <5> QED  BY <5>1, <5>2 DEF Production!Partial, Production!Refused
      <4> QED  BY <3>1, <4>1, <4>2
    <3> QED  BY <1>1, <2>2, <3>2 DEF LoadBundle, Buffers
  <2>3. CASE answer'.kind \notin {"bundle", "refused"}  BY <1>1, <2>3 DEF LoadBundle
  <2> QED  BY <2>1, <2>2, <2>3
<1>3. \/ pc' = "returned" /\ result' = "refused"
      \/ pc' = "bundle" /\ result' = result /\ answer'.kind # "refused"
  BY DEF LoadBundle
<1>4. TypeOK'
  BY <1>1, <1>2, <1>3 DEF WholeInv, TypeOK, Steps, Buffers
<1>5. AnswerShape'
  <2>1. CASE pc' = "returned"
    BY <1>1, <2>1 DEF WholeInv, AnswerShape, Unloaded, Closing
  <2>2. CASE pc' = "bundle" /\ request.loader = "systemd"
    <3>1. answer' \in Production!Answers(role) /\ answer'.kind # "refused"
      BY <1>3, <2>2 DEF LoadBundle, Production!Answer
    <3>2. answer'.kind = "bundle" /\ Entries(RequiredAssets[role]) \subseteq answer'.names
      BY <3>1, AnswerHasTheRequired
    <3> QED  BY <1>1, <2>2, <3>2 DEF WholeInv, AnswerShape, Unloaded, Closing
  <2>3. CASE pc' = "bundle" /\ request.loader # "systemd"
    <3>1. answer' \in Injected /\ answer'.kind # "refused"
      BY <1>3, <2>3 DEF LoadBundle
    <3>2. \/ answer'.kind = "nil"
          \/ answer'.kind = "injected" /\ answer'.offer \in Offers
      BY <3>1 DEF Injected, Production!Refused
    <3> QED  BY <1>1, <2>3, <3>2 DEF WholeInv, AnswerShape, Unloaded, Closing
  <2> QED  BY <1>3, <2>1, <2>2, <2>3
<1>6. FilesInv' /\ OfferInv'
  BY <1>1, <1>3 DEF WholeInv, FilesInv, OfferInv, Owning
<1>7. SuccessIsWhole'
  BY <1>1, <1>3 DEF WholeInv, SuccessIsWhole
<1>8. pc' # "returned" => result' = "none"
  BY <1>1, <1>3 DEF WholeInv
<1> QED  BY <1>4, <1>5, <1>6, <1>7, <1>8 DEF WholeInv

\* The rendered config is the first file of the publication set.
LEMMA SubstituteCredentialsWhole ==
  ASSUME WholeInv, SubstituteCredentials PROVE WholeInv'
<1>1. CASE Refuse
  BY <1>1, RefuseWhole DEF SubstituteCredentials
<1>2. CASE /\ files' = [n \in {RenderedName(role)} |-> Config]
           /\ live' = live \cup {Config}
           /\ deferred' = deferred \cup {"files"}
           /\ Goto("collect") /\ UNCHANGED <<answer, offer, text>>
  <2>1. /\ pc = "secrets" /\ pc' = "collect"
        /\ UNCHANGED <<role, request, answer, offer, template, folder, swaps, text, result, out>>
    BY <1>2 DEF SubstituteCredentials, Goto, input, disk
  <2>2. TypeOK'
    BY <1>2, <2>1 DEF WholeInv, TypeOK, Steps, Buffers
  <2>3. AnswerShape'
    BY <2>1 DEF WholeInv, AnswerShape, Unloaded, Closing
  <2>4. OfferInv' /\ offer = <<>>
    BY <2>1 DEF WholeInv, OfferInv
  <2>5. DOMAIN files' = {RenderedName(role)} /\ \A n \in DOMAIN files' : files'[n] \in live'
    BY <1>2
  <2>6. IsFiniteSet(DOMAIN files') /\ Added' = 0
    BY <2>5, FS_Singleton DEF Added
  <2>7. FilesInv'
    <3>1. {offer'[i].dest : i \in 1 .. 0} = {}  OBVIOUS
    <3>2. Len(offer') = 0  BY <2>1, <2>4
    <3>3. RenderedName(role)' = RenderedName(role)  BY <2>1 DEF RenderedName
    <3> QED  BY <2>1, <2>5, <2>6, <3>1, <3>2, <3>3 DEF FilesInv
  <2>8. SuccessIsWhole' /\ (pc' # "returned" => result' = "none")
    BY <2>1 DEF WholeInv, SuccessIsWhole
  <2> QED  BY <2>2, <2>3, <2>4, <2>7, <2>8 DEF WholeInv
<1> QED  BY <1>1, <1>2 DEF SubstituteCredentials

\* The offer: its copies have their bytes, and the production loader's agree
\* with the allowlist.
LEMMA CollectWhole ==
  ASSUME WholeInv, Collect PROVE WholeInv'
<1>1. /\ pc = "collect" /\ pc' = IF offer' = <<>> THEN "publish" ELSE "add"
      /\ offer' = Materialize
      /\ live' = live \cup {Copy(i) : i \in {i \in DOMAIN offer' : ~offer'[i].empty}}
      /\ deferred' = deferred \cup {"assets"}
      /\ UNCHANGED <<role, request, answer, template, folder, swaps, text, result, out, files>>
  BY DEF Collect, Goto, input, disk
<1>2. /\ role \in Roles /\ answer.kind \in {"bundle", "injected"}
      /\ answer.kind = "injected" => answer.offer \in Offers
      /\ answer.kind = "bundle" => Entries(RequiredAssets[role]) \subseteq answer.names
      /\ request.loader = "systemd" => answer.kind = "bundle"
  BY <1>1 DEF WholeInv, TypeOK, AnswerShape, Closing
<1>3. /\ Len(offer') \in Nat /\ DOMAIN offer' = 1 .. Len(offer')
      /\ request.loader = "systemd" => Agreed'
  BY <1>1, <1>2, MaterializeIsSound DEF Agreed, Destinations
<1>4. offer = <<>>  BY <1>1 DEF WholeInv, OfferInv
<1>5. TypeOK'
  <2>1. live' \subseteq Buffers(role) \cup {Copy(i) : i \in 1 .. Len(offer')} \cup {Config}
    BY <1>1, <1>3, <1>4 DEF WholeInv, TypeOK
  <2>2. Buffers(role)' = Buffers(role)  BY <1>1 DEF Buffers
  <2> QED  BY <1>1, <2>1, <2>2 DEF WholeInv, TypeOK, Steps
<1>6. AnswerShape'
  BY <1>1 DEF WholeInv, AnswerShape, Unloaded, Closing
<1>7. OfferInv'
  <2>1. \A i \in DOMAIN offer' : ~offer'[i].empty => Copy(i) \in live'
    BY <1>1
  <2>2. request.loader = "systemd" => Agreed'  BY <1>3
  <2> QED  BY <1>1, <1>3, <2>1, <2>2 DEF OfferInv
<1>8. FilesInv'
  <2>1. /\ IsFiniteSet(DOMAIN files) /\ Added \in 0 .. Len(offer)
        /\ DOMAIN files = {RenderedName(role)} \cup {offer[i].dest : i \in 1 .. Added}
        /\ \A n \in DOMAIN files : files[n] \in live
    BY <1>1 DEF WholeInv, FilesInv, Owning
  <2>2. Added = 0 /\ Added' = 0
    <3>1. Len(offer) = 0  BY <1>4
    <3>2. Added = 0  BY <2>1, <3>1
    <3>3. Added' = Added  BY <1>1 DEF Added
    <3> QED  BY <3>2, <3>3
  <2>3. DOMAIN files = {RenderedName(role)}  BY <2>1, <2>2
  <2>4. {offer'[i].dest : i \in 1 .. 0} = {}  OBVIOUS
  <2>5. RenderedName(role)' = RenderedName(role)  BY <1>1 DEF RenderedName
  <2>6. offer' # <<>> => Len(offer') > 0
    BY <1>3
  <2>7. DOMAIN files' = {RenderedName(role)'} \cup {offer'[i].dest : i \in 1 .. Added'}
    BY <1>1, <2>2, <2>3, <2>4, <2>5
  <2> QED  BY <1>1, <1>3, <2>1, <2>2, <2>6, <2>7 DEF FilesInv
<1>9. SuccessIsWhole' /\ (pc' # "returned" => result' = "none")
  BY <1>1 DEF WholeInv, SuccessIsWhole
<1> QED  BY <1>5, <1>6, <1>7, <1>8, <1>9 DEF WholeInv

\* The next asset joins the set under a name that is new in it.
LEMMA AddAssetWhole ==
  ASSUME WholeInv, AddAsset PROVE WholeInv'
<1> DEFINE a == offer[Added + 1]
<1>1. CASE Refuse
  BY <1>1, RefuseWhole DEF AddAsset
<1>2. CASE /\ Acceptable(a)
           /\ files' = [n \in DOMAIN files \cup {a.dest} |->
                           IF n = a.dest THEN Copy(Added + 1) ELSE files[n]]
           /\ Goto(IF Added + 1 = Len(offer) THEN "publish" ELSE "add")
           /\ UNCHANGED <<answer, offer, text, live, deferred>>
  <2>1. /\ pc = "add" /\ pc' = IF Added + 1 = Len(offer) THEN "publish" ELSE "add"
        /\ UNCHANGED <<role, request, answer, offer, live, deferred, template, folder, swaps, text,
                       result, out>>
    BY <1>2 DEF AddAsset, Goto, input, disk
  <2>2. /\ IsFiniteSet(DOMAIN files) /\ Added \in 0 .. Len(offer) /\ Added < Len(offer)
        /\ DOMAIN files = {RenderedName(role)} \cup {offer[i].dest : i \in 1 .. Added}
        /\ \A n \in DOMAIN files : files[n] \in live
    BY <2>1 DEF WholeInv, FilesInv, Owning
  <2>3. /\ Len(offer) \in Nat /\ DOMAIN offer = 1 .. Len(offer)
        /\ \A i \in DOMAIN offer : ~offer[i].empty => Copy(i) \in live
    BY <2>1 DEF WholeInv, OfferInv
  <2>4. a.dest \notin DOMAIN files /\ Copy(Added + 1) \in live
    <3>1. Added + 1 \in DOMAIN offer  BY <2>2, <2>3
    <3>2. ~offer[Added + 1].empty /\ a.dest \notin DOMAIN files  BY <1>2 DEF Acceptable
    <3> QED  BY <2>3, <3>1, <3>2
  <2>5. DOMAIN files' = DOMAIN files \cup {a.dest} /\ \A n \in DOMAIN files' : files'[n] \in live
    BY <1>2, <2>2, <2>4
  <2>6. IsFiniteSet(DOMAIN files') /\ Cardinality(DOMAIN files') = Cardinality(DOMAIN files) + 1
    <3> HIDE DEF a
    <3>1. /\ IsFiniteSet(DOMAIN files \cup {a.dest})
          /\ Cardinality(DOMAIN files \cup {a.dest}) =
               IF a.dest \in DOMAIN files THEN Cardinality(DOMAIN files)
               ELSE Cardinality(DOMAIN files) + 1
      BY <2>2, FS_AddElement
    <3> QED  BY <2>4, <2>5, <3>1
  <2>7. Cardinality(DOMAIN files) \in Nat  BY <2>2, FS_CardinalityType
  <2>8. Added' = Added + 1
    BY <2>6, <2>7 DEF Added
  <2>9. DOMAIN files' = {RenderedName(role)} \cup {offer[i].dest : i \in 1 .. Added + 1}
    <3>1. 1 .. Added + 1 = (1 .. Added) \cup {Added + 1}  BY <2>2, <2>3
    <3> QED  BY <2>2, <2>5, <3>1
  <2>10. RenderedName(role)' = RenderedName(role)  BY <2>1 DEF RenderedName
  <2>11. TypeOK'
    BY <2>1 DEF WholeInv, TypeOK, Steps, Buffers
  <2>12. AnswerShape'
    BY <2>1 DEF WholeInv, AnswerShape, Unloaded, Closing
  <2>13. OfferInv'
    BY <2>1 DEF WholeInv, OfferInv, Agreed, Destinations
  <2>14. FilesInv'
    <3>1. /\ Added \in Nat /\ Len(offer) \in Nat /\ Added < Len(offer)
          /\ Added + 1 \in 0 .. Len(offer) /\ (Added + 1 # Len(offer) => Added + 1 < Len(offer))
      <4> DEFINE k == Added
      <4>1. k \in 0 .. Len(offer) /\ k < Len(offer) /\ Len(offer) \in Nat  BY <2>2, <2>3
      <4> HIDE DEF k
      <4>2. k \in Nat /\ k + 1 \in 0 .. Len(offer) /\ (k + 1 # Len(offer) => k + 1 < Len(offer))
        BY <4>1
      <4> QED  BY <4>1, <4>2 DEF k
    <3>2. Added' \in 0 .. Len(offer')  BY <2>1, <2>8, <3>1
    <3>3. DOMAIN files' = {RenderedName(role)'} \cup {offer'[i].dest : i \in 1 .. Added'}
      BY <2>1, <2>8, <2>9, <2>10
    <3>4. (pc' = "add" => Added' < Len(offer')) /\ (pc' = "publish" => Added' = Len(offer'))
      BY <2>1, <2>8, <3>1
    <3> QED  BY <2>1, <2>5, <2>6, <3>2, <3>3, <3>4 DEF FilesInv
  <2>15. SuccessIsWhole' /\ (pc' # "returned" => result' = "none")
    BY <2>1 DEF WholeInv, SuccessIsWhole, Destinations
  <2> QED  BY <2>11, <2>12, <2>13, <2>14, <2>15 DEF WholeInv
<1> QED  BY <1>1, <1>2 DEF AddAsset

\* Publication takes all of the set, whose bytes are still there, or part of
\* it and then does not report success.
LEMMA PublishWhole ==
  ASSUME WholeInv, Publish PROVE WholeInv'
<1>1. /\ pc = "publish" /\ Added = Len(offer) /\ \A n \in DOMAIN files : files[n] \in live
      /\ DOMAIN files = {RenderedName(role)} \cup {offer[i].dest : i \in 1 .. Added}
      /\ DOMAIN offer = 1 .. Len(offer)
      /\ request.loader = "systemd" => Entries(RequiredAssets[role]) \subseteq Destinations
  BY DEF Publish, WholeInv, FilesInv, OfferInv, Owning, Agreed
<1>2. CASE Refuse
  BY <1>1, <1>2, RefuseWhole
<1>3. ASSUME NEW kind \in {"ok", "undefined"}, Return(kind),
             NEW part \in SUBSET DOMAIN files, out' = Published(part),
             kind = "ok" => part = DOMAIN files
      PROVE  WholeInv'
  <2>1. /\ pc' = "returned" /\ result' = kind /\ live' = live \ Wiped /\ deferred' = {}
        /\ UNCHANGED <<role, request, answer, offer, template, folder, swaps, text>>
    BY <1>3 DEF Return, input, disk
  <2>2. TypeOK'
    BY <2>1 DEF WholeInv, TypeOK, Steps, Buffers
  <2>3. AnswerShape' /\ FilesInv' /\ OfferInv'
    BY <2>1 DEF WholeInv, AnswerShape, FilesInv, OfferInv, Unloaded, Closing, Owning
  <2>4. DOMAIN out' = part /\ \A n \in DOMAIN out' : out'[n] # "zeros"
    <3>1. text # "zeros"  BY DEF WholeInv, TypeOK, Contents, Roles
    <3> QED  BY <1>1, <1>3, <3>1 DEF Published, Written
  <2>5. DOMAIN files = {RenderedName(role)} \cup Destinations
    BY <1>1 DEF Destinations
  <2>6. RenderedName(role)' = RenderedName(role) /\ Destinations' = Destinations
    BY <2>1 DEF RenderedName, Destinations
  <2>7. SuccessIsWhole'
    BY <1>1, <1>3, <2>1, <2>4, <2>5, <2>6 DEF SuccessIsWhole
  <2> QED  BY <2>1, <2>2, <2>3, <2>7 DEF WholeInv
<1>4. CASE out' = Published(DOMAIN files) /\ Return("ok")
  BY <1>3, <1>4
<1>5. CASE /\ \E part \in SUBSET DOMAIN files \ {{}} : out' = Published(part)
           /\ Return("undefined")
  BY <1>3, <1>5
<1> QED  BY <1>2, <1>4, <1>5 DEF Publish

\* Every step keeps the invariant.
LEMMA NextWhole ==
  ASSUME WholeInv, RenderInv, [Next]_vars PROVE WholeInv'
<1>1. CASE Swap
  <2>1. /\ swaps' \in 0 .. MaxSwaps /\ template' \in Templates /\ folder' \in Folders
        /\ UNCHANGED <<role, request, answer, offer, text, pc, result, live, deferred, files, out>>
    BY <1>1, OffersAssumption DEF Swap, WholeInv, TypeOK, input
  <2>2. TypeOK'
    BY <2>1 DEF WholeInv, TypeOK, Buffers
  <2> QED
    BY <2>1, <2>2 DEF WholeInv, AnswerShape, OfferInv, FilesInv, SuccessIsWhole, Agreed,
                      Destinations, Added
<1>2. CASE UNCHANGED vars
  BY <1>2 DEF vars, WholeInv, TypeOK, AnswerShape, OfferInv, FilesInv, SuccessIsWhole, Agreed,
              Destinations, Added, Buffers
<1> QED
  BY <1>1, <1>2, ChecksWhole, LoadBundleWhole, SubstituteCredentialsWhole, CollectWhole,
     AddAssetWhole, PublishWhole DEF Next, Render

\* While an asset of the production loader is added, it is acceptable.
LEMMA WholeAllowlists ==
  ASSUME WholeInv, RenderInv PROVE AllowlistsAgree
<1> SUFFICES ASSUME request.loader = "systemd"
             PROVE  /\ pc = "add" => Acceptable(offer[Added + 1])
                    /\ DOMAIN files \subseteq OutputNames
  BY DEF AllowlistsAgree
<1>1. role \in Roles /\ DOMAIN files \subseteq {RenderedName(role)} \cup Assets(role)
  BY DEF RenderInv, MaterialInv
<1>2. /\ Assets(role) = RoleAssetNames[role] /\ RenderedName(role) \notin Assets(role)
      /\ Assets(role) \cup {RenderedName(role)} \subseteq OutputNames
  BY <1>1, SameAllowlists
<1>3. ASSUME pc = "add" PROVE Acceptable(offer[Added + 1])
  <2>1. /\ Added \in 0 .. Len(offer) /\ Added < Len(offer)
        /\ DOMAIN files = {RenderedName(role)} \cup {offer[i].dest : i \in 1 .. Added}
    BY <1>3 DEF WholeInv, FilesInv, Owning
  <2>2. Len(offer) \in Nat /\ DOMAIN offer = 1 .. Len(offer) /\ Agreed
    BY <1>3 DEF WholeInv, OfferInv
  <2>3. Added + 1 \in DOMAIN offer /\ \A i \in 1 .. Added : i \in DOMAIN offer /\ i # Added + 1
    BY <2>1, <2>2
  <2>4. offer[Added + 1].dest \in RoleAssetNames[role] /\ ~offer[Added + 1].empty
    BY <2>2, <2>3 DEF Agreed
  <2>5. \A i \in 1 .. Added : offer[i].dest # offer[Added + 1].dest
    BY <2>2, <2>3 DEF Agreed
  <2> QED  BY <1>2, <2>1, <2>4, <2>5 DEF Acceptable
<1> QED  BY <1>1, <1>2, <1>3

(***************************************************************************)
(* A render that reports success has published the config and all that was *)
(* materialized, with the production loader all the required assets, and   *)
(* never a wiped buffer; and the three allowlists of loader, render and    *)
(* writer agree.  This holds for every answer of every loader.             *)
(***************************************************************************)
THEOREM SuccessMeansAllOfIt == Spec => []OutputIsWhole
<1>1. Init => WholeInv /\ RenderInv  BY InitWhole, InitRenderInv
<1>2. WholeInv /\ RenderInv /\ [Next]_vars => WholeInv' /\ RenderInv'
  BY NextWhole, NextKeeps
<1>3. WholeInv /\ RenderInv => OutputIsWhole
  BY WholeAllowlists DEF WholeInv, OutputIsWhole
<1> QED  BY <1>1, <1>2, <1>3, PTL DEF Spec
=============================================================================
