--------------------------- MODULE CredentialLoad ---------------------------
(***************************************************************************)
(* load of internal/credential/loader.go over systemdSource (source.go) and*)
(* the descriptor-relative file access of fd_linux_impl.go: one render     *)
(* reads the allowlisted credentials of its role from the directory that   *)
(* $CREDENTIALS_DIRECTORY names, while an operator renames directories,    *)
(* replaces files and writes into them.                                    *)
(*                                                                         *)
(* A step of the loader is what it does between two moments at which the   *)
(* directory tree can change under it: one open, or the read of a file that*)
(* was opened and inspected before.  A file's content is a short sequence  *)
(* of bytes; the bytes an operator writes are "new".                       *)
(***************************************************************************)
EXTENDS CredentialNames

CONSTANTS
  Trees,          \* directories that the allowed root may name
  Dirs,           \* unit credential directories
  Worlds,         \* what the loader may find at first: see LoadAssumption
  Touched,        \* names the operator changes files of
  MaxScalarBytes, MaxAssetBytes,
  MaxChanges,     \* bound: operations of the operator
  MaxFaults       \* bound: system calls that fail with EIO

Absent == [kind |-> "absent"]
Bytes  == {"old", "new", "lf", "ctl"}
Bits   == {"r", "w", "x"}

\* Owner and permission bits, and what a name can be.
Metadata == [root : BOOLEAN, group : SUBSET Bits, other : SUBSET Bits]
Files ==
  [kind : {"absent", "symlink", "directory", "denied"}]
  \cup [kind : {"file"}, meta : Metadata, bytes : Seq(Bytes)]

ASSUME LoadAssumption ==
  /\ \A w \in Worlds :
       /\ w.variable \in {"below", "unset", "unsafe"}
       /\ w.root \in Trees \cup {"absent", "symlink", "denied"}
       /\ w.unit \in [Trees -> Dirs \cup {"absent", "symlink", "denied"}]
       /\ w.meta \in [Dirs -> Metadata]
       /\ w.listing \in [Dirs -> {"plain", "crowded", "collision"}]
       /\ w.files \in [Dirs -> [Names -> Files]]
  /\ Touched \subseteq Names
  /\ MaxScalarBytes \in Nat /\ MaxAssetBytes \in Nat
  /\ MaxChanges \in Nat /\ MaxFaults \in Nat

VARIABLES
  role,      \* the role asked for
  world,     \* what the loader found at first
  root,      \* what the allowed root names now
  unit,      \* [tree -> what the unit component names in it now]
  history,   \* [directory -> [name -> files it has named, the last one now]]
  pc,        \* the loader's next step
  fds,       \* descriptors it holds
  tree, dir, \* directories behind the root and the unit descriptor
  next,      \* place in ReadOrder
  held,      \* the opened file: which version of the name, and its fstat size
  bundle,    \* [loaded name -> the bytes it got]
  origin,    \* [loaded name -> the directory the bytes came from]
  outcome,   \* "loading", "loaded", or the kind of error returned
  seen,      \* observation: bytes of the held file when it was inspected
  written,   \* observation: places of it that were written since then
  changes, faults

place == <<root, unit>>
task  == <<role, world>>
got   == <<bundle, origin>>
watch == <<seen, written>>
bounds == <<changes, faults>>
vars == <<task, place, history, pc, fds, tree, dir, next, held, got, outcome, watch, bounds>>

NotHeld == [dir |-> "none", version |-> 0, size |-> 0]
NoMap   == [n \in {} |-> {}]
Errors  == {"not_found", "unsafe", "permission", "rejected", "io"}

TypeOK ==
  /\ role \in Roles
  /\ pc \in {"resolve", "root", "unit", "list", "inspect", "read", "returned"}
  /\ fds \subseteq {"root", "unit", "file"}
  /\ next \in Nat
  /\ DOMAIN bundle = DOMAIN origin /\ DOMAIN bundle \subseteq Names
  /\ outcome \in {"loading", "loaded"} \cup Errors
  /\ (outcome = "loading") = (pc # "returned")
  /\ changes \in 0 .. MaxChanges /\ faults \in 0 .. MaxFaults

Init ==
  /\ role \in Roles
  /\ world \in Worlds
  /\ root = world.root /\ unit = world.unit
  /\ history = [d \in Dirs |-> [n \in Names |-> <<world.files[d][n]>>]]
  /\ pc = "resolve" /\ outcome = "loading"
  /\ fds = {} /\ tree = "none" /\ dir = "none"
  /\ next = 1 /\ held = NotHeld
  /\ bundle = NoMap /\ origin = NoMap
  /\ seen = <<>> /\ written = {}
  /\ changes = 0 /\ faults = 0

-----------------------------------------------------------------------------
(* The loader.                                                             *)

\* The file at hand is dealt with: its inspection is over.
Unwatch == seen' = <<>> /\ written' = {}

\* load returns an error: close releases what is held, no bundle is returned.
Fail(kind) ==
  /\ pc' = "returned" /\ outcome' = kind /\ fds' = {} /\ Unwatch
  /\ UNCHANGED <<task, place, history, tree, dir, next, held, got, changes>>
Refuse(kind) == Fail(kind) /\ UNCHANGED faults
Fault == faults < MaxFaults /\ faults' = faults + 1 /\ Fail("io")

\* relUnitDir: an absolute path strictly below the root, without "..".
ResolveUnitDir ==
  /\ pc = "resolve"
  /\ \/ /\ world.variable = "below"
        /\ pc' = "root"
        /\ UNCHANGED <<task, place, history, fds, tree, dir, next, held, got,
                       outcome, watch, bounds>>
     \/ world.variable = "unset" /\ Refuse("not_found")
     \/ world.variable = "unsafe" /\ Refuse("unsafe")

\* mapDirOpenErrno.
DirError(found) ==
  CASE found = "absent" -> "not_found"
    [] found = "symlink" -> "unsafe"
    [] found = "denied" -> "permission"

\* secureCredentialMetadata: private to any owner, or root:root with at most
\* read (and, for a directory, search) permission for the group.
Secure(meta, directory) ==
  /\ meta.other = {}
  /\ \/ meta.group = {}
     \/ /\ meta.root
        /\ meta.group \subseteq (IF directory THEN {"r", "x"} ELSE {"r"})

\* openDirNoFollow of the allowed root.
OpenRoot ==
  /\ pc = "root"
  /\ \/ /\ root \in Trees
        /\ tree' = root /\ fds' = {"root"} /\ pc' = "unit"
        /\ UNCHANGED <<task, place, history, dir, next, held, got, outcome, watch, bounds>>
     \/ root \notin Trees /\ Refuse(DirError(root))
     \/ Fault

\* openDirNoFollow of the unit directory relative to the root's descriptor,
\* which is closed whatever the outcome, and checkUnitDirMode.
OpenUnit ==
  /\ pc = "unit"
  /\ LET found == unit[tree] IN
       \/ /\ found \in Dirs
          /\ Secure(world.meta[found], TRUE)
          /\ dir' = found /\ fds' = {"unit"} /\ pc' = "list"
          /\ UNCHANGED <<task, place, history, tree, next, held, got, outcome, watch, bounds>>
       \/ found \in Dirs /\ ~Secure(world.meta[found], TRUE) /\ Refuse("permission")
       \/ found \notin Dirs /\ Refuse(DirError(found))
       \/ Fault

\* checkDuplicates: readNames stops at the entry limit; two names that differ
\* in ASCII case only are refused.
CheckDuplicates ==
  /\ pc = "list"
  /\ \/ /\ world.listing[dir] = "plain"
        /\ pc' = "inspect"
        /\ UNCHANGED <<task, place, history, fds, tree, dir, next, held, got,
                       outcome, watch, bounds>>
     \/ world.listing[dir] = "crowded" /\ Refuse("rejected")
     \/ world.listing[dir] = "collision" /\ Refuse("unsafe")
     \/ Fault

\* Mutant: every read resolves the directory's path again.
SourceByPath == IF unit[tree] \in Dirs THEN unit[tree] ELSE dir

\* The directory every read is relative to: the one whose descriptor is held.
Source == dir

Name == ReadOrder(role)[next]
Current(d, n) == history[d][n][Len(history[d][n])]

\* mapFileOpenErrno and the checks of readFile on the opened descriptor, in
\* their order; "none" lets the read go on.
FileError(file) ==
  CASE file.kind = "absent" -> "not_found"
    [] file.kind = "denied" -> "permission"
    [] file.kind \in {"symlink", "directory"} -> "unsafe"
    [] OTHER ->
         IF ~Secure(file.meta, FALSE) THEN "permission"
         ELSE IF Len(file.bytes) > MaxAssetBytes THEN "rejected"
         ELSE "none"

\* readFile up to the allocation: openat on the held directory and fstat of
\* what it opened.
Inspect ==
  /\ pc = "inspect"
  /\ LET file == Current(Source, Name) IN
       \/ /\ FileError(file) = "none"
          /\ held' = [dir |-> Source, version |-> Len(history[Source][Name]),
                      size |-> Len(file.bytes)]
          /\ seen' = file.bytes /\ written' = {}
          /\ fds' = fds \cup {"file"} /\ pc' = "read"
          /\ UNCHANGED <<task, place, history, tree, dir, next, got, outcome, bounds>>
       \/ /\ FileError(file) # "none"
          /\ ~(FileError(file) = "not_found" /\ Name \in Optional(role))
          /\ Refuse(FileError(file))
       \/ Fault

\* Mutant: the line feed an editor leaves at the end counts.
ScalarValueWhole(data) == data

\* validateScalar: one trailing line feed is dropped, then no line break and
\* no control character may be left, nor an empty value.
ScalarValue(data) ==
  IF data # <<>> /\ data[Len(data)] = "lf" THEN SubSeq(data, 1, Len(data) - 1) ELSE data
ScalarError(data) ==
  \/ Len(data) > MaxScalarBytes
  \/ ScalarValue(data) = <<>>
  \/ \E i \in 1 .. Len(ScalarValue(data)) : ScalarValue(data)[i] \in {"lf", "ctl"}

\* validateAsset.
AssetError(data) == data = <<>> \/ Len(data) > MaxAssetBytes

Rejected(data) ==
  IF Name \in Entries(RequiredScalars[role]) THEN ScalarError(data) ELSE AssetError(data)

\* What load does once a name is dealt with: the next one, or the return of
\* the bundle with the directory closed.
Advance ==
  /\ next' = next + 1
  /\ IF next = Len(ReadOrder(role))
     THEN pc' = "returned" /\ outcome' = "loaded" /\ fds' = {}
     ELSE pc' = "inspect" /\ UNCHANGED outcome /\ fds' = fds \ {"file"}

\* Mutant: a required asset that does not exist is skipped too.
SkipAnyAsset ==
  /\ pc = "inspect"
  /\ Name \in Assets(role) /\ FileError(Current(Source, Name)) = "not_found"
  /\ Advance
  /\ UNCHANGED <<task, place, history, tree, dir, held, got, watch, bounds>>

\* An optional asset whose open reports errNotFound is skipped.
SkipOptional ==
  /\ pc = "inspect"
  /\ Name \in Optional(role) /\ FileError(Current(Source, Name)) = "not_found"
  /\ Advance
  /\ UNCHANGED <<task, place, history, tree, dir, held, got, watch, bounds>>

\* readFile's ReadFull of the inspected size, from the inode that was opened.
Filled == history[held.dir][Name][held.version].bytes
Value(data) ==
  IF Name \in Entries(RequiredScalars[role]) THEN ScalarValue(data) ELSE data
Keep(data) ==
  /\ bundle' = [n \in {Name} \cup DOMAIN bundle |-> IF n = Name THEN Value(data) ELSE bundle[n]]
  /\ origin' = [n \in {Name} \cup DOMAIN origin |-> IF n = Name THEN held.dir ELSE origin[n]]
  /\ held' = NotHeld /\ Unwatch
  /\ Advance
  /\ UNCHANGED <<task, place, history, tree, dir, bounds>>

\* Mutant: the file is read to its end.
ReadToEnd ==
  /\ pc = "read"
  /\ \/ ~Rejected(Filled) /\ Keep(Filled)
     \/ Rejected(Filled) /\ Refuse("rejected")
     \/ Fault

ReadFull ==
  /\ pc = "read"
  /\ \/ Len(Filled) < held.size /\ Refuse("io")
     \/ /\ Len(Filled) >= held.size
        /\ LET data == SubSeq(Filled, 1, held.size) IN
             \/ ~Rejected(data) /\ Keep(data)
             \/ Rejected(data) /\ Refuse("rejected")
     \/ Fault

Load ==
  \/ ResolveUnitDir \/ OpenRoot \/ OpenUnit \/ CheckDuplicates
  \/ Inspect \/ SkipOptional \/ ReadFull

-----------------------------------------------------------------------------
(* The operator: what may happen to the directory tree during a load.      *)

Change ==
  /\ pc # "returned"
  /\ changes < MaxChanges /\ changes' = changes + 1
  /\ UNCHANGED <<task, pc, fds, tree, dir, next, held, got, outcome, seen, faults>>

\* Another directory is renamed into the place of one on the path.
SwapRoot ==
  /\ Change /\ root' \in Trees \ {root}
  /\ UNCHANGED <<unit, history, written>>
SwapUnit ==
  /\ Change /\ UNCHANGED <<root, history, written>>
  /\ \E t \in Trees, d \in Dirs : unit[t] # d /\ unit' = [unit EXCEPT ![t] = d]

New == [kind |-> "file", meta |-> [root |-> FALSE, group |-> {}, other |-> {}],
        bytes |-> <<"new", "new">>]

\* A name is given to a new file, or removed.
Replace ==
  /\ Change /\ UNCHANGED <<place, written>>
  /\ \E d \in Dirs, n \in Touched, file \in {New, Absent} :
       /\ file # Current(d, n)
       /\ history' = [history EXCEPT ![d][n] = Append(@, file)]

\* A file is written in place: its end is cut off, or it grows by a byte, or a
\* byte of it is overwritten.  A longer write is several of these steps.
Written(old, places, length) ==
  [i \in 1 .. length |-> IF i \in places THEN "new" ELSE old[i]]
Rewrite ==
  /\ Change /\ UNCHANGED place
  /\ \E d \in Dirs, n \in Touched :
       /\ Current(d, n).kind = "file"
       /\ LET last == Len(history[d][n])
              old  == Current(d, n).bytes
          IN  \E length \in 0 .. Len(old) + 1 : \E places \in {{}} \cup {{k} : k \in 1 .. length} :
                /\ length <= MaxAssetBytes + 1
                /\ length > Len(old) => length \in places
                /\ length < Len(old) => places = {}
                /\ Written(old, places, length) # old
                /\ history' = [history EXCEPT ![d][n][last].bytes = Written(old, places, length)]
                /\ written' = IF pc = "read" /\ d = held.dir /\ n = Name /\ held.version = last
                              THEN written \cup places ELSE written

Operate == SwapRoot \/ SwapUnit \/ Replace \/ Rewrite

Next == Load \/ Operate

Spec == Init /\ [][Next]_vars

-----------------------------------------------------------------------------
(***************************************************************************)
(* However directories are renamed during the load, everything in the      *)
(* bundle comes from the one directory whose owner and permissions were    *)
(* checked (systemdSource.open holds its descriptor until close).          *)
(***************************************************************************)
OneDirectory ==
  /\ \A n \in DOMAIN origin : origin[n] = dir
  /\ DOMAIN origin # {} => Secure(world.meta[dir], TRUE)

(***************************************************************************)
(* A bundle has every required credential of its role and no other role's, *)
(* each usable; an optional asset is missing only if its name was really   *)
(* absent from that directory (load: any other failure aborts).            *)
(***************************************************************************)
LoadedIsComplete ==
  outcome = "loaded" =>
    /\ Required(role) \subseteq DOMAIN bundle
    /\ DOMAIN bundle \subseteq Required(role) \cup Optional(role)
    /\ \A n \in DOMAIN bundle :
         /\ bundle[n] # <<>>
         /\ n \in Entries(RequiredScalars[role]) => Entries(bundle[n]) \cap {"lf", "ctl"} = {}
    /\ \A n \in Optional(role) \ DOMAIN bundle : Absent \in Entries(history[dir][n])

(***************************************************************************)
(* A file that is cut, extended or overwritten between its inspection and  *)
(* its read: what is loaded has the inspected length (a scalar may lose its*)
(* trailing line feed), and differs from what was inspected only where the *)
(* file was written since.  A cut is a failed load and appended bytes are  *)
(* never taken; bytes written over the inspected ones are, undetected      *)
(* (readFile reads exactly the inspected size, once).                      *)
(***************************************************************************)
AsInspected(n, value) ==
  /\ \/ Len(value) = Len(seen)
     \/ n \in Entries(RequiredScalars[role]) /\ Len(value) = Len(seen) - 1
  /\ \A k \in 1 .. Len(value) : value[k] = seen[k] \/ k \in written
ReadAsInspected ==
  [][\A n \in DOMAIN bundle' \ DOMAIN bundle : AsInspected(n, bundle'[n])]_vars

(***************************************************************************)
(* With nothing changing and nothing failing, a load succeeds exactly when *)
(* the directory it names is usable as it stands (load, readFile and the   *)
(* validators against one statement of the contract).                      *)
(***************************************************************************)
Usable(n) ==
  LET file == Current(unit[root], n) IN
    /\ file.kind = "file" /\ Secure(file.meta, FALSE)
    /\ Len(file.bytes) \in 1 .. MaxAssetBytes
    /\ n \in Entries(RequiredScalars[role]) =>
         \E m \in {Len(file.bytes), Len(file.bytes) - 1} :
           /\ m > 0 /\ Len(file.bytes) <= MaxScalarBytes
           /\ \A i \in 1 .. m : file.bytes[i] \in {"old", "new"}
           /\ \A i \in m + 1 .. Len(file.bytes) : file.bytes[i] = "lf"
Loadable ==
  /\ world.variable = "below" /\ root \in Trees /\ unit[root] \in Dirs
  /\ Secure(world.meta[unit[root]], TRUE) /\ world.listing[unit[root]] = "plain"
  /\ \A n \in Required(role) : Usable(n)
  /\ \A n \in Optional(role) : Current(unit[root], n) = Absent \/ Usable(n)
VerdictIsRight ==
  outcome # "loading" /\ changes = 0 /\ faults = 0 =>
    ((outcome = "loaded") = Loadable)

(***************************************************************************)
(* The verdict of a load and the bundle it returns are right together.     *)
(***************************************************************************)
OutcomeIsRight == TypeOK /\ LoadedIsComplete /\ VerdictIsRight

(***************************************************************************)
(* The loader keeps the promise the render builds on (load), whatever the  *)
(* operator and the failing calls do.                                      *)
(***************************************************************************)
Returned ==
  IF outcome = "loading" THEN [kind |-> "waiting"]
  ELSE IF outcome = "loaded" THEN [kind |-> "bundle", names |-> DOMAIN bundle]
  ELSE [kind |-> "refused", left |-> DOMAIN bundle \cap Assets(role)]
Promise == INSTANCE BundlePromise WITH role <- role, answer <- Returned
KeepsPromise == Promise!PromiseSpec
=============================================================================
