------------------------------ MODULE KeyLoader -----------------------------
(***************************************************************************)
(* loadKeyStores of provider/configurator.js with helper/keyloader.js: two *)
(* loaders work in parallel, one per section of "certificates"; each takes *)
(* a file, or all files of a folder in parallel, and merges what it could  *)
(* read into one of the two key stores of the process.  The files are on   *)
(* disk, where somebody may delete them at any time.                       *)
(*                                                                         *)
(* A step ends with a file-system call or with node-jose's import.  Keys   *)
(* are named; a file holds the keys that its JWK, JWKS or PEM text yields, *)
(* none if it is unreadable or not a key at all.                           *)
(***************************************************************************)
EXTENDS Naturals, Functions

CONSTANTS Files,     \* paths of files and folders
          Folders,   \* those that are folders
          Hidden,    \* those whose name starts with a dot
          Contents,  \* the entries of each folder
          Readable,  \* files that can be read
          KeysIn,    \* the keys in the text of each file
          Disks      \* bound: what may be on disk when the process starts

ASSUME DiskAssumption == /\ \A x \in Folders : Contents[x] \subseteq Files
                         /\ Disks \subseteq SUBSET Files

VARIABLES present,   \* files that exist
          loader,    \* the two loaders
          stores     \* this.certificates and this.integrityKeys

keyVars == <<present, loader, stores>>

Sections == {"external", "internal"}
StoreOf == [s \in Sections |->
              IF s = "external" THEN "certificates" ELSE "integrityKeys"]
Stores == {"certificates", "integrityKeys"}

(* "off", then "dir" for the folder's stat, "list" for its readdir, "files"*)
(* while files are read, "merge" before and "add" after the store is read. *)
Idle == [stage |-> "off", path |-> "", todo |-> <<>>, keys |-> {}, seen |-> {}]

KeyInit == /\ present \in Disks
           /\ loader = [s \in Sections |-> Idle]
           /\ stores = [t \in Stores |-> {}]

Vanish(f) == /\ f \in present
             /\ present' = present \ {f}
             /\ UNCHANGED <<loader, stores>>

Step(s, new) == /\ loader' = [loader EXCEPT ![s] = new]
                /\ UNCHANGED <<present, stores>>

-----------------------------------------------------------------------------
(* loadKeyStore.  Any other source than these two means no keys.           *)
Started(kind, path) ==
    CASE kind = "folder" -> [Idle EXCEPT !.stage = "dir", !.path = path]
      [] kind = "file" -> [Idle EXCEPT !.stage = "files",
                                      !.todo = [f \in {path} |-> "stat"]]
      [] OTHER -> [Idle EXCEPT !.stage = "merge"]

(* loadKeyDir: the folder must exist; if it is a file, nothing is loaded.  *)
FolderStat(s) ==
    /\ loader[s].stage = "dir" /\ loader[s].path \in present
    /\ Step(s, [loader[s] EXCEPT !.stage =
                   IF loader[s].path \in Folders THEN "list" ELSE "merge"])

FolderListed(s) ==
    /\ loader[s].stage = "list" /\ loader[s].path \in present
    /\ Step(s, [loader[s] EXCEPT
                   !.stage = "files",
                   !.todo = [f \in (Contents[loader[s].path] \cap present) \ Hidden
                               |-> "stat"]])

(* loadKey: only a regular file is read.                                   *)
Without(todo, f) == Restrict(todo, DOMAIN todo \ {f})

Todo(s, f, at) == /\ loader[s].stage = "files"
                  /\ f \in DOMAIN loader[s].todo /\ loader[s].todo[f] = at

FileStat(s, f) ==
    /\ Todo(s, f, "stat") /\ f \in present
    /\ Step(s, [loader[s] EXCEPT !.todo =
                   IF f \in Folders THEN Without(@, f) ELSE [@ EXCEPT ![f] = "read"]])

(* A file that is gone by now, cannot be read or makes no key is skipped.  *)
Loads(f) == IF f \in present \cap Readable THEN KeysIn[f] ELSE {}

FileRead(s, f) ==
    /\ Todo(s, f, "read")
    /\ Step(s, [loader[s] EXCEPT !.todo = Without(@, f), !.keys = @ \cup Loads(f)])

FilesUnawaited(s) ==  \* mutant: loadKeyDir does not return handleDirFiles
    /\ loader[s].stage = "files"
    /\ Step(s, [loader[s] EXCEPT !.stage = "merge"])

FilesDone(s) == /\ loader[s].stage = "files" /\ DOMAIN loader[s].todo = {}
                /\ Step(s, [loader[s] EXCEPT !.stage = "merge"])

(* What rejects the whole load: a folder or a listed file that is gone     *)
(* before its stat or readdir.                                             *)
LoadRejected == \E s \in Sections :
    \/ loader[s].stage \in {"dir", "list"} /\ loader[s].path \notin present
    \/ \E f \in DOMAIN loader[s].todo : Todo(s, f, "stat") /\ f \notin present

(* mergeStore: the store is read, the keys are added to the copy, and the  *)
(* copy takes the store's place.                                           *)
MergeReads(s) ==
    /\ loader[s].stage = "merge"
    /\ Step(s, [loader[s] EXCEPT !.stage = "add", !.seen = stores[StoreOf[s]]])

MergeIntoCertificates(s) ==  \* mutant: both sections go to one store
    /\ loader[s].stage = "add"
    /\ stores' = [stores EXCEPT !["certificates"] = loader[s].seen \cup loader[s].keys]
    /\ loader' = [loader EXCEPT ![s].stage = "merged"]
    /\ UNCHANGED present

MergeWrites(s) ==
    /\ loader[s].stage = "add"
    /\ stores' = [stores EXCEPT ![StoreOf[s]] = loader[s].seen \cup loader[s].keys]
    /\ loader' = [loader EXCEPT ![s].stage = "merged"]
    /\ UNCHANGED present

LoaderStep(s) == \/ FolderStat(s) \/ FolderListed(s)
                 \/ \E f \in DOMAIN loader[s].todo : FileStat(s, f) \/ FileRead(s, f)
                 \/ FilesDone(s)
                 \/ MergeReads(s) \/ MergeWrites(s)

KeyStep == \E s \in Sections : LoaderStep(s)

KeysLoaded == \A s \in Sections : loader[s].stage = "merged"
=============================================================================
