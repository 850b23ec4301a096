---------------------------- MODULE StartupProofs ---------------------------
(***************************************************************************)
(* The safety of the start and of what the process keeps of its            *)
(* configurations, for every search path, every set of configurations and  *)
(* files, and every order in which the file system answers.                *)
(***************************************************************************)
EXTENDS Startup, WellFoundedInduction, TLAPS

LEMMA Nothing == DOMAIN <<>> = {} /\ Len(<<>>) = 0 /\ \A S : <<>> \in Seq(S)
OBVIOUS

LEMMA Stored == /\ StoreOf["external"] = "certificates"
                /\ StoreOf["internal"] = "integrityKeys"
                /\ \A s \in Sections : StoreOf[s] \in Stores
                /\ \A s, t \in Sections : StoreOf[s] = StoreOf[t] => s = t
BY DEF StoreOf, Sections, Stores

-----------------------------------------------------------------------------
(* Directories without the file stay without it, and the file that was     *)
(* chosen first is that of a directory behind such ones only.              *)
SearchInv ==
    /\ \A d \in DOMAIN Dirs :
          stats[d] = "none" => FileIn[Dirs[d]] \notin present \ Folders
    /\ phase = "search" => loaded = <<>>
    /\ phase = "read" => chosen \in Searched
    /\ phase = "read" /\ loaded = <<>> =>
          \E e \in DOMAIN Dirs :
             /\ chosen = FileIn[Dirs[e]]
             /\ \A d \in DOMAIN Dirs : d < e => stats[d] = "none"

(* The mappings that are no longer being read are there.                   *)
Initializing == {"maps", "keys", "provider", "bind", "listening"}
MapInv ==
    phase \in Initializing =>
        /\ maps \subseteq Mapped
        /\ \A m \in Mapped \ maps : /\ Lower[m] \in DOMAIN mapping
                                    /\ mapping[Lower[m]] = MapIn[MapFile(m)]
        /\ phase # "maps" => maps = {}

(* How far the loader l of section c is, whose store is st, with the files *)
(* here on disk: what it has is from files of the section, and every file  *)
(* that still exists is in it or has yet to be read.                       *)
Loading(l, c, st, here) ==
    /\ l.stage # "off"
    /\ l.keys \subseteq KeysOf(Named(c))
    /\ DOMAIN l.todo \subseteq Named(c)
    /\ \A f \in DOMAIN l.todo : l.todo[f] = "read" => f \notin Folders
    /\ l.stage \in {"dir", "list"} => c.source = "folder" /\ l.path = c.path
    /\ l.stage = "list" => c.path \in Folders
    /\ l.stage = "files" =>
          \A f \in Named(c) \cap here :
             f \notin Folders /\ f \in Readable
                => f \in DOMAIN l.todo \/ KeysIn[f] \subseteq l.keys
    /\ l.stage \in {"merge", "add"} => KeysOf(Named(c) \cap here) \subseteq l.keys
    /\ l.stage # "merged" => st = {}
    /\ l.stage = "add" => l.seen = {}
    /\ l.stage = "merged" => /\ KeysOf(Named(c) \cap here) \subseteq st
                             /\ st \subseteq KeysOf(Named(c))

KeyInv ==
    /\ phase \in {"search", "read", "configured", "maps"} =>
          \A s \in Sections : loader[s] = Idle /\ stores[StoreOf[s]] = {}
    /\ phase \in {"keys", "provider", "bind", "listening"} =>
          \A s \in Sections :
             Loading(loader[s], Config[s], stores[StoreOf[s]], present)
    /\ phase \in {"provider", "bind", "listening"} => KeysLoaded

(* Every connection that is open was opened as a configuration describes.  *)
ConnInv == \A s \in DOMAIN ldapConns : \E i \in DOMAIN loaded :
               /\ s \in DOMAIN loaded[i].sources
               /\ ldapConns[s] = loaded[i].sources[s]

(* The defaults hold what was shipped and what the configurations left.    *)
AllLoaded == {loaded[i] : i \in DOMAIN loaded}
DefaultsInv == \A k \in DOMAIN defaults : \A m \in DOMAIN defaults[k] :
                   LeftBy(k, m, defaults[k][m], AllLoaded)

IInv == /\ TypeOK
        /\ SearchInv
        /\ MapInv
        /\ KeyInv
        /\ ConnInv
        /\ DefaultsInv
        /\ SettingsExplained

-----------------------------------------------------------------------------
LEMMA IdleType == Idle \in Loaders /\ DOMAIN Idle.todo = {} /\ Idle.stage = "off"
<1>1. <<>> \in [{} -> {"stat", "read"}] /\ DOMAIN <<>> = {}
    OBVIOUS
<1>2. <<>> \in Todos
    BY <1>1 DEF Todos
<1> QED BY <1>1, <1>2 DEF Idle, Loaders

LEMMA InitIInv == Init => IInv
<1> SUFFICES ASSUME Init PROVE IInv
    OBVIOUS
<1> USE DEF Init, CfgInit, KeyInit
<1>1. TypeOK
  <2>1. phase \in Phases /\ phase \in {"search", "read", "exited"}
    BY DEF Phases
  <2>4. loaded \in Seq(Configs)
    BY Nothing
  <2>3. /\ stats \in [DOMAIN Dirs -> {"asked", "file", "none"}]
        /\ chosen \in Searched \cup {""}
        /\ present \subseteq Files
        /\ DOMAIN mapping \subseteq {Lower[m] : m \in Models}
    BY Nothing, DiskAssumption
  <2>2. stores \in [Stores -> SUBSET Keys]
    OBVIOUS
  <2> QED BY <2>1, <2>2, <2>3, <2>4, IdleType DEF TypeOK
<1>2. SearchInv /\ MapInv
    BY DEF SearchInv, MapInv, Initializing
<1>3. KeyInv
    BY Stored DEF KeyInv
<1>4. ConnInv /\ SettingsExplained
    BY Nothing DEF ConnInv, SettingsExplained
<1>5. DefaultsInv
  <2>1. AllLoaded = {}
    BY Nothing DEF AllLoaded
  <2> QED BY <2>1 DEF DefaultsInv, LeftBy, Left
<1> QED BY <1>1, <1>2, <1>3, <1>4, <1>5 DEF IInv

-----------------------------------------------------------------------------
(* The loaders, one step of one of them at a time.                         *)
LoaderType(l) == l \in Loaders /\ (l.stage # "files" => DOMAIN l.todo = {})
LoadersType == /\ stores \in [Stores -> SUBSET Keys]
               /\ DOMAIN loader = Sections
               /\ \A s \in Sections : LoaderType(loader[s])

Reading(t) == DOMAIN t \subseteq Files /\ t \in [DOMAIN t -> {"stat", "read"}]

LEMMA TodosAre == \A t : t \in Todos <=> Reading(t)
BY DEF Todos, Reading

LEMMA LoaderIs ==
    ASSUME NEW l \in Loaders
    PROVE  /\ l.todo \in Todos
           /\ l.path \in Files \cup {""}
           /\ l.keys \subseteq Keys /\ l.seen \subseteq Keys
BY DEF Loaders

LEMMA Edited ==
    ASSUME NEW l \in Loaders, NEW t \in Todos, NEW k \in SUBSET Keys,
           NEW st \in {"off", "dir", "list", "files", "merge", "add", "merged"}
    PROVE  /\ [l EXCEPT !.stage = st] \in Loaders
           /\ [l EXCEPT !.stage = st, !.todo = t] \in Loaders
           /\ [l EXCEPT !.todo = t] \in Loaders
           /\ [l EXCEPT !.todo = t, !.keys = k] \in Loaders
           /\ [l EXCEPT !.stage = st, !.seen = k] \in Loaders
<1> USE DEF Loaders
<1>1. [l EXCEPT !.stage = st] \in Loaders
    OBVIOUS
<1>2. [l EXCEPT !.stage = st, !.todo = t] \in Loaders
    OBVIOUS
<1>3. [l EXCEPT !.todo = t] \in Loaders
    OBVIOUS
<1>4. [l EXCEPT !.todo = t, !.keys = k] \in Loaders
    OBVIOUS
<1>5. [l EXCEPT !.stage = st, !.seen = k] \in Loaders
    OBVIOUS
<1> QED BY <1>1, <1>2, <1>3, <1>4, <1>5

LEMMA Stepped ==
    ASSUME NEW s \in Sections, NEW new, DOMAIN loader = Sections, Step(s, new)
    PROVE  /\ loader'[s] = new
           /\ \A t \in Sections \ {s} : loader'[t] = loader[t]
           /\ DOMAIN loader' = Sections
           /\ UNCHANGED <<present, stores>>
BY DEF Step

LEMMA SteppedType ==
    ASSUME NEW s \in Sections, NEW new, LoadersType, Step(s, new), LoaderType(new)
    PROVE  LoadersType'
BY Stepped DEF LoadersType

(* Fewer files to be read are files to be read.                            *)
LEMMA ReadingLess ==
    ASSUME NEW t, Reading(t), NEW f \in DOMAIN t
    PROVE  /\ Reading(Without(t, f)) /\ DOMAIN Without(t, f) = DOMAIN t \ {f}
           /\ \A g \in DOMAIN t \ {f} : Without(t, f)[g] = t[g]
BY DEF Reading, Without, Restrict

LEMMA ReadingOn ==
    ASSUME NEW t, Reading(t), NEW f \in DOMAIN t, NEW r, r = [t EXCEPT ![f] = "read"]
    PROVE  /\ Reading(r) /\ DOMAIN r = DOMAIN t
           /\ \A g \in DOMAIN t \ {f} : r[g] = t[g]
BY DEF Reading

LEMMA KeysTyped == \A fs \in SUBSET Files : KeysOf(fs) \subseteq Keys
BY DEF KeysOf, Keys

(* A step of one loader keeps what is known of it and lets the other be.   *)
LEMMA LoaderStepKeeps ==
    ASSUME LoadersType, present \subseteq Files, NEW s \in Sections, NEW c,
           Loading(loader[s], c, stores[StoreOf[s]], present),
           LoaderStep(s)
    PROVE  /\ LoadersType'
           /\ Loading(loader'[s], c, stores'[StoreOf[s]], present)
           /\ \A t \in Sections \ {s} : /\ loader'[t] = loader[t]
                                       /\ stores'[StoreOf[t]] = stores[StoreOf[t]]
           /\ UNCHANGED present
<1> DEFINE l == loader[s]
           here == KeysOf(Named(c) \cap present)
<1>a. /\ l \in Loaders /\ l.todo \in Todos /\ Reading(l.todo)
      /\ l.keys \subseteq Keys /\ l.seen \subseteq Keys
      /\ l.path \in Files \cup {""}
      /\ l.stage # "files" => DOMAIN l.todo = {}
      /\ DOMAIN loader = Sections
    BY LoaderIs, TodosAre DEF LoadersType, LoaderType
<1>b. ASSUME NEW new, Step(s, new), LoaderType(new),
             Loading(new, c, stores[StoreOf[s]], present)
      PROVE  /\ LoadersType'
             /\ Loading(loader'[s], c, stores'[StoreOf[s]], present)
             /\ \A t \in Sections \ {s} : /\ loader'[t] = loader[t]
                                         /\ stores'[StoreOf[t]] = stores[StoreOf[t]]
             /\ UNCHANGED present
    BY <1>a, <1>b, Stepped, SteppedType
<1>1. CASE FolderStat(s)
  <2> DEFINE st == IF l.path \in Folders THEN "list" ELSE "merge"
             new == [l EXCEPT !.stage = st]
  <2>1. Step(s, new) /\ l.stage = "dir"
    BY <1>1 DEF FolderStat
  <2>2. new \in Loaders
    BY <1>a, Edited
  <2>3. new.stage = st /\ new.path = l.path /\ new.todo = l.todo /\ new.keys = l.keys
    BY <1>a DEF Loaders
  <2> HIDE DEF new
  <2>4. LoaderType(new)
    BY <2>1, <2>2, <2>3, <1>a DEF LoaderType
  <2>5. c.source = "folder" /\ l.path = c.path
    BY <2>1 DEF Loading
  <2>6. ASSUME c.path \notin Folders PROVE here = {}
    BY <2>5, <2>6 DEF Named, KeysOf
  <2>7. Loading(new, c, stores[StoreOf[s]], present)
    BY <2>1, <2>3, <2>5, <2>6, <1>a DEF Loading
  <2> QED BY <2>1, <2>4, <2>7, <1>b
<1>2. CASE FolderListed(s)
  <2> DEFINE t == [f \in (Contents[l.path] \cap present) \ Hidden |-> "stat"]
             new == [l EXCEPT !.stage = "files", !.todo = t]
  <2>1. Step(s, new) /\ l.stage = "list"
    BY <1>2 DEF FolderListed
  <2>2. /\ DOMAIN t = (Contents[l.path] \cap present) \ Hidden
        /\ Reading(t) /\ t \in Todos
        /\ \A f \in DOMAIN t : t[f] = "stat"
    BY TodosAre DEF Reading
  <2> HIDE DEF t
  <2>3. new \in Loaders
    BY <1>a, <2>2, Edited
  <2>4. new.stage = "files" /\ new.path = l.path /\ new.todo = t /\ new.keys = l.keys
    BY <1>a DEF Loaders
  <2> HIDE DEF new
  <2>5. LoaderType(new)
    BY <2>3, <2>4 DEF LoaderType
  <2>6. Named(c) = Contents[l.path] \ Hidden
    BY <2>1 DEF Loading, Named
  <2>7. Loading(new, c, stores[StoreOf[s]], present)
    BY <2>1, <2>2, <2>4, <2>6, <1>a DEF Loading
  <2> QED BY <2>1, <2>5, <2>7, <1>b
<1>3. ASSUME NEW f \in DOMAIN l.todo, FileStat(s, f)
      PROVE  /\ LoadersType'
             /\ Loading(loader'[s], c, stores'[StoreOf[s]], present)
             /\ \A t \in Sections \ {s} : /\ loader'[t] = loader[t]
                                         /\ stores'[StoreOf[t]] = stores[StoreOf[t]]
             /\ UNCHANGED present
  <2> DEFINE t == IF f \in Folders THEN Without(l.todo, f)
                  ELSE [l.todo EXCEPT ![f] = "read"]
             new == [l EXCEPT !.todo = t]
  <2>1. Step(s, new) /\ l.stage = "files"
    BY <1>3 DEF FileStat, Todo
  <2>2. /\ t \in Todos
        /\ DOMAIN t = IF f \in Folders THEN DOMAIN l.todo \ {f} ELSE DOMAIN l.todo
        /\ \A g \in DOMAIN t : t[g] = l.todo[g] \/ (g = f /\ f \notin Folders)
    <3>1. CASE f \in Folders
        BY <3>1, <1>a, ReadingLess, TodosAre
    <3>2. CASE f \notin Folders
        BY <3>2, <1>a, ReadingOn, TodosAre
    <3> QED BY <3>1, <3>2
  <2> HIDE DEF t
  <2>3. new \in Loaders
    BY <1>a, <2>2, Edited
  <2>4. new.stage = "files" /\ new.path = l.path /\ new.todo = t /\ new.keys = l.keys
    BY <1>a, <2>1 DEF Loaders
  <2> HIDE DEF new
  <2>5. LoaderType(new)
    BY <2>3, <2>4 DEF LoaderType
  <2>6. Loading(new, c, stores[StoreOf[s]], present)
    BY <2>1, <2>2, <2>4, <1>a DEF Loading
  <2> QED BY <2>1, <2>5, <2>6, <1>b
<1>4. ASSUME NEW f \in DOMAIN l.todo, FileRead(s, f)
      PROVE  /\ LoadersType'
             /\ Loading(loader'[s], c, stores'[StoreOf[s]], present)
             /\ \A t \in Sections \ {s} : /\ loader'[t] = loader[t]
                                         /\ stores'[StoreOf[t]] = stores[StoreOf[t]]
             /\ UNCHANGED present
  <2> DEFINE t == Without(l.todo, f)
             k == l.keys \cup Loads(f)
             new == [l EXCEPT !.todo = t, !.keys = k]
  <2>1. Step(s, new) /\ l.stage = "files" /\ l.todo[f] = "read"
    BY <1>4 DEF FileRead, Todo
  <2>2. /\ t \in Todos /\ DOMAIN t = DOMAIN l.todo \ {f}
        /\ \A g \in DOMAIN t : t[g] = l.todo[g]
    BY <1>a, ReadingLess, TodosAre
  <2>3. f \in Files /\ f \in Named(c) \ Folders
    BY <2>1, <1>a DEF Loading, Reading
  <2>4. /\ Loads(f) \subseteq KeysOf(Named(c)) /\ k \subseteq Keys
        /\ f \in present \cap Readable => KeysIn[f] \subseteq k
    BY <2>3, <1>a DEF Loads, KeysOf, Keys
  <2> HIDE DEF t, k
  <2>5. new \in Loaders
    BY <1>a, <2>2, <2>4, Edited
  <2>6. new.stage = "files" /\ new.path = l.path /\ new.todo = t /\ new.keys = k
    BY <1>a, <2>1 DEF Loaders
  <2> HIDE DEF new
  <2>7. LoaderType(new)
    BY <2>5, <2>6 DEF LoaderType
  <2>8. l.keys \subseteq k /\ k \subseteq KeysOf(Named(c))
    BY <2>4 DEF Loading, k
  <2>9. Loading(new, c, stores[StoreOf[s]], present)
    BY <2>1, <2>2, <2>4, <2>6, <2>8, <1>a DEF Loading
  <2> QED BY <2>1, <2>7, <2>9, <1>b
<1>5. CASE FilesDone(s)
  <2> DEFINE new == [l EXCEPT !.stage = "merge"]
  <2>1. Step(s, new) /\ l.stage = "files" /\ DOMAIN l.todo = {}
    BY <1>5 DEF FilesDone
  <2>2. new \in Loaders
    BY <1>a, Edited
  <2>3. new.stage = "merge" /\ new.path = l.path /\ new.todo = l.todo /\ new.keys = l.keys
    BY <1>a DEF Loaders
  <2> HIDE DEF new
  <2>4. LoaderType(new)
    BY <2>1, <2>2, <2>3 DEF LoaderType
  <2>5. here \subseteq l.keys
    BY <2>1 DEF Loading, KeysOf
  <2>6. Loading(new, c, stores[StoreOf[s]], present)
    BY <2>1, <2>3, <2>5, <1>a DEF Loading
  <2> QED BY <2>1, <2>4, <2>6, <1>b
<1>6. CASE MergeReads(s)
  <2> DEFINE new == [l EXCEPT !.stage = "add", !.seen = stores[StoreOf[s]]]
  <2>1. Step(s, new) /\ l.stage = "merge"
    BY <1>6 DEF MergeReads
  <2>2. stores[StoreOf[s]] = {} /\ here \subseteq l.keys /\ DOMAIN l.todo = {}
    BY <2>1, <1>a DEF Loading
  <2>3. new \in Loaders
    BY <1>a, <2>2, Edited
  <2>4. /\ new.stage = "add" /\ new.path = l.path /\ new.todo = l.todo
        /\ new.keys = l.keys /\ new.seen = stores[StoreOf[s]]
    BY <1>a DEF Loaders
  <2> HIDE DEF new
  <2>5. LoaderType(new)
    BY <2>2, <2>3, <2>4 DEF LoaderType
  <2>6. Loading(new, c, stores[StoreOf[s]], present)
    BY <2>1, <2>2, <2>4 DEF Loading
  <2> QED BY <2>1, <2>5, <2>6, <1>b
<1>7. CASE MergeWrites(s)
  <2> DEFINE new == [l EXCEPT !.stage = "merged"]
  <2>1. /\ l.stage = "add" /\ loader' = [loader EXCEPT ![s] = new]
        /\ stores' = [stores EXCEPT ![StoreOf[s]] = l.seen \cup l.keys]
        /\ UNCHANGED present
    BY <1>7 DEF MergeWrites
  <2>2. /\ l.seen = {} /\ here \subseteq l.keys /\ l.keys \subseteq KeysOf(Named(c))
        /\ DOMAIN l.todo = {}
    BY <2>1, <1>a DEF Loading
  <2>3. new \in Loaders
    BY <1>a, Edited
  <2>4. new.stage = "merged" /\ new.path = l.path /\ new.todo = l.todo /\ new.keys = l.keys
    BY <1>a DEF Loaders
  <2> HIDE DEF new
  <2>5. loader'[s] = new /\ LoaderType(new) /\ DOMAIN loader' = Sections
    BY <2>1, <2>2, <2>3, <2>4, <1>a DEF LoaderType
  <2>6. stores'[StoreOf[s]] = l.keys /\ stores' \in [Stores -> SUBSET Keys]
    BY <2>1, <2>2, <1>a, Stored DEF LoadersType
  <2>7. \A t \in Sections \ {s} : /\ loader'[t] = loader[t]
                                 /\ stores'[StoreOf[t]] = stores[StoreOf[t]]
    BY <2>1, <1>a, Stored DEF LoadersType
  <2>8. LoadersType'
    BY <2>5, <2>6, <2>7 DEF LoadersType, LoaderType
  <2>9. Loading(new, c, l.keys, present)
    BY <2>2, <2>4 DEF Loading
  <2> QED BY <2>1, <2>5, <2>6, <2>7, <2>8, <2>9
<1> QED BY <1>1, <1>2, <1>3, <1>4, <1>5, <1>6, <1>7 DEF LoaderStep

-----------------------------------------------------------------------------
LEMMA TypeParts ==
    TypeOK <=> /\ phase \in Phases
               /\ stats \in [DOMAIN Dirs -> {"asked", "file", "none"}]
               /\ chosen \in Searched \cup {""}
               /\ present \subseteq Files
               /\ loaded \in Seq(Configs)
               /\ loaded = <<>> => phase \in {"search", "read", "exited"}
               /\ DOMAIN mapping \subseteq {Lower[m] : m \in Models}
               /\ LoadersType
BY DEF TypeOK, LoadersType, LoaderType

(* The configuration in force is one of those that can be found.           *)
LEMMA InForce ==
    ASSUME TypeOK, loaded # <<>>
    PROVE  Config \in Configs /\ Len(loaded) \in DOMAIN loaded
<1>1. loaded \in Seq(Configs)
    BY DEF TypeOK
<1>2. Len(loaded) \in 1..Len(loaded) /\ DOMAIN loaded = 1..Len(loaded)
    BY <1>1
<1> QED BY <1>1, <1>2 DEF Config

(* Of the directories with a file one comes first.                         *)
LEMMA BestHitIs ==
    ASSUME TypeOK, Hits # {}
    PROVE  BestHit \in Hits /\ \A e \in Hits : BestHit <= e
<1>1. Hits \subseteq Nat
    BY StartupAssumption DEF TypeOK, Hits
<1>2. \E d \in Hits : \A e \in Hits : ~(<<e, d>> \in OpToRel(<, Nat))
    BY <1>1, NatLessThanWellFounded, WFMin, Zenon
<1>3. \A d, e \in Nat : ~(<<e, d>> \in OpToRel(<, Nat)) => ~(e < d)
    BY Zenon DEF OpToRel
<1>4. \E d \in Hits : \A e \in Hits : ~(e < d)
    BY <1>1, <1>2, <1>3
<1>5. \E d \in Hits : \A e \in Hits : d <= e
    BY <1>1, <1>4
<1> QED BY <1>5 DEF BestHit

LEMMA ConfigAppended ==
    ASSUME TypeOK, NEW c \in Configs, loaded' = Append(loaded, c)
    PROVE  /\ loaded' \in Seq(Configs) /\ loaded' # <<>>
           /\ Config' = c
           /\ AllLoaded' = AllLoaded \cup {c}
           /\ Earlier' = AllLoaded
           /\ DOMAIN loaded \subseteq DOMAIN loaded'
           /\ \A i \in DOMAIN loaded : loaded'[i] = loaded[i]
<1>1. loaded \in Seq(Configs)
    BY DEF TypeOK
<1>2. /\ loaded' \in Seq(Configs) /\ Len(loaded') = Len(loaded) + 1
      /\ loaded'[Len(loaded) + 1] = c
      /\ DOMAIN loaded = 1..Len(loaded) /\ DOMAIN loaded' = 1..(Len(loaded) + 1)
      /\ \A i \in DOMAIN loaded : loaded'[i] = loaded[i]
      /\ Len(loaded) \in Nat
    BY <1>1
<1>3. loaded' # <<>> /\ Config' = c
    BY <1>2, Nothing DEF Config
<1>4. AllLoaded' = AllLoaded \cup {c}
    BY <1>2 DEF AllLoaded
<1>5. Earlier' = AllLoaded
    BY <1>2 DEF Earlier, AllLoaded
<1> QED BY <1>2, <1>3, <1>4, <1>5

-----------------------------------------------------------------------------
LEMMA LoadersUnchanged ==
    ASSUME LoadersType, UNCHANGED <<loader, stores>>
    PROVE  LoadersType'
BY DEF LoadersType, LoaderType

(* What loadKeyStores begins with for a section.                           *)
LEMMA StartedType ==
    ASSUME NEW c \in Configs, NEW s \in Sections,
           NEW l, l = Started(c[s].source, c[s].path)
    PROVE  /\ LoaderType(l)
           /\ \A here \in SUBSET Files : Loading(l, c[s], {}, here)
<1> DEFINE src == c[s].source
           path == c[s].path
<1>a. /\ Idle \in Loaders /\ Idle.todo = <<>> /\ DOMAIN Idle.todo = {} /\ Idle.keys = {}
      /\ Idle.todo \in Todos
    BY IdleType, LoaderIs DEF Idle
<1>1. CASE src = "folder"
  <2>1. l = [Idle EXCEPT !.stage = "dir", !.path = path]
    BY <1>1 DEF Started
  <2>2. path \in Files
    BY <1>1, StartupAssumption
  <2>3. l \in Loaders
    BY <2>1, <2>2, <1>a DEF Loaders
  <2>4. /\ l.stage = "dir" /\ l.path = path /\ DOMAIN l.todo = {} /\ l.keys = {}
    BY <2>1, <1>a DEF Loaders
  <2> QED BY <2>3, <2>4, <1>1 DEF LoaderType, Loading
<1>2. CASE src = "file"
  <2> DEFINE t == [f \in {path} |-> "stat"]
  <2>1. l = [Idle EXCEPT !.stage = "files", !.todo = t]
    BY <1>2 DEF Started
  <2>2. path \in Files
    BY <1>2, StartupAssumption
  <2>3. /\ DOMAIN t = {path} /\ t[path] = "stat" /\ Reading(t) /\ t \in Todos
    BY <2>2, TodosAre DEF Reading
  <2> HIDE DEF t
  <2>4. l \in Loaders
    BY <2>1, <2>3, <1>a DEF Loaders
  <2>5. /\ l.stage = "files" /\ l.todo = t /\ l.keys = {}
    BY <2>1, <1>a DEF Loaders
  <2>6. Named(c[s]) = {path}
    BY <1>2 DEF Named
  <2> QED BY <2>3, <2>4, <2>5, <2>6 DEF LoaderType, Loading
<1>3. CASE src \notin {"folder", "file"}
  <2>1. l = [Idle EXCEPT !.stage = "merge"]
    BY <1>3 DEF Started
  <2>2. l \in Loaders
    BY <2>1, <1>a, Edited
  <2>3. /\ l.stage = "merge" /\ DOMAIN l.todo = {} /\ l.keys = {}
    BY <2>1, <1>a DEF Loaders
  <2>4. Named(c[s]) = {}
    BY <1>3 DEF Named
  <2>5. \A here : KeysOf(Named(c[s]) \cap here) = {}
    BY <2>4 DEF KeysOf
  <2> QED BY <2>2, <2>3, <2>4, <2>5 DEF LoaderType, Loading
<1> QED BY <1>1, <1>2, <1>3

-----------------------------------------------------------------------------
(* A step changes the configuration, or the keys, or neither.              *)
LEMMA TypeStep ==
    ASSUME TypeOK, SearchInv, MapInv, KeyInv, [Next]_vars
    PROVE  TypeOK'
<1> USE DEF Phases
<1>a. /\ phase \in Phases
      /\ stats \in [DOMAIN Dirs -> {"asked", "file", "none"}]
      /\ chosen \in Searched \cup {""}
      /\ present \subseteq Files
      /\ loaded \in Seq(Configs)
      /\ loaded = <<>> => phase \in {"search", "read", "exited"}
      /\ DOMAIN mapping \subseteq {Lower[m] : m \in Models}
      /\ LoadersType
    BY TypeParts
<1>b. ASSUME /\ phase' \in Phases
             /\ stats' \in [DOMAIN Dirs -> {"asked", "file", "none"}]
             /\ chosen' \in Searched \cup {""}
             /\ present' \subseteq Files
             /\ loaded' \in Seq(Configs)
             /\ loaded' = <<>> => phase' \in {"search", "read", "exited"}
             /\ DOMAIN mapping' \subseteq {Lower[m] : m \in Models}
             /\ LoadersType'
      PROVE  TypeOK'
    BY <1>b DEF TypeOK, LoadersType, LoaderType
<1>c. UNCHANGED <<loader, stores>> => LoadersType'
    BY <1>a, LoadersUnchanged
<1>1. ASSUME Exits PROVE TypeOK'
    BY <1>1, <1>a, <1>b, <1>c DEF Exits, cfgVars, keyVars
<1>2. ASSUME NEW d \in DOMAIN Dirs, Stat(d) PROVE TypeOK'
    BY <1>2, <1>a, <1>b, <1>c DEF Stat, cfgVars, keyVars
<1>3. CASE Choose
  <2>1. chosen' \in Searched
    BY <1>3, <1>a, BestHitIs DEF Choose, Searched, Hits
  <2> QED BY <2>1, <1>3, <1>a, <1>b, <1>c DEF Choose, Answered, SearchInv, cfgVars, keyVars
<1>4. CASE LoadConfiguration
  <2>1. ConfigIn[chosen] \in Configs
    BY <1>4 DEF LoadConfiguration, SearchInv, Usable, Configs
  <2>2. /\ loaded' = Append(loaded, ConfigIn[chosen]) /\ mapping' = <<>>
        /\ phase' = "configured" /\ UNCHANGED <<loader, stores, present, stats, chosen>>
    BY <1>4 DEF LoadConfiguration, Configure, keyVars
  <2>3. loaded' \in Seq(Configs) /\ loaded' # <<>>
    BY <2>1, <2>2, ConfigAppended
  <2> QED BY <2>2, <2>3, <1>a, <1>b, <1>c, Nothing
<1>5. ASSUME NEW f \in Searched, LoadAgain(f) PROVE TypeOK'
    BY <1>5, <1>a, <1>b, <1>c DEF LoadAgain, cfgVars, keyVars
<1>6. CASE Initialize
    BY <1>6, <1>a, <1>b, <1>c, Nothing DEF Initialize, keyVars
<1>7. ASSUME NEW m \in maps, MapFileRead(m) PROVE TypeOK'
  <2>1. loaded # <<>> /\ m \in Mapped
    BY <1>7, <1>a DEF MapFileRead, MapInv, Initializing
  <2>2. m \in Models
    BY <2>1, InForce, StartupAssumption DEF Mapped
  <2>3. DOMAIN mapping' = {Lower[m]} \cup DOMAIN mapping
    BY <1>7 DEF MapFileRead, Over, Entry
  <2> QED BY <2>2, <2>3, <1>7, <1>a, <1>b, <1>c DEF MapFileRead, keyVars
<1>8. CASE KeysStart
  <2>1. loaded # <<>>
    BY <1>8, <1>a DEF KeysStart
  <2>2. LoadersType'
    BY <2>1, <1>8, <1>a, InForce, StartedType DEF KeysStart, LoadersType, LoaderType
  <2> QED BY <2>2, <1>8, <1>a, <1>b DEF KeysStart, cfgVars
<1>9. CASE KeysStep
  <2>1. PICK s \in Sections : LoaderStep(s)
    BY <1>9 DEF KeysStep, KeyStep
  <2>2. Loading(loader[s], Config[s], stores[StoreOf[s]], present)
    BY <1>9 DEF KeysStep, KeyInv
  <2>3. LoadersType' /\ UNCHANGED present
    BY <2>1, <2>2, <1>a, LoaderStepKeeps
  <2> QED BY <2>3, <1>9, <1>a, <1>b DEF KeysStep, cfgVars, startVars
<1>10. CASE KeysEnd \/ ProviderReady \/ PortBound
    BY <1>10, <1>a, <1>b, <1>c DEF KeysEnd, ProviderReady, PortBound, cfgVars, keyVars
<1>11. ASSUME NEW name \in Models, Adapter(name) PROVE TypeOK'
    BY <1>11, <1>a, <1>b, <1>c DEF Adapter, GetAdapter, keyVars, startVars
<1>12. ASSUME NEW f \in Vanishing, Delete(f) PROVE TypeOK'
    BY <1>12, <1>a, <1>b, <1>c DEF Delete, Vanish, cfgVars, startVars
<1>13. CASE UNCHANGED vars
    BY <1>13, <1>a, <1>b, <1>c DEF vars, cfgVars, keyVars, startVars
<1> QED
  BY <1>1, <1>2, <1>3, <1>4, <1>5, <1>6, <1>7, <1>8, <1>9, <1>10, <1>11, <1>12, <1>13
  DEF Next, Start, NothingFound, ConfigurationBroken, MapFileBroken, KeysRejected,
      ProviderFails, PortTaken

LEMMA SearchStep ==
    ASSUME TypeOK, SearchInv, [Next]_vars
    PROVE  SearchInv'
<1> USE DEF SearchInv
<1>1. ASSUME phase' # "search", phase' # "read", UNCHANGED stats, present' \subseteq present
      PROVE  SearchInv'
    BY <1>1
<1>2. ASSUME NEW d \in DOMAIN Dirs, Stat(d) PROVE SearchInv'
  <2>1. /\ phase = "search" /\ UNCHANGED <<phase, present, loaded, chosen>>
        /\ \A e \in DOMAIN Dirs : stats'[e] = "none" =>
              stats[e] = "none" \/ FileIn[Dirs[e]] \notin present \ Folders
    BY <1>2 DEF Stat, TypeOK, cfgVars, keyVars
  <2> QED BY <2>1
<1>3. CASE Choose
  <2>1. /\ BestHit \in DOMAIN Dirs
        /\ \A e \in Hits : BestHit <= e
    BY <1>3, BestHitIs DEF Choose, Hits, TypeOK
  <2>2. \A d \in DOMAIN Dirs : d < BestHit => stats[d] = "none"
    <3> TAKE d \in DOMAIN Dirs
    <3>1. stats[d] \in {"asked", "file", "none"} /\ stats[d] # "asked"
        BY <1>3 DEF Choose, Answered, TypeOK
    <3>2. d \in Nat /\ BestHit \in Nat
        BY <2>1, StartupAssumption
    <3>3. stats[d] = "file" => BestHit <= d
        BY <2>1 DEF Hits, TypeOK
    <3> QED BY <3>1, <3>2, <3>3
  <2>3. chosen' = FileIn[Dirs[BestHit]] /\ chosen' \in Searched
    BY <2>1, <1>3 DEF Choose, Searched
  <2> QED BY <2>1, <2>2, <2>3, <1>3 DEF Choose, cfgVars, keyVars
<1>4. ASSUME NEW f \in Searched, LoadAgain(f) PROVE SearchInv'
  <2>1. loaded # <<>>
    BY <1>4 DEF LoadAgain, TypeOK
  <2> QED BY <2>1, <1>4 DEF LoadAgain, cfgVars, keyVars
<1>5. ASSUME NEW f \in Vanishing, Delete(f) PROVE SearchInv'
    BY <1>5 DEF Delete, Vanish, cfgVars, startVars
<1>6. ASSUME NEW name \in Models, Adapter(name) PROVE SearchInv'
    BY <1>6 DEF Adapter, GetAdapter, keyVars, startVars
<1>7. ASSUME KeysStep PROVE SearchInv'
  <2>1. phase = "keys" /\ UNCHANGED <<phase, stats>>
    BY <1>7 DEF KeysStep, startVars
  <2>2. UNCHANGED present
    BY <1>7 DEF KeysStep, KeyStep, LoaderStep, FolderStat, FolderListed, FileStat, FileRead,
                FilesDone, MergeReads, MergeWrites, Step
  <2> QED BY <2>1, <2>2, <1>1
<1>8. ASSUME Exits PROVE SearchInv'
    BY <1>8, <1>1 DEF Exits, keyVars
<1>9. ASSUME LoadConfiguration \/ Initialize \/ KeysStart \/ KeysEnd \/ ProviderReady \/ PortBound
      PROVE  SearchInv'
    BY <1>9, <1>1 DEF LoadConfiguration, Initialize, KeysStart, KeysEnd, ProviderReady,
                      PortBound, keyVars
<1>10. ASSUME NEW m \in maps, MapFileRead(m) PROVE SearchInv'
    BY <1>10, <1>1 DEF MapFileRead, keyVars
<1>11. CASE UNCHANGED vars
    BY <1>11 DEF vars, cfgVars, keyVars, startVars
<1> QED
  BY <1>2, <1>3, <1>4, <1>5, <1>6, <1>7, <1>8, <1>9, <1>10, <1>11
  DEF Next, Start, NothingFound, ConfigurationBroken, MapFileBroken, KeysRejected,
      ProviderFails, PortTaken

LEMMA MapStep ==
    ASSUME TypeOK, MapInv, [Next]_vars
    PROVE  MapInv'
<1>a. ASSUME UNCHANGED <<loaded, mapping, maps>>,
             phase' \in Initializing =>
                /\ phase \in Initializing
                /\ phase = "maps" => phase' = "maps" \/ maps = {}
      PROVE  MapInv'
    BY <1>a DEF MapInv, Mapped, MapFile, Config
<1>b. ASSUME phase' \notin Initializing PROVE MapInv'
    BY <1>b DEF MapInv
<1> USE DEF Initializing
<1>1. ASSUME NEW d \in DOMAIN Dirs, Stat(d) PROVE MapInv'
    BY <1>1, <1>b DEF Stat
<1>2. CASE Choose \/ LoadConfiguration
    BY <1>2, <1>b DEF Choose, LoadConfiguration
<1>3. ASSUME NEW f \in Searched, LoadAgain(f) PROVE MapInv'
    BY <1>3, <1>b DEF LoadAgain
<1>4. CASE Initialize
    BY <1>4 DEF Initialize, MapInv, Mapped, MapFile, Config
<1>5. ASSUME NEW m \in maps, MapFileRead(m) PROVE MapInv'
  <2>1. loaded # <<>> /\ m \in Mapped /\ maps \subseteq Mapped
    BY <1>5 DEF MapFileRead, MapInv, TypeOK
  <2>2. Mapped \subseteq Models
    BY <2>1, InForce, StartupAssumption DEF Mapped
  <2>3. /\ DOMAIN mapping' = {Lower[m]} \cup DOMAIN mapping
        /\ mapping'[Lower[m]] = MapIn[MapFile(m)]
        /\ \A j \in DOMAIN mapping : j # Lower[m] => mapping'[j] = mapping[j]
    BY <1>5 DEF MapFileRead, Over, Entry
  <2>4. /\ maps' = maps \ {m} /\ phase = "maps" /\ phase' = "maps"
        /\ UNCHANGED loaded
    BY <1>5 DEF MapFileRead
  <2>5. Mapped' = Mapped /\ \A n : MapFile(n)' = MapFile(n)
    BY <2>4 DEF Mapped, MapFile, Config
  <2>6. \A n \in Mapped \ maps' : /\ Lower[n] \in DOMAIN mapping'
                                /\ mapping'[Lower[n]] = MapIn[MapFile(n)]
    <3> TAKE n \in Mapped \ maps'
    <3>1. CASE n = m
        BY <3>1, <2>3
    <3>2. CASE n # m
      <4>1. Lower[n] \in DOMAIN mapping /\ mapping[Lower[n]] = MapIn[MapFile(n)]
        BY <3>2, <2>4 DEF MapInv
      <4>2. Lower[n] # Lower[m]
        BY <3>2, <2>1, <2>2, StartupAssumption
      <4> QED BY <4>1, <4>2, <2>3
    <3> QED BY <3>1, <3>2
  <2> QED BY <2>1, <2>4, <2>5, <2>6 DEF MapInv
<1>6. CASE KeysStart \/ KeysEnd \/ ProviderReady \/ PortBound
    BY <1>6, <1>a DEF KeysStart, KeysEnd, ProviderReady, PortBound, cfgVars
<1>7. CASE KeysStep \/ UNCHANGED vars
    BY <1>7, <1>a DEF KeysStep, vars, cfgVars, startVars
<1>8. ASSUME NEW name \in Models, Adapter(name) PROVE MapInv'
    BY <1>8, <1>a DEF Adapter, GetAdapter, startVars
<1>9. ASSUME NEW f \in Vanishing, Delete(f) PROVE MapInv'
    BY <1>9, <1>a DEF Delete, cfgVars, startVars
<1>10. ASSUME Exits PROVE MapInv'
    BY <1>10, <1>b DEF Exits
<1> QED
  BY <1>1, <1>2, <1>3, <1>4, <1>5, <1>6, <1>7, <1>8, <1>9, <1>10
  DEF Next, Start, NothingFound, ConfigurationBroken, MapFileBroken, KeysRejected,
      ProviderFails, PortTaken

(* Files that disappear take nothing away that is known of a loader.       *)
LEMMA Dwindled ==
    ASSUME NEW l, NEW c, NEW st, NEW here, NEW there, there \subseteq here,
           Loading(l, c, st, here)
    PROVE  Loading(l, c, st, there)
<1>1. KeysOf(Named(c) \cap there) \subseteq KeysOf(Named(c) \cap here)
    BY DEF KeysOf
<1> QED BY <1>1 DEF Loading

LEMMA KeysStepKeeps ==
    ASSUME TypeOK, MapInv, KeyInv, [Next]_vars
    PROVE  KeyInv'
<1> DEFINE Before == {"search", "read", "configured", "maps"}
           After == {"keys", "provider", "bind", "listening"}
<1>a. ASSUME UNCHANGED <<loader, stores>>, phase \in Before, phase' \in Before \cup {"exited"}
      PROVE  KeyInv'
    BY <1>a DEF KeyInv
<1>b. ASSUME UNCHANGED <<loader, stores, loaded>>, present' \subseteq present,
             phase \in After, phase' \in After,
             phase' # "keys" => phase # "keys" \/ KeysLoaded
      PROVE  KeyInv'
  <2>1. \A s \in Sections :
           Loading(loader[s], Config[s], stores[StoreOf[s]], present')
    BY <1>b, Dwindled DEF KeyInv
  <2>2. Config' = Config
    BY <1>b DEF Config
  <2>3. phase' # "keys" => KeysLoaded'
    BY <1>b DEF KeyInv, KeysLoaded
  <2> QED BY <1>b, <2>1, <2>2, <2>3 DEF KeyInv
<1>c. ASSUME phase' = "exited" PROVE KeyInv'
    BY <1>c DEF KeyInv
<1>1. ASSUME NEW d \in DOMAIN Dirs, Stat(d) PROVE KeyInv'
    BY <1>1, <1>a DEF Stat, keyVars
<1>2. CASE Choose \/ LoadConfiguration \/ Initialize
    BY <1>2, <1>a DEF Choose, Answered, LoadConfiguration, Initialize, keyVars
<1>3. ASSUME NEW f \in Searched, LoadAgain(f) PROVE KeyInv'
    BY <1>3, <1>a DEF LoadAgain, keyVars
<1>4. ASSUME NEW m \in maps, MapFileRead(m) PROVE KeyInv'
    BY <1>4, <1>a DEF MapFileRead, keyVars
<1>5. CASE KeysStart
  <2>1. /\ phase' = "keys" /\ UNCHANGED <<loaded, stores, present>>
        /\ loader' = [s \in Sections |-> Started(Config[s].source, Config[s].path)]
    BY <1>5 DEF KeysStart, cfgVars
  <2>2. loaded # <<>>
    BY <1>5 DEF KeysStart, TypeOK
  <2>3. \A s \in Sections : stores[StoreOf[s]] = {}
    BY <1>5 DEF KeysStart, KeyInv
  <2>4. present \subseteq Files
    BY DEF TypeOK
  <2>5. \A s \in Sections : Loading(loader'[s], Config[s], {}, present)
    BY <2>1, <2>2, <2>4, InForce, StartedType
  <2>6. Config' = Config
    BY <2>1 DEF Config
  <2> QED BY <2>1, <2>3, <2>5, <2>6 DEF KeyInv
<1>6. CASE KeysStep
  <2>1. PICK s \in Sections : LoaderStep(s)
    BY <1>6 DEF KeysStep, KeyStep
  <2>2. /\ \A t \in Sections : Loading(loader[t], Config[t], stores[StoreOf[t]], present)
        /\ phase = "keys" /\ UNCHANGED <<phase, loaded>>
    BY <1>6 DEF KeysStep, KeyInv, cfgVars, startVars
  <2>3. LoadersType /\ present \subseteq Files
    BY TypeParts
  <2>4. /\ Loading(loader'[s], Config[s], stores'[StoreOf[s]], present)
        /\ \A t \in Sections \ {s} : /\ loader'[t] = loader[t]
                                    /\ stores'[StoreOf[t]] = stores[StoreOf[t]]
        /\ UNCHANGED present
    BY <2>1, <2>2, <2>3, LoaderStepKeeps
  <2>5. \A t \in Sections : Loading(loader'[t], Config[t], stores'[StoreOf[t]], present)
    <3> TAKE t \in Sections
    <3>1. CASE t = s
        BY <3>1, <2>4
    <3>2. CASE t # s
        BY <3>2, <2>2, <2>4
    <3> QED BY <3>1, <3>2
  <2>6. Config' = Config
    BY <2>2 DEF Config
  <2> QED BY <2>2, <2>4, <2>5, <2>6 DEF KeyInv
<1>7. CASE KeysEnd \/ ProviderReady \/ PortBound
    BY <1>7, <1>b DEF KeysEnd, ProviderReady, PortBound, cfgVars, keyVars
<1>8. ASSUME NEW name \in Models, Adapter(name) PROVE KeyInv'
    BY <1>8, <1>a, <1>b DEF Adapter, GetAdapter, keyVars, startVars
<1>9. ASSUME NEW f \in Vanishing, Delete(f) PROVE KeyInv'
  <2>1. UNCHANGED <<loader, stores, loaded, phase>> /\ present' \subseteq present
    BY <1>9 DEF Delete, Vanish, cfgVars, startVars
  <2>2. phase \in Before \/ phase \in After
    BY <1>9 DEF Delete, TypeOK, Phases
  <2> QED BY <2>1, <2>2, <1>a, <1>b
<1>10. ASSUME Exits PROVE KeyInv'
    BY <1>10, <1>c DEF Exits
<1>11. CASE UNCHANGED vars
  <2>1. UNCHANGED <<loader, stores, loaded, phase, present>>
    BY <1>11 DEF vars, cfgVars, keyVars, startVars
  <2>2. phase \in Before \/ phase \in After \/ phase = "exited"
    BY DEF TypeOK, Phases
  <2> QED BY <2>1, <2>2, <1>a, <1>b, <1>c
<1> QED
  BY <1>1, <1>2, <1>3, <1>4, <1>5, <1>6, <1>7, <1>8, <1>9, <1>10, <1>11
  DEF Next, Start, NothingFound, ConfigurationBroken, MapFileBroken, KeysRejected,
      ProviderFails, PortTaken

LEMMA ConnStep ==
    ASSUME TypeOK, SearchInv, ConnInv, [Next]_vars
    PROVE  ConnInv'
<1>a. ASSUME UNCHANGED <<loaded, ldapConns>> PROVE ConnInv'
    BY <1>a DEF ConnInv
<1>1. CASE LoadConfiguration
  <2>1. UNCHANGED ldapConns /\ loaded' = Append(loaded, ConfigIn[chosen])
    BY <1>1 DEF LoadConfiguration, Configure
  <2>2. ConfigIn[chosen] \in Configs
    BY <1>1 DEF LoadConfiguration, Usable, SearchInv, Configs
  <2>3. /\ DOMAIN loaded \subseteq DOMAIN loaded'
        /\ \A i \in DOMAIN loaded : loaded'[i] = loaded[i]
    BY <2>1, <2>2, ConfigAppended
  <2> QED BY <2>1, <2>3 DEF ConnInv
<1>2. ASSUME NEW name \in Models, Adapter(name) PROVE ConnInv'
  <2>1. loaded # <<>> /\ UNCHANGED loaded
    BY <1>2 DEF Adapter, GetAdapter
  <2>2. CASE UNCHANGED ldapConns
    BY <2>1, <2>2, <1>a
  <2>3. CASE /\ LdapConn(name) # None
             /\ ldapConns' = Over(Entry(Slot(Source(name)), LdapConn(name)), ldapConns)
    <3> DEFINE src == Source(name)
    <3>1. /\ DOMAIN ldapConns' = {src} \cup DOMAIN ldapConns
          /\ ldapConns'[src] = LdapConn(name)
          /\ \A j \in DOMAIN ldapConns : j # src => ldapConns'[j] = ldapConns[j]
      BY <2>3 DEF Slot, Over, Entry
    <3>2. \/ src \in DOMAIN ldapConns /\ LdapConn(name) = ldapConns[src]
          \/ /\ src \in DOMAIN loaded[Len(loaded)].sources
             /\ LdapConn(name) = loaded[Len(loaded)].sources[src]
      BY <2>3 DEF LdapConn, Slot, Config
    <3>3. Len(loaded) \in DOMAIN loaded
      BY <2>1, InForce
    <3> HIDE DEF src
    <3>4. \E i \in DOMAIN loaded : /\ src \in DOMAIN loaded[i].sources
                                  /\ LdapConn(name) = loaded[i].sources[src]
      BY <3>2, <3>3 DEF ConnInv
    <3> QED BY <2>1, <3>1, <3>4 DEF ConnInv
  <2> QED BY <1>2, <2>2, <2>3 DEF Adapter, GetAdapter
<1>3. ASSUME ~LoadConfiguration, ~(\E name \in Models : Adapter(name))
      PROVE  ConnInv'
    BY <1>3, <1>a
    DEF Next, Start, vars, cfgVars, startVars, Exits, Stat, Choose, NothingFound,
        ConfigurationBroken, Initialize, MapFileRead, MapFileBroken, KeysStart, KeysStep,
        KeysRejected, KeysEnd, ProviderReady, ProviderFails, PortBound, PortTaken,
        LoadAgain, Delete
<1> QED BY <1>1, <1>2, <1>3

LEMMA SettingsStep ==
    ASSUME TypeOK, SearchInv, DefaultsInv, SettingsExplained, [Next]_vars
    PROVE  DefaultsInv' /\ SettingsExplained'
<1>a. ASSUME UNCHANGED <<loaded, defaults, settings>>
      PROVE  DefaultsInv' /\ SettingsExplained'
  <2>1. DefaultsInv'
    BY <1>a DEF DefaultsInv, AllLoaded
  <2>2. SettingsExplained'
    BY <1>a DEF SettingsExplained, Config, Earlier
  <2> QED BY <2>1, <2>2
<1>1. CASE LoadConfiguration
  <2> DEFINE c == ConfigIn[chosen]
  <2>1. c \in Configs
    BY <1>1 DEF LoadConfiguration, Usable, SearchInv, Configs
  <2>2. /\ settings' = [k \in DOMAIN defaults |-> Setting(c, k)]
        /\ defaults' = [k \in DOMAIN defaults |->
                           IF k \in DOMAIN c.own THEN defaults[k] ELSE Setting(c, k)]
        /\ loaded' = Append(loaded, c)
    BY <1>1 DEF LoadConfiguration, Configure
  <2>3. /\ Config' = c /\ loaded' # <<>>
        /\ AllLoaded' = AllLoaded \cup {c} /\ Earlier' = AllLoaded
    BY <2>1, <2>2, ConfigAppended
  <2> HIDE DEF c
  <2>4. ASSUME NEW k \in DOMAIN defaults, NEW m \in DOMAIN Setting(c, k)
        PROVE  /\ m \in DOMAIN Added(c, k) => Setting(c, k)[m] = Added(c, k)[m]
               /\ m \notin DOMAIN Added(c, k) =>
                     m \in DOMAIN Base(c, k) /\ Setting(c, k)[m] = Base(c, k)[m]
    BY <2>4 DEF Setting, Over
  <2>5. ASSUME NEW k \in DOMAIN defaults', NEW m \in DOMAIN defaults'[k]
        PROVE  LeftBy(k, m, defaults'[k][m], AllLoaded')
    <3>1. CASE k \in DOMAIN c.own
      <4>1. defaults'[k] = defaults[k] /\ k \in DOMAIN defaults
        BY <3>1, <2>2, <2>5
      <4>2. Left(k, m, AllLoaded \cup {c}) = Left(k, m, AllLoaded)
        BY <3>1 DEF Left
      <4>3. LeftBy(k, m, defaults[k][m], AllLoaded)
        BY <4>1, <2>5 DEF DefaultsInv
      <4> QED BY <4>1, <4>2, <4>3, <2>3 DEF LeftBy
    <3>2. CASE k \notin DOMAIN c.own
      <4>1. defaults'[k] = Setting(c, k) /\ Base(c, k) = defaults[k] /\ k \in DOMAIN defaults
        BY <3>2, <2>2, <2>5 DEF Base
      <4>2. CASE m \in DOMAIN Added(c, k)
        <5>1. defaults'[k][m] = Added(c, k)[m]
          BY <4>1, <4>2, <2>4, <2>5
        <5>2. c \in Left(k, m, AllLoaded')
          BY <2>3, <3>2, <4>2 DEF Left
        <5> QED BY <5>1, <5>2 DEF LeftBy
      <4>3. CASE m \notin DOMAIN Added(c, k)
        <5>1. m \in DOMAIN defaults[k] /\ defaults'[k][m] = defaults[k][m]
          BY <4>1, <4>3, <2>4, <2>5
        <5>2. Left(k, m, AllLoaded \cup {c}) = Left(k, m, AllLoaded)
          BY <4>3 DEF Left
        <5>3. LeftBy(k, m, defaults[k][m], AllLoaded)
          BY <4>1, <5>1 DEF DefaultsInv
        <5> QED BY <5>1, <5>2, <5>3, <2>3 DEF LeftBy
      <4> QED BY <4>2, <4>3
    <3> QED BY <3>1, <3>2
  <2>6. DefaultsInv'
    BY <2>5 DEF DefaultsInv
  <2>7. ASSUME NEW k \in DOMAIN settings', NEW m \in DOMAIN settings'[k]
        PROVE  LET v == settings'[k][m]
               IN  IF m \in DOMAIN Added(c, k) THEN v = Added(c, k)[m]
                   ELSE IF k \in DOMAIN c.own
                   THEN m \in DOMAIN c.own[k] /\ v = c.own[k][m]
                   ELSE LeftBy(k, m, v, AllLoaded)
    <3>1. k \in DOMAIN defaults /\ settings'[k] = Setting(c, k)
      BY <2>2, <2>7
    <3>2. CASE m \in DOMAIN Added(c, k)
      BY <3>1, <3>2, <2>4, <2>7
    <3>3. CASE m \notin DOMAIN Added(c, k) /\ k \in DOMAIN c.own
      BY <3>1, <3>3, <2>4, <2>7 DEF Base
    <3>4. CASE m \notin DOMAIN Added(c, k) /\ k \notin DOMAIN c.own
      BY <3>1, <3>4, <2>4, <2>7 DEF Base, DefaultsInv
    <3> QED BY <3>2, <3>3, <3>4
  <2>8. SettingsExplained'
    BY <2>3, <2>7 DEF SettingsExplained
  <2> QED BY <2>6, <2>8
<1>2. ASSUME ~LoadConfiguration PROVE DefaultsInv' /\ SettingsExplained'
    BY <1>2, <1>a
    DEF Next, Start, vars, cfgVars, startVars, Exits, Stat, Choose, NothingFound,
        ConfigurationBroken, Initialize, MapFileRead, MapFileBroken, KeysStart, KeysStep,
        KeysRejected, KeysEnd, ProviderReady, ProviderFails, PortBound, PortTaken,
        LoadAgain, Adapter, GetAdapter, Delete
<1> QED BY <1>1, <1>2

-----------------------------------------------------------------------------
LEMMA IInvStep == IInv /\ [Next]_vars => IInv'
BY TypeStep, SearchStep, MapStep, KeysStepKeeps, ConnStep, SettingsStep DEF IInv

LEMMA IInvHolds == Spec => []IInv
BY InitIInv, IInvStep, PTL DEF Spec

(* Every variable of the start and of the configuration keeps its type: in *)
(* particular a loader outside its file reads waits for no file.           *)
THEOREM TypeCorrect == Spec => []TypeOK
<1>1. IInv => TypeOK
    BY DEF IInv
<1> QED BY <1>1, IInvHolds, PTL

(* The configuration in force at first is that of the first directory that *)
(* has one, however the answers to the parallel stats interleave.          *)
THEOREM FirstDirectoryHolds == Spec => []FirstDirectory
<1>1. IInv => FirstDirectory
  <2> SUFFICES ASSUME IInv, phase = "read", loaded = <<>>,
                      NEW d \in DOMAIN Dirs, FileIn[Dirs[d]] \in present \ Folders
               PROVE  \E e \in 1..d : FileIn[Dirs[e]] = chosen
    BY DEF FirstDirectory
  <2>1. PICK e \in DOMAIN Dirs : /\ chosen = FileIn[Dirs[e]]
                                 /\ \A n \in DOMAIN Dirs : n < e => stats[n] = "none"
    BY DEF IInv, SearchInv
  <2>2. stats[d] # "none"
    BY DEF IInv, SearchInv
  <2>3. d \in Nat \ {0} /\ e \in Nat \ {0} /\ ~(d < e)
    BY <2>1, <2>2, StartupAssumption
  <2> QED BY <2>1, <2>3
<1> QED BY <1>1, IInvHolds, PTL

(* A listening provider has every mapping and every key that is there.     *)
THEOREM ListensCompleteHolds == Spec => []ListensComplete
<1>1. IInv => ListensComplete
  <2> SUFFICES ASSUME IInv, phase = "listening" PROVE ListensComplete
    BY DEF ListensComplete
  <2>1. \A m \in Mapped : mapping[Lower[m]] = MapIn[MapFile(m)]
    BY DEF IInv, MapInv, Initializing
  <2>2. \A s \in Sections : /\ loader[s].stage = "merged"
                           /\ Loading(loader[s], Config[s], stores[StoreOf[s]], present)
    BY DEF IInv, KeyInv, KeysLoaded
  <2> QED BY <2>1, <2>2 DEF ListensComplete, Loading
<1> QED BY <1>1, IInvHolds, PTL

(* No adapter is given a connection that no configuration described for    *)
(* its source.                                                             *)
THEOREM SourceConnectedHolds == Spec => []SourceConnected
<1>1. IInv => SourceConnected
  <2> SUFFICES ASSUME IInv, loaded # <<>>, NEW name \in Models, Kind(name) = "ldap"
               PROVE  LET s == Source(name)
                          told == {c.sources[s] : c \in {d \in Earlier : s \in DOMAIN d.sources}}
                      IN  \/ LdapConn(name) \in told
                          \/ s \in DOMAIN Config.sources /\ LdapConn(name) = Config.sources[s]
                          \/ s \notin DOMAIN Config.sources /\ LdapConn(name) = None
    BY DEF SourceConnected
  <2> DEFINE s == Source(name)
  <2>1. CASE s \notin DOMAIN ldapConns
    BY <2>1 DEF LdapConn, Slot
  <2>2. CASE s \in DOMAIN ldapConns
    <3>1. LdapConn(name) = ldapConns[s]
      BY <2>2 DEF LdapConn, Slot
    <3>2. PICK i \in DOMAIN loaded : /\ s \in DOMAIN loaded[i].sources
                                    /\ ldapConns[s] = loaded[i].sources[s]
      BY <2>2 DEF IInv, ConnInv
    <3>3. loaded \in Seq(Configs)
      BY DEF IInv, TypeOK
    <3>4. i = Len(loaded) \/ i \in 1..(Len(loaded) - 1)
      BY <3>3
    <3>5. CASE i = Len(loaded)
      <4>1. loaded[i] = Config
        BY <3>5 DEF Config
      <4> QED BY <3>1, <3>2, <4>1
    <3>6. CASE i \in 1..(Len(loaded) - 1)
      <4>1. loaded[i] \in Earlier
        BY <3>6 DEF Earlier
      <4> QED BY <3>1, <3>2, <4>1
    <3> QED BY <3>4, <3>5, <3>6
  <2> QED BY <2>1, <2>2
<1> QED BY <1>1, IInvHolds, PTL

(* The settings handed to the provider are those of the configuration in   *)
(* force, but where it falls back on defaults that earlier ones wrote to.  *)
THEOREM SettingsExplainedHolds == Spec => []SettingsExplained
<1>1. IInv => SettingsExplained
    BY DEF IInv
<1> QED BY <1>1, IInvHolds, PTL

(* The models kept in Redis share one connection, so that those of a grant *)
(* find each other's tokens, whatever configurations came before.          *)
THEOREM GrantsTogetherHolds == Spec => []GrantsTogether
<1>1. GrantsTogether
  <2> SUFFICES ASSUME "name" \notin DOMAIN Config.redis \cup DOMAIN redisConns,
                      NEW m \in Models, NEW n \in Models,
                      Kind(m) = "redis", Kind(n) = "redis",
                      ~Refused(m), ~Refused(n)
               PROVE  RedisConn(m) = RedisConn(n)
    BY DEF GrantsTogether
  <2>1. RedisName(m) # "name" /\ RedisName(n) # "name"
    BY DEF Refused
  <2>2. RedisName(m) = "common" /\ RedisName(n) = "common"
    BY <2>1 DEF RedisName
  <2> QED BY <2>2 DEF RedisConn
<1> QED BY <1>1, PTL
=============================================================================
