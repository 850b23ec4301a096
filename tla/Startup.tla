------------------------------- MODULE Startup ------------------------------
(***************************************************************************)
(* From the start of the process to the listening provider: index.js,      *)
(* findConfiguration and initProvider of provider/configurator.js, composed*)
(* of the Configurator's state and the KeyLoader's.  A configuration may   *)
(* be loaded again before the provider is initialised, as the unit tests   *)
(* do.  Any rejection ends the process.                                    *)
(***************************************************************************)
EXTENDS Configurator, KeyLoader

CONSTANTS Dirs,      \* the search path, by priority
          FileIn,    \* the configuration file of each directory
          ConfigIn,  \* the configuration in each such file, or None
          MapIn,     \* the mapping in each mapping file, or None
          Vanishing, \* bound: files that may be deleted
          MaxLoads   \* bound: configurations loaded by one process

Searched == {FileIn[Dirs[d]] : d \in DOMAIN Dirs}
Configs == {ConfigIn[f] : f \in Searched} \ {None}

(* Two organizations whose names differ in case alone would share a        *)
(* mapping.                                                                *)
ASSUME StartupAssumption ==
    /\ MaxLoads \in Nat \ {0}
    /\ DOMAIN Dirs \subseteq Nat \ {0}
    /\ Searched \subseteq Files
    /\ \A c \in Configs :
          /\ DOMAIN c.org \subseteq Models
          /\ \A s \in Sections :
                c[s].source \in {"folder", "file"} => c[s].path \in Files
    /\ \A m, n \in Models : Lower[m] = Lower[n] => m = n

VARIABLES phase,   \* where index.js is
          stats,   \* findConfiguration: what is known of each directory
          chosen,  \* the file findConfiguration settled on
          maps     \* the models whose mapping file is being read

startVars == <<phase, stats, chosen, maps>>
vars == <<cfgVars, keyVars, startVars>>

(* "search", "read": findConfiguration; "configured"; "maps", "keys",      *)
(* "provider", "bind": initProvider and the listen call it does not wait   *)
(* for.                                                                    *)
Phases == {"search", "read", "configured", "maps", "keys", "provider", "bind",
           "listening", "exited"}

Init == /\ CfgInit
        /\ KeyInit
        /\ phase = "search"
        /\ stats = [d \in DOMAIN Dirs |-> "asked"]
        /\ chosen = ""
        /\ maps = {}

(* index.js: the catch handler calls process.exit.                         *)
Exits == /\ phase' = "exited"
         /\ UNCHANGED <<cfgVars, keyVars, stats, chosen, maps>>

-----------------------------------------------------------------------------
(* checkConfigurationDir: the directories are looked at in parallel.       *)
Stat(d) ==
    /\ phase = "search" /\ stats[d] = "asked"
    /\ stats' = [stats EXCEPT ![d] =
                    IF FileIn[Dirs[d]] \in present \ Folders THEN "file" ELSE "none"]
    /\ UNCHANGED <<cfgVars, keyVars, phase, chosen, maps>>

(* The first directory of the search path that has the file.               *)
Answered == phase = "search" /\ \A d \in DOMAIN stats : stats[d] # "asked"
Hits == {d \in DOMAIN stats : stats[d] = "file"}

LastHit == CHOOSE d \in Hits : \A e \in Hits : d >= e  \* mutant: the last one
BestHit == CHOOSE d \in Hits : \A e \in Hits : d <= e

Choose == /\ Answered /\ Hits # {}
          /\ chosen' = FileIn[Dirs[BestHit]]
          /\ phase' = "read"
          /\ UNCHANGED <<cfgVars, keyVars, stats, maps>>

NothingFound == Answered /\ Hits = {} /\ Exits

Usable(f) == f \in present \cap Readable /\ ConfigIn[f] # None

(* loadConfiguration: read, parse, reduce.                                 *)
LoadConfiguration ==
    /\ phase = "read" /\ Usable(chosen)
    /\ Configure(ConfigIn[chosen])
    /\ phase' = "configured"
    /\ UNCHANGED <<keyVars, stats, chosen, maps>>

ConfigurationBroken == phase = "read" /\ ~Usable(chosen) /\ Exits

(* A test loads another file before it goes on.                            *)
LoadAgain(f) == /\ phase = "configured" /\ Len(loaded) < MaxLoads
                /\ chosen' = f
                /\ phase' = "read"
                /\ UNCHANGED <<cfgVars, keyVars, stats, maps>>

-----------------------------------------------------------------------------
(* initProvider.  loadMappings reads the file of every organization that   *)
(* names one, in parallel.                                                 *)
MapFile(m) == Config.org[m].file
Mapped == {m \in DOMAIN Config.org : MapFile(m) # None}

Initialize == /\ phase = "configured"
              /\ mapping' = <<>>
              /\ maps' = Mapped
              /\ phase' = "maps"
              /\ UNCHANGED <<loaded, defaults, settings, ldapConns, redisConns,
                             keyVars, stats, chosen>>

Parsable(f) == f \in present \cap Readable /\ MapIn[f] # None

MapFileRead(m) ==
    /\ phase = "maps" /\ m \in maps
    /\ Parsable(MapFile(m))
    /\ mapping' = Over(Entry(Lower[m], MapIn[MapFile(m)]), mapping)
    /\ maps' = maps \ {m}
    /\ UNCHANGED <<loaded, defaults, settings, ldapConns, redisConns, keyVars,
                   phase, stats, chosen>>

MapFileBroken(m) == /\ phase = "maps" /\ m \in maps
                    /\ ~Parsable(MapFile(m))
                    /\ Exits

(* loadKeyStores.                                                          *)
KeysStart == /\ phase = "maps" /\ maps = {}
             /\ loader' = [s \in Sections |-> Started(Config[s].source, Config[s].path)]
             /\ phase' = "keys"
             /\ UNCHANGED <<cfgVars, present, stores, stats, chosen, maps>>

KeysStep == phase = "keys" /\ KeyStep /\ UNCHANGED <<cfgVars, startVars>>

KeysRejectedUnheard ==  \* mutant: the rejection is caught and goes no further
    phase = "keys" /\ LoadRejected /\ UNCHANGED vars

KeysRejected == phase = "keys" /\ LoadRejected /\ Exits

KeysEnd == /\ phase = "keys" /\ KeysLoaded
           /\ phase' = "provider"
           /\ UNCHANGED <<cfgVars, keyVars, stats, chosen, maps>>

(* The provider is made, its grant types registered and its stores set up, *)
(* any of which may throw; then the server is told to listen.              *)
ProviderReady == /\ phase = "provider"
                 /\ phase' = "bind"
                 /\ UNCHANGED <<cfgVars, keyVars, stats, chosen, maps>>

ProviderFails == phase = "provider" /\ Exits

(* listen() returns before the port is bound; nobody hears its error.      *)
PortBound == /\ phase = "bind"
             /\ phase' = "listening"
             /\ UNCHANGED <<cfgVars, keyVars, stats, chosen, maps>>

PortTaken == phase = "bind" /\ Exits

-----------------------------------------------------------------------------
(* Once there is a configuration anybody may ask for an adapter.           *)
Adapter(name) == /\ phase \in {"configured", "listening"}
                 /\ GetAdapter(name)
                 /\ UNCHANGED <<keyVars, startVars>>

Delete(f) == /\ phase # "exited"
             /\ Vanish(f)
             /\ UNCHANGED <<cfgVars, startVars>>

Start == \/ \E d \in DOMAIN Dirs : Stat(d)
         \/ Choose \/ NothingFound
         \/ LoadConfiguration \/ ConfigurationBroken
         \/ Initialize
         \/ \E m \in maps : MapFileRead(m) \/ MapFileBroken(m)
         \/ KeysStart \/ KeysStep \/ KeysRejected \/ KeysEnd
         \/ ProviderReady \/ ProviderFails
         \/ PortBound \/ PortTaken

Next == \/ Start
        \/ \E f \in Searched : LoadAgain(f)
        \/ \E name \in Models : Adapter(name)
        \/ \E f \in Vanishing : Delete(f)

Spec == Init /\ [][Next]_vars

(* The file system answers, and index.js calls initProvider.               *)
FairSpec == Spec /\ WF_vars(Start)

-----------------------------------------------------------------------------
Keys == UNION {KeysIn[f] : f \in Files}
Todos == UNION {[D -> {"stat", "read"}] : D \in SUBSET Files}
Loaders == [stage : {"off", "dir", "list", "files", "merge", "add", "merged"},
            path : Files \cup {""},
            todo : Todos,
            keys : SUBSET Keys, seen : SUBSET Keys]

TypeOK ==
    /\ phase \in Phases
    /\ stats \in [DOMAIN Dirs -> {"asked", "file", "none"}]
    /\ chosen \in Searched \cup {""}
    /\ present \subseteq Files
    /\ loaded \in Seq(Configs)
    /\ loaded = <<>> => phase \in {"search", "read", "exited"}
    /\ DOMAIN mapping \subseteq {Lower[m] : m \in Models}
    /\ stores \in [Stores -> SUBSET Keys]
    /\ DOMAIN loader = Sections
    /\ \A s \in Sections :
          /\ loader[s] \in Loaders
          /\ loader[s].stage # "files" => DOMAIN loader[s].todo = {}

(* The files a section c names: the visible regular files of its folder,   *)
(* or its file.                                                            *)
Named(c) ==
    CASE c.source = "folder" /\ c.path \in Folders -> Contents[c.path] \ Hidden
      [] c.source = "file" -> {c.path}
      [] OTHER -> {}

KeysOf(fs) == UNION {KeysIn[f] : f \in (fs \ Folders) \cap Readable}

(* A provider that listens has the mapping of every organization that      *)
(* names one, and in the store of each section every key of the section's  *)
(* files that still exist and none of other files: a failure in between    *)
(* never leaves a provider running on half of its configuration, except    *)
(* for key files that were deleted, cannot be read or hold no key          *)
(* (configurator.js 45-57, 228-299, keyloader.js 72-109).                  *)
ListensComplete ==
    phase = "listening" =>
        /\ \A m \in Mapped : mapping[Lower[m]] = MapIn[MapFile(m)]
        /\ \A s \in Sections :
              /\ KeysOf(Named(Config[s]) \cap present) \subseteq stores[StoreOf[s]]
              /\ stores[StoreOf[s]] \subseteq KeysOf(Named(Config[s]))

(* The configuration is the one of the first directory that has a file:    *)
(* whatever the order of the answers, an earlier directory is passed over  *)
(* only if its file was not there (configurator.js 105-115).               *)
FirstDirectory ==
    phase = "read" /\ loaded = <<>> =>
        \A d \in DOMAIN Dirs :
            FileIn[Dirs[d]] \in present \ Folders =>
                \E e \in 1..d : FileIn[Dirs[e]] = chosen

(* The process ends up listening or exits with the error.                  *)
StartsOrExits == <>(phase \in {"listening", "exited"})
=============================================================================
