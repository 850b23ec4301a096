---------------------------- MODULE Configurator ----------------------------
(***************************************************************************)
(* What the process keeps of its configuration: the settings handed to     *)
(* oidc-provider (reduceConfiguration of provider/configurator.js), the    *)
(* defaults they are taken from, and the connections that the adapter      *)
(* factory, the LDAP manager and the Redis adapter open for the models.    *)
(* The defaults and the connections belong to the process, not to a        *)
(* configuration: a configuration that is loaded later finds what the      *)
(* earlier ones left there.                                                *)
(*                                                                         *)
(* A setting is a function from member names; scalar settings have no      *)
(* extras and nothing to share.  URLs and options are model values.        *)
(***************************************************************************)
EXTENDS Naturals, Sequences, Functions

CONSTANTS Factory,  \* def.config: the settings as shipped, by name
          Models,   \* the model names getAdapter is called with
          Lower,    \* each model name in lower case
          Builtin,  \* the mapping of mapping/index.js for a model, or None
          None

(* A configuration file: own settings and extras by name; the homepage, or *)
(* None; LDAP sources with their options; organizations [source, file] of  *)
(* the models kept in LDAP; the models kept in memory; Redis connections;  *)
(* the two key stores [source, path].                                      *)
Fields == {"own", "extras", "homepage", "sources", "org", "memory", "redis",
           "external", "internal"}

VARIABLES loaded,     \* the configurations of this process, oldest first
          defaults,   \* def.config as it is now
          settings,   \* this.settings
          mapping,    \* instanceConfig.mapping
          ldapConns,  \* connection of ldapmanager.js: source to options
          redisConns  \* client of eduidRedis.js: name to URL

cfgVars == <<loaded, defaults, settings, mapping, ldapConns, redisConns>>

Config == loaded[Len(loaded)]

CfgInit == /\ loaded = <<>>
           /\ defaults = Factory
           /\ settings = <<>>
           /\ mapping = <<>>
           /\ ldapConns = <<>>
           /\ redisConns = <<>>

-----------------------------------------------------------------------------
(* The entries of f, written over those of g.                              *)
Over(f, g) == [x \in DOMAIN f \cup DOMAIN g |-> IF x \in DOMAIN f THEN f[x] ELSE g[x]]
Entry(x, v) == [y \in {x} |-> v]

(* reduceConfiguration.  A setting is the configuration's own or the very  *)
(* object of the defaults; the extras, and the homepage in "discovery",    *)
(* are written into that object.                                           *)
Extras(c, k) == IF k \in DOMAIN c.extras THEN c.extras[k] ELSE <<>>

Added(c, k) == IF k = "discovery" /\ c.homepage # None
               THEN Over(Entry("service_documentation", c.homepage), Extras(c, k))
               ELSE Extras(c, k)

Base(c, k) == IF k \in DOMAIN c.own THEN c.own[k] ELSE defaults[k]

OriginExtras(c, k) == Over(Base(c, k), Added(c, k))  \* mutant: under the setting
Setting(c, k) == Over(Added(c, k), Base(c, k))

Configure(c) ==
    /\ settings' = [k \in DOMAIN defaults |-> Setting(c, k)]
    /\ defaults' = [k \in DOMAIN defaults |->
                       IF k \in DOMAIN c.own THEN defaults[k] ELSE Setting(c, k)]
    /\ mapping' = <<>>
    /\ loaded' = Append(loaded, c)
    /\ UNCHANGED <<ldapConns, redisConns>>

-----------------------------------------------------------------------------
(* getAdapter: client credentials are kept with the clients.               *)
Model(name) == IF name = "ClientCredentials" THEN "Client" ELSE name

Kind(name) == IF Model(name) \in DOMAIN Config.org THEN "ldap"
              ELSE IF Model(name) \in Config.memory THEN "memory" ELSE "redis"

MappingFor(name) ==
    LET m == Lower[Model(name)]
    IN  IF m \in DOMAIN mapping THEN mapping[m] ELSE Builtin[Model(name)]

(* LdapManager: a source that is not open yet is opened.                   *)
SlotCommon(source) == "common"  \* mutant: one slot for all sources
Slot(source) == source

Source(name) == Config.org[Model(name)].source

LdapConn(name) == IF Slot(Source(name)) \in DOMAIN ldapConns
                  THEN ldapConns[Slot(Source(name))]
                  ELSE IF Source(name) \in DOMAIN Config.sources
                  THEN Config.sources[Source(name)] ELSE None

(* RedisAdapter: a model with a connection of its own is given the         *)
(* connection that is called "name".                                       *)
OwnRedisName(name) ==  \* mutant: the variable in place of the literal
    IF Model(name) \in DOMAIN Config.redis THEN Model(name) ELSE "common"

RedisName(name) == IF Model(name) \in DOMAIN Config.redis THEN "name" ELSE "common"

(* Without that connection, or without any, the constructor throws.        *)
Refused(name) ==
    /\ Kind(name) = "redis"
    /\ \/ DOMAIN Config.redis = {}
       \/ RedisName(name) \notin DOMAIN Config.redis \cup DOMAIN redisConns

RedisConn(name) == IF RedisName(name) \in DOMAIN redisConns
                   THEN redisConns[RedisName(name)]
                   ELSE Config.redis[RedisName(name)]

(* Memory adapters share the process's storage.                            *)
AdapterOf(name) ==
    CASE Kind(name) = "ldap" -> <<"ldap", LdapConn(name), MappingFor(name)>>
      [] Kind(name) = "memory" -> <<"memory", None, None>>
      [] OTHER -> <<"redis", RedisConn(name), None>>

GetAdapter(name) ==
    /\ loaded # <<>>
    /\ ~Refused(name)
    /\ ldapConns' = IF Kind(name) = "ldap" /\ LdapConn(name) # None
                    THEN Over(Entry(Slot(Source(name)), LdapConn(name)), ldapConns)
                    ELSE ldapConns
    /\ redisConns' = IF Kind(name) = "redis"
                     THEN Over(Entry(RedisName(name), RedisConn(name)), redisConns)
                     ELSE redisConns
    /\ UNCHANGED <<loaded, defaults, settings, mapping>>

-----------------------------------------------------------------------------
Earlier == {loaded[i] : i \in 1..(Len(loaded) - 1)}

(* What the configurations cs leave of member m of default k: the extra or *)
(* homepage of one that has no such setting of its own, else the value as  *)
(* shipped.                                                                *)
Left(k, m, cs) == {c \in cs : k \notin DOMAIN c.own /\ m \in DOMAIN Added(c, k)}
LeftBy(k, m, v, cs) ==
    \/ \E c \in Left(k, m, cs) : v = Added(c, k)[m]
    \/ Left(k, m, cs) = {} /\ m \in DOMAIN Factory[k] /\ v = Factory[k][m]

(* A setting of the provider is what the configuration in force says of    *)
(* it: its extras and homepage, else its own setting, else the default.    *)
(* Where it falls back on the defaults, extras and homepages of earlier    *)
(* configurations may have taken the place of the shipped value, and       *)
(* nothing else (configurator.js 151-183).                                 *)
SettingsExplained ==
    loaded # <<>> => \A k \in DOMAIN settings : \A m \in DOMAIN settings[k] :
        LET v == settings[k][m]
        IN  IF m \in DOMAIN Added(Config, k) THEN v = Added(Config, k)[m]
            ELSE IF k \in DOMAIN Config.own
            THEN m \in DOMAIN Config.own[k] /\ v = Config.own[k][m]
            ELSE LeftBy(k, m, v, Earlier)

(* The connection a model is given is described, for its source, by a      *)
(* configuration of this process, and by the one in force unless an        *)
(* earlier one had that source (ldapmanager.js 6-19, factory.js 12-52).    *)
SourceConnected ==
    loaded # <<>> => \A name \in Models : Kind(name) = "ldap" =>
        LET s == Source(name)
            told == {c.sources[s] : c \in {d \in Earlier : s \in DOMAIN d.sources}}
        IN  \/ LdapConn(name) \in told
            \/ s \in DOMAIN Config.sources /\ LdapConn(name) = Config.sources[s]
            \/ s \notin DOMAIN Config.sources /\ LdapConn(name) = None

(* The tokens of a grant are listed under one key, and the models of a     *)
(* grant find that list only over one connection: whatever connections are *)
(* configured, short of one called "name", all models that get a Redis     *)
(* adapter share it (eduidRedis.js 31-49).                                 *)
GrantsTogether ==
    loaded # <<>> /\ "name" \notin DOMAIN Config.redis \cup DOMAIN redisConns =>
        \A m, n \in Models :
            /\ Kind(m) = "redis" /\ Kind(n) = "redis"
            /\ ~Refused(m) /\ ~Refused(n)
            => RedisConn(m) = RedisConn(n)
=============================================================================
