------------------------------ MODULE MCStartup -----------------------------
(***************************************************************************)
(* Two directories with a configuration each: the first takes its keys     *)
(* from a folder and a file; the second falls back on the defaults, keeps  *)
(* one more model in LDAP, names a folder as a key file, and gives one     *)
(* model a Redis connection of its own.                                    *)
(***************************************************************************)
EXTENDS Startup, TLC

CONSTANTS ka, kb, kc, kh, kj, opt1, opt2, url1, url2, url3, home, map1, built

AllFiles == {"cfg1", "cfg2", "cfg3", "m1", "m2", "kd", "sub", "dot", "k1", "k2", "k3", "ki"}
FolderSet == {"kd", "sub"}
HiddenSet == {"dot"}
ContentTable == ("kd" :> {"sub", "dot", "k1", "k2", "k3"}) @@ ("sub" :> {})
ReadableSet == AllFiles \ {"k3"}
KeyTable == [f \in AllFiles |->
    CASE f = "k1" -> {ka, kb} [] f = "k2" -> {kc} [] f = "dot" -> {kh}
      [] f = "k3" -> {kh} [] f = "ki" -> {kj} [] OTHER -> {}]
DiskSet == {AllFiles, AllFiles \ {"cfg1"}, AllFiles \ {"ki"},
            AllFiles \ (FolderSet \cup ContentTable["kd"]), AllFiles \ {"cfg1", "cfg2", "cfg3"}}
VanishingSet == {"cfg1", "m1", "k1", "k2"}

Search == <<"dir1", "dir2", "dir3">>
FileTable == ("dir1" :> "cfg1") @@ ("dir2" :> "cfg2") @@ ("dir3" :> "cfg3")
MapTable == ("m1" :> map1) @@ ("m2" :> None)

ModelSet == {"Account", "Client", "ClientCredentials", "AccessToken", "RefreshToken"}
LowerTable == ("Account" :> "account") @@ ("Client" :> "client")
              @@ ("ClientCredentials" :> "clientcredentials") @@ ("AccessToken" :> "accesstoken") @@ ("RefreshToken" :> "refreshtoken")
BuiltinTable == [m \in ModelSet |-> IF m \in {"Account", "Client"} THEN built ELSE None]
FactorySettings == ("features" :> ("pkce" :> 1)) @@ ("discovery" :> ("version" :> 1))
                   @@ ("scopes" :> ("openid" :> 1))

First == [own |-> "features" :> ("pkce" :> 2),
          extras |-> ("features" :> ("request" :> 2)) @@ ("scopes" :> ("eduid" :> 2)),
          homepage |-> None,
          sources |-> ("s1" :> opt1) @@ ("s2" :> opt2),
          org |-> ("Account" :> [source |-> "s1", file |-> "m1"])
                  @@ ("Client" :> [source |-> "s2", file |-> None]),
          memory |-> {},
          redis |-> "common" :> url1,
          external |-> [source |-> "folder", path |-> "kd"],
          internal |-> [source |-> "file", path |-> "ki"]]
Second == [own |-> "scopes" :> ("openid" :> 3),
           extras |-> "features" :> ("pkce" :> 3),
           homepage |-> home,
           sources |-> "s1" :> opt2,
           org |-> "Client" :> [source |-> "s1", file |-> "m1"],
           memory |-> {"Account"},
           redis |-> ("common" :> url2) @@ ("AccessToken" :> url3),
           external |-> [source |-> "file", path |-> "kd"],
           internal |-> [source |-> "folder", path |-> "ki"]]
Third == [Second EXCEPT !.org = "Account" :> [source |-> "s3", file |-> "m2"],
                        !.own = <<>>, !.redis = <<>>,
                        !.internal = [source |-> "none", path |-> ""]]
ConfigTable == ("cfg1" :> First) @@ ("cfg2" :> Second) @@ ("cfg3" :> Third)
=============================================================================
