------------------------------- MODULE Config -------------------------------
(***************************************************************************)
(* teploy.yml and the overlay of a destination (-d staging): the base file *)
(* is checked, the overlay merged onto it, the result checked again.  A    *)
(* document gives some fields, or keys of a map, one of a few values that  *)
(* the checks and the merge tell apart.                                    *)
(***************************************************************************)
EXTENDS Mishaps, FiniteSets

CONSTANTS BaseSize, OverlaySize   \* bounds: how many fields a file sets

ASSUME ConfigAssumption == BaseSize \in Nat /\ OverlaySize \in Nat

Unset == ""

\* AppConfig.  tls: a certificate with its key, one of the two, or Caddy's own.
Choices == [type     |-> {"container", "static"},
            ingress  |-> {"caddy", "external", "host"},
            replicas |-> {"one", "two"},
            tls      |-> {"files", "half", "internal"}]
Maps    == {"processes.web", "healthcheck.web", "volumes.data", "env.KEY", "headers.X"}
Blocks  == {"assets.path", "assets.keep_days", "network.provider", "network.auth_key"}
Accessory == {"accessories.db.image", "accessories.db.env.USER", "accessories.db.env.PASSWORD"}
Plain   == {"domain", "bind", "port", "publish", "source", "image", "build_local", "scan",
            "keep_versions", "health.path"}
Unmerged == {"dockerfile", "health.timeout_seconds", "firewall", "access", "audit", "secret"}
Fields == DOMAIN Choices \cup Maps \cup Blocks \cup Accessory \cup Plain \cup Unmerged

ValuesOf(f) == IF f \in DOMAIN Choices THEN Choices[f] ELSE {"set", "other"}

\* A document is a function on the fields it sets.
Empty == [f \in {} |-> Unset]
Start == [f \in {"domain"} |-> "set"]
IsDocument(d) == DOMAIN d \subseteq Fields /\ \A f \in DOMAIN d : d[f] \in ValuesOf(f)
Has(d, f)  == f \in DOMAIN d
At(d, f)   == IF Has(d, f) THEN d[f] ELSE Unset
With(d, f, v) == [g \in DOMAIN d \cup {f} |-> IF g = f THEN v ELSE d[g]]

VARIABLES
    base,     \* teploy.yml
    overlay,  \* teploy.staging.yml
    loaded    \* what LoadAppWithDestination returned: "nothing", "error" or a document

configVars == <<base, overlay, loaded>>

NotLoaded == [is |-> "nothing", doc |-> Empty]

ConfigTypeOK == /\ IsDocument(base) /\ Cardinality(DOMAIN base) <= BaseSize + 1
                /\ IsDocument(overlay) /\ Cardinality(DOMAIN overlay) <= OverlaySize
                /\ loaded.is \in {"nothing", "error", "config"} /\ IsDocument(loaded.doc)

ConfigInit == base = Start /\ overlay = Empty /\ loaded = NotLoaded

-----------------------------------------------------------------------------
ValidIngress(d) ==
    /\ ~Has(d, "domain") => At(d, "ingress") = "host"
    /\ Has(d, "bind") => At(d, "ingress") = "host"
    /\ At(d, "ingress") = "host" => /\ At(d, "type") # "static"
                                /\ Has(d, "port")
                                /\ At(d, "replicas") # "two"
                                /\ ~Has(d, "tls")
    /\ Has(d, "publish") => At(d, "replicas") # "two"

ValidType(d) ==
    At(d, "type") = "static" => /\ Has(d, "source")
                            /\ ~Has(d, "image")
                            /\ At(d, "ingress") # "external"
                            /\ ~Has(d, "build_local")
                            /\ ~Has(d, "replicas")
                            /\ ~Has(d, "tls")
                            /\ ~Has(d, "keep_versions")

ValidTls(d) == /\ At(d, "tls") # "half"
               /\ Has(d, "tls") => At(d, "ingress") # "external"

ValidProcesses(d) == Has(d, "healthcheck.web") => Has(d, "processes.web")

ValidBuild(d) == Has(d, "dockerfile") => ~Has(d, "image") /\ At(d, "type") # "static"

\* The firewall and the access gate are written into Caddy's site block.
ValidGates(d) == \A f \in {"firewall", "access"} :
                     Has(d, f) => At(d, "type") # "static" /\ At(d, "ingress") \notin {"external", "host"}

Validate(d) == /\ ValidIngress(d) /\ ValidType(d) /\ ValidTls(d)
               /\ ValidProcesses(d) /\ ValidBuild(d) /\ ValidGates(d)

-----------------------------------------------------------------------------
Over(o, b, f) == IF Has(o, f) THEN o[f] ELSE At(b, f)

\* Mutant: the overlay's accessory replaces the base's.
ReplaceAccessory(b, o, f) == IF \E g \in Accessory : Has(o, g) THEN At(o, f) ELSE At(b, f)

\* mergeAccessory: field by field, its maps key by key.
MergeAccessory(b, o, f) == Over(o, b, f)

\* The maps, key by key.
MergeMaps(b, o, f) == Over(o, b, f)

\* A block that comes as a whole, when the overlay sets the field it is known by.
MergeBlock(b, o, f) ==
    LET lead == IF f \in {"assets.path", "assets.keep_days"} THEN "assets.path" ELSE "network.provider"
    IN  IF Has(o, lead) THEN At(o, f) ELSE At(b, f)

\* mergeConfigs.  What it does not name stays the base's.
MergeField(b, o, f) == CASE f \in Plain \cup DOMAIN Choices -> Over(o, b, f)
                      [] f \in Maps      -> MergeMaps(b, o, f)
                      [] f \in Accessory -> MergeAccessory(b, o, f)
                      [] f \in Blocks    -> MergeBlock(b, o, f)
                      [] f \in Unmerged  -> At(b, f)

MergeConfigs(b, o) ==
    [f \in {g \in DOMAIN b \cup DOMAIN o : MergeField(b, o, g) # Unset} |-> MergeField(b, o, f)]

-----------------------------------------------------------------------------
\* The user writes a field of the base or of the overlay.
WriteBase(f, v) ==
    /\ overlay = Empty /\ loaded = NotLoaded
    /\ ~Has(base, f) /\ Cardinality(DOMAIN base \ {"domain"}) < BaseSize
    /\ base' = With(base, f, v)
    /\ UNCHANGED <<overlay, loaded, luck>>

\* An app with ingress: host needs no domain.
NoDomain ==
    /\ overlay = Empty /\ loaded = NotLoaded
    /\ base' = [f \in DOMAIN base \ {"domain"} |-> base[f]]
    /\ UNCHANGED <<overlay, loaded, luck>>

WriteOverlay(f, v) ==
    /\ loaded = NotLoaded
    /\ ~Has(overlay, f) /\ Cardinality(DOMAIN overlay) < OverlaySize
    /\ overlay' = With(overlay, f, v)
    /\ UNCHANGED <<base, loaded, luck>>

\* LoadAppWithDestination: LoadApp checks the base by itself.
LoadConfig ==
    /\ loaded = NotLoaded
    /\ LET merged == MergeConfigs(base, overlay)
       IN  loaded' = IF Validate(base) /\ Validate(merged)
                     THEN [is |-> "config", doc |-> merged]
                     ELSE [is |-> "error", doc |-> Empty]
    /\ UNCHANGED <<base, overlay, luck>>

ConfigNext ==
    \/ LoadConfig \/ NoDomain
    \/ \E f \in Fields :
        \/ \E v \in ValuesOf(f) \ {"other"} : f # "domain" /\ WriteBase(f, v)
        \/ \E v \in ValuesOf(f) \ {"set"} : WriteOverlay(f, v)

-----------------------------------------------------------------------------
\* A partial overlay takes nothing else from the base: every field and every
\* key of a map it does not set is the base's, accessories and their
\* environment included (the blocks taken as a whole excepted).
KeepsTheBase ==
    loaded.is = "config" =>
        \A f \in Fields \ Blocks : ~Has(overlay, f) => At(loaded.doc, f) = At(base, f)

\* An overlay does not open an app that its base gates: the firewall and the
\* access gate are still there, and Caddy, which applies them, still serves it.
GateStays ==
    loaded.is = "config" =>
        \A f \in {"firewall", "access"} : Has(base, f) =>
            /\ At(loaded.doc, f) = base[f]
            /\ At(loaded.doc, "ingress") \in {Unset, "caddy"} /\ At(loaded.doc, "type") # "static"

\* Both: the overlay adds, and takes away nothing the checks would not see.
OverlayIsMerged == KeepsTheBase /\ GateStays
=============================================================================
