----------------------------- MODULE StaticSite -----------------------------
(***************************************************************************)
(* Static deploys and their rollback: the releases on the server, the      *)
(* symlink `current` that Caddy serves from, the app's route and its state *)
(* file.  Both commands hold the deploy lock, so one of them runs at a     *)
(* time; a lock its process died with is broken by the next (DeployLock).  *)
(* A release is named by the hash of its content.                          *)
(***************************************************************************)
EXTENDS Mishaps, FiniteSets

CONSTANTS Hashes,        \* contents of the source directory
          KeepReleases   \* keep_releases

NoHash == "none"

ASSUME SiteAssumption ==
    /\ NoHash \notin Hashes
    /\ KeepReleases \in Nat \ {0}

VARIABLES
    releases,  \* the complete releases on the server
    newer,     \* pairs of them, the first listed before the second by `ls -1t`
    link,      \* the release `current` leads to
    siteUp,    \* Caddy has the app's route, whose root is `current`
    siteSt,    \* state.json: current and previous hash
    site       \* the running command: where it is, its release, the state it read

siteVars == <<releases, newer, link, siteUp, siteSt, site>>

SiteState == [cur : Hashes \cup {NoHash}, prev : Hashes \cup {NoHash}]
NoSite    == [cur |-> NoHash, prev |-> NoHash]
SiteIdle  == [pc |-> "idle", op |-> "none", hash |-> NoHash, prior |-> NoSite]

SiteTypeOK ==
    /\ releases \subseteq Hashes
    /\ newer \subseteq releases \X releases
    /\ link \in Hashes \cup {NoHash}
    /\ siteUp \in BOOLEAN
    /\ siteSt \in SiteState
    /\ site \in [pc : {"idle", "read", "test", "upload", "move", "flip", "route",
                       "write", "unroute", "restore", "prune"},
                 op : {"none", "deploy", "rollback"},
                 hash : Hashes \cup {NoHash}, prior : SiteState]

SiteInit ==
    /\ releases = {} /\ newer = {}
    /\ link = NoHash /\ siteUp = FALSE
    /\ siteSt = NoSite
    /\ site = SiteIdle

OnServer(h)  == h \in releases
NewerThan(h) == {g \in releases : <<g, h>> \in newer}
SiteAt(label) == site.pc = label
SiteGo(label) == site' = [site EXCEPT !.pc = label]
SiteDone == site' = SiteIdle

-----------------------------------------------------------------------------
\* The command ends with an error: what it has done so far stays.
SiteFails ==
    /\ site.pc \in {"test", "upload", "move", "flip", "restore", "unroute"}
    /\ Mishap("fault")
    /\ SiteDone
    /\ UNCHANGED <<releases, newer, link, siteUp, siteSt>>

SiteDies ==
    /\ ~SiteAt("idle")
    /\ Mishap("crash")
    /\ SiteDone
    /\ UNCHANGED <<releases, newer, link, siteUp, siteSt>>

\* teploy deploy: the lock is taken.  Deploying a content again is a use that
\* RollbackSurvives excludes.
StartSite(h) ==
    /\ SiteAt("idle")
    /\ BeginAs(IF OnServer(h) THEN {"reuse"} ELSE {})
    /\ site' = [SiteIdle EXCEPT !.pc = "read", !.op = "deploy", !.hash = h]
    /\ UNCHANGED <<releases, newer, link, siteUp, siteSt>>

\* teploy rollback [--to h]
StartSiteRollback(h) ==
    /\ SiteAt("idle")
    /\ BeginAs({"reuse"})
    /\ site' = [SiteIdle EXCEPT !.pc = "read", !.op = "rollback", !.hash = h]
    /\ UNCHANGED <<releases, newer, link, siteUp, siteSt>>

\* A read that fails passes for an app without state.
ReadPrior ==
    /\ SiteAt("read")
    /\ \/ UNCHANGED luck /\ site' = [site EXCEPT !.pc = "test", !.prior = siteSt]
       \/ Mishap("read") /\ site' = [site EXCEPT !.pc = "test", !.prior = NoSite]
    /\ UNCHANGED <<releases, newer, link, siteUp, siteSt>>

\* The release a rollback goes to: the one it was told, or the previous one.
Target == IF site.hash = NoHash THEN site.prior.prev ELSE site.hash

\* A rollback ends here without a state, a target, or the target's release,
\* and when the target is current; a deploy uploads what is not there.
TestRelease ==
    /\ SiteAt("test")
    /\ IF site.op = "deploy"
       THEN \/ UNCHANGED luck /\ SiteGo(IF OnServer(site.hash) THEN "flip" ELSE "upload")
            \/ OnServer(site.hash) /\ Mishap("fault") /\ SiteGo("upload")
       ELSE /\ UNCHANGED luck
            /\ IF site.prior # NoSite /\ Target # site.prior.cur /\ OnServer(Target)
               THEN site' = [site EXCEPT !.pc = "flip", !.hash = Target]
               ELSE SiteDone
    /\ UNCHANGED <<releases, newer, link, siteUp, siteSt>>

\* rm -rf, mkdir and rsync of the temporary directory, which nothing else looks at
UploadRelease ==
    /\ SiteAt("upload")
    /\ SiteGo("move")
    /\ UNCHANGED <<releases, newer, link, siteUp, siteSt, luck>>

\* mv of the complete upload to its name.  rsync -a gives the directory the
\* mtime of the source, which a source that was not built now has from long ago.
\* A release that exists gets the upload as a subdirectory, and a new mtime.
MoveRelease ==
    /\ SiteAt("move")
    /\ SiteGo("flip")
    /\ releases' = releases \cup {site.hash}
    /\ IF OnServer(site.hash)
       THEN /\ newer' = {p \in newer : site.hash \notin {p[1], p[2]}}
                            \cup {site.hash} \X (releases \ {site.hash})
            /\ UNCHANGED luck
       ELSE \E before \in SUBSET releases :
            /\ \A h \in before : NewerThan(h) \subseteq before
            /\ newer' = newer \cup before \X {site.hash} \cup {site.hash} \X (releases \ before)
            /\ Used(IF before = {} THEN {} ELSE {"stamp"})
    /\ UNCHANGED <<link, siteUp, siteSt>>

\* ln -sfn
Flip ==
    /\ SiteAt("flip")
    /\ link' = site.hash
    /\ SiteGo("route")
    /\ UNCHANGED <<releases, newer, siteUp, siteSt, luck>>

\* SetStaticRoute; Caddy keeps what it has when it rejects the block.
SetStaticRoute ==
    /\ SiteAt("route")
    /\ \/ siteUp' = TRUE /\ SiteGo("write") /\ UNCHANGED luck
       \/ UNCHANGED siteUp /\ SiteGo("restore") /\ Mishap("fault")
    /\ UNCHANGED <<releases, newer, link, siteSt>>

\* priorHashOrEmpty: a deploy of what is current keeps the previous hash.
PreviousHash ==
    IF site.op = "deploy" /\ site.prior.cur \in {NoHash, site.hash}
    THEN site.prior.prev ELSE site.prior.cur

WriteSiteState ==
    /\ SiteAt("write")
    /\ \/ /\ siteSt' = [cur |-> site.hash, prev |-> PreviousHash]
          /\ IF site.op = "deploy" THEN SiteGo("prune") ELSE SiteDone
          /\ UNCHANGED luck
       \/ /\ UNCHANGED siteSt
          /\ Mishap("fault")
          /\ SiteGo(IF site.op = "deploy" /\ site.prior.cur = NoHash THEN "unroute" ELSE "restore")
    /\ UNCHANGED <<releases, newer, link, siteUp>>

\* abortStaticStateCommit of a first deploy removes the route before the link.
RemoveSiteRoute ==
    /\ SiteAt("unroute")
    /\ siteUp' = FALSE
    /\ SiteGo("restore")
    /\ UNCHANGED <<releases, newer, link, siteSt, luck>>

\* The release before this command, or no link when there was none.
RestoreLink ==
    /\ SiteAt("restore")
    /\ link' = site.prior.cur
    /\ SiteDone
    /\ UNCHANGED <<releases, newer, siteUp, siteSt, luck>>

\* Mutant: the newest that are kept do not include the one just deployed.
KeepSetLess == {site.hash} \cup {h \in releases : Cardinality(NewerThan(h)) + 1 < KeepReleases}

\* What pruning keeps: the newest by mtime and the one just deployed.
KeepSet == {site.hash} \cup {h \in releases : Cardinality(NewerThan(h)) < KeepReleases}

\* rm -rf of the others; any of these may fail, and nothing comes of it.
PruneReleases ==
    /\ SiteAt("prune")
    /\ \E left \in SUBSET (releases \ KeepSet) :
        /\ releases' = releases \cap (KeepSet \cup left)
        /\ newer' = newer \cap (releases' \X releases')
        /\ IF left = {} THEN UNCHANGED luck ELSE Mishap("fault")
    /\ SiteDone
    /\ UNCHANGED <<link, siteUp, siteSt>>

SiteNext ==
    \/ \E h \in Hashes : StartSite(h)
    \/ \E h \in Hashes \cup {NoHash} : StartSiteRollback(h)
    \/ ReadPrior \/ TestRelease \/ UploadRelease \/ MoveRelease \/ Flip
    \/ SetStaticRoute \/ WriteSiteState \/ RemoveSiteRoute \/ RestoreLink
    \/ PruneReleases
    \/ SiteFails \/ SiteDies

-----------------------------------------------------------------------------
\* Visitors of a deployed app never meet a link that leads nowhere: whatever
\* fails and wherever a command dies, the route is there and its directory is a
\* complete release.  The exceptions are a failed read of the state, which makes
\* the app look new, and a first deploy that died between route and state: the
\* next one that fails removes the link and leaves that route.
SiteServes ==
    NoneOf({"read"}) /\ siteSt.cur # NoHash => siteUp /\ OnServer(link)

\* One failed command leaves the app as one version: what the state says is
\* what is served, and nothing is served without a state.
SiteStateTrue ==
    SiteAt("idle") /\ NoneOf({"crash"}) /\ AtMost(1)
        => /\ siteUp <=> siteSt.cur # NoHash
           /\ link = siteSt.cur

\* The release `teploy rollback` goes to is still there: pruning keeps at least
\* two, as long as each deploy is a new content that was built just now and
\* none before it failed or died.
RollbackSurvives ==
    NoneOf({"fault", "crash", "reuse", "stamp"}) /\ KeepReleases > 1 /\ siteSt.prev # NoHash => OnServer(siteSt.prev)

\* The three together: a static site is served, as its state says, and can be
\* rolled back.
SiteHolds == SiteServes /\ SiteStateTrue /\ RollbackSurvives
=============================================================================
