-------------------------- MODULE ReleasePartsProofs --------------------------
(***************************************************************************)
(* What ReleaseParts promises of the parts that put versions of an app on  *)
(* servers, for every value of its constants.  Of each part there is an    *)
(* inductive invariant; the parts that do not move stay as they began.     *)
(***************************************************************************)
EXTENDS ReleaseParts, FiniteSetTheorems, SequenceTheorems, TLAPS

\* Beginning an operation, a use and a mishap, of kinds there are, keep the
\* type of luck, and say how much of it is left.
LEMMA LuckKept ==
  ASSUME LuckTypeOK, NEW K \in SUBSET MishapKinds, BeginAs(K) \/ MishapAs(K) \/ Used(K)
  PROVE  /\ LuckTypeOK'
         /\ luck'.had = luck.had \cup K
         /\ luck'.left = IF MishapAs(K) THEN luck.left - 1 ELSE luck.left
         /\ MishapAs(K) => luck.left > 0
  <1>t. /\ luck.ops \in 0..MaxOps /\ luck.left \in 0..MaxMishaps /\ luck.had \subseteq MishapKinds
        /\ luck = [ops |-> luck.ops, left |-> luck.left, had |-> luck.had]
        /\ MaxOps \in Nat /\ MaxMishaps \in Nat
    BY MishapsAssumption DEF LuckTypeOK
  <1>m. MishapAs(K) => luck'.left = luck.left - 1 /\ luck.left - 1 # luck.left
    BY <1>t DEF MishapAs
  <1>1. CASE BeginAs(K)
    <2>1. luck.ops > 0 /\ luck' = [ops |-> luck.ops - 1, left |-> luck.left, had |-> luck.had \cup K]
      BY <1>t, <1>1 DEF BeginAs
    <2>2. luck.ops - 1 \in 0..MaxOps
      BY <1>t, <2>1
    <2>3. ~MishapAs(K)
      BY <1>m, <2>1
    <2> QED
      BY <1>t, <2>1, <2>2, <2>3 DEF LuckTypeOK
  <1>2. CASE MishapAs(K)
    <2>1. luck.left > 0 /\ luck' = [ops |-> luck.ops, left |-> luck.left - 1, had |-> luck.had \cup K]
      BY <1>t, <1>2 DEF MishapAs
    <2>2. luck.left - 1 \in 0..MaxMishaps
      BY <1>t, <2>1
    <2> QED
      BY <1>2, <1>t, <2>1, <2>2 DEF LuckTypeOK
  <1>3. CASE Used(K)
    <2>1. luck' = [ops |-> luck.ops, left |-> luck.left, had |-> luck.had \cup K]
      BY <1>t, <1>3 DEF Used
    <2>2. ~MishapAs(K)
      BY <1>m, <2>1
    <2> QED
      BY <1>t, <2>1, <2>2 DEF LuckTypeOK
  <1> QED
    BY <1>1, <1>2, <1>3

\* What a property presupposes never to have happened had not happened before.
LEMMA NoneBefore ==
  ASSUME LuckTypeOK, NEW K \in SUBSET MishapKinds, BeginAs(K) \/ MishapAs(K) \/ Used(K),
         NEW X, NoneOf(X)'
  PROVE  NoneOf(X) /\ K \cap X = {}
  <1>1. luck'.had = luck.had \cup K
    BY LuckKept
  <1> QED
    BY <1>1 DEF NoneOf

\* How a step changes luck: it begins an operation, has a mishap or a use, or neither.
LuckStep == \/ UNCHANGED luck
            \/ \E K \in SUBSET MishapKinds : BeginAs(K) \/ MishapAs(K) \/ Used(K)

\* Kinds of mishap that had not happened after a step had not happened before it.
LEMMA LuckBefore ==
  ASSUME LuckTypeOK, LuckStep
  PROVE  /\ LuckTypeOK'
         /\ \A X : NoneOf(X)' => NoneOf(X)
  <1>1. CASE UNCHANGED luck
    BY <1>1 DEF NoneOf, LuckTypeOK
  <1>2. ASSUME NEW K \in SUBSET MishapKinds, BeginAs(K) \/ MishapAs(K) \/ Used(K)
        PROVE  LuckTypeOK' /\ \A X : NoneOf(X)' => NoneOf(X)
    BY <1>2, LuckKept, NoneBefore
  <1> QED
    BY <1>1, <1>2 DEF LuckStep

\* A step with a mishap of a kind that had not happened after it is no such step.
LEMMA NotThis ==
  ASSUME LuckTypeOK, NEW k \in MishapKinds, NEW X, k \in X, NoneOf(X)'
  PROVE  ~Mishap(k)
  <1> SUFFICES ASSUME Mishap(k) PROVE FALSE
    OBVIOUS
  <1>1. {k} \in SUBSET MishapKinds /\ MishapAs({k})
    BY DEF Mishap
  <1> QED
    BY <1>1, NoneBefore

\* Initially nothing has happened.
LEMMA LuckAtFirst == Init => LuckTypeOK /\ part \in Parts /\ luck.had = {}
  BY ReleasePartsAssumption DEF Init, LuckTypeOK


-----------------------------------------------------------------------------
(* Static sites.                                                           *)

SiteLabels == {"idle", "read", "test", "upload", "move", "flip", "route",
               "write", "unroute", "restore", "prune"}
Started == {"read", "test", "upload", "move", "flip", "route", "write", "unroute", "restore", "prune"}

\* The type, and the shape of what is stored and of the running command.
SiteTyped ==
    /\ LuckTypeOK /\ SiteTypeOK
    /\ siteSt.cur = NoHash => siteSt = NoSite
    /\ site.prior.cur = NoHash => site.prior = NoSite
    /\ site.pc # "idle" => site.op # "none"
    /\ site.pc # "idle" /\ site.op = "deploy" => site.hash # NoHash
    /\ site.pc \notin {"idle", "read", "test"} => site.hash # NoHash
    /\ site.pc \notin {"idle", "read", "test"} /\ site.op = "rollback" => site.prior # NoSite
    /\ site.pc = "prune" => site.op = "deploy"

\* What is served is there: the release that Caddy serves, the one the state
\* names, and from the switch on the one of the running command.
ServesInv ==
    NoneOf({"read"}) =>
        /\ site.pc \notin {"idle", "read", "prune"} => site.prior = siteSt
        /\ siteSt.cur # NoHash => siteUp /\ OnServer(link) /\ OnServer(siteSt.cur)
        /\ site.pc \in {"flip", "route", "write", "prune"} => OnServer(site.hash)
        /\ site.pc \in {"route", "write", "prune"} => link = site.hash
        /\ site.pc \in {"write", "prune"} => siteUp
        /\ site.pc = "prune" => siteSt.cur = site.hash
        /\ site.pc = "unroute" => siteSt.cur = NoHash

\* What is served is what the state names, except from the switch to the write
\* of the state; a command that restores has had its one mishap already.
StateInv ==
    NoneOf({"crash"}) /\ AtMost(1) =>
        /\ site.pc \notin {"route", "write", "unroute", "restore"} => link = siteSt.cur
        /\ site.pc \in {"route", "write"} => link = site.hash
        /\ site.pc \notin {"write", "unroute"} => (siteUp <=> siteSt.cur # NoHash)
        /\ site.pc = "write" => siteUp
        /\ site.pc = "unroute" => siteSt.cur = NoHash
        /\ site.pc \in {"unroute", "restore"} => ~AtMost(0) /\ site.prior = siteSt
        /\ site.pc \notin {"idle", "read", "prune"} /\ AtMost(0) => site.prior = siteSt

\* The release of the state, or of the running command once it is there, is the
\* newest, and the one before it is the next.
Recent ==
    /\ siteSt.cur # NoHash => OnServer(siteSt.cur) /\ NewerThan(siteSt.cur) = {}
    /\ siteSt.prev # NoHash => OnServer(siteSt.prev) /\ NewerThan(siteSt.prev) \subseteq {siteSt.cur}

Superseded ==
    /\ OnServer(site.hash) /\ NewerThan(site.hash) = {} /\ siteSt.cur # site.hash
    /\ siteSt.cur # NoHash => OnServer(siteSt.cur) /\ NewerThan(siteSt.cur) \subseteq {site.hash}
    /\ siteSt.prev # NoHash => OnServer(siteSt.prev)

OrderInv ==
    NoneOf({"fault", "crash", "reuse", "stamp"}) /\ KeepReleases > 1 =>
        /\ site.pc \notin {"unroute", "restore"}
        /\ site.pc # "idle" => site.op = "deploy"
        /\ site.pc \in {"read", "test", "upload", "move"} => ~OnServer(site.hash)
        /\ site.pc \in {"test", "upload", "move", "flip", "route", "write"}
               => site.prior \in {siteSt, NoSite}
        /\ site.pc \in {"idle", "read", "test", "upload", "move", "prune"} => Recent
        /\ site.pc \in {"flip", "route", "write"} => Superseded
        /\ site.pc = "prune" => siteSt.cur = site.hash

SiteInv == SiteTyped /\ ServesInv /\ StateInv /\ OrderInv

LEMMA InitSite == SiteInit /\ LuckTypeOK => SiteInv
  <1> SUFFICES ASSUME SiteInit, LuckTypeOK PROVE SiteInv
    OBVIOUS
  <1>1. /\ site.pc = "idle" /\ site = SiteIdle /\ siteSt = NoSite /\ link = NoHash /\ siteUp = FALSE
        /\ siteSt.cur = NoHash /\ siteSt.prev = NoHash /\ site.prior = NoSite
        /\ NoSite \in SiteState
    BY DEF SiteInit, SiteIdle, NoSite, SiteState
  <1>2. SiteTypeOK
    <2>1. site = [pc |-> "idle", op |-> "none", hash |-> NoHash, prior |-> NoSite]
      BY <1>1 DEF SiteIdle
    <2>2. releases \subseteq Hashes /\ newer \subseteq releases \X releases
      BY DEF SiteInit
    <2>3. siteUp \in BOOLEAN
      BY <1>1
    <2>4. link \in Hashes \cup {NoHash} /\ siteSt \in SiteState
      BY <1>1
    <2>5. site \in [pc : SiteLabels, op : {"none", "deploy", "rollback"},
                    hash : Hashes \cup {NoHash}, prior : SiteState]
      BY <1>1, <2>1 DEF SiteLabels
    <2> QED
      BY <2>2, <2>3, <2>4, <2>5 DEF SiteTypeOK, SiteLabels
  <1>3. SiteTyped
    BY <1>1, <1>2 DEF SiteTyped
  <1> QED
    BY <1>1, <1>3 DEF SiteInv, ServesInv, StateInv, OrderInv, Recent

LEMMA SiteStepLuck == SiteNext => LuckStep
  <1> SUFFICES ASSUME SiteNext PROVE LuckStep
    OBVIOUS
  <1> USE DEF LuckStep, Mishap, MishapKinds
  <1>1. ASSUME NEW h, StartSite(h) PROVE LuckStep
    <2>1. CASE OnServer(h)
      BY <1>1, <2>1, {"reuse"} \in SUBSET MishapKinds DEF StartSite
    <2>2. CASE ~OnServer(h)
      BY <1>1, <2>2, {} \in SUBSET MishapKinds DEF StartSite
    <2> QED
      BY <2>1, <2>2
  <1>2. ASSUME NEW h, StartSiteRollback(h) PROVE LuckStep
    BY <1>2, {"reuse"} \in SUBSET MishapKinds DEF StartSiteRollback
  <1>3. CASE ReadPrior
    BY <1>3, {"read"} \in SUBSET MishapKinds DEF ReadPrior
  <1>4. CASE TestRelease \/ UploadRelease \/ Flip
    BY <1>4, {"fault"} \in SUBSET MishapKinds DEF TestRelease, UploadRelease, Flip
  <1>5. CASE MoveRelease
    BY <1>5, {"stamp"} \in SUBSET MishapKinds, {} \in SUBSET MishapKinds DEF MoveRelease
  <1>6. CASE SetStaticRoute \/ WriteSiteState \/ RemoveSiteRoute \/ RestoreLink
    BY <1>6, {"fault"} \in SUBSET MishapKinds
       DEF SetStaticRoute, WriteSiteState, RemoveSiteRoute, RestoreLink
  <1>7. CASE PruneReleases
    BY <1>7, {"fault"} \in SUBSET MishapKinds DEF PruneReleases
  <1>8. CASE SiteFails \/ SiteDies
    BY <1>8, {"fault"} \in SUBSET MishapKinds, {"crash"} \in SUBSET MishapKinds
       DEF SiteFails, SiteDies
  <1> QED
    BY <1>1, <1>2, <1>3, <1>4, <1>5, <1>6, <1>7, <1>8 DEF SiteNext

LEMMA NextSiteTyped ==
  ASSUME SiteTyped, SiteNext
  PROVE  SiteTyped'
  <1>l. LuckTypeOK'
    BY SiteStepLuck, LuckKept DEF SiteTyped, LuckStep, LuckTypeOK
  <1>t. /\ site \in [pc : SiteLabels, op : {"none", "deploy", "rollback"},
                     hash : Hashes \cup {NoHash}, prior : SiteState]
        /\ siteSt \in SiteState /\ NoSite \in SiteState
        /\ siteSt = [cur |-> siteSt.cur, prev |-> siteSt.prev]
        /\ link \in Hashes \cup {NoHash} /\ siteUp \in BOOLEAN
        /\ releases \subseteq Hashes /\ newer \subseteq releases \X releases
        /\ NoHash \notin Hashes
    BY SiteAssumption DEF SiteTyped, SiteTypeOK, SiteState, NoSite, SiteLabels
  <1> USE <1>l, <1>t DEF SiteTyped, SiteTypeOK, SiteLabels, SiteAt, SiteGo, SiteDone
  <1>1. ASSUME NEW h \in Hashes, StartSite(h) PROVE SiteTyped'
    BY <1>1 DEF StartSite, SiteIdle, NoSite
  <1>2. ASSUME NEW h \in Hashes \cup {NoHash}, StartSiteRollback(h) PROVE SiteTyped'
    BY <1>2 DEF StartSiteRollback, SiteIdle, NoSite
  <1>3. CASE ReadPrior
    BY <1>3 DEF ReadPrior
  <1>4. CASE TestRelease
    <2>1. /\ site' \in {[site EXCEPT !.pc = "flip"], [site EXCEPT !.pc = "upload"]}
          /\ site.op = "deploy" /\ UNCHANGED <<releases, newer, link, siteUp, siteSt>>
          /\ SiteAt("test")
          \/ /\ site' \in {SiteIdle, [site EXCEPT !.pc = "flip", !.hash = Target]}
             /\ site' # SiteIdle => site.prior # NoSite /\ Target \in Hashes
             /\ site.op # "deploy" /\ UNCHANGED <<releases, newer, link, siteUp, siteSt>>
             /\ SiteAt("test")
      BY <1>4 DEF TestRelease, OnServer
    <2>2. CASE site.op = "deploy"
      BY <2>1, <2>2
    <2>3. CASE site' = SiteIdle
      BY <2>1, <2>3 DEF SiteIdle
    <2>4. CASE site.op # "deploy" /\ site' # SiteIdle
      BY <2>1, <2>4
    <2> QED
      BY <2>2, <2>3, <2>4
  <1>5. CASE UploadRelease \/ Flip
    BY <1>5 DEF UploadRelease, Flip
  <1>6. CASE MoveRelease
    <2>1. releases' = releases \cup {site.hash} /\ site.hash \in Hashes
      BY <1>6 DEF MoveRelease
    <2>2. newer' \subseteq releases' \X releases'
      BY <1>6, <2>1 DEF MoveRelease
    <2> QED
      BY <1>6, <2>1, <2>2 DEF MoveRelease
  <1>7. CASE SetStaticRoute \/ RemoveSiteRoute
    BY <1>7 DEF SetStaticRoute, RemoveSiteRoute
  <1>8. CASE WriteSiteState
    <2>1. site.prior \in SiteState /\ PreviousHash \in Hashes \cup {NoHash}
      BY DEF PreviousHash, SiteState
    <2>2. siteSt' \in SiteState /\ (siteSt'.cur = NoHash => siteSt' = NoSite)
      BY <1>8, <2>1 DEF WriteSiteState, SiteState
    <2>3. site' \in {[site EXCEPT !.pc = "prune"], [site EXCEPT !.pc = "unroute"],
                     [site EXCEPT !.pc = "restore"], SiteIdle}
          /\ (site'.pc = "prune" => site.op = "deploy")
      BY <1>8 DEF WriteSiteState, SiteIdle
    <2> QED
      BY <1>8, <2>2, <2>3 DEF WriteSiteState, SiteIdle
  <1>9. CASE RestoreLink
    BY <1>9 DEF RestoreLink, SiteIdle, SiteState
  <1>10. CASE PruneReleases
    <2>1. releases' \subseteq releases /\ newer' \subseteq releases' \X releases'
      BY <1>10 DEF PruneReleases
    <2> QED
      BY <1>10, <2>1 DEF PruneReleases, SiteIdle
  <1>11. CASE SiteFails \/ SiteDies
    BY <1>11 DEF SiteFails, SiteDies, SiteIdle
  <1> QED
    BY <1>1, <1>2, <1>3, <1>4, <1>5, <1>6, <1>7, <1>8, <1>9, <1>10, <1>11 DEF SiteNext


LEMMA SiteBefore ==
  ASSUME SiteTyped, SiteNext, NEW X, NoneOf(X)'
  PROVE  NoneOf(X)
  BY SiteStepLuck, LuckBefore DEF SiteTyped

LEMMA SiteForms ==
  ASSUME SiteTyped
  PROVE  /\ site \in [pc : SiteLabels, op : {"none", "deploy", "rollback"},
                      hash : Hashes \cup {NoHash}, prior : SiteState]
         /\ siteSt \in SiteState /\ NoSite \in SiteState /\ NoSite.cur = NoHash /\ NoSite.prev = NoHash
         /\ siteSt = [cur |-> siteSt.cur, prev |-> siteSt.prev]
         /\ releases \subseteq Hashes /\ newer \subseteq releases \X releases
         /\ NoHash \notin Hashes /\ SiteIdle.pc = "idle"
  BY SiteAssumption DEF SiteTyped, SiteTypeOK, SiteState, NoSite, SiteLabels, SiteIdle

LEMMA NextServes ==
  ASSUME SiteTyped, ServesInv, SiteNext
  PROVE  ServesInv'
  <1> SUFFICES ASSUME NoneOf({"read"})'
               PROVE  ServesInv'
    BY DEF ServesInv
  <1>n. NoneOf({"read"}) /\ ~Mishap("read")
    BY SiteBefore, NotThis, "read" \in MishapKinds DEF SiteTyped, MishapKinds
  <1> USE <1>n, SiteForms DEF ServesInv, SiteTyped, SiteLabels, SiteAt, SiteGo, SiteDone, OnServer
  <1>1. ASSUME NEW h \in Hashes, StartSite(h) PROVE ServesInv'
    BY <1>1 DEF StartSite, SiteIdle
  <1>2. ASSUME NEW h \in Hashes \cup {NoHash}, StartSiteRollback(h) PROVE ServesInv'
    BY <1>2 DEF StartSiteRollback, SiteIdle
  <1>3. CASE ReadPrior
    BY <1>3 DEF ReadPrior
  <1>4. CASE TestRelease
    <2>1. /\ site.pc = "test" /\ UNCHANGED <<releases, newer, link, siteUp, siteSt>>
          /\ \/ site' = [site EXCEPT !.pc = "flip"] /\ site.hash \in releases
             \/ site' = [site EXCEPT !.pc = "upload"]
             \/ site' = [site EXCEPT !.pc = "flip", !.hash = Target] /\ Target \in releases
             \/ site' = SiteIdle
      BY <1>4 DEF TestRelease
    <2> QED
      BY <2>1
  <1>5. CASE UploadRelease \/ Flip
    BY <1>5 DEF UploadRelease, Flip
  <1>6. CASE MoveRelease
    BY <1>6 DEF MoveRelease
  <1>7. CASE SetStaticRoute
    BY <1>7 DEF SetStaticRoute
  <1>8. CASE WriteSiteState
    BY <1>8 DEF WriteSiteState
  <1>9. CASE RemoveSiteRoute
    BY <1>9 DEF RemoveSiteRoute
  <1>10. CASE RestoreLink
    BY <1>10 DEF RestoreLink
  <1>11. CASE PruneReleases
    <2>1. site.hash \in releases'
      BY <1>11 DEF PruneReleases, KeepSet
    <2> QED
      BY <1>11, <2>1 DEF PruneReleases
  <1>12. CASE SiteFails \/ SiteDies
    BY <1>12 DEF SiteFails, SiteDies
  <1> QED
    BY <1>1, <1>2, <1>3, <1>4, <1>5, <1>6, <1>7, <1>8, <1>9, <1>10, <1>11, <1>12 DEF SiteNext

\* How many mishaps there have been, from one state to the next.
LEMMA MishapCount ==
  ASSUME LuckTypeOK, LuckStep, AtMost(1)'
  PROVE  /\ AtMost(1)
         /\ AtMost(0)' => AtMost(0)
         /\ \A k \in MishapKinds : Mishap(k) => AtMost(0) /\ ~AtMost(0)'
  <1>t. luck.left \in 0..MaxMishaps /\ MaxMishaps \in Nat
    BY MishapsAssumption DEF LuckTypeOK
  <1>1. CASE UNCHANGED luck
    <2>1. \A k : ~Mishap(k)
      <3> SUFFICES ASSUME NEW k, Mishap(k) PROVE FALSE
        OBVIOUS
      <3>1. luck'.left = luck.left - 1
        BY <1>t DEF Mishap, MishapAs, LuckTypeOK
      <3> QED
        BY <1>1, <1>t, <3>1
    <2> QED
      BY <1>1, <2>1 DEF AtMost
  <1>2. ASSUME NEW K \in SUBSET MishapKinds, BeginAs(K) \/ MishapAs(K) \/ Used(K)
        PROVE  /\ AtMost(1)
               /\ AtMost(0)' => AtMost(0)
               /\ \A k \in MishapKinds : Mishap(k) => AtMost(0) /\ ~AtMost(0)'
    <2>1. luck'.left \in {luck.left, luck.left - 1} /\ luck'.left \in 0..MaxMishaps
      BY <1>2, LuckKept DEF LuckTypeOK
    <2>2. ASSUME NEW k \in MishapKinds, Mishap(k) PROVE luck'.left = luck.left - 1
      BY <2>2, <1>t DEF Mishap, MishapAs, LuckTypeOK
    <2> QED
      BY <1>t, <2>1, <2>2 DEF AtMost
  <1> QED
    BY <1>1, <1>2 DEF LuckStep

LEMMA NextState ==
  ASSUME SiteTyped, StateInv, SiteNext
  PROVE  StateInv'
  <1> SUFFICES ASSUME NoneOf({"crash"})', AtMost(1)'
               PROVE  StateInv'
    BY DEF StateInv
  <1>n. NoneOf({"crash"}) /\ ~Mishap("crash") /\ LuckStep
    BY SiteBefore, NotThis, SiteStepLuck, "crash" \in MishapKinds DEF SiteTyped, MishapKinds
  <1>m. /\ AtMost(1) /\ (AtMost(0)' => AtMost(0))
        /\ Mishap("fault") \/ Mishap("read") => AtMost(0) /\ ~AtMost(0)'
    BY <1>n, MishapCount DEF SiteTyped, MishapKinds
  <1> DEFINE None == AtMost(0)
             One == AtMost(0)'
  <1>d. /\ StateInv' <=>
              /\ site'.pc \notin {"route", "write", "unroute", "restore"} => link' = siteSt'.cur
              /\ site'.pc \in {"route", "write"} => link' = site'.hash
              /\ site'.pc \notin {"write", "unroute"} => (siteUp' <=> siteSt'.cur # NoHash)
              /\ site'.pc = "write" => siteUp'
              /\ site'.pc = "unroute" => siteSt'.cur = NoHash
              /\ site'.pc \in {"unroute", "restore"} => ~One /\ site'.prior = siteSt'
              /\ site'.pc \notin {"idle", "read", "prune"} /\ One => site'.prior = siteSt'
    BY DEF StateInv
  <1>i. /\ site.pc \notin {"route", "write", "unroute", "restore"} => link = siteSt.cur
        /\ site.pc \in {"route", "write"} => link = site.hash
        /\ site.pc \notin {"write", "unroute"} => (siteUp <=> siteSt.cur # NoHash)
        /\ site.pc = "write" => siteUp
        /\ site.pc = "unroute" => siteSt.cur = NoHash
        /\ site.pc \in {"unroute", "restore"} => ~None /\ site.prior = siteSt
        /\ site.pc \notin {"idle", "read", "prune"} /\ None => site.prior = siteSt
    BY <1>n, <1>m DEF StateInv
  <1>j. /\ One => None
        /\ Mishap("fault") \/ Mishap("read") => None /\ ~One
    BY <1>m
  <1> HIDE DEF None, One
  <1> USE <1>n, <1>j, <1>i, SiteForms DEF SiteTyped, SiteLabels, SiteAt, SiteGo, SiteDone
  <1> SUFFICES /\ site'.pc \notin {"route", "write", "unroute", "restore"} => link' = siteSt'.cur
               /\ site'.pc \in {"route", "write"} => link' = site'.hash
               /\ site'.pc \notin {"write", "unroute"} => (siteUp' <=> siteSt'.cur # NoHash)
               /\ site'.pc = "write" => siteUp'
               /\ site'.pc = "unroute" => siteSt'.cur = NoHash
               /\ site'.pc \in {"unroute", "restore"} => ~One /\ site'.prior = siteSt'
               /\ site'.pc \notin {"idle", "read", "prune"} /\ One => site'.prior = siteSt'
    BY <1>d
  <1>1. ASSUME NEW h \in Hashes, StartSite(h) PROVE StateInv'
    BY <1>1, <1>d DEF StartSite, SiteIdle
  <1>2. ASSUME NEW h \in Hashes \cup {NoHash}, StartSiteRollback(h) PROVE StateInv'
    BY <1>2, <1>d DEF StartSiteRollback, SiteIdle
  <1>3. CASE ReadPrior
    BY <1>3 DEF ReadPrior
  <1>4. CASE TestRelease
    <2>1. /\ site.pc = "test" /\ UNCHANGED <<releases, newer, link, siteUp, siteSt>>
          /\ \/ site' = [site EXCEPT !.pc = "flip"]
             \/ site' = [site EXCEPT !.pc = "upload"]
             \/ site' = [site EXCEPT !.pc = "flip", !.hash = Target]
             \/ site' = SiteIdle
      BY <1>4 DEF TestRelease
    <2> QED
      BY <2>1
  <1>5. CASE UploadRelease \/ Flip
    BY <1>5 DEF UploadRelease, Flip
  <1>6. CASE MoveRelease
    BY <1>6 DEF MoveRelease
  <1>7. CASE SetStaticRoute
    BY <1>7 DEF SetStaticRoute
  <1>8. CASE WriteSiteState
    <2>1. CASE Mishap("fault")
      <3>1. site.pc = "write" /\ siteUp /\ site.prior = siteSt /\ ~One
        BY <1>8, <2>1 DEF WriteSiteState
      <3> QED
        BY <1>8, <2>1, <3>1 DEF WriteSiteState
    <2>2. CASE ~Mishap("fault")
      BY <1>8, <2>2 DEF WriteSiteState
    <2> QED
      BY <2>1, <2>2
  <1>9. CASE RemoveSiteRoute
    BY <1>9 DEF RemoveSiteRoute
  <1>10. CASE RestoreLink
    BY <1>10 DEF RestoreLink
  <1>11. CASE PruneReleases
    BY <1>11 DEF PruneReleases
  <1>12. CASE SiteFails \/ SiteDies
    BY <1>12 DEF SiteFails, SiteDies
  <1> QED
    BY <1>1, <1>2, <1>3, <1>4, <1>5, <1>6, <1>7, <1>8, <1>9, <1>10, <1>11, <1>12, <1>d DEF SiteNext


\* Every command is a deploy of a new content that succeeds.
LEMMA NextOrder ==
  ASSUME SiteTyped, OrderInv, SiteNext
  PROVE  OrderInv'
  <1> DEFINE Bad == {"fault", "crash", "reuse", "stamp"}
  <1> SUFFICES ASSUME NoneOf(Bad)', KeepReleases > 1
               PROVE  OrderInv'
    BY DEF OrderInv
  <1>n. NoneOf(Bad) /\ ~Mishap("fault") /\ ~Mishap("crash")
    BY SiteBefore, NotThis, "fault" \in MishapKinds, "crash" \in MishapKinds DEF SiteTyped, MishapKinds
  <1>b. \A K \in SUBSET MishapKinds : BeginAs(K) \/ Used(K) => K \cap Bad = {}
    BY NoneBefore DEF SiteTyped
  <1>i. /\ site.pc \notin {"unroute", "restore"}
        /\ site.pc # "idle" => site.op = "deploy"
        /\ site.pc \in {"read", "test", "upload", "move"} => site.hash \notin releases
        /\ site.pc \in {"test", "upload", "move", "flip", "route", "write"}
               => site.prior \in {siteSt, NoSite}
        /\ site.pc \in {"idle", "read", "test", "upload", "move", "prune"} => Recent
        /\ site.pc \in {"flip", "route", "write"} => Superseded
        /\ site.pc = "prune" => siteSt.cur = site.hash
    BY <1>n DEF OrderInv, OnServer
  <1> DEFINE Goal ==
        /\ site'.pc \notin {"unroute", "restore"}
        /\ site'.pc # "idle" => site'.op = "deploy"
        /\ site'.pc \in {"read", "test", "upload", "move"} => site'.hash \notin releases'
        /\ site'.pc \in {"test", "upload", "move", "flip", "route", "write"}
               => site'.prior \in {siteSt', NoSite}
        /\ site'.pc \in {"idle", "read", "test", "upload", "move", "prune"} => Recent'
        /\ site'.pc \in {"flip", "route", "write"} => Superseded'
        /\ site'.pc = "prune" => siteSt'.cur = site'.hash
  <1> SUFFICES Goal
    BY DEF OrderInv, OnServer
  <1>r. UNCHANGED <<releases, newer, siteSt>> /\ Recent => Recent'
    BY DEF Recent, OnServer, NewerThan
  <1>s. UNCHANGED <<releases, newer, siteSt>> /\ site'.hash = site.hash /\ Superseded => Superseded'
    BY DEF Superseded, OnServer, NewerThan
  <1> USE <1>i, <1>n, SiteForms DEF SiteTyped, SiteLabels, SiteAt, SiteGo, SiteDone
  <1>1. ASSUME NEW h \in Hashes, StartSite(h) PROVE Goal
    <2>1. h \notin releases
      <3>1. {"reuse"} \in SUBSET MishapKinds
        BY DEF MishapKinds
      <3>2. ~BeginAs({"reuse"})
        BY <3>1, <1>b
      <3> QED
        BY <1>1, <3>2 DEF StartSite, OnServer
    <2> QED
      BY <1>1, <2>1, <1>r DEF StartSite, SiteIdle
  <1>2. ASSUME NEW h, StartSiteRollback(h) PROVE Goal
    <2>1. {"reuse"} \in SUBSET MishapKinds
      BY DEF MishapKinds
    <2> QED
      BY <2>1, <1>b, <1>2 DEF StartSiteRollback
  <1>3. CASE ReadPrior
    <2>1. /\ site.pc = "read" /\ site'.pc = "test" /\ site'.op = site.op /\ site'.hash = site.hash
          /\ site'.prior \in {siteSt, NoSite} /\ UNCHANGED <<releases, newer, siteSt>>
      BY <1>3 DEF ReadPrior
    <2> QED
      BY <2>1, <1>r
  <1>4. CASE TestRelease
    <2>1. /\ site.pc = "test" /\ site'.pc = "upload" /\ site'.op = site.op /\ site'.hash = site.hash
          /\ site'.prior = site.prior /\ UNCHANGED <<releases, newer, siteSt>>
      BY <1>4 DEF TestRelease, OnServer
    <2> QED
      BY <2>1, <1>r
  <1>5. CASE UploadRelease
    <2>1. /\ site.pc = "upload" /\ site'.pc = "move" /\ site'.op = site.op /\ site'.hash = site.hash
          /\ site'.prior = site.prior /\ UNCHANGED <<releases, newer, siteSt>>
      BY <1>5 DEF UploadRelease
    <2> QED
      BY <2>1, <1>r
  <1>6. CASE Flip \/ SetStaticRoute
    <2>1. /\ site.pc \in {"flip", "route"} /\ site'.pc \in {"route", "write"}
          /\ site'.op = site.op /\ site'.hash = site.hash
          /\ site'.prior = site.prior /\ UNCHANGED <<releases, newer, siteSt>>
      BY <1>6 DEF Flip, SetStaticRoute
    <2> QED
      BY <2>1, <1>s
  <1>7. CASE MoveRelease
    <2>1. /\ site.pc = "move" /\ site.hash \notin releases /\ Recent
          /\ site' = [site EXCEPT !.pc = "flip"] /\ UNCHANGED siteSt
          /\ releases' = releases \cup {site.hash}
      BY <1>7 DEF MoveRelease
    <2>2. PICK before \in SUBSET releases :
            /\ newer' = newer \cup before \X {site.hash} \cup {site.hash} \X (releases \ before)
            /\ Used(IF before = {} THEN {} ELSE {"stamp"})
      BY <1>7, <2>1 DEF MoveRelease, OnServer
    <2>3. before = {}
      <3>1. {"stamp"} \in SUBSET MishapKinds
        BY DEF MishapKinds
      <3>2. ~Used({"stamp"})
        BY <3>1, <1>b
      <3> QED
        BY <2>2, <3>2
    <2>4. /\ site.hash \in releases'
          /\ \A g, h : <<g, h>> \in newer' =>
                 <<g, h>> \in newer \/ (g = site.hash /\ h \in releases)
      BY <2>1, <2>2, <2>3
    <2>5. \A g, h : <<g, h>> \in newer => g \in releases /\ h \in releases
      OBVIOUS
    <2>6. NewerThan(site.hash)' = {}
      BY <2>1, <2>4, <2>5 DEF NewerThan
    <2>7. siteSt.cur # NoHash =>
            siteSt.cur \in releases /\ \A g : <<g, siteSt.cur>> \in newer' => g = site.hash
      BY <2>1, <2>4, <2>5 DEF Recent, NewerThan, OnServer
    <2>8. siteSt.cur # site.hash
      BY <2>1, <2>7
    <2>9. Superseded'
      BY <2>1, <2>4, <2>6, <2>7, <2>8 DEF Superseded, Recent, NewerThan, OnServer
    <2>10. /\ site'.pc = "flip" /\ site'.op = site.op /\ site'.hash = site.hash
           /\ site'.prior = site.prior /\ UNCHANGED siteSt
      BY <2>1
    <2> QED
      BY <2>1, <2>9, <2>10
  <1>8. CASE WriteSiteState
    <2>1. /\ site.pc = "write" /\ Superseded /\ site.op = "deploy"
          /\ siteSt' = [cur |-> site.hash, prev |-> PreviousHash]
          /\ site' = [site EXCEPT !.pc = "prune"]
          /\ UNCHANGED <<releases, newer>>
      BY <1>8 DEF WriteSiteState
    <2>2. PreviousHash \in {siteSt.cur, NoHash}
      BY <2>1 DEF PreviousHash, Superseded
    <2>3. Recent'
      BY <2>1, <2>2 DEF Recent, Superseded, NewerThan, OnServer
    <2>4. /\ site'.pc = "prune" /\ site'.op = site.op /\ site'.hash = site.hash
          /\ siteSt'.cur = site.hash
      BY <2>1
    <2> QED
      BY <2>1, <2>3, <2>4
  <1>9. CASE RemoveSiteRoute \/ RestoreLink
    BY <1>9 DEF RemoveSiteRoute, RestoreLink
  <1>10. CASE PruneReleases
    <2>1. /\ site.pc = "prune" /\ site' = SiteIdle /\ UNCHANGED siteSt /\ Recent
          /\ siteSt.cur = site.hash
          /\ KeepSet \cap releases \subseteq releases'
          /\ releases' \subseteq releases /\ newer' \subseteq newer
      BY <1>10 DEF PruneReleases
    <2>2. siteSt.prev # NoHash => siteSt.prev \in KeepSet
      <3> SUFFICES ASSUME siteSt.prev # NoHash PROVE siteSt.prev \in KeepSet
        OBVIOUS
      <3>1. siteSt.prev \in releases /\ NewerThan(siteSt.prev) \subseteq {siteSt.cur}
        BY <2>1 DEF Recent, OnServer
      <3>2. IsFiniteSet({siteSt.cur}) /\ Cardinality({siteSt.cur}) = 1
        BY FS_Singleton
      <3>3. /\ Cardinality(NewerThan(siteSt.prev)) <= 1
            /\ Cardinality(NewerThan(siteSt.prev)) \in Nat
        BY <3>1, <3>2, FS_Subset, FS_CardinalityType
      <3>4. Cardinality(NewerThan(siteSt.prev)) < KeepReleases
        BY <3>3, SiteAssumption
      <3> QED
        BY <3>1, <3>4 DEF KeepSet
    <2>3. Recent'
      BY <2>1, <2>2 DEF Recent, NewerThan, OnServer, KeepSet
    <2>4. site'.pc = "idle"
      BY <2>1
    <2> QED
      BY <2>3, <2>4
  <1>11. CASE SiteFails \/ SiteDies
    BY <1>11 DEF SiteFails, SiteDies
  <1> HIDE DEF Goal
  <1> QED
    BY <1>1, <1>2, <1>3, <1>4, <1>5, <1>6, <1>7, <1>8, <1>9, <1>10, <1>11 DEF SiteNext

LEMMA NextSite == SiteInv /\ SiteNext => SiteInv'
  BY NextSiteTyped, NextServes, NextState, NextOrder DEF SiteInv

\* A static site is served, as its state says, and can be rolled back.
LEMMA SiteInvHolds == SiteInv => SiteHolds
  <1> SUFFICES ASSUME SiteInv PROVE SiteHolds
    OBVIOUS
  <1> USE DEF SiteInv
  <1>1. SiteServes
    BY DEF ServesInv, SiteServes
  <1>2. SiteStateTrue
    BY DEF StateInv, SiteStateTrue, SiteAt
  <1>3. RollbackSurvives
    BY SiteForms DEF OrderInv, RollbackSurvives, Recent, Superseded, SiteLabels
  <1> QED
    BY <1>1, <1>2, <1>3 DEF SiteHolds


\* The part that moves keeps its invariant, the others stay as they began.
SiteKept == /\ part = "site" => SiteInv
            /\ part # "site" => SiteInit

LEMMA NextSiteKept == SiteKept /\ [Next]_allVars => SiteKept'
  <1> SUFFICES ASSUME SiteKept, [Next]_allVars PROVE SiteKept'
    OBVIOUS
  <1>1. CASE Site
    BY <1>1, NextSite DEF Site, SiteKept
  <1>2. CASE UNCHANGED <<part, luck, siteVars>>
    <2>1. UNCHANGED <<part, luck, releases, newer, link, siteUp, siteSt, site>>
      BY <1>2 DEF siteVars
    <2> QED
      BY <2>1 DEF SiteKept, SiteInv, SiteTyped, SiteTypeOK, LuckTypeOK, ServesInv, StateInv, OrderInv,
         Recent, Superseded, NoneOf, AtMost, NewerThan, OnServer, SiteInit
  <1>3. CASE part # "site" /\ UNCHANGED <<part, siteVars>>
    BY <1>3 DEF SiteKept, SiteInit, siteVars
  <1> QED
    BY <1>1, <1>2, <1>3 DEF Next, Preview, Upkeep_, Fleet_, Volume, Rest, allVars

\* Visitors of a deployed static app are served a complete release that is
\* there, whatever fails or dies; after one failed command it is the one that
\* the state names; and the release a rollback goes to survives the pruning.
THEOREM SiteAlwaysHolds == Spec => []SiteHolds
  <1>1. Init => SiteKept
    BY LuckAtFirst, InitSite DEF Init, SiteKept
  <1>2. SiteKept => SiteHolds
    <2>1. SiteInit => SiteHolds
      BY DEF SiteInit, SiteHolds, SiteServes, SiteStateTrue, RollbackSurvives, NoSite, NoHash
    <2> QED
      BY <2>1, SiteInvHolds DEF SiteKept
  <1> QED
    BY <1>1, <1>2, NextSiteKept, PTL DEF Spec


-----------------------------------------------------------------------------
(* Volumes.                                                                *)

\* An operation that begins is one less that may begin; a mishap or a use
\* leaves their number.
LEMMA OpsSpent ==
  ASSUME LuckTypeOK, NEW K
  PROVE  /\ luck.ops \in 0..MaxOps /\ MaxOps \in Nat
         /\ BeginAs(K) => luck'.ops = luck.ops - 1
         /\ MishapAs(K) \/ Used(K) => luck'.ops = luck.ops
  BY MishapsAssumption DEF LuckTypeOK, BeginAs, MishapAs, Used

MigrationLabels == {"idle", "detect", "stop", "copy", "start", "swap"}

\* The deploys that have begun have each made one version, or may still make it.
VolumeTyped ==
    /\ LuckTypeOK
    /\ disk \in [Paths -> [Mounts -> SUBSET (1..MaxItems)]]
    /\ batches \in Seq(Batch)
    /\ live \in 1..Len(batches)
    /\ items \in 0..MaxItems
    /\ migration \in [pc : MigrationLabels, flag : BOOLEAN, left : SUBSET Mounts]
    /\ Len(batches) + luck.ops <= MaxOps + 1
    /\ migration.pc \in {"detect", "stop", "copy", "start"} => Len(batches) + luck.ops <= MaxOps
    /\ migration.pc = "swap" => live < Len(batches)

CopiedOf(d, v) == d["foreign"][v] \subseteq d["teploy"][v]
Quiet(b, i)    == b[i].path = "foreign" /\ Replicas \notin b[i].up

\* The newest version is the live one until the next has started.  A copied
\* volume stays copied, since the container that may write is stopped.
FollowInv ==
    NoneOf({"race", "reuse", "leftover"}) =>
        /\ migration.pc # "swap" => live = Len(batches)
        /\ migration.pc = "stop" => batches[live].path = "foreign" /\ migration.left = Mounts
        /\ migration.pc = "copy" => /\ Quiet(batches, live)
                                    /\ \A v \in Mounts \ migration.left : CopiedOf(disk, v)
        /\ migration.pc = "start" => \/ batches[live].path = "teploy"
                                     \/ Quiet(batches, live) /\ \A v \in Mounts : CopiedOf(disk, v)
        /\ migration.pc = "swap" => /\ Len(batches) = live + 1
                                    /\ batches[live + 1].path = "teploy"
                                    /\ \/ batches[live].path = "teploy"
                                       \/ \A v \in Mounts : CopiedOf(disk, v)

VolumeInv == VolumeTyped /\ FollowInv

LEMMA InitVolumes == Init => VolumeInv
  <1> SUFFICES ASSUME Init PROVE VolumeInv
    OBVIOUS
  <1>1. /\ LuckTypeOK /\ luck.ops \in 0..MaxOps /\ MaxOps \in Nat
    BY LuckAtFirst, OpsSpent
  <1>2. /\ batches = <<[path |-> "foreign", up |-> 1..Replicas]>> /\ live = 1 /\ items = 0
        /\ migration = NoMigration /\ disk = [p \in Paths |-> [v \in Mounts |-> {}]]
    BY DEF Init, VolumeInit
  <1>3. [path |-> "foreign", up |-> 1..Replicas] \in Batch
    BY DEF Batch, Paths
  <1>4. batches \in Seq(Batch) /\ Len(batches) = 1
    BY <1>2, <1>3
  <1>5. migration \in [pc : MigrationLabels, flag : BOOLEAN, left : SUBSET Mounts]
        /\ migration.pc = "idle"
    BY <1>2 DEF NoMigration, MigrationLabels
  <1>6. disk \in [Paths -> [Mounts -> SUBSET (1..MaxItems)]]
    BY <1>2
  <1>7. VolumeTyped
    BY <1>1, <1>2, <1>4, <1>5, <1>6, VolumesAssumption DEF VolumeTyped
  <1> QED
    BY <1>2, <1>4, <1>5, <1>7 DEF VolumeInv, FollowInv

LEMMA VolumeStepLuck == VolumeNext => LuckStep
  <1> SUFFICES ASSUME VolumeNext PROVE LuckStep
    OBVIOUS
  <1> USE DEF LuckStep
  <1>k. /\ {} \in SUBSET MishapKinds /\ {"reuse"} \in SUBSET MishapKinds
        /\ {"race"} \in SUBSET MishapKinds /\ {"fault"} \in SUBSET MishapKinds
        /\ {"leftover"} \in SUBSET MishapKinds /\ {"crash"} \in SUBSET MishapKinds
    BY DEF MishapKinds
  <1>1. ASSUME NEW r, WriteItem(r) PROVE LuckStep
    BY <1>1, <1>k DEF WriteItem
  <1>2. ASSUME NEW flag, BeginDeploy(flag) PROVE LuckStep
    BY <1>2, <1>k DEF BeginDeploy, Begin
  <1>3. CASE RollBack \/ StartApp
    BY <1>3, <1>k DEF RollBack, StartApp, Begin
  <1>4. CASE MigrationFails \/ SwapVersion
    BY <1>4, <1>k DEF MigrationFails, SwapVersion, Mishap
  <1>5. CASE DetectVolumeMismatches \/ StopSeen \/ StartVersion
    BY <1>5 DEF DetectVolumeMismatches, StopSeen, StartVersion
  <1>6. ASSUME NEW v, CopyVolume(v) PROVE LuckStep
    BY <1>6 DEF CopyVolume
  <1>7. CASE LeaveVersion \/ DiesRouted
    BY <1>7, <1>k DEF LeaveVersion, DiesRouted, Mishap
  <1> QED
    BY <1>1, <1>2, <1>3, <1>4, <1>5, <1>6, <1>7 DEF VolumeNext

LEMMA NextVolumeTyped ==
  ASSUME VolumeTyped, VolumeNext
  PROVE  VolumeTyped'
  <1>l. LuckTypeOK' /\ luck'.ops \in Nat /\ luck'.ops <= luck.ops
    <2>1. CASE UNCHANGED luck
      BY <2>1, OpsSpent DEF VolumeTyped, LuckTypeOK
    <2>2. ASSUME NEW K \in SUBSET MishapKinds, BeginAs(K) \/ MishapAs(K) \/ Used(K)
          PROVE  LuckTypeOK' /\ luck'.ops \in Nat /\ luck'.ops <= luck.ops
      <3>1. LuckTypeOK'
        BY <2>2, LuckKept DEF VolumeTyped
      <3>2. luck'.ops \in 0..MaxOps
        BY <3>1 DEF LuckTypeOK
      <3> QED
        BY <2>2, <3>1, <3>2, OpsSpent DEF VolumeTyped
    <2> QED
      BY <2>1, <2>2, VolumeStepLuck DEF LuckStep
  <1>t. /\ Len(batches) \in Nat /\ DOMAIN batches = 1..Len(batches)
        /\ \A i \in 1..Len(batches) : batches[i].path \in Paths /\ batches[i].up \subseteq 1..Replicas
                                      /\ batches[i] \in [path : Paths, up : SUBSET (1..Replicas)]
        /\ live \in 1..Len(batches) /\ luck.ops \in Nat /\ MaxOps \in Nat
        /\ MaxItems \in Nat /\ items \in Nat
        /\ migration \in [pc : MigrationLabels, flag : BOOLEAN, left : SUBSET Mounts]
    <2>1. ASSUME NEW i \in 1..Len(batches) PROVE batches[i] \in Batch
      BY DEF VolumeTyped
    <2>2. /\ Len(batches) \in Nat /\ DOMAIN batches = 1..Len(batches)
      BY DEF VolumeTyped
    <2>3. luck.ops \in Nat /\ MaxOps \in Nat
      BY MishapsAssumption DEF VolumeTyped, LuckTypeOK
    <2> QED
      BY <2>1, <2>2, <2>3, VolumesAssumption DEF VolumeTyped, Batch
  <1>n. \A u \in SUBSET (1..Replicas), i \in 1..Len(batches) :
           /\ [batches EXCEPT ![i].up = u] \in Seq(Batch)
           /\ Len([batches EXCEPT ![i].up = u]) = Len(batches)
    <2> SUFFICES ASSUME NEW u \in SUBSET (1..Replicas), NEW i \in 1..Len(batches)
                 PROVE  /\ [batches EXCEPT ![i].up = u] \in Seq(Batch)
                        /\ Len([batches EXCEPT ![i].up = u]) = Len(batches)
      OBVIOUS
    <2>1. [batches[i] EXCEPT !.up = u] \in Batch
      BY <1>t DEF Batch
    <2>2. [batches EXCEPT ![i].up = u] = [batches EXCEPT ![i] = [batches[i] EXCEPT !.up = u]]
      BY <1>t
    <2> QED
      BY <2>1, <2>2, ExceptSeq DEF VolumeTyped
  <1> USE <1>l, <1>t DEF MigrationAt, MigrationEnds, MigrationLabels, NoMigration
  <1>1. ASSUME NEW r \in 1..Replicas, WriteItem(r) PROVE VolumeTyped'
    <2>1. items' \in 0..MaxItems /\ items' = items + 1
      BY <1>1 DEF WriteItem
    <2>2. disk' \in [Paths -> [Mounts -> SUBSET (1..MaxItems)]]
      BY <1>1, <2>1 DEF WriteItem, VolumeTyped
    <2> QED
      BY <1>1, <2>1, <2>2 DEF WriteItem, VolumeTyped
  <1>2. ASSUME NEW flag \in BOOLEAN, BeginDeploy(flag) PROVE VolumeTyped'
    <2>1. luck'.ops = luck.ops - 1
      BY <1>2, OpsSpent DEF BeginDeploy, Begin, VolumeTyped
    <2>2. migration' \in [pc : MigrationLabels, flag : BOOLEAN, left : SUBSET Mounts]
      BY <1>2 DEF BeginDeploy
    <2> QED
      BY <1>2, <2>1, <2>2 DEF BeginDeploy, VolumeTyped
  <1>3. CASE RollBack
    <2>1. PICK b \in DOMAIN batches \ {live} :
            live' = b /\ batches' = [batches EXCEPT ![b].up = 1..Replicas, ![live].up = {}]
      BY <1>3 DEF RollBack
    <2>2. /\ [batches[b] EXCEPT !.up = 1..Replicas] \in Batch
          /\ [batches[live] EXCEPT !.up = {}] \in Batch
      BY <1>t DEF Batch
    <2>3. batches' = [i \in 1..Len(batches) |->
                        IF i = live THEN [batches[live] EXCEPT !.up = {}]
                        ELSE IF i = b THEN [batches[b] EXCEPT !.up = 1..Replicas] ELSE batches[i]]
      BY <2>1 DEF VolumeTyped
    <2>4. batches' \in Seq(Batch) /\ Len(batches') = Len(batches)
      BY <2>2, <2>3 DEF VolumeTyped
    <2> QED
      BY <1>3, <2>1, <2>4 DEF RollBack, VolumeTyped
  <1>4. CASE StartApp
    <2>1. batches' = [batches EXCEPT ![live].up = 1..Replicas] /\ UNCHANGED live
      BY <1>4 DEF StartApp
    <2>2. batches' \in Seq(Batch) /\ Len(batches') = Len(batches)
      BY <2>1, <1>n
    <2> QED
      BY <1>4, <2>1, <2>2 DEF StartApp, VolumeTyped
  <1>5. CASE MigrationFails
    BY <1>5 DEF MigrationFails, VolumeTyped
  <1>6. CASE DetectVolumeMismatches
    <2>1. /\ migration.pc = "detect" /\ UNCHANGED <<disk, batches, live, items, luck>>
          /\ \/ migration' = [migration EXCEPT !.pc = "start"]
             \/ migration' = [migration EXCEPT !.pc = "stop", !.left = Mounts]
             \/ migration' = NoMigration
      BY <1>6 DEF DetectVolumeMismatches
    <2>2. migration' \in [pc : MigrationLabels, flag : BOOLEAN, left : SUBSET Mounts]
          /\ migration'.pc \in {"start", "stop", "idle"}
      <3>1. CASE migration' = [migration EXCEPT !.pc = "start"]
        BY <3>1
      <3>2. CASE migration' = [migration EXCEPT !.pc = "stop", !.left = Mounts]
        BY <3>2
      <3>3. CASE migration' = NoMigration
        BY <3>3
      <3> QED
        BY <2>1, <3>1, <3>2, <3>3
    <2> QED
      BY <2>1, <2>2 DEF VolumeTyped
  <1>7. CASE StopSeen
    <2>1. live \in 1..Len(batches) /\ Len(batches) \in 1..Len(batches)
      OBVIOUS
    <2>2. batches' = [batches EXCEPT ![Len(batches)].up = batches[Len(batches)].up \ {Seen}]
      BY <1>7 DEF StopSeen, Newest
    <2>3. batches' \in Seq(Batch) /\ Len(batches') = Len(batches)
      BY <2>1, <2>2, <1>n
    <2> QED
      BY <1>7, <2>3 DEF StopSeen, VolumeTyped
  <1>8. ASSUME NEW v \in Mounts, CopyVolume(v) PROVE VolumeTyped'
    <2>1. disk' \in [Paths -> [Mounts -> SUBSET (1..MaxItems)]]
      BY <1>8 DEF CopyVolume, VolumeTyped, Paths
    <2>2. migration.pc = "copy" /\ UNCHANGED <<batches, live, items, luck>>
      BY Zenon, <1>8 DEF CopyVolume
    <2> DEFINE l == IF migration.left = {v} THEN "start" ELSE "copy"
    <2>3. l \in {"start", "copy"} /\ migration' = [migration EXCEPT !.left = migration.left \ {v}, !.pc = l]
      BY Zenon, <1>8 DEF CopyVolume
    <2> HIDE DEF l
    <2>4. migration' \in [pc : MigrationLabels, flag : BOOLEAN, left : SUBSET Mounts]
          /\ migration'.pc \in {"start", "copy"}
      BY <2>3
    <2> QED
      BY <2>1, <2>2, <2>4 DEF VolumeTyped
  <1>9. CASE StartVersion
    <2>1. [path |-> "teploy", up |-> 1..Replicas] \in Batch
      BY DEF Batch, Paths
    <2>2. batches' \in Seq(Batch) /\ Len(batches') = Len(batches) + 1
      BY <1>9, <2>1 DEF StartVersion, VolumeTyped
    <2>3. migration' = [migration EXCEPT !.pc = "swap"] /\ migration.pc = "start"
          /\ UNCHANGED <<disk, live, items, luck>>
      BY <1>9 DEF StartVersion
    <2>4. migration' \in [pc : MigrationLabels, flag : BOOLEAN, left : SUBSET Mounts]
          /\ migration'.pc = "swap"
      BY <2>3
    <2>5. live' < Len(batches') /\ live' \in 1..Len(batches')
          /\ Len(batches') + luck'.ops <= MaxOps + 1
      BY <2>2, <2>3 DEF VolumeTyped
    <2> QED
      BY <2>2, <2>3, <2>4, <2>5 DEF VolumeTyped
  <1>10. CASE SwapVersion
    <2>1. /\ migration.pc = "swap" /\ migration' = NoMigration /\ UNCHANGED <<disk, items>>
          /\ \/ live' = Newest /\ batches' = [batches EXCEPT ![live].up = {}]
             \/ live' = live /\ batches' = SubSeq(batches, 1, Newest - 1)
      BY <1>10 DEF SwapVersion
    <2>2. live < Len(batches) /\ Len(batches) + luck.ops <= MaxOps + 1
      BY <2>1 DEF VolumeTyped
    <2>3. CASE live' = Newest /\ batches' = [batches EXCEPT ![live].up = {}]
      <3>1. batches' \in Seq(Batch) /\ Len(batches') = Len(batches)
        BY <2>3, <1>n
      <3> QED
        BY <2>1, <2>2, <2>3, <3>1 DEF VolumeTyped, Newest
    <2>4. CASE live' = live /\ batches' = SubSeq(batches, 1, Newest - 1)
      <3>1. batches' \in Seq(Batch) /\ Len(batches') = Len(batches) - 1
        BY <2>2, <2>4 DEF Newest, VolumeTyped
      <3> QED
        <4>1. live' \in 1..Len(batches') /\ Len(batches') + luck'.ops <= MaxOps + 1
          BY SMTT(40), <2>2, <2>4, <3>1
        <4> QED
          BY <2>1, <2>4, <3>1, <4>1 DEF VolumeTyped
    <2> QED
      BY <2>1, <2>3, <2>4
  <1>11. CASE LeaveVersion
    <2>1. PICK s \in SUBSET (1..Replicas) :
            \/ /\ migration.pc = "start"
               /\ batches' = Append(batches, [path |-> "teploy", up |-> s])
            \/ /\ migration.pc = "swap"
               /\ batches' = [batches EXCEPT ![Len(batches)].up = s]
      BY <1>11 DEF LeaveVersion, Newest
    <2>2. migration' = NoMigration /\ UNCHANGED <<disk, live, items>>
      BY <1>11 DEF LeaveVersion
    <2>3. CASE /\ migration.pc = "start"
               /\ batches' = Append(batches, [path |-> "teploy", up |-> s])
      <3>1. [path |-> "teploy", up |-> s] \in Batch
        BY DEF Batch, Paths
      <3>2. batches' \in Seq(Batch) /\ Len(batches') = Len(batches) + 1
        BY <2>3, <3>1 DEF VolumeTyped
      <3>3. live' \in 1..Len(batches') /\ Len(batches') + luck'.ops <= MaxOps + 1
        BY <2>2, <2>3, <3>2 DEF VolumeTyped
      <3> QED
        BY <2>2, <3>2, <3>3 DEF VolumeTyped
    <2>4. CASE /\ migration.pc = "swap"
               /\ batches' = [batches EXCEPT ![Len(batches)].up = s]
      <3>0. Len(batches) \in 1..Len(batches)
        BY <1>t
      <3>1. batches' \in Seq(Batch) /\ Len(batches') = Len(batches)
        BY <2>4, <3>0, <1>n
      <3> QED
        BY <2>2, <2>4, <3>1 DEF VolumeTyped
    <2> QED
      BY <2>1, <2>3, <2>4
  <1>12. CASE DiesRouted
    <2>1. /\ live' = Len(batches) /\ migration' = NoMigration /\ UNCHANGED <<disk, items>>
          /\ migration.pc = "swap"
      BY <1>12 DEF DiesRouted, Newest
    <2>2. PICK s \in SUBSET batches[live].up : batches' = [batches EXCEPT ![live].up = s]
      BY <1>12 DEF DiesRouted
    <2>3. s \in SUBSET (1..Replicas)
      OBVIOUS
    <2>4. batches' \in Seq(Batch) /\ Len(batches') = Len(batches)
      BY <2>2, <2>3, <1>n
    <2> QED
      BY <2>1, <2>4 DEF VolumeTyped
  <1> QED
    BY <1>1, <1>2, <1>3, <1>4, <1>5, <1>6, <1>7, <1>8, <1>9, <1>10, <1>11, <1>12 DEF VolumeNext


LEMMA VolumeBefore ==
  ASSUME VolumeTyped, VolumeNext, NEW X, NoneOf(X)'
  PROVE  NoneOf(X)
  BY VolumeStepLuck, LuckBefore DEF VolumeTyped

LEMMA NextFollow ==
  ASSUME VolumeTyped, FollowInv, VolumeNext
  PROVE  FollowInv'
  <1> DEFINE Bad == {"race", "reuse", "leftover"}
  <1> SUFFICES ASSUME NoneOf(Bad)' PROVE FollowInv'
    BY DEF FollowInv
  <1>b. /\ NoneOf(Bad)
        /\ \A K \in SUBSET MishapKinds : BeginAs(K) \/ Used(K) => K \cap Bad = {}
    BY VolumeBefore, NoneBefore DEF VolumeTyped
  <1>k. ~Used({"race"}) /\ ~BeginAs({"reuse"}) /\ ~Mishap("leftover")
    <2>1. /\ {"race"} \in SUBSET MishapKinds /\ {"reuse"} \in SUBSET MishapKinds
          /\ "leftover" \in MishapKinds
      BY DEF MishapKinds
    <2>2. ~Mishap("leftover")
      BY <2>1, NotThis DEF VolumeTyped
    <2> QED
      BY <2>1, <2>2, <1>b
  <1> DEFINE Follows(m, b, l, d) ==
        /\ m.pc # "swap" => l = Len(b)
        /\ m.pc = "stop" => b[l].path = "foreign" /\ m.left = Mounts
        /\ m.pc = "copy" => Quiet(b, l) /\ \A v \in Mounts \ m.left : CopiedOf(d, v)
        /\ m.pc = "start" => \/ b[l].path = "teploy"
                             \/ Quiet(b, l) /\ \A v \in Mounts : CopiedOf(d, v)
        /\ m.pc = "swap" => /\ Len(b) = l + 1
                            /\ b[l + 1].path = "teploy"
                            /\ \/ b[l].path = "teploy"
                               \/ \A v \in Mounts : CopiedOf(d, v)
  <1>i. Follows(migration, batches, live, disk)
    BY <1>b DEF FollowInv
  <1> SUFFICES Follows(migration', batches', live', disk')
    BY DEF FollowInv
  <1>t. /\ migration \in [pc : MigrationLabels, flag : BOOLEAN, left : SUBSET Mounts]
        /\ disk \in [Paths -> [Mounts -> SUBSET (1..MaxItems)]]
        /\ batches \in Seq(Batch) /\ Len(batches) \in Nat /\ DOMAIN batches = 1..Len(batches)
        /\ \A i \in 1..Len(batches) : batches[i].path \in Paths
        /\ \A i \in 1..Len(batches) : batches[i] \in [path : Paths, up : SUBSET (1..Replicas)]
        /\ live \in 1..Len(batches)
    <2>1. ASSUME NEW i \in 1..Len(batches) PROVE batches[i] \in Batch
      BY DEF VolumeTyped
    <2>2. /\ \A i \in 1..Len(batches) : batches[i].path \in Paths
          /\ \A i \in 1..Len(batches) : batches[i] \in [path : Paths, up : SUBSET (1..Replicas)]
      BY <2>1 DEF Batch
    <2> QED
      BY <2>2 DEF VolumeTyped
  <1> USE <1>t, <1>i DEF MigrationAt, MigrationEnds, MigrationLabels, NoMigration, Quiet, CopiedOf, Paths
  <1>1. ASSUME NEW r \in 1..Replicas, WriteItem(r)
        PROVE Follows(migration', batches', live', disk')
    <2>1. /\ migration.pc = "idle" \/ (live = Len(batches) /\ r = Replicas)
          /\ r \in batches[live].up /\ UNCHANGED <<migration, batches, live>>
          /\ disk' = [disk EXCEPT ![batches[live].path] =
                        [v \in Mounts |-> disk[batches[live].path][v] \cup {items + 1}]]
      BY SMTT(40), <1>1, <1>k DEF WriteItem, Newest, Seen
    <2>2. CASE batches[live].path = "teploy"
      <3>1. \A v \in Mounts : CopiedOf(disk, v) => CopiedOf(disk', v)
        BY <2>1, <2>2
      <3> QED
        BY ZenonT(40), <2>1, <2>2, <3>1
    <2>3. CASE batches[live].path = "foreign"
      <3>1. migration.pc \in {"idle", "detect", "stop"}
        BY <2>1, <2>3
      <3> QED
        BY <2>1, <2>3, <3>1
    <2> QED
      BY <2>2, <2>3
  <1>2. ASSUME NEW flag \in BOOLEAN, BeginDeploy(flag)
        PROVE Follows(migration', batches', live', disk')
    <2>1. /\ migration.pc = "idle" /\ migration'.pc = "detect"
          /\ UNCHANGED <<disk, batches, live>>
      BY <1>2 DEF BeginDeploy
    <2> QED
      BY <2>1
  <1>3. CASE RollBack
    BY <1>3, <1>k DEF RollBack
  <1>4. CASE StartApp
    <2>1. /\ migration.pc = "idle" /\ UNCHANGED <<migration, live>>
          /\ batches' = [batches EXCEPT ![live].up = 1..Replicas]
      BY SMTT(40), <1>4 DEF StartApp
    <2> QED
      BY <2>1
  <1>5. CASE MigrationFails
    BY <1>5 DEF MigrationFails
  <1>6. CASE DetectVolumeMismatches
    <2>1. /\ migration.pc = "detect" /\ UNCHANGED <<disk, batches, live>>
          /\ \/ migration'.pc = "start" /\ batches[Len(batches)].path = "teploy"
             \/ /\ migration'.pc = "stop" /\ migration'.left = Mounts
                /\ batches[Len(batches)].path # "teploy"
             \/ migration'.pc = "idle"
      <3>1. /\ migration.pc = "detect" /\ UNCHANGED <<disk, batches, live>>
            /\ \/ migration' = [migration EXCEPT !.pc = "start"] /\ batches[Len(batches)].path = "teploy"
               \/ /\ migration' = [migration EXCEPT !.pc = "stop", !.left = Mounts]
                  /\ batches[Len(batches)].path # "teploy"
               \/ migration' = NoMigration
        BY <1>6 DEF DetectVolumeMismatches, Newest
      <3>2. CASE migration' = NoMigration
        BY <3>1, <3>2
      <3>3. CASE migration' # NoMigration
        BY <3>1, <3>3
      <3> QED
        BY <3>2, <3>3
    <2> QED
      BY SMTT(40), <2>1
  <1>7. CASE StopSeen
    <2>1. /\ migration.pc = "stop" /\ migration'.pc = "copy" /\ migration'.left = migration.left
          /\ UNCHANGED <<disk, live>>
          /\ batches' = [batches EXCEPT ![Len(batches)].up = batches[Len(batches)].up \ {Replicas}]
      BY <1>7 DEF StopSeen, Newest, Seen
    <2>2. live = Len(batches) /\ batches[live].path = "foreign" /\ migration'.left = Mounts
      BY <2>1
    <2>3. Len(batches') = Len(batches) /\ Quiet(batches', live)
      BY SMTT(40), <2>1, <2>2
    <2> QED
      BY <2>1, <2>2, <2>3
  <1>8. ASSUME NEW v \in Mounts, CopyVolume(v)
        PROVE Follows(migration', batches', live', disk')
    <2>1. /\ migration.pc = "copy" /\ UNCHANGED <<batches, live>>
          /\ disk' = [disk EXCEPT !["teploy"][v] = disk["teploy"][v] \cup disk["foreign"][v]]
          /\ migration'.left = migration.left \ {v}
          /\ migration.left = {v} => migration'.pc = "start"
          /\ migration.left # {v} => migration'.pc = "copy"
      BY <1>8 DEF CopyVolume
    <2>0. live = Len(batches) /\ Quiet(batches, live)
      <3>1. migration.pc = "copy"
        BY <2>1
      <3> HIDE <2>1
      <3> QED
        BY Zenon, <1>i, <3>1
    <2>7. batches' = batches /\ live' = live
      BY <2>1
    <2>2. \A w \in Mounts : CopiedOf(disk, w) \/ w = v => CopiedOf(disk', w)
      BY <2>1
    <2>3. \A w \in Mounts \ migration'.left : CopiedOf(disk', w)
      BY <2>1, <2>2
    <2>4. migration.left = {v} => \A w \in Mounts : CopiedOf(disk', w)
      BY <2>1, <2>2
    <2> HIDE <1>i, <1>t DEF Quiet, CopiedOf
    <2>5. CASE migration.left = {v}
      <3>1. migration'.pc = "start"
        BY <2>1, <2>5
      <3> QED
        BY <2>0, <2>4, <2>5, <2>7, <3>1
    <2>6. CASE migration.left # {v}
      <3>1. migration'.pc = "copy"
        BY <2>1, <2>6
      <3> QED
        BY <2>0, <2>3, <2>7, <3>1
    <2> QED
      BY Zenon, <2>5, <2>6
  <1>9. CASE StartVersion
    <2>1. /\ migration.pc = "start" /\ migration'.pc = "swap" /\ UNCHANGED <<disk, live>>
          /\ batches' = Append(batches, [path |-> "teploy", up |-> 1..Replicas])
      BY <1>9 DEF StartVersion
    <2>2. /\ live = Len(batches) /\ Len(batches') = live + 1
          /\ batches'[live + 1].path = "teploy" /\ batches'[live] = batches[live]
      BY <2>1
    <2> QED
      BY <2>1, <2>2
  <1>10. CASE SwapVersion
    <2>1. /\ migration.pc = "swap" /\ migration'.pc = "idle" /\ UNCHANGED disk
          /\ \/ live' = Len(batches) /\ batches' = [batches EXCEPT ![live].up = {}]
             \/ live' = live /\ batches' = SubSeq(batches, 1, Len(batches) - 1)
      BY <1>10 DEF SwapVersion, Newest
    <2>2. live' = Len(batches')
      BY <2>1
    <2> QED
      BY <2>1, <2>2
  <1>11. CASE LeaveVersion
    BY <1>11, <1>k DEF LeaveVersion
  <1>12. CASE DiesRouted
    <2>1. /\ live' = Len(batches) /\ migration' = NoMigration
          /\ \E s : batches' = [batches EXCEPT ![live].up = s]
      BY <1>12 DEF DiesRouted, Newest
    <2>2. Len(batches') = Len(batches) /\ migration'.pc = "idle"
      BY <2>1
    <2> QED
      BY <2>1, <2>2
  <1> QED
    BY <1>1, <1>2, <1>3, <1>4, <1>5, <1>6, <1>7, <1>8, <1>9, <1>10, <1>11, <1>12 DEF VolumeNext

VolumesKept == part = "volumes" => VolumeInv

LEMMA NextVolumesKept == VolumesKept /\ [Next]_allVars => VolumesKept'
  <1> SUFFICES ASSUME VolumesKept, [Next]_allVars, part' = "volumes" PROVE VolumeInv'
    BY DEF VolumesKept
  <1>1. CASE Volume
    BY <1>1, NextVolumeTyped, NextFollow DEF Volume, VolumesKept, VolumeInv
  <1>2. CASE UNCHANGED <<part, luck, volumeVars>>
    <2>1. UNCHANGED <<part, luck, disk, batches, live, items, migration>>
      BY <1>2 DEF volumeVars
    <2>2. VolumeInv
      BY <2>1 DEF VolumesKept
    <2> QED
      BY <2>1, <2>2 DEF VolumeInv, VolumeTyped, LuckTypeOK, FollowInv, NoneOf, Quiet, CopiedOf
  <1> QED
    BY <1>1, <1>2 DEF Next, Site, Preview, Upkeep_, Fleet_, Rest, allVars

\* The version that a deploy makes live sees all the data that the one before
\* it had, unless an earlier one had been rolled back to, a deploy left
\* containers that never became live, or another replica writes while the
\* volumes are copied.
THEOREM DataAlwaysFollows == Spec => DataFollows
  <1>1. Init => VolumesKept
    BY InitVolumes DEF VolumesKept
  <1>2. VolumesKept /\ [Next]_allVars
            => [luck'.had \cap {"race", "reuse", "leftover"} = {} => CarriesOver]_volumeVars
    <2> SUFFICES ASSUME VolumesKept, [Next]_allVars, ~UNCHANGED volumeVars,
                        luck'.had \cap {"race", "reuse", "leftover"} = {}
                 PROVE  CarriesOver
      OBVIOUS
    <2>n. NoneOf({"race", "reuse", "leftover"})'
      BY DEF NoneOf
    <2> SUFFICES ASSUME live' # live, Len(batches') = Len(batches), ~MigrationAt("idle"),
                        NEW v \in Mounts
                 PROVE  disk[batches[live].path][v] \subseteq disk[batches[live'].path][v]
      BY DEF CarriesOver, Held
    <2>1. VolumeNext /\ VolumeInv
      <3>1. Volume
        BY DEF Next, Site, Preview, Upkeep_, Fleet_, Rest, allVars
      <3> QED
        BY <3>1 DEF Volume, VolumesKept
    <2>2. NoneOf({"race", "reuse", "leftover"})
      BY <2>1, <2>n, VolumeBefore DEF VolumeInv
    <2>3. /\ migration.pc = "swap" /\ live' = Len(batches)
      BY <2>1 DEF VolumeNext, WriteItem, BeginDeploy, RollBack, StartApp, MigrationFails,
         DetectVolumeMismatches, StopSeen, CopyVolume, StartVersion, SwapVersion, LeaveVersion,
         DiesRouted, MigrationAt, Newest, VolumeInv, VolumeTyped
    <2>4. /\ batches[live + 1].path = "teploy" /\ live' = live + 1
          /\ batches[live].path = "teploy" \/ CopiedOf(disk, v)
          /\ live \in 1..Len(batches) /\ batches \in Seq(Batch)
          /\ batches[live].path \in {"foreign", "teploy"}
      <3>1. live \in 1..Len(batches) /\ batches \in Seq(Batch)
        BY <2>1 DEF VolumeInv, VolumeTyped
      <3>2. batches[live] \in Batch
        BY <3>1
      <3>3. batches[live].path \in {"foreign", "teploy"}
        BY <3>2 DEF Batch, Paths
      <3>4. /\ Len(batches) = live + 1 /\ batches[live + 1].path = "teploy"
            /\ batches[live].path = "teploy" \/ \A w \in Mounts : CopiedOf(disk, w)
        BY <2>1, <2>2, <2>3 DEF VolumeInv, FollowInv
      <3> QED
        BY <2>3, <3>1, <3>3, <3>4
    <2> QED
      BY <2>4 DEF CopiedOf
  <1> QED
    BY <1>1, <1>2, NextVolumesKept, PTL DEF Spec, DataFollows


-----------------------------------------------------------------------------
(* Previews.                                                               *)

CommandLabels == {"idle", "list", "next", "stop", "unroute", "forget", "run", "port",
                  "route", "undo", "save"}

Commands == [pc : CommandLabels, op : {"none", "deploy", "destroy", "prune"},
             branch : Branches \cup {NoBranch}, ver : Commits \cup {"none"},
             todo : SUBSET Labels, own : BOOLEAN,
             victim : PreviewState \cup {NoPreview}, at : Labels \cup {"none"}]

\* What the label says of the rest of a command.
Shaped(r) ==
    /\ r.op \in {"deploy", "destroy"} => r.branch \in Branches
    /\ r.op = "deploy" => r.ver \in Commits
    /\ r.own => r.op \in {"deploy", "destroy"}
    /\ r.pc = "list" /\ r.op = "deploy" => r.own
    /\ r.pc \in {"run", "port", "route", "undo", "save"} => r.op = "deploy" /\ ~r.own
    /\ r.pc \in {"stop", "unroute", "forget"} => r.at \in Labels /\ r.victim \in PreviewState

PreviewTyped ==
    /\ LuckTypeOK
    /\ pctr \in [PreviewName -> {"absent", "exited", "running"}]
    /\ proute \subseteq Labels
    /\ pst \in [Labels -> PreviewState \cup {NoPreview}]
    /\ user \in [Users -> Commands]
    /\ \A u \in Users : Shaped(user[u])

LEMMA InitPreviews == PreviewInit /\ LuckTypeOK => PreviewTyped
  BY DEF PreviewInit, PreviewTyped, NoCommand, Commands, CommandLabels, Shaped, NoPreview

LEMMA PreviewStepLuck == PreviewNext => LuckStep
  <1> SUFFICES ASSUME PreviewNext PROVE LuckStep
    OBVIOUS
  <1> USE DEF LuckStep, Mishap
  <1>k. /\ {"clean"} \in SUBSET MishapKinds /\ {"fault"} \in SUBSET MishapKinds
        /\ {"save"} \in SUBSET MishapKinds /\ {"crash"} \in SUBSET MishapKinds
        /\ {"stolen"} \in SUBSET MishapKinds /\ {"prefix"} \in SUBSET MishapKinds
        /\ {} \in SUBSET MishapKinds
        /\ Race \in SUBSET MishapKinds /\ \A b : Race \cup Collision(b) \in SUBSET MishapKinds
    BY DEF MishapKinds, Race, Collision
  <1>1. ASSUME NEW u, StartPrune(u) PROVE LuckStep
    BY <1>1, <1>k DEF StartPrune
  <1>2. ASSUME NEW u, NEW b, StartDestroy(u, b) PROVE LuckStep
    BY <1>2, <1>k DEF StartDestroy
  <1>3. ASSUME NEW u, NEW b, NEW v, StartPreview(u, b, v) PROVE LuckStep
    BY <1>3, <1>k DEF StartPreview
  <1>4. ASSUME NEW l, Expire(l) PROVE LuckStep
    BY <1>4 DEF Expire
  <1>5. ASSUME NEW v, AppTakes(v) PROVE LuckStep
    BY <1>5, <1>k DEF AppTakes
  <1>7. CASE AppCuts
    BY <1>7, <1>k DEF AppCuts
  <1>6. ASSUME NEW u, PreviewStep(u) PROVE LuckStep
    <2>1. CASE ListExpired(u) \/ Destroyed(u)
      BY <2>1, <1>k DEF ListExpired, Destroyed
    <2>6. ASSUME NEW l \in Labels, Destroy(u, l) PROVE LuckStep
      <3>1. UNCHANGED luck \/ Mishap("clean")
        BY Zenon, <2>6 DEF Destroy
      <3> QED
        BY <3>1, <1>k
    <2>2. CASE StopVictim(u) \/ Forget(u)
      BY <2>2, <1>k DEF StopVictim, Forget
    <2>3. CASE RunPreview(u) \/ InternalPort(u)
      BY <2>3, <1>k DEF RunPreview, InternalPort
    <2>5. CASE Unroute(u) \/ SetPreviewRoute(u)
      <3>1. \A l : Cuts(l) => Used({}) \/ Used({"prefix"})
        BY DEF Cuts
      <3> QED
        BY <2>5, <3>1, <1>k DEF Unroute, SetPreviewRoute, Edited, Rejected
    <2>4. CASE UndoPreview(u) \/ SavePreview(u) \/ UserDies(u)
      BY <2>4, <1>k DEF UndoPreview, SavePreview, UserDies
    <2> QED
      BY SMTT(40), <1>6, <2>1, <2>2, <2>3, <2>4, <2>5, <2>6 DEF PreviewStep
  <1> QED
    BY <1>1, <1>2, <1>3, <1>4, <1>5, <1>6, <1>7 DEF PreviewNext

LEMMA PreviewBefore ==
  ASSUME PreviewTyped, PreviewNext, NEW X, NoneOf(X)'
  PROVE  NoneOf(X)
  BY PreviewStepLuck, LuckBefore DEF PreviewTyped

\* A command's record as it may become, and that of the user it belongs to.
LEMMA CommandSet ==
  ASSUME user \in [Users -> Commands], \A u \in Users : Shaped(user[u]),
         NEW u \in Users, NEW r \in Commands, Shaped(r), user' = [user EXCEPT ![u] = r]
  PROVE  user' \in [Users -> Commands] /\ \A w \in Users : Shaped(user'[w])
  <1>1. \A w \in Users : user'[w] = IF w = u THEN r ELSE user[w]
    OBVIOUS
  <1> QED
    BY <1>1

LEMMA NoCommandShaped == NoCommand \in Commands /\ Shaped(NoCommand)
  BY DEF NoCommand, Commands, CommandLabels, Shaped, NoPreview

\* A step of a command that goes on to a label, with the same work before it.
LEMMA CommandGoes ==
  ASSUME NEW r \in Commands, NEW l \in CommandLabels
  PROVE  /\ [r EXCEPT !.pc = l] \in Commands
         /\ [r EXCEPT !.pc = l].pc = l /\ [r EXCEPT !.pc = l].op = r.op
         /\ [r EXCEPT !.pc = l].branch = r.branch /\ [r EXCEPT !.pc = l].ver = r.ver
         /\ [r EXCEPT !.pc = l].todo = r.todo /\ [r EXCEPT !.pc = l].own = r.own
         /\ [r EXCEPT !.pc = l].victim = r.victim /\ [r EXCEPT !.pc = l].at = r.at
  BY DEF Commands


\* Without commands at the same time there is one at most.
AloneInv == NoneOf({"race"}) =>
    \A u, w \in Users : u # w => user[u].pc = "idle" \/ user[w].pc = "idle"

Kinds   == {"clean", "save", "crash", "race", "stolen", "prefix"}
Foreign == {"race", "collision", "stolen", "prefix"}

\* What is routed, and what runs, is what has a state file.
RoutesAre(x, s) == \A l \in Labels : l \in x <=> s[l] # NoPreview
Runs(s, n)      == s[n.label] # NoPreview /\ s[n.label].ver = n.ver
Plain(c, x, s)  == RoutesAre(x, s) /\ \A n \in PreviewName : c[n] = "running" <=> Runs(s, n)

\* Where a command has got to: the preview it destroys has lost its container
\* and its route, in this order; the one it makes has got them, in this order,
\* and its label was free.
NewOf(r) == [label |-> Sanitize[r.branch], ver |-> r.ver]
AgreeAt(r, c, x, s) ==
    /\ r.pc \in {"list", "next", "stop", "run"} => Plain(c, x, s)
    /\ r.pc \in {"unroute", "forget"} =>
           \A n \in PreviewName : c[n] = "running" <=> n.label # r.at /\ Runs(s, n)
    /\ r.pc = "unroute" => RoutesAre(x, s)
    /\ r.pc = "forget" => \A l \in Labels : l \in x <=> l # r.at /\ s[l] # NoPreview
    /\ r.pc \in {"stop", "unroute", "forget"} => s[r.at] # NoPreview /\ s[r.at].ver = r.victim.ver
    /\ r.pc \in {"port", "route", "undo", "save"} =>
           \A n \in PreviewName : c[n] = "running" <=> n = NewOf(r) \/ Runs(s, n)
    /\ r.pc \in {"port", "route", "undo"} => RoutesAre(x, s)
    /\ r.pc = "save" => \A l \in Labels : l \in x <=> l = Sanitize[r.branch] \/ s[l] # NoPreview
    /\ r.op = "deploy" /\ ~r.own /\ r.pc \in {"next", "run", "port", "route", "undo", "save"}
           => s[Sanitize[r.branch]] = NoPreview
    /\ r.op = "deploy" /\ ~r.own /\ r.pc \in {"stop", "unroute", "forget"}
           => r.at = Sanitize[r.branch] \/ s[Sanitize[r.branch]] = NoPreview

AgreeInv == NoneOf(Kinds) =>
    /\ (\A u \in Users : user[u].pc = "idle") => Plain(pctr, proute, pst)
    /\ \A u \in Users : user[u].pc # "idle" => AgreeAt(user[u], pctr, proute, pst)

\* What a command destroys has expired, or is its own branch's.
Over(s, l) == s[l] = NoPreview \/ s[l].expired = TRUE
LiveAt(r, s) ==
    /\ \A l \in r.todo : Over(s, l)
    /\ r.pc \in {"stop", "unroute", "forget"} =>
           Over(s, r.at) \/ (r.op \in {"deploy", "destroy"} /\ r.at = Sanitize[r.branch])
    /\ r.op \in {"deploy", "destroy"} => s[Sanitize[r.branch]].branch \in {r.branch, NoBranch}

LiveInv == NoneOf(Foreign) => \A u \in Users : user[u].pc # "idle" => LiveAt(user[u], pst)

PreviewInv == PreviewTyped /\ AloneInv /\ AgreeInv /\ LiveInv

\* What is left of a cut block has been cut.
JunkInv == /\ junk \in BOOLEAN
           /\ NoneOf({"stolen", "prefix"}) => junk = FALSE

StoresTyped(c, x, s) ==
    /\ c \in [PreviewName -> {"absent", "exited", "running"}]
    /\ x \subseteq Labels
    /\ s \in [Labels -> PreviewState \cup {NoPreview}]

\* A step of one command, by what it has to show of its own record.
LEMMA CommandMoves ==
  ASSUME PreviewInv, PreviewNext, NEW u \in Users, user[u].pc # "idle",
         NEW r \in Commands, Shaped(r), user' = [user EXCEPT ![u] = r],
         StoresTyped(pctr', proute', pst'),
         NoneOf(Kinds)' /\ NoneOf(Kinds) /\ AgreeAt(user[u], pctr, proute, pst) =>
             /\ r.pc = "idle" => Plain(pctr', proute', pst')
             /\ r.pc # "idle" => AgreeAt(r, pctr', proute', pst'),
         NoneOf(Foreign)' /\ LiveAt(user[u], pst) => r.pc = "idle" \/ LiveAt(r, pst')
  PROVE  PreviewInv'
  <1>0. PreviewTyped /\ user \in [Users -> Commands]
    BY DEF PreviewInv, PreviewTyped
  <1>1. \A w \in Users : user'[w] = IF w = u THEN r ELSE user[w]
    BY <1>0
  <1>2. LuckTypeOK'
    BY <1>0, PreviewStepLuck, LuckKept DEF LuckStep, PreviewTyped, LuckTypeOK
  <1>3. PreviewTyped'
    BY <1>0, <1>1, <1>2, CommandSet DEF PreviewTyped, StoresTyped
  <1>4. AloneInv'
    BY <1>0, <1>1, PreviewBefore DEF AloneInv, PreviewInv
  <1>5. NoneOf({"race"})' => \A w \in Users \ {u} : user[w].pc = "idle" /\ user'[w].pc = "idle"
    BY <1>0, <1>1, PreviewBefore DEF AloneInv, PreviewInv
  <1>6. AgreeInv'
    <2> SUFFICES ASSUME NoneOf(Kinds)'
                 PROVE  /\ (\A w \in Users : user'[w].pc = "idle") => Plain(pctr', proute', pst')
                        /\ \A w \in Users : user'[w].pc # "idle" => AgreeAt(user'[w], pctr', proute', pst')
      BY DEF AgreeInv
    <2>1. NoneOf(Kinds) /\ NoneOf({"race"})'
      BY <1>0, PreviewBefore DEF NoneOf, Kinds
    <2>2. AgreeAt(user[u], pctr, proute, pst)
      BY <2>1 DEF PreviewInv, AgreeInv
    <2> QED
      BY <1>1, <1>5, <2>1, <2>2
  <1>7. LiveInv'
    <2> SUFFICES ASSUME NoneOf(Foreign)'
                 PROVE  \A w \in Users : user'[w].pc # "idle" => LiveAt(user'[w], pst')
      BY DEF LiveInv
    <2>1. NoneOf(Foreign) /\ NoneOf({"race"})'
      BY <1>0, PreviewBefore DEF NoneOf, Foreign
    <2>2. LiveAt(user[u], pst)
      BY <2>1 DEF PreviewInv, LiveInv
    <2>3. r.pc = "idle" \/ LiveAt(r, pst')
      BY <2>2
    <2>4. ASSUME NEW w \in Users, user'[w].pc # "idle" PROVE LiveAt(user'[w], pst')
      <3>1. w = u /\ user'[w] = r
        BY <2>1, <2>4, <1>1, <1>5
      <3> QED
        BY <2>3, <2>4, <3>1
    <2> QED
      BY <2>4
  <1> QED
    BY <1>3, <1>4, <1>6, <1>7 DEF PreviewInv


LEMMA ThisCommand ==
  ASSUME PreviewInv, NEW u \in Users
  PROVE  /\ user[u] \in Commands /\ Shaped(user[u]) /\ user \in [Users -> Commands]
         /\ StoresTyped(pctr, proute, pst)
         /\ \A l \in Labels : pst[l] \in PreviewState \cup {NoPreview}
         /\ NoPreview.expired = FALSE /\ NoPreview.branch = NoBranch
         /\ \A s \in PreviewState : s # NoPreview /\ s.branch \in Branches /\ s.ver \in Commits
  BY PreviewAssumption DEF PreviewInv, PreviewTyped, StoresTyped, NoPreview, PreviewState

\* An edit then cuts no other block, in a file where none was cut.
LEMMA CleanEdit ==
  ASSUME PreviewInv, JunkInv, NEW X, {"stolen", "prefix"} \subseteq X, NoneOf(X), NoneOf(X)'
  PROVE  junk = FALSE /\ ~Used({"prefix"})
  <1>1. junk = FALSE /\ LuckTypeOK /\ {"prefix"} \in SUBSET MishapKinds
    BY DEF JunkInv, NoneOf, PreviewInv, PreviewTyped, MishapKinds
  <1>2. ~Used({"prefix"})
    BY <1>1, NoneBefore
  <1> QED
    BY <1>1, <1>2

\* A mishap of a kind that a property excludes does not happen in its steps.
LEMMA NotClean ==
  ASSUME PreviewInv
  PROVE  /\ Mishap("clean") \/ Mishap("save") \/ Mishap("crash") => ~NoneOf(Kinds)'
         /\ \A K \in SUBSET MishapKinds : \A X : BeginAs(K) /\ NoneOf(X)' => K \cap X = {}
  <1>1. LuckTypeOK
    BY DEF PreviewInv, PreviewTyped
  <1>2. \A k \in {"clean", "save", "crash"} : Mishap(k) => ~NoneOf(Kinds)'
    BY <1>1, NotThis DEF MishapKinds, Kinds
  <1> QED
    BY <1>1, <1>2, NoneBefore

LEMMA ListKeeps ==
  ASSUME PreviewInv, PreviewNext, NEW u \in Users, ListExpired(u)
  PROVE  PreviewInv'
  <1>1. PICK seen \in SUBSET {l \in Labels : pst[l].expired} :
          user' = [user EXCEPT ![u].pc = "next", ![u].todo = seen]
    BY DEF ListExpired
  <1> DEFINE r == [user[u] EXCEPT !.pc = "next", !.todo = seen]
  <1>2. /\ user[u].pc = "list" /\ UNCHANGED <<pctr, proute, pst>>
        /\ user' = [user EXCEPT ![u] = r]
    BY <1>1, ThisCommand DEF ListExpired, UserAt
  <1>3. /\ r \in Commands /\ r.pc = "next" /\ r.op = user[u].op /\ r.own = user[u].own
        /\ r.branch = user[u].branch /\ r.ver = user[u].ver /\ r.todo = seen
    BY ThisCommand DEF Commands, CommandLabels
  <1>4. Shaped(r)
    BY <1>2, <1>3, ThisCommand DEF Shaped
  <1>5. AgreeAt(user[u], pctr, proute, pst) => AgreeAt(r, pctr, proute, pst)
    BY <1>2, <1>3, <1>4, ThisCommand DEF AgreeAt, Shaped
  <1>6. LiveAt(user[u], pst) => LiveAt(r, pst)
    BY <1>1, <1>2, <1>3, ThisCommand DEF LiveAt, Over
  <1> HIDE DEF r
  <1> QED
    BY <1>2, <1>3, <1>4, <1>5, <1>6, ThisCommand, CommandMoves DEF StoresTyped

LEMMA DestroyKeeps ==
  ASSUME PreviewInv, PreviewNext, NEW u \in Users, NEW l \in Labels, Destroy(u, l)
  PROVE  PreviewInv'
  <1> DEFINE q == user[u]
             own == q.own /\ q.todo # {}
             skip == After(q, l)
             stop == [skip EXCEPT !.pc = "stop", !.at = l, !.victim = pst[l]]
  <1>1. /\ q.pc = "next" /\ UNCHANGED <<pctr, proute, pst>>
        /\ IF q.todo # {} THEN l \in q.todo ELSE q.own /\ l = Sanitize[q.branch]
        /\ \/ user' = [user EXCEPT ![u] = skip] /\ (pst[l] = NoPreview \/ Mishap("clean"))
           \/ user' = [user EXCEPT ![u] = stop] /\ pst[l] # NoPreview
    BY ThisCommand DEF Destroy, UserAt, Label, After
  <1>2. /\ skip \in Commands /\ skip.pc = "next" /\ skip.op = q.op /\ skip.own = own
        /\ skip.branch = q.branch /\ skip.ver = q.ver /\ skip.todo = q.todo \ {l}
    BY ZenonT(40), <1>1, ThisCommand DEF Commands, CommandLabels, After
  <1>3. Shaped(skip)
    BY <1>1, <1>2, ThisCommand DEF Shaped
  <1>4. CASE user' = [user EXCEPT ![u] = skip] /\ (pst[l] = NoPreview \/ Mishap("clean"))
    <2>1. NoneOf(Kinds)' /\ AgreeAt(q, pctr, proute, pst) => AgreeAt(skip, pctr, proute, pst)
      <3> SUFFICES ASSUME NoneOf(Kinds)', AgreeAt(q, pctr, proute, pst)
                   PROVE  AgreeAt(skip, pctr, proute, pst)
        OBVIOUS
      <3>1. pst[l] = NoPreview
        BY <1>4, NotClean
      <3> QED
        BY <1>1, <1>2, <3>1 DEF AgreeAt
    <2>2. LiveAt(q, pst) => LiveAt(skip, pst)
      BY <1>1, <1>2 DEF LiveAt
    <2> HIDE DEF skip, own
    <2> QED
      BY <1>1, <1>2, <1>3, <1>4, <2>1, <2>2, ThisCommand, CommandMoves DEF StoresTyped
  <1>5. CASE user' = [user EXCEPT ![u] = stop] /\ pst[l] # NoPreview
    <2>1. /\ stop \in Commands /\ stop.pc = "stop" /\ stop.op = q.op /\ stop.own = own
          /\ stop.branch = q.branch /\ stop.ver = q.ver /\ stop.todo = q.todo \ {l}
          /\ stop.at = l /\ stop.victim = pst[l]
      <3> HIDE DEF skip
      <3>1. skip \in Commands /\ pst[l] \in PreviewState \cup {NoPreview} /\ l \in Labels
        BY <1>2, ThisCommand
      <3> QED
        BY <1>2, <3>1 DEF Commands, CommandLabels
    <2>2. Shaped(stop)
      BY <1>1, <1>5, <2>1, ThisCommand DEF Shaped
    <2>3. AgreeAt(q, pctr, proute, pst) => AgreeAt(stop, pctr, proute, pst)
      BY <1>1, <1>5, <2>1 DEF AgreeAt
    <2>4. LiveAt(q, pst) => LiveAt(stop, pst)
      BY <1>1, <2>1, ThisCommand DEF LiveAt, Shaped
    <2> HIDE DEF stop, own
    <2> QED
      BY <1>1, <1>5, <2>1, <2>2, <2>3, <2>4, ThisCommand, CommandMoves DEF StoresTyped
  <1> QED
    BY <1>1, <1>4, <1>5

LEMMA StopKeeps ==
  ASSUME PreviewInv, PreviewNext, NEW u \in Users, StopVictim(u)
  PROVE  PreviewInv'
  <1> DEFINE q == user[u]
             r == [q EXCEPT !.pc = "unroute"]
             n == [label |-> q.at, ver |-> q.victim.ver]
  <1>1. /\ q.pc = "stop" /\ UNCHANGED <<proute, pst>> /\ user' = [user EXCEPT ![u] = r]
        /\ pctr' \in {pctr, [pctr EXCEPT ![n] = "exited"], [pctr EXCEPT ![n] = "absent"]}
        /\ pctr' = [pctr EXCEPT ![n] = "absent"] \/ Mishap("clean")
    BY ThisCommand DEF StopVictim, UserAt, UserGo, Victim
  <1>2. n \in PreviewName /\ StoresTyped(pctr', proute', pst')
    BY <1>1, ThisCommand DEF Shaped, PreviewName, StoresTyped
  <1>3. /\ r \in Commands /\ r.pc = "unroute" /\ r.op = q.op /\ r.own = q.own /\ r.branch = q.branch
        /\ r.ver = q.ver /\ r.todo = q.todo /\ r.at = q.at /\ r.victim = q.victim
    <2>1. q \in Commands /\ r.pc \in CommandLabels
      BY ThisCommand DEF Commands, CommandLabels
    <2> QED
      BY <2>1, ThisCommand DEF Commands, CommandLabels
  <1> HIDE DEF r
  <1>4. Shaped(r)
    BY <1>1, <1>3, ThisCommand DEF Shaped
  <1>5. NoneOf(Kinds)' /\ AgreeAt(q, pctr, proute, pst) => AgreeAt(r, pctr', proute, pst)
    <2> SUFFICES ASSUME NoneOf(Kinds)', AgreeAt(q, pctr, proute, pst)
                 PROVE  AgreeAt(r, pctr', proute, pst)
      OBVIOUS
    <2>1. pctr' = [pctr EXCEPT ![n] = "absent"]
      BY <1>1, NotClean
    <2>2. pst[q.at] # NoPreview /\ pst[q.at].ver = q.victim.ver /\ Plain(pctr, proute, pst)
      BY <1>1 DEF AgreeAt
    <2>3. ASSUME NEW m \in PreviewName
          PROVE  pctr'[m] = "running" <=> m.label # q.at /\ Runs(pst, m)
      <3>1. m = n <=> m.label = q.at /\ m.ver = q.victim.ver
        BY <1>2 DEF PreviewName
      <3>2. pctr'[m] = IF m = n THEN "absent" ELSE pctr[m]
        BY <2>1, ThisCommand DEF StoresTyped
      <3> QED
        BY <3>1, <3>2, <2>2 DEF Plain, Runs
    <2> QED
      BY <1>1, <1>3, <2>2, <2>3 DEF AgreeAt, Plain
  <1>6. LiveAt(q, pst) => LiveAt(r, pst)
    BY <1>1, <1>3 DEF LiveAt
  <1> QED
    BY <1>1, <1>2, <1>3, <1>4, <1>5, <1>6, CommandMoves

LEMMA UnrouteKeeps ==
  ASSUME PreviewInv, JunkInv, PreviewNext, NEW u \in Users, Unroute(u)
  PROVE  PreviewInv'
  <1> DEFINE q == user[u]
             r == [q EXCEPT !.pc = "forget"]
  <1>1. /\ q.pc = "unroute" /\ UNCHANGED <<pctr, pst>> /\ user' = [user EXCEPT ![u] = r]
        /\ Edited(q.at, {}) \/ Rejected(q.at) \/ (UNCHANGED proute /\ Mishap("clean"))
    BY ThisCommand DEF Unroute, UserAt, UserGo
  <1>2. StoresTyped(pctr', proute', pst')
    <2>0. proute \subseteq Labels
      BY ThisCommand DEF StoresTyped
    <2>1. proute' \subseteq Labels
      BY <1>1, <2>0 DEF Edited, Rejected
    <2> QED
      BY <1>1, <2>1, ThisCommand DEF StoresTyped
  <1>3. /\ r \in Commands /\ r.pc = "forget" /\ r.op = q.op /\ r.own = q.own /\ r.branch = q.branch
        /\ r.ver = q.ver /\ r.todo = q.todo /\ r.at = q.at /\ r.victim = q.victim
    <2>1. q \in Commands /\ r.pc \in CommandLabels
      BY ThisCommand DEF Commands, CommandLabels
    <2> QED
      BY <2>1, ThisCommand DEF Commands, CommandLabels
  <1> HIDE DEF r
  <1>4. Shaped(r)
    BY <1>1, <1>3, ThisCommand DEF Shaped
  <1>5. NoneOf(Kinds)' /\ AgreeAt(q, pctr, proute, pst) => AgreeAt(r, pctr, proute', pst)
    <2> SUFFICES ASSUME NoneOf(Kinds)', AgreeAt(q, pctr, proute, pst)
                 PROVE  AgreeAt(r, pctr, proute', pst)
      OBVIOUS
    <2>0. NoneOf(Kinds) /\ {"stolen", "prefix"} \subseteq Kinds
      BY PreviewBefore DEF Kinds, PreviewInv
    <2>1. proute' = proute \ {q.at}
      <3>1. junk = FALSE /\ ~Used({"prefix"})
        BY <2>0, CleanEdit
      <3> QED
        BY <1>1, <3>1, NotClean DEF Edited, Rejected, Cuts
    <2> QED
      BY <1>1, <1>3, <2>1 DEF AgreeAt, RoutesAre
  <1>6. LiveAt(q, pst) => LiveAt(r, pst)
    BY <1>1, <1>3 DEF LiveAt
  <1> QED
    BY <1>1, <1>2, <1>3, <1>4, <1>5, <1>6, CommandMoves


LEMMA ForgetKeeps ==
  ASSUME PreviewInv, PreviewNext, NEW u \in Users, Forget(u)
  PROVE  PreviewInv'
  <1> DEFINE q == user[u]
             r == [q EXCEPT !.pc = "next", !.at = "none", !.victim = NoPreview]
  <1>1. /\ q.pc = "forget" /\ UNCHANGED <<pctr, proute>> /\ user' = [user EXCEPT ![u] = r]
        /\ pst' = [pst EXCEPT ![q.at] = NoPreview] \/ (UNCHANGED pst /\ Mishap("clean"))
    BY ThisCommand DEF Forget, UserAt
  <1>2. q.at \in Labels /\ StoresTyped(pctr', proute', pst')
    BY <1>1, ThisCommand DEF StoresTyped, Shaped
  <1>3. /\ r \in Commands /\ r.pc = "next" /\ r.op = q.op /\ r.own = q.own /\ r.branch = q.branch
        /\ r.ver = q.ver /\ r.todo = q.todo
    BY ZenonT(40), ThisCommand DEF Commands, CommandLabels
  <1> HIDE DEF r
  <1>4. Shaped(r)
    BY <1>1, <1>3, ThisCommand DEF Shaped
  <1>s. \A l \in Labels : pst'[l] = pst[l] \/ (pst'[l] = NoPreview /\ l = q.at)
    BY <1>1, <1>2, ThisCommand DEF StoresTyped
  <1>5. NoneOf(Kinds)' /\ AgreeAt(q, pctr, proute, pst) => AgreeAt(r, pctr', proute', pst')
    <2> SUFFICES ASSUME NoneOf(Kinds)', AgreeAt(q, pctr, proute, pst)
                 PROVE  AgreeAt(r, pctr, proute, pst')
      BY <1>1
    <2>1. \A l \in Labels : pst'[l] = IF l = q.at THEN NoPreview ELSE pst[l]
      BY <1>1, <1>2, NotClean, ThisCommand DEF StoresTyped
    <2>2. Plain(pctr, proute, pst')
      <3>1. RoutesAre(proute, pst')
        BY <1>1, <2>1 DEF AgreeAt, RoutesAre
      <3>2. \A n \in PreviewName : pctr[n] = "running" <=> Runs(pst', n)
        BY <1>1, <2>1 DEF AgreeAt, Runs, PreviewName
      <3> QED
        BY <3>1, <3>2 DEF Plain
    <2>3. q.op = "deploy" /\ ~q.own => pst'[Sanitize[q.branch]] = NoPreview
      BY <1>1, <2>1, ThisCommand, PreviewAssumption DEF AgreeAt, Shaped
    <2> QED
      BY <1>3, <2>2, <2>3 DEF AgreeAt
  <1>6. LiveAt(q, pst) => LiveAt(r, pst')
    <2> SUFFICES ASSUME LiveAt(q, pst) PROVE LiveAt(r, pst')
      OBVIOUS
    <2>1. \A l \in q.todo : Over(pst', l)
      BY <1>s, ThisCommand DEF LiveAt, Over, Commands
    <2>2. q.op \in {"deploy", "destroy"} => pst'[Sanitize[q.branch]].branch \in {q.branch, NoBranch}
      <3> SUFFICES ASSUME q.op \in {"deploy", "destroy"}
                   PROVE  pst'[Sanitize[q.branch]].branch \in {q.branch, NoBranch}
        OBVIOUS
      <3>1. Sanitize[q.branch] \in Labels
        BY ThisCommand, PreviewAssumption DEF Shaped
      <3> QED
        BY <1>s, <3>1, ThisCommand DEF LiveAt
    <2> QED
      BY <1>3, <2>1, <2>2 DEF LiveAt
  <1> QED
    BY <1>1, <1>2, <1>3, <1>4, <1>5, <1>6, CommandMoves

LEMMA DestroyedKeeps ==
  ASSUME PreviewInv, PreviewNext, NEW u \in Users, Destroyed(u)
  PROVE  PreviewInv'
  <1> DEFINE q == user[u]
             r == [q EXCEPT !.pc = "run"]
  <1>1. /\ q.pc = "next" /\ q.todo = {} /\ ~q.own /\ UNCHANGED <<pctr, proute, pst>>
        /\ \/ q.op = "deploy" /\ user' = [user EXCEPT ![u] = r]
           \/ user' = [user EXCEPT ![u] = NoCommand]
    BY ThisCommand DEF Destroyed, UserAt, UserGo, UserDone
  <1>2. StoresTyped(pctr', proute', pst')
    BY <1>1, ThisCommand DEF StoresTyped
  <1>3. /\ r \in Commands /\ r.pc = "run" /\ r.op = q.op /\ r.own = q.own /\ r.branch = q.branch
        /\ r.ver = q.ver /\ r.todo = q.todo
    BY ZenonT(40), ThisCommand DEF Commands, CommandLabels
  <1> HIDE DEF r
  <1>4. CASE q.op = "deploy" /\ user' = [user EXCEPT ![u] = r]
    <2>1. Shaped(r)
      BY <1>1, <1>3, <1>4, ThisCommand DEF Shaped
    <2>2. AgreeAt(q, pctr, proute, pst) => AgreeAt(r, pctr, proute, pst)
      BY <1>1, <1>3 DEF AgreeAt
    <2>3. LiveAt(q, pst) => LiveAt(r, pst)
      BY <1>1, <1>3 DEF LiveAt
    <2> QED
      BY <1>1, <1>2, <1>3, <1>4, <2>1, <2>2, <2>3, CommandMoves
  <1>5. CASE user' = [user EXCEPT ![u] = NoCommand]
    <2>1. AgreeAt(q, pctr, proute, pst) => Plain(pctr, proute, pst)
      BY <1>1 DEF AgreeAt
    <2>2. NoCommand.pc = "idle"
      BY DEF NoCommand
    <2> QED
      BY <1>1, <1>2, <1>5, <2>1, <2>2, NoCommandShaped, CommandMoves
  <1> QED
    BY <1>1, <1>4, <1>5

\* The name of the new preview is its own while its label is free.
LEMMA NewName ==
  ASSUME PreviewInv, NEW u \in Users, user[u].pc \in {"run", "port", "route", "undo", "save"}
  PROVE  /\ user[u].op = "deploy" /\ ~user[u].own /\ user[u].branch \in Branches
         /\ NewOf(user[u]) \in PreviewName /\ NewOf(user[u]).label = Sanitize[user[u].branch]
         /\ NewOf(user[u]).ver = user[u].ver /\ Sanitize[user[u].branch] \in Labels
         /\ user[u].ver \in Commits
         /\ Fresh(u) = NewOf(user[u]) /\ Label(u) = Sanitize[user[u].branch]
         /\ \A n \in PreviewName : n = [label |-> n.label, ver |-> n.ver] /\ n.label \in Labels
  <1>1. /\ user[u].op = "deploy" /\ ~user[u].own /\ user[u].branch \in Branches
        /\ user[u].ver \in Commits
    BY ThisCommand DEF Shaped
  <1>2. Sanitize[user[u].branch] \in Labels
    BY <1>1, PreviewAssumption
  <1>3. \A n \in PreviewName : n = [label |-> n.label, ver |-> n.ver] /\ n.label \in Labels
    BY DEF PreviewName
  <1> QED
    BY <1>1, <1>2, <1>3 DEF NewOf, Fresh, Label, PreviewName

LEMMA RunKeeps ==
  ASSUME PreviewInv, PreviewNext, NEW u \in Users, RunPreview(u)
  PROVE  PreviewInv'
  <1> DEFINE q == user[u]
             r == [q EXCEPT !.pc = "port"]
             n == NewOf(q)
  <1>0. q.pc = "run"
    BY DEF RunPreview, UserAt
  <1>1. /\ UNCHANGED <<proute, pst>>
        /\ \/ pctr' = [pctr EXCEPT ![n] = "running"] /\ user' = [user EXCEPT ![u] = r]
           \/ UNCHANGED pctr /\ user' = [user EXCEPT ![u] = NoCommand]
           \/ /\ pctr[n] # "running" /\ user' = [user EXCEPT ![u] = NoCommand]
              /\ pctr' \in {[pctr EXCEPT ![n] = "absent"], [pctr EXCEPT ![n] = "exited"]}
    BY <1>0, NewName, ThisCommand DEF RunPreview, UserAt, UserGo, UserDone
  <1>2. StoresTyped(pctr', proute', pst')
    BY <1>0, <1>1, NewName, ThisCommand DEF StoresTyped
  <1>3. /\ r \in Commands /\ r.pc = "port" /\ r.op = q.op /\ r.own = q.own /\ r.branch = q.branch
        /\ r.ver = q.ver /\ r.todo = q.todo
    BY ThisCommand DEF Commands, CommandLabels
  <1> HIDE DEF r
  <1>4. CASE pctr' = [pctr EXCEPT ![n] = "running"] /\ user' = [user EXCEPT ![u] = r]
    <2>1. Shaped(r)
      BY <1>0, <1>3, ThisCommand DEF Shaped
    <2>2. AgreeAt(q, pctr, proute, pst) => AgreeAt(r, pctr', proute, pst)
      <3> SUFFICES ASSUME AgreeAt(q, pctr, proute, pst) PROVE AgreeAt(r, pctr', proute, pst)
        OBVIOUS
      <3>1. \A m \in PreviewName : pctr'[m] = IF m = n THEN "running" ELSE pctr[m]
        BY <1>4, ThisCommand DEF StoresTyped
      <3>2. Plain(pctr, proute, pst) /\ pst[Sanitize[q.branch]] = NoPreview
        BY <1>0, NewName DEF AgreeAt
      <3>3. NewOf(r) = n
        BY <1>3 DEF NewOf
      <3> HIDE DEF n
      <3> QED
        BY <1>0, <1>3, <3>1, <3>2, <3>3 DEF AgreeAt, Plain
    <2>3. LiveAt(q, pst) => LiveAt(r, pst)
      BY <1>0, <1>3 DEF LiveAt
    <2> QED
      BY <1>0, <1>1, <1>2, <1>3, <1>4, <2>1, <2>2, <2>3, CommandMoves
  <1>5. CASE user' = [user EXCEPT ![u] = NoCommand] /\ (UNCHANGED pctr \/
                \A m \in PreviewName : pctr'[m] = "running" <=> pctr[m] = "running")
    <2>1. AgreeAt(q, pctr, proute, pst) => Plain(pctr', proute, pst)
      BY <1>0, <1>5 DEF AgreeAt, Plain
    <2>2. NoCommand.pc = "idle"
      BY DEF NoCommand
    <2> QED
      BY <1>0, <1>1, <1>2, <1>5, <2>1, <2>2, NoCommandShaped, CommandMoves
  <1>6. CASE /\ pctr[n] # "running" /\ user' = [user EXCEPT ![u] = NoCommand]
             /\ pctr' \in {[pctr EXCEPT ![n] = "absent"], [pctr EXCEPT ![n] = "exited"]}
    <2>1. \A m \in PreviewName : pctr'[m] = "running" <=> pctr[m] = "running"
      BY <1>6, ThisCommand DEF StoresTyped
    <2> QED
      BY <1>5, <1>6, <2>1
  <1> QED
    BY <1>1, <1>4, <1>5, <1>6

LEMMA PortKeeps ==
  ASSUME PreviewInv, PreviewNext, NEW u \in Users, InternalPort(u)
  PROVE  PreviewInv'
  <1> DEFINE q == user[u]
  <1>1. PICK l \in {"route", "undo"} : user' = [user EXCEPT ![u].pc = l]
    BY DEF InternalPort, UserGo
  <1> DEFINE r == [q EXCEPT !.pc = l]
  <1>2. q.pc = "port" /\ UNCHANGED <<pctr, proute, pst>> /\ user' = [user EXCEPT ![u] = r]
    BY <1>1, ThisCommand DEF InternalPort, UserAt
  <1>3. /\ r \in Commands /\ r.pc \in {"route", "undo"} /\ r.op = q.op /\ r.own = q.own
        /\ r.branch = q.branch /\ r.ver = q.ver /\ r.todo = q.todo /\ StoresTyped(pctr', proute', pst')
    BY ZenonT(40), <1>2, ThisCommand DEF Commands, CommandLabels, StoresTyped
  <1> HIDE DEF r
  <1>4. Shaped(r)
    BY <1>2, <1>3, ThisCommand DEF Shaped
  <1>5. AgreeAt(q, pctr, proute, pst) => AgreeAt(r, pctr, proute, pst)
    <2>1. NewOf(r) = NewOf(q)
      BY <1>3 DEF NewOf
    <2> QED
      BY <1>2, <1>3, <2>1 DEF AgreeAt
  <1>6. LiveAt(q, pst) => LiveAt(r, pst)
    BY <1>2, <1>3 DEF LiveAt
  <1> QED
    BY <1>2, <1>3, <1>4, <1>5, <1>6, CommandMoves


LEMMA RouteKeeps ==
  ASSUME PreviewInv, JunkInv, PreviewNext, NEW u \in Users, SetPreviewRoute(u)
  PROVE  PreviewInv'
  <1> DEFINE q == user[u]
  <1>1. PICK l \in {"save", "undo"} :
          /\ user' = [user EXCEPT ![u].pc = l]
          /\ \/ l = "save" /\ Edited(Label(u), {Label(u)})
             \/ l = "undo" /\ (Rejected(Label(u)) \/ UNCHANGED proute)
    BY DEF SetPreviewRoute, UserGo
  <1> DEFINE r == [q EXCEPT !.pc = l]
  <1>2. q.pc = "route" /\ UNCHANGED <<pctr, pst>> /\ user' = [user EXCEPT ![u] = r]
    BY <1>1, ThisCommand DEF SetPreviewRoute, UserAt
  <1>3. /\ r \in Commands /\ r.pc = l /\ r.op = q.op /\ r.own = q.own
        /\ r.branch = q.branch /\ r.ver = q.ver /\ r.todo = q.todo
    BY ZenonT(40), <1>2, ThisCommand DEF Commands, CommandLabels
  <1>4. StoresTyped(pctr', proute', pst') /\ Label(u) = Sanitize[q.branch] /\ Label(u) \in Labels
    <2>1. Label(u) = Sanitize[q.branch] /\ Label(u) \in Labels
      BY <1>2, NewName
    <2>2. proute' \subseteq Labels
      <3>1. proute \subseteq Labels
        BY ThisCommand DEF StoresTyped
      <3> QED
        BY <1>1, <2>1, <3>1 DEF Edited, Rejected
    <2> QED
      BY <1>2, <2>1, <2>2, ThisCommand DEF StoresTyped
  <1> HIDE DEF r
  <1>5. Shaped(r)
    BY <1>2, <1>3, ThisCommand DEF Shaped
  <1>6. NoneOf(Kinds)' /\ AgreeAt(q, pctr, proute, pst) => AgreeAt(r, pctr, proute', pst)
    <2> SUFFICES ASSUME NoneOf(Kinds)', AgreeAt(q, pctr, proute, pst)
                 PROVE  AgreeAt(r, pctr, proute', pst)
      OBVIOUS
    <2>0. NoneOf(Kinds) /\ {"stolen", "prefix"} \subseteq Kinds
      BY PreviewBefore DEF Kinds, PreviewInv
    <2>1. NewOf(r) = NewOf(q)
      BY <1>3 DEF NewOf
    <2>2. /\ RoutesAre(proute, pst)
          /\ \A n \in PreviewName : pctr[n] = "running" <=> n = NewOf(q) \/ Runs(pst, n)
          /\ pst[Sanitize[q.branch]] = NoPreview
      BY <1>2, NewName DEF AgreeAt
    <2>3. CASE l = "undo"
      <3>1. proute' = proute
        BY <1>1, <2>3 DEF Rejected
      <3> QED
        BY <1>3, <2>1, <2>2, <2>3, <3>1 DEF AgreeAt
    <2>4. CASE l = "save"
      <3>0. proute' = (proute \ {Label(u)}) \cup {Label(u)}
        <4>1. ~Used({"prefix"})
          BY <2>0, CleanEdit
        <4> QED
          BY <1>1, <2>4, <4>1 DEF Edited, Cuts
      <3>1. \A k \in Labels : k \in proute' <=> k = Sanitize[q.branch] \/ pst[k] # NoPreview
        BY <1>4, <2>2, <3>0 DEF RoutesAre
      <3> QED
        BY <1>3, <2>1, <2>2, <2>4, <3>1 DEF AgreeAt
    <2> QED
      BY <2>3, <2>4
  <1>7. LiveAt(q, pst) => LiveAt(r, pst)
    BY <1>2, <1>3 DEF LiveAt
  <1> QED
    BY <1>2, <1>3, <1>4, <1>5, <1>6, <1>7, CommandMoves

LEMMA UndoKeeps ==
  ASSUME PreviewInv, PreviewNext, NEW u \in Users, UndoPreview(u)
  PROVE  PreviewInv'
  <1> DEFINE q == user[u]
             n == NewOf(q)
  <1>0. q.pc = "undo" /\ UNCHANGED <<proute, pst>> /\ user' = [user EXCEPT ![u] = NoCommand]
    BY DEF UndoPreview, UserAt, UserDone
  <1>1. /\ pctr' \in {pctr, [pctr EXCEPT ![n] = "absent"], [pctr EXCEPT ![n] = "exited"]}
        /\ pctr' = [pctr EXCEPT ![n] = "absent"] \/ Mishap("clean")
    BY <1>0, NewName DEF UndoPreview
  <1>2. StoresTyped(pctr', proute', pst')
    BY <1>0, <1>1, NewName, ThisCommand DEF StoresTyped
  <1>3. NoneOf(Kinds)' /\ AgreeAt(q, pctr, proute, pst) => Plain(pctr', proute, pst)
    <2> SUFFICES ASSUME NoneOf(Kinds)', AgreeAt(q, pctr, proute, pst)
                 PROVE  Plain(pctr', proute, pst)
      OBVIOUS
    <2>1. pctr' = [pctr EXCEPT ![n] = "absent"]
      BY <1>1, NotClean
    <2>2. \A m \in PreviewName : pctr'[m] = IF m = n THEN "absent" ELSE pctr[m]
      BY <2>1, ThisCommand DEF StoresTyped
    <2>3. /\ RoutesAre(proute, pst)
          /\ \A m \in PreviewName : pctr[m] = "running" <=> m = n \/ Runs(pst, m)
          /\ pst[Sanitize[q.branch]] = NoPreview /\ n.label = Sanitize[q.branch]
      BY <1>0, NewName DEF AgreeAt
    <2>4. ~Runs(pst, n)
      BY <2>3 DEF Runs
    <2> HIDE DEF n
    <2> QED
      BY <2>2, <2>3, <2>4 DEF Plain
  <1>4. NoCommand.pc = "idle"
    BY DEF NoCommand
  <1> QED
    BY <1>0, <1>2, <1>3, <1>4, NoCommandShaped, CommandMoves

LEMMA SaveKeeps ==
  ASSUME PreviewInv, PreviewNext, NEW u \in Users, SavePreview(u)
  PROVE  PreviewInv'
  <1> DEFINE q == user[u]
             n == NewOf(q)
             s == [branch |-> q.branch, ver |-> q.ver, expired |-> FALSE]
  <1>0. q.pc = "save" /\ UNCHANGED <<pctr, proute>> /\ user' = [user EXCEPT ![u] = NoCommand]
    BY DEF SavePreview, UserAt, UserDone
  <1>1. pst' = [pst EXCEPT ![Sanitize[q.branch]] = s] \/ (UNCHANGED pst /\ Mishap("save"))
    BY <1>0, NewName DEF SavePreview
  <1>2. s \in PreviewState /\ s # NoPreview /\ s.ver = q.ver
    BY <1>0, NewName, ThisCommand DEF PreviewState
  <1> HIDE DEF s
  <1>3. StoresTyped(pctr', proute', pst')
    BY <1>0, <1>1, <1>2, NewName, ThisCommand DEF StoresTyped
  <1>4. NoneOf(Kinds)' /\ AgreeAt(q, pctr, proute, pst) => Plain(pctr, proute, pst')
    <2> SUFFICES ASSUME NoneOf(Kinds)', AgreeAt(q, pctr, proute, pst)
                 PROVE  Plain(pctr, proute, pst')
      OBVIOUS
    <2>1. \A l \in Labels : pst'[l] = IF l = Sanitize[q.branch] THEN s ELSE pst[l]
      BY <1>1, NotClean, ThisCommand DEF StoresTyped
    <2>2. /\ \A l \in Labels : l \in proute <=> l = Sanitize[q.branch] \/ pst[l] # NoPreview
          /\ \A m \in PreviewName : pctr[m] = "running" <=> m = n \/ Runs(pst, m)
          /\ pst[Sanitize[q.branch]] = NoPreview /\ n.label = Sanitize[q.branch] /\ n.ver = q.ver
      BY <1>0, NewName DEF AgreeAt
    <2>3. RoutesAre(proute, pst')
      BY <1>2, <2>1, <2>2 DEF RoutesAre
    <2>4. ASSUME NEW m \in PreviewName PROVE pctr[m] = "running" <=> Runs(pst', m)
      <3>1. m = n <=> m.label = Sanitize[q.branch] /\ m.ver = q.ver
        BY <1>0, NewName
      <3>2. m.label \in Labels
        BY DEF PreviewName
      <3> QED
        BY <1>2, <2>1, <2>2, <3>1, <3>2 DEF Runs
    <2> QED
      BY <2>3, <2>4 DEF Plain
  <1>5. NoCommand.pc = "idle"
    BY DEF NoCommand
  <1> QED
    BY <1>0, <1>3, <1>4, <1>5, NoCommandShaped, CommandMoves

LEMMA UserDiesKeeps ==
  ASSUME PreviewInv, PreviewNext, NEW u \in Users, UserDies(u)
  PROVE  PreviewInv'
  <1>1. /\ user[u].pc # "idle" /\ UNCHANGED <<pctr, proute, pst>> /\ Mishap("crash")
        /\ user' = [user EXCEPT ![u] = NoCommand]
    BY DEF UserDies, UserAt, UserDone
  <1>2. ~NoneOf(Kinds)' /\ NoCommand.pc = "idle" /\ StoresTyped(pctr', proute', pst')
    BY <1>1, NotClean, ThisCommand DEF NoCommand, StoresTyped
  <1> QED
    BY <1>1, <1>2, NoCommandShaped, CommandMoves

LEMMA StepKeeps ==
  ASSUME PreviewInv, JunkInv, PreviewNext, NEW u \in Users, PreviewStep(u)
  PROVE  PreviewInv'
  BY ListKeeps, DestroyKeeps, StopKeeps, UnrouteKeeps, ForgetKeeps, DestroyedKeeps, RunKeeps,
     PortKeeps, RouteKeeps, UndoKeeps, SaveKeeps, UserDiesKeeps DEF PreviewStep

\* A command begins: alone, unless the race is counted, and with nothing done.
LEMMA CommandBegins ==
  ASSUME PreviewInv, PreviewNext, NEW u \in Users, user[u].pc = "idle",
         NEW K, Race \cup K \in SUBSET MishapKinds, BeginAs(Race \cup K),
         NEW r \in Commands, Shaped(r), user' = [user EXCEPT ![u] = r],
         UNCHANGED <<pctr, proute, pst>>,
         r.pc \in {"list", "next"}, r.op = "deploy" => r.own, r.todo = {},
         r.op \in {"deploy", "destroy"} /\ "collision" \notin K
             => pst[Sanitize[r.branch]].branch \in {r.branch, NoBranch}
  PROVE  PreviewInv'
  <1>0. PreviewTyped /\ user \in [Users -> Commands] /\ LuckTypeOK
    BY DEF PreviewInv, PreviewTyped
  <1>1. \A w \in Users : user'[w] = IF w = u THEN r ELSE user[w]
    BY <1>0
  <1>2. PreviewTyped'
    BY <1>0, LuckKept, CommandSet DEF PreviewTyped
  <1>3. ASSUME NEW X, "race" \in X, NoneOf(X)'
        PROVE  (\A w \in Users : user[w].pc = "idle") /\ K \cap X = {}
    <2>1. (Race \cup K) \cap X = {}
      BY <1>0, <1>3, NoneBefore
    <2> QED
      BY <1>3, <2>1 DEF Race, UserAt
  <1>4. AloneInv'
    BY <1>1, <1>3 DEF AloneInv
  <1>5. AgreeInv'
    <2> SUFFICES ASSUME NoneOf(Kinds)'
                 PROVE  /\ (\A w \in Users : user'[w].pc = "idle") => Plain(pctr', proute', pst')
                        /\ \A w \in Users : user'[w].pc # "idle" => AgreeAt(user'[w], pctr', proute', pst')
      BY DEF AgreeInv
    <2>1. (\A w \in Users : user[w].pc = "idle") /\ NoneOf(Kinds)
      BY <1>0, <1>3, PreviewBefore DEF Kinds
    <2>2. Plain(pctr', proute', pst')
      BY <2>1 DEF PreviewInv, AgreeInv
    <2>3. AgreeAt(r, pctr', proute', pst')
      BY <2>2 DEF AgreeAt
    <2> QED
      BY <1>1, <2>1, <2>2, <2>3
  <1>6. LiveInv'
    <2> SUFFICES ASSUME NoneOf(Foreign)'
                 PROVE  \A w \in Users : user'[w].pc # "idle" => LiveAt(user'[w], pst')
      BY DEF LiveInv
    <2>1. (\A w \in Users : user[w].pc = "idle") /\ "collision" \notin K
      BY <1>3 DEF Foreign
    <2>2. LiveAt(r, pst')
      BY <2>1 DEF LiveAt
    <2> QED
      BY <1>1, <2>1, <2>2
  <1> QED
    BY <1>2, <1>4, <1>5, <1>6 DEF PreviewInv

LEMMA StartPreviewKeeps ==
  ASSUME PreviewInv, PreviewNext, NEW u \in Users, NEW b \in Branches, NEW v \in Commits,
         StartPreview(u, b, v)
  PROVE  PreviewInv'
  <1> DEFINE r == [NoCommand EXCEPT !.pc = "list", !.op = "deploy",
                                        !.branch = b, !.ver = v, !.own = TRUE]
  <1>1. /\ user[u].pc = "idle" /\ BeginAs(Race \cup Collision(b))
        /\ user' = [user EXCEPT ![u] = r] /\ UNCHANGED <<pctr, proute, pst>>
    BY DEF StartPreview, UserAt
  <1>2. /\ r \in Commands /\ Shaped(r) /\ r.pc = "list" /\ r.op = "deploy" /\ r.own /\ r.todo = {}
        /\ r.branch = b
    BY DEF NoCommand, Commands, CommandLabels, Shaped
  <1>3. Race \cup Collision(b) \in SUBSET MishapKinds
    BY DEF Race, Collision, MishapKinds
  <1>4. "collision" \notin Collision(b) => pst[Sanitize[b]].branch \in {b, NoBranch}
    BY DEF Collision
  <1> HIDE DEF r
  <1> QED
    BY <1>1, <1>2, <1>3, <1>4, CommandBegins

LEMMA StartDestroyKeeps ==
  ASSUME PreviewInv, PreviewNext, NEW u \in Users, NEW b \in Branches, StartDestroy(u, b)
  PROVE  PreviewInv'
  <1> DEFINE r == [NoCommand EXCEPT !.pc = "next", !.op = "destroy", !.branch = b, !.own = TRUE]
  <1>1. /\ user[u].pc = "idle" /\ BeginAs(Race \cup Collision(b))
        /\ user' = [user EXCEPT ![u] = r] /\ UNCHANGED <<pctr, proute, pst>>
    BY DEF StartDestroy, UserAt
  <1>2. /\ r \in Commands /\ Shaped(r) /\ r.pc = "next" /\ r.op = "destroy" /\ r.todo = {}
        /\ r.branch = b
    BY DEF NoCommand, Commands, CommandLabels, Shaped
  <1>3. Race \cup Collision(b) \in SUBSET MishapKinds
    BY DEF Race, Collision, MishapKinds
  <1>4. "collision" \notin Collision(b) => pst[Sanitize[b]].branch \in {b, NoBranch}
    BY DEF Collision
  <1> HIDE DEF r
  <1> QED
    BY <1>1, <1>2, <1>3, <1>4, CommandBegins

LEMMA StartPruneKeeps ==
  ASSUME PreviewInv, PreviewNext, NEW u \in Users, StartPrune(u)
  PROVE  PreviewInv'
  <1> DEFINE r == [NoCommand EXCEPT !.pc = "list", !.op = "prune"]
  <1>1. /\ user[u].pc = "idle" /\ BeginAs(Race \cup {})
        /\ user' = [user EXCEPT ![u] = r] /\ UNCHANGED <<pctr, proute, pst>>
    BY DEF StartPrune, UserAt
  <1>2. r \in Commands /\ Shaped(r) /\ r.pc = "list" /\ r.op = "prune" /\ r.todo = {}
    BY DEF NoCommand, Commands, CommandLabels, Shaped
  <1>3. Race \cup {} \in SUBSET MishapKinds
    BY DEF Race, MishapKinds
  <1> HIDE DEF r
  <1> QED
    BY <1>1, <1>2, <1>3, CommandBegins

\* That a preview has expired changes neither its branch nor its version.
LEMMA ExpireKeeps ==
  ASSUME PreviewInv, PreviewNext, NEW k \in Labels, Expire(k)
  PROVE  PreviewInv'
  <1>1. /\ pst[k] # NoPreview /\ pst' = [pst EXCEPT ![k].expired = TRUE]
        /\ UNCHANGED <<pctr, proute, user, luck>>
    BY DEF Expire
  <1>2. PreviewTyped /\ pst \in [Labels -> PreviewState \cup {NoPreview}]
    BY DEF PreviewInv, PreviewTyped
  <1> DEFINE s == [branch |-> pst[k].branch, ver |-> pst[k].ver, expired |-> TRUE]
  <1>3. /\ pst[k] \in PreviewState /\ s \in PreviewState /\ s # NoPreview /\ s.expired = TRUE
        /\ s.branch = pst[k].branch /\ s.ver = pst[k].ver
    BY <1>1, <1>2 DEF PreviewState, NoPreview
  <1>4. \A l \in Labels : pst'[l] = IF l = k THEN s ELSE pst[l]
    BY <1>1, <1>2, <1>3 DEF PreviewState
  <1> HIDE DEF s
  <1>5. pst' \in [Labels -> PreviewState \cup {NoPreview}]
    BY <1>1, <1>2, <1>3, <1>4
  <1>6. \A l \in Labels : /\ pst'[l].branch = pst[l].branch /\ pst'[l].ver = pst[l].ver
                          /\ pst'[l] = NoPreview <=> pst[l] = NoPreview
                          /\ Over(pst, l) => Over(pst', l)
    BY <1>1, <1>3, <1>4 DEF Over
  <1>7. PreviewTyped'
    BY <1>1, <1>2, <1>5 DEF PreviewTyped, LuckTypeOK
  <1>8. RoutesAre(proute, pst) => RoutesAre(proute, pst')
    BY <1>6 DEF RoutesAre
  <1>9. \A n \in PreviewName : Runs(pst', n) <=> Runs(pst, n)
    BY <1>6 DEF Runs, PreviewName
  <1>10. Plain(pctr, proute, pst) => Plain(pctr, proute, pst')
    BY <1>8, <1>9 DEF Plain
  <1>11. ASSUME NEW u \in Users, AgreeAt(user[u], pctr, proute, pst)
         PROVE  AgreeAt(user[u], pctr, proute, pst')
    <2> DEFINE q == user[u]
    <2>0. q \in Commands /\ Shaped(q)
      BY ThisCommand
    <2>a. /\ q.op = "deploy" => Sanitize[q.branch] \in Labels
          /\ q.pc \in {"stop", "unroute", "forget"} => q.at \in Labels
          /\ q.pc \in {"run", "port", "route", "undo", "save"} => q.op = "deploy"
      BY <2>0, PreviewAssumption DEF Shaped
    <2> HIDE DEF q
    <2> SUFFICES ASSUME AgreeAt(q, pctr, proute, pst) PROVE AgreeAt(q, pctr, proute, pst')
      BY <1>11 DEF q
    <2>1. /\ q.pc \in {"list", "next", "stop", "run"} => Plain(pctr, proute, pst')
          /\ q.pc \in {"unroute", "port", "route", "undo"} => RoutesAre(proute, pst')
      BY <1>8, <1>10 DEF AgreeAt
    <2>2. /\ q.pc \in {"unroute", "forget"} =>
                \A n \in PreviewName : pctr[n] = "running" <=> n.label # q.at /\ Runs(pst', n)
          /\ q.pc \in {"port", "route", "undo", "save"} =>
                \A n \in PreviewName : pctr[n] = "running" <=> n = NewOf(q) \/ Runs(pst', n)
      BY <1>9 DEF AgreeAt
    <2>3. /\ q.pc = "forget" => \A l \in Labels : l \in proute <=> l # q.at /\ pst'[l] # NoPreview
          /\ q.pc = "save" =>
                \A l \in Labels : l \in proute <=> l = Sanitize[q.branch] \/ pst'[l] # NoPreview
      BY <1>6 DEF AgreeAt
    <2>4. q.pc \in {"stop", "unroute", "forget"} => pst'[q.at] # NoPreview /\ pst'[q.at].ver = q.victim.ver
      BY <1>6, <2>a DEF AgreeAt
    <2>5. q.op = "deploy" => (pst'[Sanitize[q.branch]] = NoPreview <=> pst[Sanitize[q.branch]] = NoPreview)
      BY <1>6, <2>a
    <2> QED
      BY <2>1, <2>2, <2>3, <2>4, <2>5 DEF AgreeAt
  <1>12. ASSUME NEW u \in Users, LiveAt(user[u], pst) PROVE LiveAt(user[u], pst')
    <2>1. user[u] \in Commands /\ Shaped(user[u])
      BY ThisCommand
    <2>2. /\ user[u].todo \subseteq Labels
          /\ user[u].op \in {"deploy", "destroy"} => Sanitize[user[u].branch] \in Labels
          /\ user[u].pc \in {"stop", "unroute", "forget"} => user[u].at \in Labels
      BY <2>1, PreviewAssumption DEF Shaped, Commands
    <2> QED
      BY <1>6, <1>12, <2>2 DEF LiveAt
  <1>13. NoneOf(Kinds)' = NoneOf(Kinds) /\ NoneOf(Foreign)' = NoneOf(Foreign)
         /\ NoneOf({"race"})' = NoneOf({"race"})
    BY <1>1 DEF NoneOf
  <1>14. AloneInv'
    BY <1>1, <1>13 DEF AloneInv, PreviewInv
  <1>15. AgreeInv'
    BY <1>1, <1>10, <1>11, <1>13 DEF AgreeInv, PreviewInv
  <1>16. LiveInv'
    BY <1>1, <1>12, <1>13 DEF LiveInv, PreviewInv
  <1> QED
    BY <1>7, <1>14, <1>15, <1>16 DEF PreviewInv

\* What the app's own commands take is counted.
LEMMA TakesKeeps ==
  ASSUME PreviewInv, PreviewNext, NEW v \in Commits, AppTakes(v)
  PROVE  PreviewInv'
  <1>1. /\ BeginAs({"stolen"}) /\ UNCHANGED <<proute, pst, user>>
        /\ \E s \in {"absent", "exited"} :
             pctr' = [c \in PreviewName |-> IF c.ver = v /\ pctr[c] = "running" THEN s ELSE pctr[c]]
    BY DEF AppTakes
  <1>2. PreviewTyped /\ LuckTypeOK /\ {"stolen"} \in SUBSET MishapKinds
    BY DEF PreviewInv, PreviewTyped, MishapKinds
  <1>3. LuckTypeOK' /\ pctr' \in [PreviewName -> {"absent", "exited", "running"}]
    BY <1>1, <1>2, LuckKept DEF PreviewTyped
  <1>4. PreviewTyped'
    BY <1>1, <1>2, <1>3 DEF PreviewTyped
  <1>5. ~NoneOf(Kinds)' /\ ~NoneOf(Foreign)' /\ (NoneOf({"race"})' => NoneOf({"race"}))
    BY <1>1, <1>2, NoneBefore DEF Kinds, Foreign
  <1>6. AloneInv' /\ AgreeInv' /\ LiveInv'
    BY <1>1, <1>5 DEF PreviewInv, AloneInv, AgreeInv, LiveInv
  <1> QED
    BY <1>4, <1>6 DEF PreviewInv

\* So is what a deploy of the app cuts.
LEMMA CutsKeep ==
  ASSUME PreviewInv, PreviewNext, AppCuts
  PROVE  PreviewInv'
  <1>1. BeginAs({"stolen"}) /\ UNCHANGED <<pctr, pst, user>> /\ proute' = {}
    BY DEF AppCuts
  <1>2. PreviewTyped /\ LuckTypeOK /\ {"stolen"} \in SUBSET MishapKinds
    BY DEF PreviewInv, PreviewTyped, MishapKinds
  <1>3. LuckTypeOK'
    BY <1>1, <1>2, LuckKept DEF PreviewTyped
  <1>4. PreviewTyped'
    BY <1>1, <1>2, <1>3 DEF PreviewTyped
  <1>5. ~NoneOf(Kinds)' /\ ~NoneOf(Foreign)' /\ (NoneOf({"race"})' => NoneOf({"race"}))
    BY <1>1, <1>2, NoneBefore DEF Kinds, Foreign
  <1>6. AloneInv' /\ AgreeInv' /\ LiveInv'
    BY <1>1, <1>5 DEF PreviewInv, AloneInv, AgreeInv, LiveInv
  <1> QED
    BY <1>4, <1>6 DEF PreviewInv

LEMMA NextJunk == PreviewInv /\ JunkInv /\ PreviewNext => JunkInv'
  <1> SUFFICES ASSUME PreviewInv, JunkInv, PreviewNext PROVE JunkInv'
    OBVIOUS
  <1>0. PreviewTyped /\ LuckTypeOK
    BY DEF PreviewInv, PreviewTyped
  <1>1. CASE UNCHANGED junk
    BY <1>0, <1>1, PreviewBefore DEF JunkInv
  <1>2. ASSUME NEW l, junk' = (junk \/ Cut(l) # {}), Cuts(l) PROVE JunkInv'
    <2>1. junk' \in BOOLEAN
      BY <1>2 DEF JunkInv
    <2>2. CASE Cut(l) = {}
      BY <1>0, <1>2, <2>1, <2>2, PreviewBefore DEF JunkInv
    <2>3. CASE Cut(l) # {}
      <3>1. Used({"prefix"}) /\ {"prefix"} \in SUBSET MishapKinds
        BY <1>2, <2>3 DEF Cuts, MishapKinds
      <3>2. ~NoneOf({"stolen", "prefix"})'
        BY <1>0, <3>1, NoneBefore
      <3> QED
        BY <2>1, <3>2 DEF JunkInv
    <2> QED
      BY <2>2, <2>3
  <1>3. CASE AppCuts
    <2>1. BeginAs({"stolen"}) /\ junk' = TRUE /\ {"stolen"} \in SUBSET MishapKinds
      BY <1>3 DEF AppCuts, MishapKinds
    <2>2. ~NoneOf({"stolen", "prefix"})'
      BY <1>0, <2>1, NoneBefore
    <2> QED
      BY <2>1, <2>2 DEF JunkInv
  <1>4. ASSUME NEW u, Unroute(u) \/ SetPreviewRoute(u) PROVE JunkInv'
    BY <1>1, <1>2, <1>4 DEF Unroute, SetPreviewRoute, Edited, Rejected
  <1>5. ASSUME NEW u, PreviewStep(u) PROVE JunkInv'
    <2>1. CASE Unroute(u) \/ SetPreviewRoute(u)
      BY <1>4, <2>1
    <2>2. CASE ~(Unroute(u) \/ SetPreviewRoute(u))
      <3>1. ASSUME NEW l, Destroy(u, l) PROVE UNCHANGED junk
        BY Zenon, <3>1 DEF Destroy
      <3>2. CASE ListExpired(u) \/ Destroyed(u) \/ StopVictim(u) \/ Forget(u)
        BY <3>2, <1>1 DEF ListExpired, Destroyed, StopVictim, Forget
      <3>3. CASE RunPreview(u) \/ InternalPort(u)
        BY <3>3, <1>1 DEF RunPreview, InternalPort
      <3>4. CASE UndoPreview(u) \/ SavePreview(u) \/ UserDies(u)
        BY <3>4, <1>1 DEF UndoPreview, SavePreview, UserDies
      <3> QED
        BY <1>1, <1>5, <2>2, <3>1, <3>2, <3>3, <3>4 DEF PreviewStep
    <2> QED
      BY <2>1, <2>2
  <1>6. ASSUME NEW u, StartPrune(u) PROVE JunkInv'
    BY <1>1, <1>6 DEF StartPrune
  <1>7. ASSUME NEW u, NEW b, StartDestroy(u, b) PROVE JunkInv'
    BY <1>1, <1>7 DEF StartDestroy
  <1>8. ASSUME NEW u, NEW b, NEW v, StartPreview(u, b, v) PROVE JunkInv'
    BY <1>1, <1>8 DEF StartPreview
  <1>9. ASSUME NEW l, Expire(l) PROVE JunkInv'
    BY <1>1, <1>9 DEF Expire
  <1>10. ASSUME NEW v, AppTakes(v) PROVE JunkInv'
    BY <1>1, <1>10 DEF AppTakes
  <1> QED
    BY <1>3, <1>5, <1>6, <1>7, <1>8, <1>9, <1>10 DEF PreviewNext

LEMMA NextPreview == PreviewInv /\ JunkInv /\ PreviewNext => PreviewInv'
  <1> SUFFICES ASSUME PreviewInv, JunkInv, PreviewNext PROVE PreviewInv'
    OBVIOUS
  <1>1. CASE \E u \in Users : PreviewStep(u)
    BY <1>1, StepKeeps
  <1>2. CASE \E u \in Users : StartPrune(u)
    BY <1>2, StartPruneKeeps
  <1>3. CASE \E u \in Users, b \in Branches : StartDestroy(u, b)
    BY <1>3, StartDestroyKeeps
  <1>4. CASE \E u \in Users, b \in Branches, v \in Commits : StartPreview(u, b, v)
    BY <1>4, StartPreviewKeeps
  <1>5. CASE \E l \in Labels : Expire(l)
    BY <1>5, ExpireKeeps
  <1>6. CASE \E v \in Commits : AppTakes(v)
    BY <1>6, TakesKeeps
  <1>7. CASE AppCuts
    BY <1>7, CutsKeep
  <1> QED
    BY <1>1, <1>2, <1>3, <1>4, <1>5, <1>6, <1>7 DEF PreviewNext

LEMMA PreviewsAtFirst == Init => PreviewInv /\ JunkInv
  <1> SUFFICES ASSUME Init PROVE PreviewInv /\ JunkInv
    OBVIOUS
  <1>1. PreviewInit /\ PreviewTyped
    BY InitPreviews, LuckAtFirst DEF Init
  <1>2. \A u \in Users : user[u].pc = "idle"
    BY <1>1 DEF PreviewInit, NoCommand
  <1>3. RoutesAre(proute, pst)
    BY <1>1 DEF PreviewInit, RoutesAre
  <1>4. ASSUME NEW n \in PreviewName PROVE pctr[n] # "running" /\ ~Runs(pst, n)
    <2>1. n.label \in Labels
      BY DEF PreviewName
    <2> QED
      BY <1>1, <2>1 DEF PreviewInit, Runs
  <1>5. Plain(pctr, proute, pst)
    BY <1>3, <1>4 DEF Plain
  <1> QED
    BY <1>1, <1>2, <1>5 DEF PreviewInv, AloneInv, AgreeInv, LiveInv, JunkInv, PreviewInit

LEMMA AgreeFollows == PreviewInv => PreviewsAgree
  <1> SUFFICES ASSUME PreviewInv, \A u \in Users : user[u].pc = "idle", NoneOf(Kinds)
               PROVE  /\ proute = {l \in Labels : pst[l] # NoPreview}
                      /\ {c \in PreviewName : pctr[c] = "running"}
                           = {[label |-> l, ver |-> pst[l].ver] : l \in proute}
    BY DEF PreviewsAgree, UserAt, Kinds
  <1>1. Plain(pctr, proute, pst)
    BY DEF PreviewInv, AgreeInv
  <1>2. proute \subseteq Labels /\ pst \in [Labels -> PreviewState \cup {NoPreview}]
    BY DEF PreviewInv, PreviewTyped
  <1>3. \A l \in Labels : l \in proute <=> pst[l] # NoPreview
    BY <1>1 DEF Plain, RoutesAre
  <1>4. \A l \in proute : pst[l].ver \in Commits
    BY <1>2, <1>3 DEF PreviewState
  <1>5. ASSUME NEW c
        PROVE  c \in PreviewName /\ pctr[c] = "running"
                 <=> \E l \in proute : c = [label |-> l, ver |-> pst[l].ver]
    <2>1. ASSUME c \in PreviewName, pctr[c] = "running"
          PROVE  \E l \in proute : c = [label |-> l, ver |-> pst[l].ver]
      <3>1. c.label \in Labels /\ c = [label |-> c.label, ver |-> c.ver]
        BY <2>1 DEF PreviewName
      <3>2. pst[c.label] # NoPreview /\ pst[c.label].ver = c.ver
        BY <1>1, <2>1 DEF Plain, Runs
      <3> QED
        BY <1>3, <3>1, <3>2
    <2>2. ASSUME NEW l \in proute, c = [label |-> l, ver |-> pst[l].ver]
          PROVE  c \in PreviewName /\ pctr[c] = "running"
      <3>1. c \in PreviewName /\ c.label = l /\ c.ver = pst[l].ver
        BY <1>2, <1>4, <2>2 DEF PreviewName
      <3> QED
        BY <1>1, <1>2, <1>3, <3>1 DEF Plain, Runs
    <2> QED
      BY <2>1, <2>2
  <1> QED
    BY <1>2, <1>3, <1>5

\* A command at a preview that lives is one for its branch.
LEMMA OwnCommand ==
  ASSUME PreviewInv, NoneOf(Foreign), NEW u \in Users, user[u].pc # "idle",
         NEW l \in Labels, pst[l] # NoPreview, ~pst[l].expired,
         \/ user[u].pc \in {"stop", "unroute", "forget"} /\ user[u].at = l
         \/ user[u].op \in {"deploy", "destroy"} /\ Sanitize[user[u].branch] = l
  PROVE  user[u].branch = pst[l].branch
  <1>1. LiveAt(user[u], pst)
    BY DEF PreviewInv, LiveInv
  <1>2. ~Over(pst, l)
    BY DEF Over
  <1>3. pst[l].branch # NoBranch
    BY ThisCommand, PreviewAssumption
  <1>4. user[u].op \in {"deploy", "destroy"} /\ Sanitize[user[u].branch] = l
    BY <1>1, <1>2 DEF LiveAt
  <1> QED
    BY <1>1, <1>3, <1>4 DEF LiveAt

\* What a step takes down lies at its own command.
LEMMA StepStays ==
  ASSUME PreviewInv, JunkInv, PreviewNext, NEW u \in Users, PreviewStep(u),
         NoneOf(Foreign), NoneOf(Foreign)',
         NEW l \in Labels, pst[l] # NoPreview, ~pst[l].expired, TakesDown(l)
  PROVE  user[u].branch = pst[l].branch
  <1> DEFINE q == user[u]
             c == [label |-> l, ver |-> pst[l].ver]
  <1>0. /\ Shaped(q) /\ pst[l] \in PreviewState /\ pst[l].ver \in Commits
        /\ StoresTyped(pctr, proute, pst)
    BY ThisCommand
  <1>c. c \in PreviewName /\ c.label = l
    BY <1>0 DEF PreviewName
  <1>d. \/ pst'[l] = NoPreview
        \/ l \in proute /\ l \notin proute'
        \/ pctr[c] = "running" /\ pctr'[c] # "running"
    BY DEF TakesDown
  <1>e. junk = FALSE /\ ~Used({"prefix"})
    BY CleanEdit DEF Foreign
  <1> HIDE DEF c
  <1>1. CASE UNCHANGED <<pctr, proute, pst>>
    BY <1>1, <1>d
  <1>2. CASE StopVictim(u)
    <2>1. /\ q.pc = "stop" /\ UNCHANGED <<proute, pst>>
          /\ pctr' \in {pctr, [pctr EXCEPT ![Victim(u)] = "absent"], [pctr EXCEPT ![Victim(u)] = "exited"]}
      BY <1>2 DEF StopVictim, UserAt
    <2>2. c = Victim(u)
      BY <1>0, <1>c, <1>d, <2>1 DEF StoresTyped
    <2>3. q.at = l
      BY <1>c, <2>2 DEF Victim
    <2> QED
      BY <2>1, <2>3, OwnCommand
  <1>3. CASE Unroute(u)
    <2>1. /\ q.pc = "unroute" /\ UNCHANGED <<pctr, pst>> /\ proute' \in {proute, proute \ {q.at}}
      <3>1. q.pc = "unroute" /\ UNCHANGED <<pctr, pst>>
        BY <1>3 DEF Unroute, UserAt
      <3>2. proute' = proute \ {q.at} \/ UNCHANGED proute
        BY <1>3, <1>e DEF Unroute, Edited, Rejected, Cuts
      <3> QED
        BY <3>1, <3>2
    <2>2. q.at = l
      BY <1>d, <2>1
    <2> QED
      BY <2>1, <2>2, OwnCommand
  <1>4. CASE Forget(u)
    <2>1. /\ q.pc = "forget" /\ UNCHANGED <<pctr, proute>>
          /\ pst' \in {pst, [pst EXCEPT ![q.at] = NoPreview]}
      BY <1>4 DEF Forget, UserAt
    <2>2. q.at = l
      BY <1>0, <1>d, <2>1 DEF StoresTyped
    <2> QED
      BY <2>1, <2>2, OwnCommand
  <1>5. CASE RunPreview(u)
    <2>1. /\ q.pc = "run" /\ UNCHANGED <<proute, pst>>
          /\ \/ pctr' = pctr
             \/ /\ pctr[Fresh(u)] # "running"
                /\ pctr' \in {[pctr EXCEPT ![Fresh(u)] = "running"], [pctr EXCEPT ![Fresh(u)] = "absent"],
                              [pctr EXCEPT ![Fresh(u)] = "exited"]}
      BY <1>5 DEF RunPreview, UserAt
    <2>2. pctr[c] = "running" => pctr'[c] = "running"
      BY <1>0, <1>c, <2>1 DEF StoresTyped
    <2> QED
      BY <1>d, <2>1, <2>2
  <1>6. CASE SetPreviewRoute(u)
    <2>1. UNCHANGED <<pctr, pst>> /\ proute \subseteq proute'
      <3>1. UNCHANGED <<pctr, pst>>
        BY <1>6 DEF SetPreviewRoute
      <3>2. proute' = (proute \ {Label(u)}) \cup {Label(u)} \/ UNCHANGED proute
        BY <1>6, <1>e DEF SetPreviewRoute, Edited, Rejected, Cuts
      <3> QED
        BY <3>1, <3>2
    <2> QED
      BY <1>d, <2>1
  <1>7. CASE UndoPreview(u)
    <2>1. /\ q.pc = "undo" /\ UNCHANGED <<proute, pst>>
          /\ pctr' \in {pctr, [pctr EXCEPT ![Fresh(u)] = "absent"], [pctr EXCEPT ![Fresh(u)] = "exited"]}
      BY <1>7 DEF UndoPreview, UserAt
    <2>2. c = Fresh(u)
      BY <1>0, <1>c, <1>d, <2>1 DEF StoresTyped
    <2>3. Sanitize[q.branch] = l /\ q.op = "deploy"
      BY <1>0, <1>c, <2>1, <2>2 DEF Fresh, Label, Shaped
    <2> QED
      BY <2>1, <2>3, OwnCommand
  <1>8. CASE SavePreview(u)
    <2>1. /\ q.pc = "save" /\ UNCHANGED <<pctr, proute>>
          /\ pst' \in {pst, [pst EXCEPT ![Label(u)] =
                                [branch |-> q.branch, ver |-> q.ver, expired |-> FALSE]]}
      BY <1>8 DEF SavePreview, UserAt
    <2>2. [branch |-> q.branch, ver |-> q.ver, expired |-> FALSE] \in PreviewState
      BY <1>0, <2>1 DEF Shaped, PreviewState
    <2>3. pst'[l] # NoPreview
      BY <1>0, <2>1, <2>2, ThisCommand DEF StoresTyped
    <2> QED
      BY <1>d, <2>1, <2>3
  <1>9. CASE \E k \in Labels : Destroy(u, k)
    <2>1. UNCHANGED <<pctr, proute, pst>>
      BY <1>9 DEF Destroy
    <2> QED
      BY <1>1, <2>1
  <1> QED
    BY <1>1, <1>2, <1>3, <1>4, <1>5, <1>6, <1>7, <1>8, <1>9
    DEF PreviewStep, ListExpired, Destroyed, InternalPort, UserDies

LEMMA LiveStays == PreviewInv /\ JunkInv /\ PreviewNext => LivePreviewStays
  <1> SUFFICES ASSUME PreviewInv, JunkInv, PreviewNext, NoneOf(Foreign)',
                      NEW l \in Labels, pst[l] # NoPreview, ~pst[l].expired, TakesDown(l)
               PROVE  \E u \in Users : user[u].branch = pst[l].branch
    BY DEF LivePreviewStays, NoneOf, Foreign
  <1>0. PreviewTyped /\ NoneOf(Foreign)
    BY PreviewBefore DEF PreviewInv
  <1>1. CASE \E u \in Users : PreviewStep(u)
    BY <1>0, <1>1, StepStays
  <1>2. CASE UNCHANGED <<pctr, proute, pst>>
    BY <1>2 DEF TakesDown
  <1>3. ASSUME NEW k \in Labels, Expire(k) PROVE FALSE
    <2>1. /\ UNCHANGED <<pctr, proute>> /\ pst' = [pst EXCEPT ![k].expired = TRUE]
          /\ pst[k] \in PreviewState /\ pst[l] \in PreviewState
          /\ pst \in [Labels -> PreviewState \cup {NoPreview}]
      BY <1>0, <1>3 DEF Expire, PreviewTyped
    <2>2. pst'[l].branch = pst[l].branch
      BY <2>1 DEF PreviewState
    <2>3. pst'[l] # NoPreview
      BY <2>1, <2>2, PreviewAssumption DEF PreviewState, NoPreview
    <2> QED
      BY <2>1, <2>3 DEF TakesDown
  <1>4. ASSUME NEW v \in Commits, AppTakes(v) PROVE FALSE
    <2>1. BeginAs({"stolen"}) /\ {"stolen"} \in SUBSET MishapKinds
      BY <1>4 DEF AppTakes, MishapKinds
    <2> QED
      BY <1>0, <2>1, NoneBefore DEF PreviewTyped, Foreign
  <1>5. ASSUME AppCuts PROVE FALSE
    <2>1. BeginAs({"stolen"}) /\ {"stolen"} \in SUBSET MishapKinds
      BY <1>5 DEF AppCuts, MishapKinds
    <2> QED
      BY <1>0, <2>1, NoneBefore DEF PreviewTyped, Foreign
  <1>6. ASSUME NEW u, NEW b, NEW v, StartPrune(u) \/ StartDestroy(u, b) \/ StartPreview(u, b, v)
        PROVE  UNCHANGED <<pctr, proute, pst>>
    BY Zenon, <1>6 DEF StartPrune, StartDestroy, StartPreview
  <1> QED
    BY <1>1, <1>2, <1>3, <1>4, <1>5, <1>6 DEF PreviewNext

PreviewsKept == part = "previews" => PreviewInv /\ JunkInv

LEMMA NextPreviewsKept == PreviewsKept /\ [Next]_allVars => PreviewsKept'
  <1> SUFFICES ASSUME PreviewsKept, [Next]_allVars, part' = "previews"
               PROVE  PreviewInv' /\ JunkInv'
    BY DEF PreviewsKept
  <1>1. CASE Preview
    BY <1>1, NextPreview, NextJunk DEF Preview, PreviewsKept
  <1>2. CASE UNCHANGED <<part, luck, previewVars>>
    <2>1. UNCHANGED <<part, luck, pctr, proute, junk, pst, user>>
      BY <1>2 DEF previewVars
    <2>2. PreviewInv /\ JunkInv
      BY <2>1 DEF PreviewsKept
    <2>3. PreviewTyped'
      BY <2>1, <2>2 DEF PreviewInv, PreviewTyped, LuckTypeOK
    <2>4. AloneInv' /\ AgreeInv' /\ LiveInv' /\ JunkInv'
      BY <2>1, <2>2 DEF PreviewInv, AloneInv, AgreeInv, LiveInv, JunkInv, NoneOf
    <2> QED
      BY <2>3, <2>4 DEF PreviewInv
  <1> QED
    BY <1>1, <1>2 DEF Next, Site, Volume, Upkeep_, Fleet_, Rest, allVars

\* Whatever deploys of previews fail, what runs, what is routed and what is
\* listed are the same previews when no command is under way; and a preview
\* that has not expired is taken down only by a command for its branch.
THEOREM PreviewsAlwaysHold == Spec => PreviewsHold
  <1>1. Init => PreviewsKept
    BY PreviewsAtFirst DEF PreviewsKept
  <1>2. PreviewsKept /\ [Next]_allVars => [PreviewsAgree' /\ LivePreviewStays]_previewVars
    <2> SUFFICES ASSUME PreviewsKept, [Next]_allVars, ~UNCHANGED previewVars
                 PROVE  PreviewsAgree' /\ LivePreviewStays
      OBVIOUS
    <2>1. PreviewNext /\ PreviewInv /\ JunkInv
      BY DEF Next, Site, Preview, Upkeep_, Fleet_, Volume, Rest, allVars, PreviewsKept
    <2>2. PreviewInv' /\ LivePreviewStays
      BY <2>1, NextPreview, LiveStays
    <2>3. PreviewInv' => PreviewsAgree'
      BY AgreeFollows, PTL
    <2> QED
      BY <2>2, <2>3
  <1> QED
    BY <1>1, <1>2, NextPreviewsKept, PTL DEF Spec, PreviewsHold


-----------------------------------------------------------------------------
(* Fleets.                                                                 *)

FleetCommands ==
    [pc : {"idle", "canary", "recall", "main", "back", "lb"},
     op : {"none", "deploy", "scale"}, asked : 0..Heads, slots : Slots \cup {1},
     max : Nat, todo : SUBSET Machines, at : SUBSET Machines,
     ok : SUBSET Machines, bad : SUBSET Machines, failed : BOOLEAN,
     rest : SUBSET Machines, passed : SUBSET Machines,
     lbs : SUBSET Balancers, cancelled : BOOLEAN,
     was : [Machines -> 0..Heads]]

\* The type, and that a server is in one place of the wave.
Apart(f) ==
    /\ f.todo \cap f.at = {}
    /\ f.pc \in {"canary", "main"} => (f.todo \cup f.at) \cap (f.ok \cup f.passed) = {}
    /\ f.pc = "canary" => f.passed = {} /\ f.rest \cap (f.todo \cup f.at \cup f.ok) = {}
    /\ f.pc \in {"main", "lb"} => f.rest = {}
    /\ f.pc = "lb" => f.todo = {} /\ f.at = {}

FleetTyped == LuckTypeOK /\ FleetTypeOK /\ Apart(fleet)

Meanwhile == {"clean", "cancel", "crash", "race"}

\* Which servers are on the new version, with the one before the command as
\* their previous one, and which are on the one before.
WaveAt(f, v, p, h) ==
    /\ f.cancelled = FALSE
    /\ f.pc \in {"canary", "main", "lb"} =>
           \A m \in Machines : IF m \in f.ok \cup f.passed
                               THEN v[m] = h /\ p[m] = f.was[m] ELSE v[m] = f.was[m]
    /\ f.pc \in {"recall", "back"} =>
           \A m \in Machines : IF m \in f.todo \cup f.at
                               THEN v[m] = h /\ p[m] = f.was[m] ELSE f.was[m] \in {v[m], 0}
    /\ f.pc = "lb" /\ f.op = "deploy" => Cardinality(f.bad) <= f.max

WaveInv == NoneOf(Meanwhile) /\ fleet.pc # "idle" => WaveAt(fleet, ver, prior, head)

\* The upstreams of a load balancer run one version, at least as they did
\* before the command.
AlikeOn(l, w) == \A b \in Balancers : \A m \in l[b] : w[m] # 0 /\ \A n \in l[b] : w[m] = w[n]

BalanceInv == NoneOf(Meanwhile \cup {"save", "reuse"}) =>
    /\ fleet.pc = "idle" => AlikeOn(lb, ver)
    /\ fleet.pc \in {"canary", "recall", "main", "back"} => AlikeOn(lb, fleet.was)
    /\ fleet.pc = "lb" => \A b \in Balancers \ fleet.lbs : lb[b] = Done

FleetInv == FleetTyped /\ WaveInv /\ BalanceInv

LEMMA FleetAtFirst == Init => FleetInv
  <1> SUFFICES ASSUME Init PROVE FleetInv
    OBVIOUS
  <1>1. FleetInit /\ LuckTypeOK
    BY LuckAtFirst DEF Init
  <1>2. /\ fleet.pc = "idle" /\ fleet.todo = {} /\ fleet.at = {} /\ fleet = NoFleet
        /\ \A b \in Balancers : lb[b] = {}
    BY <1>1 DEF FleetInit, NoFleet
  <1>3. FleetTypeOK
    BY <1>1, FleetAssumption DEF FleetInit, FleetTypeOK, NoFleet, Versioned, Machines
  <1> QED
    BY <1>1, <1>2, <1>3 DEF FleetInv, FleetTyped, Apart, WaveInv, BalanceInv, AlikeOn

LEMMA FleetStepLuck == FleetNext => LuckStep
  <1> SUFFICES ASSUME FleetNext PROVE LuckStep
    OBVIOUS
  <1> USE DEF LuckStep
  <1>k. /\ {} \in SUBSET MishapKinds /\ {"fault"} \in SUBSET MishapKinds
        /\ {"clean"} \in SUBSET MishapKinds /\ {"save"} \in SUBSET MishapKinds
        /\ {"cancel"} \in SUBSET MishapKinds /\ {"crash"} \in SUBSET MishapKinds
        /\ Overlap \in SUBSET MishapKinds /\ {"reuse"} \cup Overlap \in SUBSET MishapKinds
    BY DEF MishapKinds, Overlap
  <1>1. CASE Commit
    BY <1>1, <1>k DEF Commit
  <1>2. CASE CanaryEnds \/ MainEnds \/ RevertEnds \/ BalancersUpdated
    BY <1>2 DEF CanaryEnds, MainEnds, RevertEnds, BalancersUpdated
  <1>3. CASE Interrupt \/ FleetDies
    BY <1>3, <1>k DEF Interrupt, FleetDies, Mishap
  <1>4. ASSUME NEW m, Dispatch(m) \/ Deployed(m) \/ RolledBack(m) PROVE LuckStep
    BY <1>4, <1>k DEF Dispatch, Deployed, RolledBack, Mishap
  <1>5. ASSUME NEW m, NEW v, RollbackOne(m) \/ Replace(m) \/ DeployOne(m, v) PROVE LuckStep
    BY <1>5, <1>k DEF RollbackOne, Replace, DeployOne
  <1>6. ASSUME NEW b, UpdateBalancer(b) PROVE LuckStep
    BY <1>6, <1>k DEF UpdateBalancer, Mishap
  <1>7. ASSUME NEW k, NEW s, StartScale(k, s) PROVE LuckStep
    BY <1>7, <1>k DEF StartScale, Begin
  <1>8. ASSUME NEW T, NEW v, NEW s, NEW r, StartFleet(T, v, s, r) PROVE LuckStep
    BY <1>8, <1>k DEF StartFleet, Begin
  <1> QED
    BY <1>1, <1>2, <1>3, <1>4, <1>5, <1>6, <1>7, <1>8 DEF FleetNext

LEMMA FleetBefore ==
  ASSUME FleetTyped, FleetNext, NEW X, NoneOf(X)'
  PROVE  NoneOf(X)
  BY FleetStepLuck, LuckBefore DEF FleetTyped

LEMMA CommandParts ==
  ASSUME FleetTyped
  PROVE  /\ fleet \in FleetCommands /\ LuckTypeOK /\ Apart(fleet)
         /\ head \in Versioned /\ ver \in [Machines -> 0..Heads] /\ prior \in [Machines -> 0..Heads]
         /\ lb \in [Balancers -> SUBSET Machines]
         /\ Heads \in Nat /\ Versioned \subseteq 0..Heads /\ 0 \in 0..Heads
  BY FleetAssumption DEF FleetTyped, FleetTypeOK, FleetCommands, Versioned

\* A server that succeeds, and one that fails, leaves the running ones.
LEMMA ServerEnds ==
  ASSUME FleetTyped, NEW m \in fleet.at, Succeeds(m) \/ FailsOn(m)
  PROVE  /\ fleet' \in FleetCommands
         /\ fleet'.pc = fleet.pc /\ fleet'.op = fleet.op /\ fleet'.max = fleet.max
         /\ fleet'.todo = fleet.todo /\ fleet'.at = fleet.at \ {m}
         /\ fleet'.ok = IF Succeeds(m) THEN fleet.ok \cup {m} ELSE fleet.ok
         /\ fleet'.rest = fleet.rest /\ fleet'.passed = fleet.passed /\ fleet'.lbs = fleet.lbs
         /\ fleet'.cancelled = fleet.cancelled /\ fleet'.was = fleet.was
         /\ Apart(fleet)'
  <1>0. fleet \in FleetCommands /\ Apart(fleet) /\ m \in Machines
    BY CommandParts DEF FleetCommands
  <1>1. CASE Succeeds(m)
    <2>1. /\ fleet' \in FleetCommands
          /\ fleet'.pc = fleet.pc /\ fleet'.op = fleet.op /\ fleet'.max = fleet.max
          /\ fleet'.todo = fleet.todo /\ fleet'.at = fleet.at \ {m} /\ fleet'.ok = fleet.ok \cup {m}
          /\ fleet'.rest = fleet.rest /\ fleet'.passed = fleet.passed /\ fleet'.lbs = fleet.lbs
          /\ fleet'.cancelled = fleet.cancelled /\ fleet'.was = fleet.was
      BY <1>0, <1>1 DEF Succeeds, FleetCommands
    <2>2. Apart(fleet)'
      BY <1>0, <2>1 DEF Apart
    <2> QED
      BY <1>1, <2>1, <2>2
  <1>2. CASE FailsOn(m) /\ ~Succeeds(m)
    <2>1. /\ fleet' \in FleetCommands
          /\ fleet'.pc = fleet.pc /\ fleet'.op = fleet.op /\ fleet'.max = fleet.max
          /\ fleet'.todo = fleet.todo /\ fleet'.at = fleet.at \ {m} /\ fleet'.ok = fleet.ok
          /\ fleet'.rest = fleet.rest /\ fleet'.passed = fleet.passed /\ fleet'.lbs = fleet.lbs
          /\ fleet'.cancelled = fleet.cancelled /\ fleet'.was = fleet.was
      BY <1>0, <1>2 DEF FailsOn, FleetCommands
    <2>2. Apart(fleet)'
      BY <1>0, <2>1 DEF Apart
    <2> QED
      BY <1>2, <2>1, <2>2
  <1> QED
    BY <1>1, <1>2

\* A wave begins: nothing has been done in it.
LEMMA WaveBegins ==
  ASSUME FleetTyped, NEW label \in {"main", "recall", "back"}, NEW S \in SUBSET Machines
  PROVE  /\ Wave(label, S) \in FleetCommands
         /\ Wave(label, S).pc = label /\ Wave(label, S).op = fleet.op /\ Wave(label, S).max = fleet.max
         /\ Wave(label, S).todo = S /\ Wave(label, S).at = {} /\ Wave(label, S).ok = {}
         /\ Wave(label, S).rest = fleet.rest /\ Wave(label, S).passed = fleet.passed
         /\ Wave(label, S).cancelled = fleet.cancelled /\ Wave(label, S).was = fleet.was
  BY CommandParts DEF Wave, FleetCommands

LEMMA NoFleetParts ==
  /\ NoFleet \in FleetCommands /\ NoFleet.pc = "idle" /\ Apart(NoFleet)
  /\ NoFleet.todo = {} /\ NoFleet.at = {}
  BY FleetAssumption DEF NoFleet, FleetCommands, Apart, Machines

\* The next server is passed over, or gets a slot.
LEMMA Dispatches ==
  ASSUME FleetTyped, NEW m \in fleet.todo, Dispatch(m)
  PROVE  /\ fleet' \in FleetCommands /\ m \in Machines
         /\ fleet'.pc = fleet.pc /\ fleet'.op = fleet.op /\ fleet'.max = fleet.max
         /\ fleet'.todo = fleet.todo \ {m} /\ fleet'.at \in {fleet.at, fleet.at \cup {m}}
         /\ fleet.pc \in {"recall", "back"} => fleet'.at = fleet.at \cup {m}
         /\ fleet'.ok = fleet.ok
         /\ fleet'.rest = fleet.rest /\ fleet'.passed = fleet.passed /\ fleet'.lbs = fleet.lbs
         /\ fleet'.cancelled = fleet.cancelled /\ fleet'.was = fleet.was
         /\ Apart(fleet)' /\ UNCHANGED <<head, ver, prior, lb, luck>>
  <1>0. fleet \in FleetCommands /\ m \in Machines /\ UNCHANGED <<head, ver, prior, lb, luck>>
    BY CommandParts DEF FleetCommands, Dispatch
  <1>1. CASE FailFast /\ fleet.failed
    <2>1. fleet' = [fleet EXCEPT !.todo = @ \ {m}, !.bad = @ \cup {m}]
      BY <1>1 DEF Dispatch
    <2>2. ~(fleet.pc \in {"recall", "back"})
      BY <1>1 DEF FailFast, FleetAt
    <2>3. /\ fleet' \in FleetCommands
         /\ fleet'.pc = fleet.pc /\ fleet'.op = fleet.op /\ fleet'.max = fleet.max
         /\ fleet'.todo = fleet.todo \ {m} /\ fleet'.at = fleet.at /\ fleet'.ok = fleet.ok
         /\ fleet'.rest = fleet.rest /\ fleet'.passed = fleet.passed /\ fleet'.lbs = fleet.lbs
         /\ fleet'.cancelled = fleet.cancelled /\ fleet'.was = fleet.was
      BY <1>0, <2>1 DEF FleetCommands
    <2>4. Apart(fleet)'
      BY <2>3, CommandParts DEF Apart
    <2> QED
      BY <1>0, <2>2, <2>3, <2>4
  <1>2. CASE ~(FailFast /\ fleet.failed)
    <2>1. fleet' = [fleet EXCEPT !.todo = @ \ {m}, !.at = @ \cup {m}]
      BY <1>2 DEF Dispatch
    <2>3. /\ fleet' \in FleetCommands
         /\ fleet'.pc = fleet.pc /\ fleet'.op = fleet.op /\ fleet'.max = fleet.max
         /\ fleet'.todo = fleet.todo \ {m} /\ fleet'.at = fleet.at \cup {m} /\ fleet'.ok = fleet.ok
         /\ fleet'.rest = fleet.rest /\ fleet'.passed = fleet.passed /\ fleet'.lbs = fleet.lbs
         /\ fleet'.cancelled = fleet.cancelled /\ fleet'.was = fleet.was
      BY <1>0, <2>1 DEF FleetCommands
    <2>4. Apart(fleet)'
      BY <2>3, CommandParts DEF Apart
    <2> QED
      BY <1>0, <2>3, <2>4
  <1> QED
    BY <1>1, <1>2

\* The canary is over: the other servers follow, or it is undone.
LEMMA CanaryGoes ==
  ASSUME FleetTyped, CanaryEnds
  PROVE  /\ fleet' \in FleetCommands /\ Apart(fleet)' /\ UNCHANGED <<head, ver, prior, lb, luck>>
         /\ fleet.pc = "canary" /\ fleet.todo = {} /\ fleet.at = {} /\ fleet.passed = {}
         /\ \/ fleet' = NoFleet /\ fleet.ok = {}
            \/ /\ fleet'.cancelled = fleet.cancelled /\ fleet'.was = fleet.was
               /\ fleet'.at = {} /\ fleet'.ok = {}
               /\ \/ fleet'.pc = "recall" /\ fleet'.todo = fleet.ok
                  \/ fleet'.pc = "main" /\ fleet'.passed = fleet.ok
  <1>0. /\ fleet.pc = "canary" /\ fleet.todo = {} /\ fleet.at = {} /\ fleet.passed = {}
        /\ fleet \in FleetCommands /\ UNCHANGED <<head, ver, prior, lb, luck>>
        /\ fleet.ok \in SUBSET Machines /\ fleet.rest \in SUBSET Machines /\ fleet.rest \cap fleet.ok = {}
    BY CommandParts DEF CanaryEnds, WaveIsOver, FleetAt, Apart, FleetCommands
  <1>1. CASE fleet.bad = {}
    <2>1. fleet' = [Wave("main", fleet.rest) EXCEPT !.passed = fleet.ok, !.rest = {}]
      BY <1>1 DEF CanaryEnds
    <2> DEFINE w == Wave("main", fleet.rest)
    <2>w. /\ w \in FleetCommands /\ w.pc = "main" /\ w.todo = fleet.rest /\ w.at = {} /\ w.ok = {}
          /\ w.cancelled = fleet.cancelled /\ w.was = fleet.was
      BY <1>0, WaveBegins
    <2> HIDE DEF w
    <2>2. /\ fleet' \in FleetCommands /\ fleet'.pc = "main" /\ fleet'.passed = fleet.ok
          /\ fleet'.todo = fleet.rest /\ fleet'.at = {} /\ fleet'.ok = {} /\ fleet'.rest = {}
          /\ fleet'.cancelled = fleet.cancelled /\ fleet'.was = fleet.was
      <3>1. fleet' = [w EXCEPT !.passed = fleet.ok, !.rest = {}]
        BY <2>1 DEF w
      <3> QED
        BY <1>0, <2>w, <3>1 DEF FleetCommands
    <2> QED
      BY <1>0, <2>2 DEF Apart
  <1>2. CASE fleet.bad # {} /\ fleet.ok = {}
    BY <1>0, <1>2, NoFleetParts DEF CanaryEnds, Revert
  <1>3. CASE fleet.bad # {} /\ fleet.ok # {}
    <2>1. fleet' = Wave("recall", fleet.ok)
      BY <1>3 DEF CanaryEnds, Revert
    <2>2. /\ fleet' \in FleetCommands /\ fleet'.pc = "recall" /\ fleet'.passed = {}
          /\ fleet'.todo = fleet.ok /\ fleet'.at = {} /\ fleet'.ok = {}
          /\ fleet'.cancelled = fleet.cancelled /\ fleet'.was = fleet.was
      BY <1>0, <2>1, WaveBegins
    <2> QED
      BY <1>0, <2>2 DEF Apart
  <1> QED
    BY <1>1, <1>2, <1>3

\* So is the main wave: the balancers are told, or it is undone.
LEMMA MainGoes ==
  ASSUME FleetTyped, MainEnds
  PROVE  /\ fleet' \in FleetCommands /\ Apart(fleet)' /\ UNCHANGED <<head, ver, prior, lb, luck>>
         /\ fleet.pc = "main" /\ fleet.todo = {} /\ fleet.at = {} /\ fleet.rest = {}
         /\ \/ fleet' = NoFleet /\ Done = {}
            \/ /\ fleet'.cancelled = fleet.cancelled /\ fleet'.was = fleet.was /\ fleet'.at = {}
               /\ fleet'.pc = "back" /\ fleet'.todo = Done
            \/ /\ fleet'.cancelled = fleet.cancelled /\ fleet'.was = fleet.was
               /\ fleet'.pc = "lb" /\ fleet'.lbs = Balancers /\ fleet'.op = fleet.op
               /\ fleet'.ok = fleet.ok /\ fleet'.passed = fleet.passed
               /\ fleet'.bad = fleet.bad /\ fleet'.max = fleet.max
               /\ KeepsSuccesses
  <1>0. /\ fleet.pc = "main" /\ fleet.todo = {} /\ fleet.at = {} /\ fleet.rest = {}
        /\ fleet \in FleetCommands /\ UNCHANGED <<head, ver, prior, lb, luck>>
        /\ Done \in SUBSET Machines
    BY CommandParts DEF MainEnds, WaveIsOver, FleetAt, Apart, FleetCommands, Done
  <1>1. CASE Done = {}
    BY <1>0, <1>1, NoFleetParts DEF MainEnds, Revert
  <1>2. CASE KeepsSuccesses /\ Done # {}
    <2>1. fleet' = [fleet EXCEPT !.pc = "lb", !.lbs = Balancers]
      BY <1>2 DEF MainEnds
    <2>2. /\ fleet' \in FleetCommands /\ fleet'.pc = "lb" /\ fleet'.lbs = Balancers /\ fleet'.op = fleet.op
          /\ fleet'.ok = fleet.ok /\ fleet'.passed = fleet.passed /\ fleet'.bad = fleet.bad
          /\ fleet'.max = fleet.max /\ fleet'.todo = {} /\ fleet'.at = {} /\ fleet'.rest = {}
          /\ fleet'.cancelled = fleet.cancelled /\ fleet'.was = fleet.was
      BY <1>0, <2>1 DEF FleetCommands
    <2> QED
      BY <1>0, <1>2, <2>2 DEF Apart
  <1>3. CASE ~KeepsSuccesses /\ Done # {}
    <2>1. fleet' = Wave("back", Done)
      BY <1>3 DEF MainEnds, Revert
    <2>2. /\ fleet' \in FleetCommands /\ fleet'.pc = "back" /\ fleet'.todo = Done /\ fleet'.at = {}
          /\ fleet'.cancelled = fleet.cancelled /\ fleet'.was = fleet.was
      BY <1>0, <2>1, WaveBegins
    <2> QED
      BY <1>0, <2>2 DEF Apart
  <1> QED
    BY <1>1, <1>2, <1>3

\* What is left to show of a step.
LEMMA FleetKept ==
  ASSUME FleetInv, FleetNext, fleet' \in FleetCommands, Apart(fleet)',
         head' \in Versioned, ver' \in [Machines -> 0..Heads], prior' \in [Machines -> 0..Heads],
         lb' \in [Balancers -> SUBSET Machines],
         NoneOf(Meanwhile)' /\ NoneOf(Meanwhile) /\ fleet'.pc # "idle"
             /\ (fleet.pc # "idle" => WaveAt(fleet, ver, prior, head))
             => WaveAt(fleet', ver', prior', head'),
         NoneOf(Meanwhile \cup {"save", "reuse"})' /\ NoneOf(Meanwhile)'
             /\ (fleet.pc # "idle" => WaveAt(fleet, ver, prior, head))
             /\ (fleet.pc = "idle" => AlikeOn(lb, ver))
             /\ (fleet.pc \in {"canary", "recall", "main", "back"} => AlikeOn(lb, fleet.was))
             /\ (fleet.pc = "lb" => \A b \in Balancers \ fleet.lbs : lb[b] = Done)
             => /\ fleet'.pc = "idle" => AlikeOn(lb', ver')
                /\ fleet'.pc \in {"canary", "recall", "main", "back"} => AlikeOn(lb', fleet'.was)
                /\ fleet'.pc = "lb" => \A b \in Balancers \ fleet'.lbs : lb'[b] = Done'
  PROVE  FleetInv'
  <1>0. FleetTyped
    BY DEF FleetInv
  <1>1. LuckTypeOK'
    BY <1>0, FleetStepLuck, LuckBefore DEF FleetTyped
  <1>2. FleetTyped'
    BY <1>1 DEF FleetTyped, FleetTypeOK, FleetCommands
  <1>3. WaveInv'
    BY <1>0, FleetBefore DEF FleetInv, WaveInv
  <1>4. BalanceInv'
    <2> SUFFICES ASSUME NoneOf(Meanwhile \cup {"save", "reuse"})'
        PROVE /\ fleet'.pc = "idle" => AlikeOn(lb', ver')
              /\ fleet'.pc \in {"canary", "recall", "main", "back"} => AlikeOn(lb', fleet'.was)
              /\ fleet'.pc = "lb" => \A b \in Balancers \ fleet'.lbs : lb'[b] = Done'
      BY DEF BalanceInv
    <2>1. NoneOf(Meanwhile \cup {"save", "reuse"}) /\ NoneOf(Meanwhile)' /\ NoneOf(Meanwhile)
      <3>1. NoneOf(Meanwhile \cup {"save", "reuse"})
        BY <1>0, FleetBefore
      <3> QED
        BY <3>1 DEF NoneOf
    <2> QED
      BY <2>1 DEF FleetInv, WaveInv, BalanceInv
  <1> QED
    BY <1>2, <1>3, <1>4 DEF FleetInv

\* Nothing else happens to the fleet while a command runs, unless it is counted.
LEMMA NoOverlap ==
  ASSUME FleetInv, BeginAs({"reuse"} \cup Overlap) \/ BeginAs(Overlap) \/ Used(Overlap),
         NoneOf(Meanwhile)'
  PROVE  /\ fleet.pc = "idle"
         /\ BeginAs({"reuse"} \cup Overlap) => ~NoneOf(Meanwhile \cup {"save", "reuse"})'
  <1>1. LuckTypeOK /\ Overlap \in SUBSET MishapKinds /\ {"reuse"} \cup Overlap \in SUBSET MishapKinds
    BY DEF FleetInv, FleetTyped, Overlap, MishapKinds
  <1>2. ~("race" \in Overlap)
    BY <1>1, NoneBefore DEF Meanwhile
  <1>3. BeginAs({"reuse"} \cup Overlap) => ~NoneOf(Meanwhile \cup {"save", "reuse"})'
    BY <1>1, NoneBefore
  <1> QED
    BY <1>2, <1>3 DEF Overlap, FleetAt

LEMMA OthersKeep ==
  ASSUME FleetInv, FleetNext, NEW m \in Machines, NEW v \in {head} \cup Flagged,
         Commit \/ DeployOne(m, v) \/ RollbackOne(m) \/ Replace(m)
  PROVE  FleetInv'
  <1>0. FleetTyped /\ UNCHANGED fleet
    BY DEF FleetInv, Commit, DeployOne, RollbackOne, Replace
  <1>p. /\ fleet' \in FleetCommands /\ Apart(fleet)' /\ v \in Versioned
    BY <1>0, CommandParts, FleetAssumption
  <1>1. CASE Commit
    <2>1. Used(Overlap) /\ head' = head + 1 /\ head < Heads /\ UNCHANGED <<ver, prior, lb>>
      BY <1>1 DEF Commit
    <2>2. head' \in Versioned
      BY <1>0, <2>1, CommandParts DEF Versioned
    <2> QED
      BY <1>0, <1>p, <2>1, <2>2, NoOverlap, FleetKept, CommandParts
  <1>2. CASE DeployOne(m, v)
    <2>1. /\ BeginAs({"reuse"} \cup Overlap) /\ UNCHANGED <<head, lb>>
          /\ ver' = [ver EXCEPT ![m] = v] /\ prior' = [prior EXCEPT ![m] = ver[m]]
      BY <1>2 DEF DeployOne
    <2>2. ver' \in [Machines -> 0..Heads] /\ prior' \in [Machines -> 0..Heads]
      BY <1>0, <1>p, <2>1, CommandParts
    <2> QED
      BY <1>0, <1>p, <2>1, <2>2, NoOverlap, FleetKept, CommandParts
  <1>3. CASE RollbackOne(m)
    <2>1. /\ BeginAs({"reuse"} \cup Overlap) /\ UNCHANGED <<head, lb>>
          /\ ver' = [ver EXCEPT ![m] = prior[m]] /\ prior' = [prior EXCEPT ![m] = ver[m]]
      BY <1>3 DEF RollbackOne
    <2>2. ver' \in [Machines -> 0..Heads] /\ prior' \in [Machines -> 0..Heads]
      BY <1>0, <1>p, <2>1, CommandParts
    <2> QED
      BY <1>0, <1>p, <2>1, <2>2, NoOverlap, FleetKept, CommandParts
  <1>4. CASE Replace(m)
    <2>1. /\ BeginAs(Overlap) /\ UNCHANGED head
          /\ ver' = [ver EXCEPT ![m] = 0] /\ prior' = [prior EXCEPT ![m] = 0]
          /\ lb' = [b \in Balancers |-> lb[b] \ {m}]
      BY <1>4 DEF Replace
    <2>2. /\ ver' \in [Machines -> 0..Heads] /\ prior' \in [Machines -> 0..Heads]
          /\ lb' \in [Balancers -> SUBSET Machines]
          /\ \A n \in Machines \ {m} : ver'[n] = ver[n]
          /\ \A b \in Balancers : lb'[b] \subseteq Machines \ {m} /\ lb'[b] \subseteq lb[b]
      BY <1>0, <2>1, CommandParts
    <2>3. AlikeOn(lb, ver) => AlikeOn(lb', ver')
      BY <2>2 DEF AlikeOn
    <2> QED
      BY <1>0, <1>p, <2>1, <2>2, <2>3, NoOverlap, FleetKept, CommandParts
  <1> QED
    BY <1>1, <1>2, <1>3, <1>4

\* A command begins with every server on the version before it.
LEMMA FleetBegins ==
  ASSUME FleetInv, FleetNext, fleet.pc = "idle", UNCHANGED <<head, ver, prior, lb>>,
         fleet' \in FleetCommands, fleet'.pc \in {"canary", "main"},
         fleet'.at = {}, fleet'.ok = {}, fleet'.passed = {}, fleet'.was = ver,
         fleet'.cancelled = FALSE, Apart(fleet)'
  PROVE  FleetInv'
  <1>0. FleetTyped
    BY DEF FleetInv
  <1>1. WaveAt(fleet', ver', prior', head')
    BY DEF WaveAt
  <1> QED
    BY <1>0, <1>1, FleetKept, CommandParts

LEMMA StartScaleKeeps ==
  ASSUME FleetInv, FleetNext, NEW k \in Machines, NEW s \in Slots, StartScale(k, s)
  PROVE  FleetInv'
  <1>0. FleetTyped
    BY DEF FleetInv
  <1>1. /\ fleet.pc = "idle" /\ UNCHANGED <<head, ver, prior, lb>>
        /\ fleet' = [NoFleet EXCEPT !.op = "scale", !.pc = "main", !.slots = s,
                                    !.todo = FirstOf(Machines, k), !.was = ver]
    BY DEF StartScale, FleetAt
  <1>2. FirstOf(Machines, k) \in SUBSET Machines
    BY DEF FirstOf
  <1>3. /\ fleet' \in FleetCommands /\ fleet'.pc = "main" /\ fleet'.at = {} /\ fleet'.ok = {}
        /\ fleet'.passed = {} /\ fleet'.rest = {} /\ fleet'.was = ver /\ fleet'.cancelled = FALSE
    BY <1>0, <1>1, <1>2, CommandParts DEF NoFleet, FleetCommands
  <1> QED
    BY <1>1, <1>3, FleetBegins DEF Apart

LEMMA StartFleetKeeps ==
  ASSUME FleetInv, FleetNext, NEW T \in SUBSET Machines, NEW v \in {0} \cup Flagged,
         NEW s \in Slots, NEW r \in Rollouts \cup {AllAtOnce}, StartFleet(T, v, s, r)
  PROVE  FleetInv'
  <1> DEFINE new == [NoFleet EXCEPT !.op = "deploy", !.asked = v, !.slots = s, !.max = r.max, !.was = ver]
             canary == FirstOf(T, CanaryCount(r.canary, Cardinality(T)))
  <1>0. FleetTyped
    BY DEF FleetInv
  <1>1. /\ fleet.pc = "idle" /\ UNCHANGED <<head, ver, prior, lb>>
        /\ fleet' = IF r = AllAtOnce THEN [new EXCEPT !.pc = "main", !.todo = T]
                    ELSE [new EXCEPT !.pc = "canary", !.todo = canary, !.rest = T \ canary]
    BY DEF StartFleet, FleetAt
  <1>2. canary \in SUBSET Machines
    BY DEF FirstOf
  <1>3. r.max \in Nat /\ v \in 0..Heads
    BY <1>0, CommandParts, FleetAssumption DEF AllAtOnce
  <1>4. /\ new \in FleetCommands /\ new.at = {} /\ new.ok = {} /\ new.passed = {} /\ new.rest = {}
        /\ new.was = ver /\ new.cancelled = FALSE
    BY <1>0, <1>3, CommandParts DEF NoFleet, FleetCommands
  <1> HIDE DEF canary, new
  <1>5. CASE r = AllAtOnce
    <2>1. /\ fleet' \in FleetCommands /\ fleet'.pc = "main" /\ fleet'.at = {} /\ fleet'.ok = {}
          /\ fleet'.passed = {} /\ fleet'.rest = {} /\ fleet'.was = ver /\ fleet'.cancelled = FALSE
      BY <1>1, <1>4, <1>5 DEF FleetCommands
    <2> QED
      BY <1>1, <2>1, FleetBegins DEF Apart
  <1>6. CASE r # AllAtOnce
    <2>1. /\ fleet' \in FleetCommands /\ fleet'.pc = "canary" /\ fleet'.at = {} /\ fleet'.ok = {}
          /\ fleet'.passed = {} /\ fleet'.rest = T \ canary /\ fleet'.todo = canary
          /\ fleet'.was = ver /\ fleet'.cancelled = FALSE
      BY <1>1, <1>2, <1>4, <1>6 DEF FleetCommands
    <2> QED
      BY <1>1, <2>1, FleetBegins DEF Apart
  <1> QED
    BY <1>5, <1>6

LEMMA DispatchKeeps ==
  ASSUME FleetInv, FleetNext, NEW m \in Machines, Dispatch(m)
  PROVE  FleetInv'
  <1>0. FleetTyped /\ m \in fleet.todo
    BY DEF FleetInv, Dispatch
  <1>1. fleet.pc # "lb"
    BY <1>0, CommandParts DEF Apart
  <1>2. WaveAt(fleet, ver, prior, head) => WaveAt(fleet', ver', prior', head')
    <2>1. fleet.pc \in {"recall", "back"} => fleet'.todo \cup fleet'.at = fleet.todo \cup fleet.at
      BY <1>0, Dispatches
    <2> QED
      BY <1>0, <1>1, <2>1, Dispatches DEF WaveAt
  <1> QED
    BY <1>0, <1>1, <1>2, Dispatches, FleetKept, CommandParts

\* A server that is deployed to commits the new version, on top of the one it
\* had before the command.
LEMMA DeployedKeeps ==
  ASSUME FleetInv, FleetNext, NEW m \in Machines, Deployed(m)
  PROVE  FleetInv'
  <1>0. /\ FleetTyped /\ m \in fleet.at /\ fleet.pc \in {"canary", "main"}
        /\ UNCHANGED <<head, lb>>
        /\ Succeeds(m) \/ FailsOn(m)
    BY DEF FleetInv, Deployed
  <1>1. m \notin fleet.ok \cup fleet.passed
    BY <1>0, CommandParts DEF Apart
  <1>2. ver' \in [Machines -> 0..Heads] /\ prior' \in [Machines -> 0..Heads]
    BY <1>0, CommandParts DEF Deployed, ServerCommits
  <1>3. ASSUME WaveAt(fleet, ver, prior, head) PROVE WaveAt(fleet', ver', prior', head')
    <2>1. /\ ~fleet.cancelled
          /\ \A n \in Machines : IF n \in fleet.ok \cup fleet.passed
                               THEN ver[n] = head /\ prior[n] = fleet.was[n] ELSE ver[n] = fleet.was[n]
      BY <1>0, <1>3 DEF WaveAt
    <2>2. CASE ServerCommits(m) /\ Succeeds(m)
      <3>1. /\ \A n \in Machines : ver'[n] = IF n = m THEN head ELSE ver[n]
            /\ \A n \in Machines : prior'[n] = IF n = m THEN ver[m] ELSE prior[n]
        BY <1>0, <2>2, CommandParts DEF ServerCommits
      <3>2. /\ fleet'.ok \cup fleet'.passed = (fleet.ok \cup fleet.passed) \cup {m}
            /\ fleet'.was = fleet.was /\ fleet'.pc = fleet.pc /\ fleet'.cancelled = fleet.cancelled
        BY <1>0, <2>2, ServerEnds
      <3> QED
        BY <1>0, <1>1, <1>3, <2>1, <3>1, <3>2 DEF WaveAt
    <2>3. CASE UNCHANGED <<ver, prior>> /\ FailsOn(m)
      <3>1. ~Succeeds(m)
        BY <1>0, <1>1, <2>3, CommandParts DEF FailsOn, Succeeds, FleetCommands
      <3>2. /\ fleet'.ok = fleet.ok /\ fleet'.passed = fleet.passed
            /\ fleet'.was = fleet.was /\ fleet'.pc = fleet.pc /\ fleet'.cancelled = fleet.cancelled
        BY <1>0, <3>1, ServerEnds
      <3> QED
        BY <1>0, <1>3, <2>1, <2>3, <3>2 DEF WaveAt
    <2> QED
      BY <2>1, <2>2, <2>3 DEF Deployed
  <1> QED
    BY <1>0, <1>2, <1>3, ServerEnds, FleetKept, CommandParts

\* A server that is rolled back is on the version before the command, except one
\* that had none.
LEMMA RolledBackKeeps ==
  ASSUME FleetInv, FleetNext, NEW m \in Machines, RolledBack(m)
  PROVE  FleetInv'
  <1>0. /\ FleetTyped /\ m \in fleet.at /\ fleet.pc \in {"recall", "back"}
        /\ UNCHANGED <<head, lb>>
        /\ Succeeds(m) \/ FailsOn(m)
    BY DEF FleetInv, RolledBack
  <1>1. m \notin fleet.todo
    BY <1>0, CommandParts DEF Apart
  <1>2. ver' \in [Machines -> 0..Heads] /\ prior' \in [Machines -> 0..Heads]
    BY <1>0, CommandParts DEF RolledBack
  <1>3. ASSUME WaveAt(fleet, ver, prior, head), NoneOf(Meanwhile)'
        PROVE  WaveAt(fleet', ver', prior', head')
    <2>1. /\ ~fleet.cancelled /\ ver[m] = head /\ prior[m] = fleet.was[m]
          /\ \A n \in Machines : IF n \in fleet.todo \cup fleet.at
                               THEN ver[n] = head /\ prior[n] = fleet.was[n] ELSE fleet.was[n] \in {ver[n], 0}
      BY <1>0, <1>3 DEF WaveAt
    <2>2. /\ fleet'.todo \cup fleet'.at = (fleet.todo \cup fleet.at) \ {m}
          /\ fleet'.was = fleet.was /\ fleet'.pc = fleet.pc /\ fleet'.cancelled = fleet.cancelled
      BY <1>0, <1>1, ServerEnds
    <2>3. /\ \A n \in Machines \ {m} : ver'[n] = ver[n] /\ prior'[n] = prior[n]
          /\ fleet.was[m] \in {ver'[m], 0}
      <3>1. CASE prior[m] \notin {0, ver[m]}
        <4>1. ~Mishap("clean")
          BY <1>0, <1>3, NotThis DEF FleetTyped, Meanwhile, MishapKinds
        <4>2. ver' = [ver EXCEPT ![m] = prior[m]] /\ prior' = [prior EXCEPT ![m] = ver[m]]
          BY <2>1, <3>1, <4>1 DEF RolledBack
        <4> QED
          BY <1>0, <2>1, <4>2, CommandParts
      <3>2. CASE prior[m] \in {0, ver[m]}
        <4>1. UNCHANGED <<ver, prior>>
          BY <3>2 DEF RolledBack
        <4> QED
          BY <2>1, <3>2, <4>1
      <3> QED
        BY <3>1, <3>2
    <2> QED
      BY <1>0, <2>1, <2>2, <2>3 DEF WaveAt
  <1> QED
    BY <1>0, <1>2, <1>3, ServerEnds, FleetKept, CommandParts

LEMMA CanaryEndsKeeps ==
  ASSUME FleetInv, FleetNext, CanaryEnds
  PROVE  FleetInv'
  <1>0. FleetTyped
    BY DEF FleetInv
  <1>1. WaveAt(fleet, ver, prior, head) /\ fleet'.pc # "idle" => WaveAt(fleet', ver', prior', head')
    BY <1>0, CanaryGoes, NoFleetParts DEF WaveAt
  <1>2. ASSUME WaveAt(fleet, ver, prior, head), AlikeOn(lb, fleet.was), fleet' = NoFleet
        PROVE  AlikeOn(lb, ver)
    BY <1>0, <1>2, CanaryGoes, NoFleetParts, CommandParts DEF WaveAt, AlikeOn
  <1> QED
    BY <1>0, <1>1, <1>2, CanaryGoes, NoFleetParts, FleetKept, CommandParts

\* A budget bounds the servers that are left on the old version.
LEMMA MainEndsKeeps ==
  ASSUME FleetInv, FleetNext, MainEnds
  PROVE  FleetInv'
  <1>0. FleetTyped /\ fleet \in FleetCommands
    BY CommandParts DEF FleetInv
  <1>1. KeepsSuccesses /\ fleet.op = "deploy" => Cardinality(fleet.bad) <= fleet.max
    BY <1>0, FS_EmptySet DEF KeepsSuccesses, FleetCommands
  <1>2. WaveAt(fleet, ver, prior, head) /\ fleet'.pc # "idle" => WaveAt(fleet', ver', prior', head')
    BY <1>0, <1>1, MainGoes, NoFleetParts DEF WaveAt, Done
  <1>3. ASSUME WaveAt(fleet, ver, prior, head), AlikeOn(lb, fleet.was), fleet' = NoFleet
        PROVE  AlikeOn(lb, ver)
    BY <1>0, <1>3, MainGoes, NoFleetParts, CommandParts DEF WaveAt, AlikeOn, Done
  <1> QED
    BY <1>0, <1>2, <1>3, MainGoes, NoFleetParts, FleetKept, CommandParts

LEMMA RevertEndsKeeps ==
  ASSUME FleetInv, FleetNext, RevertEnds
  PROVE  FleetInv'
  <1>0. FleetTyped
    BY DEF FleetInv
  <1>1. /\ fleet.pc \in {"recall", "back"} /\ fleet.todo = {} /\ fleet.at = {} /\ fleet' = NoFleet
        /\ UNCHANGED <<head, ver, prior, lb>>
    BY DEF RevertEnds, WaveIsOver
  <1>2. ASSUME WaveAt(fleet, ver, prior, head), AlikeOn(lb, fleet.was)
        PROVE  AlikeOn(lb, ver)
    <2>1. \A b \in Balancers : \A m \in lb[b] : fleet.was[m] = ver[m]
      BY <1>0, <1>1, <1>2, CommandParts DEF WaveAt, AlikeOn
    <2> QED
      BY <1>2, <2>1 DEF AlikeOn
  <1> QED
    BY <1>0, <1>1, <1>2, NoFleetParts, FleetKept, CommandParts

LEMMA UpdateBalancerKeeps ==
  ASSUME FleetInv, FleetNext, NEW b \in Balancers, UpdateBalancer(b)
  PROVE  FleetInv'
  <1>0. FleetTyped /\ fleet.pc = "lb" /\ UNCHANGED <<head, ver, prior>>
    BY DEF FleetInv, UpdateBalancer, FleetAt
  <1>1. CASE lb' = [lb EXCEPT ![b] = Done] /\ fleet' = [fleet EXCEPT !.lbs = @ \ {b}]
    <2>1. /\ fleet' \in FleetCommands /\ fleet'.pc = "lb" /\ fleet'.lbs = fleet.lbs \ {b}
          /\ fleet'.ok = fleet.ok /\ fleet'.passed = fleet.passed /\ fleet'.was = fleet.was
          /\ fleet'.todo = fleet.todo /\ fleet'.at = fleet.at /\ fleet'.rest = fleet.rest
          /\ fleet'.cancelled = fleet.cancelled /\ fleet'.op = fleet.op /\ fleet'.bad = fleet.bad
          /\ fleet'.max = fleet.max
      BY <1>0, <1>1, CommandParts DEF FleetCommands
    <2>2. Apart(fleet)' /\ Done' = Done /\ Done \in SUBSET Machines
      BY <1>0, <2>1, CommandParts DEF Apart, Done, FleetCommands
    <2>3. lb' \in [Balancers -> SUBSET Machines] /\ \A c \in Balancers : lb'[c] = IF c = b THEN Done ELSE lb[c]
      BY <1>0, <1>1, <2>2, CommandParts
    <2>4. WaveAt(fleet, ver, prior, head) => WaveAt(fleet', ver', prior', head')
      BY <1>0, <2>1 DEF WaveAt
    <2> QED
      BY <1>0, <2>1, <2>2, <2>3, <2>4, FleetKept, CommandParts
  <1>2. CASE fleet' = NoFleet /\ UNCHANGED lb /\ (fleet.cancelled \/ Mishap("save"))
    <2>1. NoneOf(Meanwhile \cup {"save", "reuse"})' => ~Mishap("save")
      BY <1>0, NotThis DEF FleetTyped, MishapKinds
    <2>2. WaveAt(fleet, ver, prior, head) => ~fleet.cancelled
      BY DEF WaveAt
    <2> QED
      BY <1>0, <1>2, <2>1, <2>2, NoFleetParts, FleetKept, CommandParts
  <1> QED
    BY <1>1, <1>2 DEF UpdateBalancer

LEMMA BalancersUpdatedKeeps ==
  ASSUME FleetInv, FleetNext, BalancersUpdated
  PROVE  FleetInv'
  <1>0. /\ FleetTyped /\ fleet.pc = "lb" /\ UNCHANGED <<head, ver, prior, lb>>
        /\ fleet' = NoFleet /\ fleet.lbs = {}
    BY DEF FleetInv, BalancersUpdated, FleetAt
  <1>1. ASSUME WaveAt(fleet, ver, prior, head), \A b \in Balancers \ fleet.lbs : lb[b] = Done
        PROVE  AlikeOn(lb, ver)
    <2>1. \A b \in Balancers : \A m \in lb[b] : m \in Machines /\ ver[m] = head
      BY <1>0, <1>1, CommandParts DEF WaveAt, Done
    <2>2. head # 0
      BY <1>0, CommandParts DEF Versioned
    <2> QED
      BY <2>1, <2>2 DEF AlikeOn
  <1> QED
    BY <1>0, <1>1, NoFleetParts, FleetKept, CommandParts

LEMMA InterruptKeeps ==
  ASSUME FleetInv, FleetNext, Interrupt \/ FleetDies
  PROVE  FleetInv'
  <1>0. FleetTyped /\ UNCHANGED <<head, ver, prior, lb>>
    BY DEF FleetInv, Interrupt, FleetDies
  <1>1. ~NoneOf(Meanwhile)'
    BY <1>0, NotThis DEF Interrupt, FleetDies, FleetTyped, MishapKinds, Meanwhile
  <1>2. CASE Interrupt
    <2>1. fleet' = [fleet EXCEPT !.cancelled = TRUE]
      BY <1>2 DEF Interrupt
    <2>2. /\ fleet' \in FleetCommands /\ fleet'.pc = fleet.pc /\ fleet'.todo = fleet.todo
          /\ fleet'.at = fleet.at /\ fleet'.ok = fleet.ok /\ fleet'.passed = fleet.passed
          /\ fleet'.rest = fleet.rest
      BY <1>0, <2>1, CommandParts DEF FleetCommands
    <2>3. Apart(fleet)'
      BY <1>0, <2>2, CommandParts DEF Apart
    <2> QED
      BY <1>0, <1>1, <2>2, <2>3, FleetKept, CommandParts
  <1>3. CASE FleetDies
    <2>1. fleet' = NoFleet
      BY <1>3 DEF FleetDies
    <2> QED
      BY <1>0, <1>1, <2>1, NoFleetParts, FleetKept, CommandParts
  <1> QED
    BY <1>2, <1>3 DEF Interrupt, FleetDies

LEMMA NextFleet == FleetInv /\ FleetNext => FleetInv'
  <1> SUFFICES ASSUME FleetInv, FleetNext PROVE FleetInv'
    OBVIOUS
  <1>1. CASE Commit
    <2>1. 1 \in Machines
      BY FleetAssumption DEF Machines
    <2> QED
      BY <1>1, <2>1, OthersKeep
  <1>2. CASE \E m \in Machines : RollbackOne(m) \/ Replace(m)
    BY <1>2, OthersKeep
  <1>3. CASE \E m \in Machines, v \in {head} \cup Flagged : DeployOne(m, v)
    BY <1>3, OthersKeep
  <1>4. CASE \E m \in Machines : Dispatch(m) \/ Deployed(m) \/ RolledBack(m)
    BY <1>4, DispatchKeeps, DeployedKeeps, RolledBackKeeps
  <1>5. CASE CanaryEnds \/ MainEnds \/ RevertEnds \/ BalancersUpdated
    BY <1>5, CanaryEndsKeeps, MainEndsKeeps, RevertEndsKeeps, BalancersUpdatedKeeps
  <1>6. CASE Interrupt \/ FleetDies
    BY <1>6, InterruptKeeps
  <1>7. CASE \E b \in Balancers : UpdateBalancer(b)
    BY <1>7, UpdateBalancerKeeps
  <1>8. CASE \E k \in Machines, s \in Slots : StartScale(k, s)
    BY <1>8, StartScaleKeeps
  <1>9. CASE \E targets \in SUBSET Machines, v \in {0} \cup Flagged, s \in Slots,
                r \in Rollouts \cup {AllAtOnce} : StartFleet(targets, v, s, r)
    BY <1>9, StartFleetKeeps
  <1> QED
    BY <1>1, <1>2, <1>3, <1>4, <1>5, <1>6, <1>7, <1>8, <1>9 DEF FleetNext

\* The ways a deploy of a fleet ends: with nothing done, with all of it undone,
\* or with the successes kept.
LEMMA EndsConverged ==
  ASSUME FleetInv, FleetNext, FleetEnds, NoneOf(Meanwhile)'
  PROVE  Converged
  <1>0. /\ FleetTyped /\ NoneOf(Meanwhile) /\ fleet.pc # "idle" /\ fleet'.pc = "idle"
        /\ fleet.op = "deploy" /\ WaveAt(fleet, ver, prior, head)
    BY FleetBefore DEF FleetInv, FleetEnds, WaveInv
  <1>1. ASSUME UNCHANGED ver, \A m \in Machines : fleet.was[m] \in {ver[m], 0}
        PROVE  Converged
    BY <1>1 DEF Converged
  <1>2. CASE CanaryEnds
    <2>1. /\ fleet.pc = "canary" /\ fleet.passed = {} /\ UNCHANGED ver
          /\ fleet' = NoFleet /\ fleet.ok = {}
      BY <1>0, <1>2, CanaryGoes
    <2> QED
      BY <1>0, <1>1, <2>1 DEF WaveAt
  <1>3. CASE MainEnds
    <2>1. fleet.pc = "main" /\ UNCHANGED ver /\ Done = {}
      BY <1>0, <1>3, MainGoes
    <2> QED
      BY <1>0, <1>1, <2>1 DEF WaveAt, Done
  <1>4. CASE RevertEnds
    <2>1. fleet.pc \in {"recall", "back"} /\ UNCHANGED ver /\ fleet.todo = {} /\ fleet.at = {}
      BY <1>4 DEF RevertEnds, WaveIsOver
    <2> QED
      BY <1>0, <1>1, <2>1 DEF WaveAt
  <1>5. CASE fleet.pc = "lb" /\ UNCHANGED ver
    <2> DEFINE old == {m \in Targets : ver[m] # head}
    <2>1. /\ \A m \in Machines : IF m \in fleet.ok \cup fleet.passed
                               THEN ver[m] = head ELSE ver[m] = fleet.was[m]
          /\ Cardinality(fleet.bad) <= fleet.max
          /\ fleet.todo = {} /\ fleet.at = {} /\ fleet.rest = {}
          /\ fleet.ok \subseteq Machines /\ fleet.passed \subseteq Machines /\ fleet.bad \subseteq Machines
          /\ fleet.max \in Nat
      BY <1>0, <1>5, CommandParts DEF WaveAt, Apart, FleetCommands
    <2>2. old \subseteq fleet.bad
      BY <2>1 DEF Targets
    <2>3. IsFiniteSet(fleet.bad)
      <3>1. IsFiniteSet(Machines)
        BY FS_Interval, FleetAssumption DEF Machines
      <3> QED
        BY <2>1, <3>1, FS_Subset
    <2>4. Cardinality(old) <= fleet.max
      <3>1. Cardinality(old) <= Cardinality(fleet.bad) /\ IsFiniteSet(old)
        BY <2>2, <2>3, FS_Subset
      <3>2. Cardinality(old) \in Nat /\ Cardinality(fleet.bad) \in Nat
        BY <2>3, <3>1, FS_CardinalityType
      <3> QED
        BY <2>1, <3>1, <3>2
    <2>5. \A m \in Done : ver[m] = head
      BY <2>1 DEF Done
    <2>6. {m \in Machines : ver[m] # fleet.was[m]} \subseteq Done
      BY <2>1 DEF Done
    <2> QED
      BY <1>5, <2>4, <2>5, <2>6 DEF Converged
  <1>6. CASE \E b \in Balancers : UpdateBalancer(b)
    BY <1>5, <1>6 DEF UpdateBalancer, FleetAt
  <1>7. CASE BalancersUpdated
    BY <1>5, <1>7 DEF BalancersUpdated, FleetAt
  <1>8. ~FleetDies /\ ~Interrupt
    BY <1>0, NotThis DEF Interrupt, FleetDies, FleetTyped, MishapKinds, Meanwhile
  <1>9. ASSUME NEW m \in Machines PROVE ~Dispatch(m) /\ ~Deployed(m) /\ ~RolledBack(m)
    <2>1. ~Dispatch(m)
      BY <1>0, Dispatches DEF Dispatch
    <2>2. ~Deployed(m) /\ ~RolledBack(m)
      BY <1>0, ServerEnds DEF Deployed, RolledBack
    <2> QED
      BY SMTT(40), <2>1, <2>2
  <1>10. /\ \A m, v : ~RollbackOne(m) /\ ~Replace(m) /\ ~DeployOne(m, v)
         /\ \A k, s : ~StartScale(k, s)
         /\ \A T, v, s, r : ~StartFleet(T, v, s, r)
         /\ ~Commit
    BY <1>0 DEF RollbackOne, Replace, DeployOne, Commit, StartScale, StartFleet, FleetAt
  <1> QED
    BY <1>2, <1>3, <1>4, <1>6, <1>7, <1>8, <1>9, <1>10 DEF FleetNext

LEMMA BalancedFollows == FleetInv => BalancedAlike
  <1> SUFFICES ASSUME FleetInv, fleet.pc = "idle", NoneOf(Meanwhile \cup {"save", "reuse"}),
                      NEW b \in Balancers, NEW m \in lb[b], NEW n \in lb[b]
               PROVE  ver[m] = ver[n]
    BY DEF BalancedAlike, FleetAt, NoneOf, Meanwhile
  <1> QED
    BY DEF FleetInv, BalanceInv, AlikeOn

FleetKeeps == part = "fleet" => FleetInv

LEMMA NextFleetKeeps == FleetKeeps /\ [Next]_allVars => FleetKeeps'
  <1> SUFFICES ASSUME FleetKeeps, [Next]_allVars, part' = "fleet" PROVE FleetInv'
    BY DEF FleetKeeps
  <1>1. CASE Fleet_
    BY <1>1, NextFleet DEF Fleet_, FleetKeeps
  <1>2. CASE UNCHANGED <<part, luck, fleetVars>>
    <2>1. UNCHANGED <<part, luck, head, ver, prior, lb, fleet>>
      BY <1>2 DEF fleetVars
    <2>2. FleetInv
      BY <2>1 DEF FleetKeeps
    <2>3. FleetTyped'
      BY <2>1, <2>2 DEF FleetInv, FleetTyped, FleetTypeOK, LuckTypeOK
    <2>4. WaveInv' /\ BalanceInv'
      BY <2>1, <2>2 DEF FleetInv, WaveInv, BalanceInv, NoneOf, Done
    <2> QED
      BY <2>3, <2>4 DEF FleetInv
  <1> QED
    BY <1>1, <1>2 DEF Next, Site, Preview, Volume, Upkeep_, Rest, allVars

\* Whichever deploys of a fleet fail, it ends on the new version or on the one
\* it had, but for as many servers as the budget allows; and each load balancer
\* spreads its requests over one version.
THEOREM FleetAlwaysAgrees == Spec => FleetAgrees
  <1>1. Init => FleetKeeps
    BY FleetAtFirst DEF FleetKeeps
  <1>2. FleetKeeps /\ [Next]_allVars => [FleetConverges /\ BalancedAlike']_fleetVars
    <2> SUFFICES ASSUME FleetKeeps, [Next]_allVars, ~UNCHANGED fleetVars
                 PROVE  FleetConverges /\ BalancedAlike'
      OBVIOUS
    <2>1. FleetNext /\ FleetInv
      BY DEF Next, Site, Preview, Upkeep_, Fleet_, Volume, Rest, allVars, FleetKeeps
    <2>2. FleetConverges
      BY <2>1, EndsConverged DEF FleetConverges, NoneOf, Meanwhile
    <2>3. FleetInv'
      BY <2>1, NextFleet
    <2>4. FleetInv' => BalancedAlike'
      BY BalancedFollows, PTL
    <2> QED
      BY <2>2, <2>3, <2>4
  <1> QED
    BY <1>1, <1>2, NextFleetKeeps, PTL DEF Spec, FleetAgrees


-----------------------------------------------------------------------------
(* Heal passes, rollouts, stops and starts, and scheduled redeploys.       *)

\* The type, and what the label of each actor says of the rest of its state.  A
\* rollout is never of the current version; a container that is restarted has
\* had fewer restarts than are allowed.
UpkeepTyped ==
    /\ LuckTypeOK /\ UpkeepTypeOK
    /\ pass.pc \in {"probe", "lock", "restart", "unlock"} => pass.at \in Webs
    /\ pass.pc \in {"lock", "restart"} => pass.hs[pass.at] < MaxAttempts
    /\ rollout.pc \in {"run", "switch"} => rollout.new \in Webs /\ rollout.new # version
    /\ cron.pc # "idle" => cron.at \in Webs
    /\ cron.pc = "idle" => cron = NoCron

\* Without overlaps one of the four is under way at most, and a pass restarts
\* what runs.
OneAtATime == NoneOf({"race"}) =>
    /\ pass.pc # "idle" => rollout.pc = "idle" /\ life.pc = "idle" /\ cron.pc = "idle"
    /\ rollout.pc # "idle" => life.pc = "idle" /\ cron.pc = "idle"
    /\ life.pc # "idle" => cron.pc = "idle"
    /\ pass.pc \in {"probe", "lock", "restart"} => box[pass.at] = "running"

\* Heal's record of a container counts its restarts, the pass's own while there
\* is one.
Counted == IF pass.pc = "idle" THEN healSt ELSE pass.hs
CountInv == NoneOf({"read", "save", "crash"}) =>
    \A c \in Webs : tries[c] <= MaxAttempts /\ tries[c] <= Counted[c]

\* What runs, or is to be started, is of the current version, but for the
\* versions of a rollout from its run to the stop of the old one.
RunningInv == NoneOf({"race", "clean", "crash"}) =>
    /\ \A c \in Webs : box[c] = "running" =>
           c = version \/ (rollout.pc \in {"switch", "stopold"} /\ c = rollout.new)
    /\ life.pc = "start" => life.todo \cap Webs \subseteq {version}
    /\ life.pc # "idle" => life.then \cap Webs \subseteq {version}
    /\ cron.pc # "idle" => cron.at = version

\* The current version's container exists, or the script is about to run it.
KeptInv == NoneOf({"fault", "crash"}) =>
    /\ version # NoWeb => box[version] # "absent" \/ (cron.pc = "run" /\ cron.at = version)
    /\ NoneOf({"stamp"}) => redated = {}

UpkeepInv == UpkeepTyped /\ OneAtATime /\ CountInv /\ RunningInv /\ KeptInv

LEMMA UpkeepTypes ==
  ASSUME UpkeepTypeOK
  PROVE  /\ box \in [Boxes -> {"absent", "exited", "running"}] /\ sick \subseteq Webs
         /\ version \in Webs \cup {NoWeb} /\ tries \in [Webs -> 0..GaveUp] /\ healSt \in Records
         /\ pass.hs \in Records /\ pass.todo \subseteq Webs
         /\ life.todo \subseteq Boxes /\ life.then \subseteq Boxes
         /\ Webs \subseteq Boxes /\ Database \in Boxes /\ Database \notin Webs /\ NoWeb \notin Webs
         /\ MaxAttempts \in Nat /\ MaxAttempts > 0 /\ GaveUp = MaxAttempts + 1
  BY UpkeepAssumption DEF UpkeepTypeOK, Boxes, GaveUp

LEMMA UpkeepAtFirst == Init => UpkeepInv
  <1> SUFFICES ASSUME Init PROVE UpkeepInv
    OBVIOUS
  <1>1. UpkeepInit /\ LuckTypeOK
    BY LuckAtFirst DEF Init
  <1>2. /\ pass.pc = "idle" /\ rollout.pc = "idle" /\ life.pc = "idle" /\ cron = NoCron /\ cron.pc = "idle"
        /\ version = NoWeb /\ redated = {} /\ \A c \in Webs : tries[c] = 0 /\ healSt[c] = 0
        /\ \A c \in Webs : box[c] = "absent"
    BY <1>1 DEF UpkeepInit, NoPass, NoRollout, NoLife, NoCron, NoRecords, Boxes
  <1>3. UpkeepTypeOK
    <2>1. NoRecords \in Records /\ tries \in [Webs -> 0..GaveUp]
      BY <1>1, UpkeepAssumption DEF UpkeepInit, NoRecords, Records, GaveUp
    <2>2. /\ pass \in [pc : {"idle", "next", "probe", "lock", "restart", "unlock"},
                     todo : SUBSET Webs, at : Webs \cup {NoWeb}, hs : Records]
          /\ healSt \in Records
      BY <1>1, <2>1 DEF UpkeepInit, NoPass
    <2> QED
      BY <1>1, <2>1, <2>2 DEF UpkeepInit, UpkeepTypeOK, NoRollout, NoLife, NoCron
  <1>4. UpkeepTyped
    BY <1>1, <1>2, <1>3 DEF UpkeepTyped
  <1>5. CountInv
    BY <1>2, UpkeepAssumption DEF CountInv, Counted
  <1> QED
    BY <1>2, <1>4, <1>5 DEF UpkeepInv, OneAtATime, RunningInv, KeptInv

LEMMA UpkeepStepLuck == UpkeepNext => LuckStep
  <1> SUFFICES ASSUME UpkeepNext PROVE LuckStep
    OBVIOUS
  <1> USE DEF LuckStep, Mishap
  <1>k. /\ {} \in SUBSET MishapKinds /\ {"fault"} \in SUBSET MishapKinds
        /\ {"clean"} \in SUBSET MishapKinds /\ {"save"} \in SUBSET MishapKinds
        /\ {"stamp"} \in SUBSET MishapKinds /\ {"crash"} \in SUBSET MishapKinds
        /\ Overlapping \in SUBSET MishapKinds /\ {"read"} \cup Overlapping \in SUBSET MishapKinds
    BY DEF MishapKinds, Overlapping
  <1>1. CASE HealSwitch \/ BreakStale
    BY <1>1, <1>k DEF HealSwitch, BreakStale, Begin
  <1>2. CASE PassBegins
    BY <1>2, <1>k DEF PassBegins
  <1>3. CASE Probe \/ HealLocks \/ HealRestarts
    BY <1>3, <1>k DEF Probe, HealLocks, HealRestarts
  <1>4. CASE HealUnlocks \/ PassEnds \/ PassDies
    BY <1>4, <1>k DEF HealUnlocks, PassEnds, PassDies
  <1>5. CASE RolloutRuns \/ RolloutSwitches \/ RolloutStopsOld \/ RolloutEnds \/ RolloutDies
    BY <1>5, <1>k DEF RolloutRuns, RolloutSwitches, RolloutStopsOld, RolloutEnds, RolloutDies
  <1>6. CASE LifeTurns \/ LifeDies
    BY <1>6, <1>k DEF LifeTurns, LifeDies
  <1>7. ASSUME NEW c, FallsSick(c) \/ Recovers(c) \/ FindPort(c) \/ RolloutBegins(c) \/ LifeStep(c)
        PROVE  LuckStep
    BY <1>7, <1>k DEF FallsSick, Recovers, FindPort, RolloutBegins, LifeStep
  <1>8. ASSUME NEW op, LifeBegins(op) PROVE LuckStep
    BY <1>8, <1>k DEF LifeBegins
  <1>9. CASE CronNext
    BY <1>9, <1>k DEF CronNext, CronFires, CronPulls, CronStops, CronRemoves, CronRuns, CronDies
  <1> QED
    BY <1>1, <1>2, <1>3, <1>4, <1>5, <1>6, <1>7, <1>8, <1>9 DEF UpkeepNext, OthersNext

LEMMA UpkeepBefore ==
  ASSUME UpkeepTyped, UpkeepNext, NEW X, NoneOf(X)'
  PROVE  NoneOf(X)
  BY UpkeepStepLuck, LuckBefore DEF UpkeepTyped

\* Nothing begins beside something else, unless it is counted.
LEMMA BeginsAlone ==
  ASSUME UpkeepTyped, NEW X, "race" \in X, NoneOf(X)',
         BeginAs(Overlapping) \/ Used(Overlapping) \/ MishapAs({"read"} \cup Overlapping)
  PROVE  AllRest
  <1>1. Overlapping \in SUBSET MishapKinds /\ {"read"} \cup Overlapping \in SUBSET MishapKinds
    BY DEF MishapKinds, Overlapping
  <1>2. "race" \notin Overlapping
    BY <1>1, NoneBefore DEF UpkeepTyped
  <1> QED
    BY <1>2 DEF Overlapping

PassSet == [pc : {"idle", "next", "probe", "lock", "restart", "unlock"},
            todo : SUBSET Webs, at : Webs \cup {NoWeb}, hs : Records]

LEMMA NoPassIdle == NoPass \in PassSet /\ NoPass.pc = "idle"
  BY UpkeepAssumption DEF NoPass, PassSet, NoRecords, Records, GaveUp

LEMMA ListedSo ==
  ASSUME UpkeepTyped, NEW hs \in Records,
         NEW label \in {"next", "lock", "restart", "unlock"}, Listed(hs, label)
  PROVE  /\ pass' \in PassSet /\ pass'.pc = label /\ pass'.hs = hs
         /\ pass'.at = pass.at /\ pass'.todo = pass.todo
  <1>1. pass \in PassSet
    BY DEF UpkeepTyped, UpkeepTypeOK, PassSet
  <1> QED
    BY <1>1 DEF Listed, PassSet

\* The steps of a pass.
LEMMA PassStarts ==
  ASSUME UpkeepTyped, PassBegins
  PROVE  /\ pass.pc = "idle" /\ pass' \in PassSet /\ pass'.pc = "next"
         /\ \/ pass'.hs = healSt /\ Used(Overlapping)
            \/ MishapAs({"read"} \cup Overlapping)
         /\ UNCHANGED <<box, sick, version, holder, healOn, healSt, rollout, life, tries>>
  <1>1. healSt \in Records /\ NoRecords \in Records
    BY UpkeepAssumption DEF UpkeepTyped, UpkeepTypeOK, NoRecords, Records, GaveUp
  <1>2. PICK hs \in {healSt, NoRecords} :
            /\ pass' = [NoPass EXCEPT !.pc = "next", !.todo = {c \in Webs : Up(c)}, !.hs = hs]
            /\ IF hs = healSt THEN Used(Overlapping) ELSE MishapAs({"read"} \cup Overlapping)
    BY DEF PassBegins
  <1>3. pass' \in PassSet /\ pass'.pc = "next" /\ pass'.hs = hs
    BY <1>1, <1>2, NoPassIdle DEF PassSet
  <1> QED
    BY <1>2, <1>3 DEF PassBegins

LEMMA PortFound ==
  ASSUME UpkeepTyped, NEW c \in Webs, FindPort(c)
  PROVE  /\ pass.pc = "next" /\ pass' \in PassSet /\ pass'.hs = pass.hs /\ pass'.at = c
         /\ \/ pass'.pc = "probe" /\ box[c] = "running"
            \/ pass'.pc = "next"
         /\ UNCHANGED <<box, sick, version, holder, healOn, healSt, rollout, life, tries, luck>>
  <1>1. pass \in PassSet
    BY DEF UpkeepTyped, UpkeepTypeOK, PassSet
  <1>2. /\ pass.pc = "next"
        /\ pass' = [pass EXCEPT !.todo = @ \ {c}, !.at = c, !.pc = IF Up(c) THEN "probe" ELSE "next"]
        /\ UNCHANGED <<box, sick, version, holder, healOn, healSt, rollout, life, tries, luck>>
    BY DEF FindPort
  <1>3. /\ pass' \in PassSet /\ pass'.hs = pass.hs /\ pass'.at = c
        /\ pass'.pc = IF Up(c) THEN "probe" ELSE "next"
    BY <1>1, <1>2 DEF PassSet
  <1> QED
    BY <1>2, <1>3 DEF Up

LEMMA Probed ==
  ASSUME UpkeepTyped, Probe
  PROVE  LET c == pass.at
         IN /\ pass.pc = "probe" /\ c \in Webs /\ pass' \in PassSet /\ pass'.at = c
            /\ \/ /\ pass'.pc = "next" /\ pass'.hs = [pass.hs EXCEPT ![c] = 0]
                  /\ tries' = [tries EXCEPT ![c] = 0]
               \/ pass'.pc = "next" /\ pass'.hs = pass.hs /\ UNCHANGED tries
               \/ /\ pass'.pc = "next" /\ pass'.hs = [pass.hs EXCEPT ![c] = GaveUp]
                  /\ pass.hs[c] = MaxAttempts /\ UNCHANGED tries
               \/ /\ pass'.pc = "lock" /\ pass'.hs = pass.hs /\ pass.hs[c] < MaxAttempts
                  /\ UNCHANGED tries
            /\ UNCHANGED <<box, sick, version, holder, healOn, healSt, rollout, life>>
  <1> DEFINE c == pass.at
  <1>1. c \in Webs /\ pass.pc = "probe" /\ pass.hs \in Records
    BY DEF UpkeepTyped, UpkeepTypeOK, Probe
  <1>2. [pass.hs EXCEPT ![c] = 0] \in Records /\ [pass.hs EXCEPT ![c] = GaveUp] \in Records
    BY <1>1, UpkeepAssumption DEF Records, GaveUp
  <1>3. UNCHANGED <<box, sick, version, holder, healOn, healSt, rollout, life>>
    BY DEF Probe
  <1>4. \/ Listed([pass.hs EXCEPT ![c] = 0], "next") /\ tries' = [tries EXCEPT ![c] = 0]
        \/ Listed(pass.hs, "next") /\ UNCHANGED tries
        \/ Listed([pass.hs EXCEPT ![c] = GaveUp], "next") /\ pass.hs[c] = MaxAttempts /\ UNCHANGED tries
        \/ Listed(pass.hs, "lock") /\ pass.hs[c] < MaxAttempts /\ UNCHANGED tries
    BY DEF Probe
  <1> HIDE DEF c
  <1>5. CASE Listed([pass.hs EXCEPT ![c] = 0], "next") /\ tries' = [tries EXCEPT ![c] = 0]
    BY <1>1, <1>2, <1>3, <1>5, ListedSo DEF c
  <1>6. CASE Listed(pass.hs, "next") /\ UNCHANGED tries
    BY <1>1, <1>2, <1>3, <1>6, ListedSo DEF c
  <1>7. CASE Listed([pass.hs EXCEPT ![c] = GaveUp], "next") /\ pass.hs[c] = MaxAttempts /\ UNCHANGED tries
    BY <1>1, <1>2, <1>3, <1>7, ListedSo DEF c
  <1>8. CASE Listed(pass.hs, "lock") /\ pass.hs[c] < MaxAttempts /\ UNCHANGED tries
    BY <1>1, <1>2, <1>3, <1>8, ListedSo DEF c
  <1> QED
    BY <1>4, <1>5, <1>6, <1>7, <1>8

LEMMA HealLocked ==
  ASSUME UpkeepTyped, HealLocks
  PROVE  /\ pass.pc = "lock" /\ pass' \in PassSet
         /\ \/ pass'.pc \in {"restart", "next"} /\ pass'.hs = pass.hs /\ pass'.at = pass.at
            \/ pass' = NoPass /\ Mishap("save")
         /\ holder' \in {holder, "heal"}
         /\ UNCHANGED <<box, sick, version, healOn, healSt, rollout, life, tries>>
  <1>1. pass.hs \in Records
    BY DEF UpkeepTyped, UpkeepTypeOK
  <1> QED
    BY <1>1, ListedSo, NoPassIdle DEF HealLocks

LEMMA HealRestarted ==
  ASSUME UpkeepTyped, HealRestarts
  PROVE  LET c == pass.at
         IN /\ pass.pc = "restart" /\ c \in Webs /\ pass' \in PassSet
            /\ pass'.pc = "unlock" /\ pass'.at = c
            /\ pass'.hs = [pass.hs EXCEPT ![c] = @ + 1] /\ pass.hs[c] < MaxAttempts
            /\ \/ /\ box[c] # "absent" /\ box' = [box EXCEPT ![c] = "running"]
                  /\ sick' \in {sick, sick \ {c}}
                  /\ tries' = [tries EXCEPT ![c] = IF @ > MaxAttempts THEN @ ELSE @ + 1]
               \/ UNCHANGED <<box, sick, tries>>
            /\ UNCHANGED <<version, holder, healOn, healSt, rollout, life>>
  <1> DEFINE c == pass.at
  <1>1. c \in Webs /\ pass.pc = "restart" /\ pass.hs \in Records /\ pass.hs[c] < MaxAttempts
    BY DEF UpkeepTyped, UpkeepTypeOK, HealRestarts
  <1>2. [pass.hs EXCEPT ![c] = @ + 1] \in Records
    BY <1>1, UpkeepAssumption DEF Records, GaveUp
  <1>3. Listed([pass.hs EXCEPT ![c] = @ + 1], "unlock")
    BY DEF HealRestarts
  <1> QED
    BY <1>1, <1>2, <1>3, ListedSo DEF HealRestarts, Set

LEMMA HealUnlocked ==
  ASSUME UpkeepTyped, HealUnlocks
  PROVE  /\ pass.pc = "unlock" /\ pass' \in PassSet /\ pass'.pc = "next"
         /\ pass'.hs = pass.hs /\ pass'.at = pass.at
         /\ holder' \in {holder, "free"}
         /\ UNCHANGED <<box, sick, version, healOn, healSt, rollout, life, tries>>
  <1>1. pass.hs \in Records
    BY DEF UpkeepTyped, UpkeepTypeOK
  <1> QED
    BY <1>1, ListedSo DEF HealUnlocks

RolloutSet == [pc : {"idle", "run", "switch", "stopold", "end"}, new : Webs \cup {NoWeb}]
LifeSet == [pc : {"idle", "stop", "start"}, op : {"none", "stop", "start", "restart"},
            todo : SUBSET Boxes, then : SUBSET Boxes]
CronSet == [pc : {"idle", "pull", "stop", "remove", "run"}, at : Webs \cup {NoWeb}]

\* The steps of a stop, start or restart.
LEMMA LifeStarted ==
  ASSUME UpkeepTyped, NEW op \in {"stop", "start", "restart"}, LifeBegins(op)
  PROVE  /\ life.pc = "idle" /\ life' \in LifeSet /\ life'.pc # "idle"
         /\ life'.pc = "start" => life'.todo = OfVersion
         /\ life'.then \subseteq OfVersion
         /\ BeginAs(Overlapping)
         /\ UNCHANGED <<box, sick, version, holder, healOn, healSt, pass, rollout, tries>>
  <1>1. OfVersion \in SUBSET Boxes /\ ToStop \in SUBSET Boxes
    BY DEF OfVersion, ToStop, Boxes
  <1>2. /\ life.pc = "idle" /\ BeginAs(Overlapping)
        /\ UNCHANGED <<box, sick, version, holder, healOn, healSt, pass, rollout, tries>>
    BY DEF LifeBegins
  <1>3. \/ life' = [pc |-> "stop", op |-> "stop", todo |-> ToStop, then |-> {}]
        \/ life' = [pc |-> "start", op |-> "start", todo |-> OfVersion, then |-> {}]
        \/ life' = [pc |-> "stop", op |-> "restart", todo |-> OfVersion, then |-> OfVersion]
    BY DEF LifeBegins
  <1> QED
    BY <1>1, <1>2, <1>3 DEF LifeSet

LEMMA LifeStepped ==
  ASSUME UpkeepTyped, NEW c \in Boxes, LifeStep(c)
  PROVE  /\ life.pc # "idle" /\ c \in life.todo /\ life' \in LifeSet
         /\ \/ /\ box[c] # "absent"
               /\ \/ life.pc = "stop" /\ box' = [box EXCEPT ![c] = "exited"]
                  \/ life.pc = "start" /\ box' = [box EXCEPT ![c] = "running"]
               /\ life'.pc = life.pc /\ life'.todo \subseteq life.todo /\ life'.then = life.then
            \/ UNCHANGED box /\ life' = NoLife
         /\ UNCHANGED <<sick, version, holder, healOn, healSt, pass, rollout, tries>>
  <1>1. life \in LifeSet /\ NoLife \in LifeSet
    BY DEF UpkeepTyped, UpkeepTypeOK, LifeSet, NoLife
  <1>2. CASE life' = [life EXCEPT !.todo = @ \ {c}]
    <2>1. /\ life' \in LifeSet /\ life'.pc = life.pc /\ life'.todo \subseteq life.todo
          /\ life'.then = life.then
      BY <1>1, <1>2 DEF LifeSet
    <2> QED
      BY <1>1, <1>2, <2>1 DEF LifeStep, Set, LifeSet, NoLife
  <1>3. CASE life' = NoLife /\ UNCHANGED box
    BY <1>1, <1>3 DEF LifeStep
  <1> QED
    BY <1>2, <1>3 DEF LifeStep

LEMMA LifeTurned ==
  ASSUME UpkeepTyped, LifeTurns \/ LifeDies
  PROVE  /\ life.pc # "idle" /\ life' \in LifeSet
         /\ life' = NoLife \/ (life'.todo = life.then /\ life'.then = {})
         /\ UNCHANGED <<box, sick, version, holder, healOn, healSt, pass, rollout, tries>>
  <1>1. life \in LifeSet /\ NoLife \in LifeSet
    BY DEF UpkeepTyped, UpkeepTypeOK, LifeSet, NoLife
  <1>2. /\ life.pc # "idle"
        /\ UNCHANGED <<box, sick, version, holder, healOn, healSt, pass, rollout, tries>>
        /\ life' = NoLife \/ life' = [life EXCEPT !.pc = "start", !.todo = life.then, !.then = {}]
    BY DEF LifeTurns, LifeDies
  <1>3. CASE life' = [life EXCEPT !.pc = "start", !.todo = life.then, !.then = {}]
    <2>1. life' \in LifeSet /\ life'.todo = life.then /\ life'.then = {}
      BY <1>1, <1>3 DEF LifeSet
    <2> QED
      BY <1>2, <2>1
  <1> QED
    BY <1>1, <1>2, <1>3

\* The steps of a rollout.
LEMMA RolloutStarted ==
  ASSUME UpkeepTyped, NEW c \in Webs, RolloutBegins(c)
  PROVE  /\ rollout.pc = "idle" /\ rollout' \in RolloutSet /\ rollout'.pc = "run" /\ rollout'.new = c
         /\ c # version /\ BeginAs(Overlapping) /\ holder' = "deploy"
         /\ UNCHANGED <<box, sick, version, healOn, healSt, pass, life, tries>>
  BY DEF RolloutBegins, RolloutSet

LEMMA RolloutRan ==
  ASSUME UpkeepTyped, RolloutRuns
  PROVE  /\ rollout.pc = "run" /\ rollout' \in RolloutSet /\ rollout'.new = rollout.new
         /\ rollout.new \in Webs /\ rollout.new # version
         /\ \/ /\ box[rollout.new] = "running" /\ box' = [box EXCEPT ![Database] = "running"]
               /\ rollout'.pc = "end" /\ UNCHANGED <<sick, redated>>
            \/ /\ box' = [box EXCEPT ![rollout.new] = "running", ![Database] = "running"]
               /\ rollout'.pc = "switch"
               /\ sick' \in {sick \ {rollout.new}, sick \cup {rollout.new}}
               /\ redated' = redated \ {rollout.new}
         /\ UNCHANGED <<version, holder, healOn, healSt, pass, life, tries, cron>>
  <1>1. rollout \in RolloutSet /\ rollout.pc = "run" /\ rollout.new \in Webs /\ rollout.new # version
    BY DEF RolloutRuns, UpkeepTyped, UpkeepTypeOK, RolloutSet
  <1>2. CASE Up(rollout.new)
    <2>1. rollout' = [rollout EXCEPT !.pc = "end"]
      BY <1>2 DEF RolloutRuns
    <2>2. rollout' \in RolloutSet /\ rollout'.new = rollout.new /\ rollout'.pc = "end"
      BY <1>1, <2>1 DEF RolloutSet
    <2> QED
      BY <1>1, <1>2, <2>2 DEF RolloutRuns, Up, Set
  <1>3. CASE ~Up(rollout.new)
    <2>1. rollout' = [rollout EXCEPT !.pc = "switch"]
      BY <1>3 DEF RolloutRuns
    <2>2. rollout' \in RolloutSet /\ rollout'.new = rollout.new /\ rollout'.pc = "switch"
      BY <1>1, <2>1 DEF RolloutSet
    <2> QED
      BY <1>1, <1>3, <2>2 DEF RolloutRuns
  <1> QED
    BY <1>2, <1>3

LEMMA RolloutSwitched ==
  ASSUME UpkeepTyped, RolloutSwitches
  PROVE  /\ rollout.pc = "switch" /\ rollout' \in RolloutSet
         /\ rollout.new \in Webs /\ rollout.new # version
         /\ \/ /\ box[rollout.new] = "running" /\ version' = rollout.new /\ UNCHANGED box
               /\ rollout'.pc = "stopold" /\ rollout'.new = version
            \/ /\ box' = [box EXCEPT ![rollout.new] = "absent"] /\ UNCHANGED version
               /\ rollout'.pc = "end" /\ rollout'.new = rollout.new
         /\ UNCHANGED <<sick, holder, healOn, healSt, pass, life, tries>>
  <1>1. /\ rollout \in RolloutSet /\ rollout.pc = "switch" /\ rollout.new \in Webs
        /\ rollout.new # version /\ version \in Webs \cup {NoWeb}
    BY DEF RolloutSwitches, UpkeepTyped, UpkeepTypeOK, RolloutSet
  <1>2. CASE Up(rollout.new) /\ rollout.new \notin sick
    BY <1>1, <1>2 DEF RolloutSwitches, Up, RolloutSet
  <1>3. CASE ~(Up(rollout.new) /\ rollout.new \notin sick)
    <2>1. rollout' = [rollout EXCEPT !.pc = "end"]
      BY <1>3 DEF RolloutSwitches
    <2>2. rollout' \in RolloutSet /\ rollout'.new = rollout.new /\ rollout'.pc = "end"
      BY <1>1, <2>1 DEF RolloutSet
    <2> QED
      BY <1>1, <1>3, <2>2 DEF RolloutSwitches, Set
  <1> QED
    BY <1>2, <1>3

LEMMA OldStopped ==
  ASSUME UpkeepTyped, RolloutStopsOld
  PROVE  /\ rollout.pc = "stopold" /\ rollout' \in RolloutSet /\ rollout'.pc = "end"
         /\ \/ /\ box' = IF rollout.new # NoWeb /\ Up(rollout.new)
                         THEN [box EXCEPT ![rollout.new] = "exited"] ELSE box
               /\ UNCHANGED luck
            \/ UNCHANGED box /\ Mishap("clean")
         /\ UNCHANGED <<sick, version, holder, healOn, healSt, pass, life, tries>>
  <1>1. rollout \in RolloutSet
    BY DEF UpkeepTyped, UpkeepTypeOK, RolloutSet
  <1>2. rollout.pc = "stopold" /\ rollout' = [rollout EXCEPT !.pc = "end"]
    BY DEF RolloutStopsOld
  <1>3. rollout' \in RolloutSet /\ rollout'.pc = "end"
    BY <1>1, <1>2 DEF RolloutSet
  <1> QED
    BY <1>2, <1>3 DEF RolloutStopsOld

LEMMA RolloutEnded ==
  ASSUME UpkeepTyped, RolloutEnds \/ RolloutDies
  PROVE  /\ rollout' \in RolloutSet /\ rollout'.pc = "idle"
         /\ rollout.pc = "end" \/ Mishap("crash")
         /\ holder' \in {holder, "free"}
         /\ UNCHANGED <<box, sick, version, healOn, healSt, pass, life, tries>>
  BY DEF RolloutEnds, RolloutDies, NoRollout, RolloutSet

\* The steps of the script.
LEMMA CronGoes ==
  ASSUME UpkeepTyped, CronNext
  PROVE  /\ cron' \in CronSet /\ (cron'.pc = "idle" => cron' = NoCron)
         /\ cron'.pc # "idle" => cron'.at \in Webs
         /\ \/ /\ cron = NoCron /\ BeginAs(Overlapping) /\ cron'.pc = "pull"
               /\ box[cron'.at] = "running" /\ UNCHANGED <<box, sick, redated>>
            \/ /\ cron.pc # "idle" /\ cron' = NoCron /\ UNCHANGED <<box, sick, redated>>
               /\ \/ cron.pc = "pull"
                  \/ Mishap("crash")
                  \/ cron.pc = "run" /\ (box[cron.at] # "absent" \/ Mishap("fault"))
            \/ /\ cron.pc = "pull" /\ cron'.pc = "stop" /\ cron'.at = cron.at
               /\ UNCHANGED <<box, sick, redated>>
            \/ /\ cron.pc = "stop" /\ cron'.pc = "remove" /\ cron'.at = cron.at
               /\ UNCHANGED <<sick, redated>>
               /\ \/ UNCHANGED box
                  \/ box[cron.at] = "running" /\ box' = [box EXCEPT ![cron.at] = "exited"]
            \/ /\ cron.pc = "remove" /\ cron'.pc = "run" /\ cron'.at = cron.at
               /\ UNCHANGED <<sick, redated>>
               /\ box' \in {box, [box EXCEPT ![cron.at] = "absent"]}
            \/ /\ cron.pc = "run" /\ cron' = NoCron
               /\ box' = [box EXCEPT ![cron.at] = "running"]
               /\ sick' \in {sick \ {cron.at}, sick \cup {cron.at}}
               /\ redated' = redated \cup {cron.at} /\ Used({"stamp"})
  <1>1. /\ cron \in CronSet /\ NoCron \in CronSet /\ NoCron.pc = "idle"
        /\ cron.pc # "idle" => cron.at \in Webs
        /\ cron.pc = "idle" => cron = NoCron
    BY DEF UpkeepTyped, UpkeepTypeOK, CronSet, NoCron
  <1>2. \A l \in {"stop", "remove", "run"} :
            /\ [cron EXCEPT !.pc = l] \in CronSet
            /\ [cron EXCEPT !.pc = l].pc = l /\ [cron EXCEPT !.pc = l].at = cron.at
    BY <1>1 DEF CronSet
  <1>3. ASSUME NEW c \in Webs, CronFires(c)
        PROVE  /\ cron = NoCron /\ BeginAs(Overlapping) /\ cron' = [pc |-> "pull", at |-> c]
               /\ box[c] = "running" /\ UNCHANGED <<box, sick, redated>>
    BY <1>3 DEF CronFires, Up
  <1>4. ASSUME NEW c \in Webs, cron' = [pc |-> "pull", at |-> c]
        PROVE  cron' \in CronSet /\ cron'.pc = "pull" /\ cron'.at = c
    BY <1>4 DEF CronSet
  <1>5. CASE \E c \in Webs : CronFires(c)
    BY <1>3, <1>4, <1>5
  <1>6. CASE CronPulls
    <2>1. /\ UNCHANGED <<box, sick, redated>> /\ cron.pc = "pull"
          /\ cron' = NoCron \/ cron' = [cron EXCEPT !.pc = "stop"]
      BY <1>6 DEF CronPulls, CronAt
    <2> QED
      BY <1>1, <1>2, <2>1
  <1>7. CASE CronStops
    BY <1>1, <1>2, <1>7 DEF CronStops, CronAt, Up
  <1>8. CASE CronRemoves
    BY <1>1, <1>2, <1>8 DEF CronRemoves, CronAt
  <1>9. CASE CronRuns
    BY <1>1, <1>9 DEF CronRuns, Set
  <1>10. CASE CronDies
    BY <1>1, <1>10 DEF CronDies
  <1> QED
    BY <1>5, <1>6, <1>7, <1>8, <1>9, <1>10 DEF CronNext

\* What is left to show of the type.
LEMMA TypedWhen ==
  ASSUME UpkeepTyped, UpkeepNext,
         box' \in [Boxes -> {"absent", "exited", "running"}], sick' \subseteq Webs,
         version' \in Webs \cup {NoWeb}, holder' \in {"free", "deploy", "heal"}, healOn' \in BOOLEAN,
         healSt' \in Records, pass' \in PassSet, rollout' \in RolloutSet, life' \in LifeSet,
         tries' \in [Webs -> 0..GaveUp], redated' \subseteq Webs, cron' \in CronSet,
         pass'.pc \in {"probe", "lock", "restart", "unlock"} => pass'.at \in Webs,
         pass'.pc \in {"lock", "restart"} => pass'.hs[pass'.at] < MaxAttempts,
         rollout'.pc \in {"run", "switch"} => rollout'.new \in Webs /\ rollout'.new # version',
         cron'.pc # "idle" => cron'.at \in Webs, cron'.pc = "idle" => cron' = NoCron
  PROVE  UpkeepTyped'
  <1>1. LuckTypeOK'
    BY UpkeepStepLuck, LuckBefore DEF UpkeepTyped
  <1> QED
    BY <1>1 DEF UpkeepTyped, UpkeepTypeOK, PassSet, RolloutSet, LifeSet, CronSet

LEMMA TypedNow ==
  ASSUME UpkeepTyped
  PROVE  /\ box \in [Boxes -> {"absent", "exited", "running"}] /\ sick \subseteq Webs
         /\ version \in Webs \cup {NoWeb} /\ holder \in {"free", "deploy", "heal"} /\ healOn \in BOOLEAN
         /\ healSt \in Records /\ pass \in PassSet /\ rollout \in RolloutSet /\ life \in LifeSet
         /\ tries \in [Webs -> 0..GaveUp] /\ redated \subseteq Webs /\ cron \in CronSet
         /\ pass.pc \in {"probe", "lock", "restart", "unlock"} => pass.at \in Webs
         /\ pass.pc \in {"lock", "restart"} => pass.hs[pass.at] < MaxAttempts
         /\ rollout.pc \in {"run", "switch"} => rollout.new \in Webs /\ rollout.new # version
         /\ cron.pc # "idle" => cron.at \in Webs
         /\ cron.pc = "idle" => cron = NoCron
         /\ NoLife \in LifeSet
  BY DEF UpkeepTyped, UpkeepTypeOK, PassSet, RolloutSet, LifeSet, CronSet, NoLife

LEMMA NextUpkeepTyped ==
  ASSUME UpkeepTyped, UpkeepNext
  PROVE  UpkeepTyped'
  <1>t. UpkeepTypeOK /\ Webs \subseteq Boxes /\ Database \in Boxes
    BY UpkeepTypes DEF UpkeepTyped
  <1>n. NoRecords \in Records /\ MaxAttempts \in Nat /\ GaveUp = MaxAttempts + 1
    BY UpkeepAssumption DEF NoRecords, Records, GaveUp
  <1>1. CASE UNCHANGED scheduleVars /\ (HealSwitch \/ BreakStale \/ \E c \in Webs : FallsSick(c) \/ Recovers(c))
    <2>1. /\ UNCHANGED <<box, version, healSt, pass, rollout, life, tries, redated, cron>>
          /\ sick' \subseteq Webs /\ holder' \in {"free", "deploy", "heal"} /\ healOn' \in BOOLEAN
      BY <1>1, TypedNow DEF scheduleVars, HealSwitch, BreakStale, FallsSick, Recovers
    <2> QED
      BY <2>1, TypedNow, TypedWhen
  <1>2. CASE UNCHANGED scheduleVars /\ (PassBegins \/ \E c \in Webs : FindPort(c))
    <2>1. UNCHANGED <<redated, cron>>
      BY <1>2 DEF scheduleVars
    <2>2. /\ pass' \in PassSet /\ pass'.pc \in {"next", "probe"}
          /\ pass'.pc = "probe" => pass'.at \in Webs
          /\ UNCHANGED <<box, sick, version, holder, healOn, healSt, rollout, life, tries>>
      BY <1>2, PassStarts, PortFound
    <2> QED
      BY <2>1, <2>2, TypedNow, TypedWhen
  <1>3. CASE UNCHANGED scheduleVars /\ Probe
    <2>1. UNCHANGED <<redated, cron>> /\ pass.at \in Webs /\ tries' \in [Webs -> 0..GaveUp]
      BY <1>3, <1>n, Probed, TypedNow DEF scheduleVars
    <2>2. /\ pass' \in PassSet /\ pass'.pc \in {"next", "lock"} /\ pass'.at = pass.at
          /\ pass'.pc = "lock" => pass'.hs[pass'.at] < MaxAttempts
          /\ UNCHANGED <<box, sick, version, holder, healOn, healSt, rollout, life>>
      BY <1>3, Probed
    <2> QED
      BY <2>1, <2>2, TypedNow, TypedWhen
  <1>4. CASE UNCHANGED scheduleVars /\ HealLocks
    <2>1. UNCHANGED <<redated, cron>> /\ holder' \in {"free", "deploy", "heal"}
      BY <1>4, HealLocked, TypedNow DEF scheduleVars
    <2>2. /\ pass' \in PassSet
          /\ pass'.pc # "idle" => pass'.at \in Webs /\ pass'.hs[pass'.at] < MaxAttempts
          /\ UNCHANGED <<box, sick, version, healOn, healSt, rollout, life, tries>>
      BY <1>4, HealLocked, TypedNow, NoPassIdle
    <2> QED
      BY <2>1, <2>2, TypedNow, TypedWhen
  <1>5. CASE UNCHANGED scheduleVars /\ HealRestarts
    <2>1. UNCHANGED <<redated, cron>>
      BY <1>5 DEF scheduleVars
    <2>2. /\ pass' \in PassSet /\ pass'.pc = "unlock" /\ pass'.at \in Webs
          /\ UNCHANGED <<version, holder, healOn, healSt, rollout, life>>
      BY <1>5, HealRestarted
    <2>3. /\ box' \in [Boxes -> {"absent", "exited", "running"}] /\ sick' \subseteq Webs
          /\ tries' \in [Webs -> 0..GaveUp]
      BY <1>5, <1>t, <1>n, HealRestarted, TypedNow
    <2> QED
      BY <2>1, <2>2, <2>3, TypedNow, TypedWhen
  <1>6. CASE UNCHANGED scheduleVars /\ HealUnlocks
    <2>1. UNCHANGED <<redated, cron>> /\ holder' \in {"free", "deploy", "heal"}
      BY <1>6, HealUnlocked, TypedNow DEF scheduleVars
    <2> QED
      BY <1>6, <2>1, HealUnlocked, TypedNow, TypedWhen
  <1>7. CASE UNCHANGED scheduleVars /\ (PassEnds \/ PassDies)
    <2>1. /\ UNCHANGED <<redated, cron>> /\ pass' = NoPass /\ healSt' \in Records
          /\ UNCHANGED <<box, sick, version, holder, healOn, rollout, life, tries>>
      BY <1>7, <1>n, TypedNow DEF scheduleVars, PassEnds, PassDies, PassSet
    <2> QED
      BY <2>1, TypedNow, NoPassIdle, TypedWhen
  <1>8. CASE UNCHANGED scheduleVars /\ \E c \in Webs : RolloutBegins(c)
    <2>1. UNCHANGED <<redated, cron>>
      BY <1>8 DEF scheduleVars
    <2> QED
      BY <1>8, <2>1, RolloutStarted, TypedNow, TypedWhen
  <1>9. CASE RolloutRuns
    <2>1. /\ box' \in [Boxes -> {"absent", "exited", "running"}] /\ sick' \subseteq Webs
          /\ redated' \subseteq Webs
      BY <1>9, <1>t, RolloutRan, TypedNow
    <2> QED
      BY <1>9, <2>1, RolloutRan, TypedNow, TypedWhen
  <1>10. CASE UNCHANGED scheduleVars /\ RolloutSwitches
    <2>1. UNCHANGED <<redated, cron>>
      BY <1>10 DEF scheduleVars
    <2>2. box' \in [Boxes -> {"absent", "exited", "running"}] /\ version' \in Webs \cup {NoWeb}
      BY <1>10, <1>t, RolloutSwitched, TypedNow
    <2> QED
      BY <1>10, <2>1, <2>2, RolloutSwitched, TypedNow, TypedWhen
  <1>11. CASE UNCHANGED scheduleVars /\ RolloutStopsOld
    <2>1. UNCHANGED <<redated, cron>>
      BY <1>11 DEF scheduleVars
    <2>2. box' \in [Boxes -> {"absent", "exited", "running"}]
      BY <1>11, <1>t, OldStopped, TypedNow
    <2> QED
      BY <1>11, <2>1, <2>2, OldStopped, TypedNow, TypedWhen
  <1>12. CASE UNCHANGED scheduleVars /\ (RolloutEnds \/ RolloutDies)
    <2>1. UNCHANGED <<redated, cron>> /\ holder' \in {"free", "deploy", "heal"}
      BY <1>12, RolloutEnded, TypedNow DEF scheduleVars
    <2> QED
      BY <1>12, <2>1, RolloutEnded, TypedNow, TypedWhen
  <1>13. CASE UNCHANGED scheduleVars /\ \E op \in {"stop", "start", "restart"} : LifeBegins(op)
    <2>1. UNCHANGED <<redated, cron>>
      BY <1>13 DEF scheduleVars
    <2> QED
      BY <1>13, <2>1, LifeStarted, TypedNow, TypedWhen
  <1>14. CASE UNCHANGED scheduleVars /\ \E c \in Boxes : LifeStep(c)
    <2>1. UNCHANGED <<redated, cron>>
      BY <1>14 DEF scheduleVars
    <2>2. box' \in [Boxes -> {"absent", "exited", "running"}] /\ life' \in LifeSet
      BY <1>14, LifeStepped, TypedNow
    <2> QED
      BY <1>14, <2>1, <2>2, LifeStepped, TypedNow, TypedWhen
  <1>15. CASE UNCHANGED scheduleVars /\ (LifeTurns \/ LifeDies)
    <2>1. UNCHANGED <<redated, cron>>
      BY <1>15 DEF scheduleVars
    <2> QED
      BY <1>15, <2>1, LifeTurned, TypedNow, TypedWhen
  <1>16. CASE CronNext /\ UNCHANGED <<version, holder, healOn, healSt, pass, rollout, life, tries>>
    <2>1. /\ box' \in [Boxes -> {"absent", "exited", "running"}] /\ sick' \subseteq Webs
          /\ redated' \subseteq Webs
      BY <1>16, <1>t, CronGoes, TypedNow
    <2> QED
      BY <1>16, <2>1, CronGoes, TypedNow, TypedWhen
  <1> QED
    BY <1>1, <1>2, <1>3, <1>4, <1>5, <1>6, <1>7, <1>8, <1>9, <1>10, <1>11, <1>12, <1>13, <1>14,
       <1>15, <1>16 DEF UpkeepNext, OthersNext

\* Those that have nothing to do with containers, records or commands.
LEMMA SmallSteps ==
  ASSUME HealSwitch \/ BreakStale \/ \E c \in Webs : FallsSick(c) \/ Recovers(c)
  PROVE  UNCHANGED <<box, version, healSt, pass, rollout, life, tries>>
  BY DEF HealSwitch, BreakStale, FallsSick, Recovers

LEMMA NextOneAtATime ==
  ASSUME UpkeepTyped, OneAtATime, UpkeepNext
  PROVE  OneAtATime'
  <1> SUFFICES ASSUME NoneOf({"race"})'
        PROVE  /\ pass'.pc # "idle" => rollout'.pc = "idle" /\ life'.pc = "idle" /\ cron'.pc = "idle"
               /\ rollout'.pc # "idle" => life'.pc = "idle" /\ cron'.pc = "idle"
               /\ life'.pc # "idle" => cron'.pc = "idle"
               /\ pass'.pc \in {"probe", "lock", "restart"} => box'[pass'.at] = "running"
    BY DEF OneAtATime
  <1>0. /\ pass.pc # "idle" => rollout.pc = "idle" /\ life.pc = "idle" /\ cron.pc = "idle"
        /\ rollout.pc # "idle" => life.pc = "idle" /\ cron.pc = "idle"
        /\ life.pc # "idle" => cron.pc = "idle"
        /\ pass.pc \in {"probe", "lock", "restart"} => box[pass.at] = "running"
    BY UpkeepBefore DEF OneAtATime
  <1>a. /\ BeginAs(Overlapping) \/ Used(Overlapping) \/ MishapAs({"read"} \cup Overlapping) => AllRest
        /\ AllRest => pass.pc = "idle" /\ rollout.pc = "idle" /\ life.pc = "idle" /\ cron.pc = "idle"
        /\ NoCron.pc = "idle" /\ NoLife.pc = "idle"
    BY BeginsAlone DEF AllRest, NoCron, NoLife
  <1>1. CASE UNCHANGED scheduleVars /\ (HealSwitch \/ BreakStale \/ \E c \in Webs : FallsSick(c) \/ Recovers(c))
    BY <1>0, <1>1, SmallSteps DEF scheduleVars
  <1>2. CASE UNCHANGED scheduleVars /\ PassBegins
    BY <1>2, <1>a, PassStarts DEF scheduleVars
  <1>3. CASE UNCHANGED scheduleVars /\ \E c \in Webs : FindPort(c)
    BY <1>0, <1>3, PortFound DEF scheduleVars
  <1>4. CASE UNCHANGED scheduleVars /\ (Probe \/ HealLocks)
    <2>1. CASE Probe
      BY <1>0, <1>4, <2>1, Probed DEF scheduleVars
    <2>2. CASE HealLocks
      BY <1>0, <1>4, <2>2, HealLocked, NoPassIdle DEF scheduleVars
    <2> QED
      BY <1>4, <2>1, <2>2
  <1>5. CASE UNCHANGED scheduleVars /\ (HealRestarts \/ HealUnlocks)
    BY <1>0, <1>5, HealRestarted, HealUnlocked DEF scheduleVars
  <1>6. CASE UNCHANGED scheduleVars /\ (PassEnds \/ PassDies)
    BY <1>0, <1>6, NoPassIdle DEF scheduleVars, PassEnds, PassDies
  <1>7. CASE UNCHANGED scheduleVars /\ \E c \in Webs : RolloutBegins(c)
    BY <1>a, <1>7, RolloutStarted DEF scheduleVars
  <1>8. CASE RolloutRuns
    BY <1>0, <1>8, RolloutRan
  <1>9. CASE UNCHANGED scheduleVars /\ (RolloutSwitches \/ RolloutStopsOld)
    BY <1>0, <1>9, RolloutSwitched, OldStopped DEF scheduleVars
  <1>10. CASE UNCHANGED scheduleVars /\ (RolloutEnds \/ RolloutDies)
    BY <1>0, <1>10, RolloutEnded DEF scheduleVars
  <1>11. CASE UNCHANGED scheduleVars /\ \E op \in {"stop", "start", "restart"} : LifeBegins(op)
    BY <1>a, <1>11, LifeStarted DEF scheduleVars
  <1>12. CASE UNCHANGED scheduleVars /\ \E c \in Boxes : LifeStep(c)
    BY <1>0, <1>a, <1>12, LifeStepped DEF scheduleVars
  <1>13. CASE UNCHANGED scheduleVars /\ (LifeTurns \/ LifeDies)
    BY <1>0, <1>a, <1>13, LifeTurned DEF scheduleVars
  <1>14. CASE CronNext /\ UNCHANGED <<version, holder, healOn, healSt, pass, rollout, life, tries>>
    BY <1>0, <1>a, <1>14, CronGoes
  <1> QED
    BY <1>1, <1>2, <1>3, <1>4, <1>5, <1>6, <1>7, <1>8, <1>9, <1>10, <1>11, <1>12, <1>13, <1>14
    DEF UpkeepNext, OthersNext

LEMMA NextCount ==
  ASSUME UpkeepTyped, CountInv, UpkeepNext
  PROVE  CountInv'
  <1> SUFFICES ASSUME NoneOf({"read", "save", "crash"})', NEW c \in Webs
               PROVE  tries'[c] <= MaxAttempts /\ tries'[c] <= Counted'[c]
    BY DEF CountInv
  <1>0. /\ tries[c] <= MaxAttempts /\ tries[c] <= Counted[c]
        /\ tries \in [Webs -> 0..GaveUp] /\ healSt \in Records /\ pass.hs \in Records
        /\ MaxAttempts \in Nat /\ GaveUp = MaxAttempts + 1 /\ Records = [Webs -> 0..GaveUp]
    BY UpkeepBefore, UpkeepTypes DEF CountInv, UpkeepTyped, Records
  <1>m. ~Mishap("save") /\ ~Mishap("crash") /\ ~MishapAs({"read"} \cup Overlapping)
    <2>1. ~Mishap("save") /\ ~Mishap("crash")
      BY NotThis DEF UpkeepTyped, MishapKinds
    <2>2. {"read"} \cup Overlapping \in SUBSET MishapKinds
      BY DEF MishapKinds, Overlapping
    <2> QED
      BY <2>1, <2>2, NoneBefore DEF UpkeepTyped
  <1>1. CASE UNCHANGED <<pass, healSt, tries>>
    BY <1>0, <1>1 DEF Counted
  <1>2. CASE PassBegins
    BY <1>0, <1>m, <1>2, PassStarts DEF Counted
  <1>3. CASE \E b \in Webs : FindPort(b)
    BY <1>0, <1>3, PortFound DEF Counted
  <1>4. CASE Probe
    <2>1. /\ pass.pc = "probe" /\ pass'.pc # "idle" /\ tries[c] <= pass.hs[c]
      BY <1>0, <1>4, Probed DEF Counted
    <2>2. /\ tries'[c] <= MaxAttempts /\ tries'[c] <= pass'.hs[c]
      BY <1>0, <1>4, <2>1, Probed
    <2> QED
      BY <2>1, <2>2 DEF Counted
  <1>5. CASE HealLocks
    BY <1>0, <1>m, <1>5, HealLocked DEF Counted
  <1>6. CASE HealRestarts
    <2>1. /\ pass.pc = "restart" /\ pass'.pc = "unlock" /\ tries[c] <= pass.hs[c]
      BY <1>0, <1>6, HealRestarted DEF Counted
    <2>2. /\ tries'[c] <= MaxAttempts /\ tries'[c] <= pass'.hs[c]
      BY <1>0, <1>6, <2>1, HealRestarted
    <2> QED
      BY <2>1, <2>2 DEF Counted
  <1>7. CASE HealUnlocks
    BY <1>0, <1>7, HealUnlocked DEF Counted
  <1>8. CASE PassEnds \/ PassDies
    <2>1. pass.pc = "next" /\ pass' = NoPass /\ healSt' = pass.hs /\ UNCHANGED tries
      BY <1>m, <1>8 DEF PassEnds, PassDies
    <2> QED
      BY <1>0, <2>1, NoPassIdle DEF Counted
  <1>9. CASE RolloutRuns \/ RolloutSwitches \/ RolloutStopsOld \/ RolloutEnds \/ RolloutDies
             \/ \E b \in Webs : RolloutBegins(b)
    BY <1>1, <1>9, RolloutRan, RolloutSwitched, OldStopped, RolloutEnded, RolloutStarted
  <1>10. CASE LifeTurns \/ LifeDies \/ \E b \in Boxes : LifeStep(b)
    BY <1>1, <1>10, LifeTurned, LifeStepped
  <1>11. CASE \E op \in {"stop", "start", "restart"} : LifeBegins(op)
    BY <1>1, <1>11, LifeStarted
  <1> QED
    BY <1>1, <1>2, <1>3, <1>4, <1>5, <1>6, <1>7, <1>8, <1>9, <1>10, <1>11, SmallSteps
    DEF UpkeepNext, OthersNext

LEMMA NextRunning ==
  ASSUME UpkeepTyped, OneAtATime, RunningInv, UpkeepNext
  PROVE  RunningInv'
  <1> SUFFICES ASSUME NoneOf({"race", "clean", "crash"})'
        PROVE  /\ \A c \in Webs : box'[c] = "running" =>
                      c = version' \/ (rollout'.pc \in {"switch", "stopold"} /\ c = rollout'.new)
               /\ life'.pc = "start" => life'.todo \cap Webs \subseteq {version'}
               /\ life'.pc # "idle" => life'.then \cap Webs \subseteq {version'}
               /\ cron'.pc # "idle" => cron'.at = version'
    BY DEF RunningInv
  <1>n. NoneOf({"race", "clean", "crash"}) /\ NoneOf({"race"}) /\ ~Mishap("clean") /\ ~Mishap("crash")
    <2>1. NoneOf({"race", "clean", "crash"})
      BY UpkeepBefore
    <2>2. ~Mishap("clean") /\ ~Mishap("crash")
      BY NotThis DEF UpkeepTyped, MishapKinds
    <2> QED
      BY <2>1, <2>2 DEF NoneOf
  <1>0. /\ \A c \in Webs : box[c] = "running" =>
                c = version \/ (rollout.pc \in {"switch", "stopold"} /\ c = rollout.new)
        /\ life.pc = "start" => life.todo \cap Webs \subseteq {version}
        /\ life.pc # "idle" => life.then \cap Webs \subseteq {version}
        /\ cron.pc # "idle" => cron.at = version
    BY <1>n DEF RunningInv
  <1>o. /\ pass.pc # "idle" => rollout.pc = "idle" /\ life.pc = "idle" /\ cron.pc = "idle"
        /\ rollout.pc # "idle" => life.pc = "idle" /\ cron.pc = "idle"
        /\ life.pc # "idle" => cron.pc = "idle"
        /\ pass.pc \in {"probe", "lock", "restart"} => box[pass.at] = "running"
    BY <1>n DEF OneAtATime
  <1>a. /\ BeginAs(Overlapping) => AllRest
        /\ AllRest => pass.pc = "idle" /\ rollout.pc = "idle" /\ life.pc = "idle" /\ cron.pc = "idle"
        /\ NoCron.pc = "idle" /\ NoLife.pc = "idle"
    BY BeginsAlone DEF AllRest, NoCron, NoLife
  <1>t. /\ box \in [Boxes -> {"absent", "exited", "running"}] /\ Webs \subseteq Boxes
        /\ Database \in Boxes /\ Database \notin Webs /\ NoWeb \notin Webs
        /\ OfVersion \cap Webs \subseteq {version}
    BY UpkeepTypes DEF UpkeepTyped, OfVersion
  <1>1. CASE UNCHANGED <<box, version, rollout, life, cron>>
    BY <1>0, <1>1
  <1>2. CASE UNCHANGED scheduleVars /\ (PassBegins \/ Probe \/ HealLocks \/ HealUnlocks)
    BY <1>1, <1>2, PassStarts, Probed, HealLocked, HealUnlocked DEF scheduleVars
  <1>3. CASE UNCHANGED scheduleVars /\ (PassEnds \/ PassDies \/ \E c \in Webs : FindPort(c))
    BY <1>1, <1>3, PortFound DEF scheduleVars, PassEnds, PassDies
  <1>4. CASE UNCHANGED scheduleVars /\ HealRestarts
    <2>1. UNCHANGED <<version, rollout, life, cron>> /\ \A c \in Webs : box'[c] = box[c]
      BY <1>o, <1>t, <1>4, HealRestarted DEF scheduleVars
    <2> QED
      BY <1>0, <2>1
  <1>5. CASE UNCHANGED scheduleVars /\ \E c \in Webs : RolloutBegins(c)
    <2>1. UNCHANGED <<box, version, life, cron>> /\ rollout.pc = "idle"
      BY <1>5, RolloutStarted DEF scheduleVars
    <2> QED
      BY <1>0, <2>1
  <1>6. CASE RolloutRuns
    <2>1. /\ rollout.pc = "run" /\ rollout'.new = rollout.new
          /\ rollout.new \in Webs /\ rollout.new # version /\ box[rollout.new] # "running"
          /\ UNCHANGED <<version, life, cron>>
      BY <1>0, <1>6, RolloutRan
    <2>2. rollout'.pc = "switch" /\ box' = [box EXCEPT ![rollout.new] = "running", ![Database] = "running"]
      BY <1>6, <2>1, RolloutRan
    <2>3. \A c \in Webs : box'[c] = "running" => c = version \/ c = rollout.new
      BY <1>0, <1>t, <2>1, <2>2
    <2> QED
      BY <1>0, <2>1, <2>2, <2>3
  <1>7. CASE UNCHANGED scheduleVars /\ RolloutSwitches
    <2>1. /\ rollout.pc = "switch" /\ life.pc = "idle" /\ cron.pc = "idle" /\ UNCHANGED <<life, cron>>
          /\ rollout.new \in Webs
      BY <1>o, <1>7, RolloutSwitched DEF scheduleVars
    <2>2. CASE /\ UNCHANGED box /\ version' = rollout.new
               /\ rollout'.pc = "stopold" /\ rollout'.new = version
      BY <1>0, <2>1, <2>2
    <2>3. CASE box' = [box EXCEPT ![rollout.new] = "absent"] /\ UNCHANGED version
      BY <1>0, <1>t, <2>1, <2>3
    <2> QED
      BY <1>7, <2>2, <2>3, RolloutSwitched
  <1>8. CASE UNCHANGED scheduleVars /\ RolloutStopsOld
    <2>1. /\ rollout.pc = "stopold" /\ UNCHANGED <<version, life, cron>>
          /\ box' = IF rollout.new # NoWeb /\ Up(rollout.new)
                    THEN [box EXCEPT ![rollout.new] = "exited"] ELSE box
      BY <1>n, <1>8, OldStopped DEF scheduleVars
    <2>2. \A c \in Webs : box'[c] = "running" => c = version
      BY <1>0, <1>t, <2>1 DEF Up
    <2> QED
      BY <1>0, <2>1, <2>2
  <1>9. CASE UNCHANGED scheduleVars /\ (RolloutEnds \/ RolloutDies)
    <2>1. rollout.pc = "end" /\ UNCHANGED <<box, version, life, cron>>
      BY <1>n, <1>9, RolloutEnded DEF scheduleVars, RolloutEnds, RolloutDies
    <2> QED
      BY <1>0, <2>1
  <1>10. CASE UNCHANGED scheduleVars /\ \E op \in {"stop", "start", "restart"} : LifeBegins(op)
    <2>1. UNCHANGED <<box, version, rollout, cron>>
      BY <1>10, LifeStarted DEF scheduleVars
    <2>2. /\ life'.pc = "start" => life'.todo \cap Webs \subseteq {version}
          /\ life'.then \cap Webs \subseteq {version}
      BY <1>t, <1>10, LifeStarted
    <2> QED
      BY <1>0, <2>1, <2>2
  <1>11. CASE UNCHANGED scheduleVars /\ \E c \in Boxes : LifeStep(c)
    <2>1. PICK c \in Boxes : LifeStep(c)
      BY <1>11
    <2>2. /\ life.pc # "idle" /\ rollout.pc = "idle" /\ UNCHANGED <<version, rollout, cron>>
      BY <1>o, <1>11, <2>1, LifeStepped DEF scheduleVars
    <2>3. CASE UNCHANGED box /\ life' = NoLife
      BY <1>0, <1>a, <2>2, <2>3
    <2>4. CASE life'.pc = life.pc /\ life'.todo \subseteq life.todo /\ life'.then = life.then
                 /\ ((life.pc = "stop" /\ box' = [box EXCEPT ![c] = "exited"])
                     \/ (life.pc = "start" /\ box' = [box EXCEPT ![c] = "running"] /\ c \in life.todo))
      <3>1. \A d \in Webs : box'[d] = "running" => d = version
        BY <1>0, <1>t, <2>2, <2>4
      <3> QED
        BY <1>0, <2>2, <2>4, <3>1
    <2> QED
      BY <2>1, <2>3, <2>4, LifeStepped
  <1>12. CASE UNCHANGED scheduleVars /\ (LifeTurns \/ LifeDies)
    BY <1>0, <1>a, <1>12, LifeTurned DEF scheduleVars
  <1>13. CASE CronNext /\ UNCHANGED <<version, holder, healOn, healSt, pass, rollout, life, tries>>
    <2>1. cron = NoCron /\ BeginAs(Overlapping) /\ box[cron'.at] = "running" /\ cron'.pc # "idle"
              => cron'.at = version
      BY <1>0, <1>a, <1>13, CronGoes
    <2>2. cron'.pc # "idle" => cron'.at = version
      BY <1>0, <1>a, <1>13, <2>1, CronGoes
    <2>3. \A c \in Webs : box'[c] = "running" => box[c] = "running" \/ (cron.pc # "idle" /\ c = cron.at)
      BY <1>a, <1>t, <1>13, CronGoes
    <2>4. cron.pc # "idle" => rollout.pc = "idle"
      BY <1>o
    <2> QED
      BY <1>0, <1>13, <2>2, <2>3, <2>4
  <1> QED
    BY <1>1, <1>2, <1>3, <1>4, <1>5, <1>6, <1>7, <1>8, <1>9, <1>10, <1>11, <1>12, <1>13, SmallSteps
    DEF UpkeepNext, OthersNext, scheduleVars

LEMMA NextKeptInv ==
  ASSUME UpkeepTyped, KeptInv, UpkeepNext
  PROVE  KeptInv'
  <1> SUFFICES ASSUME NoneOf({"fault", "crash"})'
        PROVE  /\ version' # NoWeb => box'[version'] # "absent" \/ (cron'.pc = "run" /\ cron'.at = version')
               /\ NoneOf({"stamp"})' => redated' = {}
    BY DEF KeptInv
  <1>n. ~Mishap("fault") /\ ~Mishap("crash") /\ (NoneOf({"stamp"})' => NoneOf({"stamp"}))
        /\ (NoneOf({"stamp"})' => ~Used({"stamp"}))
    <2>1. {"stamp"} \in SUBSET MishapKinds /\ LuckTypeOK
      BY DEF MishapKinds, UpkeepTyped
    <2>2. NoneOf({"stamp"})' => ~Used({"stamp"})
      BY <2>1, NoneBefore
    <2>3. ~Mishap("fault") /\ ~Mishap("crash")
      BY <2>1, NotThis DEF MishapKinds
    <2> QED
      BY <2>2, <2>3, UpkeepBefore
  <1>0. /\ version # NoWeb => box[version] # "absent" \/ (cron.pc = "run" /\ cron.at = version)
        /\ NoneOf({"stamp"}) => redated = {}
    BY UpkeepBefore DEF KeptInv
  <1>t. /\ box \in [Boxes -> {"absent", "exited", "running"}] /\ Webs \subseteq Boxes
        /\ version \in Webs \cup {NoWeb} /\ Database \in Boxes /\ NoWeb \notin Webs
    BY UpkeepTypes DEF UpkeepTyped
  <1>1. ASSUME UNCHANGED <<version, cron>>, redated' \subseteq redated,
               \A c \in Webs : box'[c] = "absent" => box[c] = "absent"
        PROVE  /\ version' # NoWeb => box'[version'] # "absent" \/ (cron'.pc = "run" /\ cron'.at = version')
               /\ NoneOf({"stamp"})' => redated' = {}
    BY <1>0, <1>n, <1>t, <1>1
  <1>2. CASE UNCHANGED scheduleVars
               /\ (HealSwitch \/ BreakStale \/ \E c \in Webs : FallsSick(c) \/ Recovers(c))
    BY <1>1, <1>2, SmallSteps DEF scheduleVars
  <1>3. CASE UNCHANGED scheduleVars /\ (PassBegins \/ Probe \/ HealLocks \/ HealUnlocks)
    BY <1>1, <1>3, PassStarts, Probed, HealLocked, HealUnlocked DEF scheduleVars
  <1>4. CASE UNCHANGED scheduleVars /\ (PassEnds \/ PassDies \/ \E c \in Webs : FindPort(c))
    BY <1>1, <1>4, PortFound DEF scheduleVars, PassEnds, PassDies
  <1>5. CASE UNCHANGED scheduleVars /\ HealRestarts
    <2>1. UNCHANGED <<version, cron, redated>> /\ \A c \in Webs : box'[c] = "absent" => box[c] = "absent"
      BY <1>t, <1>5, HealRestarted DEF scheduleVars
    <2> QED
      BY <1>1, <2>1
  <1>6. CASE UNCHANGED scheduleVars /\ (RolloutEnds \/ RolloutDies \/ \E c \in Webs : RolloutBegins(c))
    BY <1>1, <1>6, RolloutStarted, RolloutEnded DEF scheduleVars
  <1>7. CASE RolloutRuns
    <2>1. /\ UNCHANGED <<version, cron>> /\ redated' \subseteq redated
          /\ \A c \in Webs : box'[c] = "absent" => box[c] = "absent"
      BY <1>t, <1>7, RolloutRan
    <2> QED
      BY <1>1, <2>1
  <1>8. CASE UNCHANGED scheduleVars /\ RolloutSwitches
    <2>1. CASE box[rollout.new] = "running" /\ version' = rollout.new /\ UNCHANGED box
      BY <1>0, <1>n, <1>8, <2>1 DEF scheduleVars
    <2>2. CASE box' = [box EXCEPT ![rollout.new] = "absent"] /\ UNCHANGED version
      <3>1. rollout.new # version
        BY <1>8, RolloutSwitched
      <3> QED
        BY <1>0, <1>n, <1>t, <1>8, <2>2, <3>1 DEF scheduleVars
    <2> QED
      BY <1>8, <2>1, <2>2, RolloutSwitched
  <1>9. CASE UNCHANGED scheduleVars /\ RolloutStopsOld
    <2>1. /\ UNCHANGED <<version, cron, redated>>
          /\ \A c \in Webs : box'[c] = "absent" => box[c] = "absent"
      BY <1>t, <1>9, OldStopped DEF scheduleVars
    <2> QED
      BY <1>1, <2>1
  <1>10. CASE UNCHANGED scheduleVars /\ \E op \in {"stop", "start", "restart"} : LifeBegins(op)
    BY <1>1, <1>10, LifeStarted DEF scheduleVars
  <1>11. CASE UNCHANGED scheduleVars /\ \E c \in Boxes : LifeStep(c)
    <2>1. /\ UNCHANGED <<version, cron, redated>>
          /\ \A c \in Webs : box'[c] = "absent" => box[c] = "absent"
      BY <1>t, <1>11, LifeStepped DEF scheduleVars
    <2> QED
      BY <1>1, <2>1
  <1>12. CASE UNCHANGED scheduleVars /\ (LifeTurns \/ LifeDies)
    BY <1>1, <1>12, LifeTurned DEF scheduleVars
  <1>13. CASE CronNext /\ UNCHANGED <<version, holder, healOn, healSt, pass, rollout, life, tries>>
    <2>1. /\ UNCHANGED version /\ NoCron.pc = "idle" /\ (cron.pc # "idle" => cron.at \in Boxes)
      BY <1>13, <1>t, TypedNow DEF NoCron
    <2>2. NoneOf({"stamp"})' => redated' = {}
      BY <1>0, <1>n, <1>13, CronGoes
    <2>3. version # NoWeb => box'[version] # "absent" \/ (cron'.pc = "run" /\ cron'.at = version)
      BY <1>0, <1>n, <1>t, <1>13, <2>1, CronGoes
    <2> QED
      BY <2>1, <2>2, <2>3
  <1> QED
    BY <1>2, <1>3, <1>4, <1>5, <1>6, <1>7, <1>8, <1>9, <1>10, <1>11, <1>12, <1>13
    DEF UpkeepNext, OthersNext

LEMMA NextUpkeep == UpkeepInv /\ UpkeepNext => UpkeepInv'
  BY NextUpkeepTyped, NextOneAtATime, NextCount, NextRunning, NextKeptInv DEF UpkeepInv

\* What is promised of a state.
LEMMA UpkeepFollows == UpkeepInv => RestartsBounded /\ OneVersionRuns /\ CurrentIsKept
  <1> SUFFICES ASSUME UpkeepInv PROVE RestartsBounded /\ OneVersionRuns /\ CurrentIsKept
    OBVIOUS
  <1>1. RestartsBounded
    BY DEF UpkeepInv, CountInv, RestartsBounded
  <1>2. OneVersionRuns
    BY DEF UpkeepInv, RunningInv, OneVersionRuns, AllRest, Up
  <1>3. CurrentIsKept
    <2>1. version \in Webs \cup {NoWeb} /\ (cron = NoCron => cron.pc = "idle")
      BY UpkeepTypes DEF UpkeepInv, UpkeepTyped, NoCron
    <2> QED
      BY <2>1 DEF UpkeepInv, KeptInv, CurrentIsKept, AllRest, OfVersion
  <1> QED
    BY <1>1, <1>2, <1>3

LEMMA WakesNothing == UpkeepInv /\ UpkeepNext => HealAloneWakesNothing
  <1> SUFFICES ASSUME UpkeepInv, UpkeepNext, NoneOf({"race"}), HealStartsStopped PROVE FALSE
    BY DEF HealAloneWakesNothing
  <1>1. PICK c \in Webs : pass.pc = "restart" /\ pass'.pc = "unlock" /\ box[c] = "exited" /\ Up(c)'
    BY DEF HealStartsStopped
  <1>t. /\ UpkeepTyped /\ box \in [Boxes -> {"absent", "exited", "running"}] /\ Webs \subseteq Boxes
        /\ NoPass.pc = "idle"
    BY UpkeepTypes DEF UpkeepInv, UpkeepTyped, NoPass
  <1>2. /\ box[pass.at] = "running" /\ rollout.pc = "idle" /\ life.pc = "idle" /\ cron.pc = "idle"
    BY <1>1 DEF UpkeepInv, OneAtATime
  <1>3. CASE HealRestarts
    BY <1>t, <1>1, <1>2, <1>3, HealRestarted DEF Up
  <1>4. CASE UNCHANGED pass
    BY <1>1, <1>4
  <1>5. ~PassBegins /\ ~Probe /\ ~HealLocks /\ ~HealUnlocks /\ ~PassEnds /\ ~PassDies
        /\ \A b : ~FindPort(b)
    BY <1>t, <1>1 DEF PassBegins, Probe, HealLocks, HealUnlocks, PassEnds, PassDies, FindPort
  <1> QED
    BY <1>t, <1>3, <1>4, <1>5, SmallSteps, RolloutRan, RolloutSwitched, OldStopped, RolloutEnded,
       RolloutStarted, LifeStarted, LifeStepped, LifeTurned
    DEF UpkeepNext, OthersNext

UpkeepKeeps == part = "upkeep" => UpkeepInv

LEMMA NextUpkeepKeeps == UpkeepKeeps /\ [Next]_allVars => UpkeepKeeps'
  <1> SUFFICES ASSUME UpkeepKeeps, [Next]_allVars, part' = "upkeep" PROVE UpkeepInv'
    BY DEF UpkeepKeeps
  <1>1. CASE Upkeep_
    BY <1>1, NextUpkeep DEF Upkeep_, UpkeepKeeps
  <1>2. CASE UNCHANGED <<part, luck, upkeepVars>>
    <2>1. UNCHANGED <<part, luck, box, sick, version, holder, healOn, healSt, pass, rollout, life,
                      tries, redated, cron>>
      BY <1>2 DEF upkeepVars, scheduleVars
    <2>2. UpkeepInv
      BY <2>1 DEF UpkeepKeeps
    <2>3. UpkeepTyped'
      BY <2>1, <2>2 DEF UpkeepInv, UpkeepTyped, UpkeepTypeOK, LuckTypeOK
    <2>4. OneAtATime' /\ CountInv' /\ RunningInv' /\ KeptInv'
      BY <2>1, <2>2 DEF UpkeepInv, OneAtATime, CountInv, Counted, RunningInv, KeptInv, NoneOf
    <2> QED
      BY <2>3, <2>4 DEF UpkeepInv
  <1> QED
    BY <1>1, <1>2 DEF Next, Site, Preview, Volume, Fleet_, Rest, allVars

\* A heal pass alone wakes nothing that was stopped and restarts no container
\* more than max_attempts times between two healthy probes; only the current
\* version runs when nothing is under way; and its container is kept.
THEOREM UpkeepAlwaysHolds == Spec => UpkeepHolds
  <1>1. Init => UpkeepKeeps
    BY UpkeepAtFirst DEF UpkeepKeeps
  <1>2. UpkeepKeeps /\ [Next]_allVars
            => [/\ HealAloneWakesNothing
                /\ RestartsBounded'
                /\ OneVersionRuns'
                /\ CurrentIsKept']_upkeepVars
    <2> SUFFICES ASSUME UpkeepKeeps, [Next]_allVars, ~UNCHANGED upkeepVars
                 PROVE  /\ HealAloneWakesNothing
                        /\ RestartsBounded' /\ OneVersionRuns' /\ CurrentIsKept'
      OBVIOUS
    <2>1. UpkeepNext /\ UpkeepInv
      BY DEF Next, Site, Preview, Upkeep_, Fleet_, Volume, Rest, allVars, UpkeepKeeps
    <2>2. HealAloneWakesNothing /\ UpkeepInv'
      BY <2>1, WakesNothing, NextUpkeep
    <2>3. UpkeepInv' => RestartsBounded' /\ OneVersionRuns' /\ CurrentIsKept'
      BY UpkeepFollows, PTL
    <2> QED
      BY <2>2, <2>3
  <1> QED
    BY <1>1, <1>2, NextUpkeepKeeps, PTL DEF Spec, UpkeepHolds


-----------------------------------------------------------------------------
(* All parts.                                                              *)

\* Every variable of the part that moves keeps its type.
THEOREM TypeCorrect == Spec => []TypeOK
  <1> DEFINE Kept == /\ part \in Parts /\ SiteKept /\ PreviewsKept /\ UpkeepKeeps /\ FleetKeeps
                     /\ VolumesKept
  <1>1. Init => Kept
    <2> SUFFICES ASSUME Init PROVE Kept
      OBVIOUS
    <2>1. SiteKept
      BY LuckAtFirst, InitSite DEF Init, SiteKept
    <2>2. PreviewsKept /\ UpkeepKeeps /\ FleetKeeps /\ VolumesKept
      BY PreviewsAtFirst, UpkeepAtFirst, FleetAtFirst, InitVolumes
         DEF PreviewsKept, UpkeepKeeps, FleetKeeps, VolumesKept
    <2> QED
      BY <2>1, <2>2, LuckAtFirst
  <1>2. Kept /\ [Next]_allVars => Kept'
    <2> SUFFICES ASSUME Kept, [Next]_allVars PROVE Kept'
      OBVIOUS
    <2>1. UNCHANGED part
      BY DEF Next, Site, Preview, Upkeep_, Fleet_, Volume, Rest, allVars
    <2> QED
      BY <2>1, NextSiteKept, NextPreviewsKept, NextUpkeepKeeps, NextFleetKeeps, NextVolumesKept
  <1>3. Kept => TypeOK
    <2> SUFFICES ASSUME Kept PROVE TypeOK
      OBVIOUS
    <2>1. CASE part = "site"
      BY <2>1 DEF TypeOK, SiteKept, SiteInv, SiteTyped
    <2>2. CASE part = "previews"
      <3>1. PreviewTyped /\ junk \in BOOLEAN
        BY <2>2 DEF PreviewsKept, PreviewInv, JunkInv
      <3>2. PreviewTypeOK
        BY <3>1 DEF PreviewTyped, PreviewTypeOK, Commands, CommandLabels
      <3> QED
        BY <2>2, <3>1, <3>2 DEF TypeOK, PreviewTyped
    <2>3. CASE part = "upkeep"
      BY <2>3 DEF TypeOK, UpkeepKeeps, UpkeepInv, UpkeepTyped
    <2>4. CASE part = "fleet"
      BY <2>4 DEF TypeOK, FleetKeeps, FleetInv, FleetTyped
    <2>5. CASE part = "volumes"
      <3>1. VolumeTyped /\ LuckTypeOK
        BY <2>5 DEF VolumesKept, VolumeInv, VolumeTyped
      <3>2. Len(batches) <= MaxOps + 1 /\ live \in DOMAIN batches
        BY <3>1, MishapsAssumption DEF VolumeTyped, LuckTypeOK
      <3>3. VolumeTypeOK
        BY <3>1, <3>2 DEF VolumeTyped, VolumeTypeOK, MigrationLabels
      <3> QED
        BY <2>5, <3>1, <3>3 DEF TypeOK
    <2> QED
      BY <2>1, <2>2, <2>3, <2>4, <2>5 DEF Parts
  <1> QED
    BY <1>1, <1>2, <1>3, PTL DEF Spec
=============================================================================
