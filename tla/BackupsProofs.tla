---------------------------- MODULE BackupsProofs ----------------------------
(***************************************************************************)
(* What DataParts promises of the backups of an app, for every value of    *)
(* its constants, and the types of all its parts.                          *)
(***************************************************************************)
EXTENDS DataStoresProofs, WellFoundedInduction

\* A set of numbers that is not empty and has a bound has a largest element.
LEMMA LargestNumber ==
  ASSUME NEW n \in Nat, NEW T \in SUBSET (0..n), T # {}
  PROVE  \E x \in T : \A y \in T : y <= x
  <1> DEFINE R == OpToRel(<, Nat)
             D == {n - x : x \in T}
  <1>1. IsWellFoundedOn(R, Nat)
    BY NatLessThanWellFounded
  <1>2. \A a, b \in Nat : a < b => <<a, b>> \in R
    BY DEF OpToRel
  <1>3. \A x \in T : n - x \in Nat
    OBVIOUS
  <1>4. D \subseteq Nat /\ D # {}
    BY <1>3
  <1> HIDE DEF R, D
  <1>5. PICK d \in D : \A e \in D : ~(<<e, d>> \in R)
    BY <1>1, <1>4, WFMin
  <1>6. \A e \in D : ~(e < d)
    BY <1>2, <1>4, <1>5
  <1>7. PICK x \in T : d = n - x
    BY <1>5 DEF D
  <1>8. \A y \in T : n - y \in D
    BY DEF D
  <1>9. \A y \in T : y <= x
    BY <1>4, <1>6, <1>7, <1>8
  <1> QED
    BY <1>7, <1>9

-----------------------------------------------------------------------------
\* Types.  A command's steps are those of its operation, and only a prune that
\* deletes has a list.
AClerk == [pc : {"idle", "dump", "upload", "list", "delete", "download", "load", "extract",
                 "promote", "clear", "fetch", "boot", "fill", "judge", "strip"},
           op : {"none", "backup", "prune", "restore", "verify"},
           store : Stores \cup {"nobody"}, at : Times, data : Contents \cup {Useless},
           list : SUBSET Times, said : {"nothing", "complete", "OK", "FAILED"}]

GoodClerk(x) ==
    /\ x.pc # "idle" => x.store \in Stores
    /\ x.pc \in {"dump", "upload"} => x.op = "backup"
    /\ x.pc \in {"list", "delete"} => x.op \in {"backup", "prune"}
    /\ x.pc \in {"download", "load", "extract", "promote", "clear"} => x.op = "restore"
    /\ x.pc \in {"fetch", "fill", "strip"} => x.op = "verify"
    /\ x.pc = "load" => Style[x.store] = "sql"
    /\ x.list # {} => x.pc = "delete"

BackupTyped ==
    /\ LuckTypeOK /\ BackupTypeOK
    /\ \A c \in Clerks : GoodClerk(clerk[c])

LEMMA TimesType == /\ Older + MaxOps \in Nat /\ MaxOps \in Nat /\ Older \in Nat /\ KeepLast \in Nat
                   /\ Times = 0..(Older + MaxOps) /\ 0 \in Times
  BY BackupsAssumption, MishapsAssumption DEF Times

LEMMA NoClerkType == NoClerk \in AClerk /\ NoArchive \in Archive
  BY TimesType DEF NoClerk, AClerk, NoArchive, Archive

LEMMA InitBackupTyped == BackupInit /\ LuckTypeOK => BackupTyped
  <1> SUFFICES ASSUME BackupInit, LuckTypeOK PROVE BackupTyped
    OBVIOUS
  <1>1. \A t \in 0..Older : t \in Times
    BY TimesType
  <1>2. held \in [Stores -> Contents \cup {Useless}]
    BY TimesType DEF BackupInit, Contents
  <1>3. DOMAIN bucket = Stores /\ \A s \in Stores : bucket[s] \subseteq Archive
    <2>1. \A s \in Stores, t \in 1..Older :
             [at |-> t, data |-> [of |-> s, num |-> t], whole |-> TRUE] \in Archive
      BY <1>1, TimesType DEF Archive, Contents
    <2> QED
      BY <2>1 DEF BackupInit
  <1>4. BackupTypeOK
    BY <1>2, <1>3, NoClerkType DEF BackupInit, BackupTypeOK, AClerk
  <1> QED
    BY <1>4 DEF BackupTyped, BackupInit, GoodClerk, NoClerk

\* The clock does not go back, and what has happened has happened.
LEMMA ClerkLuck ==
  ASSUME LuckTypeOK, BackupNext
  PROVE  /\ LuckTypeOK'
         /\ luck.ops \in Nat /\ luck'.ops \in Nat /\ luck'.ops <= luck.ops
         /\ luck.had \subseteq luck'.had
  <1>t. /\ luck.ops \in 0..MaxOps /\ luck.left \in 0..MaxMishaps /\ luck.had \subseteq MishapKinds
        /\ luck = [ops |-> luck.ops, left |-> luck.left, had |-> luck.had]
        /\ MaxOps \in Nat /\ MaxMishaps \in Nat
    BY MishapsAssumption DEF LuckTypeOK
  <1>1. CASE UNCHANGED luck
    BY <1>1, <1>t DEF LuckTypeOK
  <1>2. ASSUME NEW K \in SUBSET MishapKinds, BeginAs(K) \/ MishapAs(K)
        PROVE  /\ LuckTypeOK' /\ luck'.ops \in Nat /\ luck'.ops <= luck.ops
               /\ luck.had \subseteq luck'.had
    <2>1. luck'.ops = luck.ops \/ luck'.ops = luck.ops - 1
      BY <1>2, OpsSpent
    <2>2. LuckTypeOK' /\ luck'.had = luck.had \cup K
      BY <1>2, LuckKept
    <2>3. luck'.ops \in Nat
      BY <2>2, <1>t DEF LuckTypeOK
    <2> QED
      BY <2>1, <2>2, <2>3, <1>t
  <1>3. ASSUME NEW s \in Stores, SetScheduleUnread(s)
        PROVE  /\ LuckTypeOK' /\ luck'.ops \in Nat /\ luck'.ops <= luck.ops
               /\ luck.had \subseteq luck'.had
    <2>1. /\ luck.ops > 0 /\ luck.left > 0
          /\ luck' = [ops |-> luck.ops - 1, left |-> luck.left - 1, had |-> luck.had \cup {"read"}]
      BY <1>3, <1>t DEF SetScheduleUnread
    <2>2. luck.ops - 1 \in 0..MaxOps /\ luck.left - 1 \in 0..MaxMishaps
      BY <2>1, <1>t
    <2> QED
      BY <2>1, <2>2, <1>t DEF LuckTypeOK, MishapKinds
  <1>4. ASSUME NEW k \in MishapKinds, Mishap(k) PROVE \E K \in SUBSET MishapKinds : MishapAs(K)
    BY <1>4 DEF Mishap
  <1>5. ASSUME NEW c \in Clerks, ClerkStep(c) PROVE UNCHANGED luck \/ \E k \in MishapKinds : Mishap(k)
    BY <1>5 DEF ClerkStep, Dump, UploadArchive, ListBackups, DeleteBackup, Download, Load, Extract, Promote,
       Clear, Fetch, Fill, Strip, ClerkFails, ClerkDies, MishapKinds
  <1>6. ASSUME NEW c \in Clerks, NEW op, NEW label, NEW s, NEW at, StartClerk(c, op, label, s, at)
        PROVE  \E K \in SUBSET MishapKinds : BeginAs(K)
    BY <1>6 DEF StartClerk, MishapKinds
  <1>7. Begin => \E K \in SUBSET MishapKinds : BeginAs(K)
    BY DEF Begin
  <1>8. CASE \E c \in Clerks, s \in Stores :
          \/ StartBackup(c, s) \/ StartPruning(c, s) \/ StartVerify(c, s) \/ CronFires(c, s)
          \/ \E at \in 1..Now : StartRestore(c, s, at)
    <2>1. PICK c \in Clerks, s \in Stores :
          \/ StartBackup(c, s) \/ StartPruning(c, s) \/ StartVerify(c, s) \/ CronFires(c, s)
          \/ \E at \in 1..Now : StartRestore(c, s, at)
      BY <1>8
    <2>2. CASE StartBackup(c, s) \/ StartPruning(c, s) \/ StartVerify(c, s) \/ \E at \in 1..Now : StartRestore(c, s, at)
      BY <2>2, <1>2, <1>6, <1>t DEF StartBackup, StartPruning, StartVerify, StartRestore
    <2>3. CASE CronFires(c, s)
      BY <2>3, <1>2, <1>6, <1>7, <1>t DEF CronFires
    <2> QED
      BY <2>1, <2>2, <2>3
  <1>9. CASE \E s \in Stores : Write(s) \/ SetUpAnew(s) \/ Spoil(s) \/ SetSchedule(s) \/ SetScheduleUnread(s)
    <2>1. "rot" \in MishapKinds
      BY DEF MishapKinds
    <2> QED
      BY <1>9, <1>2, <1>3, <1>4, <1>7, <1>t, <2>1 DEF Write, SetUpAnew, Spoil, SetSchedule
  <1>10. CASE \E c \in Clerks : ClerkStep(c)
    BY <1>10, <1>1, <1>2, <1>4, <1>5, <1>t
  <1> QED
    BY <1>8, <1>9, <1>10 DEF BackupNext

LEMMA NowType ==
  ASSUME LuckTypeOK, BackupNext
  PROVE  /\ Now \in Nat /\ Now' \in Nat /\ Now \in Times /\ Now' \in Times /\ Now <= Now'
         /\ \A K : BeginAs(K) => Now' = Now + 1
  <1>1. luck.ops \in 0..MaxOps /\ luck'.ops \in 0..MaxOps /\ luck'.ops <= luck.ops
    BY ClerkLuck DEF LuckTypeOK
  <1>2. \A K : BeginAs(K) => luck'.ops = luck.ops - 1
    BY OpsSpent
  <1> QED
    BY SMTT(40), <1>1, <1>2, TimesType DEF Now

LEMMA BackupBefore ==
  ASSUME LuckTypeOK, BackupNext, NEW X, NoneOf(X)'
  PROVE  NoneOf(X)
  BY ClerkLuck DEF NoneOf

\* A step of a command changes what that command has in hand and nothing of
\* which operation, of what store and of what date it is.
LEMMA ClerkStepForm ==
  ASSUME BackupTyped, NEW c \in Clerks, ClerkStep(c)
  PROVE  /\ clerk[c].pc # "idle" /\ Store(c) \in Stores
         /\ \E x \in AClerk :
              /\ clerk' = [clerk EXCEPT ![c] = x]
              /\ GoodClerk(x)
              /\ x.op = clerk[c].op /\ x.store = clerk[c].store /\ x.at = clerk[c].at
              /\ x.pc # "dump"
              /\ x.pc = "upload" => ClerkAt(c, "dump")
              /\ x.list # {} => ListBackups(c) \/ DeleteBackup(c)
  <1>a. clerk[c].pc # "idle"
    BY DEF ClerkStep, Dump, UploadArchive, ListBackups, DeleteBackup, Download, Load, Extract, Promote,
       Clear, Fetch, Fill, Strip, ClerkFails, ClerkDies, ClerkAt
  <1>t. /\ clerk \in [Clerks -> AClerk] /\ clerk[c] \in AClerk /\ GoodClerk(clerk[c])
        /\ Store(c) \in Stores
        /\ held \in [Stores -> Contents \cup {Useless}]
    BY <1>a DEF BackupTyped, BackupTypeOK, AClerk, GoodClerk, Store
  <1> DEFINE Kept(x) == /\ clerk' = [clerk EXCEPT ![c] = x]
                        /\ x.op = clerk[c].op /\ x.store = clerk[c].store /\ x.at = clerk[c].at
  <1>e. ASSUME NEW said \in {"nothing", "complete", "OK", "FAILED"}, ClerkEnds(c, said)
        PROVE  \E x \in AClerk : Kept(x) /\ x.pc = "idle" /\ x.list = {}
    <2> DEFINE x == [NoClerk EXCEPT !.op = clerk[c].op, !.store = Store(c),
                                    !.at = clerk[c].at, !.said = said]
    <2>1. x \in AClerk /\ x.pc = "idle" /\ x.list = {}
      BY NoClerkType, <1>t DEF AClerk, NoClerk
    <2>2. Kept(x)
      BY <1>e, <1>t DEF ClerkEnds, NoClerk, Store
    <2> HIDE DEF x
    <2> QED
      BY <2>1, <2>2
  <1>g. ASSUME NEW l \in {"list", "load", "extract", "promote", "clear", "fill", "strip"},
               NEW said \in {"nothing", "complete", "OK", "FAILED"},
               clerk' = [clerk EXCEPT ![c] = [@ EXCEPT !.pc = l, !.said = said]],
               clerk[c].pc # "delete",
               l = "list" => clerk[c].op = "backup",
               l \in {"load", "extract", "promote", "clear"} => clerk[c].op = "restore",
               l \in {"fill", "strip"} => clerk[c].op = "verify",
               l = "load" => Style[Store(c)] = "sql"
        PROVE  \E x \in AClerk : Kept(x) /\ GoodClerk(x) /\ x.pc = l /\ x.list = {}
    <2> DEFINE x == [clerk[c] EXCEPT !.pc = l, !.said = said]
    <2>1. x \in AClerk /\ x.pc = l /\ x.list = {} /\ x.op = clerk[c].op /\ x.store = Store(c)
      BY ZenonT(40), <1>g, <1>t DEF AClerk, GoodClerk, Store
    <2>2. Kept(x)
      BY <1>g, <1>t DEF AClerk
    <2> HIDE DEF x
    <2>3. GoodClerk(x)
      BY <1>g, <2>1, <1>t DEF GoodClerk
    <2> QED
      BY <2>1, <2>2, <2>3
  <1>h. \A l : ClerkGo(c, l) =>
          clerk' = [clerk EXCEPT ![c] = [@ EXCEPT !.pc = l, !.said = clerk[c].said]]
    BY <1>t DEF ClerkGo, AClerk
  <1>s. clerk[c].said \in {"nothing", "complete", "OK", "FAILED"}
    BY <1>t DEF AClerk
  <1>1. CASE Dump(c)
    <2> DEFINE x == [clerk[c] EXCEPT !.pc = "upload", !.data = held[Store(c)]]
    <2>1. x \in AClerk /\ x.pc = "upload" /\ x.list = clerk[c].list
      BY <1>t DEF AClerk
    <2>2. Kept(x)
      BY <1>1, <1>t DEF AClerk, Dump
    <2> HIDE DEF x
    <2> QED
      BY <2>1, <2>2, <1>1, <1>t DEF GoodClerk, Dump, ClerkAt
  <1>2. CASE ListBackups(c)
    <2> DEFINE L == SelectForDeletion({a.at : a \in bucket[Store(c)]})
               x == [clerk[c] EXCEPT !.pc = "delete", !.list = L]
    <2>1. L \subseteq Times
      BY <1>t DEF SelectForDeletion, BackupTyped, BackupTypeOK, Archive
    <2> HIDE DEF L
    <2>2. x \in AClerk /\ x.pc = "delete" /\ x.list = L
      BY <1>t, <2>1 DEF AClerk
    <2>3. Kept(x)
      BY <1>2, <1>t DEF AClerk, ListBackups, L
    <2> HIDE DEF x
    <2> QED
      BY <2>2, <2>3, <1>2, <1>t, <1>a DEF GoodClerk, ListBackups, ClerkAt
  <1>3. CASE DeleteBackup(c)
    <2>1. CASE ClerkEnds(c, "complete")
      BY <2>1, <1>e, <1>a, <1>t DEF GoodClerk
    <2>2. ASSUME NEW t, clerk' = [clerk EXCEPT ![c].list = @ \ {t}] PROVE \E x \in AClerk :
                Kept(x) /\ x.pc = "delete" /\ GoodClerk(x)
      <3> DEFINE L == clerk[c].list \ {t}
                 x == [clerk[c] EXCEPT !.list = L]
      <3>1. L \subseteq Times
        BY <1>t DEF AClerk
      <3>2. Kept(x)
        BY <2>2, <1>t DEF AClerk
      <3> HIDE DEF L
      <3>3. x \in AClerk /\ x.pc = "delete" /\ x.op = clerk[c].op /\ x.store = clerk[c].store
        BY <1>t, <1>3, <3>1 DEF AClerk, DeleteBackup, ClerkAt
      <3> HIDE DEF x
      <3> QED
        BY <3>2, <3>3, <1>3, <1>t, <1>a DEF GoodClerk, DeleteBackup, ClerkAt
    <2>3. ClerkEnds(c, "complete") \/ \E t : clerk' = [clerk EXCEPT ![c].list = @ \ {t}]
      BY <1>3 DEF DeleteBackup
    <2> QED
      BY <2>1, <2>2, <2>3, <1>3, <1>a, <1>t
  <1>4. CASE UploadArchive(c)
    <2>1. clerk[c].op = "backup" /\ clerk[c].pc = "upload"
      BY <1>4, <1>t DEF UploadArchive, GoodClerk, ClerkAt
    <2>2. CASE ClerkGo(c, "list")
      <3>1. clerk' = [clerk EXCEPT ![c] = [@ EXCEPT !.pc = "list", !.said = clerk[c].said]]
        BY <2>2, <1>h
      <3>2. \E x \in AClerk : Kept(x) /\ GoodClerk(x) /\ x.pc = "list" /\ x.list = {}
        BY <2>1, <3>1, <1>g, <1>s
      <3> QED
        BY <3>2, <1>a, <1>t
    <2>3. CASE ClerkEnds(c, "complete")
      BY <2>3, <1>e, <1>a, <1>t DEF GoodClerk
    <2> QED
      BY <1>4, <1>a, <1>t, <2>2, <2>3 DEF UploadArchive
  <1>5. CASE Download(c)
    <2>1. clerk[c].op = "restore" /\ clerk[c].pc = "download"
      BY <1>5, <1>t DEF Download, GoodClerk, ClerkAt
    <2>2. CASE ClerkGo(c, IF Style[Store(c)] = "sql" THEN "load" ELSE "extract")
      <3>1. CASE Style[Store(c)] = "sql"
        <4>1. clerk' = [clerk EXCEPT ![c] = [@ EXCEPT !.pc = "load", !.said = clerk[c].said]]
          BY <2>2, <3>1, <1>h
        <4>2. \E x \in AClerk : Kept(x) /\ GoodClerk(x) /\ x.pc = "load" /\ x.list = {}
          BY <2>1, <3>1, <4>1, <1>g, <1>s
        <4> QED
          BY <4>2, <1>a, <1>t
      <3>2. CASE Style[Store(c)] # "sql"
        <4>1. clerk' = [clerk EXCEPT ![c] = [@ EXCEPT !.pc = "extract", !.said = clerk[c].said]]
          BY <2>2, <3>2, <1>h
        <4>2. \E x \in AClerk : Kept(x) /\ GoodClerk(x) /\ x.pc = "extract" /\ x.list = {}
          BY <2>1, <4>1, <1>g, <1>s
        <4> QED
          BY <4>2, <1>a, <1>t
      <3> QED
        BY <3>1, <3>2
    <2>3. CASE ClerkEnds(c, "nothing")
      BY <2>3, <1>e, <1>a, <1>t DEF GoodClerk
    <2> QED
      BY <1>5, <1>a, <1>t, <2>2, <2>3 DEF Download
  <1>9. CASE Extract(c)
    <2>1. clerk[c].op = "restore" /\ clerk[c].pc = "extract"
      BY <1>9, <1>t DEF Extract, GoodClerk, ClerkAt
    <2>2. ClerkGo(c, "promote") \/ ClerkGo(c, "clear")
      BY <1>9 DEF Extract
    <2> QED
      BY <2>1, <2>2, <1>a, <1>t, <1>g, <1>h, <1>s
  <1>6. CASE Load(c) \/ Clear(c) \/ Strip(c) \/ ClerkFails(c) \/ ClerkDies(c)
    BY <1>6, <1>e, <1>s, <1>a, <1>t DEF Load, Clear, Strip, ClerkFails, ClerkDies, GoodClerk
  <1>7. CASE Promote(c)
    <2>1. clerk[c].op = "restore" /\ clerk[c].pc = "promote"
      BY <1>7, <1>t DEF Promote, GoodClerk, ClerkAt
    <2>2. \E said \in {"nothing", "complete", "OK", "FAILED"} :
            clerk' = [clerk EXCEPT ![c] = [@ EXCEPT !.pc = "clear", !.said = said]]
      BY <1>7, <1>h, <1>s, <1>t DEF Promote, AClerk
    <2>3. \E x \in AClerk : Kept(x) /\ GoodClerk(x) /\ x.pc = "clear" /\ x.list = {}
      BY <2>1, <2>2, <1>g
    <2> QED
      BY <2>3, <1>a, <1>t
  <1>8. CASE Fetch(c) \/ Fill(c)
    <2>1. clerk[c].op = "verify" /\ clerk[c].pc \in {"fetch", "fill"}
      BY <1>8, <1>t DEF Fetch, Fill, GoodClerk, ClerkAt
    <2>2. \E l \in {"fill", "strip"}, said \in {"nothing", "complete", "OK", "FAILED"} :
            clerk' = [clerk EXCEPT ![c] = [@ EXCEPT !.pc = l, !.said = said]]
      BY <1>8, <1>h, <1>s, <1>t DEF Fetch, Fill, AClerk
    <2>3. \E x \in AClerk : Kept(x) /\ GoodClerk(x) /\ x.pc \in {"fill", "strip"} /\ x.list = {}
      <3>1. PICK l \in {"fill", "strip"}, said \in {"nothing", "complete", "OK", "FAILED"} :
            clerk' = [clerk EXCEPT ![c] = [@ EXCEPT !.pc = l, !.said = said]]
        BY <2>2
      <3>2. CASE l = "fill"
        <4>1. clerk' = [clerk EXCEPT ![c] = [@ EXCEPT !.pc = "fill", !.said = said]]
          BY <3>1, <3>2
        <4>2. \E x \in AClerk : Kept(x) /\ GoodClerk(x) /\ x.pc = "fill" /\ x.list = {}
          BY <2>1, <4>1, <1>g
        <4> QED
          BY <4>2
      <3>3. CASE l = "strip"
        <4>1. clerk' = [clerk EXCEPT ![c] = [@ EXCEPT !.pc = "strip", !.said = said]]
          BY <3>1, <3>3
        <4>2. \E x \in AClerk : Kept(x) /\ GoodClerk(x) /\ x.pc = "strip" /\ x.list = {}
          BY <2>1, <4>1, <1>g
        <4> QED
          BY <4>2
      <3> QED
        BY <3>2, <3>3
    <2> QED
      BY <2>3, <1>a, <1>t
  <1> QED
    BY <1>1, <1>2, <1>3, <1>4, <1>5, <1>6, <1>7, <1>8, <1>9 DEF ClerkStep

\* The start of a command.
Starting(c, s) == \E at \in Times :
    \/ StartClerk(c, "backup", "dump", s, at) /\ at = Now'
    \/ StartClerk(c, "prune", "list", s, at)
    \/ StartClerk(c, "restore", "download", s, at)
    \/ StartClerk(c, "verify", "fetch", s, at)

\* The steps there are: of a command, the start of one, and what the app, the
\* weather and cron do.
LEMMA BackupForms ==
  ASSUME BackupTyped, BackupNext
  PROVE  \/ \E c \in Clerks : ClerkStep(c)
         \/ \E c \in Clerks, s \in Stores :
               Starting(c, s) /\ UNCHANGED <<held, bucket, loadTmp, stage, proofTmp>>
         \/ \E s \in Stores : Spoil(s)
         \/ UNCHANGED <<clerk, bucket, loadTmp, stage, proofTmp>>
  <1>n. Now \in Nat /\ Now' \in Times /\ Now \in Times
    BY NowType DEF BackupTyped
  <1>1. ASSUME NEW c \in Clerks, NEW s \in Stores, StartVerify(c, s)
        PROVE  Starting(c, s) /\ UNCHANGED <<held, bucket, loadTmp, stage, proofTmp>>
    <2> DEFINE T == {a.at : a \in bucket[s]}
               t == CHOOSE t \in T : \A a \in bucket[s] : a.at <= t
    <2>1. T \subseteq Times /\ T # {}
      BY <1>1 DEF StartVerify, BackupTyped, BackupTypeOK, Archive
    <2>2. \E x \in T : \A y \in T : y <= x
      BY <2>1, TimesType, LargestNumber
    <2>3. t \in T
      BY <2>2
    <2>4. StartClerk(c, "verify", "fetch", s, t)
      BY <1>1 DEF StartVerify
    <2> HIDE DEF t, T
    <2> QED
      BY <2>1, <2>3, <2>4, <1>1 DEF StartVerify, Starting
  <1>2. ASSUME NEW c \in Clerks, NEW s \in Stores, StartBackup(c, s) \/ StartPruning(c, s)
        PROVE  Starting(c, s) /\ UNCHANGED <<held, bucket, loadTmp, stage, proofTmp>>
    BY <1>2, <1>n, TimesType DEF StartBackup, StartPruning, Starting, files
  <1>3. ASSUME NEW c \in Clerks, NEW s \in Stores, NEW at \in 1..Now, StartRestore(c, s, at)
        PROVE  Starting(c, s) /\ UNCHANGED <<held, bucket, loadTmp, stage, proofTmp>>
    <2>1. at \in Times
      BY <1>n, TimesType
    <2> QED
      BY <2>1, <1>3 DEF StartRestore, Starting, files
  <1>4. ASSUME NEW c \in Clerks, NEW s \in Stores, CronFires(c, s)
        PROVE  \/ Starting(c, s) /\ UNCHANGED <<held, bucket, loadTmp, stage, proofTmp>>
               \/ UNCHANGED <<clerk, bucket, loadTmp, stage, proofTmp>>
    BY <1>4, <1>n DEF CronFires, Starting, files
  <1>5. ASSUME NEW s \in Stores, Write(s) \/ SetUpAnew(s) \/ SetSchedule(s) \/ SetScheduleUnread(s)
        PROVE  UNCHANGED <<clerk, bucket, loadTmp, stage, proofTmp>>
    BY <1>5 DEF Write, SetUpAnew, SetSchedule, SetScheduleUnread, files
  <1> QED
    BY <1>1, <1>2, <1>3, <1>4, <1>5 DEF BackupNext

LEMMA StartForm ==
  ASSUME BackupTyped, BackupNext, NEW c \in Clerks, NEW s \in Stores, Starting(c, s)
  PROVE  /\ clerk[c].pc = "idle"
         /\ \E x \in AClerk :
              /\ clerk' = [clerk EXCEPT ![c] = x]
              /\ GoodClerk(x)
              /\ x.store = s /\ x.list = {} /\ x.said = "nothing"
              /\ x.pc \in {"dump", "list", "download", "fetch"}
              /\ x.pc = "dump" => x.at = Now' /\ Now' = Now + 1
              /\ BeginAs(IF Rivals(x.op, s) THEN {"race"} ELSE {})
  <1>1. ASSUME NEW op \in {"backup", "prune", "restore", "verify"}, NEW at \in Times,
               NEW l \in {"dump", "list", "download", "fetch"}, StartClerk(c, op, l, s, at),
               l = "dump" => op = "backup" /\ at = Now', l = "list" => op = "prune",
               l = "download" => op = "restore", l = "fetch" => op = "verify"
        PROVE  /\ clerk[c].pc = "idle"
               /\ \E x \in AClerk :
                    /\ clerk' = [clerk EXCEPT ![c] = x]
                    /\ GoodClerk(x)
                    /\ x.store = s /\ x.list = {} /\ x.said = "nothing"
                    /\ x.pc \in {"dump", "list", "download", "fetch"}
                    /\ x.pc = "dump" => x.at = Now' /\ Now' = Now + 1
                    /\ BeginAs(IF Rivals(x.op, s) THEN {"race"} ELSE {})
    <2> DEFINE x == [NoClerk EXCEPT !.pc = l, !.op = op, !.store = s, !.at = at]
    <2>1. /\ x \in AClerk
          /\ x.pc = l /\ x.op = op /\ x.store = s /\ x.at = at /\ x.list = {} /\ x.said = "nothing"
      BY NoClerkType DEF AClerk, NoClerk
    <2>2. clerk' = [clerk EXCEPT ![c] = x] /\ clerk[c].pc = "idle"
          /\ BeginAs(IF Rivals(op, s) THEN {"race"} ELSE {})
      BY <1>1 DEF StartClerk, ClerkAt
    <2>3. Now' = Now + 1
      BY <2>2, NowType DEF BackupTyped
    <2> HIDE DEF x
    <2>4. GoodClerk(x)
      BY <2>1, <1>1 DEF GoodClerk
    <2> QED
      BY <1>1, <2>1, <2>2, <2>3, <2>4
  <1>2. PICK at \in Times :
          \/ StartClerk(c, "backup", "dump", s, at) /\ at = Now'
          \/ StartClerk(c, "prune", "list", s, at)
          \/ StartClerk(c, "restore", "download", s, at)
          \/ StartClerk(c, "verify", "fetch", s, at)
    BY DEF Starting
  <1>3. CASE StartClerk(c, "backup", "dump", s, at) /\ at = Now'
    BY <1>1, <1>3
  <1>4. CASE StartClerk(c, "prune", "list", s, at)
    BY <1>1, <1>4
  <1>5. CASE StartClerk(c, "restore", "download", s, at)
    BY <1>1, <1>5
  <1>6. CASE StartClerk(c, "verify", "fetch", s, at)
    BY <1>1, <1>6
  <1> QED
    BY <1>2, <1>3, <1>4, <1>5, <1>6

LEMMA NextBackupTyped == BackupTyped /\ BackupNext => BackupTyped'
  <1> SUFFICES ASSUME BackupTyped, BackupNext PROVE BackupTyped'
    OBVIOUS
  <1>t. /\ held \in [Stores -> Contents \cup {Useless}]
        /\ DOMAIN bucket = Stores /\ \A s \in Stores : bucket[s] \subseteq Archive
        /\ loadTmp \in [LoadPaths -> Archive]
        /\ stage \in [Stores -> Contents \cup {Useless}]
        /\ proofTmp \in [Stores -> Archive]
        /\ rig \in [Stores -> Contents \cup {Useless}]
        /\ job \in [Stores -> {"none", "set", "started", "nothing"}]
        /\ clerk \in [Clerks -> AClerk]
        /\ NoArchive \in Archive /\ Useless \in Contents \cup {Useless}
    BY NoClerkType DEF BackupTyped, BackupTypeOK, AClerk
  <1>a. \A a \in Archive : a.data \in Contents \cup {Useless} /\ a.at \in Times
                           /\ [a EXCEPT !.whole = FALSE] \in Archive
    BY DEF Archive
  <1>n. Now' \in Times /\ LuckTypeOK'
    BY NowType, ClerkLuck DEF BackupTyped
  <1>c. clerk' \in [Clerks -> AClerk] /\ \A c \in Clerks : GoodClerk(clerk'[c])
    <2>1. ASSUME NEW c \in Clerks, NEW x \in AClerk, GoodClerk(x), clerk' = [clerk EXCEPT ![c] = x]
          PROVE  clerk' \in [Clerks -> AClerk] /\ \A y \in Clerks : GoodClerk(clerk'[y])
      <3>1. clerk'[c] = x /\ \A y \in Clerks \ {c} : clerk'[y] = clerk[y]
        BY <2>1, <1>t
      <3> QED
        BY <3>1, <2>1, <1>t DEF BackupTyped
    <2>2. CASE \E c \in Clerks : ClerkStep(c)
      <3>1. PICK c \in Clerks : ClerkStep(c)
        BY <2>2
      <3>2. \E x \in AClerk : GoodClerk(x) /\ clerk' = [clerk EXCEPT ![c] = x]
        BY <3>1, ClerkStepForm
      <3> QED
        BY <3>2, <2>1
    <2>3. CASE \E c \in Clerks, s \in Stores : Starting(c, s)
      <3>1. PICK c \in Clerks, s \in Stores : Starting(c, s)
        BY <2>3
      <3>2. \E x \in AClerk : GoodClerk(x) /\ clerk' = [clerk EXCEPT ![c] = x]
        BY <3>1, StartForm
      <3> QED
        BY <3>2, <2>1
    <2>4. CASE UNCHANGED clerk
      BY <2>4, <1>t DEF BackupTyped
    <2> QED
      BY <2>2, <2>3, <2>4, BackupForms DEF Spoil
  <1>e. ASSUME held' \in [Stores -> Contents \cup {Useless}],
               DOMAIN bucket' = Stores, \A s \in Stores : bucket'[s] \subseteq Archive,
               loadTmp' \in [LoadPaths -> Archive], stage' \in [Stores -> Contents \cup {Useless}],
               proofTmp' \in [Stores -> Archive], rig' \in [Stores -> Contents \cup {Useless}],
               job' \in [Stores -> {"none", "set", "started", "nothing"}]
        PROVE  BackupTyped'
    BY <1>e, <1>c, <1>n DEF BackupTyped, BackupTypeOK, AClerk
  <1>1. ASSUME NEW c \in Clerks, ClerkStep(c) PROVE BackupTyped'
    <2>t. /\ clerk[c] \in AClerk /\ Store(c) \in Stores /\ clerk[c].at \in Times
          /\ clerk[c].data \in Contents \cup {Useless}
      BY <1>1, <1>t, ClerkStepForm DEF AClerk
    <2>l. LoadPath(Store(c)) = Store(c) \/ LoadPath(Store(c)) = Style[Store(c)]
      BY DEF LoadPath
    <2>p. LoadPath(Store(c)) \in LoadPaths /\ "sql" \in LoadPaths
      BY <2>t, BackupsAssumption DEF LoadPath, LoadPaths
    <2>b. bucket[Store(c)] \subseteq Archive /\ Fetched(c) \subseteq Archive
      BY <1>t, <2>t DEF Fetched
    <2>j. UNCHANGED job
      BY <1>1 DEF ClerkStep, Dump, UploadArchive, ListBackups, DeleteBackup, Download, Load, Extract, Promote,
         Clear, Fetch, Fill, Strip, ClerkFails, ClerkDies
    <2>1. CASE Dump(c) \/ ListBackups(c) \/ ClerkFails(c) \/ ClerkDies(c)
      BY <2>1, <1>e, <1>t DEF Dump, ListBackups, ClerkFails, ClerkDies, files
    <2>2. CASE UploadArchive(c)
      <3>1. [at |-> clerk[c].at, data |-> clerk[c].data, whole |-> TRUE] \in Archive
        BY <2>t DEF Archive
      <3> QED
        BY <2>2, <3>1, <2>t, <1>e, <1>t DEF UploadArchive, files
    <2>3. CASE DeleteBackup(c)
      <3> DEFINE t == CHOOSE x \in clerk[c].list : \A y \in clerk[c].list : y <= x
      <3>1. UNCHANGED bucket \/ bucket' = [bucket EXCEPT ![Store(c)] = {a \in @ : a.at # t}]
        BY <2>3 DEF DeleteBackup
      <3> HIDE DEF t
      <3> QED
        BY <2>3, <3>1, <2>t, <1>e, <1>t DEF DeleteBackup, files
    <2>4. CASE Download(c)
      BY <2>4, <2>b, <2>p, <2>t, <1>e, <1>t DEF Download
    <2>5. CASE Load(c)
      <3>1. loadTmp["sql"] \in Archive
        BY <2>p, <1>t
      <3>2. held[Store(c)] \in Contents \cup {Useless}
        BY <2>t, <1>t
      <3>3. held' = held \/ \E v \in Contents \cup {Useless} : held' = [held EXCEPT ![Store(c)] = v]
        <4> DEFINE D == Loaded(held[Store(c)], loadTmp["sql"])
        <4>1. D \subseteq Contents \cup {Useless}
          BY <3>1, <3>2, <1>a DEF Loaded
        <4>2. held' = held \/ (\E d \in D : held' = [held EXCEPT ![Store(c)] = d])
                \/ held' = [held EXCEPT ![Store(c)] = Useless]
          BY <2>5 DEF Load
        <4> HIDE DEF D
        <4> QED
          BY <4>1, <4>2
      <3>4. held' \in [Stores -> Contents \cup {Useless}]
        BY <3>3, <1>t
      <3>5. loadTmp' \in [LoadPaths -> Archive]
        BY <2>5, <2>p, <1>t DEF Load
      <3> QED
        BY <2>5, <3>4, <3>5, <1>e, <1>t DEF Load
    <2>6. CASE Extract(c)
      <3>1. loadTmp[LoadPath(Store(c))] \in Archive
        BY <2>p, <1>t
      <3> QED
        BY <2>6, <3>1, <2>t, <1>a, <1>e, <1>t DEF Extract
    <2>7. CASE Promote(c)
      BY <2>7, <2>t, <1>e, <1>t DEF Promote, files
    <2>8. CASE Clear(c)
      BY <2>8, <2>p, <2>t, <1>e, <1>t DEF Clear
    <2>9. CASE Fetch(c)
      BY <2>9, <2>b, <2>t, <1>e, <1>t DEF Fetch
    <2>10. CASE Fill(c)
      BY <2>10, <2>t, <1>a, <1>e, <1>t DEF Fill
    <2>11. CASE Strip(c)
      BY <2>11, <2>t, <1>e, <1>t DEF Strip
    <2> QED
      BY <1>1, <2>1, <2>2, <2>3, <2>4, <2>5, <2>6, <2>7, <2>8, <2>9, <2>10, <2>11 DEF ClerkStep
  <1>2. ASSUME NEW c \in Clerks, NEW s \in Stores,
               \/ StartBackup(c, s) \/ StartPruning(c, s) \/ StartVerify(c, s) \/ CronFires(c, s)
               \/ \E at \in 1..Now : StartRestore(c, s, at)
        PROVE  BackupTyped'
    <2>1. job' \in [Stores -> {"none", "set", "started", "nothing"}]
      BY <1>2, <1>t DEF StartBackup, StartPruning, StartVerify, CronFires, StartRestore
    <2>2. rig' \in [Stores -> Contents \cup {Useless}]
      BY <1>2, <1>t DEF StartBackup, StartPruning, StartVerify, CronFires, StartRestore, files
    <2>3. UNCHANGED <<held, bucket, loadTmp, stage, proofTmp>>
      BY <1>2 DEF StartBackup, StartPruning, StartVerify, CronFires, StartRestore, files
    <2> QED
      BY <2>1, <2>2, <2>3, <1>e, <1>t
  <1>3. ASSUME NEW s \in Stores, Write(s) \/ SetUpAnew(s) \/ Spoil(s) \/ SetSchedule(s) \/ SetScheduleUnread(s)
        PROVE  BackupTyped'
    <2>1. CASE Write(s)
      <3>1. [of |-> s, num |-> Now'] \in Contents
        BY <1>n DEF Contents
      <3> QED
        BY <2>1, <3>1, <1>e, <1>t DEF Write, files
    <2>4. CASE SetUpAnew(s)
      BY <2>4, <1>e, <1>t DEF SetUpAnew, Contents, files
    <2>2. CASE Spoil(s)
      <3>1. PICK a \in bucket[s] : bucket' = [bucket EXCEPT ![s] = (@ \ {a}) \cup {[a EXCEPT !.whole = FALSE]}]
        BY <2>2 DEF Spoil
      <3>2. [a EXCEPT !.whole = FALSE] \in Archive
        BY <1>a, <1>t
      <3> QED
        BY <2>2, <3>1, <3>2, <1>e, <1>t DEF Spoil, files
    <2>3. CASE SetSchedule(s) \/ SetScheduleUnread(s)
      BY <2>3, <1>e, <1>t DEF SetSchedule, SetScheduleUnread, files
    <2> QED
      BY <1>3, <2>1, <2>2, <2>3, <2>4
  <1> QED
    BY <1>1, <1>2, <1>3 DEF BackupNext

-----------------------------------------------------------------------------
\* The dates tell the backups of a store apart: the archives of one date hold
\* the same, and a command that is making a backup has a date of its own.
Backing(c) == clerk[c].pc \in {"dump", "upload"}

StampInv ==
    /\ \A s \in Stores : \A a, b \in bucket[s] : a.at <= Now /\ (a.at = b.at => a.data = b.data)
    /\ \A c \in Clerks : Backing(c) =>
          clerk[c].at <= Now /\ \A a \in bucket[Store(c)] : a.at # clerk[c].at
    /\ \A c, d \in Clerks : Backing(c) /\ Backing(d) /\ Store(c) = Store(d)
                            /\ clerk[c].at = clerk[d].at => c = d

\* Without decay every archive in the bucket is whole.
WholeInv == NoneOf({"rot"}) => \A s \in Stores : \A a \in bucket[s] : a.whole

\* An archive in the bucket was there before, whole unless it has decayed, or
\* is the one that has just been uploaded.
LEMMA BucketMoves ==
  ASSUME BackupTyped, BackupNext, NEW s \in Stores, NEW b \in bucket'[s]
  PROVE  \/ \E a \in bucket[s] : a.at = b.at /\ a.data = b.data /\ (NoneOf({"rot"})' => a.whole = b.whole)
         \/ \E c \in Clerks : /\ UploadArchive(c) /\ Store(c) = s
                              /\ b.at = clerk[c].at /\ b.data = clerk[c].data /\ b.whole
  <1>t. DOMAIN bucket = Stores /\ \A x \in Stores : bucket[x] \subseteq Archive
    BY DEF BackupTyped, BackupTypeOK
  <1>1. ASSUME NEW c \in Clerks, ClerkStep(c)
        PROVE  UNCHANGED bucket \/ UploadArchive(c) \/ DeleteBackup(c)
    BY <1>1 DEF ClerkStep, Dump, ListBackups, Download, Load, Extract, Promote,
       Clear, Fetch, Fill, Strip, ClerkFails, ClerkDies, files
  <1>2. CASE UNCHANGED bucket
    BY <1>2
  <1>3. ASSUME NEW c \in Clerks, UploadArchive(c)
        PROVE  \/ b \in bucket[s]
               \/ /\ Store(c) = s
                  /\ b.at = clerk[c].at /\ b.data = clerk[c].data /\ b.whole
    BY <1>3, <1>t DEF UploadArchive
  <1>4. ASSUME NEW c \in Clerks, DeleteBackup(c) PROVE b \in bucket[s]
    <2> DEFINE t == CHOOSE x \in clerk[c].list : \A y \in clerk[c].list : y <= x
    <2>1. UNCHANGED bucket \/ bucket' = [bucket EXCEPT ![Store(c)] = {a \in @ : a.at # t}]
      BY <1>4 DEF DeleteBackup
    <2> HIDE DEF t
    <2> QED
      BY <2>1, <1>t
  <1>5. ASSUME NEW x \in Stores, Spoil(x)
        PROVE  \E a \in bucket[s] : a.at = b.at /\ a.data = b.data /\ (NoneOf({"rot"})' => a.whole = b.whole)
    <2>1. PICK a \in bucket[x] : bucket' = [bucket EXCEPT ![x] = (@ \ {a}) \cup {[a EXCEPT !.whole = FALSE]}]
      BY <1>5 DEF Spoil
    <2>2. a \in Archive
      BY <2>1, <1>t
    <2>3. CASE b \in bucket[s]
      BY <2>3
    <2>4. CASE x = s /\ b = [a EXCEPT !.whole = FALSE]
      <3>1. b.at = a.at /\ b.data = a.data
        BY <2>2, <2>4 DEF Archive
      <3>2. ~NoneOf({"rot"})'
        <4> DEFINE X == {"rot"}
        <4>1. "rot" \in MishapKinds \cap X /\ Mishap("rot")
          BY <1>5 DEF MishapKinds, Spoil
        <4> HIDE DEF X
        <4>2. ~NoneOf(X)'
          BY <4>1, NotOfKind DEF BackupTyped
        <4> QED
          BY <4>2 DEF X
      <3> QED
        BY <3>1, <3>2, <2>1, <2>4
    <2> QED
      BY <2>1, <2>3, <2>4, <1>t
  <1> QED
    BY <1>1, <1>2, <1>3, <1>4, <1>5, BackupForms

\* A command that is making a backup was already, and has not uploaded it, or
\* has just begun, alone in this, and has the date of the day.
LEMMA BackingMoves ==
  ASSUME BackupTyped, BackupNext, NEW c \in Clerks, Backing(c)'
  PROVE  \/ Backing(c) /\ ~UploadArchive(c) /\ Store(c)' = Store(c) /\ clerk'[c].at = clerk[c].at
         \/ /\ clerk'[c].at = Now' /\ Now' = Now + 1
            /\ \A d \in Clerks \ {c} : clerk'[d] = clerk[d]
  <1>t. clerk \in [Clerks -> AClerk]
    BY DEF BackupTyped, BackupTypeOK, AClerk
  <1>u. ASSUME UploadArchive(c) PROVE FALSE
    <2>1. CASE ClerkGo(c, "list")
      BY <2>1, <1>t DEF ClerkGo, Backing, AClerk
    <2>2. CASE ClerkEnds(c, "complete")
      BY <2>2, <1>t DEF ClerkEnds, Backing, NoClerk, AClerk
    <2> QED
      BY <1>u, <2>1, <2>2 DEF UploadArchive
  <1>1. ASSUME NEW d \in Clerks, ClerkStep(d)
        PROVE  Backing(c) /\ Store(c)' = Store(c) /\ clerk'[c].at = clerk[c].at
    <2>1. PICK x \in AClerk : /\ clerk' = [clerk EXCEPT ![d] = x]
                              /\ x.op = clerk[d].op /\ x.store = clerk[d].store /\ x.at = clerk[d].at
                              /\ x.pc # "dump"
                              /\ x.pc = "upload" => ClerkAt(d, "dump")
      BY <1>1, ClerkStepForm
    <2>2. clerk'[d] = x /\ \A y \in Clerks \ {d} : clerk'[y] = clerk[y]
      BY <2>1, <1>t
    <2> QED
      BY <2>1, <2>2 DEF Backing, ClerkAt, Store
  <1>2. ASSUME NEW d \in Clerks, NEW s \in Stores, Starting(d, s)
        PROVE  \/ Backing(c) /\ Store(c)' = Store(c) /\ clerk'[c].at = clerk[c].at
               \/ /\ clerk'[c].at = Now' /\ Now' = Now + 1
                  /\ \A y \in Clerks \ {c} : clerk'[y] = clerk[y]
    <2>1. PICK x \in AClerk : /\ clerk' = [clerk EXCEPT ![d] = x]
                              /\ x.pc \in {"dump", "list", "download", "fetch"}
                              /\ x.pc = "dump" => x.at = Now' /\ Now' = Now + 1
      BY <1>2, StartForm
    <2>2. clerk'[d] = x /\ \A y \in Clerks \ {d} : clerk'[y] = clerk[y]
      BY <2>1, <1>t
    <2> QED
      BY <2>1, <2>2 DEF Backing, Store
  <1>3. CASE UNCHANGED clerk
    BY <1>3, <1>u DEF Backing, Store
  <1> QED
    BY <1>1, <1>2, <1>3, <1>u, BackupForms DEF Spoil

DatesTyped ==
    /\ \A s \in Stores : \A a \in bucket[s] : a.at \in Nat
    /\ \A c \in Clerks : clerk[c].at \in Nat
    /\ \A c \in Clerks : Backing(c) => Store(c) \in Stores

LEMMA TypedDates == BackupTyped => DatesTyped
  <1> SUFFICES ASSUME BackupTyped PROVE DatesTyped
    OBVIOUS
  <1>1. Times \subseteq Nat
    BY TimesType
  <1>2. \A s \in Stores : \A a \in bucket[s] : a.at \in Nat
    BY ZenonT(40), <1>1 DEF BackupTyped, BackupTypeOK, Archive
  <1>3. \A c \in Clerks : clerk[c].at \in Nat
    BY <1>1 DEF BackupTyped, BackupTypeOK
  <1>4. \A c \in Clerks : Backing(c) => Store(c) \in Stores
    BY DEF BackupTyped, GoodClerk, Backing, Store
  <1> QED
    BY <1>2, <1>3, <1>4 DEF DatesTyped

LEMMA NextStamp == BackupTyped /\ StampInv /\ BackupNext => StampInv'
  <1> SUFFICES ASSUME BackupTyped, StampInv, BackupNext PROVE StampInv'
    OBVIOUS
  <1>n. Now \in Nat /\ Now' \in Nat /\ Now <= Now'
    BY NowType DEF BackupTyped
  <1>t. /\ \A s \in Stores : \A a \in bucket[s] : a.at \in Nat
        /\ \A s \in Stores : \A a \in bucket'[s] : a.at \in Nat
        /\ \A c \in Clerks : clerk[c].at \in Nat /\ clerk'[c].at \in Nat
        /\ \A c \in Clerks : Backing(c) => Store(c) \in Stores
        /\ \A c \in Clerks : Backing(c)' => Store(c)' \in Stores
        /\ \A c \in Clerks : UploadArchive(c) => Backing(c)
    <2>1. BackupTyped'
      BY NextBackupTyped
    <2>2. BackupTyped' => DatesTyped'
      BY TypedDates, PTL
    <2>3. DatesTyped /\ DatesTyped'
      BY <2>1, <2>2, TypedDates
    <2>5. \A c \in Clerks : UploadArchive(c) => Backing(c)
      BY DEF UploadArchive, Backing, ClerkAt
    <2> QED
      BY <2>3, <2>5 DEF DatesTyped
  <1> DEFINE Old(s, b) == \E a \in bucket[s] : a.at = b.at /\ a.data = b.data
             New(s, b, c) == /\ UploadArchive(c) /\ Store(c) = s
                             /\ b.at = clerk[c].at /\ b.data = clerk[c].data
             Was(c) == Backing(c) /\ ~UploadArchive(c) /\ Store(c)' = Store(c) /\ clerk'[c].at = clerk[c].at
             Began(c) == /\ clerk'[c].at = Now' /\ Now' = Now + 1
                         /\ \A d \in Clerks \ {c} : clerk'[d] = clerk[d]
  <1>b. \A s \in Stores : \A b \in bucket'[s] : Old(s, b) \/ \E c \in Clerks : New(s, b, c)
    BY BucketMoves
  <1>c. \A c \in Clerks : Backing(c)' => Was(c) \/ Began(c)
    BY BackingMoves
  <1>i. /\ \A s \in Stores : \A a, b \in bucket[s] : a.at <= Now /\ (a.at = b.at => a.data = b.data)
        /\ \A c \in Clerks : Backing(c) =>
              clerk[c].at <= Now /\ \A a \in bucket[Store(c)] : a.at # clerk[c].at
        /\ \A c, d \in Clerks : Backing(c) /\ Backing(d) /\ Store(c) = Store(d)
                                /\ clerk[c].at = clerk[d].at => c = d
    BY DEF StampInv
  <1>1. ASSUME NEW s \in Stores, NEW a \in bucket'[s] PROVE a.at <= Now
    <2>1. CASE Old(s, a)
      BY <2>1, <1>i
    <2>2. CASE \E c \in Clerks : New(s, a, c)
      BY <2>2, <1>i, <1>t
    <2> QED
      BY <1>b, <2>1, <2>2
  <1>2. ASSUME NEW s \in Stores, NEW a \in bucket'[s], NEW b \in bucket'[s], a.at = b.at
        PROVE  a.data = b.data
    <2>1. CASE Old(s, a) /\ Old(s, b)
      BY <2>1, <1>2, <1>i
    <2>2. ASSUME NEW c \in Clerks, New(s, a, c), Old(s, b) PROVE FALSE
      BY <2>2, <1>2, <1>i, <1>t
    <2>3. ASSUME NEW c \in Clerks, New(s, b, c), Old(s, a) PROVE FALSE
      BY <2>3, <1>2, <1>i, <1>t
    <2>4. ASSUME NEW c \in Clerks, NEW d \in Clerks, New(s, a, c), New(s, b, d) PROVE a.data = b.data
      BY <2>4, <1>2, <1>i, <1>t
    <2> QED
      BY <1>b, <2>1, <2>2, <2>3, <2>4
  <1>3. ASSUME NEW c \in Clerks, Backing(c)'
        PROVE  clerk'[c].at <= Now' /\ \A a \in bucket'[Store(c)'] : a.at # clerk'[c].at
    <2>1. CASE Was(c)
      <3>1. clerk'[c].at <= Now'
        BY <2>1, <1>i, <1>n, <1>t
      <3>2. ASSUME NEW a \in bucket'[Store(c)], a.at = clerk[c].at PROVE FALSE
        <4>1. ~Old(Store(c), a)
          BY <2>1, <3>2, <1>i
        <4>2. PICK d \in Clerks : New(Store(c), a, d)
          BY <4>1, <2>1, <3>2, <1>b, <1>t
        <4>3. c = d
          BY <4>2, <2>1, <3>2, <1>i, <1>t
        <4> QED
          BY <4>2, <4>3, <2>1
      <3> QED
        BY <2>1, <3>1, <3>2
    <2>2. CASE Began(c)
      <3>1. \A a \in bucket'[Store(c)'] : a.at <= Now
        BY <1>3, <1>1, <1>t
      <3>2. \A a \in bucket'[Store(c)'] : a.at \in Nat
        BY <1>3, <1>t
      <3> QED
        BY <2>2, <3>1, <3>2, <1>n
    <2> QED
      BY <1>3, <1>c, <2>1, <2>2
  <1>4. ASSUME NEW c \in Clerks, NEW d \in Clerks, Backing(c)', Backing(d)', Store(c)' = Store(d)',
               clerk'[c].at = clerk'[d].at, c # d
        PROVE  FALSE
    <2>1. ASSUME NEW x \in Clerks, NEW y \in Clerks, x # y, Began(x), Backing(y)', clerk'[x].at = clerk'[y].at
          PROVE  FALSE
      <3>1. Backing(y) /\ clerk'[y].at = clerk[y].at
        BY <2>1 DEF Backing
      <3> QED
        BY <3>1, <2>1, <1>i, <1>n, <1>t
    <2>2. Was(c) /\ Was(d)
      BY <1>4, <1>c, <2>1
    <2> QED
      BY <1>4, <2>2, <1>i
  <1>5. \A s \in Stores : \A a, b \in bucket'[s] : a.at <= Now' /\ (a.at = b.at => a.data = b.data)
    <2>1. \A s \in Stores : \A a \in bucket'[s] : a.at <= Now'
      BY <1>1, <1>n, <1>t
    <2> QED
      BY <2>1, <1>2
  <1> QED
    BY <1>3, <1>4, <1>5 DEF StampInv

LEMMA NextWhole == BackupTyped /\ WholeInv /\ BackupNext => WholeInv'
  <1> SUFFICES ASSUME BackupTyped, WholeInv, BackupNext, NoneOf({"rot"})', NEW s \in Stores, NEW b \in bucket'[s]
               PROVE  b.whole
    BY DEF WholeInv
  <1>1. NoneOf({"rot"})
    BY BackupBefore DEF BackupTyped
  <1> QED
    BY <1>1, BucketMoves DEF WholeInv

-----------------------------------------------------------------------------
\* What is to be deleted has KeepLast newer backups in the bucket, which stay
\* there: other prunes delete none of the newest either.
NewerOf(archives, t) == {x \in {a.at : a \in archives} : x > t}

FloorInv == \A c \in Clerks : \A t \in clerk[c].list :
                Cardinality(NewerOf(bucket[Store(c)], t)) >= KeepLast

LEMMA NewerType ==
  ASSUME NEW B \in SUBSET Archive, NEW t
  PROVE  IsFiniteSet(NewerOf(B, t)) /\ Cardinality(NewerOf(B, t)) \in Nat
  <1>1. NewerOf(B, t) \in SUBSET Times
    BY DEF NewerOf, Archive
  <1>2. IsFiniteSet(Times)
    BY TimesType, FS_Interval
  <1> QED
    BY <1>1, <1>2, FS_Subset, FS_CardinalityType

LEMMA NewerGrows ==
  ASSUME NEW B \in SUBSET Archive, NEW C \in SUBSET Archive, NEW t, NEW u,
         NewerOf(B, t) \subseteq NewerOf(C, u), Cardinality(NewerOf(B, t)) >= KeepLast
  PROVE  Cardinality(NewerOf(C, u)) >= KeepLast
  <1> DEFINE S == NewerOf(B, t)
             T == NewerOf(C, u)
  <1>1. IsFiniteSet(T) /\ Cardinality(T) \in Nat /\ Cardinality(S) \in Nat
    BY NewerType
  <1>2. S \in SUBSET T /\ Cardinality(S) >= KeepLast
    OBVIOUS
  <1> HIDE DEF S, T
  <1>3. Cardinality(S) <= Cardinality(T)
    BY <1>1, <1>2, FS_Subset
  <1>4. Cardinality(T) >= KeepLast
    BY <1>1, <1>2, <1>3, TimesType
  <1> QED
    BY <1>4 DEF T

\* A prune deletes the newest of its list.
LEMMA DeletesNewest ==
  ASSUME BackupTyped, NEW c \in Clerks, DeleteBackup(c), bucket' # bucket
  PROVE  \E t \in clerk[c].list :
            /\ \A y \in clerk[c].list : y <= t
            /\ bucket' = [bucket EXCEPT ![Store(c)] = {a \in @ : a.at # t}]
            /\ clerk' = [clerk EXCEPT ![c].list = @ \ {t}]
  <1> DEFINE L == clerk[c].list
             t == CHOOSE x \in L : \A y \in L : y <= x
  <1>1. L \subseteq Times /\ L # {}
    BY DEF BackupTyped, BackupTypeOK, DeleteBackup
  <1>2. \E x \in L : \A y \in L : y <= x
    BY <1>1, TimesType, LargestNumber
  <1>3. t \in L /\ \A y \in L : y <= t
    BY <1>2
  <1>4. bucket' = [bucket EXCEPT ![Store(c)] = {a \in @ : a.at # t}] /\ clerk' = [clerk EXCEPT ![c].list = @ \ {t}]
    BY <1>1 DEF DeleteBackup
  <1> HIDE DEF t
  <1> QED
    BY <1>3, <1>4

\* What has KeepLast newer backups keeps them.
LEMMA FloorStays ==
  ASSUME BackupTyped, FloorInv, BackupNext, NEW s \in Stores, NEW t \in Nat,
         Cardinality(NewerOf(bucket[s], t)) >= KeepLast
  PROVE  Cardinality(NewerOf(bucket'[s], t)) >= KeepLast
  <1>t. /\ DOMAIN bucket = Stores /\ \A x \in Stores : bucket[x] \in SUBSET Archive
        /\ \A x \in Stores : bucket'[x] \in SUBSET Archive
        /\ Times \subseteq Nat
        /\ \A x \in Stores : \A a \in bucket[x] : a.at \in Nat
    <2>1. BackupTyped'
      BY NextBackupTyped
    <2> QED
      BY <2>1, TimesType DEF BackupTyped, BackupTypeOK, Archive
  <1>1. ASSUME NEW c \in Clerks, ClerkStep(c)
        PROVE  UNCHANGED bucket \/ UploadArchive(c) \/ DeleteBackup(c)
    BY <1>1 DEF ClerkStep, Dump, ListBackups, Download, Load, Extract, Promote,
       Clear, Fetch, Fill, Strip, ClerkFails, ClerkDies, files
  <1>2. CASE UNCHANGED bucket
    BY <1>2
  <1>3. CASE {a.at : a \in bucket[s]} \subseteq {a.at : a \in bucket'[s]}
    <2>1. NewerOf(bucket[s], t) \subseteq NewerOf(bucket'[s], t)
      BY <1>3 DEF NewerOf
    <2> QED
      BY <2>1, <1>t, NewerGrows
  <1>4. ASSUME NEW c \in Clerks, UploadArchive(c)
        PROVE  {a.at : a \in bucket[s]} \subseteq {a.at : a \in bucket'[s]}
    <2>1. bucket[s] \subseteq bucket'[s]
      BY <1>4, <1>t DEF UploadArchive
    <2> QED
      BY <2>1
  <1>5. ASSUME NEW x \in Stores, Spoil(x)
        PROVE  {a.at : a \in bucket[s]} \subseteq {a.at : a \in bucket'[s]}
    <2>1. PICK a \in bucket[x] : bucket' = [bucket EXCEPT ![x] = (@ \ {a}) \cup {[a EXCEPT !.whole = FALSE]}]
      BY <1>5 DEF Spoil
    <2> DEFINE w == [a EXCEPT !.whole = FALSE]
    <2>2. w.at = a.at
      BY <2>1, <1>t DEF Archive
    <2> HIDE DEF w
    <2>3. \A b \in bucket[s] : b \in bucket'[s] \/ (b = a /\ w \in bucket'[s])
      BY <2>1, <1>t DEF w
    <2> QED
      BY <2>2, <2>3
  <1>6. ASSUME NEW c \in Clerks, DeleteBackup(c), bucket' # bucket
        PROVE  Cardinality(NewerOf(bucket'[s], t)) >= KeepLast
    <2>1. PICK u \in clerk[c].list : bucket' = [bucket EXCEPT ![Store(c)] = {a \in @ : a.at # u}]
      BY <1>6, DeletesNewest
    <2>2. u \in Nat /\ Store(c) \in Stores
      <3>1. ClerkStep(c)
        BY <1>6 DEF ClerkStep
      <3> QED
        BY <3>1, <2>1, ClerkStepForm, <1>t DEF BackupTyped, BackupTypeOK
    <2>3. CASE s # Store(c)
      BY <2>1, <2>2, <2>3, <1>t
    <2>4. CASE s = Store(c) /\ u <= t
      <3>1. NewerOf(bucket[s], t) \subseteq NewerOf(bucket'[s], t)
        BY <2>1, <2>2, <2>4, <1>t DEF NewerOf
      <3> QED
        BY <3>1, <1>t, NewerGrows
    <2>5. CASE s = Store(c) /\ t < u
      <3>1. NewerOf(bucket[s], u) \subseteq NewerOf(bucket'[s], t)
        BY <2>1, <2>2, <2>5, <1>t DEF NewerOf
      <3>2. Cardinality(NewerOf(bucket[s], u)) >= KeepLast
        BY <2>1, <2>5 DEF FloorInv
      <3> QED
        BY <3>1, <3>2, <1>t, NewerGrows
    <2> QED
      BY <2>2, <2>3, <2>4, <2>5
  <1> QED
    BY <1>1, <1>2, <1>3, <1>4, <1>5, <1>6, BackupForms

LEMMA NextFloor == BackupTyped /\ FloorInv /\ BackupNext => FloorInv'
  <1> SUFFICES ASSUME BackupTyped, FloorInv, BackupNext, NEW c \in Clerks, NEW t \in clerk'[c].list
               PROVE  Cardinality(NewerOf(bucket'[Store(c)'], t)) >= KeepLast
    BY DEF FloorInv
  <1>t. /\ clerk \in [Clerks -> AClerk] /\ Times \subseteq Nat
        /\ \A x \in Clerks : clerk[x].list \subseteq Times
        /\ \A x \in Clerks : clerk[x].list # {} => Store(x) \in Stores
        /\ clerk'[c].list \subseteq Times
    <2>1. BackupTyped'
      BY NextBackupTyped
    <2> QED
      BY <2>1, TimesType DEF BackupTyped, BackupTypeOK, AClerk, GoodClerk, Store
  <1>1. CASE t \in clerk[c].list /\ Store(c)' = Store(c)
    BY <1>1, <1>t, FloorStays DEF FloorInv
  <1>2. ASSUME NEW d \in Clerks, ClerkStep(d), ~(t \in clerk[c].list /\ Store(c)' = Store(c))
        PROVE  ListBackups(c)
    <2>1. PICK x \in AClerk :
              /\ clerk' = [clerk EXCEPT ![d] = x]
              /\ x.store = clerk[d].store
              /\ x.list # {} => ListBackups(d) \/ DeleteBackup(d)
      BY <1>2, ClerkStepForm
    <2>2. clerk'[d] = x /\ \A y \in Clerks \ {d} : clerk'[y] = clerk[y]
      BY <2>1, <1>t
    <2>3. c = d /\ t \notin clerk[c].list
      BY <1>2, <2>1, <2>2 DEF Store
    <2>4. ~DeleteBackup(c)
      <3>1. SUFFICES ASSUME DeleteBackup(c) PROVE x.list \subseteq clerk[c].list
        BY <2>2, <2>3
      <3> DEFINE u == CHOOSE z \in clerk[c].list : \A y \in clerk[c].list : y <= z
      <3>2. ClerkEnds(c, "complete") \/ clerk' = [clerk EXCEPT ![c].list = @ \ {u}]
        BY <3>1 DEF DeleteBackup
      <3> HIDE DEF u
      <3>3. CASE ClerkEnds(c, "complete")
        <4>1. clerk'[c].list = {}
          BY <3>3, <1>t DEF ClerkEnds, NoClerk
        <4> QED
          BY <4>1, <2>2, <2>3
      <3>4. CASE clerk' = [clerk EXCEPT ![c].list = @ \ {u}]
        <4>1. clerk'[c].list = clerk[c].list \ {u}
          BY <3>4, <1>t DEF AClerk
        <4> QED
          BY <4>1, <2>2, <2>3
      <3> QED
        BY <3>2, <3>3, <3>4
    <2> QED
      BY <2>1, <2>2, <2>3, <2>4
  <1>3. CASE ListBackups(c)
    <2>1. clerk'[c].list = SelectForDeletion({a.at : a \in bucket[Store(c)]}) /\ Store(c)' = Store(c)
          /\ bucket' = bucket
      BY <1>3, <1>t DEF ListBackups, AClerk, Store
    <2>2. NewerOf(bucket[Store(c)], t) = {x \in {a.at : a \in bucket[Store(c)]} : x > t}
      BY DEF NewerOf
    <2> QED
      BY <2>1, <2>2 DEF SelectForDeletion
  <1>4. ASSUME NEW d \in Clerks, NEW s \in Stores, Starting(d, s)
        PROVE  t \in clerk[c].list /\ Store(c)' = Store(c)
    <2>1. PICK x \in AClerk : clerk' = [clerk EXCEPT ![d] = x] /\ x.list = {}
      BY <1>4, StartForm
    <2>2. clerk'[d] = x /\ \A y \in Clerks \ {d} : clerk'[y] = clerk[y]
      BY <2>1, <1>t
    <2> QED
      BY <2>1, <2>2 DEF Store
  <1>5. CASE UNCHANGED clerk
    BY <1>5, <1>1 DEF Store
  <1> QED
    BY <1>1, <1>2, <1>3, <1>4, <1>5, BackupForms DEF Spoil

\* No backup is deleted unless KeepLast newer ones stay.
LEMMA StepKeepsFloor ==
  ASSUME BackupTyped, FloorInv, BackupNext
  PROVE  FloorKept
  <1> SUFFICES ASSUME NEW s \in Stores, NEW a \in bucket[s], a.at \notin {b.at : b \in bucket'[s]}
               PROVE  Cardinality({t \in {b.at : b \in bucket'[s]} : t > a.at}) >= KeepLast
    BY DEF FloorKept
  <1>t. DOMAIN bucket = Stores /\ \A x \in Stores : bucket[x] \subseteq Archive /\ Times \subseteq Nat
    BY TimesType DEF BackupTyped, BackupTypeOK
  <1>1. ASSUME NEW c \in Clerks, ClerkStep(c)
        PROVE  UNCHANGED bucket \/ UploadArchive(c) \/ DeleteBackup(c)
    BY <1>1 DEF ClerkStep, Dump, ListBackups, Download, Load, Extract, Promote,
       Clear, Fetch, Fill, Strip, ClerkFails, ClerkDies, files
  <1>2. ASSUME NEW c \in Clerks, UploadArchive(c) PROVE FALSE
    BY <1>2, <1>t DEF UploadArchive
  <1>3. ASSUME NEW x \in Stores, Spoil(x) PROVE FALSE
    <2>1. PICK b \in bucket[x] : bucket' = [bucket EXCEPT ![x] = (@ \ {b}) \cup {[b EXCEPT !.whole = FALSE]}]
      BY <1>3 DEF Spoil
    <2> DEFINE w == [b EXCEPT !.whole = FALSE]
    <2>2. w.at = b.at
      BY <2>1, <1>t DEF Archive
    <2> HIDE DEF w
    <2>3. a \in bucket'[s] \/ (a = b /\ w \in bucket'[s])
      BY <2>1, <1>t DEF w
    <2> QED
      BY <2>2, <2>3
  <1>4. PICK c \in Clerks : DeleteBackup(c) /\ bucket' # bucket
    BY <1>1, <1>2, <1>3, BackupForms
  <1>5. PICK u \in clerk[c].list : bucket' = [bucket EXCEPT ![Store(c)] = {x \in @ : x.at # u}]
    BY <1>4, DeletesNewest
  <1>6. s = Store(c) /\ a.at = u
    BY <1>5, <1>t
  <1>7. Cardinality(NewerOf(bucket[s], u)) >= KeepLast
    BY <1>5, <1>6 DEF FloorInv
  <1>8. u \in Nat
    BY <1>6, <1>t DEF Archive
  <1>9. Cardinality(NewerOf(bucket'[s], u)) >= KeepLast
    BY <1>7, <1>8, FloorStays
  <1> QED
    BY <1>6, <1>9 DEF NewerOf

-----------------------------------------------------------------------------
\* As long as no two restores share a file and no two verifications a store:
\* what a command has fetched is what the bucket has, or had, under its date.
Dated(s, t, x) ==
    /\ t <= Now /\ \A a \in bucket[s] : a.at = t => a.data = x
    /\ \A c \in Clerks : Backing(c) /\ Store(c) = s => clerk[c].at # t

HasInHand(c, f) == Dated(Store(c), clerk[c].at, f.data) /\ (NoneOf({"rot"}) => f.whole)

NoRivals == \A c, d \in Clerks :
    c # d /\ ~ClerkAt(c, "idle") /\ ~ClerkAt(d, "idle") /\ clerk[c].op = clerk[d].op =>
        /\ clerk[c].op = "restore" => LoadPath(Store(c)) # LoadPath(Store(d))
        /\ clerk[c].op = "verify" => Store(c) # Store(d)

CopyOf(c) ==
    /\ clerk[c].pc \in {"load", "extract"} => HasInHand(c, loadTmp[LoadPath(Store(c))])
    /\ ClerkAt(c, "promote") => Dated(Store(c), clerk[c].at, stage[Store(c)])
    /\ ClerkAt(c, "fill") => HasInHand(c, proofTmp[Store(c)])

CopyInv == NoneOf({"race"}) => NoRivals /\ \A c \in Clerks : CopyOf(c)

BackupInv == BackupTyped /\ StampInv /\ WholeInv /\ FloorInv /\ CopyInv

LEMMA InitBackup == BackupInit /\ LuckTypeOK => BackupInv
  <1> SUFFICES ASSUME BackupInit, LuckTypeOK PROVE BackupInv
    OBVIOUS
  <1>1. \A c \in Clerks : clerk[c].pc = "idle" /\ clerk[c].list = {}
    BY DEF BackupInit, NoClerk
  <1>2. Now \in Nat /\ Older <= Now
    BY TimesType DEF Now, LuckTypeOK
  <1>3. \A s \in Stores : \A a \in bucket[s] :
           a.at \in 1..Older /\ a.data = [of |-> s, num |-> a.at] /\ a.whole
    BY DEF BackupInit
  <1>4. \A s \in Stores : \A a, b \in bucket[s] : a.at <= Now /\ (a.at = b.at => a.data = b.data)
    <2>1. \A s \in Stores : \A a \in bucket[s] : a.at <= Now
      <3>1. \A t \in 1..Older : t <= Now
        BY <1>2, TimesType
      <3> QED
        BY <1>3, <3>1
    <2>2. \A s \in Stores : \A a, b \in bucket[s] : a.at = b.at => a.data = b.data
      BY <1>3
    <2> QED
      BY <2>1, <2>2
  <1>6. StampInv /\ WholeInv
    BY <1>1, <1>3, <1>4 DEF StampInv, WholeInv, Backing
  <1>5. FloorInv /\ CopyInv
    BY <1>1 DEF FloorInv, CopyInv, NoRivals, CopyOf, ClerkAt
  <1> QED
    BY <1>5, <1>6, InitBackupTyped DEF BackupInv

\* What has a date keeps it.
LEMMA DatedStays ==
  ASSUME BackupTyped, BackupNext, NEW s \in Stores, NEW t \in Nat, NEW x, Dated(s, t, x)
  PROVE  /\ t <= Now'
         /\ \A a \in bucket'[s] : a.at = t => a.data = x
         /\ \A c \in Clerks : Backing(c)' /\ Store(c)' = s => clerk'[c].at # t
  <1>n. Now \in Nat /\ Now' \in Nat /\ Now <= Now'
    BY NowType DEF BackupTyped
  <1>1. ASSUME NEW b \in bucket'[s], b.at = t PROVE b.data = x
    <2>1. ASSUME NEW c \in Clerks, UploadArchive(c) PROVE Backing(c)
      BY <2>1 DEF UploadArchive, Backing, ClerkAt
    <2> QED
      BY <2>1, <1>1, BucketMoves DEF Dated
  <1>2. ASSUME NEW c \in Clerks, Backing(c)', Store(c)' = s PROVE clerk'[c].at # t
    BY <1>2, <1>n, BackingMoves DEF Dated
  <1> QED
    BY <1>1, <1>2, <1>n DEF Dated

\* A command that goes on with what it has in hand has the copy of that date.
LEMMA CopyStays ==
  ASSUME BackupTyped, BackupNext, NEW c \in Clerks, clerk'[c] = clerk[c], CopyOf(c),
         clerk[c].pc \in {"load", "extract"} =>
            loadTmp'[LoadPath(Store(c))] = loadTmp[LoadPath(Store(c))],
         ClerkAt(c, "promote") => stage'[Store(c)] = stage[Store(c)],
         ClerkAt(c, "fill") => proofTmp'[Store(c)] = proofTmp[Store(c)]
  PROVE  CopyOf(c)'
  <1>1. CASE clerk[c].pc \notin {"load", "extract", "promote", "fill"}
    BY <1>1 DEF CopyOf, ClerkAt
  <1>2. CASE clerk[c].pc \in {"load", "extract", "promote", "fill"}
    <2>1. Store(c) \in Stores /\ clerk[c].at \in Nat /\ Store(c)' = Store(c)
      BY <1>2, TypedDates DEF BackupTyped, GoodClerk, DatesTyped, Store
    <2>2. NoneOf({"rot"})' => NoneOf({"rot"})
      BY BackupBefore DEF BackupTyped
    <2>3. ASSUME NEW x, Dated(Store(c), clerk[c].at, x)
          PROVE  /\ clerk[c].at <= Now'
                 /\ \A a \in bucket'[Store(c)] : a.at = clerk[c].at => a.data = x
                 /\ \A d \in Clerks : Backing(d)' /\ Store(d)' = Store(c) => clerk'[d].at # clerk[c].at
      BY <2>1, <2>3, DatedStays
    <2>4. CASE clerk[c].pc \in {"load", "extract"}
      <3> DEFINE f == loadTmp[LoadPath(Store(c))]
      <3>1. Dated(Store(c), clerk[c].at, f.data) /\ (NoneOf({"rot"}) => f.whole)
        BY <2>4 DEF CopyOf, HasInHand
      <3>2. loadTmp'[LoadPath(Store(c)')] = f
        BY <2>1, <2>4
      <3> HIDE DEF f
      <3>3. HasInHand(c, loadTmp[LoadPath(Store(c))])'
        BY <3>1, <3>2, <2>1, <2>2, <2>3 DEF HasInHand, Dated, LoadPath
      <3> QED
        BY <3>3, <2>4 DEF CopyOf, ClerkAt
    <2>5. CASE clerk[c].pc = "promote"
      <3>1. Dated(Store(c), clerk[c].at, stage[Store(c)]) /\ stage'[Store(c)'] = stage[Store(c)]
        BY <2>1, <2>5 DEF CopyOf, ClerkAt
      <3>2. Dated(Store(c), clerk[c].at, stage[Store(c)])'
        BY <3>1, <2>1, <2>3 DEF Dated
      <3> QED
        BY <3>2, <2>5 DEF CopyOf, ClerkAt
    <2>6. CASE clerk[c].pc = "fill"
      <3> DEFINE f == proofTmp[Store(c)]
      <3>1. Dated(Store(c), clerk[c].at, f.data) /\ (NoneOf({"rot"}) => f.whole)
        BY <2>6 DEF CopyOf, HasInHand, ClerkAt
      <3>2. proofTmp'[Store(c)'] = f
        BY <2>1, <2>6 DEF ClerkAt
      <3> HIDE DEF f
      <3>3. HasInHand(c, proofTmp[Store(c)])'
        BY <3>1, <3>2, <2>1, <2>2, <2>3 DEF HasInHand, Dated
      <3> QED
        BY <3>3, <2>6 DEF CopyOf, ClerkAt
    <2> QED
      BY <1>2, <2>4, <2>5, <2>6
  <1> QED
    BY <1>1, <1>2

\* What a command has just fetched from the bucket is the copy of its date.
LEMMA FetchedIsDated ==
  ASSUME BackupTyped, StampInv, WholeInv, BackupNext, NEW c \in Clerks, NEW a \in Fetched(c),
         clerk[c].pc # "idle", Store(c)' = Store(c), clerk'[c].at = clerk[c].at
  PROVE  Dated(Store(c), clerk[c].at, a.data)' /\ (NoneOf({"rot"})' => a.whole)
  <1>1. Store(c) \in Stores /\ clerk[c].at \in Nat /\ a \in bucket[Store(c)] /\ a.at = clerk[c].at
    BY TypedDates DEF BackupTyped, GoodClerk, DatesTyped, Store, Fetched
  <1>2. Dated(Store(c), clerk[c].at, a.data)
    BY <1>1 DEF StampInv, Dated
  <1>3. /\ clerk[c].at <= Now'
        /\ \A b \in bucket'[Store(c)] : b.at = clerk[c].at => b.data = a.data
        /\ \A d \in Clerks : Backing(d)' /\ Store(d)' = Store(c) => clerk'[d].at # clerk[c].at
    BY <1>1, <1>2, DatedStays
  <1>4. NoneOf({"rot"})' => a.whole
    BY <1>1, BackupBefore DEF BackupTyped, WholeInv
  <1> QED
    BY <1>3, <1>4 DEF Dated

LEMMA NextCopy ==
  ASSUME BackupTyped, StampInv, WholeInv, CopyInv, BackupNext, NoneOf({"race"})'
  PROVE  NoRivals' /\ \A c \in Clerks : CopyOf(c)'
  <1>i. NoRivals /\ \A c \in Clerks : CopyOf(c)
    BY BackupBefore DEF BackupTyped, CopyInv
  <1>t. /\ clerk \in [Clerks -> AClerk] /\ DOMAIN loadTmp = LoadPaths
        /\ loadTmp \in [LoadPaths -> Archive]
        /\ stage \in [Stores -> Contents \cup {Useless}] /\ proofTmp \in [Stores -> Archive]
        /\ \A c \in Clerks : GoodClerk(clerk[c])
    BY DEF BackupTyped, BackupTypeOK, AClerk
  <1>1. ASSUME NEW d \in Clerks, ClerkStep(d)
        PROVE  NoRivals' /\ \A c \in Clerks : CopyOf(c)'
    <2>1. PICK x \in AClerk :
              /\ clerk' = [clerk EXCEPT ![d] = x]
              /\ x.op = clerk[d].op /\ x.store = clerk[d].store /\ x.at = clerk[d].at
      BY <1>1, ClerkStepForm
    <2>2. clerk'[d] = x /\ \A y \in Clerks \ {d} : clerk'[y] = clerk[y]
      BY <2>1, <1>t
    <2>3. clerk[d].pc # "idle" /\ Store(d) \in Stores /\ Store(d)' = Store(d) /\ clerk'[d].at = clerk[d].at
      BY <1>1, <2>1, <2>2, ClerkStepForm DEF Store
    <2>4. LoadPath(Store(d)) \in LoadPaths
      BY <2>3, BackupsAssumption DEF LoadPath, LoadPaths
    <2>5. \A c \in Clerks : /\ clerk'[c].op = clerk[c].op /\ Store(c)' = Store(c)
                            /\ ~ClerkAt(c, "idle")' => ~ClerkAt(c, "idle")
      BY <2>1, <2>2, <2>3 DEF ClerkAt, Store
    <2>6. NoRivals'
      BY <2>5, <1>i DEF NoRivals, LoadPath
    <2>7. ASSUME NEW c \in Clerks \ {d} PROVE CopyOf(c)'
      <3>1. clerk'[c] = clerk[c]
        BY <2>2
      <3>0. clerk[c].pc # "idle" => Store(c) \in Stores /\ LoadPath(Store(c)) \in LoadPaths
        BY <1>t, BackupsAssumption DEF GoodClerk, Store, LoadPath, LoadPaths
      <3>2. ASSUME clerk[c].pc \in {"load", "extract"}
            PROVE  loadTmp'[LoadPath(Store(c))] = loadTmp[LoadPath(Store(c))]
        <4>1. CASE Download(d) \/ Load(d) \/ Clear(d)
          <5>1. clerk[d].op = "restore" /\ clerk[c].op = "restore" /\ (Load(d) => LoadPath(Store(d)) = "sql")
            BY <3>2, <4>1, <1>t DEF GoodClerk, Download, Load, Clear, ClerkAt, LoadPath, Store
          <5>2. LoadPath(Store(c)) # LoadPath(Store(d))
            BY <5>1, <3>2, <2>3, <1>i DEF NoRivals, ClerkAt
          <5>3. UNCHANGED loadTmp \/ \E a : loadTmp' = [loadTmp EXCEPT ![LoadPath(Store(d))] = a]
            BY <4>1, <5>1 DEF Download, Load, Clear
          <5> QED
            BY <5>2, <5>3, <2>4, <3>0, <3>2, <1>t
        <4>2. CASE ~(Download(d) \/ Load(d) \/ Clear(d))
          BY <4>2, <1>1 DEF ClerkStep, Dump, UploadArchive, ListBackups, DeleteBackup, Extract, Promote,
             Fetch, Fill, Strip, ClerkFails, ClerkDies, files
        <4> QED
          BY <4>1, <4>2
      <3>3. ASSUME ClerkAt(c, "promote") PROVE stage'[Store(c)] = stage[Store(c)]
        <4>1. CASE Extract(d) \/ Clear(d)
          <5>1. clerk[d].op = "restore" /\ clerk[c].op = "restore"
            BY <3>3, <4>1, <1>t DEF GoodClerk, Extract, Clear, ClerkAt
          <5>2. Store(c) # Store(d)
            BY <5>1, <3>3, <2>3, <1>i DEF NoRivals, ClerkAt
          <5>3. UNCHANGED stage \/ \E a : stage' = [stage EXCEPT ![Store(d)] = a]
            BY <4>1 DEF Extract, Clear
          <5> QED
            BY <5>2, <5>3, <2>3, <3>0, <3>3, <1>t DEF ClerkAt
        <4>2. CASE ~(Extract(d) \/ Clear(d))
          BY <4>2, <1>1 DEF ClerkStep, Dump, UploadArchive, ListBackups, DeleteBackup, Download, Load, Promote,
             Fetch, Fill, Strip, ClerkFails, ClerkDies, files
        <4> QED
          BY <4>1, <4>2
      <3>4. ASSUME ClerkAt(c, "fill") PROVE proofTmp'[Store(c)] = proofTmp[Store(c)]
        <4>1. CASE Fetch(d) \/ Strip(d)
          <5>1. clerk[d].op = "verify" /\ clerk[c].op = "verify"
            BY <3>4, <4>1, <1>t DEF GoodClerk, Fetch, Strip, ClerkAt
          <5>2. Store(c) # Store(d)
            BY <5>1, <3>4, <2>3, <1>i DEF NoRivals, ClerkAt
          <5>3. UNCHANGED proofTmp \/ \E a : proofTmp' = [proofTmp EXCEPT ![Store(d)] = a]
            BY <4>1 DEF Fetch, Strip
          <5> QED
            BY <5>2, <5>3, <2>3, <3>0, <3>4, <1>t DEF ClerkAt
        <4>2. CASE ~(Fetch(d) \/ Strip(d))
          BY <4>2, <1>1 DEF ClerkStep, Dump, UploadArchive, ListBackups, DeleteBackup, Download, Load, Promote,
             Extract, Clear, Fill, ClerkFails, ClerkDies, files
        <4> QED
          BY <4>1, <4>2
      <3> QED
        BY <3>1, <3>2, <3>3, <3>4, <1>i, CopyStays
    <2>8. CopyOf(d)'
      <3>1. CASE Download(d)
        <4>1. CASE Fetched(d) = {}
          <5>1. ClerkEnds(d, "nothing")
            BY <3>1, <4>1 DEF Download
          <5>2. clerk'[d].pc = "idle"
            BY <5>1, <1>t DEF ClerkEnds, NoClerk
          <5> QED
            BY <5>2 DEF CopyOf, ClerkAt
        <4>2. CASE Fetched(d) # {}
          <5>1. PICK a \in Fetched(d) : loadTmp' = [loadTmp EXCEPT ![LoadPath(Store(d))] = a]
            BY <3>1, <4>2 DEF Download
          <5>2. Dated(Store(d), clerk[d].at, a.data)' /\ (NoneOf({"rot"})' => a.whole)
            BY <2>3, FetchedIsDated
          <5>3. loadTmp'[LoadPath(Store(d)')] = a
            BY <5>1, <2>3, <2>4, <1>t
          <5>4. HasInHand(d, loadTmp[LoadPath(Store(d))])'
            BY <5>2, <5>3 DEF HasInHand, LoadPath
          <5>5. clerk'[d].pc \in {"load", "extract"}
            BY <3>1, <4>2, <1>t DEF Download, ClerkGo, AClerk
          <5> QED
            BY <5>4, <5>5 DEF CopyOf, ClerkAt
        <4> QED
          BY <4>1, <4>2
      <3>2. CASE Extract(d)
        <4> DEFINE f == loadTmp[LoadPath(Store(d))]
        <4>1. clerk'[d].pc = IF f.whole THEN "promote" ELSE "clear"
          BY <3>2, <1>t DEF Extract, ClerkGo, AClerk
        <4>2. CASE f.whole
          <5>1. Dated(Store(d), clerk[d].at, f.data)
            BY <3>2, <1>i DEF Extract, CopyOf, HasInHand, ClerkAt
          <5>2. stage'[Store(d)'] = f.data
            BY <3>2, <4>2, <2>3, <1>t DEF Extract
          <5>3. clerk[d].at \in Nat
            BY TypedDates DEF DatesTyped
          <5> HIDE DEF f
          <5>4. /\ clerk[d].at <= Now'
                /\ \A b \in bucket'[Store(d)] : b.at = clerk[d].at => b.data = f.data
                /\ \A c \in Clerks : Backing(c)' /\ Store(c)' = Store(d) => clerk'[c].at # clerk[d].at
            BY <5>1, <5>3, <2>3, DatedStays
          <5>5. Dated(Store(d), clerk[d].at, stage[Store(d)])'
            BY <5>2, <5>4, <2>3 DEF Dated
          <5>6. clerk'[d].pc = "promote"
            BY <4>1, <4>2
          <5> QED
            BY <5>5, <5>6 DEF CopyOf, ClerkAt
        <4>3. CASE ~f.whole
          <5>1. clerk'[d].pc = "clear"
            BY <4>1, <4>3
          <5> QED
            BY <5>1 DEF CopyOf, ClerkAt
        <4> QED
          BY <4>2, <4>3
      <3>3. CASE Fetch(d)
        <4>1. CASE Fetched(d) = {}
          <5>1. clerk'[d].pc = "strip"
            BY <3>3, <4>1, <1>t DEF Fetch, AClerk
          <5> QED
            BY <5>1 DEF CopyOf, ClerkAt
        <4>2. CASE Fetched(d) # {}
          <5>1. PICK a \in Fetched(d) : proofTmp' = [proofTmp EXCEPT ![Store(d)] = a]
            BY <3>3, <4>2 DEF Fetch
          <5>2. Dated(Store(d), clerk[d].at, a.data)' /\ (NoneOf({"rot"})' => a.whole)
            BY <2>3, FetchedIsDated
          <5>3. proofTmp'[Store(d)'] = a
            BY <5>1, <2>3, <1>t
          <5>4. HasInHand(d, proofTmp[Store(d)])'
            BY <5>2, <5>3 DEF HasInHand
          <5>5. clerk'[d].pc = "fill"
            BY <3>3, <4>2, <1>t DEF Fetch, ClerkGo, AClerk
          <5> QED
            BY <5>4, <5>5 DEF CopyOf, ClerkAt
        <4> QED
          BY <4>1, <4>2
      <3>4. CASE ~(Download(d) \/ Extract(d) \/ Fetch(d))
        <4>1. ASSUME NEW said, ClerkEnds(d, said) PROVE clerk'[d].pc = "idle"
          BY <4>1, <1>t DEF ClerkEnds, NoClerk
        <4>2. \A l : ClerkGo(d, l) => clerk'[d].pc = l
          BY <1>t DEF ClerkGo, AClerk
        <4>3. CASE Dump(d) \/ ListBackups(d) \/ Promote(d) \/ Fill(d)
          <5>1. clerk'[d].pc \in {"upload", "delete", "clear", "strip"}
            BY <4>2, <4>3, <1>t DEF Dump, ListBackups, Promote, Fill, AClerk
          <5> QED
            BY <5>1 DEF CopyOf, ClerkAt
        <4>4. CASE DeleteBackup(d)
          <5> DEFINE t == CHOOSE z \in clerk[d].list : \A y \in clerk[d].list : y <= z
          <5>1. ClerkEnds(d, "complete") \/ clerk' = [clerk EXCEPT ![d].list = @ \ {t}]
            BY <4>4 DEF DeleteBackup
          <5> HIDE DEF t
          <5>2. clerk'[d].pc \in {"idle", "delete"}
            BY <4>1, <4>4, <5>1, <1>t DEF DeleteBackup, ClerkAt, AClerk
          <5> QED
            BY <5>2 DEF CopyOf, ClerkAt
        <4>5. CASE UploadArchive(d) \/ Load(d) \/ Clear(d) \/ Strip(d) \/ ClerkFails(d) \/ ClerkDies(d)
          <5>1. clerk'[d].pc \in {"idle", "list"}
            BY <4>1, <4>2, <4>5 DEF UploadArchive, Load, Clear, Strip, ClerkFails, ClerkDies
          <5> QED
            BY <5>1 DEF CopyOf, ClerkAt
        <4> QED
          BY <1>1, <3>4, <4>3, <4>4, <4>5 DEF ClerkStep
      <3> QED
        BY <3>1, <3>2, <3>3, <3>4
    <2> QED
      BY <2>6, <2>7, <2>8
  <1>2. ASSUME NEW d \in Clerks, NEW s \in Stores, Starting(d, s), UNCHANGED <<loadTmp, stage, proofTmp>>
        PROVE  NoRivals' /\ \A c \in Clerks : CopyOf(c)'
    <2>1. PICK x \in AClerk :
              /\ clerk' = [clerk EXCEPT ![d] = x]
              /\ x.store = s
              /\ x.pc \in {"dump", "list", "download", "fetch"}
              /\ BeginAs(IF Rivals(x.op, s) THEN {"race"} ELSE {})
      BY <1>2, StartForm
    <2>2. clerk'[d] = x /\ \A y \in Clerks \ {d} : clerk'[y] = clerk[y]
      BY <2>1, <1>t
    <2>3. ~Rivals(x.op, s)
      <3>1. CASE BeginAs({"race"})
        <4> DEFINE X == {"race"}
        <4>1. "race" \in MishapKinds \cap X /\ NoneOf(X)'
          BY DEF MishapKinds
        <4> HIDE DEF X
        <4> QED
          BY <4>1, <3>1, NotOfKind DEF BackupTyped
      <3> QED
        BY <2>1, <3>1
    <2>4. \A c \in Clerks \ {d} : Store(c)' = Store(c) /\ (ClerkAt(c, "idle")' <=> ClerkAt(c, "idle"))
                                 /\ clerk'[c].op = clerk[c].op
      BY <2>2 DEF Store, ClerkAt
    <2>5. Store(d)' = s /\ clerk'[d].op = x.op
      BY <2>1, <2>2 DEF Store
    <2>6. \A c \in Clerks : ~ClerkAt(c, "idle") /\ clerk[c].op = x.op =>
             /\ x.op = "restore" => LoadPath(Store(c)) # LoadPath(s)
             /\ x.op = "verify" => Store(c) # s
      BY <2>3 DEF Rivals
    <2>7. NoRivals'
      BY <2>4, <2>5, <2>6, <1>i DEF NoRivals, LoadPath
    <2>8. ASSUME NEW c \in Clerks \ {d} PROVE CopyOf(c)'
      BY <1>2, <2>2, <1>i, CopyStays
    <2>9. CopyOf(d)'
      BY <2>1, <2>2 DEF CopyOf, ClerkAt
    <2> QED
      BY <2>7, <2>8, <2>9
  <1>3. CASE UNCHANGED <<clerk, loadTmp, stage, proofTmp>>
    <2>1. NoRivals'
      BY <1>3, <1>i DEF NoRivals, ClerkAt, Store
    <2>2. ASSUME NEW c \in Clerks PROVE CopyOf(c)'
      BY <1>3, <1>i, CopyStays
    <2> QED
      BY <2>1, <2>2
  <1> QED
    BY <1>1, <1>2, <1>3, BackupForms DEF Spoil, files

LEMMA NextBackup == BackupInv /\ BackupNext => BackupInv'
  BY NextBackupTyped, NextStamp, NextWhole, NextFloor, NextCopy DEF BackupInv, CopyInv

\* A restore that says it is complete, from a copy that was whole, has put into
\* the store what the bucket has under the date.
LEMMA RestoreIsTrue ==
  ASSUME BackupInv, BackupNext
  PROVE  RestoreSaysTrue
  <1> SUFFICES ASSUME NoneOf({"race"}), luck' = luck, NEW c \in Clerks
               PROVE  /\ clerk[c].op = "restore" /\ clerk'[c].said = "complete" /\ clerk[c].said # "complete"
                         /\ (Style[Store(c)] = "sql" => NoneOf({"rot"}) /\ held[Store(c)] = Blank)
                         => \A a \in Fetched(c) : held'[Store(c)] = a.data
                      /\ ClerkAt(c, "extract") /\ clerk'[c] # clerk[c] => held' = held
    BY DEF RestoreSaysTrue
  <1>t. /\ clerk \in [Clerks -> AClerk] /\ held \in [Stores -> Contents \cup {Useless}]
        /\ GoodClerk(clerk[c]) /\ BackupTyped
    BY DEF BackupInv, BackupTyped, BackupTypeOK, AClerk
  <1>n. \A k : ~Mishap(k)
    <2>1. luck.left \in Nat /\ DOMAIN luck = {"ops", "left", "had"}
      BY <1>t, MishapsAssumption DEF BackupTyped, LuckTypeOK
    <2>2. ASSUME NEW k, Mishap(k) PROVE luck'.left = luck.left - 1
      BY <2>1, <2>2 DEF Mishap, MishapAs
    <2> QED
      BY <2>1, <2>2
  <1>o. ASSUME clerk'[c] # clerk[c], ~ClerkStep(c)
        PROVE  clerk'[c].said = "nothing" /\ clerk[c].pc = "idle"
    <2>1. ASSUME NEW d \in Clerks, ClerkStep(d) PROVE FALSE
      <3>1. \E x \in AClerk : clerk' = [clerk EXCEPT ![d] = x]
        BY <2>1, <1>t, ClerkStepForm
      <3> QED
        BY <3>1, <2>1, <1>o, <1>t
    <2>2. ASSUME NEW d \in Clerks, NEW s \in Stores, Starting(d, s)
          PROVE  clerk'[c].said = "nothing" /\ clerk[c].pc = "idle"
      <3>1. clerk[d].pc = "idle" /\ \E x \in AClerk : clerk' = [clerk EXCEPT ![d] = x] /\ x.said = "nothing"
        BY <2>2, <1>t, StartForm
      <3> QED
        BY <3>1, <1>o, <1>t
    <2> QED
      BY <2>1, <2>2, <1>o, <1>t, BackupForms DEF Spoil
  <1>1. ASSUME clerk[c].op = "restore", clerk'[c].said = "complete", clerk[c].said # "complete",
               Style[Store(c)] = "sql" => NoneOf({"rot"}) /\ held[Store(c)] = Blank, NEW a \in Fetched(c)
        PROVE  held'[Store(c)] = a.data
    <2>1. ClerkStep(c)
      BY <1>1, <1>o
    <2>2. Store(c) \in Stores /\ clerk[c].pc # "idle"
      BY <2>1, <1>t, ClerkStepForm
    <2>3. a \in bucket[Store(c)] /\ a.at = clerk[c].at
      BY DEF Fetched
    <2>4. \A x : Dated(Store(c), clerk[c].at, x) => a.data = x
      BY <2>3 DEF Dated
    <2>5. CopyOf(c)
      BY DEF BackupInv, CopyInv
    <2>6. CASE Load(c)
      <3> DEFINE f == loadTmp["sql"]
      <3>1. clerk[c].pc = "load" /\ Style[Store(c)] = "sql"
        BY <2>6, <1>t DEF Load, GoodClerk, Store, ClerkAt
      <3>2. f.data = a.data /\ f.whole
        BY <3>1, <2>4, <2>5, <1>1 DEF CopyOf, HasInHand, LoadPath
      <3>3. f # NoArchive
        BY <3>2 DEF NoArchive
      <3>4. held' = [held EXCEPT ![Store(c)] = f.data]
        <4>1. Loaded(held[Store(c)], f) = {f.data}
          BY <3>1, <3>2, <3>3, <1>1 DEF Loaded
        <4>2. \E d \in Loaded(held[Store(c)], f) : held' = [held EXCEPT ![Store(c)] = d]
          BY <2>6, <1>n DEF Load
        <4> HIDE DEF f
        <4> QED
          BY <4>1, <4>2
      <3> QED
        BY <3>2, <3>4, <2>2, <1>t
    <2>7. CASE Promote(c)
      <3>1. stage[Store(c)] = a.data
        BY <2>7, <2>4, <2>5 DEF CopyOf, Promote
      <3>2. held' = [held EXCEPT ![Store(c)] = stage[Store(c)]]
        BY <2>7, <1>n DEF Promote
      <3> QED
        BY <3>1, <3>2, <2>2, <1>t
    <2>8. CASE Dump(c) \/ UploadArchive(c) \/ ListBackups(c) \/ DeleteBackup(c) \/ Fetch(c) \/ Fill(c) \/ Strip(c)
      BY <2>8, <1>1, <1>t DEF GoodClerk, Dump, UploadArchive, ListBackups, DeleteBackup, Fetch, Fill, Strip, ClerkAt
    <2>9. CASE Download(c) \/ Extract(c) \/ Clear(c)
      <3>1. (\E l : ClerkGo(c, l)) \/ ClerkEnds(c, "nothing") \/ ClerkEnds(c, clerk[c].said)
        BY <2>9 DEF Download, Extract, Clear
      <3>2. clerk'[c].said \in {clerk[c].said, "nothing"}
        BY <3>1, <1>t DEF ClerkGo, ClerkEnds, NoClerk, AClerk
      <3> QED
        BY <3>2, <1>1
    <2>10. CASE ClerkFails(c) \/ ClerkDies(c)
      BY <2>10, <1>n DEF ClerkFails, ClerkDies
    <2> QED
      BY <2>1, <2>6, <2>7, <2>8, <2>9, <2>10 DEF ClerkStep
  <1>2. ASSUME ClerkAt(c, "extract"), clerk'[c] # clerk[c] PROVE held' = held
    <2>1. ClerkStep(c)
      BY <1>2, <1>o DEF ClerkAt
    <2> QED
      BY <2>1, <1>2 DEF ClerkStep, Dump, UploadArchive, ListBackups, DeleteBackup, Download, Load, Extract, Promote,
         Clear, Fetch, Fill, Strip, ClerkFails, ClerkDies, ClerkAt
  <1> QED
    BY <1>1, <1>2

\* A verification that says OK has tried the archive of its date, and it was whole.
LEMMA VerdictIsTrue ==
  ASSUME BackupInv, BackupNext
  PROVE  VerifiedIsWhole
  <1> SUFFICES ASSUME NoneOf({"race"}), NEW c \in Clerks, clerk'[c].said = "OK", clerk[c].said # "OK",
                      Style[Store(c)] = "sql" => NoneOf({"rot"})
               PROVE  /\ proofTmp[Store(c)].whole
                      /\ \A a \in Fetched(c) : rig'[Store(c)] = a.data
    BY DEF VerifiedIsWhole
  <1>t. /\ clerk \in [Clerks -> AClerk] /\ rig \in [Stores -> Contents \cup {Useless}]
        /\ GoodClerk(clerk[c]) /\ BackupTyped
    BY DEF BackupInv, BackupTyped, BackupTypeOK, AClerk
  <1>1. ClerkStep(c)
    <2>1. ASSUME NEW d \in Clerks, ClerkStep(d) PROVE c = d
      <3>1. \E x \in AClerk : clerk' = [clerk EXCEPT ![d] = x]
        BY <2>1, <1>t, ClerkStepForm
      <3> QED
        BY <3>1, <1>t
    <2>2. ASSUME NEW d \in Clerks, NEW s \in Stores, Starting(d, s) PROVE FALSE
      <3>1. \E x \in AClerk : clerk' = [clerk EXCEPT ![d] = x] /\ x.said = "nothing"
        BY <2>2, <1>t, StartForm
      <3> QED
        BY <3>1, <1>t
    <2> QED
      BY <2>1, <2>2, <1>t, BackupForms DEF Spoil
  <1>g. \A l : ClerkGo(c, l) => clerk'[c].said = clerk[c].said
    BY <1>t DEF ClerkGo, AClerk
  <1>e. \A said : ClerkEnds(c, said) => clerk'[c].said = said
    BY <1>t DEF ClerkEnds, NoClerk
  <1>2. CASE Fill(c)
    <2> DEFINE f == proofTmp[Store(c)]
    <2>1. Store(c) \in Stores /\ CopyOf(c) /\ clerk[c].pc = "fill"
      BY <1>2, <1>t DEF Fill, GoodClerk, Store, ClerkAt, BackupInv, CopyInv
    <2>2. /\ rig' = [rig EXCEPT ![Store(c)] = f.data]
          /\ Style[Store(c)] = "sql" \/ f.whole
      BY <1>2, <1>t DEF Fill, AClerk
    <2>3. Dated(Store(c), clerk[c].at, f.data) /\ f.whole
      BY <2>1, <2>2 DEF CopyOf, HasInHand, ClerkAt
    <2>4. \A a \in Fetched(c) : a.data = f.data
      BY <2>3 DEF Dated, Fetched
    <2> QED
      BY <2>1, <2>2, <2>3, <2>4, <1>t
  <1>3. CASE Dump(c) \/ ListBackups(c)
    BY <1>3, <1>t DEF Dump, ListBackups, AClerk
  <1>4. CASE UploadArchive(c) \/ Download(c) \/ Load(c) \/ Extract(c) \/ Clear(c) \/ Strip(c)
             \/ ClerkFails(c) \/ ClerkDies(c)
    BY <1>4, <1>g, <1>e DEF UploadArchive, Download, Load, Extract, Clear, Strip, ClerkFails, ClerkDies
  <1>5. CASE DeleteBackup(c)
    <2> DEFINE t == CHOOSE z \in clerk[c].list : \A y \in clerk[c].list : y <= z
    <2>1. ClerkEnds(c, "complete") \/ clerk' = [clerk EXCEPT ![c].list = @ \ {t}]
      BY <1>5 DEF DeleteBackup
    <2> HIDE DEF t
    <2> QED
      BY <2>1, <1>e, <1>t DEF AClerk
  <1>6. CASE Promote(c)
    <2>1. clerk'[c].said \in {"complete", clerk[c].said}
      BY <1>6, <1>g, <1>t DEF Promote, AClerk
    <2> QED
      BY <2>1
  <1>7. CASE Fetch(c)
    <2>1. clerk'[c].said \in {"FAILED", clerk[c].said}
      BY <1>7, <1>g, <1>t DEF Fetch, AClerk
    <2> QED
      BY <2>1
  <1> QED
    BY <1>1, <1>2, <1>3, <1>4, <1>5, <1>6, <1>7 DEF ClerkStep

BackupKept == /\ part = "backups" => BackupInv
              /\ part # "backups" => BackupInit

LEMMA NextBackupKept == BackupKept /\ [Next]_allVars => BackupKept'
  <1> SUFFICES ASSUME BackupKept, [Next]_allVars PROVE BackupKept'
    OBVIOUS
  <1>1. CASE Backup
    BY <1>1, NextBackup DEF Backup, BackupKept
  <1>2. CASE UNCHANGED allVars
    BY <1>2 DEF allVars, backupVars, BackupKept, BackupInv, BackupTyped, BackupTypeOK, LuckTypeOK, StampInv,
       WholeInv, FloorInv, CopyInv, NoRivals, CopyOf, HasInHand, Dated, Backing, Now, NoneOf, ClerkAt, Store,
       BackupInit
  <1>3. CASE part # "backups" /\ UNCHANGED <<part, backupVars>>
    BY <1>3 DEF backupVars, BackupKept, BackupInit
  <1> QED
    BY <1>1, <1>2, <1>3 DEF Next, Env, Audit, Secret, Vault_, Conf, Rest

\* Through failures, interruptions and spoiled files: no prune removes one of the
\* KeepLast newest backups, a restore that says it is complete has restored the
\* backup it was asked for, and a backup that is said to be usable is whole.
THEOREM BackupsAlwaysHold == Spec => BackupsHold
  <1>1. Init => BackupKept
    BY LuckAtFirst, InitBackup DEF Init, BackupKept
  <1>2. BackupKept /\ [Next]_allVars => [FloorKept /\ RestoreSaysTrue /\ VerifiedIsWhole]_backupVars
    <2> SUFFICES ASSUME BackupKept, [Next]_allVars, ~UNCHANGED backupVars
                 PROVE  FloorKept /\ RestoreSaysTrue /\ VerifiedIsWhole
      OBVIOUS
    <2>1. BackupNext /\ part = "backups"
      BY DEF Next, Env, Audit, Backup, Vault_, Secret, Conf, Rest, allVars
    <2> QED
      BY <2>1, StepKeepsFloor, RestoreIsTrue, VerdictIsTrue DEF BackupKept, BackupInv
  <1> QED
    BY <1>1, <1>2, NextBackupKept, PTL DEF Spec, BackupsHold


-----------------------------------------------------------------------------
\* Types of every part.  Of the configuration the files' sizes remain: the base
\* sets at most BaseSize fields beside its domain, the overlay OverlaySize.
FilesSized ==
    /\ IsFiniteSet(DOMAIN base) /\ Cardinality(DOMAIN base \ {"domain"}) <= BaseSize
    /\ IsFiniteSet(DOMAIN overlay) /\ Cardinality(DOMAIN overlay) <= OverlaySize

\* Setting one more field makes a file at most one field larger.
LEMMA OneFieldMore ==
  ASSUME NEW d, IsFiniteSet(DOMAIN d), NEW f, NEW v, NEW X, NEW n \in Nat, Cardinality(DOMAIN d \ X) < n
  PROVE  IsFiniteSet(DOMAIN With(d, f, v)) /\ Cardinality(DOMAIN With(d, f, v) \ X) <= n
  <1> DEFINE D == DOMAIN d \ X
  <1>1. DOMAIN With(d, f, v) = DOMAIN d \cup {f}
    BY DEF With
  <1>2. IsFiniteSet(DOMAIN d \cup {f}) /\ IsFiniteSet(D)
    BY FS_AddElement, FS_Subset
  <1>3. Cardinality(D) \in Nat /\ Cardinality(D \cup {f}) \in {Cardinality(D), Cardinality(D) + 1}
    BY <1>2, FS_AddElement, FS_CardinalityType
  <1>4. (DOMAIN d \cup {f}) \ X = D \/ (DOMAIN d \cup {f}) \ X = D \cup {f}
    OBVIOUS
  <1>5. Cardinality(D) < n
    OBVIOUS
  <1> DEFINE size == Cardinality(D)
  <1>6. size \in Nat /\ size < n /\ Cardinality((DOMAIN d \cup {f}) \ X) \in {size, size + 1}
    BY <1>3, <1>4, <1>5
  <1> HIDE DEF size
  <1> QED
    BY <1>1, <1>2, <1>6

LEMMA NextSized == FilesSized /\ ConfigNext => FilesSized'
  <1> SUFFICES ASSUME FilesSized, ConfigNext PROVE FilesSized'
    OBVIOUS
  <1>t. BaseSize \in Nat /\ OverlaySize \in Nat
    BY ConfigAssumption
  <1>1. CASE LoadConfig
    BY <1>1 DEF LoadConfig, FilesSized
  <1>2. CASE NoDomain
    <2>1. DOMAIN base' = DOMAIN base \ {"domain"} /\ UNCHANGED overlay
      BY <1>2 DEF NoDomain
    <2>2. DOMAIN base' \ {"domain"} = DOMAIN base \ {"domain"} /\ IsFiniteSet(DOMAIN base')
      BY <2>1, FS_Subset DEF FilesSized
    <2> QED
      BY <2>1, <2>2 DEF FilesSized
  <1>3. ASSUME NEW f \in Fields, NEW v \in ValuesOf(f), WriteBase(f, v) PROVE FilesSized'
    <2>1. IsFiniteSet(DOMAIN base') /\ Cardinality(DOMAIN base' \ {"domain"}) <= BaseSize
      BY <1>3, <1>t, OneFieldMore DEF WriteBase, FilesSized
    <2> QED
      BY <1>3, <2>1 DEF WriteBase, FilesSized
  <1>4. ASSUME NEW f \in Fields, NEW v \in ValuesOf(f), WriteOverlay(f, v) PROVE FilesSized'
    <2> DEFINE none == {}
    <2>1. Cardinality(DOMAIN overlay \ none) < OverlaySize
      <3>1. DOMAIN overlay \ none = DOMAIN overlay
        OBVIOUS
      <3> QED
        BY <3>1, <1>4 DEF WriteOverlay
    <2>2. IsFiniteSet(DOMAIN overlay') /\ Cardinality(DOMAIN overlay' \ none) <= OverlaySize
      <3> HIDE DEF none
      <3> QED
        BY <2>1, <1>4, <1>t, OneFieldMore DEF WriteOverlay, FilesSized
    <2>3. DOMAIN overlay' \ none = DOMAIN overlay'
      OBVIOUS
    <2> QED
      BY <1>4, <2>2, <2>3 DEF WriteOverlay, FilesSized
  <1> QED
    BY <1>1, <1>2, <1>3, <1>4 DEF ConfigNext

\* The merge of two documents is a document.
LEMMA MergeIsDocument ==
  ASSUME NEW b, NEW o, IsDocument(b), IsDocument(o)
  PROVE  IsDocument(MergeConfigs(b, o))
  <1>1. ASSUME NEW f \in DOMAIN b \cup DOMAIN o, MergeField(b, o, f) # Unset
        PROVE  f \in Fields /\ MergeField(b, o, f) \in ValuesOf(f)
    <2>1. f \in Fields
      BY DEF IsDocument
    <2>2. At(b, f) \in ValuesOf(f) \cup {Unset} /\ At(o, f) \in ValuesOf(f) \cup {Unset}
      BY DEF At, Has, IsDocument
    <2>3. Over(o, b, f) \in ValuesOf(f) \cup {Unset}
      BY <2>2 DEF Over, At
    <2>4. MergeField(b, o, f) \in {Over(o, b, f), At(o, f), At(b, f)}
      BY <2>1 DEF MergeField, Fields, MergeMaps, MergeAccessory, MergeBlock
    <2> QED
      BY <1>1, <2>1, <2>2, <2>3, <2>4
  <1> QED
    BY <1>1 DEF IsDocument, MergeConfigs

\* The parts that do not count on the luck: it is typed all the same.
SizeKept == /\ part \in Parts
            /\ part = "config" => FilesSized /\ LuckTypeOK

LEMMA NextSizeKept == SizeKept /\ [Next]_allVars => SizeKept'
  <1> SUFFICES ASSUME SizeKept, [Next]_allVars PROVE SizeKept'
    OBVIOUS
  <1>1. CASE Conf
    <2>1. UNCHANGED <<part, luck>> /\ FilesSized'
      BY <1>1, NextSized DEF Conf, SizeKept, ConfigNext, LoadConfig, NoDomain, WriteBase, WriteOverlay
    <2> QED
      BY <2>1 DEF SizeKept, LuckTypeOK
  <1>2. CASE UNCHANGED allVars
    BY <1>2 DEF allVars, configVars, SizeKept, FilesSized, LuckTypeOK
  <1>3. CASE part # "config" /\ UNCHANGED part
    BY <1>3 DEF SizeKept
  <1> QED
    BY <1>1, <1>2, <1>3 DEF Next, Env, Audit, Backup, Vault_, Secret, Rest

\* The type invariant of the part that moves, whichever it is.
THEOREM TypeCorrect == Spec => []TypeOK
  <1> DEFINE Kept == /\ EnvHolds /\ BackupKept /\ VaultKept /\ SecretKept
                     /\ TrailHolds /\ ConfigHolds /\ SizeKept
  <1>1. Init => Kept
    <2> SUFFICES ASSUME Init PROVE Kept
      OBVIOUS
    <2>1. LuckTypeOK /\ part \in Parts
      BY LuckAtFirst
    <2>2. EnvHolds /\ BackupKept /\ VaultKept /\ SecretKept
      BY <2>1, InitEnvTyped, InitCred, InitBackup, InitVault, InitSecretTyped, InitSecret
         DEF Init, EnvHolds, BackupKept, VaultKept, SecretKept
    <2>3. TrailHolds
      BY <2>1, InitTrail, InitSent DEF Init, TrailHolds
    <2>4. ConfigHolds
      BY DEF Init, ConfigInit, ConfigHolds, ConfigInv, IsDocument, Start, Empty, Fields, Plain, ValuesOf, Choices
    <2>5. SizeKept
      <3>1. DOMAIN base = {"domain"} /\ DOMAIN overlay = {} /\ DOMAIN base \ {"domain"} = {}
        BY DEF Init, ConfigInit, Start, Empty
      <3>2. IsFiniteSet({}) /\ Cardinality({}) = 0 /\ IsFiniteSet({"domain"})
        BY FS_EmptySet, FS_Singleton
      <3>3. IsFiniteSet(DOMAIN base) /\ IsFiniteSet(DOMAIN overlay)
            /\ Cardinality(DOMAIN base \ {"domain"}) = 0 /\ Cardinality(DOMAIN overlay) = 0
        BY <3>1, <3>2
      <3> QED
        BY <2>1, <3>3, ConfigAssumption DEF SizeKept, FilesSized
    <2> QED
      BY <2>2, <2>3, <2>4, <2>5
  <1>2. Kept => TypeOK
    <2> SUFFICES ASSUME Kept PROVE TypeOK
      OBVIOUS
    <2>1. part \in Parts
      BY DEF SizeKept
    <2>2. CASE part = "accessories"
      BY <2>2, <2>1 DEF EnvHolds, EnvTyped, TypeOK
    <2>3. CASE part = "backups"
      BY <2>3, <2>1 DEF BackupKept, BackupInv, BackupTyped, TypeOK
    <2>4. CASE part = "vault"
      BY <2>4, <2>1 DEF VaultKept, VaultInv, VaultTyped, TypeOK
    <2>5. CASE part = "secrets"
      BY <2>5, <2>1 DEF SecretKept, SecretTyped, TypeOK
    <2>6. CASE part = "audit"
      <3>1. TrailTyped
        BY <2>6 DEF TrailHolds, TrailInv
      <3>2. log \in UNION {[1..n -> Line] : n \in 0..MaxLines}
        <4>1. Len(log) \in 0..MaxLines /\ log \in [1..Len(log) -> Line]
          BY <3>1, AuditAssumption DEF TrailTyped
        <4> QED
          BY <4>1
      <3> QED
        BY <2>6, <2>1, <3>1, <3>2 DEF TrailTyped, AuditTypeOK, TypeOK
    <2>7. CASE part = "config"
      <3>1. ConfigInv /\ FilesSized /\ LuckTypeOK
        BY <2>7 DEF ConfigHolds, SizeKept
      <3>2. IsDocument(Empty)
        BY DEF IsDocument, Empty
      <3>3. loaded.is \in {"nothing", "error", "config"} /\ IsDocument(loaded.doc)
        BY <3>1, <3>2, MergeIsDocument DEF ConfigInv, NotLoaded
      <3>4. Cardinality(DOMAIN base) <= BaseSize + 1
        <4> DEFINE B == DOMAIN base \ {"domain"}
        <4>1. IsFiniteSet(B) /\ Cardinality(B) <= BaseSize
          BY <3>1, FS_Subset DEF FilesSized
        <4>2. Cardinality(B) \in Nat /\ Cardinality(B \cup {"domain"}) = Cardinality(B) + 1
          BY <4>1, FS_AddElement, FS_CardinalityType
        <4>3. DOMAIN base = B \/ DOMAIN base = B \cup {"domain"}
          OBVIOUS
        <4> DEFINE n == Cardinality(B)
        <4>4. n \in Nat /\ n <= BaseSize /\ Cardinality(DOMAIN base) \in {n, n + 1}
          BY <4>1, <4>2, <4>3
        <4> HIDE DEF n
        <4> QED
          BY <4>4, ConfigAssumption
      <3> QED
        BY <2>7, <2>1, <3>1, <3>3, <3>4 DEF ConfigInv, FilesSized, ConfigTypeOK, TypeOK
    <2> QED
      BY <2>1, <2>2, <2>3, <2>4, <2>5, <2>6, <2>7 DEF Parts
  <1>3. Kept /\ [Next]_allVars => Kept'
    BY NextEnvHolds, NextBackupKept, NextVault, NextSecretKept, NextTrailHolds, NextConfigHolds, NextSizeKept
  <1> QED
    BY <1>1, <1>2, <1>3, PTL DEF Spec
=============================================================================
