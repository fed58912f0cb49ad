--------------------------- MODULE DataPartsProofs ---------------------------
(***************************************************************************)
(* What DataParts promises of the parts that keep an app's data, for every *)
(* value of its constants.  Of each part there is an inductive invariant;  *)
(* the part that does not move stays as it was initially.                  *)
(***************************************************************************)
EXTENDS DataParts, FiniteSetTheorems, TLAPS

\* Beginning an operation and a mishap, of kinds there are, keep the type of luck.
LEMMA LuckKept ==
  ASSUME LuckTypeOK, NEW K \in SUBSET MishapKinds, BeginAs(K) \/ MishapAs(K)
  PROVE  /\ LuckTypeOK'
         /\ luck'.had = luck.had \cup K
  <1>t. /\ luck.ops \in 0..MaxOps /\ luck.left \in 0..MaxMishaps /\ luck.had \subseteq MishapKinds
        /\ luck = [ops |-> luck.ops, left |-> luck.left, had |-> luck.had]
        /\ MaxOps \in Nat /\ MaxMishaps \in Nat
    BY MishapsAssumption DEF LuckTypeOK
  <1>1. CASE BeginAs(K)
    <2>1. luck.ops > 0 /\ luck' = [ops |-> luck.ops - 1, left |-> luck.left, had |-> luck.had \cup K]
      BY <1>t, <1>1 DEF BeginAs
    <2>2. luck.ops - 1 \in 0..MaxOps
      BY <1>t, <2>1
    <2> QED
      BY <1>t, <2>1, <2>2 DEF LuckTypeOK
  <1>2. CASE MishapAs(K)
    <2>1. luck.left > 0 /\ luck' = [ops |-> luck.ops, left |-> luck.left - 1, had |-> luck.had \cup K]
      BY <1>t, <1>2 DEF MishapAs
    <2>2. luck.left - 1 \in 0..MaxMishaps
      BY <1>t, <2>1
    <2> QED
      BY <1>t, <2>1, <2>2 DEF LuckTypeOK
  <1> QED
    BY <1>1, <1>2

\* An operation that begins is one less that may begin; nothing else changes that.
LEMMA OpsSpent ==
  ASSUME LuckTypeOK, NEW K
  PROVE  /\ BeginAs(K) => luck'.ops = luck.ops - 1
         /\ MishapAs(K) => luck'.ops = luck.ops
         /\ luck.ops \in Nat
  <1>1. luck.ops \in 0..MaxOps /\ MaxOps \in Nat /\ DOMAIN luck = {"ops", "left", "had"}
    BY MishapsAssumption DEF LuckTypeOK
  <1>2. BeginAs(K) => luck'.ops = luck.ops - 1
    BY <1>1 DEF BeginAs
  <1>3. MishapAs(K) => luck'.ops = luck.ops
    BY <1>1 DEF MishapAs
  <1> QED
    BY <1>1, <1>2, <1>3

\* What a property presupposes never to have happened had not happened before.
LEMMA NoneBefore ==
  ASSUME LuckTypeOK, NEW K \in SUBSET MishapKinds, BeginAs(K) \/ MishapAs(K), NEW X, NoneOf(X)'
  PROVE  NoneOf(X) /\ K \cap X = {}
  <1>1. luck'.had = luck.had \cup K
    BY LuckKept
  <1> QED
    BY <1>1 DEF NoneOf

\* Initially nothing has happened.
LEMMA LuckAtFirst == Init => LuckTypeOK /\ part \in Parts /\ luck.had = {}
  BY DataPartsAssumption DEF Init, LuckTypeOK

-----------------------------------------------------------------------------
\* The audit trail.  A number of lines is accounted for when the log has, or
\* had when it was empty, that many, and each of them that is to be forwarded
\* was received.  Both what is stored and where a run has got to are such
\* numbers; the events a run has emitted are at most the lines it has passed.
Reached(n) == n <= Len(log) \/ n <= 1
CoveredBy(received, n) == \A i \in DOMAIN log : i <= n /\ Forwarded(i) => received[i] >= 1
Covered(n) == CoveredBy(sent, n)

RunIsCovered(s) ==
    /\ Reached(shipper[s].total) /\ Reached(shipper[s].at) /\ Covered(shipper[s].at)
    /\ shipper[s].prev + shipper[s].shipped <= shipper[s].at
    /\ shipper[s].pc \in {"idle", "marker", "log"} => shipper[s].shipped = 0
    /\ shipper[s].pc \in {"emit", "failed"} => shipper[s].at <= shipper[s].total

TrailTyped ==
    /\ LuckTypeOK
    /\ log \in Seq(Line) /\ Len(log) <= MaxLines
    /\ marker \in 0..MaxLines
    /\ sent \in [1..MaxLines -> 0..MaxSent]
    /\ shipper \in [Shippers -> [pc : {"idle", "marker", "log", "emit", "failed", "persist"},
                                 prev : 0..MaxLines, total : 0..MaxLines,
                                 at : 0..MaxLines, shipped : 0..MaxLines]]

TrailInv ==
    /\ TrailTyped
    /\ log # <<>> => log[1] = "other"
    /\ Reached(marker) /\ Covered(marker)
    /\ \A s \in Shippers : RunIsCovered(s)

LEMMA InitTrail == AuditInit /\ LuckTypeOK => TrailInv
  BY AuditAssumption DEF AuditInit, TrailInv, TrailTyped, Reached, Covered, CoveredBy, RunIsCovered, NoShipper, MaxSent

\* A step that changes no line and takes back no event keeps what was covered.
LEMMA CoverageStays ==
  ASSUME TrailInv, UNCHANGED log, \A i \in 1..MaxLines : sent'[i] >= sent[i],
         sent' \in [1..MaxLines -> 0..MaxSent], NEW n \in Nat, Reached(n), Covered(n)
  PROVE  Reached(n)' /\ Covered(n)'
  <1>1. \A i \in DOMAIN log : i \in 1..MaxLines
    BY AuditAssumption DEF TrailInv, TrailTyped
  <1>2. \A i \in 1..MaxLines : sent[i] \in Nat /\ sent'[i] \in Nat
    <2>1. 0..MaxSent \subseteq Nat
      BY DEF MaxSent
    <2> QED
      BY <2>1 DEF TrailInv, TrailTyped
  <1> QED
    BY <1>1, <1>2 DEF Reached, Covered, CoveredBy, Forwarded

LEMMA NextTrail ==
  ASSUME TrailInv, AuditNext
  PROVE  TrailInv'
  <1> USE DEF TrailInv
  <1>t. /\ MaxLines \in Nat \ {0} /\ Len(log) \in Nat /\ DOMAIN log = 1..Len(log)
        /\ \A s \in Shippers : shipper[s] \in [pc : {"idle", "marker", "log", "emit", "failed", "persist"},
                                 prev : 0..MaxLines, total : 0..MaxLines,
                                 at : 0..MaxLines, shipped : 0..MaxLines]
    BY AuditAssumption DEF TrailTyped
  <1>1. ASSUME NEW l \in Line, LogLine(l)
        PROVE  TrailInv'
    <2>1. /\ log' \in Seq(Line) /\ Len(log') = Len(log) + 1 /\ Len(log') <= MaxLines
          /\ DOMAIN log' = 1..(Len(log) + 1)
          /\ \A i \in 1..Len(log) : log'[i] = log[i]
          /\ log'[Len(log) + 1] = l
      BY <1>t, <1>1 DEF LogLine, TrailTyped
    <2>2. TrailTyped'
      BY <1>1, <2>1 DEF LogLine, TrailTyped, LuckTypeOK
    <2>3. log' # <<>> /\ log'[1] = "other"
      <3>1. CASE log = <<>>
        BY <3>1, <1>1, <2>1 DEF LogLine
      <3>2. CASE log # <<>>
        <4>1. Len(log) >= 1
          BY <3>2, <1>t DEF TrailTyped
        <4> QED
          BY <3>2, <4>1, <2>1, <1>t
      <3> QED
        BY <3>1, <3>2
    <2>4. ASSUME NEW n \in Nat, Reached(n), Covered(n)
          PROVE  Reached(n)' /\ Covered(n)'
      BY <1>t, <1>1, <2>1, <2>3, <2>4 DEF Reached, Covered, CoveredBy, Forwarded, LogLine
    <2>5. (Reached(marker) /\ Covered(marker))'
      BY <1>1, <2>4, <1>t DEF LogLine, TrailTyped
    <2>6. \A s \in Shippers : RunIsCovered(s)'
      BY <1>1, <1>t, <2>4, <2>1 DEF LogLine, RunIsCovered, Reached
    <2> QED
      BY <2>2, <2>3, <2>5, <2>6
  <1>2. ASSUME NEW s \in Shippers,
               Ship(s) \/ ReadMarker(s) \/ ReadLog(s) \/ ReadLogFails(s) \/ Emit(s)
                 \/ EmitFails(s) \/ PersistFailed(s) \/ PersistAll(s) \/ ShipperDies(s)
        PROVE  TrailInv'
    <2> DEFINE Run == [pc : {"idle", "marker", "log", "emit", "failed", "persist"},
                       prev : 0..MaxLines, total : 0..MaxLines,
                       at : 0..MaxLines, shipped : 0..MaxLines]
    <2>l. LuckTypeOK'
      BY <1>2, LuckKept DEF Ship, ReadMarker, ReadLog, ReadLogFails, Emit, EmitFails, PersistFailed,
             PersistAll, ShipperDies, Persist, Mishap, TrailTyped, MishapKinds, LuckTypeOK
    <2>g. UNCHANGED log
      BY <1>2 DEF Ship, ReadMarker, ReadLog, ReadLogFails, Emit, EmitFails, PersistFailed,
                  PersistAll, ShipperDies, Persist
    <2>s. /\ \A i \in 1..MaxLines : sent'[i] >= sent[i]
          /\ sent' \in [1..MaxLines -> 0..MaxSent]
      <3>t. sent \in [1..MaxLines -> 0..4]
        BY DEF TrailTyped, MaxSent
      <3>1. CASE UNCHANGED sent
        BY <3>t, <3>1 DEF MaxSent
      <3>2. CASE sent' = [sent EXCEPT ![shipper[s].at + 1] = IF @ < MaxSent THEN @ + 1 ELSE @]
        <4>1. \A i \in 1..MaxLines : sent[i] \in 0..4
          BY <3>t
        <4>2. \A i \in 1..MaxLines : sent'[i] = IF i = shipper[s].at + 1 /\ sent[i] < 4 THEN sent[i] + 1 ELSE sent[i]
          BY <3>t, <3>2 DEF MaxSent
        <4>3. \A i \in 1..MaxLines : sent'[i] \in 0..4 /\ sent'[i] >= sent[i]
          BY <4>1, <4>2
        <4>4. sent' \in [1..MaxLines -> 0..4]
          BY <4>3, <3>t, <3>2
        <4> QED
          BY <4>3, <4>4 DEF MaxSent
      <3> QED
        BY <1>2, <3>1, <3>2 DEF Ship, ReadMarker, ReadLog, ReadLogFails, Emit, EmitFails, PersistFailed,
                  PersistAll, ShipperDies, Persist
    <2>c. \A n \in Nat : Reached(n) /\ Covered(n) => Reached(n)' /\ Covered(n)' /\ CoveredBy(sent', n)
      BY <2>g, <2>s, CoverageStays DEF Covered, CoveredBy, Forwarded
    <2>m. marker' \in 0..MaxLines /\ Reached(marker') /\ Covered(marker')
      <3>1. CASE UNCHANGED marker
        BY <3>1 DEF TrailTyped
      <3>2. marker' = 0 => Reached(marker') /\ Covered(marker')
        BY <1>t DEF Reached, Covered, CoveredBy
      <3>3. CASE PersistFailed(s) \/ PersistAll(s)
        <4>1. PICK n \in 0..shipper[s].at : Persist(s, n)
          BY <3>3, <1>t DEF PersistFailed, PersistAll, ShipperAt, RunIsCovered
        <4>2. Reached(n) /\ Covered(n)
          BY <1>t, <4>1 DEF RunIsCovered, Reached, Covered, CoveredBy
        <4> QED
          BY <3>1, <3>2, <4>1, <4>2, <1>t DEF Persist
      <3> QED
        BY <1>2, <3>1, <3>3 DEF Ship, ReadMarker, ReadLog, ReadLogFails, Emit, EmitFails, ShipperDies
    <2>1. ASSUME NEW x \in Run, shipper' = [shipper EXCEPT ![s] = x],
                 Reached(x.total), Reached(x.at), CoveredBy(sent', x.at),
                 x.prev + x.shipped <= x.at,
                 x.pc \in {"idle", "marker", "log"} => x.shipped = 0,
                 x.pc \in {"emit", "failed"} => x.at <= x.total
          PROVE  TrailInv'
      <3>1. TrailTyped'
        BY <2>l, <2>g, <2>s, <2>m, <2>1 DEF TrailTyped
      <3>2. (Reached(marker) /\ Covered(marker))'
        BY <2>c, <2>m
      <3>3. ASSUME NEW y \in Shippers PROVE RunIsCovered(y)'
        <4>1. CASE y = s
          BY <4>1, <2>1, <2>g DEF TrailTyped, RunIsCovered, Reached, Covered, CoveredBy, Forwarded
        <4>2. CASE y # s
          <5>1. shipper'[y] = shipper[y]
            BY <2>1, <4>2 DEF TrailTyped
          <5>2. Reached(shipper[y].at)' /\ Covered(shipper[y].at)'
            BY SMTT(40), <5>1, <2>c, <1>t DEF RunIsCovered, Covered, CoveredBy, Reached
          <5> QED
            BY <5>1, <5>2, <2>g DEF RunIsCovered, Reached
        <4> QED
          BY <4>1, <4>2
      <3> QED
        BY <3>1, <3>2, <3>3, <2>g
    <2>i. Reached(0) /\ CoveredBy(sent', 0)
      BY <1>t, <2>g DEF Reached, Covered, CoveredBy
    <2>e. ASSUME ShipperDone(s) PROVE TrailInv'
      <3>1. NoShipper \in Run
        BY <1>t DEF NoShipper
      <3>2. /\ NoShipper.total = 0 /\ NoShipper.at = 0 /\ NoShipper.prev = 0
            /\ NoShipper.shipped = 0 /\ NoShipper.pc = "idle"
        BY DEF NoShipper
      <3>3. /\ Reached(NoShipper.total) /\ Reached(NoShipper.at) /\ CoveredBy(sent', NoShipper.at)
            /\ NoShipper.prev + NoShipper.shipped <= NoShipper.at
        BY <3>2, <2>i
      <3>4. shipper' = [shipper EXCEPT ![s] = NoShipper]
        BY <2>e DEF ShipperDone
      <3> HIDE DEF Run
      <3> QED
        BY <2>1, <3>1, <3>2, <3>3, <3>4
    <2>2. CASE Ship(s)
      <3> DEFINE x == [shipper[s] EXCEPT !.pc = "marker"]
      <3>1. shipper' = [shipper EXCEPT ![s] = x]
        BY <2>2 DEF Ship
      <3>2. x \in Run
        BY <1>t
      <3>3. CoveredBy(sent', shipper[s].at)
        BY <2>c, <1>t DEF RunIsCovered
      <3> HIDE DEF Run
      <3>4. x.total = shipper[s].total /\ x.at = shipper[s].at /\ x.prev = shipper[s].prev
            /\ x.shipped = shipper[s].shipped /\ x.pc = "marker"
        BY <1>t
      <3>5. shipper[s].shipped = 0
        BY <2>2 DEF Ship, ShipperAt, RunIsCovered
      <3> QED
        BY <2>1, <3>1, <3>2, <3>3, <3>4, <3>5 DEF RunIsCovered
    <2>3. CASE ReadMarker(s)
      <3>1. PICK prev \in {marker, 0} :
              shipper' = [shipper EXCEPT ![s].pc = "log", ![s].prev = prev, ![s].at = prev]
        BY <2>3 DEF ReadMarker
      <3> DEFINE x == [shipper[s] EXCEPT !.pc = "log", !.prev = prev, !.at = prev]
      <3>2. shipper' = [shipper EXCEPT ![s] = x]
        BY <3>1, <1>t DEF TrailTyped
      <3>3. prev \in 0..MaxLines
        BY <1>t, <3>1 DEF TrailTyped
      <3>4. x \in Run
        BY <1>t, <3>3
      <3>5. Reached(prev) /\ CoveredBy(sent', prev)
        BY <2>i, <3>1, <2>c, <1>t DEF TrailTyped
      <3>6. shipper[s].shipped = 0
        BY <2>3 DEF ReadMarker, ShipperAt, RunIsCovered
      <3>7. /\ x.total = shipper[s].total /\ x.at = prev /\ x.prev = prev
            /\ x.shipped = 0 /\ x.pc = "log"
        BY <1>t, <3>6
      <3>8. Reached(x.total) /\ Reached(x.at) /\ CoveredBy(sent', x.at) /\ x.prev + x.shipped <= x.at
        BY <1>t, <3>3, <3>5, <3>7 DEF RunIsCovered
      <3> HIDE DEF Run, x
      <3> QED
        BY <2>1, <3>2, <3>4, <3>7, <3>8
    <2>4. CASE ReadLog(s)
      <3> DEFINE total == IF log = <<>> THEN 1 ELSE Len(log)
                 x == [shipper[s] EXCEPT !.pc = "emit", !.total = total]
      <3>1. CASE total <= shipper[s].prev
        BY <2>4, <3>1, <2>e DEF ReadLog
      <3>2. CASE total > shipper[s].prev
        <4>1. shipper' = [shipper EXCEPT ![s] = x]
          <5>1. ~(total <= shipper[s].prev)
            BY <3>2, <1>t
          <5> QED
            BY <2>4, <5>1 DEF ReadLog, TrailTyped
        <4>2. total \in 0..MaxLines /\ Reached(total)
          BY <1>t DEF TrailTyped, Reached
        <4>3. x \in Run
          BY <1>t, <4>2
        <4>4. shipper[s].shipped = 0 /\ shipper[s].at <= total
          BY <2>4, <1>t DEF ReadLog, ShipperAt, RunIsCovered, Reached
        <4>5. /\ x.total = total /\ x.at = shipper[s].at /\ x.prev = shipper[s].prev
              /\ x.shipped = shipper[s].shipped /\ x.pc = "emit"
          BY <1>t
        <4>6. CoveredBy(sent', shipper[s].at)
          BY <2>c, <1>t DEF RunIsCovered
        <4> HIDE DEF Run, x, total
        <4> QED
          BY <2>1, <4>1, <4>2, <4>3, <4>4, <4>5, <4>6 DEF RunIsCovered
      <3> QED
        BY <3>1, <3>2, <1>t
    <2>5. CASE Emit(s)
      <3> DEFINE i == shipper[s].at + 1
      <3>1. i \in 1..MaxLines /\ i <= shipper[s].total /\ shipper[s].pc = "emit"
        BY <2>5, <1>t DEF Emit, ShipperAt
      <3>2. Reached(i)
        BY <3>1, <1>t DEF RunIsCovered, Reached
      <3>3. CASE Forwarded(i)
        <4> DEFINE x == [shipper[s] EXCEPT !.at = i, !.shipped = @ + 1]
        <4>1. shipper' = [shipper EXCEPT ![s] = x]
          BY <2>5, <3>3, <1>t DEF Emit, TrailTyped
        <4>2. sent'[i] >= 1
          <5>1. sent[i] \in 0..4 /\ DOMAIN sent = 1..MaxLines
            BY <3>1 DEF TrailTyped, MaxSent
          <5>2. sent'[i] = IF sent[i] < 4 THEN sent[i] + 1 ELSE sent[i]
            BY <2>5, <3>3, <3>1, <5>1 DEF Emit, MaxSent
          <5> QED
            BY <5>1, <5>2
        <4>3. CoveredBy(sent', i)
          <5>1. CoveredBy(sent', shipper[s].at)
            BY <2>c, <1>t DEF RunIsCovered
          <5> QED
            BY <5>1, <4>2, <2>g, <1>t DEF Covered, CoveredBy
        <4>4. shipper[s].prev + shipper[s].shipped + 1 <= i
          BY <1>t DEF RunIsCovered
        <4>5. x \in Run
          <5>1. shipper[s].shipped + 1 \in 0..MaxLines
            BY <1>t, <3>1, <4>4
          <5>2. ASSUME NEW m \in 0..MaxLines, NEW n \in 0..MaxLines
                PROVE  [shipper[s] EXCEPT !.at = m, !.shipped = n] \in Run
            BY <1>t
          <5>3. i \in 0..MaxLines
            BY <3>1, <1>t
          <5> QED
            BY <5>1, <5>2, <5>3, Zenon
        <4>6. /\ x.total = shipper[s].total /\ x.at = i /\ x.prev = shipper[s].prev
              /\ x.shipped = shipper[s].shipped + 1 /\ x.pc = "emit"
          BY <1>t, <3>1
        <4>7. x.prev + x.shipped <= x.at
          BY <1>t, <4>4, <4>6
        <4> HIDE DEF Run, x, i
        <4> QED
          BY <2>1, <3>1, <3>2, <4>1, <4>3, <4>5, <4>6, <4>7 DEF RunIsCovered
      <3>4. CASE ~Forwarded(i)
        <4> DEFINE x == [shipper[s] EXCEPT !.at = i]
        <4>1. shipper' = [shipper EXCEPT ![s] = x] /\ UNCHANGED sent
          BY <2>5, <3>4, <1>t DEF Emit, TrailTyped
        <4>3. CoveredBy(sent', i)
          BY <1>t, <3>4, <4>1, <2>g DEF Covered, CoveredBy, RunIsCovered, Forwarded
        <4>4. shipper[s].prev + shipper[s].shipped <= i
          BY <1>t DEF RunIsCovered
        <4>5. x \in Run
          BY <1>t, <3>1, <4>4
        <4>6. /\ x.total = shipper[s].total /\ x.at = i /\ x.prev = shipper[s].prev
              /\ x.shipped = shipper[s].shipped /\ x.pc = "emit"
          BY <1>t, <3>1
        <4> HIDE DEF Run, x, i
        <4> QED
          BY <2>1, <3>1, <3>2, <4>1, <4>3, <4>4, <4>5, <4>6 DEF RunIsCovered
      <3> QED
        BY <3>3, <3>4
    <2>6. CASE EmitFails(s)
      <3> DEFINE x == [shipper[s] EXCEPT !.pc = "failed"]
      <3>1. shipper' = [shipper EXCEPT ![s] = x]
        BY <2>6 DEF EmitFails
      <3>2. x \in Run
        BY <1>t
      <3>3. CoveredBy(sent', shipper[s].at)
        BY <2>c, <1>t DEF RunIsCovered
      <3>4. x.total = shipper[s].total /\ x.at = shipper[s].at /\ x.prev = shipper[s].prev
            /\ x.shipped = shipper[s].shipped /\ x.pc = "failed"
        BY <1>t
      <3>5. shipper[s].at <= shipper[s].total
        BY <2>6 DEF EmitFails, ShipperAt, RunIsCovered
      <3> HIDE DEF Run, x
      <3> QED
        BY <2>1, <3>1, <3>2, <3>3, <3>4, <3>5 DEF RunIsCovered
    <2>7. CASE ReadLogFails(s) \/ PersistFailed(s) \/ PersistAll(s) \/ ShipperDies(s)
      BY <2>7, <2>e DEF ReadLogFails, PersistFailed, PersistAll, ShipperDies, Persist
    <2> QED
      BY <1>2, <2>2, <2>3, <2>4, <2>5, <2>6, <2>7
  <1> QED
    BY <1>1, <1>2 DEF AuditNext

\* If nothing fails and one run follows the other, then a line beyond the
\* marker and beyond the running one has not been sent, the others once; and the
\* running one began at the marker.
AsIntended == NoneOf({"fault", "save", "read", "crash", "race"})
Alone(s)   == \A x \in Shippers \ {s} : shipper[x].pc = "idle"

SentInv ==
    AsIntended =>
        /\ \A i \in 1..MaxLines : sent[i] <= 1
        /\ \A i \in 1..MaxLines :
              i > marker /\ (\A s \in Shippers : i > shipper[s].at) => sent[i] = 0
        /\ \A s \in Shippers :
              CASE shipper[s].pc = "idle"   -> shipper[s].at = 0
                [] shipper[s].pc = "marker" -> shipper[s].at = 0 /\ Alone(s)
                [] shipper[s].pc = "log"    -> shipper[s].at = marker /\ shipper[s].prev = marker /\ Alone(s)
                [] OTHER -> shipper[s].pc = "emit" /\ shipper[s].at >= marker /\ Alone(s)

LEMMA InitSent == AuditInit => SentInv
  BY AuditAssumption DEF AuditInit, SentInv, NoShipper, Alone

LEMMA NextSent ==
  ASSUME TrailInv, SentInv, AuditNext
  PROVE  SentInv'
  <1> SUFFICES ASSUME AsIntended' PROVE SentInv'
    BY DEF SentInv
  <1> DEFINE Run == [pc : {"idle", "marker", "log", "emit", "failed", "persist"},
                       prev : 0..MaxLines, total : 0..MaxLines,
                       at : 0..MaxLines, shipped : 0..MaxLines]
  <1>t. /\ MaxLines \in Nat \ {0} /\ DOMAIN log = 1..Len(log) /\ Len(log) \in 0..MaxLines
        /\ marker \in 0..MaxLines
        /\ \A i \in 1..MaxLines : sent[i] \in 0..4
        /\ DOMAIN sent = 1..MaxLines
        /\ \A s \in Shippers : shipper[s] \in Run
        /\ DOMAIN shipper = Shippers
    BY AuditAssumption DEF TrailInv, TrailTyped, MaxSent
  <1>n. ASSUME NEW k \in MishapKinds, Mishap(k) PROVE k \notin {"fault", "save", "read", "crash", "race"}
    <2>1. {k} \cap {"fault", "save", "read", "crash", "race"} = {}
      BY <1>n, NoneBefore DEF Mishap, AsIntended, TrailInv, TrailTyped
    <2> QED
      BY <2>1
  <1>k. {"fault", "save", "read", "crash", "race"} \subseteq MishapKinds
    BY DEF MishapKinds
  <1>b. AsIntended
    <2>1. CASE UNCHANGED luck
      BY <2>1 DEF AsIntended, NoneOf
    <2>2. CASE \E K \in SUBSET MishapKinds : BeginAs(K) \/ MishapAs(K)
      BY <2>2, NoneBefore DEF AsIntended, TrailInv, TrailTyped
    <2> QED
      BY <1>k, <2>1, <2>2 DEF AuditNext, LogLine, Ship, ReadMarker, ReadLog, ReadLogFails, Emit, EmitFails,
         PersistFailed, PersistAll, ShipperDies, Persist, Mishap
  <1>i. /\ \A i \in 1..MaxLines : sent[i] <= 1
        /\ \A i \in 1..MaxLines :
              i > marker /\ (\A s \in Shippers : i > shipper[s].at) => sent[i] = 0
        /\ \A s \in Shippers :
              /\ shipper[s].pc \in {"idle", "marker", "log", "emit"}
              /\ shipper[s].pc # "idle" => Alone(s)
              /\ shipper[s].pc \in {"idle", "marker"} => shipper[s].at = 0
              /\ shipper[s].pc = "log" => shipper[s].at = marker /\ shipper[s].prev = marker
              /\ shipper[s].pc = "emit" => shipper[s].at >= marker
    BY <1>b DEF SentInv
  <1>1. ASSUME NEW l \in Line, LogLine(l)
        PROVE  SentInv'
    BY <1>1, <1>i DEF LogLine, SentInv, Alone
  <1>2. ASSUME NEW s \in Shippers,
               Ship(s) \/ ReadMarker(s) \/ ReadLog(s) \/ ReadLogFails(s) \/ Emit(s)
                 \/ EmitFails(s) \/ PersistFailed(s) \/ PersistAll(s) \/ ShipperDies(s)
        PROVE  SentInv'
    <2>a. \A x \in Shippers \ {s} : shipper[x].pc = "idle" /\ shipper[x].at = 0
      <3>1. CASE Ship(s)
        <4>1. ~\E x \in Shippers : ~ShipperAt(x, "idle")
          <5> SUFFICES ASSUME \E x \in Shippers : ~ShipperAt(x, "idle") PROVE FALSE
            OBVIOUS
          <5>1. BeginAs({"race"})
            BY <3>1 DEF Ship
          <5> DEFINE K == {"race"}
          <5>2. BeginAs(K) /\ K \in SUBSET MishapKinds
            BY <5>1, <1>k
          <5> HIDE DEF K
          <5>3. K \cap {"fault", "save", "read", "crash", "race"} = {}
            BY ZenonT(40), <5>2, NoneBefore DEF AsIntended, TrailInv, TrailTyped
          <5> QED
            BY <5>3 DEF K
        <4> QED
          BY <4>1, <1>i DEF ShipperAt
      <3>2. CASE ~Ship(s)
        BY <1>2, <3>2, <1>i DEF ReadMarker, ReadLog, ReadLogFails, Emit, EmitFails,
           PersistFailed, PersistAll, ShipperDies, ShipperAt, Alone
      <3> QED
        BY <3>1, <3>2
    <2>m. ASSUME NEW x \in Run, shipper' = [shipper EXCEPT ![s] = x],
                 \A i \in 1..MaxLines : sent'[i] <= 1,
                 \A i \in 1..MaxLines : i > marker' /\ i > x.at => sent'[i] = 0,
                 x.pc \in {"idle", "marker"} => x.at = 0,
                 x.pc = "log" => x.at = marker' /\ x.prev = marker',
                 x.pc = "emit" => x.at >= marker',
                 x.pc \in {"idle", "marker", "log", "emit"}
          PROVE  SentInv'
      <3>1. shipper'[s] = x /\ \A y \in Shippers \ {s} : shipper'[y] = shipper[y]
        BY <2>m, <1>t
      <3>2. Alone(s)'
        BY <3>1, <2>a DEF Alone
      <3>3. \A y \in Shippers \ {s} : shipper'[y].pc = "idle" /\ shipper'[y].at = 0
        BY <3>1, <2>a
      <3> HIDE DEF Run
      <3> QED
        BY <2>m, <3>1, <3>2, <3>3 DEF SentInv
    <2>s. \A i \in 1..MaxLines : i > marker /\ i > shipper[s].at => sent[i] = 0
      <3>1. ASSUME NEW i \in 1..MaxLines, i > shipper[s].at
            PROVE  \A y \in Shippers : i > shipper[y].at
        BY <3>1, <2>a
      <3> QED
        BY <3>1, <1>i
    <2>2. CASE Ship(s)
      <3> DEFINE x == [shipper[s] EXCEPT !.pc = "marker"]
      <3>1. shipper' = [shipper EXCEPT ![s] = x] /\ UNCHANGED <<marker, sent>>
        BY <2>2 DEF Ship
      <3>2. x \in Run /\ x.pc = "marker" /\ x.at = shipper[s].at
        BY <1>t
      <3>3. x.at = 0
        BY <2>2, <3>2, <1>i DEF Ship, ShipperAt
      <3> HIDE DEF Run, x
      <3> QED
        BY <2>m, <2>s, <3>1, <3>2, <3>3, <1>i
    <2>3. CASE ReadMarker(s)
      <3> DEFINE x == [shipper[s] EXCEPT !.pc = "log", !.prev = marker, !.at = marker]
      <3>1. shipper' = [shipper EXCEPT ![s] = x] /\ UNCHANGED <<marker, sent>>
        BY <2>3, <1>n, <1>k, <1>t DEF ReadMarker
      <3>2. x \in Run /\ x.pc = "log" /\ x.at = marker /\ x.prev = marker
        BY <1>t
      <3>3. shipper[s].at = 0
        BY <2>3, <1>i DEF ReadMarker, ShipperAt
      <3>4. \A i \in 1..MaxLines : i > marker' /\ i > x.at => sent'[i] = 0
        BY <2>s, <3>1, <3>2, <3>3, <1>t
      <3>5. x.at >= marker'
        BY <3>1, <3>2, <1>t
      <3> HIDE DEF Run, x
      <3> QED
        BY <2>m, <3>1, <3>2, <3>4, <3>5, <1>i
    <2>e. ASSUME ShipperDone(s), UNCHANGED sent, marker' >= marker, marker' >= shipper[s].at, marker' \in 0..MaxLines
          PROVE  SentInv'
      <3>1. NoShipper \in Run /\ NoShipper.pc = "idle" /\ NoShipper.at = 0
        BY <1>t DEF NoShipper
      <3>2. shipper' = [shipper EXCEPT ![s] = NoShipper]
        BY <2>e DEF ShipperDone
      <3>3. \A i \in 1..MaxLines : i > marker' => sent'[i] = 0
        BY <2>e, <2>s, <1>t
      <3> HIDE DEF Run
      <3> QED
        BY <2>m, <2>e, <3>1, <3>2, <3>3, <1>i
    <2>4. CASE ReadLog(s)
      <3> DEFINE total == IF log = <<>> THEN 1 ELSE Len(log)
                 x == [shipper[s] EXCEPT !.pc = "emit", !.total = total]
      <3>1. shipper[s].at = marker /\ UNCHANGED <<marker, sent>>
        BY <2>4, <1>i DEF ReadLog, ShipperAt
      <3>2. CASE total <= shipper[s].prev
        BY <2>4, <3>1, <3>2, <2>e, <1>t DEF ReadLog
      <3>3. CASE ~(total <= shipper[s].prev)
        <4>1. shipper' = [shipper EXCEPT ![s] = x]
          BY <2>4, <3>3, <1>t DEF ReadLog
        <4>2. total \in 0..MaxLines
          BY <1>t
        <4>3. x \in Run /\ x.pc = "emit" /\ x.at = marker
          BY <1>t, <4>2, <3>1
        <4>4. \A i \in 1..MaxLines : i > marker' /\ i > x.at => sent'[i] = 0
          BY <2>s, <3>1, <4>3
        <4>5. x.at >= marker'
          BY <3>1, <4>3, <1>t
        <4> HIDE DEF Run, x, total
        <4> QED
          BY <2>m, <3>1, <4>1, <4>3, <4>4, <4>5, <1>i
      <3> QED
        BY <3>2, <3>3
    <2>5. CASE Emit(s)
      <3> DEFINE i == shipper[s].at + 1
      <3>1. /\ i \in 1..MaxLines /\ shipper[s].pc = "emit" /\ UNCHANGED marker
            /\ shipper[s].at >= marker
        BY <2>5, <1>t, <1>i DEF Emit, ShipperAt
      <3>2. sent[i] = 0
        BY <3>1, <2>s, <1>t
      <3>3. PICK x \in Run : shipper' = [shipper EXCEPT ![s] = x] /\ x.pc = "emit" /\ x.at = i
        <4>1. CASE Forwarded(i)
          <5> DEFINE x == [shipper[s] EXCEPT !.at = i, !.shipped = @ + 1]
          <5>1. shipper' = [shipper EXCEPT ![s] = x]
            BY <2>5, <4>1, <1>t DEF Emit
          <5>2. ASSUME NEW m \in 0..MaxLines, NEW n \in 0..MaxLines
                PROVE  [shipper[s] EXCEPT !.at = m, !.shipped = n] \in Run
            BY <1>t
          <5>3. i \in 0..MaxLines /\ shipper[s].shipped + 1 \in 0..MaxLines
            BY <1>t, <3>1 DEF TrailInv, RunIsCovered
          <5>4. x \in Run
            BY <5>2, <5>3, Zenon
          <5>5. x.pc = "emit" /\ x.at = i
            BY <1>t, <3>1
          <5> QED
            BY <5>1, <5>4, <5>5
        <4>2. CASE ~Forwarded(i)
          <5> DEFINE x == [shipper[s] EXCEPT !.at = i]
          <5>1. shipper' = [shipper EXCEPT ![s] = x]
            BY <2>5, <4>2, <1>t DEF Emit
          <5>2. x \in Run /\ x.pc = "emit" /\ x.at = i
            BY <1>t, <3>1
          <5> QED
            BY <5>1, <5>2
        <4> QED
          BY <4>1, <4>2
      <3>4. \A k \in 1..MaxLines : sent'[k] = sent[k] \/ (k = i /\ sent'[k] = 1)
        <4>1. CASE Forwarded(i)
          <5>1. sent' = [sent EXCEPT ![i] = IF sent[i] < MaxSent THEN sent[i] + 1 ELSE sent[i]]
            BY <2>5, <4>1 DEF Emit
          <5> QED
            BY <5>1, <3>2, <1>t, <3>1 DEF MaxSent
        <4>2. CASE ~Forwarded(i)
          BY <2>5, <4>2 DEF Emit
        <4> QED
          BY <4>1, <4>2
      <3>5. \A k \in 1..MaxLines : sent'[k] <= 1
        BY <3>4, <1>i
      <3>6. \A k \in 1..MaxLines : k > marker' /\ k > i => sent'[k] = 0
        <4>1. ASSUME NEW k \in 1..MaxLines, k > marker', k > i PROVE sent'[k] = 0
          <5>1. k > marker /\ k > shipper[s].at /\ k # i
            BY <4>1, <3>1, <1>t
          <5> QED
            BY <5>1, <2>s, <3>4
        <4> QED
          BY <4>1
      <3>7. i >= marker'
        BY <3>1, <1>t
      <3> HIDE DEF Run, i
      <3> QED
        BY <2>m, <3>3, <3>5, <3>6, <3>7
    <2>7. CASE PersistAll(s)
      <3>1. /\ shipper[s].at >= marker /\ shipper[s].at = shipper[s].total
            /\ Persist(s, shipper[s].total)
        BY <2>7, <1>i DEF PersistAll, ShipperAt
      <3>2. marker' = shipper[s].total /\ ShipperDone(s) /\ UNCHANGED sent
        BY <3>1, <1>n, <1>k DEF Persist
      <3> QED
        BY <2>e, <3>1, <3>2, <1>t
    <2>8. ~(ReadLogFails(s) \/ EmitFails(s) \/ PersistFailed(s) \/ ShipperDies(s))
      BY <1>n, <1>k, <1>i DEF ReadLogFails, EmitFails, PersistFailed, ShipperDies, ShipperAt
    <2> QED
      BY <1>2, <2>2, <2>3, <2>4, <2>5, <2>7, <2>8
  <1> QED
    BY <1>1, <1>2 DEF AuditNext

\* As long as another part moves, the trail stays as it was initially.
TrailHolds == /\ part = "audit" => TrailInv /\ SentInv
              /\ part # "audit" => AuditInit

LEMMA NextTrailHolds == TrailHolds /\ [Next]_allVars => TrailHolds'
  <1> SUFFICES ASSUME TrailHolds, [Next]_allVars PROVE TrailHolds'
    OBVIOUS
  <1>1. CASE Audit
    BY <1>1, NextTrail, NextSent DEF Audit, TrailHolds
  <1>2. CASE UNCHANGED allVars
    BY <1>2 DEF allVars, auditVars, TrailHolds, TrailInv, TrailTyped, SentInv, AsIntended, NoneOf, Alone,
                AuditInit, LuckTypeOK, Reached, Covered, CoveredBy, RunIsCovered, Forwarded
  <1>3. CASE part # "audit" /\ UNCHANGED <<part, auditVars>>
    BY <1>3 DEF auditVars, TrailHolds, AuditInit
  <1> QED
    BY <1>1, <1>2, <1>3 DEF Next, Env, Backup, Vault_, Secret, Conf, Rest

\* The audit trail has every access to a secret that the marker counts as
\* shipped, however runs of `secret audit ship` fail, die and overlap; and it
\* has none twice if nothing fails and they follow one another.
THEOREM TrailStaysTrue == Spec => []TrailIsTrue
  <1>1. Init => TrailHolds
    BY LuckAtFirst, InitTrail, InitSent DEF Init, TrailHolds
  <1>2. TrailHolds => TrailIsTrue
    <2>1. CASE part = "audit"
      <3>1. TrailInv => DOMAIN log \subseteq 1..MaxLines
        BY AuditAssumption DEF TrailInv, TrailTyped
      <3> QED
        BY <2>1, <3>1 DEF TrailHolds, TrailInv, SentInv, TrailIsTrue, NoneSkipped, ShippedOnce, Covered,
                          CoveredBy, AsIntended
    <2>2. CASE part # "audit"
      BY <2>2 DEF TrailHolds, AuditInit, TrailIsTrue, NoneSkipped, ShippedOnce
    <2> QED
      BY <2>1, <2>2
  <1> QED
    BY <1>1, <1>2, NextTrailHolds, PTL DEF Spec

-----------------------------------------------------------------------------
\* The configuration.  What was loaded is the merge of the two files, and it,
\* like the base, passes the checks.
ConfigInv ==
    /\ IsDocument(base) /\ IsDocument(overlay)
    /\ \/ loaded = NotLoaded
       \/ loaded = [is |-> "error", doc |-> Empty]
       \/ /\ loaded = [is |-> "config", doc |-> MergeConfigs(base, overlay)]
          /\ Validate(base) /\ Validate(MergeConfigs(base, overlay))

\* A field that neither file sets is not set by their merge.
LEMMA NothingFromNothing ==
  ASSUME NEW b, NEW o, NEW f \in Fields, ~Has(b, f), ~Has(o, f)
  PROVE  MergeField(b, o, f) = Unset
  <1>1. At(b, f) = Unset /\ At(o, f) = Unset
    BY DEF At
  <1>2. Over(o, b, f) = Unset /\ MergeMaps(b, o, f) = Unset /\ MergeAccessory(b, o, f) = Unset
        /\ MergeBlock(b, o, f) = Unset
    BY <1>1 DEF Over, MergeMaps, MergeAccessory, MergeBlock
  <1> QED
    BY <1>1, <1>2 DEF MergeField, Fields

\* The merge has of each field what mergeConfigs says of that field.
LEMMA MergedField ==
  ASSUME NEW b, NEW o, NEW f \in Fields
  PROVE  At(MergeConfigs(b, o), f) = MergeField(b, o, f)
  <1>1. CASE f \in DOMAIN MergeConfigs(b, o)
    BY <1>1 DEF At, Has, MergeConfigs
  <1>2. CASE f \notin DOMAIN MergeConfigs(b, o)
    <2>1. MergeField(b, o, f) = Unset
      BY <1>2, NothingFromNothing DEF MergeConfigs, Has
    <2> QED
      BY <1>2, <2>1 DEF At, Has
  <1> QED
    BY <1>1, <1>2

\* A field that the overlay does not set stays the base's, unless it belongs to
\* a block that comes as a whole.
LEMMA UnsetStaysBase ==
  ASSUME NEW b, NEW o, NEW f \in Fields \ Blocks, ~Has(o, f)
  PROVE  MergeField(b, o, f) = At(b, f)
  BY DEF MergeField, Fields, Over, MergeMaps, MergeAccessory, Plain, Maps, Accessory, Blocks, Unmerged, Choices

LEMMA DocumentGrows ==
  ASSUME NEW d, IsDocument(d), NEW f \in Fields, NEW v \in ValuesOf(f)
  PROVE  IsDocument(With(d, f, v))
  BY DEF IsDocument, With

LEMMA NextConfig == ConfigInv /\ ConfigNext => ConfigInv'
  <1> SUFFICES ASSUME ConfigInv, ConfigNext PROVE ConfigInv'
    OBVIOUS
  <1>1. CASE LoadConfig
    BY <1>1 DEF LoadConfig, ConfigInv
  <1>2. CASE NoDomain
    <2>1. IsDocument(base)'
      BY <1>2 DEF NoDomain, ConfigInv, IsDocument
    <2> QED
      BY <1>2, <2>1 DEF NoDomain, ConfigInv
  <1>3. ASSUME NEW f \in Fields, NEW v \in ValuesOf(f), WriteBase(f, v) PROVE ConfigInv'
    BY <1>3, DocumentGrows DEF WriteBase, ConfigInv
  <1>4. ASSUME NEW f \in Fields, NEW v \in ValuesOf(f), WriteOverlay(f, v) PROVE ConfigInv'
    BY <1>4, DocumentGrows DEF WriteOverlay, ConfigInv
  <1> QED
    BY <1>1, <1>2, <1>3, <1>4 DEF ConfigNext

ConfigHolds == /\ part = "config" => ConfigInv
               /\ part # "config" => ConfigInit

LEMMA NextConfigHolds == ConfigHolds /\ [Next]_allVars => ConfigHolds'
  <1> SUFFICES ASSUME ConfigHolds, [Next]_allVars PROVE ConfigHolds'
    OBVIOUS
  <1>1. CASE Conf
    BY <1>1, NextConfig DEF Conf, ConfigHolds
  <1>2. CASE UNCHANGED <<part, configVars>>
    BY <1>2 DEF configVars, ConfigHolds, ConfigInv, ConfigInit
  <1> QED
    BY <1>1, <1>2 DEF Next, Env, Backup, Vault_, Secret, Audit, Rest, allVars

\* A destination's overlay takes nothing else from the base (blocks that come
\* as a whole excepted) and does not open an app that its base gates, whatever
\* the two files set.
THEOREM OverlayStaysMerged == Spec => []OverlayIsMerged
  <1>1. Init => ConfigHolds
    BY DEF Init, ConfigInit, ConfigHolds, ConfigInv, IsDocument, Start, Empty, Fields, Plain, ValuesOf, Choices
  <1>2. ASSUME ConfigHolds PROVE OverlayIsMerged
    <2> SUFFICES ASSUME loaded.is = "config" PROVE OverlayIsMerged
      BY DEF OverlayIsMerged, KeepsTheBase, GateStays
    <2>1. /\ ConfigInv
          /\ loaded = [is |-> "config", doc |-> MergeConfigs(base, overlay)]
          /\ Validate(MergeConfigs(base, overlay))
      BY <1>2 DEF ConfigHolds, ConfigInit, NotLoaded, ConfigInv
    <2> DEFINE doc == MergeConfigs(base, overlay)
    <2>2. ASSUME NEW f \in Fields \ Blocks, ~Has(overlay, f) PROVE At(doc, f) = At(base, f)
      BY <2>2, MergedField, UnsetStaysBase
    <2>3. ASSUME NEW f \in {"firewall", "access"}, Has(base, f)
          PROVE  /\ At(doc, f) = base[f]
                 /\ At(doc, "ingress") \in {Unset, "caddy"} /\ At(doc, "type") # "static"
      <3>1. f \in Unmerged /\ f \in Fields /\ f \notin Plain \cup DOMAIN Choices \cup Maps \cup Blocks \cup Accessory
        BY DEF Unmerged, Fields, Plain, Choices, Maps, Blocks, Accessory
      <3>2. At(doc, f) = base[f]
        <4>1. MergeField(base, overlay, f) = At(base, f)
          BY <3>1 DEF MergeField
        <4> QED
          BY <4>1, <3>1, <2>3, MergedField DEF At
      <3>3. Has(doc, f)
        <4>1. base[f] # Unset
          BY <2>1, <2>3, <3>1 DEF ConfigInv, IsDocument, ValuesOf, Has, Unset
        <4> QED
          BY <3>2, <4>1 DEF At
      <3>4. At(doc, "type") # "static" /\ At(doc, "ingress") \notin {"external", "host"}
        BY <2>1, <3>3 DEF Validate, ValidGates
      <3>5. At(doc, "ingress") \in {Unset, "caddy", "external", "host"}
        <4>1. "ingress" \in Fields /\ "ingress" \in DOMAIN Choices /\ "ingress" \notin Maps \cup Accessory \cup Blocks \cup Unmerged
          BY DEF Fields, Choices, Maps, Accessory, Blocks, Unmerged
        <4>2. At(doc, "ingress") = Over(overlay, base, "ingress")
          BY <4>1, MergedField DEF MergeField
        <4>3. \A d : IsDocument(d) => At(d, "ingress") \in {Unset, "caddy", "external", "host"}
          BY <4>1 DEF IsDocument, At, Has, ValuesOf, Choices
        <4> QED
          BY <4>2, <4>3, <2>1 DEF ConfigInv, Over, At
      <3> QED
        BY <3>2, <3>4, <3>5
    <2> HIDE DEF doc
    <2>4. loaded.doc = doc
      BY <2>1 DEF doc
    <2> QED
      BY <2>2, <2>3, <2>4 DEF OverlayIsMerged, KeepsTheBase, GateStays
  <1> QED
    BY <1>1, <1>2, NextConfigHolds, PTL DEF Spec

-----------------------------------------------------------------------------
\* Accessories: types.  A deploy or an upgrade generates a password at most
\* once, so the passwords made, the commands that may still make one and the
\* operations left are together at most MaxOps.
AShell == [pc : {"idle", "pull", "stop", "creds", "save", "inspect", "run", "read",
                 "create", "upload", "append", "edit", "write"},
           op : {"none", "deploy", "upgrade", "set", "unset"},
           app : Tenants \cup {"nobody"}, key : EnvKeys,
           pass : Generated \cup {NoValue}, seen : [EnvKeys -> Value]]

Preparing == {s \in Shells : shell[s].pc \in {"pull", "stop", "creds"}}

EnvTyped ==
    /\ LuckTypeOK /\ EnvTypeOK
    /\ \A s \in Shells : ~ShellAt(s, "idle") => App(s) \in Tenants
    /\ IsFiniteSet(Preparing)
    /\ made + Cardinality(Preparing) + luck.ops <= MaxOps

LEMMA NoShellType == NoShell \in AShell /\ EmptyFile \in [EnvKeys -> Value]
  BY DEF NoShell, AShell, EmptyFile, EnvKeys, Value

LEMMA InitEnvTyped == EnvInit /\ LuckTypeOK => EnvTyped
  <1> SUFFICES ASSUME EnvInit, LuckTypeOK PROVE EnvTyped
    OBVIOUS
  <1>1. Preparing = {}
    BY DEF EnvInit, Preparing, NoShell
  <1>2. IsFiniteSet(Preparing) /\ Cardinality(Preparing) = 0
    BY <1>1, FS_EmptySet
  <1>3. made + Cardinality(Preparing) + luck.ops <= MaxOps
    BY <1>2, MishapsAssumption DEF EnvInit, LuckTypeOK
  <1>4. EnvTypeOK
    BY NoShellType, MishapsAssumption DEF EnvInit, EnvTypeOK, AShell
  <1> QED
    BY <1>2, <1>3, <1>4 DEF EnvTyped, EnvInit, ShellAt, NoShell

\* The steps of a command, told apart by what they do to the commands.
LEMMA ShellStepForms ==
  ASSUME EnvTyped, NEW s \in Shells, ShellStep(s)
  PROVE  \/ ShellDone(s) /\ UNCHANGED made
         \/ \E l \in {"stop", "creds", "inspect", "run", "read", "create", "upload", "append"} :
                ShellGo(s, l) /\ UNCHANGED made /\ (l \in {"stop", "creds"} => s \in Preparing)
         \/ /\ ShellAt(s, "creds") /\ creds[App(s)] # NoValue
            /\ shell' = [shell EXCEPT ![s].pc = "inspect", ![s].pass = creds[App(s)]]
            /\ UNCHANGED made
         \/ /\ ShellAt(s, "creds") /\ made' = made + 1
            /\ shell' = [shell EXCEPT ![s].pc = "save",
                                      ![s].pass = [of |-> App(s), num |-> made + 1]]
         \/ /\ ShellAt(s, "edit") /\ UNCHANGED made
            /\ shell' = [shell EXCEPT ![s].pc = "write", ![s].seen = env[App(s)]]
  <1>1. CASE PullImage(s)
    BY <1>1 DEF PullImage, Preparing, ShellAt
  <1>2. CASE RemoveDb(s)
    BY <1>2 DEF RemoveDb, Preparing, ShellAt
  <1>3. CASE ResolveEnv(s)
    BY <1>3 DEF ResolveEnv
  <1>4. CASE SaveCredentials(s)
    BY <1>4 DEF SaveCredentials
  <1>5. CASE InspectDb(s)
    BY <1>5 DEF InspectDb, Injected
  <1>6. CASE RunDb(s)
    BY <1>6 DEF RunDb, Injected
  <1>7. CASE ReadEnvFile(s)
    <2>1. PICK seen \in {env[App(s)], EmptyFile} :
            CASE seen["url"] # NoValue -> ShellDone(s)
              [] seen = EmptyFile      -> ShellGo(s, "create")
              [] OTHER                 -> ShellGo(s, "upload")
      BY <1>7 DEF ReadEnvFile
    <2>2. seen = EmptyFile => seen["url"] = NoValue
      BY DEF EmptyFile, EnvKeys
    <2>3. ShellDone(s) \/ ShellGo(s, "create") \/ ShellGo(s, "upload")
      BY <2>1, <2>2
    <2> QED
      BY <2>3, <1>7 DEF ReadEnvFile
  <1>8. CASE CreateEnvFile(s) \/ AppendLines(s) \/ WriteEdited(s) \/ ShellFails(s) \/ ShellDies(s)
    BY <1>8 DEF CreateEnvFile, AppendLines, WriteEdited, ShellFails, ShellDies
  <1>9. CASE UploadLines(s)
    BY <1>9 DEF UploadLines
  <1>10. CASE ReadToEdit(s)
    BY <1>10 DEF ReadToEdit
  <1> QED
    BY <1>1, <1>2, <1>3, <1>4, <1>5, <1>6, <1>7, <1>8, <1>9, <1>10 DEF ShellStep

\* The kinds of mishaps and uses that commands are subject to.
LEMMA ShellLuck ==
  ASSUME EnvTyped, EnvNext
  PROVE  \/ UNCHANGED luck
         \/ \E K \in SUBSET MishapKinds : BeginAs(K) \/ MishapAs(K)
  <1>1. ASSUME NEW s \in Shells, ShellStep(s) PROVE UNCHANGED luck \/ \E k \in MishapKinds : Mishap(k)
    BY <1>1 DEF ShellStep, PullImage, RemoveDb, ResolveEnv, SaveCredentials, InspectDb, RunDb, ReadEnvFile,
       CreateEnvFile, UploadLines, AppendLines, ReadToEdit, WriteEdited, ShellFails, ShellDies, MishapKinds
  <1>2. ASSUME NEW s \in Shells, NEW op, NEW a, NEW k, StartShell(s, op, a, k)
        PROVE  \E K \in SUBSET MishapKinds : BeginAs(K)
    BY <1>2 DEF StartShell, MishapKinds
  <1>3. ASSUME NEW a \in Tenants, StopDb(a) \/ StartDb(a) PROVE \E K \in SUBSET MishapKinds : BeginAs(K)
    BY <1>3 DEF StopDb, StartDb, Begin
  <1>4. ASSUME NEW k \in MishapKinds, Mishap(k) PROVE \E K \in SUBSET MishapKinds : MishapAs(K)
    BY <1>4 DEF Mishap
  <1> QED
    BY <1>1, <1>2, <1>3, <1>4 DEF EnvNext

LEMMA NextEnvTyped == EnvTyped /\ EnvNext => EnvTyped'
  <1> SUFFICES ASSUME EnvTyped, EnvNext PROVE EnvTyped'
    OBVIOUS
  <1>t. /\ creds \in [Tenants -> Generated \cup {NoValue}]
        /\ dbPass \in [Tenants -> Generated \cup {NoValue}]
        /\ db \in [Tenants -> {"absent", "exited", "running"}]
        /\ env \in [Tenants -> [EnvKeys -> Value]]
        /\ scratch \in Generated \cup {NoValue}
        /\ made \in Nat /\ MaxOps \in Nat /\ luck.ops \in Nat
        /\ shell \in [Shells -> AShell]
        /\ IsFiniteSet(Preparing) /\ Cardinality(Preparing) \in Nat
        /\ made + Cardinality(Preparing) + luck.ops <= MaxOps
    BY MishapsAssumption, FS_CardinalityType DEF EnvTyped, EnvTypeOK, AShell, LuckTypeOK
  <1>l. LuckTypeOK' /\ luck'.ops \in Nat /\ luck'.ops <= luck.ops
    <2>1. CASE UNCHANGED luck
      BY <2>1, <1>t DEF EnvTyped, LuckTypeOK
    <2>2. CASE \E K \in SUBSET MishapKinds : BeginAs(K) \/ MishapAs(K)
      <3>1. PICK K \in SUBSET MishapKinds : BeginAs(K) \/ MishapAs(K)
        BY <2>2
      <3>2. LuckTypeOK'
        BY <3>1, LuckKept DEF EnvTyped
      <3>3. luck'.ops \in Nat
        BY <3>2, MishapsAssumption DEF LuckTypeOK
      <3> QED
        BY <3>1, <3>2, <3>3, OpsSpent, <1>t DEF EnvTyped
    <2> QED
      BY <2>1, <2>2, ShellLuck
  <1>c. ASSUME NEW s \in Shells, Preparing' \in {Preparing, Preparing \ {s}}
        PROVE  /\ IsFiniteSet(Preparing') /\ Cardinality(Preparing') \in Nat
               /\ Cardinality(Preparing') <= Cardinality(Preparing)
               /\ s \in Preparing /\ Preparing' = Preparing \ {s} =>
                    Cardinality(Preparing') = Cardinality(Preparing) - 1
    <2>1. /\ IsFiniteSet(Preparing \ {s})
          /\ Cardinality(Preparing \ {s}) =
               IF s \in Preparing THEN Cardinality(Preparing) - 1 ELSE Cardinality(Preparing)
      BY <1>t, FS_RemoveElement
    <2>2. Cardinality(Preparing \ {s}) \in Nat
      BY <2>1, FS_CardinalityType
    <2>3. CASE Preparing' = Preparing /\ ~(s \in Preparing /\ Preparing' = Preparing \ {s})
      BY <1>t, <2>3
    <2>4. CASE Preparing' = Preparing \ {s}
      BY <1>t, <2>1, <2>2, <2>4
    <2> QED
      BY <1>c, <2>3, <2>4
  <1>e. ASSUME EnvTypeOK', \A x \in Shells : shell'[x].pc # "idle" => shell'[x].app \in Tenants,
               IsFiniteSet(Preparing'), made' + Cardinality(Preparing') + luck'.ops <= MaxOps
        PROVE  EnvTyped'
    BY <1>e, <1>l DEF EnvTyped, ShellAt, App
  <1>1. ASSUME NEW s \in Shells, ShellStep(s) PROVE EnvTyped'
    <2>a. shell[s].pc # "idle" /\ App(s) \in Tenants
      BY <1>1 DEF EnvTyped, ShellAt, ShellStep, PullImage, RemoveDb, ResolveEnv, SaveCredentials, InspectDb,
         RunDb, ReadEnvFile, CreateEnvFile, UploadLines, AppendLines, ReadToEdit, WriteEdited, ShellFails, ShellDies
    <2>t. shell[s] \in AShell
      BY <1>t
    <2>d. /\ creds' \in [Tenants -> Generated \cup {NoValue}]
          /\ dbPass' \in [Tenants -> Generated \cup {NoValue}]
          /\ db' \in [Tenants -> {"absent", "exited", "running"}]
          /\ scratch' \in Generated \cup {NoValue}
      BY ZenonT(40), <1>1, <2>t, <1>t DEF AShell, ShellStep, PullImage, RemoveDb, ResolveEnv, SaveCredentials, InspectDb,
         RunDb, ReadEnvFile, CreateEnvFile, UploadLines, AppendLines, ReadToEdit, WriteEdited, ShellFails, ShellDies
    <2>v. env' \in [Tenants -> [EnvKeys -> Value]]
      <3>0. /\ EmptyFile \in [EnvKeys -> Value] /\ "url" \in EnvKeys /\ UserValue \in Value /\ NoValue \in Value
            /\ Generated \subseteq Value
        BY NoShellType DEF EnvKeys, Value
      <3>1. CASE UNCHANGED env
        BY <3>1, <1>t
      <3>2. ASSUME NEW v \in [EnvKeys -> Value], env' = [env EXCEPT ![App(s)] = v]
            PROVE  env' \in [Tenants -> [EnvKeys -> Value]]
        BY <3>2, <1>t
      <3>3. shell[s].pass \in Value /\ scratch \in Value /\ shell[s].seen \in [EnvKeys -> Value]
            /\ env[App(s)] \in [EnvKeys -> Value]
        BY <2>t, <2>a, <1>t DEF AShell, Value
      <3>4. CASE CreateEnvFile(s)
        <4>1. [EmptyFile EXCEPT !["url"] = shell[s].pass] \in [EnvKeys -> Value]
          BY <3>0, <3>3
        <4> QED
          BY <4>1, <3>0, <3>2, <3>4 DEF CreateEnvFile
      <3>5. CASE AppendLines(s)
        <4>1. [env[App(s)] EXCEPT !["url"] = scratch] \in [EnvKeys -> Value]
          BY <3>0, <3>3
        <4>2. CASE env' = [env EXCEPT ![App(s)]["url"] = scratch]
          BY <4>1, <4>2, <3>2
        <4> QED
          BY <4>2, <3>1, <3>5 DEF AppendLines
      <3>6. CASE WriteEdited(s)
        <4>1. \A v \in {UserValue, NoValue} :
                 [shell[s].seen EXCEPT ![shell[s].key] = v] \in [EnvKeys -> Value]
          BY <3>0, <3>3
        <4> QED
          BY <4>1, <3>0, <3>2, <3>6 DEF WriteEdited
      <3> QED
        BY <1>1, <3>1, <3>4, <3>5, <3>6 DEF ShellStep, PullImage, RemoveDb, ResolveEnv, SaveCredentials, InspectDb,
         RunDb, ReadEnvFile, UploadLines, ReadToEdit, ShellFails, ShellDies
    <2>m. ASSUME NEW x \in AShell, shell' = [shell EXCEPT ![s] = x], x.pc # "idle" => x.app \in Tenants,
                 x.pc \in {"pull", "stop", "creds"} => s \in Preparing,
                 made' = made \/ (made' = made + 1 /\ s \in Preparing /\ x.pc \notin {"pull", "stop", "creds"})
          PROVE  EnvTyped'
      <3>1. shell' \in [Shells -> AShell] /\ shell'[s] = x /\ \A y \in Shells \ {s} : shell'[y] = shell[y]
        BY <2>m, <1>t
      <3>2. Preparing' = IF x.pc \in {"pull", "stop", "creds"} THEN Preparing ELSE Preparing \ {s}
        BY <2>m, <3>1 DEF Preparing
      <3>3. made' \in Nat /\ made' + Cardinality(Preparing') + luck'.ops <= MaxOps
        <4> DEFINE n == Cardinality(Preparing)
                   m == Cardinality(Preparing')
        <4>1. n \in Nat /\ m \in Nat /\ m <= n /\ made + n + luck.ops <= MaxOps
          BY <3>2, <1>c, <1>t
        <4>2. made' = made \/ (made' = made + 1 /\ m = n - 1)
          BY <2>m, <3>2, <1>c
        <4> HIDE DEF n, m
        <4>3. made' \in Nat /\ made' + m + luck'.ops <= MaxOps
          BY <4>1, <4>2, <1>l, <1>t
        <4> QED
          BY <4>3 DEF m
      <3>4. IsFiniteSet(Preparing') /\ Cardinality(Preparing') \in Nat
        BY <3>2, <1>c
      <3>5. made' \in 0..MaxOps
        BY <3>3, <3>4, <1>l, <1>t
      <3>6. EnvTypeOK'
        BY <3>1, <3>5, <2>d, <2>v DEF EnvTypeOK, AShell
      <3>7. \A y \in Shells : shell'[y].pc # "idle" => shell'[y].app \in Tenants
        BY <3>1, <2>m DEF EnvTyped, ShellAt, App
      <3> QED
        BY <1>e, <3>3, <3>4, <3>6, <3>7
    <2>2. CASE ShellDone(s) /\ UNCHANGED made
      BY <2>2, <2>m, NoShellType DEF ShellDone, NoShell
    <2>3. ASSUME NEW l \in {"stop", "creds", "inspect", "run", "read", "create", "upload", "append"},
                 ShellGo(s, l), UNCHANGED made, l \in {"stop", "creds"} => s \in Preparing
          PROVE  EnvTyped'
      <3> DEFINE x == [shell[s] EXCEPT !.pc = l]
      <3>1. x \in AShell /\ x.pc = l /\ x.app = App(s)
        BY <2>t DEF AShell, App
      <3>2. shell' = [shell EXCEPT ![s] = x]
        BY <2>3 DEF ShellGo
      <3> HIDE DEF x
      <3> QED
        BY <2>3, <2>m, <3>1, <3>2, <2>a
    <2>4. CASE /\ ShellAt(s, "creds") /\ creds[App(s)] # NoValue
               /\ shell' = [shell EXCEPT ![s].pc = "inspect", ![s].pass = creds[App(s)]]
               /\ UNCHANGED made
      <3> DEFINE x == [shell[s] EXCEPT !.pc = "inspect", !.pass = creds[App(s)]]
      <3>1. x \in AShell /\ x.pc = "inspect" /\ x.app = App(s)
        BY <2>t, <2>a, <1>t DEF AShell, App
      <3>2. shell' = [shell EXCEPT ![s] = x]
        BY <2>4, <1>t
      <3> HIDE DEF x
      <3> QED
        BY <2>4, <2>m, <3>1, <3>2, <2>a
    <2>5. CASE /\ ShellAt(s, "creds") /\ made' = made + 1
               /\ shell' = [shell EXCEPT ![s].pc = "save",
                                      ![s].pass = [of |-> App(s), num |-> made + 1]]
      <3> DEFINE pass == [of |-> App(s), num |-> made + 1]
                 x == [shell[s] EXCEPT !.pc = "save", !.pass = pass]
      <3>1. s \in Preparing
        BY <2>5 DEF Preparing, ShellAt
      <3>2. made + 1 \in 1..MaxOps
        <4>1. Preparing # {} => Cardinality(Preparing) # 0
          BY <1>t, FS_EmptySet
        <4> QED
          <5> DEFINE n == Cardinality(Preparing)
          <5>1. n \in Nat /\ n # 0 /\ made + n + luck.ops <= MaxOps
            BY <4>1, <3>1, <1>t
          <5> HIDE DEF n
          <5> QED
            BY <5>1, <1>t
      <3>3. pass \in Generated
        BY <3>2, <2>a DEF Generated
      <3>4. shell' = [shell EXCEPT ![s] = x]
        BY <2>5, <1>t
      <3> HIDE DEF pass
      <3>5. x \in AShell /\ x.pc = "save" /\ x.app = App(s)
        BY <2>t, <3>3 DEF AShell, App
      <3> HIDE DEF x
      <3> QED
        BY <2>5, <2>m, <3>1, <3>4, <3>5, <2>a
    <2>6. CASE /\ ShellAt(s, "edit") /\ UNCHANGED made
               /\ shell' = [shell EXCEPT ![s].pc = "write", ![s].seen = env[App(s)]]
      <3> DEFINE x == [shell[s] EXCEPT !.pc = "write", !.seen = env[App(s)]]
      <3>1. x \in AShell /\ x.pc = "write" /\ x.app = App(s)
        BY <2>t, <2>a, <1>t DEF AShell, App
      <3>2. shell' = [shell EXCEPT ![s] = x]
        BY <2>6, <1>t
      <3> HIDE DEF x
      <3> QED
        BY <2>6, <2>m, <3>1, <3>2, <2>a
    <2> QED
      BY <1>1, ShellStepForms, <2>2, <2>3, <2>4, <2>5, <2>6
  <1>2. ASSUME NEW s \in Shells, NEW a \in Tenants, NEW op \in {"deploy", "upgrade", "set", "unset"},
               NEW k \in EnvKeys, StartShell(s, op, a, k)
        PROVE  EnvTyped'
    <2>1. PICK l \in {"creds", "pull", "edit"} :
             shell' = [shell EXCEPT ![s] = [NoShell EXCEPT !.op = op, !.app = a, !.key = k, !.pc = l]]
      BY <1>2 DEF StartShell
    <2> DEFINE x == [NoShell EXCEPT !.op = op, !.app = a, !.key = k, !.pc = l]
    <2>2. x \in AShell /\ x.app = a
      BY NoShellType DEF AShell
    <2>3. shell' = [shell EXCEPT ![s] = x]
      BY <2>1
    <2> HIDE DEF x
    <2>4. shell' \in [Shells -> AShell] /\ shell'[s] = x /\ \A y \in Shells \ {s} : shell'[y] = shell[y]
      BY <1>t, <2>2, <2>3
    <2>5. s \notin Preparing /\ Preparing' \in {Preparing, Preparing \cup {s}}
      BY <2>4, <1>2 DEF Preparing, StartShell, ShellAt
    <2>6. /\ IsFiniteSet(Preparing \cup {s})
          /\ Cardinality(Preparing \cup {s}) = Cardinality(Preparing) + 1
      BY <2>5, <1>t, FS_AddElement
    <2>7. luck'.ops = luck.ops - 1
      BY <1>2, OpsSpent DEF StartShell, EnvTyped
    <2>8. IsFiniteSet(Preparing') /\ made + Cardinality(Preparing') + luck'.ops <= MaxOps
      <3> DEFINE n == Cardinality(Preparing)
                 m == Cardinality(Preparing')
      <3>1. n \in Nat /\ m \in {n, n + 1} /\ made + n + luck.ops <= MaxOps
        BY <2>5, <2>6, <1>t
      <3> HIDE DEF n, m
      <3>2. made + m + luck'.ops <= MaxOps
        BY <3>1, <2>7, <1>t
      <3> QED
        BY <3>2, <2>5, <2>6, <1>t DEF m
    <2>9. EnvTypeOK'
      BY <1>2, <2>4 DEF StartShell, EnvTyped, EnvTypeOK, AShell
    <2>10. \A y \in Shells : shell'[y].pc # "idle" => shell'[y].app \in Tenants
      BY <2>2, <2>4 DEF EnvTyped, ShellAt, App
    <2> QED
      BY <1>e, <1>2, <2>8, <2>9, <2>10 DEF StartShell
  <1>3. ASSUME NEW a \in Tenants, StopDb(a) \/ StartDb(a) PROVE EnvTyped'
    <2>1. Preparing' = Preparing
      BY <1>3 DEF StopDb, StartDb, Preparing
    <2>2. made' + Cardinality(Preparing') + luck'.ops <= MaxOps
      BY <1>3, <2>1, <1>l, <1>t DEF StopDb, StartDb
    <2>3. EnvTypeOK'
      BY <1>3, <1>t DEF StopDb, StartDb, EnvTyped, EnvTypeOK
    <2> QED
      BY <1>e, <1>3, <1>t, <2>1, <2>2, <2>3 DEF StopDb, StartDb, EnvTyped, ShellAt, App
  <1> QED
    BY <1>1, <1>2, <1>3 DEF EnvNext, EnvKeys

\* As long as every read succeeds and commands follow one another: the stored
\* credentials are those the data directory was initialised with, a database
\* that was ever started has one, and what a command has in hand is what its
\* next step takes it for.
Undisturbed == NoneOf({"read", "race"})

CredentialsOf(s) ==
    LET x == shell[s] IN
    /\ x.pc = "save" => creds[App(s)] = NoValue /\ x.pass # NoValue
    /\ x.pc \in {"inspect", "run"} => x.pass # NoValue /\ creds[App(s)] = x.pass
    /\ x.pc \in {"read", "create", "upload", "append"} => x.pass # NoValue /\ dbPass[App(s)] = x.pass
    /\ x.pc = "create" => env[App(s)] = EmptyFile
    /\ x.pc \in {"upload", "append"} => env[App(s)]["url"] = NoValue
    /\ x.pc = "append" => scratch = x.pass
    /\ x.pc = "write" => x.seen = env[App(s)]

StoresAgree ==
    /\ \A a \in Tenants : dbPass[a] # NoValue => creds[a] = dbPass[a]
    /\ \A a \in Tenants : db[a] # "absent" => dbPass[a] # NoValue
    /\ \A a \in Tenants : env[a]["url"] \in {NoValue, UserValue, dbPass[a]}

CredInv == Undisturbed =>
    /\ \A s \in Shells : ~ShellAt(s, "idle") => \A x \in Shells \ {s} : ShellAt(x, "idle")
    /\ StoresAgree
    /\ \A s \in Shells : CredentialsOf(s)

LEMMA InitCred == EnvInit => CredInv
  BY DEF EnvInit, CredInv, StoresAgree, CredentialsOf, NoShell, ShellAt, EmptyFile, EnvKeys

LEMMA UndisturbedBefore ==
  ASSUME EnvTyped, EnvNext, Undisturbed'
  PROVE  Undisturbed
  <1>1. CASE UNCHANGED luck
    BY <1>1 DEF Undisturbed, NoneOf
  <1>2. CASE \E K \in SUBSET MishapKinds : BeginAs(K) \/ MishapAs(K)
    BY <1>2, NoneBefore DEF Undisturbed, EnvTyped
  <1> QED
    BY <1>1, <1>2, ShellLuck

\* A step of a command keeps the agreement and, but for an edit of the user's,
\* every value of .env.
LEMMA StepCred ==
  ASSUME EnvTyped, CredInv, NEW s \in Shells, ShellStep(s), Undisturbed'
  PROVE  CredInv' /\ KeepsValues
  <1>b. Undisturbed
    BY UndisturbedBefore DEF EnvNext
  <1>n. ~Mishap("read")
    <2> SUFFICES ASSUME Mishap("read") PROVE FALSE
      OBVIOUS
    <2> DEFINE K == {"read"}
    <2>1. MishapAs(K) /\ K \in SUBSET MishapKinds
      BY DEF Mishap, MishapKinds
    <2> HIDE DEF K
    <2>2. K \cap {"read", "race"} = {}
      BY <2>1, NoneBefore DEF Undisturbed, EnvTyped
    <2> QED
      BY <2>2 DEF K
  <1>t. /\ creds \in [Tenants -> Generated \cup {NoValue}]
        /\ dbPass \in [Tenants -> Generated \cup {NoValue}]
        /\ db \in [Tenants -> {"absent", "exited", "running"}]
        /\ env \in [Tenants -> [EnvKeys -> Value]]
        /\ shell \in [Shells -> AShell] /\ "url" \in EnvKeys
    BY DEF EnvTyped, EnvTypeOK, AShell, EnvKeys
  <1>a. shell[s] \in AShell /\ shell[s].pc # "idle" /\ App(s) \in Tenants
    BY <1>t DEF EnvTyped, ShellAt, ShellStep, PullImage, RemoveDb, ResolveEnv, SaveCredentials, InspectDb,
       RunDb, ReadEnvFile, CreateEnvFile, UploadLines, AppendLines, ReadToEdit, WriteEdited, ShellFails, ShellDies
  <1>o. \A y \in Shells \ {s} : shell[y].pc = "idle"
    BY <1>a, <1>b DEF CredInv, ShellAt
  <1>i. StoresAgree /\ CredentialsOf(s)
    BY <1>b DEF CredInv
  <1> DEFINE a == App(s)
             pass == shell[s].pass
  <1>m. ASSUME NEW x, shell' = [shell EXCEPT ![s] = x], x.app = a \/ x.pc = "idle", StoresAgree',
               x.pc = "save" => creds'[a] = NoValue /\ x.pass # NoValue,
               x.pc \in {"inspect", "run"} => x.pass # NoValue /\ creds'[a] = x.pass,
               x.pc \in {"read", "create", "upload", "append"} => x.pass # NoValue /\ dbPass'[a] = x.pass,
               x.pc = "create" => env'[a] = EmptyFile,
               x.pc \in {"upload", "append"} => env'[a]["url"] = NoValue,
               x.pc = "append" => scratch' = x.pass,
               x.pc = "write" => x.seen = env'[a]
        PROVE  CredInv'
    <2>1. shell'[s] = x /\ \A y \in Shells \ {s} : shell'[y] = shell[y]
      BY <1>m, <1>t
    <2>2. \A y \in Shells \ {s} : shell'[y].pc = "idle"
      BY <2>1, <1>o
    <2>3. CredentialsOf(s)'
      BY <1>m, <2>1 DEF CredentialsOf, App
    <2>4. \A y \in Shells \ {s} : CredentialsOf(y)'
      BY <2>2 DEF CredentialsOf
    <2> QED
      BY <2>2, <2>3, <2>4, <1>m DEF CredInv, ShellAt
  <1>g. ASSUME NEW l \in {"stop", "creds", "inspect", "run", "read", "create", "upload", "append"},
               ShellGo(s, l), StoresAgree',
               l \in {"inspect", "run"} => pass # NoValue /\ creds'[a] = pass,
               l \in {"read", "create", "upload", "append"} => pass # NoValue /\ dbPass'[a] = pass,
               l = "create" => env'[a] = EmptyFile,
               l \in {"upload", "append"} => env'[a]["url"] = NoValue,
               l = "append" => scratch' = pass
        PROVE  CredInv'
    <2> DEFINE x == [shell[s] EXCEPT !.pc = l]
    <2>1. shell' = [shell EXCEPT ![s] = x] /\ x.pc = l /\ x.app = a /\ x.pass = pass
      BY <1>g, <1>a DEF ShellGo, AShell, App
    <2> HIDE DEF x
    <2> QED
      BY <2>1, <1>g, <1>m
  <1>d. ASSUME ShellDone(s), StoresAgree' PROVE CredInv'
    BY <1>d, <1>m DEF ShellDone, NoShell
  <1>k. UNCHANGED env => KeepsValues
    BY DEF KeepsValues
  <1>u. UNCHANGED <<creds, dbPass, db, env>> => StoresAgree'
    BY <1>i DEF StoresAgree
  <1>1. CASE PullImage(s)
    BY <1>1, <1>g, <1>m, <1>k, <1>u DEF PullImage
  <1>2. CASE RemoveDb(s)
    <2>1. StoresAgree'
      BY <1>2, <1>i, <1>t, <1>a DEF RemoveDb, StoresAgree
    <2> QED
      BY <1>2, <1>g, <1>m, <1>k, <2>1 DEF RemoveDb
  <1>3. CASE ResolveEnv(s)
    <2>1. StoresAgree'
      BY <1>3, <1>u DEF ResolveEnv
    <2>2. CASE creds[a] # NoValue /\ shell' = [shell EXCEPT ![s].pc = "inspect", ![s].pass = creds[a]]
      <3> DEFINE x == [shell[s] EXCEPT !.pc = "inspect", !.pass = creds[a]]
      <3>1. shell' = [shell EXCEPT ![s] = x] /\ x.pc = "inspect" /\ x.pass = creds[a] /\ x.app = a
        BY <2>2, <1>t, <1>a DEF AShell, App
      <3> HIDE DEF x
      <3> QED
        BY <3>1, <2>1, <2>2, <1>3, <1>m, <1>k DEF ResolveEnv
    <2>3. CASE creds[a] = NoValue /\ shell' = [shell EXCEPT ![s].pc = "save", ![s].pass = [of |-> a, num |-> made + 1]]
      <3> DEFINE new == [of |-> a, num |-> made + 1]
                 x == [shell[s] EXCEPT !.pc = "save", !.pass = new]
      <3>1. new # NoValue
        BY <1>a, TenantAssumption DEF NoValue
      <3> HIDE DEF new
      <3>2. shell' = [shell EXCEPT ![s] = x] /\ x.pc = "save" /\ x.pass = new /\ x.app = a
        BY <2>3, <1>t, <1>a DEF AShell, App, new
      <3> HIDE DEF x
      <3> QED
        BY <3>1, <3>2, <2>1, <2>3, <1>3, <1>m, <1>k DEF ResolveEnv
    <2> QED
      BY <1>3, <1>n, <2>2, <2>3 DEF ResolveEnv
  <1>4. CASE SaveCredentials(s)
    <2>1. pass # NoValue /\ creds[a] = NoValue /\ dbPass[a] = NoValue
      BY <1>4, <1>i, <1>a DEF SaveCredentials, CredentialsOf, ShellAt, StoresAgree
    <2>2. StoresAgree'
      BY <1>4, <1>i, <1>t, <1>a, <2>1 DEF SaveCredentials, StoresAgree
    <2>3. CASE ShellDone(s)
      BY <1>4, <2>3, <2>2, <1>d, <1>k DEF SaveCredentials
    <2>4. CASE ShellGo(s, "inspect") /\ creds' = [creds EXCEPT ![a] = pass]
      BY <1>4, <2>1, <2>4, <2>2, <1>t, <1>a, <1>g, <1>m, <1>k DEF SaveCredentials
    <2> QED
      BY <1>4, <2>3, <2>4 DEF SaveCredentials
  <1>5. CASE InspectDb(s)
    <2>1. pass # NoValue /\ creds[a] = pass
      BY <1>5, <1>i DEF InspectDb, CredentialsOf, ShellAt
    <2>2. StoresAgree'
      BY <1>5, <1>i, <1>t, <1>a DEF InspectDb, StoresAgree
    <2>3. CASE db[a] = "running"
      <3>1. dbPass[a] = pass
        BY <2>1, <2>3, <1>a, <1>i DEF StoresAgree
      <3>2. ShellDone(s) \/ ShellGo(s, "read")
        BY <1>5, <2>3 DEF InspectDb, Injected
      <3> QED
        BY <1>5, <2>1, <2>2, <3>1, <3>2, <1>d, <1>g, <1>m, <1>k DEF InspectDb
    <2>4. CASE db[a] # "running"
      <3>1. ShellGo(s, "run") /\ UNCHANGED creds
        BY <1>5, <2>4 DEF InspectDb
      <3> QED
        BY <1>5, <2>1, <2>2, <3>1, <1>g, <1>m, <1>k DEF InspectDb
    <2> QED
      BY <2>3, <2>4
  <1>6. CASE RunDb(s)
    <2>1. pass # NoValue /\ creds[a] = pass
      BY <1>6, <1>i DEF RunDb, CredentialsOf, ShellAt
    <2>2. CASE db[a] # "absent"
      <3>1. ShellDone(s) /\ UNCHANGED <<creds, dbPass, db, env>>
        BY <1>6, <2>2 DEF RunDb
      <3> QED
        BY <3>1, <1>d, <1>k, <1>u
    <2>3. CASE db[a] = "absent"
      <3>1. /\ db' = [db EXCEPT ![a] = "running"]
            /\ dbPass' = [dbPass EXCEPT ![a] = IF @ = NoValue THEN pass ELSE @]
            /\ UNCHANGED <<creds, env>> /\ (ShellDone(s) \/ ShellGo(s, "read"))
        BY <1>6, <2>3 DEF RunDb, Injected
      <3>2. dbPass'[a] = pass
        BY <2>1, <3>1, <1>i, <1>t, <1>a DEF StoresAgree
      <3>3. \A b \in Tenants : dbPass'[b] = dbPass[b] \/ (b = a /\ dbPass[b] = NoValue)
        BY <3>1, <1>t
      <3>4. StoresAgree'
        BY <2>1, <3>1, <3>2, <3>3, <1>i, <1>t, <1>a DEF StoresAgree
      <3> QED
        BY <2>1, <3>1, <3>2, <3>4, <1>d, <1>g, <1>m, <1>k
    <2> QED
      BY <2>2, <2>3
  <1>7. CASE ReadEnvFile(s)
    <2>1. pass # NoValue /\ dbPass[a] = pass
      BY <1>7, <1>i DEF ReadEnvFile, CredentialsOf, ShellAt
    <2>2. /\ CASE env[a]["url"] # NoValue -> ShellDone(s)
               [] env[a] = EmptyFile      -> ShellGo(s, "create")
               [] OTHER                   -> ShellGo(s, "upload")
          /\ UNCHANGED <<creds, dbPass, db, env>>
      BY <1>7, <1>n DEF ReadEnvFile
    <2>3. env[a] = EmptyFile => env[a]["url"] = NoValue
      BY DEF EmptyFile, EnvKeys
    <2>4. \/ ShellDone(s)
          \/ ShellGo(s, "create") /\ env[a] = EmptyFile
          \/ ShellGo(s, "upload") /\ env[a]["url"] = NoValue
      BY <2>2, <2>3
    <2> QED
      BY <2>1, <2>2, <2>4, <1>d, <1>g, <1>m, <1>k, <1>u
  <1>8. CASE CreateEnvFile(s)
    <2>1. pass # NoValue /\ dbPass[a] = pass /\ env[a] = EmptyFile
      BY <1>8, <1>i DEF CreateEnvFile, CredentialsOf, ShellAt
    <2>2. PICK v \in {[EmptyFile EXCEPT !["url"] = pass], EmptyFile} : env' = [env EXCEPT ![a] = v]
      BY <1>8 DEF CreateEnvFile
    <2>3. v["url"] \in {pass, NoValue}
      BY <2>2 DEF EmptyFile, EnvKeys
    <2>4. StoresAgree'
      BY <1>8, <2>1, <2>2, <2>3, <1>i, <1>t, <1>a DEF CreateEnvFile, StoresAgree
    <2>5. \A k \in EnvKeys : env[a][k] = NoValue
      BY <2>1 DEF EmptyFile
    <2>6. KeepsValues
      BY <2>2, <2>5, <1>t DEF KeepsValues
    <2> QED
      BY <1>8, <2>4, <2>6, <1>d DEF CreateEnvFile
  <1>9. CASE UploadLines(s)
    <2>1. pass # NoValue /\ dbPass[a] = pass /\ env[a]["url"] = NoValue
      BY <1>9, <1>i DEF UploadLines, CredentialsOf, ShellAt
    <2> QED
      BY <1>9, <2>1, <1>g, <1>m, <1>k, <1>u DEF UploadLines
  <1>10. CASE AppendLines(s)
    <2>1. pass # NoValue /\ dbPass[a] = pass /\ env[a]["url"] = NoValue /\ scratch = pass
      BY <1>10, <1>i DEF AppendLines, CredentialsOf, ShellAt
    <2>2. env' = [env EXCEPT ![a]["url"] = pass] /\ UNCHANGED <<creds, dbPass, db>> /\ ShellDone(s)
      BY <1>10, <2>1 DEF AppendLines
    <2>3. /\ env'[a]["url"] = pass
          /\ \A k \in EnvKeys \ {"url"} : env'[a][k] = env[a][k]
          /\ \A b \in Tenants \ {a} : env'[b] = env[b]
      BY <2>2, <1>t, <1>a
    <2>4. StoresAgree'
      BY <2>1, <2>2, <2>3, <1>i DEF StoresAgree
    <2>5. KeepsValues
      BY <2>1, <2>3 DEF KeepsValues
    <2> QED
      BY <2>2, <2>4, <2>5, <1>d
  <1>11. CASE ReadToEdit(s)
    <2>1. CASE ShellDone(s)
      BY <1>11, <2>1, <1>d, <1>k, <1>u DEF ReadToEdit
    <2>2. CASE shell' = [shell EXCEPT ![s].pc = "write", ![s].seen = env[a]]
      <3> DEFINE x == [shell[s] EXCEPT !.pc = "write", !.seen = env[a]]
      <3>1. shell' = [shell EXCEPT ![s] = x] /\ x.pc = "write" /\ x.seen = env[a] /\ x.app = a
        BY <2>2, <1>t, <1>a DEF AShell, App
      <3> HIDE DEF x
      <3> QED
        BY <3>1, <1>11, <1>m, <1>k, <1>u DEF ReadToEdit
    <2> QED
      BY <1>11, <2>1, <2>2 DEF ReadToEdit
  <1>12. CASE WriteEdited(s)
    <2>1. shell[s].seen = env[a] /\ ShellAt(s, "write")
      BY <1>12, <1>i DEF WriteEdited, CredentialsOf, ShellAt
    <2>2. PICK v : env' = [env EXCEPT ![a] = v] /\ v["url"] \in {env[a]["url"], UserValue, NoValue}
      <3>1. PICK w \in {UserValue, NoValue} :
               env' = [env EXCEPT ![a] = [env[a] EXCEPT ![shell[s].key] = w]] \/ env' = [env EXCEPT ![a] = EmptyFile]
        BY <1>12, <2>1 DEF WriteEdited
      <3>2. [env[a] EXCEPT ![shell[s].key] = w]["url"] \in {env[a]["url"], w}
        BY <1>t, <1>a
      <3>3. EmptyFile["url"] = NoValue
        BY DEF EmptyFile, EnvKeys
      <3> QED
        BY <3>1, <3>2, <3>3
    <2>3. StoresAgree'
      BY <1>12, <2>2, <1>i, <1>t, <1>a DEF WriteEdited, StoresAgree
    <2>4. KeepsValues
      BY <2>1, <2>2, <1>t DEF KeepsValues
    <2> QED
      BY <1>12, <2>3, <2>4, <1>d DEF WriteEdited
  <1>13. CASE ShellFails(s) \/ ShellDies(s)
    BY <1>13, <1>d, <1>k, <1>u DEF ShellFails, ShellDies
  <1> QED
    BY <1>1, <1>2, <1>3, <1>4, <1>5, <1>6, <1>7, <1>8, <1>9, <1>10, <1>11, <1>12, <1>13 DEF ShellStep

LEMMA NextCred ==
  ASSUME EnvTyped, CredInv, EnvNext
  PROVE  CredInv' /\ (Undisturbed' => KeepsValues)
  <1> SUFFICES ASSUME Undisturbed' PROVE CredInv' /\ KeepsValues
    BY DEF CredInv
  <1>b. Undisturbed
    BY UndisturbedBefore
  <1>t. /\ db \in [Tenants -> {"absent", "exited", "running"}]
        /\ shell \in [Shells -> AShell]
    BY DEF EnvTyped, EnvTypeOK, AShell
  <1>1. ASSUME NEW s \in Shells, ShellStep(s) PROVE CredInv' /\ KeepsValues
    BY <1>1, StepCred
  <1>2. ASSUME NEW s \in Shells, NEW a \in Tenants, NEW op \in {"deploy", "upgrade", "set", "unset"},
               NEW k \in EnvKeys, StartShell(s, op, a, k)
        PROVE  CredInv' /\ KeepsValues
    <2>1. \A x \in Shells : ShellAt(x, "idle")
      <3> SUFFICES ASSUME \E x \in Shells : ~ShellAt(x, "idle") PROVE FALSE
        OBVIOUS
      <3> DEFINE K == {"race"}
      <3>1. BeginAs(K) /\ K \in SUBSET MishapKinds
        BY <1>2 DEF StartShell, MishapKinds
      <3> HIDE DEF K
      <3>2. K \cap {"read", "race"} = {}
        BY <3>1, NoneBefore DEF Undisturbed, EnvTyped
      <3> QED
        BY <3>2 DEF K
    <2>2. PICK l \in {"creds", "pull", "edit"} :
             shell' = [shell EXCEPT ![s] = [NoShell EXCEPT !.op = op, !.app = a, !.key = k, !.pc = l]]
      BY <1>2 DEF StartShell
    <2>3. /\ shell'[s].pc \in {"creds", "pull", "edit"}
          /\ \A x \in Shells \ {s} : shell'[x] = shell[x]
      BY <2>2, <1>t DEF NoShell
    <2>4. \A x \in Shells : CredentialsOf(x)'
      BY <2>1, <2>3 DEF CredentialsOf, ShellAt
    <2>5. StoresAgree' /\ KeepsValues
      BY <1>2, <1>b DEF StartShell, CredInv, StoresAgree, KeepsValues
    <2> QED
      BY <2>1, <2>3, <2>4, <2>5 DEF CredInv, ShellAt
  <1>3. ASSUME NEW a \in Tenants, StopDb(a) \/ StartDb(a) PROVE CredInv' /\ KeepsValues
    <2>1. \A b \in Tenants : db'[b] # "absent" => db[b] # "absent"
      BY <1>3, <1>t DEF StopDb, StartDb
    <2>2. UNCHANGED <<creds, dbPass, env, scratch, shell>>
      BY <1>3 DEF StopDb, StartDb
    <2> QED
      BY <2>1, <2>2, <1>b DEF CredInv, StoresAgree, CredentialsOf, ShellAt, App, KeepsValues
  <1> QED
    BY <1>1, <1>2, <1>3 DEF EnvNext, EnvKeys

EnvHolds == /\ part = "accessories" => EnvTyped /\ CredInv
            /\ part # "accessories" => EnvInit

LEMMA NextEnvHolds == EnvHolds /\ [Next]_allVars => EnvHolds'
  <1> SUFFICES ASSUME EnvHolds, [Next]_allVars PROVE EnvHolds'
    OBVIOUS
  <1>1. CASE Env
    BY <1>1, NextEnvTyped, NextCred DEF Env, EnvHolds
  <1>2. CASE UNCHANGED allVars
    BY <1>2 DEF allVars, envVars, EnvHolds, EnvTyped, EnvTypeOK, LuckTypeOK, CredInv, StoresAgree,
                CredentialsOf, ShellAt, App, Preparing, Undisturbed, NoneOf, EnvInit
  <1>3. CASE part # "accessories" /\ UNCHANGED <<part, envVars>>
    BY <1>3 DEF envVars, EnvHolds, EnvInit
  <1> QED
    BY <1>1, <1>2, <1>3 DEF Next, Audit, Backup, Vault_, Secret, Conf, Rest

\* What deploys write to .env opens the app's database and costs the user no
\* value, through failures, crashes, upgrades and edits, as long as every read
\* succeeds and commands follow one another.
THEOREM CredentialsAlwaysHold == Spec => CredentialsHold
  <1>1. Init => EnvHolds
    BY LuckAtFirst, InitEnvTyped, InitCred DEF Init, EnvHolds
  <1>2. EnvHolds => UrlOpensDb
    <2>1. CASE part = "accessories"
      BY <2>1 DEF EnvHolds, CredInv, StoresAgree, Undisturbed, UrlOpensDb
    <2>2. CASE part # "accessories"
      BY <2>2 DEF EnvHolds, EnvInit, EmptyFile, EnvKeys, UrlOpensDb
    <2> QED
      BY <2>1, <2>2
  <1>3. EnvHolds /\ [Next]_allVars => [ValuesWinUndisturbed]_envVars
    <2> SUFFICES ASSUME EnvHolds, [Next]_allVars, ~UNCHANGED envVars PROVE ValuesWinUndisturbed
      OBVIOUS
    <2>1. EnvNext /\ part = "accessories"
      BY DEF Next, Env, Audit, Backup, Vault_, Secret, Conf, Rest, allVars
    <2> QED
      BY <2>1, NextCred DEF EnvHolds, ValuesWinUndisturbed, Undisturbed, NoneOf
  <1>4. EnvHolds' => UrlOpensDb'
    BY <1>2, PTL
  <1>5. EnvHolds /\ EnvHolds' /\ [Next]_allVars => [ValuesWinUndisturbed /\ UrlOpensDb']_envVars
    BY <1>3, <1>4
  <1> QED
    BY <1>1, <1>5, NextEnvHolds, PTL DEF Spec, CredentialsHold
=============================================================================
