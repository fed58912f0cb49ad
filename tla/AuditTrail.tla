----------------------------- MODULE AuditTrail -----------------------------
(***************************************************************************)
(* Forwarding OpenBao's audit log to the observe service: each run reads   *)
(* how many lines were shipped, emits the events of the lines after them,  *)
(* and stores the new count.  The timer's run and one by hand may overlap. *)
(***************************************************************************)
EXTENDS Mishaps, Sequences

CONSTANTS Shippers, MaxLines   \* runs at the same time; bound on the log

ASSUME AuditAssumption == MaxLines \in Nat \ {0}

VARIABLES
    log,     \* the audit log: access to a secret, or a line that is not forwarded
    marker,  \* .audit-shipped; 0 also if it is missing or does not parse
    sent,    \* how often observe has received the event of a line
    shipper  \* the running `teploy secret audit ship`

auditVars == <<log, marker, sent, shipper>>

Line       == {"access", "other"}
NoShipper  == [pc |-> "idle", prev |-> 0, total |-> 0, at |-> 0, shipped |-> 0]
MaxSent    == 4   \* bound: further copies of an event are not counted

AuditTypeOK ==
    /\ log \in UNION {[1..n -> Line] : n \in 0..MaxLines}
    /\ marker \in 0..MaxLines
    /\ sent \in [1..MaxLines -> 0..MaxSent]
    /\ shipper \in [Shippers -> [pc : {"idle", "marker", "log", "emit", "failed", "persist"},
                                 prev : 0..MaxLines, total : 0..MaxLines,
                                 at : 0..MaxLines, shipped : 0..MaxLines]]

AuditInit == /\ log = <<>>
             /\ marker = 0
             /\ sent = [i \in 1..MaxLines |-> 0]
             /\ shipper = [s \in Shippers |-> NoShipper]

ShipperAt(s, label) == shipper[s].pc = label
ShipperDone(s)      == shipper' = [shipper EXCEPT ![s] = NoShipper]

-----------------------------------------------------------------------------
\* OpenBao logs; the first line is that of the audit device itself.
LogLine(l) ==
    /\ Len(log) < MaxLines
    /\ log = <<>> => l = "other"
    /\ log' = Append(log, l)
    /\ UNCHANGED <<marker, sent, shipper, luck>>

Ship(s) ==
    /\ ShipperAt(s, "idle")
    /\ BeginAs(IF \E x \in Shippers : ~ShipperAt(x, "idle") THEN {"race"} ELSE {})
    /\ shipper' = [shipper EXCEPT ![s].pc = "marker"]
    /\ UNCHANGED <<log, marker, sent>>

ShipperDies(s) ==
    /\ ~ShipperAt(s, "idle")
    /\ Mishap("crash")
    /\ ShipperDone(s)
    /\ UNCHANGED <<log, marker, sent>>

\* A marker that cannot be read counts as 0.
ReadMarker(s) ==
    /\ ShipperAt(s, "marker")
    /\ \E prev \in {marker, 0} :
        /\ IF prev = marker THEN UNCHANGED luck ELSE Mishap("read")
        /\ shipper' = [shipper EXCEPT ![s].pc = "log", ![s].prev = prev, ![s].at = prev]
    /\ UNCHANGED <<log, marker, sent>>

\* An empty log splits into one empty line.
ReadLog(s) ==
    /\ ShipperAt(s, "log")
    /\ LET total == IF log = <<>> THEN 1 ELSE Len(log)
       IN  IF total <= shipper[s].prev
           THEN ShipperDone(s)
           ELSE shipper' = [shipper EXCEPT ![s].pc = "emit", ![s].total = total]
    /\ UNCHANGED <<log, marker, sent, luck>>

ReadLogFails(s) ==
    /\ ShipperAt(s, "log")
    /\ Mishap("fault")
    /\ ShipperDone(s)
    /\ UNCHANGED <<log, marker, sent>>

-----------------------------------------------------------------------------
\* ToObserveEvent: is the line forwarded?
Forwarded(i) == i \in DOMAIN log /\ log[i] = "access"

\* A line is passed over, or emitted.
Emit(s) ==
    /\ ShipperAt(s, "emit")
    /\ shipper[s].at < shipper[s].total
    /\ LET i == shipper[s].at + 1
       IN  IF Forwarded(i)
           THEN /\ sent' = [sent EXCEPT ![i] = IF @ < MaxSent THEN @ + 1 ELSE @]
                /\ shipper' = [shipper EXCEPT ![s].at = i, ![s].shipped = @ + 1]
           ELSE /\ shipper' = [shipper EXCEPT ![s].at = i]
                /\ UNCHANGED sent
    /\ UNCHANGED <<log, marker, luck>>

\* Emit fails; observe may have received the event all the same.
EmitFails(s) ==
    /\ ShipperAt(s, "emit")
    /\ shipper[s].at < shipper[s].total /\ Forwarded(shipper[s].at + 1)
    /\ Mishap("fault")
    /\ sent' \in {sent, [sent EXCEPT ![shipper[s].at + 1] = IF @ < MaxSent THEN @ + 1 ELSE @]}
    /\ shipper' = [shipper EXCEPT ![s].pc = "failed"]
    /\ UNCHANGED <<log, marker>>

\* persistShipMarker: an upload that fails may leave an empty file.
Persist(s, n) ==
    /\ \/ marker' = n /\ UNCHANGED luck
       \/ marker' \in {marker, 0} /\ Mishap("save")
    /\ ShipperDone(s)
    /\ UNCHANGED <<log, sent>>

\* Mutant: the failed run stores where it had meant to get to.
PersistTotal(s) == ShipperAt(s, "failed") /\ Persist(s, shipper[s].total)

\* Mutant: the lines it read are added to those before.
PersistSum(s) == ShipperAt(s, "failed") /\ Persist(s, shipper[s].prev + shipper[s].total)

\* After a failure: the lines before this run and the events it has emitted,
\* whatever lines lie between them.
PersistFailed(s) == ShipperAt(s, "failed") /\ Persist(s, shipper[s].prev + shipper[s].shipped)

PersistAll(s) ==
    /\ ShipperAt(s, "emit")
    /\ shipper[s].at = shipper[s].total
    /\ Persist(s, shipper[s].total)

AuditNext ==
    \/ \E l \in Line : LogLine(l)
    \/ \E s \in Shippers : \/ Ship(s) \/ ReadMarker(s) \/ ReadLog(s) \/ ReadLogFails(s) \/ Emit(s)
                           \/ EmitFails(s) \/ PersistFailed(s) \/ PersistAll(s) \/ ShipperDies(s)

-----------------------------------------------------------------------------
\* No access to a secret is left out of the trail: every such line the marker
\* counts as shipped was received, whatever failed, died or ran twice.
NoneSkipped == \A i \in DOMAIN log : i <= marker /\ Forwarded(i) => sent[i] >= 1

\* "Repeated runs are idempotent and only new access events are forwarded":
\* as long as nothing fails and one run follows the other.
ShippedOnce ==
    NoneOf({"fault", "save", "read", "crash", "race"}) => \A i \in DOMAIN log : sent[i] <= 1

TrailIsTrue == NoneSkipped /\ ShippedOnce
=============================================================================
