-------------------------- MODULE CaddyFileProofs --------------------------
(***************************************************************************)
(* Proofs about CaddyFile, for any apps, commands, faults and crashes: its *)
(* types, and what commands that hold the lock one at a time promise of the*)
(* file, the stash and what Caddy serves.                                  *)
(***************************************************************************)
EXTENDS CaddyFile, FiniteSetTheorems, TLAPS

-----------------------------------------------------------------------------
(* Types.  A command that runs has an operation and an app, and the route  *)
(* of a deploy is one of its app that counts as used.                      *)

ACommand == [pc : Labels, op : Ops \cup {"none"}, app : Apps \cup {"none"},
             blk : Block, prev : Content, new : Content]

Running(x, routes) ==
    x.pc # "idle" => /\ x.op \in Ops /\ x.app \in Apps
                     /\ x.op = "set" => x.blk \in Of(x.app) \cap routes
                     /\ x.pc \in {"test", "cat", "rm stash"} => x.op = "off"
                     /\ x.pc = "stash" => x.op = "on"

Typed == TypeOK /\ \A p \in Clients : Running(cl[p], used)

LEMMA BlocksType == /\ NoBlock \in Block /\ MaintBlock \in Block /\ Route \subseteq Block
                    /\ NoBlock \notin Route /\ MaintBlock \notin Route /\ NoBlock # MaintBlock
                    /\ \A a \in Apps : Of(a) \subseteq Route
  BY CaddyAssumption DEF Block, Route, NoBlock, MaintBlock, Of

LEMMA IdleType == Nothing \in Content /\ Idle \in ACommand /\ Idle.pc = "idle"
  BY BlocksType DEF Nothing, Content, Idle, ACommand, Labels

LEMMA RenderType ==
  ASSUME NEW c \in Content, NEW a \in Apps, NEW adopt \in BOOLEAN, NEW b \in Block
  PROVE  Render(c, a, adopt, b) \in Content
  <1>1. c.blk \in [Apps -> Block] /\ c.other \in [Apps -> {"none", "hand", "redirect"}] /\ c.junk \in BOOLEAN
    BY DEF Content
  <1>2. NoBlock \in Block
    BY BlocksType
  <1> QED
    BY <1>1, <1>2 DEF Render, Content

LEMMA TransformType ==
  ASSUME NEW p, cl[p].app \in Apps, cl[p].op \in Ops, cl[p].blk \in Block, NEW c \in Content
  PROVE  Transform(c, p) \in Content
  <1> DEFINE a == cl[p].app
             b == cl[p].blk
  <1>1. Render(c, a, TRUE, b) \in Content /\ Render(c, a, FALSE, b) \in Content
    BY RenderType
  <1>2. [Render(c, a, TRUE, b) EXCEPT !.other[a] = "redirect"] \in Content
    <2> DEFINE r == Render(c, a, TRUE, b)
    <2>1. r.other \in [Apps -> {"none", "hand", "redirect"}] /\ r \in Content
      BY <1>1 DEF Content
    <2> HIDE DEF r
    <2>2. [r.other EXCEPT ![a] = "redirect"] \in [Apps -> {"none", "hand", "redirect"}]
      BY <2>1
    <2>3. [r EXCEPT !.other[a] = "redirect"] \in Content
      BY <2>1, <2>2 DEF Content
    <2> QED
      BY <2>3 DEF r
  <1> QED
    BY <1>1, <1>2 DEF Transform, Ops

LEMMA InitTyped == Init => Typed
  <1> SUFFICES ASSUME Init PROVE Typed
    OBVIOUS
  <1>1. PICK hand \in SUBSET Apps, deployed \in SUBSET Apps, n \in Nums :
            /\ cur = [a \in Apps |-> IF a \in deployed THEN [app |-> a, num |-> n] ELSE NoBlock]
            /\ file = [blk |-> cur, other |-> [a \in Apps |-> IF a \in hand THEN "hand" ELSE "none"],
                       junk |-> FALSE]
    BY ZenonT(40) DEF Init
  <1>2. cur \in [Apps -> Route \cup {NoBlock}]
    BY <1>1 DEF Route
  <1>3. file \in Content
    BY <1>1, <1>2, BlocksType DEF Content
  <1>4. bad \subseteq BadNums /\ mount \in Mounts
    BY DEF Init
  <1>5. cl \in [Clients -> ACommand]
    BY IdleType DEF Init
  <1>6. Cardinality(tmp) <= 1
    BY FS_EmptySet DEF Init
  <1>7. budget \in [{"ops", "faults", "crashes"} -> Nat]
    BY CaddyAssumption DEF Init
  <1> QED
    BY <1>2, <1>3, <1>4, <1>5, <1>6, <1>7, BlocksType, IdleType DEF Init, Typed, TypeOK, ACommand, Running


\* A step of one command.
Commands == cl \in [Clients -> ACommand] /\ \A q \in Clients : Running(cl[q], used)

LEMMA CommandMoves ==
  ASSUME Typed, NEW p \in Clients, NEW x \in ACommand, used \subseteq used', Running(x, used'),
         cl' = [cl EXCEPT ![p] = x]
  PROVE  Commands'
  <1>1. cl \in [Clients -> ACommand]
    BY DEF Typed, TypeOK, ACommand
  <1>2. \A q \in Clients : cl'[q] = IF q = p THEN x ELSE cl[q]
    BY <1>1
  <1>3. \A q \in Clients : Running(cl[q], used')
    BY DEF Typed, Running
  <1> QED
    BY <1>1, <1>2, <1>3 DEF Commands

LEMMA GotoMoves ==
  ASSUME Typed, NEW p \in Clients, NEW l \in Labels, ~At(p, "idle"), Goto(p, l), UNCHANGED used,
         l \in {"test", "cat", "rm stash"} => cl[p].op = "off", l = "stash" => cl[p].op = "on"
  PROVE  Commands'
  <1> DEFINE x == [cl[p] EXCEPT !.pc = l]
  <1>1. cl[p] \in ACommand /\ cl[p].pc # "idle" /\ Running(cl[p], used)
    BY DEF Typed, TypeOK, ACommand, At
  <1>2. x \in ACommand /\ Running(x, used)
    BY <1>1 DEF ACommand, Running
  <1>3. cl' = [cl EXCEPT ![p] = x]
    BY DEF Goto
  <1> HIDE DEF x
  <1> QED
    BY <1>2, <1>3, CommandMoves

LEMMA IdleMoves ==
  ASSUME Typed, NEW p \in Clients, cl' = [cl EXCEPT ![p] = Idle], UNCHANGED used
  PROVE  Commands'
  BY IdleType, CommandMoves DEF Running

LEMMA SpendType ==
  ASSUME Typed, NEW k \in {"ops", "faults", "crashes"}, Spend(k)
  PROVE  /\ budget' \in [{"ops", "faults", "crashes"} -> Nat]
         /\ budget'[k] = budget[k] - 1 /\ budget[k] > 0
         /\ \A j \in {"ops", "faults", "crashes"} \ {k} : budget'[j] = budget[j]
  BY DEF Typed, TypeOK, Spend

\* The rest of the types.
World == /\ file \in Content /\ tmp \subseteq Content /\ Cardinality(tmp) <= 1 /\ live \in Content
         /\ mount \in Mounts /\ bad \subseteq BadNums
         /\ lock \in {"free", "abandoned"} \cup Clients /\ lockOld \in BOOLEAN
         /\ stash \in [Apps -> Block] /\ cur \in [Apps -> Route \cup {NoBlock}]
         /\ used \subseteq Route /\ gone \subseteq used /\ removing \subseteq Apps
         /\ budget \in [{"ops", "faults", "crashes"} -> Nat]

LEMMA TypedParts == Typed <=> World /\ Commands
  BY DEF Typed, TypeOK, World, Commands, ACommand

LEMMA TypedNext == World' /\ Commands' => Typed'
  BY TypedParts, PTL

LEMMA BeginTyped ==
  ASSUME Typed, NEW p \in Clients, NEW op \in Ops, NEW a \in Apps, NEW b \in Block, Begin(p, op, a, b)
  PROVE  Typed'
  <1> DEFINE x == [Idle EXCEPT !.pc = IF op = "off" THEN "test" ELSE "lock", !.op = op, !.app = a, !.blk = b]
  <1>1. x \in ACommand
    BY IdleType DEF ACommand, Labels
  <1>2. /\ x.op = op /\ x.app = a /\ x.blk = b /\ cl' = [cl EXCEPT ![p] = x]
        /\ x.pc = IF op = "off" THEN "test" ELSE "lock"
    BY IdleType DEF Begin, ACommand
  <1>3. op = "set" => b \in Of(a) \cap used'
    BY BlocksType DEF Begin
  <1> HIDE DEF x
  <1>4. Commands'
    BY <1>1, <1>2, <1>3, CommandMoves DEF Begin, Running
  <1>5. budget' \in [{"ops", "faults", "crashes"} -> Nat]
    BY SpendType DEF Begin
  <1>6. used' \subseteq Route /\ gone' \subseteq used' /\ removing' \subseteq Apps
    BY TypedParts DEF Begin, World
  <1> QED
    BY <1>4, <1>5, <1>6, TypedParts, TypedNext DEF Begin, World, disk, setup, lockVars

\* What a command that succeeds or fails tells the world.
LEMMA EndsTyped ==
  ASSUME Typed, NEW p \in Clients, ~At(p, "idle"), Succeed(p) \/ (Fail(p) /\ UNCHANGED stash)
  PROVE  /\ UNCHANGED used /\ gone' \subseteq used' /\ removing' \subseteq Apps
         /\ cur' \in [Apps -> Route \cup {NoBlock}] /\ stash' \in [Apps -> Block]
  <1>1. World /\ Running(cl[p], used) /\ cl[p].pc # "idle" /\ NoBlock \in Block
        /\ \A a \in Apps : Of(a) \subseteq Route
    BY TypedParts, BlocksType DEF Commands, At
  <1>2. CASE Fail(p) /\ UNCHANGED stash
    BY <1>1, <1>2 DEF Fail, World, Running
  <1>3. CASE Succeed(p)
    <2>1. CASE cl[p].op = "set"
      BY <1>1, <1>3, <2>1 DEF Succeed, World, Running
    <2>2. CASE cl[p].op \in {"remove", "redirect"}
      BY <1>1, <1>3, <2>2 DEF Succeed, World, Running
    <2>3. CASE cl[p].op \notin {"set", "remove", "redirect"}
      BY <1>1, <1>3, <2>3 DEF Succeed, World, Running, world
    <2> QED
      BY <2>1, <2>2, <2>3
  <1> QED
    BY <1>2, <1>3

LEMMA StepTyped ==
  ASSUME Typed, NEW p \in Clients, Step(p)
  PROVE  Typed'
  <1> USE TypedNext DEF disk, setup, lockVars, world
  <1>w. World /\ Commands
    BY TypedParts
  <1>c. cl[p] \in ACommand /\ Running(cl[p], used)
    BY <1>w DEF Commands
  <1>f. Fault \/ UNCHANGED budget => budget' \in [{"ops", "faults", "crashes"} -> Nat]
    BY <1>w, SpendType DEF Fault, World
  <1>l. \A l \in Labels \ {"idle", "test", "cat", "rm stash", "stash"} :
            Goto(p, l) /\ ~At(p, "idle") /\ UNCHANGED used => Commands'
    BY GotoMoves
  <1>i. cl' = [cl EXCEPT ![p] = Idle] /\ UNCHANGED used => Commands'
    BY IdleMoves
  <1>1. CASE Test(p)
    <2>1. Goto(p, "cat") => Commands'
      BY <1>1, <1>c, GotoMoves DEF Test, At, Running, Labels
    <2> QED
      BY <1>1, <2>1, <1>w, <1>f, <1>i DEF Test, World
  <1>2. CASE Cat(p)
    <2>1. ASSUME cl' = [cl EXCEPT ![p].pc = "lock", ![p].blk = stash[cl[p].app]]
          PROVE  Commands'
      <3> DEFINE x == [cl[p] EXCEPT !.pc = "lock", !.blk = stash[cl[p].app]]
      <3>1. cl[p].op = "off" /\ cl[p].app \in Apps
        BY <1>2, <1>c DEF Cat, At, Running
      <3>2. stash[cl[p].app] \in Block
        BY <1>w, <3>1 DEF World
      <3>3. cl' = [cl EXCEPT ![p] = x] /\ x \in ACommand /\ x.op = "off" /\ x.app = cl[p].app /\ x.pc = "lock"
        BY <2>1, <1>c, <3>1, <3>2 DEF ACommand, Labels
      <3> HIDE DEF x
      <3> QED
        BY <3>1, <3>3, <1>2, CommandMoves DEF Running, Ops, Cat
    <2> QED
      BY <1>2, <2>1, <1>w, <1>f, <1>i DEF Cat, World
  <1>3. CASE MkdirWon(p) \/ MkdirLost(p) \/ SeesStale(p) \/ Break(p) \/ Wait(p)
    <2>1. Commands'
      BY <1>3, <1>l DEF MkdirWon, MkdirLost, SeesStale, Break, Wait, At, Labels
    <2> QED
      BY <1>3, <1>w, <2>1 DEF MkdirWon, MkdirLost, SeesStale, Break, Wait, World
  <1>4. CASE TimesOut(p)
    <2>1. gone' \subseteq used /\ UNCHANGED <<cur, removing>>
      BY <1>4, <1>w, <1>c DEF TimesOut, Fail, World, Running, At
    <2> QED
      BY <1>4, <1>w, <1>i, <2>1 DEF TimesOut, World
  <1>5. CASE Read(p)
    <2> DEFINE new == Transform(file, p)
               next == IF cl[p].op = "on" /\ file.blk[cl[p].app] # NoBlock THEN "stash" ELSE "upload"
               x == [cl[p] EXCEPT !.pc = next, !.prev = file, !.new = new]
    <2>1. cl[p].pc = "read"
      BY <1>5 DEF Read, At
    <2>2. new \in Content
      BY <2>1, <1>c, <1>w, TransformType DEF Running, ACommand, World
    <2>3. x \in ACommand /\ x.op = cl[p].op /\ x.app = cl[p].app /\ x.blk = cl[p].blk /\ x.pc = next
      <3> HIDE DEF new
      <3> QED
        BY <2>2, <1>c, <1>w DEF ACommand, Labels, World
    <2>4. cl' = [cl EXCEPT ![p] = x] \/ Goto(p, "release ok")
      <3> HIDE DEF new
      <3>1. \/ cl' = [cl EXCEPT ![p].pc = next, ![p].prev = file, ![p].new = new]
            \/ Goto(p, "release ok")
        BY <1>5 DEF Read, new
      <3> QED
        BY <3>1
    <2>5. Running(x, used)
      BY <2>1, <2>3, <1>c DEF Running
    <2> HIDE DEF x
    <2>6. Commands'
      BY <1>5, <2>1, <2>3, <2>4, <2>5, <1>l, CommandMoves DEF Read, At, Labels
    <2> QED
      BY <1>5, <1>w, <2>6 DEF Read, World
  <1>6. CASE Stash(p)
    <2>1. cl[p].prev.blk[cl[p].app] \in Block /\ cl[p].pc = "stash"
      BY <1>6, <1>c DEF Stash, At, Running, ACommand, Content
    <2>2. Commands'
      BY <1>6, <2>1, <1>l DEF Stash, At, Labels
    <2> QED
      BY <1>6, <1>w, <2>1, <2>2 DEF Stash, World
  <1>7. CASE Upload(p)
    <2>1. Commands'
      BY <1>7, <1>l DEF Upload, At, Labels
    <2>2. PICK c \in Content : tmp' = {c}
      BY <1>7, <1>c DEF Upload, ACommand
    <2>3. tmp' \subseteq Content /\ Cardinality(tmp') <= 1
      BY <2>2, FS_Singleton
    <2> QED
      BY <1>7, <1>w, <2>1, <2>3 DEF Upload, World
  <1>8. CASE Move(p)
    <2>1. Commands'
      BY <1>8, <1>l DEF Move, At, Labels
    <2>2. tmp' \subseteq Content /\ Cardinality(tmp') <= 1 /\ file' \in Content
      BY <1>8, <1>w, FS_EmptySet DEF Move, World
    <2> QED
      BY <1>8, <1>w, <2>1, <2>2 DEF Move, World
  <1>9. CASE StepFails(p)
    <2>1. Commands'
      BY <1>9, <1>l DEF StepFails, At, Labels
    <2> QED
      BY <1>9, <1>w, <1>f, <2>1 DEF StepFails, World
  <1>10. CASE Reload(p) \/ ReloadFails(p) \/ UndoReload(p) \/ Verify(p)
    <2>1. Commands'
      BY <1>10, <1>l DEF Reload, ReloadFails, UndoReload, Verify, At, Labels
    <2> QED
      BY <1>10, <1>w, <1>f, <2>1 DEF Reload, ReloadFails, UndoReload, Verify, World
  <1>11. CASE Release(p)
    <2>0. cl[p].pc \in {"release", "release ok"}
      BY <1>11 DEF Release
    <2>1. UNCHANGED used /\ gone' \subseteq used' /\ removing' \subseteq Apps
          /\ cur' \in [Apps -> Route \cup {NoBlock}] /\ stash' \in [Apps -> Block]
      BY <1>11, <2>0, EndsTyped DEF Release, At
    <2>2. CASE At(p, "release ok") /\ cl[p].op = "off"
      <3>1. Goto(p, "rm stash")
        BY <1>11, <2>2, <1>w DEF Release, Goto, Commands
      <3> QED
        BY <1>11, <1>w, <1>f, <2>0, <2>1, <2>2, <3>1, GotoMoves DEF Release, World, At, Labels
    <2>3. CASE ~(At(p, "release ok") /\ cl[p].op = "off")
      BY <1>11, <1>w, <1>f, <1>i, <2>1, <2>3 DEF Release, World
    <2> QED
      BY <2>2, <2>3
  <1>12. CASE RemoveStash(p)
    BY <1>12, <1>w, <1>f, <1>i, BlocksType DEF RemoveStash, World
  <1>13. CASE Dies(p)
    <2>1. budget' \in [{"ops", "faults", "crashes"} -> Nat]
      BY <1>13, SpendType DEF Dies
    <2> QED
      BY <1>13, <1>w, <1>i, <2>1 DEF Dies, World
  <1> QED
    BY <1>1, <1>2, <1>3, <1>4, <1>5, <1>6, <1>7, <1>8, <1>9, <1>10, <1>11, <1>12, <1>13 DEF Step

LEMMA NextTyped == Typed /\ [OpsNext]_vars => Typed'
  <1> SUFFICES ASSUME Typed, [OpsNext]_vars PROVE Typed'
    OBVIOUS
  <1>1. CASE \E p \in Clients, op \in Ops, a \in Apps, b \in Block : Begin(p, op, a, b)
    BY <1>1, BeginTyped
  <1>2. CASE \E p \in Clients : Step(p)
    BY <1>2, StepTyped
  <1>3. CASE Expire
    BY <1>3 DEF Expire, Typed, TypeOK, disk, setup, world
  <1>4. CASE Boot
    BY <1>4, IdleType DEF Boot, Typed, TypeOK, setup, world, lockVars
  <1>5. CASE UNCHANGED vars
    BY <1>5 DEF vars, disk, setup, lockVars, world, Typed, TypeOK
  <1> QED
    BY <1>1, <1>2, <1>3, <1>4, <1>5 DEF OpsNext, Next, Rest

\* The type invariant.
THEOREM TypeCorrect == Spec => []TypeOK
  <1>1. Typed => TypeOK
    BY DEF Typed
  <1> QED
    BY InitTyped, NextTyped, <1>1, PTL DEF Spec


-----------------------------------------------------------------------------
(* The lock.  As long as no live command holds it for 120 seconds and only *)
(* one at a time breaks it, one command at a time is past it, and a lock   *)
(* that is old has been abandoned.                                         *)

Disciplined == {"in time", "lone breaker"} \subseteq Habits

Crit == {"read", "stash", "upload", "move", "reload", "undo", "undomove", "undoreload",
         "verify", "release ok", "release"}

LockInv ==
    /\ lockOld => lock = "abandoned"
    /\ \A p \in Clients : cl[p].pc \in Crit <=> lock = p
    /\ \A p \in Clients : At(p, "break") => lock = "abandoned" /\ lockOld
    /\ \A p, q \in Clients : At(p, "break") /\ At(q, "break") => p = q

LEMMA InitLock == Init => LockInv
  <1> SUFFICES ASSUME Init PROVE LockInv
    OBVIOUS
  <1>1. \A p \in Clients : cl[p].pc = "idle"
    BY IdleType DEF Init
  <1>2. lock = "free" /\ ~lockOld /\ \A p \in Clients : p # "free"
    BY CaddyAssumption DEF Init
  <1> QED
    BY <1>1, <1>2 DEF LockInv, At, Crit

\* Every step leaves the other commands where they are.
LEMMA OthersStay ==
  ASSUME Typed, NEW p \in Clients, Step(p) \/ \E op \in Ops, a \in Apps, b \in Block : Begin(p, op, a, b)
  PROVE  DOMAIN cl' = Clients /\ \A q \in Clients : q # p => cl'[q] = cl[q]
  <1>1. \A x, q : DOMAIN [cl EXCEPT ![p] = x] = DOMAIN cl /\ (q \in DOMAIN cl /\ q # p => [cl EXCEPT ![p] = x][q] = cl[q])
    OBVIOUS
  <1>2. DOMAIN cl = Clients
    BY DEF Typed, TypeOK
  <1>3. Step(p) \/ (\E op \in Ops, a \in Apps, b \in Block : Begin(p, op, a, b)) => \E x : cl' = [cl EXCEPT ![p] = x]
    <2>1. \A l : Goto(p, l) => \E x : cl' = [cl EXCEPT ![p] = x]
      BY DEF Goto
    <2>2. CASE \E op \in Ops, a \in Apps, b \in Block : Begin(p, op, a, b)
      BY <2>2 DEF Begin
    <2>3. CASE Cat(p)
      BY <2>3 DEF Cat
    <2>4. CASE Read(p)
      <3>1. ASSUME NEW n, NEW f, NEW c, cl' = [cl EXCEPT ![p].pc = n, ![p].prev = f, ![p].new = c]
            PROVE  \E x : cl' = [cl EXCEPT ![p] = x]
        BY <3>1
      <3> QED
        BY <2>4, <2>1, <3>1 DEF Read
    <2>5. CASE Release(p) \/ RemoveStash(p) \/ Dies(p) \/ TimesOut(p) \/ Test(p)
      BY <2>5, <2>1 DEF Release, RemoveStash, Dies, TimesOut, Test
    <2>6. CASE MkdirWon(p) \/ MkdirLost(p) \/ SeesStale(p) \/ Break(p) \/ Wait(p)
      BY <2>6, <2>1 DEF MkdirWon, MkdirLost, SeesStale, Break, Wait
    <2>7. CASE Stash(p) \/ Upload(p) \/ Move(p) \/ StepFails(p)
      BY <2>7, <2>1 DEF Stash, Upload, Move, StepFails
    <2>8. CASE Reload(p) \/ ReloadFails(p) \/ UndoReload(p) \/ Verify(p)
      BY <2>8, <2>1 DEF Reload, ReloadFails, UndoReload, Verify
    <2> QED
      BY <2>2, <2>3, <2>4, <2>5, <2>6, <2>7, <2>8 DEF Step
  <1>4. PICK x : cl' = [cl EXCEPT ![p] = x]
    BY <1>3
  <1> QED
    BY <1>1, <1>2, <1>4

\* Where a command goes, and that it goes on with what it has.
Moves(p, l) == cl'[p] = [cl[p] EXCEPT !.pc = l]

LEMMA GoesOn ==
  ASSUME Typed, NEW p \in Clients, NEW l, Goto(p, l)
  PROVE  Moves(p, l) /\ cl'[p].pc = l /\ cl'[p].op = cl[p].op /\ cl'[p].app = cl[p].app /\ cl'[p].blk = cl[p].blk
         /\ cl'[p].prev = cl[p].prev /\ cl'[p].new = cl[p].new
  <1>1. cl[p] \in ACommand /\ DOMAIN cl = Clients
    BY DEF Typed, TypeOK, ACommand
  <1>2. cl'[p] = [cl[p] EXCEPT !.pc = l]
    BY <1>1 DEF Goto
  <1> QED
    BY <1>1, <1>2 DEF Moves, ACommand

LEMMA GoesIdle ==
  ASSUME Typed, NEW p \in Clients, cl' = [cl EXCEPT ![p] = Idle]
  PROVE  cl'[p] = Idle /\ cl'[p].pc = "idle"
  BY IdleType DEF Typed, TypeOK

LEMMA LockStays ==
  ASSUME Typed, LockInv, NEW p \in Clients, \A q \in Clients : q # p => cl'[q] = cl[q],
         cl'[p].pc # "break", cl[p].pc \in Crit <=> cl'[p].pc \in Crit, UNCHANGED lockVars
  PROVE  LockInv'
  BY DEF LockInv, At, lockVars

LEMMA NextLock == Typed /\ Disciplined /\ LockInv /\ [OpsNext]_vars => LockInv'
  <1> SUFFICES ASSUME Typed, Disciplined, LockInv, [OpsNext]_vars PROVE LockInv'
    OBVIOUS
  <1>a. Clients \cap {"free", "abandoned"} = {}
    BY CaddyAssumption
  <1>1. ASSUME NEW p \in Clients, NEW op \in Ops, NEW a \in Apps, NEW b \in Block, Begin(p, op, a, b)
        PROVE  LockInv'
    <2>1. cl'[p].pc \in {"test", "lock"} /\ cl[p].pc = "idle"
      BY <1>1, IdleType DEF Begin, Typed, TypeOK, ACommand, At
    <2> QED
      BY <1>1, <2>1, OthersStay, LockStays DEF Begin, Crit
  <1>2. ASSUME NEW p \in Clients, Step(p), AsUsual PROVE LockInv'
    <2>o. \A q \in Clients : q # p => cl'[q] = cl[q]
      BY <1>2, OthersStay
    <2>l. \A l : Goto(p, l) => cl'[p].pc = l
      BY GoesOn
    <2>i. cl' = [cl EXCEPT ![p] = Idle] => cl'[p].pc = "idle"
      BY GoesIdle
    <2>b. \A q, r \in Clients : cl'[q].pc = "break" /\ cl'[r].pc = "break" => q = r
      BY <1>2 DEF AsUsual, Disciplined
    <2>1. CASE MkdirWon(p)
      BY ZenonT(40), <2>1, <2>o, <2>l, <1>a DEF MkdirWon, LockInv, At, Crit
    <2>2. CASE Break(p)
      BY ZenonT(40), <2>2, <2>o, <2>l, <1>a DEF Break, LockInv, At, Crit
    <2>3. CASE SeesStale(p)
      BY <2>3, <2>o, <2>l, <2>b DEF SeesStale, LockInv, At, Crit, lockVars
    <2>4. CASE Release(p)
      <3>1. cl'[p].pc \in {"idle", "rm stash"} /\ cl[p].pc \in Crit
        <4>1. CASE At(p, "release ok") /\ cl[p].op = "off"
          BY <2>4, <4>1, <2>l DEF Release, Goto, Typed, TypeOK, Crit
        <4>2. CASE ~(At(p, "release ok") /\ cl[p].op = "off")
          BY <2>4, <4>2, <2>i DEF Release, Crit
        <4> QED
          BY <4>1, <4>2
      <3> QED
        BY ZenonT(40), <2>4, <3>1, <2>o, <1>a DEF Release, LockInv, At, Crit
    <2>5. CASE Dies(p)
      <3>1. cl'[p].pc = "idle" /\ UNCHANGED lockOld
        BY <2>5, <2>i DEF Dies
      <3>2. CASE lock = p
        <4>1. lock' = "abandoned" /\ ~lockOld
          BY <2>5, <3>2, <1>a DEF Dies, LockInv
        <4> QED
          BY <2>o, <3>1, <3>2, <4>1, <1>a DEF LockInv, At, Crit
      <3>3. CASE lock # p
        <4>1. lock' = lock /\ cl[p].pc \notin Crit
          BY <2>5, <3>3 DEF Dies, LockInv
        <4> QED
          BY <2>o, <3>1, <3>3, <4>1, LockStays DEF Crit, lockVars
      <3> QED
        BY <3>2, <3>3
    <2>6. CASE Test(p) \/ MkdirLost(p) \/ Wait(p) \/ TimesOut(p) \/ RemoveStash(p)
      BY <2>6, <2>l, <2>i, <2>o, LockStays
         DEF Test, MkdirLost, Wait, TimesOut, RemoveStash, At, Crit, lockVars
    <2>7. CASE Cat(p)
      <3>1. cl'[p].pc \in {"lock", "idle"}
        BY <2>7, <2>i DEF Cat, Typed, TypeOK
      <3> QED
        BY <2>7, <3>1, <2>o, LockStays DEF Cat, At, Crit
    <2>8. CASE Read(p)
      <3> DEFINE next == IF cl[p].op = "on" /\ file.blk[cl[p].app] # NoBlock THEN "stash" ELSE "upload"
      <3>1. \A c : cl' = [cl EXCEPT ![p].pc = next, ![p].prev = file, ![p].new = c] => cl'[p].pc = next
        BY DEF Typed, TypeOK
      <3>2. cl'[p].pc \in {"stash", "upload", "release ok"}
        BY <2>8, <3>1, <2>l DEF Read
      <3> QED
        BY <2>8, <3>2, <2>o, LockStays DEF Read, At, Crit
    <2>9. CASE Stash(p) \/ Upload(p) \/ Move(p) \/ StepFails(p)
      BY <2>9, <2>l, <2>o, LockStays DEF Stash, Upload, Move, StepFails, At, Crit
    <2>10. CASE Reload(p) \/ ReloadFails(p) \/ UndoReload(p) \/ Verify(p)
      BY <2>10, <2>l, <2>o, LockStays DEF Reload, ReloadFails, UndoReload, Verify, At, Crit
    <2> QED
      BY <1>2, <2>1, <2>2, <2>3, <2>4, <2>5, <2>6, <2>7, <2>8, <2>9, <2>10 DEF Step
  <1>3. CASE Expire /\ AsUsual
    BY <1>3 DEF Expire, AsUsual, Disciplined, LockInv, At
  <1>4. CASE Boot
    BY <1>4 DEF Boot, LockInv, At, lockVars
  <1>5. CASE UNCHANGED vars
    BY <1>5 DEF vars, lockVars, LockInv, At
  <1> QED
    BY <1>1, <1>2, <1>3, <1>4, <1>5 DEF OpsNext, Next, Rest


-----------------------------------------------------------------------------
(* The file.  What the command past the lock has read is what the file     *)
(* holds, and what it writes differs from it in the blocks of one app.     *)
(* That presupposes that no app's name begins with another's.              *)

OwnOnly(c, d, a) == \A x \in Apps \ {a} : c.blk[x] = d.blk[x] /\ c.other[x] = d.other[x]
Sets(c, a, b) == c.blk[a] = b
Rewrites(x) == OwnOnly(x.new, x.prev, x.app) /\ Sets(x.new, x.app, x.blk) /\ ~x.prev.junk /\ ~x.new.junk

FileOf(x, f, t) ==
    /\ x.pc \in {"stash", "upload", "move", "reload", "undo", "undomove", "undoreload", "verify"} => Rewrites(x)
    /\ x.pc \in {"stash", "upload", "move", "undoreload"} => f = x.prev
    /\ x.pc \in {"reload", "undo", "undomove", "verify"} => f = x.new
    /\ x.pc = "move" => t = {x.new}
    /\ x.pc = "undomove" => t = {x.prev}

FileInv == ~file.junk /\ \A p \in Clients : FileOf(cl[p], file, tmp)

LEMMA RenderOwn ==
  ASSUME Longer = {}, NEW c \in Content, NEW a \in Apps, NEW adopt \in BOOLEAN, NEW b \in Block,
         NEW d, d = Render(c, a, adopt, b)
  PROVE  OwnOnly(d, c, a) /\ Sets(d, a, b) /\ (c.junk <=> d.junk)
  <1>1. {x \in Apps : <<a, x>> \in Longer /\ c.blk[x] # NoBlock} = {}
    OBVIOUS
  <1>2. c.other \in [Apps -> {"none", "hand", "redirect"}] /\ c.junk \in BOOLEAN
    BY DEF Content
  <1> QED
    BY <1>1, <1>2 DEF Render, OwnOnly, Sets

LEMMA TransformOwn ==
  ASSUME Longer = {}, NEW p, cl[p].app \in Apps, cl[p].op \in Ops, cl[p].blk \in Block, NEW c \in Content
  PROVE  /\ OwnOnly(Transform(c, p), c, cl[p].app)
         /\ Sets(Transform(c, p), cl[p].app, cl[p].blk) /\ (c.junk <=> Transform(c, p).junk)
  <1> DEFINE a == cl[p].app
             b == cl[p].blk
             r == Render(c, a, TRUE, b)
             k == Render(c, a, FALSE, b)
  <1>1. /\ OwnOnly(r, c, a) /\ Sets(r, a, b) /\ (c.junk <=> r.junk)
        /\ OwnOnly(k, c, a) /\ Sets(k, a, b) /\ (c.junk <=> k.junk)
        /\ r \in Content
    <2>1. r = Render(c, a, TRUE, b) /\ k = Render(c, a, FALSE, b)
      OBVIOUS
    <2>2. r \in Content
      BY RenderType
    <2>3. a \in Apps /\ b \in Block
      OBVIOUS
    <2> HIDE DEF a, b, r, k
    <2>4. OwnOnly(r, c, a) /\ Sets(r, a, b) /\ (c.junk <=> r.junk)
      BY <2>1, <2>3, RenderOwn
    <2>5. OwnOnly(k, c, a) /\ Sets(k, a, b) /\ (c.junk <=> k.junk)
      BY <2>1, <2>3, RenderOwn
    <2> QED
      BY <2>2, <2>4, <2>5
  <1>2. LET d == [r EXCEPT !.other[a] = "redirect"]
        IN  OwnOnly(d, c, a) /\ Sets(d, a, b) /\ (c.junk <=> d.junk)
    <2> HIDE DEF r
    <2> DEFINE d == [r EXCEPT !.other[a] = "redirect"]
    <2>1. d.blk = r.blk /\ d.junk = r.junk /\ d.other = [r.other EXCEPT ![a] = "redirect"]
      BY <1>1 DEF Content
    <2> HIDE DEF d
    <2>2. OwnOnly(d, c, a) /\ Sets(d, a, b) /\ (c.junk <=> d.junk)
      BY <1>1, <2>1 DEF OwnOnly, Sets
    <2> QED
      BY <2>2 DEF d
  <1> QED
    BY <1>1, <1>2 DEF Transform, Ops

LEMMA InitFile == Init => FileInv
  <1> SUFFICES ASSUME Init PROVE FileInv
    OBVIOUS
  <1>1. \A p \in Clients : cl[p].pc = "idle"
    BY IdleType DEF Init
  <1>2. ~file.junk
    BY DEF Init
  <1> QED
    BY <1>1, <1>2 DEF FileInv, FileOf

\* Past the lock a command is alone.
LEMMA Alone ==
  ASSUME LockInv, NEW p \in Clients, cl[p].pc \in Crit
  PROVE  \A q \in Clients : q # p => cl[q].pc \notin Crit
  BY DEF LockInv

LEMMA FileStays ==
  ASSUME FileInv, NEW p \in Clients, \A q \in Clients : q # p => cl'[q] = cl[q],
         UNCHANGED <<file, tmp>>, FileOf(cl'[p], file, tmp)
  PROVE  FileInv'
  BY DEF FileInv

LEMMA NextFile == Longer = {} /\ Typed /\ LockInv /\ FileInv /\ [OpsNext]_vars => FileInv'
  <1> SUFFICES ASSUME Longer = {}, Typed, LockInv, FileInv, [OpsNext]_vars PROVE FileInv'
    OBVIOUS
  <1>1. ASSUME NEW p \in Clients, NEW op \in Ops, NEW a \in Apps, NEW b \in Block, Begin(p, op, a, b)
        PROVE  FileInv'
    <2>1. cl'[p].pc \in {"test", "lock"}
      BY <1>1, IdleType DEF Begin, Typed, TypeOK, ACommand
    <2> QED
      BY <1>1, <2>1, OthersStay, FileStays DEF Begin, FileOf, disk
  <1>2. ASSUME NEW p \in Clients, Step(p) PROVE FileInv'
    <2>o. \A q \in Clients : q # p => cl'[q] = cl[q]
      BY <1>2, OthersStay
    <2>l. \A l : Goto(p, l) => /\ cl'[p].pc = l /\ cl'[p].op = cl[p].op /\ cl'[p].app = cl[p].app
                               /\ cl'[p].blk = cl[p].blk /\ cl'[p].prev = cl[p].prev /\ cl'[p].new = cl[p].new
      BY GoesOn
    <2>i. cl' = [cl EXCEPT ![p] = Idle] => cl'[p].pc = "idle"
      BY GoesIdle
    <2>f. FileOf(cl[p], file, tmp)
      BY DEF FileInv
    <2>a. cl[p].pc \in Crit => \A q \in Clients : q # p => cl'[q].pc \notin Crit
      BY <2>o, Alone
    <2>s. UNCHANGED <<file, tmp>> /\ FileOf(cl'[p], file, tmp) => FileInv'
      BY <2>o, FileStays
    <2>0. UNCHANGED <<file, tmp>>
          /\ cl'[p].pc \notin {"stash", "upload", "move", "reload", "undo", "undomove", "undoreload", "verify"}
          => FileInv'
      BY <2>s DEF FileOf
    <2>1. CASE MkdirWon(p) \/ MkdirLost(p) \/ Break(p) \/ SeesStale(p) \/ Wait(p)
      BY <2>1, <2>0, <2>l DEF MkdirWon, MkdirLost, SeesStale, Break, Wait, disk
    <2>2. CASE Test(p) \/ TimesOut(p) \/ RemoveStash(p) \/ Dies(p)
      <3>1. cl'[p].pc \in {"cat", "idle"}
        BY <2>2, <2>l, <2>i DEF Test, TimesOut, RemoveStash, Dies
      <3> QED
        BY <2>2, <3>1, <2>0 DEF Test, TimesOut, RemoveStash, Dies, disk
    <2>3. CASE Cat(p)
      <3>1. cl'[p].pc \in {"lock", "idle"}
        BY <2>3, <2>i DEF Cat, Typed, TypeOK
      <3> QED
        BY <2>3, <3>1, <2>0 DEF Cat, disk
    <2>4. CASE Release(p)
      <3>1. cl'[p].pc \in {"idle", "rm stash"}
        <4>1. CASE At(p, "release ok") /\ cl[p].op = "off"
          BY <2>4, <4>1 DEF Release, Typed, TypeOK
        <4>2. CASE ~(At(p, "release ok") /\ cl[p].op = "off")
          BY <2>4, <4>2, <2>i DEF Release
        <4> QED
          BY <4>1, <4>2
      <3> QED
        BY <2>4, <3>1, <2>0 DEF Release
    <2>5. CASE Read(p)
      <3> DEFINE next == IF cl[p].op = "on" /\ file.blk[cl[p].app] # NoBlock THEN "stash" ELSE "upload"
                 new == Transform(file, p)
      <3>1. OwnOnly(new, file, cl[p].app) /\ Sets(new, cl[p].app, cl[p].blk) /\ (file.junk <=> new.junk)
        <4>1. cl[p] \in ACommand /\ Running(cl[p], used) /\ cl[p].pc # "idle" /\ file \in Content
          BY <2>5 DEF Read, At, Typed, TypeOK, ACommand
        <4> QED
          BY <4>1, TransformOwn DEF Running, ACommand
      <3>2. UNCHANGED <<file, tmp>>
        BY <2>5 DEF Read, disk
      <3>3. \/ cl' = [cl EXCEPT ![p].pc = next, ![p].prev = file, ![p].new = new]
            \/ Goto(p, "release ok")
        BY <2>5 DEF Read
      <3> HIDE DEF new
      <3>4. CASE cl' = [cl EXCEPT ![p].pc = next, ![p].prev = file, ![p].new = new]
        <4>1. cl'[p].pc = next /\ cl'[p].prev = file /\ cl'[p].new = new
              /\ cl'[p].app = cl[p].app /\ cl'[p].blk = cl[p].blk
          BY <3>4 DEF Typed, TypeOK
        <4>2. Rewrites(cl'[p])
          BY <3>1, <4>1 DEF Rewrites, FileInv
        <4> QED
          BY <3>2, <4>1, <4>2, <2>s DEF FileOf
      <3>5. CASE Goto(p, "release ok")
        <4>1. cl'[p].pc = "release ok"
          BY <3>5, <2>l
        <4> QED
          BY <3>2, <4>1, <2>0
      <3> QED
        BY <3>3, <3>4, <3>5
    <2>6. CASE StepFails(p) \/ UndoReload(p) \/ Verify(p)
      <3>1. cl'[p].pc \in {"release", "release ok"}
        BY <2>6, <2>l DEF StepFails, UndoReload, Verify
      <3> QED
        BY <2>6, <3>1, <2>0 DEF StepFails, UndoReload, Verify, disk
    <2>9. CASE Stash(p) \/ Reload(p) \/ ReloadFails(p)
      <3>1. \/ cl[p].pc = "stash" /\ Goto(p, "upload")
            \/ cl[p].pc = "reload" /\ (Goto(p, "verify") \/ Goto(p, "undo"))
        BY <2>9 DEF Stash, Reload, ReloadFails, At
      <3>2. \/ cl[p].pc = "stash" /\ cl'[p].pc = "upload"
            \/ cl[p].pc = "reload" /\ cl'[p].pc \in {"verify", "undo"}
        BY <3>1, <2>l
      <3>3. Rewrites(cl[p]) => Rewrites(cl'[p])
        BY <3>1, <2>l DEF Rewrites
      <3>4. cl'[p].prev = cl[p].prev /\ cl'[p].new = cl[p].new
        BY <3>1, <2>l
      <3>5. FileOf(cl'[p], file, tmp)
        BY <3>2, <3>3, <3>4, <2>f DEF FileOf
      <3> QED
        BY <2>9, <3>5, <2>s DEF Stash, Reload, ReloadFails, disk
    <2>7. CASE Upload(p)
      <3>1. FileOf(cl'[p], file', tmp')
        BY <2>7, <2>f, <2>l DEF Upload, FileOf, Rewrites, At
      <3> QED
        BY <2>7, <3>1, <2>a, <2>o DEF Upload, FileInv, FileOf, Crit
    <2>8. CASE Move(p)
      <3>1. FileOf(cl'[p], file', tmp') /\ ~file'.junk
        BY <2>8, <2>f, <2>l DEF Move, FileOf, Rewrites, At
      <3> QED
        BY <2>8, <3>1, <2>a, <2>o DEF Move, FileInv, FileOf, Crit
    <2> QED
      BY <1>2, <2>1, <2>2, <2>3, <2>4, <2>5, <2>6, <2>7, <2>8, <2>9 DEF Step
  <1>3. CASE Expire \/ Boot
    BY <1>3 DEF Expire, Boot, FileInv, disk
  <1>5. CASE UNCHANGED vars
    BY <1>5 DEF vars, disk, FileInv
  <1> QED
    BY <1>1, <1>2, <1>3, <1>5 DEF OpsNext, Next, Rest

\* "Concurrent deploys of different apps to the same server can't clobber the
\* shared file": a write changes nothing but the blocks of its writer's app.
THEOREM OnlyOwnBlocks ==
  ASSUME Disciplined, Longer = {}
  PROVE  Spec => OnlyOwnBlock
  <1>1. Init => Typed /\ LockInv /\ FileInv
    BY InitTyped, InitLock, InitFile
  <1>2. Typed /\ LockInv /\ FileInv /\ [OpsNext]_vars => (Typed /\ LockInv /\ FileInv)'
    BY NextTyped, NextLock, NextFile
  <1> DEFINE Keeps == \A p \in Clients, a \in Apps : Move(p) /\ a # cl[p].app =>
                          file'.blk[a] = file.blk[a] /\ file'.other[a] = file.other[a]
  <1>3. FileInv => Keeps
    <2> SUFFICES ASSUME FileInv, NEW p \in Clients, NEW a \in Apps, Move(p), a # cl[p].app
                 PROVE  file'.blk[a] = file.blk[a] /\ file'.other[a] = file.other[a]
      OBVIOUS
    <2>1. FileOf(cl[p], file, tmp)
      BY DEF FileInv
    <2>2. {file, file'} \subseteq {cl[p].new, cl[p].prev} /\ OwnOnly(cl[p].new, cl[p].prev, cl[p].app)
      BY <2>1 DEF Move, FileOf, Rewrites
    <2> QED
      BY <2>2 DEF OwnOnly
  <1> QED
    BY <1>1, <1>2, <1>3, PTL DEF Spec, OnlyOwnBlock


-----------------------------------------------------------------------------
(* What Caddy runs.  As long as no command has failed and no process died, *)
(* it runs the file whenever no command is past the lock; what a command   *)
(* has read loads, so that putting it back after a failed reload succeeds. *)

Within == budget.faults <= MaxFaults /\ budget.crashes <= MaxCrashes

LEMMA InitWithin == Init => Within
  BY CaddyAssumption DEF Init, Within

LEMMA NextWithin ==
  ASSUME Typed, Within, [OpsNext]_vars
  PROVE  /\ Within'
         /\ budget'.faults <= budget.faults /\ budget'.crashes <= budget.crashes
         /\ Fault => budget'.faults = budget.faults - 1
         /\ Spend("crashes") => budget'.crashes = budget.crashes - 1
  <1>b. budget \in [{"ops", "faults", "crashes"} -> Nat] /\ MaxFaults \in Nat /\ MaxCrashes \in Nat
    BY CaddyAssumption DEF Typed, TypeOK
  <1>1. \/ UNCHANGED budget
        \/ \E k \in {"ops", "faults", "crashes"} : Spend(k)
    <2>1. ASSUME NEW p \in Clients, Step(p)
          PROVE  UNCHANGED budget \/ \E k \in {"ops", "faults", "crashes"} : Spend(k)
      <3>1. Step(p) => UNCHANGED budget \/ Fault \/ Spend("crashes")
        BY DEF Step, Test, Cat, MkdirWon, MkdirLost, SeesStale, Break, Wait, TimesOut, Read, Stash, Upload,
               Move, StepFails, Reload, ReloadFails, UndoReload, Verify, Release, RemoveStash, Dies
      <3> QED
        BY <2>1, <3>1 DEF Fault
    <2> QED
      BY <2>1 DEF OpsNext, Next, Begin, Expire, Boot, Rest, vars
  <1>2. CASE UNCHANGED budget
    <2>1. ~Fault /\ ~Spend("crashes")
      BY <1>2, <1>b DEF Fault, Spend
    <2> QED
      BY <1>2, <1>b, <2>1 DEF Within
  <1>3. ASSUME NEW k \in {"ops", "faults", "crashes"}, Spend(k)
        PROVE  /\ Within'
               /\ budget'.faults <= budget.faults /\ budget'.crashes <= budget.crashes
               /\ Fault => budget'.faults = budget.faults - 1
               /\ Spend("crashes") => budget'.crashes = budget.crashes - 1
    BY <1>3, <1>b, SpendType DEF Within, Fault
  <1> QED
    BY <1>1, <1>2, <1>3

\* Loads, of the deploys that Caddy rejects.
LoadsBut(c, b) == \A a \in Apps : c.blk[a].num \notin b /\ (c.blk[a] = NoBlock \/ c.other[a] = "none")

LEMMA LoadsIs == \A c : Loads(c) <=> LoadsBut(c, bad)
  BY DEF Loads, LoadsBut

LiveOf(x, f, v, b) ==
    /\ x.pc \in {"read", "stash", "upload", "move", "verify", "release ok", "release"} => LoadsBut(f, b) /\ v = f
    /\ x.pc \in {"reload", "undo", "undomove", "undoreload"} => LoadsBut(x.prev, b)

AtRest(x) == x.pc \notin Crit
LiveInv == Clean /\ mount = "directory" =>
    /\ (\A p \in Clients : AtRest(cl[p])) => LoadsBut(file, bad) /\ live = file
    /\ \A p \in Clients : LiveOf(cl[p], file, live, bad)

LEMMA CleanBefore ==
  ASSUME Typed, Within, [OpsNext]_vars, Clean'
  PROVE  Clean /\ ~Fault /\ ~Spend("crashes") /\ UNCHANGED setup
  <1>1. budget \in [{"ops", "faults", "crashes"} -> Nat] /\ MaxFaults \in Nat /\ MaxCrashes \in Nat
    BY CaddyAssumption DEF Typed, TypeOK
  <1>2. budget'.faults = MaxFaults /\ budget'.crashes = MaxCrashes
    BY DEF Clean, NoCrash
  <1>3. Clean /\ ~Fault /\ ~Spend("crashes")
    BY SMTT(40), <1>1, <1>2, NextWithin DEF Within, Clean, NoCrash
  <1>4. UNCHANGED setup
    BY ZenonT(40) DEF OpsNext, Next, Begin, Expire, Boot, Rest, vars, disk, Step, Test, Cat, MkdirWon, MkdirLost,
           SeesStale, Break, Wait, TimesOut, Read, Stash, Upload, Move, StepFails, Reload, ReloadFails,
           UndoReload, Verify, Release, RemoveStash, Dies
  <1> QED
    BY <1>3, <1>4

LEMMA InitLive == Init => LiveInv
  <1> SUFFICES ASSUME Init, mount = "directory" PROVE LiveInv
    BY DEF LiveInv
  <1>1. \A p \in Clients : cl[p].pc = "idle"
    BY IdleType DEF Init
  <1>2. live = file
    BY DEF Init
  <1>3. LoadsBut(file, bad)
    <2>1. PICK hand \in SUBSET Apps, n \in Nums \ bad :
              /\ cur = [a \in Apps |-> NoBlock]
              /\ file = [blk |-> cur, other |-> [a \in Apps |-> IF a \in hand THEN "hand" ELSE "none"],
                         junk |-> FALSE]
      BY DEF Init
    <2>2. 0 \notin bad
      BY CaddyAssumption DEF Init
    <2> QED
      BY <2>1, <2>2 DEF LoadsBut, NoBlock
  <1> QED
    BY <1>1, <1>2, <1>3 DEF LiveInv, LiveOf


LEMMA LiveStays ==
  ASSUME LiveInv, Clean, UNCHANGED <<file, live, setup>>, NEW p \in Clients,
         \A q \in Clients : q # p => cl'[q] = cl[q],
         AtRest(cl'[p]) => AtRest(cl[p]) \/ (LoadsBut(file, bad) /\ live = file),
         mount = "directory" /\ LiveOf(cl[p], file, live, bad) => LiveOf(cl'[p], file, live, bad)
  PROVE  LiveInv'
  <1> SUFFICES ASSUME mount = "directory"
               PROVE  /\ (\A q \in Clients : AtRest(cl'[q])) => LoadsBut(file', bad') /\ live' = file'
                      /\ \A q \in Clients : LiveOf(cl'[q], file', live', bad')
    BY DEF LiveInv, setup
  <1>1. \A q \in Clients : LiveOf(cl[q], file, live, bad)
    BY DEF LiveInv
  <1>2. (\A q \in Clients : AtRest(cl[q])) => LoadsBut(file, bad) /\ live = file
    BY DEF LiveInv
  <1> QED
    BY <1>1, <1>2 DEF setup

LEMMA LiveOutside ==
  ASSUME LiveInv, Clean, UNCHANGED <<file, live, setup>>, NEW p \in Clients,
         \A q \in Clients : q # p => cl'[q] = cl[q], cl[p].pc \notin Crit, cl'[p].pc \notin Crit
  PROVE  LiveInv'
  <1>1. AtRest(cl[p]) /\ LiveOf(cl'[p], file, live, bad)
    BY DEF AtRest, LiveOf, Crit
  <1>2. AtRest(cl'[p]) => AtRest(cl[p]) \/ (LoadsBut(file, bad) /\ live = file)
    BY <1>1
  <1>3. mount = "directory" /\ LiveOf(cl[p], file, live, bad) => LiveOf(cl'[p], file, live, bad)
    BY <1>1
  <1> QED
    BY <1>2, <1>3, LiveStays

LEMMA NextLive == Typed /\ Within /\ LockInv /\ FileInv /\ LiveInv /\ [OpsNext]_vars => LiveInv'
  <1> SUFFICES ASSUME Typed, Within, LockInv, FileInv, LiveInv, [OpsNext]_vars, Clean', mount' = "directory"
               PROVE  LiveInv'
    BY DEF LiveInv
  <1>c. Clean /\ ~Fault /\ ~Spend("crashes") /\ UNCHANGED setup
    BY CleanBefore
  <1>d. mount = "directory"
    BY <1>c DEF setup
  <1>r. /\ (\A q \in Clients : AtRest(cl[q])) => LoadsBut(file, bad) /\ live = file
        /\ \A q \in Clients : LiveOf(cl[q], file, live, bad)
    BY <1>c, <1>d DEF LiveInv
  <1>1. ASSUME NEW p \in Clients, NEW op \in Ops, NEW a \in Apps, NEW b \in Block, Begin(p, op, a, b)
        PROVE  LiveInv'
    <2>1. cl'[p].pc \in {"test", "lock"} /\ cl[p].pc = "idle"
      BY <1>1, IdleType DEF Begin, Typed, TypeOK, ACommand, At
    <2>2. UNCHANGED <<file, live>>
      BY <1>1 DEF Begin, disk
    <2>3. \A q \in Clients : q # p => cl'[q] = cl[q]
      BY <1>1, OthersStay
    <2>4. cl[p].pc \notin Crit /\ cl'[p].pc \notin Crit
      BY <2>1 DEF Crit
    <2> QED
      BY <1>c, <2>2, <2>3, <2>4, LiveOutside
  <1>2. ASSUME NEW p \in Clients, Step(p) PROVE LiveInv'
    <2>o. \A q \in Clients : q # p => cl'[q] = cl[q]
      BY <1>2, OthersStay
    <2>l. \A l : Goto(p, l) => /\ cl'[p].pc = l /\ cl'[p].op = cl[p].op /\ cl'[p].app = cl[p].app
                               /\ cl'[p].blk = cl[p].blk /\ cl'[p].prev = cl[p].prev /\ cl'[p].new = cl[p].new
      BY GoesOn
    <2>i. cl' = [cl EXCEPT ![p] = Idle] => cl'[p].pc = "idle"
      BY GoesIdle
    <2>f. FileOf(cl[p], file, tmp) /\ ~file.junk
      BY DEF FileInv
    <2>v. LiveOf(cl[p], file, live, bad)
      BY <1>r
    <2>a. cl[p].pc \in Crit => \A q \in Clients : q # p => cl'[q].pc \notin Crit
      BY <2>o, Alone
    \* a step past the lock: the others are not concerned
    <2>s. cl[p].pc \in Crit /\ LiveOf(cl'[p], file', live', bad) /\ cl'[p].pc \in Crit => LiveInv'
      <3> SUFFICES ASSUME cl[p].pc \in Crit, LiveOf(cl'[p], file', live', bad), cl'[p].pc \in Crit
                   PROVE  \A q \in Clients : LiveOf(cl'[q], file', live', bad')
        BY DEF LiveInv, AtRest
      <3> QED
        BY <2>a, <1>c DEF LiveOf, Crit, setup
    \* a step outside
    <2>0. UNCHANGED <<file, live>> /\ cl[p].pc \notin Crit /\ cl'[p].pc \notin Crit => LiveInv'
      BY <1>c, <2>o, LiveOutside
    <2>1. CASE MkdirWon(p)
      <3>1. \A q \in Clients : AtRest(cl[q])
        BY <2>1, CaddyAssumption DEF MkdirWon, LockInv, AtRest
      <3>2. cl'[p].pc = "read" /\ UNCHANGED <<file, live>>
        BY <2>1, <2>l DEF MkdirWon, disk
      <3> QED
        BY <3>1, <3>2, <2>o, <1>r, <1>c DEF LiveInv, LiveOf, AtRest, Crit, setup
    <2>2. CASE MkdirLost(p) \/ Break(p) \/ SeesStale(p) \/ Wait(p)
      <3>1. cl[p].pc \in {"lock", "stale", "break"} /\ cl'[p].pc \in {"lock", "stale", "break"}
            /\ UNCHANGED <<file, live>>
        BY <2>2, <2>l DEF MkdirLost, SeesStale, Break, Wait, disk, At
      <3> QED
        BY <3>1, <2>0 DEF Crit
    <2>3. CASE Test(p) \/ TimesOut(p) \/ RemoveStash(p)
      <3>1. cl'[p].pc \in {"cat", "idle"} /\ cl[p].pc \in {"test", "stale", "rm stash"} /\ UNCHANGED <<file, live>>
        BY <2>3, <2>l, <2>i DEF Test, TimesOut, RemoveStash, disk, At
      <3> QED
        BY <3>1, <2>0 DEF Crit
    <2>4. CASE Cat(p)
      <3>1. cl'[p].pc \in {"lock", "idle"} /\ cl[p].pc = "cat"
        BY <2>4, <2>i DEF Cat, Typed, TypeOK, At
      <3> QED
        BY <2>4, <3>1, <2>0 DEF Cat, disk, Crit
    <2>5. CASE Release(p)
      <3>1. cl'[p].pc \in {"idle", "rm stash"}
        <4>1. CASE At(p, "release ok") /\ cl[p].op = "off"
          BY <2>5, <4>1 DEF Release, Typed, TypeOK
        <4>2. CASE ~(At(p, "release ok") /\ cl[p].op = "off")
          BY <2>5, <4>2, <2>i DEF Release
        <4> QED
          BY <4>1, <4>2
      <3>2. LoadsBut(file, bad) /\ live = file
        BY <2>5, <2>v DEF Release, LiveOf
      <3>3. UNCHANGED <<file, live>>
        BY <2>5 DEF Release
      <3> QED
        BY <3>1, <3>2, <3>3, <2>o, <1>c, LiveStays DEF LiveOf
    <2>6. CASE Read(p)
      <3> DEFINE next == IF cl[p].op = "on" /\ file.blk[cl[p].app] # NoBlock THEN "stash" ELSE "upload"
      <3>1. \A c : cl' = [cl EXCEPT ![p].pc = next, ![p].prev = file, ![p].new = c] => cl'[p].pc = next
        BY DEF Typed, TypeOK
      <3>2. cl'[p].pc \in {"stash", "upload", "release ok"}
        BY <2>6, <3>1, <2>l DEF Read
      <3> QED
        BY <2>6, <3>2, <2>s, <2>v DEF Read, At, disk, LiveOf, Crit
    <2>7. CASE Stash(p) \/ Upload(p)
      <3>1. UNCHANGED <<file, live>> /\ cl'[p].prev = cl[p].prev
            /\ \/ cl[p].pc = "stash" /\ cl'[p].pc = "upload"
               \/ cl[p].pc = "upload" /\ cl'[p].pc = "move"
               \/ cl[p].pc = "undo" /\ cl'[p].pc = "undomove"
        BY <2>7, <2>l DEF Stash, Upload, At
      <3> QED
        BY <3>1, <2>s, <2>v DEF LiveOf, Crit
    <2>8. CASE Move(p)
      <3>1. live' = live /\ cl'[p].prev = cl[p].prev
            /\ \/ cl[p].pc = "move" /\ cl'[p].pc = "reload"
               \/ cl[p].pc = "undomove" /\ cl'[p].pc = "undoreload"
        BY <2>8, <2>l DEF Move, At
      <3>2. LoadsBut(cl[p].prev, bad)
        BY <3>1, <2>f, <2>v DEF FileOf, LiveOf
      <3> QED
        BY <3>1, <3>2, <2>s DEF LiveOf, Crit
    <2>9. CASE StepFails(p)
      BY <2>9, <2>f, <1>c DEF StepFails, FileOf
    <2>10. CASE Reload(p)
      <3>1. LoadsBut(file, bad) /\ live' = file /\ UNCHANGED file
        BY <2>10, <1>d, LoadsIs DEF Reload
      <3>2. cl[p].pc = "reload" /\ cl'[p].pc = "verify"
        BY <2>10, <2>l DEF Reload, At
      <3> QED
        BY <3>1, <3>2, <2>s DEF LiveOf, Crit
    <2>11. CASE ReloadFails(p)
      <3>1. UNCHANGED <<file, live>> /\ cl[p].pc = "reload" /\ cl'[p].pc = "undo" /\ cl'[p].prev = cl[p].prev
        BY <2>11, <2>l DEF ReloadFails, At, disk
      <3> QED
        BY <3>1, <2>s, <2>v DEF LiveOf, Crit
    <2>12. CASE UndoReload(p)
      <3>1. cl[p].pc = "undoreload" /\ cl'[p].pc = "release" /\ UNCHANGED file
        BY <2>12, <2>l DEF UndoReload, At
      <3>2. LoadsBut(file, bad) /\ ~Rejects(file)
        BY <3>1, <2>f, <2>v, LoadsIs DEF FileOf, LiveOf, Rejects
      <3>3. live' = file
        BY <2>12, <3>2, <1>c, <1>d DEF UndoReload
      <3> QED
        BY <3>1, <3>2, <3>3, <2>s DEF LiveOf, Crit
    <2>13. CASE Verify(p)
      <3>1. cl[p].pc = "verify" /\ cl'[p].pc = "release ok" /\ UNCHANGED <<file, live>>
        BY <2>13, <2>l, <1>d DEF Verify, At, disk
      <3> QED
        BY <3>1, <2>s, <2>v DEF LiveOf, Crit
    <2>14. CASE Dies(p)
      BY <2>14, <1>c DEF Dies
    <2> QED
      BY <1>2, <2>1, <2>2, <2>3, <2>4, <2>5, <2>6, <2>7, <2>8, <2>9, <2>10, <2>11, <2>12, <2>13, <2>14 DEF Step
  <1>3. CASE Boot
    <2>1. UNCHANGED <<file, cl>>
      BY <1>3 DEF Boot
    <2>2. LoadsBut(file, bad) => live' = file
      BY <1>3, LoadsIs DEF Boot, Rejects, FileInv
    <2> QED
      BY <1>r, <1>c, <2>1, <2>2 DEF LiveInv, LiveOf, setup
  <1>4. CASE Expire
    BY <1>4, <1>r, <1>c DEF Expire, LiveInv, disk, setup
  <1>5. CASE UNCHANGED vars
    BY <1>5, <1>r, <1>c DEF vars, LiveInv, disk, setup
  <1> QED
    BY <1>1, <1>2, <1>3, <1>4, <1>5 DEF OpsNext, Next, Rest

\* "A failed reload rolls the file back so Caddy never persists a config it
\* can't load": if nothing failed but Caddy's rejecting a block, the file is what
\* Caddy runs whenever no command is running.
THEOREM FileStaysLive ==
  ASSUME Disciplined, Longer = {}
  PROVE  Spec => []FileIsLive
  <1> DEFINE Inv == Typed /\ Within /\ LockInv /\ FileInv /\ LiveInv
  <1>1. Init => Inv
    BY InitTyped, InitWithin, InitLock, InitFile, InitLive
  <1>2. Inv /\ [OpsNext]_vars => Inv'
    BY NextTyped, NextWithin, NextLock, NextFile, NextLive
  <1>3. Inv => FileIsLive
    BY LoadsIs DEF LiveInv, FileIsLive, AllIdle, AtRest, At, Crit
  <1> QED
    BY <1>1, <1>2, <1>3, PTL DEF Spec


-----------------------------------------------------------------------------
(* Maintenance.  With one command at a time on an app, and nothing but     *)
(* `off` and `remove` during its maintenance, what is stashed is a route.  *)

OneAtATime == Disciplined /\ {"one per app", "maintenance alone"} \subseteq Habits /\ IsFiniteSet(Clients)

Busy(p) == cl[p].pc # "idle"
OnePerApp == \A p, q \in Clients : Busy(p) /\ Busy(q) /\ cl[p].app = cl[q].app => p = q

PageOf(x, f, st) ==
    /\ x.op = "on" => x.blk = MaintBlock
    /\ x.op = "on" /\ x.pc \in {"lock", "stale", "break", "read", "stash", "upload", "move"}
            => f.blk[x.app] # MaintBlock
    /\ x.pc = "cat" => st[x.app] # NoBlock
    /\ x.op = "off" /\ x.pc \notin {"test", "cat", "rm stash"} => x.blk \in Route
    /\ x.op = "off" /\ x.pc = "release ok" => f.blk[x.app] = x.blk

PageInv == /\ OnePerApp
           /\ \A a \in Apps : stash[a] \in Route \cup {NoBlock}
           /\ \A p \in Clients : Busy(p) => PageOf(cl[p], file, stash)

LEMMA InitPage == Init => PageInv
  <1> SUFFICES ASSUME Init PROVE PageInv
    OBVIOUS
  <1>1. \A p \in Clients : cl[p].pc = "idle"
    BY IdleType DEF Init
  <1>2. \A a \in Apps : stash[a] = NoBlock
    BY DEF Init
  <1> QED
    BY <1>1, <1>2 DEF PageInv, OnePerApp, Busy

\* What the habit "one per app" says of the commands.
LEMMA OneEach ==
  ASSUME OneAtATime, AsUsual, Typed'
  PROVE  OnePerApp'
  <1> SUFFICES ASSUME NEW p \in Clients, NEW q \in Clients, cl'[p].pc # "idle", cl'[q].pc # "idle",
                      cl'[p].app = cl'[q].app, p # q
               PROVE  FALSE
    BY DEF OnePerApp, Busy
  <1> DEFINE a == cl'[p].app
             W == {r \in Clients : cl'[r].app = a}
  <1>1. a \in Apps
    BY DEF Typed, Running
  <1>2. Cardinality(W) <= 1
    BY <1>1 DEF AsUsual, OneAtATime, WorkingOn
  <1>3. {p, q} \subseteq W /\ IsFiniteSet(W)
    BY FS_Subset DEF OneAtATime
  <1>4. Cardinality({p, q}) = 2
    <2>1. IsFiniteSet({p}) /\ Cardinality({p}) = 1 /\ q \notin {p} /\ {p} \cup {q} = {p, q}
      BY FS_Singleton
    <2> QED
      BY <2>1, FS_AddElement
  <1> HIDE DEF W
  <1>5. Cardinality({p, q}) <= Cardinality(W) /\ Cardinality(W) \in Nat
    BY <1>3, FS_Subset, FS_CardinalityType
  <1> QED
    BY <1>2, <1>4, <1>5

\* A step changes the file's block and the stash of its own app alone.
LEMMA PageStays ==
  ASSUME PageInv, NEW p \in Clients, \A q \in Clients : q # p => cl'[q] = cl[q],
         NEW a, Busy(p) => cl[p].app = a,
         \A b \in Apps \ {a} : file'.blk[b] = file.blk[b] /\ stash'[b] = stash[b],
         \A q \in Clients : q # p /\ Busy(q) => cl[q].app \in Apps \ {a},
         a \in Apps => stash'[a] \in Route \cup {NoBlock},
         cl'[p].pc # "idle" => PageOf(cl'[p], file', stash'),
         OnePerApp'
  PROVE  PageInv'
  <1>1. \A b \in Apps : stash'[b] \in Route \cup {NoBlock}
    BY DEF PageInv
  <1>2. ASSUME NEW q \in Clients, q # p, cl'[q].pc # "idle" PROVE PageOf(cl'[q], file', stash')
    <2>1. PageOf(cl[q], file, stash) /\ cl'[q] = cl[q] /\ cl[q].app \in Apps \ {a}
      BY <1>2 DEF PageInv, Busy
    <2> QED
      BY <2>1 DEF PageOf
  <1> QED
    BY <1>1, <1>2 DEF PageInv, Busy

LEMMA NextPage ==
  OneAtATime /\ Longer = {} /\ Typed /\ LockInv /\ FileInv /\ PageInv /\ [OpsNext]_vars => PageInv'
  <1> SUFFICES ASSUME OneAtATime, Longer = {}, Typed, LockInv, FileInv, PageInv, [OpsNext]_vars
               PROVE  PageInv'
    OBVIOUS
  <1>t. Typed'
    BY NextTyped
  <1>k. UNCHANGED vars => PageInv'
    BY DEF vars, disk, PageInv, OnePerApp, Busy
  <1> SUFFICES ASSUME Next, AsUsual PROVE PageInv'
    BY <1>k DEF OpsNext
  <1>e. OnePerApp'
    BY <1>t, OneEach
  <1>1. ASSUME NEW p \in Clients, NEW op \in Ops, NEW a \in Apps, NEW b \in Block, Begin(p, op, a, b)
        PROVE  PageInv'
    <2>1. /\ cl'[p].pc = IF op = "off" THEN "test" ELSE "lock"
          /\ cl'[p].op = op /\ cl'[p].app = a /\ cl'[p].blk = b
      BY <1>1, IdleType DEF Begin, Typed, TypeOK, ACommand
    <2>2. ~Busy(p) /\ UNCHANGED <<file, stash>> /\ \A q \in Clients : q # p => cl'[q] = cl[q]
      BY <1>1, OthersStay DEF Begin, disk, Busy, At
    <2>3. op = "on" => b = MaintBlock /\ file.blk[a] # MaintBlock
      BY <1>1, <2>1 DEF Begin, AsUsual, OneAtATime, InMaintenance
    <2>4. PageOf(cl'[p], file', stash')
      BY <2>1, <2>2, <2>3 DEF PageOf
    <2>5. \A q \in Clients : q # p /\ Busy(q) => cl[q].app \in Apps \ {a}
      BY <1>e, <2>1, <2>2 DEF OnePerApp, Busy, Typed, Running
    <2>6. a \in Apps => stash'[a] \in Route \cup {NoBlock}
      BY <2>2 DEF PageInv
    <2> QED
      BY <1>e, <2>2, <2>4, <2>5, <2>6, PageStays
  <1>2. ASSUME NEW p \in Clients, Step(p) PROVE PageInv'
    <2> DEFINE a == cl[p].app
    <2>o. \A q \in Clients : q # p => cl'[q] = cl[q]
      BY <1>2, OthersStay
    <2>l. \A l : Goto(p, l) => /\ cl'[p].pc = l /\ cl'[p].op = cl[p].op /\ cl'[p].app = cl[p].app
                               /\ cl'[p].blk = cl[p].blk /\ cl'[p].prev = cl[p].prev /\ cl'[p].new = cl[p].new
      BY GoesOn
    <2>i. cl' = [cl EXCEPT ![p] = Idle] => cl'[p].pc = "idle"
      BY GoesIdle
    <2>b. Busy(p) /\ cl[p] \in ACommand /\ a \in Apps /\ cl[p].op \in Ops
          /\ (cl[p].pc = "stash" => cl[p].op = "on") /\ (cl[p].pc \in {"test", "cat"} => cl[p].op = "off")
      <3>1. cl[p].pc # "idle"
        BY <1>2 DEF Step, Test, Cat, MkdirWon, MkdirLost, SeesStale, Break, Wait, TimesOut, Read, Stash,
               Upload, Move, StepFails, Reload, ReloadFails, UndoReload, Verify, Release, RemoveStash, Dies, At
      <3> QED
        BY <3>1 DEF Busy, Typed, TypeOK, ACommand, Running
    <2>w. file \in Content /\ stash \in [Apps -> Block]
      BY DEF Typed, TypeOK
    <2>q. \A q \in Clients : q # p /\ Busy(q) => cl[q].app \in Apps \ {a}
      BY <2>b DEF PageInv, OnePerApp, Busy, Typed, Running
    <2>f. FileOf(cl[p], file, tmp)
      BY DEF FileInv
    <2>g. PageOf(cl[p], file, stash) /\ stash[a] \in Route \cup {NoBlock}
      BY <2>b DEF PageInv
    \* a step that changes neither
    <2>0. UNCHANGED <<file, stash>> /\ (cl'[p].pc # "idle" => PageOf(cl'[p], file, stash)) => PageInv'
      BY <1>e, <2>b, <2>o, <2>q, <2>g, PageStays
    \* a step that goes to a label
    <2>j. \A l : Goto(p, l) /\ UNCHANGED <<file, stash>>
                 /\ l \notin {"cat", "release ok", "lock", "stale", "break", "read", "stash", "upload", "move"}
                 /\ cl[p].pc \notin {"test", "cat", "rm stash"}
                 => PageInv'
      BY <2>0, <2>l, <2>g DEF PageOf
    <2>1. CASE Test(p)
      <3>1. UNCHANGED <<file, stash>> /\ cl[p].op = "off"
        BY <2>1, <2>b DEF Test, disk, At
      <3>2. \/ stash[a] # NoBlock /\ Goto(p, "cat")
            \/ cl' = [cl EXCEPT ![p] = Idle]
        BY <2>1 DEF Test
      <3>3. CASE stash[a] # NoBlock /\ Goto(p, "cat")
        <4>1. cl'[p].pc = "cat" /\ cl'[p].op = "off" /\ stash[cl'[p].app] # NoBlock
          BY <3>1, <3>3, <2>l
        <4> QED
          BY <3>1, <4>1, <2>0 DEF PageOf
      <3>4. CASE cl' = [cl EXCEPT ![p] = Idle]
        BY <3>1, <3>4, <2>0, <2>i
      <3> QED
        BY <3>2, <3>3, <3>4
    <2>2. CASE Cat(p)
      <3>1. UNCHANGED <<file, stash>> /\ cl[p].op = "off" /\ stash[a] \in Route
        BY <2>2, <2>b, <2>g DEF Cat, At, disk, PageOf
      <3>2. cl' = [cl EXCEPT ![p].pc = "lock", ![p].blk = stash[a]]
            => cl'[p].pc = "lock" /\ cl'[p].op = "off" /\ cl'[p].blk = stash[a]
        BY <3>1, <2>b DEF Typed, TypeOK
      <3> QED
        BY <2>2, <3>1, <3>2, <2>0, <2>i DEF Cat, PageOf
    <2>3. CASE MkdirWon(p) \/ MkdirLost(p) \/ Break(p) \/ SeesStale(p) \/ Wait(p)
      <3>1. /\ cl[p].pc \in {"lock", "stale", "break"} /\ cl'[p].pc \in {"lock", "stale", "break", "read"}
            /\ cl'[p].op = cl[p].op /\ cl'[p].app = cl[p].app /\ cl'[p].blk = cl[p].blk
            /\ UNCHANGED <<file, stash>>
        BY <2>3, <2>l DEF MkdirWon, MkdirLost, SeesStale, Break, Wait, disk, At
      <3> QED
        BY <3>1, <2>0, <2>g DEF PageOf
    <2>4. CASE TimesOut(p) \/ Dies(p)
      BY <2>4, <2>0, <2>i DEF TimesOut, Dies, disk
    <2>5. CASE Read(p)
      <3> DEFINE next == IF cl[p].op = "on" /\ file.blk[a] # NoBlock THEN "stash" ELSE "upload"
                 new == Transform(file, p)
      <3>1. Sets(new, a, cl[p].blk) /\ UNCHANGED <<file, stash>> /\ cl[p].pc = "read"
        BY <2>5, <2>b, <2>w, TransformOwn DEF Read, disk, ACommand, At
      <3>2. \/ cl' = [cl EXCEPT ![p].pc = next, ![p].prev = file, ![p].new = new]
            \/ new = file /\ Goto(p, "release ok")
        BY <2>5 DEF Read
      <3> HIDE DEF new
      <3>3. CASE cl' = [cl EXCEPT ![p].pc = next, ![p].prev = file, ![p].new = new]
        <4>1. cl'[p].pc \in {"stash", "upload"} /\ cl'[p].op = cl[p].op
              /\ cl'[p].app = cl[p].app /\ cl'[p].blk = cl[p].blk
          BY <3>3 DEF Typed, TypeOK
        <4> QED
          BY <3>1, <4>1, <2>0, <2>g DEF PageOf
      <3>4. CASE new = file /\ Goto(p, "release ok")
        <4>1. cl'[p].pc = "release ok" /\ cl'[p].op = cl[p].op
              /\ cl'[p].app = cl[p].app /\ cl'[p].blk = cl[p].blk
          BY <3>4, <2>l
        <4>2. file.blk[a] = cl[p].blk
          BY <3>1, <3>4 DEF Sets
        <4> QED
          BY <3>1, <4>1, <4>2, <2>0, <2>g DEF PageOf
      <3> QED
        BY <3>2, <3>3, <3>4
    <2>6. CASE Stash(p)
      <3>1. /\ cl[p].pc = "stash" /\ cl'[p].pc = "upload" /\ UNCHANGED file
            /\ cl'[p].op = cl[p].op /\ cl'[p].app = cl[p].app /\ cl'[p].blk = cl[p].blk
            /\ stash' = [stash EXCEPT ![a] = cl[p].prev.blk[a]]
        BY <2>6, <2>l DEF Stash, At
      <3>2. file.blk[a] # MaintBlock /\ file.blk[a] \in Block /\ cl[p].prev.blk[a] = file.blk[a]
        BY <3>1, <2>b, <2>w, <2>f, <2>g DEF FileOf, PageOf, Content
      <3>3. stash'[a] \in Route \cup {NoBlock}
        BY <3>1, <3>2, <2>b, <2>w DEF Block
      <3>4. \A b \in Apps \ {a} : file'.blk[b] = file.blk[b] /\ stash'[b] = stash[b]
        BY <3>1, <2>w
      <3>5. PageOf(cl'[p], file', stash')
        BY <3>1, <3>2, <2>b, <2>g DEF PageOf
      <3> QED
        BY <3>3, <3>4, <3>5, <1>e, <2>o, <2>q, PageStays
    <2>7. CASE Upload(p)
      <3>1. /\ cl'[p].op = cl[p].op /\ cl'[p].app = cl[p].app /\ cl'[p].blk = cl[p].blk
            /\ UNCHANGED <<file, stash>>
            /\ \/ cl[p].pc = "upload" /\ cl'[p].pc = "move"
               \/ cl[p].pc = "undo" /\ cl'[p].pc = "undomove"
        BY <2>7, <2>l DEF Upload, At
      <3> QED
        BY <3>1, <2>0, <2>g DEF PageOf
    <2>8. CASE Move(p)
      <3>1. /\ cl'[p].op = cl[p].op /\ cl'[p].app = cl[p].app /\ cl'[p].blk = cl[p].blk /\ UNCHANGED stash
            /\ cl[p].pc \in {"move", "undomove"} /\ cl'[p].pc \in {"reload", "undoreload"}
        BY <2>8, <2>l DEF Move, At
      <3>2. {file, file'} \subseteq {cl[p].new, cl[p].prev} /\ OwnOnly(cl[p].new, cl[p].prev, a)
        BY <2>8, <2>f DEF Move, FileOf, Rewrites
      <3>3. \A b \in Apps \ {a} : file'.blk[b] = file.blk[b] /\ stash'[b] = stash[b]
        BY <3>1, <3>2 DEF OwnOnly
      <3>4. PageOf(cl'[p], file', stash')
        BY <3>1, <2>g DEF PageOf
      <3>5. stash'[a] \in Route \cup {NoBlock}
        BY <3>1, <2>g
      <3> HIDE DEF a
      <3> QED
        BY <3>3, <3>4, <3>5, <1>e, <2>o, <2>q, PageStays DEF a
    <2>9. CASE StepFails(p) \/ Reload(p) \/ ReloadFails(p) \/ UndoReload(p)
      BY <2>9, <2>j DEF StepFails, Reload, ReloadFails, UndoReload, disk, At
    <2>10. CASE Verify(p)
      <3>1. /\ cl'[p].op = cl[p].op /\ cl'[p].app = cl[p].app /\ cl'[p].blk = cl[p].blk
            /\ cl[p].pc = "verify" /\ cl'[p].pc \in {"release", "release ok"} /\ UNCHANGED <<file, stash>>
        BY <2>10, <2>l DEF Verify, disk, At
      <3>2. file.blk[a] = cl[p].blk
        BY <3>1, <2>f DEF FileOf, Rewrites, Sets
      <3> QED
        BY <3>1, <3>2, <2>0, <2>g DEF PageOf
    <2>11. CASE Release(p)
      <3>1. file' = file /\ cl'[p].pc \in {"idle", "rm stash"} /\ (cl'[p].pc = "rm stash" => cl'[p].op = "off")
        <4>1. CASE At(p, "release ok") /\ cl[p].op = "off"
          BY <2>11, <4>1, <2>b DEF Release, Typed, TypeOK, ACommand
        <4>2. CASE ~(At(p, "release ok") /\ cl[p].op = "off")
          BY <2>11, <4>2, <2>i DEF Release
        <4> QED
          BY <4>1, <4>2
      <3>2. stash' = stash \/ stash' = [stash EXCEPT ![a] = NoBlock]
        <4>1. Succeed(p) \/ UNCHANGED stash
          BY <2>11 DEF Release
        <4>2. Succeed(p) => stash' = stash \/ stash' = [stash EXCEPT ![a] = NoBlock]
          BY <2>b DEF Succeed, Ops
        <4> QED
          BY <4>1, <4>2
      <3>3. \A b \in Apps \ {a} : file'.blk[b] = file.blk[b] /\ stash'[b] = stash[b]
        BY <3>1, <3>2, <2>w
      <3>4. stash'[a] \in Route \cup {NoBlock}
        BY <3>2, <2>g, <2>b, <2>w
      <3>5. cl'[p].pc # "idle" => PageOf(cl'[p], file', stash')
        BY <3>1 DEF PageOf
      <3> QED
        BY <3>3, <3>4, <3>5, <1>e, <2>o, <2>q, PageStays
    <2>12. CASE RemoveStash(p)
      <3>1. file' = file /\ cl'[p].pc = "idle" /\ (stash' = stash \/ stash' = [stash EXCEPT ![a] = NoBlock])
        BY <2>12, <2>i DEF RemoveStash
      <3>2. \A b \in Apps \ {a} : file'.blk[b] = file.blk[b] /\ stash'[b] = stash[b]
        BY <3>1, <2>w
      <3>3. stash'[a] \in Route \cup {NoBlock}
        BY <3>1, <2>g, <2>b, <2>w
      <3> QED
        BY <3>1, <3>2, <3>3, <1>e, <2>o, <2>q, PageStays
    <2> QED
      BY <1>2, <2>1, <2>2, <2>3, <2>4, <2>5, <2>6, <2>7, <2>8, <2>9, <2>10, <2>11, <2>12 DEF Step
  <1>3. CASE Expire \/ Boot
    BY <1>3 DEF Expire, Boot, PageInv, OnePerApp, Busy, disk
  <1>4. CASE Rest
    BY <1>4, <1>k DEF Rest
  <1> QED
    BY <1>1, <1>2, <1>3, <1>4 DEF Next


\* `maintenance off` that succeeds has put a route there, not the page.
THEOREM OffAlwaysShowsRoute ==
  ASSUME OneAtATime, Longer = {}
  PROVE  Spec => OffShowsRoute
  <1> DEFINE Inv == Typed /\ LockInv /\ FileInv /\ PageInv
             Shows == \A p \in Clients : Release(p) /\ At(p, "release ok") /\ cl[p].op = "off" =>
                          file.blk[cl[p].app] \in Route
  <1>1. Disciplined
    BY DEF OneAtATime
  <1>2. Init => Inv
    BY InitTyped, InitLock, InitFile, InitPage
  <1>3. Inv /\ [OpsNext]_vars => Inv'
    BY <1>1, NextTyped, NextLock, NextFile, NextPage
  <1>4. Inv => Shows
    BY DEF PageInv, Busy, PageOf, At
  <1> QED
    BY <1>2, <1>3, <1>4, PTL DEF Spec, OffShowsRoute


-----------------------------------------------------------------------------
(* The steps of a command, past what the invariants above say of it: where *)
(* it goes, and what it changes of the file, of what Caddy runs, of the    *)
(* stash and of the world.                                                 *)

Routes == <<file, live, stash, world>>
Same(p) == /\ cl'[p].op = cl[p].op /\ cl'[p].app = cl[p].app /\ cl'[p].blk = cl[p].blk
           /\ cl'[p].prev = cl[p].prev /\ cl'[p].new = cl[p].new
Goes(p, from, to) == cl[p].pc = from /\ cl'[p].pc = to

Waits(p) == /\ UNCHANGED Routes /\ Same(p)
            /\ \/ Goes(p, "test", "cat") /\ stash[cl[p].app] # NoBlock
               \/ cl[p].pc \in {"lock", "stale", "break"} /\ cl'[p].pc \in {"lock", "stale", "break", "read"}
Fetches(p) == /\ UNCHANGED Routes /\ Goes(p, "cat", "lock")
              /\ cl'[p].op = cl[p].op /\ cl'[p].app = cl[p].app /\ cl'[p].blk = stash[cl[p].app]
Leaves(p) == UNCHANGED Routes /\ cl[p].pc \in {"test", "cat", "rm stash"} /\ cl'[p].pc = "idle"
Perishes(p) == UNCHANGED Routes /\ cl'[p].pc = "idle" /\ Spend("crashes")
GivesUp(p) == UNCHANGED <<file, live, stash>> /\ Goes(p, "stale", "idle") /\ Fail(p)
Reads(p) == /\ UNCHANGED Routes
            /\ cl[p].pc = "read" /\ cl'[p].op = cl[p].op /\ cl'[p].app = cl[p].app /\ cl'[p].blk = cl[p].blk
            /\ cl'[p].prev = file /\ cl'[p].new = Transform(file, p)
            /\ cl'[p].pc = IF cl[p].op = "on" /\ file.blk[cl[p].app] # NoBlock THEN "stash" ELSE "upload"
Skips(p) == UNCHANGED Routes /\ Same(p) /\ Goes(p, "read", "release ok") /\ file.blk[cl[p].app] = cl[p].blk
Stashes(p) == /\ UNCHANGED <<file, live, world>> /\ Same(p) /\ Goes(p, "stash", "upload")
              /\ stash' = [stash EXCEPT ![cl[p].app] = file.blk[cl[p].app]]
Uploads(p) == UNCHANGED Routes /\ Same(p) /\ (Goes(p, "upload", "move") \/ Goes(p, "undo", "undomove"))
Writes(p) == UNCHANGED <<live, stash, world>> /\ Same(p) /\ Goes(p, "move", "reload") /\ file' = cl[p].new
Restores(p) == UNCHANGED <<live, stash, world>> /\ Same(p) /\ Goes(p, "undomove", "undoreload") /\ file' = cl[p].prev
Stumbles(p) == /\ UNCHANGED Routes /\ Same(p) /\ Fault /\ cl'[p].pc = "release"
               /\ cl[p].pc \in {"read", "stash", "upload", "move", "undo", "undomove"}
Reloads(p) == /\ UNCHANGED <<file, stash, world>> /\ Same(p) /\ Goes(p, "reload", "verify")
              /\ \/ mount = "directory" /\ LoadsBut(file, bad) /\ live' = file
                 \/ mount = "file" /\ UNCHANGED live
Refused(p) == /\ UNCHANGED Routes /\ Same(p) /\ Goes(p, "reload", "undo")
              /\ Fault \/ (mount = "directory" /\ ~LoadsBut(file, bad))
Reverts(p) == /\ UNCHANGED <<file, stash, world>> /\ Same(p) /\ Goes(p, "undoreload", "release")
              /\ \/ mount = "directory" /\ LoadsBut(file, bad) /\ live' = file
                 \/ UNCHANGED live /\ (mount = "file" \/ ~LoadsBut(file, bad) \/ Fault)
Verifies(p) == /\ UNCHANGED Routes /\ Same(p)
               /\ \/ Goes(p, "verify", "release") /\ mount = "file"
                  \/ Goes(p, "verify", "release ok") /\ (mount # "file" \/ Fault)
Ends(p) == /\ UNCHANGED <<file, live>> /\ cl[p].pc = "release ok" /\ Succeed(p)
           /\ IF cl[p].op = "off" THEN cl'[p].pc = "rm stash" /\ Same(p) ELSE cl'[p].pc = "idle"
Fails(p) == UNCHANGED <<file, live, stash>> /\ Goes(p, "release", "idle") /\ Fail(p)
Forgets(p) == /\ UNCHANGED <<file, live, world>> /\ Goes(p, "rm stash", "idle")
              /\ stash' = [stash EXCEPT ![cl[p].app] = NoBlock]

Forms(p) == \/ Waits(p) \/ Fetches(p) \/ Leaves(p) \/ Perishes(p) \/ GivesUp(p) \/ Reads(p) \/ Skips(p)
            \/ Stashes(p) \/ Uploads(p) \/ Writes(p) \/ Restores(p) \/ Stumbles(p) \/ Reloads(p)
            \/ Refused(p) \/ Reverts(p) \/ Verifies(p) \/ Ends(p) \/ Fails(p) \/ Forgets(p)

LEMMA StepForms ==
  ASSUME Longer = {}, Typed, FileInv, NEW p \in Clients, Step(p)
  PROVE  Forms(p) /\ UNCHANGED setup /\ Busy(p)
  <1>l. \A l : Goto(p, l) => cl'[p].pc = l /\ Same(p)
    BY GoesOn DEF Same
  <1>i. cl' = [cl EXCEPT ![p] = Idle] => cl'[p].pc = "idle"
    BY GoesIdle
  <1>f. FileOf(cl[p], file, tmp) /\ ~file.junk
    BY DEF FileInv
  <1>t. cl[p] \in ACommand /\ (cl[p].pc # "idle" => cl[p].app \in Apps /\ cl[p].op \in Ops) /\ file \in Content
    BY DEF Typed, TypeOK, ACommand, Running
  <1>0. Forms(p) /\ UNCHANGED setup /\ cl[p].pc # "idle" => Forms(p) /\ UNCHANGED setup /\ Busy(p)
    BY DEF Busy
  <1>1. CASE Test(p)
    <2>1. Waits(p) \/ Leaves(p)
      BY <1>1, <1>l, <1>i DEF Test, Waits, Leaves, Routes, disk, At, Goes
    <2> QED
      BY <2>1, <1>1, <1>0 DEF Forms, Test, disk, At
  <1>2. CASE Cat(p)
    <2>1. cl' = [cl EXCEPT ![p].pc = "lock", ![p].blk = stash[cl[p].app]]
          => cl'[p].pc = "lock" /\ cl'[p].op = cl[p].op /\ cl'[p].app = cl[p].app /\ cl'[p].blk = stash[cl[p].app]
      BY <1>t DEF Typed, TypeOK, ACommand
    <2>2. Fetches(p) \/ Leaves(p)
      BY <1>2, <2>1, <1>i DEF Cat, Fetches, Leaves, Routes, disk, At, Goes
    <2> QED
      BY <2>2, <1>2, <1>0 DEF Forms, Cat, disk, At
  <1>3. CASE MkdirWon(p) \/ MkdirLost(p) \/ SeesStale(p) \/ Break(p) \/ Wait(p)
    <2>1. Waits(p)
      BY <1>3, <1>l DEF MkdirWon, MkdirLost, SeesStale, Break, Wait, Waits, Routes, disk, At
    <2> QED
      BY <2>1, <1>3, <1>0 DEF Forms, MkdirWon, MkdirLost, SeesStale, Break, Wait, disk, At
  <1>4. CASE TimesOut(p)
    <2>1. GivesUp(p)
      BY <1>4, <1>i DEF TimesOut, GivesUp, disk, At, Goes
    <2> QED
      BY <2>1, <1>4, <1>0 DEF Forms, TimesOut, disk, At
  <1>5. CASE Read(p)
    <2> DEFINE next == IF cl[p].op = "on" /\ file.blk[cl[p].app] # NoBlock THEN "stash" ELSE "upload"
               new == Transform(file, p)
    <2>1. new.blk[cl[p].app] = cl[p].blk
      BY <1>5, <1>t, TransformOwn DEF Read, At, ACommand, Sets
    <2>2. \/ cl' = [cl EXCEPT ![p].pc = next, ![p].prev = file, ![p].new = new]
          \/ new = file /\ Goto(p, "release ok")
      BY <1>5 DEF Read
    <2>3. cl[p].pc = "read" /\ UNCHANGED Routes /\ UNCHANGED setup
      BY <1>5 DEF Read, At, Routes, disk
    <2> HIDE DEF new, next
    <2>4. CASE cl' = [cl EXCEPT ![p].pc = next, ![p].prev = file, ![p].new = new]
      <3>1. /\ cl'[p].pc = next /\ cl'[p].op = cl[p].op /\ cl'[p].app = cl[p].app /\ cl'[p].blk = cl[p].blk
            /\ cl'[p].prev = file /\ cl'[p].new = new
        BY <2>4, <1>t DEF Typed, TypeOK, ACommand
      <3>2. Reads(p)
        BY <2>3, <3>1 DEF Reads, new, next
      <3> QED
        BY <3>2, <2>3, <1>0 DEF Forms
    <2>5. CASE new = file /\ Goto(p, "release ok")
      <3>1. Skips(p)
        BY <2>1, <2>3, <2>5, <1>l DEF Skips, Goes
      <3> QED
        BY <3>1, <2>3, <1>0 DEF Forms
    <2> QED
      BY <2>2, <2>4, <2>5
  <1>6. CASE Stash(p)
    <2>1. Stashes(p)
      BY <1>6, <1>l, <1>f DEF Stash, Stashes, FileOf, At, Goes
    <2> QED
      BY <2>1, <1>6, <1>0 DEF Forms, Stash, At
  <1>7. CASE Upload(p)
    <2>1. Uploads(p)
      BY <1>7, <1>l DEF Upload, Uploads, Routes, At, Goes
    <2> QED
      BY <2>1, <1>7, <1>0 DEF Forms, Upload
  <1>8. CASE Move(p)
    <2>1. Writes(p) \/ Restores(p)
      BY <1>8, <1>l, <1>f DEF Move, Writes, Restores, FileOf, At, Goes
    <2> QED
      BY <2>1, <1>8, <1>0 DEF Forms, Move
  <1>9. CASE StepFails(p)
    <2>1. Stumbles(p)
      BY <1>9, <1>l, <1>f DEF StepFails, Stumbles, FileOf, Routes, disk
    <2> QED
      BY <2>1, <1>9, <1>0 DEF Forms, StepFails, disk
  <1>10. CASE Reload(p)
    <2>1. Reloads(p)
      BY <1>10, <1>l, LoadsIs DEF Reload, Reloads, At, Goes
    <2> QED
      BY <2>1, <1>10, <1>0 DEF Forms, Reload, At
  <1>11. CASE ReloadFails(p)
    <2>1. Refused(p)
      BY <1>11, <1>l, <1>f, LoadsIs DEF ReloadFails, Refused, Rejects, Routes, disk, At, Goes
    <2> QED
      BY <2>1, <1>11, <1>0 DEF Forms, ReloadFails, disk, At
  <1>12. CASE UndoReload(p)
    <2>1. Reverts(p)
      BY <1>12, <1>l, <1>f, LoadsIs DEF UndoReload, Reverts, Rejects, At, Goes
    <2> QED
      BY <2>1, <1>12, <1>0 DEF Forms, UndoReload, At
  <1>13. CASE Verify(p)
    <2>1. Verifies(p)
      BY <1>13, <1>l DEF Verify, Verifies, Routes, disk, At, Goes
    <2> QED
      BY <2>1, <1>13, <1>0 DEF Forms, Verify, disk, At
  <1>14. CASE Release(p)
    <2>1. At(p, "release ok") /\ cl[p].op = "off" => Goto(p, "rm stash")
      BY <1>14, <1>t DEF Release, Goto, Typed, TypeOK
    <2>2. Ends(p) \/ Fails(p)
      BY <1>14, <2>1, <1>l, <1>i DEF Release, Ends, Fails, At, Goes
    <2> QED
      BY <2>2, <1>14, <1>0 DEF Forms, Release
  <1>15. CASE RemoveStash(p)
    <2>1. Forgets(p) \/ Leaves(p)
      BY <1>15, <1>i DEF RemoveStash, Forgets, Leaves, Routes, At, Goes
    <2> QED
      BY <2>1, <1>15, <1>0 DEF Forms, RemoveStash, At
  <1>16. CASE Dies(p)
    <2>1. Perishes(p)
      BY <1>16, <1>i DEF Dies, Perishes, Routes, disk
    <2> QED
      BY <2>1, <1>16, <1>0 DEF Forms, Dies, disk, At
  <1> QED
    BY <1>1, <1>2, <1>3, <1>4, <1>5, <1>6, <1>7, <1>8, <1>9, <1>10, <1>11, <1>12, <1>13, <1>14, <1>15, <1>16 DEF Step

\* A command starts.
Starts(p, op, a, b) ==
    /\ UNCHANGED <<file, live, stash, cur>> /\ ~Busy(p) /\ Spend("ops")
    /\ cl'[p].op = op /\ cl'[p].app = a /\ cl'[p].blk = b
    /\ cl'[p].pc = IF op = "off" THEN "test" ELSE "lock"
    /\ op = "set" => b \in Of(a) \ used
    /\ op \in {"remove", "redirect", "off"} => b = NoBlock
    /\ op = "on" => b = MaintBlock
    /\ used' = used \cup ({b} \cap Route)
    /\ IF op \in {"remove", "redirect"}
       THEN removing' = removing \cup {a} /\ gone' = gone \cup (Of(a) \cap used)
       ELSE UNCHANGED <<removing, gone>>

Boots == /\ UNCHANGED <<file, stash, cl, world, budget>> /\ mount = "directory"
         /\ \/ LoadsBut(file, bad) /\ live' = file
            \/ ~LoadsBut(file, bad) /\ live' = Nothing /\ Boot /\ Rejects(file)

Others(p) == \A q \in Clients : q # p => cl'[q] = cl[q]

LEMMA AllForms ==
  ASSUME Longer = {}, Typed, FileInv, [OpsNext]_vars
  PROVE  /\ UNCHANGED setup
         /\ \/ \E p \in Clients, op \in Ops, a \in Apps, b \in Block :
                  Starts(p, op, a, b) /\ Others(p) /\ AsUsual
            \/ \E p \in Clients : Forms(p) /\ Busy(p) /\ Others(p) /\ AsUsual /\ UNCHANGED used
            \/ Boots /\ AsUsual
            \/ UNCHANGED <<Routes, cl, budget>>
  <1>1. ASSUME NEW p \in Clients, NEW op \in Ops, NEW a \in Apps, NEW b \in Block, Begin(p, op, a, b)
        PROVE  Starts(p, op, a, b) /\ Others(p) /\ UNCHANGED setup
    <2>1. /\ cl'[p].pc = IF op = "off" THEN "test" ELSE "lock"
          /\ cl'[p].op = op /\ cl'[p].app = a /\ cl'[p].blk = b
      BY <1>1, IdleType DEF Begin, Typed, TypeOK, ACommand
    <2>2. Others(p)
      BY <1>1, OthersStay DEF Others
    <2> QED
      BY <1>1, <2>1, <2>2 DEF Begin, Starts, disk, Busy, At
  <1>2. ASSUME NEW p \in Clients, Step(p)
        PROVE  Forms(p) /\ Busy(p) /\ Others(p) /\ UNCHANGED used /\ UNCHANGED setup
    <2>1. Forms(p) /\ UNCHANGED setup /\ Busy(p)
      BY <1>2, StepForms
    <2>2. Others(p)
      BY <1>2, OthersStay DEF Others
    <2>3. cl[p].op \in Ops
      BY <2>1 DEF Busy, Typed, Running
    <2>4. Succeed(p) => UNCHANGED used
      BY <2>3 DEF Succeed, Ops, world
    <2>5. UNCHANGED used
      BY <2>1, <2>4 DEF Forms, Waits, Fetches, Leaves, Perishes, GivesUp, Reads, Skips, Stashes, Uploads,
                        Writes, Restores, Stumbles, Reloads, Refused, Reverts, Verifies, Ends, Fails, Forgets,
                        Routes, world, Fail
    <2> QED
      BY <2>1, <2>2, <2>5
  <1>3. CASE Boot
    <2>1. Boots /\ UNCHANGED setup
      BY <1>3, LoadsIs DEF Boot, Boots, FileInv, Rejects
    <2>2. UNCHANGED vars => UNCHANGED <<Routes, cl, budget>>
      BY DEF vars, disk, Routes, world
    <2>3. AsUsual \/ UNCHANGED vars
      BY DEF OpsNext
    <2> QED
      BY <2>1, <2>2, <2>3
  <1>4. CASE Expire \/ UNCHANGED vars
    BY <1>4 DEF Expire, vars, disk, Routes, setup, world
  <1> QED
    BY <1>1, <1>2, <1>3, <1>4 DEF OpsNext, Next, Rest


\* A step leaves the blocks, stash and containers of other apps alone, and Caddy
\* runs for them what it ran or what the file has.
Spared(b) == /\ file'.blk[b] = file.blk[b] /\ file'.other[b] = file.other[b]
             /\ stash'[b] = stash[b] /\ cur'[b] = cur[b] /\ (b \in removing <=> b \in removing')
             /\ \A r \in Of(b) : r \in gone <=> r \in gone'

LEMMA Elsewhere ==
  ASSUME Typed, FileInv, NEW p \in Clients, Forms(p), Busy(p), NEW b \in Apps, b # cl[p].app
  PROVE  Spared(b)
  <1>1. file \in Content /\ stash \in [Apps -> Block] /\ cur \in [Apps -> Route \cup {NoBlock}]
        /\ Running(cl[p], used) /\ cl[p].pc # "idle"
    BY DEF Typed, TypeOK, Busy
  <1>2. file' = file \/ OwnOnly(file', file, cl[p].app)
    <2>1. FileOf(cl[p], file, tmp)
      BY DEF FileInv
    <2>2. CASE Writes(p) \/ Restores(p)
      BY <2>1, <2>2 DEF Writes, Restores, FileOf, Rewrites, OwnOnly, Goes
    <2>3. CASE ~(Writes(p) \/ Restores(p))
      BY <2>3 DEF Forms, Waits, Fetches, Leaves, Perishes, GivesUp, Reads, Skips, Stashes, Uploads,
                  Stumbles, Reloads, Refused, Reverts, Verifies, Ends, Fails, Forgets, Routes
    <2> QED
      BY <2>2, <2>3
  <1>3. \A r \in Of(b) : r \notin Of(cl[p].app)
    BY DEF Of
  <1>4. CASE Ends(p)
    <2>1. Succeed(p) => /\ stash'[b] = stash[b] /\ cur'[b] = cur[b] /\ (b \in removing <=> b \in removing')
                        /\ \A r \in Of(b) : r \in gone <=> r \in gone'
      <3>1. CASE cl[p].op = "set"
        BY <1>1, <1>3, <3>1 DEF Succeed
      <3>2. CASE cl[p].op \in {"remove", "redirect"}
        BY <1>1, <3>2 DEF Succeed
      <3>3. CASE cl[p].op \in {"on", "off"}
        BY <1>1, <3>3 DEF Succeed, world
      <3> QED
        BY <1>1, <3>1, <3>2, <3>3 DEF Running, Ops
    <2> QED
      BY <1>4, <2>1 DEF Ends, Spared
  <1>5. CASE GivesUp(p) \/ Fails(p)
    BY <1>1, <1>3, <1>5 DEF GivesUp, Fails, Fail, Running, Spared
  <1>6. CASE ~Ends(p) /\ ~GivesUp(p) /\ ~Fails(p)
    <2>1. UNCHANGED <<cur, removing, gone>> /\ stash'[b] = stash[b]
      BY <1>6, <1>1 DEF Forms, Waits, Fetches, Leaves, Perishes, Reads, Skips, Stashes, Uploads, Writes,
                  Restores, Stumbles, Reloads, Refused, Reverts, Verifies, Forgets, Routes, world
    <2> QED
      BY <1>2, <2>1 DEF OwnOnly, Spared
  <1> QED
    BY <1>4, <1>5, <1>6

LEMMA LiveMoves ==
  ASSUME NEW p, Forms(p)
  PROVE  live' = live \/ (mount = "directory" /\ LoadsBut(file, bad) /\ live' = file /\ file' = file /\ cl[p].pc \in Crit)
  BY DEF Forms, Waits, Fetches, Leaves, Perishes, GivesUp, Reads, Skips, Stashes, Uploads, Writes, Restores,
         Stumbles, Reloads, Refused, Reverts, Verifies, Ends, Fails, Forgets, Routes, Goes, Crit


-----------------------------------------------------------------------------
(* The blocks.  Those of an app lead to deploys of it that have begun; what*)
(* a deploy is about to write is neither written nor stopped before, so    *)
(* that what Caddy runs shows whether it was loaded.                       *)

Rewriting == {"stash", "upload", "move", "reload", "undo", "undomove", "undoreload", "verify"}

UsedBlock(a, u) == (Of(a) \cap u) \cup {NoBlock, MaintBlock}

OwnOf(x, u) ==
    /\ x.pc # "idle" => x.blk \in UsedBlock(x.app, u)
    /\ x.pc \in Rewriting => \A a \in Apps : x.prev.blk[a] \in UsedBlock(a, u)
OwnInv == /\ \A a \in Apps : {file.blk[a], live.blk[a], stash[a]} \subseteq UsedBlock(a, used)
          /\ \A p \in Clients : OwnOf(cl[p], used)

LEMMA InitOwn == Init => OwnInv
  <1> SUFFICES ASSUME Init PROVE OwnInv
    OBVIOUS
  <1>1. \A p \in Clients : cl[p].pc = "idle"
    BY IdleType DEF Init
  <1>2. PICK deployed \in SUBSET Apps, n \in Nums :
            cur = [a \in Apps |-> IF a \in deployed THEN [app |-> a, num |-> n] ELSE NoBlock]
    BY DEF Init
  <1>3. file.blk = cur /\ live = file /\ stash = [a \in Apps |-> NoBlock] /\ used = {cur[a] : a \in Apps} \cap Route
    BY DEF Init
  <1>4. \A a \in Apps : cur[a] \in UsedBlock(a, used)
    BY <1>2, <1>3 DEF UsedBlock, Of, Route
  <1> QED
    BY <1>1, <1>3, <1>4 DEF OwnInv, OwnOf, UsedBlock, Rewriting

LEMMA NextOwn ==
  Longer = {} /\ Typed /\ FileInv /\ OwnInv /\ [OpsNext]_vars => OwnInv'
  <1> SUFFICES ASSUME Longer = {}, Typed, FileInv, OwnInv, [OpsNext]_vars PROVE OwnInv'
    OBVIOUS
  <1>1. ASSUME NEW p \in Clients, NEW op \in Ops, NEW a \in Apps, NEW b \in Block,
               Starts(p, op, a, b), Others(p)
        PROVE  OwnInv'
    <2>1. used \subseteq used' /\ \A c : UsedBlock(c, used) \subseteq UsedBlock(c, used')
      BY <1>1 DEF Starts, UsedBlock
    <2>2. b \in UsedBlock(a, used')
      BY <1>1, BlocksType DEF Starts, UsedBlock, Ops
    <2>3. OwnOf(cl'[p], used')
      BY <1>1, <2>2 DEF Starts, OwnOf, Rewriting
    <2>4. \A q \in Clients : OwnOf(cl'[q], used')
      BY <1>1, <2>1, <2>3 DEF OwnInv, OwnOf, Others
    <2> QED
      BY <1>1, <2>1, <2>4 DEF OwnInv, Starts
  <1>2. ASSUME NEW p \in Clients, Forms(p), Busy(p), Others(p), UNCHANGED used PROVE OwnInv'
    <2> DEFINE x == cl[p]
               y == cl'[p]
               a == cl[p].app
    <2>t. a \in Apps /\ x.pc # "idle" /\ stash \in [Apps -> Block] /\ x.op \in Ops
      BY <1>2 DEF Busy, Typed, TypeOK, Running
    <2>o. OwnOf(x, used) /\ NoBlock \in UsedBlock(a, used)
          /\ \A b \in Apps : {file.blk[b], live.blk[b], stash[b]} \subseteq UsedBlock(b, used)
      BY DEF OwnInv, UsedBlock
    <2>f. FileOf(x, file, tmp)
      BY DEF FileInv
    <2>1. y.pc # "idle" => y.app = a /\ y.blk \in {x.blk, stash[a]}
      BY <1>2 DEF Forms, Waits, Fetches, Leaves, Perishes, GivesUp, Reads, Skips, Stashes, Uploads, Writes,
         Restores, Stumbles, Reloads, Refused, Reverts, Verifies, Ends, Fails, Forgets, Same, Goes
    <2>2. y.pc \in Rewriting => y.prev = file \/ (y.prev = x.prev /\ x.pc \in Rewriting)
      BY <1>2 DEF Forms, Waits, Fetches, Leaves, Perishes, GivesUp, Reads, Skips, Stashes, Uploads, Writes,
         Restores, Stumbles, Reloads, Refused, Reverts, Verifies, Ends, Fails, Forgets, Same, Goes, Rewriting
    <2>3. OwnOf(y, used)
      BY <2>1, <2>2, <2>t, <2>o DEF OwnOf
    <2>4. file'.blk[a] \in {file.blk[a], x.blk} \cup (IF x.pc \in Rewriting THEN {x.prev.blk[a]} ELSE {})
      BY <1>2, <2>f DEF Forms, Waits, Fetches, Leaves, Perishes, GivesUp, Reads, Skips, Stashes, Uploads, Writes,
         Restores, Stumbles, Reloads, Refused, Reverts, Verifies, Ends, Fails, Forgets, Goes, Rewriting, Routes,
         FileOf, Rewrites, Sets
    <2>5. stash'[a] \in {stash[a], file.blk[a], NoBlock}
      <3>1. Succeed(p) => stash'[a] \in {stash[a], NoBlock}
        BY <2>t DEF Succeed, Ops
      <3> QED
        BY <1>2, <2>t, <3>1 DEF Forms, Waits, Fetches, Leaves, Perishes, GivesUp, Reads, Skips, Stashes, Uploads,
         Writes, Restores, Stumbles, Reloads, Refused, Reverts, Verifies, Ends, Fails, Forgets, Routes
    <2>6. \A b \in Apps : b # a => file'.blk[b] = file.blk[b] /\ stash'[b] = stash[b]
      BY <1>2, Elsewhere DEF Spared
    <2>7. live' \in {live, file}
      BY <1>2, LiveMoves
    <2> HIDE DEF x, y, a
    <2>8. \A b \in Apps : {file'.blk[b], live'.blk[b], stash'[b]} \subseteq UsedBlock(b, used)
      <3> SUFFICES ASSUME NEW b \in Apps
                   PROVE  {file'.blk[b], live'.blk[b], stash'[b]} \subseteq UsedBlock(b, used)
        OBVIOUS
      <3>1. live'.blk[b] \in UsedBlock(b, used)
        BY <2>o, <2>7
      <3>2. CASE b = a
        <4>1. x.blk \in UsedBlock(a, used) /\ (x.pc \in Rewriting => x.prev.blk[a] \in UsedBlock(a, used))
          BY <2>o, <2>t DEF OwnOf, x, a
        <4> QED
          BY <3>1, <3>2, <4>1, <2>o, <2>4, <2>5
      <3>3. CASE b # a
        BY <3>1, <3>3, <2>o, <2>6
      <3> QED
        BY <3>2, <3>3
    <2> QED
      BY <1>2, <2>3, <2>8 DEF OwnInv, Others, y
  <1>3. CASE Boots
    <2>1. \A a \in Apps : live'.blk[a] \in {file.blk[a], NoBlock}
      BY <1>3 DEF Boots, Nothing
    <2> QED
      BY <1>3, <2>1 DEF Boots, OwnInv, world, UsedBlock
  <1>4. CASE UNCHANGED <<Routes, cl, budget>>
    BY <1>4 DEF Routes, world, OwnInv
  <1> QED
    BY <1>1, <1>2, <1>3, <1>4, AllForms

\* A deploy under way.
FreshOf(x, f, v, st, g, m) == x.pc # "idle" /\ x.op = "set" =>
    /\ x.blk \notin g
    /\ st[x.app] = NoBlock
    /\ x.pc \in {"lock", "stale", "break", "read", "upload", "move"} => x.blk # f.blk[x.app] /\ x.blk # v.blk[x.app]
    /\ x.pc \in Rewriting => x.prev.blk[x.app] # x.blk
    /\ m = "file" => v.blk[x.app] # x.blk
FreshInv == \A p \in Clients : FreshOf(cl[p], file, live, stash, gone, mount)

LEMMA InitFresh == Init => FreshInv
  BY IdleType DEF Init, FreshInv, FreshOf

\* The other commands work on other apps.
LEMMA Apart ==
  ASSUME Typed, OnePerApp, NEW p \in Clients, Busy(p), NEW q \in Clients, Busy(q), q # p
  PROVE  cl[q].app \in Apps /\ cl[q].app # cl[p].app /\ (cl[q].op = "set" => cl[q].blk \in Of(cl[q].app))
  BY DEF Typed, Running, OnePerApp, Busy

LEMMA NextFresh ==
  OneAtATime /\ Longer = {} /\ Typed /\ FileInv /\ PageInv /\ OwnInv /\ FreshInv /\ [OpsNext]_vars
  => FreshInv'
  <1> SUFFICES ASSUME OneAtATime, Longer = {}, Typed, FileInv, PageInv, OwnInv, FreshInv, [OpsNext]_vars
               PROVE  FreshInv'
    OBVIOUS
  <1>t. Typed'
    BY NextTyped
  <1>m. UNCHANGED mount
    BY AllForms DEF setup
  <1>1. ASSUME NEW p \in Clients, NEW op \in Ops, NEW a \in Apps, NEW b \in Block,
               Starts(p, op, a, b), Others(p), AsUsual
        PROVE  FreshInv'
    <2>1. OnePerApp'
      BY <1>1, <1>t, OneEach
    <2>2. FreshOf(cl'[p], file', live', stash', gone', mount')
      <3>1. CASE op = "set"
        <4>1. b \in Of(a) /\ b \notin used /\ UNCHANGED gone /\ gone \subseteq used
          BY <1>1, <3>1 DEF Starts, Typed, TypeOK
        <4>2. b # file.blk[a] /\ b # live.blk[a]
          BY <4>1, BlocksType DEF OwnInv, UsedBlock
        <4>3. stash[a] = NoBlock
          BY <1>1, <3>1 DEF Starts, AsUsual, OneAtATime, InMaintenance, Busy, At
        <4> QED
          BY <1>1, <3>1, <4>1, <4>2, <4>3 DEF Starts, FreshOf, Rewriting
      <3>2. CASE op # "set"
        BY <1>1, <3>2 DEF Starts, FreshOf
      <3> QED
        BY <3>1, <3>2
    <2>3. ASSUME NEW q \in Clients, q # p PROVE FreshOf(cl'[q], file', live', stash', gone', mount')
      <3>1. cl'[q] = cl[q] /\ FreshOf(cl[q], file, live, stash, gone, mount)
        BY <1>1, <2>3 DEF Others, FreshInv
      <3>2. cl[q].pc # "idle" /\ cl[q].op = "set" => cl[q].app # a /\ cl[q].blk \in Of(cl[q].app)
        <4>1. cl[q].pc # "idle" => cl[q].app # a
          BY <1>1, <2>1, <2>3, <3>1 DEF OnePerApp, Busy, Starts
        <4>2. cl[q].pc # "idle" /\ cl[q].op = "set" => cl[q].blk \in Of(cl[q].app)
          BY DEF Typed, Running
        <4> QED
          BY <4>1, <4>2
      <3>3. cl[q].pc # "idle" /\ cl[q].op = "set" => cl[q].blk \notin gone'
        BY <1>1, <3>1, <3>2 DEF Starts, FreshOf, Of
      <3> QED
        BY <1>1, <3>1, <3>3, <1>m DEF Starts, FreshOf
    <2> QED
      BY <2>2, <2>3 DEF FreshInv
  <1>2. ASSUME NEW p \in Clients, Forms(p), Busy(p), Others(p), UNCHANGED used PROVE FreshInv'
    <2> DEFINE x == cl[p]
               y == cl'[p]
               a == cl[p].app
    <2>f. FileOf(x, file, tmp) /\ FreshOf(x, file, live, stash, gone, mount) /\ x.pc # "idle"
      BY <1>2 DEF FileInv, FreshInv, Busy
    <2>1. ASSUME x.op = "set", y.pc # "idle" PROVE FreshOf(y, file', live', stash', gone', mount')
      <3>1. /\ y.op = "set" /\ y.app = a /\ y.blk = x.blk /\ UNCHANGED gone /\ stash' = stash
            /\ x.pc \notin {"cat", "stash"}
        BY <1>2, <2>1 DEF Forms, Waits, Fetches, Leaves, Perishes, GivesUp, Reads, Skips, Stashes, Uploads, Writes,
         Restores, Stumbles, Reloads, Refused, Reverts, Verifies, Ends, Fails, Forgets, Same, Goes, Routes, world,
         Typed, Running
      <3>2. y.pc \in {"lock", "stale", "break", "read", "upload", "move"} =>
                x.pc \in {"lock", "stale", "break", "read", "upload", "move"} /\ UNCHANGED <<file, live>>
        <4>1. x.pc # "test"
          BY <2>1, <2>f DEF Typed, Running
        <4> QED
          BY <4>1, <3>1, <1>2, <2>1 DEF Forms, Waits, Fetches, Leaves, Perishes, GivesUp, Reads, Skips, Stashes, Uploads, Writes,
           Restores, Stumbles, Reloads, Refused, Reverts, Verifies, Ends, Fails, Forgets, Goes, Routes
      <3>3. y.pc \in Rewriting => \/ y.prev = x.prev /\ x.pc \in Rewriting
                                  \/ y.prev = file /\ x.pc = "read"
        BY <1>2 DEF Forms, Waits, Fetches, Leaves, Perishes, GivesUp, Reads, Skips, Stashes, Uploads, Writes,
         Restores, Stumbles, Reloads, Refused, Reverts, Verifies, Ends, Fails, Forgets, Same, Goes, Rewriting
      <3>4. mount = "file" => live' = live
        BY <1>2, LiveMoves
      <3> HIDE DEF x, y, a
      <3> QED
        BY <2>1, <2>f, <3>1, <3>2, <3>3, <3>4, <1>m DEF FreshOf, x, y, a
    <2>2. x.op # "set" => y.op # "set" \/ y.pc = "idle"
      BY <1>2 DEF Forms, Waits, Fetches, Leaves, Perishes, GivesUp, Reads, Skips, Stashes, Uploads, Writes,
         Restores, Stumbles, Reloads, Refused, Reverts, Verifies, Ends, Fails, Forgets, Same, Goes
    <2>3. FreshOf(y, file', live', stash', gone', mount')
      BY <2>1, <2>2 DEF FreshOf
    <2>4. ASSUME NEW q \in Clients, q # p PROVE FreshOf(cl'[q], file', live', stash', gone', mount')
      <3>1. cl'[q] = cl[q] /\ FreshOf(cl[q], file, live, stash, gone, mount)
        BY <1>2, <2>4 DEF Others, FreshInv
      <3> DEFINE b == cl[q].app
      <3> SUFFICES ASSUME cl[q].pc # "idle", cl[q].op = "set"
                   PROVE  FreshOf(cl[q], file', live', stash', gone', mount')
        BY <3>1 DEF FreshOf
      <3>2. b \in Apps /\ b # a /\ cl[q].blk \in Of(b)
        BY <1>2, <2>4, Apart DEF PageInv, Busy
      <3>3. Spared(b)
        BY <1>2, <3>2, Elsewhere
      <3>4. live' \in {live, file} /\ (mount = "file" => live' = live)
        BY <1>2, LiveMoves
      <3> QED
        BY <3>1, <3>2, <3>3, <3>4, <1>m DEF FreshOf, Spared
    <2> QED
      BY <2>3, <2>4 DEF FreshInv
  <1>3. CASE Boots
    <2>1. \A q \in Clients : cl[q].pc # "idle" /\ cl[q].op = "set" => cl[q].blk # NoBlock /\ cl[q].app \in Apps
      BY BlocksType DEF Typed, Running
    <2>2. \A a \in Apps : live'.blk[a] \in {file.blk[a], NoBlock}
      BY <1>3 DEF Boots, Nothing
    <2> QED
      BY <1>3, <2>1, <2>2, <1>m DEF Boots, FreshInv, FreshOf, world
  <1>4. CASE UNCHANGED <<Routes, cl, budget>>
    BY <1>4, <1>m DEF Routes, world, FreshInv
  <1> QED
    BY <1>1, <1>2, <1>3, <1>4, AllForms

\* What a command has rendered.
FormOf(x) == x.pc # "idle" =>
    /\ x.op \in {"redirect", "remove"} => x.blk = NoBlock
    /\ x.pc \in Rewriting =>
        /\ x.op \in {"set", "on"} => x.new.other[x.app] = "none"
        /\ x.op \in {"remove", "off"} => x.new.other[x.app] = x.prev.other[x.app]
FormInv == \A p \in Clients : FormOf(cl[p])

LEMMA InitForm == Init => FormInv
  BY IdleType DEF Init, FormInv, FormOf

LEMMA TransformOther ==
  ASSUME NEW p, cl[p].app \in Apps, NEW c \in Content
  PROVE  /\ cl[p].op \in {"set", "on"} => Transform(c, p).other[cl[p].app] = "none"
         /\ cl[p].op \in {"remove", "off"} => Transform(c, p).other[cl[p].app] = c.other[cl[p].app]
  <1>1. c.other \in [Apps -> {"none", "hand", "redirect"}]
    BY DEF Content
  <1> QED
    BY <1>1 DEF Transform, Render

LEMMA NextForm == Longer = {} /\ Typed /\ FileInv /\ FormInv /\ [OpsNext]_vars => FormInv'
  <1> SUFFICES ASSUME Longer = {}, Typed, FileInv, FormInv, [OpsNext]_vars PROVE FormInv'
    OBVIOUS
  <1>1. ASSUME NEW p \in Clients, NEW op \in Ops, NEW a \in Apps, NEW b \in Block,
               Starts(p, op, a, b), Others(p)
        PROVE  FormInv'
    BY <1>1 DEF Starts, Others, FormInv, FormOf, Rewriting
  <1>2. ASSUME NEW p \in Clients, Forms(p), Busy(p), Others(p) PROVE FormInv'
    <2>1. /\ cl[p].app \in Apps /\ file \in Content /\ FormOf(cl[p]) /\ cl[p].pc # "idle"
          /\ cl[p].pc = "cat" => cl[p].op = "off"
      BY <1>2 DEF Busy, Typed, TypeOK, Running, FormInv
    <2>5. FormOf(cl'[p])
      <3>2. CASE Reads(p)
        BY <2>1, <3>2, TransformOther DEF Reads, FormOf
      <3>3. CASE Fetches(p)
        BY <2>1, <3>3 DEF Fetches, Goes, FormOf, Rewriting
      <3>4. CASE ~Reads(p) /\ ~Fetches(p)
        <4>1. cl'[p].pc = "idle" \/ (Same(p) /\ (cl'[p].pc \in Rewriting => cl[p].pc \in Rewriting))
          BY <1>2, <3>4 DEF Forms, Waits, Leaves, Perishes, GivesUp, Skips, Stashes, Uploads, Writes,
             Restores, Stumbles, Reloads, Refused, Reverts, Verifies, Ends, Fails, Forgets, Goes, Rewriting
        <4> QED
          BY <2>1, <4>1 DEF FormOf, Same
      <3> QED
        BY <3>2, <3>3, <3>4
    <2> QED
      BY <1>2, <2>5 DEF FormInv, Others
  <1>3. CASE UNCHANGED cl
    BY <1>3 DEF FormInv
  <1> QED
    BY <1>1, <1>2, <1>3, AllForms DEF Boots

\* What went wrong so far.
FaultUsed == budget.faults < MaxFaults
Sighted == mount = "directory" /\ FewMishaps

LEMMA Mishap ==
  ASSUME Typed, Within, [OpsNext]_vars
  PROVE  /\ FewMishaps' => FewMishaps
         /\ FewMishaps' /\ Fault => ~FaultUsed
         /\ Fault \/ FaultUsed => FaultUsed'
         /\ NoCrash' => NoCrash /\ ~Spend("crashes")
         /\ FewMishaps' /\ Spend("crashes") => NoCrash
  <1>1. /\ budget \in [{"ops", "faults", "crashes"} -> Nat] /\ budget' \in [{"ops", "faults", "crashes"} -> Nat]
        /\ MaxFaults \in Nat /\ MaxCrashes \in Nat
    BY NextTyped, CaddyAssumption DEF Typed, TypeOK
  <1>2. /\ Within /\ Within' /\ budget'.faults <= budget.faults /\ budget'.crashes <= budget.crashes
        /\ Fault => budget'.faults = budget.faults - 1
        /\ Spend("crashes") => budget'.crashes = budget.crashes - 1
    BY NextWithin
  <1> HIDE DEF Fault
  <1>3. ASSUME NEW f, NEW c, f <=> Fault, c <=> Spend("crashes")
        PROVE  /\ FewMishaps' => FewMishaps
               /\ FewMishaps' /\ f => ~FaultUsed
               /\ f \/ FaultUsed => FaultUsed'
               /\ NoCrash' => NoCrash /\ ~c
               /\ FewMishaps' /\ c => NoCrash
    <2>1. budget.faults \in Nat /\ budget'.faults \in Nat /\ budget.crashes \in Nat /\ budget'.crashes \in Nat
      BY <1>1
    <2> QED
      BY <1>1, <1>2, <1>3, <2>1 DEF Within, FewMishaps, FaultUsed, NoCrash
  <1> QED
    BY <1>3

\* A process dies only where Caddy sees and accepts every block.
Mortal == "mortal if sound" \in Habits
MortalInv == NoCrash \/ (bad = {} /\ mount = "directory")

LEMMA InitMortal == Init => MortalInv
  BY DEF Init, MortalInv, NoCrash

LEMMA NextMortal ==
  Mortal /\ Longer = {} /\ Typed /\ Within /\ FileInv /\ MortalInv /\ [OpsNext]_vars => MortalInv'
  <1> SUFFICES ASSUME Mortal, Longer = {}, Typed, Within, FileInv, MortalInv, [OpsNext]_vars PROVE MortalInv'
    OBVIOUS
  <1>1. UNCHANGED <<mount, bad>>
    BY AllForms DEF setup
  <1>2. budget.crashes \in Nat /\ budget'.crashes \in Nat /\ budget'.crashes <= budget.crashes
    BY NextTyped, NextWithin DEF Typed, TypeOK
  <1>3. UNCHANGED budget \/ AsUsual
    BY DEF OpsNext, vars
  <1>4. AsUsual => (budget'.crashes < budget.crashes => mount = "directory" /\ bad = {})
    BY DEF AsUsual, Mortal
  <1>5. budget'.crashes = budget.crashes \/ (mount = "directory" /\ bad = {})
    BY <1>2, <1>3, <1>4
  <1> QED
    BY <1>1, <1>5 DEF MortalInv, NoCrash

\* Past the lock, before or after a step, a command is alone; outside it changes
\* neither the file nor what Caddy runs.
LEMMA AloneStep ==
  ASSUME OneAtATime, Longer = {}, Typed, LockInv, FileInv, [OpsNext]_vars, NEW p \in Clients, Others(p),
         cl[p].pc \in Crit \/ cl'[p].pc \in Crit
  PROVE  \A q \in Clients : q # p => cl[q].pc \notin Crit /\ cl'[q].pc \notin Crit
  <1>1. LockInv'
    BY NextLock DEF OneAtATime
  <1> QED
    BY <1>1 DEF LockInv, Others

LEMMA StillOutside ==
  ASSUME NEW p, Forms(p), cl[p].pc \notin Crit
  PROVE  UNCHANGED <<file, live>>
  BY DEF Forms, Waits, Fetches, Leaves, Perishes, GivesUp, Reads, Skips, Stashes, Uploads, Writes, Restores,
         Stumbles, Reloads, Refused, Reverts, Verifies, Ends, Fails, Forgets, Routes, Goes, Crit


-----------------------------------------------------------------------------
(* As long as no command has failed and at most one process died, what a   *)
(* command has read loads; as long as no process died and at most one      *)
(* command failed, the file has no two blocks of one domain.               *)

SoundOf(x, f, b) ==
    /\ x.pc \in {"read", "stash", "upload", "move", "verify", "release ok", "release"} => LoadsBut(f, b)
    /\ x.pc \in {"reload", "undo", "undomove", "undoreload"} => LoadsBut(x.prev, b)
SoundInv == Sighted /\ ~FaultUsed =>
    /\ (\A p \in Clients : AtRest(cl[p])) => LoadsBut(file, bad)
    /\ \A p \in Clients : SoundOf(cl[p], file, bad)

NoConflict(c) == \A a \in Apps : c.blk[a] = NoBlock \/ c.other[a] = "none"
Turning == {"reload", "undo", "undomove", "verify", "release ok"}
ConfOf(x, st, faulty) ==
    /\ x.pc \in Rewriting => NoConflict(x.prev) /\ NoConflict(x.new)
    /\ x.pc \in {"undo", "undomove"} /\ x.op = "redirect" => faulty
    /\ x.pc \in Rewriting /\ st[x.app] # NoBlock => x.prev.other[x.app] = "none"
    /\ x.pc \notin {"idle", "test", "rm stash"} /\ x.op = "off" => st[x.app] # NoBlock
ConfInv == Sighted /\ NoCrash =>
    /\ NoConflict(file)
    /\ \A p \in Clients : ConfOf(cl[p], stash, FaultUsed)
    /\ \A a \in Apps : stash[a] # NoBlock /\ file.other[a] # "none" =>
          \E p \in Clients : cl[p].app = a /\ cl[p].op = "redirect" /\ cl[p].pc \in Turning

LEMMA InitSound == Init => SoundInv /\ ConfInv
  <1> SUFFICES ASSUME Init, mount = "directory" PROVE SoundInv /\ ConfInv
    BY DEF SoundInv, ConfInv, Sighted
  <1>1. \A p \in Clients : cl[p].pc = "idle"
    BY IdleType DEF Init
  <1>2. \A a \in Apps : file.blk[a] = NoBlock /\ stash[a] = NoBlock
    BY DEF Init
  <1>3. NoBlock.num \notin bad
    BY CaddyAssumption DEF Init, NoBlock
  <1> QED
    BY <1>1, <1>2, <1>3 DEF SoundInv, ConfInv, SoundOf, ConfOf, LoadsBut, NoConflict, Rewriting

\* No conflict and no rejected block: that loads.
LEMMA SoundLoads ==
  ASSUME NEW c, NoConflict(c), bad = {}
  PROVE  LoadsBut(c, bad)
  BY DEF NoConflict, LoadsBut

LEMMA NextSound ==
  OneAtATime /\ Mortal /\ Longer = {} /\ Typed /\ Within /\ LockInv /\ FileInv /\ MortalInv /\ SoundInv /\ ConfInv
  /\ [OpsNext]_vars => SoundInv'
  <1> SUFFICES ASSUME OneAtATime, Mortal, Longer = {}, Typed, Within, LockInv, FileInv, MortalInv, SoundInv,
                      ConfInv, [OpsNext]_vars, Sighted', ~FaultUsed'
               PROVE  SoundInv'
    BY DEF SoundInv
  <1>s. UNCHANGED setup /\ mount = "directory" /\ bad' = bad
    BY AllForms DEF Sighted, setup
  <1>f. Sighted /\ ~FaultUsed /\ ~Fault /\ (Spend("crashes") => NoCrash)
    BY <1>s, Mishap DEF Sighted
  <1>r. /\ (\A q \in Clients : AtRest(cl[q])) => LoadsBut(file, bad)
        /\ \A q \in Clients : SoundOf(cl[q], file, bad)
    BY <1>f DEF SoundInv
  <1>1. ASSUME NEW p \in Clients, NEW op \in Ops, NEW a \in Apps, NEW b \in Block,
               Starts(p, op, a, b), Others(p)
        PROVE  SoundInv'
    <2>1. AtRest(cl[p]) /\ SoundOf(cl'[p], file, bad) /\ file' = file
      BY <1>1 DEF Starts, Busy, AtRest, SoundOf, Crit
    <2> QED
      BY <1>1, <1>r, <1>s, <2>1 DEF SoundInv, Others
  <1>2. ASSUME NEW p \in Clients, Forms(p), Busy(p), Others(p) PROVE SoundInv'
    <2>f. FileOf(cl[p], file, tmp) /\ SoundOf(cl[p], file, bad)
      BY <1>r DEF FileInv
    <2>a. cl[p].pc \in Crit \/ cl'[p].pc \in Crit =>
              \A q \in Clients : q # p => AtRest(cl[q]) /\ AtRest(cl'[q])
      BY <1>2, AloneStep DEF AtRest
    <2>u. cl[p].pc \notin Crit => file' = file
      BY <1>2, StillOutside
    <2>1. SoundOf(cl'[p], file', bad)
      <3>1. CASE Waits(p) \/ Fetches(p) \/ Leaves(p) \/ GivesUp(p) \/ Forgets(p) \/ Perishes(p) \/ Fails(p) \/ Ends(p)
        <4>1. cl'[p].pc = "read" => cl[p].pc \notin Crit /\ cl'[p].pc \in Crit
          BY <3>1 DEF Waits, Fetches, Leaves, Perishes, GivesUp, Ends, Fails, Forgets, Goes, Crit
        <4>2. cl'[p].pc = "read" => LoadsBut(file, bad) /\ file' = file
          BY <4>1, <2>a, <2>u, <1>r DEF AtRest
        <4>3. cl'[p].pc \notin {"stash", "upload", "move", "verify", "release ok", "release", "reload", "undo",
                                "undomove", "undoreload"}
          BY <3>1 DEF Waits, Fetches, Leaves, Perishes, GivesUp, Ends, Fails, Forgets, Goes
        <4> QED
          BY <4>2, <4>3 DEF SoundOf
      <3>2. CASE Reads(p) \/ Skips(p) \/ Stashes(p) \/ Uploads(p) \/ Refused(p) \/ Verifies(p)
        BY <3>2, <2>f, <1>f DEF Reads, Skips, Stashes, Uploads, Refused, Verifies, SoundOf, Routes, Goes, Same
      <3>3. CASE Writes(p) \/ Restores(p)
        BY <3>3, <2>f DEF Writes, Restores, SoundOf, Goes, Same, FileOf
      <3>4. CASE Reloads(p)
        BY <3>4, <1>s DEF Reloads, SoundOf, Goes
      <3>5. CASE Reverts(p)
        BY <3>5, <2>f DEF Reverts, SoundOf, Goes, FileOf
      <3>6. CASE Stumbles(p)
        BY <3>6, <1>f DEF Stumbles
      <3> QED
        BY <1>2, <3>1, <3>2, <3>3, <3>4, <3>5, <3>6 DEF Forms
    <2>2. \A q \in Clients : q # p => SoundOf(cl'[q], file', bad)
      <3>1. CASE cl[p].pc \in Crit \/ cl'[p].pc \in Crit
        BY <3>1, <2>a DEF AtRest, SoundOf, Crit
      <3>2. CASE cl[p].pc \notin Crit
        BY <3>2, <2>u, <1>2, <1>r DEF Others
      <3> QED
        BY <3>1, <3>2
    <2>3. ASSUME \A q \in Clients : AtRest(cl'[q]) PROVE LoadsBut(file', bad)
      <3>1. CASE cl[p].pc \notin Crit
        BY <3>1, <2>3, <2>u, <1>2, <1>r DEF AtRest, Others
      <3>2. CASE Ends(p) \/ Fails(p)
        BY <3>2, <2>f DEF Ends, Fails, SoundOf, Goes
      <3>3. CASE Perishes(p)
        <4>1. NoCrash /\ file' = file
          BY <3>3, <1>f DEF Perishes, Routes
        <4>2. MortalInv'
          BY NextMortal
        <4>3. bad = {}
          <5>1. ~(NoCrash')
            BY <3>3, Mishap DEF Perishes
          <5> QED
            BY <4>2, <5>1, <1>s DEF MortalInv
        <4>4. NoConflict(file)
          BY <4>1, <1>f DEF ConfInv
        <4> QED
          BY <4>1, <4>3, <4>4, SoundLoads
      <3>4. CASE cl[p].pc \in Crit /\ ~Ends(p) /\ ~Fails(p) /\ ~Perishes(p)
        <4>1. cl'[p].pc \in Crit
          BY <1>2, <3>4 DEF Forms, Waits, Fetches, Leaves, GivesUp, Reads, Skips, Stashes, Uploads, Writes,
             Restores, Stumbles, Reloads, Refused, Reverts, Verifies, Forgets, Goes, Crit
        <4> QED
          BY <4>1, <2>3 DEF AtRest
      <3> QED
        BY <3>1, <3>2, <3>3, <3>4
    <2> QED
      BY <2>1, <2>2, <2>3, <1>s DEF SoundInv
  <1>3. CASE UNCHANGED <<file, cl>>
    BY <1>3, <1>r, <1>s DEF SoundInv
  <1> QED
    BY <1>1, <1>2, <1>3, AllForms DEF Boots, Routes

LEMMA NextConf ==
  OneAtATime /\ Longer = {} /\ Typed /\ Within /\ LockInv /\ FileInv /\ PageInv /\ FormInv /\ FreshInv
  /\ SoundInv /\ ConfInv /\ [OpsNext]_vars => ConfInv'
  <1> SUFFICES ASSUME OneAtATime, Longer = {}, Typed, Within, LockInv, FileInv, PageInv, FormInv, FreshInv,
                      SoundInv, ConfInv, [OpsNext]_vars, Sighted', NoCrash'
               PROVE  ConfInv'
    BY DEF ConfInv
  <1>s. UNCHANGED setup /\ mount = "directory" /\ bad' = bad
    BY AllForms DEF Sighted, setup
  <1>f. Sighted /\ NoCrash /\ (Fault => ~FaultUsed) /\ (Fault \/ FaultUsed => FaultUsed') /\ ~Spend("crashes")
    BY <1>s, Mishap DEF Sighted
  <1>r. /\ NoConflict(file)
        /\ \A q \in Clients : ConfOf(cl[q], stash, FaultUsed)
        /\ \A a \in Apps : stash[a] # NoBlock /\ file.other[a] # "none" =>
              \E q \in Clients : cl[q].app = a /\ cl[q].op = "redirect" /\ cl[q].pc \in Turning
    BY <1>f DEF ConfInv
  <1>1. ASSUME NEW p \in Clients, NEW op \in Ops, NEW a \in Apps, NEW b \in Block,
               Starts(p, op, a, b), Others(p)
        PROVE  ConfInv'
    <2>1. file' = file /\ stash' = stash /\ cl[p].pc = "idle" /\ ConfOf(cl'[p], stash, FaultUsed')
      BY <1>1 DEF Starts, Busy, ConfOf, Rewriting
    <2>2. \A q \in Clients : q # p => cl'[q] = cl[q] /\ ConfOf(cl'[q], stash, FaultUsed')
      <3> SUFFICES ASSUME NEW q \in Clients, q # p
                   PROVE  cl'[q] = cl[q] /\ ConfOf(cl'[q], stash, FaultUsed')
        OBVIOUS
      <3>1. cl'[q] = cl[q] /\ ConfOf(cl[q], stash, FaultUsed)
        BY <1>1, <1>r DEF Others
      <3> QED
        BY <3>1, <1>f DEF ConfOf
    <2>3. ASSUME NEW c \in Apps, stash[c] # NoBlock, file.other[c] # "none"
          PROVE  \E q \in Clients : cl'[q].app = c /\ cl'[q].op = "redirect" /\ cl'[q].pc \in Turning
      <3>1. PICK q \in Clients : cl[q].app = c /\ cl[q].op = "redirect" /\ cl[q].pc \in Turning
        BY <2>3, <1>r
      <3>2. q # p
        BY <2>1, <3>1 DEF Turning
      <3> QED
        BY <2>2, <3>1, <3>2
    <2> QED
      BY <2>1, <2>2, <2>3, <1>r DEF ConfInv
  <1>2. ASSUME NEW p \in Clients, Forms(p), Busy(p), Others(p) PROVE ConfInv'
    <2> DEFINE x == cl[p]
               y == cl'[p]
               a == cl[p].app
    <2>t. /\ a \in Apps /\ x.pc # "idle" /\ stash \in [Apps -> Block] /\ x.op \in Ops /\ file \in Content
          /\ x.pc \in {"test", "cat", "rm stash"} => x.op = "off"
          /\ x.pc = "stash" => x.op = "on"
      BY <1>2 DEF Busy, Typed, TypeOK, Running
    <2>g. FileOf(x, file, tmp) /\ ConfOf(x, stash, FaultUsed) /\ FormOf(x)
      BY <1>r DEF FileInv, FormInv
    <2>h. ~FaultUsed => SoundOf(x, file, bad)
      BY <1>f DEF SoundInv
    \* nobody else redirects this app
    <2>n. stash[a] # NoBlock /\ file.other[a] # "none" => x.op = "redirect" /\ x.pc \in Turning
      <3> SUFFICES ASSUME stash[a] # NoBlock, file.other[a] # "none" PROVE x.op = "redirect" /\ x.pc \in Turning
        OBVIOUS
      <3>1. PICK q \in Clients : cl[q].app = a /\ cl[q].op = "redirect" /\ cl[q].pc \in Turning
        BY <1>r, <2>t
      <3>2. q = p
        BY <1>2, <3>1 DEF PageInv, OnePerApp, Busy, Turning
      <3> QED
        BY <3>1, <3>2
    <2>c. ~Perishes(p)
      BY <1>f DEF Perishes
    <2>1. NoConflict(file')
      <3>1. Writes(p) \/ Restores(p) \/ file' = file
        BY <1>2 DEF Forms, Waits, Fetches, Leaves, Perishes, GivesUp, Reads, Skips, Stashes, Uploads,
         Stumbles, Reloads, Refused, Reverts, Verifies, Ends, Fails, Forgets, Routes
      <3> QED
        BY <3>1, <1>r, <2>g DEF Writes, Restores, Goes, ConfOf, Rewriting
    <2>2. ConfOf(y, stash', FaultUsed')
      <3>1. CASE Waits(p) \/ Fetches(p) \/ Leaves(p) \/ GivesUp(p) \/ Skips(p)
        BY <3>1, <2>g, <2>t, <1>f DEF Waits, Fetches, Leaves, GivesUp, Skips, ConfOf, Same, Goes, Routes, Rewriting
      <3>2. CASE Ends(p) \/ Fails(p) \/ Forgets(p)
        BY <3>2, <2>g DEF Ends, Fails, Forgets, ConfOf, Same, Goes, Rewriting
      <3>3. CASE Reads(p)
        <4> DEFINE new == Transform(file, p)
        <4>1. /\ y.prev = file /\ y.new = new /\ y.op = x.op /\ y.app = a /\ y.blk = x.blk /\ stash' = stash
              /\ y.pc \in {"stash", "upload"} /\ x.pc = "read"
          BY <3>3 DEF Reads, Routes
        <4>2. /\ OwnOnly(new, file, a) /\ Sets(new, a, x.blk)
              /\ x.op \in {"set", "on"} => new.other[a] = "none"
              /\ x.op \in {"remove", "off"} => new.other[a] = file.other[a]
          <5>1. x.blk \in Block
            BY DEF Typed, TypeOK
          <5> QED
            BY <2>t, <5>1, TransformOwn, TransformOther
        <4> HIDE DEF new
        <4>3. stash[a] # NoBlock => file.other[a] = "none"
          BY <2>n, <4>1 DEF Turning
        <4>4. new.blk[a] = NoBlock \/ new.other[a] = "none"
          BY <4>1, <4>2, <4>3, <2>t, <2>g DEF FormOf, ConfOf, Sets, Ops
        <4>5. NoConflict(new)
          BY <4>2, <4>4, <1>r DEF NoConflict, OwnOnly
        <4> HIDE DEF x, y, a
        <4> QED
          BY <4>1, <4>3, <4>5, <1>r, <2>g DEF ConfOf, Rewriting, a, x
      <3>4. CASE Stashes(p)
        <4>1. /\ stash'[a] = file.blk[a] /\ Same(p) /\ Goes(p, "stash", "upload") /\ x.prev = file /\ x.op = "on"
          BY <3>4, <2>t, <2>g DEF Stashes, Goes, FileOf
        <4>2. stash'[a] # NoBlock => x.prev.other[a] = "none"
          BY <4>1, <2>t, <1>r DEF NoConflict
        <4> QED
          BY <4>1, <4>2, <2>g DEF ConfOf, Same, Goes, Rewriting
      <3>5. CASE Uploads(p) \/ Writes(p) \/ Restores(p) \/ Reloads(p) \/ Reverts(p) \/ Verifies(p) \/ Stumbles(p)
        BY <3>5, <2>g, <1>f DEF Uploads, Writes, Restores, Reloads, Reverts, Verifies, Stumbles, Routes,
           ConfOf, Same, Goes, Rewriting
      <3>6. CASE Refused(p)
        <4>1. x.op = "redirect" => FaultUsed'
          <5> SUFFICES ASSUME x.op = "redirect", ~FaultUsed' PROVE FALSE
            OBVIOUS
          <5>1. ~LoadsBut(file, bad) /\ x.pc = "reload" /\ ~FaultUsed
            BY <3>6, <1>f DEF Refused, Goes
          <5>2. LoadsBut(x.prev, bad) /\ file = x.new /\ Rewrites(x) /\ x.blk = NoBlock
            BY <5>1, <2>g, <2>h, <2>t DEF SoundOf, FileOf, FormOf
          <5>3. NoBlock.num \notin bad
            BY CaddyAssumption DEF NoBlock, Typed, TypeOK
          <5> QED
            BY <5>1, <5>2, <5>3 DEF LoadsBut, Rewrites, OwnOnly, Sets
        <4> QED
          BY <3>6, <4>1, <2>g, <1>f DEF Refused, Routes, ConfOf, Same, Goes, Rewriting
      <3> QED
        BY <1>2, <2>c, <3>1, <3>2, <3>3, <3>4, <3>5, <3>6 DEF Forms
    <2>3. ASSUME NEW q \in Clients, q # p PROVE ConfOf(cl'[q], stash', FaultUsed')
      <3>1. cl'[q] = cl[q] /\ ConfOf(cl[q], stash, FaultUsed)
        BY <1>2, <2>3, <1>r DEF Others
      <3>2. cl[q].pc # "idle" => stash'[cl[q].app] = stash[cl[q].app]
        BY <1>2, <2>3, Apart, Elsewhere DEF PageInv, Busy, Spared
      <3> QED
        BY <3>1, <3>2, <1>f DEF ConfOf, Rewriting
    <2>4. ASSUME stash'[a] # NoBlock, file'.other[a] # "none"
          PROVE  y.app = a /\ y.op = "redirect" /\ y.pc \in Turning
      <3>1. CASE Writes(p)
        <4>1. Same(p) /\ Goes(p, "move", "reload") /\ file'.other[a] = x.new.other[a] /\ file = x.prev /\ stash' = stash
          BY <3>1, <2>g DEF Writes, FileOf, Goes
        <4>2. x.op \notin {"set", "on"} /\ (x.op \in {"remove", "off"} => file.other[a] # "none")
          BY <4>1, <2>4, <2>g, <2>t DEF FormOf, Goes, Rewriting
        <4>3. x.op = "redirect"
          BY <4>1, <4>2, <2>4, <2>n, <2>t DEF Ops, Turning, Goes
        <4> QED
          BY <4>1, <4>3 DEF Same, Goes, Turning
      <3>2. CASE Restores(p)
        BY <3>2, <2>4, <2>g DEF Restores, ConfOf, Goes, Rewriting
      <3>3. CASE Stashes(p)
        BY <3>3, <2>4, <2>t, <1>r DEF Stashes, NoConflict
      <3>4. CASE ~Writes(p) /\ ~Restores(p) /\ ~Stashes(p)
        <4>1. file' = file /\ (stash'[a] = stash[a] \/ stash'[a] = NoBlock)
          <5>1. Succeed(p) => stash'[a] \in {stash[a], NoBlock}
            BY <2>t DEF Succeed, Ops
          <5> QED
            BY <1>2, <3>4, <2>t, <5>1 DEF Forms, Waits, Fetches, Leaves, Perishes, GivesUp, Reads, Skips, Uploads,
               Stumbles, Reloads, Refused, Reverts, Verifies, Ends, Fails, Forgets, Routes
        <4>2. x.op = "redirect" /\ x.pc \in Turning
          BY <4>1, <2>4, <2>n
        <4>3. ~Ends(p)
          <5>1. Succeed(p) => stash'[a] = NoBlock
            BY <4>2, <2>t DEF Succeed
          <5> QED
            BY <5>1, <2>4 DEF Ends
        <4>4. ~Stumbles(p)
          BY <4>2, <2>g, <1>f DEF Stumbles, ConfOf, Turning
        <4>5. Uploads(p) \/ Reloads(p) \/ Refused(p) \/ Verifies(p)
          BY <1>2, <3>4, <4>2, <4>3, <4>4, <2>c DEF Forms, Waits, Fetches, Leaves, GivesUp, Reads, Skips,
             Reverts, Fails, Forgets, Goes, Turning
        <4> QED
          BY <4>2, <4>5, <1>s DEF Uploads, Reloads, Refused, Verifies, Same, Goes, Turning
      <3> QED
        BY <3>1, <3>2, <3>3, <3>4
    <2>5. ASSUME NEW b \in Apps, stash'[b] # NoBlock, file'.other[b] # "none"
          PROVE  \E q \in Clients : cl'[q].app = b /\ cl'[q].op = "redirect" /\ cl'[q].pc \in Turning
      <3>1. CASE b = a
        BY <2>4, <2>5, <3>1
      <3>2. CASE b # a
        <4>1. stash[b] # NoBlock /\ file.other[b] # "none"
          BY <1>2, <2>5, <3>2, Elsewhere DEF Spared
        <4>2. PICK q \in Clients : cl[q].app = b /\ cl[q].op = "redirect" /\ cl[q].pc \in Turning
          BY <4>1, <1>r
        <4> QED
          BY <4>2, <3>2, <1>2 DEF Others
      <3> QED
        BY <3>1, <3>2
    <2> QED
      BY <2>1, <2>2, <2>3, <2>5 DEF ConfInv
  <1>3. CASE UNCHANGED <<file, stash, cl, budget>>
    BY <1>3, <1>r DEF ConfInv, FaultUsed
  <1> QED
    BY <1>1, <1>2, <1>3, AllForms DEF Boots, Routes


-----------------------------------------------------------------------------
(* Dead routes.  A block that may be loaded, from the file, the stash or   *)
(* what a command would write back, leads to containers that are there.    *)

Sunk(a, b, g, r, bd) == b \in g /\ a \notin r /\ b.num \notin bd
SunkOf(x, g, r, bd) ==
    /\ x.pc # "idle" => ~Sunk(x.app, x.blk, g, r, bd)
    /\ x.pc \in Rewriting => \A a \in Apps : ~Sunk(a, x.prev.blk[a], g, r, bd)
SunkInv == Sighted =>
    /\ \A a \in Apps : /\ ~Sunk(a, file.blk[a], gone, removing, bad)
                       /\ ~Sunk(a, stash[a], gone, removing, bad)
    /\ \A p \in Clients : SunkOf(cl[p], gone, removing, bad)

\* What a deploy knows of Caddy: after a reload, that it runs the deploy's
\* route; when it fails, that Caddy does not, and will not load it.
SetOf(x, f, v, bd, faulty) == x.op = "set" =>
    /\ x.pc \in {"verify", "release ok"} => f.blk[x.app] = x.blk /\ v = f /\ LoadsBut(f, bd)
    /\ x.pc = "reload" /\ v.blk[x.app] = x.blk => LoadsBut(f, bd)
    /\ x.pc \in {"undo", "undomove"} =>
        /\ (faulty /\ LoadsBut(x.prev, bd)) \/ (~LoadsBut(f, bd) /\ v.blk[x.app] # x.blk)
        /\ faulty \/ x.blk.num \in bd
    /\ x.pc = "undoreload" /\ v.blk[x.app] = x.blk => LoadsBut(x.prev, bd) /\ faulty
    /\ x.pc = "release" => v.blk[x.app] # x.blk /\ (f.blk[x.app] = x.blk => x.blk.num \in bd)
SetInv == Sighted => \A p \in Clients : SetOf(cl[p], file, live, bad, FaultUsed)

AliveInv == Sighted => \A a \in Apps : live.blk[a] \in gone => a \in removing

LEMMA InitSunk == Init => SunkInv /\ SetInv /\ AliveInv
  <1> SUFFICES ASSUME Init PROVE SunkInv /\ SetInv /\ AliveInv
    OBVIOUS
  <1>1. \A p \in Clients : cl[p].pc = "idle"
    BY IdleType DEF Init
  <1>2. gone = {}
    BY DEF Init
  <1> QED
    BY <1>1, <1>2 DEF SunkInv, SetInv, AliveInv, Sunk, SunkOf, SetOf, Rewriting

\* Which containers a step stops.
LEMMA GoneMoves ==
  ASSUME Typed, NEW p \in Clients, Forms(p), Busy(p)
  PROVE  \/ UNCHANGED <<gone, removing>>
         \/ /\ Ends(p) /\ cl[p].op = "set" /\ removing' = removing \ {cl[p].app}
            /\ gone' = gone \cup ((Of(cl[p].app) \cap used) \ {cl[p].blk})
         \/ /\ GivesUp(p) \/ Fails(p)
            /\ cl[p].op = "set" /\ gone' = gone \cup {cl[p].blk} /\ UNCHANGED removing
  <1>1. cl[p].op \in Ops
    BY DEF Typed, Running, Busy
  <1>2. CASE Ends(p)
    BY <1>1, <1>2 DEF Ends, Succeed, Ops, world
  <1>3. CASE GivesUp(p) \/ Fails(p)
    BY <1>3 DEF GivesUp, Fails, Fail
  <1>4. CASE ~Ends(p) /\ ~GivesUp(p) /\ ~Fails(p)
    BY <1>4 DEF Forms, Waits, Fetches, Leaves, Perishes, Reads, Skips, Stashes, Uploads, Writes,
           Restores, Stumbles, Reloads, Refused, Reverts, Verifies, Forgets, Routes, world
  <1> QED
    BY <1>2, <1>3, <1>4

LEMMA NextSet ==
  OneAtATime /\ Longer = {} /\ Typed /\ Within /\ LockInv /\ FileInv /\ PageInv /\ FormInv /\ FreshInv
  /\ SoundInv /\ SetInv /\ [OpsNext]_vars => SetInv'
  <1> SUFFICES ASSUME OneAtATime, Longer = {}, Typed, Within, LockInv, FileInv, PageInv, FormInv, FreshInv,
                      SoundInv, SetInv, [OpsNext]_vars, Sighted'
               PROVE  SetInv'
    BY DEF SetInv
  <1>s. UNCHANGED setup /\ mount = "directory" /\ bad' = bad
    BY AllForms DEF Sighted, setup
  <1>f. Sighted /\ (Fault => ~FaultUsed) /\ (Fault \/ FaultUsed => FaultUsed')
    BY <1>s, Mishap DEF Sighted
  <1>r. \A q \in Clients : SetOf(cl[q], file, live, bad, FaultUsed)
    BY <1>f DEF SetInv
  \* a command that goes on elsewhere
  <1>o. ASSUME NEW q \in Clients, cl'[q] = cl[q], UNCHANGED <<file, live>>
        PROVE  SetOf(cl'[q], file', live', bad, FaultUsed')
    <2>1. SetOf(cl[q], file, live, bad, FaultUsed)
      BY <1>r
    <2> QED
      BY <2>1, <1>o, <1>f DEF SetOf
  <1>1. ASSUME NEW p \in Clients, NEW op \in Ops, NEW a \in Apps, NEW b \in Block,
               Starts(p, op, a, b), Others(p)
        PROVE  SetInv'
    <2>1. UNCHANGED <<file, live>> /\ SetOf(cl'[p], file', live', bad, FaultUsed')
      BY <1>1 DEF Starts, SetOf
    <2>2. \A q \in Clients : q # p => SetOf(cl'[q], file', live', bad, FaultUsed')
      BY <1>1, <1>o, <2>1 DEF Others
    <2> QED
      BY <2>1, <2>2, <1>s DEF SetInv
  <1>2. ASSUME NEW p \in Clients, Forms(p), Busy(p), Others(p) PROVE SetInv'
    <2> DEFINE x == cl[p]
               y == cl'[p]
               a == cl[p].app
    <2>t. /\ a \in Apps /\ x.pc # "idle"
          /\ x.pc \in {"test", "cat", "rm stash"} => x.op = "off"
          /\ x.pc = "stash" => x.op = "on"
      BY <1>2 DEF Busy, Typed, Running
    <2>g. FileOf(x, file, tmp) /\ SetOf(x, file, live, bad, FaultUsed) /\ FormOf(x)
          /\ FreshOf(x, file, live, stash, gone, mount)
      BY <1>r DEF FileInv, FormInv, FreshInv
    <2>h. ~FaultUsed => SoundOf(x, file, bad)
      BY <1>f DEF SoundInv
    <2>1. SetOf(y, file', live', bad, FaultUsed')
      <3> SUFFICES ASSUME y.op = "set", y.pc # "idle" PROVE SetOf(y, file', live', bad, FaultUsed')
        BY DEF SetOf
      <3>0. x.op = "set"
        BY <1>2 DEF Forms, Waits, Fetches, Leaves, Perishes, GivesUp, Reads, Skips, Stashes, Uploads, Writes,
         Restores, Stumbles, Reloads, Refused, Reverts, Verifies, Ends, Fails, Forgets, Same, Goes
      <3>1. CASE y.pc \in {"test", "cat", "lock", "stale", "break", "read", "stash", "upload", "move", "rm stash"}
        BY <3>1 DEF SetOf
      <3>2. CASE Skips(p)
        BY <3>0, <3>2, <2>g, <2>t DEF Skips, Goes, FreshOf
      <3>3. CASE Uploads(p) /\ y.pc = "undomove"
        BY <3>0, <3>3, <2>g, <1>f DEF Uploads, Goes, Same, SetOf, Routes
      <3>4. CASE Writes(p)
        BY <3>0, <3>4, <2>g, <2>t DEF Writes, Goes, Same, SetOf, FreshOf
      <3>5. CASE Restores(p)
        BY <3>0, <3>5, <2>g, <1>f DEF Restores, Goes, Same, SetOf
      <3>6. CASE Stumbles(p)
        BY <3>0, <3>6, <2>g, <2>t, <1>f DEF Stumbles, Same, SetOf, FreshOf, Routes
      <3>7. CASE Reloads(p)
        BY <3>0, <3>7, <2>g, <1>s DEF Reloads, Goes, Same, SetOf, FileOf, Rewrites, Sets
      <3>8. CASE Refused(p)
        <4>1. /\ x.pc = "reload" /\ y.pc = "undo" /\ UNCHANGED <<file, live>> /\ Same(p)
              /\ file = x.new /\ Rewrites(x) /\ x.new.other[a] = "none"
          BY <3>0, <3>8, <2>g DEF Refused, Goes, Routes, FileOf, FormOf, Rewriting
        <4>2. CASE Fault
          <5>1. LoadsBut(x.prev, bad) /\ FaultUsed'
            BY <4>1, <4>2, <2>h, <1>f DEF SoundOf
          <5> QED
            BY <4>1, <5>1 DEF Same, SetOf
        <4>3. CASE ~LoadsBut(file, bad)
          <5>1. live.blk[a] # x.blk
            BY <3>0, <4>1, <4>3, <2>g DEF SetOf
          <5>2. FaultUsed \/ x.blk.num \in bad
            <6> SUFFICES ASSUME ~FaultUsed PROVE x.blk.num \in bad
              OBVIOUS
            <6>1. LoadsBut(x.prev, bad)
              BY <4>1, <2>h DEF SoundOf
            <6>2. \A b \in Apps : b # a => file.blk[b].num \notin bad /\ (file.blk[b] = NoBlock \/ file.other[b] = "none")
              BY <4>1, <6>1 DEF LoadsBut, Rewrites, OwnOnly
            <6>3. file.blk[a] = x.blk /\ file.other[a] = "none"
              BY <4>1 DEF Rewrites, Sets
            <6> HIDE DEF a
            <6> QED
              BY <4>3, <6>2, <6>3 DEF LoadsBut
          <5> QED
            BY <4>1, <4>3, <5>1, <5>2, <1>f DEF Same, SetOf
        <4> QED
          BY <3>8, <4>2, <4>3 DEF Refused
      <3>9. CASE Reverts(p)
        <4>1. /\ x.pc = "undoreload" /\ y.pc = "release" /\ file' = file /\ Same(p) /\ file = x.prev
              /\ x.prev.blk[a] # x.blk
          BY <3>0, <3>9, <2>g DEF Reverts, Goes, FileOf, FreshOf, Rewriting
        <4>2. live'.blk[a] # x.blk
          BY <3>0, <3>9, <4>1, <2>g, <1>f, <1>s DEF Reverts, SetOf
        <4> QED
          BY <4>1, <4>2 DEF SetOf, Same
      <3>10. CASE Verifies(p)
        BY <3>0, <3>10, <2>g, <1>s DEF Verifies, Goes, Same, SetOf, Routes
      <3> QED
        BY <1>2, <2>t, <3>0, <3>1, <3>2, <3>3, <3>4, <3>5, <3>6, <3>7, <3>8, <3>9, <3>10 DEF Forms, Waits, Fetches,
           Leaves, Perishes, GivesUp, Reads, Stashes, Uploads, Ends, Fails, Forgets, Goes
    <2>2. ASSUME NEW q \in Clients, q # p PROVE SetOf(cl'[q], file', live', bad, FaultUsed')
      <3>1. CASE cl[p].pc \in Crit
        <4>1. cl'[q].pc \notin Crit
          BY <1>2, <2>2, <3>1, AloneStep
        <4> QED
          BY <4>1 DEF SetOf, Crit
      <3>2. CASE cl[p].pc \notin Crit
        BY <1>2, <2>2, <3>2, <1>o, StillOutside DEF Others
      <3> QED
        BY <3>1, <3>2
    <2> QED
      BY <2>1, <2>2, <1>s DEF SetInv
  <1>3. CASE Boots
    <2> SUFFICES ASSUME NEW q \in Clients, cl[q].op = "set", cl[q].pc # "idle"
                 PROVE  SetOf(cl[q], file, live', bad, FaultUsed)
      BY <1>3, <1>s DEF Boots, SetInv, FaultUsed, SetOf
    <2>1. SetOf(cl[q], file, live, bad, FaultUsed) /\ FileOf(cl[q], file, tmp)
          /\ FreshOf(cl[q], file, live, stash, gone, mount)
      BY <1>r DEF FileInv, FreshInv
    <2>2. cl[q].blk # NoBlock /\ cl[q].app \in Apps
      BY BlocksType DEF Typed, Running
    <2>3. CASE LoadsBut(file, bad) /\ live' = file
      <3>1. file.blk[cl[q].app].num \notin bad
        BY <2>2, <2>3 DEF LoadsBut
      <3> QED
        BY <2>1, <2>3, <3>1 DEF SetOf, FileOf, FreshOf, Rewriting
    <2>4. CASE ~LoadsBut(file, bad) /\ live' = Nothing
      <3>1. live'.blk[cl[q].app] # cl[q].blk
        BY <2>2, <2>4 DEF Nothing
      <3> QED
        BY <2>1, <2>4, <3>1 DEF SetOf
    <2> QED
      BY <1>3, <2>3, <2>4 DEF Boots
  <1>4. CASE UNCHANGED <<Routes, cl, budget>>
    BY <1>4, <1>o, <1>s DEF Routes, SetInv
  <1> QED
    BY <1>1, <1>2, <1>3, <1>4, AllForms

\* The page and no block lead nowhere, and a route belongs to one app.
LEMMA DeadRoutes ==
  ASSUME Typed
  PROVE  /\ NoBlock \notin gone /\ MaintBlock \notin gone /\ gone \subseteq used
         /\ \A a, b \in Apps : \A r \in UsedBlock(a, used) : a # b => r \notin Of(b)
         /\ \A a \in Apps : NoBlock \notin Of(a) /\ MaintBlock \notin Of(a)
  <1>1. gone \subseteq used /\ used \subseteq Route
    BY DEF Typed, TypeOK
  <1> QED
    BY <1>1, BlocksType DEF UsedBlock, Of

\* What sinks: a step that stops the containers of an app sinks no block of another,
\* and none of its own that Caddy may load.
LEMMA SinksOther ==
  ASSUME Typed, FileInv, NEW p \in Clients, Forms(p), Busy(p), NEW b \in Apps, b # cl[p].app,
         NEW r \in UsedBlock(b, used), ~Sunk(b, r, gone, removing, bad)
  PROVE  ~Sunk(b, r, gone', removing', bad)
  <1>1. Spared(b)
    BY Elsewhere
  <1>2. CASE r \in Of(b)
    BY <1>1, <1>2 DEF Spared, Sunk
  <1>3. CASE r \in {NoBlock, MaintBlock}
    <2>1. r \notin gone /\ r \notin Of(cl[p].app) /\ (cl[p].op = "set" => cl[p].blk # r)
      BY <1>3, DeadRoutes, BlocksType DEF Typed, Running, Busy
    <2> QED
      BY <2>1, GoneMoves DEF Sunk
  <1> QED
    BY <1>2, <1>3 DEF UsedBlock

LEMMA NextSunk ==
  OneAtATime /\ Longer = {} /\ Typed /\ Within /\ LockInv /\ FileInv /\ PageInv /\ FormInv /\ OwnInv
  /\ FreshInv /\ SetInv /\ SunkInv /\ [OpsNext]_vars => SunkInv'
  <1> SUFFICES ASSUME OneAtATime, Longer = {}, Typed, Within, LockInv, FileInv, PageInv, FormInv, OwnInv, FreshInv,
                      SetInv, SunkInv, [OpsNext]_vars, Sighted'
               PROVE  SunkInv'
    BY DEF SunkInv
  <1>s. UNCHANGED setup /\ mount = "directory" /\ bad' = bad
    BY AllForms DEF Sighted, setup
  <1>f. Sighted
    BY <1>s, Mishap DEF Sighted
  <1>r. /\ \A b \in Apps : ~Sunk(b, file.blk[b], gone, removing, bad) /\ ~Sunk(b, stash[b], gone, removing, bad)
        /\ \A q \in Clients : SunkOf(cl[q], gone, removing, bad)
    BY <1>f DEF SunkInv
  <1>w. /\ \A b \in Apps : {file.blk[b], live.blk[b], stash[b]} \subseteq UsedBlock(b, used)
        /\ \A q \in Clients : OwnOf(cl[q], used)
    BY DEF OwnInv
  <1>1. ASSUME NEW p \in Clients, NEW op \in Ops, NEW a \in Apps, NEW b \in Block,
               Starts(p, op, a, b), Others(p)
        PROVE  SunkInv'
    <2>1. \A c \in Apps : \A r \in UsedBlock(c, used) : ~Sunk(c, r, gone, removing, bad) => ~Sunk(c, r, gone', removing', bad)
      <3> SUFFICES ASSUME NEW c \in Apps, NEW r \in UsedBlock(c, used), ~Sunk(c, r, gone, removing, bad)
                   PROVE  ~Sunk(c, r, gone', removing', bad)
        OBVIOUS
      <3>1. CASE c = a
        BY <1>1, <3>1 DEF Starts, Sunk
      <3>2. CASE c # a
        <4>1. r \notin Of(a)
          BY <3>2, DeadRoutes
        <4> QED
          BY <1>1, <4>1 DEF Starts, Sunk
      <3> QED
        BY <3>1, <3>2
    <2>2. SunkOf(cl'[p], gone', removing', bad)
      <3>1. b \notin gone' \/ a \in removing'
        BY <1>1, DeadRoutes DEF Starts, Ops
      <3> QED
        BY <1>1, <3>1 DEF Starts, SunkOf, Sunk, Rewriting
    <2>3. ASSUME NEW q \in Clients, q # p PROVE SunkOf(cl'[q], gone', removing', bad)
      <3>1. cl'[q] = cl[q] /\ SunkOf(cl[q], gone, removing, bad) /\ OwnOf(cl[q], used)
            /\ (cl[q].pc # "idle" => cl[q].app \in Apps)
        BY <1>1, <2>3, <1>r, <1>w DEF Others, Typed, Running
      <3> QED
        BY <3>1, <2>1 DEF SunkOf, OwnOf
    <2> QED
      BY <1>1, <1>r, <1>w, <1>s, <2>1, <2>2, <2>3 DEF Starts, SunkInv
  <1>2. ASSUME NEW p \in Clients, Forms(p), Busy(p), Others(p) PROVE SunkInv'
    <2> DEFINE x == cl[p]
               y == cl'[p]
               a == cl[p].app
    <2>t. /\ a \in Apps /\ x.pc # "idle" /\ stash \in [Apps -> Block] /\ x.op \in Ops
      BY <1>2 DEF Busy, Typed, TypeOK, Running
    <2>g. FileOf(x, file, tmp) /\ SetOf(x, file, live, bad, FaultUsed) /\ FreshOf(x, file, live, stash, gone, mount)
          /\ SunkOf(x, gone, removing, bad) /\ OwnOf(x, used)
      BY <1>r, <1>f, <1>w DEF FileInv, SetInv, FreshInv
    \* blocks of other apps
    <2>b. \A b \in Apps : \A r \in UsedBlock(b, used) :
              b # a /\ ~Sunk(b, r, gone, removing, bad) => ~Sunk(b, r, gone', removing', bad)
      BY <1>2, SinksOther
    \* the other commands' own blocks, and what they would write back
    <2>q. ASSUME NEW q \in Clients, q # p, cl[q].pc # "idle" PROVE SunkOf(cl[q], gone', removing', bad)
      <3>1. SunkOf(cl[q], gone, removing, bad) /\ OwnOf(cl[q], used) /\ cl[q].app \in Apps /\ cl[q].app # a
        BY <1>2, <2>q, <1>r, <1>w, Apart DEF PageInv, Busy
      <3>2. ~Sunk(cl[q].app, cl[q].blk, gone', removing', bad)
        BY <2>q, <3>1, <2>b DEF SunkOf, OwnOf
      <3>3. ASSUME cl[q].pc \in Rewriting, NEW b \in Apps PROVE ~Sunk(b, cl[q].prev.blk[b], gone', removing', bad)
        <4>1. ~Sunk(b, cl[q].prev.blk[b], gone, removing, bad) /\ cl[q].prev.blk[b] \in UsedBlock(b, used)
          BY <3>1, <3>3 DEF SunkOf, OwnOf
        <4>2. CASE b # a
          BY <4>1, <4>2, <2>b
        <4>3. CASE b = a
          <5>1. x.pc \notin Crit
            BY <2>q, <3>3, Alone DEF Crit, Rewriting
          <5>2. cl[q].prev.blk[a] = file.blk[a]
            <6>1. FileOf(cl[q], file, tmp)
              BY DEF FileInv
            <6> QED
              BY <6>1, <3>1, <3>3, <2>t DEF FileOf, Rewrites, OwnOnly, Rewriting
          <5>3. UNCHANGED <<gone, removing>> \/ (gone' = gone \cup {x.blk} /\ UNCHANGED removing /\ x.blk # file.blk[a])
            <6>1. ~Ends(p) /\ ~Fails(p)
              BY <5>1 DEF Ends, Fails, Goes, Crit
            <6>2. GivesUp(p) /\ x.op = "set" => x.blk # file.blk[a]
              BY <2>g DEF GivesUp, Goes, FreshOf
            <6> QED
              BY <1>2, <6>1, <6>2, GoneMoves
          <5> QED
            BY <4>1, <4>3, <5>2, <5>3 DEF Sunk
        <4> QED
          BY <4>2, <4>3
      <3> QED
        BY <3>2, <3>3 DEF SunkOf
    <2>1. CASE UNCHANGED <<gone, removing>>
      <3>1. ~Sunk(a, file'.blk[a], gone, removing, bad)
        <4>1. file'.blk[a] \in {file.blk[a], x.blk} \cup (IF x.pc \in Rewriting THEN {x.prev.blk[a]} ELSE {})
          BY <1>2, <2>g DEF Forms, Waits, Fetches, Leaves, Perishes, GivesUp, Reads, Skips, Stashes, Uploads, Writes,
             Restores, Stumbles, Reloads, Refused, Reverts, Verifies, Ends, Fails, Forgets, Goes, Rewriting, Routes,
             FileOf, Rewrites, Sets
        <4>2. ~Sunk(a, x.blk, gone, removing, bad) /\ (x.pc \in Rewriting => ~Sunk(a, x.prev.blk[a], gone, removing, bad))
          BY <2>g, <2>t DEF SunkOf
        <4> QED
          BY <4>1, <4>2, <1>r, <2>t
      <3>2. ~Sunk(a, stash'[a], gone, removing, bad)
        <4>1. stash'[a] \in {stash[a], file.blk[a], NoBlock}
          <5>1. Succeed(p) => stash'[a] \in {stash[a], NoBlock}
            BY <2>t DEF Succeed, Ops
          <5> QED
            BY <1>2, <2>t, <5>1 DEF Forms, Waits, Fetches, Leaves, Perishes, GivesUp, Reads, Skips, Stashes, Uploads,
             Writes, Restores, Stumbles, Reloads, Refused, Reverts, Verifies, Ends, Fails, Forgets, Routes
        <4>2. ~Sunk(a, NoBlock, gone, removing, bad)
          BY DeadRoutes DEF Sunk
        <4> QED
          BY <4>1, <4>2, <1>r, <2>t
      <3>3. \A b \in Apps : b # a => file'.blk[b] = file.blk[b] /\ stash'[b] = stash[b]
        BY <1>2, Elsewhere DEF Spared
      <3>4. SunkOf(y, gone, removing, bad)
        <4>1. y.pc # "idle" => y.app = a /\ y.blk \in {x.blk, stash[a]}
          BY <1>2 DEF Forms, Waits, Fetches, Leaves, Perishes, GivesUp, Reads, Skips, Stashes, Uploads, Writes,
             Restores, Stumbles, Reloads, Refused, Reverts, Verifies, Ends, Fails, Forgets, Same, Goes
        <4>2. y.pc \in Rewriting => y.prev = file \/ (y.prev = x.prev /\ x.pc \in Rewriting)
          BY <1>2 DEF Forms, Waits, Fetches, Leaves, Perishes, GivesUp, Reads, Skips, Stashes, Uploads, Writes,
             Restores, Stumbles, Reloads, Refused, Reverts, Verifies, Ends, Fails, Forgets, Same, Goes, Rewriting
        <4> HIDE DEF y
        <4> QED
          BY <4>1, <4>2, <2>t, <2>g, <1>r DEF SunkOf
      <3>5. \A b \in Apps : ~Sunk(b, file'.blk[b], gone, removing, bad) /\ ~Sunk(b, stash'[b], gone, removing, bad)
        BY <3>1, <3>2, <3>3, <1>r
      <3>6. \A q \in Clients : SunkOf(cl'[q], gone, removing, bad)
        BY <1>2, <3>4, <1>r DEF Others
      <3> QED
        BY <2>1, <3>5, <3>6, <1>s DEF SunkInv
    <2>2. CASE (Ends(p) \/ GivesUp(p) \/ Fails(p)) /\ x.op = "set"
      <3>1. file' = file /\ y.pc = "idle" /\ stash[a] = NoBlock /\ x.blk \notin gone /\ stash' = stash
        <4>1. Succeed(p) => UNCHANGED stash
          BY <2>2 DEF Succeed
        <4> QED
          BY <2>2, <2>t, <2>g, <4>1 DEF Ends, GivesUp, Fails, Goes, FreshOf
      <3>2. ~Sunk(a, file.blk[a], gone', removing', bad)
        <4>1. CASE Ends(p)
          <5>1. file.blk[a] = x.blk
            BY <2>2, <4>1, <2>g DEF Ends, SetOf
          <5>2. x.blk \notin gone'
            BY <2>2, <4>1, <3>1 DEF Ends, Succeed
          <5> QED
            BY <5>1, <5>2 DEF Sunk
        <4>2. CASE GivesUp(p) \/ Fails(p)
          <5>1. gone' = gone \cup {x.blk} /\ UNCHANGED removing
            BY <2>2, <4>2 DEF GivesUp, Fails, Fail
          <5>2. file.blk[a] = x.blk => x.blk.num \in bad
            BY <2>2, <2>t, <4>2, <2>g DEF GivesUp, Fails, Goes, SetOf, FreshOf
          <5>3. ~Sunk(a, file.blk[a], gone, removing, bad)
            BY <1>r, <2>t
          <5> QED
            BY <5>1, <5>2, <5>3 DEF Sunk
        <4> QED
          BY <2>2, <4>1, <4>2
      <3>3. ~Sunk(a, stash[a], gone', removing', bad)
        <4>1. NoBlock \notin gone'
          <5>1. NoBlock \notin gone /\ NoBlock \notin Of(a) /\ NoBlock # x.blk
            BY <2>2, <2>t, DeadRoutes, BlocksType DEF Typed, Running
          <5> QED
            BY <1>2, <5>1, GoneMoves
        <4> QED
          BY <3>1, <4>1 DEF Sunk
      <3>4. \A b \in Apps : ~Sunk(b, file'.blk[b], gone', removing', bad) /\ ~Sunk(b, stash'[b], gone', removing', bad)
        <4> SUFFICES ASSUME NEW b \in Apps, b # a
                     PROVE  ~Sunk(b, file.blk[b], gone', removing', bad) /\ ~Sunk(b, stash[b], gone', removing', bad)
          BY <3>1, <3>2, <3>3
        <4> QED
          BY <2>b, <1>r, <1>w
      <3>5. SunkOf(y, gone', removing', bad)
        BY <3>1 DEF SunkOf, Rewriting
      <3>6. \A q \in Clients : SunkOf(cl'[q], gone', removing', bad)
        <4>1. \A q \in Clients : cl[q].pc = "idle" => SunkOf(cl[q], gone', removing', bad)
          BY DEF SunkOf, Rewriting
        <4> QED
          BY <1>2, <3>5, <2>q, <4>1 DEF Others
      <3> QED
        BY <3>4, <3>6, <1>s DEF SunkInv
    <2> QED
      BY <1>2, <2>1, <2>2, GoneMoves
  <1>3. CASE UNCHANGED <<file, stash, world, cl>>
    BY <1>3, <1>r, <1>s DEF SunkInv, world
  <1> QED
    BY <1>1, <1>2, <1>3, AllForms DEF Boots, Routes

LEMMA NextAlive ==
  OneAtATime /\ Longer = {} /\ Typed /\ Within /\ LockInv /\ FileInv /\ PageInv /\ OwnInv
  /\ FreshInv /\ SetInv /\ SunkInv /\ AliveInv /\ [OpsNext]_vars => AliveInv'
  <1> SUFFICES ASSUME OneAtATime, Longer = {}, Typed, Within, LockInv, FileInv, PageInv, OwnInv, FreshInv,
                      SetInv, SunkInv, AliveInv, [OpsNext]_vars, Sighted'
               PROVE  AliveInv'
    BY DEF AliveInv
  <1>s. UNCHANGED setup /\ mount = "directory"
    BY AllForms DEF Sighted, setup
  <1>f. Sighted
    BY <1>s, Mishap DEF Sighted
  <1>r. \A b \in Apps : /\ ~Sunk(b, file.blk[b], gone, removing, bad)
                        /\ live.blk[b] \in gone => b \in removing
                        /\ {file.blk[b], live.blk[b]} \subseteq UsedBlock(b, used)
    BY <1>f DEF SunkInv, AliveInv, OwnInv
  \* what the file has and Caddy loads leads to live containers
  <1>l. LoadsBut(file, bad) => \A b \in Apps : file.blk[b] \in gone => b \in removing
    BY <1>r DEF LoadsBut, Sunk
  <1>1. ASSUME NEW p \in Clients, NEW op \in Ops, NEW a \in Apps, NEW b \in Block,
               Starts(p, op, a, b), Others(p)
        PROVE  AliveInv'
    <2> SUFFICES ASSUME NEW c \in Apps, live.blk[c] \in gone' PROVE c \in removing'
      BY <1>1 DEF AliveInv, Starts
    <2>1. CASE c = a
      BY <1>1, <1>r, <2>1 DEF Starts
    <2>2. CASE c # a
      <3>1. live.blk[c] \notin Of(a)
        BY <1>r, <2>2, DeadRoutes
      <3> QED
        BY <1>1, <1>r, <3>1 DEF Starts
    <2> QED
      BY <2>1, <2>2
  <1>2. ASSUME NEW p \in Clients, Forms(p), Busy(p), Others(p) PROVE AliveInv'
    <2> DEFINE x == cl[p]
               a == cl[p].app
    <2>t. a \in Apps /\ x.pc # "idle"
      BY <1>2 DEF Busy, Typed, Running
    <2>g. SetOf(x, file, live, bad, FaultUsed) /\ FreshOf(x, file, live, stash, gone, mount)
      BY <1>f DEF SetInv, FreshInv
    <2>1. \A b \in Apps : (live'.blk[b] \in gone => b \in removing) /\ live'.blk[b] \in UsedBlock(b, used)
      BY <1>2, <1>r, <1>l, LiveMoves
    <2>2. ASSUME NEW b \in Apps, b # a, live'.blk[b] \in gone' PROVE b \in removing'
      <3>1. ~Sunk(b, live'.blk[b], gone, removing, {})
        BY <2>1 DEF Sunk
      <3>2. Spared(b)
        BY <1>2, <2>2, Elsewhere
      <3>3. CASE live'.blk[b] \in Of(b)
        BY <2>1, <2>2, <3>2, <3>3 DEF Spared
      <3>4. CASE live'.blk[b] \in {NoBlock, MaintBlock}
        <4>1. live'.blk[b] \notin gone /\ live'.blk[b] \notin Of(a) /\ (x.op = "set" => x.blk # live'.blk[b])
          BY <3>4, <2>t, DeadRoutes, BlocksType DEF Typed, Running
        <4> QED
          BY <1>2, <2>2, <4>1, GoneMoves
      <3> QED
        BY <2>1, <3>3, <3>4 DEF UsedBlock
    <2>3. ASSUME live'.blk[a] \in gone' PROVE a \in removing'
      <3>1. CASE UNCHANGED <<gone, removing>>
        BY <2>1, <2>3, <2>t, <3>1
      <3>2. CASE Ends(p) /\ x.op = "set"
        <4>1. live.blk[a] = x.blk /\ live' = live /\ x.blk \notin gone
          BY <3>2, <2>t, <2>g DEF Ends, SetOf, FreshOf
        <4>2. x.blk \notin gone'
          BY <3>2, <4>1 DEF Ends, Succeed
        <4> QED
          BY <2>3, <4>1, <4>2
      <3>3. CASE (GivesUp(p) \/ Fails(p)) /\ x.op = "set"
        <4>1. live' = live /\ gone' = gone \cup {x.blk} /\ UNCHANGED removing
          BY <3>3 DEF GivesUp, Fails, Fail
        <4>2. live.blk[a] # x.blk
          BY <3>3, <2>t, <2>g DEF GivesUp, Fails, Goes, SetOf, FreshOf
        <4> QED
          BY <2>3, <4>1, <4>2, <1>r, <2>t
      <3> QED
        BY <1>2, <3>1, <3>2, <3>3, GoneMoves
    <2> QED
      BY <2>2, <2>3 DEF AliveInv
  <1>3. CASE Boots
    <2>1. NoBlock \notin gone
      BY DeadRoutes
    <2>2. \A b \in Apps : live'.blk[b] \in gone => b \in removing
      BY <1>3, <1>l, <2>1 DEF Boots, Nothing
    <2> QED
      BY <1>3, <2>2 DEF Boots, AliveInv, world
  <1>4. CASE UNCHANGED <<Routes, cl, budget>>
    BY <1>4, <1>r DEF Routes, world, AliveInv
  <1> QED
    BY <1>1, <1>2, <1>3, <1>4, AllForms

\* Where Caddy does not see the file and nothing else fails, no deploy succeeds, and
\* Caddy goes on with the routes it had.
BlindInv == mount = "file" /\ ~FaultUsed =>
    /\ \A a \in Apps : live.blk[a] \in gone => a \in removing
    /\ \A p \in Clients : cl[p].op = "set" => cl[p].pc # "release ok"

LEMMA InitBlind == Init => BlindInv
  BY IdleType DEF Init, BlindInv

LEMMA NextBlind ==
  OneAtATime /\ Longer = {} /\ Typed /\ Within /\ FileInv /\ PageInv /\ OwnInv /\ FreshInv /\ BlindInv
  /\ [OpsNext]_vars => BlindInv'
  <1> SUFFICES ASSUME OneAtATime, Longer = {}, Typed, Within, FileInv, PageInv, OwnInv, FreshInv, BlindInv,
                      [OpsNext]_vars, mount' = "file", ~FaultUsed'
               PROVE  BlindInv'
    BY DEF BlindInv
  <1>s. mount = "file"
    BY AllForms DEF setup
  <1>f. ~FaultUsed /\ ~Fault
    BY Mishap
  <1>r. /\ \A b \in Apps : live.blk[b] \in gone => b \in removing
        /\ \A b \in Apps : live.blk[b] \in UsedBlock(b, used)
        /\ \A q \in Clients : cl[q].op = "set" => cl[q].pc # "release ok"
    BY <1>s, <1>f DEF BlindInv, OwnInv
  <1>1. ASSUME NEW p \in Clients, NEW op \in Ops, NEW a \in Apps, NEW b \in Block,
               Starts(p, op, a, b), Others(p)
        PROVE  BlindInv'
    <2>1. ASSUME NEW c \in Apps, live.blk[c] \in gone' PROVE c \in removing'
      <3>1. CASE c = a
        BY <1>1, <1>r, <2>1, <3>1 DEF Starts
      <3>2. CASE c # a
        <4>1. live.blk[c] \notin Of(a)
          BY <1>r, <3>2, DeadRoutes
        <4> QED
          BY <1>1, <1>r, <2>1, <4>1 DEF Starts
      <3> QED
        BY <3>1, <3>2
    <2> QED
      BY <1>1, <1>r, <2>1 DEF BlindInv, Starts, Others
  <1>2. ASSUME NEW p \in Clients, Forms(p), Busy(p), Others(p) PROVE BlindInv'
    <2> DEFINE x == cl[p]
               a == cl[p].app
    <2>t. a \in Apps /\ x.pc # "idle" /\ (x.pc \in {"test", "cat", "rm stash"} => x.op = "off")
      BY <1>2 DEF Busy, Typed, Running
    <2>g. FreshOf(x, file, live, stash, gone, mount)
      BY DEF FreshInv
    <2>1. live' = live
      BY <1>2, <1>s, LiveMoves
    <2>2. ~(Ends(p) /\ x.op = "set")
      BY <1>r DEF Ends
    <2>3. UNCHANGED <<gone, removing>> \/ (x.op = "set" /\ gone' = gone \cup {x.blk} /\ UNCHANGED removing)
      BY <1>2, <2>2, GoneMoves
    <2>4. ASSUME NEW b \in Apps, live.blk[b] \in gone' PROVE b \in removing'
      <3>1. CASE x.op = "set" /\ live.blk[b] = x.blk
        <4>1. x.blk \in Of(a) /\ live.blk[b] \in UsedBlock(b, used)
          BY <1>r, <2>t, <3>1 DEF Typed, Running
        <4>2. b = a
          BY <2>t, <3>1, <4>1, DeadRoutes
        <4> QED
          BY <2>t, <2>g, <3>1, <4>2, <1>s DEF FreshOf
      <3>2. CASE ~(x.op = "set" /\ live.blk[b] = x.blk)
        BY <1>r, <2>3, <2>4, <3>2
      <3> QED
        BY <3>1, <3>2
    <2>5. cl'[p].op = "set" => cl'[p].pc # "release ok"
      <3> SUFFICES ASSUME cl'[p].op = "set", cl'[p].pc = "release ok" PROVE FALSE
        OBVIOUS
      <3>1. Skips(p) \/ Verifies(p)
        BY <1>2 DEF Forms, Waits, Fetches, Leaves, Perishes, GivesUp, Reads, Skips, Stashes, Uploads, Writes,
           Restores, Stumbles, Reloads, Refused, Reverts, Ends, Fails, Forgets, Goes
      <3>2. ~Verifies(p)
        BY <1>s, <1>f DEF Verifies, Goes
      <3>3. ~Skips(p)
        BY <2>t, <2>g DEF Skips, Same, Goes, FreshOf
      <3> QED
        BY <3>1, <3>2, <3>3
    <2> QED
      BY <1>2, <1>r, <2>1, <2>4, <2>5 DEF BlindInv, Others
  <1>3. CASE UNCHANGED <<Routes, cl, budget>>
    BY <1>3, <1>r DEF Routes, world, BlindInv
  <1> QED
    BY <1>1, <1>2, <1>3, <1>s, AllForms DEF Boots

\* What holds of the commands, whatever fails.
Base == /\ Typed /\ Within /\ LockInv /\ FileInv /\ PageInv
        /\ OwnInv /\ FreshInv /\ FormInv /\ MortalInv
SafeInv == Base /\ SoundInv /\ ConfInv /\ SetInv /\ SunkInv /\ AliveInv /\ BlindInv

LEMMA InitSafe == Init => SafeInv
  BY InitTyped, InitWithin, InitLock, InitFile, InitPage, InitOwn, InitFresh, InitForm, InitMortal, InitSound,
     InitSunk, InitBlind DEF SafeInv, Base

LEMMA NextSafe == OneAtATime /\ Mortal /\ Longer = {} /\ SafeInv /\ [OpsNext]_vars => SafeInv'
  <1> SUFFICES ASSUME OneAtATime, Mortal, Longer = {}, SafeInv, [OpsNext]_vars PROVE SafeInv'
    OBVIOUS
  <1>1. Disciplined
    BY DEF OneAtATime
  <1>2. Typed' /\ Within' /\ LockInv' /\ FileInv' /\ PageInv' /\ OwnInv' /\ FreshInv' /\ FormInv' /\ MortalInv'
    BY <1>1, NextTyped, NextWithin, NextLock, NextFile, NextPage, NextOwn, NextFresh, NextForm, NextMortal
       DEF SafeInv, Base
  <1>3. SoundInv' /\ ConfInv' /\ SetInv' /\ SunkInv' /\ AliveInv' /\ BlindInv'
    BY NextSound, NextConf, NextSet, NextSunk, NextAlive, NextBlind DEF SafeInv, Base
  <1> QED
    BY <1>2, <1>3 DEF SafeInv, Base

\* No route Caddy serves leads to containers that are gone, unless the app is
\* being removed, as long as at most one command failed and one process died.
THEOREM NoDeadRouteEver ==
  ASSUME OneAtATime, Mortal, Longer = {}
  PROVE  Spec => []NoDeadRoute
  <1>1. SafeInv => NoDeadRoute
    <2>1. SafeInv /\ Noticed => mount = "directory" \/ (mount = "file" /\ ~FaultUsed)
      BY CaddyAssumption DEF SafeInv, Base, Typed, TypeOK, Noticed, FaultUsed
    <2> QED
      BY <2>1 DEF SafeInv, AliveInv, BlindInv, Sighted, NoDeadRoute
  <1> QED
    BY InitSafe, NextSafe, <1>1, PTL DEF Spec


-----------------------------------------------------------------------------
(* The stash.  An app that is deployed has a block, and one that shows the *)
(* page has the route it replaced in the stash.                            *)

Deployed == "deployed apps" \in Habits

KeepOf(x, f, st, c, r) == x.pc # "idle" =>
    /\ x.pc = "release ok" => f.blk[x.app] = x.blk
    /\ x.app \notin r =>
        /\ x.op \notin {"remove", "redirect"}
        /\ x.op = "on" => c[x.app] # NoBlock
        /\ x.pc \in Rewriting => /\ c[x.app] # NoBlock => x.prev.blk[x.app] # NoBlock
                                 /\ x.prev.blk[x.app] = MaintBlock => st[x.app] # NoBlock
        /\ x.op = "on" /\ x.pc \in {"upload", "move", "reload", "undo", "undomove", "undoreload", "verify",
                                    "release ok"} => st[x.app] # NoBlock
        /\ x.pc = "rm stash" => f.blk[x.app] # MaintBlock
KeepInv ==
    /\ \A a \in Apps : a \notin removing => /\ cur[a] # NoBlock => file.blk[a] # NoBlock
                                            /\ file.blk[a] = MaintBlock => stash[a] # NoBlock
    /\ \A p \in Clients : KeepOf(cl[p], file, stash, cur, removing)

LEMMA InitKeep == Init => KeepInv
  <1> SUFFICES ASSUME Init PROVE KeepInv
    OBVIOUS
  <1>1. \A p \in Clients : cl[p].pc = "idle"
    BY IdleType DEF Init
  <1>2. file.blk = cur
    BY DEF Init
  <1>3. PICK deployed \in SUBSET Apps, n \in Nums :
            cur = [a \in Apps |-> IF a \in deployed THEN [app |-> a, num |-> n] ELSE NoBlock]
    BY DEF Init
  <1>4. \A a \in Apps : cur[a] # MaintBlock
    <2>1. \A a \in Apps : cur[a] \in Route \cup {NoBlock}
      BY <1>3 DEF Route
    <2> QED
      BY <2>1, BlocksType
  <1> QED
    BY <1>1, <1>2, <1>4 DEF KeepInv, KeepOf

LEMMA NextKeep ==
  OneAtATime /\ Deployed /\ Longer = {} /\ Base /\ KeepInv /\ [OpsNext]_vars => KeepInv'
  <1> SUFFICES ASSUME OneAtATime, Deployed, Longer = {}, Base, KeepInv, [OpsNext]_vars
               PROVE  KeepInv'
    OBVIOUS
  <1>b. Typed /\ LockInv /\ FileInv /\ PageInv /\ FreshInv /\ FormInv
    BY DEF Base
  <1>r. /\ \A a \in Apps : a \notin removing => /\ cur[a] # NoBlock => file.blk[a] # NoBlock
                                                /\ file.blk[a] = MaintBlock => stash[a] # NoBlock
        /\ \A q \in Clients : KeepOf(cl[q], file, stash, cur, removing)
    BY DEF KeepInv
  <1>1. ASSUME NEW p \in Clients, NEW op \in Ops, NEW a \in Apps, NEW b \in Block,
               Starts(p, op, a, b), Others(p), AsUsual
        PROVE  KeepInv'
    <2>1. removing \subseteq removing' /\ UNCHANGED <<file, stash, cur>>
      BY <1>1 DEF Starts
    <2>2. op = "on" => cur[a] # NoBlock \/ a \in removing
      BY <1>1 DEF Starts, AsUsual, Deployed, Busy, At
    <2>3. KeepOf(cl'[p], file, stash, cur, removing')
      BY <1>1, <2>1, <2>2 DEF Starts, KeepOf, Rewriting
    <2>4. ASSUME NEW q \in Clients, q # p PROVE KeepOf(cl'[q], file, stash, cur, removing')
      <3>1. cl'[q] = cl[q] /\ KeepOf(cl[q], file, stash, cur, removing)
        BY <1>1, <2>4, <1>r DEF Others
      <3> QED
        BY <3>1, <2>1 DEF KeepOf
    <2> QED
      BY <2>1, <2>3, <2>4, <1>r DEF KeepInv
  <1>2. ASSUME NEW p \in Clients, Forms(p), Busy(p), Others(p) PROVE KeepInv'
    <2> DEFINE x == cl[p]
               y == cl'[p]
               a == cl[p].app
    <2>t. /\ a \in Apps /\ x.pc # "idle" /\ stash \in [Apps -> Block] /\ x.op \in Ops
          /\ cur \in [Apps -> Route \cup {NoBlock}]
          /\ x.pc \in {"test", "cat", "rm stash"} => x.op = "off"
          /\ x.pc = "stash" => x.op = "on"
          /\ x.op = "set" => x.blk \in Route
      BY <1>2, <1>b, BlocksType DEF Busy, Typed, TypeOK, Running
    <2>g. FileOf(x, file, tmp) /\ KeepOf(x, file, stash, cur, removing) /\ PageOf(x, file, stash)
          /\ FreshOf(x, file, live, stash, gone, mount)
      BY <1>2, <1>b, <1>r DEF FileInv, FreshInv, PageInv
    <2>a. a \notin removing => /\ cur[a] # NoBlock => file.blk[a] # NoBlock
                               /\ file.blk[a] = MaintBlock => stash[a] # NoBlock
      BY <2>t, <1>r
    <2>n. NoBlock # MaintBlock /\ NoBlock \notin Route /\ MaintBlock \notin Route
      BY BlocksType
    \* the app itself
    <2> DEFINE Kept == a \notin removing' => /\ cur'[a] # NoBlock => file'.blk[a] # NoBlock
                                             /\ file'.blk[a] = MaintBlock => stash'[a] # NoBlock
    <2>1. Kept /\ KeepOf(y, file', stash', cur', removing')
      <3>1. CASE Waits(p) \/ Fetches(p) \/ Leaves(p) \/ Perishes(p) \/ GivesUp(p) \/ Fails(p)
        <4>1. UNCHANGED <<file, stash, cur, removing>>
          BY <3>1 DEF Waits, Fetches, Leaves, Perishes, GivesUp, Fails, Fail, Routes, world
        <4>2. y.pc = "idle" \/ (y.op = x.op /\ y.app = a /\ y.pc \in {"cat", "lock", "stale", "break", "read"})
          BY <3>1 DEF Waits, Fetches, Leaves, Perishes, GivesUp, Fails, Same, Goes
        <4>3. KeepOf(y, file, stash, cur, removing)
          BY <4>2, <2>g, <2>t DEF KeepOf, Rewriting
        <4> QED
          BY <4>1, <4>3, <2>a
      <3>2. CASE Reads(p)
        <4>1. /\ UNCHANGED <<file, stash, cur, removing>> /\ y.prev = file
              /\ y.op = x.op /\ y.app = a /\ y.pc \in {"stash", "upload"}
              /\ y.pc = "upload" /\ x.op = "on" => file.blk[a] = NoBlock
          BY <3>2 DEF Reads, Routes, world
        <4>2. KeepOf(y, file, stash, cur, removing)
          BY <4>1, <2>a, <2>g, <2>t DEF KeepOf
        <4> QED
          BY <4>1, <4>2, <2>a
      <3>3. CASE Skips(p)
        <4>1. /\ UNCHANGED <<file, stash, cur, removing>> /\ Same(p) /\ Goes(p, "read", "release ok")
              /\ file.blk[a] = x.blk
          BY <3>3 DEF Skips, Routes, world
        <4>2. x.op # "on"
          BY <4>1, <2>g DEF PageOf, Goes
        <4>3. KeepOf(y, file, stash, cur, removing)
          BY <4>1, <4>2, <2>g, <2>t DEF KeepOf, Same, Goes, Rewriting
        <4> QED
          BY <4>1, <4>3, <2>a
      <3>4. CASE Stashes(p)
        <4>1. /\ UNCHANGED <<file, cur, removing>> /\ Same(p) /\ Goes(p, "stash", "upload")
              /\ stash'[a] = file.blk[a] /\ x.op = "on" /\ x.prev = file
          BY <3>4, <2>t, <2>g DEF Stashes, world, Goes, FileOf
        <4>2. a \notin removing => stash'[a] # NoBlock
          BY <4>1, <2>a, <2>g, <2>t DEF KeepOf
        <4>3. KeepOf(y, file, stash', cur, removing)
          BY <4>1, <4>2, <2>g, <2>t DEF KeepOf, Same, Goes, Rewriting
        <4> QED
          BY <4>1, <4>2, <4>3, <2>a
      <3>5. CASE Uploads(p) \/ Reloads(p) \/ Refused(p) \/ Reverts(p) \/ Verifies(p) \/ Stumbles(p)
        <4>1. /\ UNCHANGED <<file, stash, cur, removing>> /\ Same(p)
              /\ y.pc \in {"move", "undomove", "verify", "undo", "release", "release ok"}
              /\ y.pc \in Rewriting => x.pc \in Rewriting /\ x.pc # "stash"
              /\ y.pc = "release ok" => x.pc = "verify"
          BY <3>5 DEF Uploads, Reloads, Refused, Reverts, Verifies, Stumbles, Routes, world, Goes, Rewriting
        <4>2. y.pc = "release ok" => file.blk[a] = x.blk
          BY <4>1, <2>g DEF FileOf, Rewrites, Sets
        <4>3. KeepOf(y, file, stash, cur, removing)
          BY <4>1, <4>2, <2>g, <2>t DEF KeepOf, Same, Rewriting
        <4> QED
          BY <4>1, <4>3, <2>a
      <3>6. CASE Writes(p)
        <4>1. /\ UNCHANGED <<stash, cur, removing>> /\ Same(p) /\ Goes(p, "move", "reload")
              /\ file'.blk[a] = x.blk
          BY <3>6, <2>g DEF Writes, world, Goes, FileOf, Rewrites, Sets
        <4>2. a \notin removing => x.blk # NoBlock /\ (x.blk = MaintBlock => stash[a] # NoBlock)
          BY <4>1, <2>g, <2>t, <2>n DEF KeepOf, PageOf, Goes, Ops
        <4>3. KeepOf(y, file', stash, cur, removing)
          BY <4>1, <2>g, <2>t DEF KeepOf, Same, Goes, Rewriting
        <4> QED
          BY <4>1, <4>2, <4>3
      <3>7. CASE Restores(p)
        <4>1. /\ UNCHANGED <<stash, cur, removing>> /\ Same(p) /\ Goes(p, "undomove", "undoreload")
              /\ file' = x.prev
          BY <3>7 DEF Restores, world
        <4>2. KeepOf(y, file', stash, cur, removing)
          BY <4>1, <2>g, <2>t DEF KeepOf, Same, Goes, Rewriting
        <4>3. Kept
          BY <4>1, <2>g, <2>t DEF KeepOf, Goes, Rewriting
        <4> QED
          BY <4>1, <4>2, <4>3
      <3>8. CASE Ends(p)
        <4>1. file' = file /\ file.blk[a] = x.blk /\ x.pc = "release ok" /\ Succeed(p)
              /\ IF x.op = "off" THEN y.pc = "rm stash" /\ Same(p) ELSE y.pc = "idle"
          BY <3>8, <2>g, <2>t DEF Ends, KeepOf
        <4>2. CASE x.op = "set"
          BY <4>1, <4>2, <2>t, <2>n DEF KeepOf
        <4>3. CASE x.op \in {"remove", "redirect"}
          <5>1. removing' = removing /\ y.pc = "idle"
            BY <4>1, <4>3 DEF Succeed
          <5> QED
            BY <4>3, <5>1, <2>g, <2>t DEF KeepOf
        <4>4. CASE x.op = "on"
          <5>1. UNCHANGED <<cur, removing, stash>> /\ y.pc = "idle"
            BY <4>1, <4>4 DEF Succeed, world
          <5> QED
            BY <4>1, <5>1, <2>a DEF KeepOf
        <4>5. CASE x.op = "off"
          <5>1. UNCHANGED <<cur, removing, stash>> /\ y.pc = "rm stash" /\ Same(p)
            BY <4>1, <4>5 DEF Succeed, world
          <5>2. x.blk \in Route
            BY <4>1, <4>5, <2>g DEF PageOf
          <5>3. KeepOf(y, file, stash, cur, removing)
            BY <4>1, <4>5, <5>1, <5>2, <2>n DEF KeepOf, Same, Rewriting
          <5> QED
            BY <4>1, <5>1, <5>3, <2>a
        <4> QED
          BY <2>t, <4>2, <4>3, <4>4, <4>5 DEF Ops
      <3>9. CASE Forgets(p)
        <4>1. UNCHANGED <<file, cur, removing>> /\ Goes(p, "rm stash", "idle")
          BY <3>9 DEF Forgets, world
        <4> QED
          BY <4>1, <2>a, <2>g, <2>t DEF KeepOf, Goes
      <3> QED
        BY <1>2, <3>1, <3>2, <3>3, <3>4, <3>5, <3>6, <3>7, <3>8, <3>9 DEF Forms
    <2>2. ASSUME NEW b \in Apps
          PROVE  b \notin removing' => /\ cur'[b] # NoBlock => file'.blk[b] # NoBlock
                                       /\ file'.blk[b] = MaintBlock => stash'[b] # NoBlock
      <3>1. CASE b = a
        BY <2>1, <3>1
      <3>2. CASE b # a
        <4>1. Spared(b)
          BY <1>2, <1>b, <3>2, Elsewhere
        <4> QED
          BY <4>1, <1>r DEF Spared
      <3> QED
        BY <3>1, <3>2
    <2>3. ASSUME NEW q \in Clients, q # p PROVE KeepOf(cl'[q], file', stash', cur', removing')
      <3>1. cl'[q] = cl[q] /\ KeepOf(cl[q], file, stash, cur, removing)
        BY <1>2, <2>3, <1>r DEF Others
      <3>2. cl[q].pc # "idle" => Spared(cl[q].app)
        BY <1>2, <1>b, <2>3, Apart, Elsewhere DEF PageInv, Busy
      <3> QED
        BY <3>1, <3>2 DEF KeepOf, Spared
    <2> QED
      BY <2>1, <2>2, <2>3 DEF KeepInv
  <1>3. CASE UNCHANGED <<file, stash, world, cl>>
    BY <1>3, <1>r DEF KeepInv, world
  <1> QED
    BY <1>1, <1>2, <1>3, <1>b, AllForms DEF Boots, Routes

\* Nothing that Caddy rejects is stashed, as long as no command failed.
StashInv == Sighted /\ ~FaultUsed => \A a \in Apps : stash[a].num \notin bad

LEMMA InitStash == Init => StashInv
  BY CaddyAssumption DEF Init, StashInv, NoBlock

LEMMA NextStash ==
  OneAtATime /\ Longer = {} /\ SafeInv /\ StashInv /\ [OpsNext]_vars => StashInv'
  <1> SUFFICES ASSUME OneAtATime, Longer = {}, SafeInv, StashInv, [OpsNext]_vars, Sighted', ~FaultUsed'
               PROVE  StashInv'
    BY DEF StashInv
  <1>b. Typed /\ Within /\ LockInv /\ FileInv /\ PageInv /\ SoundInv
    BY DEF SafeInv, Base
  <1>s. UNCHANGED setup /\ mount = "directory" /\ bad' = bad
    BY <1>b, AllForms DEF Sighted, setup
  <1>f. Sighted /\ ~FaultUsed
    BY <1>b, <1>s, Mishap DEF Sighted
  <1>r. (\A a \in Apps : stash[a].num \notin bad) /\ NoBlock.num \notin bad /\ stash \in [Apps -> Block]
    BY <1>f, <1>b, CaddyAssumption DEF StashInv, NoBlock, Typed, TypeOK
  <1>1. CASE UNCHANGED stash
    BY <1>1, <1>r, <1>s DEF StashInv
  <1>2. ASSUME NEW p \in Clients, Forms(p), Busy(p), Others(p) PROVE StashInv'
    <2>1. cl[p].op \in Ops /\ cl[p].app \in Apps
      BY <1>2, <1>b DEF Busy, Typed, Running
    <2>2. CASE Stashes(p)
      <3>1. LoadsBut(file, bad)
        BY <2>2, <1>f, <1>b DEF SoundInv, SoundOf, Stashes, Goes
      <3>2. \A a \in Apps : stash'[a] = stash[a] \/ stash'[a] = file.blk[a]
        BY <2>2, <2>1, <1>r DEF Stashes
      <3> QED
        BY <3>1, <3>2, <1>r, <1>s DEF StashInv, LoadsBut
    <2>3. CASE ~Stashes(p)
      <3>1. UNCHANGED stash \/ stash' = [stash EXCEPT ![cl[p].app] = NoBlock]
        <4>1. Succeed(p) => UNCHANGED stash \/ stash' = [stash EXCEPT ![cl[p].app] = NoBlock]
          BY <2>1 DEF Succeed, Ops
        <4> QED
          BY <1>2, <2>3, <4>1 DEF Forms, Waits, Fetches, Leaves, Perishes, GivesUp, Reads, Skips, Uploads, Writes,
             Restores, Stumbles, Reloads, Refused, Reverts, Verifies, Ends, Fails, Forgets, Routes
      <3> QED
        BY <3>1, <1>r, <1>s DEF StashInv
    <2> QED
      BY <2>2, <2>3
  <1> QED
    BY <1>1, <1>2, <1>b, AllForms DEF Starts, Boots, Routes

\* As long as the file shows the maintenance page, the route it replaced is safe in
\* the stash, provided that at most one command failed and one process died.
THEOREM StashAlwaysKeepsRoute ==
  ASSUME OneAtATime, Mortal, Deployed, Longer = {}
  PROVE  Spec => []StashKeepsRoute
  <1> DEFINE Inv == SafeInv /\ KeepInv /\ StashInv
  <1>1. Init => Inv
    BY InitSafe, InitKeep, InitStash
  <1>2. Inv /\ [OpsNext]_vars => Inv'
    BY NextSafe, NextKeep, NextStash DEF SafeInv
  <1>3. Inv => StashKeepsRoute
    <2> SUFFICES ASSUME Inv, mount = "directory", RolledBack, FewMishaps, NEW a \in Apps, a \notin removing,
                        file.blk[a] = MaintBlock
                 PROVE  stash[a] \in Route \ gone
      BY DEF StashKeepsRoute
    <2>1. stash[a] \in Route
      BY DEF KeepInv, SafeInv, Base, PageInv
    <2>2. ~Sunk(a, stash[a], gone, removing, bad)
      BY DEF SafeInv, SunkInv, Sighted
    <2>3. stash[a].num \notin bad
      <3>1. CASE bad = {}
        BY <3>1
      <3>2. CASE Clean
        <4>1. ~FaultUsed
          BY <3>2, CaddyAssumption DEF Clean, FaultUsed
        <4> QED
          BY <4>1 DEF StashInv, Sighted
      <3> QED
        BY <3>1, <3>2 DEF RolledBack
    <2> QED
      BY <2>1, <2>2, <2>3 DEF Sunk
  <1> QED
    BY <1>1, <1>2, <1>3, PTL DEF Spec


-----------------------------------------------------------------------------
(* What Caddy serves.  As long as no process died, and no command failed   *)
(* where one may have left a block that Caddy rejects, Caddy runs the file *)
(* but for the block of an app whose command is past the lock; and the file*)
(* has the last deploy of each app, or the page.                           *)

Calm == "calm boots" \in Habits
Good == Sighted /\ NoCrash /\ (bad = {} \/ ~FaultUsed)

KnownOf(x, f, v, b, faulty) ==
    /\ x.pc \in {"read", "stash", "upload", "move", "verify", "release ok", "release"} => LoadsBut(f, b) /\ v = f
    /\ x.pc \in {"reload", "undo", "undomove", "undoreload"} =>
          LoadsBut(x.prev, b) /\ \A c \in Apps : c # x.app => v.blk[c] = f.blk[c]
    /\ x.pc \in {"undo", "undomove", "undoreload"} /\ b = {} => faulty
KnownInv == Good =>
    /\ (\A p \in Clients : AtRest(cl[p])) => LoadsBut(file, bad) /\ live = file
    /\ \A p \in Clients : KnownOf(cl[p], file, live, bad, FaultUsed)

LEMMA InitKnown == Init => KnownInv
  <1> SUFFICES ASSUME Init, mount = "directory" PROVE KnownInv
    BY DEF KnownInv, Good, Sighted
  <1>1. \A p \in Clients : cl[p].pc = "idle"
    BY IdleType DEF Init
  <1>2. (\A a \in Apps : file.blk[a] = NoBlock) /\ live = file
    BY DEF Init
  <1>3. NoBlock.num \notin bad
    BY CaddyAssumption DEF Init, NoBlock
  <1> QED
    BY <1>1, <1>2, <1>3 DEF KnownInv, KnownOf, LoadsBut

\* A step from a good state to a good one.
LEMMA GoodStep ==
  ASSUME Longer = {}, Typed, Within, FileInv, [OpsNext]_vars, Good'
  PROVE  /\ Good /\ UNCHANGED setup /\ mount = "directory" /\ bad' = bad
         /\ ~Spend("crashes") /\ (bad # {} => ~Fault) /\ (Fault => ~FaultUsed) /\ (Fault \/ FaultUsed => FaultUsed')
  <1>1. UNCHANGED setup /\ mount = "directory" /\ bad' = bad
    BY AllForms DEF Good, Sighted, setup
  <1>2. Sighted /\ NoCrash /\ ~Spend("crashes") /\ (Fault => ~FaultUsed) /\ (Fault \/ FaultUsed => FaultUsed')
    BY <1>1, Mishap DEF Good, Sighted
  <1> QED
    BY <1>1, <1>2 DEF Good

LEMMA NextKnown ==
  OneAtATime /\ Calm /\ Longer = {} /\ SafeInv /\ KnownInv /\ [OpsNext]_vars => KnownInv'
  <1> SUFFICES ASSUME OneAtATime, Calm, Longer = {}, SafeInv, KnownInv, [OpsNext]_vars, Good'
               PROVE  KnownInv'
    BY DEF KnownInv
  <1>b. Typed /\ Within /\ LockInv /\ FileInv /\ PageInv /\ ConfInv
    BY DEF SafeInv, Base
  <1>f. /\ Good /\ UNCHANGED setup /\ mount = "directory" /\ bad' = bad
        /\ ~Spend("crashes") /\ (bad # {} => ~Fault) /\ (Fault => ~FaultUsed) /\ (Fault \/ FaultUsed => FaultUsed')
    BY <1>b, GoodStep
  <1>r. /\ (\A q \in Clients : AtRest(cl[q])) => LoadsBut(file, bad) /\ live = file
        /\ \A q \in Clients : KnownOf(cl[q], file, live, bad, FaultUsed)
    BY <1>f DEF KnownInv
  <1>n. bad = {} => LoadsBut(file, bad)
    BY <1>b, <1>f, SoundLoads DEF ConfInv, Good
  <1>o. ASSUME NEW q \in Clients, cl'[q] = cl[q], UNCHANGED <<file, live>>
        PROVE  KnownOf(cl'[q], file', live', bad, FaultUsed')
    <2>1. KnownOf(cl[q], file, live, bad, FaultUsed)
      BY <1>r
    <2> QED
      BY <2>1, <1>o, <1>f DEF KnownOf
  <1>1. ASSUME NEW p \in Clients, NEW op \in Ops, NEW a \in Apps, NEW b \in Block,
               Starts(p, op, a, b), Others(p)
        PROVE  KnownInv'
    <2>1. AtRest(cl[p]) /\ KnownOf(cl'[p], file', live', bad, FaultUsed') /\ UNCHANGED <<file, live>>
      BY <1>1 DEF Starts, Busy, AtRest, KnownOf, Crit
    <2>2. \A q \in Clients : q # p => cl'[q] = cl[q] /\ KnownOf(cl'[q], file', live', bad, FaultUsed')
      BY <1>1, <1>o, <2>1 DEF Others
    <2>3. (\A q \in Clients : AtRest(cl'[q])) => \A q \in Clients : AtRest(cl[q])
      BY <2>1, <2>2
    <2> QED
      BY <1>r, <1>f, <2>1, <2>2, <2>3 DEF KnownInv
  <1>2. ASSUME NEW p \in Clients, Forms(p), Busy(p), Others(p) PROVE KnownInv'
    <2>f. FileOf(cl[p], file, tmp) /\ KnownOf(cl[p], file, live, bad, FaultUsed)
      BY <1>b, <1>r DEF FileInv
    <2>a. cl[p].pc \in Crit \/ cl'[p].pc \in Crit =>
              \A q \in Clients : q # p => AtRest(cl[q]) /\ AtRest(cl'[q])
      BY <1>2, <1>b, AloneStep DEF AtRest
    <2>u. cl[p].pc \notin Crit => UNCHANGED <<file, live>>
      BY <1>2, StillOutside
    <2>c. ~Perishes(p)
      BY <1>f DEF Perishes
    \* nothing fails while a refused file is rolled back
    <2>s. Fault => cl[p].pc \notin {"undo", "undomove", "undoreload"}
      BY <2>f, <1>f DEF KnownOf
    <2>1. KnownOf(cl'[p], file', live', bad, FaultUsed')
      <3>1. CASE Waits(p) \/ Fetches(p) \/ Leaves(p) \/ GivesUp(p) \/ Forgets(p) \/ Fails(p) \/ Ends(p)
        <4>1. cl'[p].pc = "read" => cl[p].pc \notin Crit /\ cl'[p].pc \in Crit
          BY <3>1 DEF Waits, Fetches, Leaves, GivesUp, Ends, Fails, Forgets, Goes, Crit
        <4>2. cl'[p].pc = "read" => LoadsBut(file, bad) /\ live = file /\ UNCHANGED <<file, live>>
          BY <4>1, <2>a, <2>u, <1>r DEF AtRest
        <4>3. cl'[p].pc \notin {"stash", "upload", "move", "verify", "release ok", "release", "reload", "undo",
                                "undomove", "undoreload"}
          BY <3>1 DEF Waits, Fetches, Leaves, GivesUp, Ends, Fails, Forgets, Goes
        <4> QED
          BY <4>2, <4>3 DEF KnownOf
      <3>2. CASE Reads(p) \/ Skips(p) \/ Stashes(p) \/ Uploads(p) \/ Verifies(p)
        BY <3>2, <2>f, <1>f DEF Reads, Skips, Stashes, Uploads, Verifies, KnownOf, Routes, Goes, Same
      <3>3. CASE Refused(p)
        <4>1. bad = {} => Fault
          BY <3>3, <1>n DEF Refused
        <4> QED
          BY <3>3, <4>1, <2>f, <1>f DEF Refused, KnownOf, Routes, Goes, Same
      <3>4. CASE Writes(p)
        <4>1. /\ live' = live /\ file' = cl[p].new /\ cl[p].pc = "move" /\ cl'[p].pc = "reload"
              /\ cl'[p].app = cl[p].app /\ cl'[p].prev = cl[p].prev /\ file = cl[p].prev
              /\ OwnOnly(cl[p].new, cl[p].prev, cl[p].app)
          BY <3>4, <2>f DEF Writes, Goes, Same, FileOf, Rewrites
        <4> QED
          BY <4>1, <2>f DEF KnownOf, OwnOnly
      <3>5. CASE Restores(p)
        <4>1. /\ live' = live /\ file' = cl[p].prev /\ cl[p].pc = "undomove" /\ cl'[p].pc = "undoreload"
              /\ cl'[p].app = cl[p].app /\ cl'[p].prev = cl[p].prev /\ file = cl[p].new
              /\ OwnOnly(cl[p].new, cl[p].prev, cl[p].app)
          BY <3>5, <2>f DEF Restores, Goes, Same, FileOf, Rewrites
        <4> QED
          BY <4>1, <2>f, <1>f DEF KnownOf, OwnOnly
      <3>6. CASE Reloads(p)
        BY <3>6, <1>f DEF Reloads, KnownOf, Goes
      <3>7. CASE Reverts(p)
        <4>1. /\ cl[p].pc = "undoreload" /\ cl'[p].pc = "release" /\ file' = file /\ LoadsBut(file, bad)
          BY <3>7, <2>f DEF Reverts, Goes, KnownOf, FileOf
        <4>2. live' = file
          BY <3>7, <4>1, <2>s, <1>f DEF Reverts
        <4> QED
          BY <4>1, <4>2 DEF KnownOf
      <3>8. CASE Stumbles(p)
        BY <3>8, <2>f, <2>s DEF Stumbles, KnownOf, Routes
      <3> QED
        BY <1>2, <2>c, <3>1, <3>2, <3>3, <3>4, <3>5, <3>6, <3>7, <3>8 DEF Forms
    <2>2. \A q \in Clients : q # p => KnownOf(cl'[q], file', live', bad, FaultUsed')
      <3>1. CASE cl[p].pc \in Crit \/ cl'[p].pc \in Crit
        BY <3>1, <2>a DEF AtRest, KnownOf, Crit
      <3>2. CASE cl[p].pc \notin Crit
        BY <3>2, <2>u, <1>2, <1>o DEF Others
      <3> QED
        BY <3>1, <3>2
    <2>3. ASSUME \A q \in Clients : AtRest(cl'[q]) PROVE LoadsBut(file', bad) /\ live' = file'
      <3>1. CASE cl[p].pc \notin Crit
        BY <3>1, <2>3, <2>u, <1>2, <1>r DEF AtRest, Others
      <3>2. CASE Ends(p) \/ Fails(p)
        BY <3>2, <2>f DEF Ends, Fails, KnownOf, Goes
      <3>3. CASE cl[p].pc \in Crit /\ ~Ends(p) /\ ~Fails(p)
        <4>1. cl'[p].pc \in Crit
          BY <1>2, <2>c, <3>3 DEF Forms, Waits, Fetches, Leaves, GivesUp, Reads, Skips, Stashes, Uploads, Writes,
             Restores, Stumbles, Reloads, Refused, Reverts, Verifies, Forgets, Goes, Crit
        <4> QED
          BY <4>1, <2>3 DEF AtRest
      <3> QED
        BY <3>1, <3>2, <3>3
    <2> QED
      BY <2>1, <2>2, <2>3, <1>f DEF KnownInv
  <1>3. CASE Boots /\ AsUsual
    <2>1. LoadsBut(file, bad) /\ live' = file
      <3> SUFFICES ASSUME ~LoadsBut(file, bad), Boot, Rejects(file) PROVE FALSE
        BY <1>3 DEF Boots
      <3>1. AllIdle \/ bad = {}
        BY <1>3 DEF AsUsual, Calm
      <3>2. AllIdle => \A q \in Clients : AtRest(cl[q])
        BY DEF AllIdle, At, AtRest, Crit
      <3> QED
        BY <3>1, <3>2, <1>r, <1>n
    <2>2. \A q \in Clients : KnownOf(cl[q], file, live', bad, FaultUsed)
      BY <1>r, <2>1 DEF KnownOf
    <2> QED
      BY <1>3, <1>f, <2>1, <2>2 DEF Boots, KnownInv, FaultUsed
  <1>4. CASE UNCHANGED <<Routes, cl, budget>>
    BY <1>4, <1>o, <1>r, <1>f DEF Routes, KnownInv
  <1> QED
    BY <1>1, <1>2, <1>3, <1>4, <1>b, AllForms

\* The blocks an app may have: its last deploy, or the page; but for a deploy that
\* has written its own and has neither succeeded nor rolled back.
CurOf(x, c, r) == x.pc # "idle" /\ x.app \notin r =>
    /\ x.op \in {"on", "off"} /\ x.pc \notin {"test", "cat"} => x.blk \in {c[x.app], MaintBlock}
    /\ x.pc \in Rewriting => x.prev.blk[x.app] \in {c[x.app], MaintBlock}
CurInv == Good =>
    /\ \A a \in Apps : a \notin removing =>
        /\ stash[a] \in {NoBlock, cur[a]}
        /\ \/ file.blk[a] \in {cur[a], MaintBlock}
           \/ \E p \in Clients : cl[p].app = a /\ cl[p].op = "set" /\ cl[p].pc \in Turning
    /\ \A p \in Clients : CurOf(cl[p], cur, removing)

LEMMA InitCur == Init => CurInv
  <1> SUFFICES ASSUME Init, mount = "directory" PROVE CurInv
    BY DEF CurInv, Good, Sighted
  <1>1. \A p \in Clients : cl[p].pc = "idle"
    BY IdleType DEF Init
  <1>2. \A a \in Apps : file.blk[a] = cur[a] /\ stash[a] = NoBlock
    BY DEF Init
  <1> QED
    BY <1>1, <1>2 DEF CurInv, CurOf

LEMMA NextCur ==
  OneAtATime /\ Longer = {} /\ SafeInv /\ KeepInv /\ KnownInv /\ CurInv /\ [OpsNext]_vars => CurInv'
  <1> SUFFICES ASSUME OneAtATime, Longer = {}, SafeInv, KeepInv, KnownInv, CurInv, [OpsNext]_vars, Good'
               PROVE  CurInv'
    BY DEF CurInv
  <1>b. Typed /\ Within /\ LockInv /\ FileInv /\ PageInv /\ FreshInv
    BY DEF SafeInv, Base
  <1>f. /\ Good /\ UNCHANGED setup /\ mount = "directory" /\ bad' = bad
        /\ ~Spend("crashes") /\ (bad # {} => ~Fault) /\ (Fault => ~FaultUsed)
    BY <1>b, GoodStep
  <1>r. /\ \A a \in Apps : a \notin removing =>
            /\ stash[a] \in {NoBlock, cur[a]}
            /\ \/ file.blk[a] \in {cur[a], MaintBlock}
               \/ \E q \in Clients : cl[q].app = a /\ cl[q].op = "set" /\ cl[q].pc \in Turning
        /\ \A q \in Clients : CurOf(cl[q], cur, removing) /\ KeepOf(cl[q], file, stash, cur, removing)
                              /\ KnownOf(cl[q], file, live, bad, FaultUsed)
    BY <1>f DEF CurInv, KeepInv, KnownInv
  <1>1. ASSUME NEW p \in Clients, NEW op \in Ops, NEW a \in Apps, NEW b \in Block,
               Starts(p, op, a, b), Others(p)
        PROVE  CurInv'
    <2>1. removing \subseteq removing' /\ UNCHANGED <<file, stash, cur>> /\ cl[p].pc = "idle"
      BY <1>1 DEF Starts, Busy
    <2>2. CurOf(cl'[p], cur, removing')
      BY <1>1 DEF Starts, CurOf, Rewriting
    <2>3. ASSUME NEW q \in Clients, q # p PROVE cl'[q] = cl[q] /\ CurOf(cl'[q], cur, removing')
      <3>1. cl'[q] = cl[q] /\ CurOf(cl[q], cur, removing)
        BY <1>1, <2>3, <1>r DEF Others
      <3> QED
        BY <3>1, <2>1 DEF CurOf
    <2>4. ASSUME NEW c \in Apps, NEW q \in Clients, cl[q].app = c, cl[q].op = "set", cl[q].pc \in Turning
          PROVE  \E k \in Clients : cl'[k].app = c /\ cl'[k].op = "set" /\ cl'[k].pc \in Turning
      BY <2>1, <2>3, <2>4 DEF Turning
    <2> QED
      BY <2>1, <2>2, <2>3, <2>4, <1>r DEF CurInv
  <1>2. ASSUME NEW p \in Clients, Forms(p), Busy(p), Others(p) PROVE CurInv'
    <2> DEFINE x == cl[p]
               y == cl'[p]
               a == cl[p].app
    <2>t. /\ a \in Apps /\ x.pc # "idle" /\ stash \in [Apps -> Block] /\ x.op \in Ops
          /\ cur \in [Apps -> Route \cup {NoBlock}]
          /\ x.pc \in {"test", "cat", "rm stash"} => x.op = "off"
          /\ x.pc = "stash" => x.op = "on"
      BY <1>2, <1>b DEF Busy, Typed, TypeOK, Running
    <2>g. /\ FileOf(x, file, tmp) /\ PageOf(x, file, stash) /\ FreshOf(x, file, live, stash, gone, mount)
          /\ KeepOf(x, file, stash, cur, removing) /\ CurOf(x, cur, removing)
          /\ KnownOf(x, file, live, bad, FaultUsed)
      BY <1>2, <1>b, <1>r DEF FileInv, FreshInv, PageInv
    <2>c. ~Perishes(p)
      BY <1>f DEF Perishes
    <2>s. Fault => x.pc \notin {"undo", "undomove", "undoreload"}
      BY <2>g, <1>f DEF KnownOf
    \* the block of this app, before the step
    <2>n. a \notin removing => \/ file.blk[a] \in {cur[a], MaintBlock}
                               \/ x.op = "set" /\ x.pc \in Turning
      <3>1. ASSUME NEW q \in Clients, cl[q].app = a, cl[q].pc \in Turning PROVE q = p
        BY <1>2, <1>b, <3>1 DEF PageInv, OnePerApp, Busy, Turning
      <3> QED
        BY <3>1, <2>t, <1>r
    <2>a. a \notin removing => stash[a] \in {NoBlock, cur[a]}
      BY <2>t, <1>r
    <2> DEFINE Now == a \notin removing' =>
                   /\ stash'[a] \in {NoBlock, cur'[a]}
                   /\ \/ file'.blk[a] \in {cur'[a], MaintBlock}
                      \/ y.app = a /\ y.op = "set" /\ y.pc \in Turning
    <2>1. Now /\ CurOf(y, cur', removing')
      <3>1. CASE Waits(p) \/ Fetches(p) \/ Leaves(p) \/ GivesUp(p) \/ Fails(p)
        <4>1. UNCHANGED <<file, stash, cur, removing>> /\ x.pc \notin Turning /\ x.pc \notin Rewriting
          BY <3>1 DEF Waits, Fetches, Leaves, GivesUp, Fails, Fail, Routes, world, Goes, Turning, Rewriting
        <4>2. \/ y.pc = "idle"
              \/ /\ y.op = x.op /\ y.app = a /\ y.pc \in {"cat", "lock", "stale", "break", "read"}
                 /\ \/ y.blk = x.blk /\ (y.pc = "cat" \/ x.pc \notin {"test", "cat"})
                    \/ y.blk = stash[a] /\ x.pc = "cat"
          BY <3>1 DEF Waits, Fetches, Leaves, GivesUp, Fails, Same, Goes
        <4>3. CurOf(y, cur, removing)
          <5>1. x.pc = "cat" /\ a \notin removing => stash[a] = cur[a]
            BY <2>a, <2>g, <2>t DEF PageOf
          <5> QED
            BY <4>2, <5>1, <2>g, <2>t DEF CurOf, Rewriting
        <4> QED
          BY <4>1, <4>3, <2>a, <2>n
      <3>2. CASE Reads(p)
        <4>1. /\ UNCHANGED <<file, stash, cur, removing>> /\ y.prev = file /\ x.pc = "read"
              /\ y.op = x.op /\ y.app = a /\ y.blk = x.blk /\ y.pc \in {"stash", "upload"}
          BY <3>2 DEF Reads, Routes, world
        <4>2. a \notin removing => file.blk[a] \in {cur[a], MaintBlock}
          BY <4>1, <2>n DEF Turning
        <4>3. CurOf(y, cur, removing)
          BY <4>1, <4>2, <2>g, <2>t DEF CurOf
        <4> QED
          BY <4>1, <4>2, <4>3, <2>a
      <3>3. CASE Skips(p)
        <4>1. UNCHANGED <<file, stash, cur, removing>> /\ Same(p) /\ Goes(p, "read", "release ok")
          BY <3>3 DEF Skips, Routes, world
        <4>2. CurOf(y, cur, removing)
          BY <4>1, <2>g, <2>t DEF CurOf, Same, Goes, Rewriting
        <4> QED
          BY <4>1, <4>2, <2>a, <2>n DEF Goes, Turning
      <3>4. CASE Stashes(p)
        <4>1. /\ UNCHANGED <<file, cur, removing>> /\ Same(p) /\ Goes(p, "stash", "upload")
              /\ stash'[a] = file.blk[a] /\ x.op = "on"
          BY <3>4, <2>t, <2>g DEF Stashes, world, Goes
        <4>2. a \notin removing => file.blk[a] = cur[a]
          BY <4>1, <2>n, <2>g DEF PageOf, Goes, Turning
        <4>3. CurOf(y, cur, removing)
          BY <4>1, <2>g, <2>t DEF CurOf, Same, Goes, Rewriting
        <4> QED
          BY <4>1, <4>2, <4>3
      <3>5. CASE Uploads(p) \/ Reloads(p) \/ Refused(p) \/ Reverts(p) \/ Verifies(p) \/ Stumbles(p)
        <4>1. /\ UNCHANGED <<file, stash, cur, removing>> /\ Same(p)
              /\ y.pc \notin {"idle", "test", "cat"} /\ x.pc \notin {"test", "cat"}
              /\ y.pc \in Rewriting => x.pc \in Rewriting
              /\ x.pc \in Turning => y.pc \in Turning
          BY <3>5, <2>s, <1>f DEF Uploads, Reloads, Refused, Reverts, Verifies, Stumbles, Routes, world, Goes,
             Rewriting, Turning
        <4>2. CurOf(y, cur, removing)
          BY <4>1, <2>g, <2>t DEF CurOf, Same
        <4> QED
          BY <4>1, <4>2, <2>a, <2>n DEF Same
      <3>6. CASE Writes(p)
        <4>1. /\ UNCHANGED <<stash, cur, removing>> /\ Same(p) /\ Goes(p, "move", "reload")
              /\ file'.blk[a] = x.blk
          BY <3>6, <2>g DEF Writes, world, Goes, FileOf, Rewrites, Sets
        <4>2. a \notin removing => x.op = "set" \/ x.blk \in {cur[a], MaintBlock}
          BY <4>1, <2>g, <2>t DEF KeepOf, CurOf, Goes, Ops
        <4>3. CurOf(y, cur, removing)
          BY <4>1, <2>g, <2>t DEF CurOf, Same, Goes, Rewriting
        <4> QED
          BY <4>1, <4>2, <4>3, <2>a DEF Same, Goes, Turning
      <3>7. CASE Restores(p)
        <4>1. /\ UNCHANGED <<stash, cur, removing>> /\ Same(p) /\ Goes(p, "undomove", "undoreload")
              /\ file' = x.prev
          BY <3>7 DEF Restores, world
        <4>2. a \notin removing => x.prev.blk[a] \in {cur[a], MaintBlock}
          BY <4>1, <2>g, <2>t DEF CurOf, Goes, Rewriting
        <4>3. CurOf(y, cur, removing)
          BY <4>1, <2>g, <2>t DEF CurOf, Same, Goes, Rewriting
        <4> QED
          BY <4>1, <4>2, <4>3, <2>a
      <3>8. CASE Ends(p)
        <4>1. file' = file /\ file.blk[a] = x.blk /\ x.pc = "release ok" /\ Succeed(p)
              /\ IF x.op = "off" THEN y.pc = "rm stash" /\ Same(p) ELSE y.pc = "idle"
          BY <3>8, <2>g, <2>t DEF Ends, KeepOf
        <4>2. CASE x.op = "set"
          <5>1. /\ cur' = [cur EXCEPT ![a] = x.blk] /\ UNCHANGED stash /\ stash[a] = NoBlock /\ y.pc = "idle"
            BY <4>1, <4>2, <2>g, <2>t DEF Succeed, FreshOf
          <5>2. cur'[a] = x.blk
            BY <5>1, <2>t
          <5> QED
            BY <4>1, <5>1, <5>2 DEF CurOf
        <4>3. CASE x.op \in {"remove", "redirect"}
          <5>1. removing' = removing /\ y.pc = "idle"
            BY <4>1, <4>3 DEF Succeed
          <5> QED
            BY <4>3, <5>1, <2>g, <2>t DEF KeepOf, CurOf
        <4>4. CASE x.op \in {"on", "off"}
          <5>1. UNCHANGED <<cur, removing, stash>>
            BY <4>1, <4>4 DEF Succeed, world
          <5>2. a \notin removing => x.blk \in {cur[a], MaintBlock}
            BY <4>1, <4>4, <2>g, <2>t DEF CurOf
          <5>3. CurOf(y, cur, removing)
            BY <4>1, <4>4, <5>2 DEF CurOf, Same, Rewriting
          <5> QED
            BY <4>1, <5>1, <5>2, <5>3, <2>a
        <4> QED
          BY <2>t, <4>2, <4>3, <4>4 DEF Ops
      <3>9. CASE Forgets(p)
        <4>1. UNCHANGED <<file, cur, removing>> /\ Goes(p, "rm stash", "idle") /\ stash'[a] = NoBlock
          BY <3>9, <2>t DEF Forgets, world
        <4> QED
          BY <4>1, <2>n DEF CurOf, Goes, Turning
      <3> QED
        BY <1>2, <2>c, <3>1, <3>2, <3>3, <3>4, <3>5, <3>6, <3>7, <3>8, <3>9 DEF Forms
    <2>2. ASSUME NEW b \in Apps, b \notin removing'
          PROVE  /\ stash'[b] \in {NoBlock, cur'[b]}
                 /\ \/ file'.blk[b] \in {cur'[b], MaintBlock}
                    \/ \E q \in Clients : cl'[q].app = b /\ cl'[q].op = "set" /\ cl'[q].pc \in Turning
      <3>1. CASE b = a
        BY <2>1, <2>2, <3>1
      <3>2. CASE b # a
        <4>1. Spared(b)
          BY <1>2, <1>b, <3>2, Elsewhere
        <4>2. \A q \in Clients : cl[q].app = b => cl'[q] = cl[q]
          BY <1>2, <3>2 DEF Others
        <4> QED
          BY <2>2, <4>1, <4>2, <1>r DEF Spared
      <3> QED
        BY <3>1, <3>2
    <2>3. ASSUME NEW q \in Clients, q # p PROVE CurOf(cl'[q], cur', removing')
      <3>1. cl'[q] = cl[q] /\ CurOf(cl[q], cur, removing)
        BY <1>2, <2>3, <1>r DEF Others
      <3>2. cl[q].pc # "idle" => Spared(cl[q].app)
        BY <1>2, <1>b, <2>3, Apart, Elsewhere DEF PageInv, Busy
      <3> QED
        BY <3>1, <3>2 DEF CurOf, Spared
    <2> QED
      BY <2>1, <2>2, <2>3 DEF CurInv
  <1>3. CASE UNCHANGED <<file, stash, world, cl>>
    BY <1>3, <1>r DEF CurInv, world
  <1> QED
    BY <1>1, <1>2, <1>3, <1>b, AllForms DEF Boots, Routes

\* Where Caddy does not see the file and nothing else fails, it goes on with the
\* deploys it had, which are still the last that succeeded.
StillInv == mount = "file" /\ ~FaultUsed => \A a \in Apps : a \notin removing => live.blk[a] = cur[a]

LEMMA InitStill == Init => StillInv
  BY DEF Init, StillInv

LEMMA NextStill == Longer = {} /\ SafeInv /\ KeepInv /\ StillInv /\ [OpsNext]_vars => StillInv'
  <1> SUFFICES ASSUME Longer = {}, SafeInv, KeepInv, StillInv, [OpsNext]_vars, mount' = "file", ~FaultUsed'
               PROVE  StillInv'
    BY DEF StillInv
  <1>b. Typed /\ Within /\ FileInv /\ BlindInv
    BY DEF SafeInv, Base
  <1>s. mount = "file" /\ ~FaultUsed
    BY <1>b, AllForms, Mishap DEF setup
  <1>r. \A a \in Apps : a \notin removing => live.blk[a] = cur[a]
    BY <1>s DEF StillInv
  <1>1. ASSUME NEW p \in Clients, NEW op \in Ops, NEW a \in Apps, NEW b \in Block, Starts(p, op, a, b)
        PROVE  StillInv'
    BY <1>1, <1>r DEF Starts, StillInv
  <1>2. ASSUME NEW p \in Clients, Forms(p), Busy(p) PROVE StillInv'
    <2>1. live' = live
      BY <1>2, <1>s, LiveMoves
    <2>2. cl[p].op \in Ops /\ cl[p].app \in Apps
      BY <1>2, <1>b DEF Busy, Typed, Running
    <2>3. CASE Ends(p)
      <3>1. cl[p].op # "set" /\ (cl[p].app \notin removing => cl[p].op \notin {"remove", "redirect"})
        BY <2>3, <1>b, <1>s DEF Ends, BlindInv, KeepInv, KeepOf
      <3>2. removing' = removing /\ \A a \in Apps : cur'[a] = cur[a] \/ a \in removing
        BY <2>2, <2>3, <3>1, <1>b DEF Ends, Succeed, Ops, world, Typed, TypeOK
      <3> QED
        BY <2>1, <3>2, <1>r DEF StillInv
    <2>4. CASE ~Ends(p)
      <3>1. UNCHANGED <<cur, removing>>
        BY <1>2, <2>4 DEF Forms, Waits, Fetches, Leaves, Perishes, GivesUp, Reads, Skips, Stashes, Uploads, Writes,
           Restores, Stumbles, Reloads, Refused, Reverts, Verifies, Fails, Forgets, Routes, world, Fail
      <3> QED
        BY <2>1, <3>1, <1>r DEF StillInv
    <2> QED
      BY <2>3, <2>4
  <1>3. CASE UNCHANGED <<Routes, cl, budget>>
    BY <1>3, <1>r DEF Routes, world, StillInv
  <1> QED
    BY <1>1, <1>2, <1>3, <1>b, <1>s, AllForms DEF Boots

\* Every app nobody works on is served by its last successful deploy or by the
\* maintenance page, as long as no process died, and no command failed where that
\* may leave a block that Caddy rejects, or where Caddy does not see the file.
THEOREM ServesLatestAlways ==
  ASSUME OneAtATime, Mortal, Deployed, Calm, Longer = {}
  PROVE  Spec => []ServesLatest
  <1> DEFINE Inv == SafeInv /\ KeepInv /\ KnownInv /\ CurInv /\ StillInv
  <1>1. Init => Inv
    BY InitSafe, InitKeep, InitKnown, InitCur, InitStill
  <1>2. Inv /\ [OpsNext]_vars => Inv'
    BY NextSafe, NextKeep, NextKnown, NextCur, NextStill DEF SafeInv
  <1>3. Inv => ServesLatest
    <2> SUFFICES ASSUME Inv, NoCrash, Noticed, RolledBack, FewMishaps, NEW a \in Apps, Quiet(a), a \notin removing
                 PROVE  live.blk[a] \in {cur[a], MaintBlock}
      BY DEF ServesLatest
    <2>1. \A p \in Clients : cl[p].app # a
      BY DEF Quiet, WorkingOn
    <2>2. mount \in {"directory", "file"} /\ (Clean => ~FaultUsed) /\ (budget.faults = MaxFaults => ~FaultUsed)
      BY CaddyAssumption DEF SafeInv, Base, Typed, TypeOK, Clean, FaultUsed
    <2>3. CASE mount = "file"
      BY <2>2, <2>3 DEF StillInv, Noticed
    <2>4. CASE mount = "directory"
      <3>1. Good
        BY <2>2, <2>4 DEF Good, Sighted, RolledBack
      <3>2. file.blk[a] \in {cur[a], MaintBlock}
        BY <2>1, <3>1 DEF CurInv
      <3>3. live.blk[a] = file.blk[a]
        <4>1. CASE \A p \in Clients : AtRest(cl[p])
          BY <3>1, <4>1 DEF KnownInv
        <4>2. ASSUME NEW p \in Clients, ~AtRest(cl[p]) PROVE live.blk[a] = file.blk[a]
          BY <2>1, <3>1, <4>2 DEF KnownInv, KnownOf, AtRest, Crit
        <4> QED
          BY <4>1, <4>2
      <3> QED
        BY <3>2, <3>3
    <2> QED
      BY <2>2, <2>3, <2>4
  <1> QED
    BY <1>1, <1>2, <1>3, PTL DEF Spec
=============================================================================
